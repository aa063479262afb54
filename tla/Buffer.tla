------------------------------- MODULE Buffer -------------------------------
(***************************************************************************)
(* class Buffer (src/buffer.h, src/buffer.cpp): the growable ring buffer   *)
(* used for Conn::incoming, Conn::outgoing and the AOF write buffer.       *)
(*                                                                         *)
(* A buffer is a record with the fields of the class:                      *)
(*   head, tail, cap (capacity), size (_size) and data, the heap array as  *)
(*   a function 0..cap-1 -> Vals \cup {Junk}.  Junk stands for a byte the  *)
(*   program never wrote (new uint8_t[] leaves memory uninitialized).      *)
(*   oob records that a memcpy wrote or read past the end of an array,     *)
(*   which is undefined behaviour in the code.                             *)
(* Every method is an operator from a buffer (and its arguments) to the    *)
(* buffer it leaves behind, so that the modules of the connections and of  *)
(* the AOF apply them to their own buffers.  The variable buf and the      *)
(* actions at the end drive one buffer through the calls its callers make. *)
(***************************************************************************)
EXTENDS Naturals, Sequences

CONSTANTS
    Vals,         \* byte values the model distinguishes
    Junk,         \* an uninitialized byte
    InitCap,      \* Buffer(size_t capacity = 1024)
    GrowStep,     \* the 1 MiB threshold and increment of append's growth
    MaxLen,       \* longest single append the driver makes
    MaxSize       \* the driver never buffers more than this many bytes

ASSUME Junk \notin Vals /\ InitCap > 0 /\ GrowStep > 0

VARIABLE buf

Byte == Vals \cup {Junk}

\* Buffer::Buffer(capacity): the array is allocated but not written.
NewBuffer(c) ==
    [head |-> 0, tail |-> 0, cap |-> c, size |-> 0,
     data |-> [i \in 0..c - 1 |-> Junk], oob |-> FALSE]

\* Faulty variants of resize, each a slip the code could have made: one
\* does the two memcpy calls of a wrapped buffer in the wrong order, one
\* omits the second of them.
ResizeSwapped(b, nc) ==
    LET old(i) == IF b.head < b.tail THEN b.data[b.head + i]
                  ELSE IF i < b.tail THEN b.data[i]
                  ELSE b.data[b.head + i - b.tail]
    IN  [b EXCEPT !.head = 0, !.tail = b.size, !.cap = nc,
                  !.data = [i \in 0..nc - 1 |->
                              IF i < b.size THEN old(i) ELSE Junk]]
ResizeOneMemcpy(b, nc) ==
    LET copied == IF b.head < b.tail THEN b.size ELSE b.cap - b.head
    IN  [b EXCEPT !.head = 0, !.tail = b.size, !.cap = nc,
                  !.data = [i \in 0..nc - 1 |->
                              IF i < copied THEN b.data[b.head + i] ELSE Junk]]

\* Buffer::resize(new_capacity): copy the live bytes to the front of a new
\* array.  The test head < tail chooses between one and two memcpy calls;
\* the number of bytes copied is written into an array of new_capacity
\* bytes whether or not they fit.
Resize(b, nc) ==
    LET right  == b.cap - b.head
        copied == IF b.head < b.tail THEN b.size ELSE right + b.tail
        old(i) == IF b.head < b.tail \/ i < right
                  THEN b.data[b.head + i] ELSE b.data[i - right]
    IN  [b EXCEPT !.head = 0, !.tail = b.size, !.cap = nc,
                  !.data = [i \in 0..nc - 1 |-> IF i < copied THEN old(i) ELSE Junk],
                  !.oob  = @ \/ copied > nc]

\* The memcpy pair of a wrapping write: the bytes of s go to positions
\* start, start+1, ... of an array of c bytes, continuing at 0 past its end.
RECURSIVE WriteAt(_, _, _, _)
WriteAt(d, c, start, s) ==
    IF s = <<>> THEN d
    ELSE WriteAt([d EXCEPT ![start % c] = Head(s)], c, start + 1, Tail(s))

\* Capacity chosen by append when len + _size exceeds it.
GrowCap(b, len) ==
    IF len + b.size < GrowStep THEN (len + b.size) * 2
                               ELSE len + b.size + GrowStep

\* Buffer::append(data, len); append_u8/u32/i64/dbl are appends of 1, 4
\* and 8 bytes.  Both branches of the wrap test store byte k at
\* (tail + k) mod capacity; only the new tail differs (tail may equal cap).
BufAppend(b, s) ==
    LET len == Len(s)
        g   == IF len + b.size > b.cap THEN Resize(b, GrowCap(b, len)) ELSE b
    IN  [g EXCEPT
           !.data = WriteAt(g.data, g.cap, g.tail, s),
           !.tail = IF g.tail + len > g.cap THEN g.tail + len - g.cap
                                            ELSE g.tail + len,
           !.size = g.size + len]

\* A faulty consume that forgets to wrap head at the end of the array.
ConsumeNoWrap(b, n) == [b EXCEPT !.head = b.head + n, !.size = @ - n]

\* Buffer::consume(len)
Consume(b, n) == [b EXCEPT !.head = (b.head + n) % b.cap, !.size = @ - n]

\* Buffer::peek(dst, pos, len): a no-op (dst keeps whatever it held, here
\* Junk) when pos is outside the live bytes.
Peek(b, pos, len) ==
    IF pos >= b.size THEN [k \in 1..len |-> Junk]
    ELSE [k \in 1..len |-> b.data[(b.head + pos + k - 1) % b.cap]]

\* A faulty variant that does not stop the span at the end of the array.
ContinuousLenNoClamp(b, pos) ==
    IF pos >= b.size THEN 0 ELSE b.size - pos

\* Buffer::get_continuous_data(pos, &ptr, &size): the length of the span
\* handed to write(); the span starts at (head + pos) mod cap.
ContinuousLen(b, pos) ==
    LET real == (b.head + pos) % b.cap
    IN  IF pos >= b.size THEN 0
        ELSE IF real + b.size <= b.cap THEN b.tail - real
        ELSE b.cap - real

\* A faulty insert that copies in one piece even across the end of the
\* array.
InsertNoWrap(b, s, pos) ==
    LET real == (b.head + pos) % b.cap
    IN  IF pos >= b.size THEN b
        ELSE [b EXCEPT !.data = [i \in 0..b.cap - 1 |->
                                  IF real <= i /\ i < real + Len(s) THEN s[i - real + 1]
                                  ELSE b.data[i]],
                       !.oob = @ \/ real + Len(s) > b.cap]

\* Buffer::insert(data, len, pos): overwrite in place; extends the size
\* and grows to twice the size when the write runs past the end.
Insert(b, s, pos) ==
    LET len  == Len(s)
        ext  == IF pos + len > b.size
                THEN [b EXCEPT !.size = pos + len,
                               !.tail = (b.head + pos + len) % b.cap]
                ELSE b
        g    == IF ext.size > ext.cap THEN Resize(ext, ext.size * 2) ELSE ext
        real == (g.head + pos) % g.cap
    IN  IF pos >= b.size THEN b
        ELSE [g EXCEPT !.data = WriteAt(g.data, g.cap, real, s)]

\* The bytes the buffer holds, oldest first: peek(dst, 0, size).
Contents(b) == Peek(b, 0, b.size)

-----------------------------------------------------------------------------
(* A driver making the calls the callers of Buffer make.                   *)

Init == buf = NewBuffer(InitCap)

\* buf_append and the append_* helpers (response encoding, read(), AOF).
AppendBytes ==
    \E len \in 1..MaxLen, s \in [1..MaxLen -> Vals] :
        /\ buf.size + len <= MaxSize
        /\ buf' = BufAppend(buf, SubSeq(s, 1, len))

\* consume() after write() returned n bytes of the contiguous span, or after
\* a request of n bytes was handled.
ConsumeBytes ==
    \E n \in 1..buf.size : buf' = Consume(buf, n)

\* response_end's patch of a 4-byte length at an earlier header position;
\* the callers only patch bytes already buffered.
PatchBytes ==
    \E pos \in 0..buf.size - 1, len \in 1..MaxLen, s \in [1..MaxLen -> Vals] :
        /\ pos + len <= buf.size
        /\ buf' = Insert(buf, SubSeq(s, 1, len), pos)

Next == AppendBytes \/ ConsumeBytes \/ PatchBytes

Spec == Init /\ [][Next]_buf

-----------------------------------------------------------------------------
TypeOK ==
    /\ buf.cap \in Nat \ {0}
    /\ buf.head \in 0..buf.cap - 1
    /\ buf.tail \in 0..buf.cap
    /\ buf.size \in 0..buf.cap
    /\ buf.data \in [0..buf.cap - 1 -> Byte]
    /\ buf.oob \in BOOLEAN

\* Whatever sequence of appends, consumes and patches the callers make, the
\* contents read through peek behave as a FIFO of bytes: Buffer implements
\* ByteQueue under the mapping q <- Contents(buf).
Queue == INSTANCE ByteQueue WITH q <- Contents(buf)
ImplementsByteQueue == Queue!Spec

\* No memcpy of append, resize or insert leaves an array, and every
\* buffered byte is one a caller wrote (never an uninitialized one).
NoOverrun ==
    /\ ~buf.oob
    /\ \A k \in 1..buf.size : Contents(buf)[k] # Junk

\* The span get_continuous_data(0) hands to write() in handle_write and
\* aof_flush_and_sync is non-empty when bytes are buffered, and never runs
\* past the live bytes or the end of the array.
ContinuousSpanSafe ==
    buf.size > 0 =>
        /\ ContinuousLen(buf, 0) \in 1..buf.size
        /\ buf.head + ContinuousLen(buf, 0) <= buf.cap
=============================================================================
