------------------------------- MODULE Codec --------------------------------
(***************************************************************************)
(* One connection's bytes (src/server.cpp).  The request side: handle_read *)
(* appends what read() returns to Conn::incoming, and try_one_request, in  *)
(* a loop, takes the length header with peek_u32, the body with peek,      *)
(* parses it with parse_req and consumes the frame.  The response side:    *)
(* the out_* serializers, response_begin / response_end with the in-place  *)
(* length patch, out_begin_arr / out_end_arr with the in-place count       *)
(* patch, and the write side (handle_read's optimistic write and           *)
(* handle_write).  incoming and outgoing are Buffers (module Buffer);      *)
(* every serializer is the sequence of buf_append_* calls the code makes,  *)
(* each of which may grow the buffer on its own.                           *)
(*                                                                         *)
(* The client sends frames of the set Requests, good ones and the three    *)
(* kinds the spec says close the connection; a read returns a number of   *)
(* the bytes sent and not yet read taken from the constant ReadSizes (the  *)
(* kernel's split).  What do_request answers is the constant ReplyOf.      *)
(*                                                                         *)
(* Bytes are numbers 0..255; the bytes of names and of doubles, which no   *)
(* property looks into, are the model value Opaque.  Multi-byte integers   *)
(* are copied in host order, little-endian on the target.                  *)
(*                                                                         *)
(* A reply is what a handler emits, as a record:                           *)
(*   [kind |-> "nil"]                 out_nil                              *)
(*   [kind |-> "int", v |-> n]        out_int                              *)
(*   [kind |-> "keys", ks |-> <<..>>] do_keys: out_arr, out_str per key    *)
(*   [kind |-> "zq", ns |-> <<..>>]   do_zquery: out_begin_arr, out_str    *)
(*                                    and out_dbl per member, out_end_arr  *)
(* where keys and names are sequences of bytes.                            *)
(***************************************************************************)
EXTENDS Integers, Sequences

CONSTANTS
    Junk, InitCap, GrowStep,
    Opaque,       \* a byte of a name or of a double
    MaxMsg,       \* k_max_msg
    TooBigMsg,    \* the bytes of "response is too big."
    InCap,        \* the initial capacity of incoming
    Nil,          \* parse_req's -1
    Requests,     \* the frames the client may send (records, see ReqFrame)
    ReplyOf(_),   \* do_request: the reply to an argument vector
    MaxRequests,  \* frames the client sends over the whole behaviour
    ReadSizes     \* the most bytes one read() returns (the kernel's split)

VARIABLES
    out,          \* Conn::outgoing
    pending,      \* the bytes of the replies produced and not yet written
    wantRead,     \* Conn::want_read (want_write is its negation here)
    wantClose,    \* Conn::want_close
    incoming,     \* Conn::incoming
    stream,       \* the bytes the client sent that read() has not returned
    sent,         \* the frames the client sent, in order (history)
    executed      \* the argument vectors passed to do_request (history)

vars == <<out, pending, wantRead, wantClose, incoming, stream, sent, executed>>

LOCAL SE == INSTANCE SequencesExt
LOCAL FS == INSTANCE FiniteSetsExt

B == INSTANCE Buffer WITH Vals <- 0..255 \cup {Opaque}, buf <- out,
                          MaxLen <- 0, MaxSize <- 0

TAG_NIL == 0
TAG_ERR == 1
TAG_STR == 2
TAG_INT == 3
TAG_DBL == 4
TAG_ARR == 5
ERR_TOO_BIG == 2

\* Host-order (little-endian) images of a uint32_t and of an int64_t (two's
\* complement, for the values of magnitude below 2^31 the model uses), and
\* the eight bytes of a double.
U32(n) == [i \in 1..4 |-> (n \div (256 ^ (i - 1))) % 256]
I64(n) ==
    [i \in 1..8 |->
        IF n >= 0 THEN IF i > 4 THEN 0 ELSE (n \div (256 ^ (i - 1))) % 256
        ELSE IF i > 4 THEN 255 ELSE 255 - (((-n - 1) \div (256 ^ (i - 1))) % 256)]
Dbl == [i \in 1..8 |-> Opaque]

-----------------------------------------------------------------------------
(* The request side.  A u32 is read from four bytes d[i..i+3]; a value of  *)
(* 2^18 or more only ever exceeds k_max_args, k_max_msg and the bytes      *)
(* left, so it is represented by 2^18 (TLC's integers are 32 bits wide).   *)

\* k_max_args
K_MAX_ARGS == 200000

U32Val(d, i) ==
    IF d[i + 3] > 0 \/ d[i + 2] > 3 THEN 2 ^ 18
    ELSE d[i] + 256 * d[i + 1] + 65536 * d[i + 2]

\* parse_req's while loop from offset p (1-based) of body d, n strings
\* still to read: read_u32 of the length, read_str of the bytes, each
\* failing when the body ends first; then the trailing-garbage test.
\* Returns the argument vector, or Nil for -1.
RECURSIVE ParseStrs(_, _, _, _)
ParseStrs(d, p, n, args) ==
    IF n = 0 THEN IF p = Len(d) + 1 THEN args ELSE Nil
    ELSE IF p + 4 > Len(d) + 1 THEN Nil
    ELSE LET len == U32Val(d, p)
         IN  IF p + 4 + len > Len(d) + 1 THEN Nil
             ELSE ParseStrs(d, p + 4 + len, n - 1, Append(args, SubSeq(d, p + 4, p + 3 + len)))

\* parse_req: read_u32 of nstr, the k_max_args limit, the loop.
ParseReq(d) ==
    IF Len(d) < 4 THEN Nil
    ELSE IF U32Val(d, 1) > K_MAX_ARGS THEN Nil
    ELSE ParseStrs(d, 5, U32Val(d, 1), <<>>)

-----------------------------------------------------------------------------
(* The serializers, as buf_append calls on a Buffer.                       *)

OutNil(b) == B!BufAppend(b, <<TAG_NIL>>)

OutStr(b, s) == B!BufAppend(B!BufAppend(B!BufAppend(b, <<TAG_STR>>), U32(Len(s))), s)

OutInt(b, v) == B!BufAppend(B!BufAppend(b, <<TAG_INT>>), I64(v))

OutDbl(b) == B!BufAppend(B!BufAppend(b, <<TAG_DBL>>), Dbl)

OutErr(b, code, msg) ==
    B!BufAppend(B!BufAppend(B!BufAppend(B!BufAppend(b, <<TAG_ERR>>), U32(code)),
                            U32(Len(msg))), msg)

OutArr(b, n) == B!BufAppend(B!BufAppend(b, <<TAG_ARR>>), U32(n))

\* out_begin_arr: the tag, a zero count, and ctx = size - 4.
OutBeginArr(b) == OutArr(b, 0)

\* out_end_arr: memcpy(&out[ctx], &n, 4).  operator[] wraps the index, but
\* the four bytes are copied to consecutive array cells from there; bytes
\* past the end of the array land outside it (undefined behaviour).
OutEndArr(b, ctx, n) ==
    LET p == (b.head + ctx) % b.cap
    IN  [b EXCEPT !.data = [i \in 0..b.cap - 1 |->
                             IF p <= i /\ i < p + 4 THEN U32(n)[i - p + 1] ELSE b.data[i]],
                  !.oob  = @ \/ p + 4 > b.cap]

\* out_str for each key of ks, and out_str, out_dbl for each name of ns.
RECURSIVE OutStrs(_, _), OutMembers(_, _)
OutStrs(b, ks) == IF ks = <<>> THEN b ELSE OutStrs(OutStr(b, Head(ks)), Tail(ks))
OutMembers(b, ns) == IF ns = <<>> THEN b ELSE OutMembers(OutDbl(OutStr(b, Head(ns))), Tail(ns))

\* The body a handler emits for reply r.
Body(b, r) ==
    CASE r.kind = "nil"  -> OutNil(b)
      [] r.kind = "int"  -> OutInt(b, r.v)
      [] r.kind = "keys" -> OutStrs(OutArr(b, Len(r.ks)), r.ks)
      [] r.kind = "zq"   ->
           LET begun == OutBeginArr(b)
               ctx   == begun.size - 4
           IN  OutEndArr(OutMembers(begun, r.ns), ctx, 2 * Len(r.ns))

\* A faulty response_size that counts the header in the length.
RespondSizeOff(b, r) ==
    LET header == b.size
        body   == Body(B!BufAppend(b, U32(0)), r)
    IN  B!Insert(body, U32(body.size - header), header)

\* response_begin, the handler, response_end (try_one_request).  A body
\* over k_max_msg is to be cut back with out.resize(header + 4) and
\* replaced by ERR_TOO_BIG; but Buffer::resize sets the capacity, not the
\* size, so it copies the whole body into header + 4 bytes: what the code
\* does after that overrun is undefined and not modelled.  Otherwise the
\* length is patched in place with insert.
Respond(b, r) ==
    LET header == b.size
        body   == Body(B!BufAppend(b, U32(0)), r)
        cut    == B!Resize(body, header + 4)
    IN  IF body.size - header - 4 > MaxMsg
        THEN IF cut.oob THEN cut
             ELSE LET e == OutErr(cut, ERR_TOO_BIG, TooBigMsg)
                  IN  B!Insert(e, U32(e.size - header - 4), header)
        ELSE B!Insert(body, U32(body.size - header - 4), header)

-----------------------------------------------------------------------------
(* What the client must receive: the response frame of section 4.2 of the  *)
(* spec, written independently of the buffer code.                         *)

Concat(ss) == SE!FlattenSeq(ss)

StrBytes(s) == <<TAG_STR>> \o U32(Len(s)) \o s

Value(r) ==
    CASE r.kind = "nil"  -> <<TAG_NIL>>
      [] r.kind = "int"  -> <<TAG_INT>> \o I64(r.v)
      [] r.kind = "keys" -> <<TAG_ARR>> \o U32(Len(r.ks))
                              \o Concat([i \in 1..Len(r.ks) |-> StrBytes(r.ks[i])])
      [] r.kind = "zq"   -> <<TAG_ARR>> \o U32(2 * Len(r.ns))
                              \o Concat([i \in 1..Len(r.ns) |->
                                           StrBytes(r.ns[i]) \o <<TAG_DBL>> \o Dbl])

\* The request frame of section 4.2 of the spec for a frame f of Requests:
\* f.args, and f.bad saying how it breaks the protocol: "none", "toolong"
\* (total_len above the cap), "nargs" (nstr above 200,000), "trailing" (a
\* byte after the last string) or "strlen" (the last string's len one
\* more than the bytes left).
ReqFrame(f) ==
    LET slen(i) == Len(f.args[i]) + (IF f.bad = "strlen" /\ i = Len(f.args) THEN 1 ELSE 0)
        strs == Concat([i \in 1..Len(f.args) |-> U32(slen(i)) \o f.args[i]])
        nstr == IF f.bad = "nargs" THEN K_MAX_ARGS + 1 ELSE Len(f.args)
        body == U32(nstr) \o strs \o (IF f.bad = "trailing" THEN <<0>> ELSE <<>>)
    IN  U32(IF f.bad = "toolong" THEN MaxMsg + 1 ELSE Len(body)) \o body

\* An oversized value is replaced by a single ERR(TOO_BIG).
Frame(r) ==
    LET v == IF Len(Value(r)) > MaxMsg
             THEN <<TAG_ERR>> \o U32(ERR_TOO_BIG) \o U32(Len(TooBigMsg)) \o TooBigMsg
             ELSE Value(r)
    IN  U32(Len(v)) \o v

-----------------------------------------------------------------------------
(* One connection.                                                         *)

\* try_one_request's view of incoming: the length header (peek_u32), the
\* body (peek) and what parse_req makes of it.
ReqLen(in) == U32Val(B!Peek(in, 0, 4), 1)
ReqArgs(in) == ParseReq(B!Peek(in, 4, ReqLen(in)))

\* try_one_request succeeds: 4 bytes of header, a length within k_max_msg,
\* the whole body, and parse_req accepts it.
Complete(in) == in.size >= 4 /\ ReqLen(in) <= MaxMsg /\ 4 + ReqLen(in) <= in.size

\* try_one_request sets want_close: a length over k_max_msg, or a whole
\* body parse_req rejects.
Rejected(in) ==
    in.size >= 4 /\ (ReqLen(in) > MaxMsg \/ (Complete(in) /\ ReqArgs(in) = Nil))

\* A faulty consume that removes the body but not its header.
ConsumedNoHeader(in) == B!Consume(in, ReqLen(in))

\* incoming after a successful try_one_request: consume(4 + len).
Consumed(in) == B!Consume(in, 4 + ReqLen(in))

\* while (try_one_request(conn)) {} from incoming in, outgoing o, with the
\* argument vectors served so far exec; a request is answered by
\* response_begin, do_request and response_end, then consumed.  Once a
\* memcpy has run past an array (o.oob) the behaviour is undefined and the
\* loop is not followed further.  The next turn's arguments are bound
\* through one-element sets so that TLC computes each of them once.
RECURSIVE TryRequests(_, _, _)
TryRequests(in, o, exec) ==
    IF Complete(in) /\ ReqArgs(in) # Nil /\ ~o.oob
    THEN CHOOSE r \in {TryRequests(i2, o2, e2) : i2 \in {Consumed(in)},
                                                 o2 \in {Respond(o, ReplyOf(ReqArgs(in)))},
                                                 e2 \in {Append(exec, ReqArgs(in))}} : TRUE
    ELSE [in |-> in, out |-> o, exec |-> exec, close |-> Rejected(in)]

\* The outcomes of write(fd, span, size) on a non-blocking socket: EAGAIN
\* (modelled as 0 bytes) or a short or full write of the span.
Written(b) == 0..B!ContinuousLen(b, 0)

\* handle_write after write() of buffer b returned rv: consume, and switch
\* back to reading once outgoing is empty; p is what the client must
\* still receive.
AfterWrite(b, p, rv) ==
    /\ out' = IF rv = 0 THEN b ELSE B!Consume(b, rv)
    /\ pending' = SubSeq(p, rv + 1, Len(p))
    /\ wantRead' = (out'.size = 0)

\* The client has sent up to MaxRequests frames at once; a read() returns
\* the next k bytes for k in ReadSizes (or all that is left), so a run
\* with ReadSizes {1, 64} reads one byte at a time, stopping at every
\* position of a header or a body, or everything left at once, which
\* pipelines every frame not yet read; a mix of the two in between.
Init ==
    /\ out = B!NewBuffer(InitCap)
    /\ incoming = B!NewBuffer(InCap)
    /\ pending = <<>>
    /\ wantRead = TRUE
    /\ wantClose = FALSE
    /\ sent \in UNION {[1..n -> Requests] : n \in 1..MaxRequests}
    /\ stream = Concat([i \in 1..Len(sent) |-> ReqFrame(sent[i])])
    /\ executed = <<>>

\* handle_read when read() returns the next k bytes (r of ReadSizes, or
\* what is left if that is less): buf_append to incoming, the
\* try_one_request loop, then, if a response is buffered, want_write and
\* the optimistic handle_write.
HandleRead ==
    /\ wantRead /\ ~wantClose
    /\ stream # <<>>
    /\ \E k \in {IF r < Len(stream) THEN r ELSE Len(stream) : r \in ReadSizes} :
       \E c \in {TryRequests(B!BufAppend(incoming, SubSeq(stream, 1, k)), out, executed)} :
         LET n == Len(c.exec) - Len(executed)
             p == pending \o Concat([i \in 1..n |-> Frame(ReplyOf(c.exec[Len(executed) + i]))])
         IN  /\ stream' = SubSeq(stream, k + 1, Len(stream))
             /\ incoming' = c.in
             /\ executed' = c.exec
             /\ wantClose' = c.close
             /\ IF c.out.size > 0 THEN \E rv \in Written(c.out) : AfterWrite(c.out, p, rv)
                ELSE UNCHANGED <<out, pending, wantRead>>
    /\ UNCHANGED sent

\* handle_write on POLLOUT.
HandleWrite ==
    /\ ~wantRead /\ ~wantClose
    /\ \E rv \in Written(out) : AfterWrite(out, pending, rv)
    /\ UNCHANGED <<wantClose, incoming, stream, sent, executed>>

Next == HandleRead \/ HandleWrite

Spec == Init /\ [][Next]_vars

-----------------------------------------------------------------------------
TypeOK ==
    /\ B!TypeOK
    /\ pending \in Seq(0..255 \cup {Opaque})
    /\ wantRead \in BOOLEAN
    /\ wantClose \in BOOLEAN
    /\ incoming.size <= incoming.cap
    /\ Len(sent) <= MaxRequests

\* Through pipelined requests, buffer growth, wrap-around and short writes,
\* outgoing holds exactly the response frames (section 4.2 of the spec) of
\* the requests handled, minus the bytes already written, in request
\* order: every length header patched by response_end and every count
\* patched by out_end_arr is the one the frame needs, and handle_write
\* sends a prefix of it.
OutgoingIsFrames == B!Contents(out) = pending

\* No memcpy of the serializers, of out_end_arr or of the TOO_BIG path
\* writes outside the array of outgoing.
NoOverrun == ~out.oob

\* The number of frames the client sent before its first bad one.
GoodPrefixLen ==
    LET bad == {i \in 1..Len(sent) : sent[i].bad # "none"}
    IN  IF bad = {} THEN Len(sent) ELSE FS!Min(bad) - 1

\* Whether read() returns one byte or all that is left, and wherever the frames lie in the
\* ring of incoming, try_one_request passes to do_request exactly the
\* argument vectors the client sent, in order, up to its first bad frame;
\* once every byte sent has been read, every complete request has been
\* served (none is left waiting in incoming), and the connection is to be
\* closed exactly when a bad frame was sent.
RequestsServedInOrder ==
    /\ Len(executed) <= GoodPrefixLen
    /\ \A i \in 1..Len(executed) : executed[i] = sent[i].args
    /\ stream = <<>> => /\ Len(executed) = GoodPrefixLen
                        /\ wantClose = (GoodPrefixLen < Len(sent))
=============================================================================
