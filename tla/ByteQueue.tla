----------------------------- MODULE ByteQueue -----------------------------
(***************************************************************************)
(* What class Buffer (src/buffer.h) promises its callers: a FIFO of bytes. *)
(* Bytes are appended at the back, consumed from the front, and a range   *)
(* of already buffered bytes may be overwritten in place (the response    *)
(* length patch of response_end).  Nothing here knows about capacity,     *)
(* wrap-around or growth: those are the concern of module Buffer, which   *)
(* is checked to implement this specification.                            *)
(***************************************************************************)
EXTENDS Naturals, Sequences

CONSTANTS Vals      \* the byte values the model distinguishes

VARIABLE q          \* the buffered bytes, oldest first

Put(s) == q' = q \o s

Take(n) ==
    /\ n <= Len(q)
    /\ q' = SubSeq(q, n + 1, Len(q))

\* Overwrite the bytes at 0-based positions pos .. pos+Len(s)-1.
Overwrite(pos, s) ==
    /\ pos + Len(s) <= Len(q)
    /\ q' = [i \in 1..Len(q) |->
               IF pos < i /\ i <= pos + Len(s) THEN s[i - pos] ELSE q[i]]

Init == q = <<>>

\* The arguments are read off the next state, so that the relation can be
\* checked as a property of a detailed specification.
Next ==
    \/ Put(SubSeq(q', Len(q) + 1, Len(q')))
    \/ \E n \in 1..Len(q) : Take(n)
    \/ \E pos \in 0..Len(q) - 1 : \E len \in 1..Len(q) - pos :
          Overwrite(pos, SubSeq(q', pos + 1, pos + len))

Spec == Init /\ [][Next]_q
=============================================================================
