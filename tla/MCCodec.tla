------------------------------ MODULE MCCodec -------------------------------
(* One connection whose buffers start at 8 (outgoing) and 16 (incoming)    *)
(* bytes, 1024 in the code, scaled down with the frames so that growth and *)
(* wrap-around happen within a few requests.  A command name, a key and an *)
(* argument are one byte each: "g k" stands for get, "p k 1" for pexpire,  *)
(* "K" for keys and "z" for zquery, and ReplyOf is what their handlers     *)
(* answer on a store holding one key.  Keys and names in replies are one   *)
(* opaque byte.                                                            *)
EXTENDS Codec

CONSTANTS Opq

Name == <<Opq>>

NilReply  == [kind |-> "nil"]
IntReply  == [kind |-> "int", v |-> 1]
KeysReply == [kind |-> "keys", ks |-> <<Name>>]
ZqReply   == [kind |-> "zq", ns |-> <<Name>>]

GetArgs     == <<<<103>>, <<107>>>>
PexpireArgs == <<<<112>>, <<107>>, <<49>>>>
KeysArgs    == <<<<75>>>>
ZqueryArgs  == <<<<122>>>>

MCReplyOf(args) ==
    CASE args = GetArgs     -> NilReply
      [] args = PexpireArgs -> IntReply
      [] args = KeysArgs    -> KeysReply
      [] args = ZqueryArgs  -> ZqReply

Good(args) == [args |-> args, bad |-> "none"]

\* Frames 13 to 23 bytes long, and one of each kind that closes.
BadFrames == {[args |-> GetArgs, bad |-> "trailing"],
              [args |-> <<>>, bad |-> "nargs"],
              [args |-> <<>>, bad |-> "toolong"],
              [args |-> GetArgs, bad |-> "strlen"]}
\* Requests whose replies need no out_end_arr patch.
PlainRequests == {Good(GetArgs), Good(PexpireArgs), Good(KeysArgs)} \cup BadFrames
\* get and zquery, whose reply's count is patched through operator[].
ArrRequests == {Good(GetArgs), Good(ZqueryArgs)}
KeysOnly == {Good(KeysArgs)}

MCInitCap == 8
MCInCap == 16
MCGrowStep == 64      \* 1 MiB: every growth in the model doubles
MCTooBigMsg == <<Opq>>

\* A cap above every frame of the model.
LargeMaxMsg == 64
\* A cap above the keys request (9 bytes) and below its reply (11 bytes).
SmallMaxMsg == 10

MCMaxRequests == 4
\* One byte, so that reads split headers, bodies and frames anywhere, or
\* all that is there.
MCReadSizes == {1, 64}
LongRun == 6
=============================================================================
