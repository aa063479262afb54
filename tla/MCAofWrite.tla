----------------------------- MODULE MCAofWrite -----------------------------
(* Two keys, two values, one member name, one score.  Keys and values are  *)
(* one byte each, so a frame is 16 to 28 bytes.                            *)
(*   BigCap    aof_buf's capacity exceeds every byte appended to one       *)
(*             buffer in a behaviour (two MaxBytes, one rewrite): it never *)
(*             wraps;                                                      *)
(*   SmallCap  24 bytes: the second frame already wraps, as a 1024-byte    *)
(*             buffer does every few dozen commands.                       *)
EXTENDS AofWrite

CONSTANTS k1, k2, a, b

MCKeys == {k1, k2}
MCStrVals == {a, b}
OneVal == {a}
MCCode(x) == CASE x = k1 -> <<65>> [] x = k2 -> <<66>> [] x = a -> <<97>> [] x = b -> <<98>>
MCNameBytes(n) == IF n = "" THEN <<>> ELSE <<120>>
PlainNames == {"x"}
NoNames == {}
OneScore == {10}
FarTtl == {-1, 2}
NoTtl == {-1}
MCMaxWorks == 1
MCMaxTime == 1
MCGrowStep == 1048576
BigCap == 160
SmallCap == 24
MCMaxBytes == 60
OneRewrite == 1
NoRewrite == 0
\* The failures of open(), fopen() and rename(), and power loss: a failed
\* or short write() that leaves bytes in aof_buf across a rewrite is
\* MCAofLeftover.cfg, and a short write followed by a kill the torn frame
\* of MCAofTornTail.cfg.
FsFaults == {"rename", "reopen", "open", "fopen", "power"}
\* fsync everysec waits 1000 ms; with one tick standing for more than a
\* second, a flush at a later tick than the last fsync fsyncs again.
MCSyncMs == 0
WriteError == {"error"}
NoFaults == {}
=============================================================================
