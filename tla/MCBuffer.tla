------------------------------ MODULE MCBuffer ------------------------------
(* Buffer with a capacity of 2 bytes and a growth threshold of 4 bytes in  *)
(* place of 1024 bytes and 1 MiB.  Appends of 1 or 2 bytes then wrap      *)
(* (tail + len > cap), end exactly at the array's end (tail = cap), fill   *)
(* the buffer (head = tail, size = cap), and grow from wrapped and from    *)
(* unwrapped states on both sides of the threshold: 3 bytes needed double  *)
(* to cap 6, 4 bytes needed add the step, to cap 8.                        *)
EXTENDS Buffer

CONSTANTS v1, v2

MCVals == {v1, v2}
MCInitCap == 2
MCGrowStep == 4
MCMaxLen == 2
MCMaxSize == 4
=============================================================================
