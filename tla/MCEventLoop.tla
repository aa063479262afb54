----------------------------- MODULE MCEventLoop ----------------------------
(* Two descriptors so that the idle list can be reordered and the handling *)
(* loop sees two ready connections; two keys with k_max_works scaled to 0, *)
(* so that two keys falling due take two timer passes; k_idle_timeout_ms   *)
(* scaled to 1 so that a connection falls idle within the clock bound.     *)
(* INT32_MAX is scaled down too: every timeout here stays far below it.    *)
EXTENDS EventLoop

CONSTANTS k1, k2, a

MCKeys == {k1, k2}
MCStrVals == {a}
NoNames == {}
NoScores == {}
MCTtlArgs == {-1, 1}
MCMaxWorks == 0
MCMaxTime == 3
MCFds == {1, 2}
MCIdleTimeout == 1
MCInt32Max == 32767
=============================================================================
