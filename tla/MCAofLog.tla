------------------------------ MODULE MCAofLog ------------------------------
(* Two keys, two string values, one member name and two scores.  The       *)
(* configurations pick, for each question, which of the inputs that make   *)
(* the log and the store part ways are offered:                            *)
(*   TTLs      -1 only (clear); 2, which never falls due before MaxTime;  *)
(*             1, or 0 and 1, so keys fall due and expire;                 *)
(*   names     "x" only, or also the empty name "";                        *)
(*   scores    10 and 20 (1e-6 and 2e-6, printed exactly by to_string),    *)
(*             or 13 (1.3e-6, printed as 0.000001);                        *)
(*   rewrites  none, or up to two.                                         *)
EXTENDS AofLog

CONSTANTS k1, k2, a, b

MCKeys == {k1, k2}
MCStrVals == {a, b}
MCMaxWorks == 1
MCMaxTime == 2
MCMaxLog == 4

NoTtl == {-1}
FarTtl == {-1, 2}
ShortTtl == {-1, 1}
DueTtl == {-1, 0, 1}
PlainNames == {"x"}
WithEmptyName == {"x", ""}
ExactScores == {10, 20}
InexactScores == {13}
OneVal == {a}
ShortLog == 3
NoRewrite == 0
OneRewrite == 1
TwoRewrites == 2
=============================================================================
