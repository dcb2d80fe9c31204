----------------------------- MODULE MCStatusList -----------------------------
(* Small instances of StatusList for TLC.                                  *)
EXTENDS StatusList

CONSTANTS k1, k2, c1, c2, c3, q1

OneKey     == {k1}
TwoKeys    == {k1, k2}
TwoCalls   == {c1, c2}
ThreeCalls == {c1, c2, c3}
OneStatusRequest == {q1}
===============================================================================
