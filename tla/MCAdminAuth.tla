----------------------------- MODULE MCAdminAuth -----------------------------
(* Small instances of AdminAuth for TLC.                                   *)
EXTENDS AdminAuth

CONSTANTS s1, s2, c1, c2, c3, drawn, redrawn, chosen, next, other

OneServer        == {s1}
TwoServers       == {s1, s2}
OneCall          == {c1}
TwoCalls         == {c1, c2}
ThreeCalls       == {c1, c2, c3}
OneDrawn         == {drawn}
TwoDrawn         == {drawn, redrawn}
NothingChosen    == {}
OneChosen        == {chosen}
OneReplacement   == {next}
==============================================================================
