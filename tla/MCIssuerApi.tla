----------------------------- MODULE MCIssuerApi -----------------------------
(* Small instances of IssuerApi for TLC.                                   *)
EXTENDS IssuerApi

CONSTANTS k1, k2, university, library, pem, x25519, old, new, a1, a2, r1, r2

OneKey         == {k1}
TwoKeys        == {k1, k2}
OneIdentifier  == {university}
TwoIdentifiers == {university, library}
OnePem         == {pem}
NoSigningPem   == {x25519}
BothPems       == {pem, x25519}
OneSecret      == {old}
TwoSecrets     == {old, new}
AllButX25519   == (Keys \cup Pems) \ {x25519}
NoReserved     == {}
StatusOnly     == {"status"}
AllReserved    == {"iss", "jti", "status"}
IssuerAndDates == {"iss", "exp", "nbf"}
OneApiKey      == {a1}
NoExpiry       == {}
SomeExpiries   == {0, 7}
SomeTimes      == 5..8
LateTimes      == {8}
OneRequest     == {r1}
TwoRequests    == {r1, r2}
==============================================================================
