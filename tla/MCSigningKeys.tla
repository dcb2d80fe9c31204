----------------------------- MODULE MCSigningKeys -----------------------------
(* A small instance of SigningKeys for TLC.                                *)
EXTENDS SigningKeys

CONSTANTS k1, k2, k3, university, library, pem, old, new

ThreeKeys      == {k1, k2, k3}
TwoIdentifiers == {university, library}
OnePem         == {pem}
TwoSecrets     == {old, new}
================================================================================
