-------------------------- MODULE MCStatusListToken --------------------------
(* Sizes on either side of one and of two bytes.                           *)
EXTENDS StatusListToken

SmallSizes == {1, 7, 8, 9}
===============================================================================
