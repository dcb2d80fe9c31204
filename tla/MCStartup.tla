------------------------------ MODULE MCStartup ------------------------------
(* A small instance of Startup for TLC.                                    *)
EXTENDS Startup

CONSTANTS empty, number, phrase

EveryText  == {empty, number, phrase}
SomeTexts  == {empty, phrase}
LongTexts  == {phrase}
PortTexts  == {number, DefaultPort}
==============================================================================
