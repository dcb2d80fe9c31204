----------------------------- MODULE AdminAccount -----------------------------
(***************************************************************************)
(* What the administrator's account promises, with every decision a single *)
(* step: the account is created once; a call is told whether the password  *)
(* it presents is the one in force; and only a call that was told so may   *)
(* put another in its place.  AdminAuth implements it with a SELECT, a     *)
(* bcrypt.compare that may take its time, and a save.                      *)
(***************************************************************************)
CONSTANTS Passwords, Calls, NoValue

VARIABLES
  account,    \* the password in force, NoValue before there is an account
  presented,  \* the password each call presents
  new,        \* the one it wants instead, NoValue if it only logs in
  answer      \* what it was told: "none" yet, "right", "wrong" or "changed"

vars == <<account, presented, new, answer>>

Init ==
  /\ account = NoValue
  /\ presented = [c \in Calls |-> NoValue]
  /\ new = [c \in Calls |-> NoValue]
  /\ answer = [c \in Calls |-> "none"]

Create ==
  /\ account = NoValue
  /\ account' \in Passwords
  /\ UNCHANGED <<presented, new, answer>>

Check(c, p, n) ==
  /\ answer[c] = "none"
  /\ presented' = [presented EXCEPT ![c] = p]
  /\ new' = [new EXCEPT ![c] = n]
  /\ answer' = [answer EXCEPT ![c] = IF account = p THEN "right" ELSE "wrong"]
  /\ UNCHANGED account

Change(c) ==
  /\ answer[c] = "right"
  /\ new[c] # NoValue
  /\ account' = new[c]
  /\ answer' = [answer EXCEPT ![c] = "changed"]
  /\ UNCHANGED <<presented, new>>

Next ==
  \/ Create
  \/ \E c \in Calls : \/ \E p \in Passwords, n \in Passwords \cup {NoValue} : Check(c, p, n)
                      \/ Change(c)

Spec == Init /\ [][Next]_vars
===============================================================================
