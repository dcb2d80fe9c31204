----------------------------- MODULE KeyRegistry -----------------------------
(***************************************************************************)
(* What the table of signing keys promises, with every operation a single  *)
(* step: a row comes whole, under an identifier no other row has and a     *)
(* UUID no row ever had, with a key pair that is its own or was imported,  *)
(* sealed with the STORAGE_SECRET in force at that moment; it never        *)
(* changes, and its deletion is for good.  It says nothing of forms, of    *)
(* checks ahead of the INSERT or of what a restart cuts off; SigningKeys   *)
(* implements it.                                                          *)
(***************************************************************************)

CONSTANTS
  Keys,         \* the UUIDs a row may get
  Identifiers,
  Pems,         \* key pairs an administrator may import
  Secrets       \* values of STORAGE_SECRET

VARIABLES
  rows,    \* the rows of signing_keys
  used,    \* the UUIDs of the rows that are or were there
  secret   \* the STORAGE_SECRET in force

vars == <<rows, used, secret>>

Row == [key : Keys, identifier : Identifiers, pair : Keys \cup Pems, sealedWith : Secrets]

Init ==
  /\ rows = {}
  /\ used = {}
  /\ secret \in Secrets

Add(row) ==
  /\ row.key \notin used
  /\ \A other \in rows : other.identifier # row.identifier
  /\ row.pair \in Pems \cup {row.key}
  /\ row.sealedWith = secret
  /\ rows' = rows \cup {row}
  /\ used' = used \cup {row.key}
  /\ UNCHANGED secret

Remove(row) ==
  /\ row \in rows
  /\ rows' = rows \ {row}
  /\ UNCHANGED <<used, secret>>

Reconfigure(s) ==
  /\ secret' = s
  /\ UNCHANGED <<rows, used>>

Next ==
  \/ \E row \in Row : Add(row) \/ Remove(row)
  \/ \E s \in Secrets : Reconfigure(s)

Spec == Init /\ [][Next]_vars
===============================================================================
