---------------------------- MODULE StatusRegistry ----------------------------
(***************************************************************************)
(* What the status list of a signing key promises, with every operation a  *)
(* single step: a credential is given an index of the list that no other   *)
(* credential of the key has, a revocation marks that entry and nothing    *)
(* takes the mark back, and both last until the signing key is deleted.    *)
(* It says nothing of how an index is found; StatusList implements it with *)
(* a counter, a conditional UPDATE and a transaction.                      *)
(***************************************************************************)
EXTENDS Integers

CONSTANTS
  Keys,            \* the UUIDs a row of signing_keys may get
  Credentials,     \* the jti values (one crypto.randomUUID() per issuance)
  StatusListSize   \* entries in a status list

VARIABLES
  keyRow,    \* [Keys -> {"unborn", "live", "deleted"}]; a UUID is never reused
  entries,   \* the entries given out and not deleted
  revoked    \* those of them that are revoked

vars == <<keyRow, entries, revoked>>

Entry == [key : Keys, index : 0..(StatusListSize - 1), credential : Credentials]

EntriesOf(k) == {e \in entries : e.key = k}

Init ==
  /\ keyRow = [k \in Keys |-> "unborn"]
  /\ entries = {}
  /\ revoked = {}

Create(k) ==
  /\ keyRow[k] = "unborn"
  /\ keyRow' = [keyRow EXCEPT ![k] = "live"]
  /\ UNCHANGED <<entries, revoked>>

(* Mutant: only the credentials differ.                                    *)
AllocateAnyIndex(e) ==
  /\ keyRow[e.key] = "live"
  /\ \A f \in entries : f.credential # e.credential
  /\ entries' = entries \cup {e}
  /\ UNCHANGED <<keyRow, revoked>>

(* Any index will do, as long as the key has not given it out.             *)
Allocate(e) ==
  /\ keyRow[e.key] = "live"
  /\ \A f \in entries : /\ f.credential # e.credential
                        /\ f.key = e.key => f.index # e.index
  /\ entries' = entries \cup {e}
  /\ UNCHANGED <<keyRow, revoked>>

(* Mutant: a second revocation takes the first one back.                   *)
RevokeToggles(e) ==
  /\ e \in entries
  /\ revoked' = (revoked \ {e}) \cup ({e} \ revoked)
  /\ UNCHANGED <<keyRow, entries>>

Revoke(e) ==
  /\ e \in entries
  /\ revoked' = revoked \cup {e}
  /\ UNCHANGED <<keyRow, entries>>

Delete(k) ==
  /\ keyRow[k] = "live"
  /\ keyRow' = [keyRow EXCEPT ![k] = "deleted"]
  /\ entries' = {e \in entries : e.key # k}
  /\ revoked' = {e \in revoked : e.key # k}

Next ==
  \/ \E k \in Keys : Create(k) \/ Delete(k)
  \/ \E e \in Entry : Allocate(e) \/ Revoke(e)

Spec == Init /\ [][Next]_vars
===============================================================================
