----------------------------- MODULE SigningKeys -----------------------------
(***************************************************************************)
(* KeysService (src/src/keys/keys.service.ts) behind the key forms of the  *)
(* admin interface: a signing key is created (pair generated) or imported  *)
(* (pair read from a PEM), looked up by identifier and deleted.  Both ways *)
(* check that the identifier is free, then generate or parse and encrypt,  *)
(* and only then save the row: two forms may pass the check together and   *)
(* the unique column decides.                                              *)
(*                                                                         *)
(* A form is named by the UUID its row would get, so k is both; the key    *)
(* pair generated for k is k itself.  Private keys are sealed with the     *)
(* STORAGE_SECRET of the running process, which a restart may change.      *)
(***************************************************************************)
EXTENDS Integers

CONSTANTS
  Keys,         \* UUIDs of signing keys
  Identifiers,  \* slugs, as admin.service.ts accepts them
  Pems,         \* key pairs an administrator may import
  Secrets,      \* values of STORAGE_SECRET
  NoValue

ASSUME PairsAssumption == Keys \cap Pems = {}
ASSUME NoValueAssumption == NoValue \notin Keys \cup Pems \cup Identifiers \cup Secrets

VARIABLES
  keyRow,      \* whether the row of signing_keys exists
  form,        \* where the form that creates it is
  identifier,  \* the columns of the row, from the time the form has them
  pair,
  sealedWith,  \* the secret encryptedPrivateKey was encrypted with
  secret       \* the STORAGE_SECRET in force

vars == <<keyRow, form, identifier, pair, sealedWith, secret>>

KeyPairs == Keys \cup Pems

TypeOK ==
  /\ keyRow \in [Keys -> {"unborn", "live", "deleted"}]
  /\ form \in [Keys -> {"blank", "pending", "saved", "conflict", "failed"}]
  /\ identifier \in [Keys -> Identifiers \cup {NoValue}]
  /\ pair \in [Keys -> KeyPairs \cup {NoValue}]
  /\ sealedWith \in [Keys -> Secrets \cup {NoValue}]
  /\ secret \in Secrets

Init ==
  /\ keyRow = [k \in Keys |-> "unborn"]
  /\ form = [k \in Keys |-> "blank"]
  /\ identifier = [k \in Keys |-> NoValue]
  /\ pair = [k \in Keys |-> NoValue]
  /\ sealedWith = [k \in Keys |-> NoValue]
  /\ secret \in Secrets

KeysNamed(s) == {k \in Keys : keyRow[k] = "live" /\ identifier[k] = s}

(* The check at the top of createKey and importKey passes; the pair is     *)
(* there and sealed when the form comes to its save.                       *)
Submit(k, s, p) ==
  /\ form[k] = "blank"
  /\ KeysNamed(s) = {}
  /\ form' = [form EXCEPT ![k] = "pending"]
  /\ identifier' = [identifier EXCEPT ![k] = s]
  /\ pair' = [pair EXCEPT ![k] = p]
  /\ sealedWith' = [sealedWith EXCEPT ![k] = secret]
  /\ UNCHANGED <<keyRow, secret>>

CreateKey(k, s) == Submit(k, s, k)

ImportKey(k, s) == \E p \in Pems : Submit(k, s, p)

(* ConflictException: the identifier is taken.                             *)
RefuseIdentifier(k, s) ==
  /\ form[k] = "blank"
  /\ KeysNamed(s) # {}
  /\ form' = [form EXCEPT ![k] = "conflict"]
  /\ identifier' = [identifier EXCEPT ![k] = s]
  /\ UNCHANGED <<keyRow, pair, sealedWith, secret>>

(* Mutant: the column is not unique.                                       *)
SaveAnyway(k) ==
  /\ form[k] = "pending"
  /\ form' = [form EXCEPT ![k] = "saved"]
  /\ keyRow' = [keyRow EXCEPT ![k] = "live"]
  /\ UNCHANGED <<identifier, pair, sealedWith, secret>>

SaveKey(k) ==
  /\ form[k] = "pending"
  /\ KeysNamed(identifier[k]) = {}
  /\ form' = [form EXCEPT ![k] = "saved"]
  /\ keyRow' = [keyRow EXCEPT ![k] = "live"]
  /\ UNCHANGED <<identifier, pair, sealedWith, secret>>

(* Mutant: the rejected INSERT is taken for a success.                     *)
ConflictUnnoticed(k) ==
  /\ form[k] = "pending"
  /\ KeysNamed(identifier[k]) # {}
  /\ form' = [form EXCEPT ![k] = "saved"]
  /\ UNCHANGED <<keyRow, identifier, pair, sealedWith, secret>>

(* The INSERT violates the unique constraint: the form is shown again.     *)
SaveConflicts(k) ==
  /\ form[k] = "pending"
  /\ KeysNamed(identifier[k]) # {}
  /\ form' = [form EXCEPT ![k] = "conflict"]
  /\ UNCHANGED <<keyRow, identifier, pair, sealedWith, secret>>

(* Anything else throws: the PEM or its certificate does not parse, its    *)
(* type is not supported, the database is busy.                            *)
SubmitFails(k) ==
  /\ form[k] = "pending"
  /\ form' = [form EXCEPT ![k] = "failed"]
  /\ UNCHANGED <<keyRow, identifier, pair, sealedWith, secret>>

DeleteKey(k) ==
  /\ keyRow[k] = "live"
  /\ keyRow' = [keyRow EXCEPT ![k] = "deleted"]
  /\ UNCHANGED <<form, identifier, pair, sealedWith, secret>>

(* Mutant: the start goes on without a secret.                             *)
RestartUnconfigured(s) ==
  /\ secret' = NoValue
  /\ form' = [k \in Keys |-> IF form[k] = "pending" THEN "failed" ELSE form[k]]
  /\ UNCHANGED <<keyRow, identifier, pair, sealedWith>>

(* The process stops and starts with the secret its configuration has now. *)
Restart(s) ==
  /\ secret' = s
  /\ form' = [k \in Keys |-> IF form[k] = "pending" THEN "failed" ELSE form[k]]
  /\ UNCHANGED <<keyRow, identifier, pair, sealedWith>>

Next ==
  \/ \E k \in Keys, s \in Identifiers :
       CreateKey(k, s) \/ ImportKey(k, s) \/ RefuseIdentifier(k, s)
  \/ \E k \in Keys : SaveKey(k) \/ SaveConflicts(k) \/ SubmitFails(k) \/ DeleteKey(k)
  \/ \E s \in Secrets : Restart(s)

Spec == Init /\ [][Next]_vars

-------------------------------------------------------------------------------
(* Properties *)

(* signing-key.entity.ts: /api/<identifier> names at most one key, however *)
(* the forms that ask for the same identifier overlap.                     *)
IdentifierUnique ==
  \A j, k \in Keys :
    keyRow[j] = "live" /\ keyRow[k] = "live" /\ identifier[j] = identifier[k] => j = k

(* What the form says is what the database has: "saved" of a row that is   *)
(* or was there, anything else of none; and a refusal is not made up, some *)
(* other key has or had the identifier.                                    *)
FormsAreHonest ==
  \A k \in Keys :
    /\ form[k] = "saved" <=> keyRow[k] # "unborn"
    /\ form[k] = "conflict" =>
         \E j \in Keys \ {k} : keyRow[j] # "unborn" /\ identifier[j] = identifier[k]

Used == {k \in Keys : keyRow[k] # "unborn"}

RowOf(k) ==
  [key |-> k, identifier |-> identifier[k], pair |-> pair[k], sealedWith |-> sealedWith[k]]

Rows == {RowOf(k) : k \in {j \in Keys : keyRow[j] = "live"}}

Registry == INSTANCE KeyRegistry WITH rows <- Rows, used <- Used

(* The check, the generation or import, the encryption and the INSERT of a *)
(* form behave as one step that adds a whole row or nothing: under a free  *)
(* identifier, sealed with the secret in force, whatever other forms,      *)
(* deletions and restarts come in between; and no row changes thereafter.  *)
ImplementsRegistry == Registry!Spec

-------------------------------------------------------------------------------
(* The invariant behind them *)

(* A form at its save, and a row that is there, has all its columns: the   *)
(* pair was generated for it or imported.                                  *)
RowsComplete ==
  \A k \in Keys :
    form[k] \in {"pending", "saved"} =>
      identifier[k] \in Identifiers /\ pair[k] \in Pems \cup {k} /\ sealedWith[k] \in Secrets

(* A restart cuts a form off: none saves what an earlier secret has sealed. *)
SealedInForce == \A k \in Keys : form[k] = "pending" => sealedWith[k] = secret

(* The properties of the rows and forms together.                          *)
Inductive ==
  TypeOK /\ IdentifierUnique /\ FormsAreHonest /\ RowsComplete /\ SealedInForce
===============================================================================
