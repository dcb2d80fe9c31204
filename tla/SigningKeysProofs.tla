-------------------------- MODULE SigningKeysProofs --------------------------
(***************************************************************************)
(* Theorems about SigningKeys, for every set of keys, identifiers, PEMs    *)
(* and secrets.                                                            *)
(***************************************************************************)
EXTENDS SigningKeys, TLAPS

(* Nothing exists at the start.                                            *)
LEMMA InitInductive == Init => Inductive
BY NoValueAssumption DEF Init, Inductive, TypeOK, IdentifierUnique, FormsAreHonest, RowsComplete,
                             SealedInForce

(* A form that passes the check changes only its own columns, and no row.  *)
LEMMA SubmitStep ==
  ASSUME Inductive, NEW k \in Keys, NEW s \in Identifiers, NEW p \in Pems \cup {k}, Submit(k, s, p)
  PROVE  Inductive'
<1>1. TypeOK'
  BY DEF Inductive, TypeOK, KeyPairs, Submit
<1>2. keyRow[k] = "unborn"
  BY DEF Inductive, FormsAreHonest, Submit, TypeOK
<1>3. IdentifierUnique' /\ RowsComplete' /\ SealedInForce'
  BY <1>2 DEF Inductive, TypeOK, IdentifierUnique, RowsComplete, SealedInForce, Submit
<1>4. FormsAreHonest'
  BY <1>2 DEF Inductive, TypeOK, FormsAreHonest, Submit
<1> QED
  BY <1>1, <1>3, <1>4 DEF Inductive

(* A refusal has its reason: the key that has the identifier.              *)
LEMMA RefuseStep ==
  ASSUME Inductive, NEW k \in Keys, NEW s \in Identifiers, RefuseIdentifier(k, s)
  PROVE  Inductive'
<1>1. PICK j \in Keys : keyRow[j] = "live" /\ identifier[j] = s
  BY DEF RefuseIdentifier, KeysNamed
<1>2. keyRow[k] = "unborn" /\ j # k
  BY <1>1 DEF Inductive, TypeOK, FormsAreHonest, RefuseIdentifier
<1>3. TypeOK' /\ IdentifierUnique' /\ RowsComplete' /\ SealedInForce'
  BY <1>2 DEF Inductive, TypeOK, IdentifierUnique, RowsComplete, SealedInForce, RefuseIdentifier
<1>4. FormsAreHonest'
  BY <1>1, <1>2 DEF Inductive, TypeOK, FormsAreHonest, RefuseIdentifier
<1> QED
  BY <1>3, <1>4 DEF Inductive

(* The unique column lets a row in only while no other has its identifier. *)
LEMMA SaveStep ==
  ASSUME Inductive, NEW k \in Keys, SaveKey(k)
  PROVE  Inductive'
<1>1. TypeOK' /\ RowsComplete' /\ SealedInForce'
  BY DEF Inductive, TypeOK, RowsComplete, SealedInForce, SaveKey
<1>2. \A j \in Keys : keyRow[j] = "live" => identifier[j] # identifier[k]
  BY DEF SaveKey, KeysNamed
<1>3. IdentifierUnique'
  BY <1>2 DEF Inductive, TypeOK, IdentifierUnique, SaveKey
<1>4. FormsAreHonest'
  BY DEF Inductive, TypeOK, FormsAreHonest, SaveKey
<1> QED
  BY <1>1, <1>3, <1>4 DEF Inductive

(* A rejected INSERT has the row it collided with to show for it.          *)
LEMMA ConflictStep ==
  ASSUME Inductive, NEW k \in Keys, SaveConflicts(k)
  PROVE  Inductive'
<1>1. PICK j \in Keys : keyRow[j] = "live" /\ identifier[j] = identifier[k]
  BY DEF SaveConflicts, KeysNamed
<1>2. keyRow[k] = "unborn" /\ j # k
  BY <1>1 DEF Inductive, TypeOK, FormsAreHonest, SaveConflicts
<1>3. TypeOK' /\ IdentifierUnique' /\ RowsComplete' /\ SealedInForce'
  BY DEF Inductive, TypeOK, IdentifierUnique, RowsComplete, SealedInForce, SaveConflicts
<1>4. FormsAreHonest'
  BY <1>1, <1>2 DEF Inductive, TypeOK, FormsAreHonest, SaveConflicts
<1> QED
  BY <1>3, <1>4 DEF Inductive

(* Every step keeps rows and forms in agreement.                           *)
LEMMA StepInductive == Inductive /\ [Next]_vars => Inductive'
<1> SUFFICES ASSUME Inductive, [Next]_vars PROVE Inductive'
  OBVIOUS
<1>1. CASE UNCHANGED vars
  BY <1>1 DEF Inductive, TypeOK, IdentifierUnique, FormsAreHonest, RowsComplete,
              SealedInForce, vars
<1>2. ASSUME NEW k \in Keys, NEW s \in Identifiers, CreateKey(k, s) PROVE Inductive'
  BY <1>2, SubmitStep DEF CreateKey
<1>3. ASSUME NEW k \in Keys, NEW s \in Identifiers, ImportKey(k, s) PROVE Inductive'
  BY <1>3, SubmitStep DEF ImportKey
<1>4. ASSUME NEW k \in Keys, SubmitFails(k) PROVE Inductive'
  BY <1>4 DEF Inductive, TypeOK, IdentifierUnique, FormsAreHonest, RowsComplete,
              SealedInForce, SubmitFails
<1>5. ASSUME NEW k \in Keys, DeleteKey(k) PROVE Inductive'
  BY <1>5 DEF Inductive, TypeOK, IdentifierUnique, FormsAreHonest, RowsComplete,
              SealedInForce, DeleteKey
<1>6. ASSUME NEW s \in Secrets, Restart(s) PROVE Inductive'
  BY <1>6 DEF Inductive, TypeOK, IdentifierUnique, FormsAreHonest, RowsComplete,
              SealedInForce, Restart
<1> QED
  BY <1>1, <1>2, <1>3, <1>4, <1>5, <1>6, RefuseStep, SaveStep, ConflictStep DEF Next

(* Rows and forms agree in every reachable state.                          *)
THEOREM KeysAndFormsAgree == Spec => []Inductive
BY InitInductive, StepInductive, PTL DEF Spec

(* The rows and forms keep their types.                                    *)
THEOREM TypeCorrect == Spec => []TypeOK
<1>1. Inductive => TypeOK
  BY DEF Inductive
<1> QED
  BY <1>1, KeysAndFormsAgree, PTL

(* No two live keys share an identifier, although the check and the save   *)
(* of a form are apart.                                                    *)
THEOREM IdentifiersAreUnique == Spec => []IdentifierUnique
<1>1. Inductive => IdentifierUnique
  BY DEF Inductive
<1> QED
  BY <1>1, KeysAndFormsAgree, PTL

(* What a form reports is what the database has.                           *)
THEOREM FormsStayHonest == Spec => []FormsAreHonest
<1>1. Inductive => FormsAreHonest
  BY DEF Inductive
<1> QED
  BY <1>1, KeysAndFormsAgree, PTL
-------------------------------------------------------------------------------
(* The forms implement the registry *)

(* The rows are a matter of which are live and of the columns of those.    *)
LEMMA SameRows ==
  ASSUME NEW S \in SUBSET Keys,
         {k \in Keys : keyRow'[k] = "live"} = S, {k \in Keys : keyRow[k] = "live"} = S,
         \A k \in S : RowOf(k)' = RowOf(k)
  PROVE  Rows' = Rows
BY DEF Rows

(* A form changes its own columns before its row is there.                 *)
LEMMA FormRefines ==
  ASSUME Inductive, NEW k \in Keys,
         \/ \E s \in Identifiers : CreateKey(k, s) \/ ImportKey(k, s) \/ RefuseIdentifier(k, s)
         \/ SaveConflicts(k) \/ SubmitFails(k)
  PROVE  UNCHANGED Registry!vars
<1>1. UNCHANGED <<keyRow, secret>>
  BY DEF CreateKey, ImportKey, Submit, RefuseIdentifier, SaveConflicts, SubmitFails
<1>2. keyRow[k] = "unborn"
  BY DEF Inductive, TypeOK, FormsAreHonest, CreateKey, ImportKey, Submit, RefuseIdentifier,
         SaveConflicts, SubmitFails
<1>3. \A j \in Keys \ {k} : identifier'[j] = identifier[j] /\ pair'[j] = pair[j]
                          /\ sealedWith'[j] = sealedWith[j]
  BY DEF Inductive, TypeOK, CreateKey, ImportKey, Submit, RefuseIdentifier, SaveConflicts,
         SubmitFails
<1>4. Rows' = Rows
  BY <1>1, <1>2, <1>3, SameRows DEF RowOf
<1>5. Used' = Used
  BY <1>1 DEF Used
<1> QED
  BY <1>1, <1>4, <1>5 DEF Registry!vars

(* The save is the step that adds the row, all of it.                      *)
LEMMA SaveRefines ==
  ASSUME Inductive, NEW k \in Keys, SaveKey(k)
  PROVE  Registry!Next
<1>1. /\ form[k] = "pending" /\ KeysNamed(identifier[k]) = {}
      /\ keyRow' = [keyRow EXCEPT ![k] = "live"]
      /\ UNCHANGED <<identifier, pair, sealedWith, secret>>
  BY DEF SaveKey
<1>2. /\ keyRow[k] = "unborn" /\ sealedWith[k] = secret
      /\ identifier[k] \in Identifiers /\ pair[k] \in Pems \cup {k} /\ sealedWith[k] \in Secrets
  BY <1>1 DEF Inductive, TypeOK, FormsAreHonest, RowsComplete, SealedInForce
<1>3. RowOf(k) \in Registry!Row
  BY <1>2 DEF RowOf, Registry!Row
<1>4. RowOf(k).key \notin Used /\ RowOf(k).pair \in Pems \cup {RowOf(k).key}
      /\ RowOf(k).sealedWith = secret
  BY <1>2 DEF RowOf, Used
<1>5. \A other \in Rows : other.identifier # RowOf(k).identifier
  BY <1>1 DEF Rows, RowOf, KeysNamed
<1>6. /\ {j \in Keys : keyRow'[j] = "live"} = {j \in Keys : keyRow[j] = "live"} \cup {k}
      /\ Used' = Used \cup {k}
  BY <1>1, <1>2 DEF Inductive, TypeOK, Used
<1>7. \A j \in Keys : RowOf(j)' = RowOf(j)
  BY <1>1 DEF RowOf
<1>8. Rows' = Rows \cup {RowOf(k)}
  BY <1>6, <1>7 DEF Rows
<1>9. Registry!Add(RowOf(k))
  BY <1>1, <1>4, <1>5, <1>6, <1>8 DEF Registry!Add, RowOf
<1> QED
  BY <1>3, <1>9 DEF Registry!Next

(* A deletion takes one row, whose UUID stays used.                        *)
LEMMA DeleteRefines ==
  ASSUME Inductive, NEW k \in Keys, DeleteKey(k)
  PROVE  Registry!Next
<1>1. /\ keyRow[k] = "live" /\ keyRow' = [keyRow EXCEPT ![k] = "deleted"]
      /\ UNCHANGED <<identifier, pair, sealedWith, secret>>
  BY DEF DeleteKey
<1>2. RowOf(k) \in Registry!Row /\ RowOf(k) \in Rows
  BY <1>1 DEF Inductive, TypeOK, FormsAreHonest, RowsComplete, RowOf, Rows, Registry!Row
<1>3. /\ {j \in Keys : keyRow'[j] = "live"} = {j \in Keys : keyRow[j] = "live"} \ {k}
      /\ Used' = Used
  BY <1>1 DEF Inductive, TypeOK, Used
<1>4. \A i, j \in Keys : RowOf(j)' = RowOf(j) /\ (RowOf(i) = RowOf(j) => i = j)
  BY <1>1 DEF RowOf
<1>5. Rows' = Rows \ {RowOf(k)}
  BY <1>3, <1>4 DEF Rows
<1>6. Registry!Remove(RowOf(k))
  BY <1>1, <1>2, <1>3, <1>5 DEF Registry!Remove
<1> QED
  BY <1>2, <1>6 DEF Registry!Next

(* A restart may change the secret and cuts forms off.                     *)
LEMMA RestartRefines ==
  ASSUME NEW s \in Secrets, Restart(s)
  PROVE  Registry!Next
<1>1. UNCHANGED <<keyRow, identifier, pair, sealedWith>> /\ secret' = s
  BY DEF Restart
<1>2. Rows' = Rows /\ Used' = Used
  BY <1>1 DEF Rows, RowOf, Used
<1> QED
  BY <1>1, <1>2 DEF Registry!Next, Registry!Reconfigure

LEMMA StepRefines ==
  ASSUME Inductive, [Next]_vars
  PROVE  [Registry!Next]_Registry!vars
<1>1. CASE UNCHANGED vars
  BY <1>1 DEF vars, Registry!vars, Rows, RowOf, Used
<1> QED
  BY <1>1, FormRefines, SaveRefines, DeleteRefines, RestartRefines DEF Next

LEMMA InitRefines == Init => Registry!Init
BY DEF Init, Registry!Init, Rows, Used

(* Overlapping forms, deletions and restarts behave as a table that takes  *)
(* whole rows one at a time.                                               *)
THEOREM RefinesRegistry == Spec => ImplementsRegistry
<1>1. Inductive /\ [Next]_vars => [Registry!Next]_Registry!vars
  BY StepRefines
<1> QED
  BY <1>1, InitRefines, KeysAndFormsAgree, PTL DEF Spec, ImplementsRegistry, Registry!Spec
==============================================================================
