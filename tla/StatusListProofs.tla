--------------------------- MODULE StatusListProofs ---------------------------
(***************************************************************************)
(* Theorems about StatusList, for every set of keys and calls and every    *)
(* size of the status list.                                                *)
(***************************************************************************)
EXTENDS StatusList, TLAPS

-------------------------------------------------------------------------------
(* Types *)

(* The initial values have their types.                                    *)
LEMMA InitTypeOK == Init => TypeOK
BY DEF Init, TypeOK, Status

(* Revoking a row changes its isRevoked and nothing else.                  *)
LEMMA RevokedRow ==
  ASSUME NEW s \in Status
  PROVE  LET t == [s EXCEPT !.isRevoked = TRUE] IN
         /\ t \in Status
         /\ t.signingKeyId = s.signingKeyId
         /\ t.statusListIndex = s.statusListIndex
         /\ t.credentialId = s.credentialId
         /\ t.isRevoked
BY DEF Status

(* After either revocation the table still holds rows.                     *)
LEMMA RevokingTypeOK ==
  ASSUME TypeOK, NEW rows \in SUBSET credentialStatuses, MarkRevoked(rows)
  PROVE  credentialStatuses' \subseteq Status
<1>1. \A s \in rows : [s EXCEPT !.isRevoked = TRUE] \in Status
  BY RevokedRow DEF TypeOK
<1> QED
  BY <1>1 DEF TypeOK, MarkRevoked

(* A step keeps the types of all variables, given that a started call has a key. *)
LEMMA StepTypeOK == TypeOK /\ CallsHaveKeys /\ [Next]_vars => TypeOK'
<1> SUFFICES ASSUME TypeOK, CallsHaveKeys, [Next]_vars PROVE TypeOK'
  OBVIOUS
<1> USE SizeAssumption, NullAssumption
<1>1. CASE UNCHANGED vars
  BY <1>1 DEF TypeOK, vars, database, calls, lists
<1>2. ASSUME NEW k \in Keys, CreateKey(k) PROVE TypeOK'
  BY <1>2 DEF TypeOK, CreateKey, calls, lists
<1>3. ASSUME NEW k \in Keys, DeleteKey(k) PROVE TypeOK'
  BY <1>3 DEF TypeOK, DeleteKey, calls, lists
<1>4. ASSUME NEW q \in StatusRequests, Answering(q) PROVE TypeOK'
  <2>1. \A k : RevokedIndexes(k) \in SUBSET Nat
    BY DEF TypeOK, RevokedIndexes, StatusesOf, Status
  <2> QED
    BY <1>4, <2>1 DEF TypeOK, Answering, GetCredentialStatus, BuildBitArray, SendStatusList,
       StatusRequestFails, database, calls
<1>6. ASSUME NEW c \in Calls, NEW k \in Keys, AllocateIndex(c, k) PROVE TypeOK'
  BY <1>6 DEF TypeOK, AllocateIndex, Goto, Running, Failures, database, lists
<1>7. ASSUME NEW c \in Calls,
             \/ SelectNoKey(c) \/ SelectFullList(c) \/ UpdateCounter(c)
             \/ UpdateNothing(c) \/ InsertStatus(c) \/ Rollback(c)
      PROVE  TypeOK'
  BY <1>7 DEF TypeOK, SelectNoKey, SelectFullList, UpdateCounter, UpdateNothing,
              InsertStatus, Rollback, Goto, Running, Failures, database, lists
<1>8. ASSUME NEW c \in Calls, SelectIndex(c) PROVE TypeOK'
  <2>1. statusListCurrent[signingKey[c]] \in Nat
    BY <1>8 DEF SelectIndex, TypeOK, CallsHaveKeys
  <2> QED
    BY <2>1, <1>8 DEF TypeOK, SelectIndex, Goto, Running, Failures, database, lists
<1>9. ASSUME NEW c \in Calls, Commit(c) PROVE TypeOK'
  <2>1. signingKey[c] \in Keys /\ index[c] \in Nat
    BY <1>9 DEF Commit, TypeOK, CallsHaveKeys
  <2>2. NewStatus(c) \in Status
    BY <2>1 DEF NewStatus, Status
  <2> QED
    BY <2>1, <2>2, <1>9 DEF TypeOK, Commit, Goto, Running, Failures, lists
<1>10. ASSUME NEW i \in 0..(StatusListSize - 1), NEW k \in Keys, RevokeByIndex(i, k)
       PROVE  TypeOK'
  <2>1. credentialStatuses' \subseteq Status
    BY <1>10, RevokingTypeOK DEF RevokeByIndex, StatusesOf
  <2> QED
    BY <2>1, <1>10 DEF TypeOK, RevokeByIndex, calls, lists
<1>11. ASSUME NEW c \in Calls, NEW k \in Keys, RevokeByCredentialId(c, k)
       PROVE  TypeOK'
  <2>1. credentialStatuses' \subseteq Status
    BY <1>11, RevokingTypeOK DEF RevokeByCredentialId, StatusesOf
  <2> QED
    BY <2>1, <1>11 DEF TypeOK, RevokeByCredentialId, calls, lists
<1>12. CASE Restart
  BY <1>12 DEF TypeOK, Restart, Running, Failures, database
<1> QED
  BY <1>1, <1>2, <1>3, <1>4, <1>6, <1>7, <1>8, <1>9, <1>10, <1>11, <1>12
     DEF Next, Allocating, Revoking

(* A step keeps every started call on a key that was once created.         *)
LEMMA StepCallsHaveKeys ==
  TypeOK /\ CallsHaveKeys /\ [Next]_vars => CallsHaveKeys'
<1> SUFFICES ASSUME TypeOK, CallsHaveKeys, [Next]_vars PROVE CallsHaveKeys'
  OBVIOUS
<1>1. CASE UNCHANGED vars
  BY <1>1 DEF CallsHaveKeys, vars, database, calls
<1>2. ASSUME NEW k \in Keys, CreateKey(k) \/ DeleteKey(k) PROVE CallsHaveKeys'
  BY <1>2 DEF TypeOK, CallsHaveKeys, CreateKey, DeleteKey, calls
<1>3. ASSUME NEW q \in StatusRequests, Answering(q) PROVE CallsHaveKeys'
  BY <1>3 DEF CallsHaveKeys, Answering, GetCredentialStatus, BuildBitArray, SendStatusList,
              StatusRequestFails, database, calls
<1>4. ASSUME NEW c \in Calls, NEW k \in Keys, AllocateIndex(c, k) PROVE CallsHaveKeys'
  BY <1>4 DEF TypeOK, CallsHaveKeys, AllocateIndex, Goto, database
<1>5. ASSUME NEW c \in Calls,
             \/ SelectNoKey(c) \/ SelectFullList(c) \/ SelectIndex(c) \/ UpdateCounter(c)
             \/ UpdateNothing(c) \/ InsertStatus(c)
             \/ Commit(c) \/ Rollback(c)
      PROVE  CallsHaveKeys'
  BY <1>5 DEF TypeOK, CallsHaveKeys, Running, SelectNoKey, SelectFullList, SelectIndex,
              UpdateCounter, UpdateNothing, InsertStatus, Commit, Rollback,
              Goto, database
<1>6. CASE Revoking
  BY <1>6 DEF CallsHaveKeys, Revoking, RevokeByIndex, RevokeByCredentialId, calls
<1>7. CASE Restart
  BY <1>7 DEF TypeOK, CallsHaveKeys, Restart, Running, database
<1> QED
  BY <1>1, <1>2, <1>3, <1>4, <1>5, <1>6, <1>7 DEF Next, Allocating

(* Every variable keeps its type, whatever the constants are.              *)
THEOREM TypeCorrect == Spec => []TypeOK
<1>1. Init => TypeOK /\ CallsHaveKeys
  BY InitTypeOK DEF Init, CallsHaveKeys
<1>2. TypeOK /\ CallsHaveKeys /\ [Next]_vars => (TypeOK /\ CallsHaveKeys)'
  BY StepTypeOK, StepCallsHaveKeys
<1> QED
  BY <1>1, <1>2, PTL DEF Spec

-------------------------------------------------------------------------------
(* The inductive invariant.  The steps of a call before its COMMIT change  *)
(* neither the rows nor the lists, so they can only disturb what is said   *)
(* of the calls.                                                           *)

AboutRequests ==
  /\ RequestsHaveKeys
  /\ ListsAreSound
  /\ ListsAreFresh

Rest ==
  /\ CounterBounded
  /\ NoOrphans
  /\ CounterMatchesRows
  /\ IndexUnique
  /\ AboutRequests

(* What is said of the rows and lists survives a step that changes neither. *)
LEMMA DatabaseKept ==
  ASSUME Rest, UNCHANGED <<database, lists>>
  PROVE  Rest'
BY DEF Rest, CounterBounded, NoOrphans, CounterMatchesRows, IndexUnique, AboutRequests,
       RequestsHaveKeys, ListsAreSound, ListsAreFresh, IndexesOf, RevokedIndexes, StatusesOf,
       database, lists

(* What is said of the status requests survives a step of the keys and     *)
(* rows that brings no key back and takes no revocation from a live key.   *)
LEMMA RequestsKept ==
  ASSUME Inductive, UNCHANGED lists,
         \A k \in Keys :
           /\ keyRow[k] # "unborn" => keyRow'[k] # "unborn"
           /\ keyRow[k] # "unborn" /\ keyRow'[k] = "live" =>
                /\ keyRow[k] = "live"
                /\ RevokedIndexes(k) \subseteq RevokedIndexes(k)'
  PROVE  AboutRequests'
<1>1. UNCHANGED <<reply, asked, list, known>>
  BY DEF lists
<1>2. \A q \in StatusRequests :
        reply[q] # "none" => asked[q] \in Keys /\ keyRow[asked[q]] # "unborn"
  BY DEF Inductive, RequestsHaveKeys
<1>3. RequestsHaveKeys'
  <2> SUFFICES ASSUME NEW q \in StatusRequests, reply'[q] # "none"
               PROVE  /\ asked'[q] \in Keys /\ keyRow'[asked'[q]] # "unborn"
                      /\ keyRow'[asked'[q]] = "live" => known'[q] \subseteq RevokedIndexes(asked[q])'
    BY DEF RequestsHaveKeys
  <2>1. PICK k \in Keys : k = asked[q]
    BY <1>1, <1>2
  <2>2. /\ keyRow[k] # "unborn"
        /\ keyRow[k] = "live" => known[q] \subseteq RevokedIndexes(k)
    BY <1>1, <2>1 DEF Inductive, RequestsHaveKeys
  <2>3. /\ keyRow'[k] # "unborn"
        /\ keyRow'[k] = "live" => known[q] \subseteq RevokedIndexes(k)'
    BY <2>2
  <2>4. asked'[q] = k /\ known'[q] = known[q]
    BY <1>1, <2>1
  <2> QED
    BY <2>3, <2>4 DEF RevokedIndexes, StatusesOf
<1>4. ListsAreSound'
  BY <1>1, <1>2 DEF Inductive, ListsAreSound, RevokedIndexes, StatusesOf
<1>5. ListsAreFresh'
  BY <1>1, <1>2 DEF Inductive, ListsAreFresh
<1> QED
  BY <1>3, <1>4, <1>5 DEF AboutRequests

AboutCalls ==
  /\ WriterOwnsCounter
  /\ ReadsBehindCounter
  /\ FailuresAreHonest
  /\ RowIffReturned

(* The inductive invariant, split into what calls and what rows owe.       *)
LEMMA InductiveParts ==
  Inductive <=> TypeOK /\ CallsHaveKeys /\ AboutCalls /\ Rest
BY DEF Inductive, AboutCalls, AboutRequests, Rest

(* The initial state satisfies the inductive invariant.                    *)
LEMMA InitInductive == Init => Inductive
<1> SUFFICES ASSUME Init PROVE Inductive
  OBVIOUS
<1>1. TypeOK /\ CallsHaveKeys
  BY InitTypeOK DEF Init, CallsHaveKeys
<1>2. AboutCalls
  BY NullAssumption DEF Init, AboutCalls, WriterOwnsCounter, ReadsBehindCounter, FailuresAreHonest,
     RowIffReturned
<1>3. Rest
  BY SizeAssumption DEF Init, Rest, CounterBounded, NoOrphans, CounterMatchesRows, IndexUnique,
     AboutRequests, RequestsHaveKeys, ListsAreSound, ListsAreFresh
<1> QED
  BY <1>1, <1>2, <1>3, InductiveParts

(* A step of one call that leaves rows, lock and the other calls alone.    *)
LEMMA AllocateIndexStep ==
  ASSUME Inductive, NEW c \in Calls, NEW k \in Keys, AllocateIndex(c, k)
  PROVE  AboutCalls' /\ Rest'
<1>1. Rest'
  BY DatabaseKept, InductiveParts DEF AllocateIndex
<1>2. AboutCalls'
  BY NullAssumption DEF Inductive, TypeOK, AllocateIndex, Goto, AboutCalls, WriterOwnsCounter,
     ReadsBehindCounter, FailuresAreHonest, RowIffReturned, CounterAsRead, IndexesOf, StatusesOf,
     database, lists
<1> QED
  BY <1>1, <1>2

(* A call told its key is missing had a key, which can only have been deleted. *)
LEMMA SelectNoKeyStep ==
  ASSUME Inductive, NEW c \in Calls, SelectNoKey(c)
  PROVE  AboutCalls' /\ Rest'
<1>1. Rest'
  BY DatabaseKept, InductiveParts DEF SelectNoKey
<1>2. keyRow[signingKey[c]] = "deleted"
  BY DEF Inductive, TypeOK, CallsHaveKeys, SelectNoKey
<1>3. AboutCalls'
  BY <1>2 DEF Inductive, TypeOK, SelectNoKey, Goto, AboutCalls, WriterOwnsCounter,
     ReadsBehindCounter, FailuresAreHonest, RowIffReturned, CounterAsRead, IndexesOf, StatusesOf,
     database, lists
<1> QED
  BY <1>1, <1>3

(* A call told the list is full saw the counter at its bound, so every index has a row. *)
LEMMA SelectFullListStep ==
  ASSUME Inductive, NEW c \in Calls, SelectFullList(c)
  PROVE  AboutCalls' /\ Rest'
<1>1. Rest'
  BY DatabaseKept, InductiveParts DEF SelectFullList
<1>2. statusListCurrent[signingKey[c]] = StatusListSize
  BY SizeAssumption DEF Inductive, TypeOK, CallsHaveKeys, SelectFullList, ListIsFull,
     CounterBounded
<1>3. IndexesOf(signingKey[c]) = 0..(StatusListSize - 1)
  BY <1>2 DEF Inductive, TypeOK, CallsHaveKeys, SelectFullList, CounterMatchesRows
<1>4. AboutCalls'
  BY <1>2, <1>3 DEF Inductive, TypeOK, SelectFullList, Goto, AboutCalls, WriterOwnsCounter,
     ReadsBehindCounter, FailuresAreHonest, RowIffReturned, CounterAsRead, IndexesOf, StatusesOf,
     database, lists
<1> QED
  BY <1>1, <1>4

(* The index a call reads is the counter, below the size of the list.      *)
LEMMA SelectIndexStep ==
  ASSUME Inductive, NEW c \in Calls, SelectIndex(c)
  PROVE  AboutCalls' /\ Rest'
<1>1. Rest'
  BY DatabaseKept, InductiveParts DEF SelectIndex
<1>2. /\ statusListCurrent[signingKey[c]] \in Nat
      /\ statusListCurrent[signingKey[c]] < StatusListSize
  BY SizeAssumption DEF Inductive, TypeOK, CallsHaveKeys, SelectIndex, ListIsFull
<1>3. AboutCalls'
  BY <1>2, NullAssumption DEF Inductive, TypeOK, SelectIndex, Goto, AboutCalls, WriterOwnsCounter,
     ReadsBehindCounter, FailuresAreHonest, RowIffReturned, CounterAsRead, IndexesOf, StatusesOf,
     database, lists
<1> QED
  BY <1>1, <1>3

(* The conditional UPDATE gives the lock to a call whose read is still true. *)
LEMMA UpdateCounterStep ==
  ASSUME Inductive, NEW c \in Calls, UpdateCounter(c)
  PROVE  AboutCalls' /\ Rest'
<1>1. Rest'
  BY DatabaseKept, InductiveParts DEF UpdateCounter
<1>2. AboutCalls'
  BY NullAssumption DEF Inductive, TypeOK, UpdateCounter, Goto, AboutCalls, WriterOwnsCounter,
     ReadsBehindCounter, FailuresAreHonest, RowIffReturned, CounterAsRead, IndexesOf, StatusesOf,
     database, lists
<1> QED
  BY <1>1, <1>2

(* A call whose UPDATE matches nothing lost its index to a row that exists. *)
LEMMA UpdateNothingStep ==
  ASSUME Inductive, NEW c \in Calls, UpdateNothing(c)
  PROVE  AboutCalls' /\ Rest'
<1>1. Rest'
  BY DatabaseKept, InductiveParts DEF UpdateNothing
<1>2. keyRow[signingKey[c]] = "live" =>
        /\ index[c] < statusListCurrent[signingKey[c]]
        /\ index[c] \in IndexesOf(signingKey[c])
  BY DEF Inductive, TypeOK, CallsHaveKeys, UpdateNothing, CounterAsRead, ReadsBehindCounter,
     CounterMatchesRows
<1>3. AboutCalls'
  BY <1>2, NullAssumption DEF Inductive, TypeOK, UpdateNothing, Goto, AboutCalls,
     WriterOwnsCounter, ReadsBehindCounter, FailuresAreHonest, RowIffReturned, CounterAsRead,
     IndexesOf, StatusesOf, database, lists
<1> QED
  BY <1>1, <1>3

(* The INSERT is not visible before the COMMIT.                            *)
LEMMA InsertStatusStep ==
  ASSUME Inductive, NEW c \in Calls, InsertStatus(c)
  PROVE  AboutCalls' /\ Rest'
<1>1. Rest'
  BY DatabaseKept, InductiveParts DEF InsertStatus
<1>2. AboutCalls'
  BY DEF Inductive, TypeOK, InsertStatus, Goto, AboutCalls, WriterOwnsCounter,
     ReadsBehindCounter, FailuresAreHonest, RowIffReturned, CounterAsRead, IndexesOf, StatusesOf,
     database, lists
<1> QED
  BY <1>1, <1>2

(* A rollback releases the lock and leaves no row.                         *)
LEMMA RollbackStep ==
  ASSUME Inductive, NEW c \in Calls, Rollback(c)
  PROVE  AboutCalls' /\ Rest'
<1>1. Rest'
  BY DatabaseKept, InductiveParts DEF Rollback
<1>2. AboutCalls'
  BY NullAssumption DEF Inductive, TypeOK, Rollback, Running, Goto, AboutCalls, WriterOwnsCounter,
     ReadsBehindCounter, FailuresAreHonest, RowIffReturned, CounterAsRead, IndexesOf, StatusesOf,
     database, lists
<1> QED
  BY <1>1, <1>2

(* A restart releases the lock and loses the calls, not the rows.          *)
LEMMA RestartStep ==
  ASSUME Inductive, Restart
  PROVE  AboutCalls' /\ Rest'
<1>1. Rest'
  <2>1. CounterBounded' /\ NoOrphans' /\ CounterMatchesRows' /\ IndexUnique'
    BY DEF Inductive, Restart, CounterBounded, NoOrphans, CounterMatchesRows, IndexUnique,
       IndexesOf, StatusesOf, database
  <2>2. /\ UNCHANGED <<keyRow, asked, list, known>>
        /\ \A k : RevokedIndexes(k)' = RevokedIndexes(k)
        /\ \A q \in StatusRequests :
             reply'[q] = reply[q] \/ (reply[q] # "none" /\ reply'[q] = "lost")
    BY DEF Restart, database, RevokedIndexes, StatusesOf
  <2>3. AboutRequests'
    BY <2>2 DEF Inductive, AboutRequests, RequestsHaveKeys, ListsAreSound, ListsAreFresh
  <2> QED
    BY <2>1, <2>3 DEF Rest
<1>2. AboutCalls'
  BY NullAssumption DEF Inductive, TypeOK, Restart, Running, AboutCalls, WriterOwnsCounter,
     ReadsBehindCounter, FailuresAreHonest, RowIffReturned, CounterAsRead, IndexesOf, StatusesOf,
     database
<1> QED
  BY <1>1, <1>2

(* COMMIT adds the one row with the index the counter stood at.            *)
LEMMA CommitStep ==
  ASSUME Inductive, NEW c \in Calls, Commit(c)
  PROVE  AboutCalls' /\ Rest'
<1> DEFINE row == NewStatus(c)
<1>0. PICK k \in Keys : signingKey[c] = k
  BY DEF Inductive, CallsHaveKeys, Commit
<1>1. /\ keyRow[k] = "live" /\ statusListCurrent[k] = index[c]
      /\ index[c] \in Nat /\ index[c] < StatusListSize
  BY <1>0 DEF Inductive, TypeOK, Commit, WriterOwnsCounter, CounterAsRead, ReadsBehindCounter
<1>2. /\ row.signingKeyId = k /\ row.statusListIndex = index[c]
      /\ row.credentialId = c /\ row.isRevoked = FALSE
  BY <1>0 DEF NewStatus
<1>3. \A s \in credentialStatuses : s.credentialId # c
  BY DEF Inductive, RowIffReturned, Commit
<1>4. /\ \A j \in Keys : IndexesOf(j)' = IF j = k THEN IndexesOf(j) \cup {index[c]} ELSE IndexesOf(j)
      /\ \A j \in Keys : RevokedIndexes(j)' = RevokedIndexes(j)
  BY <1>0, <1>1, <1>2 DEF IndexesOf, RevokedIndexes, StatusesOf, Commit
<1>5. /\ statusListCurrent' = [statusListCurrent EXCEPT ![k] = index[c] + 1]
      /\ credentialStatuses' = credentialStatuses \cup {row}
      /\ UNCHANGED <<keyRow, signingKey, index, lists>>
      /\ writer' = NoCall
      /\ pc[c] = "commit" /\ pc' = [pc EXCEPT ![c] = "returned"]
  BY <1>0 DEF Commit, Goto, lists
<1> HIDE DEF row
<1>6. IndexesOf(k) = 0..(index[c] - 1)
  BY <1>1 DEF Inductive, CounterMatchesRows
<1>7. CounterMatchesRows'
  <2>1. 0..(index[c] - 1) \cup {index[c]} = 0..(index[c] + 1 - 1)
    BY <1>1
  <2>2. /\ statusListCurrent'[k] = index[c] + 1
        /\ \A j \in Keys \ {k} : statusListCurrent'[j] = statusListCurrent[j]
    BY <1>1, <1>5 DEF Inductive, TypeOK
  <2>3. IndexesOf(k)' = 0..(statusListCurrent'[k] - 1)
    <3>1. IndexesOf(k)' = IndexesOf(k) \cup {index[c]}
      BY <1>4
    <3> QED
      BY <3>1, <1>1, <1>6, <2>1, <2>2
  <2>4. \A j \in Keys \ {k} : keyRow[j] = "live" => IndexesOf(j)' = 0..(statusListCurrent'[j] - 1)
    BY <1>4, <2>2 DEF Inductive, CounterMatchesRows
  <2> QED
    BY <1>5, <2>3, <2>4 DEF CounterMatchesRows
<1>8. IndexUnique'
  <2>1. \A s \in StatusesOf(k) : s.statusListIndex # index[c]
    BY <1>1, <1>6 DEF IndexesOf
  <2> QED
    BY <1>2, <1>3, <1>5, <2>1 DEF Inductive, IndexUnique, StatusesOf
<1>9. CounterBounded' /\ NoOrphans' /\ AboutRequests'
  <2>1. CounterBounded' /\ NoOrphans'
    BY <1>1, <1>2, <1>5, SizeAssumption DEF Inductive, TypeOK, CounterBounded, NoOrphans
  <2>2. AboutRequests'
    BY <1>4, <1>5, RequestsKept
  <2> QED
    BY <2>1, <2>2
<1>10. WriterOwnsCounter'
  BY <1>0, <1>5, NullAssumption DEF Inductive, TypeOK, WriterOwnsCounter
<1>11. ReadsBehindCounter'
  BY <1>0, <1>1, <1>5, SizeAssumption DEF Inductive, TypeOK, CallsHaveKeys, CounterBounded,
     ReadsBehindCounter, WriterOwnsCounter
<1>12. FailuresAreHonest'
  <2>1. ASSUME NEW d \in Calls, pc[d] = "full", keyRow[signingKey[d]] = "live"
        PROVE  signingKey[d] # k
    BY <1>0, <1>1, <2>1 DEF Inductive, ReadsBehindCounter
  <2> QED
    BY <1>1, <1>4, <1>5, <2>1 DEF Inductive, TypeOK, CallsHaveKeys, FailuresAreHonest
<1>13. RowIffReturned'
  BY <1>0, <1>2, <1>3, <1>5 DEF Inductive, TypeOK, RowIffReturned
<1> QED
  BY <1>7, <1>8, <1>9, <1>10, <1>11, <1>12, <1>13 DEF AboutCalls, Rest

(* Creating a key starts its list empty: no row, call or list has it yet.  *)
LEMMA CreateKeyStep ==
  ASSUME Inductive, NEW k \in Keys, CreateKey(k)
  PROVE  AboutCalls' /\ Rest'
<1>1. /\ keyRow[k] = "unborn"
      /\ keyRow' = [keyRow EXCEPT ![k] = "live"]
      /\ statusListCurrent' = [statusListCurrent EXCEPT ![k] = 0]
      /\ UNCHANGED <<credentialStatuses, writer, pc, signingKey, index, lists>>
      /\ writer = NoCall
  BY DEF CreateKey, calls, lists
<1>2. \A j \in Keys : /\ IndexesOf(j)' = IndexesOf(j)
                      /\ RevokedIndexes(j)' = RevokedIndexes(j)
  BY <1>1 DEF IndexesOf, RevokedIndexes, StatusesOf
<1>3. StatusesOf(k) = {} /\ IndexesOf(k) = {}
  BY <1>1 DEF Inductive, NoOrphans, StatusesOf, IndexesOf
<1>4. CounterBounded' /\ NoOrphans' /\ IndexUnique'
  BY <1>1, SizeAssumption DEF Inductive, TypeOK, CounterBounded, NoOrphans, IndexUnique
<1>5. CounterMatchesRows' /\ AboutRequests'
  <2>1. /\ statusListCurrent'[k] = 0
        /\ \A j \in Keys \ {k} : /\ statusListCurrent'[j] = statusListCurrent[j]
                                 /\ keyRow'[j] = keyRow[j]
    BY <1>1 DEF Inductive, TypeOK
  <2>2. 0..(0 - 1) = {}
    OBVIOUS
  <2>3. CounterMatchesRows'
    BY <1>2, <1>3, <2>1, <2>2 DEF Inductive, CounterMatchesRows
  <2>4. AboutRequests'
    BY <1>1, <1>2, <2>1, RequestsKept DEF Inductive, TypeOK
  <2> QED
    BY <2>3, <2>4
<1>6. \A c \in Calls : pc[c] # "idle" => signingKey[c] \in Keys /\ signingKey[c] # k
  BY <1>1 DEF Inductive, CallsHaveKeys
<1>7. WriterOwnsCounter' /\ ReadsBehindCounter'
  BY <1>1, <1>6, NullAssumption DEF Inductive, TypeOK, WriterOwnsCounter, ReadsBehindCounter
<1>8. FailuresAreHonest' /\ RowIffReturned'
  BY <1>1, <1>2, <1>6 DEF Inductive, TypeOK, FailuresAreHonest, RowIffReturned
<1> QED
  BY <1>4, <1>5, <1>7, <1>8 DEF AboutCalls, Rest

(* Deleting a key takes its rows and touches nothing of the other keys.    *)
LEMMA DeleteKeyStep ==
  ASSUME Inductive, NEW k \in Keys, DeleteKey(k)
  PROVE  AboutCalls' /\ Rest'
<1>1. /\ keyRow[k] = "live"
      /\ keyRow' = [keyRow EXCEPT ![k] = "deleted"]
      /\ credentialStatuses' = {s \in credentialStatuses : s.signingKeyId # k}
      /\ UNCHANGED <<statusListCurrent, writer, pc, signingKey, index, lists>>
      /\ writer = NoCall
  BY DEF DeleteKey, StatusesOf, calls, lists
<1>2. \A j \in Keys \ {k} : /\ IndexesOf(j)' = IndexesOf(j)
                            /\ RevokedIndexes(j)' = RevokedIndexes(j)
                            /\ keyRow'[j] = keyRow[j]
  BY <1>1 DEF IndexesOf, RevokedIndexes, StatusesOf, Inductive, TypeOK
<1>3. keyRow'[k] = "deleted"
  BY <1>1 DEF Inductive, TypeOK
<1>4. CounterBounded' /\ NoOrphans' /\ IndexUnique'
  BY <1>1, <1>2, <1>3 DEF Inductive, TypeOK, Status, CounterBounded, NoOrphans, IndexUnique
<1>5. CounterMatchesRows' /\ AboutRequests'
  <2>1. CounterMatchesRows'
    BY <1>1, <1>2, <1>3 DEF Inductive, CounterMatchesRows
  <2>2. AboutRequests'
    BY <1>1, <1>2, <1>3, RequestsKept
  <2> QED
    BY <2>1, <2>2
<1>6. \A c \in Calls : keyRow'[signingKey[c]] = "live" /\ pc[c] # "idle" =>
                          signingKey[c] \in Keys \ {k}
  BY <1>3 DEF Inductive, CallsHaveKeys
<1>7. WriterOwnsCounter' /\ ReadsBehindCounter'
  BY <1>1, <1>2, <1>6, NullAssumption DEF Inductive, TypeOK, WriterOwnsCounter,
     ReadsBehindCounter
<1>8. FailuresAreHonest' /\ RowIffReturned'
  <2>1. FailuresAreHonest'
    BY <1>1, <1>2, <1>3, <1>6 DEF Inductive, TypeOK, CallsHaveKeys, FailuresAreHonest
  <2>2. RowIffReturned'
    BY <1>1, <1>2, <1>3, <1>6 DEF Inductive, TypeOK, CallsHaveKeys, RowIffReturned
  <2> QED
    BY <2>1, <2>2
<1> QED
  BY <1>4, <1>5, <1>7, <1>8 DEF AboutCalls, Rest

(* What an UPDATE of isRevoked leaves: the same indexes and credentials,   *)
(* and no revocation fewer.                                                *)
LEMMA RevokingKeepsRows ==
  ASSUME TypeOK, NEW rows \in SUBSET credentialStatuses, MarkRevoked(rows)
  PROVE  /\ \A s \in credentialStatuses' :
              \E t \in credentialStatuses : /\ t.signingKeyId = s.signingKeyId
                                            /\ t.statusListIndex = s.statusListIndex
                                            /\ t.credentialId = s.credentialId
                                            /\ s = IF t \in rows THEN [t EXCEPT !.isRevoked = TRUE] ELSE t
         /\ \A t \in credentialStatuses :
              \E s \in credentialStatuses' : /\ t.signingKeyId = s.signingKeyId
                                             /\ t.statusListIndex = s.statusListIndex
                                             /\ t.credentialId = s.credentialId
                                             /\ t.isRevoked => s.isRevoked
         /\ \A k : IndexesOf(k)' = IndexesOf(k)
         /\ \A k : RevokedIndexes(k) \subseteq RevokedIndexes(k)'
<1>1. \A s \in rows : LET t == [s EXCEPT !.isRevoked = TRUE] IN
                       /\ t.signingKeyId = s.signingKeyId
                       /\ t.statusListIndex = s.statusListIndex
                       /\ t.credentialId = s.credentialId
                       /\ t.isRevoked
  BY RevokedRow DEF TypeOK
<1>2. credentialStatuses' =
        (credentialStatuses \ rows) \cup {[s EXCEPT !.isRevoked = TRUE] : s \in rows}
  BY DEF MarkRevoked
<1>3. \A s \in credentialStatuses' :
        \E t \in credentialStatuses : /\ t.signingKeyId = s.signingKeyId
                                      /\ t.statusListIndex = s.statusListIndex
                                      /\ t.credentialId = s.credentialId
                                      /\ s = IF t \in rows THEN [t EXCEPT !.isRevoked = TRUE] ELSE t
  BY <1>1, <1>2
<1>4. \A t \in credentialStatuses :
        \E s \in credentialStatuses' : /\ t.signingKeyId = s.signingKeyId
                                       /\ t.statusListIndex = s.statusListIndex
                                       /\ t.credentialId = s.credentialId
                                       /\ t.isRevoked => s.isRevoked
  <2> SUFFICES ASSUME NEW t \in credentialStatuses
               PROVE  \E s \in credentialStatuses' : /\ t.signingKeyId = s.signingKeyId
                                                     /\ t.statusListIndex = s.statusListIndex
                                                     /\ t.credentialId = s.credentialId
                                                     /\ t.isRevoked => s.isRevoked
    OBVIOUS
  <2>1. CASE t \in rows
    <3> DEFINE u == [t EXCEPT !.isRevoked = TRUE]
    <3>1. u \in credentialStatuses'
      BY <1>2, <2>1
    <3>2. /\ t.signingKeyId = u.signingKeyId /\ t.statusListIndex = u.statusListIndex
          /\ t.credentialId = u.credentialId /\ u.isRevoked
      BY <1>1, <2>1
    <3> HIDE DEF u
    <3> QED
      BY <3>1, <3>2
  <2>2. CASE t \notin rows
    BY <1>2, <2>2
  <2> QED
    BY <2>1, <2>2
<1>5. \A k : IndexesOf(k)' = IndexesOf(k)
  BY <1>3, <1>4 DEF IndexesOf, StatusesOf
<1>6. \A k : RevokedIndexes(k) \subseteq RevokedIndexes(k)'
  BY <1>4 DEF RevokedIndexes, StatusesOf
<1> QED
  BY <1>3, <1>4, <1>5, <1>6

(* Revoking disturbs neither calls nor counters, and only adds revocations. *)
LEMMA RevokingStep ==
  ASSUME Inductive, NEW rows \in SUBSET credentialStatuses, MarkRevoked(rows),
         UNCHANGED <<keyRow, statusListCurrent, writer, calls, lists>>
  PROVE  AboutCalls' /\ Rest'
<1>1. TypeOK
  BY DEF Inductive
<1>2. UNCHANGED <<keyRow, statusListCurrent, writer, pc, signingKey, index, lists>>
  BY DEF calls, lists
<1>3. AboutCalls'
  <2>1. WriterOwnsCounter' /\ ReadsBehindCounter'
    BY <1>2 DEF Inductive, WriterOwnsCounter, CounterAsRead, ReadsBehindCounter
  <2>2. FailuresAreHonest'
    BY <1>1, <1>2, RevokingKeepsRows DEF Inductive, FailuresAreHonest
  <2>3. RowIffReturned'
    BY <1>1, <1>2, RevokingKeepsRows DEF Inductive, RowIffReturned
  <2> QED
    BY <2>1, <2>2, <2>3 DEF AboutCalls
<1>4. CounterBounded'
  BY <1>2 DEF Inductive, CounterBounded
<1>5. NoOrphans'
  BY <1>1, <1>2, RevokingKeepsRows DEF Inductive, NoOrphans
<1>6. CounterMatchesRows' /\ AboutRequests'
  BY <1>1, <1>2, RevokingKeepsRows, RequestsKept DEF Inductive, CounterMatchesRows
<1>7. IndexUnique'
  <2> SUFFICES ASSUME NEW s \in credentialStatuses', NEW t \in credentialStatuses',
                      \/ s.signingKeyId = t.signingKeyId /\ s.statusListIndex = t.statusListIndex
                      \/ s.credentialId = t.credentialId
               PROVE  s = t
    BY DEF IndexUnique
  <2>1. PICK s0 \in credentialStatuses :
          /\ s0.signingKeyId = s.signingKeyId /\ s0.statusListIndex = s.statusListIndex
          /\ s0.credentialId = s.credentialId
          /\ s = IF s0 \in rows THEN [s0 EXCEPT !.isRevoked = TRUE] ELSE s0
    BY <1>1, RevokingKeepsRows
  <2>2. PICK t0 \in credentialStatuses :
          /\ t0.signingKeyId = t.signingKeyId /\ t0.statusListIndex = t.statusListIndex
          /\ t0.credentialId = t.credentialId
          /\ t = IF t0 \in rows THEN [t0 EXCEPT !.isRevoked = TRUE] ELSE t0
    BY <1>1, RevokingKeepsRows
  <2>3. s0 = t0
    BY <2>1, <2>2 DEF Inductive, IndexUnique
  <2> QED
    BY <2>1, <2>2, <2>3
<1> QED
  BY <1>3, <1>4, <1>5, <1>6, <1>7 DEF Rest

(* Loading the key for a list changes no row; what is revoked then is what *)
(* the list has to hold.                                                   *)
LEMMA GetCredentialStatusStep ==
  ASSUME Inductive, NEW q \in StatusRequests, NEW k \in Keys, GetCredentialStatus(q, k)
  PROVE  AboutRequests'
<1>1. /\ reply' = [reply EXCEPT ![q] = "loaded"]
      /\ asked' = [asked EXCEPT ![q] = k]
      /\ known' = [known EXCEPT ![q] = RevokedIndexes(k)]
      /\ list' = list /\ keyRow' = keyRow /\ keyRow[k] = "live"
      /\ \A j : RevokedIndexes(j)' = RevokedIndexes(j)
  BY DEF GetCredentialStatus, database, RevokedIndexes, StatusesOf
<1> QED
  BY <1>1 DEF Inductive, TypeOK, AboutRequests, RequestsHaveKeys, ListsAreSound, ListsAreFresh

(* The bits that are set are the revocations of that moment: no more, and  *)
(* all that were there when the request came.                              *)
LEMMA BuildBitArrayStep ==
  ASSUME Inductive, NEW q \in StatusRequests, BuildBitArray(q)
  PROVE  AboutRequests'
<1>1. /\ reply[q] = "loaded" /\ reply' = [reply EXCEPT ![q] = "built"]
      /\ list' = [list EXCEPT ![q] = RevokedIndexes(asked[q])]
      /\ asked' = asked /\ known' = known /\ keyRow' = keyRow
      /\ \A j : RevokedIndexes(j)' = RevokedIndexes(j)
  BY DEF BuildBitArray, database, RevokedIndexes, StatusesOf
<1>2. RequestsHaveKeys'
  BY <1>1 DEF Inductive, TypeOK, RequestsHaveKeys
<1>3. keyRow[asked[q]] = "live" => known[q] \subseteq RevokedIndexes(asked[q])
  BY <1>1 DEF Inductive, RequestsHaveKeys
<1>4. ListsAreSound' /\ ListsAreFresh'
  BY <1>1, <1>3 DEF Inductive, TypeOK, ListsAreSound, ListsAreFresh
<1> QED
  BY <1>2, <1>4 DEF AboutRequests

(* Sending a list, or failing to, changes neither list nor rows.           *)
LEMMA RequestEndsStep ==
  ASSUME Inductive, NEW q \in StatusRequests, SendStatusList(q) \/ StatusRequestFails(q)
  PROVE  AboutRequests'
<1>1. /\ reply[q] # "none"
      /\ \/ reply[q] = "built" /\ reply' = [reply EXCEPT ![q] = "sent"]
         \/ reply' = [reply EXCEPT ![q] = "failed"]
      /\ asked' = asked /\ known' = known /\ list' = list /\ keyRow' = keyRow
      /\ \A j : RevokedIndexes(j)' = RevokedIndexes(j)
  BY DEF SendStatusList, StatusRequestFails, database, RevokedIndexes, StatusesOf
<1> QED
  BY <1>1 DEF Inductive, TypeOK, AboutRequests, RequestsHaveKeys, ListsAreSound, ListsAreFresh

(* The status requests disturb neither rows nor calls.                     *)
LEMMA AnsweringStep ==
  ASSUME Inductive, NEW q \in StatusRequests, Answering(q)
  PROVE  AboutCalls' /\ Rest'
<1>1. UNCHANGED <<database, writer, calls>>
  BY DEF Answering, GetCredentialStatus, BuildBitArray, SendStatusList, StatusRequestFails
<1>2. AboutCalls'
  BY <1>1 DEF Inductive, AboutCalls, WriterOwnsCounter, CounterAsRead, ReadsBehindCounter,
     FailuresAreHonest, RowIffReturned, IndexesOf, StatusesOf, database, calls
<1>3. CounterBounded' /\ NoOrphans' /\ CounterMatchesRows' /\ IndexUnique'
  BY <1>1 DEF Inductive, CounterBounded, NoOrphans, CounterMatchesRows, IndexUnique, IndexesOf,
     StatusesOf, database
<1>4. AboutRequests'
  BY GetCredentialStatusStep, BuildBitArrayStep, RequestEndsStep DEF Answering
<1> QED
  BY <1>2, <1>3, <1>4 DEF Rest

(* Every step keeps the inductive invariant.                               *)
LEMMA StepInductive == Inductive /\ [Next]_vars => Inductive'
<1> SUFFICES ASSUME Inductive, [Next]_vars PROVE Inductive'
  OBVIOUS
<1>1. TypeOK' /\ CallsHaveKeys'
  BY StepTypeOK, StepCallsHaveKeys, InductiveParts
<1>2. CASE UNCHANGED vars
  BY <1>2 DEF Inductive, TypeOK, CallsHaveKeys, WriterOwnsCounter, CounterAsRead, ReadsBehindCounter,
     CounterBounded, NoOrphans, CounterMatchesRows, IndexUnique, FailuresAreHonest, RowIffReturned,
     RequestsHaveKeys, ListsAreSound, ListsAreFresh, IndexesOf, RevokedIndexes, StatusesOf,
     vars, database, calls, lists
<1>3. ASSUME NEW k \in Keys, CreateKey(k) \/ DeleteKey(k)
      PROVE  AboutCalls' /\ Rest'
  BY <1>3, CreateKeyStep, DeleteKeyStep
<1>10. ASSUME NEW q \in StatusRequests, Answering(q) PROVE AboutCalls' /\ Rest'
  BY <1>10, AnsweringStep
<1>4. ASSUME NEW c \in Calls, Allocating(c) PROVE AboutCalls' /\ Rest'
  BY <1>4, AllocateIndexStep, SelectNoKeyStep, SelectFullListStep, SelectIndexStep,
     UpdateCounterStep, UpdateNothingStep, InsertStatusStep, CommitStep,
     RollbackStep DEF Allocating
<1>5. ASSUME NEW k \in Keys, NEW i \in 0..(StatusListSize - 1), RevokeByIndex(i, k)
      PROVE  AboutCalls' /\ Rest'
  BY <1>5, RevokingStep DEF RevokeByIndex, StatusesOf
<1>6. ASSUME NEW k \in Keys, NEW c \in Calls, RevokeByCredentialId(c, k)
      PROVE  AboutCalls' /\ Rest'
  BY <1>6, RevokingStep DEF RevokeByCredentialId, StatusesOf
<1>7. ASSUME Restart PROVE AboutCalls' /\ Rest'
  BY <1>7, RestartStep
<1>8. ASSUME Next PROVE AboutCalls' /\ Rest'
  BY <1>3, <1>4, <1>5, <1>6, <1>7, <1>8, <1>10 DEF Next, Revoking
<1>9. ASSUME Next PROVE Inductive'
  BY <1>1, <1>8, <1>9, InductiveParts DEF Inductive, AboutCalls, AboutRequests, Rest
<1> QED
  BY <1>2, <1>9

-------------------------------------------------------------------------------
(* The safety properties, for every number of keys, calls and entries. *)

(* The inductive invariant holds in every reachable state.                 *)
THEOREM InductiveInvariant == Spec => []Inductive
BY InitInductive, StepInductive, PTL DEF Spec

(* No two credentials of a key share an index, whatever allocations are    *)
(* interleaved, fail or are cut off by a restart.                          *)
THEOREM IndexesAreUnique == Spec => []IndexUnique
<1>1. Inductive => IndexUnique
  BY DEF Inductive
<1> QED
  BY <1>1, InductiveInvariant, PTL

(* The rows of a live key are exactly the indexes its counter has passed.  *)
THEOREM CounterIsExact == Spec => []CounterMatchesRows
<1>1. Inductive => CounterMatchesRows
  BY DEF Inductive
<1> QED
  BY <1>1, InductiveInvariant, PTL

(* Every row has a bit in the vector that is built.                        *)
THEOREM IndexesFit == Spec => []IndexInList
<1>1. Inductive => IndexInList
  <2> SUFFICES ASSUME Inductive, NEW s \in credentialStatuses
               PROVE  s.statusListIndex < StatusListSize
    BY DEF IndexInList
  <2>1. /\ s.signingKeyId \in Keys /\ s.statusListIndex \in Nat
        /\ keyRow[s.signingKeyId] = "live"
    BY DEF Inductive, TypeOK, Status, NoOrphans
  <2>2. s.statusListIndex \in 0..(statusListCurrent[s.signingKeyId] - 1)
    BY <2>1 DEF Inductive, CounterMatchesRows, IndexesOf, StatusesOf
  <2> QED
    BY <2>1, <2>2, SizeAssumption DEF Inductive, TypeOK, CounterBounded
<1> QED
  BY <1>1, InductiveInvariant, PTL

(* The error of a failed allocation is true when returned and stays true.  *)
THEOREM FailuresStayHonest == Spec => []FailuresAreHonest
<1>1. Inductive => FailuresAreHonest
  BY DEF Inductive
<1> QED
  BY <1>1, InductiveInvariant, PTL

(* A call returns an index exactly when its row is there.                  *)
THEOREM AllocationIsAtomic == Spec => []RowIffReturned
<1>1. Inductive => RowIffReturned
  BY DEF Inductive
<1> QED
  BY <1>1, InductiveInvariant, PTL

(* No list of a live key shows a revocation nobody made.                   *)
THEOREM ListsSound == Spec => []ListsAreSound
<1>1. Inductive => ListsAreSound
  BY DEF Inductive
<1> QED
  BY <1>1, InductiveInvariant, PTL

(* Whoever asks for a list after a revocation is told of it, however many  *)
(* requests are under way and in whatever order their lists are sent.      *)
THEOREM ListsStayFresh == Spec => []ListsAreFresh
<1>1. Inductive => ListsAreFresh
  BY DEF Inductive
<1> QED
  BY <1>1, InductiveInvariant, PTL

-------------------------------------------------------------------------------
(* What no step may do. *)

(* Both revocations, together: one step that marks some rows of one key.   *)
LEMMA RevokingMarksRows ==
  ASSUME Revoking
  PROVE  /\ \E rows \in SUBSET credentialStatuses : MarkRevoked(rows)
         /\ UNCHANGED <<keyRow, statusListCurrent, writer, pc, signingKey, index, lists>>
BY DEF Revoking, RevokeByIndex, RevokeByCredentialId, StatusesOf, calls, lists

(* Of an allocation only the COMMIT changes the database.                  *)
LEMMA OnlyCommitWrites ==
  ASSUME NEW c \in Calls, Allocating(c), ~Commit(c)
  PROVE  UNCHANGED <<database, lists>>
BY DEF Allocating, AllocateIndex, SelectNoKey, SelectFullList, SelectIndex, UpdateCounter,
       UpdateNothing, InsertStatus, Rollback

(* The rows after a COMMIT are the rows before and one row that is new.    *)
LEMMA CommitAddsARow ==
  ASSUME Inductive, NEW c \in Calls, Commit(c)
  PROVE  /\ signingKey[c] \in Keys
         /\ keyRow[signingKey[c]] = "live"
         /\ index[c] \in 0..(StatusListSize - 1)
         /\ index[c] = statusListCurrent[signingKey[c]]
         /\ statusListCurrent' = [statusListCurrent EXCEPT ![signingKey[c]] = index[c] + 1]
         /\ credentialStatuses' = credentialStatuses \cup {NewStatus(c)}
         /\ UNCHANGED <<keyRow, lists>>
         /\ NewStatus(c).isRevoked = FALSE
<1>1. /\ signingKey[c] \in Keys /\ keyRow[signingKey[c]] = "live"
      /\ index[c] = statusListCurrent[signingKey[c]]
      /\ index[c] < StatusListSize
  BY DEF Inductive, TypeOK, CallsHaveKeys, Commit, WriterOwnsCounter, CounterAsRead,
     ReadsBehindCounter
<1>2. index[c] \in Nat /\ StatusListSize \in Nat
  BY SizeAssumption DEF Inductive, TypeOK
<1>3. index[c] \in 0..(StatusListSize - 1)
  BY <1>1, <1>2
<1> QED
  BY <1>1, <1>3 DEF Commit, NewStatus, lists

(* One step keeps counter, rows and revocations of a key that stays live.  *)
LEMMA StepHistory ==
  ASSUME Inductive, [Next]_vars, NEW k \in Keys, keyRow[k] = "live", keyRow'[k] = "live"
  PROVE  /\ statusListCurrent'[k] >= statusListCurrent[k]
         /\ IndexesOf(k) \subseteq IndexesOf(k)'
         /\ RevokedIndexes(k) \subseteq RevokedIndexes(k)'
<1> DEFINE Kept == /\ statusListCurrent'[k] >= statusListCurrent[k]
                   /\ IndexesOf(k) \subseteq IndexesOf(k)'
                   /\ RevokedIndexes(k) \subseteq RevokedIndexes(k)'
<1>0. TypeOK /\ statusListCurrent[k] \in Nat
  BY DEF Inductive, TypeOK
<1>1. ASSUME UNCHANGED <<statusListCurrent, credentialStatuses>> PROVE Kept
  BY <1>0, <1>1 DEF IndexesOf, RevokedIndexes, StatusesOf
<1>2. ASSUME NEW j \in Keys, CreateKey(j) PROVE Kept
  <2>1. statusListCurrent'[k] = statusListCurrent[k]
    BY <1>0, <1>2 DEF CreateKey, TypeOK
  <2> QED
    BY <1>0, <1>2, <2>1 DEF CreateKey, IndexesOf, RevokedIndexes, StatusesOf
<1>3. ASSUME NEW j \in Keys, DeleteKey(j) PROVE Kept
  <2>1. j # k
    BY <1>0, <1>3 DEF DeleteKey, TypeOK
  <2> QED
    BY <1>0, <1>3, <2>1 DEF DeleteKey, IndexesOf, RevokedIndexes, StatusesOf
<1>4. ASSUME NEW c \in Calls, Commit(c) PROVE Kept
  <2>1. statusListCurrent'[k] >= statusListCurrent[k]
    <3>1. /\ signingKey[c] \in Keys
          /\ index[c] \in 0..(StatusListSize - 1)
          /\ index[c] = statusListCurrent[signingKey[c]]
          /\ statusListCurrent' = [statusListCurrent EXCEPT ![signingKey[c]] = index[c] + 1]
      BY <1>4, CommitAddsARow
    <3>2. CASE k = signingKey[c]
      <4>1. statusListCurrent'[k] = statusListCurrent[k] + 1
        BY <1>0, <3>1, <3>2 DEF TypeOK
      <4> QED
        BY <1>0, <4>1
    <3>3. CASE k # signingKey[c]
      BY <1>0, <3>1, <3>3 DEF TypeOK
    <3> QED
      BY <3>2, <3>3
  <2> QED
    BY <1>4, <2>1, CommitAddsARow DEF IndexesOf, RevokedIndexes, StatusesOf
<1>5. ASSUME Revoking PROVE Kept
  BY <1>0, <1>5, RevokingMarksRows, RevokingKeepsRows
<1>6. ASSUME UNCHANGED vars PROVE Kept
  BY <1>1, <1>6 DEF vars, database
<1>7. ASSUME NEW c \in Calls, Allocating(c) PROVE Kept
  BY <1>1, <1>4, <1>7, OnlyCommitWrites DEF database
<1>8. ASSUME NEW q \in StatusRequests, Answering(q) PROVE Kept
  BY <1>1, <1>8 DEF Answering, GetCredentialStatus, BuildBitArray, SendStatusList,
     StatusRequestFails, database
<1>9. ASSUME Restart PROVE Kept
  BY <1>1, <1>9 DEF Restart, database
<1> HIDE DEF Kept
<1>10. Kept
  BY <1>2, <1>3, <1>5, <1>6, <1>7, <1>8, <1>9 DEF Next
<1> QED
  BY <1>10 DEF Kept

(* In no step does a live key's counter go back, a row of it disappear or  *)
(* a revocation get lost.                                                  *)
THEOREM NothingIsUndone == Spec => HistoryKept
<1>1. Inductive /\ [Next]_vars =>
        [\A k \in Keys :
           keyRow[k] = "live" /\ keyRow'[k] = "live" =>
             /\ statusListCurrent'[k] >= statusListCurrent[k]
             /\ IndexesOf(k) \subseteq IndexesOf(k)'
             /\ RevokedIndexes(k) \subseteq RevokedIndexes(k)']_vars
  BY StepHistory
<1> QED
  BY <1>1, InductiveInvariant, PTL DEF Spec, HistoryKept

-------------------------------------------------------------------------------
(* The implementation of the abstract registry. *)

(* The entry of a row does not depend on its isRevoked.                    *)
LEMMA EntryOfRevokedRow ==
  ASSUME NEW s \in Status
  PROVE  EntryOf([s EXCEPT !.isRevoked = TRUE]) = EntryOf(s)
BY RevokedRow DEF EntryOf

(* The entry of a row names its fields.                                    *)
LEMMA EntryFields ==
  ASSUME NEW s
  PROVE  /\ EntryOf(s).key = s.signingKeyId
         /\ EntryOf(s).index = s.statusListIndex
         /\ EntryOf(s).credential = s.credentialId
BY DEF EntryOf

(* The COMMIT of an allocation is the abstract Allocate.                   *)
LEMMA CommitAllocates ==
  ASSUME Inductive, NEW c \in Calls, Commit(c)
  PROVE  Registry!Next
<1> DEFINE e == EntryOf(NewStatus(c))
           k == signingKey[c]
           given == {EntryOf(s) : s \in credentialStatuses}
           marked == {EntryOf(s) : s \in {t \in credentialStatuses : t.isRevoked}}
<1>1. /\ e.key = k /\ e.index = index[c] /\ e.credential = c
      /\ e = [key |-> k, index |-> index[c], credential |-> c]
  BY DEF EntryOf, NewStatus
<1>2. e \in Registry!Entry
  BY <1>1, CommitAddsARow DEF Registry!Entry
<1>3. given' = given \cup {e} /\ marked' = marked /\ keyRow' = keyRow
  BY CommitAddsARow DEF EntryOf
<1>4. \A s \in credentialStatuses : s.credentialId # c
  BY DEF Inductive, RowIffReturned, Commit
<1>5. \A s \in credentialStatuses : s.signingKeyId = k => s.statusListIndex # index[c]
  <2>1. /\ index[c] = statusListCurrent[k] /\ index[c] \in Nat
        /\ \A s \in StatusesOf(k) : s.statusListIndex \in 0..(index[c] - 1)
    <3>1. /\ k \in Keys /\ keyRow[k] = "live" /\ index[c] = statusListCurrent[k]
          /\ index[c] \in Nat
      BY CommitAddsARow DEF Inductive, TypeOK
    <3>2. IndexesOf(k) = 0..(statusListCurrent[k] - 1)
      BY <3>1 DEF Inductive, CounterMatchesRows
    <3>3. \A s \in StatusesOf(k) : s.statusListIndex \in IndexesOf(k)
      BY DEF IndexesOf
    <3> QED
      BY <3>1, <3>2, <3>3
  <2>2. \A i \in 0..(index[c] - 1) : i # index[c]
    BY <2>1
  <2> QED
    BY <2>1, <2>2 DEF StatusesOf
<1>6. \A f \in given : f.credential # e.credential /\ (f.key = e.key => f.index # e.index)
  BY <1>1, <1>4, <1>5, EntryFields
<1>7. Registry!Allocate(e)
  BY <1>1, <1>3, <1>6, CommitAddsARow DEF Registry!Allocate
<1> QED
  BY <1>2, <1>7 DEF Registry!Next

(* A revocation finds at most one row: it is the abstract Revoke, or a     *)
(* stutter when it finds none or one that is revoked already.              *)
LEMMA RevocationRefines ==
  ASSUME Inductive, NEW rows \in SUBSET credentialStatuses, MarkRevoked(rows),
         \A s, t \in rows : s = t, keyRow' = keyRow
  PROVE  Registry!Next \/ UNCHANGED Registry!vars
<1> DEFINE given == {EntryOf(s) : s \in credentialStatuses}
           marked == {EntryOf(s) : s \in {t \in credentialStatuses : t.isRevoked}}
<1>1. CASE rows = {}
  <2>1. credentialStatuses' = credentialStatuses
    BY <1>1 DEF MarkRevoked
  <2> QED
    BY <2>1 DEF Registry!vars, EntryOf
<1>2. ASSUME NEW s \in rows PROVE Registry!Next
  <2> DEFINE t == [s EXCEPT !.isRevoked = TRUE]
  <2>1. s \in Status /\ s \in credentialStatuses
    BY <1>2 DEF Inductive, TypeOK
  <2>2. EntryOf(t) = EntryOf(s) /\ t.isRevoked
    BY <2>1, RevokedRow, EntryOfRevokedRow
  <2>3. credentialStatuses' = (credentialStatuses \ {s}) \cup {t}
    <3>1. rows = {s}
      BY <1>2
    <3> QED
      BY <3>1 DEF MarkRevoked
  <2>4. EntryOf(s) \in Registry!Entry
    <3>1. /\ s.signingKeyId \in Keys /\ s.credentialId \in Calls
          /\ s.statusListIndex \in 0..(StatusListSize - 1)
      <4>1. /\ s.signingKeyId \in Keys /\ s.credentialId \in Calls
            /\ s.statusListIndex \in Nat
        BY <2>1 DEF Status
      <4>2. s.statusListIndex \in 0..(statusListCurrent[s.signingKeyId] - 1)
        BY <2>1, <4>1 DEF Inductive, NoOrphans, CounterMatchesRows, IndexesOf, StatusesOf
      <4>3. /\ statusListCurrent[s.signingKeyId] \in Nat
            /\ statusListCurrent[s.signingKeyId] <= StatusListSize
        BY <4>1 DEF Inductive, TypeOK, CounterBounded
      <4> QED
        BY <4>1, <4>2, <4>3, SizeAssumption
    <3> QED
      BY <3>1 DEF EntryOf, Registry!Entry
  <2> HIDE DEF t
  <2>5. given' = given
    BY <2>1, <2>2, <2>3 DEF EntryOf
  <2>6. marked' = marked \cup {EntryOf(s)}
    BY <2>1, <2>2, <2>3 DEF EntryOf
  <2>7. EntryOf(s) \in given
    BY <2>1
  <2>8. Registry!Revoke(EntryOf(s))
    BY <2>5, <2>6, <2>7 DEF Registry!Revoke
  <2> QED
    BY <2>4, <2>8 DEF Registry!Next
<1> QED
  BY <1>1, <1>2

(* Deleting the key deletes exactly its entries.                           *)
LEMMA DeletionRefines ==
  ASSUME NEW k \in Keys, DeleteKey(k)
  PROVE  Registry!Delete(k)
<1> DEFINE given == {EntryOf(s) : s \in credentialStatuses}
           marked == {EntryOf(s) : s \in {t \in credentialStatuses : t.isRevoked}}
<1>1. credentialStatuses' = {s \in credentialStatuses : s.signingKeyId # k}
  BY DEF DeleteKey, StatusesOf
<1>2. given' = {e \in given : e.key # k} /\ marked' = {e \in marked : e.key # k}
  BY <1>1 DEF EntryOf
<1> QED
  BY <1>2 DEF DeleteKey, Registry!Delete

(* Every step of the service is a step of the registry or none.            *)
LEMMA StepRefines ==
  ASSUME Inductive, [Next]_vars
  PROVE  Registry!Next \/ UNCHANGED Registry!vars
<1> DEFINE Refined == Registry!Next \/ UNCHANGED Registry!vars
<1>1. ASSUME UNCHANGED <<keyRow, credentialStatuses>> PROVE Refined
  BY <1>1 DEF Registry!vars, EntryOf
<1>2. ASSUME NEW k \in Keys, CreateKey(k) PROVE Refined
  <2>1. Registry!Create(k)
    BY <1>2 DEF CreateKey, Registry!Create, EntryOf
  <2> QED
    BY <2>1 DEF Registry!Next
<1>3. ASSUME NEW k \in Keys, DeleteKey(k) PROVE Refined
  BY <1>3, DeletionRefines DEF Registry!Next
<1>4. ASSUME NEW c \in Calls, Allocating(c) PROVE Refined
  BY <1>1, <1>4, CommitAllocates, OnlyCommitWrites DEF database
<1>5. ASSUME NEW k \in Keys, NEW i \in 0..(StatusListSize - 1), RevokeByIndex(i, k)
      PROVE  Refined
  <2>1. \A s, t \in {r \in StatusesOf(k) : r.statusListIndex = i} : s = t
    BY DEF Inductive, IndexUnique, StatusesOf
  <2> QED
    BY <1>5, <2>1, RevocationRefines DEF RevokeByIndex, StatusesOf
<1>6. ASSUME NEW k \in Keys, NEW c \in Calls, RevokeByCredentialId(c, k) PROVE Refined
  <2>1. \A s, t \in {r \in StatusesOf(k) : r.credentialId = c} : s = t
    BY DEF Inductive, IndexUnique, StatusesOf
  <2> QED
    BY <1>6, <2>1, RevocationRefines DEF RevokeByCredentialId, StatusesOf
<1>7. ASSUME NEW q \in StatusRequests, Answering(q) PROVE Refined
  BY <1>1, <1>7 DEF Answering, GetCredentialStatus, BuildBitArray, SendStatusList,
     StatusRequestFails, database
<1>8. ASSUME Restart \/ UNCHANGED vars PROVE Refined
  BY <1>1, <1>8 DEF Restart, vars, database
<1> HIDE DEF Refined
<1>9. Refined
  BY <1>2, <1>3, <1>4, <1>5, <1>6, <1>7, <1>8 DEF Next, Revoking
<1> QED
  BY <1>9 DEF Refined

(* With its counter, conditional UPDATE and transactions, the service      *)
(* implements the registry, in which every operation is atomic.            *)
THEOREM RefinesRegistry == Spec => ImplementsRegistry
<1>1. Init => Registry!Init
  BY DEF Init, Registry!Init
<1>2. Inductive /\ [Next]_vars => [Registry!Next]_Registry!vars
  BY StepRefines
<1> QED
  BY <1>1, <1>2, InductiveInvariant, PTL DEF Spec, ImplementsRegistry, Registry!Spec

-------------------------------------------------------------------------------
(* The list of indexes and the list of bytes *)

(* buildStatusListJwt begins its loop: the rows it has read for the key k, *)
(* and an array of zeros of the size of the list.                          *)
TokenOf(k) == INSTANCE StatusListToken WITH
  Sizes          <- {StatusListSize},
  NoList         <- NoKey,
  statusListSize <- StatusListSize,
  isRevoked      <- [i \in IndexesOf(k) |-> i \in RevokedIndexes(k)],
  remaining      <- IndexesOf(k),
  bitArray       <- [b \in 0..((StatusListSize + 7) \div 8 - 1) |-> {}],
  lst            <- NoKey

(* Whatever calls and restarts came before, the rows of a live key are     *)
(* rows StatusListToken starts from, so that what is proved of its bytes   *)
(* (TokenIsExact) is true of every list that is built.                            *)
THEOREM ListsFitTheLoop == Spec => [](\A k \in Keys : keyRow[k] = "live" => TokenOf(k)!Init)
<1>1. ASSUME Inductive, NEW k \in Keys, keyRow[k] = "live"
      PROVE  TokenOf(k)!Init
  <2> DEFINE n == statusListCurrent[k]
             given == [i \in IndexesOf(k) |-> i \in RevokedIndexes(k)]
  <2>1. n \in 0..StatusListSize
    BY <1>1, SizeAssumption DEF Inductive, TypeOK, CounterBounded
  <2>2. IndexesOf(k) = 0..(n - 1)
    BY <1>1 DEF Inductive, CounterMatchesRows
  <2>3. given \in [0..(n - 1) -> BOOLEAN] /\ DOMAIN given = IndexesOf(k)
    BY <2>2
  <2> QED
    BY <2>1, <2>3 DEF TokenOf!Init, TokenOf!Rows, TokenOf!ByteCount
<1>2. Inductive => \A k \in Keys : keyRow[k] = "live" => TokenOf(k)!Init
  BY <1>1
<1> QED
  BY <1>2, InductiveInvariant, PTL
===============================================================================
