------------------------------ MODULE StatusList ------------------------------
(***************************************************************************)
(* StatusListService (src/src/status-list/status-list.service.ts): the     *)
(* allocation of a status index to a credential, the two revocations and   *)
(* the reads behind GET /api/:name/credential/status, with the deletion of *)
(* the signing key they all refer to and the restart of the server.        *)
(*                                                                         *)
(* allocateIndex is split at its awaits: SELECT, UPDATE, INSERT and COMMIT *)
(* of one call interleave with those of the others.  The database is       *)
(* outside the repository.  It is modelled by what the code relies on:     *)
(* a statement is atomic, a transaction reads committed rows, the first    *)
(* UPDATE of a transaction takes the write lock until COMMIT or ROLLBACK   *)
(* ("SQLite serialises the writes"), and a statement that finds the lock   *)
(* taken may fail.  What a transaction has written and not yet committed   *)
(* is its index[c]; COMMIT applies it.                                     *)
(***************************************************************************)
EXTENDS Integers, FiniteSets

CONSTANTS
  Keys,            \* UUIDs of signing keys
  Calls,           \* calls of allocateIndex, each with its own jti
  StatusRequests,  \* requests of GET /api/:name/credential/status
  StatusListSize,  \* statusListSize of every key (the column's default)
  NoKey, NoCall

ASSUME SizeAssumption == StatusListSize \in Nat \ {0}
ASSUME NullAssumption == NoKey \notin Keys /\ NoCall \notin Calls

VARIABLES
  keyRow,              \* whether the row of signing_keys exists
  statusListCurrent,   \* its statusListCurrent column
  credentialStatuses,  \* the rows of credential_statuses
  writer,              \* the transaction that holds the write lock, or NoCall
  pc,                  \* where each allocateIndex is
  signingKey,          \* the key it was called with
  index,               \* the index it has read
  reply,               \* where each status request is
  asked,               \* the key it has loaded
  list,                \* the bits it has set for the rows it read
  known                \* history: the indexes revoked when it loaded the key

database == <<keyRow, statusListCurrent, credentialStatuses>>
calls    == <<pc, signingKey, index>>
lists    == <<reply, asked, list, known>>
vars     == <<database, writer, calls, lists>>

-------------------------------------------------------------------------------
(* The rows, and what the queries select of them. *)

Status == [signingKeyId    : Keys,
           statusListIndex : Nat,
           credentialId    : Calls,
           isRevoked       : BOOLEAN]

StatusesOf(k) == {s \in credentialStatuses : s.signingKeyId = k}

IndexesOf(k) == {s.statusListIndex : s \in StatusesOf(k)}

RevokedIndexes(k) == {s.statusListIndex : s \in {t \in StatusesOf(k) : t.isRevoked}}

Running == {"select", "update", "insert", "commit"}
Failures == {"missing", "full", "conflict", "error", "lost"}

TypeOK ==
  /\ keyRow \in [Keys -> {"unborn", "live", "deleted"}]
  /\ statusListCurrent \in [Keys -> Nat]
  /\ credentialStatuses \subseteq Status
  /\ writer \in Calls \cup {NoCall}
  /\ pc \in [Calls -> {"idle", "returned"} \cup Running \cup Failures]
  /\ signingKey \in [Calls -> Keys \cup {NoKey}]
  /\ index \in [Calls -> Nat]
  /\ reply \in [StatusRequests -> {"none", "loaded", "built", "sent", "failed", "lost"}]
  /\ asked \in [StatusRequests -> Keys \cup {NoKey}]
  /\ list \in [StatusRequests -> SUBSET Nat]
  /\ known \in [StatusRequests -> SUBSET Nat]

Init ==
  /\ keyRow = [k \in Keys |-> "unborn"]
  /\ statusListCurrent = [k \in Keys |-> 0]
  /\ credentialStatuses = {}
  /\ writer = NoCall
  /\ pc = [c \in Calls |-> "idle"]
  /\ signingKey = [c \in Calls |-> NoKey]
  /\ index = [c \in Calls |-> 0]
  /\ reply = [q \in StatusRequests |-> "none"]
  /\ asked = [q \in StatusRequests |-> NoKey]
  /\ list = [q \in StatusRequests |-> {}]
  /\ known = [q \in StatusRequests |-> {}]

-------------------------------------------------------------------------------
(* The signing key's row, written by KeysService. *)

CreateKey(k) ==
  /\ keyRow[k] = "unborn"
  /\ writer = NoCall
  /\ keyRow' = [keyRow EXCEPT ![k] = "live"]
  /\ statusListCurrent' = [statusListCurrent EXCEPT ![k] = 0]
  /\ UNCHANGED <<credentialStatuses, writer, calls, lists>>

(* Mutant: the cascade is not restricted to the rows of the key.           *)
DeleteKeyAndEveryStatus(k) ==
  /\ keyRow[k] = "live"
  /\ writer = NoCall
  /\ keyRow' = [keyRow EXCEPT ![k] = "deleted"]
  /\ credentialStatuses' = {}
  /\ UNCHANGED <<statusListCurrent, writer, calls, lists>>

(* ON DELETE CASCADE takes the status rows with the key.                   *)
DeleteKey(k) ==
  /\ keyRow[k] = "live"
  /\ writer = NoCall
  /\ keyRow' = [keyRow EXCEPT ![k] = "deleted"]
  /\ credentialStatuses' = credentialStatuses \ StatusesOf(k)
  /\ UNCHANGED <<statusListCurrent, writer, calls, lists>>

-------------------------------------------------------------------------------
(* allocateIndex *)

Goto(c, where) == pc' = [pc EXCEPT ![c] = where]

(* The caller has loaded the entity of an existing key; BEGIN takes no lock. *)
AllocateIndex(c, k) ==
  /\ pc[c] = "idle"
  /\ keyRow[k] = "live"
  /\ signingKey' = [signingKey EXCEPT ![c] = k]
  /\ Goto(c, "select")
  /\ UNCHANGED <<database, writer, index, lists>>

(* Mutants: the bound is off by one, either way.                           *)
FullOneLate(k) == statusListCurrent[k] > StatusListSize
FullOneEarly(k) == statusListCurrent[k] >= StatusListSize - 1

ListIsFull(k) == statusListCurrent[k] >= StatusListSize

SelectNoKey(c) ==
  /\ pc[c] = "select"
  /\ keyRow[signingKey[c]] # "live"
  /\ Goto(c, "missing")
  /\ UNCHANGED <<database, writer, signingKey, index, lists>>

SelectFullList(c) ==
  /\ pc[c] = "select"
  /\ keyRow[signingKey[c]] = "live"
  /\ ListIsFull(signingKey[c])
  /\ Goto(c, "full")
  /\ UNCHANGED <<database, writer, signingKey, index, lists>>

SelectIndex(c) ==
  /\ pc[c] = "select"
  /\ keyRow[signingKey[c]] = "live"
  /\ ~ListIsFull(signingKey[c])
  /\ index' = [index EXCEPT ![c] = statusListCurrent[signingKey[c]]]
  /\ Goto(c, "update")
  /\ UNCHANGED <<database, writer, signingKey, lists>>

(* Mutant: WHERE id = :id, without the counter.                            *)
RowOfKey(c) == keyRow[signingKey[c]] = "live"

(* The WHERE clause of the UPDATE: the row with the counter that was read. *)
CounterAsRead(c) ==
  /\ keyRow[signingKey[c]] = "live"
  /\ statusListCurrent[signingKey[c]] = index[c]

UpdateCounter(c) ==
  /\ pc[c] = "update"
  /\ writer = NoCall
  /\ CounterAsRead(c)
  /\ writer' = c
  /\ Goto(c, "insert")
  /\ UNCHANGED <<database, signingKey, index, lists>>

(* affected = 0 *)
UpdateNothing(c) ==
  /\ pc[c] = "update"
  /\ writer = NoCall
  /\ ~CounterAsRead(c)
  /\ Goto(c, "conflict")
  /\ UNCHANGED <<database, writer, signingKey, index, lists>>

InsertStatus(c) ==
  /\ pc[c] = "insert"
  /\ Goto(c, "commit")
  /\ UNCHANGED <<database, writer, signingKey, index, lists>>

(* Mutant: the row gets another index than the one returned.               *)
StatusBefore(c) == [signingKeyId    |-> signingKey[c],
                    statusListIndex |-> index[c] - 1,
                    credentialId    |-> c,
                    isRevoked       |-> FALSE]

NewStatus(c) == [signingKeyId    |-> signingKey[c],
                 statusListIndex |-> index[c],
                 credentialId    |-> c,
                 isRevoked       |-> FALSE]

Commit(c) ==
  /\ pc[c] = "commit"
  /\ statusListCurrent' = [statusListCurrent EXCEPT ![signingKey[c]] = index[c] + 1]
  /\ credentialStatuses' = credentialStatuses \cup {NewStatus(c)}
  /\ writer' = NoCall
  /\ Goto(c, "returned")
  /\ UNCHANGED <<keyRow, signingKey, index, lists>>

(* Mutants: the error is swallowed; the transaction is left open.          *)
RollbackUnnoticed(c) ==
  /\ pc[c] \in Running
  /\ writer' = IF writer = c THEN NoCall ELSE writer
  /\ Goto(c, "returned")
  /\ UNCHANGED <<database, signingKey, index, lists>>
RollbackForgotten(c) ==
  /\ pc[c] \in Running
  /\ Goto(c, "error")
  /\ UNCHANGED <<database, writer, signingKey, index, lists>>

(* A statement throws (the lock stays taken until the busy timeout, the    *)
(* disk fails): transaction() rolls back and rethrows.                     *)
Rollback(c) ==
  /\ pc[c] \in Running
  /\ writer' = IF writer = c THEN NoCall ELSE writer
  /\ Goto(c, "error")
  /\ UNCHANGED <<database, signingKey, index, lists>>

-------------------------------------------------------------------------------
(* Revocation: one UPDATE outside any transaction, over the matching rows. *)

(* Mutant: the UPDATE toggles isRevoked.                                   *)
ToggleRevoked(rows) ==
  credentialStatuses' = (credentialStatuses \ rows) \cup
                        {[s EXCEPT !.isRevoked = ~@] : s \in rows}

MarkRevoked(rows) ==
  credentialStatuses' = (credentialStatuses \ rows) \cup
                        {[s EXCEPT !.isRevoked = TRUE] : s \in rows}

(* Mutant: WHERE statusListIndex = ?, without the key.                     *)
RevokeIndexOfEveryKey(i, k) ==
  /\ writer = NoCall
  /\ MarkRevoked({s \in credentialStatuses : s.statusListIndex = i})
  /\ UNCHANGED <<keyRow, statusListCurrent, writer, calls, lists>>

RevokeByIndex(i, k) ==
  /\ writer = NoCall
  /\ MarkRevoked({s \in StatusesOf(k) : s.statusListIndex = i})
  /\ UNCHANGED <<keyRow, statusListCurrent, writer, calls, lists>>

RevokeByCredentialId(c, k) ==
  /\ writer = NoCall
  /\ MarkRevoked({s \in StatusesOf(k) : s.credentialId = c})
  /\ UNCHANGED <<keyRow, statusListCurrent, writer, calls, lists>>

-------------------------------------------------------------------------------
(* GET /api/:name/credential/status: the controller loads the key, then    *)
(* buildStatusListJwt reads the rows and sets the bits, and what it has    *)
(* signed is sent.  Several requests may be under way, and what one has    *)
(* read may be sent after what another has read later.                     *)

GetCredentialStatus(q, k) ==
  /\ reply[q] = "none"
  /\ keyRow[k] = "live"
  /\ reply' = [reply EXCEPT ![q] = "loaded"]
  /\ asked' = [asked EXCEPT ![q] = k]
  /\ known' = [known EXCEPT ![q] = RevokedIndexes(k)]
  /\ UNCHANGED <<database, writer, calls, list>>

(* Mutant: the rows of every key are read.                                 *)
BuildFromEveryKey(q) ==
  /\ reply[q] = "loaded"
  /\ reply' = [reply EXCEPT ![q] = "built"]
  /\ list' = [list EXCEPT ![q] = UNION {RevokedIndexes(k) : k \in Keys}]
  /\ UNCHANGED <<database, writer, calls, asked, known>>

BuildBitArray(q) ==
  /\ reply[q] = "loaded"
  /\ reply' = [reply EXCEPT ![q] = "built"]
  /\ list' = [list EXCEPT ![q] = RevokedIndexes(asked[q])]
  /\ UNCHANGED <<database, writer, calls, asked, known>>

SendStatusList(q) ==
  /\ reply[q] = "built"
  /\ reply' = [reply EXCEPT ![q] = "sent"]
  /\ UNCHANGED <<database, writer, calls, asked, list, known>>

(* The SELECT throws, or the private key does not decrypt or cannot sign.  *)
StatusRequestFails(q) ==
  /\ reply[q] \in {"loaded", "built"}
  /\ reply' = [reply EXCEPT ![q] = "failed"]
  /\ UNCHANGED <<database, writer, calls, asked, list, known>>

-------------------------------------------------------------------------------
(* The process stops, at any point: its calls and requests are lost,       *)
(* SQLite rolls an open transaction back, and what was committed is there  *)
(* after the start.                                                        *)
Restart ==
  /\ pc' = [c \in Calls |-> IF pc[c] \in Running THEN "lost" ELSE pc[c]]
  /\ writer' = NoCall
  /\ reply' = [q \in StatusRequests |-> IF reply[q] \in {"loaded", "built"} THEN "lost"
                                                                           ELSE reply[q]]
  /\ UNCHANGED <<database, signingKey, index, asked, list, known>>

Allocating(c) ==
  \/ \E k \in Keys : AllocateIndex(c, k)
  \/ SelectNoKey(c) \/ SelectFullList(c) \/ SelectIndex(c)
  \/ UpdateCounter(c) \/ UpdateNothing(c) \/ InsertStatus(c) \/ Commit(c)
  \/ Rollback(c)

Revoking ==
  \E k \in Keys : \/ \E i \in 0..(StatusListSize - 1) : RevokeByIndex(i, k)
                  \/ \E c \in Calls : RevokeByCredentialId(c, k)

Answering(q) ==
  \/ \E k \in Keys : GetCredentialStatus(q, k)
  \/ BuildBitArray(q) \/ SendStatusList(q) \/ StatusRequestFails(q)

Next ==
  \/ \E k \in Keys : CreateKey(k) \/ DeleteKey(k)
  \/ \E c \in Calls : Allocating(c)
  \/ Revoking
  \/ \E q \in StatusRequests : Answering(q)
  \/ Restart

Spec == Init /\ [][Next]_vars

(* A call goes on until it is done: the driver answers every statement,    *)
(* and nothing but the call's own steps stands between UPDATE and COMMIT.  *)
Progress(c) ==
  \/ SelectNoKey(c) \/ SelectFullList(c) \/ SelectIndex(c)
  \/ UpdateCounter(c) \/ UpdateNothing(c) \/ InsertStatus(c) \/ Commit(c)

FairSpec == Spec /\ \A c \in Calls : WF_vars(Progress(c))

-------------------------------------------------------------------------------
(* Properties *)

(* signing-key.entity.ts and credential-status.entity.ts: the counter and  *)
(* the rows agree.  The indexes in use are 0 .. statusListCurrent - 1, all *)
(* of them, whatever calls conflicted, failed half way or were cut off by  *)
(* a restart: no index is skipped and none is used before it is counted.   *)
CounterMatchesRows ==
  \A k \in Keys : keyRow[k] = "live" => IndexesOf(k) = 0..(statusListCurrent[k] - 1)

(* credential-status.entity.ts: an index is unique in the list of its key, *)
(* and a credential has one row, however allocations interleave.           *)
IndexUnique ==
  \A s, t \in credentialStatuses :
    \/ s.signingKeyId = t.signingKeyId /\ s.statusListIndex = t.statusListIndex
    \/ s.credentialId = t.credentialId
    => s = t

(* buildStatusListJwt sizes the bit vector from statusListSize: an index   *)
(* beyond it would be dropped by the write into the Uint8Array.            *)
IndexInList == \A s \in credentialStatuses : s.statusListIndex < StatusListSize

(* The error a call returns is the truth when it is returned and stays so: *)
(* "full" only when every index of the list has a row, "conflict" only     *)
(* when another call took the index that was read, "missing" only when the *)
(* key was deleted under the call.                                         *)
FailuresAreHonest ==
  \A c \in Calls :
    LET k == signingKey[c] IN
    /\ pc[c] = "full" /\ keyRow[k] = "live" => IndexesOf(k) = 0..(StatusListSize - 1)
    /\ pc[c] = "conflict" /\ keyRow[k] = "live" => index[c] \in IndexesOf(k)
    /\ pc[c] = "missing" => keyRow[k] = "deleted"

(* A call that returned has its row, with the index it returns; a call     *)
(* that failed or was lost has none, and neither does one still running.   *)
RowIffReturned ==
  \A c \in Calls :
    /\ pc[c] = "returned" /\ keyRow[signingKey[c]] = "live" =>
         \E s \in credentialStatuses : /\ s.credentialId = c
                                       /\ s.signingKeyId = signingKey[c]
                                       /\ s.statusListIndex = index[c]
    /\ pc[c] # "returned" => \A s \in credentialStatuses : s.credentialId # c

(* While a key lives its counter only grows and a row of it neither goes   *)
(* away nor loses its revocation, in any step of any operation.            *)
HistoryKept ==
  [][\A k \in Keys :
       keyRow[k] = "live" /\ keyRow'[k] = "live" =>
         /\ statusListCurrent'[k] >= statusListCurrent[k]
         /\ IndexesOf(k) \subseteq IndexesOf(k)'
         /\ RevokedIndexes(k) \subseteq RevokedIndexes(k)']_vars

(* A list says "revoked" only of indexes that were given out and revoked,  *)
(* for a key that still exists, however late it is sent.                   *)
ListsAreSound ==
  \A q \in StatusRequests :
    reply[q] \in {"built", "sent"} /\ keyRow[asked[q]] = "live" =>
      list[q] \subseteq RevokedIndexes(asked[q])

(* Whoever asks for the list of a key after a revocation is told of it, as *)
(* long as the key lives: although the key is loaded in one statement and  *)
(* the rows in another, and lists may overtake each other on their way, no *)
(* list is older than the request it answers.  With ListsAreSound: who     *)
(* asks again once an answer has come sees every bit that answer had.      *)
ListsAreFresh ==
  \A q \in StatusRequests :
    reply[q] \in {"built", "sent"} /\ keyRow[asked[q]] = "live" =>
      known[q] \subseteq list[q]

(* No call waits for ever, although every call that writes waits for the   *)
(* lock: it returns or fails, whoever else fails or is cut off meanwhile.  *)
EveryCallEnds == \A c \in Calls : pc[c] \in Running ~> pc[c] \notin Running

-------------------------------------------------------------------------------
(* What makes the properties inductive. *)

(* A started call has a key that was once created.                         *)
CallsHaveKeys ==
  \A c \in Calls :
    pc[c] # "idle" => signingKey[c] \in Keys /\ keyRow[signingKey[c]] # "unborn"

(* The transaction between its UPDATE and its COMMIT is the one that holds *)
(* the lock, and nothing it has read has changed since.                    *)
WriterOwnsCounter ==
  \A c \in Calls :
    /\ pc[c] \in {"insert", "commit"} <=> writer = c
    /\ writer = c => CounterAsRead(c)

(* What a call has read is not ahead of the counter, and the outcome of a  *)
(* failed call is in terms of the counter.                                 *)
ReadsBehindCounter ==
  \A c \in Calls :
    LET k == signingKey[c] IN
    /\ pc[c] \in {"update", "insert", "commit"} => index[c] < StatusListSize
    /\ pc[c] = "update" /\ keyRow[k] = "live" => index[c] <= statusListCurrent[k]
    /\ pc[c] = "conflict" /\ keyRow[k] = "live" => index[c] < statusListCurrent[k]
    /\ pc[c] = "full" /\ keyRow[k] = "live" => statusListCurrent[k] = StatusListSize

CounterBounded == \A k \in Keys : statusListCurrent[k] <= StatusListSize

(* ON DELETE CASCADE leaves no row without its key.                        *)
NoOrphans == \A s \in credentialStatuses : keyRow[s.signingKeyId] = "live"

(* A status request has a key that was once created, and what was revoked  *)
(* when it came still is.                                                  *)
RequestsHaveKeys ==
  \A q \in StatusRequests :
    reply[q] # "none" =>
      /\ asked[q] \in Keys /\ keyRow[asked[q]] # "unborn"
      /\ keyRow[asked[q]] = "live" => known[q] \subseteq RevokedIndexes(asked[q])

Inductive ==
  /\ TypeOK
  /\ CallsHaveKeys
  /\ WriterOwnsCounter
  /\ ReadsBehindCounter
  /\ CounterBounded
  /\ NoOrphans
  /\ RequestsHaveKeys
  /\ CounterMatchesRows
  /\ IndexUnique
  /\ FailuresAreHonest
  /\ RowIffReturned
  /\ ListsAreSound
  /\ ListsAreFresh

-------------------------------------------------------------------------------
(* Refinement: each operation is one step of the abstract registry.        *)

EntryOf(s) == [key        |-> s.signingKeyId,
               index      |-> s.statusListIndex,
               credential |-> s.credentialId]

Registry == INSTANCE StatusRegistry WITH
  Credentials <- Calls,
  entries     <- {EntryOf(s) : s \in credentialStatuses},
  revoked     <- {EntryOf(s) : s \in {t \in credentialStatuses : t.isRevoked}}

(* Allocation, revocation and deletion look atomic to every observer.      *)
ImplementsRegistry == Registry!Spec
===============================================================================
