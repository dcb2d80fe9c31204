# Verification of the SD-JWT-VC issuer

TLA+ modules, TLC configurations and TLAPS proofs kept beside the issuer, a NestJS
server (TypeORM over one SQLite file) that signs SD-JWT-VC credentials, publishes the
status list in which they can be revoked, and lets an administrator manage the signing
keys and API keys. Source paths below are relative to the repository; the server is under
`src/`.

## 1. The system

| Component | State it keeps | Operations | What makes it correct |
|---|---|---|---|
| Status list: `status-list/status-list.service.ts`, `credential-status.entity.ts` | rows of `credential_statuses` (key, index, jti, isRevoked); `statusListCurrent` in the key's row | `allocateIndex` (transaction: SELECT, conditional UPDATE, INSERT), `revokeByIndex`, `revokeByCredentialId`, `buildStatusListJwt` | an index is given out once, none is skipped, counter and rows agree, failures leave nothing behind, a revocation is never undone, a published bit is a real revocation |
| Signing keys: `keys/keys.service.ts`, `signing-key.entity.ts` | rows of `signing_keys`: UUID, unique identifier, public JWK, private JWK sealed with `STORAGE_SECRET` | `createKey`, `importKey` (check, generate or parse, save), `findByIdentifier`, `findById`, `deleteKey` | an identifier names one key; a form reports what was saved |
| API keys: `auth/api-key.service.ts`, `auth/guards/api-key.guard.ts` | rows of `api_keys`: hash, signing key, isRevoked | `createApiKey`, `revokeApiKey`, `validateApiKey`, `canActivate` | a request issues with the key its API key belongs to |
| Issuer API: `issuer-api/issuer-api.service.ts`, `.controller.ts`, `dto/` | `sdjwtInstances`, a cache by UUID of key | `issueCredential`, `verifyCredential`, `getPublicKey`, `getCredentialStatus` | the credential is signed by its issuer, has its entry in the list it points to, and verifies under its name; every request is answered |
| Administration: `admin/` | none | forms and pages over the services above | |
| Administrator account: `auth/admin-auth.service.ts` | one row of `admin_users`; `admin_pass.txt` | bootstrap at start-up, `validateAdmin`, `changePassword` | the password on file opens the account however often the start was cut off; a call is accepted exactly if it presented the password it read; a changed password stays changed |
| Administrator session: `auth/strategies/`, `jwt-admin.guard.ts` | a signed cookie | login, logout, guard | what the guard hands to the handlers is what they take it for |
| Cryptography: `crypto/crypto.service.ts` | the AES key derived from `STORAGE_SECRET` | generate, import, seal, sign, verify | sign and verify agree on the algorithm; a sealed key opens with its own secret only |
| Configuration and start-up: `config/`, `database/`, `app.module.ts`, `main.ts` | TOML values | `resolve`, the constructors and factories that read values, `onModuleInit`, `listen` | nothing is served under a missing or short value; nothing else is refused |

**Interactions.** A `POST /api/:name/issue` passes `ApiKeyGuard` (SELECT of the candidates,
then `bcrypt.compare`), the body validation, `findByIdentifier`, `allocateIndex` (its own
transaction, committed) and only then `sdjwt.issue` with an instance from the cache.
`GET credential/status` and `verify` load the key by name and then use it. Administrators
create, import and delete keys meanwhile; deleting a signing key cascades to its API keys
and status rows but not to the cache. A restart empties the cache and may come with another
`STORAGE_SECRET`.

**What is hard.** The steps of several handlers interleave at every await and, if several
processes share the file, at every statement; the entity passed to `allocateIndex` is older
than the transaction; a transaction fails or the process dies between UPDATE and COMMIT;
the index is committed before the signature may fail; identifiers are used again while the
cache survives the deletion; a start may be cut off between two system calls and find its own
half-written file; a password is compared with a row that may have changed since; values are
read before they are validated. `PROJECT.json` lists every such place with its line
("hazards") and the properties that cover it.

## 2. Modules

| Module | What it is |
|---|---|
| `StatusRegistry` | abstract specification: create, allocate, revoke and delete as one step each |
| `StatusList` | `StatusListService` with `allocateIndex` split at its awaits; invariants, refinement of `StatusRegistry` |
| `StatusListProofs` | its theorems |
| `StatusListToken` | the bytes of the published list, written row by row, and what a verifier reads |
| `StatusListTokenProofs` | its theorems |
| `KeyRegistry` | abstract specification: a table of signing keys to which whole rows are added and from which they are removed |
| `SigningKeys` | `KeysService` behind the key forms, and the secret of the running process; refinement of `KeyRegistry` |
| `SigningKeysProofs` | its theorems |
| `IssuerApi` | composes `SigningKeys` (as `SK`) and `StatusRegistry` (as `Registry`) with API keys, requests and the instance cache |
| `IssuerApiProofs` | its theorems |
| `AdminAccount` | abstract specification: an account that decides every login and change at once |
| `AdminAuth` | `AdminAuthService` and the handlers that use it: starts, logins, changes of password; refinement of `AdminAccount` |
| `AdminAuthProofs` | its theorems |
| `Startup` | `ConfigService` and the order in which a start reads, validates and uses its values |
| `StartupProofs` | its theorems |
| `MCStatusList`, `MCStatusListToken`, `MCSigningKeys`, `MCIssuerApi`, `MCAdminAuth`, `MCStartup` | the small sets the `.cfg` files assign to the constants |

`IssuerApi` uses the abstract registry for the allocation: `StatusList` is proved to
implement it, so the composite need not repeat its statements. The row of a signing key is
one variable, `keyRow`, shared by both instances: `SaveKey` is `SK!SaveKey /\ Registry!Create`
and `DeleteKey` is `SK!DeleteKey /\ Registry!Delete` with the cascade to the API keys.

### How state and actions correspond to the code

*StatusList.* `keyRow`, `statusListCurrent`, `credentialStatuses` are the two tables.
`pc[c]`, `signingKey[c]`, `index[c]` are the locals of call `c` of `allocateIndex`, which is
also its jti. `SelectNoKey`, `SelectFullList`, `SelectIndex` are the outcomes of lines 47-58,
`UpdateCounter` and `UpdateNothing` those of the conditional UPDATE (64-78), `InsertStatus`
and `Commit` the rest; `Rollback` is any statement that throws. The database is outside the
repository. It is taken to do what the comment at lines 60-63 relies on: statements are
atomic, a transaction reads committed rows, the first UPDATE of a transaction holds the
write lock until COMMIT or ROLLBACK, and a statement that finds it taken waits and may fail.
What a transaction wrote and has not committed is visible to nobody; `Commit` applies it.
`reply[q]` is where the status request `q` is: it loads the key (`GetCredentialStatus`,
`asked[q]`), reads the rows and sets the bits (`BuildBitArray`, `list[q]`), and is signed and
sent (`SendStatusList`) or throws (`StatusRequestFails`). A list may be sent long after it was
read, and after lists that were read later. `known[q]` is a history variable, the indexes that
were revoked when `q` loaded its key. Compression, JWT claims and dates of the list are left out.
Nothing in the repository calls `revokeByIndex` or `revokeByCredentialId` (no controller and no
form does); `StatusList` and `IssuerApi` let them be called at any time.

*StatusListToken.* One step per row of the loop at lines 151-157, in any order, since the
SELECT has none; a byte is the set of its bits that are 1. Its rows are those `StatusList`
guarantees (`CounterMatchesRows`, `IndexInList`): indexes 0..n-1 with n at most the size.
The reading side is the draft's, external to the repository.

In one process the driver answers within the microtask queue, so most of these
interleavings need several processes on one file; the model covers both. How TypeORM shares
one connection among overlapping transactions of one process is not modelled.

*SigningKeys.* A form is named by the UUID its row would get. `Submit` is everything from
the check of the identifier to the `save`; `SaveKey` or `SaveConflicts` is the save, decided
by the unique column; `SubmitFails` is any other exception. A generated pair for `k` is `k`
itself, an imported one is a member of `Pems`. `Restart(s)` brings the process up with the
secret `s`; the row keeps the secret it was sealed with. Seen as a `KeyRegistry`, the
columns of the live keys are the rows and every UUID that has, or had, a row is used; a form
that has not saved yet is nothing at all.

*IssuerApi.* `pc[r]` is where the handler of request `r` is: "compare" (in
`bcrypt.compare`), "find", "allocate", "sign", then how it was answered: "delivered",
"unauthorized" (401), "badRequest" (400), "notFound" (404), "error" (500 from the
allocation), "unsigned" (500 from the signature, after the index is committed), or "lost" to
a restart. `instances[k]` is the pair captured by the cached `SDJwtInstance`. A key whose
private part does not open under the secret in force has no instance and cannot even verify,
as in `getSdjwtInstance`. `SigningPairs` leaves out pairs such as X25519, which `algParams`
accepts as OKP and `crypto.sign` rejects. `claims[r]` is the set of names in the caller's `dto.claims` that the service sets
itself or that the verification reads; they are spread last, so each of them replaces the
service's value by `CallersValue`, or by `CallersDate` if it is `exp`, `iat` or `nbf`. A run
chooses the names that may occur with `ClaimNames`, the values of `dto.exp` with `Expiries` and
the moments of a verification with `Times`. `Verifies` is what `verifyCredential` answers: the
signature passes with the instance of the key that has the name (`SignatureAccepted`), and
`sdjwt.verify`, which is `@sd-jwt/core`'s and outside the repository, finds the credential
neither expired nor ahead of its `iat` or `nbf` (`InDate`). An `iat` set by the service is
`NoValue`: the clock of the server is taken not to go backwards between issue and verification.

*AdminAuth.* `boot[s]` is where server `s` is in `onModuleInit`: "file" (it has counted no
row), "open" and "write" (inside `writeFileSync`, which truncates and then writes), "hash"
(in `bcrypt.hash`, before the save), then "running" or "failed"; `password[s]` is its local
variable, `file` the content of `admin_pass.txt`, `account` the password whose hash is in the
row. `pc[c]` is where the handler of call `c` is: "compare" and "hash" are the two
suspensions in bcrypt, the rest is how it was answered; `seen[c]` is the `passwordHash` of the
entity `findOne` returned. A login is a call whose `new[c]` is `NoValue`. `Stop` may come
between any two of these steps and cuts the calls of the server off. The administrator
touches the file only while no server is starting, and does not leave it empty.

The handler of `POST admin/account/change-password` takes `req.user` for something with an
`id`, which it does not have (see the violations). What TypeORM, which is outside `src/src`,
does with `where: { id: undefined }` depends on its version and options: with
`IgnoresUndefined` the condition is dropped and the only row is found, without it `findOne`
throws, which is the default of the version in `package.json`. The passing runs set it, since
otherwise no change gets as far as its comparison; `admin_change` does not. The theorems hold
for both.

*Startup.* `env` and `toml` are what the administrator has set, `stage` how far a start has
come, `built` the providers that exist, `aesKey` and `database` what two of them have read.
The providers are built in any order, since Nest awaits and resolves them by dependency;
`AllBuilt` is the point where the hooks begin. Of the hooks, that of `ConfigService` (its
module is global) is the first, `Validate`; that of `AdminAuthService` is `Bootstrap`, one
step here and all of `AdminAuth` there. A text matters as the empty text, as one that is long
enough for `STORAGE_SECRET`, and as one `parseInt` makes a port of.

## 3. Runs

Every run sets `CHECK_DEADLOCK FALSE`: the calls, forms and requests of an instance are
finitely many, and the system stops when all have ended.

| Run | Instance | Shows |
|---|---|---|
| `status_list` | 2 keys, 3 calls, 1 status request, lists of 2, `FairSpec` | three callers race for two entries: one of them is refused or conflicts; an operation on one key leaves the other's rows and list alone. All invariants, `Inductive` itself (with the types), the two action properties, the refinement, and every call ends |
| `status_list_token` | lists of 1, 7, 8, 9 entries, every choice of rows and revocations | the bytes read back, with a last byte that is full or not |
| `signing_keys` | 3 forms, 2 identifiers, 1 PEM, 2 secrets | overlapping forms, deletion, restart; `Inductive`; the refinement of `KeyRegistry` |
| `issuer_reuse` | 2 keys under 1 identifier, 2 PEMs of which one is X25519, 2 secrets, 1 request with claims named `iss`, `exp` and `nbf` (dated 6) and `dto.exp` absent, 0 or 7, verified at 5 to 8, `FairSpec` | a name passed from one key to the next, cache, change of secret; a credential verifies whenever it was asked to be valid; every request is answered or cut off |
| `issuer_requests` | 2 keys, 2 identifiers, 1 API key, 2 requests, an X25519 PEM, claims named `status` | overlapping requests against the administrator's actions and revocations; whose entry a credential leads to and what changes it; `Inductive` |
| `admin_start` | 1 server, 3 calls, 2 passwords to draw, 1 to choose, 1 to change to | starts cut off anywhere and repeated; the file, the row and what a start has in hand agree (`AloneInductive`); only an empty file leaves a running server without an account; overlapping logins and changes implement `AdminAccount` |
| `admin_servers` | 2 servers, 2 calls, 2 passwords to draw, `FairSpec` | two starts at once, one of them late: `ChangeIsKept`, `Inductive` (the refinement for several servers is proved); every start and call ends |
| `startup` | 4 values from 2 sources; empty, short and long texts, numbers and others, `FairSpec` | every configuration, edited between starts; every start ends |
| `issuer_claims` | 1 key, 1 request, claims named `iss`, `jti`, `status`, `OneProcessSpec` | violation 1 below |
| `issuer_deletion` | 2 keys, 1 PEM, 1 request, `OneProcessSpec` | violation 2 |
| `admin_empty_file` | 1 server | violation 3 |
| `admin_change` | 1 server, 2 calls, `IgnoresUndefined = FALSE` | violation 4 |

*Why the bounds are enough.* A conflict needs two calls, a conflict followed by a full list
three calls over two entries; two entries also tell "the last index" from "any index". Status requests
do not interact (none changes what another reads), so one that may stop between any two of its
steps shows what each of many sees; the theorems are about any number of them. Dates before, at
and after each of the two that occur are among the moments of `issuer_reuse`. An
identifier is reused with two keys, contested by two forms and lost to a third. The reuse of
a name while its former key is cached, and the deletion of a key under a request, need two
keys and one request; two requests are needed to share a list. A change of password can
run between the comparison and the save of another with two changes and a login that opens
the session: three calls. Two drawn passwords tell the file of one start from that of the
next. `Startup` has a text of each kind its steps tell apart, for every value and source. The
theorems lift the bounds altogether.

*Properties.* The types of a module are a conjunct of its `Inductive` (of `AloneInductive`
for `admin_start`), so the runs that check one check the other; `status_list_token` has
`TypeOK` by itself. `CounterMatchesRows`: the indexes in use are exactly 0..counter-1.
`IndexUnique`, `IndexInList`. `FailuresAreHonest`: "full", "conflict" and "missing" are true
when returned and stay so. `RowIffReturned`: atomicity towards the caller.
`HistoryKept`: what no step may do. `ListsAreSound`: published bits are
revocations of the same key. `ListsAreFresh`: a list holds every revocation made before it was
asked for, although key and rows are read one after the other and lists overtake each other.
That the lists *as they are sent* never lose a bit is not true of several processes, where an
older one may come after a newer one; the two properties together say what is: whoever asks
once an answer has come sees every bit of that answer. `ImplementsRegistry`: refinement. `EveryCallEnds`.
`BitsOfPassedRows`, `TokenReadsBack`: the bytes are the revoked rows, no more and no fewer.
`IdentifierUnique`, `FormsAreHonest`; `ImplementsRegistry` of `SigningKeys`: a form adds a
whole row, sealed with the secret in force, or nothing, and no row changes.
`SignatureMatchesIssuer`: `iss` comes from the row and the signature from the cache, and they
name the same pair. `OwnCredentialsVerify`: an issued credential is accepted at every moment
at which the request asked for it to be valid (`ValidAt`). Only this direction is stated: a
`disclosableClaims` that names `exp`, `iat` or `nbf` takes these out of the signed payload, and
then the verification cannot refuse for them. `VerifiesUnderOwnKeyOnly`: although names are used
again and the cache outlives the rows, what a generated pair signed verifies under the name
of its own key and nowhere else, at any time.
`DeliveredIsTracked`: the URI and index in a credential lead to its own entry and to no other.
`StatusLasts`: what they lead to changes by a revocation only, and that for good.
`IssuedByOwnKey`: guard and handler look the name up separately; they disagree only if the
API key's own signing key was deleted in between. `EntriesAccounted`: which failures cost an
index. `EveryRequestEnds`. `InitialPasswordOnFile`: the password the log sends the
administrator to is the one the account has, although file and row are written separately.
`AccountUnlessFileEmpty`: no failure of a start but an empty file lets it run without an account.
`ChangeIsKept`: only another change replaces a changed password. `ImplementsAccount`: a call
is accepted exactly if it presents the password in force at its `SELECT`; two overlapping
changes may both succeed, and the later save stays. `ConfiguredBeforeUse`,
`RefusedOnlyIfMisconfigured`: stated with `Provided`, the precedence documented at
`config.service.ts:9-12`, not with the translated `resolve`.

A published list of a *deleted* key is not constrained: its rows are gone.

*Fairness.* `FairSpec` of `StatusList` assumes that the driver answers each statement of a
call (weak fairness of the steps of each call, not of its failing). A waiting UPDATE is
enabled again and again but not continuously while others hold the lock; weak fairness is
still enough because there are finitely many calls, each of which ends its transaction.
`FairSpec` of `IssuerApi` assumes that the event loop continues each handler it started.
`FairSpec` of `AdminAuth` assumes that a start that has begun and a handler that waits for
bcrypt or the driver goes on, that of `Startup` that Nest goes on building, hooking and
listening. Nothing is assumed of clients or administrators, and nothing has to fail.

*The violations.*

1. `src/src/issuer-api/dto/issue-credential.dto.ts:49` says the reserved claims "sont gérés
   automatiquement". `issueCredential` spreads `dto.claims` after them, and `issuer_claims`
   finds a delivered credential whose issuer, jti or status is the caller's.
   `SignatureMatchesIssuer` and `DeliveredIsTracked` are stated for credentials where the
   caller left the name concerned alone.
2. `src/views/admin/keys/detail.hbs:158-159` tells the administrator that deleting a key is
   irreversible and that no credential issued with it can be verified any more. `deleteKey`
   removes the row and nothing remembers the pair: importing the same PEM again, under the
   same or another identifier, makes `GET /api/:name/verify` accept the old credentials.
   `issuer_deletion` finds this under `OneProcessSpec`, which forbids the interleavings one
   process cannot show, so the trace is one of plain sequential use.
3. `admin-user.entity.ts:10` says an administrator is created automatically at the start. A
   start that ends between the creation of `admin_pass.txt` and its content leaves an empty
   file, with which every later start logs an error and runs without an account
   (`admin_empty_file`).
4. `admin-auth.service.ts:110` says a change is refused if the old password is wrong.
   `JwtStrategy.validate` returns `{ sub, username }`, the handler reads `id` from it
   (`admin.controller.ts:253-254`), and `findOne` rejects the undefined condition:
   `admin_change` finds a change refused with the right password. No change can succeed.

Three smaller disagreements are in the models without a run of their own.
`crypto.service.ts:149` says the import throws for an unsupported key type and line 95 lists
the supported ones, but `algParams` takes every OKP key for EdDSA: an X25519 key is saved, and
every request with it fails after its index is committed (`SignFails`; `EntriesAccounted` says
what that costs). `exp: 0` passes the validation and is dropped by
`issuer-api.service.ts:108` (`Expiry`): the credential never expires, which the API documentation
promises of an absent `exp` only (`issue-credential.dto.ts:66`). `app.module.ts:14-17` gives the order validation,
database, key derivation, while the validation is in `onModuleInit`, which runs when all
providers are built; `ConfiguredBeforeUse` shows that nothing is served that way.

## 4. Proofs

All proofs are checked for every value of the constants under the named assumptions of the
modules: `SizeAssumption` (a list has at least one entry), `NullAssumption`,
`SizesAssumption`, `PairsAssumption` (a generated pair is not an imported one), `NoValueAssumption`,
`DatesAssumption` and `NoDateAssumption` (dates are natural numbers, a caller's own is not 0, and
"no date" is none of them),
`ContentsAssumption`, `KindsAssumption` (the passwords drawn, chosen and changed to are
different ones, so that the properties can tell where one comes from), `LookupAssumption`,
`TextsAssumption` (what the empty text, a secret and a port number have to do with each other).

*StatusListProofs.* The counter, uniqueness and refinement properties are not inductive one
by one. Two facts carry the argument: `WriterOwnsCounter` (a call between its UPDATE and its
COMMIT holds the lock, and what it read is still in the row) and `CounterMatchesRows` (so the
index it is about to insert is used by no row). `ReadsBehindCounter` says what a call has
read is never ahead of the counter, which makes a failed comparison a true conflict;
`CallsHaveKeys` and `NoOrphans` handle deletion, `RequestsHaveKeys` the status requests: what was
revoked when a request came still is when its rows are read, as long as the key lives.
`Inductive` is their conjunction with the properties; there is a lemma per group of actions
and the theorems follow: `TypeCorrect`, `InductiveInvariant`, `IndexesAreUnique`,
`CounterIsExact`, `IndexesFit`, `FailuresStayHonest`, `AllocationIsAtomic`, `ListsSound`,
`ListsStayFresh`, the action property `NothingIsUndone`, and `RefinesRegistry`: the
initial states map to initial states, `CreateKey`, `DeleteKey`, `Commit` and a revocation map
to a step of the registry (or a stutter, when nothing changes) and everything else to a stutter.

*StatusListTokenProofs.* `Inductive` is `BitsOfPassedRows` with the types: a bit is set
exactly for a revoked row already passed. `ByteInArray` (the byte of an index of the list
exists, for every size) and `PositionUnique` (byte and bit determine the index) carry
`TokenIsExact`, `LoopIsExact` and `TokenTypeCorrect`.

*SigningKeysProofs.* `Inductive` adds to the properties `RowsComplete` (a row has every column
and a pair that is its own or was imported) and `SealedInForce` (a form under way holds a
private key sealed with the secret in force: a restart changes the secret, but cuts every form
off, so a row is never born with an older one). `KeysAndFormsAgree`, `IdentifiersAreUnique`,
`FormsStayHonest`, `TypeCorrect`. `RefinesRegistry`: a save maps to `Add`, a deletion to
`Remove`, a restart to `Reconfigure`, and a form that checks, generates, conflicts or fails to
a stutter. The unique column gives the guard of `Add`, not the check at the start of the form.

*IssuerApiProofs.* The part of `Inductive` about signing keys alone is `SK!Inductive`; the
steps of the composite are steps of `SigningKeys` or leave its variables alone, so the lemma
of `SigningKeysProofs` gives its preservation. `EntriesDistinct` is preserved by every step of
the registry and needs no more than that. Over these, `InstancesOfRows` says the cache holds
the pair of its row, `RequestsPresentKeys`, `RequestsAdmitted`, `RequestsHaveKeys` and
`RequestsHaveEntries` what each stage of a request has established, and
`CredentialsAsIssued` that a credential stays what its row made of it: nothing ever changes
the pair or the identifier of a row. The theorems fall into four groups.

- Those of the runs: `InductiveInvariant`, `IssuerSigns`, `CredentialsAreTracked`,
  `OwnCredentialsAreAccepted`, `GeneratedPairsVerifyOwn`, `RequestsIssueByOwnKey`,
  `EntriesAreAccountedFor`, `StatusOnlyRevoked`, and `TypeCorrect`.
  `OwnCredentialsAreAccepted` joins the signature (the cache holds the pair of the row) with the
  dates (`DatesAsAsked`: those of the credential allow every moment the request's do).
  `CredentialsAreTracked` needs `EntriesDistinct`, since it says the entry is the only one.
  `StatusOnlyRevoked` joins it, in both states of a step, with what the registry lets a step
  do to the revoked entries and with `DeliveredStand` (nothing changes a delivered request).
- Those that say how far the violations reach. `ManagedUnlessClaimed`: a request that names no
  reserved claim and no `exp` of 0 gets what the documentation says (violation 1).
  `GeneratedNeverVerifyDeleted`: a credential signed by a generated pair never verifies after the
  deletion of its key; only an imported pair can come back (violation 2).
- One about a single process: `OneProcessIssuesWhileLive`. Several processes may deliver a
  credential for a key that another has just deleted (`Spec` does not imply
  `IssuedWhileLive`); one process cannot, because between the lookup of the key and the
  signature it runs no form (`KeysInUse`).
- The composition: `ImplementsSigningKeys`, `ImplementsStatusRegistry` and
  `ImplementsKeyRegistry` say that requests, API keys and cache only ever drive the components
  by the components' own steps, so that what holds of a component holds in the composite.

*AdminAuthProofs.* For any number of servers, `CallsHaveRead` (what was compared is what was
presented) and `StartsHavePasswords` with `ChangeIsKept` are inductive: `InductiveInvariant`,
`TypeCorrect`, `ChangesAreKept`. `RefinesAccount`: a `SELECT` maps to the decision of the
abstract account, `SaveAdmin` to its creation, `SaveNewPassword` to a change, everything
else, comparisons, kills and restarts included, to a stutter; a call that was cut off keeps
the answer its `SELECT` decided. `RunsWithAccount` goes through the ways a start ends: having
counted the row, having saved it, or with the empty file. `AloneInvariant` and
`FileOpensAccount` assume one server and need `StartsAlone`: while it starts there is no
account and no call, and before the save the file holds the password in hand. With two servers
it does not hold: one may overwrite the file of the other.

*StartupProofs.* `StartHasRead` (what was read is what the configuration still says) and
`FaultsAreReal` (what ended the start is wrong) are inductive; `ResolveProvides` ties `resolve`
to the documented precedence. `InductiveInvariant`, `TypeCorrect`, `UsedOnlyIfConfigured`,
`RefusalsAreJust`.

*What joins two modules.* `ListsFitTheLoop` of `StatusListProofs` says that the rows of a live
key are, at every moment, rows from which `StatusListToken` may start; `TokenIsExact` is
therefore about every list the service builds, not about rows chosen for it.

Every invariant and action property, and each of the three refinements, that a passing run
checks is also stated by a theorem. Model-checked only are the five liveness properties
(`EveryCallEnds` of `StatusList` and of `AdminAuth`, `EveryRequestEnds`, `EveryStartEnds` of
`AdminAuth` and of `Startup`): fairness needs `ENABLED`, which is beyond the prover. The
loop over the rows is a step per row in `StatusListToken`, so its theorems need no induction
over data.

## 5. Not modelled

- Contents, signature and expiry of the session cookie, rate limiting and HTTP wiring:
  library configuration (the `ThrottlerModule` of `app.module.ts` is registered without a
  guard that would apply it). `AdminAuth` has the cookie as present or absent.
  `JwtAdminGuard.handleRequest` (`jwt-admin.guard.ts:27-34`), which answers a page without a
  session with a redirect and no user instead of an error, is not modelled.
- Views, `getPublicKey` and the pages that only read: no state.
- The value of an `iat` the service sets, selective disclosure, key binding and presentations: no
  state, the library's. What disclosure does to the dates of a credential is said in section 3.
- bcrypt, AES-GCM, HKDF, the signature algorithms and the parsing of PEM and certificates:
  primitives outside the repository, of which the modules use that a hash or a sealed key
  opens with its own secret only and which pairs can sign.
- `ISSUER_BASE_URL` and the defaults of logging: not used by the start; the base of the
  status URI is taken to lead back to this server.
- The one connection several overlapping transactions of a process share in TypeORM.

## 6. Plan

Done: `StatusRegistry`, `StatusList`, `StatusListToken`, `KeyRegistry`, `SigningKeys`,
`IssuerApi`, `AdminAccount`, `AdminAuth`, `Startup`, each with its runs and theorems. What
could follow:

1. the composition of `Startup` and `AdminAuth` in one module, now joined by the step
   `Bootstrap` only;
2. a refinement of the allocation inside `IssuerApi` by `StatusList` instead of by the
   registry it implements;
3. an abstract issuer, in which a request is answered by one step, implemented by `IssuerApi`
   under `OneProcessSpec`: `OneProcessIssuesWhileLive` is its central fact.
