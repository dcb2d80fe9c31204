------------------------------ MODULE IssuerApi ------------------------------
(***************************************************************************)
(* POST /api/:name/issue and its neighbours (src/src/issuer-api), with the *)
(* API keys that admit a request (src/src/auth/api-key*.ts) and everything *)
(* an administrator may do meanwhile.                                      *)
(*                                                                         *)
(* The module composes SigningKeys and StatusRegistry: a signing key's row *)
(* is shared by both, and the allocation of an index is the atomic step    *)
(* that StatusList implements.  The handler of a request is split where    *)
(* others may come between: the SELECT of the API key, the bcrypt.compare  *)
(* after it, the lookup of the signing key, the allocation (committed) and *)
(* the signature.  Within one process only the compare really suspends;    *)
(* the other points matter when several processes share the database.      *)
(*                                                                         *)
(* The request r is also the jti the service gives its credential.  Of     *)
(* dto.claims only the names matter that the service sets itself or that   *)
(* the verification reads: they are spread last and replace what the       *)
(* service has set.                                                        *)
(*                                                                         *)
(* RevokeCredential is a call of the revocations of StatusListService.     *)
(* Nothing in the repository calls them yet; the model lets them come at   *)
(* any time, which is what they are there for.                             *)
(***************************************************************************)
EXTENDS Integers

CONSTANTS Keys, Identifiers, Pems, Secrets, NoValue,
  SigningPairs,    \* the key pairs crypto.sign accepts (an X25519 PEM is not)
  ApiKeys,         \* ids of API keys, each with its plain value
  Requests,
  StatusListSize,
  ClaimNames,      \* the names a caller may use in dto.claims
  CallersValue,    \* what a claim named iss, jti or status then holds
  CallersDate,     \* what a claim named exp, iat or nbf then holds
  Expiries,        \* the numbers a caller may send as dto.exp
  Times            \* the moments at which a verification may come

ASSUME PairsAssumption == Keys \cap Pems = {}
ASSUME NoValueAssumption == NoValue \notin Keys \cup Pems \cup Identifiers \cup Secrets
ASSUME DatesAssumption ==
  Expiries \subseteq Nat /\ Times \subseteq Nat /\ CallersDate \in Nat \ {0}
ASSUME NoDateAssumption == NoValue \notin Nat

VARIABLES
  keyRow, form, identifier, pair, sealedWith, secret,  \* SigningKeys
  entries, revoked,   \* the rows of credential_statuses, and those revoked
  apiKey,             \* the row of api_keys, or where its form is
  signingKeyId,       \* its signingKeyId column
  instances,          \* sdjwtInstances: the pair the instance of a key holds
  pc,                 \* where each request is
  name,               \* its :name
  presented,          \* the API key it presents
  claims,             \* the names of ClaimNames in its dto.claims
  exp,                \* its dto.exp
  signingKey,         \* the entity findByIdentifier returned
  index,              \* the index it was given
  credential          \* what it was answered with

SK == INSTANCE SigningKeys
Registry == INSTANCE StatusRegistry WITH Credentials <- Requests

keyVars     == <<keyRow, form, identifier, pair, sealedWith, secret>>
statusVars  == <<entries, revoked>>
apiKeyVars  == <<apiKey, signingKeyId>>
request     == <<name, presented, claims, exp>>
requestVars == <<pc, request, signingKey, index, credential>>
vars == <<keyVars, statusVars, apiKeyVars, instances, requestVars>>

Answered == {"delivered", "unauthorized", "badRequest", "notFound", "error", "unsigned"}
Open == {"compare", "find", "allocate", "sign"}

Credential == [signedBy : SK!KeyPairs,
               iss      : SK!KeyPairs \cup {CallersValue},  \* did:jwk of a public key
               jti      : Requests \cup {CallersValue},
               exp      : Expiries \cup {NoValue, CallersDate},
               iat      : {NoValue, CallersDate},           \* NoValue: not ahead of any verifier
               nbf      : {NoValue, CallersDate},
               uri      : Identifiers \cup {CallersValue},  \* status.status_list
               idx      : 0..(StatusListSize - 1) \cup {CallersValue}]

TypeOK ==
  /\ SK!TypeOK
  /\ entries \subseteq Registry!Entry
  /\ revoked \subseteq entries
  /\ apiKey \in [ApiKeys -> {"unborn", "hashing", "active", "revoked", "deleted", "failed"}]
  /\ signingKeyId \in [ApiKeys -> Keys \cup {NoValue}]
  /\ instances \in [Keys -> SK!KeyPairs \cup {NoValue}]
  /\ pc \in [Requests -> {"idle", "lost"} \cup Open \cup Answered]
  /\ name \in [Requests -> Identifiers \cup {NoValue}]
  /\ presented \in [Requests -> ApiKeys \cup {NoValue}]
  /\ claims \in [Requests -> SUBSET ClaimNames]
  /\ exp \in [Requests -> Expiries \cup {NoValue}]
  /\ signingKey \in [Requests -> Keys \cup {NoValue}]
  /\ index \in [Requests -> Int]
  /\ credential \in [Requests -> {NoValue} \cup Credential]

Init ==
  /\ SK!Init
  /\ Registry!Init
  /\ apiKey = [a \in ApiKeys |-> "unborn"]
  /\ signingKeyId = [a \in ApiKeys |-> NoValue]
  /\ instances = [k \in Keys |-> NoValue]
  /\ pc = [r \in Requests |-> "idle"]
  /\ name = [r \in Requests |-> NoValue]
  /\ presented = [r \in Requests |-> NoValue]
  /\ claims = [r \in Requests |-> {}]
  /\ exp = [r \in Requests |-> NoValue]
  /\ signingKey = [r \in Requests |-> NoValue]
  /\ index = [r \in Requests |-> 0]
  /\ credential = [r \in Requests |-> NoValue]

-------------------------------------------------------------------------------
(* The administrator: signing keys. *)

(* The row's columns come to the status registry with its creation.        *)
SaveKey(k) ==
  /\ SK!SaveKey(k)
  /\ Registry!Create(k)
  /\ UNCHANGED <<apiKeyVars, instances, requestVars>>

KeyForms ==
  /\ \E k \in Keys :
       \/ \E s \in Identifiers :
            SK!CreateKey(k, s) \/ SK!ImportKey(k, s) \/ SK!RefuseIdentifier(k, s)
       \/ SK!SaveConflicts(k)
       \/ SK!SubmitFails(k)
  /\ UNCHANGED <<statusVars, apiKeyVars, instances, requestVars>>

(* Both relations cascade.  The instance of the key stays in the cache.    *)
DeleteKey(k) ==
  /\ SK!DeleteKey(k)
  /\ Registry!Delete(k)
  /\ apiKey' = [a \in ApiKeys |-> IF signingKeyId[a] = k /\ apiKey[a] \in {"active", "revoked"}
                                  THEN "deleted" ELSE apiKey[a]]
  /\ UNCHANGED <<signingKeyId, instances, requestVars>>

-------------------------------------------------------------------------------
(* The administrator: API keys and revocations. *)

(* The page of the form named an existing key; bcrypt.hash takes a while.  *)
CreateApiKey(a, k) ==
  /\ apiKey[a] = "unborn"
  /\ keyRow[k] # "unborn"
  /\ apiKey' = [apiKey EXCEPT ![a] = "hashing"]
  /\ signingKeyId' = [signingKeyId EXCEPT ![a] = k]
  /\ UNCHANGED <<keyVars, statusVars, instances, requestVars>>

SaveApiKey(a) ==
  /\ apiKey[a] = "hashing"
  /\ keyRow[signingKeyId[a]] = "live"
  /\ apiKey' = [apiKey EXCEPT ![a] = "active"]
  /\ UNCHANGED <<keyVars, statusVars, signingKeyId, instances, requestVars>>

(* The foreign key constraint, when the signing key has gone meanwhile.    *)
SaveApiKeyFails(a) ==
  /\ apiKey[a] = "hashing"
  /\ keyRow[signingKeyId[a]] # "live"
  /\ apiKey' = [apiKey EXCEPT ![a] = "failed"]
  /\ UNCHANGED <<keyVars, statusVars, signingKeyId, instances, requestVars>>

RevokeApiKey(a) ==
  /\ apiKey[a] = "active"
  /\ apiKey' = [apiKey EXCEPT ![a] = "revoked"]
  /\ UNCHANGED <<keyVars, statusVars, signingKeyId, instances, requestVars>>

RevokeCredential ==
  /\ \E e \in entries : Registry!Revoke(e)
  /\ UNCHANGED <<keyVars, apiKeyVars, instances, requestVars>>

-------------------------------------------------------------------------------
(* ApiKeyGuard.canActivate *)

Goto(r, where) == pc' = [pc EXCEPT ![r] = where]

(* validateApiKey finds the row of the key among those not revoked.        *)
PostIssue(r, a, s) ==
  /\ pc[r] = "idle"
  /\ apiKey[a] = "active"
  /\ name' = [name EXCEPT ![r] = s]
  /\ presented' = [presented EXCEPT ![r] = a]
  /\ \E c \in SUBSET ClaimNames : claims' = [claims EXCEPT ![r] = c]
  /\ \E e \in Expiries \cup {NoValue} : exp' = [exp EXCEPT ![r] = e]
  /\ Goto(r, "compare")
  /\ UNCHANGED <<keyVars, statusVars, apiKeyVars, instances, signingKey, index, credential>>

(* No key, a key nobody has, a revoked or a deleted one.                   *)
RefuseApiKey(r) ==
  /\ pc[r] = "idle"
  /\ Goto(r, "unauthorized")
  /\ UNCHANGED <<keyVars, statusVars, apiKeyVars, instances, request, signingKey, index,
                 credential>>

(* Mutant: the key is not tied to the :name of the URL.                    *)
AnyName(r) == presented[r] \in ApiKeys

(* The candidate carries its signing key as it was at the SELECT: a row's  *)
(* identifier never changes, so that is the identifier of the row.         *)
NameMatches(r) == identifier[signingKeyId[presented[r]]] = name[r]

AdmitRequest(r) ==
  /\ pc[r] = "compare"
  /\ NameMatches(r)
  /\ Goto(r, "find")
  /\ UNCHANGED <<keyVars, statusVars, apiKeyVars, instances, request, signingKey, index,
                 credential>>

RefuseRequest(r) ==
  /\ pc[r] = "compare"
  /\ ~NameMatches(r)
  /\ Goto(r, "unauthorized")
  /\ UNCHANGED <<keyVars, statusVars, apiKeyVars, instances, request, signingKey, index,
                 credential>>

-------------------------------------------------------------------------------
(* IssuerApiController.issueCredential *)

(* The validation of the body comes after the guard.                       *)
RefuseBody(r) ==
  /\ pc[r] = "find"
  /\ Goto(r, "badRequest")
  /\ UNCHANGED <<keyVars, statusVars, apiKeyVars, instances, request, signingKey, index,
                 credential>>

FindKey(r) ==
  /\ pc[r] = "find"
  /\ \E k \in SK!KeysNamed(name[r]) : signingKey' = [signingKey EXCEPT ![r] = k]
  /\ Goto(r, "allocate")
  /\ UNCHANGED <<keyVars, statusVars, apiKeyVars, instances, request, index, credential>>

FindNothing(r) ==
  /\ pc[r] = "find"
  /\ SK!KeysNamed(name[r]) = {}
  /\ Goto(r, "notFound")
  /\ UNCHANGED <<keyVars, statusVars, apiKeyVars, instances, request, signingKey, index,
                 credential>>

(* Mutant: the index after the one that was allocated.                     *)
NextEntry(r, i) == [key |-> signingKey[r], index |-> i + 1, credential |-> r]

NewEntry(r, i) == [key |-> signingKey[r], index |-> i, credential |-> r]

Allocate(r) ==
  /\ pc[r] = "allocate"
  /\ \E i \in 0..(StatusListSize - 1) :
       /\ Registry!Allocate(NewEntry(r, i))
       /\ index' = [index EXCEPT ![r] = i]
  /\ Goto(r, "sign")
  /\ UNCHANGED <<keyVars, apiKeyVars, instances, request, signingKey, credential>>

(* Mutant: the row outlives the failure, there being no transaction.       *)
AllocateHalfway(r) ==
  /\ pc[r] = "allocate"
  /\ \E i \in 0..(StatusListSize - 1) : Registry!Allocate(NewEntry(r, i))
  /\ Goto(r, "error")
  /\ UNCHANGED <<keyVars, apiKeyVars, instances, request, signingKey, index,
                 credential>>

(* Missing key, full list, conflict, or a database error: nothing is kept. *)
AllocateFails(r) ==
  /\ pc[r] = "allocate"
  /\ Goto(r, "error")
  /\ UNCHANGED <<keyVars, statusVars, apiKeyVars, instances, request, signingKey, index,
                 credential>>

-------------------------------------------------------------------------------
(* getSdjwtInstance: cached by UUID, or made of the decrypted private key. *)

HasInstance(k) == instances[k] # NoValue \/ sealedWith[k] = secret

(* Mutant: the cache is indexed by identifier, which is used again.        *)
InstanceBySlug(k) ==
  LET same == {j \in Keys : identifier[j] = identifier[k] /\ instances[j] # NoValue} IN
  IF same # {} THEN instances[CHOOSE j \in same : TRUE] ELSE pair[k]

Instance(k) == IF instances[k] # NoValue THEN instances[k] ELSE pair[k]

CacheInstance(k) == instances' = [instances EXCEPT ![k] = Instance(k)]

(* ...dto.claims comes after the claims of the service.                    *)
Claimed(r, claim, value) == IF claim \in claims[r] THEN CallersValue ELSE value
DateClaimed(r, claim, value) == IF claim \in claims[r] THEN CallersDate ELSE value

(* dto.exp ? { exp: dto.exp } : {}, and 0 is false.                        *)
Expiry(r) == IF exp[r] = 0 THEN NoValue ELSE exp[r]

(* What the credential says of its issuer comes from the entity, what      *)
(* signs it from the instance.                                             *)
NewCredential(r) == [signedBy |-> Instance(signingKey[r]),
                     iss      |-> Claimed(r, "iss", pair[signingKey[r]]),
                     exp      |-> DateClaimed(r, "exp", Expiry(r)),
                     iat      |-> DateClaimed(r, "iat", NoValue),
                     nbf      |-> DateClaimed(r, "nbf", NoValue),
                     jti      |-> Claimed(r, "jti", r),
                     uri      |-> Claimed(r, "status", identifier[signingKey[r]]),
                     idx      |-> Claimed(r, "status", index[r])]

Sign(r) ==
  /\ pc[r] = "sign"
  /\ HasInstance(signingKey[r])
  /\ Instance(signingKey[r]) \in SigningPairs
  /\ CacheInstance(signingKey[r])
  /\ credential' = [credential EXCEPT ![r] = NewCredential(r)]
  /\ Goto(r, "delivered")
  /\ UNCHANGED <<keyVars, statusVars, apiKeyVars, request, signingKey, index>>

(* The private key does not decrypt: sealed with another STORAGE_SECRET.   *)
DecryptFails(r) ==
  /\ pc[r] = "sign"
  /\ ~HasInstance(signingKey[r])
  /\ Goto(r, "unsigned")
  /\ UNCHANGED <<keyVars, statusVars, apiKeyVars, instances, request, signingKey, index,
                 credential>>

(* Mutant: the rejection of crypto.sign is not awaited, nobody answers.    *)
SignNeverAnswers(r) ==
  /\ pc[r] = "sign"
  /\ HasInstance(signingKey[r])
  /\ Instance(signingKey[r]) \notin SigningPairs
  /\ CacheInstance(signingKey[r])
  /\ UNCHANGED <<keyVars, statusVars, apiKeyVars, requestVars>>

(* crypto.sign throws: algParams takes every OKP key for one that signs.   *)
SignFails(r) ==
  /\ pc[r] = "sign"
  /\ HasInstance(signingKey[r])
  /\ Instance(signingKey[r]) \notin SigningPairs
  /\ CacheInstance(signingKey[r])
  /\ Goto(r, "unsigned")
  /\ UNCHANGED <<keyVars, statusVars, apiKeyVars, request, signingKey, index, credential>>

-------------------------------------------------------------------------------
(* GET and POST /api/:name/verify *)

(* The signature of the credential c is checked with the instance of the   *)
(* key that has the name s.                                                *)
SignatureAccepted(s, c) ==
  \E k \in SK!KeysNamed(s) : HasInstance(k) /\ Instance(k) = c.signedBy

(* sdjwt.verify refuses a JWT that has expired or is not valid yet at t.   *)
InDate(c, t) ==
  /\ c.exp # NoValue => t <= c.exp
  /\ c.iat # NoValue => c.iat <= t
  /\ c.nbf # NoValue => c.nbf <= t

(* Whether the answer for c under s at the time t is valid: true.          *)
Verifies(s, c, t) == SignatureAccepted(s, c) /\ InDate(c, t)

(* Of the state the request changes the cache only.                        *)
VerifyCredential(s) ==
  /\ \E k \in SK!KeysNamed(s) : HasInstance(k) /\ CacheInstance(k)
  /\ UNCHANGED <<keyVars, statusVars, apiKeyVars, requestVars>>

-------------------------------------------------------------------------------
(* The process stops, and its forms, requests and cache with it.           *)
Restart(s) ==
  /\ SK!Restart(s)
  /\ apiKey' = [a \in ApiKeys |-> IF apiKey[a] = "hashing" THEN "failed" ELSE apiKey[a]]
  /\ instances' = [k \in Keys |-> NoValue]
  /\ pc' = [r \in Requests |-> IF pc[r] \in Open THEN "lost" ELSE pc[r]]
  /\ UNCHANGED <<statusVars, signingKeyId, request, signingKey, index, credential>>

Handle(r) ==
  \/ AdmitRequest(r) \/ RefuseRequest(r)
  \/ RefuseBody(r) \/ FindKey(r) \/ FindNothing(r)
  \/ Allocate(r) \/ AllocateFails(r)
  \/ Sign(r) \/ DecryptFails(r) \/ SignFails(r)

Arrive(r) == RefuseApiKey(r) \/ \E a \in ApiKeys, s \in Identifiers : PostIssue(r, a, s)

Administer ==
  \/ KeyForms
  \/ \E k \in Keys : SaveKey(k) \/ DeleteKey(k)
  \/ \E a \in ApiKeys : \/ \E k \in Keys : CreateApiKey(a, k)
                        \/ SaveApiKey(a) \/ SaveApiKeyFails(a) \/ RevokeApiKey(a)

Next ==
  \/ Administer
  \/ RevokeCredential
  \/ \E r \in Requests : Arrive(r) \/ Handle(r)
  \/ \E s \in Identifiers : VerifyCredential(s)
  \/ \E s \in Secrets : Restart(s)

Spec == Init /\ [][Next]_vars

(* In one process nothing comes between the steps of a handler that only   *)
(* awaits the database: from the compare to the answer of a request, from  *)
(* the check to the save of an import.  Only the process itself may stop.  *)
Uninterrupted ==
  \/ \E r \in Requests : pc[r] \in {"find", "allocate", "sign"}
  \/ \E k \in Keys : form[k] = "pending" /\ pair[k] \in Pems

Resume ==
  \/ \E r \in Requests : pc[r] # "compare" /\ Handle(r)
  \/ \E k \in Keys : pair[k] \in Pems /\ (SaveKey(k) \/ SK!SubmitFails(k))
  \/ \E s \in Secrets : Restart(s)

OneProcessSpec == Init /\ [][Next /\ (Uninterrupted => Resume)]_vars

(* The event loop goes on with every handler it has started.               *)
FairSpec == Spec /\ \A r \in Requests : WF_vars(Handle(r))

-------------------------------------------------------------------------------
(* Properties *)

Delivered == {r \in Requests : pc[r] = "delivered"}

(* issueCredential takes iss from the row and the signature from the       *)
(* cache: a credential is signed by the key it names as its issuer, also   *)
(* when identifiers are used again after a deletion.                       *)
SignatureMatchesIssuer ==
  \A r \in Delivered :
    "iss" \notin claims[r] => credential[r].signedBy = credential[r].iss

(* What the list that a status URI leads to says of an index.              *)
EntriesAt(s, i) == {e \in entries : e.key \in SK!KeysNamed(s) /\ e.index = i}

(* A delivered credential can be revoked as long as its key lives, and is  *)
(* revoked by nothing else: its status URI leads to the list of the key    *)
(* that signed it, and there its own entry, and no other, has the index it *)
(* carries, unless the caller's claims hold a status of their own.         *)
DeliveredIsTracked ==
  \A r \in Delivered :
    keyRow[signingKey[r]] = "live" /\ "status" \notin claims[r] =>
      EntriesAt(credential[r].uri, credential[r].idx) =
        {[key |-> signingKey[r], index |-> credential[r].idx, credential |-> r]}

(* What GET credential/status says of a credential to whoever follows its  *)
(* own URI and index.                                                      *)
Revoked(r) == EntriesAt(credential[r].uri, credential[r].idx) \subseteq revoked

(* A credential found revoked is found revoked ever after, as long as its  *)
(* key lives, and the step that makes it so is a revocation: no other      *)
(* request, no key that comes or goes and no restart changes its status.   *)
StatusLasts ==
  [][\A r \in Delivered :
       "status" \notin claims[r] /\ keyRow'[signingKey[r]] = "live" =>
         /\ Revoked(r) => Revoked(r)'
         /\ ~Revoked(r) /\ Revoked(r)' => RevokeCredential]_vars

(* The credential that the request r asked for is valid at t: neither its  *)
(* expiry nor a date among its claims forbids it.  An exp of 0 is none.    *)
ValidAt(r, t) ==
  LET expiry == IF "exp" \in claims[r] THEN CallersDate ELSE exp[r] IN
  /\ expiry \notin {NoValue, 0} => t <= expiry
  /\ {"iat", "nbf"} \cap claims[r] # {} => CallersDate <= t

(* GET /verify accepts what was issued under the name at every moment at   *)
(* which it was asked to be valid, as long as the key lives and its secret *)
(* is in force: neither a name used again nor a cached instance, a restart *)
(* or another claim of the caller makes it fail.                           *)
OwnCredentialsVerify ==
  \A r \in Delivered, t \in Times :
    /\ keyRow[signingKey[r]] = "live"
    /\ sealedWith[signingKey[r]] = secret
    /\ ValidAt(r, t)
    => Verifies(identifier[signingKey[r]], credential[r], t)

(* Identifiers are used again and instances outlive their rows: still,     *)
(* what a generated pair has signed passes only under the name its own key *)
(* has, and under none when that key is deleted, at any time.              *)
VerifiesUnderOwnKeyOnly ==
  \A r \in Delivered, s \in Identifiers :
    credential[r].signedBy \in Keys /\ SignatureAccepted(s, credential[r]) =>
      SK!KeysNamed(s) = {signingKey[r]}

(* ApiKeyGuard checks the name, the handler looks the name up again: a     *)
(* credential is issued by the key its API key was made for, unless that   *)
(* key was deleted while the request was under way.                        *)
IssuedByOwnKey ==
  \A r \in Requests :
    pc[r] \in {"allocate", "sign", "delivered", "unsigned"} =>
      \/ signingKey[r] = signingKeyId[presented[r]]
      \/ keyRow[signingKeyId[presented[r]]] = "deleted"

(* An index is spent on a credential that is delivered or about to be, or  *)
(* on a request that failed or was cut off between COMMIT and signature:   *)
(* no other failure costs an entry of the list.                            *)
EntriesAccounted ==
  \A e \in entries :
    /\ pc[e.credential] \in {"sign", "delivered", "unsigned", "lost"}
    /\ signingKey[e.credential] = e.key
    /\ index[e.credential] = e.index

(* Every request that got past the SELECT of its API key is answered or    *)
(* cut off by a restart, whatever fails on its way.                        *)
EveryRequestEnds == \A r \in Requests : pc[r] \in Open ~> pc[r] \notin Open

Managed(r) ==
  /\ credential[r].iss = pair[signingKey[r]]
  /\ credential[r].jti = r
  /\ credential[r].exp = exp[r]
  /\ credential[r].iat = NoValue
  /\ credential[r].uri = identifier[signingKey[r]]
  /\ credential[r].idx = index[r]

(* issue-credential.dto.ts:49: the reserved claims are managed by the      *)
(* service, whatever the caller's claims are.                              *)
ReservedClaimsManaged == \A r \in Delivered : Managed(r)

(* views/admin/keys/detail.hbs:158-159: the deletion of a key cannot be    *)
(* undone and the credentials issued with it can no longer be verified.    *)
DeletedNeverVerifies ==
  \A r \in Delivered :
    keyRow[signingKey[r]] = "deleted" =>
      \A s \in Identifiers, t \in Times : ~Verifies(s, credential[r], t)

-------------------------------------------------------------------------------
(* The invariant behind them *)

(* A cached instance holds the pair of a row that is or was there.         *)
InstancesOfRows ==
  \A k \in Keys : instances[k] # NoValue => keyRow[k] # "unborn" /\ instances[k] = pair[k]

ApiKeysOfRows ==
  \A a \in ApiKeys :
    apiKey[a] # "unborn" => signingKeyId[a] \in Keys /\ keyRow[signingKeyId[a]] # "unborn"

Admitted(r) == pc[r] \in {"find", "allocate", "sign", "delivered", "unsigned"}
Found(r)    == pc[r] \in {"allocate", "sign", "delivered", "unsigned"}
Indexed(r)  == pc[r] \in {"sign", "delivered"}

(* What each stage of a request has established, and nothing takes back.   *)
RequestsPresentKeys ==
  \A r \in Requests :
    pc[r] = "compare" \/ Admitted(r) =>
      /\ name[r] \in Identifiers /\ presented[r] \in ApiKeys
      /\ apiKey[presented[r]] # "unborn"

RequestsAdmitted == \A r \in Requests : Admitted(r) => NameMatches(r)

RequestsHaveKeys ==
  \A r \in Requests :
    Found(r) => /\ signingKey[r] \in Keys
                /\ keyRow[signingKey[r]] # "unborn"
                /\ identifier[signingKey[r]] = name[r]

RequestsHaveEntries ==
  \A r \in Requests :
    Indexed(r) =>
      /\ index[r] \in 0..(StatusListSize - 1)
      /\ keyRow[signingKey[r]] = "live" => NewEntry(r, index[r]) \in entries

(* An index of a key is given out once.                                    *)
EntriesDistinct ==
  \A e, f \in entries : e.key = f.key /\ e.index = f.index => e = f

(* A credential stays what its key and its request make of it.             *)
CredentialsAsIssued ==
  \A r \in Delivered :
    /\ credential[r] \in Credential
    /\ credential[r].signedBy = pair[signingKey[r]]
    /\ credential[r].iss = Claimed(r, "iss", pair[signingKey[r]])
    /\ credential[r].jti = Claimed(r, "jti", r)
    /\ credential[r].exp = DateClaimed(r, "exp", Expiry(r))
    /\ credential[r].iat = DateClaimed(r, "iat", NoValue)
    /\ credential[r].nbf = DateClaimed(r, "nbf", NoValue)
    /\ credential[r].uri = Claimed(r, "status", identifier[signingKey[r]])
    /\ credential[r].idx = Claimed(r, "status", index[r])

Inductive ==
  /\ TypeOK /\ SK!Inductive
  /\ InstancesOfRows /\ ApiKeysOfRows
  /\ RequestsPresentKeys /\ RequestsAdmitted /\ RequestsHaveKeys /\ IssuedByOwnKey
  /\ RequestsHaveEntries /\ EntriesAccounted /\ EntriesDistinct /\ CredentialsAsIssued
===============================================================================
