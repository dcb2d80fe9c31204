--------------------------- MODULE IssuerApiProofs ---------------------------
(***************************************************************************)
(* Theorems about IssuerApi, for every set of keys, identifiers, API keys, *)
(* requests and claims.  The part of the invariant that speaks of signing  *)
(* keys alone is that of SigningKeysProofs: a step of the composite is a   *)
(* step of SigningKeys or leaves its variables as they are.                *)
(***************************************************************************)
EXTENDS IssuerApi, TLAPS

KeyProofs == INSTANCE SigningKeysProofs

-------------------------------------------------------------------------------
(* The signing keys *)

(* SK and KeyProofs are two instances of the same module.                  *)
LEMMA SameInvariant ==
  /\ SK!Inductive <=> KeyProofs!Inductive
  /\ SK!Inductive' <=> KeyProofs!Inductive'
BY DEF SK!Inductive, SK!TypeOK, SK!IdentifierUnique, SK!FormsAreHonest, SK!RowsComplete,
       SK!SealedInForce,
       SK!KeyPairs, KeyProofs!Inductive, KeyProofs!TypeOK, KeyProofs!IdentifierUnique,
       KeyProofs!FormsAreHonest, KeyProofs!RowsComplete, KeyProofs!SealedInForce,
       KeyProofs!KeyPairs

LEMMA SameNext == SK!Next <=> KeyProofs!Next
BY DEF SK!Next, SK!CreateKey, SK!ImportKey, SK!Submit, SK!RefuseIdentifier, SK!SaveKey,
       SK!SaveConflicts, SK!SubmitFails, SK!DeleteKey, SK!Restart, SK!KeysNamed,
       KeyProofs!Next, KeyProofs!CreateKey, KeyProofs!ImportKey, KeyProofs!Submit,
       KeyProofs!RefuseIdentifier, KeyProofs!SaveKey, KeyProofs!SaveConflicts,
       KeyProofs!SubmitFails, KeyProofs!DeleteKey, KeyProofs!Restart, KeyProofs!KeysNamed

LEMMA KeysStep ==
  ASSUME SK!Inductive, SK!Next \/ UNCHANGED keyVars
  PROVE  SK!Inductive'
BY SameInvariant, SameNext, KeyProofs!StepInductive, PairsAssumption, NoValueAssumption
   DEF keyVars, KeyProofs!vars

LEMMA KeysInit == SK!Init => SK!Inductive
BY SameInvariant, KeyProofs!InitInductive, PairsAssumption, NoValueAssumption
   DEF SK!Init, KeyProofs!Init

(* What a saved row is, it stays, and a deletion is for good.              *)
RowsStand ==
  \A k \in Keys : keyRow[k] # "unborn" =>
    /\ keyRow'[k] # "unborn"
    /\ identifier'[k] = identifier[k] /\ pair'[k] = pair[k]
    /\ keyRow[k] = "deleted" => keyRow'[k] = "deleted"

LEMMA KeysStand ==
  ASSUME SK!Inductive, SK!Next \/ UNCHANGED keyVars
  PROVE  RowsStand
<1> USE DEF SK!Inductive, SK!TypeOK, SK!FormsAreHonest, RowsStand
<1>1. CASE UNCHANGED keyVars
  BY <1>1 DEF keyVars
<1>2. ASSUME NEW k \in Keys, NEW s \in Identifiers, SK!CreateKey(k, s) \/ SK!ImportKey(k, s)
      PROVE  RowsStand
  <2>1. PICK p : SK!Submit(k, s, p)
    BY <1>2 DEF SK!CreateKey, SK!ImportKey
  <2> QED
    BY <2>1 DEF SK!Submit
<1>3. ASSUME NEW k \in Keys, NEW s \in Identifiers, SK!RefuseIdentifier(k, s) PROVE RowsStand
  BY <1>3 DEF SK!RefuseIdentifier
<1>4. ASSUME NEW k \in Keys, SK!SaveKey(k) PROVE RowsStand
  BY <1>4 DEF SK!SaveKey
<1>5. ASSUME NEW k \in Keys, SK!SaveConflicts(k) \/ SK!SubmitFails(k) PROVE RowsStand
  BY <1>5 DEF SK!SaveConflicts, SK!SubmitFails
<1>6. ASSUME NEW k \in Keys, SK!DeleteKey(k) PROVE RowsStand
  BY <1>6 DEF SK!DeleteKey
<1>7. ASSUME NEW s \in Secrets, SK!Restart(s) PROVE RowsStand
  BY <1>7 DEF SK!Restart
<1> QED
  BY <1>1, <1>2, <1>3, <1>4, <1>5, <1>6, <1>7 DEF SK!Next

(* A row that exists has its identifier, its pair and its secret.          *)
LEMMA RowsHaveColumns ==
  ASSUME SK!Inductive, NEW k \in Keys, keyRow[k] # "unborn"
  PROVE  identifier[k] \in Identifiers /\ pair[k] \in SK!KeyPairs
BY DEF SK!Inductive, SK!FormsAreHonest, SK!RowsComplete, SK!KeyPairs

(* The step of the composite as the signing keys see it.                   *)
LEMMA StepOfKeys ==
  ASSUME [Next]_vars
  PROVE  SK!Next \/ UNCHANGED keyVars
<1> USE DEF keyVars
<1>1. CASE Administer
  BY <1>1 DEF Administer, KeyForms, SaveKey, DeleteKey, CreateApiKey, SaveApiKey,
              SaveApiKeyFails, RevokeApiKey, SK!Next
<1>7. CASE RevokeCredential
  BY <1>7 DEF RevokeCredential
<1>2. ASSUME NEW r \in Requests, Arrive(r) PROVE UNCHANGED keyVars
  BY <1>2 DEF Arrive, RefuseApiKey, PostIssue
<1>3. ASSUME NEW r \in Requests, Handle(r) PROVE UNCHANGED keyVars
  BY <1>3 DEF Handle, AdmitRequest, RefuseRequest, RefuseBody, FindKey, FindNothing, Allocate,
              AllocateFails, Sign, DecryptFails, SignFails
<1>4. ASSUME NEW s \in Identifiers, VerifyCredential(s) PROVE UNCHANGED keyVars
  BY <1>4 DEF VerifyCredential
<1>5. ASSUME NEW s \in Secrets, Restart(s) PROVE SK!Next
  BY <1>5 DEF Restart, SK!Next
<1>6. CASE UNCHANGED vars
  BY <1>6 DEF vars
<1> QED
  BY <1>1, <1>2, <1>3, <1>4, <1>5, <1>6, <1>7 DEF Next

-------------------------------------------------------------------------------
(* The status registry *)

LEMMA AdministerRegistry ==
  ASSUME Inductive, Administer
  PROVE  [Registry!Next]_Registry!vars
<1> USE DEF Registry!vars
<1>1. CASE KeyForms
  BY <1>1 DEF KeyForms, statusVars, SK!CreateKey, SK!ImportKey, SK!Submit, SK!RefuseIdentifier,
              SK!SaveConflicts, SK!SubmitFails
<1>2. ASSUME NEW k \in Keys, SaveKey(k) \/ DeleteKey(k) PROVE Registry!Next
  BY <1>2 DEF SaveKey, DeleteKey, Registry!Next
<1>3. ASSUME NEW a \in ApiKeys,
             \/ \E k \in Keys : CreateApiKey(a, k)
             \/ SaveApiKey(a) \/ SaveApiKeyFails(a) \/ RevokeApiKey(a)
      PROVE  UNCHANGED Registry!vars
  BY <1>3 DEF CreateApiKey, SaveApiKey, SaveApiKeyFails, RevokeApiKey, keyVars, statusVars
<1> QED
  BY <1>1, <1>2, <1>3 DEF Administer

LEMMA HandleRegistry ==
  ASSUME Inductive, NEW r \in Requests, Arrive(r) \/ Handle(r)
  PROVE  [Registry!Next]_Registry!vars
<1>1. CASE Allocate(r)
  <2>1. PICK i \in 0..(StatusListSize - 1) : Registry!Allocate(NewEntry(r, i))
    BY <1>1 DEF Allocate
  <2>2. signingKey[r] \in Keys
    BY <1>1 DEF Allocate, Inductive, RequestsHaveKeys, Found
  <2>3. NewEntry(r, i) \in Registry!Entry
    BY <2>2 DEF NewEntry, Registry!Entry
  <2> QED
    BY <2>1, <2>3 DEF Registry!Next
<1>2. CASE Arrive(r)
  BY <1>2 DEF Arrive, RefuseApiKey, PostIssue, keyVars, statusVars, Registry!vars
<1>3. CASE Handle(r) /\ ~Allocate(r)
  BY <1>3 DEF Handle, AdmitRequest, RefuseRequest, RefuseBody, FindKey, FindNothing, AllocateFails,
              Sign, DecryptFails, SignFails, keyVars, statusVars, Registry!vars
<1> QED
  BY <1>1, <1>2, <1>3

(* The step of the composite as the status registry sees it.               *)
LEMMA StepOfRegistry ==
  ASSUME Inductive, [Next]_vars
  PROVE  [Registry!Next]_Registry!vars
<1>1. ASSUME NEW s \in Identifiers, VerifyCredential(s) PROVE UNCHANGED Registry!vars
  BY <1>1 DEF VerifyCredential, keyVars, statusVars, Registry!vars
<1>2. ASSUME NEW s \in Secrets, Restart(s) PROVE UNCHANGED Registry!vars
  BY <1>2 DEF Restart, SK!Restart, statusVars, Registry!vars
<1>3. CASE UNCHANGED vars
  BY <1>3 DEF vars, keyVars, statusVars, Registry!vars
<1>4. CASE RevokeCredential
  BY <1>4 DEF RevokeCredential, Inductive, TypeOK, Registry!Next
<1> QED
  BY <1>1, <1>2, <1>3, <1>4, AdministerRegistry, HandleRegistry DEF Next

(* An index is given out only if no entry of the key has it.               *)
LEMMA RegistryKeepsDistinct ==
  ASSUME EntriesDistinct, [Registry!Next]_Registry!vars
  PROVE  EntriesDistinct'
BY DEF EntriesDistinct, Registry!vars, Registry!Next, Registry!Create, Registry!Allocate,
       Registry!Revoke, Registry!Delete

-------------------------------------------------------------------------------
(* Requests that stand still *)

ApiKeysStand ==
  \A a \in ApiKeys : apiKey[a] # "unborn" =>
    apiKey'[a] # "unborn" /\ signingKeyId'[a] = signingKeyId[a]

(* A request does not move, unless a restart cuts it off.                  *)
RequestsStand ==
  /\ UNCHANGED <<request, signingKey, index, credential>>
  /\ \A r \in Requests : \/ pc'[r] = pc[r]
                         \/ pc'[r] = "lost" /\ pc[r] # "delivered"

RequestFacts ==
  /\ RequestsPresentKeys /\ RequestsAdmitted /\ RequestsHaveKeys /\ IssuedByOwnKey
  /\ CredentialsAsIssued

(* What a stage of a request has established survives whatever others do.  *)
LEMMA OthersMove ==
  ASSUME Inductive, RowsStand, ApiKeysStand, RequestsStand
  PROVE  RequestFacts'
<1>1. ASSUME NEW r \in Requests, pc'[r] = "compare" \/ Admitted(r)'
      PROVE  /\ pc[r] = "compare" \/ Admitted(r)
             /\ name'[r] \in Identifiers /\ presented'[r] \in ApiKeys
             /\ apiKey'[presented'[r]] # "unborn"
             /\ signingKeyId'[presented'[r]] = signingKeyId[presented[r]]
             /\ signingKeyId[presented[r]] \in Keys
             /\ keyRow[signingKeyId[presented[r]]] # "unborn"
  <2>1. pc[r] = "compare" \/ Admitted(r)
    BY <1>1 DEF RequestsStand, Admitted
  <2>2. name[r] \in Identifiers /\ presented[r] \in ApiKeys /\ apiKey[presented[r]] # "unborn"
    BY <2>1 DEF Inductive, RequestsPresentKeys
  <2> QED
    BY <2>1, <2>2 DEF RequestsStand, ApiKeysStand, request, Inductive, ApiKeysOfRows
<1>2. RequestsPresentKeys'
  BY <1>1 DEF RequestsPresentKeys
<1>3. RequestsAdmitted'
  <2> SUFFICES ASSUME NEW r \in Requests, Admitted(r)' PROVE NameMatches(r)'
    BY DEF RequestsAdmitted
  <2>1. Admitted(r)
    BY DEF RequestsStand, Admitted
  <2>2. NameMatches(r)
    BY <2>1 DEF Inductive, RequestsAdmitted
  <2> QED
    BY <1>1, <2>2 DEF NameMatches, RowsStand, RequestsStand, request
<1>4. ASSUME NEW r \in Requests, Found(r)'
      PROVE  /\ Found(r) /\ signingKey'[r] = signingKey[r]
             /\ signingKey[r] \in Keys /\ keyRow[signingKey[r]] # "unborn"
  <2>1. Found(r)
    BY <1>4 DEF RequestsStand, Found
  <2> QED
    BY <2>1 DEF Inductive, RequestsHaveKeys, RequestsStand
<1>5. RequestsHaveKeys'
  BY <1>4 DEF Inductive, RequestsHaveKeys, RowsStand, RequestsStand, request
<1>6. IssuedByOwnKey'
  <2> SUFFICES ASSUME NEW r \in Requests, Found(r)'
               PROVE  \/ signingKey'[r] = signingKeyId'[presented'[r]]
                      \/ keyRow'[signingKeyId'[presented'[r]]] = "deleted"
    BY DEF IssuedByOwnKey, Found
  <2>1. Found(r) /\ Admitted(r)'
    BY <1>4 DEF Found, Admitted
  <2>2. signingKey[r] = signingKeyId[presented[r]] \/ keyRow[signingKeyId[presented[r]]] = "deleted"
    BY <2>1 DEF Inductive, IssuedByOwnKey, Found
  <2> QED
    BY <1>1, <1>4, <2>1, <2>2 DEF RowsStand
<1>7. CredentialsAsIssued'
  <2> SUFFICES ASSUME NEW r \in Requests, pc'[r] = "delivered"
               PROVE  /\ credential'[r] \in Credential
                      /\ credential'[r].signedBy = pair'[signingKey'[r]]
                      /\ credential'[r].iss = Claimed(r, "iss", pair[signingKey[r]])'
                      /\ credential'[r].jti = Claimed(r, "jti", r)'
                      /\ credential'[r].exp = DateClaimed(r, "exp", Expiry(r))'
                      /\ credential'[r].iat = DateClaimed(r, "iat", NoValue)'
                      /\ credential'[r].nbf = DateClaimed(r, "nbf", NoValue)'
                      /\ credential'[r].uri = Claimed(r, "status", identifier[signingKey[r]])'
                      /\ credential'[r].idx = Claimed(r, "status", index[r])'
    BY DEF CredentialsAsIssued, Delivered, Credential
  <2>1. pc[r] = "delivered"
    BY DEF RequestsStand
  <2>2. pair'[signingKey'[r]] = pair[signingKey[r]] /\ identifier'[signingKey'[r]] = identifier[signingKey[r]]
    BY <1>4 DEF Found, RowsStand
  <2> QED
    BY <2>1, <2>2 DEF Inductive, CredentialsAsIssued, Delivered, RequestsStand, request, Claimed,
                       DateClaimed, Expiry
<1> QED
  BY <1>2, <1>3, <1>5, <1>6, <1>7 DEF RequestFacts

(* Entries go with their key, and with nothing else.                       *)
EntriesStand ==
  /\ entries' \subseteq entries
  /\ \A e \in entries : keyRow'[e.key] = "live" => e \in entries'

LEMMA EntriesStay ==
  ASSUME Inductive, RowsStand, RequestsStand, EntriesStand
  PROVE  RequestsHaveEntries' /\ EntriesAccounted'
<1>1. RequestsHaveEntries'
  <2> SUFFICES ASSUME NEW r \in Requests, Indexed(r)'
               PROVE  /\ index'[r] \in 0..(StatusListSize - 1)
                      /\ keyRow'[signingKey'[r]] = "live" => NewEntry(r, index[r])' \in entries'
    BY DEF RequestsHaveEntries, NewEntry
  <2>1. Indexed(r) /\ Found(r) /\ index'[r] = index[r] /\ signingKey'[r] = signingKey[r]
    BY DEF RequestsStand, Indexed, Found
  <2>2. /\ index[r] \in 0..(StatusListSize - 1)
        /\ keyRow[signingKey[r]] = "live" => NewEntry(r, index[r]) \in entries
        /\ signingKey[r] \in Keys /\ keyRow[signingKey[r]] # "unborn"
    BY <2>1 DEF Inductive, RequestsHaveEntries, RequestsHaveKeys
  <2>3. keyRow'[signingKey[r]] = "live" => keyRow[signingKey[r]] = "live"
    BY <2>2 DEF RowsStand, Inductive, TypeOK, SK!TypeOK
  <2> QED
    BY <2>1, <2>2, <2>3 DEF EntriesStand, NewEntry
<1>2. EntriesAccounted'
  <2> SUFFICES ASSUME NEW e \in entries'
               PROVE  /\ pc'[e.credential] \in {"sign", "delivered", "unsigned", "lost"}
                      /\ signingKey'[e.credential] = e.key /\ index'[e.credential] = e.index
    BY DEF EntriesAccounted
  <2>1. e \in entries /\ e.credential \in Requests
    BY DEF EntriesStand, Inductive, TypeOK, Registry!Entry
  <2> QED
    BY <2>1 DEF RequestsStand, Inductive, EntriesAccounted
<1> QED
  BY <1>1, <1>2

(* An administrator's step that keeps the types and stands by the rows.    *)
LEMMA AdministratorStep ==
  ASSUME Inductive, TypeOK', SK!Inductive', EntriesDistinct', RowsStand, ApiKeysStand, EntriesStand,
         UNCHANGED <<instances, requestVars>>, ApiKeysOfRows'
  PROVE  Inductive'
<1>1. RequestsStand
  BY DEF requestVars, RequestsStand
<1>2. RequestFacts' /\ RequestsHaveEntries' /\ EntriesAccounted'
  BY <1>1, OthersMove, EntriesStay
<1>3. InstancesOfRows'
  BY DEF Inductive, InstancesOfRows, RowsStand
<1> QED
  BY <1>2, <1>3 DEF Inductive, RequestFacts

-------------------------------------------------------------------------------
(* The administrator *)

(* Forms change no row, and what an API key names is still there.          *)
LEMMA KeyFormsStep ==
  ASSUME Inductive, SK!Inductive', EntriesDistinct', RowsStand, KeyForms
  PROVE  Inductive'
<1>1. UNCHANGED <<statusVars, apiKeyVars, instances, requestVars>>
  BY DEF KeyForms
<1>2. TypeOK'
  BY <1>1 DEF Inductive, SK!Inductive, TypeOK, statusVars, apiKeyVars, requestVars, request
<1>3. ApiKeysStand /\ EntriesStand
  BY <1>1 DEF ApiKeysStand, EntriesStand, apiKeyVars, statusVars
<1>4. ApiKeysOfRows'
  BY <1>1 DEF Inductive, ApiKeysOfRows, RowsStand, apiKeyVars
<1> QED
  BY <1>1, <1>2, <1>3, <1>4, AdministratorStep

LEMMA SaveKeyStep ==
  ASSUME Inductive, SK!Inductive', EntriesDistinct', RowsStand, NEW k \in Keys, SaveKey(k)
  PROVE  Inductive'
<1>1. /\ UNCHANGED <<apiKeyVars, instances, requestVars>>
      /\ entries' = entries /\ revoked' = revoked
  BY DEF SaveKey, Registry!Create
<1>2. TypeOK'
  BY <1>1 DEF Inductive, SK!Inductive, TypeOK, apiKeyVars, requestVars, request
<1>3. ApiKeysStand /\ EntriesStand
  BY <1>1 DEF ApiKeysStand, EntriesStand, apiKeyVars
<1>4. ApiKeysOfRows'
  BY <1>1 DEF Inductive, ApiKeysOfRows, RowsStand, apiKeyVars
<1> QED
  BY <1>1, <1>2, <1>3, <1>4, AdministratorStep

(* The cascade takes the entries of the deleted key and no others.         *)
LEMMA DeleteKeyStep ==
  ASSUME Inductive, SK!Inductive', EntriesDistinct', RowsStand, NEW k \in Keys, DeleteKey(k)
  PROVE  Inductive'
<1>1. /\ UNCHANGED <<signingKeyId, instances, requestVars>>
      /\ keyRow' = [keyRow EXCEPT ![k] = "deleted"]
      /\ entries' = {e \in entries : e.key # k} /\ revoked' = {e \in revoked : e.key # k}
      /\ apiKey' = [a \in ApiKeys |-> IF signingKeyId[a] = k /\ apiKey[a] \in {"active", "revoked"}
                                      THEN "deleted" ELSE apiKey[a]]
  BY DEF DeleteKey, Registry!Delete
<1>2. TypeOK'
  BY <1>1 DEF Inductive, SK!Inductive, TypeOK, requestVars, request
<1>3. EntriesStand
  BY <1>1 DEF EntriesStand, Inductive, TypeOK, SK!TypeOK, Registry!Entry
<1>4. ApiKeysStand
  BY <1>1 DEF ApiKeysStand
<1>5. ApiKeysOfRows'
  BY <1>1 DEF Inductive, ApiKeysOfRows, RowsStand
<1> QED
  BY <1>1, <1>2, <1>3, <1>4, <1>5, AdministratorStep

(* An API key is made for a key whose row is there.                        *)
LEMMA ApiKeyStep ==
  ASSUME Inductive, SK!Inductive', EntriesDistinct', RowsStand, NEW a \in ApiKeys,
         \/ \E k \in Keys : CreateApiKey(a, k)
         \/ SaveApiKey(a) \/ SaveApiKeyFails(a) \/ RevokeApiKey(a)
  PROVE  Inductive'
<1> USE DEF CreateApiKey, SaveApiKey, SaveApiKeyFails, RevokeApiKey
<1>1. UNCHANGED <<keyVars, statusVars, instances, requestVars>>
  OBVIOUS
<1>2. /\ apiKey' \in [ApiKeys -> {"unborn", "hashing", "active", "revoked", "deleted", "failed"}]
      /\ signingKeyId' \in [ApiKeys -> Keys \cup {NoValue}]
  BY DEF Inductive, TypeOK
<1>3. TypeOK'
  BY <1>1, <1>2 DEF Inductive, SK!Inductive, TypeOK, statusVars, requestVars, request
<1>4. ApiKeysStand /\ EntriesStand
  BY <1>1 DEF ApiKeysStand, EntriesStand, statusVars, Inductive, TypeOK
<1>5. ApiKeysOfRows'
  BY <1>1 DEF Inductive, ApiKeysOfRows, keyVars, TypeOK
<1> QED
  BY <1>1, <1>3, <1>4, <1>5, AdministratorStep

LEMMA RevokeCredentialStep ==
  ASSUME Inductive, SK!Inductive', EntriesDistinct', RowsStand, RevokeCredential
  PROVE  Inductive'
<1>1. PICK e \in entries : Registry!Revoke(e)
  BY DEF RevokeCredential
<1>2. /\ UNCHANGED <<keyVars, apiKeyVars, instances, requestVars>>
      /\ entries' = entries /\ revoked' = revoked \cup {e}
  BY <1>1 DEF RevokeCredential, Registry!Revoke
<1>3. TypeOK'
  BY <1>2 DEF Inductive, SK!Inductive, TypeOK, apiKeyVars, requestVars, request
<1>4. ApiKeysStand /\ EntriesStand /\ ApiKeysOfRows'
  BY <1>2 DEF ApiKeysStand, EntriesStand, Inductive, ApiKeysOfRows, apiKeyVars, keyVars
<1> QED
  BY <1>2, <1>3, <1>4, AdministratorStep

-------------------------------------------------------------------------------
(* Requests that move *)

LEMMA PostIssueStep ==
  ASSUME Inductive, SK!Inductive', EntriesDistinct', NEW r \in Requests, NEW a \in ApiKeys, NEW s \in Identifiers,
         PostIssue(r, a, s)
  PROVE  Inductive'
<1>1. /\ UNCHANGED <<keyVars, statusVars, apiKeyVars, instances, signingKey, index, credential>>
      /\ pc[r] = "idle" /\ pc' = [pc EXCEPT ![r] = "compare"]
      /\ name' = [name EXCEPT ![r] = s] /\ presented' = [presented EXCEPT ![r] = a]
      /\ apiKey[a] = "active"
  BY DEF PostIssue, Goto
<1>2. PICK c \in SUBSET ClaimNames, e \in Expiries \cup {NoValue} :
        claims' = [claims EXCEPT ![r] = c] /\ exp' = [exp EXCEPT ![r] = e]
  BY DEF PostIssue
<1>3. TypeOK'
  BY <1>1, <1>2 DEF Inductive, SK!Inductive, TypeOK, statusVars, apiKeyVars, Open
<1>4. InstancesOfRows' /\ ApiKeysOfRows'
  BY <1>1 DEF Inductive, InstancesOfRows, ApiKeysOfRows, keyVars, apiKeyVars
<1>5. RequestsPresentKeys' /\ RequestsAdmitted'
  BY <1>1 DEF Inductive, TypeOK, RequestsPresentKeys, RequestsAdmitted, Admitted, NameMatches,
              keyVars, apiKeyVars
<1>6. RequestsHaveKeys' /\ IssuedByOwnKey'
  BY <1>1 DEF Inductive, TypeOK, RequestsHaveKeys, IssuedByOwnKey, Found, keyVars, apiKeyVars
<1>7. RequestsHaveEntries' /\ EntriesAccounted'
  BY <1>1 DEF Inductive, TypeOK, RequestsHaveEntries, EntriesAccounted, Indexed, NewEntry,
              keyVars, statusVars
<1>8. CredentialsAsIssued'
  BY <1>1, <1>2 DEF Inductive, TypeOK, CredentialsAsIssued, Delivered, Claimed, DateClaimed, Expiry, Credential, keyVars
<1> QED
  BY <1>3, <1>4, <1>5, <1>6, <1>7, <1>8 DEF Inductive

(* A request that has no index yet goes on, or is turned away.             *)
LEMMA BeforeIndex ==
  ASSUME Inductive, SK!Inductive', EntriesDistinct', NEW r \in Requests,
         NEW where \in {"find", "unauthorized", "badRequest", "notFound", "error"},
         pc[r] \in {"idle", "compare", "find", "allocate"}, Goto(r, where),
         where = "find" => pc[r] = "compare" /\ NameMatches(r),
         UNCHANGED <<keyVars, statusVars, apiKeyVars, instances, request, signingKey, index,
                     credential>>
  PROVE  Inductive'
<1>1. pc' = [pc EXCEPT ![r] = where]
  BY DEF Goto
<1>2. TypeOK'
  BY <1>1 DEF Inductive, SK!Inductive, TypeOK, statusVars, apiKeyVars, request, Answered, Open
<1>3. InstancesOfRows' /\ ApiKeysOfRows'
  BY DEF Inductive, InstancesOfRows, ApiKeysOfRows, keyVars, apiKeyVars
<1>4. RequestsPresentKeys' /\ RequestsAdmitted'
  BY <1>1 DEF Inductive, TypeOK, RequestsPresentKeys, RequestsAdmitted, Admitted, NameMatches,
              keyVars, apiKeyVars, request
<1>5. RequestsHaveKeys' /\ IssuedByOwnKey'
  BY <1>1 DEF Inductive, TypeOK, RequestsHaveKeys, IssuedByOwnKey, Found, keyVars, apiKeyVars,
              request
<1>6. RequestsHaveEntries' /\ EntriesAccounted'
  BY <1>1 DEF Inductive, TypeOK, RequestsHaveEntries, EntriesAccounted, Indexed, NewEntry,
              keyVars, statusVars, request
<1>7. CredentialsAsIssued'
  BY <1>1 DEF Inductive, TypeOK, CredentialsAsIssued, Delivered, Claimed, DateClaimed, Expiry, Credential, keyVars,
              request
<1> QED
  BY <1>2, <1>3, <1>4, <1>5, <1>6, <1>7 DEF Inductive

(* The name the handler finds is the name the guard compared: it leads to  *)
(* another key only if the one of the API key is gone.                     *)
LEMMA FindKeyStep ==
  ASSUME Inductive, SK!Inductive', EntriesDistinct', NEW r \in Requests, FindKey(r)
  PROVE  Inductive'
<1>1. /\ UNCHANGED <<keyVars, statusVars, apiKeyVars, instances, request, index, credential>>
      /\ pc[r] = "find" /\ pc' = [pc EXCEPT ![r] = "allocate"]
  BY DEF FindKey, Goto
<1>2. PICK k \in Keys : /\ keyRow[k] = "live" /\ identifier[k] = name[r]
                        /\ signingKey' = [signingKey EXCEPT ![r] = k]
  BY DEF FindKey, SK!KeysNamed
<1>3. TypeOK'
  BY <1>1, <1>2 DEF Inductive, SK!Inductive, TypeOK, statusVars, apiKeyVars, request, Open
<1>4. InstancesOfRows' /\ ApiKeysOfRows'
  BY <1>1 DEF Inductive, InstancesOfRows, ApiKeysOfRows, keyVars, apiKeyVars
<1>5. RequestsPresentKeys' /\ RequestsAdmitted'
  BY <1>1 DEF Inductive, TypeOK, RequestsPresentKeys, RequestsAdmitted, Admitted, NameMatches,
              keyVars, apiKeyVars, request
<1>6. RequestsHaveKeys'
  BY <1>1, <1>2 DEF Inductive, TypeOK, RequestsHaveKeys, Found, keyVars, request
<1>7. k = signingKeyId[presented[r]] \/ keyRow[signingKeyId[presented[r]]] = "deleted"
  <2>1. NameMatches(r) /\ presented[r] \in ApiKeys /\ apiKey[presented[r]] # "unborn"
    BY <1>1 DEF Inductive, RequestsAdmitted, RequestsPresentKeys, Admitted
  <2>2. signingKeyId[presented[r]] \in Keys /\ keyRow[signingKeyId[presented[r]]] # "unborn"
    BY <2>1 DEF Inductive, ApiKeysOfRows
  <2> QED
    BY <1>2, <2>1, <2>2 DEF NameMatches, Inductive, TypeOK, SK!TypeOK, SK!Inductive,
                            SK!IdentifierUnique
<1>8. IssuedByOwnKey'
  BY <1>1, <1>2, <1>7 DEF Inductive, TypeOK, IssuedByOwnKey, keyVars, apiKeyVars, request
<1>9. RequestsHaveEntries' /\ EntriesAccounted'
  BY <1>1, <1>2 DEF Inductive, TypeOK, RequestsHaveEntries, EntriesAccounted, Indexed, NewEntry,
                    keyVars, statusVars
<1>10. CredentialsAsIssued'
  BY <1>1, <1>2 DEF Inductive, TypeOK, CredentialsAsIssued, Delivered, Claimed, DateClaimed, Expiry, Credential,
                    keyVars, request
<1> QED
  BY <1>3, <1>4, <1>5, <1>6, <1>8, <1>9, <1>10 DEF Inductive

(* The registry gives an index of the list, and the entry is the request's *)
(* own.                                                                    *)
LEMMA AllocateStep ==
  ASSUME Inductive, SK!Inductive', EntriesDistinct', NEW r \in Requests, Allocate(r)
  PROVE  Inductive'
<1>1. PICK i \in 0..(StatusListSize - 1) :
        Registry!Allocate(NewEntry(r, i)) /\ index' = [index EXCEPT ![r] = i]
  BY DEF Allocate
<1>2. /\ UNCHANGED <<keyVars, apiKeyVars, instances, request, signingKey, credential>>
      /\ pc[r] = "allocate" /\ pc' = [pc EXCEPT ![r] = "sign"]
      /\ entries' = entries \cup {NewEntry(r, i)} /\ revoked' = revoked
  BY <1>1 DEF Allocate, Goto, Registry!Allocate
<1>3. signingKey[r] \in Keys
  BY <1>2 DEF Inductive, RequestsHaveKeys, Found
<1>4. TypeOK'
  <2>1. entries' \subseteq Registry!Entry /\ revoked' \subseteq entries'
    BY <1>2, <1>3 DEF Inductive, TypeOK, NewEntry, Registry!Entry
  <2>2. index' \in [Requests -> Int]
    BY <1>1 DEF Inductive, TypeOK
  <2> QED
    BY <1>2, <2>1, <2>2 DEF Inductive, SK!Inductive, TypeOK, apiKeyVars, request, Open
<1>5. InstancesOfRows' /\ ApiKeysOfRows'
  BY <1>2 DEF Inductive, InstancesOfRows, ApiKeysOfRows, keyVars, apiKeyVars
<1>6. RequestsPresentKeys' /\ RequestsAdmitted'
  BY <1>2 DEF Inductive, TypeOK, RequestsPresentKeys, RequestsAdmitted, Admitted, NameMatches,
              keyVars, apiKeyVars, request
<1>7. RequestsHaveKeys' /\ IssuedByOwnKey'
  BY <1>2 DEF Inductive, TypeOK, RequestsHaveKeys, IssuedByOwnKey, Found, keyVars, apiKeyVars,
              request
<1>8. \A e \in entries : e.credential # r
  BY <1>2 DEF Inductive, EntriesAccounted
<1>9. RequestsHaveEntries'
  BY <1>1, <1>2 DEF Inductive, TypeOK, RequestsHaveEntries, Indexed, NewEntry, keyVars
<1>10. EntriesAccounted'
  <2> SUFFICES ASSUME NEW e \in entries'
               PROVE  /\ pc'[e.credential] \in {"sign", "delivered", "unsigned", "lost"}
                      /\ signingKey'[e.credential] = e.key /\ index'[e.credential] = e.index
    BY DEF EntriesAccounted
  <2>1. CASE e \in entries
    BY <1>1, <1>2, <1>8, <2>1 DEF Inductive, TypeOK, Registry!Entry, EntriesAccounted
  <2>2. CASE e = NewEntry(r, i)
    BY <1>1, <1>2, <2>2 DEF Inductive, TypeOK, NewEntry
  <2> QED
    BY <1>2, <2>1, <2>2
<1>11. CredentialsAsIssued'
  BY <1>1, <1>2 DEF Inductive, TypeOK, CredentialsAsIssued, Delivered, Claimed, DateClaimed, Expiry, Credential,
                    keyVars, request
<1> QED
  BY <1>4, <1>5, <1>6, <1>7, <1>9, <1>10, <1>11 DEF Inductive

(* What an instance of the cache holds, or a new one would.                *)
LEMMA InstanceIsPair ==
  ASSUME Inductive, NEW k \in Keys
  PROVE  Instance(k) = pair[k]
BY DEF Instance, Inductive, InstancesOfRows

LEMMA CacheStep ==
  ASSUME Inductive, NEW k \in Keys, keyRow[k] # "unborn", CacheInstance(k), UNCHANGED keyVars
  PROVE  InstancesOfRows' /\ instances' \in [Keys -> SK!KeyPairs \cup {NoValue}]
<1>1. instances' = [instances EXCEPT ![k] = pair[k]]
  BY InstanceIsPair DEF CacheInstance
<1>2. pair[k] \in SK!KeyPairs
  BY RowsHaveColumns DEF Inductive
<1> QED
  BY <1>1, <1>2 DEF Inductive, TypeOK, InstancesOfRows, keyVars

(* A request that has its index ends delivered or unsigned.                *)
LEMMA AfterIndex ==
  ASSUME Inductive, SK!Inductive', EntriesDistinct', NEW r \in Requests, NEW where \in {"delivered", "unsigned"},
         pc[r] = "sign", Goto(r, where),
         UNCHANGED <<keyVars, statusVars, apiKeyVars, request, signingKey, index>>,
         InstancesOfRows', instances' \in [Keys -> SK!KeyPairs \cup {NoValue}],
         credential' \in [Requests -> {NoValue} \cup Credential], CredentialsAsIssued'
  PROVE  Inductive'
<1>1. pc' = [pc EXCEPT ![r] = where]
  BY DEF Goto
<1>2. TypeOK'
  BY <1>1 DEF Inductive, SK!Inductive, TypeOK, statusVars, apiKeyVars, request, Answered, SK!KeyPairs
<1>3. ApiKeysOfRows'
  BY DEF Inductive, ApiKeysOfRows, keyVars, apiKeyVars
<1>4. RequestsPresentKeys' /\ RequestsAdmitted'
  BY <1>1 DEF Inductive, TypeOK, RequestsPresentKeys, RequestsAdmitted, Admitted, NameMatches,
              keyVars, apiKeyVars, request
<1>5. RequestsHaveKeys' /\ IssuedByOwnKey'
  BY <1>1 DEF Inductive, TypeOK, RequestsHaveKeys, IssuedByOwnKey, Found, keyVars, apiKeyVars,
              request
<1>6. RequestsHaveEntries' /\ EntriesAccounted'
  BY <1>1 DEF Inductive, TypeOK, RequestsHaveEntries, EntriesAccounted, Indexed, NewEntry,
              keyVars, statusVars, request
<1> QED
  BY <1>2, <1>3, <1>4, <1>5, <1>6 DEF Inductive

(* The row and the cache agree, so the signature is the issuer's.          *)
LEMMA SignStep ==
  ASSUME Inductive, SK!Inductive', EntriesDistinct', NEW r \in Requests, Sign(r)
  PROVE  Inductive'
<1> DEFINE k == signingKey[r]
<1>1. /\ UNCHANGED <<keyVars, statusVars, apiKeyVars, request, signingKey, index>>
      /\ pc[r] = "sign" /\ Goto(r, "delivered") /\ CacheInstance(k)
      /\ credential' = [credential EXCEPT ![r] = NewCredential(r)]
  BY DEF Sign
<1>2. k \in Keys /\ keyRow[k] # "unborn" /\ index[r] \in 0..(StatusListSize - 1)
  BY <1>1 DEF Inductive, RequestsHaveKeys, RequestsHaveEntries, Found, Indexed
<1>3. pair[k] \in SK!KeyPairs /\ identifier[k] \in Identifiers /\ Instance(k) = pair[k]
  BY <1>2, InstanceIsPair, RowsHaveColumns DEF Inductive
<1>4. /\ NewCredential(r) \in Credential
      /\ NewCredential(r).signedBy = pair[k]
      /\ NewCredential(r).iss = Claimed(r, "iss", pair[k])
      /\ NewCredential(r).jti = Claimed(r, "jti", r)
      /\ NewCredential(r).exp = DateClaimed(r, "exp", Expiry(r))
      /\ NewCredential(r).iat = DateClaimed(r, "iat", NoValue)
      /\ NewCredential(r).nbf = DateClaimed(r, "nbf", NoValue)
      /\ NewCredential(r).uri = Claimed(r, "status", identifier[k])
      /\ NewCredential(r).idx = Claimed(r, "status", index[r])
  BY <1>2, <1>3 DEF NewCredential, Credential, Claimed, DateClaimed, Expiry, Inductive, TypeOK
<1>5. credential' \in [Requests -> {NoValue} \cup Credential]
  BY <1>1, <1>4 DEF Inductive, TypeOK
<1>6. CredentialsAsIssued'
  BY <1>1, <1>4 DEF Inductive, TypeOK, CredentialsAsIssued, Delivered, Goto, Claimed, DateClaimed, Expiry, Credential,
                    keyVars, request
<1> QED
  BY <1>1, <1>2, <1>5, <1>6, CacheStep, AfterIndex

LEMMA UnsignedStep ==
  ASSUME Inductive, SK!Inductive', EntriesDistinct', NEW r \in Requests, DecryptFails(r) \/ SignFails(r)
  PROVE  Inductive'
<1>1. /\ UNCHANGED <<keyVars, statusVars, apiKeyVars, request, signingKey, index, credential>>
      /\ pc[r] = "sign" /\ Goto(r, "unsigned")
      /\ CacheInstance(signingKey[r]) \/ instances' = instances
  BY DEF DecryptFails, SignFails
<1>2. signingKey[r] \in Keys /\ keyRow[signingKey[r]] # "unborn"
  BY <1>1 DEF Inductive, RequestsHaveKeys, Found
<1>3. InstancesOfRows' /\ instances' \in [Keys -> SK!KeyPairs \cup {NoValue}]
  <2>1. CASE CacheInstance(signingKey[r])
    BY <1>1, <1>2, <2>1, CacheStep
  <2>2. CASE instances' = instances
    BY <1>1, <2>2 DEF Inductive, TypeOK, InstancesOfRows, keyVars
  <2> QED
    BY <1>1, <2>1, <2>2
<1>4. CredentialsAsIssued'
  BY <1>1 DEF Inductive, TypeOK, CredentialsAsIssued, Delivered, Goto, Claimed, DateClaimed, Expiry, Credential,
              keyVars, request
<1>5. credential' \in [Requests -> {NoValue} \cup Credential]
  BY <1>1 DEF Inductive, TypeOK
<1> QED
  BY <1>1, <1>3, <1>4, <1>5, AfterIndex

LEMMA VerifyStep ==
  ASSUME Inductive, SK!Inductive', EntriesDistinct', NEW s \in Identifiers, VerifyCredential(s)
  PROVE  Inductive'
<1>1. PICK k \in Keys : keyRow[k] = "live" /\ CacheInstance(k)
  BY DEF VerifyCredential, SK!KeysNamed
<1>2. UNCHANGED <<keyVars, statusVars, apiKeyVars, requestVars>>
  BY DEF VerifyCredential
<1>3. InstancesOfRows' /\ instances' \in [Keys -> SK!KeyPairs \cup {NoValue}]
  BY <1>1, <1>2, CacheStep
<1>4. TypeOK'
  BY <1>2, <1>3 DEF Inductive, SK!Inductive, TypeOK, statusVars, apiKeyVars, requestVars, request,
                    SK!KeyPairs
<1>5. RowsStand /\ ApiKeysStand /\ RequestsStand /\ EntriesStand /\ ApiKeysOfRows'
  BY <1>2 DEF RowsStand, ApiKeysStand, RequestsStand, EntriesStand, Inductive, ApiKeysOfRows,
              keyVars, statusVars, apiKeyVars, requestVars
<1> QED
  BY <1>3, <1>4, <1>5, OthersMove, EntriesStay DEF Inductive, RequestFacts

(* A restart empties the cache and cuts requests off.                      *)
LEMMA RestartStep ==
  ASSUME Inductive, SK!Inductive', EntriesDistinct', RowsStand, NEW s \in Secrets, Restart(s)
  PROVE  Inductive'
<1>1. /\ UNCHANGED <<statusVars, signingKeyId, request, signingKey, index, credential>>
      /\ apiKey' = [a \in ApiKeys |-> IF apiKey[a] = "hashing" THEN "failed" ELSE apiKey[a]]
      /\ instances' = [k \in Keys |-> NoValue]
      /\ pc' = [r \in Requests |-> IF pc[r] \in Open THEN "lost" ELSE pc[r]]
  BY DEF Restart
<1>2. TypeOK'
  BY <1>1 DEF Inductive, SK!Inductive, TypeOK, statusVars, request
<1>3. InstancesOfRows'
  BY <1>1 DEF InstancesOfRows
<1>4. ApiKeysStand /\ ApiKeysOfRows'
  BY <1>1 DEF ApiKeysStand, Inductive, ApiKeysOfRows, RowsStand
<1>5. RequestsStand /\ EntriesStand
  BY <1>1 DEF RequestsStand, EntriesStand, statusVars, Open
<1> QED
  BY <1>2, <1>3, <1>4, <1>5, OthersMove, EntriesStay DEF Inductive, RequestFacts

-------------------------------------------------------------------------------
(* The theorems *)

LEMMA InitInductive == Init => Inductive
<1> SUFFICES ASSUME Init PROVE Inductive
  OBVIOUS
<1>1. SK!Inductive
  BY KeysInit DEF Init
<1>2. TypeOK
  BY <1>1 DEF Init, Registry!Init, SK!Inductive, TypeOK
<1>3. InstancesOfRows /\ ApiKeysOfRows
  BY DEF Init, InstancesOfRows, ApiKeysOfRows
<1>4. RequestsPresentKeys /\ RequestsAdmitted /\ RequestsHaveKeys /\ IssuedByOwnKey
  BY DEF Init, RequestsPresentKeys, RequestsAdmitted, RequestsHaveKeys, IssuedByOwnKey, Admitted,
         Found
<1>5. RequestsHaveEntries /\ EntriesAccounted /\ EntriesDistinct /\ CredentialsAsIssued
  BY DEF Init, Registry!Init, RequestsHaveEntries, EntriesAccounted, EntriesDistinct,
         CredentialsAsIssued, Indexed,
         Delivered
<1> QED
  BY <1>1, <1>2, <1>3, <1>4, <1>5 DEF Inductive

LEMMA AdministerStep ==
  ASSUME Inductive, SK!Inductive', EntriesDistinct', RowsStand, Administer
  PROVE  Inductive'
<1>1. CASE KeyForms
  BY <1>1, KeyFormsStep
<1>2. ASSUME NEW k \in Keys, SaveKey(k) \/ DeleteKey(k) PROVE Inductive'
  BY <1>2, SaveKeyStep, DeleteKeyStep
<1>3. ASSUME NEW a \in ApiKeys,
             \/ \E k \in Keys : CreateApiKey(a, k)
             \/ SaveApiKey(a) \/ SaveApiKeyFails(a) \/ RevokeApiKey(a)
      PROVE  Inductive'
  BY <1>3, ApiKeyStep
<1> QED
  BY <1>1, <1>2, <1>3 DEF Administer

LEMMA HandleStep ==
  ASSUME Inductive, SK!Inductive', EntriesDistinct', NEW r \in Requests, Handle(r)
  PROVE  Inductive'
<1>1. CASE AdmitRequest(r)
  BY <1>1, BeforeIndex DEF AdmitRequest
<1>2. CASE RefuseRequest(r) \/ RefuseBody(r)
  BY <1>2, BeforeIndex DEF RefuseRequest, RefuseBody
<1>3. CASE FindNothing(r) \/ AllocateFails(r)
  BY <1>3, BeforeIndex DEF FindNothing, AllocateFails
<1>4. CASE FindKey(r)
  BY <1>4, FindKeyStep
<1>5. CASE Allocate(r)
  BY <1>5, AllocateStep
<1>6. CASE Sign(r) \/ DecryptFails(r) \/ SignFails(r)
  BY <1>6, SignStep, UnsignedStep
<1> QED
  BY <1>1, <1>2, <1>3, <1>4, <1>5, <1>6 DEF Handle

LEMMA StepInductive == Inductive /\ [Next]_vars => Inductive'
<1> SUFFICES ASSUME Inductive, [Next]_vars PROVE Inductive'
  OBVIOUS
<1>1. SK!Inductive' /\ RowsStand /\ EntriesDistinct'
  BY StepOfKeys, KeysStep, KeysStand, StepOfRegistry, RegistryKeepsDistinct DEF Inductive
<1>2. CASE Administer
  BY <1>1, <1>2, AdministerStep
<1>3. ASSUME NEW r \in Requests, Arrive(r) PROVE Inductive'
  <2>1. CASE RefuseApiKey(r)
    BY <1>1, <2>1, BeforeIndex DEF RefuseApiKey
  <2>2. ASSUME NEW a \in ApiKeys, NEW s \in Identifiers, PostIssue(r, a, s) PROVE Inductive'
    BY <1>1, <2>2, PostIssueStep
  <2> QED
    BY <1>3, <2>1, <2>2 DEF Arrive
<1>4. ASSUME NEW r \in Requests, Handle(r) PROVE Inductive'
  BY <1>1, <1>4, HandleStep
<1>5. ASSUME NEW s \in Identifiers, VerifyCredential(s) PROVE Inductive'
  BY <1>1, <1>5, VerifyStep
<1>6. ASSUME NEW s \in Secrets, Restart(s) PROVE Inductive'
  BY <1>1, <1>6, RestartStep
<1>7. CASE UNCHANGED vars
  <2>1. TypeOK'
    BY <1>1, <1>7 DEF Inductive, SK!Inductive, TypeOK, vars, statusVars, apiKeyVars, requestVars,
                      request
  <2>2. ApiKeysStand /\ EntriesStand /\ ApiKeysOfRows'
    BY <1>7 DEF ApiKeysStand, EntriesStand, Inductive, ApiKeysOfRows, vars, keyVars, statusVars,
                apiKeyVars
  <2> QED
    BY <1>1, <1>7, <2>1, <2>2, AdministratorStep DEF vars
<1>8. CASE RevokeCredential
  BY <1>1, <1>8, RevokeCredentialStep
<1> QED
  BY <1>2, <1>3, <1>4, <1>5, <1>6, <1>7, <1>8 DEF Next

(* Requests, rows, entries and the cache stay in agreement, whoever comes  *)
(* between the steps of a handler.                                         *)
THEOREM InductiveInvariant == Spec => []Inductive
BY InitInductive, StepInductive, PTL DEF Spec

(* Every variable keeps its type, credentials included.                    *)
THEOREM TypeCorrect == Spec => []TypeOK
<1>1. Inductive => TypeOK
  BY DEF Inductive
<1> QED
  BY <1>1, InductiveInvariant, PTL

(* Guard and handler look the name up apart: they agree on the key, or the *)
(* key of the API key was deleted in between.                              *)
THEOREM RequestsIssueByOwnKey == Spec => []IssuedByOwnKey
<1>1. Inductive => IssuedByOwnKey
  BY DEF Inductive
<1> QED
  BY <1>1, InductiveInvariant, PTL

(* No failure but one after COMMIT leaves an entry without a credential.   *)
THEOREM EntriesAreAccountedFor == Spec => []EntriesAccounted
<1>1. Inductive => EntriesAccounted
  BY DEF Inductive
<1> QED
  BY <1>1, InductiveInvariant, PTL

(* The issuer a credential names is the key that signed it, although one   *)
(* is read from the row and the other from the cache.                      *)
THEOREM IssuerSigns == Spec => []SignatureMatchesIssuer
<1>1. Inductive => SignatureMatchesIssuer
  BY DEF Inductive, SignatureMatchesIssuer, CredentialsAsIssued, Claimed
<1> QED
  BY <1>1, InductiveInvariant, PTL

(* The status URI and index of a credential lead to its own entry, and to  *)
(* no other, as long as its key lives.                                     *)
LEMMA OwnEntry ==
  ASSUME Inductive
  PROVE  DeliveredIsTracked
<1> SUFFICES ASSUME NEW r \in Delivered, keyRow[signingKey[r]] = "live", "status" \notin claims[r]
             PROVE  EntriesAt(credential[r].uri, credential[r].idx) =
                      {[key |-> signingKey[r], index |-> credential[r].idx, credential |-> r]}
  BY DEF DeliveredIsTracked
<1>1. r \in Requests /\ Found(r) /\ Indexed(r)
  BY DEF Delivered, Found, Indexed
<1>2. signingKey[r] \in Keys /\ NewEntry(r, index[r]) \in entries
  BY <1>1 DEF Inductive, RequestsHaveKeys, RequestsHaveEntries
<1>3. credential[r].uri = identifier[signingKey[r]] /\ credential[r].idx = index[r]
  BY DEF Inductive, CredentialsAsIssued, Claimed
<1>4. SK!KeysNamed(identifier[signingKey[r]]) = {signingKey[r]}
  BY <1>2 DEF Inductive, SK!Inductive, SK!IdentifierUnique, SK!KeysNamed
<1>5. \A e \in entries : e.key = signingKey[r] /\ e.index = index[r] => e = NewEntry(r, index[r])
  BY <1>2 DEF Inductive, EntriesDistinct, NewEntry
<1> QED
  BY <1>2, <1>3, <1>4, <1>5 DEF NewEntry, EntriesAt

(* Whoever follows a credential to its status finds that of this           *)
(* credential.                                                             *)
THEOREM CredentialsAreTracked == Spec => []DeliveredIsTracked
BY InductiveInvariant, OwnEntry, PTL

(* The dates in a delivered credential are those its request asked for, so *)
(* it is in date whenever it was asked to be valid.                        *)
LEMMA DatesAsAsked ==
  ASSUME Inductive, NEW r \in Delivered, NEW t \in Times, ValidAt(r, t)
  PROVE  InDate(credential[r], t)
<1>1. /\ credential[r].exp = DateClaimed(r, "exp", Expiry(r))
      /\ credential[r].iat = DateClaimed(r, "iat", NoValue)
      /\ credential[r].nbf = DateClaimed(r, "nbf", NoValue)
  BY DEF Inductive, CredentialsAsIssued
<1>2. NoValue \notin Nat /\ CallersDate \in Nat /\ CallersDate # 0
  BY NoDateAssumption, DatesAssumption
<1>3. credential[r].exp # NoValue => t <= credential[r].exp
  BY <1>1, <1>2 DEF ValidAt, DateClaimed, Expiry
<1>4. /\ credential[r].iat # NoValue => credential[r].iat <= t
      /\ credential[r].nbf # NoValue => credential[r].nbf <= t
  BY <1>1, <1>2 DEF ValidAt, DateClaimed
<1> QED
  BY <1>3, <1>4 DEF InDate

(* What was issued under a name verifies under it whenever it was asked to *)
(* be valid, while its key lives and its secret is in force.               *)
THEOREM OwnCredentialsAreAccepted == Spec => []OwnCredentialsVerify
<1>1. Inductive => OwnCredentialsVerify
  <2> SUFFICES ASSUME Inductive, NEW r \in Delivered, NEW t \in Times,
                      keyRow[signingKey[r]] = "live", sealedWith[signingKey[r]] = secret,
                      ValidAt(r, t)
               PROVE  Verifies(identifier[signingKey[r]], credential[r], t)
    BY DEF OwnCredentialsVerify
  <2>1. signingKey[r] \in Keys /\ credential[r].signedBy = pair[signingKey[r]]
    BY DEF Inductive, RequestsHaveKeys, CredentialsAsIssued, Delivered, Found
  <2>2. Instance(signingKey[r]) = pair[signingKey[r]]
    BY <2>1, InstanceIsPair
  <2>3. SignatureAccepted(identifier[signingKey[r]], credential[r])
    BY <2>1, <2>2 DEF SignatureAccepted, HasInstance, SK!KeysNamed
  <2> QED
    BY <2>3, DatesAsAsked DEF Verifies
<1> QED
  BY <1>1, InductiveInvariant, PTL

(* What a generated pair has signed verifies only under its own key.       *)
THEOREM GeneratedPairsVerifyOwn == Spec => []VerifiesUnderOwnKeyOnly
<1>1. Inductive => VerifiesUnderOwnKeyOnly
  <2> SUFFICES ASSUME Inductive, NEW r \in Delivered, NEW s \in Identifiers,
                      credential[r].signedBy \in Keys, SignatureAccepted(s, credential[r])
               PROVE  SK!KeysNamed(s) = {signingKey[r]}
    BY DEF VerifiesUnderOwnKeyOnly
  <2>1. PICK k \in Keys : /\ keyRow[k] = "live" /\ identifier[k] = s
                          /\ Instance(k) = credential[r].signedBy
    BY DEF SignatureAccepted, SK!KeysNamed
  <2>2. /\ signingKey[r] \in Keys /\ keyRow[signingKey[r]] # "unborn"
        /\ credential[r].signedBy = pair[signingKey[r]]
    BY DEF Inductive, RequestsHaveKeys, CredentialsAsIssued, Delivered, Found
  <2>3. pair[k] = pair[signingKey[r]] /\ pair[k] \in Keys
    BY <2>1, <2>2, InstanceIsPair
  <2>4. \A j \in Keys : keyRow[j] # "unborn" /\ pair[j] \in Keys => pair[j] = j
    BY PairsAssumption DEF Inductive, SK!Inductive, SK!FormsAreHonest, SK!RowsComplete
  <2>5. k = signingKey[r]
    BY <2>1, <2>2, <2>3, <2>4
  <2> QED
    BY <2>1, <2>5 DEF SK!KeysNamed, Inductive, SK!Inductive, SK!IdentifierUnique
<1> QED
  BY <1>1, InductiveInvariant, PTL

-------------------------------------------------------------------------------
(* What holds short of the findings *)

(* detail.hbs is right about every pair the service has generated: only    *)
(* what is imported can be imported again and verify old credentials.      *)
THEOREM GeneratedNeverVerifyDeleted ==
  Spec => [](\A r \in Delivered, s \in Identifiers :
               credential[r].signedBy \in Keys /\ keyRow[signingKey[r]] = "deleted"
                 => ~SignatureAccepted(s, credential[r]))
<1>1. VerifiesUnderOwnKeyOnly =>
        \A r \in Delivered, s \in Identifiers :
          credential[r].signedBy \in Keys /\ keyRow[signingKey[r]] = "deleted"
            => ~SignatureAccepted(s, credential[r])
  <2> SUFFICES ASSUME VerifiesUnderOwnKeyOnly, NEW r \in Delivered, NEW s \in Identifiers,
                      credential[r].signedBy \in Keys, SignatureAccepted(s, credential[r])
               PROVE  keyRow[signingKey[r]] # "deleted"
    OBVIOUS
  <2>1. signingKey[r] \in SK!KeysNamed(s)
    BY DEF VerifiesUnderOwnKeyOnly
  <2> QED
    BY <2>1 DEF SK!KeysNamed
<1> QED
  BY <1>1, GeneratedPairsVerifyOwn, PTL

(* The DTO is right about every request that names none of these claims    *)
(* and does not ask for exp = 0.                                           *)
THEOREM ManagedUnlessClaimed ==
  Spec => [](\A r \in Delivered : claims[r] = {} /\ exp[r] # 0 => Managed(r))
<1>1. Inductive => \A r \in Delivered : claims[r] = {} /\ exp[r] # 0 => Managed(r)
  BY DEF Inductive, CredentialsAsIssued, Claimed, DateClaimed, Expiry, Managed
<1> QED
  BY <1>1, InductiveInvariant, PTL

-------------------------------------------------------------------------------
(* One process *)

(* A credential is never signed by a key that has been deleted meanwhile:  *)
(* at its delivery its entry is in the list of a key that still lives.     *)
IssuedWhileLive ==
  [][\A r \in Requests :
       pc[r] # "delivered" /\ pc'[r] = "delivered" => keyRow[signingKey[r]] = "live"]_vars

(* Between the lookup of the key and the signature.                        *)
KeysInUse == \A r \in Requests : pc[r] \in {"allocate", "sign"} => keyRow[signingKey[r]] = "live"

OneProcessNext == Next /\ (Uninterrupted => Resume)

(* While a request uses its key nobody deletes it.                         *)
LEMMA KeysStayInUse ==
  ASSUME Inductive, KeysInUse, [OneProcessNext]_vars
  PROVE  KeysInUse'
<1> SUFFICES ASSUME NEW r \in Requests, pc'[r] \in {"allocate", "sign"}
             PROVE  keyRow'[signingKey'[r]] = "live"
  BY DEF KeysInUse
<1>1. CASE UNCHANGED vars
  BY <1>1 DEF vars, keyVars, requestVars, KeysInUse
<1>2. ASSUME NEW q \in Requests, Handle(q) PROVE keyRow'[signingKey'[r]] = "live"
  <2>1. CASE FindKey(q)
    BY <2>1 DEF FindKey, Goto, SK!KeysNamed, KeysInUse, keyVars, Inductive, TypeOK
  <2>2. CASE ~FindKey(q)
    BY <1>2, <2>2 DEF Handle, AdmitRequest, RefuseRequest, RefuseBody, FindNothing, Allocate,
         AllocateFails, Sign, DecryptFails, SignFails, Goto, KeysInUse, keyVars, Inductive, TypeOK
  <2> QED
    BY <2>1, <2>2
<1>3. ASSUME NEW q \in Requests, Arrive(q) PROVE keyRow'[signingKey'[r]] = "live"
  BY <1>3 DEF Arrive, RefuseApiKey, PostIssue, Goto, KeysInUse, keyVars, Inductive, TypeOK
<1>4. ASSUME NEW s \in Identifiers, VerifyCredential(s) PROVE keyRow'[signingKey'[r]] = "live"
  BY <1>4 DEF VerifyCredential, keyVars, requestVars, KeysInUse
<1>5. ASSUME NEW s \in Secrets, Restart(s) PROVE keyRow'[signingKey'[r]] = "live"
  BY <1>5 DEF Restart, SK!Restart, KeysInUse, Open, Inductive, TypeOK
<1>6. CASE Administer
  <2>1. UNCHANGED <<pc, signingKey>>
    BY <1>6 DEF Administer, KeyForms, SaveKey, DeleteKey, CreateApiKey, SaveApiKey,
         SaveApiKeyFails, RevokeApiKey, requestVars
  <2>2. pc[r] \in {"allocate", "sign"} /\ keyRow[signingKey[r]] = "live" /\ signingKey[r] \in Keys
    BY <2>1 DEF KeysInUse, Inductive, RequestsHaveKeys, Found
  <2>3. CASE Resume
    <3>1. ASSUME NEW k \in Keys, SaveKey(k) \/ SK!SubmitFails(k)
          PROVE  keyRow'[signingKey[r]] = "live"
      BY <2>2, <3>1 DEF SaveKey, SK!SaveKey, SK!SubmitFails, Inductive, SK!Inductive, SK!TypeOK
    <3>2. ASSUME NEW q \in Requests, Handle(q) PROVE keyRow'[signingKey'[r]] = "live"
      BY <3>2, <1>2
    <3> QED
      BY <1>5, <2>1, <2>3, <3>1, <3>2 DEF Resume
  <2>4. (Uninterrupted /\ OneProcessNext) \/ UNCHANGED vars
    BY <2>2 DEF Uninterrupted
  <2> QED
    BY <1>1, <2>3, <2>4 DEF OneProcessNext
<1>7. CASE RevokeCredential
  BY <1>7 DEF RevokeCredential, keyVars, requestVars, KeysInUse
<1> QED
  BY <1>1, <1>2, <1>3, <1>4, <1>5, <1>6, <1>7 DEF OneProcessNext, Next

(* One process never signs with a key that is gone; several may.           *)
THEOREM OneProcessIssuesWhileLive == OneProcessSpec => IssuedWhileLive
<1> DEFINE Step == \A r \in Requests : pc[r] # "delivered" /\ pc'[r] = "delivered"
                                          => keyRow[signingKey[r]] = "live"
<1>1. Init => Inductive /\ KeysInUse
  BY InitInductive DEF Init, KeysInUse
<1>2. Inductive /\ KeysInUse /\ [OneProcessNext]_vars => (Inductive /\ KeysInUse)'
  BY StepInductive, KeysStayInUse DEF OneProcessNext
<1>3. ASSUME Inductive, KeysInUse, [OneProcessNext]_vars PROVE Step
  <2> SUFFICES ASSUME NEW r \in Requests, pc[r] # "delivered", pc'[r] = "delivered"
               PROVE  keyRow[signingKey[r]] = "live"
    OBVIOUS
  <2>1. ASSUME NEW q \in Requests, Handle(q) PROVE pc[r] = "sign"
    BY <1>3, <2>1 DEF Handle, AdmitRequest, RefuseRequest, RefuseBody, FindKey, FindNothing,
         Allocate, AllocateFails, Sign, DecryptFails, SignFails, Goto, Inductive, TypeOK
  <2>2. ASSUME NEW q \in Requests, Arrive(q) PROVE FALSE
    BY <1>3, <2>2 DEF Arrive, RefuseApiKey, PostIssue, Goto, Inductive, TypeOK
  <2>3. ASSUME NEW s \in Secrets, Restart(s) PROVE FALSE
    BY <2>3 DEF Restart
  <2>4. CASE \/ Administer \/ RevokeCredential \/ UNCHANGED vars
             \/ \E s \in Identifiers : VerifyCredential(s)
    BY <2>4 DEF Administer, KeyForms, SaveKey, DeleteKey, CreateApiKey, SaveApiKey,
         SaveApiKeyFails, RevokeApiKey, RevokeCredential, VerifyCredential, requestVars, vars
  <2> QED
    BY <1>3, <2>1, <2>2, <2>3, <2>4 DEF OneProcessNext, Next, KeysInUse
<1>4. Inductive /\ KeysInUse /\ [OneProcessNext]_vars => [Step]_vars
  BY <1>3
<1> QED
  BY <1>1, <1>2, <1>4, PTL DEF OneProcessSpec, OneProcessNext, IssuedWhileLive

-------------------------------------------------------------------------------
(* The components, as the composite drives them *)

(* Requests and administration together use the status registry as it is   *)
(* meant to be used: what is given out or revoked stays so until the key   *)
(* is deleted.                                                             *)
THEOREM ImplementsStatusRegistry == Spec => Registry!Spec
<1>1. Init => Registry!Init
  BY DEF Init
<1>2. Inductive /\ [Next]_vars => [Registry!Next]_Registry!vars
  BY StepOfRegistry
<1> QED
  BY <1>1, <1>2, InductiveInvariant, PTL DEF Spec, Registry!Spec

(* A delivered credential stays as it is, and so does what led to it.      *)
LEMMA DeliveredStand ==
  ASSUME Inductive, [Next]_vars, NEW r \in Delivered
  PROVE  /\ r \in Delivered'
         /\ credential'[r] = credential[r] /\ signingKey'[r] = signingKey[r]
         /\ claims'[r] = claims[r]
<1> USE DEF Inductive, TypeOK, Delivered
<1>1. ASSUME NEW q \in Requests, Handle(q)
      PROVE  /\ pc'[r] = pc[r]
             /\ credential'[r] = credential[r] /\ signingKey'[r] = signingKey[r]
             /\ claims'[r] = claims[r]
  BY <1>1 DEF Handle, AdmitRequest, RefuseRequest, RefuseBody, FindKey, FindNothing, Allocate,
       AllocateFails, Sign, DecryptFails, SignFails, Goto, request
<1>2. ASSUME NEW q \in Requests, Arrive(q)
      PROVE  /\ pc'[r] = pc[r] /\ UNCHANGED <<credential, signingKey>>
             /\ claims'[r] = claims[r]
  BY <1>2 DEF Arrive, RefuseApiKey, PostIssue, Goto, request
<1>3. ASSUME NEW s \in Secrets, Restart(s)
      PROVE  pc'[r] = pc[r] /\ UNCHANGED <<credential, signingKey, claims>>
  BY <1>3 DEF Restart, Open, request
<1>4. ASSUME \/ Administer \/ RevokeCredential \/ UNCHANGED vars
             \/ \E s \in Identifiers : VerifyCredential(s)
      PROVE  UNCHANGED requestVars
  BY <1>4 DEF Administer, KeyForms, SaveKey, DeleteKey, CreateApiKey, SaveApiKey,
       SaveApiKeyFails, RevokeApiKey, RevokeCredential, VerifyCredential, requestVars, vars
<1> QED
  BY <1>1, <1>2, <1>3, <1>4 DEF Next, requestVars, request

(* Nothing but a revocation adds to the revoked entries, and what is       *)
(* revoked stays so unless its key goes.                                   *)
LEMMA RevokedGrows ==
  ASSUME Inductive, [Next]_vars
  PROVE  /\ \A e \in revoked : keyRow'[e.key] = "live" => e \in revoked'
         /\ revoked' \subseteq revoked \/ RevokeCredential
<1>1. \A e \in revoked : keyRow'[e.key] = "live" => e \in revoked'
  <2>1. [Registry!Next]_Registry!vars
    BY StepOfRegistry
  <2>2. /\ revoked \subseteq entries /\ entries \subseteq Registry!Entry
        /\ keyRow \in [Keys -> {"unborn", "live", "deleted"}]
    BY DEF Inductive, TypeOK, SK!Inductive, SK!TypeOK
  <2> QED
    BY <2>1, <2>2 DEF Registry!Next, Registry!vars, Registry!Entry, Registry!Create,
         Registry!Allocate, Registry!Revoke, Registry!Delete
<1>2. ASSUME NEW q \in Requests, Arrive(q) \/ Handle(q) PROVE revoked' = revoked
  BY <1>2 DEF Arrive, RefuseApiKey, PostIssue, Handle, AdmitRequest, RefuseRequest, RefuseBody,
       FindKey, FindNothing, Allocate, AllocateFails, Sign, DecryptFails, SignFails,
       Registry!Allocate, statusVars
<1>3. ASSUME Administer PROVE revoked' \subseteq revoked \/ RevokeCredential
  BY <1>3 DEF Administer, KeyForms, SaveKey, DeleteKey, CreateApiKey, SaveApiKey,
       SaveApiKeyFails, RevokeApiKey, Registry!Create, Registry!Delete, statusVars
<1>4. ASSUME \/ \E s \in Identifiers : VerifyCredential(s)
             \/ \E s \in Secrets : Restart(s)
             \/ UNCHANGED vars
      PROVE  revoked' = revoked
  BY <1>4 DEF VerifyCredential, Restart, statusVars, vars
<1> QED
  BY <1>1, <1>2, <1>3, <1>4 DEF Next

(* The status of a credential is changed by its revocation alone, and that *)
(* for good.                                                               *)
THEOREM StatusOnlyRevoked == Spec => StatusLasts
<1> DEFINE Step == \A r \in Delivered :
                     "status" \notin claims[r] /\ keyRow'[signingKey[r]] = "live" =>
                       /\ Revoked(r) => Revoked(r)'
                       /\ ~Revoked(r) /\ Revoked(r)' => RevokeCredential
<1>1. ASSUME Inductive, [Next]_vars PROVE Step
  <2> SUFFICES ASSUME NEW r \in Delivered, "status" \notin claims[r],
                      keyRow'[signingKey[r]] = "live"
               PROVE  /\ Revoked(r) => Revoked(r)'
                      /\ ~Revoked(r) /\ Revoked(r)' => RevokeCredential
    OBVIOUS
  <2> DEFINE own == [key |-> signingKey[r], index |-> credential[r].idx, credential |-> r]
  <2>1. /\ r \in Delivered' /\ "status" \notin claims'[r]
        /\ credential'[r] = credential[r] /\ signingKey'[r] = signingKey[r]
    BY <1>1, DeliveredStand
  <2>2. signingKey[r] \in Keys /\ keyRow[signingKey[r]] # "unborn"
    BY <1>1 DEF Inductive, RequestsHaveKeys, Delivered, Found
  <2>3. keyRow[signingKey[r]] = "live"
    <3>1. [Registry!Next]_Registry!vars
      BY <1>1, StepOfRegistry
    <3>2. keyRow \in [Keys -> {"unborn", "live", "deleted"}]
      BY <1>1 DEF Inductive, SK!Inductive, SK!TypeOK
    <3> QED
      BY <2>2, <3>1, <3>2 DEF Registry!Next, Registry!vars, Registry!Create, Registry!Allocate,
           Registry!Revoke, Registry!Delete
  <2>4. Revoked(r) <=> own \in revoked
    BY <1>1, <2>3, OwnEntry DEF DeliveredIsTracked, Revoked
  <2>5. Revoked(r)' <=> own \in revoked'
    <3>1. DeliveredIsTracked'
      BY <1>1, StepInductive, OwnEntry, PTL
    <3> QED
      BY <2>1, <3>1 DEF DeliveredIsTracked, Revoked
  <2> QED
    BY <1>1, <2>4, <2>5, RevokedGrows
<1> QED
  BY <1>1, InductiveInvariant, PTL DEF Spec, StatusLasts

(* No request and no API key gets between the forms of signing keys and    *)
(* their rows.                                                             *)
THEOREM ImplementsSigningKeys == Spec => SK!Spec
<1>1. Init => SK!Init
  BY DEF Init
<1>2. [Next]_vars => [SK!Next]_SK!vars
  BY StepOfKeys DEF keyVars, SK!vars
<1> QED
  BY <1>1, <1>2, PTL DEF Spec, SK!Spec

(* So the table of signing keys is the registry of KeyRegistry to whoever  *)
(* issues, verifies and administers.                                       *)
THEOREM ImplementsKeyRegistry == Spec => SK!ImplementsRegistry
<1>1. SK!Init => SK!Registry!Init
  BY DEF SK!Init, SK!Registry!Init, SK!Rows, SK!Used
<1>2. Inductive /\ [Next]_vars => [SK!Registry!Next]_SK!Registry!vars
  <2> SUFFICES ASSUME Inductive, [Next]_vars PROVE [SK!Registry!Next]_SK!Registry!vars
    OBVIOUS
  <2>1. KeyProofs!Inductive /\ [KeyProofs!Next]_KeyProofs!vars
    BY StepOfKeys, SameInvariant, SameNext DEF Inductive, keyVars, KeyProofs!vars
  <2>2. [KeyProofs!Registry!Next]_KeyProofs!Registry!vars
    BY <2>1, KeyProofs!StepRefines, PairsAssumption, NoValueAssumption
  <2> QED
    BY <2>2 DEF SK!Registry!Next, SK!Registry!Add, SK!Registry!Remove, SK!Registry!Reconfigure,
                SK!Registry!Row, SK!Registry!vars, SK!Rows, SK!RowOf, SK!Used,
                KeyProofs!Registry!Next, KeyProofs!Registry!Add, KeyProofs!Registry!Remove,
                KeyProofs!Registry!Reconfigure, KeyProofs!Registry!Row, KeyProofs!Registry!vars,
                KeyProofs!Rows, KeyProofs!RowOf, KeyProofs!Used
<1>3. Init => SK!Init
  BY DEF Init
<1> QED
  BY <1>1, <1>2, <1>3, InductiveInvariant, PTL
     DEF Spec, SK!ImplementsRegistry, SK!Registry!Spec
==============================================================================
