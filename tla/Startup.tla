------------------------------- MODULE Startup -------------------------------
(***************************************************************************)
(* The start of the server: ConfigService (src/src/config) finds each      *)
(* value in the environment, in config.toml or in a default; Nest builds   *)
(* the providers, some of which read values at once, then runs the         *)
(* onModuleInit hooks, of which that of ConfigService, in a global module, *)
(* is the first and validates the values; then main.ts listens.            *)
(*                                                                         *)
(* Between two starts an administrator edits the environment and the file. *)
(* Of a text it matters whether it is empty, long enough for a secret and  *)
(* a port number.  ISSUER_BASE_URL is optional and not used by the start.  *)
(***************************************************************************)
CONSTANTS
  EnvTexts, TomlTexts,  \* what a variable or a key of config.toml may hold
  Empty,                \* the text ''
  LongEnough,           \* the texts of 32 characters or more
  PortNumbers,          \* the texts parseInt makes a port of
  DefaultPort,          \* '3000'
  NoValue               \* undefined

Texts == EnvTexts \cup TomlTexts \cup {DefaultPort}

ASSUME TextsAssumption ==
  /\ Empty \notin LongEnough \cup PortNumbers \cup {DefaultPort}
  /\ NoValue \notin Texts \cup LongEnough \cup PortNumbers \cup {Empty}
  /\ DefaultPort \in PortNumbers

Required == {"STORAGE_DIR", "STORAGE_SECRET", "JWT_SECRET"}
Names == Required \cup {"PORT"}

VARIABLES
  env,       \* process.env
  toml,      \* the keys of config.toml
  readable,  \* whether config.toml parses
  stage,     \* how far the start has come
  cause,     \* what ended it
  built,     \* the providers that are there
  aesKey,    \* what CryptoService derived its key from
  database   \* the directory issuer.sqlite was opened in

config == <<env, toml, readable>>
vars == <<config, stage, cause, built, aesKey, database>>

Providers == {"CryptoService", "JwtStrategy", "DatabaseModule"}
Starting  == {"providers", "validate", "bootstrap", "listen"}
Faults    == {"toml", "STORAGE_SECRET", "JWT_SECRET", "STORAGE_DIR", "missing", "short", "port"}

TypeOK ==
  /\ env \in [Names -> EnvTexts \cup {NoValue}]
  /\ toml \in [Names -> TomlTexts \cup {NoValue}]
  /\ readable \in BOOLEAN
  /\ stage \in {"stopped", "failed", "listening"} \cup Starting
  /\ cause \in Faults \cup {"outside", NoValue}
  /\ built \subseteq Providers
  /\ aesKey \in Texts \cup {NoValue}
  /\ database \in Texts \cup {NoValue}

Init ==
  /\ env \in [Names -> EnvTexts \cup {NoValue}]
  /\ toml \in [Names -> TomlTexts \cup {NoValue}]
  /\ readable \in BOOLEAN
  /\ stage = "stopped"
  /\ cause = NoValue
  /\ built = {}
  /\ aesKey = NoValue
  /\ database = NoValue

-------------------------------------------------------------------------------
(* ConfigService *)

(* Mutant: a value that is missing becomes a number.                       *)
DefaultZero(n) == IF n = "PORT" THEN DefaultPort ELSE 0

Default(n) == IF n = "PORT" THEN DefaultPort ELSE NoValue

FromFile(n) == IF toml[n] # NoValue THEN toml[n] ELSE Default(n)

(* Mutant: a variable that is set but empty counts.                        *)
ResolveIfSet(n) == IF env[n] # NoValue THEN env[n] ELSE FromFile(n)

Resolve(n) == IF env[n] \notin {NoValue, Empty} THEN env[n] ELSE FromFile(n)

Missing == {n \in Required : Resolve(n) \in {NoValue, Empty}}

Goto(where) == stage' = where /\ UNCHANGED cause

Fail(why) == stage' = "failed" /\ cause' = why

(* What a process has built goes with it.                                  *)
Forget == built' = {} /\ aesKey' = NoValue /\ database' = NoValue

(* The process starts and ConfigService is constructed.                    *)
Load ==
  /\ stage \in {"stopped", "failed"}
  /\ stage' = IF readable THEN "providers" ELSE "failed"
  /\ cause' = IF readable THEN NoValue ELSE "toml"
  /\ Forget
  /\ UNCHANGED config

-------------------------------------------------------------------------------
(* The providers, in the order the injector comes to them.                 *)

Build(p) ==
  /\ stage = "providers"
  /\ p \notin built
  /\ built' = built \cup {p}
  /\ UNCHANGED config

(* Buffer.from rejects undefined, and takes an empty or a short secret.    *)
BuildCrypto ==
  /\ Build("CryptoService")
  /\ aesKey' = Resolve("STORAGE_SECRET")
  /\ IF aesKey' = NoValue THEN Fail("STORAGE_SECRET") ELSE Goto("providers")
  /\ UNCHANGED database

(* passport-jwt rejects undefined and the empty text.                      *)
BuildJwtStrategy ==
  /\ Build("JwtStrategy")
  /\ IF Resolve("JWT_SECRET") \in {NoValue, Empty} THEN Fail("JWT_SECRET") ELSE Goto("providers")
  /\ UNCHANGED <<aesKey, database>>

(* path.resolve rejects undefined; of the empty text it makes the current  *)
(* directory.  The driver creates the directory if there is none.          *)
OpenDatabase ==
  /\ Build("DatabaseModule")
  /\ database' = Resolve("STORAGE_DIR")
  /\ IF database' = NoValue THEN Fail("STORAGE_DIR") ELSE Goto("providers")
  /\ UNCHANGED aesKey

AllBuilt ==
  /\ stage = "providers"
  /\ built = Providers
  /\ Goto("validate")
  /\ UNCHANGED <<config, built, aesKey, database>>

-------------------------------------------------------------------------------
(* The hooks *)

(* Mutant: the length of the secret is not looked at.                      *)
ValidateMissing ==
  /\ stage = "validate"
  /\ IF Missing # {} THEN Fail("missing") ELSE Goto("bootstrap")
  /\ UNCHANGED <<config, built, aesKey, database>>

Validate ==
  /\ stage = "validate"
  /\ IF Missing # {} THEN Fail("missing")
     ELSE IF Resolve("STORAGE_SECRET") \notin LongEnough THEN Fail("short")
     ELSE Goto("bootstrap")
  /\ UNCHANGED <<config, built, aesKey, database>>

(* AdminAuthService has found or created the administrator, see AdminAuth. *)
Bootstrap ==
  /\ stage = "bootstrap"
  /\ Goto("listen")
  /\ UNCHANGED <<config, built, aesKey, database>>

(* Mutant: the exception of listen is swallowed and the process lingers.   *)
ListenQuietly ==
  /\ stage = "listen"
  /\ Resolve("PORT") \in PortNumbers
  /\ Goto("listening")
  /\ UNCHANGED <<config, built, aesKey, database>>

Listen ==
  /\ stage = "listen"
  /\ IF Resolve("PORT") \in PortNumbers THEN Goto("listening") ELSE Fail("port")
  /\ UNCHANGED <<config, built, aesKey, database>>

(* The database does not open, the directory cannot be created, the hook   *)
(* of AdminAuthService throws, the port is taken.                          *)
FailOutside ==
  /\ stage \in Starting
  /\ Fail("outside")
  /\ UNCHANGED <<config, built, aesKey, database>>

-------------------------------------------------------------------------------
Stop ==
  /\ stage \in Starting \cup {"listening"}
  /\ stage' = "stopped"
  /\ Forget
  /\ UNCHANGED <<config, cause>>

(* Nobody edits under a process: it has read the file and has its own      *)
(* environment.                                                            *)
Edit ==
  /\ stage \in {"stopped", "failed"}
  /\ stage' = "stopped"
  /\ cause' = NoValue
  /\ \/ \E n \in Names, v \in EnvTexts \cup {NoValue} :
          env' = [env EXCEPT ![n] = v] /\ UNCHANGED <<toml, readable>>
     \/ \E n \in Names, v \in TomlTexts \cup {NoValue} :
          toml' = [toml EXCEPT ![n] = v] /\ UNCHANGED <<env, readable>>
     \/ readable' = ~readable /\ UNCHANGED <<env, toml>>
  /\ Forget

StartUp ==
  \/ BuildCrypto \/ BuildJwtStrategy \/ OpenDatabase \/ AllBuilt
  \/ Validate \/ Bootstrap \/ Listen

Next == Load \/ StartUp \/ FailOutside \/ Stop \/ Edit

Spec == Init /\ [][Next]_vars

(* A start goes on by itself; it need not be made, and may be stopped.     *)
FairSpec == Spec /\ WF_vars(StartUp)

-------------------------------------------------------------------------------
(* Properties *)

(* config.service.ts:9-12: what provides a value is the environment if it  *)
(* holds a text that is not empty, or else the file; only the port has a   *)
(* default.                                                                *)
Provided(n, v) ==
  \/ v = env[n] /\ v # NoValue /\ v # Empty
  \/ env[n] \in {NoValue, Empty} /\ v = toml[n] /\ v # NoValue
  \/ env[n] \in {NoValue, Empty} /\ toml[n] = NoValue /\ n = "PORT" /\ v = DefaultPort

Configured ==
  /\ \A n \in Required : \E v \in Texts \ {Empty} : Provided(n, v)
  /\ \E v \in LongEnough : Provided("STORAGE_SECRET", v)

(* The administrator is created, and requests are answered, only under a   *)
(* configuration that is complete, with the key derived from the secret    *)
(* and the database in the directory that were validated after both had    *)
(* been read.                                                              *)
ConfiguredBeforeUse ==
  stage \in {"bootstrap", "listen", "listening"} =>
    /\ readable /\ Configured
    /\ Provided("STORAGE_SECRET", aesKey)
    /\ Provided("STORAGE_DIR", database)

(* No start is refused for a configuration there is nothing wrong with,    *)
(* from whichever source each value comes.                                 *)
RefusedOnlyIfMisconfigured ==
  stage = "failed" /\ cause # "outside" =>
    ~(readable /\ Configured /\ \E v \in PortNumbers : Provided("PORT", v))

(* Every start ends: with the server listening, or with an error.          *)
EveryStartEnds == stage \in Starting ~> stage \notin Starting

-------------------------------------------------------------------------------
(* The invariant behind them *)

(* What the start has read so far is what the configuration still says.    *)
StartHasRead ==
  stage \in Starting \cup {"listening"} =>
    /\ readable
    /\ stage # "providers" => built = Providers
    /\ "CryptoService" \in built => aesKey = Resolve("STORAGE_SECRET")
    /\ "DatabaseModule" \in built => database = Resolve("STORAGE_DIR")
    /\ stage \in {"bootstrap", "listen", "listening"} =>
         Missing = {} /\ Resolve("STORAGE_SECRET") \in LongEnough

FaultsAreReal ==
  stage = "failed" =>
    CASE cause = "toml"           -> ~readable
      [] cause = "STORAGE_SECRET" -> Resolve("STORAGE_SECRET") = NoValue
      [] cause = "JWT_SECRET"     -> Resolve("JWT_SECRET") \in {NoValue, Empty}
      [] cause = "STORAGE_DIR"    -> Resolve("STORAGE_DIR") = NoValue
      [] cause = "missing"        -> Missing # {}
      [] cause = "short"          -> Resolve("STORAGE_SECRET") \notin LongEnough
      [] cause = "port"           -> Resolve("PORT") \notin PortNumbers
      [] OTHER                    -> cause = "outside"

Inductive == TypeOK /\ StartHasRead /\ FaultsAreReal
===============================================================================
