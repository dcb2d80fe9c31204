---------------------------- MODULE StartupProofs ----------------------------
(***************************************************************************)
(* Theorems about Startup, for every set of texts and every configuration. *)
(***************************************************************************)
EXTENDS Startup, TLAPS

(* resolve finds what the documented order of the sources provides.        *)
LEMMA ResolveProvides ==
  ASSUME NEW n \in Names, NEW v, v # NoValue
  PROVE  Provided(n, v) <=> v = Resolve(n)
BY TextsAssumption DEF Provided, Resolve, FromFile, Default, Texts

(* ... which is a text or nothing.                                         *)
LEMMA ResolveType ==
  ASSUME TypeOK, NEW n \in Names
  PROVE  Resolve(n) \in Texts \cup {NoValue}
BY DEF TypeOK, Resolve, FromFile, Default, Texts

(* A configuration the validation has nothing against is a complete one.   *)
LEMMA ValidatedIsConfigured ==
  ASSUME TypeOK
  PROVE  Configured <=> Missing = {} /\ Resolve("STORAGE_SECRET") \in LongEnough
<1>1. Required \subseteq Names /\ "STORAGE_SECRET" \in Required
  BY DEF Required, Names
<1>2. ASSUME NEW n \in Required
      PROVE  (\E v \in Texts \ {Empty} : Provided(n, v)) <=> Resolve(n) \notin {NoValue, Empty}
  <2>1. \A v \in Texts \ {Empty} : v # NoValue
    BY TextsAssumption
  <2>2. \A v \in Texts \ {Empty} : Provided(n, v) <=> v = Resolve(n)
    BY <1>1, <2>1, ResolveProvides
  <2> QED
    BY <1>1, <2>1, <2>2, ResolveType
<1>3. (\E v \in LongEnough : Provided("STORAGE_SECRET", v))
        <=> Resolve("STORAGE_SECRET") \in LongEnough
  <2>1. \A v \in LongEnough : v # NoValue
    BY TextsAssumption
  <2>2. \A v \in LongEnough : Provided("STORAGE_SECRET", v) <=> v = Resolve("STORAGE_SECRET")
    BY <1>1, <2>1, ResolveProvides
  <2> QED
    BY <2>2
<1> QED
  BY <1>2, <1>3 DEF Configured, Missing

(* No process has started.                                                 *)
LEMMA InitInductive == Init => Inductive
BY DEF Init, Inductive, TypeOK, StartHasRead, FaultsAreReal, Starting

(* A process begins with what the file says, or not at all.                *)
LEMMA LoadStep == Inductive /\ Load => Inductive'
BY DEF Inductive, TypeOK, StartHasRead, FaultsAreReal, Load, Forget, Starting, Faults, Providers,
       config

(* While a process is there nobody edits its configuration, so what        *)
(* resolve finds stays the same.                                           *)
LEMMA SameConfiguration ==
  ASSUME UNCHANGED config
  PROVE  (\A n \in Names : Resolve(n)' = Resolve(n)) /\ Missing' = Missing
BY DEF config, Resolve, FromFile, Default, Missing

(* A provider keeps what it read.                                          *)
LEMMA BuildStep ==
  ASSUME Inductive, BuildCrypto \/ BuildJwtStrategy \/ OpenDatabase
  PROVE  Inductive'
<1>1. UNCHANGED config /\ stage = "providers"
  BY DEF BuildCrypto, BuildJwtStrategy, OpenDatabase, Build
<1>2. /\ \A n \in Required : Resolve(n)' = Resolve(n) /\ Resolve(n) \in Texts \cup {NoValue}
      /\ {"STORAGE_SECRET", "STORAGE_DIR", "JWT_SECRET"} \subseteq Required
  BY <1>1, SameConfiguration, ResolveType DEF Inductive, Names, Required
<1>3. TypeOK'
  BY <1>1, <1>2 DEF Inductive, TypeOK, BuildCrypto, BuildJwtStrategy, OpenDatabase, Build, Goto,
                    Fail, Starting, Faults, Providers, config
<1>4. StartHasRead'
  BY <1>1, <1>2 DEF Inductive, StartHasRead, BuildCrypto, BuildJwtStrategy, OpenDatabase, Build,
                    Goto, Fail, Starting, config
<1>5. FaultsAreReal'
  BY <1>1, <1>2 DEF FaultsAreReal, BuildCrypto, BuildJwtStrategy, OpenDatabase, Build, Goto, Fail
<1> QED
  BY <1>3, <1>4, <1>5 DEF Inductive

(* The hooks and listen go on, or say what is wrong.                       *)
LEMMA HookStep ==
  ASSUME Inductive, AllBuilt \/ Validate \/ Bootstrap \/ Listen \/ FailOutside
  PROVE  Inductive'
<1>1. UNCHANGED <<config, built, aesKey, database>> /\ stage \in Starting
  BY DEF AllBuilt, Validate, Bootstrap, Listen, FailOutside, Starting
<1>2. /\ \A n \in Names : Resolve(n)' = Resolve(n)
      /\ Missing' = Missing
      /\ {"STORAGE_SECRET", "STORAGE_DIR", "PORT"} \subseteq Names
  BY <1>1, SameConfiguration DEF Names, Required
<1>3. TypeOK'
  BY <1>1 DEF Inductive, TypeOK, AllBuilt, Validate, Bootstrap, Listen, FailOutside, Goto, Fail,
              Starting, Faults, config
<1>4. StartHasRead'
  BY <1>1, <1>2 DEF Inductive, StartHasRead, AllBuilt, Validate, Bootstrap, Listen, FailOutside,
                    Goto, Fail, Starting, config
<1>5. FaultsAreReal'
  BY <1>1, <1>2 DEF FaultsAreReal, AllBuilt, Validate, Bootstrap, Listen, FailOutside, Goto, Fail
<1> QED
  BY <1>3, <1>4, <1>5 DEF Inductive

(* Without a process nothing has been read.                                *)
LEMMA OutsideStep ==
  ASSUME Inductive, Stop \/ Edit
  PROVE  Inductive'
<1>1. TypeOK'
  BY DEF Inductive, TypeOK, Stop, Edit, Forget, config
<1>2. StartHasRead' /\ FaultsAreReal'
  BY DEF StartHasRead, FaultsAreReal, Stop, Edit, Starting
<1> QED
  BY <1>1, <1>2 DEF Inductive

(* Every step keeps the invariant.                                         *)
LEMMA StepInductive == Inductive /\ [Next]_vars => Inductive'
<1> SUFFICES ASSUME Inductive, [Next]_vars PROVE Inductive'
  OBVIOUS
<1>1. CASE UNCHANGED vars
  <2>1. UNCHANGED config
    BY <1>1 DEF vars
  <2>2. /\ \A n \in Names : Resolve(n)' = Resolve(n)
        /\ Missing' = Missing
        /\ {"STORAGE_SECRET", "STORAGE_DIR", "JWT_SECRET", "PORT"} \subseteq Names
    BY <2>1, SameConfiguration DEF Names, Required
  <2> QED
    BY <1>1, <2>2 DEF Inductive, TypeOK, StartHasRead, FaultsAreReal, vars, config
<1> QED
  BY <1>1, LoadStep, BuildStep, HookStep, OutsideStep DEF Next, StartUp

(* What a start has read agrees with its configuration in every reachable  *)
(* state.                                                                  *)
THEOREM InductiveInvariant == Spec => []Inductive
BY InitInductive, StepInductive, PTL DEF Spec

(* The variables of the start keep their types.                            *)
THEOREM TypeCorrect == Spec => []TypeOK
<1>1. Inductive => TypeOK
  BY DEF Inductive
<1> QED
  BY <1>1, InductiveInvariant, PTL

(* Although the AES key is derived and the database opened before the      *)
(* validation, they are used only if it has approved what they were made   *)
(* of.                                                                     *)
THEOREM UsedOnlyIfConfigured == Spec => []ConfiguredBeforeUse
<1>1. Inductive => ConfiguredBeforeUse
  <2> SUFFICES ASSUME Inductive, stage \in {"bootstrap", "listen", "listening"}
               PROVE  /\ readable /\ Configured
                      /\ Provided("STORAGE_SECRET", aesKey)
                      /\ Provided("STORAGE_DIR", database)
    BY DEF ConfiguredBeforeUse
  <2>1. readable /\ Configured
    BY ValidatedIsConfigured DEF Inductive, StartHasRead, Starting
  <2>2. aesKey = Resolve("STORAGE_SECRET") /\ database = Resolve("STORAGE_DIR")
    BY DEF Inductive, StartHasRead, Starting, Providers
  <2>3. aesKey # NoValue /\ database # NoValue
    BY <2>2 DEF Inductive, StartHasRead, Starting, Missing, Required
  <2> QED
    BY <2>1, <2>2, <2>3, ResolveProvides DEF Names, Required
<1> QED
  BY <1>1, InductiveInvariant, PTL

(* A refusal has a reason in the configuration, for every configuration.   *)
THEOREM RefusalsAreJust == Spec => []RefusedOnlyIfMisconfigured
<1>1. Inductive => RefusedOnlyIfMisconfigured
  <2> SUFFICES ASSUME Inductive, stage = "failed", cause # "outside", readable, Configured,
                      NEW v \in PortNumbers, Provided("PORT", v)
               PROVE  FALSE
    BY DEF RefusedOnlyIfMisconfigured
  <2>1. Missing = {} /\ Resolve("STORAGE_SECRET") \in LongEnough
    BY ValidatedIsConfigured DEF Inductive
  <2>2. Resolve("PORT") = v
    BY ResolveProvides, TextsAssumption DEF Names
  <2>3. \A n \in Required : Resolve(n) \notin {NoValue, Empty}
    BY <2>1 DEF Missing
  <2> QED
    BY <2>1, <2>2, <2>3 DEF Inductive, FaultsAreReal, Required
<1> QED
  BY <1>1, InductiveInvariant, PTL
===============================================================================
