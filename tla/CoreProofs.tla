----------------------------- MODULE CoreProofs -----------------------------
(***************************************************************************)
(* Proofs about the plugin's core, one component after the other: the      *)
(* module manager, the face exceptions, the settings store, the rows and   *)
(* frames of the telemetry, the lanes that count every operation, the      *)
(* hub's table of sources, and the lines of the log.                       *)
(***************************************************************************)
EXTENDS MCCore, FiniteSetTheorems, WellFoundedInduction, TLAPS

-----------------------------------------------------------------------------
(***************************************************************************)
(* ModuleManager: outcomes, tally, queues and the defended image agree     *)
(* for any modules, messages, registrations and listeners.                 *)
(*                                                                         *)
(* The inductive invariant ManagerInv adds to the four parts which call    *)
(* can be where (CallsFit), what can be registered by then                 *)
(* (RegisteredFit), that nothing is installed twice (InstalledOnce), that  *)
(* what has no outcome still waits for its stage (PendingFit), and what    *)
(* the defender saved of whom.  The tally is a count of outcomes, kept by  *)
(* one step at a time: a registration leaves one bucket and enters one.    *)
(***************************************************************************)
(* The inductive invariant.                                                *)

(* A call is querying or installing.                                       *)
Running == phase \in {"query", "install"}

(* Nothing is registered yet but what the preload stage registers.         *)
BeforeInit == ~isInit /\ call # "init"

(* Which call can be where, and what has come before it.                   *)
CallsFit ==
    /\ phase = "idle" <=> call = "none"
    /\ call \in {"preload", "init"} => Running /\ ~isInit
    /\ call = "preload" => ~isPreloadInit
    /\ call = "preload" \/ isPreloadInit => ~originalGame
    /\ phase \in {"query", "install", "listen"} /\ call \in Messages =>
          isInit /\ <<call, data>> \in arrived
    /\ Running /\ call \in Messages => ~isInstall
    /\ isInstall => isInit /\ <<"kGameLoaded", TRUE>> \in arrived
    /\ call \in Messages \ {"kGameDataReady", "kPostLoadGame"} => data
    /\ ~isInit => arrived = {}

(* What is registered, and where its modules are.                          *)
RegisteredFit ==
    /\ \A r \in Registrations :
          outcome[r] # "none" =>
              r \in Registered \cup PreloadRegistrations
    /\ BeforeInit =>
          /\ \A s \in Messages : pool[s] = {}
          /\ call # "preload" => pool["kLoad"] = {}
          /\ \A r \in Registrations :
                outcome[r] # "none" => r \in PreloadRegistrations /\ ~originalGame
    /\ BeforeInit /\ call # "preload" /\ ~isPreloadInit =>
          \A r \in Registrations : outcome[r] = "none"
    /\ \A r \in Registrations :
          r[1] \in pool[r[2]] \/ installs[r] > 0 => outcome[r] # "none"
    /\ Running => todo \subseteq pool[Stage]

(* A registration is installed once.                                       *)
InstalledOnce ==
    /\ Running =>
          \A m \in Modules :
              (phase = "query" /\ m \in pool[Stage] /\ (call \in Messages => data))
                \/ (phase = "install" /\ m \in todo)
                  => installs[<<m, Stage>>] = 0
    /\ phase = "install" /\ call \in Messages /\ todo # {} => data
    /\ \A r \in Registrations :
          r[2] \in Messages /\ installs[r] > 0 => <<r[2], TRUE>> \in arrived

(* A registration without an outcome waits for its stage, or is in it.     *)
PendingFit ==
    \A r \in Registrations : outcome[r] = "Pending" =>
        /\ r[1] \in pool[r[2]]
        /\ ~(phase = "query" /\ r[2] = Stage /\ r[1] \in refused)
        /\ r[2] = "kLoad" \/ <<r[2], TRUE>> \in arrived =>
              \/ isInstall /\ call # "kGameLoaded" /\ r[2] # "kLoad"
              \/ /\ Running /\ r[2] = Stage
                 /\ phase = "install" => r[1] \in todo
                 /\ call \in Messages => data

(* A module that was refused is out of its stage.                          *)
RefusedFit ==
    \A r \in Registrations : outcome[r] \in {"Disabled", "FailedQuery"} =>
        /\ r[1] \notin pool[r[2]] \/ (phase = "query" /\ r[2] = Stage /\ r[1] \in refused)
        /\ ~(Running /\ r[2] = Stage /\ r[1] \in todo)

(* The types but for the tally's.                                          *)
ManagerTypes ==
    /\ originalGame \in BOOLEAN
    /\ phase \in Phases /\ call \in Calls /\ data \in BOOLEAN
    /\ todo \subseteq Modules /\ refused \subseteq Modules
    /\ isPreloadInit \in BOOLEAN /\ isInit \in BOOLEAN /\ isInstall \in BOOLEAN
    /\ arrived \subseteq Messages \X BOOLEAN
    /\ pool \in [Stages -> SUBSET Modules]
    /\ outcome \in [Registrations -> Outcomes]
    /\ tally \in [Counted -> Nat]
    /\ patched \subseteq Modules /\ snapshot \subseteq Modules /\ taken \in BOOLEAN
    /\ installs \in [Registrations -> 0..1]
    /\ heard \subseteq Modules

ManagerInv ==
    /\ ManagerTypes /\ TallyIsOutcomes /\ DefendedImage
    /\ CallsFit /\ RegisteredFit /\ InstalledOnce /\ PendingFit /\ RefusedFit

-----------------------------------------------------------------------------
(* An outcome recorded.                                                    *)

(* The stage of the running call is one.                                   *)
LEMMA StageType == ASSUME ManagerTypes PROVE Stage \in Stages
BY RegistrationAssumption DEF ManagerTypes, Stage, Stages

(* There are finitely many registrations, and any of them can be counted.  *)
LEMMA RegistrationsFinite ==
    /\ IsFiniteSet(Registrations)
    /\ \A o \in Counted :
          /\ IsFiniteSet({r \in Registrations : outcome[r] = o})
          /\ Cardinality({r \in Registrations : outcome[r] = o}) \in 0..Cardinality(Registrations)
<1>1. IsFiniteSet(Stages)
  BY FS_Singleton, RegistrationAssumption, FS_Union DEF Stages
<1>2. IsFiniteSet(Registrations)
  BY <1>1, RegistrationAssumption, FS_Product DEF Registrations
<1>3. ASSUME NEW o \in Counted
      PROVE  /\ IsFiniteSet({r \in Registrations : outcome[r] = o})
             /\ Cardinality({r \in Registrations : outcome[r] = o}) \in 0..Cardinality(Registrations)
  <2> DEFINE T == {r \in Registrations : outcome[r] = o}
  <2>1. T \subseteq Registrations
    OBVIOUS
  <2> HIDE DEF T
  <2>2. IsFiniteSet(T) /\ Cardinality(T) <= Cardinality(Registrations)
    BY <1>2, <2>1, FS_Subset
  <2>3. Cardinality(T) \in Nat /\ Cardinality(Registrations) \in Nat
    BY <1>2, <2>2, FS_CardinalityType
  <2>4. IsFiniteSet(T) /\ Cardinality(T) \in 0..Cardinality(Registrations)
    BY <2>2, <2>3
  <2> QED BY <2>4 DEF T
<1> QED BY <1>2, <1>3

(* RecordOutcome changes the outcome of one registration and moves it from *)
(* one counter to another.                                                 *)
LEMMA OutcomeRecorded ==
    ASSUME ManagerTypes, TallyIsOutcomes, NEW m \in Modules, NEW o \in Counted,
           RecordOutcome(m, o)
    PROVE  /\ <<m, Stage>> \in Registrations
           /\ outcome' \in [Registrations -> Outcomes]
           /\ outcome'[<<m, Stage>>] = o
           /\ \A r \in Registrations : r # <<m, Stage>> => outcome'[r] = outcome[r]
           /\ tally' \in [Counted -> Nat]
           /\ TallyIsOutcomes'
<1> DEFINE r0 == <<m, Stage>>
           old == outcome[r0]
<1>1. r0 \in Registrations
  BY StageType DEF Registrations
<1>2. outcome' = [outcome EXCEPT ![r0] = o] /\ outcome \in [Registrations -> Outcomes] /\ o \in Outcomes
  BY DEF RecordOutcome, ManagerTypes, Outcomes
<1>3. tally \in [Counted -> Nat]
  BY DEF ManagerTypes
<1>4. tally' = [c \in Counted |->
              (IF c = old /\ tally[c] > 0 THEN tally[c] - 1 ELSE tally[c])
                + (IF c = o THEN 1 ELSE 0)]
  BY DEF RecordOutcome
<1> HIDE DEF r0
<1>5. /\ outcome' \in [Registrations -> Outcomes] /\ outcome'[r0] = o
      /\ \A r \in Registrations : r # r0 => outcome'[r] = outcome[r]
  BY <1>1, <1>2
<1>6. \A c \in Counted :
         tally'[c] = (IF c = old /\ tally[c] > 0 THEN tally[c] - 1 ELSE tally[c])
                       + (IF c = o THEN 1 ELSE 0)
  BY <1>4
<1>7. tally' \in [Counted -> Nat]
  BY <1>3, <1>4
<1>8. ASSUME NEW c \in Counted
      PROVE  tally'[c] = Cardinality({r \in Registrations : outcome'[r] = c})
  <2> DEFINE T == {r \in Registrations : outcome[r] = c}
             U == {r \in Registrations : outcome'[r] = c}
  <2>1. tally[c] = Cardinality(T) /\ tally[c] \in Nat
    BY <1>3 DEF TallyIsOutcomes
  <2>2. IsFiniteSet(T)
    BY RegistrationsFinite
  <2> SUFFICES tally'[c] = Cardinality(U)
    OBVIOUS
  <2>3. CASE old = c /\ o = c
    <3>1. U = T /\ r0 \in T
      BY <1>1, <1>5, <2>3
    <3> HIDE DEF T, U, old
    <3>2. tally[c] > 0
      BY <2>1, <2>2, <3>1, FS_EmptySet
    <3>3. tally'[c] = (tally[c] - 1) + 1
      BY <1>6, <2>3, <3>2
    <3> QED BY <2>1, <3>1, <3>3
  <2>4. CASE old = c /\ o # c
    <3>1. U = T \ {r0} /\ r0 \in T
      BY <1>1, <1>5, <2>4
    <3> HIDE DEF T, U, old
    <3>2. tally[c] > 0
      BY <2>1, <2>2, <3>1, FS_EmptySet
    <3>3. Cardinality(U) = Cardinality(T) - 1
      BY <2>2, <3>1, FS_RemoveElement
    <3>4. tally'[c] = (tally[c] - 1) + 0
      BY <1>6, <2>4, <3>2
    <3> QED BY <2>1, <3>3, <3>4
  <2>5. CASE old # c /\ o = c
    <3>1. U = T \cup {r0} /\ r0 \notin T
      BY <1>1, <1>5, <2>5
    <3> HIDE DEF T, U, old
    <3>2. Cardinality(U) = Cardinality(T) + 1
      BY <2>2, <3>1, FS_AddElement
    <3>3. tally'[c] = tally[c] + 1
      BY <1>6, <2>5
    <3> QED BY <2>1, <3>2, <3>3
  <2>6. CASE old # c /\ o # c
    <3>1. U = T
      BY <1>1, <1>5, <2>6
    <3> HIDE DEF T, U, old
    <3>2. tally'[c] = tally[c] + 0
      BY <1>6, <2>6
    <3> QED BY <2>1, <3>1, <3>2
  <2> QED BY <2>3, <2>4, <2>5, <2>6
<1> QED BY <1>1, <1>5, <1>7, <1>8 DEF r0, TallyIsOutcomes

(* What a module's query changes.                                          *)
LEMMA Queried ==
    ASSUME ManagerInv, NEW m \in Modules, QueryModule(m)
    PROVE  /\ phase = "query" /\ m \in todo /\ m \in pool[Stage]
           /\ todo' = todo \ {m} /\ refused' \subseteq Modules
           /\ refused \subseteq refused'
           /\ UNCHANGED <<phase, call, data, startVars, pool, imageVars, installs, heard>>
           /\ Stage' = Stage /\ <<m, Stage>> \in Registrations
           /\ outcome' \in [Registrations -> Outcomes] /\ tally' \in [Counted -> Nat]
           /\ TallyIsOutcomes'
           /\ \A r \in Registrations : r # <<m, Stage>> => outcome'[r] = outcome[r]
           /\ \/ UNCHANGED <<outcome, refused>>
              \/ /\ refused' = refused \cup {m}
                 /\ outcome'[<<m, Stage>>] \in {"Disabled", "Skipped", "FailedQuery"}
<1> USE DEF ManagerInv, ManagerTypes
<1>1. /\ phase = "query" /\ m \in todo /\ todo' = todo \ {m}
      /\ refused' \in {refused, refused \cup {m}}
      /\ UNCHANGED <<phase, call, data, startVars, pool, imageVars, installs, heard>>
  BY DEF QueryModule
<1>2. m \in pool[Stage] /\ Stage' = Stage /\ <<m, Stage>> \in Registrations
  BY <1>1, StageType DEF RegisteredFit, Running, Stage, Registrations
<1>3. CASE UNCHANGED <<recordVars, refused>>
  BY <1>1, <1>2, <1>3 DEF recordVars, TallyIsOutcomes
<1>4. ASSUME NEW o \in {"Disabled", "Skipped", "FailedQuery"}, RecordOutcome(m, o),
             refused' = refused \cup {m}
      PROVE  /\ outcome' \in [Registrations -> Outcomes] /\ tally' \in [Counted -> Nat]
             /\ TallyIsOutcomes'
             /\ outcome'[<<m, Stage>>] = o
             /\ \A r \in Registrations : r # <<m, Stage>> => outcome'[r] = outcome[r]
             /\ m \in refused'
  <2>1. o \in Counted
    BY DEF Counted
  <2> HIDE DEF ManagerTypes
  <2> QED BY <1>4, <2>1, OutcomeRecorded
<1>5. \/ UNCHANGED <<recordVars, refused>>
      \/ \E o \in {"Disabled", "Skipped", "FailedQuery"} :
            RecordOutcome(m, o) /\ refused' = refused \cup {m}
  BY DEF QueryModule
<1>6. /\ refused' \subseteq Modules /\ refused \subseteq refused'
  BY <1>1
<1>8. UNCHANGED <<recordVars, refused>> => UNCHANGED <<outcome, refused>>
  BY DEF recordVars
<1> HIDE DEF ManagerInv, ManagerTypes
<1>7. ASSUME NEW o \in {"Disabled", "Skipped", "FailedQuery"}, RecordOutcome(m, o),
             refused' = refused \cup {m}
      PROVE  /\ outcome' \in [Registrations -> Outcomes] /\ tally' \in [Counted -> Nat]
             /\ TallyIsOutcomes'
             /\ \A r \in Registrations : r # <<m, Stage>> => outcome'[r] = outcome[r]
             /\ outcome'[<<m, Stage>>] \in {"Disabled", "Skipped", "FailedQuery"}
  BY <1>4, <1>7
<1> QED BY <1>1, <1>2, <1>3, <1>5, <1>6, <1>7, <1>8

(* f counts one more at r than e, and elsewhere what e counts.             *)
OneMore(e, f, r) ==
    /\ f \in [Registrations -> Nat]
    /\ f[r] = e[r] + 1
    /\ \A q \in Registrations : q # r => f[q] = e[q]

(* What a module's installation changes.                                   *)
LEMMA InstalledOrNot ==
    ASSUME ManagerInv, NEW m \in Modules, InstallModule(m)
    PROVE  /\ phase = "install" /\ m \in todo /\ m \in pool[Stage]
           /\ todo' = todo \ {m}
           /\ UNCHANGED <<phase, call, data, refused, startVars, pool, heard>>
           /\ Stage' = Stage /\ <<m, Stage>> \in Registrations
           /\ outcome' \in [Registrations -> Outcomes] /\ tally' \in [Counted -> Nat]
           /\ TallyIsOutcomes'
           /\ patched' \subseteq Modules /\ snapshot' \subseteq Modules /\ taken' \in BOOLEAN
           /\ \A r \in Registrations : r # <<m, Stage>> => outcome'[r] = outcome[r]
           /\ \/ /\ outcome'[<<m, Stage>>] = "Installed" /\ patched' = patched \cup {m}
                 /\ OneMore(installs, installs', <<m, Stage>>)
              \/ /\ outcome'[<<m, Stage>>] \in {"Skipped", "FailedInstall"}
                 /\ \/ patched' = patched
                    \/ m \notin Defended /\ patched' = patched \cup {m}
                 /\ UNCHANGED installs
<1> USE DEF ManagerInv, ManagerTypes
<1>1. /\ phase = "install" /\ m \in todo /\ todo' = todo \ {m}
      /\ UNCHANGED <<phase, call, data, refused, startVars, pool, heard>>
      /\ snapshot' \in {patched, snapshot} /\ (m \in Defended => snapshot' = patched)
  BY DEF InstallModule, TakeSnapshot
<1>2. m \in pool[Stage] /\ Stage' = Stage /\ <<m, Stage>> \in Registrations
  BY <1>1, StageType DEF RegisteredFit, Running, Stage, Registrations
<1>3. \E o \in {"Installed", "Skipped", "FailedInstall"} :
         /\ RecordOutcome(m, o)
         /\ \/ /\ o = "Installed" /\ patched' = patched \cup {m}
               /\ taken' \in BOOLEAN
               /\ installs' = [installs EXCEPT ![<<m, Stage>>] = @ + 1]
            \/ /\ o # "Installed" /\ UNCHANGED installs /\ taken' \in BOOLEAN
               /\ \/ patched' = patched
                  \/ m \notin Defended /\ patched' = patched \cup {m}
  <2> HIDE DEF ManagerInv
  <2>1. taken \in BOOLEAN
    BY DEF ManagerInv
  <2>2. CASE /\ RecordOutcome(m, "Installed")
             /\ patched' = patched \cup {m}
             /\ taken' = (taken \/ m \in Defended)
             /\ installs' = [installs EXCEPT ![<<m, Stage>>] = @ + 1]
    BY <2>2, <2>1
  <2>3. CASE /\ \E o \in {"Skipped", "FailedInstall"} : RecordOutcome(m, o)
             /\ AfterFailure(m)
             /\ UNCHANGED installs
    <3>1. PICK o \in {"Skipped", "FailedInstall"} : RecordOutcome(m, o)
      BY <2>3
    <3>2. /\ taken' \in BOOLEAN
          /\ \/ patched' = patched
             \/ m \notin Defended /\ patched' = patched \cup {m}
      BY <1>1, <2>1, <2>3 DEF AfterFailure
    <3>3. o # "Installed" /\ o \in {"Installed", "Skipped", "FailedInstall"}
      OBVIOUS
    <3> HIDE DEF ManagerTypes
    <3> QED BY <2>3, <3>1, <3>2, <3>3
  <2> QED BY <2>2, <2>3 DEF InstallModule
<1>4. ASSUME NEW o \in {"Installed", "Skipped", "FailedInstall"}, RecordOutcome(m, o)
      PROVE  /\ outcome' \in [Registrations -> Outcomes] /\ tally' \in [Counted -> Nat]
             /\ TallyIsOutcomes'
             /\ outcome'[<<m, Stage>>] = o
             /\ \A r \in Registrations : r # <<m, Stage>> => outcome'[r] = outcome[r]
  <2>1. o \in Counted
    BY DEF Counted
  <2> HIDE DEF ManagerTypes
  <2> QED BY <1>4, <2>1, OutcomeRecorded
<1>6. installs' = [installs EXCEPT ![<<m, Stage>>] = @ + 1] =>
         OneMore(installs, installs', <<m, Stage>>)
  <2> DEFINE r0 == <<m, Stage>>
  <2> HIDE DEF r0
  <2>1. installs' = [installs EXCEPT ![r0] = @ + 1] /\ r0 \in Registrations => OneMore(installs, installs', r0)
    BY DEF OneMore
  <2> QED BY <2>1, <1>2 DEF r0
<1>5. patched \subseteq Modules /\ snapshot \subseteq Modules
  OBVIOUS
<1> HIDE DEF ManagerInv, ManagerTypes
<1> QED BY <1>1, <1>2, <1>3, <1>4, <1>5, <1>6

(* What is registered at the load stage has been installed by no call.     *)
LEMMA NewlyRegistered ==
    ASSUME ManagerInv, BeforeInit, call = "none", NEW m \in Modules,
           \/ ~isPreloadInit /\ <<m, "kLoad">> \in Registered \cup PreloadRegistrations
           \/ ~originalGame /\ <<m, "kLoad">> \in Registered
    PROVE  outcome[<<m, "kLoad">>] = "none" /\ installs[<<m, "kLoad">>] = 0
  BY RegistrationAssumption DEF Registrations, Stages, ManagerInv, RegisteredFit,
     PreloadRegistrations, BeforeInit, ManagerTypes

-----------------------------------------------------------------------------
(* Every step keeps each part.                                             *)

(* Every step keeps the types.                                             *)
LEMMA ManagerTypesKept == ManagerInv /\ ManagerNext => ManagerTypes'
<1> SUFFICES ASSUME ManagerInv, ManagerNext PROVE ManagerTypes'
  OBVIOUS
<1> USE RegistrationAssumption DEF ManagerInv, ManagerTypes, CallsFit, RegisteredFit,
    InstalledOnce, PendingFit, RefusedFit, Running, BeforeInit, Stage, Stages,
    Registrations, Counted, Outcomes, Phases, Calls, PreloadRegistrations, RecordOutcome,
    TakeSnapshot, AfterFailure, loopVars, recordVars, imageVars
<1>1. ASSUME PreloadInit PROVE ManagerTypes'
  BY <1>1 DEF PreloadInit, Register, Query, startVars
<1>2. ASSUME PluginInit PROVE ManagerTypes'
  BY <1>2 DEF PluginInit, Register, Query, startVars
<1>3. ASSUME NEW msg \in Messages, NEW datum \in BOOLEAN, Message(msg, datum) PROVE ManagerTypes'
  BY <1>3 DEF Message, Query
<1>4. ASSUME NEW mod \in Modules, QueryModule(mod) PROVE ManagerTypes'
  <2> HIDE DEF ManagerInv, RecordOutcome, Registrations, Stage, Stages, ManagerTypes,
      ManagerTypes, Running, Outcomes, Counted
  <2>1. /\ phase = "query" /\ mod \in todo /\ mod \in pool[Stage]
        /\ todo' = todo \ {mod} /\ refused' \subseteq Modules
        /\ refused \subseteq refused'
        /\ UNCHANGED <<phase, call, data, startVars, pool, imageVars, installs, heard>>
        /\ Stage' = Stage /\ <<mod, Stage>> \in Registrations
        /\ outcome' \in [Registrations -> Outcomes] /\ tally' \in [Counted -> Nat]
        /\ \A r \in Registrations : r # <<mod, Stage>> => outcome'[r] = outcome[r]
        /\ \/ UNCHANGED <<outcome, refused>>
           \/ /\ refused' = refused \cup {mod}
              /\ outcome'[<<mod, Stage>>] \in {"Disabled", "Skipped", "FailedQuery"}
    BY <1>4, Queried
  <2>2. ManagerTypes /\ RegisteredFit /\ PendingFit /\ RefusedFit /\ CallsFit
    BY DEF ManagerInv
  <2> QED BY <2>1, <2>2 DEF ManagerTypes, Running, startVars
<1>5. ASSUME NEW mod \in Modules, InstallModule(mod) PROVE ManagerTypes'
  <2> HIDE DEF ManagerInv, RecordOutcome, Registrations, Stage, Stages, ManagerTypes,
      ManagerTypes, Running, Outcomes, Counted
  <2>1. /\ phase = "install" /\ mod \in todo /\ mod \in pool[Stage]
        /\ todo' = todo \ {mod}
        /\ UNCHANGED <<phase, call, data, refused, startVars, pool, heard>>
        /\ Stage' = Stage /\ <<mod, Stage>> \in Registrations
        /\ outcome' \in [Registrations -> Outcomes] /\ tally' \in [Counted -> Nat]
        /\ patched' \subseteq Modules /\ snapshot' \subseteq Modules /\ taken' \in BOOLEAN
        /\ \A r \in Registrations : r # <<mod, Stage>> => outcome'[r] = outcome[r]
        /\ \/ /\ outcome'[<<mod, Stage>>] = "Installed" /\ patched' = patched \cup {mod}
              /\ OneMore(installs, installs', <<mod, Stage>>)
           \/ /\ outcome'[<<mod, Stage>>] \in {"Skipped", "FailedInstall"}
              /\ \/ patched' = patched
                 \/ mod \notin Defended /\ patched' = patched \cup {mod}
              /\ UNCHANGED installs
    BY <1>5, InstalledOrNot
  <2>2. ManagerTypes /\ RegisteredFit /\ PendingFit /\ RefusedFit /\ CallsFit /\ InstalledOnce /\ DefendedImage
    BY DEF ManagerInv
  <2> QED BY <2>1, <2>2 DEF ManagerTypes, Running, startVars, OneMore
<1>6. ASSUME QueryDone PROVE ManagerTypes'
  BY <1>6 DEF QueryDone, startVars
<1>7. ASSUME PreloadDone PROVE ManagerTypes'
  BY <1>7 DEF PreloadDone
<1>8. ASSUME InitDone PROVE ManagerTypes'
  BY <1>8 DEF InitDone
<1>9. ASSUME MessageDone PROVE ManagerTypes'
  BY <1>9 DEF MessageDone
<1>10. ASSUME Listen PROVE ManagerTypes'
  <2>1. pool["kLoad"] \in SUBSET Modules
    OBVIOUS
  <2>2. heard' \in SUBSET Modules
    BY ZenonT(40), <1>10, <2>1 DEF Listen
  <2> QED BY <1>10, <2>2 DEF Listen, startVars
<1>11. ASSUME ListenPapyrus PROVE ManagerTypes'
  BY <1>11 DEF ListenPapyrus, startVars
<1> HIDE DEF ManagerInv, ManagerTypes, CallsFit, RegisteredFit, InstalledOnce, PendingFit,
    RefusedFit, Running, BeforeInit, Stage, Stages, Registrations, Counted, Outcomes,
    Phases, Calls, PreloadRegistrations, RecordOutcome, TakeSnapshot, AfterFailure,
    loopVars, recordVars, imageVars
<1> QED
  BY <1>1, <1>2, <1>3, <1>4, <1>5, <1>6, <1>7, <1>8, <1>9, <1>10, <1>11
  DEF ManagerNext

(* Every step keeps the calls in their order.                              *)
LEMMA CallsFitKept == ManagerInv /\ ManagerNext => CallsFit'
<1> SUFFICES ASSUME ManagerInv, ManagerNext PROVE CallsFit'
  OBVIOUS
<1> USE RegistrationAssumption DEF ManagerInv, ManagerTypes, CallsFit, RegisteredFit,
    InstalledOnce, PendingFit, RefusedFit, Running, BeforeInit, Stage, Stages,
    Registrations, Counted, Outcomes, Phases, Calls, PreloadRegistrations, RecordOutcome,
    TakeSnapshot, AfterFailure, loopVars, recordVars, imageVars
<1>1. ASSUME PreloadInit PROVE CallsFit'
  BY <1>1 DEF PreloadInit, Register, Query, startVars
<1>2. ASSUME PluginInit PROVE CallsFit'
  BY <1>2 DEF PluginInit, Register, Query, startVars
<1>3. ASSUME NEW msg \in Messages, NEW datum \in BOOLEAN, Message(msg, datum) PROVE CallsFit'
  BY <1>3 DEF Message, Query
<1>4. ASSUME NEW mod \in Modules, QueryModule(mod) PROVE CallsFit'
  BY <1>4 DEF QueryModule, startVars
<1>5. ASSUME NEW mod \in Modules, InstallModule(mod) PROVE CallsFit'
  BY <1>5 DEF InstallModule, startVars
<1>6. ASSUME QueryDone PROVE CallsFit'
  BY <1>6 DEF QueryDone, startVars
<1>7. ASSUME PreloadDone PROVE CallsFit'
  BY <1>7 DEF PreloadDone
<1>8. ASSUME InitDone PROVE CallsFit'
  BY <1>8 DEF InitDone
<1>9. ASSUME MessageDone PROVE CallsFit'
  BY <1>9 DEF MessageDone
<1>10. ASSUME Listen PROVE CallsFit'
  BY <1>10 DEF Listen, startVars
<1>11. ASSUME ListenPapyrus PROVE CallsFit'
  BY <1>11 DEF ListenPapyrus, startVars
<1> HIDE DEF ManagerInv, ManagerTypes, CallsFit, RegisteredFit, InstalledOnce, PendingFit,
    RefusedFit, Running, BeforeInit, Stage, Stages, Registrations, Counted, Outcomes,
    Phases, Calls, PreloadRegistrations, RecordOutcome, TakeSnapshot, AfterFailure,
    loopVars, recordVars, imageVars
<1> QED
  BY <1>1, <1>2, <1>3, <1>4, <1>5, <1>6, <1>7, <1>8, <1>9, <1>10, <1>11
  DEF ManagerNext

(* Every step keeps what is registered in its stage.                       *)
LEMMA RegisteredFitKept == ManagerInv /\ ManagerNext => RegisteredFit'
<1> SUFFICES ASSUME ManagerInv, ManagerNext PROVE RegisteredFit'
  OBVIOUS
<1> USE RegistrationAssumption DEF ManagerInv, ManagerTypes, CallsFit, RegisteredFit,
    InstalledOnce, PendingFit, RefusedFit, Running, BeforeInit, Stage, Stages,
    Registrations, Counted, Outcomes, Phases, Calls, PreloadRegistrations, RecordOutcome,
    TakeSnapshot, AfterFailure, loopVars, recordVars, imageVars
<1>1. ASSUME PreloadInit PROVE RegisteredFit'
  BY <1>1 DEF PreloadInit, Register, Query, startVars
<1>2. ASSUME PluginInit PROVE RegisteredFit'
  BY <1>2 DEF PluginInit, Register, Query, startVars
<1>3. ASSUME NEW msg \in Messages, NEW datum \in BOOLEAN, Message(msg, datum) PROVE RegisteredFit'
  BY <1>3 DEF Message, Query
<1>4. ASSUME NEW mod \in Modules, QueryModule(mod) PROVE RegisteredFit'
  <2> HIDE DEF ManagerInv, RecordOutcome, Registrations, Stage, Stages, ManagerTypes,
      RegisteredFit, Running, Outcomes, Counted
  <2>1. /\ phase = "query" /\ mod \in todo /\ mod \in pool[Stage]
        /\ todo' = todo \ {mod} /\ refused' \subseteq Modules
        /\ refused \subseteq refused'
        /\ UNCHANGED <<phase, call, data, startVars, pool, imageVars, installs, heard>>
        /\ Stage' = Stage /\ <<mod, Stage>> \in Registrations
        /\ outcome' \in [Registrations -> Outcomes] /\ tally' \in [Counted -> Nat]
        /\ \A r \in Registrations : r # <<mod, Stage>> => outcome'[r] = outcome[r]
        /\ \/ UNCHANGED <<outcome, refused>>
           \/ /\ refused' = refused \cup {mod}
              /\ outcome'[<<mod, Stage>>] \in {"Disabled", "Skipped", "FailedQuery"}
    BY <1>4, Queried
  <2>2. ManagerTypes /\ RegisteredFit /\ PendingFit /\ RefusedFit /\ CallsFit
    BY DEF ManagerInv
  <2> QED BY <2>1, <2>2 DEF RegisteredFit, Running, startVars
<1>5. ASSUME NEW mod \in Modules, InstallModule(mod) PROVE RegisteredFit'
  <2> HIDE DEF ManagerInv, RecordOutcome, Registrations, Stage, Stages, ManagerTypes,
      RegisteredFit, Running, Outcomes, Counted
  <2>1. /\ phase = "install" /\ mod \in todo /\ mod \in pool[Stage]
        /\ todo' = todo \ {mod}
        /\ UNCHANGED <<phase, call, data, refused, startVars, pool, heard>>
        /\ Stage' = Stage /\ <<mod, Stage>> \in Registrations
        /\ outcome' \in [Registrations -> Outcomes] /\ tally' \in [Counted -> Nat]
        /\ patched' \subseteq Modules /\ snapshot' \subseteq Modules /\ taken' \in BOOLEAN
        /\ \A r \in Registrations : r # <<mod, Stage>> => outcome'[r] = outcome[r]
        /\ \/ /\ outcome'[<<mod, Stage>>] = "Installed" /\ patched' = patched \cup {mod}
              /\ OneMore(installs, installs', <<mod, Stage>>)
           \/ /\ outcome'[<<mod, Stage>>] \in {"Skipped", "FailedInstall"}
              /\ \/ patched' = patched
                 \/ mod \notin Defended /\ patched' = patched \cup {mod}
              /\ UNCHANGED installs
    BY <1>5, InstalledOrNot
  <2>2. ManagerTypes /\ RegisteredFit /\ PendingFit /\ RefusedFit /\ CallsFit /\ InstalledOnce /\ DefendedImage
    BY DEF ManagerInv
  <2> QED BY <2>1, <2>2 DEF RegisteredFit, Running, startVars, OneMore
<1>6. ASSUME QueryDone PROVE RegisteredFit'
  BY <1>6 DEF QueryDone, startVars
<1>7. ASSUME PreloadDone PROVE RegisteredFit'
  BY <1>7 DEF PreloadDone
<1>8. ASSUME InitDone PROVE RegisteredFit'
  BY <1>8 DEF InitDone
<1>9. ASSUME MessageDone PROVE RegisteredFit'
  BY <1>9 DEF MessageDone
<1>10. ASSUME Listen PROVE RegisteredFit'
  BY <1>10 DEF Listen, startVars
<1>11. ASSUME ListenPapyrus PROVE RegisteredFit'
  BY <1>11 DEF ListenPapyrus, startVars
<1> HIDE DEF ManagerInv, ManagerTypes, CallsFit, RegisteredFit, InstalledOnce, PendingFit,
    RefusedFit, Running, BeforeInit, Stage, Stages, Registrations, Counted, Outcomes,
    Phases, Calls, PreloadRegistrations, RecordOutcome, TakeSnapshot, AfterFailure,
    loopVars, recordVars, imageVars
<1> QED
  BY <1>1, <1>2, <1>3, <1>4, <1>5, <1>6, <1>7, <1>8, <1>9, <1>10, <1>11
  DEF ManagerNext

(* Every step installs what it installs for the first time.                *)
LEMMA InstalledOnceKept == ManagerInv /\ ManagerNext => InstalledOnce'
<1> SUFFICES ASSUME ManagerInv, ManagerNext PROVE InstalledOnce'
  OBVIOUS
<1> USE RegistrationAssumption DEF ManagerInv, ManagerTypes, CallsFit, RegisteredFit,
    InstalledOnce, PendingFit, RefusedFit, Running, BeforeInit, Stage, Stages,
    Registrations, Counted, Outcomes, Phases, Calls, PreloadRegistrations, RecordOutcome,
    TakeSnapshot, AfterFailure, loopVars, recordVars, imageVars
<1>1. ASSUME PreloadInit PROVE InstalledOnce'
  <2>1. ~isInit /\ call = "none" /\ BeforeInit /\ phase = "idle"
    BY <1>1 DEF PreloadInit
  <2>2. pool["kLoad"] = {} /\ \A r \in Registrations : r[2] \in Messages => installs'[r] = installs[r]
    BY <1>1, <2>1 DEF PreloadInit, startVars
  <2>3. /\ phase' = "query" /\ Stage' = "kLoad" /\ UNCHANGED <<installs, arrived>>
        /\ call' \notin Messages /\ pool' \in [Stages -> SUBSET Modules]
        /\ pool'["kLoad"] = {m \in Modules : <<m, "kLoad">> \in PreloadRegistrations}
    BY <1>1, <2>2 DEF PreloadInit, Register, Query, startVars
  <2>4. ~isPreloadInit /\ ~originalGame
    BY <1>1 DEF PreloadInit
  <2> HIDE DEF ManagerInv, Stage, Registrations, Stages
  <2>5. ASSUME NEW m \in Modules, m \in pool'["kLoad"] PROVE installs[<<m, "kLoad">>] = 0
    BY <2>1, <2>3, <2>4, <2>5, NewlyRegistered
  <2>6. InstalledOnce
    BY DEF ManagerInv
  <2> QED BY <2>3, <2>5, <2>6
<1>2. ASSUME PluginInit PROVE InstalledOnce'
  <2>1. ~isInit /\ call = "none" /\ BeforeInit /\ phase = "idle"
    BY <1>2 DEF PluginInit
  <2>2. pool["kLoad"] = {} /\ \A r \in Registrations : r[2] \in Messages => installs'[r] = installs[r]
    BY <1>2, <2>1 DEF PluginInit, startVars
  <2>3. /\ phase' = "query" /\ Stage' = "kLoad" /\ UNCHANGED <<installs, arrived>>
        /\ call' \notin Messages /\ pool' \in [Stages -> SUBSET Modules]
        /\ pool'["kLoad"] = {m \in Modules : <<m, "kLoad">> \in Registered \cup (IF originalGame THEN PreloadRegistrations ELSE {})}
    BY <1>2, <2>2 DEF PluginInit, Register, Query, startVars
  <2>4. originalGame => ~isPreloadInit
    BY <1>2 DEF PluginInit
  <2> HIDE DEF ManagerInv, Stage, Registrations, Stages
  <2>5. ASSUME NEW m \in Modules, m \in pool'["kLoad"] PROVE installs[<<m, "kLoad">>] = 0
    BY <2>1, <2>3, <2>4, <2>5, NewlyRegistered
  <2>6. InstalledOnce
    BY DEF ManagerInv
  <2> QED BY <2>3, <2>5, <2>6
<1>3. ASSUME NEW msg \in Messages, NEW datum \in BOOLEAN, Message(msg, datum) PROVE InstalledOnce'
  <2>1. /\ phase = "idle" /\ UNCHANGED <<pool, installs>> /\ call' = msg /\ data' = datum
        /\ <<msg, datum>> \notin arrived /\ arrived' = arrived \cup {<<msg, datum>>}
        /\ phase' \in {"listen", "query"}
    BY <1>3 DEF Message, Query
  <2>2. Stage' = msg /\ \A m \in Modules : <<m, msg>> \in Registrations
    BY <2>1
  <2>3. InstalledOnce /\ installs \in [Registrations -> 0..1]
    OBVIOUS
  <2> HIDE DEF ManagerInv, Stage, Registrations, Stages, ManagerTypes
  <2>4. ASSUME datum = TRUE, NEW m \in Modules PROVE installs[<<m, msg>>] = 0
    <3> DEFINE r == <<m, msg>>
    <3>1. r \in Registrations /\ r[2] = msg
      BY <2>2
    <3> HIDE DEF r
    <3>2. ~(installs[r] > 0)
      BY <2>1, <2>3, <2>4, <3>1
    <3> QED BY <2>3, <3>1, <3>2 DEF r
  <2> QED BY <2>1, <2>2, <2>3, <2>4
<1>4. ASSUME NEW mod \in Modules, QueryModule(mod) PROVE InstalledOnce'
  BY <1>4 DEF QueryModule, startVars
<1>5. ASSUME NEW mod \in Modules, InstallModule(mod) PROVE InstalledOnce'
  <2> HIDE DEF ManagerInv, RecordOutcome, Registrations, Stage, Stages, ManagerTypes,
      InstalledOnce, Running, Outcomes, Counted
  <2>1. /\ phase = "install" /\ mod \in todo /\ mod \in pool[Stage]
        /\ todo' = todo \ {mod}
        /\ UNCHANGED <<phase, call, data, refused, startVars, pool, heard>>
        /\ Stage' = Stage /\ <<mod, Stage>> \in Registrations
        /\ outcome' \in [Registrations -> Outcomes] /\ tally' \in [Counted -> Nat]
        /\ patched' \subseteq Modules /\ snapshot' \subseteq Modules /\ taken' \in BOOLEAN
        /\ \A r \in Registrations : r # <<mod, Stage>> => outcome'[r] = outcome[r]
        /\ \/ /\ outcome'[<<mod, Stage>>] = "Installed" /\ patched' = patched \cup {mod}
              /\ OneMore(installs, installs', <<mod, Stage>>)
           \/ /\ outcome'[<<mod, Stage>>] \in {"Skipped", "FailedInstall"}
              /\ \/ patched' = patched
                 \/ mod \notin Defended /\ patched' = patched \cup {mod}
              /\ UNCHANGED installs
    BY <1>5, InstalledOrNot
  <2>2. ManagerTypes /\ RegisteredFit /\ PendingFit /\ RefusedFit /\ CallsFit /\ InstalledOnce /\ DefendedImage
    BY DEF ManagerInv
  <2>3. Running /\ data \in BOOLEAN
    BY <2>1, <2>2 DEF Running, ManagerTypes
  <2>4. /\ call \in Messages => data = TRUE /\ <<call, TRUE>> \in arrived
        /\ mod \in Modules
    BY <2>1, <2>2, <2>3 DEF CallsFit, InstalledOnce
  <2>5. Stage \in Messages => Stage = call /\ call \in Messages
    BY RegistrationAssumption DEF Stage
  <2>6. /\ Running' /\ todo' \subseteq todo /\ mod \notin todo' /\ phase' = "install"
        /\ UNCHANGED <<call, data, arrived, Stage>>
    BY <2>1 DEF Running, startVars
  <2>7. \A r \in Registrations : r # <<mod, Stage>> => installs'[r] = installs[r]
    BY <2>1 DEF OneMore
  <2>8. \A m \in todo' : m \in todo /\ m # mod
    BY <2>6
  <2>9. \A m \in Modules : <<m, Stage>> \in Registrations
    BY StageType, <2>2 DEF Registrations
  <2>10. \A m \in Modules : m \in todo' => installs'[<<m, Stage>>] = 0
    BY <2>1, <2>2, <2>3, <2>7, <2>8, <2>9 DEF InstalledOnce
  <2>11. ASSUME NEW r \in Registrations, r[2] \in Messages, installs'[r] > 0
         PROVE  <<r[2], TRUE>> \in arrived
    <3>1. CASE r = <<mod, Stage>>
      BY <3>1, <2>4, <2>5, <2>11
    <3>2. CASE r # <<mod, Stage>>
      BY <3>2, <2>2, <2>7, <2>11 DEF InstalledOnce
    <3> QED BY <3>1, <3>2
  <2>12. call \in Messages => data
    BY <2>4
  <2> HIDE DEF Running
  <2> QED BY <2>6, <2>10, <2>11, <2>12 DEF InstalledOnce
<1>6. ASSUME QueryDone PROVE InstalledOnce'
  <2>0. phase = "query" /\ phase' = "install"
    BY <1>6 DEF QueryDone
  <2>1. /\ UNCHANGED <<call, data, installs, arrived>>
        /\ pool' = [pool EXCEPT ![Stage] = pool[Stage] \ refused]
        /\ todo' = IF call = "kGameDataReady" /\ ~data THEN {} ELSE pool'[Stage]
    <3> HIDE DEF ManagerInv, Stage, Registrations, Stages, ManagerTypes
    <3> QED BY <1>6 DEF QueryDone, startVars
  <2>2. Stage' = Stage
    BY <2>1
  <2>3. Stage \in Stages
    BY StageType
  <2>4. todo' \subseteq pool[Stage] /\ todo' \subseteq Modules
    <3>1. pool \in [Stages -> SUBSET Modules]
      OBVIOUS
    <3> HIDE DEF ManagerInv, Stage, Registrations, Stages, ManagerTypes
    <3>2. pool'[Stage] = pool[Stage] \ refused /\ pool[Stage] \subseteq Modules
      BY <2>1, <2>3, <3>1
    <3> QED BY <2>1, <3>2
  <2>5. call \in Messages => Stage = call
    OBVIOUS
  <2>6. ASSUME call = "kPostLoadGame", call \in Messages, NEW m \in pool[call] PROVE FALSE
    <3>1. <<m, "kPostLoadGame">> \in Registrations /\ m \in Modules
      BY <2>6
    <3> QED BY <2>6, <3>1
  <2>7. InstalledOnce /\ CallsFit
    OBVIOUS
  <2> HIDE DEF ManagerInv, Stage, Registrations, Stages, ManagerTypes, RegisteredFit
  <2> USE <2>0
  <2>8. call \in Messages /\ todo' # {} => data
    BY <2>1, <2>4, <2>5, <2>6, <2>7
  <2> QED BY <2>1, <2>2, <2>4, <2>7, <2>8
<1>7. ASSUME PreloadDone PROVE InstalledOnce'
  BY <1>7 DEF PreloadDone
<1>8. ASSUME InitDone PROVE InstalledOnce'
  BY <1>8 DEF InitDone
<1>9. ASSUME MessageDone PROVE InstalledOnce'
  BY <1>9 DEF MessageDone
<1>10. ASSUME Listen PROVE InstalledOnce'
  BY <1>10 DEF Listen, startVars
<1>11. ASSUME ListenPapyrus PROVE InstalledOnce'
  BY <1>11 DEF ListenPapyrus, startVars
<1> HIDE DEF ManagerInv, ManagerTypes, CallsFit, RegisteredFit, InstalledOnce, PendingFit,
    RefusedFit, Running, BeforeInit, Stage, Stages, Registrations, Counted, Outcomes,
    Phases, Calls, PreloadRegistrations, RecordOutcome, TakeSnapshot, AfterFailure,
    loopVars, recordVars, imageVars
<1> QED
  BY <1>1, <1>2, <1>3, <1>4, <1>5, <1>6, <1>7, <1>8, <1>9, <1>10, <1>11
  DEF ManagerNext

(* Every step keeps what is pending waiting for its stage, or in it.       *)
LEMMA PendingFitKept == ManagerInv /\ ManagerNext => PendingFit'
<1> SUFFICES ASSUME ManagerInv, ManagerNext PROVE PendingFit'
  OBVIOUS
<1> USE RegistrationAssumption DEF ManagerInv, ManagerTypes, CallsFit, RegisteredFit,
    InstalledOnce, PendingFit, RefusedFit, Running, BeforeInit, Stage, Stages,
    Registrations, Counted, Outcomes, Phases, Calls, PreloadRegistrations, RecordOutcome,
    TakeSnapshot, AfterFailure, loopVars, recordVars, imageVars
<1>1. ASSUME PreloadInit PROVE PendingFit'
  BY <1>1 DEF PreloadInit, Register, Query, startVars
<1>2. ASSUME PluginInit PROVE PendingFit'
  <2>1. ~isInit /\ call = "none" /\ phase = "idle" /\ arrived = {} /\ ~isInstall
    BY <1>2 DEF PluginInit
  <2>2. /\ \A r \in Registrations : outcome'[r] = "Pending" /\ outcome[r] # "Pending" => r[1] \in pool'[r[2]]
        /\ \A s \in Stages : pool[s] \subseteq pool'[s]
    BY <1>2 DEF PluginInit, Register
  <2>3. \A r \in Registrations : r[2] \in Stages
    OBVIOUS
  <2>4. /\ phase' = "query" /\ refused' = {} /\ call' = "init" /\ Stage' = "kLoad"
        /\ UNCHANGED <<arrived, isInstall, data>> /\ "init" \notin Messages
    BY <1>2 DEF PluginInit, Query, startVars
  <2>5. PendingFit
    OBVIOUS
  <2>6. \A r \in Registrations : outcome'[r] = "Pending" => r[1] \in pool'[r[2]]
    <3> HIDE DEF ManagerInv, Registrations, Stages, Stage
    <3> QED BY <2>2, <2>3, <2>5 DEF PendingFit
  <2> HIDE DEF ManagerInv, Registrations, Stages, Stage
  <2> QED BY <2>1, <2>4, <2>6 DEF PendingFit, Running
<1>3. ASSUME NEW msg \in Messages, NEW datum \in BOOLEAN, Message(msg, datum) PROVE PendingFit'
  BY <1>3 DEF Message, Query
<1>4. ASSUME NEW mod \in Modules, QueryModule(mod) PROVE PendingFit'
  <2> HIDE DEF ManagerInv, RecordOutcome, Registrations, Stage, Stages, ManagerTypes,
      PendingFit, Running, Outcomes, Counted
  <2>1. /\ phase = "query" /\ mod \in todo /\ mod \in pool[Stage]
        /\ todo' = todo \ {mod} /\ refused' \subseteq Modules
        /\ refused \subseteq refused'
        /\ UNCHANGED <<phase, call, data, startVars, pool, imageVars, installs, heard>>
        /\ Stage' = Stage /\ <<mod, Stage>> \in Registrations
        /\ outcome' \in [Registrations -> Outcomes] /\ tally' \in [Counted -> Nat]
        /\ \A r \in Registrations : r # <<mod, Stage>> => outcome'[r] = outcome[r]
        /\ \/ UNCHANGED <<outcome, refused>>
           \/ /\ refused' = refused \cup {mod}
              /\ outcome'[<<mod, Stage>>] \in {"Disabled", "Skipped", "FailedQuery"}
    BY <1>4, Queried
  <2>2. ManagerTypes /\ RegisteredFit /\ PendingFit /\ RefusedFit /\ CallsFit
    BY DEF ManagerInv
  <2>3. SUFFICES ASSUME NEW r \in Registrations, outcome'[r] = "Pending"
                  PROVE  /\ r[1] \in pool[r[2]]
                         /\ ~(r[2] = Stage /\ r[1] \in refused')
                         /\ r[2] = "kLoad" \/ <<r[2], TRUE>> \in arrived =>
                               \/ isInstall /\ call # "kGameLoaded" /\ r[2] # "kLoad"
                               \/ Running /\ r[2] = Stage /\ (call \in Messages => data)
    BY <2>1 DEF PendingFit, Running, startVars
  <2>4. outcome[r] = "Pending" /\ (refused' = refused \/ r # <<mod, Stage>>)
    BY <2>1, <2>3
  <2>5. r = <<r[1], r[2]>>
    BY DEF Registrations
  <2>6. ~(r[2] = Stage /\ r[1] \in refused')
    <3>1. ~(r[2] = Stage /\ r[1] \in refused)
      BY <2>1, <2>2, <2>4 DEF PendingFit
    <3>2. r[1] \in refused' => r[1] \in refused \/ r[1] = mod
      BY <2>1
    <3> QED BY <2>4, <2>5, <3>1, <3>2
  <2> QED BY <2>2, <2>4, <2>6 DEF PendingFit
<1>5. ASSUME NEW mod \in Modules, InstallModule(mod) PROVE PendingFit'
  <2> HIDE DEF ManagerInv, RecordOutcome, Registrations, Stage, Stages, ManagerTypes,
      PendingFit, Running, Outcomes, Counted
  <2>1. /\ phase = "install" /\ mod \in todo /\ mod \in pool[Stage]
        /\ todo' = todo \ {mod}
        /\ UNCHANGED <<phase, call, data, refused, startVars, pool, heard>>
        /\ Stage' = Stage /\ <<mod, Stage>> \in Registrations
        /\ outcome' \in [Registrations -> Outcomes] /\ tally' \in [Counted -> Nat]
        /\ patched' \subseteq Modules /\ snapshot' \subseteq Modules /\ taken' \in BOOLEAN
        /\ \A r \in Registrations : r # <<mod, Stage>> => outcome'[r] = outcome[r]
        /\ \/ /\ outcome'[<<mod, Stage>>] = "Installed" /\ patched' = patched \cup {mod}
              /\ OneMore(installs, installs', <<mod, Stage>>)
           \/ /\ outcome'[<<mod, Stage>>] \in {"Skipped", "FailedInstall"}
              /\ \/ patched' = patched
                 \/ mod \notin Defended /\ patched' = patched \cup {mod}
              /\ UNCHANGED installs
    BY <1>5, InstalledOrNot
  <2>2. ManagerTypes /\ RegisteredFit /\ PendingFit /\ RefusedFit /\ CallsFit /\ InstalledOnce /\ DefendedImage
    BY DEF ManagerInv
  <2>3. SUFFICES ASSUME NEW r \in Registrations, outcome'[r] = "Pending"
                  PROVE  /\ r[1] \in pool[r[2]]
                         /\ r[2] = "kLoad" \/ <<r[2], TRUE>> \in arrived =>
                               \/ isInstall /\ call # "kGameLoaded" /\ r[2] # "kLoad"
                               \/ Running /\ r[2] = Stage /\ r[1] \in todo' /\ (call \in Messages => data)
    BY <2>1 DEF PendingFit, Running, startVars
  <2>4. outcome[r] = "Pending" /\ r # <<mod, Stage>>
    BY <2>1, <2>3
  <2>5. r = <<r[1], r[2]>>
    BY DEF Registrations
  <2>6. r[2] = Stage /\ r[1] \in todo => r[1] \in todo'
    BY <2>1, <2>4, <2>5
  <2> QED BY <2>1, <2>2, <2>4, <2>6 DEF PendingFit
<1>6. ASSUME QueryDone PROVE PendingFit'
  BY <1>6 DEF QueryDone, startVars
<1>7. ASSUME PreloadDone PROVE PendingFit'
  BY <1>7 DEF PreloadDone
<1>8. ASSUME InitDone PROVE PendingFit'
  BY <1>8 DEF InitDone
<1>9. ASSUME MessageDone PROVE PendingFit'
  BY <1>9 DEF MessageDone
<1>10. ASSUME Listen PROVE PendingFit'
  BY <1>10 DEF Listen, startVars
<1>11. ASSUME ListenPapyrus PROVE PendingFit'
  BY <1>11 DEF ListenPapyrus, startVars
<1> HIDE DEF ManagerInv, ManagerTypes, CallsFit, RegisteredFit, InstalledOnce, PendingFit,
    RefusedFit, Running, BeforeInit, Stage, Stages, Registrations, Counted, Outcomes,
    Phases, Calls, PreloadRegistrations, RecordOutcome, TakeSnapshot, AfterFailure,
    loopVars, recordVars, imageVars
<1> QED
  BY <1>1, <1>2, <1>3, <1>4, <1>5, <1>6, <1>7, <1>8, <1>9, <1>10, <1>11
  DEF ManagerNext

(* Every step keeps what was refused out of its stage.                     *)
LEMMA RefusedFitKept == ManagerInv /\ ManagerNext => RefusedFit'
<1> SUFFICES ASSUME ManagerInv, ManagerNext PROVE RefusedFit'
  OBVIOUS
<1> USE RegistrationAssumption DEF ManagerInv, ManagerTypes, CallsFit, RegisteredFit,
    InstalledOnce, PendingFit, RefusedFit, Running, BeforeInit, Stage, Stages,
    Registrations, Counted, Outcomes, Phases, Calls, PreloadRegistrations, RecordOutcome,
    TakeSnapshot, AfterFailure, loopVars, recordVars, imageVars
<1>1. ASSUME PreloadInit PROVE RefusedFit'
  BY <1>1 DEF PreloadInit, Register, Query, startVars
<1>2. ASSUME PluginInit PROVE RefusedFit'
  BY <1>2 DEF PluginInit, Register, Query, startVars
<1>3. ASSUME NEW msg \in Messages, NEW datum \in BOOLEAN, Message(msg, datum) PROVE RefusedFit'
  BY <1>3 DEF Message, Query
<1>4. ASSUME NEW mod \in Modules, QueryModule(mod) PROVE RefusedFit'
  <2> HIDE DEF ManagerInv, RecordOutcome, Registrations, Stage, Stages, ManagerTypes,
      RefusedFit, Running, Outcomes, Counted
  <2>1. /\ phase = "query" /\ mod \in todo /\ mod \in pool[Stage]
        /\ todo' = todo \ {mod} /\ refused' \subseteq Modules
        /\ refused \subseteq refused'
        /\ UNCHANGED <<phase, call, data, startVars, pool, imageVars, installs, heard>>
        /\ Stage' = Stage /\ <<mod, Stage>> \in Registrations
        /\ outcome' \in [Registrations -> Outcomes] /\ tally' \in [Counted -> Nat]
        /\ \A r \in Registrations : r # <<mod, Stage>> => outcome'[r] = outcome[r]
        /\ \/ UNCHANGED <<outcome, refused>>
           \/ /\ refused' = refused \cup {mod}
              /\ outcome'[<<mod, Stage>>] \in {"Disabled", "Skipped", "FailedQuery"}
    BY <1>4, Queried
  <2>2. ManagerTypes /\ RegisteredFit /\ PendingFit /\ RefusedFit /\ CallsFit
    BY DEF ManagerInv
  <2> QED BY <2>1, <2>2 DEF RefusedFit, Running, startVars
<1>5. ASSUME NEW mod \in Modules, InstallModule(mod) PROVE RefusedFit'
  <2> HIDE DEF ManagerInv, RecordOutcome, Registrations, Stage, Stages, ManagerTypes,
      RefusedFit, Running, Outcomes, Counted
  <2>1. /\ phase = "install" /\ mod \in todo /\ mod \in pool[Stage]
        /\ todo' = todo \ {mod}
        /\ UNCHANGED <<phase, call, data, refused, startVars, pool, heard>>
        /\ Stage' = Stage /\ <<mod, Stage>> \in Registrations
        /\ outcome' \in [Registrations -> Outcomes] /\ tally' \in [Counted -> Nat]
        /\ patched' \subseteq Modules /\ snapshot' \subseteq Modules /\ taken' \in BOOLEAN
        /\ \A r \in Registrations : r # <<mod, Stage>> => outcome'[r] = outcome[r]
        /\ \/ /\ outcome'[<<mod, Stage>>] = "Installed" /\ patched' = patched \cup {mod}
              /\ OneMore(installs, installs', <<mod, Stage>>)
           \/ /\ outcome'[<<mod, Stage>>] \in {"Skipped", "FailedInstall"}
              /\ \/ patched' = patched
                 \/ mod \notin Defended /\ patched' = patched \cup {mod}
              /\ UNCHANGED installs
    BY <1>5, InstalledOrNot
  <2>2. ManagerTypes /\ RegisteredFit /\ PendingFit /\ RefusedFit /\ CallsFit /\ InstalledOnce /\ DefendedImage
    BY DEF ManagerInv
  <2> QED BY <2>1, <2>2 DEF RefusedFit, Running, startVars, OneMore
<1>6. ASSUME QueryDone PROVE RefusedFit'
  BY <1>6 DEF QueryDone, startVars
<1>7. ASSUME PreloadDone PROVE RefusedFit'
  BY <1>7 DEF PreloadDone
<1>8. ASSUME InitDone PROVE RefusedFit'
  BY <1>8 DEF InitDone
<1>9. ASSUME MessageDone PROVE RefusedFit'
  BY <1>9 DEF MessageDone
<1>10. ASSUME Listen PROVE RefusedFit'
  BY <1>10 DEF Listen, startVars
<1>11. ASSUME ListenPapyrus PROVE RefusedFit'
  BY <1>11 DEF ListenPapyrus, startVars
<1> HIDE DEF ManagerInv, ManagerTypes, CallsFit, RegisteredFit, InstalledOnce, PendingFit,
    RefusedFit, Running, BeforeInit, Stage, Stages, Registrations, Counted, Outcomes,
    Phases, Calls, PreloadRegistrations, RecordOutcome, TakeSnapshot, AfterFailure,
    loopVars, recordVars, imageVars
<1> QED
  BY <1>1, <1>2, <1>3, <1>4, <1>5, <1>6, <1>7, <1>8, <1>9, <1>10, <1>11
  DEF ManagerNext

(* Every step keeps the patches of what is installed, and only those.      *)
LEMMA DefendedImageKept == ManagerInv /\ ManagerNext => DefendedImage'
<1> SUFFICES ASSUME ManagerInv, ManagerNext PROVE DefendedImage'
  OBVIOUS
<1> USE RegistrationAssumption DEF ManagerInv, ManagerTypes, CallsFit, RegisteredFit,
    InstalledOnce, PendingFit, RefusedFit, Running, BeforeInit, Stage, Stages,
    Registrations, Counted, Outcomes, Phases, Calls, PreloadRegistrations, RecordOutcome,
    TakeSnapshot, AfterFailure, loopVars, recordVars, imageVars, DefendedImage
<1>1. ASSUME PreloadInit PROVE DefendedImage'
  BY <1>1 DEF PreloadInit, Register, Query, startVars
<1>2. ASSUME PluginInit PROVE DefendedImage'
  BY <1>2 DEF PluginInit, Register, Query, startVars
<1>3. ASSUME NEW msg \in Messages, NEW datum \in BOOLEAN, Message(msg, datum) PROVE DefendedImage'
  BY <1>3 DEF Message, Query
<1>4. ASSUME NEW mod \in Modules, QueryModule(mod) PROVE DefendedImage'
  BY ZenonT(40), <1>4 DEF QueryModule, startVars
<1>5. ASSUME NEW mod \in Modules, InstallModule(mod) PROVE DefendedImage'
  <2> HIDE DEF ManagerInv, RecordOutcome, Registrations, Stage, Stages, ManagerTypes,
      DefendedImage, Running, Outcomes, Counted
  <2>1. /\ phase = "install" /\ mod \in todo /\ mod \in pool[Stage]
        /\ todo' = todo \ {mod}
        /\ UNCHANGED <<phase, call, data, refused, startVars, pool, heard>>
        /\ Stage' = Stage /\ <<mod, Stage>> \in Registrations
        /\ outcome' \in [Registrations -> Outcomes] /\ tally' \in [Counted -> Nat]
        /\ patched' \subseteq Modules /\ snapshot' \subseteq Modules /\ taken' \in BOOLEAN
        /\ \A r \in Registrations : r # <<mod, Stage>> => outcome'[r] = outcome[r]
        /\ \/ /\ outcome'[<<mod, Stage>>] = "Installed" /\ patched' = patched \cup {mod}
              /\ OneMore(installs, installs', <<mod, Stage>>)
           \/ /\ outcome'[<<mod, Stage>>] \in {"Skipped", "FailedInstall"}
              /\ \/ patched' = patched
                 \/ mod \notin Defended /\ patched' = patched \cup {mod}
              /\ UNCHANGED installs
    BY <1>5, InstalledOrNot
  <2>2. ManagerTypes /\ RegisteredFit /\ PendingFit /\ RefusedFit /\ CallsFit /\ InstalledOnce /\ DefendedImage
    BY DEF ManagerInv
  <2>3. \A n \in Modules, s \in Stages : <<n, s>> \in Registrations
    BY DEF Registrations
  <2>4. mod \in Modules /\ Stage \in Stages
    BY <2>2, StageType
  <2>5. /\ patched \subseteq patched' /\ patched' \subseteq patched \cup {mod}
        /\ \A r \in Registrations : installs[r] > 0 => installs'[r] > 0
    BY <2>2, <2>1 DEF ManagerTypes, OneMore
  <2>6. ASSUME NEW n \in Modules, NEW s \in Stages, outcome'[<<n, s>>] = "Installed"
        PROVE  n \in patched'
    BY <2>1, <2>6, <2>2, <2>3, <2>5 DEF DefendedImage
  <2>7. ASSUME NEW n \in Modules, n \in Defended, n \in patched'
        PROVE  \E s \in Stages : installs'[<<n, s>>] > 0
    <3>1. CASE n \in patched
      BY <3>1, <2>2, <2>3, <2>5, <2>7 DEF DefendedImage
    <3>2. CASE n \notin patched
      <4>1. n = mod /\ OneMore(installs, installs', <<mod, Stage>>)
        BY <3>2, <2>1, <2>5, <2>7
      <4>2. installs[<<mod, Stage>>] \in Nat
        BY <2>1, <2>2 DEF ManagerTypes
      <4>3. installs'[<<mod, Stage>>] > 0
        BY <4>1, <4>2 DEF OneMore
      <4> QED BY <4>1, <4>3, <2>4
    <3> QED BY <3>1, <3>2
  <2> QED BY <2>6, <2>7 DEF DefendedImage
<1>6. ASSUME QueryDone PROVE DefendedImage'
  BY <1>6 DEF QueryDone, startVars
<1>7. ASSUME PreloadDone PROVE DefendedImage'
  BY <1>7 DEF PreloadDone
<1>8. ASSUME InitDone PROVE DefendedImage'
  BY <1>8 DEF InitDone
<1>9. ASSUME MessageDone PROVE DefendedImage'
  BY <1>9 DEF MessageDone
<1>10. ASSUME Listen PROVE DefendedImage'
  BY <1>10 DEF Listen, startVars
<1>11. ASSUME ListenPapyrus PROVE DefendedImage'
  BY <1>11 DEF ListenPapyrus, startVars
<1> HIDE DEF ManagerInv, ManagerTypes, CallsFit, RegisteredFit, InstalledOnce, PendingFit,
    RefusedFit, Running, BeforeInit, Stage, Stages, Registrations, Counted, Outcomes,
    Phases, Calls, PreloadRegistrations, RecordOutcome, TakeSnapshot, AfterFailure,
    loopVars, recordVars, imageVars
<1> QED
  BY <1>1, <1>2, <1>3, <1>4, <1>5, <1>6, <1>7, <1>8, <1>9, <1>10, <1>11
  DEF ManagerNext

(* Registering changes the outcome only of what had none.                  *)
LEMMA OnlyTheNew ==
    ASSUME ManagerInv, PreloadInit \/ PluginInit
    PROVE  /\ \A r \in Registrations :
                 \/ outcome'[r] = outcome[r]
                 \/ outcome[r] = "none" /\ outcome'[r] = "Pending"
           /\ UNCHANGED <<tally, installs, heard>>
<1>1. CASE PreloadInit
  BY <1>1, RegistrationAssumption DEF PreloadInit, BeforeInit, ManagerInv, CallsFit,
     RegisteredFit, Register
<1>2. CASE PluginInit
  <2> DEFINE regs == Registered \cup (IF originalGame THEN PreloadRegistrations ELSE {})
  <2>1. /\ BeforeInit /\ call = "none" /\ originalGame \in BOOLEAN
        /\ UNCHANGED <<tally, installs, heard>>
    BY <1>2, RegistrationAssumption DEF PluginInit, BeforeInit, ManagerInv, CallsFit
  <2>2. \A r \in Registrations :
           outcome'[r] = outcome[r] \/ (outcome'[r] = "Pending" /\ r \in regs)
    BY <1>2 DEF PluginInit, Register
  <2>3. ASSUME NEW r \in Registrations, outcome[r] # "none" PROVE r \notin regs
    BY <2>1, <2>3, RegistrationAssumption DEF ManagerInv, RegisteredFit, PreloadRegistrations
  <2> HIDE DEF regs
  <2> QED BY <2>1, <2>2, <2>3
<1> QED BY <1>1, <1>2

(* Every step keeps the counters those of the outcomes.                    *)
LEMMA TallyKept == ManagerInv /\ ManagerNext => TallyIsOutcomes'
<1> SUFFICES ASSUME ManagerInv, ManagerNext PROVE TallyIsOutcomes'
  OBVIOUS
<1>1. ASSUME PreloadInit \/ PluginInit PROVE TallyIsOutcomes'
  <2>1. /\ \A r \in Registrations :
              \/ outcome'[r] = outcome[r]
              \/ outcome[r] = "none" /\ outcome'[r] = "Pending"
        /\ UNCHANGED tally
    BY <1>1, OnlyTheNew
  <2>2. ASSUME NEW o \in Counted
        PROVE  tally'[o] = Cardinality({r \in Registrations : outcome'[r] = o})
    <3> DEFINE T == {r \in Registrations : outcome[r] = o}
               U == {r \in Registrations : outcome'[r] = o}
    <3>1. o # "none" /\ o # "Pending"
      BY DEF Counted
    <3>2. T = U
      BY <2>1, <3>1
    <3>3. tally[o] = Cardinality(T)
      BY DEF ManagerInv, TallyIsOutcomes
    <3> SUFFICES tally'[o] = Cardinality(U)
      OBVIOUS
    <3> HIDE DEF T, U
    <3> QED BY <2>1, <3>2, <3>3
  <2> QED BY <2>2 DEF TallyIsOutcomes
<1>2. ASSUME NEW m \in Modules, QueryModule(m) PROVE TallyIsOutcomes'
  BY <1>2, Queried
<1>3. ASSUME NEW m \in Modules, InstallModule(m) PROVE TallyIsOutcomes'
  BY <1>3, InstalledOrNot
<1>4. ASSUME UNCHANGED recordVars PROVE TallyIsOutcomes'
  BY <1>4 DEF recordVars, TallyIsOutcomes, ManagerInv
<1>5. \/ PreloadInit \/ PluginInit
      \/ \E m \in Modules : QueryModule(m) \/ InstallModule(m)
      \/ UNCHANGED recordVars
  BY DEF ManagerNext, Message, QueryDone, PreloadDone, InitDone, MessageDone,
         Listen, ListenPapyrus
<1> QED BY <1>1, <1>2, <1>3, <1>4, <1>5

(* Nothing is registered when the manager starts.                          *)
LEMMA ManagerStarts == ManagerStart => ManagerInv
<1> SUFFICES ASSUME ManagerStart PROVE ManagerInv
  OBVIOUS
<1>1. ManagerTypes
  <2>1. /\ pool \in [Stages -> SUBSET Modules]
        /\ outcome \in [Registrations -> Outcomes]
        /\ tally \in [Counted -> Nat]
        /\ installs \in [Registrations -> 0..1]
    BY DEF ManagerStart, Outcomes
  <2> QED BY <2>1 DEF ManagerStart, ManagerTypes, Phases, Calls
<1>2. CallsFit /\ PendingFit /\ RefusedFit
  BY RegistrationAssumption
  DEF ManagerStart, CallsFit, PendingFit, RefusedFit, Running
<1>3. RegisteredFit
  BY DEF ManagerStart, RegisteredFit, Running, BeforeInit, Registrations, Stages
<1>4. InstalledOnce
  BY DEF ManagerStart, InstalledOnce, Running
<1>5. DefendedImage
  BY DEF ManagerStart, DefendedImage, Registrations
<1>6. ASSUME NEW o \in Counted
      PROVE  tally[o] = Cardinality({r \in Registrations : outcome[r] = o})
  BY FS_EmptySet DEF ManagerStart, Counted
<1> QED BY <1>1, <1>2, <1>3, <1>4, <1>5, <1>6 DEF ManagerInv, TallyIsOutcomes

(* Every step keeps the invariant.                                         *)
LEMMA ManagerStep == ManagerInv /\ [ManagerNext]_managerVars => ManagerInv'
<1>1. CASE ManagerNext
  BY <1>1, ManagerTypesKept, CallsFitKept, RegisteredFitKept, InstalledOnceKept,
     PendingFitKept, RefusedFitKept, DefendedImageKept, TallyKept DEF ManagerInv
<1>2. ASSUME ManagerInv, UNCHANGED managerVars PROVE ManagerInv'
  <2>1. UNCHANGED <<phase, call, data, todo, refused, originalGame, isPreloadInit,
                    isInit, isInstall, arrived, pool, outcome, tally, patched,
                    snapshot, taken, installs, heard>>
    BY <1>2 DEF managerVars, loopVars, startVars, recordVars, imageVars
  <2>2. ManagerTypes' /\ TallyIsOutcomes' /\ DefendedImage'
    BY <1>2, <2>1 DEF ManagerInv, ManagerTypes, TallyIsOutcomes, DefendedImage
  <2>3. CallsFit' /\ RegisteredFit' /\ InstalledOnce'
    BY <1>2, <2>1 DEF ManagerInv, CallsFit, RegisteredFit, InstalledOnce, Running,
                      BeforeInit, Stage
  <2>4. PendingFit' /\ RefusedFit'
    BY <1>2, <2>1 DEF ManagerInv, PendingFit, RefusedFit, Running, Stage
  <2> QED BY <2>2, <2>3, <2>4 DEF ManagerInv
<1> QED BY <1>1, <1>2

(* What the invariant says of the outcomes between the calls.              *)
LEMMA InvOutcomes == ManagerInv => OutcomesAgree
<1> SUFFICES ASSUME ManagerInv PROVE OutcomesAgree
  OBVIOUS
<1>1. tally \in [Counted -> 0..Cardinality(Registrations)]
  BY RegistrationsFinite DEF ManagerInv, TallyIsOutcomes, ManagerTypes
<1>2. ManagerTypeOK
  BY <1>1 DEF ManagerInv, ManagerTypes, ManagerTypeOK
<1>3. StagesAreSettled
  <2> SUFFICES ASSUME \/ phase = "idle" /\ isInit /\ ~isInstall
                      \/ phase = "listen" /\ isInstall /\ call = "kGameLoaded",
                      NEW r \in Registrations, outcome[r] = "Pending"
               PROVE  r[2] \in Messages /\ <<r[2], TRUE>> \notin arrived
    BY DEF StagesAreSettled
  <2>1. ~(r[2] = "kLoad" \/ <<r[2], TRUE>> \in arrived)
    BY DEF ManagerInv, PendingFit, Running
  <2>2. r[2] \in Stages
    BY DEF Registrations
  <2> QED BY <2>1, <2>2 DEF Stages
<1> QED BY <1>2, <1>3 DEF ManagerInv, OutcomesAgree

(* What was refused keeps its outcome, is not installed and does not hear. *)
LEMMA RefusedStep ==
    ASSUME ManagerInv, ManagerNext, NEW r \in Registrations,
           outcome[r] \in {"Disabled", "FailedQuery"}
    PROVE  /\ outcome'[r] = outcome[r]
           /\ installs'[r] = installs[r]
           /\ r[2] = "kLoad" /\ r[1] \in heard' => r[1] \in heard
<1>1. CASE PreloadInit \/ PluginInit
  BY <1>1, OnlyTheNew
<1>2. ASSUME NEW m \in Modules, QueryModule(m) \/ InstallModule(m)
      PROVE  /\ UNCHANGED heard /\ outcome'[r] = outcome[r]
             /\ installs'[r] = installs[r]
  BY <1>2, Queried, InstalledOrNot DEF Running, QueryModule, InstallModule, ManagerInv,
     RefusedFit, OneMore
<1>3. CASE Listen \/ ListenPapyrus
  BY <1>3 DEF Listen, ListenPapyrus, recordVars, ManagerInv, RefusedFit
<1>4. CASE UNCHANGED <<outcome, installs, heard>>
  BY <1>4
<1>5. \/ PreloadInit \/ PluginInit \/ Listen \/ ListenPapyrus
      \/ \E m \in Modules : QueryModule(m) \/ InstallModule(m)
      \/ UNCHANGED <<outcome, installs, heard>>
  BY DEF ManagerNext, Message, QueryDone, PreloadDone, InitDone, MessageDone, recordVars
<1> QED BY <1>1, <1>2, <1>3, <1>4, <1>5

(* At every stage of start-up the outcomes, the tally shown of them, what is *)
(* still waiting and the patches in the game's image agree.                *)
THEOREM OutcomesAlwaysAgree == ManagerSpec => []OutcomesAgree
<1>1. ManagerSpec => []ManagerInv
  BY ManagerStarts, ManagerStep, PTL DEF ManagerSpec
<1> QED BY <1>1, InvOutcomes, PTL

(* A module that is disabled or fails its query keeps that outcome, is never *)
(* installed in that stage and, refused at load, is never called.          *)
THEOREM RefusedForGood == ManagerSpec => RefusalIsFinal
<1>1. ManagerSpec => []ManagerInv
  BY ManagerStarts, ManagerStep, PTL DEF ManagerSpec
<1>2. ManagerInv /\ [ManagerNext]_managerVars =>
         [\A r \in Registrations :
             outcome[r] \in {"Disabled", "FailedQuery"} =>
                 /\ outcome'[r] = outcome[r]
                 /\ installs'[r] = installs[r]
                 /\ r[2] = "kLoad" /\ r[1] \in heard' => r[1] \in heard]_managerVars
  BY RefusedStep
<1> QED BY <1>1, <1>2, PTL DEF ManagerSpec, RefusalIsFinal

-----------------------------------------------------------------------------
(***************************************************************************)
(* FacegenExceptions: the published set, the snapshot and the page follow  *)
(* the file for any names, form ids and load order.                        *)
(*                                                                         *)
(* The inductive invariant FacegenInv adds what each holder of the mutex   *)
(* is about to write or to publish (JobFits) and what the page's entries   *)
(* are a draft of.                                                         *)
(***************************************************************************)
(* The inductive invariant.                                                *)

(* What the variables hold.                                                *)
FacegenTypes ==
    /\ enabled \in BOOLEAN /\ pluginsLoaded \in BOOLEAN /\ frame \in BOOLEAN
    /\ fresh \in BOOLEAN
    /\ persistence \in {Nobody, "game", "menu"}
    /\ iniFile \in IniFiles \cup {NoIni}
    /\ exceptionSnapshot = [readAttempted |-> exceptionSnapshot.readAttempted,
                            entries |-> exceptionSnapshot.entries,
                            count |-> exceptionSnapshot.count]
    /\ exceptionSnapshot.readAttempted \in BOOLEAN
    /\ exceptionSnapshot.entries \in Drafts
    /\ page = [initialized |-> page.initialized, dirty |-> page.dirty,
               current |-> page.current, entries |-> page.entries,
               editor |-> page.editor, confirmation |-> page.confirmation,
               saved |-> page.saved, source |-> page.source]
    /\ page.initialized \in BOOLEAN /\ page.dirty \in BOOLEAN /\ page.current \in BOOLEAN
    /\ page.saved \in BOOLEAN /\ page.entries \in Drafts
    /\ page.editor \in {Closed, Adding} \cup DOMAIN page.entries
    /\ page.confirmation \in {"none", "discard", "reload"}

(* The page is edited between two frames, and by nobody while it is saved. *)
PageFits ==
    /\ ~page.initialized => ~page.dirty /\ page.editor = Closed
    /\ frame => page.initialized /\ ~page.saved /\ persistence # "menu"
    /\ page.confirmation # "none" \/ page.saved \/ persistence = "menu" =>
          page.editor = Closed

(* What is published is what the snapshot shows and, while fresh, the file says. *)
PublishedAgrees ==
    /\ exceptionSnapshot.count = Cardinality(published)
    /\ fresh /\ exceptionSnapshot.readAttempted =>
          published = AllForms(Section) /\ exceptionSnapshot.entries = Section

(* The holder of the mutex has something to write or to publish.  What it   *)
(* writes resolves; what it publishes is what the file says, unless the user *)
(* or the game has made it old since.                                      *)
JobFits ==
    /\ job.step \in {"none", "write", "publish", "snapshot"}
    /\ persistence = Nobody <=> job.step = "none"
    /\ job.step = "write" =>
          /\ job.entries \in Drafts /\ job.comments = TRUE
          /\ job.forms = AllForms(job.entries)
          /\ \A n \in DOMAIN job.entries : Resolves(job.entries[n])
          /\ PublishedAgrees
    /\ job.step \in {"publish", "snapshot"} =>
          /\ job = [step |-> job.step, forms |-> job.forms, entries |-> job.entries]
          /\ job.entries \in Drafts /\ Primaries \subseteq job.forms
          /\ fresh => job.forms = AllForms(Section) /\ job.entries = Section
    /\ job.step = "snapshot" => published = job.forms

FacegenInv == FacegenTypes /\ PageFits /\ JobFits /\ ExceptionsFollowFile

-----------------------------------------------------------------------------
(* Drafts stay drafts.                                                     *)
LEMMA DraftsStay ==
    /\ NoEntries \in Drafts
    /\ \A e \in Drafts : \A gone : Without(e, gone) \in Drafts
    /\ \A e \in Drafts : \A m \in Names : \A v \in EntryValues :
          [k \in DOMAIN e \cup {m} |-> IF k = m THEN v ELSE e[k]] \in Drafts
    /\ \A m \in Names : \A v \in EntryValues : [k \in {m} |-> v] \in Drafts
<1>1. NoEntries \in Drafts
  BY DEF NoEntries, Drafts
<1>2. ASSUME NEW e \in Drafts PROVE \E ns \in SUBSET Names : e \in [ns -> EntryValues]
  BY DEF Drafts
<1>3. ASSUME NEW e \in Drafts, NEW gone PROVE Without(e, gone) \in Drafts
  <2>1. PICK ns \in SUBSET Names : e \in [ns -> EntryValues]
    BY <1>2
  <2>2. Without(e, gone) \in [ns \ gone -> EntryValues] /\ ns \ gone \in SUBSET Names
    BY <2>1 DEF Without
  <2> QED BY <2>2 DEF Drafts
<1>4. ASSUME NEW e \in Drafts, NEW m \in Names, NEW v \in EntryValues
      PROVE  [k \in DOMAIN e \cup {m} |-> IF k = m THEN v ELSE e[k]] \in Drafts
  <2>1. PICK ns \in SUBSET Names : e \in [ns -> EntryValues]
    BY <1>2
  <2> DEFINE f == [k \in DOMAIN e \cup {m} |-> IF k = m THEN v ELSE e[k]]
  <2>2. f \in [ns \cup {m} -> EntryValues] /\ ns \cup {m} \in SUBSET Names
    BY <2>1
  <2> HIDE DEF f
  <2>3. f \in Drafts
    BY <2>2 DEF Drafts
  <2> QED BY <2>3 DEF f
<1>5. ASSUME NEW m \in Names, NEW v \in EntryValues PROVE [k \in {m} |-> v] \in Drafts
  <2>1. [k \in {m} |-> v] \in [{m} -> EntryValues] /\ {m} \in SUBSET Names
    OBVIOUS
  <2> QED BY <2>1 DEF Drafts
<1> QED BY <1>1, <1>3, <1>4, <1>5

(* What the INI's section holds is a draft.                                *)
LEMMA SectionType == FacegenTypes => Section \in Drafts
BY DraftsStay DEF FacegenTypes, Section, HasSection, IniFiles

-----------------------------------------------------------------------------
(* What is published and what the file says change together only.          *)
LEMMA NothingPublished ==
    ASSUME ExceptionsFollowFile,
           UNCHANGED <<enabled, pluginsLoaded, iniFile, fresh, published,
                       exceptionSnapshot, persistence>>
    PROVE  /\ ExceptionsFollowFile'
           /\ JobFits /\ UNCHANGED job => JobFits'
<1>1. /\ \A e : AllForms(e)' = AllForms(e)
      /\ \A v : Resolves(v)' = Resolves(v)
  BY DEF AllForms, Resolves, RuntimeFormID
<1>2. Section' = Section
  BY DEF Section, HasSection
<1>3. AllForms(Section)' = AllForms(Section)
  BY <1>2 DEF AllForms, Resolves, RuntimeFormID
<1>4. ExceptionsFollowFile'
  BY <1>2, <1>3 DEF ExceptionsFollowFile
<1>5. ASSUME JobFits, UNCHANGED job PROVE JobFits'
  <2>1. AllForms(job.entries)' = AllForms(job.entries)
    BY <1>5 DEF AllForms, Resolves, RuntimeFormID
  <2>2. (\A n \in DOMAIN job.entries : Resolves(job.entries[n])) =>
           (\A n \in DOMAIN job.entries : Resolves(job.entries[n]))'
    BY <1>5 DEF Resolves
  <2>3. UNCHANGED <<job, fresh, published, persistence, exceptionSnapshot>>
    BY <1>5
  <2>4. PublishedAgrees => PublishedAgrees'
    BY <1>2, <1>3, <2>3 DEF PublishedAgrees
  <2> HIDE DEF AllForms, Section, Resolves, PublishedAgrees
  <2> QED BY <1>2, <1>3, <1>5, <2>1, <2>2, <2>3, <2>4 DEF JobFits
<1> QED BY <1>4, <1>5

-----------------------------------------------------------------------------
(* Reading the INI has its entries published.                              *)
LEMMA LoadStarts ==
    ASSUME FacegenTypes, ExceptionsFollowFile, NEW who \in {"game", "menu"},
           LoadExceptions(who)
    PROVE  JobFits'
<1>1. /\ persistence' = who /\ UNCHANGED <<enabled, pluginsLoaded, iniFile, published>>
      /\ job' = [step |-> "publish", forms |-> AllForms(Section), entries |-> Section]
  BY DEF LoadExceptions, gameVars, publishedVars
<1>2. Section' = Section
  BY <1>1 DEF Section, HasSection
<1>3. AllForms(Section)' = AllForms(Section)
  BY <1>1, <1>2 DEF AllForms, Resolves, RuntimeFormID
<1>4. Primaries \subseteq AllForms(Section)
  BY DEF AllForms
<1>5. Section \in Drafts
  BY SectionType
<1>6. job'.step = "publish" /\ job'.forms = AllForms(Section) /\ job'.entries = Section
  BY <1>1
<1> HIDE DEF AllForms, Section
<1> QED BY <1>1, <1>2, <1>3, <1>4, <1>5, <1>6, FacegenAssumption DEF JobFits

-----------------------------------------------------------------------------

(* Every step keeps the types.                                             *)
LEMMA FacegenTypesKept == FacegenInv /\ FacegenNext => FacegenTypes'
<1> SUFFICES ASSUME FacegenInv, FacegenNext PROVE FacegenTypes'
  OBVIOUS
<1> USE FacegenAssumption DEF FacegenInv, FacegenTypes, PageFits, JobFits,
    ExceptionsFollowFile, gameVars, iniVars, publishedVars, jobVars, pageVars
<1>1. CASE LoadPlugins
  BY ZenonT(40), <1>1 DEF LoadPlugins
<1>2. CASE EditIni
  <2>1. iniFile' \in IniFiles \cup {NoIni}
    <3>1. CASE iniFile' = NoIni
      BY <3>1
    <3>2. CASE iniFile' = [comments |-> TRUE, section |-> FALSE, entries |-> NoEntries]
      BY <3>2, DraftsStay DEF IniFiles
    <3>3. ASSUME NEW n \in Names, NEW v \in EntryValues,
                 iniFile' = [comments |-> TRUE, section |-> TRUE,
                             entries |-> [m \in {n} |-> v]]
          PROVE  iniFile' \in IniFiles
      <4> DEFINE e == [m \in {n} |-> v]
      <4>1. e \in Drafts
        BY DraftsStay
      <4> HIDE DEF e
      <4>2. [comments |-> TRUE, section |-> TRUE, entries |-> e] \in IniFiles
        BY <4>1 DEF IniFiles
      <4> QED BY <3>3, <4>2 DEF e
    <3> QED BY <1>2, <3>1, <3>2, <3>3 DEF EditIni
  <2>2. /\ UNCHANGED <<enabled, pluginsLoaded, frame, persistence, exceptionSnapshot, page>>
        /\ fresh' = FALSE
    BY <1>2 DEF EditIni
  <2> QED BY ZenonT(40), <2>1, <2>2
<1>3. CASE ReadExceptions
  BY <1>3 DEF ReadExceptions, LoadExceptions
<1>4. CASE PublishForms
  BY <1>4 DEF PublishForms
<1>5. CASE PublishSnapshot
  BY <1>5 DEF PublishSnapshot
<1>6. CASE BeginFrame
  BY <1>6 DEF BeginFrame, RefreshDraft, Outdated
<1>7. CASE EndFrame
  BY ZenonT(40), <1>7 DEF EndFrame, Drawn, Idle, Committed
<1>8. CASE BeginAdd
  BY <1>8 DEF BeginAdd, Drawn, Idle, Committed
<1>9. CASE BeginEdit
  BY <1>9 DEF BeginEdit, Drawn, Idle, Committed
<1>10. CASE RemoveEntry
  <2>1. PICK n \in DOMAIN page.entries :
           page' = [page EXCEPT !.dirty = TRUE, !.entries = Without(page.entries, {n})]
    BY <1>10 DEF RemoveEntry, Drawn
  <2>2. Without(page.entries, {n}) \in Drafts /\ page.editor = Closed
    BY <1>10, DraftsStay DEF RemoveEntry, Idle
  <2>3. /\ page' = [initialized |-> page.initialized, dirty |-> TRUE,
                    current |-> page.current, entries |-> Without(page.entries, {n}),
                    editor |-> Closed, confirmation |-> page.confirmation,
                    saved |-> page.saved, source |-> page.source]
    BY <2>1, <2>2
  <2>9. UNCHANGED <<enabled, pluginsLoaded, fresh, persistence, iniFile, exceptionSnapshot>> /\ frame' = FALSE
    BY <1>10 DEF RemoveEntry, Drawn
  <2> QED BY ZenonT(40), <2>2, <2>3, <2>9
<1>11. CASE CommitEditor
  <2> DEFINE rest == Without(page.entries, {page.editor})
             edited(n, v) == [m \in DOMAIN rest \cup {n} |-> IF m = n THEN v ELSE rest[m]]
  <2>1. PICK n \in Names, v \in EntryValues :
           page' = [page EXCEPT !.dirty = TRUE, !.editor = Closed, !.entries = edited(n, v)]
    BY <1>11 DEF CommitEditor, Drawn, Committed
  <2>2. rest \in Drafts
    BY DraftsStay
  <2> HIDE DEF rest
  <2>3. edited(n, v) \in Drafts
    BY <2>2, DraftsStay
  <2> HIDE DEF edited
  <2>4. /\ page' = [initialized |-> page.initialized, dirty |-> TRUE,
                    current |-> page.current, entries |-> edited(n, v),
                    editor |-> Closed, confirmation |-> page.confirmation,
                    saved |-> page.saved, source |-> page.source]
    BY <2>1
  <2>9. UNCHANGED <<enabled, pluginsLoaded, fresh, persistence, iniFile, exceptionSnapshot>> /\ frame' = FALSE
    BY <1>11 DEF CommitEditor, Drawn
  <2> QED BY ZenonT(40), <2>3, <2>4, <2>9
<1>12. CASE CloseEditor
  BY <1>12 DEF CloseEditor, Drawn, Idle, Committed
<1>13. CASE AskToDiscard
  BY <1>13 DEF AskToDiscard, Drawn, Idle, Committed
<1>14. CASE AskToReload
  BY <1>14 DEF AskToReload, Drawn, Idle, Committed
<1>15. CASE Cancel
  BY <1>15 DEF Cancel
<1>16. CASE DiscardChanges
  BY <1>16 DEF DiscardChanges, RefreshDraft, Outdated
<1>17. CASE ReloadExceptions
  BY <1>17 DEF ReloadExceptions, LoadExceptions
<1>18. CASE SaveExceptions
  BY <1>18 DEF SaveExceptions, AsksToSave, CanBeSaved, Idle, LeadingComments
<1>19. CASE SaveRefused
  BY <1>19 DEF SaveRefused, AsksToSave, Idle, Drawn
<1>20. CASE WriteExceptions
  BY <1>20, ZenonT(60) DEF WriteExceptions, LeadingComments, IniFiles
<1>21. CASE ExceptionWriteFails
  BY <1>21 DEF ExceptionWriteFails
<1>22. CASE RefreshAfter
  BY <1>22 DEF RefreshAfter, RefreshDraft, Outdated
<1> HIDE DEF FacegenInv, FacegenTypes, PageFits, JobFits, ExceptionsFollowFile, gameVars,
    iniVars, publishedVars, jobVars, pageVars
<1> QED
  BY <1>1, <1>2, <1>3, <1>4, <1>5, <1>6, <1>7, <1>8, <1>9, <1>10, <1>11, <1>12, <1>13,
      <1>14, <1>15, <1>16, <1>17, <1>18, <1>19, <1>20, <1>21, <1>22
  DEF FacegenNext

(* Every step keeps the page as its frames and its saves leave it.         *)
LEMMA PageFitsKept == FacegenInv /\ FacegenNext => PageFits'
<1> SUFFICES ASSUME FacegenInv, FacegenNext PROVE PageFits'
  OBVIOUS
<1> USE FacegenAssumption DEF FacegenInv, FacegenTypes, PageFits, JobFits,
    ExceptionsFollowFile, gameVars, iniVars, publishedVars, jobVars, pageVars
<1>1. CASE LoadPlugins
  BY <1>1 DEF LoadPlugins
<1>2. CASE EditIni
  BY <1>2 DEF EditIni
<1>3. CASE ReadExceptions
  BY <1>3 DEF ReadExceptions, LoadExceptions
<1>4. CASE PublishForms
  BY <1>4 DEF PublishForms
<1>5. CASE PublishSnapshot
  BY <1>5 DEF PublishSnapshot
<1>6. CASE BeginFrame
  BY <1>6 DEF BeginFrame, RefreshDraft, Outdated
<1>7. CASE EndFrame
  BY <1>7 DEF EndFrame, Drawn, Idle, Committed
<1>8. CASE BeginAdd
  BY <1>8 DEF BeginAdd, Drawn, Idle, Committed
<1>9. CASE BeginEdit
  BY <1>9 DEF BeginEdit, Drawn, Idle, Committed
<1>10. CASE RemoveEntry
  BY <1>10 DEF RemoveEntry, Drawn, Idle, Committed
<1>11. CASE CommitEditor
  BY <1>11 DEF CommitEditor, Drawn, Idle, Committed
<1>12. CASE CloseEditor
  BY <1>12 DEF CloseEditor, Drawn, Idle, Committed
<1>13. CASE AskToDiscard
  BY <1>13 DEF AskToDiscard, Drawn, Idle, Committed
<1>14. CASE AskToReload
  BY <1>14 DEF AskToReload, Drawn, Idle, Committed
<1>15. CASE Cancel
  BY <1>15 DEF Cancel
<1>16. CASE DiscardChanges
  BY <1>16 DEF DiscardChanges, RefreshDraft, Outdated
<1>17. CASE ReloadExceptions
  BY <1>17 DEF ReloadExceptions, LoadExceptions
<1>18. CASE SaveExceptions
  BY <1>18 DEF SaveExceptions, AsksToSave, CanBeSaved, Idle, LeadingComments
<1>19. CASE SaveRefused
  BY <1>19 DEF SaveRefused, AsksToSave, Idle, Drawn
<1>20. CASE WriteExceptions
  BY <1>20 DEF WriteExceptions, LeadingComments
<1>21. CASE ExceptionWriteFails
  BY <1>21 DEF ExceptionWriteFails
<1>22. CASE RefreshAfter
  BY <1>22 DEF RefreshAfter, RefreshDraft, Outdated
<1> HIDE DEF FacegenInv, FacegenTypes, PageFits, JobFits, ExceptionsFollowFile, gameVars,
    iniVars, publishedVars, jobVars, pageVars
<1> QED
  BY <1>1, <1>2, <1>3, <1>4, <1>5, <1>6, <1>7, <1>8, <1>9, <1>10, <1>11, <1>12, <1>13,
      <1>14, <1>15, <1>16, <1>17, <1>18, <1>19, <1>20, <1>21, <1>22
  DEF FacegenNext

(* Every step keeps what is written or published what the file says.       *)
LEMMA JobFitsKept == FacegenInv /\ FacegenNext => JobFits'
<1> SUFFICES ASSUME FacegenInv, FacegenNext PROVE JobFits'
  OBVIOUS
<1> USE FacegenAssumption DEF FacegenInv, gameVars, iniVars, publishedVars, jobVars,
    pageVars
<1>1. CASE LoadPlugins
  <2>1. /\ UNCHANGED <<job, published, persistence>> /\ fresh' = FALSE
        /\ pluginsLoaded \in BOOLEAN /\ pluginsLoaded' = TRUE
    BY <1>1 DEF LoadPlugins, FacegenTypes
  <2>2. ASSUME job.step = "write"
        PROVE  /\ AllForms(job.entries)' = AllForms(job.entries)
               /\ (\A n \in DOMAIN job.entries : Resolves(job.entries[n]))'
    <3> DEFINE e == job.entries
    <3>1. \A n \in DOMAIN e : Resolves(e[n])
      BY <2>2 DEF JobFits
    <3>2. UNCHANGED e
      BY <2>1
    <3>3. /\ AllForms(e)' = AllForms(e)
          /\ (\A n \in DOMAIN e : Resolves(e[n]))'
      BY <2>1, <3>1, <3>2 DEF AllForms, Resolves, RuntimeFormID
    <3> QED BY <3>3
  <2>3. PublishedAgrees => PublishedAgrees'
    BY <1>1 DEF LoadPlugins, PublishedAgrees
  <2> HIDE DEF AllForms, Resolves, Section, PublishedAgrees
  <2> QED BY <2>1, <2>2, <2>3 DEF JobFits
<1>2. CASE EditIni
  BY <1>2 DEF FacegenTypes, PageFits, JobFits, ExceptionsFollowFile, EditIni
<1>3. CASE ReadExceptions
  BY <1>3, LoadStarts DEF ReadExceptions
<1>4. CASE PublishForms
  <2>1. /\ job.step = "publish" /\ published' = job.forms
        /\ job' = [job EXCEPT !.step = "snapshot"]
        /\ UNCHANGED <<pluginsLoaded, iniFile, fresh, persistence>>
    BY <1>4 DEF PublishForms
  <2>2. job = [step |-> job.step, forms |-> job.forms, entries |-> job.entries]
    BY <2>1 DEF JobFits
  <2>3. job' = [step |-> "snapshot", forms |-> job.forms, entries |-> job.entries]
    BY <2>1, <2>2
  <2>4. Section' = Section
    BY <2>1 DEF Section, HasSection
  <2>5. AllForms(Section)' = AllForms(Section)
    BY <2>1, <2>4 DEF AllForms, Resolves, RuntimeFormID
  <2> HIDE DEF AllForms, Section
  <2> QED BY <2>1, <2>3, <2>4, <2>5 DEF JobFits
<1>5. CASE PublishSnapshot
  BY <1>5 DEF FacegenTypes, PageFits, JobFits, ExceptionsFollowFile, PublishSnapshot
<1>6. CASE BeginFrame
  BY <1>6, NothingPublished DEF BeginFrame
<1>7. CASE EndFrame
  BY <1>7, NothingPublished DEF EndFrame, Drawn
<1>8. CASE BeginAdd
  BY <1>8, NothingPublished DEF BeginAdd, Drawn
<1>9. CASE BeginEdit
  BY <1>9, NothingPublished DEF BeginEdit, Drawn
<1>10. CASE RemoveEntry
  BY <1>10, NothingPublished DEF RemoveEntry, Drawn
<1>11. CASE CommitEditor
  BY <1>11, NothingPublished DEF CommitEditor, Drawn
<1>12. CASE CloseEditor
  BY <1>12, NothingPublished DEF CloseEditor, Drawn
<1>13. CASE AskToDiscard
  BY <1>13, NothingPublished DEF AskToDiscard, Drawn
<1>14. CASE AskToReload
  BY <1>14, NothingPublished DEF AskToReload, Drawn
<1>15. CASE Cancel
  BY <1>15, NothingPublished DEF Cancel
<1>16. CASE DiscardChanges
  BY <1>16, NothingPublished DEF DiscardChanges
<1>17. CASE ReloadExceptions
  BY <1>17, LoadStarts DEF ReloadExceptions
<1>18. CASE SaveExceptions
  <2>1. /\ persistence' = "menu" /\ UNCHANGED <<pluginsLoaded, iniFile, published>>
        /\ job' = [step |-> "write", comments |-> iniFile.comments,
                   entries |-> page.entries, forms |-> AllForms(page.entries)]
        /\ UNCHANGED page
        /\ HasSection /\ \A n \in DOMAIN page.entries : Resolves(page.entries[n])
    BY <1>18 DEF SaveExceptions, CanBeSaved
  <2>2. iniFile.comments = TRUE /\ page.entries \in Drafts
    BY <2>1 DEF HasSection, ExceptionsFollowFile, FacegenTypes, IniFiles
  <2> DEFINE e == page.entries
  <2>3. /\ AllForms(e)' = AllForms(e)
        /\ (\A n \in DOMAIN e : Resolves(e[n]))'
    BY <2>1 DEF AllForms, Resolves, RuntimeFormID
  <2>4. /\ job'.step = "write" /\ job'.comments = TRUE /\ job'.entries = e
        /\ job'.forms = AllForms(e) /\ e' = e
    BY <2>1, <2>2
  <2>5. AllForms(job.entries)' = AllForms(e)' /\ e \in Drafts
    BY <2>2, <2>4 DEF AllForms, Resolves, RuntimeFormID
  <2>6. (\A n \in DOMAIN job.entries : Resolves(job.entries[n]))'
    BY <2>3, <2>4 DEF Resolves
  <2>7. PublishedAgrees'
    <3>1. persistence = Nobody /\ UNCHANGED <<fresh, published, exceptionSnapshot>>
      BY <1>18 DEF SaveExceptions, AsksToSave
    <3>2. Section' = Section
      BY <2>1 DEF Section, HasSection
    <3>3. AllForms(Section)' = AllForms(Section)
      BY <2>1, <3>2 DEF AllForms, Resolves, RuntimeFormID
    <3> QED BY <3>1, <3>2, <3>3 DEF ExceptionsFollowFile, PublishedAgrees
  <2> HIDE DEF AllForms, Resolves, Section, e, PublishedAgrees
  <2> QED BY <2>1, <2>3, <2>4, <2>5, <2>6, <2>7, FacegenAssumption DEF JobFits
<1>19. CASE SaveRefused
  BY <1>19, NothingPublished DEF SaveRefused, AsksToSave, Idle, Drawn
<1>20. CASE WriteExceptions
  <2>1. /\ job.step = "write" /\ UNCHANGED <<pluginsLoaded, persistence>>
        /\ iniFile' = [comments |-> job.comments, section |-> TRUE, entries |-> job.entries]
        /\ job' = [step |-> "publish", forms |-> job.forms, entries |-> job.entries]
    BY <1>20 DEF WriteExceptions, LeadingComments
  <2>2. /\ job.entries \in Drafts /\ job.comments = TRUE
        /\ job.forms = AllForms(job.entries)
    BY <2>1 DEF JobFits
  <2>3. iniFile' \in IniFiles
    BY <2>1, <2>2 DEF IniFiles
  <2>4. Section' = job.entries
    BY <2>1, <2>3, FacegenAssumption DEF Section, HasSection
  <2>5. AllForms(Section)' = job.forms
    BY <2>1, <2>2, <2>4 DEF AllForms, Resolves, RuntimeFormID
  <2>6. Primaries \subseteq job.forms
    BY <2>2 DEF AllForms
  <2>7. job'.step = "publish" /\ job'.forms = job.forms /\ job'.entries = job.entries
    BY <2>1
  <2>8. persistence # Nobody
    BY <2>1 DEF JobFits
  <2> HIDE DEF AllForms, Section
  <2> QED BY <2>1, <2>2, <2>4, <2>5, <2>6, <2>7, <2>8 DEF JobFits
<1>21. CASE ExceptionWriteFails
  BY <1>21 DEF FacegenTypes, PageFits, JobFits, ExceptionsFollowFile, ExceptionWriteFails
<1>22. CASE RefreshAfter
  BY <1>22, NothingPublished DEF RefreshAfter
<1> HIDE DEF FacegenInv, gameVars, iniVars, publishedVars, jobVars, pageVars
<1> QED
  BY <1>1, <1>2, <1>3, <1>4, <1>5, <1>6, <1>7, <1>8, <1>9, <1>10, <1>11, <1>12, <1>13,
      <1>14, <1>15, <1>16, <1>17, <1>18, <1>19, <1>20, <1>21, <1>22
  DEF FacegenNext

(* Every step keeps what is published what the file says.                  *)
LEMMA FollowKept == FacegenInv /\ FacegenNext => ExceptionsFollowFile'
<1> SUFFICES ASSUME FacegenInv, FacegenNext PROVE ExceptionsFollowFile'
  OBVIOUS
<1> USE FacegenAssumption DEF FacegenInv, gameVars, iniVars, publishedVars, jobVars,
    pageVars
<1>1. CASE LoadPlugins
  BY <1>1 DEF FacegenTypes, PageFits, JobFits, ExceptionsFollowFile, LoadPlugins
<1>2. CASE EditIni
  <2>1. UNCHANGED <<enabled, published, persistence, exceptionSnapshot>> /\ fresh' = FALSE
    BY <1>2 DEF EditIni
  <2>2. iniFile' = NoIni \/ iniFile'.comments = TRUE
    <3>1. iniFile' = NoIni \/ \E s, e : iniFile' = [comments |-> TRUE, section |-> s, entries |-> e]
      BY <1>2 DEF EditIni
    <3> QED BY <3>1
  <2> HIDE DEF AllForms, Section
  <2> QED BY <2>1, <2>2 DEF ExceptionsFollowFile
<1>3. CASE ReadExceptions
  BY <1>3 DEF FacegenTypes, PageFits, JobFits, ExceptionsFollowFile, ReadExceptions,
      LoadExceptions
<1>4. CASE PublishForms
  BY <1>4 DEF FacegenTypes, PageFits, JobFits, ExceptionsFollowFile, PublishForms
<1>5. CASE PublishSnapshot
  <2>1. /\ job.step = "snapshot"
        /\ exceptionSnapshot' = [readAttempted |-> TRUE, entries |-> job.entries,
                                 count |-> Cardinality(job.forms)]
        /\ UNCHANGED <<enabled, pluginsLoaded, iniFile, fresh, published>>
    BY <1>5 DEF PublishSnapshot
  <2>2. /\ published = job.forms /\ Primaries \subseteq job.forms
        /\ fresh => job.forms = AllForms(Section) /\ job.entries = Section
    BY <2>1 DEF JobFits
  <2>3. Section' = Section
    BY <2>1 DEF Section, HasSection
  <2>4. AllForms(Section)' = AllForms(Section)
    BY <2>1, <2>3 DEF AllForms, Resolves, RuntimeFormID
  <2>5. exceptionSnapshot'.entries = job.entries /\ exceptionSnapshot'.count = Cardinality(published)
    BY <2>1, <2>2
  <2> HIDE DEF AllForms, Section
  <2> QED BY <2>1, <2>2, <2>3, <2>4, <2>5 DEF ExceptionsFollowFile
<1>6. CASE BeginFrame
  BY <1>6, NothingPublished DEF BeginFrame
<1>7. CASE EndFrame
  BY <1>7, NothingPublished DEF EndFrame, Drawn
<1>8. CASE BeginAdd
  BY <1>8, NothingPublished DEF BeginAdd, Drawn
<1>9. CASE BeginEdit
  BY <1>9, NothingPublished DEF BeginEdit, Drawn
<1>10. CASE RemoveEntry
  BY <1>10, NothingPublished DEF RemoveEntry, Drawn
<1>11. CASE CommitEditor
  BY <1>11, NothingPublished DEF CommitEditor, Drawn
<1>12. CASE CloseEditor
  BY <1>12, NothingPublished DEF CloseEditor, Drawn
<1>13. CASE AskToDiscard
  BY <1>13, NothingPublished DEF AskToDiscard, Drawn
<1>14. CASE AskToReload
  BY <1>14, NothingPublished DEF AskToReload, Drawn
<1>15. CASE Cancel
  BY <1>15, NothingPublished DEF Cancel
<1>16. CASE DiscardChanges
  BY <1>16, NothingPublished DEF DiscardChanges
<1>17. CASE ReloadExceptions
  BY <1>17 DEF FacegenTypes, PageFits, JobFits, ExceptionsFollowFile, ReloadExceptions,
      LoadExceptions
<1>18. CASE SaveExceptions
  BY <1>18 DEF FacegenTypes, PageFits, JobFits, ExceptionsFollowFile, SaveExceptions,
      AsksToSave, CanBeSaved, Idle, LeadingComments
<1>19. CASE SaveRefused
  BY <1>19, NothingPublished DEF SaveRefused, AsksToSave, Idle, Drawn
<1>20. CASE WriteExceptions
  BY <1>20 DEF FacegenTypes, PageFits, JobFits, ExceptionsFollowFile, WriteExceptions,
      LeadingComments
<1>21. CASE ExceptionWriteFails
  <2>1. /\ job.step = "write" /\ persistence' = Nobody
        /\ UNCHANGED <<enabled, pluginsLoaded, iniFile, fresh, published, exceptionSnapshot>>
    BY <1>21 DEF ExceptionWriteFails
  <2>2. Section' = Section
    BY <2>1 DEF Section, HasSection
  <2>3. AllForms(Section)' = AllForms(Section)
    BY <2>1, <2>2 DEF AllForms, Resolves, RuntimeFormID
  <2>4. PublishedAgrees
    BY <2>1 DEF JobFits
  <2> HIDE DEF AllForms, Section
  <2> QED BY <2>1, <2>2, <2>3, <2>4 DEF ExceptionsFollowFile, PublishedAgrees
<1>22. CASE RefreshAfter
  BY <1>22, NothingPublished DEF RefreshAfter
<1> HIDE DEF FacegenInv, gameVars, iniVars, publishedVars, jobVars, pageVars
<1> QED
  BY <1>1, <1>2, <1>3, <1>4, <1>5, <1>6, <1>7, <1>8, <1>9, <1>10, <1>11, <1>12, <1>13,
      <1>14, <1>15, <1>16, <1>17, <1>18, <1>19, <1>20, <1>21, <1>22
  DEF FacegenNext

(* The invariant holds when the game starts.                               *)
LEMMA FacegenStarts == FacegenStart => FacegenInv
<1> SUFFICES ASSUME FacegenStart PROVE FacegenInv
  OBVIOUS
<1> DEFINE n0 == CHOOSE n \in Names : TRUE
           i0 == CHOOSE i \in FormIDs : TRUE
           v0 == [id |-> i0, plugin |-> NoPlugin]
           e0 == [n \in {n0} |-> v0]
<1>1. n0 \in Names /\ i0 \in FormIDs
  BY FacegenAssumption
<1>2. v0 \in EntryValues
  BY <1>1 DEF EntryValues
<1> HIDE DEF n0, v0
<1>3. e0 \in Drafts
  BY <1>1, <1>2, DraftsStay
<1>4. iniFile = [comments |-> TRUE, section |-> TRUE, entries |-> e0]
  BY DEF FacegenStart, n0, v0
<1> HIDE DEF e0
<1>5. iniFile \in IniFiles /\ iniFile.comments = TRUE
  BY <1>3, <1>4 DEF IniFiles
<1>6. FacegenTypes
  BY <1>5, DraftsStay DEF FacegenStart, FacegenTypes
<1>7. PageFits /\ JobFits
  BY FacegenAssumption DEF FacegenStart, PageFits, JobFits
<1>8. ExceptionsFollowFile
  BY <1>5 DEF FacegenStart, ExceptionsFollowFile
<1> QED BY <1>6, <1>7, <1>8 DEF FacegenInv

(* Every step keeps the invariant.                                         *)
LEMMA FacegenStep == FacegenInv /\ [FacegenNext]_facegenVars => FacegenInv'
<1>1. CASE FacegenNext
  BY <1>1, FacegenTypesKept, PageFitsKept, JobFitsKept, FollowKept DEF FacegenInv
<1>2. ASSUME FacegenInv, UNCHANGED facegenVars PROVE FacegenInv'
  <2>1. UNCHANGED <<gameVars, iniVars, publishedVars, jobVars, pageVars>>
    BY <1>2 DEF facegenVars
  <2>2. UNCHANGED <<enabled, pluginsLoaded, iniFile, fresh, published, exceptionSnapshot,
                    persistence, job, page, frame>>
    BY <2>1 DEF gameVars, iniVars, publishedVars, jobVars, pageVars
  <2>3. JobFits' /\ ExceptionsFollowFile'
    BY <1>2, <2>2, NothingPublished DEF FacegenInv
  <2>4. FacegenTypes' /\ PageFits'
    BY <1>2, <2>2 DEF FacegenInv, FacegenTypes, PageFits
  <2> QED BY <2>3, <2>4 DEF FacegenInv
<1> QED BY <1>1, <1>2

(* A draft with unsaved changes, or an editor that is open, is given up in *)
(* one step for a save, or because the user said so.                       *)
LEMMA ChangesKeptByStep ==
    ASSUME FacegenInv, FacegenNext, page'.entries # page.entries
    PROVE  /\ page.dirty => page'.dirty \/ page.confirmation = "discard" \/ page.saved
           /\ page.editor # Closed => page'.dirty
<1> USE DEF FacegenInv, FacegenTypes, PageFits, pageVars
<1>1. CASE BeginFrame
  BY <1>1 DEF BeginFrame, RefreshDraft, Outdated
<1>2. CASE RemoveEntry
  BY <1>2 DEF RemoveEntry, Drawn
<1>3. CASE CommitEditor
  BY <1>3 DEF CommitEditor, Drawn, Committed
<1>4. CASE DiscardChanges
  BY <1>4 DEF DiscardChanges
<1>5. CASE RefreshAfter
  BY <1>5 DEF RefreshAfter
<1>6. CASE UNCHANGED page
  BY <1>6
<1>7. CASE PublishSnapshot \/ EndFrame \/ BeginAdd \/ BeginEdit \/ CloseEditor
           \/ AskToDiscard \/ AskToReload \/ Cancel \/ SaveRefused
  <2>1. page'.entries = page.entries
    BY <1>7 DEF PublishSnapshot, EndFrame, BeginAdd, BeginEdit, CloseEditor, AskToDiscard,
           AskToReload, Cancel, SaveRefused, Drawn
  <2> QED BY <2>1
<1>8. LoadPlugins \/ EditIni \/ ReadExceptions \/ PublishForms \/ ReloadExceptions
         \/ SaveExceptions \/ WriteExceptions \/ ExceptionWriteFails => UNCHANGED page
  BY DEF LoadPlugins, EditIni, ReadExceptions, PublishForms, ReloadExceptions,
         SaveExceptions, WriteExceptions, ExceptionWriteFails
<1> HIDE DEF FacegenInv, FacegenTypes, PageFits, pageVars
<1> QED BY <1>1, <1>2, <1>3, <1>4, <1>5, <1>6, <1>7, <1>8 DEF FacegenNext

(* What is published of the exceptions is what the file says, and what the *)
(* file says is never lost.                                                *)
THEOREM ExceptionsAlwaysWhole == FacegenSpec => []ExceptionsAreWhole
<1>1. FacegenSpec => []FacegenInv
  BY FacegenStarts, FacegenStep, PTL DEF FacegenSpec
<1>2. FacegenInv => ExceptionsAreWhole
  BY DEF FacegenInv, FacegenTypes, JobFits, FacegenTypeOK, ExceptionsAreWhole
<1> QED BY <1>1, <1>2, PTL

(* The draft of the page outlives what the game's thread publishes.        *)
THEOREM DraftsAreKept == FacegenSpec => UnsavedChangesKept
<1>1. FacegenSpec => []FacegenInv
  BY FacegenStarts, FacegenStep, PTL DEF FacegenSpec
<1>2. FacegenInv /\ [FacegenNext]_facegenVars =>
         [page'.entries # page.entries =>
            /\ page.dirty => page'.dirty \/ page.confirmation = "discard" \/ page.saved
            /\ page.editor # Closed => page'.dirty]_facegenVars
  BY ChangesKeptByStep
<1> QED BY <1>1, <1>2, PTL DEF FacegenSpec, UnsavedChangesKept

-----------------------------------------------------------------------------
(***************************************************************************)
(* SettingsStore: types, the atomicity of saves, what a save keeps and     *)
(* what the menu shows, for any settings, values, custom files and number  *)
(* of edits.                                                               *)
(*                                                                         *)
(* The inductive invariant adds to SavesAreAtomic where the file's values  *)
(* are at each program counter, to the file operation in progress that its *)
(* output was built from the file that is still there, and to the menu     *)
(* what the values in memory are before the repository is constructed.     *)
(***************************************************************************)

USE DEF Values

(* The file has the values of the save only once it is replaced.           *)
FileValues ==
    /\ Held(base) = IF pc = "commit" THEN attempt ELSE saved
    /\ pc \notin {"apply", "commit"} => attempt = saved

(* The output is built from the file as it is, and complete in the         *)
(* temporary file when it replaces it.                                     *)
OutputIsBuilt ==
    /\ io \in {"create", "write", "replace"} =>
        \E document \in Parsed(base) : output = Build(document)
    /\ io = "replace" => temp = output

(* The values the menu goes by.                                            *)
Current == IF committed = None THEN value ELSE committed

(* Values, committed values and draft belong together.                     *)
MemoryAgrees ==
    /\ pc \in {"off", "refresh", "load"} => committed = None
    /\ committed = None => draft = None
    /\ committed = None /\ pc = "menu" => value = loaded
    /\ ValuesFollowTiming
    /\ draft # None => shown = committed
    /\ pc \in {"apply", "commit"} => draft = attempt
    /\ pc \in {"menu", "apply", "commit"} /\ byMenu =>
        \A s \in Settings : Sets(custom, s) \/ Current[s] = saved[s]

FilePart == TypeOK /\ FileValues /\ ForeignKept /\ OutputIsBuilt
IInv == FilePart /\ MemoryAgrees

-----------------------------------------------------------------------------
(* What a launch takes from a file is a value of each setting.             *)
LEMMA HeldType == ASSUME NEW file PROVE Held(file) \in Snapshots
BY SettingsAssumption DEF Held, Sets, Document, Snapshots

(* The empty document is a document.                                       *)
LEMMA EmptyType == EmptyDocument \in Document
BY DEF EmptyDocument, Document

(* A file that parses is parsed to a document with its values and its      *)
(* foreign entries.                                                        *)
LEMMA ParsedKeeps ==
    ASSUME NEW file, NEW document \in Parsed(file)
    PROVE  /\ document \in Document
           /\ Held(document) = Held(file)
           /\ Foreign(document) = Foreign(file)
           /\ file # Torn
<1>1. CASE file \in Document
  BY <1>1, SettingsAssumption DEF Parsed
<1>2. CASE file = NoFile
  <2>1. document = EmptyDocument
    BY <1>2, SettingsAssumption DEF Parsed
  <2>2. \A s \in Settings : ~Sets(EmptyDocument, s) /\ ~Sets(NoFile, s)
    BY SettingsAssumption DEF Sets, EmptyDocument
  <2>3. Held(EmptyDocument) = Held(NoFile)
    BY <2>2 DEF Held
  <2>4. Foreign(EmptyDocument) = FALSE /\ Foreign(NoFile) = FALSE
    BY SettingsAssumption, EmptyType DEF Foreign, EmptyDocument
  <2> QED BY <1>2, <2>1, <2>3, <2>4, EmptyType, SettingsAssumption
<1>3. CASE file \notin Document /\ file # NoFile
  BY <1>3, SettingsAssumption DEF Parsed
<1> QED BY <1>1, <1>2, <1>3

(* UpdateOwnedSettings writes a document that holds the given, and      *)
(* leaves what is not ours.                                                *)
LEMMA UpdateHolds ==
    ASSUME NEW document \in Document, NEW given \in Snapshots
    PROVE  LET updated == RenderDocument(UpdateOwnedSettings(document, given))
           IN  /\ updated \in Document
               /\ Held(updated) = given
               /\ Foreign(updated) = Foreign(document)
<1> DEFINE updated == RenderDocument(UpdateOwnedSettings(document, given))
<1>1. /\ updated \in Document
      /\ updated.foreign = document.foreign
      /\ updated.set = [s \in Settings |->
            IF given[s] = Default[s] THEN None ELSE given[s]]
  BY DEF UpdateOwnedSettings, RenderDocument, Document, Snapshots
<1> HIDE DEF updated
<1>2. \A s \in Settings :
        (IF Sets(updated, s) THEN updated.set[s] ELSE Default[s]) = given[s]
  BY <1>1, SettingsAssumption DEF Sets, Snapshots
<1>3. Held(updated) = [s \in Settings |-> given[s]]
  BY <1>2 DEF Held
<1>4. Held(updated) = given
  BY <1>3 DEF Snapshots
<1>5. Foreign(updated) = Foreign(document)
  BY <1>1, SettingsAssumption DEF Foreign
<1> QED BY <1>1, <1>4, <1>5 DEF updated

(* Adding the descriptions changes nothing else.                           *)
LEMMA RenderKeeps ==
    ASSUME NEW document \in Document
    PROVE  /\ RenderDocument(document) \in Document
           /\ Held(RenderDocument(document)) = Held(document)
           /\ Foreign(RenderDocument(document)) = Foreign(document)
<1> DEFINE rendered == RenderDocument(document)
<1>1. /\ rendered \in Document
      /\ rendered.set = document.set /\ rendered.foreign = document.foreign
  BY DEF RenderDocument, Document
<1> HIDE DEF rendered
<1>2. Held(rendered) = Held(document)
  BY <1>1 DEF Held, Sets
<1>3. Foreign(rendered) = Foreign(document)
  BY <1>1, SettingsAssumption DEF Foreign
<1> QED BY <1>1, <1>2, <1>3 DEF rendered

(* What an operation builds of the file: after it the file has the values  *)
(* of the save, or after a refresh those it had, and its foreign entries.  *)
LEMMA BuildKeeps ==
    ASSUME TypeOK, Busy, NEW document \in Parsed(base)
    PROVE  /\ Build(document) \in Document
           /\ Held(Build(document)) = IF pc = "refresh" THEN Held(base) ELSE attempt
           /\ Foreign(Build(document)) = Foreign(base)
           /\ Foreign(base) \in BOOLEAN
  BY ParsedKeeps, SettingsAssumption, RenderKeeps, UpdateHolds DEF TypeOK, Foreign, Document, Build

-----------------------------------------------------------------------------
(* The initial states.                                                     *)
LEMMA FileInit == Init => FilePart
<1> SUFFICES ASSUME Init PROVE FilePart
  OBVIOUS
<1>1. base \in Document \cup {NoFile} /\ base # Torn
  BY EmptyType, SettingsAssumption DEF Init
<1>2. \A s \in Settings : ~Sets(EmptyDocument, s) /\ ~Sets(NoFile, s)
  BY SettingsAssumption DEF Sets, EmptyDocument
<1>3. Held(base) = Default
  BY <1>2, SettingsAssumption DEF Held, Init
<1>4. Foreign(base) = FALSE
  <2>1. EmptyDocument.foreign = FALSE
    BY DEF EmptyDocument
  <2> QED BY <2>1, EmptyType, SettingsAssumption DEF Foreign, Init
<1>5. TypeOK
  <2>1. Default \in Snapshots /\ 0 \in 0 .. MaxEdits
    BY SettingsAssumption DEF Snapshots
  <2>2. custom \in Document \cup {NoFile}
    BY SettingsAssumption DEF Init
  <2> QED BY <1>1, <2>1, <2>2 DEF Init, TypeOK, Busy
<1> QED
  BY <1>1, <1>3, <1>4, <1>5 DEF Init, FilePart, FileValues, ForeignKept, OutputIsBuilt

(* A file operation that fails leaves the file and its values alone.       *)
LEMMA FailKeeps ==
    ASSUME FilePart, Busy, Fail, temp' \in {NoFile, temp}
    PROVE  FilePart'
<1> USE DEF FilePart, Fail, Busy, menuVars, valueVars, userVars
<1>1. TypeOK'
  BY DEF TypeOK
<1>2. Held(base)' = Held(base) /\ Foreign(base)' = Foreign(base)
  BY DEF Held, Foreign, Sets
<1>3. FileValues'
  BY <1>2 DEF FileValues
<1>4. ForeignKept' /\ OutputIsBuilt'
  BY <1>2 DEF ForeignKept, OutputIsBuilt
<1> QED BY <1>1, <1>3, <1>4

(* One that succeeds leaves in the file what it built of it.               *)
LEMMA SucceedKeeps ==
    ASSUME FilePart, Busy, Succeed, temp' \in {NoFile, temp},
           NEW document \in Parsed(base), base' = Build(document)
    PROVE  FilePart'
<1> USE DEF FilePart, Succeed, Busy, menuVars, valueVars, userVars, saveVars
<1>1. /\ base' \in Document
      /\ Held(base') = IF pc = "refresh" THEN Held(base) ELSE attempt
      /\ Foreign(base') = Foreign(base)
  BY BuildKeeps
<1>2. Held(base)' = Held(base') /\ Foreign(base)' = Foreign(base')
  BY DEF Held, Foreign, Sets
<1>3. TypeOK'
  BY <1>1 DEF TypeOK
<1>4. FileValues'
  BY <1>1, <1>2 DEF FileValues, TypeOK
<1>5. ForeignKept'
  BY <1>1, <1>2, SettingsAssumption DEF ForeignKept
<1>6. OutputIsBuilt'
  BY DEF OutputIsBuilt
<1> QED BY <1>3, <1>4, <1>5, <1>6

(* Every step of a file operation.                                         *)
LEMMA WriteStepsKeep == ASSUME FilePart, WriteSteps PROVE FilePart'
<1>1. Busy
  BY DEF WriteSteps, FilePart, TypeOK, ReadFails, ParseFails, Unchanged, BuildDocument,
         CreateTemporary, CreateFails, WriteTemporary, WriteFails, ReplaceFile,
         ReplaceFails
<1>2. ASSUME ReadFails \/ ParseFails \/ CreateFails \/ WriteFails \/ ReplaceFails
      PROVE  FilePart'
  BY <1>1, <1>2, FailKeeps
     DEF ReadFails, ParseFails, CreateFails, WriteFails, ReplaceFails
<1>3. ASSUME Unchanged PROVE FilePart'
  <2>1. PICK document \in Parsed(base) : Build(document) = base
    BY <1>3 DEF Unchanged
  <2> QED BY <1>1, <1>3, <2>1, SucceedKeeps DEF Unchanged
<1>4. ASSUME ReplaceFile PROVE FilePart'
  <2>1. PICK document \in Parsed(base) : output = Build(document)
    BY <1>4 DEF ReplaceFile, FilePart, OutputIsBuilt
  <2>2. base' = Build(document)
    BY <1>4, <2>1 DEF ReplaceFile, FilePart, OutputIsBuilt
  <2> QED BY <1>1, <1>4, <2>2, SucceedKeeps DEF ReplaceFile
<1>5. ASSUME BuildDocument \/ CreateTemporary \/ WriteTemporary PROVE FilePart'
  <2> USE <1>1 DEF fileVars, menuVars, valueVars, userVars, saveVars
  <2>1. /\ base' = base /\ pc' = pc /\ attempt' = attempt /\ saved' = saved
        /\ kept' = kept
    BY <1>5 DEF BuildDocument, CreateTemporary, WriteTemporary
  <2>2. PICK document \in Parsed(base) : output' = Build(document)
    BY <1>5 DEF BuildDocument, CreateTemporary, WriteTemporary, FilePart, OutputIsBuilt
  <2>3. Build(document) \in Document
    BY BuildKeeps DEF FilePart
  <2>4. TypeOK'
    BY <1>5, <2>2, <2>3
       DEF FilePart, TypeOK, BuildDocument, CreateTemporary, WriteTemporary, Busy
  <2>5. FileValues' /\ ForeignKept'
    BY <2>1 DEF FilePart, FileValues, ForeignKept, Held, Sets, Foreign
  <2>6. Parsed(base)' = Parsed(base) /\ Build(document)' = Build(document)
    BY <2>1 DEF Parsed, Build, UpdateOwnedSettings
  <2>7. OutputIsBuilt'
    BY <1>5, <2>2, <2>6
       DEF OutputIsBuilt, BuildDocument, CreateTemporary, WriteTemporary
  <2> QED BY <2>4, <2>5, <2>7 DEF FilePart
<1> QED BY <1>2, <1>3, <1>4, <1>5 DEF WriteSteps

(* The user's edit starts from what the user wrote.                        *)
LEMMA EditKeepsFile == ASSUME FilePart, Edit PROVE FilePart'
<1> USE DEF FilePart, Edit
<1>1. PICK file \in Document \cup {NoFile, Unusable} :
        /\ base' = file /\ kept' = Foreign(file)
        /\ saved' = Held(file) /\ attempt' = Held(file)
  OBVIOUS
<1>2. Foreign(file) \in BOOLEAN \cup {Unusable} /\ file # Torn
  BY SettingsAssumption DEF Foreign, Document
<1>3. Held(base)' = Held(file) /\ Foreign(base)' = Foreign(file)
  BY <1>1 DEF Held, Sets, Foreign
<1>4. edits' \in 0 .. MaxEdits
  BY SettingsAssumption DEF TypeOK
<1>5. TypeOK'
  BY ZenonT(40), <1>1, <1>2, <1>4, HeldType DEF TypeOK, Busy, valueVars, menuVars
<1>6. FileValues' /\ ForeignKept'
  BY <1>1, <1>2, <1>3 DEF FileValues, ForeignKept
<1>7. OutputIsBuilt'
  BY DEF OutputIsBuilt, TypeOK, Busy
<1> QED BY <1>5, <1>6, <1>7

(* The end of the game settles which save the file has.                    *)
LEMMA EndKeepsFile == ASSUME FilePart, End PROVE FilePart'
<1> USE DEF FilePart, End, fileVars, valueVars, userVars
<1>1. Held(base)' = Held(base) /\ Foreign(base)' = Foreign(base)
  BY DEF Held, Sets, Foreign
<1>2. TypeOK'
  BY DEF TypeOK, Busy
<1>3. FileValues'
  BY <1>1 DEF FileValues
<1>4. ForeignKept' /\ OutputIsBuilt'
  BY <1>1 DEF ForeignKept, OutputIsBuilt
<1> QED BY <1>2, <1>3, <1>4

(* The launch and the menu write no file themselves.                       *)
LEMMA OthersKeepFile ==
    ASSUME FilePart, Launch \/ Load \/ MenuSteps
    PROVE  FilePart'
<1> USE DEF FilePart, fileVars, menuVars, valueVars, userVars, saveVars
<1>1. base' = base /\ temp' = temp /\ kept' = kept /\ custom' = custom
  BY DEF MenuSteps, Launch, Load, EnsureDraft, ChangeDraft, ResetDraft,
         RevertDraft, Drafted, LeaveSettingsDraft, Apply, Commit
<1>2. Held(base)' = Held(base) /\ Foreign(base)' = Foreign(base)
  BY <1>1 DEF Held, Sets, Foreign
<1>3. CASE Launch
  BY <1>2, <1>3
     DEF Launch, TypeOK, Busy, FileValues, ForeignKept, OutputIsBuilt
<1>4. CASE Load
  <2>1. Held(base) \in Snapshots
    BY HeldType
  <2>2. \A s \in Settings : Sets(custom, s) => custom.set[s] \in Values
    BY SettingsAssumption DEF Sets, Document
  <2>3. value' \in Snapshots
    BY <1>4, <2>1, <2>2 DEF Load, Snapshots
  <2> QED
    BY <1>2, <1>4, <2>3
       DEF Load, TypeOK, Busy, FileValues, ForeignKept, OutputIsBuilt
<1>5. CASE ChangeDraft
  <2>1. PICK s \in Settings, v \in 0 .. (MaxValue + 1) :
            Drafted([draft EXCEPT ![s] = NormalizeSettingDraftValue(v)])
    BY <1>5 DEF ChangeDraft
  <2>2. NormalizeSettingDraftValue(v) \in Values
    BY SettingsAssumption DEF NormalizeSettingDraftValue
  <2>3. draft' \in Snapshots
    BY <2>1, <2>2 DEF Drafted, TypeOK, Snapshots
  <2> QED
    BY <1>2, <2>1, <2>3
       DEF Drafted, TypeOK, Busy, FileValues, ForeignKept, OutputIsBuilt
<1>6. CASE ResetDraft \/ RevertDraft
  <2>1. Default \in Snapshots
    BY SettingsAssumption DEF Snapshots
  <2> QED
    BY <1>2, <1>6, <2>1
       DEF ResetDraft, RevertDraft, Drafted, TypeOK, Busy, FileValues, ForeignKept,
           OutputIsBuilt
<1>7. CASE EnsureDraft \/ LeaveSettingsDraft
  BY <1>2, <1>7
     DEF EnsureDraft, LeaveSettingsDraft, TypeOK, Busy, FileValues, ForeignKept,
         OutputIsBuilt
<1>8. CASE Apply
  BY <1>2, <1>8 DEF Apply, TypeOK, Busy, FileValues, ForeignKept, OutputIsBuilt
<1>9. CASE Commit
  BY <1>9, <1>2 DEF Commit, TypeOK, Snapshots, Busy, FileValues, ForeignKept, OutputIsBuilt
<1> QED BY <1>3, <1>4, <1>5, <1>6, <1>7, <1>8, <1>9 DEF MenuSteps

-----------------------------------------------------------------------------
(* What the menu goes by, step by step.                                    *)

(* Initially there is no repository.                                       *)
LEMMA MemoryInit == Init => MemoryAgrees
BY DEF Init, MemoryAgrees, ValuesFollowTiming

(* The user and the end of the game.                                       *)
LEMMA UserKeepsMemory ==
    ASSUME MemoryAgrees, Edit \/ End
    PROVE  MemoryAgrees'
BY DEF MemoryAgrees, ValuesFollowTiming, Current, Sets, Edit, End, fileVars,
       valueVars, menuVars, userVars

(* A file operation, whether it fails or not, changes nothing in memory.   *)
LEMMA WriteStepsKeepMemory ==
    ASSUME FilePart, MemoryAgrees, WriteSteps
    PROVE  MemoryAgrees'
<1> USE DEF MemoryAgrees, fileVars, valueVars, menuVars, userVars, saveVars
<1>1. Busy
  BY DEF WriteSteps, FilePart, TypeOK, ReadFails, ParseFails, Unchanged,
         BuildDocument, CreateTemporary, CreateFails, WriteTemporary, WriteFails,
         ReplaceFile, ReplaceFails
<1>2. /\ UNCHANGED <<custom, value, loaded, committed, shown, draft, saved, byMenu>>
      /\ \/ pc' = pc /\ attempt' = attempt
         \/ pc = "refresh" /\ pc' = "load"
         \/ pc = "apply" /\ pc' = "menu"
         \/ pc = "apply" /\ pc' = "commit" /\ attempt' = attempt
  BY <1>1 DEF WriteSteps, Busy, Fail, Succeed, ReadFails, ParseFails, Unchanged,
         BuildDocument, CreateTemporary, CreateFails, WriteTemporary, WriteFails,
         ReplaceFile, ReplaceFails
<1>3. pc = "apply" => committed # None
  BY DEF FilePart, TypeOK
<1> QED
  BY <1>2, <1>3 DEF ValuesFollowTiming, Current, Sets

(* The launch and the menu.                                                *)
LEMMA OthersKeepMemory ==
    ASSUME FilePart, MemoryAgrees, Launch \/ Load \/ MenuSteps
    PROVE  MemoryAgrees'
<1> USE DEF MemoryAgrees, fileVars, valueVars, menuVars, userVars, saveVars,
            ValuesFollowTiming, Current, Sets
<1>1. CASE Launch
  BY <1>1 DEF Launch
<1>2. CASE Load
  BY <1>2 DEF Load, FilePart, FileValues
<1>3. CASE EnsureDraft
  BY <1>3 DEF EnsureDraft, FilePart, TypeOK
<1>4. CASE ChangeDraft
  <2>1. PICK s \in Settings, v \in 0 .. (MaxValue + 1) :
            Drafted([draft EXCEPT ![s] = NormalizeSettingDraftValue(v)])
    BY <1>4 DEF ChangeDraft
  <2> QED BY <2>1 DEF Drafted
<1>5. CASE ResetDraft \/ RevertDraft \/ LeaveSettingsDraft
  BY <1>5 DEF ResetDraft, RevertDraft, Drafted, LeaveSettingsDraft
<1>6. CASE Apply
  BY <1>6 DEF Apply
<1>7. CASE Commit
  BY <1>7, SettingsAssumption DEF Commit, FilePart, TypeOK, Snapshots
<1> QED BY <1>1, <1>2, <1>3, <1>4, <1>5, <1>6, <1>7 DEF MenuSteps

(* Every step keeps the inductive invariant.                               *)
LEMMA NextKeeps == IInv /\ [Next]_vars => IInv'
<1> SUFFICES ASSUME IInv, [Next]_vars PROVE IInv'
  OBVIOUS
<1>1. CASE Edit
  BY <1>1, EditKeepsFile, UserKeepsMemory DEF IInv
<1>2. CASE End
  BY <1>2, EndKeepsFile, UserKeepsMemory DEF IInv
<1>3. CASE WriteSteps
  BY <1>3, WriteStepsKeep, WriteStepsKeepMemory DEF IInv
<1>4. CASE Launch \/ Load \/ MenuSteps
  BY <1>4, OthersKeepFile, OthersKeepMemory DEF IInv
<1>5. CASE UNCHANGED vars
  <2> USE <1>5 DEF vars, IInv, FilePart
  <2>1. TypeOK'
    BY DEF TypeOK, Busy
  <2>2. FileValues' /\ ForeignKept'
    BY DEF FileValues, ForeignKept, Held, Sets, Foreign
  <2>3. OutputIsBuilt'
    <3>1. Parsed(base)' = Parsed(base)
      BY DEF Parsed
    <3>2. \A document : Build(document)' = Build(document)
      BY DEF Build, UpdateOwnedSettings
    <3> QED BY <3>1, <3>2 DEF OutputIsBuilt
  <2>4. MemoryAgrees'
    BY DEF MemoryAgrees, ValuesFollowTiming, Current, Sets
  <2> QED BY <2>1, <2>2, <2>3, <2>4
<1> QED BY <1>1, <1>2, <1>3, <1>4, <1>5 DEF Next

(* The inductive invariant holds in every state.                           *)
THEOREM Inductive == Spec => []IInv
<1>1. Init => IInv
  BY FileInit, MemoryInit DEF IInv
<1> QED BY <1>1, NextKeeps, PTL DEF Spec

(* Types: drafts, committed values and files stay in range whatever the    *)
(* controls return and the user edits.                                     *)
THEOREM TypeCorrect == Spec => []TypeOK
<1>1. IInv => TypeOK
  BY DEF IInv, FilePart
<1> QED BY <1>1, Inductive, PTL

(* WriteAtomically with its callers: after any failure and any end of the  *)
(* game the file has all values of one save.                               *)
THEOREM AtomicSaves == Spec => []SavesAreAtomic
<1>1. IInv => SavesAreAtomic
  BY DEF IInv, FilePart, FileValues, SavesAreAtomic
<1> QED BY <1>1, Inductive, PTL

(* The file is never torn, an unusable one never overwritten and entries   *)
(* that are not the plugin's never lost.                                   *)
THEOREM UserDataSurvives == Spec => []ForeignKept
<1>1. IInv => ForeignKept
  BY DEF IInv, FilePart
<1> QED BY <1>1, Inductive, PTL

(* Only immediate settings change in memory, and they follow the commits.  *)
THEOREM TimingRespected == Spec => []ValuesFollowTiming
<1>1. IInv => ValuesFollowTiming
  BY DEF IInv, MemoryAgrees
<1> QED BY <1>1, Inductive, PTL

(* What the menu shows as committed after a save is what the next launch   *)
(* loads, where AddictolCustom.toml does not set it.                       *)
THEOREM CommittedValuesLoad == Spec => []CommittedWillLoad
<1>1. IInv => CommittedWillLoad
  BY DEF IInv, FilePart, FileValues, MemoryAgrees, Current, CommittedWillLoad
<1> QED BY <1>1, Inductive, PTL

-----------------------------------------------------------------------------
(* The rows and the frames of the telemetry.  First the arithmetic: of the   *)
(* word that holds a count and a total, of the cadence, of rings.            *)

LEMMA FrameConstants ==
    /\ RowCapacity \in Nat \ {0} /\ RecordCapacity \in Nat \ {0} /\ CountMask \in Nat \ {0}
    /\ Cadence \in Nat \ {0} /\ MaxClock \in Nat \ {0}
    /\ TotalMask \in Nat /\ Threshold \in Nat /\ MaxStarts \in Nat
  BY FrameTelemetryAssumption

LEMMA QuotientAndRest ==
    ASSUME NEW a \in Nat, NEW m \in Nat \ {0}, NEW r \in 0..(m - 1)
    PROVE  (a * m + r) \div m = a /\ (a * m + r) % m = r
  BY Z3

LEMMA QuotientBelow ==
    ASSUME NEW x \in Nat, NEW m \in Nat \ {0}
    PROVE  x \div m \in Nat /\ (x \div m) * m <= x /\ x < (x \div m + 1) * m /\ x % m \in 0..(m - 1)
           /\ x = (x \div m) * m + (x % m)
<1>1. PICK q \in Int : q = x \div m
  OBVIOUS
<1>2. PICK r \in 0..(m - 1) : r = x % m
  OBVIOUS
<1>3. x = m * q + r
  BY <1>1, <1>2
<1>4. q >= 0
  BY <1>3
<1>5. PICK p \in Int : p = m * q
  OBVIOUS
<1>6. q * m = p /\ (q + 1) * m = p + m
  BY <1>5
<1>7. x = p + r
  BY <1>3, <1>5
<1>8. q \in Nat /\ p <= x /\ x < p + m /\ r \in 0..(m - 1)
  BY <1>4, <1>7
<1>9. (x \div m) * m = p /\ (x \div m + 1) * m = p + m
  BY ONLY <1>1, <1>6, Zenon
<1>10. x \div m \in Nat /\ x % m \in 0..(m - 1)
  BY ONLY <1>1, <1>2, <1>8, Zenon
<1>11. x = p + (x % m)
  BY ONLY <1>2, <1>7, Zenon
<1>12. PICK A, B : A = (x \div m) * m /\ B = (x \div m + 1) * m
  OBVIOUS
<1>13. A <= x /\ x < B /\ A = p
  BY <1>8, <1>9, <1>12
<1> QED
  BY ONLY <1>10, <1>11, <1>12, <1>13, Zenon

LEMMA RestOfLess ==
    ASSUME NEW x \in Nat, NEW m \in Nat \ {0}, x < 2 * m
    PROVE  x % m = IF x < m THEN x ELSE x - m
  BY QuotientAndRest

(* One step on, or several but no more than once around.                     *)
Around(x, i, m) == IF x + i < m THEN x + i ELSE x + i - m
LEMMA AroundIsRest ==
    ASSUME NEW m \in Nat \ {0}, NEW x \in 0..(m - 1), NEW i \in 0..m
    PROVE  (x + i) % m = Around(x, i, m)
<1>1. PICK y \in Nat : y = x + i
  OBVIOUS
<1>2. y < 2 * m
  BY <1>1
<1>3. y % m = IF y < m THEN y ELSE y - m
  BY <1>2, RestOfLess
<1> QED
  BY <1>1, <1>3 DEF Around

LEMMA MinOfTwo ==
    ASSUME NEW a \in Int, NEW b \in Int
    PROVE  Min({a, b}) = IF a <= b THEN a ELSE b
  BY DEF Min

(* What a ring of that many places holds of a list: its newest, the oldest   *)
(* of them at a place.                                                       *)
InRing(held, places, at, count, list) ==
    /\ DOMAIN held = 0..(places - 1) /\ at \in 0..(places - 1) /\ count \in 0..places
    /\ count <= Len(list)
    /\ \A i \in 0..(count - 1) : held[(at + i) % places] = list[Len(list) - count + i + 1]

LEMMA RingIsNewest ==
    ASSUME NEW S, NEW list \in Seq(S), NEW places \in Nat \ {0}, NEW held, NEW at, NEW count,
           InRing(held, places, at, count, list), NEW m \in 0..count
    PROVE  [index \in 1..m |-> held[(at + count - m + index - 1) % places]] = Newest(list, m)
<1>1. /\ at \in 0..(places - 1) /\ count \in 0..places /\ count <= Len(list) /\ Len(list) \in Nat
      /\ \A i \in 0..(count - 1) : held[(at + i) % places] = list[Len(list) - count + i + 1]
  BY DEF InRing
<1>2. ASSUME NEW index \in 1..m
      PROVE  held[(at + count - m + index - 1) % places] = list[Len(list) - m + index]
  <2>1. PICK i : i = count - m + index - 1
    OBVIOUS
  <2>2. i \in 0..(count - 1) /\ at + count - m + index - 1 = at + i
        /\ Len(list) - count + i + 1 = Len(list) - m + index
    BY <1>1, <2>1
  <2>3. held[(at + i) % places] = list[Len(list) - count + i + 1]
    BY <1>1, <2>2
  <2> QED
    BY <2>2, <2>3
<1>3. PICK n \in Nat : n = Len(list)
  BY <1>1
<1>4. SubSeq(list, n - m + 1, n) = [index \in 1..m |-> list[n - m + index]]
  <2>1. SubSeq(list, n - m + 1, n) = [i \in 1..(n - (n - m + 1) + 1) |-> list[i + (n - m + 1) - 1]]
    <3>0. m \in Int
      BY <1>1
    <3>1. PICK first \in Int : first = n - m + 1
      BY <1>3, <3>0
    <3>2. SubSeq(list, first, n) = [i \in 1..(n - first + 1) |-> list[i + first - 1]]
      OBVIOUS
    <3> QED
      BY <3>1, <3>2
  <2>2. n - (n - m + 1) + 1 = m
    BY <1>1, <1>3
  <2>3. \A i \in 1..m : i + (n - m + 1) - 1 = n - m + i
    BY <1>1, <1>3
  <2> QED
    BY <2>1, <2>2, <2>3
<1> QED
  BY <1>2, <1>3, <1>4 DEF Newest

LEMMA RingTakesOneMore ==
    ASSUME NEW S, NEW list \in Seq(S), NEW e \in S, NEW places \in Nat \ {0},
           NEW held, NEW ring2, NEW at, NEW count, InRing(held, places, at, count, list),
           count < places, NEW put, put = (at + count) % places,
           DOMAIN ring2 = DOMAIN held, ring2[put] = e,
           \A i \in DOMAIN held : i # put => ring2[i] = held[i]
    PROVE  InRing(ring2, places, at, count + 1, Append(list, e))
<1>1. /\ at \in 0..(places - 1) /\ count \in 0..places /\ count <= Len(list) /\ Len(list) \in Nat
      /\ DOMAIN held = 0..(places - 1)
      /\ \A i \in 0..(count - 1) : held[(at + i) % places] = list[Len(list) - count + i + 1]
  BY DEF InRing
<1>2. PICK n \in Nat : n = Len(list)
  BY <1>1
<1>3. PICK more : more = Append(list, e)
  OBVIOUS
<1>4. /\ Len(more) = n + 1 /\ more[n + 1] = e /\ \A i \in 1..n : more[i] = list[i]
  BY <1>2, <1>3
<1>5. \A i \in 0..(places - 1) : (at + i) % places = Around(at, i, places)
  BY <1>1, AroundIsRest
<1>6. ASSUME NEW i \in 0..count
      PROVE  ring2[(at + i) % places] = more[Len(more) - (count + 1) + i + 1]
  <2>1. CASE i = count
    BY <1>1, <1>4, <2>1
  <2>2. CASE i < count
    <3>1. i \in 0..(count - 1) /\ i \in 0..(places - 1) /\ count \in 0..(places - 1)
      BY <1>1, <2>2
    <3>2. (at + i) % places # put /\ (at + i) % places \in 0..(places - 1)
      <4>1. (at + i) % places = Around(at, i, places) /\ put = Around(at, count, places)
        BY <3>1, <1>5
      <4>2. /\ Around(at, i, places) # Around(at, count, places)
            /\ Around(at, i, places) \in 0..(places - 1)
        BY <3>1, <1>1, <2>2 DEF Around
      <4> QED
        BY <4>1, <4>2
    <3>3. ring2[(at + i) % places] = list[n - count + i + 1]
      BY <3>1, <3>2, <1>1, <1>2
    <3>4. n - count + i + 1 \in 1..n /\ Len(more) - (count + 1) + i + 1 = n - count + i + 1
      BY <3>1, <1>1, <1>2, <1>4
    <3>5. more[n - count + i + 1] = list[n - count + i + 1]
      BY <3>4, <1>4
    <3> QED
      BY <3>3, <3>4, <3>5
  <2> QED
    BY <1>1, <2>1, <2>2
<1>7. count + 1 \in 0..places /\ count + 1 <= Len(more) /\ 0..((count + 1) - 1) = 0..count
  BY <1>1, <1>2, <1>4
<1> QED
  BY <1>1, <1>3, <1>6, <1>7 DEF InRing

LEMMA RingReplacesOldest ==
    ASSUME NEW S, NEW list \in Seq(S), NEW e \in S, NEW places \in Nat \ {0},
           NEW held, NEW ring2, NEW at, NEW count, InRing(held, places, at, count, list),
           count = places,
           DOMAIN ring2 = DOMAIN held, ring2[at] = e,
           \A i \in DOMAIN held : i # at => ring2[i] = held[i]
    PROVE  InRing(ring2, places, (at + 1) % places, count, Append(list, e))
<1>1. /\ at \in 0..(places - 1) /\ count = places /\ count <= Len(list) /\ Len(list) \in Nat
      /\ DOMAIN held = 0..(places - 1)
      /\ \A i \in 0..(count - 1) : held[(at + i) % places] = list[Len(list) - count + i + 1]
  BY DEF InRing
<1>2. PICK n \in Nat : n = Len(list)
  BY <1>1
<1>3. PICK more : more = Append(list, e)
  OBVIOUS
<1>4. /\ Len(more) = n + 1 /\ more[n + 1] = e /\ \A i \in 1..n : more[i] = list[i]
  BY <1>2, <1>3
<1>5. \A x \in 0..(places - 1), i \in 0..(places - 1) : (x + i) % places = Around(x, i, places)
  BY AroundIsRest
<1>6. PICK next : next = (at + 1) % places
  OBVIOUS
<1>7. next \in 0..(places - 1) /\ next = IF at + 1 < places THEN at + 1 ELSE 0
  <2>1. 1 \in 0..places
    OBVIOUS
  <2>2. next = Around(at, 1, places)
    BY <1>1, <1>6, <2>1, AroundIsRest
  <2> QED
    BY <1>1, <2>2 DEF Around
<1>8. ASSUME NEW i \in 0..(count - 1)
      PROVE  ring2[(next + i) % places] = more[Len(more) - count + i + 1]
  <2>1. CASE i = count - 1
    <3>1. (next + i) % places = at
      <4>1. (next + i) % places = Around(next, i, places)
        BY <1>1, <1>5, <1>7
      <4> QED
        BY <4>1, <1>1, <1>7, <2>1 DEF Around
    <3>2. Len(more) - count + i + 1 = n + 1
      BY <1>1, <1>4, <2>1
    <3> QED
      BY <3>1, <3>2, <1>4
  <2>2. CASE i < count - 1
    <3>1. i + 1 \in 0..(count - 1) /\ i + 1 \in 0..(places - 1) /\ i \in 0..(places - 1)
      BY <1>1, <2>2
    <3>2. (next + i) % places = (at + (i + 1)) % places
      <4>1. (next + i) % places = Around(next, i, places)
        BY <3>1, <1>5, <1>7
      <4>2. (at + (i + 1)) % places = Around(at, i + 1, places)
        BY <3>1, <1>1, <1>5
      <4>3. Around(next, i, places) = Around(at, i + 1, places)
        BY <3>1, <1>1, <1>7 DEF Around
      <4> QED
        BY <4>1, <4>2, <4>3
    <3>3. (at + (i + 1)) % places # at /\ (at + (i + 1)) % places \in 0..(places - 1)
      <4>1. (at + (i + 1)) % places = Around(at, i + 1, places)
        BY <3>1, <1>1, <1>5
      <4> QED
        BY <4>1, <3>1, <1>1, <2>2 DEF Around
    <3>4. ring2[(next + i) % places] = list[n - count + (i + 1) + 1]
      BY <3>1, <3>2, <3>3, <1>1, <1>2
    <3>5. n - count + (i + 1) + 1 \in 1..n /\ Len(more) - count + i + 1 = n - count + (i + 1) + 1
      BY <3>1, <1>1, <1>2, <1>4
    <3> QED
      BY <3>4, <3>5, <1>4
  <2> QED
    BY <1>1, <2>1, <2>2
<1>9. count \in 0..places /\ count <= Len(more)
  BY <1>1, <1>2, <1>4
<1> QED
  BY <1>1, <1>3, <1>6, <1>7, <1>8, <1>9 DEF InRing

-----------------------------------------------------------------------------
(* The frames' words.  A frame under way has been measured: its duration is  *)
(* one of the clock's.                                                       *)

Durations == 1..MaxClock
Measured == {"exchanged", "measured", "maximum", "minimum", "counted"}

FrameWords ==
    /\ clock \in 1..MaxClock /\ active \in BOOLEAN
    /\ words.packed \in 0..(Word - 1) /\ words.maximum \in 0..MaxClock
    /\ words.minimum \in 1..NoMinimum /\ words.previous \in 0..MaxClock
    /\ DOMAIN words = {"packed", "maximum", "offset", "minimum", "previous", "interval"}
FrameUnderWay ==
    /\ observed.at \in {"none", "entered"} \cup Measured
    /\ observed.at = "entered" => observed.qpc \in 1..MaxClock
    /\ observed.at \in Measured => observed.duration \in Durations
    /\ DOMAIN observed = {"at", "qpc", "duration", "offset"}
LongestFrame ==
    /\ \A f \in unreported : f.duration \in Durations
    /\ MaximumIsOneFrame
FramePart == FrameWords /\ FrameUnderWay /\ CountAndTotalAgree /\ LongestFrame

LEMMA WordIs == Word \in Nat \ {0} /\ CountMask + 1 \in Nat \ {0} /\ TotalMask + 1 \in Nat \ {0}
                /\ Word = (CountMask + 1) * (TotalMask + 1)
<1>1. PICK c \in Nat \ {0} : c = CountMask + 1
  BY FrameConstants
<1>2. PICK t \in Nat \ {0} : t = TotalMask + 1
  BY FrameConstants
<1>3. c * t \in Nat \ {0}
  OBVIOUS
<1> QED
  BY <1>1, <1>2, <1>3 DEF Word

(* A frame that fits runs over nothing.                                      *)
LEMMA PackedAddsOne ==
    ASSUME NEW packed \in 0..(Word - 1), NEW duration \in Nat, Fits(packed, duration)
    PROVE  /\ Packed(packed, duration) \in 0..(Word - 1)
           /\ CountOf(Packed(packed, duration)) = CountOf(packed) + 1
           /\ TotalOf(Packed(packed, duration)) = TotalOf(packed) + duration
<1>1. PICK c \in Nat \ {0} : c = CountMask + 1
  BY FrameConstants
<1>2. PICK q, r : q = packed \div c /\ r = packed % c
  OBVIOUS
<1>3. packed \in Nat
  BY WordIs
<1>4. q \in Nat /\ r \in 0..(c - 1)
  BY <1>2, <1>3, QuotientBelow
<1>5. r # c - 1 /\ duration <= TotalMask - q
  BY <1>1, <1>2, FrameConstants DEF Fits, CountOf, TotalOf
<1>6. PICK a \in Nat : a = q + duration
  BY <1>4
<1>7. PICK s \in 0..(c - 1) : s = r + 1
  BY <1>4, <1>5
<1>8. a <= TotalMask
  BY <1>4, <1>5, <1>6, FrameConstants
<1>9. a * c + s \in 0..(Word - 1)
  <2>1. a * c <= TotalMask * c
    BY <1>8, FrameConstants
  <2>2. Word = TotalMask * c + c
    BY <1>1, FrameConstants DEF Word
  <2>3. PICK x, y \in Nat : x = a * c /\ y = TotalMask * c
    BY FrameConstants
  <2> QED
    BY <2>1, <2>2, <2>3
<1>10. Packed(packed, duration) = (a * c + s) % Word
  <2>1. ((q + duration) * c) + r + 1 = a * c + s
    <3>1. PICK x \in Int : x = a * c
      OBVIOUS
    <3> QED
      BY <3>1, <1>4, <1>6, <1>7
  <2> QED
    BY <2>1, <1>1, <1>2 DEF Packed, CountOf, TotalOf
<1>11. (a * c + s) % Word = a * c + s
  <2>1. PICK x \in 0..(Word - 1) : x = a * c + s
    BY <1>9
  <2>2. x \in Nat /\ x < Word /\ x < 2 * Word /\ Word \in Nat \ {0}
    BY WordIs
  <2>3. x % Word = x
    BY <2>2, RestOfLess
  <2> QED
    BY <2>1, <2>3
<1>12. (a * c + s) \div c = a /\ (a * c + s) % c = s
  BY QuotientAndRest
<1> QED
  BY <1>1, <1>2, <1>6, <1>7, <1>9, <1>10, <1>11, <1>12 DEF CountOf, TotalOf

LEMMA EmptyWord == 0 \in 0..(Word - 1) /\ CountOf(0) = 0 /\ TotalOf(0) = 0
<1>1. PICK c \in Nat \ {0} : c = CountMask + 1
  BY FrameConstants
<1>2. 0 * c + 0 = 0 /\ 0 \in 0..(c - 1)
  OBVIOUS
<1>3. 0 \div c = 0 /\ 0 % c = 0
  BY <1>2, QuotientAndRest
<1> QED
  BY <1>1, <1>3, WordIs DEF CountOf, TotalOf

LEMMA FramesStart == FrameStart => FramePart
<1> SUFFICES ASSUME FrameStart PROVE FramePart
  OBVIOUS
<1>1. /\ clock = 1 /\ active = FALSE /\ words = FreshWords /\ observed = NoFrame
      /\ unreported = {} /\ counted = [count |-> 0, total |-> 0]
  BY DEF FrameStart
<1>2. FrameWords
  <2>1. /\ words.packed = 0 /\ words.maximum = 0 /\ words.minimum = NoMinimum
        /\ words.previous = 0
        /\ DOMAIN words = {"packed", "maximum", "offset", "minimum", "previous", "interval"}
    BY <1>1 DEF FreshWords
  <2>2. NoMinimum \in 1..NoMinimum /\ clock \in 1..MaxClock /\ 0 \in 0..MaxClock
    BY <1>1, FrameConstants DEF NoMinimum
  <2> QED
    BY <1>1, <2>1, <2>2, EmptyWord DEF FrameWords
<1>3. FrameUnderWay
  BY <1>1 DEF FrameUnderWay, NoFrame, Measured
<1>4. CountAndTotalAgree
  BY <1>1, EmptyWord DEF CountAndTotalAgree, FreshWords
<1>5. LongestFrame
  BY <1>1 DEF LongestFrame, MaximumIsOneFrame, FreshWords
<1> QED
  BY <1>2, <1>3, <1>4, <1>5 DEF FramePart

LEMMA FrameParts ==
    ASSUME FramePart
    PROVE  FrameWords /\ FrameUnderWay /\ CountAndTotalAgree /\ LongestFrame
  BY DEF FramePart

(* What the worker and the hub do beside the drains.                         *)
LEMMA FramesUntouched ==
    ASSUME FramePart, clock' \in 1..MaxClock, active' \in BOOLEAN,
           UNCHANGED <<observed, counted, unreported>>,
           \/ words' = words
           \/ \E now : words' = [words EXCEPT !.interval = now]
    PROVE  FramePart'
<1> USE FrameParts
<1>1. /\ DOMAIN words' = DOMAIN words /\ words'.packed = words.packed
      /\ words'.maximum = words.maximum /\ words'.offset = words.offset
      /\ words'.minimum = words.minimum /\ words'.previous = words.previous
  BY DEF FrameWords
<1>2. FrameWords'
  BY <1>1 DEF FrameWords
<1>3. FrameUnderWay' /\ CountAndTotalAgree' /\ LongestFrame'
  BY <1>1 DEF FrameUnderWay, CountAndTotalAgree, LongestFrame, MaximumIsOneFrame
<1> QED
  BY <1>2, <1>3 DEF FramePart

LEMMA ClockGoesOn ==
    ASSUME FramePart, NEW now \in clock..MaxClock, ReadClock(now)
    PROVE  clock' \in 1..MaxClock /\ now \in 1..MaxClock
  BY FrameConstants DEF FramePart, FrameWords, ReadClock

LEMMA ObserveKeeps == ASSUME FramePart, Observe PROVE FramePart'
<1> USE FrameParts
<1>1. PICK now \in clock..MaxClock :
          ReadClock(now) /\ observed' = [NoFrame EXCEPT !.at = "entered", !.qpc = now]
  BY DEF Observe
<1>2. clock' \in 1..MaxClock /\ now \in 1..MaxClock
  BY <1>1, ClockGoesOn
<1>3. UNCHANGED <<active, words, counted, unreported>>
  BY DEF Observe
<1>4. FrameWords'
  BY <1>2, <1>3 DEF FrameWords
<1>5. FrameUnderWay'
  BY <1>1, <1>2 DEF FrameUnderWay, NoFrame, Measured
<1>6. CountAndTotalAgree' /\ LongestFrame'
  BY <1>3 DEF CountAndTotalAgree, LongestFrame, MaximumIsOneFrame
<1> QED
  BY <1>4, <1>5, <1>6 DEF FramePart

LEMMA ExchangeKeeps == ASSUME FramePart, ExchangePrevious PROVE FramePart'
<1> USE FrameParts
<1>1. /\ observed.at = "entered" /\ UNCHANGED <<clock, active, counted, unreported>>
      /\ words' = [words EXCEPT !.previous = observed.qpc]
  BY DEF ExchangePrevious
<1>2. observed.qpc \in 1..MaxClock
  BY <1>1 DEF FrameUnderWay
<1>3. /\ DOMAIN words' = DOMAIN words /\ words'.packed = words.packed
      /\ words'.maximum = words.maximum /\ words'.offset = words.offset
      /\ words'.minimum = words.minimum /\ words'.previous = observed.qpc
  BY <1>1 DEF FrameWords
<1>4. FrameWords'
  BY <1>1, <1>2, <1>3 DEF FrameWords
<1>5. CountAndTotalAgree' /\ LongestFrame'
  BY <1>1, <1>3 DEF CountAndTotalAgree, LongestFrame, MaximumIsOneFrame
<1>6. FrameUnderWay'
  BY <1>2, FrameConstants DEF ExchangePrevious, HasDuration, FrameWords, Durations,
     FrameUnderWay, Measured, NoFrame
<1> QED
  BY <1>4, <1>5, <1>6 DEF FramePart

LEMMA IntervalKeeps == ASSUME FramePart, ReadInterval PROVE FramePart'
<1> USE FrameParts
<1>1. /\ observed.at = "exchanged" /\ UNCHANGED <<clock, active, counted, unreported, words>>
      /\ observed' = [observed EXCEPT !.at = "measured",
                                      !.offset = OffsetOf(observed.qpc, words.interval)]
  BY DEF ReadInterval
<1>2. /\ observed'.at = "measured" /\ observed'.duration = observed.duration
      /\ DOMAIN observed' = DOMAIN observed /\ observed.duration \in Durations
  BY <1>1 DEF FrameUnderWay, Measured
<1>3. FrameUnderWay'
  BY <1>2 DEF FrameUnderWay, Measured
<1>4. FrameWords' /\ CountAndTotalAgree' /\ LongestFrame'
  BY <1>1 DEF FrameWords, CountAndTotalAgree, LongestFrame, MaximumIsOneFrame
<1> QED
  BY <1>3, <1>4 DEF FramePart

LEMMA MaximumKeeps == ASSUME FramePart, UpdateMaximum PROVE FramePart'
<1> USE FrameParts
<1>1. /\ observed.at = "measured" /\ UNCHANGED <<clock, active, counted>>
      /\ words' = WithMaximum(words, observed)
      /\ observed' = [observed EXCEPT !.at = "maximum"]
      /\ unreported' = unreported
                \cup {[duration |-> observed.duration, offset |-> observed.offset]}
  BY DEF UpdateMaximum
<1>2. PICK d : d = observed.duration
  OBVIOUS
<1>3. /\ observed'.at = "maximum" /\ observed'.duration = d
      /\ DOMAIN observed' = DOMAIN observed /\ d \in Durations
  BY <1>1, <1>2 DEF FrameUnderWay, Measured
<1>4. PICK f : f = [duration |-> d, offset |-> observed.offset]
  OBVIOUS
<1>5. f.duration = d /\ f.offset = observed.offset /\ unreported' = unreported \cup {f}
  BY <1>1, <1>2, <1>4
<1>6. /\ DOMAIN words' = DOMAIN words /\ words'.packed = words.packed
      /\ words'.minimum = words.minimum /\ words'.previous = words.previous
  BY <1>1 DEF FrameWords, WithMaximum
<1>7. words.maximum \in Nat /\ d \in Nat \ {0} /\ d <= MaxClock
  BY <1>3, FrameConstants DEF FrameWords, Durations
<1>8. /\ d > words.maximum => words'.maximum = d /\ words'.offset = observed.offset
      /\ d <= words.maximum => words'.maximum = words.maximum /\ words'.offset = words.offset
  BY <1>1, <1>2, <1>7 DEF FrameWords, WithMaximum
<1>9. FrameWords'
  BY <1>1, <1>6, <1>7, <1>8 DEF FrameWords
<1>10. FrameUnderWay'
  BY <1>3 DEF FrameUnderWay, Measured
<1>11. CountAndTotalAgree'
  BY <1>1, <1>6 DEF CountAndTotalAgree
<1>12. \A g \in unreported' : g.duration \in Durations
  BY <1>3, <1>5 DEF LongestFrame
<1>13. \A g \in unreported : g.duration \in Nat /\ g.duration <= words.maximum
  BY FrameConstants DEF LongestFrame, MaximumIsOneFrame, Durations
<1>14. MaximumIsOneFrame'
  BY <1>4, <1>8, <1>5, <1>7, <1>13 DEF MaximumIsOneFrame, LongestFrame
<1> QED
  BY <1>9, <1>10, <1>11, <1>12, <1>14 DEF FramePart, LongestFrame

LEMMA MinimumKeeps == ASSUME FramePart, UpdateMinimum PROVE FramePart'
<1> USE FrameParts
<1>1. /\ observed.at = "maximum" /\ UNCHANGED <<clock, active, counted, unreported>>
      /\ words' = [words EXCEPT !.minimum = Min({@, observed.duration})]
      /\ observed' = [observed EXCEPT !.at = "minimum"]
  BY DEF UpdateMinimum
<1>2. PICK d : d = observed.duration
  OBVIOUS
<1>3. /\ observed'.at = "minimum" /\ observed'.duration = d
      /\ DOMAIN observed' = DOMAIN observed /\ d \in Durations
  BY <1>1, <1>2 DEF FrameUnderWay, Measured
<1>4. PICK m : m = Min({words.minimum, d})
  OBVIOUS
<1>5. m \in 1..NoMinimum
  BY <1>3, FrameConstants, <1>4, MinOfTwo DEF Durations, NoMinimum, FrameWords
<1>6. /\ DOMAIN words' = DOMAIN words /\ words'.packed = words.packed
      /\ words'.maximum = words.maximum /\ words'.offset = words.offset
      /\ words'.minimum = m /\ words'.previous = words.previous
  BY <1>1, <1>2, <1>4 DEF FrameWords
<1>7. FrameWords'
  BY <1>1, <1>5, <1>6 DEF FrameWords
<1>8. FrameUnderWay'
  BY <1>3 DEF FrameUnderWay, Measured
<1>9. CountAndTotalAgree' /\ LongestFrame'
  BY <1>1, <1>6 DEF CountAndTotalAgree, LongestFrame, MaximumIsOneFrame
<1> QED
  BY <1>7, <1>8, <1>9 DEF FramePart

LEMMA CountKeeps == ASSUME FramePart, CountFrame PROVE FramePart'
<1> USE FrameParts
<1>1. observed.at = "minimum" /\ UNCHANGED <<clock, active, unreported>>
  BY DEF CountFrame
<1>2. observed.duration \in Durations /\ observed.duration \in Nat
  BY <1>1, FrameConstants DEF FrameUnderWay, Measured, Durations
<1>3. FrameUnderWay'
  BY <1>2 DEF CountFrame, FrameUnderWay, NoFrame, Measured
<1>4. CASE Fits(words.packed, observed.duration)
  <2>1. /\ words' = [words EXCEPT !.packed = Packed(@, observed.duration)]
        /\ counted' = [count |-> counted.count + 1,
                       total |-> counted.total + observed.duration]
    BY <1>4 DEF CountFrame
  <2>2. PICK packed : packed = Packed(words.packed, observed.duration)
    OBVIOUS
  <2>3. /\ packed \in 0..(Word - 1) /\ CountOf(packed) = CountOf(words.packed) + 1
        /\ TotalOf(packed) = TotalOf(words.packed) + observed.duration
    BY <1>2, <1>4, <2>2, PackedAddsOne DEF FrameWords
  <2>4. /\ DOMAIN words' = DOMAIN words /\ words'.packed = packed
        /\ words'.maximum = words.maximum /\ words'.offset = words.offset
        /\ words'.minimum = words.minimum /\ words'.previous = words.previous
    BY <2>1, <2>2 DEF FrameWords
  <2>5. FrameWords'
    BY <1>1, <2>3, <2>4 DEF FrameWords
  <2>6. CountAndTotalAgree'
    BY <2>1, <2>3, <2>4 DEF CountAndTotalAgree
  <2>7. LongestFrame'
    BY <1>1, <2>4 DEF LongestFrame, MaximumIsOneFrame
  <2> QED
    BY <1>3, <2>5, <2>6, <2>7 DEF FramePart
<1>5. CASE ~Fits(words.packed, observed.duration)
  BY <1>5, <1>1, <1>3 DEF CountFrame, FrameWords, CountAndTotalAgree, LongestFrame,
     MaximumIsOneFrame, FramePart
<1> QED
  BY <1>4, <1>5

LEMMA PushKeepsFrames == ASSUME FramePart, PushFrameRecord PROVE FramePart'
<1> USE FrameParts
<1>1. observed' = NoFrame /\ UNCHANGED <<clock, active, words, counted, unreported>>
  BY DEF PushFrameRecord
<1>2. FrameUnderWay'
  BY <1>1 DEF FrameUnderWay, NoFrame, Measured
<1>3. FrameWords' /\ CountAndTotalAgree' /\ LongestFrame'
  BY <1>1 DEF FrameWords, CountAndTotalAgree, LongestFrame, MaximumIsOneFrame
<1> QED
  BY <1>2, <1>3 DEF FramePart

LEMMA DrainKeepsFrames ==
    ASSUME FramePart, DrainPacked \/ DrainMaximum \/ DrainMinimum \/ DrainReset
    PROVE  FramePart'
<1> USE FrameParts
<1>0. UNCHANGED <<clock, active, observed>>
  BY DEF DrainPacked, DrainMaximum, DrainMinimum, DrainReset
<1>1. FrameUnderWay'
  BY <1>0 DEF FrameUnderWay
<1>2. CASE DrainPacked
  <2>1. /\ words' = [words EXCEPT !.packed = 0] /\ unreported' = unreported
        /\ counted' = [count |-> counted.count - CountOf(words.packed),
                       total |-> counted.total - TotalOf(words.packed)]
    BY <1>2 DEF DrainPacked
  <2>2. /\ DOMAIN words' = DOMAIN words /\ words'.packed = 0
        /\ words'.maximum = words.maximum /\ words'.offset = words.offset
        /\ words'.minimum = words.minimum /\ words'.previous = words.previous
    BY <2>1 DEF FrameWords
  <2>3. FrameWords'
    BY <1>0, <2>2, EmptyWord DEF FrameWords
  <2>4. words.packed \in Nat
    BY WordIs DEF FrameWords
  <2>5. CountOf(words.packed) \in Int /\ TotalOf(words.packed) \in Int
    <3>1. PICK c \in Nat \ {0} : c = CountMask + 1
      BY FrameConstants
    <3> QED
      BY <2>4, <3>1 DEF CountOf, TotalOf
  <2>6. counted'.count = 0 /\ counted'.total = 0
    BY <2>1, <2>5 DEF CountAndTotalAgree
  <2>7. CountAndTotalAgree'
    BY <2>2, <2>6, EmptyWord DEF CountAndTotalAgree
  <2>8. LongestFrame'
    BY <2>1, <2>2 DEF LongestFrame, MaximumIsOneFrame
  <2> QED
    BY <1>1, <2>3, <2>7, <2>8 DEF FramePart
<1>3. CASE DrainMaximum
  BY <1>3, <1>0, FrameConstants, <1>1 DEF DrainMaximum, FrameWords, CountAndTotalAgree,
     LongestFrame, MaximumIsOneFrame, FramePart
<1>4. CASE DrainMinimum
  BY <1>4, FrameConstants, <1>0, <1>1 DEF DrainMinimum, FrameWords, NoMinimum,
     CountAndTotalAgree, LongestFrame, MaximumIsOneFrame, FramePart
<1>5. CASE DrainReset
  BY <1>5, <1>0, FrameConstants, <1>1 DEF DrainReset, FrameWords, CountAndTotalAgree,
     LongestFrame, MaximumIsOneFrame, FramePart
<1> QED
  BY <1>2, <1>3, <1>4, <1>5

LEMMA FramePartKept == FramePart /\ [FrameNext]_frameVars => FramePart'
<1> SUFFICES ASSUME FramePart, [FrameNext]_frameVars PROVE FramePart'
  OBVIOUS
<1>0. clock \in 1..MaxClock /\ active \in BOOLEAN
  BY DEF FramePart, FrameWords
<1>1. CASE \/ Observe \/ ExchangePrevious \/ ReadInterval \/ UpdateMaximum \/ UpdateMinimum
           \/ CountFrame \/ PushFrameRecord
           \/ DrainPacked \/ DrainMaximum \/ DrainMinimum \/ DrainReset
  BY <1>1, ObserveKeeps, ExchangeKeeps, IntervalKeeps, MaximumKeeps, MinimumKeeps, CountKeeps,
     PushKeepsFrames, DrainKeepsFrames
<1>2. CASE WorkerBegins
  <2>1. PICK now \in clock..MaxClock : ReadClock(now)
    BY <1>2 DEF WorkerBegins
  <2>2. clock' \in 1..MaxClock
    BY <2>1, ClockGoesOn
  <2>3. UNCHANGED <<active, words, observed, counted, unreported>>
    BY <1>2 DEF WorkerBegins
  <2> QED
    BY <1>0, <2>2, <2>3, FramesUntouched
<1>3. CASE Wake
  <2>1. PICK now \in clock..MaxClock : ReadClock(now)
    BY <1>3 DEF Wake
  <2>2. clock' \in 1..MaxClock
    BY <2>1, ClockGoesOn
  <2>3. UNCHANGED <<active, words, observed, counted, unreported>>
    BY <1>3 DEF Wake
  <2> QED
    BY <1>0, <2>2, <2>3, FramesUntouched
<1>4. CASE WorkerStops
  <2>1. clock' \in 1..MaxClock
    BY <1>0, ClockGoesOn, <1>4 DEF WorkerStops
  <2>2. UNCHANGED <<active, words, observed, counted, unreported>>
    BY <1>4 DEF WorkerStops
  <2> QED
    BY <1>0, <2>1, <2>2, FramesUntouched
<1>5. CASE Publish
  BY <1>5, <1>0, FramesUntouched DEF Publish
<1>6. CASE StartWorker
  <2>1. PICK now \in clock..MaxClock : ReadClock(now) /\ words' = [words EXCEPT !.interval = now]
    BY <1>6 DEF StartWorker
  <2>2. clock' \in 1..MaxClock
    BY <2>1, ClockGoesOn
  <2>3. active' \in BOOLEAN /\ UNCHANGED <<observed, counted, unreported>>
    BY <1>6 DEF StartWorker
  <2> QED
    BY <2>1, <2>2, <2>3, FramesUntouched
<1>7. CASE StartHub \/ WorkerNeverStarts \/ StopHub \/ JoinWorker \/ StopReturnsCleared
  BY <1>0, <1>7, FramesUntouched DEF StartHub, WorkerNeverStarts, StopHub, JoinWorker,
     StopReturnsCleared
<1>8. CASE UNCHANGED frameVars
  BY <1>8, <1>0, FramesUntouched DEF frameVars
<1> QED
  BY <1>1, <1>2, <1>3, <1>4, <1>5, <1>6, <1>7, <1>8 DEF FrameNext

-----------------------------------------------------------------------------
(* The ring of rows and the ring of records hold the newest.  The place of   *)
(* the oldest row lies as many before the next one's as there are rows.      *)

OldestRow == IF rows.write >= rows.count THEN rows.write - rows.count
             ELSE rows.write + RowCapacity - rows.count
Rows == [sequence : Nat, count : Int, total : Int, maximum : Int]
Drains == [at : {"none", "packed", "maximum", "minimum", "reset", "done"},
           count : Int, total : Int, maximum : Int]
RowPart ==
    /\ drain \in Drains
    /\ history \in Seq(Rows)
    /\ DOMAIN rows = {"ring", "write", "count", "overwritten", "sequence", "published"}
    /\ rows.write \in 0..(RowCapacity - 1) /\ rows.overwritten \in Nat
    /\ InRing(rows.ring, RowCapacity, OldestRow, rows.count, history)
    /\ rows.count + rows.overwritten = Len(history)
    /\ rows.sequence = Len(history)
    /\ \A index \in DOMAIN history : history[index].sequence = index

LEMMA RowsStart == FrameStart => RowPart
<1> SUFFICES ASSUME FrameStart PROVE RowPart
  OBVIOUS
<1>1. /\ drain = NoDrain /\ history = <<>>
      /\ rows = [ring |-> [place \in 0..RowCapacity - 1 |-> NoRow], write |-> 0,
                 count |-> 0, overwritten |-> 0, sequence |-> 0, published |-> NoRow]
  BY DEF FrameStart
<1>2. drain \in Drains
  BY <1>1 DEF NoDrain, Drains
<1>3. history \in Seq(Rows) /\ Len(history) = 0 /\ DOMAIN history = {}
  BY <1>1
<1>4. /\ DOMAIN rows = {"ring", "write", "count", "overwritten", "sequence", "published"}
      /\ DOMAIN rows.ring = 0..(RowCapacity - 1) /\ rows.write = 0 /\ rows.count = 0
      /\ rows.overwritten = 0 /\ rows.sequence = 0
  BY <1>1
<1>5. OldestRow = 0 /\ 0 \in 0..(RowCapacity - 1) /\ 0 \in 0..RowCapacity
  BY <1>4, FrameConstants DEF OldestRow
<1>6. InRing(rows.ring, RowCapacity, OldestRow, rows.count, history)
  BY <1>3, <1>4, <1>5 DEF InRing
<1> QED
  BY <1>2, <1>3, <1>4, <1>5, <1>6 DEF RowPart

LEMMA RowPartIs ==
    ASSUME RowPart
    PROVE  /\ drain \in Drains /\ history \in Seq(Rows)
           /\ DOMAIN rows = {"ring", "write", "count", "overwritten", "sequence", "published"}
           /\ rows.write \in 0..(RowCapacity - 1) /\ rows.overwritten \in Nat
           /\ rows.count \in 0..RowCapacity /\ DOMAIN rows.ring = 0..(RowCapacity - 1)
           /\ OldestRow \in 0..(RowCapacity - 1)
           /\ InRing(rows.ring, RowCapacity, OldestRow, rows.count, history)
           /\ rows.count + rows.overwritten = Len(history)
           /\ rows.sequence = Len(history) /\ Len(history) \in Nat
           /\ \A index \in DOMAIN history : history[index].sequence = index
  BY DEF RowPart, InRing

(* What is published is not the ring's.                                      *)
LEMMA RowsUntouched ==
    ASSUME RowPart, drain' \in Drains, UNCHANGED history,
           rows' = rows \/ \E row : rows' = [rows EXCEPT !.published = row]
    PROVE  RowPart'
<1> USE RowPartIs
<1>1. /\ DOMAIN rows' = DOMAIN rows /\ rows'.ring = rows.ring /\ rows'.write = rows.write
      /\ rows'.count = rows.count /\ rows'.overwritten = rows.overwritten
      /\ rows'.sequence = rows.sequence
  OBVIOUS
<1>2. OldestRow' = OldestRow
  BY <1>1 DEF OldestRow
<1> QED
  BY <1>1, <1>2 DEF RowPart

LEMMA PublishKeepsRows == ASSUME RowPart, Publish PROVE RowPart'
<1> USE RowPartIs
<1>1. PICK row : row = RowOf(rows.sequence + 1)
  OBVIOUS
<1>2. /\ rows' = Collected(rows, row) /\ history' = Append(history, row) /\ drain' = NoDrain
  BY <1>1 DEF Publish
<1>3. row \in Rows /\ row.sequence = rows.sequence + 1
  BY <1>1 DEF RowOf, Rows, Drains
<1>4. /\ DOMAIN rows' = {"ring", "write", "count", "overwritten", "sequence", "published"}
      /\ rows'.ring = [rows.ring EXCEPT ![rows.write] = row]
      /\ rows'.write = (rows.write + 1) % RowCapacity
      /\ rows'.count = (IF rows.count = RowCapacity THEN rows.count ELSE rows.count + 1)
      /\ rows'.overwritten =
            (IF rows.count = RowCapacity THEN rows.overwritten + 1 ELSE rows.overwritten)
      /\ rows'.sequence = row.sequence
  BY <1>2 DEF Collected
<1>5. /\ DOMAIN rows'.ring = DOMAIN rows.ring /\ rows'.ring[rows.write] = row
      /\ \A i \in DOMAIN rows.ring : i # rows.write => rows'.ring[i] = rows.ring[i]
  BY <1>4
<1>6. PICK n \in Nat : n = Len(history)
  OBVIOUS
<1>7. /\ history' \in Seq(Rows) /\ Len(history') = n + 1 /\ history'[n + 1] = row
      /\ \A i \in 1..n : history'[i] = history[i]
  BY <1>2, <1>3, <1>6
<1>8. ASSUME NEW index \in DOMAIN history' PROVE history'[index].sequence = index
  <2>1. index \in 1..(n + 1) /\ DOMAIN history = 1..n
    BY <1>6, <1>7
  <2>2. CASE index = n + 1
    BY <1>3, <1>6, <1>7, <2>2
  <2>3. CASE index # n + 1
    BY <2>1, <2>3, <1>7
  <2> QED
    BY <2>2, <2>3
<1>9. rows'.sequence = Len(history')
  BY <1>3, <1>4, <1>6, <1>7
<1>10. PICK R \in Nat \ {0} : R = RowCapacity
  BY FrameConstants
<1>11. PICK w \in 0..(R - 1) : w = rows.write
  BY <1>10
<1>12. PICK w2 : w2 = rows'.write
  OBVIOUS
<1>13. w2 \in 0..(R - 1) /\ w2 = IF w + 1 < R THEN w + 1 ELSE 0
  <2>1. 1 \in 0..R
    OBVIOUS
  <2>2. (w + 1) % R = Around(w, 1, R)
    BY <2>1, AroundIsRest
  <2> QED
    BY <2>2, <1>4, <1>10, <1>11, <1>12, SMTT(30) DEF Around
<1>14. drain' \in Drains
  BY <1>2 DEF NoDrain, Drains
<1>15. CASE rows.count = RowCapacity
  <2>1. rows'.count = rows.count /\ rows'.overwritten = rows.overwritten + 1
    BY <1>4, <1>15
  <2>2. OldestRow = rows.write
    BY <1>10, <1>11, <1>15 DEF OldestRow
  <2>3. InRing(rows'.ring, RowCapacity, (OldestRow + 1) % RowCapacity, rows.count, history')
    <3>1. PICK held, ring2, at, count : /\ held = rows.ring /\ ring2 = rows'.ring
                                        /\ at = OldestRow /\ count = rows.count
      OBVIOUS
    <3>2. /\ DOMAIN ring2 = DOMAIN held /\ ring2[at] = row
          /\ \A i \in DOMAIN held : i # at => ring2[i] = held[i]
      BY <3>1, <1>5, <2>2
    <3>3. InRing(held, R, at, count, history) /\ count = R /\ history \in Seq(Rows)
      BY <3>1, <1>10, <1>15
    <3>4. InRing(ring2, R, (at + 1) % R, count, Append(history, row))
      BY <3>2, <3>3, <1>3, RingReplacesOldest
    <3> QED
      BY <3>1, <3>4, <1>2, <1>10
  <2>4. OldestRow' = (OldestRow + 1) % RowCapacity
    BY <1>4, <2>2, <1>10, <1>12, <1>13, <1>15, <2>1 DEF OldestRow
  <2>5. InRing(rows'.ring, RowCapacity, OldestRow', rows'.count, history')
    BY <2>1, <2>3, <2>4
  <2>6. rows'.count + rows'.overwritten = Len(history') /\ rows'.overwritten \in Nat
    BY <1>6, <1>7, <2>1
  <2> QED
    BY <1>4, <1>7, <1>8, <1>9, <1>10, <1>12, <1>13, <1>14, <2>5, <2>6 DEF RowPart
<1>16. CASE rows.count # RowCapacity
  <2>1. rows'.count = rows.count + 1 /\ rows'.overwritten = rows.overwritten
    BY <1>4, <1>16
  <2>2. rows.count \in 0..(R - 1) /\ rows.count < RowCapacity
    BY <1>10, <1>16
  <2>3. rows.write = (OldestRow + rows.count) % RowCapacity
    <3>1. OldestRow \in 0..(R - 1) /\ rows.count \in 0..R
      BY <1>10
    <3>2. (OldestRow + rows.count) % R = Around(OldestRow, rows.count, R)
      BY <3>1, AroundIsRest
    <3>3. Around(OldestRow, rows.count, R) = w
      BY <1>10, <1>11, <2>2 DEF Around, OldestRow
    <3> QED
      BY <3>2, <3>3, <1>10, <1>11
  <2>4. InRing(rows'.ring, RowCapacity, OldestRow, rows.count + 1, history')
    BY <1>2, <1>3, <1>5, <2>2, <2>3, FrameConstants, RingTakesOneMore, SMTT(30)
  <2>5. OldestRow' = OldestRow
    BY <1>10, <1>12, <2>1, <1>11, <1>13, <2>2 DEF OldestRow
  <2>6. InRing(rows'.ring, RowCapacity, OldestRow', rows'.count, history')
    BY <2>1, <2>4, <2>5
  <2>7. rows'.count + rows'.overwritten = Len(history') /\ rows'.overwritten \in Nat
    BY <1>6, <1>7, <2>1
  <2> QED
    BY <1>4, <1>7, <1>8, <1>9, <1>10, <1>12, <1>13, <1>14, <2>6, <2>7 DEF RowPart
<1> QED
  BY <1>15, <1>16

LEMMA WordsAreNumbers ==
    ASSUME FramePart
    PROVE  /\ CountOf(words.packed) \in Int /\ TotalOf(words.packed) \in Int
           /\ words.maximum \in Int
<1>1. words.packed \in Nat /\ words.maximum \in Int
  BY WordIs, FrameConstants DEF FramePart, FrameWords
<1>2. PICK c \in Nat \ {0} : c = CountMask + 1
  BY FrameConstants
<1> QED
  BY <1>1, <1>2 DEF CountOf, TotalOf

LEMMA DrainsStay ==
    ASSUME FramePart, RowPart, DrainPacked \/ DrainMaximum \/ DrainMinimum \/ DrainReset
    PROVE  drain' \in Drains /\ UNCHANGED <<rows, history>>
  BY WordsAreNumbers DEF RowPart, DrainPacked, DrainMaximum, DrainMinimum, DrainReset, Drains

LEMMA RowPartKept == FramePart /\ RowPart /\ [FrameNext]_frameVars => RowPart'
<1> SUFFICES ASSUME FramePart, RowPart, [FrameNext]_frameVars PROVE RowPart'
  OBVIOUS
<1>0. drain \in Drains /\ NoDrain \in Drains /\ [NoDrain EXCEPT !.at = "packed"] \in Drains
  BY DEF RowPart, NoDrain, Drains
<1>1. CASE DrainPacked \/ DrainMaximum \/ DrainMinimum \/ DrainReset
  BY <1>1, DrainsStay, RowsUntouched
<1>2. CASE \/ Observe \/ ExchangePrevious \/ ReadInterval \/ UpdateMaximum \/ UpdateMinimum
           \/ CountFrame \/ PushFrameRecord \/ WorkerBegins \/ WorkerNeverStarts \/ StopHub
  <2>1. UNCHANGED <<drain, rows, history>>
    BY <1>2 DEF Observe, ExchangePrevious, ReadInterval, UpdateMaximum, UpdateMinimum, CountFrame,
                PushFrameRecord, WorkerBegins, WorkerNeverStarts, StopHub
  <2> QED
    BY <1>0, <2>1, RowsUntouched
<1>3. CASE Wake \/ WorkerStops \/ StartHub \/ JoinWorker
  BY <1>3, <1>0, RowsUntouched DEF Wake, WorkerStops, StartHub, JoinWorker
<1>4. CASE Publish
  BY <1>4, PublishKeepsRows
<1>5. CASE StartWorker \/ StopReturnsCleared
  BY <1>5, <1>0, RowsUntouched DEF StartWorker, StopReturnsCleared
<1>6. CASE UNCHANGED frameVars
  BY <1>6, <1>0, RowsUntouched DEF frameVars
<1> QED
  BY <1>1, <1>2, <1>3, <1>4, <1>5, <1>6 DEF FrameNext

(* The records.                                                              *)
PushedRecords == [qpc : Int, duration : Int]
RecordPart ==
    /\ observed.qpc \in Int /\ observed.duration \in Int
    /\ DOMAIN observed = {"at", "qpc", "duration", "offset"}
    /\ pushed \in Seq(PushedRecords)
    /\ DOMAIN records = {"ring", "read", "count", "overflows"}
    /\ records.overflows \in Nat
    /\ InRing(records.ring, RecordCapacity, records.read, records.count, pushed)
    /\ records.count + records.overflows = Len(pushed)

LEMMA RecordPartIs ==
    ASSUME RecordPart
    PROVE  /\ observed.qpc \in Int /\ observed.duration \in Int
           /\ DOMAIN observed = {"at", "qpc", "duration", "offset"}
           /\ pushed \in Seq(PushedRecords) /\ Len(pushed) \in Nat
           /\ DOMAIN records = {"ring", "read", "count", "overflows"}
           /\ records.overflows \in Nat /\ records.count \in 0..RecordCapacity
           /\ records.read \in 0..(RecordCapacity - 1)
           /\ DOMAIN records.ring = 0..(RecordCapacity - 1)
           /\ InRing(records.ring, RecordCapacity, records.read, records.count, pushed)
           /\ records.count + records.overflows = Len(pushed)
  BY DEF RecordPart, InRing

LEMMA RecordsStart == FrameStart => RecordPart
<1> SUFFICES ASSUME FrameStart PROVE RecordPart
  OBVIOUS
<1>1. /\ observed = NoFrame /\ pushed = <<>>
      /\ records = [ring |-> [place \in 0..RecordCapacity - 1 |-> NoRecord], read |-> 0,
                    count |-> 0, overflows |-> 0]
  BY DEF FrameStart
<1>2. /\ observed.qpc = 0 /\ observed.duration = 0
      /\ DOMAIN observed = {"at", "qpc", "duration", "offset"}
  BY <1>1 DEF NoFrame
<1>3. pushed \in Seq(PushedRecords) /\ Len(pushed) = 0
  BY <1>1
<1>4. /\ DOMAIN records = {"ring", "read", "count", "overflows"}
      /\ DOMAIN records.ring = 0..(RecordCapacity - 1) /\ records.read = 0 /\ records.count = 0
      /\ records.overflows = 0
  BY <1>1
<1>5. InRing(records.ring, RecordCapacity, records.read, records.count, pushed)
  BY <1>3, <1>4, FrameConstants DEF InRing
<1> QED
  BY <1>2, <1>3, <1>4, <1>5 DEF RecordPart

LEMMA RecordsUntouched ==
    ASSUME RecordPart, UNCHANGED <<records, pushed>>, observed'.qpc \in Int,
           observed'.duration \in Int, DOMAIN observed' = {"at", "qpc", "duration", "offset"}
    PROVE  RecordPart'
  BY DEF RecordPart

LEMMA PushKeepsRecords == ASSUME RecordPart, PushFrameRecord PROVE RecordPart'
<1> USE RecordPartIs
<1>1. PICK record : record = RecordOf(observed)
  OBVIOUS
<1>2. records' = Pushed(records, record) /\ pushed' = Append(pushed, record) /\ observed' = NoFrame
  BY <1>1 DEF PushFrameRecord
<1>3. record \in PushedRecords
  BY <1>1 DEF RecordOf, PushedRecords
<1>4. /\ observed'.qpc \in Int /\ observed'.duration \in Int
      /\ DOMAIN observed' = {"at", "qpc", "duration", "offset"}
  BY <1>2 DEF NoFrame
<1>5. pushed' \in Seq(PushedRecords) /\ Len(pushed') = Len(pushed) + 1
  BY <1>2, <1>3
<1>6. PICK R \in Nat \ {0} : R = RecordCapacity
  BY FrameConstants
<1>7. PICK held, at, count : held = records.ring /\ at = records.read /\ count = records.count
  OBVIOUS
<1>8. /\ InRing(held, R, at, count, pushed) /\ at \in 0..(R - 1) /\ count \in 0..R
      /\ DOMAIN held = 0..(R - 1)
  BY <1>6, <1>7
<1>9. CASE count = R
  <2>1. records' = [records EXCEPT !.ring[records.read] = record,
                                   !.read = (records.read + 1) % RecordCapacity,
                                   !.overflows = @ + 1]
    BY <1>2, <1>6, <1>7, <1>9 DEF Pushed
  <2>2. /\ DOMAIN records' = DOMAIN records /\ records'.ring = [held EXCEPT ![at] = record]
        /\ records'.read = (at + 1) % R /\ records'.count = count
        /\ records'.overflows = records.overflows + 1
    BY <2>1, <1>6, <1>7
  <2>3. PICK ring2 : ring2 = records'.ring
    OBVIOUS
  <2>4. /\ DOMAIN ring2 = DOMAIN held /\ ring2[at] = record
        /\ \A i \in DOMAIN held : i # at => ring2[i] = held[i]
    BY <2>2, <2>3, <1>8
  <2>5. InRing(ring2, R, (at + 1) % R, count, Append(pushed, record))
    BY <2>4, <1>3, <1>8, <1>9, RingReplacesOldest
  <2>6. InRing(records'.ring, RecordCapacity, records'.read, records'.count, pushed')
    BY <2>2, <2>3, <2>5, <1>2, <1>6
  <2> QED
    BY <1>4, <1>5, <1>7, <2>2, <2>6 DEF RecordPart
<1>10. CASE count # R
  <2>0. count < R
    BY <1>8, <1>10
  <2>1. PICK put : put = (at + count) % R
    OBVIOUS
  <2>2. records' = [records EXCEPT !.ring[(records.read + records.count) % RecordCapacity] = record,
                                   !.count = @ + 1]
    BY <1>2, <1>6, <1>7, <1>10 DEF Pushed
  <2>3. /\ DOMAIN records' = DOMAIN records /\ records'.ring = [held EXCEPT ![put] = record]
        /\ records'.read = at /\ records'.count = count + 1
        /\ records'.overflows = records.overflows
    BY <2>1, <2>2, <1>6, <1>7
  <2>4. put \in 0..(R - 1)
    BY <1>8, AroundIsRest, <2>0, <2>1 DEF Around
  <2>5. PICK ring2 : ring2 = records'.ring
    OBVIOUS
  <2>6. /\ DOMAIN ring2 = DOMAIN held /\ ring2[put] = record
        /\ \A i \in DOMAIN held : i # put => ring2[i] = held[i]
    BY <2>3, <2>4, <2>5, <1>8
  <2>7. InRing(ring2, R, at, count + 1, Append(pushed, record))
    BY <2>0, <2>1, <2>6, <1>3, <1>8, RingTakesOneMore
  <2>8. InRing(records'.ring, RecordCapacity, records'.read, records'.count, pushed')
    BY <2>3, <2>5, <2>7, <1>2, <1>6
  <2> QED
    BY <1>4, <1>5, <1>7, <2>3, <2>8 DEF RecordPart
<1> QED
  BY <1>9, <1>10

LEMMA RecordPartKept == FramePart /\ RecordPart /\ [FrameNext]_frameVars => RecordPart'
<1> SUFFICES ASSUME FramePart, RecordPart, [FrameNext]_frameVars PROVE RecordPart'
  OBVIOUS
<1> USE RecordPartIs
<1>1. CASE Observe
  <2>1. PICK now \in clock..MaxClock : observed' = [NoFrame EXCEPT !.at = "entered", !.qpc = now]
    BY <1>1 DEF Observe
  <2>2. UNCHANGED <<records, pushed>>
    BY <1>1 DEF Observe
  <2>3. observed'.qpc = now /\ observed'.duration = 0
        /\ DOMAIN observed' = {"at", "qpc", "duration", "offset"}
    BY <2>1 DEF NoFrame
  <2> QED
    BY <2>2, <2>3, RecordsUntouched
<1>2. CASE ExchangePrevious
  <2>1. UNCHANGED <<records, pushed>>
        /\ observed' = IF HasDuration(observed.qpc, words.previous)
                       THEN [observed EXCEPT !.at = "exchanged",
                                             !.duration = observed.qpc - words.previous]
                       ELSE NoFrame
    BY <1>2 DEF ExchangePrevious
  <2>2. words.previous \in Int
    BY FrameConstants DEF FramePart, FrameWords
  <2>3. observed'.qpc \in Int /\ observed'.duration \in Int
        /\ DOMAIN observed' = {"at", "qpc", "duration", "offset"}
    BY <2>1, <2>2 DEF NoFrame
  <2> QED
    BY <2>1, <2>3, RecordsUntouched
<1>3. CASE ReadInterval \/ UpdateMaximum \/ UpdateMinimum
  BY <1>3, RecordsUntouched DEF ReadInterval, UpdateMaximum, UpdateMinimum
<1>4. CASE CountFrame
  BY <1>4, RecordsUntouched DEF CountFrame, NoFrame
<1>5. CASE PushFrameRecord
  BY <1>5, PushKeepsRecords
<1>6. CASE \/ DrainPacked \/ DrainMaximum \/ DrainMinimum \/ DrainReset
           \/ WorkerBegins \/ Wake \/ WorkerStops \/ Publish
  BY <1>6, RecordsUntouched DEF DrainPacked, DrainMaximum, DrainMinimum, DrainReset,
     WorkerBegins, Wake, WorkerStops, Publish
<1>7. CASE \/ StartHub \/ StartWorker \/ WorkerNeverStarts \/ StopHub \/ JoinWorker
           \/ StopReturnsCleared \/ UNCHANGED frameVars
  BY <1>7, RecordsUntouched DEF StartHub, StartWorker, WorkerNeverStarts, StopHub, JoinWorker,
     StopReturnsCleared, frameVars
<1> QED
  BY <1>1, <1>2, <1>3, <1>4, <1>5, <1>6, <1>7 DEF FrameNext

-----------------------------------------------------------------------------
(* The deadlines.  The worker collects at each or counts it as skipped.      *)

DeadlinePart ==
    /\ cadence.start \in Nat /\ cadence.deadline \in Nat /\ cadence.now \in Nat
    /\ cadence.skipped \in Nat /\ cadence.collected \in Nat
    /\ DOMAIN cadence = {"at", "start", "deadline", "now", "skipped", "collected"}
    /\ cadence.at \in {"waiting", "collecting"} =>
          cadence.deadline = cadence.start
                                + ((cadence.collected + cadence.skipped + 1) * Cadence)
    /\ cadence.at = "waiting" /\ cadence.collected > 0 => cadence.now < cadence.deadline

LEMMA DeadlinesStart == FrameStart => DeadlinePart
  BY DEF FrameStart, DeadlinePart

LEMMA DeadlinesUntouched ==
    ASSUME DeadlinePart, cadence' = cadence \/ \E at : at \notin {"waiting", "collecting"}
                                        /\ cadence' = [cadence EXCEPT !.at = at]
    PROVE  DeadlinePart'
<1>1. CASE cadence' = cadence
  BY <1>1 DEF DeadlinePart
<1>2. CASE \E at : at \notin {"waiting", "collecting"} /\ cadence' = [cadence EXCEPT !.at = at]
  <2>1. PICK at : at \notin {"waiting", "collecting"} /\ cadence' = [cadence EXCEPT !.at = at]
    BY <1>2
  <2>2. /\ cadence'.at = at /\ cadence'.start = cadence.start
        /\ cadence'.deadline = cadence.deadline /\ cadence'.now = cadence.now
        /\ cadence'.skipped = cadence.skipped /\ cadence'.collected = cadence.collected
        /\ DOMAIN cadence' = DOMAIN cadence
    BY <2>1 DEF DeadlinePart
  <2> QED
    BY <2>1, <2>2 DEF DeadlinePart
<1> QED
  BY <1>1, <1>2

LEMMA RescheduledKeeps ==
    ASSUME DeadlinePart, cadence.at = "collecting", cadence' = Rescheduled(cadence)
    PROVE  DeadlinePart'
<1>1. PICK start, deadline, now, skipped, collected \in Nat :
          /\ start = cadence.start /\ deadline = cadence.deadline /\ now = cadence.now
          /\ skipped = cadence.skipped /\ collected = cadence.collected
  BY DEF DeadlinePart
<1>2. PICK C \in Nat \ {0} : C = Cadence
  BY FrameConstants
<1>3. PICK next \in Nat : next = deadline + C
  OBVIOUS
<1>4. PICK missed : missed = IF now >= next THEN ((now - next) \div C) + 1 ELSE 0
  OBVIOUS
<1>5. cadence' = [cadence EXCEPT !.at = "waiting", !.deadline = next + (missed * C),
                                 !.skipped = @ + missed, !.collected = @ + 1]
  BY <1>1, <1>2, <1>3, <1>4 DEF Rescheduled
<1>6. missed \in Nat /\ now < next + (missed * C)
  <2>1. CASE now >= next
    <3>1. PICK x \in Nat : x = now - next
      BY <2>1
    <3>2. x \div C \in Nat /\ x < (x \div C + 1) * C
      BY QuotientBelow
    <3>3. missed = (x \div C) + 1
      BY <1>4, <2>1, <3>1
    <3>4. missed \in Nat /\ x < missed * C
      BY <3>2, <3>3
    <3>5. PICK p \in Nat : p = missed * C
      BY <3>4
    <3> QED
      BY <3>1, <3>4, <3>5
  <2>2. CASE now < next
    BY <1>4, <2>2
  <2> QED
    BY <2>1, <2>2
<1>7. PICK p \in Nat : p = missed * C
  BY <1>6
<1>8. /\ cadence'.at = "waiting" /\ cadence'.start = start /\ cadence'.now = now
      /\ cadence'.deadline = next + p /\ cadence'.skipped = skipped + missed
      /\ cadence'.collected = collected + 1 /\ DOMAIN cadence' = DOMAIN cadence
  BY <1>1, <1>5, <1>7 DEF DeadlinePart
<1>9. deadline = start + ((collected + skipped + 1) * C)
  BY <1>1, <1>2 DEF DeadlinePart
<1>10. next + p = start + (((collected + 1) + (skipped + missed) + 1) * C)
  <2>1. PICK q \in Nat : q = (collected + skipped + 1) * C
    OBVIOUS
  <2>2. ((collected + 1) + (skipped + missed) + 1) * C = q + C + p
    BY <1>6, <2>1, <1>7
  <2> QED
    BY <1>3, <1>9, <2>1, <2>2
<1>11. next + p \in Nat /\ skipped + missed \in Nat /\ collected + 1 \in Nat /\ now < next + p
  BY <1>6, <1>7
<1> QED
  BY <1>2, <1>8, <1>10, <1>11 DEF DeadlinePart

LEMMA DeadlinePartKept == FramePart /\ DeadlinePart /\ [FrameNext]_frameVars => DeadlinePart'
<1> SUFFICES ASSUME FramePart, DeadlinePart, [FrameNext]_frameVars PROVE DeadlinePart'
  OBVIOUS
<1>0. clock \in 1..MaxClock /\ MaxClock \in Nat /\ Cadence \in Nat
  BY FrameConstants DEF FramePart, FrameWords
<1>1. CASE WorkerBegins
  <2>1. PICK now \in clock..MaxClock :
            cadence' = [at |-> "waiting", start |-> now, deadline |-> now + Cadence,
                        now |-> now, skipped |-> 0, collected |-> 0]
    BY <1>1 DEF WorkerBegins
  <2>2. now \in Nat /\ now + Cadence \in Nat /\ now + Cadence = now + ((0 + 0 + 1) * Cadence)
    BY <1>0
  <2> QED
    BY <2>1, <2>2 DEF DeadlinePart
<1>2. CASE Wake
  <2>1. PICK now \in clock..MaxClock : cadence' = [cadence EXCEPT !.at = "collecting", !.now = now]
    BY <1>2 DEF Wake
  <2>2. cadence.at = "waiting" /\ now \in Nat
    BY <1>0, <1>2 DEF Wake
  <2>3. /\ cadence'.at = "collecting" /\ cadence'.start = cadence.start
        /\ cadence'.deadline = cadence.deadline /\ cadence'.now = now
        /\ cadence'.skipped = cadence.skipped /\ cadence'.collected = cadence.collected
        /\ DOMAIN cadence' = DOMAIN cadence
    BY <2>1 DEF DeadlinePart
  <2> QED
    BY <2>2, <2>3 DEF DeadlinePart
<1>3. CASE WorkerStops
  <2>1. CASE cadence' = [cadence EXCEPT !.at = "off"]
    BY <2>1, DeadlinesUntouched
  <2>2. CASE \E now \in clock..MaxClock : cadence' = [cadence EXCEPT !.at = "last", !.now = now]
    <3>1. PICK now \in clock..MaxClock : cadence' = [cadence EXCEPT !.at = "last", !.now = now]
      BY <2>2
    <3>2. /\ cadence'.at = "last" /\ cadence'.start = cadence.start
          /\ cadence'.deadline = cadence.deadline /\ cadence'.now = now
          /\ cadence'.skipped = cadence.skipped /\ cadence'.collected = cadence.collected
          /\ DOMAIN cadence' = DOMAIN cadence
      BY <3>1 DEF DeadlinePart
    <3>3. now \in Nat
      BY <1>0
    <3> QED
      BY <3>2, <3>3 DEF DeadlinePart
  <2> QED
    BY <1>3, <2>1, <2>2 DEF WorkerStops
<1>4. CASE Publish
  BY <1>4, DeadlinesUntouched, RescheduledKeeps DEF Publish
<1>5. CASE StartWorker \/ WorkerNeverStarts
  BY <1>5, DeadlinesUntouched DEF StartWorker, WorkerNeverStarts
<1>6. CASE \/ Observe \/ ExchangePrevious \/ ReadInterval \/ UpdateMaximum \/ UpdateMinimum
           \/ CountFrame \/ PushFrameRecord
           \/ DrainPacked \/ DrainMaximum \/ DrainMinimum \/ DrainReset
  <2>1. UNCHANGED cadence
    BY <1>6 DEF Observe, ExchangePrevious, ReadInterval, UpdateMaximum, UpdateMinimum, CountFrame,
                PushFrameRecord, DrainPacked, DrainMaximum, DrainMinimum, DrainReset
  <2> QED
    BY <2>1, DeadlinesUntouched
<1>7. CASE StartHub \/ StopHub \/ JoinWorker \/ StopReturnsCleared \/ UNCHANGED frameVars
  BY <1>7, DeadlinesUntouched DEF StartHub, StopHub, JoinWorker, StopReturnsCleared, frameVars
<1> QED
  BY <1>1, <1>2, <1>3, <1>4, <1>5, <1>6, <1>7 DEF FrameNext

-----------------------------------------------------------------------------
FrameInv == FramePart /\ RowPart /\ RecordPart /\ DeadlinePart
FramesAddUp ==
    /\ FrameTypeOK
    /\ HistoryIsTheNewest /\ RecordsAreTheNewest
    /\ CountAndTotalAgree /\ MaximumIsOneFrame
    /\ DeadlinesAccountedFor

LEMMA RowsThen == ASSUME RowPart PROVE HistoryIsTheNewest
<1> USE RowPartIs
<1>1. PICK R \in Nat \ {0} : R = RowCapacity
  BY FrameConstants
<1>2. ASSUME NEW room \in 0..RowCapacity
      PROVE  CopyMetricHistory(room) = Newest(history, Min({room, rows.count}))
  <2>1. PICK m : m = Min({room, rows.count})
    OBVIOUS
  <2>2. m \in 0..rows.count
    BY <1>1, <2>1, MinOfTwo
  <2>3. PICK w, c, held, at : w = rows.write /\ c = rows.count /\ held = rows.ring /\ at = OldestRow
    OBVIOUS
  <2>4. w \in 0..(R - 1) /\ c \in 0..R /\ at \in 0..(R - 1) /\ m \in 0..c
        /\ at = (IF w >= c THEN w - c ELSE w + R - c)
    BY <1>1, <2>2, <2>3 DEF OldestRow
  <2>5. [index \in 1..m |-> held[(at + c - m + index - 1) % R]] = Newest(history, m)
    <3>1. InRing(held, R, at, c, history) /\ m \in 0..c
      BY <1>1, <2>2, <2>3
    <3>2. history \in Seq(Rows)
      OBVIOUS
    <3> QED
      BY <3>1, <3>2, <1>1, RingIsNewest
  <2>6. ASSUME NEW index \in 1..m
        PROVE  ((w + R - c) + c - m + index - 1) % R = (at + c - m + index - 1) % R
    <3>1. PICK i \in 0..(R - 1) : i = c - m + index - 1
      BY <2>4
    <3>2. (w + R - c) + c - m + index - 1 = (w + R - c) + i /\ at + c - m + index - 1 = at + i
      BY <3>1, <2>4
    <3>3. CASE w >= c
      <4>1. (w + R - c) + i = 1 * R + (at + i) /\ at + i \in Nat
        BY <3>3, <2>4
      <4>2. (at + i) % R \in 0..(R - 1) /\ at + i = ((at + i) \div R) * R + ((at + i) % R)
            /\ (at + i) \div R \in Nat
        BY <4>1, QuotientBelow
      <4>3. PICK q, r : q = (at + i) \div R /\ r = (at + i) % R
        OBVIOUS
      <4>4. q \in Nat /\ r \in 0..(R - 1) /\ at + i = q * R + r
        BY <4>2, <4>3
      <4>5. 1 * R + (at + i) = (q + 1) * R + r
        <5>1. (q + 1) * R = q * R + R
          BY <4>4
        <5>2. PICK p \in Nat : p = q * R
          BY <4>4
        <5> QED
          BY <4>4, <5>1, <5>2
      <4>6. ((q + 1) * R + r) % R = r
        <5>1. PICK a \in Nat : a = q + 1
          BY <4>4
        <5>2. (a * R + r) % R = r
          BY <4>4, QuotientAndRest
        <5> QED
          BY <5>1, <5>2
      <4> QED
        BY <3>2, <4>1, <4>3, <4>5, <4>6
    <3>4. CASE w < c
      BY <3>2, <3>4, <2>4
    <3> QED
      BY <2>4, <3>3, <3>4
  <2>7. CopyMetricHistory(room) = [index \in 1..m |-> held[((w + R - c) + c - m + index - 1) % R]]
    BY <1>1, <2>1, <2>3 DEF CopyMetricHistory
  <2> QED
    BY <2>1, <2>5, <2>6, <2>7
<1> QED
  BY <1>2 DEF HistoryIsTheNewest

LEMMA RecordsThen == ASSUME RecordPart PROVE RecordsAreTheNewest
<1> USE RecordPartIs
<1>1. PICK R \in Nat \ {0} : R = RecordCapacity
  BY FrameConstants
<1>2. ASSUME NEW room \in 0..RecordCapacity
      PROVE  CopyFrameRecords(room) = Newest(pushed, Min({room, records.count}))
  <2>1. PICK m : m = Min({room, records.count})
    OBVIOUS
  <2>2. m \in 0..records.count
    BY <1>1, <2>1, MinOfTwo
  <2>3. PICK c, held, at : c = records.count /\ held = records.ring /\ at = records.read
    OBVIOUS
  <2>4. [index \in 1..m |-> held[(at + c - m + index - 1) % R]] = Newest(pushed, m)
    <3>1. InRing(held, R, at, c, pushed) /\ m \in 0..c
      BY <1>1, <2>2, <2>3
    <3>2. pushed \in Seq(PushedRecords)
      OBVIOUS
    <3> QED
      BY <3>1, <3>2, RingIsNewest
  <2>5. CopyFrameRecords(room) = [index \in 1..m |-> held[(at + c - m + index - 1) % R]]
    BY <1>1, <2>1, <2>3 DEF CopyFrameRecords
  <2> QED
    BY <2>1, <2>4, <2>5
<1> QED
  BY <1>2 DEF RecordsAreTheNewest

(* The part of RowsAddUp about frames: what the worker collects, skips and   *)
(* overwrites adds up to what the game's thread measured.  The rows and the  *)
(* records copied are the newest, in order; count and total never run into   *)
(* each other; the longest frame is one frame; every deadline is collected   *)
(* at or skipped, for any capacities, masks, cadence and threshold           *)
(* (AdTelemetryHub.cpp).                                                     *)
THEOREM FramesAlwaysAddUp == FrameSpec => []FramesAddUp
<1>1. FrameStart => FrameInv
  BY FramesStart, RowsStart, RecordsStart, DeadlinesStart DEF FrameInv
<1>2. FrameInv /\ [FrameNext]_frameVars => FrameInv'
  BY FramePartKept, RowPartKept, RecordPartKept, DeadlinePartKept DEF FrameInv
<1>3. FrameInv => FramesAddUp
  <2> SUFFICES ASSUME FrameInv PROVE FramesAddUp
    OBVIOUS
  <2>1. FramePart /\ RowPart /\ RecordPart /\ DeadlinePart
    BY DEF FrameInv
  <2>2. FrameTypeOK
    BY <2>1, RowPartIs, RecordPartIs DEF FrameTypeOK, FramePart, FrameWords
  <2>3. CountAndTotalAgree /\ MaximumIsOneFrame
    BY <2>1 DEF FramePart, LongestFrame
  <2>4. DeadlinesAccountedFor
    BY <2>1 DEF DeadlinePart, DeadlinesAccountedFor
  <2> QED
    BY <2>1, <2>2, <2>3, <2>4, RowsThen, RecordsThen DEF FramesAddUp
<1> QED
  BY <1>1, <1>2, <1>3, PTL DEF FrameSpec

-----------------------------------------------------------------------------
(* The lanes of the counters.  What the variables are, and where a thread    *)
(* is that has read a capture's generation.                                  *)
ThreadStates ==
    [life : {"new", "known"}, at : {"idle", "take", "check", "clear", "set", "name", "add"},
     lane : 1..LaneCount + 1, seen : 0..MaxCaptures]
Readings ==
    [at : {"idle", "generation", "value", "again", "counted"},
     lane : 1..LaneCount + 1, value : Nat, count : Nat]
Tallies ==
    [begun : [1..MaxCaptures -> Nat], done : [1..MaxCaptures -> Nat],
     dropped : [1..MaxCaptures -> Nat], least : Nat, overtaken : BOOLEAN]
ReaderAt(r, cg) ==
    /\ r.at \in {"generation", "value", "again"} => r.lane \in LaneIndices
    /\ r.at = "counted" => r.lane = LaneCount + 1
    /\ r.at # "idle" => cg > 0
LaneTypes ==
    /\ captureOf \in [generation : 0..MaxCaptures, open : BOOLEAN]
    /\ captureOf.open => captureOf.generation > 0
    /\ owned \in [LaneIndices -> BOOLEAN]
    /\ lanes \in [LaneIndices -> [value : Nat, generation : 0..MaxCaptures]]
    /\ threads \in [LaneThreads -> ThreadStates]
    /\ reading \in Readings /\ ReaderAt(reading, captureOf.generation)
    /\ counts \in Tallies

\* A thread that has read a generation has not read a later one; it writes a lane
\* of its own, whose generation it knows.
ThreadFits(r, slots, cg) ==
    /\ r.at # "idle" => r.seen \in 1..cg
    /\ r.at = "take" => r.life = "new" /\ r.lane \in LaneIndices
    /\ r.at \notin {"idle", "take"} => r.life = "known"
    /\ r.at \in {"clear", "set", "name", "add"} => r.lane \in LaneIndices
    /\ r.at = "clear" => slots[r.lane].generation # r.seen
    /\ r.at \in {"set", "name"} => slots[r.lane].generation = 0
    /\ r.at = "add" => slots[r.lane].generation = r.seen
ThreadPart ==
    /\ \A t \in LaneThreads : ThreadFits(threads[t], lanes, captureOf.generation)
    /\ \A l \in LaneIndices : lanes[l].generation <= captureOf.generation

HasLane(r, l) == r.life = "known" /\ r.lane = l
OwnerPart ==
    \A l \in LaneIndices :
        /\ \A t, u \in LaneThreads : HasLane(threads[t], l) /\ HasLane(threads[u], l) => t = u
        /\ owned[l] <=> \E t \in LaneThreads : HasLane(threads[t], l)

LEMMA LaneConstants ==
    /\ LaneCount \in Nat \ {0} /\ MaxCaptures \in Nat /\ IsFiniteSet(LaneThreads)
    /\ Second \in Nat \ {0} /\ Frequency \in Nat \ {0} /\ LongestTime \in Nat \ {0}
    /\ MaxTicks \in Nat
  BY LanesAssumption

LEMMA LanesTypedAtFirst == LanesInit => LaneTypes
<1> SUFFICES ASSUME LanesInit PROVE LaneTypes
  OBVIOUS
<1> USE LaneConstants
<1>1. captureOf \in [generation : 0..MaxCaptures, open : BOOLEAN] /\ ~captureOf.open
  BY DEF LanesInit
<1>2. owned \in [LaneIndices -> BOOLEAN]
  BY DEF LanesInit
<1>3. lanes \in [LaneIndices -> [value : Nat, generation : 0..MaxCaptures]]
  BY DEF LanesInit
<1>4. threads \in [LaneThreads -> ThreadStates]
  BY DEF LanesInit, ThreadStates, NewThread, NoLane
<1>5. reading \in Readings /\ ReaderAt(reading, captureOf.generation)
  BY DEF LanesInit, Readings, ReaderAt
<1>6. counts \in Tallies
  BY DEF LanesInit, Tallies
<1> QED
  BY <1>1, <1>2, <1>3, <1>4, <1>5, <1>6 DEF LaneTypes

LEMMA TallyTyped ==
    ASSUME NEW field \in {"begun", "done", "dropped"}, NEW g \in 1..MaxCaptures,
           counts \in Tallies, Tally(field, g)
    PROVE  counts' \in Tallies
<1>1. counts[field] \in [1..MaxCaptures -> Nat]
  BY DEF Tallies
<1>2. PICK f \in [1..MaxCaptures -> Nat] : f = counts[field]
  BY <1>1
<1>3. PICK h : h = [f EXCEPT ![g] = @ + 1]
  OBVIOUS
<1>4. h \in [1..MaxCaptures -> Nat]
  BY <1>3
<1>5. counts' = [counts EXCEPT ![field] = h]
  BY <1>2, <1>3 DEF Tally, Tallies
<1> QED
  BY <1>4, <1>5 DEF Tallies

\* A step of one thread.
ThreadSteps(t) ==
    \/ LoadGenerationFirst(t) \/ TakeLane(t) \/ CheckLane(t)
    \/ ClearLane(t) \/ SetLane(t) \/ NameLane(t) \/ AddInLane(t)
    \/ EndThread(t)

LEMMA ThreadsTyped ==
    ASSUME LaneTypes, ThreadPart, NEW t \in LaneThreads, ThreadSteps(t)
    PROVE  threads' \in [LaneThreads -> ThreadStates]
<1> USE LaneConstants
<1>1. threads \in [LaneThreads -> ThreadStates] /\ captureOf.generation \in 0..MaxCaptures
  BY DEF LaneTypes
<1>2. PICK r \in ThreadStates : r = threads[t]
  BY <1>1
<1>3. ASSUME NEW s \in ThreadStates, threads' = [threads EXCEPT ![t] = s]
      PROVE  threads' \in [LaneThreads -> ThreadStates]
  BY <1>1, <1>3
<1>4. ASSUME NEW at \in {"idle", "take", "check", "clear", "set", "name", "add"}, Goes(t, at)
      PROVE  threads' \in [LaneThreads -> ThreadStates]
  BY <1>1, <1>2, <1>4, <1>3 DEF Goes, ThreadStates
<1>5. CASE LoadGenerationFirst(t)
  <2>1. PICK at, lane : /\ at = IF r.life = "new" THEN "take" ELSE "check"
                        /\ lane = IF r.life = "new" THEN 1 ELSE r.lane
    OBVIOUS
  <2>2. threads' = [threads EXCEPT ![t] = [r EXCEPT !.seen = captureOf.generation, !.at = at, !.lane = lane]]
    BY <1>1, <1>2, <1>5, <2>1 DEF LoadGenerationFirst
  <2>3. at \in {"take", "check"} /\ lane \in 1..LaneCount + 1
    BY <2>1, <1>2 DEF ThreadStates
  <2>4. [r EXCEPT !.seen = captureOf.generation, !.at = at, !.lane = lane] \in ThreadStates
    BY <1>1, <1>2, <2>3 DEF ThreadStates
  <2> QED
    BY <1>3, <2>2, <2>4
<1>6. CASE TakeLane(t)
  <2>1. r.lane \in 1..LaneCount
    BY <1>2, <1>6 DEF TakeLane, At, ThreadPart, ThreadFits, LaneIndices
  <2>2. CASE owned[r.lane]
    <3>1. PICK life, at : /\ life = IF r.lane = LaneCount THEN "known" ELSE r.life
                          /\ at = IF r.lane = LaneCount THEN "check" ELSE r.at
      OBVIOUS
    <3>2. threads' = [threads EXCEPT ![t] = [r EXCEPT !.lane = r.lane + 1, !.life = life, !.at = at]]
      BY <1>1, <1>2, <1>6, <2>2, <3>1 DEF TakeLane, OwnLane
    <3>3. /\ r.lane + 1 \in 1..LaneCount + 1 /\ life \in {"new", "known"}
          /\ at \in {"idle", "take", "check", "clear", "set", "name", "add"}
      BY <2>1, <1>2, <3>1 DEF ThreadStates
    <3>4. [r EXCEPT !.lane = r.lane + 1, !.life = life, !.at = at] \in ThreadStates
      BY <1>2, <3>3 DEF ThreadStates
    <3> QED
      BY <1>3, <3>2, <3>4
  <2>3. CASE ~owned[r.lane]
    BY <1>1, <1>2, <1>6, <2>3, <1>3 DEF TakeLane, OwnLane, ThreadStates
  <2> QED
    BY <2>2, <2>3
<1>7. CASE CheckLane(t)
  BY <1>7, <1>4 DEF CheckLane
<1>8. CASE ClearLane(t) \/ SetLane(t) \/ NameLane(t) \/ AddInLane(t)
  BY <1>8, <1>4 DEF ClearLane, SetLane, NameLane, AddInLane
<1>9. CASE EndThread(t)
  <2>1. NewThread \in ThreadStates /\ threads' = [threads EXCEPT ![t] = NewThread]
    BY <1>9 DEF EndThread, NewThread, NoLane, ThreadStates
  <2> QED
    BY <1>3, <2>1
<1> QED
  BY <1>5, <1>6, <1>7, <1>8, <1>9 DEF ThreadSteps

LEMMA LanesTyped == LaneTypes /\ ThreadPart /\ [LanesNext]_laneVars => LaneTypes'
<1> SUFFICES ASSUME LaneTypes, ThreadPart, [LanesNext]_laneVars PROVE LaneTypes'
  OBVIOUS
<1> USE LaneConstants
<1>1. /\ captureOf \in [generation : 0..MaxCaptures, open : BOOLEAN]
      /\ captureOf.generation \in 0..MaxCaptures
      /\ captureOf.open => captureOf.generation > 0
      /\ owned \in [LaneIndices -> BOOLEAN]
      /\ lanes \in [LaneIndices -> [value : Nat, generation : 0..MaxCaptures]]
      /\ threads \in [LaneThreads -> ThreadStates]
      /\ reading \in Readings /\ ReaderAt(reading, captureOf.generation) /\ counts \in Tallies
  BY DEF LaneTypes
<1>2. CASE UNCHANGED laneVars \/ \E config \in Configurations : Construct(config)
  BY <1>2, <1>1 DEF laneVars, Construct, LaneTypes
<1>3. CASE OpenCapture \/ CloseCapture
  <2>1. captureOf' \in [generation : 0..MaxCaptures, open : BOOLEAN]
        /\ (captureOf'.open => captureOf'.generation > 0)
    <3>1. CASE OpenCapture
      BY <1>1, <3>1 DEF OpenCapture
    <3>2. CASE CloseCapture
      BY <1>1, <3>2 DEF CloseCapture
    <3> QED
      BY <1>3, <3>1, <3>2
  <2>2. UNCHANGED <<owned, lanes, threads, reading, counts>>
    BY <1>3 DEF OpenCapture, CloseCapture
  <2>3. ReaderAt(reading, captureOf'.generation)
    BY <1>1, <1>3 DEF OpenCapture, CloseCapture, ReaderAt
  <2> QED
    BY <1>1, <2>1, <2>2, <2>3 DEF LaneTypes
<1>4. CASE StartCounting
  <2>1. /\ reading' = [at |-> "generation", lane |-> 1, value |-> 0, count |-> 0]
        /\ counts' = [counts EXCEPT !.least = counts.done[captureOf.generation]]
        /\ UNCHANGED <<captureOf, owned, lanes, threads>> /\ captureOf.generation \in 1..MaxCaptures
    BY <1>1, <1>4 DEF StartCounting
  <2>2. reading' \in Readings /\ ReaderAt(reading', captureOf.generation)
    BY <2>1 DEF Readings, ReaderAt, LaneIndices
  <2>3. counts' \in Tallies
    BY <1>1, <2>1 DEF Tallies
  <2> QED
    BY <1>1, <2>1, <2>2, <2>3 DEF LaneTypes
<1>5. CASE ReadLane \/ ReportCount
  <2>1. UNCHANGED <<captureOf, owned, lanes, threads, counts>>
    BY <1>5 DEF ReadLane, ReportCount
  <2>2. reading' \in Readings /\ ReaderAt(reading', captureOf.generation)
    <3>1. CASE ReportCount
      BY <3>1 DEF ReportCount, Readings, ReaderAt
    <3>2. ASSUME NEW count \in Nat, reading.lane \in LaneIndices, captureOf.generation > 0,
                 NextLane(count)
          PROVE  reading' \in Readings /\ ReaderAt(reading', captureOf.generation)
      <4>1. PICK at, lane : /\ at = IF reading.lane = LaneCount THEN "counted" ELSE "generation"
                            /\ lane = reading.lane + 1
        OBVIOUS
      <4>2. /\ lane \in 1..LaneCount + 1 /\ at \in {"counted", "generation"}
            /\ at = "counted" => lane = LaneCount + 1
            /\ at = "generation" => lane \in LaneIndices
        BY <3>2, <4>1 DEF LaneIndices
      <4>3. reading' = [at |-> at, lane |-> lane, value |-> 0, count |-> count]
        BY <3>2, <4>1 DEF NextLane
      <4> QED
        BY <3>2, <4>2, <4>3 DEF Readings, ReaderAt
    <3>3. CASE ReadLane
      <4>1. /\ reading.at \in {"generation", "value", "again"} /\ reading.lane \in LaneIndices
            /\ captureOf.generation > 0 /\ reading.count \in Nat /\ reading.value \in Nat
        BY <1>1, <3>3 DEF ReadLane, ReaderAt, Readings
      <4>2. CASE \E count \in Nat : NextLane(count)
        BY <3>2, <4>1, <4>2
      <4>3. CASE reading' = [reading EXCEPT !.at = "value"]
        BY <1>1, <4>1, <4>3 DEF Readings, ReaderAt
      <4>4. CASE reading' = [reading EXCEPT !.at = "again", !.value = lanes[reading.lane].value]
        BY <1>1, <4>1, <4>4 DEF Readings, ReaderAt
      <4>5. reading.count \in Nat
            /\ reading.count + (IF IsOfCapture(reading.lane) THEN reading.value ELSE 0) \in Nat
        BY <4>1
      <4> QED
        BY <3>3, <4>2, <4>3, <4>4, <4>5 DEF ReadLane
    <3> QED
      BY <1>5, <3>1, <3>3
  <2> QED
    BY <1>1, <2>1, <2>2 DEF LaneTypes
<1>6. ASSUME NEW t \in LaneThreads, ThreadSteps(t)
      PROVE  LaneTypes'
  <2>1. threads' \in [LaneThreads -> ThreadStates]
    BY <1>6, ThreadsTyped
  <2>2. UNCHANGED <<captureOf, reading>>
    BY <1>6 DEF ThreadSteps, LoadGenerationFirst, TakeLane, CheckLane, ClearLane, SetLane, NameLane,
                AddInLane, EndThread
  <2>3. ThreadFits(threads[t], lanes, captureOf.generation) /\ threads[t] \in ThreadStates
    BY <1>1 DEF ThreadPart
  <2>4. owned' \in [LaneIndices -> BOOLEAN]
    <3>1. UNCHANGED owned \/ TakeLane(t) \/ EndThread(t)
      BY <1>6 DEF ThreadSteps, LoadGenerationFirst, CheckLane, ClearLane, SetLane, NameLane, AddInLane
    <3>2. CASE TakeLane(t)
      BY <3>2, <1>1 DEF TakeLane
    <3>3. CASE EndThread(t)
      BY <3>3, <1>1 DEF EndThread, Released
    <3> QED
      BY <1>1, <3>1, <3>2, <3>3
  <2>5. lanes' \in [LaneIndices -> [value : Nat, generation : 0..MaxCaptures]]
    <3>1. UNCHANGED lanes \/ ClearLane(t) \/ SetLane(t) \/ NameLane(t) \/ AddInLane(t)
      BY <1>6 DEF ThreadSteps, LoadGenerationFirst, TakeLane, CheckLane, EndThread
    <3>2. CASE ClearLane(t) \/ SetLane(t) \/ NameLane(t) \/ AddInLane(t)
      <4>1. OwnLane(t) \in LaneIndices /\ threads[t].seen \in 0..MaxCaptures
        BY <2>3, <3>2 DEF ThreadFits, At, OwnLane, ClearLane, SetLane, NameLane, AddInLane, ThreadStates
      <4>2. PICK w \in [value : Nat, generation : 0..MaxCaptures] : w = lanes[OwnLane(t)]
        BY <1>1, <4>1
      <4>3. \E x \in [value : Nat, generation : 0..MaxCaptures] : lanes' = [lanes EXCEPT ![OwnLane(t)] = x]
        <5>1. CASE ClearLane(t)
          <6>1. lanes' = [lanes EXCEPT ![OwnLane(t)] = [w EXCEPT !.generation = 0]]
            BY <1>1, <4>1, <4>2, <5>1 DEF ClearLane
          <6>2. [w EXCEPT !.generation = 0] \in [value : Nat, generation : 0..MaxCaptures]
            BY <4>2, LaneConstants
          <6> QED
            BY <6>1, <6>2
        <5>2. CASE SetLane(t)
          BY <1>1, <4>1, <4>2, <5>2 DEF SetLane, SetFirst
        <5>3. CASE NameLane(t)
          BY <5>3, <4>1 DEF NameLane
        <5>4. CASE AddInLane(t)
          <6>1. lanes' = [lanes EXCEPT ![OwnLane(t)] = [w EXCEPT !.value = w.value + 1]]
            BY <1>1, <4>1, <4>2, <5>4 DEF AddInLane
          <6>2. w.value + 1 \in Nat
            BY <4>2
          <6>3. [w EXCEPT !.value = w.value + 1] \in [value : Nat, generation : 0..MaxCaptures]
            BY <4>2, <6>2
          <6> QED
            BY <6>1, <6>3
        <5> QED
          BY <3>2, <5>1, <5>2, <5>3, <5>4
      <4> QED
        BY <1>1, <4>1, <4>3
    <3> QED
      BY <1>1, <3>1, <3>2
  <2>6. counts' \in Tallies
    <3>1. \/ UNCHANGED counts \/ ClearLane(t)
          \/ \E field \in {"begun", "done", "dropped"} :
                \/ Tally(field, captureOf.generation) /\ LoadGenerationFirst(t)
                \/ Tally(field, threads[t].seen) /\ threads[t].at # "idle"
      BY <1>6 DEF ThreadSteps, LoadGenerationFirst, TakeLane, CheckLane, SetLane, NameLane, AddInLane,
                  EndThread, At
    <3>2. CASE ClearLane(t)
      <4>1. PICK o : o = (counts.overtaken \/ lanes[OwnLane(t)].generation > threads[t].seen)
        OBVIOUS
      <4>2. o \in BOOLEAN
        BY <4>1
      <4>3. counts' = [counts EXCEPT !.overtaken = o]
        BY <3>2, <4>1 DEF ClearLane
      <4> QED
        BY <1>1, <4>2, <4>3 DEF Tallies
    <3>3. threads[t].at # "idle" => threads[t].seen \in 1..MaxCaptures
      BY <1>1, <2>3 DEF ThreadFits
    <3>4. LoadGenerationFirst(t) => captureOf.generation \in 1..MaxCaptures
      BY <1>1 DEF LoadGenerationFirst
    <3> QED
      BY <1>1, <3>1, <3>2, <3>3, <3>4, TallyTyped
  <2> QED
    BY <1>1, <2>1, <2>2, <2>4, <2>5, <2>6 DEF LaneTypes
<1> QED
  BY <1>2, <1>3, <1>4, <1>5, <1>6 DEF LanesNext, ThreadSteps

\* A step of one thread changes its own record, and its own lane.
LEMMA OneThreadFits ==
    ASSUME LaneTypes, ThreadPart, OwnerPart, NEW t \in LaneThreads, NEW r, NEW slots,
           threads' = [threads EXCEPT ![t] = r], lanes' = slots, UNCHANGED captureOf,
           ThreadFits(r, slots, captureOf.generation),
           \A l \in LaneIndices : slots[l].generation <= captureOf.generation,
           \A l \in LaneIndices : HasLane(threads[t], l) \/ slots[l] = lanes[l]
    PROVE  ThreadPart'
<1>1. threads \in [LaneThreads -> ThreadStates]
  BY DEF LaneTypes
<1>2. ASSUME NEW u \in LaneThreads PROVE ThreadFits(threads'[u], slots, captureOf.generation)
  <2>1. CASE u = t
    BY <1>1, <2>1
  <2>2. CASE u # t
    <3>1. PICK s : s = threads[u]
      OBVIOUS
    <3>2. ThreadFits(s, lanes, captureOf.generation) /\ threads'[u] = s
      BY <1>1, <2>2, <3>1 DEF ThreadPart
    <3>3. s.at \in {"clear", "set", "name", "add"} => slots[s.lane] = lanes[s.lane]
      BY <3>2, <2>2, <3>1 DEF ThreadFits, HasLane, OwnerPart
    <3> QED
      BY <3>2, <3>3 DEF ThreadFits
  <2> QED
    BY <2>1, <2>2
<1> QED
  BY <1>2 DEF ThreadPart

LEMMA ThreadPartKept == LaneTypes /\ ThreadPart /\ OwnerPart /\ [LanesNext]_laneVars => ThreadPart'
<1> SUFFICES ASSUME LaneTypes, ThreadPart, OwnerPart, [LanesNext]_laneVars PROVE ThreadPart'
  OBVIOUS
<1> USE LaneConstants
<1>1. /\ captureOf.generation \in 0..MaxCaptures
      /\ captureOf.open => captureOf.generation > 0
      /\ lanes \in [LaneIndices -> [value : Nat, generation : 0..MaxCaptures]]
      /\ threads \in [LaneThreads -> ThreadStates]
  BY DEF LaneTypes
<1>2. CASE UNCHANGED <<captureOf, lanes, threads>>
  BY <1>2 DEF ThreadPart
<1>3. CASE OpenCapture
  BY <1>3, <1>1 DEF OpenCapture, ThreadPart, ThreadFits
<1>4. CASE CloseCapture
  BY <1>4 DEF CloseCapture, LaneTypes, ThreadPart
<1>5. ASSUME NEW t \in LaneThreads, ThreadSteps(t)
      PROVE  ThreadPart'
  <2>1. PICK r \in ThreadStates : r = threads[t]
    BY <1>1
  <2>2. ThreadFits(r, lanes, captureOf.generation)
        /\ \A l \in LaneIndices : lanes[l].generation <= captureOf.generation
    BY <2>1 DEF ThreadPart
  <2>3. UNCHANGED captureOf
    BY <1>5 DEF ThreadSteps, LoadGenerationFirst, TakeLane, CheckLane, ClearLane, SetLane, NameLane,
                AddInLane, EndThread
  <2>4. ASSUME NEW s, threads' = [threads EXCEPT ![t] = s], UNCHANGED lanes,
               ThreadFits(s, lanes, captureOf.generation)
        PROVE  ThreadPart'
    BY <2>2, <2>3, <2>4, OneThreadFits
  <2>5. CASE LoadGenerationFirst(t)
    <3>1. PICK s : s = [r EXCEPT !.seen = captureOf.generation,
                                 !.at = IF r.life = "new" THEN "take" ELSE "check",
                                 !.lane = IF r.life = "new" THEN 1 ELSE r.lane]
      OBVIOUS
    <3>2. threads' = [threads EXCEPT ![t] = s] /\ UNCHANGED lanes /\ captureOf.generation > 0
      BY <1>1, <2>1, <2>5, <3>1 DEF LoadGenerationFirst
    <3>3. /\ s.at = (IF r.life = "new" THEN "take" ELSE "check") /\ s.life = r.life
          /\ s.seen = captureOf.generation /\ s.lane = (IF r.life = "new" THEN 1 ELSE r.lane)
      BY <2>1, <3>1 DEF ThreadStates
    <3>4. r.life \in {"new", "known"} /\ 1 \in LaneIndices /\ captureOf.generation \in 1..captureOf.generation
      BY <1>1, <2>1, <3>2 DEF ThreadStates, LaneIndices
    <3>5. ThreadFits(s, lanes, captureOf.generation)
      BY <3>3, <3>4 DEF ThreadFits
    <3> QED
      BY <2>4, <3>2, <3>5
  <2>6. CASE TakeLane(t)
    <3>0. r.at = "take" /\ r.life = "new" /\ r.lane \in LaneIndices /\ UNCHANGED lanes
          /\ r.seen \in 1..captureOf.generation
      BY <2>1, <2>2, <2>6 DEF TakeLane, At, ThreadFits
    <3>1. CASE owned[r.lane]
      <4>1. PICK s : s = [r EXCEPT !.lane = r.lane + 1, !.life = IF r.lane = LaneCount THEN "known" ELSE r.life,
                                   !.at = IF r.lane = LaneCount THEN "check" ELSE r.at]
        OBVIOUS
      <4>2. threads' = [threads EXCEPT ![t] = s]
        BY <1>1, <2>1, <2>6, <3>1, <4>1 DEF TakeLane, OwnLane
      <4>3. /\ s.lane = r.lane + 1 /\ s.life = (IF r.lane = LaneCount THEN "known" ELSE r.life)
            /\ s.at = (IF r.lane = LaneCount THEN "check" ELSE r.at) /\ s.seen = r.seen
        BY <2>1, <4>1 DEF ThreadStates
      <4>4. r.lane # LaneCount => r.lane + 1 \in LaneIndices
        BY <3>0 DEF LaneIndices
      <4>5. ThreadFits(s, lanes, captureOf.generation)
        BY <3>0, <4>3, <4>4 DEF ThreadFits
      <4> QED
        BY <2>4, <3>0, <4>2, <4>5
    <3>2. CASE ~owned[r.lane]
      <4>1. PICK s : s = [r EXCEPT !.life = "known", !.at = "check"]
        OBVIOUS
      <4>2. threads' = [threads EXCEPT ![t] = s]
        BY <1>1, <2>1, <2>6, <3>2, <4>1 DEF TakeLane, OwnLane
      <4>3. s.lane = r.lane /\ s.life = "known" /\ s.at = "check" /\ s.seen = r.seen
        BY <2>1, <4>1 DEF ThreadStates
      <4>4. ThreadFits(s, lanes, captureOf.generation)
        BY <3>0, <4>3 DEF ThreadFits
      <4> QED
        BY <2>4, <3>0, <4>2, <4>4
    <3> QED
      BY <3>1, <3>2
  <2>7. CASE CheckLane(t)
    <3>0. r.at = "check" /\ r.life = "known" /\ UNCHANGED lanes /\ r.seen \in 1..captureOf.generation
      BY <2>1, <2>2, <2>7 DEF CheckLane, At, ThreadFits
    <3>1. PICK at : at = IF r.lane = NoLane THEN "idle"
                         ELSE IF lanes[r.lane].generation # r.seen THEN "clear" ELSE "add"
      OBVIOUS
    <3>2. PICK s : s = [r EXCEPT !.at = at]
      OBVIOUS
    <3>3. threads' = [threads EXCEPT ![t] = s]
      BY <1>1, <2>1, <2>7, <3>1, <3>2 DEF CheckLane, Goes, OwnLane
    <3>4. s.at = at /\ s.life = "known" /\ s.lane = r.lane /\ s.seen = r.seen
      BY <2>1, <3>0, <3>2 DEF ThreadStates
    <3>5. r.lane # NoLane => r.lane \in LaneIndices
      BY <2>1 DEF ThreadStates, NoLane, LaneIndices
    <3>6. ThreadFits(s, lanes, captureOf.generation)
      BY <3>0, <3>1, <3>4, <3>5 DEF ThreadFits
    <3> QED
      BY <2>4, <3>0, <3>3, <3>6
  <2>8. ASSUME NEW at \in {"set", "name", "idle"}, NEW w, Goes(t, at),
               r.at \in {"clear", "set", "name", "add"},
               lanes' = [lanes EXCEPT ![r.lane] = w], w.generation <= captureOf.generation,
               at # "idle" => w.generation = 0
        PROVE  ThreadPart'
    <3>0. r.life = "known" /\ r.lane \in LaneIndices /\ r.seen \in 1..captureOf.generation
      BY <2>2, <2>8 DEF ThreadFits
    <3>1. PICK s : s = [r EXCEPT !.at = at]
      OBVIOUS
    <3>2. threads' = [threads EXCEPT ![t] = s]
      BY <1>1, <2>1, <2>8, <3>1 DEF Goes
    <3>3. s.at = at /\ s.life = "known" /\ s.lane = r.lane /\ s.seen = r.seen
      BY <2>1, <3>0, <3>1 DEF ThreadStates
    <3>4. PICK slots : slots = [lanes EXCEPT ![r.lane] = w]
      OBVIOUS
    <3>5. slots[r.lane] = w /\ \A l \in LaneIndices : l # r.lane => slots[l] = lanes[l]
      BY <1>1, <3>0, <3>4
    <3>6. ThreadFits(s, slots, captureOf.generation)
      BY <2>8, <3>0, <3>3, <3>5 DEF ThreadFits
    <3>7. \A l \in LaneIndices : slots[l].generation <= captureOf.generation
      BY <2>2, <2>8, <3>5
    <3>8. \A l \in LaneIndices : HasLane(threads[t], l) \/ slots[l] = lanes[l]
      BY <2>1, <3>0, <3>5 DEF HasLane
    <3> QED
      BY <2>3, <2>8, <3>2, <3>4, <3>6, <3>7, <3>8, OneThreadFits
  <2>9. CASE ClearLane(t)
    <3>1. r.at = "clear" /\ Goes(t, "set") /\ r.lane \in LaneIndices
          /\ lanes' = [lanes EXCEPT ![r.lane] = [lanes[r.lane] EXCEPT !.generation = 0]]
      BY <1>1, <2>1, <2>2, <2>9 DEF ClearLane, At, OwnLane, ThreadFits
    <3>2. PICK w : w = [lanes[r.lane] EXCEPT !.generation = 0]
      OBVIOUS
    <3>3. lanes' = [lanes EXCEPT ![r.lane] = w] /\ w.generation = 0
      BY <1>1, <3>1, <3>2
    <3>4. w.generation <= captureOf.generation
      BY <1>1, <3>3
    <3> QED
      BY <2>8, <3>1, <3>3, <3>4
  <2>10. CASE SetLane(t)
    <3>1. r.at = "set" /\ Goes(t, "name") /\ r.lane \in LaneIndices
          /\ lanes' = [lanes EXCEPT ![r.lane] = [lanes[r.lane] EXCEPT !.value = 1]]
      BY <1>1, <2>1, <2>2, <2>10 DEF SetLane, SetFirst, At, OwnLane, ThreadFits
    <3>2. PICK w : w = [lanes[r.lane] EXCEPT !.value = 1]
      OBVIOUS
    <3>3. lanes' = [lanes EXCEPT ![r.lane] = w] /\ w.generation = 0
      BY <1>1, <2>2, <3>1, <3>2 DEF ThreadFits
    <3>4. w.generation <= captureOf.generation
      BY <1>1, <3>3
    <3> QED
      BY <2>8, <3>1, <3>3, <3>4
  <2>11. CASE NameLane(t)
    <3>1. r.at = "name" /\ Goes(t, "idle")
          /\ lanes' = [lanes EXCEPT ![r.lane] = [value |-> 1, generation |-> r.seen]]
      BY <2>1, <2>11 DEF NameLane, At, OwnLane
    <3>2. PICK w : w = [value |-> 1, generation |-> r.seen]
      OBVIOUS
    <3>3. w.generation <= captureOf.generation
      BY <1>1, <2>2, <3>1, <3>2 DEF ThreadFits
    <3> QED
      BY <2>8, <3>1, <3>2, <3>3
  <2>12. CASE AddInLane(t)
    <3>1. r.at = "add" /\ Goes(t, "idle") /\ r.lane \in LaneIndices
          /\ lanes' = [lanes EXCEPT ![r.lane] = [lanes[r.lane] EXCEPT !.value = @ + 1]]
      BY <1>1, <2>1, <2>2, <2>12 DEF AddInLane, At, OwnLane, ThreadFits
    <3>2. PICK w : w = [lanes[r.lane] EXCEPT !.value = @ + 1]
      OBVIOUS
    <3>3. lanes' = [lanes EXCEPT ![r.lane] = w] /\ w.generation <= captureOf.generation
      BY <1>1, <2>2, <3>1, <3>2
    <3> QED
      BY <2>8, <3>1, <3>2, <3>3
  <2>13. CASE EndThread(t)
    BY <2>13, <2>4 DEF EndThread, ThreadFits, NewThread
  <2> QED
    BY <1>5, <2>5, <2>6, <2>7, <2>9, <2>10, <2>11, <2>12, <2>13 DEF ThreadSteps
<1>6. CASE UNCHANGED laneVars \/ (\E config \in Configurations : Construct(config))
           \/ StartCounting \/ ReadLane \/ ReportCount
  BY <1>6, <1>2 DEF laneVars, Construct, StartCounting, ReadLane, ReportCount
<1> QED
  BY <1>3, <1>4, <1>5, <1>6 DEF LanesNext, ThreadSteps

LEMMA OwnerPartKept == LaneTypes /\ ThreadPart /\ OwnerPart /\ [LanesNext]_laneVars => OwnerPart'
<1> SUFFICES ASSUME LaneTypes, ThreadPart, OwnerPart, [LanesNext]_laneVars PROVE OwnerPart'
  OBVIOUS
<1> USE LaneConstants
<1>1. /\ threads \in [LaneThreads -> ThreadStates]
      /\ owned \in [LaneIndices -> BOOLEAN]
  BY DEF LaneTypes
<1>2. ASSUME NEW t \in LaneThreads, NEW r, threads' = [threads EXCEPT ![t] = r], UNCHANGED owned,
             \A l \in LaneIndices : HasLane(r, l) <=> HasLane(threads[t], l)
      PROVE  OwnerPart'
  BY <1>1, <1>2 DEF OwnerPart
<1>3. ASSUME NEW t \in LaneThreads, TakeLane(t)
      PROVE  OwnerPart'
  <2>1. PICK r \in ThreadStates : r = threads[t]
    BY <1>1
  <2>2. r.at = "take" /\ r.life = "new" /\ r.lane \in LaneIndices
    BY <1>3, <2>1 DEF TakeLane, At, ThreadPart, ThreadFits
  <2>3. CASE owned[r.lane]
    <3>1. PICK s : s = [r EXCEPT !.lane = r.lane + 1, !.life = IF r.lane = LaneCount THEN "known" ELSE r.life,
                                 !.at = IF r.lane = LaneCount THEN "check" ELSE r.at]
      OBVIOUS
    <3>2. threads' = [threads EXCEPT ![t] = s] /\ UNCHANGED owned
      BY <1>1, <1>3, <2>1, <2>3, <3>1 DEF TakeLane, OwnLane
    <3>3. s.lane = r.lane + 1 /\ s.life = (IF r.lane = LaneCount THEN "known" ELSE r.life)
      BY <2>1, <3>1 DEF ThreadStates
    <3>4. LaneCount + 1 \notin LaneIndices
      BY DEF LaneIndices
    <3>5. \A l \in LaneIndices : ~HasLane(s, l) /\ ~HasLane(r, l)
      BY <2>2, <3>3, <3>4 DEF HasLane
    <3> QED
      BY <1>2, <2>1, <3>2, <3>5
  <2>4. CASE ~owned[r.lane]
    <3>1. PICK s : s = [r EXCEPT !.life = "known", !.at = "check"]
      OBVIOUS
    <3>2. threads' = [threads EXCEPT ![t] = s] /\ owned' = [owned EXCEPT ![r.lane] = TRUE]
      BY <1>1, <1>3, <2>1, <2>4, <3>1 DEF TakeLane, OwnLane
    <3>3. s.lane = r.lane /\ s.life = "known"
      BY <2>1, <3>1 DEF ThreadStates
    <3>4. \A u \in LaneThreads : ~HasLane(threads[u], r.lane)
      BY <2>2, <2>4 DEF OwnerPart
    <3>5. \A l \in LaneIndices : (HasLane(s, l) <=> l = r.lane) /\ ~HasLane(r, l)
      BY <2>2, <3>3 DEF HasLane
    <3>6. \A u \in LaneThreads : u # t => threads'[u] = threads[u]
      BY <1>1, <3>2
    <3>7. threads'[t] = s
      BY <1>1, <3>2
    <3>8. \A l \in LaneIndices : owned'[l] <=> owned[l] \/ l = r.lane
      BY <1>1, <2>2, <3>2
    <3>9. ASSUME NEW l \in LaneIndices
          PROVE  /\ \A u, v \in LaneThreads : HasLane(threads'[u], l) /\ HasLane(threads'[v], l) => u = v
                 /\ owned'[l] <=> \E u \in LaneThreads : HasLane(threads'[u], l)
      BY <3>4, <3>5, <3>6, <3>7, <3>8, <2>1 DEF OwnerPart
    <3> QED
      BY <3>9 DEF OwnerPart
  <2> QED
    BY <2>3, <2>4
<1>4. ASSUME NEW t \in LaneThreads, EndThread(t)
      PROVE  OwnerPart'
  <2>1. PICK r \in ThreadStates : r = threads[t]
    BY <1>1
  <2>2. r.life = "known" /\ threads' = [threads EXCEPT ![t] = NewThread] /\ owned' = Released(r.lane)
    BY <1>4, <2>1 DEF EndThread, OwnLane
  <2>3. \A l \in LaneIndices : ~HasLane(NewThread, l)
    BY DEF HasLane, NewThread
  <2>4. threads'[t] = NewThread /\ \A u \in LaneThreads : u # t => threads'[u] = threads[u]
    BY <1>1, <2>2
  <2>5. \A l \in LaneIndices : owned'[l] <=> owned[l] /\ l # r.lane
    BY <2>2, <1>1 DEF NoLane, LaneIndices, Released
  <2>6. ASSUME NEW l \in LaneIndices
        PROVE  /\ \A u, v \in LaneThreads : HasLane(threads'[u], l) /\ HasLane(threads'[v], l) => u = v
               /\ owned'[l] <=> \E u \in LaneThreads : HasLane(threads'[u], l)
    BY <2>2, <2>3, <2>4, <2>1, <2>5 DEF HasLane, OwnerPart
  <2> QED
    BY <2>6 DEF OwnerPart
<1>5. ASSUME NEW t \in LaneThreads, NEW at, Goes(t, at), UNCHANGED owned
      PROVE  OwnerPart'
  <2>1. PICK r \in ThreadStates : r = threads[t]
    BY <1>1
  <2>2. PICK s : s = [r EXCEPT !.at = at]
    OBVIOUS
  <2>3. threads' = [threads EXCEPT ![t] = s]
    BY <1>1, <1>5, <2>1, <2>2 DEF Goes
  <2>4. s.life = r.life /\ s.lane = r.lane
    BY <2>1, <2>2 DEF ThreadStates
  <2>5. \A l \in LaneIndices : HasLane(s, l) <=> HasLane(r, l)
    BY <2>4 DEF HasLane
  <2> QED
    BY <1>2, <1>5, <2>1, <2>3, <2>5
<1>6. ASSUME NEW t \in LaneThreads, CheckLane(t) \/ ClearLane(t) \/ SetLane(t) \/ NameLane(t) \/ AddInLane(t)
      PROVE  OwnerPart'
  BY <1>6, <1>5 DEF CheckLane, ClearLane, SetLane, NameLane, AddInLane
<1>7. ASSUME NEW t \in LaneThreads, LoadGenerationFirst(t)
      PROVE  OwnerPart'
  <2>1. PICK r \in ThreadStates : r = threads[t]
    BY <1>1
  <2>2. PICK s : s = [r EXCEPT !.seen = captureOf.generation,
                               !.at = IF r.life = "new" THEN "take" ELSE "check",
                               !.lane = IF r.life = "new" THEN 1 ELSE r.lane]
    OBVIOUS
  <2>3. threads' = [threads EXCEPT ![t] = s] /\ UNCHANGED owned
    BY <1>1, <1>7, <2>1, <2>2 DEF LoadGenerationFirst
  <2>4. s.life = r.life /\ s.lane = (IF r.life = "new" THEN 1 ELSE r.lane)
    BY <2>1, <2>2 DEF ThreadStates
  <2>5. \A l \in LaneIndices : HasLane(s, l) <=> HasLane(r, l)
    BY <2>4 DEF HasLane
  <2> QED
    BY <1>2, <2>1, <2>3, <2>5
<1>8. CASE UNCHANGED laneVars \/ (\E config \in Configurations : Construct(config))
           \/ OpenCapture \/ CloseCapture \/ StartCounting \/ ReadLane \/ ReportCount
  BY <1>8 DEF laneVars, Construct, OpenCapture, CloseCapture, StartCounting, ReadLane,
     ReportCount, OwnerPart
<1> QED
  BY <1>3, <1>4, <1>6, <1>7, <1>8 DEF LanesNext

-----------------------------------------------------------------------------
(* Every operation is counted, dropped or under way.                         *)
Away(all, g) == {t \in LaneThreads : all[t].at # "idle" /\ all[t].seen = g}
TallyPart ==
    /\ \A g \in 1..MaxCaptures :
          counts.begun[g] = counts.done[g] + counts.dropped[g] + Cardinality(Away(threads, g))
    /\ \A g \in 1..MaxCaptures : g > captureOf.generation => counts.done[g] = 0

LEMMA AwayCounts ==
    /\ \A all, g : IsFiniteSet(Away(all, g)) /\ Cardinality(Away(all, g)) \in Nat
    /\ \A S, t : IsFiniteSet(S) /\ t \notin S => Cardinality(S \cup {t}) = Cardinality(S) + 1
    /\ \A S, t : IsFiniteSet(S) /\ t \in S => Cardinality(S) = Cardinality(S \ {t}) + 1
  BY LaneConstants, FS_Subset, FS_CardinalityType, FS_AddElement, FS_RemoveElement DEF Away

\* The tallies of one capture, one operation on.
LEMMA TallyAdds ==
    ASSUME NEW field \in {"begun", "done", "dropped"}, NEW g \in 1..MaxCaptures,
           counts \in Tallies, Tally(field, g)
    PROVE  /\ counts'[field] = [counts[field] EXCEPT ![g] = @ + 1]
           /\ \A other \in {"begun", "done", "dropped"} : other # field => counts'[other] = counts[other]
           /\ counts'.least = counts.least /\ counts'.overtaken = counts.overtaken
  BY DEF Tally, Tallies

LEMMA TallyPartKept == LaneTypes /\ ThreadPart /\ TallyPart /\ [LanesNext]_laneVars => TallyPart'
<1> SUFFICES ASSUME LaneTypes, ThreadPart, TallyPart, [LanesNext]_laneVars PROVE TallyPart'
  OBVIOUS
<1> USE LaneConstants
<1>1. /\ captureOf.generation \in 0..MaxCaptures
      /\ captureOf.open => captureOf.generation > 0
      /\ threads \in [LaneThreads -> ThreadStates] /\ counts \in Tallies
  BY DEF LaneTypes
<1>2. /\ counts.begun \in [1..MaxCaptures -> Nat] /\ counts.done \in [1..MaxCaptures -> Nat]
      /\ counts.dropped \in [1..MaxCaptures -> Nat]
  BY <1>1 DEF Tallies
<1>3. ASSUME \A g \in 1..MaxCaptures : Away(threads', g) = Away(threads, g),
             counts'.begun = counts.begun, counts'.done = counts.done, counts'.dropped = counts.dropped,
             captureOf'.generation \in {captureOf.generation, captureOf.generation + 1}
      PROVE  TallyPart'
  BY <1>1, <1>3 DEF TallyPart
<1>4. ASSUME NEW t \in LaneThreads, LoadGenerationFirst(t)
      PROVE  TallyPart'
  <2>1. PICK r \in ThreadStates : r = threads[t]
    BY <1>1
  <2>2. PICK c \in 1..MaxCaptures : c = captureOf.generation
    BY <1>1, <1>4 DEF LoadGenerationFirst
  <2>3. r.at = "idle" /\ Tally("begun", c) /\ UNCHANGED captureOf
    BY <1>4, <2>1, <2>2 DEF LoadGenerationFirst, At
  <2>4. PICK s : s = [r EXCEPT !.seen = c, !.at = IF r.life = "new" THEN "take" ELSE "check",
                               !.lane = IF r.life = "new" THEN 1 ELSE r.lane]
    OBVIOUS
  <2>5. threads' = [threads EXCEPT ![t] = s]
    BY <1>1, <1>4, <2>1, <2>2, <2>4 DEF LoadGenerationFirst
  <2>6. s.at # "idle" /\ s.seen = c
    BY <2>1, <2>4 DEF ThreadStates
  <2>7. threads'[t] = s /\ \A u \in LaneThreads : u # t => threads'[u] = threads[u]
    BY <1>1, <2>5
  <2>8. Away(threads', c) = Away(threads, c) \cup {t} /\ t \notin Away(threads, c)
    BY <2>1, <2>3, <2>6, <2>7 DEF Away
  <2>9. \A g \in 1..MaxCaptures : g # c => Away(threads', g) = Away(threads, g)
    BY <2>1, <2>3, <2>6, <2>7 DEF Away
  <2>10. counts'.begun = [counts.begun EXCEPT ![c] = @ + 1] /\ counts'.done = counts.done
         /\ counts'.dropped = counts.dropped
    BY <1>1, <2>3, TallyAdds
  <2>11. Cardinality(Away(threads', c)) = Cardinality(Away(threads, c)) + 1
    BY <2>8, AwayCounts
  <2>12. ASSUME NEW g \in 1..MaxCaptures
         PROVE  counts'.begun[g] = counts'.done[g] + counts'.dropped[g] + Cardinality(Away(threads', g))
    <3>1. CASE g = c
      <4>1. PICK n \in Nat : n = Cardinality(Away(threads, c))
        BY AwayCounts
      <4>2. PICK b \in Nat, d \in Nat, p \in Nat : b = counts.begun[c] /\ d = counts.done[c] /\ p = counts.dropped[c]
        BY <1>2
      <4>3. b = d + p + n
        BY <4>1, <4>2 DEF TallyPart
      <4>4. counts'.begun[c] = b + 1 /\ counts'.done[c] = d /\ counts'.dropped[c] = p
        BY <1>2, <2>10, <4>2
      <4> QED
        BY <2>11, <3>1, <4>1, <4>3, <4>4
    <3>2. CASE g # c
      BY <1>2, <2>9, <2>10, <3>2 DEF TallyPart
    <3> QED
      BY <3>1, <3>2
  <2> QED
    BY <2>3, <2>10, <2>12 DEF TallyPart
<1>5. ASSUME NEW t \in LaneThreads, NEW field \in {"done", "dropped"}, threads[t].at # "idle",
             Goes(t, "idle"), Tally(field, threads[t].seen), UNCHANGED captureOf
      PROVE  TallyPart'
  <2>1. PICK r \in ThreadStates : r = threads[t]
    BY <1>1
  <2>2. PICK c \in 1..MaxCaptures : c = r.seen /\ c <= captureOf.generation
    BY <1>1, <1>5, <2>1 DEF ThreadPart, ThreadFits
  <2>3. PICK s : s = [r EXCEPT !.at = "idle"]
    OBVIOUS
  <2>4. threads' = [threads EXCEPT ![t] = s] /\ s.at = "idle"
    BY <1>1, <1>5, <2>1, <2>3 DEF Goes, ThreadStates
  <2>5. threads'[t] = s /\ \A u \in LaneThreads : u # t => threads'[u] = threads[u]
    BY <1>1, <2>4
  <2>6. Away(threads', c) = Away(threads, c) \ {t} /\ t \in Away(threads, c)
    BY <1>5, <2>1, <2>2, <2>4, <2>5 DEF Away
  <2>7. \A g \in 1..MaxCaptures : g # c => Away(threads', g) = Away(threads, g)
    BY <2>1, <2>2, <2>4, <2>5 DEF Away
  <2>8. PICK n \in Nat : n = Cardinality(Away(threads', c))
    BY AwayCounts
  <2>9. Cardinality(Away(threads, c)) = n + 1
    BY <2>6, <2>8, AwayCounts
  <2>10. /\ counts'[field] = [counts[field] EXCEPT ![c] = @ + 1]
         /\ \A other \in {"begun", "done", "dropped"} : other # field => counts'[other] = counts[other]
    BY <1>1, <1>5, <2>1, <2>2, TallyAdds
  <2>11. /\ counts'.begun = counts.begun
         /\ \/ counts'.done = [counts.done EXCEPT ![c] = @ + 1] /\ counts'.dropped = counts.dropped
            \/ counts'.dropped = [counts.dropped EXCEPT ![c] = @ + 1] /\ counts'.done = counts.done
    BY <1>5, <2>10
  <2>12. ASSUME NEW g \in 1..MaxCaptures
         PROVE  counts'.begun[g] = counts'.done[g] + counts'.dropped[g] + Cardinality(Away(threads', g))
    <3>1. CASE g = c
      <4>1. PICK b \in Nat, d \in Nat, p \in Nat : b = counts.begun[c] /\ d = counts.done[c] /\ p = counts.dropped[c]
        BY <1>2
      <4>2. b = d + p + (n + 1)
        BY <2>9, <4>1 DEF TallyPart
      <4>3. /\ counts'.begun[c] = b
            /\ \/ counts'.done[c] = d + 1 /\ counts'.dropped[c] = p
               \/ counts'.dropped[c] = p + 1 /\ counts'.done[c] = d
        BY <1>2, <2>11, <4>1
      <4> QED
        BY <2>8, <3>1, <4>1, <4>2, <4>3
    <3>2. CASE g # c
      BY <1>2, <2>7, <2>11, <3>2 DEF TallyPart
    <3> QED
      BY <3>1, <3>2
  <2>13. \A g \in 1..MaxCaptures : g > captureOf'.generation => counts'.done[g] = 0
    <3>1. SUFFICES ASSUME NEW g \in 1..MaxCaptures, g > captureOf.generation PROVE counts'.done[g] = 0
      BY <1>5
    <3>2. g # c /\ counts.done[g] = 0
      BY <1>1, <2>2, <3>1 DEF TallyPart
    <3>3. counts'.done[g] = counts.done[g]
      BY <1>2, <2>11, <3>2
    <3> QED
      BY <3>2, <3>3
  <2> QED
    BY <2>12, <2>13 DEF TallyPart
<1>6. ASSUME NEW t \in LaneThreads, NEW s, threads' = [threads EXCEPT ![t] = s],
             (s.at = "idle") <=> (threads[t].at = "idle"),
             s.at # "idle" => s.seen = threads[t].seen
      PROVE  \A g \in 1..MaxCaptures : Away(threads', g) = Away(threads, g)
  BY <1>1, <1>6 DEF Away
<1>7. ASSUME NEW t \in LaneThreads, NEW at \in {"clear", "add", "set", "name"}, Goes(t, at),
             threads[t].at # "idle"
      PROVE  \A g \in 1..MaxCaptures : Away(threads', g) = Away(threads, g)
  <2>1. PICK r \in ThreadStates : r = threads[t]
    BY <1>1
  <2>2. PICK s : s = [r EXCEPT !.at = at]
    OBVIOUS
  <2>3. threads' = [threads EXCEPT ![t] = s] /\ s.at = at /\ s.seen = r.seen
    BY <1>1, <1>7, <2>1, <2>2 DEF Goes, ThreadStates
  <2> QED
    BY <1>6, <1>7, <2>1, <2>3
<1>8. ASSUME NEW t \in LaneThreads, TakeLane(t)
      PROVE  TallyPart'
  <2>1. PICK r \in ThreadStates : r = threads[t]
    BY <1>1
  <2>2. r.at = "take" /\ UNCHANGED <<captureOf, counts>>
    BY <1>8, <2>1 DEF TakeLane, At
  <2>3. \E s : threads' = [threads EXCEPT ![t] = s] /\ s.at # "idle" /\ s.seen = r.seen
    <3>1. CASE owned[r.lane]
      <4>1. PICK s : s = [r EXCEPT !.lane = r.lane + 1, !.life = IF r.lane = LaneCount THEN "known" ELSE r.life,
                                   !.at = IF r.lane = LaneCount THEN "check" ELSE r.at]
        OBVIOUS
      <4>2. threads' = [threads EXCEPT ![t] = s]
        BY <1>1, <1>8, <2>1, <3>1, <4>1 DEF TakeLane, OwnLane
      <4>3. s.at = (IF r.lane = LaneCount THEN "check" ELSE r.at) /\ s.seen = r.seen
        BY <2>1, <4>1 DEF ThreadStates
      <4> QED
        BY <2>2, <4>2, <4>3
    <3>2. CASE ~owned[r.lane]
      <4>1. PICK s : s = [r EXCEPT !.life = "known", !.at = "check"]
        OBVIOUS
      <4>2. threads' = [threads EXCEPT ![t] = s]
        BY <1>1, <1>8, <2>1, <3>2, <4>1 DEF TakeLane, OwnLane
      <4>3. s.at = "check" /\ s.seen = r.seen
        BY <2>1, <4>1 DEF ThreadStates
      <4> QED
        BY <4>2, <4>3
    <3> QED
      BY <3>1, <3>2
  <2>4. \A g \in 1..MaxCaptures : Away(threads', g) = Away(threads, g)
    BY <1>6, <2>1, <2>2, <2>3
  <2> QED
    BY <1>3, <2>2, <2>4
<1>9. ASSUME NEW t \in LaneThreads, CheckLane(t) \/ NameLane(t) \/ AddInLane(t)
      PROVE  TallyPart'
  BY <1>9, <1>5, <1>7, <1>3 DEF CheckLane, NameLane, AddInLane, At
<1>10. ASSUME NEW t \in LaneThreads, ClearLane(t) \/ SetLane(t)
       PROVE  TallyPart'
  BY <1>10, <1>1, <1>7, <1>3 DEF ClearLane, SetLane, At, Tallies
<1>11. ASSUME NEW t \in LaneThreads, EndThread(t)
       PROVE  TallyPart'
  BY <1>11, <1>6, <1>3 DEF EndThread, At, NewThread
<1>12. CASE UNCHANGED laneVars \/ (\E config \in Configurations : Construct(config))
            \/ OpenCapture \/ CloseCapture \/ StartCounting \/ ReadLane \/ ReportCount
  <2>1. UNCHANGED threads
    BY <1>12 DEF laneVars, Construct, OpenCapture, CloseCapture, StartCounting, ReadLane, ReportCount
  <2>2. captureOf'.generation \in {captureOf.generation, captureOf.generation + 1}
    BY <1>12 DEF laneVars, Construct, OpenCapture, CloseCapture, StartCounting, ReadLane, ReportCount,
                 LaneTypes
  <2>3. counts'.begun = counts.begun /\ counts'.done = counts.done /\ counts'.dropped = counts.dropped
    BY <1>1, <1>12 DEF laneVars, Construct, OpenCapture, CloseCapture, StartCounting, ReadLane,
                       ReportCount, Tallies
  <2> QED
    BY <1>3, <2>1, <2>2, <2>3
<1> QED
  BY <1>4, <1>8, <1>9, <1>10, <1>11, <1>12 DEF LanesNext

-----------------------------------------------------------------------------
(* What the lanes hold of the current capture adds up to what was counted in *)
(* it, and the addition is between what was there and what is there.         *)
Share(word, cg) == IF cg > 0 /\ word.generation = cg THEN word.value ELSE 0
SumsTo(f, slots, cg) ==
    /\ f \in [0..LaneCount -> Nat] /\ f[0] = 0
    /\ \A l \in LaneIndices : f[l] = f[l - 1] + Share(slots[l], cg)
ReadingFits(r, slots, f, cg, least) ==
    /\ r.at # "idle" => r.count <= f[r.lane - 1]
    /\ r.at \in {"generation", "value", "counted"} =>
          least <= r.count + (f[LaneCount] - f[r.lane - 1])
    /\ r.at \in {"value", "again"} => slots[r.lane].generation = cg
    /\ r.at = "again" =>
          r.value <= slots[r.lane].value /\ least <= r.count + r.value + (f[LaneCount] - f[r.lane])
SharesFit(f, slots, cg, r, done, least) ==
    /\ SumsTo(f, slots, cg)
    /\ cg > 0 => f[LaneCount] = done[cg]
    /\ ReadingFits(r, slots, f, cg, least)
SharePart ==
    counts.overtaken
    \/ \E f : SharesFit(f, lanes, captureOf.generation, reading, counts.done, counts.least)

\* One more in one lane.
LEMMA SumsOneMore ==
    ASSUME NEW cg, NEW slots, NEW words2, NEW f, SumsTo(f, slots, cg), NEW l \in LaneIndices,
           Share(words2[l], cg) = Share(slots[l], cg) + 1, \A k \in LaneIndices : Share(slots[k], cg) \in Nat,
           \A k \in LaneIndices : k # l => words2[k] = slots[k]
    PROVE  \E f2 : /\ SumsTo(f2, words2, cg)
                   /\ f2[LaneCount] = f[LaneCount] + 1
                   /\ \A k \in 0..LaneCount : f2[k] >= f[k] /\ f2[LaneCount] - f2[k] >= f[LaneCount] - f[k]
<1> USE LaneConstants
<1>1. f \in [0..LaneCount -> Nat] /\ f[0] = 0
      /\ \A k \in LaneIndices : f[k] = f[k - 1] + Share(slots[k], cg)
  BY DEF SumsTo
<1>2. PICK f2 : f2 = [k \in 0..LaneCount |-> IF k >= l THEN f[k] + 1 ELSE f[k]]
  OBVIOUS
<1>3. l \in 1..LaneCount
  BY DEF LaneIndices
<1>4. \A k \in 0..LaneCount : f[k] \in Nat /\ f2[k] = IF k >= l THEN f[k] + 1 ELSE f[k]
  BY <1>1, <1>2
<1>5. f2 \in [0..LaneCount -> Nat]
  BY <1>2, <1>4
<1>6. f2[0] = 0
  BY <1>1, <1>3, <1>4
<1>7. ASSUME NEW k \in LaneIndices PROVE f2[k] = f2[k - 1] + Share(words2[k], cg)
  <2>1. k \in 0..LaneCount /\ k - 1 \in 0..LaneCount /\ k \in 1..LaneCount
    BY DEF LaneIndices
  <2>2. PICK x \in Nat, y \in Nat : x = f[k] /\ y = f[k - 1]
    BY <1>4, <2>1
  <2>3. PICK sh, sh2 : sh = Share(slots[k], cg) /\ sh2 = Share(words2[k], cg)
    OBVIOUS
  <2>4. x = y + sh /\ sh \in Nat
    BY <1>1, <2>2, <2>3
  <2>5. CASE k < l
    <3>1. sh2 = sh /\ ~(k >= l) /\ ~(k - 1 >= l)
      BY <1>3, <2>1, <2>3, <2>5
    <3> QED
      BY <1>4, <2>1, <2>2, <2>3, <2>4, <3>1
  <2>6. CASE k = l
    <3>1. sh2 = sh + 1 /\ k >= l /\ ~(k - 1 >= l) /\ sh \in Int
      BY <2>3, <2>6, <1>3
    <3>2. f2[k] = x + 1 /\ f2[k - 1] = y
      BY <1>4, <2>1, <2>2, <3>1
    <3> QED
      BY <2>2, <2>3, <2>4, <3>1, <3>2
  <2>7. CASE k > l
    <3>1. sh2 = sh /\ k >= l /\ k - 1 >= l
      BY <1>3, <2>1, <2>3, <2>7
    <3>2. f2[k] = x + 1 /\ f2[k - 1] = y + 1
      BY <1>4, <2>1, <2>2, <3>1
    <3> QED
      BY <2>2, <2>3, <2>4, <3>1, <3>2
  <2> QED
    BY <1>3, <2>1, <2>5, <2>6, <2>7
<1>8. LaneCount \in 0..LaneCount /\ LaneCount >= l
  BY <1>3
<1>9. f2[LaneCount] = f[LaneCount] + 1
  BY <1>4, <1>8
<1>10. \A k \in 0..LaneCount : f2[k] >= f[k] /\ f2[LaneCount] - f2[k] >= f[LaneCount] - f[k]
  BY <1>3, <1>4, <1>8, <1>9
<1> QED
  BY <1>5, <1>6, <1>7, <1>9, <1>10 DEF SumsTo

LEMMA SameShares ==
    ASSUME NEW f, NEW cg, NEW slots, NEW words2, NEW r \in Readings, NEW done, NEW done2, NEW least,
           SharesFit(f, slots, cg, r, done, least),
           \A l \in LaneIndices : Share(words2[l], cg) = Share(slots[l], cg),
           r.at \in {"value", "again"} => words2[r.lane] = slots[r.lane],
           cg > 0 => done2[cg] = done[cg]
    PROVE  SharesFit(f, words2, cg, r, done2, least)
  BY DEF SharesFit, SumsTo, ReadingFits

LEMMA OneMoreFits ==
    ASSUME NEW f, NEW cg \in Nat, NEW slots, NEW words2, NEW r \in Readings, NEW done, NEW done2,
           NEW least \in Nat, SharesFit(f, slots, cg, r, done, least), cg > 0, ReaderAt(r, cg),
           NEW l \in LaneIndices, Share(words2[l], cg) = Share(slots[l], cg) + 1,
           \A k \in LaneIndices : Share(slots[k], cg) \in Nat,
           \A k \in LaneIndices : k # l => words2[k] = slots[k],
           r.at \in {"value", "again"} /\ r.lane = l =>
              words2[l].generation = cg /\ words2[l].value = slots[l].value + 1
              /\ slots[l].value \in Nat,
           done2[cg] = done[cg] + 1
    PROVE  \E f2 : SharesFit(f2, words2, cg, r, done2, least)
<1> USE LaneConstants
<1>1. SumsTo(f, slots, cg) /\ f[LaneCount] = done[cg] /\ ReadingFits(r, slots, f, cg, least)
  BY DEF SharesFit
<1>2. PICK f2 : /\ SumsTo(f2, words2, cg)
                /\ f2[LaneCount] = f[LaneCount] + 1
                /\ \A k \in 0..LaneCount : f2[k] >= f[k] /\ f2[LaneCount] - f2[k] >= f[LaneCount] - f[k]
  BY <1>1, SumsOneMore
<1>3. f \in [0..LaneCount -> Nat] /\ f2 \in [0..LaneCount -> Nat]
  BY <1>1, <1>2 DEF SumsTo
<1>4. r.count \in Nat /\ r.value \in Nat /\ r.lane \in 1..LaneCount + 1
  BY DEF Readings
<1>5. PICK k \in 0..LaneCount : k = r.lane - 1
  BY <1>4
<1>6. LaneCount \in 0..LaneCount /\ f[LaneCount] \in Nat /\ f2[LaneCount] \in Nat /\ f[k] \in Nat /\ f2[k] \in Nat
  BY <1>3, <1>5
<1>7. r.at # "idle" => r.count <= f2[r.lane - 1]
  BY <1>1, <1>2, <1>4, <1>5, <1>6 DEF ReadingFits
<1>8. r.at \in {"generation", "value", "counted"} =>
          least <= r.count + (f2[LaneCount] - f2[r.lane - 1])
  BY <1>5, <1>1, <1>2, <1>4, <1>6 DEF ReadingFits
<1>9. r.at \in {"value", "again"} => words2[r.lane].generation = cg
  BY <1>1 DEF ReaderAt, ReadingFits
<1>10. r.at = "again" => r.value <= words2[r.lane].value /\ least <= r.count + r.value + (f2[LaneCount] - f2[r.lane])
  <2>1. SUFFICES ASSUME r.at = "again"
                 PROVE  r.value <= words2[r.lane].value /\ least <= r.count + r.value + (f2[LaneCount] - f2[r.lane])
    OBVIOUS
  <2>2. r.lane \in LaneIndices /\ r.lane \in 0..LaneCount
    BY <2>1 DEF ReaderAt, LaneIndices
  <2>3. r.value <= slots[r.lane].value /\ least <= r.count + r.value + (f[LaneCount] - f[r.lane])
    BY <1>1, <2>1 DEF ReadingFits
  <2>4. r.value <= words2[r.lane].value
    BY <2>1, <1>4, <2>3, <2>2
  <2>5. f2[LaneCount] - f2[r.lane] >= f[LaneCount] - f[r.lane] /\ f2[r.lane] \in Nat /\ f[r.lane] \in Nat
    BY <1>2, <1>3, <2>2
  <2> QED
    BY <1>4, <1>6, <2>3, <2>4, <2>5
<1>11. ReadingFits(r, words2, f2, cg, least)
  BY <1>7, <1>8, <1>9, <1>10 DEF ReadingFits
<1> QED
  BY <1>1, <1>2, <1>11 DEF SharesFit

\* The next lane, with what this one held.
LEMMA NextLaneFits ==
    ASSUME NEW f, NEW cg \in Nat, NEW slots, NEW done, NEW least \in Nat, NEW at \in {"generation", "counted"},
           SumsTo(f, slots, cg), cg > 0 => f[LaneCount] = done[cg],
           NEW l \in LaneIndices, NEW count \in Nat, count <= f[l], least <= count + (f[LaneCount] - f[l]),
           NEW r, r = [at |-> at, lane |-> l + 1, value |-> 0, count |-> count]
    PROVE  SharesFit(f, slots, cg, r, done, least)
  BY LaneConstants DEF LaneIndices, ReadingFits, SharesFit

LEMMA SharePartRead ==
    ASSUME LaneTypes, NEW f, ReadLane,
           SharesFit(f, lanes, captureOf.generation, reading, counts.done, counts.least)
    PROVE  SharesFit(f, lanes, captureOf.generation, reading', counts.done, counts.least)
<1> USE LaneConstants
<1>1. PICK cg \in Nat, least \in Nat, done \in [1..MaxCaptures -> Nat] :
          cg = captureOf.generation /\ least = counts.least /\ done = counts.done
  <2>1. captureOf.generation \in Nat
    BY DEF LaneTypes
  <2>2. counts.least \in Nat /\ counts.done \in [1..MaxCaptures -> Nat]
    BY DEF LaneTypes, Tallies
  <2> QED
    BY <2>1, <2>2
<1>2. PICK r \in Readings : r = reading
  BY DEF LaneTypes
<1>3. /\ ReaderAt(r, cg) /\ r.at \in {"generation", "value", "again"}
      /\ lanes \in [LaneIndices -> [value : Nat, generation : 0..MaxCaptures]]
  BY <1>1, <1>2 DEF LaneTypes, ReadLane
<1>4. PICK l \in LaneIndices : l = r.lane
  BY <1>3 DEF ReaderAt
<1>5. cg > 0 /\ l \in 0..LaneCount /\ l - 1 \in 0..LaneCount
  BY <1>3, <1>4 DEF ReaderAt, LaneIndices
<1>6. SumsTo(f, lanes, cg) /\ (cg > 0 => f[LaneCount] = done[cg]) /\ ReadingFits(r, lanes, f, cg, least)
  BY <1>1, <1>2 DEF SharesFit
<1>7. PICK x \in Nat, y \in Nat, z \in Nat : x = f[l - 1] /\ y = f[l] /\ z = f[LaneCount]
  BY <1>5, <1>6 DEF SumsTo
<1>8. PICK n \in Nat : n = lanes[l].value
  BY <1>3
<1>9. y = x + Share(lanes[l], cg) /\ Share(lanes[l], cg) = IF lanes[l].generation = cg THEN n ELSE 0
  BY <1>5, <1>6, <1>7, <1>8 DEF SumsTo, Share
<1>10. r.count \in Nat /\ r.value \in Nat /\ r.count <= x
  BY <1>2, <1>3, <1>4, <1>6, <1>7 DEF ReadingFits, Readings
<1>11. ASSUME NEW count \in Nat, NextLane(count), count <= y, least <= count + (z - y)
       PROVE  SharesFit(f, lanes, cg, reading', done, least)
  <2>1. PICK at : at = IF l = LaneCount THEN "counted" ELSE "generation"
    OBVIOUS
  <2>2. at \in {"generation", "counted"} /\ reading' = [at |-> at, lane |-> l + 1, value |-> 0, count |-> count]
    BY <1>2, <1>4, <1>11, <2>1 DEF NextLane
  <2>3. count <= f[l] /\ least <= count + (f[LaneCount] - f[l])
    BY <1>7, <1>11
  <2> QED
    BY <1>6, <2>2, <2>3, NextLaneFits
<1>12. CASE r.at = "generation"
  <2>1. least <= r.count + (z - x)
    BY <1>4, <1>6, <1>7, <1>12 DEF ReadingFits
  <2>2. CASE lanes[l].generation = cg
    <3>1. reading' = [r EXCEPT !.at = "value"]
      BY <1>1, <1>2, <1>4, <1>12, <2>2 DEF ReadLane, IsOfCapture
    <3>2. PICK s : s = [r EXCEPT !.at = "value"]
      OBVIOUS
    <3>3. s.at = "value" /\ s.lane = l /\ s.count = r.count
      BY <1>2, <1>4, <3>2 DEF Readings
    <3>4. ReadingFits(s, lanes, f, cg, least)
      BY <1>7, <1>10, <2>1, <2>2, <3>3 DEF ReadingFits
    <3> QED
      BY <1>1, <1>6, <3>1, <3>2, <3>4 DEF SharesFit
  <2>3. CASE lanes[l].generation # cg
    <3>1. NextLane(r.count)
      BY <1>1, <1>2, <1>4, <1>12, <2>3 DEF ReadLane, IsOfCapture
    <3>2. y = x
      BY <1>9, <2>3
    <3> QED
      BY <1>1, <1>10, <1>11, <2>1, <3>1, <3>2
  <2> QED
    BY <2>2, <2>3
<1>13. CASE r.at = "value"
  <2>1. lanes[l].generation = cg /\ least <= r.count + (z - x)
    BY <1>4, <1>6, <1>7, <1>13 DEF ReadingFits
  <2>2. y = x + n
    BY <1>9, <2>1
  <2>3. reading' = [r EXCEPT !.at = "again", !.value = n]
    BY <1>2, <1>4, <1>8, <1>13 DEF ReadLane
  <2>4. PICK s : s = [r EXCEPT !.at = "again", !.value = n]
    OBVIOUS
  <2>5. s.at = "again" /\ s.lane = l /\ s.count = r.count /\ s.value = n
    BY <1>2, <1>4, <2>4 DEF Readings
  <2>6. least <= r.count + n + (z - y)
    BY <1>10, <2>1, <2>2
  <2>7. ReadingFits(s, lanes, f, cg, least)
    BY <1>7, <1>8, <1>10, <2>1, <2>5, <2>6 DEF ReadingFits
  <2> QED
    BY <1>1, <1>6, <2>3, <2>4, <2>7 DEF SharesFit
<1>14. CASE r.at = "again"
  <2>1. lanes[l].generation = cg /\ r.value <= n /\ least <= r.count + r.value + (z - y)
    BY <1>4, <1>6, <1>7, <1>8, <1>14 DEF ReadingFits
  <2>2. y = x + n
    BY <1>9, <2>1
  <2>3. NextLane(r.count + r.value)
    BY <1>1, <1>2, <1>4, <1>14, <2>1 DEF ReadLane, IsOfCapture
  <2>4. PICK count \in Nat : count = r.count + r.value
    BY <1>10
  <2>5. count <= y /\ least <= count + (z - y)
    BY <1>10, <2>1, <2>2, <2>4
  <2> QED
    BY <1>1, <1>11, <2>3, <2>4, <2>5
<1> QED
  BY <1>3, <1>12, <1>13, <1>14

LEMMA SharePartKept == LaneTypes /\ ThreadPart /\ TallyPart /\ SharePart /\ [LanesNext]_laneVars => SharePart'
<1> SUFFICES ASSUME LaneTypes, ThreadPart, TallyPart, SharePart, [LanesNext]_laneVars PROVE SharePart'
  OBVIOUS
<1> USE LaneConstants
<1>0. PICK done : done = counts.done
  OBVIOUS
<1>1. PICK cg \in Nat, least \in Nat, r \in Readings :
          cg = captureOf.generation /\ least = counts.least /\ done = counts.done /\ r = reading
  BY <1>0 DEF LaneTypes, Tallies
<1>2. /\ lanes \in [LaneIndices -> [value : Nat, generation : 0..MaxCaptures]]
      /\ threads \in [LaneThreads -> ThreadStates] /\ counts \in Tallies
      /\ done \in [1..MaxCaptures -> Nat] /\ cg \in 0..MaxCaptures /\ ReaderAt(r, cg)
      /\ counts.overtaken \in BOOLEAN
  BY <1>1 DEF LaneTypes, Tallies
<1>3. \A l \in LaneIndices : Share(lanes[l], cg) \in Nat
  BY <1>2 DEF Share
<1>4. CASE counts.overtaken
  <2>1. counts'.overtaken
    <3>1. \/ UNCHANGED counts \/ StartCounting
          \/ \E t \in LaneThreads : ClearLane(t)
          \/ \E t \in LaneThreads, field \in {"begun", "done", "dropped"} : \E g : Tally(field, g)
      BY DEF LanesNext, laneVars, Construct, OpenCapture, CloseCapture, ReadLane, ReportCount,
             LoadGenerationFirst, TakeLane, CheckLane, SetLane, NameLane, AddInLane, EndThread
    <3>2. CASE StartCounting
      BY <1>2, <1>4, <3>2 DEF StartCounting, Tallies
    <3>3. CASE \E t \in LaneThreads : ClearLane(t)
      BY <1>2, <1>4, <3>3 DEF ClearLane, Tallies
    <3>4. CASE \E t \in LaneThreads, field \in {"begun", "done", "dropped"} : \E g : Tally(field, g)
      BY <1>2, <1>4, <3>4 DEF Tally, Tallies
    <3> QED
      BY <1>4, <3>1, <3>2, <3>3, <3>4
  <2> QED
    BY <2>1 DEF SharePart
<1>5. CASE ~counts.overtaken
  <2>1. PICK f : SharesFit(f, lanes, cg, r, done, least)
    BY <1>1, <1>5 DEF SharePart
  <2>2. CASE OpenCapture
    <3>1. captureOf'.generation = cg + 1 /\ cg + 1 \in 1..MaxCaptures /\ r.at = "idle" /\ UNCHANGED <<lanes, reading, counts>>
      BY <1>1, <1>2, <2>2 DEF OpenCapture
    <3>2. PICK f2 : f2 = [k \in 0..LaneCount |-> 0]
      OBVIOUS
    <3>3. \A l \in LaneIndices : Share(lanes[l], cg + 1) = 0
      BY <1>1, <1>2 DEF Share, ThreadPart
    <3>4. SumsTo(f2, lanes, cg + 1)
      BY <3>2, <3>3 DEF SumsTo, LaneIndices
    <3>5. f2[LaneCount] = 0 /\ done[cg + 1] = 0
      BY <1>1, <1>2, <3>1, <3>2 DEF TallyPart
    <3>6. ReadingFits(r, lanes, f2, cg + 1, least)
      BY <3>1 DEF ReadingFits
    <3>7. SharesFit(f2, lanes, cg + 1, r, done, least)
      BY <3>4, <3>5, <3>6 DEF SharesFit
    <3> QED
      BY <1>1, <3>1, <3>7 DEF SharePart
  <2>3. CASE StartCounting
    <3>1. PICK s : s = [at |-> "generation", lane |-> 1, value |-> 0, count |-> 0]
      OBVIOUS
    <3>2. reading' = s /\ counts' = [counts EXCEPT !.least = done[cg]] /\ cg > 0 /\ UNCHANGED <<captureOf, lanes>>
      BY <1>1, <2>3, <3>1 DEF StartCounting
    <3>3. counts'.done = done /\ counts'.least = done[cg]
      BY <1>1, <1>2, <3>2 DEF Tallies
    <3>4. SumsTo(f, lanes, cg) /\ f[LaneCount] = done[cg] /\ f[0] = 0 /\ f[LaneCount] \in Nat
      BY <2>1, <3>2 DEF SharesFit, SumsTo
    <3>5. s.at = "generation" /\ s.lane - 1 = 0 /\ s.count = 0
      BY <3>1
    <3>6. ReadingFits(s, lanes, f, cg, done[cg])
      BY <3>4, <3>5 DEF ReadingFits
    <3>7. SharesFit(f, lanes, cg, s, done, done[cg])
      BY <3>4, <3>6 DEF SharesFit
    <3> QED
      BY <1>1, <3>2, <3>3, <3>7 DEF SharePart
  <2>4. CASE ReadLane
    BY <1>1, <2>1, <2>4, SharePartRead DEF ReadLane, SharePart
  <2>5. CASE ReportCount
    BY <2>5, <2>1, <1>1 DEF ReportCount, SharesFit, ReadingFits, SharePart
  <2>6. ASSUME UNCHANGED <<lanes, reading>>, captureOf'.generation = cg, counts'.done = done \/ cg > 0 => counts'.done[cg] = done[cg],
               counts'.least = least
        PROVE  SharePart'
    BY <2>1, <2>6, <1>1 DEF SharesFit, SharePart
  <2>7. CASE UNCHANGED laneVars \/ CloseCapture \/ (\E config \in Configurations : Construct(config))
    BY <1>1, <2>7, <2>6 DEF laneVars, CloseCapture, Construct, LaneTypes
  <2>8. ASSUME NEW t \in LaneThreads, ThreadSteps(t)
        PROVE  SharePart'
    <3>1. PICK th \in ThreadStates : th = threads[t]
      BY <1>2
    <3>2. ThreadFits(th, lanes, cg) /\ \A l \in LaneIndices : lanes[l].generation <= cg
      BY <1>1, <3>1 DEF ThreadPart
    <3>3. UNCHANGED <<captureOf, reading>>
      BY <2>8 DEF ThreadSteps, LoadGenerationFirst, TakeLane, CheckLane, ClearLane, SetLane, NameLane,
                  AddInLane, EndThread
    <3>4. CASE LoadGenerationFirst(t) \/ TakeLane(t) \/ CheckLane(t) \/ EndThread(t)
      <4>1. UNCHANGED lanes
        BY <3>4 DEF LoadGenerationFirst, TakeLane, CheckLane, EndThread
      <4>2. UNCHANGED counts \/ (LoadGenerationFirst(t) /\ Tally("begun", cg))
            \/ (Tally("dropped", th.seen) /\ th.at # "idle")
        BY <1>1, <3>1, <3>4 DEF LoadGenerationFirst, TakeLane, CheckLane, EndThread, At
      <4>3. LoadGenerationFirst(t) => cg \in 1..MaxCaptures
        BY <1>1, <1>2 DEF LoadGenerationFirst, LaneTypes
      <4>4. th.at # "idle" => th.seen \in 1..MaxCaptures
        BY <1>2, <3>2 DEF ThreadFits
      <4>5. counts'.done = done /\ counts'.least = least
        BY <1>1, <1>2, <4>2, <4>3, <4>4, TallyAdds
      <4> QED
        BY <1>1, <2>6, <3>3, <4>1, <4>5
    <3>5. ASSUME th.at \in {"clear", "set", "name", "add"}
          PROVE  th.lane \in LaneIndices /\ th.seen \in 1..cg /\ th.seen \in 1..MaxCaptures
      BY <1>2, <3>2, <3>5 DEF ThreadFits
    <3>6. ASSUME NEW w \in [value : Nat, generation : 0..MaxCaptures], th.at \in {"clear", "set"}, lanes' = [lanes EXCEPT ![th.lane] = w],
                 lanes[th.lane].generation # cg, w.generation # cg, counts'.done = done, counts'.least = least
          PROVE  SharePart'
      <4>1. th.lane \in LaneIndices
        BY <3>5, <3>6
      <4>2. lanes'[th.lane] = w /\ \A l \in LaneIndices : l # th.lane => lanes'[l] = lanes[l]
        BY <1>2, <3>6, <4>1
      <4>3. \A l \in LaneIndices : Share(lanes'[l], cg) = Share(lanes[l], cg)
        BY <3>6, <4>2 DEF Share
      <4>4. r.at \in {"value", "again"} => lanes'[r.lane] = lanes[r.lane]
        BY <1>2, <2>1, <3>6, <4>2 DEF SharesFit, ReadingFits, ReaderAt
      <4>5. SharesFit(f, lanes', cg, r, done, least)
        BY <2>1, <4>3, <4>4, SameShares
      <4> QED
        BY <1>1, <3>3, <3>6, <4>5 DEF SharePart
    <3>7. CASE ClearLane(t)
      <4>1. th.at = "clear" /\ counts' = [counts EXCEPT !.overtaken = @ \/ lanes[th.lane].generation > th.seen]
            /\ lanes' = [lanes EXCEPT ![th.lane].generation = 0]
        BY <3>1, <3>7 DEF ClearLane, At, OwnLane
      <4>2. th.lane \in LaneIndices /\ th.seen \in 1..cg /\ lanes[th.lane].generation # th.seen
        BY <3>2, <3>5, <4>1 DEF ThreadFits
      <4>3. CASE lanes[th.lane].generation > th.seen
        BY <1>2, <4>1, <4>3 DEF Tallies, SharePart
      <4>4. CASE ~(lanes[th.lane].generation > th.seen)
        <5>1. lanes[th.lane].generation \in Nat /\ lanes[th.lane].generation # cg /\ cg # 0
          BY <1>2, <4>2, <4>4
        <5>2. PICK w : w = [lanes[th.lane] EXCEPT !.generation = 0]
          OBVIOUS
        <5>3. lanes' = [lanes EXCEPT ![th.lane] = w] /\ w.generation = 0
          BY <1>2, <4>1, <4>2, <5>2
        <5>4. counts'.done = done /\ counts'.least = least
          BY <1>1, <1>2, <4>1 DEF Tallies
        <5>5. th.at \in {"clear", "set"} /\ w.generation # cg
          BY <4>1, <5>1, <5>3
        <5>6. w \in [value : Nat, generation : 0..MaxCaptures]
          <6>1. PICK old \in [value : Nat, generation : 0..MaxCaptures] : old = lanes[th.lane]
            BY <1>2, <4>2
          <6>2. [old EXCEPT !.generation = 0] \in [value : Nat, generation : 0..MaxCaptures]
            OBVIOUS
          <6> QED
            BY <5>2, <6>1, <6>2
        <5> QED
          BY <3>6, <5>1, <5>3, <5>4, <5>5, <5>6
      <4> QED
        BY <4>3, <4>4
    <3>8. CASE SetLane(t)
      <4>1. th.at = "set" /\ UNCHANGED counts /\ lanes' = [lanes EXCEPT ![th.lane] = SetFirst(@, th.seen)]
        BY <3>1, <3>8 DEF SetLane, At, OwnLane
      <4>2. th.lane \in LaneIndices /\ th.seen \in 1..cg /\ lanes[th.lane].generation = 0
        BY <3>2, <3>5, <4>1 DEF ThreadFits
      <4>3. PICK w : w = [lanes[th.lane] EXCEPT !.value = 1]
        OBVIOUS
      <4>4. lanes' = [lanes EXCEPT ![th.lane] = w] /\ w.generation = 0 /\ cg # 0
        BY <1>2, <4>1, <4>2, <4>3 DEF SetFirst
      <4>5. /\ th.at \in {"clear", "set"} /\ w.generation # cg /\ lanes[th.lane].generation # cg
            /\ counts'.done = done /\ counts'.least = least
        BY <1>1, <4>1, <4>2, <4>4
      <4>6. w \in [value : Nat, generation : 0..MaxCaptures]
        BY <1>2, <4>2, <4>3
      <4> QED
        BY <3>6, <4>4, <4>5, <4>6
    <3>9. ASSUME NEW w \in [value : Nat, generation : 0..MaxCaptures], th.at \in {"name", "add"}, lanes' = [lanes EXCEPT ![th.lane] = w],
                 w.generation = th.seen, Tally("done", th.seen),
                 th.at = "name" => w.value = 1, th.at = "add" => w.value = lanes[th.lane].value + 1
          PROVE  SharePart'
      <4>1. th.lane \in LaneIndices /\ th.seen \in 1..cg /\ th.seen \in 1..MaxCaptures /\ cg > 0
        BY <3>5, <3>9
      <4>2. lanes'[th.lane] = w /\ \A l \in LaneIndices : l # th.lane => lanes'[l] = lanes[l]
        BY <1>2, <3>9, <4>1
      <4>3. /\ counts'.done = [done EXCEPT ![th.seen] = @ + 1] /\ counts'.least = least
        BY <1>1, <1>2, <3>9, <4>1, TallyAdds
      <4>4. /\ th.at = "name" => lanes[th.lane].generation = 0
            /\ th.at = "add" => lanes[th.lane].generation = th.seen
        BY <3>2 DEF ThreadFits
      <4>5. PICK n \in Nat : n = lanes[th.lane].value
        BY <1>2, <4>1
      <4>6. CASE th.seen = cg
        <5>1. Share(w, cg) = Share(lanes[th.lane], cg) + 1
          BY <3>9, <4>1, <4>4, <4>5, <4>6 DEF Share
        <5>2. r.at \in {"value", "again"} /\ r.lane = th.lane =>
                 lanes'[th.lane].generation = cg /\ lanes'[th.lane].value = lanes[th.lane].value + 1
                 /\ lanes[th.lane].value \in Nat
          BY <2>1, <3>9, <4>1, <4>4, <4>2, <4>5, <4>6 DEF SharesFit, ReadingFits
        <5>3. PICK slots : slots = lanes'
          OBVIOUS
        <5>4. PICK done2 : done2 = counts'.done
          OBVIOUS
        <5>5. done2[cg] = done[cg] + 1
          BY <1>2, <4>1, <4>3, <4>6, <5>4
        <5>6. Share(slots[th.lane], cg) = Share(lanes[th.lane], cg) + 1
              /\ \A k \in LaneIndices : k # th.lane => slots[k] = lanes[k]
          BY <4>2, <5>1, <5>3
        <5>7. \E f2 : SharesFit(f2, slots, cg, r, done2, least)
          <6>1. PICK l \in LaneIndices : l = th.lane
            BY <4>1
          <6>2. Share(slots[l], cg) = Share(lanes[l], cg) + 1 /\ \A k \in LaneIndices : k # l => slots[k] = lanes[k]
            BY <5>6, <6>1
          <6>3. r.at \in {"value", "again"} /\ r.lane = l =>
                   slots[l].generation = cg /\ slots[l].value = lanes[l].value + 1
                   /\ lanes[l].value \in Nat
            BY <5>2, <5>3, <6>1
          <6>4. ReaderAt(r, cg) /\ cg > 0 /\ \A k \in LaneIndices : Share(lanes[k], cg) \in Nat
            BY <1>2, <1>3, <4>1
          <6>5. PICK old : old = lanes
            OBVIOUS
          <6>6. SharesFit(f, old, cg, r, done, least)
            BY <2>1, <6>5
          <6> QED
            BY <6>2, <6>3, <6>4, <6>5, <6>6, <5>5, OneMoreFits
        <5> QED
          BY <1>1, <3>3, <4>3, <5>3, <5>4, <5>7 DEF SharePart
      <4>7. CASE th.seen # cg
        <5>1. lanes[th.lane].generation # cg /\ w.generation # cg
          BY <3>9, <4>1, <4>4, <4>7
        <5>2. \A l \in LaneIndices : Share(lanes'[l], cg) = Share(lanes[l], cg)
          BY <4>2, <5>1 DEF Share
        <5>3. r.at \in {"value", "again"} => lanes'[r.lane] = lanes[r.lane]
          BY <1>2, <2>1, <4>2, <5>1 DEF SharesFit, ReadingFits, ReaderAt
        <5>4. counts'.done[cg] = done[cg]
          BY <1>2, <4>1, <4>3, <4>7
        <5>5. SharesFit(f, lanes', cg, r, counts'.done, least)
          BY <2>1, <5>2, <5>3, <5>4, SameShares
        <5> QED
          BY <1>1, <3>3, <4>3, <5>5 DEF SharePart
      <4> QED
        BY <4>6, <4>7
    <3>10. CASE NameLane(t)
      <4>1. th.at = "name" /\ Tally("done", th.seen)
            /\ lanes' = [lanes EXCEPT ![th.lane] = [value |-> 1, generation |-> th.seen]]
        BY <3>1, <3>10 DEF NameLane, At, OwnLane
      <4>2. PICK w : w = [value |-> 1, generation |-> th.seen]
        OBVIOUS
      <4>3. /\ th.at \in {"name", "add"} /\ lanes' = [lanes EXCEPT ![th.lane] = w]
            /\ w.generation = th.seen /\ Tally("done", th.seen)
            /\ (th.at = "name" => w.value = 1) /\ (th.at = "add" => w.value = lanes[th.lane].value + 1)
        BY <4>1, <4>2
      <4>4. w \in [value : Nat, generation : 0..MaxCaptures]
        BY <3>5, <4>1, <4>2
      <4> QED
        BY <3>9, <4>3, <4>4
    <3>11. CASE AddInLane(t)
      <4>1. th.at = "add" /\ Tally("done", th.seen) /\ lanes' = [lanes EXCEPT ![th.lane].value = @ + 1]
        BY <3>1, <3>11 DEF AddInLane, At, OwnLane
      <4>2. th.lane \in LaneIndices /\ lanes[th.lane].generation = th.seen
        BY <3>2, <3>5, <4>1 DEF ThreadFits
      <4>3. PICK w : w = [lanes[th.lane] EXCEPT !.value = @ + 1]
        OBVIOUS
      <4>4. lanes' = [lanes EXCEPT ![th.lane] = w] /\ w.generation = th.seen /\ w.value = lanes[th.lane].value + 1
        BY <1>2, <4>1, <4>2, <4>3
      <4>5. /\ th.at \in {"name", "add"} /\ lanes' = [lanes EXCEPT ![th.lane] = w]
            /\ w.generation = th.seen /\ Tally("done", th.seen)
            /\ (th.at = "name" => w.value = 1) /\ (th.at = "add" => w.value = lanes[th.lane].value + 1)
        BY <4>1, <4>4
      <4>6. lanes[th.lane].value + 1 \in Nat
        BY <1>2, <4>2
      <4>7. w \in [value : Nat, generation : 0..MaxCaptures]
        BY <1>2, <4>2, <4>3, <4>6
      <4> QED
        BY <3>9, <4>5, <4>7
    <3> QED
      BY <2>8, <3>4, <3>7, <3>8, <3>10, <3>11 DEF ThreadSteps
  <2> QED
    BY <2>2, <2>3, <2>4, <2>5, <2>7, <2>8 DEF LanesNext, ThreadSteps
<1> QED
  BY <1>2, <1>4, <1>5

-----------------------------------------------------------------------------
(* The source: its shards and its buckets.                                   *)

(* Every nonempty set of natural numbers has a least element.                *)
LEMMA LeastOf ==
    ASSUME NEW T, T \subseteq Nat, T # {}
    PROVE  \E x \in T : \A y \in T : x <= y
<1> DEFINE D == {0..n : n \in T}
<1>1. D \subseteq FiniteSubsetsOf(Nat) /\ D # {}
  <2>1. ASSUME NEW n \in T PROVE 0..n \in FiniteSubsetsOf(Nat)
    BY FS_Interval DEF FiniteSubsetsOf
  <2> QED
    BY <2>1
<1>2. PICK I \in D : \A J \in D : ~ (<<J, I>> \in StrictSubsetOrdering(Nat))
  <2> HIDE DEF D
  <2> QED
    BY <1>1, WFMin, FS_StrictSubsetOrderingWellFounded
<1>3. PICK x \in T : I = 0..x
  OBVIOUS
<1>4. ASSUME NEW y \in T PROVE x <= y
  <2>1. SUFFICES ASSUME y < x PROVE FALSE
    OBVIOUS
  <2>2. 0..y \in D
    OBVIOUS
  <2>3. <<0..y, 0..x>> \in StrictSubsetOrdering(Nat)
    <3> DEFINE Y == 0..y  X == 0..x
    <3>1. Y \subseteq X /\ x \notin Y /\ x \in X
      BY <2>1
    <3>2. Y \in SUBSET Nat /\ X \in SUBSET Nat
      OBVIOUS
    <3> HIDE DEF X, Y
    <3>3. Y # X
      BY <3>1
    <3>4. <<Y, X>> \in StrictSubsetOrdering(Nat)
      BY <3>1, <3>2, <3>3 DEF StrictSubsetOrdering
    <3> QED
      BY <3>4 DEF X, Y
  <2> QED
    BY <1>2, <1>3, <2>2, <2>3
<1> QED
  BY <1>4

LEMMA LeastIsMin ==
    ASSUME NEW T, T \subseteq Nat, T # {}
    PROVE  Min(T) \in T /\ \A y \in T : Min(T) <= y
  BY LeastOf DEF Min

LEMMA ProductGrows ==
    ASSUME NEW a \in Nat, NEW b \in Nat, NEW m \in Nat, a <= b
    PROVE  a * m <= b * m /\ a * m \in Nat /\ b * m \in Nat
<1>1. PICK d \in Nat : b = a + d
  OBVIOUS
<1>2. PICK p \in Nat, q \in Nat : p = a * m /\ q = d * m
  OBVIOUS
<1>3. (a + d) * m = a * m + d * m
  OBVIOUS
<1> QED
  BY <1>1, <1>2, <1>3

LEMMA QuotientGrows ==
    ASSUME NEW a \in Nat, NEW b \in Nat, NEW m \in Nat \ {0}, a <= b
    PROVE  a \div m \in Nat /\ b \div m \in Nat /\ a \div m <= b \div m
<1>1. PICK x, y : x = a \div m /\ y = b \div m
  OBVIOUS
<1>2. x \in Nat /\ x * m <= a /\ y \in Nat /\ b < (y + 1) * m
  BY <1>1, QuotientBelow
<1>3. x <= y
  <2>1. SUFFICES ASSUME y + 1 <= x PROVE FALSE
    BY <1>2
  <2>2. PICK n \in Nat : n = y + 1
    BY <1>2
  <2>3. n * m <= x * m /\ n * m \in Nat /\ x * m \in Nat
    BY <1>2, <2>1, <2>2, ProductGrows
  <2> QED
    BY <1>2, <2>2, <2>3
<1> QED
  BY <1>1, <1>2, <1>3

\* Where the shards end, of one, two and more.
EndOf(origin, more, k) == k * origin + (IF k <= more THEN k ELSE more)

LEMMA EndsGrow ==
    ASSUME NEW origin \in Nat \ {0}, NEW more \in Nat
    PROVE  /\ \A k \in Nat : EndOf(origin, more, k) \in Nat
           /\ EndOf(origin, more, 0) = 0
           /\ \A j, k \in Nat : j <= k => EndOf(origin, more, j) <= EndOf(origin, more, k)
           /\ \A k \in Nat \ {0} :
                 EndOf(origin, more, k) = EndOf(origin, more, k - 1) + origin + (IF k <= more THEN 1 ELSE 0)
<1>1. ASSUME NEW k \in Nat PROVE EndOf(origin, more, k) \in Nat
  <2>1. PICK p \in Nat : p = k * origin
    OBVIOUS
  <2> QED
    BY <2>1 DEF EndOf
<1>2. EndOf(origin, more, 0) = 0
  BY DEF EndOf
<1>3. ASSUME NEW j \in Nat, NEW k \in Nat, j <= k
      PROVE  EndOf(origin, more, j) <= EndOf(origin, more, k)
  <2>1. PICK p \in Nat, q \in Nat : p = j * origin /\ q = k * origin /\ p <= q
    BY <1>3, ProductGrows
  <2> QED
    BY <1>3, <2>1 DEF EndOf
<1>4. ASSUME NEW k \in Nat \ {0}
      PROVE  EndOf(origin, more, k) = EndOf(origin, more, k - 1) + origin + (IF k <= more THEN 1 ELSE 0)
  <2>1. PICK n \in Nat : k = n + 1 /\ n = k - 1
    OBVIOUS
  <2>2. PICK p \in Nat : p = n * origin
    OBVIOUS
  <2>3. (n + 1) * origin = n * origin + origin
    OBVIOUS
  <2>4. k * origin = p + origin /\ (k - 1) * origin = p
    BY <2>1, <2>2, <2>3
  <2> QED
    BY <2>1, <2>2, <2>4 DEF EndOf
<1> QED
  BY <1>1, <1>2, <1>3, <1>4

ShardsWhole(spans, rowCount) ==
    /\ \A i \in DOMAIN spans : spans[i].capacity > 0
    /\ \A r \in 0..rowCount - 1 :
          Cardinality({i \in DOMAIN spans : r - spans[i].offset \in 0..spans[i].capacity - 1}) = 1

LEMMA ShardsAreRecords ==
    ASSUME NEW rowCount \in Nat, NEW shards \in Nat \ {0}, shards <= rowCount, NEW spans,
           spans = ShardSpans(rowCount, shards)
    PROVE  ShardsWhole(spans, rowCount)
<1>1. PICK origin, more : origin = rowCount \div shards /\ more = rowCount % shards
  OBVIOUS
<1>2. origin \in Nat /\ more \in 0..shards - 1 /\ rowCount = origin * shards + more /\ rowCount < (origin + 1) * shards
  BY <1>1, QuotientBelow
<1>3. origin # 0
  BY <1>2
<1>4. PICK e : e = [k \in 0..shards |-> EndOf(origin, more, k)]
  OBVIOUS
<1>5. /\ e \in [0..shards -> Nat] /\ e[0] = 0
      /\ \A j, k \in 0..shards : j <= k => e[j] <= e[k]
      /\ \A k \in 1..shards : k - 1 \in 0..shards /\ e[k] = e[k - 1] + origin + (IF k <= more THEN 1 ELSE 0)
  <2>1. origin \in Nat \ {0} /\ more \in Nat
    BY <1>2, <1>3
  <2>2. /\ \A k \in Nat : EndOf(origin, more, k) \in Nat
        /\ EndOf(origin, more, 0) = 0
        /\ \A j, k \in Nat : j <= k => EndOf(origin, more, j) <= EndOf(origin, more, k)
        /\ \A k \in Nat \ {0} :
              EndOf(origin, more, k) = EndOf(origin, more, k - 1) + origin + (IF k <= more THEN 1 ELSE 0)
    BY <2>1, EndsGrow
  <2>3. \A k \in 0..shards : k \in Nat /\ e[k] = EndOf(origin, more, k)
    BY <1>4
  <2>4. e \in [0..shards -> Nat] /\ e[0] = 0
    BY <1>4, <2>2, <2>3
  <2>5. \A j, k \in 0..shards : j <= k => e[j] <= e[k]
    BY <2>2, <2>3
  <2>6. ASSUME NEW k \in 1..shards
        PROVE  k - 1 \in 0..shards /\ e[k] = e[k - 1] + origin + (IF k <= more THEN 1 ELSE 0)
    BY <2>2, <2>3
  <2> QED
    BY <2>4, <2>5, <2>6
<1>6. e[shards] = rowCount
  BY <1>2, <1>4 DEF EndOf
<1>7. ASSUME NEW i \in 1..shards
      PROVE  /\ spans[i].offset = e[i - 1]
             /\ spans[i].capacity = e[i] - e[i - 1] /\ spans[i].capacity \in Nat \ {0}
  <2>1. PICK cap : cap = origin + (IF i <= more THEN 1 ELSE 0)
    OBVIOUS
  <2>2. spans[i] = [offset |-> (i - 1) * origin + Min({i - 1, more}), capacity |-> cap]
    BY <1>1, <2>1 DEF ShardSpans
  <2>3. PICK n \in 0..shards : n = i - 1
    OBVIOUS
  <2>4. Min({n, more}) = IF n <= more THEN n ELSE more
    BY <1>2, <2>3, MinOfTwo
  <2>5. e[n] = n * origin + Min({n, more})
    BY <1>4, <2>4 DEF EndOf
  <2>6. cap \in Nat \ {0} /\ e[i] = e[n] + cap /\ e[n] \in Nat /\ e[i] \in Nat
    BY <1>5, <2>3, <1>2, <1>3, <2>1
  <2> QED
    BY <2>2, <2>3, <2>5, <2>6
<1>8. DOMAIN spans = 1..shards
  BY DEF ShardSpans
<1>9. ASSUME NEW r \in 0..rowCount - 1
      PROVE  Cardinality({i \in DOMAIN spans : r - spans[i].offset \in 0..spans[i].capacity - 1}) = 1
  <2>1. PICK T : T = {k \in 1..shards : r < e[k]}
    OBVIOUS
  <2>2. shards \in T /\ T \subseteq Nat
    BY <1>6, <2>1
  <2>3. PICK i \in T : \A y \in T : i <= y
    BY <2>2, LeastOf
  <2>4. i \in 1..shards /\ r < e[i]
    BY <2>1
  <2>5. e[i - 1] <= r
    BY <1>5, <2>3, <2>4, <2>1
  <2>6. PICK S : S = {k \in DOMAIN spans : r - spans[k].offset \in 0..spans[k].capacity - 1}
    OBVIOUS
  <2>7. ASSUME NEW k \in 1..shards
        PROVE  k \in S <=> e[k - 1] <= r /\ r < e[k]
    <3>1. PICK a \in Nat, b \in Nat : a = e[k - 1] /\ b = e[k]
      BY <1>5
    <3>2. k \in S <=> r - a \in 0..(b - a) - 1
      BY <1>7, <1>8, <2>6, <3>1
    <3> QED
      BY <3>1, <3>2
  <2>8. i \in S
    BY <2>4, <2>5, <2>7
  <2>9. ASSUME NEW k \in S PROVE k = i
    <3>1. k \in 1..shards /\ e[k - 1] <= r /\ r < e[k]
      BY <1>8, <2>6, <2>7
    <3>2. PICK a \in Nat, b \in Nat, c \in Nat, d \in Nat : a = e[k - 1] /\ b = e[k] /\ c = e[i - 1] /\ d = e[i]
      BY <1>5, <2>4, <3>1
    <3>3. k < i => b <= c
      BY <2>4, <3>1, <1>5, <3>2
    <3>4. i < k => d <= a
      BY <2>4, <3>1, <1>5, <3>2
    <3> QED
      BY <2>4, <2>5, <3>1, <3>2, <3>3, <3>4
  <2>10. S = {i}
    BY <2>8, <2>9
  <2> QED
    BY <2>6, <2>10, FS_Singleton
<1> QED
  BY <1>7, <1>8, <1>9 DEF ShardsWhole

LEMMA NanosecondsGrow ==
    ASSUME NEW a \in Nat, NEW b \in Nat, a <= b
    PROVE  /\ Nanoseconds(a) \in Nat /\ Nanoseconds(b) \in Nat /\ Nanoseconds(a) <= Nanoseconds(b)
           /\ b > 0 => Nanoseconds(b) > 0
<1>1. PICK longest \in Nat \ {0}, freq \in Nat \ {0}, sec \in Nat \ {0} :
          longest = LongestTime /\ freq = Frequency /\ sec = Second
  BY LanesAssumption
<1>2. PICK p \in Nat, q \in Nat : p = a * sec /\ q = b * sec /\ p <= q
  BY ProductGrows
<1>3. PICK x \in Nat, y \in Nat : x = p + freq - 1 /\ y = q + freq - 1 /\ x <= y
  BY <1>2
<1>4. PICK u \in Nat, v \in Nat : u = x \div freq /\ v = y \div freq /\ u <= v
  BY <1>3, QuotientGrows
<1>5. Nanoseconds(a) = Min({longest, u}) /\ Nanoseconds(b) = Min({longest, v})
  BY <1>1, <1>2, <1>3, <1>4 DEF Nanoseconds
<1>6. Min({longest, u}) = (IF longest <= u THEN longest ELSE u) /\ Min({longest, v}) = (IF longest <= v THEN longest ELSE v)
  BY MinOfTwo
<1>7. b > 0 => v > 0
  BY <1>4, QuotientBelow, ProductGrows, <1>2, <1>3
<1> QED
  BY <1>4, <1>5, <1>6, <1>7

LEMMA BucketsAscend ==
    ASSUME NEW bounds \in Seq(Nat), BoundsAscend(bounds), NEW ticks \in Nat \ {0}
    PROVE  DurationBucketIndex(bounds, ticks - 1) <= DurationBucketIndex(bounds, ticks)
           /\ DurationBucketIndex(bounds, ticks) > 1
<1>1. PICK n \in Nat : n = Len(bounds)
  OBVIOUS
<1>2. n > 0 /\ DOMAIN bounds = 1..n /\ bounds[1] = 0 /\ bounds[n] = LongestTime
      /\ \A i \in 1..n : bounds[i] \in Nat
  BY <1>1 DEF BoundsAscend
<1>3. PICK x \in Nat, y \in Nat : x = Nanoseconds(ticks - 1) /\ y = Nanoseconds(ticks) /\ x <= y /\ y > 0
  <2>1. PICK before \in Nat : before = ticks - 1 /\ before <= ticks
    OBVIOUS
  <2> QED
    BY <2>1, NanosecondsGrow
<1>4. PICK S, T : S = {i \in DOMAIN bounds : x <= bounds[i]} \cup {n} /\ T = {i \in DOMAIN bounds : y <= bounds[i]} \cup {n}
  OBVIOUS
<1>5. S \subseteq Nat /\ T \subseteq S /\ T # {}
  BY <1>2, <1>3, <1>4
<1>6. Min(S) \in S /\ (\A i \in S : Min(S) <= i) /\ Min(T) \in T
  BY <1>5, LeastIsMin
<1>7. n # 1
  BY <1>2, LanesAssumption
<1>8. ASSUME NEW i \in T PROVE i > 1
  BY <1>2, <1>3, <1>4, <1>7
<1>9. DurationBucketIndex(bounds, ticks - 1) = Min(S) /\ DurationBucketIndex(bounds, ticks) = Min(T)
  BY <1>1, <1>3, <1>4 DEF DurationBucketIndex
<1> QED
  BY <1>5, <1>6, <1>8, <1>9

SourcePart ==
    source.valid => /\ source.config \in Configurations /\ ValidConfiguration(source.config)
                    /\ source.spans = ShardSpans(source.config.records, source.config.shards)

LEMMA SourcePartKept == SourcePart /\ [LanesNext]_laneVars => SourcePart'
<1> SUFFICES ASSUME SourcePart, [LanesNext]_laneVars PROVE SourcePart'
  OBVIOUS
<1>1. CASE \E config \in Configurations : Construct(config)
  BY <1>1 DEF Construct, SourcePart
<1>2. CASE UNCHANGED source
  BY <1>2 DEF SourcePart
<1> QED
  BY <1>1, <1>2 DEF LanesNext, laneVars, OpenCapture, CloseCapture, StartCounting, ReadLane, ReportCount,
     LoadGenerationFirst, TakeLane, CheckLane, ClearLane, SetLane, NameLane, AddInLane, EndThread

LanesInv == LaneTypes /\ ThreadPart /\ OwnerPart /\ TallyPart /\ SharePart /\ SourcePart

LEMMA LanesAtFirst == LanesInit => LanesInv
<1> SUFFICES ASSUME LanesInit PROVE LanesInv
  OBVIOUS
<1> USE LaneConstants
<1>1. LaneTypes
  BY LanesTypedAtFirst
<1>2. /\ source = NoSource /\ captureOf.generation = 0 /\ reading.at = "idle" /\ ~counts.overtaken
      /\ \A l \in LaneIndices : lanes[l].value = 0 /\ lanes[l].generation = 0 /\ ~owned[l]
      /\ \A t \in LaneThreads : threads[t] = NewThread
      /\ \A g \in 1..MaxCaptures : counts.begun[g] = 0 /\ counts.done[g] = 0 /\ counts.dropped[g] = 0
  BY DEF LanesInit
<1>3. NewThread.life = "new" /\ NewThread.at = "idle"
  BY DEF NewThread
<1>4. ThreadPart
  BY <1>2, <1>3 DEF ThreadPart, ThreadFits
<1>5. OwnerPart
  BY <1>2, <1>3 DEF OwnerPart, HasLane
<1>6. \A g : Away(threads, g) = {}
  BY <1>2, <1>3 DEF Away
<1>7. TallyPart
  BY <1>6, FS_EmptySet, <1>2 DEF TallyPart
<1>8. SharePart
  <2>1. PICK f : f = [k \in 0..LaneCount |-> 0]
    OBVIOUS
  <2>2. SumsTo(f, lanes, 0)
    BY <2>1 DEF SumsTo, LaneIndices, Share
  <2>3. ReadingFits(reading, lanes, f, 0, counts.least)
    BY <1>2 DEF ReadingFits
  <2>4. SharesFit(f, lanes, 0, reading, counts.done, counts.least)
    BY <2>2, <2>3 DEF SharesFit
  <2> QED
    BY <1>2, <2>4 DEF SharePart
<1>9. SourcePart
  BY <1>2 DEF SourcePart, NoSource
<1> QED
  BY <1>1, <1>4, <1>5, <1>7, <1>8, <1>9 DEF LanesInv

LEMMA LanesKept == LanesInv /\ [LanesNext]_laneVars => LanesInv'
  BY LanesTyped, ThreadPartKept, OwnerPartKept, TallyPartKept, SharePartKept, SourcePartKept DEF LanesInv

LEMMA OwnersThen == ASSUME LaneTypes, OwnerPart PROVE LanesHaveOneOwner
<1>1. ASSUME NEW l \in LaneIndices
      PROVE  Cardinality({t \in LaneThreads : threads[t].life = "known" /\ OwnLane(t) = l})
                 = (IF owned[l] THEN 1 ELSE 0)
  <2>1. PICK S : S = {t \in LaneThreads : threads[t].life = "known" /\ OwnLane(t) = l}
    OBVIOUS
  <2>2. S = {t \in LaneThreads : HasLane(threads[t], l)}
    BY <2>1 DEF OwnLane, HasLane
  <2>3. CASE owned[l]
    <3>1. PICK t \in LaneThreads : HasLane(threads[t], l)
      BY <2>3 DEF OwnerPart
    <3>2. S = {t}
      BY <2>2, <3>1 DEF OwnerPart
    <3> QED
      BY <2>1, <2>3, <3>2, FS_Singleton
  <2>4. CASE ~owned[l]
    BY <2>2, <2>4, <2>1, FS_EmptySet DEF OwnerPart
  <2> QED
    BY <2>3, <2>4
<1> QED
  BY <1>1 DEF LanesHaveOneOwner

LEMMA CountThen == ASSUME LaneTypes, TallyPart, SharePart PROVE CountIsOfCapture
<1> USE LaneConstants
<1>1. SUFFICES ASSUME reading.at = "counted", ~counts.overtaken
               PROVE  reading.count \in counts.least..counts.begun[captureOf.generation]
  BY DEF CountIsOfCapture
<1>2. PICK g \in 1..MaxCaptures : g = captureOf.generation
  BY <1>1 DEF LaneTypes, ReaderAt
<1>3. PICK f : SharesFit(f, lanes, g, reading, counts.done, counts.least)
  BY <1>1, <1>2 DEF SharePart
<1>4. f[LaneCount] = counts.done[g] /\ SumsTo(f, lanes, g) /\ ReadingFits(reading, lanes, f, g, counts.least)
  BY <1>3 DEF SharesFit
<1>5. reading.lane - 1 = LaneCount /\ reading.count \in Nat
  BY <1>1 DEF LaneTypes, ReaderAt, Readings
<1>6. PICK b \in Nat, d \in Nat, p \in Nat, least \in Nat :
          b = counts.begun[g] /\ d = counts.done[g] /\ p = counts.dropped[g] /\ least = counts.least
  BY DEF LaneTypes, Tallies
<1>7. PICK n \in Nat : n = Cardinality(Away(threads, g))
  BY AwayCounts
<1>8. b = d + p + n
  BY <1>6, <1>7 DEF TallyPart
<1>9. reading.count <= d /\ least <= reading.count + (d - d)
  BY <1>1, <1>4, <1>5, <1>6 DEF ReadingFits
<1> QED
  BY <1>2, <1>5, <1>6, <1>8, <1>9

LEMMA NoneForgottenThen == ASSUME TallyPart PROVE NoOperationForgotten
  BY DEF Away, At, TallyPart, NoOperationForgotten

LEMMA SourceThen == ASSUME SourcePart PROVE SourceIsSound
<1>1. SUFFICES ASSUME source.valid
               PROVE  /\ \A r \in 0..source.config.records - 1 :
                            Cardinality({i \in DOMAIN source.spans :
                                r - source.spans[i].offset \in 0..source.spans[i].capacity - 1}) = 1
                      /\ \A i \in DOMAIN source.spans : source.spans[i].capacity > 0
                      /\ \A ticks \in 1..MaxTicks :
                            /\ [t \in 0..MaxTicks |-> DurationBucketIndex(source.config.bounds, t)][ticks - 1]
                                  <= [t \in 0..MaxTicks |-> DurationBucketIndex(source.config.bounds, t)][ticks]
                            /\ [t \in 0..MaxTicks |-> DurationBucketIndex(source.config.bounds, t)][ticks] > 1
  BY DEF SourceIsSound
<1>2. PICK rowCount \in Nat, shards \in Nat, bounds \in Seq(Nat) :
          rowCount = source.config.records /\ shards = source.config.shards /\ bounds = source.config.bounds
  BY <1>1, LanesAssumption DEF SourcePart
<1>3. PICK spans : spans = source.spans
  OBVIOUS
<1>4. /\ BoundsAscend(bounds) /\ shards > 0 /\ shards <= rowCount /\ spans = ShardSpans(rowCount, shards)
  BY <1>1, <1>2, <1>3 DEF SourcePart, ValidConfiguration
<1>5. ShardsWhole(spans, rowCount)
  <2>1. PICK n \in Nat \ {0} : n = shards
    BY <1>4
  <2>2. n <= rowCount /\ spans = ShardSpans(rowCount, n)
    BY <1>4, <2>1
  <2> QED
    BY <2>2, ShardsAreRecords
<1>6. ASSUME NEW ticks \in 1..MaxTicks
      PROVE  /\ [t \in 0..MaxTicks |-> DurationBucketIndex(bounds, t)][ticks - 1]
                   <= [t \in 0..MaxTicks |-> DurationBucketIndex(bounds, t)][ticks]
             /\ [t \in 0..MaxTicks |-> DurationBucketIndex(bounds, t)][ticks] > 1
  BY LaneConstants, <1>4, BucketsAscend
<1> QED
  BY <1>2, <1>3, <1>5, <1>6 DEF ShardsWhole

LanesAddUp == LanesHaveOneOwner /\ CountIsOfCapture /\ NoOperationForgotten /\ SourceIsSound

(* The part of RowsAddUp about the counts of every operation: a lane is of   *)
(* at most one thread, no operation is forgotten, what AllOperationCount     *)
(* adds up while the lanes are written is between what was counted when it   *)
(* began and what was begun, and the shards and buckets of a source are      *)
(* whole, for any threads, lanes, captures and configurations                *)
(* (AdOperationProfile.cpp).                                                 *)
THEOREM LanesAlwaysAddUp == LanesSpec => []LanesAddUp
<1>1. LanesInv => LanesAddUp
  BY OwnersThen, CountThen, NoneForgottenThen, SourceThen DEF LanesInv, LanesAddUp
<1> QED
  BY <1>1, LanesAtFirst, LanesKept, PTL DEF LanesSpec

-----------------------------------------------------------------------------
LEMMA CountOneMore ==
    ASSUME NEW S, IsFiniteSet(S), NEW e, e \notin S
    PROVE  Cardinality(S \cup {e}) = Cardinality(S) + 1 /\ Cardinality(S) \in Nat
  BY FS_AddElement, FS_CardinalityType

LEMMA CountOneLess ==
    ASSUME NEW S, IsFiniteSet(S), NEW e \in S
    PROVE  Cardinality(S \ {e}) = Cardinality(S) - 1 /\ Cardinality(S) \in Nat \ {0}
  BY FS_RemoveElement, FS_CardinalityType

(* Sums over finite sets, as the library computes them: one element after    *)
(* the other, in whatever order they are chosen.                             *)
AnyOf(T) == CHOOSE x \in T : TRUE
SumOf(w, T) == MapThenSumSet(LAMBDA s : w[s], T)
SumStep(f, w, U) == IF U = {} THEN 0 ELSE w[AnyOf(U)] + f[U \ {AnyOf(U)}]
Sums(f, w, T) == f = [U \in SUBSET T |-> SumStep(f, w, U)]

LEMMA AnyOfIs == ASSUME NEW T, T # {} PROVE AnyOf(T) \in T
  BY DEF AnyOf

(* The sum is the value of the function that the library defines.            *)
LEMMA SumIsItsFunction ==
    ASSUME NEW w, NEW T
    PROVE  SumOf(w, T) = (CHOOSE f : Sums(f, w, T))[T]
  BY DEF SumOf, MapThenSumSet, MapThenFoldSet, Sums, SumStep, AnyOf

(* There is such a function for every finite set.                            *)
LEMMA SumsThere ==
    ASSUME NEW T, IsFiniteSet(T), NEW w, \A x \in T : w[x] \in Int
    PROVE  \E f \in [SUBSET T -> Int] : Sums(f, w, T)
<1> DEFINE Upto(f, n) == \A U \in SUBSET T : Cardinality(U) <= n => f[U] = SumStep(f, w, U)
           bad == {n \in Nat : ~\E f \in [SUBSET T -> Int] : Upto(f, n)}
<1>0. \A U \in SUBSET T : IsFiniteSet(U) /\ Cardinality(U) \in Nat /\ Cardinality(U) <= Cardinality(T)
  BY FS_Subset, FS_CardinalityType
<1>1. bad = {}
  <2>1. SUFFICES ASSUME bad # {} PROVE FALSE
    OBVIOUS
  <2>2. PICK n \in bad : \A m \in bad : n <= m
    BY <2>1, LeastOf
  <2>3. PICK g \in [SUBSET T -> Int] : n = 0 \/ Upto(g, n - 1)
    <3>1. CASE n = 0
      <4>1. [U \in SUBSET T |-> 0] \in [SUBSET T -> Int]
        OBVIOUS
      <4> QED
        BY <3>1, <4>1
    <3>2. CASE n # 0
      <4>1. n \in Nat /\ bad \subseteq Nat /\ \A m \in bad : n <= m
        BY <2>2
      <4>2. n - 1 \in Nat /\ n - 1 \notin bad
        <5> HIDE DEF bad
        <5> QED
          BY <3>2, <4>1
      <4> QED
        BY <4>2
    <3> QED
      BY <3>1, <3>2
  <2> DEFINE h == [U \in SUBSET T |-> IF Cardinality(U) = n THEN SumStep(g, w, U) ELSE g[U]]
  <2>4. ASSUME NEW U \in SUBSET T, U # {}
        PROVE  /\ AnyOf(U) \in U /\ w[AnyOf(U)] \in Int
               /\ U \ {AnyOf(U)} \in SUBSET T
               /\ Cardinality(U \ {AnyOf(U)}) = Cardinality(U) - 1
    BY <2>4, AnyOfIs, <1>0, CountOneLess
  <2>5. \A U \in SUBSET T : SumStep(g, w, U) \in Int
    <3>1. ASSUME NEW U \in SUBSET T, U # {} PROVE SumStep(g, w, U) \in Int
      <4>1. w[AnyOf(U)] \in Int /\ g[U \ {AnyOf(U)}] \in Int
        BY <2>4, <3>1
      <4> QED
        BY <3>1, <4>1 DEF SumStep
    <3>2. ASSUME NEW U \in SUBSET T, U = {} PROVE SumStep(g, w, U) \in Int
      BY <3>2 DEF SumStep
    <3> QED
      BY <3>1, <3>2
  <2>6. h \in [SUBSET T -> Int]
    BY <2>5
  <2>7. ASSUME NEW U \in SUBSET T, Cardinality(U) <= n PROVE h[U] = SumStep(h, w, U)
    <3>1. CASE U = {}
      BY <3>1, FS_EmptySet, <2>2, <2>3 DEF SumStep
    <3>2. CASE U # {}
      <4> DEFINE x == AnyOf(U)
                 V == U \ {x}
      <4>1. x \in U /\ V \in SUBSET T /\ Cardinality(V) = Cardinality(U) - 1
        BY <2>4, <3>2
      <4>2. Cardinality(U) \in Nat /\ Cardinality(V) \in Nat /\ n \in Nat
        BY <1>0, <2>2, <4>1
      <4>3. Cardinality(V) # n
        BY <2>7, <4>1, <4>2
      <4>4. h[V] = g[V]
        BY <4>1, <4>3
      <4>5. SumStep(h, w, U) = SumStep(g, w, U)
        BY <3>2, <4>4 DEF SumStep
      <4>6. CASE Cardinality(U) = n
        BY <4>5, <4>6
      <4>7. CASE Cardinality(U) # n
        BY <2>7, <4>1, <4>2, <4>7, <2>3, <4>5
      <4> QED
        BY <4>6, <4>7
    <3> QED
      BY <3>1, <3>2
  <2>8. Upto(h, n)
    BY <2>7
  <2> HIDE DEF h, Upto
  <2> QED
    BY <2>2, <2>6, <2>8
<1>2. PICK f \in [SUBSET T -> Int] : Upto(f, Cardinality(T))
  BY FS_CardinalityType, <1>1
<1>3. \A U \in SUBSET T : f[U] = SumStep(f, w, U)
  BY <1>0, <1>2
<1>4. f = [U \in SUBSET T |-> SumStep(f, w, U)]
  BY <1>3
<1> QED
  BY <1>4 DEF Sums

(* Two such functions agree where their weights do.                          *)
LEMMA SumsAgree ==
    ASSUME NEW S, NEW T, NEW f, NEW g, NEW w, NEW v, Sums(f, w, S), Sums(g, v, T),
           NEW W, W \subseteq S, W \subseteq T, IsFiniteSet(W), \A x \in W : w[x] = v[x]
    PROVE  f[W] = g[W]
<1> DEFINE bad == {U \in SUBSET W : f[U] # g[U]}
           sizes == {Cardinality(U) : U \in bad}
<1>0. \A U \in SUBSET W : IsFiniteSet(U) /\ Cardinality(U) \in Nat
  BY FS_Subset, FS_CardinalityType
<1>1. SUFFICES ASSUME bad # {} PROVE FALSE
  OBVIOUS
<1>2. sizes \subseteq Nat /\ sizes # {}
  BY <1>0, <1>1
<1>3. PICK n \in sizes : \A m \in sizes : n <= m
  BY <1>2, LeastOf
<1>4. PICK U \in bad : n = Cardinality(U)
  OBVIOUS
<1>5. f[U] = SumStep(f, w, U) /\ g[U] = SumStep(g, v, U)
  BY DEF Sums
<1>6. CASE U = {}
  BY <1>5, <1>6 DEF SumStep
<1>7. CASE U # {}
  <2> DEFINE x == AnyOf(U)
             V == U \ {x}
  <2>1. x \in U /\ V \in SUBSET W /\ w[x] = v[x]
    BY <1>7, AnyOfIs
  <2>2. Cardinality(V) = n - 1 /\ n \in Nat
    BY <1>0, <1>4, <2>1, CountOneLess
  <2>3. V \notin bad
    BY <1>3, <2>2
  <2>4. f[V] = g[V]
    BY <2>1, <2>3
  <2> QED
    BY <1>4, <1>5, <1>7, <2>1, <2>4 DEF SumStep
<1> QED
  BY <1>6, <1>7

(* So the sum is any such function's value.                                  *)
LEMMA SumIs ==
    ASSUME NEW T, IsFiniteSet(T), NEW w, \A x \in T : w[x] \in Int
    PROVE  /\ SumOf(w, T) \in Int
           /\ \A S : \A f : IsFiniteSet(S) /\ T \subseteq S /\ Sums(f, w, S) => SumOf(w, T) = f[T]
<1> DEFINE g == CHOOSE f : Sums(f, w, T)
<1>1. PICK h \in [SUBSET T -> Int] : Sums(h, w, T)
  BY SumsThere
<1>2. Sums(g, w, T)
  BY <1>1
<1>3. SumOf(w, T) = g[T]
  BY SumIsItsFunction
<1> HIDE DEF g
<1>4. g[T] = h[T]
  BY <1>1, <1>2, SumsAgree
<1>5. ASSUME NEW S, NEW f, T \subseteq S, Sums(f, w, S) PROVE g[T] = f[T]
  BY <1>2, <1>5, SumsAgree
<1> QED
  BY <1>1, <1>3, <1>4, <1>5

(* Equal weights, equal sums.                                                *)
LEMMA SumAgrees ==
    ASSUME NEW T, IsFiniteSet(T), NEW w, NEW v, \A x \in T : w[x] = v[x] /\ w[x] \in Int
    PROVE  SumOf(w, T) = SumOf(v, T)
<1>1. PICK f \in [SUBSET T -> Int] : Sums(f, w, T)
  BY SumsThere
<1>2. PICK g \in [SUBSET T -> Int] : Sums(g, v, T)
  BY SumsThere
<1>3. f[T] = g[T]
  BY <1>1, <1>2, SumsAgree
<1> QED
  BY <1>1, <1>2, <1>3, SumIs

LEMMA SumOfNone == ASSUME NEW w PROVE SumOf(w, {}) = 0
<1>1. PICK f \in [SUBSET {} -> Int] : Sums(f, w, {})
  BY SumsThere, FS_EmptySet
<1>2. f[{}] = SumStep(f, w, {})
  BY <1>1 DEF Sums
<1>3. SumOf(w, {}) = f[{}]
  BY <1>1, SumIs, FS_EmptySet
<1> QED
  BY <1>2, <1>3 DEF SumStep

(* Whichever element is taken out first, the sum is what it weighs and the   *)
(* sum of the others.                                                        *)
LEMMA SumTakesOut ==
    ASSUME NEW T, IsFiniteSet(T), NEW w, \A x \in T : w[x] \in Int, NEW e \in T
    PROVE  /\ SumOf(w, T) = w[e] + SumOf(w, T \ {e})
           /\ SumOf(w, T) \in Int /\ SumOf(w, T \ {e}) \in Int
<1>1. PICK f \in [SUBSET T -> Int] : Sums(f, w, T)
  BY SumsThere
<1> DEFINE bad == {U \in SUBSET T : ~\A x \in U : f[U] = w[x] + f[U \ {x}]}
           sizes == {Cardinality(U) : U \in bad}
<1>0. \A U \in SUBSET T : IsFiniteSet(U) /\ Cardinality(U) \in Nat
  BY FS_Subset, FS_CardinalityType
<1>2. bad = {}
  <2>1. SUFFICES ASSUME bad # {} PROVE FALSE
    OBVIOUS
  <2>2. sizes \subseteq Nat /\ sizes # {}
    BY <1>0, <2>1
  <2>3. PICK n \in sizes : \A m \in sizes : n <= m
    BY <2>2, LeastOf
  <2>4. PICK U \in bad : n = Cardinality(U)
    OBVIOUS
  <2>5. PICK x \in U : f[U] # w[x] + f[U \ {x}]
    OBVIOUS
  <2> DEFINE y == AnyOf(U)
  <2>6. y \in U
    BY AnyOfIs
  <2>7. f[U] = w[y] + f[U \ {y}]
    BY <1>1, <2>5 DEF Sums, SumStep
  <2> HIDE DEF y
  <2>8. x # y
    BY <2>5, <2>7
  <2>9. \A z \in U : U \ {z} \notin bad /\ U \ {z} \in SUBSET T
    <3>1. ASSUME NEW z \in U PROVE U \ {z} \notin bad
      <4>1. Cardinality(U \ {z}) = n - 1 /\ n \in Nat
        BY <1>0, <2>4, CountOneLess
      <4>2. Cardinality(U \ {z}) \notin sizes
        BY <2>3, <4>1
      <4> QED
        BY <4>2
    <3> QED
      BY <3>1
  <2>10. f[U \ {y}] = w[x] + f[(U \ {y}) \ {x}]
    BY <2>6, <2>8, <2>9
  <2>11. f[U \ {x}] = w[y] + f[(U \ {x}) \ {y}]
    BY <2>6, <2>8, <2>9
  <2>12. (U \ {y}) \ {x} = (U \ {x}) \ {y} /\ (U \ {x}) \ {y} \in SUBSET T
    OBVIOUS
  <2>13. PICK rest \in Int : rest = f[(U \ {x}) \ {y}]
    BY <2>12
  <2>14. w[x] \in Int /\ w[y] \in Int
    BY <2>6
  <2>15. f[U] = w[y] + (w[x] + rest)
    BY <2>7, <2>10, <2>12, <2>13
  <2>16. f[U] # w[x] + (w[y] + rest)
    BY <2>5, <2>11, <2>13
  <2> HIDE DEF bad, sizes
  <2> QED
    BY <2>13, <2>14, <2>15, <2>16
<1>3. f[T] = w[e] + f[T \ {e}]
  BY <1>2
<1>4. T \ {e} \subseteq T /\ IsFiniteSet(T \ {e})
  BY <1>0
<1>5. SumOf(w, T) = f[T] /\ SumOf(w, T \ {e}) = f[T \ {e}]
  BY <1>1, <1>4, SumIs
<1> QED
  BY <1>1, <1>3, <1>5

(* One element more.                                                         *)
LEMMA SumPutsIn ==
    ASSUME NEW T, IsFiniteSet(T), NEW w, \A x \in T : w[x] \in Int, NEW e, e \notin T, w[e] \in Int
    PROVE  SumOf(w, T \cup {e}) = SumOf(w, T) + w[e] /\ SumOf(w, T) \in Int
<1>1. IsFiniteSet(T \cup {e}) /\ (T \cup {e}) \ {e} = T
  BY FS_AddElement
<1>2. /\ SumOf(w, T \cup {e}) = w[e] + SumOf(w, (T \cup {e}) \ {e})
      /\ SumOf(w, (T \cup {e}) \ {e}) \in Int
  BY <1>1, SumTakesOut
<1>3. SumOf(w, T) \in Int /\ SumOf(w, T \cup {e}) = w[e] + SumOf(w, T)
  BY <1>1, <1>2
<1> QED
  BY <1>3

(* One element weighs something else.                                        *)
LEMMA SumChanges ==
    ASSUME NEW T, IsFiniteSet(T), NEW w, \A x \in T : w[x] \in Int, NEW e \in T, NEW n \in Int,
           NEW v, v[e] = n, \A x \in T : x # e => v[x] = w[x]
    PROVE  SumOf(v, T) = SumOf(w, T) + n - w[e] /\ SumOf(w, T) \in Int
<1>1. SumOf(v, T) = v[e] + SumOf(v, T \ {e})
  BY SumTakesOut
<1>2. SumOf(w, T) = w[e] + SumOf(w, T \ {e}) /\ SumOf(w, T \ {e}) \in Int
  BY SumTakesOut
<1>3. IsFiniteSet(T \ {e})
  BY FS_RemoveElement
<1>4. SumOf(w, T \ {e}) = SumOf(v, T \ {e})
  BY <1>3, SumAgrees
<1> QED
  BY <1>1, <1>2, <1>4

-----------------------------------------------------------------------------
(***************************************************************************)
(* LogLines: what the menu shows as the last minute's lines, while threads *)
(* write and seconds pass.                                                 *)
(*                                                                         *)
(* LogInv adds to the types that a line is in its bucket or with its       *)
(* writer (LinePart), that a bucket has all of a second's lines unless a   *)
(* later second has taken it (BucketPart), and two bounds on the addition  *)
(* under way, the sums over those of the minute's seconds whose buckets it *)
(* has read (AddedPart).                                                   *)
(***************************************************************************)
Words == [epoch : Seconds, count : 0..LineMask]
WriterStates == [at : {"idle", "load", "exchange"}, second : Seconds, packed : Words]
LineCounts ==
    [read : [Seconds -> Nat], put : [Seconds -> Nat], before : [Seconds -> Nat], overdue : BOOLEAN]
AddingStates ==
    [at : {"idle", "adding", "added"}, bucket : 0..MinuteSeconds, now : Seconds, lines : Nat]
LogTypes ==
    /\ second \in Seconds
    /\ buckets \in [Places -> Words]
    /\ writers \in [LogThreads -> WriterStates]
    /\ adding \in AddingStates
    /\ adding.now <= second
    /\ adding.at = "adding" => adding.bucket \in Places
    /\ adding.at = "added" => adding.bucket = MinuteSeconds
    /\ logged \in LineCounts

\* The writers that have read a second and not yet put their line.
Writing(w, s) == {t \in LogThreads : w[t].at # "idle" /\ w[t].second = s}
LinesFit(w, read, put, s) == read[s] = put[s] + Cardinality(Writing(w, s))
LinePart ==
    /\ \A t \in LogThreads : writers[t].second <= second
    /\ \A s \in Seconds : LinesFit(writers, logged.read, logged.put, s)

Capped(n) == IF n <= LineMask THEN n ELSE LineMask
WordFits(word, b, put, now) ==
    /\ word.epoch <= now
    /\ word.count = 0 => word.epoch = 0
    /\ word.count # 0 => word.epoch % MinuteSeconds = b
    /\ word.count <= Capped(put[word.epoch])
KeepsSecond(word, put, s) ==
    /\ put[s] > 0 => word.epoch >= s
    /\ word.epoch = s => word.count = Capped(put[s])
BucketPart ==
    /\ \A b \in Places : WordFits(buckets[b], b, logged.put, second)
    /\ logged.overdue \/ \A s \in Seconds : KeepsSecond(buckets[s % MinuteSeconds], logged.put, s)

\* The first second of the minute that ends with n.
FirstOf(n) == IF n >= MinuteSeconds THEN n - MinuteSeconds + 1 ELSE 0
\* The seconds whose buckets have been read.
Seen(from, to, b) == {s \in from..to : s % MinuteSeconds < b}
Shown(count) == [s \in Seconds |-> Capped(count[s])]
AddedFits(lines, from, first, to, b, read, before, overdue) ==
    /\ lines <= SumOf(Shown(read), Seen(from, to, b))
    /\ overdue \/ lines >= SumOf(Shown(before), Seen(first, to, b))
AddedPart ==
    /\ \A s \in Seconds : logged.before[s] <= logged.put[s]
    /\ adding.at # "idle" =>
          AddedFits(adding.lines, FirstOf(adding.now), FirstOf(second), adding.now, adding.bucket,
                    logged.read, logged.before, logged.overdue)

LogInv == LogTypes /\ LinePart /\ BucketPart /\ AddedPart

LEMMA LogConstants ==
    /\ MinuteSeconds \in Nat \ {0} /\ LineMask \in Nat \ {0} /\ MaxSecond \in Nat
    /\ IsFiniteSet(LogThreads) /\ Seconds = 0..MaxSecond /\ Places = 0..(MinuteSeconds - 1)
  BY LogAssumption DEF Seconds, Places

LEMMA PlaceOfSecond == \A s \in Nat : s % MinuteSeconds \in 0..(MinuteSeconds - 1)
  BY LogAssumption

LEMMA PlaceOf == \A s \in Seconds : s \in Nat /\ s % MinuteSeconds \in Places
<1>1. \A s \in Seconds : s \in Nat
  BY LogConstants
<1> QED
  BY <1>1, PlaceOfSecond, LogConstants

LEMMA CappedIs ==
    /\ \A n \in Nat : Capped(n) = Min({n, LineMask}) /\ Capped(n) \in 0..LineMask /\ (n > 0 => Capped(n) > 0)
    /\ \A m, n \in Nat : m <= n => Capped(m) <= Capped(n)
<1>1. PICK L \in Nat \ {0} : L = LineMask
  BY LogConstants
<1>2. ASSUME NEW n \in Nat PROVE Min({n, LineMask}) = IF n <= L THEN n ELSE L
  BY <1>1, MinOfTwo
<1>3. \A n \in Nat : Capped(n) = IF n <= L THEN n ELSE L
  BY <1>1 DEF Capped
<1> QED
  BY <1>1, <1>2, <1>3

LEMMA MaxOfTwo ==
    ASSUME NEW a \in Int, NEW b \in Int
    PROVE  Max({a, b}) = IF a >= b THEN a ELSE b
  BY DEF Max

LEMMA FirstIs ==
    ASSUME NEW n \in Nat
    PROVE  /\ FirstOf(n) = Max({0, n - MinuteSeconds + 1})
           /\ FirstOf(n) \in 0..n /\ n - FirstOf(n) < MinuteSeconds
           /\ FirstOf(n + 1) \in {FirstOf(n), FirstOf(n) + 1}
           /\ \A m \in 0..n : n - m < MinuteSeconds => m >= FirstOf(n)
           /\ \A m \in 0..n : FirstOf(m) <= FirstOf(n)
<1>1. PICK M \in Nat \ {0} : M = MinuteSeconds
  BY LogConstants
<1>2. Max({0, n - M + 1}) = IF 0 >= n - M + 1 THEN 0 ELSE n - M + 1
  BY MaxOfTwo
<1>3. \A m \in Nat : FirstOf(m) = IF m >= M THEN m - M + 1 ELSE 0
  BY <1>1 DEF FirstOf
<1> QED
  BY <1>1, <1>2, <1>3

\* What has one rest is so many apart.
LEMMA RestsApart ==
    ASSUME NEW M \in Nat \ {0}, NEW x \in Nat, NEW y \in Nat, x % M = y % M, x < y
    PROVE  y - x >= M
<1>2. /\ x \div M \in Nat /\ x = (x \div M) * M + (x % M)
      /\ y \div M \in Nat /\ y = (y \div M) * M + (y % M)
      /\ x % M \in 0..(M - 1)
  BY QuotientBelow
<1>3. PICK p \in Nat : p = x \div M
  BY <1>2
<1>4. PICK q \in Nat : q = y \div M
  BY <1>2
<1>5. PICK r \in 0..(M - 1) : r = x % M
  BY <1>2
<1>6. x = p * M + r /\ y = q * M + r
  BY <1>2, <1>3, <1>4, <1>5
<1>7. p < q
  BY <1>6
<1>8. (p + 1) * M <= q * M /\ (p + 1) * M = p * M + M
  BY <1>7
<1> QED
  BY <1>6, <1>8

LEMMA MinuteApart ==
    ASSUME NEW x \in Nat, NEW y \in Nat, x % MinuteSeconds = y % MinuteSeconds, x < y
    PROVE  y - x >= MinuteSeconds
  BY RestsApart, LogConstants

LEMMA ShownIs ==
    ASSUME NEW count \in [Seconds -> Nat]
    PROVE  \A s \in Seconds : Shown(count)[s] = Capped(count[s]) /\ Shown(count)[s] \in Nat
<1>1. ASSUME NEW s \in Seconds PROVE Shown(count)[s] = Capped(count[s]) /\ Shown(count)[s] \in Nat
  <2>1. Shown(count)[s] = Capped(count[s])
    BY DEF Shown
  <2>2. Capped(count[s]) \in 0..LineMask
    BY CappedIs
  <2> QED
    BY <2>1, <2>2, LogConstants
<1> QED
  BY <1>1

LEMMA SeenIs ==
    ASSUME NEW from \in Nat, NEW to \in Seconds, NEW b
    PROVE  Seen(from, to, b) \subseteq Seconds /\ IsFiniteSet(Seen(from, to, b))
<1>1. Seen(from, to, b) \subseteq Seconds
  BY LogConstants DEF Seen
<1> QED
  <2>1. IsFiniteSet(Seconds)
    BY FS_Interval, LogConstants
  <2> QED
    BY <1>1, <2>1, FS_Subset

\* The next bucket is at most one second's of the minute.
LEMMA SeenOneMore ==
    ASSUME NEW from \in Nat, NEW to \in Seconds, to - from < MinuteSeconds, NEW b \in Places
    PROVE  \/ /\ Seen(from, to, b + 1) = Seen(from, to, b)
              /\ \A s \in from..to : s % MinuteSeconds # b
           \/ \E s \in from..to : /\ s % MinuteSeconds = b /\ s \notin Seen(from, to, b)
                                  /\ Seen(from, to, b + 1) = Seen(from, to, b) \cup {s}
                                  /\ \A r \in from..to : r % MinuteSeconds = b => r = s
<1>0. \A s \in from..to : s \in Nat /\ s % MinuteSeconds \in 0..(MinuteSeconds - 1)
  <2>1. ASSUME NEW s \in from..to PROVE s \in Nat
    BY LogConstants
  <2> QED
    BY <2>1, PlaceOfSecond
<1>1. b \in Nat /\ MinuteSeconds \in Nat
  BY LogConstants
<1>2. Seen(from, to, b + 1) = Seen(from, to, b) \cup {s \in from..to : s % MinuteSeconds = b}
  BY <1>0, <1>1 DEF Seen
<1>3. \A s \in from..to : s % MinuteSeconds = b => s \notin Seen(from, to, b)
  BY <1>1 DEF Seen
<1>4. ASSUME NEW s \in from..to, NEW r \in from..to, s % MinuteSeconds = b, r % MinuteSeconds = b
      PROVE  r = s
  <2>1. s \in Nat /\ r \in Nat /\ to \in Nat /\ from \in Nat
    BY LogConstants
  <2>2. ASSUME s < r PROVE FALSE
    <3>1. r - s >= MinuteSeconds
      BY <1>4, <2>1, <2>2, MinuteApart
    <3> QED
      BY <1>1, <2>1, <3>1
  <2>3. ASSUME r < s PROVE FALSE
    <3>1. s - r >= MinuteSeconds
      BY <1>4, <2>1, <2>3, MinuteApart
    <3> QED
      BY <1>1, <2>1, <3>1
  <2> QED
    BY <2>1, <2>2, <2>3
<1>5. CASE \A s \in from..to : s % MinuteSeconds # b
  BY <1>2, <1>5
<1>6. CASE \E s \in from..to : s % MinuteSeconds = b
  <2>1. PICK s \in from..to : s % MinuteSeconds = b
    BY <1>6
  <2>2. {r \in from..to : r % MinuteSeconds = b} = {s}
    BY <2>1, <1>4
  <2> QED
    BY <1>2, <1>3, <1>4, <2>1, <2>2
<1> QED
  BY <1>5, <1>6

LEMMA BoundsStep ==
    ASSUME NEW from \in Nat, NEW to \in Seconds, to - from < MinuteSeconds, NEW b \in Places,
           NEW count \in [Seconds -> Nat], NEW lines \in Nat, NEW more \in Nat
    PROVE  /\ /\ lines <= SumOf(Shown(count), Seen(from, to, b))
              /\ more = 0 \/ \E s \in from..to : s % MinuteSeconds = b /\ more <= Capped(count[s])
              => lines + more <= SumOf(Shown(count), Seen(from, to, b + 1))
           /\ /\ lines >= SumOf(Shown(count), Seen(from, to, b))
              /\ \A s \in from..to : s % MinuteSeconds = b => more >= Capped(count[s])
              => lines + more >= SumOf(Shown(count), Seen(from, to, b + 1))
<1>1. PICK w : w = Shown(count)
  OBVIOUS
<1>2. PICK T : T = Seen(from, to, b)
  OBVIOUS
<1>3. PICK U : U = Seen(from, to, b + 1)
  OBVIOUS
<1>4. /\ \A s \in from..to : s \in Seconds /\ w[s] = Capped(count[s]) /\ w[s] \in Nat
      /\ IsFiniteSet(T) /\ \A s \in T : w[s] \in Int
  BY LogConstants, <1>1, <1>2, ShownIs, SeenIs
<1>5. SumOf(w, T) \in Int
  BY <1>4, SumIs
<1>6. CASE U = T /\ \A s \in from..to : s % MinuteSeconds # b
  BY <1>1, <1>2, <1>3, <1>5, <1>6
<1>7. ASSUME NEW s \in from..to, s % MinuteSeconds = b, s \notin T, U = T \cup {s},
             \A r \in from..to : r % MinuteSeconds = b => r = s
      PROVE  /\ /\ lines <= SumOf(w, T)
                /\ more = 0 \/ \E r \in from..to : r % MinuteSeconds = b /\ more <= Capped(count[r])
                => lines + more <= SumOf(w, U)
             /\ /\ lines >= SumOf(w, T)
                /\ \A r \in from..to : r % MinuteSeconds = b => more >= Capped(count[r])
                => lines + more >= SumOf(w, U)
  <2>1. SumOf(w, U) = SumOf(w, T) + w[s]
    BY <1>4, <1>7, SumPutsIn
  <2>2. PICK n \in Nat : n = w[s] /\ n = Capped(count[s])
    BY <1>4
  <2> QED
    BY <1>5, <1>7, <2>1, <2>2
<1>8. (U = T /\ \A s \in from..to : s % MinuteSeconds # b)
      \/ \E s \in from..to : /\ s % MinuteSeconds = b /\ s \notin T /\ U = T \cup {s}
                             /\ \A r \in from..to : r % MinuteSeconds = b => r = s
  BY <1>2, <1>3, SeenOneMore
<1> QED
  BY <1>1, <1>2, <1>3, <1>6, <1>7, <1>8

\* A minute later is not more.
LEMMA SumOfLater ==
    ASSUME NEW from \in Nat, NEW to \in Seconds, NEW b, NEW count \in [Seconds -> Nat]
    PROVE  /\ SumOf(Shown(count), Seen(from + 1, to, b)) <= SumOf(Shown(count), Seen(from, to, b))
           /\ SumOf(Shown(count), Seen(from + 1, to, b)) \in Int
           /\ SumOf(Shown(count), Seen(from, to, b)) \in Int
<1>1. PICK w : w = Shown(count)
  OBVIOUS
<1>2. PICK T : T = Seen(from, to, b)
  OBVIOUS
<1>3. IsFiniteSet(T) /\ \A s \in T : w[s] \in Int /\ w[s] >= 0
  BY <1>1, <1>2, ShownIs, SeenIs
<1>4. CASE from \in T
  <2>1. Seen(from + 1, to, b) = T \ {from}
    BY <1>2, LogConstants DEF Seen
  <2>2. /\ SumOf(w, T) = w[from] + SumOf(w, T \ {from})
        /\ SumOf(w, T) \in Int /\ SumOf(w, T \ {from}) \in Int
    BY <1>3, <1>4, SumTakesOut
  <2> QED
    BY <1>1, <1>2, <1>3, <1>4, <2>1, <2>2
<1>5. CASE from \notin T
  <2>1. Seen(from + 1, to, b) = T
    <3>1. \A x \in from..to : x # from => x \in (from + 1)..to
      BY LogConstants
    <3>2. \A x \in (from + 1)..to : x \in from..to
      BY LogConstants
    <3> QED
      BY <1>2, <1>5, <3>1, <3>2 DEF Seen
  <2> QED
    BY <1>1, <1>2, <1>3, <2>1, SumIs
<1> QED
  BY <1>4, <1>5

\* One line more is not less.
LEMMA SumOfMore ==
    ASSUME NEW T, T \subseteq Seconds, IsFiniteSet(T), NEW s \in Seconds,
           NEW count \in [Seconds -> Nat], NEW count2 \in [Seconds -> Nat],
           count2 = [count EXCEPT ![s] = @ + 1]
    PROVE  /\ SumOf(Shown(count), T) <= SumOf(Shown(count2), T)
           /\ SumOf(Shown(count), T) \in Int /\ SumOf(Shown(count2), T) \in Int
<1>1. PICK w : w = Shown(count)
  OBVIOUS
<1>2. PICK v : v = Shown(count2)
  OBVIOUS
<1>3. \A x \in Seconds : w[x] = Capped(count[x]) /\ w[x] \in Nat /\ v[x] = Capped(count2[x]) /\ v[x] \in Nat
  BY <1>1, <1>2, ShownIs
<1>4. \A x \in Seconds : x # s => v[x] = w[x]
  BY <1>3
<1>5. v[s] >= w[s]
  <2>1. PICK n \in Nat : n = count[s] /\ count2[s] = n + 1
    OBVIOUS
  <2>2. Capped(n) <= Capped(n + 1)
    BY <2>1, CappedIs
  <2> QED
    BY <1>3, <2>1, <2>2
<1>6. CASE s \in T
  <2>1. SumOf(v, T) = SumOf(w, T) + v[s] - w[s] /\ SumOf(w, T) \in Int
    <3>1. \A x \in T : w[x] \in Int
      BY <1>3
    <3>2. PICK n \in Int : n = v[s]
      BY <1>3
    <3>3. \A x \in T : x # s => v[x] = w[x]
      BY <1>4
    <3> QED
      BY <1>6, <3>1, <3>2, <3>3, SumChanges
  <2>2. v[s] \in Nat /\ w[s] \in Nat
    BY <1>3
  <2> QED
    BY <1>1, <1>2, <1>5, <2>1, <2>2
<1>7. CASE s \notin T
  <2>1. \A x \in T : w[x] = v[x] /\ w[x] \in Int
    BY <1>3, <1>4, <1>7
  <2>2. SumOf(w, T) = SumOf(v, T) /\ SumOf(w, T) \in Int
    BY <2>1, SumAgrees, SumIs
  <2> QED
    BY <1>1, <1>2, <2>2
<1> QED
  BY <1>6, <1>7

\* When every bucket has been read, the sums are of the whole minute.
LEMMA SumOfAll ==
    ASSUME NEW from \in Nat, NEW to \in Seconds, NEW count \in [Seconds -> Nat]
    PROVE  SumOf(Shown(count), Seen(from, to, MinuteSeconds)) = LinesOf(count, from, to)
<1>1. from..to \subseteq Seconds /\ IsFiniteSet(from..to)
  <2>1. from \in Int /\ to \in Int /\ from..to \subseteq Seconds
    BY LogConstants
  <2> QED
    BY <2>1, FS_Interval
<1>2. Seen(from, to, MinuteSeconds) = from..to
  <2>1. \A s \in from..to : s % MinuteSeconds < MinuteSeconds
    BY LogConstants, PlaceOfSecond
  <2> QED
    BY <2>1 DEF Seen
<1>3. PICK seen : seen = [s \in from..to |-> Min({count[s], LineMask})]
  OBVIOUS
<1>4. \A s \in from..to : Shown(count)[s] = seen[s] /\ Shown(count)[s] \in Int
  BY <1>1, <1>3, ShownIs, CappedIs
<1>5. SumOf(Shown(count), from..to) = SumOf(seen, from..to)
  BY <1>1, <1>4, SumAgrees
<1>6. LinesOf(count, from, to) = SumOf(seen, from..to)
  BY <1>3 DEF LinesOf, SumOf
<1> QED
  BY <1>2, <1>5, <1>6

-----------------------------------------------------------------------------
(* The types, and the lines that are put or on their way.                    *)
LEMMA IdleTypes == IdleWriter \in WriterStates /\ [epoch |-> 0, count |-> 0] \in Words
  BY LogConstants DEF IdleWriter, WriterStates, Words

LEMMA LogTypesAtFirst == LogInit => LogTypes
  BY LogConstants, IdleTypes DEF LogInit, LogTypes, AddingStates, LineCounts

LEMMA ReplacementTyped ==
    ASSUME NEW packed \in Words, NEW s \in Seconds
    PROVE  /\ Replacement(packed, s) \in Words
           /\ Replacement(packed, s).epoch = s
           /\ Replacement(packed, s).count = (IF packed.epoch = s THEN Capped(packed.count + 1) ELSE 1)
<1>1. PICK n \in Nat : n = packed.count
  BY LogConstants DEF Words
<1>2. Min({n + 1, LineMask}) = Capped(n + 1) /\ Capped(n + 1) \in 0..LineMask
  BY CappedIs
<1>3. 1 \in 0..LineMask
  BY LogConstants
<1> QED
  BY <1>1, <1>2, <1>3 DEF Replacement, Words

LEMMA LogTypesKept == LogTypes /\ [LogNext]_logVars => LogTypes'
<1> SUFFICES ASSUME LogTypes, [LogNext]_logVars PROVE LogTypes'
  OBVIOUS
<1>0. /\ second \in Seconds /\ buckets \in [Places -> Words] /\ writers \in [LogThreads -> WriterStates]
      /\ logged \in LineCounts
  BY DEF LogTypes
<1>1. CASE SecondPasses
  BY <1>0, <1>1, LogConstants DEF SecondPasses, LogTypes, AddingStates
<1>2. CASE BeginAdding \/ AddBucket \/ ShowLines
  <2>1. CASE BeginAdding
    <3>1. 0 \in Places /\ 0 \in 0..MinuteSeconds
      BY LogConstants
    <3>2. logged' \in LineCounts
      BY <1>0, <2>1 DEF BeginAdding, LineCounts
    <3> QED
      BY <2>1, <3>1, <3>2, LogConstants DEF BeginAdding, LogTypes, AddingStates
  <2>2. CASE AddBucket
    <3>1. PICK b \in Places : b = adding.bucket
      BY <2>2 DEF AddBucket, LogTypes, AddingStates
    <3>2. PICK n \in Nat : n = (IF IsRecent(buckets[b].epoch, adding.now) THEN buckets[b].count ELSE 0)
      BY <1>0, <3>1, LogConstants DEF Words
    <3>3. /\ adding' = [adding EXCEPT !.lines = @ + n, !.bucket = b + 1,
                                      !.at = IF b = MinuteSeconds - 1 THEN "added" ELSE @]
          /\ UNCHANGED <<buckets, second, writers, logged>>
      BY <2>2, <3>1, <3>2 DEF AddBucket
    <3>4. adding \in AddingStates
      BY DEF LogTypes
    <3>5. b + 1 \in 0..MinuteSeconds /\ (b # MinuteSeconds - 1 => b + 1 \in Places)
      BY LogConstants
    <3>6. adding.at = "adding"
      BY <2>2 DEF AddBucket
    <3>7. /\ adding' \in AddingStates
          /\ adding'.now = adding.now /\ adding'.bucket = b + 1
          /\ adding'.at = (IF b = MinuteSeconds - 1 THEN "added" ELSE "adding")
      <4>1. CASE b = MinuteSeconds - 1
        <5>1. adding' = [adding EXCEPT !.lines = @ + n, !.bucket = b + 1, !.at = "added"]
          BY <3>3, <4>1
        <5>2. adding.lines \in Nat /\ adding.lines + n \in Nat /\ adding.now \in Seconds
          BY <3>4 DEF AddingStates
        <5>3. adding' \in AddingStates
          BY <3>4, <3>5, <5>1, <5>2 DEF AddingStates
        <5> QED
          BY <3>4, <4>1, <5>1, <5>3 DEF AddingStates
      <4>2. CASE b # MinuteSeconds - 1
        <5>1. adding' = [adding EXCEPT !.lines = @ + n, !.bucket = b + 1]
          BY <3>3, <3>4, <4>2 DEF AddingStates
        <5>2. adding.lines \in Nat /\ adding.lines + n \in Nat /\ adding.now \in Seconds
          BY <3>4 DEF AddingStates
        <5>3. adding' \in AddingStates
          BY <3>4, <3>5, <5>1, <5>2 DEF AddingStates
        <5> QED
          BY <3>4, <3>6, <4>2, <5>1, <5>3 DEF AddingStates
      <4> QED
        BY <4>1, <4>2
    <3> QED
      BY <3>3, <3>5, <3>7, LogConstants DEF LogTypes
  <2>3. CASE ShowLines
    <3>1. 0 \in Seconds /\ 0 \in 0..MinuteSeconds
      BY LogConstants
    <3>2. adding' \in AddingStates /\ adding'.now = 0 /\ adding'.at = "idle"
      BY <2>3, <3>1 DEF ShowLines, LogTypes, AddingStates
    <3> QED
      BY <1>0, <2>3, <3>2, LogConstants DEF ShowLines, LogTypes
  <2> QED
    BY <1>2, <2>1, <2>2, <2>3
<1>3. ASSUME NEW t \in LogThreads,
             (\E severity \in DOMAIN LogLevels : WriteLine(t, severity)) \/ LoadBucket(t) \/ ExchangeBucket(t)
      PROVE  LogTypes'
  <2>1. CASE \E severity \in DOMAIN LogLevels : WriteLine(t, severity)
    <3>1. logged' \in LineCounts
      <4>1. logged' = [logged EXCEPT !.read[second] = @ + 1]
        BY <2>1 DEF WriteLine
      <4> QED
        BY <1>0, <4>1 DEF LineCounts
    <3>2. writers' \in [LogThreads -> WriterStates]
      <4>1. [IdleWriter EXCEPT !.at = "load", !.second = second] \in WriterStates
        BY <1>0, IdleTypes DEF WriterStates
      <4> QED
        BY <1>0, <2>1, <4>1 DEF WriteLine
    <3> QED
      BY <2>1, <3>1, <3>2 DEF WriteLine, LogTypes
  <2>2. CASE LoadBucket(t)
    <3>1. PICK word \in Words : word = buckets[writers[t].second % MinuteSeconds]
      <4>1. writers[t].second \in Nat
        BY <1>0, LogConstants DEF WriterStates
      <4> QED
        BY <1>0, <4>1, PlaceOfSecond, LogConstants
    <3>2. writers' = [writers EXCEPT ![t].at = "exchange", ![t].packed = word]
      BY <2>2, <3>1 DEF LoadBucket
    <3>3. writers' \in [LogThreads -> WriterStates]
      BY <1>0, <3>2 DEF WriterStates
    <3> QED
      BY <2>2, <3>3 DEF LoadBucket, LogTypes
  <2>3. CASE ExchangeBucket(t)
    <3>1. PICK s \in Seconds : s = writers[t].second
      BY <1>0 DEF WriterStates
    <3>2. PICK b \in Places : b = s % MinuteSeconds
      <4>1. s \in Nat
        BY LogConstants
      <4> QED
        BY <4>1, PlaceOfSecond, LogConstants
    <3>3. PICK word \in Words : word = buckets[b]
      BY <1>0
    <3>4. /\ \/ /\ buckets' = [buckets EXCEPT ![b] = Replacement(@, s)]
                /\ logged' = [logged EXCEPT !.put[s] = @ + 1, !.overdue = @ \/ word.epoch > s]
                /\ writers' = [writers EXCEPT ![t] = IdleWriter]
             \/ /\ writers' = [writers EXCEPT ![t].packed = word]
                /\ UNCHANGED <<buckets, logged>>
          /\ UNCHANGED <<second, adding>>
      BY <2>3, <3>1, <3>2, <3>3 DEF ExchangeBucket
    <3>5. Replacement(buckets[b], s) \in Words /\ IdleWriter \in WriterStates
      BY <3>3, ReplacementTyped, IdleTypes
    <3>6. writers' \in [LogThreads -> WriterStates] /\ buckets' \in [Places -> Words]
      BY <1>0, <3>4, <3>5, SMTT(30) DEF WriterStates
    <3>7. logged' \in LineCounts
      <4>1. PICK overdue \in BOOLEAN : overdue = (logged.overdue \/ word.epoch > s)
        OBVIOUS
      <4>2. logged' = logged \/ logged' = [logged EXCEPT !.put = [logged.put EXCEPT ![s] = @ + 1],
                                                        !.overdue = overdue]
        BY <1>0, <3>4, <4>1 DEF LineCounts
      <4>3. [logged.put EXCEPT ![s] = @ + 1] \in [Seconds -> Nat]
        BY <1>0 DEF LineCounts
      <4> QED
        BY <1>0, <4>2, <4>3 DEF LineCounts
    <3> QED
      BY <3>4, <3>6, <3>7 DEF LogTypes
  <2> QED
    BY <1>3, <2>1, <2>2, <2>3
<1>4. CASE (\E level \in DOMAIN LogLevels : SetLevel(level)) \/ InstallLog \/ UNCHANGED logVars
  BY <1>4 DEF SetLevel, InstallLog, logVars, LogTypes
<1> QED
  BY <1>1, <1>2, <1>3, <1>4 DEF LogNext

LEMMA WritingIs ==
    ASSUME NEW w, NEW s
    PROVE  IsFiniteSet(Writing(w, s)) /\ Cardinality(Writing(w, s)) \in Nat
  BY LogConstants, FS_Subset, FS_CardinalityType DEF Writing

LEMMA LineBegun ==
    ASSUME NEW w \in [LogThreads -> WriterStates], NEW t \in LogThreads, w[t].at = "idle",
           NEW r \in WriterStates, r.at # "idle", NEW read \in [Seconds -> Nat], NEW put \in [Seconds -> Nat],
           \A s \in Seconds : LinesFit(w, read, put, s)
    PROVE  \A s \in Seconds :
              LinesFit([w EXCEPT ![t] = r], [read EXCEPT ![r.second] = @ + 1], put, s)
<1>1. PICK v : v = [w EXCEPT ![t] = r]
  OBVIOUS
<1>2. PICK e \in Seconds : e = r.second
  BY DEF WriterStates
<1>3. v[t] = r /\ \A u \in LogThreads : u # t => v[u] = w[u]
  BY <1>1
<1>4. Writing(v, e) = Writing(w, e) \cup {t} /\ t \notin Writing(w, e)
  BY <1>2, <1>3 DEF Writing
<1>5. Cardinality(Writing(v, e)) = Cardinality(Writing(w, e)) + 1
  BY <1>4, WritingIs, CountOneMore
<1>6. ASSUME NEW s \in Seconds, s # e PROVE Writing(v, s) = Writing(w, s)
  BY <1>2, <1>3, <1>6 DEF Writing
<1>7. \A s \in Seconds : LinesFit(v, [read EXCEPT ![e] = @ + 1], put, s)
  BY <1>5, WritingIs, <1>6 DEF LinesFit
<1> QED
  BY <1>1, <1>2, <1>7

LEMMA LinePut ==
    ASSUME NEW w \in [LogThreads -> WriterStates], NEW t \in LogThreads, w[t].at # "idle",
           NEW r \in WriterStates, r.at = "idle", NEW read \in [Seconds -> Nat], NEW put \in [Seconds -> Nat],
           \A s \in Seconds : LinesFit(w, read, put, s)
    PROVE  \A s \in Seconds :
              LinesFit([w EXCEPT ![t] = r], read, [put EXCEPT ![w[t].second] = @ + 1], s)
<1>1. PICK v : v = [w EXCEPT ![t] = r]
  OBVIOUS
<1>2. PICK e \in Seconds : e = w[t].second
  BY DEF WriterStates
<1>3. v[t] = r /\ \A u \in LogThreads : u # t => v[u] = w[u]
  BY <1>1
<1>4. Writing(v, e) = Writing(w, e) \ {t} /\ t \in Writing(w, e)
  BY <1>2, <1>3 DEF Writing
<1>5. Cardinality(Writing(w, e)) = Cardinality(Writing(v, e)) + 1
  BY <1>4, WritingIs, CountOneLess
<1>6. ASSUME NEW s \in Seconds, s # e PROVE Writing(v, s) = Writing(w, s)
  BY <1>2, <1>3, <1>6 DEF Writing
<1>7. \A s \in Seconds : LinesFit(v, read, [put EXCEPT ![e] = @ + 1], s)
  BY <1>5, WritingIs, <1>6 DEF LinesFit
<1> QED
  BY <1>1, <1>2, <1>7

LEMMA LinesTyped ==
    LogTypes => /\ second \in Seconds /\ buckets \in [Places -> Words] /\ writers \in [LogThreads -> WriterStates]
                /\ logged.read \in [Seconds -> Nat] /\ logged.put \in [Seconds -> Nat]
                /\ logged.before \in [Seconds -> Nat] /\ logged.overdue \in BOOLEAN
  BY DEF LogTypes, LineCounts

LEMMA LinePartAtFirst == LogInit => LinePart
<1> SUFFICES ASSUME LogInit PROVE LinePart
  OBVIOUS
<1>1. \A t \in LogThreads : writers[t].second <= second /\ writers[t].at = "idle"
  BY LogConstants DEF LogInit, IdleWriter
<1>2. ASSUME NEW s \in Seconds PROVE LinesFit(writers, logged.read, logged.put, s)
  BY <1>1, FS_EmptySet DEF Writing, LogInit, LinesFit
<1> QED
  BY <1>1, <1>2 DEF LinePart

\* What a step of a thread does to its place, the buckets and the lines.
Begins(t) ==
    /\ writers[t].at = "idle"
    /\ writers' = [writers EXCEPT ![t] = [IdleWriter EXCEPT !.at = "load", !.second = second]]
    /\ logged' = [logged EXCEPT !.read = [logged.read EXCEPT ![second] = @ + 1]]
    /\ UNCHANGED <<buckets, second, adding>>
Loads(t) ==
    /\ writers[t].at # "idle"
    /\ \E word \in Words : writers' = [writers EXCEPT ![t].at = "exchange", ![t].packed = word]
    /\ UNCHANGED <<buckets, second, adding, logged>>
Puts(t, s, b) ==
    /\ writers[t].at # "idle" /\ writers[t].second = s /\ b = s % MinuteSeconds
    /\ buckets' = [buckets EXCEPT ![b] = Replacement(@, s)]
    /\ logged' = [logged EXCEPT !.put = [logged.put EXCEPT ![s] = @ + 1],
                                !.overdue = (logged.overdue \/ buckets[b].epoch > s)]
    /\ writers' = [writers EXCEPT ![t] = IdleWriter]
    /\ UNCHANGED <<second, adding>>

LEMMA WriterSteps ==
    ASSUME LogTypes, NEW t \in LogThreads,
           (\E severity \in DOMAIN LogLevels : WriteLine(t, severity)) \/ LoadBucket(t) \/ ExchangeBucket(t)
    PROVE  Begins(t) \/ Loads(t) \/ \E s \in Seconds, b \in Places : Puts(t, s, b)
<1>0. second \in Seconds /\ buckets \in [Places -> Words] /\ writers \in [LogThreads -> WriterStates]
  BY LinesTyped
<1>1. CASE \E severity \in DOMAIN LogLevels : WriteLine(t, severity)
  BY <1>1 DEF WriteLine, LogTypes, LineCounts, Begins
<1>2. PICK s \in Seconds : s = writers[t].second
  BY <1>0 DEF WriterStates
<1>3. PICK b \in Places : b = s % MinuteSeconds
  <2>1. s \in Nat
    BY LogConstants
  <2> QED
    BY <2>1, PlaceOfSecond, LogConstants
<1>4. PICK word \in Words : word = buckets[b]
  BY <1>0
<1>5. CASE LoadBucket(t)
  BY <1>2, <1>3, <1>4, <1>5 DEF LoadBucket, Loads
<1>6. CASE ExchangeBucket(t)
  <2>1. writers[t].at = "exchange" /\ UNCHANGED <<second, adding>>
    BY <1>6 DEF ExchangeBucket
  <2>2. \/ /\ buckets' = [buckets EXCEPT ![b] = Replacement(@, s)]
           /\ logged' = [logged EXCEPT !.put[s] = @ + 1, !.overdue = @ \/ buckets[b].epoch > s]
           /\ writers' = [writers EXCEPT ![t] = IdleWriter]
        \/ /\ writers' = [writers EXCEPT ![t].packed = word]
           /\ UNCHANGED <<buckets, logged>>
    BY <1>2, <1>3, <1>4, <1>6 DEF ExchangeBucket
  <2>3. CASE writers' = [writers EXCEPT ![t].packed = word] /\ UNCHANGED <<buckets, logged>>
    BY <1>0, <2>1, <2>3 DEF WriterStates, Loads
  <2>4. CASE /\ buckets' = [buckets EXCEPT ![b] = Replacement(@, s)]
             /\ logged' = [logged EXCEPT !.put[s] = @ + 1, !.overdue = @ \/ buckets[b].epoch > s]
             /\ writers' = [writers EXCEPT ![t] = IdleWriter]
    BY <2>4, <1>2, <1>3, <2>1 DEF LogTypes, LineCounts, Puts
  <2> QED
    BY <2>2, <2>3, <2>4
<1> QED
  BY <1>1, <1>5, <1>6

LEMMA LinePartKept == LogTypes /\ LinePart /\ [LogNext]_logVars => LinePart'
<1> SUFFICES ASSUME LogTypes, LinePart, [LogNext]_logVars PROVE LinePart'
  OBVIOUS
<1>0. /\ second \in Seconds /\ writers \in [LogThreads -> WriterStates]
      /\ logged.read \in [Seconds -> Nat] /\ logged.put \in [Seconds -> Nat]
      /\ logged \in LineCounts
  BY LinesTyped DEF LogTypes
<1>1. CASE SecondPasses
  BY <1>0, LogConstants, <1>1 DEF WriterStates, SecondPasses, LinePart
<1>2. ASSUME NEW t \in LogThreads, Begins(t) PROVE LinePart'
  <2>1. PICK r \in WriterStates : r = [IdleWriter EXCEPT !.at = "load", !.second = second]
    BY <1>0, IdleTypes DEF WriterStates
  <2>2. r.at # "idle" /\ r.second = second
    BY <2>1, IdleTypes DEF WriterStates
  <2>3. \A s \in Seconds : LinesFit([writers EXCEPT ![t] = r], [logged.read EXCEPT ![r.second] = @ + 1], logged.put, s)
    BY <1>0, <1>2, <2>2, LineBegun DEF Begins, LinePart
  <2>4. logged'.read = [logged.read EXCEPT ![r.second] = @ + 1] /\ logged'.put = logged.put
    BY <1>0, <1>2, <2>2 DEF Begins, LineCounts
  <2>5. writers' = [writers EXCEPT ![t] = r] /\ second' = second
    BY <1>2, <2>1 DEF Begins
  <2>6. \A s \in Seconds : LinesFit(writers', logged'.read, logged'.put, s)
    BY <2>3, <2>4, <2>5
  <2>7. \A u \in LogThreads : writers'[u].second <= second'
    BY <1>0, <2>2, <2>5, LogConstants DEF LinePart
  <2> QED
    BY <2>6, <2>7 DEF LinePart
<1>3. ASSUME NEW t \in LogThreads, Loads(t) PROVE LinePart'
  <2>1. \A u \in LogThreads : writers'[u].second = writers[u].second /\ (writers'[u].at = "idle" <=> writers[u].at = "idle")
    BY <1>0, <1>3 DEF Loads, WriterStates
  <2>2. ASSUME NEW s \in Seconds PROVE LinesFit(writers', logged'.read, logged'.put, s)
    <3>1. Writing(writers', s) = Writing(writers, s)
      BY <2>1 DEF Writing
    <3> QED
      BY <1>3, <3>1 DEF Loads, LinePart, LinesFit
  <2> QED
    BY <1>3, <2>1, <2>2 DEF Loads, LinePart
<1>4. ASSUME NEW t \in LogThreads, NEW s \in Seconds, NEW b \in Places, Puts(t, s, b) PROVE LinePart'
  <2>1. /\ writers[t].at # "idle" /\ writers[t].second = s
        /\ writers' = [writers EXCEPT ![t] = IdleWriter] /\ second' = second
    BY <1>4 DEF Puts
  <2>2. IdleWriter \in WriterStates /\ IdleWriter.at = "idle" /\ IdleWriter.second = 0
    BY IdleTypes DEF IdleWriter
  <2>3. \A x \in Seconds : LinesFit([writers EXCEPT ![t] = IdleWriter], logged.read,
                                    [logged.put EXCEPT ![writers[t].second] = @ + 1], x)
    BY <1>0, <2>1, <2>2, LinePut DEF LinePart
  <2>4. logged'.read = logged.read /\ logged'.put = [logged.put EXCEPT ![s] = @ + 1]
    BY <1>0, <1>4 DEF Puts, LineCounts
  <2>5. \A x \in Seconds : LinesFit(writers', logged'.read, logged'.put, x)
    BY <2>1, <2>3, <2>4
  <2>6. \A u \in LogThreads : writers'[u].second <= second'
    BY <1>0, <2>1, <2>2, LogConstants DEF LinePart
  <2> QED
    BY <2>5, <2>6 DEF LinePart
<1>5. CASE BeginAdding
  BY <1>0, <1>5 DEF BeginAdding, LineCounts, LinePart
<1>6. CASE (\E level \in DOMAIN LogLevels : SetLevel(level)) \/ InstallLog \/ AddBucket \/ ShowLines \/ UNCHANGED logVars
  BY <1>6 DEF SetLevel, InstallLog, logVars, AddBucket, ShowLines, LinePart
<1> QED
  BY <1>1, <1>2, <1>3, <1>4, <1>5, <1>6, WriterSteps DEF LogNext

LEMMA BucketPartAtFirst == LogInit => BucketPart
<1> SUFFICES ASSUME LogInit PROVE BucketPart
  OBVIOUS
<1>0. 0 \in Seconds /\ Capped(0) = 0
  BY LogConstants DEF Capped
<1>1. /\ \A b \in Places : buckets[b] = [epoch |-> 0, count |-> 0]
      /\ \A s \in Seconds : logged.put[s] = 0
      /\ second = 0
  BY DEF LogInit
<1>2. \A s \in Seconds : s % MinuteSeconds \in Places
  BY PlaceOf
<1>3. \A b \in Places : WordFits(buckets[b], b, logged.put, second)
  BY <1>0, <1>1 DEF WordFits
<1>4. \A s \in Seconds : KeepsSecond(buckets[s % MinuteSeconds], logged.put, s)
  BY <1>0, <1>1, <1>2 DEF KeepsSecond
<1> QED
  BY <1>3, <1>4 DEF BucketPart

LEMMA WordReplaced ==
    ASSUME NEW word \in Words, NEW s \in Seconds, NEW now \in Seconds, s <= now, NEW put \in [Seconds -> Nat],
           WordFits(word, s % MinuteSeconds, put, now)
    PROVE  /\ WordFits(Replacement(word, s), s % MinuteSeconds, [put EXCEPT ![s] = @ + 1], now)
           /\ KeepsSecond(word, put, s) /\ word.epoch <= s
              => KeepsSecond(Replacement(word, s), [put EXCEPT ![s] = @ + 1], s)
<1>1. PICK new \in Words : new = Replacement(word, s)
  BY ReplacementTyped
<1>2. PICK put2 \in [Seconds -> Nat] : put2 = [put EXCEPT ![s] = @ + 1]
  <2>1. [put EXCEPT ![s] = @ + 1] \in [Seconds -> Nat]
    OBVIOUS
  <2> QED
    BY <2>1
<1>3. PICK p \in Nat : p = put[s] /\ put2[s] = p + 1
  BY <1>2
<1>4. PICK c \in Nat, e \in Nat : c = word.count /\ e = word.epoch
  BY LogConstants DEF Words
<1>5. new.epoch = s /\ new.count = (IF e = s THEN Capped(c + 1) ELSE 1)
  BY <1>1, <1>4, ReplacementTyped
<1>6. /\ Capped(c + 1) > 0 /\ Capped(p + 1) >= 1 /\ Capped(c + 1) \in Nat /\ Capped(p + 1) \in Nat
      /\ \A m, n \in Nat : m <= n => Capped(m + 1) <= Capped(n + 1)
      /\ Capped(Capped(p) + 1) = Capped(p + 1) /\ Capped(p) <= p /\ Capped(p) \in Nat /\ Capped(1) = 1
  BY LogConstants DEF Capped
<1>7. e = s => c <= Capped(p)
  BY <1>3, <1>4 DEF WordFits
<1>8. new.count # 0 /\ new.count <= Capped(p + 1)
  BY <1>5, <1>6, <1>7
<1>9. WordFits(new, s % MinuteSeconds, put2, now)
  BY <1>3, <1>5, <1>8 DEF WordFits
<1>10. ASSUME KeepsSecond(word, put, s), e <= s PROVE KeepsSecond(new, put2, s)
  <2>1. e = s => c = Capped(p)
    BY <1>3, <1>4, <1>10 DEF KeepsSecond
  <2>2. e # s => p = 0
    BY <1>3, <1>4, <1>10, LogConstants DEF KeepsSecond
  <2>3. new.count = Capped(p + 1)
    BY <1>5, <1>6, <2>1, <2>2
  <2> QED
    BY <1>3, <1>5, <2>3, LogConstants DEF KeepsSecond
<1> QED
  BY <1>1, <1>2, <1>4, <1>9, <1>10

LEMMA BucketPartKept == LogTypes /\ LinePart /\ BucketPart /\ [LogNext]_logVars => BucketPart'
<1> SUFFICES ASSUME LogTypes, LinePart, BucketPart, [LogNext]_logVars PROVE BucketPart'
  OBVIOUS
<1>0. /\ second \in Seconds /\ buckets \in [Places -> Words] /\ logged.put \in [Seconds -> Nat]
      /\ logged \in LineCounts
  BY LinesTyped DEF LogTypes
<1>1. CASE SecondPasses
  BY <1>0, LogConstants, <1>1 DEF Words, SecondPasses, BucketPart, WordFits
<1>2. ASSUME UNCHANGED <<buckets, second>>, logged'.put = logged.put, logged'.overdue = logged.overdue
      PROVE  BucketPart'
  BY <1>2 DEF BucketPart
<1>3. ASSUME NEW t \in LogThreads, Begins(t) \/ Loads(t) PROVE BucketPart'
  BY <1>0, <1>3, <1>2 DEF Begins, Loads, LineCounts
<1>4. ASSUME NEW t \in LogThreads, NEW s \in Seconds, NEW b \in Places, Puts(t, s, b) PROVE BucketPart'
  <2>1. PICK word \in Words : word = buckets[b]
    BY <1>0
  <2>2. PICK put \in [Seconds -> Nat] : put = logged.put
    BY <1>0
  <2>3. PICK put2 \in [Seconds -> Nat] : put2 = [put EXCEPT ![s] = @ + 1]
    <3>1. [put EXCEPT ![s] = @ + 1] \in [Seconds -> Nat]
      OBVIOUS
    <3> QED
      BY <3>1
  <2>4. /\ b = s % MinuteSeconds /\ second' = second /\ s <= second
        /\ buckets' = [buckets EXCEPT ![b] = Replacement(word, s)]
        /\ logged'.put = put2 /\ (logged'.overdue <=> logged.overdue \/ word.epoch > s)
    BY <1>0, <1>4, <2>1, <2>2, <2>3 DEF Puts, LinePart, LineCounts
  <2>5. WordFits(word, b, put, second)
    BY <2>1, <2>2 DEF BucketPart
  <2>6. PICK new \in Words : new = Replacement(word, s)
    BY ReplacementTyped
  <2>7. /\ WordFits(new, b, put2, second)
        /\ KeepsSecond(word, put, s) /\ word.epoch <= s => KeepsSecond(new, put2, s)
    <3>1. WordFits(word, s % MinuteSeconds, put, second)
      BY <2>4, <2>5
    <3>2. /\ WordFits(Replacement(word, s), s % MinuteSeconds, [put EXCEPT ![s] = @ + 1], second)
          /\ KeepsSecond(word, put, s) /\ word.epoch <= s
             => KeepsSecond(Replacement(word, s), [put EXCEPT ![s] = @ + 1], s)
      BY <1>0, <2>4, <3>1, WordReplaced
    <3> QED
      BY <2>3, <2>4, <2>6, <3>2
  <2>8. buckets'[b] = new /\ \A c \in Places : c # b => buckets'[c] = buckets[c]
    BY <1>0, <2>4, <2>6
  <2>9. ASSUME NEW c \in Places, c # b PROVE WordFits(buckets[c], c, put2, second)
    <3>1. PICK other \in Words : other = buckets[c]
      BY <1>0
    <3>2. PICK e \in Seconds : e = other.epoch
      BY DEF Words
    <3>3. put[e] <= put2[e] /\ put[e] \in Nat /\ put2[e] \in Nat
      BY <2>3
    <3>4. Capped(put[e]) <= Capped(put2[e]) /\ Capped(put[e]) \in 0..LineMask /\ Capped(put2[e]) \in 0..LineMask
      BY <3>3, CappedIs
    <3>5. other.count \in Int
      BY LogConstants DEF Words
    <3>6. WordFits(other, c, put, second)
      BY <2>2, <3>1 DEF BucketPart
    <3>7. WordFits(other, c, put2, second)
      BY <3>2, <3>4, <3>5, <3>6, LogConstants DEF WordFits
    <3> QED
      BY <3>1, <3>7
  <2>10. \A c \in Places : WordFits(buckets'[c], c, put2, second)
    BY <2>7, <2>8, <2>9
  <2>11. ASSUME ~logged'.overdue, NEW x \in Seconds PROVE KeepsSecond(buckets'[x % MinuteSeconds], put2, x)
    <3>1. ~logged.overdue /\ word.epoch <= s
      BY <2>4, <2>11, LogConstants DEF Words
    <3>2. KeepsSecond(buckets[x % MinuteSeconds], put, x) /\ KeepsSecond(word, put, s)
      BY <2>1, <2>2, <2>4, <3>1 DEF BucketPart
    <3>3. PICK c \in Places : c = x % MinuteSeconds
      BY PlaceOf
    <3>4. CASE x = s
      BY <2>4, <2>7, <2>8, <3>1, <3>2, <3>4
    <3>5. CASE x # s
      <4>1. put2[x] = put[x]
        BY <2>3, <3>5
      <4>2. CASE c # b
        BY <2>8, <3>2, <3>3, <4>1, <4>2 DEF KeepsSecond
      <4>3. CASE c = b
        <5>1. new.epoch = s
          BY <2>6, ReplacementTyped
        <5>2. KeepsSecond(word, put, x)
          BY <2>1, <3>2, <3>3, <4>3
        <5>3. KeepsSecond(new, put2, x)
          BY <3>1, <3>5, <4>1, <5>1, <5>2, LogConstants DEF KeepsSecond, Words
        <5> QED
          BY <2>8, <3>3, <4>3, <5>3
      <4> QED
        BY <4>2, <4>3
    <3> QED
      BY <3>4, <3>5
  <2> QED
    BY <2>4, <2>10, <2>11 DEF BucketPart
<1>5. CASE BeginAdding
  BY <1>0, <1>2, <1>5 DEF BeginAdding, LineCounts
<1>6. CASE (\E level \in DOMAIN LogLevels : SetLevel(level)) \/ InstallLog \/ AddBucket \/ ShowLines \/ UNCHANGED logVars
  BY <1>2, <1>6 DEF SetLevel, InstallLog, logVars, AddBucket, ShowLines
<1> QED
  BY <1>1, <1>3, <1>4, <1>5, <1>6, WriterSteps DEF LogNext

-----------------------------------------------------------------------------
(* The addition under way.                                                   *)
LEMMA MoreOfMinute ==
    ASSUME NEW now \in Seconds, NEW sec \in Seconds, now <= sec, NEW b \in Places, NEW word \in Words,
           NEW put \in [Seconds -> Nat], NEW read \in [Seconds -> Nat], NEW before \in [Seconds -> Nat],
           \A s \in Seconds : put[s] <= read[s] /\ before[s] <= put[s], WordFits(word, b, put, sec),
           NEW more \in Nat, more = (IF IsRecent(word.epoch, now) THEN word.count ELSE 0)
    PROVE  /\ more = 0 \/ \E s \in FirstOf(now)..now : s % MinuteSeconds = b /\ more <= Capped(read[s])
           /\ (\A s \in Seconds : KeepsSecond(word, put, s) \/ s % MinuteSeconds # b) =>
              \A s \in FirstOf(sec)..now : s % MinuteSeconds = b => more >= Capped(before[s])
<1>0. PICK e \in Seconds, c \in 0..LineMask : e = word.epoch /\ c = word.count
  BY DEF Words
<1>1. /\ e \in Nat /\ c \in Nat /\ now \in Nat /\ sec \in Nat /\ MinuteSeconds \in Nat
      /\ IsRecent(word.epoch, now) <=> (e <= now /\ now - e < MinuteSeconds)
  <2>1. e \in Nat /\ c \in Nat /\ now \in Nat /\ sec \in Nat /\ MinuteSeconds \in Nat
    BY LogConstants
  <2> QED
    BY <1>0, <2>1 DEF IsRecent
<1>2. e <= sec /\ c <= Capped(put[e]) /\ (c = 0 => e = 0) /\ (c # 0 => e % MinuteSeconds = b)
  BY <1>0 DEF WordFits
<1>3. ASSUME more # 0
      PROVE  \E s \in FirstOf(now)..now : s % MinuteSeconds = b /\ more <= Capped(read[s])
  <2>1. more = c /\ e <= now /\ now - e < MinuteSeconds
    BY <1>0, <1>1, <1>3
  <2>2. e \in FirstOf(now)..now
    <3>1. e \in 0..now
      BY <1>1, <2>1
    <3>2. FirstOf(now) \in 0..now /\ e >= FirstOf(now)
      BY <1>1, <2>1, <3>1, FirstIs
    <3> QED
      BY <1>1, <2>1, <3>2
  <2>3. Capped(put[e]) <= Capped(read[e]) /\ Capped(put[e]) \in 0..LineMask /\ Capped(read[e]) \in 0..LineMask
    BY CappedIs
  <2>4. more <= Capped(read[e])
    <3>1. Capped(put[e]) \in Nat /\ Capped(read[e]) \in Nat
      BY <2>3, LogConstants
    <3> QED
      BY <1>1, <1>2, <2>1, <2>3, <3>1
  <2> QED
    BY <1>2, <1>3, <2>1, <2>2, <2>4
<1>4. ASSUME \A s \in Seconds : KeepsSecond(word, put, s) \/ s % MinuteSeconds # b,
             NEW s \in FirstOf(sec)..now, s % MinuteSeconds = b
      PROVE  more >= Capped(before[s])
  <2>1. s \in Seconds /\ s \in Nat /\ s <= now /\ s >= FirstOf(sec) /\ FirstOf(sec) \in Nat
        /\ sec - FirstOf(sec) < MinuteSeconds
    <3>1. FirstOf(sec) \in 0..sec /\ sec - FirstOf(sec) < MinuteSeconds
      BY <1>1, FirstIs
    <3> QED
      BY <1>1, <3>1, LogConstants, SMTT(30)
  <2>2. PICK p \in Nat, q \in Nat : p = put[s] /\ q = before[s] /\ q <= p
    BY <2>1
  <2>3. Capped(q) <= Capped(p) /\ Capped(q) \in Nat /\ Capped(p) \in Nat /\ Capped(0) = 0
    <3>1. Capped(q) \in 0..LineMask /\ Capped(p) \in 0..LineMask /\ Capped(q) <= Capped(p)
      BY <2>2, CappedIs
    <3>2. Capped(0) = 0
      BY LogConstants DEF Capped
    <3> QED
      BY <3>1, <3>2, LogConstants
  <2>4. CASE p = 0
    BY <2>2, <2>3, <2>4
  <2>5. CASE p > 0
    <3>1. KeepsSecond(word, put, s)
      BY <1>4, <2>1
    <3>2. e >= s /\ (e = s => c = Capped(p))
      BY <1>0, <2>2, <2>5, <3>1 DEF KeepsSecond
    <3>3. e = s
      BY <1>1, <2>1, <3>2, <1>2, <1>4, MinuteApart
    <3>4. IsRecent(word.epoch, now)
      BY <1>1, <2>1, <3>3
    <3> QED
      BY <1>0, <2>2, <2>3, <3>2, <3>3, <3>4
  <2> QED
    BY <2>2, <2>4, <2>5
<1> QED
  BY <1>3, <1>4

LEMMA AddedPartKept == LogTypes /\ LinePart /\ BucketPart /\ AddedPart /\ [LogNext]_logVars => AddedPart'
<1> SUFFICES ASSUME LogTypes, LinePart, BucketPart, AddedPart, [LogNext]_logVars PROVE AddedPart'
  OBVIOUS
<1>0. /\ logged \in LineCounts /\ adding \in AddingStates /\ adding.now <= second
      /\ adding.at = "adding" => adding.bucket \in Places
  BY DEF LogTypes
<1>1. PICK now \in Seconds, b \in 0..MinuteSeconds, lines \in Nat :
          now = adding.now /\ b = adding.bucket /\ lines = adding.lines
  BY <1>0 DEF AddingStates
<1>2. PICK sec \in Seconds : sec = second
  BY LinesTyped
<1>3. PICK read \in [Seconds -> Nat], put \in [Seconds -> Nat], before \in [Seconds -> Nat] :
          read = logged.read /\ put = logged.put /\ before = logged.before
  BY LinesTyped
<1>4. \A s \in Seconds : before[s] <= put[s]
  BY <1>3 DEF AddedPart
<1>5. /\ now \in Nat /\ sec \in Nat /\ now <= sec
      /\ FirstOf(now) \in Nat /\ now - FirstOf(now) < MinuteSeconds
      /\ FirstOf(sec) \in Nat /\ FirstOf(now) <= FirstOf(sec) /\ now - FirstOf(sec) < MinuteSeconds
  <2>1. now \in Nat /\ sec \in Nat /\ now <= sec /\ MinuteSeconds \in Nat
    BY <1>0, <1>1, <1>2, LogConstants
  <2>2. FirstOf(now) \in 0..now /\ now - FirstOf(now) < MinuteSeconds
    BY <2>1, FirstIs
  <2>3. FirstOf(sec) \in 0..sec /\ \A m \in 0..sec : FirstOf(m) <= FirstOf(sec)
    BY <2>1, FirstIs
  <2> QED
    BY <2>1, <2>2, <2>3
<1>6. adding.at # "idle" => AddedFits(lines, FirstOf(now), FirstOf(sec), now, b, read, before, logged.overdue)
  BY <1>1, <1>2, <1>3 DEF AddedPart
<1>7. CASE SecondPasses
  <2>1. second' = sec + 1 /\ UNCHANGED <<adding, logged>>
    BY <1>2, <1>7 DEF SecondPasses
  <2>2. FirstOf(sec + 1) \in {FirstOf(sec), FirstOf(sec) + 1}
    BY <1>5, FirstIs
  <2>3. /\ SumOf(Shown(before), Seen(FirstOf(sec) + 1, now, b)) <= SumOf(Shown(before), Seen(FirstOf(sec), now, b))
        /\ SumOf(Shown(before), Seen(FirstOf(sec) + 1, now, b)) \in Int
        /\ SumOf(Shown(before), Seen(FirstOf(sec), now, b)) \in Int
    BY <1>5, SumOfLater
  <2>4. adding.at # "idle" =>
            AddedFits(lines, FirstOf(now), FirstOf(sec + 1), now, b, read, before, logged.overdue)
    BY <1>6, <2>2, <2>3 DEF AddedFits
  <2> QED
    BY <1>1, <1>3, <1>4, <2>1, <2>4 DEF AddedPart
<1>8. ASSUME NEW t \in LogThreads, Begins(t) PROVE AddedPart'
  <2>1. PICK read2 \in [Seconds -> Nat] : read2 = [read EXCEPT ![sec] = @ + 1]
    <3>1. [read EXCEPT ![sec] = @ + 1] \in [Seconds -> Nat]
      OBVIOUS
    <3> QED
      BY <3>1
  <2>2. /\ logged'.read = read2 /\ logged'.put = put /\ logged'.before = before
        /\ logged'.overdue = logged.overdue /\ UNCHANGED <<adding, second>>
    BY <1>0, <1>2, <1>3, <1>8, <2>1 DEF Begins, LineCounts
  <2>3. PICK T : T = Seen(FirstOf(now), now, b)
    OBVIOUS
  <2>4. T \subseteq Seconds /\ IsFiniteSet(T)
    BY <1>5, <2>3, SeenIs
  <2>5. /\ SumOf(Shown(read), T) <= SumOf(Shown(read2), T)
        /\ SumOf(Shown(read), T) \in Int /\ SumOf(Shown(read2), T) \in Int
    BY <2>1, <2>4, SumOfMore
  <2>6. adding.at # "idle" =>
            AddedFits(lines, FirstOf(now), FirstOf(sec), now, b, read2, before, logged.overdue)
    BY <1>6, <2>3, <2>5 DEF AddedFits
  <2> QED
    BY <1>1, <1>2, <1>4, <2>2, <2>6 DEF AddedPart
<1>9. ASSUME NEW t \in LogThreads, Loads(t) PROVE AddedPart'
  BY <1>9 DEF Loads, AddedPart
<1>10. ASSUME NEW t \in LogThreads, NEW s \in Seconds, NEW c \in Places, Puts(t, s, c) PROVE AddedPart'
  <2>1. PICK put2 : put2 = [put EXCEPT ![s] = @ + 1]
    OBVIOUS
  <2>2. /\ logged'.read = read /\ logged'.put = put2 /\ logged'.before = before
        /\ (logged.overdue => logged'.overdue) /\ UNCHANGED <<adding, second>>
    BY <1>0, <1>3, <1>10, <2>1 DEF Puts, LineCounts
  <2>3. \A x \in Seconds : before[x] <= put2[x]
    BY <1>4, <2>1
  <2>4. adding.at # "idle" =>
            AddedFits(lines, FirstOf(now), FirstOf(sec), now, b, read, before, logged'.overdue)
    BY <1>6, <2>2 DEF AddedFits
  <2> QED
    BY <1>1, <1>2, <2>2, <2>3, <2>4 DEF AddedPart
<1>11. CASE BeginAdding
  <2>1. /\ adding' = [at |-> "adding", bucket |-> 0, now |-> sec, lines |-> 0] /\ second' = sec
        /\ logged'.put = put /\ logged'.before = put
    BY <1>0, <1>2, <1>3, <1>11 DEF BeginAdding, LineCounts
  <2>2. \A x \in Seconds : put[x] <= put[x]
    BY <1>4
  <2>3. Seen(FirstOf(sec), sec, 0) = {}
    BY <1>5, PlaceOfSecond DEF Seen
  <2>4. AddedFits(0, FirstOf(sec), FirstOf(sec), sec, 0, logged'.read, put, logged'.overdue)
    BY <2>3, SumOfNone DEF AddedFits
  <2> QED
    BY <2>1, <2>2, <2>4 DEF AddedPart
<1>12. CASE AddBucket
  <2>1. adding.at = "adding" /\ b \in Places /\ UNCHANGED <<buckets, second, logged>>
    BY <1>0, <1>1, <1>12 DEF AddBucket
  <2>2. PICK word \in Words : word = buckets[b]
    BY <2>1, LinesTyped
  <2>3. PICK more \in Nat : more = (IF IsRecent(word.epoch, now) THEN word.count ELSE 0)
    BY LogConstants DEF Words
  <2>4. adding'.at # "idle" /\ adding'.bucket = b + 1 /\ adding'.now = now /\ adding'.lines = lines + more
    BY <1>0, <1>1, <1>12, <2>1, <2>2, <2>3 DEF AddBucket, AddingStates
  <2>5. \A s \in Seconds : put[s] <= read[s] /\ before[s] <= put[s]
    BY <1>3, <1>4, WritingIs DEF LinePart, LinesFit
  <2>6. WordFits(word, b, put, sec)
    BY <1>2, <1>3, <2>1, <2>2 DEF BucketPart
  <2>7. /\ more = 0 \/ \E s \in FirstOf(now)..now : s % MinuteSeconds = b /\ more <= Capped(read[s])
        /\ (\A s \in Seconds : KeepsSecond(word, put, s) \/ s % MinuteSeconds # b) =>
           \A s \in FirstOf(sec)..now : s % MinuteSeconds = b => more >= Capped(before[s])
    BY <1>5, <2>1, <2>3, <2>5, <2>6, MoreOfMinute, SMTT(30)
  <2>8. AddedFits(lines, FirstOf(now), FirstOf(sec), now, b, read, before, logged.overdue)
    BY <1>6, <2>1
  <2>9. lines + more <= SumOf(Shown(read), Seen(FirstOf(now), now, b + 1))
    BY <1>5, <2>1, <2>7, <2>8, BoundsStep DEF AddedFits
  <2>10. ASSUME ~logged.overdue
         PROVE  lines + more >= SumOf(Shown(before), Seen(FirstOf(sec), now, b + 1))
    BY <1>3, <2>2, <2>10, <1>5, <2>1, <2>7, <2>8, BoundsStep DEF BucketPart, AddedFits
  <2>11. AddedFits(lines + more, FirstOf(now), FirstOf(sec), now, b + 1, read, before, logged.overdue)
    BY <2>9, <2>10 DEF AddedFits
  <2> QED
    BY <1>2, <1>3, <1>4, <2>1, <2>4, <2>11 DEF AddedPart
<1>13. CASE ShowLines
  BY <1>0, <1>13 DEF ShowLines, AddingStates, AddedPart
<1>14. CASE (\E level \in DOMAIN LogLevels : SetLevel(level)) \/ InstallLog \/ UNCHANGED logVars
  BY <1>14 DEF SetLevel, InstallLog, logVars, AddedPart
<1> QED
  BY <1>7, <1>8, <1>9, <1>10, <1>11, <1>12, <1>13, <1>14, WriterSteps DEF LogNext

LogIsRight == LinesAreOfTheMinute /\ BucketsKeepTheirSeconds

LEMMA MinuteThen == LogInv => LogIsRight
<1> SUFFICES ASSUME LogInv PROVE LogIsRight
  OBVIOUS
<1>1. LogTypes /\ BucketPart /\ AddedPart
  BY DEF LogInv
<1>2. BucketsKeepTheirSeconds
  <2>1. ASSUME NEW b \in Places
        PROVE  /\ buckets[b].count # 0 => buckets[b].epoch % MinuteSeconds = b
               /\ buckets[b].count <= logged.put[buckets[b].epoch]
    <3>1. PICK word \in Words : word = buckets[b]
      BY <1>1, LinesTyped
    <3>2. PICK p \in Nat : p = logged.put[word.epoch]
      BY <1>1, LinesTyped DEF Words
    <3>3. WordFits(word, b, logged.put, second)
      BY <1>1, <3>1 DEF BucketPart
    <3>4. Capped(p) <= p /\ Capped(p) \in Nat /\ word.count \in Nat
      BY <3>1, LogConstants DEF Capped, Words
    <3> QED
      BY <3>1, <3>2, <3>3, <3>4 DEF WordFits
  <2> QED
    BY <2>1 DEF BucketsKeepTheirSeconds
<1>3. ASSUME adding.at = "added" PROVE LinesAreOfTheMinute
  <2>1. PICK now \in Seconds : now = adding.now /\ adding.bucket = MinuteSeconds
    BY <1>1, <1>3 DEF LogTypes, AddingStates
  <2>2. PICK sec \in Seconds : sec = second
    BY <1>1, LinesTyped
  <2>3. PICK read \in [Seconds -> Nat], before \in [Seconds -> Nat] : read = logged.read /\ before = logged.before
    BY <1>1, LinesTyped
  <2>4. AddedFits(adding.lines, FirstOf(now), FirstOf(sec), now, MinuteSeconds, read, before, logged.overdue)
    BY <1>1, <1>3, <2>1, <2>2, <2>3 DEF AddedPart
  <2>5. now \in Nat /\ sec \in Nat
    BY LogConstants
  <2>6. /\ FirstOf(now) = Max({0, now - MinuteSeconds + 1}) /\ FirstOf(now) \in Nat
        /\ FirstOf(sec) = Max({0, sec - MinuteSeconds + 1}) /\ FirstOf(sec) \in Nat
    BY <2>5, FirstIs
  <2>7. /\ SumOf(Shown(read), Seen(FirstOf(now), now, MinuteSeconds)) = LinesOf(read, FirstOf(now), now)
        /\ SumOf(Shown(before), Seen(FirstOf(sec), now, MinuteSeconds)) = LinesOf(before, FirstOf(sec), now)
    BY <2>6, SumOfAll
  <2> QED
    BY <2>1, <2>2, <2>3, <2>4, <2>6, <2>7 DEF AddedFits, LinesAreOfTheMinute
<1>4. LinesAreOfTheMinute
  BY <1>3 DEF LinesAreOfTheMinute
<1> QED
  BY <1>2, <1>4 DEF LogIsRight

LEMMA AddedPartAtFirst == LogInit => AddedPart
  BY LogConstants DEF LogInit, AddedPart

(* The part of RowsAddUp about the log: what is seen as the lines of the    *)
(* last minute is at most what was written in it, and at least what had been *)
(* counted when the addition began, less what has passed since; a bucket     *)
(* holds one second's lines, for any threads, levels and length of a minute  *)
(* (AdLogControl.cpp).                                                       *)
THEOREM LinesAlwaysAddUp == LogSpec => []LogIsRight
<1>1. LogInit => LogInv
  BY LogTypesAtFirst, LinePartAtFirst, BucketPartAtFirst, AddedPartAtFirst DEF LogInv
<1>2. LogInv /\ [LogNext]_logVars => LogInv'
  BY LogTypesKept, LinePartKept, BucketPartKept, AddedPartKept DEF LogInv
<1> QED
  BY <1>1, <1>2, MinuteThen, PTL DEF LogSpec

-----------------------------------------------------------------------------
-----------------------------------------------------------------------------
(***************************************************************************)
(* HubTable: the columns are every source's own, each cell is its source's *)
(* for its row, and the page faults drained are those that came.           *)
(*                                                                         *)
(* HubInv adds to the properties what the table is before it is frozen     *)
(* (TablePart), how its sources lie side by side once it is (LaidOut),     *)
(* that a row is at the place of its number in the ring (RowNumbers), and  *)
(* what is known of the last reading of the faults (FaultPart).            *)
(*                                                                         *)
(* Registering the runtime's sources and laying out the table go source by *)
(* source.  Such a run exists and stays in what its steps preserve.        *)
(***************************************************************************)
StepsStay(N, X, start, step) ==
    /\ N \in Nat /\ start \in X[0]
    /\ \A n \in 1..N : \A x \in X[n - 1] : step[n][x] \in X[n]
RunOf(f, N, X, start, step) ==
    /\ DOMAIN f = 0..N /\ f[0] = start
    /\ \A n \in 0..N : f[n] \in X[n]
    /\ \A n \in 1..N : f[n] = step[n][f[n - 1]]
Follows(g, N, X, start, step) ==
    g[0] = start /\ \A n \in 1..N : g[n - 1] \in X[n - 1] => g[n] = step[n][g[n - 1]]

LEMMA RunsOn ==
    ASSUME NEW N, NEW X, NEW start, NEW step, StepsStay(N, X, start, step)
    PROVE  \E f : RunOf(f, N, X, start, step)
<1> DEFINE Upto(f, m) == /\ DOMAIN f = 0..N /\ f[0] = start
                         /\ \A n \in 0..m : f[n] \in X[n]
                         /\ \A n \in 1..m : f[n] = step[n][f[n - 1]]
           bad == {m \in Nat : m <= N /\ ~\E f : Upto(f, m)}
<1>0. /\ N \in Nat /\ start \in X[0]
      /\ \A n \in 1..N : \A x \in X[n - 1] : step[n][x] \in X[n]
  BY DEF StepsStay
<1>1. bad = {}
  <2>1. SUFFICES ASSUME bad # {} PROVE FALSE
    OBVIOUS
  <2>2. PICK m \in bad : \A k \in bad : m <= k
    <3>1. bad \subseteq Nat
      OBVIOUS
    <3> HIDE DEF bad
    <3> QED
      BY <2>1, <3>1, LeastOf
  <2>3. CASE m = 0
    <3>1. Upto([n \in 0..N |-> start], 0)
      BY <1>0
    <3> QED
      BY <2>2, <2>3, <3>1
  <2>4. CASE m # 0
    <3>0. m \in Nat /\ m <= N /\ m - 1 \in Nat /\ m - 1 <= N
      BY <1>0, <2>2, <2>4
    <3>1. m \in 1..N /\ m - 1 \in 0..N /\ m - 1 \notin bad
      <4> HIDE DEF bad
      <4> QED
        BY <1>0, <2>2, <2>4, <3>0
    <3>2. PICK f : Upto(f, m - 1)
      <4> HIDE DEF Upto
      <4> QED
        BY <3>0, <3>1
    <3>3. PICK g : g = [n \in 0..N |-> IF n = m THEN step[m][f[m - 1]] ELSE f[n]]
      OBVIOUS
    <3>4. f[m - 1] \in X[m - 1]
      BY <3>1, <3>2
    <3>5. /\ DOMAIN g = 0..N /\ g[m] = step[m][f[m - 1]] /\ g[m] \in X[m]
          /\ \A n \in 0..(m - 1) : g[n] = f[n]
      BY <1>0, <3>1, <3>3, <3>4
    <3>6. Upto(g, m)
      <4>1. g[0] = start
        BY <3>1, <3>2, <3>5
      <4>2. \A n \in 0..m : g[n] \in X[n]
        BY <3>1, <3>2, <3>5
      <4>3. ASSUME NEW n \in 1..m PROVE g[n] = step[n][g[n - 1]]
        BY <3>1, <3>5, <3>2
      <4> QED
        BY <3>5, <4>1, <4>2, <4>3
    <3> QED
      BY <2>2, <3>6
  <2> QED
    BY <2>3, <2>4
<1>2. PICK f : Upto(f, N)
  <2> HIDE DEF Upto
  <2> QED
    BY <1>0, <1>1
<1> QED
  BY <1>2 DEF RunOf

\* And there is one only.
LEMMA RunsAlike ==
    ASSUME NEW N \in Nat, NEW X, NEW start, NEW step, NEW f, NEW g,
           RunOf(f, N, X, start, step), Follows(g, N, X, start, step)
    PROVE  g[N] = f[N] /\ f[N] \in X[N]
<1> DEFINE bad == {n \in Nat : n <= N /\ g[n] # f[n]}
<1>0. /\ f[0] = g[0]
      /\ \A n \in 0..N : f[n] \in X[n]
      /\ \A n \in 1..N : f[n] = step[n][f[n - 1]]
      /\ \A n \in 1..N : g[n - 1] \in X[n - 1] => g[n] = step[n][g[n - 1]]
  BY DEF RunOf, Follows
<1>1. SUFFICES ASSUME bad # {} PROVE FALSE
  BY <1>0
<1>2. PICK m \in bad : \A k \in bad : m <= k
  <2>1. bad \subseteq Nat
    OBVIOUS
  <2> HIDE DEF bad
  <2> QED
    BY <1>1, <2>1, LeastOf
<1>3. m \in 1..N /\ m - 1 \in 0..N /\ m - 1 \notin bad
  BY <1>0, <1>2
<1>4. g[m - 1] = f[m - 1] /\ f[m - 1] \in X[m - 1]
  BY <1>0, <1>3
<1> QED
  BY <1>0, <1>2, <1>3, <1>4

(* What the constants are.                                                   *)
Src == ModuleSources \cup Range(RuntimeSources)
AllKeys == UNION {Range(SchemaOf[s]) : s \in Src}
EntryStates == [source : Src, offset : Nat, count : Nat, seriesOffset : Nat]

LEMMA HubConstants ==
    /\ HistoryRows \in Nat \ {0} /\ FaultWord \in Nat \ {0} /\ MaxCollections \in Nat
    /\ Len(RuntimeSources) \in Nat
    /\ \A n \in 1..Len(RuntimeSources) : RuntimeSources[n] \in Src
    /\ \A s \in Src : SeriesCapacityOf[s] \in Nat
<1>1. \A n \in 1..Len(RuntimeSources) : RuntimeSources[n] \in Src
  <2>1. PICK R : R = Range(RuntimeSources)
    OBVIOUS
  <2>2. RuntimeSources \in Seq(R) /\ R \subseteq Src
    BY <2>1, HubTableAssumption DEF Src
  <2> QED
    BY <2>2
<1>2. Len(RuntimeSources) \in Nat
  <2>1. PICK R : RuntimeSources \in Seq(R)
    BY HubTableAssumption
  <2> QED
    BY <2>1
<1> QED
  BY <1>1, <1>2, HubTableAssumption DEF Src

LEMMA SchemaIs ==
    ASSUME NEW s \in Src
    PROVE  /\ SchemaOf[s] \in Seq(AllKeys) /\ Len(SchemaOf[s]) \in Nat
           /\ DOMAIN SchemaOf[s] = 1..Len(SchemaOf[s])
           /\ \A p \in 1..Len(SchemaOf[s]) : SchemaOf[s][p] \in Range(SchemaOf[s])
           /\ \A p, q \in 1..Len(SchemaOf[s]) : SchemaOf[s][p] = SchemaOf[s][q] => p = q
<1>1. SchemaOf[s] \in Seq(Range(SchemaOf[s])) /\ IsInjective(SchemaOf[s])
  BY HubTableAssumption DEF Src
<1>2. PICK schema : schema = SchemaOf[s]
  OBVIOUS
<1>3. Range(schema) \subseteq AllKeys
  BY <1>2 DEF AllKeys
<1>4. schema \in Seq(Range(schema)) /\ IsInjective(schema)
  BY <1>1, <1>2
<1>5. /\ Len(schema) \in Nat /\ DOMAIN schema = 1..Len(schema)
      /\ \A p \in 1..Len(schema) : schema[p] \in Range(schema)
  BY <1>4 DEF Range
<1>6. schema \in Seq(AllKeys)
  BY <1>3, <1>4, <1>5
<1> QED
  BY <1>2, <1>4, <1>5, <1>6 DEF IsInjective

(* No two of a table's sources share a key.                                  *)
KeysApart(t) ==
    \A i, j \in 1..Len(t) :
        i # j => Range(SchemaOf[t[i].source]) \cap Range(SchemaOf[t[j].source]) = {}

LEMMA RegisterKeeps ==
    ASSUME NEW t \in Seq(EntryStates), KeysApart(t), NEW s \in Src
    PROVE  /\ RegisterSource(t, s) \in Seq(EntryStates)
           /\ KeysApart(RegisterSource(t, s))
<1>1. CASE ~(Accepts(t, s) /\ ~HasSource(t, s))
  BY <1>1 DEF RegisterSource
<1>2. CASE Accepts(t, s) /\ ~HasSource(t, s)
  <2>1. PICK e : e = [source |-> s, offset |-> 0, count |-> 0, seriesOffset |-> 0]
    OBVIOUS
  <2>2. e \in EntryStates /\ e.source = s
    BY <2>1 DEF EntryStates
  <2>3. RegisterSource(t, s) = Append(t, e)
    BY <1>2, <2>1 DEF RegisterSource
  <2>4. PICK u : u = Append(t, e)
    OBVIOUS
  <2>5. /\ u \in Seq(EntryStates) /\ Len(u) = Len(t) + 1 /\ Len(t) \in Nat
        /\ u[Len(t) + 1] = e /\ \A i \in 1..Len(t) : u[i] = t[i]
    BY <2>2, <2>4
  <2>6. \A i \in 1..Len(t) : Range(SchemaOf[t[i].source]) \cap Range(SchemaOf[s]) = {}
    BY <1>2 DEF Accepts, KeysOf
  <2>7. KeysApart(u)
    <3>1. SUFFICES ASSUME NEW i \in 1..Len(u), NEW j \in 1..Len(u), i # j
                   PROVE  Range(SchemaOf[u[i].source]) \cap Range(SchemaOf[u[j].source]) = {}
      BY DEF KeysApart
    <3>2. CASE i \in 1..Len(t) /\ j \in 1..Len(t)
      BY <2>5, <3>1, <3>2 DEF KeysApart
    <3>3. CASE i = Len(t) + 1
      BY <2>5, <3>1, <3>3, <2>2, <2>6, SMTT(30)
    <3>4. CASE j = Len(t) + 1
      <4>1. i \in 1..Len(t) /\ u[j] = e /\ u[i] = t[i]
        BY <2>5, <3>1, <3>4
      <4> QED
        BY <2>2, <2>6, <4>1
    <3> QED
      BY <2>5, <3>2, <3>3, <3>4
  <2> QED
    BY <2>3, <2>4, <2>5, <2>7
<1> QED
  BY <1>1, <1>2

LEMMA RegisterAllKeeps ==
    ASSUME NEW t \in Seq(EntryStates), KeysApart(t)
    PROVE  RegisterAll(t) \in Seq(EntryStates) /\ KeysApart(RegisterAll(t))
<1> DEFINE Steps == Len(RuntimeSources)
           Tables == {u \in Seq(EntryStates) : KeysApart(u)}
           IsRun(g) == g = [n \in 0..Steps |-> IF n = 0 THEN t
                                           ELSE RegisterSource(g[n - 1], RuntimeSources[n])]
<1>1. PICK X : X = [n \in 0..Steps |-> Tables]
  OBVIOUS
<1>2. PICK step : step = [n \in 1..Steps |-> [u \in Tables |-> RegisterSource(u, RuntimeSources[n])]]
  OBVIOUS
<1>3. Steps \in Nat /\ t \in X[0]
  BY <1>1, HubConstants
<1>4. \A n \in 1..Steps : \A x \in X[n - 1] : step[n][x] \in X[n] /\ step[n][x] = RegisterSource(x, RuntimeSources[n])
  <2>1. ASSUME NEW n \in 1..Steps, NEW x \in X[n - 1]
        PROVE  step[n][x] \in X[n] /\ step[n][x] = RegisterSource(x, RuntimeSources[n])
    <3>1. x \in Tables /\ X[n] = Tables
      BY <1>1, <1>3
    <3>2. RegisterSource(x, RuntimeSources[n]) \in Tables
      BY <3>1, RegisterKeeps, HubConstants
    <3>3. step[n][x] = RegisterSource(x, RuntimeSources[n])
      <4> HIDE DEF Tables
      <4> QED
        BY <1>2, <3>1
    <3> QED
      BY <3>1, <3>2, <3>3
  <2> QED
    BY <2>1
<1> HIDE DEF Steps, Tables
<1>5. PICK f : RunOf(f, Steps, X, t, step)
  BY <1>3, <1>4, RunsOn DEF StepsStay
<1>6. PICK h : h = [n \in 0..Steps |-> f[n]]
  OBVIOUS
<1>7. IsRun(h)
  <2>1. ASSUME NEW n \in 0..Steps
        PROVE  h[n] = IF n = 0 THEN t ELSE RegisterSource(h[n - 1], RuntimeSources[n])
    BY <1>3, <1>5, <1>6, <1>4 DEF RunOf
  <2> QED
    BY <1>6, <2>1
<1>8. PICK g : g = CHOOSE a : IsRun(a)
  OBVIOUS
<1>9. IsRun(g)
  <2> HIDE DEF IsRun
  <2> QED
    BY <1>7, <1>8
<1>10. g[0] = t /\ \A n \in 1..Steps : g[n] = RegisterSource(g[n - 1], RuntimeSources[n])
  <2>1. ASSUME NEW n \in 0..Steps
        PROVE  g[n] = IF n = 0 THEN t ELSE RegisterSource(g[n - 1], RuntimeSources[n])
    BY <1>9
  <2> QED
    BY <1>3, <2>1
<1>11. RegisterAll(t) = g[Steps]
  BY <1>8 DEF RegisterAll, Steps
<1>12. Follows(g, Steps, X, t, step)
  BY <1>4, <1>10 DEF Follows
<1>13. g[Steps] \in X[Steps] /\ X[Steps] = Tables
  BY <1>1, <1>3, <1>5, <1>12, RunsAlike
<1> QED
  BY <1>11, <1>13 DEF Tables

(* How a frozen table lies: each source's columns and series where its entry *)
(* says, one after the other, and no cell without a source.                  *)
RoomOf(e) == SeriesCapacityOf[e.source]
EntryLaid(e, cs, S) ==
    /\ e.count = Len(SchemaOf[e.source]) /\ e.offset + e.count <= Len(cs)
    /\ \A p \in 1..e.count : cs[e.offset + p] = SchemaOf[e.source][p]
    /\ e.seriesOffset + RoomOf(e) <= S
LiesBefore(d, e) ==
    d.offset + d.count <= e.offset /\ d.seriesOffset + RoomOf(d) <= e.seriesOffset
Covered(es, cs, S) ==
    /\ \A k \in 1..Len(cs) : \E i \in 1..Len(es) : InSpan(k, es[i].offset, es[i].count)
    /\ \A k \in 1..S : \E i \in 1..Len(es) : InSpan(k, es[i].seriesOffset, RoomOf(es[i]))
LaidOut(es, cs, S) ==
    /\ es \in Seq(EntryStates) /\ cs \in Seq(AllKeys) /\ S \in Nat
    /\ \A i \in 1..Len(es) : EntryLaid(es[i], cs, S)
    /\ \A i, j \in 1..Len(es) : i < j => LiesBefore(es[i], es[j])
    /\ Covered(es, cs, S)
NextEntry(s, cs, S) ==
    [source |-> s, offset |-> Len(cs), count |-> Len(SchemaOf[s]), seriesOffset |-> S]

LEMMA LaysOne ==
    ASSUME NEW es, NEW cs, NEW S, LaidOut(es, cs, S), NEW s \in Src
    PROVE  LaidOut(Append(es, NextEntry(s, cs, S)), cs \o SchemaOf[s], S + SeriesCapacityOf[s])
<1>1. PICK e : e = NextEntry(s, cs, S)
  OBVIOUS
<1>2. PICK schema : schema = SchemaOf[s]
  OBVIOUS
<1>3. PICK room : room = SeriesCapacityOf[s]
  OBVIOUS
<1>4. PICK us : us = Append(es, e)
  OBVIOUS
<1>5. PICK ds : ds = cs \o schema
  OBVIOUS
<1>6. PICK T : T = S + room
  OBVIOUS
<1>7. es \in Seq(EntryStates) /\ cs \in Seq(AllKeys) /\ S \in Nat
  BY DEF LaidOut
<1>8. schema \in Seq(AllKeys) /\ Len(schema) \in Nat /\ room \in Nat
  BY <1>2, <1>3, SchemaIs, HubConstants
<1>9. Len(cs) \in Nat /\ Len(es) \in Nat /\ T \in Nat /\ T >= S
  BY <1>6, <1>7, <1>8
<1>10. /\ e \in EntryStates /\ e.source = s /\ e.offset = Len(cs)
       /\ e.count = Len(schema) /\ e.seriesOffset = S /\ RoomOf(e) = room
  BY <1>1, <1>2, <1>3, <1>7, <1>8, <1>9 DEF NextEntry, EntryStates, RoomOf
<1>11. /\ us \in Seq(EntryStates) /\ Len(us) = Len(es) + 1
       /\ us[Len(es) + 1] = e /\ \A i \in 1..Len(es) : us[i] = es[i]
  BY <1>4, <1>7, <1>10
<1>12. /\ ds \in Seq(AllKeys) /\ Len(ds) = Len(cs) + Len(schema)
       /\ \A k \in 1..Len(cs) : ds[k] = cs[k]
       /\ \A p \in 1..Len(schema) : ds[Len(cs) + p] = schema[p]
  BY <1>5, <1>7, <1>8
<1>13. \A i \in 1..Len(es) :
          /\ es[i] \in EntryStates /\ es[i].offset \in Nat /\ es[i].count \in Nat
          /\ es[i].seriesOffset \in Nat /\ es[i].source \in Src /\ RoomOf(es[i]) \in Nat
  <2>1. ASSUME NEW i \in 1..Len(es)
        PROVE  /\ es[i] \in EntryStates /\ es[i].offset \in Nat /\ es[i].count \in Nat
               /\ es[i].seriesOffset \in Nat /\ es[i].source \in Src /\ RoomOf(es[i]) \in Nat
    <3>1. es[i] \in EntryStates
      BY <1>7
    <3> QED
      BY <3>1, HubConstants DEF EntryStates, RoomOf
  <2> QED
    BY <2>1
<1>14. \A i \in 1..Len(es) :
          /\ es[i].count = Len(SchemaOf[es[i].source]) /\ es[i].offset + es[i].count <= Len(cs)
          /\ es[i].seriesOffset + RoomOf(es[i]) <= S
          /\ \A p \in 1..es[i].count : cs[es[i].offset + p] = SchemaOf[es[i].source][p]
  BY DEF LaidOut, EntryLaid
<1>15. ASSUME NEW i \in 1..Len(us) PROVE EntryLaid(us[i], ds, T)
  <2>1. CASE i \in 1..Len(es)
    <3>1. PICK d : d = es[i]
      OBVIOUS
    <3>2. us[i] = d
      BY <1>11, <2>1, <3>1
    <3>3. d.count = Len(SchemaOf[d.source]) /\ d.offset + d.count <= Len(cs) /\ d.seriesOffset + RoomOf(d) <= S
      BY <1>14, <2>1, <3>1
    <3>4. d.offset \in Nat /\ d.count \in Nat /\ d.seriesOffset \in Nat /\ RoomOf(d) \in Nat
      BY <1>13, <2>1, <3>1
    <3>5. ASSUME NEW p \in 1..d.count PROVE ds[d.offset + p] = SchemaOf[d.source][p]
      <4>1. cs[d.offset + p] = SchemaOf[d.source][p]
        BY <1>14, <2>1, <3>1
      <4>2. d.offset + p \in 1..Len(cs)
        BY <1>9, <3>3, <3>4, SMTT(30)
      <4> QED
        BY <1>12, <4>1, <4>2
    <3>6. d.offset + d.count <= Len(ds)
      <4>1. Len(ds) \in Nat /\ Len(cs) <= Len(ds)
        BY <1>8, <1>9, <1>12
      <4> HIDE <1>12
      <4> QED
        BY <1>9, <3>3, <3>4, <4>1
    <3>7. d.seriesOffset + RoomOf(d) <= T
      BY <1>7, <1>9, <3>3, <3>4
    <3> QED
      BY <3>2, <3>3, <3>5, <3>6, <3>7 DEF EntryLaid
  <2>2. CASE i = Len(es) + 1
    <3>1. us[i] = e
      BY <1>11, <2>2
    <3>2. \A p \in 1..e.count : ds[e.offset + p] = SchemaOf[e.source][p]
      BY <1>2, <1>10, <1>12
    <3>3. e.count = Len(SchemaOf[e.source])
      BY <1>2, <1>10
    <3>4. e.offset + e.count <= Len(ds)
      BY <1>8, <1>9, <1>10, <1>12
    <3>5. e.seriesOffset + RoomOf(e) <= T
      BY <1>6, <1>7, <1>8, <1>10
    <3> QED
      BY <3>1, <3>2, <3>3, <3>4, <3>5 DEF EntryLaid
  <2> QED
    BY <1>9, <1>11, <2>1, <2>2
<1>16. ASSUME NEW i \in 1..Len(us), NEW j \in 1..Len(us), i < j PROVE LiesBefore(us[i], us[j])
  <2>1. i \in 1..Len(es) /\ us[i] = es[i]
    BY <1>9, <1>11, <1>16
  <2>2. CASE j \in 1..Len(es)
    BY <1>11, <1>16, <2>1, <2>2 DEF LaidOut
  <2>3. CASE j = Len(es) + 1
    BY <1>10, <1>11, <1>14, <2>1, <2>3 DEF LiesBefore
  <2> QED
    BY <1>9, <1>11, <2>2, <2>3
<1>17. Covered(us, ds, T)
  <2>1. ASSUME NEW k \in 1..Len(ds)
        PROVE  \E i \in 1..Len(us) : InSpan(k, us[i].offset, us[i].count)
    <3>1. CASE k \in 1..Len(cs)
      <4>1. PICK i \in 1..Len(es) : InSpan(k, es[i].offset, es[i].count)
        BY <3>1 DEF LaidOut, Covered
      <4>2. i \in 1..Len(us) /\ us[i] = es[i]
        BY <1>9, <1>11
      <4> QED
        BY <4>1, <4>2
    <3>2. CASE k \notin 1..Len(cs)
      <4>1. k - Len(cs) \in 1..Len(schema)
        BY <1>8, <1>9, <1>12, <3>2
      <4>2. Len(es) + 1 \in 1..Len(us) /\ us[Len(es) + 1] = e
        BY <1>9, <1>11
      <4>3. InSpan(k, e.offset, e.count)
        BY <1>10, <4>1 DEF InSpan
      <4> QED
        BY <4>2, <4>3
    <3> QED
      BY <3>1, <3>2
  <2>2. ASSUME NEW k \in 1..T
        PROVE  \E i \in 1..Len(us) : InSpan(k, us[i].seriesOffset, RoomOf(us[i]))
    <3>1. CASE k \in 1..S
      <4>1. PICK i \in 1..Len(es) : InSpan(k, es[i].seriesOffset, RoomOf(es[i]))
        BY <3>1 DEF LaidOut, Covered
      <4>2. i \in 1..Len(us) /\ us[i] = es[i]
        BY <1>9, <1>11
      <4> QED
        BY <4>1, <4>2
    <3>2. CASE k \notin 1..S
      BY <1>6, <1>7, <1>8, <3>2, <1>9, <1>11, <1>10 DEF InSpan
    <3> QED
      BY <3>1, <3>2
  <2> QED
    BY <2>1, <2>2 DEF Covered
<1>18. LaidOut(us, ds, T)
  BY <1>9, <1>11, <1>12, <1>15, <1>16, <1>17 DEF LaidOut
<1> QED
  BY <1>1, <1>2, <1>3, <1>4, <1>5, <1>6, <1>18

(* The layout of a table has its sources, in its order.                      *)
Layouts == [entries : Seq(EntryStates), columns : Seq(AllKeys), series : Nat]
LaysOut(x, t, n) ==
    /\ LaidOut(x.entries, x.columns, x.series) /\ Len(x.entries) = n
    /\ \A i \in 1..n : x.entries[i].source = t[i].source
NextLayout(x, s) ==
    [entries |-> Append(x.entries, NextEntry(s, x.columns, x.series)),
     columns |-> x.columns \o SchemaOf[s], series |-> x.series + SeriesCapacityOf[s]]

LEMMA LaysNext ==
    ASSUME NEW t \in Seq(EntryStates), NEW n \in 1..Len(t), NEW x \in Layouts, LaysOut(x, t, n - 1)
    PROVE  NextLayout(x, t[n].source) \in Layouts /\ LaysOut(NextLayout(x, t[n].source), t, n)
<1>1. PICK s : s = t[n].source
  OBVIOUS
<1>2. s \in Src /\ n \in Nat /\ n - 1 \in Nat
  <2>1. t[n] \in EntryStates /\ Len(t) \in Nat
    OBVIOUS
  <2> QED
    BY <1>1, <2>1 DEF EntryStates
<1>3. PICK y : y = NextLayout(x, s)
  OBVIOUS
<1>4. PICK e : e = NextEntry(s, x.columns, x.series)
  OBVIOUS
<1>5. /\ y.entries = Append(x.entries, e) /\ y.columns = x.columns \o SchemaOf[s]
      /\ y.series = x.series + SeriesCapacityOf[s]
      /\ y = [entries |-> y.entries, columns |-> y.columns, series |-> y.series]
  BY <1>3, <1>4 DEF NextLayout
<1>6. LaidOut(y.entries, y.columns, y.series)
  BY <1>2, <1>4, <1>5, LaysOne DEF LaysOut
<1>7. y \in Layouts
  BY <1>6, <1>5 DEF LaidOut, Layouts
<1>8. e.source = s
  BY <1>4 DEF NextEntry
<1>9. x.entries \in Seq(EntryStates) /\ Len(x.entries) = n - 1
  BY DEF LaysOut, Layouts
<1>10. e \in EntryStates
  BY <1>2, SchemaIs, <1>4 DEF Layouts, NextEntry, EntryStates
<1>11. Len(y.entries) = n /\ y.entries[n] = e /\ \A i \in 1..(n - 1) : y.entries[i] = x.entries[i]
  BY <1>2, <1>5, <1>9, <1>10
<1>12. ASSUME NEW i \in 1..n PROVE y.entries[i].source = t[i].source
  BY <1>1, <1>8, <1>11, <1>2 DEF LaysOut
<1>13. LaysOut(y, t, n)
  BY <1>6, <1>11, <1>12 DEF LaysOut
<1> QED
  BY <1>1, <1>3, <1>7, <1>13

LEMMA LayoutIs ==
    ASSUME NEW t \in Seq(EntryStates)
    PROVE  Layout(t) \in Layouts /\ LaysOut(Layout(t), t, Len(t))
<1> DEFINE Steps == Len(t)
           first == [entries |-> <<>>, columns |-> <<>>, series |-> 0]
           Laying(n) == {x \in Layouts : LaysOut(x, t, n)}
           IsRun(g) == g = [n \in 0..Steps |->
                              IF n = 0 THEN [entries |-> <<>>, columns |-> <<>>, series |-> 0]
                              ELSE LET so == g[n - 1]
                                       schema == SchemaOf[t[n].source]
                                   IN  [entries |-> Append(so.entries,
                                          [source |-> t[n].source, offset |-> Len(so.columns),
                                           count |-> Len(schema), seriesOffset |-> so.series]),
                                        columns |-> so.columns \o schema,
                                        series |-> so.series + Capacity(t[n])]]
<1>1. PICK X : X = [n \in 0..Steps |-> Laying(n)]
  OBVIOUS
<1>2. PICK step : step = [n \in 1..Steps |-> [x \in Laying(n - 1) |-> NextLayout(x, t[n].source)]]
  OBVIOUS
<1>3. Steps \in Nat
  OBVIOUS
<1>4. first \in X[0]
  <2>1. first.entries = <<>> /\ first.columns = <<>> /\ first.series = 0
    OBVIOUS
  <2>2. first \in Layouts
    BY DEF Layouts
  <2>3. LaysOut(first, t, 0)
    <3> HIDE DEF first
    <3>1. LaidOut(<<>>, <<>>, 0)
      BY DEF LaidOut, Covered
    <3> QED
      BY <2>1, <3>1 DEF LaysOut
  <2> QED
    BY <1>1, <1>3, <2>2, <2>3
<1>5. \A n \in 1..Steps : \A x \in X[n - 1] :
         step[n][x] \in X[n] /\ step[n][x] = NextLayout(x, t[n].source)
  <2>1. ASSUME NEW n \in 1..Steps, NEW x \in X[n - 1]
        PROVE  step[n][x] \in X[n] /\ step[n][x] = NextLayout(x, t[n].source)
    <3>1. x \in Laying(n - 1) /\ X[n] = Laying(n)
      <4>1. n - 1 \in 0..Steps /\ n \in 0..Steps
        BY <1>3
      <4> HIDE DEF Laying, Steps
      <4> QED
        BY <1>1, <4>1
    <3>2. NextLayout(x, t[n].source) \in Laying(n)
      BY <3>1, LaysNext
    <3>3. step[n][x] = NextLayout(x, t[n].source)
      <4> HIDE DEF Laying
      <4> QED
        BY <1>2, <3>1
    <3> QED
      BY <3>1, <3>2, <3>3
  <2> QED
    BY <2>1
<1> HIDE DEF Steps, Laying, first
<1>6. PICK f : RunOf(f, Steps, X, first, step)
  BY <1>3, <1>4, <1>5, RunsOn DEF StepsStay
<1>7. PICK h : h = [n \in 0..Steps |-> f[n]]
  OBVIOUS
<1>8. \A a, n : LET so == a[n - 1]
                    schema == SchemaOf[t[n].source]
                IN  [entries |-> Append(so.entries,
                       [source |-> t[n].source, offset |-> Len(so.columns),
                        count |-> Len(schema), seriesOffset |-> so.series]),
                     columns |-> so.columns \o schema,
                     series |-> so.series + Capacity(t[n])]
                = NextLayout(a[n - 1], t[n].source)
  BY DEF NextLayout, NextEntry, Capacity
<1>9. IsRun(h)
  <2>1. ASSUME NEW n \in 0..Steps
        PROVE  h[n] = IF n = 0 THEN first ELSE NextLayout(h[n - 1], t[n].source)
    <3> HIDE DEF IsRun
    <3>1. h[n] = f[n]
      BY <1>7
    <3>2. CASE n = 0
      BY <1>6, <3>1, <3>2 DEF RunOf
    <3>3. CASE n # 0
      <4>1. n \in 1..Steps /\ n - 1 \in 0..Steps
        BY <1>3, <3>3
      <4>2. f[n - 1] \in X[n - 1] /\ f[n] = step[n][f[n - 1]] /\ h[n - 1] = f[n - 1]
        BY <1>6, <1>7, <4>1 DEF RunOf
      <4> QED
        BY <1>5, <3>1, <3>3, <4>1, <4>2
    <3> QED
      BY <3>2, <3>3
  <2>2. h = [n \in 0..Steps |-> IF n = 0 THEN first ELSE NextLayout(h[n - 1], t[n].source)]
    BY <1>7, <2>1
  <2> QED
    BY <2>2 DEF first, NextLayout, NextEntry, Capacity
<1>10. PICK g : g = CHOOSE a : IsRun(a)
  OBVIOUS
<1>11. IsRun(g)
  <2> HIDE DEF IsRun
  <2> QED
    BY <1>9, <1>10
<1>12. g[0] = first /\ \A n \in 1..Steps : g[n] = NextLayout(g[n - 1], t[n].source)
  <2>1. 0 \in 0..Steps /\ \A n \in 1..Steps : n \in 0..Steps /\ n # 0
    BY <1>3
  <2> QED
    BY <1>11, <2>1 DEF first, NextLayout, NextEntry, Capacity
<1>13. Layout(t) = g[Steps]
  BY <1>10 DEF Layout, Steps
<1>14. Follows(g, Steps, X, first, step)
  <2> HIDE DEF IsRun
  <2> QED
    BY <1>5, <1>12 DEF Follows
<1>15. g[Steps] \in X[Steps] /\ X[Steps] = Laying(Steps)
  BY <1>1, <1>3, <1>6, <1>14, RunsAlike
<1> QED
  BY <1>13, <1>15 DEF Laying, Steps

(* Of a table laid out, each cell has one entry.                             *)
LEMMA EntryIs ==
    ASSUME NEW es, NEW cs, NEW S, LaidOut(es, cs, S), NEW i \in 1..Len(es)
    PROVE  /\ es[i] \in EntryStates /\ es[i].offset \in Nat /\ es[i].seriesOffset \in Nat
           /\ es[i].source \in Src /\ RoomOf(es[i]) \in Nat
           /\ es[i].count \in Nat /\ es[i].count = Len(SchemaOf[es[i].source])
           /\ es[i].offset + es[i].count <= Len(cs) /\ es[i].seriesOffset + RoomOf(es[i]) <= S
           /\ \A p \in 1..es[i].count : cs[es[i].offset + p] = SchemaOf[es[i].source][p]
<1>1. es[i] \in EntryStates
  BY DEF LaidOut
<1>2. EntryLaid(es[i], cs, S)
  BY DEF LaidOut
<1> QED
  BY <1>1, <1>2, HubConstants DEF EntryStates, EntryLaid, RoomOf

LEMMA OneEntryOf ==
    ASSUME NEW es, NEW cs, NEW S, LaidOut(es, cs, S), NEW k \in Int,
           NEW i \in 1..Len(es), NEW j \in 1..Len(es)
    PROVE  /\ InSpan(k, es[i].offset, es[i].count) /\ InSpan(k, es[j].offset, es[j].count) => i = j
           /\ InSpan(k, es[i].seriesOffset, RoomOf(es[i]))
              /\ InSpan(k, es[j].seriesOffset, RoomOf(es[j])) => i = j
<1>1. \A a, b \in 1..Len(es) : a < b =>
         /\ es[a].offset + es[a].count <= es[b].offset
         /\ es[a].seriesOffset + RoomOf(es[a]) <= es[b].seriesOffset
  BY DEF LaidOut, LiesBefore
<1>2. Len(es) \in Nat /\ i \in Nat /\ j \in Nat
  BY DEF LaidOut
<1>3. \A a \in 1..Len(es) : es[a].offset \in Nat /\ es[a].count \in Nat
                            /\ es[a].seriesOffset \in Nat /\ RoomOf(es[a]) \in Nat
  BY EntryIs
<1>4. \A a, b \in 1..Len(es) : a < b =>
         /\ ~(InSpan(k, es[a].offset, es[a].count) /\ InSpan(k, es[b].offset, es[b].count))
         /\ ~(InSpan(k, es[a].seriesOffset, RoomOf(es[a])) /\ InSpan(k, es[b].seriesOffset, RoomOf(es[b])))
  <2>1. SUFFICES ASSUME NEW a \in 1..Len(es), NEW b \in 1..Len(es), a < b
                 PROVE  /\ ~(InSpan(k, es[a].offset, es[a].count) /\ InSpan(k, es[b].offset, es[b].count))
                        /\ ~(InSpan(k, es[a].seriesOffset, RoomOf(es[a])) /\ InSpan(k, es[b].seriesOffset, RoomOf(es[b])))
    OBVIOUS
  <2>2. es[a].offset + es[a].count <= es[b].offset
        /\ es[a].seriesOffset + RoomOf(es[a]) <= es[b].seriesOffset
    BY <1>1, <2>1
  <2>3. a \in 1..Len(es) /\ b \in 1..Len(es)
    OBVIOUS
  <2>4. ~(InSpan(k, es[a].offset, es[a].count) /\ InSpan(k, es[b].offset, es[b].count))
    <3>1. PICK o, c, u : o = es[a].offset /\ c = es[a].count /\ u = es[b].offset
      OBVIOUS
    <3>2. o \in Nat /\ c \in Nat /\ u \in Nat /\ o + c <= u
      BY <1>3, <2>2, <3>1
    <3>3. k - o <= c => ~(k - u >= 1)
      BY <3>2
    <3> QED
      BY <3>1, <3>2, <3>3 DEF InSpan
  <2>5. ~(InSpan(k, es[a].seriesOffset, RoomOf(es[a])) /\ InSpan(k, es[b].seriesOffset, RoomOf(es[b])))
    <3>1. PICK o, c, u : o = es[a].seriesOffset /\ c = RoomOf(es[a]) /\ u = es[b].seriesOffset
      OBVIOUS
    <3>2. o \in Nat /\ c \in Nat /\ u \in Nat /\ o + c <= u
      BY <1>3, <2>2, <3>1
    <3>3. k - o <= c => ~(k - u >= 1)
      BY <3>2
    <3> QED
      BY <3>1, <3>2, <3>3 DEF InSpan
  <2> QED
    BY <2>4, <2>5
<1>5. i < j \/ j < i \/ i = j
  BY <1>2
<1> QED
  BY <1>4, <1>5

LEMMA MaxOfOne == ASSUME NEW i \in Int PROVE Max({i}) = i
  BY DEF Max

(* So the columns are different keys, and each source has its own.           *)
LEMMA ColumnIs ==
    ASSUME NEW es, NEW cs, NEW S, LaidOut(es, cs, S), NEW k \in Int, NEW i \in 1..Len(es),
           InSpan(k, es[i].offset, es[i].count)
    PROVE  k - es[i].offset \in 1..Len(SchemaOf[es[i].source])
           /\ cs[k] = SchemaOf[es[i].source][k - es[i].offset]
<1>1. PICK p : p = k - es[i].offset
  OBVIOUS
<1>2. es[i].offset \in Nat /\ p \in 1..es[i].count
  BY <1>1, EntryIs DEF InSpan
<1>3. es[i].offset + p = k
  BY <1>1, <1>2
<1>4. cs[es[i].offset + p] = SchemaOf[es[i].source][p] /\ es[i].count = Len(SchemaOf[es[i].source])
  BY <1>2, EntryIs
<1>5. cs[k] = SchemaOf[es[i].source][p] /\ p \in 1..Len(SchemaOf[es[i].source])
  BY <1>2, <1>3, <1>4
<1> QED
  BY <1>1, <1>5

LEMMA ColumnsDiffer ==
    ASSUME NEW es, NEW cs, NEW S, LaidOut(es, cs, S), KeysApart(es)
    PROVE  IsInjective(cs)
<1>1. cs \in Seq(AllKeys) /\ Len(cs) \in Nat /\ DOMAIN cs = 1..Len(cs)
  BY DEF LaidOut
<1>2. ASSUME NEW k \in 1..Len(cs), NEW l \in 1..Len(cs), cs[k] = cs[l] PROVE k = l
  <2>1. PICK i \in 1..Len(es) : InSpan(k, es[i].offset, es[i].count)
    BY DEF LaidOut, Covered
  <2>2. PICK j \in 1..Len(es) : InSpan(l, es[j].offset, es[j].count)
    BY DEF LaidOut, Covered
  <2>3. k - es[i].offset \in 1..Len(SchemaOf[es[i].source])
        /\ cs[k] = SchemaOf[es[i].source][k - es[i].offset]
    BY <1>1, <2>1, ColumnIs
  <2>4. l - es[j].offset \in 1..Len(SchemaOf[es[j].source])
        /\ cs[l] = SchemaOf[es[j].source][l - es[j].offset]
    BY <1>1, <2>2, ColumnIs
  <2>5. /\ es[i].source \in Src /\ es[j].source \in Src
        /\ es[i].offset \in Nat /\ es[j].offset \in Nat
    BY EntryIs
  <2>6. cs[k] \in Range(SchemaOf[es[i].source]) /\ cs[l] \in Range(SchemaOf[es[j].source])
    BY <2>3, <2>4, <2>5, SchemaIs
  <2>7. i = j
    BY <1>2, <2>6 DEF KeysApart
  <2>8. k - es[i].offset = l - es[i].offset
    BY <1>2, <2>3, <2>4, <2>5, <2>7, SchemaIs
  <2> QED
    BY <1>1, <2>5, <2>8
<1> QED
  BY <1>1, <1>2 DEF IsInjective

LEMMA SpanIs ==
    ASSUME NEW es, NEW cs, NEW S, LaidOut(es, cs, S), NEW i \in 1..Len(es)
    PROVE  SubSeq(cs, es[i].offset + 1, es[i].offset + es[i].count) = SchemaOf[es[i].source]
<1>1. PICK schema : schema = SchemaOf[es[i].source]
  OBVIOUS
<1>2. PICK o : o = es[i].offset
  OBVIOUS
<1>3. PICK c : c = es[i].count
  OBVIOUS
<1>4. /\ o \in Nat /\ c \in Nat /\ c = Len(schema) /\ o + c <= Len(cs)
      /\ \A p \in 1..c : cs[o + p] = schema[p]
  BY <1>1, <1>2, <1>3, EntryIs
<1>5. schema \in Seq(AllKeys) /\ cs \in Seq(AllKeys)
  BY <1>1, EntryIs, SchemaIs DEF LaidOut
<1>6. PICK sub : sub = SubSeq(cs, o + 1, o + c)
  OBVIOUS
<1>7. /\ o + 1 \in Nat /\ o + c \in Nat /\ o + 1 >= 1 /\ o + 1 <= o + c + 1 /\ o + c <= Len(cs)
      /\ (o + c) - (o + 1) + 1 = c /\ \A p \in 1..c : p + (o + 1) - 1 = o + p
  BY <1>4
<1>8. sub \in Seq(AllKeys) /\ Len(sub) = c /\ \A p \in 1..c : sub[p] = cs[o + p]
  <2>1. sub \in Seq(AllKeys)
    BY <1>4, <1>5, <1>6
  <2>2. PICK a \in Nat : a = o + 1
    BY <1>4
  <2>3. PICK b \in Nat : b = o + c
    BY <1>4
  <2>4. sub = SubSeq(cs, a, b) /\ 1 <= a /\ a <= b + 1 /\ b <= Len(cs) /\ b - a + 1 = c
    BY <1>4, <1>6, <2>2, <2>3
  <2>5. Len(sub) = c
    BY <1>5, <2>1, <2>4, SMTT(30)
  <2>6. \A p \in 1..c : sub[p] = cs[a + p - 1]
    BY <1>5, <2>1, <2>4, <2>5, SMTT(30)
  <2>7. \A p \in 1..c : a + p - 1 = o + p
    BY <1>4, <2>2
  <2> QED
    BY <2>1, <2>5, <2>6, <2>7
<1>9. Len(sub) = Len(schema) /\ \A p \in 1..Len(sub) : sub[p] = schema[p]
  BY <1>4, <1>8
<1>10. sub = schema
  BY <1>5, <1>8, <1>9
<1> QED
  BY <1>1, <1>2, <1>3, <1>6, <1>10

(* TableRows over a table laid out.                                               *)
Cells == [source : Src \cup {"none"}, place : Int, row : Nat]
TableRows(C, S) == [sequence : Nat, values : [1..C -> Cells], series : [1..S -> Cells]]
CellsFit(row, es, cs) ==
    /\ \A k \in DOMAIN row.values :
          LET cell == row.values[k] IN
          cell # NoCell => cell.row = row.sequence /\ SchemaOf[cell.source][cell.place] = cs[k]
    /\ \A k \in DOMAIN row.series :
          LET cell == row.series[k] IN
          cell # NoCell =>
              /\ cell.row = row.sequence
              /\ \E i \in DOMAIN es :
                    es[i].source = cell.source /\ cell.place = k - es[i].seriesOffset

LEMMA EmptyRowIs ==
    ASSUME NEW C \in Nat, NEW S \in Nat
    PROVE  /\ EmptyRow(C, S) \in TableRows(C, S) /\ EmptyRow(C, S).sequence = 0
           /\ \A es, cs : \A q \in Nat :
                 CellsFit(EmptyRow(C, S), es, cs) /\ CellsFit([EmptyRow(C, S) EXCEPT !.sequence = q], es, cs)
<1>1. NoCell \in Cells
  BY DEF NoCell, Cells
<1>2. PICK r : r = EmptyRow(C, S)
  OBVIOUS
<1>3. /\ r = [sequence |-> 0, values |-> r.values, series |-> r.series]
      /\ r.values = [k \in 1..C |-> NoCell] /\ r.series = [k \in 1..S |-> NoCell]
  BY <1>2 DEF EmptyRow
<1>4. r \in TableRows(C, S)
  BY <1>1, <1>3 DEF TableRows
<1>5. ASSUME NEW q \in Nat, NEW es, NEW cs
      PROVE  CellsFit(r, es, cs) /\ CellsFit([r EXCEPT !.sequence = q], es, cs)
  <2>1. PICK s : s = [r EXCEPT !.sequence = q]
    OBVIOUS
  <2>2. s.values = r.values /\ s.series = r.series
    BY <2>1, <1>3
  <2>3. /\ \A k \in DOMAIN r.values : r.values[k] = NoCell
        /\ \A k \in DOMAIN r.series : r.series[k] = NoCell
    BY <1>3
  <2> QED
    BY <2>1, <2>2, <2>3 DEF CellsFit
<1> QED
  BY <1>2, <1>3, <1>4, <1>5

(* A row that is filled has its sources' cells, whatever was in it.          *)
LEMMA FilledIs ==
    ASSUME NEW S, LaidOut(entries, columns, S), collecting \in TableRows(Len(columns), S),
           NEW readable, NEW reported, NEW q \in Nat, NEW filled,
           filled = [sequence |-> q, values |-> FilledValues(readable, q),
                     series |-> FilledSeries(reported, q)]
    PROVE  filled \in TableRows(Len(columns), S) /\ CellsFit(filled, entries, columns)
<1>1. /\ DOMAIN collecting.values = 1..Len(columns) /\ DOMAIN collecting.series = 1..S
      /\ Len(columns) \in Nat /\ S \in Nat /\ DOMAIN entries = 1..Len(entries) /\ Len(entries) \in Nat
  BY DEF TableRows, LaidOut
<1>2. ASSUME NEW k \in 1..Len(columns)
      PROVE  \E i \in 1..Len(entries) :
                /\ InSpan(k, entries[i].offset, entries[i].count)
                /\ FilledValues(readable, q)[k] =
                      IF entries[i].source \in readable
                      THEN [source |-> entries[i].source, place |-> k - entries[i].offset, row |-> q]
                      ELSE NoCell
  <2>1. PICK i \in 1..Len(entries) : InSpan(k, entries[i].offset, entries[i].count)
    BY DEF LaidOut, Covered
  <2>2. PICK filling : filling = {j \in DOMAIN entries : InSpan(k, entries[j].offset, entries[j].count)}
    OBVIOUS
  <2>3. filling = {i}
    BY <1>1, <2>1, <2>2, OneEntryOf
  <2>4. LastOf(filling) = entries[i] /\ filling # {}
    BY <1>1, <2>3, MaxOfOne DEF LastOf
  <2>5. FilledValues(readable, q)[k] =
           IF filling = {} THEN collecting.values[k]
           ELSE IF LastOf(filling).source \in readable
                THEN [source |-> LastOf(filling).source, place |-> k - LastOf(filling).offset, row |-> q]
                ELSE NoCell
    BY <1>1, <2>2 DEF FilledValues
  <2> QED
    BY <2>1, <2>4, <2>5
<1>3. ASSUME NEW k \in 1..S
      PROVE  \E i \in 1..Len(entries) :
                FilledSeries(reported, q)[k] \in
                   {[source |-> entries[i].source, place |-> k - entries[i].seriesOffset, row |-> q], NoCell}
  <2>1. PICK i \in 1..Len(entries) : InSpan(k, entries[i].seriesOffset, RoomOf(entries[i]))
    BY DEF LaidOut, Covered
  <2>2. PICK filling : filling = {j \in DOMAIN entries : InSpan(k, entries[j].seriesOffset, RoomOf(entries[j]))}
    OBVIOUS
  <2>3. filling = {i}
    BY <1>1, <2>1, <2>2, OneEntryOf
  <2>4. LastOf(filling) = entries[i] /\ filling # {}
    BY <1>1, <2>3, MaxOfOne DEF LastOf
  <2>5. FilledSeries(reported, q)[k] =
           IF filling = {} THEN collecting.series[k]
           ELSE IF k - LastOf(filling).seriesOffset <= reported[LastOf(filling).source]
                THEN [source |-> LastOf(filling).source, place |-> k - LastOf(filling).seriesOffset, row |-> q]
                ELSE NoCell
    BY <1>1, <2>2 DEF FilledSeries, RoomOf, Capacity
  <2> QED
    BY <2>4, <2>5
<1>4. NoCell \in Cells
  BY DEF NoCell, Cells
<1>5. \A i \in 1..Len(entries), k \in Int :
         /\ [source |-> entries[i].source, place |-> k - entries[i].offset, row |-> q] \in Cells
         /\ [source |-> entries[i].source, place |-> k - entries[i].seriesOffset, row |-> q] \in Cells
  BY EntryIs DEF Cells
<1>6. FilledValues(readable, q) \in [1..Len(columns) -> Cells]
  <2>1. ASSUME NEW k \in 1..Len(columns) PROVE FilledValues(readable, q)[k] \in Cells
    <3>1. PICK i \in 1..Len(entries) :
             FilledValues(readable, q)[k] \in
                {[source |-> entries[i].source, place |-> k - entries[i].offset, row |-> q], NoCell}
      BY <1>2
    <3>2. [source |-> entries[i].source, place |-> k - entries[i].offset, row |-> q] \in Cells
      <4>1. k \in Int
        BY <1>1
      <4> QED
        BY <1>5, <4>1, Zenon
    <3> QED
      BY <1>4, <3>1, <3>2
  <2>2. FilledValues(readable, q) = [k \in 1..Len(columns) |-> FilledValues(readable, q)[k]]
    BY <1>1 DEF FilledValues
  <2> QED
    BY <2>1, <2>2
<1>7. FilledSeries(reported, q) \in [1..S -> Cells]
  <2>1. ASSUME NEW k \in 1..S PROVE FilledSeries(reported, q)[k] \in Cells
    <3>1. PICK i \in 1..Len(entries) :
             FilledSeries(reported, q)[k] \in
                {[source |-> entries[i].source, place |-> k - entries[i].seriesOffset, row |-> q], NoCell}
      BY <1>3
    <3>2. [source |-> entries[i].source, place |-> k - entries[i].seriesOffset, row |-> q] \in Cells
      <4>1. k \in Int
        BY <1>1
      <4> QED
        BY <1>5, <4>1, Zenon
    <3> QED
      BY <1>4, <3>1, <3>2
  <2>2. FilledSeries(reported, q) = [k \in 1..S |-> FilledSeries(reported, q)[k]]
    BY <1>1 DEF FilledSeries
  <2> QED
    BY <2>1, <2>2
<1>8. filled \in TableRows(Len(columns), S)
  BY <1>6, <1>7 DEF TableRows
<1>9. /\ filled.values = FilledValues(readable, q) /\ filled.series = FilledSeries(reported, q)
      /\ filled.sequence = q
  OBVIOUS
<1>10. ASSUME NEW k \in DOMAIN filled.values, filled.values[k] # NoCell
       PROVE  /\ filled.values[k].row = filled.sequence
              /\ SchemaOf[filled.values[k].source][filled.values[k].place] = columns[k]
  <2>1. k \in 1..Len(columns)
    BY <1>6, <1>9
  <2>2. PICK i \in 1..Len(entries) :
                /\ InSpan(k, entries[i].offset, entries[i].count)
                /\ filled.values[k] =
                      IF entries[i].source \in readable
                      THEN [source |-> entries[i].source, place |-> k - entries[i].offset, row |-> q]
                      ELSE NoCell
    BY <1>2, <1>9, <2>1
  <2>3. filled.values[k] = [source |-> entries[i].source, place |-> k - entries[i].offset, row |-> q]
    BY <1>10, <2>2
  <2>4. columns[k] = SchemaOf[entries[i].source][k - entries[i].offset]
    BY <2>1, <2>2, ColumnIs
  <2> QED
    BY <1>9, <2>3, <2>4
<1>11. ASSUME NEW k \in DOMAIN filled.series, filled.series[k] # NoCell
       PROVE  /\ filled.series[k].row = filled.sequence
              /\ \E i \in DOMAIN entries :
                    entries[i].source = filled.series[k].source
                    /\ filled.series[k].place = k - entries[i].seriesOffset
  <2>1. k \in 1..S
    BY <1>7, <1>9
  <2>2. PICK i \in 1..Len(entries) : filled.series[k] \in
                   {[source |-> entries[i].source, place |-> k - entries[i].seriesOffset, row |-> q], NoCell}
    BY <1>3, <1>9, <2>1
  <2>3. filled.series[k] = [source |-> entries[i].source, place |-> k - entries[i].seriesOffset, row |-> q]
    BY <1>11, <2>2
  <2> QED
    BY <1>1, <1>9, <2>3
<1> QED
  BY <1>8, <1>10, <1>11 DEF CellsFit

(* The ring: row number j is at the place of j, as long as it is one of the  *)
(* newest.                                                                   *)
PlaceIn(j) == ((j - 1) % HistoryRows) + 1
RingFits(es, cs, S, r, q) ==
    /\ r.rows \in [1..HistoryRows -> TableRows(Len(cs), S)]
    /\ r.write = (q % HistoryRows) + 1
    /\ r.count = IF q <= HistoryRows THEN q ELSE HistoryRows
    /\ \A p \in 1..HistoryRows : CellsFit(r.rows[p], es, cs)
    /\ \A j \in 1..q : q - j < HistoryRows => r.rows[PlaceIn(j)].sequence = j

LEMMA PlacesApart ==
    ASSUME NEW q \in Nat
    PROVE  /\ (q % HistoryRows) + 1 \in 1..HistoryRows /\ PlaceIn(q + 1) = (q % HistoryRows) + 1
           /\ \A j \in 1..q : PlaceIn(j) \in 1..HistoryRows
                              /\ (q + 1 - j < HistoryRows => PlaceIn(j) # (q % HistoryRows) + 1)
<1>1. \A x \in Nat : x % HistoryRows \in 0..(HistoryRows - 1)
  BY HubConstants
<1>2. ASSUME NEW j \in 1..q, q + 1 - j < HistoryRows PROVE PlaceIn(j) # (q % HistoryRows) + 1
  <2>1. SUFFICES ASSUME PlaceIn(j) = (q % HistoryRows) + 1 PROVE FALSE
    OBVIOUS
  <2>2. PICK i \in Nat : i = j - 1
    OBVIOUS
  <2>3. i < q
    BY <2>2
  <2>5. i % HistoryRows = q % HistoryRows
    <3>1. (i % HistoryRows) + 1 = (q % HistoryRows) + 1
      BY <2>1, <2>2 DEF PlaceIn
    <3>2. i % HistoryRows \in Int /\ q % HistoryRows \in Int
      BY <1>1
    <3>3. PICK a \in Int : a = i % HistoryRows
      BY <3>2
    <3>4. PICK b \in Int : b = q % HistoryRows
      BY <3>2
    <3>5. a + 1 = b + 1
      BY <3>1, <3>3, <3>4
    <3> QED
      BY <3>3, <3>4, <3>5
  <2>4. q - i >= HistoryRows
    BY <2>3, <2>5, RestsApart, HubConstants
  <2> QED
    BY <1>2, <2>2, <2>4, HubConstants
<1>3. PICK x \in Nat : x = q + 1
  OBVIOUS
<1>4. x - 1 = q
  BY <1>3
<1>5. PlaceIn(q + 1) = (q % HistoryRows) + 1
  BY <1>3, <1>4 DEF PlaceIn
<1>6. ASSUME NEW j \in 1..q PROVE PlaceIn(j) \in 1..HistoryRows
  <2>1. PICK i \in Nat : i = j - 1
    OBVIOUS
  <2>2. PICK a \in 0..(HistoryRows - 1) : a = i % HistoryRows
    BY <1>1
  <2>3. HistoryRows \in Nat /\ PlaceIn(j) = a + 1
    BY <2>1, <2>2, HubConstants DEF PlaceIn
  <2> QED
    BY <2>3
<1>7. (q % HistoryRows) + 1 \in 1..HistoryRows
  <2>1. PICK a \in 0..(HistoryRows - 1) : a = q % HistoryRows
    BY <1>1
  <2>2. HistoryRows \in Nat
    BY HubConstants
  <2> QED
    BY <2>1, <2>2
<1> QED
  BY <1>2, <1>5, <1>6, <1>7

LEMMA RestNext ==
    ASSUME NEW x \in Nat, NEW M \in Nat \ {0}
    PROVE  ((x % M) + 1) % M = (x + 1) % M
<1>1. x \div M \in Nat /\ x % M \in 0..(M - 1) /\ x = (x \div M) * M + (x % M)
  BY QuotientBelow
<1>2. PICK p \in Nat : p = x \div M
  BY <1>1
<1>3. PICK r \in 0..(M - 1) : r = x % M
  BY <1>1
<1>4. x = p * M + r
  BY <1>1, <1>2, <1>3
<1>5. CASE r = M - 1
  <2>1. r + 1 = M /\ x + 1 = (p + 1) * M + 0 /\ M = 1 * M + 0
    BY <1>4, <1>5
  <2>2. ((p + 1) * M + 0) % M = 0 /\ (1 * M + 0) % M = 0
    BY QuotientAndRest
  <2> QED
    BY <1>3, <2>1, <2>2
<1>6. CASE r # M - 1
  <2>1. r + 1 \in 0..(M - 1) /\ x + 1 = p * M + (r + 1) /\ r + 1 = 0 * M + (r + 1)
    BY <1>4, <1>6
  <2>2. (p * M + (r + 1)) % M = r + 1 /\ (0 * M + (r + 1)) % M = r + 1
    BY <2>1, QuotientAndRest, SMTT(30)
  <2> QED
    BY <1>3, <2>1, <2>2
<1> QED
  BY <1>5, <1>6

LEMMA RestBack ==
    ASSUME NEW q \in Nat, NEW M \in Nat \ {0}, NEW e \in 1..M, e <= q
    PROVE  ((q % M) + M - e) % M = (q - e) % M
<1>1. q \div M \in Nat /\ q % M \in 0..(M - 1) /\ q = (q \div M) * M + (q % M)
  BY QuotientBelow
<1>2. PICK p \in Nat : p = q \div M
  BY <1>1
<1>3. PICK r \in 0..(M - 1) : r = q % M
  BY <1>1
<1>4. q = p * M + r
  BY <1>1, <1>2, <1>3
<1>5. CASE e <= r
  <2>1. r - e \in 0..(M - 1) /\ r + M - e = 1 * M + (r - e) /\ q - e = p * M + (r - e)
    BY <1>4, <1>5
  <2>2. (1 * M + (r - e)) % M = r - e /\ (p * M + (r - e)) % M = r - e
    BY <2>1, QuotientAndRest, SMTT(30)
  <2> QED
    BY <1>3, <2>1, <2>2
<1>6. CASE r < e
  <2>1. p # 0
    BY <1>4, <1>6
  <2>2. PICK o \in Nat : p = o + 1
    BY <2>1
  <2>3. q = o * M + M + r
    BY <1>4, <2>2
  <2>4. r + M - e \in 0..(M - 1) /\ r + M - e = 0 * M + (r + M - e) /\ q - e = o * M + (r + M - e)
    BY <1>6, <2>3
  <2>5. (0 * M + (r + M - e)) % M = r + M - e /\ (o * M + (r + M - e)) % M = r + M - e
    BY <2>4, QuotientAndRest
  <2> QED
    BY <1>3, <2>4, <2>5
<1> QED
  BY <1>5, <1>6

(* The page faults.                                                          *)
FaultStates ==
    [total : Nat, previous : Nat, known : BOOLEAN, first : Nat, last : Nat, drained : Nat]
FaultFits(f) ==
    /\ f \in FaultStates
    /\ IF f.known
       THEN /\ f.previous = f.last % FaultWord /\ f.first <= f.last /\ f.last <= f.total
            /\ f.drained <= f.last - f.first
            /\ f.last < FaultWord => f.drained = f.last - f.first
       ELSE f.previous = 0 /\ f.first = 0 /\ f.last = 0 /\ f.drained = 0

LEMMA RestsGrowSlower ==
    ASSUME NEW a \in Nat, NEW b \in Nat, a <= b, NEW M \in Nat \ {0},
           NEW r, r = a % M, NEW s, s = b % M
    PROVE  s - r <= b - a
<1>1. /\ a \div M \in Nat /\ r \in 0..(M - 1) /\ a = (a \div M) * M + r
      /\ b \div M \in Nat /\ s \in 0..(M - 1) /\ b = (b \div M) * M + s
  BY QuotientBelow
<1>2. PICK p \in Nat : p = a \div M
  BY <1>1
<1>3. PICK q \in Nat : q = b \div M
  BY <1>1
<1>4. a = p * M + r /\ b = q * M + s
  BY <1>1, <1>2, <1>3
<1>5. p <= q
  BY <1>1, <1>4
<1>6. p * M <= q * M
  BY <1>5
<1> QED
  BY <1>1, <1>4, <1>6

LEMMA RestOfLittle ==
    ASSUME NEW x \in Nat, NEW M \in Nat \ {0}, x < M
    PROVE  x % M = x
  BY QuotientAndRest

LEMMA DrainKeeps ==
    ASSUME NEW f, FaultFits(f), NEW readable
    PROVE  FaultFits(DrainFaults(f, readable))
<1>1. CASE ~readable
  BY <1>1 DEF DrainFaults
<1>2. CASE readable
  <2>1. f \in FaultStates
    BY DEF FaultFits
  <2>2. /\ f.total \in Nat /\ f.previous \in Nat /\ f.known \in BOOLEAN
        /\ f.first \in Nat /\ f.last \in Nat /\ f.drained \in Nat
    BY <2>1 DEF FaultStates
  <2>3. f.total % FaultWord \in 0..(FaultWord - 1)
    BY <2>2, HubConstants
  <2>4. PICK now \in Nat : now = f.total % FaultWord
    BY <2>3, HubConstants
  <2>5. PICK delta : delta = IF f.known /\ now >= f.previous THEN now - f.previous ELSE 0
    OBVIOUS
  <2>6. delta \in Nat
    BY <2>2, <2>4, <2>5
  <2>7. PICK g : g = [f EXCEPT !.previous = now, !.known = TRUE, !.drained = @ + delta,
                               !.first = IF f.known THEN @ ELSE f.total, !.last = f.total]
    OBVIOUS
  <2>8. DrainFaults(f, readable) = g
    BY <1>2, <2>4, <2>5, <2>7 DEF DrainFaults
  <2>9. /\ g \in FaultStates /\ g.previous = now /\ g.known = TRUE /\ g.drained = f.drained + delta
        /\ g.last = f.total /\ g.total = f.total
        /\ (f.known => g.first = f.first) /\ (~f.known => g.first = f.total)
    <3>1. PICK first : first = IF f.known THEN f.first ELSE f.total
      OBVIOUS
    <3>2. PICK drained : drained = f.drained + delta
      OBVIOUS
    <3>3. g = [f EXCEPT !.previous = now, !.known = TRUE, !.drained = drained,
                        !.first = first, !.last = f.total]
      BY <2>7, <3>1, <3>2
    <3>4. first \in Nat /\ drained \in Nat
      BY <2>2, <2>6, <3>1, <3>2
    <3>5. g \in FaultStates
      BY <2>1, <2>2, <2>4, <3>3, <3>4 DEF FaultStates
    <3>6. /\ g.previous = now /\ g.known = TRUE /\ g.drained = drained
          /\ g.last = f.total /\ g.total = f.total /\ g.first = first
      BY <2>1, <3>3 DEF FaultStates
    <3> QED
      BY <3>1, <3>2, <3>5, <3>6
  <2>10. CASE ~f.known
    BY <2>5, <2>10, <2>2, <2>4, <2>8, <2>9 DEF FaultFits
  <2>11. CASE f.known
    <3>1. /\ f.previous = f.last % FaultWord /\ f.first <= f.last /\ f.last <= f.total
          /\ f.drained <= f.last - f.first
          /\ f.last < FaultWord => f.drained = f.last - f.first
      BY <2>11 DEF FaultFits
    <3>2. now - f.previous <= f.total - f.last
      BY <2>2, <3>1, <2>4, RestsGrowSlower, HubConstants
    <3>3. g.drained <= g.last - g.first /\ g.first <= g.last
      BY <2>2, <2>4, <2>5, <2>9, <2>11, <3>1, <3>2
    <3>4. ASSUME g.last < FaultWord PROVE g.drained = g.last - g.first
      <4>1. f.total < FaultWord /\ f.last < FaultWord
        BY <2>2, <2>9, <3>1, <3>4, HubConstants
      <4>3. f.total % FaultWord = f.total /\ f.last % FaultWord = f.last
        BY <2>2, <4>1, RestOfLittle, HubConstants
      <4>4. delta = f.total - f.last /\ f.drained = f.last - f.first
        BY <2>2, <2>4, <2>5, <2>11, <3>1, <4>1, <4>3
      <4> QED
        BY <2>2, <2>9, <2>11, <4>4
    <3>5. g.previous = g.last % FaultWord /\ g.last <= g.total
      BY <2>2, <2>4, <2>9
    <3>6. FaultFits(g)
      BY <2>9, <3>3, <3>4, <3>5 DEF FaultFits
    <3> QED
      BY <2>8, <3>6
  <2> QED
    BY <2>2, <2>10, <2>11
<1> QED
  BY <1>1, <1>2

-----------------------------------------------------------------------------
(* The inductive invariant.                                                  *)
SourcesOf(t) == {t[i].source : i \in DOMAIN t}
HubTypes ==
    /\ initialized \in BOOLEAN /\ frozen \in BOOLEAN /\ session \in {"none", "running"}
    /\ sequence \in 0..MaxCollections
    /\ entries \in Seq(EntryStates) /\ KeysApart(entries)
TablePart ==
    IF frozen THEN initialized /\ Range(RuntimeSources) \subseteq SourcesOf(entries)
    ELSE /\ session = "none" /\ sequence = 0 /\ columns = <<>>
         /\ ring = [rows |-> <<>>, write |-> 1, count |-> 0]
         /\ latest = [sequence |-> 0, values |-> <<>>, series |-> <<>>]
WholeRows(es, cs, S, r, filling, last, q) ==
    /\ LaidOut(es, cs, S) /\ RingFits(es, cs, S, r, q)
    /\ filling \in TableRows(Len(cs), S) /\ last \in TableRows(Len(cs), S) /\ CellsFit(last, es, cs)
RowsPart ==
    frozen => \E S : WholeRows(entries, columns, S, ring, collecting, latest, sequence)
HubInv == HubTypes /\ TablePart /\ RowsPart /\ FaultFits(faults)

LEMMA HubInvAtFirst == HubTableInit => HubInv
<1>1. SUFFICES ASSUME HubTableInit PROVE HubInv
  OBVIOUS
<1>2. HubTypes
  <2>1. 0 \in 0..MaxCollections
    BY HubConstants
  <2>2. entries \in Seq(EntryStates) /\ KeysApart(entries)
    BY <1>1 DEF HubTableInit, KeysApart
  <2> QED
    BY <1>1, <2>1, <2>2 DEF HubTableInit, HubTypes
<1>3. TablePart /\ RowsPart
  BY <1>1 DEF HubTableInit, TablePart, RowsPart
<1>4. FaultFits(faults)
  BY <1>1 DEF HubTableInit, FaultFits, FaultStates
<1> QED
  BY <1>2, <1>3, <1>4 DEF HubInv

LEMMA RegisteringKeeps == ASSUME HubInv, NEW s \in ModuleSources, ModuleRegisters(s) PROVE HubInv'
<1>1. /\ entries' = RegisterSource(entries, s)
      /\ UNCHANGED <<initialized, frozen, columns, ring, collecting, latest, sequence, session, faults>>
  BY DEF ModuleRegisters
<1>2. s \in Src
  BY DEF Src
<1>3. HubTypes'
  BY <1>1, <1>2, RegisterKeeps DEF HubInv, HubTypes, KeysApart
<1>4. frozen => entries' = entries
  BY <1>1 DEF RegisterSource, Accepts
<1>5. TablePart' /\ RowsPart'
  BY <1>1, <1>4 DEF HubInv, TablePart, RowsPart
<1> QED
  BY <1>1, <1>3, <1>5 DEF HubInv

LEMMA FreezingKeeps ==
    ASSUME HubInv, ~frozen, NEW t \in Seq(EntryStates), KeysApart(t),
           \A s \in Range(RuntimeSources) : HasSource(t, s),
           initialized' = TRUE, Freeze(t), UNCHANGED <<sequence, session, faults>>
    PROVE  HubInv'
<1>1. PICK x : x = Layout(t)
  OBVIOUS
<1>2. x \in Layouts /\ LaysOut(x, t, Len(t))
  BY <1>1, LayoutIs
<1>3. PICK S \in Nat : S = x.series
  BY <1>2 DEF Layouts
<1>4. PICK empty : empty = EmptyRow(Len(x.columns), S)
  OBVIOUS
<1>5. /\ frozen' = TRUE /\ entries' = x.entries /\ columns' = x.columns
      /\ ring' = [ring EXCEPT !.rows = [r \in 1..HistoryRows |-> empty]]
      /\ collecting' = empty /\ latest' = empty
  BY <1>1, <1>3, <1>4 DEF Freeze
<1>6. LaidOut(entries', columns', S)
  BY <1>2, <1>3, <1>5 DEF LaysOut
<1>7. /\ entries' \in Seq(EntryStates) /\ Len(entries') = Len(t)
      /\ \A i \in 1..Len(t) : entries'[i].source = t[i].source
  BY <1>2, <1>5 DEF LaysOut, Layouts
<1>8. KeysApart(entries')
  BY <1>7 DEF KeysApart
<1>9. HubTypes'
  BY <1>5, <1>7, <1>8 DEF HubInv, HubTypes, KeysApart
<1>10. TablePart'
  <2>1. ASSUME NEW s \in Range(RuntimeSources) PROVE s \in SourcesOf(entries')
    <3>1. PICK i \in 1..Len(t) : t[i].source = s
      BY DEF HasSource
    <3>2. i \in DOMAIN (entries') /\ entries'[i].source = s
      BY <1>7, <3>1
    <3> QED
      BY <3>2 DEF SourcesOf
  <2> QED
    BY <1>5, <2>1 DEF TablePart, SourcesOf
<1>11. empty \in TableRows(Len(columns'), S) /\ CellsFit(empty, entries', columns') /\ empty.sequence = 0
  <2>1. Len(x.columns) \in Nat
    BY <1>2 DEF Layouts
  <2> QED
    BY <1>4, <1>5, <2>1, EmptyRowIs
<1>12. RingFits(entries', columns', S, ring', sequence')
  BY <1>5, HubConstants, QuotientAndRest, <1>11 DEF HubInv, TablePart, RingFits
<1>13. RowsPart'
  BY <1>5, <1>6, <1>11, <1>12 DEF RowsPart, WholeRows, CellsFit
<1> QED
  BY <1>9, <1>10, <1>13 DEF HubInv

LEMMA InitializeKeeps == ASSUME HubInv, Initialize PROVE HubInv'
<1>1. PICK t : t = RegisterAll(entries)
  OBVIOUS
<1>2. t \in Seq(EntryStates) /\ KeysApart(t)
  BY <1>1, RegisterAllKeeps DEF HubInv, HubTypes
<1>3. ~frozen
  BY DEF HubInv, TablePart, Initialize
<1>4. initialized' = TRUE /\ UNCHANGED <<sequence, session, faults>>
  BY DEF Initialize
<1>5. CASE (\A s \in Range(RuntimeSources) : HasSource(t, s)) /\ Freeze(t)
  BY <1>2, <1>3, <1>4, <1>5, FreezingKeeps
<1>6. CASE entries' = t /\ UNCHANGED <<frozen, columns, ring, collecting, latest>>
  BY <1>2, <1>4, <1>6, <1>3 DEF HubInv, HubTypes, KeysApart, TablePart, RowsPart
<1> QED
  BY <1>1, <1>5, <1>6 DEF Initialize, FreezeFails

LEMMA FaultKeeps == ASSUME HubInv, PageFault PROVE HubInv'
<1>1. /\ faults' = [faults EXCEPT !.total = @ + 1]
      /\ UNCHANGED <<initialized, entries, frozen, columns, ring, collecting, latest, sequence, session>>
  BY DEF PageFault
<1>2. HubTypes' /\ TablePart' /\ RowsPart'
  BY <1>1 DEF HubInv, HubTypes, TablePart, RowsPart, KeysApart
<1>3. FaultFits(faults')
  BY <1>1 DEF HubInv, FaultFits, FaultStates
<1> QED
  BY <1>2, <1>3 DEF HubInv

LEMMA ClearingKeeps ==
    ASSUME HubInv, frozen, ClearIntervals, session' \in {"none", "running"},
           UNCHANGED <<initialized, entries, frozen, columns, ring, collecting, sequence>>
    PROVE  HubInv'
<1>1. HubTypes' /\ TablePart'
  BY DEF HubInv, HubTypes, TablePart, KeysApart
<1>2. PICK S : WholeRows(entries, columns, S, ring, collecting, latest, sequence)
  BY DEF HubInv, RowsPart
<1>3. S \in Nat /\ Len(columns) \in Nat /\ latest \in TableRows(Len(columns), S)
  BY <1>2 DEF WholeRows, LaidOut
<1>4. Len(latest.values) = Len(columns) /\ Len(latest.series) = S
  BY <1>3 DEF TableRows
<1>5. PICK e : e = EmptyRow(Len(columns), S)
  OBVIOUS
<1>6. PICK q \in Nat : q = latest.sequence
  BY <1>3 DEF TableRows
<1>7. latest' = [e EXCEPT !.sequence = q]
  BY <1>4, <1>5, <1>6 DEF ClearIntervals
<1>8. e \in TableRows(Len(columns), S) /\ CellsFit(latest', entries, columns)
  BY <1>3, <1>5, <1>6, <1>7, EmptyRowIs
<1>9. latest' \in TableRows(Len(columns), S)
  BY <1>6, <1>7, <1>8 DEF TableRows
<1>10. RowsPart'
  BY <1>2, <1>8, <1>9 DEF RowsPart, WholeRows
<1>11. FaultFits(faults')
  BY DrainKeeps DEF HubInv, ClearIntervals
<1> QED
  BY <1>1, <1>10, <1>11 DEF HubInv

LEMMA CollectingKeeps == ASSUME HubInv, CollectInterval PROVE HubInv'
<1>1. PICK readable, reported : Collect(readable, reported)
  BY DEF CollectInterval
<1>2. /\ session = "running" /\ sequence < MaxCollections
      /\ UNCHANGED <<initialized, entries, frozen, columns, session>>
  BY DEF CollectInterval
<1>3. frozen
  BY <1>2 DEF HubInv, TablePart
<1>4. PICK S : WholeRows(entries, columns, S, ring, collecting, latest, sequence)
  BY <1>3 DEF HubInv, RowsPart
<1>5. /\ LaidOut(entries, columns, S) /\ RingFits(entries, columns, S, ring, sequence)
      /\ collecting \in TableRows(Len(columns), S)
  BY <1>4 DEF WholeRows
<1>6. PICK q \in Nat : q = sequence
  BY DEF HubInv, HubTypes
<1>7. PICK row \in Nat : row = q + 1
  OBVIOUS
<1>8. PICK filled : filled = [sequence |-> row, values |-> FilledValues(readable, row),
                              series |-> FilledSeries(reported, row)]
  OBVIOUS
<1>9. filled \in TableRows(Len(columns), S) /\ CellsFit(filled, entries, columns)
  BY <1>5, <1>8, FilledIs
<1>10. filled.sequence = row
  BY <1>8
<1>11. /\ sequence' = row
       /\ ring' = [rows |-> [ring.rows EXCEPT ![ring.write] = filled],
                   write |-> (ring.write % HistoryRows) + 1,
                   count |-> Min({ring.count + 1, HistoryRows})]
       /\ collecting' = [ring.rows[ring.write] EXCEPT !.sequence = row]
       /\ latest' = filled
       /\ faults' = DrainFaults(faults, FaultSource \in readable)
  BY <1>1, <1>6, <1>7, <1>8 DEF Collect
<1>12. FaultFits(faults')
  BY <1>11, DrainKeeps DEF HubInv
<1>13. HubTypes'
  <2>1. row \in 0..MaxCollections
    BY <1>2, <1>6, <1>7, HubConstants
  <2> QED
    BY <1>2, <1>11, <2>1 DEF HubInv, HubTypes, KeysApart
<1>14. TablePart'
  BY <1>2, <1>3 DEF HubInv, TablePart, SourcesOf
<1>15. PICK w : w = ring.write
  OBVIOUS
<1>16. w \in 1..HistoryRows /\ w = (q % HistoryRows) + 1 /\ PlaceIn(row) = w
  BY <1>5, <1>6, <1>7, <1>15, PlacesApart DEF RingFits
<1>17. ring.rows \in [1..HistoryRows -> TableRows(Len(columns), S)]
  BY <1>5 DEF RingFits
<1>18. collecting' \in TableRows(Len(columns), S)
  <2>1. PICK r : r = ring.rows[w]
    OBVIOUS
  <2>2. r \in TableRows(Len(columns), S)
    BY <1>16, <1>17, <2>1
  <2>3. collecting' = [r EXCEPT !.sequence = row]
    BY <1>11, <1>15, <2>1
  <2> QED
    BY <2>2, <2>3 DEF TableRows
<1>19. PICK after : after = [ring.rows EXCEPT ![w] = filled]
  OBVIOUS
<1>20. /\ after \in [1..HistoryRows -> TableRows(Len(columns), S)] /\ after[w] = filled
       /\ \A p \in 1..HistoryRows : p # w => after[p] = ring.rows[p]
  BY <1>9, <1>16, <1>17, <1>19
<1>21. ring'.rows = after /\ ring'.write = (w % HistoryRows) + 1
       /\ ring'.count = Min({ring.count + 1, HistoryRows})
  BY <1>11, <1>15, <1>19
<1>22. RingFits(entries, columns, S, ring', row)
  <2>1. ring'.write = (row % HistoryRows) + 1
    <3>1. ((q % HistoryRows) + 1) % HistoryRows = (q + 1) % HistoryRows
      BY RestNext, HubConstants
    <3> QED
      BY ONLY <1>7, <1>16, <1>21, <3>1, Zenon
  <2>2. ring'.count = IF row <= HistoryRows THEN row ELSE HistoryRows
    BY <1>5, <1>6, HubConstants, <1>21, MinOfTwo, <1>7 DEF RingFits
  <2>3. ASSUME NEW p \in 1..HistoryRows PROVE CellsFit(after[p], entries, columns)
    BY <1>9, <1>20, <1>5 DEF RingFits
  <2>4. ASSUME NEW j \in 1..row, row - j < HistoryRows PROVE after[PlaceIn(j)].sequence = j
    <3>1. CASE j = row
      BY <1>10, <1>16, <1>20, <3>1
    <3>2. CASE j # row
      <4>1. j \in 1..q /\ q + 1 - j < HistoryRows /\ q - j < HistoryRows
        BY <1>7, <2>4, <3>2, HubConstants
      <4>2. PlaceIn(j) \in 1..HistoryRows /\ PlaceIn(j) # w
        BY <1>16, <4>1, PlacesApart
      <4>3. ring.rows[PlaceIn(j)].sequence = j
        BY <1>5, <1>6, <4>1 DEF RingFits
      <4> QED
        BY <1>20, <4>2, <4>3
    <3> QED
      BY <3>1, <3>2
  <2> QED
    BY <1>20, <1>21, <2>1, <2>2, <2>3, <2>4 DEF RingFits
<1>23. WholeRows(entries', columns', S, ring', collecting', latest', sequence')
  BY <1>2, <1>5, <1>9, <1>11, <1>18, <1>22 DEF WholeRows
<1> QED
  BY <1>12, <1>13, <1>14, <1>23 DEF HubInv, RowsPart

LEMMA HubInvKept == HubInv /\ [HubTableNext]_hubTableVars => HubInv'
<1>1. SUFFICES ASSUME HubInv, [HubTableNext]_hubTableVars PROVE HubInv'
  OBVIOUS
<1>2. CASE StartTable
  BY <1>2, <1>1, ClearingKeeps DEF StartTable
<1>3. CASE StopTable
  BY <1>3, <1>1, ClearingKeeps DEF StopTable, HubInv, TablePart
<1>4. CASE UNCHANGED hubTableVars
  BY <1>1, <1>4 DEF hubTableVars, HubInv, HubTypes, TablePart, RowsPart, KeysApart, SourcesOf
<1> QED
  BY <1>1, <1>2, <1>3, <1>4, RegisteringKeeps, InitializeKeeps, FaultKeeps, CollectingKeeps
     DEF HubTableNext

(* What the invariant says of the properties.                                *)
LEMMA TableWhole == HubInv => TableIsWhole
<1>1. SUFFICES ASSUME HubInv PROVE TableIsWhole
  OBVIOUS
<1>2. CASE frozen
  <2>1. PICK S : LaidOut(entries, columns, S)
    BY <1>1, <1>2 DEF HubInv, RowsPart, WholeRows
  <2>2. KeysApart(entries) /\ DOMAIN entries = 1..Len(entries)
    BY <1>1 DEF HubInv, HubTypes
  <2>3. IsInjective(columns)
    BY <2>1, <2>2, ColumnsDiffer
  <2>4. \A i \in DOMAIN entries :
           SubSeq(columns, entries[i].offset + 1, entries[i].offset + entries[i].count)
               = SchemaOf[entries[i].source]
    BY <2>1, <2>2, SpanIs
  <2>5. Range(RuntimeSources) \subseteq {entries[i].source : i \in DOMAIN entries}
    BY <1>1, <1>2 DEF HubInv, TablePart, SourcesOf
  <2> QED
    BY <1>2, <2>3, <2>4, <2>5 DEF TableIsWhole
<1>3. CASE ~frozen
  BY <1>1, <1>3 DEF HubInv, TablePart, TableIsWhole
<1> QED
  BY <1>2, <1>3

LEMMA CopiedIs ==
    ASSUME NEW S, WholeRows(entries, columns, S, ring, collecting, latest, sequence), sequence \in Nat,
           NEW column \in DOMAIN columns, NEW room \in 1..HistoryRows, NEW copied,
           copied = ColumnHistory(column, room), NEW k \in DOMAIN copied, copied[k] # NoCell
    PROVE  copied[k].row = sequence - Len(copied) + k
<1>1. PICK count : count = Min({room, ring.count})
  OBVIOUS
<1>2. PICK q \in Nat : q = sequence
  OBVIOUS
<1>3. /\ LaidOut(entries, columns, S) /\ RingFits(entries, columns, S, ring, q)
  BY <1>2 DEF WholeRows
<1>4. /\ ring.rows \in [1..HistoryRows -> TableRows(Len(columns), S)]
      /\ ring.write = (q % HistoryRows) + 1
      /\ ring.count = IF q <= HistoryRows THEN q ELSE HistoryRows
      /\ \A p \in 1..HistoryRows : CellsFit(ring.rows[p], entries, columns)
      /\ \A j \in 1..q : q - j < HistoryRows => ring.rows[PlaceIn(j)].sequence = j
  BY <1>3 DEF RingFits
<1>5. q % HistoryRows \in 0..(HistoryRows - 1)
  BY HubConstants
<1>6. count \in Nat /\ count <= room /\ count <= HistoryRows /\ count <= q /\ ring.count \in Nat
  <2>1. ring.count \in Nat /\ ring.count <= q /\ ring.count <= HistoryRows
    BY <1>4, HubConstants
  <2>2. count = IF room <= ring.count THEN room ELSE ring.count
    BY <1>1, <2>1, MinOfTwo
  <2> QED
    BY <2>1, <2>2
<1>7. PICK m \in Nat : m = q % HistoryRows
  BY <1>5
<1>8. PICK c \in Nat : c = ring.count
  BY <1>6
<1>9. copied = [i \in 1..count |->
         ring.rows[((m + 1 - 1 + HistoryRows - c + c - count + i - 1) % HistoryRows) + 1].values[column]]
  <2>1. copied = [i \in 1..count |->
           ring.rows[((ring.write - 1 + HistoryRows - ring.count + ring.count - count + i - 1)
                      % HistoryRows) + 1].values[column]]
    BY <1>1 DEF ColumnHistory
  <2>2. ring.write = m + 1
    BY <1>4, <1>7
  <2> QED
    BY ONLY <1>8, <2>1, <2>2, SMTT(30)
<1>10. k \in 1..count /\ Len(copied) = count
  BY <1>9, <1>6, SMTT(30)
<1>11. PICK e \in 1..HistoryRows : e = count - k + 1
  BY <1>6, <1>10, HubConstants
<1>12. m + 1 - 1 + HistoryRows - c + c - count + k - 1 = m + HistoryRows - e
  BY <1>6, <1>10, <1>11, HubConstants
<1>13. e <= q
  BY <1>6, <1>10, <1>11
<1>14. PICK j \in 1..q : j = q - e + 1
  BY <1>11, <1>13, HubConstants
<1>15. ((m + HistoryRows - e) % HistoryRows) + 1 = PlaceIn(j)
  <2>1. ((q % HistoryRows) + HistoryRows - e) % HistoryRows = (q - e) % HistoryRows
    BY <1>13, RestBack, HubConstants
  <2>2. j - 1 = q - e
    BY <1>11, <1>14, HubConstants
  <2> QED
    BY ONLY <1>7, <2>1, <2>2, Zenon DEF PlaceIn
<1>16. copied[k] = ring.rows[PlaceIn(j)].values[column]
  BY ONLY <1>9, <1>10, <1>12, <1>15, Zenon
<1>17. PlaceIn(j) \in 1..HistoryRows
  BY PlacesApart
<1>18. PICK r : r = ring.rows[PlaceIn(j)]
  OBVIOUS
<1>19. r \in TableRows(Len(columns), S) /\ CellsFit(r, entries, columns)
  BY <1>4, <1>17, <1>18
<1>20. column \in DOMAIN r.values
  BY <1>3, <1>19 DEF TableRows, LaidOut
<1>21. r.values[column].row = r.sequence
  BY <1>16, <1>18, <1>19, <1>20 DEF CellsFit
<1>22. q - j < HistoryRows
  BY <1>11, <1>14, HubConstants
<1>23. r.sequence = j
  BY <1>4, <1>18, <1>22
<1>24. j = q - count + k
  BY <1>6, <1>10, <1>11, <1>14
<1> QED
  BY <1>2, <1>10, <1>16, <1>18, <1>21, <1>23, <1>24

LEMMA RowsTheirs == HubInv => RowsAreTheirs
<1>1. SUFFICES ASSUME HubInv PROVE RowsAreTheirs
  OBVIOUS
<1>2. \A row : CellsFit(row, entries, columns) => CellsAreTheirs(row)
  BY DEF CellsFit, CellsAreTheirs
<1>3. CASE frozen
  <2>1. PICK S : WholeRows(entries, columns, S, ring, collecting, latest, sequence)
    BY <1>1, <1>3 DEF HubInv, RowsPart
  <2>2. CellsAreTheirs(latest)
    BY <1>2, <2>1 DEF WholeRows
  <2>3. \A r \in DOMAIN ring.rows : CellsAreTheirs(ring.rows[r])
    BY <1>2, <2>1 DEF WholeRows, RingFits
  <2>4. sequence \in Nat
    BY <1>1 DEF HubInv, HubTypes
  <2>5. ASSUME NEW column \in DOMAIN columns, NEW room \in 1..HistoryRows,
               NEW k \in DOMAIN ColumnHistory(column, room), ColumnHistory(column, room)[k] # NoCell
        PROVE  ColumnHistory(column, room)[k].row = sequence - Len(ColumnHistory(column, room)) + k
    BY <2>1, <2>4, <2>5, CopiedIs
  <2> QED
    BY <2>2, <2>3, <2>5 DEF RowsAreTheirs
<1>4. CASE ~frozen
  BY <1>1, <1>4 DEF HubInv, TablePart, CellsAreTheirs, RowsAreTheirs
<1> QED
  BY <1>3, <1>4

LEMMA HubTyped == HubInv => HubTableTypeOK
<1>1. SUFFICES ASSUME HubInv PROVE HubTableTypeOK
  OBVIOUS
<1>2. /\ initialized \in BOOLEAN /\ frozen \in BOOLEAN
      /\ session \in {"none", "running"} /\ sequence \in 0..MaxCollections
  BY <1>1 DEF HubInv, HubTypes
<1>3. \A i \in DOMAIN entries : entries[i].source \in ModuleSources \cup Range(RuntimeSources)
  <2>1. entries \in Seq(EntryStates)
    BY <1>1 DEF HubInv, HubTypes
  <2>2. \A i \in DOMAIN entries : entries[i] \in EntryStates
    BY <2>1
  <2> QED
    BY <2>2 DEF EntryStates, Src
<1>4. ring.count \in 0..HistoryRows /\ ring.write \in 1..HistoryRows
  <2>1. CASE frozen
    <3>1. PICK S : RingFits(entries, columns, S, ring, sequence)
      BY <1>1, <2>1 DEF HubInv, RowsPart, WholeRows
    <3>2. sequence \in Nat
      BY <1>1 DEF HubInv, HubTypes
    <3>3. ring.write \in 1..HistoryRows
      BY <3>1, <3>2, PlacesApart DEF RingFits
    <3>4. ring.count = IF sequence <= HistoryRows THEN sequence ELSE HistoryRows
      BY <3>1 DEF RingFits
    <3> QED
      BY <3>2, <3>3, <3>4, HubConstants
  <2>2. CASE ~frozen
    BY <1>1, <2>2, HubConstants DEF HubInv, TablePart
  <2> QED
    BY <2>1, <2>2
<1> QED
  BY <1>2, <1>3, <1>4 DEF HubTableTypeOK

LEMMA FaultsTold == HubInv => FaultsAddUp
  BY DEF HubInv, FaultFits, FaultStates, FaultsAddUp

(* The part of RowsAddUp about the hub's table: once frozen, a key names one  *)
(* column and every source has its own, each cell of a row, in its values     *)
(* and its series, is empty or what its source wrote for that very row, the   *)
(* history of a column is its newest rows in order, and the page faults       *)
(* drained are those between the first and the last reading, for any sources, *)
(* schemas, failures and number of rows (AdTelemetryHub.cpp).                 *)
HubIsRight == HubTableTypeOK /\ TableIsWhole /\ RowsAreTheirs /\ FaultsAddUp
THEOREM HubAlwaysAddsUp == HubTableSpec => []HubIsRight
<1>1. HubInv => HubIsRight
  BY HubTyped, TableWhole, RowsTheirs, FaultsTold DEF HubIsRight
<1> QED
  BY <1>1, HubInvAtFirst, HubInvKept, PTL DEF HubTableSpec

-----------------------------------------------------------------------------
(***************************************************************************)
(* The parts together: RowsAddUp.  A step of the core is one of each part, *)
(* or leaves it as it is.                                                  *)
(***************************************************************************)
LEMMA StepsOfParts ==
    [MCNext]_coreVars =>
        /\ [FrameNext]_frameVars /\ [HubTableNext]_hubTableVars
        /\ [LanesNext]_laneVars /\ [LogNext]_logVars /\ UNCHANGED part
  BY DEF coreVars, Others, MCNext

LEMMA PartsAreRight ==
    FramesAddUp /\ LanesAddUp /\ LogIsRight /\ HubIsRight => RowsAddUp
<1>1. SUFFICES ASSUME FramesAddUp, LanesAddUp, LogIsRight, HubIsRight PROVE RowsAddUp
  OBVIOUS
<1>2. PICK p : p = part
  OBVIOUS
<1>3. \/ p = "frames" \/ p = "hub" \/ p = "lanes" \/ p = "log"
      \/ p \notin {"frames", "hub", "lanes", "log"}
  OBVIOUS
<1> QED
  BY <1>1, <1>2, <1>3 DEF RowsAddUp, FramesAddUp, LanesAddUp, LogIsRight, HubIsRight

(* The telemetry's rows, frames and sources, the counts of operations and    *)
(* the lines of the log add up, in every behaviour of the core and for every *)
(* value of the constants (AdTelemetryHub.cpp, AdOperationProfile.cpp,       *)
(* AdLogControl.cpp).                                                        *)
THEOREM RowsAlwaysAddUp == MCSpec => []RowsAddUp
<1>1. MCInit => FrameStart /\ HubTableInit /\ LanesInit /\ LogInit
  BY DEF MCInit
<1>2. MCSpec => FrameSpec /\ HubTableSpec /\ LanesSpec /\ LogSpec
  BY <1>1, StepsOfParts, PTL DEF MCSpec, FrameSpec, HubTableSpec, LanesSpec, LogSpec
<1> QED
  BY <1>2, PartsAreRight, FramesAlwaysAddUp, HubAlwaysAddsUp, LanesAlwaysAddUp, LinesAlwaysAddUp, PTL

=============================================================================
