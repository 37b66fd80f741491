---------------------------- MODULE ModuleManager ----------------------------
(***************************************************************************)
(* The life of Addictol's modules: Plugin::PreloadInit, Plugin::Init and the     *)
(* F4SE message listener (AdPlugin.cpp) drive ModuleManager                *)
(* (AdModuleManager.cpp), which queries the modules of a stage, drops      *)
(* those that refuse, installs the others and lets them listen.            *)
(*                                                                         *)
(* A registration is a module at a stage: some modules are registered at   *)
(* load and again for a message.  DoQuery and DoInstall belong to the      *)
(* modules and may succeed, fail, raise, or decline with Skip.             *)
(***************************************************************************)
EXTENDS Naturals, FiniteSets

CONSTANTS
    Modules,        \* the modules
    Messages,       \* the F4SE messages modules are registered for
    Preloads,       \* the modules registered by AdRegisterPreloadModules
    Registered,     \* the other registrations: <<module, stage>>
    Listeners,      \* the messages modules listen to: <<module, message>>
    PapyrusListeners,   \* the modules with a Papyrus listener
    Disabled,       \* the modules whose setting is off
    Defended        \* the modules with HasProcessDefender

Stages == Messages \cup {"kLoad"}

ASSUME RegistrationAssumption ==
    /\ IsFiniteSet(Modules) /\ IsFiniteSet(Messages)
    /\ Messages \cap {"none", "preload", "init", "kLoad"} = {}
    /\ {"kGameDataReady", "kGameLoaded"} \subseteq Messages
    /\ Preloads \subseteq Modules
    /\ Registered \subseteq Modules \X Stages
    /\ \A m \in Preloads : <<m, "kLoad">> \notin Registered
    /\ \A m \in Modules : <<m, "kPostLoadGame">> \notin Registered
    /\ Listeners \subseteq Modules \X Messages
    /\ PapyrusListeners \subseteq Modules
    /\ Disabled \subseteq Modules /\ Defended \subseteq Modules

VARIABLES
    originalGame,   \* RELEX::IsRuntimeOG: F4SE has no preload stage
    phase,          \* what the running call is doing
    call,           \* the running call: "preload", "init" or a message
    data,           \* the message's data, a bool for kGameDataReady
    todo,           \* the modules the running loop has still to visit
    refused,        \* needRemovedList of the running query
    isPreloadInit, isInit, isInstall,
    arrived,        \* the messages that have come, with their data
    pool,           \* modules (for kLoad) and rl_modules (for the messages)
    outcome,        \* the outcome of each registration; "none" before Register
    tally,          \* the five counters
    patched,        \* the modules with patches in the game's image
    snapshot,       \* what the defender would restore
    taken,          \* m_take
    installs,       \* how often DoInstall has returned true, per registration
    heard           \* the modules whose listener has run

loopVars == <<data, todo, refused>>
startVars == <<originalGame, isPreloadInit, isInit, isInstall, arrived>>
recordVars == <<outcome, tally>>
imageVars == <<patched, snapshot, taken>>
managerVars == <<phase, call, loopVars, startVars, pool, recordVars,
          imageVars, installs, heard>>

Registrations == Modules \X Stages
Counted == {"Installed", "Disabled", "Skipped", "FailedQuery", "FailedInstall"}
Outcomes == Counted \cup {"none", "Pending"}
Phases == {"idle", "query", "install", "listen"}
Calls == {"none", "preload", "init"} \cup Messages

\* The stage the running call works on.
Stage == IF call \in Messages THEN call ELSE "kLoad"

ManagerStart ==
    /\ originalGame \in BOOLEAN
    /\ phase = "idle" /\ call = "none" /\ data = FALSE
    /\ todo = {} /\ refused = {}
    /\ isPreloadInit = FALSE /\ isInit = FALSE /\ isInstall = FALSE
    /\ arrived = {}
    /\ pool = [s \in Stages |-> {}]
    /\ outcome = [r \in Registrations |-> "none"]
    /\ tally = [o \in Counted |-> 0]
    /\ patched = {} /\ snapshot = {} /\ taken = FALSE
    /\ installs = [r \in Registrations |-> 0]
    /\ heard = {}

\* Register of all of regs: a name already in the stage's map is turned down.
Register(regs) ==
    /\ pool' = [s \in Stages |-> pool[s] \cup {m \in Modules : <<m, s>> \in regs}]
    /\ outcome' = [r \in Registrations |->
                     IF r \in regs /\ r[1] \notin pool[r[2]] THEN "Pending"
                     ELSE outcome[r]]

\* RecordOutcome: the registration's counter moves from its old outcome to o.
RecordOutcome(m, o) ==
    LET old == outcome[<<m, Stage>>]
    IN  /\ outcome' = [outcome EXCEPT ![<<m, Stage>>] = o]
        /\ tally' = [c \in Counted |->
              (IF c = old /\ tally[c] > 0 THEN tally[c] - 1 ELSE tally[c])
                + (IF c = o THEN 1 ELSE 0)]

-----------------------------------------------------------------------------
(* The calls F4SE makes, on the game's main thread.                        *)

PreloadRegistrations == Preloads \X {"kLoad"}

\* Starts the query loop over the modules of the stage.
Query(ms) ==
    /\ phase' = "query"
    /\ todo' = ms
    /\ refused' = {}

PreloadInit ==
    /\ originalGame \in BOOLEAN
    /\ phase = "idle"
    /\ ~originalGame /\ ~isPreloadInit /\ ~isInit
    /\ call' = "preload"
    /\ Register(PreloadRegistrations)
    /\ Query(pool'["kLoad"])
    /\ UNCHANGED <<data, startVars, tally, imageVars, installs, heard>>

\* AdRegisterModules registers the preload modules itself where F4SE has no
\* preload stage.
PluginInit ==
    /\ originalGame \in BOOLEAN
    /\ phase = "idle"
    /\ ~isInit
    /\ call' = "init"
    /\ Register(Registered \cup (IF originalGame THEN PreloadRegistrations ELSE {}))
    /\ Query(pool'["kLoad"])
    /\ UNCHANGED <<data, startVars, tally, imageVars, installs, heard>>

\* Each message comes once; kGameDataReady and kPostLoadGame, whose data is a
\* bool, once with each value.
Message(msg, loaded) ==
    /\ phase = "idle"
    /\ isInit
    /\ msg \notin {"kGameDataReady", "kPostLoadGame"} => loaded
    /\ <<msg, loaded>> \notin arrived
    /\ arrived' = arrived \cup {<<msg, loaded>>}
    /\ call' = msg
    /\ data' = loaded
    /\ IF isInstall THEN phase' = "listen" /\ UNCHANGED <<todo, refused>>
       ELSE Query(pool[msg])
    /\ UNCHANGED <<originalGame, isPreloadInit, isInit, isInstall, pool,
                   recordVars, imageVars, installs, heard>>

-----------------------------------------------------------------------------
(* QueryLoadAll and QueryAllByMessage.                                     *)

\* A disabled module is not asked; one that raises is taken to have failed.
QueryModule(m) ==
    /\ phase = "query"
    /\ m \in todo
    /\ todo' = todo \ {m}
    /\ \/ /\ m \in Disabled
          /\ RecordOutcome(m, "Disabled")
          /\ refused' = refused \cup {m}
       \/ /\ m \notin Disabled
          /\ \E o \in {"Skipped", "FailedQuery"} : RecordOutcome(m, o)
          /\ refused' = refused \cup {m}
       \/ /\ m \notin Disabled
          /\ UNCHANGED <<recordVars, refused>>
    /\ UNCHANGED <<phase, call, data, startVars, pool, imageVars, installs, heard>>

(* Mutant: the modules that refused stay in the map.                       *)
QueryDoneKeeping ==
    /\ phase = "query"
    /\ todo = {}
    /\ phase' = "install"
    /\ todo' = IF call = "kGameDataReady" /\ ~data THEN {} ELSE pool[Stage]
    /\ UNCHANGED <<call, data, refused, startVars, pool, recordVars, imageVars,
                   installs, heard>>

(* Mutant: the data of kGameDataReady is read the wrong way round.         *)
QueryDoneInverted ==
    /\ phase = "query"
    /\ todo = {}
    /\ pool' = [pool EXCEPT ![Stage] = @ \ refused]
    /\ phase' = "install"
    /\ todo' = IF call = "kGameDataReady" /\ data THEN {} ELSE pool'[Stage]
    /\ UNCHANGED <<call, data, refused, startVars, recordVars, imageVars,
                   installs, heard>>

\* The modules that refused are dropped; a kGameDataReady without data
\* installs nothing yet.
QueryDone ==
    /\ phase = "query"
    /\ todo = {}
    /\ pool' = [pool EXCEPT ![Stage] = @ \ refused]
    /\ phase' = "install"
    /\ todo' = IF call = "kGameDataReady" /\ ~data THEN {} ELSE pool'[Stage]
    /\ UNCHANGED <<call, data, refused, startVars, recordVars, imageVars,
                   installs, heard>>

-----------------------------------------------------------------------------
(* InstallLoadAll and InstallAllByMessage.                                 *)

(* Mutant: the image is not copied again while a snapshot is held.         *)
TakeSnapshotOnce(m) ==
    IF m \in Defended /\ ~taken THEN snapshot' = patched ELSE UNCHANGED snapshot

\* The defender copies the image before it installs a module it defends.
TakeSnapshot(m) ==
    IF m \in Defended THEN snapshot' = patched ELSE UNCHANGED snapshot

\* RestoreFromSnapshot after a failure, m_take being set by TakeSnapshot;
\* without a defender some patches may stay.
AfterFailure(m) ==
    IF m \in Defended
    THEN patched' = snapshot' /\ taken' = FALSE
    ELSE patched' \in {patched, patched \cup {m}} /\ UNCHANGED taken

\* DoInstall of a module, and what the manager makes of its result.
InstallModule(m) ==
    /\ phase = "install"
    /\ m \in todo
    /\ todo' = todo \ {m}
    /\ TakeSnapshot(m)
    /\ \/ /\ RecordOutcome(m, "Installed")
          /\ patched' = patched \cup {m}
          /\ taken' = (taken \/ m \in Defended)
          /\ installs' = [installs EXCEPT ![<<m, Stage>>] = @ + 1]
       \/ /\ \E o \in {"Skipped", "FailedInstall"} : RecordOutcome(m, o)
          /\ AfterFailure(m)
          /\ UNCHANGED installs
    /\ UNCHANGED <<phase, call, data, refused, startVars, pool, heard>>

(* Mutant: the preload modules stay in the map of the load stage.          *)
PreloadDoneKeeping ==
    /\ phase = "install"
    /\ todo = {}
    /\ call = "preload"
    /\ isPreloadInit' = TRUE
    /\ phase' = "idle" /\ call' = "none"
    /\ UNCHANGED <<loopVars, originalGame, isInit, isInstall, arrived, pool,
                   recordVars, imageVars, installs, heard>>

(* Mutant: unregistering takes the records of the modules with it.         *)
PreloadDoneForgetting ==
    /\ phase = "install"
    /\ todo = {}
    /\ call = "preload"
    /\ pool' = [pool EXCEPT !["kLoad"] = {}]
    /\ outcome' = [r \in Registrations |->
                     IF r \in PreloadRegistrations THEN "none" ELSE outcome[r]]
    /\ isPreloadInit' = TRUE
    /\ phase' = "idle" /\ call' = "none"
    /\ UNCHANGED <<loopVars, originalGame, isInit, isInstall, arrived,
                   tally, imageVars, installs, heard>>

\* InstallPreloadAll ends with UnregisterPreloadAll.
PreloadDone ==
    /\ phase = "install"
    /\ todo = {}
    /\ call = "preload"
    /\ pool' = [pool EXCEPT !["kLoad"] = {}]
    /\ isPreloadInit' = TRUE
    /\ phase' = "idle" /\ call' = "none"
    /\ UNCHANGED <<loopVars, originalGame, isInit, isInstall, arrived,
                   recordVars, imageVars, installs, heard>>

InitDone ==
    /\ phase = "install"
    /\ todo = {}
    /\ call = "init"
    /\ isInit' = TRUE
    /\ phase' = "idle" /\ call' = "none"
    /\ UNCHANGED <<loopVars, originalGame, isPreloadInit, isInstall, arrived, pool,
                   recordVars, imageVars, installs, heard>>

\* kGameLoaded is the last message that installs anything.
MessageDone ==
    /\ phase = "install"
    /\ todo = {}
    /\ call \in Messages
    /\ isInstall' = (call = "kGameLoaded")
    /\ phase' = "listen"
    /\ UNCHANGED <<call, loopVars, originalGame, isPreloadInit, isInit,
                   arrived, pool, recordVars, imageVars, installs, heard>>

\* ListenerLoadAllByMessage, after any install the message triggers; a
\* kPostLoadGame without data is not passed on.
Listen ==
    /\ phase = "listen"
    /\ IF call = "kPostLoadGame" /\ ~data THEN UNCHANGED heard
       ELSE heard' = heard \cup {m \in pool["kLoad"] : <<m, call>> \in Listeners}
    /\ phase' = "idle" /\ call' = "none"
    /\ UNCHANGED <<loopVars, startVars, pool, recordVars, imageVars,
                   installs>>

\* ListenerAllPapyrus, when the game makes a Papyrus virtual machine.
ListenPapyrus ==
    /\ phase = "idle"
    /\ isInit
    /\ heard' = heard \cup (pool["kLoad"] \cap PapyrusListeners)
    /\ UNCHANGED <<phase, call, loopVars, startVars, pool, recordVars,
                   imageVars, installs>>

ManagerNext ==
    \/ PreloadInit
    \/ PluginInit
    \/ \E msg \in Messages, loaded \in BOOLEAN : Message(msg, loaded)
    \/ \E m \in Modules : QueryModule(m) \/ InstallModule(m)
    \/ QueryDone
    \/ PreloadDone
    \/ InitDone
    \/ MessageDone
    \/ Listen
    \/ ListenPapyrus

ManagerSpec == ManagerStart /\ [][ManagerNext]_managerVars

-----------------------------------------------------------------------------
(* Properties.                                                             *)

\* Every variable keeps its type; in particular no registration is installed
\* twice, although modules are registered in two stages, the load stage's map is
\* used by two calls and messages are repeated.
ManagerTypeOK ==
    /\ originalGame \in BOOLEAN
    /\ phase \in Phases /\ call \in Calls /\ data \in BOOLEAN
    /\ todo \subseteq Modules /\ refused \subseteq Modules
    /\ isPreloadInit \in BOOLEAN /\ isInit \in BOOLEAN /\ isInstall \in BOOLEAN
    /\ arrived \subseteq Messages \X BOOLEAN
    /\ pool \in [Stages -> SUBSET Modules]
    /\ outcome \in [Registrations -> Outcomes]
    /\ tally \in [Counted -> 0..Cardinality(Registrations)]
    /\ patched \subseteq Modules /\ snapshot \subseteq Modules /\ taken \in BOOLEAN
    /\ installs \in [Registrations -> 0..1]
    /\ heard \subseteq Modules

\* The counters the menu and the telemetry show are those of the outcomes that
\* ModuleStatuses lists (TallyModuleOutcomes), however often an outcome changes.
TallyIsOutcomes ==
    \A o \in Counted :
        tally[o] = Cardinality({r \in Registrations : outcome[r] = o})

\* A module that is disabled or fails its query is out for good in that stage,
\* and one refused at load never hears a message or a Papyrus machine.
RefusalIsFinal ==
    [][\A r \in Registrations :
          outcome[r] \in {"Disabled", "FailedQuery"} =>
              /\ outcome'[r] = outcome[r]
              /\ installs'[r] = installs[r]
              /\ r[2] = "kLoad" /\ r[1] \in heard' => r[1] \in heard]_managerVars

\* The image holds the patches of every installed module, whatever was restored
\* after it, and none of a defended module that installed in no stage.
DefendedImage ==
    \A m \in Modules :
        /\ (\E s \in Stages : outcome[<<m, s>>] = "Installed") => m \in patched
        /\ (m \in Defended /\ m \in patched) =>
              \E s \in Stages : installs[<<m, s>>] > 0

\* Between the calls, until kGameLoaded and when its listeners run, the only
\* registrations without an outcome wait for a message that has not come, or
\* come without data.
StagesAreSettled ==
    ((phase = "idle" /\ isInit /\ ~isInstall)
        \/ (phase = "listen" /\ isInstall /\ call = "kGameLoaded")) =>
        \A r \in Registrations :
            outcome[r] = "Pending" =>
                r[2] \in Messages /\ <<r[2], TRUE>> \notin arrived

\* The outcomes, the tally shown of them, the modules still queued or listening and
\* what is changed of the game's image agree at every stage of start-up.
OutcomesAgree == ManagerTypeOK /\ TallyIsOutcomes /\ StagesAreSettled /\ DefendedImage

=============================================================================
