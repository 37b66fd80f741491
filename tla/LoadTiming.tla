------------------------------ MODULE LoadTiming ------------------------------
(***************************************************************************)
(* How long starting the game and loading a save take                      *)
(* (Modules/AdModuleFormLoadTiming.cpp, AdModuleSaveLoadTiming.cpp and     *)
(* AdLoadTiming.h).  Two detours time the plugin files, call sites of      *)
(* InitGameData time the steps of starting up, and detours of four         *)
(* functions time the steps of a load; F4SE's messages and the loading     *)
(* menu give the ends of the longer spans.                                 *)
(*                                                                         *)
(* The game's own order is external: the game-data thread is started after *)
(* the plugins, sends kGameDataReady at the end of its work and returns    *)
(* before the main thread sends kGameLoaded; loads follow, each announced  *)
(* before and after, and the loading menu closes after a load.  Other      *)
(* threads call the timed functions for cells and quests at any time.  The *)
(* clock is QueryPerformanceCounter, which never goes back.  What a ring   *)
(* does with a record is in BurstSeries; the formatting of names and the   *)
(* byte signatures of targets are left out.                                *)
(***************************************************************************)
EXTENDS Integers, FiniteSets

CONSTANTS
    Callers,        \* threads that call timed functions, the main one among them
    Main,
    LoadSteps,      \* kSaveStepNames
    EndStep,        \* end_load_game
    MaxTime,        \* bound: readings of the clock
    MaxLoads        \* bound: saves loaded

ASSUME TimingAssumption ==
    /\ Main \in Callers /\ EndStep \in LoadSteps
    /\ LoadSteps \cap {"none", "pre_load_to_post_load", "pre_load_to_loading_closed"} = {}
    /\ MaxTime \in Nat \ {0} /\ MaxLoads \in Nat

Times == 0..MaxTime     \* 0 stands for no reading

VARIABLES
    clock,
    constructHook, compileHook,     \* [in |-> detoured, original |-> known] 
    timersIn,       \* the init step call sites are redirected
    loadQpc, menuQpc, startupRecorded, canLoadRecorded,     \* ModuleFormLoadTiming's
    startupStage,   \* how far the game has started
    startupSpans,   \* [bucket, from, to] of series startup
    timingInstalled, preLoadQpc,    \* ModuleSaveLoadTiming's m_installed and m_preLoadQpc
    inLoad,         \* the load under way: its number, or 0
    menuUp,         \* the loading menu is open
    loadsBegun,
    timedCall,      \* each thread's call under way: [step, start], or none
    toRecord,       \* what a thread is about to record: a span, or none
    recording,      \* threads inside Record, behind m_recordMutex
    saveSpans       \* [bucket, from, to] recorded of series save

formVars == <<constructHook, compileHook, timersIn, loadQpc, menuQpc, startupRecorded,
              canLoadRecorded, startupStage, startupSpans>>
saveVars == <<timingInstalled, preLoadQpc, inLoad, menuUp, loadsBegun, timedCall, toRecord,
              recording, saveSpans>>
timingVars == <<clock, formVars, saveVars>>

None0 == [step |-> "none", start |-> 0]
NoSpan == [bucket |-> "none", from |-> 0, to |-> 0]
Hook(isIn, known) == [in |-> isIn, original |-> known]

TimingTypeOK ==
    /\ clock \in Times /\ {loadQpc, menuQpc, preLoadQpc} \subseteq Times
    /\ {timersIn, startupRecorded, canLoadRecorded, timingInstalled, menuUp} \subseteq BOOLEAN
    /\ {constructHook, compileHook} \subseteq [in : BOOLEAN, original : BOOLEAN]
    /\ startupStage \in {"plugins", "data", "ready", "returned", "menu"}
    /\ inLoad \in 0..MaxLoads /\ loadsBegun \in 0..MaxLoads
    /\ timedCall \in [Callers -> [step : LoadSteps \cup {"none"}, start : Times]]
    /\ recording \subseteq Callers
    /\ \A s \in saveSpans : s.from <= s.to

TimingStart ==
    /\ clock = 1
    /\ constructHook = Hook(FALSE, FALSE) /\ compileHook = Hook(FALSE, FALSE)
    /\ timersIn = FALSE /\ loadQpc = 0 /\ menuQpc = 0
    /\ startupRecorded = FALSE /\ canLoadRecorded = FALSE
    /\ startupStage = "plugins" /\ startupSpans = {}
    /\ timingInstalled = FALSE /\ preLoadQpc = 0 /\ inLoad = 0 /\ menuUp = FALSE
    /\ loadsBegun = 0 /\ timedCall = [t \in Callers |-> None0]
    /\ toRecord = [t \in Callers |-> NoSpan] /\ recording = {} /\ saveSpans = {}

ClockTick ==
    /\ clock < MaxTime /\ clock' = clock + 1 /\ UNCHANGED <<formVars, saveVars>>

----------------------------------------------------------------------------
\* Starting the game.

\* ModuleFormLoadTiming::DoInstall: the signatures may not match, either detour
\* may fail, and the first may then not be removable; the call sites may hold
\* other bytes, and then none of them is timed.
InstallForgetting ==    \* the original is forgotten whether or not it was removed
    /\ startupStage = "plugins" /\ startupStage' = "data"
    /\ \/ UNCHANGED <<constructHook, compileHook, timersIn, loadQpc>>
       \/ /\ \E removed \in BOOLEAN : constructHook' = Hook(~removed, FALSE)
          /\ UNCHANGED <<compileHook, timersIn, loadQpc>>
       \/ /\ constructHook' = Hook(TRUE, TRUE) /\ compileHook' = Hook(TRUE, TRUE)
          /\ timersIn' \in BOOLEAN /\ loadQpc' = clock
    /\ UNCHANGED <<clock, menuQpc, startupRecorded, canLoadRecorded, startupSpans, saveVars>>

InstallFormTiming ==
    /\ startupStage = "plugins" /\ startupStage' = "data"
    /\ \/ UNCHANGED <<constructHook, compileHook, timersIn, loadQpc>>
       \/ /\ \E removed \in BOOLEAN : constructHook' = Hook(~removed, ~removed)
          /\ UNCHANGED <<compileHook, timersIn, loadQpc>>
       \/ /\ constructHook' = Hook(TRUE, TRUE) /\ compileHook' = Hook(TRUE, TRUE)
          /\ timersIn' \in BOOLEAN /\ loadQpc' = clock
    /\ UNCHANGED <<clock, menuQpc, startupRecorded, canLoadRecorded, startupSpans, saveVars>>

\* RecordSpan of a start that was read.
Spans(bucket, from, to) ==
    IF from # 0 /\ from <= to THEN {[bucket |-> bucket, from |-> from, to |-> to]} ELSE {}

\* The game-data thread begins: BeginTimedCall of the thread's own call site takes
\* the time for the menu's, which opens at that moment.
BeginGameData ==
    /\ startupStage = "data" /\ menuQpc = 0 /\ timersIn
    /\ menuQpc' = clock
    /\ UNCHANGED <<clock, constructHook, compileHook, timersIn, loadQpc, startupRecorded,
                   canLoadRecorded, startupStage, startupSpans, saveVars>>

\* The listener at kGameDataReady, with data or without.
RecordStartupEndpoints ==
    LET ready == clock
    IN  /\ startupRecorded' = TRUE
        /\ startupSpans' = startupSpans \cup Spans("load_to_data_ready", loadQpc, ready)
                \cup (IF menuQpc = 0 THEN {}
                      ELSE Spans("load_to_menu", loadQpc, menuQpc)
                           \cup Spans("menu_to_data_ready", menuQpc, ready))

DataReady(withData) ==
    /\ startupStage \in {"data", "ready"} /\ (timersIn => menuQpc # 0)
    /\ startupStage' = IF withData THEN "ready" ELSE startupStage
    /\ IF loadQpc # 0 /\ withData /\ ~startupRecorded THEN RecordStartupEndpoints
       ELSE UNCHANGED <<startupRecorded, startupSpans>>
    /\ UNCHANGED <<clock, constructHook, compileHook, timersIn, loadQpc, menuQpc,
                   canLoadRecorded, saveVars>>

GameDataReturns ==
    /\ startupStage = "ready" /\ startupStage' = "returned"
    /\ UNCHANGED <<clock, constructHook, compileHook, timersIn, loadQpc, menuQpc,
                   startupRecorded, canLoadRecorded, startupSpans, saveVars>>

\* The listener at kGameLoaded.
RecordCanLoadAgain ==       \* once for every message
    /\ startupStage \in {"returned", "menu"} /\ startupStage' = "menu"
    /\ IF loadQpc # 0
       THEN /\ canLoadRecorded' = TRUE
            /\ startupSpans' = startupSpans \cup Spans("load_to_can_load", loadQpc, clock)
                                            \cup Spans("menu_to_can_load", menuQpc, clock)
       ELSE UNCHANGED <<canLoadRecorded, startupSpans>>
    /\ UNCHANGED <<clock, constructHook, compileHook, timersIn, loadQpc, menuQpc,
                   startupRecorded, saveVars>>

GameLoaded ==
    /\ startupStage \in {"returned", "menu"} /\ startupStage' = "menu"
    /\ IF loadQpc # 0 /\ ~canLoadRecorded
       THEN /\ canLoadRecorded' = TRUE
            /\ startupSpans' = startupSpans \cup Spans("load_to_can_load", loadQpc, clock)
                                            \cup Spans("menu_to_can_load", menuQpc, clock)
       ELSE UNCHANGED <<canLoadRecorded, startupSpans>>
    /\ UNCHANGED <<clock, constructHook, compileHook, timersIn, loadQpc, menuQpc,
                   startupRecorded, saveVars>>

----------------------------------------------------------------------------
\* Loading a save.

InstallSaveTiming ==
    /\ ~timingInstalled /\ startupStage = "plugins" /\ timingInstalled' = TRUE
    /\ UNCHANGED <<clock, formVars, preLoadQpc, inLoad, menuUp, loadsBegun, timedCall, toRecord,
                   recording, saveSpans>>

ToRecord(t, bucket, from) ==
    toRecord' = [toRecord EXCEPT ![t] =
        IF from # 0 /\ from <= clock
        THEN [bucket |-> bucket, from |-> from, to |-> clock] ELSE NoSpan]

\* kPreLoadGame: listeners run although the installation may have been skipped.
\* The sink is registered at the first one, before which there is no start to take.
\* No load is over within one reading of the clock.
PreLoadGame ==
    /\ startupStage = "menu" /\ inLoad = 0 /\ loadsBegun < MaxLoads
    /\ toRecord[Main] = NoSpan /\ \A s \in saveSpans : s.from < clock
    /\ inLoad' = loadsBegun + 1 /\ loadsBegun' = loadsBegun + 1 /\ menuUp' = TRUE
    /\ preLoadQpc' = IF timingInstalled THEN clock ELSE preLoadQpc
    /\ UNCHANGED <<clock, formVars, timingInstalled, timedCall, toRecord, recording, saveSpans>>

\* kPostLoadGame.
PostLoadGame ==
    /\ inLoad # 0 /\ toRecord[Main] = NoSpan /\ timedCall[Main] = None0
    /\ inLoad' = 0
    /\ IF timingInstalled THEN ToRecord(Main, "pre_load_to_post_load", preLoadQpc)
       ELSE UNCHANGED toRecord
    /\ UNCHANGED <<clock, formVars, timingInstalled, preLoadQpc, menuUp, loadsBegun, timedCall,
                   recording, saveSpans>>

\* The loading menu opens for other reasons too (external), and OnLoadingMenuClosed
\* takes the start away when it closes.
OpenLoadingMenu ==
    /\ startupStage = "menu" /\ ~menuUp /\ menuUp' = TRUE
    /\ UNCHANGED <<clock, formVars, timingInstalled, preLoadQpc, inLoad, loadsBegun, timedCall,
                   toRecord, recording, saveSpans>>

OnLoadingMenuClosedKeeping ==       \* the start is read and stays
    /\ menuUp /\ inLoad = 0 /\ toRecord[Main] = NoSpan
    /\ menuUp' = FALSE
    /\ ToRecord(Main, "pre_load_to_loading_closed", preLoadQpc)
    /\ UNCHANGED <<clock, formVars, timingInstalled, preLoadQpc, inLoad, loadsBegun, timedCall,
                   recording, saveSpans>>

OnLoadingMenuClosed ==
    /\ menuUp /\ inLoad = 0 /\ toRecord[Main] = NoSpan
    /\ menuUp' = FALSE
    /\ preLoadQpc' = 0 /\ ToRecord(Main, "pre_load_to_loading_closed", preLoadQpc)
    /\ UNCHANGED <<clock, formVars, timingInstalled, inLoad, loadsBegun, timedCall,
                   recording, saveSpans>>

\* TimedForward: the call's start, ...
BeginTimedCall(t, step) ==
    /\ timingInstalled /\ timedCall[t] = None0 /\ toRecord[t] = NoSpan
    /\ startupStage = "menu"
    /\ (t = Main \/ step = EndStep) => inLoad # 0
    /\ timedCall' = [timedCall EXCEPT ![t] = [step |-> step, start |-> clock]]
    /\ UNCHANGED <<clock, formVars, timingInstalled, preLoadQpc, inLoad, menuUp, loadsBegun,
                   toRecord, recording, saveSpans>>

\* ... and EndTimedCall: a step counts while a load lasts.
EndTimedCall(t) ==
    /\ timedCall[t] # None0
    /\ timedCall' = [timedCall EXCEPT ![t] = None0]
    /\ IF timedCall[t].step = EndStep \/ preLoadQpc # 0
       THEN ToRecord(t, timedCall[t].step, timedCall[t].start)
       ELSE UNCHANGED toRecord
    /\ UNCHANGED <<clock, formVars, timingInstalled, preLoadQpc, inLoad, menuUp, loadsBegun,
                   recording, saveSpans>>

\* RecordSpan: takes the mutex, as the ring has room for one producer, ...
LockRecordUnlocked(t) ==
    /\ toRecord[t] # NoSpan /\ t \notin recording /\ recording' = recording \cup {t}
    /\ UNCHANGED <<clock, formVars, timingInstalled, preLoadQpc, inLoad, menuUp, loadsBegun,
                   timedCall, toRecord, saveSpans>>

LockRecord(t) ==
    /\ toRecord[t] # NoSpan /\ recording = {} /\ recording' = {t}
    /\ UNCHANGED <<clock, formVars, timingInstalled, preLoadQpc, inLoad, menuUp, loadsBegun,
                   timedCall, toRecord, saveSpans>>

\* ... and records.
RecordSpan(t) ==
    /\ t \in recording /\ recording' = recording \ {t}
    /\ saveSpans' = IF toRecord[t].bucket \in LoadSteps THEN saveSpans
                    ELSE saveSpans \cup {toRecord[t]}
    /\ toRecord' = [toRecord EXCEPT ![t] = NoSpan]
    /\ UNCHANGED <<clock, formVars, timingInstalled, preLoadQpc, inLoad, menuUp, loadsBegun,
                   timedCall>>

TimingNext ==
    \/ ClockTick
    \/ InstallSaveTiming \/ InstallFormTiming \/ BeginGameData
    \/ \E withData \in BOOLEAN : DataReady(withData)
    \/ GameDataReturns \/ GameLoaded
    \/ PreLoadGame \/ PostLoadGame \/ OpenLoadingMenu \/ OnLoadingMenuClosed
    \/ \E t \in Callers :
          \/ \E step \in LoadSteps : BeginTimedCall(t, step)
          \/ EndTimedCall(t) \/ LockRecord(t) \/ RecordSpan(t)

TimingSpec == TimingStart /\ [][TimingNext]_timingVars

----------------------------------------------------------------------------
\* A function that is detoured is always called on: no failed installation leaves
\* a hook without the original it forwards to.
HooksReachTheGame ==
    constructHook.in = constructHook.original /\ compileHook.in = compileHook.original

SpansOf(bucket) == {s \in startupSpans : s.bucket = bucket}

\* Each span of the start is recorded once, and the part before the menu and the
\* part after it make up the whole.
StartupAddsUp ==
    /\ \A s1, s2 \in startupSpans : s1.bucket = s2.bucket => s1 = s2
    /\ \A whole \in SpansOf("load_to_data_ready"), before \in SpansOf("load_to_menu"),
          after \in SpansOf("menu_to_data_ready") :
          whole.to - whole.from = (before.to - before.from) + (after.to - after.from)
    /\ timersIn /\ startupRecorded => SpansOf("menu_to_data_ready") # {}

Bucket(bucket) == {s \in saveSpans : s.bucket = bucket}

\* A load has one span to its end and one to the moment its menu closes, both from
\* the same start, and no other closing of that menu is taken for one; whatever
\* threads time a step meanwhile, one at a time records.
LoadsAreTimedOnce ==
    /\ \A bucket \in {"pre_load_to_post_load", "pre_load_to_loading_closed"} :
          \A s1, s2 \in Bucket(bucket) : s1.from = s2.from => s1 = s2
    /\ \A closed \in Bucket("pre_load_to_loading_closed") :
          \E post \in Bucket("pre_load_to_post_load") :
             post.from = closed.from /\ post.to <= closed.to
    /\ Cardinality(recording) <= 1

\* A timed function is always called on, and every span of a start or a load is
\* recorded once.
TimesAreTrue == TimingTypeOK /\ HooksReachTheGame /\ StartupAddsUp /\ LoadsAreTimedOnce
=============================================================================
