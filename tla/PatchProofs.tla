------------------------------ MODULE PatchProofs ------------------------------
(***************************************************************************)
(* Proofs about the patches of the game: the audio device switch, the      *)
(* input switch, the timing of starts and loads, the callbacks of the      *)
(* plugins F4SE loads, the batches and pointers that hooks are laid with,  *)
(* and the map of culled objects.  Each is an invariant of its component's *)
(* specification, with what has to be true beside it for it to be          *)
(* inductive.                                                              *)
(***************************************************************************)
EXTENDS InputSwitch, LoadTiming, AudioSwitch, PluginCallbacks, DetourBatch,
        CullingMap, FiniteSetTheorems, TLAPS

-------------------------------------------------------------------------------
(* The input switch: its parts are inductive together.                     *)

(* RefreshCursor leaves the cursor balanced and the contexts as the device *)
(* in use wants them.                                                      *)
LEMMA CursorRefreshed ==
    ASSUME CursorsAreBalanced, InputTypeOK,
           NEW onPage, NEW inFront \in BOOLEAN, NEW used \in BOOLEAN,
           cursors = IF used THEN 1 ELSE 0,
           RefreshCursor(onPage, inFront, used)
    PROVE  /\ usesCursor' \in BOOLEAN /\ assigns' \in BOOLEAN
           /\ cursors' = IF usesCursor' THEN 1 ELSE 0
           /\ onStack' \in [Contexts -> Nat]
           /\ \A c \in Contexts : onStack'[c] <= 1
           /\ onStack'["ThumbNav"] = (IF IsGamepadActiveDevice THEN 1 ELSE 0)
           /\ assigns' = IsGamepadActiveDevice
           /\ ~IsGamepadActiveDevice => usesCursor'
<1> DEFINE enabled == CursorEnabled(onPage, inFront)
<1>1. enabled \in BOOLEAN /\ IsGamepadActiveDevice \in BOOLEAN
  BY DEF CursorEnabled, IsGamepadActiveDevice
<1>2. ~IsGamepadActiveDevice => enabled
  BY DEF CursorEnabled
<1>3. /\ usesCursor' = enabled /\ assigns' = IsGamepadActiveDevice
      /\ ResetContexts(enabled)
  BY DEF RefreshCursor
<1>4. cursors' = CASE enabled /\ ~used -> cursors + 1
                   [] ~enabled /\ used -> cursors - 1
                   [] OTHER -> cursors
  BY DEF RefreshCursor
<1> HIDE DEF enabled
<1>5. cursors' = IF enabled THEN 1 ELSE 0
  BY <1>1, <1>4
<1>6. \A c \in Contexts : onStack'[c] \in {0, 1}
  BY <1>3 DEF ResetContexts, Contexts
<1>7. onStack' \in [Contexts -> Nat]
  BY <1>3 DEF ResetContexts, Contexts
<1>8. onStack'["ThumbNav"] = (IF IsGamepadActiveDevice THEN 1 ELSE 0)
  BY <1>3 DEF ResetContexts, Contexts
<1> HIDE DEF IsGamepadActiveDevice
<1> QED BY <1>1, <1>2, <1>3, <1>5, <1>6, <1>7, <1>8

(* Every step keeps what fits the device.                                  *)
LEMMA InputStep == InputFitsDevice /\ [InputNext]_inputVars => InputFitsDevice'
<1> SUFFICES ASSUME InputFitsDevice, [InputNext]_inputVars PROVE InputFitsDevice'
  OBVIOUS
<1> USE MessagesAssumption
    DEF InputFitsDevice, InputTypeOK, CursorsAreBalanced, ContextsFitDevice,
        OverlayKeepsInput, IsGamepadActiveDevice, activeVars, overlayVars, pipboyVars,
        gameInput, Contexts
<1>1. CASE InsertHandler
  BY <1>1 DEF InsertHandler
<1>2. ASSUME NEW input \in InputDevices, NEW look \in BOOLEAN, ShouldHandleEvent(input, look)
      PROVE  InputFitsDevice'
  BY <1>2 DEF ShouldHandleEvent
<1>3. ASSUME NEW p \in {"map", "other"}, OpenPipboy(p) PROVE InputFitsDevice'
  <2>1. cursors = IF FALSE THEN 1 ELSE 0
    BY <1>3 DEF OpenPipboy
  <2>2. /\ ~pipboyOpen /\ pipboyOpen' = TRUE /\ page' = p /\ modal' = FALSE
        /\ RefreshCursor(p, FALSE, FALSE)
        /\ UNCHANGED <<activeVars, overlayVars, toPipboy, askedKey>>
    BY <1>3 DEF OpenPipboy
  <2>3. /\ usesCursor' \in BOOLEAN /\ assigns' \in BOOLEAN
        /\ cursors' = IF usesCursor' THEN 1 ELSE 0
        /\ onStack' \in [Contexts -> Nat]
        /\ \A c \in Contexts : onStack'[c] <= 1
        /\ onStack'["ThumbNav"] = (IF IsGamepadActiveDevice THEN 1 ELSE 0)
        /\ assigns' = IsGamepadActiveDevice
        /\ ~IsGamepadActiveDevice => usesCursor'
    <3> HIDE DEF IsGamepadActiveDevice, Contexts
    <3> QED BY <2>1, <2>2, CursorRefreshed
  <2> QED BY <2>2, <2>3
<1>4. ASSUME NEW p \in {"map", "other"}, NEW m \in BOOLEAN, TurnPage(p, m)
      PROVE  InputFitsDevice'
  BY <1>4, CursorRefreshed DEF TurnPage
<1>5. CASE DeliverUpdate
  BY <1>5, CursorRefreshed DEF DeliverUpdate
<1>6. CASE ClosePipboy
  <2>1. /\ onStack' \in [Contexts -> Nat] /\ \A c \in Contexts : onStack'[c] = 0
    BY <1>6 DEF ClosePipboy, PipboyMenuPreDtor
  <2>2. /\ pipboyOpen' = FALSE /\ usesCursor' = FALSE /\ assigns' = FALSE /\ cursors' = 0
        /\ UNCHANGED <<activeVars, overlayVars, toPipboy, page, modal, askedKey>>
    BY <1>6 DEF ClosePipboy
  <2> HIDE DEF Contexts
  <2>3. ContextsFitDevice'
    BY <2>1, <2>2
  <2>4. CursorsAreBalanced' /\ OverlayKeepsInput'
    BY <2>2
  <2>5. InputTypeOK'
    BY <2>1, <2>2
  <2> QED BY <2>3, <2>4, <2>5
<1>7. CASE ToggleOverlay
  BY <1>7 DEF ToggleOverlay
<1>8. CASE AskKey
  BY <1>8 DEF AskKey, GetMappedKey, MappedOn, Unmapped
<1>9. CASE UNCHANGED inputVars
  BY <1>9 DEF inputVars
<1> HIDE DEF InputFitsDevice, InputTypeOK, CursorsAreBalanced, ContextsFitDevice,
        OverlayKeepsInput, IsGamepadActiveDevice, activeVars, overlayVars, pipboyVars,
        gameInput, Contexts
<1> QED
  BY <1>1, <1>2, <1>3, <1>4, <1>5, <1>6, <1>7, <1>8, <1>9 DEF InputNext

(* However devices, pages, messages and the overlay alternate, the Pipboy's *)
(* cursor and contexts are those of the device in use.                     *)
THEOREM InputAlwaysFits == InputSpec => []InputFitsDevice
<1>1. ASSUME InputStart PROVE InputFitsDevice
  <2>1. toPipboy \in Seq({"update"}) /\ Len(toPipboy) <= MaxMessages
    BY <1>1, MessagesAssumption DEF InputStart
  <2>2. onStack \in [Contexts -> Nat] /\ \A c \in Contexts : onStack[c] = 0
    BY <1>1 DEF InputStart
  <2>3. InputTypeOK
    BY <1>1, <2>1, <2>2 DEF InputStart, InputTypeOK, InputDevices
  <2> QED BY <1>1, <2>2, <2>3
          DEF InputStart, InputFitsDevice, CursorsAreBalanced, ContextsFitDevice,
              OverlayKeepsInput
<1> QED BY <1>1, InputStep, PTL DEF InputSpec

-------------------------------------------------------------------------------
(***************************************************************************)
(* The timing of starts and loads.                                         *)
(***************************************************************************)

SpanBuckets == {"pre_load_to_post_load", "pre_load_to_loading_closed"}
DataBuckets == {"load_to_data_ready", "load_to_menu", "menu_to_data_ready"}
CanLoadBuckets == {"load_to_can_load", "menu_to_can_load"}

(* What the variables hold; the clock runs, and no reading is ahead of it. *)
TimingTypes ==
    /\ clock \in Times /\ clock > 0
    /\ loadQpc \in 0..clock /\ menuQpc \in 0..clock /\ preLoadQpc \in 0..clock
    /\ {timersIn, startupRecorded, canLoadRecorded, timingInstalled, menuUp} \subseteq BOOLEAN
    /\ {constructHook, compileHook} \subseteq [in : BOOLEAN, original : BOOLEAN]
    /\ startupStage \in {"plugins", "data", "ready", "returned", "menu"}
    /\ inLoad \in 0..MaxLoads /\ loadsBegun \in 0..MaxLoads
    /\ timedCall \in [Callers -> [step : LoadSteps \cup {"none"}, start : Times]]
    /\ toRecord \in [Callers -> [bucket : LoadSteps \cup SpanBuckets \cup {"none"},
                                 from : Times, to : Times]]
    /\ \A t \in Callers : toRecord[t].from <= toRecord[t].to /\ toRecord[t].to <= clock
    /\ saveSpans \subseteq [bucket : SpanBuckets, from : Times, to : Times]
    /\ \A s \in saveSpans : s.from <= s.to /\ s.to <= clock
    /\ startupSpans \subseteq
          [bucket : DataBuckets \cup CanLoadBuckets, from : Times, to : Times]
    /\ HooksReachTheGame

(* When the spans of a start are recorded, and from what.                  *)
StartupFits ==
    /\ startupRecorded => startupStage \in {"ready", "returned", "menu"}
    /\ canLoadRecorded => startupStage = "menu"
    /\ startupStage = "plugins" => ~timersIn
    /\ timersIn /\ startupRecorded => \E s \in startupSpans : s.bucket = "menu_to_data_ready"
    /\ \A s \in startupSpans :
          /\ s.bucket \in DataBuckets => startupRecorded
          /\ s.bucket \in CanLoadBuckets => canLoadRecorded
          /\ s.bucket = "load_to_data_ready" => s.from = loadQpc
          /\ s.bucket = "load_to_menu" => s.from = loadQpc /\ s.to = menuQpc
          /\ s.bucket = "menu_to_data_ready" => s.from = menuQpc
    /\ \A s1, s2 \in startupSpans :
          /\ s1.bucket = s2.bucket => s1 = s2
          /\ s1.bucket = "load_to_data_ready" /\ s2.bucket = "menu_to_data_ready" =>
                s1.to = s2.to

(* A thread records what it has timed, one thread at a time.               *)
RecordingFits ==
    /\ \A t \in Callers :
          /\ timedCall[t] # None0 => toRecord[t] = NoSpan
          /\ timedCall[t].step = "none" => timedCall[t] = None0
          /\ toRecord[t].bucket = "none" => toRecord[t] = NoSpan
          /\ toRecord[t].bucket \in SpanBuckets => t = Main
    /\ timedCall[Main] # None0 => inLoad # 0
    /\ recording = {} \/ \E t \in Callers : recording = {t} /\ toRecord[t] # NoSpan

(* Where the spans of the load under way are: not begun, to be recorded, or *)
(* recorded, the one to its end before the one to its menu's closing.       *)
LoadFits ==
    /\ preLoadQpc # 0 => timingInstalled /\ startupStage # "plugins"
    /\ startupStage # "menu" => inLoad = 0 /\ preLoadQpc = 0
    /\ inLoad # 0 =>
          /\ toRecord[Main].bucket \notin SpanBuckets
          /\ timingInstalled => preLoadQpc # 0 /\ \A s \in saveSpans : s.from < preLoadQpc
    /\ toRecord[Main].bucket = "pre_load_to_post_load" =>
          /\ toRecord[Main].from = preLoadQpc /\ preLoadQpc # 0
          /\ \A s \in saveSpans : s.from < preLoadQpc
    /\ toRecord[Main].bucket = "pre_load_to_loading_closed" =>
          /\ preLoadQpc = 0
          /\ \A s \in saveSpans :
                s.bucket = "pre_load_to_loading_closed" => s.from # toRecord[Main].from
          /\ \E post \in saveSpans :
                /\ post.bucket = "pre_load_to_post_load"
                /\ post.from = toRecord[Main].from /\ post.to <= toRecord[Main].to
    /\ inLoad = 0 /\ preLoadQpc # 0 /\ toRecord[Main].bucket # "pre_load_to_post_load" =>
          /\ \A s \in saveSpans :
                s.bucket = "pre_load_to_loading_closed" => s.from # preLoadQpc
          /\ \E post \in saveSpans :
                post.bucket = "pre_load_to_post_load" /\ post.from = preLoadQpc
    /\ \A s1, s2 \in saveSpans : s1.bucket = s2.bucket /\ s1.from = s2.from => s1 = s2
    /\ \A closed \in saveSpans : closed.bucket = "pre_load_to_loading_closed" =>
          \E post \in saveSpans :
             /\ post.bucket = "pre_load_to_post_load"
             /\ post.from = closed.from /\ post.to <= closed.to

TimingInv == TimingTypes /\ StartupFits /\ RecordingFits /\ LoadFits



(* Every step keeps the types and the clock ahead.                         *)
LEMMA TimingTypesKept == TimingInv /\ TimingNext => TimingTypes'
<1> SUFFICES ASSUME TimingInv, TimingNext PROVE TimingTypes'
  OBVIOUS
<1> USE TimingAssumption DEF TimingInv, TimingTypes, StartupFits, RecordingFits, LoadFits,
    HooksReachTheGame, Times, None0, NoSpan, SpanBuckets, DataBuckets, CanLoadBuckets,
    formVars, saveVars
<1>1. ASSUME ClockTick PROVE TimingTypes'
  BY <1>1 DEF ClockTick
<1>2. ASSUME InstallSaveTiming PROVE TimingTypes'
  BY <1>2 DEF InstallSaveTiming
<1>3. ASSUME InstallFormTiming PROVE TimingTypes'
  <2>1. /\ UNCHANGED <<clock, menuQpc, startupRecorded, canLoadRecorded, startupSpans, preLoadQpc, timingInstalled, menuUp, inLoad, loadsBegun, timedCall, toRecord, saveSpans>>
    BY <1>3 DEF InstallFormTiming
  <2>4. startupStage' = "data" /\ (loadQpc' = loadQpc \/ loadQpc' = clock)
    BY <1>3 DEF InstallFormTiming
  <2>3. timersIn \in BOOLEAN
    OBVIOUS
  <2>5. timersIn' \in BOOLEAN
    BY <1>3, <2>3, Zenon DEF InstallFormTiming
  <2>2. /\ constructHook' \in [in : BOOLEAN, original : BOOLEAN] /\ compileHook' \in [in : BOOLEAN, original : BOOLEAN]
        /\ HooksReachTheGame'
    <3>1. ASSUME NEW b \in BOOLEAN
          PROVE Hook(b, b) \in [in : BOOLEAN, original : BOOLEAN] /\ Hook(b, b).in = Hook(b, b).original
      BY DEF Hook
    <3>2. PICK b \in BOOLEAN, c \in BOOLEAN :
             /\ constructHook' = constructHook \/ constructHook' = Hook(b, b)
             /\ compileHook' = compileHook \/ compileHook' = Hook(c, c)
      BY <1>3 DEF InstallFormTiming
    <3> QED
      BY <3>1, <3>2
  <2> QED
    BY <2>1, <2>2, <2>4, <2>5
<1>4. ASSUME BeginGameData PROVE TimingTypes'
  BY <1>4 DEF BeginGameData
<1>5. ASSUME NEW withData \in BOOLEAN, DataReady(withData) PROVE TimingTypes'
  <2>1. startupSpans' \subseteq [bucket : DataBuckets \cup CanLoadBuckets, from : Times, to : Times]
    BY <1>5 DEF Spans, DataReady, RecordStartupEndpoints
  <2>2. startupRecorded' \in BOOLEAN /\ startupStage' \in {"plugins", "data", "ready", "returned", "menu"}
    BY <1>5 DEF DataReady, RecordStartupEndpoints
  <2>3. UNCHANGED <<clock, constructHook, compileHook, timersIn, loadQpc, menuQpc, canLoadRecorded, saveVars>>
    BY <1>5 DEF DataReady
  <2> QED
    BY <2>1, <2>2, <2>3
<1>6. ASSUME GameDataReturns PROVE TimingTypes'
  BY <1>6 DEF GameDataReturns
<1>7. ASSUME GameLoaded PROVE TimingTypes'
  <2>1. startupSpans' \subseteq [bucket : DataBuckets \cup CanLoadBuckets, from : Times, to : Times]
    BY <1>7 DEF Spans, GameLoaded
  <2>2. canLoadRecorded' \in BOOLEAN /\ startupStage' = "menu"
    BY <1>7 DEF GameLoaded
  <2>3. UNCHANGED <<clock, constructHook, compileHook, timersIn, loadQpc, menuQpc, startupRecorded, saveVars>>
    BY <1>7 DEF GameLoaded
  <2> QED
    BY <2>1, <2>2, <2>3
<1>8. ASSUME PreLoadGame PROVE TimingTypes'
  BY <1>8 DEF PreLoadGame
<1>9. ASSUME PostLoadGame PROVE TimingTypes'
  <2>1. toRecord' \in [Callers -> [bucket : LoadSteps \cup SpanBuckets \cup {"none"}, from : Times, to : Times]]
    BY <1>9 DEF PostLoadGame, ToRecord
  <2>2. \A u \in Callers : toRecord'[u] = toRecord[u] \/ toRecord'[u] = NoSpan \/ (toRecord'[u].from <= clock /\ toRecord'[u].to = clock)
    BY <1>9 DEF PostLoadGame, ToRecord
  <2>3. \A u \in Callers : toRecord'[u].from <= toRecord'[u].to /\ toRecord'[u].to <= clock
    BY <2>2
  <2>4. inLoad' = 0
        /\ UNCHANGED <<clock, formVars, timingInstalled, preLoadQpc, menuUp, loadsBegun, timedCall, recording, saveSpans>>
    BY <1>9 DEF PostLoadGame
  <2> QED
    BY <2>1, <2>3, <2>4
<1>10. ASSUME OpenLoadingMenu PROVE TimingTypes'
  BY <1>10 DEF OpenLoadingMenu
<1>11. ASSUME OnLoadingMenuClosed PROVE TimingTypes'
  <2>1. toRecord' \in [Callers -> [bucket : LoadSteps \cup SpanBuckets \cup {"none"}, from : Times, to : Times]]
    BY <1>11 DEF OnLoadingMenuClosed, ToRecord
  <2>2. \A u \in Callers : toRecord'[u] = toRecord[u] \/ toRecord'[u] = NoSpan \/ (toRecord'[u].from <= clock /\ toRecord'[u].to = clock)
    BY <1>11 DEF OnLoadingMenuClosed, ToRecord
  <2>3. \A u \in Callers : toRecord'[u].from <= toRecord'[u].to /\ toRecord'[u].to <= clock
    BY <2>2
  <2>4. preLoadQpc' = 0 /\ menuUp' = FALSE
        /\ UNCHANGED <<clock, formVars, timingInstalled, inLoad, loadsBegun, timedCall, recording, saveSpans>>
    BY <1>11 DEF OnLoadingMenuClosed
  <2>5. UNCHANGED <<clock, loadQpc, menuQpc, startupRecorded, canLoadRecorded, timersIn, constructHook, compileHook,
                    startupStage, startupSpans, timingInstalled, inLoad, loadsBegun, timedCall, saveSpans>>
    BY <2>4
  <2>6. {timersIn, startupRecorded, canLoadRecorded, timingInstalled, menuUp'} \subseteq BOOLEAN
    BY <2>4
  <2>7. preLoadQpc' \in 0..clock
    BY <2>4
  <2> QED
    BY <2>1, <2>3, <2>5, <2>6, <2>7
<1>12. ASSUME NEW t \in Callers, NEW step \in LoadSteps, BeginTimedCall(t, step) PROVE TimingTypes'
  BY <1>12 DEF BeginTimedCall
<1>13. ASSUME NEW t \in Callers, EndTimedCall(t) PROVE TimingTypes'
  <2>1. toRecord' \in [Callers -> [bucket : LoadSteps \cup SpanBuckets \cup {"none"}, from : Times, to : Times]]
    BY SMTT(20), <1>13 DEF EndTimedCall, ToRecord
  <2>2. \A u \in Callers : toRecord'[u] = toRecord[u] \/ toRecord'[u] = NoSpan \/ (toRecord'[u].from <= clock /\ toRecord'[u].to = clock)
    BY <1>13 DEF EndTimedCall, ToRecord
  <2>3. \A u \in Callers : toRecord'[u].from <= toRecord'[u].to /\ toRecord'[u].to <= clock
    BY <2>2
  <2>4. timedCall' = [timedCall EXCEPT ![t] = None0]
        /\ UNCHANGED <<clock, formVars, timingInstalled, preLoadQpc, inLoad, menuUp, loadsBegun, recording, saveSpans>>
    BY <1>13 DEF EndTimedCall
  <2>5. timedCall' \in [Callers -> [step : LoadSteps \cup {"none"}, start : Times]]
    BY <2>4
  <2> QED
    BY <2>1, <2>3, <2>4, <2>5
<1>14. ASSUME NEW t \in Callers, LockRecord(t) PROVE TimingTypes'
  BY <1>14 DEF LockRecord
<1>15. ASSUME NEW t \in Callers, RecordSpan(t) PROVE TimingTypes'
  BY <1>15 DEF RecordSpan
<1> HIDE DEF TimingInv, TimingTypes, StartupFits, RecordingFits, LoadFits,
    HooksReachTheGame, Times, None0, NoSpan, SpanBuckets, DataBuckets, CanLoadBuckets,
    formVars, saveVars
<1> QED
  BY <1>1, <1>2, <1>3, <1>4, <1>5, <1>6, <1>7, <1>8, <1>9, <1>10, <1>11, <1>12, <1>13,
      <1>14, <1>15
  DEF TimingNext

(* Every step keeps the spans of the start.                                *)
LEMMA StartupFitsKept == TimingInv /\ TimingNext => StartupFits'
<1> SUFFICES ASSUME TimingInv, TimingNext PROVE StartupFits'
  OBVIOUS
<1> USE TimingAssumption DEF TimingInv, TimingTypes, StartupFits, RecordingFits, LoadFits,
    HooksReachTheGame, Times, None0, NoSpan, SpanBuckets, DataBuckets, CanLoadBuckets,
    formVars, saveVars
<1>1. ASSUME ClockTick PROVE StartupFits'
  BY <1>1 DEF ClockTick
<1>2. ASSUME InstallSaveTiming PROVE StartupFits'
  BY <1>2 DEF InstallSaveTiming
<1>3. ASSUME InstallFormTiming PROVE StartupFits'
  BY <1>3 DEF InstallFormTiming, Hook
<1>4. ASSUME BeginGameData PROVE StartupFits'
  BY <1>4 DEF BeginGameData
<1>5. ASSUME NEW withData \in BOOLEAN, DataReady(withData) PROVE StartupFits'
  <2>1. UNCHANGED <<clock, timersIn, loadQpc, menuQpc, canLoadRecorded>>
    BY <1>5 DEF DataReady
  <2>2. CASE UNCHANGED <<startupRecorded, startupSpans>>
    BY <1>5, <2>1, <2>2 DEF DataReady
  <2>3. CASE loadQpc # 0 /\ withData /\ ~startupRecorded /\ RecordStartupEndpoints
    <3>1. startupStage' = "ready" /\ startupRecorded' = TRUE /\ startupStage # "plugins" /\ ~canLoadRecorded
          /\ (timersIn => menuQpc # 0)
      BY <1>5, <2>3 DEF DataReady, RecordStartupEndpoints
    <3>2. \A s \in startupSpans : s.bucket \notin DataBuckets /\ s.bucket \notin CanLoadBuckets
      BY <2>3, <3>1
    <3>3. startupSpans = {}
      BY <3>2
    <3>4. \A s \in startupSpans' :
             \/ s = [bucket |-> "load_to_data_ready", from |-> loadQpc, to |-> clock]
             \/ s = [bucket |-> "load_to_menu", from |-> loadQpc, to |-> menuQpc]
             \/ s = [bucket |-> "menu_to_data_ready", from |-> menuQpc, to |-> clock]
      BY <2>3, <3>3 DEF RecordStartupEndpoints, Spans
    <3>5. timersIn => [bucket |-> "menu_to_data_ready", from |-> menuQpc, to |-> clock] \in startupSpans'
      BY <2>3, <3>1 DEF RecordStartupEndpoints, Spans
    <3>6. timersIn' /\ startupRecorded' => \E s \in startupSpans' : s.bucket = "menu_to_data_ready"
      BY <2>1, <3>5
    <3>7. \A s \in startupSpans' :
          /\ s.bucket \notin CanLoadBuckets
          /\ s.bucket = "load_to_data_ready" => s.from = loadQpc
          /\ s.bucket = "load_to_menu" => s.from = loadQpc /\ s.to = menuQpc
          /\ s.bucket = "menu_to_data_ready" => s.from = menuQpc
      BY <3>4
    <3>8. \A s1, s2 \in startupSpans' :
          /\ s1.bucket = s2.bucket => s1 = s2
          /\ s1.bucket = "load_to_data_ready" /\ s2.bucket = "menu_to_data_ready" => s1.to = s2.to
      BY <3>4
    <3> QED
      BY <2>1, <3>1, <3>6, <3>7, <3>8
  <2> QED
    BY <1>5, <2>2, <2>3 DEF DataReady
<1>6. ASSUME GameDataReturns PROVE StartupFits'
  BY <1>6 DEF GameDataReturns
<1>7. ASSUME GameLoaded PROVE StartupFits'
  BY <1>7 DEF GameLoaded, Spans
<1>8. ASSUME PreLoadGame PROVE StartupFits'
  BY <1>8 DEF PreLoadGame
<1>9. ASSUME PostLoadGame PROVE StartupFits'
  BY <1>9 DEF PostLoadGame, ToRecord
<1>10. ASSUME OpenLoadingMenu PROVE StartupFits'
  BY <1>10 DEF OpenLoadingMenu
<1>11. ASSUME OnLoadingMenuClosed PROVE StartupFits'
  BY <1>11 DEF OnLoadingMenuClosed, ToRecord
<1>12. ASSUME NEW t \in Callers, NEW step \in LoadSteps, BeginTimedCall(t, step) PROVE StartupFits'
  BY <1>12 DEF BeginTimedCall
<1>13. ASSUME NEW t \in Callers, EndTimedCall(t) PROVE StartupFits'
  BY <1>13 DEF EndTimedCall, ToRecord
<1>14. ASSUME NEW t \in Callers, LockRecord(t) PROVE StartupFits'
  BY <1>14 DEF LockRecord
<1>15. ASSUME NEW t \in Callers, RecordSpan(t) PROVE StartupFits'
  BY <1>15 DEF RecordSpan
<1> HIDE DEF TimingInv, TimingTypes, StartupFits, RecordingFits, LoadFits,
    HooksReachTheGame, Times, None0, NoSpan, SpanBuckets, DataBuckets, CanLoadBuckets,
    formVars, saveVars
<1> QED
  BY <1>1, <1>2, <1>3, <1>4, <1>5, <1>6, <1>7, <1>8, <1>9, <1>10, <1>11, <1>12, <1>13,
      <1>14, <1>15
  DEF TimingNext

(* Every step keeps one thread recording what it timed.                    *)
LEMMA RecordingFitsKept == TimingInv /\ TimingNext => RecordingFits'
<1> SUFFICES ASSUME TimingInv, TimingNext PROVE RecordingFits'
  OBVIOUS
<1> USE TimingAssumption DEF TimingInv, TimingTypes, StartupFits, RecordingFits, LoadFits,
    HooksReachTheGame, Times, None0, NoSpan, SpanBuckets, DataBuckets, CanLoadBuckets,
    formVars, saveVars
<1>1. ASSUME ClockTick PROVE RecordingFits'
  BY <1>1 DEF ClockTick
<1>2. ASSUME InstallSaveTiming PROVE RecordingFits'
  BY <1>2 DEF InstallSaveTiming
<1>3. ASSUME InstallFormTiming PROVE RecordingFits'
  BY <1>3 DEF InstallFormTiming, Hook
<1>4. ASSUME BeginGameData PROVE RecordingFits'
  BY <1>4 DEF BeginGameData
<1>5. ASSUME NEW withData \in BOOLEAN, DataReady(withData) PROVE RecordingFits'
  BY <1>5 DEF DataReady, RecordStartupEndpoints, Spans
<1>6. ASSUME GameDataReturns PROVE RecordingFits'
  BY <1>6 DEF GameDataReturns
<1>7. ASSUME GameLoaded PROVE RecordingFits'
  BY <1>7 DEF GameLoaded, Spans
<1>8. ASSUME PreLoadGame PROVE RecordingFits'
  BY <1>8 DEF PreLoadGame
<1>9. ASSUME PostLoadGame PROVE RecordingFits'
  BY <1>9 DEF PostLoadGame, ToRecord
<1>10. ASSUME OpenLoadingMenu PROVE RecordingFits'
  BY <1>10 DEF OpenLoadingMenu
<1>11. ASSUME OnLoadingMenuClosed PROVE RecordingFits'
  BY <1>11 DEF OnLoadingMenuClosed, ToRecord
<1>12. ASSUME NEW t \in Callers, NEW step \in LoadSteps, BeginTimedCall(t, step) PROVE RecordingFits'
  BY <1>12 DEF BeginTimedCall
<1>13. ASSUME NEW t \in Callers, EndTimedCall(t) PROVE RecordingFits'
  BY <1>13 DEF EndTimedCall, ToRecord
<1>14. ASSUME NEW t \in Callers, LockRecord(t) PROVE RecordingFits'
  BY <1>14 DEF LockRecord
<1>15. ASSUME NEW t \in Callers, RecordSpan(t) PROVE RecordingFits'
  BY <1>15 DEF RecordSpan
<1> HIDE DEF TimingInv, TimingTypes, StartupFits, RecordingFits, LoadFits,
    HooksReachTheGame, Times, None0, NoSpan, SpanBuckets, DataBuckets, CanLoadBuckets,
    formVars, saveVars
<1> QED
  BY <1>1, <1>2, <1>3, <1>4, <1>5, <1>6, <1>7, <1>8, <1>9, <1>10, <1>11, <1>12, <1>13,
      <1>14, <1>15
  DEF TimingNext

(* Every step keeps the spans of the loads.                                *)
LEMMA LoadFitsKept == TimingInv /\ TimingNext => LoadFits'
<1> SUFFICES ASSUME TimingInv, TimingNext PROVE LoadFits'
  OBVIOUS
<1> USE TimingAssumption DEF TimingInv, TimingTypes, StartupFits, RecordingFits, LoadFits,
    HooksReachTheGame, Times, None0, NoSpan, SpanBuckets, DataBuckets, CanLoadBuckets,
    formVars, saveVars
<1>1. ASSUME ClockTick PROVE LoadFits'
  BY <1>1 DEF ClockTick
<1>2. ASSUME InstallSaveTiming PROVE LoadFits'
  BY <1>2 DEF InstallSaveTiming
<1>3. ASSUME InstallFormTiming PROVE LoadFits'
  BY <1>3 DEF InstallFormTiming, Hook
<1>4. ASSUME BeginGameData PROVE LoadFits'
  BY <1>4 DEF BeginGameData
<1>5. ASSUME NEW withData \in BOOLEAN, DataReady(withData) PROVE LoadFits'
  BY <1>5 DEF DataReady, RecordStartupEndpoints, Spans
<1>6. ASSUME GameDataReturns PROVE LoadFits'
  BY <1>6 DEF GameDataReturns
<1>7. ASSUME GameLoaded PROVE LoadFits'
  BY <1>7 DEF GameLoaded, Spans
<1>8. ASSUME PreLoadGame PROVE LoadFits'
  BY <1>8 DEF PreLoadGame
<1>9. ASSUME PostLoadGame PROVE LoadFits'
  BY <1>9 DEF PostLoadGame, ToRecord
<1>10. ASSUME OpenLoadingMenu PROVE LoadFits'
  BY <1>10 DEF OpenLoadingMenu
<1>11. ASSUME OnLoadingMenuClosed PROVE LoadFits'
  BY <1>11 DEF OnLoadingMenuClosed, ToRecord
<1>12. ASSUME NEW t \in Callers, NEW step \in LoadSteps, BeginTimedCall(t, step) PROVE LoadFits'
  BY <1>12 DEF BeginTimedCall
<1>13. ASSUME NEW t \in Callers, EndTimedCall(t) PROVE LoadFits'
  BY <1>13 DEF EndTimedCall, ToRecord
<1>14. ASSUME NEW t \in Callers, LockRecord(t) PROVE LoadFits'
  BY <1>14 DEF LockRecord
<1>15. ASSUME NEW t \in Callers, RecordSpan(t) PROVE LoadFits'
  BY <1>15 DEF RecordSpan
<1> HIDE DEF TimingInv, TimingTypes, StartupFits, RecordingFits, LoadFits,
    HooksReachTheGame, Times, None0, NoSpan, SpanBuckets, DataBuckets, CanLoadBuckets,
    formVars, saveVars
<1> QED
  BY <1>1, <1>2, <1>3, <1>4, <1>5, <1>6, <1>7, <1>8, <1>9, <1>10, <1>11, <1>12, <1>13,
      <1>14, <1>15
  DEF TimingNext

(* The start satisfies the invariant.                                      *)
LEMMA TimingStarts == TimingStart => TimingInv
<1> SUFFICES ASSUME TimingStart PROVE TimingInv
  OBVIOUS
<1> USE TimingAssumption DEF TimingStart, Times, None0, NoSpan
<1>1. TimingTypes
  <2>1. constructHook = [in |-> FALSE, original |-> FALSE] /\ compileHook = [in |-> FALSE, original |-> FALSE]
    BY DEF Hook
  <2>2. timedCall \in [Callers -> [step : LoadSteps \cup {"none"}, start : 0..MaxTime]]
    OBVIOUS
  <2>3. toRecord \in [Callers -> [bucket : LoadSteps \cup SpanBuckets \cup {"none"},
                                 from : 0..MaxTime, to : 0..MaxTime]]
    OBVIOUS
  <2>4. {timersIn, startupRecorded, canLoadRecorded, timingInstalled, menuUp} \subseteq BOOLEAN
    OBVIOUS
  <2>5. HooksReachTheGame /\ {constructHook, compileHook} \subseteq [in : BOOLEAN, original : BOOLEAN]
    <3> HIDE DEF TimingStart
    <3>1. constructHook.in = FALSE /\ constructHook.original = FALSE
          /\ compileHook.in = FALSE /\ compileHook.original = FALSE
      BY <2>1
    <3>2. HooksReachTheGame
      BY <3>1 DEF HooksReachTheGame
    <3>3. constructHook \in [in : BOOLEAN, original : BOOLEAN]
      BY <2>1
    <3>4. compileHook \in [in : BOOLEAN, original : BOOLEAN]
      BY <2>1
    <3> QED
      BY <3>2, <3>3, <3>4
  <2>6. \A t \in Callers : toRecord[t].from <= toRecord[t].to /\ toRecord[t].to <= clock
    OBVIOUS
  <2>7. /\ clock \in Times /\ clock > 0 /\ loadQpc \in 0..clock /\ menuQpc \in 0..clock
        /\ preLoadQpc \in 0..clock /\ inLoad \in 0..MaxLoads /\ loadsBegun \in 0..MaxLoads
        /\ startupStage = "plugins" /\ saveSpans = {} /\ startupSpans = {}
    OBVIOUS
  <2> HIDE DEF TimingStart
  <2> QED
    BY <2>2, <2>3, <2>4, <2>5, <2>6, <2>7 DEF TimingTypes
<1>2. StartupFits
  BY DEF StartupFits
<1>3. RecordingFits
  BY DEF RecordingFits, SpanBuckets
<1>4. LoadFits
  BY DEF LoadFits, SpanBuckets
<1> QED
  BY <1>1, <1>2, <1>3, <1>4 DEF TimingInv

(* Every step keeps it, and so does a step that changes nothing.           *)
LEMMA TimingStep == TimingInv /\ [TimingNext]_timingVars => TimingInv'
<1>1. TimingInv /\ TimingNext => TimingInv'
  BY TimingTypesKept, StartupFitsKept, RecordingFitsKept, LoadFitsKept DEF TimingInv
<1>2. TimingInv /\ UNCHANGED timingVars => TimingInv'
  BY DEF TimingInv, TimingTypes, StartupFits, RecordingFits, LoadFits, HooksReachTheGame,
         timingVars, formVars, saveVars
<1> QED
  BY <1>1, <1>2

(* It says that a start's spans add up and a load's are recorded once.     *)
LEMMA TimesAreInvariant == TimingInv => TimesAreTrue
<1> SUFFICES ASSUME TimingInv PROVE TimesAreTrue
  OBVIOUS
<1> USE TimingAssumption DEF TimingInv, TimingTypes
<1>1. recording \subseteq Callers /\ Cardinality(recording) <= 1
  <2>1. recording = {} \/ \E t \in Callers : recording = {t}
    BY DEF RecordingFits
  <2>2. CASE recording = {}
    BY <2>2, FS_EmptySet
  <2>3. ASSUME NEW t \in Callers, recording = {t} PROVE recording \subseteq Callers /\ Cardinality(recording) <= 1
    <3>1. Cardinality({t}) = 1
      BY FS_Singleton
    <3> QED
      BY <2>3, <3>1
  <2> QED
    BY <2>1, <2>2, <2>3
<1>2. TimingTypeOK
  BY <1>1 DEF TimingTypeOK, Times
<1>3. StartupAddsUp
  BY DEF Times, StartupFits, SpansOf, StartupAddsUp
<1>4. LoadsAreTimedOnce
  BY <1>1 DEF LoadsAreTimedOnce, LoadFits, Bucket
<1> QED
  BY <1>2, <1>3, <1>4 DEF TimesAreTrue

(* The times are true, however many threads time whatever steps of however *)
(* many loads: a start's spans are recorded once and the part before the   *)
(* menu and the part after it make up the whole; a load has one span to    *)
(* its end and one to its menu's closing; one thread records at a time     *)
(* (AdModuleFormLoadTiming.cpp, AdModuleSaveLoadTiming.cpp).               *)
THEOREM TimesAreAlwaysTrue == TimingSpec => []TimesAreTrue
<1>1. TimingSpec => []TimingInv
  BY TimingStarts, TimingStep, PTL DEF TimingSpec
<1> QED
  BY <1>1, TimesAreInvariant, PTL

-------------------------------------------------------------------------------
(* What the variables hold.                                                *)
AudioTypes ==
    /\ due \in {NoRequest} \cup 0..RetryMax /\ forced \in BOOLEAN
    /\ audioShutdown \in BOOLEAN /\ draining \in BOOLEAN
    /\ pendingGraph \in Graphs \cup {NoGraph} /\ graphSlot \in Graphs \cup {NoGraph}
    /\ drainLeft \in 0..DrainTimeout /\ failures \in 0..MaxShift
    /\ bound \in Devices \cup {NoDevice} /\ endpointSeen \in Devices \cup {NoDevice}
    /\ defaultDevice \in Devices \cup {NoDevice}
    /\ following \in BOOLEAN /\ wasForced \in BOOLEAN /\ managerRuns \in BOOLEAN
    /\ audioStep \in {"loop", "exchange", "check", "build", "retryForce", "retryDue",
                      "ask", "bind", "over"}
    /\ lostGraphs \subseteq built /\ deviceOf \in [built -> Devices]
    /\ engine \in [Graphs -> {"rendering", "force", "due"}]
    /\ voiceOn \in [Voices -> Graphs \cup {NoGraph}] /\ cached \subseteq Sounds
    /\ notices \in Seq(Devices) /\ Len(notices) <= MaxNotices
    /\ notifier \in {"waiting", "request"}
    /\ reader \in Graphs \cup {NoGraph}

(* A switch begins while nothing is drained, and only while the game plays. *)
SwitchFits ==
    /\ wasForced => audioStep = "check"
    /\ audioStep \in {"exchange", "check", "build", "retryForce", "retryDue"} =>
          ~draining /\ pendingGraph = NoGraph
    /\ audioStep \in {"ask", "bind"} => draining /\ pendingGraph = NoGraph
    /\ audioStep \in {"build", "retryForce", "retryDue", "ask", "bind"} => GetAudio
    /\ graphSlot = NoGraph => pendingGraph = NoGraph
    /\ audioStep = "over" => graphSlot = NoGraph
    /\ audioShutdown => ~managerRuns /\ reader = NoGraph

(* The loss of a graph's device is being reported, or requested by force.  *)
Followed(g) ==
    \/ engine[g] = "force"
    \/ forced /\ (engine[g] = "due" \/ due # NoRequest)

(* How far a loss has been followed at each step of the audio thread.      *)
LossFits ==
    /\ pendingGraph \in lostGraphs => Followed(pendingGraph)
    /\ audioStep = "retryDue" => forced
    /\ managerRuns /\ graphSlot \in lostGraphs =>
          /\ audioStep = "loop" /\ ~draining => Followed(graphSlot)
          /\ audioStep = "exchange" => engine[graphSlot] = "force" \/ forced
          /\ audioStep = "check" => wasForced \/ Followed(graphSlot)
          /\ audioStep \in {"ask", "bind"} => Followed(graphSlot)

AudioInv == AudioTypes /\ VoicesAreLive /\ GraphsAreOwned /\ SwitchFits /\ LossFits



(* Every step keeps the types.                                             *)
LEMMA AudioTypesKept == AudioInv /\ AudioNext => AudioTypes'
<1> SUFFICES ASSUME AudioInv, AudioNext PROVE AudioTypes'
  OBVIOUS
<1> USE AudioAssumption DEF AudioInv, AudioTypes, VoicesAreLive, GraphsAreOwned,
    SwitchFits, LossFits, Followed, built, GetAudio, Voices, audioRequest, audioThread,
    audioWorld, audioOutside
<1>1. ASSUME StartAudio PROVE AudioTypes'
  BY <1>1 DEF StartAudio, Built, FirstGraph
<1>2. ASSUME StopManager PROVE AudioTypes'
  BY <1>2 DEF StopManager
<1>3. ASSUME ShutDown PROVE AudioTypes'
  BY <1>3 DEF ShutDown
<1>4. ASSUME ReleaseAll PROVE AudioTypes'
  BY <1>4 DEF ReleaseAll
<1>5. ASSUME NEW s \in Sounds, PlaySound(s) PROVE AudioTypes'
  BY <1>5 DEF PlaySound
<1>6. ASSUME NEW s \in Sounds, RetireSound(s) PROVE AudioTypes'
  BY <1>6 DEF RetireSound
<1>7. ASSUME NEW dev \in Devices \cup {NoDevice}, ChangeDefault(dev) PROVE AudioTypes'
  <2>1. notices' \in Seq(Devices) /\ Len(notices') <= MaxNotices
    <3>1. CASE UNCHANGED notices
      BY <3>1
    <3>2. CASE dev \in Devices /\ Len(notices) < MaxNotices /\ notices' = Append(notices, dev)
      BY <3>2
    <3> QED
      BY <1>7, <3>1, <3>2 DEF ChangeDefault
  <2>2. dev \in Devices \cup {NoDevice}
    OBVIOUS
  <2>3. defaultDevice' = dev
        /\ UNCHANGED <<audioRequest, audioThread, audioWorld, managerRuns, following,
                       audioShutdown, bound, engine, notifier, reader>>
    BY <1>7 DEF ChangeDefault
  <2> QED
    BY SMTT(20), <2>1, <2>2, <2>3
<1>8. ASSUME OnDefaultDeviceChanged PROVE AudioTypes'
  BY <1>8 DEF OnDefaultDeviceChanged
<1>9. ASSUME RequestChange PROVE AudioTypes'
  BY <1>9 DEF RequestChange, RequestIn
<1>10. ASSUME NEW g \in Graphs, LoseDevice(g) PROVE AudioTypes'
  BY <1>10 DEF LoseDevice
<1>11. ASSUME NEW g \in Graphs, CriticalForce(g) PROVE AudioTypes'
  BY <1>11 DEF CriticalForce
<1>12. ASSUME NEW g \in Graphs, CriticalDue(g) PROVE AudioTypes'
  BY <1>12 DEF CriticalDue, RequestIn
<1>13. ASSUME Begin PROVE AudioTypes'
  BY <1>13 DEF Begin
<1>14. ASSUME ExchangeForced PROVE AudioTypes'
  BY ZenonT(40), <1>14 DEF ExchangeForced
<1>15. ASSUME CheckBound PROVE AudioTypes'
  BY ZenonT(40), <1>15 DEF CheckBound, IsBound
<1>16. ASSUME BuildGraph PROVE AudioTypes'
  <2>1. UNCHANGED <<audioRequest, failures, wasForced, endpointSeen, graphSlot, lostGraphs, voiceOn, cached,
                    audioOutside, audioShutdown, bound, engine, notifier, reader>>
    BY <1>16 DEF BuildGraph
  <2>2. CASE UNCHANGED <<pendingGraph, deviceOf, drainLeft, draining>> /\ audioStep' = "retryForce"
    BY <2>1, <2>2
  <2>3. ASSUME NEW g \in Graphs \ built, defaultDevice # NoDevice, pendingGraph' = g, Built(g),
               drainLeft' = DrainTimeout /\ draining' = TRUE /\ audioStep' = "loop"
        PROVE AudioTypes'
    BY <2>3, <2>1 DEF Built
  <2> QED
    BY <1>16, <2>2, <2>3 DEF BuildGraph
<1>17. ASSUME RetryForce PROVE AudioTypes'
  BY <1>17 DEF RetryForce
<1>18. ASSUME RetryDue PROVE AudioTypes'
  BY <1>18 DEF RetryDue, RequestIn, RetryDelay
<1>19. ASSUME Swap PROVE AudioTypes'
  BY <1>19 DEF Swap, Draining, Released
<1>20. ASSUME AskEndpoint PROVE AudioTypes'
  BY <1>20 DEF AskEndpoint
<1>21. ASSUME Bind PROVE AudioTypes'
  <2>2. bound' = endpointSeen /\ endpointSeen' = NoDevice
    BY <1>21 DEF Bind
  <2>3. audioStep' = "loop" /\ failures' = 0 /\ draining' = FALSE /\ drainLeft' = 0
        /\ UNCHANGED <<audioRequest, pendingGraph, wasForced,
                   audioWorld, audioOutside, audioShutdown, engine, notifier, reader>>
    BY <1>21 DEF Bind
  <2>4. failures' \in 0..MaxShift /\ drainLeft' \in 0..DrainTimeout
    BY <2>3
  <2>5. UNCHANGED <<due, forced, pendingGraph, graphSlot, deviceOf, lostGraphs, voiceOn, cached, managerRuns,
                    defaultDevice, notices, following, audioShutdown, engine, notifier, reader, wasForced>>
    BY <2>3
  <2>6. bound' \in Devices \cup {NoDevice} /\ endpointSeen' \in Devices \cup {NoDevice}
    BY <2>2
  <2> QED
    BY <2>3, <2>4, <2>5, <2>6
<1>22. ASSUME AbandonGraph PROVE AudioTypes'
  <2>1. /\ pendingGraph' = NoGraph /\ draining' = FALSE /\ drainLeft' = 0
        /\ audioStep' = IF GetAudio THEN "retryForce" ELSE "loop"
        /\ UNCHANGED <<audioRequest, failures, wasForced, endpointSeen, graphSlot, voiceOn, cached,
                   audioOutside, audioShutdown, bound, engine, notifier, reader>>
    BY <1>22 DEF AbandonGraph
  <2>2. deviceOf' = [h \in built \ {pendingGraph} |-> deviceOf[h]] /\ lostGraphs' = lostGraphs \ {pendingGraph}
    BY <1>22 DEF AbandonGraph, Released
  <2>3. built' = built \ {pendingGraph} /\ deviceOf' \in [built \ {pendingGraph} -> Devices]
    BY <2>2
  <2>4. lostGraphs' \subseteq built' /\ deviceOf' \in [built' -> Devices]
    BY <2>2, <2>3
  <2>5. audioStep' \in {"loop", "retryForce"} /\ UNCHANGED <<due, forced, failures, wasForced,
          endpointSeen, graphSlot, voiceOn, cached, managerRuns, defaultDevice, notices,
          following, audioShutdown, bound, engine, notifier, reader>>
    BY <2>1
  <2>6. pendingGraph' = NoGraph /\ drainLeft' \in 0..DrainTimeout
    BY <2>1
  <2>7. draining' \in BOOLEAN /\ forced' \in BOOLEAN /\ audioShutdown' \in BOOLEAN
        /\ following' \in BOOLEAN /\ wasForced' \in BOOLEAN /\ managerRuns' \in BOOLEAN
    BY <2>1, <2>5
  <2>8. due' = due /\ failures' = failures /\ endpointSeen' = endpointSeen
        /\ graphSlot' = graphSlot /\ voiceOn' = voiceOn /\ cached' = cached
        /\ defaultDevice' = defaultDevice /\ notices' = notices /\ bound' = bound
        /\ engine' = engine /\ notifier' = notifier /\ reader' = reader
    BY <2>5
  <2>9. audioStep' \in {"loop", "retryForce"}
    BY <2>5
  <2> QED
    BY <2>4, <2>6, <2>7, <2>8, <2>9
<1>23. ASSUME ReadBegin PROVE AudioTypes'
  BY <1>23 DEF ReadBegin
<1>24. ASSUME ReadEnd PROVE AudioTypes'
  BY <1>24 DEF ReadEnd
<1>25. ASSUME AudioTick PROVE AudioTypes'
  <2>1. UNCHANGED <<forced, draining, pendingGraph, failures, audioStep, wasForced, endpointSeen,
                   audioWorld, audioOutside, audioShutdown, bound, engine, notifier, reader>>
    BY <1>25 DEF AudioTick
  <2>2. due' \in {NoRequest} \cup 0..RetryMax
    BY <1>25 DEF AudioTick
  <2>3. drainLeft' \in 0..DrainTimeout
    BY <1>25 DEF AudioTick
  <2> QED
    BY <2>1, <2>2, <2>3
<1> HIDE DEF AudioInv, AudioTypes, VoicesAreLive, GraphsAreOwned, SwitchFits, LossFits,
    Followed, built, GetAudio, Voices, audioRequest, audioThread, audioWorld, audioOutside
<1> QED
  BY <1>1, <1>2, <1>3, <1>4, <1>5, <1>6, <1>7, <1>8, <1>9, <1>10, <1>11, <1>12, <1>13,
      <1>14, <1>15, <1>16, <1>17, <1>18, <1>19, <1>20, <1>21, <1>22, <1>23, <1>24, <1>25
  DEF AudioNext

(* Every step keeps the voices on the live graph.                          *)
LEMMA VoicesKept == AudioInv /\ AudioNext => VoicesAreLive'
<1> SUFFICES ASSUME AudioInv, AudioNext PROVE VoicesAreLive'
  OBVIOUS
<1> USE AudioAssumption DEF AudioInv, AudioTypes, VoicesAreLive, GraphsAreOwned,
    SwitchFits, LossFits, Followed, built, GetAudio, Voices, audioRequest, audioThread,
    audioWorld, audioOutside
<1>1. ASSUME StartAudio PROVE VoicesAreLive'
  BY <1>1 DEF StartAudio, Built, FirstGraph
<1>2. ASSUME StopManager PROVE VoicesAreLive'
  BY <1>2 DEF StopManager
<1>3. ASSUME ShutDown PROVE VoicesAreLive'
  BY <1>3 DEF ShutDown
<1>4. ASSUME ReleaseAll PROVE VoicesAreLive'
  BY <1>4 DEF ReleaseAll
<1>5. ASSUME NEW s \in Sounds, PlaySound(s) PROVE VoicesAreLive'
  BY <1>5 DEF PlaySound
<1>6. ASSUME NEW s \in Sounds, RetireSound(s) PROVE VoicesAreLive'
  BY <1>6 DEF RetireSound
<1>7. ASSUME NEW dev \in Devices \cup {NoDevice}, ChangeDefault(dev) PROVE VoicesAreLive'
  BY <1>7 DEF ChangeDefault
<1>8. ASSUME OnDefaultDeviceChanged PROVE VoicesAreLive'
  BY <1>8 DEF OnDefaultDeviceChanged
<1>9. ASSUME RequestChange PROVE VoicesAreLive'
  BY <1>9 DEF RequestChange, RequestIn
<1>10. ASSUME NEW g \in Graphs, LoseDevice(g) PROVE VoicesAreLive'
  BY <1>10 DEF LoseDevice
<1>11. ASSUME NEW g \in Graphs, CriticalForce(g) PROVE VoicesAreLive'
  BY <1>11 DEF CriticalForce
<1>12. ASSUME NEW g \in Graphs, CriticalDue(g) PROVE VoicesAreLive'
  BY <1>12 DEF CriticalDue, RequestIn
<1>13. ASSUME Begin PROVE VoicesAreLive'
  BY <1>13 DEF Begin
<1>14. ASSUME ExchangeForced PROVE VoicesAreLive'
  BY <1>14 DEF ExchangeForced
<1>15. ASSUME CheckBound PROVE VoicesAreLive'
  BY <1>15 DEF CheckBound, IsBound
<1>16. ASSUME BuildGraph PROVE VoicesAreLive'
  BY <1>16 DEF BuildGraph, Built
<1>17. ASSUME RetryForce PROVE VoicesAreLive'
  BY <1>17 DEF RetryForce
<1>18. ASSUME RetryDue PROVE VoicesAreLive'
  BY <1>18 DEF RetryDue, RequestIn, RetryDelay
<1>19. ASSUME Swap PROVE VoicesAreLive'
  BY <1>19 DEF Swap, Draining, Released
<1>20. ASSUME AskEndpoint PROVE VoicesAreLive'
  BY <1>20 DEF AskEndpoint
<1>21. ASSUME Bind PROVE VoicesAreLive'
  BY <1>21 DEF Bind
<1>22. ASSUME AbandonGraph PROVE VoicesAreLive'
  BY <1>22 DEF AbandonGraph, Draining, Released
<1>23. ASSUME ReadBegin PROVE VoicesAreLive'
  BY <1>23 DEF ReadBegin
<1>24. ASSUME ReadEnd PROVE VoicesAreLive'
  BY <1>24 DEF ReadEnd
<1>25. ASSUME AudioTick PROVE VoicesAreLive'
  BY <1>25 DEF AudioTick
<1> HIDE DEF AudioInv, AudioTypes, VoicesAreLive, GraphsAreOwned, SwitchFits, LossFits,
    Followed, built, GetAudio, Voices, audioRequest, audioThread, audioWorld, audioOutside
<1> QED
  BY <1>1, <1>2, <1>3, <1>4, <1>5, <1>6, <1>7, <1>8, <1>9, <1>10, <1>11, <1>12, <1>13,
      <1>14, <1>15, <1>16, <1>17, <1>18, <1>19, <1>20, <1>21, <1>22, <1>23, <1>24, <1>25
  DEF AudioNext

(* Every step keeps the graphs owned.                                      *)
LEMMA GraphsKept == AudioInv /\ AudioNext => GraphsAreOwned'
<1> SUFFICES ASSUME AudioInv, AudioNext PROVE GraphsAreOwned'
  OBVIOUS
<1> USE AudioAssumption DEF AudioInv, AudioTypes, VoicesAreLive, GraphsAreOwned,
    SwitchFits, LossFits, Followed, built, GetAudio, Voices, audioRequest, audioThread,
    audioWorld, audioOutside
<1>1. ASSUME StartAudio PROVE GraphsAreOwned'
  BY <1>1 DEF StartAudio, Built, FirstGraph
<1>2. ASSUME StopManager PROVE GraphsAreOwned'
  BY <1>2 DEF StopManager
<1>3. ASSUME ShutDown PROVE GraphsAreOwned'
  BY <1>3 DEF ShutDown
<1>4. ASSUME ReleaseAll PROVE GraphsAreOwned'
  BY <1>4 DEF ReleaseAll
<1>5. ASSUME NEW s \in Sounds, PlaySound(s) PROVE GraphsAreOwned'
  BY <1>5 DEF PlaySound
<1>6. ASSUME NEW s \in Sounds, RetireSound(s) PROVE GraphsAreOwned'
  BY <1>6 DEF RetireSound
<1>7. ASSUME NEW dev \in Devices \cup {NoDevice}, ChangeDefault(dev) PROVE GraphsAreOwned'
  BY <1>7 DEF ChangeDefault
<1>8. ASSUME OnDefaultDeviceChanged PROVE GraphsAreOwned'
  BY <1>8 DEF OnDefaultDeviceChanged
<1>9. ASSUME RequestChange PROVE GraphsAreOwned'
  BY <1>9 DEF RequestChange, RequestIn
<1>10. ASSUME NEW g \in Graphs, LoseDevice(g) PROVE GraphsAreOwned'
  BY <1>10 DEF LoseDevice
<1>11. ASSUME NEW g \in Graphs, CriticalForce(g) PROVE GraphsAreOwned'
  BY <1>11 DEF CriticalForce
<1>12. ASSUME NEW g \in Graphs, CriticalDue(g) PROVE GraphsAreOwned'
  BY <1>12 DEF CriticalDue, RequestIn
<1>13. ASSUME Begin PROVE GraphsAreOwned'
  BY <1>13 DEF Begin
<1>14. ASSUME ExchangeForced PROVE GraphsAreOwned'
  BY <1>14 DEF ExchangeForced
<1>15. ASSUME CheckBound PROVE GraphsAreOwned'
  BY <1>15 DEF CheckBound, IsBound
<1>16. ASSUME BuildGraph PROVE GraphsAreOwned'
  BY <1>16 DEF BuildGraph, Built
<1>17. ASSUME RetryForce PROVE GraphsAreOwned'
  BY <1>17 DEF RetryForce
<1>18. ASSUME RetryDue PROVE GraphsAreOwned'
  BY <1>18 DEF RetryDue, RequestIn, RetryDelay
<1>19. ASSUME Swap PROVE GraphsAreOwned'
  BY <1>19 DEF Swap, Draining, Released
<1>20. ASSUME AskEndpoint PROVE GraphsAreOwned'
  BY <1>20 DEF AskEndpoint
<1>21. ASSUME Bind PROVE GraphsAreOwned'
  BY <1>21 DEF Bind
<1>22. ASSUME AbandonGraph PROVE GraphsAreOwned'
  BY <1>22 DEF AbandonGraph, Draining, Released
<1>23. ASSUME ReadBegin PROVE GraphsAreOwned'
  BY <1>23 DEF ReadBegin
<1>24. ASSUME ReadEnd PROVE GraphsAreOwned'
  BY <1>24 DEF ReadEnd
<1>25. ASSUME AudioTick PROVE GraphsAreOwned'
  BY <1>25 DEF AudioTick
<1> HIDE DEF AudioInv, AudioTypes, VoicesAreLive, GraphsAreOwned, SwitchFits, LossFits,
    Followed, built, GetAudio, Voices, audioRequest, audioThread, audioWorld, audioOutside
<1> QED
  BY <1>1, <1>2, <1>3, <1>4, <1>5, <1>6, <1>7, <1>8, <1>9, <1>10, <1>11, <1>12, <1>13,
      <1>14, <1>15, <1>16, <1>17, <1>18, <1>19, <1>20, <1>21, <1>22, <1>23, <1>24, <1>25
  DEF AudioNext

(* Every step keeps where a switch is.                                     *)
LEMMA SwitchFitsKept == AudioInv /\ AudioNext => SwitchFits'
<1> SUFFICES ASSUME AudioInv, AudioNext PROVE SwitchFits'
  OBVIOUS
<1> USE AudioAssumption DEF AudioInv, AudioTypes, VoicesAreLive, GraphsAreOwned,
    SwitchFits, LossFits, Followed, built, GetAudio, Voices, audioRequest, audioThread,
    audioWorld, audioOutside
<1>1. ASSUME StartAudio PROVE SwitchFits'
  BY <1>1 DEF StartAudio, Built, FirstGraph
<1>2. ASSUME StopManager PROVE SwitchFits'
  BY <1>2 DEF StopManager
<1>3. ASSUME ShutDown PROVE SwitchFits'
  BY <1>3 DEF ShutDown
<1>4. ASSUME ReleaseAll PROVE SwitchFits'
  BY <1>4 DEF ReleaseAll
<1>5. ASSUME NEW s \in Sounds, PlaySound(s) PROVE SwitchFits'
  BY <1>5 DEF PlaySound
<1>6. ASSUME NEW s \in Sounds, RetireSound(s) PROVE SwitchFits'
  BY <1>6 DEF RetireSound
<1>7. ASSUME NEW dev \in Devices \cup {NoDevice}, ChangeDefault(dev) PROVE SwitchFits'
  BY <1>7 DEF ChangeDefault
<1>8. ASSUME OnDefaultDeviceChanged PROVE SwitchFits'
  BY <1>8 DEF OnDefaultDeviceChanged
<1>9. ASSUME RequestChange PROVE SwitchFits'
  BY <1>9 DEF RequestChange, RequestIn
<1>10. ASSUME NEW g \in Graphs, LoseDevice(g) PROVE SwitchFits'
  BY <1>10 DEF LoseDevice
<1>11. ASSUME NEW g \in Graphs, CriticalForce(g) PROVE SwitchFits'
  BY <1>11 DEF CriticalForce
<1>12. ASSUME NEW g \in Graphs, CriticalDue(g) PROVE SwitchFits'
  BY <1>12 DEF CriticalDue, RequestIn
<1>13. ASSUME Begin PROVE SwitchFits'
  BY <1>13 DEF Begin
<1>14. ASSUME ExchangeForced PROVE SwitchFits'
  BY <1>14 DEF ExchangeForced
<1>15. ASSUME CheckBound PROVE SwitchFits'
  BY <1>15 DEF CheckBound, IsBound
<1>16. ASSUME BuildGraph PROVE SwitchFits'
  BY <1>16 DEF BuildGraph
<1>17. ASSUME RetryForce PROVE SwitchFits'
  BY <1>17 DEF RetryForce
<1>18. ASSUME RetryDue PROVE SwitchFits'
  BY <1>18 DEF RetryDue, RequestIn, RetryDelay
<1>19. ASSUME Swap PROVE SwitchFits'
  BY <1>19 DEF Swap, Draining, Released
<1>20. ASSUME AskEndpoint PROVE SwitchFits'
  BY <1>20 DEF AskEndpoint
<1>21. ASSUME Bind PROVE SwitchFits'
  BY <1>21 DEF Bind
<1>22. ASSUME AbandonGraph PROVE SwitchFits'
  BY <1>22 DEF AbandonGraph, Draining, Released
<1>23. ASSUME ReadBegin PROVE SwitchFits'
  BY <1>23 DEF ReadBegin
<1>24. ASSUME ReadEnd PROVE SwitchFits'
  BY <1>24 DEF ReadEnd
<1>25. ASSUME AudioTick PROVE SwitchFits'
  BY <1>25 DEF AudioTick
<1> HIDE DEF AudioInv, AudioTypes, VoicesAreLive, GraphsAreOwned, SwitchFits, LossFits,
    Followed, built, GetAudio, Voices, audioRequest, audioThread, audioWorld, audioOutside
<1> QED
  BY <1>1, <1>2, <1>3, <1>4, <1>5, <1>6, <1>7, <1>8, <1>9, <1>10, <1>11, <1>12, <1>13,
      <1>14, <1>15, <1>16, <1>17, <1>18, <1>19, <1>20, <1>21, <1>22, <1>23, <1>24, <1>25
  DEF AudioNext

(* Every step keeps a loss followed.                                       *)
LEMMA LossFitsKept == AudioInv /\ AudioNext => LossFits'
<1> SUFFICES ASSUME AudioInv, AudioNext PROVE LossFits'
  OBVIOUS
<1> USE AudioAssumption DEF AudioInv, AudioTypes, VoicesAreLive, GraphsAreOwned,
    SwitchFits, LossFits, Followed, built, GetAudio, Voices, audioRequest, audioThread,
    audioWorld, audioOutside
<1>1. ASSUME StartAudio PROVE LossFits'
  BY <1>1 DEF StartAudio, Built, FirstGraph
<1>2. ASSUME StopManager PROVE LossFits'
  BY <1>2 DEF StopManager
<1>3. ASSUME ShutDown PROVE LossFits'
  BY <1>3 DEF ShutDown
<1>4. ASSUME ReleaseAll PROVE LossFits'
  BY <1>4 DEF ReleaseAll
<1>5. ASSUME NEW s \in Sounds, PlaySound(s) PROVE LossFits'
  BY <1>5 DEF PlaySound
<1>6. ASSUME NEW s \in Sounds, RetireSound(s) PROVE LossFits'
  BY <1>6 DEF RetireSound
<1>7. ASSUME NEW dev \in Devices \cup {NoDevice}, ChangeDefault(dev) PROVE LossFits'
  BY <1>7 DEF ChangeDefault
<1>8. ASSUME OnDefaultDeviceChanged PROVE LossFits'
  BY <1>8 DEF OnDefaultDeviceChanged
<1>9. ASSUME RequestChange PROVE LossFits'
  BY <1>9 DEF RequestChange, RequestIn
<1>10. ASSUME NEW g \in Graphs, LoseDevice(g) PROVE LossFits'
  BY <1>10 DEF LoseDevice
<1>11. ASSUME NEW g \in Graphs, CriticalForce(g) PROVE LossFits'
  BY <1>11 DEF CriticalForce
<1>12. ASSUME NEW g \in Graphs, CriticalDue(g) PROVE LossFits'
  BY <1>12 DEF CriticalDue, RequestIn
<1>13. ASSUME Begin PROVE LossFits'
  BY <1>13 DEF Begin
<1>14. ASSUME ExchangeForced PROVE LossFits'
  BY <1>14 DEF ExchangeForced
<1>15. ASSUME CheckBound PROVE LossFits'
  BY <1>15 DEF CheckBound, IsBound
<1>16. ASSUME BuildGraph PROVE LossFits'
  BY <1>16 DEF BuildGraph, Built
<1>17. ASSUME RetryForce PROVE LossFits'
  BY <1>17 DEF RetryForce
<1>18. ASSUME RetryDue PROVE LossFits'
  BY <1>18 DEF RetryDue, RequestIn, RetryDelay
<1>19. ASSUME Swap PROVE LossFits'
  BY <1>19 DEF Swap, Draining, Released
<1>20. ASSUME AskEndpoint PROVE LossFits'
  BY <1>20 DEF AskEndpoint
<1>21. ASSUME Bind PROVE LossFits'
  BY <1>21 DEF Bind
<1>22. ASSUME AbandonGraph PROVE LossFits'
  BY <1>22 DEF AbandonGraph, Draining, Released
<1>23. ASSUME ReadBegin PROVE LossFits'
  BY <1>23 DEF ReadBegin
<1>24. ASSUME ReadEnd PROVE LossFits'
  BY <1>24 DEF ReadEnd
<1>25. ASSUME AudioTick PROVE LossFits'
  BY <1>25 DEF AudioTick
<1> HIDE DEF AudioInv, AudioTypes, VoicesAreLive, GraphsAreOwned, SwitchFits, LossFits,
    Followed, built, GetAudio, Voices, audioRequest, audioThread, audioWorld, audioOutside
<1> QED
  BY <1>1, <1>2, <1>3, <1>4, <1>5, <1>6, <1>7, <1>8, <1>9, <1>10, <1>11, <1>12, <1>13,
      <1>14, <1>15, <1>16, <1>17, <1>18, <1>19, <1>20, <1>21, <1>22, <1>23, <1>24, <1>25
  DEF AudioNext

(* The start satisfies the invariant.                                      *)
LEMMA AudioStarts == AudioStart => AudioInv
<1> SUFFICES ASSUME AudioStart PROVE AudioInv
  OBVIOUS
<1> USE AudioAssumption DEF AudioStart, built, GetAudio, Voices
<1>1. notices \in Seq(Devices) /\ Len(notices) <= MaxNotices /\ DOMAIN deviceOf = {}
      /\ deviceOf \in [{} -> Devices]
  OBVIOUS
<1>2. AudioTypes
  <2>1. engine \in [Graphs -> {"rendering", "force", "due"}] /\ voiceOn \in [Voices -> Graphs \cup {NoGraph}]
    OBVIOUS
  <2>2. drainLeft \in 0..DrainTimeout /\ failures \in 0..MaxShift
    OBVIOUS
  <2>3. bound \in Devices \cup {NoDevice}
    OBVIOUS
  <2>4. lostGraphs \subseteq built /\ deviceOf \in [built -> Devices]
    BY <1>1
  <2> QED
    BY <1>1, <2>1, <2>2, <2>3, <2>4 DEF AudioTypes
<1>3. VoicesAreLive
  BY DEF VoicesAreLive
<1>4. GraphsAreOwned
  BY <1>1 DEF GraphsAreOwned
<1>5. SwitchFits /\ LossFits
  BY DEF SwitchFits, LossFits
<1> QED
  BY <1>2, <1>3, <1>4, <1>5 DEF AudioInv

(* Every step keeps it, and so does a step that changes nothing.           *)
LEMMA AudioStepKept == AudioInv /\ [AudioNext]_audioVars => AudioInv'
<1>1. AudioInv /\ AudioNext => AudioInv'
  BY AudioTypesKept, VoicesKept, GraphsKept, SwitchFitsKept, LossFitsKept DEF AudioInv
<1>2. AudioInv /\ UNCHANGED audioVars => AudioInv'
  BY DEF AudioInv, AudioTypes, VoicesAreLive, GraphsAreOwned, SwitchFits, LossFits,
      Followed,
         built, GetAudio, Voices, audioVars, audioRequest, audioThread, audioWorld, audioOutside
<1> QED
  BY <1>1, <1>2

(* It says that the audio goes on.                                         *)
LEMMA AudioGoesOnInvariantly == AudioInv => AudioGoesOn
<1> SUFFICES ASSUME AudioInv PROVE AudioGoesOn
  OBVIOUS
<1>1. AudioTypeOK
  BY DEF AudioInv, AudioTypes, AudioTypeOK, GraphsAreOwned
<1>2. built \subseteq Graphs
  BY DEF AudioInv, AudioTypes, GraphsAreOwned
<1>3. LossIsFollowed
  <2> SUFFICES ASSUME graphSlot \in lostGraphs, managerRuns, pendingGraph = NoGraph
               PROVE \/ engine[graphSlot] # "rendering"
                     \/ forced /\ (due # NoRequest \/ audioStep = "exchange")
                     \/ wasForced
                     \/ audioStep \in {"build", "retryForce", "retryDue"}
    BY DEF LossIsFollowed
  <2> USE DEF AudioInv, AudioTypes
  <2>1. audioStep # "over"
    BY DEF GraphsAreOwned, SwitchFits
  <2>2. audioStep = "loop" => ~draining
    BY DEF GraphsAreOwned
  <2> QED
    BY <2>1, <2>2 DEF LossFits, Followed
<1> QED
  BY <1>1, <1>2, <1>3 DEF AudioGoesOn, AudioInv

(* However Windows' notices, the losses of devices and the audio thread's  *)
(* steps meet, the voices are on the live graph, no graph is leaked or     *)
(* released twice, and a lost device is being reported, requested or dealt *)
(* with (AdModuleAudioSwitch.cpp).                                         *)
THEOREM AudioAlwaysGoesOn == AudioSpec => []AudioGoesOn
<1>1. AudioSpec => []AudioInv
  BY AudioStarts, AudioStepKept, PTL DEF AudioSpec
<1> QED
  BY <1>1, AudioGoesOnInvariantly, PTL

-------------------------------------------------------------------------------
Owners == Plugins \cup Earlier \cup {Nobody}
Registering == [step : {"idle", "take", "fill", "give"}, plugin : Owners, kind : CallbackKinds,
                callback : Nat, image : Owners, thunk : Nat \cup {Direct}]
Given == [plugin : Owners, kind : CallbackKinds, callback : Nat, image : Owners,
          thunk : Nat \cup {Direct}]

(* What the variables hold.                                                *)
CallbackTypes ==
    /\ toLoad \subseteq Plugins /\ current \in Plugins \cup {Nobody}
    /\ patched \subseteq CallbackKinds /\ knownHandles \subseteq Plugins
    /\ DOMAIN thunks \subseteq 0..ThunkCount - 1
    /\ nextThunk \in Nat /\ callbackOverflow \in Nat
    /\ stage \in {"idle", "query", "queried", "both", "load", "loading"}
    /\ registering \in [CallbackThreads -> Registering]
    /\ registrations \in Seq(Given)

(* The hooks know the plugin F4SE is at.                                   *)
LoaderFits ==
    /\ stage = "idle" <=> current = Nobody
    /\ stage # "idle" => activeName = current
    /\ stage \in {"query", "both"} => originalQuery = current
    /\ stage \in {"both", "load", "loading"} => originalLoad = current
    /\ loadingImage = Nobody \/ (stage = "loading" /\ loadingImage = current)

(* A registration under way is its plugin's, and a thunk is one thread's    *)
(* until it is filled.                                                     *)
RegistrationFits(t) ==
    /\ registering[t].step = "idle" => registering[t] = NotRegistering
    /\ registering[t].image # Nobody => registering[t].image = registering[t].plugin
    /\ registering[t].step \in {"take", "fill"} => registering[t].image # Nobody
    /\ registering[t].step = "take" => registering[t].thunk = Direct
    /\ registering[t].step = "fill" =>
          /\ registering[t].thunk \in 0..ThunkCount - 1
          /\ registering[t].thunk < nextThunk
          /\ registering[t].thunk \notin DOMAIN thunks
    /\ registering[t].step = "give" /\ registering[t].thunk # Direct =>
          /\ registering[t].thunk \in DOMAIN thunks
          /\ thunks[registering[t].thunk] =
               [image |-> registering[t].plugin, kind |-> registering[t].kind,
                callback |-> registering[t].callback]

ThunksFit ==
    /\ \A n \in DOMAIN thunks : n < nextThunk
    /\ \A t \in CallbackThreads : RegistrationFits(t)
    /\ \A t, u \in CallbackThreads :
          registering[t].step = "fill" /\ registering[u].step = "fill"
             /\ registering[t].thunk = registering[u].thunk => t = u

CallbackInv ==
    /\ CallbackTypes /\ LoaderFits /\ ThunksFit
    /\ ThunksLeadHome /\ UntimedAreCounted /\ TimesAreTheirs


(* Registrations are counted.                                              *)
LEMMA CountType == ASSUME CallbackTypes PROVE Count \in Nat
<1> DEFINE S == {t \in CallbackThreads : registering[t].step # "idle"}
<1>1. IsFiniteSet(S) /\ Cardinality(S) \in Nat
  BY PluginCallbacksAssumption, FS_Subset, FS_CardinalityType
<1>2. Len(registrations) \in Nat
  BY DEF CallbackTypes
<1> QED
  BY <1>1, <1>2 DEF Count

(* A thread that takes a thunk has it to fill, or none was left.           *)
LEMMA TakeThunkDoes ==
  ASSUME CallbackTypes, NEW t \in CallbackThreads, TakeThunk(t)
  PROVE  /\ registering[t].step = "take" /\ nextThunk' = nextThunk + 1
         /\ UNCHANGED <<loaderVars, thunks, registrations>>
         /\ registering' \in [CallbackThreads -> Registering]
         /\ \A u \in CallbackThreads : u # t => registering'[u] = registering[u]
         /\ registering'[t].plugin = registering[t].plugin
         /\ registering'[t].kind = registering[t].kind
         /\ registering'[t].callback = registering[t].callback
         /\ registering'[t].image = registering[t].image
         /\ \/ /\ nextThunk >= ThunkCount /\ callbackOverflow' = callbackOverflow + 1
               /\ registering'[t].step = "give" /\ registering'[t].thunk = registering[t].thunk
            \/ /\ nextThunk < ThunkCount /\ callbackOverflow' = callbackOverflow
               /\ registering'[t].step = "fill" /\ registering'[t].thunk = nextThunk
<1> USE PluginCallbacksAssumption DEF CallbackTypes
<1>1. registering[t] \in Registering /\ ThunkCount \in Nat /\ nextThunk \in Nat
  OBVIOUS
<1>2. /\ registering[t].step = "take" /\ nextThunk' = nextThunk + 1
      /\ UNCHANGED <<loaderVars, thunks, registrations>>
  BY DEF TakeThunk
<1>3. CASE nextThunk >= ThunkCount
  <2>1. callbackOverflow' = callbackOverflow + 1
        /\ registering' = [registering EXCEPT ![t].step = "give"]
    BY <1>3 DEF TakeThunk
  <2>2. registering'[t] = [registering[t] EXCEPT !.step = "give"]
        /\ \A u \in CallbackThreads : u # t => registering'[u] = registering[u]
    BY <2>1
  <2>3. registering'[t] = [step |-> "give", plugin |-> registering[t].plugin,
                           kind |-> registering[t].kind, callback |-> registering[t].callback,
                           image |-> registering[t].image, thunk |-> registering[t].thunk]
    BY <1>1, <2>2 DEF Registering
  <2>4. registering'[t] \in Registering
    BY <1>1, <2>3 DEF Registering
  <2>5. registering' \in [CallbackThreads -> Registering]
    BY <2>1, <2>2, <2>4
  <2> QED
    BY <1>2, <1>3, <2>1, <2>2, <2>3, <2>5
<1>4. CASE nextThunk < ThunkCount
  <2>1. callbackOverflow' = callbackOverflow
        /\ registering' = [registering EXCEPT ![t].step = "fill", ![t].thunk = nextThunk]
    BY <1>1, <1>4 DEF TakeThunk
  <2>2. registering'[t] = [registering[t] EXCEPT !.step = "fill", !.thunk = nextThunk]
        /\ \A u \in CallbackThreads : u # t => registering'[u] = registering[u]
    BY <2>1
  <2>3. registering'[t] = [step |-> "fill", plugin |-> registering[t].plugin,
                           kind |-> registering[t].kind, callback |-> registering[t].callback,
                           image |-> registering[t].image, thunk |-> nextThunk]
    BY <1>1, <2>2 DEF Registering
  <2>4. registering'[t] \in Registering
    BY <1>1, <2>3 DEF Registering
  <2>5. registering' \in [CallbackThreads -> Registering]
    BY <2>1, <2>2, <2>4
  <2> QED
    BY <1>2, <1>4, <2>1, <2>2, <2>3, <2>5
<1> QED
  BY <1>1, <1>3, <1>4

(* A thread that fills its thunk changes no other.                         *)
LEMMA FillThunkDoes ==
  ASSUME CallbackTypes, ThunksFit, NEW t \in CallbackThreads, FillThunk(t)
  PROVE  /\ registering[t].step = "fill" /\ registering[t].thunk \in 0..ThunkCount - 1
         /\ UNCHANGED <<loaderVars, nextThunk, callbackOverflow, registrations>>
         /\ registering' \in [CallbackThreads -> Registering]
         /\ \A u \in CallbackThreads : u # t => registering'[u] = registering[u]
         /\ registering'[t].plugin = registering[t].plugin
         /\ registering'[t].kind = registering[t].kind
         /\ registering'[t].callback = registering[t].callback
         /\ registering'[t].image = registering[t].image
         /\ registering'[t].thunk = registering[t].thunk
         /\ registering'[t].step = "give"
         /\ DOMAIN thunks' = DOMAIN thunks \cup {registering[t].thunk}
         /\ \A n \in DOMAIN thunks : thunks'[n] = thunks[n]
         /\ thunks'[registering[t].thunk] =
               [image |-> registering[t].plugin, kind |-> registering[t].kind,
                callback |-> registering[t].callback]
<1> USE PluginCallbacksAssumption DEF CallbackTypes
<1>1. registering[t] \in Registering
  OBVIOUS
<1>2. /\ registering[t].step = "fill"
      /\ UNCHANGED <<loaderVars, nextThunk, callbackOverflow, registrations>>
      /\ registering' = [registering EXCEPT ![t].step = "give"]
  BY DEF FillThunk
<1>3. /\ registering[t].thunk \in 0..ThunkCount - 1 /\ registering[t].thunk \notin DOMAIN thunks
      /\ registering[t].image = registering[t].plugin
  BY <1>2 DEF ThunksFit, RegistrationFits
<1>4. registering'[t] = [registering[t] EXCEPT !.step = "give"]
      /\ \A u \in CallbackThreads : u # t => registering'[u] = registering[u]
  BY <1>2
<1>5. registering'[t] = [step |-> "give", plugin |-> registering[t].plugin,
                         kind |-> registering[t].kind, callback |-> registering[t].callback,
                         image |-> registering[t].image, thunk |-> registering[t].thunk]
  BY <1>1, <1>4 DEF Registering
<1>6. registering'[t] \in Registering
  BY <1>1, <1>5 DEF Registering
<1>7. registering' \in [CallbackThreads -> Registering]
  BY <1>2, <1>4, <1>6
<1>8. thunks' = [n \in DOMAIN thunks \cup {registering[t].thunk} |->
                    IF n = registering[t].thunk
                    THEN [image |-> registering[t].image, kind |-> registering[t].kind,
                          callback |-> registering[t].callback]
                    ELSE thunks[n]]
  BY DEF FillThunk
<1>9. /\ DOMAIN thunks' = DOMAIN thunks \cup {registering[t].thunk}
      /\ \A n \in DOMAIN thunks : thunks'[n] = thunks[n]
      /\ thunks'[registering[t].thunk] =
               [image |-> registering[t].plugin, kind |-> registering[t].kind,
                callback |-> registering[t].callback]
  BY <1>3, <1>8
<1> QED
  BY <1>2, <1>3, <1>4, <1>5, <1>7, <1>9

(* A thread that begins to register has its own plugin's callback.         *)
LEMMA RegisterDoes ==
  ASSUME CallbackTypes, LoaderFits, NEW t \in CallbackThreads,
         NEW p \in Plugins \cup Earlier, NEW kind \in CallbackKinds, Register(t, p, kind)
  PROVE  /\ registering[t] = NotRegistering
         /\ UNCHANGED <<loaderVars, thunks, nextThunk, callbackOverflow, registrations>>
         /\ registering' \in [CallbackThreads -> Registering]
         /\ \A u \in CallbackThreads : u # t => registering'[u] = registering[u]
         /\ registering'[t].plugin = p /\ registering'[t].thunk = Direct
         /\ registering'[t].image \in {p, Nobody}
         /\ registering'[t].step = IF registering'[t].image = Nobody THEN "give" ELSE "take"
<1> USE PluginCallbacksAssumption DEF CallbackTypes
<1> DEFINE image == IF kind = "papyrus" THEN (IF t = "main" THEN loadingImage ELSE Nobody)
                    ELSE IF p \in knownHandles THEN p ELSE Nobody
<1>1. /\ registering[t] = NotRegistering /\ p \in Registrants(t)
      /\ UNCHANGED <<loaderVars, thunks, nextThunk, callbackOverflow, registrations>>
      /\ registering' = [registering EXCEPT ![t] =
                [step |-> IF image = Nobody THEN "give" ELSE "take", plugin |-> p, kind |-> kind,
                 callback |-> Count + 1, image |-> image, thunk |-> Direct]]
  BY DEF Register
<1>2. image \in {p, Nobody}
  BY <1>1 DEF LoaderFits, Registrants
<1> HIDE DEF image
<1>3. registering'[t] = [step |-> IF image = Nobody THEN "give" ELSE "take", plugin |-> p,
                         kind |-> kind, callback |-> Count + 1, image |-> image,
                         thunk |-> Direct]
      /\ \A u \in CallbackThreads : u # t => registering'[u] = registering[u]
  BY <1>1
<1>4. Count + 1 \in Nat
  BY CountType
<1>5. registering'[t] \in Registering
  BY <1>2, <1>3, <1>4 DEF Registering, Owners
<1>6. registering' \in [CallbackThreads -> Registering]
  BY <1>1, <1>3, <1>5
<1> QED
  BY <1>1, <1>2, <1>3, <1>6

(* What has gone untimed, and what is about to.                            *)
UntimedGiven ==
    {n \in DOMAIN registrations :
        registrations[n].image # Nobody /\ registrations[n].thunk = Direct}
UntimedToGive ==
    {t \in CallbackThreads :
        /\ registering[t].step = "give"
        /\ registering[t].image # Nobody /\ registering[t].thunk = Direct}

(* There are finitely many of both, and the counter has counted them.      *)
LEMMA UntimedSets ==
  ASSUME CallbackTypes
  PROVE  /\ UntimedAreCounted <=>
               callbackOverflow = Cardinality(UntimedGiven) + Cardinality(UntimedToGive)
         /\ IsFiniteSet(UntimedGiven) /\ Cardinality(UntimedGiven) \in Nat
         /\ IsFiniteSet(UntimedToGive) /\ Cardinality(UntimedToGive) \in Nat
<1>1. IsFiniteSet(UntimedToGive)
  BY PluginCallbacksAssumption, FS_Subset DEF UntimedToGive
<1>2. IsFiniteSet(UntimedGiven)
  BY FS_Interval, FS_Subset DEF CallbackTypes, UntimedGiven
<1> QED
  BY <1>1, <1>2, FS_CardinalityType DEF UntimedAreCounted, UntimedGiven, UntimedToGive

(* Every step keeps the types.                                             *)
LEMMA CallbackTypesKept == CallbackInv /\ CallbackNext => CallbackTypes'
<1> SUFFICES ASSUME CallbackInv, CallbackNext PROVE CallbackTypes'
  OBVIOUS
<1> USE PluginCallbacksAssumption DEF CallbackInv, CallbackTypes, LoaderFits, ThunksFit,
    ThunksLeadHome, UntimedAreCounted, TimesAreTheirs, Owners, Registering, Given,
    CallbackKinds, Direct, NotRegistering, loaderVars, wrapVars
<1>1. ASSUME NEW p \in Plugins, LookUpQuery(p) PROVE CallbackTypes'
  BY <1>1 DEF LookUpQuery
<1>2. ASSUME NEW p \in Plugins, LookUpLoad(p) PROVE CallbackTypes'
  BY <1>2 DEF LookUpLoad
<1>3. ASSUME CallQuery PROVE CallbackTypes'
  BY <1>3 DEF CallQuery
<1>4. ASSUME CallLoad PROVE CallbackTypes'
  BY <1>4 DEF CallLoad
<1>5. ASSUME LoadReturns PROVE CallbackTypes'
  BY <1>5 DEF LoadReturns
<1>6. ASSUME NEW t \in CallbackThreads, NEW p \in Plugins \cup Earlier, NEW kind \in CallbackKinds, Register(t, p, kind) PROVE CallbackTypes'
  BY <1>6, RegisterDoes
<1>7. ASSUME NEW t \in CallbackThreads, TakeThunk(t) PROVE CallbackTypes'
  BY SMTT(20), <1>7, TakeThunkDoes
<1>8. ASSUME NEW t \in CallbackThreads, FillThunk(t) PROVE CallbackTypes'
  <2>2. DOMAIN thunks' = DOMAIN thunks \cup {registering[t].thunk}
        /\ registering[t].thunk \in 0..ThunkCount - 1
    BY <1>8, FillThunkDoes
  <2>3. DOMAIN thunks' \subseteq 0..ThunkCount - 1
    BY <2>2
  <2>1. registering' \in [CallbackThreads -> Registering]
        /\ UNCHANGED <<loaderVars, nextThunk, callbackOverflow, registrations>>
    BY <1>8, FillThunkDoes
  <2> QED
    BY <2>1, <2>3
<1>9. ASSUME NEW t \in CallbackThreads, GiveCallback(t) PROVE CallbackTypes'
  BY SMTT(20), <1>9 DEF GiveCallback
<1> HIDE DEF CallbackInv, CallbackTypes, LoaderFits, ThunksFit, ThunksLeadHome,
    UntimedAreCounted, TimesAreTheirs, Owners, Registering, Given, CallbackKinds, Direct,
    NotRegistering, loaderVars, wrapVars
<1> QED
  BY <1>1, <1>2, <1>3, <1>4, <1>5, <1>6, <1>7, <1>8, <1>9
  DEF CallbackNext

(* Every step keeps what the hooks know.                                   *)
LEMMA LoaderFitsKept == CallbackInv /\ CallbackNext => LoaderFits'
<1> SUFFICES ASSUME CallbackInv, CallbackNext PROVE LoaderFits'
  OBVIOUS
<1> USE PluginCallbacksAssumption DEF CallbackInv, CallbackTypes, LoaderFits, ThunksFit,
    ThunksLeadHome, UntimedAreCounted, TimesAreTheirs, Owners, Registering, Given,
    CallbackKinds, Direct, NotRegistering, loaderVars, wrapVars
<1>1. ASSUME NEW p \in Plugins, LookUpQuery(p) PROVE LoaderFits'
  BY <1>1 DEF LookUpQuery
<1>2. ASSUME NEW p \in Plugins, LookUpLoad(p) PROVE LoaderFits'
  BY <1>2 DEF LookUpLoad
<1>3. ASSUME CallQuery PROVE LoaderFits'
  BY <1>3 DEF CallQuery
<1>4. ASSUME CallLoad PROVE LoaderFits'
  BY <1>4 DEF CallLoad
<1>5. ASSUME LoadReturns PROVE LoaderFits'
  BY <1>5 DEF LoadReturns
<1>6. ASSUME NEW t \in CallbackThreads, NEW p \in Plugins \cup Earlier, NEW kind \in CallbackKinds, Register(t, p, kind) PROVE LoaderFits'
  BY <1>6 DEF Register, Registrants
<1>7. ASSUME NEW t \in CallbackThreads, TakeThunk(t) PROVE LoaderFits'
  BY <1>7 DEF TakeThunk
<1>8. ASSUME NEW t \in CallbackThreads, FillThunk(t) PROVE LoaderFits'
  BY <1>8 DEF FillThunk
<1>9. ASSUME NEW t \in CallbackThreads, GiveCallback(t) PROVE LoaderFits'
  BY <1>9 DEF GiveCallback
<1> HIDE DEF CallbackInv, CallbackTypes, LoaderFits, ThunksFit, ThunksLeadHome,
    UntimedAreCounted, TimesAreTheirs, Owners, Registering, Given, CallbackKinds, Direct,
    NotRegistering, loaderVars, wrapVars
<1> QED
  BY <1>1, <1>2, <1>3, <1>4, <1>5, <1>6, <1>7, <1>8, <1>9
  DEF CallbackNext

(* Every step keeps the thunks.                                            *)
LEMMA ThunksFitKept == CallbackInv /\ CallbackNext => ThunksFit'
<1> SUFFICES ASSUME CallbackInv, CallbackNext PROVE ThunksFit'
  OBVIOUS
<1> USE PluginCallbacksAssumption DEF CallbackInv, CallbackTypes, LoaderFits, ThunksFit,
    ThunksLeadHome, UntimedAreCounted, TimesAreTheirs, Owners, Registering, Given,
    CallbackKinds, Direct, NotRegistering, loaderVars, wrapVars
<1>1. ASSUME NEW p \in Plugins, LookUpQuery(p) PROVE ThunksFit'
  BY <1>1 DEF LookUpQuery, RegistrationFits
<1>2. ASSUME NEW p \in Plugins, LookUpLoad(p) PROVE ThunksFit'
  BY <1>2 DEF LookUpLoad, RegistrationFits
<1>3. ASSUME CallQuery PROVE ThunksFit'
  BY <1>3 DEF CallQuery, RegistrationFits
<1>4. ASSUME CallLoad PROVE ThunksFit'
  BY <1>4 DEF CallLoad, RegistrationFits
<1>5. ASSUME LoadReturns PROVE ThunksFit'
  BY <1>5 DEF LoadReturns, RegistrationFits
<1>6. ASSUME NEW t \in CallbackThreads, NEW p \in Plugins \cup Earlier, NEW kind \in CallbackKinds, Register(t, p, kind) PROVE ThunksFit'
  <2>1. /\ registering[t] = NotRegistering
        /\ UNCHANGED <<loaderVars, thunks, nextThunk, callbackOverflow, registrations>>
        /\ \A u \in CallbackThreads : u # t => registering'[u] = registering[u]
        /\ registering'[t].plugin = p /\ registering'[t].thunk = Direct
        /\ registering'[t].image \in {p, Nobody}
        /\ registering'[t].step = IF registering'[t].image = Nobody THEN "give" ELSE "take"
    BY <1>6, RegisterDoes
  <2>4. RegistrationFits(t)'
    BY <2>1 DEF RegistrationFits
  <2>2. \A u \in CallbackThreads : RegistrationFits(u)'
    BY SMTT(20), <2>1, <2>4 DEF RegistrationFits
  <2>3. \A u \in CallbackThreads : registering'[u].step = "fill" => u # t /\ registering'[u] = registering[u]
    BY <2>1
  <2> QED
    BY <2>1, <2>2, <2>3
<1>7. ASSUME NEW t \in CallbackThreads, TakeThunk(t) PROVE ThunksFit'
  <2>1. /\ registering[t].step = "take" /\ nextThunk' = nextThunk + 1
        /\ UNCHANGED <<loaderVars, thunks, registrations>>
        /\ \A u \in CallbackThreads : u # t => registering'[u] = registering[u]
        /\ registering'[t].plugin = registering[t].plugin
        /\ registering'[t].image = registering[t].image
        /\ \/ registering'[t].step = "give" /\ registering'[t].thunk = registering[t].thunk
           \/ /\ nextThunk < ThunkCount
              /\ registering'[t].step = "fill" /\ registering'[t].thunk = nextThunk
    BY <1>7, TakeThunkDoes
  <2>2. \A n \in DOMAIN thunks' : n < nextThunk'
    BY <2>1
  <2>3. \A u \in CallbackThreads : u # t => RegistrationFits(u)'
    BY <2>1 DEF RegistrationFits
  <2>4. registering[t].thunk = Direct /\ registering[t].image # Nobody
        /\ registering[t].image = registering[t].plugin
    BY <2>1 DEF RegistrationFits
  <2>5. nextThunk \notin DOMAIN thunks
    OBVIOUS
  <2>6. RegistrationFits(t)'
    BY <2>1, <2>4, <2>5 DEF RegistrationFits
  <2>7. \A u \in CallbackThreads : u # t /\ registering'[u].step = "fill" =>
           registering[u].step = "fill" /\ registering'[u].thunk = registering[u].thunk
           /\ registering[u].thunk < nextThunk
    BY <2>1 DEF RegistrationFits
  <2>8. registering'[t].step = "fill" => registering'[t].thunk = nextThunk
    BY <2>1
  <2>9. \A w, u \in CallbackThreads :
          registering'[w].step = "fill" /\ registering'[u].step = "fill"
             /\ registering'[w].thunk = registering'[u].thunk => w = u
    BY SMTT(20), <2>7, <2>8
  <2> QED
    BY <2>2, <2>3, <2>6, <2>9
<1>8. ASSUME NEW t \in CallbackThreads, FillThunk(t) PROVE ThunksFit'
  <2>1. /\ registering[t].step = "fill" /\ registering[t].thunk \in 0..ThunkCount - 1
        /\ UNCHANGED <<loaderVars, nextThunk, callbackOverflow, registrations>>
        /\ \A u \in CallbackThreads : u # t => registering'[u] = registering[u]
        /\ registering'[t].plugin = registering[t].plugin
        /\ registering'[t].kind = registering[t].kind
        /\ registering'[t].callback = registering[t].callback
        /\ registering'[t].image = registering[t].image
        /\ registering'[t].thunk = registering[t].thunk
        /\ registering'[t].step = "give"
        /\ DOMAIN thunks' = DOMAIN thunks \cup {registering[t].thunk}
        /\ \A n \in DOMAIN thunks : thunks'[n] = thunks[n]
        /\ thunks'[registering[t].thunk] =
               [image |-> registering[t].plugin, kind |-> registering[t].kind,
                callback |-> registering[t].callback]
    BY <1>8, FillThunkDoes, ZenonT(60)
  <2>2. RegistrationFits(t)
    BY DEF ThunksFit
  <2>3. \A n \in DOMAIN thunks' : n < nextThunk'
    BY <2>1, <2>2 DEF RegistrationFits
  <2>4. RegistrationFits(t)'
    BY <2>1, <2>2 DEF RegistrationFits
  <2>5. \A u \in CallbackThreads : u # t /\ registering[u].step = "fill" =>
           registering[u].thunk # registering[t].thunk
    BY <2>1
  <2>6. \A u \in CallbackThreads : u # t => RegistrationFits(u)'
    BY <2>1, <2>5 DEF RegistrationFits
  <2>7. \A u \in CallbackThreads : registering'[u].step = "fill" => u # t /\ registering'[u] = registering[u]
    BY <2>1
  <2> QED
    BY <2>3, <2>4, <2>6, <2>7
<1>9. ASSUME NEW t \in CallbackThreads, GiveCallback(t) PROVE ThunksFit'
  BY <1>9 DEF GiveCallback, RegistrationFits
<1> HIDE DEF CallbackInv, CallbackTypes, LoaderFits, ThunksFit, ThunksLeadHome,
    UntimedAreCounted, TimesAreTheirs, Owners, Registering, Given, CallbackKinds, Direct,
    NotRegistering, loaderVars, wrapVars
<1> QED
  BY <1>1, <1>2, <1>3, <1>4, <1>5, <1>6, <1>7, <1>8, <1>9
  DEF CallbackNext

(* Every step keeps where the thunks lead.                                 *)
LEMMA ThunksLeadHomeKept == CallbackInv /\ CallbackNext => ThunksLeadHome'
<1> SUFFICES ASSUME CallbackInv, CallbackNext PROVE ThunksLeadHome'
  OBVIOUS
<1> USE PluginCallbacksAssumption DEF CallbackInv, CallbackTypes, LoaderFits, ThunksFit,
    ThunksLeadHome, UntimedAreCounted, TimesAreTheirs, Owners, Registering, Given,
    CallbackKinds, Direct, NotRegistering, loaderVars, wrapVars
<1>1. ASSUME NEW p \in Plugins, LookUpQuery(p) PROVE ThunksLeadHome'
  BY <1>1 DEF LookUpQuery
<1>2. ASSUME NEW p \in Plugins, LookUpLoad(p) PROVE ThunksLeadHome'
  BY <1>2 DEF LookUpLoad
<1>3. ASSUME CallQuery PROVE ThunksLeadHome'
  BY <1>3 DEF CallQuery
<1>4. ASSUME CallLoad PROVE ThunksLeadHome'
  BY <1>4 DEF CallLoad
<1>5. ASSUME LoadReturns PROVE ThunksLeadHome'
  BY <1>5 DEF LoadReturns
<1>6. ASSUME NEW t \in CallbackThreads, NEW p \in Plugins \cup Earlier, NEW kind \in CallbackKinds, Register(t, p, kind) PROVE ThunksLeadHome'
  BY <1>6 DEF Register, Registrants
<1>7. ASSUME NEW t \in CallbackThreads, TakeThunk(t) PROVE ThunksLeadHome'
  BY <1>7 DEF TakeThunk
<1>8. ASSUME NEW t \in CallbackThreads, FillThunk(t) PROVE ThunksLeadHome'
  <2>1. /\ registrations' = registrations
        /\ DOMAIN thunks \subseteq DOMAIN thunks'
        /\ \A n \in DOMAIN thunks : thunks'[n] = thunks[n]
    BY ZenonT(40), <1>8, FillThunkDoes
  <2> QED
    BY <2>1 DEF ThunksLeadHome
<1>9. ASSUME NEW t \in CallbackThreads, GiveCallback(t) PROVE ThunksLeadHome'
  <2> DEFINE given == [plugin |-> registering[t].plugin, kind |-> registering[t].kind,
             callback |-> registering[t].callback, image |-> registering[t].image,
             thunk |-> registering[t].thunk]
  <2>1. /\ registering[t].step = "give" /\ registrations' = Append(registrations, given)
        /\ thunks' = thunks
    BY <1>9 DEF GiveCallback
  <2>2. registering[t] \in Registering /\ given \in Given
    OBVIOUS
  <2>3. given.thunk # Direct =>
            given.thunk \in DOMAIN thunks /\ thunks[given.thunk] =
                [image |-> given.plugin, kind |-> given.kind, callback |-> given.callback]
    BY <2>1 DEF RegistrationFits
  <2> HIDE DEF given
  <2>4. \A n \in DOMAIN registrations' : registrations'[n] = given
                \/ (n \in DOMAIN registrations /\ registrations'[n] = registrations[n])
    <3>1. registrations \in Seq(Given)
      OBVIOUS
    <3> HIDE DEF CallbackInv, CallbackTypes
    <3> QED
      BY <2>1, <2>2, <3>1
  <2> QED
    BY SMTT(20), <2>1, <2>3, <2>4 DEF ThunksLeadHome
<1> HIDE DEF CallbackInv, CallbackTypes, LoaderFits, ThunksFit, ThunksLeadHome,
    UntimedAreCounted, TimesAreTheirs, Owners, Registering, Given, CallbackKinds, Direct,
    NotRegistering, loaderVars, wrapVars
<1> QED
  BY <1>1, <1>2, <1>3, <1>4, <1>5, <1>6, <1>7, <1>8, <1>9
  DEF CallbackNext

(* Every step counts what goes untimed.                                    *)
LEMMA UntimedKept == CallbackInv /\ CallbackNext => UntimedAreCounted'
<1> SUFFICES ASSUME CallbackInv, CallbackNext PROVE UntimedAreCounted'
  OBVIOUS
<1> USE PluginCallbacksAssumption DEF CallbackInv, CallbackTypes, LoaderFits, ThunksFit,
    ThunksLeadHome, UntimedAreCounted, TimesAreTheirs, Owners, Registering, Given,
    CallbackKinds, Direct, NotRegistering, loaderVars, wrapVars
<1>1. ASSUME NEW p \in Plugins, LookUpQuery(p) PROVE UntimedAreCounted'
  BY <1>1 DEF LookUpQuery
<1>2. ASSUME NEW p \in Plugins, LookUpLoad(p) PROVE UntimedAreCounted'
  BY <1>2 DEF LookUpLoad
<1>3. ASSUME CallQuery PROVE UntimedAreCounted'
  BY <1>3 DEF CallQuery
<1>4. ASSUME CallLoad PROVE UntimedAreCounted'
  BY <1>4 DEF CallLoad
<1>5. ASSUME LoadReturns PROVE UntimedAreCounted'
  BY <1>5 DEF LoadReturns
<1>6. ASSUME NEW t \in CallbackThreads, NEW p \in Plugins \cup Earlier, NEW kind \in CallbackKinds, Register(t, p, kind) PROVE UntimedAreCounted'
  <2>1. /\ registering[t] = NotRegistering
        /\ UNCHANGED <<loaderVars, thunks, nextThunk, callbackOverflow, registrations>>
        /\ \A u \in CallbackThreads : u # t => registering'[u] = registering[u]
        /\ registering'[t].step = IF registering'[t].image = Nobody THEN "give" ELSE "take"
    BY <1>6, RegisterDoes
  <2>5. t \notin UntimedToGive
    BY <2>1 DEF UntimedToGive
  <2>6. ~(registering'[t].step = "give" /\ registering'[t].image # Nobody)
    BY <2>1
  <2>2. UntimedToGive' = UntimedToGive
    BY SMTT(20), <2>1, <2>5, <2>6 DEF UntimedToGive
  <2>3. UntimedGiven' = UntimedGiven /\ callbackOverflow' = callbackOverflow
    BY <2>1 DEF UntimedGiven
  <2>4. callbackOverflow = Cardinality(UntimedGiven) + Cardinality(UntimedToGive)
    BY UntimedSets
  <2> HIDE DEF CallbackInv, CallbackTypes, LoaderFits, ThunksFit, ThunksLeadHome,
      UntimedAreCounted
  <2> QED
    BY <2>2, <2>3, <2>4 DEF UntimedAreCounted, UntimedGiven, UntimedToGive
<1>7. ASSUME NEW t \in CallbackThreads, TakeThunk(t) PROVE UntimedAreCounted'
  <2>1. /\ registering[t].step = "take"
        /\ UNCHANGED <<loaderVars, thunks, registrations>>
        /\ \A u \in CallbackThreads : u # t => registering'[u] = registering[u]
        /\ registering'[t].image = registering[t].image
        /\ \/ /\ callbackOverflow' = callbackOverflow + 1
              /\ registering'[t].step = "give" /\ registering'[t].thunk = registering[t].thunk
           \/ callbackOverflow' = callbackOverflow /\ registering'[t].step = "fill"
    BY <1>7, TakeThunkDoes
  <2>2. registering[t].thunk = Direct /\ registering[t].image # Nobody /\ t \notin UntimedToGive
    BY <2>1 DEF RegistrationFits, UntimedToGive
  <2>3. \/ callbackOverflow' = callbackOverflow + 1 /\ UntimedToGive' = UntimedToGive \cup {t}
        \/ callbackOverflow' = callbackOverflow /\ UntimedToGive' = UntimedToGive
    <3>1. CASE registering'[t].step = "give" /\ registering'[t].thunk = registering[t].thunk
               /\ callbackOverflow' = callbackOverflow + 1
      BY <2>1, <2>2, <3>1 DEF UntimedToGive
    <3>2. CASE registering'[t].step = "fill" /\ callbackOverflow' = callbackOverflow
      <4>1. UntimedToGive' = UntimedToGive
        BY <2>1, <2>2, <3>2 DEF UntimedToGive
      <4> QED
        BY <3>2, <4>1
    <3> QED
      BY <2>1, <3>1, <3>2
  <2>4. UntimedGiven' = UntimedGiven
    BY <2>1 DEF UntimedGiven
  <2>6. Cardinality(UntimedToGive \cup {t}) = Cardinality(UntimedToGive) + 1
    BY <2>2, UntimedSets, FS_AddElement
  <2>7. callbackOverflow = Cardinality(UntimedGiven) + Cardinality(UntimedToGive)
        /\ Cardinality(UntimedGiven) \in Nat /\ Cardinality(UntimedToGive) \in Nat
    BY UntimedSets
  <2> HIDE DEF CallbackInv, CallbackTypes, LoaderFits, ThunksFit, ThunksLeadHome,
      UntimedAreCounted
  <2>5. Cardinality(UntimedGiven') = Cardinality(UntimedGiven)
    BY <2>4
  <2>9. ASSUME UntimedToGive' = UntimedToGive \cup {t} /\ callbackOverflow' = callbackOverflow + 1
         PROVE callbackOverflow' = Cardinality(UntimedGiven') + Cardinality(UntimedToGive')
    BY <2>6, <2>9, <2>5, <2>7
  <2>10. ASSUME UntimedToGive' = UntimedToGive /\ callbackOverflow' = callbackOverflow
         PROVE callbackOverflow' = Cardinality(UntimedGiven') + Cardinality(UntimedToGive')
    BY <2>10, <2>5, <2>7
  <2>8. callbackOverflow' = Cardinality(UntimedGiven') + Cardinality(UntimedToGive')
    BY <2>3, <2>9, <2>10
  <2> QED
    BY <2>8 DEF UntimedAreCounted, UntimedGiven, UntimedToGive
<1>8. ASSUME NEW t \in CallbackThreads, FillThunk(t) PROVE UntimedAreCounted'
  <2>1. /\ registering[t].step = "fill" /\ registering[t].thunk \in 0..ThunkCount - 1
        /\ UNCHANGED <<loaderVars, nextThunk, callbackOverflow, registrations>>
        /\ \A u \in CallbackThreads : u # t => registering'[u] = registering[u]
        /\ registering'[t].thunk = registering[t].thunk
    BY <1>8, FillThunkDoes
  <2>2. registering'[t].thunk # Direct
    BY <2>1
  <2>3. UntimedToGive' = UntimedToGive
    BY ZenonT(40), <2>1, <2>2 DEF UntimedToGive
  <2>4. UntimedGiven' = UntimedGiven /\ callbackOverflow' = callbackOverflow
    BY <2>1 DEF UntimedGiven
  <2>5. callbackOverflow = Cardinality(UntimedGiven) + Cardinality(UntimedToGive)
    BY UntimedSets
  <2> HIDE DEF CallbackInv, CallbackTypes, LoaderFits, ThunksFit, ThunksLeadHome,
      UntimedAreCounted
  <2> QED
    BY <2>3, <2>4, <2>5 DEF UntimedAreCounted, UntimedGiven, UntimedToGive
<1>9. ASSUME NEW t \in CallbackThreads, GiveCallback(t) PROVE UntimedAreCounted'
  <2> DEFINE given == [plugin |-> registering[t].plugin, kind |-> registering[t].kind,
             callback |-> registering[t].callback, image |-> registering[t].image,
             thunk |-> registering[t].thunk]
  <2> DEFINE next == Len(registrations) + 1
  <2>1. /\ registering[t].step = "give" /\ registrations' = Append(registrations, given)
        /\ registering' = [registering EXCEPT ![t] = NotRegistering]
        /\ callbackOverflow' = callbackOverflow
    BY <1>9 DEF GiveCallback
  <2>2. /\ registering'[t] = NotRegistering
        /\ \A u \in CallbackThreads : u # t => registering'[u] = registering[u]
    BY <2>1
  <2>3. UntimedToGive' = UntimedToGive \ {t}
    BY <2>2 DEF UntimedToGive
  <2>4. /\ given \in Given /\ given.image = registering[t].image /\ given.thunk = registering[t].thunk
    OBVIOUS
  <2>5. /\ next \notin DOMAIN registrations /\ DOMAIN registrations' = DOMAIN registrations \cup {next}
        /\ \A n \in DOMAIN registrations : registrations'[n] = registrations[n]
        /\ registrations'[next] = given
    <3> HIDE DEF given
    <3>1. DOMAIN registrations = 1..Len(registrations) /\ Len(registrations) \in Nat
      OBVIOUS
    <3>2. Len(registrations') = Len(registrations) + 1 /\ DOMAIN registrations' = 1..Len(registrations')
      BY <2>1, <2>4
    <3> QED
      BY <2>1, <2>4, <3>1, <3>2
  <2> HIDE DEF given, next
  <2>6. t \in UntimedToGive => UntimedGiven' = UntimedGiven \cup {next}
    BY <2>1, <2>4, <2>5 DEF UntimedToGive, UntimedGiven
  <2>7. t \notin UntimedToGive => UntimedGiven' = UntimedGiven
    BY <2>1, <2>4, <2>5 DEF UntimedToGive, UntimedGiven
  <2>8. next \notin UntimedGiven
    BY <2>5 DEF UntimedGiven
  <2>10. callbackOverflow = Cardinality(UntimedGiven) + Cardinality(UntimedToGive)
        /\ Cardinality(UntimedGiven) \in Nat /\ Cardinality(UntimedToGive) \in Nat
        /\ IsFiniteSet(UntimedGiven) /\ IsFiniteSet(UntimedToGive)
    BY UntimedSets
  <2> HIDE DEF CallbackInv, CallbackTypes, LoaderFits, ThunksFit, ThunksLeadHome,
      UntimedAreCounted
  <2>11. CASE t \in UntimedToGive
    <3>1. Cardinality(UntimedToGive \ {t}) = Cardinality(UntimedToGive) - 1
      BY <2>10, <2>11, FS_RemoveElement
    <3>2. Cardinality(UntimedGiven \cup {next}) = Cardinality(UntimedGiven) + 1
      BY <2>8, <2>10, FS_AddElement
    <3>3. callbackOverflow' = Cardinality(UntimedGiven') + Cardinality(UntimedToGive')
      <4>1. Cardinality(UntimedGiven') = Cardinality(UntimedGiven) + 1
        BY <2>6, <2>11, <3>2
      <4>2. Cardinality(UntimedToGive') = Cardinality(UntimedToGive) - 1
        BY <2>3, <3>1
      <4> QED
        BY <2>1, <2>10, <4>1, <4>2
    <3> QED
      BY <3>3 DEF UntimedAreCounted, UntimedGiven, UntimedToGive
  <2>12. CASE t \notin UntimedToGive
    BY <2>3, <2>7, <2>12, <2>1, <2>10 DEF UntimedAreCounted, UntimedGiven, UntimedToGive
  <2> QED
    BY <2>11, <2>12
<1> HIDE DEF CallbackInv, CallbackTypes, LoaderFits, ThunksFit, ThunksLeadHome,
    UntimedAreCounted, TimesAreTheirs, Owners, Registering, Given, CallbackKinds, Direct,
    NotRegistering, loaderVars, wrapVars
<1> QED
  BY <1>1, <1>2, <1>3, <1>4, <1>5, <1>6, <1>7, <1>8, <1>9
  DEF CallbackNext

(* Every step keeps the times.                                             *)
LEMMA TimesKept == CallbackInv /\ CallbackNext => TimesAreTheirs'
<1> SUFFICES ASSUME CallbackInv, CallbackNext PROVE TimesAreTheirs'
  OBVIOUS
<1> USE PluginCallbacksAssumption DEF CallbackInv, CallbackTypes, LoaderFits, ThunksFit,
    ThunksLeadHome, UntimedAreCounted, TimesAreTheirs, Owners, Registering, Given,
    CallbackKinds, Direct, NotRegistering, loaderVars, wrapVars
<1>1. ASSUME NEW p \in Plugins, LookUpQuery(p) PROVE TimesAreTheirs'
  BY <1>1 DEF LookUpQuery
<1>2. ASSUME NEW p \in Plugins, LookUpLoad(p) PROVE TimesAreTheirs'
  BY <1>2 DEF LookUpLoad
<1>3. ASSUME CallQuery PROVE TimesAreTheirs'
  BY <1>3 DEF CallQuery
<1>4. ASSUME CallLoad PROVE TimesAreTheirs'
  BY <1>4 DEF CallLoad
<1>5. ASSUME LoadReturns PROVE TimesAreTheirs'
  BY <1>5 DEF LoadReturns
<1>6. ASSUME NEW t \in CallbackThreads, NEW p \in Plugins \cup Earlier, NEW kind \in CallbackKinds, Register(t, p, kind) PROVE TimesAreTheirs'
  BY <1>6 DEF Register, Registrants
<1>7. ASSUME NEW t \in CallbackThreads, TakeThunk(t) PROVE TimesAreTheirs'
  BY <1>7 DEF TakeThunk
<1>8. ASSUME NEW t \in CallbackThreads, FillThunk(t) PROVE TimesAreTheirs'
  BY <1>8 DEF FillThunk
<1>9. ASSUME NEW t \in CallbackThreads, GiveCallback(t) PROVE TimesAreTheirs'
  BY <1>9 DEF GiveCallback
<1> HIDE DEF CallbackInv, CallbackTypes, LoaderFits, ThunksFit, ThunksLeadHome,
    UntimedAreCounted, TimesAreTheirs, Owners, Registering, Given, CallbackKinds, Direct,
    NotRegistering, loaderVars, wrapVars
<1> QED
  BY <1>1, <1>2, <1>3, <1>4, <1>5, <1>6, <1>7, <1>8, <1>9
  DEF CallbackNext

(* The start satisfies the invariant.                                      *)
LEMMA CallbackStarts == CallbackStart => CallbackInv
<1> SUFFICES ASSUME CallbackStart PROVE CallbackInv
  OBVIOUS
<1> USE PluginCallbacksAssumption DEF CallbackStart
<1>1. NotRegistering \in Registering
  BY DEF NotRegistering, Registering, Owners, CallbackKinds, Direct
<1>2. /\ registering \in [CallbackThreads -> Registering]
      /\ \A t \in CallbackThreads : registering[t] = NotRegistering
  BY <1>1
<1>3. CallbackTypes
  BY <1>2 DEF CallbackTypes
<1>4. LoaderFits /\ TimesAreTheirs
  BY DEF LoaderFits, TimesAreTheirs
<1>5. ThunksFit
  BY <1>2 DEF ThunksFit, RegistrationFits, NotRegistering
<1>6. ThunksLeadHome
  BY DEF ThunksLeadHome
<1>7. UntimedAreCounted
  BY <1>2, <1>3, UntimedSets, FS_EmptySet DEF UntimedGiven, UntimedToGive, NotRegistering
<1> QED
  BY <1>3, <1>4, <1>5, <1>6, <1>7 DEF CallbackInv

(* Every step keeps it, and so does a step that changes nothing.           *)
LEMMA CallbackStep == CallbackInv /\ [CallbackNext]_callbackVars => CallbackInv'
<1>1. CallbackInv /\ CallbackNext => CallbackInv'
  BY CallbackTypesKept, LoaderFitsKept, ThunksFitKept, ThunksLeadHomeKept, UntimedKept,
     TimesKept
  DEF CallbackInv
<1>2. CallbackInv /\ UNCHANGED callbackVars => CallbackInv'
  BY DEF CallbackInv, CallbackTypes, LoaderFits, ThunksFit, RegistrationFits,
      ThunksLeadHome,
         UntimedAreCounted, TimesAreTheirs, callbackVars
<1> QED
  BY <1>1, <1>2

(* However many threads register whatever callbacks at once, each is       *)
(* reached through its own thunk or counted as untimed, and a plugin's     *)
(* functions are timed as its own (AdModulePluginTiming.cpp,               *)
(* AdPluginCallbacks.cpp).                                                 *)
THEOREM CallbacksAlwaysLeadHome == CallbackSpec => []CallbacksLeadHome
<1>1. CallbackSpec => []CallbackInv
  BY CallbackStarts, CallbackStep, PTL DEF CallbackSpec
<1>2. CallbackInv => CallbacksLeadHome
  BY DEF CallbackInv, CallbackTypes, CallbacksLeadHome, CallbackTypeOK
<1> QED
  BY <1>1, <1>2, PTL

-------------------------------------------------------------------------------
(* The batches of detours.                                                 *)

(* What the batch's variables hold.                                        *)
BatchTypes ==
    /\ code \in [Functions -> Bytes] /\ captured \in [Functions -> Bytes]
    /\ laid \subseteq BatchThreads \X Functions
    /\ life \in [BatchThreads -> {"unborn", "running", "ended"}]
    /\ suspended \subseteq BatchThreads /\ handles \subseteq BatchThreads
    /\ listed \subseteq BatchThreads
    /\ pending \in {"none", "ours", "other"}
    /\ batchPc \in BatchSteps /\ at \in Functions
    /\ batchResult \in [ok : BOOLEAN, target : 0..BatchTargets + 1]

Preparing == {"check", "snapshot", "open", "begin"}
Suspending == {"suspend", "recheck", "commit"}

(* Where the batch is: the transaction is open from begin to the commit,   *)
(* and what is suspended is what it has handles of, which are all the      *)
(* threads of the snapshot once the first byte is compared again.          *)
BatchFits ==
    /\ batchPc # "returned" => ~batchResult.ok
    /\ pending = "ours" <=> batchPc \notin Preparing \cup {"returned"}
    /\ batchPc \notin Suspending => suspended = {}
    /\ batchPc \notin {"check", "snapshot", "open", "returned"} => handles = listed
    /\ batchPc \in {"recheck", "commit"} => suspended = handles
    /\ suspended \subseteq handles
    /\ batchPc = "returned" => handles = {}
    /\ batchPc \in {"snapshot", "open", "begin", "suspend"} => at = 1

(* No listed thread has a hook on a function that has been compared the    *)
(* last time.                                                              *)
ComparedAreBare ==
    \A t \in BatchThreads, f \in Functions :
        t \in listed /\ (batchPc = "commit" \/ (batchPc = "recheck" /\ f < at))
            => <<t, f>> \notin laid

HooksFit == HooksAreKept /\ ComparedAreBare

BatchInv == BatchTypes /\ BatchFits /\ HookedTogether /\ HooksFit

(* Laying a hook adds it to those that are met.                            *)
LEMMA HookIsAdded ==
    ASSUME NEW s \in Bytes, NEW h \in BatchThreads \cup {Ours}
    PROVE  Append(s, h) \in Bytes /\ Range(Append(s, h)) = Range(s) \cup {h}
<1> DEFINE a == Append(s, h)
<1>1. /\ a \in Bytes /\ Len(a) = Len(s) + 1 /\ Len(s) \in Nat
      /\ DOMAIN a = 1..Len(s) + 1 /\ DOMAIN s = 1..Len(s)
      /\ a[Len(s) + 1] = h /\ \A n \in 1..Len(s) : a[n] = s[n]
  BY DEF Bytes
<1>2. Range(a) = {a[n] : n \in 1..Len(s) + 1} /\ Range(s) = {s[n] : n \in 1..Len(s)}
  BY <1>1 DEF Range
<1>3. ASSUME NEW x \in Range(a) PROVE x \in Range(s) \cup {h}
  <2>1. PICK n \in 1..Len(s) + 1 : x = a[n]
    BY <1>2
  <2> QED
    BY <1>1, <1>2, <2>1
<1>4. ASSUME NEW x \in Range(s) \cup {h} PROVE x \in Range(a)
  <2>1. CASE x = h
    BY <1>1, <1>2, <2>1
  <2>2. CASE x \in Range(s)
    <3>1. PICK n \in 1..Len(s) : x = s[n]
      BY <1>2, <2>2
    <3>2. n \in 1..Len(s) + 1 /\ x = a[n]
      BY <1>1, <3>1
    <3> QED
      BY <1>2, <3>2
  <2> QED
    BY <2>1, <2>2
<1> QED
  BY <1>1, <1>3, <1>4

(* A function with the bytes that are expected has no hook.                *)
LEMMA ExpectedIsBare == ASSUME NEW f \in Functions, Expected(f) PROVE Range(code[f]) = {}
  BY DEF Expected, Range

(* What a return leaves has the types, if the rest of it has.              *)
LEMMA ReturnIsTyped ==
    ASSUME BatchTypes, NEW ok \in BOOLEAN, NEW target \in 0..BatchTargets + 1,
           GiveBack(ok, target), code' \in [Functions -> Bytes],
           suspended' = {} \/ suspended' = suspended,
           pending' \in {"none", "ours", "other"}
    PROVE  BatchTypes'
  BY DetourBatchAssumption DEF GiveBack, Functions, BatchTypes, BatchSteps

(* So do the two ways to give the batch up.                                *)
LEMMA GivingUpIsTyped ==
    ASSUME BatchTypes, NEW target \in 0..BatchTargets + 1,
           ReturnEarly(target) \/ Abort(target)
    PROVE  BatchTypes'
  BY ReturnIsTyped DEF ReturnEarly, Abort, BatchTypes

(* The next target is one.                                                 *)
LEMMA NextTargetIsTyped ==
    ASSUME BatchTypes, NEW step \in BatchSteps, NextTarget(step)
    PROVE  at' \in Functions /\ batchPc' \in BatchSteps
  BY DetourBatchAssumption DEF BatchTypes, NextTarget, Functions

(* Every step keeps the types.                                             *)
LEMMA BatchTypesKept == BatchInv /\ BatchNext => BatchTypes'
<1> SUFFICES ASSUME BatchInv, BatchNext PROVE BatchTypes'
  OBVIOUS
<1> USE DetourBatchAssumption DEF BatchInv, BatchTypes, BatchFits, HookedTogether,
    HooksFit, HooksAreKept, ComparedAreBare, Functions, Preparing, Suspending, BatchSteps,
    GiveBack, ReturnEarly, Abort, NextTarget
<1>1. ASSUME CheckTarget PROVE BatchTypes'
  <2>0. at \in 0..BatchTargets + 1 /\ 1 \in 0..BatchTargets + 1 /\ BatchTypes
    OBVIOUS
  <2>1. CASE ReturnEarly(at)
    BY <2>0, <2>1, GivingUpIsTyped
  <2>2. CASE ~(ReturnEarly(at))
    <3> HIDE DEF GiveBack, ReturnEarly, Abort, NextTarget
    <3>2. "snapshot" \in BatchSteps
      OBVIOUS
    <3>1. at' \in Functions /\ batchPc' \in BatchSteps
      BY <1>1, <2>2, <3>2, NextTargetIsTyped DEF CheckTarget
    <3> QED
      BY <1>1, <2>2, <3>1 DEF CheckTarget
  <2> QED
    BY <2>1, <2>2
<1>2. ASSUME TakeSnapshot PROVE BatchTypes'
  <2>0. at \in 0..BatchTargets + 1 /\ 1 \in 0..BatchTargets + 1 /\ BatchTypes
    OBVIOUS
  <2>1. CASE ReturnEarly(1)
    BY <2>0, <2>1, GivingUpIsTyped
  <2>2. CASE ~(ReturnEarly(1))
    <3> HIDE DEF GiveBack, ReturnEarly, Abort, NextTarget
    <3> QED
      BY <1>2, <2>2 DEF TakeSnapshot
  <2> QED
    BY <2>1, <2>2
<1>3. ASSUME OpenThread PROVE BatchTypes'
  <2>0. at \in 0..BatchTargets + 1 /\ 1 \in 0..BatchTargets + 1 /\ BatchTypes
    OBVIOUS
  <2>1. CASE ReturnEarly(1)
    BY <2>0, <2>1, GivingUpIsTyped
  <2>2. CASE ~(ReturnEarly(1))
    <3> HIDE DEF GiveBack, ReturnEarly, Abort, NextTarget
    <3> QED
      BY <1>3, <2>2 DEF OpenThread
  <2> QED
    BY <2>1, <2>2
<1>4. ASSUME BeginTransaction PROVE BatchTypes'
  <2>0. at \in 0..BatchTargets + 1 /\ 1 \in 0..BatchTargets + 1 /\ BatchTypes
    OBVIOUS
  <2>1. CASE ReturnEarly(1)
    BY <2>0, <2>1, GivingUpIsTyped
  <2>2. CASE ~(ReturnEarly(1))
    <3> HIDE DEF GiveBack, ReturnEarly, Abort, NextTarget
    <3> QED
      BY <1>4, <2>2 DEF BeginTransaction
  <2> QED
    BY <2>1, <2>2
<1>5. ASSUME CompareAgain PROVE BatchTypes'
  <2>0. at \in 0..BatchTargets + 1 /\ 1 \in 0..BatchTargets + 1 /\ BatchTypes
    OBVIOUS
  <2>1. CASE Abort(at)
    BY <2>0, <2>1, GivingUpIsTyped
  <2>2. CASE ~(Abort(at))
    <3> HIDE DEF GiveBack, ReturnEarly, Abort, NextTarget
    <3> QED
      BY <1>5, <2>2 DEF CompareAgain
  <2> QED
    BY <2>1, <2>2
<1>6. ASSUME AttachTarget PROVE BatchTypes'
  <2>0. at \in 0..BatchTargets + 1 /\ 1 \in 0..BatchTargets + 1 /\ BatchTypes
    OBVIOUS
  <2>1. CASE Abort(at)
    BY <2>0, <2>1, GivingUpIsTyped
  <2>2. CASE ~(Abort(at))
    <3> HIDE DEF GiveBack, ReturnEarly, Abort, NextTarget
    <3>1. at' \in Functions /\ captured' \in [Functions -> Bytes]
      BY <1>6, <2>2 DEF AttachTarget
    <3> QED
      BY <1>6, <2>2, <3>1 DEF AttachTarget
  <2> QED
    BY <2>1, <2>2
<1>7. ASSUME SuspendThread PROVE BatchTypes'
  <2>0. at \in 0..BatchTargets + 1 /\ 1 \in 0..BatchTargets + 1 /\ BatchTypes
    OBVIOUS
  <2>1. CASE Abort(1)
    BY <2>0, <2>1, GivingUpIsTyped
  <2>2. CASE ~(Abort(1))
    <3> HIDE DEF GiveBack, ReturnEarly, Abort, NextTarget
    <3> QED
      BY <1>7, <2>2 DEF SuspendThread
  <2> QED
    BY <2>1, <2>2
<1>8. ASSUME Recheck PROVE BatchTypes'
  <2>0. at \in 0..BatchTargets + 1 /\ 1 \in 0..BatchTargets + 1 /\ BatchTypes
    OBVIOUS
  <2>1. CASE Abort(at)
    BY <2>0, <2>1, GivingUpIsTyped
  <2>2. CASE ~(Abort(at))
    <3> HIDE DEF GiveBack, ReturnEarly, Abort, NextTarget
    <3>2. "commit" \in BatchSteps
      OBVIOUS
    <3>1. at' \in Functions /\ batchPc' \in BatchSteps
      BY <1>8, <2>2, <3>2, NextTargetIsTyped DEF Recheck
    <3> QED
      BY <1>8, <2>2, <3>1 DEF Recheck
  <2> QED
    BY <2>1, <2>2
<1>9. ASSUME Commit PROVE BatchTypes'
  <2>1. CASE \E f \in 1..BatchTargets + 1 : Abort(f)
    <3>1. PICK f \in 1..BatchTargets + 1 : Abort(f)
      BY <2>1
    <3>2. f \in 0..BatchTargets + 1 /\ BatchTypes
      OBVIOUS
    <3> QED
      BY <3>1, <3>2, GivingUpIsTyped
  <2>3. Ours \in BatchThreads \cup {Ours} /\ BatchTypes
    OBVIOUS
  <2>4. \A f \in 1..BatchTargets :
           /\ Append(captured[f], Ours) \in Bytes
           /\ Range(Append(captured[f], Ours)) = Range(captured[f]) \cup {Ours}
    BY <2>3, HookIsAdded
  <2>2. CASE ~(\E f \in 1..BatchTargets + 1 : Abort(f))
    <3>0. /\ code' = [f \in Functions |-> Append(captured[f], Ours)]
          /\ pending' = "none" /\ suspended' = {} /\ GiveBack(TRUE, BatchTargets + 1)
      <4> HIDE DEF GiveBack
      <4> QED
        BY <1>9, <2>2 DEF Commit
    <3>1. code' \in [Functions -> Bytes]
      BY <2>4, <3>0
    <3>2. TRUE \in BOOLEAN /\ BatchTargets + 1 \in 0..BatchTargets + 1
      OBVIOUS
    <3> QED
      BY <2>3, <3>0, <3>1, <3>2, ReturnIsTyped
  <2> QED
    BY <2>1, <2>2
<1>10. ASSUME OtherTransaction PROVE BatchTypes'
  BY <1>10 DEF OtherTransaction
<1>11. ASSUME NEW t \in BatchThreads, StartThread(t) PROVE BatchTypes'
  BY <1>11 DEF StartThread
<1>12. ASSUME NEW t \in BatchThreads, EndThread(t) PROVE BatchTypes'
  BY <1>12 DEF EndThread
<1>13. ASSUME NEW t \in BatchThreads, NEW f \in Functions, LayHook(t, f) PROVE BatchTypes'
  BY HookIsAdded, <1>13 DEF LayHook, Runs
<1> HIDE DEF BatchInv, BatchTypes, BatchFits, HookedTogether, HooksFit, HooksAreKept,
    ComparedAreBare, Functions, Preparing, Suspending, BatchSteps, GiveBack, ReturnEarly,
    Abort, NextTarget
<1> QED
  BY <1>1, <1>2, <1>3, <1>4, <1>5, <1>6, <1>7, <1>8, <1>9, <1>10, <1>11, <1>12, <1>13
  DEF BatchNext

(* Every step keeps where the batch is.                                    *)
LEMMA BatchFitsKept == BatchInv /\ BatchNext => BatchFits'
<1> SUFFICES ASSUME BatchInv, BatchNext PROVE BatchFits'
  OBVIOUS
<1> USE DetourBatchAssumption DEF BatchInv, BatchTypes, BatchFits, HookedTogether,
    HooksFit, HooksAreKept, ComparedAreBare, Functions, Preparing, Suspending, BatchSteps,
    GiveBack, ReturnEarly, Abort, NextTarget
<1>1. ASSUME CheckTarget PROVE BatchFits'
  BY <1>1 DEF CheckTarget
<1>2. ASSUME TakeSnapshot PROVE BatchFits'
  BY <1>2 DEF TakeSnapshot
<1>3. ASSUME OpenThread PROVE BatchFits'
  BY <1>3 DEF OpenThread
<1>4. ASSUME BeginTransaction PROVE BatchFits'
  BY <1>4 DEF BeginTransaction
<1>5. ASSUME CompareAgain PROVE BatchFits'
  BY <1>5 DEF CompareAgain
<1>6. ASSUME AttachTarget PROVE BatchFits'
  BY <1>6 DEF AttachTarget
<1>7. ASSUME SuspendThread PROVE BatchFits'
  BY <1>7 DEF SuspendThread
<1>8. ASSUME Recheck PROVE BatchFits'
  BY <1>8 DEF Recheck
<1>9. ASSUME Commit PROVE BatchFits'
  BY <1>9 DEF Commit
<1>10. ASSUME OtherTransaction PROVE BatchFits'
  BY <1>10 DEF OtherTransaction
<1>11. ASSUME NEW t \in BatchThreads, StartThread(t) PROVE BatchFits'
  BY <1>11 DEF StartThread
<1>12. ASSUME NEW t \in BatchThreads, EndThread(t) PROVE BatchFits'
  BY <1>12 DEF EndThread
<1>13. ASSUME NEW t \in BatchThreads, NEW f \in Functions, LayHook(t, f) PROVE BatchFits'
  BY <1>13 DEF LayHook, Runs
<1> HIDE DEF BatchInv, BatchTypes, BatchFits, HookedTogether, HooksFit, HooksAreKept,
    ComparedAreBare, Functions, Preparing, Suspending, BatchSteps, GiveBack, ReturnEarly,
    Abort, NextTarget
<1> QED
  BY <1>1, <1>2, <1>3, <1>4, <1>5, <1>6, <1>7, <1>8, <1>9, <1>10, <1>11, <1>12, <1>13
  DEF BatchNext

(* Every step keeps all hooked, or none.                                   *)
LEMMA HookedKept == BatchInv /\ BatchNext => HookedTogether'
<1> SUFFICES ASSUME BatchInv, BatchNext PROVE HookedTogether'
  OBVIOUS
<1> USE DetourBatchAssumption DEF BatchInv, BatchTypes, BatchFits, HookedTogether,
    HooksFit, HooksAreKept, ComparedAreBare, Functions, Preparing, Suspending, BatchSteps,
    GiveBack, ReturnEarly, Abort, NextTarget
<1>1. ASSUME CheckTarget PROVE HookedTogether'
  BY <1>1 DEF CheckTarget
<1>2. ASSUME TakeSnapshot PROVE HookedTogether'
  BY <1>2 DEF TakeSnapshot
<1>3. ASSUME OpenThread PROVE HookedTogether'
  BY <1>3 DEF OpenThread
<1>4. ASSUME BeginTransaction PROVE HookedTogether'
  BY <1>4 DEF BeginTransaction
<1>5. ASSUME CompareAgain PROVE HookedTogether'
  BY <1>5 DEF CompareAgain
<1>6. ASSUME AttachTarget PROVE HookedTogether'
  BY <1>6 DEF AttachTarget
<1>7. ASSUME SuspendThread PROVE HookedTogether'
  BY <1>7 DEF SuspendThread
<1>8. ASSUME Recheck PROVE HookedTogether'
  BY <1>8 DEF Recheck
<1>9. ASSUME Commit PROVE HookedTogether'
  <2>1. CASE \E f \in 1..BatchTargets + 1 : Abort(f)
    BY <1>9, <2>1 DEF Commit
  <2>3. Ours \in BatchThreads \cup {Ours} /\ BatchTypes
    OBVIOUS
  <2>4. \A f \in 1..BatchTargets :
           /\ Append(captured[f], Ours) \in Bytes
           /\ Range(Append(captured[f], Ours)) = Range(captured[f]) \cup {Ours}
    BY <2>3, HookIsAdded
  <2>2. CASE ~(\E f \in 1..BatchTargets + 1 : Abort(f))
    <3>1. /\ code' = [f \in Functions |-> Append(captured[f], Ours)]
          /\ batchResult'.ok = TRUE
      BY <1>9, <2>2 DEF Commit
    <3>2. \A f \in Functions : Ours \in Range(code'[f])
      BY <2>4, <3>1
    <3> QED
      BY <3>1, <3>2
  <2> QED
    BY <2>1, <2>2
<1>10. ASSUME OtherTransaction PROVE HookedTogether'
  BY <1>10 DEF OtherTransaction
<1>11. ASSUME NEW t \in BatchThreads, StartThread(t) PROVE HookedTogether'
  BY <1>11 DEF StartThread
<1>12. ASSUME NEW t \in BatchThreads, EndThread(t) PROVE HookedTogether'
  BY <1>12 DEF EndThread
<1>13. ASSUME NEW t \in BatchThreads, NEW f \in Functions, LayHook(t, f) PROVE HookedTogether'
  BY HookIsAdded, <1>13 DEF LayHook, Runs
<1> HIDE DEF BatchInv, BatchTypes, BatchFits, HookedTogether, HooksFit, HooksAreKept,
    ComparedAreBare, Functions, Preparing, Suspending, BatchSteps, GiveBack, ReturnEarly,
    Abort, NextTarget
<1> QED
  BY <1>1, <1>2, <1>3, <1>4, <1>5, <1>6, <1>7, <1>8, <1>9, <1>10, <1>11, <1>12, <1>13
  DEF BatchNext

(* Every step keeps the hooks that have been laid.                         *)
LEMMA HooksFitKept == BatchInv /\ BatchNext => HooksFit'
<1> SUFFICES ASSUME BatchInv, BatchNext PROVE HooksFit'
  OBVIOUS
<1> USE DetourBatchAssumption DEF BatchInv, BatchTypes, BatchFits, HookedTogether,
    HooksFit, HooksAreKept, ComparedAreBare, Functions, Preparing, Suspending, BatchSteps,
    GiveBack, ReturnEarly, Abort, NextTarget
<1>1. ASSUME CheckTarget PROVE HooksFit'
  BY <1>1 DEF CheckTarget
<1>2. ASSUME TakeSnapshot PROVE HooksFit'
  BY <1>2 DEF TakeSnapshot
<1>3. ASSUME OpenThread PROVE HooksFit'
  BY <1>3 DEF OpenThread
<1>4. ASSUME BeginTransaction PROVE HooksFit'
  BY <1>4 DEF BeginTransaction
<1>5. ASSUME CompareAgain PROVE HooksFit'
  BY <1>5 DEF CompareAgain
<1>6. ASSUME AttachTarget PROVE HooksFit'
  BY <1>6 DEF AttachTarget
<1>7. ASSUME SuspendThread PROVE HooksFit'
  BY <1>7 DEF SuspendThread
<1>8. ASSUME Recheck PROVE HooksFit'
  BY <1>8, ExpectedIsBare DEF Recheck
<1>9. ASSUME Commit PROVE HooksFit'
  BY <1>9 DEF Commit
<1>10. ASSUME OtherTransaction PROVE HooksFit'
  BY <1>10 DEF OtherTransaction
<1>11. ASSUME NEW t \in BatchThreads, StartThread(t) PROVE HooksFit'
  BY <1>11 DEF StartThread
<1>12. ASSUME NEW t \in BatchThreads, EndThread(t) PROVE HooksFit'
  BY <1>12 DEF EndThread
<1>13. ASSUME NEW t \in BatchThreads, NEW f \in Functions, LayHook(t, f) PROVE HooksFit'
  BY HookIsAdded, <1>13 DEF LayHook, Runs
<1> HIDE DEF BatchInv, BatchTypes, BatchFits, HookedTogether, HooksFit, HooksAreKept,
    ComparedAreBare, Functions, Preparing, Suspending, BatchSteps, GiveBack, ReturnEarly,
    Abort, NextTarget
<1> QED
  BY <1>1, <1>2, <1>3, <1>4, <1>5, <1>6, <1>7, <1>8, <1>9, <1>10, <1>11, <1>12, <1>13
  DEF BatchNext

(* It holds at first: nothing is hooked.                                   *)
LEMMA BatchStarts == BatchStart => BatchInv
<1> SUFFICES ASSUME BatchStart PROVE BatchInv
  OBVIOUS
<1> USE DetourBatchAssumption DEF BatchStart, Functions
<1>1. <<>> \in Bytes /\ Range(<<>>) = {}
  BY DEF Bytes, Range
<1>2. BatchTypes
  BY <1>1 DEF BatchTypes, BatchSteps
<1>3. BatchFits
  BY DEF BatchFits, Preparing, Suspending
<1>4. HookedTogether
  BY <1>1 DEF HookedTogether
<1>5. HooksFit
  BY DEF HooksFit, HooksAreKept, ComparedAreBare
<1> QED
  BY <1>2, <1>3, <1>4, <1>5 DEF BatchInv

(* Every step keeps it, and so does a step that changes nothing.           *)
LEMMA BatchStepKept == BatchInv /\ [BatchNext]_batchVars => BatchInv'
  BY BatchTypesKept, BatchFitsKept, HookedKept, HooksFitKept DEF BatchInv, BatchTypes, BatchFits,
     HookedTogether, HooksFit, HooksAreKept, ComparedAreBare, batchVars

-------------------------------------------------------------------------------
(* The pointers of a patch.                                                *)

(* What stood in a slot before the patch.                                  *)
Originals == {"null", "theirs", "foreign"}

(* What the variables of a patch hold.                                     *)
PatchTypes ==
    /\ user \in Users /\ patches \in Seq(Slots)
    /\ Len(patches) \in 1..3 /\ IsInjective(patches)
    /\ slot \in [Slots -> SlotValues]
    /\ protection \in [Pages -> Protections] /\ own \in [Pages -> Protections]
    /\ saved \in Seq(Protections) /\ previous \in Seq(Originals)
    /\ Len(saved) = Len(previous) /\ Len(saved) <= Len(patches)
    /\ recorded \subseteq Slots
    /\ patchPc \in {"prepare", "examine", "publish", "restore", "idle"}
    /\ place \in 0..Len(patches) /\ patchDone \in {"pending", "yes", "no"}

(* Where the patch is: what has been prepared so far is what is given back *)
(* in the end.                                                             *)
PatchFits ==
    /\ patchDone = "pending" <=> patchPc \in {"prepare", "examine", "publish"}
    /\ patchPc = "prepare" => place = Len(saved) + 1
    /\ patchPc \in {"examine", "publish"} => Len(saved) = Len(patches)
    /\ patchPc = "examine" => place = 1
    /\ patchPc = "publish" => place > 0
    /\ patchPc = "restore" => place <= Len(saved)
    /\ patchPc = "idle" => place = 0

(* How many patches hold a page.                                           *)
Held == IF patchPc \in {"restore", "idle"} THEN place ELSE Len(saved)

(* A page no patch holds is as it was; the first of the patches on a page  *)
(* keeps its own protection; the pages that are held can be written.       *)
PagesFit ==
    /\ \A p \in Pages : (\A n \in 1..Held : Page(n) # p) => protection[p] = own[p]
    /\ \A n \in 1..Len(saved) :
          (\A m \in 1..n - 1 : Page(m) # Page(n)) => saved[n] = own[Page(n)]
    /\ patchPc \in {"prepare", "examine", "publish"} =>
          \A n \in 1..Len(saved) : protection[Page(n)] \in {"rw", "rwx"}

(* What is exchanged are the patches up to the one being published, over   *)
(* originals that have been looked at.                                     *)
SlotsFit ==
    /\ patchPc \in {"prepare", "examine"} \/ patchDone = "no" =>
          \A s \in Slots : slot[s] # "ours"
    /\ patchPc = "publish" =>
          \A n \in 1..Len(patches) : slot[patches[n]] = "ours" <=> n < place
    /\ patchDone = "yes" => \A n \in 1..Len(patches) : slot[patches[n]] = "ours"
    /\ patchPc \in {"prepare", "examine"} =>
          \A n \in 1..Len(previous) : previous[n] # "null"
    /\ patchPc = "publish" \/ patchDone = "yes" =>
          /\ Len(previous) = Len(patches) /\ recorded = Range(patches)
          /\ \A n \in 1..Len(previous) :
                previous[n] # "null" /\ (user = "callbacks" => previous[n] = "theirs")
    /\ \A s \in Slots : slot[s] = "ours" => s \in Range(patches)

PatchInv == PatchTypes /\ PatchFits /\ PagesFit /\ SlotsFit

(* The nth patch is a slot, on a page.                                     *)
LEMMA PatchIsSlot ==
    ASSUME PatchTypes, NEW n \in 1..Len(patches)
    PROVE  patches[n] \in Slots /\ Page(n) \in Pages /\ patches[n] \in Range(patches)
  BY PointerPatchesAssumption DEF PatchTypes, Page, Pages, Range

(* A slot that is patched is one of the patches.                           *)
LEMMA SlotIsPatch ==
    ASSUME PatchTypes, NEW s \in Range(patches)
    PROVE  \E n \in 1..Len(patches) : patches[n] = s
  BY DEF PatchTypes, Range

(* No slot is patched twice.                                               *)
LEMMA PatchedOnce ==
    ASSUME PatchTypes, NEW n \in 1..Len(patches), NEW m \in 1..Len(patches),
           patches[n] = patches[m]
    PROVE  n = m
  BY DEF PatchTypes, IsInjective

(* Every step keeps the types.                                             *)
LEMMA PatchTypesKept == PatchInv /\ PatchNext => PatchTypes'
<1> SUFFICES ASSUME PatchInv, PatchNext PROVE PatchTypes'
  OBVIOUS
<1> USE PointerPatchesAssumption DEF PatchInv, PatchTypes, PatchFits, PagesFit, SlotsFit,
    Held, Keep, GiveUp, Originals
<1>1. ASSUME Unqueryable PROVE PatchTypes'
  BY <1>1 DEF Unqueryable
<1>2. ASSUME ProtectFails PROVE PatchTypes'
  BY <1>2 DEF ProtectFails
<1>3. ASSUME PreparePointer PROVE PatchTypes'
  <2>1. /\ place \in 1..Len(patches) /\ place = Len(saved) + 1 /\ Held = Len(saved)
        /\ patches[place] \in Slots /\ Page(place) \in Pages /\ Len(saved) \in Nat
    BY <1>3, PatchIsSlot DEF PreparePointer
  <2> DEFINE had == protection[Page(place)]
             found == slot[patches[place]]
  <2>2. /\ had \in Protections \ Unusable /\ found \in Originals
        /\ Writable(had) \in {"rw", "rwx"} /\ Writable(had) \in Protections
    BY <1>3, <2>1 DEF PreparePointer, Writable, Protections, Unusable, SlotValues
  <2>3. /\ protection' = [protection EXCEPT ![Page(place)] = Writable(had)]
        /\ saved' = Append(saved, had) /\ previous' = Append(previous, found)
        /\ UNCHANGED <<user, own, patches, slot, recorded>> /\ patchPc = "prepare"
        /\ IF found = "null"
           THEN patchPc' = "restore" /\ place' = Len(saved') /\ patchDone' = "no"
           ELSE /\ patchDone' = patchDone
                /\ IF place < Len(patches) THEN place' = place + 1 /\ patchPc' = patchPc
                   ELSE place' = 1 /\ patchPc' = "examine"
    BY <1>3 DEF PreparePointer
  <2>4. /\ saved' \in Seq(Protections) /\ previous' \in Seq(Originals)
        /\ Len(saved') = Len(saved) + 1 /\ Len(previous') = Len(saved) + 1
        /\ saved'[place] = had /\ previous'[place] = found
        /\ \A n \in 1..Len(saved) : saved'[n] = saved[n] /\ previous'[n] = previous[n]
    BY <2>1, <2>2, <2>3
  <2>5. /\ protection' \in [Pages -> Protections]
        /\ protection'[Page(place)] = Writable(had)
        /\ \A p \in Pages \ {Page(place)} : protection'[p] = protection[p]
    BY <2>1, <2>2, <2>3
  <2> HIDE DEF had, found
  <2> QED
    BY <2>1, <2>3, <2>4, <2>5
<1>4. ASSUME Examine PROVE PatchTypes'
  BY <1>4 DEF Range, Examine
<1>5. ASSUME PublishPointer PROVE PatchTypes'
  BY <1>5, PatchIsSlot DEF PublishPointer, SlotValues
<1>6. ASSUME RestorePointer PROVE PatchTypes'
  BY <1>6, PatchIsSlot DEF RestorePointer
<1>7. ASSUME Restored PROVE PatchTypes'
  BY <1>7 DEF Restored
<1> HIDE DEF PatchInv, PatchTypes, PatchFits, PagesFit, SlotsFit, Held, Keep, GiveUp,
    Originals
<1> QED
  BY <1>1, <1>2, <1>3, <1>4, <1>5, <1>6, <1>7
  DEF PatchNext

(* Every step keeps where the patch is.                                    *)
LEMMA PatchFitsKept == PatchInv /\ PatchNext => PatchFits'
<1> SUFFICES ASSUME PatchInv, PatchNext PROVE PatchFits'
  OBVIOUS
<1> USE PointerPatchesAssumption DEF PatchInv, PatchTypes, PatchFits, PagesFit, SlotsFit,
    Held, Keep, GiveUp, Originals
<1>1. ASSUME Unqueryable PROVE PatchFits'
  BY <1>1 DEF Unqueryable
<1>2. ASSUME ProtectFails PROVE PatchFits'
  BY <1>2 DEF ProtectFails
<1>3. ASSUME PreparePointer PROVE PatchFits'
  BY <1>3 DEF PreparePointer
<1>4. ASSUME Examine PROVE PatchFits'
  BY <1>4 DEF Examine
<1>5. ASSUME PublishPointer PROVE PatchFits'
  BY <1>5 DEF PublishPointer
<1>6. ASSUME RestorePointer PROVE PatchFits'
  BY <1>6 DEF RestorePointer
<1>7. ASSUME Restored PROVE PatchFits'
  BY <1>7 DEF Restored
<1> HIDE DEF PatchInv, PatchTypes, PatchFits, PagesFit, SlotsFit, Held, Keep, GiveUp,
    Originals
<1> QED
  BY <1>1, <1>2, <1>3, <1>4, <1>5, <1>6, <1>7
  DEF PatchNext

(* Every step keeps what the pages get back.                               *)
LEMMA PagesFitKept == PatchInv /\ PatchNext => PagesFit'
<1> SUFFICES ASSUME PatchInv, PatchNext PROVE PagesFit'
  OBVIOUS
<1> USE PointerPatchesAssumption DEF PatchInv, PatchTypes, PatchFits, PagesFit, SlotsFit,
    Held, Keep, GiveUp, Originals
<1>1. ASSUME Unqueryable PROVE PagesFit'
  <2>1. UNCHANGED <<own, patches, protection, saved>>
    BY <1>1 DEF Unqueryable
  <2>2. Held' = Held
    BY <1>1 DEF Unqueryable
  <2>3. patchPc' \in {"prepare", "examine", "publish"} => patchPc \in {"prepare", "examine", "publish"}
    BY <1>1 DEF Unqueryable
  <2>4. \A n : Page(n)' = Page(n)
    BY <2>1 DEF Page
  <2> HIDE DEF Held
  <2> QED
    BY <2>1, <2>2, <2>3, <2>4
<1>2. ASSUME ProtectFails PROVE PagesFit'
  <2>1. UNCHANGED <<own, patches, protection, saved>>
    BY <1>2 DEF ProtectFails
  <2>2. Held' = Held
    BY <1>2 DEF ProtectFails
  <2>3. patchPc' \in {"prepare", "examine", "publish"} => patchPc \in {"prepare", "examine", "publish"}
    BY <1>2 DEF ProtectFails
  <2>4. \A n : Page(n)' = Page(n)
    BY <2>1 DEF Page
  <2> HIDE DEF Held
  <2> QED
    BY <2>1, <2>2, <2>3, <2>4
<1>3. ASSUME PreparePointer PROVE PagesFit'
  <2>1. /\ place \in 1..Len(patches) /\ place = Len(saved) + 1 /\ Held = Len(saved)
        /\ patches[place] \in Slots /\ Page(place) \in Pages /\ Len(saved) \in Nat
    BY <1>3, PatchIsSlot DEF PreparePointer
  <2> DEFINE had == protection[Page(place)]
             found == slot[patches[place]]
  <2>2. /\ had \in Protections \ Unusable /\ found \in Originals
        /\ Writable(had) \in {"rw", "rwx"} /\ Writable(had) \in Protections
    BY <1>3, <2>1 DEF PreparePointer, Writable, Protections, Unusable, SlotValues
  <2>3. /\ protection' = [protection EXCEPT ![Page(place)] = Writable(had)]
        /\ saved' = Append(saved, had) /\ previous' = Append(previous, found)
        /\ UNCHANGED <<user, own, patches, slot, recorded>> /\ patchPc = "prepare"
        /\ IF found = "null"
           THEN patchPc' = "restore" /\ place' = Len(saved') /\ patchDone' = "no"
           ELSE /\ patchDone' = patchDone
                /\ IF place < Len(patches) THEN place' = place + 1 /\ patchPc' = patchPc
                   ELSE place' = 1 /\ patchPc' = "examine"
    BY <1>3 DEF PreparePointer
  <2>4. /\ saved' \in Seq(Protections) /\ previous' \in Seq(Originals)
        /\ Len(saved') = Len(saved) + 1 /\ Len(previous') = Len(saved) + 1
        /\ saved'[place] = had /\ previous'[place] = found
        /\ \A n \in 1..Len(saved) : saved'[n] = saved[n] /\ previous'[n] = previous[n]
    BY <2>1, <2>2, <2>3
  <2>5. /\ protection' \in [Pages -> Protections]
        /\ protection'[Page(place)] = Writable(had)
        /\ \A p \in Pages \ {Page(place)} : protection'[p] = protection[p]
    BY <2>1, <2>2, <2>3
  <2> HIDE DEF had, found
  <2>6. \A n : Page(n)' = Page(n)
    BY <2>3 DEF Page
  <2>7. Held' = Len(saved) + 1
    BY <2>1, <2>3, <2>4
  <2>8. ASSUME NEW p \in Pages, \A n \in 1..Len(saved) + 1 : Page(n) # p
        PROVE  protection'[p] = own[p]
    BY <2>1, <2>5, <2>8
  <2>9. ASSUME NEW n \in 1..Len(saved) + 1, \A m \in 1..n - 1 : Page(m) # Page(n)
        PROVE  saved'[n] = own[Page(n)]
    <3>1. CASE n = place
      BY <2>1, <2>9, <3>1, <2>4 DEF had
    <3>2. CASE n # place
      BY SMTT(20), <2>1, <2>4, <2>9, <3>2
    <3> QED
      BY <3>1, <3>2
  <2>10. ASSUME NEW n \in 1..Len(saved) + 1 PROVE protection'[Page(n)] \in {"rw", "rwx"}
    BY <2>2, <2>5, <2>1, PatchIsSlot, <2>3
  <2>11. \A p \in Pages : (\A n \in 1..Held' : Page(n)' # p) => protection'[p] = own'[p]
    <3> HIDE DEF Held
    <3> QED
      BY <2>3, <2>6, <2>7, <2>8
  <2>12. \A n \in 1..Len(saved') :
            (\A m \in 1..n - 1 : Page(m)' # Page(n)') => saved'[n] = own'[Page(n)']
    <3> HIDE DEF PagesFit
    <3> QED
      BY <2>3, <2>4, <2>6, <2>9
  <2>13. \A n \in 1..Len(saved') : protection'[Page(n)'] \in {"rw", "rwx"}
    <3> HIDE DEF PagesFit
    <3> QED
      BY <2>3, <2>4, <2>6, <2>10
  <2> QED
    BY <2>11, <2>12, <2>13
<1>4. ASSUME Examine PROVE PagesFit'
  <2>1. UNCHANGED <<own, patches, protection, saved>>
    BY <1>4 DEF Examine
  <2>2. Held' = Held
    BY <1>4 DEF Examine
  <2>3. patchPc' \in {"prepare", "examine", "publish"} => patchPc \in {"prepare", "examine", "publish"}
    BY <1>4 DEF Examine
  <2>4. \A n : Page(n)' = Page(n)
    BY <2>1 DEF Page
  <2> HIDE DEF Held
  <2> QED
    BY <2>1, <2>2, <2>3, <2>4
<1>5. ASSUME PublishPointer PROVE PagesFit'
  <2>1. UNCHANGED <<own, patches, protection, saved>>
    BY <1>5 DEF PublishPointer
  <2>2. Held' = Held
    BY <1>5 DEF PublishPointer
  <2>3. patchPc' \in {"prepare", "examine", "publish"} => patchPc \in {"prepare", "examine", "publish"}
    BY <1>5 DEF PublishPointer
  <2>4. \A n : Page(n)' = Page(n)
    BY <2>1 DEF Page
  <2> HIDE DEF Held
  <2> QED
    BY <2>1, <2>2, <2>3, <2>4
<1>6. ASSUME RestorePointer PROVE PagesFit'
  <2>1. /\ place \in 1..Len(saved) /\ place \in 1..Len(patches) /\ Held = place
        /\ patchPc = "restore" /\ Page(place) \in Pages /\ saved[place] \in Protections
    BY <1>6, PatchIsSlot DEF RestorePointer
  <2>2. /\ protection' = [protection EXCEPT ![Page(place)] = saved[place]]
        /\ place' = place - 1
        /\ UNCHANGED <<user, own, patches, slot, saved, previous, recorded, patchPc, patchDone>>
    BY <1>6 DEF RestorePointer
  <2>6. \A n : Page(n)' = Page(n)
    BY <2>2 DEF Page
  <2>7. Held' = place - 1
    BY <2>1, <2>2
  <2>8. ASSUME NEW p \in Pages, \A n \in 1..place - 1 : Page(n) # p
        PROVE  protection'[p] = own[p]
    <3>1. CASE p = Page(place)
      BY <2>1, <2>2, <2>8, <3>1
    <3>2. CASE p # Page(place)
      BY <2>1, <2>8, <3>2, <2>2
    <3> QED
      BY <3>1, <3>2
  <2> HIDE DEF Held
  <2> QED
    BY <2>1, <2>2, <2>6, <2>7, <2>8
<1>7. ASSUME Restored PROVE PagesFit'
  <2>1. UNCHANGED <<own, patches, protection, saved>>
    BY <1>7 DEF Restored
  <2>2. Held' = Held
    BY <1>7 DEF Restored
  <2>3. patchPc' \in {"prepare", "examine", "publish"} => patchPc \in {"prepare", "examine", "publish"}
    BY <1>7 DEF Restored
  <2>4. \A n : Page(n)' = Page(n)
    BY <2>1 DEF Page
  <2> HIDE DEF Held
  <2> QED
    BY <2>1, <2>2, <2>3, <2>4
<1> HIDE DEF PatchInv, PatchTypes, PatchFits, PagesFit, SlotsFit, Held, Keep, GiveUp,
    Originals
<1> QED
  BY <1>1, <1>2, <1>3, <1>4, <1>5, <1>6, <1>7
  DEF PatchNext

(* Every step keeps what is exchanged.                                     *)
LEMMA SlotsFitKept == PatchInv /\ PatchNext => SlotsFit'
<1> SUFFICES ASSUME PatchInv, PatchNext PROVE SlotsFit'
  OBVIOUS
<1> USE PointerPatchesAssumption DEF PatchInv, PatchTypes, PatchFits, PagesFit, SlotsFit,
    Held, Keep, GiveUp, Originals
<1>1. ASSUME Unqueryable PROVE SlotsFit'
  BY <1>1 DEF Unqueryable
<1>2. ASSUME ProtectFails PROVE SlotsFit'
  BY <1>2 DEF ProtectFails
<1>3. ASSUME PreparePointer PROVE SlotsFit'
  BY <1>3 DEF PreparePointer
<1>4. ASSUME Examine PROVE SlotsFit'
  <2>1. /\ UNCHANGED <<user, patches, slot, saved, previous>> /\ patchPc = "examine"
        /\ patchDone = "pending" /\ Len(previous) = Len(patches) /\ Len(patches) \in Nat
        /\ \/ patchPc' = "restore" /\ patchDone' = "no"
           \/ /\ patchPc' = "publish" /\ place' = place /\ patchDone' = patchDone
              /\ recorded' = Range(patches)
              /\ ~(user = "callbacks" /\ "foreign" \in Range(previous))
    BY <1>4 DEF Examine
  <2>2. \A n \in 1..Len(previous) : previous[n] \in Range(previous) /\ previous[n] \in Originals
    BY DEF Range
  <2>3. \A n \in 1..Len(patches) : patches[n] \in Slots
    BY PatchIsSlot
  <2>4. patchPc' = "publish" => place' = 1
    BY <2>1
  <2> QED
    BY <2>1, <2>2, <2>3, <2>4
<1>5. ASSUME PublishPointer PROVE SlotsFit'
  BY <1>5, PatchIsSlot, PatchedOnce DEF PublishPointer
<1>6. ASSUME RestorePointer PROVE SlotsFit'
  BY <1>6 DEF RestorePointer
<1>7. ASSUME Restored PROVE SlotsFit'
  BY <1>7 DEF Restored
<1> HIDE DEF PatchInv, PatchTypes, PatchFits, PagesFit, SlotsFit, Held, Keep, GiveUp,
    Originals
<1> QED
  BY <1>1, <1>2, <1>3, <1>4, <1>5, <1>6, <1>7
  DEF PatchNext

(* It holds at first: nothing is prepared.                                 *)
LEMMA PatchStarts == PatchStart => PatchInv
<1> SUFFICES ASSUME PatchStart PROVE PatchInv
  OBVIOUS
<1>1. PICK n \in 1..3 : patches \in [1..n -> Slots] /\ IsInjective(patches)
  BY DEF PatchStart, Orders
<1>2. patches \in Seq(Slots) /\ Len(patches) = n
  BY <1>1
<1>5. /\ slot \in [Slots -> SlotValues] /\ protection \in [Pages -> Protections]
      /\ own \in [Pages -> Protections]
  <2> USE DEF PatchStart
  <2>1. {"null", "theirs", "foreign"} \subseteq SlotValues
    BY DEF SlotValues
  <2>2. {"r", "rx", "guard"} \subseteq Protections
    BY DEF Protections, Unusable
  <2>3. slot \in [Slots -> SlotValues]
    BY <2>1
  <2>4. protection \in [Pages -> Protections]
    BY <2>2
  <2> QED
    BY <2>3, <2>4
<1>3. PatchTypes
  BY <1>1, <1>2, <1>5 DEF PatchStart, PatchTypes
<1>4. PatchFits /\ PagesFit /\ SlotsFit
  BY DEF PatchStart, PatchFits, PagesFit, SlotsFit, Held
<1> QED
  BY <1>3, <1>4 DEF PatchInv

(* Every step keeps it, and so does a step that changes nothing.           *)
LEMMA PatchStepKept == PatchInv /\ [PatchNext]_patchVars => PatchInv'
<1>1. PatchInv /\ PatchNext => PatchInv'
  BY PatchTypesKept, PatchFitsKept, PagesFitKept, SlotsFitKept DEF PatchInv
<1>2. PatchInv /\ UNCHANGED patchVars => PatchInv'
  BY DEF PatchInv, PatchTypes, PatchFits, PagesFit, SlotsFit, Held, Page, patchVars
<1> QED
  BY <1>1, <1>2

(* The two say that the hooks are whole.                                   *)
LEMMA WholeInvariantly == BatchInv /\ PatchInv => HooksAreWhole
<1> SUFFICES ASSUME BatchInv, PatchInv PROVE HooksAreWhole
  OBVIOUS
<1>1. BatchTypeOK /\ HookedTogether /\ HooksAreKept
  BY DetourBatchAssumption DEF BatchInv, BatchTypes, BatchTypeOK, HooksFit, Functions
<1>2. NothingLeftBehind
  BY DEF BatchInv, BatchFits, NothingLeftBehind, Preparing, Suspending
<1> USE DEF PatchInv
<1>3. PatchTypeOK
  <2>1. patches \in [1..Len(patches) -> Slots] /\ Len(patches) \in 1..3
    BY DEF PatchTypes
  <2>2. patches \in Orders
    BY <2>1 DEF PatchTypes, Orders
  <2> QED
    BY <2>2 DEF PatchTypes, PatchTypeOK
<1>4. ProtectionsComeBack
  <2> SUFFICES ASSUME patchPc = "idle" PROVE protection = own
    BY DEF ProtectionsComeBack
  <2>1. Held = 0
    BY DEF PatchFits, Held
  <2>2. \A p \in Pages : protection[p] = own[p]
    BY <2>1 DEF PagesFit
  <2> QED
    BY <2>2 DEF PatchTypes
<1>5. PatchedTogether
  BY PatchIsSlot DEF SlotsFit, PatchTypes, PatchFits, PagesFit, PatchedTogether
<1>6. OriginalsAreKnown
  <2> SUFFICES ASSUME NEW s \in Slots, slot[s] = "ours"
               PROVE \E n \in 1..Len(previous) :
                        /\ s \in recorded /\ patches[n] = s /\ previous[n] # "null"
                        /\ user = "callbacks" => previous[n] = "theirs"
    BY DEF OriginalsAreKnown
  <2>1. s \in Range(patches) /\ (patchPc = "publish" \/ patchDone = "yes")
    BY DEF SlotsFit, PatchFits, PatchTypes
  <2>2. PICK n \in 1..Len(patches) : patches[n] = s
    BY <2>1, SlotIsPatch
  <2> QED
    BY <2>1, <2>2 DEF SlotsFit
<1> QED
  BY <1>1, <1>2, <1>3, <1>4, <1>5, <1>6 DEF HooksAreWhole

(* A batch of detours is laid on all of its functions or on none, loses no *)
(* hook of a thread its snapshot listed and leaves no thread suspended,    *)
(* however the other threads start, end and hook meanwhile; patched        *)
(* pointers are exchanged together, over originals that can be called, and *)
(* their pages get their protections back (AdDetourBatch.cpp, AdIAT.cpp).  *)
THEOREM HooksAlwaysWhole == BatchSpec /\ PatchSpec => []HooksAreWhole
<1>1. BatchSpec => []BatchInv
  BY BatchStarts, BatchStepKept, PTL DEF BatchSpec
<1>2. PatchSpec => []PatchInv
  BY PatchStarts, PatchStepKept, PTL DEF PatchSpec
<1> QED
  BY <1>1, <1>2, WholeInvariantly, PTL

-------------------------------------------------------------------------------
(* The lists of a base's entries.                                          *)

MapEntries == [id : FullIds, object : Objects]
RangeOf(E) == {E[k] : k \in 1..Len(E)}

(* A list of entries of the base b, lowest index first, each index once.   *)
Lists(b, E) ==
    /\ E \in Seq(MapEntries)
    /\ \A k \in 1..Len(E) : E[k].id.base = b /\ ~IsSpecial(E[k].id)
    /\ \A j, k \in 1..Len(E) : j < k => E[j].id.index < E[k].id.index

(* One list after another.                                                 *)
LEMMA OneAfterAnother ==
    ASSUME NEW s \in Seq(MapEntries), NEW t \in Seq(MapEntries)
    PROVE  /\ s \o t \in Seq(MapEntries) /\ Len(s \o t) = Len(s) + Len(t)
           /\ \A i \in 1..Len(s) : (s \o t)[i] = s[i]
           /\ \A i \in 1..Len(t) : (s \o t)[Len(s) + i] = t[i]
  OBVIOUS

(* An id of a file has a number for its index.                             *)
LEMMA FileIndex ==
    ASSUME NEW id \in FullIds, ~IsSpecial(id)
    PROVE  id.index \in Nat /\ id.base \in Bases
  BY CullAssumption DEF FullIds, IsSpecial

(* What a list has are entries of files' ids.                              *)
LEMMA ListsHave ==
    ASSUME NEW b, NEW E, Lists(b, E), NEW i \in 1..Len(E)
    PROVE  E[i] \in MapEntries /\ E[i].id \in FullIds /\ E[i].id.index \in Nat
<1>1. E[i] \in MapEntries /\ ~IsSpecial(E[i].id)
  BY DEF Lists
<1>2. E[i].id \in FullIds
  BY <1>1 DEF MapEntries
<1> QED
  BY <1>1, <1>2, FileIndex

(* LowerBound counts the entries before the place of an id.                *)
LEMMA BoundIsPlace ==
    ASSUME NEW b, NEW E, Lists(b, E), NEW id \in FullIds, ~IsSpecial(id)
    PROVE  /\ LowerBound(E, id) \in 0..Len(E)
           /\ \A j \in 1..Len(E) : E[j].id.index < id.index <=> j <= LowerBound(E, id)
<1> DEFINE S == {k \in DOMAIN E : E[k].id.index < id.index}
           k == Cardinality(S)
<1>1. Len(E) \in Nat /\ DOMAIN E = 1..Len(E)
  BY DEF Lists
<1>2. \A j \in 1..Len(E) : E[j].id \in FullIds /\ E[j].id.index \in Nat
  BY ListsHave
<1>9. IsFiniteSet(1..Len(E)) /\ Cardinality(1..Len(E)) = Len(E)
  <2>1. 1 \in Int /\ Len(E) \in Int /\ (Len(E) = 0 \/ Len(E) >= 1)
    BY <1>1
  <2>2. /\ IsFiniteSet(1..Len(E))
        /\ Cardinality(1..Len(E)) = IF 1 > Len(E) THEN 0 ELSE Len(E) - 1 + 1
    BY <2>1, FS_Interval
  <2> QED
    BY <2>1, <2>2
<1>3. IsFiniteSet(1..Len(E)) /\ Cardinality(1..Len(E)) = Len(E) /\ S \subseteq 1..Len(E)
  BY <1>1, <1>9
<1>4. IsFiniteSet(S) /\ k \in Nat /\ k <= Len(E)
  BY <1>3, FS_Subset, FS_CardinalityType
<1>5. ASSUME NEW j \in S PROVE j <= k
  <2>1. j \in 1..Len(E) /\ E[j].id.index < id.index
    BY <1>3
  <2>2. 1..j \subseteq S
    <3> SUFFICES ASSUME NEW i \in 1..j, i # j PROVE i \in S
      BY <2>1
    <3>1. i \in 1..Len(E) /\ i < j
      BY <2>1
    <3>2. E[i].id.index < E[j].id.index
      BY <2>1, <3>1 DEF Lists
    <3> QED
      BY <1>1, <1>2, <2>1, <3>1, <3>2, FileIndex
  <2>3. Cardinality(1..j) = j
    BY <2>1, FS_Interval
  <2> HIDE DEF S
  <2>4. 1..j \in SUBSET S
    BY <2>2
  <2>5. Cardinality(1..j) <= Cardinality(S)
    BY <1>4, <2>4, FS_Subset
  <2> QED
    BY <2>3, <2>5
<1>6. S = 1..k
  <2>1. S \subseteq 1..k
    BY <1>3, <1>4, <1>5
  <2>2. IsFiniteSet(1..k) /\ Cardinality(1..k) = k
    BY <1>4, FS_Interval
  <2> HIDE DEF S
  <2> QED
    BY <2>1, <2>2, FS_Subset
<1>7. LowerBound(E, id) = k
  BY DEF LowerBound
<1>8. \A j \in 1..Len(E) : j \in S <=> j <= k
  BY <1>4, <1>6
<1> HIDE DEF k
<1> QED
  BY <1>1, <1>4, <1>7, <1>8

(* An id that has an entry has it there.                                   *)
LEMMA EntryIsAtPlace ==
    ASSUME NEW b, NEW E, Lists(b, E), NEW id \in FullIds, ~IsSpecial(id), id.base = b,
           NEW j \in 1..Len(E)
    PROVE  E[j].id = id <=> HasAt(E, LowerBound(E, id), id) /\ j = LowerBound(E, id) + 1
<1> DEFINE k == LowerBound(E, id)
<1>1. k \in 0..Len(E) /\ \A i \in 1..Len(E) : E[i].id.index < id.index <=> i <= k
  BY BoundIsPlace
<1>2. Len(E) \in Nat
  BY DEF Lists
<1>3. ASSUME E[j].id = id PROVE j = k + 1 /\ HasAt(E, k, id)
  <2>1. id.index \in Nat
    BY FileIndex
  <2>2. ~(j <= k)
    BY <1>1, <1>3, <2>1
  <2>3. ~(k + 1 < j)
    <3> SUFFICES ASSUME k + 1 < j PROVE FALSE
      OBVIOUS
    <3>1. k + 1 \in 1..Len(E)
      BY <1>1, <1>2
    <3>2. E[k + 1].id.index < E[j].id.index
      BY <3>1 DEF Lists
    <3> QED
      BY <1>1, <1>3, <3>1, <3>2
  <2>4. j = k + 1
    BY <1>1, <2>2, <2>3
  <2> QED
    BY <1>1, <1>2, <1>3, <2>4 DEF HasAt
<1>4. HasAt(E, k, id) /\ j = k + 1 => E[j].id = id
  BY DEF HasAt
<1> QED
  BY <1>3, <1>4

(* insert_generic: the list has the entry in place of any other of its id. *)
LEMMA InsertLists ==
    ASSUME NEW b, NEW E, Lists(b, E), NEW id \in FullIds, ~IsSpecial(id), id.base = b,
           NEW object \in Objects
    PROVE  LET R == InsertedInto(E, id, object)
           IN  /\ Lists(b, R) /\ R # <<>>
               /\ RangeOf(R) = {e \in RangeOf(E) : e.id # id} \cup {Entry(id, object)}
<1> DEFINE k == LowerBound(E, id)
           R == InsertedInto(E, id, object)
<1>1. k \in 0..Len(E) /\ \A i \in 1..Len(E) : E[i].id.index < id.index <=> i <= k
  BY BoundIsPlace
<1>2. Len(E) \in Nat /\ E \in Seq(MapEntries) /\ DOMAIN E = 1..Len(E)
      /\ \A i \in 1..Len(E) : E[i] \in MapEntries /\ E[i].id.index \in Nat
  BY ListsHave DEF Lists
<1>3. Entry(id, object) \in MapEntries /\ Entry(id, object).id = id /\ id.index \in Nat
  BY FileIndex DEF Entry, MapEntries
<1>4. \A j \in 1..Len(E) : E[j].id = id <=> HasAt(E, k, id) /\ j = k + 1
  BY EntryIsAtPlace
<1>5. CASE HasAt(E, k, id)
  BY <1>1, <1>2, <1>5, <1>3, <1>4 DEF InsertedInto, HasAt, MapEntries, Entry, Lists, RangeOf
<1>6. CASE ~HasAt(E, k, id)
  <2>1. R = SubSeq(E, 1, k) \o <<Entry(id, object)>> \o SubSeq(E, k + 1, Len(E))
    BY <1>6 DEF InsertedInto
  <2> DEFINE before == SubSeq(E, 1, k)
             after == SubSeq(E, k + 1, Len(E))
             new == <<Entry(id, object)>>
  <2>2. before \in Seq(MapEntries) /\ Len(before) = k /\ \A i \in 1..k : before[i] = E[i]
    BY <1>1, <1>2
  <2>3. after \in Seq(MapEntries) /\ Len(after) = Len(E) - k
        /\ \A i \in 1..Len(E) - k : after[i] = E[k + i]
    BY <1>1, <1>2
  <2>4. new \in Seq(MapEntries) /\ Len(new) = 1 /\ new[1] = Entry(id, object)
    BY <1>3
  <2> HIDE DEF before, after, new
  <2> DEFINE first == before \o new
  <2>5. /\ first \in Seq(MapEntries) /\ Len(first) = k + 1
        /\ first[k + 1] = Entry(id, object) /\ \A i \in 1..k : first[i] = E[i]
    <3>1. /\ first \in Seq(MapEntries) /\ Len(first) = Len(before) + Len(new)
          /\ \A i \in 1..Len(before) : first[i] = before[i]
          /\ \A i \in 1..Len(new) : first[Len(before) + i] = new[i]
      BY <2>2, <2>4, OneAfterAnother
    <3>2. first[k + 1] = new[1]
      BY <2>2, <2>4, <3>1
    <3> HIDE DEF first, k
    <3> QED
      BY <2>2, <2>4, <3>1, <3>2
  <2>6. R = first \o after
    BY <2>1 DEF before, new, after
  <2> HIDE DEF first
  <2>7. /\ R \in Seq(MapEntries) /\ Len(R) = Len(E) + 1
        /\ R[k + 1] = Entry(id, object)
        /\ \A i \in 1..k : R[i] = E[i]
        /\ \A i \in k + 1..Len(E) : R[i + 1] = E[i]
    <3> HIDE DEF k, R
    <3>0. Len(E) - k \in Nat /\ k + 1 + (Len(E) - k) = Len(E) + 1
      BY <1>1, <1>2
    <3>1. R \in Seq(MapEntries) /\ Len(R) = Len(E) + 1
      BY <2>3, <2>5, <2>6, <3>0, OneAfterAnother
    <3>2. R[k + 1] = Entry(id, object) /\ \A i \in 1..k : R[i] = E[i]
      BY <2>3, <2>5, <2>6, OneAfterAnother, <1>1
    <3>3. ASSUME NEW i \in k + 1..Len(E) PROVE R[i + 1] = E[i]
      <4>0. \A l \in Nat : \A m \in 0..l : \A j \in m + 1..l :
               j - m \in 1..l - m /\ m + 1 + (j - m) = j + 1 /\ m + (j - m) = j
        OBVIOUS
      <4>a. Len(E) \in Nat /\ k \in 0..Len(E)
        BY <1>1, <1>2
      <4>1. i - k \in 1..Len(E) - k /\ k + 1 + (i - k) = i + 1 /\ k + (i - k) = i
        BY <4>0, <4>a
      <4>2. \A n \in 1..Len(after) : R[Len(first) + n] = after[n]
        BY <2>3, <2>5, <2>6, OneAfterAnother
      <4>3. R[k + 1 + (i - k)] = after[i - k]
        BY <2>3, <2>5, <4>1, <4>2
      <4> QED
        BY <2>3, <4>1, <4>3
    <3> QED
      BY <3>1, <3>2, <3>3
  <2> HIDE DEF R
  <2>8. Lists(b, R)
    <3>1. ASSUME NEW i \in 1..Len(R) PROVE R[i].id.base = b /\ ~IsSpecial(R[i].id)
      <4>1. CASE i <= k
        BY <1>1, <2>7, <4>1 DEF Lists
      <4>2. CASE i = k + 1
        BY <1>3, <2>7, <4>2
      <4>3. CASE i > k + 1
        <5>1. i - 1 \in k + 1..Len(E) /\ i - 1 \in 1..Len(E) /\ (i - 1) + 1 = i
          BY <1>1, <1>2, <2>7, <4>3
        <5> QED
          BY <2>7, <5>1 DEF Lists
      <4> QED
        BY <1>1, <2>7, <4>1, <4>2, <4>3
    <3>2. ASSUME NEW i \in 1..Len(R), NEW j \in 1..Len(R), i < j
          PROVE  R[i].id.index < R[j].id.index
      <4>1. i <= k => i \in 1..Len(E) /\ R[i] = E[i]
        BY <1>1, <1>2, <2>7
      <4>2. j <= k => j \in 1..Len(E) /\ R[j] = E[j]
        BY <1>1, <1>2, <2>7
      <4>3. i > k + 1 => i - 1 \in 1..Len(E) /\ R[i] = E[i - 1]
        <5> SUFFICES ASSUME i > k + 1 PROVE i - 1 \in 1..Len(E) /\ R[i] = E[i - 1]
          OBVIOUS
        <5>1. i - 1 \in k + 1..Len(E) /\ (i - 1) + 1 = i
          BY <1>1, <1>2, <2>7
        <5> QED
          BY <1>1, <1>2, <2>7, <5>1
      <4>4. j > k + 1 => j - 1 \in 1..Len(E) /\ R[j] = E[j - 1]
        <5> SUFFICES ASSUME j > k + 1 PROVE j - 1 \in 1..Len(E) /\ R[j] = E[j - 1]
          OBVIOUS
        <5>1. j - 1 \in k + 1..Len(E) /\ (j - 1) + 1 = j
          BY <1>1, <1>2, <2>7
        <5> QED
          BY <1>1, <1>2, <2>7, <5>1
      <4>5. \A m, n \in 1..Len(E) : m < n => E[m].id.index < E[n].id.index
        BY DEF Lists
      <4>6. \A m \in 1..Len(E) : m > k => id.index < E[m].id.index
        <5> SUFFICES ASSUME NEW m \in 1..Len(E), m > k PROVE id.index < E[m].id.index
          OBVIOUS
        <5>1. ~(E[m].id.index < id.index) /\ E[m].id # id
          BY <1>1, <1>4, <1>6
        <5>2. E[m].id \in FullIds /\ E[m].id.base = b
          BY <1>2 DEF Lists, MapEntries
        <5>3. E[m].id.index # id.index
          BY <5>1, <5>2 DEF FullIds
        <5> QED
          BY <1>2, <1>3, <5>1, <5>3
      <4>7. CASE j <= k
        BY <1>1, <3>2, <4>1, <4>2, <4>5, <4>7
      <4>8. CASE j = k + 1
        BY <1>1, <1>3, <2>7, <3>2, <4>1, <4>8
      <4>9. CASE j > k + 1 /\ i <= k
        BY <1>1, <1>2, <3>2, <4>1, <4>4, <4>5, <4>9
      <4>10. CASE j > k + 1 /\ i = k + 1
        BY <1>1, <1>2, <1>3, <2>7, <4>4, <4>6, <4>10
      <4>11. CASE j > k + 1 /\ i > k + 1
        BY SMTT(20), <1>1, <1>2, <3>2, <4>3, <4>4, <4>5, <4>11
      <4> QED
        BY <1>1, <4>7, <4>8, <4>9, <4>10, <4>11
    <3> QED
      BY <2>7, <3>1, <3>2 DEF Lists
  <2>9. RangeOf(R) \subseteq {e \in RangeOf(E) : e.id # id} \cup {Entry(id, object)}
    <3> SUFFICES ASSUME NEW i \in 1..Len(R), i # k + 1
                 PROVE R[i] \in RangeOf(E) /\ R[i].id # id
      BY <2>7 DEF RangeOf
    <3>1. CASE i <= k
      BY <1>1, <1>2, <2>7, <3>1, <1>4, <1>6 DEF RangeOf
    <3>2. CASE i > k + 1
      <4>1. i - 1 \in k + 1..Len(E) /\ i - 1 \in 1..Len(E) /\ (i - 1) + 1 = i
        BY <1>1, <1>2, <2>7, <3>2
      <4>2. R[i] = E[i - 1]
        BY <2>7, <4>1
      <4> QED
        BY <1>4, <1>6, <4>1, <4>2 DEF RangeOf
    <3> QED
      BY <1>1, <2>7, <3>1, <3>2
  <2>10. \A i \in 1..Len(E) : E[i] \in RangeOf(R)
    <3> SUFFICES ASSUME NEW i \in 1..Len(E) PROVE E[i] \in RangeOf(R)
      OBVIOUS
    <3>1. CASE i <= k
      BY <1>1, <1>2, <2>7, <3>1 DEF RangeOf
    <3>2. CASE i > k
      <4>1. i + 1 \in 1..Len(R) /\ R[i + 1] = E[i]
        BY <1>1, <1>2, <2>7, <3>2
      <4> QED
        BY <4>1 DEF RangeOf
    <3> QED
      BY <1>1, <3>1, <3>2
  <2>11. Entry(id, object) \in RangeOf(R)
    BY <1>1, <1>2, <2>7 DEF RangeOf
  <2>12. {e \in RangeOf(E) : e.id # id} \cup {Entry(id, object)} \subseteq RangeOf(R)
    BY <2>10, <2>11 DEF RangeOf
  <2>13. R # <<>>
    BY <1>2, <2>7
  <2> QED
    BY <2>8, <2>9, <2>12, <2>13 DEF R
<1> QED
  BY <1>5, <1>6

(* erase_generic: the list has no entry of the id.                         *)
LEMMA EraseLists ==
    ASSUME NEW b, NEW E, Lists(b, E), NEW id \in FullIds, ~IsSpecial(id), id.base = b
    PROVE  LET R == ErasedFrom(E, id)
           IN  Lists(b, R) /\ RangeOf(R) = {e \in RangeOf(E) : e.id # id}
<1> DEFINE k == LowerBound(E, id)
           R == ErasedFrom(E, id)
<1>1. k \in 0..Len(E)
  BY BoundIsPlace
<1>2. Len(E) \in Nat /\ E \in Seq(MapEntries)
  BY DEF Lists
<1>4. \A j \in 1..Len(E) : E[j].id = id <=> HasAt(E, k, id) /\ j = k + 1
  BY EntryIsAtPlace
<1>5. CASE ~HasAt(E, k, id)
  BY <1>4, <1>5 DEF ErasedFrom, RangeOf
<1>6. CASE HasAt(E, k, id)
  <2> DEFINE before == SubSeq(E, 1, k)
             after == SubSeq(E, k + 2, Len(E))
  <2>0. k + 1 \in 1..Len(E)
    BY <1>1, <1>2, <1>6 DEF HasAt
  <2>1. before \in Seq(MapEntries) /\ Len(before) = k /\ \A i \in 1..k : before[i] = E[i]
    BY <1>1, <1>2
  <2>2. after \in Seq(MapEntries) /\ Len(after) = Len(E) - (k + 1)
        /\ \A i \in 1..Len(E) - (k + 1) : after[i] = E[k + 1 + i]
    BY <1>1, <1>2, <2>0
  <2>3. R = before \o after
    BY <1>6 DEF ErasedFrom
  <2> HIDE DEF before, after, R, k
  <2>4. /\ R \in Seq(MapEntries) /\ Len(R) = Len(E) - 1
        /\ \A i \in 1..k : R[i] = E[i]
        /\ \A i \in k + 1..Len(E) - 1 : R[i] = E[i + 1]
    <3>1. R \in Seq(MapEntries) /\ Len(R) = Len(E) - 1 /\ \A i \in 1..k : R[i] = E[i]
      BY <2>1, <2>2, <2>3, <1>1, <1>2, <2>0
    <3>2. ASSUME NEW i \in k + 1..Len(E) - 1 PROVE R[i] = E[i + 1]
      <4>1. i \in 1..Len(R) /\ i > k /\ i - k \in 1..Len(E) - (k + 1)
            /\ k + 1 + (i - k) = i + 1
        BY <1>1, <1>2, <2>0, <3>1
      <4>2. R[i] = after[i - k]
        BY <1>1, <1>2, <2>1, <2>2, <2>3, <4>1
      <4> QED
        BY <2>2, <4>1, <4>2
    <3> QED
      BY <3>1, <3>2
  <2> DEFINE from(i) == IF i <= k THEN i ELSE i + 1
  <2>5. \A i \in 1..Len(R) : from(i) \in 1..Len(E) /\ from(i) # k + 1 /\ R[i] = E[from(i)]
    BY <1>1, <1>2, <2>0, <2>4
  <2>6. \A i, j \in 1..Len(R) : i < j => from(i) < from(j)
    BY <1>1, <1>2, <2>4
  <2>7. \A i \in 1..Len(E) : i # k + 1 => \E j \in 1..Len(R) : from(j) = i
    <3> SUFFICES ASSUME NEW i \in 1..Len(E), i # k + 1 PROVE \E j \in 1..Len(R) : from(j) = i
      OBVIOUS
    <3>1. CASE i <= k
      BY <1>1, <1>2, <2>0, <2>4, <3>1
    <3>2. CASE i > k + 1
      <4>1. i - 1 \in 1..Len(R) /\ from(i - 1) = i
        BY <1>1, <1>2, <2>0, <2>4, <3>2
      <4> QED
        BY <4>1
    <3> QED
      BY <1>1, <3>1, <3>2
  <2> HIDE DEF from
  <2>8. Lists(b, R)
    BY <2>4, <2>5, <2>6 DEF Lists
  <2>9. RangeOf(R) \subseteq {e \in RangeOf(E) : e.id # id}
    BY <1>4, <2>5 DEF RangeOf
  <2>10. {e \in RangeOf(E) : e.id # id} \subseteq RangeOf(R)
    <3> SUFFICES ASSUME NEW i \in 1..Len(E), E[i].id # id PROVE E[i] \in RangeOf(R)
      BY DEF RangeOf
    <3>1. i # k + 1
      BY <1>4, <1>6
    <3>2. PICK j \in 1..Len(R) : from(j) = i
      BY <2>7, <3>1
    <3> QED
      BY <2>5, <3>2 DEF RangeOf
  <2> QED
    BY <2>8, <2>9, <2>10 DEF R
<1> QED
  BY <1>5, <1>6

-------------------------------------------------------------------------------
(* The map, and what it holds.                                             *)

GenericFits(g) ==
    /\ DOMAIN g \subseteq Bases
    /\ \A b \in DOMAIN g : g[b] # <<>> /\ Lists(b, g[b])
SpecialFits(s) ==
    /\ DOMAIN s \subseteq {id \in FullIds : IsSpecial(id)}
    /\ \A id \in DOMAIN s : s[id] \in Objects
HeldIn(s, g) == {Entry(id, s[id]) : id \in DOMAIN s} \cup UNION {RangeOf(g[b]) : b \in DOMAIN g}

(* What the variables hold.                                                *)
CullTypes ==
    /\ GenericFits(generic) /\ SpecialFits(special)
    /\ cullLock \in Loaders \cup {Renderer, NobodyCulls}
    /\ DOMAIN loaded \subseteq FullIds
    /\ \A id \in DOMAIN loaded : loaded[id] \in Objects
    /\ updating \in [Loaders -> {NoUpdate} \cup [id : FullIds, object : Objects \cup {NoObject}]]
    /\ walk \subseteq FullIds /\ span \in Seq(MapEntries)
    /\ visiting \in Objects \cup {NoObject}
    /\ tracked \subseteq FullIds /\ callbacks \subseteq FullIds

Updates(t, id) == updating[t] # NoUpdate /\ updating[t].id = id

(* An update says what its id has now, and is the only one of it.          *)
UpdatesFit ==
    /\ \A t \in Loaders : updating[t] # NoUpdate =>
          IF updating[t].object = NoObject THEN updating[t].id \notin DOMAIN loaded
          ELSE /\ updating[t].id \in DOMAIN loaded
               /\ loaded[updating[t].id] = updating[t].object
    /\ \A t, u \in Loaders :
          updating[t] # NoUpdate /\ updating[u] # NoUpdate /\ updating[t].id = updating[u].id => t = u

HeldFor(id) == {e \in Entries : e.id = id}
LoadedFor(id) == IF id \in DOMAIN loaded THEN {Entry(id, loaded[id])} ELSE {}

MapHolds ==
    \A id \in FullIds : (\A t \in Loaders : ~Updates(t, id)) => HeldFor(id) = LoadedFor(id)

(* The renderer walks with the lock, over what the map holds.              *)
WalkFits ==
    /\ cullLock # Renderer => walk = {} /\ span = <<>> /\ visiting = NoObject
    /\ \A k \in 1..Len(span) : span[k] \in Entries
    /\ visiting # NoObject => \E e \in Entries : e.object = visiting

CallbacksFit ==
    \A id \in callbacks \cup tracked : id \in DOMAIN loaded \/ \E t \in Loaders : Updates(t, id)

CullInv == CullTypes /\ UpdatesFit /\ MapHolds /\ WalkFits /\ CallbacksFit

(* What a map that fits holds, by its keys and its lists.                  *)
LEMMA EntriesHeld ==
    ASSUME GenericFits(generic) PROVE Entries = HeldIn(special, generic)
  BY DEF GenericFits, Lists, RangeOf, Entries, HeldIn

(* And what it holds after a step.                                         *)
LEMMA EntriesHeldNext ==
    ASSUME GenericFits(generic') PROVE Entries' = HeldIn(special', generic')
  BY DEF GenericFits, Lists, RangeOf, Entries, HeldIn

(* Of a map that fits, the id of each entry is that of its key or its list. *)
LEMMA HeldApart ==
    ASSUME NEW s, NEW g, SpecialFits(s), GenericFits(g)
    PROVE  /\ \A e \in {Entry(id, s[id]) : id \in DOMAIN s} : e.id \in FullIds /\ IsSpecial(e.id)
           /\ \A b \in DOMAIN g : \A e \in RangeOf(g[b]) :
                 e \in MapEntries /\ ~IsSpecial(e.id) /\ e.id.base = b
  BY ListsHave DEF Entry, SpecialFits, GenericFits, RangeOf, Lists

(* The list of a base without entries is empty.                            *)
LEMMA EmptyLists == \A b : Lists(b, <<>>) /\ RangeOf(<<>>) = {}
  BY DEF Lists, RangeOf

(* Updating the list of one base.                                          *)
LEMMA ListIsPut ==
    ASSUME NEW s, NEW g, SpecialFits(s), GenericFits(g), NEW id \in FullIds, ~IsSpecial(id),
           NEW R, NEW new, Lists(id.base, R), R # <<>>,
           NEW E, E = IF id.base \in DOMAIN g THEN g[id.base] ELSE <<>>,
           RangeOf(R) = {e \in RangeOf(E) : e.id # id} \cup new
    PROVE  /\ GenericFits(With(g, id.base, R))
           /\ HeldIn(s, With(g, id.base, R)) = {e \in HeldIn(s, g) : e.id # id} \cup new
<1> DEFINE b == id.base  h == With(g, b, R)
           S == {Entry(x, s[x]) : x \in DOMAIN s}
<1>1. /\ DOMAIN h = DOMAIN g \cup {b} /\ h[b] = R
      /\ \A c \in DOMAIN g : c # b => h[c] = g[c]
  BY DEF With
<1>2. b \in Bases
  BY FileIndex
<1>3. GenericFits(h)
  BY <1>1, <1>2 DEF GenericFits
<1>4. UNION {RangeOf(h[c]) : c \in DOMAIN h}
         = RangeOf(R) \cup UNION {RangeOf(g[c]) : c \in DOMAIN g \ {b}}
  BY <1>1
<1>5. UNION {RangeOf(g[c]) : c \in DOMAIN g}
         = RangeOf(E) \cup UNION {RangeOf(g[c]) : c \in DOMAIN g \ {b}}
  BY EmptyLists
<1>6. \A e \in S : e.id # id
  BY HeldApart
<1>7. \A e \in UNION {RangeOf(g[c]) : c \in DOMAIN g \ {b}} : e.id # id
  BY HeldApart
<1> HIDE DEF h, S
<1>8. HeldIn(s, h) = S \cup RangeOf(R) \cup UNION {RangeOf(g[c]) : c \in DOMAIN g \ {b}}
  BY <1>4 DEF HeldIn, S
<1>9. HeldIn(s, g) = S \cup RangeOf(E) \cup UNION {RangeOf(g[c]) : c \in DOMAIN g \ {b}}
  BY <1>5 DEF HeldIn, S
<1>10. HeldIn(s, h) = {e \in HeldIn(s, g) : e.id # id} \cup new
  <2> DEFINE U == UNION {RangeOf(g[c]) : c \in DOMAIN g \ {b}}
  <2> HIDE DEF U
  <2> QED
    BY <1>6, <1>7, <1>8, <1>9 DEF U
<1> QED
  BY <1>3, <1>10 DEF h

(* Taking the last entry of a base away takes its list away.               *)
LEMMA ListIsTaken ==
    ASSUME NEW s, NEW g, SpecialFits(s), GenericFits(g), NEW id \in FullIds, ~IsSpecial(id),
           NEW E, E = IF id.base \in DOMAIN g THEN g[id.base] ELSE <<>>,
           {e \in RangeOf(E) : e.id # id} = {}
    PROVE  /\ GenericFits(Without(g, id.base))
           /\ HeldIn(s, Without(g, id.base)) = {e \in HeldIn(s, g) : e.id # id}
<1> DEFINE b == id.base  h == Without(g, b)
           S == {Entry(x, s[x]) : x \in DOMAIN s}
           U == UNION {RangeOf(g[c]) : c \in DOMAIN g \ {b}}
<1>1. DOMAIN h = DOMAIN g \ {b} /\ \A c \in DOMAIN g : c # b => h[c] = g[c]
  BY DEF Without
<1>3. GenericFits(h)
  BY <1>1 DEF GenericFits
<1>4. UNION {RangeOf(h[c]) : c \in DOMAIN h} = U
  BY <1>1
<1>5. UNION {RangeOf(g[c]) : c \in DOMAIN g} = RangeOf(E) \cup U
  BY EmptyLists
<1>6. \A e \in S : e.id # id
  BY HeldApart
<1>7. \A e \in U : e.id # id
  BY HeldApart
<1> HIDE DEF h, S, U
<1>8. HeldIn(s, h) = S \cup U
  BY <1>4 DEF HeldIn, S
<1>9. HeldIn(s, g) = S \cup RangeOf(E) \cup U
  BY <1>5 DEF HeldIn, S
<1>10. HeldIn(s, h) = {e \in HeldIn(s, g) : e.id # id}
  BY <1>6, <1>7, <1>8, <1>9
<1> QED
  BY <1>3, <1>10 DEF h

(* insert_or_assign, of a special id or of a list.                         *)
LEMMA MapIsPut ==
    ASSUME GenericFits(generic), SpecialFits(special), NEW id \in FullIds, NEW object \in Objects,
           MapInsertOrAssign(id, object)
    PROVE  /\ GenericFits(generic') /\ SpecialFits(special')
           /\ Entries' = {e \in Entries : e.id # id} \cup {Entry(id, object)}
<1>1. CASE IsSpecial(id)
  <2>1. special' = With(special, id, object) /\ generic' = generic
    BY <1>1 DEF MapInsertOrAssign
  <2>2. /\ DOMAIN special' = DOMAIN special \cup {id} /\ special'[id] = object
        /\ \A x \in DOMAIN special : x # id => special'[x] = special[x]
    BY <2>1 DEF With
  <2>3. GenericFits(generic') /\ SpecialFits(special')
    BY <1>1, <2>1, <2>2 DEF SpecialFits
  <2> DEFINE U == UNION {RangeOf(generic[b]) : b \in DOMAIN generic}
  <2>4. \A e \in U : e.id # id
    BY <1>1, HeldApart
  <2>5. {Entry(x, special'[x]) : x \in DOMAIN special'}
           = {Entry(x, special[x]) : x \in DOMAIN special \ {id}} \cup {Entry(id, object)}
    BY <2>2
  <2>6. {e \in {Entry(x, special[x]) : x \in DOMAIN special} : e.id # id}
           = {Entry(x, special[x]) : x \in DOMAIN special \ {id}}
    BY DEF Entry
  <2> HIDE DEF U
  <2>7. Entries' = {Entry(x, special'[x]) : x \in DOMAIN special'} \cup U
    BY <2>1, <2>3, EntriesHeldNext DEF HeldIn, U
  <2>8. Entries = {Entry(x, special[x]) : x \in DOMAIN special} \cup U
    BY EntriesHeld DEF HeldIn, U
  <2> QED
    BY <2>3, <2>4, <2>5, <2>6, <2>7, <2>8
<1>2. CASE ~IsSpecial(id)
  <2> DEFINE E == EntriesOf(id.base)
             R == InsertedInto(E, id, object)
  <2>1. generic' = With(generic, id.base, R) /\ special' = special
    BY <1>2 DEF MapInsertOrAssign
  <2>2. Lists(id.base, E)
    BY EmptyLists DEF EntriesOf, GenericFits
  <2>3. /\ Lists(id.base, R) /\ R # <<>>
        /\ RangeOf(R) = {e \in RangeOf(E) : e.id # id} \cup {Entry(id, object)}
    BY <1>2, <2>2, InsertLists
  <2>4. E = IF id.base \in DOMAIN generic THEN generic[id.base] ELSE <<>>
    BY DEF EntriesOf
  <2> HIDE DEF E, R
  <2>5. /\ GenericFits(generic')
        /\ HeldIn(special, generic') = {e \in HeldIn(special, generic) : e.id # id} \cup {Entry(id, object)}
    <3> DEFINE new == {Entry(id, object)}
    <3>1. RangeOf(R) = {e \in RangeOf(E) : e.id # id} \cup new
      BY <2>3
    <3> HIDE DEF new
    <3>2. /\ GenericFits(With(generic, id.base, R))
          /\ HeldIn(special, With(generic, id.base, R))
                = {e \in HeldIn(special, generic) : e.id # id} \cup new
      BY <1>2, <2>3, <2>4, <3>1, ListIsPut
    <3> QED
      BY <2>1, <3>2 DEF new
  <2> QED
    BY <2>1, <2>5, EntriesHeld, EntriesHeldNext
<1> QED
  BY <1>1, <1>2

(* erase, of a special id or of a list.                                    *)
LEMMA MapIsErased ==
    ASSUME GenericFits(generic), SpecialFits(special), NEW id \in FullIds, Erase(id)
    PROVE  /\ GenericFits(generic') /\ SpecialFits(special')
           /\ Entries' = {e \in Entries : e.id # id}
<1>1. CASE IsSpecial(id)
  <2>1. special' = Without(special, id) /\ generic' = generic
    BY <1>1 DEF Erase
  <2>2. /\ DOMAIN special' = DOMAIN special \ {id}
        /\ \A x \in DOMAIN special : x # id => special'[x] = special[x]
    BY <2>1 DEF Without
  <2>3. GenericFits(generic') /\ SpecialFits(special')
    BY <1>1, <2>1, <2>2 DEF SpecialFits
  <2> DEFINE U == UNION {RangeOf(generic[b]) : b \in DOMAIN generic}
  <2>4. \A e \in U : e.id # id
    BY <1>1, HeldApart
  <2>5. {Entry(x, special'[x]) : x \in DOMAIN special'}
           = {Entry(x, special[x]) : x \in DOMAIN special \ {id}}
    BY <2>2
  <2>6. {e \in {Entry(x, special[x]) : x \in DOMAIN special} : e.id # id}
           = {Entry(x, special[x]) : x \in DOMAIN special \ {id}}
    BY DEF Entry
  <2> HIDE DEF U
  <2>7. Entries' = {Entry(x, special'[x]) : x \in DOMAIN special'} \cup U
    BY <2>1, <2>3, EntriesHeldNext DEF HeldIn, U
  <2>8. Entries = {Entry(x, special[x]) : x \in DOMAIN special} \cup U
    BY EntriesHeld DEF HeldIn, U
  <2> QED
    BY <2>3, <2>4, <2>5, <2>6, <2>7, <2>8
<1>2. CASE ~IsSpecial(id)
  <2> DEFINE E == EntriesOf(id.base)
             R == ErasedFrom(E, id)
  <2>1. /\ special' = special
        /\ generic' = IF R = <<>> THEN Without(generic, id.base) ELSE With(generic, id.base, R)
    BY <1>2 DEF Erase
  <2>2. Lists(id.base, E)
    BY EmptyLists DEF EntriesOf, GenericFits
  <2>3. Lists(id.base, R) /\ RangeOf(R) = {e \in RangeOf(E) : e.id # id}
    BY <1>2, <2>2, EraseLists
  <2>4. E = IF id.base \in DOMAIN generic THEN generic[id.base] ELSE <<>>
    BY DEF EntriesOf
  <2> HIDE DEF E, R
  <2>5. /\ GenericFits(generic')
        /\ HeldIn(special, generic') = {e \in HeldIn(special, generic) : e.id # id}
    <3>1. CASE R = <<>>
      <4>1. {e \in RangeOf(E) : e.id # id} = {}
        BY <2>3, <3>1, EmptyLists
      <4> QED
        <5>1. generic' = Without(generic, id.base)
          BY <2>1, <3>1
        <5>2. /\ GenericFits(Without(generic, id.base))
              /\ HeldIn(special, Without(generic, id.base))
                    = {e \in HeldIn(special, generic) : e.id # id}
          BY SMTT(20), <1>2, <2>4, <4>1, ListIsTaken
        <5> QED
          BY <5>1, <5>2
    <3>2. CASE R # <<>>
      <4> DEFINE none == {}
      <4>1. RangeOf(R) = {e \in RangeOf(E) : e.id # id} \cup none
        BY <2>3
      <4>2. HeldIn(special, generic') = {e \in HeldIn(special, generic) : e.id # id} \cup none
            /\ GenericFits(generic')
        <5> HIDE DEF none
        <5> QED
          BY <1>2, <2>1, <2>3, <2>4, <3>2, <4>1, ListIsPut
      <4> QED
        BY <4>2
    <3> QED
      BY <3>1, <3>2
  <2> QED
    BY <2>1, <2>5, EntriesHeld, EntriesHeldNext
<1> QED
  BY <1>1, <1>2

-------------------------------------------------------------------------------
(* The steps of updates and walks.                                         *)

(* An update is not the absence of one.                                    *)
LEMMA UpdateIsSome == \A id, object : Entry(id, object) # NoUpdate
  BY DEF Entry, NoUpdate

(* Nothing is held by an unchanged map but what was.                       *)
LEMMA MapUnchanged == UNCHANGED mapVars => Entries' = Entries
  BY DEF mapVars, Entries

(* What a step of a thread's update does to the map and to the update.     *)
LEMMA UpdateDoes ==
    ASSUME CullTypes, NEW t \in Loaders, UpdateIDto3DMap(t)
    PROVE  /\ updating[t] # NoUpdate /\ cullLock = t /\ cullLock' = NobodyCulls
           /\ updating[t].id \in FullIds /\ updating[t].object \in Objects \cup {NoObject}
           /\ updating' = [updating EXCEPT ![t] = NoUpdate]
           /\ UNCHANGED <<loaded, walk, span, visiting>>
           /\ GenericFits(generic') /\ SpecialFits(special')
           /\ IF updating[t].object = NoObject
              THEN /\ Entries' = {e \in Entries : e.id # updating[t].id}
                   /\ callbacks' = callbacks \ {updating[t].id}
                   /\ tracked' = tracked \ {updating[t].id}
              ELSE /\ Entries' = {e \in Entries : e.id # updating[t].id}
                                 \cup {Entry(updating[t].id, updating[t].object)}
                   /\ UNCHANGED <<callbacks, tracked>>
<1> DEFINE u == updating[t]
<1>1. /\ u # NoUpdate /\ cullLock = t /\ cullLock' = NobodyCulls
      /\ updating' = [updating EXCEPT ![t] = NoUpdate]
      /\ UNCHANGED <<loaded, walk, span, visiting>>
      /\ IF u.object # NoObject
         THEN MapInsertOrAssign(u.id, u.object) /\ UNCHANGED <<tracked, callbacks>>
         ELSE Erase(u.id) /\ callbacks' = callbacks \ {u.id} /\ tracked' = tracked \ {u.id}
  BY DEF UpdateIDto3DMap, walkVars
<1>2. u \in [id : FullIds, object : Objects \cup {NoObject}]
  BY <1>1 DEF CullTypes
<1>3. u.id \in FullIds /\ u.object \in Objects \cup {NoObject}
  BY <1>2
<1>4. GenericFits(generic) /\ SpecialFits(special)
  BY DEF CullTypes
<1> HIDE DEF u
<1>5. CASE u.object = NoObject
  BY <1>1, <1>3, <1>4, <1>5, MapIsErased DEF u
<1>6. CASE u.object # NoObject
  BY <1>3, <1>6, <1>1, <1>4, MapIsPut DEF u
<1> QED
  BY <1>5, <1>6

(* What 3D being loaded does.                                              *)
LEMMA LoadDoes ==
    ASSUME CullTypes, NEW t \in Loaders, NEW id \in FullIds, Load3D(t, id)
    PROVE  \E object \in Objects :
              /\ Idle(t, id) /\ object \notin Alive
              /\ DOMAIN loaded' = DOMAIN loaded \cup {id} /\ loaded'[id] = object
              /\ \A x \in DOMAIN loaded : x # id => loaded'[x] = loaded[x]
              /\ updating'[t] = Entry(id, object)
              /\ updating' \in [Loaders -> {NoUpdate} \cup [id : FullIds, object : Objects \cup {NoObject}]]
              /\ \A u \in Loaders : u # t => updating'[u] = updating[u]
              /\ UNCHANGED <<special, generic, cullLock, walk, span, visiting, tracked, callbacks>>
<1>1. PICK object \in Objects \ Alive :
         /\ loaded' = With(loaded, id, object)
         /\ updating' = [updating EXCEPT ![t] = Entry(id, object)]
  BY DEF Load3D
<1>2. Entry(id, object) \in [id : FullIds, object : Objects \cup {NoObject}]
  BY DEF Entry
<1>3. /\ updating'[t] = Entry(id, object)
      /\ updating' \in [Loaders -> {NoUpdate} \cup [id : FullIds, object : Objects \cup {NoObject}]]
      /\ \A u \in Loaders : u # t => updating'[u] = updating[u]
  BY <1>1, <1>2 DEF CullTypes
<1>4. /\ DOMAIN loaded' = DOMAIN loaded \cup {id} /\ loaded'[id] = object
      /\ \A x \in DOMAIN loaded : x # id => loaded'[x] = loaded[x]
  BY <1>1 DEF With
<1> QED
  BY <1>1, <1>3, <1>4 DEF Load3D, mapVars, walkVars

(* What 3D being given up does.                                            *)
LEMMA UnloadDoes ==
    ASSUME CullTypes, NEW t \in Loaders, NEW id \in FullIds, Unload3D(t, id)
    PROVE  /\ Idle(t, id) /\ id \in DOMAIN loaded
           /\ DOMAIN loaded' = DOMAIN loaded \ {id}
           /\ \A x \in DOMAIN loaded : x # id => loaded'[x] = loaded[x]
           /\ updating'[t] = Entry(id, NoObject)
           /\ updating' \in [Loaders -> {NoUpdate} \cup [id : FullIds, object : Objects \cup {NoObject}]]
           /\ \A u \in Loaders : u # t => updating'[u] = updating[u]
           /\ UNCHANGED <<special, generic, cullLock, walk, span, visiting, tracked, callbacks>>
  BY DEF Unload3D, Entry, CullTypes, Without, mapVars, walkVars

(* What is found for an id of the renderer's list is in the map.           *)
LEMMA FoundIsHeld ==
    ASSUME CullTypes, NEW id \in FullIds
    PROVE  Found(id) \in Seq(MapEntries) /\ \A k \in 1..Len(Found(id)) : Found(id)[k] \in Entries
<1>1. Entries = HeldIn(special, generic)
  BY EntriesHeld DEF CullTypes
<1>2. CASE IsSpecial(id) /\ id \in DOMAIN special
  BY <1>2, <1>1 DEF Found, CullTypes, SpecialFits, Entry, MapEntries, HeldIn
<1>3. CASE ~IsSpecial(id) /\ id.base \in DOMAIN generic
  BY <1>3, <1>1 DEF Found, CullTypes, GenericFits, Lists, HeldIn, RangeOf
<1>4. CASE /\ ~(IsSpecial(id) /\ id \in DOMAIN special)
           /\ ~(~IsSpecial(id) /\ id.base \in DOMAIN generic)
  BY <1>4 DEF Found
<1> QED
  BY <1>2, <1>3, <1>4


(* Every step keeps the types.                                             *)
LEMMA CullTypesKept == CullInv /\ CullNext => CullTypes'
<1> SUFFICES ASSUME CullInv, CullNext PROVE CullTypes'
  OBVIOUS
<1> USE CullAssumption DEF CullInv, CullTypes, UpdatesFit, MapHolds, WalkFits,
    CallbacksFit, Updates, HeldFor, LoadedFor, mapVars, walkVars, Idle
<1>1. ASSUME NEW t \in Loaders, NEW id \in FullIds, Load3D(t, id) PROVE CullTypes'
  <2>0. CullTypes /\ Load3D(t, id)
    BY <1>1
  <2>1. PICK object \in Objects :
              /\ Idle(t, id) /\ object \notin Alive
              /\ DOMAIN loaded' = DOMAIN loaded \cup {id} /\ loaded'[id] = object
              /\ \A x \in DOMAIN loaded : x # id => loaded'[x] = loaded[x]
              /\ updating'[t] = Entry(id, object)
              /\ updating' \in [Loaders -> {NoUpdate} \cup [id : FullIds, object : Objects \cup {NoObject}]]
              /\ \A u \in Loaders : u # t => updating'[u] = updating[u]
              /\ UNCHANGED <<special, generic, cullLock, walk, span, visiting, tracked, callbacks>>
    BY ZenonT(40), <2>0, LoadDoes
  <2>2. Entries' = Entries
    BY <2>1, MapUnchanged
  <2>3. /\ updating'[t] # NoUpdate /\ updating'[t].id = id /\ updating'[t].object = object
        /\ object # NoObject
    BY <2>1, UpdateIsSome DEF Entry
  <2> QED
    BY <2>1
<1>2. ASSUME NEW t \in Loaders, NEW id \in FullIds, Unload3D(t, id) PROVE CullTypes'
  <2>0. CullTypes /\ Unload3D(t, id)
    BY <1>2
  <2>1. /\ Idle(t, id) /\ id \in DOMAIN loaded
        /\ DOMAIN loaded' = DOMAIN loaded \ {id}
        /\ \A x \in DOMAIN loaded : x # id => loaded'[x] = loaded[x]
        /\ updating'[t] = Entry(id, NoObject)
        /\ updating' \in [Loaders -> {NoUpdate} \cup [id : FullIds, object : Objects \cup {NoObject}]]
        /\ \A u \in Loaders : u # t => updating'[u] = updating[u]
        /\ UNCHANGED <<special, generic, cullLock, walk, span, visiting, tracked, callbacks>>
    BY <2>0, UnloadDoes
  <2>2. Entries' = Entries
    BY <2>1, MapUnchanged
  <2>3. updating'[t] # NoUpdate /\ updating'[t].id = id /\ updating'[t].object = NoObject
    BY <2>1, UpdateIsSome DEF Entry
  <2> QED
    BY <2>1
<1>3. ASSUME NEW t \in Loaders, LockMap(t) PROVE CullTypes'
  BY <1>3, MapUnchanged DEF LockMap
<1>4. ASSUME NEW t \in Loaders, UpdateIDto3DMap(t) PROVE CullTypes'
  BY <1>4, UpdateDoes
<1>5. ASSUME NEW id \in FullIds, Register3D(id) PROVE CullTypes'
  BY <1>5, MapUnchanged DEF Register3D
<1>6. ASSUME NEW id \in FullIds, LookUp(id) PROVE CullTypes'
  BY <1>6, FoundIsHeld, MapUnchanged DEF LookUp
<1>7. ASSUME NEW needles \in SUBSET FullIds, BeginWalk(needles) PROVE CullTypes'
  BY <1>7, MapUnchanged DEF BeginWalk
<1>8. ASSUME Visit PROVE CullTypes'
  <2>1. /\ span # <<>> /\ visiting' = Head(span).object /\ span' = Tail(span)
        /\ tracked' = tracked \cup {Head(span).id} \/ tracked' = tracked
        /\ UNCHANGED <<special, generic, cullLock, loaded, updating, walk, callbacks>>
    BY <1>8 DEF Visit
  <2>2. /\ Head(span) = span[1] /\ 1 \in 1..Len(span) /\ Head(span) \in MapEntries
        /\ Tail(span) \in Seq(MapEntries) /\ Head(span) \in Entries
    BY <2>1
  <2>3. Head(span).id \in FullIds /\ Head(span).object \in Objects
    BY <2>2 DEF MapEntries
  <2> QED
    BY <2>1, <2>2, <2>3
<1>9. ASSUME Visited PROVE CullTypes'
  BY <1>9, MapUnchanged DEF Visited
<1>10. ASSUME EndWalk PROVE CullTypes'
  BY <1>10, MapUnchanged DEF EndWalk
<1>11. ASSUME CallVisibilityCallbacks PROVE CullTypes'
  BY <1>11, MapUnchanged DEF CallVisibilityCallbacks
<1> HIDE DEF CullInv, CullTypes, UpdatesFit, MapHolds, WalkFits, CallbacksFit, Updates,
    HeldFor, LoadedFor, mapVars, walkVars, Idle
<1> QED
  BY <1>1, <1>2, <1>3, <1>4, <1>5, <1>6, <1>7, <1>8, <1>9, <1>10, <1>11
  DEF CullNext

(* Every step keeps what an update says.                                   *)
LEMMA UpdatesFitKept == CullInv /\ CullNext => UpdatesFit'
<1> SUFFICES ASSUME CullInv, CullNext PROVE UpdatesFit'
  OBVIOUS
<1> USE CullAssumption DEF CullInv, CullTypes, UpdatesFit, MapHolds, WalkFits,
    CallbacksFit, Updates, HeldFor, LoadedFor, mapVars, walkVars, Idle
<1>1. ASSUME NEW t \in Loaders, NEW id \in FullIds, Load3D(t, id) PROVE UpdatesFit'
  <2>0. CullTypes /\ Load3D(t, id)
    BY <1>1
  <2>1. PICK object \in Objects :
              /\ Idle(t, id) /\ object \notin Alive
              /\ DOMAIN loaded' = DOMAIN loaded \cup {id} /\ loaded'[id] = object
              /\ \A x \in DOMAIN loaded : x # id => loaded'[x] = loaded[x]
              /\ updating'[t] = Entry(id, object)
              /\ updating' \in [Loaders -> {NoUpdate} \cup [id : FullIds, object : Objects \cup {NoObject}]]
              /\ \A u \in Loaders : u # t => updating'[u] = updating[u]
              /\ UNCHANGED <<special, generic, cullLock, walk, span, visiting, tracked, callbacks>>
    BY ZenonT(40), <2>0, LoadDoes
  <2>2. Entries' = Entries
    BY <2>1, MapUnchanged
  <2>3. /\ updating'[t] # NoUpdate /\ updating'[t].id = id /\ updating'[t].object = object
        /\ object # NoObject
    BY <2>1, UpdateIsSome DEF Entry
  <2>4. \A u \in Loaders : u # t /\ updating[u] # NoUpdate => updating[u].id # id
    BY <2>1
  <2> QED
    BY <2>1, <2>3, <2>4
<1>2. ASSUME NEW t \in Loaders, NEW id \in FullIds, Unload3D(t, id) PROVE UpdatesFit'
  <2>0. CullTypes /\ Unload3D(t, id)
    BY <1>2
  <2>1. /\ Idle(t, id) /\ id \in DOMAIN loaded
        /\ DOMAIN loaded' = DOMAIN loaded \ {id}
        /\ \A x \in DOMAIN loaded : x # id => loaded'[x] = loaded[x]
        /\ updating'[t] = Entry(id, NoObject)
        /\ updating' \in [Loaders -> {NoUpdate} \cup [id : FullIds, object : Objects \cup {NoObject}]]
        /\ \A u \in Loaders : u # t => updating'[u] = updating[u]
        /\ UNCHANGED <<special, generic, cullLock, walk, span, visiting, tracked, callbacks>>
    BY <2>0, UnloadDoes
  <2>2. Entries' = Entries
    BY <2>1, MapUnchanged
  <2>3. updating'[t] # NoUpdate /\ updating'[t].id = id /\ updating'[t].object = NoObject
    BY <2>1, UpdateIsSome DEF Entry
  <2>4. \A u \in Loaders : u # t /\ updating[u] # NoUpdate => updating[u].id # id
    BY <2>1
  <2> QED
    BY <2>1, <2>3, <2>4
<1>3. ASSUME NEW t \in Loaders, LockMap(t) PROVE UpdatesFit'
  BY <1>3, MapUnchanged DEF LockMap
<1>4. ASSUME NEW t \in Loaders, UpdateIDto3DMap(t) PROVE UpdatesFit'
  BY <1>4, MapUnchanged DEF UpdateIDto3DMap
<1>5. ASSUME NEW id \in FullIds, Register3D(id) PROVE UpdatesFit'
  BY <1>5, MapUnchanged DEF Register3D
<1>6. ASSUME NEW id \in FullIds, LookUp(id) PROVE UpdatesFit'
  BY <1>6, MapUnchanged DEF LookUp
<1>7. ASSUME NEW needles \in SUBSET FullIds, BeginWalk(needles) PROVE UpdatesFit'
  BY <1>7, MapUnchanged DEF BeginWalk
<1>8. ASSUME Visit PROVE UpdatesFit'
  BY <1>8, MapUnchanged DEF Visit
<1>9. ASSUME Visited PROVE UpdatesFit'
  BY <1>9, MapUnchanged DEF Visited
<1>10. ASSUME EndWalk PROVE UpdatesFit'
  BY <1>10, MapUnchanged DEF EndWalk
<1>11. ASSUME CallVisibilityCallbacks PROVE UpdatesFit'
  BY <1>11, MapUnchanged DEF CallVisibilityCallbacks
<1> HIDE DEF CullInv, CullTypes, UpdatesFit, MapHolds, WalkFits, CallbacksFit, Updates,
    HeldFor, LoadedFor, mapVars, walkVars, Idle
<1> QED
  BY <1>1, <1>2, <1>3, <1>4, <1>5, <1>6, <1>7, <1>8, <1>9, <1>10, <1>11
  DEF CullNext

(* Every step keeps what the map holds.                                    *)
LEMMA MapHoldsKept == CullInv /\ CullNext => MapHolds'
<1> SUFFICES ASSUME CullInv, CullNext PROVE MapHolds'
  OBVIOUS
<1> USE CullAssumption DEF CullInv, CullTypes, UpdatesFit, MapHolds, WalkFits,
    CallbacksFit, Updates, HeldFor, LoadedFor, mapVars, walkVars, Idle
<1>1. ASSUME NEW t \in Loaders, NEW id \in FullIds, Load3D(t, id) PROVE MapHolds'
  <2>0. CullTypes /\ Load3D(t, id)
    BY <1>1
  <2>1. PICK object \in Objects :
              /\ Idle(t, id) /\ object \notin Alive
              /\ DOMAIN loaded' = DOMAIN loaded \cup {id} /\ loaded'[id] = object
              /\ \A x \in DOMAIN loaded : x # id => loaded'[x] = loaded[x]
              /\ updating'[t] = Entry(id, object)
              /\ updating' \in [Loaders -> {NoUpdate} \cup [id : FullIds, object : Objects \cup {NoObject}]]
              /\ \A u \in Loaders : u # t => updating'[u] = updating[u]
              /\ UNCHANGED <<special, generic, cullLock, walk, span, visiting, tracked, callbacks>>
    BY ZenonT(40), <2>0, LoadDoes
  <2>2. Entries' = Entries
    BY <2>1, MapUnchanged
  <2>3. /\ updating'[t] # NoUpdate /\ updating'[t].id = id /\ updating'[t].object = object
        /\ object # NoObject
    BY <2>1, UpdateIsSome DEF Entry
  <2> SUFFICES ASSUME NEW x \in FullIds, \A u \in Loaders : ~Updates(u, x)'
               PROVE  HeldFor(x)' = LoadedFor(x)'
    OBVIOUS
  <2>4. x # id
    BY <2>3
  <2>5. \A u \in Loaders : ~Updates(u, x)
    BY <2>1, <2>4
  <2>6. HeldFor(x) = LoadedFor(x)
    BY <2>5
  <2> QED
    BY <2>1, <2>2, <2>4, <2>6
<1>2. ASSUME NEW t \in Loaders, NEW id \in FullIds, Unload3D(t, id) PROVE MapHolds'
  <2>0. CullTypes /\ Unload3D(t, id)
    BY <1>2
  <2>1. /\ Idle(t, id) /\ id \in DOMAIN loaded
        /\ DOMAIN loaded' = DOMAIN loaded \ {id}
        /\ \A x \in DOMAIN loaded : x # id => loaded'[x] = loaded[x]
        /\ updating'[t] = Entry(id, NoObject)
        /\ updating' \in [Loaders -> {NoUpdate} \cup [id : FullIds, object : Objects \cup {NoObject}]]
        /\ \A u \in Loaders : u # t => updating'[u] = updating[u]
        /\ UNCHANGED <<special, generic, cullLock, walk, span, visiting, tracked, callbacks>>
    BY <2>0, UnloadDoes
  <2>2. Entries' = Entries
    BY <2>1, MapUnchanged
  <2>3. updating'[t] # NoUpdate /\ updating'[t].id = id /\ updating'[t].object = NoObject
    BY <2>1, UpdateIsSome DEF Entry
  <2> SUFFICES ASSUME NEW x \in FullIds, \A u \in Loaders : ~Updates(u, x)'
               PROVE  HeldFor(x)' = LoadedFor(x)'
    OBVIOUS
  <2>4. x # id
    BY <2>3
  <2>5. \A u \in Loaders : ~Updates(u, x)
    BY <2>1, <2>4
  <2>6. HeldFor(x) = LoadedFor(x)
    BY <2>5
  <2> QED
    BY <2>1, <2>2, <2>4, <2>6
<1>3. ASSUME NEW t \in Loaders, LockMap(t) PROVE MapHolds'
  BY <1>3, MapUnchanged DEF LockMap
<1>4. ASSUME NEW t \in Loaders, UpdateIDto3DMap(t) PROVE MapHolds'
  <2>0. CullTypes /\ UpdateIDto3DMap(t)
    BY <1>4
  <2>1. /\ updating[t] # NoUpdate /\ cullLock = t /\ cullLock' = NobodyCulls
        /\ updating[t].id \in FullIds /\ updating[t].object \in Objects \cup {NoObject}
        /\ updating' = [updating EXCEPT ![t] = NoUpdate]
        /\ UNCHANGED <<loaded, walk, span, visiting>>
        /\ GenericFits(generic') /\ SpecialFits(special')
        /\ IF updating[t].object = NoObject
           THEN /\ Entries' = {e \in Entries : e.id # updating[t].id}
                /\ callbacks' = callbacks \ {updating[t].id}
                /\ tracked' = tracked \ {updating[t].id}
           ELSE /\ Entries' = {e \in Entries : e.id # updating[t].id}
                                 \cup {Entry(updating[t].id, updating[t].object)}
                /\ UNCHANGED <<callbacks, tracked>>
    BY <2>0, UpdateDoes
  <2> DEFINE id == updating[t].id
  <2> SUFFICES ASSUME NEW x \in FullIds, \A u \in Loaders : ~Updates(u, x)'
               PROVE  HeldFor(x)' = LoadedFor(x)'
    OBVIOUS
  <2>2. CASE x = id
    BY <2>1, <2>2 DEF Entry
  <2>3. CASE x # id
    BY <2>1, <2>3 DEF Entry
  <2> QED
    BY <2>2, <2>3
<1>5. ASSUME NEW id \in FullIds, Register3D(id) PROVE MapHolds'
  BY <1>5, MapUnchanged DEF Register3D
<1>6. ASSUME NEW id \in FullIds, LookUp(id) PROVE MapHolds'
  BY <1>6, MapUnchanged DEF LookUp
<1>7. ASSUME NEW needles \in SUBSET FullIds, BeginWalk(needles) PROVE MapHolds'
  BY <1>7, MapUnchanged DEF BeginWalk
<1>8. ASSUME Visit PROVE MapHolds'
  BY <1>8, MapUnchanged DEF Visit
<1>9. ASSUME Visited PROVE MapHolds'
  BY <1>9, MapUnchanged DEF Visited
<1>10. ASSUME EndWalk PROVE MapHolds'
  BY <1>10, MapUnchanged DEF EndWalk
<1>11. ASSUME CallVisibilityCallbacks PROVE MapHolds'
  BY <1>11, MapUnchanged DEF CallVisibilityCallbacks
<1> HIDE DEF CullInv, CullTypes, UpdatesFit, MapHolds, WalkFits, CallbacksFit, Updates,
    HeldFor, LoadedFor, mapVars, walkVars, Idle
<1> QED
  BY <1>1, <1>2, <1>3, <1>4, <1>5, <1>6, <1>7, <1>8, <1>9, <1>10, <1>11
  DEF CullNext

(* Every step keeps what the renderer sees.                                *)
LEMMA WalkFitsKept == CullInv /\ CullNext => WalkFits'
<1> SUFFICES ASSUME CullInv, CullNext PROVE WalkFits'
  OBVIOUS
<1> USE CullAssumption DEF CullInv, CullTypes, UpdatesFit, MapHolds, WalkFits,
    CallbacksFit, Updates, HeldFor, LoadedFor, mapVars, walkVars, Idle
<1>1. ASSUME NEW t \in Loaders, NEW id \in FullIds, Load3D(t, id) PROVE WalkFits'
  BY <1>1, MapUnchanged DEF Load3D
<1>2. ASSUME NEW t \in Loaders, NEW id \in FullIds, Unload3D(t, id) PROVE WalkFits'
  BY <1>2, MapUnchanged DEF Unload3D
<1>3. ASSUME NEW t \in Loaders, LockMap(t) PROVE WalkFits'
  BY <1>3, MapUnchanged DEF LockMap
<1>4. ASSUME NEW t \in Loaders, UpdateIDto3DMap(t) PROVE WalkFits'
  BY <1>4, MapUnchanged DEF UpdateIDto3DMap
<1>5. ASSUME NEW id \in FullIds, Register3D(id) PROVE WalkFits'
  BY <1>5, MapUnchanged DEF Register3D
<1>6. ASSUME NEW id \in FullIds, LookUp(id) PROVE WalkFits'
  BY <1>6, FoundIsHeld, MapUnchanged DEF LookUp
<1>7. ASSUME NEW needles \in SUBSET FullIds, BeginWalk(needles) PROVE WalkFits'
  BY <1>7, MapUnchanged DEF BeginWalk
<1>8. ASSUME Visit PROVE WalkFits'
  BY <1>8, MapUnchanged DEF Visit
<1>9. ASSUME Visited PROVE WalkFits'
  BY <1>9, MapUnchanged DEF Visited
<1>10. ASSUME EndWalk PROVE WalkFits'
  BY <1>10, MapUnchanged DEF EndWalk
<1>11. ASSUME CallVisibilityCallbacks PROVE WalkFits'
  BY <1>11, MapUnchanged DEF CallVisibilityCallbacks
<1> HIDE DEF CullInv, CullTypes, UpdatesFit, MapHolds, WalkFits, CallbacksFit, Updates,
    HeldFor, LoadedFor, mapVars, walkVars, Idle
<1> QED
  BY <1>1, <1>2, <1>3, <1>4, <1>5, <1>6, <1>7, <1>8, <1>9, <1>10, <1>11
  DEF CullNext

(* Every step keeps the callbacks for what is loaded.                      *)
LEMMA CallbacksFitKept == CullInv /\ CullNext => CallbacksFit'
<1> SUFFICES ASSUME CullInv, CullNext PROVE CallbacksFit'
  OBVIOUS
<1> USE CullAssumption DEF CullInv, CullTypes, UpdatesFit, MapHolds, WalkFits,
    CallbacksFit, Updates, HeldFor, LoadedFor, mapVars, walkVars, Idle
<1>1. ASSUME NEW t \in Loaders, NEW id \in FullIds, Load3D(t, id) PROVE CallbacksFit'
  <2>0. CullTypes /\ Load3D(t, id)
    BY <1>1
  <2>1. PICK object \in Objects :
              /\ Idle(t, id) /\ object \notin Alive
              /\ DOMAIN loaded' = DOMAIN loaded \cup {id} /\ loaded'[id] = object
              /\ \A x \in DOMAIN loaded : x # id => loaded'[x] = loaded[x]
              /\ updating'[t] = Entry(id, object)
              /\ updating' \in [Loaders -> {NoUpdate} \cup [id : FullIds, object : Objects \cup {NoObject}]]
              /\ \A u \in Loaders : u # t => updating'[u] = updating[u]
              /\ UNCHANGED <<special, generic, cullLock, walk, span, visiting, tracked, callbacks>>
    BY ZenonT(40), <2>0, LoadDoes
  <2>2. Entries' = Entries
    BY <2>1, MapUnchanged
  <2>3. /\ updating'[t] # NoUpdate /\ updating'[t].id = id /\ updating'[t].object = object
        /\ object # NoObject
    BY <2>1, UpdateIsSome DEF Entry
  <2>4. ASSUME NEW x \in callbacks \cup tracked
        PROVE  x \in DOMAIN loaded' \/ \E u \in Loaders : Updates(u, x)'
    BY <2>3, <2>1
  <2> QED
    BY <2>1, <2>4
<1>2. ASSUME NEW t \in Loaders, NEW id \in FullIds, Unload3D(t, id) PROVE CallbacksFit'
  <2>0. CullTypes /\ Unload3D(t, id)
    BY <1>2
  <2>1. /\ Idle(t, id) /\ id \in DOMAIN loaded
        /\ DOMAIN loaded' = DOMAIN loaded \ {id}
        /\ \A x \in DOMAIN loaded : x # id => loaded'[x] = loaded[x]
        /\ updating'[t] = Entry(id, NoObject)
        /\ updating' \in [Loaders -> {NoUpdate} \cup [id : FullIds, object : Objects \cup {NoObject}]]
        /\ \A u \in Loaders : u # t => updating'[u] = updating[u]
        /\ UNCHANGED <<special, generic, cullLock, walk, span, visiting, tracked, callbacks>>
    BY <2>0, UnloadDoes
  <2>2. Entries' = Entries
    BY <2>1, MapUnchanged
  <2>3. updating'[t] # NoUpdate /\ updating'[t].id = id /\ updating'[t].object = NoObject
    BY <2>1, UpdateIsSome DEF Entry
  <2>4. ASSUME NEW x \in callbacks \cup tracked
        PROVE  x \in DOMAIN loaded' \/ \E u \in Loaders : Updates(u, x)'
    BY <2>3, <2>1
  <2> QED
    BY <2>1, <2>4
<1>3. ASSUME NEW t \in Loaders, LockMap(t) PROVE CallbacksFit'
  BY <1>3, MapUnchanged DEF LockMap
<1>4. ASSUME NEW t \in Loaders, UpdateIDto3DMap(t) PROVE CallbacksFit'
  BY <1>4, MapUnchanged DEF UpdateIDto3DMap
<1>5. ASSUME NEW id \in FullIds, Register3D(id) PROVE CallbacksFit'
  BY <1>5, MapUnchanged DEF Register3D
<1>6. ASSUME NEW id \in FullIds, LookUp(id) PROVE CallbacksFit'
  BY <1>6, MapUnchanged DEF LookUp
<1>7. ASSUME NEW needles \in SUBSET FullIds, BeginWalk(needles) PROVE CallbacksFit'
  BY <1>7, MapUnchanged DEF BeginWalk
<1>8. ASSUME Visit PROVE CallbacksFit'
  <2>1. /\ span # <<>> /\ visiting' = Head(span).object /\ span' = Tail(span)
        /\ tracked' = tracked \cup {Head(span).id} \/ tracked' = tracked
        /\ UNCHANGED <<special, generic, cullLock, loaded, updating, walk, callbacks>>
    BY <1>8 DEF Visit
  <2>2. /\ Head(span) = span[1] /\ 1 \in 1..Len(span) /\ Head(span) \in MapEntries
        /\ Tail(span) \in Seq(MapEntries) /\ Head(span) \in Entries
    BY <2>1
  <2>3. Head(span).id \in FullIds /\ Head(span).object \in Objects
    BY <2>2 DEF MapEntries
  <2>4. ASSUME \A t \in Loaders : ~Updates(t, Head(span).id)
        PROVE  Head(span).id \in DOMAIN loaded
    BY <2>3, <2>4, <2>2
  <2> QED
    BY <2>1, <2>4
<1>9. ASSUME Visited PROVE CallbacksFit'
  BY <1>9, MapUnchanged DEF Visited
<1>10. ASSUME EndWalk PROVE CallbacksFit'
  BY <1>10, MapUnchanged DEF EndWalk
<1>11. ASSUME CallVisibilityCallbacks PROVE CallbacksFit'
  BY <1>11, MapUnchanged DEF CallVisibilityCallbacks
<1> HIDE DEF CullInv, CullTypes, UpdatesFit, MapHolds, WalkFits, CallbacksFit, Updates,
    HeldFor, LoadedFor, mapVars, walkVars, Idle
<1> QED
  BY <1>1, <1>2, <1>3, <1>4, <1>5, <1>6, <1>7, <1>8, <1>9, <1>10, <1>11
  DEF CullNext

(* It holds at first: nothing is loaded.                                   *)
LEMMA CullStarts == CullStart => CullInv
<1> SUFFICES ASSUME CullStart PROVE CullInv
  OBVIOUS
<1> USE DEF CullStart
<1>1. GenericFits(generic) /\ SpecialFits(special)
  BY DEF GenericFits, SpecialFits
<1>2. Entries = {}
  BY DEF Entries
<1>3. CullTypes
  BY <1>1 DEF CullTypes
<1>4. UpdatesFit /\ CallbacksFit /\ WalkFits
  BY DEF UpdatesFit, CallbacksFit, WalkFits
<1>5. MapHolds
  BY <1>2 DEF MapHolds, HeldFor, LoadedFor
<1> QED
  BY <1>3, <1>4, <1>5 DEF CullInv

(* Every step keeps it, and so does a step that changes nothing.           *)
LEMMA CullStepKept == CullInv /\ [CullNext]_cullVars => CullInv'
<1>1. CullInv /\ CullNext => CullInv'
  BY CullTypesKept, UpdatesFitKept, MapHoldsKept, WalkFitsKept, CallbacksFitKept DEF CullInv
<1>2. CullInv /\ UNCHANGED cullVars => CullInv'
  <2> SUFFICES ASSUME CullInv, UNCHANGED cullVars PROVE CullInv'
    OBVIOUS
  <2>1. /\ UNCHANGED <<special, generic, cullLock, loaded, updating, walk, span, visiting,
                       tracked, callbacks>>
        /\ Entries' = Entries
    BY MapUnchanged DEF cullVars, mapVars, walkVars
  <2> QED
    BY <2>1 DEF CullInv, CullTypes, UpdatesFit, MapHolds, WalkFits, CallbacksFit, Updates,
                HeldFor, LoadedFor
<1> QED
  BY <1>1, <1>2

(* It says that culling finds what is loaded.                              *)
LEMMA CullingFindsInvariantly == CullInv => CullingFindsLoaded
<1> SUFFICES ASSUME CullInv PROVE CullingFindsLoaded
  OBVIOUS
<1> USE DEF CullInv
<1>1. CullTypeOK
  BY DEF CullTypes, CullTypeOK, GenericFits, SpecialFits
<1>2. MapIsWhatIsLoaded
  BY DEF MapHolds, Updates, HeldFor, LoadedFor, CullTypes, GenericFits, Lists, MapIsWhatIsLoaded
<1>3. WalkSeesLiveObjects
  BY DEF CullTypes, WalkFits, Alive, WalkSeesLiveObjects
<1>4. CallbacksAreForTheLoaded
  BY DEF CallbacksFit, CallbacksAreForTheLoaded, Updates
<1> QED
  BY <1>1, <1>2, <1>3, <1>4 DEF CullingFindsLoaded

(* Whatever is loaded and unloaded meanwhile, the map holds for each id the *)
(* object it has, once, and the renderer only meets objects somebody keeps *)
(* (AdModuleBSPreCulledObjects.cpp).                                       *)
THEOREM CullingAlwaysFindsLoaded == CullSpec => []CullingFindsLoaded
<1>1. CullSpec => []CullInv
  BY CullStarts, CullStepKept, PTL DEF CullSpec
<1> QED
  BY <1>1, CullingFindsInvariantly, PTL

===============================================================================
