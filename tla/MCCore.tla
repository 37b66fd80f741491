-------------------------------- MODULE MCCore --------------------------------
(***************************************************************************)
(* The plugin's core, one part at a time: a behaviour is one of the        *)
(* settings, of the module manager, of the list of face exceptions, of the *)
(* telemetry's frames, its table of sources or its counts of operations,   *)
(* or of the log's, chosen in its first state, while the others stay as    *)
(* they start.                                                             *)
(*                                                                         *)
(* Settings: one that applies at once, one that applies at the next launch *)
(* and a custom file that sets the second.  Modules: one registered by the *)
(* preload stage, one at load and again at kGameDataReady as Facegen is,   *)
(* one for kGameDataReady alone and one whose setting is off.  Exceptions: *)
(* two names, a light plugin and one that is not loaded.  Sources: the     *)
(* process's memory, two modules' with a series each, one whose key the    *)
(* process's memory has and one whose key is not valid.  Operations: three *)
(* threads for two lanes.  Log: a minute of two seconds.                   *)
(***************************************************************************)
EXTENDS SettingsStore, ModuleManager, FacegenExceptions, FrameTelemetry, HubTable,
        CounterLanes, LogLines, TLC

CONSTANTS Parts, preload, twice, late, off

MCDefault == [s \in Settings |-> 0]
MCCustomFiles ==
    {NoFile,
     [set |-> [s \in Settings |-> IF s \in Immediate THEN None ELSE 1],
      foreign |-> FALSE, documented |-> FALSE]}

MCModules == {preload, twice, late, off}
MCMessages == {"kPostLoadGame", "kGameDataReady", "kGameLoaded"}
MCRegistered ==
    {<<twice, "kLoad">>, <<twice, "kGameDataReady">>, <<late, "kGameDataReady">>,
     <<off, "kLoad">>}
MCListeners ==
    {<<twice, "kGameDataReady">>, <<twice, "kPostLoadGame">>, <<off, "kGameLoaded">>}

MCLoadOrder ==
    "light.esl" :> [kind |-> "light", index |-> 1] @@
    "gone.esp" :> [kind |-> "absent", index |-> 0]

MCRuntimeSources == <<"memory">>
MCSchemaOf ==
    "memory" :> <<"ws", "faults">> @@ "load" :> <<"times">> @@ "burst" :> <<"slow">> @@
    "twin" :> <<"ws">> @@ "wrong" :> <<"Bad key">>
MCSeriesCapacityOf ==
    [s \in DOMAIN MCSchemaOf |-> IF s \in {"load", "burst"} THEN 1 ELSE 0]

MCConfigurations ==
    {[records |-> r, shards |-> s, bounds |-> b] :
        r \in 0..4, s \in 0..4, b \in {<<>>, <<0, 6>>, <<0, 2, 6>>, <<1, 6>>, <<0, 2, 2, 6>>}}
MCProfiled == [records |-> 3, shards |-> 2, bounds |-> <<0, 2, 6>>]
MCLogLevels == <<"debug", "info", "off">>

VARIABLE part       \* the part this behaviour is one of

MCInit ==
    /\ part \in Parts
    /\ Init /\ (part # "settings" => base = NoFile /\ custom = NoFile)
    /\ ManagerStart /\ (part # "modules" => originalGame)
    /\ FacegenStart /\ (part # "faces" => enabled)
    /\ FrameStart
    /\ HubTableInit
    /\ LanesInit
    /\ LogInit

coreVars ==
    <<part, vars, managerVars, facegenVars, frameVars, hubTableVars, laneVars, logVars>>

Others(chosen) ==
    /\ part = chosen
    /\ UNCHANGED part
    /\ IF chosen = "settings" THEN TRUE ELSE UNCHANGED vars
    /\ IF chosen = "modules" THEN TRUE ELSE UNCHANGED managerVars
    /\ IF chosen = "faces" THEN TRUE ELSE UNCHANGED facegenVars
    /\ IF chosen = "frames" THEN TRUE ELSE UNCHANGED frameVars
    /\ IF chosen = "hub" THEN TRUE ELSE UNCHANGED hubTableVars
    /\ IF chosen = "lanes" THEN TRUE ELSE UNCHANGED laneVars
    /\ IF chosen = "log" THEN TRUE ELSE UNCHANGED logVars

\* Threads that have not begun anything are alike: the first of them does.
FirstNewBegins ==
    \A t, u \in LaneThreads :
        threads[t] = NewThread /\ threads[u] = NewThread /\ u < t => threads'[t] = NewThread

\* The user need not edit, and the page need not be drawn, any more; the clock
\* has run out and the hub is not started again; nothing can be
\* collected; the source is not the one that is used.
Quiescent ==
    \/ persistence = Nobody /\ ~page.saved /\ part = "faces"
    \/ part = "frames" /\ (clock = MaxClock \/ hub = "idle")
    \/ part = "hub" /\ initialized /\ (~frozen \/ sequence = MaxCollections)
    \/ part = "lanes" /\ source.valid /\ source.config # Profiled

MCNext ==
    \/ Others("settings") /\ Next
    \/ Others("modules") /\ ManagerNext
    \/ Others("faces") /\ FacegenNext
    \/ Others("frames") /\ FrameNext
    \/ Others("hub") /\ HubTableNext
    \/ Others("lanes") /\ LanesNext /\ FirstNewBegins
    \/ Others("log") /\ LogNext
    \/ Quiescent /\ UNCHANGED coreVars

MCSpec == MCInit /\ [][MCNext]_coreVars

\* What the worker collects, skips, overwrites and has pending adds up to what
\* the game's thread measured, in the order it was measured in, and every cell
\* of a row is its column's source's, of that row; operations and the log's lines
\* are counted for the capture and the minute they were of.
RowsAddUp ==
    CASE part = "frames" ->
            /\ FrameTypeOK
            /\ HistoryIsTheNewest /\ RecordsAreTheNewest
            /\ CountAndTotalAgree /\ MaximumIsOneFrame
            /\ DeadlinesAccountedFor
      [] part = "hub" -> HubTableTypeOK /\ TableIsWhole /\ RowsAreTheirs /\ FaultsAddUp
      [] part = "lanes" ->
            LanesHaveOneOwner /\ CountIsOfCapture /\ NoOperationForgotten /\ SourceIsSound
      [] part = "log" -> LinesAreOfTheMinute /\ BucketsKeepTheirSeconds
      [] OTHER -> TRUE
=============================================================================
