------------------------------ MODULE AudioSwitch ------------------------------
(***************************************************************************)
(* Following the default audio device (Modules/AdModuleAudioSwitch.cpp).   *)
(* The game renders through one XAudio2 graph that keeps the device it was *)
(* built on.  The fix builds a second graph when Windows says that the     *)
(* default changed, or XAudio2 that the device is lost, waits until no     *)
(* sound has a voice on the old graph, and swaps the two.                  *)
(*                                                                         *)
(* Four threads: the game's audio thread, which runs HKSignal once a loop; *)
(* Windows' notifications; an engine thread of each graph, which reports   *)
(* the loss of its device; and the telemetry's reader.  A graph is known   *)
(* by its address, so that one released can be made again.  Time is what   *)
(* is left until a deadline.  Which sounds play, their fading and the      *)
(* reverb's parameters are left out: a sound may end whenever it is not    *)
(* being swapped.  Releasing a graph stops its engine, which waits for the *)
(* engine thread to leave its callback (external: IXAudio2).               *)
(***************************************************************************)
EXTENDS Integers, Sequences

CONSTANTS
    Graphs,         \* addresses of graphs
    Devices,        \* audio devices
    Sounds, Monitors,
    Debounce,       \* kDebounceMs, in ticks
    DrainTimeout,   \* kDrainTimeoutMs
    RetryBase, RetryMax, MaxShift,
    MaxNotices,     \* bound: notifications Windows has under way
    NoGraph, NoDevice, NoRequest

\* The delays are those of the source: no debounce is longer than the longest
\* retry, and a delay doubled MaxShift times does not wrap around.
ASSUME AudioAssumption ==
    /\ Graphs # {} /\ NoGraph \notin Graphs
    /\ RetryMax \in Nat /\ Debounce \in 0..RetryMax /\ NoRequest \notin 0..RetryMax
    /\ MaxShift \in Nat /\ \A n \in 0..MaxShift : RetryBase * 2^n \in Nat
    /\ DrainTimeout \in Nat /\ MaxNotices \in Nat

Voices == Sounds \cup Monitors

VARIABLES
    due,            \* s_requestDue: ticks left, or none
    forced,         \* s_requestForced
    audioShutdown,  \* s_shutdown
    draining,       \* s_phase
    pendingGraph,   \* s_pendingGraph
    drainLeft,      \* s_drainDeadline
    failures,       \* s_failures, counted up to MaxShift
    bound,          \* s_boundEndpoint
    following,      \* whether s_client is registered
    audioStep,      \* where the audio thread is in HKSignal
    wasForced,      \* its local `forced`
    endpointSeen,   \* the endpoint Bind has asked for and not stored yet
    graphSlot,      \* *GraphSlot()
    deviceOf,       \* the graphs that exist and the device each was built on
    lostGraphs,     \* graphs whose device is gone
    engine,         \* where a graph's engine thread is in HKOnCriticalError
    voiceOn,        \* the graph a sound's or monitor's voice is on
    cached,         \* sounds kept for reuse, with their voice
    managerRuns,    \* the game's audio manager is running
    defaultDevice,  \* Windows' default
    notices,        \* its notifications not delivered yet
    notifier,       \* where the notification thread is
    reader          \* the graph ReadTelemetry reads under s_graphLock, or none

built == DOMAIN deviceOf        \* the graphs that exist

audioRequest == <<due, forced>>
audioThread == <<draining, pendingGraph, drainLeft, failures, audioStep, wasForced, endpointSeen>>
audioWorld == <<graphSlot, deviceOf, lostGraphs, voiceOn, cached>>
audioOutside == <<managerRuns, defaultDevice, notices, following>>
audioVars == <<audioRequest, audioThread, audioWorld, audioOutside,
               audioShutdown, bound, engine, notifier, reader>>

AudioTypeOK ==
    /\ due \in {NoRequest} \cup 0..RetryMax /\ forced \in BOOLEAN
    /\ audioShutdown \in BOOLEAN /\ draining \in BOOLEAN
    /\ pendingGraph \in Graphs \cup {NoGraph} /\ graphSlot \in Graphs \cup {NoGraph}
    /\ drainLeft \in 0..DrainTimeout /\ failures \in 0..MaxShift
    /\ {bound, endpointSeen, defaultDevice} \subseteq Devices \cup {NoDevice}
    /\ following \in BOOLEAN /\ wasForced \in BOOLEAN /\ managerRuns \in BOOLEAN
    /\ audioStep \in {"loop", "exchange", "check", "build", "retryForce", "retryDue",
                      "ask", "bind", "over"}
    /\ built \subseteq Graphs /\ lostGraphs \subseteq built /\ deviceOf \in [built -> Devices]
    /\ engine \in [Graphs -> {"rendering", "force", "due"}]
    /\ voiceOn \in [Voices -> Graphs \cup {NoGraph}] /\ cached \subseteq Sounds
    /\ notices \in Seq(Devices) /\ Len(notices) <= MaxNotices
    /\ notifier \in {"waiting", "request"}
    /\ reader \in Graphs \cup {NoGraph}

\* DoInstall ran at load, before the game made its graph: the notifications may
\* be unavailable, and Bind has stored the default of that moment.
AudioStart ==
    /\ due = NoRequest /\ forced = FALSE /\ audioShutdown = FALSE /\ draining = FALSE
    /\ pendingGraph = NoGraph /\ drainLeft = 0 /\ failures = 0
    /\ defaultDevice \in Devices /\ following \in BOOLEAN
    /\ bound = (IF following THEN defaultDevice ELSE NoDevice)
    /\ audioStep = "loop" /\ wasForced = FALSE /\ endpointSeen = NoDevice
    /\ graphSlot = NoGraph /\ deviceOf = <<>> /\ lostGraphs = {} /\ cached = {}
    /\ engine = [g \in Graphs |-> "rendering"]
    /\ voiceOn = [v \in Voices |-> NoGraph]
    /\ managerRuns = FALSE /\ notices = <<>> /\ notifier = "waiting" /\ reader = NoGraph

\* The earliest deadline wins (the loop of Request, whose exchange succeeds on
\* the value its comparison was made with).
RequestIn(delay) == due' = IF due = NoRequest \/ delay < due THEN delay ELSE due

\* A graph opens the default device and keeps it (external: IXAudio2).
Built(g) ==
    deviceOf' = [h \in built \cup {g} |-> IF h = g THEN defaultDevice ELSE deviceOf[h]]

----------------------------------------------------------------------------
\* The game's side of the audio thread, and Windows.

\* BSXAudio2Audio::Init (external).
FirstGraph == CHOOSE g \in Graphs : TRUE
StartAudio ==
    /\ ~managerRuns /\ graphSlot = NoGraph /\ ~audioShutdown
    /\ audioStep = "loop" /\ defaultDevice # NoDevice
    /\ graphSlot' = FirstGraph /\ Built(FirstGraph)
    /\ voiceOn' = [v \in Voices |-> IF v \in Monitors THEN FirstGraph ELSE NoGraph]
    /\ managerRuns' = TRUE
    /\ UNCHANGED <<audioRequest, audioThread, lostGraphs, cached, defaultDevice, notices, following,
                   audioShutdown, bound, engine, notifier, reader>>

\* The game prepares a sound, taking its voice from the cache if it is there, and
\* retires it, giving its voice up or caching it (external).
PlaySound(s) ==
    /\ managerRuns /\ audioStep = "loop"
    /\ \/ s \in cached /\ UNCHANGED voiceOn
       \/ voiceOn[s] = NoGraph /\ voiceOn' = [voiceOn EXCEPT ![s] = graphSlot]
    /\ cached' = cached \ {s}
    /\ UNCHANGED <<audioRequest, audioThread, graphSlot, deviceOf, lostGraphs, audioOutside,
                   audioShutdown, bound, engine, notifier, reader>>

RetireSound(s) ==
    /\ managerRuns /\ audioStep = "loop"
    /\ voiceOn[s] # NoGraph /\ s \notin cached
    /\ \/ cached' = cached \cup {s} /\ UNCHANGED voiceOn
       \/ voiceOn' = [voiceOn EXCEPT ![s] = NoGraph] /\ UNCHANGED cached
    /\ UNCHANGED <<audioRequest, audioThread, graphSlot, deviceOf, lostGraphs, audioOutside,
                   audioShutdown, bound, engine, notifier, reader>>

\* The user chooses another device, or unplugs the last one; an identifier that
\* is null is of no interest to the handler and is not kept here.
ChangeDefault(d) ==
    /\ d # defaultDevice /\ defaultDevice' = d
    /\ IF following /\ d # NoDevice
       THEN Len(notices) < MaxNotices /\ notices' = Append(notices, d)
       ELSE UNCHANGED notices
    /\ UNCHANGED <<audioRequest, audioThread, audioWorld, managerRuns, following,
                   audioShutdown, bound, engine, notifier, reader>>

\* NotificationClient::OnDefaultDeviceChanged: compares under s_endpointLock ...
OnDefaultDeviceChanged ==
    /\ notifier = "waiting" /\ notices # <<>>
    /\ notices' = Tail(notices)
    /\ notifier' = IF bound = Head(notices) THEN "waiting" ELSE "request"
    /\ UNCHANGED <<audioRequest, audioThread, audioWorld, managerRuns, defaultDevice, following,
                   audioShutdown, bound, engine, reader>>

\* ... and requests outside it.
RequestChange ==
    /\ notifier = "request" /\ notifier' = "waiting"
    /\ RequestIn(Debounce)
    /\ UNCHANGED <<forced, audioThread, audioWorld, audioOutside,
                   audioShutdown, bound, engine, reader>>

\* HKOnCriticalError of a graph whose device is gone: Request stores the flag
\* before the deadline.
LoseDevice(g) ==
    /\ g \in built \ lostGraphs /\ lostGraphs' = lostGraphs \cup {g}
    /\ engine' = [engine EXCEPT ![g] = "force"]
    /\ UNCHANGED <<audioRequest, audioThread, graphSlot, deviceOf, voiceOn, cached, audioOutside,
                   audioShutdown, bound, notifier, reader>>

CriticalForce(g) ==
    /\ engine[g] = "force" /\ engine' = [engine EXCEPT ![g] = "due"]
    /\ forced' = TRUE
    /\ UNCHANGED <<due, audioThread, audioWorld, audioOutside,
                   audioShutdown, bound, notifier, reader>>

CriticalDue(g) ==
    /\ engine[g] = "due" /\ engine' = [engine EXCEPT ![g] = "rendering"]
    /\ RequestIn(0)
    /\ UNCHANGED <<forced, audioThread, audioWorld, audioOutside,
                   audioShutdown, bound, notifier, reader>>

----------------------------------------------------------------------------
\* HKSignal on the audio thread.

GetAudio == managerRuns /\ graphSlot # NoGraph

\* ReleaseGraph.
Released(g) ==
    /\ engine[g] = "rendering"
    /\ deviceOf' = [h \in built \ {g} |-> deviceOf[h]] /\ lostGraphs' = lostGraphs \ {g}

\* Begin: a request whose time has come is taken by the exchange.
Begin ==
    /\ audioStep = "loop" /\ ~audioShutdown /\ ~draining
    /\ due = 0 /\ due' = NoRequest /\ audioStep' = "exchange"
    /\ UNCHANGED <<forced, draining, pendingGraph, drainLeft, failures, wasForced, endpointSeen,
                   audioWorld, audioOutside, audioShutdown, bound, engine, notifier, reader>>

ExchangeForced ==
    /\ audioStep = "exchange" /\ audioStep' = "check"
    /\ wasForced' = forced /\ forced' = FALSE
    /\ UNCHANGED <<due, draining, pendingGraph, drainLeft, failures, endpointSeen,
                   audioWorld, audioOutside, audioShutdown, bound, engine, notifier, reader>>

IsBound == following /\ defaultDevice # NoDevice /\ defaultDevice = bound

CheckBoundAlways ==     \* a forced request is not told from a change
    /\ audioStep = "check"
    /\ audioStep' = IF GetAudio /\ ~IsBound THEN "build" ELSE "loop"
    /\ wasForced' = FALSE
    /\ UNCHANGED <<audioRequest, draining, pendingGraph, drainLeft, failures, endpointSeen,
                   audioWorld, audioOutside, audioShutdown, bound, engine, notifier, reader>>

CheckBound ==
    /\ audioStep = "check"
    /\ audioStep' = IF GetAudio /\ (wasForced \/ ~IsBound) THEN "build" ELSE "loop"
    /\ wasForced' = FALSE
    /\ UNCHANGED <<audioRequest, draining, pendingGraph, drainLeft, failures, endpointSeen,
                   audioWorld, audioOutside, audioShutdown, bound, engine, notifier, reader>>

\* BuildGraph: without a device there is no valid graph; with one, making it may
\* fail all the same.
BuildGraph ==
    /\ audioStep = "build"
    /\ \/ \E g \in Graphs \ built :
            /\ defaultDevice # NoDevice
            /\ pendingGraph' = g /\ Built(g)
            /\ drainLeft' = DrainTimeout /\ draining' = TRUE /\ audioStep' = "loop"
       \/ audioStep' = "retryForce" /\ UNCHANGED <<pendingGraph, deviceOf, drainLeft, draining>>
    /\ UNCHANGED <<audioRequest, failures, wasForced, endpointSeen, graphSlot, lostGraphs, voiceOn, cached,
                   audioOutside, audioShutdown, bound, engine, notifier, reader>>

\* RequestRetry, each time twice as late up to a limit.
RetryForce ==
    /\ audioStep = "retryForce" /\ audioStep' = "retryDue"
    /\ forced' = TRUE
    /\ UNCHANGED <<due, draining, pendingGraph, drainLeft, failures, wasForced, endpointSeen,
                   audioWorld, audioOutside, audioShutdown, bound, engine, notifier, reader>>

RetryDelay == LET delay == RetryBase * 2^failures IN IF delay < RetryMax THEN delay ELSE RetryMax

RetryDue ==
    /\ audioStep = "retryDue" /\ audioStep' = "loop"
    /\ RequestIn(RetryDelay)
    /\ failures' = IF failures < MaxShift THEN failures + 1 ELSE MaxShift
    /\ UNCHANGED <<forced, draining, pendingGraph, drainLeft, wasForced, endpointSeen,
                   audioWorld, audioOutside, audioShutdown, bound, engine, notifier, reader>>

PreparedSounds == {s \in Sounds \ cached : voiceOn[s] # NoGraph}

Draining == audioStep = "loop" /\ ~audioShutdown /\ draining

\* A Swap that leaves the cache as it is.
SwapKeepingCache ==
    /\ Draining /\ GetAudio /\ PreparedSounds = {} /\ reader = NoGraph
    /\ \E made \in SUBSET Monitors :
          voiceOn' = [v \in Voices |-> IF v \in made THEN pendingGraph
                                      ELSE IF v \in cached THEN voiceOn[v] ELSE NoGraph]
    /\ graphSlot' = pendingGraph /\ Released(graphSlot)
    /\ pendingGraph' = NoGraph /\ audioStep' = "ask"
    /\ UNCHANGED <<audioRequest, draining, drainLeft, failures, wasForced, endpointSeen, cached,
                   audioOutside, audioShutdown, bound, engine, notifier, reader>>

\* Drain, when the sounds have stopped: Swap clears the cache, moves the monitors,
\* of which some may not be made again, publishes the graph and releases the old
\* one, all under s_graphLock.
Swap ==
    /\ Draining /\ GetAudio /\ PreparedSounds = {} /\ reader = NoGraph
    /\ \E made \in SUBSET Monitors :
          voiceOn' = [v \in Voices |-> IF v \in made THEN pendingGraph ELSE NoGraph]
    /\ cached' = {} /\ graphSlot' = pendingGraph /\ Released(graphSlot)
    /\ pendingGraph' = NoGraph /\ audioStep' = "ask"
    /\ UNCHANGED <<audioRequest, draining, drainLeft, failures, wasForced, endpointSeen,
                   audioOutside, audioShutdown, bound, engine, notifier, reader>>

\* Bind asks Windows for the default ...
AskEndpoint ==
    /\ audioStep = "ask" /\ audioStep' = "bind"
    /\ endpointSeen' = IF following THEN defaultDevice ELSE NoDevice
    /\ UNCHANGED <<audioRequest, draining, pendingGraph, drainLeft, failures, wasForced,
                   audioWorld, audioOutside, audioShutdown, bound, engine, notifier, reader>>

\* ... and stores it under s_endpointLock; the switch is over.
Bind ==
    /\ audioStep = "bind" /\ audioStep' = "loop"
    /\ bound' = endpointSeen /\ endpointSeen' = NoDevice
    /\ failures' = 0 /\ draining' = FALSE /\ drainLeft' = 0
    /\ UNCHANGED <<audioRequest, pendingGraph, wasForced,
                   audioWorld, audioOutside, audioShutdown, engine, notifier, reader>>

\* Drain, when a sound did not stop in time or the game's audio is gone: the graph
\* is given up, and tried again later if there is still something to play.
AbandonGraph ==
    /\ Draining /\ (GetAudio => PreparedSounds # {} /\ drainLeft = 0)
    /\ Released(pendingGraph) /\ pendingGraph' = NoGraph
    /\ draining' = FALSE /\ drainLeft' = 0
    /\ audioStep' = IF GetAudio THEN "retryForce" ELSE "loop"
    /\ UNCHANGED <<audioRequest, failures, wasForced, endpointSeen, graphSlot, voiceOn, cached,
                   audioOutside, audioShutdown, bound, engine, notifier, reader>>

\* The game clears the manager's flag when it quits ...
StopManager ==
    /\ managerRuns /\ audioStep = "loop" /\ managerRuns' = FALSE
    /\ UNCHANGED <<audioRequest, audioThread, audioWorld, defaultDevice, notices, following,
                   audioShutdown, bound, engine, notifier, reader>>

\* ... and shuts its audio down: HKAudioShutdown waits for a reader, ...
ShutDown ==
    /\ graphSlot # NoGraph /\ ~managerRuns /\ audioStep = "loop" /\ ~audioShutdown /\ reader = NoGraph
    /\ audioShutdown' = TRUE
    /\ UNCHANGED <<audioRequest, audioThread, audioWorld, audioOutside,
                   bound, engine, notifier, reader>>

\* ... releases a graph that was not swapped in and lets the game release its own.
ReleaseAll ==
    /\ audioShutdown /\ audioStep = "loop"
    /\ \A g \in built : engine[g] = "rendering"
    /\ deviceOf' = <<>> /\ lostGraphs' = {} /\ cached' = {} /\ graphSlot' = NoGraph /\ pendingGraph' = NoGraph
    /\ voiceOn' = [v \in Voices |-> NoGraph]
    /\ audioStep' = "over"
    /\ UNCHANGED <<audioRequest, draining, drainLeft, failures, wasForced, endpointSeen,
                   audioOutside, audioShutdown, bound, engine, notifier, reader>>

----------------------------------------------------------------------------
\* ReadTelemetry reads the live graph under s_graphLock, unless it is shut down.
ReadBegin ==
    /\ reader = NoGraph /\ ~audioShutdown /\ graphSlot # NoGraph
    /\ reader' = graphSlot
    /\ UNCHANGED <<audioRequest, audioThread, audioWorld, audioOutside,
                   audioShutdown, bound, engine, notifier>>

ReadEnd ==
    /\ reader # NoGraph /\ reader' = NoGraph
    /\ UNCHANGED <<audioRequest, audioThread, audioWorld, audioOutside,
                   audioShutdown, bound, engine, notifier>>

AudioTick ==
    /\ due \in 1..RetryMax \/ drainLeft > 0
    /\ due' = IF due \in 1..RetryMax THEN due - 1 ELSE due
    /\ drainLeft' = IF drainLeft > 0 THEN drainLeft - 1 ELSE 0
    /\ UNCHANGED <<forced, draining, pendingGraph, failures, audioStep, wasForced, endpointSeen,
                   audioWorld, audioOutside, audioShutdown, bound, engine, notifier, reader>>

AudioNext ==
    \/ StartAudio \/ StopManager \/ ShutDown \/ ReleaseAll
    \/ \E s \in Sounds : PlaySound(s) \/ RetireSound(s)
    \/ \E d \in Devices \cup {NoDevice} : ChangeDefault(d)
    \/ OnDefaultDeviceChanged \/ RequestChange
    \/ \E g \in Graphs : LoseDevice(g) \/ CriticalForce(g) \/ CriticalDue(g)
    \/ Begin \/ ExchangeForced \/ CheckBound \/ BuildGraph
    \/ RetryForce \/ RetryDue
    \/ Swap \/ AskEndpoint \/ Bind \/ AbandonGraph
    \/ ReadBegin \/ ReadEnd \/ AudioTick

AudioSpec == AudioStart /\ [][AudioNext]_audioVars

----------------------------------------------------------------------------
\* A voice, a sound's in the cache and a monitor's included, is on the live
\* graph, and the telemetry reads no other: none is left behind on one that
\* Swap, AbandonGraph or the shutdown releases.
VoicesAreLive ==
    /\ \A v \in Voices : voiceOn[v] # NoGraph => voiceOn[v] = graphSlot /\ graphSlot \in built
    /\ reader # NoGraph => reader = graphSlot /\ reader \in built

\* No graph is leaked or released twice: what exists is the live one and, while
\* the sounds drain, the one to come.
GraphsAreOwned ==
    /\ built = {graphSlot, pendingGraph} \ {NoGraph}
    /\ pendingGraph # NoGraph => draining /\ pendingGraph # graphSlot
    /\ draining /\ audioStep = "loop" => pendingGraph # NoGraph

\* The loss of the live graph's device is never forgotten: it is being reported,
\* is requested with the flag that lets the same endpoint be built again, or is
\* being dealt with, whatever other request it meets.
LossIsFollowed ==
    graphSlot \in lostGraphs /\ managerRuns =>
        \/ engine[graphSlot] # "rendering"
        \/ forced /\ (due # NoRequest \/ audioStep = "exchange")
        \/ wasForced
        \/ audioStep \in {"build", "retryForce", "retryDue"}
        \/ pendingGraph # NoGraph

\* The game plays on one graph that exists, and what follows the device forgets
\* no loss of it.
AudioGoesOn == AudioTypeOK /\ VoicesAreLive /\ GraphsAreOwned /\ LossIsFollowed

\* The setting's promise (AdPatchSettings.cpp:93): the game automatically switches
\* to a newly selected default device.  With no notification and no request left,
\* the graph is on the default device.
DefaultIsFollowed ==
    /\ following /\ managerRuns /\ defaultDevice # NoDevice
    /\ notices = <<>> /\ notifier = "waiting"
    /\ due = NoRequest /\ audioStep = "loop" /\ ~draining
    => deviceOf[graphSlot] = defaultDevice
=============================================================================
