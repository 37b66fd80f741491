---------------------------- MODULE ImageTelemetry ----------------------------
(***************************************************************************)
(* The registry of the images loaded in the process (AdImageRegistry.cpp). *)
(* The loader's notifications go through a bounded queue to a worker that  *)
(* adds and retires images, tells the consumers of each new one and        *)
(* publishes a snapshot for readers; what does not fit the queue is made   *)
(* up for by listing the process' modules.                                 *)
(*                                                                         *)
(* An address is a member of Bases; several images may be loaded there one *)
(* after the other.  Images that cannot be read are left out.              *)
(***************************************************************************)
EXTENDS Integers, Sequences, FiniteSets, Functions, SequencesExt, FiniteSetsExt

CONSTANTS
    Bases, Names,
    Nothing,        \* nothing is loaded at an address; no snapshot; nobody
    Consumers,      \* who subscribes, once each
    QueueCapacity, ImageCapacity,
    MaxLoads        \* bound: loads and unloads in a behaviour

ASSUME ImageRegistryAssumption ==
    /\ Nothing \notin Names \cup {"worker"}
    /\ QueueCapacity \in Nat \ {0, 1} /\ ImageCapacity \in Nat \ {0} /\ MaxLoads \in Nat

VARIABLES
    loadedAt,       \* loadedAt[b]: the name of the image loaded there
    loads,
    notifying,      \* notifying[b]: [step, reason, position] of a notification
    cells, write, read,  \* the queue: [sequence, event] each, and its two ends
    dropped, seen,  \* notifications that did not fit; the worker's count of them
    signalled,      \* m_event
    started,        \* "no", "registered", "ready" or "failed"
    workerPc, modules,   \* the worker's step and the modules it listed
    updateMutex,
    images,         \* the images by id: [base, name, alive]
    snapshot,       \* the ids the readers search
    told,           \* told[c]: the ids the consumer was told of
    subscribed,
    unlisted        \* the modules could not be listed, or no image id was left

registryVars == <<loadedAt, loads, notifying, cells, write, read, dropped, seen, signalled,
                  started, workerPc, modules, updateMutex, images, snapshot, told,
                  subscribed, unlisted>>

NoEvent == [reason |-> "none", base |-> Nothing]
Idle == [step |-> "idle", reason |-> "none", position |-> 0]
Ids == 1..Len(images)
AliveIds == {i \in Ids : images[i].alive}

RegistryTypeOK ==
    /\ loadedAt \in [Bases -> Names \cup {Nothing}]
    /\ dropped \in Nat /\ seen \in 0..dropped
    /\ \A c \in DOMAIN cells : cells[c].sequence \in Nat
    /\ read <= write /\ write <= read + QueueCapacity
    /\ updateMutex \in {Nothing, "worker"}
    /\ Len(images) <= ImageCapacity /\ subscribed \subseteq Consumers

RegistryStart ==
    /\ loadedAt \in [Bases -> Names \cup {Nothing}] /\ loads = 0
    /\ notifying = [b \in Bases |-> Idle]
    /\ cells = [c \in 0..QueueCapacity - 1 |-> [sequence |-> c, event |-> NoEvent]]
    /\ write = 0 /\ read = 0 /\ dropped = 0 /\ seen = 0 /\ signalled = FALSE
    /\ started = "no" /\ workerPc = "off" /\ modules = {} /\ updateMutex = Nothing
    /\ images = <<>> /\ snapshot = Nothing
    /\ told = [c \in Consumers |-> <<>>] /\ subscribed = {} /\ unlisted = FALSE

queueVars == <<notifying, cells, write, read, dropped, signalled>>
workerVars == <<seen, workerPc, modules, updateMutex>>
imageVars == <<images, snapshot, told, subscribed, unlisted>>

-----------------------------------------------------------------------------
\* Start, with its notification registered and its worker created, or not; who
\* called it waits until the worker has published once.
StartRegistry ==
    /\ started = "no"
    /\ \/ started' = "registered" /\ workerPc' = "lock"
       \/ started' = "failed" /\ UNCHANGED workerPc
    /\ UNCHANGED <<loadedAt, loads, queueVars, seen, modules, updateMutex, imageVars>>

\* A thread has the loader map or unmap an image, which calls Notify; nothing else
\* happens at the address until the call returns.
LoadOrUnload(b) ==
    /\ notifying[b] = Idle
    /\ loads < MaxLoads /\ loads' = loads + 1
    /\ \E n \in Names \cup {Nothing} :
         /\ (n = Nothing) # (loadedAt[b] = Nothing)
         /\ loadedAt' = [loadedAt EXCEPT ![b] = n]
         /\ notifying' = IF workerPc = "off" THEN notifying
                         ELSE [notifying EXCEPT ![b] =
                                [step |-> "claim", position |-> 0,
                                 reason |-> IF n = Nothing THEN "unloaded" ELSE "loaded"]]
    /\ UNCHANGED <<cells, write, read, dropped, signalled, started, workerVars, imageVars>>

\* Notify takes the cell at the end of the queue, or finds it not yet read.
NotifyClaim(b) ==
    /\ notifying[b].step = "claim"
    /\ LET cell == cells[write % QueueCapacity] IN
       IF cell.sequence < write
       THEN /\ dropped' = dropped + 1 /\ UNCHANGED write
            /\ notifying' = [notifying EXCEPT ![b].step = "signal"]
       ELSE /\ cell.sequence = write
            /\ write' = write + 1 /\ UNCHANGED dropped
            /\ notifying' = [notifying EXCEPT ![b].step = "store", ![b].position = write]
    /\ UNCHANGED <<loadedAt, loads, cells, read, signalled, started, workerVars, imageVars>>

NotifyStore(b) ==
    /\ notifying[b].step = "store"
    /\ cells' = [cells EXCEPT ![notifying[b].position % QueueCapacity] =
                    [sequence |-> notifying[b].position + 1, event |-> [reason |-> notifying[b].reason, base |-> b]]]
    /\ notifying' = [notifying EXCEPT ![b].step = "signal"]
    /\ UNCHANGED <<loadedAt, loads, write, read, dropped, signalled, started, workerVars, imageVars>>

NotifySignal(b) ==
    /\ notifying[b].step = "signal" /\ signalled' = TRUE
    /\ notifying' = [notifying EXCEPT ![b] = Idle]
    /\ UNCHANGED <<loadedAt, loads, cells, write, read, dropped, started, workerVars, imageVars>>

-----------------------------------------------------------------------------
\* Add: an image not known to be loaded there gets the next id, if it is loaded at
\* all, and the consumers are told.
Known(b) == \E i \in AliveIds : images[i].base = b

Add(b) ==
    IF Known(b) \/ loadedAt[b] = Nothing
    THEN UNCHANGED <<images, told, unlisted>>
    ELSE IF Len(images) = ImageCapacity
    THEN unlisted' = TRUE /\ UNCHANGED <<images, told>>
    ELSE /\ images' = Append(images, [base |-> b, name |-> loadedAt[b], alive |-> TRUE])
         /\ told' = [c \in Consumers |->
                        IF c \in subscribed THEN Append(told[c], Len(images) + 1) ELSE told[c]]
         /\ UNCHANGED unlisted

Retired(keep) == [i \in Ids |-> [images[i] EXCEPT !.alive = @ /\ images[i].base \in keep]]

WorkerLock ==
    /\ workerPc = "lock" /\ updateMutex = Nothing /\ updateMutex' = "worker"
    /\ workerPc' = IF snapshot = Nothing THEN "list" ELSE "pop"
    /\ UNCHANGED <<loadedAt, loads, queueVars, started, seen, modules, imageVars>>

\* Reconcile lists the modules and retires what is not among them, then adds each.
ListModules ==
    /\ workerPc \in {"list", "relist"}
    /\ \/ /\ modules' = {b \in Bases : loadedAt[b] # Nothing}
          /\ images' = Retired(modules')
          /\ UNCHANGED unlisted
       \/ modules' = {} /\ unlisted' = TRUE /\ UNCHANGED images
    /\ workerPc' = IF workerPc = "list" THEN "add" ELSE "readd"
    /\ UNCHANGED <<loadedAt, loads, queueVars, started, seen, updateMutex, snapshot, told, subscribed>>

AddListed ==
    /\ workerPc \in {"add", "readd"}
    /\ \/ /\ modules = {} /\ workerPc' = IF workerPc = "add" THEN "pop" ELSE "publish"
          /\ UNCHANGED <<modules, images, told, unlisted>>
       \/ \E b \in modules :
            modules' = modules \ {b} /\ Add(b) /\ UNCHANGED workerPc
    /\ UNCHANGED <<loadedAt, loads, queueVars, started, seen, updateMutex, snapshot, subscribed>>

PopNotification ==
    /\ workerPc = "pop"
    /\ LET cell == cells[read % QueueCapacity] IN
       /\ cell.sequence = read + 1
       /\ cells' = [cells EXCEPT ![read % QueueCapacity].sequence = read + QueueCapacity]
       /\ read' = read + 1
       /\ IF cell.event.reason = "unloaded"
          THEN images' = Retired(Bases \ {cell.event.base}) /\ UNCHANGED <<told, unlisted>>
          ELSE Add(cell.event.base)
    /\ UNCHANGED <<loadedAt, loads, notifying, write, dropped, signalled, started,
                   workerVars, snapshot, subscribed>>

NoMoreNotifications ==
    /\ workerPc = "pop" /\ cells[read % QueueCapacity].sequence # read + 1
    /\ workerPc' = "count"
    /\ UNCHANGED <<loadedAt, loads, queueVars, started, seen, modules, updateMutex, imageVars>>

CountDropped ==
    /\ workerPc = "count" /\ seen' = dropped
    /\ workerPc' = IF dropped # seen THEN "relist" ELSE "publish"
    /\ UNCHANGED <<loadedAt, loads, queueVars, started, modules, updateMutex, imageVars>>

PublishImages ==
    /\ workerPc = "publish" /\ snapshot' = AliveIds
    /\ updateMutex' = Nothing /\ workerPc' = "wait"
    /\ started' = IF started = "registered"
                  THEN IF images = <<>> THEN "failed" ELSE "ready" ELSE started
    /\ UNCHANGED <<loadedAt, loads, queueVars, seen, modules, images, told, subscribed, unlisted>>

WorkerWake ==
    /\ workerPc = "wait" /\ signalled /\ signalled' = FALSE /\ workerPc' = "lock"
    /\ UNCHANGED <<loadedAt, loads, notifying, cells, write, read, dropped, started, seen,
                   modules, updateMutex, imageVars>>

-----------------------------------------------------------------------------
\* Resolve adds an image the readers do not find.
Found(b) == snapshot # Nothing /\ \E i \in snapshot : images[i].alive /\ images[i].base = b

Resolve(b) ==
    /\ started = "ready" /\ ~Found(b) /\ updateMutex = Nothing
    /\ Add(b) /\ snapshot' = {i \in 1..Len(images') : images'[i].alive}
    /\ UNCHANGED <<loadedAt, loads, queueVars, started, workerVars, subscribed>>

\* A consumer is told of the images that are alive when it subscribes.
Subscribe(c) ==
    /\ started = "ready" /\ c \notin subscribed /\ updateMutex = Nothing
    /\ subscribed' = subscribed \cup {c}
    /\ \E order \in [1..Cardinality(AliveIds) -> AliveIds] :
         /\ \A i, j \in DOMAIN order : i < j => order[i] < order[j]
         /\ told' = [told EXCEPT ![c] = order]
    /\ UNCHANGED <<loadedAt, loads, queueVars, started, workerVars, images, snapshot, unlisted>>

RegistryNext ==
    \/ StartRegistry
    \/ \E b \in Bases :
         \/ LoadOrUnload(b) \/ NotifyClaim(b) \/ NotifyStore(b) \/ NotifySignal(b)
         \/ Resolve(b)
    \/ WorkerLock \/ ListModules \/ AddListed \/ PopNotification \/ NoMoreNotifications
    \/ CountDropped \/ PublishImages \/ WorkerWake
    \/ \E c \in Consumers : Subscribe(c)

-----------------------------------------------------------------------------
OneImagePerBase == \A i, j \in AliveIds : images[i].base = images[j].base => i = j

\* Nothing is left for the worker to do.
Settled ==
    /\ workerPc = "wait" /\ ~signalled /\ ~unlisted
    /\ \A b \in Bases : notifying[b] = Idle

\* Once every notification has been dealt with no image is alive that is not loaded,
\* whether its notifications fitted the queue or not; and as long as all of them did,
\* the images alive are those loaded and each goes by its own name.  (One queued
\* before the modules were listed and read after may retire an image whose loading
\* did not fit.)
RegistrySettles ==
    Settled =>
        /\ \A i \in AliveIds : loadedAt[images[i].base] # Nothing
        /\ snapshot = AliveIds
        /\ dropped = 0 =>
             /\ \A b \in Bases : loadedAt[b] # Nothing => Known(b)
             /\ \A i \in AliveIds : images[i].name = loadedAt[images[i].base]

\* A consumer hears of every image alive, and of none twice, whether the image was
\* there when it subscribed, was listed, notified or resolved.
ConsumersAreTold ==
    \A c \in subscribed :
        /\ IsInjective(told[c])
        /\ AliveIds \subseteq Range(told[c])

-----------------------------------------------------------------------------
(***************************************************************************)
(* The sampler that charges the threads' processor cycles to the images    *)
(* they run (AdImageSampling.cpp).  Once a second it makes a new table of  *)
(* the process' threads and takes over the cycles already charged by       *)
(* thread id; at each tick a thread that has run is suspended for as long  *)
(* as its registers and stack are copied.                                   *)
(*                                                                         *)
(* Threads are the system's: each is an object with an id, and an id is    *)
(* free again when its object has ended and has no handle.  Other tools    *)
(* suspend and resume threads as well.  Which image a stack is charged to  *)
(* (Walk) is left out.                                                      *)
(***************************************************************************)

CONSTANTS
    Objects,        \* the thread objects that are ever made
    ThreadIds,
    MostSampled,    \* how many threads the table holds
    MinimumCycles,  \* what a thread has run to be sampled
    MaxCycles, MaxRefreshes  \* bounds

ASSUME ImageSamplingAssumption ==
    MostSampled \in Nat \ {0} /\ MinimumCycles \in Nat
        /\ MaxCycles \in Nat /\ MaxRefreshes \in Nat

VARIABLES
    object,         \* [id, life, cycles, suspends] of each object
    foreign,        \* foreign[o]: the suspensions other tools have of it
    samplerPc,
    table, next,    \* m_threads and the one Refresh makes: <<[object, cycles], ...>>
    toOpen,         \* the ids of the snapshot not opened yet
    tick,           \* the entry Tick is at
    taken,          \* the cycles it has taken from that entry
    before, resumed,   \* what SuspendThread and ResumeThread answered
    charged,        \* charged[o]: the cycles charged for the object
    refreshes

samplingVars == <<object, foreign, samplerPc, table, next, toOpen, tick, taken,
                  before, resumed, charged, refreshes>>

\* The old handles closed before the new table is made.
HeldByNext == {e.object : e \in Range(next) \cup (IF samplerPc = "refresh" THEN {} ELSE Range(table))}

HeldObjects == {e.object : e \in Range(table) \cup Range(next)}
CannotSuspend == -1

SamplingStart ==
    /\ object = [o \in Objects |->
                    [id |-> CHOOSE i \in ThreadIds : TRUE, life |-> "unborn",
                     cycles |-> 0, suspends |-> 0]]
    /\ foreign = [o \in Objects |-> 0]
    /\ samplerPc = "tick" /\ table = <<>> /\ next = <<>> /\ toOpen = {}
    /\ tick = 1 /\ taken = 0 /\ before = 0 /\ resumed = 0
    /\ charged = [o \in Objects |-> 0] /\ refreshes = 0

samplerVars == <<samplerPc, table, next, toOpen, tick, taken, before, resumed, charged,
                 refreshes>>

-----------------------------------------------------------------------------
\* The system: an id is used while its object runs or anybody has a handle of it.
InUse(i) == \E o \in Objects : object[o].id = i
                /\ (object[o].life = "running" \/ (object[o].life = "ended" /\ o \in HeldObjects))

CreateThread(o, i) ==
    /\ object[o].life = "unborn" /\ ~InUse(i)
    /\ object' = [object EXCEPT ![o] = [@ EXCEPT !.id = i, !.life = "running"]]
    /\ UNCHANGED <<foreign, samplerVars>>

Running(o) == object[o].life = "running" /\ object[o].suspends = 0

Run(o) ==
    /\ Running(o) /\ object[o].cycles < MaxCycles
    /\ object' = [object EXCEPT ![o].cycles = @ + 1]
    /\ UNCHANGED <<foreign, samplerVars>>

Exit(o) ==
    /\ Running(o) /\ object' = [object EXCEPT ![o].life = "ended"]
    /\ UNCHANGED <<foreign, samplerVars>>

OtherSuspends(o) ==
    /\ object[o].life = "running" /\ foreign[o] = 0
    /\ foreign' = [foreign EXCEPT ![o] = 1]
    /\ object' = [object EXCEPT ![o].suspends = @ + 1]
    /\ UNCHANGED samplerVars

OtherResumes(o) ==
    /\ foreign[o] = 1 /\ foreign' = [foreign EXCEPT ![o] = 0]
    /\ object' = [object EXCEPT ![o].suspends = @ - 1]
    /\ UNCHANGED samplerVars

-----------------------------------------------------------------------------
\* Refresh: a snapshot of the threads' ids, or none, then ReadThread of each, whose
\* handle is of the object that has the id by then; a thread known by its id keeps
\* the cycles charged.  The old handles are closed last.
BeginRefresh ==
    /\ samplerPc = "tick" /\ tick = 1 /\ refreshes < MaxRefreshes
    /\ refreshes' = refreshes + 1 /\ next' = <<>> /\ samplerPc' = "refresh"
    /\ \/ toOpen' = {object[o].id : o \in {p \in Objects : object[p].life = "running"}}
       \/ toOpen' = {}
    /\ UNCHANGED <<object, foreign, table, tick, taken, before, resumed, charged>>

KnownBy(i) == {e \in Range(table) : object[e.object].id = i}

Charged(o) ==
    IF KnownBy(object[o].id) = {} THEN object[o].cycles
    ELSE (CHOOSE e \in KnownBy(object[o].id) : TRUE).cycles

Opened(i) == {o \in Objects : object[o].id = i /\ object[o].life = "running"}

OpenThreadOf(i) ==
    /\ samplerPc = "refresh" /\ i \in toOpen /\ Len(next) < MostSampled
    /\ toOpen' = toOpen \ {i}
    /\ next' = next \o SetToSeq({[object |-> o, cycles |-> Charged(o)] : o \in Opened(i)})
    /\ UNCHANGED <<object, foreign, samplerPc, table, tick, taken, before, resumed, charged,
                   refreshes>>

EndRefresh ==
    /\ samplerPc = "refresh" /\ (toOpen = {} \/ Len(next) = MostSampled)
    /\ table' = next /\ next' = <<>> /\ toOpen' = {}
    /\ samplerPc' = "tick" /\ tick' = 1
    /\ UNCHANGED <<object, foreign, taken, before, resumed, charged, refreshes>>

-----------------------------------------------------------------------------
\* Tick: the cycles of a thread since they were last taken; too few are left for
\* later ticks.
Skip ==
    /\ samplerPc = "tick" /\ tick <= Len(table)
    /\ object[table[tick].object].cycles - table[tick].cycles <= MinimumCycles
    /\ tick' = tick + 1
    /\ UNCHANGED <<object, foreign, samplerPc, table, next, toOpen, taken, before, resumed,
                   charged, refreshes>>

TakeCycles ==
    /\ samplerPc = "tick" /\ tick <= Len(table)
    /\ LET cycles == object[table[tick].object].cycles IN
       /\ cycles - table[tick].cycles > MinimumCycles
       /\ taken' = cycles - table[tick].cycles
       /\ table' = [table EXCEPT ![tick].cycles = cycles]
    /\ samplerPc' = "suspend"
    /\ UNCHANGED <<object, foreign, next, toOpen, tick, before, resumed, charged, refreshes>>

\* Capture: a thread that has ended cannot be suspended.
Suspend ==
    /\ samplerPc = "suspend"
    /\ LET o == table[tick].object IN
       IF object[o].life = "ended"
       THEN before' = CannotSuspend /\ samplerPc' = "charge" /\ UNCHANGED object
       ELSE /\ before' = object[o].suspends /\ samplerPc' = "resume"
            /\ object' = [object EXCEPT ![o].suspends = @ + 1]
    /\ UNCHANGED <<foreign, table, next, toOpen, tick, taken, resumed, charged, refreshes>>

\* What was copied is of no use if another tool held the thread as well.
Resume ==
    /\ samplerPc = "resume" /\ samplerPc' = "charge"
    /\ LET o == table[tick].object IN
       /\ resumed' = object[o].suspends
       /\ object' = [object EXCEPT ![o].suspends = IF @ = 0 THEN 0 ELSE @ - 1]
    /\ UNCHANGED <<foreign, table, next, toOpen, tick, taken, before, charged, refreshes>>

\* The walk may find no image, or fault.
Charge ==
    /\ samplerPc = "charge" /\ samplerPc' = "tick" /\ tick' = tick + 1 /\ taken' = 0
    /\ charged' \in
         IF before = 0 /\ resumed = 1
         THEN {charged, [charged EXCEPT ![table[tick].object] = @ + taken]}
         ELSE {charged}
    /\ before' = 0 /\ resumed' = 0
    /\ UNCHANGED <<object, foreign, table, next, toOpen, refreshes>>

EndTick ==
    /\ samplerPc = "tick" /\ table # <<>> /\ tick = Len(table) + 1 /\ tick' = 1
    /\ UNCHANGED <<object, foreign, samplerPc, table, next, toOpen, taken, before, resumed,
                   charged, refreshes>>

SamplingNext ==
    \/ \E o \in Objects :
         \/ \E i \in ThreadIds : CreateThread(o, i)
         \/ Run(o) \/ Exit(o) \/ OtherSuspends(o) \/ OtherResumes(o)
    \/ BeginRefresh \/ (\E i \in ThreadIds : OpenThreadOf(i)) \/ EndRefresh
    \/ Skip \/ TakeCycles \/ Suspend \/ Resume \/ Charge \/ EndTick

-----------------------------------------------------------------------------
\* The cycles already taken of a thread are ones it has run: those taken over by id
\* are never another thread's, or the difference would wrap around.
TakenWereRun ==
    \A e \in Range(table) \cup Range(next) : e.cycles <= object[e.object].cycles

\* No cycle is charged twice, although threads leave the table and come back.
ChargedOnce ==
    \A o \in Objects :
        LET pending == IF samplerPc \in {"suspend", "resume", "charge"} /\ table[tick].object = o
                       THEN taken ELSE 0
        IN charged[o] + pending <= object[o].cycles

\* The sampler suspends one thread at a time, the one it is copying, and gives back
\* what it took: no thread is left suspended by it, or freed of another's suspension.
SuspensionsAreBalanced ==
    \A o \in Objects :
        object[o].suspends =
            foreign[o] + (IF samplerPc = "resume" /\ table[tick].object = o THEN 1 ELSE 0)

----------------------------------------------------------------------------
(***************************************************************************)
(* ImageSeriesTable (AdImageSeries.h): the counters and gauges kept per    *)
(* image and kind, and how the telemetry worker drains them while other    *)
(* threads record and images are registered.  A drain reports only as many *)
(* rows as there is room for and starts where the last one left off.       *)
(*                                                                         *)
(* One number stands for a row's calls, ticks and bytes.                    *)
(***************************************************************************)

CONSTANTS
    KindIsGauge,    \* <<...>>: for each kind whether it is a gauge
    MostImages,
    SeriesRoom,     \* m_capacity
    Spans,          \* sizes of the buffers a drain is given, at least SeriesRoom
    MaxRecorded     \* bound: the most a counter records, and a gauge shows

ASSUME ImageSeriesAssumption ==
    /\ KindIsGauge \in Seq(BOOLEAN) /\ Len(KindIsGauge) > 0
    /\ MostImages \in Nat /\ SeriesRoom \in Nat \ {0} /\ MaxRecorded \in Nat
    /\ \A n \in Spans : n \in Nat /\ n >= SeriesRoom

VARIABLES
    seriesImages,   \* the number of images registered
    counter, shown, \* m_counters and m_previous, by row
    cursor, seriesOverflow, draining,
    drain,          \* the drain under way: [index, count, offset, room]
    recorded, reported, missed,  \* of each counter: its sum, what was reported, what was lost
    missedRows,     \* whether the worker was told of rows that were missed
    waited          \* of each gauge: the drains that had no room for its change

seriesVars == <<seriesImages, counter, shown, cursor, seriesOverflow, draining, drain,
                recorded, reported, missed, missedRows, waited>>

Kinds == Len(KindIsGauge)
Rows == 0..(MostImages * Kinds) - 1
IsGauge(row) == KindIsGauge[(row % Kinds) + 1]
Zero == [row \in Rows |-> 0]
NoDrain == [index |-> 0, count |-> 0, offset |-> 0, room |-> 0]

SeriesStart ==
    /\ seriesImages \in 1..MostImages
    /\ counter = Zero /\ shown = Zero /\ cursor = 0 /\ seriesOverflow = 0
    /\ draining = FALSE /\ drain = NoDrain
    /\ recorded = Zero /\ reported = Zero /\ missed = Zero /\ waited = Zero
    /\ missedRows = FALSE

Registered(row) == row < seriesImages * Kinds

\* The hooks count a call, or set a gauge.
Record(row) ==
    /\ Registered(row)
    /\ IF IsGauge(row)
       THEN /\ \E n \in 0..MaxRecorded : n # counter[row] /\ counter' = [counter EXCEPT ![row] = n]
            /\ UNCHANGED recorded
       ELSE /\ recorded[row] < MaxRecorded
            /\ recorded' = [recorded EXCEPT ![row] = @ + 1]
            /\ counter' = [counter EXCEPT ![row] = @ + 1]
    /\ UNCHANGED <<seriesImages, shown, cursor, seriesOverflow, draining, drain, reported,
                   missed, missedRows, waited>>

RegisterImage ==
    /\ seriesImages < MostImages /\ seriesImages' = seriesImages + 1
    /\ UNCHANGED <<counter, shown, cursor, seriesOverflow, draining, drain, recorded,
                   reported, missed, missedRows, waited>>

BeginInterval ==
    /\ ~draining /\ draining' = TRUE
    /\ UNCHANGED <<seriesImages, counter, shown, cursor, seriesOverflow, drain, recorded,
                   reported, missed, missedRows, waited>>

\* Each interval's metrics take the overflow, then the series are drained.
BeginDrain ==
    /\ draining /\ drain = NoDrain /\ seriesOverflow = 0
    /\ \E span \in Spans :
         drain' = [index |-> 0, count |-> seriesImages * Kinds, offset |-> 0,
                   room |-> IF span < SeriesRoom THEN span ELSE SeriesRoom]
    /\ UNCHANGED <<seriesImages, counter, shown, cursor, seriesOverflow, draining, recorded,
                   reported, missed, missedRows, waited>>

DrainedRow == (cursor + drain.index) % drain.count
HasNews(row) == IF IsGauge(row) THEN counter[row] # shown[row] ELSE counter[row] # 0

\* A row of the drain: a counter is taken from the table whether or not there is room
\* for it, a gauge that finds none is looked at again by the next drain.
SkipRow ==
    /\ drain.index < drain.count /\ ~HasNews(DrainedRow)
    /\ drain' = [drain EXCEPT !.index = @ + 1]
    /\ waited' = [waited EXCEPT ![DrainedRow] = 0]
    /\ UNCHANGED <<seriesImages, counter, shown, cursor, seriesOverflow, draining, recorded,
                   reported, missed, missedRows>>

Taken(row) == IF IsGauge(row) THEN UNCHANGED counter ELSE counter' = [counter EXCEPT ![row] = 0]

MissRow ==
    /\ drain.index < drain.count /\ HasNews(DrainedRow) /\ drain.offset = drain.room
    /\ seriesOverflow' = seriesOverflow + 1
    /\ Taken(DrainedRow)
    /\ IF IsGauge(DrainedRow)
       THEN waited' = [waited EXCEPT ![DrainedRow] = @ + 1] /\ UNCHANGED missed
       ELSE missed' = [missed EXCEPT ![DrainedRow] = @ + counter[DrainedRow]] /\ UNCHANGED waited
    /\ drain' = [drain EXCEPT !.index = @ + 1]
    /\ UNCHANGED <<seriesImages, shown, cursor, draining, recorded, reported, missedRows>>

ReportRow ==
    /\ drain.index < drain.count /\ HasNews(DrainedRow) /\ drain.offset < drain.room
    /\ Taken(DrainedRow)
    /\ IF IsGauge(DrainedRow)
       THEN /\ shown' = [shown EXCEPT ![DrainedRow] = counter[DrainedRow]]
            /\ waited' = [waited EXCEPT ![DrainedRow] = 0] /\ UNCHANGED reported
       ELSE /\ reported' = [reported EXCEPT ![DrainedRow] = @ + counter[DrainedRow]]
            /\ UNCHANGED <<shown, waited>>
    /\ drain' = [drain EXCEPT !.index = @ + 1, !.offset = @ + 1]
    /\ UNCHANGED <<seriesImages, cursor, seriesOverflow, draining, recorded, missed, missedRows>>

\* Every drain starts with the first image.
EndDrainAtFirst ==
    /\ drain # NoDrain /\ drain.index = drain.count
    /\ cursor' = 0 /\ drain' = NoDrain
    /\ UNCHANGED <<seriesImages, counter, shown, seriesOverflow, draining, recorded, reported,
                   missed, waited, missedRows>>

\* The next drain starts a table's room further on.
EndDrain ==
    /\ drain # NoDrain /\ drain.index = drain.count
    /\ cursor' = (cursor + SeriesRoom) % drain.count
    /\ drain' = NoDrain
    /\ UNCHANGED <<seriesImages, counter, shown, seriesOverflow, draining, recorded, reported,
                   missed, missedRows, waited>>

\* What there was no room for is itself a metric.
TakeOverflow ==
    /\ seriesOverflow > 0 /\ drain = NoDrain
    /\ seriesOverflow' = 0 /\ missedRows' = TRUE
    /\ UNCHANGED <<seriesImages, counter, shown, cursor, draining, drain, recorded, reported,
                   missed, waited>>

SeriesNext ==
    \/ \E row \in Rows : Record(row)
    \/ RegisterImage \/ BeginInterval \/ BeginDrain
    \/ SkipRow \/ MissRow \/ ReportRow \/ EndDrain \/ TakeOverflow

-----------------------------------------------------------------------------
\* What was counted is reported once, still in the table, or lost for want of room,
\* and then the worker is told that rows were.
CountsAreConserved ==
    \A row \in Rows : ~IsGauge(row) =>
        /\ recorded[row] = reported[row] + missed[row] + counter[row]
        /\ missed[row] > 0 => seriesOverflow > 0 \/ missedRows

\* A gauge that has changed is reported before the drains have gone once around the
\* table, however busy the other rows are and whatever images are registered.
NoGaugeStarves ==
    \A row \in Rows : waited[row] * SeriesRoom < MostImages * Kinds

----------------------------------------------------------------------------
(***************************************************************************)
(* What ImageMemory knows of the large blocks that are alive, and which    *)
(* image made each (AdImageMemory.cpp): a hash table with linear probing   *)
(* and backward-shift deletion, and a gauge per image.  One stripe of the  *)
(* table is modelled, for a block never leaves its own; its lock makes an  *)
(* insertion and a removal each one step.                                  *)
(*                                                                         *)
(* The images' calls arrive on several threads.  The allocators are the    *)
(* system's, and other images, whose imports are not patched, free blocks  *)
(* and make their own; a hook entered again on its thread counts as one of *)
(* theirs.  Sizes are in large blocks: 0 is below the threshold.           *)
(***************************************************************************)

CONSTANTS
    Heap, Regions,  \* addresses of heap blocks and of VirtualAlloc's regions
    FirstProbe,           \* FirstProbe[p]: where the probes for an address begin
    StripeLength,
    MemoryImages, MemoryThreads,
    RegionExtent,   \* the reserved size of a region
    Elsewhere,      \* an image whose imports are not patched
    NoBlock,
    MaxMemoryCalls  \* bound: calls in a behaviour

ASSUME LiveBlocksAssumption ==
    /\ StripeLength \in Nat \ {0} /\ RegionExtent \in Nat \ {0}
    /\ FirstProbe \in [Heap \cup Regions -> 0..StripeLength - 1]
    /\ Elsewhere \notin MemoryImages /\ Heap \cap Regions = {}

VARIABLES
    real,           \* real[p]: what is allocated there, [size, by], or NoBlock
    blocks,         \* the table: [pointer, size, image] or NoBlock
    liveBytes, liveCalls, \* the gauges of each image
    blockOverflow,
    memoryCall,     \* each thread's call
    memoryCalls

memoryVars == <<real, blocks, liveBytes, liveCalls, blockOverflow, memoryCall, memoryCalls>>

Addresses == Heap \cup Regions
Positions == 0..StripeLength - 1
Blocks == [pointer : Addresses, size : Nat \ {0}, image : MemoryImages]
NoCall == [op |-> "none", step |-> "idle", pointer |-> NoBlock, size |-> 0,
           image |-> Elsewhere, old |-> NoBlock]

BlockTypeOK ==
    /\ blocks \in [Positions -> Blocks \cup {NoBlock}]
    /\ liveBytes \in [MemoryImages -> Nat] /\ liveCalls \in [MemoryImages -> Nat]
    /\ blockOverflow \in Nat

MemoryStart ==
    /\ real = [p \in Addresses |-> NoBlock] /\ blocks = [i \in Positions |-> NoBlock]
    /\ liveBytes = [i \in MemoryImages |-> 0] /\ liveCalls = liveBytes
    /\ blockOverflow = 0 /\ memoryCalls = 0
    /\ memoryCall = [t \in MemoryThreads |-> NoCall]

-----------------------------------------------------------------------------
Probe(p, k) == (FirstProbe[p] + k) % StripeLength

\* The probes before the first that is empty or has the address: StripeLength if none.
Probes(p) ==
    LET hits == {k \in Positions : blocks[Probe(p, k)] = NoBlock
                                    \/ blocks[Probe(p, k)].pointer = p}
    IN IF hits = {} THEN StripeLength ELSE Min(hits)

PositionOf(p) == Probe(p, Probes(p))
IsIn(p) == Probes(p) < StripeLength /\ blocks[PositionOf(p)] # NoBlock

\* The hole stays.
ShiftedNot(position) == [blocks EXCEPT ![position] = NoBlock]

\* The table after the hole at a position is filled from behind: a block moves into
\* it that is nearer to its home there.
Shifted(position) ==
    LET Fill(state, step) ==
          LET at == (position + step) % StripeLength
              moved == state.blocks[at]
              Distance(i) == ((i + StripeLength) - FirstProbe[moved.pointer]) % StripeLength
          IN IF state.ended \/ moved = NoBlock THEN [state EXCEPT !.ended = TRUE]
             ELSE IF Distance(state.hole) < Distance(at)
             THEN [blocks |-> [state.blocks EXCEPT ![state.hole] = moved, ![at] = NoBlock],
                   hole |-> at, ended |-> FALSE]
             ELSE state
    IN FoldLeft(Fill,
                [blocks |-> [blocks EXCEPT ![position] = NoBlock],
                 hole |-> position, ended |-> FALSE],
                [n \in 1..StripeLength - 1 |-> n]).blocks

CountOf(block, i) == IF block = NoBlock THEN 0 ELSE IF block.image = i THEN 1 ELSE 0
SizeOf(block, i) == IF CountOf(block, i) = 1 THEN block.size ELSE 0

RemoveBlock(p) ==
    IF IsIn(p)
    THEN LET block == blocks[PositionOf(p)] IN
         /\ blocks' = Shifted(PositionOf(p))
         /\ liveBytes' = [i \in MemoryImages |-> liveBytes[i] - SizeOf(block, i)]
         /\ liveCalls' = [i \in MemoryImages |-> liveCalls[i] - CountOf(block, i)]
    ELSE UNCHANGED <<blocks, liveBytes, liveCalls>>

Removable(p) == IF IsIn(p) THEN blocks[PositionOf(p)] ELSE NoBlock

\* A block below the threshold is not inserted, and one whose address is there (its
\* free was not seen) replaces what is.
PutBlock(block) ==
    IF block = NoBlock \/ (block # NoBlock => block.size = 0)
    THEN UNCHANGED <<blocks, liveBytes, liveCalls, blockOverflow>>
    ELSE IF Probes(block.pointer) = StripeLength
    THEN blockOverflow' = blockOverflow + 1 /\ UNCHANGED <<blocks, liveBytes, liveCalls>>
    ELSE LET old == blocks[PositionOf(block.pointer)] IN
         /\ blocks' = [blocks EXCEPT ![PositionOf(block.pointer)] = block]
         /\ liveBytes' = [i \in MemoryImages |-> (liveBytes[i] - SizeOf(old, i)) + SizeOf(block, i)]
         /\ liveCalls' = [i \in MemoryImages |-> (liveCalls[i] - CountOf(old, i)) + CountOf(block, i)]
         /\ UNCHANGED blockOverflow

-----------------------------------------------------------------------------
\* A program frees and resizes what is its own: no two calls are about one block.
Busy(p) == \E t \in MemoryThreads : memoryCall[t].pointer = p

Enter(t, call) ==
    /\ memoryCall[t] = NoCall /\ memoryCalls < MaxMemoryCalls
    /\ memoryCalls' = memoryCalls + 1
    /\ memoryCall' = [memoryCall EXCEPT ![t] = call]
    /\ UNCHANGED <<real, blockOverflow>>

\* Account, up to the call: what is freed or resized is removed first, for the
\* address may be given out again as soon as it is free.
EnterMake(t, i, op, p, n) ==
    /\ op \in {"malloc", "valloc"}
    /\ IF op = "malloc" THEN p = NoBlock ELSE p \in Regions
    /\ Enter(t, [op |-> op, step |-> "invoke", pointer |-> p, size |-> n, image |-> i, old |-> NoBlock])
    /\ UNCHANGED <<blocks, liveBytes, liveCalls>>

\* A decommit removes the region only when it is all of it.
EnterDrop(t, i, op, p, n) ==
    /\ op \in {"free", "realloc", "heaprealloc", "release", "decommit"}
    /\ real[p] # NoBlock /\ ~Busy(p)
    /\ (op \in {"release", "decommit"}) = (p \in Regions)
    /\ op \in {"free", "release"} => n = 0
    /\ LET removes == op = "decommit" => n >= RegionExtent IN
       /\ Enter(t, [op |-> op, step |-> "invoke", pointer |-> p, size |-> n, image |-> i,
                    old |-> IF removes THEN Removable(p) ELSE NoBlock])
       /\ IF removes THEN RemoveBlock(p) ELSE UNCHANGED <<blocks, liveBytes, liveCalls>>

ReturnCall(t) == memoryCall' = [memoryCall EXCEPT ![t] = NoCall]
StepTo(t, step) == memoryCall' = [memoryCall EXCEPT ![t] = step]

\* The system's allocator: it may give any free address, or fail.
InvokeMalloc(t) ==
    LET c == memoryCall[t] IN
    /\ c.op = "malloc" /\ c.step = "invoke"
    /\ \/ ReturnCall(t) /\ UNCHANGED real
       \/ \E p \in Heap :
            /\ real[p] = NoBlock
            /\ real' = [real EXCEPT ![p] = [size |-> c.size, by |-> c.image]]
            /\ StepTo(t, [c EXCEPT !.pointer = p, !.step = "insert",
                                 !.old = [pointer |-> p, size |-> c.size, image |-> c.image]])
    /\ UNCHANGED <<blocks, liveBytes, liveCalls, blockOverflow, memoryCalls>>

\* A block that was not freed or not resized, or whose call raised an exception, is
\* inserted again; realloc of no bytes frees it and answers null.
InvokeFree(t) ==
    LET c == memoryCall[t] IN
    /\ c.op \in {"free", "release"} /\ c.step = "invoke"
    /\ \/ real' = [real EXCEPT ![c.pointer] = NoBlock] /\ ReturnCall(t)
       \/ StepTo(t, [c EXCEPT !.step = "insert"]) /\ UNCHANGED real
    /\ UNCHANGED <<blocks, liveBytes, liveCalls, blockOverflow, memoryCalls>>

InvokeRealloc(t) ==
    LET c == memoryCall[t] IN
    /\ c.op \in {"realloc", "heaprealloc"} /\ c.step = "invoke"
    /\ \/ /\ c.op = "realloc" /\ c.size = 0
          /\ real' = [real EXCEPT ![c.pointer] = NoBlock] /\ ReturnCall(t)
       \/ /\ ~(c.op = "realloc" /\ c.size = 0)
          /\ \/ StepTo(t, [c EXCEPT !.step = "insert"]) /\ UNCHANGED real
             \/ \E p \in Heap :
                  /\ p = c.pointer \/ real[p] = NoBlock
                  /\ real' = [real EXCEPT ![c.pointer] = NoBlock,
                                          ![p] = [size |-> c.size, by |-> c.image]]
                  /\ StepTo(t, [c EXCEPT !.pointer = p, !.step = "insert",
                                       !.old = [pointer |-> p, size |-> c.size, image |-> c.image]])
    /\ UNCHANGED <<blocks, liveBytes, liveCalls, blockOverflow, memoryCalls>>

\* A part of a region is committed; how much then is, is asked of the system.
InvokeVirtualAlloc(t) ==
    LET c == memoryCall[t] IN
    /\ c.op = "valloc" /\ c.step = "invoke"
    /\ \/ ReturnCall(t) /\ UNCHANGED real
       \/ /\ real' = [real EXCEPT ![c.pointer] =
                        IF @ = NoBlock THEN [size |-> c.size, by |-> c.image]
                        ELSE [@ EXCEPT !.size = Max({@, c.size})]]
          /\ StepTo(t, [c EXCEPT !.step = "query"])
    /\ UNCHANGED <<blocks, liveBytes, liveCalls, blockOverflow, memoryCalls>>

QueryRegion(t) ==
    LET c == memoryCall[t] IN
    /\ c.step = "query"
    /\ IF real[c.pointer] = NoBlock \/ real[c.pointer].size = 0 THEN ReturnCall(t)
       ELSE StepTo(t, [c EXCEPT !.step = "renew", !.size = real[c.pointer].size])
    /\ UNCHANGED <<real, blocks, liveBytes, liveCalls, blockOverflow, memoryCalls>>

\* The image that made a region keeps it.
RenewRegion(t) ==
    LET c == memoryCall[t] IN
    /\ c.step = "renew" /\ RemoveBlock(c.pointer)
    /\ StepTo(t, [c EXCEPT !.step = "insert",
                   !.old = [pointer |-> c.pointer, size |-> c.size,
                            image |-> IF IsIn(c.pointer) THEN Removable(c.pointer).image ELSE c.image]])
    /\ UNCHANGED <<real, blockOverflow, memoryCalls>>

InvokeDecommit(t) ==
    LET c == memoryCall[t] IN
    /\ c.op = "decommit" /\ c.step = "invoke"
    /\ \/ /\ real' = [real EXCEPT ![c.pointer].size = Max({0, @ - c.size})] /\ ReturnCall(t)
       \/ StepTo(t, [c EXCEPT !.step = "insert"]) /\ UNCHANGED real
    /\ UNCHANGED <<blocks, liveBytes, liveCalls, blockOverflow, memoryCalls>>

InsertBlock(t) ==
    /\ memoryCall[t].step = "insert" /\ PutBlock(memoryCall[t].old) /\ ReturnCall(t)
    /\ UNCHANGED <<real, memoryCalls>>

\* Another image's code frees a block, or makes one.
FreeElsewhere(p) ==
    /\ real[p] # NoBlock /\ ~Busy(p) /\ real' = [real EXCEPT ![p] = NoBlock]
    /\ UNCHANGED <<blocks, liveBytes, liveCalls, blockOverflow, memoryCall, memoryCalls>>

MakeElsewhere(p) ==
    /\ real[p] = NoBlock /\ memoryCalls < MaxMemoryCalls /\ memoryCalls' = memoryCalls + 1
    /\ real' = [real EXCEPT ![p] = [size |-> 1, by |-> Elsewhere]]
    /\ UNCHANGED <<blocks, liveBytes, liveCalls, blockOverflow, memoryCall>>

MemoryNext ==
    \/ \E t \in MemoryThreads :
         \/ \E i \in MemoryImages, n \in 0..RegionExtent :
              \/ \E op \in {"malloc", "valloc"}, p \in Regions \cup {NoBlock} :
                   EnterMake(t, i, op, p, n)
              \/ \E op \in {"free", "realloc", "heaprealloc", "release", "decommit"},
                    p \in Addresses : EnterDrop(t, i, op, p, n)
         \/ InvokeMalloc(t) \/ InvokeFree(t) \/ InvokeRealloc(t) \/ InvokeVirtualAlloc(t)
         \/ QueryRegion(t) \/ RenewRegion(t) \/ InvokeDecommit(t) \/ InsertBlock(t)
    \/ \E p \in Heap : FreeElsewhere(p) \/ MakeElsewhere(p)

-----------------------------------------------------------------------------
Entries == {i \in Positions : blocks[i] # NoBlock}

\* However blocks come and go, every one in the table is found by its probes and none
\* is there twice: a removal leaves no gap before a block that was pushed on.
ChainsAreUnbroken ==
    \A i \in Entries : IsIn(blocks[i].pointer) /\ PositionOf(blocks[i].pointer) = i

\* The gauges of an image are the blocks the table has of it.
GaugesAddUp ==
    \A image \in MemoryImages :
        LET of == {i \in Entries : blocks[i].image = image} IN
        /\ liveCalls[image] = Cardinality(of)
        /\ liveBytes[image] = FoldSet(LAMBDA i, sum : sum + blocks[i].size, 0, of)

\* A large heap block that a patched image made is in the table, with its size, unless
\* the table has overflowed; a failed free, a failed resize and an exception lose
\* nothing, and no other thread's block at the address freed is taken for it.
LiveBlocksAreKnown ==
    blockOverflow = 0 =>
        \A p \in Heap :
            /\ ~Busy(p) /\ real[p] # NoBlock
            /\ real[p] # NoBlock => real[p].by # Elsewhere /\ real[p].size > 0
            => IsIn(p) /\ Removable(p).size = real[p].size /\ Removable(p).image = real[p].by
===============================================================================
