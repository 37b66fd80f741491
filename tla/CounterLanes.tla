----------------------------- MODULE CounterLanes -----------------------------
(***************************************************************************)
(* How OperationProfileSource (AdOperationProfile.cpp) counts every        *)
(* operation, sampled or not, without a locked instruction: a thread owns  *)
(* one of a few lanes for its life, and writes its lane's value and the    *)
(* generation of the capture the value is of with plain stores.  The hub   *)
(* adds up the lanes of the capture's generation while they are written.   *)
(* Before that the source is constructed from a configuration, with its    *)
(* records divided among shards.  What a sampled operation does next is    *)
(* OperationProfile's; operations are all of one descriptor here.          *)
(***************************************************************************)
EXTENDS Integers, Sequences, FiniteSets, FiniteSetsExt

CONSTANTS
    LaneThreads,      \* threads there can be at once; ended, another may come
    LaneCount,        \* kCounterLanes
    Configurations,   \* [records, shards, bounds] a source may be given
    Profiled,         \* the one whose source is used
    LongestTime,      \* of uint64_t, in nanoseconds
    Second, Frequency,\* nanoseconds and ticks in a second
    MaxTicks,         \* bounds the durations
    MaxCaptures,      \* bounds the captures
    MaxCounted        \* bounds the operations of a capture

ASSUME LanesAssumption ==
    /\ LaneCount \in Nat \ {0} /\ Second \in Nat \ {0} /\ Frequency \in Nat \ {0}
    /\ LongestTime \in Nat \ {0} /\ MaxTicks \in Nat /\ MaxCaptures \in Nat
    /\ IsFiniteSet(LaneThreads) /\ Profiled \in Configurations
    /\ \A config \in Configurations :
          config.records \in Nat /\ config.shards \in Nat /\ config.bounds \in Seq(Nat)

VARIABLES
    source,           \* [config, valid, spans]: the source and its shards
    captureOf,        \* [generation, open] of m_currentCapture; generation 0: none
    owned,            \* s_counterLaneOwners
    lanes,            \* of every lane, [value, generation]: m_allOperations
    threads,          \* of every thread, [life, at, lane, seen]: it is new, or has
                      \* SamplingState; where in Begin it is; its lane; the generation read
    reading,          \* AllOperationCount: [at, lane, value, count]
    counts            \* for the properties: [begun, done, dropped] of every capture,
                      \* the least the reader must find, and whether an operation that
                      \* outlasted its capture has taken a lane of a later one

laneVars == <<source, captureOf, owned, lanes, threads, reading, counts>>

LaneIndices == 1..LaneCount
NoLane == LaneCount + 1

-----------------------------------------------------------------------------
(* OperationProfileSource::OperationProfileSource and ValidConfiguration.    *)

\* The first bucket is for no time at all, the last for any.  Names are valid and
\* no two descriptors' the same; memory may be short, and there is no source then.
BoundsAscend(bounds) ==
    /\ bounds # <<>> /\ bounds[1] = 0 /\ bounds[Len(bounds)] = LongestTime
    /\ \A i \in 2..Len(bounds) : bounds[i - 1] < bounds[i]

ValidConfiguration(config) ==
    /\ BoundsAscend(config.bounds)
    /\ config.records > 0 /\ config.shards > 0 /\ config.shards <= config.records

\* Mutant: what is left over after the division is nobody's.
ShardSpansEven(records, shards) ==
    [i \in 1..shards |-> [offset |-> (i - 1) * (records \div shards),
                          capacity |-> records \div shards]]

\* The first shards have one record more if the records cannot be divided evenly.
ShardSpans(records, shards) ==
    LET base == records \div shards
        more == records % shards
    IN  [i \in 1..shards |->
            [offset |-> (i - 1) * base + Min({i - 1, more}),
             capacity |-> base + (IF i <= more THEN 1 ELSE 0)]]

NoSource == [config |-> Profiled, valid |-> FALSE, spans |-> <<>>]

Construct(config) ==
    /\ source = NoSource
    /\ ValidConfiguration(config)
    /\ source' = [config |-> config, valid |-> TRUE,
                  spans |-> ShardSpans(config.records, config.shards)]
    /\ UNCHANGED <<captureOf, owned, lanes, threads, reading, counts>>

\* QpcTicksToNanosecondsSaturated.
Nanoseconds(ticks) ==
    Min({LongestTime, (ticks * Second + Frequency - 1) \div Frequency})

DurationBucketIndex(bounds, ticks) ==
    Min({i \in DOMAIN bounds : Nanoseconds(ticks) <= bounds[i]} \cup {Len(bounds)})

-----------------------------------------------------------------------------
NewThread == [life |-> "new", at |-> "idle", lane |-> NoLane, seen |-> 0]

LanesInit ==
    /\ source = NoSource
    /\ captureOf = [generation |-> 0, open |-> FALSE]
    /\ owned = [l \in LaneIndices |-> FALSE]
    /\ lanes = [l \in LaneIndices |-> [value |-> 0, generation |-> 0]]
    /\ threads = [t \in LaneThreads |-> NewThread]
    /\ reading = [at |-> "idle", lane |-> 1, value |-> 0, count |-> 0]
    /\ counts = [begun |-> [g \in 1..MaxCaptures |-> 0], done |-> [g \in 1..MaxCaptures |-> 0],
                 dropped |-> [g \in 1..MaxCaptures |-> 0], least |-> 0, overtaken |-> FALSE]

\* StartCapture and CloseCaptureAdmission.  The hub reads its counts on the worker,
\* or on the thread that starts it before it does: never while a capture starts.
OpenCapture ==
    /\ source.valid /\ source.config = Profiled
    /\ ~captureOf.open /\ captureOf.generation < MaxCaptures /\ reading.at = "idle"
    /\ captureOf' = [generation |-> captureOf.generation + 1, open |-> TRUE]
    /\ UNCHANGED <<source, owned, lanes, threads, reading, counts>>

CloseCapture ==
    /\ captureOf.open
    /\ captureOf' = [captureOf EXCEPT !.open = FALSE]
    /\ UNCHANGED <<source, owned, lanes, threads, reading, counts>>

-----------------------------------------------------------------------------
(* Begin, up to the decision to sample.                                      *)

Goes(t, at) == threads' = [threads EXCEPT ![t].at = at]
At(t, at) == threads[t].at = at
OwnLane(t) == threads[t].lane
Tally(field, g) == counts' = [counts EXCEPT ![field][g] = @ + 1]

LoadGenerationFirst(t) ==
    /\ At(t, "idle") /\ captureOf.open
    /\ counts.begun[captureOf.generation] < MaxCounted
    /\ threads' = [threads EXCEPT ![t].seen = captureOf.generation,
                                  ![t].at = IF threads[t].life = "new" THEN "take" ELSE "check",
                                  ![t].lane = IF threads[t].life = "new" THEN 1 ELSE @]
    /\ Tally("begun", captureOf.generation)
    /\ UNCHANGED <<source, captureOf, owned, lanes, reading>>

\* SamplingState::SamplingState: the first lane that is not owned, or none, and a
\* thread that found none looks no more.
TakeLane(t) ==
    /\ At(t, "take")
    /\ LET l == OwnLane(t) IN
       IF owned[l]
       THEN /\ threads' = [threads EXCEPT ![t].lane = l + 1,
                                          ![t].life = IF l = LaneCount THEN "known" ELSE @,
                                          ![t].at = IF l = LaneCount THEN "check" ELSE @]
            /\ UNCHANGED owned
       ELSE /\ owned' = [owned EXCEPT ![l] = TRUE]
            /\ threads' = [threads EXCEPT ![t].life = "known", ![t].at = "check"]
    /\ UNCHANGED <<source, captureOf, lanes, reading, counts>>

\* Without a lane the operation is dropped, and counted as that.
CheckLane(t) ==
    /\ At(t, "check")
    /\ IF OwnLane(t) = NoLane
       THEN Goes(t, "idle") /\ Tally("dropped", threads[t].seen)
       ELSE /\ Goes(t, IF lanes[OwnLane(t)].generation # threads[t].seen THEN "clear" ELSE "add")
            /\ UNCHANGED counts
    /\ UNCHANGED <<source, captureOf, owned, lanes, reading>>

\* The value is of no capture while it is set.
ClearLane(t) ==
    /\ At(t, "clear")
    /\ lanes' = [lanes EXCEPT ![OwnLane(t)].generation = 0]
    /\ counts' = [counts EXCEPT !.overtaken = @ \/ lanes[OwnLane(t)].generation > threads[t].seen]
    /\ Goes(t, "set")
    /\ UNCHANGED <<source, captureOf, owned, reading>>

\* Mutant: the generation is stored before the value.
SetFirstNamed(lane, g) == [lane EXCEPT !.generation = g]
SetFirst(lane, g) == [lane EXCEPT !.value = 1]

SetLane(t) ==
    /\ At(t, "set")
    /\ lanes' = [lanes EXCEPT ![OwnLane(t)] = SetFirst(@, threads[t].seen)]
    /\ Goes(t, "name")
    /\ UNCHANGED <<source, captureOf, owned, reading, counts>>

NameLane(t) ==
    /\ At(t, "name")
    /\ lanes' = [lanes EXCEPT ![OwnLane(t)] = [value |-> 1, generation |-> threads[t].seen]]
    /\ Goes(t, "idle") /\ Tally("done", threads[t].seen)
    /\ UNCHANGED <<source, captureOf, owned, reading>>

\* Nobody else writes the lane: a load and a store are as good as one step.
AddInLane(t) ==
    /\ At(t, "add")
    /\ lanes' = [lanes EXCEPT ![OwnLane(t)].value = @ + 1]
    /\ Goes(t, "idle") /\ Tally("done", threads[t].seen)
    /\ UNCHANGED <<source, captureOf, owned, reading>>

\* Mutant: the lane is kept by a thread that is gone.
ReleasedNever(l) == owned
\* SamplingState::~SamplingState: the operations of the thread's later destructors
\* are suppressed.  Another thread may come.
Released(l) == IF l = NoLane THEN owned ELSE [owned EXCEPT ![l] = FALSE]

EndThread(t) ==
    /\ At(t, "idle") /\ threads[t].life = "known"
    /\ owned' = Released(OwnLane(t))
    /\ threads' = [threads EXCEPT ![t] = NewThread]
    /\ UNCHANGED <<source, captureOf, lanes, reading, counts>>

-----------------------------------------------------------------------------
(* AllOperationCount: lane after lane, the generation before and after.      *)

StartCounting ==
    /\ reading.at = "idle" /\ captureOf.generation > 0
    /\ reading' = [at |-> "generation", lane |-> 1, value |-> 0, count |-> 0]
    /\ counts' = [counts EXCEPT !.least = counts.done[captureOf.generation]]
    /\ UNCHANGED <<source, captureOf, owned, lanes, threads>>

NextLane(count) ==
    reading' = [at |-> IF reading.lane = LaneCount THEN "counted" ELSE "generation",
                lane |-> reading.lane + 1, value |-> 0, count |-> count]

IsOfCapture(l) == lanes[l].generation = captureOf.generation

ReadLane ==
    /\ \/ /\ reading.at = "generation"
          /\ IF IsOfCapture(reading.lane) THEN reading' = [reading EXCEPT !.at = "value"]
             ELSE NextLane(reading.count)
       \/ /\ reading.at = "value"
          /\ reading' = [reading EXCEPT !.at = "again", !.value = lanes[reading.lane].value]
       \/ /\ reading.at = "again"
          /\ NextLane(reading.count + (IF IsOfCapture(reading.lane) THEN reading.value ELSE 0))
    /\ UNCHANGED <<source, captureOf, owned, lanes, threads, counts>>

ReportCount ==
    /\ reading.at = "counted"
    /\ reading' = [at |-> "idle", lane |-> 1, value |-> 0, count |-> 0]
    /\ UNCHANGED <<source, captureOf, owned, lanes, threads, counts>>

LanesNext ==
    \/ \E config \in Configurations : Construct(config)
    \/ OpenCapture \/ CloseCapture
    \/ StartCounting \/ ReadLane \/ ReportCount
    \/ \E t \in LaneThreads :
          \/ LoadGenerationFirst(t) \/ TakeLane(t) \/ CheckLane(t)
          \/ ClearLane(t) \/ SetLane(t) \/ NameLane(t) \/ AddInLane(t)
          \/ EndThread(t)

LanesSpec == LanesInit /\ [][LanesNext]_laneVars

-----------------------------------------------------------------------------
(* Properties.                                                               *)

\* A lane is owned exactly while one thread has it.
LanesHaveOneOwner ==
    \A l \in LaneIndices :
        Cardinality({t \in LaneThreads : threads[t].life = "known" /\ OwnLane(t) = l})
            = (IF owned[l] THEN 1 ELSE 0)

\* What is reported of a capture is at most what was begun in it and at least what was
\* counted when the addition began, no matter which captures the lanes and their owners
\* have seen before, unless a thread that read the generation of an earlier capture has
\* since taken over the lane of one that ended.  Then counts are lost, and an addition
\* that meets the lane can find what several such threads counted there.
CountIsOfCapture ==
    reading.at = "counted" =>
        \/ counts.overtaken
        \/ reading.count \in counts.least..counts.begun[captureOf.generation]

\* Every operation begun is counted, dropped, or on its way.
NoOperationForgotten ==
    \A g \in 1..MaxCaptures :
        counts.begun[g] = counts.done[g] + counts.dropped[g]
                          + Cardinality({t \in LaneThreads : ~At(t, "idle") /\ threads[t].seen = g})

\* Of a source, before it is used: the shards are the records, each with room and
\* none with another's; a duration has a bucket no earlier than a shorter one's, and
\* only none has the first.
SourceIsSound ==
    source.valid /\ captureOf.generation = 0 =>
        /\ \A r \in 0..source.config.records - 1 :
              Cardinality({i \in DOMAIN source.spans :
                  r - source.spans[i].offset \in 0..source.spans[i].capacity - 1}) = 1
        /\ \A i \in DOMAIN source.spans : source.spans[i].capacity > 0
        /\ LET bucket == [ticks \in 0..MaxTicks |-> DurationBucketIndex(source.config.bounds, ticks)]
           IN  \A ticks \in 1..MaxTicks : bucket[ticks - 1] <= bucket[ticks] /\ bucket[ticks] > 1
=============================================================================
