--------------------------- MODULE OperationProfile ---------------------------
(***************************************************************************)
(* The sampling profiler of Addictol (Telemetry/AdOperationProfile).  Game  *)
(* threads call Begin and End around an operation; the thread that owns     *)
(* TelemetryHub starts and closes captures; the hub's worker thread drains  *)
(* the published records.  Begin and End never block: they pin one of a     *)
(* few reusable capture slots, try_lock a publication shard, and count      *)
(* whatever they give up.                                                   *)
(*                                                                         *)
(* An element of Ops is one Begin .. End pair at a time: the thread that    *)
(* calls Begin, then whoever holds the token, then the thread that calls    *)
(* End.  Every access to a shared atomic that another thread can tell apart *)
(* is a step of its own; atomics are sequentially consistent here.          *)
(***************************************************************************)
EXTENDS Integers, FiniteSets

CONSTANTS
  Ops,           \* operations in flight, each a Begin .. End pair
  SlotCount,     \* kCaptureStateCount
  ShardCount,    \* m_publicationShardCount
  Capacity,      \* PublicationShard::capacity, by shard
  NoSlot,        \* a null m_currentCapture
  Owner,         \* the thread that calls TelemetryHub::Start and Stop
  Worker,        \* TelemetryHub's worker thread
  Nobody,        \* the owner of a free shard mutex
  MaxGeneration, \* bound: no capture is started beyond this generation
  MaxBegins      \* bound: calls of Begin

Slots == 0 .. SlotCount - 1
Shards == 0 .. ShardCount - 1
Controllers == {Owner, Worker}

ASSUME SizesAssumption ==
  /\ IsFiniteSet(Ops)
  /\ SlotCount \in Nat \ {0}
  /\ ShardCount \in Nat \ {0}
  /\ Capacity \in [Shards -> Nat \ {0}]
  /\ MaxGeneration \in Nat
  /\ MaxBegins \in Nat

ASSUME NamesAssumption ==
  /\ NoSlot \notin Slots
  /\ Owner # Worker
  /\ Nobody \notin Ops \cup Controllers
  /\ Ops \cap Controllers = {}

(* OperationProfileQuality: what a capture slot counts. *)
Qualities == {"sampledAdmissions", "acceptedRecords", "admissionContentionDrops",
              "publicationContentionDrops", "capacityDrops", "staleTokens",
              "suppressedOperations", "unfinishedOperations", "invalidResults",
              "producerCapacityDrops"}

VARIABLES
  activeBegins,    \* CaptureState::activeBegins: pins held by Begin
  activeSampled,   \* CaptureState::activeSampled: tokens not yet retired
  admissionOpen,   \* CaptureState::admissionOpen
  generation,      \* CaptureState::generation
  counters,        \* CaptureState::counters
  currentCapture,  \* m_currentCapture
  nextGeneration,  \* s_nextCaptureGeneration
  shardOwner,      \* who holds PublicationShard::mutex
  shardCount,      \* PublicationShard::count, the records a shard holds
  intervalCalls,   \* calls in m_intervalBuckets
  reported,        \* calls of this capture that the worker drained as series
  discarded,       \* calls of this capture that ClearIntervals threw away
  opPc, opSlot, opGeneration, opShard, opReason, \* Begin's and End's locals
  ctlPc,           \* where Owner and Worker are
  candidate,       \* StartCapture's loop variable
  drainShard,      \* Drain's loop variable, by controller
  finalCollect,    \* the worker left its loop and collects a last time
  begins           \* calls of Begin so far, for the bound

slotVars == <<activeBegins, activeSampled, admissionOpen, generation, counters>>
shardVars == <<shardOwner, shardCount>>
seriesVars == <<intervalCalls, reported, discarded>>
opVars == <<opPc, opSlot, opGeneration, opShard, opReason, begins>>
ctlVars == <<ctlPc, candidate, drainShard, finalCollect>>
captureVars == <<currentCapture, nextGeneration>>
vars == <<slotVars, captureVars, shardVars, seriesVars, opVars, ctlVars>>

(* Where an operation is.  A pin is valid from the moment CapturePin::valid *)
(* is known true until the pin is dropped or has become a token.            *)
ValidPinPcs == {"countDrop", "lockToAdmit", "recheckAdmit", "admit"}
PinPcs == {"pinGeneration", "pinOpen", "unpin", "unpinHolding"} \cup ValidPinPcs
UnresolvedPcs == {"unpinHolding", "holding", "checkResult", "recheckPublish", "append"}
TokenPcs == UnresolvedPcs \cup {"retire"}
ShardPcs == {"recheckAdmit", "admit", "recheckPublish", "append"}
OpPcs == {"idle", "loadOpen", "loadGeneration", "decide"} \cup PinPcs \cup TokenPcs

StartPcs == {"scan", "invalidate", "recheckPins", "reset", "open", "install"}
OwnerPcs == {"stopped", "lockToStart", "running", "lockToClose", "measure", "joining",
             "drainLock", "drainTake", "drainSeries"} \cup StartPcs
WorkerPcs == {"off", "idle", "lockToClose", "measure",
              "drainLock", "drainTake", "drainSeries"}

At(pcs, s) == {op \in Ops : opPc[op] \in pcs /\ opSlot[op] = s}
Pinned(s) == At(PinPcs, s)
Holding(s) == At(TokenPcs, s)
Unresolved(s) == At(UnresolvedPcs, s)

Init ==
  /\ activeBegins = [s \in Slots |-> 0]
  /\ activeSampled = [s \in Slots |-> 0]
  /\ admissionOpen = [s \in Slots |-> FALSE]
  /\ generation = [s \in Slots |-> 0]
  /\ counters = [s \in Slots |-> [q \in Qualities |-> 0]]
  /\ currentCapture = NoSlot
  /\ nextGeneration = 1
  /\ shardOwner = [h \in Shards |-> Nobody]
  /\ shardCount = [h \in Shards |-> 0]
  /\ intervalCalls = 0 /\ reported = 0 /\ discarded = 0
  /\ opPc = [op \in Ops |-> "idle"]
  /\ opSlot = [op \in Ops |-> 0]
  /\ opGeneration = [op \in Ops |-> 0]
  /\ opShard = [op \in Ops |-> 0]
  /\ opReason = [op \in Ops |-> "sample"]
  /\ ctlPc = [c \in Controllers |-> IF c = Owner THEN "stopped" ELSE "off"]
  /\ candidate = 0
  /\ drainShard = [c \in Controllers |-> 0]
  /\ finalCollect = FALSE
  /\ begins = 0

Goto(op, pc) == opPc' = [opPc EXCEPT ![op] = pc]
GotoCtl(c, pc) == ctlPc' = [ctlPc EXCEPT ![c] = pc]
Count(s, q) == counters' = [counters EXCEPT ![s][q] = @ + 1]
Acquire(t, h) == shardOwner[h] = Nobody /\ shardOwner' = [shardOwner EXCEPT ![h] = t]
Release(h) == shardOwner' = [shardOwner EXCEPT ![h] = Nobody]

-----------------------------------------------------------------------------
(* OperationProfileSource::Begin *)

(* Reads m_currentCapture; a null capture returns an empty token.            *)
LoadCapture(op) ==
  /\ opPc[op] = "idle"
  /\ begins < MaxBegins
  /\ currentCapture # NoSlot
  /\ opSlot' = [opSlot EXCEPT ![op] = currentCapture]
  /\ begins' = begins + 1
  /\ Goto(op, "loadOpen")
  /\ UNCHANGED <<slotVars, captureVars, shardVars, seriesVars, ctlVars,
                 opGeneration, opShard, opReason>>

LoadOpen(op) ==
  /\ opPc[op] = "loadOpen"
  /\ Goto(op, IF admissionOpen[opSlot[op]] THEN "loadGeneration" ELSE "idle")
  /\ UNCHANGED <<slotVars, captureVars, shardVars, seriesVars, ctlVars,
                 opSlot, opGeneration, opShard, opReason, begins>>

LoadGeneration(op) ==
  /\ opPc[op] = "loadGeneration"
  /\ opGeneration' = [opGeneration EXCEPT ![op] = generation[opSlot[op]]]
  /\ Goto(op, "decide")
  /\ UNCHANGED <<slotVars, captureVars, shardVars, seriesVars, ctlVars,
                 opSlot, opShard, opReason, begins>>

(* Suppressed threads, threads without a counter lane and sampled operations *)
(* go on to CapturePin; an operation that is not sampled returns (it has     *)
(* counted itself in its thread's lane, which no other step here reads).     *)
Decide(op) ==
  /\ opPc[op] = "decide"
  /\ \/ /\ \E reason \in {"suppressed", "noLane", "sample"} :
             opReason' = [opReason EXCEPT ![op] = reason]
        /\ activeBegins' = [activeBegins EXCEPT ![opSlot[op]] = @ + 1]
        /\ Goto(op, "pinGeneration")
     \/ /\ Goto(op, "idle")
        /\ UNCHANGED <<activeBegins, opReason>>
  /\ UNCHANGED <<activeSampled, admissionOpen, generation, counters, captureVars,
                 shardVars, seriesVars, ctlVars, opSlot, opGeneration, opShard, begins>>

(* CapturePin::valid is two loads: the generation, then admissionOpen.       *)
PinGeneration(op) ==
  /\ opPc[op] = "pinGeneration"
  /\ Goto(op, IF generation[opSlot[op]] = opGeneration[op] THEN "pinOpen" ELSE "unpin")
  /\ UNCHANGED <<slotVars, captureVars, shardVars, seriesVars, ctlVars,
                 opSlot, opGeneration, opShard, opReason, begins>>

PinOpen(op) ==
  /\ opPc[op] = "pinOpen"
  /\ Goto(op, CASE ~admissionOpen[opSlot[op]] -> "unpin"
                [] admissionOpen[opSlot[op]] /\ opReason[op] = "sample" -> "lockToAdmit"
                [] admissionOpen[opSlot[op]] /\ opReason[op] # "sample" -> "countDrop")
  /\ UNCHANGED <<slotVars, captureVars, shardVars, seriesVars, ctlVars,
                 opSlot, opGeneration, opShard, opReason, begins>>

CountDrop(op) ==
  /\ opPc[op] = "countDrop"
  /\ Count(opSlot[op], IF opReason[op] = "suppressed" THEN "suppressedOperations"
                                                     ELSE "producerCapacityDrops")
  /\ Goto(op, "unpin")
  /\ UNCHANGED <<activeBegins, activeSampled, admissionOpen, generation, captureVars,
                 shardVars, seriesVars, ctlVars, opSlot, opGeneration, opShard,
                 opReason, begins>>

(* Mutant: a lock that waits in place of a try_lock.                         *)
LockToAdmitWaiting(op) ==
  /\ opPc[op] = "lockToAdmit"
  /\ \E h \in Shards :
       opShard' = [opShard EXCEPT ![op] = h] /\ Acquire(op, h)
  /\ Goto(op, "recheckAdmit")
  /\ UNCHANGED <<slotVars, captureVars, shardCount, seriesVars, ctlVars, opSlot,
                 opGeneration, opReason, begins>>

(* Mutants: admission is not looked at again; the shard stays locked.        *)
RecheckAdmitWithoutOpen(op) ==
  /\ opPc[op] = "recheckAdmit"
  /\ IF currentCapture = opSlot[op] /\ generation[opSlot[op]] = opGeneration[op]
       THEN Goto(op, "admit") /\ UNCHANGED shardOwner
       ELSE Goto(op, "unpin") /\ Release(opShard[op])
  /\ UNCHANGED <<slotVars, captureVars, shardCount, seriesVars, ctlVars,
                 opSlot, opGeneration, opShard, opReason, begins>>

RecheckAdmitWithoutUnlock(op) ==
  /\ opPc[op] = "recheckAdmit"
  /\ Goto(op, IF currentCapture = opSlot[op] /\ admissionOpen[opSlot[op]]
                THEN "admit" ELSE "unpin")
  /\ UNCHANGED <<slotVars, captureVars, shardVars, seriesVars, ctlVars,
                 opSlot, opGeneration, opShard, opReason, begins>>

(* try_lock of the shard the sampling hash selects.                          *)
LockToAdmit(op) ==
  /\ opPc[op] = "lockToAdmit"
  /\ \E h \in Shards :
       /\ opShard' = [opShard EXCEPT ![op] = h]
       /\ \/ /\ Acquire(op, h)
             /\ Goto(op, "recheckAdmit")
             /\ UNCHANGED counters
          \/ /\ shardOwner[h] # Nobody
             /\ Count(opSlot[op], "admissionContentionDrops")
             /\ Goto(op, "unpin")
             /\ UNCHANGED shardOwner
  /\ UNCHANGED <<activeBegins, activeSampled, admissionOpen, generation, captureVars,
                 shardCount, seriesVars, ctlVars, opSlot, opGeneration, opReason, begins>>

RecheckAdmit(op) ==
  /\ opPc[op] = "recheckAdmit"
  /\ IF /\ currentCapture = opSlot[op]
        /\ generation[opSlot[op]] = opGeneration[op]
        /\ admissionOpen[opSlot[op]]
       THEN Goto(op, "admit") /\ UNCHANGED shardOwner
       ELSE Goto(op, "unpin") /\ Release(opShard[op])
  /\ UNCHANGED <<slotVars, captureVars, shardCount, seriesVars, ctlVars,
                 opSlot, opGeneration, opShard, opReason, begins>>

(* Mutant: the token is not entered in activeSampled.                        *)
AdmitUncounted(op) ==
  /\ opPc[op] = "admit"
  /\ Count(opSlot[op], "sampledAdmissions")
  /\ Release(opShard[op])
  /\ Goto(op, "unpinHolding")
  /\ UNCHANGED <<activeBegins, activeSampled, admissionOpen, generation, captureVars,
                 shardCount, seriesVars, ctlVars, opSlot, opGeneration, opShard,
                 opReason, begins>>

(* Both counters move under the shard's mutex; StartCapture and              *)
(* CloseCaptureAdmission, which compare them, hold every shard's mutex.      *)
Admit(op) ==
  /\ opPc[op] = "admit"
  /\ activeSampled' = [activeSampled EXCEPT ![opSlot[op]] = @ + 1]
  /\ Count(opSlot[op], "sampledAdmissions")
  /\ Release(opShard[op])
  /\ Goto(op, "unpinHolding")
  /\ UNCHANGED <<activeBegins, admissionOpen, generation, captureVars, shardCount,
                 seriesVars, ctlVars, opSlot, opGeneration, opShard, opReason, begins>>

(* ~CapturePin, on every return of Begin after the pin.                      *)
Unpin(op) ==
  /\ opPc[op] \in {"unpin", "unpinHolding"}
  /\ activeBegins' = [activeBegins EXCEPT ![opSlot[op]] = @ - 1]
  /\ Goto(op, IF opPc[op] = "unpin" THEN "idle" ELSE "holding")
  /\ UNCHANGED <<activeSampled, admissionOpen, generation, counters, captureVars,
                 shardVars, seriesVars, ctlVars, opSlot, opGeneration, opShard,
                 opReason, begins>>

-----------------------------------------------------------------------------
(* OperationProfileSource::Publish, the body of End and EndWithDuration.     *)
(* Every way out counts the token's outcome and then retires the token.      *)

EndToken(op) ==
  /\ opPc[op] = "holding"
  /\ IF admissionOpen[opSlot[op]]
       THEN Goto(op, "checkResult") /\ UNCHANGED counters
       ELSE Goto(op, "retire") /\ Count(opSlot[op], "staleTokens")
  /\ UNCHANGED <<activeBegins, activeSampled, admissionOpen, generation, captureVars,
                 shardVars, seriesVars, ctlVars, opSlot, opGeneration, opShard,
                 opReason, begins>>

(* Mutant: a token that turns stale while it waits is dropped uncounted.     *)
RecheckPublishUncounted(op) ==
  /\ opPc[op] = "recheckPublish"
  /\ IF currentCapture = opSlot[op] /\ admissionOpen[opSlot[op]]
       THEN Goto(op, "append") /\ UNCHANGED shardOwner
       ELSE Goto(op, "retire") /\ Release(opShard[op])
  /\ UNCHANGED <<slotVars, captureVars, shardCount, seriesVars, ctlVars,
                 opSlot, opGeneration, opShard, opReason, begins>>

(* The caller's result descriptor may be invalid; else try_lock.             *)
CheckResult(op) ==
  /\ opPc[op] = "checkResult"
  /\ \/ /\ Count(opSlot[op], "invalidResults")
        /\ Goto(op, "retire")
        /\ UNCHANGED shardOwner
     \/ /\ shardOwner[opShard[op]] # Nobody
        /\ Count(opSlot[op], "publicationContentionDrops")
        /\ Goto(op, "retire")
        /\ UNCHANGED shardOwner
     \/ /\ Acquire(op, opShard[op])
        /\ Goto(op, "recheckPublish")
        /\ UNCHANGED counters
  /\ UNCHANGED <<activeBegins, activeSampled, admissionOpen, generation, captureVars,
                 shardCount, seriesVars, ctlVars, opSlot, opGeneration, opShard,
                 opReason, begins>>

RecheckPublish(op) ==
  /\ opPc[op] = "recheckPublish"
  /\ IF currentCapture = opSlot[op] /\ admissionOpen[opSlot[op]]
       THEN Goto(op, "append") /\ UNCHANGED <<counters, shardOwner>>
       ELSE /\ Count(opSlot[op], "staleTokens")
            /\ Release(opShard[op])
            /\ Goto(op, "retire")
  /\ UNCHANGED <<activeBegins, activeSampled, admissionOpen, generation, captureVars,
                 shardCount, seriesVars, ctlVars, opSlot, opGeneration, opShard,
                 opReason, begins>>

AppendRecord(op) ==
  LET h == opShard[op]
  IN  /\ opPc[op] = "append"
      /\ IF shardCount[h] = Capacity[h]
           THEN Count(opSlot[op], "capacityDrops") /\ UNCHANGED shardCount
           ELSE /\ shardCount' = [shardCount EXCEPT ![h] = @ + 1]
                /\ Count(opSlot[op], "acceptedRecords")
      /\ Release(h)
      /\ Goto(op, "retire")
      /\ UNCHANGED <<activeBegins, activeSampled, admissionOpen, generation, captureVars,
                     seriesVars, ctlVars, opSlot, opGeneration, opShard, opReason, begins>>

Retire(op) ==
  /\ opPc[op] = "retire"
  /\ activeSampled' = [activeSampled EXCEPT ![opSlot[op]] = @ - 1]
  /\ Goto(op, "idle")
  /\ UNCHANGED <<activeBegins, admissionOpen, generation, counters, captureVars,
                 shardVars, seriesVars, ctlVars, opSlot, opGeneration, opShard,
                 opReason, begins>>

-----------------------------------------------------------------------------
(* Blocking acquisition of every shard in index order, the way StartCapture  *)
(* and CloseCaptureAdmission begin.                                          *)

AllLocked(c) == \A h \in Shards : shardOwner[h] = c
UnlockAll == shardOwner' = [h \in Shards |-> Nobody]

LockShard(c, h) ==
  /\ ctlPc[c] \in {"lockToStart", "lockToClose"}
  /\ \A earlier \in 0 .. h - 1 : shardOwner[earlier] = c
  /\ Acquire(c, h)
  /\ UNCHANGED <<slotVars, captureVars, shardCount, seriesVars, opVars, ctlVars>>

(* OperationProfileSource::StartCapture, called by TelemetryHub::Start while *)
(* no worker runs.                                                           *)
StartCapture ==
  /\ ctlPc[Owner] = "stopped" /\ ctlPc[Worker] = "off"
  /\ nextGeneration <= MaxGeneration
  /\ GotoCtl(Owner, "lockToStart")
  /\ UNCHANGED <<slotVars, captureVars, shardVars, seriesVars, opVars,
                 candidate, drainShard, finalCollect>>

BeginScan ==
  /\ ctlPc[Owner] = "lockToStart" /\ AllLocked(Owner)
  /\ candidate' = 0
  /\ GotoCtl(Owner, "scan")
  /\ UNCHANGED <<slotVars, captureVars, shardVars, seriesVars, opVars,
                 drainShard, finalCollect>>

(* The loop over m_captureStates: a slot that is open, pinned or still has   *)
(* tokens is skipped; after the last one StartCapture fails, the hub's       *)
(* FailCapture finds admission closed already, and the worker still starts.  *)
Scan ==
  /\ ctlPc[Owner] = "scan"
  /\ \/ /\ candidate < SlotCount
        /\ ~admissionOpen[candidate] /\ activeBegins[candidate] = 0
        /\ GotoCtl(Owner, "invalidate")
        /\ UNCHANGED <<candidate, shardOwner>>
     \/ /\ candidate < SlotCount
        /\ admissionOpen[candidate] \/ activeBegins[candidate] # 0
        /\ candidate' = candidate + 1
        /\ UNCHANGED <<ctlPc, shardOwner>>
     \/ /\ candidate = SlotCount
        /\ ctlPc' = [ctlPc EXCEPT ![Owner] = "running", ![Worker] = "idle"]
        /\ UnlockAll
        /\ UNCHANGED candidate
  /\ UNCHANGED <<slotVars, captureVars, shardCount, seriesVars, opVars,
                 drainShard, finalCollect>>

(* Mutant: a slot is taken although tokens are out.                          *)
InvalidateDespiteTokens ==
  /\ ctlPc[Owner] = "invalidate"
  /\ generation' = [generation EXCEPT ![candidate] = nextGeneration]
  /\ nextGeneration' = nextGeneration + 1
  /\ GotoCtl(Owner, "recheckPins")
  /\ UNCHANGED <<activeBegins, activeSampled, admissionOpen, counters, currentCapture,
                 shardVars, seriesVars, opVars, candidate, drainShard, finalCollect>>

(* Mutant: the pins are not counted again after the new generation is out.   *)
RecheckPinsOmitted ==
  /\ ctlPc[Owner] = "recheckPins"
  /\ GotoCtl(Owner, "reset")
  /\ UNCHANGED <<slotVars, captureVars, shardVars, seriesVars, opVars,
                 candidate, drainShard, finalCollect>>

(* The last load of the condition, and the new generation.  With every shard *)
(* locked and admission closed, activeSampled can only fall.                 *)
Invalidate ==
  /\ ctlPc[Owner] = "invalidate"
  /\ IF activeSampled[candidate] # 0
       THEN /\ candidate' = candidate + 1
            /\ GotoCtl(Owner, "scan")
            /\ UNCHANGED <<generation, nextGeneration>>
       ELSE /\ generation' = [generation EXCEPT ![candidate] = nextGeneration]
            /\ nextGeneration' = nextGeneration + 1
            /\ GotoCtl(Owner, "recheckPins")
            /\ UNCHANGED candidate
  /\ UNCHANGED <<activeBegins, activeSampled, admissionOpen, counters, currentCapture,
                 shardVars, seriesVars, opVars, drainShard, finalCollect>>

RecheckPins ==
  /\ ctlPc[Owner] = "recheckPins"
  /\ IF activeBegins[candidate] # 0
       THEN candidate' = candidate + 1 /\ GotoCtl(Owner, "scan")
       ELSE UNCHANGED candidate /\ GotoCtl(Owner, "reset")
  /\ UNCHANGED <<slotVars, captureVars, shardVars, seriesVars, opVars,
                 drainShard, finalCollect>>

(* ResetCaptureState, and the shards, drain counts and interval buckets.     *)
Reset ==
  /\ ctlPc[Owner] = "reset"
  /\ activeSampled' = [activeSampled EXCEPT ![candidate] = 0]
  /\ counters' = [counters EXCEPT ![candidate] = [q \in Qualities |-> 0]]
  /\ admissionOpen' = [admissionOpen EXCEPT ![candidate] = FALSE]
  /\ shardCount' = [h \in Shards |-> 0]
  /\ intervalCalls' = 0 /\ reported' = 0 /\ discarded' = 0
  /\ GotoCtl(Owner, "open")
  /\ UNCHANGED <<activeBegins, generation, captureVars, shardOwner, opVars,
                 candidate, drainShard, finalCollect>>

Open ==
  /\ ctlPc[Owner] = "open"
  /\ admissionOpen' = [admissionOpen EXCEPT ![candidate] = TRUE]
  /\ GotoCtl(Owner, "install")
  /\ UNCHANGED <<activeBegins, activeSampled, generation, counters, captureVars,
                 shardVars, seriesVars, opVars, candidate, drainShard, finalCollect>>

(* m_currentCapture is stored, the shards unlocked, and the hub starts its   *)
(* worker thread.                                                            *)
Install ==
  /\ ctlPc[Owner] = "install"
  /\ currentCapture' = candidate
  /\ ctlPc' = [ctlPc EXCEPT ![Owner] = "running", ![Worker] = "idle"]
  /\ UnlockAll
  /\ UNCHANGED <<slotVars, nextGeneration, shardCount, seriesVars, opVars,
                 candidate, drainShard, finalCollect>>

-----------------------------------------------------------------------------
(* OperationProfileSource::CloseCaptureAdmission: by TelemetryHub::Stop on   *)
(* the owning thread, or by FailCapture on the worker.  m_currentCapture     *)
(* changes only while neither of them is in here.                            *)

AfterClose(c) == IF c = Owner THEN "joining" ELSE "idle"

(* Mutant: closing does not wait for the shards.                             *)
CloseWithoutBarrier(c) ==
  /\ ctlPc[c] = IF c = Owner THEN "running" ELSE "idle"
  /\ IF currentCapture # NoSlot /\ admissionOpen[currentCapture]
       THEN /\ admissionOpen' = [admissionOpen EXCEPT ![currentCapture] = FALSE]
            /\ GotoCtl(c, "measure")
       ELSE GotoCtl(c, AfterClose(c)) /\ UNCHANGED admissionOpen
  /\ UNCHANGED <<activeBegins, activeSampled, generation, counters, captureVars,
                 shardVars, seriesVars, opVars, candidate, drainShard, finalCollect>>

CloseCaptureAdmission(c) ==
  /\ ctlPc[c] = IF c = Owner THEN "running" ELSE "idle"
  /\ IF currentCapture # NoSlot /\ admissionOpen[currentCapture]
       THEN /\ admissionOpen' = [admissionOpen EXCEPT ![currentCapture] = FALSE]
            /\ GotoCtl(c, "lockToClose")
       ELSE GotoCtl(c, AfterClose(c)) /\ UNCHANGED admissionOpen
  /\ UNCHANGED <<activeBegins, activeSampled, generation, counters, captureVars,
                 shardVars, seriesVars, opVars, candidate, drainShard, finalCollect>>

PassBarrier(c) ==
  /\ ctlPc[c] = "lockToClose" /\ AllLocked(c)
  /\ UnlockAll
  /\ GotoCtl(c, "measure")
  /\ UNCHANGED <<slotVars, captureVars, shardCount, seriesVars, opVars,
                 candidate, drainShard, finalCollect>>

(* Stop then asks the worker to stop and joins it.                           *)
Measure(c) ==
  /\ ctlPc[c] = "measure"
  /\ counters' = [counters EXCEPT ![currentCapture]["unfinishedOperations"] =
                                     activeSampled[currentCapture]]
  /\ GotoCtl(c, AfterClose(c))
  /\ UNCHANGED <<activeBegins, activeSampled, admissionOpen, generation, captureVars,
                 shardVars, seriesVars, opVars, candidate, drainShard, finalCollect>>

-----------------------------------------------------------------------------
(* OperationProfileSource::Drain and DrainSeries: the worker's Collect while *)
(* it runs, once more after the stop request; and the owner's ClearIntervals *)
(* after the join.                                                           *)

StopRequested == ctlPc[Owner] = "joining"

StartDrain(c, pc) ==
  /\ ctlPc[c] = pc
  /\ drainShard' = [drainShard EXCEPT ![c] = 0]
  /\ GotoCtl(c, "drainLock")
  /\ UNCHANGED <<slotVars, captureVars, shardVars, seriesVars, opVars, candidate>>

(* Mutant: the worker leaves at the stop request without a last collection.  *)
FinalCollectOmitted ==
  /\ StopRequested /\ ctlPc[Worker] = "idle"
  /\ GotoCtl(Worker, "off")
  /\ UNCHANGED <<slotVars, captureVars, shardVars, seriesVars, opVars,
                 candidate, drainShard, finalCollect>>

Collect == ~StopRequested /\ StartDrain(Worker, "idle") /\ UNCHANGED finalCollect
FinalCollect == StopRequested /\ StartDrain(Worker, "idle") /\ finalCollect' = TRUE
ClearIntervals ==
  ctlPc[Worker] = "off" /\ StartDrain(Owner, "joining") /\ UNCHANGED finalCollect

DrainLock(c) ==
  /\ ctlPc[c] = "drainLock"
  /\ Acquire(c, drainShard[c])
  /\ GotoCtl(c, "drainTake")
  /\ UNCHANGED <<slotVars, captureVars, shardCount, seriesVars, opVars,
                 candidate, drainShard, finalCollect>>

(* Mutant: the drained records stay in the shard.                            *)
DrainTakeCopying(c) ==
  LET h == drainShard[c]
  IN  /\ ctlPc[c] = "drainTake"
      /\ intervalCalls' = intervalCalls + shardCount[h]
      /\ Release(h)
      /\ drainShard' = [drainShard EXCEPT ![c] = h + 1]
      /\ GotoCtl(c, IF h + 1 = ShardCount THEN "drainSeries" ELSE "drainLock")
      /\ UNCHANGED <<slotVars, captureVars, shardCount, reported, discarded, opVars,
                     candidate, finalCollect>>

(* The records leave the shard for m_drainRecords and, in this thread only,  *)
(* for the interval buckets.                                                 *)
DrainTake(c) ==
  LET h == drainShard[c]
  IN  /\ ctlPc[c] = "drainTake"
      /\ intervalCalls' = intervalCalls + shardCount[h]
      /\ shardCount' = [shardCount EXCEPT ![h] = 0]
      /\ Release(h)
      /\ drainShard' = [drainShard EXCEPT ![c] = h + 1]
      /\ GotoCtl(c, IF h + 1 = ShardCount THEN "drainSeries" ELSE "drainLock")
      /\ UNCHANGED <<slotVars, captureVars, reported, discarded, opVars,
                     candidate, finalCollect>>

DrainSeries(c) ==
  /\ ctlPc[c] = "drainSeries"
  /\ intervalCalls' = 0
  /\ IF c = Worker
       THEN reported' = reported + intervalCalls /\ UNCHANGED discarded
       ELSE discarded' = discarded + intervalCalls /\ UNCHANGED reported
  /\ finalCollect' = FALSE
  /\ GotoCtl(c, CASE c = Owner -> "stopped"
                  [] c = Worker /\ finalCollect -> "off"
                  [] c = Worker /\ ~finalCollect -> "idle")
  /\ UNCHANGED <<slotVars, captureVars, shardVars, opVars, candidate, drainShard>>

-----------------------------------------------------------------------------
BeginStep(op) ==
  \/ LoadOpen(op) \/ LoadGeneration(op) \/ Decide(op)
  \/ PinGeneration(op) \/ PinOpen(op) \/ CountDrop(op)
  \/ LockToAdmit(op) \/ RecheckAdmit(op) \/ Admit(op) \/ Unpin(op)

PublishStep(op) ==
  CheckResult(op) \/ RecheckPublish(op) \/ AppendRecord(op) \/ Retire(op)

DrainStep(c) == DrainLock(c) \/ DrainTake(c) \/ DrainSeries(c)

StartStep ==
  BeginScan \/ Scan \/ Invalidate \/ RecheckPins \/ Reset \/ Open \/ Install

(* What a controller that is inside a call, and waits for no shard, does.    *)
OwnStep(c) ==
  \/ PassBarrier(c) \/ Measure(c) \/ DrainStep(c)
  \/ c = Owner /\ (StartStep \/ ClearIntervals)
  \/ c = Worker /\ FinalCollect

Next ==
  \/ \E op \in Ops :
       LoadCapture(op) \/ BeginStep(op) \/ EndToken(op) \/ PublishStep(op)
  \/ \E c \in Controllers :
       \/ \E h \in Shards : LockShard(c, h)
       \/ CloseCaptureAdmission(c) \/ PassBarrier(c) \/ Measure(c)
       \/ DrainStep(c)
  \/ StartCapture \/ StartStep
  \/ Collect \/ FinalCollect \/ ClearIntervals

Spec == Init /\ [][Next]_vars

(* A thread inside Begin, End, Start, Close or Drain keeps running; nothing  *)
(* is assumed of when operations begin or end.  Game threads only try_lock.  *)
(* A thread that blocks on a shard gets it in the end: its only rival is the *)
(* worker, which waits a cadence of at least one millisecond between two     *)
(* drains (the mutex itself promises no order, hence strong fairness).       *)
(* Stop, once it has closed admission, drives the worker to its end.         *)
Fairness ==
  /\ \A op \in Ops : WF_vars(BeginStep(op) \/ PublishStep(op))
  /\ \A c \in Controllers :
       SF_vars(\E h \in Shards : LockShard(c, h)) /\ WF_vars(OwnStep(c))

FairSpec == Spec /\ Fairness

-----------------------------------------------------------------------------
OpPcType == opPc \in [Ops -> OpPcs]
CountersType == counters \in [Slots -> [Qualities -> Nat]]
ShardOwnerType == shardOwner \in [Shards -> Ops \cup Controllers \cup {Nobody}]
CtlPcType ==
  /\ ctlPc \in [Controllers -> OwnerPcs \cup WorkerPcs]
  /\ ctlPc[Owner] \in OwnerPcs /\ ctlPc[Worker] \in WorkerPcs

(* Types; in particular no pin or token count is decremented below zero.     *)
TypeOK ==
  /\ OpPcType /\ CountersType /\ ShardOwnerType /\ CtlPcType
  /\ activeBegins \in [Slots -> Nat]
  /\ activeSampled \in [Slots -> Nat]
  /\ admissionOpen \in [Slots -> BOOLEAN]
  /\ generation \in [Slots -> Nat]
  /\ currentCapture \in Slots \cup {NoSlot}
  /\ nextGeneration \in Nat
  /\ shardCount \in [Shards -> Nat]
  /\ intervalCalls \in Nat /\ reported \in Nat /\ discarded \in Nat
  /\ opSlot \in [Ops -> Slots]
  /\ opGeneration \in [Ops -> Nat]
  /\ opShard \in [Ops -> Shards]
  /\ opReason \in [Ops -> {"suppressed", "noLane", "sample"}]
  /\ candidate \in 0 .. SlotCount
  /\ drainShard \in [Controllers -> 0 .. ShardCount]
  /\ finalCollect \in BOOLEAN
  /\ begins \in Nat

(* An operation that is about to touch a slot's counters - it pinned the     *)
(* slot and found the pin valid, or it holds a token - belongs to the        *)
(* capture the slot serves now: a Begin or End delayed across Stop and Start *)
(* never counts in a later capture.                                          *)
CountsBelongToCapture ==
  \A op \in Ops :
    opPc[op] \in ValidPinPcs \cup TokenPcs => generation[opSlot[op]] = opGeneration[op]

(* StartCapture resets and opens only a slot that no operation relies on.    *)
RecycledSlotIsFree ==
  ctlPc[Owner] \in {"reset", "open"} =>
    \A op \in Ops : opSlot[op] = candidate => opPc[op] \notin ValidPinPcs \cup TokenPcs

(* Every sampled admission is still unresolved or was counted with exactly   *)
(* one outcome: the counters written to a capture's metadata add up.         *)
Resolved(s) ==
  counters[s]["acceptedRecords"] + counters[s]["publicationContentionDrops"]
    + counters[s]["capacityDrops"] + counters[s]["staleTokens"]
    + counters[s]["invalidResults"]

AdmissionsConserved ==
  \A s \in Slots :
    counters[s]["sampledAdmissions"] = Resolved(s) + Cardinality(Unresolved(s))

(* Once CloseCaptureAdmission has passed the shard mutexes, a slot admits    *)
(* nothing and accepts nothing until StartCapture resets it.                 *)
Sealed(s) ==
  /\ ~admissionOpen[s]
  /\ ~ \E c \in Controllers : ctlPc[c] = "lockToClose" /\ currentCapture = s

SealedStep ==
  \A s \in Slots :
    Sealed(s) /\ ctlPc[Owner] # "reset" =>
      /\ counters'[s]["sampledAdmissions"] = counters[s]["sampledAdmissions"]
      /\ counters'[s]["acceptedRecords"] = counters[s]["acceptedRecords"]

SealedCaptureIsFrozen == [][SealedStep]_vars

(* The unfinished count reported at close bounds the tokens still out, so    *)
(* the stale tokens to come.                                                 *)
UnfinishedBoundsTokens ==
  currentCapture # NoSlot /\ Sealed(currentCapture)
    /\ (\A c \in Controllers : ctlPc[c] # "measure")
    /\ ctlPc[Owner] \notin {"open", "install"} =>
      activeSampled[currentCapture] <= counters[currentCapture]["unfinishedOperations"]

(* An accepted record is in its shard, in the interval buckets, or in the    *)
(* series: draining concurrently with publication loses and repeats none.    *)
SumsBelow(f) ==
  LET sums[n \in 0 .. ShardCount] == IF n = 0 THEN 0 ELSE sums[n - 1] + f[n - 1]
  IN  sums

HeldRecords == SumsBelow(shardCount)[ShardCount]

RecordsConserved ==
  currentCapture # NoSlot /\ ctlPc[Owner] \notin {"open", "install"} =>
    counters[currentCapture]["acceptedRecords"] =
      HeldRecords + intervalCalls + reported + discarded

(* When Stop returns, the worker has drained into its snapshots every record *)
(* the capture accepted: Stop closes admission before it requests the stop,  *)
(* so its ClearIntervals finds nothing to throw away.                        *)
StopReportsEverything ==
  currentCapture # NoSlot /\ ctlPc[Owner] = "stopped" =>
    /\ discarded = 0
    /\ reported = counters[currentCapture]["acceptedRecords"]

(* Every record and every admission is accounted for: the types hold, so no  *)
(* count has gone below zero; the unfinished operations bound the tokens     *)
(* out; an accepted record is drained once; and a stop has reported all of   *)
(* them.                                                                     *)
RecordsAccountedFor ==
  TypeOK /\ UnfinishedBoundsTokens /\ RecordsConserved /\ StopReportsEverything

(* Begin and End never wait for another thread: they come back.              *)
OperationsReturn ==
  \A op \in Ops :
    opPc[op] \notin {"idle", "holding"} ~> opPc[op] \in {"idle", "holding"}

(* Stop comes back even though tokens may be held forever, and though the    *)
(* worker may be closing or draining when it is called.                      *)
StopReturns == ctlPc[Owner] \in {"lockToClose", "joining"} ~> ctlPc[Owner] = "stopped"

-----------------------------------------------------------------------------
(* The inductive invariant behind the properties above.                      *)

(* Both pin counters count, so a zero read by StartCapture means nobody.     *)
PinsCounted == \A s \in Slots : activeBegins[s] = Cardinality(Pinned(s))
TokensCounted == \A s \in Slots : activeSampled[s] = Cardinality(Holding(s))

(* The owner starts captures, and drains, only after the join.               *)
WorkerJoined ==
  ctlPc[Owner] \in {"stopped", "lockToStart", "drainLock", "drainTake", "drainSeries"}
                    \cup StartPcs => ctlPc[Worker] = "off"

(* Whoever is past a shard's lock holds it.                                  *)
ShardsHeld ==
  /\ \A op \in Ops : opPc[op] \in ShardPcs => shardOwner[opShard[op]] = op
  /\ ctlPc[Owner] \in StartPcs => AllLocked(Owner)
  /\ \A c \in Controllers :
       /\ ctlPc[c] \in {"drainLock", "drainTake"} => drainShard[c] \in Shards
       /\ ctlPc[c] = "drainTake" => shardOwner[drainShard[c]] = c

(* The Dekker-style handshake of CapturePin and StartCapture.                *)
FreeCandidate(pcs) ==
  \A op \in Ops : opSlot[op] = candidate => opPc[op] \notin pcs

Handshake ==
  /\ \A op \in Ops :
       opPc[op] = "pinOpen" /\ admissionOpen[opSlot[op]] =>
         generation[opSlot[op]] = opGeneration[op]
  /\ ctlPc[Owner] \in StartPcs \ {"scan"} => candidate \in Slots
  /\ ctlPc[Owner] \in {"invalidate", "recheckPins", "reset", "open"} =>
       ~admissionOpen[candidate] /\ FreeCandidate(ValidPinPcs)
  /\ ctlPc[Owner] \in {"recheckPins", "reset", "open"} => FreeCandidate(TokenPcs)
  /\ ctlPc[Owner] \in {"reset", "open"} =>
       \A op \in Ops :
         opSlot[op] = candidate /\ opPc[op] = "pinOpen" =>
           generation[candidate] = opGeneration[op]
  /\ ctlPc[Owner] = "install" => admissionOpen[candidate]

(* An operation about to admit or to append works on the current slot; if    *)
(* admission was closed under it, the closer still waits for its shard.      *)
LateWritersAwaited ==
  \A op \in Ops : opPc[op] \in {"admit", "append"} =>
    currentCapture = opSlot[op] /\ ~Sealed(opSlot[op])

ClosingACapture ==
  \A c \in Controllers :
    ctlPc[c] \in {"lockToClose", "measure"} => currentCapture \in Slots

IInv ==
  /\ TypeOK
  /\ PinsCounted /\ TokensCounted
  /\ WorkerJoined /\ ShardsHeld /\ ClosingACapture
  /\ Handshake /\ CountsBelongToCapture
  /\ LateWritersAwaited /\ AdmissionsConserved
=============================================================================
