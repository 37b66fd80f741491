------------------------------ MODULE BurstSeries ------------------------------
(***************************************************************************)
(* SingleProducerBurstSeriesBuffer (Telemetry/AdTelemetry.h): a wait-free   *)
(* ring of records between the one thread that records load times and the   *)
(* telemetry hub that drains them.  TelemetryHub::Start drains in its own   *)
(* thread before it enables draining and starts the worker; Stop drains     *)
(* once more after the join.  So one hub thread drains at a time, and what  *)
(* is drained outside of a session is thrown away.                          *)
(*                                                                         *)
(* The calls of Record are numbered; the number stands for the record.  An  *)
(* entry is several words: it is unreadable (NoRecord) while it is filled.  *)
(***************************************************************************)
EXTENDS Integers, Sequences

CONSTANTS
  RingCapacity,  \* Capacity
  DrainCapacity, \* kBurstSeriesDrainCapacity
  MaxRecords,    \* bound: calls of Record
  MaxSessions    \* bound: calls of TelemetryHub::Start

ASSUME RingSizesAssumption ==
  /\ RingCapacity \in Nat \ {0}
  /\ DrainCapacity \in Nat \ {0}
  /\ MaxRecords \in Nat
  /\ MaxSessions \in Nat

NoRecord == 0

VARIABLES
  active,        \* m_active
  drainEnabled,  \* m_drainEnabled
  entries,       \* m_entries
  write,         \* m_write, the producer's
  published,     \* m_published
  read,          \* m_read, the drainer's
  consumed,      \* m_consumed
  overflow,      \* m_overflow
  producerPc,    \* where Record is
  recorded,      \* calls of Record so far
  hubPc,         \* where the draining hub thread is
  phase,         \* why it drains
  count,         \* Drain's count
  copied,        \* what Drain has copied to a_out
  overflowTaken, \* overflows that DrainOverflow has taken over
  taken,         \* every record drained, in order
  thrownAway,     \* how many of them ClearIntervals threw away
  sessions       \* calls of TelemetryHub::Start

bufferVars == <<active, drainEnabled, entries, published, consumed, overflow>>
producerVars == <<write, producerPc, recorded>>
hubVars == <<read, hubPc, phase, count, copied, overflowTaken, taken, thrownAway, sessions>>
burstVars == <<bufferVars, producerVars, hubVars>>

Phases == {"off", "starting", "running", "finishing", "clearing"}
ProducerPcs == {"idle", "fill", "filled", "publish"}
HubPcs == {"off", "idle", "overflow", "load", "copy", "beginInterval"}
Indices == 0 .. RingCapacity - 1

BurstInit ==
  /\ active = FALSE /\ drainEnabled = FALSE
  /\ entries = [i \in Indices |-> NoRecord]
  /\ write = 0 /\ published = 0 /\ read = 0 /\ consumed = 0 /\ overflow = 0
  /\ producerPc = "idle" /\ recorded = 0
  /\ hubPc = "off" /\ phase = "off" /\ count = 0 /\ copied = <<>>
  /\ overflowTaken = 0 /\ taken = <<>> /\ thrownAway = 0 /\ sessions = 0

-----------------------------------------------------------------------------
(* The producer: Activate at installation, then Record.                      *)

Activate ==
  /\ ~active /\ producerPc = "idle"
  /\ active' = TRUE
  /\ UNCHANGED <<drainEnabled, entries, published, consumed, overflow,
                 producerVars, hubVars>>

(* Mutant: one entry too many.                                               *)
RecordPastCapacity ==
  /\ producerPc = "idle" /\ recorded < MaxRecords
  /\ recorded' = recorded + 1
  /\ IF active /\ write - consumed <= RingCapacity
       THEN producerPc' = "fill" /\ UNCHANGED overflow
       ELSE /\ overflow' = IF active THEN overflow + 1 ELSE overflow
            /\ UNCHANGED producerPc
  /\ UNCHANGED <<active, drainEnabled, entries, published, consumed, write, hubVars>>

Record ==
  /\ producerPc = "idle" /\ recorded < MaxRecords
  /\ recorded' = recorded + 1
  /\ IF active /\ write - consumed < RingCapacity
       THEN producerPc' = "fill" /\ UNCHANGED overflow
       ELSE /\ overflow' = IF active THEN overflow + 1 ELSE overflow
            /\ UNCHANGED producerPc
  /\ UNCHANGED <<active, drainEnabled, entries, published, consumed, write, hubVars>>

(* The assignment to m_entries, first word to last.                          *)
BeginFill ==
  /\ producerPc = "fill"
  /\ entries' = [entries EXCEPT ![write % RingCapacity] = NoRecord]
  /\ producerPc' = "filled"
  /\ UNCHANGED <<active, drainEnabled, published, consumed, overflow,
                 write, recorded, hubVars>>

EndFill ==
  /\ producerPc = "filled"
  /\ entries' = [entries EXCEPT ![write % RingCapacity] = recorded]
  /\ write' = write + 1
  /\ producerPc' = "publish"
  /\ UNCHANGED <<active, drainEnabled, published, consumed, overflow, recorded, hubVars>>

Publish ==
  /\ producerPc = "publish"
  /\ published' = write
  /\ producerPc' = "idle"
  /\ UNCHANGED <<active, drainEnabled, entries, consumed, overflow,
                 write, recorded, hubVars>>

-----------------------------------------------------------------------------
(* The hub.  A collection is DrainOverflow, then Drain, then, except in      *)
(* ClearIntervals, BeginInterval.                                            *)

Collects(now) == hubPc' = "overflow" /\ phase' = now

Start ==
  /\ phase = "off" /\ sessions < MaxSessions
  /\ sessions' = sessions + 1
  /\ Collects("starting")
  /\ UNCHANGED <<bufferVars, producerVars, read, count, copied, overflowTaken,
                 taken, thrownAway>>

(* The worker at its cadence; after the stop request it collects once more   *)
(* only when there is a capture to complete; then Stop clears.               *)
Wake ==
  /\ hubPc = "idle"
  /\ Collects("running")
  /\ UNCHANGED <<bufferVars, producerVars, read, count, copied, overflowTaken,
                 taken, thrownAway, sessions>>

Stop ==
  /\ hubPc = "idle"
  /\ \E next \in {"finishing", "clearing"} : Collects(next)
  /\ UNCHANGED <<bufferVars, producerVars, read, count, copied, overflowTaken,
                 taken, thrownAway, sessions>>

DrainOverflow ==
  /\ hubPc = "overflow"
  /\ IF active /\ drainEnabled
       THEN overflowTaken' = overflowTaken + overflow /\ overflow' = 0
       ELSE UNCHANGED <<overflow, overflowTaken>>
  /\ hubPc' = "load"
  /\ UNCHANGED <<active, drainEnabled, entries, published, consumed, producerVars,
                 read, phase, count, copied, taken, thrownAway, sessions>>

(* Mutant: everything published, whatever the size of the caller's buffer.   *)
LoadPublishedUnbounded ==
  /\ hubPc = "load"
  /\ count' = IF active /\ drainEnabled THEN published - read ELSE 0
  /\ copied' = <<>>
  /\ hubPc' = "copy"
  /\ UNCHANGED <<bufferVars, producerVars, read, phase, overflowTaken, taken,
                 thrownAway, sessions>>

(* Mutant: drains before the first interval has begun.                       *)
LoadPublishedAlways ==
  /\ hubPc = "load"
  /\ count' = CASE published - read <= DrainCapacity -> published - read
                [] published - read > DrainCapacity -> DrainCapacity
  /\ copied' = <<>>
  /\ hubPc' = "copy"
  /\ UNCHANGED <<bufferVars, producerVars, read, phase, overflowTaken, taken,
                 thrownAway, sessions>>

LoadPublished ==
  /\ hubPc = "load"
  /\ count' = CASE ~(active /\ drainEnabled) -> 0
                [] active /\ drainEnabled /\ published - read <= DrainCapacity ->
                     published - read
                [] active /\ drainEnabled /\ published - read > DrainCapacity ->
                     DrainCapacity
  /\ copied' = <<>>
  /\ hubPc' = "copy"
  /\ UNCHANGED <<bufferVars, producerVars, read, phase, overflowTaken, taken,
                 thrownAway, sessions>>

CopyEntry ==
  /\ hubPc = "copy" /\ Len(copied) < count
  /\ copied' = Append(copied, entries[(read + Len(copied)) % RingCapacity])
  /\ UNCHANGED <<bufferVars, producerVars, read, hubPc, phase, count, overflowTaken,
                 taken, thrownAway, sessions>>

(* What follows a collection: Start and the worker begin an interval; Stop   *)
(* clears after the worker's last collection, and is over after that.        *)
AfterCollect ==
  CASE phase \in {"starting", "running", "finishing"} ->
         hubPc' = "beginInterval" /\ UNCHANGED phase
    [] phase = "clearing" -> hubPc' = "off" /\ phase' = "off"

Consume ==
  /\ hubPc = "copy" /\ Len(copied) = count
  /\ read' = read + count
  /\ consumed' = IF count > 0 THEN read + count ELSE consumed
  /\ taken' = taken \o copied
  /\ thrownAway' = IF phase \in {"starting", "clearing"} THEN thrownAway + count
                                                      ELSE thrownAway
  /\ count' = 0 /\ copied' = <<>>
  /\ AfterCollect
  /\ UNCHANGED <<active, drainEnabled, entries, published, overflow, producerVars,
                 overflowTaken, sessions>>

(* Mutant: the interval begins without EnableDrain.                          *)
BeginIntervalDisabled ==
  /\ hubPc = "beginInterval"
  /\ IF phase = "finishing" THEN Collects("clearing")
                            ELSE hubPc' = "idle" /\ phase' = "running"
  /\ UNCHANGED <<bufferVars, producerVars, read, count, copied, overflowTaken, taken,
                 thrownAway, sessions>>

BeginInterval ==
  /\ hubPc = "beginInterval"
  /\ drainEnabled' = TRUE
  /\ IF phase = "finishing" THEN Collects("clearing")
                            ELSE hubPc' = "idle" /\ phase' = "running"
  /\ UNCHANGED <<active, entries, published, consumed, overflow, producerVars,
                 read, count, copied, overflowTaken, taken, thrownAway, sessions>>

-----------------------------------------------------------------------------
RecordStep == BeginFill \/ EndFill \/ Publish
CollectStep == DrainOverflow \/ LoadPublished \/ CopyEntry \/ Consume \/ BeginInterval

BurstNext ==
  \/ Activate \/ Record \/ RecordStep
  \/ Start \/ Wake \/ Stop \/ CollectStep

BurstSpec == BurstInit /\ [][BurstNext]_burstVars

(* A collection that has begun goes on, and the worker wakes at its cadence  *)
(* until it is stopped.                                                      *)
BurstFairness == WF_burstVars(CollectStep) /\ WF_burstVars(Wake)

FairBurstSpec == BurstSpec /\ BurstFairness

-----------------------------------------------------------------------------
(* Types; a drain copies no more records than the caller has room for.       *)
BurstTypeOK ==
  /\ active \in BOOLEAN /\ drainEnabled \in BOOLEAN
  /\ entries \in [Indices -> Nat]
  /\ write \in Nat /\ published \in Nat /\ read \in Nat /\ consumed \in Nat
  /\ overflow \in Nat /\ overflowTaken \in Nat
  /\ producerPc \in ProducerPcs /\ recorded \in Nat
  /\ hubPc \in HubPcs /\ phase \in Phases
  /\ count \in 0 .. DrainCapacity /\ copied \in Seq(Nat) /\ taken \in Seq(Nat)
  /\ thrownAway \in Nat /\ sessions \in Nat

(* The ring implements the bounded queue: no record is lost, repeated,       *)
(* reordered or read half-written, and none is refused while there is room.  *)
Waiting == [i \in 1 .. published - consumed |-> entries[(consumed + i - 1) % RingCapacity]]

Fifo == INSTANCE BoundedFifo
          WITH Capacity <- RingCapacity, Records <- 1 .. MaxRecords, queue <- Waiting,
               refused <- overflow + overflowTaken

FifoImplemented == Fifo!FifoSpec

(* What was recorded before telemetry first starts is not cleared by Start:  *)
(* only the end of a session throws records away.                            *)
StartupRecordsKept == thrownAway > 0 => sessions > 1 \/ phase \in {"clearing", "off"}

(* While a session lasts, every published record comes to be drained.        *)
PublishedIsDrained ==
  \A n \in 1 .. MaxRecords :
    phase = "running" /\ published >= n ~> Len(taken) >= n \/ phase # "running"
=============================================================================
