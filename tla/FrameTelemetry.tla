---------------------------- MODULE FrameTelemetry ----------------------------
(***************************************************************************)
(* The telemetry hub's rows: a worker collects one at every deadline and   *)
(* keeps the newest in a ring, while the game's thread measures its frames *)
(* in three words the worker empties one by one, and leaves a record of    *)
(* every slow one in a second ring (AdTelemetryHub.cpp).                   *)
(*                                                                         *)
(* Time passes between any two readings of the clock.  Of a row only what  *)
(* the frames' source wrote is kept; the files of a capture are            *)
(* TelemetryCapture's.  Every exchange and every compare-exchange loop is  *)
(* one step, and the loops' failed rounds are left out.                    *)
(***************************************************************************)
EXTENDS Integers, Sequences, FiniteSets, SequencesExt, FiniteSetsExt

CONSTANTS
    RowCapacity,    \* of m_ring
    RecordCapacity, \* of m_frameRecords
    CountMask,      \* kFrameCountMask
    TotalMask,      \* kFrameTotalDurationMask
    Threshold,      \* a frame above it leaves a record
    Cadence,
    MaxClock,       \* bounds the clock
    MaxStarts       \* bounds Start

ASSUME FrameTelemetryAssumption ==
    /\ {RowCapacity, RecordCapacity, CountMask, Cadence, MaxClock} \subseteq Nat \ {0}
    /\ {TotalMask, Threshold, MaxStarts} \subseteq Nat

VARIABLES
    clock,
    starts,         \* calls of Start so far
    hub,            \* the caller of Start and Stop: "idle", "starting", "running", "stopping", "clearing"
    active,         \* s_active
    cadence,        \* the worker: [at, start, deadline, now, skipped, collected]
    drain,          \* the drain under way: [at, count, total, maximum]
    words,          \* the frames' source: [packed, maximum, offset, minimum, previous, interval]
    observed,       \* the game thread in ObserveAt: [at, qpc, duration, offset]
    rows,           \* [ring, write, count, overwritten, sequence, published]
    records,        \* [ring, read, count, overflows]
    \* What happened, for the properties.
    history,        \* every row collected
    pushed,         \* every record pushed
    counted,        \* frames counted and their time, less what was drained
    unreported      \* frames measured since the maximum was last drained

frameVars ==
    <<clock, starts, hub, active, cadence, drain, words, observed, rows,
      records, history, pushed, counted, unreported>>

NoMinimum == MaxClock + 1       \* the largest duration of 32 bits
Word == (CountMask + 1) * (TotalMask + 1)
CountOf(packed) == packed % (CountMask + 1)
TotalOf(packed) == packed \div (CountMask + 1)

NoRow == [sequence |-> 0, count |-> 0, total |-> 0, maximum |-> 0]
NoDrain == [at |-> "none", count |-> 0, total |-> 0, maximum |-> 0]
NoFrame == [at |-> "none", qpc |-> 0, duration |-> 0, offset |-> 0]
NoRecord == [qpc |-> 0, duration |-> 0]
FreshWords == [packed |-> 0, maximum |-> 0, offset |-> 0, minimum |-> NoMinimum,
               previous |-> 0, interval |-> 0]

FrameStart ==
    /\ clock = 1 /\ starts = 0 /\ hub = "idle" /\ active = FALSE
    /\ cadence = [at |-> "off", start |-> 0, deadline |-> 0, now |-> 0, skipped |-> 0,
                  collected |-> 0]
    /\ drain = NoDrain /\ words = FreshWords /\ observed = NoFrame
    /\ rows = [ring |-> [place \in 0..RowCapacity - 1 |-> NoRow], write |-> 0,
               count |-> 0, overwritten |-> 0, sequence |-> 0, published |-> NoRow]
    /\ records = [ring |-> [place \in 0..RecordCapacity - 1 |-> NoRecord], read |-> 0,
                  count |-> 0, overflows |-> 0]
    /\ history = <<>> /\ pushed = <<>> /\ unreported = {}
    /\ counted = [count |-> 0, total |-> 0]

\* Reading the clock finds it where it was or later.
ReadClock(now) == now \in clock..MaxClock /\ clock' = now

-----------------------------------------------------------------------------
(* The game's thread: FrameMetricSource::ObserveAt. *)

Observe ==
    /\ observed.at = "none" /\ active
    /\ \E now \in clock..MaxClock :
          ReadClock(now) /\ observed' = [NoFrame EXCEPT !.at = "entered", !.qpc = now]
    /\ UNCHANGED <<starts, hub, active, cadence, drain, words, rows,
                   records, history, pushed, counted, unreported>>

\* The first frame has no duration, and neither has one at the same instant.
HasDuration(qpc, previous) == previous # 0 /\ qpc > previous

ExchangePrevious ==
    /\ observed.at = "entered"
    /\ words' = [words EXCEPT !.previous = observed.qpc]
    /\ observed' = IF HasDuration(observed.qpc, words.previous)
                   THEN [observed EXCEPT !.at = "exchanged",
                                         !.duration = observed.qpc - words.previous]
                   ELSE NoFrame
    /\ UNCHANGED <<clock, starts, hub, active, cadence, drain, rows, records,
                   history, pushed, counted, unreported>>

OffsetOf(qpc, interval) == IF interval # 0 /\ qpc > interval THEN qpc - interval ELSE 0

ReadInterval ==
    /\ observed.at = "exchanged"
    /\ observed' = [observed EXCEPT !.at = "measured",
                                    !.offset = OffsetOf(observed.qpc, words.interval)]
    /\ UNCHANGED <<clock, starts, hub, active, cadence, drain, words, rows, records,
                   history, pushed, counted, unreported>>

\* Duration and offset of the longest frame share one word.
WithMaximum(w, f) ==
    IF f.duration > w.maximum
    THEN [w EXCEPT !.maximum = f.duration, !.offset = f.offset]
    ELSE w

UpdateMaximum ==
    /\ observed.at = "measured"
    /\ words' = WithMaximum(words, observed)
    /\ observed' = [observed EXCEPT !.at = "maximum"]
    /\ unreported' = unreported \cup {[duration |-> observed.duration, offset |-> observed.offset]}
    /\ UNCHANGED <<clock, starts, hub, active, cadence, drain, rows, records,
                   history, pushed, counted>>

UpdateMinimum ==
    /\ observed.at = "maximum"
    /\ words' = [words EXCEPT !.minimum = Min({@, observed.duration})]
    /\ observed' = [observed EXCEPT !.at = "minimum"]
    /\ UNCHANGED <<clock, starts, hub, active, cadence, drain, rows, records,
                   history, pushed, counted, unreported>>

\* As Fits, of the count alone.
FitsCountOnly(packed, duration) == CountOf(packed) # CountMask

\* Count and total share one word: a frame that does not fit is left uncounted.
Fits(packed, duration) ==
    /\ CountOf(packed) # CountMask
    /\ duration <= TotalMask - TotalOf(packed)

Packed(packed, duration) ==
    (((TotalOf(packed) + duration) * (CountMask + 1)) + CountOf(packed) + 1) % Word

CountFrame ==
    /\ observed.at = "minimum"
    /\ IF Fits(words.packed, observed.duration)
       THEN /\ words' = [words EXCEPT !.packed = Packed(@, observed.duration)]
            /\ counted' = [count |-> counted.count + 1,
                           total |-> counted.total + observed.duration]
       ELSE UNCHANGED <<words, counted>>
    /\ observed' = IF observed.duration > Threshold THEN [observed EXCEPT !.at = "counted"] ELSE NoFrame
    /\ UNCHANGED <<clock, starts, hub, active, cadence, drain, rows, records,
                   history, pushed, unreported>>

\* The oldest record makes room for the newest.
Pushed(r, record) ==
    IF r.count = RecordCapacity
    THEN [r EXCEPT !.ring[r.read] = record, !.read = (r.read + 1) % RecordCapacity,
                   !.overflows = @ + 1]
    ELSE [r EXCEPT !.ring[(r.read + r.count) % RecordCapacity] = record, !.count = @ + 1]

RecordOf(f) == [qpc |-> f.qpc, duration |-> f.duration]

PushFrameRecord ==
    /\ observed.at = "counted"
    /\ records' = Pushed(records, RecordOf(observed))
    /\ pushed' = Append(pushed, RecordOf(observed))
    /\ observed' = NoFrame
    /\ UNCHANGED <<clock, starts, hub, active, cadence, drain, words, rows,
                   history, counted, unreported>>

-----------------------------------------------------------------------------
(* FrameMetricSource::Drain, by the worker or by ClearIntervals. *)

DrainPacked ==
    /\ drain.at = "packed"
    /\ drain' = [drain EXCEPT !.at = "maximum", !.count = CountOf(words.packed),
                              !.total = TotalOf(words.packed)]
    /\ words' = [words EXCEPT !.packed = 0]
    /\ counted' = [count |-> counted.count - CountOf(words.packed),
                   total |-> counted.total - TotalOf(words.packed)]
    /\ UNCHANGED <<clock, starts, hub, active, cadence, observed, rows, records,
                   history, pushed, unreported>>

DrainMaximum ==
    /\ drain.at = "maximum"
    /\ drain' = [drain EXCEPT !.at = "minimum", !.maximum = words.maximum]
    /\ words' = [words EXCEPT !.maximum = 0, !.offset = 0]
    /\ unreported' = {}
    /\ UNCHANGED <<clock, starts, hub, active, cadence, observed, rows, records,
                   history, pushed, counted>>

DrainMinimum ==
    /\ drain.at = "minimum"
    /\ drain' = [drain EXCEPT !.at = "reset"]
    /\ words' = [words EXCEPT !.minimum = NoMinimum]
    /\ UNCHANGED <<clock, starts, hub, active, cadence, observed, rows, records,
                   history, pushed, counted, unreported>>

\* Telemetry that is not active forgets the frame before.
DrainReset ==
    /\ drain.at = "reset"
    /\ drain' = [drain EXCEPT !.at = "done"]
    /\ words' = IF active THEN words
                ELSE [words EXCEPT !.previous = 0, !.interval = 0]
    /\ UNCHANGED <<clock, starts, hub, active, cadence, observed, rows, records,
                   history, pushed, counted, unreported>>

-----------------------------------------------------------------------------
(* The hub's worker. *)

WorkerBegins ==
    /\ cadence.at = "begun"
    /\ \E now \in clock..MaxClock :
          /\ ReadClock(now)
          /\ cadence' = [at |-> "waiting", start |-> now, deadline |-> now + Cadence,
                         now |-> now, skipped |-> 0, collected |-> 0]
    /\ UNCHANGED <<starts, hub, active, drain, words, observed, rows, records,
                   history, pushed, counted, unreported>>

Wake ==
    /\ cadence.at = "waiting" /\ hub # "stopping"
    /\ \E now \in clock..MaxClock :
          /\ ReadClock(now) /\ now >= cadence.deadline
          /\ cadence' = [cadence EXCEPT !.at = "collecting", !.now = now]
    /\ drain' = [NoDrain EXCEPT !.at = "packed"]
    /\ UNCHANGED <<starts, hub, active, words, observed, rows, records,
                   history, pushed, counted, unreported>>

\* A stop asked for is seen at the next wait; a capture is collected once more.
WorkerStops ==
    /\ cadence.at = "waiting" /\ hub = "stopping"
    /\ \/ /\ cadence' = [cadence EXCEPT !.at = "off"]
          /\ UNCHANGED <<clock, drain>>
       \/ \E now \in clock..MaxClock :
             /\ ReadClock(now)
             /\ cadence' = [cadence EXCEPT !.at = "last", !.now = now]
             /\ drain' = [NoDrain EXCEPT !.at = "packed"]
    /\ UNCHANGED <<starts, hub, active, words, observed, rows, records,
                   history, pushed, counted, unreported>>

RowOf(sequence) ==
    [sequence |-> sequence, count |-> drain.count, total |-> drain.total,
     maximum |-> drain.maximum]

\* Collect's second half: the row takes the oldest place of the ring.
Collected(r, row) ==
    [ring |-> [r.ring EXCEPT ![r.write] = row],
     write |-> (r.write + 1) % RowCapacity,
     count |-> IF r.count = RowCapacity THEN r.count ELSE r.count + 1,
     overwritten |-> IF r.count = RowCapacity THEN r.overwritten + 1 ELSE r.overwritten,
     sequence |-> row.sequence,
     published |-> row]

\* As Rescheduled, without the deadline that has just been missed.
RescheduledShort(c) ==
    LET next == c.deadline + Cadence
        missed == IF c.now >= next THEN (c.now - next) \div Cadence ELSE 0
    IN  [c EXCEPT !.at = "waiting", !.deadline = next + (missed * Cadence),
                  !.skipped = @ + missed, !.collected = @ + 1]

\* The deadlines passed meanwhile are skipped.
Rescheduled(c) ==
    LET next == c.deadline + Cadence
        missed == IF c.now >= next THEN ((c.now - next) \div Cadence) + 1 ELSE 0
    IN  [c EXCEPT !.at = "waiting", !.deadline = next + (missed * Cadence),
                  !.skipped = @ + missed, !.collected = @ + 1]

Publish ==
    /\ cadence.at \in {"collecting", "last"} /\ drain.at = "done"
    /\ LET row == RowOf(rows.sequence + 1)
       IN  /\ rows' = Collected(rows, row)
           /\ history' = Append(history, row)
    /\ words' = [words EXCEPT !.interval = cadence.now]
    /\ cadence' = IF cadence.at = "last" THEN [cadence EXCEPT !.at = "off"]
                  ELSE Rescheduled(cadence)
    /\ drain' = NoDrain
    /\ UNCHANGED <<clock, starts, hub, active, observed, records, pushed, counted, unreported>>

-----------------------------------------------------------------------------
(* TelemetryHub::Start and Stop. *)

StartHub ==
    /\ hub = "idle" /\ starts < MaxStarts
    /\ hub' = "starting" /\ starts' = starts + 1
    /\ drain' = [NoDrain EXCEPT !.at = "packed"]
    /\ UNCHANGED <<clock, active, cadence, words, observed, rows, records,
                   history, pushed, counted, unreported>>

\* ClearIntervals empties the sources and what was published of them.
Cleared == [NoRow EXCEPT !.sequence = rows.published.sequence]

StartWorker ==
    /\ hub = "starting" /\ drain.at = "done"
    /\ hub' = "running" /\ active' = TRUE
    /\ drain' = NoDrain
    /\ rows' = [rows EXCEPT !.published = Cleared]
    /\ \E now \in clock..MaxClock :
          ReadClock(now) /\ words' = [words EXCEPT !.interval = now]
    /\ cadence' = [cadence EXCEPT !.at = "begun"]
    /\ UNCHANGED <<starts, observed, records, history, pushed, counted,
                   unreported>>

\* The thread cannot be created.
WorkerNeverStarts ==
    /\ hub = "running" /\ cadence.at = "begun"
    /\ hub' = "idle" /\ active' = FALSE
    /\ cadence' = [cadence EXCEPT !.at = "off"]
    /\ UNCHANGED <<clock, starts, drain, words, observed, rows, records, history, pushed,
                   counted, unreported>>

StopHub ==
    /\ hub = "running"
    /\ hub' = "stopping" /\ active' = FALSE
    /\ UNCHANGED <<clock, starts, cadence, drain, words, observed, rows, records,
                   history, pushed, counted, unreported>>

JoinWorker ==
    /\ hub = "stopping" /\ cadence.at = "off"
    /\ hub' = "clearing"
    /\ drain' = [NoDrain EXCEPT !.at = "packed"]
    /\ UNCHANGED <<clock, starts, active, cadence, words, observed, rows, records,
                   history, pushed, counted, unreported>>

StopReturnsCleared ==
    /\ hub = "clearing" /\ drain.at = "done"
    /\ hub' = "idle"
    /\ drain' = NoDrain
    /\ rows' = [rows EXCEPT !.published = Cleared]
    /\ UNCHANGED <<clock, starts, active, cadence, words, observed, records,
                   history, pushed, counted, unreported>>

FrameNext ==
    \/ Observe \/ ExchangePrevious \/ ReadInterval
    \/ UpdateMaximum \/ UpdateMinimum \/ CountFrame \/ PushFrameRecord
    \/ DrainPacked \/ DrainMaximum \/ DrainMinimum \/ DrainReset
    \/ WorkerBegins \/ Wake \/ WorkerStops \/ Publish
    \/ StartHub \/ StartWorker \/ WorkerNeverStarts \/ StopHub \/ JoinWorker \/ StopReturnsCleared

FrameSpec == FrameStart /\ [][FrameNext]_frameVars

-----------------------------------------------------------------------------
(* What the menu and the exports read of it. *)

\* The newest rows the ring holds, the oldest of them first.
CopyMetricHistory(room) ==
    LET count == Min({room, rows.count})
        oldest == rows.write + RowCapacity - rows.count
    IN  [index \in 1..count |->
            rows.ring[(oldest + rows.count - count + index - 1) % RowCapacity]]

CopyFrameRecords(room) ==
    LET count == Min({room, records.count})
    IN  [index \in 1..count |->
            records.ring[(records.read + records.count - count + index - 1) % RecordCapacity]]

-----------------------------------------------------------------------------
(* Properties. *)

FrameTypeOK ==
    /\ clock \in 1..MaxClock /\ active \in BOOLEAN
    /\ words.packed \in 0..Word - 1
    /\ words.maximum \in 0..MaxClock /\ words.minimum \in 1..NoMinimum
    /\ rows.count \in 0..RowCapacity /\ rows.write \in 0..RowCapacity - 1
    /\ records.count \in 0..RecordCapacity /\ records.read \in 0..RecordCapacity - 1

Newest(seq, count) == SubSeq(seq, Len(seq) - count + 1, Len(seq))

\* The rows copied are the newest collected, none missing, in the order and
\* under the numbers they were collected in; what is not there any more is
\* counted as overwritten.
HistoryIsTheNewest ==
    /\ \A room \in 0..RowCapacity :
          CopyMetricHistory(room) = Newest(history, Min({room, rows.count}))
    /\ rows.count + rows.overwritten = Len(history)
    /\ \A index \in DOMAIN history : history[index].sequence = index

\* The records copied are the newest pushed, also where the ring has wrapped.
RecordsAreTheNewest ==
    /\ \A room \in 0..RecordCapacity :
          CopyFrameRecords(room) = Newest(pushed, Min({room, records.count}))
    /\ records.count + records.overflows = Len(pushed)

\* Count and total never run into each other: what the word holds is what was
\* counted and not drained, however the drains fall between the frames.
CountAndTotalAgree ==
    /\ CountOf(words.packed) = counted.count
    /\ TotalOf(words.packed) = counted.total

\* The longest frame and its offset are one frame's, and no frame measured
\* since the last drain was longer.
MaximumIsOneFrame ==
    IF unreported = {} THEN words.maximum = 0 /\ words.offset = 0
    ELSE /\ [duration |-> words.maximum, offset |-> words.offset] \in unreported
         /\ \A other \in unreported : other.duration <= words.maximum

\* Every deadline since the worker began was collected at or is counted as
\* skipped, and the next lies less than a cadence past the last wake.
DeadlinesAccountedFor ==
    cadence.at = "waiting" =>
        /\ cadence.deadline = cadence.start
                + ((cadence.collected + cadence.skipped + 1) * Cadence)
        /\ cadence.collected > 0 => cadence.now < cadence.deadline
=============================================================================
