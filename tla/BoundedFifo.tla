------------------------------ MODULE BoundedFifo ------------------------------
(***************************************************************************)
(* What a burst series buffer (Telemetry/AdTelemetry.h) promises its users: *)
(* a bounded queue.  A record is refused only while Capacity records wait,  *)
(* and waiting records leave in the order they came, none lost, repeated or *)
(* half-written, at most DrainCapacity at a time.                           *)
(***************************************************************************)
EXTENDS Integers, Sequences

CONSTANTS
  Records,       \* what may be recorded
  Capacity,      \* records that may wait
  DrainCapacity  \* records one drain may take

VARIABLES
  queue,         \* the waiting records, oldest first
  taken,         \* every record that has left, in order
  refused        \* number of records refused

fifoVars == <<queue, taken, refused>>

FifoInit == queue = <<>> /\ taken = <<>> /\ refused = 0

Accept(r) ==
  /\ Len(queue) < Capacity
  /\ queue' = Append(queue, r)
  /\ UNCHANGED <<taken, refused>>

Refuse ==
  /\ Len(queue) = Capacity
  /\ refused' = refused + 1
  /\ UNCHANGED <<queue, taken>>

Take(n) ==
  /\ n <= Len(queue)
  /\ taken' = taken \o SubSeq(queue, 1, n)
  /\ queue' = SubSeq(queue, n + 1, Len(queue))
  /\ UNCHANGED refused

FifoNext ==
  \/ \E r \in Records : Accept(r)
  \/ Refuse
  \/ \E n \in 1 .. DrainCapacity : Take(n)

FifoSpec == FifoInit /\ [][FifoNext]_fifoVars
=============================================================================
