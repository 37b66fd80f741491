------------------------------ MODULE MCLiveness ------------------------------
(***************************************************************************)
(* What the telemetry's threads come to: a behaviour is one of the burst   *)
(* ring with the hub's collections, of one capture, or of the operations   *)
(* of a profile source, chosen in its first state, while the others stay   *)
(* as they start.  A burst that outgrows both the ring and the caller's    *)
(* buffer needs two entries and a buffer of one; two operations contend    *)
(* for one slot and one shard.                                             *)
(***************************************************************************)
EXTENDS BurstSeries, TelemetryCapture, OperationProfile

CONSTANT OneRecord

MCCapacity == [h \in Shards |-> OneRecord]

VARIABLE half       \* the part this behaviour is one of

MCInit == half \in {"burst", "capture", "operations"} /\ BurstInit /\ CaptureInit /\ Init

liveVars == <<half, burstVars, hubStateVars, vars>>
OfBurst(step) == half = "burst" /\ step /\ UNCHANGED <<half, hubStateVars, vars>>
OfCapture(step) == half = "capture" /\ step /\ UNCHANGED <<half, burstVars, vars>>
OfOperations(step) == half = "operations" /\ step /\ UNCHANGED <<half, burstVars, hubStateVars>>

(* The game may stop recording, a token may be kept for good, and nobody     *)
(* need start telemetry again.                                               *)
Quiescent ==
    /\ \/ half = "burst" /\ phase = "off" /\ producerPc = "idle" /\ active /\ sessions = MaxSessions
       \/ half = "capture" /\ pc["controller"] = "idle" /\ session = MaxCaptures
       \/ /\ half = "operations" /\ ctlPc[Owner] = "stopped"
          /\ \A op \in Ops : opPc[op] \in {"idle", "holding"}
    /\ UNCHANGED liveVars

MCNext ==
    \/ OfBurst(BurstNext)
    \/ OfCapture(CaptureNext)
    \/ OfOperations(Next)
    \/ Quiescent

(* The fairness of each part, for the behaviours that are of it.             *)
MCSpec ==
    /\ MCInit /\ [][MCNext]_liveVars
    /\ WF_liveVars(OfBurst(CollectStep)) /\ WF_liveVars(OfBurst(Wake))
    /\ WF_liveVars(OfCapture(ControllerStep \/ SharedStep("controller")))
    /\ WF_liveVars(OfCapture(WorkerStep \/ SharedStep("worker")))
    /\ \A op \in Ops : WF_liveVars(OfOperations(BeginStep(op) \/ PublishStep(op)))
    /\ \A c \in Controllers :
         /\ SF_liveVars(OfOperations(\E h \in Shards : LockShard(c, h)))
         /\ WF_liveVars(OfOperations(OwnStep(c)))

(* Starting, stopping, beginning and ending come back to their caller,       *)
(* whatever fails in them and whichever threads they meet.                   *)
EveryCallReturns == StartAndStopReturn /\ OperationsReturn /\ StopReturns
=============================================================================
