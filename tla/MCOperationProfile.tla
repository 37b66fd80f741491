-------------------------- MODULE MCOperationProfile --------------------------
(* Model checking OperationProfile on small instances.                       *)
EXTENDS OperationProfile, TLC

CONSTANT OneRecord

MCCapacity == [h \in Shards |-> OneRecord]

(* The game may run on with nothing to profile, and a token may be kept for  *)
(* good; any other state without a successor is a deadlock.                  *)
Quiescent ==
  /\ ctlPc[Owner] = "stopped"
  /\ \A op \in Ops : opPc[op] \in {"idle", "holding"}
  /\ UNCHANGED vars

MCNext == Next \/ Quiescent

MCSpec == Init /\ [][MCNext]_vars

(* Locals an operation or a controller has not set yet, or will not read     *)
(* again, do not tell two states apart.                                      *)
LiveLocals(op) ==
  CASE opPc[op] = "idle" -> <<>>
    [] opPc[op] \in {"loadOpen", "loadGeneration", "unpin"} -> <<opSlot[op]>>
    [] opPc[op] \in {"decide", "lockToAdmit", "retire"} -> <<opSlot[op], opGeneration[op]>>
    [] opPc[op] \in {"pinGeneration", "pinOpen", "countDrop"} ->
         <<opSlot[op], opGeneration[op], opReason[op]>>
    [] OTHER -> <<opSlot[op], opGeneration[op], opShard[op]>>

LiveView ==
  <<slotVars, captureVars, shardVars, seriesVars, ctlPc, finalCollect, begins,
    [op \in Ops |-> <<opPc[op], LiveLocals(op)>>],
    IF ctlPc[Owner] \in StartPcs THEN candidate ELSE 0,
    [c \in Controllers |->
       IF ctlPc[c] \in {"drainLock", "drainTake"} THEN drainShard[c] ELSE 0]>>

Symmetric == Permutations(Ops)
=============================================================================
