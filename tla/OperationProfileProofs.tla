------------------------ MODULE OperationProfileProofs ------------------------
(* What TLAPS proves of OperationProfile, for every number of operations,    *)
(* slots and shards.                                                         *)
EXTENDS OperationProfile, FiniteSetTheorems, TLAPS

USE DEF Controllers

-----------------------------------------------------------------------------
(* Typing.  The helpers of the actions keep the types of what they change.   *)

(* The counters the actions write are counters of a slot.                   *)
LEMMA QualityNames ==
  /\ "sampledAdmissions" \in Qualities /\ "acceptedRecords" \in Qualities
  /\ "admissionContentionDrops" \in Qualities
  /\ "publicationContentionDrops" \in Qualities
  /\ "capacityDrops" \in Qualities /\ "staleTokens" \in Qualities
  /\ "suppressedOperations" \in Qualities /\ "unfinishedOperations" \in Qualities
  /\ "invalidResults" \in Qualities /\ "producerCapacityDrops" \in Qualities
BY DEF Qualities

(* The places the operations go to are places of an operation.              *)
LEMMA OpPcNames ==
  /\ "idle" \in OpPcs /\ "loadOpen" \in OpPcs /\ "loadGeneration" \in OpPcs
  /\ "decide" \in OpPcs /\ "pinGeneration" \in OpPcs /\ "pinOpen" \in OpPcs
  /\ "unpin" \in OpPcs /\ "unpinHolding" \in OpPcs /\ "countDrop" \in OpPcs
  /\ "lockToAdmit" \in OpPcs /\ "recheckAdmit" \in OpPcs /\ "admit" \in OpPcs
  /\ "holding" \in OpPcs /\ "checkResult" \in OpPcs /\ "recheckPublish" \in OpPcs
  /\ "append" \in OpPcs /\ "retire" \in OpPcs
BY DEF OpPcs, PinPcs, ValidPinPcs, TokenPcs, UnresolvedPcs

(* Moving an operation keeps the types of the places.                       *)
LEMMA GotoType ==
  ASSUME OpPcType, NEW op \in Ops, NEW pc \in OpPcs, Goto(op, pc)
  PROVE  OpPcType'
BY DEF OpPcType, Goto

(* Counting in a slot keeps the counters natural numbers.                   *)
LEMMA CountType ==
  ASSUME CountersType, NEW s \in Slots, NEW q \in Qualities, Count(s, q)
  PROVE  CountersType'
  BY DEF CountersType, Count

(* Taking a shard's mutex keeps its owner a thread, or nobody.              *)
LEMMA AcquireType ==
  ASSUME ShardOwnerType, NEW h, NEW t \in Ops \cup Controllers, Acquire(t, h)
  PROVE  ShardOwnerType'
BY DEF ShardOwnerType, Acquire

(* So does letting one, or all, go.                                         *)
LEMMA ReleaseType ==
  ASSUME ShardOwnerType, NEW h, Release(h) \/ UnlockAll
  PROVE  ShardOwnerType'
BY DEF ShardOwnerType, Release, UnlockAll

(* The owner thread moves among its own places.                             *)
LEMMA OwnerGotoType ==
  ASSUME CtlPcType, NEW pc \in OwnerPcs, GotoCtl(Owner, pc)
  PROVE  CtlPcType'
BY NamesAssumption DEF CtlPcType, GotoCtl

(* The worker thread moves among its own places.                            *)
LEMMA WorkerGotoType ==
  ASSUME CtlPcType, NEW pc \in WorkerPcs, GotoCtl(Worker, pc)
  PROVE  CtlPcType'
BY NamesAssumption DEF CtlPcType, GotoCtl

(* The places of the steps that both controllers share.                     *)
LEMMA CommonPcNames ==
  /\ "lockToClose" \in OwnerPcs \cap WorkerPcs /\ "measure" \in OwnerPcs \cap WorkerPcs
  /\ "drainLock" \in OwnerPcs \cap WorkerPcs /\ "drainTake" \in OwnerPcs \cap WorkerPcs
  /\ "drainSeries" \in OwnerPcs \cap WorkerPcs
  /\ "idle" \in WorkerPcs /\ "off" \in WorkerPcs
  /\ "joining" \in OwnerPcs /\ "stopped" \in OwnerPcs /\ "running" \in OwnerPcs
  /\ "lockToStart" \in OwnerPcs /\ "scan" \in OwnerPcs /\ "invalidate" \in OwnerPcs
  /\ "recheckPins" \in OwnerPcs /\ "reset" \in OwnerPcs /\ "open" \in OwnerPcs
  /\ "install" \in OwnerPcs
BY DEF OwnerPcs, WorkerPcs, StartPcs

(* Pins and tokens are counted, so neither count is ever decremented at zero. *)
LEMMA UnpinPositive ==
  ASSUME IInv, NEW op \in Ops, opPc[op] \in PinPcs
  PROVE  activeBegins[opSlot[op]] \in Nat \ {0}
<1>1. opSlot[op] \in Slots /\ activeBegins[opSlot[op]] \in Nat
  BY DEF IInv, TypeOK
<1>2. op \in Pinned(opSlot[op]) /\ IsFiniteSet(Pinned(opSlot[op]))
  BY SizesAssumption, FS_Subset, Zenon DEF At, Pinned
<1>3. activeBegins[opSlot[op]] # 0
  BY <1>1, <1>2, FS_EmptySet DEF IInv, PinsCounted
<1> QED
  BY <1>1, <1>3

(* A token that retires is counted in its slot.                             *)
LEMMA RetirePositive ==
  ASSUME IInv, NEW op \in Ops, opPc[op] \in TokenPcs
  PROVE  activeSampled[opSlot[op]] \in Nat \ {0}
<1>1. opSlot[op] \in Slots /\ activeSampled[opSlot[op]] \in Nat
  BY DEF IInv, TypeOK
<1>2. op \in Holding(opSlot[op]) /\ IsFiniteSet(Holding(opSlot[op]))
  BY SizesAssumption, FS_Subset, Zenon DEF At, Holding
<1>3. activeSampled[opSlot[op]] # 0
  BY <1>1, <1>2, FS_EmptySet DEF IInv, TokensCounted
<1> QED
  BY <1>1, <1>3

(* Every step keeps the types.                                              *)
LEMMA TypeStep == IInv /\ [Next]_vars => TypeOK'
<1> SUFFICES ASSUME IInv, [Next]_vars PROVE TypeOK'
  OBVIOUS
<1>0. TypeOK
  BY DEF IInv
<1> USE <1>0 DEF TypeOK
<1> USE DEF slotVars, captureVars, shardVars, seriesVars, opVars, ctlVars
<1>1. ASSUME NEW op \in Ops, LoadCapture(op) PROVE TypeOK'
  BY <1>1, GotoType, OpPcNames DEF LoadCapture, CountersType, ShardOwnerType, CtlPcType
<1>2. ASSUME NEW op \in Ops, LoadOpen(op) PROVE TypeOK'
  BY <1>2, GotoType, OpPcNames DEF LoadOpen, CountersType, ShardOwnerType, CtlPcType
<1>3. ASSUME NEW op \in Ops, LoadGeneration(op) PROVE TypeOK'
  BY <1>3, GotoType, OpPcNames DEF LoadGeneration, CountersType, ShardOwnerType, CtlPcType
<1>4. ASSUME NEW op \in Ops, Decide(op) PROVE TypeOK'
  <2>1. OpPcType'
    BY <1>4, GotoType, OpPcNames DEF Decide
  <2>2. activeBegins' \in [Slots -> Nat] /\ opReason' \in [Ops -> {"suppressed", "noLane", "sample"}]
    BY <1>4 DEF Decide
  <2> QED
    BY <1>4, <2>1, <2>2 DEF Decide, CountersType, ShardOwnerType, CtlPcType
<1>5. ASSUME NEW op \in Ops, PinGeneration(op) PROVE TypeOK'
  BY <1>5, GotoType, OpPcNames DEF PinGeneration, CountersType, ShardOwnerType, CtlPcType
<1>6. ASSUME NEW op \in Ops, PinOpen(op) PROVE TypeOK'
  BY <1>6, GotoType, OpPcNames DEF PinOpen, CountersType, ShardOwnerType, CtlPcType
<1>7. ASSUME NEW op \in Ops, CountDrop(op) PROVE TypeOK'
  BY <1>7, GotoType, OpPcNames, CountType, QualityNames DEF CountDrop, CountersType,
     ShardOwnerType, CtlPcType
<1>8. ASSUME NEW op \in Ops, LockToAdmit(op) PROVE TypeOK'
  BY <1>8, GotoType, OpPcNames, CountType, QualityNames, AcquireType, ReleaseType DEF
     LockToAdmit, CountersType, ShardOwnerType, CtlPcType
<1>9. ASSUME NEW op \in Ops, RecheckAdmit(op) PROVE TypeOK'
  BY <1>9, GotoType, OpPcNames, AcquireType, ReleaseType DEF RecheckAdmit, ShardOwnerType,
     CountersType, CtlPcType
<1>10. ASSUME NEW op \in Ops, Admit(op) PROVE TypeOK'
  BY <1>10, GotoType, OpPcNames, CountType, QualityNames, AcquireType, ReleaseType DEF Admit,
     CountersType, ShardOwnerType, CtlPcType
<1>11. ASSUME NEW op \in Ops, Unpin(op) PROVE TypeOK'
  <2>1. OpPcType'
    BY <1>11, GotoType, OpPcNames DEF Unpin
  <2>2. activeBegins[opSlot[op]] \in Nat \ {0}
    BY <1>11, UnpinPositive DEF Unpin, PinPcs, TokenPcs
  <2>3. activeBegins' \in [Slots -> Nat]
    BY <1>11, <2>2 DEF Unpin
  <2> QED
    BY <1>11, <2>1, <2>3 DEF Unpin, CountersType, ShardOwnerType, CtlPcType
<1>12. ASSUME NEW op \in Ops, EndToken(op) PROVE TypeOK'
  BY <1>12, GotoType, OpPcNames, CountType, QualityNames DEF EndToken, CountersType,
     ShardOwnerType, CtlPcType
<1>13. ASSUME NEW op \in Ops, CheckResult(op) PROVE TypeOK'
  BY <1>13, GotoType, OpPcNames, CountType, QualityNames, AcquireType, ReleaseType DEF
     CheckResult, CountersType, ShardOwnerType, CtlPcType
<1>14. ASSUME NEW op \in Ops, RecheckPublish(op) PROVE TypeOK'
  BY <1>14, GotoType, OpPcNames, CountType, QualityNames, AcquireType, ReleaseType DEF
     RecheckPublish, CountersType, ShardOwnerType, CtlPcType
<1>15. ASSUME NEW op \in Ops, AppendRecord(op) PROVE TypeOK'
  BY <1>15, GotoType, OpPcNames, CountType, QualityNames, AcquireType, ReleaseType DEF
     AppendRecord, CountersType, ShardOwnerType, CtlPcType
<1>16. ASSUME NEW op \in Ops, Retire(op) PROVE TypeOK'
  <2>1. OpPcType'
    BY <1>16, GotoType, OpPcNames DEF Retire
  <2>2. activeSampled[opSlot[op]] \in Nat \ {0}
    BY <1>16, RetirePositive DEF Retire, PinPcs, TokenPcs
  <2>3. activeSampled' \in [Slots -> Nat]
    BY <1>16, <2>2 DEF Retire
  <2> QED
    BY <1>16, <2>1, <2>3 DEF Retire, CountersType, ShardOwnerType, CtlPcType
<1>17. ASSUME NEW c \in Controllers, NEW h \in Shards, LockShard(c, h) PROVE TypeOK'
  BY <1>17, OwnerGotoType, WorkerGotoType, CommonPcNames, AcquireType, ReleaseType DEF LockShard,
     CtlPcType, ShardOwnerType, OpPcType, CountersType
<1>18. ASSUME NEW c \in Controllers, CloseCaptureAdmission(c) PROVE TypeOK'
  BY <1>18, OwnerGotoType, WorkerGotoType, CommonPcNames DEF CloseCaptureAdmission, AfterClose,
     CtlPcType, OpPcType, CountersType, ShardOwnerType
<1>19. ASSUME NEW c \in Controllers, PassBarrier(c) PROVE TypeOK'
  BY <1>19, OwnerGotoType, WorkerGotoType, CommonPcNames, AcquireType, ReleaseType DEF
     PassBarrier, CtlPcType, ShardOwnerType, OpPcType, CountersType
<1>20. ASSUME NEW c \in Controllers, Measure(c) PROVE TypeOK'
  BY <1>20, OwnerGotoType, WorkerGotoType, CommonPcNames, QualityNames DEF Measure, AfterClose,
     CtlPcType, CountersType, OpPcType, ShardOwnerType
<1>21. ASSUME NEW c \in Controllers, DrainLock(c) PROVE TypeOK'
  BY <1>21, OwnerGotoType, WorkerGotoType, CommonPcNames, AcquireType, ReleaseType DEF DrainLock,
     CtlPcType, ShardOwnerType, OpPcType, CountersType
<1>22. ASSUME NEW c \in Controllers, DrainTake(c) PROVE TypeOK'
  <2>1. CtlPcType'
    BY <1>22, OwnerGotoType, WorkerGotoType, CommonPcNames DEF DrainTake, CtlPcType
  <2>2. ShardOwnerType'
    BY <1>22, AcquireType, ReleaseType DEF DrainTake, ShardOwnerType
  <2>3. drainShard[c] \in Shards /\ drainShard[c] + 1 \in 0 .. ShardCount
    BY <1>22, SizesAssumption DEF DrainTake, IInv, ShardsHeld, Shards
  <2>4. drainShard' \in [Controllers -> 0 .. ShardCount]
    BY <1>22, <2>3 DEF DrainTake
  <2>5. shardCount' \in [Shards -> Nat] /\ intervalCalls' \in Nat
    BY <1>22, <2>3 DEF DrainTake
  <2> QED
    BY <1>22, <2>1, <2>2, <2>4, <2>5 DEF DrainTake, OpPcType, CountersType
<1>23. ASSUME NEW c \in Controllers, DrainSeries(c) PROVE TypeOK'
  <2>1. CtlPcType'
    BY <1>23, OwnerGotoType, WorkerGotoType, CommonPcNames DEF DrainSeries, CtlPcType
  <2>2. intervalCalls' \in Nat /\ reported' \in Nat /\ discarded' \in Nat
    BY <1>23 DEF DrainSeries
  <2> QED
    BY <1>23, <2>1, <2>2 DEF DrainSeries, OpPcType, CountersType, ShardOwnerType
<1>24. ASSUME StartCapture PROVE TypeOK'
  BY <1>24, OwnerGotoType, WorkerGotoType, CommonPcNames DEF StartCapture, CtlPcType, OpPcType,
     CountersType, ShardOwnerType
<1>25. ASSUME BeginScan PROVE TypeOK'
  BY <1>25, OwnerGotoType, WorkerGotoType, CommonPcNames, SizesAssumption DEF BeginScan,
     CtlPcType, OpPcType, CountersType, ShardOwnerType
<1>26. ASSUME Scan PROVE TypeOK'
  <2>1. CtlPcType'
    BY <1>26, OwnerGotoType, WorkerGotoType, CommonPcNames DEF Scan, CtlPcType
  <2>2. ShardOwnerType'
    BY <1>26, AcquireType, ReleaseType DEF Scan, ShardOwnerType
  <2>3. candidate' \in 0 .. SlotCount
    BY <1>26, SizesAssumption DEF Scan
  <2> QED
    BY <1>26, <2>1, <2>2, <2>3 DEF Scan, OpPcType, CountersType
<1>27. ASSUME Invalidate PROVE TypeOK'
  <2>1. CtlPcType'
    BY <1>27, OwnerGotoType, WorkerGotoType, CommonPcNames DEF Invalidate, CtlPcType
  <2>2. candidate \in Slots
    BY <1>27, SizesAssumption DEF Invalidate, IInv, Handshake, StartPcs
  <2>3. candidate' \in 0 .. SlotCount
    <3>1. candidate + 1 \in 0 .. SlotCount
      BY <2>2, SizesAssumption DEF Slots
    <3> QED
      BY <1>27, <3>1 DEF Invalidate
  <2>4. generation' \in [Slots -> Nat] /\ nextGeneration' \in Nat
    BY <1>27, <2>2 DEF Invalidate
  <2> QED
    BY <1>27, <2>1, <2>3, <2>4 DEF Invalidate, OpPcType, CountersType, ShardOwnerType
<1>28. ASSUME RecheckPins PROVE TypeOK'
  <2>1. CtlPcType'
    BY <1>28, OwnerGotoType, WorkerGotoType, CommonPcNames DEF RecheckPins, CtlPcType
  <2>2. candidate' \in 0 .. SlotCount
    BY <1>28, SizesAssumption DEF RecheckPins, IInv, Handshake, StartPcs, Slots
  <2> QED
    BY <1>28, <2>1, <2>2 DEF RecheckPins, OpPcType, CountersType, ShardOwnerType
<1>29. ASSUME Reset PROVE TypeOK'
  BY <1>29, OwnerGotoType, WorkerGotoType, CommonPcNames, QualityNames DEF Reset, CtlPcType,
     CountersType, OpPcType, ShardOwnerType
<1>30. ASSUME Open PROVE TypeOK'
  BY <1>30, OwnerGotoType, WorkerGotoType, CommonPcNames DEF Open, CtlPcType, OpPcType,
     CountersType, ShardOwnerType
<1>31. ASSUME Install PROVE TypeOK'
  <2>1. CtlPcType'
    BY <1>31, OwnerGotoType, WorkerGotoType, CommonPcNames DEF Install, CtlPcType
  <2>2. ShardOwnerType'
    BY <1>31, AcquireType, ReleaseType DEF Install, ShardOwnerType
  <2>3. candidate \in Slots
    BY <1>31 DEF Install, IInv, Handshake, StartPcs
  <2> QED
    BY <1>31, <2>1, <2>2, <2>3 DEF Install, OpPcType, CountersType
<1>32. ASSUME Collect \/ FinalCollect \/ ClearIntervals PROVE TypeOK'
  <2>1. CtlPcType'
    BY <1>32, OwnerGotoType, WorkerGotoType, CommonPcNames DEF Collect, FinalCollect, ClearIntervals, StartDrain, CtlPcType
  <2>2. drainShard' \in [Controllers -> 0 .. ShardCount]
    BY <1>32, SizesAssumption DEF Collect, FinalCollect, ClearIntervals, StartDrain
  <2> QED
    BY <1>32, <2>1, <2>2 DEF Collect, FinalCollect, ClearIntervals, StartDrain,
       OpPcType, CountersType, ShardOwnerType
<1>33. CASE UNCHANGED vars
  BY <1>33 DEF vars, OpPcType, CountersType, ShardOwnerType, CtlPcType
<1> QED
  BY <1>1, <1>2, <1>3, <1>4, <1>5, <1>6, <1>7, <1>8, <1>9, <1>10, <1>11, <1>12,
     <1>13, <1>14, <1>15, <1>16, <1>17, <1>18, <1>19, <1>20, <1>21, <1>22, <1>23,
     <1>24, <1>25, <1>26, <1>27, <1>28, <1>29, <1>30, <1>31, <1>32, <1>33
     DEF Next, BeginStep, PublishStep, DrainStep, StartStep

-----------------------------------------------------------------------------
(* How one step changes the number of operations at a set of places.         *)

(* Finitely many operations are at any places of a slot.                    *)
LEMMA AtFinite == \A pcs, s : IsFiniteSet(At(pcs, s))
BY SizesAssumption, FS_Subset, Zenon DEF At

(* An operation that comes to the places adds one to its slot's number.     *)
LEMMA Enter ==
  ASSUME OpPcType, NEW pcs, NEW op \in Ops, NEW pc \in pcs, opPc[op] \notin pcs,
         Goto(op, pc), UNCHANGED opSlot
  PROVE  \A s \in Slots :
           Cardinality(At(pcs, s))' = IF s = opSlot[op] THEN Cardinality(At(pcs, s)) + 1
                                                        ELSE Cardinality(At(pcs, s))
<1> TAKE s \in Slots
<1>1. op \notin At(pcs, s)
  BY DEF At
<1>2. CASE s = opSlot[op]
  <2>1. At(pcs, s)' = At(pcs, s) \cup {op}
    BY <1>2 DEF At, Goto, OpPcType
  <2> QED
    BY <1>1, <1>2, <2>1, AtFinite, FS_AddElement
<1>3. CASE s # opSlot[op]
  BY <1>3 DEF At, Goto, OpPcType
<1> QED
  BY <1>2, <1>3

(* An operation that leaves them takes one away.                            *)
LEMMA Leave ==
  ASSUME OpPcType, NEW pcs, NEW op \in Ops, NEW pc, pc \notin pcs, opPc[op] \in pcs,
         Goto(op, pc), UNCHANGED opSlot
  PROVE  \A s \in Slots :
           Cardinality(At(pcs, s))' = IF s = opSlot[op] THEN Cardinality(At(pcs, s)) - 1
                                                        ELSE Cardinality(At(pcs, s))
<1> TAKE s \in Slots
<1>1. CASE s = opSlot[op]
  <2>1. op \in At(pcs, s) /\ At(pcs, s)' = At(pcs, s) \ {op}
    BY <1>1 DEF At, Goto, OpPcType
  <2> QED
    BY <1>1, <2>1, AtFinite, FS_RemoveElement
<1>2. CASE s # opSlot[op]
  BY <1>2 DEF At, Goto, OpPcType
<1> QED
  BY <1>1, <1>2

(* A move inside the places, or outside, changes no number.                 *)
LEMMA Stay ==
  ASSUME OpPcType, NEW pcs, NEW op \in Ops, NEW pc, opPc[op] \in pcs <=> pc \in pcs,
         Goto(op, pc), UNCHANGED opSlot
  PROVE  \A s \in Slots : At(pcs, s)' = At(pcs, s)
BY DEF At, Goto, OpPcType

(* An operation that begins is not yet counted anywhere.                    *)
LEMMA Aside ==
  ASSUME OpPcType, NEW pcs, NEW op \in Ops, "loadOpen" \notin pcs, "idle" \notin pcs,
         LoadCapture(op)
  PROVE  \A s \in Slots : At(pcs, s)' = At(pcs, s)
BY DEF At, LoadCapture, Goto, OpPcType

(* Steps that move no operation change no number.                           *)
LEMMA Still ==
  ASSUME NEW pcs, UNCHANGED <<opPc, opSlot>>
  PROVE  \A s \in Slots : At(pcs, s)' = At(pcs, s)
BY DEF At

(* Everything but the operations leaves their program counters alone.        *)
LEMMA ControllerFrame ==
  ASSUME [Next]_vars,
         ~ \E op \in Ops : LoadCapture(op) \/ BeginStep(op) \/ EndToken(op) \/ PublishStep(op)
  PROVE  UNCHANGED opVars /\ UNCHANGED activeBegins
BY DEF Next, LockShard, CloseCaptureAdmission, PassBarrier, Measure, DrainStep, DrainLock,
       DrainTake, DrainSeries, StartCapture, StartStep, BeginScan, Scan, Invalidate,
       RecheckPins, Reset, Open, Install, Collect, FinalCollect, ClearIntervals,
       StartDrain, vars, slotVars

(* Every step keeps activeBegins the number of operations that pin the slot. *)
LEMMA PinsStep == IInv /\ [Next]_vars => PinsCounted'
<1> SUFFICES ASSUME IInv, [Next]_vars PROVE PinsCounted'
  OBVIOUS
<1>0. TypeOK /\ OpPcType /\ PinsCounted
  BY DEF IInv, TypeOK
<1> USE <1>0
<1>k. ASSUME activeBegins' = activeBegins, \A s \in Slots : At(PinPcs, s)' = At(PinPcs, s)
      PROVE  PinsCounted'
  BY <1>k DEF PinsCounted, Pinned
<1>1. ASSUME NEW op \in Ops, LoadCapture(op) PROVE PinsCounted'
  BY <1>1, Aside, <1>k DEF PinPcs, ValidPinPcs, LoadCapture, slotVars
<1>2. ASSUME NEW op \in Ops, Decide(op) PROVE PinsCounted'
  <2>1. CASE Goto(op, "pinGeneration") /\ activeBegins' = [activeBegins EXCEPT ![opSlot[op]] = @ + 1]
    <3>1. "pinGeneration" \in PinPcs /\ opPc[op] \notin PinPcs
      BY <1>2 DEF Decide, PinPcs, ValidPinPcs
    <3> QED
      BY <1>2, <2>1, <3>1, Enter DEF Decide, PinsCounted, Pinned, TypeOK
  <2>2. CASE Goto(op, "idle") /\ UNCHANGED activeBegins
    BY <1>2, <1>k, <2>2, Stay DEF Decide, PinPcs, ValidPinPcs
  <2> QED
    BY <1>2, <2>1, <2>2 DEF Decide
<1>3. ASSUME NEW op \in Ops, Unpin(op) PROVE PinsCounted'
  <2>1. opPc[op] \in PinPcs /\ "idle" \notin PinPcs /\ "holding" \notin PinPcs
    BY <1>3 DEF Unpin, PinPcs, ValidPinPcs
  <2>2. PICK pc \in {"idle", "holding"} : Goto(op, pc)
    BY <1>3 DEF Unpin
  <2>3. \A s \in Slots :
          Cardinality(At(PinPcs, s))' = IF s = opSlot[op] THEN Cardinality(At(PinPcs, s)) - 1
                                                          ELSE Cardinality(At(PinPcs, s))
    BY <1>3, <2>1, <2>2, Leave DEF Unpin
  <2> QED
    BY <1>3, <2>3 DEF Unpin, PinsCounted, Pinned, TypeOK
<1>4. ASSUME NEW op \in Ops,
             LoadOpen(op) \/ LoadGeneration(op) \/ PinGeneration(op) \/ PinOpen(op)
               \/ CountDrop(op) \/ LockToAdmit(op) \/ RecheckAdmit(op) \/ Admit(op)
               \/ EndToken(op) \/ PublishStep(op)
      PROVE  PinsCounted'
  <2>1. /\ UNCHANGED <<opSlot, activeBegins>>
        /\ \E pc : Goto(op, pc) /\ (opPc[op] \in PinPcs <=> pc \in PinPcs)
    BY <1>4 DEF LoadOpen, LoadGeneration, PinGeneration, PinOpen, CountDrop, LockToAdmit,
       RecheckAdmit, Admit, EndToken, PublishStep, CheckResult, RecheckPublish,
       AppendRecord, Retire, PinPcs, ValidPinPcs, slotVars
  <2> QED
    BY <1>k, <2>1, Stay
<1>5. CASE ~ \E op \in Ops : LoadCapture(op) \/ BeginStep(op) \/ EndToken(op) \/ PublishStep(op)
  BY <1>5, <1>k, ControllerFrame, Still DEF opVars
<1> QED
  BY <1>1, <1>2, <1>3, <1>4, <1>5 DEF BeginStep

(* Of the controllers' steps only Reset writes the token counts.            *)
LEMMA ControllerTokenFrame ==
  ASSUME [Next]_vars,
         ~ \E op \in Ops : LoadCapture(op) \/ BeginStep(op) \/ EndToken(op) \/ PublishStep(op)
  PROVE  UNCHANGED activeSampled \/ Reset
BY DEF Next, LockShard, CloseCaptureAdmission, PassBarrier, Measure, DrainStep, DrainLock,
       DrainTake, DrainSeries, StartCapture, StartStep, BeginScan, Scan, Invalidate,
       RecheckPins, Open, Install, Collect, FinalCollect, ClearIntervals,
       StartDrain, vars, slotVars

(* Only Reset writes a token count other than by one token, and then to a    *)
(* slot without tokens.                                                      *)
LEMMA ResetFree ==
  ASSUME IInv, ctlPc[Owner] = "reset"
  PROVE  /\ candidate \in Slots /\ At(TokenPcs, candidate) = {}
         /\ At(UnresolvedPcs, candidate) = {} /\ activeSampled[candidate] = 0
  BY FS_EmptySet DEF IInv, Handshake, StartPcs, FreeCandidate, At, TokenPcs, TokensCounted, Holding

(* Every step keeps activeSampled the number of tokens of the slot.         *)
LEMMA TokensStep == IInv /\ [Next]_vars => TokensCounted'
<1> SUFFICES ASSUME IInv, [Next]_vars PROVE TokensCounted'
  OBVIOUS
<1>0. TypeOK /\ OpPcType /\ TokensCounted
  BY DEF IInv, TypeOK
<1> USE <1>0
<1>k. ASSUME activeSampled' = activeSampled, \A s \in Slots : At(TokenPcs, s)' = At(TokenPcs, s)
      PROVE  TokensCounted'
  BY <1>k DEF TokensCounted, Holding
<1>1. ASSUME NEW op \in Ops, LoadCapture(op) PROVE TokensCounted'
  BY <1>1, Aside, <1>k DEF TokenPcs, UnresolvedPcs, LoadCapture, slotVars
<1>2. ASSUME NEW op \in Ops, Admit(op) PROVE TokensCounted'
  <2>1. "unpinHolding" \in TokenPcs /\ opPc[op] \notin TokenPcs
    BY <1>2 DEF Admit, TokenPcs, UnresolvedPcs
  <2> QED
    BY <1>2, <2>1, Enter DEF Admit, TokensCounted, Holding, TypeOK
<1>3. ASSUME NEW op \in Ops, Retire(op) PROVE TokensCounted'
  <2>1. opPc[op] \in TokenPcs /\ "idle" \notin TokenPcs
    BY <1>3 DEF Retire, TokenPcs, UnresolvedPcs
  <2>2. \A s \in Slots :
          Cardinality(At(TokenPcs, s))' = IF s = opSlot[op] THEN Cardinality(At(TokenPcs, s)) - 1
                                                            ELSE Cardinality(At(TokenPcs, s))
    BY <1>3, <2>1, Leave DEF Retire
  <2> QED
    BY <1>3, <2>2 DEF Retire, TokensCounted, Holding, TypeOK
<1>4. ASSUME NEW op \in Ops,
             LoadOpen(op) \/ LoadGeneration(op) \/ Decide(op) \/ PinGeneration(op)
               \/ PinOpen(op) \/ CountDrop(op) \/ LockToAdmit(op) \/ RecheckAdmit(op)
               \/ Unpin(op) \/ EndToken(op) \/ CheckResult(op) \/ RecheckPublish(op)
               \/ AppendRecord(op)
      PROVE  TokensCounted'
  <2>1. /\ UNCHANGED <<opSlot, activeSampled>>
        /\ \E pc : Goto(op, pc) /\ (opPc[op] \in TokenPcs <=> pc \in TokenPcs)
    BY <1>4 DEF LoadOpen, LoadGeneration, Decide, PinGeneration, PinOpen, CountDrop,
       LockToAdmit, RecheckAdmit, Unpin, EndToken, CheckResult, RecheckPublish,
       AppendRecord, TokenPcs, UnresolvedPcs, slotVars
  <2> QED
    BY <1>k, <2>1, Stay
<1>5. CASE ~ \E op \in Ops : LoadCapture(op) \/ BeginStep(op) \/ EndToken(op) \/ PublishStep(op)
  BY <1>5, ControllerFrame, Still, <1>k, ResetFree, ControllerTokenFrame DEF opVars, Reset,
     TypeOK
<1> QED
  BY <1>1, <1>2, <1>3, <1>4, <1>5 DEF BeginStep, PublishStep

-----------------------------------------------------------------------------
(* The worker runs only between Start and the join.                          *)

(* Operations leave the controllers, the capture and the generations alone. *)
LEMMA OpFrame ==
  ASSUME NEW op \in Ops,
         LoadCapture(op) \/ BeginStep(op) \/ EndToken(op) \/ PublishStep(op)
  PROVE  UNCHANGED <<ctlVars, captureVars, seriesVars, admissionOpen, generation>>
BY DEF BeginStep, PublishStep, LoadCapture, LoadOpen, LoadGeneration, Decide, PinGeneration,
       PinOpen, CountDrop, LockToAdmit, RecheckAdmit, Admit, Unpin, EndToken, CheckResult,
       RecheckPublish, AppendRecord, Retire, slotVars

(* Every step keeps the worker's life inside Start and the join.            *)
LEMMA JoinedStep == IInv /\ [Next]_vars => WorkerJoined'
<1> SUFFICES ASSUME IInv, [Next]_vars PROVE WorkerJoined'
  OBVIOUS
<1>0. WorkerJoined /\ CtlPcType
  BY DEF IInv, TypeOK
<1> USE <1>0, NamesAssumption DEF WorkerJoined, CtlPcType, GotoCtl, StartPcs
<1>1. ASSUME NEW op \in Ops,
             LoadCapture(op) \/ BeginStep(op) \/ EndToken(op) \/ PublishStep(op)
      PROVE  WorkerJoined'
  BY <1>1, OpFrame DEF ctlVars
<1>2. ASSUME NEW c \in Controllers, NEW h \in Shards, LockShard(c, h) PROVE WorkerJoined'
  BY <1>2 DEF LockShard, ctlVars
<1>3. ASSUME NEW c \in Controllers, CloseCaptureAdmission(c) PROVE WorkerJoined'
  BY <1>3 DEF CloseCaptureAdmission, AfterClose
<1>4. ASSUME NEW c \in Controllers, PassBarrier(c) \/ Measure(c) PROVE WorkerJoined'
  BY <1>4 DEF PassBarrier, Measure, AfterClose
<1>5. ASSUME NEW c \in Controllers, DrainLock(c) \/ DrainTake(c) PROVE WorkerJoined'
  BY <1>5 DEF DrainLock, DrainTake
<1>6. ASSUME NEW c \in Controllers, DrainSeries(c) PROVE WorkerJoined'
  BY <1>6 DEF DrainSeries
<1>7. CASE StartCapture \/ StartStep
  BY <1>7 DEF StartCapture, StartStep, BeginScan, Scan, Invalidate, RecheckPins, Reset,
     Open, Install
<1>8. CASE Collect \/ FinalCollect \/ ClearIntervals
  BY <1>8 DEF Collect, FinalCollect, ClearIntervals, StopRequested, StartDrain
<1>9. CASE UNCHANGED vars
  BY <1>9 DEF vars, ctlVars
<1> QED
  BY <1>1, <1>2, <1>3, <1>4, <1>5, <1>6, <1>7, <1>8, <1>9 DEF Next, DrainStep

(* Every step keeps a controller that closes with a capture to close.       *)
LEMMA ClosingStep == IInv /\ [Next]_vars => ClosingACapture'
<1> SUFFICES ASSUME IInv, [Next]_vars PROVE ClosingACapture'
  OBVIOUS
<1>0. ClosingACapture /\ CtlPcType /\ currentCapture \in Slots \cup {NoSlot}
  BY DEF IInv, TypeOK
<1> USE <1>0, NamesAssumption DEF ClosingACapture, CtlPcType, GotoCtl
<1>1. ASSUME NEW op \in Ops,
             LoadCapture(op) \/ BeginStep(op) \/ EndToken(op) \/ PublishStep(op)
      PROVE  ClosingACapture'
  BY <1>1, OpFrame DEF ctlVars, captureVars
<1>2. ASSUME NEW c \in Controllers, NEW h \in Shards, LockShard(c, h) PROVE ClosingACapture'
  BY <1>2 DEF LockShard, ctlVars, captureVars
<1>3. ASSUME NEW c \in Controllers, CloseCaptureAdmission(c) PROVE ClosingACapture'
  BY <1>3 DEF CloseCaptureAdmission, AfterClose, captureVars
<1>4. ASSUME NEW c \in Controllers, PassBarrier(c) \/ Measure(c) PROVE ClosingACapture'
  BY <1>4 DEF PassBarrier, Measure, AfterClose, captureVars
<1>5. ASSUME NEW c \in Controllers, DrainStep(c) PROVE ClosingACapture'
  BY <1>5 DEF DrainStep, DrainLock, DrainTake, DrainSeries, captureVars
<1>6. CASE StartCapture \/ BeginScan \/ Scan \/ Invalidate \/ RecheckPins \/ Reset \/ Open
  BY <1>6 DEF StartCapture, BeginScan, Scan, Invalidate, RecheckPins, Reset, Open, captureVars
<1>7. CASE Install
  BY <1>7 DEF Install, IInv, Handshake, StartPcs
<1>8. CASE Collect \/ FinalCollect \/ ClearIntervals
  BY <1>8 DEF Collect, FinalCollect, ClearIntervals, StartDrain, captureVars
<1>9. CASE UNCHANGED vars
  BY <1>9 DEF vars, ctlVars, captureVars
<1> QED
  BY <1>1, <1>2, <1>3, <1>4, <1>5, <1>6, <1>7, <1>8, <1>9 DEF Next, StartStep

-----------------------------------------------------------------------------
(* Shard mutexes: who is past a lock holds it.                               *)

(* Every step keeps the mutexes with the threads that are past their lock.  *)
LEMMA ShardsStep == IInv /\ [Next]_vars => ShardsHeld'
<1> SUFFICES ASSUME IInv, [Next]_vars PROVE ShardsHeld'
  OBVIOUS
<1>0. /\ ShardsHeld /\ WorkerJoined /\ CtlPcType /\ OpPcType /\ ShardOwnerType
      /\ opShard \in [Ops -> Shards] /\ drainShard \in [Controllers -> 0 .. ShardCount]
  BY DEF IInv, TypeOK
<1> USE <1>0, NamesAssumption
<1> USE DEF ShardsHeld, Acquire, Release, UnlockAll, Goto, GotoCtl, OpPcType, CtlPcType,
            ShardOwnerType, AllLocked
<1>1. ASSUME NEW op \in Ops, LoadCapture(op) \/ LoadOpen(op) \/ LoadGeneration(op) \/ Decide(op)
                                \/ PinGeneration(op) \/ PinOpen(op) \/ CountDrop(op)
                                \/ Unpin(op) \/ EndToken(op) \/ Retire(op)
      PROVE  ShardsHeld'
  BY <1>1 DEF LoadCapture, LoadOpen, LoadGeneration, Decide, PinGeneration, PinOpen,
     CountDrop, Unpin, EndToken, Retire, ctlVars, shardVars, ShardPcs
<1>2. ASSUME NEW op \in Ops, LockToAdmit(op) PROVE ShardsHeld'
  <2> PICK h \in Shards :
        /\ opShard' = [opShard EXCEPT ![op] = h]
        /\ \/ Acquire(op, h) /\ Goto(op, "recheckAdmit")
           \/ Goto(op, "unpin") /\ UNCHANGED shardOwner
    BY <1>2 DEF LockToAdmit
  <2>1. CASE Acquire(op, h) /\ Goto(op, "recheckAdmit")
    BY <1>2, <2>1 DEF LockToAdmit, ctlVars, ShardPcs
  <2>2. CASE Goto(op, "unpin") /\ UNCHANGED shardOwner
    BY <1>2, <2>2 DEF LockToAdmit, ctlVars, ShardPcs
  <2> QED
    BY <2>1, <2>2
<1>3. ASSUME NEW op \in Ops, CheckResult(op) PROVE ShardsHeld'
  BY <1>3 DEF CheckResult, ctlVars, ShardPcs
<1>4. ASSUME NEW op \in Ops, RecheckAdmit(op) \/ Admit(op) \/ RecheckPublish(op) \/ AppendRecord(op)
      PROVE  ShardsHeld'
  BY <1>4 DEF RecheckAdmit, Admit, RecheckPublish, AppendRecord, ShardPcs, ctlVars
<1>5. ASSUME NEW c \in Controllers, NEW h \in Shards, LockShard(c, h) PROVE ShardsHeld'
  BY <1>5 DEF LockShard, ctlVars, opVars
<1>6. ASSUME NEW c \in Controllers, CloseCaptureAdmission(c) \/ Measure(c) PROVE ShardsHeld'
  BY <1>6 DEF CloseCaptureAdmission, Measure, AfterClose, shardVars, opVars, StartPcs
<1>7. ASSUME NEW c \in Controllers, PassBarrier(c) PROVE ShardsHeld'
  BY <1>7 DEF PassBarrier, WorkerJoined, StartPcs, opVars
<1>8. ASSUME NEW c \in Controllers, DrainLock(c) PROVE ShardsHeld'
  BY <1>8 DEF DrainLock, opVars, StartPcs
<1>9. ASSUME NEW c \in Controllers, DrainTake(c) PROVE ShardsHeld'
  BY <1>9, SizesAssumption DEF DrainTake, Shards, WorkerJoined, StartPcs, opVars
<1>10. ASSUME NEW c \in Controllers, DrainSeries(c) PROVE ShardsHeld'
  BY <1>10 DEF DrainSeries, opVars, shardVars, StartPcs
<1>11. CASE StartCapture \/ Invalidate \/ RecheckPins \/ Reset \/ Open
  BY <1>11 DEF StartCapture, Invalidate, RecheckPins, Reset, Open, opVars, shardVars, StartPcs
<1>12. CASE BeginScan
  BY <1>12 DEF BeginScan, opVars, shardVars, StartPcs
<1>13. CASE Scan \/ Install
  BY <1>13 DEF Scan, Install, StartPcs, WorkerJoined, opVars
<1>14. CASE Collect \/ FinalCollect \/ ClearIntervals
  BY SizesAssumption, <1>14 DEF Shards, Collect, FinalCollect, ClearIntervals, StartDrain,
     opVars, shardVars, StartPcs
<1>15. CASE UNCHANGED vars
  BY <1>15 DEF vars, opVars, shardVars, ctlVars
<1> QED
  BY <1>1, <1>2, <1>3, <1>4, <1>5, <1>6, <1>7, <1>8, <1>9, <1>10, <1>11, <1>12, <1>13,
     <1>14, <1>15 DEF Next, BeginStep, PublishStep, DrainStep, StartStep

-----------------------------------------------------------------------------
(* The handshake: a zero count read by StartCapture means that nobody relies *)
(* on the slot, and whoever pins it afterwards sees the new generation.      *)

(* A slot without pins has no operation between pin and unpin.              *)
LEMMA ZeroPins ==
  ASSUME IInv, NEW s \in Slots, activeBegins[s] = 0
  PROVE  \A op \in Ops : opSlot[op] = s => opPc[op] \notin PinPcs
<1>1. At(PinPcs, s) = {}
  BY AtFinite, FS_EmptySet DEF IInv, PinsCounted, Pinned
<1> QED
  BY <1>1 DEF At

(* A slot without tokens has no operation that holds one.                   *)
LEMMA ZeroTokens ==
  ASSUME IInv, NEW s \in Slots, activeSampled[s] = 0
  PROVE  \A op \in Ops : opSlot[op] = s => opPc[op] \notin TokenPcs
<1>1. At(TokenPcs, s) = {}
  BY AtFinite, FS_EmptySet DEF IInv, TokensCounted, Holding
<1> QED
  BY <1>1 DEF At

(* Valid pins come from PinOpen, tokens from valid pins.                     *)
LEMMA OpMoves ==
  ASSUME NEW op \in Ops, OpPcType, opSlot \in [Ops -> Slots], opGeneration \in [Ops -> Nat],
         LoadCapture(op) \/ BeginStep(op) \/ EndToken(op) \/ PublishStep(op)
  PROVE  /\ \A other \in Ops \ {op} :
              /\ opPc'[other] = opPc[other] /\ opSlot'[other] = opSlot[other]
              /\ opGeneration'[other] = opGeneration[other]
         /\ opPc'[op] \in ValidPinPcs \cup TokenPcs \cup {"pinOpen"} =>
              opSlot'[op] = opSlot[op] /\ opGeneration'[op] = opGeneration[op]
         /\ opPc'[op] = "pinOpen" => generation[opSlot[op]] = opGeneration[op]
         /\ opPc'[op] \in ValidPinPcs =>
              \/ opPc[op] \in ValidPinPcs
              \/ opPc[op] = "pinOpen" /\ admissionOpen[opSlot[op]]
         /\ opPc'[op] \in TokenPcs => opPc[op] \in ValidPinPcs \cup TokenPcs
<1> USE DEF OpPcType, Goto, ValidPinPcs, TokenPcs, UnresolvedPcs
<1>1. CASE LoadCapture(op) \/ LoadOpen(op) \/ LoadGeneration(op) \/ Decide(op)
  BY <1>1 DEF LoadCapture, LoadOpen, LoadGeneration, Decide
<1>2. CASE PinGeneration(op) \/ PinOpen(op) \/ CountDrop(op)
  BY <1>2 DEF PinGeneration, PinOpen, CountDrop
<1>3. CASE LockToAdmit(op) \/ RecheckAdmit(op) \/ Admit(op) \/ Unpin(op)
  BY <1>3 DEF LockToAdmit, RecheckAdmit, Admit, Unpin
<1>4. CASE EndToken(op) \/ PublishStep(op)
  BY <1>4 DEF EndToken, PublishStep, CheckResult, RecheckPublish, AppendRecord, Retire
<1> QED
  BY <1>1, <1>2, <1>3, <1>4 DEF BeginStep

(* Every step keeps a slot chosen for reuse free of those who rely on it.   *)
LEMMA HandshakeStep == IInv /\ [Next]_vars => Handshake'
<1> SUFFICES ASSUME IInv, [Next]_vars PROVE Handshake'
  OBVIOUS
<1>0. /\ Handshake /\ WorkerJoined /\ CtlPcType /\ OpPcType /\ candidate \in 0 .. SlotCount
      /\ opSlot \in [Ops -> Slots] /\ opGeneration \in [Ops -> Nat]
      /\ admissionOpen \in [Slots -> BOOLEAN] /\ generation \in [Slots -> Nat]
  BY DEF IInv, TypeOK
<1> USE <1>0, NamesAssumption DEF GotoCtl, CtlPcType, StartPcs
<1>1. ASSUME NEW op \in Ops,
             LoadCapture(op) \/ BeginStep(op) \/ EndToken(op) \/ PublishStep(op)
      PROVE  Handshake'
  BY <1>1, OpFrame, OpMoves DEF ctlVars, Handshake, FreeCandidate
<1> USE DEF opVars, Handshake, FreeCandidate
<1>2. ASSUME NEW c \in Controllers, NEW h \in Shards, LockShard(c, h) PROVE Handshake'
  BY <1>2 DEF LockShard, ctlVars, slotVars
<1>3. ASSUME NEW c \in Controllers, CloseCaptureAdmission(c) PROVE Handshake'
  BY <1>3 DEF CloseCaptureAdmission, AfterClose, WorkerJoined
<1>4. ASSUME NEW c \in Controllers, PassBarrier(c) \/ Measure(c) PROVE Handshake'
  BY <1>4 DEF PassBarrier, Measure, AfterClose, slotVars
<1>5. ASSUME NEW c \in Controllers, DrainStep(c) PROVE Handshake'
  BY <1>5 DEF DrainStep, DrainLock, DrainTake, DrainSeries, slotVars
<1>6. CASE StartCapture \/ BeginScan
  BY <1>6 DEF StartCapture, BeginScan, slotVars
<1>7. CASE Scan
  BY SizesAssumption, ZeroPins, <1>7 DEF Slots, PinPcs, Scan, slotVars
<1>8. CASE Invalidate
  BY <1>8, ZeroTokens DEF Invalidate
<1>9. CASE RecheckPins
  BY <1>9, ZeroPins DEF RecheckPins, PinPcs, slotVars
<1>10. CASE Reset
  BY <1>10 DEF Reset
<1>11. CASE Open
  BY <1>11 DEF Open
<1>12. CASE Install
  BY <1>12 DEF Install, slotVars
<1>13. CASE Collect \/ FinalCollect \/ ClearIntervals
  BY <1>13 DEF Collect, FinalCollect, ClearIntervals, StartDrain, slotVars
<1>14. CASE UNCHANGED vars
  BY <1>14 DEF vars, slotVars, ctlVars
<1> QED
  BY <1>1, <1>2, <1>3, <1>4, <1>5, <1>6, <1>7, <1>8, <1>9, <1>10, <1>11, <1>12, <1>13,
     <1>14 DEF Next, StartStep

(* Of the controllers' steps only Invalidate changes a generation.          *)
LEMMA GenerationFrame ==
  ASSUME [Next]_vars,
         ~ \E op \in Ops : LoadCapture(op) \/ BeginStep(op) \/ EndToken(op) \/ PublishStep(op)
  PROVE  UNCHANGED generation \/ Invalidate
BY DEF Next, LockShard, CloseCaptureAdmission, PassBarrier, Measure, DrainStep, DrainLock,
       DrainTake, DrainSeries, StartCapture, StartStep, BeginScan, Scan, Reset,
       RecheckPins, Open, Install, Collect, FinalCollect, ClearIntervals,
       StartDrain, vars, slotVars

(* Every step keeps valid pins and tokens with their slot's generation.     *)
LEMMA GenerationStep == IInv /\ [Next]_vars => CountsBelongToCapture'
<1> SUFFICES ASSUME IInv, [Next]_vars PROVE CountsBelongToCapture'
  OBVIOUS
<1>0. /\ Handshake /\ CountsBelongToCapture /\ OpPcType
      /\ opSlot \in [Ops -> Slots] /\ opGeneration \in [Ops -> Nat]
      /\ generation \in [Slots -> Nat]
  BY DEF IInv, TypeOK
<1> USE <1>0 DEF CountsBelongToCapture
<1>1. ASSUME NEW op \in Ops,
             LoadCapture(op) \/ BeginStep(op) \/ EndToken(op) \/ PublishStep(op)
      PROVE  CountsBelongToCapture'
  BY <1>1, OpFrame, OpMoves DEF Handshake
<1>2. CASE ~ \E op \in Ops : LoadCapture(op) \/ BeginStep(op) \/ EndToken(op) \/ PublishStep(op)
  BY <1>2, ControllerFrame, ZeroTokens, GenerationFrame DEF opVars, Invalidate, Handshake,
     StartPcs, FreeCandidate
<1> QED
  BY <1>1, <1>2

-----------------------------------------------------------------------------
(* The close barrier: whoever read an open admission under a shard's mutex   *)
(* is waited for.                                                            *)

(* An operation that comes to write has just seen the admission open.       *)
LEMMA LateMoves ==
  ASSUME NEW op \in Ops, OpPcType, opSlot \in [Ops -> Slots],
         LoadCapture(op) \/ BeginStep(op) \/ EndToken(op) \/ PublishStep(op)
  PROVE  /\ \A other \in Ops \ {op} :
              opPc'[other] = opPc[other] /\ opSlot'[other] = opSlot[other]
         /\ opPc'[op] \in {"admit", "append"} =>
              /\ opSlot'[op] = opSlot[op]
              /\ currentCapture = opSlot[op] /\ admissionOpen[opSlot[op]]
<1> USE DEF OpPcType, Goto
<1>1. CASE LoadCapture(op) \/ LoadOpen(op) \/ LoadGeneration(op) \/ Decide(op)
  BY <1>1 DEF LoadCapture, LoadOpen, LoadGeneration, Decide
<1>2. CASE PinGeneration(op) \/ PinOpen(op) \/ CountDrop(op)
  BY <1>2 DEF PinGeneration, PinOpen, CountDrop
<1>3. CASE LockToAdmit(op) \/ RecheckAdmit(op) \/ Admit(op) \/ Unpin(op)
  BY <1>3 DEF LockToAdmit, RecheckAdmit, Admit, Unpin
<1>4. CASE EndToken(op) \/ PublishStep(op)
  BY <1>4 DEF EndToken, PublishStep, CheckResult, RecheckPublish, AppendRecord, Retire
<1> QED
  BY <1>1, <1>2, <1>3, <1>4 DEF BeginStep

(* Every step keeps a closed capture's late writers behind mutexes the barrier takes. *)
LEMMA LateStep == IInv /\ [Next]_vars => LateWritersAwaited'
<1> SUFFICES ASSUME IInv, [Next]_vars PROVE LateWritersAwaited'
  OBVIOUS
<1>0. /\ LateWritersAwaited /\ ShardsHeld /\ WorkerJoined /\ CtlPcType /\ OpPcType
      /\ opSlot \in [Ops -> Slots] /\ opShard \in [Ops -> Shards]
      /\ admissionOpen \in [Slots -> BOOLEAN]
  BY DEF IInv, TypeOK
<1> USE <1>0, NamesAssumption DEF GotoCtl, CtlPcType, LateWritersAwaited, Sealed
<1>1. ASSUME NEW op \in Ops,
             LoadCapture(op) \/ BeginStep(op) \/ EndToken(op) \/ PublishStep(op)
      PROVE  LateWritersAwaited'
  BY <1>1, OpFrame, LateMoves DEF ctlVars, captureVars
(* With all shards locked by one thread, no operation writes.                *)
<1>n. ASSUME NEW c \in Controllers, AllLocked(c), UNCHANGED opPc PROVE LateWritersAwaited'
  BY <1>n DEF AllLocked, ShardsHeld, ShardPcs
<1> USE DEF opVars
<1>2. ASSUME NEW c \in Controllers, NEW h \in Shards, LockShard(c, h) PROVE LateWritersAwaited'
  BY <1>2 DEF LockShard, ctlVars, captureVars, slotVars
<1>3. ASSUME NEW c \in Controllers, CloseCaptureAdmission(c) PROVE LateWritersAwaited'
  BY <1>3 DEF CloseCaptureAdmission, AfterClose, captureVars
<1>4. ASSUME NEW c \in Controllers, PassBarrier(c) PROVE LateWritersAwaited'
  BY <1>4, <1>n DEF PassBarrier
<1>5. ASSUME NEW c \in Controllers, Measure(c) \/ DrainStep(c) PROVE LateWritersAwaited'
  BY <1>5 DEF Measure, AfterClose, DrainStep, DrainLock, DrainTake, DrainSeries,
     captureVars, slotVars
<1>6. CASE StartCapture \/ BeginScan
  BY <1>6 DEF StartCapture, BeginScan, captureVars, slotVars
<1>7. CASE Scan \/ Invalidate \/ RecheckPins \/ Reset \/ Open \/ Install
  BY <1>7, <1>n DEF Scan, Invalidate, RecheckPins, Reset, Open, Install, ShardsHeld, StartPcs
<1>8. CASE Collect \/ FinalCollect \/ ClearIntervals
  BY <1>8 DEF Collect, FinalCollect, ClearIntervals, StartDrain, captureVars, slotVars
<1>9. CASE UNCHANGED vars
  BY <1>9 DEF vars, ctlVars, captureVars, slotVars
<1> QED
  BY <1>1, <1>2, <1>3, <1>4, <1>5, <1>6, <1>7, <1>8, <1>9 DEF Next, StartStep

-----------------------------------------------------------------------------
(* Conservation of sampled admissions.                                       *)

Outcomes == {"acceptedRecords", "publicationContentionDrops", "capacityDrops",
             "staleTokens", "invalidResults"}

(* Counting changes one counter of one slot.                                *)
LEMMA CountOne ==
  ASSUME CountersType, NEW s \in Slots, NEW q \in Qualities, Count(s, q)
  PROVE  \A t \in Slots, r \in Qualities :
           counters'[t][r] = IF t = s /\ r = q THEN counters[t][r] + 1 ELSE counters[t][r]
BY DEF CountersType, Count

(* Five of the counters are outcomes; each counts one.                       *)
LEMMA OutcomeNats ==
  ASSUME CountersType, NEW s \in Slots
  PROVE  /\ counters[s]["acceptedRecords"] \in Nat
         /\ counters[s]["publicationContentionDrops"] \in Nat
         /\ counters[s]["capacityDrops"] \in Nat
         /\ counters[s]["staleTokens"] \in Nat
         /\ counters[s]["invalidResults"] \in Nat
BY QualityNames DEF CountersType

(* The number of resolved admissions is a natural number.                   *)
LEMMA ResolvedNat ==
  ASSUME CountersType, NEW s \in Slots
  PROVE  Resolved(s) \in Nat
BY OutcomeNats DEF Resolved

(* So is the number of unresolved ones.                                     *)
LEMMA UnresolvedNat == \A s : Cardinality(At(UnresolvedPcs, s)) \in Nat
BY AtFinite, FS_CardinalityType

(* A token that gets its outcome leaves the unresolved ones.                 *)
LEMMA ResolveOne ==
  ASSUME TypeOK, AdmissionsConserved, NEW op \in Ops, NEW q \in Outcomes,
         opPc[op] \in UnresolvedPcs, Count(opSlot[op], q), Goto(op, "retire"),
         UNCHANGED opSlot
  PROVE  AdmissionsConserved'
<1>1. opSlot[op] \in Slots /\ q \in Qualities /\ CountersType /\ OpPcType
  BY DEF TypeOK, Outcomes, Qualities
<1>2. \A s \in Slots :
        Cardinality(At(UnresolvedPcs, s))' =
          IF s = opSlot[op] THEN Cardinality(At(UnresolvedPcs, s)) - 1
                            ELSE Cardinality(At(UnresolvedPcs, s))
  BY <1>1, Leave DEF UnresolvedPcs
<1>3. \A s \in Slots :
        Resolved(s)' = IF s = opSlot[op] THEN Resolved(s) + 1 ELSE Resolved(s)
  <2> SUFFICES ASSUME NEW s \in Slots
               PROVE  Resolved(s)' = IF s = opSlot[op] THEN Resolved(s) + 1 ELSE Resolved(s)
    OBVIOUS
  <2>1. \A r \in Qualities :
          counters'[s][r] = IF s = opSlot[op] /\ r = q THEN counters[s][r] + 1
                                                       ELSE counters[s][r]
    BY <1>1, CountOne
  <2>2. CASE s # opSlot[op]
    BY <2>1, <2>2, QualityNames DEF Resolved
  <2>3. CASE s = opSlot[op]
    <3>1. \A r \in Qualities :
            counters'[s][r] = IF r = q THEN counters[s][r] + 1 ELSE counters[s][r]
      BY <2>1, <2>3
    <3>2. /\ counters'[s]["acceptedRecords"] =
               IF q = "acceptedRecords" THEN counters[s]["acceptedRecords"] + 1
                                        ELSE counters[s]["acceptedRecords"]
          /\ counters'[s]["publicationContentionDrops"] =
               IF q = "publicationContentionDrops"
                 THEN counters[s]["publicationContentionDrops"] + 1
                 ELSE counters[s]["publicationContentionDrops"]
          /\ counters'[s]["capacityDrops"] =
               IF q = "capacityDrops" THEN counters[s]["capacityDrops"] + 1
                                      ELSE counters[s]["capacityDrops"]
          /\ counters'[s]["staleTokens"] =
               IF q = "staleTokens" THEN counters[s]["staleTokens"] + 1
                                    ELSE counters[s]["staleTokens"]
          /\ counters'[s]["invalidResults"] =
               IF q = "invalidResults" THEN counters[s]["invalidResults"] + 1
                                       ELSE counters[s]["invalidResults"]
      BY <3>1, QualityNames
    <3>3. CountersType
      BY <1>1
    <3> QED
      BY <2>3, <3>2, <3>3, OutcomeNats DEF Resolved, Outcomes
  <2> QED
    BY <2>2, <2>3
<1>4. \A s \in Slots : counters'[s]["sampledAdmissions"] = counters[s]["sampledAdmissions"]
  BY <1>1, CountOne, QualityNames DEF Outcomes
<1>5. \A s \in Slots : Resolved(s) \in Nat /\ Cardinality(At(UnresolvedPcs, s)) \in Nat
  BY <1>1, ResolvedNat, UnresolvedNat
<1> QED
  BY <1>2, <1>3, <1>4, <1>5 DEF AdmissionsConserved, Unresolved

(* Steps that count no outcome and resolve no token keep the balance.       *)
LEMMA Unaffected ==
  ASSUME AdmissionsConserved, \A s \in Slots : At(UnresolvedPcs, s)' = At(UnresolvedPcs, s),
         \A s \in Slots, q \in Outcomes \cup {"sampledAdmissions"} :
           counters'[s][q] = counters[s][q]
  PROVE  AdmissionsConserved'
BY DEF AdmissionsConserved, Unresolved, Resolved, Outcomes

(* Every step keeps admissions equal to outcomes and unresolved tokens.     *)
LEMMA ConservationStep == IInv /\ [Next]_vars => AdmissionsConserved'
<1> SUFFICES ASSUME IInv, [Next]_vars PROVE AdmissionsConserved'
  OBVIOUS
<1>0. /\ TypeOK /\ OpPcType /\ CountersType /\ AdmissionsConserved
      /\ opSlot \in [Ops -> Slots]
  BY DEF IInv, TypeOK
<1> USE <1>0
<1>1. ASSUME NEW op \in Ops, LoadCapture(op) PROVE AdmissionsConserved'
  BY <1>1, Aside, Unaffected DEF UnresolvedPcs, LoadCapture, slotVars
<1>2. ASSUME NEW op \in Ops,
             LoadOpen(op) \/ LoadGeneration(op) \/ Decide(op) \/ PinGeneration(op)
               \/ PinOpen(op) \/ RecheckAdmit(op) \/ Unpin(op) \/ Retire(op)
      PROVE  AdmissionsConserved'
  <2>1. /\ UNCHANGED <<opSlot, counters>>
        /\ \E pc : Goto(op, pc) /\ (opPc[op] \in UnresolvedPcs <=> pc \in UnresolvedPcs)
    BY <1>2 DEF LoadOpen, LoadGeneration, Decide, PinGeneration, PinOpen, RecheckAdmit,
       Unpin, Retire, UnresolvedPcs, slotVars
  <2>2. \A s \in Slots : At(UnresolvedPcs, s)' = At(UnresolvedPcs, s)
    BY <2>1, Stay
  <2> QED
    BY <2>1, <2>2, Unaffected
<1>3. ASSUME NEW op \in Ops, CountDrop(op) \/ LockToAdmit(op) PROVE AdmissionsConserved'
  <2>1. /\ UNCHANGED opSlot
        /\ \E pc : Goto(op, pc) /\ (opPc[op] \in UnresolvedPcs <=> pc \in UnresolvedPcs)
    BY <1>3 DEF CountDrop, LockToAdmit, UnresolvedPcs
  <2>2. \A s \in Slots : At(UnresolvedPcs, s)' = At(UnresolvedPcs, s)
    BY <2>1, Stay
  <2>3. \/ UNCHANGED counters
        \/ \E q \in Qualities \ (Outcomes \cup {"sampledAdmissions"}) : Count(opSlot[op], q)
    BY <1>3, QualityNames DEF CountDrop, LockToAdmit, Outcomes
  <2>4. \A s \in Slots, q \in Outcomes \cup {"sampledAdmissions"} :
          counters'[s][q] = counters[s][q]
    BY <2>3, CountOne, QualityNames DEF Outcomes
  <2> QED
    BY <2>2, <2>4, Unaffected
<1>4. ASSUME NEW op \in Ops, Admit(op) PROVE AdmissionsConserved'
  <2>1. "unpinHolding" \in UnresolvedPcs /\ opPc[op] \notin UnresolvedPcs
    BY <1>4 DEF Admit, UnresolvedPcs
  <2>2. \A s \in Slots :
          Cardinality(At(UnresolvedPcs, s))' =
            IF s = opSlot[op] THEN Cardinality(At(UnresolvedPcs, s)) + 1
                              ELSE Cardinality(At(UnresolvedPcs, s))
    BY <1>4, <2>1, Enter DEF Admit
  <2>3. \A s \in Slots : Resolved(s)' = Resolved(s)
    BY <1>4, CountOne, QualityNames DEF Admit, Resolved
  <2>4. \A s \in Slots :
          counters'[s]["sampledAdmissions"] =
            IF s = opSlot[op] THEN counters[s]["sampledAdmissions"] + 1
                              ELSE counters[s]["sampledAdmissions"]
    BY <1>4, CountOne, QualityNames DEF Admit
  <2>5. \A s \in Slots : Resolved(s) \in Nat /\ Cardinality(At(UnresolvedPcs, s)) \in Nat
    BY ResolvedNat, UnresolvedNat
  <2> QED
    BY <2>2, <2>3, <2>4, <2>5 DEF AdmissionsConserved, Unresolved
<1>5. ASSUME NEW op \in Ops,
             EndToken(op) \/ CheckResult(op) \/ RecheckPublish(op) \/ AppendRecord(op)
      PROVE  AdmissionsConserved'
  BY <1>5, Stay, Unaffected, ResolveOne DEF EndToken, CheckResult, RecheckPublish, AppendRecord,
     UnresolvedPcs, Outcomes
<1>6. CASE ~ \E op \in Ops : LoadCapture(op) \/ BeginStep(op) \/ EndToken(op) \/ PublishStep(op)
  <2>1. \A s \in Slots : At(UnresolvedPcs, s)' = At(UnresolvedPcs, s)
    BY <1>6, ControllerFrame, Still DEF opVars
  <2>2. UNCHANGED counters \/ Reset \/ \E c \in Controllers : Measure(c)
    BY <1>6 DEF Next, LockShard, CloseCaptureAdmission, PassBarrier, DrainStep,
       DrainLock, DrainTake, DrainSeries, StartCapture, StartStep, BeginScan, Scan,
       Invalidate, RecheckPins, Open, Install, Collect, FinalCollect, ClearIntervals,
       StartDrain, vars, slotVars
  <2>3. CASE UNCHANGED counters
    BY <2>1, <2>3, Unaffected
  <2>4. ASSUME NEW c \in Controllers, Measure(c) PROVE AdmissionsConserved'
    BY <2>4, QualityNames, <2>1, Unaffected DEF Measure, CountersType, Outcomes
  <2>5. CASE Reset
    <3>1. At(UnresolvedPcs, candidate)' = {} /\ candidate' = candidate
      BY <2>1, <2>5, ResetFree DEF Reset
    <3>2. \A s \in Slots, q \in Qualities :
            counters'[s][q] = IF s = candidate THEN 0 ELSE counters[s][q]
      BY <2>5 DEF Reset, CountersType
    <3> SUFFICES ASSUME NEW s \in Slots
                 PROVE  (counters[s]["sampledAdmissions"] =
                           Resolved(s) + Cardinality(Unresolved(s)))'
      BY DEF AdmissionsConserved
    <3>3. CASE s = candidate
      <4>1. \A q \in Qualities : counters'[s][q] = 0
        BY <3>2, <3>3
      <4>2. Resolved(s)' = 0 /\ counters'[s]["sampledAdmissions"] = 0
        BY <4>1, QualityNames DEF Resolved
      <4>3. At(UnresolvedPcs, s)' = {}
        BY <3>1, <3>3
      <4>4. Cardinality(Unresolved(s))' = 0
        BY <4>3, FS_EmptySet DEF Unresolved
      <4> QED
        BY <4>2, <4>4
    <3>4. CASE s # candidate
      BY <3>2, <3>4, QualityNames, <2>1 DEF Resolved, AdmissionsConserved, Unresolved
    <3> QED
      BY <3>3, <3>4
  <2> QED
    BY <2>2, <2>3, <2>4, <2>5
<1> QED
  BY <1>1, <1>2, <1>3, <1>4, <1>5, <1>6 DEF BeginStep, PublishStep

-----------------------------------------------------------------------------
(* Nobody works on any slot in the beginning.                                *)
LEMMA InitInv == Init => IInv
<1> SUFFICES ASSUME Init PROVE IInv
  OBVIOUS
<1>0. 0 \in Slots /\ 0 \in Shards /\ "idle" \in OpPcs /\ "stopped" \in OwnerPcs
      /\ "off" \in WorkerPcs
  BY SizesAssumption DEF Slots, Shards, OpPcs, OwnerPcs, WorkerPcs
<1>1. TypeOK
  <2>1. CtlPcType
    BY <1>0, NamesAssumption DEF Init, CtlPcType
  <2>2. ShardOwnerType /\ OpPcType /\ CountersType
    BY <1>0 DEF Init, ShardOwnerType, OpPcType, CountersType
  <2>3. candidate \in 0 .. SlotCount /\ drainShard \in [Controllers -> 0 .. ShardCount]
    BY SizesAssumption DEF Init
  <2> QED
    BY <1>0, <2>1, <2>2, <2>3 DEF Init, TypeOK
<1>2. \A s \in Slots : Pinned(s) = {} /\ Holding(s) = {} /\ Unresolved(s) = {}
  BY DEF Init, Pinned, Holding, Unresolved, At, PinPcs, ValidPinPcs, TokenPcs,
     UnresolvedPcs
<1>3. PinsCounted /\ TokensCounted
  BY <1>2, FS_EmptySet DEF Init, PinsCounted, TokensCounted
<1>4. AdmissionsConserved
  <2>1. \A s \in Slots, q \in Qualities : counters[s][q] = 0
    BY DEF Init
  <2>2. \A s \in Slots : Resolved(s) = 0 /\ Cardinality(Unresolved(s)) = 0
    BY <1>2, <2>1, FS_EmptySet, QualityNames DEF Resolved
  <2> QED
    BY <2>1, <2>2, QualityNames DEF AdmissionsConserved
<1>5. /\ ctlPc[Owner] = "stopped" /\ ctlPc[Worker] = "off"
      /\ \A op \in Ops : opPc[op] = "idle"
  BY NamesAssumption DEF Init
<1>6. WorkerJoined /\ ShardsHeld /\ ClosingACapture
  BY <1>5 DEF WorkerJoined, ShardsHeld, ClosingACapture, StartPcs, ShardPcs
<1>7. Handshake /\ CountsBelongToCapture /\ LateWritersAwaited
  BY <1>5 DEF Handshake, StartPcs, CountsBelongToCapture, LateWritersAwaited,
     ValidPinPcs, TokenPcs, UnresolvedPcs
<1> QED
  BY <1>1, <1>3, <1>4, <1>6, <1>7 DEF IInv

(* Every step keeps IInv.                                                    *)
LEMMA InvStep == IInv /\ [Next]_vars => IInv'
BY TypeStep, PinsStep, TokensStep, JoinedStep, ShardsStep, ClosingStep, HandshakeStep,
   GenerationStep, LateStep, ConservationStep DEF IInv

(* IInv is inductive.                                                        *)
LEMMA Invariance == Spec => []IInv
BY InitInv, InvStep, PTL DEF Spec

(* Types, and no pin or token count ever below zero.                         *)
THEOREM TypeCorrect == Spec => []TypeOK
<1>1. IInv => TypeOK
  BY DEF IInv
<1> QED
  BY Invariance, <1>1, PTL

(* A delayed Begin or End never counts in a later capture.                   *)
THEOREM NoForeignCounts == Spec => []CountsBelongToCapture
<1>1. IInv => CountsBelongToCapture
  BY DEF IInv
<1> QED
  BY Invariance, <1>1, PTL

(* StartCapture recycles only slots that nobody relies on.                   *)
THEOREM RecyclingIsSafe == Spec => []RecycledSlotIsFree
<1>1. IInv => RecycledSlotIsFree
  BY DEF IInv, Handshake, FreeCandidate, RecycledSlotIsFree
<1> QED
  BY Invariance, <1>1, PTL

(* Every sampled admission has exactly one outcome or is still unresolved.   *)
THEOREM Conservation == Spec => []AdmissionsConserved
<1>1. IInv => AdmissionsConserved
  BY DEF IInv
<1> QED
  BY Invariance, <1>1, PTL

(* After the barrier of CloseCaptureAdmission nothing is admitted and no     *)
(* record is accepted until the slot is recycled.                            *)
THEOREM CloseIsABarrier == Spec => SealedCaptureIsFrozen
<1>1. IInv /\ [Next]_vars => [SealedStep]_vars
  <2> SUFFICES ASSUME IInv, [Next]_vars, NEW s \in Slots, Sealed(s), ctlPc[Owner] # "reset"
               PROVE  /\ counters'[s]["sampledAdmissions"] = counters[s]["sampledAdmissions"]
                      /\ counters'[s]["acceptedRecords"] = counters[s]["acceptedRecords"]
    BY DEF SealedStep
  <2>0. /\ CountersType /\ LateWritersAwaited /\ OpPcType
        /\ opSlot \in [Ops -> Slots]
    BY DEF IInv, TypeOK
  <2> USE <2>0, QualityNames
  <2>1. ASSUME NEW op \in Ops, Admit(op) \/ AppendRecord(op) PROVE UNCHANGED counters[s]
    BY <2>1 DEF Admit, AppendRecord, LateWritersAwaited, Count, CountersType
  <2>2. ASSUME NEW op \in Ops, EndToken(op) \/ CheckResult(op) \/ RecheckPublish(op)
                                  \/ CountDrop(op) \/ LockToAdmit(op)
        PROVE  /\ counters'[s]["sampledAdmissions"] = counters[s]["sampledAdmissions"]
               /\ counters'[s]["acceptedRecords"] = counters[s]["acceptedRecords"]
    BY <2>2, CountOne DEF EndToken, CheckResult, RecheckPublish, CountDrop, LockToAdmit
  <2>3. ASSUME NEW op \in Ops, LoadCapture(op) \/ LoadOpen(op) \/ LoadGeneration(op)
                                  \/ Decide(op) \/ PinGeneration(op) \/ PinOpen(op)
                                  \/ RecheckAdmit(op) \/ Unpin(op) \/ Retire(op)
        PROVE  UNCHANGED counters
    BY <2>3 DEF LoadCapture, LoadOpen, LoadGeneration, Decide, PinGeneration, PinOpen,
       RecheckAdmit, Unpin, Retire, slotVars
  <2>4. ASSUME NEW c \in Controllers, Measure(c)
        PROVE  /\ counters'[s]["sampledAdmissions"] = counters[s]["sampledAdmissions"]
               /\ counters'[s]["acceptedRecords"] = counters[s]["acceptedRecords"]
    BY <2>4 DEF Measure, CountersType
  <2>5. CASE ~ \E op \in Ops : LoadCapture(op) \/ BeginStep(op) \/ EndToken(op) \/ PublishStep(op)
    <3>1. UNCHANGED counters \/ \E c \in Controllers : Measure(c)
      BY <2>5 DEF Next, LockShard, CloseCaptureAdmission, PassBarrier, DrainStep,
         DrainLock, DrainTake, DrainSeries, StartCapture, StartStep, BeginScan, Scan,
         Invalidate, RecheckPins, Reset, Open, Install, Collect, FinalCollect,
         ClearIntervals, StartDrain, vars, slotVars
    <3> QED
      BY <2>4, <3>1
  <2> QED
    BY <2>1, <2>2, <2>3, <2>5 DEF BeginStep, PublishStep
<1> QED
  BY Invariance, <1>1, PTL DEF Spec, SealedCaptureIsFrozen

-----------------------------------------------------------------------------
(* Induction, and the number of records in the shards.                       *)

(* Every nonempty set of natural numbers has a least element.                *)
LEMMA Least ==
  ASSUME NEW T, T \subseteq Nat, T # {}
  PROVE  \E x \in T : \A y \in T : x <= y
<1> DEFINE D == {0 .. n : n \in T}
<1>1. D \subseteq FiniteSubsetsOf(Nat) /\ D # {}
  <2>1. ASSUME NEW n \in T PROVE 0 .. n \in FiniteSubsetsOf(Nat)
    BY FS_Interval DEF FiniteSubsetsOf
  <2> QED
    BY <2>1
<1>2. PICK I \in D : \A J \in D : ~ (<<J, I>> \in StrictSubsetOrdering(Nat))
  <2> HIDE DEF D
  <2> QED
    BY <1>1, WFMin, FS_StrictSubsetOrderingWellFounded
<1>3. PICK x \in T : I = 0 .. x
  OBVIOUS
<1>4. ASSUME NEW y \in T PROVE x <= y
  <2>1. SUFFICES ASSUME y < x PROVE FALSE
    OBVIOUS
  <2>2. 0 .. y \in D
    OBVIOUS
  <2>3. <<0 .. y, 0 .. x>> \in StrictSubsetOrdering(Nat)
    <3> DEFINE Y == 0 .. y  X == 0 .. x
    <3>1. Y \subseteq X /\ x \notin Y /\ x \in X
      BY <2>1
    <3>2. Y \in SUBSET Nat /\ X \in SUBSET Nat
      OBVIOUS
    <3> HIDE DEF X, Y
    <3>3. Y # X
      BY <3>1
    <3>4. <<Y, X>> \in StrictSubsetOrdering(Nat)
      BY <3>1, <3>2, <3>3 DEF StrictSubsetOrdering
    <3> QED
      BY <3>4 DEF X, Y
  <2> QED
    BY <1>2, <1>3, <2>2, <2>3
<1> QED
  BY <1>4

(* Induction up to a bound, for a property given by the set that has it.     *)
LEMMA UpTo ==
  ASSUME NEW N \in Nat, NEW Q, 0 \in Q, \A n \in 0 .. N - 1 : n \in Q => n + 1 \in Q
  PROVE  \A n \in 0 .. N : n \in Q
<1> DEFINE T == (0 .. N) \ Q
<1>1. SUFFICES ASSUME T # {} PROVE FALSE
  OBVIOUS
<1>2. PICK k \in T : \A j \in T : k <= j
  <2>1. T \subseteq Nat
    OBVIOUS
  <2> HIDE DEF T
  <2> QED
    BY <1>1, <2>1, Least
<1>3. k \in 1 .. N
  OBVIOUS
<1>4. k - 1 \in 0 .. N - 1 /\ k - 1 \notin T /\ k = (k - 1) + 1
  BY <1>2, <1>3
<1> QED
  BY <1>4

(* A sum over the first shards is what its definition says.                  *)
Sums(g, f, k) ==
  /\ g \in [0 .. k -> Nat]
  /\ \A n \in 0 .. k : g[n] = IF n = 0 THEN 0 ELSE g[n - 1] + f[n - 1]

(* There is such a function of the sums of any counts.                       *)
LEMMA SumsExist ==
  ASSUME NEW f \in [Shards -> Nat]
  PROVE  \E g : Sums(g, f, ShardCount)
<1> DEFINE Q == {k \in 0 .. ShardCount : \E g : Sums(g, f, k)}
<1>0. ShardCount \in Nat
  BY SizesAssumption
<1>1. 0 \in Q
  <2>1. Sums([n \in 0 .. 0 |-> 0], f, 0)
    BY DEF Sums
  <2> QED
    BY <1>0, <2>1
<1>2. ASSUME NEW k \in 0 .. ShardCount - 1, k \in Q PROVE k + 1 \in Q
  <2>1. PICK g : Sums(g, f, k)
    BY <1>2
  <2> DEFINE e == [n \in 0 .. k + 1 |-> IF n = k + 1 THEN g[k] + f[k] ELSE g[n]]
  <2>2. f[k] \in Nat /\ g \in [0 .. k -> Nat] /\ k \in 0 .. k
    BY <1>0, <2>1 DEF Shards, Sums
  <2>3. e \in [0 .. k + 1 -> Nat]
    BY <1>0, <2>2
  <2>4. ASSUME NEW n \in 0 .. k + 1 PROVE e[n] = IF n = 0 THEN 0 ELSE e[n - 1] + f[n - 1]
    <3>1. CASE n = k + 1
      BY <3>1, <1>0
    <3>2. CASE n # k + 1
      BY <3>2, <1>0, <2>1 DEF Sums
    <3> QED
      BY <3>1, <3>2
  <2>5. Sums(e, f, k + 1)
    <3> HIDE DEF e
    <3> QED
      BY <2>3, <2>4 DEF Sums
  <2> QED
    BY <2>5, <1>0
<1>3. \A k \in 0 .. ShardCount : k \in Q
  <2> HIDE DEF Q
  <2> QED
    BY <1>0, <1>1, <1>2, UpTo
<1> QED
  BY <1>0, <1>3

(* SumsBelow is the one.                                                     *)
LEMMA SumsDefined ==
  ASSUME NEW f \in [Shards -> Nat]
  PROVE  Sums(SumsBelow(f), f, ShardCount)
<1>1. PICK g : Sums(g, f, ShardCount)
  BY SumsExist
<1> DEFINE Eqn(s) == s = [n \in 0 .. ShardCount |-> IF n = 0 THEN 0 ELSE s[n - 1] + f[n - 1]]
<1>2. SumsBelow(f) = CHOOSE s : Eqn(s)
  BY DEF SumsBelow
<1>3. Eqn(g)
  BY <1>1 DEF Sums
<1>4. Eqn(SumsBelow(f))
  <2> HIDE DEF Eqn
  <2> QED
    BY <1>2, <1>3
<1>0. ShardCount \in Nat
  BY SizesAssumption
<1> DEFINE s == SumsBelow(f)
<1>5. \A n \in 0 .. ShardCount : s[n] = IF n = 0 THEN 0 ELSE s[n - 1] + f[n - 1]
  BY <1>4
<1>6. s = [n \in 0 .. ShardCount |-> s[n]]
  BY <1>4
<1> DEFINE Q == {n \in 0 .. ShardCount : s[n] \in Nat}
<1> HIDE DEF s
<1>7. \A n \in 0 .. ShardCount : n \in Q
  <2>1. 0 \in Q
    BY <1>0, <1>5
  <2>2. ASSUME NEW n \in 0 .. ShardCount - 1, n \in Q PROVE n + 1 \in Q
    BY <1>0, <1>5, <2>2 DEF Shards
  <2> HIDE DEF Q
  <2> QED
    BY <1>0, <2>1, <2>2, UpTo
<1>8. s \in [0 .. ShardCount -> Nat]
  BY <1>6, <1>7
<1>9. Sums(s, f, ShardCount)
  BY <1>5, <1>8 DEF Sums
<1> QED
  BY <1>9 DEF s

(* A shard whose count changes changes the sum by as much.                   *)
LEMMA SumChanges ==
  ASSUME NEW f \in [Shards -> Nat], NEW h \in Shards, NEW v \in Nat
  PROVE  /\ SumsBelow(f)[ShardCount] \in Nat
         /\ SumsBelow([f EXCEPT ![h] = v])[ShardCount] \in Nat
         /\ SumsBelow([f EXCEPT ![h] = v])[ShardCount] =
              SumsBelow(f)[ShardCount] + (v - f[h])
<1> DEFINE e == [f EXCEPT ![h] = v]  s == SumsBelow(f)  t == SumsBelow(e)
           Q == {n \in 0 .. ShardCount : t[n] = s[n] + IF n > h THEN v - f[h] ELSE 0}
<1>0. ShardCount \in Nat /\ h \in 0 .. ShardCount - 1
  BY SizesAssumption DEF Shards
<1>1. e \in [Shards -> Nat] /\ f[h] \in Nat
  OBVIOUS
<1>2. e[h] = v /\ \A i \in Shards \ {h} : e[i] = f[i]
  OBVIOUS
<1> HIDE DEF e
<1>3. Sums(s, f, ShardCount) /\ Sums(t, e, ShardCount)
  BY <1>1, SumsDefined
<1> HIDE DEF s, t
<1>4. \A n \in 0 .. ShardCount : n \in Q
  <2>1. 0 \in Q
    BY <1>0, <1>3 DEF Sums
  <2>2. ASSUME NEW n \in 0 .. ShardCount - 1, n \in Q PROVE n + 1 \in Q
    <3>1. n + 1 \in 0 .. ShardCount /\ n + 1 # 0 /\ (n + 1) - 1 = n /\ n \in Shards
      BY <1>0 DEF Shards
    <3>2. s[n + 1] = s[n] + f[n] /\ t[n + 1] = t[n] + e[n]
      BY <1>3, <3>1 DEF Sums
    <3>3. s[n] \in Nat /\ t[n] \in Nat /\ f[n] \in Nat
      BY <1>3, <3>1, <1>0 DEF Sums
    <3>4. t[n] = s[n] + IF n > h THEN v - f[h] ELSE 0
      BY <2>2
    <3>5. CASE n = h
      BY <3>1, <3>2, <3>3, <3>4, <3>5, <1>0, <1>1, <1>2
    <3>6. CASE n # h
      BY <3>1, <3>2, <3>3, <3>4, <3>6, <1>0, <1>1, <1>2
    <3> QED
      BY <3>5, <3>6
  <2> HIDE DEF Q
  <2> QED
    BY <1>0, <2>1, <2>2, UpTo
<1>5. ShardCount \in Q /\ ShardCount > h
  BY <1>0, <1>4
<1>6. s[ShardCount] \in Nat /\ t[ShardCount] \in Nat
  BY <1>0, <1>3 DEF Sums
<1> QED
  BY <1>5, <1>6 DEF e, s, t

(* Empty shards hold nothing.                                                *)
LEMMA SumOfNothing ==
  ASSUME NEW f \in [Shards -> Nat], \A h \in Shards : f[h] = 0
  PROVE  SumsBelow(f)[ShardCount] = 0
<1> DEFINE s == SumsBelow(f)  Q == {n \in 0 .. ShardCount : s[n] = 0}
<1>0. ShardCount \in Nat
  BY SizesAssumption
<1>1. Sums(s, f, ShardCount)
  BY SumsDefined
<1> HIDE DEF s
<1>2. \A n \in 0 .. ShardCount : n \in Q
  <2>1. 0 \in Q
    BY <1>0, <1>1 DEF Sums
  <2>2. ASSUME NEW n \in 0 .. ShardCount - 1, n \in Q PROVE n + 1 \in Q
    BY <1>0, <1>1, <2>2 DEF Shards, Sums
  <2> HIDE DEF Q
  <2> QED
    BY <1>0, <2>1, <2>2, UpTo
<1>3. ShardCount \in Q
  BY <1>0, <1>2
<1> QED
  BY <1>3 DEF s

-----------------------------------------------------------------------------
(* The inductive invariant behind the accounts of the records, with IInv.    *)

(* A slot reset by StartCapture starts from nothing.                         *)
FreshCapture ==
  ctlPc[Owner] \in {"open", "install"} =>
    /\ counters[candidate]["acceptedRecords"] = 0
    /\ \A h \in Shards : shardCount[h] = 0
    /\ intervalCalls = 0 /\ reported = 0

(* Only while a capture runs is admission open.                              *)
AdmissionClosed ==
  ctlPc[Owner] \notin {"install", "running"} =>
    currentCapture = NoSlot \/ ~admissionOpen[currentCapture]

(* The worker runs while a capture does.                                     *)
WorkerRuns == ctlPc[Owner] \in {"running", "lockToClose", "measure"} => ctlPc[Worker] # "off"

(* The worker's last collection comes after the stop, and leaves nothing in  *)
(* the shards it has been at.                                                *)
LastCollection ==
  finalCollect =>
    /\ ctlPc[Owner] = "joining"
    /\ ctlPc[Worker] \in {"drainLock", "drainTake", "drainSeries"}
    /\ \A h \in Shards :
         h < drainShard[Worker] \/ ctlPc[Worker] = "drainSeries" => shardCount[h] = 0

(* When the worker has left, nothing is left for ClearIntervals.             *)
NothingLeft ==
  /\ ctlPc[Worker] = "off" => intervalCalls = 0 /\ \A h \in Shards : shardCount[h] = 0
  /\ discarded = 0

(* All of it.                                                                *)
RecordsInv ==
  /\ IInv
  /\ UnfinishedBoundsTokens /\ RecordsConserved /\ FreshCapture
  /\ AdmissionClosed /\ WorkerRuns /\ LastCollection /\ NothingLeft

-----------------------------------------------------------------------------
(* The accounts of the records, step by step.                                *)

(* Every step keeps admission closed but while a capture runs.              *)
LEMMA AdmissionStep == RecordsInv /\ [Next]_vars => AdmissionClosed'
<1> SUFFICES ASSUME RecordsInv, [Next]_vars PROVE AdmissionClosed'
  OBVIOUS
<1>0. /\ AdmissionClosed /\ CtlPcType /\ admissionOpen \in [Slots -> BOOLEAN]
      /\ currentCapture \in Slots \cup {NoSlot} /\ WorkerJoined
  BY DEF RecordsInv, IInv, TypeOK
<1> USE <1>0, NamesAssumption DEF GotoCtl, CtlPcType, AdmissionClosed, captureVars, slotVars
<1>1. ASSUME NEW op \in Ops,
             LoadCapture(op) \/ BeginStep(op) \/ EndToken(op) \/ PublishStep(op)
      PROVE  AdmissionClosed'
  BY <1>1, OpFrame DEF ctlVars
<1>2. ASSUME NEW c \in Controllers, NEW h \in Shards, LockShard(c, h) PROVE AdmissionClosed'
  BY <1>2 DEF LockShard, ctlVars
<1>3. ASSUME NEW c \in Controllers, CloseCaptureAdmission(c) PROVE AdmissionClosed'
  BY <1>3 DEF CloseCaptureAdmission, AfterClose
<1>4. ASSUME NEW c \in Controllers, PassBarrier(c) \/ Measure(c) PROVE AdmissionClosed'
  BY <1>4 DEF PassBarrier, Measure, AfterClose
<1>5. ASSUME NEW c \in Controllers, DrainStep(c) PROVE AdmissionClosed'
  BY <1>5 DEF DrainStep, DrainLock, DrainTake, DrainSeries
<1>6. CASE StartCapture \/ BeginScan \/ Scan
  BY <1>6 DEF StartCapture, BeginScan, Scan
<1>7. CASE Invalidate \/ RecheckPins \/ Reset \/ Open \/ Install
  BY <1>7 DEF Invalidate, RecheckPins, Reset, Open, Install
<1>8. CASE Collect \/ FinalCollect \/ ClearIntervals
  BY <1>8 DEF Collect, FinalCollect, ClearIntervals, StartDrain
<1>9. CASE UNCHANGED vars
  BY <1>9 DEF vars, ctlVars
<1> QED
  BY <1>1, <1>2, <1>3, <1>4, <1>5, <1>6, <1>7, <1>8, <1>9 DEF Next, StartStep

(* Every step keeps the worker at work while a capture runs.                *)
LEMMA WorkerRunsStep == RecordsInv /\ [Next]_vars => WorkerRuns'
<1> SUFFICES ASSUME RecordsInv, [Next]_vars PROVE WorkerRuns'
  OBVIOUS
<1>0. WorkerRuns /\ CtlPcType /\ LastCollection /\ WorkerJoined /\ finalCollect \in BOOLEAN
  BY DEF RecordsInv, IInv, TypeOK
<1> USE <1>0, NamesAssumption DEF GotoCtl, CtlPcType, WorkerRuns
<1>1. ASSUME NEW op \in Ops,
             LoadCapture(op) \/ BeginStep(op) \/ EndToken(op) \/ PublishStep(op)
      PROVE  WorkerRuns'
  BY <1>1, OpFrame DEF ctlVars
<1>2. ASSUME NEW c \in Controllers, NEW h \in Shards, LockShard(c, h) PROVE WorkerRuns'
  BY <1>2 DEF LockShard, ctlVars
<1>3. ASSUME NEW c \in Controllers, CloseCaptureAdmission(c) PROVE WorkerRuns'
  BY <1>3 DEF CloseCaptureAdmission, AfterClose
<1>4. ASSUME NEW c \in Controllers, PassBarrier(c) \/ Measure(c) PROVE WorkerRuns'
  BY <1>4 DEF PassBarrier, Measure, AfterClose
<1>5. ASSUME NEW c \in Controllers, DrainStep(c) PROVE WorkerRuns'
  BY <1>5 DEF DrainStep, DrainLock, DrainTake, DrainSeries, LastCollection
<1>6. CASE StartCapture \/ BeginScan \/ Scan
  BY <1>6 DEF StartCapture, BeginScan, Scan
<1>7. CASE Invalidate \/ RecheckPins \/ Reset \/ Open \/ Install
  BY <1>7 DEF Invalidate, RecheckPins, Reset, Open, Install
<1>8. CASE Collect \/ FinalCollect \/ ClearIntervals
  BY <1>8 DEF Collect, FinalCollect, ClearIntervals, StartDrain, StopRequested
<1>9. CASE UNCHANGED vars
  BY <1>9 DEF vars, ctlVars
<1> QED
  BY <1>1, <1>2, <1>3, <1>4, <1>5, <1>6, <1>7, <1>8, <1>9 DEF Next, StartStep

(* After the stop, and while no worker runs, no operation appends.          *)
LEMMA NobodyAppends ==
  ASSUME RecordsInv, finalCollect \/ ctlPc[Worker] = "off"
  PROVE  \A op \in Ops : opPc[op] # "append"
<1> SUFFICES ASSUME NEW op \in Ops, opPc[op] = "append" PROVE FALSE
  OBVIOUS
<1>1. /\ LateWritersAwaited /\ AdmissionClosed /\ WorkerRuns /\ LastCollection /\ ShardsHeld
      /\ CtlPcType /\ opSlot \in [Ops -> Slots] /\ opShard \in [Ops -> Shards]
  BY DEF RecordsInv, IInv, TypeOK
<1>2. currentCapture = opSlot[op] /\ ~Sealed(opSlot[op])
  BY <1>1 DEF LateWritersAwaited
<1>3. currentCapture # NoSlot /\ currentCapture \in Slots
  BY <1>1, <1>2, NamesAssumption
<1>4. ctlPc[Owner] # "install"
  BY <1>1, NamesAssumption DEF ShardsHeld, AllLocked, StartPcs, ShardPcs
<1>5. ctlPc[Owner] # "running" /\ ctlPc[Owner] # "lockToClose" /\ ctlPc[Worker] # "lockToClose"
  BY <1>1 DEF LastCollection, WorkerRuns
<1> QED
  BY <1>1, <1>2, <1>3, <1>4, <1>5 DEF AdmissionClosed, Sealed

(* Of the operations' steps only AppendRecord puts a record in a shard.      *)
LEMMA ShardFrame ==
  ASSUME NEW op \in Ops,
         LoadCapture(op) \/ BeginStep(op) \/ EndToken(op) \/ PublishStep(op)
  PROVE  UNCHANGED shardCount \/ (opPc[op] = "append" /\ AppendRecord(op))
BY DEF BeginStep, PublishStep, LoadCapture, LoadOpen, LoadGeneration, Decide, PinGeneration,
       PinOpen, CountDrop, LockToAdmit, RecheckAdmit, Admit, Unpin, EndToken, CheckResult,
       RecheckPublish, AppendRecord, Retire, shardVars

(* Every step keeps the last collection on its way through the shards.      *)
LEMMA LastStep == RecordsInv /\ [Next]_vars => LastCollection'
<1> SUFFICES ASSUME RecordsInv, [Next]_vars, finalCollect'
             PROVE  /\ ctlPc'[Owner] = "joining"
                    /\ ctlPc'[Worker] \in {"drainLock", "drainTake", "drainSeries"}
                    /\ \A h \in Shards :
                         h < drainShard'[Worker] \/ ctlPc'[Worker] = "drainSeries" =>
                           shardCount'[h] = 0
  BY DEF LastCollection
<1>0. /\ LastCollection /\ CtlPcType /\ WorkerJoined /\ finalCollect \in BOOLEAN
      /\ shardCount \in [Shards -> Nat] /\ drainShard \in [Controllers -> 0 .. ShardCount]
      /\ ShardsHeld
  BY DEF RecordsInv, IInv, TypeOK
<1>s. ShardCount \in Nat
  BY SizesAssumption
<1> DEFINE Goal == LastCollection'
<1> USE <1>0, <1>s, NamesAssumption DEF GotoCtl, CtlPcType, LastCollection
<1>1. ASSUME NEW op \in Ops,
             LoadCapture(op) \/ BeginStep(op) \/ EndToken(op) \/ PublishStep(op)
      PROVE  Goal
  BY <1>1, OpFrame, ShardFrame, NobodyAppends DEF ctlVars
<1>2. ASSUME NEW c \in Controllers, NEW h \in Shards, LockShard(c, h) PROVE Goal
  BY <1>2 DEF LockShard, ctlVars
<1>3. ASSUME NEW c \in Controllers, CloseCaptureAdmission(c) PROVE Goal
  BY <1>3 DEF CloseCaptureAdmission, AfterClose, shardVars
<1>4. ASSUME NEW c \in Controllers, PassBarrier(c) \/ Measure(c) PROVE Goal
  BY <1>4 DEF PassBarrier, Measure, AfterClose, shardVars
<1>5. ASSUME NEW c \in Controllers, DrainStep(c) PROVE Goal
  <2>1. CASE DrainLock(c)
    BY <1>5, <2>1 DEF DrainLock
  <2>2. CASE DrainTake(c)
    BY <2>2 DEF DrainTake, ShardsHeld, Shards
  <2>3. CASE DrainSeries(c)
    BY <2>3 DEF DrainSeries
  <2> QED
    BY <1>5, <2>1, <2>2, <2>3 DEF DrainStep
<1>6. CASE StartCapture \/ BeginScan \/ Scan
  BY <1>6 DEF StartCapture, BeginScan, Scan
<1>7. CASE Invalidate \/ RecheckPins \/ Reset \/ Open \/ Install
  BY <1>7 DEF Invalidate, RecheckPins, Reset, Open, Install
<1>8. CASE Collect \/ FinalCollect \/ ClearIntervals
  <2>1. ~ClearIntervals /\ ~Collect
    BY DEF Collect, ClearIntervals, StartDrain
  <2>2. /\ ctlPc[Owner] = "joining" /\ ctlPc' = [ctlPc EXCEPT ![Worker] = "drainLock"]
        /\ drainShard'[Worker] = 0
    BY <1>8, <2>1 DEF FinalCollect, StartDrain, StopRequested
  <2>3. \A h \in Shards : ~(h < 0)
    BY DEF Shards
  <2> QED
    BY <2>2, <2>3
<1>9. CASE UNCHANGED vars
  BY <1>9 DEF vars, ctlVars, shardVars
<1> QED
  BY <1>1, <1>2, <1>3, <1>4, <1>5, <1>6, <1>7, <1>8, <1>9 DEF Next, StartStep

(* Every step keeps the shards and buckets empty while no worker runs.      *)
LEMMA NothingStep == RecordsInv /\ [Next]_vars => NothingLeft'
<1> SUFFICES ASSUME RecordsInv, [Next]_vars PROVE NothingLeft'
  OBVIOUS
<1>0. /\ LastCollection /\ CtlPcType /\ WorkerJoined /\ finalCollect \in BOOLEAN
      /\ shardCount \in [Shards -> Nat] /\ drainShard \in [Controllers -> 0 .. ShardCount]
      /\ ShardsHeld /\ NothingLeft /\ discarded \in Nat /\ intervalCalls \in Nat
  BY DEF RecordsInv, IInv, TypeOK
<1> USE <1>0, NamesAssumption DEF GotoCtl, CtlPcType, NothingLeft, seriesVars, shardVars
<1>1. ASSUME NEW op \in Ops,
             LoadCapture(op) \/ BeginStep(op) \/ EndToken(op) \/ PublishStep(op)
      PROVE  NothingLeft'
  BY <1>1, OpFrame, ShardFrame, NobodyAppends DEF ctlVars
<1>2. ASSUME NEW c \in Controllers, NEW h \in Shards, LockShard(c, h) PROVE NothingLeft'
  BY <1>2 DEF LockShard, ctlVars
<1>3. ASSUME NEW c \in Controllers, CloseCaptureAdmission(c) PROVE NothingLeft'
  BY <1>3 DEF CloseCaptureAdmission, AfterClose
<1>4. ASSUME NEW c \in Controllers, PassBarrier(c) \/ Measure(c) PROVE NothingLeft'
  BY <1>4 DEF PassBarrier, Measure, AfterClose
<1>5. ASSUME NEW c \in Controllers, DrainStep(c) PROVE NothingLeft'
  BY <1>5 DEF DrainLock, DrainTake, ShardsHeld, WorkerJoined, DrainSeries, LastCollection,
     DrainStep
<1>6. CASE StartCapture \/ BeginScan \/ Scan
  BY <1>6 DEF StartCapture, BeginScan, Scan
<1>7. CASE Invalidate \/ RecheckPins \/ Reset \/ Open \/ Install
  BY <1>7 DEF Invalidate, RecheckPins, Reset, Open, Install
<1>8. CASE Collect \/ FinalCollect \/ ClearIntervals
  BY <1>8 DEF Collect, FinalCollect, ClearIntervals, StartDrain
<1>9. CASE UNCHANGED vars
  BY <1>9 DEF vars, ctlVars
<1> QED
  BY <1>1, <1>2, <1>3, <1>4, <1>5, <1>6, <1>7, <1>8, <1>9 DEF Next, StartStep
(* Operations count outcomes; only an appended record counts as accepted.    *)
LEMMA AcceptFrame ==
  ASSUME TypeOK, NEW op \in Ops,
         LoadCapture(op) \/ BeginStep(op) \/ EndToken(op) \/ PublishStep(op)
  PROVE  /\ \A s \in Slots :
              counters'[s]["unfinishedOperations"] = counters[s]["unfinishedOperations"]
         /\ \/ AppendRecord(op)
            \/ /\ UNCHANGED shardCount
               /\ \A s \in Slots : counters'[s]["acceptedRecords"] = counters[s]["acceptedRecords"]
<1>0. CountersType /\ opSlot \in [Ops -> Slots]
  BY DEF TypeOK
<1>1. \/ UNCHANGED counters
      \/ \E q \in Qualities \ {"acceptedRecords", "unfinishedOperations"} : Count(opSlot[op], q)
      \/ AppendRecord(op) /\ \E q \in Qualities \ {"unfinishedOperations"} : Count(opSlot[op], q)
  <2> USE QualityNames DEF slotVars
  <2>1. CASE LoadCapture(op) \/ LoadOpen(op) \/ LoadGeneration(op) \/ Decide(op)
    BY <2>1 DEF LoadCapture, LoadOpen, LoadGeneration, Decide
  <2>2. CASE PinGeneration(op) \/ PinOpen(op) \/ CountDrop(op)
    BY <2>2 DEF PinGeneration, PinOpen, CountDrop
  <2>3. CASE LockToAdmit(op) \/ RecheckAdmit(op) \/ Admit(op) \/ Unpin(op)
    BY <2>3 DEF LockToAdmit, RecheckAdmit, Admit, Unpin
  <2>4. CASE EndToken(op) \/ PublishStep(op)
    BY <2>4 DEF EndToken, PublishStep, CheckResult, RecheckPublish, AppendRecord, Retire
  <2> QED
    BY <2>1, <2>2, <2>3, <2>4 DEF BeginStep
<1>2. UNCHANGED shardCount \/ AppendRecord(op)
  BY ShardFrame
<1> QED
  BY <1>0, <1>1, <1>2, CountOne, QualityNames

(* The controllers' other steps leave the records where they are, and end    *)
(* no reset.                                                                 *)
LEMMA RecordFrame ==
  ASSUME RecordsInv, [Next]_vars,
         ~ \E op \in Ops : LoadCapture(op) \/ BeginStep(op) \/ EndToken(op) \/ PublishStep(op)
  PROVE  \/ Reset \/ Install
         \/ \E c \in Controllers : DrainTake(c) \/ DrainSeries(c) \/ Measure(c)
         \/ /\ UNCHANGED <<counters, currentCapture, shardCount, seriesVars>>
            /\ ctlPc[Owner] \in {"open", "install"} =>
                 ctlPc'[Owner] \in {"open", "install"} /\ UNCHANGED candidate
            /\ ctlPc'[Owner] \in {"open", "install"} => ctlPc[Owner] \in {"open", "install"}
<1>0. CtlPcType /\ WorkerJoined
  BY DEF RecordsInv, IInv, TypeOK
<1> USE <1>0, NamesAssumption DEF GotoCtl, CtlPcType, slotVars, captureVars, ctlVars, shardVars,
        seriesVars
<1>1. ASSUME NEW c \in Controllers, NEW h \in Shards, LockShard(c, h)
      PROVE  UNCHANGED <<counters, currentCapture, shardCount, seriesVars, ctlPc, candidate>>
  BY <1>1 DEF LockShard
<1>2. ASSUME NEW c \in Controllers, CloseCaptureAdmission(c) \/ PassBarrier(c) \/ DrainLock(c)
      PROVE  /\ UNCHANGED <<counters, currentCapture, shardCount, seriesVars, candidate>>
             /\ ctlPc[Owner] \notin {"open", "install"} \/ UNCHANGED ctlPc
             /\ ctlPc'[Owner] \notin {"open", "install"} \/ UNCHANGED ctlPc
  BY <1>2 DEF CloseCaptureAdmission, AfterClose, PassBarrier, DrainLock, WorkerJoined, StartPcs
<1>3. ASSUME StartCapture \/ BeginScan \/ Scan \/ Invalidate \/ RecheckPins
      PROVE  /\ UNCHANGED <<counters, currentCapture, shardCount, seriesVars>>
             /\ ctlPc[Owner] \notin {"open", "install"}
             /\ ctlPc'[Owner] \notin {"open", "install"}
  BY <1>3 DEF StartCapture, BeginScan, Scan, Invalidate, RecheckPins
<1>4. ASSUME Open
      PROVE  /\ UNCHANGED <<counters, currentCapture, shardCount, seriesVars, candidate>>
             /\ ctlPc[Owner] \in {"open", "install"}
             /\ ctlPc'[Owner] \in {"open", "install"}
  BY <1>4 DEF Open
<1>5. ASSUME Collect \/ FinalCollect \/ ClearIntervals
      PROVE  /\ UNCHANGED <<counters, currentCapture, shardCount, seriesVars>>
             /\ ctlPc[Owner] \notin {"open", "install"}
             /\ ctlPc'[Owner] \notin {"open", "install"}
  BY <1>5 DEF Collect, FinalCollect, ClearIntervals, StartDrain, WorkerJoined, StartPcs
<1>6. CASE UNCHANGED vars
  BY <1>6 DEF vars
<1> QED
  BY <1>1, <1>2, <1>3, <1>4, <1>5, <1>6 DEF Next, StartStep, DrainStep

(* While the owner resets a slot it has every shard, so nobody appends.     *)
LEMMA NobodyAppendsToReset ==
  ASSUME RecordsInv, ctlPc[Owner] \in StartPcs
  PROVE  \A op \in Ops : opPc[op] # "append"
  BY NamesAssumption DEF RecordsInv, IInv, TypeOK, ShardsHeld, AllLocked, ShardPcs

(* Every step keeps a capture that is being started empty.                   *)
LEMMA FreshStep == RecordsInv /\ [Next]_vars => FreshCapture'
<1> SUFFICES ASSUME RecordsInv, [Next]_vars PROVE FreshCapture'
  OBVIOUS
<1>0. /\ TypeOK /\ CtlPcType /\ WorkerJoined /\ FreshCapture /\ Handshake
  BY DEF RecordsInv, IInv, TypeOK
<1> USE <1>0, NamesAssumption
<1>1. ASSUME NEW op \in Ops,
             LoadCapture(op) \/ BeginStep(op) \/ EndToken(op) \/ PublishStep(op)
      PROVE  FreshCapture'
  <2> SUFFICES ASSUME ctlPc'[Owner] \in {"open", "install"} PROVE FreshCapture'
    BY DEF FreshCapture
  <2>1. UNCHANGED <<ctlPc, candidate, seriesVars>>
    BY <1>1, OpFrame DEF ctlVars
  <2>2. ~AppendRecord(op)
    BY <2>1, NobodyAppendsToReset DEF AppendRecord, StartPcs
  <2>3. candidate \in Slots
    BY <2>1 DEF Handshake, StartPcs
  <2> QED
    BY <1>1, <2>1, <2>2, <2>3, AcceptFrame DEF FreshCapture, seriesVars
<1>2. CASE ~ \E op \in Ops : LoadCapture(op) \/ BeginStep(op) \/ EndToken(op) \/ PublishStep(op)
  <2>1. CASE Reset
    BY <2>1, QualityNames DEF Reset, Handshake, StartPcs, FreshCapture, TypeOK, CountersType
  <2>2. CASE Install
    BY <2>2 DEF Install, FreshCapture, CtlPcType
  <2>3. ASSUME NEW c \in Controllers, DrainTake(c) \/ DrainSeries(c) \/ Measure(c)
        PROVE  ctlPc'[Owner] \notin {"open", "install"}
    BY <2>3 DEF DrainTake, DrainSeries, Measure, AfterClose, GotoCtl, CtlPcType, WorkerJoined,
       StartPcs
  <2> QED
    BY <1>2, <2>1, <2>2, <2>3, RecordFrame DEF FreshCapture, seriesVars
<1> QED
  BY <1>1, <1>2

(* Every step keeps the accepted records accounted for.                     *)
LEMMA RecordsStep == RecordsInv /\ [Next]_vars => RecordsConserved'
<1> SUFFICES ASSUME RecordsInv, [Next]_vars, currentCapture' # NoSlot,
                    ctlPc'[Owner] \notin {"open", "install"}
             PROVE  counters'[currentCapture']["acceptedRecords"] =
                      HeldRecords' + intervalCalls' + reported' + discarded'
  BY DEF RecordsConserved
<1>0. /\ TypeOK /\ CtlPcType /\ WorkerJoined /\ FreshCapture /\ Handshake /\ CountersType
      /\ ShardsHeld /\ LateWritersAwaited /\ NothingLeft /\ RecordsConserved
  BY DEF RecordsInv, IInv, TypeOK
<1>t. /\ shardCount \in [Shards -> Nat] /\ intervalCalls \in Nat /\ reported \in Nat
      /\ discarded \in Nat /\ currentCapture \in Slots \cup {NoSlot}
      /\ opSlot \in [Ops -> Slots] /\ opShard \in [Ops -> Shards]
  BY <1>0 DEF TypeOK
<1>h. HeldRecords \in Nat
  BY <1>t, SumsDefined, SizesAssumption DEF HeldRecords, Sums
<1> DEFINE Balanced == counters'[currentCapture']["acceptedRecords"] =
                         HeldRecords' + intervalCalls' + reported' + discarded'
<1>k. ASSUME UNCHANGED <<currentCapture, shardCount, seriesVars>>, ctlPc[Owner] \notin {"open", "install"},
             \A s \in Slots : counters'[s]["acceptedRecords"] = counters[s]["acceptedRecords"]
      PROVE  Balanced
  BY <1>k, <1>0, <1>t DEF RecordsConserved, HeldRecords, seriesVars
<1>1. ASSUME NEW op \in Ops,
             LoadCapture(op) \/ BeginStep(op) \/ EndToken(op) \/ PublishStep(op)
      PROVE  Balanced
  <2>1. UNCHANGED <<ctlPc, currentCapture, seriesVars>>
    BY <1>1, OpFrame DEF ctlVars, captureVars
  <2>2. CASE AppendRecord(op)
    <3> DEFINE h == opShard[op]
    <3>1. currentCapture = opSlot[op] /\ currentCapture \in Slots /\ h \in Shards
      BY <1>0, <1>t, <2>2 DEF AppendRecord, LateWritersAwaited
    <3>2. CASE shardCount[h] = Capacity[h]
      BY <1>0, <1>t, <2>2, <3>2, CountOne, QualityNames, <1>k, <2>1 DEF AppendRecord
    <3>3. CASE shardCount[h] # Capacity[h]
      <4>1. shardCount' = [shardCount EXCEPT ![h] = shardCount[h] + 1]
            /\ counters'[currentCapture]["acceptedRecords"] =
                 counters[currentCapture]["acceptedRecords"] + 1
        BY <1>0, <1>t, <2>2, <3>1, <3>3, CountOne, QualityNames DEF AppendRecord
      <4>2. HeldRecords' = HeldRecords + 1
        <5>1. shardCount[h] \in Nat /\ shardCount[h] + 1 \in Nat
          BY <1>t, <3>1
        <5>2. SumsBelow([shardCount EXCEPT ![h] = shardCount[h] + 1])[ShardCount] =
                SumsBelow(shardCount)[ShardCount] + ((shardCount[h] + 1) - shardCount[h])
          BY <1>t, <3>1, <5>1, SumChanges
        <5>3. SumsBelow(shardCount)[ShardCount] \in Nat
          BY <1>h DEF HeldRecords
        <5>4. SumsBelow(shardCount')[ShardCount] = SumsBelow(shardCount)[ShardCount] + 1
          <6> HIDE DEF h
          <6> QED
            BY <4>1, <5>1, <5>2, <5>3
        <5> QED
          BY <5>4 DEF HeldRecords
      <4>3. counters[currentCapture]["acceptedRecords"] =
              HeldRecords + intervalCalls + reported + discarded
        BY <1>0, <2>1 DEF RecordsConserved
      <4> QED
        BY <1>t, <1>h, <2>1, <4>1, <4>2, <4>3 DEF seriesVars
    <3> QED
      BY <3>2, <3>3
  <2> QED
    BY <1>0, <1>1, <1>k, <2>1, <2>2, AcceptFrame
<1>2. CASE Reset
  BY <1>0, <1>2, NamesAssumption DEF Reset, GotoCtl, CtlPcType
<1>3. CASE Install
  BY <1>0, <1>3, <1>t, SumOfNothing DEF Install, Handshake, StartPcs, FreshCapture, NothingLeft,
     slotVars, HeldRecords, seriesVars
<1>4. ASSUME NEW c \in Controllers, DrainTake(c) PROVE Balanced
  <2> DEFINE h == drainShard[c]
  <2>1. h \in Shards /\ shardCount' = [shardCount EXCEPT ![h] = 0]
        /\ intervalCalls' = intervalCalls + shardCount[h]
        /\ UNCHANGED <<reported, discarded, counters, currentCapture>>
    BY <1>0, <1>4 DEF DrainTake, ShardsHeld, slotVars, captureVars
  <2>2. ctlPc[Owner] \notin {"open", "install"}
    BY <1>0, <1>4 DEF DrainTake, WorkerJoined, StartPcs
  <2>3. /\ SumsBelow(shardCount)[ShardCount] \in Nat
        /\ SumsBelow([shardCount EXCEPT ![h] = 0])[ShardCount] \in Nat
        /\ SumsBelow([shardCount EXCEPT ![h] = 0])[ShardCount] =
             SumsBelow(shardCount)[ShardCount] + (0 - shardCount[h])
    <3>1. h \in Shards
      BY <2>1
    <3> HIDE DEF h
    <3> QED
      BY <1>t, <3>1, SumChanges
  <2>4. shardCount[h] \in Nat
    BY <1>t, <2>1
  <2>5. HeldRecords' \in Nat /\ HeldRecords' = HeldRecords + (0 - shardCount[h])
    BY <2>1, <2>3 DEF HeldRecords
  <2>6. counters[currentCapture]["acceptedRecords"] =
          HeldRecords + intervalCalls + reported + discarded
    BY <1>0, <2>1, <2>2 DEF RecordsConserved
  <2> HIDE DEF h
  <2> QED
    BY <1>t, <1>h, <2>1, <2>4, <2>5, <2>6
<1>5. ASSUME NEW c \in Controllers, DrainSeries(c) PROVE Balanced
  BY <1>5, <1>0, <1>t, <1>h DEF DrainSeries, slotVars, captureVars, shardVars, WorkerJoined,
     StartPcs, HeldRecords, RecordsConserved
<1>6. ASSUME NEW c \in Controllers, Measure(c) PROVE Balanced
  BY <1>6, <1>0, NamesAssumption, <1>k DEF Measure, captureVars, shardVars, CountersType,
     GotoCtl, CtlPcType, WorkerJoined, StartPcs
<1>7. CASE ~ \E op \in Ops : LoadCapture(op) \/ BeginStep(op) \/ EndToken(op) \/ PublishStep(op)
  BY <1>7, <1>2, <1>3, <1>4, <1>5, <1>6, <1>k, RecordFrame
<1> QED
  BY <1>1, <1>7

(* Only an admission raises the count of a slot's tokens.                   *)
LEMMA TokenFrame ==
  ASSUME IInv, NEW op \in Ops,
         LoadCapture(op) \/ BeginStep(op) \/ EndToken(op) \/ PublishStep(op)
  PROVE  Admit(op) \/ \A s \in Slots : activeSampled'[s] <= activeSampled[s]
<1>0. activeSampled \in [Slots -> Nat] /\ opSlot \in [Ops -> Slots]
  BY DEF IInv, TypeOK
<1>1. CASE Retire(op)
  BY <1>0, <1>1 DEF Retire
<1>2. Admit(op) \/ Retire(op) \/ UNCHANGED activeSampled
  BY DEF BeginStep, PublishStep, LoadCapture, LoadOpen, LoadGeneration, Decide, PinGeneration,
       PinOpen, CountDrop, LockToAdmit, RecheckAdmit, Unpin, EndToken, CheckResult,
       RecheckPublish, AppendRecord, slotVars
<1> QED
  BY <1>0, <1>1, <1>2

(* Every step keeps the tokens of a closed capture bounded by what was       *)
(* measured when it closed.                                                  *)
LEMMA BoundsStep == RecordsInv /\ [Next]_vars => UnfinishedBoundsTokens'
<1> SUFFICES ASSUME RecordsInv, [Next]_vars PROVE UnfinishedBoundsTokens'
  OBVIOUS
<1>0. /\ TypeOK /\ CtlPcType /\ WorkerJoined /\ Handshake /\ CountersType /\ LateWritersAwaited
      /\ UnfinishedBoundsTokens /\ ClosingACapture
      /\ activeSampled \in [Slots -> Nat] /\ admissionOpen \in [Slots -> BOOLEAN]
      /\ currentCapture \in Slots \cup {NoSlot} /\ opSlot \in [Ops -> Slots]
  BY DEF RecordsInv, IInv, TypeOK
<1>u. \A s \in Slots : counters[s]["unfinishedOperations"] \in Nat
  BY <1>0, QualityNames DEF CountersType
<1> DEFINE Bounded == UnfinishedBoundsTokens'
<1>1. ASSUME NEW op \in Ops,
             LoadCapture(op) \/ BeginStep(op) \/ EndToken(op) \/ PublishStep(op)
      PROVE  Bounded
  <2>1. UNCHANGED <<ctlPc, currentCapture, admissionOpen>>
    BY <1>1, OpFrame DEF ctlVars, captureVars
  <2>2. \A s \in Slots : counters'[s]["unfinishedOperations"] = counters[s]["unfinishedOperations"]
    BY <1>0, <1>1, AcceptFrame
  <2>3. ASSUME NEW s \in Slots, s = currentCapture, Sealed(s)
        PROVE  activeSampled'[s] <= activeSampled[s] /\ activeSampled'[s] \in Nat
    BY <1>0, <2>3, TypeStep, <1>1, TokenFrame DEF Admit, LateWritersAwaited, RecordsInv, TypeOK
  <2>4. SUFFICES ASSUME currentCapture # NoSlot, Sealed(currentCapture),
                        \A c \in Controllers : ctlPc[c] # "measure",
                        ctlPc[Owner] \notin {"open", "install"}
                 PROVE  activeSampled'[currentCapture] <=
                          counters'[currentCapture]["unfinishedOperations"]
    BY <2>1 DEF UnfinishedBoundsTokens, Sealed
  <2>5. currentCapture \in Slots
    BY <1>0, <2>4
  <2>6. activeSampled[currentCapture] <= counters[currentCapture]["unfinishedOperations"]
    BY <1>0, <2>4 DEF UnfinishedBoundsTokens
  <2>7. /\ activeSampled'[currentCapture] <= activeSampled[currentCapture]
        /\ activeSampled'[currentCapture] \in Nat
    BY <2>3, <2>4, <2>5
  <2> QED
    BY <1>0, <1>u, <2>2, <2>5, <2>6, <2>7
<1> USE <1>0, NamesAssumption DEF GotoCtl, CtlPcType, UnfinishedBoundsTokens, Sealed, slotVars, captureVars
<1>2. ASSUME NEW c \in Controllers, NEW h \in Shards, LockShard(c, h) PROVE Bounded
  BY <1>2 DEF LockShard, ctlVars
<1>3. ASSUME NEW c \in Controllers, CloseCaptureAdmission(c) PROVE Bounded
  BY <1>3 DEF CloseCaptureAdmission, AfterClose
<1>4. ASSUME NEW c \in Controllers, PassBarrier(c) PROVE Bounded
  BY <1>4 DEF PassBarrier
<1>5. ASSUME NEW c \in Controllers, Measure(c) PROVE Bounded
  BY <1>5, QualityNames DEF Measure, ClosingACapture, CountersType
<1>6. ASSUME NEW c \in Controllers, DrainStep(c) PROVE Bounded
  BY <1>6 DEF DrainStep, DrainLock, DrainTake, DrainSeries
<1>7. CASE StartCapture \/ BeginScan \/ Scan \/ Invalidate \/ RecheckPins
  BY <1>7 DEF StartCapture, BeginScan, Scan, Invalidate, RecheckPins, WorkerJoined, StartPcs
<1>8. CASE Reset \/ Open
  BY <1>8 DEF Reset, Open
<1>9. CASE Install
  BY <1>9 DEF Install, Handshake, StartPcs
<1>10. CASE Collect \/ FinalCollect \/ ClearIntervals
  BY <1>10 DEF Collect, FinalCollect, ClearIntervals, StartDrain
<1>11. CASE UNCHANGED vars
  BY <1>11 DEF vars, ctlVars
<1> QED
  BY <1>1, <1>2, <1>3, <1>4, <1>5, <1>6, <1>7, <1>8, <1>9, <1>10, <1>11 DEF Next, StartStep

(* Nothing is recorded in the beginning.                                     *)
LEMMA InitRecords == Init => RecordsInv
<1> SUFFICES ASSUME Init PROVE RecordsInv
  OBVIOUS
<1>1. IInv
  BY InitInv
<1>2. ctlPc[Owner] = "stopped" /\ ctlPc[Worker] = "off"
  BY NamesAssumption DEF Init
<1>3. UnfinishedBoundsTokens /\ RecordsConserved /\ FreshCapture /\ AdmissionClosed
  BY <1>2 DEF Init, UnfinishedBoundsTokens, RecordsConserved, FreshCapture, AdmissionClosed
<1>4. WorkerRuns /\ LastCollection /\ NothingLeft
  BY <1>2 DEF Init, WorkerRuns, LastCollection, NothingLeft
<1> QED
  BY <1>1, <1>3, <1>4 DEF RecordsInv

(* RecordsInv is inductive.                                                  *)
LEMMA RecordsInvariance == Spec => []RecordsInv
<1>1. RecordsInv /\ [Next]_vars => RecordsInv'
  BY InvStep, AdmissionStep, WorkerRunsStep, LastStep, NothingStep, FreshStep, RecordsStep,
     BoundsStep DEF RecordsInv
<1> QED
  BY InitRecords, <1>1, PTL DEF Spec

(* It gives what is said of the records.                                     *)
LEMMA RecordsInvGives == RecordsInv => RecordsAccountedFor
<1> SUFFICES ASSUME RecordsInv PROVE RecordsAccountedFor
  OBVIOUS
<1>1. TypeOK /\ CtlPcType /\ WorkerJoined
  BY DEF RecordsInv, IInv, TypeOK
<1>2. ASSUME currentCapture # NoSlot, ctlPc[Owner] = "stopped"
      PROVE  discarded = 0 /\ reported = counters[currentCapture]["acceptedRecords"]
  BY <1>1, <1>2, SumOfNothing DEF WorkerJoined, RecordsInv, NothingLeft, HeldRecords, TypeOK,
     RecordsConserved
<1> QED
  BY <1>1, <1>2 DEF RecordsInv, RecordsAccountedFor, StopReportsEverything

(* Every accepted record is reported once, and none is thrown away: the       *)
(* drains of the worker, concurrent with publication, lose and repeat none,  *)
(* the last one after the stop takes all that is left, and the unfinished    *)
(* count written at the close bounds the tokens still out.                   *)
THEOREM RecordsAreReported == Spec => []RecordsAccountedFor
BY RecordsInvariance, RecordsInvGives, PTL

=============================================================================
