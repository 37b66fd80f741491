--------------------------- MODULE BurstSeriesProofs ---------------------------
(***************************************************************************)
(* The ring of BurstSeries implements BoundedFifo for every capacity.  The   *)
(* inductive invariant says which indices may alias: the producer only fills *)
(* an entry that no waiting record occupies.                                 *)
(***************************************************************************)
EXTENDS BurstSeries, SequenceTheorems, TLAPS

(* The producer and the drainer agree on the indices.                        *)
IndexOrder ==
  /\ read = consumed
  /\ consumed <= published
  /\ write = IF producerPc = "publish" THEN published + 1 ELSE published
  /\ write <= consumed + RingCapacity
  /\ producerPc \in {"fill", "filled"} => write < consumed + RingCapacity

(* What Record is about to publish is the record it was called with.         *)
PublishesRecorded ==
  /\ recorded <= MaxRecords
  /\ producerPc # "idle" => recorded > 0
  /\ producerPc = "publish" => entries[(write - 1) % RingCapacity] = recorded

(* What Drain has copied is the oldest part of what waits.                   *)
CopiesOldest ==
  hubPc = "copy" =>
    /\ count <= published - consumed
    /\ Len(copied) <= count
    /\ \A i \in 1 .. Len(copied) : copied[i] = entries[(consumed + i - 1) % RingCapacity]

(* A hub that drains knows why.                                              *)
OffIsOff == hubPc # "off" => phase # "off"

Inv == BurstTypeOK /\ OffIsOff /\ IndexOrder /\ PublishesRecorded /\ CopiesOldest

-----------------------------------------------------------------------------
(* Division with remainder.                                                  *)
LEMMA DivMod ==
  ASSUME NEW C \in Int, C > 0, NEW i \in Int
  PROVE  \E q \in Int : i = C * q + (i % C)
OBVIOUS

(* An index lands inside the array.                                          *)
LEMMA ModRange ==
  ASSUME NEW C \in Nat \ {0}, NEW i \in Nat
  PROVE  i % C \in 0 .. C - 1
OBVIOUS

(* Two indices less than a lap apart are different entries.                  *)
LEMMA ModInjective ==
  ASSUME NEW C \in Nat \ {0}, NEW i \in Nat, NEW j \in Nat, i < j, j < i + C
  PROVE  i % C # j % C
<1>0. C \in Int /\ C > 0 /\ i \in Int /\ j \in Int
  OBVIOUS
<1>1. PICK p \in Int : i = C * p + (i % C)
  BY <1>0, DivMod
<1>2. PICK q \in Int : j = C * q + (j % C)
  BY <1>0, DivMod
<1>3. SUFFICES ASSUME i % C = j % C PROVE FALSE
  OBVIOUS
<1> DEFINE d == q - p
<1>4. d \in Int /\ j - i = C * d
  BY ModRange, <1>1, <1>2, <1>3
<1>5. d <= 0 => C * d <= 0
  BY <1>4
<1>6. d >= 1 => C * d >= C
  BY <1>4
<1>7. QED
  BY <1>4, <1>5, <1>6

(* The waiting records are a sequence of numbers.                            *)
LEMMA WaitingType ==
  ASSUME Inv
  PROVE  Waiting \in Seq(Nat) /\ Len(Waiting) = published - consumed
<1>1. \A i \in 1 .. published - consumed : entries[(consumed + i - 1) % RingCapacity] \in Nat
  <2> TAKE i \in 1 .. published - consumed
  <2>1. consumed + i - 1 \in Nat BY DEF Inv, BurstTypeOK
  <2>2. (consumed + i - 1) % RingCapacity \in Indices BY <2>1, ModRange, RingSizesAssumption DEF Indices
  <2> QED BY <2>2 DEF Inv, BurstTypeOK
<1>2. published - consumed \in Nat BY DEF Inv, BurstTypeOK, IndexOrder
<1> QED BY <1>1, <1>2 DEF Waiting

(* Filling the entry after the published ones changes no waiting record.     *)
LEMMA FillPreservesWaiting ==
  ASSUME Inv, producerPc \in {"fill", "filled"}, NEW r,
         entries' = [entries EXCEPT ![write % RingCapacity] = r]
  PROVE  \A i \in 1 .. published - consumed :
           entries'[(consumed + i - 1) % RingCapacity] = entries[(consumed + i - 1) % RingCapacity]
<1> TAKE i \in 1 .. published - consumed
<1>1. /\ consumed + i - 1 \in Nat /\ write \in Nat
      /\ consumed + i - 1 < write /\ write < consumed + i - 1 + RingCapacity
  BY RingSizesAssumption DEF Inv, BurstTypeOK, IndexOrder
<1>2. (consumed + i - 1) % RingCapacity # write % RingCapacity
  BY <1>1, ModInjective, RingSizesAssumption
<1>3. (consumed + i - 1) % RingCapacity \in Indices
  BY <1>1, ModRange, RingSizesAssumption DEF Indices
<1> QED BY <1>2, <1>3 DEF Inv, BurstTypeOK

-----------------------------------------------------------------------------
(* The initial state satisfies the invariant.                                *)
LEMMA InitInv == BurstInit => Inv
<1> SUFFICES ASSUME BurstInit PROVE Inv OBVIOUS
<1>1. entries \in [Indices -> Nat] BY DEF BurstInit, NoRecord
<1>2. copied \in Seq(Nat) /\ taken \in Seq(Nat) BY DEF BurstInit
<1>3. BurstTypeOK
  <2>1. /\ active \in BOOLEAN /\ drainEnabled \in BOOLEAN
        /\ write \in Nat /\ published \in Nat /\ read \in Nat /\ consumed \in Nat
        /\ overflow \in Nat /\ overflowTaken \in Nat
    BY DEF BurstInit
  <2>2. /\ producerPc \in ProducerPcs /\ recorded \in Nat
        /\ hubPc \in HubPcs /\ phase \in Phases
        /\ thrownAway \in Nat /\ sessions \in Nat
    BY DEF BurstInit, ProducerPcs, HubPcs, Phases
  <2>3. count \in 0 .. DrainCapacity
    BY RingSizesAssumption DEF BurstInit
  <2> QED BY <1>1, <1>2, <2>1, <2>2, <2>3 DEF BurstTypeOK
<1>4. OffIsOff /\ CopiesOldest BY DEF BurstInit, OffIsOff, CopiesOldest
<1>5. IndexOrder /\ PublishesRecorded
  BY RingSizesAssumption DEF BurstInit, IndexOrder, PublishesRecorded
<1> QED BY <1>3, <1>4, <1>5 DEF Inv

(* A step that changes no waiting record, and nothing of the drain, leaves   *)
(* what the drain has copied the oldest part of what waits.                  *)
LEMMA CopiesPreserved ==
  ASSUME BurstTypeOK, CopiesOldest, UNCHANGED <<hubPc, count, copied, published, consumed>>,
         \A i \in 1 .. published - consumed :
           entries'[(consumed + i - 1) % RingCapacity] = entries[(consumed + i - 1) % RingCapacity]
  PROVE  CopiesOldest'
<1> SUFFICES ASSUME hubPc = "copy", NEW i \in 1 .. Len(copied)
             PROVE  copied[i] = entries'[(consumed + i - 1) % RingCapacity]
  BY DEF CopiesOldest
<1>1. i \in 1 .. published - consumed BY DEF CopiesOldest, BurstTypeOK
<1> QED BY <1>1 DEF CopiesOldest

(* Every step of the producer, of the drain and of the hub preserves it.      *)
LEMMA InvStep == Inv /\ [BurstNext]_burstVars => Inv'
<1> SUFFICES ASSUME Inv, [BurstNext]_burstVars PROVE Inv' OBVIOUS
<1> USE RingSizesAssumption
<1>1. CASE Activate
  BY <1>1 DEF Activate, Inv, BurstTypeOK, OffIsOff, IndexOrder, PublishesRecorded, CopiesOldest,
     producerVars, hubVars
<1>2. CASE Record
  BY <1>2 DEF Record, Inv, BurstTypeOK, OffIsOff, IndexOrder, PublishesRecorded, CopiesOldest,
     ProducerPcs, hubVars
<1>3. CASE BeginFill
  <2>1. \A i \in 1 .. published - consumed :
          entries'[(consumed + i - 1) % RingCapacity] = entries[(consumed + i - 1) % RingCapacity]
    BY <1>3, FillPreservesWaiting DEF BeginFill
  <2>2. BurstTypeOK' /\ OffIsOff' /\ IndexOrder' /\ PublishesRecorded'
    BY <1>3 DEF BeginFill, Inv, BurstTypeOK, OffIsOff, IndexOrder, PublishesRecorded, ProducerPcs,
       hubVars, NoRecord
  <2>3. CopiesOldest'
    BY <1>3, <2>1, CopiesPreserved DEF BeginFill, Inv, hubVars
  <2> QED BY <2>2, <2>3 DEF Inv
<1>4. CASE EndFill
  <2>1. \A i \in 1 .. published - consumed :
          entries'[(consumed + i - 1) % RingCapacity] = entries[(consumed + i - 1) % RingCapacity]
    BY <1>4, FillPreservesWaiting DEF EndFill
  <2>2. BurstTypeOK' /\ OffIsOff'
    <3>1. entries' \in [Indices -> Nat]
      BY <1>4 DEF EndFill, Inv, BurstTypeOK
    <3>2. write' \in Nat /\ producerPc' \in ProducerPcs
      BY <1>4 DEF EndFill, Inv, BurstTypeOK, ProducerPcs
    <3>3. UNCHANGED <<active, drainEnabled, published, consumed, overflow, recorded, hubVars>>
      BY <1>4 DEF EndFill
    <3> QED BY <3>1, <3>2, <3>3 DEF Inv, BurstTypeOK, OffIsOff, hubVars
  <2>5. IndexOrder'
    BY <1>4 DEF EndFill, Inv, BurstTypeOK, IndexOrder, hubVars
  <2>3. PublishesRecorded'
    BY ModRange, <1>4 DEF Inv, BurstTypeOK, Indices, EndFill, PublishesRecorded
  <2>4. CopiesOldest'
    BY <1>4, <2>1, CopiesPreserved DEF EndFill, Inv, hubVars
  <2> QED BY <2>2, <2>3, <2>4, <2>5 DEF Inv
<1>5. CASE Publish
  BY <1>5 DEF Publish, Inv, BurstTypeOK, OffIsOff, IndexOrder, PublishesRecorded, CopiesOldest,
     ProducerPcs, hubVars
<1>6. CASE Start \/ Wake \/ Stop
  <2>1. /\ hubPc' = "overflow" /\ phase' \in Phases /\ sessions' \in Nat
        /\ phase' # "off"
        /\ UNCHANGED <<bufferVars, producerVars, read, count, copied, overflowTaken,
                       taken, thrownAway>>
    BY <1>6 DEF Start, Wake, Stop, Collects, Inv, BurstTypeOK, Phases
  <2> QED
    BY <2>1 DEF Inv, BurstTypeOK, OffIsOff, IndexOrder, PublishesRecorded, CopiesOldest, HubPcs,
       bufferVars, producerVars
<1>7. CASE DrainOverflow
  BY <1>7 DEF DrainOverflow, Inv, BurstTypeOK, OffIsOff, IndexOrder, PublishesRecorded, CopiesOldest,
     HubPcs, producerVars
<1>8. CASE LoadPublished
  <2>1. count' \in 0 .. DrainCapacity /\ count' <= published - consumed
    <3>1. read = consumed /\ published - consumed \in Nat
      BY DEF Inv, BurstTypeOK, IndexOrder
    <3>2. CASE ~(active /\ drainEnabled) BY <1>8, <3>1, <3>2 DEF LoadPublished
    <3>3. CASE active /\ drainEnabled /\ published - read <= DrainCapacity
      BY <1>8, <3>1, <3>3 DEF LoadPublished
    <3>4. CASE active /\ drainEnabled /\ published - read > DrainCapacity
      BY <1>8, <3>1, <3>4 DEF LoadPublished
    <3> QED BY <3>1, <3>2, <3>3, <3>4
  <2>2. /\ hubPc' = "copy" /\ copied' = <<>>
        /\ UNCHANGED <<bufferVars, producerVars, read, phase, overflowTaken, taken,
                       thrownAway, sessions>>
    BY <1>8 DEF LoadPublished
  <2>3. BurstTypeOK' /\ OffIsOff'
    BY SMTT(20), <1>8, <2>1, <2>2
    DEF LoadPublished, Inv, BurstTypeOK, OffIsOff, HubPcs, bufferVars, producerVars
  <2>4. IndexOrder' /\ PublishesRecorded'
    BY <2>2 DEF Inv, IndexOrder, PublishesRecorded, bufferVars, producerVars
  <2>5. CopiesOldest'
    BY <2>2, <2>1 DEF bufferVars, CopiesOldest
  <2> QED BY <2>3, <2>4, <2>5 DEF Inv
<1>9. CASE CopyEntry
  <2>1. /\ consumed + Len(copied) \in Nat
        /\ (consumed + Len(copied)) % RingCapacity \in Indices
    <3>1. consumed + Len(copied) \in Nat BY DEF Inv, BurstTypeOK
    <3> QED BY <3>1, ModRange DEF Indices
  <2>2. entries[(consumed + Len(copied)) % RingCapacity] \in Nat
    BY <2>1 DEF Inv, BurstTypeOK
  <2>3. BurstTypeOK' /\ OffIsOff' /\ IndexOrder' /\ PublishesRecorded'
    BY <1>9, <2>2 DEF CopyEntry, Inv, BurstTypeOK, OffIsOff, IndexOrder, PublishesRecorded,
       bufferVars, producerVars
  <2>4. CopiesOldest'
    <3> DEFINE e == entries[(read + Len(copied)) % RingCapacity]
    <3>1. copied' = Append(copied, e) /\ Len(copied) < count /\ hubPc = "copy"
          /\ UNCHANGED <<count, published, consumed, entries>>
      BY <1>9 DEF CopyEntry, bufferVars
    <3>2. copied \in Seq(Nat) /\ e \in Nat /\ count \in Nat /\ consumed \in Nat
      BY <2>2 DEF Inv, BurstTypeOK, IndexOrder
    <3> HIDE DEF e
    <3>3. /\ Len(copied') = Len(copied) + 1 /\ Len(copied) \in Nat
          /\ \A i \in 1 .. Len(copied) : copied'[i] = copied[i]
          /\ copied'[Len(copied) + 1] = e
      BY <3>1, <3>2
    <3>4. Len(copied') <= count' /\ count' <= published' - consumed'
      BY <3>1, <3>2, <3>3 DEF Inv, CopiesOldest
    <3>5. ASSUME NEW i \in 1 .. Len(copied')
          PROVE  copied'[i] = entries'[(consumed' + i - 1) % RingCapacity]
      <4>1. CASE i \in 1 .. Len(copied)
        BY <3>1, <3>3, <4>1 DEF Inv, CopiesOldest
      <4>2. CASE i = Len(copied) + 1
        BY <3>2, <3>3, <4>2, <3>1 DEF Inv, IndexOrder, e
      <4> QED BY <3>3, <4>1, <4>2
    <3> QED BY <3>4, <3>5 DEF CopiesOldest
  <2> QED BY <2>3, <2>4 DEF Inv
<1>10. CASE Consume
  <2>1. consumed' = read' /\ read' \in Nat /\ consumed' <= published /\ consumed <= consumed'
    BY <1>10 DEF Consume, Inv, BurstTypeOK, IndexOrder, CopiesOldest
  <2>2. hubPc' # "copy" /\ hubPc' \in HubPcs /\ phase' \in Phases /\ OffIsOff'
    BY <1>10 DEF Consume, Inv, BurstTypeOK, OffIsOff, AfterCollect, HubPcs, Phases
  <2>3. BurstTypeOK'
    BY <1>10, <2>1, <2>2 DEF Consume, Inv, BurstTypeOK, producerVars
  <2>4. IndexOrder'
    BY <1>10, <2>1 DEF Consume, Inv, BurstTypeOK, IndexOrder, producerVars
  <2>5. PublishesRecorded' /\ CopiesOldest'
    BY <1>10, <2>2 DEF Consume, Inv, PublishesRecorded, CopiesOldest, producerVars
  <2> QED BY <2>2, <2>3, <2>4, <2>5 DEF Inv
<1>11. CASE BeginInterval
  <2>1. /\ drainEnabled' = TRUE /\ phase' \in Phases \ {"off"}
        /\ hubPc' \in {"idle", "overflow"}
        /\ UNCHANGED <<active, entries, published, consumed, overflow, producerVars,
                       read, count, copied, overflowTaken, taken, thrownAway, sessions>>
    BY <1>11 DEF BeginInterval, Collects, Phases
  <2> QED
    BY <2>1 DEF Inv, BurstTypeOK, OffIsOff, IndexOrder, PublishesRecorded, CopiesOldest, HubPcs,
       producerVars
<1>12. CASE UNCHANGED burstVars
  BY <1>12 DEF Inv, BurstTypeOK, OffIsOff, IndexOrder, PublishesRecorded, CopiesOldest, burstVars,
     bufferVars, producerVars, hubVars
<1> QED
  BY <1>1, <1>2, <1>3, <1>4, <1>5, <1>6, <1>7, <1>8, <1>9, <1>10, <1>11, <1>12
  DEF BurstNext, RecordStep, CollectStep

(* The invariant holds throughout.                                           *)
THEOREM Invariance == BurstSpec => []Inv
<1>1. BurstInit => Inv BY InitInv
<1>2. Inv /\ [BurstNext]_burstVars => Inv' BY InvStep
<1> QED BY <1>1, <1>2, PTL DEF BurstSpec

(* No drain ever copies more than the caller has room for, and every index   *)
(* stays where its type says.                                                *)
THEOREM TypeCorrect == BurstSpec => []BurstTypeOK
<1>1. Inv => BurstTypeOK BY DEF Inv
<1> QED BY <1>1, Invariance, PTL

-----------------------------------------------------------------------------
(* A step that changes neither what waits nor what was counted is a stutter  *)
(* of the queue.                                                             *)
LEMMA WaitingUnchanged ==
  ASSUME published' = published, consumed' = consumed,
         \A i \in 1 .. published - consumed :
           entries'[(consumed + i - 1) % RingCapacity] = entries[(consumed + i - 1) % RingCapacity]
  PROVE  Waiting' = Waiting
BY DEF Waiting

(* Every step is a step of the queue, or changes nothing the queue shows:     *)
(* Publish accepts, a full ring refuses, Consume takes.                       *)
LEMMA FifoStep == Inv /\ [BurstNext]_burstVars => [Fifo!FifoNext]_Fifo!fifoVars
<1> SUFFICES ASSUME Inv, [BurstNext]_burstVars PROVE [Fifo!FifoNext]_Fifo!fifoVars OBVIOUS
<1> USE RingSizesAssumption
<1>a. Waiting \in Seq(Nat) /\ Len(Waiting) = published - consumed BY WaitingType
<1>1. CASE Record
  <2>1. Waiting' = Waiting
    BY <1>1, WaitingUnchanged DEF Record
  <2>2. taken' = taken BY <1>1 DEF Record, hubVars
  <2>3. CASE active /\ ~(write - consumed < RingCapacity)
    BY <1>1, <2>3, <1>a, <2>1, <2>2 DEF Record, Inv, BurstTypeOK, IndexOrder, hubVars,
       Fifo!FifoNext, Fifo!Refuse
  <2>4. CASE ~(active /\ ~(write - consumed < RingCapacity))
    BY <1>1, <2>4, <2>1, <2>2 DEF Record, hubVars, Fifo!fifoVars
  <2> QED BY <2>3, <2>4
<1>2. CASE BeginFill
  BY <1>2, FillPreservesWaiting, WaitingUnchanged DEF BeginFill, hubVars, Fifo!fifoVars
<1>3. CASE EndFill
  BY <1>3, FillPreservesWaiting, WaitingUnchanged DEF EndFill, hubVars, Fifo!fifoVars
<1>4. CASE Publish
  <2>1. /\ published' = published + 1 /\ consumed' = consumed /\ entries' = entries
        /\ write = published + 1
    BY <1>4 DEF Publish, Inv, IndexOrder
  <2>2. published - consumed \in Nat /\ published - consumed < RingCapacity
    BY <2>1 DEF Inv, BurstTypeOK, IndexOrder
  <2>3. entries[(write - 1) % RingCapacity] = recorded /\ recorded \in 1 .. MaxRecords
    BY <1>4 DEF Publish, Inv, BurstTypeOK, PublishesRecorded
  <2>4. Waiting' = Append(Waiting, recorded)
    <3> DEFINE n == published - consumed
    <3>1. consumed \in Nat /\ published \in Nat /\ recorded \in Nat
      BY DEF Inv, BurstTypeOK
    <3>2. Len(Append(Waiting, recorded)) = n + 1 /\ n \in Nat
          /\ Append(Waiting, recorded) \in Seq(Nat)
      BY <1>a, <2>2, <3>1
    <3>3. Waiting' = [i \in 1 .. n + 1 |-> entries[(consumed + i - 1) % RingCapacity]]
      <4>1. published + 1 - consumed = n + 1 BY <3>1
      <4>2. Waiting' = [i \in 1 .. published' - consumed' |->
                          entries'[(consumed' + i - 1) % RingCapacity]]
        BY DEF Waiting
      <4>3. published' - consumed' = n + 1 BY <2>1, <3>1
      <4> HIDE DEF n
      <4> QED BY <2>1, <4>2, <4>3
    <3>4. ASSUME NEW i \in 1 .. n + 1
          PROVE  Append(Waiting, recorded)[i] = entries[(consumed + i - 1) % RingCapacity]
      BY <1>a, <3>1, <2>1, <2>3, <3>2 DEF Waiting
    <3>5. Append(Waiting, recorded)
            = [i \in 1 .. n + 1 |-> Append(Waiting, recorded)[i]]
      <4> DEFINE s == Append(Waiting, recorded)
      <4>1. s \in Seq(Nat) /\ Len(s) = n + 1 BY <3>2
      <4> HIDE DEF s, n
      <4>2. DOMAIN s = 1 .. n + 1 /\ s = [i \in DOMAIN s |-> s[i]] BY <4>1
      <4>3. s = [i \in 1 .. n + 1 |-> s[i]] BY <4>2
      <4> QED BY <4>3 DEF s
    <3> HIDE DEF n
    <3> QED BY <3>3, <3>4, <3>5
  <2>5. UNCHANGED <<taken, overflow, overflowTaken>>
    BY <1>4 DEF Publish, hubVars
  <2> QED BY <1>a, <2>2, <2>3, <2>4, <2>5 DEF Fifo!FifoNext, Fifo!Accept
<1>5. CASE DrainOverflow
  BY <1>5, WaitingUnchanged DEF DrainOverflow, Inv, BurstTypeOK, Fifo!fifoVars
<1>6. CASE Consume
  <2>1. taken' = taken \o copied /\ Len(copied) = count /\ copied \in Seq(Nat)
        /\ taken \in Seq(Nat) /\ count \in Nat /\ count <= DrainCapacity
        /\ count <= Len(Waiting)
    BY <1>6, <1>a DEF Consume, Inv, BurstTypeOK, CopiesOldest
  <2>2. UNCHANGED <<overflow, overflowTaken, entries, published>>
    BY <1>6 DEF Consume
  <2>3. consumed' = consumed + count
    BY <1>6 DEF Consume, Inv, BurstTypeOK, IndexOrder
  <2>4. CASE count = 0
    BY <2>1, <2>4, <2>3, <2>2, WaitingUnchanged DEF Inv, BurstTypeOK, Fifo!fifoVars
  <2>5. CASE count # 0
    <3>1. SubSeq(Waiting, 1, count) = copied
      BY <1>6, <1>a, <2>1 DEF Consume, Inv, BurstTypeOK, CopiesOldest, Waiting
    <3>2. SubSeq(Waiting, count + 1, Len(Waiting)) = Waiting'
      <4> DEFINE n == published - consumed
                 rest == SubSeq(Waiting, count + 1, Len(Waiting))
      <4>1. consumed \in Nat /\ published \in Nat BY DEF Inv, BurstTypeOK
      <4>2. n \in Nat /\ count <= n /\ Len(Waiting) = n
        BY <1>a, <2>1
      <4>3. rest = [i \in 1 .. n - count |-> Waiting[count + i]]
        BY <1>a, <2>1, <4>2
      <4>4. Waiting' = [i \in 1 .. n - count |->
                          entries[(consumed + count + i - 1) % RingCapacity]]
        BY <2>1, <4>1, <2>2, <2>3 DEF Waiting
      <4>5. ASSUME NEW i \in 1 .. n - count
            PROVE  Waiting[count + i] = entries[(consumed + count + i - 1) % RingCapacity]
        BY <2>1, <4>1, <4>2 DEF Waiting
      <4> QED BY <4>3, <4>4, <4>5
    <3>3. Fifo!Take(count)
      BY <2>1, <2>2, <3>1, <3>2 DEF Fifo!Take
    <3>4. count \in 1 .. DrainCapacity BY <2>1, <2>5
    <3> QED BY <3>3, <3>4 DEF Fifo!FifoNext
  <2> QED BY <2>4, <2>5
<1>7. CASE Activate \/ Start \/ Wake \/ Stop \/ LoadPublished \/ CopyEntry
           \/ BeginInterval \/ UNCHANGED burstVars
  <2>1. UNCHANGED <<entries, published, consumed, overflow, taken, overflowTaken>>
    BY <1>7 DEF Activate, Start, Wake, Stop, LoadPublished, CopyEntry, BeginInterval,
       burstVars, bufferVars, producerVars, hubVars
  <2>2. Waiting' = Waiting BY <2>1, WaitingUnchanged
  <2> QED BY <2>1, <2>2 DEF Fifo!fifoVars
<1> QED
  BY <1>1, <1>2, <1>3, <1>4, <1>5, <1>6, <1>7 DEF BurstNext, RecordStep, CollectStep

(* An empty ring is an empty queue.                                          *)
LEMMA FifoInitially == BurstInit => Fifo!FifoInit
BY DEF BurstInit, Fifo!FifoInit, Waiting

(* The ring is a bounded queue: whatever the capacities and however Record    *)
(* and the drain interleave, no record is lost, repeated, reordered or read   *)
(* half-written, and none is refused while there is room.                     *)
THEOREM ImplementsFifo == BurstSpec => FifoImplemented
<1>1. BurstInit => Fifo!FifoInit BY FifoInitially
<1>2. Inv /\ [BurstNext]_burstVars => [Fifo!FifoNext]_Fifo!fifoVars BY FifoStep
<1> QED BY <1>1, <1>2, Invariance, PTL DEF BurstSpec, FifoImplemented, Fifo!FifoSpec

-----------------------------------------------------------------------------
(* Until the first session's first interval has begun, draining is not       *)
(* enabled, so the collection of Start takes nothing.                        *)
FirstSession ==
  /\ hubPc = "idle" => phase = "running"
  /\ hubPc = "beginInterval" => phase \in {"starting", "running", "finishing"}
  /\ sessions = 0 => phase = "off" /\ ~drainEnabled /\ thrownAway = 0
  /\ sessions <= 1 /\ phase = "starting" =>
       /\ ~drainEnabled /\ thrownAway = 0
       /\ hubPc = "copy" => count = 0

(* Every step keeps what the first session has seen.                         *)
LEMMA StartupStep ==
  BurstTypeOK /\ OffIsOff /\ FirstSession /\ StartupRecordsKept /\ [BurstNext]_burstVars
    => (FirstSession /\ StartupRecordsKept)'
<1> SUFFICES ASSUME BurstTypeOK, OffIsOff, FirstSession, StartupRecordsKept, [BurstNext]_burstVars
             PROVE  (FirstSession /\ StartupRecordsKept)'
  OBVIOUS
<1>0. /\ sessions \in Nat /\ thrownAway \in Nat /\ phase \in Phases /\ hubPc \in HubPcs
      /\ count \in 0 .. DrainCapacity
  BY DEF BurstTypeOK
<1> USE <1>0, RingSizesAssumption DEF OffIsOff, FirstSession, StartupRecordsKept, Phases
<1>1. CASE Activate \/ Record \/ RecordStep
  BY <1>1 DEF Activate, Record, RecordStep, BeginFill, EndFill, Publish, hubVars
<1>2. CASE Start \/ Wake \/ Stop
  BY <1>2 DEF Start, Collects, bufferVars, Wake, Stop
<1>3. CASE DrainOverflow \/ LoadPublished \/ CopyEntry
  BY <1>3 DEF DrainOverflow, LoadPublished, CopyEntry, bufferVars
<1>4. CASE Consume
  <2>1. /\ UNCHANGED <<sessions, drainEnabled>> /\ hubPc' \in {"beginInterval", "off"}
        /\ \/ phase = "clearing" /\ phase' = "off" /\ hubPc' = "off"
           \/ phase \in {"starting", "running", "finishing"} /\ phase' = phase
        /\ thrownAway' = IF phase \in {"starting", "clearing"} THEN thrownAway + count
                                                             ELSE thrownAway
    BY <1>4 DEF Consume, AfterCollect
  <2>2. phase = "starting" /\ sessions <= 1 => thrownAway' = 0
    BY <1>4, <2>1 DEF Consume
  <2>3. sessions # 0
    BY <1>4 DEF Consume
  <2> QED
    BY <2>1, <2>2, <2>3
<1>5. CASE BeginInterval
  BY <1>5 DEF BeginInterval, Collects
<1>6. CASE UNCHANGED burstVars
  BY <1>6 DEF burstVars, bufferVars, hubVars
<1> QED
  BY <1>1, <1>2, <1>3, <1>4, <1>5, <1>6 DEF BurstNext, CollectStep

(* What was recorded before telemetry first starts is not cleared by Start:  *)
(* whatever the capacities, only the end of a session throws records away.   *)
THEOREM StartupIsKept == BurstSpec => []StartupRecordsKept
<1>1. BurstInit => FirstSession /\ StartupRecordsKept
  BY DEF BurstInit, FirstSession, StartupRecordsKept
<1>2. Inv /\ FirstSession /\ StartupRecordsKept /\ [BurstNext]_burstVars
        => (FirstSession /\ StartupRecordsKept)'
  BY StartupStep DEF Inv
<1> QED
  BY <1>1, <1>2, Invariance, PTL DEF BurstSpec
=============================================================================
