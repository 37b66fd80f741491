----------------------- MODULE TelemetryCaptureProofs ------------------------
(* What TLAPS proves of TelemetryCapture, for any sources and all bounds: what *)
(* the hub says of a capture agrees with what it did, and a capture declared   *)
(* complete is never touched again.                                            *)
EXTENDS TelemetryCapture, TLAPS

-----------------------------------------------------------------------------
(* The inductive invariant.                                                *)

(* Where each thread can be: the worker is at work only while the          *)
(* controller waits to stop or stops it, it leaves its loop only when it   *)
(* was asked to, and it was asked to only when every source was visited.   *)
StagesFit ==
    /\ pc["controller"] \notin {"wait", "drain", "series", "done"}
    /\ pc["worker"] \in {"wait", "drain", "series", "fail", "failClose",
                         "flush", "seal", "settle", "done"}
    /\ pc["worker"] # "done" => pc["controller"] \in {"running", "stop", "join"}
    /\ pc["controller"] \in {"running", "stop"} =>
          /\ ~last /\ ~stopRequested
          /\ pc["worker"] \in {"wait", "drain", "series", "fail", "failClose"}
    /\ last /\ pc["worker"] # "done" => pc["controller"] = "join"
    /\ stopRequested => pc["controller"] \in {"join", "idle"}
    /\ pc["worker"] = "wait" => ~last
    /\ pc["worker"] \in {"flush", "seal", "settle"} => last
    /\ pc["worker"] \in {"fail", "failClose"} => back["worker"] = AfterSnapshot
    /\ pc["controller"] \in {"fail", "failClose"} =>
          back["controller"] \in {"launch", "flush"}

(* Start is not past opening the files and the sources.                     *)
EarlyPcs == {"directory", "files", "metadata", "refuse", "admit"}

(* The directory, the session and the first steps of Start.                *)
DirectoriesFit ==
    /\ directory \in {0, session}
    /\ session = 0 => pc["controller"] = "idle"
    /\ pc["controller"] \in {"directory"} => directory = 0
    /\ pc["controller"] \in {"files", "metadata", "admit", "fail", "failClose",
                             "flush", "seal", "settle"} => directory # 0
    /\ pc["worker"] \in {"series", "fail", "failClose", "flush", "seal", "settle"} => directory # 0
    /\ last /\ pc["worker"] # "done" => directory # 0
    /\ \A k \in 1..MaxCaptures : k > session => ~disk[k].complete
    /\ \A k \in 1..MaxCaptures : disk[k].complete => disk[k].errors = {}

(* The state of the capture and its errors.                                *)
StateFits ==
    /\ pc["controller"] \in EarlyPcs => captureState = "Disabled"
    /\ pc["controller"] \in {"directory", "files", "admit"} => errors = {}
    /\ pc["controller"] = "refuse" => errors # {}
    /\ pc["controller"] = "fail" => errors # {}
    /\ pc["worker"] = "fail" => errors # {}
    /\ pc["controller"] = "failClose" => captureState = "Incomplete"
    /\ pc["worker"] = "failClose" => captureState = "Incomplete"
    /\ pc["controller"] \in {"flush", "seal", "settle"} => captureState = "Incomplete"
    /\ captureState = "Incomplete" => errors # {}
    /\ captureState = "Disabled" /\ directory # 0 => pc["controller"] \in EarlyPcs \cup {"fail"}
    /\ captureState = "Active" => directory # 0
    /\ captureState = "Complete" =>
          /\ errors = {} /\ pc["controller"] \in {"join", "idle"} /\ pc["worker"] = "done"
          /\ disk[directory].complete /\ directory # 0

(* Which sources are closed.                                               *)
SourcesFit ==
    /\ directory = 0 => \A s \in Sources : ~admits[s]
    /\ pc["controller"] \in {"directory", "files", "metadata", "refuse", "idle", "join"}
          => \A s \in Sources : ~admits[s]
    /\ pc["controller"] = "stop" =>
          \A s \in Sources : s \in todo["controller"] \/ ~admits[s]
    /\ \A t \in Threads : pc[t] = "failClose" =>
          \A s \in Sources : s \in todo[t] \/ ~admits[s]
    /\ captureState \in {"Disabled", "Incomplete"} =>
          \/ \A s \in Sources : ~admits[s]
          \/ pc["controller"] = "admit"
          \/ \E t \in Threads : pc[t] \in {"fail", "failClose"}
    /\ pc["controller"] \in {"flush", "seal", "settle"} => \A s \in Sources : ~admits[s]

(* The records of source s that are between its ring and the series file.  *)
Between(s) ==
    IF pc["worker"] = "series" \/ (pc["worker"] = "drain" /\ s \notin todo["worker"])
    THEN hand[s] ELSE 0

(* No error has been flagged.                                              *)
Healthy == errors = {}

(* Every record accepted is in a ring, in the worker's hands or in the file, *)
(* but for those lost when an error was flagged.                           *)
RecordsFit ==
    /\ \A s \in Sources :
          /\ stored[s] + Between(s) + pending[s] <= accepted[s]
          /\ Healthy /\ pc["controller"] # "idle" =>
                stored[s] + Between(s) + pending[s] = accepted[s]
          /\ last /\ pc["worker"] # "done" =>
                (pc["worker"] = "drain" /\ s \in todo["worker"]) \/ pending[s] = 0 \/ ~Healthy
    /\ directory = 0 => \A s \in Sources : accepted[s] = 0

(* The rows written are those of the intervals collected, within bounds.   *)
RowsFit ==
    /\ pc["controller"] \notin {"running", "stop", "join", "idle"} => intervals = 0
    /\ rows <= intervals
    /\ Healthy /\ directory # 0 => rows = intervals
    /\ intervals <= MaxIntervals + 1
    /\ pc["worker"] \in {"wait", "drain"} => intervals <= MaxIntervals
    /\ pc["worker"] = "drain" /\ ~last => intervals < MaxIntervals
    /\ pc["worker"] \in {"series", "fail", "failClose"} /\ ~last => intervals <= MaxIntervals

(* What metadata.json says once it has been sealed, or could not be.        *)
SealTold ==
    /\ errors = {} => disk[directory].complete
    /\ "Metadata" \notin errors =>
          disk[directory].present /\ disk[directory].errors = errors

(* A capture declared complete is whole, and settled or about to be.       *)
SealFits ==
    /\ directory # 0 /\ disk[directory].complete =>
          /\ errors = {}
          /\ \/ pc["worker"] = "settle"
             \/ captureState = "Complete"
          /\ \A s \in Sources : ~admits[s] /\ stored[s] = accepted[s]
          /\ rows = intervals
    /\ \A t \in Threads : pc[t] = "settle" => SealTold
    /\ directory # 0 /\ pc["controller"] \in {"join", "idle"} /\ pc["worker"] = "done" =>
          captureState \in {"Complete", "Incomplete"} /\ SealTold
    /\ session # 0 /\ directory = 0 => ~disk[session].complete

(* What the menu has read is true of the session it read it in.            *)
MenuFits ==
    /\ menu.session <= session
    /\ menu.session = session =>
          /\ menu.state = "Incomplete" => captureState = "Incomplete"
          /\ menu.state = "Complete" => captureState = "Complete"
    /\ MenuMakesSense

(* The inductive invariant.                                                *)
CaptureInv ==
    /\ CaptureTypeOK /\ StagesFit /\ DirectoriesFit /\ StateFits /\ SourcesFit
    /\ RecordsFit /\ RowsFit /\ SealFits /\ MenuFits

-----------------------------------------------------------------------------
(* Every step keeps each part of it.                                       *)


USE DEF Threads, Proceed, Fail, VisitAll, Home, None, AfterSnapshot,
        Between, Healthy, EarlyPcs, SealTold, MenuMakesSense, threadVars, sessionVars,
        fileVars, countVars, Pcs, States, Files, Errors, Metadata

(* A write of metadata.json changes that of the capture's directory only.  *)
LEMMA MetadataWritten ==
    ASSUME disk \in [1..MaxCaptures -> Metadata], directory \in 1..MaxCaptures,
           errors \in SUBSET Errors, NEW complete \in BOOLEAN, WriteMetadata(complete)
    PROVE  /\ disk' \in [1..MaxCaptures -> Metadata]
           /\ disk'[directory].present
           /\ disk'[directory].complete = complete
           /\ disk'[directory].errors = errors
           /\ \A k \in 1..MaxCaptures : k # directory => disk'[k] = disk[k]
<1> DEFINE written == [present |-> TRUE, complete |-> complete, errors |-> errors]
<1>1. written \in Metadata
  OBVIOUS
<1>2. disk' = [disk EXCEPT ![directory] = written]
  BY DEF WriteMetadata
<1>3. disk'[directory] = written
  BY <1>2
<1>4. /\ disk' \in [1..MaxCaptures -> Metadata]
      /\ \A k \in 1..MaxCaptures : k # directory => disk'[k] = disk[k]
  <2> HIDE DEF written, Metadata
  <2> QED BY <1>1, <1>2
<1> QED BY <1>3, <1>4

(* Every step keeps the types.                                             *)
LEMMA CaptureTypeOKKept == CaptureInv /\ CaptureNext => CaptureTypeOK'
<1> SUFFICES ASSUME CaptureInv, CaptureNext PROVE CaptureTypeOK'
  OBVIOUS
<1> USE BoundsAssumption DEF CaptureInv, CaptureTypeOK, StagesFit, DirectoriesFit,
            StateFits, SourcesFit, RecordsFit, RowsFit, SealFits, MenuFits
<1>1. ASSUME NEW root \in BOOLEAN, StartHub(root) PROVE CaptureTypeOK'
  <2>1. pc' \in [Threads -> Pcs]
    BY <1>1 DEF StartHub
  <2>2. session' \in 0..MaxCaptures /\ directory' \in 0..MaxCaptures
    BY <1>1 DEF StartHub
  <2>3. /\ accepted' \in [Sources -> 0..MaxAccepted]
        /\ pending' \in [Sources -> 0..MaxAccepted]
        /\ stored' \in [Sources -> 0..MaxAccepted]
    BY <1>1 DEF StartHub
  <2>4. (/\ back \in [Threads -> Pcs] /\ todo \in [Threads -> SUBSET Sources]
         /\ last \in BOOLEAN /\ stopRequested \in BOOLEAN)'
    BY <1>1 DEF StartHub
  <2>5. (/\ captureState \in States /\ errors \in SUBSET Errors
         /\ openFiles \in SUBSET Files
         /\ disk \in [1..MaxCaptures -> Metadata])'
    BY <1>1 DEF StartHub
  <2>6. (/\ admits \in [Sources -> BOOLEAN] /\ hand \in [Sources -> 0..MaxAccepted]
         /\ intervals \in 0..(MaxIntervals + 1) /\ rows \in 0..(MaxIntervals + 1))'
    BY <1>1 DEF StartHub
  <2>7. (menu \in [state: States, errors: SUBSET Errors, session: 0..MaxCaptures,
                   whole: BOOLEAN])'
    BY <1>1 DEF StartHub
  <2> HIDE DEF CaptureInv, Metadata, States, Errors, Pcs, Files
  <2> QED BY <2>1, <2>2, <2>3, <2>4, <2>5, <2>6, <2>7
<1>2. ASSUME CreateDirectory PROVE CaptureTypeOK'
  <2>1. CASE errors' = {"Directory"}
    BY <1>2, <2>1 DEF CreateDirectory
  <2>2. CASE directory' = session /\ UNCHANGED errors
    BY <1>2, <2>2 DEF CreateDirectory
  <2> QED BY <1>2, <2>1, <2>2 DEF CreateDirectory
<1>3. ASSUME OpenCaptureFiles PROVE CaptureTypeOK'
  BY <1>3 DEF OpenCaptureFiles
<1>4. ASSUME FirstMetadata PROVE CaptureTypeOK'
  <2>1. directory \in 1..MaxCaptures
    BY <1>4 DEF FirstMetadata
  <2>2. disk' \in [1..MaxCaptures -> Metadata]
    <3>1. CASE WriteMetadata(FALSE)
      <4> HIDE DEF Metadata, Errors
      <4> QED BY <2>1, <3>1, MetadataWritten
    <3>2. CASE UNCHANGED disk
      BY <3>2
    <3> QED BY <1>4, <3>1, <3>2 DEF FirstMetadata
  <2>3. pc' \in [Threads -> Pcs] /\ todo' \in [Threads -> SUBSET Sources]
    BY <1>4 DEF FirstMetadata
  <2> QED BY <1>4, <2>2, <2>3 DEF FirstMetadata
<1>5. ASSUME RefuseCapture PROVE CaptureTypeOK'
  BY <1>5 DEF RefuseCapture
<1>6. ASSUME NEW src \in Sources, StartSource(src) PROVE CaptureTypeOK'
  <2>1. CASE Fail("controller", "Worker", "launch") /\ UNCHANGED <<admits, todo>>
    BY <1>6, <2>1 DEF StartSource
  <2>2. CASE /\ admits' = [admits EXCEPT ![src] = TRUE]
             /\ todo' = [todo EXCEPT !["controller"] = @ \ {src}]
             /\ UNCHANGED <<pc, back, errors>>
    BY <2>2, <1>6 DEF StartSource
  <2> QED BY <1>6, <2>1, <2>2 DEF StartSource
<1>7. ASSUME ActivateCapture PROVE CaptureTypeOK'
  BY <1>7 DEF ActivateCapture
<1>8. ASSUME Launch PROVE CaptureTypeOK'
  <2>1. CASE /\ pc' = [controller |-> "running", worker |-> "wait"]
             /\ last' = FALSE /\ UNCHANGED <<back, errors>>
    <3>1. pc' = [t \in Threads |-> IF t = "worker" THEN "wait" ELSE "running"]
      BY <2>1
    <3>2. /\ pc' \in [Threads -> Pcs]
          /\ pc'["worker"] = "wait" /\ pc'["controller"] = "running"
      BY <3>1
    <3>3. /\ last' = FALSE /\ pc["controller"] = "launch"
          /\ UNCHANGED <<back, errors, todo, stopRequested, session, directory,
                         captureState, fileVars, countVars, admits, menu>>
      BY <1>8, <2>1 DEF Launch
    <3> QED BY <3>2, <3>3
  <2>2. CASE directory = 0 /\ Proceed("controller", "idle") /\ UNCHANGED <<last, back, errors>>
    BY <1>8, <2>2 DEF Launch
  <2>3. CASE directory # 0 /\ Fail("controller", "Worker", "flush") /\ UNCHANGED last
    BY <1>8, <2>3 DEF Launch
  <2> QED BY <1>8, <2>1, <2>2, <2>3 DEF Launch
<1>9. ASSUME RequestStop PROVE CaptureTypeOK'
  BY <1>9 DEF RequestStop
<1>10. ASSUME Join PROVE CaptureTypeOK'
  BY <1>10 DEF Join
<1>11. ASSUME StopHub PROVE CaptureTypeOK'
  BY <1>11 DEF StopHub
<1>12. ASSUME IntervalEnds PROVE CaptureTypeOK'
  BY <1>12 DEF IntervalEnds
<1>13. ASSUME LoopEnds PROVE CaptureTypeOK'
  BY <1>13 DEF LoopEnds
<1>14. ASSUME NEW src \in Sources, Drain(src) PROVE CaptureTypeOK'
  BY <1>14 DEF Drain
<1>15. ASSUME WriteTelemetryRow PROVE CaptureTypeOK'
  <2>1. intervals' \in 0..(MaxIntervals + 1) /\ rows' \in 0..(MaxIntervals + 1)
    BY <1>15 DEF WriteTelemetryRow
  <2>2. pc' \in [Threads -> Pcs]
    BY <1>15 DEF WriteTelemetryRow
  <2>3. back' \in [Threads -> Pcs]
    BY <1>15 DEF WriteTelemetryRow
  <2> QED BY <1>15, <2>1, <2>2, <2>3 DEF WriteTelemetryRow
<1>16. ASSUME WriteSeriesRows PROVE CaptureTypeOK'
  <2>1. \A s \in Sources : stored[s] + hand[s] \in 0..MaxAccepted
    BY SMTT(20), <1>16 DEF WriteSeriesRows
  <2>2. stored' \in [Sources -> 0..MaxAccepted]
    BY <1>16, <2>1 DEF WriteSeriesRows
  <2>3. pc' \in [Threads -> Pcs]
    BY <1>16 DEF WriteSeriesRows
  <2>4. back' \in [Threads -> Pcs]
    BY <1>16 DEF WriteSeriesRows
  <2> QED BY <1>16, <2>2, <2>3, <2>4 DEF WriteSeriesRows
<1>17. ASSUME NEW thr \in Threads, NEW src \in Sources, CloseSource(thr, src) PROVE CaptureTypeOK'
  BY <1>17 DEF CloseSource
<1>18. ASSUME NEW thr \in Threads, MarkIncomplete(thr) PROVE CaptureTypeOK'
  BY <1>18 DEF MarkIncomplete
<1>19. ASSUME NEW thr \in Threads, CloseFiles(thr) PROVE CaptureTypeOK'
  BY <1>19 DEF CloseFiles
<1>20. ASSUME NEW thr \in Threads, FlushFiles(thr) PROVE CaptureTypeOK'
  BY <1>20 DEF FlushFiles
<1>21. ASSUME NEW thr \in Threads, SealMetadata(thr) PROVE CaptureTypeOK'
  <2>1. directory \in 1..MaxCaptures /\ directory = session
    BY <1>21 DEF SealMetadata
  <2>2. CASE WriteMetadata(errors = {}) /\ UNCHANGED errors
    <3>1. /\ disk' \in [1..MaxCaptures -> Metadata]
          /\ disk'[directory].present
          /\ disk'[directory].complete = (errors = {})
          /\ disk'[directory].errors = errors
          /\ \A k \in 1..MaxCaptures : k # directory => disk'[k] = disk[k]
      <4> HIDE DEF Metadata, Errors
      <4> QED BY <2>1, <2>2, MetadataWritten
    <3>2. /\ pc[thr] = "seal" /\ pc' = [pc EXCEPT ![thr] = "settle"]
          /\ UNCHANGED <<errors, back, todo, last, stopRequested, session, directory,
                         captureState, openFiles, countVars, admits, menu>>
      BY <1>21, <2>2 DEF SealMetadata
    <3> QED BY <3>1, <3>2
  <2>3. CASE errors' = errors \cup {"Metadata"} /\ UNCHANGED disk
    BY <1>21, <2>1, <2>3 DEF SealMetadata
  <2> QED BY <1>21, <2>2, <2>3 DEF SealMetadata
<1>22. ASSUME NEW thr \in Threads, SettleState(thr) PROVE CaptureTypeOK'
  BY <1>22 DEF SettleState
<1>23. ASSUME NEW src \in Sources, Accept(src) PROVE CaptureTypeOK'
  <2>1. /\ accepted[src] + 1 \in 0..MaxAccepted
        /\ accepted' = [accepted EXCEPT ![src] = accepted[src] + 1]
        /\ accepted \in [Sources -> 0..MaxAccepted]
    BY <1>23 DEF Accept
  <2>2. /\ pending[src] + 1 \in 0..MaxAccepted
        /\ pending' = [pending EXCEPT ![src] = pending[src] + 1]
        /\ pending \in [Sources -> 0..MaxAccepted]
    BY <1>23 DEF Accept
  <2>3. /\ accepted' \in [Sources -> 0..MaxAccepted]
        /\ pending' \in [Sources -> 0..MaxAccepted]
    BY <2>1, <2>2
  <2> QED BY <1>23, <2>3 DEF Accept
<1>24. ASSUME ReadState PROVE CaptureTypeOK'
  BY <1>24 DEF ReadState
<1>25. ASSUME ReadErrors PROVE CaptureTypeOK'
  BY <1>25 DEF ReadErrors
<1> QED
  BY <1>1, <1>2, <1>3, <1>4, <1>5, <1>6, <1>7, <1>8, <1>9, <1>10, <1>11, <1>12, <1>13,
     <1>14, <1>15, <1>16, <1>17, <1>18, <1>19, <1>20, <1>21, <1>22, <1>23, <1>24, <1>25
  DEF CaptureNext, ControllerStep, WorkerStep, SharedStep

(* Every step keeps the two threads in stages that go together.            *)
LEMMA StagesFitKept == CaptureInv /\ CaptureNext => StagesFit'
<1> SUFFICES ASSUME CaptureInv, CaptureNext PROVE StagesFit'
  OBVIOUS
<1> USE BoundsAssumption DEF CaptureInv, CaptureTypeOK, StagesFit, DirectoriesFit,
            StateFits, SourcesFit, RecordsFit, RowsFit, SealFits, MenuFits
<1>1. ASSUME NEW root \in BOOLEAN, StartHub(root) PROVE StagesFit'
  BY <1>1 DEF StartHub
<1>2. ASSUME CreateDirectory PROVE StagesFit'
  BY <1>2 DEF CreateDirectory
<1>3. ASSUME OpenCaptureFiles PROVE StagesFit'
  BY <1>3 DEF OpenCaptureFiles
<1>4. ASSUME FirstMetadata PROVE StagesFit'
  BY <1>4 DEF FirstMetadata
<1>5. ASSUME RefuseCapture PROVE StagesFit'
  BY <1>5 DEF RefuseCapture
<1>6. ASSUME NEW src \in Sources, StartSource(src) PROVE StagesFit'
  BY <1>6 DEF StartSource
<1>7. ASSUME ActivateCapture PROVE StagesFit'
  BY <1>7 DEF ActivateCapture
<1>8. ASSUME Launch PROVE StagesFit'
  BY <1>8 DEF Launch
<1>9. ASSUME RequestStop PROVE StagesFit'
  BY <1>9 DEF RequestStop
<1>10. ASSUME Join PROVE StagesFit'
  BY <1>10 DEF Join
<1>11. ASSUME StopHub PROVE StagesFit'
  BY <1>11 DEF StopHub
<1>12. ASSUME IntervalEnds PROVE StagesFit'
  BY <1>12 DEF IntervalEnds
<1>13. ASSUME LoopEnds PROVE StagesFit'
  BY <1>13 DEF LoopEnds
<1>14. ASSUME NEW src \in Sources, Drain(src) PROVE StagesFit'
  BY <1>14 DEF Drain
<1>15. ASSUME WriteTelemetryRow PROVE StagesFit'
  BY <1>15 DEF WriteTelemetryRow
<1>16. ASSUME WriteSeriesRows PROVE StagesFit'
  BY <1>16 DEF WriteSeriesRows
<1>17. ASSUME NEW thr \in Threads, NEW src \in Sources, CloseSource(thr, src) PROVE StagesFit'
  BY <1>17 DEF CloseSource
<1>18. ASSUME NEW thr \in Threads, MarkIncomplete(thr) PROVE StagesFit'
  BY <1>18 DEF MarkIncomplete
<1>19. ASSUME NEW thr \in Threads, CloseFiles(thr) PROVE StagesFit'
  BY <1>19 DEF CloseFiles
<1>20. ASSUME NEW thr \in Threads, FlushFiles(thr) PROVE StagesFit'
  BY <1>20 DEF FlushFiles
<1>21. ASSUME NEW thr \in Threads, SealMetadata(thr) PROVE StagesFit'
  BY <1>21 DEF SealMetadata
<1>22. ASSUME NEW thr \in Threads, SettleState(thr) PROVE StagesFit'
  BY <1>22 DEF SettleState
<1>23. ASSUME NEW src \in Sources, Accept(src) PROVE StagesFit'
  BY <1>23 DEF Accept
<1>24. ASSUME ReadState PROVE StagesFit'
  BY <1>24 DEF ReadState
<1>25. ASSUME ReadErrors PROVE StagesFit'
  BY <1>25 DEF ReadErrors
<1> QED
  BY <1>1, <1>2, <1>3, <1>4, <1>5, <1>6, <1>7, <1>8, <1>9, <1>10, <1>11, <1>12, <1>13,
     <1>14, <1>15, <1>16, <1>17, <1>18, <1>19, <1>20, <1>21, <1>22, <1>23, <1>24, <1>25
  DEF CaptureNext, ControllerStep, WorkerStep, SharedStep

(* Every step keeps the directory that of the session, and later ones      *)
(* Every step keeps the directory, the session and the capture together.   *)
LEMMA DirectoriesFitKept == CaptureInv /\ CaptureNext => DirectoriesFit'
<1> SUFFICES ASSUME CaptureInv, CaptureNext PROVE DirectoriesFit'
  OBVIOUS
<1> USE BoundsAssumption DEF CaptureInv, CaptureTypeOK, StagesFit, DirectoriesFit,
            StateFits, SourcesFit, RecordsFit, RowsFit, SealFits, MenuFits
<1>1. ASSUME NEW root \in BOOLEAN, StartHub(root) PROVE DirectoriesFit'
  BY <1>1 DEF StartHub
<1>2. ASSUME CreateDirectory PROVE DirectoriesFit'
  BY <1>2 DEF CreateDirectory
<1>3. ASSUME OpenCaptureFiles PROVE DirectoriesFit'
  BY <1>3 DEF OpenCaptureFiles
<1>4. ASSUME FirstMetadata PROVE DirectoriesFit'
  <2>1. directory \in 1..MaxCaptures /\ directory = session
    BY <1>4 DEF FirstMetadata
  <2>2. \/ UNCHANGED disk
        \/ /\ ~disk'[directory].complete
           /\ disk'[directory].errors = errors /\ disk'[directory].present
           /\ \A k \in 1..MaxCaptures : k # directory => disk'[k] = disk[k]
    <3> HIDE DEF Metadata, Errors
    <3> QED BY <1>4, <2>1, MetadataWritten DEF FirstMetadata
  <2>3. \A k \in 1..MaxCaptures : disk'[k].complete => disk'[k].errors = {}
    BY <2>1, <2>2
  <2>4. \A k \in 1..MaxCaptures : k > session => ~disk'[k].complete
    BY <2>1, <2>2
  <2>5. /\ pc["controller"] = "metadata" /\ UNCHANGED <<session, directory, last>>
        /\ Proceed("controller", IF errors' = {} THEN "admit" ELSE "refuse")
    BY <1>4 DEF FirstMetadata
  <2> HIDE DEF Pcs
  <2> QED BY <2>1, <2>3, <2>4, <2>5
<1>5. ASSUME RefuseCapture PROVE DirectoriesFit'
  BY <1>5 DEF RefuseCapture
<1>6. ASSUME NEW src \in Sources, StartSource(src) PROVE DirectoriesFit'
  BY <1>6 DEF StartSource
<1>7. ASSUME ActivateCapture PROVE DirectoriesFit'
  BY <1>7 DEF ActivateCapture
<1>8. ASSUME Launch PROVE DirectoriesFit'
  BY <1>8 DEF Launch
<1>9. ASSUME RequestStop PROVE DirectoriesFit'
  BY <1>9 DEF RequestStop
<1>10. ASSUME Join PROVE DirectoriesFit'
  BY <1>10 DEF Join
<1>11. ASSUME StopHub PROVE DirectoriesFit'
  BY <1>11 DEF StopHub
<1>12. ASSUME IntervalEnds PROVE DirectoriesFit'
  BY <1>12 DEF IntervalEnds
<1>13. ASSUME LoopEnds PROVE DirectoriesFit'
  BY <1>13 DEF LoopEnds
<1>14. ASSUME NEW src \in Sources, Drain(src) PROVE DirectoriesFit'
  BY <1>14 DEF Drain
<1>15. ASSUME WriteTelemetryRow PROVE DirectoriesFit'
  BY <1>15 DEF WriteTelemetryRow
<1>16. ASSUME WriteSeriesRows PROVE DirectoriesFit'
  BY <1>16 DEF WriteSeriesRows
<1>17. ASSUME NEW thr \in Threads, NEW src \in Sources, CloseSource(thr, src) PROVE DirectoriesFit'
  BY <1>17 DEF CloseSource
<1>18. ASSUME NEW thr \in Threads, MarkIncomplete(thr) PROVE DirectoriesFit'
  BY <1>18 DEF MarkIncomplete
<1>19. ASSUME NEW thr \in Threads, CloseFiles(thr) PROVE DirectoriesFit'
  BY <1>19 DEF CloseFiles
<1>20. ASSUME NEW thr \in Threads, FlushFiles(thr) PROVE DirectoriesFit'
  BY <1>20 DEF FlushFiles
<1>21. ASSUME NEW thr \in Threads, SealMetadata(thr) PROVE DirectoriesFit'
  <2>1. directory \in 1..MaxCaptures /\ directory = session
    BY <1>21 DEF SealMetadata
  <2>2. CASE WriteMetadata(errors = {}) /\ UNCHANGED errors
    <3>1. /\ disk' \in [1..MaxCaptures -> Metadata]
          /\ disk'[directory].present
          /\ disk'[directory].complete = (errors = {})
          /\ disk'[directory].errors = errors
          /\ \A k \in 1..MaxCaptures : k # directory => disk'[k] = disk[k]
      <4> HIDE DEF Metadata, Errors
      <4> QED BY <2>1, <2>2, MetadataWritten
    <3>2. /\ pc[thr] = "seal" /\ pc' = [pc EXCEPT ![thr] = "settle"]
          /\ UNCHANGED <<errors, back, todo, last, stopRequested, session, directory,
                         captureState, openFiles, countVars, admits, menu>>
      BY <1>21, <2>2 DEF SealMetadata
    <3>3. \A k \in 1..MaxCaptures : disk'[k].complete => disk'[k].errors = {}
      BY <2>1, <3>1
    <3>4. \A k \in 1..MaxCaptures : k > session => ~disk'[k].complete
      BY <2>1, <3>1
    <3> HIDE DEF Pcs
    <3> QED BY <2>1, <3>2, <3>3, <3>4
  <2>3. CASE errors' = errors \cup {"Metadata"} /\ UNCHANGED disk
    BY <1>21, <2>1, <2>3 DEF SealMetadata
  <2> QED BY <1>21, <2>2, <2>3 DEF SealMetadata
<1>22. ASSUME NEW thr \in Threads, SettleState(thr) PROVE DirectoriesFit'
  BY <1>22 DEF SettleState
<1>23. ASSUME NEW src \in Sources, Accept(src) PROVE DirectoriesFit'
  BY <1>23 DEF Accept
<1>24. ASSUME ReadState PROVE DirectoriesFit'
  BY <1>24 DEF ReadState
<1>25. ASSUME ReadErrors PROVE DirectoriesFit'
  BY <1>25 DEF ReadErrors
<1> QED
  BY <1>1, <1>2, <1>3, <1>4, <1>5, <1>6, <1>7, <1>8, <1>9, <1>10, <1>11, <1>12, <1>13,
     <1>14, <1>15, <1>16, <1>17, <1>18, <1>19, <1>20, <1>21, <1>22, <1>23, <1>24, <1>25
  DEF CaptureNext, ControllerStep, WorkerStep, SharedStep

(* Every step keeps the state, the errors and the stages together.         *)
LEMMA StateFitsKept == CaptureInv /\ CaptureNext => StateFits'
<1> SUFFICES ASSUME CaptureInv, CaptureNext PROVE StateFits'
  OBVIOUS
<1> USE BoundsAssumption DEF CaptureInv, CaptureTypeOK, StagesFit, DirectoriesFit,
            StateFits, SourcesFit, RecordsFit, RowsFit, SealFits, MenuFits
<1>1. ASSUME NEW root \in BOOLEAN, StartHub(root) PROVE StateFits'
  BY <1>1 DEF StartHub
<1>2. ASSUME CreateDirectory PROVE StateFits'
  BY ZenonT(40), <1>2 DEF CreateDirectory
<1>3. ASSUME OpenCaptureFiles PROVE StateFits'
  BY <1>3 DEF OpenCaptureFiles
<1>4. ASSUME FirstMetadata PROVE StateFits'
  BY <1>4 DEF FirstMetadata
<1>5. ASSUME RefuseCapture PROVE StateFits'
  BY <1>5 DEF RefuseCapture
<1>6. ASSUME NEW src \in Sources, StartSource(src) PROVE StateFits'
  BY <1>6 DEF StartSource
<1>7. ASSUME ActivateCapture PROVE StateFits'
  BY <1>7 DEF ActivateCapture
<1>8. ASSUME Launch PROVE StateFits'
  <2>1. CASE /\ pc' = [controller |-> "running", worker |-> "wait"]
             /\ last' = FALSE /\ UNCHANGED <<back, errors>>
    BY <2>1, <1>8 DEF Launch
  <2>2. CASE directory = 0 /\ Proceed("controller", "idle") /\ UNCHANGED <<last, back, errors>>
    BY <1>8, <2>2 DEF Launch
  <2>3. CASE directory # 0 /\ Fail("controller", "Worker", "flush") /\ UNCHANGED last
    BY <1>8, <2>3 DEF Launch
  <2> QED BY <1>8, <2>1, <2>2, <2>3 DEF Launch
<1>9. ASSUME RequestStop PROVE StateFits'
  BY <1>9 DEF RequestStop
<1>10. ASSUME Join PROVE StateFits'
  BY <1>10 DEF Join
<1>11. ASSUME StopHub PROVE StateFits'
  BY <1>11 DEF StopHub
<1>12. ASSUME IntervalEnds PROVE StateFits'
  BY <1>12 DEF IntervalEnds
<1>13. ASSUME LoopEnds PROVE StateFits'
  BY <1>13 DEF LoopEnds
<1>14. ASSUME NEW src \in Sources, Drain(src) PROVE StateFits'
  BY <1>14 DEF Drain
<1>15. ASSUME WriteTelemetryRow PROVE StateFits'
  BY ZenonT(40), <1>15 DEF WriteTelemetryRow
<1>16. ASSUME WriteSeriesRows PROVE StateFits'
  BY ZenonT(40), <1>16 DEF WriteSeriesRows
<1>17. ASSUME NEW thr \in Threads, NEW src \in Sources, CloseSource(thr, src) PROVE StateFits'
  BY <1>17 DEF CloseSource
<1>18. ASSUME NEW thr \in Threads, MarkIncomplete(thr) PROVE StateFits'
  BY <1>18 DEF MarkIncomplete
<1>19. ASSUME NEW thr \in Threads, CloseFiles(thr) PROVE StateFits'
  BY <1>19 DEF CloseFiles
<1>20. ASSUME NEW thr \in Threads, FlushFiles(thr) PROVE StateFits'
  BY <1>20 DEF FlushFiles
<1>21. ASSUME NEW thr \in Threads, SealMetadata(thr) PROVE StateFits'
  BY <1>21 DEF SealMetadata
<1>22. ASSUME NEW thr \in Threads, SettleState(thr) PROVE StateFits'
  BY <1>22 DEF SettleState
<1>23. ASSUME NEW src \in Sources, Accept(src) PROVE StateFits'
  BY <1>23 DEF Accept
<1>24. ASSUME ReadState PROVE StateFits'
  BY <1>24 DEF ReadState
<1>25. ASSUME ReadErrors PROVE StateFits'
  BY <1>25 DEF ReadErrors
<1> QED
  BY <1>1, <1>2, <1>3, <1>4, <1>5, <1>6, <1>7, <1>8, <1>9, <1>10, <1>11, <1>12, <1>13,
     <1>14, <1>15, <1>16, <1>17, <1>18, <1>19, <1>20, <1>21, <1>22, <1>23, <1>24, <1>25
  DEF CaptureNext, ControllerStep, WorkerStep, SharedStep

(* Every step keeps closed the sources that should be.                     *)
LEMMA SourcesFitKept == CaptureInv /\ CaptureNext => SourcesFit'
<1> SUFFICES ASSUME CaptureInv, CaptureNext PROVE SourcesFit'
  OBVIOUS
<1> USE BoundsAssumption DEF CaptureInv, CaptureTypeOK, StagesFit, DirectoriesFit,
            StateFits, SourcesFit, RecordsFit, RowsFit, SealFits, MenuFits
<1>1. ASSUME NEW root \in BOOLEAN, StartHub(root) PROVE SourcesFit'
  BY <1>1 DEF StartHub
<1>2. ASSUME CreateDirectory PROVE SourcesFit'
  BY <1>2 DEF CreateDirectory
<1>3. ASSUME OpenCaptureFiles PROVE SourcesFit'
  BY <1>3 DEF OpenCaptureFiles
<1>4. ASSUME FirstMetadata PROVE SourcesFit'
  BY <1>4 DEF FirstMetadata
<1>5. ASSUME RefuseCapture PROVE SourcesFit'
  BY <1>5 DEF RefuseCapture
<1>6. ASSUME NEW src \in Sources, StartSource(src) PROVE SourcesFit'
  BY SMTT(20), <1>6 DEF StartSource
<1>7. ASSUME ActivateCapture PROVE SourcesFit'
  BY <1>7 DEF ActivateCapture
<1>8. ASSUME Launch PROVE SourcesFit'
  BY <1>8 DEF Launch
<1>9. ASSUME RequestStop PROVE SourcesFit'
  BY <1>9 DEF RequestStop
<1>10. ASSUME Join PROVE SourcesFit'
  BY <1>10 DEF Join
<1>11. ASSUME StopHub PROVE SourcesFit'
  BY <1>11 DEF StopHub
<1>12. ASSUME IntervalEnds PROVE SourcesFit'
  BY <1>12 DEF IntervalEnds
<1>13. ASSUME LoopEnds PROVE SourcesFit'
  BY <1>13 DEF LoopEnds
<1>14. ASSUME NEW src \in Sources, Drain(src) PROVE SourcesFit'
  BY <1>14 DEF Drain
<1>15. ASSUME WriteTelemetryRow PROVE SourcesFit'
  BY <1>15 DEF WriteTelemetryRow
<1>16. ASSUME WriteSeriesRows PROVE SourcesFit'
  BY <1>16 DEF WriteSeriesRows
<1>17. ASSUME NEW thr \in Threads, NEW src \in Sources, CloseSource(thr, src) PROVE SourcesFit'
  BY <1>17 DEF CloseSource
<1>18. ASSUME NEW thr \in Threads, MarkIncomplete(thr) PROVE SourcesFit'
  BY <1>18 DEF MarkIncomplete
<1>19. ASSUME NEW thr \in Threads, CloseFiles(thr) PROVE SourcesFit'
  BY <1>19 DEF CloseFiles
<1>20. ASSUME NEW thr \in Threads, FlushFiles(thr) PROVE SourcesFit'
  BY <1>20 DEF FlushFiles
<1>21. ASSUME NEW thr \in Threads, SealMetadata(thr) PROVE SourcesFit'
  BY <1>21 DEF SealMetadata
<1>22. ASSUME NEW thr \in Threads, SettleState(thr) PROVE SourcesFit'
  BY <1>22 DEF SettleState
<1>23. ASSUME NEW src \in Sources, Accept(src) PROVE SourcesFit'
  BY <1>23 DEF Accept
<1>24. ASSUME ReadState PROVE SourcesFit'
  BY <1>24 DEF ReadState
<1>25. ASSUME ReadErrors PROVE SourcesFit'
  BY <1>25 DEF ReadErrors
<1> QED
  BY <1>1, <1>2, <1>3, <1>4, <1>5, <1>6, <1>7, <1>8, <1>9, <1>10, <1>11, <1>12, <1>13,
     <1>14, <1>15, <1>16, <1>17, <1>18, <1>19, <1>20, <1>21, <1>22, <1>23, <1>24, <1>25
  DEF CaptureNext, ControllerStep, WorkerStep, SharedStep

(* Every step accounts for the records accepted.                           *)
LEMMA RecordsFitKept == CaptureInv /\ CaptureNext => RecordsFit'
<1> SUFFICES ASSUME CaptureInv, CaptureNext PROVE RecordsFit'
  OBVIOUS
<1> USE BoundsAssumption DEF CaptureInv, CaptureTypeOK, StagesFit, DirectoriesFit,
            StateFits, SourcesFit, RecordsFit, RowsFit, SealFits, MenuFits
<1>1. ASSUME NEW root \in BOOLEAN, StartHub(root) PROVE RecordsFit'
  BY <1>1 DEF StartHub
<1>2. ASSUME CreateDirectory PROVE RecordsFit'
  BY <1>2 DEF CreateDirectory
<1>3. ASSUME OpenCaptureFiles PROVE RecordsFit'
  BY <1>3 DEF OpenCaptureFiles
<1>4. ASSUME FirstMetadata PROVE RecordsFit'
  BY <1>4 DEF FirstMetadata
<1>5. ASSUME RefuseCapture PROVE RecordsFit'
  BY <1>5 DEF RefuseCapture
<1>6. ASSUME NEW src \in Sources, StartSource(src) PROVE RecordsFit'
  BY <1>6 DEF StartSource
<1>7. ASSUME ActivateCapture PROVE RecordsFit'
  BY <1>7 DEF ActivateCapture
<1>8. ASSUME Launch PROVE RecordsFit'
  BY <1>8 DEF Launch
<1>9. ASSUME RequestStop PROVE RecordsFit'
  BY <1>9 DEF RequestStop
<1>10. ASSUME Join PROVE RecordsFit'
  BY <1>10 DEF Join
<1>11. ASSUME StopHub PROVE RecordsFit'
  BY <1>11 DEF StopHub
<1>12. ASSUME IntervalEnds PROVE RecordsFit'
  BY <1>12 DEF IntervalEnds
<1>13. ASSUME LoopEnds PROVE RecordsFit'
  BY <1>13 DEF LoopEnds
<1>14. ASSUME NEW src \in Sources, Drain(src) PROVE RecordsFit'
  BY <1>14 DEF Drain
<1>15. ASSUME WriteTelemetryRow PROVE RecordsFit'
  <2>1. CASE /\ captureState # "Active" /\ Proceed("worker", AfterSnapshot)
             /\ UNCHANGED <<rows, errors, back>>
    <3>1. errors # {} \/ directory = 0
      BY <1>15, <2>1 DEF WriteTelemetryRow
    <3>2. directory = 0 => \A s \in Sources :
            accepted[s] = 0 /\ stored[s] = 0 /\ hand[s] = 0 /\ pending[s] = 0
      BY <1>15 DEF WriteTelemetryRow
    <3>3. \A s \in Sources : Between(s)' = 0
      BY <1>15, <2>1 DEF WriteTelemetryRow
    <3>4. last /\ directory = 0 => pc["worker"] = "done"
      BY <1>15
    <3>5. \A s \in Sources : stored[s] + pending[s] <= accepted[s]
      BY <1>15 DEF WriteTelemetryRow
    <3>6. /\ pc["worker"] = "drain" /\ todo["worker"] = {}
          /\ UNCHANGED <<errors, directory, accepted, stored, pending, last>>
      BY <1>15, <2>1 DEF WriteTelemetryRow
    <3>7. directory = 0 \/ errors' # {}
      BY <3>1, <3>6
    <3>8. \A s \in Sources : {accepted[s], stored[s], pending[s]} \subseteq Nat
      OBVIOUS
    <3> HIDE DEF Between, CaptureInv
    <3> QED BY <3>7, <3>8, <3>2, <3>3, <3>4, <3>5, <3>6
  <2>2. CASE /\ captureState = "Active" /\ Proceed("worker", "series")
             /\ rows' = rows + 1 /\ UNCHANGED <<errors, back>>
    BY <1>15, <2>2 DEF WriteTelemetryRow
  <2>3. CASE Fail("worker", "TelemetryWrite", AfterSnapshot) /\ UNCHANGED rows
    BY <1>15, <2>3 DEF WriteTelemetryRow
  <2> QED BY <1>15, <2>1, <2>2, <2>3 DEF WriteTelemetryRow
<1>16. ASSUME WriteSeriesRows PROVE RecordsFit'
  <2>1. CASE /\ stored' = [s \in Sources |-> stored[s] + hand[s]]
             /\ Proceed("worker", AfterSnapshot) /\ UNCHANGED <<errors, back>>
    BY <1>16, <2>1 DEF WriteSeriesRows
  <2>2. CASE Fail("worker", "SeriesWrite", AfterSnapshot) /\ UNCHANGED stored
    BY <1>16, <2>2 DEF WriteSeriesRows
  <2> QED BY <1>16, <2>1, <2>2 DEF WriteSeriesRows
<1>17. ASSUME NEW thr \in Threads, NEW src \in Sources, CloseSource(thr, src) PROVE RecordsFit'
  BY <1>17 DEF CloseSource
<1>18. ASSUME NEW thr \in Threads, MarkIncomplete(thr) PROVE RecordsFit'
  BY <1>18 DEF MarkIncomplete
<1>19. ASSUME NEW thr \in Threads, CloseFiles(thr) PROVE RecordsFit'
  BY <1>19 DEF CloseFiles
<1>20. ASSUME NEW thr \in Threads, FlushFiles(thr) PROVE RecordsFit'
  BY <1>20 DEF FlushFiles
<1>21. ASSUME NEW thr \in Threads, SealMetadata(thr) PROVE RecordsFit'
  BY <1>21 DEF SealMetadata
<1>22. ASSUME NEW thr \in Threads, SettleState(thr) PROVE RecordsFit'
  BY <1>22 DEF SettleState
<1>23. ASSUME NEW src \in Sources, Accept(src) PROVE RecordsFit'
  <2>1. directory # 0 /\ admits[src]
    BY <1>23 DEF Accept
  <2>2. ~last \/ pc["worker"] = "done"
    BY <1>23, <2>1 DEF Accept
  <2>3. /\ \A s \in Sources : Between(s)' = Between(s)
        /\ accepted' = [accepted EXCEPT ![src] = @ + 1]
        /\ pending' = [pending EXCEPT ![src] = @ + 1]
        /\ UNCHANGED <<stored, errors, pc, last, directory>>
    BY <1>23 DEF Accept
  <2>4. /\ accepted \in [Sources -> Nat] /\ pending \in [Sources -> Nat]
        /\ \A s \in Sources : stored[s] \in Nat /\ Between(s) \in Nat
    OBVIOUS
  <2>5. \A s \in Sources :
          /\ stored[s] + Between(s) + pending[s] <= accepted[s]
          /\ errors = {} /\ pc["controller"] # "idle" =>
                stored[s] + Between(s) + pending[s] = accepted[s]
    OBVIOUS
  <2> HIDE DEF Between, CaptureInv
  <2>6. \A s \in Sources : stored'[s] + Between(s)' + pending'[s] <= accepted'[s]
    BY <2>3, <2>4, <2>5
  <2>7. ASSUME errors' = {}, pc'["controller"] # "idle"
        PROVE  \A s \in Sources :
                  stored'[s] + Between(s)' + pending'[s] = accepted'[s]
    BY <2>3, <2>4, <2>5, <2>7
  <2> QED BY <2>1, <2>2, <2>3, <2>6, <2>7
<1>24. ASSUME ReadState PROVE RecordsFit'
  BY <1>24 DEF ReadState
<1>25. ASSUME ReadErrors PROVE RecordsFit'
  BY <1>25 DEF ReadErrors
<1> QED
  BY <1>1, <1>2, <1>3, <1>4, <1>5, <1>6, <1>7, <1>8, <1>9, <1>10, <1>11, <1>12, <1>13,
     <1>14, <1>15, <1>16, <1>17, <1>18, <1>19, <1>20, <1>21, <1>22, <1>23, <1>24, <1>25
  DEF CaptureNext, ControllerStep, WorkerStep, SharedStep

(* Every step accounts for the intervals.                                  *)
LEMMA RowsFitKept == CaptureInv /\ CaptureNext => RowsFit'
<1> SUFFICES ASSUME CaptureInv, CaptureNext PROVE RowsFit'
  OBVIOUS
<1> USE BoundsAssumption DEF CaptureInv, CaptureTypeOK, StagesFit, DirectoriesFit,
            StateFits, SourcesFit, RecordsFit, RowsFit, SealFits, MenuFits
<1>1. ASSUME NEW root \in BOOLEAN, StartHub(root) PROVE RowsFit'
  BY <1>1 DEF StartHub
<1>2. ASSUME CreateDirectory PROVE RowsFit'
  BY <1>2 DEF CreateDirectory
<1>3. ASSUME OpenCaptureFiles PROVE RowsFit'
  BY <1>3 DEF OpenCaptureFiles
<1>4. ASSUME FirstMetadata PROVE RowsFit'
  BY <1>4 DEF FirstMetadata
<1>5. ASSUME RefuseCapture PROVE RowsFit'
  BY <1>5 DEF RefuseCapture
<1>6. ASSUME NEW src \in Sources, StartSource(src) PROVE RowsFit'
  BY <1>6 DEF StartSource
<1>7. ASSUME ActivateCapture PROVE RowsFit'
  BY <1>7 DEF ActivateCapture
<1>8. ASSUME Launch PROVE RowsFit'
  BY <1>8 DEF Launch
<1>9. ASSUME RequestStop PROVE RowsFit'
  BY <1>9 DEF RequestStop
<1>10. ASSUME Join PROVE RowsFit'
  BY <1>10 DEF Join
<1>11. ASSUME StopHub PROVE RowsFit'
  BY <1>11 DEF StopHub
<1>12. ASSUME IntervalEnds PROVE RowsFit'
  BY <1>12 DEF IntervalEnds
<1>13. ASSUME LoopEnds PROVE RowsFit'
  BY <1>13 DEF LoopEnds
<1>14. ASSUME NEW src \in Sources, Drain(src) PROVE RowsFit'
  BY <1>14 DEF Drain
<1>15. ASSUME WriteTelemetryRow PROVE RowsFit'
  <2>1. CASE /\ captureState # "Active" /\ Proceed("worker", AfterSnapshot)
             /\ UNCHANGED <<rows, errors, back>>
    <3>1. errors # {} \/ directory = 0
      BY <1>15, <2>1 DEF WriteTelemetryRow
    <3>2. /\ intervals' = intervals + 1 /\ pc["worker"] = "drain"
          /\ pc' = [pc EXCEPT !["worker"] = IF last THEN "flush" ELSE "wait"]
          /\ UNCHANGED <<rows, errors, last, directory>>
      BY <1>15, <2>1 DEF WriteTelemetryRow
    <3>3. pc["controller"] \in {"running", "stop", "join"}
      BY <3>2
    <3>4. /\ rows \in Nat /\ intervals \in Nat /\ intervals <= MaxIntervals
          /\ RowsFit /\ pc \in [Threads -> Pcs]
      BY <3>2
    <3> HIDE DEF CaptureInv
    <3> QED BY <3>1, <3>2, <3>3, <3>4
  <2>2. CASE /\ captureState = "Active" /\ Proceed("worker", "series")
             /\ rows' = rows + 1 /\ UNCHANGED <<errors, back>>
    BY <1>15, <2>2 DEF WriteTelemetryRow
  <2>3. CASE Fail("worker", "TelemetryWrite", AfterSnapshot) /\ UNCHANGED rows
    BY <1>15, <2>3 DEF WriteTelemetryRow
  <2> QED BY <1>15, <2>1, <2>2, <2>3 DEF WriteTelemetryRow
<1>16. ASSUME WriteSeriesRows PROVE RowsFit'
  BY <1>16 DEF WriteSeriesRows
<1>17. ASSUME NEW thr \in Threads, NEW src \in Sources, CloseSource(thr, src) PROVE RowsFit'
  BY <1>17 DEF CloseSource
<1>18. ASSUME NEW thr \in Threads, MarkIncomplete(thr) PROVE RowsFit'
  BY <1>18 DEF MarkIncomplete
<1>19. ASSUME NEW thr \in Threads, CloseFiles(thr) PROVE RowsFit'
  BY <1>19 DEF CloseFiles
<1>20. ASSUME NEW thr \in Threads, FlushFiles(thr) PROVE RowsFit'
  BY <1>20 DEF FlushFiles
<1>21. ASSUME NEW thr \in Threads, SealMetadata(thr) PROVE RowsFit'
  BY <1>21 DEF SealMetadata
<1>22. ASSUME NEW thr \in Threads, SettleState(thr) PROVE RowsFit'
  BY <1>22 DEF SettleState
<1>23. ASSUME NEW src \in Sources, Accept(src) PROVE RowsFit'
  BY <1>23 DEF Accept
<1>24. ASSUME ReadState PROVE RowsFit'
  BY <1>24 DEF ReadState
<1>25. ASSUME ReadErrors PROVE RowsFit'
  BY <1>25 DEF ReadErrors
<1> QED
  BY <1>1, <1>2, <1>3, <1>4, <1>5, <1>6, <1>7, <1>8, <1>9, <1>10, <1>11, <1>12, <1>13,
     <1>14, <1>15, <1>16, <1>17, <1>18, <1>19, <1>20, <1>21, <1>22, <1>23, <1>24, <1>25
  DEF CaptureNext, ControllerStep, WorkerStep, SharedStep

(* Every step keeps what metadata.json says true.                          *)
LEMMA SealFitsKept == CaptureInv /\ CaptureNext => SealFits'
<1> SUFFICES ASSUME CaptureInv, CaptureNext PROVE SealFits'
  OBVIOUS
<1> USE BoundsAssumption DEF CaptureInv, CaptureTypeOK, StagesFit, DirectoriesFit,
            StateFits, SourcesFit, RecordsFit, RowsFit, SealFits, MenuFits
<1>1. ASSUME NEW root \in BOOLEAN, StartHub(root) PROVE SealFits'
  BY <1>1 DEF StartHub
<1>2. ASSUME CreateDirectory PROVE SealFits'
  BY <1>2 DEF CreateDirectory
<1>3. ASSUME OpenCaptureFiles PROVE SealFits'
  BY <1>3 DEF OpenCaptureFiles
<1>4. ASSUME FirstMetadata PROVE SealFits'
  <2>1. directory \in 1..MaxCaptures /\ directory = session
    BY <1>4 DEF FirstMetadata
  <2>2. \/ UNCHANGED disk
        \/ /\ ~disk'[directory].complete
           /\ disk'[directory].errors = errors /\ disk'[directory].present
           /\ \A k \in 1..MaxCaptures : k # directory => disk'[k] = disk[k]
    <3> HIDE DEF Metadata, Errors
    <3> QED BY <1>4, <2>1, MetadataWritten DEF FirstMetadata
  <2>3. ~disk'[directory].complete
    BY <1>4, <2>1, <2>2 DEF FirstMetadata
  <2>4. /\ pc["controller"] = "metadata" /\ UNCHANGED <<session, directory>>
        /\ Proceed("controller", IF errors' = {} THEN "admit" ELSE "refuse")
    BY <1>4 DEF FirstMetadata
  <2> HIDE DEF Pcs
  <2> QED BY <2>1, <2>3, <2>4
<1>5. ASSUME RefuseCapture PROVE SealFits'
  BY <1>5 DEF RefuseCapture
<1>6. ASSUME NEW src \in Sources, StartSource(src) PROVE SealFits'
  BY <1>6 DEF StartSource
<1>7. ASSUME ActivateCapture PROVE SealFits'
  BY <1>7 DEF ActivateCapture
<1>8. ASSUME Launch PROVE SealFits'
  BY <1>8 DEF Launch
<1>9. ASSUME RequestStop PROVE SealFits'
  BY <1>9 DEF RequestStop
<1>10. ASSUME Join PROVE SealFits'
  BY <1>10 DEF Join
<1>11. ASSUME StopHub PROVE SealFits'
  BY <1>11 DEF StopHub
<1>12. ASSUME IntervalEnds PROVE SealFits'
  BY <1>12 DEF IntervalEnds
<1>13. ASSUME LoopEnds PROVE SealFits'
  BY <1>13 DEF LoopEnds
<1>14. ASSUME NEW src \in Sources, Drain(src) PROVE SealFits'
  BY <1>14 DEF Drain
<1>15. ASSUME WriteTelemetryRow PROVE SealFits'
  BY <1>15 DEF WriteTelemetryRow
<1>16. ASSUME WriteSeriesRows PROVE SealFits'
  BY <1>16 DEF WriteSeriesRows
<1>17. ASSUME NEW thr \in Threads, NEW src \in Sources, CloseSource(thr, src) PROVE SealFits'
  BY <1>17 DEF CloseSource
<1>18. ASSUME NEW thr \in Threads, MarkIncomplete(thr) PROVE SealFits'
  BY <1>18 DEF MarkIncomplete
<1>19. ASSUME NEW thr \in Threads, CloseFiles(thr) PROVE SealFits'
  BY <1>19 DEF CloseFiles
<1>20. ASSUME NEW thr \in Threads, FlushFiles(thr) PROVE SealFits'
  BY <1>20 DEF FlushFiles
<1>21. ASSUME NEW thr \in Threads, SealMetadata(thr) PROVE SealFits'
  <2>1. directory \in 1..MaxCaptures /\ directory = session
    BY <1>21 DEF SealMetadata
  <2>2. CASE WriteMetadata(errors = {}) /\ UNCHANGED errors
    <3>1. /\ disk' \in [1..MaxCaptures -> Metadata]
          /\ disk'[directory].present
          /\ disk'[directory].complete = (errors = {})
          /\ disk'[directory].errors = errors
          /\ \A k \in 1..MaxCaptures : k # directory => disk'[k] = disk[k]
      <4> HIDE DEF Metadata, Errors
      <4> QED BY <2>1, <2>2, MetadataWritten
    <3>2. /\ pc[thr] = "seal" /\ pc' = [pc EXCEPT ![thr] = "settle"]
          /\ UNCHANGED <<errors, back, todo, last, stopRequested, session, directory,
                         captureState, openFiles, countVars, admits, menu>>
      BY <1>21, <2>2 DEF SealMetadata
    <3>3. SealTold'
      BY <3>1, <3>2
    <3>4. errors = {} =>
            /\ rows = intervals /\ pc'["worker"] = "settle"
            /\ \A s \in Sources : ~admits[s] /\ stored[s] = accepted[s]
      BY <2>1, <3>2
    <3>5. ~(pc'["controller"] \in {"join", "idle"} /\ pc'["worker"] = "done")
      BY <2>1, <3>2
    <3> QED BY <2>1, <3>1, <3>2, <3>3, <3>4, <3>5
  <2>3. CASE errors' = errors \cup {"Metadata"} /\ UNCHANGED disk
    BY <1>21, <2>1, <2>3 DEF SealMetadata
  <2> QED BY <1>21, <2>2, <2>3 DEF SealMetadata
<1>22. ASSUME NEW thr \in Threads, SettleState(thr) PROVE SealFits'
  BY <1>22 DEF SettleState
<1>23. ASSUME NEW src \in Sources, Accept(src) PROVE SealFits'
  BY <1>23 DEF Accept
<1>24. ASSUME ReadState PROVE SealFits'
  BY <1>24 DEF ReadState
<1>25. ASSUME ReadErrors PROVE SealFits'
  BY <1>25 DEF ReadErrors
<1> QED
  BY <1>1, <1>2, <1>3, <1>4, <1>5, <1>6, <1>7, <1>8, <1>9, <1>10, <1>11, <1>12, <1>13,
     <1>14, <1>15, <1>16, <1>17, <1>18, <1>19, <1>20, <1>21, <1>22, <1>23, <1>24, <1>25
  DEF CaptureNext, ControllerStep, WorkerStep, SharedStep

(* Every step keeps what the menu has read true of its session.            *)
LEMMA MenuFitsKept == CaptureInv /\ CaptureNext => MenuFits'
<1> SUFFICES ASSUME CaptureInv, CaptureNext PROVE MenuFits'
  OBVIOUS
<1> USE BoundsAssumption DEF CaptureInv, CaptureTypeOK, StagesFit, DirectoriesFit,
            StateFits, SourcesFit, RecordsFit, RowsFit, SealFits, MenuFits
<1>1. ASSUME NEW root \in BOOLEAN, StartHub(root) PROVE MenuFits'
  BY <1>1 DEF StartHub
<1>2. ASSUME CreateDirectory PROVE MenuFits'
  BY <1>2 DEF CreateDirectory
<1>3. ASSUME OpenCaptureFiles PROVE MenuFits'
  BY <1>3 DEF OpenCaptureFiles
<1>4. ASSUME FirstMetadata PROVE MenuFits'
  BY <1>4 DEF FirstMetadata
<1>5. ASSUME RefuseCapture PROVE MenuFits'
  BY <1>5 DEF RefuseCapture
<1>6. ASSUME NEW src \in Sources, StartSource(src) PROVE MenuFits'
  BY <1>6 DEF StartSource
<1>7. ASSUME ActivateCapture PROVE MenuFits'
  BY <1>7 DEF ActivateCapture
<1>8. ASSUME Launch PROVE MenuFits'
  BY <1>8 DEF Launch
<1>9. ASSUME RequestStop PROVE MenuFits'
  BY <1>9 DEF RequestStop
<1>10. ASSUME Join PROVE MenuFits'
  BY <1>10 DEF Join
<1>11. ASSUME StopHub PROVE MenuFits'
  BY <1>11 DEF StopHub
<1>12. ASSUME IntervalEnds PROVE MenuFits'
  BY <1>12 DEF IntervalEnds
<1>13. ASSUME LoopEnds PROVE MenuFits'
  BY <1>13 DEF LoopEnds
<1>14. ASSUME NEW src \in Sources, Drain(src) PROVE MenuFits'
  BY <1>14 DEF Drain
<1>15. ASSUME WriteTelemetryRow PROVE MenuFits'
  BY <1>15 DEF WriteTelemetryRow
<1>16. ASSUME WriteSeriesRows PROVE MenuFits'
  BY <1>16 DEF WriteSeriesRows
<1>17. ASSUME NEW thr \in Threads, NEW src \in Sources, CloseSource(thr, src) PROVE MenuFits'
  BY <1>17 DEF CloseSource
<1>18. ASSUME NEW thr \in Threads, MarkIncomplete(thr) PROVE MenuFits'
  BY <1>18 DEF MarkIncomplete
<1>19. ASSUME NEW thr \in Threads, CloseFiles(thr) PROVE MenuFits'
  BY <1>19 DEF CloseFiles
<1>20. ASSUME NEW thr \in Threads, FlushFiles(thr) PROVE MenuFits'
  BY <1>20 DEF FlushFiles
<1>21. ASSUME NEW thr \in Threads, SealMetadata(thr) PROVE MenuFits'
  BY <1>21 DEF SealMetadata
<1>22. ASSUME NEW thr \in Threads, SettleState(thr) PROVE MenuFits'
  BY <1>22 DEF SettleState
<1>23. ASSUME NEW src \in Sources, Accept(src) PROVE MenuFits'
  BY <1>23 DEF Accept
<1>24. ASSUME ReadState PROVE MenuFits'
  BY <1>24 DEF ReadState
<1>25. ASSUME ReadErrors PROVE MenuFits'
  BY <1>25 DEF ReadErrors
<1> QED
  BY <1>1, <1>2, <1>3, <1>4, <1>5, <1>6, <1>7, <1>8, <1>9, <1>10, <1>11, <1>12, <1>13,
     <1>14, <1>15, <1>16, <1>17, <1>18, <1>19, <1>20, <1>21, <1>22, <1>23, <1>24, <1>25
  DEF CaptureNext, ControllerStep, WorkerStep, SharedStep

-----------------------------------------------------------------------------
(* The theorems.                                                           *)

(* The invariant holds.                                                    *)
THEOREM CaptureIsConsistent == CaptureSpec => []CaptureInv
<1>1. CaptureInit => CaptureInv
  <2> SUFFICES ASSUME CaptureInit PROVE CaptureInv
    OBVIOUS
  <2> USE BoundsAssumption DEF CaptureInit
  <2>1. disk \in [1..MaxCaptures -> Metadata]
    OBVIOUS
  <2>2. menu \in [state: States, errors: SUBSET Errors, session: 0..MaxCaptures, whole: BOOLEAN]
    OBVIOUS
  <2>3. /\ pc \in [Threads -> Pcs] /\ back \in [Threads -> Pcs]
        /\ todo \in [Threads -> SUBSET Sources]
    OBVIOUS
  <2>4. CaptureTypeOK
    <3>1. /\ accepted \in [Sources -> 0..MaxAccepted]
          /\ pending \in [Sources -> 0..MaxAccepted]
          /\ hand \in [Sources -> 0..MaxAccepted]
          /\ stored \in [Sources -> 0..MaxAccepted]
      OBVIOUS
    <3>2. /\ session \in 0..MaxCaptures /\ directory \in 0..MaxCaptures
          /\ captureState \in States /\ errors \in SUBSET Errors
          /\ openFiles \in SUBSET Files
      OBVIOUS
    <3>3. /\ last \in BOOLEAN /\ stopRequested \in BOOLEAN
      OBVIOUS
    <3>4. /\ admits \in [Sources -> BOOLEAN]
          /\ intervals \in 0..(MaxIntervals + 1) /\ rows \in 0..(MaxIntervals + 1)
      OBVIOUS
    <3> HIDE DEF CaptureInit, Metadata, States, Errors, Pcs, Files
    <3> QED BY <2>1, <2>2, <2>3, <3>1, <3>2, <3>3, <3>4 DEF CaptureTypeOK
  <2>5. StagesFit /\ StateFits /\ SourcesFit
    BY DEF StagesFit, StateFits, SourcesFit
  <2>6. DirectoriesFit /\ RecordsFit /\ RowsFit
    BY DEF DirectoriesFit, RecordsFit, RowsFit
  <2>7. SealFits /\ MenuFits
    BY DEF SealFits, MenuFits
  <2> QED BY <2>4, <2>5, <2>6, <2>7 DEF CaptureInv
<1>2. CaptureInv /\ [CaptureNext]_hubStateVars => CaptureInv'
  <2> SUFFICES ASSUME CaptureInv, [CaptureNext]_hubStateVars PROVE CaptureInv'
    OBVIOUS
  <2>1. CASE CaptureNext
    BY <2>1, CaptureTypeOKKept, StagesFitKept, DirectoriesFitKept, StateFitsKept,
       SourcesFitKept, RecordsFitKept, RowsFitKept, SealFitsKept, MenuFitsKept DEF CaptureInv
  <2>2. CASE UNCHANGED hubStateVars
    BY <2>2 DEF hubStateVars, CaptureInv, CaptureTypeOK, StagesFit, DirectoriesFit,
       StateFits, SourcesFit, RecordsFit, RowsFit, SealFits, MenuFits
  <2> QED BY <2>1, <2>2
<1> QED BY <1>1, <1>2, PTL DEF CaptureSpec

(* It says all that the hub is asked about a capture.                      *)
LEMMA InvGivesStatus == CaptureInv => StatusAgrees
<1> SUFFICES ASSUME CaptureInv PROVE SealedIsWhole /\ OnlyActiveAdmits /\ SettledAgrees
  BY DEF CaptureInv, MenuFits, StatusAgrees
<1> USE DEF CaptureInv, CaptureTypeOK, StagesFit, DirectoriesFit, StateFits, SourcesFit,
            RecordsFit, RowsFit, SealFits
<1>1. SealedIsWhole
  BY DEF SealedIsWhole
<1>2. OnlyActiveAdmits
  BY DEF OnlyActiveAdmits
<1>3. SettledAgrees
  BY DEF SettledAgrees
<1> QED BY <1>1, <1>2, <1>3

(* What the hub says of a capture agrees with what it did: one said to be  *)
(* complete on disk is whole, whatever failed and whenever the game stops; *)
(* no source admits records but of an active capture; and the state in     *)
(* memory, the metadata on disk and what the menu shows say the same.      *)
THEOREM StatusIsTrue == CaptureSpec => []StatusAgrees
BY CaptureIsConsistent, InvGivesStatus, PTL

(* A step touches no directory but the session's, and that only until it is *)
(* complete.                                                                *)
LEMMA StepSparesSealed ==
    ASSUME CaptureInv, CaptureNext, NEW k \in 1..MaxCaptures,
           disk[k].complete \/ k # session
    PROVE  disk'[k] = disk[k]
<1> USE BoundsAssumption DEF CaptureInv, CaptureTypeOK, StagesFit, DirectoriesFit, StateFits, SealFits
<1>1. CASE FirstMetadata
  <2>1. directory \in 1..MaxCaptures /\ directory = session /\ ~disk[directory].complete
    BY <1>1 DEF FirstMetadata
  <2> QED BY <1>1, <2>1, MetadataWritten DEF FirstMetadata
<1>2. ASSUME NEW thr \in Threads, SealMetadata(thr) PROVE disk'[k] = disk[k]
  <2>1. directory \in 1..MaxCaptures /\ directory = session /\ ~disk[directory].complete
    BY <1>2 DEF SealMetadata
  <2> QED BY <1>2, <2>1, MetadataWritten DEF SealMetadata
<1>3. CASE UNCHANGED disk
  BY <1>3
<1>4. FirstMetadata \/ (\E thr \in Threads : SealMetadata(thr)) \/ UNCHANGED disk
  BY DEF CaptureNext, ControllerStep, WorkerStep, SharedStep, StartHub, CreateDirectory,
         OpenCaptureFiles, RefuseCapture, StartSource, ActivateCapture, Launch, RequestStop,
         Join, StopHub, IntervalEnds, LoopEnds, Drain, WriteTelemetryRow, WriteSeriesRows,
         CloseSource, MarkIncomplete, CloseFiles, FlushFiles, SettleState, Accept,
         ReadState, ReadErrors
<1> QED BY <1>1, <1>2, <1>3, <1>4

(* A session writes only to its own directory, and a capture once declared *)
(* complete is not touched again, by its own session or by a later one.    *)
THEOREM SealedStaysSealed == CaptureSpec => SealedForGood
<1>1. CaptureInv /\ [CaptureNext]_hubStateVars
        => [\A k \in 1..MaxCaptures :
              (disk[k].complete \/ k # session) => disk'[k] = disk[k]]_hubStateVars
  BY StepSparesSealed
<1> QED BY <1>1, CaptureIsConsistent, PTL DEF CaptureSpec, SealedForGood

=============================================================================
