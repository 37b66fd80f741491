-------------------------- MODULE TelemetryCapture --------------------------
(***************************************************************************)
(* The life of a profiling capture in TelemetryHub (AdTelemetryHub.cpp).   *)
(* A controlling thread calls Start and Stop; between them a worker thread *)
(* drains the sources at a cadence and appends the snapshot to two files   *)
(* of the capture's directory; metadata.json there says whether the        *)
(* capture is complete, and the menu polls its state.  Any directory,      *)
(* file, source or thread operation may fail.                              *)
(*                                                                         *)
(* A source is here what the module OperationProfile shows of it: it       *)
(* accepts records while its admission is open and none afterwards.        *)
(***************************************************************************)
EXTENDS Naturals, FiniteSets

CONSTANTS
    Sources,        \* the registered operation profile sources
    MaxCaptures,    \* bound on the calls of Start
    MaxIntervals,   \* bound on the timed intervals of a session
    MaxAccepted     \* bound on the records of a source in a session

ASSUME SourcesAssumption == IsFiniteSet(Sources) /\ Sources # {}
ASSUME BoundsAssumption ==
    MaxCaptures \in Nat /\ MaxIntervals \in Nat /\ MaxAccepted \in Nat

VARIABLES
    pc,             \* where each of the two threads is
    back,           \* where each returns to from FailCapture
    todo,           \* the sources a thread's loop has still to visit
    session,        \* the number of calls of Start
    directory,      \* m_captureDirectory: 0 is empty, else the session's
    captureState,   \* m_captureState
    errors,         \* m_captureErrorFlags
    openFiles,      \* which of m_captureCsv and m_captureSeriesCsv are open
    stopRequested,  \* m_stopRequested
    last,           \* whether the worker has left its loop
    admits,         \* whether a source's admission is open
    accepted,       \* the records a source has accepted in this session
    pending,        \* those not drained yet
    hand,           \* those in the snapshot last collected
    stored,         \* those in series.csv
    intervals,      \* the intervals collected for the capture
    rows,           \* the rows of telemetry.csv
    disk,           \* metadata.json of each capture directory
    menu            \* what CopyCaptureStatus is returning to the menu

threadVars  == <<pc, back, todo, last, stopRequested>>
sessionVars == <<session, directory, captureState, errors>>
fileVars    == <<openFiles, disk>>
countVars   == <<accepted, pending, hand, stored, intervals, rows>>
hubStateVars == <<threadVars, sessionVars, fileVars, countVars, admits, menu>>

Threads == {"controller", "worker"}
States  == {"Disabled", "Active", "Complete", "Incomplete"}
Files   == {"telemetry", "series"}
Errors  == {"Directory", "TelemetryOpen", "SeriesOpen", "Metadata",
            "TelemetryWrite", "SeriesWrite", "Flush", "Worker"}
Pcs == {"idle", "directory", "files", "metadata", "refuse", "admit", "launch",
        "running", "stop", "join", "wait", "drain", "series", "fail",
        "failClose", "flush", "seal", "settle", "done"}

Metadata == [present: BOOLEAN, complete: BOOLEAN, errors: SUBSET Errors]

None == [s \in Sources |-> 0]

CaptureInit ==
    /\ pc = [t \in Threads |-> IF t = "worker" THEN "done" ELSE "idle"]
    /\ back = [t \in Threads |-> "idle"]
    /\ todo = [t \in Threads |-> {}]
    /\ last = FALSE
    /\ stopRequested = FALSE
    /\ session = 0
    /\ directory = 0
    /\ captureState = "Disabled"
    /\ errors = {}
    /\ openFiles = {}
    /\ disk = [k \in 1..MaxCaptures |->
                  [present |-> FALSE, complete |-> FALSE, errors |-> {}]]
    /\ admits = [s \in Sources |-> FALSE]
    /\ accepted = None /\ pending = None /\ hand = None /\ stored = None
    /\ intervals = 0
    /\ rows = 0
    /\ menu = [state |-> "Disabled", errors |-> {}, session |-> 0, whole |-> FALSE]

Proceed(t, label) == pc' = [pc EXCEPT ![t] = label]

\* Where a finished FinalizeCapture leaves thread t.
Home(t) == IF t = "worker" THEN "done" ELSE "idle"

\* Thread t starts a loop over all the sources.
VisitAll(t) == todo' = [todo EXCEPT ![t] = Sources]

\* metadata.json is written to a temporary file that then replaces the old one.
WriteMetadata(complete) ==
    disk' = [disk EXCEPT ![directory] =
                [present |-> TRUE, complete |-> complete, errors |-> errors]]

\* Thread t calls FailCapture(error) and will continue at label.
Fail(t, error, label) ==
    /\ errors' = errors \cup {error}
    /\ back' = [back EXCEPT ![t] = label]
    /\ Proceed(t, "fail")

-----------------------------------------------------------------------------
(* Start and PrepareCapture, on the controlling thread.                    *)

(* Mutant: the directory of the previous capture is not cleared.           *)
StartKeepingDirectory(root) ==
    /\ pc["controller"] = "idle"
    /\ session < MaxCaptures
    /\ session' = session + 1
    /\ UNCHANGED directory
    /\ captureState' = "Disabled"
    /\ errors' = {}
    /\ stopRequested' = FALSE
    /\ accepted' = None /\ pending' = None /\ stored' = None
    /\ intervals' = 0 /\ rows' = 0
    /\ Proceed("controller", IF root THEN "directory" ELSE "launch")
    /\ UNCHANGED <<back, todo, last, fileVars, hand, admits, menu>>

\* Start resets the capture and clears the sources; with a capture root
\* PrepareCapture follows.
StartHub(root) ==
    /\ pc["controller"] = "idle"
    /\ session < MaxCaptures
    /\ session' = session + 1
    /\ directory' = 0
    /\ captureState' = "Disabled"
    /\ errors' = {}
    /\ stopRequested' = FALSE
    /\ accepted' = None /\ pending' = None /\ stored' = None
    /\ intervals' = 0 /\ rows' = 0
    /\ Proceed("controller", IF root THEN "directory" ELSE "launch")
    /\ UNCHANGED <<back, todo, last, fileVars, hand, admits, menu>>

(* Mutant: the failure is not flagged.                                     *)
CreateDirectoryUnflagged ==
    /\ pc["controller"] = "directory"
    /\ \/ /\ directory' = session
          /\ Proceed("controller", "files")
       \/ /\ Proceed("controller", "refuse")
          /\ UNCHANGED directory
    /\ UNCHANGED <<back, todo, last, stopRequested, session, captureState,
                   errors, fileVars, countVars, admits, menu>>

CreateDirectory ==
    /\ pc["controller"] = "directory"
    /\ \/ /\ directory' = session
          /\ Proceed("controller", "files")
          /\ UNCHANGED errors
       \/ /\ errors' = {"Directory"}
          /\ Proceed("controller", "refuse")
          /\ UNCHANGED directory
    /\ UNCHANGED <<back, todo, last, stopRequested, session, captureState,
                   fileVars, countVars, admits, menu>>

\* Both files are tried, whatever becomes of the first.
OpenCaptureFiles ==
    /\ pc["controller"] = "files"
    /\ openFiles' \in SUBSET Files
    /\ errors' = (IF "telemetry" \in openFiles' THEN {} ELSE {"TelemetryOpen"})
                   \cup (IF "series" \in openFiles' THEN {} ELSE {"SeriesOpen"})
    /\ Proceed("controller", "metadata")
    /\ UNCHANGED <<back, todo, last, stopRequested, session, directory,
                   captureState, disk, countVars, admits, menu>>

\* The metadata of a capture that is not complete.
FirstMetadata ==
    /\ pc["controller"] = "metadata"
    /\ \/ WriteMetadata(FALSE) /\ UNCHANGED errors
       \/ errors' = errors \cup {"Metadata"} /\ UNCHANGED disk
    /\ Proceed("controller", IF errors' = {} THEN "admit" ELSE "refuse")
    /\ VisitAll("controller")
    /\ UNCHANGED <<back, last, stopRequested, session, directory,
                   captureState, openFiles, countVars, admits, menu>>

\* PrepareCapture gives up before any source has been started.
RefuseCapture ==
    /\ pc["controller"] = "refuse"
    /\ captureState' = "Incomplete"
    /\ openFiles' = {}
    /\ Proceed("controller", "launch")
    /\ UNCHANGED <<back, todo, last, stopRequested, session, directory, errors,
                   disk, countVars, admits, menu>>

\* The source's StartHub, which fails when operations still pin both its slots.
StartSource(s) ==
    /\ pc["controller"] = "admit"
    /\ s \in todo["controller"]
    /\ \/ /\ admits' = [admits EXCEPT ![s] = TRUE]
          /\ todo' = [todo EXCEPT !["controller"] = @ \ {s}]
          /\ UNCHANGED <<pc, back, errors>>
       \/ /\ Fail("controller", "Worker", "launch")
          /\ UNCHANGED <<admits, todo>>
    /\ UNCHANGED <<last, stopRequested, session, directory, captureState,
                   fileVars, countVars, menu>>

ActivateCapture ==
    /\ pc["controller"] = "admit"
    /\ todo["controller"] = {}
    /\ captureState' = "Active"
    /\ Proceed("controller", "launch")
    /\ UNCHANGED <<back, todo, last, stopRequested, session, directory, errors,
                   fileVars, countVars, admits, menu>>

\* The thread is created; a failure is FailCapture and FinalizeCapture, which
\* both return at once when there is no directory.
Launch ==
    /\ pc["controller"] = "launch"
    /\ \/ /\ pc' = [controller |-> "running", worker |-> "wait"]
          /\ last' = FALSE
          /\ UNCHANGED <<back, errors>>
       \/ /\ directory = 0
          /\ Proceed("controller", "idle")
          /\ UNCHANGED <<last, back, errors>>
       \/ /\ directory # 0
          /\ Fail("controller", "Worker", "flush")
          /\ UNCHANGED last
    /\ UNCHANGED <<todo, stopRequested, session, directory, captureState,
                   fileVars, countVars, admits, menu>>

-----------------------------------------------------------------------------
(* Stop, on the controlling thread.                                        *)

(* Mutant: Stop leaves the sources open.                                   *)
StopWithoutClosing ==
    /\ pc["controller"] = "running"
    /\ Proceed("controller", "stop")
    /\ todo' = [todo EXCEPT !["controller"] = {}]
    /\ UNCHANGED <<back, last, stopRequested, sessionVars, fileVars, countVars,
                   admits, menu>>

\* Stop begins by closing the sources of a capture.
StopHub ==
    /\ pc["controller"] = "running"
    /\ Proceed("controller", "stop")
    /\ todo' = [todo EXCEPT !["controller"] =
                   IF captureState = "Disabled" THEN {} ELSE Sources]
    /\ UNCHANGED <<back, last, stopRequested, sessionVars, fileVars, countVars,
                   admits, menu>>

\* CloseCaptureAdmission of one source, in the loop of Stop or of FailCapture.
CloseSource(t, s) ==
    /\ pc[t] \in {"stop", "failClose"}
    /\ s \in todo[t]
    /\ admits' = [admits EXCEPT ![s] = FALSE]
    /\ todo' = [todo EXCEPT ![t] = @ \ {s}]
    /\ UNCHANGED <<pc, back, last, stopRequested, sessionVars, fileVars,
                   countVars, menu>>

(* Mutant: the request is not set before the join.                         *)
RequestStopForgotten ==
    /\ pc["controller"] = "stop"
    /\ todo["controller"] = {}
    /\ Proceed("controller", "join")
    /\ UNCHANGED <<back, todo, last, stopRequested, sessionVars, fileVars,
                   countVars, admits, menu>>

RequestStop ==
    /\ pc["controller"] = "stop"
    /\ todo["controller"] = {}
    /\ stopRequested' = TRUE
    /\ Proceed("controller", "join")
    /\ UNCHANGED <<back, todo, last, sessionVars, fileVars, countVars, admits, menu>>

\* The worker has ended; ClearIntervals discards what nobody drained.
Join ==
    /\ pc["controller"] = "join"
    /\ pc["worker"] = "done"
    /\ pending' = None
    /\ Proceed("controller", "idle")
    /\ UNCHANGED <<back, todo, last, stopRequested, sessionVars, fileVars,
                   accepted, hand, stored, intervals, rows, admits, menu>>

-----------------------------------------------------------------------------
(* The worker.                                                             *)

\* The deadline passes with no request to stop, and Collect begins.
IntervalEnds ==
    /\ pc["worker"] = "wait"
    /\ ~stopRequested
    /\ intervals < MaxIntervals
    /\ VisitAll("worker")
    /\ Proceed("worker", "drain")
    /\ UNCHANGED <<back, last, stopRequested, sessionVars, fileVars, countVars,
                   admits, menu>>

\* The loop ends; with a directory there is a last Collect.
LoopEnds ==
    /\ pc["worker"] = "wait"
    /\ stopRequested
    /\ last' = TRUE
    /\ VisitAll("worker")
    /\ Proceed("worker", IF directory = 0 THEN "done" ELSE "drain")
    /\ UNCHANGED <<back, stopRequested, sessionVars, fileVars, countVars,
                   admits, menu>>

(* Mutant: the drained records stay with the source.                       *)
DrainCopying(s) ==
    /\ pc["worker"] = "drain"
    /\ s \in todo["worker"]
    /\ hand' = [hand EXCEPT ![s] = pending[s]]
    /\ todo' = [todo EXCEPT !["worker"] = @ \ {s}]
    /\ UNCHANGED <<pc, back, last, stopRequested, sessionVars, fileVars,
                   accepted, pending, stored, intervals, rows, admits, menu>>

\* Collect drains one source after the other.
Drain(s) ==
    /\ pc["worker"] = "drain"
    /\ s \in todo["worker"]
    /\ hand' = [hand EXCEPT ![s] = pending[s]]
    /\ pending' = [pending EXCEPT ![s] = 0]
    /\ todo' = [todo EXCEPT !["worker"] = @ \ {s}]
    /\ UNCHANGED <<pc, back, last, stopRequested, sessionVars, fileVars,
                   accepted, stored, intervals, rows, admits, menu>>

AfterSnapshot == IF last THEN "flush" ELSE "wait"

\* WriteCaptureSnapshot: nothing unless the capture is active, else a row of
\* telemetry.csv first.
WriteTelemetryRow ==
    /\ pc["worker"] = "drain"
    /\ todo["worker"] = {}
    /\ intervals' = intervals + 1
    /\ \/ /\ captureState # "Active"
          /\ Proceed("worker", AfterSnapshot)
          /\ UNCHANGED <<rows, errors, back>>
       \/ /\ captureState = "Active"
          /\ rows' = rows + 1
          /\ Proceed("worker", "series")
          /\ UNCHANGED <<errors, back>>
       \/ /\ captureState = "Active"
          /\ Fail("worker", "TelemetryWrite", AfterSnapshot)
          /\ UNCHANGED rows
    /\ UNCHANGED <<todo, last, stopRequested, session, directory, captureState,
                   fileVars, accepted, pending, hand, stored, admits, menu>>

\* Then the rows of series.csv.
WriteSeriesRows ==
    /\ pc["worker"] = "series"
    /\ \/ /\ stored' = [s \in Sources |-> stored[s] + hand[s]]
          /\ Proceed("worker", AfterSnapshot)
          /\ UNCHANGED <<errors, back>>
       \/ /\ Fail("worker", "SeriesWrite", AfterSnapshot)
          /\ UNCHANGED stored
    /\ UNCHANGED <<todo, last, stopRequested, session, directory, captureState,
                   fileVars, accepted, pending, hand, intervals, rows, admits, menu>>

-----------------------------------------------------------------------------
(* FailCapture and FinalizeCapture, on either thread.                      *)

(* Mutant: the sources are not closed.                                     *)
FailWithoutClosing(t) ==
    /\ pc[t] = "fail"
    /\ captureState' = "Incomplete"
    /\ Proceed(t, "failClose")
    /\ UNCHANGED <<back, todo, last, stopRequested, session, directory, errors,
                   fileVars, countVars, admits, menu>>

\* The error is in the flags; the state follows, then the sources are closed.
MarkIncomplete(t) ==
    /\ pc[t] = "fail"
    /\ captureState' = "Incomplete"
    /\ VisitAll(t)
    /\ Proceed(t, "failClose")
    /\ UNCHANGED <<back, last, stopRequested, session, directory, errors,
                   fileVars, countVars, admits, menu>>

CloseFiles(t) ==
    /\ pc[t] = "failClose"
    /\ todo[t] = {}
    /\ openFiles' = {}
    /\ Proceed(t, back[t])
    /\ UNCHANGED <<back, todo, last, stopRequested, sessionVars, disk, countVars,
                   admits, menu>>

\* FinalizeCapture flushes and closes the files that are still open.
FlushFiles(t) ==
    /\ pc[t] = "flush"
    /\ \/ UNCHANGED errors
       \/ openFiles # {} /\ errors' = errors \cup {"Flush"}
    /\ openFiles' = {}
    /\ Proceed(t, "seal")
    /\ UNCHANGED <<back, todo, last, stopRequested, session, directory,
                   captureState, disk, countVars, admits, menu>>

(* Mutant: the flagged errors are not looked at.                           *)
SealCompleteAlways(t) ==
    /\ pc[t] = "seal"
    /\ \/ WriteMetadata(TRUE) /\ UNCHANGED errors
       \/ errors' = errors \cup {"Metadata"} /\ UNCHANGED disk
    /\ Proceed(t, "settle")
    /\ UNCHANGED <<back, todo, last, stopRequested, session, directory,
                   captureState, openFiles, countVars, admits, menu>>

\* The last metadata: complete when no error has been flagged.
SealMetadata(t) ==
    /\ pc[t] = "seal"
    /\ \/ WriteMetadata(errors = {}) /\ UNCHANGED errors
       \/ errors' = errors \cup {"Metadata"} /\ UNCHANGED disk
    /\ Proceed(t, "settle")
    /\ UNCHANGED <<back, todo, last, stopRequested, session, directory,
                   captureState, openFiles, countVars, admits, menu>>

SettleState(t) ==
    /\ pc[t] = "settle"
    /\ captureState' = IF errors = {} THEN "Complete" ELSE "Incomplete"
    /\ Proceed(t, Home(t))
    /\ UNCHANGED <<back, todo, last, stopRequested, session, directory, errors,
                   fileVars, countVars, admits, menu>>

-----------------------------------------------------------------------------
(* The profiled threads and the menu.                                      *)

\* A source takes a record: an operation admitted has ended.
Accept(s) ==
    /\ admits[s]
    /\ accepted[s] < MaxAccepted
    /\ accepted' = [accepted EXCEPT ![s] = @ + 1]
    /\ pending' = [pending EXCEPT ![s] = @ + 1]
    /\ UNCHANGED <<threadVars, sessionVars, fileVars, hand, stored, intervals,
                   rows, admits, menu>>

\* CopyCaptureStatus reads the state and then the errors.
ReadState ==
    /\ menu' = [state |-> captureState, errors |-> {}, session |-> session,
                whole |-> FALSE]
    /\ UNCHANGED <<threadVars, sessionVars, fileVars, countVars, admits>>

ReadErrors ==
    /\ ~menu.whole
    /\ menu' = [menu EXCEPT !.errors = errors,
                            !.whole = menu.session = session]
    /\ UNCHANGED <<threadVars, sessionVars, fileVars, countVars, admits>>

ControllerStep ==
    \/ CreateDirectory \/ OpenCaptureFiles \/ FirstMetadata \/ RefuseCapture
    \/ (\E s \in Sources : StartSource(s))
    \/ ActivateCapture \/ Launch \/ RequestStop \/ Join

WorkerStep ==
    \/ LoopEnds \/ (\E s \in Sources : Drain(s))
    \/ WriteTelemetryRow \/ WriteSeriesRows

\* The steps of the procedures both threads run.
SharedStep(t) ==
    \/ \E s \in Sources : CloseSource(t, s)
    \/ MarkIncomplete(t) \/ CloseFiles(t)
    \/ FlushFiles(t) \/ SealMetadata(t) \/ SettleState(t)

CaptureNext ==
    \/ \E root \in BOOLEAN : StartHub(root)
    \/ StopHub
    \/ ControllerStep
    \/ IntervalEnds
    \/ WorkerStep
    \/ \E t \in Threads : SharedStep(t)
    \/ \E s \in Sources : Accept(s)
    \/ ReadState
    \/ ReadErrors

\* The calls of Start and Stop, the deadlines, the profiled operations and the
\* menu's polls may or may not come; a thread that can move does.
CaptureSpec ==
    /\ CaptureInit /\ [][CaptureNext]_hubStateVars
    /\ WF_hubStateVars(ControllerStep \/ SharedStep("controller"))
    /\ WF_hubStateVars(WorkerStep \/ SharedStep("worker"))

-----------------------------------------------------------------------------
(* Properties.                                                             *)

\* Every variable keeps its type; in particular no more records reach the
\* series file than the sources can have accepted.
CaptureTypeOK ==
    /\ pc \in [Threads -> Pcs]
    /\ back \in [Threads -> Pcs]
    /\ todo \in [Threads -> SUBSET Sources]
    /\ last \in BOOLEAN /\ stopRequested \in BOOLEAN
    /\ session \in 0..MaxCaptures
    /\ directory \in 0..MaxCaptures
    /\ captureState \in States
    /\ errors \in SUBSET Errors
    /\ openFiles \in SUBSET Files
    /\ disk \in [1..MaxCaptures -> Metadata]
    /\ admits \in [Sources -> BOOLEAN]
    /\ accepted \in [Sources -> 0..MaxAccepted]
    /\ pending \in [Sources -> 0..MaxAccepted]
    /\ hand \in [Sources -> 0..MaxAccepted]
    /\ stored \in [Sources -> 0..MaxAccepted]
    /\ intervals \in 0..(MaxIntervals + 1)
    /\ rows \in 0..(MaxIntervals + 1)
    /\ menu \in [state: States, errors: SUBSET Errors, session: 0..MaxCaptures,
                 whole: BOOLEAN]

\* metadata.json says complete only of a capture that is whole: no source admits
\* records any more, every record accepted is in series.csv and every interval
\* has its row.  It holds of the disk at every moment, so also of what a game
\* that crashes leaves behind.
SealedIsWhole ==
    \A k \in 1..MaxCaptures :
        disk[k].complete =>
            /\ disk[k].errors = {}
            /\ k = directory =>
                 /\ \A s \in Sources : ~admits[s] /\ stored[s] = accepted[s]
                 /\ rows = intervals

\* A capture that did not become or stay active leaves no source admitting,
\* except while Start is still opening them or FailCapture closing them.
OnlyActiveAdmits ==
    \/ \A s \in Sources : ~admits[s]
    \/ captureState = "Active"
    \/ pc["controller"] = "admit"
    \/ \E t \in Threads : pc[t] \in {"fail", "failClose"}

\* When Start has failed or Stop has returned, the state, the errors and the
\* directory agree: complete in memory is complete on disk, and the metadata
\* names the errors unless it is the metadata that could not be written.
SettledAgrees ==
    (pc["controller"] = "idle" /\ directory # 0) =>
        /\ captureState \in {"Complete", "Incomplete"}
        /\ disk[directory].complete <=> captureState = "Complete"
        /\ "Metadata" \notin errors =>
              disk[directory].present /\ disk[directory].errors = errors

\* What the menu reads in two steps makes sense within a session: an incomplete
\* capture has an error to show, and a complete one has none.
MenuMakesSense ==
    menu.whole =>
        /\ menu.state = "Incomplete" => menu.errors # {}
        /\ menu.state = "Complete" => menu.errors = {}

\* What the hub says of a capture agrees with what it did: one said to be complete
\* is whole on disk, only an active one admits operations, a settled one has the
\* status its metadata says, and the menu, which reads without the lock, shows a
\* state that there was.
StatusAgrees ==
    CaptureTypeOK /\ SealedIsWhole /\ OnlyActiveAdmits /\ SettledAgrees /\ MenuMakesSense

\* A session writes only to its own directory, and a capture once declared
\* complete is not touched again.
SealedForGood ==
    [][\A k \in 1..MaxCaptures :
          (disk[k].complete \/ k # session) => disk'[k] = disk[k]]_hubStateVars

\* Start and Stop return, whatever fails in them, and Stop has the worker ended.
StartAndStopReturn ==
    pc["controller"] \notin {"idle", "running"}
        ~> /\ pc["controller"] \in {"idle", "running"}
           /\ pc["controller"] = "idle" => pc["worker"] = "done"

=============================================================================
