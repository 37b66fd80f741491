----------------------------- MODULE DetourBatch -----------------------------
(***************************************************************************)
(* RELEX::DetourBatch hooks several functions of the game at once or none  *)
(* (AdDetourBatch.cpp).  The first bytes of a function are the chain of    *)
(* hooks laid on it: empty for the bytes the caller expects.  Other        *)
(* plugins' threads lay theirs meanwhile, start and end.                   *)
(*                                                                         *)
(* The Detours library has one transaction at a time in the process'       *)
(* module; attaching copies the bytes a function has into its trampoline,  *)
(* updating a thread suspends it, a commit writes every jump over what is  *)
(* there by then, and a commit or an abort lets the threads go on.         *)
(***************************************************************************)
EXTENDS Integers, Sequences, SequencesExt, Functions

CONSTANTS
    BatchTargets,   \* how many functions are hooked together
    BatchThreads,   \* the other threads of the process
    Ours            \* this batch's hook

ASSUME DetourBatchAssumption == BatchTargets \in Nat \ {0} /\ Ours \notin BatchThreads

VARIABLES
    code,           \* the hooks on each function, the last laid first met
    laid,           \* <<thread, function>>: the hooks other threads have laid
    life,           \* each thread is "unborn", "running" or "ended"
    suspended,      \* the threads that are suspended
    pending,        \* whose transaction is open: "none", "ours" or "other"
    batchPc, at,    \* the step of the batch and the target or thread it is at
    listed,         \* the threads of the snapshot
    handles,        \* the threads it has handles of
    captured,       \* the bytes each trampoline was made from
    batchResult     \* [ok, target], the target counted from 1

batchVars == <<code, laid, life, suspended, pending, batchPc, at, listed, handles,
               captured, batchResult>>

Functions == 1..BatchTargets
Bytes == Seq(BatchThreads \cup {Ours})
BatchSteps == {"check", "snapshot", "open", "begin", "compare", "attach", "suspend",
               "recheck", "commit", "returned"}

BatchTypeOK ==
    /\ code \in [Functions -> Bytes] /\ captured \in [Functions -> Bytes]
    /\ laid \subseteq BatchThreads \X Functions
    /\ life \in [BatchThreads -> {"unborn", "running", "ended"}]
    /\ suspended \subseteq BatchThreads /\ handles \subseteq BatchThreads
    /\ listed \subseteq BatchThreads
    /\ pending \in {"none", "ours", "other"}
    /\ batchPc \in BatchSteps /\ at \in 1..BatchTargets + 1
    /\ batchResult \in [ok : BOOLEAN, target : 0..BatchTargets + 1]

BatchStart ==
    /\ code = [f \in Functions |-> <<>>] /\ captured = code
    /\ laid = {} /\ suspended = {} /\ listed = {} /\ handles = {}
    /\ life \in [BatchThreads -> {"unborn", "running"}]
    /\ pending = "none" /\ batchPc = "check" /\ at = 1
    /\ batchResult = [ok |-> FALSE, target |-> 0]

Expected(f) == code[f] = <<>>

-----------------------------------------------------------------------------
\* A return: the handles are closed (~Threads), and an open transaction of this
\* batch is closed and its threads go on.
GiveBack(ok, target) ==
    /\ batchResult' = [ok |-> ok, target |-> target]
    /\ handles' = {} /\ batchPc' = "returned" /\ at' = 1
    /\ UNCHANGED <<laid, life, listed, captured>>

ReturnEarly(target) == GiveBack(FALSE, target) /\ UNCHANGED <<code, suspended, pending>>

Abort(target) ==
    /\ pending' = "none" /\ suspended' = {}
    /\ GiveBack(FALSE, target) /\ UNCHANGED code

\* The next target of a loop over them, or the next step after the last one.
NextTarget(step) ==
    /\ at' = IF at < BatchTargets THEN at + 1 ELSE 1
    /\ batchPc' = IF at < BatchTargets THEN batchPc ELSE step

CheckTarget ==
    /\ batchPc = "check"
    /\ \/ ~Expected(at) /\ ReturnEarly(at)
       \/ /\ Expected(at) /\ NextTarget("snapshot")
          /\ UNCHANGED <<code, laid, life, suspended, pending, listed, handles, captured, batchResult>>

\* A snapshot of the process' threads, or none; its own thread is not among them.
TakeSnapshot ==
    /\ batchPc = "snapshot"
    /\ \/ ReturnEarly(1)
       \/ /\ listed' = {t \in BatchThreads : life[t] = "running"} /\ batchPc' = "open"
          /\ UNCHANGED <<code, laid, life, suspended, pending, at, handles, captured, batchResult>>

\* A thread that has ended since is not opened, another may not be, and there may
\* be no memory for its handle: the batch is given up.
OpenThread ==
    /\ batchPc = "open"
    /\ \/ /\ listed = handles /\ batchPc' = "begin"
          /\ UNCHANGED <<code, laid, life, suspended, pending, at, listed, handles, captured, batchResult>>
       \/ \E t \in listed \ handles :
            \/ ReturnEarly(1)
            \/ /\ life[t] = "running" /\ handles' = handles \cup {t}
               /\ UNCHANGED <<code, laid, life, suspended, pending, batchPc, at, listed, captured, batchResult>>

BeginTransaction ==
    /\ batchPc = "begin"
    /\ \/ pending = "other" /\ ReturnEarly(1)
       \/ /\ pending = "none" /\ pending' = "ours" /\ batchPc' = "compare"
          /\ UNCHANGED <<code, laid, life, suspended, at, listed, handles, captured, batchResult>>

\* The bytes are compared again and then copied by DetourAttach, which may fail.
CompareAgain ==
    /\ batchPc = "compare"
    /\ \/ ~Expected(at) /\ Abort(at)
       \/ /\ Expected(at) /\ batchPc' = "attach"
          /\ UNCHANGED <<code, laid, life, suspended, pending, at, listed, handles, captured, batchResult>>

AttachTarget ==
    /\ batchPc = "attach"
    /\ \/ Abort(at)
       \/ /\ captured' = [captured EXCEPT ![at] = code[at]]
          /\ at' = IF at < BatchTargets THEN at + 1 ELSE 1
          /\ batchPc' = IF at < BatchTargets THEN "compare" ELSE "suspend"
          /\ UNCHANGED <<code, laid, life, suspended, pending, listed, handles, batchResult>>

\* Nothing is attached after the first thread is suspended, which may hold a lock.
SuspendThread ==
    /\ batchPc = "suspend"
    /\ \/ /\ suspended = handles /\ batchPc' = "recheck"
          /\ UNCHANGED <<code, laid, life, suspended, pending, at, listed, handles, captured, batchResult>>
       \/ \E t \in handles \ suspended :
            \/ life[t] = "ended" /\ Abort(1)
            \/ /\ life[t] = "running" /\ suspended' = suspended \cup {t}
               /\ UNCHANGED <<code, laid, life, pending, batchPc, at, listed, handles, captured, batchResult>>

\* The bytes are not compared again.
RecheckTrusting ==
    /\ batchPc = "recheck" /\ NextTarget("commit")
    /\ UNCHANGED <<code, laid, life, suspended, pending, listed, handles, captured, batchResult>>

Recheck ==
    /\ batchPc = "recheck"
    /\ \/ ~Expected(at) /\ Abort(at)
       \/ /\ Expected(at) /\ NextTarget("commit")
          /\ UNCHANGED <<code, laid, life, suspended, pending, listed, handles, captured, batchResult>>

\* All the jumps are written over what is there, or none.
Commit ==
    /\ batchPc = "commit"
    /\ \/ \E f \in 1..BatchTargets + 1 : Abort(f)
       \/ /\ code' = [f \in Functions |-> Append(captured[f], Ours)]
          /\ pending' = "none" /\ suspended' = {}
          /\ GiveBack(TRUE, BatchTargets + 1)

-----------------------------------------------------------------------------
Runs(t) == life[t] = "running" /\ t \notin suspended

\* Another plugin's thread hooks a function.
LayHook(t, f) ==
    /\ Runs(t) /\ <<t, f>> \notin laid
    /\ code' = [code EXCEPT ![f] = Append(@, t)] /\ laid' = laid \cup {<<t, f>>}
    /\ UNCHANGED <<life, suspended, pending, batchPc, at, listed, handles, captured, batchResult>>

StartThread(t) ==
    /\ life[t] = "unborn" /\ life' = [life EXCEPT ![t] = "running"]
    /\ UNCHANGED <<code, laid, suspended, pending, batchPc, at, listed, handles, captured, batchResult>>

EndThread(t) ==
    /\ Runs(t) /\ life' = [life EXCEPT ![t] = "ended"]
    /\ UNCHANGED <<code, laid, suspended, pending, batchPc, at, listed, handles, captured, batchResult>>

\* A thread of the process has a transaction of its own for a while.
OtherTransaction ==
    /\ pending # "ours" /\ \E t \in BatchThreads : Runs(t)
    /\ pending' = IF pending = "none" THEN "other" ELSE "none"
    /\ UNCHANGED <<code, laid, life, suspended, batchPc, at, listed, handles, captured, batchResult>>

BatchNext ==
    \/ CheckTarget \/ TakeSnapshot \/ OpenThread \/ BeginTransaction
    \/ CompareAgain \/ AttachTarget \/ SuspendThread \/ Recheck \/ Commit
    \/ OtherTransaction
    \/ \E t \in BatchThreads :
         StartThread(t) \/ EndThread(t) \/ \E f \in Functions : LayHook(t, f)

BatchSpec == BatchStart /\ [][BatchNext]_batchVars

-----------------------------------------------------------------------------
\* The functions are all hooked when DetourBatch says so, and none is otherwise.
HookedTogether ==
    \A f \in Functions : Ours \in Range(code[f]) <=> batchResult.ok

\* A hook another thread laid is still met: a batch that fails loses none, and one
\* that succeeds loses none of the threads its snapshot listed, although they run
\* until each is suspended.  (Threads started later are not suspended.)
HooksAreKept ==
    \A t \in BatchThreads, f \in Functions :
        <<t, f>> \in laid /\ (batchResult.ok => t \in listed) => t \in Range(code[f])

\* After it returns its threads run, its handles are closed and the library is free
\* for the next transaction; before the transaction nothing is suspended.
NothingLeftBehind ==
    /\ batchPc = "returned" => suspended = {} /\ handles = {} /\ pending # "ours"
    /\ suspended # {} => pending = "ours" /\ suspended \subseteq handles

----------------------------------------------------------------------------
(***************************************************************************)
(* Patching pointers where they are kept: PreparePointers makes the pages  *)
(* writable and reads what is there, PublishPointers exchanges the         *)
(* pointers, and the protection of the pages is restored (AdIAT.cpp).  Its *)
(* users are PluginCallbacks, which leaves an interface alone that is not  *)
(* F4SE's own, and ImageMemory, whose stubs start to be called as soon as  *)
(* the pointers are exchanged (Patch, AdImageMemory.cpp).                   *)
(*                                                                         *)
(* The pages and what the slots hold are the program's that is patched: a  *)
(* slot may be null, another plugin's, or on a page that cannot be used.   *)
(* Other threads call through the slots all the time.                      *)
(***************************************************************************)

CONSTANTS
    Slots,          \* the pointers that may be patched
    PageOf,         \* PageOf[s]: the page a slot is on
    Users           \* which users are met: "callbacks", "memory"

ASSUME PointerPatchesAssumption ==
    DOMAIN PageOf = Slots /\ Users \subseteq {"callbacks", "memory"}

VARIABLES
    user,           \* who patches in this behaviour
    slot,           \* what each slot holds: "null", "theirs", "foreign" or "ours"
    protection,     \* of each page
    own,            \* the protection each page had before
    patches,        \* the slots to patch, in order
    saved,          \* saved[n]: patch.protection of the nth, once it is prepared
    previous,       \* previous[n]: patch.previous of the nth
    recorded,       \* the slots whose original the user has kept
    patchPc, place, \* the step and the patch it is at
    patchDone       \* what the user answered

patchVars == <<user, slot, protection, own, patches, saved, previous, recorded,
               patchPc, place, patchDone>>

Pages == Range(PageOf)
Unusable == {"guard", "free"}
Protections == {"r", "rw", "rx", "rwx"} \cup Unusable
SlotValues == {"null", "theirs", "foreign", "ours"}

Orders == {o \in UNION {[1..n -> Slots] : n \in 1..3} : IsInjective(o)}

PatchTypeOK ==
    /\ user \in Users /\ patches \in Orders
    /\ slot \in [Slots -> SlotValues]
    /\ protection \in [Pages -> Protections] /\ own \in [Pages -> Protections]
    /\ Len(saved) = Len(previous) /\ Len(saved) <= Len(patches)
    /\ recorded \subseteq Slots
    /\ patchPc \in {"prepare", "examine", "publish", "restore", "idle"}
    /\ place \in 0..Len(patches) + 1 /\ patchDone \in {"pending", "yes", "no"}

\* ImageMemory gives an image up whose slots its preflight finds null; it may be
\* null by the time it is prepared.
PatchStart ==
    /\ user \in Users /\ patches \in Orders
    /\ slot \in [Slots -> {"null", "theirs", "foreign"}]
    /\ protection \in [Pages -> {"r", "rx", "guard"}] /\ own = protection
    /\ saved = <<>> /\ previous = <<>> /\ recorded = {}
    /\ patchPc = "prepare" /\ place = 1 /\ patchDone = "pending"

Page(n) == PageOf[patches[n]]

Writable(p) == IF p \in {"rx", "rwx"} THEN "rwx" ELSE "rw"

Keep == <<user, own, patches>>

-----------------------------------------------------------------------------
\* The prepared patches are restored and the answer is no.
GiveUp ==
    /\ patchPc' = "restore" /\ place' = Len(saved') /\ patchDone' = "no"

\* One patch of PreparePointers: VirtualQuery, VirtualProtect, which keeps the
\* page's protection and may fail, and the read of the pointer.  A patch counts as
\* prepared before its pointer is looked at.
Unqueryable ==
    /\ patchPc = "prepare" /\ protection[Page(place)] \in Unusable
    /\ UNCHANGED <<Keep, slot, protection, saved, previous, recorded>>
    /\ GiveUp

ProtectFails ==
    /\ patchPc = "prepare" /\ protection[Page(place)] \notin Unusable
    /\ UNCHANGED <<Keep, slot, protection, saved, previous, recorded>>
    /\ GiveUp

PreparePointer ==
    /\ patchPc = "prepare" /\ protection[Page(place)] \notin Unusable
    /\ protection' = [protection EXCEPT ![Page(place)] = Writable(@)]
    /\ saved' = Append(saved, protection[Page(place)])
    /\ previous' = Append(previous, slot[patches[place]])
    /\ UNCHANGED <<Keep, slot, recorded>>
    /\ IF slot[patches[place]] = "null" THEN GiveUp
       ELSE /\ UNCHANGED patchDone
            /\ IF place < Len(patches)
               THEN place' = place + 1 /\ UNCHANGED patchPc
               ELSE place' = 1 /\ patchPc' = "examine"

\* PrepareInterface gives up what is not F4SE's; ImageMemory takes what it finds.
\* What was there is kept before it is replaced.
Examine ==
    /\ patchPc = "examine"
    /\ UNCHANGED <<Keep, slot, protection, saved, previous>>
    /\ IF user = "callbacks" /\ "foreign" \in Range(previous)
       THEN GiveUp /\ UNCHANGED recorded
       ELSE /\ recorded' = Range(patches) /\ patchPc' = "publish"
            /\ UNCHANGED <<place, patchDone>>

PublishPointer ==
    /\ patchPc = "publish"
    /\ protection[Page(place)] \in {"rw", "rwx"}    \* or the exchange faults
    /\ slot' = [slot EXCEPT ![patches[place]] = "ours"]
    /\ IF place < Len(patches)
       THEN place' = place + 1 /\ UNCHANGED <<patchPc, patchDone>>
       ELSE patchPc' = "restore" /\ place' = Len(patches) /\ patchDone' = "yes"
    /\ UNCHANGED <<Keep, protection, saved, previous, recorded>>

\* From the first to the last.
RestoreForward ==
    /\ patchPc = "restore" /\ place > 0
    /\ LET n == Len(saved) + 1 - place IN
       protection' = [protection EXCEPT ![Page(n)] = saved[n]]
    /\ place' = place - 1
    /\ UNCHANGED <<Keep, slot, saved, previous, recorded, patchPc, patchDone>>

\* RestorePointersProtection goes through the patches from the last to the first.
RestorePointer ==
    /\ patchPc = "restore" /\ place > 0
    /\ protection' = [protection EXCEPT ![Page(place)] = saved[place]]
    /\ place' = place - 1
    /\ UNCHANGED <<Keep, slot, saved, previous, recorded, patchPc, patchDone>>

Restored ==
    /\ patchPc = "restore" /\ place = 0 /\ patchPc' = "idle"
    /\ UNCHANGED <<Keep, slot, protection, saved, previous, recorded, place, patchDone>>

PatchNext ==
    \/ Unqueryable \/ ProtectFails \/ PreparePointer \/ Examine
    \/ PublishPointer \/ RestorePointer \/ Restored

PatchSpec == PatchStart /\ [][PatchNext]_patchVars

-----------------------------------------------------------------------------
\* However it ends, the pages are protected as they were before, two slots on one
\* page included.
ProtectionsComeBack == patchPc = "idle" => protection = own

\* The pointers are all exchanged or none is; an exchange never meets a page that
\* cannot be written.
PatchedTogether ==
    /\ patchDone # "pending" =>
         \A n \in 1..Len(patches) : slot[patches[n]] = "ours" <=> patchDone = "yes"
    /\ patchPc = "publish" => protection[Page(place)] \in {"rw", "rwx"}

\* A call through a slot of ours finds what it replaces, which is something to call
\* and, for an interface of F4SE's, F4SE's.
OriginalsAreKnown ==
    \A s \in Slots : slot[s] = "ours" =>
        \E n \in 1..Len(previous) :
            /\ s \in recorded /\ patches[n] = s /\ previous[n] # "null"
            /\ user = "callbacks" => previous[n] = "theirs"

-----------------------------------------------------------------------------
\* What is hooked is hooked whole and can be told and taken back: a batch of
\* detours is committed for all of its functions or for none, with every thread
\* running again and no listed thread's hook lost; patched pointers are published
\* together over known originals, and their pages get their protections back.
HooksAreWhole ==
    /\ BatchTypeOK /\ HookedTogether /\ HooksAreKept /\ NothingLeftBehind
    /\ PatchTypeOK /\ ProtectionsComeBack /\ PatchedTogether /\ OriginalsAreKnown
===============================================================================
