---------------------------- MODULE CosaveIOProofs ----------------------------
(***************************************************************************)
(* The buffered co-saves implement plain file handles, for every number of  *)
(* threads, handles and files and every file length.  The invariant says    *)
(* who may work on a handle: a thread that tracks or closes one is alone on *)
(* it, and a call on its way to Windows never has a buffered handle.        *)
(***************************************************************************)
EXTENDS CosaveIO, TLAPS

(* What a thread in each step of a call has.                                *)
CallsInOrder ==
  \A t \in Threads :
    /\ step[t] = "out" <=> call[t] = "none"
    /\ step[t] = "out" => handle[t] = NoHandle
    /\ step[t] \in {"hook", "original"} => (handle[t] = NoHandle <=> call[t] \in Creates)
    /\ step[t] = "track" => call[t] \in Creates /\ handle[t] \in Handles
    /\ handle[t] \in Handles => os[handle[t]] # NoFile

(* A handle that is tracked or closed has no second call under way.         *)
Alone ==
  \A t, u \in Threads :
    t # u /\ handle[t] \in Handles /\ handle[t] = handle[u]
      => step[t] # "track" /\ call[t] # "CloseHandle"

(* A tracked handle is a fresh co-save, at its start.                       *)
TracksFresh ==
  \A t \in Threads : step[t] = "track" =>
    /\ enabled
    /\ os[handle[t]].at = 0 /\ os[handle[t]].file \in Cosaves
    /\ buffered[handle[t]] = NoFile

(* No call goes past a buffer.                                              *)
NoBypass ==
  \A t \in Threads :
    step[t] = "original" /\ handle[t] \in Handles => buffered[handle[t]] = NoFile

(* Buffers exist once the hooks do, and match their handles.                *)
BuffersMatch ==
  /\ enabled => Required \subseteq hooked
  /\ \A h \in Handles : buffered[h] # NoFile =>
       /\ enabled
       /\ os[h] = [file |-> buffered[h].file, at |-> 0]
       /\ buffered[h].file \in Cosaves

Inv == CosaveTypeOK /\ CallsInOrder /\ Alone /\ TracksFresh /\ NoBypass /\ BuffersMatch
-------------------------------------------------------------------------------
(* A read takes at most the file, and leaves the position in range.         *)
LEMMA AvailableRange ==
  ASSUME NEW at \in Plain!Positions, NEW wanted \in 0 .. MaxRead
  PROVE  /\ Plain!Available(at, wanted) \in 0 .. FileSize
         /\ at + Plain!Available(at, wanted) \in Plain!Positions
BY CosaveAssumption DEF Plain!Available, Plain!Positions

(* The hook's unsigned sums refuse exactly the seeks Windows refuses.       *)
LEMMA NewPositionIsTarget ==
  ASSUME NEW entry \in Plain!OpenFile, NEW method \in Plain!Methods,
         NEW distance \in Plain!Distances
  PROVE  LET target == Plain!Base(entry, method) + distance IN
         NewPosition(entry, method, distance)
           = IF target \in Plain!Positions THEN target ELSE -1
  BY CosaveAssumption DEF Plain!OpenFile, Plain!Positions, Plain!Distances, AddOffset, NewPosition,
     Plain!Base, Plain!Methods

(* A seek's result is a position.                                           *)
LEMMA NewPositionType ==
  ASSUME NEW entry \in Plain!OpenFile, NEW method \in Plain!Methods,
         NEW distance \in Plain!Distances
  PROVE  NewPosition(entry, method, distance) \in Plain!Positions \union {-1}
BY NewPositionIsTarget

(* An open handle is told from a free one.                                  *)
LEMMA FreeOrOpen ==
  /\ NoFile \notin Plain!OpenFile /\ NoHandle \notin Handles
  /\ \A f \in Files : [file |-> f, at |-> 0] \in Plain!OpenFile
BY CosaveAssumption DEF Plain!OpenFile, Plain!Positions

(* Answers are well formed.                                                 *)
LEMMA AnswerTypes ==
  /\ \A h \in Handles \union {NoHandle}, f \in Files \union {NoFile} :
       Plain!Opened(h, f) \in Plain!Answers
  /\ \A h \in Handles, entry \in Plain!OpenFile, n \in 0 .. FileSize :
       Plain!Bytes(h, entry, n) \in Plain!Answers
  /\ \A h \in Handles, p \in Plain!Positions \union {-1} :
       Plain!Sought(h, p) \in Plain!Answers
BY CosaveAssumption
DEF Plain!Opened, Plain!Bytes, Plain!Sought, Plain!Answers, Plain!OpenFile, Plain!Positions

(* No thread has called yet.                                                *)
LEMMA InvInitially == CosaveInit => Inv
<1> SUFFICES ASSUME CosaveInit PROVE Inv
  OBVIOUS
<1>1. CosaveTypeOK
  <2>1. answer \in Plain!Answers BY AnswerTypes DEF CosaveInit
  <2>2. /\ installed \in 0 .. 5 /\ hooked \subseteq ImportNames /\ stored \subseteq hooked
    BY DEF CosaveInit
  <2>4. enabled \in BOOLEAN
    BY DEF CosaveInit
  <2>3. /\ os \in [Handles -> Plain!OpenFile \union {NoFile}]
        /\ buffered \in [Handles -> Plain!OpenFile \union {NoFile}]
        /\ step \in [Threads -> Steps]
        /\ call \in [Threads -> ImportNames \union {"none"}]
        /\ handle \in [Threads -> Handles \union {NoHandle}]
    BY DEF CosaveInit, Steps
  <2> QED BY <2>1, <2>2, <2>3, <2>4 DEF CosaveTypeOK
<1>2. CallsInOrder /\ Alone /\ TracksFresh /\ NoBypass /\ BuffersMatch
  BY FreeOrOpen
  DEF CosaveInit, CallsInOrder, Alone, TracksFresh, NoBypass, BuffersMatch, Creates
<1> QED BY <1>1, <1>2 DEF Inv
-------------------------------------------------------------------------------
(* The installation changes no call, no handle and no buffer.               *)
LEMMA InstallKeeps == Inv /\ Install => Inv'
<1> SUFFICES ASSUME Inv, Install PROVE Inv'
  OBVIOUS
<1>1. /\ UNCHANGED <<os, buffered, step, call, handle, answer>>
      /\ installed' \in 0 .. 5 /\ hooked' \subseteq ImportNames /\ stored' \subseteq hooked'
      /\ enabled' \in BOOLEAN
      /\ enabled => enabled'
      /\ enabled' => Required \subseteq hooked'
  <2> USE DEF Inv, CosaveTypeOK, BuffersMatch
  <2>1. CASE HookImport
    BY <2>1 DEF ImportNames, HookImport, callVars
  <2>2. CASE StoreOriginal
    BY <2>2 DEF StoreOriginal, callVars
  <2>3. CASE Enable
    BY <2>3 DEF Enable, callVars
  <2> QED BY <2>1, <2>2, <2>3 DEF Install
<1>2. CosaveTypeOK'
  BY <1>1 DEF Inv, CosaveTypeOK
<1>3. (CallsInOrder /\ Alone /\ TracksFresh /\ NoBypass /\ BuffersMatch)'
  BY <1>1 DEF Inv, CallsInOrder, Alone, TracksFresh, NoBypass, BuffersMatch
<1> QED BY <1>2, <1>3 DEF Inv

(* Calls with no effect on Windows and the buffers: only where a thread is.  *)
LEMMA EnterKeeps ==
  ASSUME Inv, NEW t \in Threads, NEW import \in ImportNames,
         NEW h \in Handles \union {NoHandle}, Enter(t, import, h)
  PROVE  Inv'
<1>1. /\ UNCHANGED <<installed, hooked, stored, enabled, os, buffered, answer>>
      /\ step[t] = "out"
      /\ call' = [call EXCEPT ![t] = import] /\ handle' = [handle EXCEPT ![t] = h]
      /\ step' = [step EXCEPT ![t] = IF import \in hooked THEN "hook" ELSE "original"]
      /\ import \in Creates <=> h = NoHandle
      /\ import \notin Creates => h \in Handles /\ Held(h)
      /\ import = "CloseHandle" => \A u \in Threads : handle[u] # h
  BY FreeOrOpen DEF Enter, Go, installVars, Creates
<1>2. CosaveTypeOK'
  BY <1>1 DEF Inv, CosaveTypeOK, Steps
<1>3. CallsInOrder'
  BY <1>1, FreeOrOpen DEF Inv, CosaveTypeOK, CallsInOrder, Steps, Held, Creates, ImportNames, Imports
<1>4. Alone'
  BY <1>1, FreeOrOpen DEF Inv, CosaveTypeOK, CallsInOrder, Alone, Held, Creates
<1>5. TracksFresh'
  BY <1>1 DEF Inv, CosaveTypeOK, TracksFresh
<1>6. NoBypass'
  BY <1>1, FreeOrOpen DEF Inv, BuffersMatch, Required, Creates, CosaveTypeOK, NoBypass
<1>7. BuffersMatch'
  BY <1>1 DEF Inv, BuffersMatch
<1> QED BY <1>2, <1>3, <1>4, <1>5, <1>6, <1>7 DEF Inv

(* A thread goes on in its call: the buffer it finds missing, or takes away,   *)
(* is not there when it calls Windows.                                       *)
LEMMA ForwardKeeps ==
  ASSUME Inv, NEW t \in Threads, step[t] = "hook",
         step' = [step EXCEPT ![t] = "original"],
         UNCHANGED <<installed, hooked, stored, enabled, os, call, handle, answer>>,
         handle[t] \in Handles => buffered'[handle[t]] = NoFile,
         buffered' \in [Handles -> Plain!OpenFile \union {NoFile}],
         \A h \in Handles : buffered'[h] \in {buffered[h], NoFile}
  PROVE  Inv'
  BY DEF Inv, CosaveTypeOK, Steps, CallsInOrder, Alone, TracksFresh, NoBypass, BuffersMatch

(* A thread returns: enough that what it changed leaves the other threads'    *)
(* handles open, tracked handles fresh and calls on their way unbuffered.     *)
LEMMA ReturnKeeps ==
  ASSUME Inv, NEW t \in Threads, Return(t),
         UNCHANGED <<installed, hooked, stored, enabled>>,
         answer' \in Plain!Answers,
         os' \in [Handles -> Plain!OpenFile \union {NoFile}],
         buffered' \in [Handles -> Plain!OpenFile \union {NoFile}],
         \A u \in Threads \ {t} : handle[u] \in Handles =>
           /\ os'[handle[u]] # NoFile
           /\ step[u] = "track" => /\ os'[handle[u]] = os[handle[u]]
                                   /\ buffered'[handle[u]] = buffered[handle[u]]
           /\ step[u] = "original" => buffered'[handle[u]] = NoFile,
         BuffersMatch'
  PROVE  Inv'
<1>1. /\ step' = [step EXCEPT ![t] = "out"] /\ call' = [call EXCEPT ![t] = "none"]
      /\ handle' = [handle EXCEPT ![t] = NoHandle]
  BY DEF Return, Go
<1>2. CosaveTypeOK'
  BY <1>1 DEF Inv, CosaveTypeOK, Steps
<1>3. CallsInOrder'
  BY <1>1, FreeOrOpen DEF Inv, CosaveTypeOK, CallsInOrder, Creates
<1>4. Alone'
  BY <1>1, FreeOrOpen DEF Inv, CosaveTypeOK, Alone
<1>5. TracksFresh'
  BY <1>1 DEF Inv, CosaveTypeOK, CallsInOrder, TracksFresh
<1>6. NoBypass'
  BY <1>1 DEF Inv, CosaveTypeOK, NoBypass
<1> QED BY <1>2, <1>3, <1>4, <1>5, <1>6 DEF Inv

(* Reads and seeks in a buffer move only its cursor.                         *)
LEMMA CursorKeeps ==
  ASSUME Inv, NEW t \in Threads, Return(t),
         UNCHANGED <<installed, hooked, stored, enabled, os>>,
         step[t] = "hook", handle[t] \in Handles, buffered[handle[t]] # NoFile,
         NEW position \in Plain!Positions,
         buffered' = [buffered EXCEPT ![handle[t]].at = position],
         answer' \in Plain!Answers
  PROVE  Inv'
<1> DEFINE h == handle[t]
<1>1. /\ os \in [Handles -> Plain!OpenFile \union {NoFile}]
      /\ buffered \in [Handles -> Plain!OpenFile \union {NoFile}]
      /\ buffered[h] \in Plain!OpenFile
  BY DEF Inv, CosaveTypeOK
<1>2. /\ buffered'[h] \in Plain!OpenFile /\ buffered'[h].file = buffered[h].file
      /\ \A g \in Handles \ {h} : buffered'[g] = buffered[g]
      /\ buffered' \in [Handles -> Plain!OpenFile \union {NoFile}]
  BY <1>1 DEF Plain!OpenFile
<1>3. \A u \in Threads \ {t} : handle[u] \in Handles =>
        /\ os'[handle[u]] # NoFile
        /\ step[u] = "track" => buffered'[handle[u]] = buffered[handle[u]]
        /\ step[u] = "original" => buffered'[handle[u]] = NoFile
  BY <1>2 DEF Inv, CallsInOrder, Alone, NoBypass
<1>4. BuffersMatch'
  BY <1>1, <1>2 DEF Inv, BuffersMatch
<1> QED BY <1>1, <1>2, <1>3, <1>4, ReturnKeeps

(* Reads and seeks by Windows move only the position of an unbuffered handle. *)
LEMMA PositionKeeps ==
  ASSUME Inv, NEW t \in Threads, Return(t),
         UNCHANGED <<installed, hooked, stored, enabled, buffered>>,
         step[t] = "original", handle[t] \in Handles,
         NEW position \in Plain!Positions,
         os' = [os EXCEPT ![handle[t]].at = position],
         answer' \in Plain!Answers
  PROVE  Inv'
<1> DEFINE h == handle[t]
<1>1. /\ os \in [Handles -> Plain!OpenFile \union {NoFile}]
      /\ buffered \in [Handles -> Plain!OpenFile \union {NoFile}]
      /\ os[h] \in Plain!OpenFile /\ buffered[h] = NoFile
  BY DEF Inv, CosaveTypeOK, CallsInOrder, NoBypass
<1>2. /\ os'[h] \in Plain!OpenFile
      /\ \A g \in Handles \ {h} : os'[g] = os[g]
      /\ os' \in [Handles -> Plain!OpenFile \union {NoFile}]
  BY <1>1 DEF Plain!OpenFile
<1>3. \A u \in Threads \ {t} : handle[u] \in Handles =>
        /\ os'[handle[u]] # NoFile
        /\ step[u] = "track" => os'[handle[u]] = os[handle[u]]
        /\ step[u] = "original" => buffered'[handle[u]] = NoFile
  BY <1>2, FreeOrOpen DEF Inv, CallsInOrder, Alone, NoBypass
<1>4. BuffersMatch'
  BY <1>1, <1>2 DEF Inv, BuffersMatch
<1> QED BY <1>1, <1>2, <1>3, <1>4, ReturnKeeps

(* A handle number is free before it is given out.                           *)
LEMMA CreateKeeps ==
  ASSUME Inv, NEW t \in Threads, call[t] \in Creates, step[t] \in {"hook", "original"},
         NEW h \in Handles, NEW f \in Files, CreateOriginal(h, f),
         UNCHANGED <<installed, hooked, stored, enabled, buffered>>
  PROVE  /\ os[h] = NoFile /\ os' = [os EXCEPT ![h] = [file |-> f, at |-> 0]]
         /\ os' \in [Handles -> Plain!OpenFile \union {NoFile}]
         /\ os'[h] # NoFile
         /\ buffered[h] = NoFile
         /\ \A u \in Threads : handle[u] # h
         /\ BuffersMatch'
  BY FreeOrOpen DEF CreateOriginal, Inv, CosaveTypeOK, Plain!OpenFile, BuffersMatch, CallsInOrder
(* Opening a file, by the hook or by Windows.                                *)
LEMMA OpenKeeps ==
  ASSUME Inv, NEW t \in Threads, HookedCreateFile(t) \/ OriginalCreateFile(t)
  PROVE  Inv'
<1>1. /\ call[t] \in Creates /\ step[t] \in {"hook", "original"}
      /\ UNCHANGED <<installed, hooked, stored, enabled, buffered>>
      /\ HookedCreateFile(t) => enabled /\ step[t] = "hook"
  BY DEF HookedCreateFile, OriginalCreateFile, Serving, CreateFails, installVars
<1>2. /\ buffered \in [Handles -> Plain!OpenFile \union {NoFile}]
      /\ os \in [Handles -> Plain!OpenFile \union {NoFile}]
  BY DEF Inv, CosaveTypeOK
<1>3. \A u \in Threads : handle[u] \in Handles =>
        os[handle[u]] # NoFile /\ (step[u] = "original" => buffered[handle[u]] = NoFile)
  BY DEF Inv, CallsInOrder, NoBypass
<1>4. CASE CreateFails(t)
  BY <1>4, AnswerTypes, <1>1, <1>2, <1>3, ReturnKeeps DEF CreateFails, Inv, BuffersMatch
<1>5. ASSUME NEW h \in Handles, NEW f \in Files, CreateOriginal(h, f),
             Return(t), answer' = Plain!Opened(h, f)
      PROVE  Inv'
  BY <1>1, <1>5, CreateKeeps, AnswerTypes, <1>2, <1>3, ReturnKeeps
<1>6. ASSUME NEW h \in Handles, NEW f \in Files, CreateOriginal(h, f), f \in Cosaves,
             HookedCreateFile(t), Go(t, "track"), UNCHANGED <<call, answer>>,
             handle' = [handle EXCEPT ![t] = h]
      PROVE  Inv'
  <2>1. /\ os' = [os EXCEPT ![h] = [file |-> f, at |-> 0]]
        /\ os' \in [Handles -> Plain!OpenFile \union {NoFile}]
        /\ os'[h] # NoFile /\ buffered[h] = NoFile
        /\ \A u \in Threads : handle[u] # h
        /\ BuffersMatch'
    BY <1>1, <1>6, CreateKeeps
  <2>2. step' = [step EXCEPT ![t] = "track"] BY <1>6 DEF Go
  <2>3. CosaveTypeOK'
    BY <1>1, <1>6, <2>1, <2>2 DEF Inv, CosaveTypeOK, Steps
  <2>4. CallsInOrder'
    BY <1>1, <1>2, <1>6, <2>1, <2>2, FreeOrOpen DEF Inv, CosaveTypeOK, CallsInOrder, Creates
  <2>5. Alone'
    BY <1>1, <1>6, <2>1, <2>2 DEF Inv, CosaveTypeOK, Alone
  <2>6. TracksFresh'
    BY <1>1, <1>2, <1>6, <2>1, <2>2 DEF Inv, CosaveTypeOK, CallsInOrder, TracksFresh
  <2>7. NoBypass'
    BY <1>1, <1>6, <2>1, <2>2 DEF Inv, CosaveTypeOK, NoBypass
  <2> QED BY <2>1, <2>3, <2>4, <2>5, <2>6, <2>7 DEF Inv
<1> QED BY <1>4, <1>5, <1>6 DEF HookedCreateFile, OriginalCreateFile

(* The buffer of a fresh co-save is its own, from its start.                 *)
LEMMA TrackKeeps ==
  ASSUME Inv, NEW t \in Threads, TrackReadFile(t)
  PROVE  Inv'
<1> DEFINE h == handle[t]
           entry == [file |-> os[h].file, at |-> 0]
<1>1. /\ step[t] = "track" /\ Return(t) /\ UNCHANGED <<installed, hooked, stored, enabled, os>>
      /\ buffered' = [buffered EXCEPT ![h] = entry] \/ buffered' = buffered
      /\ answer' = Plain!Opened(h, os[h].file)
  BY DEF TrackReadFile, installVars
<1>2. /\ h \in Handles /\ os[h] \in Plain!OpenFile /\ os[h].at = 0 /\ enabled
      /\ os[h].file \in Cosaves
  BY <1>1 DEF Inv, CosaveTypeOK, CallsInOrder, TracksFresh
<1>3. entry \in Plain!OpenFile /\ os[h] = entry /\ os[h].file \in Files
  BY <1>2 DEF Plain!OpenFile
<1>4. /\ os \in [Handles -> Plain!OpenFile \union {NoFile}]
      /\ buffered' \in [Handles -> Plain!OpenFile \union {NoFile}]
      /\ \A g \in Handles \ {h} : buffered'[g] = buffered[g]
  BY <1>1, <1>3 DEF Inv, CosaveTypeOK
<1>5. answer' \in Plain!Answers
  BY <1>1, <1>2, <1>3, AnswerTypes
<1>6. \A u \in Threads \ {t} : handle[u] \in Handles =>
        /\ handle[u] # h /\ os'[handle[u]] # NoFile
        /\ step[u] = "original" => buffered'[handle[u]] = NoFile
  BY <1>1, <1>2, <1>4 DEF Inv, CallsInOrder, Alone, NoBypass
<1>7. BuffersMatch'
  BY <1>1, <1>2, <1>3, <1>4 DEF Inv, CosaveTypeOK, BuffersMatch
<1> QED BY <1>1, <1>4, <1>5, <1>6, <1>7, ReturnKeeps

(* The last step of a close frees a handle that nobody else uses.             *)
LEMMA CloseKeeps ==
  ASSUME Inv, NEW t \in Threads, OriginalCloseHandle(t)
  PROVE  Inv'
<1> DEFINE h == handle[t]
<1>1. /\ step[t] = "original" /\ call[t] = "CloseHandle" /\ Return(t)
      /\ UNCHANGED <<installed, hooked, stored, enabled, buffered, answer>>
      /\ os' = [os EXCEPT ![h] = NoFile]
  BY DEF OriginalCloseHandle, installVars
<1>2. /\ h \in Handles /\ buffered[h] = NoFile
      /\ os' \in [Handles -> Plain!OpenFile \union {NoFile}]
      /\ buffered' \in [Handles -> Plain!OpenFile \union {NoFile}]
      /\ answer' \in Plain!Answers
      /\ \A g \in Handles \ {h} : os'[g] = os[g]
  BY <1>1 DEF Inv, CosaveTypeOK, CallsInOrder, NoBypass, Creates
<1>3. \A u \in Threads \ {t} : handle[u] \in Handles =>
        /\ handle[u] # h /\ os'[handle[u]] # NoFile
        /\ step[u] = "original" => buffered'[handle[u]] = NoFile
  BY <1>1, <1>2 DEF Inv, CallsInOrder, Alone, NoBypass
<1>4. BuffersMatch'
  BY <1>1, <1>2 DEF Inv, BuffersMatch
<1> QED BY <1>1, <1>2, <1>3, <1>4, ReturnKeeps

(* Reads and seeks, by the hooks and by Windows.                             *)
LEMMA MoveKeeps ==
  ASSUME Inv, NEW t \in Threads,
         \/ \E wanted \in 0 .. MaxRead : HookedReadFile(t, wanted) \/ OriginalReadFile(t, wanted)
         \/ \E method \in Plain!Methods, distance \in Plain!Distances :
               \/ HookedSetFilePointerEx(t, method, distance)
               \/ OriginalSetFilePointerEx(t, method, distance)
  PROVE  Inv'
<1> DEFINE h == handle[t]
<1>1. /\ os \in [Handles -> Plain!OpenFile \union {NoFile}]
      /\ buffered \in [Handles -> Plain!OpenFile \union {NoFile}]
      /\ step[t] \in {"hook", "original"} /\ call[t] \in {"ReadFile", "SetFilePointerEx"}
           => h \in Handles /\ os[h] \in Plain!OpenFile
  BY DEF Inv, CosaveTypeOK, CallsInOrder, Creates
<1>2. \A entry \in Plain!OpenFile : entry.at \in Plain!Positions
  BY DEF Plain!OpenFile
<1>3. ASSUME NEW wanted \in 0 .. MaxRead, HookedReadFile(t, wanted) PROVE Inv'
  <2> DEFINE n == Plain!Available(buffered[h].at, wanted)
  <2>1. /\ step[t] = "hook" /\ call[t] = "ReadFile" /\ buffered[h] # NoFile /\ Return(t)
        /\ UNCHANGED <<installed, hooked, stored, enabled, os>>
        /\ buffered' = [buffered EXCEPT ![h].at = @ + n]
        /\ answer' = Plain!Bytes(h, buffered[h], n)
    BY <1>3 DEF HookedReadFile, Serving, installVars
  <2>2. h \in Handles /\ buffered[h] \in Plain!OpenFile BY <1>1, <2>1
  <2>3. n \in 0 .. FileSize /\ buffered[h].at + n \in Plain!Positions
    BY <1>2, <2>2, AvailableRange
  <2>4. answer' \in Plain!Answers BY <2>1, <2>2, <2>3, AnswerTypes
  <2>5. buffered' = [buffered EXCEPT ![h].at = buffered[h].at + n]
    BY <2>1
  <2> HIDE DEF n
  <2> QED BY <2>1, <2>2, <2>3, <2>4, <2>5, CursorKeeps
<1>4. ASSUME NEW wanted \in 0 .. MaxRead, OriginalReadFile(t, wanted) PROVE Inv'
  <2> DEFINE n == Plain!Available(os[h].at, wanted)
  <2>1. /\ step[t] = "original" /\ call[t] = "ReadFile" /\ Return(t)
        /\ UNCHANGED <<installed, hooked, stored, enabled, buffered>>
        /\ os' = [os EXCEPT ![h].at = @ + n]
        /\ answer' = Plain!Bytes(h, os[h], n)
    BY <1>4 DEF OriginalReadFile, installVars
  <2>2. h \in Handles /\ os[h] \in Plain!OpenFile BY <1>1, <2>1
  <2>3. n \in 0 .. FileSize /\ os[h].at + n \in Plain!Positions
    BY <1>2, <2>2, AvailableRange
  <2>4. answer' \in Plain!Answers BY <2>1, <2>2, <2>3, AnswerTypes
  <2>5. os' = [os EXCEPT ![h].at = os[h].at + n]
    BY <2>1
  <2> HIDE DEF n
  <2> QED BY <2>1, <2>2, <2>3, <2>4, <2>5, PositionKeeps
<1>5. ASSUME NEW method \in Plain!Methods, NEW distance \in Plain!Distances,
             HookedSetFilePointerEx(t, method, distance)
      PROVE  Inv'
  <2> DEFINE position == NewPosition(buffered[h], method, distance)
  <2>1. /\ step[t] = "hook" /\ call[t] = "SetFilePointerEx" /\ buffered[h] # NoFile /\ Return(t)
        /\ UNCHANGED <<installed, hooked, stored, enabled, os>>
        /\ buffered' = IF position = -1 THEN buffered
                       ELSE [buffered EXCEPT ![h].at = position]
        /\ answer' = Plain!Sought(h, position)
    BY <1>5 DEF HookedSetFilePointerEx, Serving, installVars
  <2>2. h \in Handles /\ buffered[h] \in Plain!OpenFile BY <1>1, <2>1
  <2>3. position \in Plain!Positions \union {-1} BY <2>2, NewPositionType
  <2>4. answer' \in Plain!Answers BY <2>1, <2>2, <2>3, AnswerTypes
  <2> HIDE DEF position
  <2>5. CASE position # -1
    BY <2>1, <2>3, <2>5, <2>2, <2>4, CursorKeeps
  <2>6. CASE position = -1
    BY <1>2, <2>2, <1>1, <2>1, <2>6, <2>4, CursorKeeps DEF Plain!OpenFile
  <2> QED BY <2>5, <2>6
<1>6. ASSUME NEW method \in Plain!Methods, NEW distance \in Plain!Distances,
             OriginalSetFilePointerEx(t, method, distance)
      PROVE  Inv'
  <2> DEFINE target == Plain!Base(os[h], method) + distance
  <2>1. /\ step[t] = "original" /\ call[t] = "SetFilePointerEx" /\ Return(t)
        /\ UNCHANGED <<installed, hooked, stored, enabled, buffered>>
        /\ IF target \in Plain!Positions
           THEN os' = [os EXCEPT ![h].at = target] /\ answer' = Plain!Sought(h, target)
           ELSE answer' = Plain!Sought(h, -1) /\ UNCHANGED os
    BY <1>6 DEF OriginalSetFilePointerEx, installVars
  <2>2. h \in Handles /\ os[h] \in Plain!OpenFile BY <1>1, <2>1
  <2>3. answer' \in Plain!Answers BY <2>1, <2>2, AnswerTypes
  <2> HIDE DEF target
  <2>4. CASE target \in Plain!Positions
    BY <2>1, <2>2, <2>3, <2>4, PositionKeeps
  <2>5. CASE target \notin Plain!Positions
    BY <1>2, <2>2, <1>1, <2>1, <2>5, <2>3, PositionKeeps DEF Plain!OpenFile
  <2> QED BY <2>4, <2>5
<1> QED BY <1>3, <1>4, <1>5, <1>6

(* Every step keeps the invariant.                                           *)
LEMMA InvStep == Inv /\ [CosaveNext]_cosaveVars => Inv'
<1> SUFFICES ASSUME Inv, [CosaveNext]_cosaveVars PROVE Inv'
  OBVIOUS
<1>1. CASE Install BY <1>1, InstallKeeps
<1>2. CASE UNCHANGED cosaveVars
  BY <1>2
  DEF cosaveVars, installVars, callVars, Inv, CosaveTypeOK, CallsInOrder, Alone, TracksFresh,
      NoBypass, BuffersMatch
<1>3. ASSUME NEW t \in Threads, Call(t) PROVE Inv'
  <2>1. buffered \in [Handles -> Plain!OpenFile \union {NoFile}] BY DEF Inv, CosaveTypeOK
  <2>2. ASSUME NEW import \in ImportNames, NEW h \in Handles \union {NoHandle},
               Enter(t, import, h)
        PROVE  Inv'
    BY <2>2, EnterKeeps
  <2>3. CASE PassOn(t)
    BY <2>3, <2>1, ForwardKeeps DEF PassOn, Inv, BuffersMatch, Go, installVars
  <2>4. CASE Unbuffered(t)
    BY <2>1, <2>4, ForwardKeeps DEF Unbuffered, Serving, Go, installVars
  <2>5. CASE HookedCloseHandle(t)
    BY <2>1, <2>5, ForwardKeeps DEF HookedCloseHandle, Serving, Go, installVars
  <2>6. CASE HookedCreateFile(t) \/ OriginalCreateFile(t) BY <2>6, OpenKeeps
  <2>7. CASE TrackReadFile(t) BY <2>7, TrackKeeps
  <2>8. CASE OriginalCloseHandle(t) BY <2>8, CloseKeeps
  <2> QED BY <1>3, <2>2, <2>3, <2>4, <2>5, <2>6, <2>7, <2>8, MoveKeeps DEF Call
<1> QED BY <1>1, <1>2, <1>3 DEF CosaveNext

(* The invariant holds.                                                      *)
LEMMA Invariance == CosaveSpec => []Inv
BY InvInitially, InvStep, PTL DEF CosaveSpec

(* Types: cursors, positions and answers stay in range whatever is read and   *)
(* sought (AdModuleCosaveIO.cpp).                                            *)
THEOREM TypeCorrect == CosaveSpec => []CosaveTypeOK
BY Invariance, PTL DEF Inv

(* No buffer outlives its handle, none is another file's: the order of         *)
(* HookedCloseHandle and the tracking before CreateFile returns see to it.    *)
THEOREM BuffersCurrent == CosaveSpec => []BuffersAreCurrent
<1>1. Inv => BuffersAreCurrent
  <2> SUFFICES ASSUME Inv, NEW h \in Handles, buffered[h] # NoFile
               PROVE  /\ enabled
                      /\ Held(h) \/ \E t \in Threads : handle[t] = h /\ step[t] = "hook"
                      /\ os[h] = [file |-> buffered[h].file, at |-> 0]
                      /\ buffered[h].file \in Cosaves
    BY DEF BuffersAreCurrent
  <2>1. /\ enabled /\ os[h] = [file |-> buffered[h].file, at |-> 0]
        /\ buffered[h].file \in Cosaves
    BY DEF Inv, BuffersMatch
  <2>2. buffered[h] \in Plain!OpenFile /\ os[h] \in Plain!OpenFile \union {NoFile}
    BY DEF Inv, CosaveTypeOK
  <2>3. os[h] # NoFile
    BY <2>1, <2>2, FreeOrOpen DEF Plain!OpenFile
  <2>4. ASSUME ~Held(h) PROVE \E t \in Threads : handle[t] = h /\ step[t] = "hook"
    <3>1. PICK t \in Threads : handle[t] = h /\ (step[t] = "track" \/ call[t] = "CloseHandle")
      BY <2>3, <2>4 DEF Held
    <3>2. step[t] # "track" /\ step[t] # "original" /\ step[t] # "out" /\ step[t] \in Steps
      BY <3>1, FreeOrOpen DEF Inv, TracksFresh, NoBypass, CallsInOrder, CosaveTypeOK
    <3> QED BY <3>1, <3>2 DEF Steps
  <2> QED BY <2>1, <2>4
<1> QED BY <1>1, Invariance, PTL
-------------------------------------------------------------------------------
Seen == [h \in Handles |-> Visible(h)]

(* What callers see of a handle that a returning thread does not work on.     *)
LEMMA OthersVisible ==
  ASSUME Inv, NEW t \in Threads, Return(t), NEW g \in Handles, g # handle[t],
         os'[g] = os[g], buffered'[g] = buffered[g]
  PROVE  Visible(g)' = Visible(g)
  BY FreeOrOpen DEF Return, Go, Inv, CosaveTypeOK, Held, Visible

(* A call that reads or seeks works on a handle its caller sees, before and    *)
(* after.                                                                    *)
LEMMA HeldInCall ==
  ASSUME Inv, NEW t \in Threads, NEW h \in Handles, handle[t] = h, step[t] # "track",
         call[t] # "CloseHandle", Return(t), os'[h] # NoFile
  PROVE  Held(h) /\ Held(h)'
  BY FreeOrOpen DEF Return, Go, Inv, Alone, CallsInOrder, Held, CosaveTypeOK

(* A handle nobody works on is seen as Windows has it, or as buffered.        *)
LEMMA SeenAlone ==
  ASSUME NEW h \in Handles, \A u \in Threads : handle[u] # h
  PROVE  Held(h) <=> os[h] # NoFile
BY DEF Held

(* One handle changes for its callers.                                       *)
LEMMA OneSeen ==
  ASSUME NEW h \in Handles, \A g \in Handles \ {h} : Visible(g)' = Visible(g)
  PROVE  Seen' = [Seen EXCEPT ![h] = Visible(h)']
  BY DEF Seen

(* Nothing changes for callers.                                              *)
LEMMA NoneSeen ==
  ASSUME \A g \in Handles : Visible(g)' = Visible(g)
  PROVE  Seen' = Seen
BY DEF Seen

(* Steps of the installation and of a thread inside its call are not seen; a   *)
(* CloseHandle is seen when it is called.                                    *)
LEMMA EnterSeen ==
  ASSUME Inv, NEW t \in Threads, NEW import \in ImportNames,
         NEW h \in Handles \union {NoHandle}, Enter(t, import, h)
  PROVE  Seen' = Seen \/ \E g \in Handles : Plain!Close(g)
<1>1. /\ UNCHANGED <<os, buffered, answer>>
      /\ step[t] = "out" /\ handle[t] = NoHandle
      /\ call' = [call EXCEPT ![t] = import] /\ handle' = [handle EXCEPT ![t] = h]
      /\ step' = [step EXCEPT ![t] = IF import \in hooked THEN "hook" ELSE "original"]
      /\ import \notin Creates => h \in Handles /\ Held(h)
      /\ import \in Creates <=> h = NoHandle
  BY FreeOrOpen DEF Enter, Go, installVars, Inv, CallsInOrder
<1>2. \A g \in Handles : g # h \/ import # "CloseHandle" => (Held(g)' <=> Held(g))
  BY <1>1, FreeOrOpen DEF Inv, CosaveTypeOK, Held
<1>3. \A g \in Handles : g # h \/ import # "CloseHandle" => Visible(g)' = Visible(g)
  BY <1>1, <1>2 DEF Visible
<1>4. CASE h = NoHandle \/ import # "CloseHandle"
  BY <1>3, <1>4, FreeOrOpen, NoneSeen
<1>5. CASE h \in Handles /\ import = "CloseHandle"
  <2>1. Held(h) BY <1>1, <1>5 DEF Creates
  <2>2. handle'[t] = h /\ call'[t] = "CloseHandle"
    BY <1>1, <1>5 DEF Inv, CosaveTypeOK
  <2>3. Visible(h)' = NoFile
    BY <2>2 DEF Held, Visible
  <2>4. Seen' = [Seen EXCEPT ![h] = NoFile] BY <1>3, <1>5, <2>3, OneSeen
  <2>5. Seen[h] # NoFile BY <1>5, <2>1 DEF Seen, Visible, Held
  <2> QED BY <1>1, <1>5, <2>4, <2>5 DEF Plain!Close, Seen
<1> QED BY <1>4, <1>5

(* Going on inside a call is not seen.                                       *)
LEMMA ForwardUnseen ==
  ASSUME Inv, NEW t \in Threads, step[t] = "hook",
         step' = [step EXCEPT ![t] = "original"],
         UNCHANGED <<os, call, handle>>,
         \A h \in Handles : Held(h) => buffered'[h] = buffered[h]
  PROVE  Seen' = Seen
  BY NoneSeen DEF Inv, CosaveTypeOK, Held, Visible

(* A file is seen open when CreateFile returns, at its start: at once, or      *)
(* after it has been tracked.                                                *)
LEMMA OpenSeen ==
  ASSUME Inv, NEW t \in Threads, HookedCreateFile(t) \/ OriginalCreateFile(t)
  PROVE  \/ Seen' = Seen /\ answer' = answer
         \/ Plain!OpenFails
         \/ \E h \in Handles, f \in Files : Plain!Open(h, f)
<1>1. /\ call[t] \in Creates /\ step[t] \in {"hook", "original"} /\ handle[t] = NoHandle
      /\ UNCHANGED <<installed, hooked, stored, enabled, buffered>>
  BY DEF HookedCreateFile, OriginalCreateFile, Serving, CreateFails, installVars,
     Inv, CallsInOrder
<1>2. CASE CreateFails(t)
  BY <1>1, <1>2, OthersVisible, FreeOrOpen, NoneSeen DEF CreateFails, Plain!OpenFails,
     Plain!Opened, Seen
<1>3. ASSUME NEW h \in Handles, NEW f \in Files, CreateOriginal(h, f)
      PROVE  /\ os[h] = NoFile /\ buffered'[h] = NoFile
             /\ \A u \in Threads : handle[u] # h
             /\ os'[h] = [file |-> f, at |-> 0] /\ os'[h] # NoFile
             /\ \A g \in Handles \ {h} : os'[g] = os[g]
             /\ Visible(h) = NoFile
  BY <1>1, <1>3, CreateKeeps DEF Inv, CosaveTypeOK, Visible, Held
<1>4. ASSUME NEW h \in Handles, NEW f \in Files, CreateOriginal(h, f),
             Return(t), answer' = Plain!Opened(h, f)
      PROVE  Plain!Open(h, f)
  <2>1. \A g \in Handles \ {h} : Visible(g)' = Visible(g)
    BY ZenonT(40), <1>1, <1>3, <1>4, OthersVisible, FreeOrOpen
  <2>2. \A u \in Threads : handle'[u] # h
    BY <1>3, <1>4, FreeOrOpen DEF Return, Inv, CosaveTypeOK
  <2>3. Held(h)' BY <1>3, <1>4, <2>2 DEF Held
  <2>4. Visible(h)' = [file |-> f, at |-> 0] BY <1>3, <1>4, <2>3 DEF Visible
  <2>5. Seen' = [Seen EXCEPT ![h] = [file |-> f, at |-> 0]] BY <2>1, <2>4, OneSeen
  <2>6. Seen[h] = NoFile BY <1>3, <1>4 DEF Seen
  <2> QED BY <1>4, <2>5, <2>6 DEF Plain!Open, Seen
<1>5. ASSUME NEW h \in Handles, NEW f \in Files, CreateOriginal(h, f),
             Go(t, "track"), UNCHANGED <<call, answer>>, handle' = [handle EXCEPT ![t] = h]
      PROVE  Seen' = Seen /\ answer' = answer
  <2>1. step' = [step EXCEPT ![t] = "track"] BY <1>5 DEF Go
  <2>2. \A g \in Handles \ {h} : Held(g)' <=> Held(g)
    <3>1. handle'[t] = h /\ \A u \in Threads \ {t} : handle'[u] = handle[u] /\ step'[u] = step[u]
      BY <1>5, <2>1 DEF Inv, CosaveTypeOK
    <3>2. \A g \in Handles \ {h} : os'[g] = os[g] BY <1>3, <1>5
    <3>3. ASSUME NEW g \in Handles \ {h} PROVE Held(g)' <=> Held(g)
      BY <1>1, <1>5, <3>1, <3>2, FreeOrOpen DEF Held
    <3> QED BY <3>3
  <2>3. \A g \in Handles \ {h} : Visible(g)' = Visible(g)
    BY <1>1, <1>3, <1>5, <2>2 DEF Visible
  <2>4. ~Held(h)'
    BY <1>5, <2>1 DEF Inv, CosaveTypeOK, Held
  <2>5. Visible(h)' = Visible(h) BY <1>3, <1>5, <2>4 DEF Visible
  <2>6. \A g \in Handles : Visible(g)' = Visible(g) BY <2>3, <2>5
  <2> QED BY <1>5, <2>6, NoneSeen
<1> QED BY <1>2, <1>4, <1>5 DEF HookedCreateFile, OriginalCreateFile

(* Tracked or not, the file is seen at its start.                            *)
LEMMA TrackSeen ==
  ASSUME Inv, NEW t \in Threads, TrackReadFile(t)
  PROVE  \E h \in Handles, f \in Files : Plain!Open(h, f)
<1>1. /\ step[t] = "track" /\ handle[t] \in Handles
      /\ os[handle[t]] \in Plain!OpenFile /\ os[handle[t]].at = 0
  BY DEF TrackReadFile, Inv, CosaveTypeOK, CallsInOrder, TracksFresh
<1>2. PICK h \in Handles, f \in Files : h = handle[t] /\ os[h] = [file |-> f, at |-> 0]
  BY <1>1 DEF Plain!OpenFile
<1>3. /\ Return(t) /\ UNCHANGED os /\ answer' = Plain!Opened(h, f)
      /\ \/ buffered' = [buffered EXCEPT ![h] = [file |-> f, at |-> 0]]
         \/ buffered' = buffered
  BY <1>2 DEF TrackReadFile
<1>4. /\ buffered \in [Handles -> Plain!OpenFile \union {NoFile}]
      /\ buffered[h] = NoFile /\ os[h] # NoFile
      /\ [file |-> f, at |-> 0] # NoFile
      /\ \A u \in Threads \ {t} : handle[u] # h
  BY <1>1, <1>2, FreeOrOpen DEF Inv, CosaveTypeOK, CallsInOrder, Alone, TracksFresh
<1>5. \A g \in Handles \ {h} : Visible(g)' = Visible(g)
  BY <1>2, <1>3, <1>4, OthersVisible
<1>6. Visible(h) = NoFile
  BY <1>1, <1>2 DEF Visible, Held
<1>7. \A u \in Threads : handle'[u] # h
  BY <1>3, <1>4, FreeOrOpen DEF Return, Inv, CosaveTypeOK
<1>8. Held(h)' BY <1>3, <1>4, <1>7 DEF Held
<1>9. Visible(h)' = [file |-> f, at |-> 0]
  BY <1>2, <1>3, <1>4, <1>8 DEF Visible
<1>10. Seen' = [Seen EXCEPT ![h] = [file |-> f, at |-> 0]] BY <1>5, <1>9, OneSeen
<1>11. Seen[h] = NoFile BY <1>6 DEF Seen
<1> QED BY <1>3, <1>10, <1>11 DEF Plain!Open, Seen

(* The handle was gone for its callers before Windows closes it.             *)
LEMMA CloseUnseen ==
  ASSUME Inv, NEW t \in Threads, OriginalCloseHandle(t)
  PROVE  Seen' = Seen
<1>1. /\ step[t] = "original" /\ call[t] = "CloseHandle" /\ Return(t) /\ UNCHANGED buffered
      /\ os' = [os EXCEPT ![handle[t]] = NoFile]
      /\ os \in [Handles -> Plain!OpenFile \union {NoFile}]
      /\ handle[t] \in Handles
  BY DEF OriginalCloseHandle, Inv, CosaveTypeOK, CallsInOrder, Creates
<1>2. PICK h \in Handles : h = handle[t] BY <1>1
<1>3. \A g \in Handles \ {h} : Visible(g)' = Visible(g)
  BY <1>1, <1>2, OthersVisible
<1>4. Visible(h) = NoFile BY <1>1, <1>2 DEF Visible, Held
<1>5. os'[h] = NoFile BY <1>1, <1>2
<1>6. Visible(h)' = NoFile BY <1>5 DEF Visible, Held
<1>7. \A g \in Handles : Visible(g)' = Visible(g) BY <1>3, <1>4, <1>6
<1> QED BY <1>7, NoneSeen
(* A read from the buffer, or past it, gives the bytes of the file.            *)
LEMMA ReadSeen ==
  ASSUME Inv, NEW t \in Threads, NEW wanted \in 0 .. MaxRead,
         HookedReadFile(t, wanted) \/ OriginalReadFile(t, wanted)
  PROVE  \E h \in Handles : Plain!Read(h, wanted)
<1>1. /\ Return(t) /\ step[t] \in {"hook", "original"} /\ call[t] = "ReadFile"
      /\ handle[t] \in Handles
      /\ os[handle[t]] \in Plain!OpenFile
      /\ os \in [Handles -> Plain!OpenFile \union {NoFile}]
      /\ buffered \in [Handles -> Plain!OpenFile \union {NoFile}]
  BY DEF HookedReadFile, OriginalReadFile, Serving, Inv, CosaveTypeOK, CallsInOrder, Creates
<1>2. PICK h \in Handles : h = handle[t] BY <1>1
<1>3. \A entry \in Plain!OpenFile : [entry EXCEPT !.at = entry.at + Plain!Available(entry.at, wanted)] \in Plain!OpenFile
  BY AvailableRange DEF Plain!OpenFile
<1>4. ASSUME NEW entry \in Plain!OpenFile, Visible(h) = entry,
             Visible(h)' = [entry EXCEPT !.at = entry.at + Plain!Available(entry.at, wanted)],
             answer' = Plain!Bytes(h, entry, Plain!Available(entry.at, wanted)),
             \A g \in Handles \ {h} : Visible(g)' = Visible(g)
      PROVE  Plain!Read(h, wanted)
  BY <1>4, OneSeen, FreeOrOpen DEF Seen, Plain!Read
<1>5. CASE HookedReadFile(t, wanted)
  <2> DEFINE entry == buffered[h]
  <2>1. /\ entry \in Plain!OpenFile /\ buffered[h] # NoFile /\ UNCHANGED os
        /\ buffered' = [buffered EXCEPT ![h].at = @ + Plain!Available(entry.at, wanted)]
        /\ answer' = Plain!Bytes(h, entry, Plain!Available(entry.at, wanted))
    BY <1>1, <1>2, <1>5 DEF HookedReadFile
  <2>2. /\ buffered'[h] = [entry EXCEPT !.at = entry.at + Plain!Available(entry.at, wanted)]
        /\ \A g \in Handles \ {h} : buffered'[g] = buffered[g]
    BY <1>1, <2>1
  <2>3. buffered'[h] # NoFile BY <1>3, <2>1, <2>2, FreeOrOpen
  <2>4. Held(h) /\ Held(h)' BY <1>1, <1>2, <2>1, FreeOrOpen, HeldInCall
  <2>5. \A g \in Handles \ {h} : Visible(g)' = Visible(g)
    BY <1>1, <1>2, <2>1, <2>2, OthersVisible
  <2>6. Visible(h) = entry /\ Visible(h)' = [entry EXCEPT !.at = entry.at + Plain!Available(entry.at, wanted)]
    BY <2>1, <2>2, <2>3, <2>4 DEF Visible
  <2> QED BY <1>4, <2>1, <2>5, <2>6
<1>6. CASE OriginalReadFile(t, wanted)
  <2> DEFINE entry == os[h]
  <2>1. /\ entry \in Plain!OpenFile /\ buffered[h] = NoFile /\ UNCHANGED buffered
        /\ os' = [os EXCEPT ![h].at = @ + Plain!Available(entry.at, wanted)]
        /\ answer' = Plain!Bytes(h, entry, Plain!Available(entry.at, wanted))
    BY <1>1, <1>2, <1>6 DEF OriginalReadFile, Inv, NoBypass
  <2>2. /\ os'[h] = [entry EXCEPT !.at = entry.at + Plain!Available(entry.at, wanted)]
        /\ \A g \in Handles \ {h} : os'[g] = os[g]
    BY <1>1, <2>1
  <2>3. os'[h] # NoFile BY <1>3, <2>1, <2>2, FreeOrOpen
  <2>4. Held(h) /\ Held(h)' BY <1>1, <1>2, <2>3, HeldInCall
  <2>5. \A g \in Handles \ {h} : Visible(g)' = Visible(g)
    BY <1>1, <1>2, <2>1, <2>2, OthersVisible
  <2>6. Visible(h) = entry /\ Visible(h)' = [entry EXCEPT !.at = entry.at + Plain!Available(entry.at, wanted)]
    BY <2>1, <2>2, <2>4 DEF Visible
  <2> QED BY <1>4, <2>1, <2>5, <2>6
<1> QED BY <1>5, <1>6

(* A seek moves the cursor, or Windows' position, to the same place.           *)
LEMMA SeekSeen ==
  ASSUME Inv, NEW t \in Threads, NEW method \in Plain!Methods, NEW distance \in Plain!Distances,
         \/ HookedSetFilePointerEx(t, method, distance)
         \/ OriginalSetFilePointerEx(t, method, distance)
  PROVE  \E h \in Handles : Plain!Seek(h, method, distance)
<1>1. /\ Return(t) /\ step[t] \in {"hook", "original"} /\ call[t] = "SetFilePointerEx"
      /\ handle[t] \in Handles
      /\ os[handle[t]] \in Plain!OpenFile
      /\ os \in [Handles -> Plain!OpenFile \union {NoFile}]
      /\ buffered \in [Handles -> Plain!OpenFile \union {NoFile}]
  BY DEF HookedSetFilePointerEx, OriginalSetFilePointerEx, Serving, Inv, CosaveTypeOK,
     CallsInOrder, Creates
<1>2. PICK h \in Handles : h = handle[t] BY <1>1
<1>3. ASSUME NEW entry \in Plain!OpenFile, NEW target, target = Plain!Base(entry, method) + distance,
             Visible(h) = entry,
             Visible(h)' = IF target \in Plain!Positions THEN [entry EXCEPT !.at = target] ELSE entry,
             answer' = Plain!Sought(h, IF target \in Plain!Positions THEN target ELSE -1),
             \A g \in Handles \ {h} : Visible(g)' = Visible(g)
      PROVE  Plain!Seek(h, method, distance)
  BY <1>3, FreeOrOpen, OneSeen, NoneSeen DEF Seen, Plain!Seek
<1>4. CASE HookedSetFilePointerEx(t, method, distance)
  <2> DEFINE entry == buffered[h]
             position == NewPosition(entry, method, distance)
  <2>1. /\ entry \in Plain!OpenFile /\ buffered[h] # NoFile /\ UNCHANGED os
        /\ buffered' = IF position = -1 THEN buffered ELSE [buffered EXCEPT ![h].at = position]
        /\ answer' = Plain!Sought(h, position)
    BY <1>1, <1>2, <1>4 DEF HookedSetFilePointerEx
  <2>2. PICK target : target = Plain!Base(entry, method) + distance OBVIOUS
  <2>3. /\ position = IF target \in Plain!Positions THEN target ELSE -1
        /\ -1 \notin Plain!Positions
    BY <2>1, <2>2, NewPositionIsTarget DEF Plain!Positions
  <2> HIDE DEF position
  <2>4. /\ buffered'[h] = IF target \in Plain!Positions THEN [entry EXCEPT !.at = target] ELSE entry
        /\ \A g \in Handles \ {h} : buffered'[g] = buffered[g]
    BY <1>1, <2>1, <2>3
  <2>5. buffered'[h] # NoFile BY <2>1, <2>4, FreeOrOpen DEF Plain!OpenFile
  <2>6. Held(h) /\ Held(h)' BY <1>1, <1>2, <2>1, FreeOrOpen, HeldInCall
  <2>7. \A g \in Handles \ {h} : Visible(g)' = Visible(g)
    BY <1>1, <1>2, <2>1, <2>4, OthersVisible
  <2>8. /\ Visible(h) = entry
        /\ Visible(h)' = IF target \in Plain!Positions THEN [entry EXCEPT !.at = target] ELSE entry
    BY <2>1, <2>4, <2>5, <2>6 DEF Visible
  <2> QED BY <1>3, <2>1, <2>2, <2>3, <2>7, <2>8
<1>5. CASE OriginalSetFilePointerEx(t, method, distance)
  <2> DEFINE entry == os[h]
  <2>2. PICK target : target = Plain!Base(entry, method) + distance OBVIOUS
  <2>1. /\ entry \in Plain!OpenFile /\ buffered[h] = NoFile /\ UNCHANGED buffered
        /\ IF target \in Plain!Positions
           THEN os' = [os EXCEPT ![h].at = target] /\ answer' = Plain!Sought(h, target)
           ELSE answer' = Plain!Sought(h, -1) /\ UNCHANGED os
    BY <1>1, <1>2, <1>5, <2>2 DEF OriginalSetFilePointerEx, Inv, NoBypass
  <2>4. /\ os'[h] = IF target \in Plain!Positions THEN [entry EXCEPT !.at = target] ELSE entry
        /\ \A g \in Handles \ {h} : os'[g] = os[g]
        /\ answer' = Plain!Sought(h, IF target \in Plain!Positions THEN target ELSE -1)
    BY <1>1, <2>1
  <2>5. os'[h] # NoFile BY <2>1, <2>4, FreeOrOpen DEF Plain!OpenFile
  <2>6. Held(h) /\ Held(h)' BY <1>1, <1>2, <2>5, HeldInCall
  <2>7. \A g \in Handles \ {h} : Visible(g)' = Visible(g)
    BY <1>1, <1>2, <2>1, <2>4, OthersVisible
  <2>8. /\ Visible(h) = entry
        /\ Visible(h)' = IF target \in Plain!Positions THEN [entry EXCEPT !.at = target] ELSE entry
    BY <2>1, <2>4, <2>5, <2>6 DEF Visible
  <2> QED BY <1>3, <2>1, <2>2, <2>4, <2>7, <2>8
<1> QED BY <1>4, <1>5

(* Every step is one of plain file handles, or not seen.                     *)
LEMMA PlainStep == Inv /\ [CosaveNext]_cosaveVars => [Plain!FilesNext]_Plain!filesVars
<1> SUFFICES ASSUME Inv, [CosaveNext]_cosaveVars
             PROVE  Plain!FilesNext \/ (Seen' = Seen /\ answer' = answer)
  BY DEF Plain!filesVars, Seen
<1>1. CASE Install \/ UNCHANGED cosaveVars
  BY <1>1, NoneSeen DEF Install, HookImport, StoreOriginal, Enable, cosaveVars, callVars,
     Visible, Held
<1>2. ASSUME NEW t \in Threads, Call(t)
      PROVE  Plain!FilesNext \/ (Seen' = Seen /\ answer' = answer)
  <2>1. ASSUME NEW import \in ImportNames, NEW h \in Handles \union {NoHandle},
               Enter(t, import, h)
        PROVE  Plain!FilesNext \/ (Seen' = Seen /\ answer' = answer)
    BY <2>1, EnterSeen DEF Enter, Plain!FilesNext
  <2>2. CASE PassOn(t) \/ Unbuffered(t)
    BY <2>2, ForwardUnseen DEF PassOn, Unbuffered, Serving, Go
  <2>3. CASE HookedCloseHandle(t)
    BY <2>3, ForwardUnseen DEF HookedCloseHandle, Serving, Go, Held, Inv, CosaveTypeOK
  <2>4. CASE HookedCreateFile(t) \/ OriginalCreateFile(t)
    BY <2>4, OpenSeen DEF Plain!FilesNext
  <2>5. CASE TrackReadFile(t)
    BY <2>5, TrackSeen DEF Plain!FilesNext
  <2>6. CASE OriginalCloseHandle(t)
    BY <2>6, CloseUnseen DEF OriginalCloseHandle
  <2>7. ASSUME NEW wanted \in 0 .. MaxRead, HookedReadFile(t, wanted) \/ OriginalReadFile(t, wanted)
        PROVE  Plain!FilesNext
    BY <2>7, ReadSeen DEF Plain!FilesNext
  <2>8. ASSUME NEW method \in Plain!Methods, NEW distance \in Plain!Distances,
               \/ HookedSetFilePointerEx(t, method, distance)
               \/ OriginalSetFilePointerEx(t, method, distance)
        PROVE  Plain!FilesNext
    BY <2>8, SeekSeen DEF Plain!FilesNext
  <2> QED BY <1>2, <2>1, <2>2, <2>3, <2>4, <2>5, <2>6, <2>7, <2>8 DEF Call
<1> QED BY <1>1, <1>2 DEF CosaveNext

(* F4SE cannot tell the buffers from the files: for any number of threads,     *)
(* handles and files, whatever is called during the installation or after it, *)
(* every answer is one plain file handles give (the hooks of                   *)
(* AdModuleCosaveIO.cpp against Windows' functions).                         *)
THEOREM ImplementsPlainFiles == CosaveSpec => PlainFilesImplemented
<1>1. CosaveInit => Plain!FilesInit
  BY DEF CosaveInit, Plain!FilesInit, Visible, Held
<1> QED BY <1>1, PlainStep, Invariance, PTL DEF CosaveSpec, PlainFilesImplemented, Plain!FilesSpec
===============================================================================
