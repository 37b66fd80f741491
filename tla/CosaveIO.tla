------------------------------- MODULE CosaveIO -------------------------------
(***************************************************************************)
(* The co-save read buffer (AdModuleCosaveIO.cpp).  Hooks on the five file  *)
(* imports of F4SE read a whole co-save when it is opened for reading, and  *)
(* answer reads and seeks from memory with a cursor of their own, while the *)
(* handle stays open.  Threads call at any time, during the installation of *)
(* the hooks as well; handle numbers are used again.  The arguments of a    *)
(* call are chosen when they are first used.                                *)
(*                                                                         *)
(* A caller uses a handle it has been given until it closes it, once, with  *)
(* no other call on it under way; a co-save is not written while it is open *)
(* for reading (F4SE opens it without write sharing), is never read with an *)
(* OVERLAPPED, and putting the file pointer of an open file back to its     *)
(* start does not fail.                                                     *)
(***************************************************************************)
EXTENDS Integers, Sequences

CONSTANTS Threads,             \* the threads of the game that call F4SE
          Handles, NoHandle,   \* handle numbers, and INVALID_HANDLE_VALUE
          Files, Cosaves,      \* all files, and those named *.f4se
          NoFile,              \* nothing open, nothing buffered
          FileSize,            \* the length of a file
          LastPosition,        \* the largest signed 64-bit position
          MaxRead              \* the most bytes one read asks for

ASSUME CosaveAssumption ==
    /\ Cosaves \subseteq Files
    /\ FileSize \in Nat /\ LastPosition \in Nat /\ MaxRead \in Nat
    /\ FileSize <= LastPosition
    /\ NoHandle \notin Handles
    /\ NoFile \notin Files \union [file : Files, at : 0 .. LastPosition]

VARIABLES installed,   \* how many imports the installation has gone through
          hooked,      \* imports whose slot holds the hook
          stored,      \* imports whose original the hook can call
          enabled,     \* s_enabled
          os,          \* what each handle has open, and Windows' position in it
          buffered,    \* s_files: the buffered file and its cursor
          step,        \* where each thread is in its call
          call,        \* the import it called
          handle,      \* the handle it works on
          answer       \* the answer of the last call that gave one

installVars == <<installed, hooked, stored, enabled>>
callVars == <<step, call, handle>>
cosaveVars == <<installVars, os, buffered, callVars, answer>>

Imports == <<"CreateFileA", "ReadFile", "SetFilePointerEx", "CloseHandle", "CreateFileW">>
ImportNames == {Imports[i] : i \in 1 .. 5}
Required == ImportNames \ {"CreateFileW"}
Creates == {"CreateFileA", "CreateFileW"}

\* Handles a caller holds: open, not on their way to it, not given to CloseHandle.
Held(h) ==
    /\ os[h] # NoFile
    /\ \A t \in Threads :
          handle[t] = h => step[t] # "track" /\ call[t] # "CloseHandle"

\* The file and position a caller sees.
Visible(h) == IF ~Held(h) THEN NoFile
              ELSE IF buffered[h] # NoFile THEN buffered[h] ELSE os[h]

Plain == INSTANCE PlainFiles WITH opened <- [h \in Handles |-> Visible(h)]
-------------------------------------------------------------------------------
CosaveInit ==
    /\ installed = 0 /\ hooked = {} /\ stored = {} /\ enabled = FALSE
    /\ os = [h \in Handles |-> NoFile]
    /\ buffered = [h \in Handles |-> NoFile]
    /\ step = [t \in Threads |-> "out"]
    /\ call = [t \in Threads |-> "none"]
    /\ handle = [t \in Threads |-> NoHandle]
    /\ answer = Plain!Opened(NoHandle, NoFile)

\* DoInstall: DetourIAT puts a hook into the next slot, or fails to.
HookImport ==
    /\ installed < 5 /\ Imports[installed + 1] \notin hooked
    /\ \/ /\ hooked' = hooked \union {Imports[installed + 1]}
          /\ UNCHANGED installed
       \/ installed' = installed + 1 /\ UNCHANGED hooked
    /\ UNCHANGED <<stored, enabled, os, buffered, callVars, answer>>

\* DoInstall: the original is stored after the hook can be called.
StoreOriginal ==
    /\ installed < 5 /\ Imports[installed + 1] \in hooked
    /\ stored' = stored \union {Imports[installed + 1]}
    /\ installed' = installed + 1
    /\ UNCHANGED <<hooked, enabled, os, buffered, callVars, answer>>

Enable ==
    /\ installed = 5 /\ ~enabled /\ Required \subseteq hooked
    /\ enabled' = TRUE
    /\ UNCHANGED <<installed, hooked, stored, os, buffered, callVars, answer>>
-------------------------------------------------------------------------------
Go(t, s) == step' = [step EXCEPT ![t] = s]

Return(t) ==
    /\ Go(t, "out")
    /\ call' = [call EXCEPT ![t] = "none"]
    /\ handle' = [handle EXCEPT ![t] = NoHandle]

\* A call of F4SE through its import table.
Enter(t, import, h) ==
    /\ step[t] = "out"
    /\ IF import \in Creates THEN h = NoHandle
       ELSE /\ h \in Handles /\ Held(h)
            /\ import = "CloseHandle" => \A u \in Threads : handle[u] # h
    /\ call' = [call EXCEPT ![t] = import]
    /\ handle' = [handle EXCEPT ![t] = h]
    /\ Go(t, IF import \in hooked THEN "hook" ELSE "original")
    /\ UNCHANGED <<installVars, os, buffered, answer>>

\* WaitForOriginal, then the hook passes the call on: nothing is enabled yet.
PassOn(t) ==
    /\ step[t] = "hook" /\ call[t] \in stored /\ ~enabled
    /\ Go(t, "original")
    /\ UNCHANGED <<installVars, os, buffered, call, handle, answer>>

Serving(t, import) ==
    step[t] = "hook" /\ call[t] = import /\ call[t] \in stored /\ enabled
-------------------------------------------------------------------------------
CreateOriginal(h, f) ==
    /\ os[h] = NoFile
    /\ os' = [os EXCEPT ![h] = [file |-> f, at |-> 0]]

CreateFails(t) ==
    /\ Return(t)
    /\ answer' = Plain!Opened(NoHandle, NoFile)
    /\ UNCHANGED <<installVars, os, buffered>>

\* HookedCreateFileA and W: a co-save opened to be read is tracked.
HookedCreateFile(t) ==
    /\ \E import \in Creates : Serving(t, import)
    /\ \/ CreateFails(t)
       \/ \E h \in Handles, f \in Files, readOnly \in BOOLEAN :
             /\ CreateOriginal(h, f)
             /\ IF f \in Cosaves /\ readOnly
                THEN /\ Go(t, "track") /\ UNCHANGED <<call, answer>>
                     /\ handle' = [handle EXCEPT ![t] = h]
                ELSE Return(t) /\ answer' = Plain!Opened(h, f)
             /\ UNCHANGED <<installVars, buffered>>

\* A mutant of TrackReadFile: the file is left at its end when it is not buffered.
TrackWithoutReset(t) ==
    /\ step[t] = "track"
    /\ \/ /\ buffered' = [buffered EXCEPT ![handle[t]] =
                             [file |-> os[handle[t]].file, at |-> 0]]
          /\ UNCHANGED os
       \/ os' = [os EXCEPT ![handle[t]].at = FileSize] /\ UNCHANGED buffered
    /\ Return(t)
    /\ answer' = Plain!Opened(handle[t], os[handle[t]].file)
    /\ UNCHANGED installVars

\* TryBufferReadFile and the insertion: any failure leaves the file unbuffered,
\* at its start.
TrackReadFile(t) ==
    /\ step[t] = "track"
    /\ \/ buffered' = [buffered EXCEPT ![handle[t]] =
                          [file |-> os[handle[t]].file, at |-> 0]]
       \/ UNCHANGED buffered
    /\ Return(t)
    /\ answer' = Plain!Opened(handle[t], os[handle[t]].file)
    /\ UNCHANGED <<installVars, os>>

\* ReadFile and SetFilePointerEx: handles without a buffer go to Windows.
Unbuffered(t) ==
    /\ \E import \in {"ReadFile", "SetFilePointerEx"} : Serving(t, import)
    /\ buffered[handle[t]] = NoFile
    /\ Go(t, "original")
    /\ UNCHANGED <<installVars, os, buffered, call, handle, answer>>

HookedReadFile(t, wanted) ==
    LET h == handle[t]
        n == Plain!Available(buffered[h].at, wanted) IN
    /\ Serving(t, "ReadFile") /\ buffered[h] # NoFile
    /\ buffered' = [buffered EXCEPT ![h].at = @ + n]
    /\ answer' = Plain!Bytes(h, buffered[h], n)
    /\ Return(t)
    /\ UNCHANGED <<installVars, os>>

\* Unsigned 64-bit base, signed offset; -1 stands for the two kinds of refusal.
AddOffset(base, offset) ==
    IF offset < 0
    THEN LET magnitude == -(offset + 1) + 1 IN
         IF base < magnitude THEN -1 ELSE base - magnitude
    ELSE IF base > 2 * LastPosition + 1 - offset THEN -1 ELSE base + offset

\* A mutant of NewPosition: positions past the largest signed one are taken.
NewPositionUnlimited(entry, method, distance) ==
    CASE method = "begin" -> IF distance < 0 THEN -1 ELSE distance
      [] method = "current" -> AddOffset(entry.at, distance)
      [] method = "end" -> AddOffset(FileSize, distance)

NewPosition(entry, method, distance) ==
    LET position == CASE method = "begin" -> IF distance < 0 THEN -1 ELSE distance
                      [] method = "current" -> AddOffset(entry.at, distance)
                      [] method = "end" -> AddOffset(FileSize, distance)
    IN  IF position > LastPosition THEN -1 ELSE position

HookedSetFilePointerEx(t, method, distance) ==
    LET h == handle[t]
        position == NewPosition(buffered[h], method, distance) IN
    /\ Serving(t, "SetFilePointerEx") /\ buffered[h] # NoFile
    /\ buffered' = IF position = -1 THEN buffered
                   ELSE [buffered EXCEPT ![h].at = position]
    /\ answer' = Plain!Sought(h, position)
    /\ Return(t)
    /\ UNCHANGED <<installVars, os>>

\* A mutant of HookedCloseHandle: the buffer stays behind.
CloseKeepingBuffer(t) ==
    /\ Serving(t, "CloseHandle")
    /\ Go(t, "original")
    /\ UNCHANGED <<installVars, os, buffered, call, handle, answer>>

\* HookedCloseHandle: the buffer goes before the handle number is free.
HookedCloseHandle(t) ==
    /\ Serving(t, "CloseHandle")
    /\ buffered' = [buffered EXCEPT ![handle[t]] = NoFile]
    /\ Go(t, "original")
    /\ UNCHANGED <<installVars, os, call, handle, answer>>
-------------------------------------------------------------------------------
\* The functions of Windows.
OriginalCreateFile(t) ==
    /\ step[t] = "original" /\ call[t] \in Creates
    /\ \/ CreateFails(t)
       \/ \E h \in Handles, f \in Files :
             /\ CreateOriginal(h, f) /\ Return(t)
             /\ answer' = Plain!Opened(h, f)
             /\ UNCHANGED <<installVars, buffered>>

OriginalReadFile(t, wanted) ==
    LET h == handle[t]
        n == Plain!Available(os[h].at, wanted) IN
    /\ step[t] = "original" /\ call[t] = "ReadFile"
    /\ os' = [os EXCEPT ![h].at = @ + n]
    /\ answer' = Plain!Bytes(h, os[h], n)
    /\ Return(t)
    /\ UNCHANGED <<installVars, buffered>>

OriginalSetFilePointerEx(t, method, distance) ==
    LET h == handle[t]
        target == Plain!Base(os[h], method) + distance IN
    /\ step[t] = "original" /\ call[t] = "SetFilePointerEx"
    /\ IF target \in Plain!Positions
       THEN os' = [os EXCEPT ![h].at = target] /\ answer' = Plain!Sought(h, target)
       ELSE answer' = Plain!Sought(h, -1) /\ UNCHANGED os
    /\ Return(t)
    /\ UNCHANGED <<installVars, buffered>>

OriginalCloseHandle(t) ==
    /\ step[t] = "original" /\ call[t] = "CloseHandle"
    /\ os' = [os EXCEPT ![handle[t]] = NoFile]
    /\ Return(t)
    /\ UNCHANGED <<installVars, buffered, answer>>
-------------------------------------------------------------------------------
Install == HookImport \/ StoreOriginal \/ Enable

Call(t) ==
    \/ \E import \in ImportNames, h \in Handles \union {NoHandle} : Enter(t, import, h)
    \/ PassOn(t) \/ HookedCreateFile(t) \/ TrackReadFile(t) \/ Unbuffered(t)
    \/ HookedCloseHandle(t) \/ OriginalCreateFile(t) \/ OriginalCloseHandle(t)
    \/ \E wanted \in 0 .. MaxRead : HookedReadFile(t, wanted) \/ OriginalReadFile(t, wanted)
    \/ \E method \in Plain!Methods, distance \in Plain!Distances :
          \/ HookedSetFilePointerEx(t, method, distance)
          \/ OriginalSetFilePointerEx(t, method, distance)

CosaveNext == Install \/ \E t \in Threads : Call(t)

CosaveSpec == CosaveInit /\ [][CosaveNext]_cosaveVars
-------------------------------------------------------------------------------
Steps == {"out", "hook", "original", "track"}

\* Types, and what a thread in a call works on.
CosaveTypeOK ==
    /\ installed \in 0 .. 5 /\ hooked \subseteq ImportNames
    /\ stored \subseteq hooked /\ enabled \in BOOLEAN
    /\ os \in [Handles -> Plain!OpenFile \union {NoFile}]
    /\ buffered \in [Handles -> Plain!OpenFile \union {NoFile}]
    /\ step \in [Threads -> Steps]
    /\ call \in [Threads -> ImportNames \union {"none"}]
    /\ handle \in [Threads -> Handles \union {NoHandle}]
    /\ answer \in Plain!Answers

\* A buffer belongs to an open handle of the same co-save, whose real position
\* is still the start: no buffer outlives its handle to answer for the next file
\* with that number, and none is lost when two threads close and open at once.
BuffersAreCurrent ==
    \A h \in Handles : buffered[h] # NoFile =>
        /\ enabled
        /\ Held(h) \/ \E t \in Threads : handle[t] = h /\ step[t] = "hook"
        /\ os[h] = [file |-> buffered[h].file, at |-> 0]
        /\ buffered[h].file \in Cosaves

\* F4SE cannot tell the buffer from the file: whatever threads call in whatever
\* order, every answer is one that plain file handles give.
PlainFilesImplemented == Plain!FilesSpec
===============================================================================
