------------------------------ MODULE PlainFiles ------------------------------
(***************************************************************************)
(* The file calls of Windows as F4SE uses them to read co-saves: an open    *)
(* handle has a file and a position, reads take bytes at the position and   *)
(* move it, seeks set it, and each call is one step.  A byte is known by    *)
(* its offset: an answer names the file, the first byte and how many.       *)
(***************************************************************************)
EXTENDS Integers

CONSTANTS Handles, NoHandle,   \* handle numbers, and INVALID_HANDLE_VALUE
          Files, NoFile,       \* files, and the content of a free handle
          FileSize,            \* the length of a file
          LastPosition,        \* the largest signed 64-bit position
          MaxRead              \* the most bytes one read asks for

VARIABLES opened,              \* what each handle has open
          answer               \* the answer of the last call that gave one

filesVars == <<opened, answer>>

Positions == 0 .. LastPosition
Distances == -LastPosition - 1 .. LastPosition
Methods == {"begin", "current", "end"}
OpenFile == [file : Files, at : Positions]
Answers == [handle : Handles \union {NoHandle}, file : Files \union {NoFile},
            from : Positions \union {-1}, count : 0 .. FileSize]

Opened(h, f) == [handle |-> h, file |-> f, from |-> 0, count |-> 0]
Bytes(h, entry, n) ==
    [handle |-> h, file |-> entry.file, from |-> entry.at, count |-> n]
Sought(h, position) ==
    [handle |-> h, file |-> NoFile, from |-> position, count |-> 0]

\* How many of a_bytesToRead bytes there are from a position on.
Available(at, wanted) ==
    IF at >= FileSize THEN 0
    ELSE IF wanted < FileSize - at THEN wanted ELSE FileSize - at

Base(entry, method) ==
    CASE method = "begin" -> 0 [] method = "current" -> entry.at
      [] method = "end" -> FileSize

FilesInit ==
    /\ opened = [h \in Handles |-> NoFile]
    /\ answer = Opened(NoHandle, NoFile)

Open(h, f) ==
    /\ opened[h] = NoFile
    /\ answer' = Opened(h, f)
    /\ opened' = [opened EXCEPT ![h] = [file |-> f, at |-> 0]]

OpenFails == answer' = Opened(NoHandle, NoFile) /\ UNCHANGED opened

Read(h, wanted) ==
    /\ opened[h] # NoFile
    /\ LET n == Available(opened[h].at, wanted) IN
       /\ answer' = Bytes(h, opened[h], n)
       /\ opened' = [opened EXCEPT ![h].at = @ + n]

Seek(h, method, distance) ==
    /\ opened[h] # NoFile
    /\ LET target == Base(opened[h], method) + distance IN
       IF target \in Positions
       THEN /\ answer' = Sought(h, target)
            /\ opened' = [opened EXCEPT ![h].at = target]
       ELSE answer' = Sought(h, -1) /\ UNCHANGED opened

Close(h) ==
    /\ opened[h] # NoFile
    /\ opened' = [opened EXCEPT ![h] = NoFile]
    /\ UNCHANGED answer

FilesNext ==
    \/ OpenFails
    \/ \E h \in Handles :
        \/ Close(h)
        \/ \E f \in Files : Open(h, f)
        \/ \E wanted \in 0 .. MaxRead : Read(h, wanted)
        \/ \E method \in Methods, distance \in Distances : Seek(h, method, distance)

FilesSpec == FilesInit /\ [][FilesNext]_filesVars
===============================================================================
