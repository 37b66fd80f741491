--------------------------- MODULE ReferenceHandles ---------------------------
(***************************************************************************)
(* The game's table of reference handles, made larger by                   *)
(* AdModuleRefExtended.cpp: the plugin builds the table and tears it down  *)
(* (InitSDM, KillSDM) and patches the widths of the fields in the game's   *)
(* own code.  That code works on the table in between: it is external, and *)
(* the repository has it in outline only, in classes it does not call.     *)
(* Running out of handles is AdModuleReferenceHandleLimitWarning.cpp.      *)
(***************************************************************************)
EXTENDS Integers, Sequences, FiniteSets

CONSTANTS
    Refs,           \* references of the game
    IndexBits,      \* 21 in the game, 23 extended
    AgeBits,        \* 5
    RefCountBits,   \* 10 in the game, 8 extended: IndexBits take the rest
    MaxCreations    \* bound of a run: handles created

ASSUME ReferenceAssumption ==
    /\ IndexBits \in Nat \ {0} /\ AgeBits \in Nat \ {0} /\ RefCountBits \in Nat \ {0}
    /\ MaxCreations \in 0 .. 2^AgeBits - 1      \* no slot's age comes round

\* True of all powers: the provers know none.
ASSUME PowersAssumption == {2^IndexBits, 2^AgeBits, 2^RefCountBits} \subseteq Nat \ {0}

MaxHandleCount == 2^IndexBits
Slots == 0 .. MaxHandleCount - 1
InvalidIndex == -1
NoRef == "no reference"

(* BSHandleRefObject::refCount: handle index, active bit, reference count.  *)
ActiveBit == 2^RefCountBits
HandleBit == 2 * ActiveBit
CountWide(word) == word % HandleBit     \* the mask is one bit too wide
Count(word) == word % ActiveBit
Valid(word) == (word \div ActiveBit) % 2 = 1
EntryIndex(word) == word \div HandleBit
WithEntryIndex(word, i) == (i * HandleBit) + ActiveBit + Count(word)
Cleared(word) == Count(word)

VARIABLES
    tableState,     \* "none", "used" or "killed"
    handleEntries,  \* next free or own index, age, in use, pointer
    freeListHead, freeListTail,
    refWord,        \* refCount of each reference
    refOwners,         \* smart pointers the game holds to each reference
    issued,         \* history: handles and the references they were made for
    quitTasks       \* save-and-quit tasks queued for want of handles

handleVars == <<tableState, handleEntries, freeListHead, freeListTail, refWord, refOwners,
                issued, quitTasks>>

HandleTypeOK ==
    /\ tableState \in {"none", "used", "killed"}
    /\ handleEntries \in [Slots -> [next : Slots, age : 0 .. 2^AgeBits - 1,
                                    inUse : BOOLEAN, pointer : Refs \cup {NoRef}]]
    /\ {freeListHead, freeListTail} \subseteq Slots \cup {InvalidIndex}
    /\ refWord \in [Refs -> 0 .. (HandleBit * MaxHandleCount) - 1]
    /\ refOwners \in [Refs -> 0 .. ActiveBit - 1]
    /\ quitTasks \in 0 .. 1

HandleStart ==
    /\ tableState = "none"
    /\ handleEntries = [i \in Slots |-> [next |-> 0, age |-> 0, inUse |-> FALSE,
                                         pointer |-> NoRef]]
    /\ freeListHead = InvalidIndex /\ freeListTail = InvalidIndex
    /\ refWord = [r \in Refs |-> 0]
    /\ refOwners = [r \in Refs |-> 0]
    /\ issued = {}
    /\ quitTasks = 0

InitSDM ==
    /\ tableState = "none"
    /\ tableState' = "used"
    /\ freeListHead' = 0 /\ freeListTail' = MaxHandleCount - 1
    /\ handleEntries' = [i \in Slots |-> [handleEntries[i] EXCEPT !.next =
                            IF i + 1 >= MaxHandleCount THEN i ELSE i + 1]]
    /\ UNCHANGED <<refWord, refOwners, issued, quitTasks>>

\* A smart pointer is taken or given up; the table's own pointer counts too.
IncRefCount(r) ==
    /\ tableState = "used" /\ Count(refWord[r]) < ActiveBit - 1
    /\ refWord' = [refWord EXCEPT ![r] = @ + 1]
    /\ refOwners' = [refOwners EXCEPT ![r] = @ + 1]
    /\ UNCHANGED <<tableState, handleEntries, freeListHead, freeListTail, issued, quitTasks>>
DecRefCount(r) ==
    /\ refOwners[r] > 0
    /\ refWord' = [refWord EXCEPT ![r] = @ - 1]
    /\ refOwners' = [refOwners EXCEPT ![r] = @ - 1]
    /\ UNCHANGED <<tableState, handleEntries, freeListHead, freeListTail, issued, quitTasks>>

\* The plugin's hook in the game's error path.
OutOfEntriesMessage(manager) == quitTasks' = IF manager THEN 1 ELSE quitTasks

CreateHandle(r, manager) ==
    LET i == freeListHead
        e == handleEntries[i]
        age == (e.age + 1) % 2^AgeBits
    IN  /\ tableState = "used" /\ ~Valid(refWord[r])
        /\ Count(refWord[r]) \in 1 .. ActiveBit - 2
        /\ UNCHANGED <<tableState, refOwners>>
        /\ IF i = InvalidIndex
           THEN /\ OutOfEntriesMessage(manager)
                /\ UNCHANGED <<handleEntries, freeListHead, freeListTail, refWord, issued>>
           ELSE /\ Cardinality(issued) < MaxCreations
                /\ handleEntries' = [handleEntries EXCEPT ![i] =
                     [@ EXCEPT !.age = age, !.inUse = TRUE, !.pointer = r]]
                /\ refWord' = [refWord EXCEPT ![r] = WithEntryIndex(@, i) + 1]
                /\ issued' = issued \cup {[index |-> i, age |-> age, ref |-> r]}
                /\ IF e.next = i
                   THEN freeListHead' = InvalidIndex /\ freeListTail' = InvalidIndex
                   ELSE freeListHead' = e.next /\ UNCHANGED freeListTail
                /\ UNCHANGED quitTasks

IsValid(h) == handleEntries[h.index].inUse /\ handleEntries[h.index].age = h.age

\* The slot goes to the end of the free list.
Appended(i) ==
    [j \in Slots |->
       LET e == handleEntries[j] IN
       IF j = i THEN [e EXCEPT !.next = i, !.inUse = FALSE, !.pointer = NoRef]
       ELSE IF j = freeListTail THEN [e EXCEPT !.next = i] ELSE e]

Destroy(h) ==
    LET r == handleEntries[h.index].pointer IN
    /\ tableState = "used" /\ IsValid(h)
    /\ handleEntries' = Appended(h.index)
    /\ freeListHead' = IF freeListTail = InvalidIndex THEN h.index ELSE freeListHead
    /\ freeListTail' = h.index
    /\ refWord' = [refWord EXCEPT ![r] = Cleared(@) - 1]
    /\ UNCHANGED <<tableState, refOwners, issued, quitTasks>>

\* What a handle leads to.
GetSmartPointer(h) ==
    LET e == handleEntries[h.index] IN
    IF IsValid(h) /\ EntryIndex(refWord[e.pointer]) = h.index THEN e.pointer ELSE NoRef

KillSDMUnlinked ==      \* the slots are freed and never put into the list
    /\ tableState = "used"
    /\ tableState' = "killed"
    /\ handleEntries' = [i \in Slots |->
         IF handleEntries[i].inUse
         THEN [handleEntries[i] EXCEPT !.inUse = FALSE, !.pointer = NoRef]
         ELSE handleEntries[i]]
    /\ refWord' = [r \in Refs |-> IF Valid(refWord[r]) THEN Cleared(refWord[r]) - 1
                                  ELSE refWord[r]]
    /\ UNCHANGED <<freeListHead, freeListTail, refOwners, issued, quitTasks>>

\* At exit every slot in use is freed in turn, behind what is free already.
KillSDM ==
    LET used == {i \in Slots : handleEntries[i].inUse}
        after(i) == {j \in used : j > i}
        least(S) == CHOOSE i \in S : \A j \in S : i <= j
        last == CHOOSE i \in used : \A j \in used : j <= i
    IN  /\ tableState = "used"
        /\ tableState' = "killed"
        /\ handleEntries' =
             [i \in Slots |->
                LET e == handleEntries[i] IN
                CASE i \in used /\ after(i) # {} ->
                        [e EXCEPT !.next = least(after(i)), !.inUse = FALSE, !.pointer = NoRef]
                  [] i \in used /\ after(i) = {} ->
                        [e EXCEPT !.next = i, !.inUse = FALSE, !.pointer = NoRef]
                  [] i \notin used /\ i = freeListTail /\ used # {} ->
                        [e EXCEPT !.next = least(used)]
                  [] OTHER -> e]
        /\ refWord' = [r \in Refs |->
             IF \E i \in used : handleEntries[i].pointer = r
             THEN Cleared(refWord[r]) - 1 ELSE refWord[r]]
        /\ freeListHead' = IF freeListTail = InvalidIndex /\ used # {} THEN least(used)
                           ELSE freeListHead
        /\ freeListTail' = IF used = {} THEN freeListTail ELSE last
        /\ UNCHANGED <<refOwners, issued, quitTasks>>

HandleNext ==
    \/ InitSDM
    \/ \E r \in Refs : IncRefCount(r) \/ DecRefCount(r)
    \/ \E r \in Refs, manager \in BOOLEAN : CreateHandle(r, manager)
    \/ \E h \in issued : Destroy(h)
    \/ KillSDM

HandleSpec == HandleStart /\ [][HandleNext]_handleVars
-----------------------------------------------------------------------------
\* The free list holds every slot that is not in use once, leads by its links from
\* the head to the tail and runs dry exactly when all are in use, also after the
\* table was full, and after KillSDM.
FreeListIsWhole ==
    LET free == {i \in Slots : ~handleEntries[i].inUse}
        n == Cardinality(free)
    IN  tableState # "none" =>
          \E list \in [1 .. n -> free] :
              /\ \A k, m \in 1 .. n : list[k] = list[m] => k = m
              /\ \A k \in 1 .. n : handleEntries[list[k]].next = list[IF k = n THEN n ELSE k + 1]
              /\ freeListHead = IF n = 0 THEN InvalidIndex ELSE list[1]
              /\ freeListTail = IF n = 0 THEN InvalidIndex ELSE list[n]

\* A reference and its slot name each other, the count beside the index in
\* the same word is the number of pointers to the reference, and a handle
\* never leads to another reference than the one it was made for.
HandlesLeadHome ==
    /\ \A i \in Slots : handleEntries[i].inUse =>
          LET word == refWord[handleEntries[i].pointer]
          IN  Valid(word) /\ EntryIndex(word) = i
    /\ \A r \in Refs :
          /\ Count(refWord[r]) = refOwners[r] + (IF Valid(refWord[r]) THEN 1 ELSE 0)
          /\ Valid(refWord[r]) =>
                tableState = "used" /\ handleEntries[EntryIndex(refWord[r])].pointer = r
    /\ \A h \in issued : GetSmartPointer(h) \in {NoRef, h.ref}

\* The free list of the reference handles is whole and a handle leads to the
\* reference it was made for.
HandlesAreWhole == HandleTypeOK /\ FreeListIsWhole /\ HandlesLeadHome
=============================================================================
