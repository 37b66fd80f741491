----------------------------- MODULE GameFixProofs -----------------------------
(***************************************************************************)
(* Proofs about the game fixes that keep tables of the game's objects: the *)
(* shader effects' registry (EffectLifetime), for any number of threads,   *)
(* owners and shader effects and any order in which the hooks go in and    *)
(* fail; the table of reference handles (ReferenceHandles), for any widths *)
(* of its fields; the zlib streams (OwnedInflate), for any content and any *)
(* number of streams.                                                      *)
(*                                                                         *)
(* None of the properties is inductive.  NoDanglingController rests on a   *)
(* tracked shader effect being linked to the owner its controller names    *)
(* (Tracked), that on the hooks' order (HooksInOrder) and on what each     *)
(* call in progress has already done (Calls, Exclusive).  The handles rest *)
(* on the free list as a sequence of slots, and on what the words and ages *)
(* of the slots say of the references (HandleInv).  The streams rest on    *)
(* what a decoder has taken and made being what its stream has been given  *)
(* and has received, but for the byte held back (Mirrored).                *)
(***************************************************************************)
EXTENDS EffectLifetime, ReferenceHandles, OwnedInflate, FiniteSetTheorems,
        WellFoundedInduction, TLAPS

(* The constructor is hooked after all the destructors, and only then are  *)
(* shader effects tracked.                                                 *)
HooksInOrder ==
    /\ "constructor" \in hooks => DestructorHooks \subseteq hooks
    /\ tracked # {} => "constructor" \in hooks

(* What a call in progress has already done for its objects.               *)
Calls ==
    \A t \in Threads :
        /\ step[t] \in {"idle", "lock", "detach", "freeOwner"} => shader[t] = None
        /\ step[t] \in {"idle", "unlink", "freeShader"} => owner[t] = None
        /\ step[t] \in {"link", "unlink", "freeShader"} =>
               shader[t] \in Shaders \cap alive
        /\ step[t] \in {"link", "lock", "detach", "freeOwner"} =>
               owner[t] \in Owners \cap alive
        /\ step[t] = "link" =>
               shader[t] \in tracked /\ controller[shader[t]] = owner[t]
        /\ step[t] \in {"link", "freeShader"} =>
               /\ owners[shader[t]] = None
               /\ \A o \in Owners : shader[t] \notin dependents[o]
        /\ step[t] = "freeOwner" => dependents[owner[t]] = {}
        /\ left[t] # {} => step[t] = "detach"

(* No two calls have an object in common, but constructions their owner.   *)
Exclusive ==
    \A t, u \in Threads : t # u =>
        /\ shader[t] # None => shader[t] # shader[u]
        /\ owner[t] # None /\ owner[t] = owner[u] => step[t] = "link"

(* The registry relates live, tracked objects; its two maps differ only by *)
(* what the Release in progress has detached.                              *)
Registry ==
    /\ \A s \in Shaders, o \in Owners :
        /\ owners[s] = o => s \in dependents[o]
        /\ s \in dependents[o] =>
            /\ s \in tracked /\ o \in alive
            /\ \/ owners[s] = o
               \/ owners[s] = None /\ lock # None /\ owner[lock] = o
    /\ \A t \in Threads, s \in Shaders : step[t] = "detach" =>
        (s \in left[t] <=> owners[s] = owner[t])

(* A tracked shader effect that has a controller is linked to its owner,   *)
(* about to be, or being freed.                                            *)
Tracked ==
    \A s \in tracked :
        /\ s \in alive
        /\ \/ controller[s] = None
           \/ owners[s] = controller[s]
           \/ \E t \in Threads : shader[t] = s /\ step[t] \in {"link", "freeShader"}

IInv == TypeOK /\ HooksInOrder /\ Calls /\ Exclusive /\ Registry /\ Tracked

USE AddressAssumption

-----------------------------------------------------------------------------
(* The initial states.                                                     *)
LEMMA InitIInv == Init => IInv
BY DEF Init, IInv, TypeOK, Steps, DestructorHooks, HooksInOrder, Calls, Exclusive,
       Registry, Tracked

(* Putting a hook in.                                                      *)
LEMMA InstallHookKeeps ==
    ASSUME IInv, NEW h \in DestructorHooks \cup {"constructor"}, InstallHook(h)
    PROVE  IInv'
<1> USE DEF IInv, InstallHook, Call,
            hookVars, registryVars, objectVars, callVars
<1>1. TypeOK'
  BY DEF TypeOK, Steps, DestructorHooks, Calls
<1>2. HooksInOrder'
  BY DEF HooksInOrder, DestructorHooks
<1>3. Calls'
  BY DEF TypeOK, Steps, Calls, Exclusive, Registry, Tracked
<1>4. Exclusive'
  BY DEF TypeOK, Steps, Calls, Exclusive
<1>5. Registry'
  BY DEF TypeOK, Steps, Calls, Exclusive, Registry, Tracked
<1>6. Tracked'
  BY DEF TypeOK, Steps, Calls, Exclusive, Registry, Tracked
<1> QED BY <1>1, <1>2, <1>3, <1>4, <1>5, <1>6

(* The end of DoInstall.                                                   *)
LEMMA EndInstallKeeps ==
    ASSUME IInv, EndInstall
    PROVE  IInv'
<1> USE DEF IInv, EndInstall, Call,
            hookVars, registryVars, objectVars, callVars
<1>1. TypeOK'
  BY DEF TypeOK, Steps, DestructorHooks, Calls
<1>2. HooksInOrder'
  BY DEF HooksInOrder, DestructorHooks
<1>3. Calls'
  BY DEF TypeOK, Steps, Calls, Exclusive, Registry, Tracked
<1>4. Exclusive'
  BY DEF TypeOK, Steps, Calls, Exclusive
<1>5. Registry'
  BY DEF TypeOK, Steps, Calls, Exclusive, Registry, Tracked
<1>6. Tracked'
  BY DEF TypeOK, Steps, Calls, Exclusive, Registry, Tracked
<1> QED BY <1>1, <1>2, <1>3, <1>4, <1>5, <1>6

(* An active effect comes to life.                                         *)
LEMMA MakeOwnerKeeps ==
    ASSUME IInv, NEW o \in Owners, MakeOwner(o)
    PROVE  IInv'
<1> USE DEF IInv, MakeOwner, Busy, Call,
            hookVars, registryVars, objectVars, callVars
<1>1. TypeOK'
  BY DEF TypeOK, Steps, DestructorHooks, Calls
<1>2. HooksInOrder'
  BY DEF HooksInOrder, DestructorHooks
<1>3. Calls'
  BY DEF TypeOK, Steps, Calls, Exclusive, Registry, Tracked
<1>4. Exclusive'
  BY DEF TypeOK, Steps, Calls, Exclusive
<1>5. Registry'
  BY DEF TypeOK, Steps, Calls, Exclusive, Registry, Tracked
<1>6. Tracked'
  BY DEF TypeOK, Steps, Calls, Exclusive, Registry, Tracked
<1> QED BY <1>1, <1>2, <1>3, <1>4, <1>5, <1>6

(* A shader effect comes to life.                                          *)
LEMMA ConstructKeeps ==
    ASSUME IInv, NEW t \in Threads, NEW s \in Shaders, NEW o \in Owners, Construct(t, s, o)
    PROVE  IInv'
<1> USE DEF IInv, Construct, Busy, Destroying, Call,
            hookVars, registryVars, objectVars, callVars
<1>1. TypeOK'
  BY DEF TypeOK, Steps, DestructorHooks, Calls
<1>2. HooksInOrder'
  BY DEF HooksInOrder, DestructorHooks
<1>3. Calls'
  BY DEF TypeOK, Steps, Calls, Exclusive, Registry, Tracked
<1>4. Exclusive'
  BY DEF TypeOK, Steps, Calls, Exclusive
<1>5. Registry'
  BY DEF TypeOK, Steps, Calls, Exclusive, Registry, Tracked
<1>6. Tracked'
  BY DEF TypeOK, Steps, Calls, Exclusive, Registry, Tracked
<1> QED BY <1>1, <1>2, <1>3, <1>4, <1>5, <1>6

(* Link.                                                                   *)
LEMMA LinkNewKeeps ==
    ASSUME IInv, NEW t \in Threads, LinkNew(t)
    PROVE  IInv'
<1> USE DEF IInv, LinkNew, Link, Call,
            hookVars, registryVars, objectVars, callVars
<1>1. TypeOK'
  BY DEF TypeOK, Steps, DestructorHooks, Calls
<1>2. HooksInOrder'
  BY DEF HooksInOrder, DestructorHooks
<1>3. Calls'
  BY DEF TypeOK, Steps, Calls, Exclusive, Registry, Tracked
<1>4. Exclusive'
  BY DEF TypeOK, Steps, Calls, Exclusive
<1>5. Registry'
  BY DEF TypeOK, Steps, Calls, Exclusive, Registry, Tracked
<1>6. Tracked'
  BY DEF TypeOK, Steps, Calls, Exclusive, Registry, Tracked
<1> QED BY <1>1, <1>2, <1>3, <1>4, <1>5, <1>6

(* The game detaches a shader effect.                                      *)
LEMMA VanillaDetachKeeps ==
    ASSUME IInv, NEW s \in Shaders, VanillaDetach(s)
    PROVE  IInv'
<1> USE DEF IInv, VanillaDetach, Busy, Call,
            hookVars, registryVars, objectVars, callVars
<1>1. TypeOK'
  BY DEF TypeOK, Steps, DestructorHooks, Calls
<1>2. HooksInOrder'
  BY DEF HooksInOrder, DestructorHooks
<1>3. Calls'
  BY DEF TypeOK, Steps, Calls, Exclusive, Registry, Tracked
<1>4. Exclusive'
  BY DEF TypeOK, Steps, Calls, Exclusive
<1>5. Registry'
  BY DEF TypeOK, Steps, Calls, Exclusive, Registry, Tracked
<1>6. Tracked'
  BY DEF TypeOK, Steps, Calls, Exclusive, Registry, Tracked
<1> QED BY <1>1, <1>2, <1>3, <1>4, <1>5, <1>6

(* The destructor of a shader effect begins.                               *)
LEMMA DestroyShaderKeeps ==
    ASSUME IInv, NEW t \in Threads, NEW s \in Shaders, DestroyShader(t, s)
    PROVE  IInv'
<1> USE DEF IInv, DestroyShader, Busy, Call,
            hookVars, registryVars, objectVars, callVars
<1>1. TypeOK'
  BY DEF TypeOK, Steps, DestructorHooks, Calls
<1>2. HooksInOrder'
  BY DEF HooksInOrder, DestructorHooks
<1>3. Calls'
  BY DEF TypeOK, Steps, Calls, Exclusive, Registry, Tracked, HooksInOrder, DestructorHooks
<1>4. Exclusive'
  BY DEF TypeOK, Steps, Calls, Exclusive
<1>5. Registry'
  BY DEF TypeOK, Steps, Calls, Exclusive, Registry, Tracked
<1>6. Tracked'
  BY DEF TypeOK, Steps, Calls, Exclusive, Registry, Tracked
<1> QED BY <1>1, <1>2, <1>3, <1>4, <1>5, <1>6

(* Unlink.                                                                 *)
LEMMA UnlinkKeeps ==
    ASSUME IInv, NEW t \in Threads, Unlink(t)
    PROVE  IInv'
<1> USE DEF IInv, Unlink, UnlinkLocked, Call,
            hookVars, registryVars, objectVars, callVars
<1>1. TypeOK'
  BY DEF TypeOK, Steps, DestructorHooks, Calls
<1>2. HooksInOrder'
  BY DEF HooksInOrder, DestructorHooks
<1>3. Calls'
  BY DEF TypeOK, Steps, Calls, Exclusive, Registry, Tracked
<1>4. Exclusive'
  BY DEF TypeOK, Steps, Calls, Exclusive
<1>5. Registry'
  BY DEF TypeOK, Steps, Calls, Exclusive, Registry, Tracked
<1>6. Tracked'
  BY DEF TypeOK, Steps, Calls, Exclusive, Registry, Tracked
<1> QED BY <1>1, <1>2, <1>3, <1>4, <1>5, <1>6

(* A shader effect's memory becomes free.                                  *)
LEMMA FreeShaderKeeps ==
    ASSUME IInv, NEW t \in Threads, FreeShader(t)
    PROVE  IInv'
<1> USE DEF IInv, FreeShader, Call,
            hookVars, registryVars, objectVars, callVars
<1>1. TypeOK'
  BY DEF TypeOK, Steps, DestructorHooks, Calls
<1>2. HooksInOrder'
  BY DEF HooksInOrder, DestructorHooks
<1>3. Calls'
  BY DEF TypeOK, Steps, Calls, Exclusive, Registry, Tracked
<1>4. Exclusive'
  BY DEF TypeOK, Steps, Calls, Exclusive
<1>5. Registry'
  BY DEF TypeOK, Steps, Calls, Exclusive, Registry, Tracked
<1>6. Tracked'
  BY DEF TypeOK, Steps, Calls, Exclusive, Registry, Tracked
<1> QED BY <1>1, <1>2, <1>3, <1>4, <1>5, <1>6

(* A destructor of an active effect begins.                                *)
LEMMA DestroyOwnerKeeps ==
    ASSUME IInv, NEW t \in Threads, NEW o \in Owners, NEW deleting \in BOOLEAN,
           DestroyOwner(t, o, deleting)
    PROVE  IInv'
<1> USE DEF IInv, DestroyOwner, Busy, Call,
            hookVars, registryVars, objectVars, callVars
<1>1. TypeOK'
  BY DEF TypeOK, Steps, DestructorHooks, Calls
<1>2. HooksInOrder'
  BY DEF HooksInOrder, DestructorHooks
<1>3. Calls'
  BY DEF TypeOK, Steps, Calls, Exclusive, Registry, Tracked, HooksInOrder, DestructorHooks
<1>4. Exclusive'
  BY DEF TypeOK, Steps, Calls, Exclusive
<1>5. Registry'
  BY DEF TypeOK, Steps, Calls, Exclusive, Registry, Tracked
<1>6. Tracked'
  BY DEF TypeOK, Steps, Calls, Exclusive, Registry, Tracked
<1> QED BY <1>1, <1>2, <1>3, <1>4, <1>5, <1>6

(* Release takes the lock.                                                 *)
LEMMA BeginReleaseKeeps ==
    ASSUME IInv, NEW t \in Threads, BeginRelease(t)
    PROVE  IInv'
<1> USE DEF IInv, BeginRelease, Call,
            hookVars, registryVars, objectVars, callVars
<1>1. TypeOK'
  BY DEF TypeOK, Steps, DestructorHooks, Calls
<1>2. HooksInOrder'
  BY DEF HooksInOrder, DestructorHooks
<1>3. Calls'
  BY DEF TypeOK, Steps, Calls, Exclusive, Registry, Tracked
<1>4. Exclusive'
  BY DEF TypeOK, Steps, Calls, Exclusive
<1>5. Registry'
  BY DEF TypeOK, Steps, Calls, Exclusive, Registry, Tracked
<1>6. Tracked'
  BY DEF TypeOK, Steps, Calls, Exclusive, Registry, Tracked
<1> QED BY <1>1, <1>2, <1>3, <1>4, <1>5, <1>6

(* Release detaches one dependent.                                         *)
LEMMA DetachKeeps ==
    ASSUME IInv, NEW t \in Threads, NEW s \in Shaders, Detach(t, s)
    PROVE  IInv'
<1> USE DEF IInv, Detach, Call,
            hookVars, registryVars, objectVars, callVars
<1>1. TypeOK'
  BY DEF TypeOK, Steps, DestructorHooks, Calls
<1>2. HooksInOrder'
  BY DEF HooksInOrder, DestructorHooks
<1>3. Calls'
  BY DEF TypeOK, Steps, Calls, Exclusive, Registry, Tracked
<1>4. Exclusive'
  BY DEF TypeOK, Steps, Calls, Exclusive
<1>5. Registry'
  BY DEF TypeOK, Steps, Calls, Exclusive, Registry, Tracked
<1>6. Tracked'
  BY DEF TypeOK, Steps, Calls, Exclusive, Registry, Tracked
<1> QED BY <1>1, <1>2, <1>3, <1>4, <1>5, <1>6

(* Release forgets the owner.                                              *)
LEMMA EndReleaseKeeps ==
    ASSUME IInv, NEW t \in Threads, EndRelease(t)
    PROVE  IInv'
<1> USE DEF IInv, EndRelease, Call,
            hookVars, registryVars, objectVars, callVars
<1>1. TypeOK'
  BY DEF TypeOK, Steps, DestructorHooks, Calls
<1>2. HooksInOrder'
  BY DEF HooksInOrder, DestructorHooks
<1>3. Calls'
  BY DEF TypeOK, Steps, Calls, Exclusive, Registry, Tracked
<1>4. Exclusive'
  BY DEF TypeOK, Steps, Calls, Exclusive
<1>5. Registry'
  BY DEF TypeOK, Steps, Calls, Exclusive, Registry, Tracked
<1>6. Tracked'
  BY DEF TypeOK, Steps, Calls, Exclusive, Registry, Tracked
<1> QED BY <1>1, <1>2, <1>3, <1>4, <1>5, <1>6

(* An active effect's memory becomes free.                                 *)
LEMMA FreeOwnerKeeps ==
    ASSUME IInv, NEW t \in Threads, FreeOwner(t)
    PROVE  IInv'
<1> USE DEF IInv, FreeOwner, Call,
            hookVars, registryVars, objectVars, callVars
<1>1. TypeOK'
  BY DEF TypeOK, Steps, DestructorHooks, Calls
<1>2. HooksInOrder'
  BY DEF HooksInOrder, DestructorHooks
<1>3. Calls'
  BY DEF TypeOK, Steps, Calls, Exclusive, Registry, Tracked
<1>4. Exclusive'
  BY DEF TypeOK, Steps, Calls, Exclusive
<1>5. Registry'
  BY DEF TypeOK, Steps, Calls, Exclusive, Registry, Tracked
<1>6. Tracked'
  BY DEF TypeOK, Steps, Calls, Exclusive, Registry, Tracked
<1> QED BY <1>1, <1>2, <1>3, <1>4, <1>5, <1>6

-----------------------------------------------------------------------------
(* Every step keeps the inductive invariant.                               *)
LEMMA NextKeeps == IInv /\ [Next]_vars => IInv'
<1> SUFFICES ASSUME IInv, [Next]_vars PROVE IInv'
  OBVIOUS
<1>1. CASE UNCHANGED vars
  BY <1>1 DEF vars, IInv, TypeOK, DestructorHooks, HooksInOrder, Calls, Exclusive,
         Registry, Tracked
<1>2. CASE \E h \in DestructorHooks \cup {"constructor"} : InstallHook(h)
  BY <1>2, InstallHookKeeps
<1>3. CASE EndInstall
  BY <1>3, EndInstallKeeps
<1>4. CASE \E o \in Owners : MakeOwner(o)
  BY <1>4, MakeOwnerKeeps
<1>5. CASE \E s \in Shaders : VanillaDetach(s)
  BY <1>5, VanillaDetachKeeps
<1>6. CASE \E t \in Threads, s \in Shaders :
             \/ \E o \in Owners : Construct(t, s, o)
             \/ DestroyShader(t, s)
             \/ Detach(t, s)
  BY <1>6, ConstructKeeps, DestroyShaderKeeps, DetachKeeps
<1>7. CASE \E t \in Threads, o \in Owners, deleting \in BOOLEAN :
             DestroyOwner(t, o, deleting)
  BY <1>7, DestroyOwnerKeeps
<1>8. CASE \E t \in Threads : LinkNew(t) \/ Unlink(t) \/ FreeShader(t)
  BY <1>8, LinkNewKeeps, UnlinkKeeps, FreeShaderKeeps
<1>9. CASE \E t \in Threads : BeginRelease(t) \/ EndRelease(t) \/ FreeOwner(t)
  BY <1>9, BeginReleaseKeeps, EndReleaseKeeps, FreeOwnerKeeps
<1> QED
  BY <1>1, <1>2, <1>3, <1>4, <1>5, <1>6, <1>7, <1>8, <1>9 DEF Next

(* The inductive invariant holds in every state.                           *)
THEOREM Inductive == Spec => []IInv
BY InitIInv, NextKeeps, PTL DEF Spec

(* Types, and the lock is held exactly by the thread that is in Release.   *)
THEOREM TypeCorrect == Spec => []TypeOK
<1>1. IInv => TypeOK
  BY DEF IInv
<1> QED BY <1>1, Inductive, PTL

(* The registry's two maps agree and name only live objects, so an address *)
(* used again inherits no link.                                            *)
THEOREM RegistryIsLive == Spec => []LinksAreLive
<1>1. IInv => LinksAreLive
  BY DEF IInv, TypeOK, Registry, Tracked, LinksAreLive
<1> QED BY <1>1, Inductive, PTL

(* Release detaches no shader effect that has been freed.                  *)
THEOREM DetachIsSafe == Spec => []DetachTouchesLive
<1>1. IInv => DetachTouchesLive
  BY DEF IInv, TypeOK, Calls, Registry, Tracked, DetachTouchesLive
<1> QED BY <1>1, Inductive, PTL

(* No hooked shader effect keeps the controller of a destroyed owner.      *)
THEOREM ControllersAreLive == Spec => []NoDanglingController
<1>1. IInv => NoDanglingController
  BY DEF IInv, TypeOK, Calls, Registry, Tracked, NoDanglingController
<1> QED BY <1>1, Inductive, PTL

(* Nothing leads to an object that is gone: the three together.            *)
THEOREM EffectsLive == Spec => []EffectsAreLive
<1>1. LinksAreLive /\ DetachTouchesLive /\ NoDanglingController => EffectsAreLive
  BY DEF EffectsAreLive
<1> QED BY <1>1, RegistryIsLive, DetachIsSafe, ControllersAreLive, PTL

-----------------------------------------------------------------------------
(* Arithmetic, and the parts of a reference's word.                        *)

(* A product grows with its factor.                                        *)
LEMMA ProductGrows ==
  ASSUME NEW a \in Nat, NEW x \in Nat, NEW y \in Nat, x <= y
  PROVE  x * a <= y * a /\ x * a \in Nat
<1>1. PICK d \in Nat : y = x + d
  OBVIOUS
<1>2. y * a = x * a + d * a
  BY <1>1
<1>3. d * a \in Nat /\ x * a \in Nat
  OBVIOUS
<1> QED
  BY <1>2, <1>3

(* A number's quotient and remainder are the ones it is made of.           *)
LEMMA Quotient ==
  ASSUME NEW a \in Nat \ {0}, NEW q \in Nat, NEW r \in 0 .. a - 1
  PROVE  /\ (q * a + r) \div a = q
         /\ (q * a + r) % a = r
<1> DEFINE w == q * a + r
<1>1. PICK z : z = q * a
  OBVIOUS
<1>2. z \in Nat
  BY <1>1
<1>3. PICK d, m : d = w \div a /\ m = w % a
  OBVIOUS
<1>4. d \in Int /\ m \in 0 .. a - 1 /\ w = a * d + m
  BY <1>3, <1>1, <1>2
<1> QED
  BY <1>1, <1>2, <1>3, <1>4

(* The three widths are those of numbers.                                  *)
LEMMA Widths ==
  /\ ActiveBit \in Nat \ {0} /\ HandleBit = 2 * ActiveBit
  /\ MaxHandleCount \in Nat \ {0} /\ 2^AgeBits \in Nat \ {0}
  /\ MaxCreations \in Nat /\ MaxCreations < 2^AgeBits
BY PowersAssumption, ReferenceAssumption DEF ActiveBit, HandleBit, MaxHandleCount

(* The word of a reference in a slot that is counted c times.              *)
Packed(i, c) == (i * HandleBit) + ActiveBit + c

(* Of a word, the game reads the index, the bit and the count it holds.    *)
LEMMA PartsOfPacked ==
  ASSUME NEW i \in Nat, NEW c \in 0 .. ActiveBit - 1
  PROVE  Count(Packed(i, c)) = c /\ Valid(Packed(i, c)) /\ EntryIndex(Packed(i, c)) = i
<1>0. PICK A \in Nat \ {0} : A = ActiveBit /\ HandleBit = 2 * A
  BY Widths
<1>1. i * HandleBit = (2 * i) * A
  BY <1>0
<1>2. Packed(i, c) = (2 * i + 1) * A + c /\ Packed(i, c) = i * (2 * A) + (A + c)
  BY <1>0, <1>1 DEF Packed
<1>3. Packed(i, c) \div A = 2 * i + 1 /\ Packed(i, c) % A = c
  <2>1. PICK q \in Nat : q = 2 * i + 1
    OBVIOUS
  <2>2. (q * A + c) \div A = q /\ (q * A + c) % A = c
    BY <1>0, Quotient
  <2> QED
    BY <1>2, <2>1, <2>2
<1>4. (2 * i + 1) % 2 = 1
  OBVIOUS
<1>5. Packed(i, c) \div (2 * A) = i
  <2>1. 2 * A \in Nat \ {0} /\ A + c \in 0 .. (2 * A) - 1
    BY <1>0
  <2> QED
    BY <1>2, <2>1, Quotient
<1> QED
  BY <1>0, <1>3, <1>4, <1>5 DEF Count, Valid, EntryIndex

(* A count alone is a word without an index.                               *)
LEMMA PartsOfCount ==
  ASSUME NEW c \in 0 .. ActiveBit - 1
  PROVE  Count(c) = c /\ ~Valid(c)
<1>0. PICK A \in Nat \ {0} : A = ActiveBit
  BY Widths
<1>1. (0 * A + c) \div A = 0 /\ (0 * A + c) % A = c
  BY <1>0, Quotient
<1>2. 0 * A + c = c
  BY <1>0
<1> QED
  BY <1>0, <1>1, <1>2 DEF Count, Valid

(* Words fit.                                                              *)
LEMMA WordsFit ==
  ASSUME NEW i \in Slots, NEW c \in 0 .. ActiveBit - 1
  PROVE  /\ Packed(i, c) \in 0 .. (HandleBit * MaxHandleCount) - 1
         /\ c \in 0 .. (HandleBit * MaxHandleCount) - 1
<1>0. PICK H \in Nat \ {0}, M \in Nat \ {0} : H = HandleBit /\ M = MaxHandleCount
  BY Widths
<1>1. i \in 0 .. M - 1 /\ c + ActiveBit \in 0 .. H - 1 /\ c \in 0 .. H - 1
  BY <1>0, Widths DEF Slots
<1>2. (i + 1) * H <= M * H /\ i * H \in Nat
  BY <1>0, <1>1, ProductGrows
<1>3. (i + 1) * H = i * H + H /\ M * H = H * M
  BY <1>0, <1>1
<1>4. PICK p, q : p = i * H /\ q = H * M
  OBVIOUS
<1>5. Packed(i, c) = p + ActiveBit + c
  BY <1>0, <1>4 DEF Packed
<1>6. p \in Nat /\ q \in Int /\ p + H <= q
  BY <1>0, <1>2, <1>3, <1>4
<1> QED
  BY <1>0, <1>1, <1>4, <1>5, <1>6, Widths

-----------------------------------------------------------------------------
(* Induction, and the slots of a set in their order.                       *)

(* Every nonempty set of natural numbers has a least element.              *)
LEMMA LeastOf ==
  ASSUME NEW T, T \subseteq Nat, T # {}
  PROVE  \E x \in T : \A y \in T : x <= y
<1> DEFINE D == {0 .. n : n \in T}
<1>1. D \subseteq FiniteSubsetsOf(Nat) /\ D # {}
  <2>1. ASSUME NEW n \in T PROVE 0 .. n \in FiniteSubsetsOf(Nat)
    BY FS_Interval DEF FiniteSubsetsOf
  <2> QED
    BY <2>1
<1>2. PICK I \in D : \A J \in D : ~ (<<J, I>> \in StrictSubsetOrdering(Nat))
  <2> HIDE DEF D
  <2> QED
    BY <1>1, WFMin, FS_StrictSubsetOrderingWellFounded
<1>3. PICK x \in T : I = 0 .. x
  OBVIOUS
<1>4. ASSUME NEW y \in T, y < x PROVE FALSE
  <2> DEFINE Y == 0 .. y  X == 0 .. x
  <2>1. Y \in D /\ Y \subseteq X /\ x \notin Y /\ x \in X
    BY <1>4
  <2>2. Y \in SUBSET Nat /\ X \in SUBSET Nat /\ I = X
    BY <1>3
  <2> HIDE DEF X, Y, D
  <2>3. Y # X
    BY <2>1
  <2>4. <<Y, X>> \in StrictSubsetOrdering(Nat)
    BY <2>1, <2>2, <2>3 DEF StrictSubsetOrdering
  <2> QED
    BY <1>2, <2>1, <2>2, <2>4
<1> QED
  BY <1>4

(* Induction up to a bound, for a property given by the set that has it.   *)
LEMMA UpTo ==
  ASSUME NEW N \in Nat, NEW Q, 0 \in Q, \A n \in 0 .. N - 1 : n \in Q => n + 1 \in Q
  PROVE  N \in Q
<1> DEFINE T == (0 .. N) \ Q
<1>1. SUFFICES ASSUME T # {} PROVE FALSE
  OBVIOUS
<1>2. PICK k \in T : \A j \in T : k <= j
  <2>1. T \subseteq Nat
    OBVIOUS
  <2> HIDE DEF T
  <2> QED
    BY <1>1, <2>1, LeastOf
<1>3. k \in 1 .. N
  OBVIOUS
<1>4. k - 1 \in 0 .. N - 1 /\ k - 1 \notin T /\ k = (k - 1) + 1
  BY <1>2, <1>3
<1> QED
  BY <1>4

(* The members of a set below a bound, in their order.                     *)
Ordered(S, n, s) ==
  /\ n \in Nat /\ s \in [1 .. n -> S]
  /\ \A k, m \in 1 .. n : k < m => s[k] < s[m]
  /\ \A x \in S : \E k \in 1 .. n : s[k] = x

(* Every set of slots has an order.                                        *)
LEMMA SlotsHaveOrder ==
  ASSUME NEW S, S \subseteq Slots
  PROVE  \E n, s : Ordered(S, n, s)
<1> DEFINE Q == {b \in Nat : \E n, s : Ordered({x \in S : x < b}, n, s)}
<1>0. MaxHandleCount \in Nat /\ \A x \in S : x \in Nat /\ x < MaxHandleCount
  BY Widths DEF Slots
<1>1. 0 \in Q
  <2>1. {x \in S : x < 0} = {}
    BY <1>0
  <2>2. Ordered({}, 0, [k \in 1 .. 0 |-> 0])
    BY DEF Ordered
  <2> QED
    BY <2>1, <2>2
<1>2. ASSUME NEW b \in 0 .. MaxHandleCount - 1, b \in Q PROVE b + 1 \in Q
  <2> DEFINE L == {x \in S : x < b}  G == {x \in S : x < b + 1}
  <2>1. PICK n, s : Ordered(L, n, s)
    BY <1>2
  <2>2. CASE b \notin S
    <3>1. G = L
      BY <1>0, <2>2
    <3>2. b + 1 \in Nat
      BY <1>0
    <3> QED
      BY <2>1, <3>1, <3>2
  <2>3. CASE b \in S
    <3> DEFINE t == [k \in 1 .. n + 1 |-> IF k = n + 1 THEN b ELSE s[k]]
    <3>1. n \in Nat /\ s \in [1 .. n -> L] /\ \A x \in L : x \in Int /\ x < b /\ x \in G
      BY <1>0, <2>1 DEF Ordered
    <3>2. b \in G /\ \A x \in G : x \in L \/ x = b
      BY <1>0, <2>3
    <3> HIDE DEF L, G
    <3>3. n + 1 \in Nat /\ t \in [1 .. n + 1 -> G]
      BY <3>1, <3>2
    <3>4. ASSUME NEW k \in 1 .. n + 1, NEW m \in 1 .. n + 1, k < m PROVE t[k] < t[m]
      BY <3>1, <3>4, <2>1 DEF Ordered
    <3>5. ASSUME NEW x \in G PROVE \E k \in 1 .. n + 1 : t[k] = x
      <4>1. CASE x = b
        BY <3>1, <4>1
      <4>2. CASE x \in L
        <5>1. PICK k \in 1 .. n : s[k] = x
          BY <2>1, <4>2 DEF Ordered
        <5>2. k \in 1 .. n + 1 /\ k # n + 1
          BY <3>1
        <5> QED
          BY <5>1, <5>2
      <4> QED
        BY <3>2, <4>1, <4>2
    <3>6. Ordered(G, n + 1, t)
      BY <3>3, <3>4, <3>5 DEF Ordered
    <3>7. b + 1 \in Nat
      BY <1>0
    <3> QED
      BY <3>6, <3>7 DEF G
  <2> QED
    BY <2>2, <2>3
<1>3. MaxHandleCount \in Q
  <2> HIDE DEF Q
  <2> QED
    BY <1>0, <1>1, <1>2, UpTo
<1>4. {x \in S : x < MaxHandleCount} = S
  BY <1>0
<1> QED
  BY <1>3, <1>4
-----------------------------------------------------------------------------
(* The free list as a sequence of slots.                                   *)

IsList(list, n, table, first, final) ==
  /\ n \in Nat /\ list \in [1 .. n -> Slots]
  /\ \A k, m \in 1 .. n : list[k] = list[m] => k = m
  /\ \A i \in Slots : ~table[i].inUse <=> \E k \in 1 .. n : list[k] = i
  /\ \A k \in 1 .. n : table[list[k]].next = list[IF k = n THEN n ELSE k + 1]
  /\ first = IF n = 0 THEN InvalidIndex ELSE list[1]
  /\ final = IF n = 0 THEN InvalidIndex ELSE list[n]

Listed(table, first, final) == \E n, list : IsList(list, n, table, first, final)

(* The table InitSDM builds is one list of all its slots.                  *)
LEMMA AllSlotsListed ==
  ASSUME NEW table, \A i \in Slots : ~table[i].inUse,
         \A i \in Slots : table[i].next = IF i + 1 >= MaxHandleCount THEN i ELSE i + 1
  PROVE  Listed(table, 0, MaxHandleCount - 1)
<1>0. PICK M \in Nat \ {0} : M = MaxHandleCount /\ Slots = 0 .. M - 1
  BY Widths DEF Slots
<1> DEFINE list == [k \in 1 .. M |-> k - 1]
<1>1. list \in [1 .. M -> Slots] /\ \A k, m \in 1 .. M : list[k] = list[m] => k = m
  BY <1>0
<1>2. ASSUME NEW i \in Slots PROVE ~table[i].inUse <=> \E k \in 1 .. M : list[k] = i
  BY <1>0
<1>3. ASSUME NEW k \in 1 .. M
      PROVE  table[list[k]].next = list[IF k = M THEN M ELSE k + 1]
  BY <1>0
<1>4. list[1] = 0 /\ list[M] = M - 1
  BY <1>0
<1>5. IsList(list, M, table, 0, M - 1)
  <2> HIDE DEF list
  <2> QED
    BY <1>0, <1>1, <1>2, <1>3, <1>4 DEF IsList
<1> QED
  BY <1>0, <1>5 DEF Listed

(* The first slot is taken.                                                *)
LEMMA FirstTaken ==
  ASSUME NEW table, NEW table2, NEW first, NEW final, Listed(table, first, final),
         first # InvalidIndex,
         \A i \in Slots : table2[i].next = table[i].next
                          /\ (table2[i].inUse <=> table[i].inUse \/ i = first)
  PROVE  /\ first \in Slots /\ ~table[first].inUse
         /\ IF table[first].next = first THEN Listed(table2, InvalidIndex, InvalidIndex)
            ELSE Listed(table2, table[first].next, final)
<1>1. PICK n, list : IsList(list, n, table, first, final)
  BY DEF Listed
<1>2. /\ n \in Nat \ {0} /\ list \in [1 .. n -> Slots] /\ first = list[1] /\ final = list[n]
      /\ \A k, m \in 1 .. n : list[k] = list[m] => k = m
      /\ \A i \in Slots : ~table[i].inUse <=> \E k \in 1 .. n : list[k] = i
      /\ \A k \in 1 .. n : table[list[k]].next = list[IF k = n THEN n ELSE k + 1]
  BY <1>1 DEF IsList
<1>3. 1 \in 1 .. n /\ first \in Slots /\ ~table[first].inUse
  BY <1>2
<1>4. table[first].next = list[IF 1 = n THEN n ELSE 2]
  BY <1>2, <1>3
<1> DEFINE rest == [k \in 1 .. n - 1 |-> list[k + 1]]
<1>5. \A k \in 1 .. n - 1 : k + 1 \in 1 .. n /\ rest[k] = list[k + 1] /\ rest[k] \in Slots
  BY <1>2
<1>6. n - 1 \in Nat /\ rest \in [1 .. n - 1 -> Slots]
  BY <1>2, <1>5
<1>7. \A k, m \in 1 .. n - 1 : rest[k] = rest[m] => k = m
  <2> TAKE k, m \in 1 .. n - 1
  <2> HAVE rest[k] = rest[m]
  <2>1. k + 1 = m + 1
    BY <1>2, <1>5
  <2> QED
    BY <1>2, <2>1
<1>8. ASSUME NEW i \in Slots PROVE ~table2[i].inUse <=> \E k \in 1 .. n - 1 : rest[k] = i
  <2>1. ASSUME ~table2[i].inUse PROVE \E k \in 1 .. n - 1 : rest[k] = i
    <3>1. PICK m \in 1 .. n : list[m] = i
      BY <1>2, <2>1
    <3>2. m # 1
      BY <1>2, <2>1, <3>1
    <3>3. m - 1 \in 1 .. n - 1 /\ rest[m - 1] = i
      BY <1>2, <3>1, <3>2
    <3> QED
      BY <3>3
  <2>2. ASSUME NEW k \in 1 .. n - 1, rest[k] = i PROVE ~table2[i].inUse
    BY <1>2, <1>5, <2>2, <1>3
  <2> QED
    BY <2>1, <2>2
<1>9. ASSUME NEW k \in 1 .. n - 1
      PROVE  table2[rest[k]].next = rest[IF k = n - 1 THEN n - 1 ELSE k + 1]
  BY <1>5, <1>2
<1>10. CASE n = 1
  <2>1. table[first].next = first
    BY <1>2, <1>4, <1>10
  <2>2. IsList(rest, n - 1, table2, InvalidIndex, InvalidIndex)
    <3>1. n - 1 = 0
      BY <1>10
    <3> HIDE DEF rest
    <3> QED
      BY <1>6, <1>7, <1>8, <1>9, <3>1 DEF IsList
  <2> QED
    BY <1>3, <2>1, <2>2 DEF Listed
<1>11. CASE n # 1
  <2>0. 2 \in 1 .. n /\ 1 \in 1 .. n - 1 /\ n - 1 \in 1 .. n - 1 /\ n - 1 # 0
    BY <1>2, <1>11
  <2>1. table[first].next = list[2] /\ list[2] # first
    BY <1>2, <1>3, <1>4, <1>11, <2>0
  <2>2. rest[1] = list[1 + 1] /\ rest[n - 1] = list[(n - 1) + 1] /\ 1 + 1 = 2 /\ (n - 1) + 1 = n
    BY <1>2, <1>5, <2>0
  <2>3. rest[1] = list[2] /\ rest[n - 1] = final
    BY <1>2, <2>2
  <2>4. IsList(rest, n - 1, table2, list[2], final)
    <3> HIDE DEF rest
    <3> QED
      BY <1>6, <1>7, <1>8, <1>9, <2>0, <2>3 DEF IsList
  <2> QED
    BY <1>3, <2>1, <2>4 DEF Listed
<1> QED
  BY <1>10, <1>11

(* What two lists one behind the other make, the second being of slots that *)
(* were in use, linked in its order from the end of the first on.          *)
LEMMA ListsJoined ==
  ASSUME NEW table, NEW table2, NEW first, NEW final, Listed(table, first, final),
         NEW m \in Nat \ {0}, NEW more \in [1 .. m -> Slots],
         \A k, j \in 1 .. m : more[k] = more[j] => k = j,
         \A k \in 1 .. m : table[more[k]].inUse
                           /\ table2[more[k]].next = more[IF k = m THEN m ELSE k + 1],
         \A i \in Slots : ~table2[i].inUse <=>
                              ~table[i].inUse \/ \E k \in 1 .. m : more[k] = i,
         \A i \in Slots : ~table[i].inUse =>
             table2[i].next = IF i = final THEN more[1] ELSE table[i].next
  PROVE  Listed(table2, IF final = InvalidIndex THEN more[1] ELSE first, more[m])
<1>1. PICK n, list : IsList(list, n, table, first, final)
  BY DEF Listed
<1>2. /\ n \in Nat /\ list \in [1 .. n -> Slots]
      /\ first = IF n = 0 THEN InvalidIndex ELSE list[1]
      /\ final = IF n = 0 THEN InvalidIndex ELSE list[n]
      /\ \A k, j \in 1 .. n : list[k] = list[j] => k = j
      /\ \A i \in Slots : ~table[i].inUse <=> \E k \in 1 .. n : list[k] = i
      /\ \A k \in 1 .. n : table[list[k]].next = list[IF k = n THEN n ELSE k + 1]
  BY <1>1 DEF IsList
<1>3. \A i \in Slots : i # InvalidIndex
  BY Widths DEF Slots, InvalidIndex
<1>4. final = InvalidIndex <=> n = 0
  BY <1>2, <1>3
<1> DEFINE l == n + m
           both == [k \in 1 .. l |-> IF k <= n THEN list[k] ELSE more[k - n]]
<1>5. l \in Nat \ {0} /\ \A k \in 1 .. l : IF k <= n THEN k \in 1 .. n ELSE k - n \in 1 .. m
  BY <1>2
<1>6. both \in [1 .. l -> Slots]
  BY <1>2, <1>5
<1>7. /\ \A k \in 1 .. n : k \in 1 .. l /\ both[k] = list[k]
      /\ \A k \in 1 .. m : n + k \in 1 .. l /\ both[n + k] = more[k]
  BY <1>2
<1>8. ASSUME NEW k \in 1 .. l
      PROVE  (k \in 1 .. n /\ both[k] = list[k])
             \/ (\E j \in 1 .. m : k = n + j /\ both[k] = more[j])
  BY <1>5, <1>2
<1> HIDE DEF l, both
<1>9. \A k \in 1 .. n, j \in 1 .. m : list[k] # more[j]
  BY <1>2
<1>10. \A k, j \in 1 .. l : both[k] = both[j] => k = j
  BY <1>2, <1>8, <1>9
<1>11. ASSUME NEW i \in Slots PROVE ~table2[i].inUse <=> \E k \in 1 .. l : both[k] = i
  <2>1. ASSUME NEW k \in 1 .. n, list[k] = i PROVE \E j \in 1 .. l : both[j] = i
    BY <1>7, <2>1
  <2>2. ASSUME NEW k \in 1 .. m, more[k] = i PROVE \E j \in 1 .. l : both[j] = i
    BY <1>7, <2>2
  <2>3. ASSUME NEW k \in 1 .. l, both[k] = i
        PROVE  (\E j \in 1 .. n : list[j] = i) \/ (\E j \in 1 .. m : more[j] = i)
    BY <1>8, <2>3
  <2> QED
    BY <1>2, <2>1, <2>2, <2>3
<1>12. both[l] = more[m]
  BY <1>7 DEF l
<1>13. ASSUME NEW k \in 1 .. l
       PROVE  table2[both[k]].next = both[IF k = l THEN l ELSE k + 1]
  <2>0. l = n + m
    BY DEF l
  <2>1. CASE k \in 1 .. n /\ k # n
    <3>1. k + 1 \in 1 .. n /\ both[k] = list[k] /\ both[k + 1] = list[k + 1] /\ k # l
      BY <1>2, <1>7, <2>0, <2>1
    <3>2. list[k] # final /\ list[k] \in Slots /\ ~table[list[k]].inUse
      BY <1>2, <2>1
    <3> QED
      BY <1>2, <2>1, <3>1, <3>2
  <2>2. CASE k \in 1 .. n /\ k = n
    BY <1>2, <1>7, <2>0, <2>2
  <2>3. CASE k \notin 1 .. n
    <3>1. PICK j \in 1 .. m : k = n + j /\ both[k] = more[j]
      BY <1>8, <2>3
    <3>2. table2[both[k]].next = more[IF j = m THEN m ELSE j + 1]
      BY <3>1
    <3>3. CASE j = m
      BY <1>12, <2>0, <3>1, <3>2, <3>3
    <3>4. CASE j # m
      BY <1>2, <3>4, <3>1, <2>0, <1>7, <3>2
    <3> QED
      BY <3>3, <3>4
  <2> QED
    BY <2>1, <2>2, <2>3
<1>14. both[1] = IF n = 0 THEN more[1] ELSE first
  BY <1>7, <1>2
<1>15. IsList(both, l, table2, both[1], more[m])
  BY <1>5, <1>6, <1>10, <1>11, <1>12, <1>13 DEF IsList
<1> QED
  BY <1>4, <1>14, <1>15 DEF Listed
(* Only the links and what is in use make a list.                          *)
LEMMA ListStays ==
  ASSUME NEW table, NEW table2, NEW first, NEW final, Listed(table, first, final),
         \A i \in Slots : table2[i].next = table[i].next /\ (table2[i].inUse <=> table[i].inUse)
  PROVE  Listed(table2, first, final)
<1>1. PICK n, list : IsList(list, n, table, first, final)
  BY DEF Listed
<1>2. IsList(list, n, table2, first, final)
  BY <1>1 DEF IsList
<1> QED
  BY <1>2 DEF Listed

-----------------------------------------------------------------------------
(* The words of the references, and the ages of the slots.                 *)

(* A reference in a slot has the slot's index and one more pointer, the    *)
(* table's; any other has the number of its pointers alone.                *)
Words(table, words, counts) ==
  /\ \A i \in Slots : table[i].inUse =>
        /\ table[i].pointer \in Refs
        /\ counts[table[i].pointer] + 1 \in 0 .. ActiveBit - 1
        /\ words[table[i].pointer] = Packed(i, counts[table[i].pointer] + 1)
  /\ \A r \in Refs :
        /\ counts[r] \in 0 .. ActiveBit - 1
        /\ (\A i \in Slots : table[i].inUse => table[i].pointer # r) => words[r] = counts[r]

(* A reference is in one slot or in none, and its word says which.         *)
InNoSlot(r, table, words, counts) ==
  /\ \A i \in Slots : table[i].inUse => table[i].pointer # r
  /\ words[r] = counts[r] /\ ~Valid(words[r]) /\ Count(words[r]) = counts[r]
InSlot(r, i, table, words, counts) ==
  /\ table[i].inUse /\ table[i].pointer = r
  /\ \A j \in Slots : table[j].inUse /\ table[j].pointer = r => j = i
  /\ words[r] = Packed(i, counts[r] + 1) /\ counts[r] + 1 \in 0 .. ActiveBit - 1
  /\ Valid(words[r]) /\ EntryIndex(words[r]) = i /\ Count(words[r]) = counts[r] + 1

(* The word of a reference says which slot it is in, if it is in one.      *)
LEMMA SlotOfWord ==
  ASSUME NEW table, NEW words, NEW counts, Words(table, words, counts), NEW r \in Refs
  PROVE  \/ InNoSlot(r, table, words, counts)
         \/ \E i \in Slots : InSlot(r, i, table, words, counts)
<1>1. CASE \A i \in Slots : table[i].inUse => table[i].pointer # r
  BY <1>1, PartsOfCount DEF Words, InNoSlot
<1>2. ASSUME NEW i \in Slots, table[i].inUse, table[i].pointer = r
      PROVE  InSlot(r, i, table, words, counts)
  BY Widths, PartsOfPacked, <1>2 DEF Words, Slots, InSlot
<1> QED
  BY <1>1, <1>2

(* So words and counts fit.                                                *)
LEMMA WordsInRange ==
  ASSUME NEW table, NEW words, NEW counts, Words(table, words, counts), NEW r \in Refs
  PROVE  /\ words[r] \in 0 .. (HandleBit * MaxHandleCount) - 1
         /\ counts[r] \in 0 .. ActiveBit - 1
  BY Widths, WordsFit, SlotOfWord DEF Words, Slots, InNoSlot, InSlot

(* A slot's age is at most the number of handles made, a handle is at most *)
(* as old as its slot, and the slot of the youngest keeps its reference.    *)
Ages(table, made) ==
  /\ IsFiniteSet(made) /\ Cardinality(made) <= MaxCreations
  /\ \A i \in Slots : table[i].age <= Cardinality(made)
  /\ \A h \in made :
        /\ h.index \in Slots /\ h.age \in Nat /\ h.age <= table[h.index].age
        /\ table[h.index].inUse /\ h.age = table[h.index].age =>
               table[h.index].pointer = h.ref

(* Nothing ages while no slot does and slots are at most given up.         *)
LEMMA AgesStay ==
  ASSUME NEW table, NEW table2, NEW made, Ages(table, made),
         \A i \in Slots : table2[i].age = table[i].age
             /\ (table2[i].inUse => table[i].inUse /\ table2[i].pointer = table[i].pointer)
  PROVE  Ages(table2, made)
BY DEF Ages

(* A handle of a slot's next age is a new one.                             *)
LEMMA AgesRise ==
  ASSUME NEW table, NEW table2, NEW made, Ages(table, made), NEW i \in Slots, NEW r,
         \A j \in Slots : table[j].age \in Nat, Cardinality(made) < MaxCreations,
         \A j \in Slots : j # i => table2[j] = table[j],
         table2[i].age = table[i].age + 1, table2[i].pointer = r
  PROVE  Ages(table2, made \cup {[index |-> i, age |-> table[i].age + 1, ref |-> r]})
<1> DEFINE h == [index |-> i, age |-> table[i].age + 1, ref |-> r]
<1>1. /\ IsFiniteSet(made) /\ \A j \in Slots : table[j].age <= Cardinality(made)
      /\ \A g \in made : g.index \in Slots /\ g.age \in Nat /\ g.age <= table[g.index].age
                         /\ (table[g.index].inUse /\ g.age = table[g.index].age =>
                                table[g.index].pointer = g.ref)
  BY DEF Ages
<1>2. h \notin made
  <2>1. h.index = i /\ h.age = table[i].age + 1 /\ table[i].age \in Nat
    OBVIOUS
  <2> HIDE DEF h
  <2>2. ~(h.age <= table[h.index].age)
    BY <2>1
  <2> QED
    BY <1>1, <2>2
<1>3. IsFiniteSet(made \cup {h}) /\ Cardinality(made \cup {h}) = Cardinality(made) + 1
  <2> HIDE DEF h
  <2> QED
    BY <1>1, <1>2, FS_AddElement
<1>4. Cardinality(made) \in Nat /\ MaxCreations \in Nat
  BY <1>1, FS_CardinalityType, Widths
<1>5. ASSUME NEW j \in Slots PROVE table2[j].age <= Cardinality(made) + 1
  BY <1>1, <1>4
<1>6. ASSUME NEW g \in made
      PROVE  /\ g.index \in Slots /\ g.age \in Nat /\ g.age <= table2[g.index].age
             /\ table2[g.index].inUse /\ g.age = table2[g.index].age =>
                    table2[g.index].pointer = g.ref
  BY <1>1
<1>7. h.index = i /\ h.age = table2[i].age /\ h.ref = table2[i].pointer
  OBVIOUS
<1> HIDE DEF h
<1>8. h.index \in Slots /\ h.age \in Nat /\ h.age <= table2[h.index].age
      /\ table2[h.index].pointer = h.ref
  BY <1>7
<1>9. Ages(table2, made \cup {h})
  BY <1>4, <1>3, <1>5, <1>6, <1>8 DEF Ages
<1> QED
  BY <1>9 DEF h
-----------------------------------------------------------------------------
(* The invariant, and its steps.                                           *)

Table ==
  /\ handleEntries \in [Slots -> [next : Slots, age : 0 .. 2^AgeBits - 1,
                                  inUse : BOOLEAN, pointer : Refs \cup {NoRef}]]
  /\ \A i \in Slots : handleEntries[i].inUse => tableState = "used"

HandleInv ==
  /\ HandleTypeOK /\ Table
  /\ Words(handleEntries, refWord, refOwners)
  /\ Ages(handleEntries, issued)
  /\ tableState # "none" => Listed(handleEntries, freeListHead, freeListTail)

(* What is written to the words has their types.                           *)
LEMMA TypesKept ==
  ASSUME Words(handleEntries', refWord', refOwners'), Table',
         tableState' \in {"none", "used", "killed"},
         {freeListHead', freeListTail'} \subseteq Slots \cup {InvalidIndex},
         refWord' = [r \in Refs |-> refWord'[r]], refOwners' = [r \in Refs |-> refOwners'[r]],
         quitTasks' \in 0 .. 1
  PROVE  HandleTypeOK'
<1>1. ASSUME NEW r \in Refs
      PROVE  /\ refWord'[r] \in 0 .. (HandleBit * MaxHandleCount) - 1
             /\ refOwners'[r] \in 0 .. ActiveBit - 1
  <2>1. PICK table, words, counts :
            table = handleEntries' /\ words = refWord' /\ counts = refOwners'
    OBVIOUS
  <2>2. Words(table, words, counts)
    BY <2>1
  <2>3. words[r] \in 0 .. (HandleBit * MaxHandleCount) - 1 /\ counts[r] \in 0 .. ActiveBit - 1
    BY <2>2, WordsInRange
  <2> QED
    BY <2>1, <2>3
<1>2. /\ refWord' \in [Refs -> 0 .. (HandleBit * MaxHandleCount) - 1]
      /\ refOwners' \in [Refs -> 0 .. ActiveBit - 1]
  BY <1>1
<1> QED
  BY <1>2 DEF HandleTypeOK, Table

(* The table before the game has set it up.                                *)
LEMMA HandlesStart == HandleStart => HandleInv
<1> SUFFICES ASSUME HandleStart PROVE HandleInv
  OBVIOUS
<1> USE DEF HandleStart
<1>1. 0 \in Slots /\ 0 \in 0 .. 2^AgeBits - 1 /\ 0 \in 0 .. ActiveBit - 1
  BY Widths DEF Slots
<1>2. Table
  BY <1>1 DEF Table
<1>3. Words(handleEntries, refWord, refOwners)
  BY <1>1 DEF Words
<1>4. Ages(handleEntries, issued)
  BY FS_EmptySet, Widths DEF Ages
<1>5. HandleTypeOK
  BY <1>1, WordsFit, <1>2 DEF HandleTypeOK, Table
<1> QED
  BY <1>2, <1>3, <1>4, <1>5 DEF HandleInv

(* The game sets the table up: every slot is free, in order.               *)
LEMMA InitKeeps ==
  ASSUME HandleInv, InitSDM
  PROVE  HandleInv'
<1> USE DEF InitSDM
<1>0. HandleTypeOK /\ Table /\ Words(handleEntries, refWord, refOwners)
      /\ Ages(handleEntries, issued)
  BY DEF HandleInv
<1>1. \A i \in Slots : ~handleEntries[i].inUse
  BY <1>0 DEF Table
<1>2. /\ handleEntries' = [i \in Slots |-> handleEntries'[i]]
      /\ \A i \in Slots :
          /\ handleEntries'[i] = [handleEntries[i] EXCEPT !.next =
                                    IF i + 1 >= MaxHandleCount THEN i ELSE i + 1]
          /\ handleEntries[i] \in [next : Slots, age : 0 .. 2^AgeBits - 1,
                                   inUse : BOOLEAN, pointer : Refs \cup {NoRef}]
  BY <1>0 DEF Table
<1>3. \A i \in Slots : (IF i + 1 >= MaxHandleCount THEN i ELSE i + 1) \in Slots
  BY Widths DEF Slots
<1>4. \A i \in Slots :
        /\ handleEntries'[i].next = IF i + 1 >= MaxHandleCount THEN i ELSE i + 1
        /\ handleEntries'[i].age = handleEntries[i].age
        /\ ~handleEntries'[i].inUse
  BY <1>1, <1>2
<1>5. Table'
  BY <1>2, <1>3, <1>4 DEF Table
<1>6. Words(handleEntries', refWord', refOwners')
  BY <1>0, <1>1, <1>4 DEF Words
<1>7. Ages(handleEntries', issued')
  BY <1>0, <1>4, AgesStay
<1>8. Listed(handleEntries', freeListHead', freeListTail')
  BY <1>4, AllSlotsListed
<1>9. HandleTypeOK'
  <2>1. 0 \in Slots /\ MaxHandleCount - 1 \in Slots
    BY Widths DEF Slots
  <2> QED
    BY <1>0, <1>5, <1>6, <2>1, TypesKept DEF HandleTypeOK
<1> QED
  BY <1>5, <1>6, <1>7, <1>8, <1>9 DEF HandleInv

(* Pointers taken and given up.                                            *)
LEMMA CountingKeeps ==
  ASSUME HandleInv, NEW r \in Refs, IncRefCount(r) \/ DecRefCount(r)
  PROVE  HandleInv'
<1>0. HandleTypeOK /\ Table /\ Words(handleEntries, refWord, refOwners)
      /\ Ages(handleEntries, issued)
      /\ refWord = [q \in Refs |-> refWord[q]] /\ refOwners = [q \in Refs |-> refOwners[q]]
  BY DEF HandleInv, HandleTypeOK
<1>1. UNCHANGED <<tableState, handleEntries, freeListHead, freeListTail, issued, quitTasks>>
  BY DEF IncRefCount, DecRefCount
<1>2. \E d \in {1, -1} :
        /\ refWord' = [refWord EXCEPT ![r] = @ + d]
        /\ refOwners' = [refOwners EXCEPT ![r] = @ + d]
        /\ IF d = 1 THEN Count(refWord[r]) < ActiveBit - 1 ELSE refOwners[r] > 0
  <2>1. CASE IncRefCount(r)
    BY <2>1 DEF IncRefCount
  <2>2. CASE DecRefCount(r)
    <3>1. refWord[r] - 1 = refWord[r] + (-1) /\ refOwners[r] - 1 = refOwners[r] + (-1)
      BY <1>0, WordsInRange
    <3>2. /\ [refWord EXCEPT ![r] = @ - 1] = [refWord EXCEPT ![r] = @ + (-1)]
          /\ [refOwners EXCEPT ![r] = @ - 1] = [refOwners EXCEPT ![r] = @ + (-1)]
      BY <3>1
    <3>3. /\ refWord' = [refWord EXCEPT ![r] = @ + (-1)]
          /\ refOwners' = [refOwners EXCEPT ![r] = @ + (-1)] /\ refOwners[r] > 0
      BY <2>2, <3>2 DEF DecRefCount
    <3> QED
      BY <3>3
  <2> QED
    BY <2>1, <2>2
<1>3. PICK d \in {1, -1} :
        /\ refWord' = [refWord EXCEPT ![r] = @ + d]
        /\ refOwners' = [refOwners EXCEPT ![r] = @ + d]
        /\ IF d = 1 THEN Count(refWord[r]) < ActiveBit - 1 ELSE refOwners[r] > 0
  BY <1>2
<1>4. /\ refWord'[r] = refWord[r] + d /\ refOwners'[r] = refOwners[r] + d
      /\ \A q \in Refs : q # r => refWord'[q] = refWord[q] /\ refOwners'[q] = refOwners[q]
      /\ refWord' = [q \in Refs |-> refWord'[q]] /\ refOwners' = [q \in Refs |-> refOwners'[q]]
  BY <1>0, <1>3
<1>5. ActiveBit \in Nat \ {0} /\ refOwners[r] \in 0 .. ActiveBit - 1
  BY <1>0, Widths, WordsInRange
<1>6. Words(handleEntries, refWord', refOwners')
  <2>1. CASE InNoSlot(r, handleEntries, refWord, refOwners)
    <3>1. refOwners'[r] \in 0 .. ActiveBit - 1 /\ refWord'[r] = refOwners'[r]
      BY <1>3, <1>4, <1>5, <2>1 DEF InNoSlot
    <3> QED
      BY <1>0, <1>4, <2>1, <3>1 DEF Words, InNoSlot
  <2>2. ASSUME NEW i \in Slots, InSlot(r, i, handleEntries, refWord, refOwners)
        PROVE  Words(handleEntries, refWord', refOwners')
    <3>1. /\ Count(refWord[r]) = refOwners[r] + 1 /\ refOwners[r] + 1 \in 0 .. ActiveBit - 1
          /\ refWord[r] = Packed(i, refOwners[r] + 1)
          /\ handleEntries[i].inUse /\ handleEntries[i].pointer = r
          /\ \A j \in Slots : handleEntries[j].inUse /\ handleEntries[j].pointer = r => j = i
      BY <2>2 DEF InSlot
    <3>2. refOwners'[r] + 1 \in 0 .. ActiveBit - 1 /\ refOwners'[r] \in 0 .. ActiveBit - 1
      BY <1>3, <1>4, <1>5, <3>1
    <3>3. refWord'[r] = Packed(i, refOwners'[r] + 1)
      <4>1. PICK z : z = i * HandleBit
        OBVIOUS
      <4>2. z \in Nat
        BY Widths, <4>1 DEF Slots
      <4>3. /\ refWord[r] = z + ActiveBit + (refOwners[r] + 1)
            /\ Packed(i, refOwners'[r] + 1) = z + ActiveBit + (refOwners'[r] + 1)
        BY <3>1, <4>1 DEF Packed
      <4> QED
        BY <1>4, <1>5, <4>2, <4>3
    <3>4. \A q \in Refs : refOwners'[q] \in 0 .. ActiveBit - 1
      BY <1>0, <1>4, <3>2 DEF Words
    <3> QED
      BY <1>0, <1>4, <3>1, <3>2, <3>3, <3>4 DEF Words
  <2> QED
    BY <1>0, <2>1, <2>2, SlotOfWord
<1>7. Table'
  BY <1>0, <1>1 DEF Table
<1>8. HandleTypeOK'
  BY <1>0, <1>1, <1>4, <1>6, <1>7, TypesKept DEF HandleTypeOK
<1> QED
  BY <1>0, <1>1, <1>6, <1>7, <1>8 DEF HandleInv
(* A handle is made, or there is none left.                                *)
LEMMA CreateKeeps ==
  ASSUME HandleInv, NEW r \in Refs, NEW manager \in BOOLEAN, CreateHandle(r, manager)
  PROVE  HandleInv'
<1> DEFINE i == freeListHead
           aged == (handleEntries[i].age + 1) % 2^AgeBits
<1>0. /\ HandleTypeOK /\ Table /\ Words(handleEntries, refWord, refOwners)
      /\ Ages(handleEntries, issued) /\ tableState = "used"
      /\ Listed(handleEntries, freeListHead, freeListTail)
      /\ refWord = [q \in Refs |-> refWord[q]] /\ refOwners = [q \in Refs |-> refOwners[q]]
      /\ ~Valid(refWord[r]) /\ Count(refWord[r]) \in 1 .. ActiveBit - 2
      /\ UNCHANGED <<tableState, refOwners>>
  BY DEF HandleInv, HandleTypeOK, CreateHandle
<1>1. CASE i = InvalidIndex
  BY <1>1, <1>0 DEF CreateHandle, OutOfEntriesMessage, Table, HandleTypeOK, HandleInv
<1>2. CASE i # InvalidIndex
  <2>1. /\ Cardinality(issued) < MaxCreations
        /\ handleEntries' = [handleEntries EXCEPT ![i] =
             [handleEntries[i] EXCEPT !.age = aged, !.inUse = TRUE, !.pointer = r]]
        /\ refWord' = [refWord EXCEPT ![r] = WithEntryIndex(refWord[r], i) + 1]
        /\ issued' = issued \cup {[index |-> i, age |-> aged, ref |-> r]}
        /\ IF handleEntries[i].next = i
           THEN freeListHead' = InvalidIndex /\ freeListTail' = InvalidIndex
           ELSE freeListHead' = handleEntries[i].next /\ UNCHANGED freeListTail
        /\ UNCHANGED quitTasks
    BY <1>2 DEF CreateHandle
  <2>2. i \in Slots /\ ~handleEntries[i].inUse
    BY <1>0, <1>2, FirstTaken
  <2>3. /\ handleEntries[i] \in [next : Slots, age : 0 .. 2^AgeBits - 1,
                                 inUse : BOOLEAN, pointer : Refs \cup {NoRef}]
        /\ \A j \in Slots : handleEntries[j].age \in Nat
    BY <1>0, <2>2, Widths DEF Table
  <2>4. aged = handleEntries[i].age + 1 /\ aged \in 0 .. 2^AgeBits - 1
    <3>1. PICK a, P, c : a = handleEntries[i].age /\ P = 2^AgeBits /\ c = Cardinality(issued)
      OBVIOUS
    <3>2. a \in Nat /\ P \in Nat \ {0} /\ c \in Nat /\ a <= c /\ c < MaxCreations
          /\ MaxCreations \in Nat /\ MaxCreations < P
      BY <1>0, <2>1, <2>2, <2>3, <3>1, Widths, FS_CardinalityType DEF Ages
    <3>3. a + 1 \in 0 .. P - 1
      BY <3>2
    <3>4. (0 * P + (a + 1)) % P = a + 1
      BY <3>2, <3>3, Quotient
    <3>5. 0 * P + (a + 1) = a + 1
      BY <3>2
    <3> QED
      BY <3>1, <3>3, <3>4, <3>5
  <2> HIDE DEF aged
  <2>5. /\ handleEntries'[i] = [next |-> handleEntries[i].next, age |-> aged,
                                inUse |-> TRUE, pointer |-> r]
        /\ \A j \in Slots : j # i => handleEntries'[j] = handleEntries[j]
        /\ handleEntries' = [j \in Slots |-> handleEntries'[j]]
    BY <1>0, <2>1, <2>2, <2>3 DEF Table
  <2>6. Table'
    <3>1. handleEntries'[i] \in [next : Slots, age : 0 .. 2^AgeBits - 1,
                                 inUse : BOOLEAN, pointer : Refs \cup {NoRef}]
      BY <2>3, <2>4, <2>5
    <3> QED
      BY <1>0, <2>5, <3>1 DEF Table
  <2>7. Listed(handleEntries', freeListHead', freeListTail')
    <3>1. PICK table2 : table2 = handleEntries'
      OBVIOUS
    <3>2. \A j \in Slots : table2[j].next = handleEntries[j].next
              /\ (table2[j].inUse <=> handleEntries[j].inUse \/ j = i)
      BY <2>5, <3>1
    <3>3. IF handleEntries[i].next = i THEN Listed(table2, InvalidIndex, InvalidIndex)
          ELSE Listed(table2, handleEntries[i].next, freeListTail)
      BY <1>0, <1>2, <3>2, FirstTaken
    <3> QED
      BY <2>1, <3>1, <3>3
  <2>8. Ages(handleEntries', issued')
    <3>1. PICK table2 : table2 = handleEntries'
      OBVIOUS
    <3>2. /\ \A j \in Slots : j # i => table2[j] = handleEntries[j]
          /\ table2[i].age = handleEntries[i].age + 1 /\ table2[i].pointer = r
      BY <2>4, <2>5, <3>1
    <3>3. Ages(table2, issued \cup {[index |-> i, age |-> handleEntries[i].age + 1, ref |-> r]})
      <4> HIDE DEF i
      <4> QED
        BY <1>0, <2>1, <2>2, <2>3, <3>2, AgesRise
    <3> QED
      BY <2>1, <2>4, <3>1, <3>3
  <2>9. Words(handleEntries', refWord', refOwners')
    <3>1. ~ \E j \in Slots : InSlot(r, j, handleEntries, refWord, refOwners)
      BY <1>0 DEF InSlot
    <3>2. /\ refWord[r] = refOwners[r] /\ Count(refWord[r]) = refOwners[r]
          /\ \A j \in Slots : handleEntries[j].inUse => handleEntries[j].pointer # r
      BY <1>0, <3>1, SlotOfWord DEF InNoSlot
    <3>3. refOwners[r] + 1 \in 0 .. ActiveBit - 1
      BY <1>0, <3>2, Widths
    <3>4. refWord'[r] = Packed(i, refOwners[r] + 1)
      <4>1. PICK z, c : z = i * HandleBit /\ c = refOwners[r]
        OBVIOUS
      <4>2. z \in Nat /\ c \in Nat /\ ActiveBit \in Nat
        BY <2>2, Widths, <1>0, <3>2, <4>1 DEF Slots
      <4>3. WithEntryIndex(refWord[r], i) + 1 = z + ActiveBit + c + 1
        BY <3>2, <4>1 DEF WithEntryIndex
      <4>4. refWord'[r] = z + ActiveBit + c + 1
        BY <1>0, <2>1, <4>3
      <4> QED
        BY <4>1, <4>2, <4>4 DEF Packed
    <3>5. /\ \A q \in Refs : q # r => refWord'[q] = refWord[q]
          /\ refOwners' = refOwners
      BY <1>0, <2>1
    <3>6. ASSUME NEW j \in Slots, handleEntries'[j].inUse
          PROVE  /\ handleEntries'[j].pointer \in Refs
                 /\ refOwners[handleEntries'[j].pointer] + 1 \in 0 .. ActiveBit - 1
                 /\ refWord'[handleEntries'[j].pointer] =
                        Packed(j, refOwners[handleEntries'[j].pointer] + 1)
      <4>1. CASE j = i
        BY <2>5, <3>3, <3>4, <4>1
      <4>2. CASE j # i
        <5>1. handleEntries'[j] = handleEntries[j] /\ handleEntries[j].inUse
          BY <2>5, <3>6, <4>2
        <5>2. handleEntries[j].pointer # r
          BY <3>2, <5>1
        <5>3. PICK q : q = handleEntries[j].pointer
          OBVIOUS
        <5>4. /\ q \in Refs /\ refOwners[q] + 1 \in 0 .. ActiveBit - 1
              /\ refWord[q] = Packed(j, refOwners[q] + 1)
          BY <1>0, <5>1, <5>3 DEF Words
        <5>5. refWord'[q] = refWord[q] /\ handleEntries'[j].pointer = q
          BY <3>5, <5>1, <5>2, <5>3, <5>4
        <5> QED
          BY <5>4, <5>5
      <4> QED
        BY <4>1, <4>2
    <3>7. ASSUME NEW q \in Refs,
                 \A j \in Slots : handleEntries'[j].inUse => handleEntries'[j].pointer # q
          PROVE  refWord'[q] = refOwners[q]
      BY <2>2, <2>5, <3>7, <1>0, <3>5 DEF Words
    <3>8. \A q \in Refs : refOwners[q] \in 0 .. ActiveBit - 1
      BY <1>0 DEF Words
    <3> QED
      BY <3>5, <3>6, <3>7, <3>8 DEF Words
  <2>10. HandleTypeOK'
    BY <1>0, <2>1, <2>3, <2>6, <2>9, TypesKept DEF HandleTypeOK
  <2> QED
    BY <2>6, <2>7, <2>8, <2>9, <2>10 DEF HandleInv
<1> QED
  BY <1>1, <1>2

(* A handle's slot is freed, and goes to the end of the list.              *)
LEMMA DestroyKeeps ==
  ASSUME HandleInv, NEW h \in issued, Destroy(h)
  PROVE  HandleInv'
<1> DEFINE i == h.index
           r == handleEntries[i].pointer
<1>0. /\ HandleTypeOK /\ Table /\ Words(handleEntries, refWord, refOwners)
      /\ Ages(handleEntries, issued) /\ tableState = "used"
      /\ Listed(handleEntries, freeListHead, freeListTail)
      /\ refWord = [q \in Refs |-> refWord[q]] /\ refOwners = [q \in Refs |-> refOwners[q]]
  BY DEF HandleInv, HandleTypeOK, Destroy
<1>1. i \in Slots /\ handleEntries[i].inUse
  BY <1>0 DEF Ages, Destroy, IsValid
<1>2. /\ handleEntries' = Appended(i)
      /\ freeListHead' = IF freeListTail = InvalidIndex THEN i ELSE freeListHead
      /\ freeListTail' = i
      /\ refWord' = [refWord EXCEPT ![r] = Cleared(refWord[r]) - 1]
      /\ UNCHANGED <<tableState, refOwners, issued, quitTasks>>
  BY DEF Destroy
<1>3. r \in Refs
  BY <1>0, <1>1 DEF Words
<1> HIDE DEF i, r
<1>4. \A j \in Slots :
        handleEntries[j] \in [next : Slots, age : 0 .. 2^AgeBits - 1,
                              inUse : BOOLEAN, pointer : Refs \cup {NoRef}]
  BY <1>0 DEF Table
<1>5. /\ handleEntries' = [j \in Slots |-> handleEntries'[j]]
      /\ \A j \in Slots : handleEntries'[j] =
           IF j = i THEN [handleEntries[j] EXCEPT !.next = i, !.inUse = FALSE, !.pointer = NoRef]
           ELSE IF j = freeListTail THEN [handleEntries[j] EXCEPT !.next = i]
           ELSE handleEntries[j]
  BY <1>2 DEF Appended
<1>6. \A j \in Slots :
        /\ handleEntries'[j].next = IF j \in {i, freeListTail} THEN i ELSE handleEntries[j].next
        /\ handleEntries'[j].age = handleEntries[j].age
        /\ handleEntries'[j].inUse = (handleEntries[j].inUse /\ j # i)
        /\ handleEntries'[j].pointer = IF j = i THEN NoRef ELSE handleEntries[j].pointer
  <2> TAKE j \in Slots
  <2>1. handleEntries[j] \in [next : Slots, age : 0 .. 2^AgeBits - 1,
                              inUse : BOOLEAN, pointer : Refs \cup {NoRef}]
    BY <1>4
  <2>2. CASE j = i
    BY <1>5, <2>1, <2>2
  <2>3. CASE j # i /\ j = freeListTail
    BY <1>5, <2>1, <2>3
  <2>4. CASE j # i /\ j # freeListTail
    BY <1>5, <2>1, <2>4
  <2> QED
    BY <2>2, <2>3, <2>4
<1>7. Table'
  <2>1. ASSUME NEW j \in Slots
        PROVE  handleEntries'[j] \in [next : Slots, age : 0 .. 2^AgeBits - 1,
                                      inUse : BOOLEAN, pointer : Refs \cup {NoRef}]
    <3>1. handleEntries[j] \in [next : Slots, age : 0 .. 2^AgeBits - 1,
                                inUse : BOOLEAN, pointer : Refs \cup {NoRef}]
      BY <1>4
    <3> QED
      BY <1>1, <1>5, <3>1
  <2>2. \A j \in Slots : handleEntries'[j].inUse => tableState' = "used"
    BY <1>0, <1>2
  <2> QED
    BY <1>5, <2>1, <2>2 DEF Table
<1>8. Ages(handleEntries', issued')
  <2>1. \A j \in Slots : handleEntries'[j].age = handleEntries[j].age
          /\ (handleEntries'[j].inUse =>
                handleEntries[j].inUse /\ handleEntries'[j].pointer = handleEntries[j].pointer)
    BY <1>6
  <2> QED
    BY <1>0, <1>2, <2>1, AgesStay
<1>9. Listed(handleEntries', freeListHead', freeListTail')
  <2>1. PICK table, table2, m, more :
          table = handleEntries /\ table2 = handleEntries' /\ m = 1 /\ more = [k \in 1 .. 1 |-> i]
    OBVIOUS
  <2>2. more \in [1 .. m -> Slots] /\ more[1] = i /\ more[m] = i /\ m \in Nat \ {0}
        /\ \A k \in 1 .. m : k = 1
    BY <1>1, <2>1
  <2>3. \A k, j \in 1 .. m : more[k] = more[j] => k = j
    BY <2>2
  <2>4. \A k \in 1 .. m : table[more[k]].inUse
                          /\ table2[more[k]].next = more[IF k = m THEN m ELSE k + 1]
    BY <1>1, <1>6, <2>1, <2>2
  <2>5. \A j \in Slots : ~table2[j].inUse <=> ~table[j].inUse \/ \E k \in 1 .. m : more[k] = j
    <3> TAKE j \in Slots
    <3>1. (\E k \in 1 .. m : more[k] = j) <=> j = i
      BY <2>2
    <3>2. table2[j].inUse = (table[j].inUse /\ j # i)
      BY <1>6, <2>1
    <3> QED
      BY <3>1, <3>2
  <2>6. \A j \in Slots : ~table[j].inUse =>
            table2[j].next = IF j = freeListTail THEN more[1] ELSE table[j].next
    BY <1>1, <1>6, <2>1, <2>2
  <2>7. Listed(table, freeListHead, freeListTail)
    BY <1>0, <2>1
  <2>8. Listed(table2, IF freeListTail = InvalidIndex THEN more[1] ELSE freeListHead, more[m])
    BY <2>2, <2>3, <2>4, <2>5, <2>6, <2>7, ListsJoined
  <2> QED
    BY <1>2, <2>1, <2>2, <2>8
<1>10. Words(handleEntries', refWord', refOwners')
  <2>1. InSlot(r, i, handleEntries, refWord, refOwners)
    BY <1>0, <1>1, <1>3, SlotOfWord DEF InSlot, InNoSlot, r
  <2>2. /\ Count(refWord[r]) = refOwners[r] + 1 /\ refOwners[r] \in 0 .. ActiveBit - 1
        /\ \A j \in Slots : handleEntries[j].inUse /\ handleEntries[j].pointer = r => j = i
    BY <1>0, <1>3, <2>1, WordsInRange DEF InSlot
  <2>3. Cleared(refWord[r]) - 1 = refOwners[r]
    BY <2>2, Widths DEF Cleared
  <2>4. refWord'[r] = refOwners[r] /\ \A q \in Refs : q # r => refWord'[q] = refWord[q]
    BY <1>0, <1>2, <1>3, <2>3
  <2>5. refOwners' = refOwners
    BY <1>2
  <2>6. ASSUME NEW j \in Slots, handleEntries'[j].inUse
        PROVE  /\ handleEntries'[j].pointer \in Refs
               /\ refOwners[handleEntries'[j].pointer] + 1 \in 0 .. ActiveBit - 1
               /\ refWord'[handleEntries'[j].pointer] =
                      Packed(j, refOwners[handleEntries'[j].pointer] + 1)
    <3>1. j # i /\ handleEntries[j].inUse /\ handleEntries'[j].pointer = handleEntries[j].pointer
      BY <1>6, <2>6
    <3>2. handleEntries[j].pointer # r
      BY <2>2, <3>1
    <3>3. PICK q : q = handleEntries[j].pointer
      OBVIOUS
    <3>4. /\ q \in Refs /\ refOwners[q] + 1 \in 0 .. ActiveBit - 1
          /\ refWord[q] = Packed(j, refOwners[q] + 1)
      BY <1>0, <3>1, <3>3 DEF Words
    <3>5. refWord'[q] = refWord[q] /\ handleEntries'[j].pointer = q
      BY <2>4, <3>1, <3>2, <3>3, <3>4
    <3> QED
      BY <3>4, <3>5
  <2>7. ASSUME NEW q \in Refs,
               \A j \in Slots : handleEntries'[j].inUse => handleEntries'[j].pointer # q
        PROVE  refWord'[q] = refOwners[q]
    <3>1. CASE q = r
      BY <2>4, <3>1
    <3>2. CASE q # r
      <4>1. \A j \in Slots : handleEntries[j].inUse => handleEntries[j].pointer # q
        BY <1>6, <2>7, <3>2 DEF r
      <4> QED
        BY <1>0, <2>4, <3>2, <4>1 DEF Words
    <3> QED
      BY <3>1, <3>2
  <2>8. \A q \in Refs : refOwners[q] \in 0 .. ActiveBit - 1
    BY <1>0 DEF Words
  <2> QED
    BY <2>5, <2>6, <2>7, <2>8 DEF Words
<1>11. HandleTypeOK'
  BY <1>0, <1>1, <1>2, <1>7, <1>10, TypesKept DEF HandleTypeOK
<1> QED
  BY <1>7, <1>8, <1>9, <1>10, <1>11 DEF HandleInv

(* What KillSDM frees is behind what was free, in the order of the slots.  *)
LEMMA KillKeeps ==
  ASSUME HandleInv, KillSDM
  PROVE  HandleInv'
<1> DEFINE used == {i \in Slots : handleEntries[i].inUse}
           after(i) == {j \in used : j > i}
           least(S) == CHOOSE i \in S : \A j \in S : i <= j
           last == CHOOSE i \in used : \A j \in used : j <= i
           freed(i) == CASE i \in used /\ after(i) # {} ->
                            [handleEntries[i] EXCEPT !.next = least(after(i)), !.inUse = FALSE,
                                                     !.pointer = NoRef]
                         [] i \in used /\ after(i) = {} ->
                            [handleEntries[i] EXCEPT !.next = i, !.inUse = FALSE,
                                                     !.pointer = NoRef]
                         [] i \notin used /\ i = freeListTail /\ used # {} ->
                            [handleEntries[i] EXCEPT !.next = least(used)]
                         [] OTHER -> handleEntries[i]
<1>0. /\ HandleTypeOK /\ Table /\ Words(handleEntries, refWord, refOwners)
      /\ Ages(handleEntries, issued) /\ tableState = "used"
      /\ Listed(handleEntries, freeListHead, freeListTail)
      /\ refOwners = [q \in Refs |-> refOwners[q]]
  BY DEF HandleInv, HandleTypeOK, KillSDM
<1>1. /\ tableState' = "killed"
      /\ handleEntries' = [i \in Slots |-> freed(i)]
      /\ refWord' = [r \in Refs |-> IF \E i \in used : handleEntries[i].pointer = r
                                    THEN Cleared(refWord[r]) - 1 ELSE refWord[r]]
      /\ freeListHead' = IF freeListTail = InvalidIndex /\ used # {} THEN least(used)
                         ELSE freeListHead
      /\ freeListTail' = IF used = {} THEN freeListTail ELSE last
      /\ UNCHANGED <<refOwners, issued, quitTasks>>
  BY DEF KillSDM
<1>2. \A i \in Slots :
        handleEntries[i] \in [next : Slots, age : 0 .. 2^AgeBits - 1,
                              inUse : BOOLEAN, pointer : Refs \cup {NoRef}]
  BY <1>0 DEF Table
<1>3. used \subseteq Slots /\ \A i \in used : i \in Nat
  BY Widths DEF Slots
<1>4. PICK m, more : Ordered(used, m, more)
  <2> HIDE DEF used
  <2> QED
    BY <1>3, SlotsHaveOrder
<1>5. /\ m \in Nat /\ more \in [1 .. m -> used]
      /\ \A k, j \in 1 .. m : k < j => more[k] < more[j]
      /\ \A x \in used : \E k \in 1 .. m : more[k] = x
      /\ \A k \in 1 .. m : more[k] \in Nat
  <2> HIDE DEF used
  <2> QED
    BY <1>3, <1>4 DEF Ordered
<1> HIDE DEF used
<1>6. \A k, j \in 1 .. m : more[k] = more[j] => k = j
  <2> TAKE k, j \in 1 .. m
  <2>1. more[k] \in Nat /\ more[j] \in Nat /\ k \in Nat /\ j \in Nat
    BY <1>5
  <2>2. k < j \/ j < k \/ k = j
    BY <2>1
  <2> QED
    BY <1>5, <2>1, <2>2
<1>7. used = {} <=> m = 0
  BY <1>5
<1>8. ASSUME NEW k \in 1 .. m, k # m
      PROVE  after(more[k]) # {} /\ least(after(more[k])) = more[k + 1]
  <2>1. k + 1 \in 1 .. m
    BY <1>5, <1>8
  <2>2. more[k + 1] \in after(more[k])
    BY <1>5, <2>1
  <2>3. ASSUME NEW x \in after(more[k]) PROVE more[k + 1] <= x
    <3>1. PICK j \in 1 .. m : more[j] = x
      BY <1>5
    <3>2. more[j] > more[k]
      BY <3>1
    <3>3. ~(j < k) /\ j # k
      BY <1>5, <3>2
    <3>4. j = k + 1 \/ k + 1 < j
      BY <1>5, <3>3
    <3> QED
      BY <1>5, <2>1, <3>1, <3>4
  <2>4. PICK S : S = after(more[k])
    OBVIOUS
  <2>5. \A x \in S : x \in Nat
    BY <1>3, <2>4
  <2>6. least(S) \in S /\ \A x \in S : least(S) <= x
    BY <2>2, <2>3, <2>4
  <2> HIDE DEF least
  <2>7. least(S) <= more[k + 1] /\ more[k + 1] <= least(S)
    BY <2>2, <2>3, <2>4, <2>6
  <2>8. least(S) \in Nat /\ more[k + 1] \in Nat
    BY <2>2, <2>4, <2>5, <2>6
  <2>9. least(S) = more[k + 1]
    BY <2>7, <2>8
  <2> QED
    BY <2>2, <2>4, <2>9
<1>9. ASSUME m # 0 PROVE least(used) = more[1] /\ last = more[m] /\ after(more[m]) = {}
  <2>1. 1 \in 1 .. m /\ m \in 1 .. m /\ m \in Nat
    BY <1>5, <1>9
  <2>2. \A x \in used : more[1] <= x /\ x <= more[m]
    <3> TAKE x \in used
    <3>1. PICK j \in 1 .. m : more[j] = x
      BY <1>5
    <3>2. (j = 1 \/ 1 < j) /\ (j = m \/ j < m)
      BY <2>1
    <3> QED
      BY <1>5, <2>1, <3>1, <3>2
  <2>3. more[1] \in used /\ more[m] \in used
    BY <1>5, <2>1
  <2>4. least(used) \in used /\ \A x \in used : least(used) <= x
    BY <2>2, <2>3
  <2>5. last \in used /\ \A x \in used : x <= last
    BY <2>2, <2>3
  <2> HIDE DEF least, last
  <2>6. least(used) <= more[1] /\ more[1] <= least(used) /\ last <= more[m] /\ more[m] <= last
    BY <2>2, <2>3, <2>4, <2>5
  <2>7. after(more[m]) = {}
    BY <1>3, <2>2, <2>3
  <2> QED
    BY <1>3, <2>3, <2>4, <2>5, <2>6, <2>7
<1> HIDE DEF least, last, after
<1>10. ASSUME NEW i \in Slots
       PROVE  /\ handleEntries'[i] \in [next : Slots, age : 0 .. 2^AgeBits - 1,
                                        inUse : BOOLEAN, pointer : Refs \cup {NoRef}]
              /\ handleEntries'[i].age = handleEntries[i].age /\ ~handleEntries'[i].inUse
              /\ ~handleEntries[i].inUse => handleEntries'[i].next =
                    IF i = freeListTail /\ m # 0 THEN more[1] ELSE handleEntries[i].next
              /\ \A k \in 1 .. m : i = more[k] =>
                    handleEntries'[i].next = more[IF k = m THEN m ELSE k + 1]
  <2>1. handleEntries[i] \in [next : Slots, age : 0 .. 2^AgeBits - 1,
                              inUse : BOOLEAN, pointer : Refs \cup {NoRef}]
    BY <1>2
  <2>2. handleEntries'[i] = freed(i)
    BY <1>1
  <2>3. handleEntries[i].inUse <=> i \in used
    BY DEF used
  <2>4. CASE i \in used
    <3>1. PICK k \in 1 .. m : more[k] = i
      BY <1>5, <2>4
    <3>2. \A j \in 1 .. m : i = more[j] => j = k
      BY <1>6, <3>1
    <3>3. CASE k = m
      <4>1. freed(i) = [handleEntries[i] EXCEPT !.next = i, !.inUse = FALSE, !.pointer = NoRef]
        BY <1>9, <2>4, <3>1, <3>3
      <4> HIDE DEF freed
      <4>2. handleEntries'[i] = [next |-> i, age |-> handleEntries[i].age, inUse |-> FALSE,
                                 pointer |-> NoRef]
        BY <2>1, <2>2, <4>1
      <4>3. \A j \in 1 .. m : i = more[j] => j = m /\ more[m] = i
        BY <3>1, <3>2, <3>3
      <4>4. handleEntries[i].inUse
        BY <2>3, <2>4
      <4> QED
        BY <2>1, <4>2, <4>3, <4>4
    <3>4. CASE k # m
      <4>1. freed(i) = [handleEntries[i] EXCEPT !.next = more[k + 1], !.inUse = FALSE,
                                                !.pointer = NoRef]
        BY <1>8, <2>4, <3>1, <3>4
      <4>2. more[k + 1] \in Slots
        BY <1>3, <1>5, <3>4
      <4> HIDE DEF freed
      <4>3. handleEntries'[i] = [next |-> more[k + 1], age |-> handleEntries[i].age,
                                 inUse |-> FALSE, pointer |-> NoRef]
        BY <2>1, <2>2, <4>1
      <4>4. \A j \in 1 .. m : i = more[j] => j = k /\ j # m
        BY <3>2, <3>4
      <4>5. handleEntries[i].inUse
        BY <2>3, <2>4
      <4> QED
        BY <2>1, <4>2, <4>3, <4>4, <4>5
    <3> QED
      BY <3>3, <3>4
  <2>5. CASE i \notin used
    <3>1. \A k \in 1 .. m : i # more[k]
      BY <1>5, <2>5
    <3>2. CASE i = freeListTail /\ m # 0
      <4>1. freed(i) = [handleEntries[i] EXCEPT !.next = more[1]]
        BY <1>7, <1>9, <2>5, <3>2
      <4>2. more[1] \in Slots
        BY <1>3, <1>5, <3>2
      <4> HIDE DEF freed
      <4> QED
        BY <2>1, <2>2, <2>3, <2>5, <3>1, <3>2, <4>1, <4>2
    <3>3. CASE ~(i = freeListTail /\ m # 0)
      <4>1. freed(i) = handleEntries[i]
        BY <1>7, <2>5, <3>3
      <4> HIDE DEF freed
      <4> QED
        BY <2>1, <2>2, <2>3, <2>5, <3>1, <3>3, <4>1
    <3> QED
      BY <3>2, <3>3
  <2> QED
    BY <2>4, <2>5
<1> HIDE DEF freed
<1>11. Table'
  BY <1>1, <1>10 DEF Table
<1>12. Ages(handleEntries', issued')
  BY <1>10, <1>0, <1>1, AgesStay
<1>13. Listed(handleEntries', freeListHead', freeListTail')
  <2>1. PICK table, table2 : table = handleEntries /\ table2 = handleEntries'
    OBVIOUS
  <2>2. CASE m = 0
    BY <1>7, <1>10, <2>1, <2>2, <1>0, ListStays, <1>1 DEF used
  <2>3. CASE m # 0
    <3>1. m \in Nat \ {0} /\ more \in [1 .. m -> Slots]
      BY <1>3, <1>5, <2>3
    <3>2. \A k \in 1 .. m : table[more[k]].inUse
                            /\ table2[more[k]].next = more[IF k = m THEN m ELSE k + 1]
      <4> TAKE k \in 1 .. m
      <4>1. more[k] \in Slots /\ more[k] \in used
        BY <1>5, <3>1
      <4> QED
        BY <1>10, <2>1, <4>1 DEF used
    <3>3. \A i \in Slots : ~table2[i].inUse <=>
                               ~table[i].inUse \/ \E k \in 1 .. m : more[k] = i
      BY <1>5, <1>10, <2>1 DEF used
    <3>4. \A i \in Slots : ~table[i].inUse =>
              table2[i].next = IF i = freeListTail THEN more[1] ELSE table[i].next
      BY <1>10, <2>1, <2>3
    <3>5. Listed(table, freeListHead, freeListTail)
      BY <1>0, <2>1
    <3>6. \A k, j \in 1 .. m : more[k] = more[j] => k = j
      BY <1>6
    <3>7. Listed(table2, IF freeListTail = InvalidIndex THEN more[1] ELSE freeListHead, more[m])
      BY <3>1, <3>2, <3>3, <3>4, <3>5, <3>6, ListsJoined, SMTT(60)
    <3> QED
      BY <1>1, <1>7, <1>9, <2>1, <2>3, <3>7
  <2> QED
    BY <2>2, <2>3
<1>14. ASSUME NEW q \in Refs PROVE refWord'[q] = refOwners[q]
  BY <1>1, <1>3, <1>0, Widths, WordsInRange, SlotOfWord DEF InNoSlot, used, InSlot, Cleared
<1>15. Words(handleEntries', refWord', refOwners')
  BY <1>0, <1>1, <1>10, <1>14 DEF Words
<1>16. HandleTypeOK'
  <2>1. {freeListHead', freeListTail'} \subseteq Slots \cup {InvalidIndex}
    <3>1. {freeListHead, freeListTail} \subseteq Slots \cup {InvalidIndex}
      BY <1>0 DEF HandleTypeOK
    <3>2. CASE m = 0
      BY <1>1, <1>7, <3>1, <3>2
    <3>3. CASE m # 0
      BY <1>3, <1>5, <3>3, <1>1, <1>7, <1>9, <3>1
    <3> QED
      BY <3>2, <3>3
  <2>2. refWord' = [q \in Refs |-> refWord'[q]] /\ refOwners' = [q \in Refs |-> refOwners'[q]]
    BY <1>0, <1>1
  <2>3. tableState' \in {"none", "used", "killed"} /\ quitTasks' \in 0 .. 1
    BY <1>0, <1>1 DEF HandleTypeOK
  <2> QED
    BY <1>11, <1>15, <2>1, <2>2, <2>3, TypesKept
<1> QED
  BY <1>11, <1>12, <1>13, <1>15, <1>16 DEF HandleInv

-----------------------------------------------------------------------------
(* The invariant gives the properties.                                     *)

(* The list of the proof is the one the invariant asks for.                *)
LEMMA ListIsFreeList ==
  ASSUME HandleInv
  PROVE  FreeListIsWhole
<1> DEFINE free == {i \in Slots : ~handleEntries[i].inUse}
<1> SUFFICES ASSUME tableState # "none"
             PROVE  \E list \in [1 .. Cardinality(free) -> free] :
                      LET n == Cardinality(free) IN
                      /\ \A k, m \in 1 .. n : list[k] = list[m] => k = m
                      /\ \A k \in 1 .. n :
                           handleEntries[list[k]].next = list[IF k = n THEN n ELSE k + 1]
                      /\ freeListHead = IF n = 0 THEN InvalidIndex ELSE list[1]
                      /\ freeListTail = IF n = 0 THEN InvalidIndex ELSE list[n]
  BY DEF FreeListIsWhole
<1>1. PICK n, list : IsList(list, n, handleEntries, freeListHead, freeListTail)
  BY DEF HandleInv, Listed
<1>2. n \in Nat /\ list \in [1 .. n -> free] /\ \A x \in free : \E k \in 1 .. n : list[k] = x
  BY <1>1 DEF IsList
<1>3. \A k, m \in 1 .. n : list[k] = list[m] => k = m
  BY <1>1 DEF IsList
<1> HIDE DEF free
<1>4. list \in Bijection(1 .. n, free)
  BY <1>2, <1>3 DEF Bijection, Injection, IsInjective, Surjection
<1>5. Cardinality(free) = n
  BY <1>4, <1>2, FS_Interval, FS_CountingElements DEF ExistsBijection
<1> QED
  BY <1>1, <1>2, <1>3, <1>5 DEF IsList

(* What the words and ages say gives what a handle leads to.               *)
LEMMA WordsLeadHome ==
  ASSUME HandleInv
  PROVE  HandlesLeadHome
<1>0. /\ Words(handleEntries, refWord, refOwners) /\ Ages(handleEntries, issued) /\ Table
  BY DEF HandleInv
<1>1. ASSUME NEW i \in Slots, handleEntries[i].inUse
      PROVE  /\ handleEntries[i].pointer \in Refs
             /\ Valid(refWord[handleEntries[i].pointer])
             /\ EntryIndex(refWord[handleEntries[i].pointer]) = i
  <2>1. PICK r : r = handleEntries[i].pointer
    OBVIOUS
  <2>2. r \in Refs
    BY <1>0, <1>1, <2>1 DEF Words
  <2>3. InSlot(r, i, handleEntries, refWord, refOwners)
    BY <1>0, <1>1, <2>1, <2>2, SlotOfWord DEF InSlot, InNoSlot
  <2> QED
    BY <2>1, <2>2, <2>3 DEF InSlot
<1>2. ASSUME NEW r \in Refs
      PROVE  /\ Count(refWord[r]) = refOwners[r] + (IF Valid(refWord[r]) THEN 1 ELSE 0)
             /\ Valid(refWord[r]) =>
                  tableState = "used" /\ handleEntries[EntryIndex(refWord[r])].pointer = r
  BY <1>0, Widths, WordsInRange, SlotOfWord DEF InNoSlot, InSlot, Table
<1>3. ASSUME NEW h \in issued PROVE GetSmartPointer(h) \in {NoRef, h.ref}
  BY <1>0, <1>3 DEF Ages, GetSmartPointer, IsValid
<1> QED
  BY <1>1, <1>2, <1>3 DEF HandlesLeadHome

(* Every operation on the table keeps its invariant.                       *)
LEMMA HandlesStep == HandleInv /\ [HandleNext]_handleVars => HandleInv'
<1> SUFFICES ASSUME HandleInv, [HandleNext]_handleVars PROVE HandleInv'
  OBVIOUS
<1>1. CASE UNCHANGED handleVars
  BY <1>1 DEF handleVars, HandleInv, HandleTypeOK, Table
<1>2. CASE InitSDM
  BY <1>2, InitKeeps
<1>3. ASSUME NEW r \in Refs, IncRefCount(r) \/ DecRefCount(r) PROVE HandleInv'
  BY <1>3, CountingKeeps
<1>4. ASSUME NEW r \in Refs, NEW manager \in BOOLEAN, CreateHandle(r, manager) PROVE HandleInv'
  BY <1>4, CreateKeeps
<1>5. ASSUME NEW h \in issued, Destroy(h) PROVE HandleInv'
  BY <1>5, DestroyKeeps
<1>6. CASE KillSDM
  BY <1>6, KillKeeps
<1> QED
  BY <1>1, <1>2, <1>3, <1>4, <1>5, <1>6 DEF HandleNext

(* The free list holds every slot that is not in use, once and in reach of *)
(* the head, and a handle leads to the reference it was made for or to     *)
(* none, for any widths of the fields and any number of references.        *)
THEOREM HandlesAlwaysWhole == HandleSpec => []HandlesAreWhole
<1>1. HandleInv => HandlesAreWhole
  BY ListIsFreeList, WordsLeadHome DEF HandleInv, HandlesAreWhole
<1> QED
  BY <1>1, HandlesStart, HandlesStep, PTL DEF HandleSpec

-----------------------------------------------------------------------------
(* The streams served by the plugin (OwnedInflate).                         *)

(* A stream's own numbers.                                                 *)
Decoders == [taken : 0..InputLength, made : 0..OutputLength, dictionary : BOOLEAN,
             failed : BOOLEAN]
StreamViews == [state : StateIds \cup {NoState, Stock}, nextIn : 0..InputLength,
                availIn : 0..InputLength, totalIn : 0..InputLength,
                delivered : 0..OutputLength, finished : BOOLEAN]
OwnedStates == [owner : Streams \cup {NoStream}, policy : {"Undecided", "Streaming", "Done"},
                held : 0..1, token : {"none", "live", "spent"}, decoder : Decoders]

ViewFits(view) ==
  /\ view \in StreamViews
  /\ view.nextIn + view.availIn <= InputLength
  /\ view.totalIn <= view.nextIn

ViewIsWhole(kind, view) ==
  /\ ViewFits(view)
  /\ view.finished => /\ view.delivered = OutputLength /\ view.nextIn = InputLength
                      /\ kind # "corrupt"

(* A stream that is streamed and its decoder.                              *)
Mirrored(kind, view, held, d) ==
  /\ d \in Decoders /\ d.made <= Output[d.taken] /\ held \in 0..1
  /\ kind = "dictionary" /\ ~d.dictionary => d.taken <= HeaderLength
  /\ d.taken = view.nextIn + held /\ held <= view.availIn
  /\ d.made = view.delivered
  /\ kind # "dictionary" => view.totalIn = view.nextIn
  /\ ~d.failed /\ view.availIn = 0 => d.made = Output[d.taken]

(* A stream and the state it owns.                                         *)
Agree(kind, view, state) ==
  /\ state.policy = "Undecided" =>
        /\ view.nextIn = 0 /\ view.availIn = 0 /\ view.totalIn = 0
        /\ view.delivered = 0 /\ ~view.finished
        /\ state.decoder = FreshDecoder /\ state.held = 0
  /\ state.policy = "Done" => /\ view.nextIn = InputLength /\ view.delivered = OutputLength
                              /\ kind # "corrupt"
  /\ state.policy = "Streaming" => Mirrored(kind, view, state.held, state.decoder)

(* A live state has its owner's stream and agrees with it; the others are  *)
(* as at the start.                                                        *)
Owned(kind, views, all) ==
  /\ \A id \in StateIds : IF all[id].owner # NoStream
                          THEN /\ all[id].owner \in Streams
                               /\ views[all[id].owner].state = id
                               /\ Agree(kind, views[all[id].owner], all[id])
                          ELSE all[id] = Free
  /\ \A s \in Streams : views[s].state \in StateIds => all[views[s].state].owner # NoStream

InflateInv ==
  /\ content \in {"sound", "corrupt", "dictionary"}
  /\ streams \in [Streams -> StreamViews]
  /\ \A s \in Streams : ViewIsWhole(content, streams[s])
  /\ states \in [StateIds -> OwnedStates]
  /\ openTokens \in Nat /\ openTokens = LiveTokens(states)
  /\ Owned(content, streams, states)

-----------------------------------------------------------------------------
(* The numbers of a compressed stream.                                     *)
LEMMA Lengths ==
  /\ InputLength \in Nat /\ HeaderLength \in 2..InputLength - 1 /\ OutputLength \in Nat
  /\ Output \in [0..InputLength -> Nat] /\ Output[HeaderLength] = 0 /\ Output[0] = 0
  /\ \A m, n \in 0..InputLength : m <= n => Output[m] <= Output[n]
  /\ \A n \in 0..InputLength : Output[n] \in 0..OutputLength
  BY OwnedInflateAssumption DEF OutputLength

(* The smaller of two numbers, and the largest of some below a bound.      *)
LEMMA MinOfTwo ==
  ASSUME NEW a \in Int, NEW b \in Int
  PROVE  Min({a, b}) = IF a <= b THEN a ELSE b
<1>1. PICK S : S = {a, b}
  OBVIOUS
<1> DEFINE x == Min(S)
<1>2. x \in S /\ \A y \in S : x <= y
  BY <1>1 DEF Min
<1> HIDE DEF x
<1>3. x = IF a <= b THEN a ELSE b
  BY <1>1, <1>2
<1> QED
  BY <1>1, <1>3 DEF x

(* The largest of some numbers below a bound is one of them.               *)
LEMMA MaxOfSome ==
  ASSUME NEW bound \in Int, NEW S, S # {}, \A x \in S : x \in Int /\ x <= bound
  PROVE  Max(S) \in S /\ \A x \in S : x <= Max(S)
<1> DEFINE T == {bound - x : x \in S}
<1>1. PICK d \in T : \A y \in T : d <= y
  <2>1. T \subseteq Nat /\ T # {}
    OBVIOUS
  <2> HIDE DEF T
  <2> QED
    BY <2>1, LeastOf
<1>2. PICK m \in S : d = bound - m
  OBVIOUS
<1>3. ASSUME NEW x \in S PROVE m >= x
  BY <1>1, <1>2
<1>4. Max(S) \in S /\ \A x \in S : Max(S) >= x
  BY <1>3 DEF Max
<1> QED
  BY <1>4

(* A streaming decoder takes no more than there is, and stops at the header *)
(* when it wants a dictionary.                                             *)
LEMMA TakesSome ==
  ASSUME NEW d \in Decoders, NEW available \in Nat, NEW room \in Nat,
         content = "dictionary" /\ ~d.dictionary => d.taken <= HeaderLength,
         NEW t \in Takes(d, available, room)
  PROVE  /\ t \in d.taken..d.taken + available /\ t \in 0..InputLength
         /\ content = "dictionary" /\ ~d.dictionary => t <= HeaderLength
<1> DEFINE end == Min({d.taken + available, TakesTo(d)})
           free(u) == \A n \in d.taken + 1..u : Output[n - 1] - d.made <= room
           S == {u \in d.taken..end : free(u)}
<1>1. d.taken \in 0..InputLength /\ TakesTo(d) \in Nat /\ d.taken <= TakesTo(d)
      /\ TakesTo(d) <= InputLength
      /\ (content = "dictionary" /\ ~d.dictionary => TakesTo(d) = HeaderLength)
  BY Lengths DEF Decoders, TakesTo
<1>2. end = IF d.taken + available <= TakesTo(d) THEN d.taken + available ELSE TakesTo(d)
  BY <1>1, MinOfTwo
<1>3. t \in Max(S)..Min({end, Max(S) + Ahead})
  BY DEF Takes
<1> HIDE DEF end
<1>4. end \in Nat /\ d.taken <= end /\ end <= d.taken + available /\ end <= TakesTo(d)
  BY <1>1, <1>2
<1>5. d.taken \in S
  BY <1>1, <1>4
<1>6. \A u \in S : u \in Int /\ u <= end /\ d.taken <= u
  BY <1>1, <1>4
<1> HIDE DEF S
<1>7. Max(S) \in S
  BY <1>4, <1>5, <1>6, MaxOfSome
<1>8. PICK g \in Int : g = Max(S) /\ d.taken <= g
  BY <1>6, <1>7
<1>9. Ahead \in Nat
  BY OwnedInflateAssumption
<1>10. PICK e \in Int : e = Min({end, g + Ahead}) /\ e <= end
  BY <1>4, <1>8, <1>9, MinOfTwo
<1>11. t \in g..e
  BY <1>3, <1>8, <1>10
<1>12. t \in Int /\ d.taken <= t /\ t <= end
  BY <1>1, <1>4, <1>8, <1>10, <1>11
<1>13. t \in d.taken..d.taken + available /\ t <= TakesTo(d) /\ t \in 0..InputLength
  BY <1>1, <1>4, <1>12, Lengths
<1> QED
  BY <1>1, <1>13

(* What a decoder has after a call: all of what it took, as far as there   *)
(* was room.                                                               *)
LEMMA RunMakes ==
  ASSUME NEW d \in Decoders, d.made <= Output[d.taken], NEW room \in Nat,
         NEW t \in 0..InputLength, d.taken <= t
  PROVE  LET new == Run(d, t, room) IN
         /\ new \in Decoders /\ new.taken = t /\ new.dictionary = d.dictionary
         /\ new.failed = (d.failed \/ (content = "corrupt" /\ t = InputLength))
         /\ d.made <= new.made /\ new.made <= Output[t] /\ new.made <= d.made + room
         /\ new.made = Output[t] \/ new.made = d.made + room
<1> DEFINE m == Min({Output[t], d.made + room})
<1>1. d.taken \in 0..InputLength /\ d.made \in 0..OutputLength
      /\ d.dictionary \in BOOLEAN /\ d.failed \in BOOLEAN
  BY DEF Decoders
<1>2. Output[t] \in 0..OutputLength /\ Output[d.taken] <= Output[t]
      /\ Output[d.taken] \in Nat /\ OutputLength \in Nat
  BY <1>1, Lengths
<1>3. m = IF Output[t] <= d.made + room THEN Output[t] ELSE d.made + room
  BY <1>1, <1>2, MinOfTwo
<1>4. m \in 0..OutputLength /\ d.made <= m /\ m <= Output[t] /\ m <= d.made + room
      /\ (m = Output[t] \/ m = d.made + room)
  BY <1>1, <1>2, <1>3
<1>5. Run(d, t, room) = [taken |-> t, made |-> m, dictionary |-> d.dictionary,
                         failed |-> d.failed \/ (content = "corrupt" /\ t = InputLength)]
  BY DEF Run
<1> HIDE DEF m
<1>6. Run(d, t, room) \in Decoders
  BY <1>1, <1>4, <1>5 DEF Decoders
<1> QED
  BY <1>4, <1>5, <1>6

(* What the answers mean.                                                  *)
LEMMA AnswerMeans ==
  ASSUME NEW d \in Decoders
  PROVE  /\ Answer(d) = "END" =>
               ~d.failed /\ d.taken = InputLength /\ d.made = OutputLength
         /\ Answer(d) = "ERROR" => d.failed
         /\ Answer(d) = "NEED_DICT" => d.taken = HeaderLength
         /\ Answer(d) = "OK" => ~d.failed /\ ~WantsDictionary(d)
         /\ Answer(d) \in {"END", "ERROR", "NEED_DICT", "OK"}
BY DEF Answer, WantsDictionary, Decoders
(* What a streaming call leaves: the caller's view of the input is the      *)
(* decoder's but for the byte held back, which is held while output waits.  *)
LEMMA StreamedKeeps ==
  ASSUME NEW d, NEW view, ViewFits(view), NEW held, Mirrored(content, view, held, d),
         NEW room \in Nat, NEW t \in Takes(d, view.availIn - held, room),
         NEW probed, NEW restored,
         NEW decoder, decoder = Run(d, t, room),
         NEW took, took = t - d.taken, NEW made, made = decoder.made - d.made,
         NEW h, h = IF Holds(Answer(decoder), view.availIn - held - took, room - made,
                             view.availIn - held, held, PendingOutput(decoder) \/ ~probed)
                    THEN 1 ELSE 0,
         NEW counted, counted = IF Answer(decoder) = "NEED_DICT" /\ restored THEN 0 ELSE took,
         NEW after, after = [state |-> view.state,
                             nextIn |-> view.nextIn + held + took - h,
                             availIn |-> view.availIn - held - took + h,
                             totalIn |-> view.totalIn + held + counted - h,
                             delivered |-> view.delivered + made,
                             finished |-> Answer(decoder) = "END"]
  PROVE  Mirrored(content, after, h, decoder) /\ ViewIsWhole(content, after)
<1>1. /\ view.state \in StateIds \cup {NoState, Stock} /\ view.nextIn \in 0..InputLength
      /\ view.availIn \in 0..InputLength /\ view.totalIn \in 0..InputLength
      /\ view.delivered \in 0..OutputLength
      /\ view.nextIn + view.availIn <= InputLength /\ view.totalIn <= view.nextIn
  BY DEF ViewFits, StreamViews
<1>2. /\ d \in Decoders /\ d.made <= Output[d.taken] /\ held \in 0..1
      /\ (content = "dictionary" /\ ~d.dictionary => d.taken <= HeaderLength)
      /\ d.taken = view.nextIn + held /\ held <= view.availIn /\ d.made = view.delivered
      /\ (content # "dictionary" => view.totalIn = view.nextIn)
      /\ (~d.failed /\ view.availIn = 0 => d.made = Output[d.taken])
  BY DEF Mirrored
<1>3. InputLength \in Nat /\ OutputLength \in Nat /\ HeaderLength \in 2..InputLength - 1
  BY Lengths
<1>4. PICK available \in Nat : available = view.availIn - held
  BY <1>1, <1>2
<1>5. /\ t \in d.taken..d.taken + available /\ t \in 0..InputLength
      /\ (content = "dictionary" /\ ~d.dictionary => t <= HeaderLength)
  BY <1>2, <1>4, TakesSome
<1>6. d.taken \in 0..InputLength /\ d.made \in 0..OutputLength
  BY <1>2 DEF Decoders
<1>7. /\ decoder \in Decoders /\ decoder.taken = t /\ decoder.dictionary = d.dictionary
      /\ decoder.failed = (d.failed \/ (content = "corrupt" /\ t = InputLength))
      /\ d.made <= decoder.made /\ decoder.made <= Output[t]
      /\ decoder.made <= d.made + room
      /\ (decoder.made = Output[t] \/ decoder.made = d.made + room)
  BY <1>2, <1>5, <1>6, RunMakes
<1>8. decoder.made \in 0..OutputLength /\ Output[t] \in 0..OutputLength
  BY <1>5, <1>7, Lengths DEF Decoders
<1>9. took \in 0..available /\ made \in Nat /\ h \in 0..1 /\ counted \in 0..took
  BY <1>4, <1>5, <1>6, <1>7, <1>8
<1>10. h = 1 => /\ Answer(decoder) = "OK" /\ available - took = 0
                /\ available # 0 \/ held # 0
  BY <1>1, <1>2, <1>4, <1>9 DEF Holds
<1>11. h = 1 => counted = took /\ held + took >= 1
  BY <1>2, <1>4, <1>9, <1>10
<1>12. content # "dictionary" => counted = took
  BY AnswerMeans, <1>7 DEF Answer, WantsDictionary
<1>13. /\ after.state = view.state /\ after.nextIn = view.nextIn + held + took - h
       /\ after.availIn = view.availIn - held - took + h
       /\ after.totalIn = view.totalIn + held + counted - h
       /\ after.delivered = view.delivered + made
       /\ after.finished = (Answer(decoder) = "END")
  OBVIOUS
<1>14. /\ after.nextIn \in 0..InputLength /\ after.availIn \in 0..InputLength
       /\ after.totalIn \in 0..InputLength /\ after.totalIn <= after.nextIn
       /\ after.nextIn + after.availIn <= InputLength
  BY <1>2, <1>9, <1>11, <1>1, <1>13, <1>4, <1>3
<1>15. after.delivered = decoder.made /\ after.delivered \in 0..OutputLength
  BY <1>1, <1>2, <1>6, <1>8, <1>13
<1>16. decoder.taken = after.nextIn + h /\ h <= after.availIn
  BY <1>1, <1>2, <1>4, <1>6, <1>5, <1>7, <1>9, <1>13
<1>17. content # "dictionary" => after.totalIn = after.nextIn
  BY <1>1, <1>2, <1>9, <1>12, <1>13
<1>18. ASSUME ~decoder.failed, after.availIn = 0 PROVE decoder.made = Output[t]
  <2>1. h = 0 /\ took = available /\ available = view.availIn - held
    <3>1. held \in 0..1 /\ view.availIn \in Nat
      BY <1>1, <1>2
    <3>2. view.availIn - held - took + h = 0
      BY <1>13, <1>18
    <3> QED
      <4>1. took \in Int /\ took <= available /\ h \in Int /\ h >= 0
        BY <1>4, <1>9
      <4>2. available - took + h = 0
        BY <1>4, <3>1, <3>2, <4>1
      <4>3. h = 0 /\ took = available
        BY <1>4, <4>1, <4>2
      <4> QED
        BY <1>4, <4>3
  <2>2. SUFFICES ASSUME decoder.made # Output[t] PROVE FALSE
    OBVIOUS
  <2>3. decoder.made < Output[t] /\ decoder.made = d.made + room /\ ~d.failed
    <3>1. decoder.made = d.made + room /\ decoder.made <= Output[t]
      BY <1>7, <2>2
    <3>2. ~d.failed
      BY <1>7, <1>18
    <3> QED
      BY <1>8, <2>2, <3>1, <3>2
  <2>4. ~WantsDictionary(decoder)
    BY <1>8, <2>3, Lengths, <1>7 DEF WantsDictionary
  <2>5. decoder.made # OutputLength
    BY <1>8, <2>3
  <2>6. Answer(decoder) = "OK"
    BY <1>18, <2>4, <2>5 DEF Answer
  <2>7. PendingOutput(decoder)
    BY <1>7, <1>18, <2>3, <2>4, <1>8 DEF PendingOutput
  <2>8. room - made = 0 /\ view.availIn - held - took = 0
    <3>1. held \in 0..1 /\ view.availIn \in Nat
      BY <1>1, <1>2
    <3>2. view.availIn - held - took = 0
      BY <1>4, <1>9, <2>1, <3>1
    <3>3. made = decoder.made - d.made /\ decoder.made = d.made + room
      BY <2>3
    <3> QED
      BY <1>6, <3>2, <3>3
  <2>9. view.availIn - held # 0 \/ held # 0
    <3>1. SUFFICES ASSUME view.availIn = 0, held = 0 PROVE FALSE
      BY <1>1, <1>2
    <3>2. t = d.taken
      BY <1>5, <1>6, <1>9, <2>1, <3>1
    <3>3. d.made = Output[t]
      BY <1>2, <2>3, <3>1, <3>2
    <3> QED
      BY <1>6, <1>7, <1>8, <2>3, <3>3
  <2>10. Holds(Answer(decoder), view.availIn - held - took, room - made,
               view.availIn - held, held, PendingOutput(decoder) \/ ~probed)
    BY <2>6, <2>7, <2>8, <2>9 DEF Holds
  <2> QED
    BY <2>1, <2>10
<1>19. Mirrored(content, after, h, decoder)
  BY <1>5, <1>7, <1>9, <1>15, <1>16, <1>17, <1>18 DEF Mirrored
<1>20. ASSUME after.finished
       PROVE  after.delivered = OutputLength /\ after.nextIn = InputLength /\ content # "corrupt"
  <2>1. Answer(decoder) = "END"
    BY <1>13, <1>20
  <2>2. ~decoder.failed /\ decoder.taken = InputLength /\ decoder.made = OutputLength
    BY <1>7, <2>1, AnswerMeans
  <2>3. h = 0
    BY <1>9, <1>10, <2>1
  <2> QED
    <3>1. after.delivered = OutputLength
      BY <1>15, <2>2
    <3>2. after.nextIn = InputLength
      BY <1>3, <1>14, <1>16, <2>2, <2>3
    <3>3. content # "corrupt"
      BY <1>7, <2>2
    <3> QED
      BY <3>1, <3>2, <3>3
<1>21. after \in StreamViews
  BY <1>1, <1>13, <1>14, <1>15 DEF StreamViews
<1> QED
  BY <1>14, <1>19, <1>20, <1>21 DEF ViewIsWhole, ViewFits

(* The tokens an operation may count, and what it leaves of the state.     *)
Counted(old, counted, new) ==
  /\ old.token # counted.token => \/ old.token = "none"
                                  \/ old.token = "live" /\ counted.token = "spent"
  /\ counted.token \in {"none", "live", "spent"}
  /\ new.token = "live" <=> counted.token = "live"

TokensAfter(before, old, counted) ==
  before + (IF old.token = "none" /\ counted.token = "live" THEN 1 ELSE 0)
         - (IF old.token = "live" /\ counted.token = "spent" THEN 1 ELSE 0)

(* The number of live tokens follows the one state a call is about; what is *)
(* counted may be a step before what is left of the state.                 *)
LEMMA TokensFollow ==
  ASSUME NEW table, NEW id \in StateIds, table \in [StateIds -> OwnedStates],
         NEW new \in OwnedStates, NEW counted, NEW before, NEW after,
         before \in Nat, before = LiveTokens(table),
         Counted(table[id], counted, new), after = TokensAfter(before, table[id], counted)
  PROVE  after \in Nat /\ after = LiveTokens([table EXCEPT ![id] = new])
<1> USE DEF Counted, TokensAfter
<1> DEFINE Alive(u) == {i \in StateIds : u[i].token = "live"}
<1>1. PICK next : next = [table EXCEPT ![id] = new]
  OBVIOUS
<1>2. /\ next[id] = new /\ \A i \in StateIds : i # id => next[i] = table[i]
  BY <1>1
<1>3. IsFiniteSet(StateIds)
  BY OwnedInflateAssumption
<1>4. IsFiniteSet(Alive(table)) /\ IsFiniteSet(Alive(next))
  BY <1>3, FS_Subset
<1>5. before = Cardinality(Alive(table)) /\ LiveTokens(next) = Cardinality(Alive(next))
  BY DEF LiveTokens
<1>6. LiveTokens(next) \in Nat
  BY <1>4, <1>5, FS_CardinalityType
<1>7. CASE table[id].token = "live" /\ counted.token = "live"
  <2>1. Alive(next) = Alive(table)
    BY <1>2, <1>7
  <2>2. after = before
    BY <1>7
  <2> QED
    BY <1>1, <1>5, <1>6, <2>1, <2>2
<1>8. CASE table[id].token = "live" /\ counted.token # "live"
  <2>1. Alive(next) = Alive(table) \ {id} /\ id \in Alive(table)
    BY <1>2, <1>8
  <2>2. counted.token = "spent"
    BY <1>8
  <2>3. after = before - 1
    BY <1>8, <2>2
  <2>4. LiveTokens(next) = before - 1
    BY <1>4, <1>5, <2>1, FS_RemoveElement
  <2> QED
    BY <1>1, <1>6, <2>3, <2>4
<1>9. CASE table[id].token # "live" /\ counted.token = "live"
  BY <1>2, <1>9, <1>4, <1>5, FS_AddElement, <1>1, <1>6
<1>10. CASE table[id].token # "live" /\ counted.token # "live"
  <2>1. Alive(next) = Alive(table)
    BY <1>2, <1>10
  <2>2. after = before
    BY <1>10
  <2> QED
    BY <1>1, <1>5, <1>6, <2>1, <2>2
<1> QED
  BY <1>7, <1>8, <1>9, <1>10

(* An operation on a stream's own state, or on a free one it is given.     *)
LEMMA StateIsSet ==
  ASSUME InflateInv, NEW s \in Streams, NEW id \in StateIds,
         NEW new \in OwnedStates, NEW view, NEW counted,
         \/ streams[s].state = id /\ states[id].owner = s
         \/ streams[s].state \notin StateIds /\ states[id].owner = NoStream,
         new.owner = s, view.state = id,
         ViewIsWhole(content, view), Agree(content, view, new),
         Counted(states[id], counted, new), CountTokens(states[id], counted),
         states' = [states EXCEPT ![id] = new],
         streams' = [streams EXCEPT ![s] = view], content' = content
  PROVE  InflateInv'
<1>1. PICK views : views = streams'
  OBVIOUS
<1>2. PICK table : table = states'
  OBVIOUS
<1>3. PICK count : count = openTokens'
  OBVIOUS
<1>4. /\ streams \in [Streams -> StreamViews] /\ states \in [StateIds -> OwnedStates]
      /\ \A x \in Streams : ViewIsWhole(content, streams[x])
      /\ openTokens \in Nat /\ openTokens = LiveTokens(states)
  BY DEF InflateInv
<1>5. /\ \A i \in StateIds : states[i].owner # NoStream =>
            /\ states[i].owner \in Streams /\ streams[states[i].owner].state = i
            /\ Agree(content, streams[states[i].owner], states[i])
      /\ \A i \in StateIds : states[i].owner = NoStream => states[i] = Free
      /\ \A x \in Streams : streams[x].state \in StateIds =>
            states[streams[x].state].owner # NoStream
  BY DEF InflateInv, Owned
<1>6. view \in StreamViews
  BY DEF ViewIsWhole, ViewFits
<1>7. /\ views \in [Streams -> StreamViews] /\ views[s] = view
      /\ \A x \in Streams : x # s => views[x] = streams[x]
  BY <1>1, <1>4, <1>6
<1>8. /\ table \in [StateIds -> OwnedStates] /\ table[id] = new
      /\ \A i \in StateIds : i # id => table[i] = states[i]
  BY <1>2, <1>4
<1>9. count \in Nat /\ count = LiveTokens(table)
  <2>1. count = TokensAfter(openTokens, states[id], counted)
    BY <1>3 DEF CountTokens, TokensAfter
  <2>2. count \in Nat /\ count = LiveTokens([states EXCEPT ![id] = new])
    BY <1>4, <2>1, TokensFollow
  <2> QED
    BY <1>2, <2>2
<1>10. \A x \in Streams : ViewIsWhole(content, views[x])
  BY <1>4, <1>7
<1>11. ASSUME NEW i \in StateIds
       PROVE  IF table[i].owner # NoStream
              THEN /\ table[i].owner \in Streams /\ views[table[i].owner].state = i
                   /\ Agree(content, views[table[i].owner], table[i])
              ELSE table[i] = Free
  BY OwnedInflateAssumption, <1>7, <1>8, <1>5
<1>12. ASSUME NEW x \in Streams, views[x].state \in StateIds
       PROVE  table[views[x].state].owner # NoStream
  BY OwnedInflateAssumption, <1>8, <1>7, <1>5, <1>12
<1>13. Owned(content, views, table)
  BY <1>11, <1>12 DEF Owned
<1>14. content' \in {"sound", "corrupt", "dictionary"}
  BY DEF InflateInv
<1> QED
  BY <1>1, <1>2, <1>3, <1>7, <1>8, <1>9, <1>10, <1>13, <1>14 DEF InflateInv

(* A stream that owns no state changes its view.                           *)
LEMMA ViewIsSet ==
  ASSUME InflateInv, NEW s \in Streams, ~IsOwned(s), NEW view,
         ViewIsWhole(content, view),
         view.state \in StateIds => states[view.state].owner # NoStream,
         streams' = [streams EXCEPT ![s] = view],
         content' = content, states' = states, openTokens' = openTokens
  PROVE  InflateInv'
<1>1. PICK views : views = streams'
  OBVIOUS
<1>2. PICK all : all = states
  OBVIOUS
<1>3. /\ streams \in [Streams -> StreamViews] /\ all \in [StateIds -> OwnedStates]
      /\ \A x \in Streams : ViewIsWhole(content, streams[x])
      /\ openTokens \in Nat /\ openTokens = LiveTokens(all)
      /\ content \in {"sound", "corrupt", "dictionary"}
  BY <1>2 DEF InflateInv
<1>4. /\ \A i \in StateIds : all[i].owner # NoStream =>
            /\ all[i].owner \in Streams /\ streams[all[i].owner].state = i
            /\ Agree(content, streams[all[i].owner], all[i])
      /\ \A i \in StateIds : all[i].owner = NoStream => all[i] = Free
      /\ \A x \in Streams : streams[x].state \in StateIds =>
            all[streams[x].state].owner # NoStream
  BY <1>2 DEF InflateInv, Owned
<1>5. view \in StreamViews
  BY DEF ViewIsWhole, ViewFits
<1>6. /\ views \in [Streams -> StreamViews] /\ views[s] = view
      /\ \A x \in Streams : x # s => views[x] = streams[x]
  BY <1>1, <1>3, <1>5
<1>7. \A x \in Streams : ViewIsWhole(content, views[x])
  BY <1>3, <1>6
<1>8. ASSUME NEW i \in StateIds
      PROVE  IF all[i].owner # NoStream
             THEN /\ all[i].owner \in Streams /\ views[all[i].owner].state = i
                  /\ Agree(content, views[all[i].owner], all[i])
             ELSE all[i] = Free
  BY <1>2, <1>4, <1>6 DEF IsOwned, IsTagged
<1>9. \A x \in Streams : views[x].state \in StateIds => all[views[x].state].owner # NoStream
  BY <1>2, <1>4, <1>6
<1>10. Owned(content, views, all)
  BY <1>8, <1>9 DEF Owned
<1> QED
  BY <1>1, <1>2, <1>3, <1>6, <1>7, <1>10 DEF InflateInv

(* A stream's state is given up when no other stream names it.             *)
LEMMA EndKeeps ==
  ASSUME InflateInv, NEW s \in Streams, End(s)
  PROVE  InflateInv'
<1>1. PICK views : views = streams'
  OBVIOUS
<1>2. PICK table : table = states'
  OBVIOUS
<1>3. PICK count : count = openTokens'
  OBVIOUS
<1>4. /\ streams \in [Streams -> StreamViews] /\ states \in [StateIds -> OwnedStates]
      /\ \A x \in Streams : ViewIsWhole(content, streams[x])
      /\ openTokens \in Nat /\ openTokens = LiveTokens(states)
      /\ content \in {"sound", "corrupt", "dictionary"}
  BY DEF InflateInv
<1>5. /\ \A i \in StateIds : states[i].owner # NoStream =>
            /\ states[i].owner \in Streams /\ streams[states[i].owner].state = i
            /\ Agree(content, streams[states[i].owner], states[i])
      /\ \A i \in StateIds : states[i].owner = NoStream => states[i] = Free
      /\ \A x \in Streams : streams[x].state \in StateIds =>
            states[streams[x].state].owner # NoStream
  BY DEF InflateInv, Owned
<1>6. PICK id \in StateIds : id = streams[s].state /\ states[id].owner = s
  BY DEF End, IsOwned, IsTagged
<1>7. /\ CountTokens(states[id], Ended(states[id])) /\ table = [states EXCEPT ![id] = Free]
      /\ views = [streams EXCEPT ![s] = FreshStream] /\ content' = content
      /\ \A other \in Streams \ {s} : streams[other].state # id
  BY <1>1, <1>2, <1>6 DEF End
<1>8. Free \in OwnedStates /\ Free.owner = NoStream /\ Free.token = "none"
  <2>1. FreshDecoder \in Decoders
    BY Lengths DEF FreshDecoder, Decoders
  <2> HIDE DEF FreshDecoder, Decoders
  <2> QED
    BY <2>1 DEF Free, FreshState, OwnedStates
<1>9. /\ FreshStream.state = NoState /\ FreshStream.state \notin StateIds
      /\ ViewIsWhole(content, FreshStream)
  BY Lengths, OwnedInflateAssumption
     DEF FreshStream, ViewIsWhole, ViewFits, StreamViews
<1> HIDE DEF Free, FreshStream
<1>10. FreshStream \in StreamViews
  BY <1>9 DEF ViewIsWhole, ViewFits
<1>11. /\ views \in [Streams -> StreamViews] /\ views[s] = FreshStream
       /\ \A x \in Streams : x # s => views[x] = streams[x]
  BY <1>4, <1>7, <1>10
<1>12. /\ table \in [StateIds -> OwnedStates] /\ table[id] = Free
       /\ \A i \in StateIds : i # id => table[i] = states[i]
  BY <1>4, <1>7, <1>8
<1>13. count \in Nat /\ count = LiveTokens(table)
  <2>1. PICK counted : counted = Ended(states[id])
    OBVIOUS
  <2>2. states[id].token \in {"none", "live", "spent"} /\ states[id] \in OwnedStates
    BY <1>4 DEF OwnedStates
  <2>3. counted.token = IF states[id].token = "live" THEN "spent" ELSE states[id].token
    BY <2>1, <2>2 DEF Ended, OwnedStates
  <2>4. count = TokensAfter(openTokens, states[id], counted)
    BY <1>3, <1>7, <2>1 DEF CountTokens, TokensAfter
  <2>5. Counted(states[id], counted, Free)
    BY <1>8, <2>2, <2>3 DEF Counted
  <2>6. count \in Nat /\ count = LiveTokens([states EXCEPT ![id] = Free])
    BY <1>4, <1>8, <2>4, <2>5, TokensFollow
  <2> QED
    BY <1>7, <2>6
<1>14. \A x \in Streams : ViewIsWhole(content, views[x])
  BY <1>4, <1>9, <1>11
<1>15. ASSUME NEW i \in StateIds
       PROVE  IF table[i].owner # NoStream
              THEN /\ table[i].owner \in Streams /\ views[table[i].owner].state = i
                   /\ Agree(content, views[table[i].owner], table[i])
              ELSE table[i] = Free
  BY <1>8, <1>12, <1>5, <1>6, <1>11
<1>16. ASSUME NEW x \in Streams, views[x].state \in StateIds
       PROVE  table[views[x].state].owner # NoStream
  BY <1>9, <1>11, <1>16, <1>7, <1>5, <1>12
<1>17. Owned(content, views, table)
  BY <1>15, <1>16 DEF Owned
<1> QED
  BY <1>1, <1>2, <1>3, <1>4, <1>7, <1>11, <1>12, <1>13, <1>14, <1>17 DEF InflateInv

-----------------------------------------------------------------------------
(* What a stream and a state are when they begin.                          *)
LEMMA FreshFits ==
  /\ FreshDecoder \in Decoders
  /\ \A s \in Streams \cup {NoStream} :
        /\ FreshState(s) \in OwnedStates /\ FreshState(s).owner = s
        /\ FreshState(s).token = "none" /\ FreshState(s).policy = "Undecided"
        /\ FreshState(s).held = 0 /\ FreshState(s).decoder = FreshDecoder
  /\ \A s \in Streams \cup {NoStream} : [FreshState(s) EXCEPT !.policy = "Streaming"] =
        [owner |-> s, policy |-> "Streaming", held |-> 0, token |-> "none",
         decoder |-> FreshDecoder]
<1>1. FreshDecoder \in Decoders
  BY Lengths DEF FreshDecoder, Decoders
<1> HIDE DEF FreshDecoder, Decoders
<1> QED
  BY <1>1 DEF FreshState, OwnedStates

(* A view of nothing yet, whatever state the stream names.                 *)
LEMMA FreshViewFits ==
  ASSUME NEW kind, NEW x \in StateIds \cup {NoState, Stock}
  PROVE  /\ ViewIsWhole(kind, [FreshStream EXCEPT !.state = x])
         /\ [FreshStream EXCEPT !.state = x].state = x
         /\ \A s \in Streams : Agree(kind, [FreshStream EXCEPT !.state = x], FreshState(s))
<1>1. PICK view : view = [FreshStream EXCEPT !.state = x]
  OBVIOUS
<1>2. view = [state |-> x, nextIn |-> 0, availIn |-> 0, totalIn |-> 0, delivered |-> 0,
              finished |-> FALSE]
  BY <1>1 DEF FreshStream
<1>3. InputLength \in Nat /\ OutputLength \in Nat
  BY Lengths
<1>4. ViewIsWhole(kind, view)
  BY <1>2, <1>3 DEF ViewIsWhole, ViewFits, StreamViews
<1>5. ASSUME NEW s \in Streams PROVE Agree(kind, view, FreshState(s))
  BY <1>2, FreshFits DEF Agree
<1> QED
  BY <1>1, <1>2, <1>4, <1>5

ViewUpdate(after, view, nextIn, availIn, totalIn, delivered, finished) ==
  after = [view EXCEPT !.nextIn = nextIn, !.availIn = availIn, !.totalIn = totalIn,
                       !.delivered = delivered, !.finished = finished]

(* A view that a call leaves, field by field.                              *)
LEMMA ViewUpdated ==
  ASSUME NEW view \in StreamViews, NEW nextIn \in Int, NEW availIn \in Int,
         NEW totalIn \in Int, NEW delivered \in Int, NEW finished, NEW after,
         ViewUpdate(after, view, nextIn, availIn, totalIn, delivered, finished)
  PROVE  after = [state |-> view.state, nextIn |-> nextIn, availIn |-> availIn,
                  totalIn |-> totalIn, delivered |-> delivered, finished |-> finished]
BY DEF StreamViews, ViewUpdate

(* A view that is told to be finished, field by field.                     *)
LEMMA ViewFinished ==
  ASSUME NEW view \in StreamViews, NEW finished, NEW after,
         after = [view EXCEPT !.finished = finished]
  PROVE  after = [state |-> view.state, nextIn |-> view.nextIn, availIn |-> view.availIn,
                  totalIn |-> view.totalIn, delivered |-> view.delivered,
                  finished |-> finished]
BY DEF StreamViews

(* A new stream names no state.                                            *)
LEMMA ViewOfNoState == [FreshStream EXCEPT !.state = NoState] = FreshStream
<1>1. PICK view : view = FreshStream
  OBVIOUS
<1>2. DOMAIN view = {"state", "nextIn", "availIn", "totalIn", "delivered", "finished"}
  BY <1>1 DEF FreshStream
<1>3. view.state = NoState
  BY <1>1 DEF FreshStream
<1>4. view = [f \in DOMAIN view |-> view[f]]
  BY <1>1 DEF FreshStream
<1>5. [view EXCEPT !.state = NoState] = [f \in DOMAIN view |-> view[f]]
  BY <1>3
<1> QED
  BY <1>1, <1>4, <1>5

(* A fresh decoder agrees with a view of nothing.                          *)
LEMMA FreshMirrored ==
  ASSUME NEW kind, NEW view, view.nextIn = 0, view.totalIn = 0, view.delivered = 0,
         view.availIn \in Nat
  PROVE  Mirrored(kind, view, 0, FreshDecoder)
  BY FreshFits, Lengths DEF FreshDecoder, Mirrored

(* The operations on the parts of a state that are not the decoder.        *)
LEMMA TokenSteps ==
  ASSUME NEW state \in OwnedStates
  PROVE  /\ Ended(state) \in OwnedStates
         /\ Ended(state).owner = state.owner /\ Ended(state).policy = state.policy
         /\ Ended(state).held = state.held /\ Ended(state).decoder = state.decoder
         /\ Ended(state).token = IF state.token = "live" THEN "spent" ELSE state.token
         /\ state.token \in {"none", "live", "spent"}
BY DEF Ended, OwnedStates

(* A token is begun once, and nothing else of the state changes.           *)
LEMMA BegunSteps ==
  ASSUME NEW state \in OwnedStates, NEW sampled
  PROVE  LET new == TokenBegun(state, sampled) IN
         /\ new \in OwnedStates
         /\ new.owner = state.owner /\ new.policy = state.policy
         /\ new.held = state.held /\ new.decoder = state.decoder
         /\ state.token # "none" => new.token = state.token
         /\ state.token = "none" => new.token \in {"live", "spent"}
<1>1. CASE state.token # "none"
  BY <1>1 DEF TokenBegun
<1>2. CASE state.token = "none"
  <2>1. PICK mark \in {"live", "spent"} : mark = IF sampled THEN "live" ELSE "spent"
    OBVIOUS
  <2>2. TokenBegun(state, sampled) = [state EXCEPT !.token = mark]
    BY <1>2, <2>1 DEF TokenBegun
  <2> QED
    BY <1>2, <2>2 DEF OwnedStates
<1> QED
  BY <1>1, <1>2

(* What serves the stream is decided on once.                              *)
LEMMA ChosenSteps ==
  ASSUME NEW state \in OwnedStates, NEW serves \in BOOLEAN
  PROVE  LET new == Chosen(state, serves) IN
         /\ new \in OwnedStates
         /\ new.owner = state.owner /\ new.token = state.token
         /\ new.held = state.held /\ new.decoder = state.decoder
         /\ new.policy = IF serves THEN "Done" ELSE "Streaming"
<1>1. PICK mark \in {"Done", "Streaming"} : mark = IF serves THEN "Done" ELSE "Streaming"
  OBVIOUS
<1>2. Chosen(state, serves) = [state EXCEPT !.policy = mark]
  BY <1>1 DEF Chosen
<1> QED
  BY <1>1, <1>2 DEF OwnedStates

(* A stream not decided on is streamed.                                    *)
LEMMA NativeSteps ==
  ASSUME NEW state \in OwnedStates
  PROVE  LET new == Native(state) IN
         /\ new \in OwnedStates
         /\ new.owner = state.owner /\ new.token = state.token
         /\ new.held = state.held /\ new.decoder = state.decoder
         /\ new.policy = IF state.policy = "Undecided" THEN "Streaming" ELSE state.policy
BY DEF Native, OwnedStates

(* The state of a stream that owns it, and what the two agree on.          *)
LEMMA OwnerAgrees ==
  ASSUME InflateInv, NEW s \in Streams, IsOwned(s)
  PROVE  /\ streams[s].state \in StateIds /\ states[streams[s].state].owner = s
         /\ states[streams[s].state] \in OwnedStates
         /\ Agree(content, streams[s], states[streams[s].state])
         /\ ViewIsWhole(content, streams[s]) /\ streams[s] \in StreamViews
  BY OwnedInflateAssumption DEF IsOwned, IsTagged, InflateInv, Owned

(* A reset begins the stream and its state again.                          *)
LEMMA ResetKeeps ==
  ASSUME InflateInv, NEW s \in Streams, Reset(s)
  PROVE  InflateInv'
<1>1. PICK id \in StateIds : id = streams[s].state /\ states[id].owner = s
  BY DEF Reset, IsOwned, IsTagged
<1>2. states[id] \in OwnedStates
  BY <1>1, OwnerAgrees DEF Reset
<1>3. PICK view : view = [FreshStream EXCEPT !.state = id]
  OBVIOUS
<1>4. ViewIsWhole(content, view) /\ view.state = id /\ Agree(content, view, FreshState(s))
  BY <1>3, FreshViewFits
<1>5. FreshState(s) \in OwnedStates /\ FreshState(s).owner = s /\ FreshState(s).token = "none"
  BY FreshFits
<1>6. PICK counted : counted = Ended(states[id])
  OBVIOUS
<1>7. Counted(states[id], counted, FreshState(s))
  BY <1>2, <1>5, <1>6, TokenSteps DEF Counted
<1>8. /\ states' = [states EXCEPT ![id] = FreshState(s)]
      /\ CountTokens(states[id], counted)
      /\ streams' = [streams EXCEPT ![s] = view] /\ content' = content
  BY <1>1, <1>3, <1>6 DEF Reset, Restarted
<1> QED
  BY <1>1, <1>4, <1>5, <1>7, <1>8, StateIsSet

(* The operations of the streaming decoder alone.                          *)
LEMMA ControlKeeps ==
  ASSUME InflateInv, NEW s \in Streams, Control(s)
  PROVE  InflateInv'
<1>1. PICK id \in StateIds : id = streams[s].state /\ states[id].owner = s
  BY DEF Control, IsOwned, IsTagged
<1>2. /\ states[id] \in OwnedStates /\ Agree(content, streams[s], states[id])
      /\ ViewIsWhole(content, streams[s]) /\ streams[s] \in StreamViews
  BY <1>1, OwnerAgrees DEF Control
<1>3. PICK supported \in BOOLEAN, fails \in BOOLEAN :
         /\ states' = [states EXCEPT ![id] = Controlled(states[id], supported, fails)]
         /\ CountTokens(states[id], Controlled(states[id], supported, fails))
         /\ content' = content /\ streams' = streams
  BY <1>1 DEF Control
<1>4. PICK new : new = Controlled(states[id], supported, fails)
  OBVIOUS
<1>5. new \in {Ended(states[id]), Native(states[id]), Ended(Native(states[id]))}
  BY <1>4 DEF Controlled
<1>6. /\ new \in OwnedStates /\ new.owner = s /\ new.held = states[id].held
      /\ new.decoder = states[id].decoder
      /\ \/ new.policy = states[id].policy
         \/ states[id].policy = "Undecided" /\ new.policy = "Streaming"
      /\ \/ new.token = states[id].token
         \/ states[id].token = "live" /\ new.token = "spent"
      /\ new.token \in {"none", "live", "spent"}
  <2>1. PICK native : native = Native(states[id])
    OBVIOUS
  <2>2. /\ native \in OwnedStates
        /\ native.owner = s /\ native.token = states[id].token
        /\ native.held = states[id].held /\ native.decoder = states[id].decoder
        /\ native.policy = (IF states[id].policy = "Undecided" THEN "Streaming"
                            ELSE states[id].policy)
    BY <1>1, <1>2, <2>1, NativeSteps
  <2>3. CASE new = Ended(states[id])
    BY <1>1, <1>2, <2>3, TokenSteps
  <2>4. CASE new = native
    BY <1>2, <2>2, <2>4 DEF OwnedStates
  <2>5. CASE new = Ended(native)
    BY <2>2, <2>5, TokenSteps
  <2> QED
    BY <1>5, <2>1, <2>3, <2>4, <2>5
<1>7. Counted(states[id], new, new)
  BY <1>6 DEF Counted
<1>8. Agree(content, streams[s], new)
  BY <1>2, <1>6, FreshMirrored DEF Agree
<1>9. streams' = [streams EXCEPT ![s] = streams[s]]
  BY <1>3 DEF InflateInv
<1> QED
  BY <1>1, <1>2, <1>3, <1>4, <1>6, <1>7, <1>8, <1>9, StateIsSet

(* A dictionary lets the decoder go on after the header.                   *)
LEMMA SetDictionaryKeeps ==
  ASSUME InflateInv, NEW s \in Streams, SetDictionary(s)
  PROVE  InflateInv'
<1>1. PICK id \in StateIds : id = streams[s].state /\ states[id].owner = s
  BY DEF SetDictionary, IsOwned, IsTagged
<1>2. /\ states[id] \in OwnedStates /\ Agree(content, streams[s], states[id])
      /\ ViewIsWhole(content, streams[s]) /\ streams[s] \in StreamViews
  BY <1>1, OwnerAgrees DEF SetDictionary
<1>3. PICK d : d = states[id].decoder
  OBVIOUS
<1>4. states[id].policy = "Streaming" /\ d.taken = HeaderLength
  BY <1>1, <1>3 DEF SetDictionary, WantsDictionary, StateOf
<1>5. PICK e : e = [d EXCEPT !.dictionary = TRUE]
  OBVIOUS
<1>6. PICK new : new = [owner |-> s, policy |-> "Streaming", held |-> states[id].held,
                        token |-> states[id].token, decoder |-> e]
  OBVIOUS
<1>7. d \in Decoders /\ states[id].held \in 0..1 /\ states[id].token \in {"none", "live", "spent"}
  BY <1>2, <1>3 DEF OwnedStates
<1>8. e \in Decoders /\ e.taken = d.taken /\ e.made = d.made /\ e.dictionary
      /\ e.failed = d.failed
  BY <1>5, <1>7 DEF Decoders
<1>9. new \in OwnedStates /\ new.owner = s /\ new.token = states[id].token
      /\ new.policy = "Streaming" /\ new.held = states[id].held /\ new.decoder = e
  BY <1>6, <1>7, <1>8 DEF OwnedStates
<1>10. states' = [states EXCEPT ![id] = new]
  <2>1. states' = [states EXCEPT ![id].decoder.dictionary = TRUE]
    BY <1>1 DEF SetDictionary
  <2>2. [d EXCEPT !.dictionary = TRUE] = e
    BY <1>5
  <2>3. [states[id] EXCEPT !.decoder = e] = new
    BY <1>1, <1>2, <1>4, <1>6 DEF OwnedStates
  <2>4. states' = [states EXCEPT ![id] = [states[id] EXCEPT !.decoder = [d EXCEPT !.dictionary = TRUE]]]
    BY <1>3, <2>1
  <2> QED
    BY <2>2, <2>3, <2>4
<1>11. Agree(content, streams[s], new)
  BY <1>2, <1>3, <1>4, <1>8, <1>9 DEF Agree, Mirrored
<1>12. Counted(states[id], new, new)
  BY <1>7, <1>9 DEF Counted
<1>13. CountTokens(states[id], new)
  BY <1>7, <1>9 DEF SetDictionary, InflateInv, CountTokens
<1>14. streams' = [streams EXCEPT ![s] = streams[s]] /\ content' = content
  BY DEF SetDictionary, InflateInv
<1> QED
  BY <1>1, <1>2, <1>9, <1>10, <1>11, <1>12, <1>13, <1>14, StateIsSet

(* A reset that keeps the window keeps a stream that was served whole.     *)
LEMMA ResetKeepKeeps ==
  ASSUME InflateInv, NEW s \in Streams, ResetKeep(s)
  PROVE  InflateInv'
<1>1. PICK id \in StateIds : id = streams[s].state /\ states[id].owner = s
  BY DEF ResetKeep, IsOwned, IsTagged
<1>2. /\ states[id] \in OwnedStates /\ Agree(content, streams[s], states[id])
      /\ ViewIsWhole(content, streams[s]) /\ streams[s] \in StreamViews
  BY <1>1, OwnerAgrees DEF ResetKeep
<1>3. PICK ended : ended = Ended(states[id])
  OBVIOUS
<1>4. PICK state : state = Native(ended)
  OBVIOUS
<1>5. /\ ended \in OwnedStates /\ state \in OwnedStates /\ state.owner = s
      /\ ended.token = (IF states[id].token = "live" THEN "spent" ELSE states[id].token)
      /\ ended.policy = states[id].policy
      /\ states[id].token \in {"none", "live", "spent"}
      /\ state.token = ended.token /\ state.held = states[id].held
      /\ state.decoder = states[id].decoder
      /\ state.policy = (IF ended.policy = "Undecided" THEN "Streaming" ELSE ended.policy)
  BY <1>1, <1>2, <1>3, <1>4, TokenSteps, NativeSteps
<1>6. CountTokens(states[id], ended) /\ content' = content
  BY <1>1, <1>3 DEF ResetKeep
<1>7. CASE state.policy # "Streaming"
  BY <1>1, <1>3, <1>4, <1>7, <1>5, <1>2, <1>6, StateIsSet DEF ResetKeep, InflateInv, Agree,
     Counted
<1>8. CASE state.policy = "Streaming"
  <2>1. PICK view : view = [FreshStream EXCEPT !.state = id]
    OBVIOUS
  <2>2. PICK new : new = [owner |-> s, policy |-> "Streaming", held |-> 0, token |-> "none",
                          decoder |-> FreshDecoder]
    OBVIOUS
  <2>3. states' = [states EXCEPT ![id] = new] /\ streams' = [streams EXCEPT ![s] = view]
    BY <1>1, <1>3, <1>4, <1>8, <2>1, <2>2, FreshFits DEF ResetKeep, Restarted
  <2>4. new \in OwnedStates /\ new.owner = s /\ new.token = "none"
        /\ new.policy = "Streaming" /\ new.held = 0 /\ new.decoder = FreshDecoder
    BY <2>2, FreshFits DEF OwnedStates
  <2>5. ViewIsWhole(content, view) /\ view.state = id /\ Agree(content, view, FreshState(s))
    BY <2>1, FreshViewFits
  <2>6. view.nextIn = 0 /\ view.totalIn = 0 /\ view.delivered = 0 /\ view.availIn = 0
    BY <2>1 DEF FreshStream
  <2>7. Agree(content, view, new)
    BY <2>4, <2>6, FreshMirrored DEF Agree
  <2>8. Counted(states[id], ended, new)
    BY <1>5, <2>4 DEF Counted
  <2> QED
    BY <1>1, <1>2, <1>5, <1>6, <2>3, <2>4, <2>5, <2>7, <2>8, StateIsSet
<1> QED
  BY <1>7, <1>8

-----------------------------------------------------------------------------
(* A new stream is given a free state.                                     *)
LEMMA Init2Keeps ==
  ASSUME InflateInv, NEW s \in Streams, NEW id \in StateIds, Init2(s, id)
  PROVE  InflateInv'
<1>1. /\ streams[s].state \notin StateIds /\ states[id].owner = NoStream
      /\ states' = [states EXCEPT ![id] = FreshState(s)]
      /\ openTokens' = openTokens /\ content' = content
  BY OwnedInflateAssumption DEF Init2, Live
<1>2. PICK view : view = [FreshStream EXCEPT !.state = id]
  OBVIOUS
<1>3. ViewIsWhole(content, view) /\ view.state = id /\ Agree(content, view, FreshState(s))
  BY <1>2, FreshViewFits
<1>4. streams' = [streams EXCEPT ![s] = view]
  BY <1>2 DEF Init2
<1>5. FreshState(s) \in OwnedStates /\ FreshState(s).owner = s /\ FreshState(s).token = "none"
  BY FreshFits
<1>6. states[id] = Free /\ Free.token = "none"
  BY <1>1, FreshFits DEF InflateInv, Owned, Free
<1>7. Counted(states[id], FreshState(s), FreshState(s))
  BY <1>5, <1>6 DEF Counted
<1>8. CountTokens(states[id], FreshState(s))
  BY <1>1, <1>5, <1>6 DEF CountTokens, InflateInv
<1> QED
  BY <1>1, <1>3, <1>4, <1>5, <1>7, <1>8, StateIsSet

(* The copy of a state agrees with the copy of its stream's view.          *)
LEMMA CopyKeeps ==
  ASSUME InflateInv, NEW source \in Streams, NEW destination \in Streams,
         NEW id \in StateIds, Copy(source, destination, id)
  PROVE  InflateInv'
<1>1. /\ IsOwned(source) /\ openTokens' = openTokens /\ content' = content
      /\ streams[destination].state \notin StateIds /\ states[id].owner = NoStream
  BY OwnedInflateAssumption DEF Copy, Live
<1>2. PICK old \in OwnedStates : old = StateOf(source)
  BY <1>1, OwnerAgrees DEF StateOf
<1>3. /\ Agree(content, streams[source], old)
      /\ ViewIsWhole(content, streams[source]) /\ streams[source] \in StreamViews
  BY <1>1, <1>2, OwnerAgrees DEF StateOf
<1>4. PICK new : new = [old EXCEPT !.owner = destination, !.token = "none"]
  OBVIOUS
<1>5. /\ new \in OwnedStates /\ new.owner = destination /\ new.token = "none"
      /\ new.policy = old.policy /\ new.held = old.held /\ new.decoder = old.decoder
  BY <1>4 DEF OwnedStates
<1>6. PICK view : view = [streams[source] EXCEPT !.state = id]
  OBVIOUS
<1>7. /\ view.state = id /\ view \in StreamViews
      /\ view.nextIn = streams[source].nextIn /\ view.availIn = streams[source].availIn
      /\ view.totalIn = streams[source].totalIn
      /\ view.delivered = streams[source].delivered
      /\ view.finished = streams[source].finished
  BY <1>3, <1>6 DEF StreamViews
<1>8. ViewIsWhole(content, view)
  BY <1>3, <1>7 DEF ViewIsWhole, ViewFits
<1>9. Agree(content, view, new)
  BY <1>5, <1>7, <1>3 DEF Mirrored, Agree
<1>10. /\ states' = [states EXCEPT ![id] = new]
       /\ streams' = [streams EXCEPT ![destination] = view]
  BY <1>2, <1>4, <1>6 DEF Copy
<1>11. states[id] = Free /\ Free.token = "none"
  BY <1>1, FreshFits DEF InflateInv, Owned, Free
<1>12. Counted(states[id], new, new)
  BY <1>5, <1>11 DEF Counted
<1>13. CountTokens(states[id], new)
  BY <1>1, <1>5, <1>11 DEF CountTokens, InflateInv
<1> QED
  BY <1>1, <1>5, <1>7, <1>8, <1>9, <1>10, <1>12, <1>13, StateIsSet

(* The game's own handling of the struct.                                  *)
LEMMA CopyStructKeeps ==
  ASSUME InflateInv, NEW s \in Streams, NEW other \in Streams, CopyStruct(s, other)
  PROVE  InflateInv'
  BY OwnedInflateAssumption, ViewIsSet DEF CopyStruct, InflateInv, Owned, IsOwned, IsTagged

(* A copy that is given up, or a stock stream that ends, owned no state.   *)
LEMMA StreamIsLeft ==
  ASSUME InflateInv, NEW s \in Streams, GiveUpCopy(s) \/ StockEnd(s)
  PROVE  InflateInv'
<1>1. /\ ~IsOwned(s) /\ streams' = [streams EXCEPT ![s] = FreshStream]
      /\ content' = content /\ states' = states /\ openTokens' = openTokens
  BY OwnedInflateAssumption DEF GiveUpCopy, StockEnd, IsOwned, IsTagged
<1>2. PICK view : view = FreshStream
  OBVIOUS
<1>3. view = [FreshStream EXCEPT !.state = NoState]
  BY <1>2, ViewOfNoState
<1>4. ViewIsWhole(content, view) /\ view.state = NoState
  BY <1>3, FreshViewFits
<1>5. NoState \notin StateIds
  BY OwnedInflateAssumption
<1>6. streams' = [streams EXCEPT ![s] = view]
  BY <1>1, <1>2
<1> QED
  BY <1>1, <1>4, <1>5, <1>6, ViewIsSet

(* A stream made by the game names no state of the plugin.                 *)
LEMMA StockInitKeeps ==
  ASSUME InflateInv, NEW s \in Streams, StockInit(s)
  PROVE  InflateInv'
<1>1. /\ streams[s].state = NoState /\ content' = content /\ states' = states
      /\ openTokens' = openTokens /\ streams' = [streams EXCEPT ![s].state = Stock]
  BY DEF StockInit
<1>2. NoState \notin StateIds /\ Stock \notin StateIds
  BY OwnedInflateAssumption
<1>3. ~IsOwned(s)
  BY <1>1, <1>2 DEF IsOwned, IsTagged
<1>4. ViewIsWhole(content, streams[s]) /\ streams[s] \in StreamViews
  BY DEF InflateInv
<1>5. PICK view : view = [streams[s] EXCEPT !.state = Stock]
  OBVIOUS
<1>6. /\ view.state = Stock /\ view \in StreamViews
      /\ view.nextIn = streams[s].nextIn /\ view.availIn = streams[s].availIn
      /\ view.totalIn = streams[s].totalIn /\ view.delivered = streams[s].delivered
      /\ view.finished = streams[s].finished
  BY <1>4, <1>5 DEF StreamViews
<1>7. ViewIsWhole(content, view)
  BY <1>4, <1>6 DEF ViewIsWhole, ViewFits
<1>8. streams' = [streams EXCEPT ![s] = view]
  BY <1>1, <1>5
<1> QED
  BY <1>1, <1>2, <1>3, <1>6, <1>7, <1>8, ViewIsSet

-----------------------------------------------------------------------------
(* A call that the whole decoder serves, now or before.                    *)
LEMMA ServedKeeps ==
  ASSUME InflateInv, NEW s \in Streams, NEW id \in StateIds,
         streams[s].state = id, states[id].owner = s, content' = content,
         NEW stream, NEW added \in Nat,
         streams[s].nextIn + streams[s].availIn + added <= InputLength,
         stream = [state |-> id, nextIn |-> streams[s].nextIn,
                   availIn |-> streams[s].availIn + added, totalIn |-> streams[s].totalIn,
                   delivered |-> streams[s].delivered, finished |-> streams[s].finished],
         NEW state \in OwnedStates, state.owner = s, state.policy = "Done",
         Counted(states[id], state, state),
         states[id].policy = "Done"
            \/ (states[id].policy = "Undecided"
                   /\ stream.availIn = InputLength /\ content # "corrupt"),
         Served(s, id, stream, state)
  PROVE  InflateInv'
<1>1. /\ states[id] \in OwnedStates /\ Agree(content, streams[s], states[id])
      /\ ViewIsWhole(content, streams[s]) /\ streams[s] \in StreamViews
  BY OwnerAgrees DEF IsOwned, IsTagged
<1>2. PICK new : new = Ended(state)
  OBVIOUS
<1>3. /\ new \in OwnedStates /\ new.owner = s /\ new.policy = "Done"
      /\ new.token = IF state.token = "live" THEN "spent" ELSE state.token
  BY <1>2, TokenSteps
<1>4. Counted(states[id], new, new)
  BY <1>1, <1>3 DEF Counted, OwnedStates
<1>5. states' = [states EXCEPT ![id] = new] /\ CountTokens(states[id], new)
  BY <1>2 DEF Served
<1>6. /\ streams[s].nextIn \in 0..InputLength /\ streams[s].availIn \in 0..InputLength
      /\ streams[s].totalIn \in 0..InputLength /\ streams[s].delivered \in 0..OutputLength
      /\ streams[s].totalIn <= streams[s].nextIn
      /\ InputLength \in Nat /\ OutputLength \in Nat
  BY <1>1, Lengths DEF ViewIsWhole, ViewFits, StreamViews
<1>7. /\ stream.state = id /\ stream.nextIn = streams[s].nextIn
      /\ stream.availIn = streams[s].availIn + added /\ stream.totalIn = streams[s].totalIn
      /\ stream.delivered = streams[s].delivered
  OBVIOUS
<1>8. stream \in StreamViews
  BY <1>6, <1>7, <1>1 DEF StreamViews
<1>9. CASE states[id].policy = "Undecided"
  <2>1. /\ streams[s].nextIn = 0 /\ streams[s].availIn = 0 /\ streams[s].totalIn = 0
        /\ stream.availIn = InputLength /\ content # "corrupt"
    BY <1>1, <1>9 DEF Agree
  <2>2. PICK view : view = [state |-> id, nextIn |-> InputLength, availIn |-> 0,
                            totalIn |-> InputLength, delivered |-> OutputLength,
                            finished |-> TRUE]
    OBVIOUS
  <2>3. streams' = [streams EXCEPT ![s] = view]
    <3>1. streams' = [streams EXCEPT ![s] =
              [stream EXCEPT !.nextIn = @ + InputLength, !.availIn = @ - InputLength,
                             !.totalIn = @ + InputLength, !.delivered = OutputLength,
                             !.finished = TRUE]]
      BY <1>9 DEF Served
    <3>2. /\ stream.nextIn + InputLength = InputLength
          /\ stream.availIn - InputLength = 0 /\ stream.totalIn + InputLength = InputLength
      BY <1>6, <1>7, <2>1
    <3>3. streams' = [streams EXCEPT ![s] =
              [stream EXCEPT !.nextIn = InputLength, !.availIn = 0, !.totalIn = InputLength,
                             !.delivered = OutputLength, !.finished = TRUE]]
      BY <3>1, <3>2
    <3>4. PICK after : after =
              [stream EXCEPT !.nextIn = InputLength, !.availIn = 0, !.totalIn = InputLength,
                             !.delivered = OutputLength, !.finished = TRUE]
      OBVIOUS
    <3>5. after = [state |-> stream.state, nextIn |-> InputLength, availIn |-> 0,
                   totalIn |-> InputLength, delivered |-> OutputLength, finished |-> TRUE]
      <4>1. PICK nothing : nothing = 0
        OBVIOUS
      <4>2. PICK all : all = InputLength
        OBVIOUS
      <4>3. PICK out : out = OutputLength
        OBVIOUS
      <4>4. PICK yes : yes = TRUE
        OBVIOUS
      <4>5. nothing \in Int /\ all \in Int /\ out \in Int
        BY <1>6, <4>1, <4>2, <4>3
      <4>6. ViewUpdate(after, stream, all, nothing, all, out, yes)
        BY <3>4, <4>1, <4>2, <4>3, <4>4 DEF ViewUpdate
      <4>7. after = [state |-> stream.state, nextIn |-> all, availIn |-> nothing,
                     totalIn |-> all, delivered |-> out, finished |-> yes]
        BY <1>8, <4>6, <4>5, ViewUpdated
      <4> QED
        BY <4>1, <4>7, <4>2, <4>3, <4>4
    <3>6. after = view
      BY <1>7, <2>2, <3>5
    <3> QED
      BY <3>3, <3>4, <3>6
  <2>4. ViewIsWhole(content, view) /\ view.state = id
        /\ view.nextIn = InputLength /\ view.delivered = OutputLength
    BY <1>6, <2>1, <2>2 DEF ViewIsWhole, ViewFits, StreamViews
  <2>5. Agree(content, view, new)
    BY <1>3, <2>1, <2>4 DEF Agree
  <2> QED
    BY <1>3, <1>4, <1>5, <2>3, <2>4, <2>5, StateIsSet
<1>10. CASE states[id].policy = "Done"
  <2>1. streams[s].nextIn = InputLength /\ streams[s].delivered = OutputLength
        /\ content # "corrupt"
    BY <1>1, <1>10 DEF Agree
  <2>2. PICK view : view = [state |-> id, nextIn |-> InputLength, availIn |-> stream.availIn,
                            totalIn |-> streams[s].totalIn, delivered |-> OutputLength,
                            finished |-> TRUE]
    OBVIOUS
  <2>3. streams' = [streams EXCEPT ![s] = view]
    <3>1. streams' = [streams EXCEPT ![s] = [stream EXCEPT !.finished = TRUE]]
      BY <1>10 DEF Served
    <3>2. PICK after : after = [stream EXCEPT !.finished = TRUE]
      OBVIOUS
    <3>3. after = [state |-> stream.state, nextIn |-> stream.nextIn,
                   availIn |-> stream.availIn, totalIn |-> stream.totalIn,
                   delivered |-> stream.delivered, finished |-> TRUE]
      BY <1>8, <3>2, ViewFinished
    <3>4. after = view
      BY <1>7, <2>1, <2>2, <3>3
    <3> QED
      BY <3>1, <3>2, <3>4
  <2>4. stream.availIn \in 0..InputLength /\ InputLength + stream.availIn <= InputLength
    BY <1>6, <1>7, <2>1
  <2>5. ViewIsWhole(content, view) /\ view.state = id
        /\ view.nextIn = InputLength /\ view.delivered = OutputLength
    BY <1>6, <2>1, <2>2, <2>4 DEF ViewIsWhole, ViewFits, StreamViews
  <2>6. Agree(content, view, new)
    BY <1>3, <2>1, <2>5 DEF Agree
  <2> QED
    BY <1>3, <1>4, <1>5, <2>3, <2>5, <2>6, StateIsSet
<1> QED
  BY <1>9, <1>10

(* A call that the streaming decoder serves.                               *)
LEMMA StreamedCallKeeps ==
  ASSUME InflateInv, NEW s \in Streams, NEW id \in StateIds,
         streams[s].state = id, states[id].owner = s, content' = content,
         NEW stream, ViewFits(stream), stream.state = id,
         NEW state \in OwnedStates, state.owner = s, state.policy = "Streaming",
         Counted(states[id], state, state),
         Mirrored(content, stream, state.held, state.decoder),
         NEW room \in Nat, NEW probed, NEW restored,
         NEW t \in Takes(state.decoder, stream.availIn - state.held, room),
         Streamed(s, id, stream, state, room, t, probed, restored)
  PROVE  InflateInv'
<1>1. PICK decoder : decoder = Run(state.decoder, t, room)
  OBVIOUS
<1>2. PICK took : took = t - state.decoder.taken
  OBVIOUS
<1>3. PICK made : made = decoder.made - state.decoder.made
  OBVIOUS
<1>4. PICK h : h = IF Holds(Answer(decoder), stream.availIn - state.held - took, room - made,
                            stream.availIn - state.held, state.held,
                            PendingOutput(decoder) \/ ~probed)
                   THEN 1 ELSE 0
  OBVIOUS
<1>5. PICK counted : counted = IF Answer(decoder) = "NEED_DICT" /\ restored THEN 0 ELSE took
  OBVIOUS
<1>6. PICK after : after = [state |-> stream.state,
                            nextIn |-> stream.nextIn + state.held + took - h,
                            availIn |-> stream.availIn - state.held - took + h,
                            totalIn |-> stream.totalIn + state.held + counted - h,
                            delivered |-> stream.delivered + made,
                            finished |-> Answer(decoder) = "END"]
  OBVIOUS
<1>7. Mirrored(content, after, h, decoder) /\ ViewIsWhole(content, after)
  BY <1>1, <1>2, <1>3, <1>4, <1>5, <1>6, StreamedKeeps
<1>8. PICK state2 : state2 = [state EXCEPT !.decoder = decoder, !.held = h]
  OBVIOUS
<1>9. PICK new : new = Completed(state2, Answer(decoder))
  OBVIOUS
<1>10. /\ state2 \in OwnedStates /\ state2.owner = s /\ state2.policy = "Streaming"
       /\ state2.held = h /\ state2.decoder = decoder /\ state2.token = state.token
  BY <1>7, <1>8 DEF Mirrored, OwnedStates
<1>11. /\ new \in OwnedStates /\ new.owner = s /\ new.policy = "Streaming"
       /\ new.held = h /\ new.decoder = decoder
       /\ \/ new.token = state.token
          \/ state.token = "live" /\ new.token = "spent"
       /\ state.token \in {"none", "live", "spent"}
  BY <1>10, TokenSteps, <1>9 DEF OwnedStates, Completed
<1>12. Counted(states[id], new, new)
  BY <1>11 DEF Counted
<1>13. states' = [states EXCEPT ![id] = new] /\ CountTokens(states[id], new)
  BY <1>1, <1>2, <1>3, <1>4, <1>8, <1>9 DEF Streamed
<1>14. streams' = [streams EXCEPT ![s] = after]
  <2>1. stream \in StreamViews
    BY DEF ViewFits
  <2>2. PICK done : done = (Answer(decoder) = "END")
    OBVIOUS
  <2>3. PICK n : n = stream.nextIn + state.held + took - h
    OBVIOUS
  <2>4. PICK a : a = stream.availIn - state.held - took + h
    OBVIOUS
  <2>5. PICK u : u = stream.totalIn + state.held + counted - h
    OBVIOUS
  <2>6. PICK w : w = stream.delivered + made
    OBVIOUS
  <2>7. streams' = [streams EXCEPT ![s] =
              [stream EXCEPT !.nextIn = n, !.availIn = a, !.totalIn = u, !.delivered = w,
                             !.finished = done]]
    BY <1>1, <1>2, <1>3, <1>4, <1>5, <2>2, <2>3, <2>4, <2>5, <2>6 DEF Streamed
  <2>8. PICK next : next = [stream EXCEPT !.nextIn = n, !.availIn = a, !.totalIn = u,
                                          !.delivered = w, !.finished = done]
    OBVIOUS
  <2>9. n \in Int /\ a \in Int /\ u \in Int /\ w \in Int
    BY <1>7, <1>6, <2>3, <2>4, <2>5, <2>6, Lengths DEF ViewIsWhole, ViewFits, StreamViews
  <2>10. next = [state |-> stream.state, nextIn |-> n, availIn |-> a, totalIn |-> u,
                 delivered |-> w, finished |-> done]
    <3>1. ViewUpdate(next, stream, n, a, u, w, done)
      BY <2>8 DEF ViewUpdate
    <3> QED
      BY <2>1, <2>9, <3>1, ViewUpdated
  <2>11. next = after
    BY <1>6, <2>2, <2>3, <2>4, <2>5, <2>6, <2>10
  <2> QED
    BY <2>7, <2>8, <2>11
<1>15. Agree(content, after, new)
  BY <1>7, <1>11 DEF Agree
<1>16. after.state = id
  BY <1>6
<1> QED
  BY <1>7, <1>11, <1>12, <1>13, <1>14, <1>15, <1>16, StateIsSet

(* The call itself, served by either decoder.                              *)
LEMMA InflateKeeps ==
  ASSUME InflateInv, NEW s \in Streams, InflateCall(s)
  PROVE  InflateInv'
<1>1. PICK id \in StateIds : id = streams[s].state /\ states[id].owner = s
  BY DEF InflateCall, IsOwned, IsTagged
<1>2. /\ states[id] \in OwnedStates /\ Agree(content, streams[s], states[id])
      /\ ViewIsWhole(content, streams[s]) /\ streams[s] \in StreamViews
  BY <1>1, OwnerAgrees DEF InflateCall
<1>3. PICK added \in 0..InputLength - (streams[s].nextIn + streams[s].availIn),
           room \in Rooms, declined \in BOOLEAN, probed \in BOOLEAN, sampled \in BOOLEAN :
              Inflate(s, added, room, declined, probed, sampled)
  BY DEF InflateCall
<1>4. room \in Nat
  BY OwnedInflateAssumption
<1>5. /\ streams[s].nextIn \in 0..InputLength /\ streams[s].availIn \in 0..InputLength
      /\ streams[s].totalIn \in 0..InputLength /\ streams[s].delivered \in 0..OutputLength
      /\ streams[s].finished \in BOOLEAN /\ streams[s].totalIn <= streams[s].nextIn
      /\ InputLength \in Nat /\ OutputLength \in Nat
  BY <1>2, Lengths DEF ViewIsWhole, ViewFits, StreamViews
<1>6. added \in Nat /\ streams[s].nextIn + streams[s].availIn + added <= InputLength
  BY <1>3, <1>5
<1>7. PICK stream : stream = [streams[s] EXCEPT !.availIn = @ + added]
  OBVIOUS
<1>8. stream = [state |-> id, nextIn |-> streams[s].nextIn,
                availIn |-> streams[s].availIn + added, totalIn |-> streams[s].totalIn,
                delivered |-> streams[s].delivered, finished |-> streams[s].finished]
  BY <1>1, <1>2, <1>7 DEF StreamViews
<1>9. PICK begun : begun = TokenBegun(states[id], sampled)
  OBVIOUS
<1>10. /\ begun \in OwnedStates
       /\ begun.owner = s /\ begun.policy = states[id].policy
       /\ begun.held = states[id].held /\ begun.decoder = states[id].decoder
       /\ states[id].token # "none" => begun.token = states[id].token
       /\ states[id].token = "none" => begun.token \in {"live", "spent"}
  BY <1>1, <1>2, <1>9, BegunSteps
<1>11. PICK serves \in BOOLEAN : serves = WholeServes(stream.availIn, room, declined)
  BY DEF WholeServes
<1>12. PICK state : state = IF begun.policy # "Undecided" THEN begun ELSE Chosen(begun, serves)
  OBVIOUS
<1>13. /\ state \in OwnedStates /\ state.owner = s /\ state.held = states[id].held
       /\ state.decoder = states[id].decoder /\ state.token = begun.token
       /\ IF states[id].policy # "Undecided" THEN state.policy = states[id].policy
          ELSE state.policy = IF serves THEN "Done" ELSE "Streaming"
  BY <1>10, <1>12, ChosenSteps, SMTT(30)
<1>14. Counted(states[id], state, state)
  BY <1>2, <1>13, <1>10 DEF OwnedStates, Counted
<1>15. /\ IF state.policy = "Done" THEN Served(s, id, stream, state)
          ELSE \E t \in Takes(state.decoder, stream.availIn - state.held, room), restored \in BOOLEAN :
                  Streamed(s, id, stream, state, room, t, probed, restored)
       /\ content' = content
  <2> DEFINE at == streams[s].state
             given == [streams[s] EXCEPT !.availIn = @ + added]
             first == TokenBegun(states[at], sampled)
             now == IF first.policy # "Undecided" THEN first
                    ELSE Chosen(first, WholeServes(given.availIn, room, declined))
  <2>1. /\ IF now.policy = "Done" THEN Served(s, at, given, now)
           ELSE /\ given.availIn >= now.held
                /\ \E t \in Takes(now.decoder, given.availIn - now.held, room),
                      restored \in {TRUE, content # "dictionary"} :
                      Streamed(s, at, given, now, room, t, probed, restored)
        /\ content' = content
    BY <1>3 DEF Inflate
  <2>2. at = id /\ given = stream /\ first = begun
    BY <1>1, <1>7, <1>9
  <2>3. now = IF first.policy # "Undecided" THEN first
              ELSE Chosen(first, WholeServes(given.availIn, room, declined))
    OBVIOUS
  <2> HIDE DEF at, given, first, now
  <2>4. now = state
    BY <1>11, <1>12, <2>2, <2>3
  <2> QED
    BY <2>1, <2>2, <2>4
<1>16. states[id].policy \in {"Undecided", "Streaming", "Done"}
  BY <1>2 DEF OwnedStates
<1>17. stream.availIn = streams[s].availIn + added /\ stream.nextIn = streams[s].nextIn
       /\ stream.totalIn = streams[s].totalIn /\ stream.delivered = streams[s].delivered
       /\ stream.state = id
  BY <1>8
<1>18. CASE state.policy = "Done"
  <2>1. serves => stream.availIn = InputLength /\ content # "corrupt"
    BY <1>11 DEF WholeServes, WholeFits
  <2>2. \/ states[id].policy = "Done"
        \/ (states[id].policy = "Undecided"
               /\ stream.availIn = InputLength /\ content # "corrupt")
    BY <1>13, <1>16, <1>18, <2>1
  <2>3. Served(s, id, stream, state) /\ content' = content
    BY <1>15, <1>18
  <2> QED
    BY <1>1, <1>6, <1>8, <1>13, <1>14, <1>18, <2>2, <2>3, ServedKeeps
<1>19. CASE state.policy # "Done"
  <2>1. state.policy = "Streaming" /\ states[id].policy \in {"Undecided", "Streaming"}
    BY <1>13, <1>16, <1>19
  <2>2. PICK t \in Takes(state.decoder, stream.availIn - state.held, room), restored \in BOOLEAN :
           Streamed(s, id, stream, state, room, t, probed, restored)
    BY <1>15, <1>19
  <2>3. ViewFits(stream)
    BY <1>5, <1>6, <1>17, <1>8 DEF StreamViews, ViewFits
  <2>4. Mirrored(content, stream, state.held, state.decoder)
    <3>1. CASE states[id].policy = "Undecided"
      BY <1>2, <1>13, <3>1, <1>5, <1>6, <1>17, FreshMirrored DEF Agree
    <3>2. CASE states[id].policy = "Streaming"
      BY <1>2, <1>13, <3>2, <1>5, <1>6, <1>17 DEF Agree, Mirrored
    <3> QED
      BY <2>1, <3>1, <3>2
  <2>5. content' = content
    BY <1>15
  <2> QED
    BY <1>1, <1>4, <1>13, <1>14, <1>17, <2>1, <2>2, <2>3, <2>4, <2>5, StreamedCallKeeps
<1> QED
  BY <1>18, <1>19

-----------------------------------------------------------------------------
(* No stream has a state at first.                                         *)
LEMMA InflateInit == InflateStart => InflateInv
<1> SUFFICES ASSUME InflateStart PROVE InflateInv
  OBVIOUS
<1>1. /\ content \in {"sound", "corrupt", "dictionary"}
      /\ streams = [s \in Streams |-> FreshStream] /\ states = [id \in StateIds |-> Free]
      /\ openTokens = 0
  BY OwnedInflateAssumption DEF InflateStart
<1>2. PICK view : view = FreshStream
  OBVIOUS
<1>3. view = [FreshStream EXCEPT !.state = NoState]
  BY <1>2, ViewOfNoState
<1>4. ViewIsWhole(content, view) /\ view.state = NoState
  BY <1>3, FreshViewFits
<1>5. view \in StreamViews /\ NoState \notin StateIds
  BY <1>4, OwnedInflateAssumption DEF ViewIsWhole, ViewFits
<1>6. Free \in OwnedStates /\ Free.owner = NoStream /\ Free.token = "none"
  BY FreshFits DEF Free
<1> HIDE DEF Free
<1>7. \A s \in Streams : streams[s] = view
  BY <1>1, <1>2
<1>8. \A id \in StateIds : states[id] = Free
  BY <1>1
<1>9. streams \in [Streams -> StreamViews] /\ states \in [StateIds -> OwnedStates]
  BY <1>1, <1>2, <1>5, <1>6
<1>10. \A s \in Streams : ViewIsWhole(content, streams[s])
  BY <1>4, <1>7
<1>11. openTokens \in Nat /\ openTokens = LiveTokens(states)
  BY <1>6, <1>8, <1>1, FS_EmptySet DEF LiveTokens
<1>12. Owned(content, streams, states)
  BY <1>4, <1>5, <1>6, <1>7, <1>8 DEF Owned
<1> QED
  BY <1>1, <1>9, <1>10, <1>11, <1>12 DEF InflateInv

(* Every operation on the streams keeps the invariant.                     *)
LEMMA InflateStep == InflateInv /\ [InflateNext]_inflateVars => InflateInv'
<1> SUFFICES ASSUME InflateInv, [InflateNext]_inflateVars PROVE InflateInv'
  OBVIOUS
<1>1. CASE UNCHANGED inflateVars \/ InstallHooks
  BY <1>1 DEF inflateVars, InstallHooks, InflateInv
<1>2. ASSUME NEW s \in Streams, StockInit(s) PROVE InflateInv'
  BY <1>2, StockInitKeeps
<1>3. ASSUME NEW s \in Streams, GiveUpCopy(s) \/ StockEnd(s) PROVE InflateInv'
  BY <1>3, StreamIsLeft
<1>4. ASSUME NEW s \in Streams, InflateCall(s) PROVE InflateInv'
  BY <1>4, InflateKeeps
<1>5. ASSUME NEW s \in Streams, Reset(s) PROVE InflateInv'
  BY <1>5, ResetKeeps
<1>6. ASSUME NEW s \in Streams, ResetKeep(s) PROVE InflateInv'
  BY <1>6, ResetKeepKeeps
<1>7. ASSUME NEW s \in Streams, Control(s) PROVE InflateInv'
  BY <1>7, ControlKeeps
<1>8. ASSUME NEW s \in Streams, SetDictionary(s) PROVE InflateInv'
  BY <1>8, SetDictionaryKeeps
<1>9. ASSUME NEW s \in Streams, End(s) PROVE InflateInv'
  BY <1>9, EndKeeps
<1>10. ASSUME NEW s \in Streams, NEW id \in StateIds, Init2(s, id) PROVE InflateInv'
  BY <1>10, Init2Keeps
<1>11. ASSUME NEW s \in Streams, NEW other \in Streams, CopyStruct(s, other) PROVE InflateInv'
  BY <1>11, CopyStructKeeps
<1>12. ASSUME NEW s \in Streams, NEW other \in Streams, NEW id \in StateIds,
              Copy(s, other, id)
       PROVE  InflateInv'
  BY <1>12, CopyKeeps
<1> QED
  BY <1>1, <1>2, <1>3, <1>4, <1>5, <1>6, <1>7, <1>8, <1>9, <1>10, <1>11, <1>12
     DEF InflateNext

(* The invariant gives what is promised of the streams.                    *)
LEMMA InflateInvSuffices == InflateInv => StreamsAreWhole
<1> SUFFICES ASSUME InflateInv PROVE StreamsAreWhole
  OBVIOUS
<1>1. /\ streams \in [Streams -> StreamViews] /\ states \in [StateIds -> OwnedStates]
      /\ openTokens \in Nat /\ openTokens = LiveTokens(states)
      /\ \A s \in Streams : ViewIsWhole(content, streams[s])
  BY DEF InflateInv
<1>2. InflateTypeOK
  BY <1>1 DEF InflateTypeOK, StreamViews, OwnedStates
<1>3. ASSUME NEW s \in Streams, Streaming(s)
      PROVE  Mirrored(content, streams[s], StateOf(s).held, StateOf(s).decoder)
  BY <1>3, OwnerAgrees DEF Streaming, StateOf, Agree
<1>4. NothingIsStranded
  <2>1. SUFFICES ASSUME NEW s \in Streams, Streaming(s), ~StateOf(s).decoder.failed,
                        streams[s].availIn = 0
                 PROVE  streams[s].delivered = Output[streams[s].nextIn]
    BY DEF NothingIsStranded
  <2>2. /\ StateOf(s).held \in 0..1 /\ StateOf(s).held <= 0
        /\ StateOf(s).decoder.taken = streams[s].nextIn + StateOf(s).held
        /\ StateOf(s).decoder.made = streams[s].delivered
        /\ StateOf(s).decoder.made = Output[StateOf(s).decoder.taken]
    BY <1>3, <2>1 DEF Mirrored
  <2>3. streams[s].nextIn \in Nat
    BY <1>1, Lengths DEF StreamViews
  <2>4. StateOf(s).decoder.taken = streams[s].nextIn
    BY <2>2, <2>3
  <2> QED
    BY <2>2, <2>4
<1>5. ViewsAgree
  BY <1>3 DEF ViewsAgree, Mirrored
<1>6. FinishedIsWhole
  BY <1>1 DEF FinishedIsWhole, ViewIsWhole
<1>7. StatesAreOwned
  BY DEF InflateInv, Owned, StatesAreOwned, Live
<1>8. TokensAreEnded
  BY <1>1 DEF TokensAreEnded
<1> QED
  BY <1>2, <1>4, <1>5, <1>6, <1>7, <1>8 DEF StreamsAreWhole

(* However a game feeds its streams, each gets all of its output, its state *)
(* is its own and what is profiled of it is ended once.                     *)
THEOREM StreamsAlwaysWhole == InflateSpec => []StreamsAreWhole
<1>1. InflateSpec => []InflateInv
  BY InflateInit, InflateStep, PTL DEF InflateSpec
<1> QED
  BY <1>1, InflateInvSuffices, PTL
=============================================================================
