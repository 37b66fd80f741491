--------------------------- MODULE EffectLifetime ---------------------------
(***************************************************************************)
(* The fix for shader effects that outlive the active effect owning their  *)
(* controller (AdModuleShaderReferenceEffectLifetime.cpp), with the        *)
(* registry it keeps (DependentRegistry, AdDependentRegistry.h).           *)
(*                                                                         *)
(* Hooks on the constructor of shader effects and on the destructors of    *)
(* both classes are put in one after the other while the game's threads    *)
(* may already be making and destroying effects.  A destroyed object's     *)
(* memory is used again: Shaders and Owners are addresses.                 *)
(***************************************************************************)
EXTENDS Naturals, FiniteSets

CONSTANTS
    Threads,        \* the game's threads
    Owners,         \* addresses of active effects
    Shaders,        \* addresses of shader reference effects
    None            \* the null controller

ASSUME AddressAssumption ==
    /\ None \notin Owners \cup Shaders \cup Threads
    /\ Owners \cap Shaders = {}

VARIABLES
    inlined,        \* whether the owner's deleting destructor inlines the plain
                    \* one, as on NG and AE, or calls it, as on OG
    hooks,          \* the hooks in place
    installing,     \* whether DoInstall is still putting hooks in
    lock,           \* the thread that holds m_mutex, or None
    owners,         \* m_owners
    dependents,     \* m_dependents; an absent key is an empty set
    alive,          \* the objects whose memory is valid
    controller,     \* the owner of the controller a shader effect points to
    tracked,        \* the shader effects made through the constructor's hook
    step,           \* what each thread is doing
    shader, owner,  \* with which shader effect and which owner
    left            \* the dependents its Release has still to detach

vars == <<inlined, hooks, installing, lock, owners, dependents, alive,
          controller, tracked, step, shader, owner, left>>
objectVars == <<alive, controller, tracked>>
registryVars == <<lock, owners, dependents, left>>
callVars == <<step, shader, owner>>
hookVars == <<inlined, hooks, installing>>

Steps == {"idle", "link", "unlink", "freeShader", "lock", "detach", "freeOwner"}
DestructorHooks == {"shader", "owner"} \cup (IF inlined THEN {"deleting"} ELSE {})

Init ==
    /\ inlined \in BOOLEAN
    /\ hooks = {} /\ installing = TRUE
    /\ lock = None
    /\ owners = [s \in Shaders |-> None]
    /\ dependents = [o \in Owners |-> {}]
    /\ alive = {}
    /\ controller = [s \in Shaders |-> None]
    /\ tracked = {}
    /\ step = [t \in Threads |-> "idle"]
    /\ shader = [t \in Threads |-> None]
    /\ owner = [t \in Threads |-> None]
    /\ left = [t \in Threads |-> {}]

\* Thread t begins or continues a call, on shader s and owner o.
Call(t, label, s, o) ==
    /\ step' = [step EXCEPT ![t] = label]
    /\ shader' = [shader EXCEPT ![t] = s]
    /\ owner' = [owner EXCEPT ![t] = o]

\* The object is an argument of a call in progress.
Busy(x) == \E t \in Threads : shader[t] = x \/ owner[t] = x

-----------------------------------------------------------------------------
(* DoInstall.                                                              *)

(* Mutant: the constructor may be hooked before the destructors.           *)
InstallHookAnyOrder(h) ==
    /\ installing
    /\ h \in (DestructorHooks \cup {"constructor"}) \ hooks
    /\ hooks' = hooks \cup {h}
    /\ UNCHANGED <<inlined, installing, registryVars, objectVars, callVars>>

\* The constructor is hooked last, when all the destructors are.
InstallHook(h) ==
    /\ installing
    /\ h \in (DestructorHooks \cup {"constructor"}) \ hooks
    /\ h = "constructor" => DestructorHooks \subseteq hooks
    /\ hooks' = hooks \cup {h}
    /\ UNCHANGED <<inlined, installing, registryVars, objectVars, callVars>>

\* A detour fails: the destructors left are still tried, the constructor is not
\* hooked.  Also the end of a DoInstall that has succeeded.
EndInstall ==
    /\ installing
    /\ installing' = FALSE
    /\ UNCHANGED <<inlined, hooks, registryVars, objectVars, callVars>>

-----------------------------------------------------------------------------
(* The registry.                                                           *)

(* Mutant: the owner's list keeps the dependent.                           *)
UnlinkOneSided(s) ==
    /\ owners' = [owners EXCEPT ![s] = None]
    /\ UNCHANGED dependents

\* UnlinkLocked.
UnlinkLocked(s) ==
    /\ owners' = [owners EXCEPT ![s] = None]
    /\ dependents' = [o \in Owners |->
                         IF o = owners[s] THEN dependents[o] \ {s} ELSE dependents[o]]

\* Link, which first unlinks what an earlier owner may have of the address.
Link(s, o) ==
    /\ owners' = [owners EXCEPT ![s] = o]
    /\ dependents' = [p \in Owners |->
                         IF p = o THEN dependents[p] \cup {s}
                         ELSE IF p = owners[s] THEN dependents[p] \ {s}
                         ELSE dependents[p]]

-----------------------------------------------------------------------------
(* The game's threads, through the hooks that are in place.                *)

\* An active effect comes to life.
MakeOwner(o) ==
    /\ o \notin alive /\ ~Busy(o)
    /\ alive' = alive \cup {o}
    /\ UNCHANGED <<hookVars, registryVars, callVars, controller, tracked>>

\* Somebody is destroying the owner.
Destroying(o) == \E t \in Threads : owner[t] = o /\ step[t] # "link"

\* A shader effect is constructed for an owner nobody is destroying.
Construct(t, s, o) ==
    /\ step[t] = "idle"
    /\ s \notin alive /\ ~Busy(s)
    /\ o \in alive /\ ~Destroying(o)
    /\ alive' = alive \cup {s}
    /\ controller' = [controller EXCEPT ![s] = o]
    /\ IF "constructor" \in hooks
       THEN Call(t, "link", s, o) /\ tracked' = tracked \cup {s}
       ELSE UNCHANGED <<callVars, tracked>>
    /\ UNCHANGED <<hookVars, registryVars>>

\* HKConstructor links it when the original constructor has returned.
LinkNew(t) ==
    /\ step[t] = "link"
    /\ lock = None
    /\ Link(shader[t], owner[t])
    /\ Call(t, "idle", None, None)
    /\ UNCHANGED <<hookVars, lock, left, objectVars>>

\* The game itself detaches a shader effect.
VanillaDetach(s) ==
    /\ s \in alive /\ ~Busy(s)
    /\ controller' = [controller EXCEPT ![s] = None]
    /\ UNCHANGED <<hookVars, registryVars, callVars, alive, tracked>>

\* A shader effect's deleting destructor is called.
DestroyShader(t, s) ==
    /\ step[t] = "idle"
    /\ s \in alive /\ ~Busy(s)
    /\ Call(t, IF "shader" \in hooks THEN "unlink" ELSE "freeShader", s, None)
    /\ UNCHANGED <<hookVars, registryVars, objectVars>>

(* Mutant: Unlink does not wait for the lock.                              *)
UnlinkUnlocked(t) ==
    /\ step[t] = "unlink"
    /\ UnlinkLocked(shader[t])
    /\ Call(t, "freeShader", shader[t], None)
    /\ UNCHANGED <<hookVars, lock, left, objectVars>>

\* HKShaderDeletingDestructor unlinks it before anything else.
Unlink(t) ==
    /\ step[t] = "unlink"
    /\ lock = None
    /\ UnlinkLocked(shader[t])
    /\ Call(t, "freeShader", shader[t], None)
    /\ UNCHANGED <<hookVars, lock, left, objectVars>>

FreeShader(t) ==
    /\ step[t] = "freeShader"
    /\ alive' = alive \ {shader[t]}
    /\ controller' = [controller EXCEPT ![shader[t]] = None]
    /\ tracked' = tracked \ {shader[t]}
    /\ Call(t, "idle", None, None)
    /\ UNCHANGED <<hookVars, registryVars>>

\* An owner is destroyed, by the plain destructor or by the deleting one; where
\* that one calls the plain destructor, its hook serves both.
DestroyOwner(t, o, deleting) ==
    /\ step[t] = "idle"
    /\ o \in alive /\ ~Busy(o)
    /\ LET hook == IF deleting /\ inlined THEN "deleting" ELSE "owner"
       IN  Call(t, IF hook \in hooks THEN "lock" ELSE "freeOwner", None, o)
    /\ UNCHANGED <<hookVars, registryVars, objectVars>>

\* DetachShaders calls Release, which holds the lock through its loop.
BeginRelease(t) ==
    /\ step[t] = "lock"
    /\ lock = None
    /\ lock' = t
    /\ left' = [left EXCEPT ![t] = dependents[owner[t]]]
    /\ Call(t, "detach", None, owner[t])
    /\ UNCHANGED <<hookVars, owners, dependents, objectVars>>

\* One dependent loses its owner and, unless it has another controller by now,
\* its controller.
Detach(t, s) ==
    /\ step[t] = "detach"
    /\ s \in left[t]
    /\ left' = [left EXCEPT ![t] = @ \ {s}]
    /\ owners' = [owners EXCEPT ![s] = None]
    /\ controller' = [controller EXCEPT
                         ![s] = IF @ = owner[t] THEN None ELSE @]
    /\ UNCHANGED <<hookVars, lock, dependents, alive, tracked, callVars>>

(* Mutant: an early return leaves the mutex locked.                        *)
EndReleaseLocked(t) ==
    /\ step[t] = "detach"
    /\ left[t] = {}
    /\ dependents' = [dependents EXCEPT ![owner[t]] = {}]
    /\ Call(t, "freeOwner", None, owner[t])
    /\ UNCHANGED <<hookVars, lock, owners, left, objectVars>>

EndRelease(t) ==
    /\ step[t] = "detach"
    /\ left[t] = {}
    /\ dependents' = [dependents EXCEPT ![owner[t]] = {}]
    /\ lock' = None
    /\ Call(t, "freeOwner", None, owner[t])
    /\ UNCHANGED <<hookVars, owners, left, objectVars>>

FreeOwner(t) ==
    /\ step[t] = "freeOwner"
    /\ alive' = alive \ {owner[t]}
    /\ Call(t, "idle", None, None)
    /\ UNCHANGED <<hookVars, registryVars, controller, tracked>>

Next ==
    \/ \E h \in DestructorHooks \cup {"constructor"} : InstallHook(h)
    \/ EndInstall
    \/ \E o \in Owners : MakeOwner(o)
    \/ \E s \in Shaders : VanillaDetach(s)
    \/ \E t \in Threads :
          \/ \E s \in Shaders :
                \/ \E o \in Owners : Construct(t, s, o)
                \/ DestroyShader(t, s)
                \/ Detach(t, s)
          \/ \E o \in Owners, deleting \in BOOLEAN : DestroyOwner(t, o, deleting)
          \/ LinkNew(t) \/ Unlink(t) \/ FreeShader(t)
          \/ BeginRelease(t) \/ EndRelease(t) \/ FreeOwner(t)

Spec == Init /\ [][Next]_vars

-----------------------------------------------------------------------------
(* Properties.                                                             *)

\* Every variable keeps its type, and the lock is held by the one thread that is
\* in Release, which holds it between its steps.
TypeOK ==
    /\ inlined \in BOOLEAN /\ installing \in BOOLEAN
    /\ hooks \subseteq DestructorHooks \cup {"constructor"}
    /\ lock \in Threads \cup {None}
    /\ owners \in [Shaders -> Owners \cup {None}]
    /\ dependents \in [Owners -> SUBSET Shaders]
    /\ alive \subseteq Owners \cup Shaders
    /\ controller \in [Shaders -> Owners \cup {None}]
    /\ tracked \subseteq Shaders
    /\ step \in [Threads -> Steps]
    /\ shader \in [Threads -> Shaders \cup {None}]
    /\ owner \in [Threads -> Owners \cup {None}]
    /\ left \in [Threads -> SUBSET Shaders]
    /\ \A t \in Threads : step[t] = "detach" <=> lock = t

\* The two maps of the registry describe one relation, and only between objects
\* that are alive, so a new object at an old address inherits no link.
LinksAreLive ==
    \A s \in Shaders, o \in Owners :
        /\ owners[s] = o => s \in dependents[o] /\ s \in alive /\ o \in alive
        /\ s \in dependents[o] /\ lock = None => owners[s] = o

\* What Release is about to touch has not been freed: "Runs under the lock so a
\* concurrent Unlink cannot let a dependent be freed mid-detach".
DetachTouchesLive ==
    \A t \in Threads, s \in Shaders : s \in left[t] => s \in alive

\* No shader effect made through the hook keeps the controller of an owner that
\* has been destroyed, the crash the module is there to prevent; a shader effect
\* whose own destructor has begun is no longer detached.
NoDanglingController ==
    \A s \in tracked :
        \/ controller[s] = None
        \/ controller[s] \in alive
        \/ \E t \in Threads : shader[t] = s /\ step[t] = "freeShader"

\* Whoever dies first, owner or shader effect, and whichever threads destroy them:
\* neither the registry nor a game object leads to one that is gone.
EffectsAreLive == LinksAreLive /\ DetachTouchesLive /\ NoDanglingController
=============================================================================
