------------------------------ MODULE CullingMap ------------------------------
(***************************************************************************)
(* The map from form ids to the 3D that is loaded for them, with which the *)
(* game's precombined culling finds what to cull                           *)
(* (Modules/AdModuleBSPreCulledObjects.cpp).                               *)
(*                                                                         *)
(* A full id is a file index and a base id.  Ids of the base game and of   *)
(* created forms (indices 00 and FD) stand for themselves; of any other    *)
(* file only the base is looked up, and every object with that base is     *)
(* meant, lowest index first.  Threads that load and unload cells update   *)
(* the map; the renderer walks the lists of ids with the map's mutex held  *)
(* for the whole walk.  An object is shared: it lives while somebody holds *)
(* it, the map included, and its address may then be used again.           *)
(*                                                                         *)
(* bUsePreCulledObjects does not change while the game runs.  The lists of *)
(* dynamic objects, which the game keeps and no lock of the fix covers,    *)
(* bounds and shadow flags are left out.                                   *)
(***************************************************************************)
EXTENDS Integers, Sequences, FiniteSets

CONSTANTS
    Loaders,            \* threads that load and unload
    Objects,            \* addresses of objects
    Bases,              \* base ids
    SpecialIndices,     \* 00 and FD
    FileIndices,        \* the other file indices
    NobodyCulls, NoObject

Renderer == "renderer"

ASSUME CullAssumption ==
    /\ SpecialIndices \cap FileIndices = {} /\ FileIndices \subseteq Nat
    /\ NoObject \notin Objects
    /\ Renderer \notin Loaders /\ NobodyCulls \notin Loaders \cup {Renderer}

FullIds == [index : SpecialIndices \cup FileIndices, base : Bases]
IsSpecial(id) == id.index \in SpecialIndices

VARIABLES
    special,        \* _special: full id -> object
    generic,        \* _generic: base -> entries [id, object], sorted
    cullLock,       \* _lock
    loaded,         \* the objects each loader keeps: full id -> object
    updating,       \* a loader's update under way: [id, object], or none
    walk,           \* ids of the renderer's list still to look up
    span,           \* entries of the needle found last, still to visit
    visiting,       \* the object the renderer is adding to a group
    tracked,        \* ids the game has been told are visible this frame
    callbacks       \* ids with a visibility callback registered

mapVars == <<special, generic>>
walkVars == <<walk, span, visiting>>
cullVars == <<mapVars, cullLock, loaded, updating, walkVars, tracked, callbacks>>

NoUpdate == <<>>
Entry(id, object) == [id |-> id, object |-> object]

CullTypeOK ==
    /\ DOMAIN special \subseteq {id \in FullIds : IsSpecial(id)}
    /\ \A id \in DOMAIN special : special[id] \in Objects
    /\ DOMAIN generic \subseteq Bases
    /\ cullLock \in Loaders \cup {Renderer, NobodyCulls}
    /\ DOMAIN loaded \subseteq FullIds
    /\ tracked \subseteq FullIds /\ callbacks \subseteq FullIds
    /\ visiting \in Objects \cup {NoObject}

CullStart ==
    /\ special = <<>> /\ generic = <<>> /\ cullLock = NobodyCulls
    /\ loaded = <<>> /\ updating = [t \in Loaders |-> NoUpdate]
    /\ walk = {} /\ span = <<>> /\ visiting = NoObject
    /\ tracked = {} /\ callbacks = {}

\* IDTo3DMap::find.
Found(id) ==
    CASE IsSpecial(id) /\ id \in DOMAIN special -> <<Entry(id, special[id])>>
      [] ~IsSpecial(id) /\ id.base \in DOMAIN generic -> generic[id.base]
      [] OTHER -> <<>>

EntriesOf(base) == IF base \in DOMAIN generic THEN generic[base] ELSE <<>>

\* lower_bound: how many entries have a lower id.
LowerBound(entries, id) ==
    Cardinality({k \in DOMAIN entries : entries[k].id.index < id.index})
HasAt(entries, k, id) == k < Len(entries) /\ entries[k + 1].id = id

\* insert_generic: the entry's object is replaced, or an entry is added and the
\* container sorted.
InsertedInto(entries, id, object) ==
    LET k == LowerBound(entries, id)
    IN  IF HasAt(entries, k, id) THEN [entries EXCEPT ![k + 1].object = object]
        ELSE SubSeq(entries, 1, k) \o <<Entry(id, object)>> \o SubSeq(entries, k + 1, Len(entries))

\* erase_generic.
ErasedFrom(entries, id) ==
    LET k == LowerBound(entries, id)
    IN  IF HasAt(entries, k, id)
        THEN SubSeq(entries, 1, k) \o SubSeq(entries, k + 2, Len(entries))
        ELSE entries

With(f, key, value) == [k \in DOMAIN f \cup {key} |-> IF k = key THEN value ELSE f[k]]
Without(f, key) == [k \in DOMAIN f \ {key} |-> f[k]]

MapInsertOrAssign(id, object) ==
    IF IsSpecial(id) THEN special' = With(special, id, object) /\ UNCHANGED generic
    ELSE /\ generic' = With(generic, id.base, InsertedInto(EntriesOf(id.base), id, object))
         /\ UNCHANGED special

Erase(id) ==
    IF IsSpecial(id) THEN special' = Without(special, id) /\ UNCHANGED generic
    ELSE LET left == ErasedFrom(EntriesOf(id.base), id)
         IN  /\ generic' = IF left = <<>> THEN Without(generic, id.base)
                           ELSE With(generic, id.base, left)
             /\ UNCHANGED special

\* An object somebody holds: a cell, the map, an update or the renderer's span.
Entries == {Entry(id, special[id]) : id \in DOMAIN special}
           \cup UNION {{generic[b][k] : k \in DOMAIN generic[b]} : b \in DOMAIN generic}
Alive == {loaded[id] : id \in DOMAIN loaded} \cup {e.object : e \in Entries}
         \cup {updating[t].object : t \in {t \in Loaders : updating[t] # NoUpdate}}

----------------------------------------------------------------------------
\* A cell's reference gets its 3D, or other 3D than it had, and gives it up; the
\* game updates the map for each (external).  Different threads never do so for
\* one reference at once.
Idle(t, id) == updating[t] = NoUpdate /\ \A u \in Loaders : updating[u] # NoUpdate => updating[u].id # id

Load3D(t, id) ==
    /\ Idle(t, id)
    /\ \E object \in Objects \ Alive :
          /\ loaded' = With(loaded, id, object)
          /\ updating' = [updating EXCEPT ![t] = Entry(id, object)]
    /\ UNCHANGED <<mapVars, cullLock, walkVars, tracked, callbacks>>

Unload3D(t, id) ==
    /\ Idle(t, id) /\ id \in DOMAIN loaded
    /\ loaded' = Without(loaded, id)
    /\ updating' = [updating EXCEPT ![t] = Entry(id, NoObject)]
    /\ UNCHANGED <<mapVars, cullLock, walkVars, tracked, callbacks>>

\* UpdateIDto3DMap.
LockMap(t) ==
    /\ updating[t] # NoUpdate /\ cullLock = NobodyCulls /\ cullLock' = t
    /\ UNCHANGED <<mapVars, loaded, updating, walkVars, tracked, callbacks>>

UpdateUnlocked(t) ==        \* the game's own map had its lock taken by the caller
    /\ updating[t] # NoUpdate
    /\ LET id == updating[t].id
       IN  IF updating[t].object # NoObject
           THEN MapInsertOrAssign(id, updating[t].object) /\ UNCHANGED <<tracked, callbacks>>
           ELSE Erase(id) /\ callbacks' = callbacks \ {id} /\ tracked' = tracked \ {id}
    /\ updating' = [updating EXCEPT ![t] = NoUpdate]
    /\ cullLock' = IF cullLock = t THEN NobodyCulls ELSE cullLock
    /\ UNCHANGED <<loaded, walkVars>>

UpdateIDto3DMap(t) ==
    /\ updating[t] # NoUpdate /\ cullLock = t
    /\ LET id == updating[t].id
       IN  IF updating[t].object # NoObject
           THEN MapInsertOrAssign(id, updating[t].object) /\ UNCHANGED <<tracked, callbacks>>
           ELSE Erase(id) /\ callbacks' = callbacks \ {id} /\ tracked' = tracked \ {id}
    /\ updating' = [updating EXCEPT ![t] = NoUpdate]
    /\ cullLock' = NobodyCulls
    /\ UNCHANGED <<loaded, walkVars>>

\* The game registers a visibility callback for 3D it has (external).
Register3D(id) ==
    /\ id \in DOMAIN loaded /\ id \notin callbacks /\ callbacks' = callbacks \cup {id}
    /\ \A t \in Loaders : updating[t] # NoUpdate => updating[t].id # id
    /\ UNCHANGED <<mapVars, cullLock, loaded, updating, walkVars, tracked>>

\* DoAddToCullingGroup: takes the lock for the whole list ...
BeginWalk(needles) ==
    /\ walk = {} /\ span = <<>> /\ visiting = NoObject /\ cullLock = NobodyCulls
    /\ walk' = needles /\ cullLock' = Renderer
    /\ UNCHANGED <<mapVars, loaded, updating, span, visiting, tracked, callbacks>>

\* ... looks up one id after another ...
LookUp(needle) ==
    /\ needle \in walk /\ span = <<>> /\ visiting = NoObject
    /\ walk' = walk \ {needle} /\ span' = Found(needle)
    /\ UNCHANGED <<mapVars, cullLock, loaded, updating, visiting, tracked, callbacks>>

\* ... and adds what is found, unless it is culled already, telling the game
\* that it is visible.
Visit ==
    /\ span # <<>> /\ visiting = NoObject
    /\ visiting' = Head(span).object /\ span' = Tail(span)
    /\ \/ tracked' = tracked \cup {Head(span).id}
       \/ UNCHANGED tracked
    /\ UNCHANGED <<mapVars, cullLock, loaded, updating, walk, callbacks>>

Visited ==
    /\ visiting # NoObject /\ visiting' = NoObject
    /\ UNCHANGED <<mapVars, cullLock, loaded, updating, walk, span, tracked, callbacks>>

EndWalk ==
    /\ cullLock = Renderer /\ walk = {} /\ span = <<>> /\ visiting = NoObject
    /\ cullLock' = NobodyCulls
    /\ UNCHANGED <<mapVars, loaded, updating, walkVars, tracked, callbacks>>

\* CallVisibilityCallbacks, after the lock is gone: the game calls those it has
\* and forgets what it was told (external).
CallVisibilityCallbacks ==
    /\ cullLock # Renderer /\ tracked # {} /\ tracked' = {}
    /\ UNCHANGED <<mapVars, cullLock, loaded, updating, walkVars, callbacks>>

CullNext ==
    \/ \E t \in Loaders :
          \/ \E id \in FullIds : Load3D(t, id) \/ Unload3D(t, id)
          \/ LockMap(t) \/ UpdateIDto3DMap(t)
    \/ \E id \in FullIds : Register3D(id) \/ LookUp(id)
    \/ \E needles \in SUBSET FullIds : BeginWalk(needles)
    \/ Visit \/ Visited \/ EndWalk \/ CallVisibilityCallbacks

CullSpec == CullStart /\ [][CullNext]_cullVars

----------------------------------------------------------------------------
\* What the map promises: it holds what is loaded, except for ids that are being
\* updated, each once; a base's entries are in order and never empty.
MapIsWhatIsLoaded ==
    /\ \A id \in FullIds :
          (\A t \in Loaders : updating[t] = NoUpdate \/ updating[t].id # id) =>
              {e \in Entries : e.id = id}
                 = (IF id \in DOMAIN loaded THEN {Entry(id, loaded[id])} ELSE {})
    /\ \A b \in DOMAIN generic :
          /\ generic[b] # <<>>
          /\ \A k \in DOMAIN generic[b] :
                /\ generic[b][k].id.base = b
                /\ k > 1 => generic[b][k - 1].id.index < generic[b][k].id.index

\* Nothing the renderer visits or has still to visit has been given back, whatever
\* is unloaded meanwhile.
WalkSeesLiveObjects ==
    /\ visiting \in Alive \cup {NoObject}
    /\ \A k \in DOMAIN span : span[k] \in Entries

\* No callback is left for 3D that is gone, and none is called.
CallbacksAreForTheLoaded ==
    \A id \in callbacks \cup tracked :
        \/ id \in DOMAIN loaded
        \/ \E t \in Loaders : updating[t] # NoUpdate /\ updating[t].id = id

\* The renderer culls what is loaded, and nothing that has been given back.
CullingFindsLoaded ==
    CullTypeOK /\ MapIsWhatIsLoaded /\ WalkSeesLiveObjects /\ CallbacksAreForTheLoaded
=============================================================================
