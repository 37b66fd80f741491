----------------------------- MODULE MCHooks -----------------------------
(***************************************************************************)
(* What Addictol puts between the game, the plugins and the system: a      *)
(* behaviour is one of the co-save's file functions, of a batch of         *)
(* detours, of patched pointers or of the timed plugin callbacks, chosen in *)
(* its first state, while the others stay as they start.                   *)
(*                                                                         *)
(* Files: two threads, two handle numbers, a co-save and another file of   *)
(* one byte, positions up to one past its end.  No step depends on the     *)
(* last answer: states that differ only there are explored once, and every *)
(* step from them is still compared with the plain files.  Detours: two    *)
(* targets, two other threads.  Pointers: three, two of them on one page.  *)
(* Callbacks: two plugins, one that was there before, two thunks for three *)
(* registrations, two threads.                                             *)
(***************************************************************************)
EXTENDS CosaveIO, DetourBatch, PluginCallbacks, TLC

MCPageOf == "a" :> "p1" @@ "b" :> "p1" @@ "c" :> "p2"

VARIABLE hooks      \* the part this behaviour is one of

MCInit ==
    /\ hooks \in {"files", "detours", "pointers", "callbacks"}
    /\ CosaveInit
    /\ BatchStart /\ (hooks # "detours" => life = [t \in BatchThreads |-> "unborn"])
    /\ PatchStart
    /\ (hooks # "pointers" =>
            /\ user = "memory" /\ patches = CHOOSE order \in Orders : TRUE
            /\ slot = [s \in Slots |-> "null"] /\ protection = [p \in Pages |-> "r"])
    /\ CallbackStart

allHookVars == <<hooks, cosaveVars, batchVars, patchVars, callbackVars>>
Others(chosen) ==
    /\ hooks = chosen
    /\ UNCHANGED hooks
    /\ IF chosen = "files" THEN TRUE ELSE UNCHANGED cosaveVars
    /\ IF chosen = "detours" THEN TRUE ELSE UNCHANGED batchVars
    /\ IF chosen = "pointers" THEN TRUE ELSE UNCHANGED patchVars
    /\ IF chosen = "callbacks" THEN TRUE ELSE UNCHANGED callbackVars

\* The batch has returned, the pointers are published or given back, or F4SE has
\* no plugin left to load and no callback is being registered.
Quiescent ==
    \/ hooks = "detours" /\ batchPc = "returned"
    \/ hooks = "pointers" /\ patchDone # "pending"
    \/ hooks = "callbacks" /\ stage = "idle" /\ registering = [t \in CallbackThreads |-> NotRegistering]

MCNext ==
    \/ Others("files") /\ CosaveNext
    \/ Others("detours") /\ BatchNext
    \/ Others("pointers") /\ PatchNext
    \/ Others("callbacks") /\ CallbackNext
    \/ Quiescent /\ UNCHANGED allHookVars

MCSpec == MCInit /\ [][MCNext]_allHookVars

\* The other parts are as they started.
View ==
    <<hooks,
      CASE hooks = "files" -> <<installVars, os, buffered, callVars>>
        [] hooks = "detours" -> batchVars
        [] hooks = "pointers" -> patchVars
        [] hooks = "callbacks" -> callbackVars>>

Sym == Permutations(Threads) \union Permutations(Handles)
===============================================================================
