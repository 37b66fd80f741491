------------------------------ MODULE MCPatches ------------------------------
(***************************************************************************)
(* More of the game's patches, one beside the other: a behaviour is one of *)
(* a single patch, chosen in its first state, while the others stay as     *)
(* they start.  Two graphs and two devices of the audio; the Pipboy with   *)
(* two messages under way; three objects for the ids of two plugins and    *)
(* the base game; two loads timed by two threads; four keys of which two   *)
(* have one hash, in a table that grows twice.                             *)
(***************************************************************************)
EXTENDS AudioSwitch, InputSwitch, CullingMap, LoadTiming, FlatTable, TLC

CONSTANTS Patches, g1, g2, d1, d2

MCGraphs == {g1, g2}
MCDevices == {d1, d2}

MCHashOf == "a" :> 14 @@ "b" :> 14 @@ "c" :> 13 @@ "d" :> 2
MCContainers ==
    LET of(k, v) == [key |-> k, value |-> v]
    IN {<<of("a", 1), of("b", 1), of("a", 2), of("c", 2)>>,
        <<of("d", 1), of("d", 2), of("d", 1)>>}

VARIABLE patch      \* the patch this behaviour is one of

MCInit ==
    /\ patch \in Patches
    /\ AudioStart /\ defaultDevice = d1 /\ (patch # "audio" => following)
    /\ InputStart /\ (patch # "input" => ignored)
    /\ CullStart
    /\ TimingStart
    /\ TableStart

patchVars == <<patch, audioVars, inputVars, cullVars, timingVars, tableVars>>
Others(chosen) ==
    /\ patch = chosen
    /\ UNCHANGED patch
    /\ IF chosen = "audio" THEN TRUE ELSE UNCHANGED audioVars
    /\ IF chosen = "input" THEN TRUE ELSE UNCHANGED inputVars
    /\ IF chosen = "culling" THEN TRUE ELSE UNCHANGED cullVars
    /\ IF chosen = "timing" THEN TRUE ELSE UNCHANGED timingVars
    /\ IF chosen = "table" THEN TRUE ELSE UNCHANGED tableVars

\* The game's audio is shut down, or the clock and the loads have run out.
Quiescent ==
    \/ audioStep = "over"
    \/ patch = "timing" /\ clock = MaxTime

MCNext ==
    \/ Others("audio") /\ AudioNext
    \/ Others("input") /\ InputNext
    \/ Others("culling") /\ CullNext
    \/ Others("timing") /\ TimingNext
    \/ Others("table") /\ TableNext
    \/ Quiescent /\ UNCHANGED patchVars

MCSpec == MCInit /\ [][MCNext]_patchVars

\* The hash table is the map its calls describe, and its walks end.
TableIsAMap == TableTypeOK /\ FindsWhatItHolds /\ BucketsAreTrue

\* The other patches are as they started.
View ==
    <<patch,
      CASE patch = "audio" -> audioVars [] patch = "input" -> inputVars
        [] patch = "culling" -> cullVars [] patch = "timing" -> timingVars
        [] patch = "table" -> tableVars>>
=============================================================================
