----------------------------- MODULE MCGameFixes -----------------------------
(***************************************************************************)
(* The game fixes that share no state, checked one beside the other: a     *)
(* behaviour is one of a single fix, chosen in its first state, while the  *)
(* others stay as they start.  Two threads, two owners and two shader      *)
(* effects; three archives of two bytes; three references and two handles; *)
(* two zlib streams and two states for them, with an input of four bytes   *)
(* of which the third makes all the output; two attach points with three   *)
(* recipes and three mods; four recipes of the workshop, one of them with  *)
(* its keyword twice, one with too many and one with none.                 *)
(***************************************************************************)
EXTENDS EffectLifetime, ArchiveIndex, DecalPrecision, ReferenceHandles,
        OwnedInflate, FormCaches, TLC

CONSTANTS Fixes, t1, t2, o1, o2, s1, s2, r1, r2, r3, z1, z2, i1, i2

MCThreads == {t1, t2}
MCOwners == {o1, o2}
MCShaders == {s1, s2}
MCRefs == {r1, r2, r3}
MCStreams == {z1, z2}
MCStateIds == {i1, i2}
MCOutput == [n \in 0..4 |-> IF n < 3 THEN 0 ELSE 3]

MCArchives == {"a1", "a2", "a3"}
MCDirOf == [f \in {"f"} |-> "d1"]
MCTexturePaths == {<<"textures", "x">>}

MCDecalShapes == [id : {1, 2}, desc : {"full"}] \cup [id : {3}, desc : {"plain"}]

MCSampleHalves ==
    {(e * 1024) + m : e \in {0, 1, 2, 15, 29, 30},
                      m \in {0, 1, 2, 3, 4, 7, 8, 511, 512, 513, 1021, 1022}}
    \cup {1023, 2047}

MCPointOf ==
    [f \in {"c1", "c2", "c3", "m1", "m2", "m3"} |->
        CASE f \in {"c1", "c3", "m2"} -> "grip" [] f \in {"c2", "m1"} -> "barrel"
          [] OTHER -> NoPoint]

MCMenus ==
    {[slots |-> <<"barrel", NoPoint, "grip", "barrel">>, selected |-> s] : s \in {0, 1, 3}}

MCRecipes == <<"turret", "bed", "paint", "junk">>
MCKeywordsOf ==
    [r \in ToSet(MCRecipes) |->
        CASE r = "turret" -> <<"defense", "power", "defense">> [] r = "bed" -> <<>>
          [] r = "paint" -> <<"power", NoKeyword, "defense", "misc">> [] r = "junk" -> <<"power">>]
MCCreates ==
    [r \in ToSet(MCRecipes) |->
        CASE r = "paint" -> <<"red", "blue">> [] r = "junk" -> <<>> [] OTHER -> <<r>>]
MCFormLists == [top |-> <<"defense", "inner">>, inner |-> <<"misc", "statue", "power">>]

VARIABLE fix        \* the fix this behaviour is one of

MCInit ==
    /\ fix \in Fixes
    /\ Init /\ (fix # "effects" => inlined)
    /\ ArchiveInit /\ (fix # "archives" => architecture = "old")
    /\ DecalInit /\ (fix # "decals" => isOG)
    /\ HalfStart
    /\ HandleStart
    /\ InflateStart /\ (fix # "inflate" => content = "sound")
    /\ FormInit

allVars == <<fix, vars, archiveVars, decalAllVars, halfVars, handleVars, inflateVars, formVars>>
Others(chosen) ==
    /\ fix = chosen
    /\ UNCHANGED fix
    /\ IF chosen = "effects" THEN TRUE ELSE UNCHANGED vars
    /\ IF chosen = "archives" THEN TRUE ELSE UNCHANGED archiveVars
    /\ IF chosen = "decals" THEN TRUE ELSE UNCHANGED decalAllVars
    /\ IF chosen = "halves" THEN TRUE ELSE UNCHANGED halfVars
    /\ IF chosen = "handles" THEN TRUE ELSE UNCHANGED handleVars
    /\ IF chosen = "inflate" THEN TRUE ELSE UNCHANGED inflateVars
    /\ IF chosen = "crafting" THEN TRUE ELSE UNCHANGED craftVars
    /\ IF chosen = "workshop" THEN TRUE ELSE UNCHANGED workshopVars

\* The archives are all loaded and the game has made its textures, or it has
\* given its references back: nothing more need happen.
Quiescent == archivesLoaded \/ tableState = "killed"

MCNext ==
    \/ Others("effects") /\ Next
    \/ Others("archives") /\ ArchiveNext
    \/ Others("decals") /\ DecalNext
    \/ Others("halves") /\ HalfNext
    \/ Others("handles") /\ HandleNext
    \/ Others("inflate") /\ InflateNext
    \/ Others("crafting") /\ CraftNext
    \/ Others("workshop") /\ WorkshopNext
    \/ Quiescent /\ UNCHANGED allVars

MCSpec == MCInit /\ [][MCNext]_allVars

\* What is looked up is found: every file in the archive it was registered from,
\* however many archives there are, none with two indices; and in the crafting and
\* the workshop menu, through their caches, all that is found without, the game
\* getting its arrays back.
LookupsFindAll ==
    /\ ArchiveTypeOK /\ FilesComeFromTheirArchive /\ ArchivesHaveOneIndex
    /\ FormTypeOK /\ ShownIsEnough /\ ArraysComeBack /\ WorkshopShowsAll

\* A shape's vertices are read with the descriptor they were written for, and a
\* shape gets its own back whatever happens in between; what is packed into halves
\* is the nearest half.
DecalsKeepTheirShapes ==
    /\ DecalTypeOK /\ DescriptorsMatchVertices /\ ShapesGetTheirDescriptorBack
    /\ HalvesAreNearest

\* The other fixes are as they started; tables over every file and shape are read
\* here for TLC to evaluate them.
View ==
    <<fix, archiveVars, decalAllVars,
      CASE fix = "effects" -> vars [] fix \in {"archives", "decals"} -> <<>>
        [] fix = "halves" -> halfVars
        [] fix = "handles" -> handleVars [] fix = "inflate" -> inflateVars
        [] fix = "crafting" -> craftVars [] fix = "workshop" -> workshopVars>>
=============================================================================
