----------------------------- MODULE MCTelemetry -----------------------------
(***************************************************************************)
(* What the hub and the image telemetry do beside the game: a behaviour is *)
(* one of the profiling captures, of the registry of loaded images, of the *)
(* live blocks of the images' memory, of the sampling of the game's        *)
(* threads, or of the images' counters and rows, chosen in its first       *)
(* state, while the others stay as they start.                             *)
(*                                                                         *)
(* Captures: two profile sources, two sessions.  Registry: two addresses,  *)
(* two images, a queue of two notifications.  Blocks: two addresses and    *)
(* a region on a stripe of three positions, so that probes wrap, two       *)
(* threads.  Sampling: two threads that may take each other's id.          *)
(* Counters: two kinds for each of two images, room for one row.           *)
(***************************************************************************)
EXTENDS TelemetryCapture, ImageTelemetry, TLC

CONSTANTS s1, s2, b1, b2, n1, n2

MCSources == {s1, s2}
MCBases == {b1, b2}
MCNames == {n1, n2}
MCFirstProbe == "p" :> 2 @@ "q" :> 2 @@ "R" :> 0
MCKindIsGauge == <<FALSE, TRUE>>

\* What is loaded at first: none, one, one at both addresses, or two; addresses and
\* images are treated alike.
MCUnloaded == b1 :> Nothing @@ b2 :> Nothing
MCLoaded ==
    {MCUnloaded, b1 :> n1 @@ b2 :> Nothing, b1 :> n1 @@ b2 :> n1, b1 :> n1 @@ b2 :> n2}

VARIABLE side       \* the part this behaviour is one of

MCInit ==
    /\ side \in {"captures", "registry", "blocks", "sampling", "series"}
    /\ CaptureInit
    /\ RegistryStart /\ loadedAt \in IF side = "registry" THEN MCLoaded ELSE {MCUnloaded}
    /\ MemoryStart
    /\ SamplingStart
    /\ SeriesStart /\ (side # "series" => seriesImages = 1)

telemetryVars == <<side, hubStateVars, registryVars, memoryVars, samplingVars, seriesVars>>
Others(chosen) ==
    /\ side = chosen
    /\ UNCHANGED side
    /\ IF chosen = "captures" THEN TRUE ELSE UNCHANGED hubStateVars
    /\ IF chosen = "registry" THEN TRUE ELSE UNCHANGED registryVars
    /\ IF chosen = "blocks" THEN TRUE ELSE UNCHANGED memoryVars
    /\ IF chosen = "sampling" THEN TRUE ELSE UNCHANGED samplingVars
    /\ IF chosen = "series" THEN TRUE ELSE UNCHANGED seriesVars

\* The loader, the game's calls or the sampled time have reached their bounds.
Quiescent ==
    \/ side = "registry" /\ loads = MaxLoads
    \/ side = "blocks" /\ memoryCalls = MaxMemoryCalls
    \/ side = "sampling" /\ refreshes = MaxRefreshes

MCNext ==
    \/ Others("captures") /\ CaptureNext
    \/ Others("registry") /\ RegistryNext
    \/ Others("blocks") /\ MemoryNext
    \/ Others("sampling") /\ SamplingNext
    \/ Others("series") /\ SeriesNext
    \/ Quiescent /\ UNCHANGED telemetryVars

MCSpec == MCInit /\ [][MCNext]_telemetryVars

\* The other sides are as they started.
View ==
    <<side,
      CASE side = "captures" -> hubStateVars [] side = "registry" -> registryVars
        [] side = "blocks" -> memoryVars [] side = "sampling" -> samplingVars
        [] side = "series" -> seriesVars>>

\* The sources are treated alike, and no property names one.
Symmetry == Permutations(MCSources)

\* What is said of the loaded images is so: the registry has one image for an
\* address and tells it to everybody, the blocks counted for an image are those it
\* has, the cycles charged to a thread are those it ran, and its counters reach the
\* report or are counted as missed.
ImagesAreAccounted ==
    /\ RegistryTypeOK /\ OneImagePerBase /\ RegistrySettles /\ ConsumersAreTold
    /\ BlockTypeOK /\ ChainsAreUnbroken /\ GaugesAddUp /\ LiveBlocksAreKnown
    /\ TakenWereRun /\ ChargedOnce /\ SuspensionsAreBalanced
    /\ CountsAreConserved /\ NoGaugeStarves
==============================================================================
