---------------------------- MODULE DecalPrecision ----------------------------
(***************************************************************************)
(* Full precision decals (AdModuleFullPrecisionDecals.cpp).  The game's    *)
(* decal and effect shader code expects compact vertices.  Hooks on its    *)
(* calls repack full precision ones and pass the compact descriptor along, *)
(* from call to call through thread local state; effect shaders also see   *)
(* it in the shape itself until their position data is made.  One thread:  *)
(* the state of every other is its own.                                    *)
(***************************************************************************)
EXTENDS Integers, FiniteSets

CONSTANTS
    Buffers, TriShapes,     \* addresses the renderer returns, used again
    DecalShapes             \* effect shader shapes: an id and a descriptor

Null == "null"
NoShape == [id |-> 0, desc |-> "plain"]
\* Layouts of vertices, and descriptors of them: full precision ones shorter
\* than 24 bytes are left alone.
Layouts == {"full", "short", "plain", "compact"}
HasFullPrecisionFlag(desc) == desc \in {"full", "short"}
MakeCompactDesc(desc) == IF HasFullPrecisionFlag(desc) THEN "compact" ELSE desc

DecalSites == {"applySkinning", "createVertexBuffer", "createTriShape", "subIndexTriShapeCtor"}
EffectSites == {"effectGetTriShapeDataAccess", "effectCompletion"}

NoDecal == [active |-> FALSE, compactDesc |-> "plain", vertexBuffer |-> Null, triShape |-> Null]
NoEffect == [active |-> FALSE, shape |-> NoShape, originalDesc |-> "plain"]

VARIABLES
    isOG,               \* the runtime is the original one
    patchedSites,       \* call sites that lead to the hooks; {} before DoInstall
    decalPc,            \* where DecalProjection is on this thread
    decal,              \* its locals: descriptor, buffer, triangle shape
    decalPatchState,
    bufferLayout,       \* what the vertices in a buffer really are
    triShapes,          \* buffer and descriptor a TriShape was made with
    effectPc, effectShape,  \* where the effect shader code is, and with what
    effectShaderPatchState,
    vertexDesc,         \* BSTriShape::vertexDesc
    accessLayout        \* what GetTriShapeDataAccess lets the game read

decalVars == <<isOG, patchedSites>>
projectionVars == <<decalPc, decal, decalPatchState, bufferLayout, triShapes>>
effectVars == <<effectPc, effectShape, effectShaderPatchState, vertexDesc, accessLayout>>
decalAllVars == <<decalVars, projectionVars, effectVars>>

\* The descriptor a shape is loaded with.
LoadedDesc(s) == s.desc

DecalTypeOK ==
    /\ isOG \in BOOLEAN
    /\ patchedSites \subseteq DecalSites \cup EffectSites
    /\ decalPc \in {"uninstalled", "idle", "createTriShape", "constructor"}
    /\ decal \in [desc : Layouts, buffer : Buffers \cup {Null}, triShape : TriShapes \cup {Null}]
    /\ decalPatchState \in [active : BOOLEAN, compactDesc : Layouts,
                            vertexBuffer : Buffers \cup {Null},
                            triShape : TriShapes \cup {Null}]
    /\ bufferLayout \in [Buffers -> Layouts]
    /\ triShapes \in [TriShapes -> [vertexBuffer : Buffers \cup {Null}, desc : Layouts]]
    /\ effectPc \in {"idle", "create", "decode"}
    /\ effectShape \in DecalShapes
    /\ effectShaderPatchState \in [active : BOOLEAN, shape : DecalShapes \cup {NoShape},
                                   originalDesc : Layouts]
    /\ vertexDesc \in [DecalShapes -> Layouts]
    /\ accessLayout \in Layouts

DecalInit ==
    /\ isOG \in BOOLEAN
    /\ patchedSites = {}
    /\ decalPc = "uninstalled"
    /\ decal = [desc |-> "plain", buffer |-> Null, triShape |-> Null]
    /\ decalPatchState = NoDecal
    /\ bufferLayout = [b \in Buffers |-> "plain"]
    /\ triShapes = [t \in TriShapes |-> [vertexBuffer |-> Null, desc |-> "plain"]]
    /\ effectPc = "idle" /\ effectShape = CHOOSE s \in DecalShapes : TRUE
    /\ effectShaderPatchState = NoEffect
    /\ vertexDesc = [s \in DecalShapes |-> LoadedDesc(s)]
    /\ accessLayout = "plain"

-----------------------------------------------------------------------------
\* Every call site is checked before the first is written.
Preflight(sites, mismatched, roomInTrampoline) ==
    sites \cap mismatched = {} /\ Cardinality(sites) <= roomInTrampoline

DecalInstall(effects, mismatched, roomInTrampoline) ==
    LET sites == DecalSites \cup (IF effects THEN EffectSites ELSE {}) IN
    /\ decalPc = "uninstalled"
    /\ decalPc' = "idle"
    /\ patchedSites' = IF Preflight(sites, mismatched, roomInTrampoline) THEN sites ELSE {}
    /\ UNCHANGED <<isOG, decal, decalPatchState, bufferLayout, triShapes, effectVars>>
-----------------------------------------------------------------------------
(* BSTempEffectGeometryDecal::DecalProjection, with the hooks in its calls. *)

Hooked(site) == site \in patchedSites

Compacts(desc) == Hooked("createVertexBuffer") /\ desc = "full"
Uploaded(desc) == IF Compacts(desc) THEN MakeCompactDesc(desc) ELSE desc

StateForBufferKept(desc, buffer) ==     \* as if the hook did not reset it
    IF Compacts(desc)
    THEN [active |-> TRUE, compactDesc |-> MakeCompactDesc(desc),
          vertexBuffer |-> buffer, triShape |-> Null]
    ELSE decalPatchState
\* decalPatchState after the hook: reset first, whatever the last decal left.
StateForBuffer(desc, buffer) ==
    IF Compacts(desc)
    THEN [active |-> TRUE, compactDesc |-> MakeCompactDesc(desc),
          vertexBuffer |-> buffer, triShape |-> Null]
    ELSE IF Hooked("createVertexBuffer") THEN NoDecal ELSE decalPatchState

CreateVertexBuffer(desc, buffer) ==
    /\ decalPc = "idle"
    /\ decalPc' = "createTriShape"
    /\ decal' = [desc |-> desc, buffer |-> buffer, triShape |-> Null]
    /\ decalPatchState' = StateForBuffer(desc, buffer)
    /\ bufferLayout' = [b \in Buffers |-> IF b = buffer THEN Uploaded(desc)
                                          ELSE bufferLayout[b]]
    /\ UNCHANGED <<decalVars, triShapes, effectVars>>

TracksPatch == decalPatchState.active /\ decalPatchState.vertexBuffer = decal.buffer

CreateTriShape(triShape) ==
    /\ decalPc = "createTriShape"
    /\ decalPc' = "constructor"
    /\ decal' = [decal EXCEPT !.triShape = triShape]
    /\ triShapes' =
         [t \in TriShapes |->
            IF t # triShape THEN triShapes[t]
            ELSE [vertexBuffer |-> decal.buffer,
                  desc |-> IF TracksPatch THEN decalPatchState.compactDesc ELSE decal.desc]]
    /\ decalPatchState' = IF TracksPatch
                          THEN [decalPatchState EXCEPT !.triShape = triShape]
                          ELSE decalPatchState
    /\ UNCHANGED <<decalVars, bufferLayout, effectVars>>

CompletesPatch == decalPatchState.active /\ decalPatchState.triShape = decal.triShape

\* The descriptor the BSSubIndexTriShape is constructed with.
CtorDesc == IF CompletesPatch THEN decalPatchState.compactDesc ELSE decal.desc

BSSubIndexTriShapeCtor ==
    /\ decalPc = "constructor"
    /\ decalPc' = "idle"
    /\ decalPatchState' = IF CompletesPatch THEN NoDecal ELSE decalPatchState
    /\ UNCHANGED <<decalVars, decal, bufferLayout, triShapes, effectVars>>

\* CreateTriShape throws through its hook: ScopeExit clears what it tracks.
CreateTriShapeThrows ==
    /\ decalPc = "createTriShape"
    /\ decalPc' = "idle"
    /\ decalPatchState' = IF TracksPatch THEN NoDecal ELSE decalPatchState
    /\ UNCHANGED <<decalVars, decal, bufferLayout, triShapes, effectVars>>

\* DecalProjection returns between two calls; nobody tells the hooks.
DecalGivenUp ==
    /\ decalPc \in {"createTriShape", "constructor"}
    /\ decalPc' = "idle"
    /\ UNCHANGED <<decalVars, decal, decalPatchState, bufferLayout, triShapes, effectVars>>

Projection ==
    \/ \E desc \in {"full", "short", "plain"}, b \in Buffers \cup {Null} :
          CreateVertexBuffer(desc, b)
    \/ \E t \in TriShapes \cup {Null} : CreateTriShape(t)
    \/ BSSubIndexTriShapeCtor
    \/ CreateTriShapeThrows
    \/ DecalGivenUp
-----------------------------------------------------------------------------
(* Effect shaders.  The original runtime hooks the whole of                *)
(* CreatePositionData and the data access inside it; the later ones hook   *)
(* the access and the completion after it.                                 *)

Begun(shape) == [active |-> TRUE, shape |-> shape, originalDesc |-> vertexDesc[shape]]

CreatePositionData(shape) ==
    /\ effectPc = "idle" /\ decalPc = "idle"
    /\ effectPc' = "create" /\ effectShape' = shape
    /\ IF isOG /\ Hooked("effectCompletion") /\ HasFullPrecisionFlag(vertexDesc[shape])
       THEN /\ effectShaderPatchState' = Begun(shape)
            /\ vertexDesc' = [vertexDesc EXCEPT ![shape] = MakeCompactDesc(@)]
       ELSE UNCHANGED <<effectShaderPatchState, vertexDesc>>
    /\ UNCHANGED <<decalVars, projectionVars, accessLayout>>

\* What the access hook works on: the state of the call around it, or its own.
Patching ==
    IF ~effectShaderPatchState.active /\ HasFullPrecisionFlag(vertexDesc[effectShape])
    THEN Begun(effectShape) ELSE effectShaderPatchState

\* usable: the access has vertices the hook can repack.
GetTriShapeDataAccess(usable) ==
    LET patching == Patching
        patches == /\ Hooked("effectGetTriShapeDataAccess")
                   /\ patching.active /\ patching.shape = effectShape
    IN  /\ effectPc = "create"
        /\ effectPc' = "decode"
        /\ IF ~patches
           THEN /\ accessLayout' = LoadedDesc(effectShape)
                /\ UNCHANGED <<effectShaderPatchState, vertexDesc>>
           ELSE IF usable
           THEN /\ accessLayout' = MakeCompactDesc(LoadedDesc(effectShape))
                /\ effectShaderPatchState' = patching
                /\ vertexDesc' = [vertexDesc EXCEPT ![effectShape] =
                                    MakeCompactDesc(patching.originalDesc)]
           ELSE /\ accessLayout' = LoadedDesc(effectShape)
                /\ effectShaderPatchState' = NoEffect
                /\ vertexDesc' = [vertexDesc EXCEPT ![effectShape] = patching.originalDesc]
        /\ UNCHANGED <<decalVars, projectionVars, effectShape>>

AccessThrowsPlainly ==      \* as if nothing caught it
    /\ effectPc = "create"
    /\ effectPc' = "idle"
    /\ UNCHANGED <<decalVars, projectionVars, effectShape, effectShaderPatchState,
                   vertexDesc, accessLayout>>
\* The access throws: the compact descriptor is put back, then the original.
AccessThrows ==
    /\ effectPc = "create"
    /\ effectPc' = "idle"
    /\ IF Hooked("effectGetTriShapeDataAccess") /\ Patching.active
       THEN /\ effectShaderPatchState' = NoEffect
            /\ vertexDesc' = [vertexDesc EXCEPT ![effectShape] = Patching.originalDesc]
       ELSE UNCHANGED <<effectShaderPatchState, vertexDesc>>
    /\ UNCHANGED <<decalVars, projectionVars, effectShape, accessLayout>>

\* The position data is made, or making it throws: either way the scope's
\* exit gives the shape its descriptor back.
FinishPositionData ==
    /\ effectPc = "decode"
    /\ effectPc' = "idle"
    /\ IF Hooked("effectCompletion") /\ effectShaderPatchState.active
       THEN /\ vertexDesc' = [vertexDesc EXCEPT ![effectShaderPatchState.shape] =
                                effectShaderPatchState.originalDesc]
            /\ effectShaderPatchState' = NoEffect
       ELSE UNCHANGED <<effectShaderPatchState, vertexDesc>>
    /\ UNCHANGED <<decalVars, projectionVars, effectShape, accessLayout>>

EffectShaders ==
    \/ \E s \in DecalShapes : CreatePositionData(s)
    \/ \E usable \in BOOLEAN : GetTriShapeDataAccess(usable)
    \/ AccessThrows
    \/ FinishPositionData

DecalNext ==
    \/ \E effects \in BOOLEAN, bad \in {{}, {"createTriShape"}, {"effectCompletion"}},
          room \in {4, 6} : DecalInstall(effects, bad, room)
    \/ Projection
    \/ EffectShaders

DecalSpec == DecalInit /\ [][DecalNext]_decalAllVars
-----------------------------------------------------------------------------
\* Wherever the renderer or the game reads vertices through a descriptor, the
\* descriptor is the one the vertices were packed with: in a decal's TriShape
\* and sub-index shape, whichever call failed or was left out before and
\* whatever address is used again, and in an effect shader's position data.
DescriptorsMatchVertices ==
    /\ decalPc = "constructor" =>
          \A t \in {decal.triShape} \ {Null} :
             triShapes[t].vertexBuffer # Null =>
                /\ triShapes[t].desc = bufferLayout[triShapes[t].vertexBuffer]
                /\ CtorDesc = bufferLayout[triShapes[t].vertexBuffer]
    /\ effectPc = "decode" => vertexDesc[effectShape] = accessLayout

\* No call leaves a shape with the compact descriptor: the game's own vertices
\* stay full precision, so the next reader would take them apart wrongly.
ShapesGetTheirDescriptorBack ==
    effectPc = "idle" =>
        /\ ~effectShaderPatchState.active
        /\ \A s \in DecalShapes : vertexDesc[s] = LoadedDesc(s)

----------------------------------------------------------------------------
(***************************************************************************)
(* The vertex positions of full precision decals: a float is packed into a *)
(* half (AdModuleFullPrecisionDecals.cpp, FloatToHalf) and read back       *)
(* (HalfToFloat), on the bits of positive numbers at their true widths.    *)
(***************************************************************************)

CONSTANT SampleHalves       \* halves around which floats are taken

ASSUME HalfAssumption == SampleHalves \subseteq 0 .. 31742

VARIABLES
    sourceBits,     \* a coordinate of the source vertex, as a float's bits
    halfPosition    \* the coordinate in the compact vertex

halfVars == <<sourceBits, halfPosition>>

FloatToHalfCut(bits) ==     \* the dropped bits never round
    LET exponent == (bits \div 2^23) - 112
        mantissa == bits % 2^23
    IN  CASE exponent >= 31 -> 31744
          [] exponent < -10 -> 0
          [] exponent \in -10 .. 0 -> (mantissa + 2^23) \div 2^(14 - exponent)
          [] OTHER -> (exponent * 1024) + (mantissa \div 2^13)
\* Rounded at the first bit that is dropped; the carry runs into the exponent.
FloatToHalf(bits) ==
    LET exponent == (bits \div 2^23) - 112
        mantissa == bits % 2^23
        shift == 14 - exponent
        full == mantissa + 2^23
    IN  CASE bits \div 2^23 = 255 -> IF mantissa # 0 THEN 32256 ELSE 31744
          [] bits \div 2^23 < 255 /\ exponent >= 31 -> 31744
          [] exponent < -10 -> 0
          [] exponent \in -10 .. 0 ->
                (full \div 2^shift) + ((full \div 2^(shift - 1)) % 2)
          [] OTHER -> (exponent * 1024) + (mantissa \div 2^13) + ((mantissa \div 2^12) % 2)

\* A subnormal half is shifted up until its leading bit is the implicit one.
HalfToFloat(half) ==
    LET exponent == half \div 1024
        mantissa == half % 1024
        shift == CHOOSE k \in 0 .. 10 : mantissa * 2^k \in 1024 .. 2047
    IN  CASE half = 0 -> 0
          [] half > 0 /\ exponent = 0 ->
                ((113 - shift) * 2^23) + ((mantissa * 2^shift) % 1024) * 2^13
          [] exponent = 31 -> (255 * 2^23) + (mantissa * 2^13)
          [] OTHER -> ((exponent + 112) * 2^23) + (mantissa * 2^13)

HalfStart == sourceBits = 0 /\ halfPosition = 0

\* RepackFullPrecisionVertices stores one coordinate.
RepackCoordinate(bits) ==
    /\ sourceBits' = bits
    /\ halfPosition' = FloatToHalf(bits)

\* A float is equal to a half, below, on or above the middle to the next.
\* Two halves in a row share a float's exponent, but zero and the smallest.
Middle(h) ==
    IF h = 0 THEN 102 * 2^23
    ELSE HalfToFloat(h) + ((HalfToFloat(h + 1) - HalfToFloat(h)) \div 2)
Floats == [h \in SampleHalves \cup {h + 1 : h \in SampleHalves} |-> HalfToFloat(h)]
Middles == [h \in SampleHalves |-> Middle(h)]
Around(h) == {HalfToFloat(h), Middle(h) - 1, Middle(h), Middle(h) + 1}

HalfNext == \E h \in SampleHalves : \E bits \in Around(h) : RepackCoordinate(bits)

HalfSpec == HalfStart /\ [][HalfNext]_halfVars
-----------------------------------------------------------------------------
\* A half survives its way through float, and any other float becomes the half
\* next to it, the upper one from the middle on: at every change of exponent,
\* among the subnormals and up to the largest half too.
HalvesAreNearest ==
    \A h \in SampleHalves :
        /\ sourceBits = Floats[h] => halfPosition = h
        /\ sourceBits \in (Floats[h] + 1) .. (Middles[h] - 1) => halfPosition = h
        /\ sourceBits \in Middles[h] .. (Floats[h + 1] - 1) => halfPosition = h + 1
=============================================================================
