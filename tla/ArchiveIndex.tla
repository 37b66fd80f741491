----------------------------- MODULE ArchiveIndex -----------------------------
(***************************************************************************)
(* The archive limit patches (AdModuleArchiveLimits.cpp).  The game keeps  *)
(* an archive's index in one byte of every file header; the patches keep   *)
(* the whole index in a 16-bit table beside the game's, and every place    *)
(* that reads the header asks the table first.  A byte holds Byte values   *)
(* here, so that three archives already overflow it.                       *)
(***************************************************************************)
EXTENDS Integers, Sequences, SequencesExt, FiniteSets

CONSTANTS
    Byte,           \* values of one byte
    Archives,       \* names of archives; at most Word - 1 of them
    Files, Dirs,    \* a general resource is a file in a directory
    DirOf,          \* the directory an archive has a file in
    TexturePaths,   \* normalised paths of textures, as sequences of names
    DataNames       \* path names that end in "data"

Word == Byte * Byte
NotFound == Word - 1        \* static_cast<uint16_t>(-1)
NoHeader == -1              \* the game knows no such file
Unset == -2                 \* an index byte nobody has written

ASSUME ArchiveAssumption ==
    /\ Byte \in Nat \ {0, 1}
    /\ IsFiniteSet(Archives) /\ Cardinality(Archives) < Word
    /\ DirOf \in [Files -> Dirs]
    /\ \A p \in TexturePaths : Head(p) = "textures" /\ Len(p) > 1
                               /\ ~\E i \in DOMAIN p : p[i] \in DataNames

Generals == [file : Files, dir : Dirs]
Index == 0 .. Cardinality(Archives) - 1

VARIABLES
    architecture,       \* s_ArchiveArchitecture
    archivesLoaded,     \* the game has registered its archives
    dataFileCount,      \* Index::dataFileCount
    nameTable,          \* Index::nameTable: its size and the indices in it
    dataFiles,          \* Index::dataFiles, asyncDataFiles: whose stream
    dataFileNameIDs,    \* Index::dataFileNameIDs
    textureNameIDs,     \* BSTextureIndex::dataFileNameIDs
    header,             \* the index in the game's own header of each file
    storage,            \* Storages[kGeneral] and Storages[kTextures]
    rendererTexture,    \* low and high index byte in a created texture
    home                \* history: the archive a header came from

archiveRegistryVars == <<dataFileCount, nameTable, dataFiles, dataFileNameIDs>>
archiveVars == <<architecture, archivesLoaded, archiveRegistryVars, textureNameIDs,
                 header, storage, rendererTexture, home>>

NoArchive == "none"
Textures == [path : TexturePaths]
AllFiles == Generals \cup Textures

ArchiveTypeOK ==
    /\ architecture \in {"old", "1k"}
    /\ archivesLoaded \in BOOLEAN
    /\ dataFileCount \in 0 .. Cardinality(Archives)
    /\ nameTable \in [size : Nat, entries : SUBSET Index]
    /\ dataFiles \in [Index -> Archives \cup {NoArchive}]
    /\ dataFileNameIDs \in [Index -> Archives \cup {NoArchive}]
    /\ textureNameIDs \in [Index -> Archives \cup {NoArchive}]
    /\ header \in [AllFiles -> {NoHeader} \cup 0 .. Word - 1]
    /\ storage \in [AllFiles -> 0 .. Word - 1]
    /\ rendererTexture \in
          [Textures -> [low : {Unset} \cup 0 .. Word - 1, high : 0 .. Byte - 1]]
    /\ home \in [AllFiles -> Archives \cup {NoArchive}]

ArchiveInit ==
    /\ architecture \in {"old", "1k"}
    /\ archivesLoaded = FALSE
    /\ dataFileCount = 0
    /\ nameTable = [size |-> 0, entries |-> {}]     \* the shared EndTable
    /\ dataFiles = [i \in Index |-> NoArchive]
    /\ dataFileNameIDs = [i \in Index |-> NoArchive]
    /\ textureNameIDs = [i \in Index |-> NoArchive]
    /\ header = [f \in AllFiles |-> NoHeader]
    /\ storage = [f \in AllFiles |-> NotFound]
    /\ rendererTexture = [t \in Textures |-> [low |-> Unset, high |-> 0]]
    /\ home = [f \in AllFiles |-> NoArchive]

-----------------------------------------------------------------------------
(* Registration: the game's calls, with the patches in them. *)

\* The game's table: an insertion fails when the table is full, and a resize
\* doubles the table and keeps what was in it.
Full(t) == Cardinality(t.entries) >= t.size
Inserted(t, i) == IF Full(t) THEN t ELSE [t EXCEPT !.entries = @ \cup {i}]
Resized(t) == [t EXCEPT !.size = 2 * @]

WithNameOnce(t, i) ==       \* the insertion is not tried again
    IF t.size = 0 THEN [t EXCEPT !.size = 2]
    ELSE IF Full(t) THEN Resized(t) ELSE Inserted(t, i)
WithName(t, i) ==
    CASE t.size = 0 -> Inserted([t EXCEPT !.size = 2], i)
      [] t.size > 0 /\ Full(t) -> Inserted(Resized(t), i)
      [] OTHER -> Inserted(t, i)

\* The game looks an archive up by name and adds it at the end when new.
NamedIndex(a) ==
    LET known == {i \in nameTable.entries : dataFileNameIDs[i] = a}
    IN  IF known = {} THEN dataFileCount ELSE CHOOSE i \in known : TRUE

AddDataFile(a) ==
    LET i == NamedIndex(a) IN
    /\ ~archivesLoaded /\ i \in Index
    /\ dataFiles' = [dataFiles EXCEPT ![i] = a]
    /\ IF i = dataFileCount
       THEN /\ dataFileNameIDs' = [dataFileNameIDs EXCEPT ![i] = a]
            /\ nameTable' = WithName(nameTable, i)
            /\ dataFileCount' = dataFileCount + 1
       ELSE UNCHANGED <<dataFileNameIDs, nameTable, dataFileCount>>
    /\ UNCHANGED <<architecture, archivesLoaded, textureNameIDs, header, storage,
                   rendererTexture, home>>

\* What the game's own header keeps of an index.
HeaderIndex(i) == IF architecture = "old" THEN i % Byte ELSE i % Word

\* PushArchiveIndex after the game's header is written, with the register
\* the patched place has the index in.
EnterHeader(f, i) ==        \* the byte the header already holds is stored
    /\ header' = [header EXCEPT ![f] = HeaderIndex(i)]
    /\ storage' = [storage EXCEPT ![f] = HeaderIndex(i)]
    /\ home' = [home EXCEPT ![f] = dataFiles[i]]
Enter(f, i) ==
    /\ header' = [header EXCEPT ![f] = HeaderIndex(i)]
    /\ storage' = [storage EXCEPT ![f] = i % Word]
    /\ home' = [home EXCEPT ![f] = dataFiles[i]]

AddDataFromReader(f, i) ==
    /\ ~archivesLoaded /\ i < dataFileCount
    /\ Enter([file |-> f, dir |-> DirOf[f]], i)
    /\ UNCHANGED <<architecture, archivesLoaded, archiveRegistryVars, textureNameIDs,
                   rendererTexture>>

\* The game copies a header to another directory; the index goes with it.
InsertReplicatedGeneralID(from, to) ==
    IF storage[from] = NotFound THEN storage
    ELSE [storage EXCEPT ![to] = storage[from] % Word]

ReplicateDirTo(f, dir) ==
    LET from == [file |-> f, dir |-> DirOf[f]]
        to == [file |-> f, dir |-> dir]
    IN  /\ header[from] # NoHeader /\ dir # DirOf[f]
        /\ header' = [header EXCEPT ![to] = header[from]]
        /\ home' = [home EXCEPT ![to] = home[from]]
        /\ storage' = InsertReplicatedGeneralID(from, to)
        /\ UNCHANGED <<architecture, archivesLoaded, archiveRegistryVars, textureNameIDs,
                       rendererTexture>>

\* BSTextureIndex names the archive, then processes its textures.
AddTextureFile(i) ==
    /\ ~archivesLoaded /\ i < dataFileCount
    /\ textureNameIDs' = [textureNameIDs EXCEPT ![i] = dataFileNameIDs[i]]
    /\ UNCHANGED <<architecture, archivesLoaded, archiveRegistryVars, header, storage,
                   rendererTexture, home>>
ProcessEvent(t, i) ==
    /\ ~archivesLoaded /\ textureNameIDs[i] # NoArchive
    /\ Enter(t, i)
    /\ UNCHANGED <<architecture, archivesLoaded, archiveRegistryVars, textureNameIDs,
                   rendererTexture>>

\* The game streams only after it has registered its archives.
FinishLoading ==
    /\ ~archivesLoaded /\ dataFileCount > 0
    /\ archivesLoaded' = TRUE
    /\ UNCHANGED <<architecture, archiveRegistryVars, textureNameIDs, header, storage,
                   rendererTexture, home>>
-----------------------------------------------------------------------------
(* Reading: what every patched place takes the archive's index to be. *)

FindArchiveIndex(f) == storage[f]

\* cmp eax, 0xFFFF; jne RET; movzx eax, byte of the header
OrHeader(index, f) == IF index = NotFound THEN header[f] % Byte ELSE index

RetrieveStream(g) == OrHeader(FindArchiveIndex(g), g)
RetrieveAsyncStream(g) == OrHeader(FindArchiveIndex(g), g)

\* Lower case, backslashes, nothing up to "data\", "textures\" in front.
ProcessPath(path) ==
    LET ends == {i \in DOMAIN path : i < Len(path) /\ path[i] \in DataNames}
        rest == IF ends = {} THEN path
                ELSE SubSeq(path, 1 + CHOOSE i \in ends : \A j \in ends : i <= j,
                            Len(path))
    IN  IF Len(rest) > 1 /\ Head(rest) = "textures" THEN rest
        ELSE <<"textures">> \o rest
\* BSGraphics::Renderer::CreateStreamingTexture
CreateStreamingTexture(t) ==
    LET index == FindArchiveIndex(t) IN
    /\ archivesLoaded /\ header[t] # NoHeader
    /\ rendererTexture' =
         [rendererTexture EXCEPT ![t] =
            CASE index = NotFound -> @
              [] index # NotFound /\ architecture = "old" ->
                    [low |-> index % Byte, high |-> index \div Byte]
              [] OTHER -> [low |-> index, high |-> 0]]
    /\ UNCHANGED <<architecture, archivesLoaded, archiveRegistryVars, textureNameIDs, header,
                   storage, home>>

\* A request names the texture by path, by texture or by header.
NoPath == <<>>
FindArchiveIndexByTextureRequest(t, path) ==
    CASE path # NoPath -> IF ProcessPath(path) \in TexturePaths
                          THEN FindArchiveIndex([path |-> ProcessPath(path)])
                          ELSE NotFound
      [] path = NoPath /\ rendererTexture[t].low # Unset ->
            IF architecture = "old"
            THEN rendererTexture[t].high * Byte + rendererTexture[t].low
            ELSE rendererTexture[t].low
      [] OTHER -> FindArchiveIndex(t)

StartStreamingChunks(t, path) == OrHeader(FindArchiveIndexByTextureRequest(t, path), t)
DecompressStreamedLoad(t, path) == OrHeader(FindArchiveIndexByTextureRequest(t, path), t)
LoadChunks(t, path) == OrHeader(FindArchiveIndexByTextureRequest(t, path), t)
CreateStreamingDDSTexture(t) == OrHeader(FindArchiveIndex(t), t)
ThreadProc(t) == OrHeader(FindArchiveIndex(t), t)
-----------------------------------------------------------------------------
ArchiveNext ==
    \/ \E a \in Archives : AddDataFile(a)
    \/ \E f \in Files, i \in Index : AddDataFromReader(f, i)
    \/ \E f \in Files, d \in Dirs : ReplicateDirTo(f, d)
    \/ \E i \in Index : AddTextureFile(i)
    \/ \E t \in Textures, i \in Index : ProcessEvent(t, i)
    \/ FinishLoading
    \/ \E t \in Textures : CreateStreamingTexture(t)

ArchiveSpec == ArchiveInit /\ [][ArchiveNext]_archiveVars
-----------------------------------------------------------------------------
\* The spellings of a texture's path that requests carry.
Spellings(p) == {p, Tail(p), <<"data">> \o p, <<"c:", "data">> \o p, <<"data">> \o Tail(p)}

\* Whatever place reads a file of an archive, by header or by any spelling of
\* its path, reads it from the archive the game's header came from, however
\* many archives there are: no one-byte index is ever taken for the whole one.
FilesComeFromTheirArchive ==
    /\ \A g \in Generals : header[g] # NoHeader =>
          \A i \in {RetrieveStream(g), RetrieveAsyncStream(g)} : dataFiles[i] = home[g]
    /\ \A t \in Textures : header[t] # NoHeader =>
          \A i \in {CreateStreamingDDSTexture(t), ThreadProc(t)}
                   \cup UNION {{StartStreamingChunks(t, s), DecompressStreamedLoad(t, s),
                                LoadChunks(t, s)} : s \in Spellings(t.path) \cup {NoPath}} :
             textureNameIDs[i] = home[t]

\* An archive has one index: registering it again finds it, across the growth
\* of the name table, and its name, its stream and its texture name agree.
ArchivesHaveOneIndex ==
    \A i, j \in 0 .. dataFileCount - 1 :
        /\ dataFiles[i] = dataFileNameIDs[i]
        /\ textureNameIDs[i] \in {NoArchive, dataFiles[i]}
        /\ dataFiles[i] = dataFiles[j] => i = j
=============================================================================
