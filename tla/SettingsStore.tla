---------------------------- MODULE SettingsStore ----------------------------
(***************************************************************************)
(* The plugin's settings: the documents on disk, the settings in memory,   *)
(* the repository of committed values and the menu page's draft            *)
(* (AdSettingPersistence.cpp, AdSettingsModel.cpp, AdMenuSettings.cpp).    *)
(*                                                                         *)
(* The file is replaced through a temporary one, every step of which can   *)
(* fail, and the game can end between any two.  The user may edit the file *)
(* whenever the plugin is not between reading and replacing it.            *)
(***************************************************************************)
EXTENDS Naturals, FiniteSets

CONSTANTS
    Settings,       \* the registered settings
    Immediate,      \* those that apply at once; the others at the next launch
    MaxValue,       \* the upper end of a setting's numeric range
    Default,        \* the factory default of each
    CustomFiles,    \* what AddictolCustom.toml may be
    MaxEdits,       \* bound on the user's edits of Addictol.toml
    NoFile,         \* there is no such file
    Unusable,       \* not TOML, or a section of ours is not a table
    Torn,           \* a partly written file
    None            \* no value, no snapshot

Values == 0 .. MaxValue

\* The value it gives each setting, whether it has entries that are not ours,
\* and whether it is laid out with our descriptions.
Document == [set : [Settings -> Values \cup {None}],
             foreign : BOOLEAN, documented : BOOLEAN]

ASSUME SettingsAssumption ==
    /\ Immediate \subseteq Settings
    /\ MaxValue \in Nat /\ MaxEdits \in Nat
    /\ Default \in [Settings -> Values]
    /\ CustomFiles \subseteq Document \cup {NoFile}
    /\ NoFile \notin Document /\ Unusable \notin Document /\ Torn \notin Document
    /\ NoFile # Unusable /\ NoFile # Torn /\ Unusable # Torn
    /\ None \notin Values /\ None \notin [Settings -> Values]

VARIABLES
    base,           \* Addictol.toml
    custom,         \* AddictolCustom.toml
    temp,           \* the temporary file of the write in progress, or of one cut off
    pc,             \* what the plugin is doing; "off": the game is not running
    io,             \* how far the file operation in progress is
    output,         \* the document it is to write
    value,          \* the settings themselves, which the modules read
    committed,      \* SettingsRepository::m_committed; None until it is constructed
    shown, draft,   \* the draft's committed and edited values; None when inactive
    edits,          \* the user's edits so far
    (* history *)
    loaded,         \* the values the launch loaded
    kept,           \* what the user last left in the file besides settings
    saved,          \* the values of the last save that completed, or of the user's edit
    attempt,        \* the values of the save in progress; as saved if there is none
    byMenu          \* saved is the menu's

vars == <<base, custom, temp, pc, io, output, value, committed, shown, draft,
          edits, loaded, kept, saved, attempt, byMenu>>
fileVars == <<base, custom, temp>>
menuVars == <<committed, shown, draft>>
valueVars == <<value, loaded>>
userVars == <<edits, kept>>
saveVars == <<saved, attempt, byMenu>>

-----------------------------------------------------------------------------
(* Documents.                                                              *)

EmptyDocument ==
    [set |-> [s \in Settings |-> None], foreign |-> FALSE, documented |-> FALSE]

Sets(file, s) == file \in Document /\ file.set[s] # None

\* The values a launch takes from a file.
Held(file) == [s \in Settings |-> IF Sets(file, s) THEN file.set[s] ELSE Default[s]]

\* What is not ours in a file.
Foreign(file) ==
    IF file = Unusable THEN Unusable ELSE file \in Document /\ file.foreign

(* Mutant: a file that cannot be parsed is taken for an empty one.         *)
UnparsedIsEmpty(file) == IF file \in Document THEN {file} ELSE {EmptyDocument}

\* What the existing file parses to, if it does.
Parsed(file) ==
    CASE file \in Document -> {file}
      [] file = NoFile     -> {EmptyDocument}
      [] OTHER             -> {}

(* Mutant: a setting back at its default keeps its entry.                  *)
UpdateWithoutErase(document, snapshot) ==
    [document EXCEPT !.set =
        [s \in Settings |-> IF snapshot[s] = Default[s] THEN document.set[s]
                                                        ELSE snapshot[s]]]

\* Only values that differ from the default are written.
UpdateOwnedSettings(document, snapshot) ==
    [document EXCEPT !.set =
        [s \in Settings |-> IF snapshot[s] = Default[s] THEN None ELSE snapshot[s]]]

RenderDocument(document) == [document EXCEPT !.documented = TRUE]

\* The document the operation in progress makes of an existing one.
Build(document) ==
    RenderDocument(IF pc = "refresh" THEN document
                                     ELSE UpdateOwnedSettings(document, attempt))

(* Mutant: the page takes whatever the control returns.                    *)
NormalizeNothing(v) == v

NormalizeSettingDraftValue(v) == IF v > MaxValue THEN MaxValue ELSE v

-----------------------------------------------------------------------------
Init ==
    /\ base \in {NoFile, EmptyDocument}
    /\ custom \in CustomFiles
    /\ temp = NoFile
    /\ pc = "off" /\ io = "none" /\ output = None
    /\ value = Default /\ loaded = Default
    /\ committed = None /\ shown = None /\ draft = None
    /\ edits = 0 /\ kept = FALSE
    /\ saved = Default /\ attempt = Default /\ byMenu = FALSE

\* The user writes the file, or deletes it.
Edit ==
    /\ pc \in {"off", "menu"} /\ edits < MaxEdits
    /\ \E file \in Document \cup {NoFile, Unusable} :
        /\ base' = file
        /\ kept' = Foreign(file)
        /\ saved' = Held(file) /\ attempt' = Held(file) /\ byMenu' = FALSE
    /\ edits' = edits + 1
    /\ UNCHANGED <<custom, temp, pc, io, output, valueVars, menuVars>>

\* The game ends, in the middle of whatever the plugin does.
End ==
    /\ pc # "off"
    /\ pc' = "off" /\ io' = "none" /\ output' = None
    /\ committed' = None /\ shown' = None /\ draft' = None
    /\ saved' = (IF Held(base) = attempt THEN attempt ELSE saved)
    /\ attempt' = saved'
    /\ byMenu' = (byMenu \/ pc = "commit")
    /\ UNCHANGED <<fileVars, valueVars, userVars>>

-----------------------------------------------------------------------------
(* Reading, building and replacing the file, for the refresh at launch and *)
(* for the menu's Apply.                                                   *)

Busy == pc \in {"refresh", "apply"}

(* Mutant: the values count as committed although the save failed.         *)
FailCommitting ==
    /\ pc' = (IF pc = "refresh" THEN "load" ELSE "menu")
    /\ io' = "none" /\ output' = None
    /\ attempt' = saved
    /\ committed' = (IF pc = "apply" THEN attempt ELSE committed)
    /\ UNCHANGED <<base, custom, shown, draft, valueVars, userVars, saved, byMenu>>

\* A launch goes on without the refresh; the page keeps its draft.
Fail ==
    /\ pc' = (IF pc = "refresh" THEN "load" ELSE "menu")
    /\ io' = "none" /\ output' = None
    /\ attempt' = saved
    /\ UNCHANGED <<base, custom, menuVars, valueVars, userVars, saved, byMenu>>

Succeed ==
    /\ pc' = (IF pc = "refresh" THEN "load" ELSE "commit")
    /\ io' = "none" /\ output' = None
    /\ UNCHANGED <<custom, menuVars, valueVars, userVars, saveVars>>

ReadFails == Busy /\ io = "read" /\ Fail /\ UNCHANGED temp
ParseFails == Busy /\ io = "read" /\ Parsed(base) = {} /\ Fail /\ UNCHANGED temp

\* WriteIfChanged: there is nothing to write.
Unchanged ==
    /\ Busy /\ io = "read"
    /\ \E document \in Parsed(base) : Build(document) = base
    /\ Succeed /\ UNCHANGED <<base, temp>>

BuildDocument ==
    /\ Busy /\ io = "read"
    /\ \E document \in Parsed(base) :
        /\ Build(document) # base
        /\ output' = Build(document)
    /\ io' = "create"
    /\ UNCHANGED <<pc, fileVars, menuVars, valueVars, userVars, saveVars>>

CreateTemporary ==
    /\ io = "create"
    /\ temp' = Torn /\ io' = "write"
    /\ UNCHANGED <<base, custom, pc, output, menuVars, valueVars, userVars, saveVars>>

CreateFails == io = "create" /\ Fail /\ UNCHANGED temp

WriteTemporary ==
    /\ io = "write"
    /\ temp' = output /\ io' = "replace"
    /\ UNCHANGED <<base, custom, pc, output, menuVars, valueVars, userVars, saveVars>>

\* Removing the temporary file can fail too.
WriteFails == io = "write" /\ Fail /\ temp' \in {NoFile, temp}

ReplaceFile ==
    /\ io = "replace"
    /\ base' = temp /\ temp' = NoFile
    /\ Succeed

ReplaceFails == io = "replace" /\ Fail /\ temp' \in {NoFile, temp}

-----------------------------------------------------------------------------
(* Launch.                                                                 *)

Launch ==
    /\ pc = "off"
    /\ pc' = "refresh" /\ io' = "read"
    /\ UNCHANGED <<output, fileVars, menuVars, valueVars, userVars, saveVars>>

\* The settings store reads Addictol.toml, then AddictolCustom.toml over it.
Load ==
    /\ pc = "load"
    /\ value' = [s \in Settings |-> IF Sets(custom, s) THEN custom.set[s]
                                                       ELSE Held(base)[s]]
    /\ loaded' = value'
    /\ pc' = "menu"
    /\ UNCHANGED <<io, output, fileVars, menuVars, userVars, saveVars>>

-----------------------------------------------------------------------------
(* The menu's settings page.                                               *)

\* The first draft constructs the repository.
EnsureDraft ==
    /\ pc = "menu" /\ draft = None
    /\ committed' = (IF committed = None THEN value ELSE committed)
    /\ shown' = committed' /\ draft' = committed'
    /\ UNCHANGED <<pc, io, output, fileVars, valueVars, userVars, saveVars>>

Drafted(newDraft) ==
    /\ pc = "menu" /\ draft # None
    /\ draft' = newDraft
    /\ UNCHANGED <<pc, io, output, fileVars, committed, shown, valueVars,
                   userVars, saveVars>>

ChangeDraft ==
    \E s \in Settings, v \in 0 .. (MaxValue + 1) :
        Drafted([draft EXCEPT ![s] = NormalizeSettingDraftValue(v)])

ResetDraft == Drafted(Default)
RevertDraft == Drafted(shown)

LeaveSettingsDraft ==
    /\ pc = "menu" /\ draft # None
    /\ shown' = None /\ draft' = None
    /\ UNCHANGED <<pc, io, output, fileVars, committed, valueVars, userVars, saveVars>>

Apply ==
    /\ pc = "menu" /\ draft # None
    /\ pc' = "apply" /\ io' = "read"
    /\ attempt' = draft
    /\ UNCHANGED <<output, fileVars, menuVars, valueVars, userVars, saved, byMenu>>

(* Mutant: settings for the next launch are changed in memory as well.     *)
CommitAllAtOnce ==
    /\ pc = "commit"
    /\ value' = attempt /\ committed' = attempt
    /\ shown' = draft
    /\ saved' = attempt /\ byMenu' = TRUE
    /\ pc' = "menu"
    /\ UNCHANGED <<io, output, fileVars, draft, loaded, userVars, attempt>>

\* The file is written: immediate settings change, the repository commits and
\* the page shows the draft as committed.
Commit ==
    /\ pc = "commit"
    /\ value' = [s \in Settings |->
                    IF s \in Immediate /\ attempt[s] # committed[s]
                        THEN attempt[s] ELSE value[s]]
    /\ committed' = attempt
    /\ shown' = draft
    /\ saved' = attempt /\ byMenu' = TRUE
    /\ pc' = "menu"
    /\ UNCHANGED <<io, output, fileVars, draft, loaded, userVars, attempt>>

-----------------------------------------------------------------------------
WriteSteps ==
    \/ ReadFails \/ ParseFails \/ Unchanged \/ BuildDocument
    \/ CreateTemporary \/ CreateFails \/ WriteTemporary \/ WriteFails
    \/ ReplaceFile \/ ReplaceFails

MenuSteps ==
    \/ EnsureDraft \/ ChangeDraft \/ ResetDraft \/ RevertDraft
    \/ LeaveSettingsDraft \/ Apply \/ Commit

Next == Edit \/ End \/ Launch \/ Load \/ WriteSteps \/ MenuSteps

Spec == Init /\ [][Next]_vars

-----------------------------------------------------------------------------
Snapshots == [Settings -> Values]

(* The values of drafts stay in the settings' ranges, and only the fields  *)
(* an operation uses are set.                                              *)
TypeOK ==
    /\ base \in Document \cup {NoFile, Unusable, Torn}
    /\ custom \in Document \cup {NoFile}
    /\ temp \in Document \cup {NoFile, Torn}
    /\ pc \in {"off", "refresh", "load", "menu", "apply", "commit"}
    /\ io \in {"none", "read", "create", "write", "replace"}
    /\ Busy <=> io # "none"
    /\ output \in Document \cup {None}
    /\ value \in Snapshots /\ loaded \in Snapshots
    /\ committed \in Snapshots \cup {None}
    /\ shown \in Snapshots \cup {None} /\ draft \in Snapshots \cup {None}
    /\ pc \in {"apply", "commit"} => draft # None
    /\ edits \in 0 .. MaxEdits
    /\ kept \in BOOLEAN \cup {Unusable}
    /\ saved \in Snapshots /\ attempt \in Snapshots
    /\ byMenu \in BOOLEAN

(* WriteAtomically and WriteSettingsOverrideFile: the file always holds    *)
(* all the values of the last save that completed or all those of the one  *)
(* in progress, whatever step failed or was cut off by the end of the game *)
(* and however often the descriptions were refreshed since.                *)
SavesAreAtomic ==
    \/ Held(base) = saved
    \/ pc \in {"apply", "commit"} /\ Held(base) = attempt

(* ReadExistingFile, ParseUnmanagedDocument and ValidateSerializedDocument:*)
(* the plugin never leaves a partly written file, never writes over a file *)
(* it cannot parse and never loses entries that are not its own.           *)
ForeignKept == base # Torn /\ Foreign(base) = kept

(* SettingsRepository::Apply: a setting for the next launch keeps the      *)
(* value the launch gave it; an immediate one has the committed value.     *)
ValuesFollowTiming ==
    committed # None =>
        \A s \in Settings :
            value[s] = IF s \in Immediate THEN committed[s] ELSE loaded[s]

(* SettingsRepository and the draft: what the page shows as committed is   *)
(* what the repository committed, and once the menu has saved, it is what  *)
(* the next launch loads of every setting AddictolCustom.toml leaves alone.*)
CommittedWillLoad ==
    committed # None /\ pc = "menu" =>
        /\ draft # None => shown = committed
        /\ byMenu => \A s \in Settings :
            Sets(custom, s) \/ committed[s] = Held(base)[s]

(* CONTRIBUTING.md:153-154: "The game writes descriptions and user         *)
(* overrides to AddictolCustom.toml if present, otherwise Addictol.toml."  *)
OverridesReachActiveFile ==
    byMenu => Held(IF custom # NoFile THEN custom ELSE base) = saved

=============================================================================
