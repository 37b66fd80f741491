-------------------------- MODULE FacegenExceptions --------------------------
(***************************************************************************)
(* The NPCs that do without their precomputed heads: the set the game's    *)
(* threads look up, the INI it is read from, and the page of the menu that *)
(* edits a draft of the INI's entries.                                     *)
(*                                                                         *)
(* A name stands for all its spellings up to case and outer spaces, which  *)
(* the INI's keys and the page's duplicates agree on; a name that begins   *)
(* like a comment or a section is left out.  The INI has this one section. *)
(***************************************************************************)
EXTENDS Integers, FiniteSets

CONSTANTS
    Names,              \* the unique names of entries
    Plugins,            \* plugin names an entry may have
    LoadOrder,          \* [Plugins -> [kind : {"full", "light", "absent"}, index : Nat]]
    FormIDs,            \* the FormIDs an entry may have
    FullIDs, LightIDs,  \* how many forms a plugin, a light plugin has
    LightBase,          \* the plugin index light plugins share
    Primaries,          \* the built-in exceptions
    MaxOutsideEdits,    \* bound: how often the user edits the INI by hand
    MaxRepublished,     \* bound: how often saves and reloads complete
    NoPlugin, NoIni, Closed, Adding, Nobody

Malformed == -1
EntryValues == [id : FormIDs \cup {Malformed}, plugin : Plugins \cup {NoPlugin, ""}]
NoEntries == [n \in {} |-> n]
Drafts == UNION {[ns -> EntryValues] : ns \in SUBSET Names}
IniFiles == [comments : BOOLEAN, section : BOOLEAN, entries : Drafts]

ASSUME FacegenAssumption ==
    /\ Names # {} /\ FormIDs # {}
    /\ NoIni \notin IniFiles
    /\ Nobody \notin {"game", "menu"}

VARIABLES
    enabled, pluginsLoaded,    \* the module is installed; the game has its plugins
    iniFile,            \* [comments, section, entries], or NoIni
    published,          \* facegenExceptionFormIDs
    exceptionSnapshot,  \* [readAttempted, entries, count]
    persistence,        \* who holds exceptionPersistenceMutex
    job,                \* what the holder is about to write or to publish
    page,               \* FacegenExceptionsPageState
    frame,              \* the page is being drawn
    outsideEdits, republished,
    fresh,              \* the file is as the plugin last read or wrote it
    lost                \* names a save took from the file that no draft had

gameVars == <<enabled, pluginsLoaded>>
iniVars == <<iniFile, outsideEdits, fresh, lost>>
publishedVars == <<published, exceptionSnapshot, republished>>
jobVars == <<persistence, job>>
pageVars == <<page, frame>>
facegenVars == <<gameVars, iniVars, publishedVars, jobVars, pageVars>>

-----------------------------------------------------------------------------
\* GetLoadOrderByFormID finds the plugin among those pluginsLoaded.
Resolves(v) ==
    /\ v.id # Malformed
    /\ \/ v.plugin = NoPlugin
       \/ v.plugin \in Plugins /\ pluginsLoaded /\ LoadOrder[v.plugin].kind # "absent"

\* The FormID while the game runs: the plugin's index over that of the file.
RuntimeFormID(v) ==
    IF v.plugin = NoPlugin THEN v.id
    ELSE LET at == LoadOrder[v.plugin] IN
         IF at.kind = "full" THEN (v.id % FullIDs) + at.index * FullIDs
         ELSE (v.id % LightIDs) + at.index * LightIDs + LightBase * FullIDs

AllForms(entries) ==
    Primaries \cup
    {RuntimeFormID(entries[n]) : n \in {m \in DOMAIN entries : Resolves(entries[m])}}

HasSection == iniFile # NoIni /\ iniFile.section
Section == IF HasSection THEN iniFile.entries ELSE NoEntries

-----------------------------------------------------------------------------
\* Before the module reads the INI: the built-in exceptions, or nothing at all
\* when it is disabled.
FacegenStart ==
    /\ enabled \in BOOLEAN /\ pluginsLoaded = FALSE
    /\ iniFile = [comments |-> TRUE, section |-> TRUE,
                  entries |-> [n \in {CHOOSE n \in Names : TRUE} |->
                      [id |-> CHOOSE i \in FormIDs : TRUE, plugin |-> NoPlugin]]]
    /\ published = (IF enabled THEN Primaries ELSE {})
    /\ exceptionSnapshot = [readAttempted |-> FALSE, entries |-> NoEntries,
                            count |-> Cardinality(published)]
    /\ persistence = Nobody /\ job = [step |-> "none"]
    /\ page = [initialized |-> FALSE, dirty |-> FALSE, current |-> FALSE,
               entries |-> NoEntries, editor |-> Closed, confirmation |-> "none",
               saved |-> FALSE, source |-> {}]
    /\ frame = FALSE
    /\ outsideEdits = 0 /\ republished = 0
    /\ fresh = TRUE /\ lost = {}

LoadPlugins ==
    /\ ~pluginsLoaded /\ pluginsLoaded' = TRUE
    /\ fresh' = FALSE
    /\ UNCHANGED <<enabled, iniFile, outsideEdits, lost, publishedVars, jobVars, pageVars>>

\* The user writes, breaks or removes the INI.
EditIni ==
    /\ outsideEdits < MaxOutsideEdits /\ outsideEdits' = outsideEdits + 1
    /\ job.step # "write"
    /\ \/ iniFile' = NoIni
       \/ iniFile' = [comments |-> TRUE, section |-> FALSE, entries |-> NoEntries]
       \/ \E n \in Names, v \in EntryValues :
             iniFile' = [comments |-> TRUE, section |-> TRUE,
                         entries |-> [m \in {n} |-> v]]
    /\ fresh' = FALSE
    /\ UNCHANGED <<lost, gameVars, publishedVars, jobVars, pageVars>>

-----------------------------------------------------------------------------
(* Reading and publishing, under exceptionPersistenceMutex.                *)

\* LoadExceptions: a missing INI or section leaves the built-in exceptions.
LoadExceptions(who) ==
    /\ persistence = Nobody /\ persistence' = who
    /\ job' = [step |-> "publish", forms |-> AllForms(Section), entries |-> Section]
    /\ fresh' = TRUE
    /\ UNCHANGED <<gameVars, iniFile, outsideEdits, lost, publishedVars>>

\* InitContinue, whenever the game says that its data are there, also after the
\* page has read or saved the file already.
ReadExceptions ==
    /\ enabled /\ pluginsLoaded
    /\ LoadExceptions("game")
    /\ UNCHANGED pageVars

PublishForms ==
    /\ job.step = "publish"
    /\ published' = job.forms
    /\ job' = [job EXCEPT !.step = "snapshot"]
    /\ UNCHANGED <<exceptionSnapshot, republished, persistence, gameVars, iniVars, pageVars>>

\* The snapshot has a new revision; what the page drew is no longer current.
PublishSnapshot ==
    /\ job.step = "snapshot"
    /\ exceptionSnapshot' = [readAttempted |-> TRUE, entries |-> job.entries,
                             count |-> Cardinality(job.forms)]
    /\ page' = [page EXCEPT !.current = FALSE, !.saved = @ \/ persistence = "menu"]
    /\ persistence' = Nobody /\ job' = [step |-> "none"]
    /\ UNCHANGED <<published, republished, frame, gameVars, iniVars>>

-----------------------------------------------------------------------------
(* The page.  Its buttons are drawn after its draft has been brought up to *)
(* date in the same frame; the editor and a confirmation are modal.        *)

RefreshDraft ==
    [page EXCEPT !.initialized = TRUE, !.dirty = FALSE, !.current = TRUE,
                 !.entries = exceptionSnapshot.entries, !.editor = Closed,
                 !.confirmation = "none", !.saved = FALSE,
                 !.source = DOMAIN exceptionSnapshot.entries]

(* Mutant: a new snapshot replaces what the user is editing.               *)
OutdatedAlways == ~page.initialized \/ ~page.current

Outdated ==
    \/ ~page.initialized
    \/ ~page.dirty /\ page.editor = Closed /\ ~page.current

BeginFrame ==
    /\ ~frame /\ ~page.saved /\ persistence # "menu"
    /\ frame' = TRUE
    /\ page' = (IF Outdated THEN RefreshDraft ELSE page)
    /\ UNCHANGED <<gameVars, iniVars, publishedVars, jobVars>>

Drawn(newPage) ==
    /\ frame /\ frame' = FALSE
    /\ page' = newPage
    /\ UNCHANGED <<gameVars, iniVars, publishedVars, jobVars>>

EndFrame == Drawn(page)

Idle == page.editor = Closed /\ page.confirmation = "none"

BeginAdd == Idle /\ Drawn([page EXCEPT !.editor = Adding])

BeginEdit ==
    Idle /\ \E n \in DOMAIN page.entries : Drawn([page EXCEPT !.editor = n])

Without(entries, gone) == [n \in DOMAIN entries \ gone |-> entries[n]]

RemoveEntry ==
    /\ Idle
    /\ \E n \in DOMAIN page.entries :
          Drawn([page EXCEPT !.dirty = TRUE, !.entries = Without(@, {n})])

NameIsFree(n, entries) == n \notin DOMAIN entries

ValidEntry(n, v, entries) == NameIsFree(n, entries) /\ Resolves(v)

Committed(n, v, entries) ==
    [page EXCEPT !.dirty = TRUE, !.editor = Closed,
        !.entries = [m \in DOMAIN entries \cup {n} |-> IF m = n THEN v ELSE entries[m]]]

CommitEditor ==
    /\ page.editor # Closed
    /\ LET rest == Without(page.entries, {page.editor}) IN
       \E n \in Names, v \in EntryValues :
          ValidEntry(n, v, rest) /\ Drawn(Committed(n, v, rest))

CloseEditor == page.editor # Closed /\ Drawn([page EXCEPT !.editor = Closed])

AskToDiscard == Idle /\ page.dirty /\ Drawn([page EXCEPT !.confirmation = "discard"])
AskToReload == Idle /\ ~page.dirty /\ Drawn([page EXCEPT !.confirmation = "reload"])

Cancel ==
    /\ ~frame /\ page.confirmation # "none" /\ persistence # "menu" /\ ~page.saved
    /\ page' = [page EXCEPT !.confirmation = "none"]
    /\ UNCHANGED <<frame, gameVars, iniVars, publishedVars, jobVars>>

DiscardChanges ==
    /\ ~frame /\ page.confirmation = "discard" /\ persistence # "menu" /\ ~page.saved
    /\ page' = RefreshDraft
    /\ UNCHANGED <<frame, gameVars, iniVars, publishedVars, jobVars>>

ReloadExceptions ==
    /\ ~frame /\ page.confirmation = "reload" /\ persistence # "menu" /\ ~page.saved
    /\ republished < MaxRepublished
    /\ LoadExceptions("menu")
    /\ UNCHANGED pageVars

-----------------------------------------------------------------------------
(* Saving the draft.                                                       *)

AsksToSave ==
    frame /\ Idle /\ page.dirty /\ persistence = Nobody /\ republished < MaxRepublished

CanBeSaved ==
    HasSection /\ \A n \in DOMAIN page.entries : Resolves(page.entries[n])

\* Every entry is validated again, and the INI read for its leading comments.
SaveExceptions ==
    /\ AsksToSave /\ CanBeSaved
    /\ persistence' = "menu"
    /\ job' = [step |-> "write", comments |-> iniFile.comments,
               entries |-> page.entries, forms |-> AllForms(page.entries)]
    /\ frame' = FALSE
    /\ UNCHANGED <<page, gameVars, iniVars, publishedVars>>

SaveRefused == AsksToSave /\ ~CanBeSaved /\ Drawn(page)

(* Mutant: the comments are the first entry's, also when there is none.    *)
CommentsOfFirst(entries, comments) == comments /\ entries # NoEntries

\* The comments are attached to the first entry, or to an anchor that is cut
\* out of the text when there is no entry.
LeadingComments(entries, comments) == comments

WriteExceptions ==
    /\ job.step = "write"
    /\ iniFile' = [comments |-> LeadingComments(job.entries, job.comments),
                   section |-> TRUE, entries |-> job.entries]
    /\ lost' = lost \cup (DOMAIN Section \ (page.source \cup DOMAIN job.entries))
    /\ fresh' = TRUE
    /\ job' = [step |-> "publish", forms |-> job.forms, entries |-> job.entries]
    /\ UNCHANGED <<persistence, outsideEdits, gameVars, publishedVars, pageVars>>

\* The temporary file is not created or written, or does not replace the INI.
ExceptionWriteFails ==
    /\ job.step = "write"
    /\ persistence' = Nobody /\ job' = [step |-> "none"]
    /\ UNCHANGED <<gameVars, iniVars, publishedVars, pageVars>>

\* The save or reload has returned; the page takes the snapshot there is now.
RefreshAfter ==
    /\ page.saved /\ page' = RefreshDraft
    /\ republished' = republished + 1
    /\ UNCHANGED <<frame, published, exceptionSnapshot, jobVars, gameVars, iniVars>>

-----------------------------------------------------------------------------
FacegenNext ==
    \/ LoadPlugins \/ EditIni \/ ReadExceptions \/ PublishForms \/ PublishSnapshot
    \/ BeginFrame \/ EndFrame \/ BeginAdd \/ BeginEdit \/ RemoveEntry
    \/ CommitEditor \/ CloseEditor \/ AskToDiscard \/ AskToReload
    \/ Cancel \/ DiscardChanges \/ ReloadExceptions
    \/ SaveExceptions \/ SaveRefused \/ WriteExceptions \/ ExceptionWriteFails \/ RefreshAfter

FacegenSpec == FacegenStart /\ [][FacegenNext]_facegenVars

-----------------------------------------------------------------------------
FacegenTypeOK ==
    /\ enabled \in BOOLEAN /\ pluginsLoaded \in BOOLEAN /\ frame \in BOOLEAN
    /\ persistence \in {Nobody, "game", "menu"}
    /\ job.step \in {"none", "write", "publish", "snapshot"}
    /\ page.editor \in {Closed, Adding} \cup DOMAIN page.entries
    /\ page.confirmation \in {"none", "discard", "reload"}

(* SaveExceptions and LoadExceptions: what is published after a save is    *)
(* what the next launch reads from the file it wrote, the built-in         *)
(* exceptions are always among it, the number shown is the set's, and the  *)
(* comments above the entries are still there after any number of saves.   *)
ExceptionsFollowFile ==
    /\ enabled => Primaries \subseteq published
    /\ iniFile # NoIni => iniFile.comments
    /\ persistence = Nobody =>
        /\ exceptionSnapshot.count = Cardinality(published)
        /\ fresh /\ exceptionSnapshot.readAttempted =>
            published = AllForms(Section) /\ exceptionSnapshot.entries = Section

\* What is published of the exceptions is what the file says, and what it says
\* is never lost.
ExceptionsAreWhole == FacegenTypeOK /\ ExceptionsFollowFile

(* EnsureDraft: while the user has unsaved changes or the editor open, a   *)
(* snapshot published by the game's thread does not replace the draft; it  *)
(* goes only with a save, or when the user confirms that it may.           *)
UnsavedChangesKept ==
    [][page'.entries # page.entries =>
        /\ page.dirty => page'.dirty \/ page.confirmation = "discard" \/ page.saved
        /\ page.editor # Closed => page'.dirty]_facegenVars

(* AdMenuFacegenExceptions.cpp:640: "User-defined exceptions will appear   *)
(* after the module reads the INI."  Until then a save must not take out   *)
(* of the file what the page has not shown.                                *)
NoEntryLostUnseen == lost = {}
=============================================================================
