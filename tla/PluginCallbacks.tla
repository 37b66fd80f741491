--------------------------- MODULE PluginCallbacks ---------------------------
(***************************************************************************)
(* The hooks that time other plugins (AdModulePluginTiming.cpp and         *)
(* AdPluginCallbacks.cpp).  F4SE's lookups of a plugin's Query and Load    *)
(* are answered with hooks, which know one plugin at a time; while a       *)
(* plugin loads, its handle is kept with its image, and the callbacks it   *)
(* registers then or later, on any thread, are replaced by thunks, of      *)
(* which there is a fixed number.                                          *)
(*                                                                         *)
(* F4SE is external: on its thread it looks a plugin's functions up, calls *)
(* them, and goes on to the next plugin.  Installing the interfaces is     *)
(* DetourBatch's.                                                          *)
(***************************************************************************)
EXTENDS Integers, Sequences, FiniteSets, Functions, SequencesExt

CONSTANTS
    Plugins,        \* the plugins F4SE loads after this one
    Earlier,        \* those loaded before, whose handles are not known
    CallbackThreads,\* F4SE's thread "main" and others
    HandleKinds,    \* kinds of callback registered by handle: messages, co-save events
    ThunkCount,
    MaxRegistered,  \* bound: registrations
    Nobody

ASSUME PluginCallbacksAssumption ==
    /\ "main" \in CallbackThreads /\ IsFiniteSet(CallbackThreads) /\ Plugins \cap Earlier = {}
    /\ ThunkCount \in Nat /\ "papyrus" \notin HandleKinds /\ MaxRegistered \in Nat
    /\ Nobody \notin Plugins \cup Earlier

VARIABLES
    toLoad,         \* the plugins F4SE has still to load
    current, stage, \* the plugin F4SE is at, and how far it is with it
    originalQuery, originalLoad, activeName,  \* s_originalQuery, s_originalLoad, s_activeName
    timed,          \* <<called, named, meant>>: whose function was called, for whom it
                    \* counted and whose F4SE meant
    attempted, patched,  \* m_attempted, and the interfaces whose registrations are hooked
    loadingImage,   \* s_loadingImage, of F4SE's thread
    knownHandles,   \* m_handles: the plugins whose image is known by their handle
    thunks, nextThunk,   \* m_slots and m_nextSlot
    callbackOverflow,
    registering,    \* registering[t]: the registration a thread is making
    registrations   \* what F4SE was given: [plugin, kind, callback, image, thunk]

callbackVars == <<toLoad, current, stage, originalQuery, originalLoad, activeName, timed,
                  attempted, patched, loadingImage, knownHandles, thunks, nextThunk,
                  callbackOverflow, registering, registrations>>
loaderVars == <<toLoad, current, stage, originalQuery, originalLoad, activeName, timed,
                attempted, patched, loadingImage, knownHandles>>
wrapVars == <<thunks, nextThunk, registering, registrations>>

CallbackKinds == HandleKinds \cup {"papyrus"}
Direct == -1
NotRegistering == [step |-> "idle", plugin |-> Nobody, kind |-> "papyrus", callback |-> 0,
                   image |-> Nobody, thunk |-> Direct]

CallbackTypeOK ==
    /\ toLoad \subseteq Plugins /\ current \in Plugins \cup {Nobody}
    /\ patched \subseteq CallbackKinds /\ knownHandles \subseteq Plugins
    /\ DOMAIN thunks \subseteq 0..ThunkCount - 1
    /\ nextThunk \in Nat /\ callbackOverflow \in Nat

CallbackStart ==
    /\ toLoad = Plugins /\ current = Nobody /\ stage = "idle"
    /\ originalQuery = Nobody /\ originalLoad = Nobody /\ activeName = Nobody
    /\ timed = {} /\ attempted = FALSE /\ patched = {}
    /\ loadingImage = Nobody /\ knownHandles = {}
    /\ thunks = << >> /\ nextThunk = 0 /\ callbackOverflow = 0
    /\ registering = [t \in CallbackThreads |-> NotRegistering]
    /\ registrations = <<>>

-----------------------------------------------------------------------------
\* HookGetProcAddress.  Newer versions of F4SE look up no Query.
LookUpQuery(p) ==
    /\ current = Nobody /\ p \in toLoad
    /\ current' = p /\ toLoad' = toLoad \ {p} /\ stage' = "query"
    /\ originalQuery' = p /\ activeName' = p
    /\ UNCHANGED <<originalLoad, timed, attempted, patched, loadingImage, knownHandles,
                   wrapVars, callbackOverflow>>

LookUpLoad(p) ==
    /\ \/ current = Nobody /\ p \in toLoad /\ stage = "idle"
       \/ current = p /\ stage \in {"query", "queried"}
    /\ current' = p /\ toLoad' = toLoad \ {p}
    /\ stage' = IF stage = "query" THEN "both" ELSE "load"
    /\ originalLoad' = p /\ activeName' = p
    /\ UNCHANGED <<originalQuery, timed, attempted, patched, loadingImage, knownHandles,
                   wrapVars, callbackOverflow>>

\* HookQuery; a plugin that refuses is not loaded.
CallQuery ==
    /\ stage \in {"query", "both"}
    /\ timed' = timed \cup {<<originalQuery, activeName, current>>}
    /\ \/ stage' = (IF stage = "query" THEN "queried" ELSE "load") /\ UNCHANGED current
       \/ stage' = "idle" /\ current' = Nobody
    /\ UNCHANGED <<toLoad, originalQuery, originalLoad, activeName, attempted, patched,
                   loadingImage, knownHandles, wrapVars, callbackOverflow>>

\* HookLoad, up to the call: the interfaces are patched once, each or not, but not
\* while F4SE's own image is unknown, and the plugin's handle is kept if its image
\* is known; there is room for every image's.
CallLoad ==
    /\ stage = "load" /\ stage' = "loading"
    /\ \/ UNCHANGED <<attempted, patched>>
       \/ ~attempted /\ attempted' = TRUE /\ patched' \in SUBSET CallbackKinds
    /\ loadingImage' \in {originalLoad, Nobody}
    /\ knownHandles' = knownHandles \cup ({loadingImage'} \ {Nobody})
    /\ UNCHANGED <<toLoad, current, originalQuery, originalLoad, activeName, timed, wrapVars,
                   callbackOverflow>>

LoadReturns ==
    /\ stage = "loading" /\ registering["main"] = NotRegistering
    /\ stage' = "idle" /\ current' = Nobody /\ loadingImage' = Nobody
    /\ timed' = timed \cup {<<originalLoad, activeName, current>>}
    /\ UNCHANGED <<toLoad, originalQuery, originalLoad, activeName, attempted, patched,
                   knownHandles, wrapVars, callbackOverflow>>

-----------------------------------------------------------------------------
\* A plugin registers a callback: a message listener or co-save callback by its
\* handle, on any thread; Papyrus functions count for the plugin that loads on the
\* thread.
Registrants(t) == IF t = "main" /\ stage = "loading" THEN {current}
                  ELSE Earlier \cup {p \in Plugins : p \notin toLoad /\ p # current}

Count == Len(registrations) + Cardinality({t \in CallbackThreads : registering[t].step # "idle"})

Register(t, p, kind) ==
    /\ registering[t] = NotRegistering /\ p \in Registrants(t) /\ kind \in patched
    /\ Count < MaxRegistered
    /\ LET image == IF kind = "papyrus" THEN (IF t = "main" THEN loadingImage ELSE Nobody)
                    ELSE IF p \in knownHandles THEN p ELSE Nobody
       IN registering' = [registering EXCEPT ![t] =
                [step |-> IF image = Nobody THEN "give" ELSE "take", plugin |-> p, kind |-> kind,
                 callback |-> Count + 1, image |-> image, thunk |-> Direct]]
    /\ UNCHANGED <<loaderVars, thunks, nextThunk, callbackOverflow, registrations>>

\* The next thunk is the first not yet filled.
TakeUnfilled(t) ==
    /\ registering[t].step = "take" /\ nextThunk' = Cardinality(DOMAIN thunks) + 1
    /\ IF nextThunk' > ThunkCount
       THEN /\ callbackOverflow' = callbackOverflow + 1
            /\ registering' = [registering EXCEPT ![t].step = "give"]
       ELSE /\ registering' = [registering EXCEPT ![t].step = "fill", ![t].thunk = nextThunk' - 1]
            /\ UNCHANGED callbackOverflow
    /\ UNCHANGED <<loaderVars, thunks, registrations>>

\* Wrap takes the next thunk; past the last one the callback itself is given.
TakeThunk(t) ==
    /\ registering[t].step = "take" /\ nextThunk' = nextThunk + 1
    /\ IF nextThunk >= ThunkCount
       THEN /\ callbackOverflow' = callbackOverflow + 1
            /\ registering' = [registering EXCEPT ![t].step = "give"]
       ELSE /\ registering' = [registering EXCEPT ![t].step = "fill", ![t].thunk = nextThunk]
            /\ UNCHANGED callbackOverflow
    /\ UNCHANGED <<loaderVars, thunks, registrations>>

FillThunk(t) ==
    /\ registering[t].step = "fill"
    /\ thunks' = [n \in DOMAIN thunks \cup {registering[t].thunk} |->
                    IF n = registering[t].thunk
                    THEN [image |-> registering[t].image, kind |-> registering[t].kind,
                          callback |-> registering[t].callback]
                    ELSE thunks[n]]
    /\ registering' = [registering EXCEPT ![t].step = "give"]
    /\ UNCHANGED <<loaderVars, nextThunk, callbackOverflow, registrations>>

GiveCallback(t) ==
    /\ registering[t].step = "give"
    /\ registrations' = Append(registrations,
            [plugin |-> registering[t].plugin, kind |-> registering[t].kind,
             callback |-> registering[t].callback, image |-> registering[t].image,
             thunk |-> registering[t].thunk])
    /\ registering' = [registering EXCEPT ![t] = NotRegistering]
    /\ UNCHANGED <<loaderVars, thunks, nextThunk, callbackOverflow>>

CallbackNext ==
    \/ \E p \in Plugins : LookUpQuery(p) \/ LookUpLoad(p)
    \/ CallQuery \/ CallLoad \/ LoadReturns
    \/ \E t \in CallbackThreads :
         \/ \E p \in Plugins \cup Earlier, kind \in CallbackKinds : Register(t, p, kind)
         \/ TakeThunk(t) \/ FillThunk(t) \/ GiveCallback(t)

CallbackSpec == CallbackStart /\ [][CallbackNext]_callbackVars

-----------------------------------------------------------------------------
\* A callback F4SE calls is the one that was registered, whichever thread registered
\* it beside whom, and it counts for the plugin it belongs to.
ThunksLeadHome ==
    \A n \in DOMAIN registrations :
        LET r == registrations[n] IN
        r.thunk # Direct =>
            r.thunk \in DOMAIN thunks /\ thunks[r.thunk] =
                [image |-> r.plugin, kind |-> r.kind, callback |-> r.callback]

\* A callback of a plugin that is known goes untimed only when there is no thunk left,
\* and is counted then.
UntimedAreCounted ==
    callbackOverflow =
        Cardinality({n \in DOMAIN registrations :
                        registrations[n].image # Nobody /\ registrations[n].thunk = Direct})
        + Cardinality({t \in CallbackThreads :
                        /\ registering[t].step = "give"
                        /\ registering[t].image # Nobody /\ registering[t].thunk = Direct})

\* The function F4SE means is called and the time counts for its plugin, although
\* there is one of each to remember.
TimesAreTheirs == \A time \in timed : time = <<time[3], time[3], time[3]>>

\* A plugin's callback is reached through the thunk that was made for it, or
\* unwrapped and counted when the thunks have run out, and the time of a call is
\* recorded for the plugin whose code ran.
CallbacksLeadHome == CallbackTypeOK /\ ThunksLeadHome /\ UntimedAreCounted /\ TimesAreTheirs
==============================================================================
