----------------------------- MODULE OwnedInflate -----------------------------
(***************************************************************************)
(* The game's zlib streams served by the plugin: OwnedInflate keeps a state *)
(* of its own behind each stream, tries the whole input at once where there *)
(* is a decoder for it and goes on with a streaming decoder, whose view of  *)
(* the input InflateStreamMirror corrects (AdOwnedInflate.h and the         *)
(* decoders under Zlib/).                                                   *)
(*                                                                         *)
(* A compressed stream is a header, bytes that each complete some bytes of *)
(* output, and a trailer of one byte; it is sound, has a wrong trailer, or *)
(* asks for a dictionary after its header.  The decoders are libraries: a  *)
(* streaming one takes input as long as no output waits for room, or as    *)
(* many bytes ahead as it buffers.  An OK and a BUF_ERROR are one answer,  *)
(* for nothing here depends on which it is; inflateSync is left out.       *)
(***************************************************************************)
EXTENDS Integers, Sequences, FiniteSets, SequencesExt, FiniteSetsExt

CONSTANTS
    Streams,        \* z_stream structs of the game
    StateIds,       \* addresses ZlibOwnedState objects can have
    InputLength, HeaderLength,
    Output,         \* the bytes of output the first n bytes of input complete
    Rooms,          \* values of avail_out
    HasWhole,       \* the backend has a whole decoder
    Ahead,          \* input the streaming decoder takes while output waits
    Contents,       \* which of "sound", "corrupt" and "dictionary" are met
    NoStream, NoState,
    Stock           \* the state of a stream the game's own zlib made

ASSUME OwnedInflateAssumption ==
    /\ InputLength \in Nat /\ HeaderLength \in 2..InputLength - 1
    /\ Output \in [0..InputLength -> Nat] /\ Output[HeaderLength] = 0
    /\ \A m, n \in 0..InputLength : m <= n => Output[m] <= Output[n]
    /\ Ahead \in Nat /\ HasWhole \in BOOLEAN /\ Rooms \subseteq Nat
    /\ Contents \subseteq {"sound", "corrupt", "dictionary"}
    /\ NoStream \notin Streams /\ IsFiniteSet(StateIds)
    /\ {NoState, Stock} \cap StateIds = {} /\ NoState # Stock

VARIABLES
    content,        \* what the game decompresses in this behaviour
    hooked,         \* the fifteen entries are hooked
    streams,        \* [state, nextIn, availIn, totalIn, delivered, finished]
    states,         \* [owner, policy, held, token, decoder]
    openTokens      \* profiled streams begun and not ended

inflateVars == <<content, hooked, streams, states, openTokens>>

OutputLength == Output[InputLength]

FreshDecoder == [taken |-> 0, made |-> 0, dictionary |-> FALSE, failed |-> FALSE]
FreshStream == [state |-> NoState, nextIn |-> 0, availIn |-> 0, totalIn |-> 0,
                delivered |-> 0, finished |-> FALSE]

\* ResetView, of the state: the token is ended by EndProfile.
FreshState(owner) ==
    [owner |-> owner, policy |-> "Undecided", held |-> 0, token |-> "none",
     decoder |-> FreshDecoder]
Free == FreshState(NoStream)

InflateStart ==
    /\ content \in Contents
    /\ hooked = FALSE
    /\ streams = [s \in Streams |-> FreshStream]
    /\ states = [id \in StateIds |-> Free]
    /\ openTokens = 0

Live(id) == states[id].owner # NoStream

-----------------------------------------------------------------------------
(* Routing: an untagged state goes to the game's zlib, a tagged one only to *)
(* the stream that owns it.                                                 *)

IsTagged(s) == streams[s].state \in StateIds
IsOwned(s) == IsTagged(s) /\ states[streams[s].state].owner = s
StateOf(s) == states[streams[s].state]

InstallHooks ==
    /\ ~hooked /\ hooked' = TRUE
    /\ UNCHANGED <<content, streams, states, openTokens>>

\* A stream made before the hooks is the game's until it ends.
StockInit(s) ==
    /\ ~hooked /\ streams[s].state = NoState
    /\ streams' = [streams EXCEPT ![s].state = Stock]
    /\ UNCHANGED <<content, hooked, states, openTokens>>

StockEnd(s) ==
    /\ streams[s].state = Stock
    /\ streams' = [streams EXCEPT ![s] = FreshStream]
    /\ UNCHANGED <<content, hooked, states, openTokens>>

Init2(s, id) ==
    /\ hooked /\ streams[s].state = NoState /\ ~Live(id)
    /\ states' = [states EXCEPT ![id] = FreshState(s)]
    /\ streams' = [streams EXCEPT ![s] = [FreshStream EXCEPT !.state = id]]
    /\ UNCHANGED <<content, hooked, openTokens>>

\* The game copies the struct itself and gives the copy up again.
CopyStruct(s, copy) ==
    /\ IsOwned(s) /\ streams[copy].state = NoState
    /\ streams' = [streams EXCEPT ![copy] = streams[s]]
    /\ UNCHANGED <<content, hooked, states, openTokens>>

GiveUpCopy(s) ==
    /\ IsTagged(s) /\ ~IsOwned(s)
    /\ streams' = [streams EXCEPT ![s] = FreshStream]
    /\ UNCHANGED <<content, hooked, states, openTokens>>

-----------------------------------------------------------------------------
(* Profiling: one token for a stream's life between two resets. *)

TokenBegun(state, sampled) ==
    IF state.token # "none" THEN state
    ELSE [state EXCEPT !.token = IF sampled THEN "live" ELSE "spent"]

Ended(state) == IF state.token = "live" THEN [state EXCEPT !.token = "spent"] ELSE state

Completed(state, result) ==
    IF result \in {"END", "ERROR"} THEN Ended(state) ELSE state

LiveTokens(all) == Cardinality({id \in StateIds : all[id].token = "live"})

\* Tokens are begun and ended by the one state a call is about.
CountTokens(old, new) ==
    openTokens' = openTokens
        + (IF old.token = "none" /\ new.token = "live" THEN 1 ELSE 0)
        - (IF old.token = "live" /\ new.token = "spent" THEN 1 ELSE 0)

-----------------------------------------------------------------------------
(* Decoding the whole input at once. *)

\* A deflate stream with a zlib header and no preset dictionary.
HasZlibHeader(available) == available >= HeaderLength /\ content # "dictionary"

WholeFits(available, room) == available = InputLength /\ room >= OutputLength

\* It is not tried on a flush beyond Z_FINISH, nor without an allocation (declined),
\* and its success on a part of the input or on a wrong trailer is none.
WholeServes(available, room, declined) ==
    /\ HasWhole /\ HasZlibHeader(available)
    /\ ~declined /\ room # 0 /\ room >= available
    /\ WholeFits(available, room) /\ content # "corrupt"

Chosen(state, serves) ==
    [state EXCEPT !.policy = IF serves THEN "Done" ELSE "Streaming"]

-----------------------------------------------------------------------------
(* The streaming decoders. *)

\* How far a decoder may take its input: to the end, to a byte whose output
\* waits for room, or to the header's end when it wants a dictionary.
TakesTo(d) == IF content = "dictionary" /\ ~d.dictionary THEN HeaderLength ELSE InputLength

Takes(d, available, room) ==
    LET end == Min({d.taken + available, TakesTo(d)})
        free(t) == \A n \in d.taken + 1..t : Output[n - 1] - d.made <= room
        greedy == Max({t \in d.taken..end : free(t)})
    IN  greedy..Min({end, greedy + Ahead})

\* What the decoder has and what it answers after taking its input up to t.
Run(d, t, room) ==
    [taken |-> t, made |-> Min({Output[t], d.made + room}), dictionary |-> d.dictionary,
     failed |-> d.failed \/ (content = "corrupt" /\ t = InputLength)]

WantsDictionary(d) ==
    content = "dictionary" /\ ~d.dictionary /\ d.taken = HeaderLength

Answer(new) ==
    CASE new.failed -> "ERROR"
      [] WantsDictionary(new) -> "NEED_DICT"
      [] ~new.failed /\ new.taken = InputLength /\ new.made = OutputLength -> "END"
      [] OTHER -> "OK"

PendingOutput(d) == ~d.failed /\ ~WantsDictionary(d) /\ Output[d.taken] > d.made

\* A byte is held only when the call had input of its own.
HoldsOnInput(result, availableAfter, roomAfter, availableBefore, held, pending) ==
    /\ result = "OK"
    /\ roomAfter = 0 /\ availableAfter = 0
    /\ availableBefore # 0
    /\ pending

\* A byte is held back while output waits, so that a caller that goes on as long
\* as it has input asks for it; a probe that cannot be made counts as output.
Holds(result, availableAfter, roomAfter, availableBefore, held, pending) ==
    /\ result = "OK"
    /\ roomAfter = 0 /\ availableAfter = 0
    /\ availableBefore # 0 \/ held # 0
    /\ pending

-----------------------------------------------------------------------------
(* OwnedInflate::Inflate and the operations around it. *)

\* What the call does once the streaming decoder is to serve it.  One that asks
\* for a dictionary may put the total back (ISA-L).
Streamed(s, id, stream, state, room, t, probed, restored) ==
    LET available == stream.availIn - state.held
        decoder == Run(state.decoder, t, room)
        result == Answer(decoder)
        took == t - state.decoder.taken
        made == decoder.made - state.decoder.made
        held == IF Holds(result, available - took, room - made, available, state.held,
                         PendingOutput(decoder) \/ ~probed)
                THEN 1 ELSE 0
        counted == IF result = "NEED_DICT" /\ restored THEN 0 ELSE took
        new == Completed([state EXCEPT !.decoder = decoder, !.held = held], result)
    IN  /\ states' = [states EXCEPT ![id] = new]
        /\ streams' = [streams EXCEPT ![s] =
              [stream EXCEPT !.nextIn = @ + state.held + took - held,
                             !.availIn = available - took + held,
                             !.totalIn = @ + state.held + counted - held,
                             !.delivered = @ + made,
                             !.finished = result = "END"]]
        /\ CountTokens(states[id], new)

\* The whole decoder took everything, or has before.
Served(s, id, stream, state) ==
    LET new == Ended(state)
        now == states[id].policy = "Undecided"
    IN  /\ states' = [states EXCEPT ![id] = new]
        /\ streams' = [streams EXCEPT ![s] =
              IF now
              THEN [stream EXCEPT !.nextIn = @ + InputLength, !.availIn = @ - InputLength,
                                  !.totalIn = @ + InputLength, !.delivered = OutputLength,
                                  !.finished = TRUE]
              ELSE [stream EXCEPT !.finished = TRUE]]
        /\ CountTokens(states[id], new)

\* The caller adds input to what is left and gives room for some output.
Inflate(s, added, room, declined, probed, sampled) ==
    /\ LET id == streams[s].state
           stream == [streams[s] EXCEPT !.availIn = @ + added]
           begun == TokenBegun(states[id], sampled)
           state == IF begun.policy # "Undecided" THEN begun
                    ELSE Chosen(begun, WholeServes(stream.availIn, room, declined))
       IN  IF state.policy = "Done" THEN Served(s, id, stream, state)
           ELSE /\ stream.availIn >= state.held
                /\ \E t \in Takes(state.decoder, stream.availIn - state.held, room),
                      restored \in {TRUE, content # "dictionary"} :
                      Streamed(s, id, stream, state, room, t, probed, restored)
    /\ UNCHANGED <<content, hooked>>

InflateCall(s) ==
    IsOwned(s) /\ \E added \in 0..InputLength - (streams[s].nextIn + streams[s].availIn), room \in Rooms,
       declined \in IF StateOf(s).policy = "Undecided" THEN BOOLEAN ELSE {FALSE},
       probed \in IF StateOf(s).policy = "Done" THEN {TRUE} ELSE BOOLEAN,
       sampled \in IF StateOf(s).token = "none" THEN BOOLEAN ELSE {FALSE} :
        Inflate(s, added, room, declined, probed, sampled)

\* The caller begins another stream of the same content.
Restarted(s) == [FreshStream EXCEPT !.state = streams[s].state]

Reset(s) ==
    /\ IsOwned(s)
    /\ LET id == streams[s].state
       IN  /\ states' = [states EXCEPT ![id] = FreshState(s)]
           /\ CountTokens(states[id], Ended(states[id]))
    /\ streams' = [streams EXCEPT ![s] = Restarted(s)]
    /\ UNCHANGED <<content, hooked>>

\* Prime, GetHeader and the other operations of the streaming decoder alone: a
\* stream not decided on is streamed from now on, one served whole is refused.
Native(state) ==
    IF state.policy = "Undecided" THEN [state EXCEPT !.policy = "Streaming"] ELSE state

Controlled(state, supported, fails) ==
    IF ~supported THEN Ended(state)
    ELSE IF Native(state).policy # "Streaming" \/ fails THEN Ended(Native(state))
    ELSE Native(state)

Control(s) ==
    /\ IsOwned(s)
    /\ LET id == streams[s].state
       IN  \E supported, fails \in BOOLEAN :
              LET new == Controlled(states[id], supported, fails)
              IN  /\ states' = [states EXCEPT ![id] = new]
                  /\ CountTokens(states[id], new)
    /\ UNCHANGED <<content, hooked, streams>>

SetDictionary(s) ==
    /\ IsOwned(s) /\ StateOf(s).policy = "Streaming" /\ WantsDictionary(StateOf(s).decoder)
    /\ states' = [states EXCEPT ![streams[s].state].decoder.dictionary = TRUE]
    /\ UNCHANGED <<content, hooked, streams, openTokens>>

ResetKeep(s) ==
    /\ IsOwned(s)
    /\ LET id == streams[s].state
           ended == Ended(states[id])
           state == Native(ended)
       IN  /\ CountTokens(states[id], ended)
           /\ IF state.policy # "Streaming"
              THEN states' = [states EXCEPT ![id] = state] /\ UNCHANGED streams
              ELSE /\ states' = [states EXCEPT ![id] =
                           [FreshState(s) EXCEPT !.policy = "Streaming"]]
                   /\ streams' = [streams EXCEPT ![s] = Restarted(s)]
    /\ UNCHANGED <<content, hooked>>

\* The copy owns a state of its own and is not profiled.
Copy(source, destination, id) ==
    /\ IsOwned(source) /\ streams[destination].state = NoState /\ ~Live(id)
    /\ states' = [states EXCEPT ![id] =
          [StateOf(source) EXCEPT !.owner = destination, !.token = "none"]]
    /\ streams' = [streams EXCEPT ![destination] = [streams[source] EXCEPT !.state = id]]
    /\ UNCHANGED <<content, hooked, openTokens>>

\* The game ends no stream of which it still keeps a copy of the struct.
End(s) ==
    /\ IsOwned(s)
    /\ \A other \in Streams \ {s} : streams[other].state # streams[s].state
    /\ LET id == streams[s].state
       IN  /\ CountTokens(states[id], Ended(states[id]))
           /\ states' = [states EXCEPT ![id] = Free]
    /\ streams' = [streams EXCEPT ![s] = FreshStream]
    /\ UNCHANGED <<content, hooked>>

InflateNext ==
    \/ InstallHooks
    \/ \E s \in Streams :
          \/ StockInit(s) \/ StockEnd(s) \/ GiveUpCopy(s)
          \/ InflateCall(s) \/ Reset(s) \/ ResetKeep(s) \/ Control(s)
          \/ SetDictionary(s) \/ End(s)
          \/ \E id \in StateIds : Init2(s, id)
          \/ \E other \in Streams : CopyStruct(s, other)
          \/ \E other \in Streams, id \in StateIds : Copy(s, other, id)

InflateSpec == InflateStart /\ [][InflateNext]_inflateVars

-----------------------------------------------------------------------------
(* Properties. *)

InflateTypeOK ==
    /\ streams \in [Streams -> [state : StateIds \cup {NoState, Stock},
                                nextIn : 0..InputLength, availIn : 0..InputLength,
                                totalIn : 0..InputLength, delivered : 0..OutputLength,
                                finished : BOOLEAN]]
    /\ \A id \in StateIds :
          /\ states[id].policy \in {"Undecided", "Streaming", "Done"}
          /\ states[id].held \in 0..1
    /\ openTokens \in Nat

Streaming(s) == IsOwned(s) /\ StateOf(s).policy = "Streaming"

\* A caller that stops when it has no input left has all the output of what it
\* gave, although the decoder may have taken the input with output still waiting.
NothingIsStranded ==
    \A s \in Streams :
        (Streaming(s) /\ ~StateOf(s).decoder.failed /\ streams[s].availIn = 0)
            => streams[s].delivered = Output[streams[s].nextIn]

\* The view of the input agrees with the decoder's: what the decoder has taken
\* and the caller still sees is exactly the byte held back.
ViewsAgree ==
    \A s \in Streams : Streaming(s) =>
        /\ StateOf(s).decoder.taken = streams[s].nextIn + StateOf(s).held
        /\ StateOf(s).held <= streams[s].availIn
        /\ StateOf(s).decoder.made = streams[s].delivered
        /\ content # "dictionary" => streams[s].totalIn = streams[s].nextIn

\* A stream is told to be finished when all of it is delivered, whichever
\* decoder served it, and never when its trailer is wrong.
FinishedIsWhole ==
    \A s \in Streams : streams[s].finished =>
        /\ streams[s].delivered = OutputLength /\ streams[s].nextIn = InputLength
        /\ content # "corrupt"

\* Every live state has one owner that names it, and a stream names no state that
\* has been given up.
StatesAreOwned ==
    /\ \A id \in StateIds : Live(id) => streams[states[id].owner].state = id
    /\ \A s \in Streams : streams[s].state \in StateIds => Live(streams[s].state)

\* No profiled stream is begun twice, ended twice or dropped without an end.
TokensAreEnded == openTokens = LiveTokens(states)

\* A stream gets all of its output however it is fed, its state is its own and
\* what is profiled of it is ended once.
StreamsAreWhole ==
    /\ InflateTypeOK /\ NothingIsStranded /\ ViewsAgree /\ FinishedIsWhole
    /\ StatesAreOwned /\ TokensAreEnded
=============================================================================
