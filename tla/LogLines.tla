------------------------------- MODULE LogLines -------------------------------
(***************************************************************************)
(* The log's level and how many lines it got in the last minute            *)
(* (AdLogControl.cpp).  A sink beside the log's file counts lines in one   *)
(* word for each second of a minute, which holds the second and the count; *)
(* threads write to the log at once and the menu adds the words up while   *)
(* they do.                                                                *)
(***************************************************************************)
EXTENDS Integers, Sequences, FiniteSets, FiniteSetsExt

CONSTANTS
    LogThreads,
    LogLevels,        \* LEVEL_NAMES, from the most lines to none
    Configured,       \* what the settings may say of a level
    MinuteSeconds,    \* kBucketCount
    LineMask,         \* kCountMask
    MaxSecond,        \* bounds the clock
    MaxLines          \* bounds the lines of a second

ASSUME LogAssumption ==
    /\ MinuteSeconds \in Nat \ {0} /\ LineMask \in Nat \ {0} /\ MaxSecond \in Nat
    /\ LogThreads # {} /\ IsFiniteSet(LogThreads) /\ LogLevels # <<>>

VARIABLES
    logLevel,         \* of the logger, a place in LogLevels; 0 before Install
    buckets,          \* _buckets, of every place [epoch, count]
    second,           \* CurrentSecond
    writers,          \* of every thread, [at, second, packed]: where in log it is
    adding,           \* CopyStats: [at, bucket, now, lines]
    logged            \* for the properties, of every second: the lines that read it
                      \* [read], that have been put in their bucket [put], and that had
                      \* been when the addition began [before]; whether a writer has put
                      \* an earlier second in the place of a later one [overdue]

logVars == <<logLevel, buckets, second, writers, adding, logged>>

Places == 0..MinuteSeconds - 1
Seconds == 0..MaxSecond
IdleWriter == [at |-> "idle", second |-> 0, packed |-> [epoch |-> 0, count |-> 0]]

LogInit ==
    /\ logLevel = 0
    /\ buckets = [b \in Places |-> [epoch |-> 0, count |-> 0]]
    /\ second = 0
    /\ writers = [t \in LogThreads |-> IdleWriter]
    /\ adding = [at |-> "idle", bucket |-> 0, now |-> 0, lines |-> 0]
    /\ logged = [read |-> [s \in Seconds |-> 0], put |-> [s \in Seconds |-> 0],
                 before |-> [s \in Seconds |-> 0], overdue |-> FALSE]

-----------------------------------------------------------------------------
(* Levels: Install, once, and the menu's SetLevel.                           *)

LevelPlace(name) == CHOOSE i \in DOMAIN LogLevels : LogLevels[i] = name

\* ParseConfiguredLevel: a name that is none is taken for "info".
ParseConfiguredLevel(name) ==
    IF name \in {LogLevels[i] : i \in DOMAIN LogLevels} THEN LevelPlace(name)
    ELSE LevelPlace("info")

InstallLog ==
    /\ logLevel = 0
    /\ \E name \in Configured : logLevel' = ParseConfiguredLevel(name)
    /\ UNCHANGED <<buckets, second, writers, adding, logged>>

SetLevel(level) ==
    /\ logLevel # 0 /\ level # logLevel
    /\ logLevel' = level
    /\ UNCHANGED <<buckets, second, writers, adding, logged>>

-----------------------------------------------------------------------------
(* CountingSink::log, called by the logger for a line of its level or worse.  *)

\* Nobody logs at "off", the last.  The second is read once.
WriteLine(t, severity) ==
    /\ writers[t].at = "idle" /\ logLevel # 0
    /\ severity >= logLevel /\ severity < Len(LogLevels)
    /\ logged.read[second] < MaxLines
    /\ writers' = [writers EXCEPT ![t] = [IdleWriter EXCEPT !.at = "load", !.second = second]]
    /\ logged' = [logged EXCEPT !.read[second] = @ + 1]
    /\ UNCHANGED <<logLevel, buckets, second, adding>>

LoadBucket(t) ==
    /\ writers[t].at = "load"
    /\ writers' = [writers EXCEPT ![t].at = "exchange",
                                  ![t].packed = buckets[writers[t].second % MinuteSeconds]]
    /\ UNCHANGED <<logLevel, buckets, second, adding, logged>>

\* Mutant: the count of the minute before goes on.
ReplacementAdding(packed, s) ==
    [epoch |-> s, count |-> Min({packed.count + 1, LineMask})]
Replacement(packed, s) ==
    [epoch |-> s, count |-> IF packed.epoch = s THEN Min({packed.count + 1, LineMask}) ELSE 1]

\* The exchange fails if the word has changed, and may otherwise: the word is loaded.
ExchangeBucket(t) ==
    /\ writers[t].at = "exchange"
    /\ LET s == writers[t].second
           b == s % MinuteSeconds
       IN  \/ /\ buckets[b] = writers[t].packed
              /\ buckets' = [buckets EXCEPT ![b] = Replacement(@, s)]
              /\ logged' = [logged EXCEPT !.put[s] = @ + 1,
                                          !.overdue = @ \/ buckets[b].epoch > s]
              /\ writers' = [writers EXCEPT ![t] = IdleWriter]
           \/ /\ writers' = [writers EXCEPT ![t].packed = buckets[b]]
              /\ UNCHANGED <<buckets, logged>>
    /\ UNCHANGED <<logLevel, second, adding>>

SecondPasses ==
    /\ second < MaxSecond
    /\ second' = second + 1
    /\ UNCHANGED <<logLevel, buckets, writers, adding, logged>>

-----------------------------------------------------------------------------
(* CountingSink::CopyStats, by the menu: the lines of the minute before it    *)
(* read the clock, bucket after bucket.                                      *)

BeginAdding ==
    /\ adding.at = "idle" /\ logLevel # 0
    /\ adding' = [at |-> "adding", bucket |-> 0, now |-> second, lines |-> 0]
    /\ logged' = [logged EXCEPT !.before = logged.put]
    /\ UNCHANGED <<logLevel, buckets, second, writers>>

IsRecent(epoch, now) == epoch <= now /\ now - epoch < MinuteSeconds

AddBucket ==
    /\ adding.at = "adding"
    /\ LET word == buckets[adding.bucket] IN
       adding' = [adding EXCEPT !.lines = @ + (IF IsRecent(word.epoch, adding.now)
                                               THEN word.count ELSE 0),
                                !.bucket = @ + 1,
                                !.at = IF adding.bucket = MinuteSeconds - 1 THEN "added" ELSE @]
    /\ UNCHANGED <<logLevel, buckets, second, writers, logged>>

ShowLines ==
    /\ adding.at = "added"
    /\ adding' = [adding EXCEPT !.at = "idle", !.bucket = 0, !.lines = 0, !.now = 0]
    /\ UNCHANGED <<logLevel, buckets, second, writers, logged>>

LogNext ==
    \/ InstallLog
    \/ \E level \in DOMAIN LogLevels : SetLevel(level)
    \/ SecondPasses
    \/ BeginAdding \/ AddBucket \/ ShowLines
    \/ \E t \in LogThreads :
          \/ \E severity \in DOMAIN LogLevels : WriteLine(t, severity)
          \/ LoadBucket(t) \/ ExchangeBucket(t)

LogSpec == LogInit /\ [][LogNext]_logVars

-----------------------------------------------------------------------------
(* Properties.                                                               *)

LinesOf(count, from, to) ==
    LET shown == [s \in from..to |-> Min({count[s], LineMask})]
    IN  MapThenSumSet(LAMBDA s : shown[s], from..to)

\* What is shown as the last minute's lines is at most those written in it, and at
\* least those that were counted when the addition began and whose minute has not
\* passed since; unless a writer was so late that it put an earlier minute's second
\* over a later one.
LinesAreOfTheMinute ==
    adding.at = "added" =>
        /\ adding.lines <= LinesOf(logged.read, Max({0, adding.now - MinuteSeconds + 1}), adding.now)
        /\ logged.overdue \/
           adding.lines >= LinesOf(logged.before, Max({0, second - MinuteSeconds + 1}), adding.now)

\* A bucket holds its own seconds only, and of a second never more than were written.
BucketsKeepTheirSeconds ==
    \A b \in Places :
        /\ buckets[b].count # 0 => buckets[b].epoch % MinuteSeconds = b
        /\ buckets[b].count <= logged.put[buckets[b].epoch]
=============================================================================
