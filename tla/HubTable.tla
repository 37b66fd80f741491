------------------------------- MODULE HubTable -------------------------------
(***************************************************************************)
(* The telemetry hub's table of sources (AdTelemetryHub.cpp): modules and  *)
(* heaps register theirs while the plugin is built, the runtime adds its   *)
(* own and freezes the table (AdTelemetryRuntime.cpp), after which the     *)
(* worker fills a row over all columns at each interval.  The row it fills *)
(* is exchanged with the oldest of the ring, so it starts out with cells   *)
(* of long ago; a copy of the last one is kept for the menu.               *)
(*                                                                         *)
(* A cell is known by the source that wrote it, its place in that source's *)
(* schema and the row it was written for.  What threads do to the words    *)
(* behind a source, and when rows are due, is FrameTelemetry's.            *)
(***************************************************************************)
EXTENDS Integers, Sequences, FiniteSets, FiniteSetsExt, Functions

CONSTANTS
    ModuleSources,    \* sources that modules and heaps may register
    RuntimeSources,   \* the sequence of Telemetry::Initialize's own
    SchemaOf,         \* of each source: its sequence of keys
    ValidKeys,
    SeriesCapacityOf, \* of each source: room for its series, or 0
    SizeMax,          \* of size_t
    HistoryRows,      \* the ring's rows
    FaultSource,      \* the source of the process's memory, which counts page faults
    FaultWord,        \* the count has 32 bits
    MaxCollections,   \* bounds the rows collected
    MaxFaults,        \* bounds the page faults
    Fallible          \* the sources whose reading can fail

ASSUME HubTableAssumption ==
    /\ HistoryRows \in Nat \ {0} /\ FaultWord \in Nat \ {0} /\ SizeMax \in Nat
    /\ MaxCollections \in Nat /\ RuntimeSources \in Seq(Range(RuntimeSources))
    /\ FaultSource \in Range(RuntimeSources)
    \* A key is compared with those of other sources only.
    /\ \A s \in ModuleSources \cup Range(RuntimeSources) :
          /\ SchemaOf[s] \in Seq(Range(SchemaOf[s])) /\ IsInjective(SchemaOf[s])
          /\ SeriesCapacityOf[s] \in Nat

VARIABLES
    initialized,      \* Telemetry::Initialize has been called
    entries,          \* m_sources: [source, offset, count, seriesOffset]
    frozen,           \* m_frozen
    columns,          \* m_columns
    ring,             \* [rows, write, count]: m_ring, m_ringWrite, m_ringCount
    collecting,       \* m_collecting
    latest,           \* m_published
    sequence,         \* m_sequence
    session,          \* the worker: "none" or "running"
    faults            \* [total, previous, known]: of the process, and FaultSource's words;
                      \* [first, last, drained]: of what it read, for the properties

hubTableVars ==
    <<initialized, entries, frozen, columns, ring, collecting, latest, sequence,
      session, faults>>

NoCell == [source |-> "none", place |-> 0, row |-> 0]
EmptyRow(columnCount, seriesCount) ==
    [sequence |-> 0, values |-> [k \in 1..columnCount |-> NoCell],
     series |-> [k \in 1..seriesCount |-> NoCell]]

HubTableInit ==
    /\ initialized = FALSE /\ entries = <<>> /\ frozen = FALSE /\ columns = <<>>
    /\ ring = [rows |-> <<>>, write |-> 1, count |-> 0]
    /\ collecting = [sequence |-> 0, values |-> <<>>, series |-> <<>>]
    /\ latest = [sequence |-> 0, values |-> <<>>, series |-> <<>>]
    /\ sequence = 0 /\ session = "none"
    /\ faults = [total |-> 0, previous |-> 0, known |-> FALSE,
                 first |-> 0, last |-> 0, drained |-> 0]

-----------------------------------------------------------------------------
(* TelemetryHub::Register. *)

HasSource(table, s) == \E i \in DOMAIN table : table[i].source = s
KeysOf(table) == UNION {Range(SchemaOf[table[i].source]) : i \in DOMAIN table}

\* A source may come twice, as a module's does that is registered at two stages.
\* A key is valid and no other source's.
Accepts(table, s) ==
    /\ ~frozen
    /\ SchemaOf[s] # <<>>
    /\ \/ HasSource(table, s)
       \/ Range(SchemaOf[s]) \subseteq ValidKeys \ KeysOf(table)

\* A source's place in the rows is not known before the table is frozen.
RegisterSource(table, s) ==
    IF Accepts(table, s) /\ ~HasSource(table, s)
    THEN Append(table, [source |-> s, offset |-> 0, count |-> 0, seriesOffset |-> 0])
    ELSE table

ModuleRegisters(s) ==
    /\ entries' = RegisterSource(entries, s)
    /\ UNCHANGED <<initialized, frozen, columns, ring, collecting, latest,
                   sequence, session, faults>>

-----------------------------------------------------------------------------
(* TelemetryHub::Freeze. *)

Capacity(entry) == SeriesCapacityOf[entry.source]

\* The sources' columns and series follow one another in the rows, in their order.
Layout(table) ==
    LET laid[n \in 0..Len(table)] ==
            IF n = 0 THEN [entries |-> <<>>, columns |-> <<>>, series |-> 0]
            ELSE LET so == laid[n - 1]
                     schema == SchemaOf[table[n].source]
                 IN  [entries |-> Append(so.entries,
                                         [source |-> table[n].source, offset |-> Len(so.columns),
                                          count |-> Len(schema), seriesOffset |-> so.series]),
                      columns |-> so.columns \o schema,
                      series |-> so.series + Capacity(table[n])]
    IN  laid[Len(table)]

Freeze(table) ==
    LET layout == Layout(table)
        empty == EmptyRow(Len(layout.columns), layout.series)
    IN  /\ layout.series <= SizeMax
        /\ frozen' = TRUE
        /\ entries' = layout.entries
        /\ columns' = layout.columns
        /\ ring' = [ring EXCEPT !.rows = [r \in 1..HistoryRows |-> empty]]
        /\ collecting' = empty /\ latest' = empty

\* Too many series, or no memory for the rows: there are no columns, and the
\* table is not frozen; the places given till then are never used.
FreezeFails(table) ==
    /\ entries' = table
    /\ UNCHANGED <<frozen, columns, ring, collecting, latest>>

RegisterAll(table) ==
    LET after[n \in 0..Len(RuntimeSources)] ==
            IF n = 0 THEN table ELSE RegisterSource(after[n - 1], RuntimeSources[n])
    IN  after[Len(RuntimeSources)]

\* Telemetry::Initialize, once: every source of its own is registered, and if one
\* is refused, or the freeze fails, nothing is ever collected.
Initialize ==
    /\ ~initialized
    /\ initialized' = TRUE
    /\ LET table == RegisterAll(entries) IN
       IF \A s \in Range(RuntimeSources) : HasSource(table, s)
       THEN Freeze(table) \/ FreezeFails(table)
       ELSE entries' = table /\ UNCHANGED <<frozen, columns, ring, collecting, latest>>
    /\ UNCHANGED <<sequence, session, faults>>

-----------------------------------------------------------------------------
(* The sources' own words: the page faults of ProcessMemoryMetricSource.     *)

PageFault ==
    /\ frozen /\ faults.total < MaxFaults
    /\ faults' = [faults EXCEPT !.total = @ + 1]
    /\ UNCHANGED <<initialized, entries, frozen, columns, ring, collecting,
                   latest, sequence, session>>

\* Mutant: a reading that fails is taken for a count of none.
DrainFaultsZeroing(f, readable) ==
    LET now == f.total % FaultWord
        delta == IF f.known /\ now >= f.previous THEN now - f.previous ELSE 0
    IN  IF ~readable THEN [f EXCEPT !.previous = 0]
        ELSE [f EXCEPT !.previous = now, !.known = TRUE, !.drained = @ + delta,
                       !.first = IF f.known THEN @ ELSE f.total, !.last = f.total]

\* What a Drain reports is what came since the last reading that succeeded; the
\* first has nothing to compare with, and a count that has wrapped reports none.
DrainFaults(f, readable) ==
    LET now == f.total % FaultWord
        delta == IF f.known /\ now >= f.previous THEN now - f.previous ELSE 0
    IN  IF ~readable THEN f
        ELSE [f EXCEPT !.previous = now, !.known = TRUE, !.drained = @ + delta,
                       !.first = IF f.known THEN @ ELSE f.total, !.last = f.total]

-----------------------------------------------------------------------------
(* TelemetryHub::Collect, ClearIntervals, Start and Stop.                    *)

InSpan(k, offset, count) == k - offset \in 1..count

\* Sources fill the row in turn: what the last one writes to a cell stays.
LastOf(filling) == entries[Max(filling)]

\* A source fills its columns, with no value where its reading failed.
FilledValues(readable, row) ==
    [k \in DOMAIN collecting.values |->
        LET filling == {i \in DOMAIN entries : InSpan(k, entries[i].offset, entries[i].count)}
            entry == LastOf(filling)
        IN  IF filling = {} THEN collecting.values[k]
            ELSE IF entry.source \in readable
                 THEN [source |-> entry.source, place |-> k - entry.offset, row |-> row]
                 ELSE NoCell]

\* Mutant: the samples a source did not report are left in the row.
FilledSeriesLeaving(reported, row) ==
    [k \in DOMAIN collecting.series |->
        LET filling == {i \in DOMAIN entries :
                            InSpan(k, entries[i].seriesOffset, reported[entries[i].source])}
            entry == LastOf(filling)
        IN  IF filling = {} THEN collecting.series[k]
            ELSE [source |-> entry.source, place |-> k - entry.seriesOffset, row |-> row]]

\* Its series has as many samples as it reports, and none behind them.
FilledSeries(reported, row) ==
    [k \in DOMAIN collecting.series |->
        LET filling == {i \in DOMAIN entries :
                            InSpan(k, entries[i].seriesOffset, Capacity(entries[i]))}
            entry == LastOf(filling)
        IN  IF filling = {} THEN collecting.series[k]
            ELSE IF k - entry.seriesOffset <= reported[entry.source]
                 THEN [source |-> entry.source, place |-> k - entry.seriesOffset, row |-> row]
                 ELSE NoCell]

Collect(readable, reported) ==
    LET row == sequence + 1
        filled ==
            [sequence |-> row,
             values |-> FilledValues(readable, row),
             series |-> FilledSeries(reported, row)]
    IN  /\ sequence' = row
        /\ ring' = [rows |-> [ring.rows EXCEPT ![ring.write] = filled],
                    write |-> (ring.write % HistoryRows) + 1,
                    count |-> Min({ring.count + 1, HistoryRows})]
        /\ collecting' = [ring.rows[ring.write] EXCEPT !.sequence = row]
        /\ latest' = filled
        /\ faults' = DrainFaults(faults, FaultSource \in readable)

CollectInterval ==
    /\ session = "running" /\ sequence < MaxCollections
    /\ LET sources == {entries[i].source : i \in DOMAIN entries} IN
       \E failing \in SUBSET Fallible, reported \in [sources -> 0..1] :
          /\ \A s \in sources : reported[s] <= SeriesCapacityOf[s]
          /\ Collect(sources \ failing, reported)
    /\ UNCHANGED <<initialized, entries, frozen, columns, session>>

\* Every source is drained, and what was published is emptied, but for its number.
ClearIntervals ==
    /\ latest' = [EmptyRow(Len(latest.values), Len(latest.series))
                        EXCEPT !.sequence = latest.sequence]
    /\ \E readable \in BOOLEAN : faults' = DrainFaults(faults, readable)

\* The thread may fail to start.
StartTable ==
    /\ frozen /\ session = "none"
    /\ ClearIntervals
    /\ session' \in {"none", "running"}
    /\ UNCHANGED <<initialized, entries, frozen, columns, ring, collecting, sequence>>

StopTable ==
    /\ session = "running"
    /\ session' = "none"
    /\ ClearIntervals
    /\ UNCHANGED <<initialized, entries, frozen, columns, ring, collecting, sequence>>

HubTableNext ==
    \/ \E s \in ModuleSources : ModuleRegisters(s)
    \/ Initialize
    \/ PageFault
    \/ StartTable \/ CollectInterval \/ StopTable

HubTableSpec == HubTableInit /\ [][HubTableNext]_hubTableVars

-----------------------------------------------------------------------------
(* What the menu reads.                                                      *)

\* CopyMetricHistory: the newest rows there are room for, the oldest first.
ColumnHistory(column, room) ==
    LET count == Min({room, ring.count})
        oldest == ring.write - 1 + HistoryRows - ring.count
    IN  [k \in 1..count |->
            ring.rows[((oldest + ring.count - count + k - 1) % HistoryRows) + 1].values[column]]

-----------------------------------------------------------------------------
(* Properties.                                                               *)

HubTableTypeOK ==
    /\ initialized \in BOOLEAN /\ frozen \in BOOLEAN
    /\ session \in {"none", "running"} /\ sequence \in 0..MaxCollections
    /\ \A i \in DOMAIN entries :
          entries[i].source \in ModuleSources \cup Range(RuntimeSources)
    /\ ring.count \in 0..HistoryRows /\ ring.write \in 1..HistoryRows

\* Once frozen, a key names one column, the columns are those of every source
\* registered and in its place, all of the runtime's among them; before, nothing
\* is collected.
TableIsWhole ==
    IF frozen
    THEN /\ IsInjective(columns)
         /\ \A i \in DOMAIN entries :
               SubSeq(columns, entries[i].offset + 1, entries[i].offset + entries[i].count)
                   = SchemaOf[entries[i].source]
         /\ Range(RuntimeSources) \subseteq {entries[i].source : i \in DOMAIN entries}
    ELSE session = "none" /\ sequence = 0

\* A cell is empty, or what its column's source wrote for this very row: neither a
\* row of long ago nor another source shows through, in a value or in a series.
CellsAreTheirs(row) ==
    /\ \A k \in DOMAIN row.values :
          LET cell == row.values[k] IN
          cell # NoCell => cell.row = row.sequence /\ SchemaOf[cell.source][cell.place] = columns[k]
    /\ \A k \in DOMAIN row.series :
          LET cell == row.series[k] IN
          cell # NoCell =>
              /\ cell.row = row.sequence
              /\ \E i \in DOMAIN entries :
                    entries[i].source = cell.source /\ cell.place = k - entries[i].seriesOffset

\* It is so of the row the menu copies and of every row in the ring, whose newest
\* are copied as a column's history in the order they were collected.
RowsAreTheirs ==
    /\ CellsAreTheirs(latest)
    /\ \A r \in DOMAIN ring.rows : CellsAreTheirs(ring.rows[r])
    /\ \A column \in DOMAIN columns, room \in 1..HistoryRows :
          LET copied == ColumnHistory(column, room) IN
          \A k \in DOMAIN copied :
             copied[k] # NoCell => copied[k].row = sequence - Len(copied) + k

\* The page faults drained are those between the first and the last reading,
\* however many failed between them; after the count has wrapped, no more.
FaultsAddUp ==
    /\ faults.drained <= faults.last - faults.first
    /\ faults.last < FaultWord => faults.drained = faults.last - faults.first
=============================================================================
