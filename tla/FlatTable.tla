------------------------------ MODULE FlatTable ------------------------------
(***************************************************************************)
(* The hash table the game fixes keep their maps in: the values lie dense  *)
(* in one vector, and a robin-hood array of buckets says where each is.  A *)
(* bucket holds the distance from the home of its value and a fingerprint  *)
(* of its hash in one number, zero for an empty one, and the value's index.*)
(*                                                                         *)
(* A hash is a number below HashRange: its high bits are the home bucket,  *)
(* its low ones the fingerprint.  The float by which the number of buckets *)
(* is multiplied is 4/5.  Left out: the table of 2^32 buckets, that grows  *)
(* no further, other load factors, and the copies of a table.              *)
(***************************************************************************)
EXTENDS Integers, SequencesExt, FiniteSets

CONSTANTS Keys, Values, HashOf, HashRange, FingerRange,
          FirstCount,       \* the buckets of a new table, 4 in the code
          Counts,           \* what rehash and reserve are asked for
          Containers        \* the vectors replace is given

ASSUME TableAssumption ==
    /\ HashOf \in [Keys -> 0..(HashRange - 1)]
    /\ FirstCount \in Nat \ {0} /\ HashRange >= FirstCount

VARIABLES
    values,     \* m_values: a sequence of [key, value]
    buckets,    \* m_buckets: 0..n-1 to [df, index]
    content     \* the map the calls describe (not in the code)

tableVars == <<values, buckets, content>>

Vacant == [df |-> 0, index |-> 0]
Count(b) == Cardinality(DOMAIN b)                       \* bucket_count
Capacity(n) == (n * 4) \div 5                           \* m_max_bucket_capacity
Home(k, b) == (HashOf[k] * Count(b)) \div HashRange     \* bucket_idx_from_hash
At(i, d, b) == (i + d) % Count(b)                       \* next, d times
\* dist_and_fingerprint_from_hash, and dist_inc d times.
Df(k, d) == ((d + 1) * FingerRange) + (HashOf[k] % FingerRange)
Least(S) == CHOOSE d \in S : \A e \in S : d <= e
KeyOf(vs, bucket) == vs[bucket.index + 1].key
Cleared(n) == [i \in 0..(n - 1) |-> Vacant]

----------------------------------------------------------------------------
(* The walks along the buckets                                              *)

\* From the key's home to the first bucket that is no farther from its own.
NextWhileLess(b, k) ==
    LET d == Least({e \in 0..Count(b) : Df(k, e) >= b[At(Home(k, b), e, b)].df})
    IN [df |-> Df(k, d), place |-> At(Home(k, b), d, b)]

\* To the key's bucket, or to the first that shows the key is not there.
Probe(b, vs, k) ==
    LET bucket(e) == b[At(Home(k, b), e, b)]
        met(e) == bucket(e).df = Df(k, e) /\ KeyOf(vs, bucket(e)) = k
        d == Least({e \in 0..Count(b) : met(e) \/ Df(k, e) > bucket(e).df})
    IN [df |-> Df(k, d), place |-> At(Home(k, b), d, b), found |-> met(d)]

\* Erasing looks on only while the distance and fingerprint are the key's.
EraseProbe(b, vs, k) ==
    LET start == NextWhileLess(b, k)
        same(e) == b[At(start.place, e, b)].df = start.df + (e * FingerRange)
        d == Least({e \in 0..Count(b) :
                ~same(e) \/ KeyOf(vs, b[At(start.place, e, b)]) = k})
    IN [place |-> At(start.place, d, b), found |-> same(d)]

\* The bucket of the value at an index, from the home of its key on.
BucketOf(b, k, index) ==
    At(Home(k, b), Least({e \in 0..Count(b) : b[At(Home(k, b), e, b)].index = index}), b)

\* The buckets up to the first vacant one move on by one.
PlaceAndShiftUp(b, bucket, place) ==
    LET run == Least({e \in 0..Count(b) : b[At(place, e, b)].df = 0})
        moved == {At(place, e, b) : e \in 1..run}
        before(i) == b[At(i, Count(b) - 1, b)]
    IN [i \in DOMAIN b |->
            CASE i = place -> bucket
              [] i \in moved ->
                    [df |-> before(i).df + FingerRange, index |-> before(i).index]
              [] OTHER -> b[i]]

\* A bucket that is not at home is moved back by one, up to the first that is,
\* or is vacant.
EraseAndShiftDownPastHome(b, place) ==
    LET run == Least({e \in 1..Count(b) : b[At(place, e, b)].df < FingerRange})
        moved == {At(place, e, b) : e \in 0..(run - 2)}
    IN [i \in DOMAIN b |->
            CASE i \in moved ->
                    [df |-> b[At(i, 1, b)].df - FingerRange, index |-> b[At(i, 1, b)].index]
              [] i = At(place, run - 1, b) -> Vacant
              [] OTHER -> b[i]]

\* A bucket that is not at home is moved back by one, up to the first that is,
\* or is vacant.
EraseAndShiftDown(b, place) ==
    LET run == Least({e \in 1..Count(b) : b[At(place, e, b)].df < 2 * FingerRange})
        moved == {At(place, e, b) : e \in 0..(run - 2)}
    IN [i \in DOMAIN b |->
            CASE i \in moved ->
                    [df |-> b[At(i, 1, b)].df - FingerRange, index |-> b[At(i, 1, b)].index]
              [] i = At(place, run - 1, b) -> Vacant
              [] OTHER -> b[i]]

\* clear_and_fill_buckets_from_values, into n buckets.
Filled(vs, n) ==
    LET place(b, j) == LET spot == NextWhileLess(b, vs[j].key)
                       IN PlaceAndShiftUp(b, [df |-> spot.df, index |-> j - 1], spot.place)
    IN FoldLeft(place, Cleared(n), [j \in DOMAIN vs |-> j])

\* calc_shifts_for_size: the first count from the smallest on that holds s values.
CountForSize(s) ==
    Least({n \in {FirstCount * (2 ^ e) : e \in 0..s} : Capacity(n) >= s})

----------------------------------------------------------------------------
(* The operations                                                           *)

\* A value that was put at the end gets a bucket; past the capacity the buckets
\* are doubled and all made anew.
PlaceElement(vs, df, place) ==
    buckets' = IF Len(vs) > Capacity(Count(buckets))
               THEN Filled(vs, 2 * Count(buckets))
               ELSE PlaceAndShiftUp(buckets, [df |-> df, index |-> Len(vs) - 1], place)

\* emplace, and try_emplace: a key that is there keeps its value.
Emplace(k, v) ==
    LET spot == Probe(buckets, values, k)
        vs == Append(values, [key |-> k, value |-> v])
    IN IF spot.found THEN UNCHANGED tableVars
       ELSE /\ values' = vs
            /\ PlaceElement(vs, spot.df, spot.place)
            /\ content' = [x \in DOMAIN content \cup {k} |-> IF x = k THEN v ELSE content[x]]

\* insert_or_assign: a key that is there gets the new value.
InsertOrAssign(k, v) ==
    LET spot == Probe(buckets, values, k)
    IN IF spot.found
       THEN /\ values' = [values EXCEPT ![buckets[spot.place].index + 1].value = v]
            /\ content' = [content EXCEPT ![k] = v]
            /\ UNCHANGED buckets
       ELSE Emplace(k, v)

\* The value of a bucket goes and the last one takes its place, without its
\* bucket being told.
EraseBucketForgetting(place) ==
    LET index == buckets[place].index
        last == Len(values) - 1
    IN /\ content' = [x \in DOMAIN content \ {values[index + 1].key} |-> content[x]]
       /\ values' = Front(IF index = last THEN values
                          ELSE [values EXCEPT ![index + 1] = values[last + 1]])
       /\ buckets' = EraseAndShiftDown(buckets, place)

\* The value of a bucket goes; the last value takes its place, and its bucket is
\* looked up by the index it had.
EraseBucket(place) ==
    LET index == buckets[place].index
        last == Len(values) - 1
        left == EraseAndShiftDown(buckets, place)
    IN /\ content' = [x \in DOMAIN content \ {values[index + 1].key} |-> content[x]]
       /\ IF index = last
          THEN values' = Front(values) /\ buckets' = left
          ELSE /\ values' = Front([values EXCEPT ![index + 1] = values[last + 1]])
               /\ buckets' = [left EXCEPT
                    ![BucketOf(left, values[last + 1].key, last)].index = index]

EraseKey(k) ==
    LET spot == EraseProbe(buckets, values, k)
    IN IF values # <<>> /\ spot.found THEN EraseBucket(spot.place)
       ELSE UNCHANGED tableVars

\* erase of an iterator.
EraseAt(i) == EraseBucket(BucketOf(buckets, values[i].key, i - 1))

\* replace_key: the bucket of the value goes and one for its new key is placed.
ReplaceKey(i, k) ==
    LET old == values[i].key
        left == EraseAndShiftDown(buckets, BucketOf(buckets, old, i - 1))
        spot == NextWhileLess(left, k)
    IN /\ ~Probe(buckets, values, k).found
       /\ values' = [values EXCEPT ![i].key = k]
       /\ buckets' = PlaceAndShiftUp(left, [df |-> spot.df, index |-> i - 1], spot.place)
       /\ content' = [x \in (DOMAIN content \ {old}) \cup {k} |->
                        IF x = k THEN content[old] ELSE content[x]]

Clear ==
    /\ values' = <<>>
    /\ buckets' = Cleared(Count(buckets))
    /\ content' = <<>>

\* The buckets are made anew for the count, or for the values if they are more.
Rehash(count) ==
    LET n == CountForSize(IF count > Len(values) THEN count ELSE Len(values))
    IN /\ n # Count(buckets)
       /\ buckets' = Filled(values, n)
       /\ UNCHANGED <<values, content>>

Reserve(count) ==
    LET n == CountForSize(IF count > Len(values) THEN count ELSE Len(values))
    IN /\ n > Count(buckets)
       /\ buckets' = Filled(values, n)
       /\ UNCHANGED <<values, content>>

\* replace: a value whose key came before is given up for the last one.
Replace(container) ==
    LET n == CountForSize(Len(container))
        start == [vs |-> container, at |-> 1,
                  b |-> Cleared(IF n > Count(buckets) THEN n ELSE Count(buckets))]
        take(t, turn) ==
            LET spot == Probe(t.b, t.vs, t.vs[t.at].key)
            IN IF spot.found
               THEN [t EXCEPT !.vs = Front([t.vs EXCEPT ![t.at] = t.vs[Len(t.vs)]])]
               ELSE [t EXCEPT !.at = t.at + 1,
                        !.b = PlaceAndShiftUp(t.b, [df |-> spot.df, index |-> t.at - 1], spot.place)]
        end == FoldLeft(take, start, container)
    IN /\ values' = end.vs
       /\ buckets' = end.b
       /\ content' = [k \in {container[i].key : i \in DOMAIN container} |->
            end.vs[CHOOSE i \in DOMAIN end.vs : end.vs[i].key = k].value]

----------------------------------------------------------------------------
TableStart ==
    /\ values = <<>>
    /\ buckets = Cleared(FirstCount)
    /\ content = <<>>

TableNext ==
    \/ \E k \in Keys, v \in Values : Emplace(k, v) \/ InsertOrAssign(k, v)
    \/ \E k \in Keys : EraseKey(k)
    \/ \E i \in DOMAIN values : EraseAt(i) \/ \E k \in Keys : ReplaceKey(i, k)
    \/ Clear
    \/ \E count \in Counts : Rehash(count) \/ Reserve(count)
    \/ \E container \in Containers : Replace(container)

TableSpec == TableStart /\ [][TableNext]_tableVars

----------------------------------------------------------------------------
(* What the table promises                                                  *)

\* The values are of keys, the buckets lead into them.
TableTypeOK ==
    /\ values \in Seq([key : Keys, value : Values])
    /\ \A i \in DOMAIN buckets :
        buckets[i].df # 0 => buckets[i].index \in 0..(Len(values) - 1)
    /\ DOMAIN content \subseteq Keys

\* A key is found exactly when the calls so far left it in the map, with the value
\* they left it, however the values were moved and the buckets shifted (find;
\* erase looks for it in another way and finds the same).
FindsWhatItHolds ==
    \A k \in Keys :
        LET spot == Probe(buckets, values, k)
        IN /\ spot.found <=> k \in DOMAIN content
           /\ values # <<>> => EraseProbe(buckets, values, k).found = spot.found
           /\ spot.found => values[buckets[spot.place].index + 1].value = content[k]

\* Every value has one bucket, which says how far from home it is, and there is
\* a vacant one, or a walk would never end.
BucketsAreTrue ==
    LET used == {i \in DOMAIN buckets : buckets[i].df # 0}
    IN /\ Cardinality(used) = Len(values)
       /\ {buckets[i].index : i \in used} = 0..(Len(values) - 1)
       /\ \A i \in used :
            LET k == KeyOf(values, buckets[i])
            IN buckets[i].df = Df(k, (i - Home(k, buckets)) % Count(buckets))
       /\ used # DOMAIN buckets
=============================================================================
