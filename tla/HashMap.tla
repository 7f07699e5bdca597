------------------------------- MODULE HashMap -------------------------------
(***************************************************************************)
(* AHashMap of core/map.rs: open addressing with linear probing and        *)
(* tombstones.  The pointer map, the disk index and the columns are kept   *)
(* in it; its calls are sequential.                                        *)
(*                                                                         *)
(* A probe is described by where it ends: the code's loop never ends when  *)
(* there is no such place, and here the call cannot be made.               *)
(***************************************************************************)
EXTENDS Integers, Sequences, FiniteSetsExt

CONSTANTS Keys, Values, None,
          Hashers,   \* hash functions, each of the keys put to use with it
          Capacities, \* what with_capacity is asked for
          ValuesOf,  \* bound: [Keys -> the values a key is given]
          MaxTable   \* bound: the table never grows beyond

ASSUME HashAssumption ==
    /\ \A h \in Hashers : DOMAIN h \subseteq Keys /\ \A k \in DOMAIN h : h[k] \in Nat
    /\ Capacities \subseteq Nat
    /\ ValuesOf \in [Keys -> SUBSET Values]
    /\ MaxTable \in Nat
    /\ None \notin Values

VARIABLES hash,     \* the hasher
          table,    \* the buckets
          len, deleted,
          ret       \* what the last call returned

vars == <<hash, table, len, deleted, ret>>

Empty == [bucket |-> "Empty"]
Deleted == [bucket |-> "Deleted"]
Occupied(k, v) == [bucket |-> "Occupied", key |-> k, value |-> v]
Buckets == {Empty, Deleted} \cup {Occupied(k, v) : k \in Keys, v \in Values}

IsOccupied(b) == b.bucket = "Occupied"

PowerOfTwo[n \in Nat] == IF n = 0 THEN 1 ELSE 2 * PowerOfTwo[n - 1]

OccupiedIn(t) == {i \in DOMAIN t : IsOccupied(t[i])}
DeletedIn(t) == {i \in DOMAIN t : t[i] = Deleted}

TypeOK ==
    /\ hash \in Hashers
    /\ table \in Seq(Buckets)
    /\ len \in Nat
    /\ deleted \in Nat
    /\ ret \in Values \cup {None}
    /\ Len(table) \in {0} \cup {PowerOfTwo[n] : n \in 3 .. Len(table)}

\* next_power_of_two
NextPowerOfTwo(n) == Min({m \in {PowerOfTwo[i] : i \in 0 .. n} : m >= n})

MaxOf(a, b) == IF a > b THEN a ELSE b

Cleared(cap) == [i \in 1 .. cap |-> Empty]

\* with_capacity: room for the entries at a load of two thirds.
WithCapacity(n) == Cleared(MaxOf(NextPowerOfTwo((n * 3) \div 2), 8))

\* new or with_hasher; with_capacity.
Init ==
    /\ hash \in Hashers
    /\ table \in {<<>>} \cup {WithCapacity(n) : n \in Capacities}
    /\ len = 0
    /\ deleted = 0
    /\ ret = None
-----------------------------------------------------------------------------
\* The bucket a probe for k looks at after i others.
Bucket(t, k, i) == ((hash[k] + i) % Len(t)) + 1

\* What ends a probe for k.
Ends(b, k) == b = Empty \/ (IsOccupied(b) /\ b.key = k)

\* How many buckets a probe for k may pass and then end.
Probe(t, k) == {i \in 0 .. Len(t) - 1 : Ends(t[Bucket(t, k, i)], k)}

\* The bucket where the probe ends.
Found(t, k) == Bucket(t, k, Min(Probe(t, k)))

\* The tombstones among the first n buckets.
Tombstones(t, k, n) == {i \in 0 .. n - 1 : t[Bucket(t, k, i)] = Deleted}

\* Where insert_no_resize puts k: the first tombstone passed, if k is not there.
Slot(t, k) ==
    LET end == Min(Probe(t, k))
        passed == Tombstones(t, k, end)
    IN  IF t[Bucket(t, k, end)] = Empty /\ passed # {}
        THEN Bucket(t, k, Min(passed))
        ELSE Bucket(t, k, end)

Placed(t, b) == [t EXCEPT ![Slot(t, b.key)] = b]

\* resize: the occupied buckets, inserted in order into an empty table.
Resized(t, cap) ==
    LET upTo[n \in 0 .. Len(t)] ==
            IF n = 0 THEN Cleared(cap)
            ELSE IF IsOccupied(t[n]) THEN Placed(upTo[n - 1], t[n])
            ELSE upTo[n - 1]
    IN  upTo[Len(t)]

\* insert resizes first.  Mutant: tombstones do not count.
FullOfOccupied == table = <<>> \/ (len + 1) * 10 >= Len(table) * 7
Full == table = <<>> \/ (len + deleted + 1) * 10 >= Len(table) * 7

\* Mutant: not rounded up.
ExactCap == MaxOf((len + 1) * 2, 8)
NewCap == MaxOf(NextPowerOfTwo((len + 1) * 2), 8)

\* How many tombstones an insert into a bucket takes away.  Mutant: none.
NoneReused(b) == 0
Reused(b) == IF b = Deleted THEN 1 ELSE 0

Value(b) == IF IsOccupied(b) THEN b.value ELSE None

\* resize counts anew.
Insert(k, v) ==
    LET t == IF Full THEN Resized(table, NewCap) ELSE table
        n == IF Full THEN Cardinality(OccupiedIn(t)) ELSE len
        d == IF Full THEN 0 ELSE deleted
        i == Slot(t, k)
        b == t[i]
    IN  /\ Full => NewCap <= MaxTable
        /\ Probe(t, k) # {}
        /\ table' = [t EXCEPT ![i] = Occupied(k, v)]
        /\ len' = n + (IF IsOccupied(b) THEN 0 ELSE 1)
        /\ deleted' = d - Reused(b)
        /\ ret' = Value(b)
        /\ UNCHANGED hash

\* What get, get_mut and remove find.
Lookup(k) == IF table = <<>> THEN None ELSE Value(table[Found(table, k)])

Get(k) ==
    /\ table # <<>> => Probe(table, k) # {}
    /\ ret' = Lookup(k)
    /\ UNCHANGED <<hash, table, len, deleted>>

GetMut(k, v) ==
    /\ table # <<>> => Probe(table, k) # {}
    /\ ret' = Lookup(k)
    /\ table' = IF Lookup(k) = None THEN table
                ELSE [table EXCEPT ![Found(table, k)].value = v]
    /\ UNCHANGED <<hash, len, deleted>>

\* What remove leaves in the bucket.  Mutant: an empty one.
Gap == Empty
Tombstone == Deleted

Remove(k) ==
    /\ table # <<>> => Probe(table, k) # {}
    /\ ret' = Lookup(k)
    /\ \/ /\ Lookup(k) = None
          /\ UNCHANGED <<table, len, deleted>>
       \/ /\ Lookup(k) # None
          /\ table' = [table EXCEPT ![Found(table, k)] = Tombstone]
          /\ len' = len - 1
          /\ deleted' = deleted + 1
    /\ UNCHANGED hash

\* What iter, keys, values and the owning iterator yield.
Items(t) == {<<t[i].key, t[i].value>> : i \in OccupiedIn(t)}

\* iter_mut: the caller sets the values of some of the keys.
IterMut(v) ==
    /\ table' = [i \in DOMAIN table |->
                    IF IsOccupied(table[i]) /\ v \in ValuesOf[table[i].key]
                    THEN [table[i] EXCEPT !.value = v]
                    ELSE table[i]]
    /\ ret' = None
    /\ UNCHANGED <<hash, len, deleted>>

Clear ==
    /\ table' = <<>>
    /\ len' = 0
    /\ deleted' = 0
    /\ ret' = None
    /\ UNCHANGED hash

Next == \/ \E k \in DOMAIN hash : Get(k) \/ Remove(k)
        \/ \E k \in DOMAIN hash : \E v \in ValuesOf[k] : Insert(k, v) \/ GetMut(k, v)
        \/ \E v \in Values : IterMut(v)
        \/ Clear

Spec == Init /\ [][Next]_vars
-----------------------------------------------------------------------------
\* Every probe ends: a table always has a bucket that is neither occupied nor
\* a tombstone, whatever the sequence of inserts and removals.
ProbesEnd == table # <<>> => \E i \in DOMAIN table : table[i] = Empty

\* len and deleted_count say what the buckets hold, so that the load factor is
\* the true one.
CountersTrue ==
    /\ len = Cardinality(OccupiedIn(table))
    /\ deleted = Cardinality(DeletedIn(table))

\* The table behaves as a finite map: every call returns what it would, and
\* the iterators yield its entries (a key that is stored twice would be two).
Map == INSTANCE FiniteMap WITH map <- Items(table)
IsFiniteMap == Map!Spec
=============================================================================
