-------------------------------- MODULE Column --------------------------------
(***************************************************************************)
(* One ColumnArray of core/column.rs: rows, the packed words that say      *)
(* which of them are valid, and the lock under which a writer copies the   *)
(* published rows, changes the copy and swaps it in.  Rows are numbered    *)
(* from 0, as in the code; a word is the set of its bits.                  *)
(*                                                                         *)
(* The engine appends only (Partition); set and set_valid are public.      *)
(* Memory is reclaimed as in Qsbr.  The waitlist is left out: nothing is   *)
(* ever put on it.                                                         *)
(***************************************************************************)
EXTENDS Naturals, Sequences

CONSTANTS Scalars, Default, Absent,
          Width,     \* bits of a word: 64
          Writers,
          MaxRows    \* bound: rows of the column

\* What the constants must be.
ColumnConstants ==
    /\ Default \in Scalars
    /\ Absent \notin Scalars
    /\ Width \in Nat \ {0}
    /\ MaxRows \in Nat

VARIABLES data,         \* the published ColumnData
          write_guard,
          copy,         \* each writer's copy
          wstate,       \* where each writer is
          written,      \* history: the last value written to each row
          marked        \* history: the rows last said to be valid

columnVars == <<data, write_guard, copy, wstate, written, marked>>

Indices == 0 .. MaxRows - 1

ColumnData == [data : Seq(Scalars), valid : Seq(SUBSET (0 .. Width - 1))]

ColumnTypeOK ==
    /\ data \in ColumnData
    /\ write_guard \in BOOLEAN
    /\ copy \in [Writers -> ColumnData]
    /\ wstate \in [Writers -> {"idle", "locked", "editing", "swapped", "panicked"}]
    /\ written \in [Indices -> Scalars \cup {Absent}]
    /\ marked \subseteq Indices

NoRows == [data |-> <<>>, valid |-> <<>>]

ColumnInit ==
    /\ data = NoRows
    /\ write_guard = FALSE
    /\ copy = [w \in Writers |-> NoRows]
    /\ wstate = [w \in Writers |-> "idle"]
    /\ written = [i \in Indices |-> Absent]
    /\ marked = {}
-----------------------------------------------------------------------------
(* ColumnData *)

\* Vec::resize, to a length no smaller.
Padded(s, n, x) == [i \in 1 .. n |-> IF i <= Len(s) THEN s[i] ELSE x]

Longer(s, n) == IF n > Len(s) THEN n ELSE Len(s)

Word(i) == i \div Width + 1
Bit(i) == i % Width

IsValid(d, i) == Word(i) <= Len(d.valid) /\ Bit(i) \in d.valid[Word(i)]

\* set_valid makes room for the word.  Mutant: with new words only.
ClearedWords(words, n) == [i \in 1 .. Longer(words, n) |-> {}]
Room(words, n) == Padded(words, Longer(words, n), {})

SetValid(d, i, valid) ==
    LET words == IF Word(i) > Len(d.valid) THEN Room(d.valid, Word(i)) ELSE d.valid
    IN  [d EXCEPT !.valid = [words EXCEPT ![Word(i)] =
                                IF valid THEN @ \cup {Bit(i)} ELSE @ \ {Bit(i)}]]

GetRow(d, i) ==
    IF IsValid(d, i) /\ i < Len(d.data) THEN d.data[i + 1] ELSE Absent

Push(d, v) == SetValid([d EXCEPT !.data = Append(@, v)], Len(d.data), TRUE)

Set(d, i, v) ==
    LET rows == Padded(d.data, Longer(d.data, i + 1), Default)
    IN  SetValid([d EXCEPT !.data = [rows EXCEPT ![i + 1] = v]], i, TRUE)

\* What iter yields.
Rows(d) == [i \in 1 .. Len(d.data) |-> GetRow(d, i - 1)]
-----------------------------------------------------------------------------
(* ColumnArray *)

\* A writer is let in if the guard was free.  Mutant: in any case.
AnyGuard == TRUE
GuardFree == ~write_guard

AcquireLock(w) ==
    /\ wstate[w] = "idle"
    /\ GuardFree
    /\ write_guard' = TRUE
    /\ wstate' = [wstate EXCEPT ![w] = "locked"]
    /\ UNCHANGED <<data, copy, written, marked>>

\* A second writer's swap leaves the guard set, and it panics.
AcquirePanics(w) ==
    /\ wstate[w] = "idle"
    /\ ~GuardFree
    /\ write_guard' = TRUE
    /\ wstate' = [wstate EXCEPT ![w] = "panicked"]
    /\ UNCHANGED <<data, copy, written, marked>>

\* load_clone, or get_data_snapshot.
Clone(w) ==
    /\ wstate[w] = "locked"
    /\ copy' = [copy EXCEPT ![w] = data]
    /\ wstate' = [wstate EXCEPT ![w] = "editing"]
    /\ UNCHANGED <<data, write_guard, written, marked>>

EditPush(w, v) ==
    LET n == Len(copy[w].data)
    IN  /\ wstate[w] = "editing"
        /\ n \in Indices
        /\ copy' = [copy EXCEPT ![w] = Push(@, v)]
        /\ written' = [written EXCEPT ![n] = v]
        /\ marked' = marked \cup {n}
        /\ UNCHANGED <<data, write_guard, wstate>>

EditSet(w, i, v) ==
    /\ wstate[w] = "editing"
    /\ copy' = [copy EXCEPT ![w] = Set(@, i, v)]
    /\ written' = [written EXCEPT ![i] = v]
    /\ marked' = marked \cup {i}
    /\ UNCHANGED <<data, write_guard, wstate>>

EditSetValid(w, i, valid) ==
    /\ wstate[w] = "editing"
    /\ copy' = [copy EXCEPT ![w] = SetValid(@, i, valid)]
    /\ marked' = IF valid THEN marked \cup {i} ELSE marked \ {i}
    /\ UNCHANGED <<data, write_guard, wstate, written>>

SwapIn(w) ==
    /\ wstate[w] = "editing"
    /\ data' = copy[w]
    /\ copy' = [copy EXCEPT ![w] = NoRows]
    /\ wstate' = [wstate EXCEPT ![w] = "swapped"]
    /\ UNCHANGED <<write_guard, written, marked>>

ReleaseLock(w) ==
    /\ wstate[w] = "swapped"
    /\ write_guard' = FALSE
    /\ wstate' = [wstate EXCEPT ![w] = "idle"]
    /\ UNCHANGED <<data, copy, written, marked>>

ColumnNext ==
    \E w \in Writers :
        \/ AcquireLock(w) \/ AcquirePanics(w) \/ Clone(w) \/ SwapIn(w) \/ ReleaseLock(w)
        \/ \E v \in Scalars : EditPush(w, v)
        \/ \E i \in Indices, v \in Scalars : EditSet(w, i, v)
        \/ \E i \in Indices, valid \in BOOLEAN : EditSetValid(w, i, valid)

ColumnSpec == ColumnInit /\ [][ColumnNext]_columnVars
-----------------------------------------------------------------------------
\* A row exists up to the last one written; it is the default until written.
Exists(i) == \E j \in Indices : j >= i /\ written[j] # Absent
Expected(i) ==
    IF i \in marked /\ Exists(i)
    THEN IF written[i] = Absent THEN Default ELSE written[i]
    ELSE Absent

Holds(d) ==
    /\ \A i \in Indices : GetRow(d, i) = Expected(i)
    /\ \A i \in DOMAIN Rows(d) : Rows(d)[i] = Expected(i - 1)

\* The rows published while no writer is in, and the copy of the one that is,
\* are the effect of every write made so far, by whichever writer: none is
\* lost when a word is added, a gap is filled, or another writer comes next
\* (column.rs, set: "The intermediate rows ... are not marked valid";
\* acquire_lock: "enforces the single-writer invariant").  A row beyond the
\* end that set_valid marked holds the default once a later row is written.
RowsAsWritten ==
    /\ ~write_guard => Holds(data)
    /\ \A w \in Writers : wstate[w] = "editing" => Holds(copy[w])
=============================================================================
