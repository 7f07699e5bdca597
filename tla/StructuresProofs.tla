--------------------------- MODULE StructuresProofs ---------------------------
(***************************************************************************)
(* Proofs about the sequential structures: Column, for words of any width  *)
(* and any number of rows and writers; HashMap, for any keys, values, hash *)
(* functions and capacities; InvertedIndex, for any ids and texts.  All    *)
(* for any sequence of calls; CodecProofs is about the fourth.             *)
(***************************************************************************)
EXTENDS MCStructures, CodecProofs
-----------------------------------------------------------------------------
(* COLUMN *)

\* A copy or the published rows have the rows written, the default in the gaps,
\* and the bits of the rows said to be valid.
Mirrors(d) ==
    /\ \A i \in Indices : i < Len(d.data) <=> Exists(i)
    /\ \A i \in Indices : i < Len(d.data) =>
           d.data[i + 1] = IF written[i] = Absent THEN Default ELSE written[i]
    /\ \A i \in Indices : IsValid(d, i) <=> i \in marked

RowsFit(d) == Len(d.data) <= MaxRows

Inside(w) == wstate[w] \in {"locked", "editing", "swapped"}

\* One writer at a time has the lock, though one that panicked left it closed.
LockOK ==
    /\ \A w \in Writers : Inside(w) => write_guard
    /\ \A w, v \in Writers : Inside(w) /\ Inside(v) => w = v

\* What was written is published, or in the copy of the writer that edits.
RowsOK ==
    /\ RowsFit(data)
    /\ \A w \in Writers : RowsFit(copy[w])
    /\ (\A w \in Writers : wstate[w] # "editing") => Mirrors(data)
    /\ \A w \in Writers : wstate[w] = "editing" => Mirrors(copy[w])

ColumnInv == ColumnTypeOK /\ LockOK /\ RowsOK
-----------------------------------------------------------------------------
(* Validity bits *)

\* A row is one bit of one word.
LEMMA WordAndBit ==
    ASSUME NEW W \in Nat \ {0}, NEW i \in Nat, NEW j \in Nat,
           i \div W = j \div W, i % W = j % W
    PROVE  i = j
<1>1. i = W * (i \div W) + (i % W)
  BY SMT
<1>2. j = W * (j \div W) + (j % W)
  BY SMT
<1> QED
  BY <1>1, <1>2

\* Words are numbered from one, bits from zero.
LEMMA WordBitType ==
    ASSUME ColumnConstants, NEW i \in Nat
    PROVE  Word(i) \in Nat /\ Word(i) >= 1 /\ Bit(i) \in 0 .. Width - 1
<1>1. ASSUME NEW W \in Nat \ {0}
      PROVE  i \div W \in Nat /\ i % W \in 0 .. W - 1
  BY SMT
<1>2. i \div Width \in Nat /\ i % Width \in 0 .. Width - 1
  BY <1>1 DEF ColumnConstants
<1> QED
  BY <1>2 DEF Word, Bit

\* No two rows share a bit.
LEMMA OwnBit ==
    ASSUME ColumnConstants, NEW i \in Nat, NEW j \in Nat,
           Word(i) = Word(j), Bit(i) = Bit(j)
    PROVE  i = j
<1>1. i \div Width \in Nat /\ j \div Width \in Nat
  <2>1. ASSUME NEW W \in Nat \ {0}, NEW k \in Nat
        PROVE  k \div W \in Nat
    BY SMT
  <2> QED
    BY <2>1 DEF ColumnConstants
<1>2. i \div Width = j \div Width
  BY <1>1 DEF Word
<1> QED
  BY <1>2, WordAndBit DEF Bit, ColumnConstants

\* Padding makes a sequence that begins as it did.
LEMMA PaddedIs ==
    ASSUME NEW S, NEW s \in Seq(S), NEW n \in Nat, NEW x \in S
    PROVE  /\ Padded(s, n, x) \in Seq(S)
           /\ Len(Padded(s, n, x)) = n
           /\ \A i \in 1 .. n : Padded(s, n, x)[i] = IF i <= Len(s) THEN s[i] ELSE x
<1>1. \A i \in 1 .. n : (IF i <= Len(s) THEN s[i] ELSE x) \in S
  OBVIOUS
<1> QED
  BY <1>1 DEF Padded

\* set_valid changes the bit of its row and no other, whether it makes room for
\* a new word or not.
LEMMA SetValidIs ==
    ASSUME ColumnConstants, NEW d \in ColumnData, NEW i \in Nat, NEW b \in BOOLEAN
    PROVE  /\ SetValid(d, i, b) \in ColumnData
           /\ SetValid(d, i, b).data = d.data
           /\ \A j \in Nat : IsValid(SetValid(d, i, b), j) <=>
                                 IF j = i THEN b ELSE IsValid(d, j)
<1> DEFINE S == SUBSET (0 .. Width - 1)
           words == IF Word(i) > Len(d.valid) THEN Room(d.valid, Word(i)) ELSE d.valid
           wd == words[Word(i)]
           new == IF b THEN wd \cup {Bit(i)} ELSE wd \ {Bit(i)}
           r == SetValid(d, i, b)
<1>1. d.valid \in Seq(S) /\ d.data \in Seq(Scalars) /\ d = [data |-> d.data, valid |-> d.valid]
  BY DEF ColumnData
<1>2. Word(i) \in Nat /\ Word(i) >= 1 /\ Bit(i) \in 0 .. Width - 1
  BY WordBitType
<1>3. /\ words \in Seq(S)
      /\ Word(i) <= Len(words) /\ Len(d.valid) <= Len(words)
      /\ \A k \in 1 .. Len(words) :
             words[k] = IF k <= Len(d.valid) THEN d.valid[k] ELSE {}
  <2>1. CASE Word(i) > Len(d.valid)
    <3>1. Longer(d.valid, Word(i)) = Word(i)
      BY <2>1 DEF Longer
    <3>2. words = Padded(d.valid, Word(i), {})
      BY <2>1, <3>1 DEF Room
    <3>3. {} \in S
      OBVIOUS
    <3> HIDE DEF words, S
    <3>4. ASSUME NEW s \in Seq(S), NEW n \in Nat
          PROVE  /\ Padded(s, n, {}) \in Seq(S)
                 /\ Len(Padded(s, n, {})) = n
                 /\ \A k \in 1 .. n : Padded(s, n, {})[k] = IF k <= Len(s) THEN s[k] ELSE {}
      <4>1. Padded(s, n, {}) \in Seq(S)
        BY <3>3, PaddedIs, Zenon
      <4>2. Len(Padded(s, n, {})) = n
        BY <3>3, PaddedIs, SMT
      <4>3. \A k \in 1 .. n : Padded(s, n, {})[k] = IF k <= Len(s) THEN s[k] ELSE {}
        BY <3>3, PaddedIs, SMT
      <4> QED
        BY <4>1, <4>2, <4>3
    <3>5. /\ Padded(d.valid, Word(i), {}) \in Seq(S)
          /\ Len(Padded(d.valid, Word(i), {})) = Word(i)
          /\ \A k \in 1 .. Word(i) : Padded(d.valid, Word(i), {})[k] =
                                         IF k <= Len(d.valid) THEN d.valid[k] ELSE {}
      BY <1>1, <1>2, <3>4, Zenon
    <3> QED
      BY <1>1, <1>2, <2>1, <3>2, <3>5
  <2>2. CASE ~(Word(i) > Len(d.valid))
    <3>1. words = d.valid
      BY <2>2
    <3> HIDE DEF words, S
    <3> QED
      BY <1>1, <1>2, <2>2, <3>1
  <2> QED
    BY <2>1, <2>2
<1>4. r = [data |-> d.data, valid |-> [words EXCEPT ![Word(i)] = new]]
  <2>1. r = [d EXCEPT !.valid = [words EXCEPT ![Word(i)] = new]]
    BY <1>3 DEF SetValid
  <2> HIDE DEF words, new, r
  <2> QED
    BY <1>1, <2>1
<1>5. /\ r.data = d.data
      /\ r.valid = [words EXCEPT ![Word(i)] = new]
  <2> HIDE DEF words, new, r
  <2> QED
    BY <1>4
<1>6. wd \in S
  <2> HIDE DEF words, S
  <2> QED
    BY <1>2, <1>3
<1>7. new \in S
  <2> HIDE DEF words
  <2> QED
    BY <1>2, <1>6
<1>8. r.valid \in Seq(S) /\ Len(r.valid) = Len(words)
  <2> HIDE DEF words, S, new, r
  <2> QED
    BY <1>2, <1>3, <1>5, <1>7
<1>9. r \in ColumnData
  <2> HIDE DEF words, new, r
  <2> QED
    BY <1>1, <1>4, <1>5, <1>8 DEF ColumnData
<1>10. ASSUME NEW j \in Nat
       PROVE  IsValid(r, j) <=> IF j = i THEN b ELSE IsValid(d, j)
  <2>1. Word(j) \in Nat /\ Word(j) >= 1 /\ Bit(j) \in 0 .. Width - 1
    BY WordBitType
  <2>2. Word(i) = Word(j) /\ Bit(i) = Bit(j) => i = j
    BY OwnBit
  <2>3. IsValid(r, j) <=> Word(j) <= Len(words) /\ Bit(j) \in r.valid[Word(j)]
    <3> HIDE DEF words, r
    <3> QED
      BY <1>8 DEF IsValid
  <2>4. CASE Word(j) # Word(i)
    <3>1. j # i
      BY <2>4
    <3>2. Word(j) <= Len(words) => r.valid[Word(j)] = words[Word(j)]
      <4> HIDE DEF words, r, new
      <4> QED
        BY <1>3, <1>5, <2>1, <2>4
    <3>3. IsValid(r, j) <=> IsValid(d, j)
      <4> HIDE DEF words, r
      <4> QED
        BY <1>1, <1>3, <2>1, <2>3, <3>2 DEF IsValid
    <3> HIDE DEF r
    <3> QED
      BY <3>1, <3>3
  <2>5. CASE Word(j) = Word(i)
    <3>1. r.valid[Word(j)] = new /\ Word(j) <= Len(words)
      <4> HIDE DEF words, r, new
      <4> QED
        BY <1>2, <1>3, <1>5, <2>1, <2>5
    <3>2. IsValid(r, j) <=> Bit(j) \in new
      <4> HIDE DEF words, r, new
      <4> QED
        BY <2>3, <3>1
    <3>3. Bit(j) \in wd <=> IsValid(d, j)
      <4> HIDE DEF words
      <4> QED
        BY <1>1, <1>3, <2>1, <2>5 DEF IsValid
    <3>4. CASE j = i
      <4>1. Bit(j) \in new <=> b
        BY <3>4
      <4> HIDE DEF r, new
      <4> QED
        BY <3>2, <4>1, <3>4
    <3>5. CASE j # i
      <4>1. Bit(j) # Bit(i)
        BY <2>2, <2>5, <3>5
      <4>2. Bit(j) \in new <=> Bit(j) \in wd
        BY <4>1
      <4> HIDE DEF r, new, wd
      <4> QED
        BY <3>2, <3>3, <3>5, <4>2
    <3> QED
      BY <3>4, <3>5
  <2> QED
    BY <2>4, <2>5
<1> QED
  BY <1>5, <1>9, <1>10
-----------------------------------------------------------------------------
(* Edits of a copy *)

\* What push and set make of the rows.
LEMMA PushIs ==
    ASSUME ColumnConstants, NEW d \in ColumnData, NEW v \in Scalars
    PROVE  /\ Push(d, v) \in ColumnData
           /\ Push(d, v).data = Append(d.data, v)
           /\ \A j \in Nat : IsValid(Push(d, v), j) <=> j = Len(d.data) \/ IsValid(d, j)
<1> DEFINE e == [d EXCEPT !.data = Append(@, v)]
<1>1. e \in ColumnData /\ e.data = Append(d.data, v) /\ e.valid = d.valid
  BY DEF ColumnData
<1>2. Len(d.data) \in Nat
  BY DEF ColumnData
<1>3. Push(d, v) = SetValid(e, Len(d.data), TRUE)
  BY DEF Push
<1>4. \A j \in Nat : IsValid(e, j) <=> IsValid(d, j)
  BY <1>1 DEF IsValid
<1> HIDE DEF e
<1>5. /\ SetValid(e, Len(d.data), TRUE) \in ColumnData
      /\ SetValid(e, Len(d.data), TRUE).data = e.data
      /\ \A j \in Nat : IsValid(SetValid(e, Len(d.data), TRUE), j) <=>
                            IF j = Len(d.data) THEN TRUE ELSE IsValid(e, j)
  BY <1>1, <1>2, SetValidIs
<1> QED
  BY <1>1, <1>3, <1>4, <1>5

\* set writes one row, and pads a gap with rows that are not valid.
LEMMA SetIs ==
    ASSUME ColumnConstants, NEW d \in ColumnData, NEW i \in Nat, NEW v \in Scalars
    PROVE  /\ Set(d, i, v) \in ColumnData
           /\ Len(Set(d, i, v).data) = Longer(d.data, i + 1)
           /\ \A j \in 1 .. Longer(d.data, i + 1) :
                  Set(d, i, v).data[j] = IF j = i + 1 THEN v
                                         ELSE IF j <= Len(d.data) THEN d.data[j] ELSE Default
           /\ \A j \in Nat : IsValid(Set(d, i, v), j) <=> j = i \/ IsValid(d, j)
<1> DEFINE n == Longer(d.data, i + 1)
           rows == Padded(d.data, n, Default)
           e == [d EXCEPT !.data = [rows EXCEPT ![i + 1] = v]]
<1>1. d.data \in Seq(Scalars) /\ Default \in Scalars
  BY DEF ColumnData, ColumnConstants
<1>2. n \in Nat /\ i + 1 \in 1 .. n
  BY <1>1 DEF Longer
<1>3. Set(d, i, v) = SetValid(e, i, TRUE)
  BY DEF Set
<1>4. e.data = [rows EXCEPT ![i + 1] = v] /\ e.valid = d.valid
      /\ e = [data |-> e.data, valid |-> d.valid] /\ d.valid \in Seq(SUBSET (0 .. Width - 1))
  BY DEF ColumnData
<1> HIDE DEF e, n
<1>5. /\ rows \in Seq(Scalars) /\ Len(rows) = n
      /\ \A j \in 1 .. n : rows[j] = IF j <= Len(d.data) THEN d.data[j] ELSE Default
  <2>1. rows \in Seq(Scalars)
    BY <1>1, <1>2, PaddedIs, Zenon
  <2>2. Len(rows) = n
    BY <1>1, <1>2, PaddedIs, SMT
  <2>3. \A j \in 1 .. n : rows[j] = IF j <= Len(d.data) THEN d.data[j] ELSE Default
    <3>1. ASSUME NEW s \in Seq(Scalars), NEW k \in Nat
          PROVE  \A j \in 1 .. k :
                     Padded(s, k, Default)[j] = IF j <= Len(s) THEN s[j] ELSE Default
      BY DEF Padded
    <3> QED
      BY <1>1, <1>2, <3>1, Zenon
  <2> QED
    BY <2>1, <2>2, <2>3
<1> HIDE DEF rows
<1>6. /\ e.data \in Seq(Scalars) /\ Len(e.data) = n
      /\ \A j \in 1 .. n : e.data[j] = IF j = i + 1 THEN v ELSE rows[j]
  BY <1>2, <1>4, <1>5
<1>7. e \in ColumnData
  BY <1>4, <1>6 DEF ColumnData
<1>8. \A j \in Nat : IsValid(e, j) <=> IsValid(d, j)
  BY <1>4 DEF IsValid
<1>9. /\ SetValid(e, i, TRUE) \in ColumnData
      /\ SetValid(e, i, TRUE).data = e.data
      /\ \A j \in Nat : IsValid(SetValid(e, i, TRUE), j) <=> IF j = i THEN TRUE ELSE IsValid(e, j)
  BY <1>7, SetValidIs
<1>10. \A j \in Nat : IsValid(Set(d, i, v), j) <=> j = i \/ IsValid(d, j)
  BY <1>3, <1>8, <1>9
<1>11. \A j \in 1 .. n :
           Set(d, i, v).data[j] = IF j = i + 1 THEN v
                                  ELSE IF j <= Len(d.data) THEN d.data[j] ELSE Default
  BY <1>3, <1>5, <1>6, <1>9
<1>12. Set(d, i, v) \in ColumnData /\ Len(Set(d, i, v).data) = n
  BY <1>3, <1>6, <1>9
<1> QED
  BY <1>10, <1>11, <1>12 DEF n

\* An edit of a copy that mirrors what was written leaves one that does, and
\* that no row is lost by a word added or a gap filled.
LEMMA PushMirrors ==
    ASSUME ColumnConstants, ColumnTypeOK, NEW w \in Writers, NEW v \in Scalars, EditPush(w, v),
           RowsFit(copy[w]), Mirrors(copy[w])
    PROVE  RowsFit(copy[w])' /\ Mirrors(copy[w])' /\ copy'[w] \in ColumnData
<1> DEFINE d == copy[w]
           n == Len(d.data)
           r == Push(d, v)
<1>1. d \in ColumnData /\ d.data \in Seq(Scalars) /\ n \in Nat /\ n \in Indices
  BY DEF ColumnTypeOK, ColumnData, EditPush
<1>2. /\ copy'[w] = r
      /\ written' = [written EXCEPT ![n] = v] /\ marked' = marked \cup {n}
  BY DEF ColumnTypeOK, EditPush
<1>3. Indices \subseteq Nat /\ MaxRows \in Nat /\ Absent # v /\ written \in [Indices -> Scalars \cup {Absent}]
      /\ \A i \in Indices : i < MaxRows
  BY DEF Indices, ColumnConstants, ColumnTypeOK
<1>4. /\ r \in ColumnData /\ r.data = Append(d.data, v)
      /\ \A j \in Nat : IsValid(r, j) <=> j = n \/ IsValid(d, j)
  BY <1>1, PushIs
<1>5. /\ \A i \in Indices : i < n <=> \E j \in Indices : j >= i /\ written[j] # Absent
      /\ \A i \in Indices : i < n => d.data[i + 1] = IF written[i] = Absent THEN Default ELSE written[i]
      /\ \A i \in Indices : IsValid(d, i) <=> i \in marked
  BY DEF Mirrors, Exists
<1> HIDE DEF d, r
<1>6. Len(r.data) = n + 1
      /\ \A i \in Nat : i < n + 1 => r.data[i + 1] = IF i = n THEN v ELSE d.data[i + 1]
  BY <1>1, <1>4
<1> HIDE DEF n
<1>7. \A i \in Indices : written'[i] = IF i = n THEN v ELSE written[i]
  BY <1>2, <1>3
<1>8. \A i \in Indices : i < n + 1 <=> \E j \in Indices : j >= i /\ written'[j] # Absent
  <2> SUFFICES ASSUME NEW i \in Indices
               PROVE  i < n + 1 <=> \E j \in Indices : j >= i /\ written'[j] # Absent
    OBVIOUS
  <2>1. i \in Nat /\ (i < n + 1 <=> i <= n)
    BY <1>1, <1>3
  <2>2. i < n <=> \E j \in Indices : j >= i /\ written[j] # Absent
    BY <1>5
  <2>3. CASE i <= n
    <3>1. n \in Indices /\ n >= i /\ written'[n] # Absent
      BY <1>1, <1>3, <1>7, <2>1, <2>3
    <3> QED
      BY <2>1, <2>3, <3>1
  <2>4. CASE ~(i <= n)
    <3>1. ~(i < n) /\ \A j \in Indices : j >= i => j # n
      BY <1>1, <1>3, <2>1, <2>4
    <3>2. \A j \in Indices : j >= i => written'[j] = written[j]
      BY <1>7, <3>1
    <3> QED
      BY <2>1, <2>2, <2>4, <3>1, <3>2
  <2> QED
    BY <2>3, <2>4
<1>9. ASSUME NEW i \in Indices, i < n + 1
      PROVE  r.data[i + 1] = IF written'[i] = Absent THEN Default ELSE written'[i]
  <2>1. CASE i = n
    BY <1>3, <1>6, <1>7, <1>9, <2>1
  <2>2. CASE i # n
    <3>1. i < n
      BY <1>1, <1>3, <1>9, <2>2
    <3> QED
      BY <1>3, <1>5, <1>6, <1>7, <1>9, <2>2, <3>1
  <2> QED
    BY <2>1, <2>2
<1>10. \A i \in Indices : IsValid(r, i) <=> i \in marked'
  BY <1>2, <1>3, <1>4, <1>5
<1>11. Mirrors(copy[w])'
  BY <1>2, <1>6, <1>8, <1>9, <1>10 DEF Mirrors, Exists
<1>12. RowsFit(copy[w])'
  BY <1>1, <1>2, <1>3, <1>6 DEF RowsFit
<1> QED
  BY <1>2, <1>4, <1>11, <1>12

\* A copy that mirrors all writes still does after a set.
LEMMA SetMirrors ==
    ASSUME ColumnConstants, ColumnTypeOK, NEW w \in Writers, NEW k \in Indices, NEW v \in Scalars,
           EditSet(w, k, v), RowsFit(copy[w]), Mirrors(copy[w])
    PROVE  RowsFit(copy[w])' /\ Mirrors(copy[w])' /\ copy'[w] \in ColumnData
<1> DEFINE d == copy[w]
           n == Len(d.data)
           m == Longer(d.data, k + 1)
           r == Set(d, k, v)
<1>1. d \in ColumnData /\ d.data \in Seq(Scalars) /\ n \in Nat
  BY DEF ColumnTypeOK, ColumnData
<1>2. /\ copy'[w] = r
      /\ written' = [written EXCEPT ![k] = v] /\ marked' = marked \cup {k}
  BY DEF ColumnTypeOK, EditSet
<1>3. Indices \subseteq Nat /\ MaxRows \in Nat /\ Absent # v /\ written \in [Indices -> Scalars \cup {Absent}]
      /\ \A i \in Indices : i < MaxRows
  BY DEF Indices, ColumnConstants, ColumnTypeOK
<1>4. /\ r \in ColumnData /\ Len(r.data) = m
      /\ \A j \in 1 .. m : r.data[j] = IF j = k + 1 THEN v
                                       ELSE IF j <= n THEN d.data[j] ELSE Default
      /\ \A j \in Nat : IsValid(r, j) <=> j = k \/ IsValid(d, j)
  <2>1. k \in Nat
    BY <1>3
  <2>2. ASSUME NEW e \in ColumnData
        PROVE  \A j \in 1 .. Longer(e.data, k + 1) :
                   Set(e, k, v).data[j] = IF j = k + 1 THEN v
                                          ELSE IF j <= Len(e.data) THEN e.data[j] ELSE Default
    BY <2>1, SetIs
  <2>3. ASSUME NEW e \in ColumnData
        PROVE  \A j \in Nat : IsValid(Set(e, k, v), j) <=> j = k \/ IsValid(e, j)
    BY <2>1, SetIs
  <2>4. ASSUME NEW e \in ColumnData
        PROVE  Set(e, k, v) \in ColumnData /\ Len(Set(e, k, v).data) = Longer(e.data, k + 1)
    BY <2>1, SetIs
  <2> QED
    BY <1>1, <2>2, <2>3, <2>4, Zenon
<1>5. /\ \A i \in Indices : i < n <=> \E j \in Indices : j >= i /\ written[j] # Absent
      /\ \A i \in Indices : i < n => d.data[i + 1] = IF written[i] = Absent THEN Default ELSE written[i]
      /\ \A i \in Indices : IsValid(d, i) <=> i \in marked
      /\ n <= MaxRows
  BY DEF Mirrors, Exists, RowsFit
<1>6. m = IF k + 1 > n THEN k + 1 ELSE n
  BY DEF Longer
<1> HIDE DEF d, n, m, r
<1>7. \A i \in Indices : written'[i] = IF i = k THEN v ELSE written[i]
  BY <1>2, <1>3
<1>8. \A i \in Indices : i < m <=> \E j \in Indices : j >= i /\ written'[j] # Absent
  <2> SUFFICES ASSUME NEW i \in Indices
               PROVE  i < m <=> \E j \in Indices : j >= i /\ written'[j] # Absent
    OBVIOUS
  <2>1. i \in Nat /\ k \in Nat /\ (i < m <=> i <= k \/ i < n)
    BY <1>1, <1>3, <1>6
  <2>2. i < n <=> \E j \in Indices : j >= i /\ written[j] # Absent
    BY <1>5
  <2>3. CASE i <= k
    <3>1. k >= i /\ written'[k] # Absent
      BY <1>3, <1>7, <2>1, <2>3
    <3> QED
      BY <2>1, <2>3, <3>1
  <2>4. CASE ~(i <= k)
    <3>1. \A j \in Indices : j >= i => j # k
      BY <1>3, <2>1, <2>4
    <3>2. \A j \in Indices : j >= i => written'[j] = written[j]
      BY <1>7, <3>1
    <3> QED
      BY <2>1, <2>2, <2>4, <3>2
  <2> QED
    BY <2>3, <2>4
<1>9. ASSUME NEW i \in Indices, i < m
      PROVE  r.data[i + 1] = IF written'[i] = Absent THEN Default ELSE written'[i]
  <2>1. i + 1 \in 1 .. m /\ (i + 1 <= n <=> i < n) /\ (i + 1 = k + 1 <=> i = k)
    BY <1>1, <1>3, <1>6, <1>9
  <2>2. ~(i < n) => written[i] = Absent
    BY <1>1, <1>3, <1>5
  <2>3. r.data[i + 1] = IF i = k THEN v ELSE IF i < n THEN d.data[i + 1] ELSE Default
    BY <1>4, <2>1
  <2> QED
    BY <1>3, <1>5, <1>7, <2>2, <2>3
<1>10. \A i \in Indices : IsValid(r, i) <=> i \in marked'
  BY <1>2, <1>3, <1>4, <1>5
<1>11. Mirrors(copy[w])'
  BY <1>2, <1>4, <1>8, <1>9, <1>10 DEF Mirrors, Exists
<1>12. m <= MaxRows
  BY <1>1, <1>3, <1>5, <1>6
<1>13. RowsFit(copy[w])'
  BY <1>2, <1>4, <1>12 DEF RowsFit
<1> QED
  BY <1>2, <1>4, <1>11, <1>13

\* ... and after a set_valid.
LEMMA SetValidMirrors ==
    ASSUME ColumnConstants, ColumnTypeOK, NEW w \in Writers, NEW k \in Indices, NEW b \in BOOLEAN,
           EditSetValid(w, k, b), RowsFit(copy[w]), Mirrors(copy[w])
    PROVE  RowsFit(copy[w])' /\ Mirrors(copy[w])' /\ copy'[w] \in ColumnData
<1> DEFINE d == copy[w]
           r == SetValid(d, k, b)
<1>1. d \in ColumnData
  BY DEF ColumnTypeOK
<1>2. /\ copy'[w] = r /\ written' = written
      /\ marked' = IF b THEN marked \cup {k} ELSE marked \ {k}
  BY DEF ColumnTypeOK, EditSetValid
<1>3. Indices \subseteq Nat
  BY DEF Indices, ColumnConstants
<1>4. /\ r \in ColumnData /\ r.data = d.data
      /\ \A j \in Nat : IsValid(r, j) <=> IF j = k THEN b ELSE IsValid(d, j)
  BY <1>1, <1>3, SetValidIs
<1>5. \A i \in Indices : IsValid(d, i) <=> i \in marked
  BY DEF Mirrors
<1>6. \A i \in Indices : IsValid(r, i) <=> i \in marked'
  <2> HIDE DEF d, r
  <2> QED
    BY <1>2, <1>3, <1>4, <1>5
<1>7. Mirrors(copy[w])'
  <2> HIDE DEF r
  <2> QED
    BY <1>2, <1>4, <1>6 DEF Mirrors, Exists
<1>8. RowsFit(copy[w])'
  <2> HIDE DEF r
  <2> QED
    BY <1>2, <1>4 DEF RowsFit
<1> QED
  BY <1>2, <1>4, <1>7, <1>8
-----------------------------------------------------------------------------
(* The lock and the swap *)

\* Rows that mirror what was written read and iterate as expected.
LEMMA MirrorsHolds ==
    ASSUME ColumnConstants, NEW d \in ColumnData, RowsFit(d), Mirrors(d)
    PROVE  Holds(d)
<1>1. Len(d.data) \in Nat /\ Indices = 0 .. MaxRows - 1 /\ MaxRows \in Nat
  BY DEF ColumnData, Indices, ColumnConstants
<1>2. ASSUME NEW i \in Indices
      PROVE  GetRow(d, i) = Expected(i)
  BY <1>1, <1>2 DEF GetRow, Expected, Mirrors
<1>3. ASSUME NEW i \in 1 .. Len(d.data)
      PROVE  Rows(d)[i] = Expected(i - 1)
  <2>1. i - 1 \in Indices
    BY <1>1 DEF RowsFit
  <2>2. Rows(d)[i] = GetRow(d, i - 1)
    BY DEF Rows
  <2> QED
    BY <1>2, <2>1, <2>2
<1>4. DOMAIN Rows(d) = 1 .. Len(d.data)
  BY DEF Rows
<1> QED
  BY <1>2, <1>3, <1>4 DEF Holds

\* At first there are no rows, no bits and no writer.
LEMMA ColumnInitially == ASSUME ColumnConstants PROVE ColumnInit => ColumnInv
<1> SUFFICES ASSUME ColumnInit PROVE ColumnInv
  OBVIOUS
<1>1. NoRows \in ColumnData /\ Len(NoRows.data) = 0 /\ Len(NoRows.valid) = 0
  BY DEF NoRows, ColumnData
<1>2. ColumnTypeOK
  BY <1>1 DEF ColumnInit, ColumnTypeOK
<1>3. LockOK
  BY DEF ColumnInit, LockOK, Inside
<1>4. RowsFit(NoRows)
  BY <1>1 DEF RowsFit, ColumnConstants
<1>5. Mirrors(NoRows)
  <2>1. \A i \in Indices : i \in Nat
    BY DEF Indices, ColumnConstants
  <2>2. \A i \in Indices : Word(i) \in Nat /\ Word(i) >= 1
    BY <2>1, WordBitType
  <2>3. \A i \in Indices : ~IsValid(NoRows, i)
    BY <1>1, <2>2 DEF IsValid
  <2>4. \A i \in Indices : ~Exists(i)
    BY DEF ColumnInit, Exists
  <2>5. \A i \in Indices : ~(i < Len(NoRows.data))
    BY <1>1, <2>1
  <2> QED
    BY <2>3, <2>4, <2>5 DEF Mirrors, ColumnInit
<1>6. RowsOK
  BY <1>4, <1>5 DEF RowsOK, ColumnInit
<1> QED
  BY <1>2, <1>3, <1>6 DEF ColumnInv

\* An edit is made by the one writer inside, on a copy that mirrors all.
LEMMA EditInv ==
    ASSUME ColumnConstants, ColumnInv, NEW w \in Writers, wstate[w] = "editing",
           NEW d, copy' = [copy EXCEPT ![w] = d],
           UNCHANGED <<data, write_guard, wstate>>,
           written' \in [Indices -> Scalars \cup {Absent}], marked' \subseteq Indices,
           RowsFit(copy[w])' /\ Mirrors(copy[w])' /\ copy'[w] \in ColumnData
    PROVE  ColumnInv'
<1>1. copy \in [Writers -> ColumnData]
  BY DEF ColumnInv, ColumnTypeOK
<1>2. copy' \in [Writers -> ColumnData] /\ \A v \in Writers : v # w => copy'[v] = copy[v]
  BY <1>1
<1>3. ColumnTypeOK'
  BY <1>2 DEF ColumnInv, ColumnTypeOK
<1>4. LockOK'
  BY DEF ColumnInv, LockOK, Inside
<1>5. \A v \in Writers : wstate[v] = "editing" => v = w
  BY DEF ColumnInv, LockOK, Inside
<1>6. RowsFit(data)' /\ \A v \in Writers : RowsFit(copy[v])'
  BY <1>2 DEF ColumnInv, RowsOK, RowsFit
<1>7. \A v \in Writers : wstate'[v] = "editing" => Mirrors(copy[v])'
  BY <1>5
<1>8. RowsOK'
  BY <1>6, <1>7 DEF RowsOK
<1> QED
  BY <1>3, <1>4, <1>8 DEF ColumnInv

\* Every step of a writer keeps the invariant.
LEMMA ColumnKept == ASSUME ColumnConstants PROVE ColumnInv /\ [ColumnNext]_columnVars => ColumnInv'
<1> SUFFICES ASSUME ColumnInv, [ColumnNext]_columnVars PROVE ColumnInv'
  OBVIOUS
<1> USE DEF ColumnInv
<1>1. NoRows \in ColumnData /\ RowsFit(NoRows)
  BY DEF NoRows, ColumnData, RowsFit, ColumnConstants
<1>2. ASSUME NEW w \in Writers, AcquireLock(w)
      PROVE  ColumnInv'
  <2>1. ColumnTypeOK'
    BY <1>2 DEF ColumnTypeOK, AcquireLock
  <2>2. LockOK'
    BY <1>2 DEF ColumnTypeOK, LockOK, Inside, AcquireLock, GuardFree
  <2>3. \A v \in Writers : wstate'[v] = "editing" <=> wstate[v] = "editing"
    BY <1>2 DEF ColumnTypeOK, AcquireLock
  <2>4. RowsOK'
    BY <1>2, <2>3 DEF RowsOK, AcquireLock, RowsFit, Mirrors, Exists
  <2> QED
    BY <2>1, <2>2, <2>4
<1>3. ASSUME NEW w \in Writers, AcquirePanics(w)
      PROVE  ColumnInv'
  <2>1. ColumnTypeOK'
    BY <1>3 DEF ColumnTypeOK, AcquirePanics
  <2>2. LockOK'
    BY <1>3 DEF ColumnTypeOK, LockOK, Inside, AcquirePanics
  <2>3. \A v \in Writers : wstate'[v] = "editing" <=> wstate[v] = "editing"
    BY <1>3 DEF ColumnTypeOK, AcquirePanics
  <2>4. RowsOK'
    BY <1>3, <2>3 DEF RowsOK, AcquirePanics, RowsFit, Mirrors, Exists
  <2> QED
    BY <2>1, <2>2, <2>4
<1>4. ASSUME NEW w \in Writers, Clone(w)
      PROVE  ColumnInv'
  <2>1. copy' = [copy EXCEPT ![w] = data] /\ copy'[w] = data
    BY <1>4 DEF Clone, ColumnTypeOK
  <2>2. ColumnTypeOK'
    BY <1>4 DEF ColumnTypeOK, Clone
  <2>3. LockOK'
    BY <1>4 DEF ColumnTypeOK, LockOK, Inside, Clone
  <2>4. \A v \in Writers : wstate[v] # "editing"
    BY <1>4 DEF LockOK, Inside, Clone
  <2>5. Mirrors(data)
    BY <2>4 DEF RowsOK
  <2>6. \A v \in Writers : wstate'[v] = "editing" => v = w
    BY <1>4, <2>4 DEF ColumnTypeOK, Clone
  <2>7. Mirrors(copy[w])'
    BY <1>4, <2>1, <2>5 DEF Clone, Mirrors, Exists
  <2>8. RowsFit(data)' /\ \A v \in Writers : RowsFit(copy[v])'
    BY <1>4 DEF RowsOK, Clone, RowsFit, ColumnTypeOK
  <2>9. wstate'[w] = "editing"
    BY <1>4 DEF ColumnTypeOK, Clone
  <2>10. RowsOK'
    BY <2>6, <2>7, <2>8, <2>9 DEF RowsOK
  <2> QED
    BY <2>2, <2>3, <2>10
<1>5. ASSUME NEW w \in Writers, SwapIn(w)
      PROVE  ColumnInv'
  <2>1. ColumnTypeOK'
    BY <1>1, <1>5 DEF ColumnTypeOK, SwapIn
  <2>2. LockOK'
    BY <1>5 DEF ColumnTypeOK, LockOK, Inside, SwapIn
  <2>3. Mirrors(copy[w]) /\ RowsFit(copy[w])
    BY <1>5 DEF RowsOK, SwapIn
  <2>4. Mirrors(data)' /\ RowsFit(data)'
    BY <1>5, <2>3 DEF SwapIn, Mirrors, Exists, RowsFit
  <2>5. \A v \in Writers : RowsFit(copy[v])'
    BY <1>1, <1>5 DEF RowsOK, SwapIn, RowsFit, ColumnTypeOK
  <2>6. \A v \in Writers : wstate'[v] # "editing"
    BY <1>5 DEF LockOK, Inside, SwapIn, ColumnTypeOK
  <2>7. RowsOK'
    BY <2>4, <2>5, <2>6 DEF RowsOK
  <2> QED
    BY <2>1, <2>2, <2>7
<1>6. ASSUME NEW w \in Writers, ReleaseLock(w)
      PROVE  ColumnInv'
  <2>1. ColumnTypeOK'
    BY <1>6 DEF ColumnTypeOK, ReleaseLock
  <2>2. LockOK'
    BY <1>6 DEF ColumnTypeOK, LockOK, Inside, ReleaseLock
  <2>3. \A v \in Writers : wstate'[v] = "editing" <=> wstate[v] = "editing"
    BY <1>6 DEF ColumnTypeOK, ReleaseLock
  <2>4. RowsOK'
    BY <1>6, <2>3 DEF RowsOK, ReleaseLock, RowsFit, Mirrors, Exists
  <2> QED
    BY <2>1, <2>2, <2>4
<1>7. ASSUME NEW w \in Writers, NEW v \in Scalars, EditPush(w, v)
      PROVE  ColumnInv'
  <2>1. wstate[w] = "editing" /\ RowsFit(copy[w]) /\ Mirrors(copy[w])
    BY <1>7 DEF EditPush, RowsOK
  <2>2. RowsFit(copy[w])' /\ Mirrors(copy[w])' /\ copy'[w] \in ColumnData
    BY <1>7, <2>1, PushMirrors
  <2>3. written' \in [Indices -> Scalars \cup {Absent}] /\ marked' \subseteq Indices
    BY <1>7 DEF EditPush, ColumnTypeOK
  <2>4. /\ copy' = [copy EXCEPT ![w] = Push(copy[w], v)]
        /\ UNCHANGED <<data, write_guard, wstate>>
    BY <1>7 DEF EditPush
  <2> QED
    BY <2>1, <2>2, <2>3, <2>4, EditInv
<1>8. ASSUME NEW w \in Writers, NEW i \in Indices, NEW v \in Scalars, EditSet(w, i, v)
      PROVE  ColumnInv'
  <2>1. wstate[w] = "editing" /\ RowsFit(copy[w]) /\ Mirrors(copy[w])
    BY <1>8 DEF EditSet, RowsOK
  <2>2. RowsFit(copy[w])' /\ Mirrors(copy[w])' /\ copy'[w] \in ColumnData
    BY <1>8, <2>1, SetMirrors
  <2>3. written' \in [Indices -> Scalars \cup {Absent}] /\ marked' \subseteq Indices
    BY <1>8 DEF EditSet, ColumnTypeOK
  <2>4. /\ copy' = [copy EXCEPT ![w] = Set(copy[w], i, v)]
        /\ UNCHANGED <<data, write_guard, wstate>>
    BY <1>8 DEF EditSet
  <2> QED
    BY <2>1, <2>2, <2>3, <2>4, EditInv
<1>9. ASSUME NEW w \in Writers, NEW i \in Indices, NEW b \in BOOLEAN, EditSetValid(w, i, b)
      PROVE  ColumnInv'
  <2>1. wstate[w] = "editing" /\ RowsFit(copy[w]) /\ Mirrors(copy[w])
    BY <1>9 DEF EditSetValid, RowsOK
  <2>2. RowsFit(copy[w])' /\ Mirrors(copy[w])' /\ copy'[w] \in ColumnData
    BY <1>9, <2>1, SetValidMirrors
  <2>3. written' \in [Indices -> Scalars \cup {Absent}] /\ marked' \subseteq Indices
    BY <1>9 DEF EditSetValid, ColumnTypeOK
  <2>4. /\ copy' = [copy EXCEPT ![w] = SetValid(copy[w], i, b)]
        /\ UNCHANGED <<data, write_guard, wstate>>
    BY <1>9 DEF EditSetValid
  <2> QED
    BY <2>1, <2>2, <2>3, <2>4, EditInv
<1>10. ASSUME UNCHANGED columnVars
       PROVE  ColumnInv'
  BY <1>10 DEF columnVars, ColumnTypeOK, LockOK, Inside, RowsOK, RowsFit, Mirrors, Exists
<1> QED
  BY <1>2, <1>3, <1>4, <1>5, <1>6, <1>7, <1>8, <1>9, <1>10 DEF ColumnNext

\* What readers find while no writer is in, and the copy of the one that is,
\* are the effect of all writes: column.rs, push, set, set_valid and the swap
\* under acquire_lock, over any number of words and of writers.
THEOREM WritesStay == ASSUME ColumnConstants PROVE ColumnSpec => []RowsAsWritten
<1>1. ColumnInit => ColumnInv
  BY ColumnInitially
<1>2. ColumnInv /\ [ColumnNext]_columnVars => ColumnInv'
  BY ColumnKept
<1>3. ColumnInv => RowsAsWritten
  <2> SUFFICES ASSUME ColumnInv PROVE RowsAsWritten
    OBVIOUS
  <2>1. data \in ColumnData /\ \A w \in Writers : copy[w] \in ColumnData
    BY DEF ColumnInv, ColumnTypeOK
  <2>2. ~write_guard => Holds(data)
    BY <2>1, MirrorsHolds DEF ColumnInv, RowsOK, LockOK, Inside
  <2>3. \A w \in Writers : wstate[w] = "editing" => Holds(copy[w])
    BY <2>1, MirrorsHolds DEF ColumnInv, RowsOK
  <2> QED
    BY <2>2, <2>3 DEF RowsAsWritten
<1> QED
  BY <1>1, <1>2, <1>3, PTL DEF ColumnSpec
-----------------------------------------------------------------------------
(* HASH MAP *)

\* A set of numbers has a least one.
LEMMA MinIs ==
    ASSUME NEW S, S \subseteq Nat, S # {}
    PROVE  Min(S) \in S /\ \A i \in S : Min(S) <= i
<1>1. PICK m \in S : \A y \in S : ~ (<<y, m>> \in OpToRel(<, Nat))
  BY NatLessThanWellFounded, WFMin
<1>2. \A y \in S : m <= y
  <2> SUFFICES ASSUME NEW y \in S PROVE m <= y
    OBVIOUS
  <2>1. y \in Nat /\ m \in Nat
    OBVIOUS
  <2>2. ~(y < m)
    BY <1>1, <2>1 DEF OpToRel
  <2> QED
    BY <2>1, <2>2
<1>3. \E x \in S : \A y \in S : x <= y
  BY <1>2
<1> QED
  BY <1>3, Zenon DEF Min
-----------------------------------------------------------------------------
(* Powers of two *)

\* What the definition says of PowerOfTwo.
LEMMA PowerIs ==
    /\ PowerOfTwo \in [Nat -> Nat]
    /\ PowerOfTwo[0] = 1
    /\ \A n \in Nat : PowerOfTwo[n + 1] = 2 * PowerOfTwo[n]
<1> DEFINE step == [x \in Nat \X Nat |-> 2 * x[2]]
           Is(f) == f = [n \in Nat |-> IF n = 0 THEN 1 ELSE 2 * f[n - 1]]
<1>1. step \in [Nat \X Nat -> Nat] /\ \A n, m \in Nat : step[<<n, m>>] = 2 * m
  OBVIOUS
<1>2. PICK f \in [Nat -> Nat] : f[0] = 1 /\ \A n \in Nat : f[n + 1] = step[<<n, f[n]>>]
  <2>1. 1 \in Nat
    OBVIOUS
  <2> HIDE DEF step
  <2>2. PICK f : Recursion(f, Nat, 1, step)
    BY <1>1, <2>1, RecursionExists, Zenon
  <2> QED
    BY <2>2 DEF Recursion
<1>3. \A n \in Nat : f[n + 1] = 2 * f[n]
  <2> HIDE DEF step
  <2> QED
    BY <1>1, <1>2
<1>4. ASSUME NEW n \in Nat
      PROVE  f[n] = IF n = 0 THEN 1 ELSE 2 * f[n - 1]
  <2>1. CASE n = 0
    BY <1>2, <2>1
  <2>2. CASE n # 0
    <3>1. n - 1 \in Nat /\ (n - 1) + 1 = n
      BY <2>2
    <3>2. f[(n - 1) + 1] = 2 * f[n - 1]
      BY <1>3, <3>1
    <3> QED
      BY <2>2, <3>1, <3>2
  <2> QED
    BY <2>1, <2>2
<1>5. Is(f)
  BY <1>4
<1>6. Is(PowerOfTwo)
  <2>1. PowerOfTwo = CHOOSE e : Is(e)
    BY DEF PowerOfTwo
  <2> HIDE DEF Is
  <2> QED
    BY <1>5, <2>1
<1>7. \A n \in Nat : PowerOfTwo[n] = IF n = 0 THEN 1 ELSE 2 * PowerOfTwo[n - 1]
  BY <1>6
<1>8. \A n \in Nat : PowerOfTwo[n + 1] = 2 * PowerOfTwo[n]
  <2> SUFFICES ASSUME NEW n \in Nat PROVE PowerOfTwo[n + 1] = 2 * PowerOfTwo[n]
    OBVIOUS
  <2>1. n + 1 \in Nat /\ n + 1 # 0 /\ (n + 1) - 1 = n
    OBVIOUS
  <2>2. PowerOfTwo[n + 1] = IF n + 1 = 0 THEN 1 ELSE 2 * PowerOfTwo[(n + 1) - 1]
    BY <1>7, <2>1
  <2> QED
    BY <2>1, <2>2
<1>9. PowerOfTwo[0] = 1
  BY <1>7
<1>10. \A n \in Nat : PowerOfTwo[n] \in Nat
  <2> DEFINE T == {n \in Nat : PowerOfTwo[n] \in Nat}
  <2>1. 0 \in T /\ \A n \in Nat : n \in T => n + 1 \in T
    BY <1>8, <1>9
  <2>2. \A n \in Nat : n \in T
    <3> HIDE DEF T
    <3> QED
      BY <2>1, Induction
  <2> QED
    BY <2>2
<1>11. PowerOfTwo \in [Nat -> Nat]
  <2>1. PowerOfTwo = [n \in Nat |-> PowerOfTwo[n]]
    BY <1>6
  <2> QED
    BY <1>10, <2>1
<1> QED
  BY <1>8, <1>9, <1>11

\* Powers grow faster than their exponents and from 8 on with an exponent of 3.
LEMMA PowerGrows ==
    \A n \in Nat : PowerOfTwo[n] > n /\ (PowerOfTwo[n] >= 8 <=> n >= 3)
<1> DEFINE T == {n \in Nat : PowerOfTwo[n] > n /\ (PowerOfTwo[n] >= 8 <=> n >= 3)}
<1>1. 0 \in T
  BY PowerIs
<1>2. ASSUME NEW n \in Nat, n \in T
      PROVE  n + 1 \in T
  <2>1. PowerOfTwo[n] \in Nat /\ PowerOfTwo[n + 1] = 2 * PowerOfTwo[n]
    BY PowerIs
  <2>2. PowerOfTwo[0] = 1 /\ PowerOfTwo[1] = 2 /\ PowerOfTwo[2] = 4 /\ PowerOfTwo[3] = 8
    <3>1. PowerOfTwo[0 + 1] = 2 * PowerOfTwo[0] /\ PowerOfTwo[1 + 1] = 2 * PowerOfTwo[1]
          /\ PowerOfTwo[2 + 1] = 2 * PowerOfTwo[2]
      BY PowerIs
    <3> QED
      BY <3>1, PowerIs
  <2>3. n = 0 \/ n = 1 \/ n = 2 \/ n >= 3
    OBVIOUS
  <2>4. PowerOfTwo[n] > n /\ (PowerOfTwo[n] >= 8 <=> n >= 3)
    BY <1>2
  <2>5. PowerOfTwo[n + 1] > n + 1
    BY <2>1, <2>4
  <2>6. PowerOfTwo[n + 1] >= 8 <=> n + 1 >= 3
    BY <2>1, <2>2, <2>3, <2>4
  <2> QED
    BY <2>5, <2>6
<1>3. \A n \in Nat : n \in T
  <2> HIDE DEF T
  <2> QED
    BY <1>1, <1>2, Induction
<1> QED
  BY <1>3

\* next_power_of_two is a power of two and not smaller; the capacity taken from it
\* is one of those TypeOK allows.
LEMMA CapacityIs ==
    ASSUME NEW n \in Nat
    PROVE  /\ MaxOf(NextPowerOfTwo(n), 8) \in Nat
           /\ MaxOf(NextPowerOfTwo(n), 8) >= n /\ MaxOf(NextPowerOfTwo(n), 8) >= 8
           /\ MaxOf(NextPowerOfTwo(n), 8) \in
                  {PowerOfTwo[i] : i \in 3 .. MaxOf(NextPowerOfTwo(n), 8)}
<1> DEFINE S == {m \in {PowerOfTwo[i] : i \in 0 .. n} : m >= n}
           p == NextPowerOfTwo(n)
           cap == MaxOf(p, 8)
<1>1. S \subseteq Nat
  BY PowerIs
<1>2. PowerOfTwo[n] \in S
  BY PowerIs, PowerGrows
<1>3. p \in S
  <2> HIDE DEF S
  <2>1. Min(S) \in S
    BY <1>1, <1>2, MinIs
  <2> QED
    BY <2>1 DEF NextPowerOfTwo, S
<1>4. PICK i \in 0 .. n : p = PowerOfTwo[i] /\ p >= n
  BY <1>3
<1> HIDE DEF p, S
<1>5. p \in Nat /\ i \in Nat /\ p > i /\ (p >= 8 <=> i >= 3)
  BY <1>4, PowerIs, PowerGrows
<1>6. CASE p > 8
  <2>1. cap = p
    BY <1>6 DEF MaxOf
  <2>2. i \in 3 .. cap
    BY <1>5, <1>6, <2>1
  <2> QED
    BY <1>4, <1>5, <1>6, <2>1, <2>2 DEF p
<1>7. CASE ~(p > 8)
  <2>1. cap = 8
    BY <1>7 DEF MaxOf
  <2>2. PowerOfTwo[3] = 8 /\ 3 \in 3 .. 8
    <3>1. PowerOfTwo[0 + 1] = 2 * PowerOfTwo[0] /\ PowerOfTwo[1 + 1] = 2 * PowerOfTwo[1]
          /\ PowerOfTwo[2 + 1] = 2 * PowerOfTwo[2]
      BY PowerIs
    <3> QED
      BY <3>1, PowerIs
  <2>3. cap \in {PowerOfTwo[j] : j \in 3 .. cap}
    BY <2>1, <2>2
  <2>4. cap >= n
    BY <1>4, <1>5, <1>7, <2>1
  <2> QED
    BY <2>1, <2>3, <2>4 DEF p
<1> QED
  BY <1>6, <1>7
-----------------------------------------------------------------------------
(* Probes *)

\* The bucket of a table of L that a probe from x looks at after i others.
Probed(L, x, i) == ((x + i) % L) + 1

\* No multiple of L lies between.
LEMMA Multiple ==
    ASSUME NEW L \in Nat \ {0}, NEW q \in Int, L * q > - L, L * q < L
    PROVE  L * q = 0
<1>1. q >= 1 => L * q >= L
  OBVIOUS
<1>2. q <= -1 => L * q <= - L
  OBVIOUS
<1>3. q >= 1 \/ q <= -1 \/ q = 0
  OBVIOUS
<1> QED
  BY <1>1, <1>2, <1>3

\* A number is a multiple of L and a remainder, in one way.
LEMMA Division ==
    ASSUME NEW L \in Nat \ {0}, NEW n \in Nat
    PROVE  n \div L \in Nat /\ n % L \in 0 .. L - 1 /\ n = L * (n \div L) + (n % L)
BY SMT

\* The remainder is that one.
LEMMA Remainder ==
    ASSUME NEW L \in Nat \ {0}, NEW a \in Nat, NEW r \in 0 .. L - 1
    PROVE  (L * a + r) % L = r
<1> DEFINE n == L * a + r
<1>1. n \in Nat
  OBVIOUS
<1>2. n \div L \in Nat /\ n % L \in 0 .. L - 1 /\ n = L * (n \div L) + (n % L)
  BY <1>1, Division
<1> DEFINE q == a - (n \div L)
           m == n % L
<1>3. L * q = L * a - L * (n \div L)
  BY <1>2
<1>4. L * q = m - r
  BY <1>2, <1>3
<1>5. m - r > - L /\ m - r < L /\ q \in Int
  BY <1>2
<1>6. m - r = 0
  <2> HIDE DEF q, m
  <2> QED
    BY <1>4, <1>5, Multiple
<1> QED
  BY <1>2, <1>6

\* A probe looks at every bucket, and at none twice in a round.
LEMMA ProbedIs ==
    ASSUME NEW L \in Nat \ {0}, NEW x \in Nat
    PROVE  /\ \A i \in Nat : Probed(L, x, i) \in 1 .. L
           /\ \A i, j \in 0 .. L - 1 : Probed(L, x, i) = Probed(L, x, j) => i = j
           /\ \A p \in 1 .. L : \E i \in 0 .. L - 1 : Probed(L, x, i) = p
<1>1. ASSUME NEW i \in Nat
      PROVE  Probed(L, x, i) \in 1 .. L
  <2>1. x + i \in Nat
    OBVIOUS
  <2>2. (x + i) % L \in 0 .. L - 1
    BY <2>1, Division
  <2> QED
    BY <2>2 DEF Probed
<1>2. ASSUME NEW i \in 0 .. L - 1, NEW j \in 0 .. L - 1, Probed(L, x, i) = Probed(L, x, j)
      PROVE  i = j
  <2> DEFINE a == x + i
             b == x + j
             q == (a \div L) - (b \div L)
  <2>1. a \in Nat /\ b \in Nat
    OBVIOUS
  <2>2. /\ a \div L \in Nat /\ a % L \in 0 .. L - 1 /\ a = L * (a \div L) + (a % L)
        /\ b \div L \in Nat /\ b % L \in 0 .. L - 1 /\ b = L * (b \div L) + (b % L)
    BY <2>1, Division
  <2>3. a % L = b % L
    BY <1>2, <2>2 DEF Probed
  <2>4. a - b = L * q
    <3> HIDE DEF a, b
    <3>1. L * q = L * (a \div L) - L * (b \div L)
      BY <2>2
    <3> QED
      BY <2>1, <2>2, <2>3, <3>1
  <2>5. a - b = i - j /\ i - j > - L /\ i - j < L /\ q \in Int
    BY <2>2
  <2>6. i - j = 0
    <3> HIDE DEF a, b, q
    <3> QED
      BY <2>4, <2>5, Multiple
  <2> QED
    BY <2>6
<1>3. ASSUME NEW p \in 1 .. L
      PROVE  \E i \in 0 .. L - 1 : Probed(L, x, i) = p
  <2> DEFINE q == x \div L
             m == x % L
             r == p - 1
  <2>1. q \in Nat /\ m \in 0 .. L - 1 /\ x = L * q + m
    BY Division
  <2>2. r \in 0 .. L - 1
    OBVIOUS
  <2> HIDE DEF q, m
  <2>3. CASE r >= m
    <3>1. r - m \in 0 .. L - 1 /\ x + (r - m) = L * q + r
      BY <2>1, <2>2, <2>3
    <3>2. (L * q + r) % L = r
      <4> HIDE DEF r
      <4> QED
        BY <2>1, <2>2, Remainder
    <3>3. Probed(L, x, r - m) = p
      <4>1. Probed(L, x, r - m) = r + 1
        <5> HIDE DEF r
        <5> QED
          BY <3>1, <3>2 DEF Probed
      <4> QED
        BY <4>1
    <3> QED
      BY <3>1, <3>3
  <2>4. CASE r < m
    <3>1. L * (q + 1) = L * q + L
      BY <2>1
    <3>2. (r - m) + L \in 0 .. L - 1 /\ x + ((r - m) + L) = L * (q + 1) + r
      BY <2>1, <2>2, <2>4, <3>1
    <3>3. q + 1 \in Nat
      BY <2>1
    <3>4. (L * (q + 1) + r) % L = r
      <4> HIDE DEF r
      <4> QED
        BY <2>2, <3>3, Remainder
    <3>5. Probed(L, x, (r - m) + L) = p
      <4>1. Probed(L, x, (r - m) + L) = r + 1
        <5> HIDE DEF r
        <5> QED
          BY <3>2, <3>4 DEF Probed
      <4> QED
        BY <4>1
    <3> QED
      BY <3>2, <3>5
  <2> QED
    BY <2>1, <2>2, <2>3, <2>4
<1> QED
  BY <1>1, <1>2, <1>3
-----------------------------------------------------------------------------
(* Tables *)

\* Hash values are numbers.
Hashing == \A k \in DOMAIN hash : k \in Keys /\ hash[k] \in Nat

\* Every key stored is stored where a probe for it ends.
Sound(h, t) ==
    \A p \in OccupiedIn(t) :
        /\ t[p].key \in DOMAIN h
        /\ \E i \in 0 .. Len(t) - 1 :
              /\ p = Probed(Len(t), h[t[p].key], i)
              /\ \A j \in 0 .. i - 1 : ~Ends(t[Probed(Len(t), h[t[p].key], j)], t[p].key)

\* The kinds of buckets.
LEMMA BucketsAre ==
    /\ Empty # Deleted /\ ~IsOccupied(Empty) /\ ~IsOccupied(Deleted)
    /\ Empty \in Buckets /\ Deleted \in Buckets
    /\ \A k \in Keys, v \in Values :
          /\ IsOccupied(Occupied(k, v)) /\ Occupied(k, v) \in Buckets
          /\ Occupied(k, v).key = k /\ Occupied(k, v).value = v
          /\ Occupied(k, v) # Empty /\ Occupied(k, v) # Deleted
    /\ \A b \in Buckets :
          /\ IsOccupied(b) \/ b = Empty \/ b = Deleted
          /\ IsOccupied(b) => b.key \in Keys /\ b.value \in Values
<1>1. Empty.bucket = "Empty" /\ Deleted.bucket = "Deleted"
  BY DEF Empty, Deleted
<1>2. \A k \in Keys, v \in Values :
          /\ Occupied(k, v).bucket = "Occupied"
          /\ Occupied(k, v).key = k /\ Occupied(k, v).value = v
  BY DEF Occupied
<1>3. \A k \in Keys, v \in Values : Occupied(k, v) # Empty /\ Occupied(k, v) # Deleted
  <2> SUFFICES ASSUME NEW k \in Keys, NEW v \in Values
               PROVE  Occupied(k, v) # Empty /\ Occupied(k, v) # Deleted
    OBVIOUS
  <2>1. Occupied(k, v).bucket = "Occupied" /\ "Occupied" # "Empty" /\ "Occupied" # "Deleted"
    BY <1>2
  <2> QED
    BY <1>1, <2>1
<1>4. Empty # Deleted
  BY <1>1
<1>5. \A b \in Buckets : b = Empty \/ b = Deleted
                         \/ \E k \in Keys, v \in Values : b = Occupied(k, v)
  BY DEF Buckets
<1>6. \A k \in Keys, v \in Values : Occupied(k, v) \in Buckets
  BY DEF Buckets
<1>7. Empty \in Buckets /\ Deleted \in Buckets
  BY DEF Buckets
<1> QED
  BY <1>1, <1>2, <1>3, <1>4, <1>5, <1>6, <1>7 DEF IsOccupied

\* Where a probe ends.
LEMMA ProbeIs ==
    ASSUME NEW t \in Seq(Buckets), Len(t) # 0, Hashing, NEW k \in DOMAIN hash,
           Probe(t, k) # {}
    PROVE  LET L == Len(t)
               e == Min(Probe(t, k))
           IN  /\ e \in 0 .. L - 1
               /\ Found(t, k) = Probed(L, hash[k], e) /\ Found(t, k) \in 1 .. L
               /\ Ends(t[Found(t, k)], k)
               /\ \A j \in 0 .. e - 1 : ~Ends(t[Probed(L, hash[k], j)], k)
<1> DEFINE L == Len(t)
           S == Probe(t, k)
           e == Min(S)
<1>1. L \in Nat \ {0} /\ hash[k] \in Nat
  BY DEF Hashing
<1>2. \A i : Bucket(t, k, i) = Probed(L, hash[k], i)
  BY DEF Bucket, Probed
<1>3. S = {i \in 0 .. L - 1 : Ends(t[Probed(L, hash[k], i)], k)}
  BY <1>2 DEF Probe
<1>4. S \subseteq Nat
  BY <1>3
<1>5. e \in S /\ \A i \in S : e <= i
  <2>1. S # {}
    OBVIOUS
  <2> HIDE DEF S
  <2> QED
    BY <1>4, <2>1, MinIs
<1> HIDE DEF e, S, L
<1>6. e \in 0 .. L - 1 /\ Ends(t[Probed(L, hash[k], e)], k)
  BY <1>3, <1>5
<1>7. \A j \in 0 .. e - 1 : ~Ends(t[Probed(L, hash[k], j)], k)
  <2> SUFFICES ASSUME NEW j \in 0 .. e - 1 PROVE ~Ends(t[Probed(L, hash[k], j)], k)
    OBVIOUS
  <2>1. j \in 0 .. L - 1 /\ ~(e <= j)
    BY <1>1, <1>6
  <2> QED
    BY <1>3, <1>5, <2>1
<1>8. Found(t, k) = Probed(L, hash[k], e)
  BY <1>2 DEF Found, e, S
<1>9. Probed(L, hash[k], e) \in 1 .. L
  BY <1>1, <1>6, ProbedIs
<1> QED
  BY <1>6, <1>7, <1>8, <1>9 DEF e, S, L

\* A key is stored once, where its probe ends.
LEMMA FoundIs ==
    ASSUME NEW t \in Seq(Buckets), Len(t) # 0, Hashing, NEW k \in DOMAIN hash,
           Probe(t, k) # {}, Sound(hash, t)
    PROVE  /\ Found(t, k) \in DOMAIN t
           /\ IsOccupied(t[Found(t, k)]) => t[Found(t, k)].key = k
           /\ ~IsOccupied(t[Found(t, k)]) => t[Found(t, k)] = Empty
           /\ \A p \in OccupiedIn(t) : t[p].key = k => p = Found(t, k)
<1> DEFINE L == Len(t)
           e == Min(Probe(t, k))
           f == Found(t, k)
<1>1. /\ e \in 0 .. L - 1 /\ f = Probed(L, hash[k], e) /\ f \in 1 .. L /\ Ends(t[f], k)
      /\ \A j \in 0 .. e - 1 : ~Ends(t[Probed(L, hash[k], j)], k)
  BY ProbeIs
<1>2. DOMAIN t = 1 .. L /\ L \in Nat
  OBVIOUS
<1> HIDE DEF e, f, L
<1>3. /\ IsOccupied(t[f]) => t[f].key = k
      /\ ~IsOccupied(t[f]) => t[f] = Empty
  BY <1>1, BucketsAre DEF Ends
<1>4. ASSUME NEW p \in OccupiedIn(t), t[p].key = k
      PROVE  p = f
  <2>1. PICK i \in 0 .. L - 1 : /\ p = Probed(L, hash[k], i)
                                /\ \A j \in 0 .. i - 1 : ~Ends(t[Probed(L, hash[k], j)], k)
    BY <1>4 DEF Sound, L
  <2>2. Ends(t[Probed(L, hash[k], i)], k)
    BY <1>4, <2>1 DEF Ends, OccupiedIn
  <2>3. ~(i < e)
    <3> SUFFICES ASSUME i < e PROVE FALSE
      OBVIOUS
    <3>1. i \in 0 .. e - 1
      BY <1>1, <1>2, <2>1
    <3> QED
      BY <1>1, <2>2, <3>1
  <2>4. ~(e < i)
    <3> SUFFICES ASSUME e < i PROVE FALSE
      OBVIOUS
    <3>1. e \in 0 .. i - 1
      BY <1>1, <1>2, <2>1
    <3> QED
      BY <1>1, <2>1, <3>1
  <2>5. i = e
    BY <1>1, <1>2, <2>1, <2>3, <2>4
  <2> QED
    BY <1>1, <2>1, <2>5
<1> QED
  BY <1>1, <1>2, <1>3, <1>4 DEF f, L

\* A bucket where k may be put: where its probe ends, or a tombstone on the way
\* to an empty bucket.
IsSlot(t, k, s) ==
    /\ s \in 1 .. Len(t)
    /\ \E i \in 0 .. Len(t) - 1 :
          /\ s = Probed(Len(t), hash[k], i)
          /\ \A j \in 0 .. i - 1 : ~Ends(t[Probed(Len(t), hash[k], j)], k)
    /\ IsOccupied(t[s]) => t[s].key = k
    /\ \A p \in OccupiedIn(t) : t[p].key = k => p = s

\* insert_no_resize puts a key there.
LEMMA SlotIs ==
    ASSUME NEW t \in Seq(Buckets), Len(t) # 0, Hashing, NEW k \in DOMAIN hash,
           Probe(t, k) # {}, Sound(hash, t)
    PROVE  IsSlot(t, k, Slot(t, k))
<1> DEFINE L == Len(t)
           e == Min(Probe(t, k))
           f == Found(t, k)
           P == Tombstones(t, k, e)
           m == Min(P)
<1>1. /\ e \in 0 .. L - 1 /\ f = Probed(L, hash[k], e) /\ f \in 1 .. L
      /\ \A j \in 0 .. e - 1 : ~Ends(t[Probed(L, hash[k], j)], k)
  BY ProbeIs
<1>2. /\ IsOccupied(t[f]) => t[f].key = k
      /\ \A p \in OccupiedIn(t) : t[p].key = k => p = f
  BY FoundIs
<1>3. \A i : Bucket(t, k, i) = Probed(L, hash[k], i)
  BY DEF Bucket, Probed
<1>4. L \in Nat \ {0} /\ hash[k] \in Nat
  BY DEF Hashing
<1>5. P = {i \in 0 .. e - 1 : t[Probed(L, hash[k], i)] = Deleted}
  BY <1>3 DEF Tombstones
<1>6. Slot(t, k) = IF t[f] = Empty /\ P # {} THEN Probed(L, hash[k], m) ELSE f
  BY <1>1, <1>3 DEF Slot
<1>7. CASE t[f] = Empty /\ P # {}
  <2>1. P \subseteq Nat
    BY <1>1, <1>5
  <2>2. m \in P
    <3> HIDE DEF P
    <3> QED
      BY <1>7, <2>1, MinIs
  <2> HIDE DEF P, m, e, f
  <2>3. m \in 0 .. e - 1 /\ t[Probed(L, hash[k], m)] = Deleted
    BY <1>5, <2>2
  <2> HIDE DEF L
  <2>4. m \in 0 .. L - 1 /\ \A j \in 0 .. m - 1 : j \in 0 .. e - 1
    BY <1>1, <1>4, <2>3
  <2>5. ~IsOccupied(t[f]) /\ ~IsOccupied(t[Probed(L, hash[k], m)])
    BY <1>7, <2>3, BucketsAre
  <2>6. \A p \in OccupiedIn(t) : t[p].key # k
    BY <1>2, <2>5 DEF OccupiedIn
  <2>7. Probed(L, hash[k], m) \in 1 .. L
    <3>1. m \in Nat
      BY <2>4
    <3>2. \A i \in Nat : Probed(L, hash[k], i) \in 1 .. L
      BY <1>4, ProbedIs
    <3> QED
      BY <3>1, <3>2
  <2>8. IsSlot(t, k, Probed(L, hash[k], m))
    BY <1>1, <2>4, <2>5, <2>6, <2>7 DEF IsSlot, L
  <2> QED
    BY <1>6, <1>7, <2>8
<1>8. CASE ~(t[f] = Empty /\ P # {})
  <2> HIDE DEF P, m, e, f
  <2>1. IsSlot(t, k, f)
    BY <1>1, <1>2 DEF IsSlot
  <2> QED
    BY <1>6, <1>8, <2>1
<1> QED
  BY <1>7, <1>8

\* What putting <<k, v>> into the bucket s of t makes of it.
IsPlaced(t, k, v, s, u) ==
    /\ u \in Seq(Buckets) /\ Len(u) = Len(t)
    /\ OccupiedIn(u) = OccupiedIn(t) \cup {s}
    /\ DeletedIn(u) = DeletedIn(t) \ {s}
    /\ Sound(hash, u)
    /\ Items(u) = {x \in Items(t) : x[1] # k} \cup {<<k, v>>}

\* Putting a key into its slot hides no other: what is passed is neither empty
\* before nor after.
LEMMA PlaceSound ==
    ASSUME NEW t \in Seq(Buckets), Len(t) # 0, Hashing, Sound(hash, t),
           NEW k \in DOMAIN hash, NEW v \in Values, NEW s, IsSlot(t, k, s)
    PROVE  IsPlaced(t, k, v, s, [t EXCEPT ![s] = Occupied(k, v)])
<1> DEFINE b == Occupied(k, v)
           u == [t EXCEPT ![s] = b]
           L == Len(t)
<1>1. k \in Keys /\ hash[k] \in Nat /\ L \in Nat \ {0}
  BY DEF Hashing
<1>2. b \in Buckets /\ IsOccupied(b) /\ b.key = k /\ b.value = v /\ b # Empty /\ b # Deleted
  BY <1>1, BucketsAre
<1>3. s \in 1 .. L
  BY DEF IsSlot
<1> HIDE DEF b
<1>4. /\ u \in Seq(Buckets) /\ Len(u) = L /\ u[s] = b
      /\ \A p \in 1 .. L : p # s => u[p] = t[p]
      /\ OccupiedIn(u) = OccupiedIn(t) \cup {s}
      /\ DeletedIn(u) = DeletedIn(t) \ {s}
  <2>1. /\ u \in Seq(Buckets) /\ Len(u) = L /\ u[s] = b
        /\ \A p \in 1 .. L : p # s => u[p] = t[p]
    BY <1>2, <1>3
  <2>2. DOMAIN u = 1 .. L /\ DOMAIN t = 1 .. L
    BY <2>1
  <2> HIDE DEF u, L
  <2>3. OccupiedIn(u) = OccupiedIn(t) \cup {s}
    BY <1>2, <1>3, <2>1, <2>2 DEF OccupiedIn
  <2>4. DeletedIn(u) = DeletedIn(t) \ {s}
    BY <1>2, <1>3, <2>1, <2>2 DEF DeletedIn
  <2> QED
    BY <2>1, <2>3, <2>4
<1> HIDE DEF u
<1>5. OccupiedIn(t) \subseteq 1 .. L
  BY DEF OccupiedIn
<1>6. \A p \in OccupiedIn(t) : t[p].key = k => p = s
  BY DEF IsSlot
<1>7. PICK i \in 0 .. L - 1 : /\ s = Probed(L, hash[k], i)
                              /\ \A j \in 0 .. i - 1 : ~Ends(t[Probed(L, hash[k], j)], k)
  BY DEF IsSlot
<1>8. ASSUME NEW p \in OccupiedIn(u)
      PROVE  /\ u[p].key \in DOMAIN hash
             /\ \E n \in 0 .. L - 1 :
                   /\ p = Probed(L, hash[u[p].key], n)
                   /\ \A j \in 0 .. n - 1 : ~Ends(u[Probed(L, hash[u[p].key], j)], u[p].key)
  <2>1. CASE p = s
    <3>1. u[p].key = k
      BY <1>2, <1>4, <2>1
    <3>2. ASSUME NEW j \in 0 .. i - 1
          PROVE  ~Ends(u[Probed(L, hash[k], j)], k)
      <4>1. j \in 0 .. L - 1 /\ j # i /\ j \in Nat
        BY <1>1, <1>7
      <4>2. Probed(L, hash[k], j) # s /\ Probed(L, hash[k], j) \in 1 .. L
        BY <1>1, <1>7, <4>1, ProbedIs
      <4> QED
        BY <1>4, <1>7, <4>2
    <3> HIDE DEF L
    <3> QED
      BY <1>7, <2>1, <3>1, <3>2
  <2>2. CASE p # s
    <3>1. p \in OccupiedIn(t) /\ u[p] = t[p] /\ t[p].key # k
      BY <1>4, <1>5, <1>6, <2>2
    <3> DEFINE l == t[p].key
    <3>2. /\ l \in DOMAIN hash
          /\ \E n \in 0 .. L - 1 :
                /\ p = Probed(L, hash[l], n)
                /\ \A j \in 0 .. n - 1 : ~Ends(t[Probed(L, hash[l], j)], l)
      BY <3>1 DEF Sound
    <3>3. hash[l] \in Nat
      BY <3>2 DEF Hashing
    <3> HIDE DEF l
    <3>4. PICK n \in 0 .. L - 1 :
                /\ p = Probed(L, hash[l], n)
                /\ \A j \in 0 .. n - 1 : ~Ends(t[Probed(L, hash[l], j)], l)
      BY <3>2
    <3>5. l # k /\ u[p].key = l
      BY <3>1 DEF l
    <3>6. ASSUME NEW j \in 0 .. n - 1
          PROVE  ~Ends(u[Probed(L, hash[l], j)], l)
      <4>1. j \in Nat
        OBVIOUS
      <4>2. Probed(L, hash[l], j) \in 1 .. L
        BY <1>1, <3>3, <4>1, ProbedIs
      <4>3. CASE Probed(L, hash[l], j) = s
        BY <1>2, <1>4, <3>5, <4>3 DEF Ends
      <4>4. CASE Probed(L, hash[l], j) # s
        BY <1>4, <3>4, <4>2, <4>4
      <4> QED
        BY <4>3, <4>4
    <3> HIDE DEF L
    <3> QED
      BY <3>2, <3>4, <3>5, <3>6
  <2> QED
    BY <2>1, <2>2
<1>9. Sound(hash, u)
  BY <1>4, <1>8 DEF Sound
<1>10. Items(u) = {x \in Items(t) : x[1] # k} \cup {<<k, v>>}
  <2>1. \A p \in OccupiedIn(t) : p # s => u[p] = t[p] /\ t[p].key # k
    BY <1>4, <1>5, <1>6
  <2>2. u[s].key = k /\ u[s].value = v /\ s \in OccupiedIn(u)
    BY <1>2, <1>4
  <2>3. ASSUME NEW x \in Items(u)
        PROVE  x \in {y \in Items(t) : y[1] # k} \cup {<<k, v>>}
    <3>1. PICK p \in OccupiedIn(u) : x = <<u[p].key, u[p].value>>
      BY DEF Items
    <3>2. CASE p = s
      BY <2>2, <3>1, <3>2
    <3>3. CASE p # s
      <4>1. p \in OccupiedIn(t) /\ u[p] = t[p] /\ t[p].key # k
        BY <1>4, <2>1, <3>3
      <4>2. x \in Items(t) /\ x[1] # k
        BY <3>1, <4>1 DEF Items
      <4> QED
        BY <4>2
    <3> QED
      BY <3>2, <3>3
  <2>4. ASSUME NEW x \in Items(t), x[1] # k
        PROVE  x \in Items(u)
    <3>1. PICK p \in OccupiedIn(t) : x = <<t[p].key, t[p].value>>
      BY DEF Items
    <3>2. t[p].key # k
      BY <2>4, <3>1
    <3>3. p # s
      <4> SUFFICES ASSUME p = s PROVE FALSE
        OBVIOUS
      <4>1. IsOccupied(t[s])
        BY <3>1 DEF OccupiedIn
      <4> QED
        BY <3>2, <4>1 DEF IsSlot
    <3>4. u[p] = t[p] /\ p \in OccupiedIn(u)
      BY <1>4, <2>1, <3>3
    <3> QED
      BY <3>1, <3>4 DEF Items
  <2>5. <<k, v>> \in Items(u)
    BY <2>2 DEF Items
  <2> QED
    BY <2>3, <2>4, <2>5
<1>11. IsPlaced(t, k, v, s, u)
  BY <1>4, <1>9, <1>10 DEF IsPlaced, L
<1> QED
  BY <1>11 DEF u, b

\* What a tombstone in the bucket s of t makes of it.
IsErased(t, k, s, u) ==
    /\ u \in Seq(Buckets) /\ Len(u) = Len(t)
    /\ OccupiedIn(u) = OccupiedIn(t) \ {s}
    /\ DeletedIn(u) = DeletedIn(t) \cup {s}
    /\ Sound(hash, u)
    /\ Items(u) = {x \in Items(t) : x[1] # k}

\* A tombstone in place of a key hides no other.
LEMMA EraseSound ==
    ASSUME NEW t \in Seq(Buckets), Len(t) # 0, Hashing, Sound(hash, t),
           NEW k \in DOMAIN hash, Probe(t, k) # {}, IsOccupied(t[Found(t, k)])
    PROVE  IsErased(t, k, Found(t, k), [t EXCEPT ![Found(t, k)] = Deleted])
<1> DEFINE s == Found(t, k)
           u == [t EXCEPT ![s] = Deleted]
           L == Len(t)
<1>1. L \in Nat \ {0} /\ s \in 1 .. L /\ t[s].key = k
      /\ \A p \in OccupiedIn(t) : t[p].key = k => p = s
  <2>1. L \in Nat \ {0} /\ DOMAIN t = 1 .. L
    OBVIOUS
  <2> QED
    BY <2>1, FoundIs
<1> HIDE DEF s
<1>2. /\ u \in Seq(Buckets) /\ Len(u) = L /\ u[s] = Deleted
      /\ \A p \in 1 .. L : p # s => u[p] = t[p]
      /\ OccupiedIn(u) = OccupiedIn(t) \ {s}
      /\ DeletedIn(u) = DeletedIn(t) \cup {s}
  <2>1. /\ u \in Seq(Buckets) /\ Len(u) = L /\ u[s] = Deleted
        /\ \A p \in 1 .. L : p # s => u[p] = t[p]
    BY <1>1, BucketsAre
  <2>2. DOMAIN u = 1 .. L /\ DOMAIN t = 1 .. L
    BY <2>1
  <2> HIDE DEF u, L
  <2>3. OccupiedIn(u) = OccupiedIn(t) \ {s}
    BY <1>1, <2>1, <2>2, BucketsAre DEF OccupiedIn
  <2>4. DeletedIn(u) = DeletedIn(t) \cup {s}
    BY <1>1, <2>1, <2>2 DEF DeletedIn
  <2> QED
    BY <2>1, <2>3, <2>4
<1> HIDE DEF u
<1>3. OccupiedIn(t) \subseteq 1 .. L
  BY DEF OccupiedIn
<1>4. ASSUME NEW p \in OccupiedIn(u)
      PROVE  /\ u[p].key \in DOMAIN hash
             /\ \E n \in 0 .. L - 1 :
                   /\ p = Probed(L, hash[u[p].key], n)
                   /\ \A j \in 0 .. n - 1 : ~Ends(u[Probed(L, hash[u[p].key], j)], u[p].key)
  <2>1. p \in OccupiedIn(t) /\ u[p] = t[p]
    BY <1>2, <1>3
  <2> DEFINE l == t[p].key
  <2>2. /\ l \in DOMAIN hash
        /\ \E n \in 0 .. L - 1 :
              /\ p = Probed(L, hash[l], n)
              /\ \A j \in 0 .. n - 1 : ~Ends(t[Probed(L, hash[l], j)], l)
    BY <2>1 DEF Sound
  <2>3. hash[l] \in Nat
    BY <2>2 DEF Hashing
  <2>4. u[p].key = l
    BY <2>1
  <2> HIDE DEF l
  <2>5. PICK n \in 0 .. L - 1 :
              /\ p = Probed(L, hash[l], n)
              /\ \A j \in 0 .. n - 1 : ~Ends(t[Probed(L, hash[l], j)], l)
    BY <2>2
  <2>6. ASSUME NEW j \in 0 .. n - 1
        PROVE  ~Ends(u[Probed(L, hash[l], j)], l)
    <3>1. j \in Nat
      OBVIOUS
    <3>2. Probed(L, hash[l], j) \in 1 .. L
      BY <1>1, <2>3, <3>1, ProbedIs
    <3>3. CASE Probed(L, hash[l], j) = s
      BY <1>2, <3>3, BucketsAre DEF Ends
    <3>4. CASE Probed(L, hash[l], j) # s
      BY <1>2, <2>5, <3>2, <3>4
    <3> QED
      BY <3>3, <3>4
  <2> HIDE DEF L
  <2> QED
    BY <2>2, <2>4, <2>5, <2>6
<1>5. Sound(hash, u)
  BY <1>2, <1>4 DEF Sound
<1>6. \A p \in OccupiedIn(t) : p # s <=> t[p].key # k
  BY <1>1
<1>7. \A p \in OccupiedIn(u) : p \in OccupiedIn(t) /\ u[p] = t[p] /\ p # s
  BY <1>2, <1>3
<1>8. Items(u) = {x \in Items(t) : x[1] # k}
  <2>1. ASSUME NEW x \in Items(u)
        PROVE  x \in Items(t) /\ x[1] # k
    <3>1. PICK p \in OccupiedIn(u) : x = <<u[p].key, u[p].value>>
      BY DEF Items
    <3> QED
      BY <1>6, <1>7, <3>1 DEF Items
  <2>2. ASSUME NEW x \in Items(t), x[1] # k
        PROVE  x \in Items(u)
    <3>1. PICK p \in OccupiedIn(t) : x = <<t[p].key, t[p].value>>
      BY DEF Items
    <3>2. p # s
      BY <1>6, <2>2, <3>1
    <3>3. p \in OccupiedIn(u) /\ u[p] = t[p]
      BY <1>2, <1>3, <3>2
    <3> QED
      BY <3>1, <3>3 DEF Items
  <2> QED
    BY <2>1, <2>2
<1>9. IsErased(t, k, s, u)
  BY <1>2, <1>5, <1>8 DEF IsErased, L
<1> QED
  BY <1>9 DEF u, s

\* Values do not matter to a probe.
LEMMA ValuesSound ==
    ASSUME NEW t \in Seq(Buckets), NEW u \in Seq(Buckets), Len(u) = Len(t), Hashing,
           Sound(hash, t),
           \A p \in 1 .. Len(t) : /\ IsOccupied(u[p]) <=> IsOccupied(t[p])
                                  /\ IsOccupied(t[p]) => u[p].key = t[p].key
                                  /\ u[p] = Empty <=> t[p] = Empty
    PROVE  Sound(hash, u) /\ OccupiedIn(u) = OccupiedIn(t)
<1>1. OccupiedIn(u) = OccupiedIn(t)
  BY DEF OccupiedIn
<1>2. \A p \in OccupiedIn(t) : p \in 1 .. Len(t) /\ u[p].key = t[p].key
  BY DEF OccupiedIn
<1>3. \A p \in 1 .. Len(t) : \A k : Ends(u[p], k) <=> Ends(t[p], k)
  BY DEF Ends
<1>4. ASSUME NEW p \in OccupiedIn(t)
      PROVE  /\ t[p].key \in DOMAIN hash
             /\ \E i \in 0 .. Len(t) - 1 :
                   /\ p = Probed(Len(t), hash[t[p].key], i)
                   /\ \A j \in 0 .. i - 1 : ~Ends(u[Probed(Len(t), hash[t[p].key], j)], t[p].key)
  <2> DEFINE l == t[p].key
             L == Len(t)
  <2>1. /\ l \in DOMAIN hash
        /\ \E n \in 0 .. L - 1 :
              /\ p = Probed(L, hash[l], n)
              /\ \A j \in 0 .. n - 1 : ~Ends(t[Probed(L, hash[l], j)], l)
    BY DEF Sound
  <2>2. hash[l] \in Nat
    BY <2>1 DEF Hashing
  <2>3. L \in Nat \ {0}
    BY <1>2
  <2> HIDE DEF l, L
  <2>4. PICK n \in 0 .. L - 1 :
              /\ p = Probed(L, hash[l], n)
              /\ \A j \in 0 .. n - 1 : ~Ends(t[Probed(L, hash[l], j)], l)
    BY <2>1
  <2>5. ASSUME NEW j \in 0 .. n - 1
        PROVE  ~Ends(u[Probed(L, hash[l], j)], l)
    <3>1. j \in Nat
      OBVIOUS
    <3>2. Probed(L, hash[l], j) \in 1 .. L
      BY <2>2, <2>3, <3>1, ProbedIs
    <3> QED
      BY <1>3, <2>4, <3>2 DEF L
  <2> QED
    BY <2>1, <2>4, <2>5 DEF l, L
<1>5. Sound(hash, u)
  BY <1>1, <1>2, <1>4 DEF Sound
<1> QED
  BY <1>1, <1>5
-----------------------------------------------------------------------------
(* Room *)

\* A table has as many buckets as its length says, of the kinds there are.
LEMMA CountIs ==
    ASSUME NEW t \in Seq(Buckets)
    PROVE  /\ IsFiniteSet(OccupiedIn(t)) /\ Cardinality(OccupiedIn(t)) \in Nat
           /\ IsFiniteSet(DeletedIn(t)) /\ Cardinality(DeletedIn(t)) \in Nat
           /\ Cardinality(OccupiedIn(t)) + Cardinality(DeletedIn(t)) < Len(t)
                 => \E p \in 1 .. Len(t) : t[p] = Empty
<1> DEFINE A == OccupiedIn(t)
           B == DeletedIn(t)
           W == 1 .. Len(t)
<1>1. Len(t) \in Nat /\ DOMAIN t = W
  OBVIOUS
<1>2. IsFiniteSet(W) /\ Cardinality(W) = Len(t)
  BY <1>1, FS_Interval
<1>3. A \subseteq W /\ B \subseteq W /\ A \cap B = {}
  BY <1>1, BucketsAre DEF OccupiedIn, DeletedIn
<1>4. \A p \in W : t[p] \in Buckets
  OBVIOUS
<1>5. \A p \in W : p \notin A /\ p \notin B => t[p] = Empty
  BY <1>1, <1>4, BucketsAre DEF OccupiedIn, DeletedIn
<1> HIDE DEF A, B, W
<1>6. IsFiniteSet(A) /\ IsFiniteSet(B)
  BY <1>2, <1>3, FS_Subset
<1>7. Cardinality(A) \in Nat /\ Cardinality(B) \in Nat
  BY <1>6, FS_CardinalityType
<1>8. ASSUME Cardinality(A) + Cardinality(B) < Len(t)
      PROVE  \E p \in W : t[p] = Empty
  <2>1. Cardinality(A \cup B) = Cardinality(A) + Cardinality(B)
    <3>1. Cardinality(A \cup B) = Cardinality(A) + Cardinality(B) - Cardinality(A \cap B)
      BY <1>6, FS_Union
    <3>2. Cardinality(A \cap B) = 0
      BY <1>3, FS_EmptySet, Zenon
    <3> QED
      BY <1>7, <3>1, <3>2
  <2>2. A \cup B # W
    <3> SUFFICES ASSUME A \cup B = W PROVE FALSE
      OBVIOUS
    <3>1. Cardinality(A) + Cardinality(B) = Len(t)
      BY <1>2, <2>1
    <3> QED
      BY <1>1, <1>7, <1>8, <3>1
  <2>3. PICK p \in W : p \notin A /\ p \notin B
    BY <1>3, <2>2
  <2> QED
    BY <1>5, <2>3
<1> QED
  BY <1>6, <1>7, <1>8 DEF A, B, W

\* A probe ends where there is an empty bucket.
LEMMA ProbeEnds ==
    ASSUME NEW t \in Seq(Buckets), Hashing, NEW k \in DOMAIN hash,
           \E p \in 1 .. Len(t) : t[p] = Empty
    PROVE  Len(t) # 0 /\ Probe(t, k) # {}
<1>1. PICK p \in 1 .. Len(t) : t[p] = Empty
  OBVIOUS
<1> DEFINE L == Len(t)
<1>2. L \in Nat \ {0} /\ hash[k] \in Nat
  BY <1>1 DEF Hashing
<1>3. \A i : Bucket(t, k, i) = Probed(L, hash[k], i)
  BY DEF Bucket, Probed
<1>4. p \in 1 .. L
  OBVIOUS
<1> HIDE DEF L
<1>5. PICK i \in 0 .. L - 1 : Probed(L, hash[k], i) = p
  BY <1>2, <1>4, ProbedIs
<1>6. Ends(t[Bucket(t, k, i)], k)
  BY <1>1, <1>3, <1>5 DEF Ends
<1>7. i \in Probe(t, k)
  BY <1>6 DEF Probe, L
<1> QED
  BY <1>2, <1>7 DEF L

\* A key is stored in one bucket at most.
LEMMA KeysDiffer ==
    ASSUME NEW t \in Seq(Buckets), Hashing, Sound(hash, t),
           NEW p \in OccupiedIn(t), NEW q \in OccupiedIn(t), t[p].key = t[q].key
    PROVE  p = q
<1> DEFINE L == Len(t)
           k == t[p].key
<1>1. PICK i \in 0 .. L - 1 : /\ p = Probed(L, hash[k], i)
                              /\ \A j \in 0 .. i - 1 : ~Ends(t[Probed(L, hash[k], j)], k)
  BY DEF Sound
<1>2. PICK n \in 0 .. L - 1 : /\ q = Probed(L, hash[k], n)
                              /\ \A j \in 0 .. n - 1 : ~Ends(t[Probed(L, hash[k], j)], k)
  BY DEF Sound
<1>3. Ends(t[p], k) /\ Ends(t[q], k)
  BY DEF Ends, OccupiedIn
<1>4. L \in Nat
  OBVIOUS
<1> HIDE DEF L, k
<1>5. ~(i < n)
  <2> SUFFICES ASSUME i < n PROVE FALSE
    OBVIOUS
  <2>1. i \in 0 .. n - 1
    BY <1>4
  <2> QED
    BY <1>1, <1>2, <1>3, <2>1
<1>6. ~(n < i)
  <2> SUFFICES ASSUME n < i PROVE FALSE
    OBVIOUS
  <2>1. n \in 0 .. i - 1
    BY <1>4
  <2> QED
    BY <1>1, <1>2, <1>3, <2>1
<1>7. i = n
  BY <1>4, <1>5, <1>6
<1> QED
  BY <1>1, <1>2, <1>7
-----------------------------------------------------------------------------
(* resize *)

\* u holds what the first n buckets of t do.
Rehashed(t, cap, n, u) ==
    /\ u \in Seq(Buckets) /\ Len(u) = cap
    /\ DeletedIn(u) = {}
    /\ Sound(hash, u)
    /\ Items(u) = {<<t[p].key, t[p].value>> : p \in OccupiedIn(t) \cap (1 .. n)}
    /\ Cardinality(OccupiedIn(u)) = Cardinality(OccupiedIn(t) \cap (1 .. n))

\* What the definition of Resized says.
Stages(t, cap, f) ==
    /\ f[0] = Cleared(cap)
    /\ \A n \in 0 .. Len(t) - 1 :
          f[n + 1] = IF IsOccupied(t[n + 1]) THEN Placed(f[n], t[n + 1]) ELSE f[n]

\* An empty table.
LEMMA ClearedIs ==
    ASSUME NEW cap \in Nat
    PROVE  /\ Cleared(cap) \in Seq(Buckets) /\ Len(Cleared(cap)) = cap
           /\ OccupiedIn(Cleared(cap)) = {} /\ DeletedIn(Cleared(cap)) = {}
           /\ Items(Cleared(cap)) = {} /\ Sound(hash, Cleared(cap))
<1> DEFINE t == Cleared(cap)
<1>1. t \in Seq(Buckets) /\ Len(t) = cap /\ DOMAIN t = 1 .. cap /\ \A p \in 1 .. cap : t[p] = Empty
  BY BucketsAre DEF Cleared
<1> HIDE DEF t
<1>2. OccupiedIn(t) = {} /\ DeletedIn(t) = {}
  BY <1>1, BucketsAre DEF OccupiedIn, DeletedIn
<1>3. Items(t) = {} /\ Sound(hash, t)
  BY <1>2 DEF Items, Sound
<1> QED
  BY <1>1, <1>2, <1>3 DEF t

\* resize goes through the buckets one by one.
LEMMA ResizedIs ==
    ASSUME NEW t \in Seq(Buckets), NEW cap \in Nat
    PROVE  \E f : Stages(t, cap, f) /\ Resized(t, cap) = f[Len(t)]
<1> DEFINE S == Seq(Buckets)
           Next1(n, u) == IF n + 1 <= Len(t) /\ IsOccupied(t[n + 1]) THEN Placed(u, t[n + 1]) ELSE u
           step == [x \in Nat \X S |-> Next1(x[1], x[2])]
           Body(f, n) == IF n = 0 THEN Cleared(cap)
                         ELSE IF IsOccupied(t[n]) THEN Placed(f[n - 1], t[n])
                         ELSE f[n - 1]
           Is(f) == f = [n \in 0 .. Len(t) |-> Body(f, n)]
<1>1. Len(t) \in Nat
  OBVIOUS
<1>2. ASSUME NEW n \in Nat, NEW u \in S
      PROVE  Next1(n, u) \in S
  <2>1. CASE n + 1 <= Len(t)
    <3>1. t[n + 1] \in Buckets
      BY <1>1, <2>1
    <3>2. Placed(u, t[n + 1]) \in S
      <4> DEFINE b == t[n + 1]
                 s == Slot(u, b.key)
      <4>1. b \in Buckets
        BY <3>1
      <4> HIDE DEF b, s
      <4>2. [u EXCEPT ![s] = b] \in Seq(Buckets)
        <5> DEFINE w == [u EXCEPT ![s] = b]
        <5>1. DOMAIN w = 1 .. Len(u) /\ Len(u) \in Nat
          OBVIOUS
        <5>2. \A p \in 1 .. Len(u) : w[p] \in Buckets
          BY <4>1
        <5>3. w = [p \in 1 .. Len(u) |-> w[p]]
          BY <5>1
        <5> HIDE DEF w
        <5>4. w \in [1 .. Len(u) -> Buckets]
          BY <5>2, <5>3
        <5>5. w \in Seq(Buckets)
          BY <5>1, <5>4
        <5> QED
          BY <5>5 DEF w
      <4> QED
        BY <4>2 DEF Placed, b, s
    <3> QED
      BY <3>2
  <2>2. CASE ~(n + 1 <= Len(t))
    BY <2>2
  <2> QED
    BY <2>1, <2>2
<1>3. step \in [Nat \X S -> S] /\ \A n \in Nat, u \in S : step[<<n, u>>] = Next1(n, u)
  <2> HIDE DEF Next1, S
  <2> QED
    BY <1>2
<1>4. PICK g : Recursion(g, S, Cleared(cap), step)
  <2>1. Cleared(cap) \in S
    BY ClearedIs
  <2> HIDE DEF step, S
  <2> QED
    BY <1>3, <2>1, RecursionExists, Zenon
<1>5. g \in [Nat -> S] /\ g[0] = Cleared(cap) /\ \A n \in Nat : g[n + 1] = Next1(n, g[n])
  <2> HIDE DEF step, S, Next1
  <2>1. g \in [Nat -> S] /\ g[0] = Cleared(cap) /\ \A n \in Nat : g[n + 1] = step[<<n, g[n]>>]
    BY <1>4 DEF Recursion
  <2> QED
    BY <1>3, <2>1
<1> DEFINE f == [n \in 0 .. Len(t) |-> g[n]]
<1> HIDE DEF S, step
<1>6. f[0] = Cleared(cap)
  BY <1>1, <1>5
<1>7. ASSUME NEW n \in 0 .. Len(t) - 1
      PROVE  f[n + 1] = IF IsOccupied(t[n + 1]) THEN Placed(f[n], t[n + 1]) ELSE f[n]
  <2>1. n \in Nat /\ n \in 0 .. Len(t) /\ n + 1 \in 0 .. Len(t) /\ n + 1 <= Len(t)
    BY <1>1
  <2>2. f[n] = g[n] /\ f[n + 1] = g[n + 1]
    BY <2>1
  <2>3. g[n + 1] = Next1(n, g[n])
    BY <1>5, <2>1
  <2> HIDE DEF f
  <2> QED
    BY <2>1, <2>2, <2>3
<1>8. Is(f)
  <2>1. ASSUME NEW n \in 0 .. Len(t)
        PROVE  f[n] = Body(f, n)
    <3>1. CASE n = 0
      <4> HIDE DEF f
      <4> QED
        BY <1>6, <3>1
    <3>2. CASE n # 0
      <4> HIDE DEF f
      <4>1. n - 1 \in 0 .. Len(t) - 1 /\ (n - 1) + 1 = n
        BY <1>1, <3>2
      <4>2. f[(n - 1) + 1] = IF IsOccupied(t[(n - 1) + 1]) THEN Placed(f[n - 1], t[(n - 1) + 1])
                             ELSE f[n - 1]
        BY <1>7, <4>1
      <4> QED
        BY <3>2, <4>1, <4>2
    <3> QED
      BY <3>1, <3>2
  <2>2. f = [n \in 0 .. Len(t) |-> f[n]]
    OBVIOUS
  <2> HIDE DEF f, Body
  <2> QED
    BY <2>1, <2>2
<1> DEFINE c == CHOOSE e : Is(e)
<1>9. Resized(t, cap) = c[Len(t)]
  BY DEF Resized
<1>10. Is(c)
  <2> HIDE DEF Is
  <2> QED
    BY <1>8
<1>11. \A n \in 0 .. Len(t) : c[n] = Body(c, n)
  <2> HIDE DEF c, Body
  <2> QED
    BY <1>10
<1> HIDE DEF c
<1>12. c[0] = Cleared(cap)
  BY <1>1, <1>11
<1>13. ASSUME NEW n \in 0 .. Len(t) - 1
       PROVE  c[n + 1] = IF IsOccupied(t[n + 1]) THEN Placed(c[n], t[n + 1]) ELSE c[n]
  <2>1. n + 1 \in 0 .. Len(t) /\ n + 1 # 0 /\ (n + 1) - 1 = n
    BY <1>1
  <2>2. c[n + 1] = Body(c, n + 1)
    BY <1>11, <2>1
  <2> QED
    BY <2>1, <2>2
<1>14. Stages(t, cap, c)
  BY <1>12, <1>13 DEF Stages
<1> QED
  BY <1>9, <1>14

\* Buckets that are occupied hold a key and a value.
LEMMA OccupiedIs ==
    ASSUME NEW b \in Buckets, IsOccupied(b)
    PROVE  b = Occupied(b.key, b.value) /\ b.key \in Keys /\ b.value \in Values
<1>1. PICK k \in Keys, v \in Values : b = Occupied(k, v)
  BY BucketsAre DEF Buckets
<1> QED
  BY <1>1, BucketsAre

\* A key that is not in the table goes into a bucket that is not occupied, one
\* that is into its own.
LEMMA SlotCount ==
    ASSUME NEW t \in Seq(Buckets), NEW k, NEW s, IsSlot(t, k, s)
    PROVE  /\ Cardinality(OccupiedIn(t) \cup {s}) =
                  Cardinality(OccupiedIn(t)) + (IF IsOccupied(t[s]) THEN 0 ELSE 1)
           /\ Cardinality(DeletedIn(t) \ {s}) = Cardinality(DeletedIn(t)) - Reused(t[s])
<1>1. s \in DOMAIN t
  BY DEF IsSlot
<1>2. IsFiniteSet(OccupiedIn(t)) /\ IsFiniteSet(DeletedIn(t))
      /\ Cardinality(OccupiedIn(t)) \in Nat /\ Cardinality(DeletedIn(t)) \in Nat
  BY CountIs
<1>3. s \in OccupiedIn(t) <=> IsOccupied(t[s])
  BY <1>1 DEF OccupiedIn
<1>4. s \in DeletedIn(t) <=> t[s] = Deleted
  BY <1>1 DEF DeletedIn
<1>5. Cardinality(OccupiedIn(t) \cup {s}) =
          IF s \in OccupiedIn(t) THEN Cardinality(OccupiedIn(t)) ELSE Cardinality(OccupiedIn(t)) + 1
  BY <1>2, FS_AddElement
<1>6. Cardinality(DeletedIn(t) \ {s}) =
          IF s \in DeletedIn(t) THEN Cardinality(DeletedIn(t)) - 1 ELSE Cardinality(DeletedIn(t))
  BY <1>2, FS_RemoveElement
<1> QED
  BY <1>2, <1>3, <1>4, <1>5, <1>6 DEF Reused

\* One bucket more.
LEMMA RehashStep ==
    ASSUME NEW t \in Seq(Buckets), NEW cap \in Nat, Hashing, Sound(hash, t),
           Cardinality(OccupiedIn(t)) < cap,
           NEW n \in 0 .. Len(t) - 1, NEW u, Rehashed(t, cap, n, u)
    PROVE  Rehashed(t, cap, n + 1,
                    IF IsOccupied(t[n + 1]) THEN Placed(u, t[n + 1]) ELSE u)
<1> DEFINE A == OccupiedIn(t)
           C == A \cap (1 .. n)
           D == A \cap (1 .. n + 1)
           b == t[n + 1]
<1>1. n \in Nat /\ n + 1 \in 1 .. Len(t) /\ DOMAIN t = 1 .. Len(t) /\ b \in Buckets
  OBVIOUS
<1>2. A \subseteq 1 .. Len(t) /\ IsFiniteSet(A) /\ Cardinality(A) \in Nat
  BY <1>1, CountIs DEF OccupiedIn
<1>3. /\ u \in Seq(Buckets) /\ Len(u) = cap /\ DeletedIn(u) = {} /\ Sound(hash, u)
      /\ Items(u) = {<<t[p].key, t[p].value>> : p \in C}
      /\ Cardinality(OccupiedIn(u)) = Cardinality(C)
  BY DEF Rehashed
<1>4. CASE ~IsOccupied(b)
  <2>1. n + 1 \notin A
    BY <1>4 DEF OccupiedIn
  <2>2. D = C
    BY <1>1, <1>2, <2>1
  <2> HIDE DEF A, C, D
  <2>3. Rehashed(t, cap, n + 1, u)
    BY <1>3, <2>2 DEF Rehashed, D, A
  <2> QED
    BY <1>4, <2>3
<1>5. CASE IsOccupied(b)
  <2> DEFINE k == b.key
             v == b.value
             s == Slot(u, k)
  <2>1. n + 1 \in A /\ n + 1 \notin C
    BY <1>1, <1>5 DEF OccupiedIn
  <2>2. D = C \cup {n + 1}
    BY <1>1, <1>2, <2>1
  <2>3. k \in DOMAIN hash
    BY <2>1 DEF Sound
  <2>4. b = Occupied(k, v) /\ v \in Values
    BY <1>1, <1>5, OccupiedIs
  <2>5. Placed(u, b) = [u EXCEPT ![s] = Occupied(k, v)]
    BY <2>4 DEF Placed
  <2>6. IsFiniteSet(C) /\ Cardinality(C) <= Cardinality(A) /\ Cardinality(C) \in Nat
    <3>1. C \subseteq A
      OBVIOUS
    <3> HIDE DEF A, C
    <3>2. IsFiniteSet(C) /\ Cardinality(C) <= Cardinality(A)
      BY <1>2, <3>1, FS_Subset
    <3> QED
      BY <3>2, FS_CardinalityType
  <2>7. \E p \in 1 .. Len(u) : u[p] = Empty
    <3>1. Cardinality(OccupiedIn(u)) + Cardinality(DeletedIn(u)) < Len(u)
      <4>1. Cardinality(DeletedIn(u)) = 0
        BY <1>3, FS_EmptySet
      <4> HIDE DEF A, C
      <4> QED
        BY <1>2, <1>3, <2>6, <4>1 DEF A
    <3> QED
      BY <1>3, <3>1, CountIs
  <2>8. \A p \in OccupiedIn(u) : u[p].key # k
    <3> SUFFICES ASSUME NEW p \in OccupiedIn(u), u[p].key = k PROVE FALSE
      OBVIOUS
    <3>1. <<u[p].key, u[p].value>> \in Items(u)
      BY DEF Items
    <3>2. PICK q \in C : u[p].key = t[q].key
      BY <1>3, <3>1
    <3>3. q \in A /\ q # n + 1 /\ t[q].key = t[n + 1].key
      BY <2>1, <3>2
    <3> HIDE DEF C, b, v, s
    <3> QED
      BY <2>1, <3>3, KeysDiffer
  <2>9. \A x \in Items(u) : x[1] # k
    BY <2>8 DEF Items
  <2> HIDE DEF A, C, D, b, k, v, s
  <2>10. Len(u) # 0 /\ Probe(u, k) # {}
    BY <1>3, <2>3, <2>7, ProbeEnds
  <2>11. IsSlot(u, k, s)
    BY <1>3, <2>3, <2>10, SlotIs DEF s
  <2>12. IsPlaced(u, k, v, s, Placed(u, b))
    <3>1. IsPlaced(u, k, v, s, [u EXCEPT ![s] = Occupied(k, v)])
      BY <1>3, <2>3, <2>4, <2>10, <2>11, PlaceSound, Zenon
    <3> QED
      BY <2>5, <3>1, Zenon
  <2> DEFINE w == Placed(u, b)
  <2>13. /\ w \in Seq(Buckets) /\ Len(w) = cap /\ DeletedIn(w) = {} /\ Sound(hash, w)
         /\ OccupiedIn(w) = OccupiedIn(u) \cup {s}
         /\ Items(w) = {x \in Items(u) : x[1] # k} \cup {<<k, v>>}
    BY <1>3, <2>12 DEF IsPlaced
  <2> HIDE DEF w
  <2>14. Items(w) = {<<t[p].key, t[p].value>> : p \in D}
    <3>1. Items(w) = Items(u) \cup {<<k, v>>}
      BY <2>9, <2>13
    <3>2. <<k, v>> = <<t[n + 1].key, t[n + 1].value>>
      BY DEF k, v, b
    <3> QED
      BY <1>3, <2>2, <3>1, <3>2
  <2>15. Cardinality(OccupiedIn(w)) = Cardinality(D)
    <3>1. s \notin OccupiedIn(u)
      BY <2>8, <2>11 DEF IsSlot, OccupiedIn
    <3>2. IsFiniteSet(OccupiedIn(u))
      BY <1>3, CountIs
    <3>3. Cardinality(OccupiedIn(w)) = Cardinality(OccupiedIn(u)) + 1
      BY <2>13, <3>1, <3>2, FS_AddElement
    <3>4. Cardinality(D) = Cardinality(C) + 1
      BY <2>1, <2>2, <2>6, FS_AddElement
    <3> QED
      BY <1>3, <3>3, <3>4
  <2>16. Rehashed(t, cap, n + 1, w)
    BY <2>13, <2>14, <2>15 DEF Rehashed, D, A
  <2> QED
    BY <1>5, <2>16 DEF w, b
<1> QED
  BY <1>4, <1>5

\* resize keeps the entries and drops the tombstones.
LEMMA RehashIs ==
    ASSUME NEW t \in Seq(Buckets), NEW cap \in Nat, Hashing, Sound(hash, t),
           Cardinality(OccupiedIn(t)) < cap
    PROVE  /\ Resized(t, cap) \in Seq(Buckets) /\ Len(Resized(t, cap)) = cap
           /\ DeletedIn(Resized(t, cap)) = {} /\ Sound(hash, Resized(t, cap))
           /\ Items(Resized(t, cap)) = Items(t)
           /\ Cardinality(OccupiedIn(Resized(t, cap))) = Cardinality(OccupiedIn(t))
<1>1. PICK f : Stages(t, cap, f) /\ Resized(t, cap) = f[Len(t)]
  BY ResizedIs
<1> DEFINE T == {n \in Nat : n <= Len(t) => Rehashed(t, cap, n, f[n])}
<1>2. 0 \in T
  <2>1. f[0] = Cleared(cap)
    BY <1>1 DEF Stages
  <2>2. OccupiedIn(t) \cap (1 .. 0) = {}
    OBVIOUS
  <2>3. Rehashed(t, cap, 0, f[0])
    BY <2>1, <2>2, ClearedIs, FS_EmptySet DEF Rehashed
  <2> QED
    BY <2>3
<1>3. ASSUME NEW n \in Nat, n \in T
      PROVE  n + 1 \in T
  <2> SUFFICES ASSUME n + 1 <= Len(t) PROVE Rehashed(t, cap, n + 1, f[n + 1])
    OBVIOUS
  <2>1. n \in 0 .. Len(t) - 1 /\ Rehashed(t, cap, n, f[n])
    BY <1>3
  <2>2. f[n + 1] = IF IsOccupied(t[n + 1]) THEN Placed(f[n], t[n + 1]) ELSE f[n]
    BY <1>1, <2>1 DEF Stages
  <2>3. Rehashed(t, cap, n + 1, IF IsOccupied(t[n + 1]) THEN Placed(f[n], t[n + 1]) ELSE f[n])
    BY <2>1, RehashStep, Zenon
  <2> QED
    BY <2>2, <2>3, Zenon
<1>4. \A n \in Nat : n \in T
  <2> HIDE DEF T
  <2> QED
    BY <1>2, <1>3, Induction
<1>5. Rehashed(t, cap, Len(t), Resized(t, cap))
  <2>1. Len(t) \in Nat /\ Len(t) <= Len(t)
    OBVIOUS
  <2> QED
    BY <1>1, <1>4, <2>1
<1>6. OccupiedIn(t) \cap (1 .. Len(t)) = OccupiedIn(t)
  BY DEF OccupiedIn
<1> QED
  BY <1>5, <1>6 DEF Rehashed, Items
-----------------------------------------------------------------------------
(* The invariant: every key is where its probe ends, the counters are true and *)
(* the load is below seven tenths, tombstones included.                       *)

Good(h, t, n, d) ==
    /\ t \in Seq(Buckets)
    /\ \/ Len(t) = 0
       \/ /\ Len(t) \in {PowerOfTwo[i] : i \in 3 .. Len(t)}
          /\ (n + d) * 10 < Len(t) * 7
    /\ n = Cardinality(OccupiedIn(t)) /\ d = Cardinality(DeletedIn(t))
    /\ Sound(h, t)

MapInv ==
    /\ hash \in Hashers
    /\ ret \in Values \cup {None}
    /\ Good(hash, table, len, deleted)

\* The hasher of the table is one of those assumed.
LEMMA InvHashing == MapInv => Hashing
BY HashAssumption DEF MapInv, Hashing

\* What a call finds of k is the value the map has for it.
LEMMA EntryIs ==
    ASSUME NEW t \in Seq(Buckets), NEW k, NEW s \in 1 .. Len(t),
           IsOccupied(t[s]) => t[s].key = k,
           \A p \in OccupiedIn(t) : t[p].key = k => p = s
    PROVE  LET E == {e \in Items(t) : e[1] = k}
           IN  /\ Value(t[s]) = IF E = {} THEN None ELSE (CHOOSE e \in E : TRUE)[2]
               /\ E = {} <=> ~IsOccupied(t[s])
               /\ Value(t[s]) \in Values \cup {None}
               /\ Value(t[s]) = None <=> ~IsOccupied(t[s])
<1> DEFINE E == {e \in Items(t) : e[1] = k}
<1>1. t[s] \in Buckets /\ s \in DOMAIN t
  OBVIOUS
<1>2. CASE IsOccupied(t[s])
  <2>1. s \in OccupiedIn(t) /\ t[s].key = k
    BY <1>1, <1>2 DEF OccupiedIn
  <2>2. E = {<<k, t[s].value>>}
    <3>1. ASSUME NEW e \in E
          PROVE  e = <<k, t[s].value>>
      <4>1. PICK p \in OccupiedIn(t) : e = <<t[p].key, t[p].value>>
        BY DEF Items
      <4>2. t[p].key = k
        BY <4>1
      <4> QED
        BY <4>1, <4>2
    <3>2. <<k, t[s].value>> \in E
      BY <2>1 DEF Items
    <3> QED
      BY <3>1, <3>2
  <2> HIDE DEF E
  <2>3. (CHOOSE e \in E : TRUE) = <<k, t[s].value>>
    BY <2>2
  <2>4. t[s].value \in Values /\ Value(t[s]) = t[s].value
    BY <1>1, <1>2, OccupiedIs DEF Value
  <2>5. t[s].value # None
    BY <2>4, HashAssumption
  <2>6. E # {} /\ (CHOOSE e \in E : TRUE)[2] = t[s].value
    BY <2>2, <2>3
  <2> QED
    BY <1>2, <2>4, <2>5, <2>6 DEF E
<1>3. CASE ~IsOccupied(t[s])
  <2>1. E = {}
    <3> SUFFICES ASSUME NEW e \in E PROVE FALSE
      OBVIOUS
    <3>1. PICK p \in OccupiedIn(t) : e = <<t[p].key, t[p].value>>
      BY DEF Items
    <3>2. t[p].key = k
      BY <3>1
    <3>3. p = s
      BY <3>2
    <3> QED
      BY <1>3, <3>3 DEF OccupiedIn
  <2> HIDE DEF E
  <2>2. Value(t[s]) = None
    BY <1>3 DEF Value
  <2> QED
    BY <1>3, <2>1, <2>2 DEF E
<1> QED
  BY <1>2, <1>3

\* A table that is in order and not empty.
LEMMA GoodIs ==
    ASSUME NEW t, NEW n, NEW d, Good(hash, t, n, d), t # <<>>
    PROVE  /\ t \in Seq(Buckets) /\ Len(t) \in Nat \ {0} /\ Sound(hash, t)
           /\ n \in Nat /\ d \in Nat /\ (n + d) * 10 < Len(t) * 7
           /\ Len(t) \in {PowerOfTwo[i] : i \in 3 .. Len(t)}
           /\ \E p \in 1 .. Len(t) : t[p] = Empty
<1>1. t \in Seq(Buckets) /\ Len(t) \in Nat \ {0} /\ Sound(hash, t)
  BY DEF Good
<1>2. n \in Nat /\ d \in Nat
  BY CountIs DEF Good
<1>3. (n + d) * 10 < Len(t) * 7 /\ Len(t) \in {PowerOfTwo[i] : i \in 3 .. Len(t)}
  BY <1>1 DEF Good
<1>4. n + d < Len(t)
  <2> DEFINE L == Len(t)
  <2>1. L \in Nat /\ (n + d) * 10 < L * 7
    BY <1>1, <1>3
  <2> HIDE DEF L
  <2>2. n + d < L
    BY <1>2, <2>1
  <2> QED
    BY <2>2 DEF L
<1>5. \E p \in 1 .. Len(t) : t[p] = Empty
  BY <1>1, <1>4, CountIs DEF Good
<1> QED
  BY <1>1, <1>2, <1>3, <1>5

\* A new table is in order, whatever capacity it is asked for.
LEMMA InitGood == Init => MapInv
<1> SUFFICES ASSUME Init PROVE MapInv
  OBVIOUS
<1>1. hash \in Hashers /\ ret \in Values \cup {None} /\ len = 0 /\ deleted = 0
  BY DEF Init
<1>2. CASE table = <<>>
  <2>1. table \in Seq(Buckets) /\ Len(table) = 0
    BY <1>2
  <2>2. OccupiedIn(table) = {} /\ DeletedIn(table) = {}
    BY <1>2 DEF OccupiedIn, DeletedIn
  <2>3. Good(hash, table, len, deleted)
    BY <1>1, <2>1, <2>2, FS_EmptySet DEF Good, Sound
  <2> QED
    BY <1>1, <2>3 DEF MapInv
<1>3. CASE table # <<>>
  <2>1. PICK n \in Capacities : table = WithCapacity(n)
    BY <1>3 DEF Init
  <2> DEFINE m == (n * 3) \div 2
             cap == MaxOf(NextPowerOfTwo(m), 8)
  <2>2. n \in Nat
    BY HashAssumption
  <2>3. m \in Nat
    BY <2>2, Division
  <2>4. table = Cleared(cap)
    BY <2>1 DEF WithCapacity
  <2> HIDE DEF m
  <2>5. cap \in Nat /\ cap >= 8 /\ cap \in {PowerOfTwo[i] : i \in 3 .. cap}
    BY <2>3, CapacityIs
  <2> HIDE DEF cap
  <2>6. /\ table \in Seq(Buckets) /\ Len(table) = cap
        /\ OccupiedIn(table) = {} /\ DeletedIn(table) = {} /\ Sound(hash, table)
    BY <2>4, <2>5, ClearedIs
  <2>7. (0 + 0) * 10 < cap * 7
    BY <2>5
  <2>8. Good(hash, table, len, deleted)
    BY <1>1, <2>5, <2>6, <2>7, FS_EmptySet DEF Good
  <2> QED
    BY <1>1, <2>8 DEF MapInv
<1> QED
  BY <1>2, <1>3
-----------------------------------------------------------------------------
(* The calls *)

\* What insert puts its entry into.
Insertion(t, n, d) ==
    /\ Good(hash, t, n, d) /\ t # <<>>
    /\ (n + d + 1) * 10 < Len(t) * 7
    /\ Items(t) = Items(table)

\* insert makes room first, if there is none.
LEMMA RoomIsMade ==
    ASSUME MapInv
    PROVE  Insertion(IF Full THEN Resized(table, NewCap) ELSE table,
                     IF Full THEN Cardinality(OccupiedIn(Resized(table, NewCap))) ELSE len,
                     IF Full THEN 0 ELSE deleted)
<1>1. Good(hash, table, len, deleted)
  BY DEF MapInv
<1>2. table \in Seq(Buckets) /\ len = Cardinality(OccupiedIn(table)) /\ Sound(hash, table)
  BY <1>1 DEF Good
<1>3. CASE Full
  <2> DEFINE t == Resized(table, NewCap)
  <2>1. len \in Nat
    BY <1>2, CountIs
  <2>2. (len + 1) * 2 \in Nat
    BY <2>1
  <2>3. /\ NewCap \in Nat /\ NewCap >= (len + 1) * 2 /\ NewCap >= 8
        /\ NewCap \in {PowerOfTwo[i] : i \in 3 .. NewCap}
    BY <2>2, CapacityIs DEF NewCap
  <2>4. len < NewCap
    BY <2>1, <2>3
  <2>5. /\ t \in Seq(Buckets) /\ Len(t) = NewCap /\ DeletedIn(t) = {} /\ Sound(hash, t)
        /\ Items(t) = Items(table) /\ Cardinality(OccupiedIn(t)) = len
    BY <1>2, <2>3, <2>4, InvHashing, RehashIs
  <2> HIDE DEF t
  <2>6. t # <<>>
    BY <2>3, <2>5
  <2>7. (len + 0) * 10 < NewCap * 7 /\ (len + 0 + 1) * 10 < NewCap * 7
    BY <2>1, <2>3
  <2>8. Good(hash, t, len, 0)
    BY <2>3, <2>5, <2>7, FS_EmptySet DEF Good
  <2>9. Insertion(t, len, 0)
    BY <2>5, <2>6, <2>7, <2>8 DEF Insertion
  <2> QED
    BY <1>3, <2>5, <2>9 DEF t
<1>4. CASE ~Full
  <2>1. table # <<>> /\ ~((len + deleted + 1) * 10 >= Len(table) * 7)
    BY <1>4 DEF Full
  <2>2. len \in Nat /\ deleted \in Nat /\ Len(table) \in Nat
    BY <1>1, <2>1, GoodIs
  <2> DEFINE L == Len(table)
  <2>3. (len + deleted + 1) * 10 < L * 7
    <3>1. L \in Nat /\ ~((len + deleted + 1) * 10 >= L * 7)
      BY <2>1, <2>2
    <3> HIDE DEF L
    <3> QED
      BY <2>2, <3>1
  <2>4. Insertion(table, len, deleted)
    BY <1>1, <2>1, <2>3 DEF Insertion
  <2> QED
    BY <1>4, <2>4
<1> QED
  BY <1>3, <1>4

\* Putting an entry where there is room leaves the table in order.
LEMMA PutGood ==
    ASSUME NEW t, NEW n, NEW d, Good(hash, t, n, d), t # <<>>, Hashing,
           NEW k \in DOMAIN hash, NEW v \in Values, NEW s, IsSlot(t, k, s),
           (n + d + 1) * 10 < Len(t) * 7 \/ IsOccupied(t[s])
    PROVE  Good(hash, [t EXCEPT ![s] = Occupied(k, v)],
                n + (IF IsOccupied(t[s]) THEN 0 ELSE 1), d - Reused(t[s]))
<1> DEFINE u == [t EXCEPT ![s] = Occupied(k, v)]
           m == n + (IF IsOccupied(t[s]) THEN 0 ELSE 1)
           e == d - Reused(t[s])
           L == Len(t)
<1>1. /\ t \in Seq(Buckets) /\ L \in Nat \ {0} /\ Sound(hash, t)
      /\ n \in Nat /\ d \in Nat /\ (n + d) * 10 < L * 7
      /\ L \in {PowerOfTwo[i] : i \in 3 .. L}
  BY GoodIs
<1>2. IsPlaced(t, k, v, s, u)
  <2>1. Len(t) # 0
    BY <1>1
  <2> QED
    BY <1>1, <2>1, PlaceSound, Zenon
<1>3. m = Cardinality(OccupiedIn(t) \cup {s}) /\ e = Cardinality(DeletedIn(t) \ {s})
  BY <1>1, SlotCount DEF Good
<1>4. (m + e) * 10 < L * 7
  <2>1. (IF IsOccupied(t[s]) THEN m = n ELSE m = n + 1) /\ (e = d \/ e = d - 1)
    BY <1>1 DEF Reused
  <2>2. (n + d + 1) * 10 < L * 7 \/ IsOccupied(t[s])
    OBVIOUS
  <2> HIDE DEF m, e, L
  <2> QED
    BY <1>1, <2>1, <2>2
<1> HIDE DEF u, m, e
<1>5. u \in Seq(Buckets) /\ Len(u) = L /\ Sound(hash, u)
      /\ m = Cardinality(OccupiedIn(u)) /\ e = Cardinality(DeletedIn(u))
  BY <1>2, <1>3 DEF IsPlaced
<1> HIDE DEF L
<1>6. Good(hash, u, m, e)
  BY <1>1, <1>4, <1>5 DEF Good
<1> QED
  BY <1>6 DEF u, m, e

\* insert replaces the entry of its key, in the table or in the one resized.
LEMMA InsertStep ==
    ASSUME MapInv, NEW k \in DOMAIN hash, NEW v \in ValuesOf[k], Insert(k, v)
    PROVE  MapInv' /\ Map!Insert(k, v)
<1> DEFINE t == IF Full THEN Resized(table, NewCap) ELSE table
           n == IF Full THEN Cardinality(OccupiedIn(Resized(table, NewCap))) ELSE len
           d == IF Full THEN 0 ELSE deleted
           s == Slot(t, k)
<1>1. Insertion(t, n, d)
  BY RoomIsMade
<1>2. /\ Probe(t, k) # {}
      /\ table' = [t EXCEPT ![s] = Occupied(k, v)]
      /\ len' = n + (IF IsOccupied(t[s]) THEN 0 ELSE 1)
      /\ deleted' = d - Reused(t[s])
      /\ ret' = Value(t[s])
      /\ hash' = hash
  BY DEF Insert
<1>3. Hashing /\ k \in Keys /\ v \in Values
  <2>1. Hashing
    BY InvHashing
  <2>2. k \in Keys
    BY <2>1 DEF Hashing
  <2> QED
    BY <2>1, <2>2, HashAssumption
<1> HIDE DEF t, n, d, s
<1>4. /\ Good(hash, t, n, d) /\ t # <<>> /\ (n + d + 1) * 10 < Len(t) * 7
      /\ Items(t) = Items(table)
  BY <1>1 DEF Insertion
<1>5. t \in Seq(Buckets) /\ Len(t) # 0 /\ Sound(hash, t)
  BY <1>4, GoodIs
<1>6. IsSlot(t, k, s)
  BY <1>2, <1>3, <1>5, SlotIs DEF s
<1>7. Good(hash, table', len', deleted')
  BY <1>2, <1>3, <1>4, <1>6, PutGood
<1>8. IsPlaced(t, k, v, s, table')
  <2>1. IsPlaced(t, k, v, s, [t EXCEPT ![s] = Occupied(k, v)])
    BY <1>3, <1>5, <1>6, PlaceSound, Zenon
  <2> QED
    BY <1>2, <2>1, Zenon
<1> DEFINE E == {e \in Items(t) : e[1] = k}
<1>9. /\ Value(t[s]) = IF E = {} THEN None ELSE (CHOOSE e \in E : TRUE)[2]
      /\ Value(t[s]) \in Values \cup {None}
  BY <1>5, <1>6, EntryIs DEF IsSlot
<1>10. MapInv'
  BY <1>2, <1>7, <1>9 DEF MapInv
<1>11. Items(table') = (Items(table) \ E) \cup {<<k, v>>}
  BY <1>4, <1>8 DEF IsPlaced
<1>12. E = {e \in Items(table) : e[1] = k}
  BY <1>4
<1> HIDE DEF E
<1>13. Map!Insert(k, v)
  BY <1>2, <1>9, <1>11, <1>12 DEF Map!Insert, Map!Result, Map!Entry
<1> QED
  BY <1>10, <1>13

\* get, get_mut and remove find k where it is stored.
LEMMA LookupIs ==
    ASSUME MapInv, NEW k \in DOMAIN hash, table # <<>> => Probe(table, k) # {}
    PROVE  LET E == {e \in Items(table) : e[1] = k}
               f == Found(table, k)
           IN  /\ Lookup(k) = IF E = {} THEN None ELSE (CHOOSE e \in E : TRUE)[2]
               /\ Lookup(k) \in Values \cup {None}
               /\ Lookup(k) = None <=> E = {}
               /\ Lookup(k) # None => /\ table # <<>>
                                      /\ Probe(table, k) # {}
                                      /\ IsOccupied(table[f])
                                      /\ IsSlot(table, k, f)
<1> DEFINE E == {e \in Items(table) : e[1] = k}
           f == Found(table, k)
<1>1. Good(hash, table, len, deleted) /\ Hashing
  BY InvHashing DEF MapInv
<1>2. CASE table = <<>>
  <2>1. OccupiedIn(table) = {}
    BY <1>2 DEF OccupiedIn
  <2>2. E = {}
    BY <2>1 DEF Items
  <2>3. Lookup(k) = None
    BY <1>2 DEF Lookup
  <2> QED
    BY <2>2, <2>3
<1>3. CASE table # <<>>
  <2>1. table \in Seq(Buckets) /\ Len(table) # 0 /\ Sound(hash, table) /\ DOMAIN table = 1 .. Len(table)
    BY <1>1, <1>3, GoodIs
  <2>2. Probe(table, k) # {}
    BY <1>3
  <2>3. /\ f \in 1 .. Len(table)
        /\ IsOccupied(table[f]) => table[f].key = k
        /\ \A p \in OccupiedIn(table) : table[p].key = k => p = f
    BY <1>1, <2>1, <2>2, FoundIs
  <2>4. Lookup(k) = Value(table[f])
    BY <1>3 DEF Lookup
  <2>5. IsSlot(table, k, f)
    <3>1. LET L == Len(table)
              e == Min(Probe(table, k))
          IN  /\ e \in 0 .. L - 1
              /\ f = Probed(L, hash[k], e) /\ f \in 1 .. L
              /\ Ends(table[f], k)
              /\ \A j \in 0 .. e - 1 : ~Ends(table[Probed(L, hash[k], j)], k)
      BY <1>1, <2>1, <2>2, ProbeIs
    <3> HIDE DEF f
    <3> QED
      BY <2>3, <3>1 DEF IsSlot
  <2> HIDE DEF f
  <2>6. /\ Value(table[f]) = IF E = {} THEN None ELSE (CHOOSE e \in E : TRUE)[2]
        /\ E = {} <=> ~IsOccupied(table[f])
        /\ Value(table[f]) \in Values \cup {None}
        /\ Value(table[f]) = None <=> ~IsOccupied(table[f])
    BY <2>1, <2>3, EntryIs
  <2> HIDE DEF E
  <2> QED
    BY <1>3, <2>2, <2>4, <2>5, <2>6 DEF E, f
<1> QED
  BY <1>2, <1>3

\* get returns what is stored under the key.
LEMMA GetStep ==
    ASSUME MapInv, NEW k \in DOMAIN hash, Get(k)
    PROVE  MapInv' /\ Map!Get(k)
<1> DEFINE E == {e \in Items(table) : e[1] = k}
<1>1. /\ Lookup(k) = IF E = {} THEN None ELSE (CHOOSE e \in E : TRUE)[2]
      /\ Lookup(k) \in Values \cup {None}
  <2>1. table # <<>> => Probe(table, k) # {}
    BY DEF Get
  <2> QED
    BY <2>1, LookupIs
<1>2. /\ ret' = Lookup(k) /\ table' = table /\ hash' = hash /\ len' = len /\ deleted' = deleted
  BY DEF Get
<1>3. MapInv'
  BY <1>1, <1>2 DEF MapInv
<1> HIDE DEF E
<1>4. Map!Get(k)
  BY <1>1, <1>2 DEF Map!Get, Map!Result, Map!Entry, E
<1> QED
  BY <1>3, <1>4

\* get_mut changes the value of a key that is there, and nothing else.
LEMMA GetMutStep ==
    ASSUME MapInv, NEW k \in DOMAIN hash, NEW v \in ValuesOf[k], GetMut(k, v)
    PROVE  MapInv' /\ (Map!Get(k) \/ Map!GetMut(k, v))
<1> DEFINE E == {e \in Items(table) : e[1] = k}
           f == Found(table, k)
<1>0. table # <<>> => Probe(table, k) # {}
  BY DEF GetMut
<1>1. /\ Lookup(k) = IF E = {} THEN None ELSE (CHOOSE e \in E : TRUE)[2]
      /\ Lookup(k) \in Values \cup {None}
      /\ Lookup(k) = None <=> E = {}
      /\ Lookup(k) # None => /\ table # <<>>
                             /\ Probe(table, k) # {}
                             /\ IsOccupied(table[f])
                             /\ IsSlot(table, k, f)
  BY <1>0, LookupIs
<1>2. /\ ret' = Lookup(k) /\ hash' = hash /\ len' = len /\ deleted' = deleted
      /\ table' = IF Lookup(k) = None THEN table ELSE [table EXCEPT ![f].value = v]
  BY DEF GetMut
<1>3. CASE Lookup(k) = None
  <2>1. MapInv'
    BY <1>1, <1>2, <1>3 DEF MapInv
  <2> HIDE DEF E
  <2>2. Map!Get(k)
    BY <1>1, <1>2, <1>3 DEF Map!Get, Map!Result, Map!Entry, E
  <2> QED
    BY <2>1, <2>2
<1>4. CASE Lookup(k) # None
  <2>1. Good(hash, table, len, deleted) /\ Hashing
    BY InvHashing DEF MapInv
  <2>2. k \in Keys /\ v \in Values
    <3>1. k \in Keys
      BY <2>1 DEF Hashing
    <3> QED
      BY <3>1, HashAssumption
  <2>3. table \in Seq(Buckets) /\ Len(table) # 0 /\ Sound(hash, table) /\ len \in Nat /\ deleted \in Nat
    BY <1>1, <1>4, <2>1, GoodIs
  <2> HIDE DEF E, f
  <2>4. f \in 1 .. Len(table) /\ IsOccupied(table[f]) /\ table[f].key = k /\ IsSlot(table, k, f)
    BY <1>1, <1>4 DEF IsSlot
  <2>5. table' = [table EXCEPT ![f] = Occupied(k, v)]
    <3> DEFINE b == table[f]
    <3>1. b \in Buckets
      BY <2>3, <2>4
    <3>2. b = Occupied(k, b.value)
      BY <2>4, <3>1, OccupiedIs
    <3>3. [b EXCEPT !.value = v] = Occupied(k, v)
      <4>1. [Occupied(k, b.value) EXCEPT !.value = v] = Occupied(k, v)
        BY DEF Occupied
      <4> HIDE DEF b
      <4> QED
        BY <3>2, <4>1
    <3>4. table' = [table EXCEPT ![f] = [b EXCEPT !.value = v]]
      BY <1>2, <1>4
    <3> HIDE DEF b
    <3> QED
      BY <3>3, <3>4
  <2>6. Good(hash, table', len', deleted')
    <3>1. Good(hash, [table EXCEPT ![f] = Occupied(k, v)],
               len + (IF IsOccupied(table[f]) THEN 0 ELSE 1), deleted - Reused(table[f]))
      BY <1>1, <1>4, <2>1, <2>2, <2>4, PutGood
    <3>2. len + (IF IsOccupied(table[f]) THEN 0 ELSE 1) = len
      BY <2>3, <2>4
    <3>3. deleted - Reused(table[f]) = deleted
      <4>1. table[f] # Deleted
        BY <2>4, BucketsAre
      <4> QED
        BY <2>3, <4>1 DEF Reused
    <3> QED
      BY <1>2, <2>5, <3>1, <3>2, <3>3
  <2>7. IsPlaced(table, k, v, f, table')
    <3>1. IsPlaced(table, k, v, f, [table EXCEPT ![f] = Occupied(k, v)])
      BY <2>1, <2>2, <2>3, <2>4, PlaceSound, Zenon
    <3> QED
      BY <2>5, <3>1, Zenon
  <2>8. MapInv'
    BY <1>1, <1>2, <2>6 DEF MapInv
  <2>9. Items(table') = (Items(table) \ E) \cup {<<k, v>>}
    BY <2>7 DEF IsPlaced, E
  <2>10. Map!GetMut(k, v)
    BY <1>1, <1>2, <1>4, <2>9 DEF Map!GetMut, Map!Insert, Map!Result, Map!Entry, E
  <2> QED
    BY <2>8, <2>10
<1> QED
  BY <1>3, <1>4

\* remove takes the entry of its key out, and no other out of reach.
LEMMA RemoveStep ==
    ASSUME MapInv, NEW k \in DOMAIN hash, Remove(k)
    PROVE  MapInv' /\ Map!Remove(k)
<1> DEFINE E == {e \in Items(table) : e[1] = k}
           f == Found(table, k)
<1>0. table # <<>> => Probe(table, k) # {}
  BY DEF Remove
<1>1. /\ Lookup(k) = IF E = {} THEN None ELSE (CHOOSE e \in E : TRUE)[2]
      /\ Lookup(k) \in Values \cup {None}
      /\ Lookup(k) = None <=> E = {}
      /\ Lookup(k) # None => /\ table # <<>>
                             /\ Probe(table, k) # {}
                             /\ IsOccupied(table[f])
                             /\ IsSlot(table, k, f)
  BY <1>0, LookupIs
<1>2. ret' = Lookup(k) /\ hash' = hash
  BY DEF Remove
<1>3. CASE Lookup(k) = None
  <2>1. table' = table /\ len' = len /\ deleted' = deleted
    BY <1>3 DEF Remove
  <2>2. MapInv'
    BY <1>1, <1>2, <2>1 DEF MapInv
  <2> HIDE DEF E
  <2>3. Map!Remove(k)
    BY <1>1, <1>2, <1>3, <2>1 DEF Map!Remove, Map!Result, Map!Entry, E
  <2> QED
    BY <2>2, <2>3
<1>4. CASE Lookup(k) # None
  <2>1. Good(hash, table, len, deleted) /\ Hashing
    BY InvHashing DEF MapInv
  <2>2. /\ table \in Seq(Buckets) /\ Len(table) \in Nat \ {0} /\ Sound(hash, table)
        /\ len \in Nat /\ deleted \in Nat /\ (len + deleted) * 10 < Len(table) * 7
        /\ Len(table) \in {PowerOfTwo[i] : i \in 3 .. Len(table)}
    BY <1>1, <1>4, <2>1, GoodIs
  <2>3. table' = [table EXCEPT ![f] = Deleted] /\ len' = len - 1 /\ deleted' = deleted + 1
    BY <1>4 DEF Remove, Tombstone
  <2>4. IsErased(table, k, f, table')
    <3>1. IsErased(table, k, f, [table EXCEPT ![f] = Deleted])
      <4>1. Len(table) # 0 /\ IsOccupied(table[f]) /\ Probe(table, k) # {}
        BY <1>1, <1>4, <2>2
      <4> QED
        BY <2>1, <2>2, <4>1, EraseSound
    <3> QED
      BY <2>3, <3>1
  <2> HIDE DEF E, f
  <2>5. f \in OccupiedIn(table) /\ f \notin DeletedIn(table)
    BY <1>1, <1>4, BucketsAre DEF IsSlot, OccupiedIn, DeletedIn
  <2>6. len' = Cardinality(OccupiedIn(table)) - 1 /\ deleted' = Cardinality(DeletedIn(table)) + 1
    BY <2>1, <2>3 DEF Good
  <2>7. Cardinality(OccupiedIn(table) \ {f}) = Cardinality(OccupiedIn(table)) - 1
    BY <2>2, <2>5, CountIs, FS_RemoveElement
  <2>8. Cardinality(DeletedIn(table) \cup {f}) = Cardinality(DeletedIn(table)) + 1
    BY <2>2, <2>5, CountIs, FS_AddElement
  <2>9. len' = Cardinality(OccupiedIn(table')) /\ deleted' = Cardinality(DeletedIn(table'))
    BY <2>4, <2>6, <2>7, <2>8 DEF IsErased
  <2>10. len' + deleted' = len + deleted
    BY <2>2, <2>3
  <2>11. table' \in Seq(Buckets) /\ Len(table') = Len(table) /\ Sound(hash, table')
    BY <2>4 DEF IsErased
  <2>12. Good(hash, table', len', deleted')
    BY <2>2, <2>9, <2>10, <2>11 DEF Good
  <2>13. MapInv'
    BY <1>1, <1>2, <2>12 DEF MapInv
  <2>14. Items(table') = Items(table) \ E
    BY <2>4 DEF IsErased, E
  <2>15. Map!Remove(k)
    BY <1>1, <1>2, <2>14 DEF Map!Remove, Map!Result, Map!Entry, E
  <2> QED
    BY <2>13, <2>15
<1> QED
  BY <1>3, <1>4

\* iter_mut changes values, and no key.
LEMMA IterMutStep ==
    ASSUME MapInv, NEW v \in Values, IterMut(v)
    PROVE  MapInv' /\ Map!SetAll(v)
<1> DEFINE u == table'
           Chosen(p) == v \in ValuesOf[table[p].key]
<1>1. /\ hash' = hash /\ len' = len /\ deleted' = deleted /\ ret' = None
      /\ u = [p \in DOMAIN table |-> IF IsOccupied(table[p]) /\ Chosen(p)
                                     THEN [table[p] EXCEPT !.value = v] ELSE table[p]]
  BY DEF IterMut
<1>2. Good(hash, table, len, deleted) /\ Hashing
  BY InvHashing DEF MapInv
<1>3. table \in Seq(Buckets) /\ Len(table) \in Nat /\ DOMAIN table = 1 .. Len(table)
      /\ Sound(hash, table)
  BY <1>2 DEF Good
<1>4. ASSUME NEW p \in 1 .. Len(table)
      PROVE  /\ u[p] \in Buckets
             /\ IsOccupied(u[p]) <=> IsOccupied(table[p])
             /\ IsOccupied(table[p]) =>
                    /\ u[p].key = table[p].key
                    /\ u[p].value = IF Chosen(p) THEN v ELSE table[p].value
             /\ ~IsOccupied(table[p]) => u[p] = table[p]
  <2> DEFINE b == table[p]
  <2>1. b \in Buckets
    BY <1>3
  <2>2. u[p] = IF IsOccupied(b) /\ Chosen(p) THEN [b EXCEPT !.value = v] ELSE b
    BY <1>1, <1>3
  <2>3. CASE IsOccupied(b) /\ Chosen(p)
    <3>1. b = Occupied(b.key, b.value) /\ b.key \in Keys
      BY <2>1, <2>3, OccupiedIs
    <3>2. [b EXCEPT !.value = v] = Occupied(b.key, v)
      <4> DEFINE k == b.key
                 w == b.value
      <4>1. [Occupied(k, w) EXCEPT !.value = v] = Occupied(k, v)
        BY DEF Occupied
      <4>2. b = Occupied(k, w)
        BY <3>1
      <4> HIDE DEF b, k, w
      <4>3. [b EXCEPT !.value = v] = Occupied(k, v)
        BY <4>1, <4>2
      <4> QED
        BY <4>3 DEF k
    <3>3. u[p] = Occupied(b.key, v)
      BY <2>2, <2>3, <3>2
    <3> HIDE DEF b, u, Chosen
    <3>4. /\ u[p] \in Buckets /\ IsOccupied(u[p]) /\ u[p].key = b.key /\ u[p].value = v
      BY <3>1, <3>3, BucketsAre
    <3> QED
      BY <2>3, <3>4 DEF b
  <2>4. CASE ~(IsOccupied(b) /\ Chosen(p))
    <3>1. u[p] = b
      BY <2>2, <2>4
    <3> HIDE DEF u, Chosen
    <3> QED
      BY <2>1, <2>4, <3>1
  <2> QED
    BY <2>3, <2>4
<1>5. u \in Seq(Buckets) /\ Len(u) = Len(table)
  <2>1. u = [p \in 1 .. Len(table) |-> u[p]]
    BY <1>1, <1>3
  <2> HIDE DEF u
  <2>2. u \in [1 .. Len(table) -> Buckets]
    BY <1>4, <2>1
  <2> QED
    BY <1>3, <2>2
<1> HIDE DEF u
<1>6. \A p \in 1 .. Len(table) : /\ u[p] = Empty <=> table[p] = Empty
                                 /\ u[p] = Deleted <=> table[p] = Deleted
  <2> HIDE DEF Chosen
  <2> QED
    BY <1>4, BucketsAre
<1>7. Sound(hash, u) /\ OccupiedIn(u) = OccupiedIn(table)
  <2> HIDE DEF Chosen
  <2>1. \A p \in 1 .. Len(table) :
            /\ IsOccupied(u[p]) <=> IsOccupied(table[p])
            /\ IsOccupied(table[p]) => u[p].key = table[p].key
            /\ u[p] = Empty <=> table[p] = Empty
    BY <1>4, <1>6
  <2> QED
    BY <1>2, <1>3, <1>5, <2>1, ValuesSound
<1>8. DeletedIn(u) = DeletedIn(table)
  <2>1. DOMAIN u = DOMAIN table
    BY <1>3, <1>5
  <2> QED
    BY <1>3, <1>6, <2>1 DEF DeletedIn
<1>9. Good(hash, u, len, deleted)
  BY <1>2, <1>5, <1>7, <1>8 DEF Good
<1>10. MapInv'
  BY <1>1, <1>9 DEF MapInv, u
<1>11. Items(u) = {<<e[1], IF v \in ValuesOf[e[1]] THEN v ELSE e[2]>> : e \in Items(table)}
  <2> DEFINE New(e) == <<e[1], IF v \in ValuesOf[e[1]] THEN v ELSE e[2]>>
             Pair(p) == <<table[p].key, table[p].value>>
  <2>1. \A p \in OccupiedIn(table) : <<u[p].key, u[p].value>> = New(Pair(p))
    BY <1>3, <1>4 DEF OccupiedIn
  <2>2. Items(u) = {New(Pair(p)) : p \in OccupiedIn(table)}
    <3> HIDE DEF New, Pair
    <3> QED
      BY <1>7, <2>1 DEF Items
  <2>3. Items(table) = {Pair(p) : p \in OccupiedIn(table)}
    BY DEF Items
  <2> HIDE DEF Pair
  <2>4. {New(Pair(p)) : p \in OccupiedIn(table)} = {New(e) : e \in Items(table)}
    <3> HIDE DEF New
    <3> QED
      BY <2>3
  <2> QED
    BY <2>2, <2>4
<1>12. Map!SetAll(v)
  BY <1>1, <1>11 DEF Map!SetAll, u
<1> QED
  BY <1>10, <1>12

\* clear leaves a table as new.
LEMMA ClearStep ==
    ASSUME MapInv, Clear
    PROVE  MapInv' /\ Map!Clear
<1>1. table' = <<>> /\ len' = 0 /\ deleted' = 0 /\ ret' = None /\ hash' = hash
  BY DEF Clear
<1>2. OccupiedIn(table') = {} /\ DeletedIn(table') = {}
  BY <1>1 DEF OccupiedIn, DeletedIn
<1>3. table' \in Seq(Buckets) /\ Len(table') = 0
  BY <1>1
<1>4. Good(hash, table', len', deleted')
  BY <1>1, <1>2, <1>3, FS_EmptySet DEF Good, Sound
<1>5. MapInv'
  BY <1>1, <1>4 DEF MapInv
<1>6. Items(table') = {}
  BY <1>2 DEF Items
<1>7. Map!Clear
  BY <1>1, <1>6 DEF Map!Clear
<1> QED
  BY <1>5, <1>7

\* Every call keeps the invariant and does what the finite map's does.
LEMMA NextStep == MapInv /\ [Next]_vars => MapInv' /\ [Map!Next]_<<Items(table), ret>>
<1> SUFFICES ASSUME MapInv, [Next]_vars
             PROVE  MapInv' /\ [Map!Next]_<<Items(table), ret>>
  OBVIOUS
<1>1. Hashing
  BY InvHashing
<1>2. \A k \in DOMAIN hash : k \in Keys
  BY <1>1 DEF Hashing
<1>3. ASSUME NEW k \in Keys
      PROVE  ValuesOf[k] \subseteq Values
  BY HashAssumption
<1>4. CASE \E k \in DOMAIN hash : Get(k)
  <2>1. PICK k \in DOMAIN hash : Get(k)
    BY <1>4
  <2>2. MapInv' /\ Map!Get(k) /\ k \in Keys
    BY <1>2, <2>1, GetStep
  <2> QED
    BY <2>2 DEF Map!Next
<1>5. CASE \E k \in DOMAIN hash : Remove(k)
  <2>1. PICK k \in DOMAIN hash : Remove(k)
    BY <1>5
  <2>2. MapInv' /\ Map!Remove(k) /\ k \in Keys
    BY <1>2, <2>1, RemoveStep
  <2> QED
    BY <2>2 DEF Map!Next
<1>6. CASE \E k \in DOMAIN hash : \E v \in ValuesOf[k] : Insert(k, v)
  <2>0. PICK k \in DOMAIN hash : \E v \in ValuesOf[k] : Insert(k, v)
    BY <1>6
  <2>1. PICK v \in ValuesOf[k] : Insert(k, v)
    BY <2>0
  <2>2. MapInv' /\ Map!Insert(k, v) /\ k \in Keys /\ v \in Values
    BY <1>2, <1>3, <2>1, InsertStep
  <2> QED
    BY <2>2 DEF Map!Next
<1>7. CASE \E k \in DOMAIN hash : \E v \in ValuesOf[k] : GetMut(k, v)
  <2>0. PICK k \in DOMAIN hash : \E v \in ValuesOf[k] : GetMut(k, v)
    BY <1>7
  <2>1. PICK v \in ValuesOf[k] : GetMut(k, v)
    BY <2>0
  <2>2. MapInv' /\ (Map!Get(k) \/ Map!GetMut(k, v)) /\ k \in Keys /\ v \in Values
    BY <1>2, <1>3, <2>1, GetMutStep
  <2> QED
    BY <2>2 DEF Map!Next
<1>8. CASE \E v \in Values : IterMut(v)
  <2>1. PICK v \in Values : IterMut(v)
    BY <1>8
  <2>2. MapInv' /\ Map!SetAll(v)
    BY <2>1, IterMutStep
  <2> QED
    BY <2>1, <2>2 DEF Map!Next
<1>9. CASE Clear
  <2>1. MapInv' /\ Map!Clear
    BY <1>9, ClearStep
  <2> QED
    BY <2>1 DEF Map!Next
<1>10. CASE UNCHANGED vars
  <2>1. table' = table /\ hash' = hash /\ len' = len /\ deleted' = deleted /\ ret' = ret
    BY <1>10 DEF vars
  <2>2. MapInv'
    BY <2>1 DEF MapInv
  <2> QED
    BY <2>1, <2>2
<1> QED
  BY <1>4, <1>5, <1>6, <1>7, <1>8, <1>9, <1>10 DEF Next
-----------------------------------------------------------------------------
(* The theorems *)

\* The variables have their types, and the capacity of a table is a power of two.
THEOREM MapTyped == Spec => []TypeOK
<1>1. MapInv => TypeOK
  <2> SUFFICES ASSUME MapInv PROVE TypeOK
    OBVIOUS
  <2>1. Good(hash, table, len, deleted)
    BY DEF MapInv
  <2>2. table \in Seq(Buckets) /\ len \in Nat /\ deleted \in Nat
    BY <2>1, CountIs DEF Good
  <2>3. Len(table) \in {0} \cup {PowerOfTwo[n] : n \in 3 .. Len(table)}
    BY <2>1 DEF Good
  <2> QED
    BY <2>2, <2>3 DEF TypeOK, MapInv
<1> QED
  BY <1>1, InitGood, NextStep, PTL DEF Spec

\* Every probe ends: the load counts tombstones, so that a table always has an
\* empty bucket, for any hash function and any sequence of calls.
THEOREM ProbesAlwaysEnd == Spec => []ProbesEnd
<1>1. MapInv => ProbesEnd
  <2> SUFFICES ASSUME MapInv, table # <<>>
               PROVE  \E i \in DOMAIN table : table[i] = Empty
    BY DEF ProbesEnd
  <2>1. table \in Seq(Buckets) /\ \E p \in 1 .. Len(table) : table[p] = Empty
    BY GoodIs DEF MapInv
  <2> QED
    BY <2>1
<1> QED
  BY <1>1, InitGood, NextStep, PTL DEF Spec

\* len and deleted_count are what the buckets hold after every call, those that
\* reuse a tombstone and those that resize included.
THEOREM CountersAlwaysTrue == Spec => []CountersTrue
<1>1. MapInv => CountersTrue
  BY DEF MapInv, Good, CountersTrue
<1> QED
  BY <1>1, InitGood, NextStep, PTL DEF Spec

\* The table implements a finite map: every call returns what the map's would
\* and leaves its entries, collisions, tombstones and resizes notwithstanding.
THEOREM ImplementsMap == Spec => IsFiniteMap
<1>1. Init => Map!Init
  <2> SUFFICES ASSUME Init PROVE Map!Init
    OBVIOUS
  <2>1. ret = None
    BY DEF Init
  <2>2. Items(table) = {}
    <3>1. CASE table = <<>>
      <4>1. OccupiedIn(table) = {}
        BY <3>1 DEF OccupiedIn
      <4> QED
        BY <4>1 DEF Items
    <3>2. CASE table # <<>>
      <4>1. MapInv /\ len = 0
        BY InitGood DEF Init
      <4>2. table \in Seq(Buckets) /\ Cardinality(OccupiedIn(table)) = 0
        BY <4>1 DEF MapInv, Good
      <4>3. OccupiedIn(table) = {}
        BY <4>2, CountIs, FS_EmptySet
      <4> QED
        BY <4>3 DEF Items
    <3> QED
      BY <3>1, <3>2
  <2> QED
    BY <2>1, <2>2 DEF Map!Init
<1> QED
  BY <1>1, InitGood, NextStep, PTL DEF Spec, IsFiniteMap, Map!Spec
-----------------------------------------------------------------------------
(* INVERTED INDEX *)

\* Postings as all operations keep them.
Sorted == {s \in Seq(Nat) : Ascending(s)}

(* Binary search *)

\* The passes of binary_search.
LEMMA NarrowedIs ==
    ASSUME NEW s \in Seq(Nat), NEW x \in Nat, s # <<>>
    PROVE  \E f : /\ f[0] = [base |-> 1, size |-> Len(s)]
                  /\ \A n \in 1 .. Len(s) : f[n] = Halved(s, x, f[n - 1])
                  /\ Narrowed(s, x) = f[Len(s)].base
<1> DEFINE S == [base : Nat, size : Nat]
           First == [base |-> 1, size |-> Len(s)]
           Pass(n, u) == Halved(s, x, u)
           step == [y \in Nat \X S |-> IF y[1] \in 1 .. Len(s) THEN Pass(y[1], y[2]) ELSE y[2]]
           Is(f) == f = [n \in 0 .. Len(s) |-> IF n = 0 THEN First ELSE Pass(n, f[n - 1])]
<1>1. Len(s) \in Nat /\ First \in S
  OBVIOUS
<1>2. ASSUME NEW n \in 1 .. Len(s), NEW u \in S
      PROVE  Pass(n, u) \in S
  <2>1. u.base \in Nat /\ u.size \in Nat /\ u = [base |-> u.base, size |-> u.size]
    OBVIOUS
  <2>2. u.size \div 2 \in Nat /\ u.size - (u.size \div 2) \in Nat
    BY <2>1
  <2>3. CASE u.size <= 1
    BY <2>3 DEF Halved
  <2>4. CASE ~(u.size <= 1)
    <3> DEFINE half == u.size \div 2
               base == IF s[u.base + half] > x THEN u.base ELSE u.base + half
    <3>1. base \in Nat
      BY <2>1, <2>2
    <3>2. Halved(s, x, u) = [base |-> base, size |-> u.size - half]
      BY <2>4 DEF Halved
    <3> HIDE DEF base
    <3> QED
      BY <2>2, <3>1, <3>2
  <2> QED
    BY <2>3, <2>4
<1>3. /\ step \in [Nat \X S -> S]
      /\ \A n \in 1 .. Len(s), u \in S : step[<<n, u>>] = Pass(n, u)
  <2>1. \A n \in 1 .. Len(s) : n \in Nat
    BY <1>1
  <2> HIDE DEF S, Pass
  <2> QED
    BY <1>1, <1>2, <2>1
<1>4. PICK f : IsLoop(f, S, Len(s), First, step)
  <2> HIDE DEF S, First, step
  <2> QED
    BY <1>1, <1>3, LoopExists, Zenon
<1>5. Is(f)
  <2> HIDE DEF S, First, Pass, step
  <2>1. f = [n \in 0 .. Len(s) |-> f[n]] /\ f[0] = First
    BY <1>4 DEF IsLoop
  <2>2. ASSUME NEW n \in 1 .. Len(s)
        PROVE  f[n] = Pass(n, f[n - 1])
    <3>1. n - 1 \in 0 .. Len(s)
      BY <1>1
    <3>2. f[n - 1] \in S /\ f[n] = step[<<n, f[n - 1]>>]
      BY <1>4, <3>1 DEF IsLoop
    <3> QED
      BY <1>3, <3>2
  <2>3. \A n \in 0 .. Len(s) : n # 0 => n \in 1 .. Len(s)
    BY <1>1
  <2> QED
    BY <2>1, <2>2, <2>3
<1> DEFINE c == CHOOSE e : Is(e)
<1>6. Is(c)
  <2> HIDE DEF Is
  <2> QED
    BY <1>5
<1>7. Narrowed(s, x) = c[Len(s)].base
  BY DEF Narrowed
<1>8. c[0] = First /\ \A n \in 1 .. Len(s) : c[n] = Pass(n, c[n - 1])
  <2> HIDE DEF c, First, Pass
  <2>1. 0 \in 0 .. Len(s) /\ \A n \in 1 .. Len(s) : n \in 0 .. Len(s) /\ n # 0
    BY <1>1
  <2> QED
    BY <1>6, <2>1
<1> HIDE DEF c
<1> QED
  BY <1>7, <1>8

\* Where the part that is left lies: nothing before its end is missed.
Brackets(s, x, part) ==
    /\ part \in [base : Nat, size : Nat]
    /\ part.base >= 1 /\ part.size >= 1
    /\ part.base + part.size <= Len(s) + 1
    /\ part.base = 1 \/ s[part.base] <= x
    /\ \A j \in 1 .. Len(s) : j >= part.base + part.size => s[j] > x

\* A half brackets the place if the part did.
LEMMA HalfBrackets ==
    ASSUME NEW s \in Sorted, NEW x \in Nat, NEW part, Brackets(s, x, part)
    PROVE  /\ Brackets(s, x, Halved(s, x, part))
           /\ part.size > 1 => Halved(s, x, part).size < part.size
           /\ part.size = 1 => Halved(s, x, part) = part
<1> DEFINE half == part.size \div 2
           mid == part.base + half
           h == Halved(s, x, part)
<1>1. part.base \in Nat /\ part.size \in Nat /\ s \in Seq(Nat) /\ Len(s) \in Nat
  BY DEF Brackets, Sorted
<1>2. CASE part.size <= 1
  <2>1. h = part
    BY <1>2 DEF Halved
  <2>2. ~(part.size > 1)
    BY <1>1, <1>2
  <2> QED
    BY <2>1, <2>2
<1>3. CASE part.size > 1
  <2>1. half \in Nat /\ half >= 1 /\ half < part.size
    BY <1>1, <1>3
  <2> HIDE DEF half
  <2>2. mid \in 1 .. Len(s) /\ part.base < mid /\ part.base \in 1 .. Len(s)
    BY <1>1, <2>1 DEF Brackets
  <2>3. s[mid] \in Nat
    BY <1>1, <2>2
  <2>4. h = [base |-> IF s[mid] > x THEN part.base ELSE mid, size |-> part.size - half]
    BY <1>1, <1>3 DEF Halved, half
  <2> HIDE DEF h
  <2>5. h.size = part.size - half /\ h.size < part.size /\ h.size \in Nat /\ h.size >= 1
    BY <1>1, <2>1, <2>4
  <2>6. CASE s[mid] > x
    <3>1. h.base = part.base
      BY <2>4, <2>6
    <3>2. \A j \in 1 .. Len(s) : j >= h.base + h.size => s[j] > x
      <4> SUFFICES ASSUME NEW j \in 1 .. Len(s), j >= h.base + h.size PROVE s[j] > x
        OBVIOUS
      <4>1. h.base + h.size >= mid
        <5>1. part.size - half >= half
          BY <1>1, <1>3 DEF half
        <5> QED
          BY <1>1, <2>1, <2>5, <3>1, <5>1
      <4>2. j = mid \/ s[mid] < s[j]
        <5>1. \A k, l \in 1 .. Len(s) : k < l => s[k] < s[l]
          BY <1>1 DEF Sorted, Ascending
        <5>2. j = mid \/ mid < j
          <6>1. h.base + h.size \in Nat /\ mid \in Nat
            <7>1. h.base \in Nat /\ h.size \in Nat
              BY <1>1, <2>5, <3>1
            <7>2. mid \in Nat
              BY <2>2
            <7> HIDE DEF mid
            <7> QED
              BY <7>1, <7>2
          <6> HIDE DEF mid
          <6> QED
            BY <4>1, <6>1
        <5> HIDE DEF mid
        <5> QED
          BY <2>2, <5>1, <5>2
      <4>3. s[j] \in Nat
        BY <1>1
      <4> QED
        BY <2>3, <2>6, <4>2, <4>3
    <3>3. h \in [base : Nat, size : Nat]
      BY <1>1, <2>4, <2>5, <3>1
    <3>4. h.base = 1 \/ s[h.base] <= x
      BY <3>1 DEF Brackets
    <3>5. h.base >= 1 /\ h.base + h.size <= Len(s) + 1
      BY <1>1, <2>1, <2>5, <3>1 DEF Brackets
    <3>6. Brackets(s, x, h)
      BY <2>5, <3>2, <3>3, <3>4, <3>5 DEF Brackets
    <3> QED
      BY <1>3, <1>1, <2>5, <3>6 DEF h
  <2>7. CASE ~(s[mid] > x)
    <3>1. h.base = mid
      BY <2>4, <2>7
    <3>2. h.base + h.size = part.base + part.size
      BY <1>1, <2>1, <2>5, <3>1
    <3>3. h \in [base : Nat, size : Nat]
      BY <1>1, <2>2, <2>4, <2>5, <3>1
    <3>4. s[h.base] <= x
      BY <2>3, <2>7, <3>1
    <3>5. h.base >= 1
      BY <2>2, <3>1
    <3>6. Brackets(s, x, h)
      BY <2>5, <3>2, <3>3, <3>4, <3>5 DEF Brackets
    <3> QED
      BY <1>3, <1>1, <2>5, <3>6 DEF h
  <2> QED
    BY <2>6, <2>7
<1> QED
  BY <1>1, <1>2, <1>3

\* The search ends at the last place of an id that is not beyond x, or at the first.
LEMMA NarrowedBrackets ==
    ASSUME NEW s \in Sorted, NEW x \in Nat, s # <<>>
    PROVE  Brackets(s, x, [base |-> Narrowed(s, x), size |-> 1])
<1>1. s \in Seq(Nat) /\ Len(s) \in Nat /\ Len(s) >= 1
  BY DEF Sorted
<1>2. PICK f : /\ f[0] = [base |-> 1, size |-> Len(s)]
               /\ \A n \in 1 .. Len(s) : f[n] = Halved(s, x, f[n - 1])
               /\ Narrowed(s, x) = f[Len(s)].base
  BY <1>1, NarrowedIs
<1> DEFINE T == {n \in 0 .. Len(s) : Brackets(s, x, f[n]) /\ (f[n].size = 1 \/ f[n].size <= Len(s) - n)}
<1>3. 0 \in T
  <2>1. Brackets(s, x, f[0])
    BY <1>1, <1>2 DEF Brackets
  <2> QED
    BY <1>1, <1>2, <2>1
<1>4. ASSUME NEW n \in 1 .. Len(s), n - 1 \in T
      PROVE  n \in T
  <2> DEFINE p == f[n - 1]
  <2>1. Brackets(s, x, p) /\ (p.size = 1 \/ p.size <= Len(s) - (n - 1))
    BY <1>4
  <2>2. p.size \in Nat /\ p.size >= 1
    BY <2>1 DEF Brackets
  <2>3. f[n] = Halved(s, x, p)
    BY <1>2
  <2> HIDE DEF p
  <2>4. /\ Brackets(s, x, f[n])
        /\ p.size > 1 => f[n].size < p.size
        /\ p.size = 1 => f[n] = p
    BY <2>1, <2>3, HalfBrackets
  <2>5. f[n].size \in Nat
    BY <2>4 DEF Brackets
  <2>6. f[n].size = 1 \/ f[n].size <= Len(s) - n
    BY <1>1, <2>1, <2>2, <2>4, <2>5
  <2> QED
    BY <1>1, <2>4, <2>6
<1>5. \A n \in 0 .. Len(s) : n \in T
  <2> HIDE DEF T
  <2> QED
    BY <1>1, <1>3, <1>4, LoopKeeps
<1> DEFINE last == f[Len(s)]
<1>6. Brackets(s, x, last) /\ (last.size = 1 \/ last.size <= Len(s) - Len(s))
  BY <1>1, <1>5
<1> HIDE DEF last
<1>7. last.size = 1 /\ last \in [base : Nat, size : Nat]
  BY <1>1, <1>6 DEF Brackets
<1>8. last = [base |-> last.base, size |-> 1]
  BY <1>7
<1> QED
  BY <1>2, <1>6, <1>8 DEF last

\* binary_search of sorted postings tells whether x is there, and its place.
LEMMA SearchIs ==
    ASSUME NEW s \in Sorted, NEW x \in Nat
    PROVE  LET b == BinarySearch(s, x) IN
           /\ b.pos \in 1 .. Len(s) + 1
           /\ b.found = Has(s, x)
           /\ Has(s, x) <=> x \in Range(s)
           /\ Has(s, x) => b.pos <= Len(s) /\ s[b.pos] = x
           /\ \A j \in 1 .. Len(s) : j < b.pos => s[j] < x
           /\ ~Has(s, x) => \A j \in 1 .. Len(s) : j >= b.pos => s[j] > x
<1> DEFINE b == BinarySearch(s, x)
           last == Narrowed(s, x)
<1>1. s \in Seq(Nat) /\ Len(s) \in Nat /\ DOMAIN s = 1 .. Len(s)
  BY DEF Sorted
<1>2. b.found = Has(s, x)
  BY DEF Has
<1>3. CASE s = <<>>
  <2>1. b = [found |-> FALSE, pos |-> 1]
    BY <1>3 DEF BinarySearch
  <2>2. Len(s) = 0 /\ Range(s) = {}
    BY <1>3 DEF Range
  <2> HIDE DEF b
  <2>3. b.pos = 1 /\ ~Has(s, x)
    BY <1>2, <2>1
  <2>4. \A j \in 1 .. Len(s) : FALSE
    BY <2>2
  <2> QED
    BY <1>2, <2>2, <2>3, <2>4 DEF b
<1>4. CASE s # <<>>
  <2>1. b = [found |-> s[last] = x, pos |-> IF s[last] < x THEN last + 1 ELSE last]
    BY <1>4 DEF BinarySearch
  <2>2. /\ last \in Nat /\ last >= 1 /\ last + 1 <= Len(s) + 1
        /\ last = 1 \/ s[last] <= x
        /\ \A j \in 1 .. Len(s) : j >= last + 1 => s[j] > x
    <3>1. Brackets(s, x, [base |-> last, size |-> 1])
      BY <1>4, NarrowedBrackets
    <3> HIDE DEF last
    <3> QED
      BY <3>1 DEF Brackets
  <2> HIDE DEF last, b
  <2>3. last \in 1 .. Len(s)
    BY <1>1, <2>2
  <2>4. \A j \in 1 .. Len(s) : s[j] \in Nat
    BY <1>1
  <2>5. (b.found <=> s[last] = x) /\ b.pos = (IF s[last] < x THEN last + 1 ELSE last)
    BY <2>1
  <2>6. b.pos \in 1 .. Len(s) + 1
    BY <1>1, <2>2, <2>5
  <2>7. Has(s, x) <=> s[last] = x
    BY <1>2, <2>5
  <2>8. Has(s, x) => b.pos = last
    BY <2>3, <2>4, <2>5, <2>7
  <2>9. \A i, j \in 1 .. Len(s) : i < j => s[i] < s[j]
    BY <1>1 DEF Sorted, Ascending
  <2>10. \A j \in 1 .. Len(s) : j < b.pos => s[j] < x
    <3> SUFFICES ASSUME NEW j \in 1 .. Len(s), j < b.pos PROVE s[j] < x
      OBVIOUS
    <3>1. CASE s[last] < x
      <4>1. j = last \/ s[j] < s[last]
        BY <1>1, <2>3, <2>5, <2>9, <3>1
      <4> QED
        BY <2>3, <2>4, <3>1, <4>1
    <3>2. CASE ~(s[last] < x)
      <4>1. j < last /\ s[j] < s[last] /\ last # 1
        BY <1>1, <2>3, <2>5, <2>9, <3>2
      <4> QED
        BY <2>2, <2>3, <2>4, <4>1
    <3> QED
      BY <3>1, <3>2
  <2>11. ~Has(s, x) => \A j \in 1 .. Len(s) : j >= b.pos => s[j] > x
    <3> SUFFICES ASSUME ~Has(s, x), NEW j \in 1 .. Len(s), j >= b.pos PROVE s[j] > x
      OBVIOUS
    <3>1. CASE s[last] < x
      BY <2>2, <2>5, <3>1
    <3>2. CASE ~(s[last] < x)
      <4>1. s[last] > x
        BY <2>3, <2>4, <2>7, <3>2
      <4>2. j = last \/ s[j] > s[last]
        BY <1>1, <2>3, <2>5, <2>9, <3>2
      <4> QED
        BY <2>3, <2>4, <4>1, <4>2
    <3> QED
      BY <3>1, <3>2
  <2>12. Has(s, x) <=> x \in Range(s)
    <3>1. Has(s, x) => x \in Range(s)
      BY <1>1, <2>3, <2>7 DEF Range
    <3>2. ASSUME ~Has(s, x), x \in Range(s) PROVE FALSE
      <4>1. PICK j \in 1 .. Len(s) : s[j] = x
        BY <1>1, <3>2 DEF Range
      <4>2. j < b.pos \/ j >= b.pos
        BY <2>6
      <4>3. s[j] < x \/ s[j] > x
        BY <2>10, <2>11, <3>2, <4>2
      <4> QED
        BY <4>1, <4>3
    <3> QED
      BY <3>1, <3>2
  <2>13. Has(s, x) => b.pos <= Len(s) /\ s[b.pos] = x
    BY <2>3, <2>7, <2>8
  <2> QED
    BY <1>2, <2>6, <2>10, <2>11, <2>12, <2>13 DEF b
<1> QED
  BY <1>3, <1>4
-----------------------------------------------------------------------------
(* Postings *)

\* Where the elements are when one is put in.
LEMMA PutIn ==
    ASSUME NEW s \in Seq(Nat), NEW x \in Nat, NEW pos \in 1 .. Len(s) + 1
    PROVE  LET w == SubSeq(s, 1, pos - 1) \o <<x>> \o SubSeq(s, pos, Len(s)) IN
           /\ w \in Seq(Nat)
           /\ Len(w) = Len(s) + 1
           /\ w[pos] = x
           /\ \A i \in 1 .. Len(w) : /\ i < pos => w[i] = s[i]
                                     /\ i > pos => w[i] = s[i - 1]
<1> DEFINE a == SubSeq(s, 1, pos - 1)
           m == a \o <<x>>
           b == SubSeq(s, pos, Len(s))
           w == m \o b
<1>1. Len(s) \in Nat /\ pos \in Nat
  OBVIOUS
<1>2. a \in Seq(Nat) /\ Len(a) = pos - 1 /\ \A i \in 1 .. pos - 1 : a[i] = s[i]
  BY <1>1, SubSeqProperties
<1>3. b \in Seq(Nat) /\ Len(b) = Len(s) - pos + 1
      /\ \A i \in 1 .. Len(s) - pos + 1 : b[i] = s[pos + i - 1]
  BY <1>1, SubSeqProperties
<1> HIDE DEF a, b
<1>4. m \in Seq(Nat) /\ Len(m) = pos /\ m[pos] = x /\ \A i \in 1 .. pos - 1 : m[i] = a[i]
  <2> DEFINE o == <<x>>
  <2>1. o \in Seq(Nat) /\ Len(o) = 1 /\ o[1] = x
    OBVIOUS
  <2> HIDE DEF o
  <2>2. /\ m \in Seq(Nat) /\ Len(m) = Len(a) + Len(o)
        /\ \A i \in 1 .. Len(a) + Len(o) : m[i] = IF i <= Len(a) THEN a[i] ELSE o[i - Len(a)]
    BY <1>2, <2>1, ConcatProperties DEF o
  <2> HIDE DEF m
  <2>3. Len(m) = pos /\ pos \in 1 .. Len(a) + Len(o) /\ ~(pos <= Len(a)) /\ pos - Len(a) = 1
    BY <1>1, <1>2, <2>1, <2>2
  <2>4. \A i \in 1 .. pos - 1 : i \in 1 .. Len(a) + Len(o) /\ i <= Len(a)
    BY <1>1, <1>2, <2>1
  <2> QED
    BY <2>1, <2>2, <2>3, <2>4
<1> HIDE DEF m
<1>5. w \in Seq(Nat) /\ Len(w) = Len(s) + 1
  <2>1. w \in Seq(Nat) /\ Len(w) = Len(m) + Len(b)
    BY <1>3, <1>4, ConcatProperties
  <2> HIDE DEF w
  <2> QED
    BY <1>1, <1>3, <1>4, <2>1
<1>6. \A i \in 1 .. Len(m) + Len(b) : w[i] = IF i <= Len(m) THEN m[i] ELSE b[i - Len(m)]
  BY <1>3, <1>4, ConcatProperties
<1> HIDE DEF w
<1>7. w[pos] = x
  BY <1>1, <1>3, <1>4, <1>6
<1>8. ASSUME NEW i \in 1 .. Len(w)
      PROVE  /\ i < pos => w[i] = s[i]
             /\ i > pos => w[i] = s[i - 1]
  <2>1. i \in Nat /\ i \in 1 .. Len(m) + Len(b)
    BY <1>1, <1>3, <1>4, <1>5
  <2>2. CASE i < pos
    <3>1. i \in 1 .. pos - 1
      BY <1>1, <2>1, <2>2
    <3> QED
      BY <1>1, <1>2, <1>4, <1>6, <2>1, <2>2, <3>1
  <2>3. CASE i > pos
    <3>1. i - pos \in 1 .. Len(s) - pos + 1 /\ pos + (i - pos) - 1 = i - 1
      BY <1>1, <1>5, <2>1, <2>3
    <3>2. w[i] = b[i - pos]
      BY <1>1, <1>4, <1>6, <2>1, <2>3
    <3>3. b[i - pos] = s[pos + (i - pos) - 1]
      BY <1>3, <3>1
    <3>4. w[i] = s[i - 1]
      BY <3>1, <3>2, <3>3, Zenon
    <3>5. ~(i < pos)
      BY <1>1, <2>1, <2>3
    <3> QED
      BY <3>4, <3>5
  <2> QED
    BY <1>1, <2>1, <2>2, <2>3
<1> QED
  BY <1>5, <1>7, <1>8 DEF w, m, a, b

\* Where the elements are when one is taken out.
LEMMA TakenOut ==
    ASSUME NEW s \in Seq(Nat), NEW pos \in 1 .. Len(s)
    PROVE  LET w == SubSeq(s, 1, pos - 1) \o SubSeq(s, pos + 1, Len(s)) IN
           /\ w \in Seq(Nat)
           /\ Len(w) = Len(s) - 1
           /\ \A i \in 1 .. Len(w) : /\ i < pos => w[i] = s[i]
                                     /\ i >= pos => w[i] = s[i + 1]
<1> DEFINE a == SubSeq(s, 1, pos - 1)
           b == SubSeq(s, pos + 1, Len(s))
           w == a \o b
<1>1. Len(s) \in Nat /\ pos \in Nat
  OBVIOUS
<1>2. a \in Seq(Nat) /\ Len(a) = pos - 1 /\ \A i \in 1 .. pos - 1 : a[i] = s[i]
  BY <1>1, SubSeqProperties
<1>3. b \in Seq(Nat) /\ Len(b) = Len(s) - pos
      /\ \A i \in 1 .. Len(s) - pos : b[i] = s[pos + 1 + i - 1]
  BY <1>1, SubSeqProperties
<1> HIDE DEF a, b
<1>4. w \in Seq(Nat) /\ Len(w) = Len(s) - 1 /\ Len(w) = Len(a) + Len(b)
  <2>1. w \in Seq(Nat) /\ Len(w) = Len(a) + Len(b)
    BY <1>2, <1>3, ConcatProperties
  <2> HIDE DEF w
  <2> QED
    BY <1>1, <1>2, <1>3, <2>1
<1>5. \A i \in 1 .. Len(a) + Len(b) : w[i] = IF i <= Len(a) THEN a[i] ELSE b[i - Len(a)]
  BY <1>2, <1>3, ConcatProperties
<1> HIDE DEF w
<1>6. ASSUME NEW i \in 1 .. Len(w)
      PROVE  /\ i < pos => w[i] = s[i]
             /\ i >= pos => w[i] = s[i + 1]
  <2>1. i \in Nat /\ i \in 1 .. Len(a) + Len(b)
    <3>1. i \in Nat
      BY <1>4
    <3> QED
      BY <1>4, <3>1
  <2>2. CASE i < pos
    <3>1. i \in 1 .. pos - 1
      BY <1>1, <2>1, <2>2
    <3> QED
      BY <1>1, <1>2, <1>5, <2>1, <2>2, <3>1
  <2>3. CASE i >= pos
    <3>1. i - (pos - 1) \in 1 .. Len(s) - pos /\ pos + 1 + (i - (pos - 1)) - 1 = i + 1
      BY <1>1, <1>4, <2>1, <2>3
    <3>2. w[i] = b[i - (pos - 1)]
      BY <1>1, <1>2, <1>5, <2>1, <2>3
    <3>3. b[i - (pos - 1)] = s[pos + 1 + (i - (pos - 1)) - 1]
      BY <1>3, <3>1
    <3>4. w[i] = s[i + 1]
      BY <3>1, <3>2, <3>3, Zenon
    <3>5. ~(i < pos)
      BY <1>1, <2>1, <2>3
    <3> QED
      BY <3>4, <3>5
  <2> QED
    BY <1>1, <2>1, <2>2, <2>3
<1> QED
  BY <1>4, <1>6 DEF w, a, b

\* An id put into sorted postings leaves them sorted, with one id more.
LEMMA InsertedIs ==
    ASSUME NEW s \in Sorted, NEW x \in Nat
    PROVE  Inserted(s, x) \in Sorted /\ Range(Inserted(s, x)) = Range(s) \cup {x}
<1> DEFINE pos == BinarySearch(s, x).pos
           w == SubSeq(s, 1, pos - 1) \o <<x>> \o SubSeq(s, pos, Len(s))
<1>1. s \in Seq(Nat) /\ Len(s) \in Nat /\ DOMAIN s = 1 .. Len(s)
  BY DEF Sorted
<1>2. /\ pos \in 1 .. Len(s) + 1
      /\ Has(s, x) <=> x \in Range(s)
      /\ \A j \in 1 .. Len(s) : j < pos => s[j] < x
      /\ ~Has(s, x) => \A j \in 1 .. Len(s) : j >= pos => s[j] > x
  BY SearchIs
<1>3. CASE Has(s, x)
  <2>1. Inserted(s, x) = s
    BY <1>3 DEF Inserted
  <2> QED
    BY <1>2, <1>3, <2>1
<1>4. CASE ~Has(s, x)
  <2>1. Inserted(s, x) = w
    BY <1>4 DEF Inserted
  <2> HIDE DEF pos
  <2>2. /\ w \in Seq(Nat)
        /\ Len(w) = Len(s) + 1
        /\ w[pos] = x
        /\ \A i \in 1 .. Len(w) : /\ i < pos => w[i] = s[i]
                                  /\ i > pos => w[i] = s[i - 1]
    BY <1>1, <1>2, PutIn
  <2> HIDE DEF w
  <2>3. DOMAIN w = 1 .. Len(s) + 1 /\ pos \in Nat
    BY <1>2, <2>2
  <2>4. ASSUME NEW i \in DOMAIN w, NEW j \in DOMAIN w, i < j
        PROVE  w[i] < w[j]
    <3>1. \A k, l \in 1 .. Len(s) : k < l => s[k] < s[l]
      BY <1>1 DEF Sorted, Ascending
    <3>2. i \in Nat /\ j \in Nat /\ i \in 1 .. Len(w) /\ j \in 1 .. Len(w)
      BY <2>2, <2>3
    <3>3. CASE j < pos
      <4>1. i < pos /\ i \in 1 .. Len(s) /\ j \in 1 .. Len(s)
        BY <1>1, <1>2, <2>3, <2>4, <3>2, <3>3
      <4> QED
        BY <2>2, <2>4, <3>1, <3>2, <3>3, <4>1
    <3>4. CASE j = pos
      <4>1. i < pos /\ i \in 1 .. Len(s)
        BY <1>1, <1>2, <2>3, <2>4, <3>2, <3>4
      <4> QED
        BY <1>2, <2>2, <3>2, <3>4, <4>1
    <3>5. CASE j > pos
      <4>1. j - 1 \in 1 .. Len(s) /\ w[j] = s[j - 1] /\ j - 1 >= pos /\ s[j - 1] > x /\ s[j - 1] \in Nat
        <5>1. j - 1 \in 1 .. Len(s) /\ j - 1 >= pos
          BY <1>1, <2>2, <2>3, <3>2, <3>5, <1>2
        <5> QED
          BY <1>1, <1>2, <1>4, <2>2, <3>2, <3>5, <5>1
      <4>2. CASE i < pos
        <5>1. i \in 1 .. Len(s) /\ i < j - 1
          BY <1>1, <1>2, <2>3, <3>2, <4>1, <4>2
        <5> QED
          BY <2>2, <3>1, <3>2, <4>1, <4>2, <5>1
      <4>3. CASE i = pos
        BY <2>2, <4>1, <4>3
      <4>4. CASE i > pos
        <5>1. i - 1 \in 1 .. Len(s) /\ i - 1 < j - 1
          BY <1>1, <1>2, <2>2, <2>3, <2>4, <3>2, <4>4
        <5>2. w[i] = s[i - 1]
          BY <2>2, <3>2, <4>4
        <5> QED
          BY <3>1, <4>1, <5>1, <5>2
      <4> QED
        BY <2>3, <3>2, <4>2, <4>3, <4>4
    <3> QED
      BY <2>3, <3>2, <3>3, <3>4, <3>5
  <2>5. w \in Sorted
    BY <2>2, <2>4 DEF Sorted, Ascending
  <2>6. \A i \in DOMAIN w : w[i] \in Range(s) \cup {x}
    <3> SUFFICES ASSUME NEW i \in DOMAIN w, i # pos PROVE w[i] \in Range(s)
      BY <2>2
    <3>1. i \in Nat /\ i \in 1 .. Len(w)
      BY <2>2, <2>3
    <3>2. CASE i < pos
      BY <1>1, <1>2, <2>2, <2>3, <3>1, <3>2 DEF Range
    <3>3. CASE i > pos
      <4>1. i - 1 \in DOMAIN s
        BY <1>1, <1>2, <2>2, <2>3, <3>1, <3>3
      <4> QED
        BY <2>2, <3>1, <3>3, <4>1 DEF Range
    <3> QED
      BY <2>3, <3>1, <3>2, <3>3
  <2>7. ASSUME NEW i \in DOMAIN s
        PROVE  s[i] \in Range(w)
    <3>1. i \in Nat /\ i \in 1 .. Len(s)
      BY <1>1
    <3>2. CASE i < pos
      <4>1. i \in DOMAIN w /\ i \in 1 .. Len(w)
        BY <1>1, <2>2, <2>3, <3>1
      <4> QED
        BY <2>2, <3>2, <4>1 DEF Range
    <3>3. CASE i >= pos
      <4> DEFINE k == i + 1
      <4>1. k \in DOMAIN w /\ k \in 1 .. Len(w) /\ k > pos /\ k - 1 = i
        BY <1>1, <2>2, <2>3, <3>1, <3>3
      <4> HIDE DEF k
      <4>2. w[k] = s[k - 1]
        BY <2>2, <4>1
      <4> QED
        BY <4>1, <4>2 DEF Range
    <3> QED
      BY <2>3, <3>1, <3>2, <3>3
  <2>8. x \in Range(w)
    <3>1. pos \in DOMAIN w
      BY <1>2, <2>3
    <3> QED
      BY <2>2, <3>1 DEF Range
  <2>9. Range(w) = Range(s) \cup {x}
    <3>1. \A y \in Range(w) : y \in Range(s) \cup {x}
      BY <2>6 DEF Range
    <3>2. \A y \in Range(s) : y \in Range(w)
      BY <2>7 DEF Range
    <3> QED
      BY <2>8, <3>1, <3>2
  <2> QED
    BY <2>1, <2>5, <2>9
<1> QED
  BY <1>3, <1>4

\* An id taken out of sorted postings leaves them sorted, without it.
LEMMA RemovedIs ==
    ASSUME NEW s \in Sorted, NEW x \in Nat
    PROVE  Removed(s, x) \in Sorted /\ Range(Removed(s, x)) = Range(s) \ {x}
<1> DEFINE pos == BinarySearch(s, x).pos
           w == SubSeq(s, 1, pos - 1) \o SubSeq(s, pos + 1, Len(s))
<1>1. s \in Seq(Nat) /\ Len(s) \in Nat /\ DOMAIN s = 1 .. Len(s)
  BY DEF Sorted
<1>2. /\ pos \in 1 .. Len(s) + 1
      /\ Has(s, x) <=> x \in Range(s)
      /\ Has(s, x) => pos <= Len(s) /\ s[pos] = x
  BY SearchIs
<1>3. CASE ~Has(s, x)
  <2>1. Removed(s, x) = s
    BY <1>3 DEF Removed
  <2> QED
    BY <1>2, <1>3, <2>1
<1>4. CASE Has(s, x)
  <2>1. Removed(s, x) = w
    BY <1>4 DEF Removed
  <2> HIDE DEF pos
  <2>2. pos \in 1 .. Len(s) /\ s[pos] = x /\ pos \in Nat
    BY <1>1, <1>2, <1>4
  <2>3. /\ w \in Seq(Nat)
        /\ Len(w) = Len(s) - 1
        /\ \A i \in 1 .. Len(w) : /\ i < pos => w[i] = s[i]
                                  /\ i >= pos => w[i] = s[i + 1]
    BY <1>1, <2>2, TakenOut
  <2> HIDE DEF w
  <2>4. DOMAIN w = 1 .. Len(s) - 1
    BY <2>3
  <2>5. \A k, l \in 1 .. Len(s) : k < l => s[k] < s[l]
    BY <1>1 DEF Sorted, Ascending
  <2> DEFINE old(i) == IF i < pos THEN i ELSE i + 1
  <2>6. ASSUME NEW i \in DOMAIN w
        PROVE  w[i] = s[old(i)] /\ old(i) \in 1 .. Len(s) /\ old(i) # pos
    <3>1. i \in Nat /\ i \in 1 .. Len(w) /\ i <= Len(s) - 1 /\ i >= 1
      BY <1>1, <2>3, <2>4
    <3>2. CASE i < pos
      <4>1. i \in 1 .. Len(s) /\ i # pos
        BY <1>1, <2>2, <3>1, <3>2
      <4> QED
        BY <2>3, <3>1, <3>2, <4>1
    <3>3. CASE ~(i < pos)
      <4>1. i >= pos /\ i + 1 \in 1 .. Len(s) /\ i + 1 # pos
        BY <1>1, <2>2, <3>1, <3>3
      <4> QED
        BY <2>3, <3>1, <3>3, <4>1
    <3> QED
      BY <3>2, <3>3
  <2>7. ASSUME NEW i \in DOMAIN w, NEW j \in DOMAIN w, i < j
        PROVE  w[i] < w[j]
    <3>1. old(i) < old(j)
      BY <1>1, <2>2, <2>4, <2>7
    <3> HIDE DEF old
    <3> QED
      BY <2>5, <2>6, <3>1
  <2>8. w \in Sorted
    BY <2>3, <2>7 DEF Sorted, Ascending
  <2>9. \A i \in DOMAIN w : w[i] \in Range(s) \ {x}
    <3> SUFFICES ASSUME NEW i \in DOMAIN w PROVE w[i] \in Range(s) \ {x}
      OBVIOUS
    <3>1. w[i] = s[old(i)] /\ old(i) \in 1 .. Len(s) /\ old(i) # pos
      BY <2>6
    <3> HIDE DEF old
    <3>2. s[old(i)] # s[pos]
      <4>1. old(i) < pos \/ pos < old(i)
        BY <2>2, <3>1
      <4>2. s[old(i)] < s[pos] \/ s[pos] < s[old(i)]
        BY <2>2, <2>5, <3>1, <4>1
      <4>3. s[old(i)] \in Nat /\ s[pos] \in Nat
        BY <1>1, <2>2, <3>1
      <4> QED
        BY <4>2, <4>3
    <3>3. s[old(i)] \in Range(s)
      BY <1>1, <3>1 DEF Range
    <3> QED
      BY <2>2, <3>1, <3>2, <3>3
  <2>10. ASSUME NEW i \in DOMAIN s, s[i] # x
         PROVE  s[i] \in Range(w)
    <3>1. i \in Nat /\ i \in 1 .. Len(s) /\ i # pos
      BY <1>1, <2>2, <2>10
    <3>2. CASE i < pos
      <4>1. i \in DOMAIN w /\ i \in 1 .. Len(w)
        BY <1>1, <2>2, <2>3, <2>4, <3>1, <3>2
      <4> QED
        BY <2>3, <3>2, <4>1 DEF Range
    <3>3. CASE i > pos
      <4>1. i - 1 \in DOMAIN w /\ i - 1 \in 1 .. Len(w) /\ i - 1 >= pos /\ i - 1 + 1 = i
        BY <1>1, <2>2, <2>3, <2>4, <3>1, <3>3
      <4> QED
        BY <2>3, <4>1 DEF Range
    <3> QED
      BY <2>2, <3>1, <3>2, <3>3
  <2>11. Range(w) = Range(s) \ {x}
    <3>1. \A y \in Range(w) : y \in Range(s) \ {x}
      BY <2>9 DEF Range
    <3>2. \A y \in Range(s) : y # x => y \in Range(w)
      BY <2>10 DEF Range
    <3> QED
      BY <3>1, <3>2
  <2> QED
    BY <2>1, <2>8, <2>11
<1> QED
  BY <1>3, <1>4
-----------------------------------------------------------------------------
(* Searches *)

\* The passes of retain.
LEMMA RetainedLoop ==
    ASSUME NEW r \in Seq(Nat), NEW s
    PROVE  \E f : /\ f[0] = <<>>
                  /\ \A n \in 1 .. Len(r) : f[n] = IF Has(s, r[n]) THEN Append(f[n - 1], r[n]) ELSE f[n - 1]
                  /\ Retained(r, s) = f[Len(r)]
<1> DEFINE S == Seq(Nat)
           First == <<>>
           Pass(n, u) == IF Has(s, r[n]) THEN Append(u, r[n]) ELSE u
           step == [y \in Nat \X S |-> IF y[1] \in 1 .. Len(r) THEN Pass(y[1], y[2]) ELSE y[2]]
           Is(f) == f = [n \in 0 .. Len(r) |-> IF n = 0 THEN First ELSE Pass(n, f[n - 1])]
<1>1. Len(r) \in Nat /\ First \in S
  OBVIOUS
<1>2. ASSUME NEW n \in 1 .. Len(r), NEW u \in S
      PROVE  Pass(n, u) \in S
  OBVIOUS
<1>3. /\ step \in [Nat \X S -> S]
      /\ \A n \in 1 .. Len(r), u \in S : step[<<n, u>>] = Pass(n, u)
  <2>1. \A n \in 1 .. Len(r) : n \in Nat
    BY <1>1
  <2> HIDE DEF S, Pass
  <2> QED
    BY <1>1, <1>2, <2>1
<1>4. PICK f : IsLoop(f, S, Len(r), First, step)
  <2> HIDE DEF S, First, step
  <2> QED
    BY <1>1, <1>3, LoopExists, Zenon
<1>5. Is(f)
  <2> HIDE DEF S, First, Pass, step
  <2>1. f = [n \in 0 .. Len(r) |-> f[n]] /\ f[0] = First
    BY <1>4 DEF IsLoop
  <2>2. ASSUME NEW n \in 1 .. Len(r)
        PROVE  f[n] = Pass(n, f[n - 1])
    <3>1. n - 1 \in 0 .. Len(r)
      BY <1>1
    <3>2. f[n - 1] \in S /\ f[n] = step[<<n, f[n - 1]>>]
      BY <1>4, <3>1 DEF IsLoop
    <3> QED
      BY <1>3, <3>2
  <2>3. \A n \in 0 .. Len(r) : n # 0 => n \in 1 .. Len(r)
    BY <1>1
  <2> QED
    BY <2>1, <2>2, <2>3
<1> DEFINE c == CHOOSE e : Is(e)
<1>6. Is(c)
  <2> HIDE DEF Is
  <2> QED
    BY <1>5
<1>7. Retained(r, s) = c[Len(r)]
  BY DEF Retained
<1>8. c[0] = First /\ \A n \in 1 .. Len(r) : c[n] = Pass(n, c[n - 1])
  <2> HIDE DEF c, First, Pass
  <2>1. 0 \in 0 .. Len(r) /\ \A n \in 1 .. Len(r) : n \in 0 .. Len(r) /\ n # 0
    BY <1>1
  <2> QED
    BY <1>6, <2>1
<1> HIDE DEF c
<1> QED
  BY <1>7, <1>8

\* The passes over the postings of a token.
LEMMA MergedLoop ==
    ASSUME NEW r \in Sorted, NEW s \in Seq(Nat)
    PROVE  \E f : /\ f[0] = r
                  /\ \A n \in 1 .. Len(s) : f[n] = Inserted(f[n - 1], s[n])
                  /\ Merged(r, s) = f[Len(s)]
<1> DEFINE S == Sorted
           First == r
           Pass(n, u) == Inserted(u, s[n])
           step == [y \in Nat \X S |-> IF y[1] \in 1 .. Len(s) THEN Pass(y[1], y[2]) ELSE y[2]]
           Is(f) == f = [n \in 0 .. Len(s) |-> IF n = 0 THEN First ELSE Pass(n, f[n - 1])]
<1>1. Len(s) \in Nat /\ First \in S
  OBVIOUS
<1>2. ASSUME NEW n \in 1 .. Len(s), NEW u \in S
      PROVE  Pass(n, u) \in S
  <2>1. s[n] \in Nat
    OBVIOUS
  <2> QED
    BY <2>1, InsertedIs
<1>3. /\ step \in [Nat \X S -> S]
      /\ \A n \in 1 .. Len(s), u \in S : step[<<n, u>>] = Pass(n, u)
  <2>1. \A n \in 1 .. Len(s) : n \in Nat
    BY <1>1
  <2> HIDE DEF S, Pass
  <2> QED
    BY <1>1, <1>2, <2>1
<1>4. PICK f : IsLoop(f, S, Len(s), First, step)
  <2> HIDE DEF S, First, step
  <2> QED
    BY <1>1, <1>3, LoopExists, Zenon
<1>5. Is(f)
  <2> HIDE DEF S, First, Pass, step
  <2>1. f = [n \in 0 .. Len(s) |-> f[n]] /\ f[0] = First
    BY <1>4 DEF IsLoop
  <2>2. ASSUME NEW n \in 1 .. Len(s)
        PROVE  f[n] = Pass(n, f[n - 1])
    <3>1. n - 1 \in 0 .. Len(s)
      BY <1>1
    <3>2. f[n - 1] \in S /\ f[n] = step[<<n, f[n - 1]>>]
      BY <1>4, <3>1 DEF IsLoop
    <3> QED
      BY <1>3, <3>2
  <2>3. \A n \in 0 .. Len(s) : n # 0 => n \in 1 .. Len(s)
    BY <1>1
  <2> QED
    BY <2>1, <2>2, <2>3
<1> DEFINE c == CHOOSE e : Is(e)
<1>6. Is(c)
  <2> HIDE DEF Is
  <2> QED
    BY <1>5
<1>7. Merged(r, s) = c[Len(s)]
  BY DEF Merged
<1>8. c[0] = First /\ \A n \in 1 .. Len(s) : c[n] = Pass(n, c[n - 1])
  <2> HIDE DEF c, First, Pass
  <2>1. 0 \in 0 .. Len(s) /\ \A n \in 1 .. Len(s) : n \in 0 .. Len(s) /\ n # 0
    BY <1>1
  <2> QED
    BY <1>6, <2>1
<1> HIDE DEF c
<1> QED
  BY <1>7, <1>8

\* retain keeps the order, and what both postings have.
LEMMA RetainedIs ==
    ASSUME NEW r \in Sorted, NEW s \in Sorted
    PROVE  Retained(r, s) \in Sorted /\ Range(Retained(r, s)) = Range(r) \cap Range(s)
<1>1. r \in Seq(Nat) /\ Len(r) \in Nat /\ \A i, j \in 1 .. Len(r) : i < j => r[i] < r[j]
  BY DEF Sorted, Ascending
<1>2. PICK f : /\ f[0] = <<>>
               /\ \A n \in 1 .. Len(r) :
                     f[n] = IF Has(s, r[n]) THEN Append(f[n - 1], r[n]) ELSE f[n - 1]
               /\ Retained(r, s) = f[Len(r)]
  BY <1>1, RetainedLoop
<1>3. /\ Within(r, 0) = {}
      /\ \A n \in 1 .. Len(r) : Within(r, n) = Within(r, n - 1) \cup {r[n]}
      /\ Within(r, Len(r)) = Range(r)
  BY <1>1, WithinIs
<1> DEFINE T == {n \in 0 .. Len(r) : f[n] \in Sorted /\ Range(f[n]) = Within(r, n) \cap Range(s)}
<1>4. 0 \in T
  <2>1. <<>> \in Sorted /\ Range(<<>>) = {}
    BY DEF Sorted, Ascending, Range
  <2> QED
    BY <1>1, <1>2, <1>3, <2>1
<1>5. ASSUME NEW n \in 1 .. Len(r), n - 1 \in T
      PROVE  n \in T
  <2> DEFINE u == f[n - 1]
  <2>1. u \in Sorted /\ Range(u) = Within(r, n - 1) \cap Range(s)
    BY <1>5
  <2>2. f[n] = IF Has(s, r[n]) THEN Append(u, r[n]) ELSE u
    BY <1>2
  <2>3. r[n] \in Nat /\ n \in 0 .. Len(r)
    BY <1>1
  <2>4. Has(s, r[n]) <=> r[n] \in Range(s)
    BY <2>3, SearchIs
  <2> HIDE DEF u
  <2>5. CASE ~Has(s, r[n])
    <3>1. f[n] = u
      BY <2>2, <2>5
    <3>2. Within(r, n) \cap Range(s) = Within(r, n - 1) \cap Range(s)
      BY <1>3, <2>4, <2>5
    <3> QED
      BY <2>1, <2>3, <3>1, <3>2
  <2>6. CASE Has(s, r[n])
    <3> DEFINE w == Append(u, r[n])
    <3>1. f[n] = w
      BY <2>2, <2>6
    <3>2. u \in Seq(Nat) /\ Len(u) \in Nat /\ \A i, j \in 1 .. Len(u) : i < j => u[i] < u[j]
      BY <2>1 DEF Sorted, Ascending
    <3>3. w \in Seq(Nat) /\ DOMAIN w = 1 .. Len(u) + 1
          /\ w[Len(u) + 1] = r[n] /\ \A i \in 1 .. Len(u) : w[i] = u[i]
      BY <2>3, <3>2
    <3> HIDE DEF w
    <3>4. \A i \in 1 .. Len(u) : u[i] < r[n]
      <4> SUFFICES ASSUME NEW i \in 1 .. Len(u) PROVE u[i] < r[n]
        OBVIOUS
      <4>1. u[i] \in Range(u)
        BY <3>2 DEF Range
      <4>2. PICK k \in 1 .. n - 1 : u[i] = r[k]
        BY <2>1, <4>1 DEF Within
      <4>3. k \in 1 .. Len(r) /\ k < n /\ n \in 1 .. Len(r)
        BY <1>1
      <4> QED
        BY <1>1, <4>2, <4>3
    <3>5. ASSUME NEW i \in DOMAIN w, NEW j \in DOMAIN w, i < j
          PROVE  w[i] < w[j]
      <4>1. i \in 1 .. Len(u)
        BY <3>2, <3>3, <3>5
      <4>2. CASE j = Len(u) + 1
        BY <3>3, <3>4, <4>1, <4>2
      <4>3. CASE j # Len(u) + 1
        <5>1. j \in 1 .. Len(u)
          BY <3>2, <3>3, <4>3
        <5> QED
          BY <3>2, <3>3, <3>5, <4>1, <5>1
      <4> QED
        BY <4>2, <4>3
    <3>6. w \in Sorted
      BY <3>3, <3>5 DEF Sorted, Ascending
    <3>7. Range(w) = Range(u) \cup {r[n]}
      <4>1. \A i \in DOMAIN w : i = Len(u) + 1 \/ i \in 1 .. Len(u)
        BY <3>2, <3>3
      <4>2. \A i \in 1 .. Len(u) : i \in DOMAIN w
        BY <3>2, <3>3
      <4>3. Len(u) + 1 \in DOMAIN w /\ DOMAIN u = 1 .. Len(u)
        BY <3>2, <3>3
      <4>4. \A y \in Range(w) : y \in Range(u) \cup {r[n]}
        BY <3>3, <4>1, <4>3 DEF Range
      <4>5. \A y \in Range(u) : y \in Range(w)
        BY <3>3, <4>2, <4>3 DEF Range
      <4>6. r[n] \in Range(w)
        BY <3>3, <4>3 DEF Range
      <4> QED
        BY <4>4, <4>5, <4>6
    <3>8. Within(r, n) \cap Range(s) = (Within(r, n - 1) \cap Range(s)) \cup {r[n]}
      BY <1>3, <2>4, <2>6
    <3> QED
      BY <2>1, <2>3, <3>1, <3>6, <3>7, <3>8
  <2> QED
    BY <2>5, <2>6
<1>6. \A n \in 0 .. Len(r) : n \in T
  <2> HIDE DEF T
  <2> QED
    BY <1>1, <1>4, <1>5, LoopKeeps
<1>7. Len(r) \in T
  BY <1>1, <1>6
<1> QED
  BY <1>2, <1>3, <1>7

\* Inserting postings one by one keeps the order, and adds them all.
LEMMA MergedIs ==
    ASSUME NEW r \in Sorted, NEW s \in Seq(Nat)
    PROVE  Merged(r, s) \in Sorted /\ Range(Merged(r, s)) = Range(r) \cup Range(s)
<1>1. Len(s) \in Nat
  OBVIOUS
<1>2. PICK f : /\ f[0] = r
               /\ \A n \in 1 .. Len(s) : f[n] = Inserted(f[n - 1], s[n])
               /\ Merged(r, s) = f[Len(s)]
  BY MergedLoop
<1>3. /\ Within(s, 0) = {}
      /\ \A n \in 1 .. Len(s) : Within(s, n) = Within(s, n - 1) \cup {s[n]}
      /\ Within(s, Len(s)) = Range(s)
  BY WithinIs
<1> DEFINE T == {n \in 0 .. Len(s) : f[n] \in Sorted /\ Range(f[n]) = Range(r) \cup Within(s, n)}
<1>4. 0 \in T
  BY <1>1, <1>2, <1>3
<1>5. ASSUME NEW n \in 1 .. Len(s), n - 1 \in T
      PROVE  n \in T
  <2> DEFINE u == f[n - 1]
  <2>1. u \in Sorted /\ Range(u) = Range(r) \cup Within(s, n - 1)
    BY <1>5
  <2>2. f[n] = Inserted(u, s[n]) /\ s[n] \in Nat /\ n \in 0 .. Len(s)
    BY <1>1, <1>2
  <2> HIDE DEF u
  <2>3. Inserted(u, s[n]) \in Sorted /\ Range(Inserted(u, s[n])) = Range(u) \cup {s[n]}
    BY <2>1, <2>2, InsertedIs
  <2>4. Within(s, n) = Within(s, n - 1) \cup {s[n]}
    BY <1>3
  <2> QED
    BY <2>1, <2>2, <2>3, <2>4
<1>6. \A n \in 0 .. Len(s) : n \in T
  <2> HIDE DEF T
  <2> QED
    BY <1>1, <1>4, <1>5, LoopKeeps
<1>7. Len(s) \in T
  BY <1>1, <1>6
<1> QED
  BY <1>2, <1>3, <1>7
-----------------------------------------------------------------------------
(* The invariant *)

\* The postings of a token are sorted and are the ids indexed under it; nothing
\* is indexed under a token never met.
IndexInv ==
    /\ IndexTypeOK
    /\ \A t \in DOMAIN index : /\ index[t] \in Sorted
                               /\ \A id \in Nat : id \in Range(index[t]) <=> <<t, id>> \in indexed
    /\ \A p \in indexed : p[1] \in DOMAIN index

\* A new index has no tokens and no postings.
LEMMA IndexInitInv == IndexInit => IndexInv
  BY DEF IndexInit, IndexInv, IndexTypeOK

\* Sorted postings of ids are postings of ids.
LEMMA SortedOfIds ==
    ASSUME NEW s \in Sorted, NEW I, Range(s) \subseteq I
    PROVE  s \in Seq(I)
<1>1. s \in Seq(Nat) /\ Len(s) \in Nat /\ s = [i \in 1 .. Len(s) |-> s[i]]
  BY DEF Sorted
<1>2. \A i \in 1 .. Len(s) : s[i] \in I
  BY <1>1 DEF Range
<1>3. s \in [1 .. Len(s) -> I]
  BY <1>1, <1>2
<1> QED
  BY <1>1, <1>3

\* The ids of a token are ids, if its postings are what is indexed.
LEMMA PostingsAreIds ==
    ASSUME IndexInv, NEW t \in DOMAIN index
    PROVE  Range(index[t]) \subseteq Ids
<1> SUFFICES ASSUME NEW i \in DOMAIN index[t] PROVE index[t][i] \in Ids
  BY DEF Range
<1>1. index[t] \in Seq(Ids)
  BY DEF IndexInv, IndexTypeOK
<1> QED
  BY <1>1

\* insert_document puts the id under every token of the text and nowhere else.
LEMMA InsertInv ==
    ASSUME IndexConstants, IndexInv, NEW id \in Ids, NEW text \in Texts, InsertDocument(id, text)
    PROVE  IndexInv'
<1>1. id \in Nat /\ Range(text) \subseteq Tokens
  BY DEF IndexConstants, Tokens
<1>2. /\ DOMAIN index' = DOMAIN index \cup Range(text)
      /\ \A t \in DOMAIN index \cup Range(text) :
            index'[t] = IF t \in Range(text) THEN Inserted(Postings(t), id) ELSE index[t]
      /\ indexed' = indexed \cup (Range(text) \X {id})
  BY DEF InsertDocument
<1>3. \A t : Postings(t) \in Sorted
             /\ \A i \in Nat : i \in Range(Postings(t)) <=> <<t, i>> \in indexed
  <2> SUFFICES ASSUME NEW t
               PROVE  Postings(t) \in Sorted
                      /\ \A i \in Nat : i \in Range(Postings(t)) <=> <<t, i>> \in indexed
    OBVIOUS
  <2>1. CASE t \in DOMAIN index
    BY <2>1 DEF IndexInv, Postings
  <2>2. CASE t \notin DOMAIN index
    <3>1. Postings(t) = <<>>
      BY <2>2 DEF Postings
    <3>2. <<>> \in Sorted /\ Range(<<>>) = {}
      BY DEF Sorted, Ascending, Range
    <3>3. \A i : <<t, i>> \notin indexed
      BY <2>2 DEF IndexInv
    <3> QED
      BY <3>1, <3>2, <3>3
  <2> QED
    BY <2>1, <2>2
<1>4. ASSUME NEW t \in DOMAIN index'
      PROVE  /\ index'[t] \in Sorted
             /\ \A i \in Nat : i \in Range(index'[t]) <=> <<t, i>> \in indexed'
             /\ index'[t] \in Seq(Ids)
  <2>1. CASE t \in Range(text)
    <3> DEFINE p == Postings(t)
    <3>1. index'[t] = Inserted(p, id)
      BY <1>2, <2>1
    <3>2. p \in Sorted /\ \A i \in Nat : i \in Range(p) <=> <<t, i>> \in indexed
      BY <1>3
    <3>3. Range(p) \subseteq Ids
      <4>1. CASE t \in DOMAIN index
        BY <4>1, PostingsAreIds DEF Postings
      <4>2. CASE t \notin DOMAIN index
        BY <4>2 DEF Postings, Range
      <4> QED
        BY <4>1, <4>2
    <3> HIDE DEF p
    <3>4. index'[t] \in Sorted /\ Range(index'[t]) = Range(p) \cup {id}
      BY <1>1, <3>1, <3>2, InsertedIs
    <3>5. \A i \in Nat : <<t, i>> \in indexed' <=> (<<t, i>> \in indexed \/ i = id)
      BY <1>2, <2>1
    <3>6. \A i \in Nat : i \in Range(index'[t]) <=> <<t, i>> \in indexed'
      BY <3>2, <3>4, <3>5
    <3>7. Range(index'[t]) \subseteq Ids
      BY <3>3, <3>4
    <3>8. index'[t] \in Seq(Ids)
      BY <3>4, <3>7, SortedOfIds
    <3> QED
      BY <3>4, <3>6, <3>8
  <2>2. CASE t \notin Range(text)
    <3>1. t \in DOMAIN index /\ index'[t] = index[t]
      BY <1>2, <2>2
    <3>2. \A i \in Nat : <<t, i>> \in indexed' <=> <<t, i>> \in indexed
      BY <1>2, <2>2
    <3>3. index[t] \in Sorted /\ (\A i \in Nat : i \in Range(index[t]) <=> <<t, i>> \in indexed)
          /\ index[t] \in Seq(Ids)
      BY <3>1 DEF IndexInv, IndexTypeOK
    <3> QED
      BY <3>1, <3>2, <3>3
  <2> QED
    BY <2>1, <2>2
<1>5. DOMAIN index' \subseteq Tokens /\ indexed' \subseteq Tokens \X Ids
  BY <1>1, <1>2 DEF IndexInv, IndexTypeOK
<1>6. \A p \in indexed' : p[1] \in DOMAIN index'
  BY <1>2 DEF IndexInv
<1> QED
  BY <1>4, <1>5, <1>6 DEF IndexInv, IndexTypeOK

\* remove_document takes the id from every token of the text and nowhere else.
LEMMA RemoveInv ==
    ASSUME IndexConstants, IndexInv, NEW id \in Ids, NEW text \in Texts, RemoveDocument(id, text)
    PROVE  IndexInv'
<1>1. id \in Nat
  BY DEF IndexConstants
<1>2. /\ DOMAIN index' = DOMAIN index
      /\ \A t \in DOMAIN index :
            index'[t] = IF t \in Range(text) THEN Removed(index[t], id) ELSE index[t]
      /\ indexed' = indexed \ (Range(text) \X {id})
  BY DEF RemoveDocument
<1>3. ASSUME NEW t \in DOMAIN index'
      PROVE  /\ index'[t] \in Sorted
             /\ \A i \in Nat : i \in Range(index'[t]) <=> <<t, i>> \in indexed'
             /\ index'[t] \in Seq(Ids)
  <2>1. t \in DOMAIN index /\ index[t] \in Sorted /\ index[t] \in Seq(Ids)
        /\ (\A i \in Nat : i \in Range(index[t]) <=> <<t, i>> \in indexed)
    BY <1>2 DEF IndexInv, IndexTypeOK
  <2>2. CASE t \in Range(text)
    <3>1. index'[t] = Removed(index[t], id)
      BY <1>2, <2>1, <2>2
    <3>2. index'[t] \in Sorted /\ Range(index'[t]) = Range(index[t]) \ {id}
      BY <1>1, <2>1, <3>1, RemovedIs
    <3>3. \A i \in Nat : <<t, i>> \in indexed' <=> (<<t, i>> \in indexed /\ i # id)
      BY <1>2, <2>2
    <3>4. \A i \in Nat : i \in Range(index'[t]) <=> <<t, i>> \in indexed'
      BY <2>1, <3>2, <3>3
    <3>5. Range(index'[t]) \subseteq Ids
      BY <2>1, <3>2, PostingsAreIds
    <3>6. index'[t] \in Seq(Ids)
      BY <3>2, <3>5, SortedOfIds
    <3> QED
      BY <3>2, <3>4, <3>6
  <2>3. CASE t \notin Range(text)
    <3>1. index'[t] = index[t]
      BY <1>2, <2>1, <2>3
    <3>2. \A i \in Nat : <<t, i>> \in indexed' <=> <<t, i>> \in indexed
      BY <1>2, <2>3
    <3> QED
      BY <2>1, <3>1, <3>2
  <2> QED
    BY <2>2, <2>3
<1>4. DOMAIN index' \subseteq Tokens /\ indexed' \subseteq Tokens \X Ids
  BY <1>2 DEF IndexInv, IndexTypeOK
<1>5. \A p \in indexed' : p[1] \in DOMAIN index'
  BY <1>2 DEF IndexInv
<1> QED
  BY <1>3, <1>4, <1>5 DEF IndexInv, IndexTypeOK

\* Every call keeps the invariant.
LEMMA IndexNextInv ==
    ASSUME IndexConstants, IndexInv, [IndexNext]_indexVars
    PROVE  IndexInv'
<1>1. ASSUME NEW id \in Ids, NEW text \in Texts, InsertDocument(id, text)
      PROVE  IndexInv'
  BY <1>1, InsertInv
<1>2. ASSUME NEW id \in Ids, NEW text \in Texts, RemoveDocument(id, text)
      PROVE  IndexInv'
  BY <1>2, RemoveInv
<1>3. ASSUME UNCHANGED indexVars
      PROVE  IndexInv'
  BY <1>3 DEF indexVars, IndexInv, IndexTypeOK
<1> QED
  BY <1>1, <1>2, <1>3 DEF IndexNext
-----------------------------------------------------------------------------

\* The passes of search_or over its tokens.
LEMMA SearchOrLoop ==
    ASSUME NEW query, Len(query) \in Nat, \A t : Postings(t) \in Sorted
    PROVE  \E f : /\ f[0] = <<>>
                  /\ \A n \in 1 .. Len(query) : f[n] = Merged(f[n - 1], Postings(query[n]))
                  /\ SearchOr(query) = f[Len(query)]
<1> DEFINE S == Sorted
           First == <<>>
           Pass(n, u) == Merged(u, Postings(query[n]))
           step == [y \in Nat \X S |-> IF y[1] \in 1 .. Len(query) THEN Pass(y[1], y[2]) ELSE y[2]]
           Is(f) == f = [n \in 0 .. Len(query) |-> IF n = 0 THEN First ELSE Pass(n, f[n - 1])]
<1>1. Len(query) \in Nat /\ First \in S
  BY DEF Sorted, Ascending
<1>2. ASSUME NEW n \in 1 .. Len(query), NEW u \in S
      PROVE  Pass(n, u) \in S
  <2>1. Postings(query[n]) \in Sorted /\ Postings(query[n]) \in Seq(Nat)
    BY DEF Sorted
  <2> QED
    BY <2>1, MergedIs
<1>3. /\ step \in [Nat \X S -> S]
      /\ \A n \in 1 .. Len(query), u \in S : step[<<n, u>>] = Pass(n, u)
  <2>1. \A n \in 1 .. Len(query) : n \in Nat
    BY <1>1
  <2> HIDE DEF S, Pass
  <2> QED
    BY <1>1, <1>2, <2>1
<1>4. PICK f : IsLoop(f, S, Len(query), First, step)
  <2> HIDE DEF S, First, step
  <2> QED
    BY <1>1, <1>3, LoopExists, Zenon
<1>5. Is(f)
  <2> HIDE DEF S, First, Pass, step
  <2>1. f = [n \in 0 .. Len(query) |-> f[n]] /\ f[0] = First
    BY <1>4 DEF IsLoop
  <2>2. ASSUME NEW n \in 1 .. Len(query)
        PROVE  f[n] = Pass(n, f[n - 1])
    <3>1. n - 1 \in 0 .. Len(query)
      BY <1>1
    <3>2. f[n - 1] \in S /\ f[n] = step[<<n, f[n - 1]>>]
      BY <1>4, <3>1 DEF IsLoop
    <3> QED
      BY <1>3, <3>2
  <2>3. \A n \in 0 .. Len(query) : n # 0 => n \in 1 .. Len(query)
    BY <1>1
  <2> QED
    BY <2>1, <2>2, <2>3
<1> DEFINE c == CHOOSE e : Is(e)
<1>6. Is(c)
  <2> HIDE DEF Is
  <2> QED
    BY <1>5
<1>7. SearchOr(query) = c[Len(query)]
  BY DEF SearchOr
<1>8. c[0] = First /\ \A n \in 1 .. Len(query) : c[n] = Pass(n, c[n - 1])
  <2> HIDE DEF c, First, Pass
  <2>1. 0 \in 0 .. Len(query) /\ \A n \in 1 .. Len(query) : n \in 0 .. Len(query) /\ n # 0
    BY <1>1
  <2> QED
    BY <1>6, <2>1
<1> HIDE DEF c
<1> QED
  BY <1>7, <1>8

\* The passes of search_and over its tokens.
LEMMA SearchAndLoop ==
    ASSUME NEW query, Len(query) \in Nat, \A t \in DOMAIN index : index[t] \in Sorted
    PROVE  \E f : /\ f[0] = [begun |-> FALSE, ids |-> <<>>]
                  /\ \A n \in 1 .. Len(query) : f[n] = AndAlso(f[n - 1], query[n])
                  /\ SearchAnd(query) = f[Len(query)].ids
<1> DEFINE S == [begun : BOOLEAN, ids : Sorted]
           First == [begun |-> FALSE, ids |-> <<>>]
           Pass(n, u) == AndAlso(u, query[n])
           step == [y \in Nat \X S |-> IF y[1] \in 1 .. Len(query) THEN Pass(y[1], y[2]) ELSE y[2]]
           Is(f) == f = [n \in 0 .. Len(query) |-> IF n = 0 THEN First ELSE Pass(n, f[n - 1])]
<1>1. Len(query) \in Nat /\ First \in S
  BY DEF Sorted, Ascending
<1>2. ASSUME NEW n \in 1 .. Len(query), NEW u \in S
      PROVE  Pass(n, u) \in S
  <2> DEFINE t == query[n]
             ids == IF u.begun THEN Retained(u.ids, index[t]) ELSE index[t]
  <2>1. CASE t \notin DOMAIN index
    BY <2>1 DEF AndAlso
  <2>2. CASE t \in DOMAIN index
    <3>1. u.ids \in Sorted /\ index[t] \in Sorted
      BY <2>2
    <3>2. ids \in Sorted
      BY <3>1, RetainedIs
    <3>3. AndAlso(u, t) = [begun |-> TRUE, ids |-> ids]
      BY <2>2 DEF AndAlso
    <3> HIDE DEF ids
    <3> QED
      BY <3>2, <3>3
  <2> QED
    BY <2>1, <2>2
<1>3. /\ step \in [Nat \X S -> S]
      /\ \A n \in 1 .. Len(query), u \in S : step[<<n, u>>] = Pass(n, u)
  <2>1. \A n \in 1 .. Len(query) : n \in Nat
    BY <1>1
  <2> HIDE DEF S, Pass
  <2> QED
    BY <1>1, <1>2, <2>1
<1>4. PICK f : IsLoop(f, S, Len(query), First, step)
  <2> HIDE DEF S, First, step
  <2> QED
    BY <1>1, <1>3, LoopExists, Zenon
<1>5. Is(f)
  <2> HIDE DEF S, First, Pass, step
  <2>1. f = [n \in 0 .. Len(query) |-> f[n]] /\ f[0] = First
    BY <1>4 DEF IsLoop
  <2>2. ASSUME NEW n \in 1 .. Len(query)
        PROVE  f[n] = Pass(n, f[n - 1])
    <3>1. n - 1 \in 0 .. Len(query)
      BY <1>1
    <3>2. f[n - 1] \in S /\ f[n] = step[<<n, f[n - 1]>>]
      BY <1>4, <3>1 DEF IsLoop
    <3> QED
      BY <1>3, <3>2
  <2>3. \A n \in 0 .. Len(query) : n # 0 => n \in 1 .. Len(query)
    BY <1>1
  <2> QED
    BY <2>1, <2>2, <2>3
<1> DEFINE c == CHOOSE e : Is(e)
<1>6. Is(c)
  <2> HIDE DEF Is
  <2> QED
    BY <1>5
<1>7. SearchAnd(query) = c[Len(query)].ids
  BY DEF SearchAnd
<1>8. c[0] = First /\ \A n \in 1 .. Len(query) : c[n] = Pass(n, c[n - 1])
  <2> HIDE DEF c, First, Pass
  <2>1. 0 \in 0 .. Len(query) /\ \A n \in 1 .. Len(query) : n \in 0 .. Len(query) /\ n # 0
    BY <1>1
  <2> QED
    BY <1>6, <2>1
<1> HIDE DEF c
<1> QED
  BY <1>7, <1>8

\* The postings of a token, met or not, are sorted and are what is indexed under it.
LEMMA PostingsAre ==
    ASSUME IndexConstants, IndexInv, NEW t
    PROVE  /\ Postings(t) \in Sorted
           /\ Range(Postings(t)) = {id \in Ids : <<t, id>> \in indexed}
<1>1. CASE t \in DOMAIN index
  <2>1. Postings(t) = index[t] /\ index[t] \in Sorted
        /\ (\A i \in Nat : i \in Range(index[t]) <=> <<t, i>> \in indexed)
    BY <1>1 DEF Postings, IndexInv
  <2>2. Range(index[t]) \subseteq Ids
    BY <1>1, PostingsAreIds
  <2>3. Ids \subseteq Nat
    BY DEF IndexConstants
  <2> QED
    BY <2>1, <2>2, <2>3
<1>2. CASE t \notin DOMAIN index
  <2>1. Postings(t) = <<>>
    BY <1>2 DEF Postings
  <2>2. <<>> \in Sorted /\ Range(<<>>) = {}
    BY DEF Sorted, Ascending, Range
  <2>3. \A i : <<t, i>> \notin indexed
    BY <1>2 DEF IndexInv
  <2> QED
    BY <2>1, <2>2, <2>3
<1> QED
  BY <1>1, <1>2

\* search_or returns what is indexed under some token of the query.
LEMMA SearchOrFinds ==
    ASSUME IndexConstants, IndexInv, NEW query, query \in Seq(Range(query))
    PROVE  /\ SearchOr(query) \in Sorted
           /\ Range(SearchOr(query)) = {id \in Ids : \E t \in Range(query) : <<t, id>> \in indexed}
<1>1. Len(query) \in Nat
  OBVIOUS
<1> DEFINE Under(t) == {id \in Ids : <<t, id>> \in indexed}
<1>2. \A t : Postings(t) \in Sorted /\ Range(Postings(t)) = Under(t)
  BY PostingsAre
<1>3. PICK f : /\ f[0] = <<>>
               /\ \A n \in 1 .. Len(query) : f[n] = Merged(f[n - 1], Postings(query[n]))
               /\ SearchOr(query) = f[Len(query)]
  BY <1>1, <1>2, SearchOrLoop
<1>4. /\ Within(query, 0) = {}
      /\ \A n \in 1 .. Len(query) : Within(query, n) = Within(query, n - 1) \cup {query[n]}
      /\ Within(query, Len(query)) = Range(query)
  BY WithinIs
<1> DEFINE T == {n \in 0 .. Len(query) : /\ f[n] \in Sorted
                                         /\ Range(f[n]) = UNION {Under(t) : t \in Within(query, n)}}
<1> HIDE DEF Under
<1>5. 0 \in T
  <2>1. <<>> \in Sorted /\ Range(<<>>) = {}
    BY DEF Sorted, Ascending, Range
  <2> QED
    BY <1>1, <1>3, <1>4, <2>1
<1>6. ASSUME NEW n \in 1 .. Len(query), n - 1 \in T
      PROVE  n \in T
  <2> DEFINE u == f[n - 1]
             p == Postings(query[n])
  <2>1. u \in Sorted /\ Range(u) = UNION {Under(t) : t \in Within(query, n - 1)}
    BY <1>6
  <2>2. f[n] = Merged(u, p)
    BY <1>3
  <2>3. p \in Sorted /\ Range(p) = Under(query[n])
    BY <1>2
  <2> HIDE DEF u, p
  <2>4. Merged(u, p) \in Sorted /\ Range(Merged(u, p)) = Range(u) \cup Range(p)
    <3>1. p \in Seq(Nat)
      BY <2>3 DEF Sorted
    <3> QED
      BY <2>1, <3>1, MergedIs
  <2>5. UNION {Under(t) : t \in Within(query, n)}
            = (UNION {Under(t) : t \in Within(query, n - 1)}) \cup Under(query[n])
    BY <1>4
  <2>6. n \in 0 .. Len(query)
    BY <1>1
  <2> QED
    BY <2>1, <2>2, <2>3, <2>4, <2>5, <2>6
<1>7. \A n \in 0 .. Len(query) : n \in T
  <2> HIDE DEF T
  <2> QED
    BY <1>1, <1>5, <1>6, LoopKeeps
<1>8. Len(query) \in T
  BY <1>1, <1>7
<1>9. UNION {Under(t) : t \in Range(query)} = {id \in Ids : \E t \in Range(query) : <<t, id>> \in indexed}
  <2>1. \A t, id : id \in Under(t) <=> id \in Ids /\ <<t, id>> \in indexed
    BY DEF Under
  <2> QED
    BY <2>1, Zenon
<1> QED
  BY <1>3, <1>4, <1>8, <1>9

\* search_and returns what is indexed under all tokens of the query met before.
LEMMA SearchAndFinds ==
    ASSUME IndexConstants, IndexInv, NEW query, query \in Seq(Range(query))
    PROVE  /\ SearchAnd(query) \in Sorted
           /\ LET known == Range(query) \cap DOMAIN index
              IN  Range(SearchAnd(query)) =
                      {id \in Ids : known # {} /\ \A t \in known : <<t, id>> \in indexed}
<1>1. Len(query) \in Nat
  OBVIOUS
<1> DEFINE Known(n) == Within(query, n) \cap DOMAIN index
           Under(n) == {id \in Ids : Known(n) # {} /\ \A t \in Known(n) : <<t, id>> \in indexed}
<1>2. \A t \in DOMAIN index : /\ index[t] \in Sorted
                              /\ Range(index[t]) = {id \in Ids : <<t, id>> \in indexed}
  BY PostingsAre DEF Postings
<1>3. PICK f : /\ f[0] = [begun |-> FALSE, ids |-> <<>>]
               /\ \A n \in 1 .. Len(query) : f[n] = AndAlso(f[n - 1], query[n])
               /\ SearchAnd(query) = f[Len(query)].ids
  BY <1>1, <1>2, SearchAndLoop
<1>4. /\ Within(query, 0) = {}
      /\ \A n \in 1 .. Len(query) : Within(query, n) = Within(query, n - 1) \cup {query[n]}
      /\ Within(query, Len(query)) = Range(query)
  BY WithinIs
<1> DEFINE T == {n \in 0 .. Len(query) : /\ f[n].ids \in Sorted
                                         /\ f[n].begun \in BOOLEAN
                                         /\ f[n].begun <=> Known(n) # {}
                                         /\ Range(f[n].ids) = Under(n)}
<1>5. 0 \in T
  <2>1. <<>> \in Sorted /\ Range(<<>>) = {}
    BY DEF Sorted, Ascending, Range
  <2>2. f[0].begun = FALSE /\ f[0].ids = <<>>
    BY <1>3
  <2>3. Known(0) = {} /\ Under(0) = {}
    BY <1>4
  <2> HIDE DEF Known, Under
  <2>4. f[0].ids \in Sorted /\ f[0].begun \in BOOLEAN /\ (f[0].begun <=> Known(0) # {})
    BY <2>1, <2>2, <2>3
  <2>5. Range(f[0].ids) = Under(0)
    BY <2>1, <2>2, <2>3
  <2> QED
    BY <1>1, <2>4, <2>5
<1>6. ASSUME NEW n \in 1 .. Len(query), n - 1 \in T
      PROVE  n \in T
  <2> DEFINE u == f[n - 1]
             t == query[n]
  <2>1. /\ u.ids \in Sorted /\ u.begun \in BOOLEAN
        /\ u.begun <=> Known(n - 1) # {}
        /\ Range(u.ids) = Under(n - 1)
    BY <1>6
  <2>2. f[n] = AndAlso(u, t)
    BY <1>3
  <2>3. Within(query, n) = Within(query, n - 1) \cup {t}
    BY <1>4
  <2>4. n \in 0 .. Len(query)
    BY <1>1
  <2> HIDE DEF u, t
  <2>5. CASE t \notin DOMAIN index
    <3>1. f[n] = u
      BY <2>2, <2>5 DEF AndAlso
    <3>2. Known(n) = Known(n - 1)
      BY <2>3, <2>5
    <3> QED
      BY <2>1, <2>4, <3>1, <3>2
  <2>6. CASE t \in DOMAIN index
    <3> DEFINE ids == IF u.begun THEN Retained(u.ids, index[t]) ELSE index[t]
    <3>1. f[n] = [begun |-> TRUE, ids |-> ids]
      BY <2>2, <2>6 DEF AndAlso
    <3>2. f[n].begun = TRUE /\ f[n].ids = ids
      BY <3>1
    <3>3. Known(n) = Known(n - 1) \cup {t}
      BY <2>3, <2>6
    <3>4. index[t] \in Sorted /\ Range(index[t]) = {id \in Ids : <<t, id>> \in indexed}
      BY <1>2, <2>6
    <3>5. CASE u.begun
      <4>1. ids \in Sorted /\ Range(ids) = Range(u.ids) \cap Range(index[t])
        BY <2>1, <3>4, <3>5, RetainedIs
      <4>2. Under(n) = Under(n - 1) \cap {id \in Ids : <<t, id>> \in indexed}
        BY <2>1, <3>3, <3>5
      <4> HIDE DEF Known, Under, ids
      <4>3. Known(n) # {}
        BY <3>3
      <4> QED
        BY <2>1, <2>4, <3>2, <3>4, <4>1, <4>2, <4>3
    <3>6. CASE ~u.begun
      <4>1. ids = index[t]
        BY <3>6
      <4>2. Under(n) = {id \in Ids : <<t, id>> \in indexed}
        BY <2>1, <3>3, <3>6
      <4> HIDE DEF Known, Under, ids
      <4>3. Known(n) # {}
        BY <3>3
      <4> QED
        BY <2>4, <3>2, <3>4, <4>1, <4>2, <4>3
    <3> QED
      BY <2>1, <3>5, <3>6
  <2> QED
    BY <2>5, <2>6
<1>7. \A n \in 0 .. Len(query) : n \in T
  <2> HIDE DEF T
  <2> QED
    BY <1>1, <1>5, <1>6, LoopKeeps
<1>8. Len(query) \in T
  BY <1>1, <1>7
<1> QED
  BY <1>3, <1>4, <1>8

\* After any inserts and removals a search returns, in order and once each, the
\* ids indexed under some token of the query, or, when the index has met all its
\* tokens, under all of them: engine/index.rs, binary_search, insert, remove and
\* retain together.
THEOREM SearchesAreRight == ASSUME IndexConstants PROVE IndexSpec => []SearchesFind
<1>1. IndexInit => IndexInv
  BY IndexInitInv
<1>2. IndexInv /\ [IndexNext]_indexVars => IndexInv'
  BY IndexNextInv
<1>3. IndexInv => SearchesFind
  <2> SUFFICES ASSUME IndexInv, NEW query \in Texts
               PROVE  /\ Ascending(SearchOr(query))
                      /\ Range(SearchOr(query))
                             = {id \in Ids : \E t \in Range(query) : <<t, id>> \in indexed}
                      /\ Ascending(SearchAnd(query))
                      /\ query = <<>> => SearchAnd(query) = <<>>
                      /\ (query # <<>> /\ Range(query) \subseteq DOMAIN index) =>
                            Range(SearchAnd(query))
                                = {id \in Ids : \A t \in Range(query) : <<t, id>> \in indexed}
    BY DEF SearchesFind
  <2>1. query \in Seq(Range(query))
    BY DEF IndexConstants
  <2>2. \A s \in Sorted : Ascending(s)
    BY DEF Sorted
  <2>3. Ascending(SearchOr(query)) /\ Ascending(SearchAnd(query))
    BY <2>1, <2>2, SearchOrFinds, SearchAndFinds
  <2>4. Range(SearchOr(query)) = {id \in Ids : \E t \in Range(query) : <<t, id>> \in indexed}
    BY <2>1, SearchOrFinds
  <2> DEFINE known == Range(query) \cap DOMAIN index
  <2>5. Range(SearchAnd(query)) =
            {id \in Ids : known # {} /\ \A t \in known : <<t, id>> \in indexed}
    BY <2>1, SearchAndFinds
  <2>6. ASSUME query = <<>>
        PROVE  SearchAnd(query) = <<>>
    <3>1. known = {}
      BY <2>6 DEF Range
    <3>2. Range(SearchAnd(query)) = {}
      BY <2>5, <3>1
    <3>3. SearchAnd(query) \in Seq(Nat)
      BY <2>1, SearchAndFinds DEF Sorted
    <3>4. ASSUME NEW s \in Seq(Nat), Range(s) = {}
          PROVE  s = <<>>
      <4>1. 1 \notin DOMAIN s
        BY <3>4, Zenon DEF Range
      <4> QED
        BY <4>1
    <3> QED
      BY <3>2, <3>3, <3>4
  <2>7. ASSUME query # <<>>, Range(query) \subseteq DOMAIN index
        PROVE  Range(SearchAnd(query))
                   = {id \in Ids : \A t \in Range(query) : <<t, id>> \in indexed}
    <3>1. known = Range(query)
      BY <2>7
    <3>2. 1 \in DOMAIN query
      BY <2>1, <2>7
    <3>3. known # {}
      BY <3>1, <3>2 DEF Range
    <3> QED
      BY <2>5, <3>1, <3>3
  <2> QED
    BY <2>3, <2>4, <2>6, <2>7
<1> QED
  BY <1>1, <1>2, <1>3, PTL DEF IndexSpec
-----------------------------------------------------------------------------
(* ALL OF THEM *)

\* Types and bounds of a column.
THEOREM ColumnTyped == ASSUME ColumnConstants PROVE ColumnSpec => []ColumnTypeOK
<1>1. ColumnInit => ColumnInv
  BY ColumnInitially
<1>2. ColumnInv /\ [ColumnNext]_columnVars => ColumnInv'
  BY ColumnKept
<1>3. ColumnInv => ColumnTypeOK
  BY DEF ColumnInv
<1> QED
  BY <1>1, <1>2, <1>3, PTL DEF ColumnSpec

\* Types of the postings.
THEOREM IndexTyped == ASSUME IndexConstants PROVE IndexSpec => []IndexTypeOK
<1>1. IndexInit => IndexInv
  BY IndexInitInv
<1>2. IndexInv /\ [IndexNext]_indexVars => IndexInv'
  BY IndexNextInv
<1>3. IndexInv => IndexTypeOK
  BY DEF IndexInv
<1> QED
  BY <1>1, <1>2, <1>3, PTL DEF IndexSpec

\* The structures that are checked together are each by itself: a step is one
\* of the structure it is about and none of the others.
THEOREM EachByItself == StructuresSpec => Spec /\ ColumnSpec /\ FilesSpec /\ IndexSpec
<1> DEFINE all == <<subject, vars, columnVars, filesVars, indexVars>>
           Rest == UNCHANGED <<columnVars, filesVars, indexVars>>
<1>1. StructuresInit => Init /\ ColumnInit /\ FilesInit /\ IndexInit
  BY DEF StructuresInit
<1>2. MapNext => Next /\ UNCHANGED <<columnVars, filesVars, indexVars>>
  BY DEF MapNext, Next, IsMap, MapGet, MapRemove, MapInsert, MapGetMut, MapIterMut, MapClear
<1>3. ASSUME NEW w \in Writers, WriterNext(w)
      PROVE  ColumnNext /\ UNCHANGED <<vars, filesVars, indexVars>>
  BY <1>3 DEF WriterNext, ColumnNext, IsColumn, ColAcquire, ColPanics, ColClone, ColPush, ColSet,
              ColSetValid, ColSwapIn, ColRelease
<1>4. RecordsNext => FilesNext /\ UNCHANGED <<vars, columnVars, indexVars>>
  BY DEF RecordsNext, FilesNext, IsLog, IsFile, LogAppend, LogTear, FileWrite, FileReopen
<1>5. SearchNext => IndexNext /\ UNCHANGED <<vars, columnVars, filesVars>>
  BY DEF SearchNext, IndexNext, IsIndex, IndexInsert, IndexRemove
<1>6. [StructuresNext]_all =>
          [Next]_vars /\ [ColumnNext]_columnVars /\ [FilesNext]_filesVars /\ [IndexNext]_indexVars
  BY <1>2, <1>3, <1>4, <1>5 DEF StructuresNext
<1> QED
  BY <1>1, <1>6, PTL DEF StructuresSpec, Spec, ColumnSpec, FilesSpec, IndexSpec

\* The types and bounds of all of them, in the specification that TLC checks.
THEOREM AllTyped ==
    ASSUME ColumnConstants, CodecConstants, IndexConstants
    PROVE  StructuresSpec => []TypesOK
<1>1. /\ Spec => []TypeOK
      /\ ColumnSpec => []ColumnTypeOK
      /\ FilesSpec => []FilesTypeOK
      /\ IndexSpec => []IndexTypeOK
  BY MapTyped, ColumnTyped, FilesTyped, IndexTyped
<1>2. TypeOK /\ ColumnTypeOK /\ FilesTypeOK /\ IndexTypeOK => TypesOK
  BY DEF TypesOK
<1> QED
  BY <1>1, <1>2, EachByItself, PTL
=============================================================================
