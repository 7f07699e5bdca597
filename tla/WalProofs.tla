------------------------------ MODULE WalProofs ------------------------------
(***************************************************************************)
(* Proofs about Wal, for any bounds and modes.                             *)
(***************************************************************************)
EXTENDS Wal, SequenceTheorems, WellFoundedInduction, TLAPS

\* The least of a set of numbers.
LEMMA MinIs ==
  ASSUME NEW T \in SUBSET Nat, T # {}
  PROVE  Min(T) \in T /\ \A m \in T : Min(T) <= m
<1>1. PICK n \in T : \A m \in T : ~ (<<m, n>> \in OpToRel(<, Nat))
  BY NatLessThanWellFounded, WFMin
<1>2. \A m \in T : n <= m
  <2> SUFFICES ASSUME NEW m \in T, ~ (n <= m)
               PROVE  FALSE
    OBVIOUS
  <2>1. m \in Nat /\ n \in Nat
    OBVIOUS
  <2>2. m < n
    BY <2>1
  <2>3. <<m, n>> \in OpToRel(<, Nat)
    BY <2>1, <2>2, Zenon DEF OpToRel
  <2> QED
    BY <2>3, <1>1
<1> QED
  BY <1>2, Zenon DEF Min

\* The first torn record is one of them, and those before it are whole.
LEMMA FirstTorn ==
  ASSUME NEW records \in Seq(LogRecord), Torn(records) # {}
  PROVE  /\ Min(Torn(records)) \in 1 .. Len(records)
         /\ Min(Torn(records)) \in Torn(records)
         /\ \A m \in Torn(records) : Min(Torn(records)) <= m
<1> DEFINE T == Torn(records)
<1>1. T \subseteq 1 .. Len(records) /\ T \subseteq Nat
  BY DEF Torn
<1>2. T # {}
  OBVIOUS
<1> HIDE DEF T
<1>3. Min(T) \in T /\ \A m \in T : Min(T) <= m
  BY <1>1, <1>2, MinIs
<1> QED
  BY <1>1, <1>3 DEF T

\* What a replay applies is the commands up to the first torn record.
LEMMA ReadableIs ==
  ASSUME NEW records \in Seq(LogRecord)
  PROVE  /\ Len(Readable(records)) \in 0 .. Len(records)
         /\ \A i \in 1 .. Len(Readable(records)) :
               records[i].whole /\ Readable(records)[i] = records[i].cmd
         /\ Len(Readable(records)) # Len(records) =>
               ~records[Len(Readable(records)) + 1].whole
<1> DEFINE n == IF Torn(records) = {} THEN Len(records) ELSE Min(Torn(records)) - 1
<1>1. /\ n \in 0 .. Len(records)
      /\ \A i \in 1 .. n : i \notin Torn(records)
      /\ n # Len(records) => n + 1 \in Torn(records)
  <2>1. CASE Torn(records) = {}
    BY <2>1, LenProperties
  <2>2. CASE Torn(records) # {}
    <3>1. /\ Min(Torn(records)) \in 1 .. Len(records)
          /\ Min(Torn(records)) \in Torn(records)
          /\ \A m \in Torn(records) : Min(Torn(records)) <= m
      BY <2>2, FirstTorn
    <3>2. Len(records) \in Nat
      BY LenProperties
    <3> QED
      BY <2>2, <3>1, <3>2
  <2> QED
    BY <2>1, <2>2
<1>2. Readable(records) = [i \in 1 .. n |-> records[i].cmd]
  BY DEF Readable
<1> HIDE DEF n
<1>3. Len(Readable(records)) = n
  BY <1>1, <1>2
<1>4. DOMAIN records = 1 .. Len(records)
  BY LenProperties
<1>5. ASSUME NEW i \in 1 .. n
      PROVE  records[i].whole /\ Readable(records)[i] = records[i].cmd
  <2>0. n \in Nat /\ Len(records) \in Nat /\ n <= Len(records)
    BY <1>1, LenProperties
  <2>4. i \in 1 .. Len(records)
    BY <2>0
  <2>1. i \in DOMAIN records
    BY <1>4, <2>4, Zenon
  <2>3. i \notin Torn(records)
    BY <1>1
  <2>2. records[i].whole
    BY <2>1, <2>3, Zenon DEF Torn
  <2> QED
    BY <1>2, <2>2
<1>6. ASSUME n # Len(records) PROVE ~records[n + 1].whole
  BY <1>1, <1>6, Zenon DEF Torn
<1> QED
  BY <1>1, <1>3, <1>5, <1>6

\* What a replay applies is commands, and all of them if no record is torn.
LEMMA ReadableCommands ==
  ASSUME NEW records \in Seq(LogRecord)
  PROVE  /\ Readable(records) \in Seq(Command)
         /\ Torn(records) = {} => Len(Readable(records)) = Len(records)
<1> DEFINE n == IF Torn(records) = {} THEN Len(records) ELSE Min(Torn(records)) - 1
<1>1. n \in 0 .. Len(records)
  BY FirstTorn
<1>2. \A i \in 1 .. Len(records) : records[i].cmd \in Command
  <2>1. \A i \in 1 .. Len(records) : records[i] \in LogRecord
    BY ElementOfSeq
  <2> QED
    BY <2>1 DEF LogRecord
<1>3. [i \in 1 .. n |-> records[i].cmd] \in Seq(Command)
  BY <1>1, <1>2
<1>4. Torn(records) = {} => Len(Readable(records)) = Len(records)
  <2>1. Len(Readable(records)) = n
    BY <1>1 DEF Readable
  <2> QED
    BY <2>1
<1> QED
  BY <1>3, <1>4 DEF Readable

\* Commands written are whole records.
LEMMA WholeIs ==
  ASSUME NEW cmds \in Seq(Command)
  PROVE  /\ Whole(cmds) \in Seq(LogRecord)
         /\ Len(Whole(cmds)) = Len(cmds)
         /\ \A i \in 1 .. Len(cmds) : Whole(cmds)[i] = [cmd |-> cmds[i], whole |-> TRUE]
<1>1. Whole(cmds) = [i \in 1 .. Len(cmds) |-> [cmd |-> cmds[i], whole |-> TRUE]]
  BY DEF Whole
<1>2. \A i \in 1 .. Len(cmds) : [cmd |-> cmds[i], whole |-> TRUE] \in LogRecord
  BY DEF LogRecord
<1> QED
  BY <1>1, <1>2

\* Concatenation of commands, in the form the steps below use.
LEMMA Assoc ==
  \A a, b, c \in Seq(Command) : (a \o b) \o c = a \o (b \o c)
BY ConcatAssociative

\* And of records.
LEMMA AssocRecords ==
  \A a, b, c \in Seq(LogRecord) : (a \o b) \o c = a \o (b \o c)
BY ConcatAssociative

\* Concatenation with the empty sequence.
LEMMA Empty == \A a \in Seq(Command) : a \o <<>> = a /\ <<>> \o a = a
BY ConcatEmptySeq

\* A concatenation of commands is one.
LEMMA Closed == \A a, b \in Seq(Command) : a \o b \in Seq(Command)
BY ConcatProperties

\* Records written one after the other.
LEMMA WholeConcat ==
  ASSUME NEW a \in Seq(Command), NEW b \in Seq(Command)
  PROVE  Whole(a \o b) = Whole(a) \o Whole(b)
<1>1. /\ a \o b \in Seq(Command) /\ Len(a \o b) = Len(a) + Len(b)
      /\ Len(a) \in Nat /\ Len(b) \in Nat
      /\ \A i \in 1 .. Len(a) + Len(b) :
            (a \o b)[i] = IF i <= Len(a) THEN a[i] ELSE b[i - Len(a)]
  BY ConcatProperties, LenProperties
<1>3. /\ Whole(a) \in Seq(LogRecord) /\ Len(Whole(a)) = Len(a)
      /\ Whole(b) \in Seq(LogRecord) /\ Len(Whole(b)) = Len(b)
      /\ Whole(a \o b) \in Seq(LogRecord) /\ Len(Whole(a \o b)) = Len(a) + Len(b)
  BY <1>1, WholeIs
<1>4. /\ Whole(a) \o Whole(b) \in Seq(LogRecord)
      /\ Len(Whole(a) \o Whole(b)) = Len(a) + Len(b)
      /\ \A i \in 1 .. Len(a) + Len(b) :
            (Whole(a) \o Whole(b))[i] =
                IF i <= Len(a) THEN Whole(a)[i] ELSE Whole(b)[i - Len(a)]
  BY <1>3, ConcatProperties
<1>5. \A i \in 1 .. Len(a) + Len(b) : Whole(a \o b)[i] = (Whole(a) \o Whole(b))[i]
  <2> SUFFICES ASSUME NEW i \in 1 .. Len(a) + Len(b)
               PROVE  Whole(a \o b)[i] = (Whole(a) \o Whole(b))[i]
    OBVIOUS
  <2>1. Whole(a \o b)[i] = [cmd |-> (a \o b)[i], whole |-> TRUE]
    BY <1>1, WholeIs
  <2>2. CASE i <= Len(a)
    <3>1. i \in 1 .. Len(a)
      BY <1>1, <2>2
    <3>2. Whole(a)[i] = [cmd |-> a[i], whole |-> TRUE]
      BY <3>1, WholeIs
    <3>3. (a \o b)[i] = a[i] /\ (Whole(a) \o Whole(b))[i] = Whole(a)[i]
      BY <1>1, <1>4, <2>2
    <3> QED
      BY <2>1, <3>2, <3>3
  <2>3. CASE ~ (i <= Len(a))
    <3>1. i - Len(a) \in 1 .. Len(b)
      BY <1>1, <2>3
    <3>2. Whole(b)[i - Len(a)] = [cmd |-> b[i - Len(a)], whole |-> TRUE]
      BY <3>1, WholeIs
    <3>3. (a \o b)[i] = b[i - Len(a)] /\ (Whole(a) \o Whole(b))[i] = Whole(b)[i - Len(a)]
      BY <1>1, <1>4, <2>3
    <3> QED
      BY <2>1, <3>2, <3>3
  <2> QED
    BY <2>2, <2>3
<1> QED
  BY <1>3, <1>4, <1>5, SeqEqual

\* Nothing written is no record.
LEMMA WholeEmpty ==
  /\ Whole(<<>>) = <<>> /\ <<>> \in Seq(LogRecord) /\ <<>> \in Seq(Command)
  /\ \A f \in Seq(LogRecord) : f \o Whole(<<>>) = f /\ f \o <<>> = f
<1>1. <<>> \in Seq(Command) /\ Len(<<>>) = 0 /\ <<>> \in Seq(LogRecord)
  BY EmptySeq
<1>2. Whole(<<>>) \in Seq(LogRecord) /\ Len(Whole(<<>>)) = 0
  BY <1>1, WholeIs
<1>3. Whole(<<>>) = <<>>
  BY <1>2, EmptySeq
<1> QED
  BY <1>1, <1>3, ConcatEmptySeq

\* A sequence cut in two.
LEMMA CutInTwo ==
  ASSUME NEW s \in Seq(Command), NEW n \in 0 .. Len(s)
  PROVE  /\ SubSeq(s, 1, n) \in Seq(Command)
         /\ SubSeq(s, n + 1, Len(s)) \in Seq(Command)
         /\ SubSeq(s, 1, n) \o SubSeq(s, n + 1, Len(s)) = s
<1>1. Len(s) \in Nat /\ \A i \in 1 .. Len(s) : s[i] \in Command
  BY ElementOfSeq, LenProperties
<1>2. SubSeq(s, 1, n) \in Seq(Command)
  BY <1>1, SubSeqProperties
<1>3. SubSeq(s, n + 1, Len(s)) \in Seq(Command)
  BY <1>1, SubSeqProperties
<1>4. /\ 1 \in 1 .. Len(s) + 1 /\ n \in 1 - 1 .. Len(s)
      /\ Len(s) \in n .. Len(s)
  BY <1>1
<1>5. SubSeq(s, 1, n) \o SubSeq(s, n + 1, Len(s)) = SubSeq(s, 1, Len(s))
  BY <1>1, <1>4, ConcatAdjacentSubSeq, Zenon
<1>6. SubSeq(s, 1, Len(s)) = s
  BY <1>1, SubSeqFull, Zenon
<1> QED
  BY <1>2, <1>3, <1>5, <1>6

\* t begins with s.
Begins(s, t) == Len(s) <= Len(t) /\ \A i \in 1 .. Len(s) : s[i] = t[i]

\* Records that are those of another log, or torn, are replayed as it begins.
LEMMA ReadableBegins ==
  ASSUME NEW r \in Seq(LogRecord), NEW s \in Seq(LogRecord), Len(r) <= Len(s),
         \A i \in 1 .. Len(r) : r[i].whole => r[i] = s[i]
  PROVE  Begins(Readable(r), Readable(s))
<1> DEFINE m == Len(Readable(r))
           n == Len(Readable(s))
<1>1. /\ m \in 0 .. Len(r) /\ n \in 0 .. Len(s)
      /\ Len(r) \in Nat /\ Len(s) \in Nat
      /\ \A i \in 1 .. m : r[i].whole /\ Readable(r)[i] = r[i].cmd
      /\ \A i \in 1 .. n : Readable(s)[i] = s[i].cmd
      /\ n # Len(s) => ~s[n + 1].whole
  BY ReadableIs, LenProperties
<1> HIDE DEF m, n
<1>2. \A i \in 1 .. m : r[i] = s[i] /\ s[i].whole
  BY <1>1
<1>3. m <= n
  BY <1>1, <1>2
<1>4. \A i \in 1 .. m : Readable(r)[i] = Readable(s)[i]
  BY <1>1, <1>2, <1>3
<1> QED
  BY <1>3, <1>4 DEF Begins, m, n

\* The first records of a log.
LEMMA FirstRecords ==
  ASSUME NEW records \in Seq(LogRecord), NEW n \in 0 .. Len(records)
  PROVE  /\ SubSeq(records, 1, n) \in Seq(LogRecord)
         /\ Len(SubSeq(records, 1, n)) = n
         /\ \A i \in 1 .. n : SubSeq(records, 1, n)[i] = records[i]
         /\ Begins(Readable(SubSeq(records, 1, n)), Readable(records))
<1>1. Len(records) \in Nat /\ n \in Nat /\ n <= Len(records)
  BY LenProperties
<1>2. \A i \in 1 .. n : records[i] \in LogRecord
  BY <1>1, ElementOfSeq
<1>3. /\ SubSeq(records, 1, n) \in Seq(LogRecord)
      /\ Len(SubSeq(records, 1, n)) = n
      /\ \A i \in 1 .. n : SubSeq(records, 1, n)[i] = records[i]
  BY <1>1, <1>2, SubSeqProperties
<1> HIDE DEF LogRecord
<1> DEFINE first == SubSeq(records, 1, n)
<1> HIDE DEF first
<1>4. Begins(Readable(first), Readable(records))
  BY <1>1, <1>3, ReadableBegins DEF first
<1> QED
  BY <1>3, <1>4 DEF first
-----------------------------------------------------------------------------
(* Commands in ascending order *)

Rises(cmds) == \A i, j \in DOMAIN cmds : i < j => cmds[i] < cmds[j]
Ascends(records) == \A i, j \in DOMAIN records : i < j => records[i].cmd < records[j].cmd

\* The commands of the whole records among the first r and behind the first o.
Kept(records, r, o) ==
    {records[i].cmd : i \in {k \in DOMAIN records : records[k].whole /\ (k <= r \/ k > o)}}

\* The range of a concatenation.
LEMMA RangeConcat ==
  ASSUME NEW s \in Seq(Command), NEW t \in Seq(Command)
  PROVE  Range(s \o t) = Range(s) \cup Range(t)
<1>1. /\ s \o t \in Seq(Command) /\ Len(s) \in Nat /\ Len(t) \in Nat
      /\ Len(s \o t) = Len(s) + Len(t)
      /\ \A i \in 1 .. Len(s) + Len(t) :
            (s \o t)[i] = IF i <= Len(s) THEN s[i] ELSE t[i - Len(s)]
  BY ConcatProperties, LenProperties
<1>2. /\ DOMAIN s = 1 .. Len(s) /\ DOMAIN t = 1 .. Len(t)
      /\ DOMAIN (s \o t) = 1 .. Len(s) + Len(t)
  BY <1>1, LenProperties
<1>3. ASSUME NEW x \in Range(s \o t) PROVE x \in Range(s) \cup Range(t)
  <2>1. PICK i \in 1 .. Len(s) + Len(t) : x = (s \o t)[i]
    BY <1>2, <1>3, Zenon DEF Range
  <2>2. CASE i <= Len(s)
    <3>1. i \in DOMAIN s /\ x = s[i]
      BY <1>1, <1>2, <2>1, <2>2
    <3> QED
      BY <3>1 DEF Range
  <2>3. CASE ~ (i <= Len(s))
    <3>1. i - Len(s) \in DOMAIN t /\ x = t[i - Len(s)]
      BY <1>1, <1>2, <2>1, <2>3
    <3> QED
      BY <3>1 DEF Range
  <2> QED
    BY <2>2, <2>3
<1>4. ASSUME NEW x \in Range(s) PROVE x \in Range(s \o t)
  <2>1. PICK i \in 1 .. Len(s) : x = s[i]
    BY <1>2, <1>4, Zenon DEF Range
  <2>2. i \in DOMAIN (s \o t) /\ x = (s \o t)[i]
    BY <1>1, <1>2, <2>1
  <2> QED
    BY <2>2 DEF Range
<1>5. ASSUME NEW x \in Range(t) PROVE x \in Range(s \o t)
  <2>1. PICK i \in 1 .. Len(t) : x = t[i]
    BY <1>2, <1>5, Zenon DEF Range
  <2>2. Len(s) + i \in DOMAIN (s \o t) /\ x = (s \o t)[Len(s) + i]
    BY <1>1, <1>2, <2>1
  <2> QED
    BY <2>2 DEF Range
<1> QED
  BY <1>3, <1>4, <1>5

\* Ascending commands behind ascending commands.
LEMMA RisesConcat ==
  ASSUME NEW s \in Seq(Command), NEW t \in Seq(Command), NEW n \in Nat,
         Rises(s), Rises(t), \A x \in Range(s) : x <= n, \A x \in Range(t) : x > n
  PROVE  Rises(s \o t)
<1>1. /\ s \o t \in Seq(Command) /\ Len(s) \in Nat /\ Len(t) \in Nat
      /\ Len(s \o t) = Len(s) + Len(t)
      /\ \A i \in 1 .. Len(s) + Len(t) :
            (s \o t)[i] = IF i <= Len(s) THEN s[i] ELSE t[i - Len(s)]
  BY ConcatProperties, LenProperties
<1>2. /\ DOMAIN s = 1 .. Len(s) /\ DOMAIN t = 1 .. Len(t)
      /\ DOMAIN (s \o t) = 1 .. Len(s) + Len(t)
  BY <1>1, LenProperties
<1>3. /\ \A i \in 1 .. Len(s) : s[i] <= n /\ s[i] \in Nat
      /\ \A i \in 1 .. Len(t) : t[i] > n /\ t[i] \in Nat
  <2>1. /\ \A i \in 1 .. Len(s) : s[i] \in Range(s)
        /\ \A i \in 1 .. Len(t) : t[i] \in Range(t)
    BY <1>2, Zenon DEF Range
  <2>2. /\ \A i \in 1 .. Len(s) : s[i] \in Command
        /\ \A i \in 1 .. Len(t) : t[i] \in Command
    BY ElementOfSeq
  <2> QED
    BY <2>1, <2>2 DEF Command
<1>4. /\ \A i, j \in 1 .. Len(s) : i < j => s[i] < s[j]
      /\ \A i, j \in 1 .. Len(t) : i < j => t[i] < t[j]
  BY <1>2 DEF Rises
<1>5. ASSUME NEW i \in 1 .. Len(s) + Len(t), NEW j \in 1 .. Len(s) + Len(t), i < j
      PROVE  (s \o t)[i] < (s \o t)[j]
  <2>1. CASE j <= Len(s)
    BY <1>1, <1>4, <1>5, <2>1
  <2>2. CASE i <= Len(s) /\ ~ (j <= Len(s))
    <3>1. i \in 1 .. Len(s) /\ j - Len(s) \in 1 .. Len(t)
      BY <1>1, <2>2
    <3>2. s[i] <= n /\ t[j - Len(s)] > n /\ s[i] \in Nat /\ t[j - Len(s)] \in Nat
      BY <1>3, <3>1
    <3>3. (s \o t)[i] = s[i] /\ (s \o t)[j] = t[j - Len(s)]
      BY <1>1, <2>2
    <3> QED
      BY <3>2, <3>3
  <2>3. CASE ~ (i <= Len(s))
    <3>1. /\ i - Len(s) \in 1 .. Len(t) /\ j - Len(s) \in 1 .. Len(t)
          /\ i - Len(s) < j - Len(s) /\ ~ (j <= Len(s))
      BY <1>1, <1>5, <2>3
    <3> QED
      BY <1>1, <1>4, <2>3, <3>1
  <2> QED
    BY <2>1, <2>2, <2>3, <1>1, <1>5
<1> QED
  BY <1>2, <1>5 DEF Rises

\* Two ascending sequences of the same commands are the same.
LEMMA SameRange ==
  ASSUME NEW s \in Seq(Command), NEW t \in Seq(Command), Rises(s), Rises(t),
         Range(s) = Range(t)
  PROVE  s = t
<1>1. /\ Len(s) \in Nat /\ Len(t) \in Nat
      /\ DOMAIN s = 1 .. Len(s) /\ DOMAIN t = 1 .. Len(t)
  BY LenProperties
<1>2. /\ \A i \in 1 .. Len(s) : s[i] \in Nat /\ \E j \in 1 .. Len(t) : t[j] = s[i]
      /\ \A i \in 1 .. Len(t) : t[i] \in Nat /\ \E j \in 1 .. Len(s) : s[j] = t[i]
  <2>1. /\ \A i \in 1 .. Len(s) : s[i] \in Range(s)
        /\ \A i \in 1 .. Len(t) : t[i] \in Range(t)
    BY <1>1, Zenon DEF Range
  <2>2. /\ \A x \in Range(s) : \E j \in 1 .. Len(s) : s[j] = x
        /\ \A x \in Range(t) : \E j \in 1 .. Len(t) : t[j] = x
    BY <1>1, Zenon DEF Range
  <2>3. /\ \A i \in 1 .. Len(s) : s[i] \in Command
        /\ \A i \in 1 .. Len(t) : t[i] \in Command
    BY ElementOfSeq
  <2>4. /\ \A i \in 1 .. Len(s) : \E j \in 1 .. Len(t) : t[j] = s[i]
        /\ \A i \in 1 .. Len(t) : \E j \in 1 .. Len(s) : s[j] = t[i]
    BY <2>1, <2>2, Zenon
  <2> QED
    BY <2>3, <2>4 DEF Command
<1>3. /\ \A i, j \in 1 .. Len(s) : i < j => s[i] < s[j]
      /\ \A i, j \in 1 .. Len(t) : i < j => t[i] < t[j]
  BY <1>1 DEF Rises
<1> DEFINE Unlike == {i \in Nat : 1 <= i /\ i <= Len(s) /\ i <= Len(t) /\ s[i] # t[i]}
<1>4. ASSUME Unlike # {} PROVE FALSE
  <2>1. PICK k \in Unlike : \A m \in Unlike : k <= m
    <3>1. Unlike \in SUBSET Nat
      OBVIOUS
    <3> HIDE DEF Unlike
    <3> QED
      BY <1>4, <3>1, MinIs
  <2>2. /\ k \in 1 .. Len(s) /\ k \in 1 .. Len(t) /\ s[k] # t[k]
        /\ \A i \in 1 .. k - 1 : s[i] = t[i]
    BY <1>1, <2>1
  <2>3. PICK i \in 1 .. Len(t) : t[i] = s[k]
    BY <1>2, <2>2
  <2>4. PICK j \in 1 .. Len(s) : s[j] = t[k]
    BY <1>2, <2>2
  <2>5. s[k] \in Nat /\ t[k] \in Nat
    BY <1>2, <2>2
  <2>6. t[k] < s[k]
    <3>1. i # k
      BY <2>2, <2>3
    <3>2. ~ (i < k)
      <4> SUFFICES ASSUME i < k PROVE FALSE
        OBVIOUS
      <4>1. i \in 1 .. k - 1 /\ i \in 1 .. Len(s)
        BY <1>1, <2>2
      <4>2. s[i] = s[k] /\ s[i] < s[k]
        BY <1>3, <2>2, <2>3, <4>1
      <4> QED
        BY <2>5, <4>2
    <3>3. k < i
      BY <2>2, <3>1, <3>2
    <3> QED
      BY <1>3, <2>2, <2>3, <3>3
  <2>7. s[k] < t[k]
    <3>1. j # k
      BY <2>2, <2>4
    <3>2. ~ (j < k)
      <4> SUFFICES ASSUME j < k PROVE FALSE
        OBVIOUS
      <4>1. j \in 1 .. k - 1 /\ j \in 1 .. Len(t)
        BY <1>1, <2>2
      <4>2. t[j] = t[k] /\ t[j] < t[k]
        BY <1>3, <2>2, <2>4, <4>1
      <4> QED
        BY <2>5, <4>2
    <3>3. k < j
      BY <2>2, <3>1, <3>2
    <3> QED
      BY <1>3, <2>2, <2>4, <3>3
  <2> QED
    BY <2>5, <2>6, <2>7
<1>5. \A i \in Nat : 1 <= i /\ i <= Len(s) /\ i <= Len(t) => s[i] = t[i]
  BY <1>4
<1> HIDE DEF Unlike
<1>6. ~ (Len(s) < Len(t))
  <2> SUFFICES ASSUME Len(s) < Len(t) PROVE FALSE
    OBVIOUS
  <2>1. Len(s) + 1 \in 1 .. Len(t)
    BY <1>1
  <2>2. PICK j \in 1 .. Len(s) : s[j] = t[Len(s) + 1]
    BY <1>2, <2>1
  <2>3. j \in 1 .. Len(t) /\ j < Len(s) + 1 /\ s[j] = t[j]
    BY <1>1, <1>5
  <2>4. t[j] < t[Len(s) + 1] /\ t[j] \in Nat
    BY <1>2, <1>3, <2>1, <2>3
  <2> QED
    BY <2>2, <2>3, <2>4
<1>7. ~ (Len(t) < Len(s))
  <2> SUFFICES ASSUME Len(t) < Len(s) PROVE FALSE
    OBVIOUS
  <2>1. Len(t) + 1 \in 1 .. Len(s)
    BY <1>1
  <2>2. PICK j \in 1 .. Len(t) : t[j] = s[Len(t) + 1]
    BY <1>2, <2>1
  <2>3. j \in 1 .. Len(s) /\ j < Len(t) + 1 /\ s[j] = t[j]
    BY <1>1, <1>5
  <2>4. s[j] < s[Len(t) + 1] /\ s[j] \in Nat
    BY <1>2, <1>3, <2>1, <2>3
  <2> QED
    BY <2>2, <2>3, <2>4
<1>8. Len(s) = Len(t)
  <2>1. Len(s) \in Nat /\ Len(t) \in Nat
    BY <1>1
  <2> QED
    BY <1>6, <1>7, <2>1
<1>9. ASSUME NEW i \in 1 .. Len(s) PROVE s[i] = t[i]
  BY <1>1, <1>5, <1>8
<1> QED
  BY <1>8, <1>9, SeqEqual

\* A batch behind all there was.
LEMMA Appended ==
  ASSUME NEW w \in Seq(LogRecord), NEW b \in Seq(Command), NEW n \in Nat,
         NEW r \in Nat, NEW o \in 0 .. Len(w),
         Ascends(w), \A i \in DOMAIN w : w[i].cmd <= n, Rises(b), \A x \in Range(b) : x > n
  PROVE  /\ Ascends(w \o Whole(b))
         /\ Kept(w \o Whole(b), r, o) = Kept(w, r, o) \cup Range(b)
<1> DEFINE c == Whole(b)
           v == w \o c
<1>0. c \in Seq(LogRecord) /\ Len(c) = Len(b)
  BY WholeIs
<1>a. \A i \in 1 .. Len(b) : c[i].cmd = b[i] /\ c[i].whole
  <2> SUFFICES ASSUME NEW i \in 1 .. Len(b) PROVE c[i].cmd = b[i] /\ c[i].whole
    OBVIOUS
  <2>1. c[i] = [cmd |-> b[i], whole |-> TRUE]
    BY WholeIs
  <2> QED
    BY <2>1
<1> HIDE DEF c
<1>1. /\ Len(w) \in Nat /\ Len(b) \in Nat
      /\ DOMAIN w = 1 .. Len(w) /\ DOMAIN b = 1 .. Len(b)
      /\ \A i \in 1 .. Len(b) : c[i].cmd = b[i] /\ c[i].whole
  BY <1>a, LenProperties
<1>2. /\ v \in Seq(LogRecord) /\ Len(v) = Len(w) + Len(b)
      /\ \A i \in 1 .. Len(w) + Len(b) :
            v[i] = IF i <= Len(w) THEN w[i] ELSE c[i - Len(w)]
  BY <1>0, ConcatProperties
<1>3. DOMAIN v = 1 .. Len(w) + Len(b)
  BY <1>2, LenProperties
<1> HIDE DEF v
<1>4. /\ \A i \in 1 .. Len(w) : v[i] = w[i]
      /\ \A i \in Len(w) + 1 .. Len(w) + Len(b) :
            v[i].cmd = b[i - Len(w)] /\ v[i].whole
  <2>1. \A i \in Len(w) + 1 .. Len(w) + Len(b) :
           i - Len(w) \in 1 .. Len(b) /\ v[i] = c[i - Len(w)]
    BY <1>1, <1>2
  <2>2. \A i \in 1 .. Len(w) : v[i] = w[i]
    BY <1>1, <1>2
  <2>3. ASSUME NEW i \in Len(w) + 1 .. Len(w) + Len(b)
        PROVE  v[i].cmd = b[i - Len(w)] /\ v[i].whole
    BY <1>1, <2>1
  <2> QED
    BY <2>2, <2>3
<1>5. /\ \A i \in 1 .. Len(w) : w[i].cmd \in Nat /\ w[i].cmd <= n
      /\ \A i \in 1 .. Len(b) : b[i] \in Nat /\ b[i] > n
  <2>1. \A i \in 1 .. Len(w) : w[i] \in LogRecord
    BY ElementOfSeq
  <2>2. \A i \in 1 .. Len(b) : b[i] \in Command
    BY ElementOfSeq
  <2>3. \A i \in 1 .. Len(b) : b[i] \in Range(b)
    BY <1>1, Zenon DEF Range
  <2> QED
    BY <1>1, <2>1, <2>2, <2>3 DEF LogRecord, Command
<1>6. /\ \A i, j \in 1 .. Len(w) : i < j => w[i].cmd < w[j].cmd
      /\ \A i, j \in 1 .. Len(b) : i < j => b[i] < b[j]
  BY <1>1 DEF Ascends, Rises
<1>7. ASSUME NEW i \in 1 .. Len(w) + Len(b), NEW j \in 1 .. Len(w) + Len(b), i < j
      PROVE  v[i].cmd < v[j].cmd
  <2>1. CASE j <= Len(w)
    BY <1>1, <1>4, <1>6, <1>7, <2>1
  <2>2. CASE i <= Len(w) /\ ~ (j <= Len(w))
    <3>1. i \in 1 .. Len(w) /\ j - Len(w) \in 1 .. Len(b)
      BY <1>1, <2>2
    <3>2. v[i].cmd = w[i].cmd /\ v[j].cmd = b[j - Len(w)]
      BY <1>1, <1>4, <2>2
    <3> QED
      BY <1>5, <3>1, <3>2
  <2>3. CASE ~ (i <= Len(w))
    <3>1. /\ i - Len(w) \in 1 .. Len(b) /\ j - Len(w) \in 1 .. Len(b)
          /\ i - Len(w) < j - Len(w)
      BY <1>1, <1>7, <2>3
    <3>2. v[i].cmd = b[i - Len(w)] /\ v[j].cmd = b[j - Len(w)]
      BY <1>1, <1>4, <1>7, <2>3
    <3> QED
      BY <1>6, <3>1, <3>2
  <2> QED
    BY <1>1, <1>7, <2>1, <2>2, <2>3
<1>8. Ascends(v)
  BY <1>3, <1>7 DEF Ascends
<1>9. ASSUME NEW x \in Kept(v, r, o) PROVE x \in Kept(w, r, o) \cup Range(b)
  <2>1. PICK i \in 1 .. Len(w) + Len(b) : x = v[i].cmd /\ v[i].whole /\ (i <= r \/ i > o)
    BY <1>3, <1>9, Zenon DEF Kept
  <2>2. CASE i <= Len(w)
    <3>1. i \in DOMAIN w /\ x = w[i].cmd /\ w[i].whole
      BY <1>1, <1>4, <2>1, <2>2
    <3> QED
      BY <2>1, <3>1, Zenon DEF Kept
  <2>3. CASE ~ (i <= Len(w))
    <3>0. i \in Len(w) + 1 .. Len(w) + Len(b)
      BY <1>1, <2>3
    <3>2. i - Len(w) \in DOMAIN b
      BY <1>1, <3>0
    <3>1. i - Len(w) \in DOMAIN b /\ x = b[i - Len(w)]
      BY <1>4, <2>1, <3>0, <3>2
    <3> QED
      BY <3>1 DEF Range
  <2> QED
    BY <2>2, <2>3
<1>10. ASSUME NEW x \in Kept(w, r, o) PROVE x \in Kept(v, r, o)
  <2>1. PICK i \in 1 .. Len(w) : x = w[i].cmd /\ w[i].whole /\ (i <= r \/ i > o)
    BY <1>1, <1>10, Zenon DEF Kept
  <2>2. i \in DOMAIN v /\ v[i] = w[i]
    BY <1>1, <1>3, <1>4
  <2> QED
    BY <2>1, <2>2, Zenon DEF Kept
<1>11. ASSUME NEW x \in Range(b) PROVE x \in Kept(v, r, o)
  <2>1. PICK i \in 1 .. Len(b) : x = b[i]
    BY <1>1, <1>11, Zenon DEF Range
  <2>2. Len(w) + i \in Len(w) + 1 .. Len(w) + Len(b) /\ (Len(w) + i) - Len(w) = i
    BY <1>1
  <2>3. /\ Len(w) + i \in DOMAIN v /\ Len(w) + i > o
        /\ v[Len(w) + i].cmd = b[i] /\ v[Len(w) + i].whole
    <3>1. Len(w) + i \in DOMAIN v /\ Len(w) + i > o
      BY <1>1, <1>3
    <3>2. v[Len(w) + i].cmd = b[(Len(w) + i) - Len(w)] /\ v[Len(w) + i].whole
      BY <1>4, <2>2
    <3> QED
      BY <2>2, <3>1, <3>2
  <2> QED
    BY <2>1, <2>3, Zenon DEF Kept
<1> QED
  BY <1>8, <1>9, <1>10, <1>11 DEF v, c

\* Three parts of a log.
LEMMA ThreeParts ==
  ASSUME NEW a \in Seq(LogRecord), NEW b \in Seq(LogRecord), NEW c \in Seq(LogRecord)
  PROVE  /\ a \o (b \o c) \in Seq(LogRecord)
         /\ Len(a \o (b \o c)) = Len(a) + Len(b) + Len(c)
         /\ DOMAIN (a \o (b \o c)) = 1 .. Len(a) + Len(b) + Len(c)
         /\ Len(a) \in Nat /\ Len(b) \in Nat /\ Len(c) \in Nat
         /\ \A i \in 1 .. Len(a) : (a \o (b \o c))[i] = a[i]
         /\ \A i \in 1 .. Len(b) : (a \o (b \o c))[Len(a) + i] = b[i]
         /\ \A i \in 1 .. Len(c) : (a \o (b \o c))[Len(a) + Len(b) + i] = c[i]
<1> DEFINE t == b \o c
           u == a \o t
<1>0. t \in Seq(LogRecord)
  BY ConcatProperties
<1>1. /\ Len(t) = Len(b) + Len(c)
      /\ \A i \in 1 .. Len(b) + Len(c) : t[i] = IF i <= Len(b) THEN b[i] ELSE c[i - Len(b)]
  BY ConcatProperties
<1> HIDE DEF t
<1>2. /\ u \in Seq(LogRecord) /\ Len(u) = Len(a) + Len(t)
      /\ \A i \in 1 .. Len(a) + Len(t) : u[i] = IF i <= Len(a) THEN a[i] ELSE t[i - Len(a)]
  BY <1>0, ConcatProperties
<1>3. DOMAIN u = 1 .. Len(u)
  BY <1>2, LenProperties
<1> HIDE DEF u
<1>4. Len(a) \in Nat /\ Len(b) \in Nat /\ Len(c) \in Nat
  BY LenProperties
<1>5. Len(u) = Len(a) + Len(b) + Len(c)
  BY <1>1, <1>2, <1>4
<1>6. ASSUME NEW i \in 1 .. Len(a) PROVE u[i] = a[i]
  BY <1>1, <1>2, <1>4
<1>7. ASSUME NEW i \in 1 .. Len(b) PROVE u[Len(a) + i] = b[i]
  <2>1. /\ Len(a) + i \in 1 .. Len(a) + Len(t) /\ ~ (Len(a) + i <= Len(a))
        /\ (Len(a) + i) - Len(a) = i /\ i \in 1 .. Len(b) + Len(c) /\ i <= Len(b)
    BY <1>1, <1>4
  <2> QED
    BY <1>1, <1>2, <2>1
<1>8. ASSUME NEW i \in 1 .. Len(c) PROVE u[Len(a) + Len(b) + i] = c[i]
  <2> DEFINE j == Len(b) + i
  <2>1. /\ Len(a) + j \in 1 .. Len(a) + Len(t) /\ ~ (Len(a) + j <= Len(a))
        /\ (Len(a) + j) - Len(a) = j /\ j \in 1 .. Len(b) + Len(c) /\ ~ (j <= Len(b))
        /\ j - Len(b) = i /\ Len(a) + Len(b) + i = Len(a) + j
    BY <1>1, <1>4
  <2> HIDE DEF j
  <2>2. u[Len(a) + j] = t[j] /\ t[j] = c[j - Len(b)]
    BY <1>1, <1>2, <2>1
  <2> QED
    BY <2>1, <2>2
<1> QED
  BY <1>2, <1>3, <1>4, <1>5, <1>6, <1>7, <1>8 DEF u, t

\* A buffer cut short.
LEMMA CutIs ==
  ASSUME NEW X \in Seq(Command), NEW n \in Nat, NEW m \in 0 .. Len(X)
  PROVE  /\ Cut(X, m, n) \in Seq(LogRecord) /\ Len(Cut(X, m, n)) = m
         /\ \A i \in 1 .. m : /\ Cut(X, m, n)[i].cmd = X[i]
                              /\ Cut(X, m, n)[i].whole => i <= n
                              /\ i <= n => Cut(X, m, n)[i].whole
<1>1. m \in Nat /\ m <= Len(X) /\ Len(X) \in Nat
  BY LenProperties
<1>2. ASSUME NEW i \in 1 .. m PROVE [cmd |-> X[i], whole |-> i <= n] \in LogRecord
  <2>1. X[i] \in Command
    BY <1>1, ElementOfSeq
  <2>2. (i <= n) \in BOOLEAN
    BY <1>1
  <2> QED
    BY <2>1, <2>2 DEF LogRecord
<1>3. Cut(X, m, n) = [i \in 1 .. m |-> [cmd |-> X[i], whole |-> i <= n]]
  BY DEF Cut
<1>4. ASSUME NEW i \in 1 .. m
      PROVE  /\ Cut(X, m, n)[i].cmd = X[i]
             /\ Cut(X, m, n)[i].whole => i <= n
             /\ i <= n => Cut(X, m, n)[i].whole
  <2>1. Cut(X, m, n)[i] = [cmd |-> X[i], whole |-> i <= n]
    BY <1>3
  <2>2. CASE i <= n
    <3>1. Cut(X, m, n)[i] = [cmd |-> X[i], whole |-> TRUE]
      BY <2>1, <2>2, Zenon
    <3> QED
      BY <2>2, <3>1
  <2>3. CASE ~ (i <= n)
    <3>0. (i <= n) = FALSE
      BY <2>3
    <3>1. Cut(X, m, n)[i] = [cmd |-> X[i], whole |-> FALSE]
      BY <2>1, <3>0, Zenon
    <3> QED
      BY <2>3, <3>1
  <2> QED
    BY <2>2, <2>3
<1>5. Cut(X, m, n) \in Seq(LogRecord) /\ Len(Cut(X, m, n)) = m
  BY <1>1, <1>2, <1>3
<1> QED
  BY <1>4, <1>5

\* A buffer X in the middle of the log w, of which v has n records whole and at
\* most one more in part, but not those of G.
Drops(D, X, rest, n, m, w, v, G) ==
    /\ w = D \o (Whole(X) \o Whole(rest))
    /\ v = D \o (Cut(X, m, n) \o Whole(rest))
    /\ G = {X[i] : i \in n + 1 .. Len(X)}

\* They are what is no longer kept.
LEMMA Dropped ==
  ASSUME NEW D \in Seq(LogRecord), NEW X \in Seq(Command), NEW rest \in Seq(Command),
         NEW n \in 0 .. Len(X), NEW m \in 0 .. Len(X), n <= m, m <= n + 1,
         NEW r \in Nat, NEW o \in 0 .. Len(D),
         NEW w, NEW v, NEW G, Drops(D, X, rest, n, m, w, v, G), Ascends(w)
  PROVE  /\ v \in Seq(LogRecord)
         /\ Ascends(v)
         /\ Kept(v, r, o) = Kept(w, r, o) \ G
         /\ G \subseteq Kept(w, r, o)
         /\ \A i \in DOMAIN v : \E j \in DOMAIN w : v[i].cmd = w[j].cmd
<1> DEFINE d == Len(D)
           l == Len(X)
           k == Len(rest)
           x == Whole(X)
           y == Cut(X, m, n)
           z == Whole(rest)
<1>1. /\ x \in Seq(LogRecord) /\ Len(x) = l
      /\ y \in Seq(LogRecord) /\ Len(y) = m
      /\ z \in Seq(LogRecord) /\ Len(z) = k
  <2>1. n \in Nat
    OBVIOUS
  <2>2. y \in Seq(LogRecord) /\ Len(y) = m
    BY <2>1, CutIs
  <2> QED
    BY <2>2, WholeIs
<1>2. /\ \A i \in 1 .. l : x[i].cmd = X[i] /\ x[i].whole
      /\ \A i \in 1 .. m : y[i].cmd = X[i] /\ (y[i].whole => i <= n)
                           /\ (i <= n => y[i].whole)
      /\ \A i \in 1 .. k : z[i].whole
  <2>1. ASSUME NEW i \in 1 .. l PROVE x[i].cmd = X[i] /\ x[i].whole
    <3>1. x[i] = [cmd |-> X[i], whole |-> TRUE]
      BY WholeIs
    <3> QED
      BY <3>1
  <2>2. ASSUME NEW i \in 1 .. m
        PROVE  y[i].cmd = X[i] /\ (y[i].whole => i <= n) /\ (i <= n => y[i].whole)
    <3>1. n \in Nat
      OBVIOUS
    <3> QED
      BY <3>1, CutIs
  <2>3. ASSUME NEW i \in 1 .. k PROVE z[i].whole
    <3>1. z[i] = [cmd |-> rest[i], whole |-> TRUE]
      BY WholeIs
    <3> QED
      BY <3>1
  <2> QED
    BY <2>1, <2>2, <2>3
<1>3. d \in Nat /\ l \in Nat /\ k \in Nat /\ m \in Nat /\ n \in Nat /\ n <= m /\ m <= l
  BY LenProperties
<1>4. /\ w = D \o (x \o z) /\ v = D \o (y \o z)
      /\ \A g \in G : \E i \in n + 1 .. l : g = X[i]
  BY Zenon DEF Drops
<1>5. \A i \in n + 1 .. l : X[i] \in G
  BY Zenon DEF Drops
<1> HIDE DEF l, k, x, y, z
<1>6. /\ DOMAIN w = 1 .. d + l + k
      /\ \A i \in 1 .. d : w[i] = D[i]
      /\ \A i \in 1 .. l : w[d + i] = x[i]
      /\ \A i \in 1 .. k : w[d + l + i] = z[i]
  <2>1. /\ D \o (x \o z) \in Seq(LogRecord)
        /\ DOMAIN (D \o (x \o z)) = 1 .. Len(D) + Len(x) + Len(z)
        /\ \A i \in 1 .. Len(D) : (D \o (x \o z))[i] = D[i]
        /\ \A i \in 1 .. Len(x) : (D \o (x \o z))[Len(D) + i] = x[i]
        /\ \A i \in 1 .. Len(z) : (D \o (x \o z))[Len(D) + Len(x) + i] = z[i]
    BY <1>1, ThreeParts
  <2> QED
    BY <1>1, <1>4, <2>1
<1>7. /\ v \in Seq(LogRecord) /\ DOMAIN v = 1 .. d + m + k
      /\ \A i \in 1 .. d : v[i] = D[i]
      /\ \A i \in 1 .. m : v[d + i] = y[i]
      /\ \A i \in 1 .. k : v[d + m + i] = z[i]
  <2>1. /\ D \o (y \o z) \in Seq(LogRecord)
        /\ DOMAIN (D \o (y \o z)) = 1 .. Len(D) + Len(y) + Len(z)
        /\ \A i \in 1 .. Len(D) : (D \o (y \o z))[i] = D[i]
        /\ \A i \in 1 .. Len(y) : (D \o (y \o z))[Len(D) + i] = y[i]
        /\ \A i \in 1 .. Len(z) : (D \o (y \o z))[Len(D) + Len(y) + i] = z[i]
    BY <1>1, ThreeParts
  <2> QED
    BY <1>1, <1>4, <2>1
<1> HIDE DEF d
<1>8. o <= d /\ o \in Nat
  BY DEF d
<1>9. \A i \in DOMAIN v : \/ i \in 1 .. d
                          \/ \E j \in 1 .. m : i = d + j
                          \/ \E j \in 1 .. k : i = d + m + j
  <2> SUFFICES ASSUME NEW i \in 1 .. d + m + k
               PROVE  \/ i \in 1 .. d
                      \/ \E j \in 1 .. m : i = d + j
                      \/ \E j \in 1 .. k : i = d + m + j
    BY <1>7
  <2>1. CASE i <= d
    BY <1>3, <2>1
  <2>2. CASE i > d /\ i <= d + m
    <3>1. i - d \in 1 .. m /\ i = d + (i - d)
      BY <1>3, <2>2
    <3> QED
      BY <3>1, Zenon
  <2>3. CASE i > d + m
    <3>1. i - (d + m) \in 1 .. k /\ i = d + m + (i - (d + m))
      BY <1>3, <2>3
    <3> QED
      BY <3>1, Zenon
  <2> QED
    BY <1>3, <2>1, <2>2, <2>3
<1>10. \A i \in DOMAIN w : \/ i \in 1 .. d
                           \/ \E j \in 1 .. l : i = d + j
                           \/ \E j \in 1 .. k : i = d + l + j
  <2> SUFFICES ASSUME NEW i \in 1 .. d + l + k
               PROVE  \/ i \in 1 .. d
                      \/ \E j \in 1 .. l : i = d + j
                      \/ \E j \in 1 .. k : i = d + l + j
    BY <1>6
  <2>1. CASE i <= d
    BY <1>3, <2>1
  <2>2. CASE i > d /\ i <= d + l
    <3>1. i - d \in 1 .. l /\ i = d + (i - d)
      BY <1>3, <2>2
    <3> QED
      BY <3>1, Zenon
  <2>3. CASE i > d + l
    <3>1. i - (d + l) \in 1 .. k /\ i = d + l + (i - (d + l))
      BY <1>3, <2>3
    <3> QED
      BY <3>1, Zenon
  <2> QED
    BY <1>3, <2>1, <2>2, <2>3
<1> DEFINE at(i) == IF i <= d + m THEN i ELSE i + (l - m)
<1>11. ASSUME NEW i \in DOMAIN v
       PROVE  at(i) \in DOMAIN w /\ v[i].cmd = w[at(i)].cmd
  <2>1. CASE i \in 1 .. d
    <3>1. at(i) = i /\ at(i) \in DOMAIN w
      BY <1>3, <1>6, <2>1
    <3> QED
      BY <1>6, <1>7, <2>1, <3>1
  <2>2. CASE \E j \in 1 .. m : i = d + j
    <3>1. PICK j \in 1 .. m : i = d + j
      BY <2>2
    <3>4. d + j <= d + m /\ j \in 1 .. l /\ d + j \in 1 .. d + l + k
      BY <1>3
    <3>2. at(i) = d + j /\ j \in 1 .. l /\ at(i) \in DOMAIN w
      BY <1>6, <3>1, <3>4
    <3>3. v[i] = y[j] /\ w[at(i)] = x[j]
      BY <1>6, <1>7, <3>1, <3>2
    <3> QED
      BY <1>2, <3>2, <3>3
  <2>3. CASE \E j \in 1 .. k : i = d + m + j
    <3>1. PICK j \in 1 .. k : i = d + m + j
      BY <2>3
    <3>2. at(i) = d + l + j /\ at(i) \in DOMAIN w
      BY <1>3, <1>6, <3>1
    <3> QED
      BY <1>6, <1>7, <3>1, <3>2
  <2> QED
    BY <1>9, <2>1, <2>2, <2>3
<1>12. Ascends(v)
  <2> SUFFICES ASSUME NEW i \in DOMAIN v, NEW j \in DOMAIN v, i < j
               PROVE  v[i].cmd < v[j].cmd
    BY DEF Ascends
  <2>1. at(i) < at(j)
    BY <1>3, <1>7
  <2>2. /\ at(i) \in DOMAIN w /\ v[i].cmd = w[at(i)].cmd
        /\ at(j) \in DOMAIN w /\ v[j].cmd = w[at(j)].cmd
    BY <1>11
  <2> HIDE DEF at
  <2> QED
    BY <2>1, <2>2 DEF Ascends
<1>13. \A i \in DOMAIN v : \E j \in DOMAIN w : v[i].cmd = w[j].cmd
  BY <1>11
<1> HIDE DEF at
<1>14. G \subseteq Kept(w, r, o)
  <2> SUFFICES ASSUME NEW g \in G PROVE g \in Kept(w, r, o)
    OBVIOUS
  <2>1. PICK i \in n + 1 .. l : g = X[i]
    BY <1>4
  <2>2. i \in 1 .. l /\ d + i \in DOMAIN w /\ d + i > o
    BY <1>3, <1>6, <1>8
  <2>3. w[d + i].cmd = g /\ w[d + i].whole
    BY <1>2, <1>6, <2>1, <2>2
  <2> QED
    BY <2>2, <2>3, Zenon DEF Kept
<1>15. ASSUME NEW i \in DOMAIN w, i < d + n + 1 \/ i > d + l
       PROVE  w[i].cmd \notin G
  <2> SUFFICES ASSUME w[i].cmd \in G PROVE FALSE
    OBVIOUS
  <2>1. PICK j \in n + 1 .. l : w[i].cmd = X[j]
    BY <1>4
  <2>2. j \in 1 .. l /\ d + j \in DOMAIN w /\ (i < d + j \/ d + j < i)
    BY <1>3, <1>6, <1>15
  <2>3. w[d + j].cmd = w[i].cmd
    BY <1>2, <1>6, <2>1, <2>2
  <2>4. w[i].cmd < w[d + j].cmd \/ w[d + j].cmd < w[i].cmd
    BY <2>2 DEF Ascends
  <2>5. w[i].cmd \in Nat
    <3>1. w \in Seq(LogRecord) /\ DOMAIN w = 1 .. Len(w)
      BY <1>1, <1>4, ThreeParts, LenProperties
    <3>2. w[i] \in LogRecord
      BY <3>1, ElementOfSeq
    <3> QED
      BY <3>2 DEF LogRecord, Command
  <2>6. w[i].cmd < w[i].cmd
    BY <2>3, <2>4, Zenon
  <2> QED
    BY <2>5, <2>6
<1>16. ASSUME NEW c \in Kept(v, r, o) PROVE c \in Kept(w, r, o) \ G
  <2>1. PICK i \in DOMAIN v : c = v[i].cmd /\ v[i].whole /\ (i <= r \/ i > o)
    BY <1>16, Zenon DEF Kept
  <2>2. ASSUME NEW e \in DOMAIN w, e < d + n + 1 \/ e > d + l, c = w[e].cmd, w[e].whole,
               e <= r \/ e > o
        PROVE  c \in Kept(w, r, o) \ G
    <3>1. c \in Kept(w, r, o)
      BY <2>2, Zenon DEF Kept
    <3> QED
      BY <1>15, <2>2, <3>1
  <2>3. CASE i \in 1 .. d
    <3>2. i \in 1 .. d + l + k /\ i < d + n + 1
      BY <1>3, <2>3
    <3>1. i \in DOMAIN w /\ i < d + n + 1 /\ w[i] = v[i]
      BY <1>6, <1>7, <2>3, <3>2
    <3> QED
      BY <2>1, <2>2, <3>1
  <2>4. CASE \E j \in 1 .. m : i = d + j
    <3>1. PICK j \in 1 .. m : i = d + j
      BY <2>4
    <3>2. v[i] = y[j] /\ c = X[j] /\ j <= n
      BY <1>2, <1>7, <2>1, <3>1
    <3>5. j \in Nat /\ j >= 1 /\ j <= n
      BY <3>2
    <3>6. j \in 1 .. l /\ d + j \in 1 .. d + l + k /\ d + j < d + n + 1 /\ d + j > o
      BY <1>3, <1>8, <3>5
    <3>3. j \in 1 .. l /\ d + j \in DOMAIN w /\ d + j < d + n + 1 /\ d + j > o
      BY <1>6, <3>6
    <3>4. w[d + j].cmd = c /\ w[d + j].whole
      BY <1>2, <1>6, <3>2, <3>3
    <3> QED
      BY <2>2, <3>3, <3>4
  <2>5. CASE \E j \in 1 .. k : i = d + m + j
    <3>1. PICK j \in 1 .. k : i = d + m + j
      BY <2>5
    <3>2. d + l + j \in DOMAIN w /\ d + l + j > d + l /\ d + l + j > o
      BY <1>3, <1>6, <1>8
    <3>3. w[d + l + j] = v[i]
      BY <1>6, <1>7, <3>1
    <3> QED
      BY <2>1, <2>2, <3>2, <3>3
  <2> QED
    BY <1>9, <2>3, <2>4, <2>5
<1>17. ASSUME NEW c \in Kept(w, r, o), c \notin G PROVE c \in Kept(v, r, o)
  <2>1. PICK i \in DOMAIN w : c = w[i].cmd /\ w[i].whole /\ (i <= r \/ i > o)
    BY <1>17, Zenon DEF Kept
  <2>2. CASE i \in 1 .. d
    <3>2. i \in 1 .. d + m + k
      BY <1>3, <2>2
    <3>1. i \in DOMAIN v /\ w[i] = v[i]
      BY <1>6, <1>7, <2>2, <3>2
    <3> QED
      BY <2>1, <3>1, Zenon DEF Kept
  <2>3. CASE \E j \in 1 .. l : i = d + j
    <3>1. PICK j \in 1 .. l : i = d + j
      BY <2>3
    <3>2. c = X[j]
      BY <1>2, <1>6, <2>1, <3>1
    <3>3. j <= n
      <4> SUFFICES ASSUME ~ (j <= n) PROVE FALSE
        OBVIOUS
      <4>1. j \in n + 1 .. l
        BY <1>3
      <4> QED
        BY <1>5, <1>17, <3>2, <4>1
    <3>4. j \in 1 .. m /\ d + j \in DOMAIN v /\ d + j > o
      BY <1>3, <1>7, <1>8, <3>3
    <3>5. v[d + j].cmd = c /\ v[d + j].whole
      BY <1>2, <1>7, <3>2, <3>3, <3>4
    <3> QED
      BY <3>4, <3>5, Zenon DEF Kept
  <2>4. CASE \E j \in 1 .. k : i = d + l + j
    <3>1. PICK j \in 1 .. k : i = d + l + j
      BY <2>4
    <3>2. d + m + j \in DOMAIN v /\ d + m + j > o
      BY <1>3, <1>7, <1>8
    <3>3. v[d + m + j] = w[i]
      BY <1>6, <1>7, <3>1
    <3> QED
      BY <2>1, <3>2, <3>3, Zenon DEF Kept
  <2> QED
    BY <1>10, <2>2, <2>3, <2>4
<1> QED
  BY <1>7, <1>12, <1>13, <1>14, <1>16, <1>17

\* A record of f is that of w, or a part of it; w may be the longer.
PartOf(f, w) ==
    /\ Len(f) <= Len(w)
    /\ \A i \in 1 .. Len(f) : f[i].cmd = w[i].cmd /\ (f[i].whole => w[i].whole)

\* What is replayed of a part of an ascending log rises, and is what is kept of it.
LEMMA PartRises ==
  ASSUME NEW f \in Seq(LogRecord), NEW w \in Seq(LogRecord), PartOf(f, w), Ascends(w)
  PROVE  /\ Ascends(f)
         /\ Rises(Readable(f))
         /\ Kept(f, Len(Readable(f)), Len(f)) = Range(Readable(f))
<1> DEFINE p == Readable(f)
<1>1. /\ p \in Seq(Command) /\ Len(p) \in 0 .. Len(f)
      /\ \A i \in 1 .. Len(p) : f[i].whole /\ p[i] = f[i].cmd
  BY ReadableIs, ReadableCommands
<1> HIDE DEF p
<1>2. /\ DOMAIN p = 1 .. Len(p) /\ DOMAIN f = 1 .. Len(f) /\ DOMAIN w = 1 .. Len(w)
      /\ Len(f) \in Nat /\ Len(w) \in Nat /\ Len(p) \in Nat /\ Len(p) <= Len(f)
  BY <1>1, LenProperties
<1>3. \A i \in 1 .. Len(f) : i \in DOMAIN w /\ f[i].cmd = w[i].cmd
  BY <1>2 DEF PartOf
<1>4. Ascends(f)
  BY <1>2, <1>3 DEF Ascends
<1>5. Rises(p)
  <2> SUFFICES ASSUME NEW i \in 1 .. Len(p), NEW j \in 1 .. Len(p), i < j
               PROVE  p[i] < p[j]
    BY <1>2 DEF Rises
  <2>1. i \in DOMAIN f /\ j \in DOMAIN f
    BY <1>2
  <2>2. f[i].cmd < f[j].cmd
    BY <1>4, <2>1 DEF Ascends
  <2> QED
    BY <1>1, <2>2
<1>6. ASSUME NEW c \in Range(p) PROVE c \in Kept(f, Len(p), Len(f))
  <2>1. PICK i \in 1 .. Len(p) : c = p[i]
    BY <1>2, <1>6, Zenon DEF Range
  <2>2. i \in DOMAIN f /\ i <= Len(p) /\ f[i].whole /\ c = f[i].cmd
    BY <1>1, <1>2, <2>1
  <2> QED
    BY <2>2, Zenon DEF Kept
<1>7. ASSUME NEW c \in Kept(f, Len(p), Len(f)) PROVE c \in Range(p)
  <2>1. PICK i \in DOMAIN f : c = f[i].cmd /\ (i <= Len(p) \/ i > Len(f))
    BY <1>7, Zenon DEF Kept
  <2>2. i \in DOMAIN p /\ i \in 1 .. Len(p)
    BY <1>2, <2>1
  <2>3. c = p[i]
    BY <1>1, <2>1, <2>2
  <2> QED
    BY <2>2, <2>3 DEF Range
<1> QED
  BY <1>4, <1>5, <1>6, <1>7 DEF p

\* What is replayed of it is a first part of what is kept of the log.
LEMMA ReadableFirst ==
  ASSUME NEW f \in Seq(LogRecord), NEW w \in Seq(LogRecord), PartOf(f, w), Ascends(w),
         NEW r \in Nat, NEW o \in Nat,
         r < o => ~(r + 1 \in 1 .. Len(w) /\ w[r + 1].whole)
  PROVE  Log!FirstPart(Range(Readable(f)), Kept(w, r, o))
<1> DEFINE p == Readable(f)
<1>1. /\ p \in Seq(Command) /\ Len(p) \in 0 .. Len(f)
      /\ \A i \in 1 .. Len(p) : f[i].whole /\ p[i] = f[i].cmd
      /\ Len(p) # Len(f) => ~f[Len(p) + 1].whole
  BY ReadableIs, ReadableCommands
<1> HIDE DEF p
<1>2. /\ DOMAIN p = 1 .. Len(p) /\ DOMAIN w = 1 .. Len(w)
      /\ Len(f) \in Nat /\ Len(w) \in Nat /\ Len(p) \in Nat /\ Len(p) <= Len(f)
      /\ Len(f) <= Len(w)
  BY <1>1, LenProperties DEF PartOf
<1>3. \A i \in 1 .. Len(p) : i \in DOMAIN w /\ p[i] = w[i].cmd /\ w[i].whole
  BY <1>1, <1>2 DEF PartOf
<1>4. \A i \in 1 .. Len(p) : i <= r \/ i > o
  <2> SUFFICES ASSUME NEW i \in 1 .. Len(p), i > r, ~(i > o)
               PROVE  FALSE
    BY <1>2
  <2>1. r < o /\ r + 1 \in 1 .. Len(p) /\ r + 1 \in 1 .. Len(w)
    BY <1>2
  <2> QED
    BY <1>3, <2>1
<1>5. ASSUME NEW c \in Range(p) PROVE c \in Kept(w, r, o)
  <2>1. PICK i \in 1 .. Len(p) : c = p[i]
    BY <1>2, <1>5, Zenon DEF Range
  <2>2. i \in DOMAIN w /\ (i <= r \/ i > o) /\ w[i].whole /\ c = w[i].cmd
    BY <1>3, <1>4, <2>1
  <2> QED
    BY <2>2, Zenon DEF Kept
<1>6. ASSUME NEW c \in Kept(w, r, o), NEW e \in Range(p), c < e
      PROVE  c \in Range(p)
  <2>1. PICK i \in DOMAIN w : c = w[i].cmd
    BY <1>6, Zenon DEF Kept
  <2>2. PICK j \in 1 .. Len(p) : e = p[j]
    BY <1>2, <1>6, Zenon DEF Range
  <2>3. e = w[j].cmd /\ j \in DOMAIN w
    BY <1>3, <2>2
  <2>4. w[i] \in LogRecord /\ w[j] \in LogRecord
    BY <1>2, <2>3, ElementOfSeq
  <2>5. c \in Nat /\ e \in Nat
    BY <2>1, <2>3, <2>4 DEF LogRecord, Command
  <2>6. ~ (j < i)
    <3> SUFFICES ASSUME j < i PROVE FALSE
      OBVIOUS
    <3>1. e < c
      BY <2>1, <2>3 DEF Ascends
    <3> QED
      BY <1>6, <2>5, <3>1
  <2>7. i \in 1 .. Len(p)
    BY <1>2, <2>2, <2>6
  <2>8. i \in DOMAIN p /\ c = p[i]
    BY <1>2, <1>3, <2>1, <2>7
  <2> QED
    BY <2>8 DEF Range
<1> QED
  BY <1>5, <1>6 DEF Log!FirstPart, p

-----------------------------------------------------------------------------
(* What a step does to the log and to what is on its way there *)

History == memory \o Pending
Behind == local \o asyncBuffer \o Unlogged

\* The flusher holds nothing while it waits, and nothing is handed to it in a
\* synchronous mode; a batch to be logged is not empty.
Held ==
    /\ fpc = "wait" => local = <<>>
    /\ mode = "sync" => asyncBuffer = <<>> /\ local = <<>>
    /\ pc = "log" => batch # <<>>

\* Only the flusher and a partition thread that logs its batch call write_all.
LockOrder ==
    step = "write" => \/ holder = "flusher"
                      \/ holder = "partition" /\ pc = "log" /\ mode = "sync"

IInv == TypeOK /\ Held /\ LockOrder

\* The types that the rest needs.
LEMMA Types ==
  ASSUME TypeOK
  PROVE  /\ file \in Seq(LogRecord) /\ Len(file) \in Nat
         /\ synced \in 0 .. Len(file) /\ opened \in 0 .. Len(file)
         /\ replayed \in Nat /\ next \in Nat
         /\ buf \in Seq(Command) /\ local \in Seq(Command) /\ batch \in Seq(Command)
         /\ asyncBuffer \in Seq(Command) /\ memory \in Seq(Command)
         /\ Unlogged \in Seq(Command) /\ Pending \in Seq(Command)
         /\ History \in Seq(Command)
         /\ local \o asyncBuffer \in Seq(Command)
         /\ Behind \in Seq(Command) /\ buf \o Behind \in Seq(Command)
<1>1. /\ file \in Seq(LogRecord) /\ Len(file) \in Nat
      /\ synced \in 0 .. Len(file) /\ opened \in 0 .. Len(file)
      /\ replayed \in Nat /\ next \in Nat
      /\ buf \in Seq(Command) /\ local \in Seq(Command) /\ batch \in Seq(Command)
      /\ asyncBuffer \in Seq(Command) /\ memory \in Seq(Command)
  BY LenProperties DEF TypeOK
<1>2. Unlogged \in Seq(Command) /\ Pending \in Seq(Command)
  BY <1>1, WholeEmpty DEF Unlogged, Pending
<1>3. local \o asyncBuffer \in Seq(Command)
  BY <1>1, Closed
<1>4. Behind \in Seq(Command) /\ History \in Seq(Command)
  BY <1>1, <1>2, <1>3, Closed DEF Behind, History
<1>5. buf \o Behind \in Seq(Command)
  BY <1>1, <1>4, Closed
<1> QED
  BY <1>1, <1>2, <1>3, <1>4, <1>5

\* Four parts, put together in two ways.
Four(b, l, a, u) == b \o l \o a \o u
FirstAndRest(b, l, a, u) == b \o (l \o a \o u)

\* The two ways are one.
LEMMA Regrouped ==
  \A b, l, a, u \in Seq(Command) : Four(b, l, a, u) = FirstAndRest(b, l, a, u)
<1> SUFFICES ASSUME NEW b \in Seq(Command), NEW l \in Seq(Command),
                    NEW a \in Seq(Command), NEW u \in Seq(Command)
             PROVE  b \o l \o a \o u = b \o (l \o a \o u)
  BY DEF Four, FirstAndRest
<1>1. l \o a \in Seq(Command) /\ b \o l \in Seq(Command)
  BY Closed
<1>2. (b \o l) \o a = b \o (l \o a)
  BY Assoc, Zenon
<1>3. (b \o (l \o a)) \o u = b \o ((l \o a) \o u)
  BY <1>1, Assoc, Zenon
<1> QED
  BY <1>2, <1>3

\* The way begins with the file.
LEMMA WayIs ==
  ASSUME TypeOK
  PROVE  /\ Way = file \o Whole(buf \o Behind)
         /\ Way \in Seq(LogRecord)
         /\ DOMAIN Way = 1 .. Len(Way)
         /\ Len(Way) = Len(file) + Len(buf \o Behind)
         /\ \A i \in 1 .. Len(file) : Way[i] = file[i]
         /\ \A i \in 1 .. Len(buf \o Behind) :
               Way[Len(file) + i].cmd = (buf \o Behind)[i] /\ Way[Len(file) + i].whole
<1> DEFINE b == buf \o Behind
           c == Whole(b)
<1>1. /\ file \in Seq(LogRecord) /\ buf \in Seq(Command) /\ local \in Seq(Command)
      /\ asyncBuffer \in Seq(Command) /\ Unlogged \in Seq(Command)
      /\ b \in Seq(Command)
  BY Types
<1>2. Way = file \o Whole(b)
  <2>1. Four(buf, local, asyncBuffer, Unlogged) = FirstAndRest(buf, local, asyncBuffer, Unlogged)
    BY <1>1, Regrouped
  <2> QED
    BY <2>1, Zenon DEF Way, Behind, Four, FirstAndRest
<1> HIDE DEF b
<1>3. c \in Seq(LogRecord) /\ Len(c) = Len(b)
  BY <1>1, WholeIs
<1>4. \A i \in 1 .. Len(b) : c[i].cmd = b[i] /\ c[i].whole
  <2> SUFFICES ASSUME NEW i \in 1 .. Len(b) PROVE c[i].cmd = b[i] /\ c[i].whole
    OBVIOUS
  <2>1. c[i] = [cmd |-> b[i], whole |-> TRUE]
    BY <1>1, WholeIs
  <2> QED
    BY <2>1
<1>5. Way = file \o c
  BY <1>2
<1> HIDE DEF c
<1>6. /\ Way \in Seq(LogRecord) /\ Len(Way) = Len(file) + Len(c)
      /\ \A i \in 1 .. Len(file) + Len(c) :
            Way[i] = IF i <= Len(file) THEN file[i] ELSE c[i - Len(file)]
  BY <1>1, <1>3, <1>5, ConcatProperties
<1>7. DOMAIN Way = 1 .. Len(Way) /\ Len(file) \in Nat /\ Len(c) \in Nat
  BY <1>1, <1>3, <1>6, LenProperties
<1>8. ASSUME NEW i \in 1 .. Len(file) PROVE Way[i] = file[i]
  BY <1>6, <1>7
<1>9. ASSUME NEW i \in 1 .. Len(b) PROVE Way[Len(file) + i] = c[i]
  <2>1. /\ Len(file) + i \in 1 .. Len(file) + Len(c) /\ ~(Len(file) + i <= Len(file))
        /\ (Len(file) + i) - Len(file) = i
    BY <1>3, <1>7
  <2> QED
    BY <1>6, <2>1
<1> QED
  BY <1>2, <1>3, <1>4, <1>6, <1>7, <1>8, <1>9 DEF b

\* Where the first buffer of the flusher ends.
LEMMA InHandType ==
  ASSUME TypeOK
  PROVE  /\ BufferEnd \in 0 .. Len(local)
         /\ InHand \in Seq(Command)
<1>1. local \in Seq(Command) /\ batch \in Seq(Command) /\ Len(local) \in Nat
      /\ DOMAIN local = 1 .. Len(local)
  BY Types, LenProperties
<1> DEFINE E == {i \in DOMAIN local : local[i] \in ends}
<1>2. E \in SUBSET Nat /\ E \subseteq 1 .. Len(local)
  BY <1>1
<1>3. BufferEnd = IF E = {} THEN Len(local) ELSE Min(E)
  BY DEF BufferEnd
<1> HIDE DEF E
<1>4. BufferEnd \in 0 .. Len(local)
  <2>1. CASE E = {}
    BY <1>1, <1>3, <2>1
  <2>2. CASE E # {}
    <3>1. Min(E) \in E
      BY <1>2, <2>2, MinIs
    <3>2. BufferEnd \in 1 .. Len(local)
      BY <1>2, <1>3, <2>2, <3>1
    <3> QED
      BY <1>1, <3>2
  <2> QED
    BY <2>1, <2>2
<1>5. SubSeq(local, 1, BufferEnd) \in Seq(Command)
  BY <1>1, <1>4, CutInTwo
<1> QED
  BY <1>1, <1>4, <1>5 DEF InHand

\* The buffer in hand is the first of what is behind the BufferWriter, and is gone
\* from there when write_all has returned.
LEMMA Handed ==
  ASSUME IInv, step = "write"
  PROVE  \E rest \in Seq(Command) :
            /\ Behind = InHand \o rest
            /\ \A ok \in BOOLEAN :
                  WriteReturns(ok) /\ UNCHANGED <<batch, asyncBuffer>> => Behind' = rest
<1>1. /\ local \in Seq(Command) /\ batch \in Seq(Command) /\ asyncBuffer \in Seq(Command)
      /\ Unlogged \in Seq(Command) /\ <<>> \in Seq(Command)
  BY Types, WholeEmpty DEF IInv
<1>2. CASE holder = "partition"
  <2>1. pc = "log" /\ mode = "sync"
    BY <1>2 DEF IInv, LockOrder
  <2>2. local = <<>> /\ asyncBuffer = <<>> /\ Unlogged = batch /\ InHand = batch
    BY <1>2, <2>1 DEF IInv, Held, Unlogged, InHand
  <2>3. Behind = batch \o <<>>
    BY <1>1, <2>2, Empty DEF Behind
  <2>4. ASSUME NEW ok \in BOOLEAN, WriteReturns(ok), UNCHANGED <<batch, asyncBuffer>>
        PROVE  Behind' = <<>>
    <3>1. pc' = "logged" /\ local' = local
      BY <1>2, <2>4 DEF WriteReturns
    <3>2. Unlogged' = <<>> /\ local' = <<>> /\ asyncBuffer' = <<>>
      BY <2>2, <2>4, <3>1 DEF Unlogged
    <3> QED
      BY <1>1, <3>2, Empty DEF Behind
  <2> QED
    BY <1>1, <2>2, <2>3, <2>4
<1>3. CASE holder = "flusher"
  <2> DEFINE first == SubSeq(local, 1, BufferEnd)
             last == SubSeq(local, BufferEnd + 1, Len(local))
             rest == last \o asyncBuffer \o Unlogged
  <2>1. /\ first \in Seq(Command) /\ last \in Seq(Command) /\ first \o last = local
        /\ InHand = first
    BY <1>1, <1>3, InHandType, CutInTwo DEF IInv, InHand
  <2>2. ASSUME NEW ok \in BOOLEAN, WriteReturns(ok), UNCHANGED <<batch, asyncBuffer>>
        PROVE  Behind' = rest
    <3>1. pc' = pc /\ local' = last
      BY <1>3, <2>2 DEF WriteReturns
    <3>2. Unlogged' = Unlogged
      BY <2>2, <3>1 DEF Unlogged
    <3> QED
      BY <2>2, <3>1, <3>2 DEF Behind
  <2> HIDE DEF first, last
  <2>3. rest \in Seq(Command) /\ last \o asyncBuffer \in Seq(Command)
    BY <1>1, <2>1, Closed
  <2>5. Four(first, last, asyncBuffer, Unlogged)
           = FirstAndRest(first, last, asyncBuffer, Unlogged)
    BY <1>1, <2>1, Regrouped
  <2>4. first \o last \o asyncBuffer \o Unlogged = first \o rest
    BY <2>5, Zenon DEF Four, FirstAndRest
  <2>6. Behind = InHand \o rest
    BY <2>1, <2>4, Zenon DEF Behind
  <2> QED
    BY <2>2, <2>3, <2>6
<1> QED
  BY <1>2, <1>3 DEF IInv, LockOrder

\* What a step leaves as it was: the way, and what has been accepted.
Still ==
    /\ Way' = Way
    /\ History' = History
    /\ UNCHANGED <<replayed, opened, lost, next>>

\* What is moved along the way is still on it.
LEMMA StillMoved ==
  ASSUME TypeOK, TypeOK', NEW part \in Seq(Command), file' = file \o Whole(part),
         part \o (buf' \o Behind') = buf \o Behind
  PROVE  Way' = Way
<1>1. Way = file \o Whole(buf \o Behind) /\ file \in Seq(LogRecord)
  BY WayIs, Types
<1>2. /\ buf' \in Seq(Command) /\ local' \in Seq(Command) /\ asyncBuffer' \in Seq(Command)
      /\ batch' \in Seq(Command)
  BY DEF TypeOK
<1>3. Unlogged' \in Seq(Command)
  BY <1>2, WholeEmpty DEF Unlogged
<1>4. Way' = file' \o Whole(buf' \o Behind')
  <2>1. Four(buf', local', asyncBuffer', Unlogged')
           = FirstAndRest(buf', local', asyncBuffer', Unlogged')
    BY <1>2, <1>3, Regrouped
  <2> QED
    BY <2>1, Zenon DEF Way, Behind, Four, FirstAndRest
<1>5. Behind' \in Seq(Command)
  <2>1. (local \o asyncBuffer)' \in Seq(Command)
    BY <1>2, Closed
  <2> QED
    BY <1>3, <2>1, Closed DEF Behind
<1>6. buf' \o Behind' \in Seq(Command)
  BY <1>2, <1>5, Closed
<1> DEFINE b == buf' \o Behind'
<1>7. Whole(part \o b) = Whole(part) \o Whole(b)
  BY <1>6, WholeConcat
<1>8. Whole(part) \in Seq(LogRecord) /\ Whole(b) \in Seq(LogRecord)
  BY <1>6, WholeIs
<1>9. (file \o Whole(part)) \o Whole(b) = file \o (Whole(part) \o Whole(b))
  BY <1>1, <1>8, AssocRecords, Zenon
<1> QED
  BY <1>1, <1>4, <1>7, <1>9

\* The file grows by what is written to it.
LEMMA Grown ==
  ASSUME TypeOK, NEW part \in Seq(LogRecord), file' = file \o part
  PROVE  /\ file' \in Seq(LogRecord) /\ Len(file') >= Len(file)
         /\ synced \in 0 .. Len(file') /\ opened \in 0 .. Len(file')
         /\ \A i \in 1 .. Len(file) : file'[i] = file[i]
<1>1. /\ file \in Seq(LogRecord) /\ Len(file) \in Nat /\ synced \in 0 .. Len(file)
      /\ opened \in 0 .. Len(file) /\ Len(part) \in Nat
  BY Types, LenProperties
<1>2. /\ file' \in Seq(LogRecord) /\ Len(file') = Len(file) + Len(part)
      /\ \A i \in 1 .. Len(file) + Len(part) :
            file'[i] = IF i <= Len(file) THEN file[i] ELSE part[i - Len(file)]
  BY <1>1, ConcatProperties
<1>3. ASSUME NEW i \in 1 .. Len(file) PROVE file'[i] = file[i]
  BY <1>1, <1>2
<1>4. Len(file') >= Len(file) /\ synced \in 0 .. Len(file') /\ opened \in 0 .. Len(file')
  BY <1>1, <1>2
<1> QED
  BY <1>2, <1>3, <1>4

\* The return of write_all keeps to the types and the order.
LEMMA ReturnsInv ==
  ASSUME IInv, step = "write", NEW ok \in BOOLEAN, WriteReturns(ok),
         UNCHANGED <<mode, asyncBuffer, batch, memory>>
  PROVE  /\ pc' \in {"idle", "log", "logged"} /\ fpc' \in {"wait", "sleep", "write"}
         /\ local' \in Seq(Command) /\ ends' \subseteq Command
         /\ holder' \in {"none", "partition", "flusher", "checkpoint"}
         /\ step' \in {"none", "write", "flush", "sync"}
         /\ Held' /\ LockOrder'
         /\ History' = History
<1>1. /\ local \in Seq(Command) /\ Len(local) \in Nat /\ BufferEnd \in 0 .. Len(local)
      /\ ends \subseteq Command
  BY Types, InHandType, LenProperties DEF IInv, TypeOK
<1>2. SubSeq(local, BufferEnd + 1, Len(local)) \in Seq(Command)
  BY <1>1, CutInTwo
<1>3. CASE holder = "partition"
  <2>1. pc = "log" /\ mode = "sync"
    BY <1>3 DEF IInv, LockOrder
  <2>2. /\ pc' = "logged" /\ UNCHANGED <<fpc, local, ends>>
        /\ \/ holder' = holder /\ step' = "flush"
           \/ holder' = "none" /\ step' = "none"
    BY <1>3 DEF WriteReturns, AfterWrite, Release
  <2>3. History' = History
    BY <2>1, <2>2 DEF History, Pending
  <2> QED
    BY <1>1, <1>3, <2>2, <2>3 DEF IInv, TypeOK, Held, LockOrder
<1>4. CASE holder = "flusher"
  <2> DEFINE last == SubSeq(local, BufferEnd + 1, Len(local))
  <2>1. /\ local' = last /\ ends' \subseteq ends /\ UNCHANGED <<pc, holder>>
        /\ fpc' = IF local' = <<>> THEN "wait" ELSE "write"
        /\ step' = IF local' = <<>> THEN "flush" ELSE "write"
    BY <1>4 DEF WriteReturns, AfterWrite
  <2>2. History' = History
    BY <2>1 DEF History, Pending
  <2>3. local = <<>> => last = <<>>
    <3> SUFFICES ASSUME local = <<>> PROVE last = <<>>
      OBVIOUS
    <3>1. Len(local) = 0 /\ BufferEnd = 0
      BY <1>1, EmptySeq
    <3> QED
      BY <3>1, <1>2, SubSeqProperties, EmptySeq
  <2> HIDE DEF last
  <2>4. Held'
    BY <2>1, <2>3 DEF IInv, Held
  <2> QED
    BY <1>1, <1>2, <1>4, <2>1, <2>2, <2>4 DEF IInv, TypeOK, LockOrder, last
<1> QED
  BY <1>3, <1>4 DEF IInv, LockOrder

\* write_all that succeeds.
LEMMA WriteQuiet ==
  ASSUME IInv, Write
  PROVE  IInv' /\ Still /\ \E part \in Seq(LogRecord) : file' = file \o part
<1>1. /\ step = "write" /\ WriteReturns(TRUE)
      /\ UNCHANGED <<runVars, batch, memory, asyncBuffer, synced, lost, boundVars>>
  BY DEF Write
<1>2. /\ buf \in Seq(Command) /\ InHand \in Seq(Command) /\ buf \o InHand \in Seq(Command)
      /\ <<>> \in Seq(Command) /\ file \in Seq(LogRecord) /\ Behind \in Seq(Command)
      /\ file \o Whole(<<>>) = file
  BY Types, InHandType, Closed, WholeEmpty DEF IInv
<1>3. PICK rest \in Seq(Command) :
         Behind = InHand \o rest /\ (WriteReturns(TRUE) /\ UNCHANGED <<batch, asyncBuffer>>
                                        => Behind' = rest)
  BY <1>1, Handed
<1>4. Behind' = rest
  BY <1>1, <1>3
<1>5. \E part \in Seq(Command) :
         /\ file' = file \o Whole(part)
         /\ buf' \in Seq(Command)
         /\ part \o (buf' \o rest) = buf \o (InHand \o rest)
  <2>1. (buf \o InHand) \o rest = buf \o (InHand \o rest)
    BY <1>2, Assoc
  <2>2. CASE buf' = buf \o InHand /\ UNCHANGED file
    <3>1. <<>> \o ((buf \o InHand) \o rest) = (buf \o InHand) \o rest
      BY <1>2, Closed, Empty
    <3> QED
      BY <1>2, <2>1, <2>2, <3>1
  <2>3. CASE buf' = InHand /\ file' = file \o Whole(buf)
    BY <1>2, <2>3
  <2>4. CASE buf' = <<>> /\ file' = file \o Whole(buf \o InHand)
    <3>1. <<>> \o rest = rest
      BY Empty
    <3> QED
      BY <1>2, <2>1, <2>4, <3>1
  <2> QED
    BY <2>2, <2>3, <2>4 DEF Write
<1>6. PICK part \in Seq(Command) :
         /\ file' = file \o Whole(part)
         /\ buf' \in Seq(Command)
         /\ part \o (buf' \o rest) = buf \o (InHand \o rest)
  BY <1>5
<1>7. Whole(part) \in Seq(LogRecord)
  BY WholeIs
<1>8. /\ file' \in Seq(LogRecord) /\ synced \in 0 .. Len(file') /\ opened \in 0 .. Len(file')
  BY <1>6, <1>7, Grown DEF IInv
<1>9. TypeOK' /\ Held' /\ LockOrder' /\ History' = History
  <2>1. UNCHANGED <<mode, asyncBuffer, batch, memory>>
    BY <1>1 DEF runVars
  <2>2. /\ pc' \in {"idle", "log", "logged"} /\ fpc' \in {"wait", "sleep", "write"}
        /\ local' \in Seq(Command) /\ ends' \subseteq Command
        /\ holder' \in {"none", "partition", "flusher", "checkpoint"}
        /\ step' \in {"none", "write", "flush", "sync"}
        /\ Held' /\ LockOrder' /\ History' = History
    BY <1>1, <2>1, ReturnsInv
  <2> QED
    BY <1>1, <1>6, <1>8, <2>2 DEF IInv, TypeOK, runVars, boundVars
<1>10. Way' = Way
  BY <1>3, <1>4, <1>6, <1>9, StillMoved DEF IInv
<1> QED
  BY <1>1, <1>6, <1>7, <1>9, <1>10 DEF IInv, Still, runVars, boundVars

\* The other steps of whoever holds the writer.
LEMMA WriterQuiet ==
  ASSUME IInv, Flush \/ FlushFails \/ Sync \/ SyncFails
  PROVE  IInv' /\ Still /\ \E part \in Seq(LogRecord) : file' = file \o part
<1>1. /\ buf \in Seq(Command) /\ <<>> \in Seq(Command) /\ file \in Seq(LogRecord)
      /\ Behind \in Seq(Command) /\ file \o Whole(<<>>) = file
      /\ Len(file) \in Nat
  BY Types, WholeEmpty DEF IInv
<1>2. /\ step # "write"
      /\ UNCHANGED <<runVars, threadVars, flusherVars, lost>>
      /\ step' # "write"
      /\ holder' \in {holder, "none"} /\ step' \in {"none", "sync"}
      /\ UNCHANGED <<next, checkpoints, crashes>> /\ errors' \in {errors, errors + 1}
  BY DEF Flush, FlushFails, Sync, SyncFails, AfterFlush, Release, boundVars, writerVars
<1>3. Behind' = Behind /\ History' = History
  BY <1>2 DEF Behind, History, Unlogged, Pending, threadVars, flusherVars
<1>4. \E part \in Seq(Command) :
         /\ file' = file \o Whole(part)
         /\ buf' \in Seq(Command)
         /\ part \o (buf' \o Behind) = buf \o Behind
  <2>1. CASE Flush
    <3>1. file' = file \o Whole(buf) /\ buf' = <<>>
      BY <2>1 DEF Flush
    <3>2. <<>> \o Behind = Behind
      BY <1>1, Empty
    <3> QED
      BY <1>1, <3>1, <3>2
  <2>2. CASE FlushFails
    <3>1. PICK n \in 0 .. Len(buf) - 1 :
             file' = file \o Whole(SubSeq(buf, 1, n)) /\ buf' = SubSeq(buf, n + 1, Len(buf))
      BY <2>2 DEF FlushFails
    <3>2. n \in 0 .. Len(buf)
      BY <1>1, LenProperties
    <3>3. /\ SubSeq(buf, 1, n) \in Seq(Command) /\ buf' \in Seq(Command)
          /\ SubSeq(buf, 1, n) \o buf' = buf
      BY <1>1, <3>1, <3>2, CutInTwo
    <3> DEFINE p == SubSeq(buf, 1, n)
    <3> HIDE DEF p
    <3>4. p \in Seq(Command) /\ p \o buf' = buf /\ file' = file \o Whole(p)
      BY <3>1, <3>3 DEF p
    <3>5. (p \o buf') \o Behind = p \o (buf' \o Behind)
      BY <1>1, <3>3, <3>4, Assoc
    <3> QED
      BY <3>3, <3>4, <3>5
  <2>3. CASE Sync \/ SyncFails
    <3>1. UNCHANGED <<file, buf>>
      BY <2>3 DEF Sync, SyncFails, writerVars
    <3>2. buf \o Behind \in Seq(Command)
      BY <1>1, Closed
    <3>3. <<>> \o (buf \o Behind) = buf \o Behind
      BY <3>2, Empty
    <3> QED
      BY <1>1, <3>1, <3>3
  <2> QED
    BY <2>1, <2>2, <2>3
<1>5. PICK part \in Seq(Command) :
         /\ file' = file \o Whole(part)
         /\ buf' \in Seq(Command)
         /\ part \o (buf' \o Behind) = buf \o Behind
  BY <1>4
<1>6. Whole(part) \in Seq(LogRecord)
  BY WholeIs
<1>7. /\ file' \in Seq(LogRecord) /\ synced \in 0 .. Len(file') /\ opened \in 0 .. Len(file')
  BY <1>5, <1>6, Grown DEF IInv
<1>8. synced' \in 0 .. Len(file')
  <2>1. CASE Sync
    BY <1>1, <2>1 DEF Sync, SyncReaches
  <2>2. CASE ~ Sync
    <3>1. synced' = synced
      BY <2>2 DEF Flush, FlushFails, SyncFails, writerVars
    <3> QED
      BY <1>7, <3>1
  <2> QED
    BY <2>1, <2>2
<1>9. TypeOK'
  BY <1>2, <1>5, <1>7, <1>8 DEF IInv, TypeOK, runVars, threadVars, flusherVars
<1>10. Held' /\ LockOrder'
  BY <1>2 DEF IInv, Held, LockOrder, runVars, threadVars, flusherVars
<1>11. Way' = Way
  BY <1>3, <1>5, <1>9, StillMoved DEF IInv
<1> QED
  BY <1>2, <1>3, <1>5, <1>6, <1>9, <1>10, <1>11 DEF IInv, Still, runVars

\* A step that leaves file and BufWriter alone and what is behind it together.
LEMMA StillBehind ==
  ASSUME IInv, TypeOK', UNCHANGED writerVars, Behind' = Behind, History' = History,
         UNCHANGED <<replayed, opened, next>>
  PROVE  Still /\ \E part \in Seq(LogRecord) : file' = file \o part
<1>1. /\ buf \in Seq(Command) /\ <<>> \in Seq(Command) /\ file \in Seq(LogRecord)
      /\ Behind \in Seq(Command) /\ file \o Whole(<<>>) = file
      /\ <<>> \in Seq(LogRecord) /\ file \o <<>> = file
  BY Types, WholeEmpty DEF IInv
<1>2. <<>> \o (buf \o Behind) = buf \o Behind
  <2>1. buf \o Behind \in Seq(Command)
    BY <1>1, Closed
  <2> QED
    BY <2>1, Empty
<1>3. UNCHANGED <<file, buf, lost>>
  BY DEF writerVars
<1>4. Way' = Way
  <2>1. file' = file \o Whole(<<>>) /\ <<>> \o (buf' \o Behind') = buf \o Behind
    BY <1>1, <1>2, <1>3
  <2> QED
    BY <1>1, <2>1, StillMoved DEF IInv
<1> QED
  BY <1>1, <1>3, <1>4 DEF Still

\* The steps of the partition thread that take no batch.
LEMMA ThreadQuiet ==
  ASSUME IInv, ThreadNext
  PROVE  IInv' /\ Still /\ \E part \in Seq(LogRecord) : file' = file \o part
<1>1. /\ local \in Seq(Command) /\ asyncBuffer \in Seq(Command) /\ batch \in Seq(Command)
      /\ memory \in Seq(Command) /\ <<>> \in Seq(Command) /\ Len(memory) \in Nat
      /\ memory \o batch \in Seq(Command) /\ asyncBuffer \o batch \in Seq(Command)
  BY Types, WholeEmpty, Closed, LenProperties DEF IInv
<1>2. CASE AppendAsync
  <2>1. /\ pc = "log" /\ pc' = "logged" /\ mode = "async"
        /\ asyncBuffer' = asyncBuffer \o batch
        /\ ends' = ends \cup {batch[Len(batch)]}
        /\ UNCHANGED <<runVars, batch, memory, fpc, local, lockVars, writerVars, boundVars>>
    BY <1>2 DEF AppendAsync
  <2>2. ends' \subseteq Command
    <3>1. CASE batch # <<>>
      <4>1. Len(batch) \in 1 .. Len(batch)
        BY <1>1, <3>1, EmptySeq, LenProperties
      <4>2. batch[Len(batch)] \in Command
        BY <1>1, <4>1, ElementOfSeq
      <4> QED
        BY <2>1, <4>2 DEF IInv, TypeOK
    <3>2. CASE batch = <<>>
      BY <2>1, <3>2 DEF IInv, Held
    <3> QED
      BY <3>1, <3>2
  <2>3. TypeOK'
    BY <1>1, <2>1, <2>2 DEF IInv, TypeOK, runVars, lockVars, writerVars, boundVars
  <2>4. Held' /\ LockOrder'
    BY <2>1 DEF IInv, Held, LockOrder, runVars, lockVars
  <2>5. History' = History
    BY <2>1 DEF History, Pending
  <2>6. Behind' = Behind
    <3>1. Behind = (local \o asyncBuffer) \o batch /\ Behind' = (local \o (asyncBuffer \o batch)) \o <<>>
      BY <2>1 DEF Behind, Unlogged
    <3>2. (local \o asyncBuffer) \o batch = local \o (asyncBuffer \o batch)
      BY <1>1, Assoc
    <3>3. local \o (asyncBuffer \o batch) \in Seq(Command)
      BY <1>1, Closed
    <3> QED
      BY <3>1, <3>2, <3>3, Empty
  <2> QED
    BY <2>1, <2>3, <2>4, <2>5, <2>6, StillBehind DEF IInv, runVars, boundVars
<1>3. CASE AppendSync
  <2>1. /\ pc = "log" /\ mode = "sync" /\ holder' = "partition" /\ step' = "write"
        /\ UNCHANGED <<runVars, threadVars, flusherVars, writerVars, boundVars>>
    BY <1>3 DEF AppendSync, Lock
  <2>2. TypeOK'
    BY <2>1 DEF IInv, TypeOK, runVars, threadVars, flusherVars, writerVars, boundVars
  <2>3. Held' /\ LockOrder'
    BY <2>1 DEF IInv, Held, LockOrder, runVars, threadVars, flusherVars
  <2>4. History' = History /\ Behind' = Behind
    BY <2>1 DEF History, Behind, Unlogged, Pending, threadVars, flusherVars
  <2> QED
    BY <2>1, <2>2, <2>3, <2>4, StillBehind DEF IInv, runVars, boundVars
<1>4. CASE Apply
  <2>1. /\ pc = "logged" /\ pc' = "idle" /\ holder # "partition"
        /\ memory' = memory \o batch /\ batch' = <<>>
        /\ UNCHANGED <<runVars, flusherVars, lockVars, writerVars, boundVars>>
    BY <1>4 DEF Apply
  <2>2. replayed' \in 0 .. Len(memory')
    <3>1. Len(memory') >= Len(memory) /\ Len(memory') \in Nat
      BY <1>1, <2>1, ConcatProperties, LenProperties
    <3>2. replayed \in 0 .. Len(memory) /\ replayed' = replayed
      BY <2>1 DEF IInv, TypeOK, runVars
    <3> QED
      BY <1>1, <3>1, <3>2
  <2>3. TypeOK'
    BY <1>1, <2>1, <2>2 DEF IInv, TypeOK, runVars, flusherVars, lockVars, writerVars,
       boundVars
  <2>4. Held' /\ LockOrder'
    BY <2>1 DEF IInv, Held, LockOrder, runVars, flusherVars, lockVars
  <2>5. History' = History
    BY <1>1, <2>1, Empty DEF History, Pending
  <2>6. Behind' = Behind
    BY <2>1 DEF Behind, Unlogged, flusherVars
  <2> QED
    BY <2>1, <2>3, <2>4, <2>5, <2>6, StillBehind DEF IInv, runVars, boundVars
<1> QED
  BY <1>2, <1>3, <1>4 DEF ThreadNext

\* The steps of the flusher, a checkpoint, and no step at all.
LEMMA FlusherQuiet ==
  ASSUME IInv, FlusherNext \/ Checkpoint \/ UNCHANGED vars
  PROVE  IInv' /\ Still /\ \E part \in Seq(LogRecord) : file' = file \o part
<1>1. /\ local \in Seq(Command) /\ asyncBuffer \in Seq(Command) /\ <<>> \in Seq(Command)
      /\ local \o asyncBuffer \in Seq(Command)
  BY Types, WholeEmpty DEF IInv
<1>2. CASE Take
  <2>1. /\ mode = "async" /\ fpc = "wait" /\ fpc' = "sleep"
        /\ local' = asyncBuffer /\ asyncBuffer' = <<>>
        /\ UNCHANGED <<runVars, threadVars, ends, lockVars, writerVars, boundVars>>
    BY <1>2 DEF Take, Swapped
  <2>2. TypeOK'
    BY <1>1, <2>1 DEF IInv, TypeOK, runVars, threadVars, lockVars, writerVars, boundVars
  <2>3. Held' /\ LockOrder'
    BY <2>1 DEF IInv, Held, LockOrder, runVars, threadVars, lockVars
  <2>4. History' = History /\ Unlogged' = Unlogged
    BY <2>1 DEF History, Pending, Unlogged, threadVars
  <2>5. local = <<>>
    BY <2>1 DEF IInv, Held
  <2>6. Behind' = Behind
    BY <1>1, <2>1, <2>4, <2>5, Empty DEF Behind
  <2> QED
    BY <2>1, <2>2, <2>3, <2>4, <2>6, StillBehind DEF IInv, runVars, boundVars
<1>3. CASE TakeMore
  <2>1. /\ fpc = "sleep" /\ fpc' = "write"
        /\ local' = local \o asyncBuffer /\ asyncBuffer' = <<>>
        /\ UNCHANGED <<runVars, threadVars, ends, lockVars, writerVars, boundVars>>
    BY <1>3 DEF TakeMore, Joined
  <2>2. TypeOK'
    BY <1>1, <2>1 DEF IInv, TypeOK, runVars, threadVars, lockVars, writerVars, boundVars
  <2>3. Held' /\ LockOrder'
    <3>1. mode = "sync" => local' = <<>>
      BY <1>1, <2>1, Empty DEF IInv, Held
    <3> QED
      BY <2>1, <3>1 DEF IInv, Held, LockOrder, runVars, threadVars, lockVars
  <2>4. History' = History /\ Unlogged' = Unlogged
    BY <2>1 DEF History, Pending, Unlogged, threadVars
  <2>5. Behind' = Behind
    BY <1>1, <2>1, <2>4, Empty DEF Behind
  <2> QED
    BY <2>1, <2>2, <2>3, <2>4, <2>5, StillBehind DEF IInv, runVars, boundVars
<1>4. CASE NoSleep \/ FlusherWrite \/ Checkpoint \/ UNCHANGED vars
  <2>1. /\ UNCHANGED <<runVars, threadVars, asyncBuffer, local, ends, writerVars, next,
                       errors, crashes>>
        /\ fpc' \in {fpc, "write"} /\ (fpc' = "wait" <=> fpc = "wait")
        /\ checkpoints' \in {checkpoints, checkpoints + 1}
        /\ \/ UNCHANGED <<holder, step>>
           \/ holder' = "flusher" /\ step' = "write"
           \/ holder' = "checkpoint" /\ step' = "flush"
    BY <1>4 DEF NoSleep, FlusherWrite, Checkpoint, CheckpointStep, Lock, vars, flusherVars,
       lockVars, boundVars
  <2>2. TypeOK'
    BY <2>1 DEF IInv, TypeOK, runVars, threadVars, writerVars
  <2>3. Held' /\ LockOrder'
    BY <2>1 DEF IInv, Held, LockOrder, runVars, threadVars
  <2>4. History' = History /\ Behind' = Behind
    BY <2>1 DEF History, Pending, Unlogged, Behind, threadVars
  <2> QED
    BY <2>1, <2>2, <2>3, <2>4, StillBehind DEF IInv, runVars
<1> QED
  BY <1>2, <1>3, <1>4 DEF FlusherNext

\* The steps that leave the way and what has been accepted as they were.
QuietNext ==
    \/ Write \/ Flush \/ FlushFails \/ Sync \/ SyncFails
    \/ ThreadNext \/ FlusherNext \/ Checkpoint \/ UNCHANGED vars

\* They do.
LEMMA Quiet ==
  ASSUME IInv, QuietNext
  PROVE  IInv' /\ Still /\ \E part \in Seq(LogRecord) : file' = file \o part
<1>1. CASE Write
  BY <1>1, WriteQuiet
<1>2. CASE Flush \/ FlushFails \/ Sync \/ SyncFails
  BY <1>2, WriterQuiet
<1>3. CASE ThreadNext
  BY <1>3, ThreadQuiet
<1>4. CASE FlusherNext \/ Checkpoint \/ UNCHANGED vars
  BY <1>4, FlusherQuiet
<1> QED
  BY <1>1, <1>2, <1>3, <1>4 DEF QuietNext

-----------------------------------------------------------------------------
(* The invariant *)

\* What LogIsHistory says, by the names used here.
LogInv == Ascends(Way) /\ Kept(Way, replayed, opened) = Range(History) \ lost

\* Commands get their numbers in the order of acceptance.
Numbered ==
    /\ \A i \in DOMAIN Way : Way[i].cmd <= next
    /\ \A x \in Range(History) : x <= next
    /\ lost \subseteq Range(History)
    /\ Rises(History)

\* What a restart has found and not replayed begins with part of a record.
OpenedTorn == replayed < opened => ~file[replayed + 1].whole

Inv == IInv /\ LogInv /\ Numbered /\ OpenedTorn

\* It is LogIsHistory.
LEMMA SaysHistory == LogInv => LogIsHistory
BY Zenon DEF LogInv, LogIsHistory, Ascends, Kept, Ours, History

\* What was found at a restart stays as it was.
LEMMA OpenedStays ==
  ASSUME TypeOK, OpenedTorn, UNCHANGED <<replayed, opened>>,
         NEW part \in Seq(LogRecord), file' = file \o part
  PROVE  OpenedTorn'
<1>1. replayed \in Nat /\ opened \in 0 .. Len(file) /\ Len(file) \in Nat
  BY Types
<1>2. \A i \in 1 .. Len(file) : file'[i] = file[i]
  BY Grown
<1>3. ASSUME replayed < opened PROVE file'[replayed + 1] = file[replayed + 1]
  BY <1>1, <1>2, <1>3
<1> QED
  BY <1>3 DEF OpenedTorn

\* The quiet steps keep to it.
LEMMA QuietInv ==
  ASSUME Inv, QuietNext
  PROVE  Inv'
<1>1. IInv' /\ Still /\ \E part \in Seq(LogRecord) : file' = file \o part
  BY Quiet DEF Inv
<1>2. LogInv'
  BY <1>1, Zenon DEF Inv, LogInv, Still
<1>3. Numbered'
  BY <1>1, Zenon DEF Inv, Numbered, Still
<1>4. OpenedTorn'
  BY <1>1, OpenedStays DEF Inv, IInv, Still
<1> QED
  BY <1>1, <1>2, <1>3, <1>4 DEF Inv

\* A batch is accepted.
LEMMA ReceiveInv ==
  ASSUME Inv, Receive
  PROVE  /\ Inv'
         /\ batch' \in Seq(Command) /\ batch' # <<>>
         /\ \A x \in Range(batch') : x > next
         /\ Range(History') = Range(History) \cup Range(batch')
<1>1. PICK n \in 1 .. MaxBatch : batch' = [i \in 1 .. n |-> next + i] /\ next' = next + n
  BY DEF Receive
<1>2. /\ pc = "idle" /\ pc' = "log"
      /\ UNCHANGED <<runVars, memory, flusherVars, lockVars, writerVars, checkpoints,
                     errors, crashes>>
  BY DEF Receive
<1>3. next \in Nat /\ n \in Nat /\ n >= 1
  BY WalAssumption, Types DEF Inv, IInv
<1>4. /\ batch' \in Seq(Command) /\ Len(batch') = n /\ DOMAIN batch' = 1 .. n
      /\ \A i \in 1 .. n : batch'[i] = next + i
  BY <1>1, <1>3 DEF Command
<1>5. batch' # <<>>
  BY <1>3, <1>4, EmptySeq
<1>6. Rises(batch')
  BY <1>3, <1>4 DEF Rises
<1>7. \A x \in Range(batch') : x > next /\ x <= next'
  <2> SUFFICES ASSUME NEW x \in Range(batch') PROVE x > next /\ x <= next'
    OBVIOUS
  <2>1. PICK i \in 1 .. n : x = batch'[i]
    BY <1>4, Zenon DEF Range
  <2> QED
    BY <1>1, <1>3, <1>4, <2>1
<1>8. IInv'
  <2>1. next' \in Nat
    BY <1>1, <1>3
  <2>2. TypeOK'
    BY <1>2, <1>4, <2>1 DEF Inv, IInv, TypeOK, runVars, flusherVars, lockVars, writerVars
  <2>3. Held' /\ LockOrder'
    BY <1>2, <1>5 DEF Inv, IInv, Held, LockOrder, runVars, flusherVars, lockVars
  <2> QED
    BY <2>2, <2>3 DEF IInv
<1>9. /\ memory \in Seq(Command) /\ local \o asyncBuffer \in Seq(Command)
      /\ buf \in Seq(Command) /\ file \in Seq(LogRecord)
      /\ opened \in 0 .. Len(file) /\ replayed \in Nat /\ Len(file) \in Nat
  BY Types DEF Inv, IInv
<1>10. History = memory /\ History' = memory \o batch'
  BY <1>2, <1>9, Empty DEF History, Pending
<1>11. Range(History') = Range(History) \cup Range(batch')
  BY <1>4, <1>9, <1>10, RangeConcat
<1> DEFINE la == local \o asyncBuffer
<1>12. Behind = la /\ Behind' = la \o batch'
  BY <1>2, <1>9, Empty DEF Behind, Unlogged, flusherVars
<1>13. Way' = Way \o Whole(batch')
  <2>1. Way = file \o Whole(buf \o la)
    BY <1>12, WayIs DEF Inv, IInv
  <2>2. Way' = file \o Whole(buf \o (la \o batch'))
    <3>1. Four(buf, local, asyncBuffer, batch') = FirstAndRest(buf, local, asyncBuffer, batch')
      BY <1>4, Regrouped, Types DEF Inv, IInv
    <3>2. Unlogged' = batch' /\ UNCHANGED <<file, buf, local, asyncBuffer>>
      BY <1>2 DEF Unlogged, flusherVars, writerVars
    <3> QED
      BY <3>1, <3>2, Zenon DEF Way, Four, FirstAndRest
  <2> HIDE DEF la
  <2>3. la \in Seq(Command)
    BY <1>9 DEF la
  <2>4. (buf \o la) \o batch' = buf \o (la \o batch')
    BY <1>4, <1>9, <2>3, Assoc
  <2>5. buf \o la \in Seq(Command)
    BY <1>9, <2>3, Closed
  <2>6. Whole((buf \o la) \o batch') = Whole(buf \o la) \o Whole(batch')
    BY <1>4, <2>5, WholeConcat
  <2>7. Whole(buf \o la) \in Seq(LogRecord) /\ Whole(batch') \in Seq(LogRecord)
    BY <1>4, <2>5, WholeIs
  <2>8. (file \o Whole(buf \o la)) \o Whole(batch') = file \o (Whole(buf \o la) \o Whole(batch'))
    BY <1>9, <2>7, AssocRecords
  <2> QED
    BY <2>1, <2>2, <2>4, <2>6, <2>8
<1>14. /\ Way \in Seq(LogRecord) /\ opened \in 0 .. Len(Way)
       /\ Ascends(Way) /\ \A i \in DOMAIN Way : Way[i].cmd <= next
  <2>1. /\ Way \in Seq(LogRecord) /\ Len(Way) = Len(file) + Len(buf \o Behind)
        /\ Len(buf \o Behind) \in Nat
    BY WayIs, Types, LenProperties DEF Inv, IInv
  <2>2. opened \in 0 .. Len(Way)
    BY <1>9, <2>1
  <2> QED
    BY <2>1, <2>2 DEF Inv, LogInv, Numbered
<1>15. /\ Ascends(Way')
       /\ Kept(Way', replayed, opened) = Kept(Way, replayed, opened) \cup Range(batch')
  <2>1. \A x \in Range(batch') : x > next
    BY <1>7
  <2>2. batch' \in Seq(Command) /\ next \in Nat /\ replayed \in Nat
    BY <1>3, <1>4, <1>9
  <2>3. /\ Ascends(Way \o Whole(batch'))
        /\ Kept(Way \o Whole(batch'), replayed, opened)
              = Kept(Way, replayed, opened) \cup Range(batch')
    BY <1>6, <1>14, <2>1, <2>2, Appended
  <2> QED
    BY <1>13, <2>3
<1>16. UNCHANGED <<replayed, opened, lost, file>>
  BY <1>2 DEF runVars, writerVars
<1>17. \A x \in Range(batch') : x \notin lost
  <2> SUFFICES ASSUME NEW x \in Range(batch'), x \in lost PROVE FALSE
    OBVIOUS
  <2>1. x <= next
    BY DEF Inv, Numbered
  <2>2. x > next /\ x \in Nat
    <3>1. PICK i \in 1 .. n : x = batch'[i]
      BY <1>4, Zenon DEF Range
    <3> QED
      BY <1>3, <1>4, <3>1
  <2> QED
    BY <1>3, <2>1, <2>2
<1>18. LogInv'
  <2>1. Kept(Way, replayed, opened) = Range(History) \ lost
    BY DEF Inv, LogInv
  <2>2. Kept(Way', replayed', opened') = Range(History') \ lost'
    BY <1>11, <1>15, <1>16, <1>17, <2>1
  <2> QED
    BY <1>15, <2>2 DEF LogInv
<1>19. Numbered'
  <2>1. \A x \in Range(History') : x <= next'
    <3> SUFFICES ASSUME NEW x \in Range(History') PROVE x <= next'
      OBVIOUS
    <3>1. CASE x \in Range(batch')
      BY <1>7, <3>1
    <3>2. CASE x \in Range(History)
      <4>1. x <= next
        BY <3>2 DEF Inv, Numbered
      <4>2. x \in Nat
        <5>1. PICK i \in DOMAIN memory : x = memory[i]
          BY <1>10, <3>2, Zenon DEF Range
        <5>2. memory[i] \in Command
          BY <1>9, ElementOfSeq, LenProperties
        <5> QED
          BY <5>1, <5>2 DEF Command
      <4> QED
        BY <1>1, <1>3, <4>1, <4>2
    <3> QED
      BY <1>11, <3>1, <3>2
  <2>2. Rises(History')
    <3>1. Rises(memory) /\ \A x \in Range(memory) : x <= next
      BY <1>10 DEF Inv, Numbered
    <3>2. \A x \in Range(batch') : x > next
      BY <1>7
    <3> QED
      BY <1>3, <1>4, <1>6, <1>9, <1>10, <3>1, <3>2, RisesConcat
  <2>3. lost' \subseteq Range(History')
    BY <1>11, <1>16 DEF Inv, Numbered
  <2>4. ASSUME NEW i \in DOMAIN Way' PROVE Way'[i].cmd <= next'
    <3>1. /\ Whole(batch') \in Seq(LogRecord) /\ Len(Whole(batch')) = n
          /\ \A j \in 1 .. n : Whole(batch')[j] = [cmd |-> batch'[j], whole |-> TRUE]
      BY <1>4, WholeIs
    <3> DEFINE c == Whole(batch')
    <3>2. /\ c \in Seq(LogRecord) /\ Len(c) = n
          /\ \A j \in 1 .. n : c[j].cmd = next + j
      BY <1>4, <3>1
    <3>3. Way' = Way \o c
      BY <1>13
    <3> HIDE DEF c
    <3>4. /\ Way' \in Seq(LogRecord) /\ Len(Way') = Len(Way) + Len(c)
          /\ \A j \in 1 .. Len(Way) + Len(c) :
                Way'[j] = IF j <= Len(Way) THEN Way[j] ELSE c[j - Len(Way)]
      BY <1>14, <3>2, <3>3, ConcatProperties
    <3>5. /\ Len(Way) \in Nat /\ DOMAIN Way = 1 .. Len(Way) /\ DOMAIN Way' = 1 .. Len(Way')
      BY <1>14, <3>4, LenProperties
    <3>6. i \in 1 .. Len(Way) + n
      BY <3>2, <3>4, <3>5
    <3>7. CASE i <= Len(Way)
      <4>1. i \in DOMAIN Way /\ Way'[i] = Way[i]
        BY <1>3, <3>2, <3>4, <3>5, <3>6, <3>7
      <4>2. Way[i].cmd <= next /\ Way[i].cmd \in Nat
        <5>1. Way[i] \in LogRecord
          BY <1>14, <3>5, <4>1, ElementOfSeq
        <5> QED
          BY <1>14, <4>1, <5>1 DEF LogRecord, Command
      <4> QED
        BY <1>1, <1>3, <4>1, <4>2
    <3>8. CASE ~ (i <= Len(Way))
      <4>1. i - Len(Way) \in 1 .. n
        BY <1>3, <3>5, <3>6, <3>8
      <4>2. Way'[i] = c[i - Len(Way)] /\ c[i - Len(Way)].cmd = next + (i - Len(Way))
        BY <3>2, <3>4, <3>6, <3>8, <4>1
      <4> QED
        BY <1>1, <1>3, <4>1, <4>2
    <3> QED
      BY <3>7, <3>8
  <2> QED
    BY <2>1, <2>2, <2>3, <2>4 DEF Numbered
<1>20. OpenedTorn'
  BY <1>16 DEF Inv, OpenedTorn
<1> QED
  BY <1>4, <1>5, <1>7, <1>8, <1>11, <1>18, <1>19, <1>20 DEF Inv

\* The commands of a buffer but for the first n.
Gone(X, n) == {X[i] : i \in n + 1 .. Len(X)}

\* A buffer that write_all fails to write is gone from the way, all of it or but
\* for some records and perhaps a part of one.
LEMMA LeavesTheWay ==
  ASSUME IInv, WriteFails
  PROVE  \E D \in Seq(LogRecord), X \in Seq(Command), rest \in Seq(Command) :
         \E n \in 0 .. Len(X), m \in 0 .. Len(X) :
            /\ n <= m /\ m <= n + 1
            /\ opened \in 0 .. Len(D)
            /\ Drops(D, X, rest, n, m, Way, Way', Gone(X, n))
            /\ lost' = lost \cup Gone(X, n)
            /\ buf' \in Seq(Command)
            /\ \E part \in Seq(LogRecord) : file' = file \o part
<1>1. /\ step = "write" /\ WriteReturns(FALSE) /\ (MakeRoomFails \/ DirectFails)
      /\ UNCHANGED <<batch, asyncBuffer>>
  BY DEF WriteFails
<1>2. PICK rest \in Seq(Command) :
         Behind = InHand \o rest /\ (WriteReturns(FALSE) /\ UNCHANGED <<batch, asyncBuffer>>
                                        => Behind' = rest)
  BY <1>1, Handed
<1>3. Behind = InHand \o rest /\ Behind' = rest
  BY <1>1, <1>2
<1> DEFINE X == InHand
           D == file \o Whole(buf)
<1>4. /\ file \in Seq(LogRecord) /\ buf \in Seq(Command) /\ X \in Seq(Command)
      /\ Way = file \o Whole(buf \o Behind)
      /\ opened \in 0 .. Len(file) /\ Len(file) \in Nat /\ Len(buf) \in Nat
      /\ local \in Seq(Command) /\ asyncBuffer \in Seq(Command)
  BY Types, WayIs, InHandType, LenProperties DEF IInv
<1>5. Way' = file' \o Whole(buf' \o Behind') \/ buf' \notin Seq(Command)
  <2> SUFFICES ASSUME buf' \in Seq(Command) PROVE Way' = file' \o Whole(buf' \o Behind')
    OBVIOUS
  <2>1. asyncBuffer' \in Seq(Command) /\ batch' \in Seq(Command)
    BY <1>1, Types DEF IInv
  <2>2. Unlogged' \in Seq(Command)
    BY <2>1, WholeEmpty DEF Unlogged
  <2>3. local' \in Seq(Command)
    <3>1. local' = local \/ local' = SubSeq(local, BufferEnd + 1, Len(local))
      BY <1>1 DEF WriteReturns
    <3>2. SubSeq(local, BufferEnd + 1, Len(local)) \in Seq(Command)
      BY <1>4, InHandType, CutInTwo DEF IInv
    <3> QED
      BY <1>4, <3>1, <3>2
  <2>4. Four(buf', local', asyncBuffer', Unlogged')
           = FirstAndRest(buf', local', asyncBuffer', Unlogged')
    BY <2>1, <2>2, <2>3, Regrouped
  <2> QED
    BY <2>4, Zenon DEF Way, Behind, Four, FirstAndRest
<1> HIDE DEF X
<1>6. /\ Whole(buf) \in Seq(LogRecord) /\ Whole(X) \in Seq(LogRecord)
      /\ Whole(rest) \in Seq(LogRecord) /\ X \o rest \in Seq(Command)
  BY <1>4, WholeIs, Closed
<1>7. Way = D \o (Whole(X) \o Whole(rest))
  <2>1. Way = file \o Whole(buf \o (X \o rest))
    BY <1>3, <1>4 DEF X
  <2>2. Whole(buf \o (X \o rest)) = Whole(buf) \o Whole(X \o rest)
    BY <1>4, <1>6, WholeConcat
  <2>3. Whole(X \o rest) = Whole(X) \o Whole(rest)
    BY <1>4, WholeConcat
  <2>4. Whole(X) \o Whole(rest) \in Seq(LogRecord)
    BY <1>6, ConcatProperties
  <2>5. (file \o Whole(buf)) \o (Whole(X) \o Whole(rest))
           = file \o (Whole(buf) \o (Whole(X) \o Whole(rest)))
    BY <1>4, <1>6, <2>4, AssocRecords
  <2> QED
    BY <2>1, <2>2, <2>3, <2>5
<1>8. D \in Seq(LogRecord) /\ opened \in 0 .. Len(D)
  <2>1. Len(D) = Len(file) + Len(Whole(buf)) /\ Len(Whole(buf)) \in Nat
    BY <1>4, <1>6, ConcatProperties, LenProperties
  <2> QED
    BY <1>4, <1>6, <2>1, ConcatProperties
<1> HIDE DEF D
<1>9. CASE MakeRoomFails
  <2>1. PICK n \in 0 .. Len(buf) - 1 :
           file' = file \o Whole(SubSeq(buf, 1, n)) /\ buf' = SubSeq(buf, n + 1, Len(buf))
    BY <1>9 DEF MakeRoomFails
  <2>2. n \in 0 .. Len(buf)
    BY <1>4
  <2> DEFINE p == SubSeq(buf, 1, n)
             q == SubSeq(buf, n + 1, Len(buf))
  <2>3. p \in Seq(Command) /\ q \in Seq(Command) /\ p \o q = buf
    BY <1>4, <2>2, CutInTwo
  <2>4. file' = file \o Whole(p) /\ buf' = q
    BY <2>1
  <2> HIDE DEF p, q
  <2>5. Way' = (file \o Whole(p)) \o Whole(q \o rest)
    BY <1>3, <1>5, <2>3, <2>4
  <2>6. (file \o Whole(p)) \o Whole(q \o rest) = file \o Whole((p \o q) \o rest)
    <3>1. (p \o q) \o rest = p \o (q \o rest) /\ q \o rest \in Seq(Command)
      BY <2>3, Assoc, Closed
    <3> DEFINE b == q \o rest
    <3>2. Whole(p \o b) = Whole(p) \o Whole(b)
      BY <2>3, <3>1, WholeConcat
    <3>3. Whole(p) \in Seq(LogRecord) /\ Whole(b) \in Seq(LogRecord)
      BY <2>3, <3>1, WholeIs
    <3>4. (file \o Whole(p)) \o Whole(b) = file \o (Whole(p) \o Whole(b))
      BY <1>4, <3>3, AssocRecords, Zenon
    <3> QED
      BY <3>1, <3>2, <3>4
  <2>7. Whole(buf \o rest) = Whole(buf) \o Whole(rest)
    BY <1>4, WholeConcat
  <2>8. (file \o Whole(buf)) \o Whole(rest) = file \o (Whole(buf) \o Whole(rest))
    BY <1>4, <1>6, AssocRecords
  <2>9. Way' = D \o Whole(rest)
    BY <2>3, <2>5, <2>6, <2>7, <2>8 DEF D
  <2>10. Cut(X, 0, 0) \o Whole(rest) = Whole(rest)
    <3>1. 0 \in 0 .. Len(X)
      BY <1>4, LenProperties
    <3> DEFINE z == 0
    <3>2. z \in 0 .. Len(X) /\ z \in Nat
      BY <3>1
    <3>3. Cut(X, 0, 0) = <<>>
      BY DEF Cut
    <3> QED
      BY <1>6, <3>3, ConcatEmptySeq
  <2>11. Drops(D, X, rest, 0, 0, Way, Way', Gone(X, 0))
    BY <1>7, <2>9, <2>10 DEF Drops, Gone
  <2>12. Range(InHand) = Gone(X, 0)
    <3>1. DOMAIN X = 0 + 1 .. Len(X)
      BY <1>4, LenProperties
    <3> QED
      BY <3>1, Zenon DEF Range, X, Gone
  <2>13. lost' = lost \cup Gone(X, 0)
    BY <1>9, <2>12 DEF MakeRoomFails
  <2>14. Whole(p) \in Seq(LogRecord)
    BY <2>3, WholeIs
  <2>15. 0 \in 0 .. Len(X) /\ 0 <= 0 /\ 0 <= 0 + 1
    BY <1>4, LenProperties
  <2>16. \E part \in Seq(LogRecord) : file' = file \o part
    BY <2>4, <2>14
  <2> QED
    BY <1>4, <1>8, <2>3, <2>4, <2>11, <2>13, <2>15, <2>16, Zenon
<1>10. CASE DirectFails
  <2>1. PICK n \in 0 .. Len(X) - 1 :
           /\ \E m \in {n, n + 1} : file' = file \o Whole(buf) \o Cut(X, m, n)
           /\ lost' = lost \cup {X[i] : i \in n + 1 .. Len(X)}
    BY <1>10, Zenon DEF DirectFails, X
  <2>2. PICK m \in {n, n + 1} : file' = file \o Whole(buf) \o Cut(X, m, n)
    BY <2>1
  <2>3. buf' = <<>> /\ buf' \in Seq(Command)
    BY <1>10, WholeEmpty DEF DirectFails
  <2>4. n \in 0 .. Len(X) /\ m \in 0 .. Len(X) /\ n \in Nat /\ n <= m /\ m <= n + 1
    BY <1>4, LenProperties
  <2> DEFINE c == Cut(X, m, n)
  <2>5. c \in Seq(LogRecord)
    BY <1>4, <2>4, CutIs
  <2>6. file' = D \o c
    BY <2>2 DEF D
  <2>7. Way' = (D \o c) \o Whole(rest)
    BY <1>3, <1>5, <2>3, <2>6, Empty
  <2>8. (D \o c) \o Whole(rest) = D \o (c \o Whole(rest))
    BY <1>6, <1>8, <2>5, AssocRecords
  <2>9. Drops(D, X, rest, n, m, Way, Way', Gone(X, n))
    BY <1>7, <2>7, <2>8 DEF Drops, Gone
  <2>10. lost' = lost \cup Gone(X, n)
    BY <2>1 DEF Gone
  <2>11. \E part \in Seq(LogRecord) : file' = file \o part
    <3>1. (file \o Whole(buf)) \o c = file \o (Whole(buf) \o c)
      BY <1>4, <1>6, <2>5, AssocRecords
    <3>2. Whole(buf) \o c \in Seq(LogRecord)
      BY <1>6, <2>5, ConcatProperties
    <3> QED
      BY <2>6, <3>1, <3>2 DEF D
  <2> HIDE DEF c
  <2> QED
    BY <1>4, <1>8, <2>3, <2>4, <2>9, <2>10, <2>11, Zenon
<1> QED
  BY <1>1, <1>9, <1>10

\* What it had of the history is what is lost.
LEMMA WriteFailsInv ==
  ASSUME Inv, WriteFails
  PROVE  /\ Inv'
         /\ History' = History /\ lost \subseteq lost' /\ synced' = synced
         /\ \E part \in Seq(LogRecord) : file' = file \o part
<1>1. /\ step = "write" /\ WriteReturns(FALSE)
      /\ UNCHANGED <<runVars, batch, memory, asyncBuffer, synced, next, checkpoints, crashes>>
      /\ errors' = errors + 1
  BY DEF WriteFails
<1>2. PICK D \in Seq(LogRecord), X \in Seq(Command), rest \in Seq(Command) :
         \E n \in 0 .. Len(X), m \in 0 .. Len(X) :
            /\ n <= m /\ m <= n + 1
            /\ opened \in 0 .. Len(D)
            /\ Drops(D, X, rest, n, m, Way, Way', Gone(X, n))
            /\ lost' = lost \cup Gone(X, n)
            /\ buf' \in Seq(Command)
            /\ \E part \in Seq(LogRecord) : file' = file \o part
  BY LeavesTheWay DEF Inv
<1>3. PICK n \in 0 .. Len(X), m \in 0 .. Len(X) :
            /\ n <= m /\ m <= n + 1
            /\ opened \in 0 .. Len(D)
            /\ Drops(D, X, rest, n, m, Way, Way', Gone(X, n))
            /\ lost' = lost \cup Gone(X, n)
            /\ buf' \in Seq(Command)
            /\ \E part \in Seq(LogRecord) : file' = file \o part
  BY <1>2
<1> DEFINE G == Gone(X, n)
<1> HIDE DEF G
<1>4. replayed \in Nat /\ Ascends(Way) /\ UNCHANGED <<mode, replayed, opened>>
  BY <1>1, Types DEF Inv, IInv, LogInv, runVars
<1>5. /\ Ascends(Way')
      /\ Kept(Way', replayed, opened) = Kept(Way, replayed, opened) \ G
      /\ G \subseteq Kept(Way, replayed, opened)
      /\ \A i \in DOMAIN Way' : \E j \in DOMAIN Way : Way'[i].cmd = Way[j].cmd
  <2>1. /\ n <= m /\ m <= n + 1 /\ opened \in 0 .. Len(D)
        /\ Drops(D, X, rest, n, m, Way, Way', G)
    BY <1>3 DEF G
  <2> QED
    BY <1>4, <2>1, Dropped
<1>6. PICK part \in Seq(LogRecord) : file' = file \o part
  BY <1>3
<1>7. /\ file' \in Seq(LogRecord) /\ synced \in 0 .. Len(file') /\ opened \in 0 .. Len(file')
  BY <1>6, Grown DEF Inv, IInv
<1>8. /\ pc' \in {"idle", "log", "logged"} /\ fpc' \in {"wait", "sleep", "write"}
      /\ local' \in Seq(Command) /\ ends' \subseteq Command
      /\ holder' \in {"none", "partition", "flusher", "checkpoint"}
      /\ step' \in {"none", "write", "flush", "sync"}
      /\ Held' /\ LockOrder' /\ History' = History
  <2>1. UNCHANGED <<mode, asyncBuffer, batch, memory>>
    BY <1>1, <1>4
  <2> QED
    BY <1>1, <2>1, ReturnsInv DEF Inv
<1>9. Kept(Way, replayed, opened) = Range(History) \ lost
  BY DEF Inv, LogInv
<1>10. lost' \subseteq Range(History)
  BY <1>3, <1>5, <1>9 DEF Inv, Numbered, G
<1>11. lost' \subseteq Command
  <2> SUFFICES ASSUME NEW x \in Range(History) PROVE x \in Command
    BY <1>10
  <2>1. History \in Seq(Command) /\ DOMAIN History = 1 .. Len(History)
    BY Types, LenProperties DEF Inv, IInv
  <2>2. PICK i \in DOMAIN History : x = History[i]
    BY Zenon DEF Range
  <2> QED
    BY <2>1, <2>2, ElementOfSeq
<1>12. IInv'
  <2>1. TypeOK'
    BY <1>1, <1>3, <1>7, <1>8, <1>11 DEF Inv, IInv, TypeOK, runVars
  <2> QED
    BY <1>8, <2>1 DEF IInv
<1>13. LogInv'
  <2>1. Kept(Way', replayed', opened') = Range(History') \ lost'
    BY <1>3, <1>4, <1>5, <1>8, <1>9 DEF G
  <2> QED
    BY <1>5, <2>1 DEF LogInv
<1>14. Numbered'
  <2>1. next' = next
    BY <1>1
  <2>2. \A i \in DOMAIN Way' : Way'[i].cmd <= next'
    BY <1>5, <2>1 DEF Inv, Numbered
  <2> QED
    BY <1>8, <1>10, <2>1, <2>2 DEF Inv, Numbered
<1>15. OpenedTorn'
  BY <1>4, <1>6, OpenedStays DEF Inv, IInv
<1> QED
  BY <1>1, <1>3, <1>8, <1>12, <1>13, <1>14, <1>15 DEF Inv

-----------------------------------------------------------------------------
(* A crash *)

\* What has been given to write_all.
Given == IF step = "write" THEN InHand ELSE <<>>

\* The way begins with the file, the BufWriter and the buffer in hand.
LEMMA WayBegins ==
  ASSUME IInv
  PROVE  /\ file \o Whole(buf \o Given) \in Seq(LogRecord)
         /\ Len(file \o Whole(buf \o Given)) >= Len(file)
         /\ Len(file \o Whole(buf \o Given)) <= Len(Way)
         /\ \A i \in 1 .. Len(file \o Whole(buf \o Given)) :
               (file \o Whole(buf \o Given))[i] = Way[i]
<1> DEFINE g == Given
<1>1. /\ file \in Seq(LogRecord) /\ buf \in Seq(Command) /\ Behind \in Seq(Command)
      /\ Way = file \o Whole(buf \o Behind)
  BY Types, WayIs DEF IInv
<1>2. /\ g \in Seq(Command)
      /\ \E rest \in Seq(Command) : Behind = g \o rest
  <2>1. CASE step = "write"
    BY <2>1, InHandType, Handed DEF IInv, Given
  <2>2. CASE step # "write"
    BY <1>1, <2>2, Empty, WholeEmpty DEF Given
  <2> QED
    BY <2>1, <2>2
<1> HIDE DEF g
<1>3. PICK rest \in Seq(Command) : Behind = g \o rest
  BY <1>2
<1> DEFINE b == buf \o g
           all == file \o Whole(b)
           w == Whole(rest)
<1>4. b \in Seq(Command) /\ b \o rest = buf \o (g \o rest)
  <2>1. b \in Seq(Command)
    BY <1>1, <1>2, Closed
  <2>2. (buf \o g) \o rest = buf \o (g \o rest)
    BY <1>1, <1>2, Assoc, Zenon
  <2> QED
    BY <2>1, <2>2
<1> HIDE DEF b
<1>5. Whole(b) \in Seq(LogRecord) /\ w \in Seq(LogRecord)
  BY <1>4, WholeIs
<1>6. Way = file \o (Whole(b) \o w)
  BY <1>1, <1>3, <1>4, WholeConcat
<1>7. file \o (Whole(b) \o w) = all \o w
  BY <1>1, <1>5, AssocRecords
<1>8. /\ all \in Seq(LogRecord) /\ Len(all) = Len(file) + Len(Whole(b))
      /\ Len(file) \in Nat /\ Len(Whole(b)) \in Nat
  BY <1>1, <1>5, ConcatProperties, LenProperties
<1> HIDE DEF all, w
<1>9. /\ Len(Way) = Len(all) + Len(w) /\ Len(w) \in Nat /\ Len(all) \in Nat
      /\ \A i \in 1 .. Len(all) + Len(w) :
            Way[i] = IF i <= Len(all) THEN all[i] ELSE w[i - Len(all)]
  BY <1>5, <1>6, <1>7, <1>8, ConcatProperties, LenProperties
<1>10. \A i \in 1 .. Len(all) : all[i] = Way[i]
  BY <1>9
<1> QED
  BY <1>8, <1>9, <1>10 DEF all, b, g

\* What a crash leaves is a part of the way, and no shorter than what it had to
\* spare.
LEMMA SurvivorsPart ==
  ASSUME IInv, NEW kept \in 0 .. Len(file), NEW f \in Survivors(kept)
  PROVE  /\ f \in Seq(LogRecord) /\ Len(f) >= kept
         /\ \A i \in 1 .. kept : f[i] = file[i]
         /\ PartOf(f, Way)
<1> DEFINE all == file \o Whole(buf \o Given)
           part(n) == [all[n + 1] EXCEPT !.whole = FALSE]
<1>1. PICK n \in kept .. Len(all) :
         \/ f = SubSeq(all, 1, n)
         \/ /\ n # Len(all)
            /\ f = Append(SubSeq(all, 1, n), part(n))
  BY DEF Survivors, Given
<1>2. /\ all \in Seq(LogRecord) /\ Len(all) >= Len(file) /\ Len(all) <= Len(Way)
      /\ \A i \in 1 .. Len(all) : all[i] = Way[i]
  BY WayBegins
<1> HIDE DEF all
<1>3. /\ Len(file) \in Nat /\ Len(all) \in Nat /\ Len(Way) \in Nat
      /\ n \in 0 .. Len(all) /\ n \in Nat /\ n >= kept /\ n <= Len(all)
      /\ kept \in Nat /\ kept <= Len(file)
      /\ \A i \in 1 .. Len(file) : Way[i] = file[i]
      /\ file \in Seq(LogRecord)
  BY <1>2, WayIs, Types, LenProperties DEF IInv
<1> DEFINE s == SubSeq(all, 1, n)
<1>4. s \in Seq(LogRecord) /\ Len(s) = n /\ \A i \in 1 .. n : s[i] = all[i]
  BY <1>2, <1>3, FirstRecords
<1> HIDE DEF s
<1>5. \A i \in 1 .. n : s[i] = Way[i]
  BY <1>2, <1>3, <1>4
<1>6. \A i \in 1 .. kept : s[i] = file[i]
  BY <1>3, <1>5
<1>7. CASE f = s
  <2>1. \A i \in 1 .. Len(f) : f[i] = Way[i]
    BY <1>4, <1>5, <1>7
  <2>2. PartOf(f, Way)
    BY <1>2, <1>3, <1>4, <1>7, <2>1 DEF PartOf
  <2> QED
    BY <1>3, <1>4, <1>6, <1>7, <2>2
<1>8. CASE n # Len(all) /\ f = Append(s, part(n))
  <2>1. n + 1 \in 1 .. Len(all) /\ n + 1 \in Nat
    BY <1>3, <1>8
  <2>2. all[n + 1] \in LogRecord /\ all[n + 1] = Way[n + 1]
    BY <1>2, <2>1, ElementOfSeq
  <2>3. part(n) \in LogRecord /\ part(n).cmd = Way[n + 1].cmd /\ ~part(n).whole
    BY <2>2 DEF LogRecord
  <2> DEFINE p == part(n)
  <2> HIDE DEF p, part
  <2>4. p \in LogRecord /\ p.cmd = Way[n + 1].cmd /\ ~p.whole /\ f = Append(s, p)
    BY <1>8, <2>3 DEF p
  <2>5. /\ f \in Seq(LogRecord) /\ Len(f) = n + 1
        /\ f[n + 1] = p
        /\ \A i \in 1 .. n : f[i] = s[i]
    BY <1>4, <2>4, AppendProperties
  <2>6. ASSUME NEW i \in 1 .. Len(f)
        PROVE  f[i].cmd = Way[i].cmd /\ (f[i].whole => Way[i].whole)
    <3>1. i \in 1 .. n \/ i = n + 1
      BY <1>3, <2>5
    <3>2. CASE i \in 1 .. n
      BY <1>5, <2>5, <3>2
    <3>3. CASE i = n + 1
      BY <2>4, <2>5, <3>3
    <3> QED
      BY <3>1, <3>2, <3>3
  <2>7. Len(f) <= Len(Way)
    BY <1>2, <1>3, <2>1, <2>5
  <2>8. PartOf(f, Way)
    BY <2>6, <2>7 DEF PartOf
  <2>9. \A i \in 1 .. kept : f[i] = file[i]
    BY <1>3, <1>6, <2>5
  <2> QED
    BY <1>3, <2>5, <2>8, <2>9
<1> QED
  BY <1>1, <1>7, <1>8 DEF s

\* A restart makes of what the crash has left a log like the one it was.
LEMMA RestartInv ==
  ASSUME Inv, ProcessCrash \/ PowerLoss
  PROVE  /\ Inv'
         /\ file' \in Seq(LogRecord) /\ synced' \in synced .. Len(file')
         /\ \A i \in 1 .. synced : file'[i] = file[i]
         /\ PartOf(file', Way)
         /\ memory' = Readable(file') /\ History' = memory' /\ lost' = {}
<1>1. /\ Restart
      /\ file' \in Seq(LogRecord) /\ Len(file') \in Nat
      /\ synced' \in synced .. Len(file') /\ synced' \in 0 .. Len(file')
      /\ \A i \in 1 .. synced : file'[i] = file[i]
      /\ PartOf(file', Way)
  <2>1. synced \in 0 .. Len(file) /\ Len(file) \in Nat
    BY Types DEF Inv, IInv
  <2>2. CASE ProcessCrash
    <3>1. /\ file' \in Seq(LogRecord) /\ Len(file') >= Len(file)
          /\ \A i \in 1 .. Len(file) : file'[i] = file[i]
          /\ PartOf(file', Way)
      <4>1. Len(file) \in 0 .. Len(file) /\ file' \in Survivors(Len(file))
        BY <2>1, <2>2 DEF ProcessCrash
      <4> QED
        BY <4>1, SurvivorsPart DEF Inv
    <3>2. Restart /\ synced' = synced
      BY <2>2 DEF ProcessCrash
    <3>3. Len(file') \in Nat
      BY <3>1, LenProperties
    <3>4. \A i \in 1 .. synced : file'[i] = file[i]
      BY <2>1, <3>1
    <3> QED
      BY <2>1, <3>1, <3>2, <3>3, <3>4
  <2>3. CASE PowerLoss
    <3>1. /\ file' \in Seq(LogRecord) /\ Len(file') >= synced
          /\ \A i \in 1 .. synced : file'[i] = file[i]
          /\ PartOf(file', Way)
      <4>1. file' \in Survivors(synced)
        BY <2>3 DEF PowerLoss
      <4> QED
        BY <2>1, <4>1, SurvivorsPart DEF Inv
    <3>2. Restart /\ synced' = Len(file')
      BY <2>3 DEF PowerLoss
    <3>3. Len(file') \in Nat
      BY <3>1, LenProperties
    <3> QED
      BY <2>1, <3>1, <3>2, <3>3
  <2> QED
    BY <2>2, <2>3
<1>2. /\ memory' = Readable(file') /\ replayed' = Len(memory') /\ opened' = Len(file')
      /\ lost' = {} /\ pc' = "idle" /\ batch' = <<>>
      /\ asyncBuffer' = <<>> /\ fpc' = "wait" /\ local' = <<>> /\ ends' = {}
      /\ holder' = "none" /\ step' = "none" /\ buf' = <<>>
      /\ UNCHANGED <<mode, next, checkpoints, errors>> /\ crashes' = crashes + 1
  BY <1>1 DEF Restart
<1>3. /\ memory' \in Seq(Command) /\ Len(memory') \in 0 .. Len(file')
      /\ <<>> \in Seq(Command)
      /\ Len(memory') # Len(file') => ~file'[Len(memory') + 1].whole
  BY <1>1, <1>2, ReadableIs, ReadableCommands, WholeEmpty
<1>4. TypeOK'
  <2>1. replayed' \in 0 .. Len(memory') /\ opened' \in 0 .. Len(file')
    BY <1>1, <1>2, <1>3
  <2> QED
    BY <1>1, <1>2, <1>3, <2>1 DEF Inv, IInv, TypeOK
<1>5. Held' /\ LockOrder'
  BY <1>2 DEF Held, LockOrder
<1>6. Unlogged' = <<>> /\ Pending' = <<>>
  BY <1>2 DEF Unlogged, Pending
<1>7. History' = memory'
  BY <1>3, <1>6, Empty DEF History
<1>8. Way' = file'
  <2>1. (buf \o local \o asyncBuffer \o Unlogged)' = <<>>
    BY <1>2, <1>3, <1>6, Empty
  <2> QED
    BY <1>1, <2>1, WholeEmpty DEF Way
<1>9. /\ Way \in Seq(LogRecord) /\ DOMAIN Way = 1 .. Len(Way) /\ Ascends(Way)
      /\ \A i \in DOMAIN Way : Way[i].cmd <= next
      /\ Len(Way) \in Nat
  BY WayIs, LenProperties DEF Inv, IInv, LogInv, Numbered
<1> DEFINE f == file'
           w == Way
<1> HIDE DEF f, w
<1>10. /\ f \in Seq(LogRecord) /\ w \in Seq(LogRecord) /\ PartOf(f, w) /\ Ascends(w)
  BY <1>1, <1>9 DEF f, w
<1>11. /\ Ascends(f) /\ Rises(Readable(f))
       /\ Kept(f, Len(Readable(f)), Len(f)) = Range(Readable(f))
  BY <1>10, PartRises
<1>12. \A i \in DOMAIN f : f[i].cmd <= next
  <2>1. \A i \in DOMAIN f : i \in DOMAIN w /\ f[i].cmd = w[i].cmd
    <3>1. DOMAIN f = 1 .. Len(f) /\ DOMAIN w = 1 .. Len(w) /\ Len(f) \in Nat /\ Len(w) \in Nat
      BY <1>10, LenProperties
    <3> QED
      BY <1>10, <3>1 DEF PartOf
  <2> QED
    BY <1>9, <2>1 DEF w
<1>13. \A x \in Range(Readable(f)) : x <= next
  <2> SUFFICES ASSUME NEW x \in Range(Readable(f)) PROVE x <= next
    OBVIOUS
  <2>1. x \in Kept(f, Len(Readable(f)), Len(f))
    BY <1>11
  <2>2. PICK i \in DOMAIN f : x = f[i].cmd
    BY <2>1, Zenon DEF Kept
  <2> QED
    BY <1>12, <2>2
<1>14. LogInv'
  <2>1. Ascends(Way') /\ Kept(Way', replayed', opened') = Range(History')
    BY <1>2, <1>7, <1>8, <1>11 DEF f
  <2> QED
    BY <1>2, <2>1 DEF LogInv
<1>15. Numbered'
  <2>1. next' = next /\ Way' = f /\ History' = Readable(f) /\ lost' = {}
    BY <1>2, <1>7, <1>8 DEF f
  <2>2. \A i \in DOMAIN Way' : Way'[i].cmd <= next'
    BY <1>12, <2>1
  <2>3. (\A x \in Range(History') : x <= next') /\ Rises(History')
    BY <1>11, <1>13, <2>1
  <2> QED
    BY <2>1, <2>2, <2>3 DEF Numbered
<1>16. OpenedTorn'
  BY <1>2, <1>3 DEF OpenedTorn
<1> QED
  BY <1>1, <1>2, <1>4, <1>5, <1>7, <1>14, <1>15, <1>16 DEF Inv, IInv

\* Nothing has been accepted, and nothing is on the way.
LEMMA InitInv == Init => Inv
<1> SUFFICES ASSUME Init PROVE Inv
  OBVIOUS
<1>1. <<>> \in Seq(Command) /\ Len(<<>>) = 0
  BY EmptySeq
<1>2. TypeOK
  BY EmptySeq DEF Init, TypeOK
<1>3. Held /\ LockOrder
  BY DEF Init, Held, LockOrder
<1>4. History = <<>>
  BY <1>1, Empty DEF Init, History, Pending
<1>5. Way = <<>>
  <2>1. buf \o local \o asyncBuffer \o Unlogged = <<>>
    BY <1>1, Empty DEF Init, Unlogged
  <2> QED
    BY <2>1, WholeEmpty DEF Way, Init
<1>6. Ascends(Way) /\ Rises(History) /\ Range(History) = {}
  BY <1>4, <1>5 DEF Ascends, Rises, Range
<1>7. Kept(Way, replayed, opened) = {}
  BY <1>5 DEF Kept
<1>8. LogInv
  BY <1>6, <1>7 DEF LogInv
<1>9. Numbered
  BY <1>5, <1>6 DEF Numbered, Init
<1>10. OpenedTorn
  BY DEF Init, OpenedTorn
<1> QED
  BY <1>2, <1>3, <1>8, <1>9, <1>10 DEF Inv, IInv

\* Every step keeps to it.
LEMMA NextInv == Inv /\ [Next]_vars => Inv'
<1> SUFFICES ASSUME Inv, [Next]_vars PROVE Inv'
  OBVIOUS
<1>1. CASE QuietNext
  BY <1>1, QuietInv
<1>2. CASE Receive
  BY <1>2, ReceiveInv
<1>3. CASE WriteFails
  BY <1>3, WriteFailsInv
<1>4. CASE ProcessCrash \/ PowerLoss
  BY <1>4, RestartInv
<1> QED
  BY <1>1, <1>2, <1>3, <1>4 DEF Next, WriterNext, QuietNext

\* The variables keep their types.
THEOREM TypeCorrect == Spec => []TypeOK
<1>1. Inv => TypeOK
  BY DEF Inv, IInv
<1> QED
  BY InitInv, NextInv, <1>1, PTL DEF Spec

\* In any mode, and whatever write, sync or process fails, no command is
\* overtaken or repeated on the way from the queue to the file, and none that is
\* applied or about to be is missing from it but those whose buffer a write_all has
\* failed to write; the step from the queue, each way write_all can go, and the
\* restart are the cases (io/wal.rs, append_batch and the flusher).
THEOREM LogKeepsHistory == Spec => []LogIsHistory
<1>1. Inv => LogIsHistory
  BY SaysHistory DEF Inv
<1> QED
  BY InitInv, NextInv, <1>1, PTL DEF Spec

-----------------------------------------------------------------------------
\* What the synchronous modes add while nothing fails: only the partition thread
\* writes, it has the lock until its batch is synced, and a checkpoint finds
\* nothing to write.
SyncOrder ==
    mode = "sync" /\ errors = 0 =>
       /\ fpc = "wait" /\ holder # "flusher" /\ lost = {}
       /\ holder = "partition" /\ step # "write" => pc = "logged"
       /\ buf # <<>> => holder = "partition" /\ step = "flush"
       /\ holder = "none" => step = "none"
       /\ holder # "partition" /\ (pc = "logged" \/ Len(memory) > replayed)
             => synced = Len(file)

\* Every step keeps to it.
LEMMA SyncOrderStep ==
  ASSUME Inv, SyncOrder, [Next]_vars
  PROVE  SyncOrder'
<1> SUFFICES ASSUME mode' = "sync", errors' = 0
             PROVE  SyncOrder'
  BY DEF SyncOrder
<1>0. /\ errors \in Nat
      /\ file \in Seq(LogRecord)
  BY DEF Inv, IInv, TypeOK
<1>1. CASE Flush
  <2>1. mode = "sync" /\ errors = 0
    BY <1>1 DEF Flush, runVars, boundVars
  <2>2. /\ buf' = <<>> /\ step = "flush" /\ step' = "sync"
        /\ UNCHANGED <<fpc, pc, holder, memory, replayed, synced, lost>>
    BY <1>1 DEF Flush, AfterFlush, runVars, threadVars, flusherVars
  <2>3. ASSUME holder # "partition" PROVE file' = file
    <3>1. buf = <<>>
      BY <2>1, <2>3 DEF SyncOrder
    <3> QED
      BY <1>0, <1>1, <3>1, WholeEmpty DEF Flush
  <2>4. holder # "none"
    BY <2>1, <2>2 DEF SyncOrder
  <2> QED
    BY <2>1, <2>2, <2>3, <2>4 DEF SyncOrder
<1>2. CASE Sync
  BY <1>2 DEF Sync, SyncReaches, Release, SyncOrder, runVars, threadVars, flusherVars,
     boundVars
<1>3. CASE WriteFails \/ FlushFails \/ SyncFails
  <2>1. errors' = errors + 1
    BY <1>3, Zenon DEF WriteFails, FlushFails, SyncFails
  <2> QED
    BY <1>0, <2>1
<1>4. CASE Write
  <2>1. /\ mode = "sync" /\ errors = 0 /\ step = "write" /\ WriteReturns(TRUE)
        /\ UNCHANGED <<runVars, memory, synced, lost>>
    BY <1>4 DEF Write, runVars, boundVars
  <2>2. holder = "partition"
    BY <2>1 DEF SyncOrder, Inv, IInv, LockOrder
  <2>3. pc' = "logged" /\ holder' = holder /\ step' = "flush" /\ fpc' = fpc
    BY <2>1, <2>2 DEF WriteReturns, AfterWrite
  <2> QED
    BY <2>1, <2>2, <2>3 DEF SyncOrder, runVars
<1>5. CASE Receive
  BY <1>5 DEF Receive, SyncOrder, runVars, flusherVars, lockVars, writerVars
<1>6. CASE AppendSync
  BY <1>6 DEF AppendSync, Lock, SyncOrder, runVars, threadVars, flusherVars, writerVars,
     boundVars
<1>7. CASE Apply
  BY <1>7 DEF Apply, SyncOrder, runVars, flusherVars, lockVars, writerVars, boundVars
<1>8. CASE AppendAsync \/ FlusherNext
  BY <1>8 DEF AppendAsync, FlusherNext, Take, TakeMore, NoSleep, FlusherWrite, SyncOrder,
     runVars, boundVars
<1>9. CASE Checkpoint
  BY <1>9 DEF Checkpoint, CheckpointStep, Lock, SyncOrder, runVars, threadVars,
     flusherVars, writerVars
<1>10. CASE ProcessCrash \/ PowerLoss
  <2>1. Inv' /\ replayed' = Len(memory')
    BY <1>10, RestartInv DEF ProcessCrash, PowerLoss, Restart
  <2>2. ~ (Len(memory') > replayed')
    BY <2>1, LenProperties DEF Inv, IInv, TypeOK
  <2> QED
    BY <1>10, <2>2 DEF ProcessCrash, PowerLoss, Restart, SyncOrder
<1>11. CASE UNCHANGED vars
  BY <1>11 DEF vars, SyncOrder, runVars, threadVars, flusherVars, lockVars, writerVars,
     boundVars
<1> QED
  BY <1>1, <1>2, <1>3, <1>4, <1>5, <1>6, <1>7, <1>8, <1>9, <1>10, <1>11 DEF Next,
     WriterNext, ThreadNext

\* When all that has been applied is in the file and none of it is cut short, a
\* replay finds what memory holds.
LEMMA ReplayIsMemory ==
  ASSUME Inv, Way = file, Pending = <<>>, lost = {}, Torn(file) = {}
  PROVE  Readable(file) = memory
<1> DEFINE p == Readable(file)
<1>1. /\ file \in Seq(LogRecord) /\ memory \in Seq(Command) /\ History = memory
      /\ replayed \in Nat /\ opened \in 0 .. Len(file) /\ Len(file) \in Nat
      /\ DOMAIN file = 1 .. Len(file)
  BY Types, Empty, LenProperties DEF Inv, IInv, History
<1>2. /\ p \in Seq(Command) /\ Len(p) = Len(file) /\ DOMAIN p = DOMAIN file
      /\ \A i \in DOMAIN file : p[i] = file[i].cmd /\ file[i].whole
  <2>1. p \in Seq(Command) /\ Len(p) = Len(file)
    BY <1>1, ReadableCommands
  <2>2. \A i \in 1 .. Len(p) : p[i] = file[i].cmd /\ file[i].whole
    BY <1>1, ReadableIs
  <2> QED
    BY <1>1, <2>1, <2>2, LenProperties
<1>3. opened <= replayed
  <2> SUFFICES ASSUME replayed < opened PROVE FALSE
    BY <1>1
  <2>1. replayed + 1 \in DOMAIN file
    BY <1>1
  <2> QED
    BY <1>2, <2>1 DEF Inv, OpenedTorn
<1> HIDE DEF p
<1>4. Rises(p)
  <2>1. Ascends(file)
    BY DEF Inv, LogInv
  <2> QED
    BY <1>2, <2>1, Zenon DEF Ascends, Rises
<1>5. Range(p) = Kept(file, replayed, opened)
  <2>1. {k \in DOMAIN file : file[k].whole /\ (k <= replayed \/ k > opened)} = DOMAIN file
    BY <1>1, <1>2, <1>3
  <2>2. Kept(file, replayed, opened) = {file[i].cmd : i \in DOMAIN file}
    BY <2>1 DEF Kept
  <2> QED
    BY <1>2, <2>2 DEF Range
<1>6. Range(p) = Range(memory) /\ Rises(memory)
  BY <1>1, <1>5 DEF Inv, LogInv, Numbered
<1> QED
  BY <1>1, <1>2, <1>4, <1>6, SameRange DEF p

\* In Sync and Strict, as long as nothing fails and no part of a record is in the
\* file, what has been applied can be replayed from what has been synced.
THEOREM StrictIsDurable == Spec => []StrictDurable
<1> DEFINE I == Inv /\ SyncOrder
<1>1. Init => I
  BY InitInv DEF Init, SyncOrder
<1>2. I /\ [Next]_vars => I'
  BY NextInv, SyncOrderStep
<1>3. I => StrictDurable
  <2> SUFFICES ASSUME I, Strict, Torn(file) = {}
               PROVE  Durable = memory
    BY DEF StrictDurable
  <2>1. holder # "partition"
    BY DEF Strict, SyncOrder, Inv, IInv, LockOrder
  <2>2. /\ synced = Len(file) /\ buf = <<>> /\ local = <<>> /\ asyncBuffer = <<>>
        /\ lost = {} /\ Unlogged = <<>> /\ Pending = <<>>
    BY <2>1 DEF Strict, SyncOrder, Inv, IInv, Held, Unlogged, Pending
  <2>3. SubSeq(file, 1, Len(file)) = file /\ file \in Seq(LogRecord)
    BY SubSeqFull DEF Inv, IInv, TypeOK
  <2>4. Way = file
    <3>1. buf \o local \o asyncBuffer \o Unlogged = <<>>
      BY <2>2, WholeEmpty, Empty
    <3> QED
      BY <2>3, <3>1, WholeEmpty DEF Way
  <2> QED
    BY <2>2, <2>3, <2>4, ReplayIsMemory DEF Durable
<1> QED
  BY <1>1, <1>2, <1>3, PTL DEF Spec

-----------------------------------------------------------------------------
(* The log implements CommandLog *)

\* Every step but one that is quiet, a batch, a failed write or a crash is none.
LEMMA Steps ==
  ASSUME [Next]_vars
  PROVE  QuietNext \/ Receive \/ WriteFails \/ ProcessCrash \/ PowerLoss
BY DEF Next, WriterNext, QuietNext

\* What is synced stays in the file.
LEMMA SyncedStays ==
  ASSUME Inv, [Next]_vars
  PROVE  /\ synced <= synced' /\ synced' \in 0 .. Len(file')
         /\ file \in Seq(LogRecord) /\ file' \in Seq(LogRecord)
         /\ synced \in 0 .. Len(file) /\ Len(file) \in Nat /\ Len(file') \in Nat
         /\ \A i \in 1 .. synced : file'[i] = file[i]
         /\ Receive \/ WriteFails => synced' = synced
<1>1. Inv'
  BY NextInv
<1>2. /\ file \in Seq(LogRecord) /\ file' \in Seq(LogRecord)
      /\ synced \in 0 .. Len(file) /\ Len(file) \in Nat
      /\ synced' \in 0 .. Len(file') /\ Len(file') \in Nat
  <2>1. file' \in Seq(LogRecord) /\ synced' \in 0 .. Len(file')
    BY <1>1 DEF Inv, IInv, TypeOK
  <2> QED
    BY <2>1, Types, LenProperties DEF Inv, IInv
<1>3. CASE QuietNext \/ Receive \/ WriteFails
  <2>1. \E part \in Seq(LogRecord) : file' = file \o part
    <3>1. CASE QuietNext
      BY <3>1, Quiet DEF Inv
    <3>2. CASE Receive
      BY <1>2, <3>2, WholeEmpty DEF Receive, writerVars
    <3>3. CASE WriteFails
      BY <3>3, WriteFailsInv
    <3> QED
      BY <1>3, <3>1, <3>2, <3>3
  <2>2. \A i \in 1 .. Len(file) : file'[i] = file[i]
    BY <2>1, Grown DEF Inv, IInv
  <2>3. synced' = synced \/ (Sync /\ synced' = Len(file))
    <3>1. CASE Write \/ Flush \/ FlushFails \/ Sync \/ SyncFails \/ WriteFails
      BY <3>1 DEF Write, WriteFails, Flush, FlushFails, Sync, SyncFails, SyncReaches,
         writerVars
    <3>2. CASE ThreadNext \/ Receive \/ Checkpoint
      BY <3>2 DEF ThreadNext, AppendAsync, AppendSync, Apply, Receive, Checkpoint, writerVars
    <3>3. CASE FlusherNext
      BY <3>3 DEF FlusherNext, Take, TakeMore, NoSleep, FlusherWrite, writerVars
    <3>4. CASE UNCHANGED vars
      BY <3>4 DEF vars, writerVars
    <3> QED
      BY <1>3, <3>1, <3>2, <3>3, <3>4 DEF QuietNext
  <2>4. Receive \/ WriteFails => synced' = synced
    BY DEF Receive, WriteFails, writerVars
  <2>5. synced <= synced' /\ \A i \in 1 .. synced : file'[i] = file[i]
    BY <1>2, <2>2, <2>3
  <2> QED
    BY <1>2, <2>4, <2>5
<1>4. CASE ProcessCrash \/ PowerLoss
  <2>1. synced' \in synced .. Len(file') /\ \A i \in 1 .. synced : file'[i] = file[i]
    BY <1>4, RestartInv
  <2>2. ~ (Receive \/ WriteFails)
    <3>1. crashes \in Nat /\ crashes' = crashes + 1
      BY <1>4 DEF ProcessCrash, PowerLoss, Restart, Inv, IInv, TypeOK
    <3>2. Receive => crashes' = crashes
      BY DEF Receive
    <3>3. WriteFails => crashes' = crashes
      BY DEF WriteFails
    <3> QED
      BY <3>1, <3>2, <3>3
  <2> QED
    BY <1>2, <2>1, <2>2
<1> QED
  BY <1>3, <1>4, Steps

\* What one replay applies is in the longer one.
LEMMA BeginsRange ==
  ASSUME NEW s \in Seq(Command), NEW t \in Seq(Command), Begins(s, t)
  PROVE  Range(s) \subseteq Range(t)
<1>1. /\ DOMAIN s = 1 .. Len(s) /\ DOMAIN t = 1 .. Len(t) /\ Len(s) \in Nat /\ Len(t) \in Nat
  BY LenProperties
<1>2. \A i \in DOMAIN s : i \in DOMAIN t /\ s[i] = t[i]
  BY <1>1 DEF Begins
<1> QED
  BY <1>2 DEF Range

\* So a replay after a loss of power finds it again, and finds what it did as long
\* as nothing more is synced.
LEMMA DurableSteps ==
  ASSUME Inv, [Next]_vars
  PROVE  /\ Range(Durable) \subseteq Range(Durable')
         /\ Receive \/ WriteFails => Durable' = Durable
<1> DEFINE s == SubSeq(file, 1, synced)
           t == SubSeq(file', 1, synced')
<1>1. /\ synced <= synced' /\ synced' \in 0 .. Len(file')
      /\ file \in Seq(LogRecord) /\ file' \in Seq(LogRecord)
      /\ synced \in 0 .. Len(file) /\ Len(file) \in Nat /\ Len(file') \in Nat
      /\ \A i \in 1 .. synced : file'[i] = file[i]
      /\ Receive \/ WriteFails => synced' = synced
  BY SyncedStays
<1>2. s \in Seq(LogRecord) /\ Len(s) = synced /\ \A i \in 1 .. synced : s[i] = file[i]
  BY <1>1, FirstRecords
<1>3. /\ t \in Seq(LogRecord) /\ Len(t) = synced'
      /\ \A i \in 1 .. synced' : t[i] = file'[i]
  BY <1>1, FirstRecords
<1>4. Durable = Readable(s) /\ Durable' = Readable(t)
  BY DEF Durable
<1> HIDE DEF s, t
<1>5. \A i \in 1 .. synced : s[i] = t[i]
  BY <1>1, <1>2, <1>3
<1>6. Begins(Readable(s), Readable(t))
  BY <1>1, <1>2, <1>3, <1>5, ReadableBegins
<1>7. Range(Readable(s)) \subseteq Range(Readable(t))
  BY <1>2, <1>3, <1>6, ReadableCommands, BeginsRange
<1>8. synced' = synced => s = t
  BY <1>2, <1>3, <1>5, SeqEqual
<1> QED
  BY <1>1, <1>4, <1>7, <1>8

\* What is durable is a first part of what has been accepted and not lost.
SafeFirst == Log!FirstPart(Range(Durable), Range(History) \ lost)

\* So it is: the file is what the way begins with.
LEMMA DurableFirst == Inv => SafeFirst
<1> SUFFICES ASSUME Inv PROVE SafeFirst
  OBVIOUS
<1> DEFINE f == SubSeq(file, 1, synced)
           w == Way
<1>1. /\ file \in Seq(LogRecord) /\ Len(file) \in Nat /\ synced \in 0 .. Len(file)
      /\ opened \in 0 .. Len(file) /\ replayed \in Nat /\ opened \in Nat
      /\ w \in Seq(LogRecord) /\ Len(w) \in Nat /\ Len(file) <= Len(w)
      /\ \A i \in 1 .. Len(file) : w[i] = file[i]
  <2>1. Len(w) = Len(file) + Len(buf \o Behind) /\ Len(buf \o Behind) \in Nat
    BY WayIs, Types, LenProperties DEF Inv, IInv
  <2> QED
    BY <2>1, WayIs, Types DEF Inv, IInv
<1>2. f \in Seq(LogRecord) /\ Len(f) = synced /\ \A i \in 1 .. synced : f[i] = file[i]
  BY <1>1, FirstRecords
<1>3. Ascends(w) /\ Kept(w, replayed, opened) = Range(History) \ lost
  BY DEF Inv, LogInv
<1>4. Durable = Readable(f)
  BY DEF Durable
<1> HIDE DEF f, w
<1>5. PartOf(f, w)
  <2>1. \A i \in 1 .. Len(f) : f[i] = w[i]
    BY <1>1, <1>2
  <2> QED
    BY <1>1, <1>2, <2>1 DEF PartOf
<1>6. replayed < opened => ~(replayed + 1 \in 1 .. Len(w) /\ w[replayed + 1].whole)
  <2> SUFFICES ASSUME replayed < opened PROVE ~w[replayed + 1].whole
    OBVIOUS
  <2>1. replayed + 1 \in 1 .. Len(file)
    BY <1>1
  <2> QED
    BY <1>1, <2>1 DEF Inv, OpenedTorn
<1>7. Log!FirstPart(Range(Readable(f)), Kept(w, replayed, opened))
  BY <1>1, <1>2, <1>3, <1>5, <1>6, ReadableFirst
<1> QED
  BY <1>3, <1>4, <1>7 DEF SafeFirst

\* A batch is accepted behind what has been accepted.
LEMMA ReceiveAccepts ==
  ASSUME Inv, Receive
  PROVE  Log!Accept
<1>1. /\ batch' \in Seq(Command) /\ batch' # <<>>
      /\ \A x \in Range(batch') : x > next
      /\ Range(History') = Range(History) \cup Range(batch')
  BY ReceiveInv
<1>2. lost' = lost /\ Durable' = Durable
  BY DurableSteps DEF Receive, writerVars, Next
<1>3. next \in Nat /\ History \in Seq(Command)
  BY Types DEF Inv, IInv
<1>4. \A x \in Range(History) : x \in Nat /\ x <= next
  <2> SUFFICES ASSUME NEW x \in Range(History) PROVE x \in Nat
    BY DEF Inv, Numbered
  <2>1. PICK i \in DOMAIN History : x = History[i]
    BY Zenon DEF Range
  <2>2. i \in 1 .. Len(History)
    BY <1>3, <2>1, LenProperties
  <2> QED
    BY <1>3, <2>1, <2>2, ElementOfSeq DEF Command
<1>5. \A x \in Range(batch') : x \in Nat
  <2> SUFFICES ASSUME NEW x \in Range(batch') PROVE x \in Nat
    OBVIOUS
  <2>1. PICK i \in DOMAIN batch' : x = batch'[i]
    BY Zenon DEF Range
  <2>2. i \in 1 .. Len(batch')
    BY <1>1, <2>1, LenProperties
  <2> QED
    BY <1>1, <2>1, <2>2, ElementOfSeq DEF Command
<1> DEFINE A == Range(History)
           B == Range(batch')
<1>6. B # {}
  <2>1. 1 \in DOMAIN batch'
    BY <1>1, EmptySeq, LenProperties
  <2> QED
    BY <2>1, Zenon DEF Range
<1>7. /\ \A x \in A : x \in Nat /\ x <= next
      /\ \A x \in B : x \in Nat /\ x > next
  BY <1>1, <1>4, <1>5
<1> HIDE DEF A, B
<1>8. A \cup B # A /\ Log!FirstPart(A, A \cup B)
  BY <1>3, <1>6, <1>7 DEF Log!FirstPart
<1>9. Range(memory \o Pending) = A /\ Range(memory \o Pending)' = A \cup B
  BY <1>1 DEF A, B, History
<1>10. Range(Durable)' = Range(Durable)
  BY <1>2
<1> QED
  BY <1>2, <1>8, <1>9, <1>10 DEF Log!Accept

\* Every step is one of CommandLog, or none.
LEMMA StepRefines ==
  ASSUME Inv, SafeFirst, Inv', SafeFirst', [Next]_vars
  PROVE  [Log!Next]_<<Range(memory \o Pending), lost, Range(Durable)>>
<1>1. /\ Range(Durable) \subseteq Range(Durable')
      /\ Receive \/ WriteFails => Durable' = Durable
  BY DurableSteps
<1>2. CASE QuietNext
  <2>1. History' = History /\ lost' = lost
    BY <1>2, Quiet DEF Inv, Still
  <2>2. Log!FirstPart(Range(Durable'), Range(History) \ lost)
    BY <2>1 DEF SafeFirst
  <2>3. Log!Secure
    BY <1>1, <2>1, <2>2 DEF Log!Secure, History
  <2> QED
    BY <2>3 DEF Log!Next
<1>3. CASE Receive
  <2>1. Log!Accept
    BY <1>3, ReceiveAccepts
  <2> QED
    BY <2>1 DEF Log!Next
<1>4. CASE WriteFails
  <2>1. History' = History /\ lost \subseteq lost' /\ Durable' = Durable
    BY <1>1, <1>4, WriteFailsInv
  <2>2. lost' \subseteq Range(History')
    BY DEF Inv, Numbered
  <2>3. Range(Durable') \subseteq Range(History') \ lost'
    BY DEF SafeFirst, Log!FirstPart
  <2>4. lost' \subseteq Range(History) \ Range(Durable)
    BY <2>1, <2>2, <2>3
  <2>5. Log!Fail
    BY <2>1, <2>4 DEF Log!Fail, History
  <2> QED
    BY <2>5 DEF Log!Next
<1>5. CASE ProcessCrash \/ PowerLoss
  <2> DEFINE f == file'
             w == Way
  <2>1. /\ f \in Seq(LogRecord) /\ PartOf(f, w)
        /\ History' = Readable(f) /\ lost' = {}
    BY <1>5, RestartInv
  <2>2. /\ file \in Seq(LogRecord) /\ Len(file) \in Nat /\ opened \in 0 .. Len(file)
        /\ replayed \in Nat /\ opened \in Nat /\ w \in Seq(LogRecord)
        /\ \A i \in 1 .. Len(file) : w[i] = file[i]
    BY WayIs, Types DEF Inv, IInv
  <2>3. Ascends(w) /\ Kept(w, replayed, opened) = Range(History) \ lost
    BY DEF Inv, LogInv
  <2> HIDE DEF f, w
  <2>4. replayed < opened => ~(replayed + 1 \in 1 .. Len(w) /\ w[replayed + 1].whole)
    <3> SUFFICES ASSUME replayed < opened PROVE ~w[replayed + 1].whole
      OBVIOUS
    <3>1. replayed + 1 \in 1 .. Len(file)
      BY <2>2
    <3> QED
      BY <2>2, <3>1 DEF Inv, OpenedTorn
  <2>5. Log!FirstPart(Range(Readable(f)), Kept(w, replayed, opened))
    BY <2>1, <2>2, <2>3, <2>4, ReadableFirst
  <2>6. Log!FirstPart(Range(History'), Range(History) \ lost)
    BY <2>1, <2>3, <2>5
  <2>7. Range(Durable') \subseteq Range(History')
    BY DEF SafeFirst, Log!FirstPart
  <2>8. Log!Crash
    BY <1>1, <2>1, <2>6, <2>7 DEF Log!Crash, History
  <2> QED
    BY <2>8 DEF Log!Next
<1> QED
  BY <1>2, <1>3, <1>4, <1>5, Steps

\* The log keeps the promise of CommandLog, in either mode, with parts of records
\* in the file and whatever fails: but for what it had no room for, in the
\* BufWriter or in the file, a restart finds what was accepted, in order, from the
\* first command on, and no less of it than was synced (io/wal.rs, replay_wal and
\* append_batch).
THEOREM LogKeepsPromise == Spec => Promise
<1>1. Init => Log!Init
  <2> SUFFICES ASSUME Init PROVE Log!Init
    OBVIOUS
  <2>1. memory = <<>> /\ Pending = <<>> /\ file = <<>> /\ synced = 0 /\ lost = {}
    BY DEF Init, Pending
  <2>2. memory \o Pending = <<>> /\ SubSeq(file, 1, synced) = <<>>
    BY <2>1
  <2>3. Readable(<<>>) = <<>>
    <3>1. Len(Readable(<<>>)) \in 0 .. 0 /\ Readable(<<>>) \in Seq(Command)
      BY WholeEmpty, EmptySeq, ReadableIs, ReadableCommands
    <3> QED
      BY <3>1, EmptySeq
  <2>4. Range(<<>>) = {}
    BY DEF Range
  <2> QED
    BY <2>1, <2>2, <2>3, <2>4 DEF Log!Init, Durable
<1>2. Inv /\ SafeFirst /\ Inv' /\ SafeFirst' /\ [Next]_vars
         => [Log!Next]_<<Range(memory \o Pending), lost, Range(Durable)>>
  BY StepRefines
<1> QED
  BY InitInv, NextInv, DurableFirst, <1>1, <1>2, PTL DEF Spec, Promise, Log!Spec

-----------------------------------------------------------------------------
\* A checkpoint that comes to its sync has flushed all there was.
Flushed == holder = "checkpoint" /\ step = "sync" => buf = <<>>

\* Nobody else writes while it holds the lock.
LEMMA FlushedStep ==
  ASSUME Inv, Flushed, [Next]_vars
  PROVE  Flushed'
<1> USE DEF Flushed
<1>1. CASE Write \/ WriteFails
  <2>1. holder # "checkpoint" /\ \E ok \in BOOLEAN : WriteReturns(ok)
    BY <1>1 DEF Write, WriteFails, WriteReturns
  <2> QED
    BY <2>1 DEF WriteReturns, Release
<1>2. CASE Flush \/ FlushFails \/ Sync \/ SyncFails
  BY <1>2 DEF Flush, FlushFails, Sync, SyncFails, AfterFlush, Release
<1>3. CASE ThreadNext \/ Receive \/ Checkpoint
  BY <1>3 DEF ThreadNext, AppendAsync, AppendSync, Apply, Receive, Checkpoint, Lock,
     CheckpointStep, lockVars, writerVars
<1>4. CASE FlusherNext
  BY <1>4 DEF FlusherNext, Take, TakeMore, NoSleep, FlusherWrite, Lock, lockVars,
     writerVars
<1>5. CASE ProcessCrash \/ PowerLoss
  BY <1>5 DEF ProcessCrash, PowerLoss, Restart
<1>6. CASE UNCHANGED vars
  BY <1>6 DEF vars, lockVars, writerVars
<1> QED
  BY <1>1, <1>2, <1>3, <1>4, <1>5, <1>6 DEF Next, WriterNext

\* A command that is applied is not in a batch still to be logged.
LEMMA NotUnlogged ==
  ASSUME Inv, NEW x \in Range(memory), x \in Range(Unlogged)
  PROVE  FALSE
<1>1. /\ memory \in Seq(Command) /\ batch \in Seq(Command)
      /\ DOMAIN memory = 1 .. Len(memory) /\ Len(memory) \in Nat
      /\ DOMAIN batch = 1 .. Len(batch) /\ Len(batch) \in Nat
  BY Types, LenProperties DEF Inv, IInv
<1>2. pc = "log"
  <2> SUFFICES ASSUME pc # "log" PROVE FALSE
    OBVIOUS
  <2>1. Unlogged = <<>>
    BY DEF Unlogged
  <2> QED
    BY <2>1 DEF Range
<1>3. History = memory \o batch /\ Unlogged = batch
  BY <1>2 DEF History, Pending, Unlogged
<1>4. PICK k \in DOMAIN memory : x = memory[k]
  BY Zenon DEF Range
<1>5. PICK l \in DOMAIN batch : x = batch[l]
  BY <1>3, Zenon DEF Range
<1>6. /\ History \in Seq(Command) /\ Len(History) = Len(memory) + Len(batch)
      /\ \A i \in 1 .. Len(memory) + Len(batch) :
            History[i] = IF i <= Len(memory) THEN memory[i] ELSE batch[i - Len(memory)]
  BY <1>1, <1>3, ConcatProperties
<1> DEFINE m == Len(memory) + l
<1>7. /\ k \in DOMAIN History /\ m \in DOMAIN History /\ k < m
      /\ History[k] = x /\ History[m] = x
  <2>1. /\ k \in 1 .. Len(memory) + Len(batch) /\ k <= Len(memory)
        /\ m \in 1 .. Len(memory) + Len(batch) /\ ~ (m <= Len(memory))
        /\ m - Len(memory) = l /\ k < m
    BY <1>1
  <2>2. DOMAIN History = 1 .. Len(memory) + Len(batch)
    BY <1>6, LenProperties
  <2> HIDE DEF m
  <2> QED
    BY <1>4, <1>5, <1>6, <2>1, <2>2
<1> HIDE DEF m
<1>8. x < x
  BY <1>7 DEF Inv, Numbered, Rises
<1>9. x \in Nat
  <2>1. memory[k] \in Command
    BY <1>1, <1>4, ElementOfSeq
  <2> QED
    BY <1>4, <2>1 DEF Command
<1> QED
  BY <1>8, <1>9

\* What has been applied is in the file or on its way there, or is lost.
LEMMA AppliedWritten ==
  ASSUME Inv, buf = <<>>, Torn(file) = {}
  PROVE  Range(memory) \subseteq
             Range(Readable(file)) \cup Range(local \o asyncBuffer) \cup lost
<1> DEFINE R == Readable(file)
           la == local \o asyncBuffer
<1>1. /\ file \in Seq(LogRecord) /\ Len(file) \in Nat
      /\ memory \in Seq(Command) /\ Pending \in Seq(Command)
      /\ la \in Seq(Command) /\ Unlogged \in Seq(Command) /\ Behind \in Seq(Command)
      /\ Behind = la \o Unlogged
  BY Types DEF Inv, IInv, Behind
<1>2. /\ R \in Seq(Command) /\ Len(R) = Len(file) /\ DOMAIN R = 1 .. Len(file)
      /\ \A i \in 1 .. Len(file) : R[i] = file[i].cmd
  <2>1. R \in Seq(Command) /\ Len(R) = Len(file)
    BY <1>1, ReadableCommands
  <2>2. \A i \in 1 .. Len(R) : R[i] = file[i].cmd
    BY <1>1, ReadableIs
  <2> QED
    BY <2>1, <2>2, LenProperties
<1>3. Range(History) = Range(memory) \cup Range(Pending)
  BY <1>1, RangeConcat DEF History
<1>4. Range(Behind) = Range(la) \cup Range(Unlogged)
  BY <1>1, RangeConcat
<1>5. buf \o Behind = Behind
  BY <1>1, Empty
<1>6. /\ DOMAIN Way = 1 .. Len(Way) /\ Len(Way) = Len(file) + Len(Behind)
      /\ DOMAIN Behind = 1 .. Len(Behind) /\ Len(Behind) \in Nat
      /\ \A i \in 1 .. Len(file) : Way[i] = file[i]
      /\ \A i \in 1 .. Len(Behind) : Way[Len(file) + i].cmd = Behind[i]
  BY <1>1, <1>5, WayIs, LenProperties DEF Inv, IInv
<1> HIDE DEF R, la
<1> SUFFICES ASSUME NEW x \in Range(memory), x \notin lost
             PROVE  x \in Range(R) \cup Range(la)
  BY DEF R, la
<1>7. x \in Kept(Way, replayed, opened)
  BY <1>3 DEF Inv, LogInv
<1>8. PICK i \in DOMAIN Way : x = Way[i].cmd
  BY <1>7, Zenon DEF Kept
<1>9. CASE i <= Len(file)
  <2>1. i \in DOMAIN R /\ x = R[i]
    BY <1>1, <1>2, <1>6, <1>8, <1>9
  <2> QED
    BY <2>1 DEF Range
<1>10. CASE ~ (i <= Len(file))
  <2> DEFINE j == i - Len(file)
  <2>1. j \in 1 .. Len(Behind) /\ Len(file) + j = i
    BY <1>1, <1>6, <1>10
  <2> HIDE DEF j
  <2>2. j \in DOMAIN Behind /\ x = Behind[j]
    BY <1>6, <1>8, <2>1
  <2>3. x \in Range(la) \cup Range(Unlogged)
    BY <1>4, <2>2 DEF Range
  <2> QED
    BY <2>3, NotUnlogged
<1> QED
  BY <1>9, <1>10

\* When checkpoint returns Ok, whatever failed before it, all that was applied is
\* durable, except what async_buffer and the flusher hold and what a write_all has
\* failed to write, whose error engine/partition.rs, run, ignores.
THEOREM CheckpointsCover == Spec => CheckpointCovers
<1> DEFINE Returns == /\ holder = "checkpoint" /\ holder' = "none" /\ errors' = errors
                      /\ crashes' = crashes /\ Torn(file) = {}
           Covered == Range(memory) \subseteq
                         Range(Durable') \cup Range(local \o asyncBuffer) \cup lost
<1>1. Init => Flushed
  BY DEF Init, Flushed
<1>2. Inv /\ Flushed /\ [Next]_vars => Flushed'
  BY FlushedStep
<1>3. ASSUME Inv, Flushed, Next, Returns
      PROVE  Covered
  <2>1. errors \in Nat /\ crashes \in Nat
    BY <1>3 DEF Inv, IInv, TypeOK
  <2>2. Sync
    <3>1. ~ (WriteFails \/ FlushFails \/ SyncFails)
      <4>1. WriteFails \/ FlushFails \/ SyncFails => errors' = errors + 1
        BY Zenon DEF WriteFails, FlushFails, SyncFails
      <4> QED
        BY <1>3, <2>1, <4>1
    <3>2. ~ (ProcessCrash \/ PowerLoss)
      BY <1>3, <2>1 DEF ProcessCrash, PowerLoss, Restart
    <3>3. ~ Write
      BY <1>3 DEF Write, WriteReturns
    <3>4. ~ (Flush \/ Receive \/ ThreadNext \/ FlusherNext \/ Checkpoint)
      BY <1>3 DEF Flush, AfterFlush, Receive, ThreadNext, AppendAsync, AppendSync, Apply,
         FlusherNext, Take, TakeMore, NoSleep, FlusherWrite, Checkpoint, Lock, lockVars
    <3> QED
      BY <1>3, <3>1, <3>2, <3>3, <3>4 DEF Next, WriterNext
  <2>3. synced' = Len(file) /\ file' = file /\ buf = <<>>
    BY <1>3, <2>2 DEF Sync, SyncReaches, Flushed
  <2>4. SubSeq(file, 1, Len(file)) = file
    BY <1>3, SubSeqFull DEF Inv, IInv, TypeOK
  <2>5. Durable' = Readable(file)
    BY <2>3, <2>4 DEF Durable
  <2> QED
    BY <1>3, <2>3, <2>5, AppliedWritten
<1>4. Inv /\ Flushed /\ [Next]_vars => [Returns => Covered]_vars
  BY <1>3
<1> QED
  BY InitInv, NextInv, <1>1, <1>2, <1>4, PTL DEF Spec, CheckpointCovers
=============================================================================
