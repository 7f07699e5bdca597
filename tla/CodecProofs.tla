----------------------------- MODULE CodecProofs -----------------------------
(***************************************************************************)
(* Proofs about Codec, for bytes of any base, numbers of any width, any    *)
(* commands and entities that can be encoded, cuts, gaps and growth.       *)
(***************************************************************************)
EXTENDS Codec, FiniteSetTheorems, SequenceTheorems, Recursion

(* Numbers *)

\* Quotient and rest.
LEMMA DivMod ==
    ASSUME NEW m \in Nat, NEW b \in Nat, b > 0
    PROVE  m \div b \in Nat /\ m % b \in 0 .. b - 1 /\ m = (m \div b) * b + (m % b)
  OBVIOUS

\* The base is one.
LEMMA BaseIs == ASSUME CodecConstants PROVE Base \in Nat /\ Base > 3 /\ Base > 0
  BY DEF CodecConstants

\* The passes that drop the lowest digit.
LEMMA ShiftedLoop ==
    ASSUME CodecConstants, NEW m \in Nat, NEW i \in Nat
    PROVE  \E f : /\ f[0] = m
                  /\ \A n \in 1 .. i : f[n] = f[n - 1] \div Base
                  /\ Shifted(m, i) = f[i]
<1> DEFINE S == Nat
           First == m
           Pass(n, u) == u \div Base
           step == [y \in Nat \X S |-> IF y[1] \in 1 .. i THEN Pass(y[1], y[2]) ELSE y[2]]
           Is(f) == f = [n \in 0 .. i |-> IF n = 0 THEN First ELSE Pass(n, f[n - 1])]
<1>1. i \in Nat /\ First \in S
  OBVIOUS
<1>2. ASSUME NEW n \in 1 .. i, NEW u \in S
      PROVE  Pass(n, u) \in S
  BY BaseIs, DivMod
<1>3. /\ step \in [Nat \X S -> S]
      /\ \A n \in 1 .. i, u \in S : step[<<n, u>>] = Pass(n, u)
  <2>1. \A n \in 1 .. i : n \in Nat
    BY <1>1
  <2> HIDE DEF S, Pass
  <2> QED
    BY <1>1, <1>2, <2>1
<1>4. PICK f : IsLoop(f, S, i, First, step)
  <2> HIDE DEF S, First, step
  <2> QED
    BY <1>1, <1>3, LoopExists, Zenon
<1>5. Is(f)
  <2> HIDE DEF S, First, Pass, step
  <2>1. f = [n \in 0 .. i |-> f[n]] /\ f[0] = First
    BY <1>4 DEF IsLoop
  <2>2. ASSUME NEW n \in 1 .. i
        PROVE  f[n] = Pass(n, f[n - 1])
    <3>1. n - 1 \in 0 .. i
      BY <1>1
    <3>2. f[n - 1] \in S /\ f[n] = step[<<n, f[n - 1]>>]
      BY <1>4, <3>1 DEF IsLoop
    <3> QED
      BY <1>3, <3>2
  <2>3. \A n \in 0 .. i : n # 0 => n \in 1 .. i
    BY <1>1
  <2> QED
    BY <2>1, <2>2, <2>3
<1> DEFINE c == CHOOSE e : Is(e)
<1>6. Is(c)
  <2> HIDE DEF Is
  <2> QED
    BY <1>5
<1>7. Shifted(m, i) = c[i]
  BY DEF Shifted
<1>8. c[0] = First /\ \A n \in 1 .. i : c[n] = Pass(n, c[n - 1])
  <2> HIDE DEF c, First, Pass
  <2>1. 0 \in 0 .. i /\ \A n \in 1 .. i : n \in 0 .. i /\ n # 0
    BY <1>1
  <2> QED
    BY <1>6, <2>1
<1> HIDE DEF c
<1> QED
  BY <1>7, <1>8

\* One digit more is dropped.
LEMMA ShiftedIs ==
    ASSUME CodecConstants, NEW n \in Nat
    PROVE  /\ Shifted(n, 0) = n
           /\ \A i \in Nat : Shifted(n, i) \in Nat /\ Shifted(n, i + 1) = Shifted(n, i) \div Base
<1>1. Shifted(n, 0) = n
  <2>1. PICK f : f[0] = n /\ Shifted(n, 0) = f[0]
    BY ShiftedLoop
  <2> QED
    BY <2>1
<1>2. ASSUME NEW i \in Nat
      PROVE  Shifted(n, i) \in Nat /\ Shifted(n, i + 1) = Shifted(n, i) \div Base
  <2>1. PICK f : /\ f[0] = n
                 /\ \A k \in 1 .. i : f[k] = f[k - 1] \div Base
                 /\ Shifted(n, i) = f[i]
    BY ShiftedLoop
  <2>2. PICK g : /\ g[0] = n
                 /\ \A k \in 1 .. i + 1 : g[k] = g[k - 1] \div Base
                 /\ Shifted(n, i + 1) = g[i + 1]
    <3>1. i + 1 \in Nat
      OBVIOUS
    <3> QED
      BY <3>1, ShiftedLoop
  <2> DEFINE T == {k \in 0 .. i : f[k] = g[k] /\ f[k] \in Nat}
  <2>3. 0 \in T
    BY <2>1, <2>2
  <2>4. ASSUME NEW k \in 1 .. i, k - 1 \in T
        PROVE  k \in T
    <3>1. f[k] = f[k - 1] \div Base /\ g[k] = g[k - 1] \div Base
      <4>1. k \in 1 .. i + 1
        OBVIOUS
      <4> QED
        BY <2>1, <2>2, <4>1
    <3>2. f[k - 1] = g[k - 1] /\ f[k - 1] \in Nat
      BY <2>4
    <3>3. f[k - 1] \div Base \in Nat
      BY <3>2, BaseIs, DivMod
    <3> QED
      BY <3>1, <3>2, <3>3
  <2>5. \A k \in 0 .. i : k \in T
    <3> HIDE DEF T
    <3> QED
      BY <2>3, <2>4, LoopKeeps
  <2>6. i \in T /\ i + 1 \in 1 .. i + 1 /\ (i + 1) - 1 = i
    BY <2>5
  <2>7. g[i + 1] = g[(i + 1) - 1] \div Base
    BY <2>2, <2>6
  <2> QED
    BY <2>1, <2>2, <2>6, <2>7
<1> QED
  BY <1>1, <1>2

\* The digits of a number are bytes, as many as asked for.
LEMMA DigitsAre ==
    ASSUME CodecConstants, NEW n \in Nat, NEW width \in Nat
    PROVE  Digits(n, width) \in Seq(Bytes) /\ Len(Digits(n, width)) = width
<1>1. \A i \in 1 .. width : Shifted(n, i - 1) % Base \in Bytes
  <2> SUFFICES ASSUME NEW i \in 1 .. width PROVE Shifted(n, i - 1) % Base \in Bytes
    OBVIOUS
  <2>1. Shifted(n, i - 1) \in Nat
    <3>1. i - 1 \in Nat
      OBVIOUS
    <3> QED
      BY <3>1, ShiftedIs
  <2> QED
    BY <2>1, BaseIs, DivMod DEF Bytes
<1>2. Digits(n, width) \in [1 .. width -> Bytes]
  BY <1>1 DEF Digits
<1> QED
  BY <1>2

\* The passes over the digits, the highest first.
LEMMA NumberLoop ==
    ASSUME CodecConstants, NEW digits \in Seq(Nat)
    PROVE  \E f : /\ f[0] = 0
                  /\ \A n \in 1 .. Len(digits) : f[n] = f[n - 1] * Base + digits[Len(digits) + 1 - n]
                  /\ Number(digits) = f[Len(digits)]
<1> DEFINE S == Nat
           First == 0
           Pass(n, u) == u * Base + digits[Len(digits) + 1 - n]
           step == [y \in Nat \X S |-> IF y[1] \in 1 .. Len(digits) THEN Pass(y[1], y[2]) ELSE y[2]]
           Is(f) == f = [n \in 0 .. Len(digits) |-> IF n = 0 THEN First ELSE Pass(n, f[n - 1])]
<1>1. Len(digits) \in Nat /\ First \in S
  OBVIOUS
<1>2. ASSUME NEW n \in 1 .. Len(digits), NEW u \in S
      PROVE  Pass(n, u) \in S
  <2>1. Len(digits) + 1 - n \in 1 .. Len(digits)
    OBVIOUS
  <2>2. digits[Len(digits) + 1 - n] \in Nat /\ u * Base \in Nat
    BY <2>1, BaseIs
  <2> QED
    BY <2>2
<1>3. /\ step \in [Nat \X S -> S]
      /\ \A n \in 1 .. Len(digits), u \in S : step[<<n, u>>] = Pass(n, u)
  <2>1. \A n \in 1 .. Len(digits) : n \in Nat
    BY <1>1
  <2> HIDE DEF S, Pass
  <2> QED
    BY <1>1, <1>2, <2>1
<1>4. PICK f : IsLoop(f, S, Len(digits), First, step)
  <2> HIDE DEF S, First, step
  <2> QED
    BY <1>1, <1>3, LoopExists, Zenon
<1>5. Is(f)
  <2> HIDE DEF S, First, Pass, step
  <2>1. f = [n \in 0 .. Len(digits) |-> f[n]] /\ f[0] = First
    BY <1>4 DEF IsLoop
  <2>2. ASSUME NEW n \in 1 .. Len(digits)
        PROVE  f[n] = Pass(n, f[n - 1])
    <3>1. n - 1 \in 0 .. Len(digits)
      BY <1>1
    <3>2. f[n - 1] \in S /\ f[n] = step[<<n, f[n - 1]>>]
      BY <1>4, <3>1 DEF IsLoop
    <3> QED
      BY <1>3, <3>2
  <2>3. \A n \in 0 .. Len(digits) : n # 0 => n \in 1 .. Len(digits)
    BY <1>1
  <2> QED
    BY <2>1, <2>2, <2>3
<1> DEFINE c == CHOOSE e : Is(e)
<1>6. Is(c)
  <2> HIDE DEF Is
  <2> QED
    BY <1>5
<1>7. Number(digits) = c[Len(digits)]
  BY DEF Number
<1>8. c[0] = First /\ \A n \in 1 .. Len(digits) : c[n] = Pass(n, c[n - 1])
  <2> HIDE DEF c, First, Pass
  <2>1. 0 \in 0 .. Len(digits) /\ \A n \in 1 .. Len(digits) : n \in 0 .. Len(digits) /\ n # 0
    BY <1>1
  <2> QED
    BY <1>6, <2>1
<1> HIDE DEF c
<1> QED
  BY <1>7, <1>8

\* Bytes make a number.
LEMMA NumberIs ==
    ASSUME CodecConstants, NEW digits \in Seq(Bytes)
    PROVE  Number(digits) \in Nat
<1>1. digits \in Seq(Nat) /\ Len(digits) \in Nat /\ \A i \in 1 .. Len(digits) : digits[i] \in Nat
  BY BaseIs DEF Bytes
<1>2. PICK f : /\ f[0] = 0
               /\ \A n \in 1 .. Len(digits) :
                     f[n] = f[n - 1] * Base + digits[Len(digits) + 1 - n]
               /\ Number(digits) = f[Len(digits)]
  BY <1>1, NumberLoop
<1> DEFINE T == {n \in 0 .. Len(digits) : f[n] \in Nat}
<1>3. 0 \in T
  BY <1>1, <1>2
<1>4. ASSUME NEW n \in 1 .. Len(digits), n - 1 \in T
      PROVE  n \in T
  <2>1. f[n - 1] \in Nat /\ Len(digits) + 1 - n \in 1 .. Len(digits)
    BY <1>1, <1>4
  <2>2. f[n - 1] * Base \in Nat /\ digits[Len(digits) + 1 - n] \in Nat
    BY <1>1, <2>1, BaseIs
  <2> QED
    BY <1>1, <1>2, <2>2
<1>5. \A n \in 0 .. Len(digits) : n \in T
  <2> HIDE DEF T
  <2> QED
    BY <1>1, <1>3, <1>4, LoopKeeps
<1> QED
  BY <1>1, <1>2, <1>5

\* from_le_bytes gives back what to_le_bytes was given, if no digit is lost.
LEMMA NumberOfDigits ==
    ASSUME CodecConstants, NEW width \in Nat, NEW n, Fits(n, width)
    PROVE  Number(Digits(n, width)) = n
<1> DEFINE d == Digits(n, width)
<1>1. n \in Nat /\ Shifted(n, width) = 0
  BY DEF Fits
<1>2. /\ d \in Seq(Bytes) /\ Len(d) = width
      /\ \A i \in 1 .. width : d[i] = Shifted(n, i - 1) % Base
  BY <1>1, DigitsAre DEF Digits
<1> HIDE DEF d
<1>3. d \in Seq(Nat)
  BY <1>2, BaseIs DEF Bytes
<1>4. PICK f : /\ f[0] = 0
               /\ \A k \in 1 .. width : f[k] = f[k - 1] * Base + d[width + 1 - k]
               /\ Number(d) = f[width]
  BY <1>2, <1>3, NumberLoop
<1> DEFINE T == {k \in 0 .. width : f[k] = Shifted(n, width - k)}
<1>5. 0 \in T
  BY <1>1, <1>4
<1>6. ASSUME NEW k \in 1 .. width, k - 1 \in T
      PROVE  k \in T
  <2> DEFINE j == width - k
  <2>1. j \in Nat /\ j + 1 = width - (k - 1) /\ width + 1 - k = j + 1 /\ j + 1 \in 1 .. width
        /\ (j + 1) - 1 = j
    OBVIOUS
  <2> HIDE DEF j
  <2>2. f[k - 1] = Shifted(n, j + 1)
    BY <1>6, <2>1
  <2>3. d[j + 1] = Shifted(n, j) % Base
    BY <1>2, <2>1
  <2>4. Shifted(n, j) \in Nat /\ Shifted(n, j + 1) = Shifted(n, j) \div Base
    BY <1>1, <2>1, ShiftedIs
  <2>5. f[k] = (Shifted(n, j) \div Base) * Base + (Shifted(n, j) % Base)
    BY <1>4, <2>1, <2>2, <2>3, <2>4
  <2>6. f[k] = Shifted(n, j)
    <3> DEFINE m == Shifted(n, j)
    <3>1. m \in Nat /\ f[k] = (m \div Base) * Base + (m % Base)
      BY <2>4, <2>5
    <3> HIDE DEF m
    <3>2. m \div Base \in Nat /\ m % Base \in 0 .. Base - 1 /\ m = (m \div Base) * Base + (m % Base)
      BY <3>1, BaseIs, DivMod, Zenon
    <3>3. f[k] = m
      BY <3>1, <3>2
    <3> QED
      BY <3>3 DEF m
  <2> QED
    BY <2>6 DEF j
<1>7. \A k \in 0 .. width : k \in T
  <2> HIDE DEF T
  <2> QED
    BY <1>5, <1>6, LoopKeeps
<1>8. width \in T /\ width - width = 0
  BY <1>7
<1>9. f[width] = n
  BY <1>1, <1>8, ShiftedIs
<1> QED
  BY <1>4, <1>9 DEF d

\* Zeros are zero.
LEMMA NumberOfZeros ==
    ASSUME CodecConstants, NEW digits \in Seq(Bytes),
           \A i \in 1 .. Len(digits) : digits[i] = 0
    PROVE  Number(digits) = 0
<1>1. digits \in Seq(Nat) /\ Len(digits) \in Nat
  BY BaseIs DEF Bytes
<1>2. PICK f : /\ f[0] = 0
               /\ \A n \in 1 .. Len(digits) :
                     f[n] = f[n - 1] * Base + digits[Len(digits) + 1 - n]
               /\ Number(digits) = f[Len(digits)]
  BY <1>1, NumberLoop
<1> DEFINE T == {n \in 0 .. Len(digits) : f[n] = 0}
<1>3. 0 \in T
  BY <1>1, <1>2
<1>4. ASSUME NEW n \in 1 .. Len(digits), n - 1 \in T
      PROVE  n \in T
  <2>1. f[n - 1] = 0 /\ Len(digits) + 1 - n \in 1 .. Len(digits)
    BY <1>1, <1>4
  <2>2. digits[Len(digits) + 1 - n] = 0
    BY <2>1
  <2>3. 0 * Base + 0 = 0
    BY BaseIs
  <2> QED
    BY <1>1, <1>2, <2>1, <2>2, <2>3
<1>5. \A n \in 0 .. Len(digits) : n \in T
  <2> HIDE DEF T
  <2> QED
    BY <1>1, <1>3, <1>4, LoopKeeps
<1> QED
  BY <1>1, <1>2, <1>5
-----------------------------------------------------------------------------
(* Bytes within bytes *)

\* The elements of the first n places.
Within(s, n) == {s[i] : i \in 1 .. n}

\* Of no place, of one more, and of all.
LEMMA WithinIs ==
    ASSUME NEW T, NEW s \in Seq(T)
    PROVE  /\ Within(s, 0) = {}
           /\ \A n \in 1 .. Len(s) : Within(s, n) = Within(s, n - 1) \cup {s[n]}
           /\ Within(s, Len(s)) = Range(s)
<1>1. Within(s, 0) = {}
  BY DEF Within
<1>2. ASSUME NEW n \in 1 .. Len(s)
      PROVE  Within(s, n) = Within(s, n - 1) \cup {s[n]}
  <2>1. 1 .. n = (1 .. n - 1) \cup {n}
    OBVIOUS
  <2> QED
    BY <2>1 DEF Within
<1>3. Within(s, Len(s)) = Range(s)
  BY DEF Within, Range
<1> QED
  BY <1>1, <1>2, <1>3

\* Some bytes are in a buffer, from a position on.
Lies(bytes, buf, pos) ==
    /\ pos + Len(bytes) <= Len(buf)
    /\ \A i \in 1 .. Len(bytes) : buf[pos + i] = bytes[i]

\* Of two pieces the second lies behind the first.
LEMMA LiesConcat ==
    ASSUME NEW a \in Seq(Bytes), NEW b \in Seq(Bytes), NEW buf \in Seq(Bytes), NEW pos \in Nat
    PROVE  Lies(a \o b, buf, pos) <=> Lies(a, buf, pos) /\ Lies(b, buf, pos + Len(a))
<1> DEFINE w == a \o b
<1>1. Len(a) \in Nat /\ Len(b) \in Nat /\ Len(buf) \in Nat
  OBVIOUS
<1>2. /\ Len(w) = Len(a) + Len(b)
      /\ \A i \in 1 .. Len(a) + Len(b) : w[i] = IF i <= Len(a) THEN a[i] ELSE b[i - Len(a)]
  BY ConcatProperties
<1> HIDE DEF w
<1>3. ASSUME Lies(w, buf, pos)
      PROVE  Lies(a, buf, pos) /\ Lies(b, buf, pos + Len(a))
  <2>1. pos + Len(w) <= Len(buf) /\ \A i \in 1 .. Len(w) : buf[pos + i] = w[i]
    BY <1>3 DEF Lies
  <2>2. pos + Len(a) <= Len(buf) /\ (pos + Len(a)) + Len(b) <= Len(buf)
    BY <1>1, <1>2, <2>1
  <2>3. \A i \in 1 .. Len(a) : buf[pos + i] = a[i]
    BY <1>1, <1>2, <2>1
  <2>4. ASSUME NEW i \in 1 .. Len(b)
        PROVE  buf[(pos + Len(a)) + i] = b[i]
    <3> DEFINE j == Len(a) + i
    <3>1. j \in 1 .. Len(w) /\ j \in 1 .. Len(a) + Len(b) /\ ~(j <= Len(a)) /\ j - Len(a) = i
          /\ pos + j = (pos + Len(a)) + i
      BY <1>1, <1>2
    <3> HIDE DEF j
    <3>2. buf[pos + j] = w[j] /\ w[j] = b[j - Len(a)]
      BY <1>2, <2>1, <3>1
    <3> QED
      BY <3>1, <3>2
  <2> QED
    BY <2>2, <2>3, <2>4 DEF Lies
<1>4. ASSUME Lies(a, buf, pos), Lies(b, buf, pos + Len(a))
      PROVE  Lies(w, buf, pos)
  <2>1. /\ \A i \in 1 .. Len(a) : buf[pos + i] = a[i]
        /\ (pos + Len(a)) + Len(b) <= Len(buf)
        /\ \A i \in 1 .. Len(b) : buf[(pos + Len(a)) + i] = b[i]
    BY <1>4 DEF Lies
  <2>2. pos + Len(w) <= Len(buf)
    BY <1>1, <1>2, <2>1
  <2>3. ASSUME NEW i \in 1 .. Len(w)
        PROVE  buf[pos + i] = w[i]
    <3>1. i \in 1 .. Len(a) + Len(b) /\ i \in Nat
      BY <1>1, <1>2
    <3>2. CASE i <= Len(a)
      BY <1>1, <1>2, <2>1, <3>1, <3>2
    <3>3. CASE ~(i <= Len(a))
      <4> DEFINE j == i - Len(a)
      <4>1. j \in 1 .. Len(b) /\ (pos + Len(a)) + j = pos + i
        BY <1>1, <3>1, <3>3
      <4>2. w[i] = b[j]
        BY <1>2, <3>1, <3>3
      <4> HIDE DEF j
      <4>3. buf[(pos + Len(a)) + j] = b[j]
        BY <2>1, <4>1
      <4> QED
        BY <4>1, <4>2, <4>3
    <3> QED
      BY <3>2, <3>3
  <2> QED
    BY <2>2, <2>3 DEF Lies
<1> QED
  BY <1>3, <1>4 DEF w

\* Bytes lie at the beginning of themselves.
LEMMA LiesWhole ==
    ASSUME NEW buf \in Seq(Bytes)
    PROVE  Lies(buf, buf, 0)
<1>1. \A i \in 1 .. Len(buf) : 0 + i = i
  OBVIOUS
<1>2. Len(buf) \in Nat /\ 0 + Len(buf) = Len(buf)
  OBVIOUS
<1> QED
  BY <1>1, <1>2 DEF Lies

\* What lies somewhere is cut out of there.
LEMMA LiesCut ==
    ASSUME NEW b \in Seq(Bytes), NEW buf \in Seq(Bytes), NEW pos \in Nat, Lies(b, buf, pos)
    PROVE  SubSeq(buf, pos + 1, pos + Len(b)) = b
<1> DEFINE w == SubSeq(buf, pos + 1, pos + Len(b))
<1>1. Len(b) \in Nat /\ Len(buf) \in Nat /\ pos + Len(b) <= Len(buf)
      /\ \A i \in 1 .. Len(b) : buf[pos + i] = b[i]
  BY DEF Lies
<1>2. /\ w \in Seq(Bytes) /\ Len(w) = Len(b)
      /\ \A i \in 1 .. Len(b) : w[i] = buf[pos + i]
  <2>1. pos + 1 \in 1 .. Len(buf) + 1 /\ pos + Len(b) \in pos .. Len(buf)
        /\ (pos + Len(b)) - (pos + 1) + 1 = Len(b)
        /\ \A i \in 1 .. Len(b) : (pos + 1) + i - 1 = pos + i
    BY <1>1
  <2>2. /\ w \in Seq(Bytes) /\ Len(w) = (pos + Len(b)) - (pos + 1) + 1
        /\ \A i \in 1 .. (pos + Len(b)) - (pos + 1) + 1 : w[i] = buf[(pos + 1) + i - 1]
    BY <1>1, <2>1, SubSeqProperties
  <2> HIDE DEF w
  <2> QED
    BY <2>1, <2>2
<1> HIDE DEF w
<1>3. w = b
  BY <1>1, <1>2, SeqEqual
<1> QED
  BY <1>3 DEF w
-----------------------------------------------------------------------------
(* Taking values *)

\* get(pos .. pos + n) takes what lies there.
LEMMA TakeIs ==
    ASSUME NEW b \in Seq(Bytes), NEW buf \in Seq(Bytes), NEW pos \in Nat, NEW how,
           Lies(b, buf, pos)
    PROVE  Take(buf, pos, Len(b), how) = Some(b, pos + Len(b))
<1>1. pos + Len(b) <= Len(buf) /\ SubSeq(buf, pos + 1, pos + Len(b)) = b
  BY LiesCut DEF Lies
<1> QED
  BY <1>1 DEF Take

\* The ? operator on a value.
LEMMA SomeIs ==
    ASSUME NEW v, NEW p
    PROVE  Some(v, p).res = "some" /\ Some(v, p).val = v /\ Some(v, p).pos = p
  BY DEF Some

\* A number is taken from its digits.
LEMMA TakeNumberIs ==
    ASSUME CodecConstants, NEW width \in Nat, NEW n, Fits(n, width),
           NEW buf \in Seq(Bytes), NEW pos \in Nat, NEW how, Lies(Digits(n, width), buf, pos)
    PROVE  TakeNumber(buf, pos, width, how) = Some(n, pos + width)
<1> DEFINE d == Digits(n, width)
           t == Take(buf, pos, width, how)
<1>1. d \in Seq(Bytes) /\ Len(d) = width
  BY DigitsAre DEF Fits
<1>2. t = Some(d, pos + width)
  <2> HIDE DEF d
  <2>1. Lies(d, buf, pos)
    BY DEF d
  <2>2. Take(buf, pos, Len(d), how) = Some(d, pos + Len(d))
    BY <1>1, <2>1, TakeIs, Zenon
  <2> QED
    BY <1>1, <2>2
<1>3. Number(d) = n
  BY NumberOfDigits
<1> HIDE DEF d, t
<1>4. t.res = "some" /\ t.val = d /\ t.pos = pos + width
  BY <1>2, SomeIs
<1>5. TakeNumber(buf, pos, width, how)
          = IF t.res = "some" THEN Some(Number(t.val), t.pos) ELSE t
  BY DEF TakeNumber, Then, t
<1> QED
  BY <1>3, <1>4, <1>5

\* A prefixed value is bytes, longer by its length.
LEMMA PrefixedIs ==
    ASSUME CodecConstants, NEW b \in Seq(Bytes)
    PROVE  Prefixed(b) \in Seq(Bytes) /\ Len(Prefixed(b)) = LenWidth + Len(b)
<1>1. Len(b) \in Nat /\ LenWidth \in Nat
  BY DEF CodecConstants
<1>2. U32(Len(b)) \in Seq(Bytes) /\ Len(U32(Len(b))) = LenWidth
  BY <1>1, DigitsAre DEF U32
<1> QED
  BY <1>2 DEF Prefixed

\* A prefixed value is taken from its bytes.
LEMMA TakePrefixedIs ==
    ASSUME CodecConstants, NEW b, IsBlob(b),
           NEW buf \in Seq(Bytes), NEW pos \in Nat, NEW how, Lies(Prefixed(b), buf, pos)
    PROVE  TakePrefixed(buf, pos, how) = Some(b, pos + Len(Prefixed(b)))
<1> DEFINE n == Len(b)
           d == Digits(n, LenWidth)
           t == TakeNumber(buf, pos, LenWidth, how)
<1>1. b \in Seq(Bytes) /\ Fits(n, LenWidth) /\ n \in Nat /\ LenWidth \in Nat
  BY DEF IsBlob, CodecConstants
<1>2. d \in Seq(Bytes) /\ Len(d) = LenWidth
  BY <1>1, DigitsAre
<1>3. Lies(d \o b, buf, pos)
  BY DEF Prefixed, U32
<1> HIDE DEF d
<1>4. Lies(d, buf, pos) /\ Lies(b, buf, pos + LenWidth)
  BY <1>1, <1>2, <1>3, LiesConcat
<1> HIDE DEF n
<1>5. t = Some(n, pos + LenWidth)
  BY <1>1, <1>4, TakeNumberIs DEF d
<1> HIDE DEF t
<1>6. t.res = "some" /\ t.val = n /\ t.pos = pos + LenWidth
  BY <1>5, SomeIs
<1>7. TakePrefixed(buf, pos, how) = IF t.res = "some" THEN Take(buf, t.pos, t.val, how) ELSE t
  BY DEF TakePrefixed, Then, t
<1>8. Take(buf, pos + LenWidth, n, how) = Some(b, (pos + LenWidth) + n)
  <2>1. pos + LenWidth \in Nat
    BY <1>1
  <2>2. Take(buf, pos + LenWidth, Len(b), how) = Some(b, (pos + LenWidth) + Len(b))
    BY <1>1, <1>4, <2>1, TakeIs, Zenon
  <2> QED
    BY <2>2 DEF n
<1>9. Len(Prefixed(b)) = LenWidth + n
  BY <1>1, PrefixedIs DEF n
<1>10. pos + Len(Prefixed(b)) = (pos + LenWidth) + n
  BY <1>1, <1>9
<1> QED
  BY <1>6, <1>7, <1>8, <1>10

\* A string is a blob whose bytes are characters, and is taken as one.
LEMMA TakeTextIs ==
    ASSUME CodecConstants, NEW s, IsString(s),
           NEW buf \in Seq(Bytes), NEW pos \in Nat, NEW how, Lies(Prefixed(s), buf, pos)
    PROVE  IsBlob(s) /\ TakeText(buf, pos, how) = Some(s, pos + Len(Prefixed(s)))
<1> DEFINE t == TakePrefixed(buf, pos, how)
<1>1. s \in Seq(Bytes \ NotUtf8) /\ Fits(Len(s), LenWidth)
  BY DEF IsString
<1>2. s \in Seq(Bytes) /\ \A i \in DOMAIN s : s[i] \notin NotUtf8
  BY <1>1
<1>3. IsBlob(s)
  BY <1>1, <1>2 DEF IsBlob
<1>4. t = Some(s, pos + Len(Prefixed(s)))
  BY <1>3, TakePrefixedIs
<1> HIDE DEF t
<1>5. t.res = "some" /\ t.val = s /\ t.pos = pos + Len(Prefixed(s))
  BY <1>4, SomeIs
<1>6. TakeText(buf, pos, how)
          = IF t.res = "some"
            THEN IF \E i \in DOMAIN t.val : t.val[i] \in NotUtf8 THEN Fail(how) ELSE Some(t.val, t.pos)
            ELSE t
  BY DEF TakeText, Then, t
<1>7. ~ \E i \in DOMAIN s : s[i] \in NotUtf8
  BY <1>2
<1> QED
  BY <1>3, <1>5, <1>6, <1>7

\* A value of its type is encoded in bytes.
LEMMA EncodeValueIs ==
    ASSUME CodecConstants, NEW type \in Types, NEW v, IsValue(type, v)
    PROVE  EncodeValue(type, v) \in Seq(Bytes)
<1>1. CASE type = "Int"
  <2>1. v \in Nat /\ LenWidth \in Nat
    BY <1>1 DEF IsValue, Fits, CodecConstants
  <2> QED
    BY <1>1, <2>1, DigitsAre DEF EncodeValue, U32
<1>2. CASE type # "Int"
  <2>1. v \in Seq(Bytes)
    BY <1>2 DEF IsValue, IsString, IsBlob
  <2> QED
    BY <1>2, <2>1, PrefixedIs DEF EncodeValue
<1> QED
  BY <1>1, <1>2

\* A value is decoded from its bytes.
LEMMA DecodeValueIs ==
    ASSUME CodecConstants, NEW type \in Types, NEW v, IsValue(type, v),
           NEW buf \in Seq(Bytes), NEW pos \in Nat, Lies(EncodeValue(type, v), buf, pos)
    PROVE  DecodeValue(type, buf, pos) = Some(v, pos + Len(EncodeValue(type, v)))
<1>1. CASE type = "Int"
  <2>1. v \in Nat /\ LenWidth \in Nat /\ Fits(v, LenWidth)
    BY <1>1 DEF IsValue, Fits, CodecConstants
  <2>2. EncodeValue(type, v) = Digits(v, LenWidth)
    BY <1>1 DEF EncodeValue, U32
  <2>3. TakeNumber(buf, pos, LenWidth, "panic") = Some(v, pos + LenWidth)
    BY <2>1, <2>2, TakeNumberIs
  <2>4. Len(EncodeValue(type, v)) = LenWidth
    BY <2>1, <2>2, DigitsAre
  <2> QED
    BY <1>1, <2>3, <2>4 DEF DecodeValue
<1>2. CASE type = "Str"
  <2>1. IsString(v) /\ EncodeValue(type, v) = Prefixed(v)
    BY <1>2 DEF IsValue, EncodeValue
  <2>2. TakeText(buf, pos, "panic") = Some(v, pos + Len(Prefixed(v)))
    BY <2>1, TakeTextIs
  <2> QED
    BY <1>2, <2>1, <2>2 DEF DecodeValue
<1>3. CASE type = "Blob"
  <2>1. IsBlob(v) /\ EncodeValue(type, v) = Prefixed(v)
    BY <1>3 DEF IsValue, EncodeValue
  <2>2. TakePrefixed(buf, pos, "panic") = Some(v, pos + Len(Prefixed(v)))
    BY <2>1, TakePrefixedIs
  <2> QED
    BY <1>3, <2>1, <2>2 DEF DecodeValue
<1> QED
  BY <1>1, <1>2, <1>3 DEF Types
-----------------------------------------------------------------------------
(* Attributes *)

\* Attributes as IsEntity wants them.
AttrsOK(attrs) ==
    /\ attrs = [a \in DOMAIN attrs |-> attrs[a]]
    /\ IsFiniteSet(DOMAIN attrs)
    /\ \A a \in DOMAIN attrs :
          /\ a = <<a[1], a[2]>> /\ a[1] \in Types
          /\ IsString(a[2]) /\ IsValue(a[1], attrs[a])
    /\ \A type \in Types : Fits(Cardinality(OfType(attrs, type)), LenWidth)

\* Some of the attributes.
Part(attrs, D) == [a \in D |-> attrs[a]]

\* An attribute is encoded in bytes.
LEMMA EncodeAttrIs ==
    ASSUME CodecConstants, NEW attrs, AttrsOK(attrs), NEW a \in DOMAIN attrs
    PROVE  /\ Prefixed(a[2]) \in Seq(Bytes) /\ EncodeValue(a[1], attrs[a]) \in Seq(Bytes)
           /\ EncodeAttr(attrs, a) \in Seq(Bytes)
           /\ Len(EncodeAttr(attrs, a)) = Len(Prefixed(a[2])) + Len(EncodeValue(a[1], attrs[a]))
<1>1. a[1] \in Types /\ IsString(a[2]) /\ IsValue(a[1], attrs[a])
  BY DEF AttrsOK
<1>2. a[2] \in Seq(Bytes)
  BY <1>1 DEF IsString
<1>3. Prefixed(a[2]) \in Seq(Bytes) /\ EncodeValue(a[1], attrs[a]) \in Seq(Bytes)
  BY <1>1, <1>2, PrefixedIs, EncodeValueIs
<1> QED
  BY <1>3 DEF EncodeAttr

\* A pass of decode_from adds the attribute that lies there.
LEMMA NextAttrIs ==
    ASSUME CodecConstants, NEW attrs, AttrsOK(attrs), NEW a \in DOMAIN attrs,
           NEW D, D \subseteq DOMAIN attrs,
           NEW buf \in Seq(Bytes), NEW pos \in Nat, Lies(EncodeAttr(attrs, a), buf, pos)
    PROVE  NextAttr(a[1], buf, Some(Part(attrs, D), pos))
               = Some(Part(attrs, D \cup {a}), pos + Len(EncodeAttr(attrs, a)))
<1> DEFINE type == a[1]
           name == a[2]
           v == attrs[a]
           p == Prefixed(name)
           b == EncodeValue(type, v)
           t == TakeText(buf, pos, "none")
           q == pos + Len(p)
           w == DecodeValue(type, buf, q)
<1>1. type \in Types /\ IsString(name) /\ IsValue(type, v) /\ a = <<type, name>>
  BY DEF AttrsOK
<1>2. p \in Seq(Bytes) /\ b \in Seq(Bytes) /\ Len(EncodeAttr(attrs, a)) = Len(p) + Len(b)
  BY EncodeAttrIs
<1>3. Lies(p, buf, pos) /\ Lies(b, buf, q)
  <2>1. Lies(p \o b, buf, pos)
    BY DEF EncodeAttr
  <2> HIDE DEF p, b
  <2> QED
    BY <1>2, <2>1, LiesConcat
<1>4. q \in Nat
  <2> HIDE DEF p
  <2> QED
    BY <1>2
<1>5. t = Some(name, q)
  BY <1>1, <1>3, TakeTextIs
<1>6. w = Some(v, q + Len(b))
  <2> HIDE DEF q, v, type
  <2> QED
    BY <1>1, <1>3, <1>4, DecodeValueIs
<1> HIDE DEF w, t
<1>7. t.res = "some" /\ t.val = name /\ t.pos = q /\ w.res = "some" /\ w.val = v /\ w.pos = q + Len(b)
  BY <1>5, <1>6, SomeIs
<1> DEFINE s == Some(Part(attrs, D), pos)
<1>8. s.res = "some" /\ s.val = Part(attrs, D) /\ s.pos = pos
  BY SomeIs
<1>9. NextAttr(type, buf, s) = Some(With(Part(attrs, D), <<type, name>>, v), q + Len(b))
  <2>1. NextAttr(type, buf, s)
            = IF s.res = "some"
              THEN IF TakeText(buf, s.pos, "none").res = "some"
                   THEN IF DecodeValue(type, buf, TakeText(buf, s.pos, "none").pos).res = "some"
                        THEN Some(With(s.val, <<type, TakeText(buf, s.pos, "none").val>>,
                                       DecodeValue(type, buf, TakeText(buf, s.pos, "none").pos).val),
                                  DecodeValue(type, buf, TakeText(buf, s.pos, "none").pos).pos)
                        ELSE DecodeValue(type, buf, TakeText(buf, s.pos, "none").pos)
                   ELSE TakeText(buf, s.pos, "none")
              ELSE s
    BY DEF NextAttr, Then
  <2> HIDE DEF s, type, name, v, q, b
  <2>2. TakeText(buf, s.pos, "none") = t
    BY <1>8 DEF t
  <2>3. DecodeValue(type, buf, t.pos) = w
    BY <1>7 DEF w
  <2> QED
    BY <1>7, <1>8, <2>1, <2>2, <2>3
<1>10. With(Part(attrs, D), a, v) = Part(attrs, D \cup {a})
  BY DEF With, Part
<1>11. q + Len(b) = pos + Len(EncodeAttr(attrs, a))
  <2> HIDE DEF p, b
  <2> QED
    BY <1>2
<1> QED
  BY <1>1, <1>9, <1>10, <1>11

\* The names of a bucket are all its attributes, each once.
LEMMA NamesAre ==
    ASSUME CodecConstants, NEW attrs, AttrsOK(attrs), NEW type \in Types
    PROVE  LET names == Names(attrs, type) IN
           /\ names \in Seq(OfType(attrs, type))
           /\ Len(names) \in Nat
           /\ Range(names) = OfType(attrs, type)
           /\ Fits(Len(names), LenWidth)
<1> DEFINE B == OfType(attrs, type)
           N == Cardinality(B)
           Q(f) == IsInjective(f)
           names == Names(attrs, type)
<1>1. IsFiniteSet(B) /\ Fits(N, LenWidth)
  <2>1. B \in SUBSET (DOMAIN attrs)
    BY DEF OfType
  <2>2. IsFiniteSet(DOMAIN attrs)
    BY DEF AttrsOK
  <2>3. IsFiniteSet(B)
    <3> HIDE DEF B
    <3> QED
      BY <2>1, <2>2, FS_Subset
  <2> QED
    BY <2>3 DEF AttrsOK
<1>2. N \in Nat /\ \E f \in [1 .. N -> B] : IsInjective(f)
  <2> HIDE DEF B
  <2>1. N \in Nat /\ ExistsBijection(1 .. N, B)
    BY <1>1, FS_CardinalityType
  <2>2. PICK f : f \in Injection(1 .. N, B)
    BY <2>1 DEF ExistsBijection, Bijection
  <2> QED
    BY <2>1, <2>2 DEF Injection, IsInjective
<1>3. names = CHOOSE f \in [1 .. N -> B] : Q(f)
  BY DEF Names
<1>4. names \in [1 .. N -> B] /\ IsInjective(names)
  <2> HIDE DEF names, N, B
  <2> QED
    BY <1>2, <1>3
<1> HIDE DEF names, B
<1>5. names \in Injection(1 .. N, B)
  BY <1>4 DEF Injection, IsInjective
<1>6. names \in Surjection(1 .. N, B)
  <2>1. IsFiniteSet(1 .. N) /\ Cardinality(1 .. N) = N
    <3>1. \A a, b \in Int : IsFiniteSet(a .. b) /\ Cardinality(a .. b) = IF a > b THEN 0 ELSE b - a + 1
      BY FS_Interval
    <3>2. IsFiniteSet(1 .. N) /\ Cardinality(1 .. N) = IF 1 > N THEN 0 ELSE N - 1 + 1
      <4>1. 1 \in Int /\ N \in Int
        BY <1>2
      <4> HIDE DEF N
      <4> QED
        BY <3>1, <4>1
    <3> HIDE DEF N
    <3> QED
      BY <1>2, <3>2
  <2> QED
    BY <1>1, <1>5, <2>1, FS_Injection
<1>7. names \in Seq(B) /\ Len(names) = N
  BY <1>2, <1>4
<1>8. Range(names) = B
  <2>1. \A x \in Range(names) : x \in B
    BY <1>4 DEF Range
  <2>2. \A x \in B : x \in Range(names)
    BY <1>4, <1>6 DEF Range, Surjection
  <2> QED
    BY <2>1, <2>2
<1> QED
  BY <1>1, <1>2, <1>7, <1>8 DEF names, B

\* What is made of pieces, one behind the other.
IsPiled(f, N, piece) ==
    /\ f[0] \in Seq(Bytes)
    /\ \A n \in 1 .. N : piece[n] \in Seq(Bytes) /\ f[n] = f[n - 1] \o piece[n]

\* Every pile is bytes, longer than the one before by its piece.
Grows(f, N, piece) ==
    /\ \A n \in 0 .. N : f[n] \in Seq(Bytes)
    /\ \A n \in 1 .. N : Len(f[n]) = Len(f[n - 1]) + Len(piece[n])

\* What is piled up from bytes is bytes and grows piece by piece.
LEMMA PilesAre ==
    ASSUME NEW N \in Nat, NEW f, NEW piece, IsPiled(f, N, piece)
    PROVE  Grows(f, N, piece)
<1> DEFINE T == {n \in 0 .. N : f[n] \in Seq(Bytes)}
<1>1. 0 \in T
  BY DEF IsPiled
<1>2. ASSUME NEW n \in 1 .. N, n - 1 \in T
      PROVE  n \in T
  <2>1. f[n - 1] \in Seq(Bytes)
    BY <1>2
  <2>2. piece[n] \in Seq(Bytes) /\ f[n] = f[n - 1] \o piece[n]
    BY DEF IsPiled
  <2>3. f[n - 1] \o piece[n] \in Seq(Bytes)
    <3> DEFINE a == f[n - 1]
               b == piece[n]
    <3>1. a \in Seq(Bytes) /\ b \in Seq(Bytes)
      BY <2>1, <2>2
    <3> HIDE DEF a, b
    <3>2. a \o b \in Seq(Bytes)
      BY <3>1
    <3> QED
      BY <3>2 DEF a, b
  <2>4. n \in 0 .. N
    OBVIOUS
  <2> QED
    BY <2>2, <2>3, <2>4
<1>3. \A n \in 0 .. N : n \in T
  <2> HIDE DEF T
  <2> QED
    BY <1>1, <1>2, LoopKeeps
<1>4. ASSUME NEW n \in 1 .. N
      PROVE  Len(f[n]) = Len(f[n - 1]) + Len(piece[n])
  <2>1. n - 1 \in 0 .. N
    OBVIOUS
  <2>2. f[n - 1] \in Seq(Bytes)
    BY <1>3, <2>1
  <2>3. piece[n] \in Seq(Bytes) /\ f[n] = f[n - 1] \o piece[n]
    BY DEF IsPiled
  <2>4. Len(f[n - 1] \o piece[n]) = Len(f[n - 1]) + Len(piece[n])
    <3> DEFINE a == f[n - 1]
               b == piece[n]
    <3>1. a \in Seq(Bytes) /\ b \in Seq(Bytes)
      BY <2>2, <2>3
    <3> HIDE DEF a, b
    <3>2. Len(a \o b) = Len(a) + Len(b)
      BY <3>1
    <3> QED
      BY <3>2 DEF a, b
  <2> QED
    BY <2>3, <2>4
<1> QED
  BY <1>3, <1>4 DEF Grows

\* Where a pile lies, all lower ones lie, and each piece behind the one below.
LEMMA PilesLie ==
    ASSUME NEW N \in Nat, NEW f, NEW piece, IsPiled(f, N, piece),
           NEW buf \in Seq(Bytes), NEW pos \in Nat, Lies(f[N], buf, pos)
    PROVE  /\ \A n \in 0 .. N : Lies(f[n], buf, pos)
           /\ \A n \in 1 .. N : Lies(piece[n], buf, pos + Len(f[n - 1]))
<1>1. \A n \in 0 .. N : f[n] \in Seq(Bytes)
  BY PilesAre DEF Grows
<1>2. ASSUME NEW n \in 1 .. N, Lies(f[n], buf, pos)
      PROVE  Lies(f[n - 1], buf, pos) /\ Lies(piece[n], buf, pos + Len(f[n - 1]))
  <2>1. n - 1 \in 0 .. N
    OBVIOUS
  <2>2. f[n - 1] \in Seq(Bytes) /\ piece[n] \in Seq(Bytes) /\ f[n] = f[n - 1] \o piece[n]
    BY <1>1, <2>1 DEF IsPiled
  <2>3. Lies(f[n - 1] \o piece[n], buf, pos)
    BY <1>2, <2>2
  <2> QED
    BY <2>2, <2>3, LiesConcat
<1> DEFINE T == {k \in 0 .. N : Lies(f[N - k], buf, pos)}
<1>3. 0 \in T
  OBVIOUS
<1>4. ASSUME NEW k \in 1 .. N, k - 1 \in T
      PROVE  k \in T
  <2> DEFINE n == N - (k - 1)
  <2>1. n \in 1 .. N /\ n - 1 = N - k /\ k \in 0 .. N
    OBVIOUS
  <2>2. Lies(f[n], buf, pos)
    BY <1>4
  <2> HIDE DEF n
  <2>3. Lies(f[n - 1], buf, pos)
    BY <1>2, <2>1, <2>2
  <2> QED
    BY <2>1, <2>3
<1>5. \A k \in 0 .. N : k \in T
  <2> HIDE DEF T
  <2> QED
    BY <1>3, <1>4, LoopKeeps
<1>6. ASSUME NEW n \in 0 .. N
      PROVE  Lies(f[n], buf, pos)
  <2>1. N - n \in 0 .. N /\ N - (N - n) = n
    OBVIOUS
  <2>2. N - n \in T
    <3> HIDE DEF T
    <3> QED
      BY <1>5, <2>1
  <2> QED
    BY <2>1, <2>2
<1>7. \A n \in 1 .. N : n \in 0 .. N
  OBVIOUS
<1> QED
  BY <1>2, <1>6, <1>7

\* The passes of encode_to.
LEMMA EncodeNamesLoop ==
    ASSUME CodecConstants, NEW attrs, AttrsOK(attrs), NEW names, names \in Seq(DOMAIN attrs)
    PROVE  \E f : /\ f[0] = U32(Len(names))
                  /\ \A n \in 1 .. Len(names) : f[n] = f[n - 1] \o EncodeAttr(attrs, names[n])
                  /\ EncodeNames(attrs, names) = f[Len(names)]
<1> DEFINE S == Seq(Bytes)
           First == U32(Len(names))
           Pass(n, u) == u \o EncodeAttr(attrs, names[n])
           step == [y \in Nat \X S |-> IF y[1] \in 1 .. Len(names) THEN Pass(y[1], y[2]) ELSE y[2]]
           Is(f) == f = [n \in 0 .. Len(names) |-> IF n = 0 THEN First ELSE Pass(n, f[n - 1])]
<1>1. Len(names) \in Nat /\ First \in S
  <2>1. Len(names) \in Nat /\ LenWidth \in Nat
    BY DEF CodecConstants
  <2> QED
    BY <2>1, DigitsAre DEF U32
<1>2. ASSUME NEW n \in 1 .. Len(names), NEW u \in S
      PROVE  Pass(n, u) \in S
  <2>1. names[n] \in DOMAIN attrs
    OBVIOUS
  <2> QED
    BY <2>1, EncodeAttrIs
<1>3. /\ step \in [Nat \X S -> S]
      /\ \A n \in 1 .. Len(names), u \in S : step[<<n, u>>] = Pass(n, u)
  <2>1. \A n \in 1 .. Len(names) : n \in Nat
    BY <1>1
  <2> HIDE DEF S, Pass
  <2> QED
    BY <1>1, <1>2, <2>1
<1>4. PICK f : IsLoop(f, S, Len(names), First, step)
  <2> HIDE DEF S, First, step
  <2> QED
    BY <1>1, <1>3, LoopExists, Zenon
<1>5. Is(f)
  <2> HIDE DEF S, First, Pass, step
  <2>1. f = [n \in 0 .. Len(names) |-> f[n]] /\ f[0] = First
    BY <1>4 DEF IsLoop
  <2>2. ASSUME NEW n \in 1 .. Len(names)
        PROVE  f[n] = Pass(n, f[n - 1])
    <3>1. n - 1 \in 0 .. Len(names)
      BY <1>1
    <3>2. f[n - 1] \in S /\ f[n] = step[<<n, f[n - 1]>>]
      BY <1>4, <3>1 DEF IsLoop
    <3> QED
      BY <1>3, <3>2
  <2>3. \A n \in 0 .. Len(names) : n # 0 => n \in 1 .. Len(names)
    BY <1>1
  <2> QED
    BY <2>1, <2>2, <2>3
<1> DEFINE c == CHOOSE e : Is(e)
<1>6. Is(c)
  <2> HIDE DEF Is
  <2> QED
    BY <1>5
<1>7. EncodeNames(attrs, names) = c[Len(names)]
  BY DEF EncodeNames
<1>8. c[0] = First /\ \A n \in 1 .. Len(names) : c[n] = Pass(n, c[n - 1])
  <2> HIDE DEF c, First, Pass
  <2>1. 0 \in 0 .. Len(names) /\ \A n \in 1 .. Len(names) : n \in 0 .. Len(names) /\ n # 0
    BY <1>1
  <2> QED
    BY <1>6, <2>1
<1> HIDE DEF c
<1> QED
  BY <1>7, <1>8

\* The passes of decode_from.
Decodes(type, buf, first, count, f) ==
    f[0] = first /\ \A n \in 1 .. count : f[n] = NextAttr(type, buf, f[n - 1])

\* decode_from returns what its last pass leaves, whatever function lists the
\* passes.
LEMMA DecodeNamesIs ==
    ASSUME NEW type, NEW buf, NEW first, NEW count \in Nat,
           NEW f, Decodes(type, buf, first, count, f)
    PROVE  DecodeNames(type, buf, first, count) = f[count]
<1> DEFINE Pass(n, u) == NextAttr(type, buf, u)
           Is(e) == e = [n \in 0 .. count |-> IF n = 0 THEN first ELSE Pass(n, e[n - 1])]
           g == [n \in 0 .. count |-> f[n]]
           c == CHOOSE e : Is(e)
           T == {n \in 0 .. count : c[n] = f[n]}
<1>1. count \in Nat
  OBVIOUS
<1>0. f[0] = first /\ \A n \in 1 .. count : f[n] = NextAttr(type, buf, f[n - 1])
  BY DEF Decodes
<1>2. Is(g)
  <2>1. \A n \in 0 .. count : n # 0 => n \in 1 .. count /\ n - 1 \in 0 .. count
    BY <1>1
  <2> HIDE DEF Pass
  <2>2. \A n \in 1 .. count : f[n] = Pass(n, f[n - 1])
    BY <1>0 DEF Pass
  <2>3. ASSUME NEW n \in 0 .. count
        PROVE  g[n] = IF n = 0 THEN first ELSE Pass(n, g[n - 1])
    BY <1>0, <2>1, <2>2
  <2> QED
    BY <2>3
<1>3. Is(c)
  <2> HIDE DEF Is
  <2> QED
    BY <1>2
<1>4. DecodeNames(type, buf, first, count) = c[count]
  BY DEF DecodeNames
<1>5. c[0] = f[0] /\ \A n \in 1 .. count : c[n] = Pass(n, c[n - 1])
  <2> HIDE DEF c, Pass
  <2>1. 0 \in 0 .. count /\ \A n \in 1 .. count : n \in 0 .. count /\ n # 0
    BY <1>1
  <2> QED
    BY <1>0, <1>3, <2>1
<1> HIDE DEF c
<1>6. 0 \in T
  BY <1>1, <1>5
<1>7. ASSUME NEW n \in 1 .. count, n - 1 \in T
      PROVE  n \in T
  <2>1. f[n] = Pass(n, f[n - 1]) /\ c[n] = Pass(n, c[n - 1]) /\ c[n - 1] = f[n - 1]
    BY <1>0, <1>5, <1>7
  <2> HIDE DEF Pass
  <2>2. n \in 0 .. count
    BY <1>1
  <2> QED
    BY <2>1, <2>2
<1>8. \A n \in 0 .. count : n \in T
  <2> HIDE DEF T
  <2> QED
    BY <1>1, <1>6, <1>7, LoopKeeps
<1>9. c[count] = f[count]
  BY <1>1, <1>8
<1> QED
  BY <1>4, <1>9

\* A bucket is encoded in bytes, and is decoded from them onto other buckets.
LEMMA BucketIs ==
    ASSUME CodecConstants, NEW attrs, AttrsOK(attrs), NEW type \in Types
    PROVE  /\ EncodeTo(attrs, type) \in Seq(Bytes)
           /\ \A buf \in Seq(Bytes), pos \in Nat, D \in SUBSET DOMAIN attrs :
                 Lies(EncodeTo(attrs, type), buf, pos) =>
                     DecodeFrom(type, buf, pos, Part(attrs, D))
                         = Some(Part(attrs, D \cup OfType(attrs, type)),
                                pos + Len(EncodeTo(attrs, type)))
<1> DEFINE names == Names(attrs, type)
           N == Len(names)
           piece == [n \in 1 .. N |-> EncodeAttr(attrs, names[n])]
<1>1. /\ names \in Seq(OfType(attrs, type)) /\ N \in Nat
      /\ Range(names) = OfType(attrs, type) /\ Fits(N, LenWidth)
  BY NamesAre
<1> HIDE DEF names
<1>2. names \in Seq(DOMAIN attrs) /\ \A n \in 1 .. N : names[n] \in DOMAIN attrs /\ names[n][1] = type
  BY <1>1 DEF OfType
<1>3. PICK f : /\ f[0] = U32(N)
               /\ \A n \in 1 .. N : f[n] = f[n - 1] \o EncodeAttr(attrs, names[n])
               /\ EncodeNames(attrs, names) = f[N]
  BY <1>2, EncodeNamesLoop
<1>4. f[0] \in Seq(Bytes) /\ Len(f[0]) = LenWidth /\ LenWidth \in Nat
  BY <1>1, <1>3, DigitsAre DEF U32, CodecConstants
<1>5. IsPiled(f, N, piece)
  BY <1>2, <1>3, <1>4, EncodeAttrIs DEF IsPiled
<1>6. /\ \A n \in 0 .. N : f[n] \in Seq(Bytes)
      /\ \A n \in 1 .. N : Len(f[n]) = Len(f[n - 1]) + Len(piece[n])
  <2>1. Grows(f, N, piece)
    <3> HIDE DEF piece, N
    <3> QED
      BY <1>1, <1>5, PilesAre
  <2> HIDE DEF piece, N
  <2> QED
    BY <2>1 DEF Grows
<1>7. EncodeTo(attrs, type) = f[N] /\ f[N] \in Seq(Bytes)
  <2>1. N \in 0 .. N
    BY <1>1
  <2> QED
    BY <1>3, <1>6, <2>1 DEF EncodeTo, names
<1>8. ASSUME NEW buf \in Seq(Bytes), NEW pos \in Nat, NEW D \in SUBSET DOMAIN attrs,
             Lies(f[N], buf, pos)
      PROVE  DecodeFrom(type, buf, pos, Part(attrs, D))
                 = Some(Part(attrs, D \cup OfType(attrs, type)), pos + Len(f[N]))
  <2>1. /\ \A n \in 0 .. N : Lies(f[n], buf, pos)
        /\ \A n \in 1 .. N : Lies(piece[n], buf, pos + Len(f[n - 1]))
    <3> HIDE DEF piece, N
    <3> QED
      BY <1>1, <1>5, <1>8, PilesLie
  <2> DEFINE first == Some(Part(attrs, D), pos + LenWidth)
             Known(n) == D \cup Within(names, n)
             g == [n \in 0 .. N |-> Some(Part(attrs, Known(n)), pos + Len(f[n]))]
             t == TakeNumber(buf, pos, LenWidth, "none")
  <2>2. t = Some(N, pos + LenWidth)
    <3>1. Lies(Digits(N, LenWidth), buf, pos)
      <4>1. 0 \in 0 .. N
        BY <1>1
      <4> QED
        BY <1>3, <2>1, <4>1 DEF U32
    <3> HIDE DEF N
    <3> QED
      BY <1>1, <1>4, <3>1, TakeNumberIs
  <2>3. /\ Within(names, 0) = {}
        /\ \A n \in 1 .. N : Within(names, n) = Within(names, n - 1) \cup {names[n]}
        /\ Within(names, N) = Range(names)
    BY <1>2, WithinIs
  <2>4. g[0] = first
    <3>1. 0 \in 0 .. N /\ Known(0) = D
      BY <1>1, <2>3
    <3> QED
      BY <1>4, <3>1
  <2>5. ASSUME NEW n \in 1 .. N
        PROVE  g[n] = NextAttr(type, buf, g[n - 1])
    <3> DEFINE a == names[n]
               q == pos + Len(f[n - 1])
               K == Known(n - 1)
    <3>1. n - 1 \in 0 .. N /\ n \in 0 .. N
      BY <1>1
    <3>2. a \in DOMAIN attrs /\ a[1] = type
      BY <1>2
    <3>3. K \subseteq DOMAIN attrs /\ Known(n) = K \cup {a}
      <4>1. \A i \in 1 .. n - 1 : names[i] \in DOMAIN attrs
        BY <1>1, <1>2
      <4>2. Within(names, n - 1) \subseteq DOMAIN attrs
        BY <4>1 DEF Within
      <4> QED
        BY <2>3, <4>2
    <3>4. q \in Nat
      BY <1>6, <3>1
    <3>5. Lies(EncodeAttr(attrs, a), buf, q)
      BY <2>1
    <3>6. pos + Len(f[n]) = q + Len(EncodeAttr(attrs, a))
      <4>1. Len(f[n - 1]) \in Nat /\ Len(EncodeAttr(attrs, a)) \in Nat
        BY <1>6, <3>1, <3>2, EncodeAttrIs
      <4>2. Len(f[n]) = Len(f[n - 1]) + Len(EncodeAttr(attrs, a))
        BY <1>6
      <4> HIDE DEF a
      <4> QED
        BY <4>1, <4>2
    <3>7. g[n - 1] = Some(Part(attrs, K), q) /\ g[n] = Some(Part(attrs, Known(n)), pos + Len(f[n]))
      BY <3>1
    <3> HIDE DEF g, K, q, a, Known
    <3>8. NextAttr(a[1], buf, Some(Part(attrs, K), q))
              = Some(Part(attrs, K \cup {a}), q + Len(EncodeAttr(attrs, a)))
      BY <3>2, <3>3, <3>4, <3>5, NextAttrIs
    <3> QED
      BY <3>2, <3>3, <3>6, <3>7, <3>8
  <2>6. DecodeNames(type, buf, first, N) = g[N]
    <3>1. Decodes(type, buf, first, N, g)
      <4> HIDE DEF first, g, N
      <4> QED
        BY <2>4, <2>5 DEF Decodes
    <3> HIDE DEF first, g, N
    <3> QED
      BY <1>1, <3>1, DecodeNamesIs
  <2>7. g[N] = Some(Part(attrs, D \cup OfType(attrs, type)), pos + Len(f[N]))
    <3>1. N \in 0 .. N /\ Known(N) = D \cup OfType(attrs, type)
      BY <1>1, <2>3
    <3> HIDE DEF Known
    <3> QED
      BY <3>1
  <2>8. t.res = "some" /\ t.val = N /\ t.pos = pos + LenWidth
    <3> HIDE DEF t, N
    <3> QED
      BY <2>2, SomeIs
  <2>9. DecodeFrom(type, buf, pos, Part(attrs, D))
            = IF t.res = "some" THEN DecodeNames(type, buf, Some(Part(attrs, D), t.pos), t.val) ELSE t
    BY DEF DecodeFrom, Then
  <2> HIDE DEF t, g
  <2> QED
    BY <2>6, <2>7, <2>8, <2>9
<1> QED
  BY <1>7, <1>8

\* Of four pieces each lies behind the one before.
LEMMA LiesFour ==
    ASSUME NEW a \in Seq(Bytes), NEW b \in Seq(Bytes), NEW c \in Seq(Bytes), NEW d \in Seq(Bytes)
    PROVE  /\ a \o b \o c \o d \in Seq(Bytes)
           /\ Len(a \o b \o c \o d) = Len(a) + Len(b) + Len(c) + Len(d)
           /\ \A buf \in Seq(Bytes), pos \in Nat :
                 Lies(a \o b \o c \o d, buf, pos) =>
                     /\ Lies(a, buf, pos) /\ Lies(b, buf, pos + Len(a))
                     /\ Lies(c, buf, pos + Len(a) + Len(b))
                     /\ Lies(d, buf, pos + Len(a) + Len(b) + Len(c))
<1> DEFINE x == a \o b
           y == x \o c
<1>1. x \in Seq(Bytes) /\ Len(x) = Len(a) + Len(b)
  OBVIOUS
<1>2. y \in Seq(Bytes) /\ Len(y) = Len(x) + Len(c)
  <2>1. x \in Seq(Bytes)
    BY <1>1
  <2> HIDE DEF x
  <2> QED
    BY <2>1
<1>3. y \o d \in Seq(Bytes) /\ Len(y \o d) = Len(y) + Len(d)
  <2>1. y \in Seq(Bytes)
    BY <1>2
  <2> HIDE DEF y
  <2> QED
    BY <2>1
<1>4. ASSUME NEW buf \in Seq(Bytes), NEW pos \in Nat, Lies(y \o d, buf, pos)
      PROVE  /\ Lies(a, buf, pos) /\ Lies(b, buf, pos + Len(a))
             /\ Lies(c, buf, pos + Len(x)) /\ Lies(d, buf, pos + Len(y))
  <2>1. Lies(y, buf, pos) /\ Lies(d, buf, pos + Len(y))
    <3> HIDE DEF y
    <3> QED
      BY <1>2, <1>4, LiesConcat
  <2>2. Lies(x, buf, pos) /\ Lies(c, buf, pos + Len(x))
    <3>1. Lies(x \o c, buf, pos)
      BY <2>1
    <3> HIDE DEF x
    <3> QED
      BY <1>1, <3>1, LiesConcat
  <2>3. Lies(a, buf, pos) /\ Lies(b, buf, pos + Len(a))
    BY <2>2, LiesConcat
  <2> QED
    BY <2>1, <2>2, <2>3
<1>5. Len(a) \in Nat /\ Len(b) \in Nat /\ Len(c) \in Nat /\ Len(d) \in Nat
  OBVIOUS
<1>6. Len(y \o d) = Len(a) + Len(b) + Len(c) + Len(d)
  BY <1>1, <1>2, <1>3
<1>7. ASSUME NEW pos \in Nat
      PROVE  pos + Len(x) = pos + Len(a) + Len(b) /\ pos + Len(y) = pos + Len(a) + Len(b) + Len(c)
  <2> HIDE DEF x, y
  <2> QED
    BY <1>1, <1>2, <1>5
<1>8. a \o b \o c \o d = y \o d
  OBVIOUS
<1> HIDE DEF x, y
<1> QED
  BY <1>3, <1>4, <1>6, <1>7, <1>8

\* An entity is encoded in bytes and decoded from where they lie.
LEMMA EntityIs ==
    ASSUME CodecConstants, NEW e, IsEntity(e)
    PROVE  /\ EncodeEntity(e) \in Seq(Bytes)
           /\ \A buf \in Seq(Bytes), pos \in Nat :
                 Lies(EncodeEntity(e), buf, pos) =>
                     DecodeEntity(buf, pos) = Some(e, pos + Len(EncodeEntity(e)))
           /\ \E rest \in Seq(Bytes) : EncodeEntity(e) = U64(e.id) \o rest
<1> DEFINE attrs == e.attrs
           id == e.id
           a == U64(id)
           b == EncodeTo(attrs, "Str")
           c == EncodeTo(attrs, "Int")
           d == EncodeTo(attrs, "Blob")
           S == OfType(attrs, "Str")
           SI == S \cup OfType(attrs, "Int")
           all == SI \cup OfType(attrs, "Blob")
<1>1. AttrsOK(attrs) /\ Fits(id, IdWidth) /\ IdWidth \in Nat /\ e = [id |-> id, attrs |-> attrs]
  BY DEF IsEntity, AttrsOK, CodecConstants
<1>2. "Str" \in Types /\ "Int" \in Types /\ "Blob" \in Types
  BY DEF Types
<1>3. a \in Seq(Bytes) /\ Len(a) = IdWidth
  <2> HIDE DEF id
  <2> QED
    BY <1>1, DigitsAre DEF Fits, U64
<1>4. b \in Seq(Bytes) /\ c \in Seq(Bytes) /\ d \in Seq(Bytes)
  <2> HIDE DEF attrs
  <2> QED
    BY <1>1, <1>2, BucketIs
<1>5. EncodeEntity(e) = a \o b \o c \o d
  BY DEF EncodeEntity
<1>6. /\ S \in SUBSET DOMAIN attrs /\ SI \in SUBSET DOMAIN attrs /\ all = DOMAIN attrs
      /\ {} \in SUBSET DOMAIN attrs /\ {} \cup S = S
  BY <1>1 DEF AttrsOK, OfType, Types
<1>7. Part(attrs, {}) = NoAttrs /\ Part(attrs, all) = attrs
  <2>1. Part(attrs, {}) = NoAttrs
    BY DEF Part, NoAttrs
  <2>2. Part(attrs, DOMAIN attrs) = attrs
    BY <1>1 DEF Part, AttrsOK
  <2> HIDE DEF all, attrs
  <2> QED
    BY <1>6, <2>1, <2>2
<1>8. ASSUME NEW buf \in Seq(Bytes), NEW pos \in Nat, Lies(a \o b \o c \o d, buf, pos)
      PROVE  DecodeEntity(buf, pos) = Some(e, pos + Len(a \o b \o c \o d))
  <2> DEFINE p == pos + IdWidth
             q == p + Len(b)
             r == q + Len(c)
             s == r + Len(d)
             t == TakeNumber(buf, pos, IdWidth, "none")
             u == DecodeFrom("Str", buf, t.pos, NoAttrs)
             v == DecodeFrom("Int", buf, u.pos, u.val)
             w == DecodeFrom("Blob", buf, v.pos, v.val)
  <2>1. /\ Lies(a, buf, pos) /\ Lies(b, buf, p) /\ Lies(c, buf, q) /\ Lies(d, buf, r)
        /\ pos + Len(a \o b \o c \o d) = s
        /\ p \in Nat /\ q \in Nat /\ r \in Nat
    <3>1. /\ Lies(a, buf, pos) /\ Lies(b, buf, pos + Len(a))
          /\ Lies(c, buf, pos + Len(a) + Len(b))
          /\ Lies(d, buf, pos + Len(a) + Len(b) + Len(c))
          /\ Len(a \o b \o c \o d) = Len(a) + Len(b) + Len(c) + Len(d)
      <4>1. a \in Seq(Bytes) /\ Lies(a \o b \o c \o d, buf, pos)
        BY <1>3, <1>8
      <4> HIDE DEF a, b, c, d
      <4> QED
        BY <1>4, <4>1, LiesFour
    <3>2. Len(b) \in Nat /\ Len(c) \in Nat /\ Len(d) \in Nat
      <4> HIDE DEF a, b, c, d
      <4> QED
        BY <1>4
    <3>3. Len(a) = IdWidth /\ IdWidth \in Nat
      BY <1>1, <1>3
    <3> HIDE DEF a, b, c, d
    <3>4. pos + (Len(a) + Len(b) + Len(c) + Len(d)) = s
      BY <3>2, <3>3
    <3>5. p = pos + Len(a) /\ q = pos + Len(a) + Len(b) /\ r = pos + Len(a) + Len(b) + Len(c)
      BY <3>2, <3>3
    <3>6. p \in Nat /\ q \in Nat /\ r \in Nat
      BY <3>2, <3>3
    <3> HIDE DEF p, q, r, s
    <3> QED
      BY <3>1, <3>4, <3>5, <3>6
  <2>2. t = Some(id, p)
    <3>1. Lies(Digits(id, IdWidth), buf, pos)
      BY <2>1 DEF U64
    <3> HIDE DEF id, t
    <3> QED
      BY <1>1, <3>1, TakeNumberIs DEF t
  <2>3. t.res = "some" /\ t.val = id /\ t.pos = p
    <3> HIDE DEF t, id, p
    <3> QED
      BY <2>2, SomeIs
  <2>4. u = Some(Part(attrs, S), q)
    <3>1. DecodeFrom("Str", buf, p, Part(attrs, {})) = Some(Part(attrs, {} \cup S), p + Len(b))
      <4> HIDE DEF attrs, p
      <4> QED
        BY <1>1, <1>2, <1>6, <2>1, BucketIs
    <3> HIDE DEF t, attrs, S, p
    <3> QED
      BY <1>6, <1>7, <2>3, <3>1
  <2>5. u.res = "some" /\ u.val = Part(attrs, S) /\ u.pos = q
    <3> HIDE DEF u, attrs, S, q
    <3> QED
      BY <2>4, SomeIs
  <2>6. v = Some(Part(attrs, SI), r)
    <3>1. DecodeFrom("Int", buf, q, Part(attrs, S)) = Some(Part(attrs, SI), q + Len(c))
      <4> HIDE DEF attrs, q
      <4> QED
        BY <1>1, <1>2, <1>6, <2>1, BucketIs
    <3> HIDE DEF u, attrs, S, SI, q
    <3> QED
      BY <2>5, <3>1
  <2>7. v.res = "some" /\ v.val = Part(attrs, SI) /\ v.pos = r
    <3> HIDE DEF v, attrs, SI, r
    <3> QED
      BY <2>6, SomeIs
  <2>8. w = Some(attrs, s)
    <3>1. DecodeFrom("Blob", buf, r, Part(attrs, SI)) = Some(Part(attrs, all), r + Len(d))
      <4> HIDE DEF attrs, r
      <4> QED
        BY <1>1, <1>2, <1>6, <2>1, BucketIs
    <3> HIDE DEF v, attrs, SI, all, r
    <3> QED
      BY <1>7, <2>7, <3>1
  <2>9. w.res = "some" /\ w.val = attrs /\ w.pos = s
    <3> HIDE DEF w, attrs, s
    <3> QED
      BY <2>8, SomeIs
  <2>10. DecodeEntity(buf, pos)
             = IF t.res # "some" THEN t ELSE IF u.res # "some" THEN u
               ELSE IF v.res # "some" THEN v ELSE IF w.res # "some" THEN w
               ELSE Some([id |-> t.val, attrs |-> w.val], w.pos)
    BY DEF DecodeEntity, Then
  <2> HIDE DEF t, u, v, w, s, id, attrs
  <2>11. DecodeEntity(buf, pos) = Some([id |-> id, attrs |-> attrs], s)
    BY <2>3, <2>5, <2>7, <2>9, <2>10
  <2>12. Some([id |-> id, attrs |-> attrs], s) = Some(e, s)
    BY <1>1
  <2> QED
    BY <2>1, <2>11, <2>12
<1>9. \E rest \in Seq(Bytes) : EncodeEntity(e) = U64(e.id) \o rest
  <2> DEFINE rest == (b \o c) \o d
             bc == b \o c
             ab == a \o b
  <2> HIDE DEF a, b, c, d
  <2>1. bc \in Seq(Bytes) /\ ab \in Seq(Bytes)
    BY <1>3, <1>4
  <2>2. ab \o c = a \o bc
    BY <1>3, <1>4
  <2> HIDE DEF bc, ab
  <2>3. bc \o d \in Seq(Bytes)
    BY <1>4, <2>1
  <2>4. (a \o bc) \o d = a \o (bc \o d)
    BY <1>3, <1>4, <2>1
  <2>5. a \o b \o c \o d = a \o (bc \o d)
    BY <2>2, <2>4 DEF ab
  <2> QED
    BY <1>5, <2>3, <2>5 DEF a
<1>10. a \o b \o c \o d \in Seq(Bytes)
  <2> HIDE DEF a, b, c, d
  <2> QED
    BY <1>3, <1>4, LiesFour
<1> HIDE DEF a, b, c, d
<1> QED
  BY <1>5, <1>8, <1>9, <1>10

\* The passes that encode the items of a batch.
LEMMA EncodeItemsLoop ==
    ASSUME CodecConstants, NEW items, items \in Seq(Range(items)),
           \A i \in DOMAIN items : IsEntity(items[i])
    PROVE  \E f : /\ f[0] = U32(Len(items))
                  /\ \A n \in 1 .. Len(items) : f[n] = f[n - 1] \o EncodeEntity(items[n])
                  /\ EncodeItems(items) = f[Len(items)]
<1> DEFINE S == Seq(Bytes)
           First == U32(Len(items))
           Pass(n, u) == u \o EncodeEntity(items[n])
           step == [y \in Nat \X S |-> IF y[1] \in 1 .. Len(items) THEN Pass(y[1], y[2]) ELSE y[2]]
           Is(f) == f = [n \in 0 .. Len(items) |-> IF n = 0 THEN First ELSE Pass(n, f[n - 1])]
<1>1. Len(items) \in Nat /\ First \in S
  <2>1. Len(items) \in Nat /\ LenWidth \in Nat
    BY DEF CodecConstants
  <2> QED
    BY <2>1, DigitsAre DEF U32
<1>2. ASSUME NEW n \in 1 .. Len(items), NEW u \in S
      PROVE  Pass(n, u) \in S
  <2>1. IsEntity(items[n])
    OBVIOUS
  <2> QED
    BY <2>1, EntityIs
<1>3. /\ step \in [Nat \X S -> S]
      /\ \A n \in 1 .. Len(items), u \in S : step[<<n, u>>] = Pass(n, u)
  <2>1. \A n \in 1 .. Len(items) : n \in Nat
    BY <1>1
  <2> HIDE DEF S, Pass
  <2> QED
    BY <1>1, <1>2, <2>1
<1>4. PICK f : IsLoop(f, S, Len(items), First, step)
  <2> HIDE DEF S, First, step
  <2> QED
    BY <1>1, <1>3, LoopExists, Zenon
<1>5. Is(f)
  <2> HIDE DEF S, First, Pass, step
  <2>1. f = [n \in 0 .. Len(items) |-> f[n]] /\ f[0] = First
    BY <1>4 DEF IsLoop
  <2>2. ASSUME NEW n \in 1 .. Len(items)
        PROVE  f[n] = Pass(n, f[n - 1])
    <3>1. n - 1 \in 0 .. Len(items)
      BY <1>1
    <3>2. f[n - 1] \in S /\ f[n] = step[<<n, f[n - 1]>>]
      BY <1>4, <3>1 DEF IsLoop
    <3> QED
      BY <1>3, <3>2
  <2>3. \A n \in 0 .. Len(items) : n # 0 => n \in 1 .. Len(items)
    BY <1>1
  <2> QED
    BY <2>1, <2>2, <2>3
<1> DEFINE c == CHOOSE e : Is(e)
<1>6. Is(c)
  <2> HIDE DEF Is
  <2> QED
    BY <1>5
<1>7. EncodeItems(items) = c[Len(items)]
  BY DEF EncodeItems
<1>8. c[0] = First /\ \A n \in 1 .. Len(items) : c[n] = Pass(n, c[n - 1])
  <2> HIDE DEF c, First, Pass
  <2>1. 0 \in 0 .. Len(items) /\ \A n \in 1 .. Len(items) : n \in 0 .. Len(items) /\ n # 0
    BY <1>1
  <2> QED
    BY <1>6, <2>1
<1> HIDE DEF c
<1> QED
  BY <1>7, <1>8


\* The passes of the decoder of a batch.
DecodesItems(buf, first, count, f) ==
    f[0] = first /\ \A n \in 1 .. count : f[n] = NextItem(buf, f[n - 1])

\* They decide what it decodes.
LEMMA DecodeItemsIs ==
    ASSUME NEW buf, NEW first, NEW count \in Nat,
           NEW f, DecodesItems(buf, first, count, f)
    PROVE  DecodeItems(buf, first, count) = f[count]
<1> DEFINE Pass(n, u) == NextItem(buf, u)
           Is(e) == e = [n \in 0 .. count |-> IF n = 0 THEN first ELSE Pass(n, e[n - 1])]
           g == [n \in 0 .. count |-> f[n]]
           c == CHOOSE e : Is(e)
           T == {n \in 0 .. count : c[n] = f[n]}
<1>1. count \in Nat
  OBVIOUS
<1>0. f[0] = first /\ \A n \in 1 .. count : f[n] = NextItem(buf, f[n - 1])
  BY DEF DecodesItems
<1>2. Is(g)
  <2>1. \A n \in 0 .. count : n # 0 => n \in 1 .. count /\ n - 1 \in 0 .. count
    BY <1>1
  <2> HIDE DEF Pass
  <2>2. \A n \in 1 .. count : f[n] = Pass(n, f[n - 1])
    BY <1>0 DEF Pass
  <2>3. ASSUME NEW n \in 0 .. count
        PROVE  g[n] = IF n = 0 THEN first ELSE Pass(n, g[n - 1])
    BY <1>0, <2>1, <2>2
  <2> QED
    BY <2>3
<1>3. Is(c)
  <2> HIDE DEF Is
  <2> QED
    BY <1>2
<1>4. DecodeItems(buf, first, count) = c[count]
  BY DEF DecodeItems
<1>5. c[0] = f[0] /\ \A n \in 1 .. count : c[n] = Pass(n, c[n - 1])
  <2> HIDE DEF c, Pass
  <2>1. 0 \in 0 .. count /\ \A n \in 1 .. count : n \in 0 .. count /\ n # 0
    BY <1>1
  <2> QED
    BY <1>0, <1>3, <2>1
<1> HIDE DEF c
<1>6. 0 \in T
  BY <1>1, <1>5
<1>7. ASSUME NEW n \in 1 .. count, n - 1 \in T
      PROVE  n \in T
  <2>1. f[n] = Pass(n, f[n - 1]) /\ c[n] = Pass(n, c[n - 1]) /\ c[n - 1] = f[n - 1]
    BY <1>0, <1>5, <1>7
  <2> HIDE DEF Pass
  <2>2. n \in 0 .. count
    BY <1>1
  <2> QED
    BY <2>1, <2>2
<1>8. \A n \in 0 .. count : n \in T
  <2> HIDE DEF T
  <2> QED
    BY <1>1, <1>6, <1>7, LoopKeeps
<1>9. c[count] = f[count]
  BY <1>1, <1>8
<1> QED
  BY <1>4, <1>9

\* The first elements of a sequence: none, one more, and all.
LEMMA PrefixIs ==
    ASSUME NEW T, NEW s \in Seq(T)
    PROVE  /\ SubSeq(s, 1, 0) = <<>>
           /\ \A n \in 1 .. Len(s) : SubSeq(s, 1, n) = Append(SubSeq(s, 1, n - 1), s[n])
           /\ SubSeq(s, 1, Len(s)) = s
<1>1. ASSUME NEW n \in 1 .. Len(s)
      PROVE  SubSeq(s, 1, n) = Append(SubSeq(s, 1, n - 1), s[n])
  <2> DEFINE a == SubSeq(s, 1, n)
             b == SubSeq(s, 1, n - 1)
  <2>1. a \in Seq(T) /\ Len(a) = n /\ \A i \in 1 .. n : a[i] = s[i]
    OBVIOUS
  <2>2. b \in Seq(T) /\ Len(b) = n - 1 /\ \A i \in 1 .. n - 1 : b[i] = s[i]
    OBVIOUS
  <2>3. s[n] \in T /\ n \in Nat
    OBVIOUS
  <2> HIDE DEF a, b
  <2>4. /\ Append(b, s[n]) \in Seq(T) /\ Len(Append(b, s[n])) = n
        /\ \A i \in 1 .. n : Append(b, s[n])[i] = s[i]
    <3> DEFINE e == s[n]
    <3>1. e \in T
      BY <2>3
    <3> HIDE DEF e
    <3>2. Append(b, e) \in Seq(T) /\ Len(Append(b, e)) = n
      BY <2>2, <2>3, <3>1
    <3>3. \A i \in 1 .. n : Append(b, e)[i] = IF i < n THEN b[i] ELSE e
      BY <2>2, <2>3, <3>1
    <3>4. \A i \in 1 .. n : Append(b, e)[i] = s[i]
      BY <2>2, <3>3 DEF e
    <3> QED
      BY <3>2, <3>4 DEF e
  <2> QED
    BY <2>1, <2>3, <2>4, SeqEqual
<1> QED
  BY <1>1

\* A batch is encoded in bytes and decoded from where they lie.
LEMMA ItemsAre ==
    ASSUME CodecConstants, NEW items, items \in Seq(Range(items)), Fits(Len(items), LenWidth),
           \A i \in DOMAIN items : IsEntity(items[i])
    PROVE  /\ EncodeItems(items) \in Seq(Bytes)
           /\ \A buf \in Seq(Bytes), pos \in Nat :
                 Lies(EncodeItems(items), buf, pos) =>
                     /\ TakeNumber(buf, pos, LenWidth, "none") = Some(Len(items), pos + LenWidth)
                     /\ DecodeItems(buf, Some(<<>>, pos + LenWidth), Len(items))
                            = Some(items, pos + Len(EncodeItems(items)))
<1> DEFINE N == Len(items)
           piece == [n \in 1 .. N |-> EncodeEntity(items[n])]
<1>1. N \in Nat /\ Fits(N, LenWidth) /\ \A n \in 1 .. N : IsEntity(items[n])
  OBVIOUS
<1>2. PICK f : /\ f[0] = U32(N)
               /\ \A n \in 1 .. N : f[n] = f[n - 1] \o EncodeEntity(items[n])
               /\ EncodeItems(items) = f[N]
  BY EncodeItemsLoop
<1>3. f[0] \in Seq(Bytes) /\ Len(f[0]) = LenWidth /\ LenWidth \in Nat
  BY <1>1, <1>2, DigitsAre DEF U32, CodecConstants
<1>4. IsPiled(f, N, piece)
  BY <1>1, <1>2, <1>3, EntityIs DEF IsPiled
<1>5. /\ \A n \in 0 .. N : f[n] \in Seq(Bytes)
      /\ \A n \in 1 .. N : Len(f[n]) = Len(f[n - 1]) + Len(piece[n])
  <2>1. Grows(f, N, piece)
    <3> HIDE DEF piece, N
    <3> QED
      BY <1>1, <1>4, PilesAre
  <2> HIDE DEF piece, N
  <2> QED
    BY <2>1 DEF Grows
<1>6. EncodeItems(items) = f[N] /\ f[N] \in Seq(Bytes)
  <2>1. N \in 0 .. N
    BY <1>1
  <2> QED
    BY <1>2, <1>5, <2>1
<1>7. ASSUME NEW buf \in Seq(Bytes), NEW pos \in Nat, Lies(f[N], buf, pos)
      PROVE  /\ TakeNumber(buf, pos, LenWidth, "none") = Some(N, pos + LenWidth)
             /\ DecodeItems(buf, Some(<<>>, pos + LenWidth), N) = Some(items, pos + Len(f[N]))
  <2>1. /\ \A n \in 0 .. N : Lies(f[n], buf, pos)
        /\ \A n \in 1 .. N : Lies(piece[n], buf, pos + Len(f[n - 1]))
    <3> HIDE DEF piece, N
    <3> QED
      BY <1>1, <1>4, <1>7, PilesLie
  <2> DEFINE first == Some(<<>>, pos + LenWidth)
             So(n) == SubSeq(items, 1, n)
             g == [n \in 0 .. N |-> Some(So(n), pos + Len(f[n]))]
  <2>2. TakeNumber(buf, pos, LenWidth, "none") = Some(N, pos + LenWidth)
    <3>1. Lies(Digits(N, LenWidth), buf, pos)
      <4>1. 0 \in 0 .. N
        BY <1>1
      <4> QED
        BY <1>2, <2>1, <4>1 DEF U32
    <3> HIDE DEF N
    <3> QED
      BY <1>1, <1>3, <3>1, TakeNumberIs
  <2>3. So(0) = <<>> /\ (\A n \in 1 .. N : So(n) = Append(So(n - 1), items[n])) /\ So(N) = items
    BY PrefixIs
  <2>4. g[0] = first
    <3>1. 0 \in 0 .. N
      BY <1>1
    <3> HIDE DEF So
    <3> QED
      BY <1>3, <2>3, <3>1
  <2>5. ASSUME NEW n \in 1 .. N
        PROVE  g[n] = NextItem(buf, g[n - 1])
    <3> DEFINE e == items[n]
               q == pos + Len(f[n - 1])
               r == pos + Len(f[n])
               d == DecodeEntity(buf, q)
               s == So(n - 1)
    <3>1. n - 1 \in 0 .. N /\ n \in 0 .. N
      BY <1>1
    <3>2. IsEntity(e)
      BY <1>1
    <3>3. q \in Nat
      BY <1>5, <3>1
    <3>4. Lies(EncodeEntity(e), buf, q)
      BY <2>1
    <3>5. r = q + Len(EncodeEntity(e))
      <4>1. Len(f[n - 1]) \in Nat
        BY <1>5, <3>1
      <4>2. Len(EncodeEntity(e)) \in Nat
        <5> HIDE DEF e
        <5> QED
          BY <3>2, EntityIs
      <4>3. Len(f[n]) = Len(f[n - 1]) + Len(EncodeEntity(e))
        BY <1>5
      <4> HIDE DEF e
      <4> QED
        BY <4>1, <4>2, <4>3
    <3>6. g[n - 1] = Some(s, q) /\ g[n] = Some(So(n), r)
      BY <3>1
    <3>7. So(n) = Append(s, e)
      BY <2>3
    <3>8. d = Some(e, r)
      <4> HIDE DEF e, q, r
      <4> QED
        BY <3>2, <3>3, <3>4, <3>5, EntityIs
    <3>9. d.res = "some" /\ d.val = e /\ d.pos = r
      <4> HIDE DEF d, e, r
      <4> QED
        BY <3>8, SomeIs
    <3>10. NextItem(buf, Some(s, q)) = IF d.res = "some" THEN Some(Append(s, d.val), d.pos) ELSE d
      <4> HIDE DEF s, q
      <4>1. Some(s, q).res = "some" /\ Some(s, q).val = s /\ Some(s, q).pos = q
        BY SomeIs
      <4> DEFINE o == Some(s, q)
                 k == DecodeEntity(buf, o.pos)
      <4>2. NextItem(buf, o)
                = IF o.res = "some"
                  THEN IF k.res = "some" THEN Some(Append(o.val, k.val), k.pos) ELSE k
                  ELSE o
        BY DEF NextItem, Then
      <4> HIDE DEF o
      <4>3. o.res = "some" /\ o.val = s /\ o.pos = q
        BY <4>1 DEF o
      <4>4. NextItem(buf, o) = IF d.res = "some" THEN Some(Append(s, d.val), d.pos) ELSE d
        BY <4>2, <4>3
      <4> QED
        BY <4>4 DEF o
    <3> HIDE DEF d, e, s, q, r, g, So
    <3> QED
      BY <3>6, <3>7, <3>9, <3>10
  <2>6. DecodeItems(buf, first, N) = g[N]
    <3>1. DecodesItems(buf, first, N, g)
      <4> HIDE DEF first, g, N
      <4> QED
        BY <2>4, <2>5 DEF DecodesItems
    <3> HIDE DEF first, g, N
    <3> QED
      BY <1>1, <3>1, DecodeItemsIs
  <2>7. g[N] = Some(items, pos + Len(f[N]))
    <3>1. N \in 0 .. N
      BY <1>1
    <3> HIDE DEF So
    <3> QED
      BY <2>3, <3>1
  <2> HIDE DEF g
  <2> QED
    BY <2>2, <2>6, <2>7
<1> QED
  BY <1>6, <1>7

\* The kind of a command is its first byte, and the rest lies behind it.
LEMMA KindIs ==
    ASSUME NEW k \in Bytes, NEW b \in Seq(Bytes)
    PROVE  /\ <<k>> \o b \in Seq(Bytes) /\ <<k>> \o b # <<>> /\ (<<k>> \o b)[1] = k
           /\ Len(<<k>> \o b) = 1 + Len(b)
           /\ Lies(b, <<k>> \o b, 1)
<1> DEFINE w == <<k>> \o b
<1>1. <<k>> \in Seq(Bytes) /\ Len(<<k>>) = 1 /\ <<k>>[1] = k
  OBVIOUS
<1>2. w \in Seq(Bytes) /\ Len(w) = 1 + Len(b) /\ w[1] = k
  <2> DEFINE o == <<k>>
  <2> HIDE DEF o
  <2>1. o \in Seq(Bytes)
    BY <1>1 DEF o
  <2>2. Len(o) = 1 /\ o[1] = k
    BY <1>1 DEF o
  <2>3. /\ o \o b \in Seq(Bytes) /\ Len(o \o b) = Len(o) + Len(b) /\ Len(b) \in Nat
        /\ \A i \in 1 .. Len(o) + Len(b) : (o \o b)[i] = IF i <= Len(o) THEN o[i] ELSE b[i - Len(o)]
    BY <2>1, ConcatProperties
  <2>4. 1 \in 1 .. Len(o) + Len(b) /\ 1 <= Len(o)
    BY <2>2, <2>3
  <2>5. (o \o b)[1] = o[1]
    BY <2>3, <2>4
  <2> QED
    BY <2>2, <2>3, <2>5 DEF o
<1>3. Lies(b, w, 1)
  <2>1. Lies(w, w, 0)
    <3> HIDE DEF w
    <3> QED
      BY <1>2, LiesWhole
  <2> DEFINE o == <<k>>
  <2>2. w = o \o b /\ o \in Seq(Bytes) /\ Len(o) = 1
    BY <1>1
  <2> HIDE DEF w, o
  <2>3. Lies(o \o b, w, 0)
    BY <2>1, <2>2
  <2>4. Lies(b, w, 0 + Len(o))
    BY <1>2, <2>2, <2>3, LiesConcat
  <2> QED
    BY <2>2, <2>4
<1>4. w # <<>>
  <2>1. Len(b) \in Nat
    OBVIOUS
  <2>2. Len(w) # 0
    BY <1>2, <2>1
  <2> HIDE DEF w
  <2> QED
    BY <2>2
<1> HIDE DEF w
<1> QED
  BY <1>2, <1>3, <1>4 DEF w

\* A command is decoded from the bytes it is encoded in, and all of them.
IsDecoded(c) ==
    Encode(c) \in Seq(Bytes) /\ Decode(Encode(c)) = Some(c, Len(Encode(c)))

\* An insertion is.
LEMMA InsertIs ==
    ASSUME CodecConstants, NEW c, c.kind = "Insert", c = [kind |-> "Insert", item |-> c.item],
           IsEntity(c.item)
    PROVE  IsDecoded(c)
<1> DEFINE e == c.item
           b == EncodeEntity(e)
           w == <<0>> \o b
           t == DecodeEntity(w, 1)
<1>1. IsEntity(e) /\ 0 \in Bytes /\ c = [kind |-> "Insert", item |-> e]
  BY BaseIs DEF Bytes
<1>2. Encode(c) = w
  BY DEF Encode
<1>3. b \in Seq(Bytes)
  <2> HIDE DEF e
  <2> QED
    BY <1>1, EntityIs
<1>4. w \in Seq(Bytes) /\ w # <<>> /\ w[1] = 0 /\ Len(w) = 1 + Len(b) /\ Lies(b, w, 1)
  <2> HIDE DEF b
  <2> QED
    BY <1>1, <1>3, KindIs
<1>5. t = Some(e, 1 + Len(b))
  <2> HIDE DEF e, w
  <2> QED
    BY <1>1, <1>4, EntityIs
<1>6. t.res = "some" /\ t.val = e /\ t.pos = Len(w)
  <2> HIDE DEF e, t, w, b
  <2> QED
    BY <1>4, <1>5, SomeIs
<1>7. DecodeInsert(w) = IF t.res = "some" THEN Some([kind |-> "Insert", item |-> t.val], t.pos) ELSE t
  BY DEF DecodeInsert, Then
<1> HIDE DEF e, t, w, b
<1>8. Decode(w) = DecodeInsert(w)
  BY <1>4 DEF Decode
<1> QED
  BY <1>1, <1>2, <1>4, <1>6, <1>7, <1>8 DEF IsDecoded

\* A batch is.
LEMMA BatchIs ==
    ASSUME CodecConstants, NEW c, c.kind = "BatchInsert",
           c = [kind |-> "BatchInsert", items |-> c.items],
           c.items \in Seq(Range(c.items)), Fits(Len(c.items), LenWidth),
           \A i \in DOMAIN c.items : IsEntity(c.items[i])
    PROVE  IsDecoded(c)
<1> DEFINE items == c.items
           b == EncodeItems(items)
           w == <<1>> \o b
           t == TakeNumber(w, 1, LenWidth, "none")
           u == DecodeItems(w, Some(<<>>, t.pos), t.val)
<1>1. /\ items \in Seq(Range(items)) /\ Fits(Len(items), LenWidth)
      /\ \A i \in DOMAIN items : IsEntity(items[i])
      /\ 1 \in Bytes /\ c = [kind |-> "BatchInsert", items |-> items]
  BY BaseIs DEF Bytes
<1>2. Encode(c) = w
  BY DEF Encode
<1>3. b \in Seq(Bytes)
  <2> HIDE DEF items
  <2> QED
    BY <1>1, ItemsAre
<1>4. w \in Seq(Bytes) /\ w # <<>> /\ w[1] = 1 /\ Len(w) = 1 + Len(b) /\ Lies(b, w, 1)
  <2> HIDE DEF b
  <2> QED
    BY <1>1, <1>3, KindIs
<1>5. /\ t = Some(Len(items), 1 + LenWidth)
      /\ DecodeItems(w, Some(<<>>, 1 + LenWidth), Len(items)) = Some(items, 1 + Len(b))
  <2> HIDE DEF items, w
  <2> QED
    BY <1>1, <1>4, ItemsAre
<1>6. t.res = "some" /\ t.val = Len(items) /\ t.pos = 1 + LenWidth
  <2> HIDE DEF items, t, w, b
  <2> QED
    BY <1>5, SomeIs
<1>7. u = Some(items, Len(w))
  <2> HIDE DEF items, t, w, b
  <2> QED
    BY <1>4, <1>5, <1>6
<1>8. u.res = "some" /\ u.val = items /\ u.pos = Len(w)
  <2> HIDE DEF items, u, w, b
  <2> QED
    BY <1>7, SomeIs
<1>9. DecodeBatch(w)
          = IF t.res = "some"
            THEN IF u.res = "some" THEN Some([kind |-> "BatchInsert", items |-> u.val], u.pos)
                 ELSE u
            ELSE t
  BY DEF DecodeBatch, Then
<1> HIDE DEF items, t, u, w, b
<1>10. Decode(w) = DecodeBatch(w)
  BY <1>4 DEF Decode
<1> QED
  BY <1>1, <1>2, <1>4, <1>6, <1>8, <1>9, <1>10 DEF IsDecoded

\* A deletion is.
LEMMA DeleteIs ==
    ASSUME CodecConstants, NEW c, c.kind = "Delete", c = [kind |-> "Delete", id |-> c.id],
           Fits(c.id, IdWidth)
    PROVE  IsDecoded(c)
<1> DEFINE id == c.id
           b == Digits(id, IdWidth)
           w == <<2>> \o b
           t == TakeNumber(w, 1, IdWidth, "none")
<1>1. /\ Fits(id, IdWidth) /\ id \in Nat /\ IdWidth \in Nat
      /\ 2 \in Bytes /\ c = [kind |-> "Delete", id |-> id]
  BY BaseIs DEF Bytes, Fits, CodecConstants
<1>2. Encode(c) = w
  BY DEF Encode, U64
<1>3. b \in Seq(Bytes) /\ Len(b) = IdWidth
  <2> HIDE DEF id
  <2> QED
    BY <1>1, DigitsAre
<1>4. w \in Seq(Bytes) /\ w # <<>> /\ w[1] = 2 /\ Len(w) = 1 + Len(b) /\ Lies(b, w, 1)
  <2> HIDE DEF b
  <2> QED
    BY <1>1, <1>3, KindIs
<1>5. t = Some(id, 1 + IdWidth)
  <2> HIDE DEF id, w
  <2> QED
    BY <1>1, <1>4, TakeNumberIs
<1>6. t.res = "some" /\ t.val = id /\ t.pos = Len(w)
  <2> HIDE DEF id, t, w, b
  <2> QED
    BY <1>3, <1>4, <1>5, SomeIs
<1>7. DecodeDelete(w) = IF t.res = "some" THEN Some([kind |-> "Delete", id |-> t.val], t.pos) ELSE t
  BY DEF DecodeDelete, Then
<1> HIDE DEF id, t, w, b
<1>8. Decode(w) = DecodeDelete(w)
  BY <1>4 DEF Decode
<1> QED
  BY <1>1, <1>2, <1>4, <1>6, <1>7, <1>8 DEF IsDecoded

\* A fast insertion is.
LEMMA FastIs ==
    ASSUME CodecConstants, NEW c, c.kind = "InsertFast",
           c = [kind |-> "InsertFast", id |-> c.id, epoch |-> c.epoch,
                record_type |-> c.record_type, payload |-> c.payload],
           Fits(c.id, IdWidth), Fits(c.epoch, LenWidth), Fits(c.record_type, LenWidth),
           IsBlob(c.payload)
    PROVE  IsDecoded(c)
<1> DEFINE id == c.id
           epoch == c.epoch
           type == c.record_type
           payload == c.payload
           a == Digits(id, IdWidth)
           b == Digits(epoch, LenWidth)
           d == Digits(type, LenWidth)
           e == Prefixed(payload)
           k == <<3>>
           ka == k \o a
           w == ka \o b \o d \o e
           t == TakeNumber(w, 1, IdWidth, "none")
           u == TakeNumber(w, t.pos, LenWidth, "none")
           v == TakeNumber(w, u.pos, LenWidth, "none")
           x == TakePrefixed(w, v.pos, "none")
           p == 1 + IdWidth
           q == p + LenWidth
           r == q + LenWidth
<1>1. /\ Fits(id, IdWidth) /\ Fits(epoch, LenWidth) /\ Fits(type, LenWidth) /\ IsBlob(payload)
      /\ id \in Nat /\ epoch \in Nat /\ type \in Nat /\ IdWidth \in Nat /\ LenWidth \in Nat
      /\ payload \in Seq(Bytes) /\ 3 \in Bytes
      /\ c = [kind |-> "InsertFast", id |-> id, epoch |-> epoch,
              record_type |-> type, payload |-> payload]
  BY BaseIs DEF Bytes, Fits, CodecConstants, IsBlob
<1>2. Encode(c) = w
  BY DEF Encode, U64, U32
<1>3. /\ a \in Seq(Bytes) /\ Len(a) = IdWidth /\ b \in Seq(Bytes) /\ Len(b) = LenWidth
      /\ d \in Seq(Bytes) /\ Len(d) = LenWidth
  <2> HIDE DEF id, epoch, type
  <2> QED
    BY <1>1, DigitsAre
<1>4. e \in Seq(Bytes)
  <2> HIDE DEF payload
  <2> QED
    BY <1>1, PrefixedIs
<1>5. ka \in Seq(Bytes) /\ Len(ka) = p /\ ka[1] = 3 /\ k \in Seq(Bytes) /\ Len(k) = 1
  <2>1. k \in Seq(Bytes) /\ Len(k) = 1
    BY <1>1
  <2>2. ka \in Seq(Bytes) /\ Len(ka) = 1 + Len(a) /\ ka[1] = 3
    <3> HIDE DEF a
    <3> QED
      BY <1>1, <1>3, KindIs
  <2> HIDE DEF a, k, ka
  <2> QED
    BY <1>1, <1>3, <2>1, <2>2
<1>6. /\ w \in Seq(Bytes) /\ Len(w) = Len(ka) + Len(b) + Len(d) + Len(e)
      /\ \A buf \in Seq(Bytes), pos \in Nat :
            Lies(w, buf, pos) =>
                /\ Lies(ka, buf, pos) /\ Lies(b, buf, pos + Len(ka))
                /\ Lies(d, buf, pos + Len(ka) + Len(b))
                /\ Lies(e, buf, pos + Len(ka) + Len(b) + Len(d))
  <2>1. ka \in Seq(Bytes) /\ b \in Seq(Bytes) /\ d \in Seq(Bytes)
    BY <1>3, <1>5
  <2> HIDE DEF ka, b, d, e
  <2> QED
    BY <1>4, <2>1, LiesFour
<1>7. /\ Lies(ka, w, 0) /\ Lies(b, w, 0 + Len(ka)) /\ Lies(d, w, 0 + Len(ka) + Len(b))
      /\ Lies(e, w, 0 + Len(ka) + Len(b) + Len(d))
  <2>1. Lies(w, w, 0)
    <3> HIDE DEF w
    <3> QED
      BY <1>6, LiesWhole
  <2> HIDE DEF w, ka, b, d, e
  <2> QED
    BY <1>6, <2>1
<1>8. 0 + Len(ka) = p /\ 0 + Len(ka) + Len(b) = q /\ 0 + Len(ka) + Len(b) + Len(d) = r
  <2>1. Len(ka) = p /\ Len(b) = LenWidth /\ Len(d) = LenWidth
    BY <1>3, <1>5
  <2> HIDE DEF ka, b, d
  <2> QED
    BY <1>1, <2>1
<1>9. Lies(a, w, 1)
  <2>1. Lies(k \o a, w, 0)
    BY <1>7
  <2>2. k \in Seq(Bytes) /\ a \in Seq(Bytes) /\ w \in Seq(Bytes) /\ Len(k) = 1
    BY <1>3, <1>5, <1>6
  <2> HIDE DEF k, a, w
  <2>3. Lies(a, w, 0 + Len(k))
    BY <2>1, <2>2, LiesConcat
  <2> QED
    BY <2>2, <2>3
<1>10. Lies(b, w, p) /\ Lies(d, w, q) /\ Lies(e, w, r) /\ p \in Nat /\ q \in Nat /\ r \in Nat
  <2>1. p \in Nat /\ q \in Nat /\ r \in Nat
    BY <1>1
  <2> HIDE DEF ka, b, d, e, w, p, q, r
  <2> QED
    BY <1>7, <1>8, <2>1
<1>11. w \in Seq(Bytes) /\ w # <<>> /\ w[1] = 3 /\ Len(w) = r + Len(e) /\ Len(e) \in Nat
  <2>1. w \in Seq(Bytes)
    BY <1>6
  <2>2. Len(w) = r + Len(e)
    <3>1. Len(w) = Len(ka) + Len(b) + Len(d) + Len(e) /\ Len(ka) = p /\ Len(b) = LenWidth
          /\ Len(d) = LenWidth
      BY <1>3, <1>5, <1>6
    <3> HIDE DEF w, ka, b, d, e
    <3> QED
      BY <3>1
  <2>3. Len(e) \in Nat
    <3> HIDE DEF e
    <3> QED
      BY <1>4
  <2>4. w[1] = 3
    <3>1. \A i \in 1 .. Len(ka) : w[0 + i] = ka[i]
      BY <1>7 DEF Lies
    <3>2. 1 \in 1 .. Len(ka) /\ 0 + 1 = 1
      <4>1. Len(ka) = p
        BY <1>5
      <4> HIDE DEF ka
      <4> QED
        BY <1>1, <4>1
    <3> HIDE DEF w, ka
    <3> QED
      BY <1>5, <3>1, <3>2
  <2>5. Len(w) # 0
    <3> HIDE DEF w, e
    <3> QED
      BY <1>1, <2>2, <2>3
  <2> HIDE DEF w, e
  <2> QED
    BY <2>1, <2>2, <2>3, <2>4, <2>5
<1> HIDE DEF w, id, epoch, type, payload
<1>12. t = Some(id, p)
  BY <1>1, <1>9, <1>11, TakeNumberIs
<1>13. t.res = "some" /\ t.val = id /\ t.pos = p
  <2> HIDE DEF t, p
  <2> QED
    BY <1>12, SomeIs
<1>14. u = Some(epoch, q)
  <2>1. TakeNumber(w, p, LenWidth, "none") = Some(epoch, p + LenWidth)
    <3> HIDE DEF p
    <3> QED
      BY <1>1, <1>10, <1>11, TakeNumberIs
  <2> HIDE DEF t
  <2> QED
    BY <1>13, <2>1
<1>15. u.res = "some" /\ u.val = epoch /\ u.pos = q
  <2> HIDE DEF u, q
  <2> QED
    BY <1>14, SomeIs
<1>16. v = Some(type, r)
  <2>1. TakeNumber(w, q, LenWidth, "none") = Some(type, q + LenWidth)
    <3> HIDE DEF q
    <3> QED
      BY <1>1, <1>10, <1>11, TakeNumberIs
  <2> HIDE DEF u
  <2> QED
    BY <1>15, <2>1
<1>17. v.res = "some" /\ v.val = type /\ v.pos = r
  <2> HIDE DEF v, r
  <2> QED
    BY <1>16, SomeIs
<1>18. x = Some(payload, r + Len(e))
  <2>1. TakePrefixed(w, r, "none") = Some(payload, r + Len(e))
    <3> HIDE DEF r
    <3> QED
      BY <1>1, <1>10, <1>11, TakePrefixedIs
  <2> HIDE DEF v
  <2> QED
    BY <1>17, <2>1
<1>19. x.res = "some" /\ x.val = payload /\ x.pos = Len(w)
  <2>1. x = Some(payload, Len(w))
    <3> HIDE DEF x, e, r
    <3> QED
      BY <1>11, <1>18
  <2> HIDE DEF x
  <2> QED
    BY <2>1, SomeIs
<1>20. DecodeFast(w)
           = IF t.res # "some" THEN t ELSE IF u.res # "some" THEN u
             ELSE IF v.res # "some" THEN v ELSE IF x.res # "some" THEN x
             ELSE Some([kind |-> "InsertFast", id |-> t.val, epoch |-> u.val,
                        record_type |-> v.val, payload |-> x.val], x.pos)
  BY DEF DecodeFast, Then
<1> HIDE DEF t, u, v, x, p, q, r
<1>21. DecodeFast(w) = Some(c, Len(w))
  BY <1>1, <1>13, <1>15, <1>17, <1>19, <1>20
<1>22. Decode(w) = DecodeFast(w)
  BY <1>11 DEF Decode
<1> QED
  BY <1>2, <1>11, <1>21, <1>22 DEF IsDecoded

\* Every command that can be encoded is.
LEMMA CommandIs ==
    ASSUME CodecConstants, NEW c, IsCommand(c)
    PROVE  IsDecoded(c)
<1>1. CASE c.kind = "Insert" /\ c = [kind |-> "Insert", item |-> c.item] /\ IsEntity(c.item)
  BY <1>1, InsertIs
<1>2. CASE /\ c.kind = "BatchInsert" /\ c = [kind |-> "BatchInsert", items |-> c.items]
           /\ c.items \in Seq(Range(c.items)) /\ Fits(Len(c.items), LenWidth)
           /\ \A i \in DOMAIN c.items : IsEntity(c.items[i])
  BY <1>2, BatchIs
<1>3. CASE c.kind = "Delete" /\ c = [kind |-> "Delete", id |-> c.id] /\ Fits(c.id, IdWidth)
  BY <1>3, DeleteIs
<1>4. CASE /\ c.kind = "InsertFast"
           /\ c = [kind |-> "InsertFast", id |-> c.id, epoch |-> c.epoch,
                   record_type |-> c.record_type, payload |-> c.payload]
           /\ Fits(c.id, IdWidth) /\ Fits(c.epoch, LenWidth) /\ Fits(c.record_type, LenWidth)
           /\ IsBlob(c.payload)
  BY <1>4, FastIs
<1> QED
  BY <1>1, <1>2, <1>3, <1>4 DEF IsCommand

-----------------------------------------------------------------------------
(* Scans *)

\* What a scan finds, and how far it is.
Records == [at : Nat, body : Seq(Bytes)]
Scanned == [pos : Nat, records : Seq(Records), done : BOOLEAN]
At(p, r) == [pos |-> p, records |-> r, done |-> FALSE]

\* A step of a scan over a whole record.
LEMMA StepWhole ==
    ASSUME CodecConstants, NEW bytes \in Seq(Bytes), NEW p \in Nat, NEW r \in Seq(Records),
           p + LenWidth <= Len(bytes),
           NEW n, n = Number(SubSeq(bytes, p + 1, p + LenWidth)),
           p + LenWidth + n <= Len(bytes)
    PROVE  ScanStep(bytes, At(p, r))
               = At(p + LenWidth + n,
                    Append(r, [at |-> p, body |-> SubSeq(bytes, p + LenWidth + 1, p + LenWidth + n)]))
<1> DEFINE s == At(p, r)
<1>1. s.pos = p /\ s.records = r /\ s.done = FALSE
  BY DEF At
<1>2. LenWidth \in Nat
  BY DEF CodecConstants
<1> HIDE DEF s
<1>3. ~(p + LenWidth > Len(bytes))
  <2>1. Len(bytes) \in Nat
    OBVIOUS
  <2> QED
    BY <1>2, <2>1
<1>4. ScanStep(bytes, s)
        = [pos |-> p + LenWidth + n, done |-> FALSE,
           records |-> Append(r, [at |-> p, body |-> SubSeq(bytes, p + LenWidth + 1, p + LenWidth + n)])]
  BY <1>1, <1>3 DEF ScanStep, Whole
<1> QED
  BY <1>4 DEF s, At

\* A step of a scan where no length is whole.
LEMMA StepShort ==
    ASSUME CodecConstants, NEW bytes \in Seq(Bytes), NEW p \in Nat, NEW r \in Seq(Records),
           p + LenWidth > Len(bytes)
    PROVE  ScanStep(bytes, At(p, r)) = [pos |-> p, records |-> r, done |-> TRUE]
  BY DEF ScanStep, At

\* A step of a scan where a record is cut.
LEMMA StepCut ==
    ASSUME CodecConstants, NEW bytes \in Seq(Bytes), NEW p \in Nat, NEW r \in Seq(Records),
           p + LenWidth <= Len(bytes),
           NEW n \in Nat, n = Number(SubSeq(bytes, p + 1, p + LenWidth)),
           p + LenWidth + n > Len(bytes)
    PROVE  ScanStep(bytes, At(p, r)) = [pos |-> p + LenWidth, records |-> r, done |-> TRUE]
<1> DEFINE s == At(p, r)
           q == p + LenWidth
<1>1. s.pos = p /\ s.records = r /\ s.done = FALSE
  BY DEF At
<1>5. [s EXCEPT !.pos = q, !.done = TRUE] = [pos |-> q, records |-> r, done |-> TRUE]
  <2> HIDE DEF q
  <2>1. ASSUME NEW f, NEW t
        PROVE  [[pos |-> p, records |-> r, done |-> f] EXCEPT !.pos = q, !.done = t]
                   = [pos |-> q, records |-> r, done |-> t]
    <3>1. [[pos |-> p, records |-> r, done |-> f] EXCEPT !.pos = q]
              = [pos |-> q, records |-> r, done |-> f]
      OBVIOUS
    <3>2. [[pos |-> q, records |-> r, done |-> f] EXCEPT !.done = t]
              = [pos |-> q, records |-> r, done |-> t]
      OBVIOUS
    <3>3. [[pos |-> p, records |-> r, done |-> f] EXCEPT !.pos = q, !.done = t]
              = [[[pos |-> p, records |-> r, done |-> f] EXCEPT !.pos = q] EXCEPT !.done = t]
      OBVIOUS
    <3> QED
      BY <3>1, <3>2, <3>3
  <2> QED
    BY <2>1, Zenon DEF s, At
<1>2. LenWidth \in Nat
  BY DEF CodecConstants
<1> HIDE DEF s
<1>3. ~(p + LenWidth > Len(bytes)) /\ ~(p + LenWidth + n <= Len(bytes))
  <2>1. Len(bytes) \in Nat
    OBVIOUS
  <2> QED
    BY <1>2, <2>1
<1>4. ScanStep(bytes, s) = [s EXCEPT !.pos = p + LenWidth, !.done = TRUE]
  BY <1>1, <1>3 DEF ScanStep, Whole
<1> QED
  BY <1>4, <1>5 DEF s

\* The number a whole length lies at, and the record behind it.
LEMMA StepOver ==
    ASSUME CodecConstants, NEW bytes \in Seq(Bytes), NEW p \in Nat, NEW r \in Seq(Records),
           NEW b \in Seq(Bytes), Fits(Len(b), LenWidth), Lies(Prefixed(b), bytes, p)
    PROVE  ScanStep(bytes, At(p, r)) = At(p + LenWidth + Len(b), Append(r, [at |-> p, body |-> b]))
<1> DEFINE n == Len(b)
           d == Digits(n, LenWidth)
<1>1. n \in Nat /\ LenWidth \in Nat /\ Fits(n, LenWidth) /\ Len(bytes) \in Nat
  BY DEF CodecConstants
<1>2. d \in Seq(Bytes) /\ Len(d) = LenWidth /\ Number(d) = n
  <2> HIDE DEF n
  <2> QED
    BY <1>1, DigitsAre, NumberOfDigits
<1>3. Prefixed(b) = d \o b
  BY DEF Prefixed, U32
<1> HIDE DEF d
<1>4. Lies(d, bytes, p) /\ Lies(b, bytes, p + LenWidth)
  <2>1. Lies(d, bytes, p) /\ Lies(b, bytes, p + Len(d))
    BY <1>2, <1>3, LiesConcat
  <2> QED
    BY <1>2, <2>1
<1>5. SubSeq(bytes, p + 1, p + LenWidth) = d
  BY <1>2, <1>4, LiesCut
<1>6. p + LenWidth \in Nat
  BY <1>1
<1>7. SubSeq(bytes, p + LenWidth + 1, p + LenWidth + n) = b /\ p + LenWidth + n <= Len(bytes)
  <2> DEFINE q == p + LenWidth
  <2>1. q \in Nat /\ Lies(b, bytes, q)
    BY <1>4, <1>6
  <2> HIDE DEF q
  <2>2. SubSeq(bytes, q + 1, q + Len(b)) = b
    BY <2>1, LiesCut
  <2>3. q + Len(b) <= Len(bytes)
    BY <2>1 DEF Lies
  <2> QED
    BY <2>2, <2>3 DEF q
<1> HIDE DEF n
<1>8. p + LenWidth <= Len(bytes)
  BY <1>1, <1>7
<1>9. n = Number(SubSeq(bytes, p + 1, p + LenWidth))
  BY <1>2, <1>5
<1>10. ScanStep(bytes, At(p, r))
           = At(p + LenWidth + n,
                Append(r, [at |-> p, body |-> SubSeq(bytes, p + LenWidth + 1, p + LenWidth + n)]))
  BY <1>1, <1>7, <1>8, <1>9, StepWhole
<1> QED
  BY <1>7, <1>10 DEF n

\* A step leaves a scan one.
LEMMA StepIs ==
    ASSUME CodecConstants, NEW bytes \in Seq(Bytes), NEW s \in Scanned
    PROVE  ScanStep(bytes, s) \in Scanned
<1> DEFINE p == s.pos
           r == s.records
           digits == SubSeq(bytes, p + 1, p + LenWidth)
           n == Number(digits)
<1>1. p \in Nat /\ r \in Seq(Records) /\ LenWidth \in Nat /\ Len(bytes) \in Nat
  BY DEF Scanned, CodecConstants
<1>2. CASE s.done
  BY <1>2 DEF ScanStep
<1>3. CASE ~s.done
  <2>1. s = At(p, r)
    BY <1>3 DEF Scanned, At
  <2>2. CASE p + LenWidth > Len(bytes)
    <3>1. ScanStep(bytes, At(p, r)) = [pos |-> p, records |-> r, done |-> TRUE]
      <4> HIDE DEF p, r
      <4> QED
        BY <1>1, <2>2, StepShort
    <3> HIDE DEF p, r
    <3> QED
      BY <1>1, <2>1, <3>1 DEF Scanned
  <2>3. CASE p + LenWidth <= Len(bytes)
    <3>1. digits \in Seq(Bytes)
      <4> HIDE DEF p
      <4> QED
        BY <1>1, <2>3
    <3>2. n \in Nat
      <4> HIDE DEF digits
      <4> QED
        BY <3>1, NumberIs
    <3>3. n = Number(SubSeq(bytes, p + 1, p + LenWidth))
      OBVIOUS
    <3> HIDE DEF p, r, n, digits
    <3>4. CASE p + LenWidth + n <= Len(bytes)
      <4> DEFINE b == SubSeq(bytes, p + LenWidth + 1, p + LenWidth + n)
      <4>1. ScanStep(bytes, At(p, r)) = At(p + LenWidth + n, Append(r, [at |-> p, body |-> b]))
        BY <1>1, <2>3, <3>2, <3>3, <3>4, StepWhole
      <4>2. b \in Seq(Bytes)
        <5> DEFINE q == p + LenWidth + 1
                   o == p + LenWidth + n
        <5>1. q \in 1 .. Len(bytes) + 1 /\ o \in 0 .. Len(bytes)
          BY <1>1, <3>2, <3>4
        <5> HIDE DEF q, o
        <5>2. SubSeq(bytes, q, o) \in Seq(Bytes)
          BY <5>1
        <5> QED
          BY <5>2 DEF q, o
      <4> HIDE DEF b
      <4>3. [at |-> p, body |-> b] \in Records
        BY <1>1, <4>2 DEF Records
      <4>4. Append(r, [at |-> p, body |-> b]) \in Seq(Records)
        <5> DEFINE e == [at |-> p, body |-> b]
        <5>1. e \in Records
          BY <4>3
        <5> HIDE DEF e
        <5>2. Append(r, e) \in Seq(Records)
          BY <1>1, <5>1
        <5> QED
          BY <5>2 DEF e
      <4>5. p + LenWidth + n \in Nat
        BY <1>1, <3>2
      <4> DEFINE o == p + LenWidth + n
                 e == Append(r, [at |-> p, body |-> b])
      <4>6. ScanStep(bytes, s) = [pos |-> o, records |-> e, done |-> FALSE]
        BY <2>1, <4>1 DEF At
      <4>7. o \in Nat /\ e \in Seq(Records)
        BY <4>4, <4>5
      <4> HIDE DEF o, e
      <4> QED
        BY <4>6, <4>7 DEF Scanned
    <3>5. CASE p + LenWidth + n > Len(bytes)
      <4>1. ScanStep(bytes, At(p, r)) = [pos |-> p + LenWidth, records |-> r, done |-> TRUE]
        BY <1>1, <2>3, <3>2, <3>3, <3>5, StepCut
      <4>2. p + LenWidth \in Nat
        BY <1>1
      <4> QED
        BY <1>1, <2>1, <4>1, <4>2 DEF Scanned
    <3> QED
      BY <1>1, <3>2, <3>4, <3>5
  <2> HIDE DEF p
  <2> QED
    BY <1>1, <2>2, <2>3
<1> QED
  BY <1>2, <1>3

\* The steps of a scan.
LEMMA ScanLoop ==
    ASSUME CodecConstants, NEW bytes \in Seq(Bytes)
    PROVE  \E f : /\ f[0] = [pos |-> 0, records |-> <<>>, done |-> FALSE]
                  /\ \A n \in 1 .. Len(bytes) + 1 : f[n] = ScanStep(bytes, f[n - 1])
                  /\ Scan(bytes) = f[Len(bytes) + 1]
<1> DEFINE S == Scanned
           First == [pos |-> 0, records |-> <<>>, done |-> FALSE]
           Pass(n, u) == ScanStep(bytes, u)
           step == [y \in Nat \X S |-> IF y[1] \in 1 .. Len(bytes) + 1 THEN Pass(y[1], y[2]) ELSE y[2]]
           Is(f) == f = [n \in 0 .. Len(bytes) + 1 |-> IF n = 0 THEN First ELSE Pass(n, f[n - 1])]
<1>1. Len(bytes) + 1 \in Nat /\ First \in S
  <2>1. Len(bytes) \in Nat
    OBVIOUS
  <2>2. <<>> \in Seq(Records)
    OBVIOUS
  <2> QED
    BY <2>1, <2>2 DEF Scanned
<1>2. ASSUME NEW n \in 1 .. Len(bytes) + 1, NEW u \in S
      PROVE  Pass(n, u) \in S
  <2> HIDE DEF S
  <2>1. u \in Scanned
    BY DEF S
  <2>2. ScanStep(bytes, u) \in Scanned
    BY <2>1, StepIs
  <2> QED
    BY <2>2 DEF S
<1>3. /\ step \in [Nat \X S -> S]
      /\ \A n \in 1 .. Len(bytes) + 1, u \in S : step[<<n, u>>] = Pass(n, u)
  <2>1. \A n \in 1 .. Len(bytes) + 1 : n \in Nat
    BY <1>1
  <2> HIDE DEF S, Pass
  <2> QED
    BY <1>1, <1>2, <2>1
<1>4. PICK f : IsLoop(f, S, Len(bytes) + 1, First, step)
  <2> HIDE DEF S, First, step
  <2> QED
    BY <1>1, <1>3, LoopExists, Zenon
<1>5. Is(f)
  <2> HIDE DEF S, First, Pass, step
  <2>1. f = [n \in 0 .. Len(bytes) + 1 |-> f[n]] /\ f[0] = First
    BY <1>4 DEF IsLoop
  <2>2. ASSUME NEW n \in 1 .. Len(bytes) + 1
        PROVE  f[n] = Pass(n, f[n - 1])
    <3>1. n - 1 \in 0 .. Len(bytes) + 1
      BY <1>1
    <3>2. f[n - 1] \in S /\ f[n] = step[<<n, f[n - 1]>>]
      BY <1>4, <3>1 DEF IsLoop
    <3> QED
      BY <1>3, <3>2
  <2>3. \A n \in 0 .. Len(bytes) + 1 : n # 0 => n \in 1 .. Len(bytes) + 1
    BY <1>1
  <2> QED
    BY <2>1, <2>2, <2>3
<1> DEFINE c == CHOOSE e : Is(e)
<1>6. Is(c)
  <2> HIDE DEF Is
  <2> QED
    BY <1>5
<1>7. Scan(bytes) = c[Len(bytes) + 1]
  BY DEF Scan
<1>8. c[0] = First /\ \A n \in 1 .. Len(bytes) + 1 : c[n] = Pass(n, c[n - 1])
  <2> HIDE DEF c, First, Pass
  <2>1. 0 \in 0 .. Len(bytes) + 1 /\ \A n \in 1 .. Len(bytes) + 1 : n \in 0 .. Len(bytes) + 1 /\ n # 0
    BY <1>1
  <2> QED
    BY <1>6, <2>1
<1> HIDE DEF c
<1> QED
  BY <1>7, <1>8

\* The passes of a replay.
Results(records) ==
    LET upTo[i \in 0 .. Len(records)] ==
            IF i = 0 THEN <<>> ELSE Applied(upTo[i - 1], Decode(records[i].body))
    IN  upTo[Len(records)]

\* The passes of a replay exist, and the last one is its result.
LEMMA ReplayLoop ==
    ASSUME NEW records \in Seq(Records)
    PROVE  \E f : /\ f[0] = <<>>
                  /\ \A n \in 1 .. Len(records) : f[n] = Applied(f[n - 1], Decode(records[n].body))
                  /\ Results(records) = f[Len(records)]
<1> DEFINE S == Seq({Decode(records[i].body) : i \in DOMAIN records})
           First == <<>>
           Pass(n, u) == Applied(u, Decode(records[n].body))
           step == [y \in Nat \X S |-> IF y[1] \in 1 .. Len(records) THEN Pass(y[1], y[2]) ELSE y[2]]
           Is(f) == f = [n \in 0 .. Len(records) |-> IF n = 0 THEN First ELSE Pass(n, f[n - 1])]
<1>1. Len(records) \in Nat /\ First \in S
  OBVIOUS
<1>2. ASSUME NEW n \in 1 .. Len(records), NEW u \in S
      PROVE  Pass(n, u) \in S
  <2> DEFINE V == {Decode(records[i].body) : i \in DOMAIN records}
             d == Decode(records[n].body)
  <2>1. d \in V /\ u \in Seq(V)
    OBVIOUS
  <2> HIDE DEF d, V
  <2>2. Applied(u, d) \in Seq(V)
    BY <2>1 DEF Applied
  <2> QED
    BY <2>2 DEF d, V
<1>3. /\ step \in [Nat \X S -> S]
      /\ \A n \in 1 .. Len(records), u \in S : step[<<n, u>>] = Pass(n, u)
  <2>1. \A n \in 1 .. Len(records) : n \in Nat
    BY <1>1
  <2> HIDE DEF S, Pass
  <2> QED
    BY <1>1, <1>2, <2>1
<1>4. PICK f : IsLoop(f, S, Len(records), First, step)
  <2> HIDE DEF S, First, step
  <2> QED
    BY <1>1, <1>3, LoopExists, Zenon
<1>5. Is(f)
  <2> HIDE DEF S, First, Pass, step
  <2>1. f = [n \in 0 .. Len(records) |-> f[n]] /\ f[0] = First
    BY <1>4 DEF IsLoop
  <2>2. ASSUME NEW n \in 1 .. Len(records)
        PROVE  f[n] = Pass(n, f[n - 1])
    <3>1. n - 1 \in 0 .. Len(records)
      BY <1>1
    <3>2. f[n - 1] \in S /\ f[n] = step[<<n, f[n - 1]>>]
      BY <1>4, <3>1 DEF IsLoop
    <3> QED
      BY <1>3, <3>2
  <2>3. \A n \in 0 .. Len(records) : n # 0 => n \in 1 .. Len(records)
    BY <1>1
  <2> QED
    BY <2>1, <2>2, <2>3
<1> DEFINE c == CHOOSE e : Is(e)
<1>6. Is(c)
  <2> HIDE DEF Is
  <2> QED
    BY <1>5
<1>7. Results(records) = c[Len(records)]
  BY DEF Results
<1>8. c[0] = First /\ \A n \in 1 .. Len(records) : c[n] = Pass(n, c[n - 1])
  <2> HIDE DEF c, First, Pass
  <2>1. 0 \in 0 .. Len(records) /\ \A n \in 1 .. Len(records) : n \in 0 .. Len(records) /\ n # 0
    BY <1>1
  <2> QED
    BY <1>6, <2>1
<1> HIDE DEF c
<1> QED
  BY <1>7, <1>8

\* A scan that is done stays where it is.
LEMMA ScanStays ==
    ASSUME NEW bytes \in Seq(Bytes), NEW g,
           \A n \in 1 .. Len(bytes) + 1 : g[n] = ScanStep(bytes, g[n - 1]),
           NEW k \in 0 .. Len(bytes) + 1, g[k].done = TRUE
    PROVE  g[Len(bytes) + 1] = g[k]
<1> DEFINE N == Len(bytes) + 1 - k
           T == {n \in 0 .. N : g[k + n] = g[k]}
<1>1. Len(bytes) \in Nat /\ N \in Nat /\ k + N = Len(bytes) + 1 /\ k + 0 = k
  OBVIOUS
<1>2. 0 \in T
  BY <1>1
<1>3. ASSUME NEW n \in 1 .. N, n - 1 \in T
      PROVE  n \in T
  <2>1. g[k + (n - 1)] = g[k]
    BY <1>3
  <2>2. k + n \in 1 .. Len(bytes) + 1 /\ (k + n) - 1 = k + (n - 1) /\ n \in 0 .. N
    BY <1>1
  <2>3. g[k + n] = ScanStep(bytes, g[k])
    BY <2>1, <2>2
  <2>4. ScanStep(bytes, g[k]) = g[k]
    BY DEF ScanStep
  <2> QED
    BY <2>2, <2>3, <2>4
<1>4. \A n \in 0 .. N : n \in T
  <2> HIDE DEF T, N
  <2> QED
    BY <1>1, <1>2, <1>3, LoopKeeps
<1>5. N \in T
  <2> HIDE DEF T
  <2> QED
    BY <1>1, <1>4
<1> QED
  BY <1>1, <1>5
-----------------------------------------------------------------------------
(* The log *)

\* The records of commands.
Piece(cmds) == [i \in 1 .. Len(cmds) |-> Prefixed(Encode(cmds[i]))]

\* Bytes end in a part of a record behind what is whole.
CutOff(bytes, whole, record, n) ==
    n \in 0 .. Len(record) - 1 /\ bytes = SubSeq(whole \o record, 1, Len(whole) + n)

\* The log is the records of the commands, one behind the other in f, and
\* nothing else or a part of one more.
LogIs(bytes, cmds, how, f) ==
    /\ f[0] = <<>> /\ IsPiled(f, Len(cmds), Piece(cmds))
    /\ how = "no" => bytes = f[Len(cmds)]
    /\ how = "end" =>
          \E c \in Commands : \E n \in Nat :
              CutOff(bytes, f[Len(cmds)], Prefixed(Encode(c)), n)

\* The command that is logged is in its record.
LEMMA LoggedIs ==
    ASSUME CodecConstants, NEW c \in Commands
    PROVE  /\ Encode(c) \in Seq(Bytes) /\ Fits(Len(Encode(c)), LenWidth) /\ Len(Encode(c)) \in Nat
           /\ Decode(Encode(c)) = Some(c, Len(Encode(c)))
           /\ Prefixed(Encode(c)) \in Seq(Bytes)
           /\ Len(Prefixed(Encode(c))) = LenWidth + Len(Encode(c))
           /\ LenWidth \in Nat /\ LenWidth > 0
<1>1. IsCommand(c) /\ Fits(Len(Encode(c)), LenWidth) /\ LenWidth \in Nat /\ LenWidth > 0
  BY DEF CodecConstants
<1>2. IsDecoded(c)
  BY <1>1, CommandIs
<1>3. Encode(c) \in Seq(Bytes) /\ Decode(Encode(c)) = Some(c, Len(Encode(c)))
  BY <1>2 DEF IsDecoded
<1> DEFINE b == Encode(c)
<1>4. b \in Seq(Bytes) /\ Decode(b) = Some(c, Len(b)) /\ Fits(Len(b), LenWidth)
  BY <1>1, <1>3
<1> HIDE DEF b
<1>5. Len(b) \in Nat /\ Prefixed(b) \in Seq(Bytes) /\ Len(Prefixed(b)) = LenWidth + Len(b)
  BY <1>4, PrefixedIs
<1> QED
  BY <1>1, <1>4, <1>5 DEF b

\* What is cut off: all that was whole, and a part of the record.
LEMMA CutOffIs ==
    ASSUME NEW whole \in Seq(Bytes), NEW record \in Seq(Bytes),
           NEW n \in Nat, n <= Len(record), NEW bytes, bytes = SubSeq(whole \o record, 1, Len(whole) + n)
    PROVE  /\ bytes \in Seq(Bytes) /\ Len(bytes) = Len(whole) + n
           /\ Lies(whole, bytes, 0)
           /\ \A i \in 1 .. n : bytes[Len(whole) + i] = record[i]
<1> DEFINE w == whole \o record
           k == Len(whole)
<1>1. k \in Nat /\ Len(record) \in Nat
  OBVIOUS
<1>2. /\ w \in Seq(Bytes) /\ Len(w) = k + Len(record)
      /\ \A i \in 1 .. k + Len(record) : w[i] = IF i <= k THEN whole[i] ELSE record[i - k]
  BY ConcatProperties
<1> HIDE DEF w, k
<1>3. bytes = SubSeq(w, 1, k + n)
  BY DEF w, k
<1>4. k + n \in 0 .. Len(w)
  BY <1>1, <1>2
<1>5. /\ bytes \in Seq(Bytes) /\ Len(bytes) = k + n
      /\ \A i \in 1 .. k + n : bytes[i] = w[i]
  <2> DEFINE m == k + n
  <2>1. m \in 0 .. Len(w) /\ w \in Seq(Bytes)
    BY <1>2, <1>4
  <2> HIDE DEF m
  <2>2. SubSeq(w, 1, m) \in Seq(Bytes) /\ Len(SubSeq(w, 1, m)) = m
    BY <2>1
  <2>3. \A i \in 1 .. m : SubSeq(w, 1, m)[i] = w[i]
    BY <2>1
  <2> QED
    BY <1>3, <2>2, <2>3 DEF m
<1>6. Lies(whole, bytes, 0)
  <2>1. 0 + k <= Len(bytes)
    BY <1>1, <1>5
  <2>2. ASSUME NEW i \in 1 .. k
        PROVE  bytes[0 + i] = whole[i]
    <3>1. i \in 1 .. k + n /\ i \in 1 .. k + Len(record) /\ i <= k /\ 0 + i = i
      BY <1>1
    <3> QED
      BY <1>2, <1>5, <3>1
  <2> QED
    BY <2>1, <2>2 DEF Lies, k
<1>7. ASSUME NEW i \in 1 .. n
      PROVE  bytes[k + i] = record[i]
  <2>1. /\ k + i \in 1 .. k + n /\ k + i \in 1 .. k + Len(record) /\ ~(k + i <= k)
        /\ (k + i) - k = i
    BY <1>1
  <2> QED
    BY <1>2, <1>5, <2>1
<1> QED
  BY <1>5, <1>6, <1>7 DEF k

\* What a scan finds of the commands.
RecordsOf(cmds, f) ==
    [j \in 1 .. Len(cmds) |-> [at |-> Len(f[j - 1]), body |-> Encode(cmds[j])]]

\* A scan of the log finds the records of the commands.
LEMMA LogScanned ==
    ASSUME CodecConstants, NEW bytes \in Seq(Bytes), NEW cmds \in Seq(Commands),
           NEW how \in {"no", "end"}, NEW f, LogIs(bytes, cmds, how, f)
    PROVE  Scan(bytes).records = RecordsOf(cmds, f)
<1> DEFINE m == Len(cmds)
           P == Piece(cmds)
           b(j) == Encode(cmds[j])
           recs == [j \in 1 .. m |-> [at |-> Len(f[j - 1]), body |-> b(j)]]
<1>1. m \in Nat /\ Len(bytes) \in Nat /\ \A j \in 1 .. m : cmds[j] \in Commands
  OBVIOUS
<1>2. /\ f[0] = <<>> /\ IsPiled(f, m, P)
      /\ how = "no" => bytes = f[m]
      /\ how = "end" =>
            \E c \in Commands : \E n \in Nat : CutOff(bytes, f[m], Prefixed(Encode(c)), n)
  BY DEF LogIs
<1>3. /\ \A j \in 1 .. m : P[j] = Prefixed(b(j))
      /\ LenWidth \in Nat /\ LenWidth > 0
  BY DEF Piece, CodecConstants
<1>4. ASSUME NEW j \in 1 .. m
      PROVE  /\ b(j) \in Seq(Bytes) /\ Fits(Len(b(j)), LenWidth) /\ Len(b(j)) \in Nat
             /\ Len(P[j]) = LenWidth + Len(b(j))
  <2> DEFINE c == cmds[j]
  <2>1. c \in Commands
    BY <1>1
  <2> HIDE DEF c
  <2>2. /\ Encode(c) \in Seq(Bytes) /\ Fits(Len(Encode(c)), LenWidth) /\ Len(Encode(c)) \in Nat
        /\ Len(Prefixed(Encode(c))) = LenWidth + Len(Encode(c))
    BY <2>1, LoggedIs
  <2> QED
    BY <1>3, <2>2 DEF c
<1> HIDE DEF m, P, b
<1>5. Grows(f, m, P)
  BY <1>1, <1>2, PilesAre
<1>6. /\ \A n \in 0 .. m : f[n] \in Seq(Bytes) /\ Len(f[n]) \in Nat
      /\ \A j \in 1 .. m : Len(f[j]) = Len(f[j - 1]) + LenWidth + Len(b(j))
  <2>1. \A n \in 0 .. m : f[n] \in Seq(Bytes)
    BY <1>5 DEF Grows
  <2>2. ASSUME NEW n \in 0 .. m PROVE Len(f[n]) \in Nat
    <3> DEFINE x == f[n]
    <3>1. x \in Seq(Bytes)
      BY <2>1
    <3> HIDE DEF x
    <3>2. Len(x) \in Nat
      BY <3>1
    <3> QED
      BY <3>2 DEF x
  <2>3. ASSUME NEW j \in 1 .. m
        PROVE  Len(f[j]) = Len(f[j - 1]) + LenWidth + Len(b(j))
    <3>1. j - 1 \in 0 .. m
      BY <1>1
    <3>2. Len(f[j]) = Len(f[j - 1]) + Len(P[j])
      BY <1>5 DEF Grows
    <3>3. Len(P[j]) = LenWidth + Len(b(j)) /\ Len(b(j)) \in Nat /\ Len(f[j - 1]) \in Nat
      BY <1>4, <2>2, <3>1
    <3> DEFINE u == Len(f[j - 1])
               v == Len(b(j))
    <3>4. u \in Nat /\ v \in Nat /\ LenWidth \in Nat
      BY <1>3, <3>3
    <3>5. Len(f[j]) = u + (LenWidth + v)
      BY <3>2, <3>3
    <3> HIDE DEF u, v
    <3>6. u + (LenWidth + v) = u + LenWidth + v
      BY <3>4
    <3>7. Len(f[j]) = u + LenWidth + v
      BY <3>5, <3>6
    <3> QED
      BY <3>7 DEF u, v
  <2> QED
    BY <2>1, <2>2, <2>3
<1>7. Lies(f[m], bytes, 0)
  <2>1. CASE how = "no"
    BY <1>2, <2>1, LiesWhole
  <2>2. CASE how = "end"
    <3>1. PICK c \in Commands, n \in Nat : CutOff(bytes, f[m], Prefixed(Encode(c)), n)
      BY <1>2, <2>2
    <3> DEFINE r == Prefixed(Encode(c))
               x == f[m]
    <3>2. r \in Seq(Bytes)
      BY LoggedIs
    <3>3. x \in Seq(Bytes)
      BY <1>1, <1>6
    <3> HIDE DEF r, x
    <3>4. CutOff(bytes, x, r, n)
      BY <3>1 DEF r, x
    <3>5. n <= Len(r) /\ bytes = SubSeq(x \o r, 1, Len(x) + n)
      BY <3>2, <3>4 DEF CutOff
    <3>6. Lies(x, bytes, 0)
      BY <3>2, <3>3, <3>5, CutOffIs
    <3> QED
      BY <3>6 DEF x
  <2> QED
    BY <2>1, <2>2
<1>8. /\ \A n \in 0 .. m : Lies(f[n], bytes, 0)
      /\ \A n \in 1 .. m : Lies(P[n], bytes, 0 + Len(f[n - 1]))
  <2>1. 0 \in Nat
    OBVIOUS
  <2> QED
    BY <1>1, <1>2, <1>7, <2>1, PilesLie
<1>9. \A n \in 0 .. m : n <= Len(f[n])
  <2> DEFINE T == {n \in 0 .. m : n <= Len(f[n])}
  <2>1. 0 \in T
    BY <1>1, <1>6
  <2>2. ASSUME NEW n \in 1 .. m, n - 1 \in T
        PROVE  n \in T
    <3>1. n - 1 \in 0 .. m /\ n \in 0 .. m /\ n - 1 <= Len(f[n - 1])
      BY <1>1, <2>2
    <3>2. /\ Len(f[n - 1]) \in Nat /\ Len(b(n)) \in Nat
          /\ Len(f[n]) = Len(f[n - 1]) + LenWidth + Len(b(n))
      BY <1>4, <1>6, <3>1
    <3>3. n <= Len(f[n])
      BY <1>3, <3>1, <3>2
    <3> QED
      BY <3>1, <3>3
  <2>3. \A n \in 0 .. m : n \in T
    <3> HIDE DEF T
    <3> QED
      BY <1>1, <2>1, <2>2, LoopKeeps
  <2> QED
    BY <2>3
<1>10. m <= Len(bytes)
  <2>1. m \in 0 .. m
    BY <1>1
  <2>2. 0 + Len(f[m]) <= Len(bytes)
    BY <1>7 DEF Lies
  <2>3. m <= Len(f[m]) /\ Len(f[m]) \in Nat
    BY <1>6, <1>9, <2>1
  <2> QED
    BY <1>1, <2>2, <2>3
<1>11. PICK g : /\ g[0] = [pos |-> 0, records |-> <<>>, done |-> FALSE]
                /\ \A n \in 1 .. Len(bytes) + 1 : g[n] = ScanStep(bytes, g[n - 1])
                /\ Scan(bytes) = g[Len(bytes) + 1]
  BY ScanLoop
<1>12. recs \in Seq(Records) /\ Len(recs) = m
  <2>1. ASSUME NEW j \in 1 .. m
        PROVE  [at |-> Len(f[j - 1]), body |-> b(j)] \in Records
    <3>1. j - 1 \in 0 .. m
      BY <1>1
    <3> QED
      BY <1>4, <1>6, <3>1 DEF Records
  <2>2. recs \in [1 .. m -> Records]
    BY <2>1
  <2> HIDE DEF recs
  <2> QED
    BY <1>1, <2>2
<1> DEFINE So(n) == SubSeq(recs, 1, n)
<1>13. /\ So(0) = <<>> /\ So(m) = recs
       /\ \A n \in 1 .. m : So(n) = Append(So(n - 1), recs[n])
  <2> HIDE DEF recs
  <2> QED
    BY <1>12, PrefixIs
<1>14. \A n \in 0 .. m : So(n) \in Seq(Records)
  <2> HIDE DEF recs
  <2> QED
    BY <1>12
<1>15. \A n \in 0 .. m : g[n] = At(Len(f[n]), So(n))
  <2> DEFINE T == {n \in 0 .. m : g[n] = At(Len(f[n]), So(n))}
  <2>1. 0 \in T
    <3>1. Len(f[0]) = 0 /\ 0 \in 0 .. m
      BY <1>1, <1>2
    <3>2. g[0] = At(0, <<>>)
      BY <1>11 DEF At
    <3> HIDE DEF So
    <3>3. g[0] = At(Len(f[0]), So(0))
      BY <1>13, <3>1, <3>2
    <3> QED
      BY <3>1, <3>3
  <2>2. ASSUME NEW n \in 1 .. m, n - 1 \in T
        PROVE  n \in T
    <3>1. n - 1 \in 0 .. m /\ n \in 0 .. m /\ n \in 1 .. Len(bytes) + 1
      BY <1>1, <1>10
    <3> DEFINE p == Len(f[n - 1])
               r == So(n - 1)
               y == b(n)
    <3>2. g[n - 1] = At(p, r)
      BY <2>2
    <3>3. p \in Nat /\ r \in Seq(Records) /\ y \in Seq(Bytes) /\ Fits(Len(y), LenWidth)
      BY <1>4, <1>6, <1>14, <3>1
    <3>4. Lies(Prefixed(y), bytes, p)
      <4>1. Lies(P[n], bytes, 0 + p)
        BY <1>8
      <4>2. 0 + p = p
        BY <3>3
      <4> QED
        BY <1>3, <4>1, <4>2
    <3>5. recs[n] = [at |-> p, body |-> y]
      OBVIOUS
    <3>6. Len(f[n]) = p + LenWidth + Len(y)
      BY <1>6
    <3>7. So(n) = Append(r, recs[n])
      BY <1>13
    <3> HIDE DEF p, r, y, So, recs
    <3>8. ScanStep(bytes, At(p, r)) = At(p + LenWidth + Len(y), Append(r, [at |-> p, body |-> y]))
      BY <3>3, <3>4, StepOver
    <3>9. g[n] = ScanStep(bytes, At(p, r))
      BY <1>11, <3>1, <3>2
    <3>10. g[n] = At(Len(f[n]), So(n))
      BY <3>5, <3>6, <3>7, <3>8, <3>9
    <3> QED
      BY <3>1, <3>10
  <2>3. \A n \in 0 .. m : n \in T
    <3> HIDE DEF T
    <3> QED
      BY <1>1, <2>1, <2>2, LoopKeeps
  <2> QED
    BY <2>3
<1>16. g[m] = At(Len(f[m]), recs)
  <2>1. m \in 0 .. m
    BY <1>1
  <2> HIDE DEF recs, So
  <2> QED
    BY <1>13, <1>15, <2>1
<1> HIDE DEF So, recs
<1> DEFINE p == Len(f[m])
<1>17. p \in Nat
  <2>1. m \in 0 .. m
    BY <1>1
  <2> QED
    BY <1>6, <2>1
<1>18. ScanStep(bytes, At(p, recs)).done = TRUE /\ ScanStep(bytes, At(p, recs)).records = recs
  <2>1. CASE p + LenWidth > Len(bytes)
    <3> HIDE DEF p
    <3>1. ScanStep(bytes, At(p, recs)) = [pos |-> p, records |-> recs, done |-> TRUE]
      BY <1>12, <1>17, <2>1, StepShort
    <3> QED
      BY <3>1
  <2>2. CASE p + LenWidth <= Len(bytes)
    <3>1. how = "end"
      <4>1. CASE how = "no"
        <5>1. Len(bytes) = p
          BY <1>2, <4>1
        <5> HIDE DEF p
        <5>2. FALSE
          BY <1>3, <1>17, <2>2, <5>1
        <5> QED
          BY <5>2
      <4> QED
        BY <4>1
    <3>2. PICK c \in Commands, n \in Nat : CutOff(bytes, f[m], Prefixed(Encode(c)), n)
      BY <1>2, <3>1
    <3> DEFINE y == Encode(c)
               r == Prefixed(y)
               x == f[m]
               d == Digits(Len(y), LenWidth)
    <3>3. /\ y \in Seq(Bytes) /\ Fits(Len(y), LenWidth) /\ Len(y) \in Nat
          /\ r \in Seq(Bytes) /\ Len(r) = LenWidth + Len(y)
      BY LoggedIs
    <3>4. x \in Seq(Bytes) /\ Len(x) = p
      <4>1. m \in 0 .. m
        BY <1>1
      <4> QED
        BY <1>6, <4>1
    <3>5. CutOff(bytes, x, r, n)
      BY <3>2
    <3>6. r = d \o y
      BY DEF Prefixed, U32
    <3> HIDE DEF y, r, x, p
    <3>7. d \in Seq(Bytes) /\ Len(d) = LenWidth /\ Number(d) = Len(y)
      BY <1>3, <3>3, DigitsAre, NumberOfDigits
    <3> HIDE DEF d
    <3>8. n <= Len(r) /\ n # Len(r) /\ bytes = SubSeq(x \o r, 1, Len(x) + n)
      BY <3>3, <3>5 DEF CutOff
    <3>9. Len(bytes) = Len(x) + n /\ \A i \in 1 .. n : bytes[Len(x) + i] = r[i]
      BY <3>3, <3>4, <3>8, CutOffIs
    <3>10. LenWidth <= n
      BY <1>3, <1>17, <2>2, <3>4, <3>9
    <3>11. Lies(d, bytes, p)
      <4>1. p + Len(d) <= Len(bytes)
        BY <2>2, <3>7
      <4>2. ASSUME NEW i \in 1 .. Len(d)
            PROVE  bytes[p + i] = d[i]
        <5>1. i \in 1 .. n
          BY <1>3, <3>7, <3>10
        <5>2. r[i] = d[i]
          <6>1. /\ Len(d) \in Nat /\ Len(y) \in Nat
                /\ \A k \in 1 .. Len(d) + Len(y) :
                      (d \o y)[k] = IF k <= Len(d) THEN d[k] ELSE y[k - Len(d)]
            BY <3>3, <3>7, ConcatProperties
          <6>2. i \in 1 .. Len(d) + Len(y) /\ i <= Len(d)
            BY <6>1
          <6>3. (d \o y)[i] = d[i]
            BY <6>1, <6>2
          <6> QED
            BY <3>6, <6>3
        <5> QED
          BY <3>4, <3>9, <5>1, <5>2
      <4> QED
        BY <4>1, <4>2 DEF Lies
    <3>12. SubSeq(bytes, p + 1, p + LenWidth) = d
      BY <1>17, <3>7, <3>11, LiesCut
    <3> DEFINE num == Len(y)
    <3>13. num \in Nat /\ num = Number(SubSeq(bytes, p + 1, p + LenWidth))
      BY <3>3, <3>7, <3>12
    <3>14. p + LenWidth + num > Len(bytes)
      <4>1. n < LenWidth + num
        <5>1. n <= LenWidth + num /\ n # LenWidth + num
          BY <3>3, <3>8
        <5> HIDE DEF num
        <5> QED
          BY <1>3, <3>13, <5>1
      <4> HIDE DEF num
      <4> QED
        BY <1>3, <1>17, <3>4, <3>9, <3>13, <4>1
    <3> HIDE DEF num
    <3>15. ScanStep(bytes, At(p, recs)) = [pos |-> p + LenWidth, records |-> recs, done |-> TRUE]
      BY <1>12, <1>17, <2>2, <3>13, <3>14, StepCut
    <3> QED
      BY <3>15
  <2>3. p + LenWidth > Len(bytes) \/ p + LenWidth <= Len(bytes)
    <3>1. Len(bytes) \in Nat
      OBVIOUS
    <3> HIDE DEF p
    <3> QED
      BY <1>3, <1>17, <3>1
  <2> QED
    BY <2>1, <2>2, <2>3
<1>19. g[m + 1].done = TRUE /\ g[m + 1].records = recs /\ m + 1 \in 0 .. Len(bytes) + 1
  <2>1. m + 1 \in 1 .. Len(bytes) + 1 /\ (m + 1) - 1 = m
    BY <1>1, <1>10
  <2>2. g[m + 1] = ScanStep(bytes, At(p, recs))
    BY <1>11, <1>16, <2>1
  <2>3. m + 1 \in 0 .. Len(bytes) + 1
    BY <1>1, <1>10
  <2> HIDE DEF p
  <2> QED
    BY <1>18, <2>2, <2>3
<1>20. g[Len(bytes) + 1] = g[m + 1]
  <2> DEFINE k == m + 1
  <2>1. k \in 0 .. Len(bytes) + 1 /\ g[k].done = TRUE
    BY <1>19
  <2>2. \A n \in 1 .. Len(bytes) + 1 : g[n] = ScanStep(bytes, g[n - 1])
    BY <1>11
  <2> HIDE DEF k
  <2>3. g[Len(bytes) + 1] = g[k]
    BY <2>1, <2>2, ScanStays
  <2> QED
    BY <2>3 DEF k
<1> QED
  BY <1>11, <1>19, <1>20 DEF recs, m, b, RecordsOf

\* What a replay of the records of commands applies: each as it was encoded.
LEMMA ResultsAre ==
    ASSUME CodecConstants, NEW cmds \in Seq(Commands), NEW records \in Seq(Records),
           Len(records) = Len(cmds), \A i \in 1 .. Len(cmds) : records[i].body = Encode(cmds[i])
    PROVE  Results(records) = [i \in DOMAIN cmds |-> Some(cmds[i], Len(Encode(cmds[i])))]
<1> DEFINE m == Len(cmds)
           want == [i \in DOMAIN cmds |-> Some(cmds[i], Len(Encode(cmds[i])))]
           So(n) == SubSeq(want, 1, n)
<1>1. m \in Nat /\ DOMAIN cmds = 1 .. m
  OBVIOUS
<1>2. want \in Seq(Range(want)) /\ Len(want) = m
  <2>1. want \in [1 .. m -> Range(want)]
    BY <1>1 DEF Range
  <2> HIDE DEF want
  <2> QED
    BY <1>1, <2>1
<1>3. PICK g : /\ g[0] = <<>>
               /\ \A n \in 1 .. m : g[n] = Applied(g[n - 1], Decode(records[n].body))
               /\ Results(records) = g[m]
  BY ReplayLoop
<1>4. So(0) = <<>> /\ So(m) = want /\ \A n \in 1 .. m : So(n) = Append(So(n - 1), want[n])
  <2> HIDE DEF want
  <2> QED
    BY <1>2, PrefixIs
<1> DEFINE T == {n \in 0 .. m : g[n] = So(n)}
<1>5. 0 \in T
  <2> HIDE DEF So
  <2> QED
    BY <1>1, <1>3, <1>4
<1>6. ASSUME NEW n \in 1 .. m, n - 1 \in T
      PROVE  n \in T
  <2> DEFINE c == cmds[n]
             d == Decode(Encode(c))
  <2>1. c \in Commands
    BY <1>1
  <2>2. d = Some(c, Len(Encode(c))) /\ want[n] = Some(c, Len(Encode(c)))
    <3>1. want[n] = Some(c, Len(Encode(c)))
      BY <1>1
    <3> HIDE DEF c, want
    <3> QED
      BY <2>1, <3>1, LoggedIs
  <2>3. d.res = "some"
    <3> HIDE DEF c, d
    <3> QED
      BY <2>2, SomeIs
  <2>4. g[n] = Applied(So(n - 1), d)
    <3>1. g[n - 1] = So(n - 1)
      BY <1>6
    <3>2. records[n].body = Encode(c)
      OBVIOUS
    <3> HIDE DEF So, c
    <3> QED
      BY <1>3, <3>1, <3>2
  <2>5. Applied(So(n - 1), d) = Append(So(n - 1), d)
    <3> HIDE DEF d, So
    <3> QED
      BY <2>3 DEF Applied
  <2>6. n \in 0 .. m
    BY <1>1
  <2> HIDE DEF d, So, want, c
  <2>7. g[n] = So(n)
    BY <1>4, <2>2, <2>4, <2>5
  <2> QED
    BY <2>6, <2>7
<1>7. \A n \in 0 .. m : n \in T
  <2> HIDE DEF T
  <2> QED
    BY <1>1, <1>5, <1>6, LoopKeeps
<1>8. g[m] = So(m)
  <2>1. m \in 0 .. m
    BY <1>1
  <2> HIDE DEF So
  <2> QED
    BY <1>7, <2>1
<1> HIDE DEF So
<1> QED
  BY <1>3, <1>4, <1>8

\* A record that is appended to a whole log keeps it one.
LEMMA LogAppends ==
    ASSUME CodecConstants, NEW bytes, NEW cmds \in Seq(Commands), NEW f,
           LogIs(bytes, cmds, "no", f), NEW c \in Commands
    PROVE  /\ bytes \o Prefixed(Encode(c)) \in Seq(Bytes)
           /\ \E e : LogIs(bytes \o Prefixed(Encode(c)), Append(cmds, c), "no", e)
<1> DEFINE m == Len(cmds)
           r == Prefixed(Encode(c))
           more == Append(cmds, c)
           e == [n \in 0 .. m + 1 |-> IF n <= m THEN f[n] ELSE f[m] \o r]
<1>1. m \in Nat /\ r \in Seq(Bytes)
  BY LoggedIs
<1>2. f[0] = <<>> /\ IsPiled(f, m, Piece(cmds)) /\ bytes = f[m]
  BY DEF LogIs
<1>3. f[m] \in Seq(Bytes)
  <2>1. m \in 0 .. m
    BY <1>1
  <2>2. Grows(f, m, Piece(cmds))
    <3> HIDE DEF m
    <3> QED
      BY <1>1, <1>2, PilesAre
  <2> QED
    BY <2>1, <2>2 DEF Grows
<1>4. Len(more) = m + 1 /\ more[m + 1] = c /\ \A n \in 1 .. m : more[n] = cmds[n]
  OBVIOUS
<1>5. Piece(more)[m + 1] = r /\ \A n \in 1 .. m : Piece(more)[n] = Piece(cmds)[n]
  <2> HIDE DEF more
  <2>1. m + 1 \in 1 .. Len(more) /\ \A n \in 1 .. m : n \in 1 .. Len(more)
    BY <1>1, <1>4
  <2> QED
    BY <1>4, <2>1 DEF Piece
<1>6. f[m] \o r \in Seq(Bytes)
  <2> DEFINE x == f[m]
  <2>1. x \in Seq(Bytes)
    BY <1>3
  <2> HIDE DEF x, r
  <2>2. x \o r \in Seq(Bytes)
    BY <1>1, <2>1
  <2> QED
    BY <2>2 DEF x
<1> HIDE DEF r, more, m
<1>7. e[0] = <<>> /\ e[m + 1] = f[m] \o r /\ \A n \in 0 .. m : e[n] = f[n]
  <2>1. /\ 0 \in 0 .. m + 1 /\ 0 <= m /\ m + 1 \in 0 .. m + 1 /\ ~(m + 1 <= m)
        /\ \A n \in 0 .. m : n \in 0 .. m + 1 /\ n <= m
    BY <1>1
  <2> QED
    BY <1>2, <2>1
<1> HIDE DEF e
<1>8. IsPiled(e, m + 1, Piece(more))
  <2>1. e[0] \in Seq(Bytes)
    BY <1>7
  <2>2. ASSUME NEW n \in 1 .. m + 1
        PROVE  Piece(more)[n] \in Seq(Bytes) /\ e[n] = e[n - 1] \o Piece(more)[n]
    <3>1. CASE n = m + 1
      <4>1. n - 1 = m /\ m \in 0 .. m
        BY <1>1, <3>1
      <4> QED
        BY <1>1, <1>5, <1>7, <3>1, <4>1
    <3>2. CASE n # m + 1
      <4>1. n \in 1 .. m /\ n \in 0 .. m /\ n - 1 \in 0 .. m
        BY <1>1, <3>2
      <4>2. Piece(cmds)[n] \in Seq(Bytes) /\ f[n] = f[n - 1] \o Piece(cmds)[n]
        BY <1>2, <4>1 DEF IsPiled
      <4> QED
        BY <1>5, <1>7, <4>1, <4>2
    <3> QED
      BY <3>1, <3>2
  <2> QED
    BY <2>1, <2>2 DEF IsPiled
<1>9. LogIs(bytes \o r, more, "no", e)
  BY <1>2, <1>4, <1>7, <1>8 DEF LogIs
<1> QED
  BY <1>2, <1>6, <1>9 DEF r, more

\* A tear leaves the records before the last, and a part of it or nothing.
LEMMA LogTears ==
    ASSUME CodecConstants, NEW bytes, NEW cmds \in Seq(Commands), NEW f,
           LogIs(bytes, cmds, "no", f), cmds # <<>>, NEW n \in Nat,
           NEW record, record = Prefixed(Encode(cmds[Len(cmds)])), n < Len(record)
    PROVE  /\ SubSeq(bytes, 1, Len(bytes) - Len(record) + n) \in Seq(Bytes)
           /\ SubSeq(cmds, 1, Len(cmds) - 1) \in Seq(Commands)
           /\ LogIs(SubSeq(bytes, 1, Len(bytes) - Len(record) + n), SubSeq(cmds, 1, Len(cmds) - 1),
                    IF n = 0 THEN "no" ELSE "end", f)
<1> DEFINE m == Len(cmds)
           c == cmds[m]
           less == SubSeq(cmds, 1, m - 1)
           x == f[m - 1]
           left == SubSeq(bytes, 1, Len(bytes) - Len(record) + n)
<1>1. m \in Nat /\ m > 0 /\ m \in 1 .. m /\ c \in Commands
  <2>1. m \in Nat /\ m # 0
    OBVIOUS
  <2>2. m \in 1 .. m /\ m > 0
    <3> HIDE DEF m
    <3> QED
      BY <2>1
  <2> QED
    BY <2>1, <2>2
<1>2. record = Prefixed(Encode(c)) /\ record \in Seq(Bytes) /\ Len(record) \in Nat
  <2> HIDE DEF c
  <2>1. record = Prefixed(Encode(c))
    BY DEF c
  <2>2. record \in Seq(Bytes)
    BY <1>1, <2>1, LoggedIs
  <2> QED
    BY <2>1, <2>2
<1>3. f[0] = <<>> /\ IsPiled(f, m, Piece(cmds)) /\ bytes = f[m]
  BY DEF LogIs
<1>4. /\ less \in Seq(Commands) /\ Len(less) = m - 1 /\ m - 1 \in Nat
      /\ \A i \in 1 .. m - 1 : less[i] = cmds[i]
  <2> DEFINE k == m - 1
  <2>1. k \in Nat /\ k <= Len(cmds)
    BY <1>1
  <2> HIDE DEF k
  <2>2. SubSeq(cmds, 1, k) \in Seq(Commands) /\ Len(SubSeq(cmds, 1, k)) = k
    BY <2>1
  <2>3. \A i \in 1 .. k : SubSeq(cmds, 1, k)[i] = cmds[i]
    BY <2>1
  <2> QED
    BY <2>1, <2>2, <2>3 DEF k
<1>5. /\ \A i \in 1 .. m - 1 : Piece(less)[i] = Piece(cmds)[i]
      /\ Piece(cmds)[m] = record
  <2> HIDE DEF less
  <2>1. \A i \in 1 .. m - 1 : i \in 1 .. Len(less) /\ i \in 1 .. m
    BY <1>1, <1>4
  <2> QED
    BY <1>1, <1>2, <1>4, <2>1 DEF Piece
<1> HIDE DEF m, less, c
<1>6. x \in Seq(Bytes) /\ Len(x) \in Nat
  <2>1. m - 1 \in 0 .. m
    BY <1>1
  <2>2. Grows(f, m, Piece(cmds))
    BY <1>1, <1>3, PilesAre
  <2>3. x \in Seq(Bytes)
    BY <2>1, <2>2 DEF Grows
  <2> HIDE DEF x
  <2> QED
    BY <2>3
<1>7. bytes = x \o record
  BY <1>1, <1>3, <1>5 DEF IsPiled
<1>8. IsPiled(f, m - 1, Piece(less))
  <2>1. f[0] \in Seq(Bytes)
    BY <1>3
  <2>2. ASSUME NEW i \in 1 .. m - 1
        PROVE  Piece(less)[i] \in Seq(Bytes) /\ f[i] = f[i - 1] \o Piece(less)[i]
    <3>1. i \in 1 .. m
      BY <1>1
    <3> QED
      BY <1>3, <1>5, <3>1 DEF IsPiled
  <2> QED
    BY <2>1, <2>2 DEF IsPiled
<1> HIDE DEF x
<1>9. Len(bytes) - Len(record) + n = Len(x) + n
  <2>1. Len(bytes) = Len(x) + Len(record)
    BY <1>2, <1>6, <1>7
  <2> DEFINE u == Len(x)
             v == Len(record)
  <2>2. u \in Nat /\ v \in Nat /\ Len(bytes) = u + v
    BY <1>2, <1>6, <2>1
  <2> HIDE DEF u, v
  <2>3. (u + v) - v + n = u + n
    BY <2>2
  <2> QED
    BY <2>2, <2>3 DEF u, v
<1>10. left = SubSeq(x \o record, 1, Len(x) + n)
  BY <1>7, <1>9
<1> HIDE DEF left
<1>11. left \in Seq(Bytes) /\ Len(left) = Len(x) + n /\ Lies(x, left, 0)
  <2>1. n <= Len(record)
    BY <1>2
  <2>2. /\ SubSeq(x \o record, 1, Len(x) + n) \in Seq(Bytes)
        /\ Len(SubSeq(x \o record, 1, Len(x) + n)) = Len(x) + n
        /\ Lies(x, SubSeq(x \o record, 1, Len(x) + n), 0)
    <3> DEFINE w == SubSeq(x \o record, 1, Len(x) + n)
    <3>1. w = SubSeq(x \o record, 1, Len(x) + n)
      OBVIOUS
    <3> HIDE DEF w
    <3>2. w \in Seq(Bytes) /\ Len(w) = Len(x) + n
      BY <1>2, <1>6, <2>1, <3>1, CutOffIs
    <3>3. Lies(x, w, 0)
      BY <1>2, <1>6, <2>1, <3>1, CutOffIs
    <3> QED
      BY <3>2, <3>3 DEF w
  <2> QED
    BY <1>10, <2>2
<1>12. ASSUME n = 0
       PROVE  left = x
  <2>1. Len(left) = Len(x)
    BY <1>6, <1>11, <1>12
  <2>2. \A i \in 1 .. Len(x) : left[0 + i] = x[i] /\ 0 + i = i
    BY <1>6, <1>11 DEF Lies
  <2>3. \A i \in 1 .. Len(left) : left[i] = x[i]
    BY <2>1, <2>2
  <2> QED
    BY <1>6, <1>11, <2>1, <2>3, SeqEqual
<1>13. ASSUME n # 0
       PROVE  \E d \in Commands : \E k \in Nat : CutOff(left, f[Len(less)], Prefixed(Encode(d)), k)
  <2>1. n \in 0 .. Len(record) - 1
    BY <1>2
  <2>2. CutOff(left, f[Len(less)], Prefixed(Encode(c)), n)
    BY <1>2, <1>4, <1>10, <2>1 DEF CutOff, x
  <2> QED
    BY <1>1, <2>2
<1> DEFINE how == IF n = 0 THEN "no" ELSE "end"
<1>14. (how = "no" => n = 0) /\ (how = "end" => n # 0)
  OBVIOUS
<1> HIDE DEF how
<1>15. IsPiled(f, Len(less), Piece(less)) /\ f[Len(less)] = x
  BY <1>4, <1>8 DEF x
<1>16. LogIs(left, less, how, f)
  BY <1>3, <1>12, <1>13, <1>14, <1>15 DEF LogIs
<1> QED
  BY <1>4, <1>11, <1>16 DEF left, less, m, how

\* The log is the records of what is logged, until it is torn within.
LogInv ==
    /\ log \in Seq(Bytes) /\ logged \in Seq(Commands) /\ torn \in {"no", "end", "within"}
    /\ torn # "within" => \E f : LogIs(log, logged, torn, f)

\* At start.
LEMMA LogInitially == ASSUME CodecConstants, FilesInit PROVE LogInv
<1>1. log = <<>> /\ logged = <<>> /\ torn = "no"
  BY DEF FilesInit
<1> DEFINE f == [n \in {0} |-> <<>>]
<1>2. IsPiled(f, 0, Piece(<<>>))
  <2>1. f[0] = <<>> /\ <<>> \in Seq(Bytes) /\ \A n \in 1 .. 0 : FALSE
    OBVIOUS
  <2> HIDE DEF f
  <2> QED
    BY <2>1 DEF IsPiled
<1>3. LogIs(log, logged, torn, f)
  <2>1. f[0] = <<>> /\ Len(<<>>) = 0
    OBVIOUS
  <2> HIDE DEF f
  <2> QED
    BY <1>1, <1>2, <2>1 DEF LogIs
<1>4. log \in Seq(Bytes) /\ logged \in Seq(Commands)
  BY <1>1
<1> QED
  BY <1>1, <1>3, <1>4 DEF LogInv

\* And by every step.
LEMMA LogKept == ASSUME CodecConstants, LogInv, [FilesNext]_filesVars PROVE LogInv'
<1> USE DEF LogInv
<1>1. ASSUME NEW c \in Commands, AppendRecord(c)
      PROVE  LogInv'
  <2>1. /\ log' = log \o Prefixed(Encode(c)) /\ logged' = Append(logged, c)
        /\ torn' = IF torn = "no" THEN "no" ELSE "within"
    BY <1>1 DEF AppendRecord
  <2>2. logged' \in Seq(Commands)
    BY <2>1
  <2>3. log' \in Seq(Bytes)
    <3> DEFINE r == Prefixed(Encode(c))
    <3>1. r \in Seq(Bytes)
      BY LoggedIs
    <3> HIDE DEF r
    <3>2. log \o r \in Seq(Bytes)
      BY <3>1
    <3> QED
      BY <2>1, <3>2 DEF r
  <2>4. CASE torn = "no"
    <3>1. PICK f : LogIs(log, logged, "no", f)
      BY <2>4
    <3>2. \E e : LogIs(log \o Prefixed(Encode(c)), Append(logged, c), "no", e)
      BY <3>1, LogAppends
    <3> QED
      BY <2>1, <2>2, <2>3, <2>4, <3>2
  <2>5. CASE torn # "no"
    BY <2>1, <2>2, <2>3, <2>5
  <2> QED
    BY <2>4, <2>5
<1>2. ASSUME NEW n \in 0 .. Len(log), Tear(n)
      PROVE  LogInv'
  <2> DEFINE record == Prefixed(Encode(logged[Len(logged)]))
             how == IF n = 0 THEN "no" ELSE "end"
  <2>1. /\ torn = "no" /\ logged # <<>> /\ n < Len(record)
        /\ log' = SubSeq(log, 1, Len(log) - Len(record) + n)
        /\ logged' = SubSeq(logged, 1, Len(logged) - 1)
        /\ torn' = how
    BY <1>2 DEF Tear
  <2>2. PICK f : LogIs(log, logged, "no", f)
    BY <2>1
  <2>3. n \in Nat /\ how \in {"no", "end", "within"}
    OBVIOUS
  <2>4. record = Prefixed(Encode(logged[Len(logged)]))
    OBVIOUS
  <2> HIDE DEF record
  <2>5. /\ SubSeq(log, 1, Len(log) - Len(record) + n) \in Seq(Bytes)
        /\ SubSeq(logged, 1, Len(logged) - 1) \in Seq(Commands)
        /\ LogIs(SubSeq(log, 1, Len(log) - Len(record) + n), SubSeq(logged, 1, Len(logged) - 1), how, f)
    BY <2>1, <2>2, <2>3, <2>4, LogTears
  <2> HIDE DEF how
  <2> QED
    BY <2>1, <2>3, <2>5
<1>3. ASSUME UNCHANGED logVars
      PROVE  LogInv'
  BY <1>3 DEF logVars
<1>4. ASSUME NEW e \in Entities, NEW gap \in Gaps, WriteRecord(e, gap)
      PROVE  UNCHANGED logVars
  BY <1>4 DEF WriteRecord
<1>5. Reopen => UNCHANGED logVars
  BY DEF Reopen
<1>6. UNCHANGED filesVars => UNCHANGED logVars
  BY DEF filesVars
<1> QED
  BY <1>1, <1>2, <1>3, <1>4, <1>5, <1>6 DEF FilesNext

\* A replay of such a log is one of a prefix.
LEMMA LogReplays == ASSUME CodecConstants, LogInv PROVE ReplayIsPrefix
<1> SUFFICES ASSUME torn # "within"
             PROVE  Replayed = [i \in DOMAIN logged |-> Some(logged[i], Len(Encode(logged[i])))]
  BY DEF ReplayIsPrefix
<1>1. PICK f : LogIs(log, logged, torn, f)
  BY DEF LogInv
<1>2. log \in Seq(Bytes) /\ logged \in Seq(Commands) /\ torn \in {"no", "end"}
  BY DEF LogInv
<1> DEFINE records == Scan(log).records
           m == Len(logged)
           recs == [j \in 1 .. m |-> [at |-> Len(f[j - 1]), body |-> Encode(logged[j])]]
<1>3. records = recs
  <2>1. Scan(log).records = RecordsOf(logged, f)
    BY <1>1, <1>2, LogScanned
  <2> QED
    BY <2>1 DEF RecordsOf
<1>4. records \in Seq(Records)
  <2>1. PICK g : /\ g[0] = [pos |-> 0, records |-> <<>>, done |-> FALSE]
                 /\ \A n \in 1 .. Len(log) + 1 : g[n] = ScanStep(log, g[n - 1])
                 /\ Scan(log) = g[Len(log) + 1]
    BY <1>2, ScanLoop
  <2> DEFINE N == Len(log) + 1
             T == {n \in 0 .. N : g[n] \in Scanned}
  <2>2. N \in Nat
    BY <1>2
  <2>3. 0 \in T
    <3>1. <<>> \in Seq(Records)
      OBVIOUS
    <3>2. [pos |-> 0, records |-> <<>>, done |-> FALSE] \in Scanned
      BY <3>1 DEF Scanned
    <3>3. 0 \in 0 .. N
      BY <2>2
    <3> QED
      BY <2>1, <3>2, <3>3
  <2>4. ASSUME NEW n \in 1 .. N, n - 1 \in T
        PROVE  n \in T
    <3>1. g[n - 1] \in Scanned /\ n \in 0 .. N
      BY <2>2, <2>4
    <3>2. g[n] = ScanStep(log, g[n - 1])
      BY <2>1
    <3>3. g[n] \in Scanned
      BY <1>2, <3>1, <3>2, StepIs
    <3> QED
      BY <3>1, <3>3
  <2>5. \A n \in 0 .. N : n \in T
    <3> HIDE DEF T, N
    <3> QED
      BY <2>2, <2>3, <2>4, LoopKeeps
  <2>6. g[N] \in Scanned
    <3>1. N \in 0 .. N
      BY <2>2
    <3> HIDE DEF N
    <3> QED
      BY <2>5, <3>1
  <2> QED
    BY <2>1, <2>6 DEF Scanned
<1>5. m \in Nat /\ Len(recs) = m /\ \A i \in 1 .. m : recs[i].body = Encode(logged[i])
  <2>1. m \in Nat
    BY <1>2
  <2> HIDE DEF m
  <2> QED
    BY <2>1
<1>6. Len(records) = m /\ \A i \in 1 .. m : records[i].body = Encode(logged[i])
  <2> HIDE DEF records, recs, m
  <2> QED
    BY <1>3, <1>5
<1>7. Replayed = Results(records)
  BY DEF Replayed, Results
<1> HIDE DEF records
<1> QED
  BY <1>2, <1>4, <1>6, <1>7, ResultsAre

\* A replay of the log applies the commands whose records are whole, as they
\* were encoded, wherever a crash has cut the last one.
THEOREM ReplayIsWhole == ASSUME CodecConstants PROVE FilesSpec => []ReplayIsPrefix
<1>1. FilesInit => LogInv
  BY LogInitially
<1>2. LogInv /\ [FilesNext]_filesVars => LogInv'
  BY LogKept
<1>3. LogInv => ReplayIsPrefix
  BY LogReplays
<1> QED
  BY <1>1, <1>2, <1>3, PTL DEF FilesSpec

-----------------------------------------------------------------------------
(* entities.bin *)

\* A position is a number of lengths behind another.
Steps(p, q) == \E c \in Nat : q = p + c * LenWidth

\* None, one less, one more, a gap.
LEMMA StepsAre ==
    ASSUME CodecConstants, NEW p \in Nat
    PROVE  /\ Steps(p, p)
           /\ \A q : Steps(p, q) => q \in Nat /\ p <= q /\ Steps(p, q + LenWidth)
           /\ \A q : Steps(p, q) /\ p # q => p + LenWidth <= q /\ Steps(p + LenWidth, q)
           /\ \A gap \in Nat : gap % LenWidth = 0 => Steps(p, p + gap)
<1>1. LenWidth \in Nat /\ LenWidth > 0
  BY DEF CodecConstants
<1>2. Steps(p, p)
  <2>1. p = p + 0 * LenWidth
    BY <1>1
  <2> QED
    BY <2>1 DEF Steps
<1>3. ASSUME NEW q, Steps(p, q)
      PROVE  q \in Nat /\ p <= q /\ Steps(p, q + LenWidth)
  <2>1. PICK c \in Nat : q = p + c * LenWidth
    BY <1>3 DEF Steps
  <2>2. c * LenWidth \in Nat /\ (c + 1) * LenWidth = c * LenWidth + LenWidth
    BY <1>1
  <2>3. q \in Nat /\ p <= q
    BY <2>1, <2>2
  <2>4. q + LenWidth = p + (c + 1) * LenWidth
    BY <1>1, <2>1, <2>2
  <2>5. c + 1 \in Nat
    OBVIOUS
  <2> QED
    BY <2>3, <2>4, <2>5 DEF Steps
<1>4. ASSUME NEW q, Steps(p, q), p # q
      PROVE  p + LenWidth <= q /\ Steps(p + LenWidth, q)
  <2>1. PICK c \in Nat : q = p + c * LenWidth
    BY <1>4 DEF Steps
  <2>2. c # 0
    <3>1. CASE c = 0
      <4>1. q = p
        BY <1>1, <2>1, <3>1
      <4> QED
        BY <1>4, <4>1
    <3> QED
      BY <3>1
  <2>3. c - 1 \in Nat
    BY <2>2
  <2> DEFINE d == (c - 1) * LenWidth
  <2>4. d \in Nat /\ c * LenWidth = d + LenWidth
    BY <1>1, <2>3
  <2>5. p + LenWidth <= q /\ q = (p + LenWidth) + d
    <3> HIDE DEF d
    <3> QED
      BY <1>1, <2>1, <2>4
  <2> QED
    BY <2>3, <2>5 DEF Steps
<1>5. ASSUME NEW gap \in Nat, gap % LenWidth = 0
      PROVE  Steps(p, p + gap)
  <2>1. gap \div LenWidth \in Nat /\ gap = (gap \div LenWidth) * LenWidth + (gap % LenWidth)
    BY <1>1, DivMod
  <2> DEFINE c == gap \div LenWidth
  <2>2. c \in Nat /\ gap = c * LenWidth
    BY <1>1, <1>5, <2>1
  <2>3. p + gap = p + c * LenWidth
    BY <2>2
  <2> HIDE DEF c
  <2> QED
    BY <2>2, <2>3 DEF Steps
<1> QED
  BY <1>2, <1>3, <1>4, <1>5

\* Where records are.
Places == UNION {[D -> [at : Nat, len : Nat]] : D \in SUBSET Nat}

\* To note a record leaves such places.
LEMMA NoteIs ==
    ASSUME CodecConstants, NEW places \in Places, NEW record \in Records
    PROVE  Note(places, record) \in Places
<1> DEFINE t == Peek(record.body)
           id == Number(t.val)
           entry == [at |-> RecordStart(record), len |-> Len(record.body)]
           b == record.body
<1>1. b \in Seq(Bytes) /\ record.at \in Nat /\ IdWidth \in Nat
  BY DEF Records, CodecConstants
<1>2. entry \in [at : Nat, len : Nat]
  BY <1>1 DEF RecordStart
<1>3. CASE t.res = "some"
  <2>1. 0 + IdWidth <= Len(b) /\ t = Some(SubSeq(b, 0 + 1, 0 + IdWidth), 0 + IdWidth)
    <3>1. CASE 0 + IdWidth <= Len(b)
      BY <3>1 DEF Peek, Take
    <3>2. CASE ~(0 + IdWidth <= Len(b))
      <4>1. t = Fail("none")
        BY <3>2 DEF Peek, Take
      <4>2. t.res = "none"
        BY <4>1 DEF Fail
      <4> QED
        BY <1>3, <4>2
    <3> QED
      BY <3>1, <3>2
  <2>2. t.val = SubSeq(b, 1, IdWidth)
    <3>1. 0 + 1 = 1 /\ 0 + IdWidth = IdWidth
      BY <1>1
    <3> HIDE DEF t, b
    <3>2. t.val = SubSeq(b, 0 + 1, 0 + IdWidth)
      BY <2>1, SomeIs
    <3> QED
      BY <3>1, <3>2
  <2>3. SubSeq(b, 1, IdWidth) \in Seq(Bytes)
    <3>1. IdWidth <= Len(b)
      BY <1>1, <2>1
    <3> HIDE DEF b
    <3> QED
      BY <1>1, <3>1
  <2>4. id \in Nat
    <3> HIDE DEF t, b
    <3> QED
      BY <2>2, <2>3, NumberIs
  <2>5. Note(places, record) = With(places, id, entry)
    BY <1>3 DEF Note
  <2>6. PICK D \in SUBSET Nat : places \in [D -> [at : Nat, len : Nat]]
    BY DEF Places
  <2> HIDE DEF id, entry
  <2>7. With(places, id, entry) \in [D \cup {id} -> [at : Nat, len : Nat]]
    BY <1>2, <2>6 DEF With
  <2>8. D \cup {id} \in SUBSET Nat
    BY <2>4
  <2> QED
    BY <2>5, <2>7, <2>8 DEF Places
<1>4. CASE t.res # "some"
  BY <1>4 DEF Note
<1> QED
  BY <1>3, <1>4

\* The records are noted one by one.
LEMMA NotedLoop ==
    ASSUME CodecConstants, NEW records \in Seq(Records)
    PROVE  \E f : /\ f[0] = NoAttrs
                  /\ \A n \in 1 .. Len(records) : f[n] = Note(f[n - 1], records[n])
                  /\ Noted(records) = f[Len(records)]
<1> DEFINE S == Places
           First == NoAttrs
           Pass(n, u) == Note(u, records[n])
           step == [y \in Nat \X S |-> IF y[1] \in 1 .. Len(records) THEN Pass(y[1], y[2]) ELSE y[2]]
           Is(f) == f = [n \in 0 .. Len(records) |-> IF n = 0 THEN First ELSE Pass(n, f[n - 1])]
<1>1. Len(records) \in Nat /\ First \in S
  <2>1. Len(records) \in Nat
    OBVIOUS
  <2>2. NoAttrs \in [{} -> [at : Nat, len : Nat]]
    BY DEF NoAttrs
  <2> QED
    BY <2>1, <2>2 DEF Places
<1>2. ASSUME NEW n \in 1 .. Len(records), NEW u \in S
      PROVE  Pass(n, u) \in S
  <2> HIDE DEF S
  <2>1. u \in Places /\ records[n] \in Records
    BY DEF S
  <2>2. Note(u, records[n]) \in Places
    BY <2>1, NoteIs
  <2> QED
    BY <2>2 DEF S
<1>3. /\ step \in [Nat \X S -> S]
      /\ \A n \in 1 .. Len(records), u \in S : step[<<n, u>>] = Pass(n, u)
  <2>1. \A n \in 1 .. Len(records) : n \in Nat
    BY <1>1
  <2> HIDE DEF S, Pass
  <2> QED
    BY <1>1, <1>2, <2>1
<1>4. PICK f : IsLoop(f, S, Len(records), First, step)
  <2> HIDE DEF S, First, step
  <2> QED
    BY <1>1, <1>3, LoopExists, Zenon
<1>5. Is(f)
  <2> HIDE DEF S, First, Pass, step
  <2>1. f = [n \in 0 .. Len(records) |-> f[n]] /\ f[0] = First
    BY <1>4 DEF IsLoop
  <2>2. ASSUME NEW n \in 1 .. Len(records)
        PROVE  f[n] = Pass(n, f[n - 1])
    <3>1. n - 1 \in 0 .. Len(records)
      BY <1>1
    <3>2. f[n - 1] \in S /\ f[n] = step[<<n, f[n - 1]>>]
      BY <1>4, <3>1 DEF IsLoop
    <3> QED
      BY <1>3, <3>2
  <2>3. \A n \in 0 .. Len(records) : n # 0 => n \in 1 .. Len(records)
    BY <1>1
  <2> QED
    BY <2>1, <2>2, <2>3
<1> DEFINE c == CHOOSE e : Is(e)
<1>6. Is(c)
  <2> HIDE DEF Is
  <2> QED
    BY <1>5
<1>7. Noted(records) = c[Len(records)]
  BY DEF Noted
<1>8. c[0] = First /\ \A n \in 1 .. Len(records) : c[n] = Pass(n, c[n - 1])
  <2> HIDE DEF c, First, Pass
  <2>1. 0 \in 0 .. Len(records) /\ \A n \in 1 .. Len(records) : n \in 0 .. Len(records) /\ n # 0
    BY <1>1
  <2> QED
    BY <1>6, <2>1
<1> HIDE DEF c
<1> QED
  BY <1>7, <1>8


\* Passes over the records.
Notes(records, f) ==
    f[0] = NoAttrs /\ \A n \in 1 .. Len(records) : f[n] = Note(f[n - 1], records[n])

\* They decide what is noted.
LEMMA NotedIs ==
    ASSUME NEW records \in Seq(Records),
           NEW f, Notes(records, f)
    PROVE  Noted(records) = f[Len(records)]
<1> DEFINE Pass(n, u) == Note(u, records[n])
           Is(e) == e = [n \in 0 .. Len(records) |-> IF n = 0 THEN NoAttrs ELSE Pass(n, e[n - 1])]
           g == [n \in 0 .. Len(records) |-> f[n]]
           c == CHOOSE e : Is(e)
           T == {n \in 0 .. Len(records) : c[n] = f[n]}
<1>1. Len(records) \in Nat
  OBVIOUS
<1>0. f[0] = NoAttrs /\ \A n \in 1 .. Len(records) : f[n] = Note(f[n - 1], records[n])
  BY DEF Notes
<1>2. Is(g)
  <2>1. \A n \in 0 .. Len(records) : n # 0 => n \in 1 .. Len(records) /\ n - 1 \in 0 .. Len(records)
    BY <1>1
  <2> HIDE DEF Pass
  <2>2. \A n \in 1 .. Len(records) : f[n] = Pass(n, f[n - 1])
    BY <1>0 DEF Pass
  <2>3. ASSUME NEW n \in 0 .. Len(records)
        PROVE  g[n] = IF n = 0 THEN NoAttrs ELSE Pass(n, g[n - 1])
    BY <1>0, <2>1, <2>2
  <2> QED
    BY <2>3
<1>3. Is(c)
  <2> HIDE DEF Is
  <2> QED
    BY <1>2
<1>4. Noted(records) = c[Len(records)]
  BY DEF Noted
<1>5. c[0] = f[0] /\ \A n \in 1 .. Len(records) : c[n] = Pass(n, c[n - 1])
  <2> HIDE DEF c, Pass
  <2>1. 0 \in 0 .. Len(records) /\ \A n \in 1 .. Len(records) : n \in 0 .. Len(records) /\ n # 0
    BY <1>1
  <2> QED
    BY <1>0, <1>3, <2>1
<1> HIDE DEF c
<1>6. 0 \in T
  BY <1>1, <1>5
<1>7. ASSUME NEW n \in 1 .. Len(records), n - 1 \in T
      PROVE  n \in T
  <2>1. f[n] = Pass(n, f[n - 1]) /\ c[n] = Pass(n, c[n - 1]) /\ c[n - 1] = f[n - 1]
    BY <1>0, <1>5, <1>7
  <2> HIDE DEF Pass
  <2>2. n \in 0 .. Len(records)
    BY <1>1
  <2> QED
    BY <2>1, <2>2
<1>8. \A n \in 0 .. Len(records) : n \in T
  <2> HIDE DEF T
  <2> QED
    BY <1>1, <1>6, <1>7, LoopKeeps
<1>9. c[Len(records)] = f[Len(records)]
  BY <1>1, <1>8
<1> QED
  BY <1>4, <1>9

\* Of no record nothing is noted, and of one more, it.
LEMMA NotedMore ==
    ASSUME CodecConstants
    PROVE  /\ Noted(<<>>) = NoAttrs
           /\ \A records \in Seq(Records), record \in Records :
                 Noted(Append(records, record)) = Note(Noted(records), record)
<1>1. Noted(<<>>) = NoAttrs
  <2>1. <<>> \in Seq(Records) /\ Len(<<>>) = 0
    OBVIOUS
  <2>2. PICK f : f[0] = NoAttrs /\ Noted(<<>>) = f[Len(<<>>)]
    BY <2>1, NotedLoop
  <2> QED
    BY <2>1, <2>2
<1>2. ASSUME NEW records \in Seq(Records), NEW record \in Records
      PROVE  Noted(Append(records, record)) = Note(Noted(records), record)
  <2> DEFINE N == Len(records)
             more == Append(records, record)
  <2>1. PICK f : /\ f[0] = NoAttrs
                 /\ \A n \in 1 .. N : f[n] = Note(f[n - 1], records[n])
                 /\ Noted(records) = f[N]
    BY NotedLoop
  <2>2. /\ more \in Seq(Records) /\ Len(more) = N + 1 /\ N \in Nat /\ more[N + 1] = record
        /\ \A n \in 1 .. N : more[n] = records[n]
    OBVIOUS
  <2> DEFINE g == [n \in 0 .. N + 1 |-> IF n <= N THEN f[n] ELSE Note(f[N], record)]
  <2> HIDE DEF N, more
  <2>3. g[0] = f[0] /\ g[N + 1] = Note(f[N], record) /\ \A n \in 0 .. N : g[n] = f[n]
    <3>1. /\ 0 \in 0 .. N + 1 /\ 0 <= N /\ N + 1 \in 0 .. N + 1 /\ ~(N + 1 <= N)
          /\ \A n \in 0 .. N : n \in 0 .. N + 1 /\ n <= N
      BY <2>2
    <3> QED
      BY <3>1
  <2> HIDE DEF g
  <2>4. ASSUME NEW n \in 1 .. N + 1
        PROVE  g[n] = Note(g[n - 1], more[n])
    <3>1. CASE n = N + 1
      <4>1. n - 1 = N /\ N \in 0 .. N
        BY <2>2, <3>1
      <4> QED
        BY <2>2, <2>3, <3>1, <4>1
    <3>2. CASE n # N + 1
      <4>1. n \in 1 .. N /\ n \in 0 .. N /\ n - 1 \in 0 .. N
        BY <2>2, <3>2
      <4> QED
        BY <2>1, <2>2, <2>3, <4>1
    <3> QED
      BY <3>1, <3>2
  <2>5. Notes(more, g)
    BY <2>1, <2>2, <2>3, <2>4 DEF Notes
  <2>6. Noted(more) = g[Len(more)]
    BY <2>2, <2>5, NotedIs
  <2> QED
    BY <2>1, <2>2, <2>3, <2>6 DEF more
<1> QED
  BY <1>1, <1>2

\* Where a record of an entity ends; nothing ends at the start.
EndOf(es, at, i) == IF i = 0 THEN 0 ELSE at[i] + LenWidth + Len(EncodeEntity(es[i]))

\* The records of entities lie one behind the other, whole lengths apart, and
\* all else is zeros.
LaidOut(bytes, es, at) ==
    /\ \A i \in 1 .. Len(es) : at[i] \in Nat /\ Lies(Prefixed(EncodeEntity(es[i])), bytes, at[i])
    /\ \A i \in 1 .. Len(es) : Steps(EndOf(es, at, i - 1), at[i])
    /\ \A i, j \in 1 .. Len(es) : i < j => EndOf(es, at, i) <= at[j]
    /\ \A x \in 1 .. Len(bytes) :
          (\A i \in 1 .. Len(es) : x <= at[i] \/ EndOf(es, at, i) < x) => bytes[x] = 0

\* The index has the last record of each of the first k entities.
Indexed(places, es, at, k) ==
    /\ DOMAIN places = {es[i].id : i \in 1 .. k}
    /\ \A i \in 1 .. k :
          (\A j \in i + 1 .. k : es[j].id # es[i].id) =>
              places[es[i].id] = [at |-> at[i], len |-> Len(EncodeEntity(es[i]))]

\* The entity that is written is in its record.
LEMMA WrittenIs ==
    ASSUME CodecConstants, NEW e \in Entities
    PROVE  /\ IsEntity(e) /\ e.id \in Nat
           /\ EncodeEntity(e) \in Seq(Bytes) /\ Fits(Len(EncodeEntity(e)), LenWidth)
           /\ Len(EncodeEntity(e)) \in Nat
           /\ Prefixed(EncodeEntity(e)) \in Seq(Bytes)
           /\ Len(Prefixed(EncodeEntity(e))) = LenWidth + Len(EncodeEntity(e))
           /\ LenWidth \in Nat /\ LenWidth > 0
<1>1. IsEntity(e) /\ Fits(Len(EncodeEntity(e)), LenWidth) /\ LenWidth \in Nat /\ LenWidth > 0
  BY DEF CodecConstants
<1>2. e.id \in Nat
  BY <1>1 DEF IsEntity, Fits
<1> DEFINE b == EncodeEntity(e)
<1>3. b \in Seq(Bytes)
  BY <1>1, EntityIs
<1> HIDE DEF b
<1>4. Len(b) \in Nat /\ Prefixed(b) \in Seq(Bytes) /\ Len(Prefixed(b)) = LenWidth + Len(b)
  BY <1>3, PrefixedIs
<1> QED
  BY <1>1, <1>2, <1>3, <1>4 DEF b

\* The order of the records.
LEMMA EndsAre ==
    ASSUME CodecConstants, NEW bytes \in Seq(Bytes), NEW es \in Seq(Entities), NEW at,
           LaidOut(bytes, es, at)
    PROVE  /\ \A i \in 0 .. Len(es) : EndOf(es, at, i) \in Nat
           /\ \A i \in 1 .. Len(es) :
                 at[i] \in Nat /\ at[i] <= EndOf(es, at, i) /\ EndOf(es, at, i) <= Len(bytes)
           /\ \A i, j \in 1 .. Len(es) :
                 i <= j => EndOf(es, at, i) <= EndOf(es, at, j) /\ at[i] <= at[j]
<1> DEFINE m == Len(es)
<1>1. ASSUME NEW i \in 1 .. m
      PROVE  /\ EndOf(es, at, i) \in Nat /\ at[i] \in Nat
             /\ at[i] <= EndOf(es, at, i) /\ EndOf(es, at, i) <= Len(bytes)
  <2> DEFINE e == es[i]
             r == Prefixed(EncodeEntity(e))
             n == Len(EncodeEntity(e))
  <2>1. e \in Entities
    OBVIOUS
  <2>2. n \in Nat /\ Len(r) = LenWidth + n /\ LenWidth \in Nat
    <3> HIDE DEF e
    <3> QED
      BY <2>1, WrittenIs
  <2>3. at[i] \in Nat /\ Lies(r, bytes, at[i])
    BY DEF LaidOut
  <2>4. at[i] + Len(r) <= Len(bytes) /\ Len(bytes) \in Nat
    BY <2>3 DEF Lies
  <2>5. EndOf(es, at, i) = at[i] + LenWidth + n
    BY DEF EndOf
  <2> HIDE DEF r, n
  <2> QED
    BY <2>2, <2>3, <2>4, <2>5
<1>2. EndOf(es, at, 0) = 0
  BY DEF EndOf
<1>3. ASSUME NEW i \in 1 .. m, NEW j \in 1 .. m, i <= j
      PROVE  EndOf(es, at, i) <= EndOf(es, at, j) /\ at[i] <= at[j]
  <2>1. CASE i = j
    BY <1>1, <2>1
  <2>2. CASE i # j
    <3>1. i < j
      BY <1>3, <2>2
    <3>2. EndOf(es, at, i) <= at[j]
      BY <3>1 DEF LaidOut
    <3>3. /\ EndOf(es, at, i) \in Nat /\ at[i] \in Nat /\ at[i] <= EndOf(es, at, i)
          /\ EndOf(es, at, j) \in Nat /\ at[j] \in Nat /\ at[j] <= EndOf(es, at, j)
      BY <1>1
    <3> QED
      BY <3>2, <3>3
  <2> QED
    BY <2>1, <2>2
<1>4. ASSUME NEW i \in 0 .. m
      PROVE  EndOf(es, at, i) \in Nat
  <2>1. i = 0 \/ i \in 1 .. m
    OBVIOUS
  <2> QED
    BY <1>1, <1>2, <2>1
<1> QED
  BY <1>1, <1>3, <1>4

\* A step of a scan over zeros.
LEMMA StepZeros ==
    ASSUME CodecConstants, NEW bytes \in Seq(Bytes), NEW p \in Nat, NEW r \in Seq(Records),
           p + LenWidth <= Len(bytes), \A x \in p + 1 .. p + LenWidth : bytes[x] = 0
    PROVE  ScanStep(bytes, At(p, r)) = At(p + LenWidth, Append(r, [at |-> p, body |-> <<>>]))
<1> DEFINE d == SubSeq(bytes, p + 1, p + LenWidth)
           n == Number(d)
<1>1. LenWidth \in Nat /\ Len(bytes) \in Nat
  BY DEF CodecConstants
<1>2. d \in Seq(Bytes) /\ Len(d) = LenWidth /\ \A i \in 1 .. LenWidth : d[i] = bytes[p + i]
  <2>1. /\ (p + LenWidth) - (p + 1) + 1 = LenWidth
        /\ \A i \in 1 .. LenWidth : (p + 1) + i - 1 = p + i
        /\ p + 1 \in Nat /\ p + LenWidth \in Nat /\ p + 1 >= 1
    BY <1>1
  <2> DEFINE q == p + 1
             o == p + LenWidth
  <2>2. q \in 1 .. Len(bytes) + 1 /\ o \in 0 .. Len(bytes) /\ q \in Nat /\ o \in Nat /\ o - q + 1 = LenWidth
    BY <1>1, <2>1
  <2>3. \A i \in 1 .. LenWidth : q + i - 1 = p + i
    BY <2>1
  <2> HIDE DEF q, o
  <2>4. SubSeq(bytes, q, o) \in Seq(Bytes)
    BY <2>2
  <2>5. Len(SubSeq(bytes, q, o)) = o - q + 1
    BY <1>1, <2>2
  <2>6. \A i \in 1 .. o - q + 1 : SubSeq(bytes, q, o)[i] = bytes[q + i - 1]
    BY <1>1, <2>2
  <2>7. \A i \in 1 .. LenWidth : SubSeq(bytes, q, o)[i] = bytes[p + i]
    BY <2>2, <2>3, <2>6
  <2> QED
    BY <2>2, <2>4, <2>5, <2>7 DEF q, o
<1>3. \A i \in 1 .. LenWidth : p + i \in p + 1 .. p + LenWidth
  BY <1>1
<1> HIDE DEF d
<1>4. \A i \in 1 .. Len(d) : d[i] = 0
  BY <1>2, <1>3
<1>5. n = 0
  BY <1>2, <1>4, NumberOfZeros
<1>6. n = Number(SubSeq(bytes, p + 1, p + LenWidth))
  BY DEF d
<1> HIDE DEF n
<1>7. p + LenWidth + n = p + LenWidth /\ p + LenWidth + n <= Len(bytes) /\ n \in Nat
  BY <1>1, <1>5
<1>8. ScanStep(bytes, At(p, r))
          = At(p + LenWidth + n,
               Append(r, [at |-> p, body |-> SubSeq(bytes, p + LenWidth + 1, p + LenWidth + n)]))
  BY <1>6, <1>7, StepWhole
<1>9. SubSeq(bytes, p + LenWidth + 1, p + LenWidth) = <<>>
  <2> DEFINE o == p + LenWidth
  <2>1. o \in Nat /\ o <= Len(bytes)
    BY <1>1
  <2> HIDE DEF o
  <2>2. SubSeq(bytes, o + 1, o) = <<>>
    BY <2>1
  <2> QED
    BY <2>2 DEF o
<1> QED
  BY <1>7, <1>8, <1>9

\* Nothing is noted of an empty record.
LEMMA NoteEmpty ==
    ASSUME CodecConstants, NEW places, NEW p
    PROVE  Note(places, [at |-> p, body |-> <<>>]) = places
<1> DEFINE record == [at |-> p, body |-> <<>>]
<1>1. record.body = <<>>
  OBVIOUS
<1>2. IdWidth \in Nat /\ IdWidth > 0
  BY DEF CodecConstants
<1>3. ~(0 + IdWidth <= Len(<<>>))
  BY <1>2
<1>4. Peek(<<>>) = Fail("none")
  BY <1>3 DEF Peek, Take
<1>5. Peek(record.body).res = "none"
  BY <1>1, <1>4 DEF Fail
<1> HIDE DEF record
<1>6. Note(places, record) = places
  BY <1>5 DEF Note
<1> QED
  BY <1>6 DEF record

\* Of the record of an entity its place is.
LEMMA NoteEntity ==
    ASSUME CodecConstants, NEW places, NEW p \in Nat, NEW e \in Entities
    PROVE  Note(places, [at |-> p, body |-> EncodeEntity(e)])
               = With(places, e.id, [at |-> p, len |-> Len(EncodeEntity(e))])
<1> DEFINE b == EncodeEntity(e)
           record == [at |-> p, body |-> b]
           d == Digits(e.id, IdWidth)
           t == Peek(b)
<1>1. record.body = b /\ record.at = p
  OBVIOUS
<1>2. IsEntity(e) /\ b \in Seq(Bytes) /\ e.id \in Nat /\ Fits(e.id, IdWidth) /\ IdWidth \in Nat
  BY WrittenIs DEF IsEntity, CodecConstants
<1>3. PICK rest \in Seq(Bytes) : b = d \o rest
  BY <1>2, EntityIs DEF U64
<1>4. d \in Seq(Bytes) /\ Len(d) = IdWidth /\ Number(d) = e.id
  BY <1>2, DigitsAre, NumberOfDigits
<1> HIDE DEF b, d
<1>5. Lies(d, b, 0)
  <2>1. Lies(b, b, 0)
    BY <1>2, LiesWhole
  <2>2. Lies(d \o rest, b, 0)
    BY <1>3, <2>1
  <2> QED
    BY <1>2, <1>4, <2>2, LiesConcat
<1>6. t = Some(d, 0 + IdWidth)
  <2>1. Take(b, 0, Len(d), "none") = Some(d, 0 + Len(d))
    BY <1>2, <1>4, <1>5, TakeIs
  <2> QED
    BY <1>4, <2>1 DEF Peek
<1>7. t.res = "some" /\ t.val = d
  <2> HIDE DEF t
  <2> QED
    BY <1>6, SomeIs
<1> HIDE DEF record, t
<1>8. Peek(record.body).res = "some" /\ Number(Peek(record.body).val) = e.id
  BY <1>1, <1>4, <1>7 DEF t
<1>9. Note(places, record) = With(places, e.id, [at |-> RecordStart(record), len |-> Len(record.body)])
  BY <1>8 DEF Note
<1>10. RecordStart(record) = p /\ Len(record.body) = Len(b)
  BY <1>1 DEF RecordStart
<1> QED
  BY <1>9, <1>10 DEF record, b

\* The index is that of one more entity then.
LEMMA IndexedMore ==
    ASSUME NEW es \in Seq(Entities), NEW at, NEW k \in Nat, k + 1 <= Len(es),
           NEW places, Indexed(places, es, at, k)
    PROVE  Indexed(With(places, es[k + 1].id, [at |-> at[k + 1], len |-> Len(EncodeEntity(es[k + 1]))]),
                   es, at, k + 1)
<1> DEFINE id == es[k + 1].id
           entry == [at |-> at[k + 1], len |-> Len(EncodeEntity(es[k + 1]))]
           w == With(places, id, entry)
<1>1. 1 .. k + 1 = (1 .. k) \cup {k + 1}
  OBVIOUS
<1>2. DOMAIN w = DOMAIN places \cup {id} /\ w[id] = entry
      /\ \A d \in DOMAIN places : d # id => w[d] = places[d]
  <2> HIDE DEF id, entry
  <2> QED
    BY DEF With
<1> HIDE DEF w
<1>3. DOMAIN w = {es[i].id : i \in 1 .. k + 1}
  BY <1>1, <1>2 DEF Indexed
<1>4. ASSUME NEW i \in 1 .. k + 1, \A j \in i + 1 .. k + 1 : es[j].id # es[i].id
      PROVE  w[es[i].id] = [at |-> at[i], len |-> Len(EncodeEntity(es[i]))]
  <2>1. CASE i = k + 1
    BY <1>2, <2>1
  <2>2. CASE i # k + 1
    <3>1. i \in 1 .. k /\ k + 1 \in i + 1 .. k + 1 /\ \A j \in i + 1 .. k : j \in i + 1 .. k + 1
      BY <2>2
    <3>2. es[i].id # id /\ \A j \in i + 1 .. k : es[j].id # es[i].id
      BY <1>4, <3>1
    <3>3. es[i].id \in DOMAIN places
      BY <3>1 DEF Indexed
    <3>4. places[es[i].id] = [at |-> at[i], len |-> Len(EncodeEntity(es[i]))]
      BY <3>1, <3>2 DEF Indexed
    <3> HIDE DEF id
    <3> QED
      BY <1>2, <3>2, <3>3, <3>4
  <2> QED
    BY <2>1, <2>2
<1> QED
  BY <1>3, <1>4 DEF Indexed, w

\* A scan is behind the first k records, whole lengths before the next one.
ScanAt(bytes, es, at, s, k) ==
    /\ s \in Scanned /\ s.pos <= Len(bytes)
    /\ EndOf(es, at, k) <= s.pos
    /\ k < Len(es) => Steps(s.pos, at[k + 1])
    /\ k = Len(es) => Steps(EndOf(es, at, k), s.pos)
    /\ Indexed(Noted(s.records), es, at, k)
    /\ s.done = TRUE => k = Len(es)

\* A step of a scan goes on over a record or over zeros, or ends.
LEMMA ScanGoes ==
    ASSUME CodecConstants, NEW bytes \in Seq(Bytes), NEW es \in Seq(Entities), NEW at,
           LaidOut(bytes, es, at), NEW s, NEW k \in 0 .. Len(es), ScanAt(bytes, es, at, s, k),
           s.done = FALSE
    PROVE  \E l \in 0 .. Len(es) :
              /\ ScanAt(bytes, es, at, ScanStep(bytes, s), l)
              /\ ScanStep(bytes, s).done = FALSE => s.pos + 1 <= ScanStep(bytes, s).pos
<1> DEFINE m == Len(es)
           p == s.pos
           r == s.records
           t == ScanStep(bytes, s)
           fin == EndOf(es, at, k)
<1>1. /\ p \in Nat /\ r \in Seq(Records) /\ s = At(p, r) /\ p <= Len(bytes)
      /\ fin <= p
      /\ k < m => Steps(p, at[k + 1])
      /\ k = m => Steps(fin, p)
      /\ Indexed(Noted(r), es, at, k)
  BY DEF ScanAt, Scanned, At
<1>2. LenWidth \in Nat /\ LenWidth > 0 /\ Len(bytes) \in Nat /\ m \in Nat /\ k \in Nat
  BY DEF CodecConstants
<1>3. /\ fin \in Nat
      /\ \A i \in 1 .. m : at[i] \in Nat /\ at[i] <= EndOf(es, at, i) /\ EndOf(es, at, i) <= Len(bytes)
                           /\ EndOf(es, at, i) \in Nat
      /\ \A i, j \in 1 .. m : i <= j => EndOf(es, at, i) <= EndOf(es, at, j) /\ at[i] <= at[j]
  <2>1. \A i \in 1 .. m : i \in 0 .. m
    OBVIOUS
  <2> HIDE DEF m
  <2> QED
    BY <2>1, EndsAre DEF m
<1> HIDE DEF m, p, r, fin
<1>4. ASSUME k < m, p = at[k + 1]
      PROVE  ScanAt(bytes, es, at, t, k + 1) /\ p + 1 <= t.pos
  <2> DEFINE e == es[k + 1]
             b == EncodeEntity(e)
             x == [at |-> p, body |-> b]
             next == EndOf(es, at, k + 1)
             q == Append(r, x)
  <2>1. k + 1 \in 1 .. m /\ k + 1 \in Nat /\ k + 1 <= Len(es) /\ k + 1 # 0
    BY <1>2, <1>4 DEF m
  <2>2. e \in Entities
    BY <2>1 DEF m
  <2>3. b \in Seq(Bytes) /\ Fits(Len(b), LenWidth) /\ Len(b) \in Nat
    <3> HIDE DEF e
    <3> QED
      BY <2>2, WrittenIs
  <2>4. Lies(Prefixed(b), bytes, p)
    BY <1>4, <2>1 DEF LaidOut, m
  <2>5. next = p + LenWidth + Len(b)
    BY <1>4, <2>1 DEF EndOf
  <2>6. t = At(next, q)
    <3> HIDE DEF b, e
    <3>1. ScanStep(bytes, At(p, r)) = At(p + LenWidth + Len(b), Append(r, [at |-> p, body |-> b]))
      BY <1>1, <2>3, <2>4, StepOver
    <3> HIDE DEF next
    <3> QED
      BY <1>1, <2>5, <3>1
  <2>7. q \in Seq(Records)
    <3>1. x \in Records
      BY <1>1, <2>3 DEF Records
    <3> HIDE DEF x
    <3> QED
      BY <1>1, <3>1
  <2>8. next \in Nat /\ next <= Len(bytes) /\ p + 1 <= next
    <3>1. next \in Nat /\ next <= Len(bytes)
      BY <1>3, <2>1
    <3> HIDE DEF next, b
    <3> QED
      BY <1>1, <1>2, <2>3, <2>5, <3>1
  <2>9. Indexed(Noted(q), es, at, k + 1)
    <3> DEFINE entry == [at |-> p, len |-> Len(b)]
    <3>1. Noted(q) = Note(Noted(r), x)
      <4>1. x \in Records
        BY <1>1, <2>3 DEF Records
      <4> HIDE DEF x
      <4> QED
        BY <1>1, <4>1, NotedMore
    <3>2. Note(Noted(r), x) = With(Noted(r), e.id, entry)
      <4> HIDE DEF e
      <4> QED
        BY <1>1, <2>2, NoteEntity
    <3>3. Indexed(With(Noted(r), es[k + 1].id,
                       [at |-> at[k + 1], len |-> Len(EncodeEntity(es[k + 1]))]), es, at, k + 1)
      BY <1>1, <1>2, <2>1, IndexedMore
    <3>4. With(Noted(r), es[k + 1].id, [at |-> at[k + 1], len |-> Len(EncodeEntity(es[k + 1]))])
              = With(Noted(r), e.id, entry)
      BY <1>4
    <3> HIDE DEF e, x, q, entry
    <3> QED
      BY <3>1, <3>2, <3>3, <3>4
  <2>10. k + 1 < m => Steps(next, at[(k + 1) + 1])
    <3> SUFFICES ASSUME k + 1 < m
                 PROVE  Steps(next, at[(k + 1) + 1])
      OBVIOUS
    <3> DEFINE i == (k + 1) + 1
    <3>1. i \in 1 .. Len(es) /\ i - 1 = k + 1
      BY <1>2 DEF m
    <3> HIDE DEF i, next
    <3>2. Steps(EndOf(es, at, i - 1), at[i])
      BY <3>1 DEF LaidOut
    <3> QED
      BY <3>1, <3>2 DEF i, next
  <2>11. Steps(next, next)
    <3> HIDE DEF next
    <3> QED
      BY <2>8, StepsAre
  <2> HIDE DEF next, q
  <2>12. t.pos = next /\ t.records = q /\ t.done = FALSE
    BY <2>6 DEF At
  <2>13. t \in Scanned
    BY <2>6, <2>7, <2>8 DEF At, Scanned
  <2>14. EndOf(es, at, k + 1) = next /\ next <= next
    BY <2>8 DEF next
  <2>15. ScanAt(bytes, es, at, t, k + 1)
    <3> HIDE DEF t
    <3> QED
      BY <2>8, <2>9, <2>10, <2>11, <2>12, <2>13, <2>14 DEF ScanAt, m
  <2> QED
    BY <2>8, <2>12, <2>15
<1>5. ASSUME p + LenWidth <= Len(bytes), k < m => p + LenWidth <= at[k + 1]
      PROVE  \A x \in p + 1 .. p + LenWidth : bytes[x] = 0
  <2> SUFFICES ASSUME NEW x \in p + 1 .. p + LenWidth
               PROVE  bytes[x] = 0
    OBVIOUS
  <2>1. x \in 1 .. Len(bytes) /\ x \in Nat /\ p + 1 <= x /\ x <= p + LenWidth
    BY <1>1, <1>2, <1>5
  <2>2. ASSUME NEW i \in 1 .. m
        PROVE  x <= at[i] \/ EndOf(es, at, i) < x
    <3>1. CASE i <= k
      <4>1. k \in 1 .. m
        BY <1>2, <3>1 DEF m
      <4>2. EndOf(es, at, i) <= fin
        BY <1>3, <3>1, <4>1 DEF fin
      <4>3. EndOf(es, at, i) \in Nat
        BY <1>3
      <4> QED
        BY <1>1, <1>3, <2>1, <4>2, <4>3
    <3>2. CASE ~(i <= k)
      <4>1. k < m /\ k + 1 \in 1 .. m /\ k + 1 <= i
        BY <1>2, <3>2
      <4>2. at[k + 1] <= at[i] /\ at[k + 1] \in Nat /\ at[i] \in Nat
        BY <1>3, <4>1
      <4>3. p + LenWidth <= at[k + 1]
        BY <1>5, <4>1
      <4> QED
        BY <1>1, <1>2, <2>1, <4>2, <4>3
    <3> QED
      BY <3>1, <3>2
  <2> QED
    BY <2>1, <2>2 DEF LaidOut, m
<1>6. ASSUME p + LenWidth <= Len(bytes), k < m => p + LenWidth <= at[k + 1],
             k < m => Steps(p + LenWidth, at[k + 1])
      PROVE  ScanAt(bytes, es, at, t, k) /\ p + 1 <= t.pos
  <2> DEFINE x == [at |-> p, body |-> <<>>]
             next == p + LenWidth
             q == Append(r, x)
  <2>1. t = At(next, q)
    <3>1. \A y \in p + 1 .. p + LenWidth : bytes[y] = 0
      BY <1>5, <1>6
    <3> QED
      BY <1>1, <1>6, <3>1, StepZeros
  <2>2. x \in Records
    <3>1. <<>> \in Seq(Bytes)
      OBVIOUS
    <3> QED
      BY <1>1, <3>1 DEF Records
  <2>3. q \in Seq(Records)
    <3> HIDE DEF x
    <3> QED
      BY <1>1, <2>2
  <2>4. Noted(q) = Noted(r)
    <3>1. Noted(q) = Note(Noted(r), x)
      <4> HIDE DEF x
      <4> QED
        BY <1>1, <2>2, NotedMore
    <3> QED
      BY <3>1, NoteEmpty
  <2>5. next \in Nat /\ next <= Len(bytes) /\ p + 1 <= next /\ fin <= next
    BY <1>1, <1>2, <1>3, <1>6
  <2>6. k = m => Steps(fin, next)
    BY <1>1, <1>3, StepsAre
  <2>7. k < m => Steps(next, at[k + 1])
    BY <1>6
  <2> HIDE DEF next, q, x
  <2>8. t.pos = next /\ t.records = q /\ t.done = FALSE
    BY <2>1 DEF At
  <2>9. t \in Scanned
    BY <2>1, <2>3, <2>5 DEF At, Scanned
  <2>10. ScanAt(bytes, es, at, t, k)
    <3> HIDE DEF t
    <3> QED
      BY <1>1, <2>4, <2>5, <2>6, <2>7, <2>8, <2>9 DEF ScanAt, fin, m
  <2> QED
    BY <2>5, <2>8, <2>10
<1>7. ASSUME k = m, p + LenWidth > Len(bytes)
      PROVE  ScanAt(bytes, es, at, t, k) /\ t.done = TRUE
  <2>1. t = [pos |-> p, records |-> r, done |-> TRUE]
    BY <1>1, <1>7, StepShort
  <2>2. t.pos = p /\ t.records = r /\ t.done = TRUE
    BY <2>1
  <2>3. t \in Scanned
    BY <1>1, <2>1 DEF Scanned
  <2>4. ScanAt(bytes, es, at, t, k)
    <3> HIDE DEF t
    <3> QED
      BY <1>1, <1>2, <1>7, <2>2, <2>3 DEF ScanAt, fin, m
  <2> QED
    BY <2>2, <2>4
<1> HIDE DEF t
<1>8. k + 1 \in 0 .. m \/ k = m
  BY <1>2 DEF m
<1>9. CASE k < m
  <2>1. Steps(p, at[k + 1]) /\ k + 1 \in 1 .. m /\ k + 1 \in 0 .. m /\ k \in 0 .. m
    BY <1>1, <1>2, <1>9
  <2>2. CASE p = at[k + 1]
    <3>1. ScanAt(bytes, es, at, t, k + 1) /\ p + 1 <= t.pos
      BY <1>4, <1>9, <2>2
    <3> QED
      BY <2>1, <3>1 DEF m, p, t
  <2>3. CASE p # at[k + 1]
    <3>1. p + LenWidth <= at[k + 1] /\ Steps(p + LenWidth, at[k + 1])
      BY <1>1, <2>1, <2>3, StepsAre
    <3>2. p + LenWidth <= Len(bytes)
      <4>1. at[k + 1] \in Nat /\ at[k + 1] <= EndOf(es, at, k + 1) /\ EndOf(es, at, k + 1) <= Len(bytes)
            /\ EndOf(es, at, k + 1) \in Nat
        BY <1>3, <2>1
      <4> QED
        BY <1>1, <1>2, <3>1, <4>1
    <3>3. ScanAt(bytes, es, at, t, k) /\ p + 1 <= t.pos
      BY <1>6, <3>1, <3>2
    <3> QED
      BY <2>1, <3>3 DEF m, p, t
  <2> QED
    BY <2>2, <2>3
<1>10. CASE k = m
  <2>1. k \in 0 .. m /\ ~(k < m)
    BY <1>2, <1>10
  <2>2. CASE p + LenWidth <= Len(bytes)
    <3>1. ScanAt(bytes, es, at, t, k) /\ p + 1 <= t.pos
      BY <1>6, <2>1, <2>2
    <3> QED
      BY <2>1, <3>1 DEF m, p, t
  <2>3. CASE ~(p + LenWidth <= Len(bytes))
    <3>1. p + LenWidth > Len(bytes)
      BY <1>1, <1>2, <2>3
    <3>2. ScanAt(bytes, es, at, t, k) /\ t.done = TRUE
      BY <1>7, <1>10, <3>1
    <3> QED
      BY <2>1, <3>2 DEF m, p, t
  <2> QED
    BY <2>2, <2>3
<1>11. k < m \/ k = m
  BY <1>2 DEF m
<1> QED
  BY <1>9, <1>10, <1>11

\* A scan of the file indexes all records, and ends whole lengths behind them.
LEMMA FileScanned ==
    ASSUME CodecConstants, NEW bytes \in Seq(Bytes), NEW es \in Seq(Entities), NEW at,
           LaidOut(bytes, es, at)
    PROVE  ScanAt(bytes, es, at, Scan(bytes), Len(es))
<1> DEFINE m == Len(es)
           N == Len(bytes) + 1
<1>1. PICK g : /\ g[0] = [pos |-> 0, records |-> <<>>, done |-> FALSE]
               /\ \A n \in 1 .. Len(bytes) + 1 : g[n] = ScanStep(bytes, g[n - 1])
               /\ Scan(bytes) = g[Len(bytes) + 1]
  BY ScanLoop
<1> DEFINE Far(n) == \E k \in 0 .. m : /\ ScanAt(bytes, es, at, g[n], k)
                                       /\ g[n].done = FALSE => n <= g[n].pos
           T == {n \in 0 .. N : Far(n)}
<1>2. N \in Nat /\ m \in Nat /\ Len(bytes) \in Nat
  OBVIOUS
<1>3. ScanAt(bytes, es, at, g[0], 0)
  <2> DEFINE s == g[0]
  <2>1. s.pos = 0 /\ s.records = <<>> /\ s.done = FALSE
    BY <1>1
  <2>2. s \in Scanned
    <3>1. <<>> \in Seq(Records)
      OBVIOUS
    <3> QED
      BY <1>1, <3>1 DEF Scanned
  <2>3. EndOf(es, at, 0) = 0
    BY DEF EndOf
  <2>4. 0 < Len(es) => Steps(0, at[0 + 1])
    <3> SUFFICES ASSUME 0 < Len(es)
                 PROVE  Steps(0, at[1])
      OBVIOUS
    <3>1. 1 \in 1 .. Len(es) /\ 1 - 1 = 0
      BY <1>2
    <3> QED
      BY <2>3, <3>1 DEF LaidOut
  <2>5. Steps(0, 0)
    BY StepsAre
  <2>6. Indexed(Noted(<<>>), es, at, 0)
    <3>1. Noted(<<>>) = NoAttrs
      BY NotedMore
    <3>2. DOMAIN NoAttrs = {} /\ 1 .. 0 = {}
      BY DEF NoAttrs
    <3> QED
      BY <3>1, <3>2 DEF Indexed
  <2> HIDE DEF s
  <2>7. ScanAt(bytes, es, at, s, 0)
    BY <1>2, <2>1, <2>2, <2>3, <2>4, <2>5, <2>6 DEF ScanAt
  <2> QED
    BY <2>7 DEF s
<1> HIDE DEF m
<1>4. 0 \in T
  <2>1. g[0].pos = 0
    BY <1>1
  <2>2. 0 \in 0 .. m /\ 0 \in 0 .. N /\ 0 <= g[0].pos
    BY <1>2, <2>1
  <2>3. Far(0)
    BY <1>3, <2>2
  <2> QED
    BY <2>2, <2>3
<1>5. ASSUME NEW n \in 1 .. N, n - 1 \in T
      PROVE  n \in T
  <2> DEFINE s == g[n - 1]
             t == ScanStep(bytes, s)
  <2>1. n \in 0 .. N /\ n \in Nat
    BY <1>2
  <2>2. PICK k \in 0 .. m : ScanAt(bytes, es, at, s, k) /\ (s.done = FALSE => n - 1 <= s.pos)
    BY <1>5
  <2>3. g[n] = t
    BY <1>1
  <2>4. s.done \in BOOLEAN /\ s.pos \in Nat
    BY <2>2 DEF ScanAt, Scanned
  <2> HIDE DEF s
  <2>5. CASE s.done = TRUE
    <3>1. t = s
      BY <2>5 DEF ScanStep
    <3>2. g[n].done # FALSE
      BY <2>3, <2>5, <3>1
    <3>3. ScanAt(bytes, es, at, g[n], k)
      BY <2>2, <2>3, <3>1
    <3> HIDE DEF t
    <3>4. Far(n)
      BY <3>2, <3>3
    <3> QED
      BY <2>1, <3>4
  <2>6. CASE s.done = FALSE
    <3>1. \E l \in 0 .. m : ScanAt(bytes, es, at, t, l) /\ (t.done = FALSE => s.pos + 1 <= t.pos)
      BY <2>2, <2>6, ScanGoes DEF m
    <3> HIDE DEF t
    <3>2. PICK l \in 0 .. m : ScanAt(bytes, es, at, t, l) /\ (t.done = FALSE => s.pos + 1 <= t.pos)
      BY <3>1
    <3>3. t.pos \in Nat
      BY <3>2 DEF ScanAt, Scanned
    <3>4. t.done = FALSE => n <= t.pos
      <4> SUFFICES ASSUME t.done = FALSE
                   PROVE  n <= t.pos
        OBVIOUS
      <4>1. s.pos + 1 <= t.pos /\ n - 1 <= s.pos
        BY <2>2, <2>6, <3>2
      <4> QED
        BY <2>1, <2>4, <3>3, <4>1
    <3>5. Far(n)
      BY <2>3, <3>2, <3>4
    <3> QED
      BY <2>1, <3>5
  <2> QED
    BY <2>4, <2>5, <2>6
<1>6. \A n \in 0 .. N : n \in T
  <2> HIDE DEF T, N
  <2> QED
    BY <1>2, <1>4, <1>5, LoopKeeps
<1>7. Far(N)
  <2>1. N \in 0 .. N
    BY <1>2
  <2> HIDE DEF N, Far
  <2> QED
    BY <1>6, <2>1
<1>8. PICK k \in 0 .. m : ScanAt(bytes, es, at, g[N], k) /\ (g[N].done = FALSE => N <= g[N].pos)
  BY <1>7
<1>9. g[N].done = TRUE
  <2>1. g[N].pos \in Nat /\ g[N].pos <= Len(bytes) /\ g[N].done \in BOOLEAN
    <3> HIDE DEF N
    <3> QED
      BY <1>8 DEF ScanAt, Scanned
  <2>2. ~(N <= g[N].pos)
    <3> DEFINE z == g[N].pos
    <3>1. z \in Nat /\ z <= Len(bytes)
      BY <2>1
    <3> HIDE DEF z
    <3>2. ~(Len(bytes) + 1 <= z)
      BY <1>2, <3>1
    <3> QED
      BY <3>2 DEF z
  <2> HIDE DEF N
  <2> QED
    BY <1>8, <2>1, <2>2
<1>10. k = m
  <2> HIDE DEF N
  <2> QED
    BY <1>8, <1>9 DEF ScanAt, m
<1> QED
  BY <1>1, <1>8, <1>10 DEF m

\* A file with more zeros at its end.
Roomier(bytes, room) ==
    /\ room \in Seq(Bytes) /\ Len(bytes) <= Len(room)
    /\ \A x \in 1 .. Len(bytes) : room[x] = bytes[x]
    /\ \A x \in Len(bytes) + 1 .. Len(room) : room[x] = 0

\* What a record is written over.
Over(room, record, off) ==
    [i \in DOMAIN room |->
        IF i \in off + 1 .. off + Len(record) THEN record[i - off] ELSE room[i]]

\* The place of one more record.
AtMore(at, m, off) == [i \in 1 .. m + 1 |-> IF i <= m THEN at[i] ELSE off]

\* What is written over.
LEMMA OverIs ==
    ASSUME NEW room \in Seq(Bytes), NEW record \in Seq(Bytes), NEW off \in Nat,
           off + Len(record) <= Len(room)
    PROVE  /\ Over(room, record, off) \in Seq(Bytes) /\ Len(Over(room, record, off)) = Len(room)
           /\ Lies(record, Over(room, record, off), off)
           /\ \A x \in 1 .. Len(room) :
                 x <= off \/ off + Len(record) < x => Over(room, record, off)[x] = room[x]
<1> DEFINE w == Over(room, record, off)
           n == Len(record)
<1>1. n \in Nat /\ Len(room) \in Nat /\ DOMAIN room = 1 .. Len(room)
  OBVIOUS
<1>2. \A i \in off + 1 .. off + n : i - off \in 1 .. n
  BY <1>1
<1>3. \A i \in 1 .. n : record[i] \in Bytes
  OBVIOUS
<1>4. \A i \in 1 .. Len(room) : room[i] \in Bytes
  OBVIOUS
<1>5. w \in [1 .. Len(room) -> Bytes]
  <2> HIDE DEF n
  <2>1. w = [i \in 1 .. Len(room) |->
                IF i \in off + 1 .. off + n THEN record[i - off] ELSE room[i]]
    BY <1>1 DEF Over, n
  <2> HIDE DEF w
  <2> QED
    BY <1>2, <1>3, <1>4, <2>1
<1>6. w \in Seq(Bytes) /\ Len(w) = Len(room)
  <2> HIDE DEF w
  <2> QED
    BY <1>1, <1>5
<1>7. \A x \in 1 .. Len(room) :
          w[x] = IF x \in off + 1 .. off + n THEN record[x - off] ELSE room[x]
  BY <1>1 DEF Over
<1> HIDE DEF w, n
<1>8. ASSUME NEW i \in 1 .. n
      PROVE  w[off + i] = record[i]
  <2>1. off + i \in 1 .. Len(room) /\ off + i \in off + 1 .. off + n /\ (off + i) - off = i
    BY <1>1 DEF n
  <2> QED
    BY <1>7, <2>1
<1>9. Lies(record, w, off)
  BY <1>6, <1>8 DEF Lies, n
<1>10. ASSUME NEW x \in 1 .. Len(room), x <= off \/ off + n < x
       PROVE  w[x] = room[x]
  <2>1. ~(x \in off + 1 .. off + n)
    BY <1>1, <1>10
  <2> QED
    BY <1>7, <2>1
<1> QED
  BY <1>6, <1>9, <1>10 DEF w, n

\* A record that is written behind all others is one more of them.
LEMMA PlacedMore ==
    ASSUME CodecConstants, NEW bytes \in Seq(Bytes), NEW es \in Seq(Entities), NEW at,
           LaidOut(bytes, es, at), NEW e \in Entities, NEW room, Roomier(bytes, room),
           NEW off \in Nat, off <= Len(bytes), Steps(EndOf(es, at, Len(es)), off),
           NEW record, record = Prefixed(EncodeEntity(e)), off + Len(record) <= Len(room)
    PROVE  /\ LaidOut(Over(room, record, off), Append(es, e), AtMore(at, Len(es), off))
           /\ EndOf(Append(es, e), AtMore(at, Len(es), off), Len(es) + 1) = off + Len(record)
<1> DEFINE m == Len(es)
           more == Append(es, e)
           w == AtMore(at, m, off)
           new == Over(room, record, off)
<1>1. /\ m \in Nat /\ Len(more) = m + 1 /\ more[m + 1] = e
      /\ \A i \in 1 .. m : more[i] = es[i] /\ es[i] \in Entities
  OBVIOUS
<1>2. /\ record \in Seq(Bytes) /\ Len(record) = LenWidth + Len(EncodeEntity(e))
      /\ Len(EncodeEntity(e)) \in Nat /\ LenWidth \in Nat /\ Len(record) \in Nat
  <2> DEFINE l == Len(EncodeEntity(e))
  <2>1. /\ record \in Seq(Bytes) /\ Len(record) = LenWidth + l /\ l \in Nat /\ LenWidth \in Nat
    BY WrittenIs
  <2> HIDE DEF l
  <2> QED
    BY <2>1 DEF l
<1>3. w[m + 1] = off /\ \A i \in 1 .. m : w[i] = at[i]
  <2>1. m + 1 \in 1 .. m + 1 /\ ~(m + 1 <= m) /\ \A i \in 1 .. m : i \in 1 .. m + 1 /\ i <= m
    BY <1>1
  <2> HIDE DEF m
  <2> QED
    BY <2>1 DEF AtMore
<1> HIDE DEF more, w
<1>4. /\ \A i \in 0 .. m : EndOf(more, w, i) = EndOf(es, at, i)
      /\ EndOf(more, w, m + 1) = off + Len(record)
  <2>1. ASSUME NEW i \in 0 .. m
        PROVE  EndOf(more, w, i) = EndOf(es, at, i)
    <3>1. CASE i = 0
      BY <3>1 DEF EndOf
    <3>2. CASE i # 0
      <4>1. i \in 1 .. m
        BY <1>1, <3>2
      <4>2. w[i] = at[i] /\ more[i] = es[i]
        BY <1>1, <1>3, <4>1
      <4> QED
        BY <4>2 DEF EndOf
    <3> QED
      BY <3>1, <3>2
  <2>2. EndOf(more, w, m + 1) = off + LenWidth + Len(EncodeEntity(e))
    <3>1. m + 1 # 0
      BY <1>1
    <3> HIDE DEF m
    <3> QED
      BY <1>1, <1>3, <3>1 DEF EndOf
  <2>3. off + LenWidth + Len(EncodeEntity(e)) = off + Len(record)
    <3> DEFINE l == Len(EncodeEntity(e))
    <3>1. l \in Nat /\ LenWidth \in Nat /\ Len(record) = LenWidth + l
      BY <1>2
    <3> HIDE DEF l
    <3>2. off + LenWidth + l = off + (LenWidth + l)
      BY <3>1
    <3> QED
      BY <3>1, <3>2 DEF l
  <2> QED
    BY <2>1, <2>2, <2>3
<1>5. /\ \A i \in 0 .. m : EndOf(es, at, i) \in Nat
      /\ \A i \in 1 .. m : at[i] \in Nat /\ at[i] <= EndOf(es, at, i) /\ EndOf(es, at, i) <= Len(bytes)
      /\ \A i, j \in 1 .. m : i <= j => EndOf(es, at, i) <= EndOf(es, at, j) /\ at[i] <= at[j]
  BY EndsAre
<1>6. \A i \in 0 .. m : EndOf(es, at, i) <= off
  <2>1. m \in 0 .. m /\ EndOf(es, at, m) \in Nat
    BY <1>1, <1>5
  <2>2. EndOf(es, at, m) <= off
    <3> HIDE DEF m
    <3> QED
      BY <2>1, StepsAre DEF m
  <2> SUFFICES ASSUME NEW i \in 0 .. m
               PROVE  EndOf(es, at, i) <= off
    OBVIOUS
  <2>3. EndOf(es, at, i) \in Nat
    BY <1>5
  <2>4. CASE i = 0
    BY <2>4 DEF EndOf
  <2>5. CASE i # 0
    <3>1. i \in 1 .. m /\ m \in 1 .. m /\ i <= m
      BY <1>1, <2>5
    <3>2. EndOf(es, at, i) <= EndOf(es, at, m)
      BY <1>5, <3>1
    <3> QED
      BY <2>1, <2>2, <2>3, <3>2
  <2> QED
    BY <2>4, <2>5
<1>7. /\ room \in Seq(Bytes) /\ Len(bytes) <= Len(room)
      /\ \A x \in 1 .. Len(bytes) : room[x] = bytes[x]
      /\ \A x \in Len(bytes) + 1 .. Len(room) : room[x] = 0
      /\ Len(room) \in Nat /\ Len(bytes) \in Nat
  BY DEF Roomier
<1>8. /\ new \in Seq(Bytes) /\ Len(new) = Len(room) /\ Lies(record, new, off)
      /\ \A x \in 1 .. Len(room) : x <= off \/ off + Len(record) < x => new[x] = room[x]
  BY <1>2, <1>7, OverIs
<1> HIDE DEF new
<1>9. ASSUME NEW i \in 1 .. m
      PROVE  at[i] \in Nat /\ Lies(Prefixed(EncodeEntity(es[i])), new, at[i])
  <2> DEFINE r == Prefixed(EncodeEntity(es[i]))
             p == at[i]
  <2>1. p \in Nat /\ Lies(r, bytes, p)
    BY DEF LaidOut
  <2>2. Len(r) \in Nat /\ p + Len(r) = EndOf(es, at, i)
    <3> DEFINE l == Len(EncodeEntity(es[i]))
    <3>1. Len(r) = LenWidth + l /\ l \in Nat
      <4> DEFINE d == es[i]
      <4>1. d \in Entities
        BY <1>1
      <4> HIDE DEF d
      <4>2. Len(Prefixed(EncodeEntity(d))) = LenWidth + Len(EncodeEntity(d)) /\ Len(EncodeEntity(d)) \in Nat
        BY <4>1, WrittenIs
      <4> QED
        BY <4>2 DEF d
    <3>2. EndOf(es, at, i) = p + LenWidth + l
      <4>1. i # 0
        BY <1>1
      <4> QED
        BY <4>1 DEF EndOf
    <3> HIDE DEF l, p, r
    <3> QED
      BY <1>2, <2>1, <3>1, <3>2
  <2>3. p + Len(r) <= off
    <3>1. i \in 0 .. m
      BY <1>1
    <3> QED
      BY <1>6, <2>2, <3>1
  <2> HIDE DEF r, p
  <2>4. p + Len(r) <= Len(new)
    BY <1>7, <1>8, <2>1, <2>2, <2>3
  <2>5. ASSUME NEW k \in 1 .. Len(r)
        PROVE  new[p + k] = r[k]
    <3>1. p + k \in 1 .. Len(bytes) /\ p + k \in 1 .. Len(room) /\ p + k <= off
      BY <1>7, <2>1, <2>2, <2>3
    <3>2. new[p + k] = room[p + k] /\ room[p + k] = bytes[p + k]
      BY <1>7, <1>8, <3>1
    <3>3. bytes[p + k] = r[k]
      BY <2>1 DEF Lies
    <3> QED
      BY <3>2, <3>3
  <2>6. Lies(r, new, p)
    BY <2>4, <2>5 DEF Lies
  <2> QED
    BY <2>1, <2>6 DEF r, p
<1>10. \A i \in 1 .. m + 1 : i \in 1 .. m \/ i = m + 1
  BY <1>1
<1>11. \A i \in 1 .. Len(more) : w[i] \in Nat /\ Lies(Prefixed(EncodeEntity(more[i])), new, w[i])
  <2> SUFFICES ASSUME NEW i \in 1 .. m + 1
               PROVE  w[i] \in Nat /\ Lies(Prefixed(EncodeEntity(more[i])), new, w[i])
    BY <1>1
  <2>1. CASE i \in 1 .. m
    BY <1>1, <1>3, <1>9, <2>1
  <2>2. CASE i = m + 1
    <3>1. w[i] = off /\ more[i] = e
      BY <1>1, <1>3, <2>2
    <3> QED
      BY <1>8, <3>1
  <2> QED
    BY <1>10, <2>1, <2>2
<1>12. \A i \in 1 .. Len(more) : Steps(EndOf(more, w, i - 1), w[i])
  <2> SUFFICES ASSUME NEW i \in 1 .. m + 1
               PROVE  Steps(EndOf(more, w, i - 1), w[i])
    BY <1>1
  <2>1. i - 1 \in 0 .. m
    BY <1>1
  <2>2. EndOf(more, w, i - 1) = EndOf(es, at, i - 1)
    BY <1>4, <2>1
  <2>3. CASE i \in 1 .. m
    <3>1. Steps(EndOf(es, at, i - 1), at[i])
      BY <2>3 DEF LaidOut
    <3> QED
      BY <1>3, <2>2, <2>3, <3>1
  <2>4. CASE i = m + 1
    <3>1. i - 1 = m
      BY <1>1, <2>4
    <3> QED
      BY <1>3, <2>2, <2>4, <3>1
  <2> QED
    BY <1>10, <2>3, <2>4
<1>13. \A i, j \in 1 .. Len(more) : i < j => EndOf(more, w, i) <= w[j]
  <2> SUFFICES ASSUME NEW i \in 1 .. m + 1, NEW j \in 1 .. m + 1, i < j
               PROVE  EndOf(more, w, i) <= w[j]
    BY <1>1
  <2>1. i \in 1 .. m /\ i \in 0 .. m
    BY <1>1
  <2>2. EndOf(more, w, i) = EndOf(es, at, i)
    BY <1>4, <2>1
  <2>3. CASE j \in 1 .. m
    <3>1. EndOf(es, at, i) <= at[j]
      BY <2>1, <2>3 DEF LaidOut
    <3> QED
      BY <1>3, <2>2, <2>3, <3>1
  <2>4. CASE j = m + 1
    BY <1>3, <1>6, <2>1, <2>2, <2>4
  <2> QED
    BY <1>10, <2>3, <2>4
<1>14. \A x \in 1 .. Len(new) :
           (\A i \in 1 .. Len(more) : x <= w[i] \/ EndOf(more, w, i) < x) => new[x] = 0
  <2> SUFFICES ASSUME NEW x \in 1 .. Len(room),
                      \A i \in 1 .. m + 1 : x <= w[i] \/ EndOf(more, w, i) < x
               PROVE  new[x] = 0
    BY <1>1, <1>8
  <2>1. x <= off \/ off + Len(record) < x
    <3>1. m + 1 \in 1 .. m + 1
      BY <1>1
    <3>2. x <= w[m + 1] \/ EndOf(more, w, m + 1) < x
      BY <3>1
    <3> HIDE DEF m
    <3> QED
      BY <1>3, <1>4, <3>2
  <2>2. new[x] = room[x]
    BY <1>8, <2>1
  <2>3. CASE x \in 1 .. Len(bytes)
    <3>1. \A i \in 1 .. m : x <= at[i] \/ EndOf(es, at, i) < x
      <4> SUFFICES ASSUME NEW i \in 1 .. m
                   PROVE  x <= at[i] \/ EndOf(es, at, i) < x
        OBVIOUS
      <4>1. i \in 1 .. m + 1 /\ i \in 0 .. m
        BY <1>1
      <4>2. x <= w[i] \/ EndOf(more, w, i) < x
        BY <4>1
      <4>3. w[i] = at[i] /\ EndOf(more, w, i) = EndOf(es, at, i)
        BY <1>3, <1>4, <4>1
      <4> HIDE DEF m
      <4> QED
        BY <4>2, <4>3
    <3>2. bytes[x] = 0
      BY <2>3, <3>1 DEF LaidOut
    <3> QED
      BY <1>7, <2>2, <2>3, <3>2
  <2>4. CASE ~(x \in 1 .. Len(bytes))
    <3>1. x \in Len(bytes) + 1 .. Len(room)
      BY <1>7, <2>4
    <3> QED
      BY <1>7, <2>2, <3>1
  <2> QED
    BY <2>3, <2>4
<1> HIDE DEF m
<1>15. LaidOut(new, more, w)
  BY <1>11, <1>12, <1>13, <1>14 DEF LaidOut
<1> QED
  BY <1>4, <1>15 DEF new, more, w, m

\* The last entities that were written of their ids.
Latest(es, st) ==
    /\ st \subseteq Entities
    /\ \A e \in st : \E i \in 1 .. Len(es) :
          es[i] = e /\ \A j \in 1 .. Len(es) : i < j => es[j].id # e.id
    /\ \A i \in 1 .. Len(es) : \E e \in st : e.id = es[i].id

\* One more replaces the one of its id.
LEMMA LatestMore ==
    ASSUME NEW es \in Seq(Entities), NEW st, Latest(es, st), NEW e \in Entities
    PROVE  Latest(Append(es, e), {d \in st : d.id # e.id} \cup {e})
<1> DEFINE m == Len(es)
           more == Append(es, e)
           now == {d \in st : d.id # e.id} \cup {e}
<1>1. m \in Nat /\ Len(more) = m + 1 /\ more[m + 1] = e /\ \A i \in 1 .. m : more[i] = es[i]
  OBVIOUS
<1>2. \A i \in 1 .. m + 1 : i \in 1 .. m \/ i = m + 1
  BY <1>1
<1>3. \A i \in 1 .. m : i \in 1 .. m + 1
  BY <1>1
<1> HIDE DEF more
<1>4. now \subseteq Entities
  BY DEF Latest
<1>5. ASSUME NEW d \in now
      PROVE  \E i \in 1 .. Len(more) :
                more[i] = d /\ \A j \in 1 .. Len(more) : i < j => more[j].id # d.id
  <2>1. CASE d = e
    <3>1. m + 1 \in 1 .. m + 1 /\ \A j \in 1 .. m + 1 : ~(m + 1 < j)
      BY <1>1
    <3> HIDE DEF m
    <3> QED
      BY <1>1, <2>1, <3>1
  <2>2. CASE d # e
    <3>1. d \in st /\ d.id # e.id
      BY <2>2
    <3>2. PICK i \in 1 .. m : es[i] = d /\ \A j \in 1 .. m : i < j => es[j].id # d.id
      BY <3>1 DEF Latest
    <3> HIDE DEF m
    <3>3. i \in 1 .. m + 1 /\ more[i] = d
      BY <1>1, <1>3, <3>2
    <3>4. \A j \in 1 .. m + 1 : i < j => more[j].id # d.id
      BY <1>1, <1>2, <3>1, <3>2
    <3> QED
      BY <1>1, <3>3, <3>4
  <2> QED
    BY <2>1, <2>2
<1>6. ASSUME NEW i \in 1 .. Len(more)
      PROVE  \E d \in now : d.id = more[i].id
  <2>1. i \in 1 .. m + 1
    BY <1>1
  <2>2. CASE more[i].id = e.id
    BY <2>2
  <2>3. CASE more[i].id # e.id
    <3>1. i \in 1 .. m
      <4> HIDE DEF m
      <4> QED
        BY <1>1, <1>2, <2>1, <2>3
    <3>2. PICK d \in st : d.id = es[i].id
      BY <3>1 DEF Latest
    <3>3. d.id = more[i].id /\ d \in now
      BY <1>1, <2>3, <3>1, <3>2
    <3> HIDE DEF now
    <3> QED
      BY <3>3
  <2> QED
    BY <2>2, <2>3
<1> HIDE DEF now
<1> QED
  BY <1>4, <1>5, <1>6 DEF Latest, more, now

\* The records of entities, the offset behind them, and what is stored.
FileIs(bytes, off, st, es, at) ==
    /\ LaidOut(bytes, es, at) /\ Latest(es, st)
    /\ Steps(EndOf(es, at, Len(es)), off) /\ off \in Nat /\ off <= Len(bytes)

\* The file is such records and zeros, unless a gap was uneven.
FileInv ==
    aligned => /\ file \in Seq(Bytes)
               /\ \E es \in Seq(Entities) : \E at : FileIs(file, offset, stored, es, at)

\* At start.
LEMMA FileInitially == ASSUME CodecConstants, FilesInit PROVE FileInv
<1>1. file = <<>> /\ offset = 0 /\ stored = {}
  BY DEF FilesInit
<1>2. /\ <<>> \in Seq(Entities) /\ <<>> \in Seq(Bytes) /\ Len(<<>>) = 0
      /\ \A i \in 1 .. 0 : FALSE
  OBVIOUS
<1> DEFINE es == <<>>
           at == <<>>
<1>3. LaidOut(file, es, at)
  BY <1>1, <1>2 DEF LaidOut
<1>4. Latest(es, stored)
  BY <1>1, <1>2 DEF Latest
<1>5. Steps(EndOf(es, at, Len(es)), offset)
  <2>1. EndOf(es, at, Len(es)) = 0
    BY <1>2 DEF EndOf
  <2>2. Steps(0, 0)
    BY StepsAre
  <2> QED
    BY <1>1, <2>1, <2>2
<1>6. FileIs(file, offset, stored, es, at)
  <2>1. offset \in Nat /\ offset <= Len(file)
    BY <1>1, <1>2
  <2> QED
    BY <1>3, <1>4, <1>5, <2>1 DEF FileIs
<1>7. file \in Seq(Bytes) /\ es \in Seq(Entities)
  BY <1>1, <1>2
<1> HIDE DEF es, at
<1> QED
  BY <1>6, <1>7 DEF FileInv

\* There is room for what is written.
LEMMA GrownIs ==
    ASSUME CodecConstants, file \in Seq(Bytes), offset \in Nat, offset <= Len(file), NEW n \in Nat
    PROVE  Roomier(file, Grown(n)) /\ offset + n <= Len(Grown(n))
<1> DEFINE more == IF n > Chunk THEN n ELSE Chunk
           zeros == [i \in 1 .. more |-> 0]
           z == file \o zeros
<1>1. more \in Nat /\ n <= more /\ 0 \in Bytes /\ Len(file) \in Nat
  BY DEF CodecConstants, Bytes
<1>2. Grown(n) = IF offset + n > Len(file) \/ ~mapped THEN z ELSE file
  BY DEF Grown
<1> HIDE DEF more
<1>3. zeros \in Seq(Bytes) /\ Len(zeros) = more /\ \A i \in 1 .. more : zeros[i] = 0
  <2>1. zeros \in [1 .. more -> Bytes] /\ \A i \in 1 .. more : zeros[i] = 0
    BY <1>1
  <2> HIDE DEF zeros
  <2> QED
    BY <1>1, <2>1
<1> HIDE DEF zeros
<1>4. /\ z \in Seq(Bytes) /\ Len(z) = Len(file) + more
      /\ \A i \in 1 .. Len(file) + more : z[i] = IF i <= Len(file) THEN file[i] ELSE zeros[i - Len(file)]
  BY <1>3, ConcatProperties
<1> HIDE DEF z
<1>5. CASE offset + n > Len(file) \/ ~mapped
  <2>1. Grown(n) = z
    BY <1>2, <1>5
  <2>2. offset + n <= Len(z) /\ Len(file) <= Len(z)
    BY <1>1, <1>4
  <2>3. \A x \in 1 .. Len(file) : z[x] = file[x]
    <3>1. \A x \in 1 .. Len(file) : x \in 1 .. Len(file) + more /\ x <= Len(file)
      BY <1>1
    <3> QED
      BY <1>4, <3>1
  <2>4. \A x \in Len(file) + 1 .. Len(z) : z[x] = 0
    <3> SUFFICES ASSUME NEW x \in Len(file) + 1 .. Len(z)
                 PROVE  z[x] = 0
      OBVIOUS
    <3>1. x \in 1 .. Len(file) + more /\ ~(x <= Len(file)) /\ x - Len(file) \in 1 .. more
      BY <1>1, <1>4
    <3> QED
      BY <1>3, <1>4, <3>1
  <2> QED
    BY <1>4, <2>1, <2>2, <2>3, <2>4 DEF Roomier
<1>6. CASE ~(offset + n > Len(file) \/ ~mapped)
  <2>1. Grown(n) = file
    BY <1>2, <1>6
  <2>2. offset + n <= Len(file)
    BY <1>1, <1>6
  <2>3. Len(file) <= Len(file) /\ \A x \in Len(file) + 1 .. Len(file) : FALSE
    BY <1>1
  <2> QED
    BY <2>1, <2>2, <2>3 DEF Roomier
<1> QED
  BY <1>5, <1>6

\* A record that is written is one more, a gap behind it or none.
LEMMA FileWritten ==
    ASSUME CodecConstants, FileInv, NEW e \in Entities, NEW gap \in Gaps, WriteRecord(e, gap)
    PROVE  FileInv'
<1> SUFFICES ASSUME aligned'
             PROVE  /\ file' \in Seq(Bytes)
                    /\ \E es \in Seq(Entities) : \E at : FileIs(file', offset', stored', es, at)
  BY DEF FileInv
<1> DEFINE record == Prefixed(EncodeEntity(e))
           room == Grown(Len(record) + gap)
<1>1. /\ file' = Over(room, record, offset)
      /\ offset' = offset + Len(record) + gap
      /\ stored' = {d \in stored : d.id # e.id} \cup {e}
  BY DEF WriteRecord, Over
<1>2. aligned /\ gap % LenWidth = 0
  <2>1. aligned' = (aligned /\ gap % LenWidth = 0)
    BY DEF WriteRecord
  <2> QED
    BY <2>1
<1>3. file \in Seq(Bytes) /\ \E es \in Seq(Entities) : \E at : FileIs(file, offset, stored, es, at)
  BY <1>2 DEF FileInv
<1>es. PICK es \in Seq(Entities) : \E at : FileIs(file, offset, stored, es, at)
  BY <1>3
<1>4. PICK at : FileIs(file, offset, stored, es, at)
  BY <1>es
<1>5. /\ LaidOut(file, es, at) /\ Latest(es, stored)
      /\ Steps(EndOf(es, at, Len(es)), offset) /\ offset \in Nat /\ offset <= Len(file)
  BY <1>4 DEF FileIs
<1>6. record \in Seq(Bytes) /\ Len(record) \in Nat
  <2>1. record \in Seq(Bytes)
    BY WrittenIs
  <2> HIDE DEF record
  <2> QED
    BY <2>1
<1>7. gap \in Nat /\ LenWidth \in Nat
  BY DEF CodecConstants
<1>8. record = Prefixed(EncodeEntity(e))
  OBVIOUS
<1>9. Roomier(file, room) /\ offset + (Len(record) + gap) <= Len(room)
  <2> DEFINE n == Len(record) + gap
  <2>1. n \in Nat
    <3> HIDE DEF record
    <3> QED
      BY <1>6, <1>7
  <2> HIDE DEF n
  <2>2. Roomier(file, Grown(n)) /\ offset + n <= Len(Grown(n))
    BY <1>3, <1>5, <2>1, GrownIs
  <2> QED
    BY <2>2 DEF n
<1> HIDE DEF room, record
<1>10. room \in Seq(Bytes) /\ Len(room) \in Nat
  <2>1. room \in Seq(Bytes)
    BY <1>9 DEF Roomier
  <2> QED
    BY <2>1
<1>11. offset + Len(record) <= Len(room) /\ offset + Len(record) \in Nat
  BY <1>5, <1>6, <1>7, <1>9, <1>10
<1>12. file' \in Seq(Bytes) /\ Len(file') = Len(room)
  BY <1>1, <1>5, <1>6, <1>10, <1>11, OverIs
<1> DEFINE more == Append(es, e)
           w == AtMore(at, Len(es), offset)
<1>13. /\ LaidOut(Over(room, record, offset), more, w)
       /\ EndOf(more, w, Len(es) + 1) = offset + Len(record)
  BY <1>3, <1>5, <1>8, <1>9, <1>11, PlacedMore
<1>14. more \in Seq(Entities) /\ Len(more) = Len(es) + 1
  OBVIOUS
<1>15. Latest(more, {d \in stored : d.id # e.id} \cup {e})
  BY <1>5, LatestMore
<1> HIDE DEF more, w
<1>16. Steps(offset + Len(record), offset')
  <2>1. offset' = (offset + Len(record)) + gap
    BY <1>1
  <2> DEFINE p == offset + Len(record)
  <2>2. p \in Nat
    BY <1>11
  <2> HIDE DEF p
  <2>3. Steps(p, p + gap)
    BY <1>2, <1>7, <2>2, StepsAre
  <2> QED
    BY <2>1, <2>3 DEF p
<1>17. offset' \in Nat /\ offset' <= Len(file')
  <2> DEFINE l == Len(record)
  <2>1. l \in Nat /\ offset' = offset + l + gap /\ offset + (l + gap) <= Len(room)
    BY <1>1, <1>6, <1>9
  <2> HIDE DEF l
  <2>2. offset + l + gap \in Nat /\ offset + l + gap <= Len(room)
    BY <1>5, <1>7, <1>10, <2>1
  <2> QED
    BY <1>12, <2>1, <2>2
<1>18. FileIs(file', offset', stored', more, w)
  BY <1>1, <1>13, <1>14, <1>15, <1>16, <1>17 DEF FileIs
<1> QED
  BY <1>12, <1>14, <1>18

\* A scan at a restart ends whole lengths behind the last record.
LEMMA FileReopened == ASSUME CodecConstants, FileInv, Reopen PROVE FileInv'
<1> SUFFICES ASSUME aligned'
             PROVE  /\ file' \in Seq(Bytes)
                    /\ \E es \in Seq(Entities) : \E at : FileIs(file', offset', stored', es, at)
  BY DEF FileInv
<1>1. offset' = Scan(file).pos /\ file' = file /\ stored' = stored /\ aligned
  BY DEF Reopen
<1>2. file \in Seq(Bytes) /\ \E es \in Seq(Entities) : \E at : FileIs(file, offset, stored, es, at)
  BY <1>1 DEF FileInv
<1>es. PICK es \in Seq(Entities) : \E at : FileIs(file, offset, stored, es, at)
  BY <1>2
<1>3. PICK at : FileIs(file, offset, stored, es, at)
  BY <1>es
<1>4. LaidOut(file, es, at) /\ Latest(es, stored)
  BY <1>3 DEF FileIs
<1>5. ScanAt(file, es, at, Scan(file), Len(es))
  BY <1>2, <1>4, FileScanned
<1>6. Steps(EndOf(es, at, Len(es)), Scan(file).pos) /\ Scan(file).pos \in Nat /\ Scan(file).pos <= Len(file)
  BY <1>5 DEF ScanAt, Scanned
<1>7. FileIs(file', offset', stored', es, at)
  BY <1>1, <1>4, <1>6 DEF FileIs
<1> QED
  BY <1>1, <1>2, <1>7

\* The scan of such a file finds every entity.
LEMMA FileRebuilds == ASSUME CodecConstants, FileInv PROVE RebuildFinds
<1> SUFFICES ASSUME aligned
             PROVE  /\ DOMAIN Rebuilt = {e.id : e \in stored}
                    /\ \A e \in stored :
                          /\ ReadAt(Rebuilt[e.id]).res = "some"
                          /\ ReadAt(Rebuilt[e.id]).val = e
                          /\ Rebuilt[e.id].at + LenWidth + Rebuilt[e.id].len <= Scan(file).pos
  BY DEF RebuildFinds
<1>1. file \in Seq(Bytes) /\ \E es \in Seq(Entities) : \E at : FileIs(file, offset, stored, es, at)
  BY DEF FileInv
<1>es. PICK es \in Seq(Entities) : \E at : FileIs(file, offset, stored, es, at)
  BY <1>1
<1>2. PICK at : FileIs(file, offset, stored, es, at)
  BY <1>es
<1> DEFINE m == Len(es)
<1>3. LaidOut(file, es, at) /\ Latest(es, stored) /\ m \in Nat
  BY <1>2 DEF FileIs
<1>4. ScanAt(file, es, at, Scan(file), Len(es))
  BY <1>1, <1>3, FileScanned
<1>5. Indexed(Rebuilt, es, at, m) /\ EndOf(es, at, m) <= Scan(file).pos /\ Scan(file).pos \in Nat
  BY <1>4 DEF ScanAt, Scanned, Rebuilt
<1>6. /\ \A i \in 0 .. m : EndOf(es, at, i) \in Nat
      /\ \A i \in 1 .. m : at[i] \in Nat /\ at[i] <= EndOf(es, at, i) /\ EndOf(es, at, i) <= Len(file)
      /\ \A i, j \in 1 .. m : i <= j => EndOf(es, at, i) <= EndOf(es, at, j) /\ at[i] <= at[j]
  BY <1>1, <1>3, EndsAre
<1>7. DOMAIN Rebuilt = {e.id : e \in stored}
  <2>1. DOMAIN Rebuilt = {es[i].id : i \in 1 .. m}
    BY <1>5 DEF Indexed
  <2>2. ASSUME NEW i \in 1 .. m
        PROVE  es[i].id \in {e.id : e \in stored}
    <3>1. PICK e \in stored : e.id = es[i].id
      BY <1>3 DEF Latest
    <3> QED
      BY <3>1
  <2>3. ASSUME NEW e \in stored
        PROVE  e.id \in {es[i].id : i \in 1 .. m}
    <3>1. PICK i \in 1 .. m : es[i] = e
      BY <1>3 DEF Latest
    <3> QED
      BY <3>1
  <2> HIDE DEF m
  <2> QED
    BY <2>1, <2>2, <2>3
<1>8. ASSUME NEW e \in stored
      PROVE  /\ ReadAt(Rebuilt[e.id]).res = "some"
             /\ ReadAt(Rebuilt[e.id]).val = e
             /\ Rebuilt[e.id].at + LenWidth + Rebuilt[e.id].len <= Scan(file).pos
  <2>1. PICK i \in 1 .. m : es[i] = e /\ \A j \in 1 .. m : i < j => es[j].id # e.id
    BY <1>3 DEF Latest
  <2>2. e \in Entities
    BY <1>3 DEF Latest
  <2> DEFINE b == EncodeEntity(e)
             p == at[i]
             d == Digits(Len(b), LenWidth)
             entry == [at |-> p, len |-> Len(b)]
  <2>3. /\ IsEntity(e) /\ b \in Seq(Bytes) /\ Len(b) \in Nat /\ LenWidth \in Nat
    BY <2>2, WrittenIs
  <2>4. Rebuilt[e.id] = entry
    <3>1. \A j \in i + 1 .. m : es[j].id # es[i].id
      <4>1. \A j \in i + 1 .. m : j \in 1 .. m /\ i < j
        OBVIOUS
      <4> HIDE DEF m
      <4> QED
        BY <2>1, <4>1
    <3>2. Rebuilt[es[i].id] = [at |-> at[i], len |-> Len(EncodeEntity(es[i]))]
      BY <1>5, <3>1 DEF Indexed
    <3> QED
      BY <2>1, <3>2
  <2>5. p \in Nat /\ Lies(Prefixed(b), file, p)
    BY <1>3, <2>1 DEF LaidOut
  <2>6. EndOf(es, at, i) = p + LenWidth + Len(b)
    <3>1. i # 0
      BY <1>3
    <3> QED
      BY <2>1, <3>1 DEF EndOf
  <2>7. EndOf(es, at, i) <= Scan(file).pos
    <3>1. m \in 1 .. m /\ i <= m /\ m \in 0 .. m /\ i \in 0 .. m
      <4> HIDE DEF m
      <4> QED
        BY <1>3
    <3>2. EndOf(es, at, i) <= EndOf(es, at, m) /\ EndOf(es, at, m) \in Nat /\ EndOf(es, at, i) \in Nat
      <4> HIDE DEF m
      <4> QED
        BY <1>6, <3>1
    <3> HIDE DEF m
    <3> QED
      BY <1>5, <3>2
  <2>8. Prefixed(b) = d \o b
    BY DEF Prefixed, U32
  <2> HIDE DEF b, p
  <2>9. d \in Seq(Bytes) /\ Len(d) = LenWidth
    BY <2>3, DigitsAre
  <2> HIDE DEF d
  <2>10. Lies(b, file, p + LenWidth)
    <3>1. Lies(d, file, p) /\ Lies(b, file, p + Len(d))
      BY <1>1, <2>3, <2>5, <2>8, <2>9, LiesConcat
    <3> QED
      BY <2>9, <3>1
  <2>11. SubSeq(file, p + LenWidth + 1, p + LenWidth + Len(b)) = b
    <3> DEFINE q == p + LenWidth
    <3>1. q \in Nat /\ Lies(b, file, q)
      BY <2>3, <2>5, <2>10
    <3> HIDE DEF q
    <3>2. SubSeq(file, q + 1, q + Len(b)) = b
      BY <1>1, <2>3, <3>1, LiesCut
    <3> QED
      BY <3>2 DEF q
  <2>12. DecodeEntity(b, 0) = Some(e, 0 + Len(b))
    <3>1. Lies(b, b, 0)
      BY <2>3, LiesWhole
    <3> QED
      BY <2>3, <3>1, EntityIs DEF b
  <2>13. entry.at = p /\ entry.len = Len(b)
    OBVIOUS
  <2> HIDE DEF entry
  <2>14. ReadAt(entry) = DecodeEntity(b, 0)
    BY <2>11, <2>13 DEF ReadAt
  <2>15. ReadAt(entry).res = "some" /\ ReadAt(entry).val = e
    BY <2>12, <2>14, SomeIs
  <2>16. entry.at + LenWidth + entry.len <= Scan(file).pos
    BY <2>6, <2>7, <2>13
  <2> QED
    BY <2>4, <2>15, <2>16
<1> QED
  BY <1>7, <1>8

\* Every step keeps the file so.
LEMMA FileKept == ASSUME CodecConstants, FileInv, [FilesNext]_filesVars PROVE FileInv'
<1>1. ASSUME UNCHANGED fileVars
      PROVE  FileInv'
  BY <1>1 DEF fileVars, FileInv
<1>2. ASSUME NEW c \in Commands, AppendRecord(c)
      PROVE  UNCHANGED fileVars
  BY <1>2 DEF AppendRecord
<1>3. ASSUME NEW n \in 0 .. Len(log), Tear(n)
      PROVE  UNCHANGED fileVars
  BY <1>3 DEF Tear
<1>4. UNCHANGED filesVars => UNCHANGED fileVars
  BY DEF filesVars
<1> QED
  BY <1>1, <1>2, <1>3, <1>4, FileWritten, FileReopened DEF FilesNext

\* The scan at start finds the last record of every entity across the zeros
\* that growth and gaps leave, decodes it to what was written, and goes on
\* behind all of them.
THEOREM RebuildFindsAll == ASSUME CodecConstants PROVE FilesSpec => []RebuildFinds
<1>1. FilesInit => FileInv
  BY FileInitially
<1>2. FileInv /\ [FilesNext]_filesVars => FileInv'
  BY FileKept
<1>3. FileInv => RebuildFinds
  BY FileRebuilds
<1> QED
  BY <1>1, <1>2, <1>3, PTL DEF FilesSpec
-----------------------------------------------------------------------------
(* Types *)

\* A step of a scan stays within the file.
LEMMA StepWithin ==
    ASSUME CodecConstants, NEW bytes \in Seq(Bytes), NEW s \in Scanned, s.pos <= Len(bytes)
    PROVE  ScanStep(bytes, s).pos <= Len(bytes)
<1> DEFINE p == s.pos
           r == s.records
           digits == SubSeq(bytes, p + 1, p + LenWidth)
           n == Number(digits)
<1>1. p \in Nat /\ r \in Seq(Records) /\ LenWidth \in Nat /\ Len(bytes) \in Nat /\ p <= Len(bytes)
  BY DEF Scanned, CodecConstants
<1>2. CASE s.done
  BY <1>2 DEF ScanStep
<1>3. CASE ~s.done
  <2>1. s = At(p, r)
    BY <1>3 DEF Scanned, At
  <2>2. CASE p + LenWidth > Len(bytes)
    <3>1. ScanStep(bytes, At(p, r)) = [pos |-> p, records |-> r, done |-> TRUE]
      <4> HIDE DEF p, r
      <4> QED
        BY <1>1, <2>2, StepShort
    <3> HIDE DEF p, r
    <3> QED
      BY <1>1, <2>1, <3>1
  <2>3. CASE p + LenWidth <= Len(bytes)
    <3>1. digits \in Seq(Bytes)
      <4> HIDE DEF p
      <4> QED
        BY <1>1, <2>3
    <3>2. n \in Nat
      <4> HIDE DEF digits
      <4> QED
        BY <3>1, NumberIs
    <3>3. n = Number(SubSeq(bytes, p + 1, p + LenWidth))
      OBVIOUS
    <3> HIDE DEF p, r, n, digits
    <3>4. CASE p + LenWidth + n <= Len(bytes)
      <4> DEFINE b == SubSeq(bytes, p + LenWidth + 1, p + LenWidth + n)
      <4>1. ScanStep(bytes, At(p, r)) = At(p + LenWidth + n, Append(r, [at |-> p, body |-> b]))
        BY <1>1, <2>3, <3>2, <3>3, <3>4, StepWhole
      <4> HIDE DEF b
      <4>2. ScanStep(bytes, At(p, r)).pos = p + LenWidth + n
        BY <4>1 DEF At
      <4> QED
        BY <2>1, <3>4, <4>2
    <3>5. CASE p + LenWidth + n > Len(bytes)
      <4>1. ScanStep(bytes, At(p, r)).pos = p + LenWidth
        BY <1>1, <2>3, <3>2, <3>3, <3>5, StepCut
      <4> QED
        BY <2>1, <2>3, <4>1
    <3> QED
      BY <1>1, <3>2, <3>4, <3>5
  <2> HIDE DEF p
  <2> QED
    BY <1>1, <2>2, <2>3
<1> QED
  BY <1>2, <1>3

\* And so does the scan, whatever the file holds.
LEMMA ScanWithin ==
    ASSUME CodecConstants, NEW bytes \in Seq(Bytes)
    PROVE  Scan(bytes).pos \in 0 .. Len(bytes)
<1>1. PICK g : /\ g[0] = [pos |-> 0, records |-> <<>>, done |-> FALSE]
               /\ \A n \in 1 .. Len(bytes) + 1 : g[n] = ScanStep(bytes, g[n - 1])
               /\ Scan(bytes) = g[Len(bytes) + 1]
  BY ScanLoop
<1> DEFINE N == Len(bytes) + 1
           T == {n \in 0 .. N : g[n] \in Scanned /\ g[n].pos <= Len(bytes)}
<1>2. N \in Nat /\ Len(bytes) \in Nat
  OBVIOUS
<1>3. 0 \in T
  <2>1. <<>> \in Seq(Records)
    OBVIOUS
  <2>2. [pos |-> 0, records |-> <<>>, done |-> FALSE] \in Scanned
    BY <2>1 DEF Scanned
  <2>3. 0 \in 0 .. N /\ g[0].pos = 0
    BY <1>1, <1>2
  <2> QED
    BY <1>1, <1>2, <2>2, <2>3
<1>4. ASSUME NEW n \in 1 .. N, n - 1 \in T
      PROVE  n \in T
  <2>1. g[n - 1] \in Scanned /\ g[n - 1].pos <= Len(bytes) /\ n \in 0 .. N
    BY <1>2, <1>4
  <2>2. g[n] = ScanStep(bytes, g[n - 1])
    BY <1>1
  <2>3. g[n] \in Scanned /\ g[n].pos <= Len(bytes)
    BY <2>1, <2>2, StepIs, StepWithin
  <2> QED
    BY <2>1, <2>3
<1>5. \A n \in 0 .. N : n \in T
  <2> HIDE DEF T, N
  <2> QED
    BY <1>2, <1>3, <1>4, LoopKeeps
<1>6. g[N] \in Scanned /\ g[N].pos <= Len(bytes)
  <2>1. N \in 0 .. N
    BY <1>2
  <2> HIDE DEF N
  <2> QED
    BY <1>5, <2>1
<1>7. Scan(bytes) = g[N]
  BY <1>1
<1> QED
  BY <1>2, <1>6, <1>7 DEF Scanned

\* The types and what the log needs for them.
TypesInv == LogInv /\ FilesTypeOK

\* A write keeps the offset within the file, grown or not.
LEMMA WriteTyped ==
    ASSUME CodecConstants, FilesTypeOK, NEW e \in Entities, NEW gap \in Gaps, WriteRecord(e, gap)
    PROVE  file' \in Seq(Bytes) /\ offset' \in 0 .. Len(file')
<1> DEFINE record == Prefixed(EncodeEntity(e))
           room == Grown(Len(record) + gap)
<1>1. /\ file' = Over(room, record, offset)
      /\ offset' = offset + Len(record) + gap
  BY DEF WriteRecord, Over
<1>2. file \in Seq(Bytes) /\ offset \in Nat /\ offset <= Len(file)
  <2>1. file \in Seq(Bytes) /\ offset \in 0 .. Len(file) /\ Len(file) \in Nat
    BY DEF FilesTypeOK
  <2> QED
    BY <2>1
<1>3. record \in Seq(Bytes) /\ gap \in Nat
  BY WrittenIs DEF CodecConstants
<1> HIDE DEF record
<1>4. Len(record) \in Nat
  BY <1>3
<1> DEFINE n == Len(record) + gap
<1>5. n \in Nat
  BY <1>3, <1>4
<1> HIDE DEF n
<1>6. Roomier(file, Grown(n)) /\ offset + n <= Len(Grown(n))
  BY <1>2, <1>5, GrownIs
<1>7. room = Grown(n)
  BY DEF n
<1> HIDE DEF room
<1>8. room \in Seq(Bytes) /\ offset + n <= Len(room)
  BY <1>6, <1>7 DEF Roomier
<1>9. Len(room) \in Nat /\ offset + Len(record) <= Len(room) /\ offset + Len(record) + gap \in 0 .. Len(room)
  <2>1. Len(room) \in Nat
    BY <1>8
  <2> QED
    BY <1>2, <1>3, <1>4, <1>8, <2>1 DEF n
<1>10. Over(room, record, offset) \in Seq(Bytes) /\ Len(Over(room, record, offset)) = Len(room)
  BY <1>2, <1>3, <1>8, <1>9, OverIs
<1> QED
  BY <1>1, <1>9, <1>10

\* Every step keeps the types.
LEMMA TypesKept == ASSUME CodecConstants, TypesInv, [FilesNext]_filesVars PROVE TypesInv'
<1> USE DEF TypesInv
<1>1. LogInv'
  BY LogKept
<1>2. log' \in Seq(Bytes) /\ logged' \in Seq(Commands) /\ torn' \in {"no", "end", "within"}
  BY <1>1 DEF LogInv
<1>3. ASSUME UNCHANGED fileVars
      PROVE  TypesInv'
  BY <1>1, <1>2, <1>3 DEF FilesTypeOK, fileVars
<1>4. ASSUME NEW e \in Entities, NEW gap \in Gaps, WriteRecord(e, gap)
      PROVE  TypesInv'
  <2>1. file' \in Seq(Bytes) /\ offset' \in 0 .. Len(file')
    BY <1>4, WriteTyped
  <2>2. /\ mapped' = TRUE /\ stored' = {d \in stored : d.id # e.id} \cup {e}
        /\ aligned' = (aligned /\ gap % LenWidth = 0)
        /\ writes' = writes + 1 /\ writes < MaxRecords
    BY <1>4 DEF WriteRecord
  <2>3. stored' \subseteq Entities
    BY <2>2 DEF FilesTypeOK
  <2>4. aligned' \in BOOLEAN /\ mapped' \in BOOLEAN
    BY <2>2
  <2> QED
    BY <1>1, <1>2, <2>1, <2>2, <2>3, <2>4 DEF FilesTypeOK, CodecConstants
<1>5. ASSUME Reopen
      PROVE  TypesInv'
  <2>1. /\ offset' = Scan(file).pos /\ mapped' = FALSE
        /\ file' = file /\ stored' = stored /\ aligned' = aligned /\ writes' = writes
    BY <1>5 DEF Reopen
  <2>2. Scan(file).pos \in 0 .. Len(file)
    BY ScanWithin DEF FilesTypeOK
  <2> QED
    BY <1>1, <1>2, <2>1, <2>2 DEF FilesTypeOK
<1>6. ASSUME NEW c \in Commands, AppendRecord(c)
      PROVE  UNCHANGED fileVars
  BY <1>6 DEF AppendRecord
<1>7. ASSUME NEW n \in 0 .. Len(log), Tear(n)
      PROVE  UNCHANGED fileVars
  BY <1>7 DEF Tear
<1>8. UNCHANGED filesVars => UNCHANGED fileVars
  BY DEF filesVars
<1> QED
  BY <1>3, <1>4, <1>5, <1>6, <1>7, <1>8 DEF FilesNext

\* The offset of entities.bin is within the file wherever a restart scans it
\* to, whatever gaps were left, and both files are bytes.
THEOREM FilesTyped == ASSUME CodecConstants PROVE FilesSpec => []FilesTypeOK
<1>1. FilesInit => TypesInv
  <2>1. <<>> \in Seq(Bytes) /\ <<>> \in Seq(Commands) /\ Len(<<>>) = 0 /\ 0 \in 0 .. 0
    OBVIOUS
  <2>2. MaxRecords \in Nat /\ 0 \in 0 .. MaxRecords
    BY DEF CodecConstants
  <2>3. FilesInit => FilesTypeOK
    BY <2>1, <2>2 DEF FilesInit, FilesTypeOK
  <2> QED
    BY <2>3, LogInitially DEF TypesInv
<1>2. TypesInv /\ [FilesNext]_filesVars => TypesInv'
  BY TypesKept
<1>3. TypesInv => FilesTypeOK
  BY DEF TypesInv
<1> QED
  BY <1>1, <1>2, <1>3, PTL DEF FilesSpec
=============================================================================
