------------------------------ MODULE Recursion ------------------------------
(***************************************************************************)
(* Induction over the numbers, and that the recursive functions the models *)
(* are written with exist: a loop of the code becomes a function from the  *)
(* number of its passes to what they have made.                            *)
(***************************************************************************)
EXTENDS Integers, WellFoundedInduction, TLAPS

\* What holds of 0 and, with n, of n + 1 holds of every number.
LEMMA Induction ==
    ASSUME NEW T, 0 \in T, \A n \in Nat : n \in T => n + 1 \in T
    PROVE  \A n \in Nat : n \in T
<1> SUFFICES ASSUME NEW x \in Nat, x \notin T PROVE FALSE
  OBVIOUS
<1> DEFINE U == {n \in Nat : n \notin T}
<1>1. PICK m \in U : \A y \in U : ~ (<<y, m>> \in OpToRel(<, Nat))
  <2>1. U \subseteq Nat /\ U # {}
    OBVIOUS
  <2> HIDE DEF U
  <2> QED
    BY <2>1, NatLessThanWellFounded, WFMin
<1>2. m \in Nat /\ m # 0
  OBVIOUS
<1>3. m - 1 \in Nat /\ m - 1 < m
  BY <1>2
<1>4. <<m - 1, m>> \in OpToRel(<, Nat)
  BY <1>2, <1>3 DEF OpToRel
<1>5. m - 1 \in T
  BY <1>1, <1>3, <1>4
<1>6. m - 1 + 1 \in T
  BY <1>3, <1>5
<1> QED
  BY <1>2, <1>6

Recursion(f, S, c, step) ==
    f \in [Nat -> S] /\ f[0] = c /\ \A n \in Nat : f[n + 1] = step[<<n, f[n]>>]

\* A function of what it is before, as the definition of a recursive function
\* asks for one.
LEMMA RecursionExists ==
    ASSUME NEW S, NEW c \in S, NEW step \in [Nat \X S -> S]
    PROVE  \E f : Recursion(f, S, c, step)
<1> DEFINE Starts(f, N) == /\ f \in [0 .. N -> S]
                           /\ f[0] = c
                           /\ \A n \in 0 .. N - 1 : f[n + 1] = step[<<n, f[n]>>]
           T == {N \in Nat : \E f \in [0 .. N -> S] : Starts(f, N)}
           best == [N \in Nat |-> CHOOSE f \in [0 .. N -> S] : Starts(f, N)]
           g == [N \in Nat |-> best[N][N]]
<1>1. \A N \in Nat : N \in T
  <2>1. 0 \in T
    <3> DEFINE f == [i \in 0 .. 0 |-> c]
    <3>1. f \in [0 .. 0 -> S] /\ f[0] = c /\ 0 .. 0 - 1 = {}
      OBVIOUS
    <3>2. Starts(f, 0)
      BY <3>1
    <3> QED
      BY <3>1, <3>2
  <2>2. ASSUME NEW N \in Nat, N \in T
        PROVE  N + 1 \in T
    <3>1. PICK f \in [0 .. N -> S] : Starts(f, N)
      BY <2>2
    <3> DEFINE e == [i \in 0 .. N + 1 |-> IF i = N + 1 THEN step[<<N, f[N]>>] ELSE f[i]]
    <3>2. step[<<N, f[N]>>] \in S
      OBVIOUS
    <3>3. e \in [0 .. N + 1 -> S]
      <4>1. \A i \in 0 .. N + 1 : i # N + 1 => i \in 0 .. N
        OBVIOUS
      <4> QED
        BY <3>2, <4>1
    <3>4. e[0] = c
      BY <3>1
    <3>5. ASSUME NEW n \in 0 .. N + 1 - 1
          PROVE  e[n + 1] = step[<<n, e[n]>>]
      <4>1. e[n] = f[n]
        OBVIOUS
      <4>2. CASE n = N
        <5>1. N + 1 \in 0 .. N + 1 /\ e[N + 1] = step[<<N, f[N]>>]
          OBVIOUS
        <5> HIDE DEF e
        <5> QED
          BY <4>1, <4>2, <5>1
      <4>3. CASE n # N
        <5>1. n \in 0 .. N - 1 /\ n + 1 \in 0 .. N /\ n + 1 \in 0 .. N + 1 /\ n + 1 # N + 1
          BY <4>3
        <5>2. e[n + 1] = f[n + 1]
          BY <5>1
        <5> QED
          BY <3>1, <4>1, <5>1, <5>2
      <4> QED
        BY <4>2, <4>3
    <3>6. Starts(e, N + 1)
      <4> HIDE DEF e
      <4> QED
        BY <3>3, <3>4, <3>5
    <3> HIDE DEF e, Starts
    <3> QED
      BY <3>3, <3>6
  <2> HIDE DEF T
  <2> QED
    BY <2>1, <2>2, Induction
<1>2. ASSUME NEW N \in Nat
      PROVE  best[N] \in [0 .. N -> S] /\ Starts(best[N], N)
  <2>1. \E f \in [0 .. N -> S] : Starts(f, N)
    BY <1>1
  <2> HIDE DEF Starts
  <2> QED
    BY <2>1
<1>3. ASSUME NEW N \in Nat, NEW M \in Nat, NEW f \in [0 .. N -> S], NEW e \in [0 .. M -> S],
             Starts(f, N), Starts(e, M)
      PROVE  \A n \in Nat : n <= N /\ n <= M => f[n] = e[n]
  <2> DEFINE U == {n \in Nat : n <= N /\ n <= M => f[n] = e[n]}
  <2>1. 0 \in U
    BY <1>3
  <2>2. ASSUME NEW n \in Nat, n \in U
        PROVE  n + 1 \in U
    <3> SUFFICES ASSUME n + 1 <= N, n + 1 <= M PROVE f[n + 1] = e[n + 1]
      OBVIOUS
    <3>1. n \in 0 .. N - 1 /\ n \in 0 .. M - 1 /\ f[n] = e[n]
      BY <2>2
    <3> QED
      BY <1>3, <3>1
  <2>3. \A n \in Nat : n \in U
    <3> HIDE DEF U
    <3> QED
      BY <2>1, <2>2, Induction
  <2> QED
    BY <2>3
<1>4. g \in [Nat -> S]
  <2>1. ASSUME NEW N \in Nat
        PROVE  best[N][N] \in S
    <3>1. N \in 0 .. N
      OBVIOUS
    <3> HIDE DEF best
    <3> QED
      BY <1>2, <3>1
  <2> HIDE DEF best
  <2> QED
    BY <2>1
<1>5. g[0] = c
  <2> HIDE DEF best
  <2>1. best[0][0] = c
    BY <1>2
  <2> QED
    BY <2>1
<1>6. ASSUME NEW n \in Nat
      PROVE  g[n + 1] = step[<<n, g[n]>>]
  <2>1. Starts(best[n + 1], n + 1) /\ Starts(best[n], n)
        /\ best[n + 1] \in [0 .. n + 1 -> S] /\ best[n] \in [0 .. n -> S]
    <3>1. n + 1 \in Nat
      OBVIOUS
    <3> HIDE DEF best, Starts
    <3> QED
      BY <1>2, <3>1
  <2>2. best[n + 1][n] = best[n][n]
    <3>1. n + 1 \in Nat /\ n <= n + 1 /\ n <= n
      OBVIOUS
    <3> HIDE DEF best, Starts
    <3>2. \A i \in Nat : i <= n + 1 /\ i <= n => best[n + 1][i] = best[n][i]
      BY <1>3, <2>1, <3>1
    <3> QED
      BY <3>1, <3>2
  <2>3. best[n + 1][n + 1] = step[<<n, best[n + 1][n]>>]
    <3>1. n \in 0 .. n + 1 - 1
      OBVIOUS
    <3> HIDE DEF best
    <3> QED
      BY <2>1, <3>1
  <2> HIDE DEF best
  <2> QED
    BY <2>2, <2>3
<1> HIDE DEF g
<1>7. Recursion(g, S, c, step)
  BY <1>4, <1>5, <1>6 DEF Recursion
<1> QED
  BY <1>7

\* What a loop of N passes makes of c, pass by pass.
IsLoop(f, S, N, c, step) ==
    /\ f \in [0 .. N -> S]
    /\ f[0] = c
    /\ \A n \in 1 .. N : f[n] = step[<<n, f[n - 1]>>]

\* The passes of a loop make a function from their number.
LEMMA LoopExists ==
    ASSUME NEW S, NEW N \in Nat, NEW c \in S, NEW step \in [Nat \X S -> S]
    PROVE  \E f : IsLoop(f, S, N, c, step)
<1> DEFINE next == [x \in Nat \X S |-> step[<<x[1] + 1, x[2]>>]]
<1>1. next \in [Nat \X S -> S] /\ \A n \in Nat, u \in S : next[<<n, u>>] = step[<<n + 1, u>>]
  OBVIOUS
<1> HIDE DEF next
<1>2. PICK g : Recursion(g, S, c, next)
  BY <1>1, RecursionExists, Zenon
<1>3. g \in [Nat -> S] /\ g[0] = c /\ \A n \in Nat : g[n + 1] = next[<<n, g[n]>>]
  BY <1>2 DEF Recursion
<1> DEFINE f == [n \in 0 .. N |-> g[n]]
<1>4. f \in [0 .. N -> S] /\ f[0] = c
  BY <1>3
<1>5. ASSUME NEW n \in 1 .. N
      PROVE  f[n] = step[<<n, f[n - 1]>>]
  <2>1. n - 1 \in Nat /\ n - 1 \in 0 .. N /\ n \in 0 .. N /\ (n - 1) + 1 = n
    OBVIOUS
  <2>2. f[n] = g[n] /\ f[n - 1] = g[n - 1] /\ g[n - 1] \in S
    BY <1>3, <2>1
  <2>3. g[(n - 1) + 1] = next[<<n - 1, g[n - 1]>>]
    BY <1>3, <2>1
  <2>4. next[<<n - 1, g[n - 1]>>] = step[<<(n - 1) + 1, g[n - 1]>>]
    BY <1>1, <2>1, <2>2
  <2> HIDE DEF f
  <2> QED
    BY <2>1, <2>2, <2>3, <2>4
<1> HIDE DEF f
<1>6. IsLoop(f, S, N, c, step)
  BY <1>4, <1>5 DEF IsLoop
<1> QED
  BY <1>6

\* What holds before a loop and is kept by each pass holds after any number.
LEMMA LoopKeeps ==
    ASSUME NEW N \in Nat, NEW T, 0 \in T,
           \A n \in 1 .. N : n - 1 \in T => n \in T
    PROVE  \A n \in 0 .. N : n \in T
<1> DEFINE U == {n \in Nat : n <= N => n \in T}
<1>1. 0 \in U
  OBVIOUS
<1>2. ASSUME NEW n \in Nat, n \in U
      PROVE  n + 1 \in U
  <2> SUFFICES ASSUME n + 1 <= N PROVE n + 1 \in T
    OBVIOUS
  <2>1. n + 1 \in 1 .. N /\ (n + 1) - 1 = n /\ n <= N
    OBVIOUS
  <2>2. n \in T
    BY <1>2, <2>1
  <2>3. (n + 1) - 1 \in T
    BY <2>1, <2>2
  <2> QED
    BY <2>1, <2>3
<1>3. \A n \in Nat : n \in U
  <2> HIDE DEF U
  <2> QED
    BY <1>1, <1>2, Induction
<1> QED
  BY <1>3
=============================================================================
