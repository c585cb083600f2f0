---------------------- MODULE TransactionAddingProofs -----------------------
(***************************************************************************)
(* The transaction builder while commands are added to it: what its        *)
(* operators return for every list of commands, that BuilderInv implies    *)
(* the properties, and that everything that happens before the sort keeps  *)
(* it.                                                                     *)
(***************************************************************************)
EXTENDS TransactionBuilderInvariant, TLAPS, WellFoundedInduction, SequenceTheorems,
        FiniteSetTheorems, FunctionTheorems

(***************************************************************************)
(* Induction. A predicate cannot be a parameter of a lemma, a set can.     *)
(***************************************************************************)

(* Sets of numbers have a smallest element. *)
LEMMA Smallest ==
  ASSUME NEW S, S \subseteq Nat, S # {}
  PROVE  \E n \in S : \A m \in S : n <= m
<1>1. \E n \in S : \A m \in S : <<m, n>> \notin OpToRel(<, Nat)
  BY NatLessThanWellFounded, WFMin
<1>2. PICK n \in S : \A m \in S : <<m, n>> \notin OpToRel(<, Nat)
  BY <1>1
<1>3. \A m \in S : ~(m < n)
  BY <1>2 DEF OpToRel
<1> QED
  BY <1>3

(* Induction with a set in the place of a predicate. *)
LEMMA NatInduct ==
  ASSUME NEW P, 0 \in P, \A n \in P \cap Nat : n + 1 \in P
  PROVE  Nat \subseteq P
<1> SUFFICES ASSUME Nat \ P # {}  PROVE FALSE
  OBVIOUS
<1>1. PICK n \in Nat \ P : \A m \in Nat \ P : n <= m
  BY Smallest
<1>2. PICK k \in Nat : n = k + 1
  <2>1. n - 1 \in Nat /\ n = (n - 1) + 1
    BY <1>1
  <2> QED
    BY <2>1
<1>3. k \in P
  BY <1>1, <1>2
<1>4. k + 1 \in P
  BY <1>2, <1>3
<1> QED
  BY <1>1, <1>2, <1>4

(* w is x, then what the functions F make of it, one after the other. *)
Iteration(w, S, F, x) ==
  w \in [Nat -> S] /\ w[0] = x /\ \A n \in Nat : w[n + 1] = F[n][w[n]]

(* Such a sequence of states exists. *)
LEMMA IterateExists ==
  ASSUME NEW S, NEW F, F \in [Nat -> [S -> S]], NEW x \in S
  PROVE  \E w : Iteration(w, S, F, x)
<1> DEFINE Good(n, g) == g \in [0 .. n -> S] /\ g[0] = x /\ \A k \in 0 .. n : k < n => g[k + 1] = F[k][g[k]]
           P == {n \in Nat : \E g : Good(n, g)}
<1>1. 0 \in P
  <2>1. Good(0, [k \in 0 .. 0 |-> x])
    OBVIOUS
  <2> QED
    BY <2>1
<1>2. ASSUME NEW n \in P  PROVE n + 1 \in P
  <2>1. PICK g : Good(n, g)
    OBVIOUS
  <2>2. Good(n + 1, [k \in 0 .. n + 1 |-> IF k = n + 1 THEN F[n][g[n]] ELSE g[k]])
    BY <2>1
  <2>3. n + 1 \in Nat
    OBVIOUS
  <2> HIDE DEF Good
  <2> QED
    BY <2>2, <2>3
<1>3. Nat \subseteq P
  <2> HIDE DEF P
  <2> QED BY <1>1, <1>2, NatInduct
<1> DEFINE G(n) == CHOOSE g : Good(n, g)
<1>4. ASSUME NEW n \in Nat  PROVE Good(n, G(n))
  BY <1>3
<1>5. ASSUME NEW n \in Nat  PROVE \A k \in 0 .. n : G(n)[k] = G(n + 1)[k]
  <2> DEFINE Q == {k \in Nat : k <= n => G(n)[k] = G(n + 1)[k]}
  <2>0. Good(n, G(n)) /\ Good(n + 1, G(n + 1))
    <3>1. n + 1 \in Nat
      OBVIOUS
    <3> HIDE DEF G, Good
    <3> QED BY <1>4, <3>1
  <2> HIDE DEF G
  <2>1. 0 \in Q
    BY <2>0
  <2>2. ASSUME NEW k \in Q  PROVE k + 1 \in Q
    BY <2>0
  <2>3. Nat \subseteq Q
    <3> HIDE DEF Q
    <3> QED BY <2>1, <2>2, NatInduct
  <2> QED
    BY <2>3
<1> DEFINE w == [n \in Nat |-> G(n)[n]]
<1>6. ASSUME NEW n \in Nat  PROVE w[n + 1] = F[n][w[n]] /\ w[n] \in S
  <2>1. Good(n, G(n)) /\ Good(n + 1, G(n + 1)) /\ \A k \in 0 .. n : G(n)[k] = G(n + 1)[k]
    <3>1. n + 1 \in Nat
      OBVIOUS
    <3> HIDE DEF G, Good
    <3> QED BY <1>4, <1>5, <3>1
  <2>2. G(n+1)[n+1] = F[n][G(n+1)[n]]
    <3> HIDE DEF G
    <3> QED BY <2>1
  <2>3. G(n)[n] = G(n+1)[n] /\ G(n)[n] \in S
    <3> HIDE DEF G
    <3> QED BY <2>1
  <2> HIDE DEF G
  <2> QED
    BY <2>2, <2>3
<1>7. w[0] = x
  <2>1. Good(0, G(0))
    BY <1>4
  <2> HIDE DEF G
  <2> QED
    BY <2>1
<1>8. w \in [Nat -> S]
  <2> HIDE DEF G
  <2> QED
    BY <1>6
<1> HIDE DEF w
<1>9. Iteration(w, S, F, x)
  BY <1>6, <1>7, <1>8 DEF Iteration
<1> QED
  BY <1>9

(***************************************************************************)
(* Flatten: a tree of sections, level by level                             *)
(***************************************************************************)

(* FlattenSeq, unfolded: what is joined after each of the sequences. *)
LEMMA FlattenIs ==
  ASSUME NEW S, NEW ss \in Seq(Seq(S)), Len(ss) > 0
  PROVE  \E f \in [1 .. Len(ss) -> Seq(S)] :
           /\ f[1] = ss[1]
           /\ \A i \in 1 .. Len(ss) : i > 1 => f[i] = f[i - 1] \o ss[i]
           /\ FlattenSeq(ss) = f[Len(ss)]
<1> DEFINE N == Len(ss)
           V == Seq(S)
           F == [n \in Nat |-> [v \in V |-> IF n + 2 \in 1 .. N THEN v \o ss[n + 2] ELSE v]]
           Body(g) == [i \in 1 .. N |-> IF i = 1 THEN ss[i] ELSE g[i - 1] \o ss[i]]
           fl == CHOOSE g : g = Body(g)
<1>0. N \in Nat /\ N > 0 /\ \A i \in 1 .. N : ss[i] \in V
  BY LenProperties, ElementOfSeq
<1>9. FlattenSeq(ss) = fl[N]
  BY DEF FlattenSeq
<1> HIDE DEF N
<1>a. ASSUME NEW u \in V, NEW v \in V  PROVE u \o v \in V
  BY ConcatProperties
<1>1. F \in [Nat -> [V -> V]] /\ ss[1] \in V
  <2> HIDE DEF V
  <2> QED BY <1>0, <1>a
<1>2a. \E w : Iteration(w, V, F, ss[1])
  <2> HIDE DEF V, F
  <2> QED BY <1>1, IterateExists
<1>2b. PICK w : Iteration(w, V, F, ss[1])
  BY <1>2a
<1>2. w \in [Nat -> V] /\ w[0] = ss[1] /\ \A n \in Nat : w[n + 1] = F[n][w[n]]
  <2> HIDE DEF V, F
  <2> QED BY <1>2b DEF Iteration
<1> DEFINE f == [i \in 1 .. N |-> w[i - 1]]
<1> HIDE DEF V
<1>4. f \in [1 .. N -> V] /\ f[1] = ss[1]
  BY <1>0, <1>2
<1>5. ASSUME NEW i \in 1 .. N, i > 1  PROVE f[i] = f[i - 1] \o ss[i]
  <2> DEFINE m == i - 2
  <2>2. m \in Nat /\ i = m + 2 /\ i - 1 = m + 1 /\ (i - 1) - 1 = m /\ i - 1 \in 1 .. N
    BY <1>0, <1>5
  <2>1. w[m] \in V /\ w[m + 1] = F[m][w[m]]
    BY <1>2, <2>2
  <2> HIDE DEF m
  <2>3. w[i - 1] = w[m] \o ss[i]
    BY <2>1, <2>2
  <2> QED
    BY <2>2, <2>3
<1>6. f = Body(f)
  <2>1. \A i \in 1 .. N : f[i] = IF i = 1 THEN ss[i] ELSE f[i - 1] \o ss[i]
    <3>1. \A i \in 1 .. N : i = 1 \/ i > 1
      BY <1>0
    <3> HIDE DEF f
    <3> QED BY <1>4, <1>5, <3>1
  <2>2. f = [i \in 1 .. N |-> f[i]]
    BY <1>4
  <2> HIDE DEF f
  <2> QED BY <2>1, <2>2
<1>7. fl = Body(fl)
  <2> HIDE DEF f, Body
  <2> QED BY <1>6
<1>8. \A i \in 1 .. N : fl[i] = f[i]
  <2> DEFINE P == {n \in Nat : n + 1 \in 1 .. N => fl[n + 1] = f[n + 1]}
  <2>0. \A i \in 1 .. N : fl[i] = IF i = 1 THEN ss[i] ELSE fl[i - 1] \o ss[i]
    <3> HIDE DEF fl
    <3> QED BY <1>7
  <2>00. \A i \in 1 .. N : f[i] = IF i = 1 THEN ss[i] ELSE f[i - 1] \o ss[i]
    <3> HIDE DEF f
    <3> QED BY <1>6
  <2> HIDE DEF fl, f
  <2>1. 0 \in P
    BY <2>0, <2>00, <1>0
  <2>2. ASSUME NEW n \in P \cap Nat PROVE n + 1 \in P
    <3> SUFFICES ASSUME (n + 1) + 1 \in 1 .. N  PROVE fl[(n + 1) + 1] = f[(n + 1) + 1]
      OBVIOUS
    <3>0. n + 1 \in 1 .. N /\ ((n + 1) + 1) - 1 = n + 1 /\ (n + 1) + 1 # 1
      BY <1>0
    <3>1. fl[n + 1] = f[n + 1]
      BY <3>0
    <3> QED
      BY <3>0, <3>1, <2>0, <2>00
  <2>3. Nat \subseteq P
    <3> HIDE DEF P
    <3> QED BY <2>1, <2>2, NatInduct
  <2>4. ASSUME NEW i \in 1 .. N  PROVE fl[i] = f[i]
    <3>1. i - 1 \in Nat /\ (i - 1) + 1 = i
      BY <1>0
    <3>2. (i - 1) \in P
      BY <2>3, <3>1
    <3> QED BY <3>1, <3>2
  <2> QED
    BY <2>4
<1> HIDE DEF f, fl
<1> QED
  <2>1. FlattenSeq(ss) = f[N]
    BY <1>8, <1>9, <1>0
  <2> QED
    BY <1>4, <1>5, <2>1 DEF N, V

(* Where each part of a concatenation starts. *)
Starts(start, ss, whole) ==
  /\ start \in [1 .. Len(ss) -> Nat]
  /\ \A i \in 1 .. Len(ss) : \A k \in 1 .. Len(ss[i]) :
       start[i] + k \in 1 .. Len(whole) /\ whole[start[i] + k] = ss[i][k]
  /\ \A m \in 1 .. Len(whole) :
       \E i \in 1 .. Len(ss) : \E k \in 1 .. Len(ss[i]) : m = start[i] + k
  /\ \A i, j \in 1 .. Len(ss) : i < j => start[i] + Len(ss[i]) <= start[j]
  /\ \A i \in 1 .. Len(ss) : start[i] = IF i = 1 THEN 0 ELSE start[i - 1] + Len(ss[i - 1])

(* FlattenSeq: where each element is. *)
LEMMA FlattenPositions ==
  ASSUME NEW S, NEW ss \in Seq(Seq(S))
  PROVE  FlattenSeq(ss) \in Seq(S) /\ \E start : Starts(start, ss, FlattenSeq(ss))
<1>1. CASE Len(ss) = 0
  <2>1. FlattenSeq(ss) = ss /\ ss = <<>>
    BY <1>1, EmptySeq DEF FlattenSeq
  <2> DEFINE st == [i \in 1 .. Len(ss) |-> 0]
  <2>2. st \in [1 .. Len(ss) -> Nat] /\ 1 .. Len(ss) = {} /\ 1 .. Len(FlattenSeq(ss)) = {}
    BY <1>1, <2>1
  <2>3. FlattenSeq(ss) \in Seq(S)
    BY <2>1
  <2> HIDE DEF st
  <2>4. Starts(st, ss, FlattenSeq(ss))
    BY <2>2 DEF Starts
  <2> QED
    BY <2>3, <2>4
<1>2. CASE Len(ss) > 0
  <2> DEFINE N == Len(ss)
             L(i) == Len(ss[i])
  <2>0. N \in Nat /\ N > 0 /\ \A i \in 1 .. N : ss[i] \in Seq(S) /\ L(i) \in Nat
    BY <1>2, LenProperties, ElementOfSeq
  <2>1. PICK f \in [1 .. N -> Seq(S)] :
           /\ f[1] = ss[1]
           /\ \A i \in 1 .. N : i > 1 => f[i] = f[i - 1] \o ss[i]
           /\ FlattenSeq(ss) = f[N]
    BY <1>2, FlattenIs
  <2> HIDE DEF N
  <2>2. \A i \in 1 .. N : f[i] \in Seq(S) /\ Len(f[i]) \in Nat
    BY <2>1, LenProperties
  <2>3. ASSUME NEW n \in Nat, n + 1 \in 1 .. N, n > 0
        PROVE  /\ n \in 1 .. N
               /\ Len(f[n + 1]) = Len(f[n]) + L(n + 1)
               /\ \A m \in 1 .. Len(f[n]) : f[n + 1][m] = f[n][m]
               /\ \A k \in 1 .. L(n + 1) : f[n + 1][Len(f[n]) + k] = ss[n + 1][k]
    <3>1. n \in 1 .. N /\ (n + 1) - 1 = n /\ n + 1 > 1
      BY <2>0, <2>3
    <3>2. f[n + 1] = f[n] \o ss[n + 1]
      BY <2>1, <2>3, <3>1
    <3>3. f[n] \in Seq(S) /\ ss[n + 1] \in Seq(S) /\ L(n + 1) \in Nat /\ Len(f[n]) \in Nat
      BY <2>0, <2>2, <2>3, <3>1
    <3>4. /\ Len(f[n] \o ss[n + 1]) = Len(f[n]) + Len(ss[n + 1])
          /\ \A i \in 1 .. Len(f[n]) + Len(ss[n + 1]) :
               (f[n] \o ss[n + 1])[i] = IF i <= Len(f[n]) THEN f[n][i] ELSE ss[n + 1][i - Len(f[n])]
      BY <3>3, ConcatProperties
    <3> HIDE DEF L
    <3>5. \A k \in 1 .. L(n + 1) : /\ Len(f[n]) + k \in 1 .. Len(f[n]) + L(n + 1)
                                   /\ ~(Len(f[n]) + k <= Len(f[n])) /\ (Len(f[n]) + k) - Len(f[n]) = k
      BY <3>3
    <3>6. \A m \in 1 .. Len(f[n]) : m \in 1 .. Len(f[n]) + L(n + 1) /\ m <= Len(f[n])
      BY <3>3
    <3> QED
      BY <3>1, <3>2, <3>4, <3>5, <3>6 DEF L
  <2> DEFINE start == [i \in 1 .. N |-> Len(f[i]) - L(i)]
             Q(n) == /\ start[n] \in Nat /\ Len(f[n]) = start[n] + L(n)
                     /\ \A i \in 1 .. n : \A k \in 1 .. L(i) :
                          start[i] + k \in 1 .. Len(f[n]) /\ f[n][start[i] + k] = ss[i][k]
                     /\ \A m \in 1 .. Len(f[n]) :
                          \E i \in 1 .. n : \E k \in 1 .. L(i) : m = start[i] + k
                     /\ \A i \in 1 .. n - 1 : start[i] + L(i) <= start[n]
             P == {n \in Nat : n + 1 \in 1 .. N => Q(n + 1)}
  <2>4. Q(1)
    <3>1. 1 \in 1 .. N /\ f[1] = ss[1] /\ L(1) \in Nat
      BY <2>0, <2>1
    <3>2. start[1] = 0
      BY <3>1
    <3>3. 1 .. 1 = {1} /\ 1 .. (1 - 1) = {}
      OBVIOUS
    <3> HIDE DEF start
    <3>4. \A k \in 1 .. L(1) : start[1] + k = k
      BY <3>2, <3>1
    <3> HIDE DEF L
    <3>5. Len(f[1]) = L(1)
      BY <3>1 DEF L
    <3>6. \A i \in 1 .. 1 : i = 1
      OBVIOUS
    <3>7. \A i \in 1 .. 1 : \A k \in 1 .. L(i) :
                          start[i] + k \in 1 .. Len(f[1]) /\ f[1][start[i] + k] = ss[i][k]
      BY <3>1, <3>4, <3>5, <3>6
    <3>8. \A m \in 1 .. Len(f[1]) : \E i \in 1 .. 1 : \E k \in 1 .. L(i) : m = start[i] + k
      BY <3>4, <3>5, <3>3
    <3>9. \A i \in 1 .. 1 - 1 : start[i] + L(i) <= start[1]
      BY <3>3
    <3>10. start[1] \in Nat /\ Len(f[1]) = start[1] + L(1)
      BY <3>1, <3>2, <3>5
    <3> QED
      BY <3>7, <3>8, <3>9, <3>10
  <2>5. ASSUME NEW n \in Nat, n > 0, n + 1 \in 1 .. N, Q(n)  PROVE Q(n + 1)
    <3>1. /\ n \in 1 .. N
          /\ Len(f[n + 1]) = Len(f[n]) + L(n + 1)
          /\ \A m \in 1 .. Len(f[n]) : f[n + 1][m] = f[n][m]
          /\ \A k \in 1 .. L(n + 1) : f[n + 1][Len(f[n]) + k] = ss[n + 1][k]
      BY <2>3, <2>5
    <3>2. Len(f[n]) \in Nat /\ L(n + 1) \in Nat
      BY <2>0, <2>2, <2>5, <3>1
    <3> HIDE DEF L
    <3>3. start[n + 1] = Len(f[n])
      BY <2>5, <3>1, <3>2
    <3> HIDE DEF start
    <3>4. \A i \in 1 .. n + 1 : i \in 1 .. n \/ i = n + 1
      BY <2>5
    <3>4a. \A i \in 1 .. n : i \in 1 .. N
      BY <2>0, <2>5
    <3>5. \A i \in 1 .. n + 1 : \A k \in 1 .. L(i) :
                          start[i] + k \in 1 .. Len(f[n + 1]) /\ f[n + 1][start[i] + k] = ss[i][k]
      <4> SUFFICES ASSUME NEW i \in 1 .. n + 1, NEW k \in 1 .. L(i)
                   PROVE  start[i] + k \in 1 .. Len(f[n + 1]) /\ f[n + 1][start[i] + k] = ss[i][k]
        OBVIOUS
      <4>1. CASE i \in 1 .. n
        <5>1. start[i] + k \in 1 .. Len(f[n]) /\ f[n][start[i] + k] = ss[i][k]
          BY <4>1, <2>5
        <5> QED
          BY <5>1, <3>1, <3>2
      <4>2. CASE i = n + 1
        <5>1. k \in 1 .. L(n + 1) /\ start[i] = Len(f[n])
          BY <4>2, <3>3
        <5> QED
          BY <5>1, <4>2, <3>1, <3>2
      <4> QED
        BY <4>1, <4>2, <3>4
    <3>6. \A m \in 1 .. Len(f[n + 1]) : \E i \in 1 .. n + 1 : \E k \in 1 .. L(i) : m = start[i] + k
      <4> SUFFICES ASSUME NEW m \in 1 .. Len(f[n + 1])
                   PROVE  \E i \in 1 .. n + 1 : \E k \in 1 .. L(i) : m = start[i] + k
        OBVIOUS
      <4>1. CASE m \in 1 .. Len(f[n])
        <5>1. PICK i \in 1 .. n : \E k \in 1 .. L(i) : m = start[i] + k
          BY <4>1, <2>5
        <5>2. i \in 1 .. n + 1
          BY <2>5
        <5> QED
          BY <5>1, <5>2
      <4>2. CASE m \notin 1 .. Len(f[n])
        <5>1. m - Len(f[n]) \in 1 .. L(n + 1) /\ m = Len(f[n]) + (m - Len(f[n]))
          BY <4>2, <3>1, <3>2
        <5>2. n + 1 \in 1 .. n + 1
          BY <2>5
        <5> QED
          BY <5>1, <5>2, <3>3
      <4> QED
        BY <4>1, <4>2
    <3>7. \A i \in 1 .. (n + 1) - 1 : start[i] + L(i) <= start[n + 1]
      <4> SUFFICES ASSUME NEW i \in 1 .. n  PROVE start[i] + L(i) <= start[n + 1]
        BY <2>5
      <4>0. start[i] \in Nat /\ L(i) \in Nat
        <5>1. start[i] = Len(f[i]) - L(i) /\ L(i) \in Nat /\ Len(f[i]) \in Nat
          BY <2>0, <2>2, <3>4a DEF start, L
        <5>2. CASE i = n
          BY <5>1, <5>2, <2>5
        <5>3. CASE L(i) = 0
          BY <5>1, <5>3
        <5>4. CASE L(i) > 0
          <6>1. start[i] + 1 \in 1 .. Len(f[n])
            BY <5>1, <5>4, <2>5
          <6> QED
            BY <6>1, <5>1, <3>2
        <5> QED
          BY <5>1, <5>3, <5>4
      <4>1. CASE i = n
        BY <4>1, <3>3, <2>5, <3>2, <4>0
      <4>2. CASE i # n
        <5>1. i \in 1 .. n - 1
          BY <4>2, <2>5
        <5> QED
          <6>1. start[i] + L(i) <= start[n] /\ start[n] \in Nat /\ Len(f[n]) = start[n] + L(n)
            BY <5>1, <2>5
          <6>2. L(n) \in Nat
            BY <2>0, <3>1 DEF L
          <6> QED
            BY <6>1, <6>2, <3>3, <4>0
      <4> QED
        BY <4>1, <4>2
    <3>8. start[n + 1] \in Nat /\ Len(f[n + 1]) = start[n + 1] + L(n + 1)
      BY <3>1, <3>2, <3>3
    <3> QED
      BY <3>5, <3>6, <3>7, <3>8
  <2>6. Nat \subseteq P
    <3>1. 0 \in P
      <4>1. 0 + 1 = 1
        OBVIOUS
      <4> HIDE DEF Q
      <4> QED
        BY <2>4, <4>1
    <3>2. ASSUME NEW n \in P \cap Nat  PROVE n + 1 \in P
      <4> SUFFICES ASSUME (n + 1) + 1 \in 1 .. N  PROVE Q((n + 1) + 1)
        <5> HIDE DEF Q
        <5> QED OBVIOUS
      <4>1. n + 1 \in 1 .. N /\ n + 1 \in Nat /\ n + 1 > 0
        BY <2>0
      <4>2. Q(n + 1)
        BY <4>1
      <4> HIDE DEF Q
      <4>3. Q((n + 1) + 1)
        BY <2>5, <4>1, <4>2
      <4> QED
        BY <4>3
    <3> HIDE DEF P
    <3> QED
      BY <3>1, <3>2, NatInduct
  <2>7. ASSUME NEW n \in 1 .. N  PROVE Q(n)
    <3>1. n - 1 \in Nat /\ (n - 1) + 1 = n
      BY <2>0
    <3>2. n - 1 \in P
      BY <2>6, <3>1
    <3> HIDE DEF Q
    <3> QED
      BY <3>1, <3>2
  <2>8. start \in [1 .. N -> Nat]
    BY <2>7
  <2>9. N \in 1 .. N
    BY <2>0
  <2>10. Q(N)
    BY <2>7, <2>9
  <2>11. \A i, j \in 1 .. N : i < j => start[i] + L(i) <= start[j]
    <3> SUFFICES ASSUME NEW i \in 1 .. N, NEW j \in 1 .. N, i < j  PROVE start[i] + L(i) <= start[j]
      OBVIOUS
    <3>0. i \in 1 .. j - 1
      BY <2>0
    <3>1. Q(j)
      BY <2>7
    <3> HIDE DEF start, L
    <3> QED
      BY <3>0, <3>1
  <2>12. FlattenSeq(ss) = f[N] /\ f[N] \in Seq(S)
    BY <2>1, <2>2, <2>9
  <2> HIDE DEF start
  <2>13. start \in [1 .. Len(ss) -> Nat]
    BY <2>8 DEF N
  <2>15. \A i \in 1 .. N : start[i] = IF i = 1 THEN 0 ELSE start[i - 1] + L(i - 1)
    <3> SUFFICES ASSUME NEW i \in 1 .. N
                 PROVE  start[i] = IF i = 1 THEN 0 ELSE start[i - 1] + L(i - 1)
      OBVIOUS
    <3>1. CASE i = 1
      <4>1. start[1] = Len(f[1]) - L(1) /\ f[1] = ss[1] /\ L(1) \in Nat /\ Len(f[1]) = L(1)
        BY <2>0, <2>1 DEF start
      <4> HIDE DEF L
      <4> QED
        BY <3>1, <4>1
    <3>2. CASE i # 1
      <4> DEFINE n == i - 1
      <4>1. n \in Nat /\ n > 0 /\ n + 1 \in 1 .. N /\ n \in 1 .. N /\ i = n + 1 /\ i - 1 = n
        BY <3>2, <2>0
      <4> HIDE DEF n
      <4>2. Len(f[n + 1]) = Len(f[n]) + L(n + 1)
        BY <2>3, <4>1
      <4>3. Len(f[n]) \in Nat /\ L(n) \in Nat /\ L(n + 1) \in Nat
        BY <4>1, <2>0, <2>2
      <4>4. start[n + 1] = Len(f[n + 1]) - L(n + 1) /\ start[n] = Len(f[n]) - L(n)
        BY <4>1 DEF start
      <4> HIDE DEF L
      <4>5. start[n + 1] = start[n] + L(n)
        BY <4>2, <4>3, <4>4
      <4> QED
        BY <3>2, <4>1, <4>5
    <3> QED
      BY <3>1, <3>2
  <2>14. Starts(start, ss, FlattenSeq(ss))
    BY <2>13, <2>10, <2>11, <2>12, <2>15 DEF N, Starts
  <2> QED
    BY <2>12, <2>14
<1>3. Len(ss) \in Nat
  BY LenProperties
<1> QED
  BY <1>1, <1>2, <1>3

(* What a section holds: forks of F and names of X. *)
EntriesOf(F, X) == [fork : {TRUE}, name : F] \cup [fork : {FALSE}, name : X]

(* The sections of the forks, s, as a tree: an entry of a fork is a child  *)
(* of it, and every fork but the root is an entry of its parent.           *)
Tree(F, E, s) ==
  /\ <<>> \in F /\ F \subseteq Seq(Nat) /\ s \in [F -> Seq(E)]
  /\ \A f \in F : \A k \in 1 .. Len(s[f]) :
       s[f][k].fork = TRUE => s[f][k].name \in F /\ Len(s[f][k].name) = Len(f) + 1
  /\ \A g \in F \ {<<>>} : Front(g) \in F
  /\ \A g \in F \ {<<>>} : \E k \in 1 .. Len(s[Front(g)]) :
       s[Front(g)][k] = [fork |-> TRUE, name |-> g]

(* A relation between entries that holds from left to right in every       *)
(* section, and of what a fork stands for when it holds of the fork.       *)
Orders(R, F, s) ==
  /\ \A f \in F : \A k, l \in 1 .. Len(s[f]) : k < l => <<s[f][k], s[f][l]>> \in R
  /\ \A f \in F : \A k \in 1 .. Len(s[f]) : \A e :
       /\ <<[fork |-> TRUE, name |-> f], e>> \in R => <<s[f][k], e>> \in R
       /\ <<e, [fork |-> TRUE, name |-> f]>> \in R => <<e, s[f][k]>> \in R

(* The first n levels of the tree, in a row. *)
Level(n, x, F, E, s) ==
  /\ x \in Seq(E)
  /\ \A i \in 1 .. Len(x) :
       /\ x[i].fork = TRUE => x[i].name \in F /\ Len(x[i].name) = n + 1
       /\ x[i].fork = FALSE => \E f \in F : \E k \in 1 .. Len(s[f]) : s[f][k] = x[i]
  /\ \A f \in F : \A k \in 1 .. Len(s[f]) :
       Len(f) <= n /\ s[f][k].fork = FALSE => \E i \in 1 .. Len(x) : x[i] = s[f][k]
  /\ \A g \in F : Len(g) = n + 1 => \E i \in 1 .. Len(x) : x[i] = [fork |-> TRUE, name |-> g]

(* In order, and with the first b entries of the root in front. *)
InRow(x, R, s, b) ==
  /\ \A i, j \in 1 .. Len(x) : i < j => <<x[i], x[j]>> \in R
  /\ b <= Len(x) /\ \A k \in 1 .. b : x[k] = s[<<>>][k]
  /\ \A i \in b + 1 .. Len(x) : \E f \in DOMAIN s : \E k \in 1 .. Len(s[f]) :
       (f = <<>> => k > b) /\ x[i] = s[f][k]

(* One step of Flatten: every fork gives way to its section. *)
Expanded(x, s) == [i \in DOMAIN x |-> IF x[i].fork THEN s[x[i].name] ELSE <<x[i]>>]

(* Where the entries of ss come from: x[i] is a leaf, or ss[i] its         *)
(* section.                                                                *)
Expansion(x, ss, n, F, E, s) ==
  /\ ss \in Seq(Seq(E)) /\ Len(ss) = Len(x)
  /\ \A i \in 1 .. Len(x) :
       /\ x[i] \in E /\ x[i].fork \in BOOLEAN
       /\ x[i].fork = TRUE => /\ x[i] = [fork |-> TRUE, name |-> x[i].name]
                              /\ x[i].name \in F /\ Len(x[i].name) = n + 1
                              /\ ss[i] = s[x[i].name]
       /\ x[i].fork = FALSE => /\ ss[i] = <<x[i]>> /\ Len(<<x[i]>>) = 1
                               /\ <<x[i]>>[1] = x[i]

(* Expanding the forks of level n leaves those of level n + 1. *)
LEMMA ExpandedLevel ==
  ASSUME NEW F, NEW X, NEW s, NEW n \in Nat, NEW x, NEW E,
         E = EntriesOf(F, X),
         Tree(F, E, s), Level(n, x, F, E, s)
  PROVE  /\ Expansion(x, Expanded(x, s), n, F, E, s)
         /\ Level(n + 1, FlattenSeq(Expanded(x, s)), F, E, s)
<1> DEFINE ss == Expanded(x, s)
           y == FlattenSeq(ss)
<1>1. x \in Seq(E) /\ Len(x) \in Nat /\ DOMAIN x = 1 .. Len(x)
  BY LenProperties DEF Level
<1>2. \A i \in 1 .. Len(x) :
        /\ x[i] \in E /\ x[i].fork \in BOOLEAN
        /\ x[i].fork = TRUE => x[i] = [fork |-> TRUE, name |-> x[i].name]
  <2>1. \A i \in 1 .. Len(x) : x[i] \in E
    BY <1>1, ElementOfSeq
  <2> QED
    BY <2>1 DEF EntriesOf
<1>3. \A i \in 1 .. Len(x) : x[i].fork = TRUE => x[i].name \in F /\ Len(x[i].name) = n + 1
  BY DEF Level
<1>4. \A i \in 1 .. Len(x) :
        /\ x[i].fork = TRUE => ss[i] = s[x[i].name]
        /\ x[i].fork = FALSE => ss[i] = <<x[i]>>
  <2>1. \A i \in 1 .. Len(x) : ss[i] = IF x[i].fork THEN s[x[i].name] ELSE <<x[i]>>
    BY <1>1 DEF Expanded
  <2> HIDE DEF ss
  <2> QED
    BY <2>1
<1>5. ASSUME NEW i \in 1 .. Len(x)  PROVE ss[i] \in Seq(E)
  <2> HIDE DEF ss
  <2>1. x[i] \in E /\ x[i].fork \in BOOLEAN
    BY <1>2
  <2>2. CASE x[i].fork = TRUE
    <3>1. ss[i] = s[x[i].name] /\ x[i].name \in F
      BY <2>2, <1>3, <1>4
    <3> QED
      BY <3>1 DEF Tree
  <2>3. CASE x[i].fork = FALSE
    <3>1. ss[i] = <<x[i]>>
      BY <2>3, <1>4
    <3> QED
      BY <2>1, <3>1
  <2> QED
    BY <2>1, <2>2, <2>3
<1>6. ss \in Seq(Seq(E)) /\ Len(ss) = Len(x)
  <2>1. ss = [i \in 1 .. Len(x) |-> ss[i]]
    BY <1>1 DEF Expanded
  <2> HIDE DEF ss
  <2> QED
    BY <2>1, <1>1, <1>5, IsASeq
<1>7. PICK start : Starts(start, ss, y)
  BY <1>6, FlattenPositions
<1>7a. y \in Seq(E)
  BY <1>6, FlattenPositions
<1>8. \A f \in F : s[f] \in Seq(E) /\ Len(s[f]) \in Nat /\ Len(f) \in Nat
  BY LenProperties DEF Tree
<1>9. \A e : Len(<<e>>) = 1 /\ <<e>>[1] = e
  OBVIOUS
<1> HIDE DEF ss, y
<1>10. \A m \in 1 .. Len(y) : \E i \in 1 .. Len(x) : \E k \in 1 .. Len(ss[i]) :
         m = start[i] + k /\ y[m] = ss[i][k]
  <2> SUFFICES ASSUME NEW m \in 1 .. Len(y)
               PROVE  \E i \in 1 .. Len(x) : \E k \in 1 .. Len(ss[i]) :
                        m = start[i] + k /\ y[m] = ss[i][k]
    OBVIOUS
  <2>1. PICK i \in 1 .. Len(x) : \E k \in 1 .. Len(ss[i]) : m = start[i] + k
    BY <1>6, <1>7 DEF Starts
  <2>2. PICK k \in 1 .. Len(ss[i]) : m = start[i] + k
    BY <2>1
  <2>3. y[start[i] + k] = ss[i][k]
    BY <1>6, <1>7 DEF Starts
  <2> QED
    BY <2>2, <2>3
<1>11. \A i \in 1 .. Len(x) : \A k \in 1 .. Len(ss[i]) : start[i] + k \in 1 .. Len(y) /\ y[start[i] + k] = ss[i][k]
  BY <1>6, <1>7 DEF Starts
<1>12. ASSUME NEW m \in 1 .. Len(y)
       PROVE  /\ y[m].fork = TRUE => y[m].name \in F /\ Len(y[m].name) = (n + 1) + 1
              /\ y[m].fork = FALSE => \E f \in F : \E k \in 1 .. Len(s[f]) : s[f][k] = y[m]
  <2>1a. PICK i \in 1 .. Len(x) : \E k \in 1 .. Len(ss[i]) : m = start[i] + k /\ y[m] = ss[i][k]
    BY <1>10
  <2>1. PICK k \in 1 .. Len(ss[i]) : m = start[i] + k /\ y[m] = ss[i][k]
    BY <2>1a
  <2>2. CASE x[i].fork = TRUE
    <3>1. ss[i] = s[x[i].name] /\ x[i].name \in F /\ Len(x[i].name) = n + 1
      BY <2>2, <1>3, <1>4
    <3>2. k \in 1 .. Len(s[x[i].name]) /\ y[m] = s[x[i].name][k]
      BY <2>1, <3>1
    <3> QED
      BY <3>1, <3>2 DEF Tree
  <2>3. CASE x[i].fork = FALSE
    <3>1. y[m] = x[i]
      BY <2>1, <2>3, <1>4, <1>9
    <3> QED
      BY <2>3, <3>1 DEF Level
  <2> QED
    BY <2>2, <2>3, <1>2
<1>13. ASSUME NEW f \in F, NEW k \in 1 .. Len(s[f]), Len(f) <= n + 1, s[f][k].fork = FALSE
       PROVE  \E m \in 1 .. Len(y) : y[m] = s[f][k]
  <2>1. CASE Len(f) <= n
    <3>1. PICK i \in 1 .. Len(x) : x[i] = s[f][k]
      BY <1>13, <2>1 DEF Level
    <3>2. ss[i] = <<x[i]>>
      BY <1>4, <1>13, <3>1
    <3>3. 1 \in 1 .. Len(ss[i]) /\ ss[i][1] = x[i]
      BY <3>2, <1>9
    <3> QED
      BY <1>11, <3>1, <3>3
  <2>2. CASE Len(f) = n + 1
    <3>1. PICK i \in 1 .. Len(x) : x[i] = [fork |-> TRUE, name |-> f]
      BY <2>2 DEF Level
    <3>2. ss[i] = s[f]
      BY <1>4, <3>1
    <3> QED
      BY <1>11, <3>2
  <2> QED
    BY <2>1, <2>2, <1>8, <1>13
<1>14. ASSUME NEW g \in F, Len(g) = (n + 1) + 1
       PROVE  \E m \in 1 .. Len(y) : y[m] = [fork |-> TRUE, name |-> g]
  <2>1. g \in Seq(Nat) /\ g # <<>>
    BY <1>14 DEF Tree
  <2>2. Front(g) \in F /\ Len(Front(g)) = n + 1
    <3>1. Front(g) \in F
      BY <2>1 DEF Tree
    <3>2. Len(Front(g)) = n + 1
      BY <2>1, <1>14, SubSeqProperties DEF Front
    <3> QED
      BY <3>1, <3>2
  <2>3. PICK i \in 1 .. Len(x) : x[i] = [fork |-> TRUE, name |-> Front(g)]
    BY <2>2 DEF Level
  <2>4. PICK k \in 1 .. Len(s[Front(g)]) : s[Front(g)][k] = [fork |-> TRUE, name |-> g]
    BY <2>1 DEF Tree
  <2>5. ss[i] = s[Front(g)]
    BY <1>4, <2>3
  <2> QED
    BY <1>11, <2>4, <2>5
<1>15. Level(n + 1, y, F, E, s)
  BY <1>7a, <1>12, <1>13, <1>14 DEF Level
<1>16. Expansion(x, ss, n, F, E, s)
  BY <1>2, <1>3, <1>4, <1>6, <1>9 DEF Expansion
<1> QED
  BY <1>15, <1>16 DEF ss, y

(* An order in which every section is, and which holds of a section where  *)
(* it holds of its fork, is kept by expanding.                             *)
LEMMA ExpandedInRow ==
  ASSUME NEW F, NEW X, NEW s, NEW n \in Nat, NEW x, NEW R, NEW b \in Nat, NEW E,
         E = EntriesOf(F, X),
         Tree(F, E, s), Level(n, x, F, E, s),
         Orders(R, F, s), InRow(x, R, s, b),
         \A k \in 1 .. b : s[<<>>][k].fork = FALSE
  PROVE  InRow(FlattenSeq(Expanded(x, s)), R, s, b)
<1> DEFINE ss == Expanded(x, s)
           y == FlattenSeq(ss)
<1>0. Expansion(x, ss, n, F, E, s)
  BY ExpandedLevel
<1> HIDE DEF ss, y
<1>1. /\ ss \in Seq(Seq(E)) /\ Len(ss) = Len(x)
      /\ \A i \in 1 .. Len(x) :
              /\ x[i] \in E /\ x[i].fork \in BOOLEAN
              /\ x[i].fork = TRUE => /\ x[i] = [fork |-> TRUE, name |-> x[i].name]
                                     /\ x[i].name \in F
                                     /\ ss[i] = s[x[i].name]
              /\ x[i].fork = FALSE => ss[i] = <<x[i]>> /\ Len(<<x[i]>>) = 1 /\ <<x[i]>>[1] = x[i]
  BY <1>0 DEF Expansion
<1>2. PICK start : Starts(start, ss, y)
  BY <1>1, FlattenPositions DEF y
<1>3. x \in Seq(E) /\ Len(x) \in Nat
  BY LenProperties DEF Level
<1>4. \A f \in F : s[f] \in Seq(E) /\ Len(s[f]) \in Nat
  BY LenProperties DEF Tree
<1>4a. \A i \in 1 .. Len(x) : Len(ss[i]) \in Nat
  BY <1>1, <1>4
<1> HIDE DEF ss, y
<1>5. ASSUME NEW i \in 1 .. Len(x), NEW k \in 1 .. Len(ss[i]), NEW e
      PROVE  /\ <<x[i], e>> \in R => <<ss[i][k], e>> \in R
             /\ <<e, x[i]>> \in R => <<e, ss[i][k]>> \in R
  <2>1. CASE x[i].fork = TRUE
    BY <1>1, <2>1 DEF Orders
  <2>2. CASE x[i].fork = FALSE
    <3>0. ss[i] = <<x[i]>> /\ Len(<<x[i]>>) = 1 /\ <<x[i]>>[1] = x[i]
      BY <1>1, <2>2
    <3>1. ss[i][k] = x[i]
      BY <3>0
    <3> QED
      BY <3>1
  <2> QED
    BY <1>1, <2>1, <2>2
<1>6. \A m \in 1 .. Len(y) : \E i \in 1 .. Len(x) : \E k \in 1 .. Len(ss[i]) :
         m = start[i] + k /\ y[m] = ss[i][k]
  <2> SUFFICES ASSUME NEW m \in 1 .. Len(y)
               PROVE  \E i \in 1 .. Len(x) : \E k \in 1 .. Len(ss[i]) :
                        m = start[i] + k /\ y[m] = ss[i][k]
    OBVIOUS
  <2>1. PICK i \in 1 .. Len(x) : \E k \in 1 .. Len(ss[i]) : m = start[i] + k
    BY <1>1, <1>2 DEF Starts
  <2>2. PICK k \in 1 .. Len(ss[i]) : m = start[i] + k
    BY <2>1
  <2>3. y[start[i] + k] = ss[i][k]
    BY <1>1, <1>2 DEF Starts
  <2> QED
    BY <2>2, <2>3
<1>7. \A i, j \in 1 .. Len(x) : i < j => start[i] + Len(ss[i]) <= start[j]
  BY <1>1, <1>2 DEF Starts
<1>8. \A i \in 1 .. Len(x) : start[i] \in Nat
  BY <1>1, <1>2 DEF Starts
<1>9. ASSUME NEW m \in 1 .. Len(y), NEW l \in 1 .. Len(y), m < l
      PROVE  <<y[m], y[l]>> \in R
  <2>1a. PICK i \in 1 .. Len(x) : \E k \in 1 .. Len(ss[i]) : m = start[i] + k /\ y[m] = ss[i][k]
    BY <1>6
  <2>1. PICK k \in 1 .. Len(ss[i]) : m = start[i] + k /\ y[m] = ss[i][k]
    BY <2>1a
  <2>2a. PICK j \in 1 .. Len(x) : \E h \in 1 .. Len(ss[j]) : l = start[j] + h /\ y[l] = ss[j][h]
    BY <1>6
  <2>2. PICK h \in 1 .. Len(ss[j]) : l = start[j] + h /\ y[l] = ss[j][h]
    BY <2>2a
  <2>3. start[i] \in Nat /\ start[j] \in Nat /\ Len(ss[i]) \in Nat /\ Len(ss[j]) \in Nat
    BY <1>8, <1>4a
  <2>4. CASE i < j
    <3>1. <<x[i], x[j]>> \in R
      BY <2>4 DEF InRow
    <3>2. <<ss[i][k], x[j]>> \in R
      BY <3>1, <1>5
    <3>3. <<ss[i][k], ss[j][h]>> \in R
      BY <3>2, <1>5
    <3> QED
      BY <3>3, <2>1, <2>2
  <2>5. CASE i = j
    <3>1. k < h
      BY <2>1, <2>2, <2>3, <2>5, <1>9
    <3>2. x[i].fork = TRUE
      <4> SUFFICES ASSUME x[i].fork = FALSE  PROVE FALSE
        <5>1. x[i].fork \in BOOLEAN
          BY <1>1
        <5> QED
          BY <5>1
      <4>1. Len(ss[i]) = 1
        BY <1>1
      <4>2. k \in 1 .. 1 /\ h \in 1 .. 1
        BY <4>1, <2>5
      <4> QED
        BY <4>2, <3>1
    <3>3. ss[i] = s[x[i].name] /\ x[i].name \in F
      BY <1>1, <3>2
    <3> QED
      BY <3>1, <3>3, <2>1, <2>2, <2>5 DEF Orders
  <2>6. CASE j < i
    <3>1. start[j] + Len(ss[j]) <= start[i]
      BY <1>7, <2>6
    <3>2. k \in Nat /\ k >= 1 /\ h \in Nat /\ h <= Len(ss[j])
      BY <2>3
    <3>3. l <= m
      <4> DEFINE L == Len(ss[j])
                 u == start[i]
                 v == start[j]
      <4>1. u \in Nat /\ v \in Nat /\ L \in Nat /\ v + L <= u /\ m = u + k /\ l = v + h /\ h <= L
        BY <3>1, <3>2, <2>1, <2>2, <2>3
      <4> HIDE DEF L, u, v
      <4> QED
        BY <4>1, <3>2
    <3> QED
      BY <3>3, <1>9
  <2> QED
    BY <2>4, <2>5, <2>6, <1>3
<1>10. ASSUME NEW k \in 1 .. b
       PROVE  k \in 1 .. Len(x) /\ ss[k] = <<x[k]>> /\ Len(ss[k]) = 1 /\ x[k] = s[<<>>][k] /\ ss[k][1] = x[k]
  <2>1. k \in 1 .. Len(x) /\ x[k] = s[<<>>][k]
    BY <1>3 DEF InRow
  <2>2. x[k].fork = FALSE
    BY <2>1
  <2> QED
    BY <1>1, <2>1, <2>2
<1>11. \A k \in 1 .. b : start[k] = k - 1
  <2> DEFINE P == {k \in Nat : k + 1 \in 1 .. b => start[k + 1] = k}
  <2>0. \A i \in 1 .. Len(x) : start[i] = IF i = 1 THEN 0 ELSE start[i - 1] + Len(ss[i - 1])
    BY <1>1, <1>2 DEF Starts
  <2>1. 0 \in P
    BY <2>0, <1>10
  <2>2. ASSUME NEW k \in P \cap Nat  PROVE k + 1 \in P
    <3> SUFFICES ASSUME (k + 1) + 1 \in 1 .. b  PROVE start[(k + 1) + 1] = k + 1
      OBVIOUS
    <3>1. k + 1 \in 1 .. b /\ ((k + 1) + 1) - 1 = k + 1 /\ (k + 1) + 1 # 1
      OBVIOUS
    <3>2. start[k + 1] = k
      BY <3>1
    <3>3. Len(ss[k + 1]) = 1 /\ (k + 1) + 1 \in 1 .. Len(x)
      BY <3>1, <1>10
    <3> QED
      BY <3>1, <3>2, <3>3, <2>0
  <2>3. Nat \subseteq P
    <3> HIDE DEF P
    <3> QED
      BY <2>1, <2>2, NatInduct
  <2>4. ASSUME NEW k \in 1 .. b  PROVE start[k] = k - 1
    <3>1. k - 1 \in Nat /\ (k - 1) + 1 = k
      OBVIOUS
    <3>2. k - 1 \in P
      BY <2>3, <3>1
    <3> QED
      BY <3>1, <3>2
  <2> QED
    BY <2>4
<1>12. ASSUME NEW k \in 1 .. b  PROVE k \in 1 .. Len(y) /\ y[k] = s[<<>>][k]
  <2>1. start[k] + 1 \in 1 .. Len(y) /\ y[start[k] + 1] = ss[k][1]
    BY <1>10, <1>1, <1>2 DEF Starts
  <2>2. start[k] + 1 = k
    BY <1>11
  <2> QED
    BY <2>1, <2>2, <1>10
<1>13. b <= Len(y)
  <2>1. CASE b = 0
    <3>1. Len(y) \in Nat
      BY <1>1, FlattenPositions, LenProperties DEF y
    <3> QED
      BY <2>1, <3>1
  <2>2. CASE b > 0
    <3>1. b \in 1 .. b
      BY <2>2
    <3>2. b \in 1 .. Len(y)
      BY <3>1, <1>12
    <3> QED
      BY <3>2
  <2> QED
    BY <2>1, <2>2
<1>14. ASSUME NEW m \in b + 1 .. Len(y)
       PROVE  \E f \in DOMAIN s : \E k \in 1 .. Len(s[f]) : (f = <<>> => k > b) /\ y[m] = s[f][k]
  <2>0. m \in 1 .. Len(y) /\ m > b
    <3>1. Len(y) \in Nat
      BY <1>1, FlattenPositions, LenProperties DEF y
    <3> QED
      BY <3>1
  <2>1a. PICK i \in 1 .. Len(x) : \E k \in 1 .. Len(ss[i]) : m = start[i] + k /\ y[m] = ss[i][k]
    BY <1>6, <2>0
  <2>1. PICK k \in 1 .. Len(ss[i]) : m = start[i] + k /\ y[m] = ss[i][k]
    BY <2>1a
  <2>2. i \in b + 1 .. Len(x)
    <3> SUFFICES ASSUME i \in 1 .. b  PROVE FALSE
      BY <1>3
    <3>1. start[i] = i - 1 /\ Len(ss[i]) = 1
      BY <1>10, <1>11
    <3>2. k = 1
      BY <3>1
    <3> QED
      BY <2>0, <2>1, <3>1, <3>2
  <2>3. CASE x[i].fork = TRUE
    <3>1. ss[i] = s[x[i].name] /\ x[i].name \in F /\ Len(x[i].name) = n + 1
      BY <1>0, <2>3 DEF Expansion
    <3>2. x[i].name # <<>> /\ DOMAIN s = F
      <4>1. Len(<<>>) = 0 /\ n + 1 # 0
        OBVIOUS
      <4> QED
        BY <3>1, <4>1 DEF Tree
    <3> QED
      BY <2>1, <3>1, <3>2
  <2>4. CASE x[i].fork = FALSE
    <3>0. ss[i] = <<x[i]>> /\ Len(<<x[i]>>) = 1 /\ <<x[i]>>[1] = x[i]
      BY <1>1, <2>4
    <3>1. y[m] = x[i]
      <4>1. k = 1
        BY <3>0
      <4> QED
        BY <2>1, <3>0, <4>1
    <3> QED
      BY <2>2, <3>1 DEF InRow
  <2>5. x[i].fork \in BOOLEAN
    BY <1>1
  <2> QED
    BY <2>3, <2>4, <2>5
<1> QED
  BY <1>9, <1>12, <1>13, <1>14 DEF InRow, y, ss

(***************************************************************************)
(* Names                                                                   *)
(***************************************************************************)

(* What names are made of. *)
LEMMA NameParts ==
  \A p \in Name : Len(p) \in Nat /\ (\A j \in 1 .. Len(p) : p[j] \in Nat)
<1> SUFFICES ASSUME NEW p \in Name  PROVE Len(p) \in Nat /\ (\A j \in 1 .. Len(p) : p[j] \in Nat)
  OBVIOUS
<1>1. Len(p) \in Nat
  BY LenProperties DEF Name
<1>2. \A j \in 1 .. Len(p) : p[j] \in Nat
  BY ElementOfSeq DEF Name
<1> QED
  BY <1>1, <1>2

(* Names are equal when all their parts are. *)
LEMMA SameName ==
  ASSUME NEW p \in Name, NEW q \in Name, Len(p) = Len(q), \A j \in 1 .. Len(p) : p[j] = q[j]
  PROVE  p = q
BY SeqEqual DEF Name

(* The name of what the code with path f adds. *)
LEMMA AppendedName ==
  ASSUME NEW f \in Name, NEW c \in Nat
  PROVE  /\ Append(f, c) \in Name /\ Len(Append(f, c)) = Len(f) + 1
         /\ \A j \in 1 .. Len(f) : Append(f, c)[j] = f[j]
         /\ Append(f, c)[Len(f) + 1] = c
         /\ Append(f, c) # <<>> /\ Front(Append(f, c)) = f /\ Last(Append(f, c)) = c
         /\ Inside(Append(f, c), f)
<1>1. /\ Append(f, c) \in Name /\ Len(Append(f, c)) = Len(f) + 1
      /\ \A j \in 1 .. Len(f) : Append(f, c)[j] = f[j]
      /\ Append(f, c)[Len(f) + 1] = c
  BY AppendProperties DEF Name
<1>2. Len(f) \in Nat
  BY NameParts
<1>3. Append(f, c) # <<>>
  <2>1. Len(<<>>) = 0
    OBVIOUS
  <2> QED
    BY <1>1, <1>2, <2>1
<1>4. Last(Append(f, c)) = c
  BY <1>1 DEF Last
<1>5. Inside(Append(f, c), f)
  BY <1>1, <1>2 DEF Inside
<1>6. Front(Append(f, c)) = f
  <2> DEFINE a == Append(f, c)
             n == Len(f)
  <2>1. /\ SubSeq(a, 1, n) \in Seq(Nat) /\ Len(SubSeq(a, 1, n)) = IF 1 <= n THEN n - 1 + 1 ELSE 0
        /\ \A i \in 1 .. n - 1 + 1 : SubSeq(a, 1, n)[i] = a[1 + i - 1]
    <3>1. \A i \in 1 .. n : a[i] \in Nat
      BY <1>1, NameParts
    <3>2. 1 \in Int /\ n \in Int
      BY <1>2
    <3> HIDE DEF a, n
    <3> QED
      BY <3>1, <3>2, SubSeqProperties
  <2>2. Front(a) = SubSeq(a, 1, n)
    <3>1. Len(a) - 1 = n
      BY <1>1, <1>2
    <3> HIDE DEF a, n
    <3> QED
      BY <3>1 DEF Front
  <2>3. \A i \in 1 .. n : a[i] = f[i]
    BY <1>1
  <2>4. n \in Nat
    BY <1>2
  <2>5. Len(f) = n
    OBVIOUS
  <2> HIDE DEF a, n
  <2>6. Len(SubSeq(a, 1, n)) = n /\ \A i \in 1 .. n : SubSeq(a, 1, n)[i] = f[i]
    <3>1. \A i \in 1 .. n : 1 + i - 1 = i /\ i \in 1 .. n - 1 + 1
      BY <2>4
    <3> QED
      BY <2>1, <2>3, <2>4, <3>1
  <2>7. SubSeq(a, 1, n) = f
    BY <2>1, <2>5, <2>6, SameName DEF Name
  <2> QED
    BY <2>2, <2>7 DEF a
<1> QED
  BY <1>1, <1>3, <1>4, <1>5, <1>6

(* A name is its path with one more number. *)
LEMMA FrontName ==
  ASSUME NEW p \in Name, p # <<>>
  PROVE  /\ Front(p) \in Name /\ Len(p) = Len(Front(p)) + 1 /\ Last(p) = p[Len(p)] /\ Last(p) \in Nat
         /\ \A j \in 1 .. Len(Front(p)) : Front(p)[j] = p[j]
         /\ p = Append(Front(p), Last(p)) /\ Inside(p, Front(p))
<1> DEFINE n == Len(p)
<1>1. n \in Nat /\ n > 0 /\ \A j \in 1 .. n : p[j] \in Nat
  BY NameParts, EmptySeq DEF Name
<1>2. Len(p) = n
  OBVIOUS
<1> HIDE DEF n
<1>3. /\ Front(p) \in Seq(Nat) /\ Len(Front(p)) = IF 1 <= n - 1 THEN n - 1 - 1 + 1 ELSE 0
      /\ \A i \in 1 .. n - 1 - 1 + 1 : Front(p)[i] = p[1 + i - 1]
  <2>1. 1 \in Int /\ n - 1 \in Int /\ \A i \in 1 .. n - 1 : p[i] \in Nat
    BY <1>1
  <2> QED
    BY <1>2, <2>1, SubSeqProperties DEF Front
<1>4. Len(Front(p)) = n - 1 /\ \A j \in 1 .. n - 1 : Front(p)[j] = p[j]
  <2>1. \A j \in 1 .. n - 1 : 1 + j - 1 = j /\ j \in 1 .. n - 1 - 1 + 1
    BY <1>1
  <2> QED
    BY <1>1, <1>3, <2>1
<1>5. Last(p) = p[n] /\ n \in 1 .. n /\ (n - 1) + 1 = n
  BY <1>1, <1>2 DEF Last
<1>6. Last(p) \in Nat /\ Front(p) \in Name
  BY <1>1, <1>3, <1>5 DEF Name
<1>7. p = Append(Front(p), Last(p))
  <2> DEFINE a == Append(Front(p), Last(p))
  <2>1. a \in Name /\ Len(a) = Len(Front(p)) + 1 /\ (\A j \in 1 .. Len(Front(p)) : a[j] = Front(p)[j])
        /\ a[Len(Front(p)) + 1] = Last(p)
    BY <1>6, AppendedName
  <2> HIDE DEF a
  <2>2. Len(a) = n /\ \A j \in 1 .. n : a[j] = p[j]
    <3>1. \A j \in 1 .. n : j = n \/ j \in 1 .. n - 1
      BY <1>1
    <3> QED
      BY <1>1, <1>4, <1>5, <2>1, <3>1
  <2> QED
    BY <1>2, <2>1, <2>2, SameName DEF a
<1>8. Inside(p, Front(p))
  BY <1>1, <1>2, <1>4 DEF Inside
<1> QED
  BY <1>1, <1>2, <1>4, <1>5, <1>6, <1>7, <1>8

(* Less orders names that differ at some place, in one direction. *)
LEMMA LessOnce ==
  ASSUME NEW p \in Name, NEW q \in Name, Less(p, q)
  PROVE  ~Less(q, p) /\ ~Inside(p, q) /\ ~Inside(q, p) /\ p # q
<1>1. PICK k \in 1 .. Len(p) : /\ k \in 1 .. Len(q)
                               /\ \A j \in 1 .. k - 1 : p[j] = q[j]
                               /\ p[k] < q[k]
  BY DEF Less
<1>2. p[k] \in Nat /\ q[k] \in Nat /\ Len(p) \in Nat /\ Len(q) \in Nat
  BY <1>1, NameParts
<1>3. ~Inside(p, q) /\ ~Inside(q, p) /\ p # q
  BY <1>1, <1>2 DEF Inside
<1>4. ASSUME Less(q, p)  PROVE FALSE
  <2>1. PICK l \in 1 .. Len(q) : /\ l \in 1 .. Len(p)
                                 /\ \A j \in 1 .. l - 1 : q[j] = p[j]
                                 /\ q[l] < p[l]
    BY <1>4 DEF Less
  <2>2. p[l] \in Nat /\ q[l] \in Nat
    BY <2>1, NameParts
  <2>3. k = l \/ k \in 1 .. l - 1 \/ l \in 1 .. k - 1
    BY <1>2
  <2> QED
    BY <1>1, <1>2, <2>1, <2>2, <2>3
<1> QED
  BY <1>3, <1>4

(* Less is transitive. *)
LEMMA LessTransitive ==
  ASSUME NEW p \in Name, NEW q \in Name, NEW r \in Name, Less(p, q), Less(q, r)
  PROVE  Less(p, r)
<1>1. PICK k \in 1 .. Len(p) : /\ k \in 1 .. Len(q)
                               /\ \A j \in 1 .. k - 1 : p[j] = q[j]
                               /\ p[k] < q[k]
  BY DEF Less
<1>2. PICK l \in 1 .. Len(q) : /\ l \in 1 .. Len(r)
                               /\ \A j \in 1 .. l - 1 : q[j] = r[j]
                               /\ q[l] < r[l]
  BY DEF Less
<1>3. Len(p) \in Nat /\ Len(q) \in Nat /\ Len(r) \in Nat /\ p[k] \in Nat /\ q[k] \in Nat /\ q[l] \in Nat /\ r[l] \in Nat
  BY <1>1, <1>2, NameParts
<1>4. CASE k <= l
  <2>1. k \in 1 .. Len(r) /\ r[k] \in Nat /\ \A j \in 1 .. k - 1 : j \in 1 .. l - 1
    BY <1>2, <1>3, <1>4, NameParts
  <2>2. \A j \in 1 .. k - 1 : p[j] = r[j]
    BY <1>1, <1>2, <2>1
  <2>3. q[k] <= r[k]
    <3>1. k = l \/ k \in 1 .. l - 1
      BY <1>4, <1>3
    <3> QED
      BY <1>2, <1>3, <3>1
  <2>4. p[k] < r[k]
    BY <1>1, <1>3, <2>1, <2>3
  <2> QED
    BY <2>1, <2>2, <2>4 DEF Less
<1>5. CASE l < k
  <2>1. l \in 1 .. Len(p) /\ l \in 1 .. k - 1 /\ \A j \in 1 .. l - 1 : j \in 1 .. k - 1
    BY <1>1, <1>3, <1>5
  <2>2. p[l] = q[l] /\ \A j \in 1 .. l - 1 : p[j] = r[j]
    BY <1>1, <1>2, <2>1
  <2> QED
    BY <1>2, <2>1, <2>2 DEF Less
<1> QED
  BY <1>3, <1>4, <1>5

(* So is Inside, which is never circular. *)
LEMMA InsideTransitive ==
  ASSUME NEW p \in Name, NEW q \in Name, NEW r \in Name, Inside(p, q), Inside(q, r)
  PROVE  Inside(p, r) /\ ~Inside(q, p) /\ ~Inside(p, p)
BY NameParts DEF Inside

(* What is inside two ordered names is ordered like these. *)
LEMMA LessInside ==
  ASSUME NEW p \in Name, NEW q \in Name, NEW x \in Name, Less(p, q)
  PROVE  (Inside(x, p) => Less(x, q)) /\ (Inside(x, q) => Less(p, x))
<1>1. PICK k \in 1 .. Len(p) : /\ k \in 1 .. Len(q)
                               /\ \A j \in 1 .. k - 1 : p[j] = q[j]
                               /\ p[k] < q[k]
  BY DEF Less
<1>2. Len(p) \in Nat /\ Len(q) \in Nat /\ Len(x) \in Nat
  BY NameParts
<1>3. \A j \in 1 .. k - 1 : j \in 1 .. Len(p) /\ j \in 1 .. Len(q)
  BY <1>1, <1>2
<1>4. ASSUME Inside(x, p)  PROVE Less(x, q)
  <2>1. k \in 1 .. Len(x) /\ x[k] = p[k] /\ \A j \in 1 .. k - 1 : x[j] = p[j]
    BY <1>2, <1>3, <1>4 DEF Inside
  <2> QED
    BY <1>1, <2>1 DEF Less
<1>5. ASSUME Inside(x, q)  PROVE Less(p, x)
  <2>1. k \in 1 .. Len(x) /\ x[k] = q[k] /\ \A j \in 1 .. k - 1 : x[j] = q[j]
    BY <1>1, <1>2, <1>3, <1>5 DEF Inside
  <2> QED
    BY <1>1, <2>1 DEF Less
<1> QED
  BY <1>4, <1>5

(* Post is a strict order. *)
LEMMA PostOrder ==
  ASSUME NEW p \in Name, NEW q \in Name, NEW r \in Name
  PROVE  /\ ~Post(p, p)
         /\ Post(p, q) => ~Post(q, p) /\ p # q
         /\ Post(p, q) /\ Post(q, r) => Post(p, r)
         /\ Post(p, q) /\ Less(q, r) => Less(p, r)
<1>1. ~Post(p, p) /\ (Post(p, q) => p # q)
  BY LessOnce, NameParts DEF Post, Inside
<1>2. ASSUME Post(p, q), Less(q, r)  PROVE Less(p, r)
  BY <1>2, LessTransitive, LessInside DEF Post
<1>3. ASSUME Post(p, q), Post(q, r)  PROVE Post(p, r)
  <2>1. CASE Less(q, r)
    BY <1>2, <1>3, <2>1 DEF Post
  <2>2. CASE Inside(q, r) /\ Inside(p, q)
    BY <2>2, InsideTransitive DEF Post
  <2>3. CASE Inside(q, r) /\ Less(p, q)
    <3> DEFINE l == Len(r)
    <3>1. PICK k \in 1 .. Len(p) : /\ k \in 1 .. Len(q)
                                   /\ \A j \in 1 .. k - 1 : p[j] = q[j]
                                   /\ p[k] < q[k]
      BY <2>3 DEF Less
    <3>2. Len(p) \in Nat /\ Len(q) \in Nat /\ Len(r) \in Nat /\ Len(r) < Len(q) /\ \A j \in 1 .. Len(r) : q[j] = r[j]
      BY <2>3, NameParts DEF Inside
    <3>3. CASE k <= Len(r)
      <4>1. k \in 1 .. Len(r) /\ \A j \in 1 .. k - 1 : j \in 1 .. Len(r)
        BY <3>2, <3>3
      <4>2. p[k] < r[k] /\ \A j \in 1 .. k - 1 : p[j] = r[j]
        BY <3>1, <3>2, <4>1
      <4> QED
        BY <4>1, <4>2 DEF Post, Less
    <3>4. CASE k > Len(r)
      <4>1. Len(r) < Len(p) /\ \A j \in 1 .. Len(r) : j \in 1 .. k - 1
        BY <3>2, <3>4
      <4> QED
        BY <3>1, <3>2, <4>1 DEF Post, Inside
    <3> QED
      BY <3>2, <3>3, <3>4
  <2> QED
    BY <1>3, <2>1, <2>2, <2>3 DEF Post
<1>4. ASSUME Post(p, q), Post(q, p)  PROVE FALSE
  <2>1. CASE Less(p, q)
    BY <1>4, <2>1, LessOnce DEF Post
  <2>2. CASE Less(q, p)
    BY <1>4, <2>2, LessOnce DEF Post
  <2>3. CASE Inside(p, q) /\ Inside(q, p)
    BY <2>3, NameParts DEF Inside
  <2> QED
    BY <1>4, <2>1, <2>2, <2>3 DEF Post
<1> QED
  BY <1>1, <1>2, <1>3, <1>4

(* Names appended to a path, compared with others. *)
LEMMA LessAppend ==
  ASSUME NEW f \in Name, NEW x \in Name, NEW j \in Nat, NEW k \in Nat
  PROVE  /\ j < k => Less(Append(f, j), Append(f, k))
         /\ Less(x, Append(f, j)) => Less(x, f) \/ (Inside(x, f) /\ x[Len(f) + 1] < j)
         /\ Less(x, f) => Less(x, Append(f, j))
         /\ Inside(x, f) /\ x[Len(f) + 1] < k => Less(x, Append(f, k))
         /\ Inside(x, f) => x[Len(f) + 1] \in Nat
<1>1. /\ Append(f, j) \in Name /\ Len(Append(f, j)) = Len(f) + 1
      /\ \A i \in 1 .. Len(f) : Append(f, j)[i] = f[i]
      /\ Append(f, j)[Len(f) + 1] = j /\ Inside(Append(f, j), f)
  BY AppendedName
<1>2. /\ Append(f, k) \in Name /\ Len(Append(f, k)) = Len(f) + 1
      /\ \A i \in 1 .. Len(f) : Append(f, k)[i] = f[i]
      /\ Append(f, k)[Len(f) + 1] = k
  BY AppendedName
<1>3. Len(f) \in Nat /\ Len(x) \in Nat
  BY NameParts
<1> DEFINE a == Append(f, j)
           c == Append(f, k)
           n == Len(f)
<1>4. a \in Name /\ c \in Name /\ Len(a) = n + 1 /\ Len(c) = n + 1 /\ (\A i \in 1 .. n : a[i] = f[i] /\ c[i] = f[i])
      /\ a[n + 1] = j /\ c[n + 1] = k /\ n = Len(f) /\ n \in Nat
  BY <1>1, <1>2, <1>3
<1>5. Inside(a, f)
  BY <1>1
<1> HIDE DEF a, c, n
<1>6. n + 1 \in 1 .. n + 1 /\ \A i \in 1 .. (n + 1) - 1 : i \in 1 .. n
  BY <1>4
<1>7. j < k => Less(a, c)
  BY <1>4, <1>6 DEF Less
<1>8. Less(x, f) => Less(x, a)
  BY <1>4, <1>5, LessInside
<1>9. ASSUME Inside(x, f)  PROVE x[n + 1] \in Nat /\ (x[n + 1] < k => Less(x, c))
  <2>1. n + 1 \in 1 .. Len(x) /\ \A i \in 1 .. n : x[i] = f[i]
    BY <1>3, <1>4, <1>9 DEF Inside
  <2> QED
    BY <1>4, <1>6, <2>1, NameParts DEF Less
<1>10. ASSUME Less(x, a)  PROVE Less(x, f) \/ (Inside(x, f) /\ x[n + 1] < j)
  <2>1. PICK i \in 1 .. Len(x) : /\ i \in 1 .. Len(a)
                                 /\ \A h \in 1 .. i - 1 : x[h] = a[h]
                                 /\ x[i] < a[i]
    BY <1>10 DEF Less
  <2>2. CASE i = n + 1
    <3>1. Inside(x, f)
      BY <1>3, <1>4, <1>6, <2>1, <2>2 DEF Inside
    <3> QED
      BY <1>4, <2>1, <2>2, <3>1
  <2>3. CASE i \in 1 .. n
    <3>1. \A h \in 1 .. i - 1 : h \in 1 .. n
      BY <1>4, <2>3
    <3> QED
      BY <1>4, <2>1, <2>3, <3>1 DEF Less
  <2> QED
    BY <1>4, <2>1, <2>2, <2>3
<1> QED
  BY <1>4, <1>7, <1>8, <1>9, <1>10 DEF a, c, n

(* The first number decides. *)
LEMMA FirstLess ==
  ASSUME NEW x \in Name, NEW y \in Name, x # <<>>, y # <<>>, x[1] < y[1]
  PROVE  Less(x, y)
<1>1. Len(x) \in Nat \ {0} /\ Len(y) \in Nat \ {0}
  BY EmptySeq DEF Name
<1>2. 1 \in 1 .. Len(x) /\ 1 \in 1 .. Len(y) /\ \A j \in 1 .. 1 - 1 : FALSE
  BY <1>1
<1> QED
  BY <1>2 DEF Less

(***************************************************************************)
(* The rows of the tree                                                    *)
(***************************************************************************)

(* The paths of the tree are closed under prefixes. *)
LEMMA PrefixInTree ==
  ASSUME NEW F, NEW E, NEW s, Tree(F, E, s), NEW f \in F, NEW x \in Name, Inside(f, x)
  PROVE  x \in F
<1> DEFINE P == {n \in Nat : \A g \in F : Inside(g, x) /\ Len(g) = Len(x) + n + 1 => x \in F}
<1>1. \A g \in F : g \in Name /\ (g # <<>> => Front(g) \in F)
  BY DEF Tree, Name
<1>2. Len(x) \in Nat
  BY NameParts
<1>3. ASSUME NEW g \in F, NEW n \in Nat, Inside(g, x), Len(g) = Len(x) + n + 1
      PROVE  /\ Front(g) \in F /\ Front(g) \in Name /\ Len(Front(g)) = Len(x) + n
             /\ \A j \in 1 .. Len(x) : Front(g)[j] = x[j]
  <2>1. g \in Name /\ g # <<>>
    <3>1. Len(<<>>) = 0
      OBVIOUS
    <3> QED
      BY <1>1, <1>2, <1>3, <3>1
  <2>2. Front(g) \in Name /\ Len(g) = Len(Front(g)) + 1 /\ \A j \in 1 .. Len(Front(g)) : Front(g)[j] = g[j]
    BY <2>1, FrontName
  <2>3. Len(Front(g)) \in Nat
    BY <2>2, NameParts
  <2>4. Len(Front(g)) = Len(x) + n /\ \A j \in 1 .. Len(x) : j \in 1 .. Len(Front(g)) /\ g[j] = x[j]
    BY <1>2, <1>3, <2>2, <2>3 DEF Inside
  <2> QED
    BY <1>1, <2>1, <2>2, <2>4
<1>4. 0 \in P
  <2> SUFFICES ASSUME NEW g \in F, Inside(g, x), Len(g) = Len(x) + 0 + 1  PROVE x \in F
    OBVIOUS
  <2>1. Front(g) \in F /\ Front(g) \in Name /\ Len(Front(g)) = Len(x) + 0
        /\ \A j \in 1 .. Len(x) : Front(g)[j] = x[j]
    BY <1>3
  <2>2. Front(g) = x
    BY <1>2, <2>1, SameName
  <2> QED
    BY <2>1, <2>2
<1>5. ASSUME NEW n \in P \cap Nat  PROVE n + 1 \in P
  <2> SUFFICES ASSUME NEW g \in F, Inside(g, x), Len(g) = Len(x) + (n + 1) + 1  PROVE x \in F
    OBVIOUS
  <2>0. n + 1 \in Nat
    OBVIOUS
  <2>1. Front(g) \in F /\ Len(Front(g)) = Len(x) + (n + 1) /\ \A j \in 1 .. Len(x) : Front(g)[j] = x[j]
    BY <2>0, <1>3
  <2>2. Inside(Front(g), x) /\ Len(Front(g)) = Len(x) + n + 1
    BY <1>2, <2>1 DEF Inside
  <2> QED
    BY <2>1, <2>2
<1>6. Nat \subseteq P
  <2> HIDE DEF P
  <2> QED
    BY <1>4, <1>5, NatInduct
<1>7. PICK n \in Nat : Len(f) = Len(x) + n + 1
  <2>1. Len(f) \in Nat /\ Len(x) < Len(f)
    BY <1>1, NameParts DEF Inside
  <2>2. Len(f) - Len(x) - 1 \in Nat /\ Len(f) = Len(x) + (Len(f) - Len(x) - 1) + 1
    BY <1>2, <2>1
  <2> QED
    BY <2>2
<1> QED
  BY <1>6, <1>7

(* A path of the tree is no longer than the tree has paths. *)
LEMMA Depth ==
  ASSUME NEW F, NEW E, NEW s, Tree(F, E, s), IsFiniteSet(F), NEW f \in F
  PROVE  Len(f) < Cardinality(F) /\ Cardinality(F) \in Nat
<1> DEFINE N == Len(f)
           pre(m) == SubSeq(f, 1, m)
           g == [m \in 0 .. N |-> pre(m)]
<1>1. f \in Name /\ N \in Nat
  BY NameParts DEF Tree, Name
<1>2. ASSUME NEW m \in 0 .. N
      PROVE  pre(m) \in Name /\ Len(pre(m)) = m /\ \A j \in 1 .. m : pre(m)[j] = f[j]
  <2>1. 1 \in Int /\ m \in Int /\ m \in Nat /\ \A j \in 1 .. m : f[j] \in Nat
    BY <1>1, NameParts
  <2>2. /\ pre(m) \in Seq(Nat) /\ Len(pre(m)) = IF 1 <= m THEN m - 1 + 1 ELSE 0
        /\ \A i \in 1 .. m - 1 + 1 : pre(m)[i] = f[1 + i - 1]
    BY <2>1, SubSeqProperties
  <2>3. \A j \in 1 .. m : 1 + j - 1 = j /\ j \in 1 .. m - 1 + 1
    BY <2>1
  <2>4. Len(pre(m)) = m
    BY <2>1, <2>2
  <2> QED
    BY <2>2, <2>3, <2>4 DEF Name
<1>3. ASSUME NEW m \in 0 .. N  PROVE pre(m) \in F
  <2>1. CASE m = N
    <3>1. pre(m) = f
      BY <1>1, <1>2, <2>1, SameName
    <3> QED
      BY <3>1
  <2>2. CASE m # N
    <3>1. Inside(f, pre(m))
      <4>1. Len(pre(m)) = m /\ (\A j \in 1 .. m : pre(m)[j] = f[j]) /\ m < Len(f)
        BY <1>1, <1>2, <2>2
      <4> HIDE DEF pre, N
      <4> QED
        BY <4>1 DEF Inside
    <3>2. pre(m) \in Name
      BY <1>2
    <3> HIDE DEF pre
    <3> QED
      BY <3>1, <3>2, PrefixInTree
  <2> QED
    BY <2>1, <2>2
<1>4. g \in Injection(0 .. N, F)
  <2>1. g \in [0 .. N -> F]
    BY <1>3
  <2>2. \A a, b \in 0 .. N : g[a] = g[b] => a = b
    <3>1. \A a \in 0 .. N : g[a] = pre(a) /\ Len(pre(a)) = a
      BY <1>2
    <3> HIDE DEF g, pre, N
    <3> QED
      BY <3>1
  <2>3. DOMAIN g = 0 .. N
    OBVIOUS
  <2> HIDE DEF g, N
  <2> QED
    BY <2>1, <2>2, <2>3 DEF Injection, IsInjective
<1>5. Cardinality(0 .. N) <= Cardinality(F)
  <2> HIDE DEF g, N
  <2> QED
    BY <1>4, FS_Injection
<1>6. Cardinality(0 .. N) = N + 1
  <2>1. 0 \in Int /\ N \in Int /\ ~(0 > N) /\ N - 0 + 1 = N + 1
    BY <1>1
  <2> HIDE DEF N
  <2> QED
    BY <2>1, FS_Interval
<1>7. Cardinality(F) \in Nat
  BY FS_CardinalityType
<1>8. N + 1 <= Cardinality(F)
  BY <1>5, <1>6
<1> HIDE DEF N
<1>9. N < Cardinality(F)
  BY <1>1, <1>7, <1>8
<1> QED
  BY <1>7, <1>9 DEF N

(* All that is in the sections, without the forks. *)
Leaves(x, F, E, s) ==
  /\ x \in Seq(E)
  /\ \A i \in 1 .. Len(x) : x[i].fork = FALSE /\ \E f \in F : \E k \in 1 .. Len(s[f]) : s[f][k] = x[i]
  /\ \A f \in F : \A k \in 1 .. Len(s[f]) : s[f][k].fork = FALSE => \E i \in 1 .. Len(x) : x[i] = s[f][k]

(* The rows of the tree, level by level. *)
Rows(w, s) == w[0] = s[<<>>] /\ \A n \in Nat : w[n + 1] = FlattenSeq(Expanded(w[n], s))

(* After as many rows as there are forks none is left, and the leaves are  *)
(* in order.                                                               *)
LEMMA FlattenedRow ==
  ASSUME NEW F, NEW X, NEW E, E = EntriesOf(F, X), NEW s, NEW w, NEW R, NEW b \in Nat,
         Tree(F, E, s), IsFiniteSet(F), Orders(R, F, s), Rows(w, s),
         b <= Len(s[<<>>]), \A k \in 1 .. b : s[<<>>][k].fork = FALSE
  PROVE  Leaves(w[Cardinality(F)], F, E, s) /\ InRow(w[Cardinality(F)], R, s, b)
<1> DEFINE P == {n \in Nat : Level(n, w[n], F, E, s) /\ InRow(w[n], R, s, b)}
<1>1. \A f \in F : f \in Name /\ s[f] \in Seq(E)
  BY DEF Tree, Name
<1>2. <<>> \in F /\ Len(<<>>) = 0
  BY DEF Tree
<1>3. \A e \in E : e.fork \in BOOLEAN
  <2> SUFFICES ASSUME NEW e \in EntriesOf(F, X)  PROVE e.fork \in BOOLEAN
    OBVIOUS
  <2> QED
    BY DEF EntriesOf
<1>4. 0 \in P
  <2>1. w[0] = s[<<>>] /\ w[0] \in Seq(E)
    BY <1>1, <1>2 DEF Rows
  <2>2. \A i \in 1 .. Len(w[0]) : /\ w[0][i].fork = TRUE => w[0][i].name \in F /\ Len(w[0][i].name) = 0 + 1
                                  /\ w[0][i].fork = FALSE => \E f \in F : \E k \in 1 .. Len(s[f]) : s[f][k] = w[0][i]
    <3> SUFFICES ASSUME NEW i \in 1 .. Len(s[<<>>])
                 PROVE  /\ s[<<>>][i].fork = TRUE => s[<<>>][i].name \in F /\ Len(s[<<>>][i].name) = 0 + 1
                        /\ \E f \in F : \E k \in 1 .. Len(s[f]) : s[f][k] = s[<<>>][i]
      BY <2>1
    <3>1. \E f \in F : \E k \in 1 .. Len(s[f]) : s[f][k] = s[<<>>][i]
      BY <1>2
    <3> QED
      BY <1>2, <3>1 DEF Tree
  <2>3. ASSUME NEW f \in F, NEW k \in 1 .. Len(s[f]), Len(f) <= 0
        PROVE  \E i \in 1 .. Len(w[0]) : w[0][i] = s[f][k]
    <3>1. f = <<>>
      BY <1>1, <2>3, EmptySeq, NameParts DEF Name
    <3> QED
      BY <2>1, <3>1
  <2>4. ASSUME NEW g \in F, Len(g) = 0 + 1
        PROVE  \E i \in 1 .. Len(w[0]) : w[0][i] = [fork |-> TRUE, name |-> g]
    <3>1. g \in Name /\ g # <<>>
      <4>1. g # <<>>
        BY <1>2, <2>4
      <4> QED
        BY <1>1, <4>1
    <3>2. Front(g) \in Name /\ Len(g) = Len(Front(g)) + 1
      BY <3>1, FrontName
    <3>3. Front(g) = <<>>
      <4>1. Len(Front(g)) = 0
        BY <2>4, <3>2, NameParts
      <4> QED
        BY <3>2, <4>1, EmptySeq DEF Name
    <3> QED
      BY <2>1, <3>1, <3>3 DEF Tree
  <2>5. Level(0, w[0], F, E, s)
    BY <2>1, <2>2, <2>3, <2>4 DEF Level
  <2>6. InRow(w[0], R, s, b)
    <3>1. DOMAIN s = F /\ Len(s[<<>>]) \in Nat
      BY <1>1, <1>2, LenProperties DEF Tree
    <3>2. \A i \in b + 1 .. Len(w[0]) : i \in 1 .. Len(s[<<>>]) /\ i > b
      BY <2>1, <3>1
    <3>3. \A i \in b + 1 .. Len(w[0]) : \E f \in DOMAIN s : \E k \in 1 .. Len(s[f]) :
            (f = <<>> => k > b) /\ w[0][i] = s[f][k]
      BY <1>2, <2>1, <3>1, <3>2
    <3> QED
      BY <1>2, <2>1, <3>3 DEF InRow, Orders
  <2> QED
    BY <2>5, <2>6
<1>5. ASSUME NEW n \in P \cap Nat  PROVE n + 1 \in P
  <2>1. Level(n, w[n], F, E, s) /\ InRow(w[n], R, s, b) /\ w[n + 1] = FlattenSeq(Expanded(w[n], s))
    BY DEF Rows
  <2>2. Level(n + 1, FlattenSeq(Expanded(w[n], s)), F, E, s)
    BY <2>1, ExpandedLevel
  <2>3. InRow(FlattenSeq(Expanded(w[n], s)), R, s, b)
    BY <2>1, ExpandedInRow
  <2> QED
    BY <2>1, <2>2, <2>3
<1>6. Nat \subseteq P
  <2> HIDE DEF P
  <2> QED
    BY <1>4, <1>5, NatInduct
<1> DEFINE N == Cardinality(F)
<1>7. N \in Nat /\ \A f \in F : Len(f) < N /\ Len(f) \in Nat
  BY <1>1, <1>2, Depth, NameParts
<1> HIDE DEF N
<1>8. Level(N, w[N], F, E, s) /\ InRow(w[N], R, s, b)
  BY <1>6, <1>7
<1>9. Leaves(w[N], F, E, s)
  <2>1. w[N] \in Seq(E)
    BY <1>8 DEF Level
  <2>2. ASSUME NEW i \in 1 .. Len(w[N])
        PROVE  w[N][i].fork = FALSE /\ \E f \in F : \E k \in 1 .. Len(s[f]) : s[f][k] = w[N][i]
    <3>1. w[N][i] \in E
      BY <2>1, ElementOfSeq
    <3>2. w[N][i].fork # TRUE
      <4> SUFFICES ASSUME w[N][i].fork = TRUE  PROVE FALSE
        OBVIOUS
      <4>1. w[N][i].name \in F /\ Len(w[N][i].name) = N + 1
        BY <1>8 DEF Level
      <4> QED
        BY <4>1, <1>7
    <3> QED
      BY <1>3, <1>8, <3>1, <3>2 DEF Level
  <2>3. ASSUME NEW f \in F, NEW k \in 1 .. Len(s[f]), s[f][k].fork = FALSE
        PROVE  \E i \in 1 .. Len(w[N]) : w[N][i] = s[f][k]
    <3>1. Len(f) <= N
      BY <1>7
    <3> QED
      BY <1>8, <2>3, <3>1 DEF Level
  <2> QED
    BY <2>1, <2>2, <2>3 DEF Leaves
<1> QED
  BY <1>8, <1>9 DEF N

(* Sequences that name the same things without repeating one are equally   *)
(* long; so they are when they repeat some in the same b first places.     *)
SameNames(u, m, v, n, b) ==
  /\ \A i, j \in b + 1 .. m : u[i] = u[j] => i = j
  /\ \A i, j \in b + 1 .. n : v[i] = v[j] => i = j
  /\ \A i \in b + 1 .. m : \E j \in b + 1 .. n : v[j] = u[i]
  /\ \A j \in b + 1 .. n : \E i \in b + 1 .. m : u[i] = v[j]

(* The lengths that #sortCommandsAndInputs compares are equal. *)
LEMMA SameLength ==
  ASSUME NEW b \in Nat, NEW m \in Nat, NEW n \in Nat, b <= m, b <= n, NEW u, NEW v,
         SameNames(u, m, v, n, b)
  PROVE  m = n
<1>0. /\ \A i, j \in b + 1 .. m : u[i] = u[j] => i = j
      /\ \A i, j \in b + 1 .. n : v[i] = v[j] => i = j
      /\ \A i \in b + 1 .. m : \E j \in b + 1 .. n : v[j] = u[i]
      /\ \A j \in b + 1 .. n : \E i \in b + 1 .. m : u[i] = v[j]
  BY DEF SameNames
<1> DEFINE f == [i \in b + 1 .. m |-> CHOOSE j \in b + 1 .. n : v[j] = u[i]]
<1>1. f \in [b + 1 .. m -> b + 1 .. n] /\ \A i \in b + 1 .. m : v[f[i]] = u[i]
  BY <1>0
<1>2. DOMAIN f = b + 1 .. m
  OBVIOUS
<1> HIDE DEF f
<1>3. f \in Injection(b + 1 .. m, b + 1 .. n)
  <2>1. \A i, j \in b + 1 .. m : f[i] = f[j] => i = j
    <3> SUFFICES ASSUME NEW i \in b + 1 .. m, NEW j \in b + 1 .. m, f[i] = f[j]  PROVE i = j
      OBVIOUS
    <3>1. u[i] = u[j]
      BY <1>1
    <3> QED
      BY <1>0, <3>1
  <2> QED
    BY <1>1, <1>2, <2>1 DEF Injection, IsInjective
<1>4. f \in Surjection(b + 1 .. m, b + 1 .. n)
  <2>1. ASSUME NEW j \in b + 1 .. n  PROVE \E i \in b + 1 .. m : f[i] = j
    <3>1. PICK i \in b + 1 .. m : u[i] = v[j]
      BY <1>0
    <3>2. v[f[i]] = v[j] /\ f[i] \in b + 1 .. n
      BY <1>1, <3>1
    <3> QED
      BY <1>0, <3>2
  <2> QED
    BY <1>1, <2>1 DEF Surjection
<1>5. f \in Bijection(b + 1 .. m, b + 1 .. n)
  BY <1>3, <1>4 DEF Bijection
<1>6. ExistsBijection(b + 1 .. m, b + 1 .. n)
  BY <1>5 DEF ExistsBijection
<1>7. \A k \in {m, n} : IsFiniteSet(b + 1 .. k) /\ Cardinality(b + 1 .. k) = k - b
  <2> SUFFICES ASSUME NEW k \in {m, n}  PROVE IsFiniteSet(b + 1 .. k) /\ Cardinality(b + 1 .. k) = k - b
    OBVIOUS
  <2>1. b + 1 \in Int /\ k \in Int /\ (IF b + 1 > k THEN 0 ELSE k - (b + 1) + 1) = k - b
    OBVIOUS
  <2> QED
    BY <2>1, FS_Interval
<1>8. Cardinality(b + 1 .. n) = Cardinality(b + 1 .. m)
  BY <1>6, <1>7, FS_Bijection
<1>9. m - b = n - b
  BY <1>7, <1>8
<1> QED
  BY <1>9

(***************************************************************************)
(* Lookups and filters                                                     *)
(***************************************************************************)

(* i is the first of the places I, or 0 when there are none. *)
FirstOf(i, I) == IF I = {} THEN i = 0 ELSE i \in I /\ \A j \in I : i <= j

(* The minimum is the first. *)
LEMMA MinFirst ==
  ASSUME NEW I, I \subseteq Nat
  PROVE  FirstOf(IF I # {} THEN Min(I) ELSE 0, I)
<1>1. CASE I # {}
  <2>1. \E n \in I : \A m \in I : n <= m
    BY <1>1, Smallest
  <2>2. Min(I) \in I /\ \A m \in I : Min(I) <= m
    BY <2>1 DEF Min
  <2> QED
    BY <1>1, <2>2 DEF FirstOf
<1> QED
  BY <1>1 DEF FirstOf

(* IndexOf finds the first place. *)
LEMMA IndexOfFirst ==
  ASSUME NEW names, NEW id
  PROVE  FirstOf(IndexOf(names, id), {j \in 1 .. Len(names) : names[j] = id})
<1> DEFINE I == {j \in 1 .. Len(names) : names[j] = id}
<1>1. I \subseteq Nat
  OBVIOUS
<1>2. IndexOf(names, id) = IF I # {} THEN Min(I) ELSE 0
  BY DEF IndexOf, SelectInSeq
<1> HIDE DEF I
<1>3. FirstOf(IndexOf(names, id), I)
  BY <1>1, <1>2, MinFirst
<1> QED
  BY <1>3 DEF I

(* InputIndex finds the first place. *)
LEMMA InputIndexFirst ==
  ASSUME NEW inputs, NEW object
  PROVE  FirstOf(InputIndex(inputs, object), {j \in 1 .. Len(inputs) : inputs[j].object = object})
<1> DEFINE I == {j \in 1 .. Len(inputs) : inputs[j].object = object}
<1>1. I \subseteq Nat
  OBVIOUS
<1>2. InputIndex(inputs, object) = IF I # {} THEN Min(I) ELSE 0
  BY DEF InputIndex, SelectInSeq
<1> HIDE DEF I
<1>3. FirstOf(InputIndex(inputs, object), I)
  BY <1>1, <1>2, MinFirst
<1> QED
  BY <1>3 DEF I

(* What the two lookups return, for a list of N things. *)
LEMMA Indexed ==
  ASSUME NEW names, NEW id, Len(names) \in Nat
  PROVE  /\ IndexOf(names, id) \in 0 .. Len(names)
         /\ IndexOf(names, id) # 0 => names[IndexOf(names, id)] = id
         /\ \A j \in 1 .. Len(names) : names[j] = id => IndexOf(names, id) # 0 /\ IndexOf(names, id) <= j
<1>1. FirstOf(IndexOf(names, id), {j \in 1 .. Len(names) : names[j] = id})
  BY IndexOfFirst
<1> QED
  BY <1>1 DEF FirstOf

(* What InputIndex returns. *)
LEMMA InputIndexed ==
  ASSUME NEW inputs, NEW object, Len(inputs) \in Nat
  PROVE  /\ InputIndex(inputs, object) \in 0 .. Len(inputs)
         /\ InputIndex(inputs, object) # 0 => inputs[InputIndex(inputs, object)].object = object
         /\ \A j \in 1 .. Len(inputs) : inputs[j].object = object => InputIndex(inputs, object) # 0
<1>1. FirstOf(InputIndex(inputs, object), {j \in 1 .. Len(inputs) : inputs[j].object = object})
  BY InputIndexFirst
<1> QED
  BY <1>1 DEF FirstOf

(* The places of what a filter leaves, in their order. *)
Filtered(pos, left, names, Out) ==
  /\ pos \in [1 .. Len(left) -> 1 .. Len(names)]
  /\ \A m \in 1 .. Len(left) : left[m] = names[pos[m]] /\ left[m] \notin Out
  /\ \A m, n \in 1 .. Len(left) : m < n => pos[m] < pos[n]
  /\ \A i \in 1 .. Len(names) : names[i] \notin Out => \E m \in 1 .. Len(left) : pos[m] = i
  /\ \A b \in 0 .. Len(names) :
       (\A i \in 1 .. b : names[i] \notin Out) => b <= Len(left) /\ \A m \in 1 .. b : pos[m] = m

(* The filter itself. *)
Without(names, Out) ==
  FlattenSeq([i \in DOMAIN names |-> IF names[i] \in Out THEN <<>> ELSE <<names[i]>>])

(* A filter keeps the order of what it keeps. *)
LEMMA FilterPlaces ==
  ASSUME NEW X, NEW names \in Seq(X), NEW Out
  PROVE  Without(names, Out) \in Seq(X) /\ \E pos : Filtered(pos, Without(names, Out), names, Out)
<1> DEFINE part(i) == IF names[i] \in Out THEN <<>> ELSE <<names[i]>>
           ss == [i \in DOMAIN names |-> IF names[i] \in Out THEN <<>> ELSE <<names[i]>>]
           y == FlattenSeq(ss)
           N == Len(names)
<1>1. N \in Nat /\ DOMAIN names = 1 .. N /\ \A i \in 1 .. N : names[i] \in X
  BY LenProperties, ElementOfSeq
<1>2. \A e : Len(<<e>>) = 1 /\ <<e>>[1] = e
  OBVIOUS
<1>3. Len(<<>>) = 0
  OBVIOUS
<1>4. ss \in Seq(Seq(X)) /\ Len(ss) = N /\ \A i \in 1 .. N : ss[i] = part(i)
  <2>1. \A i \in 1 .. N : part(i) \in Seq(X)
    <3>1. <<>> \in Seq(X)
      BY EmptySeq
    <3>2. \A e \in X : <<e>> \in Seq(X)
      OBVIOUS
    <3> QED
      BY <1>1, <3>1, <3>2
  <2>2. ss = [i \in 1 .. N |-> part(i)]
    BY <1>1
  <2> HIDE DEF ss, part, N
  <2>3. [i \in 1 .. N |-> part(i)] \in Seq(Seq(X))
    BY <1>1, <2>1, IsASeq
  <2>4. Len([i \in 1 .. N |-> part(i)]) = N
    BY <1>1
  <2> QED
    BY <2>2, <2>3, <2>4
<1>5. y \in Seq(X) /\ \E start : Starts(start, ss, y)
  <2> HIDE DEF ss
  <2> QED
    BY <1>4, FlattenPositions
<1>6. PICK start : Starts(start, ss, y)
  BY <1>5
<1>7. \A i \in 1 .. N : /\ names[i] \in Out => Len(ss[i]) = 0
                        /\ names[i] \notin Out => Len(ss[i]) = 1 /\ ss[i][1] = names[i]
  BY <1>2, <1>3, <1>4
<1>8. \A i \in 1 .. N : Len(ss[i]) \in 0 .. 1
  BY <1>7
<1> HIDE DEF ss, y, part
<1>9. /\ start \in [1 .. N -> Nat]
      /\ \A i \in 1 .. N : \A k \in 1 .. Len(ss[i]) : start[i] + k \in 1 .. Len(y) /\ y[start[i] + k] = ss[i][k]
      /\ \A m \in 1 .. Len(y) : \E i \in 1 .. N : \E k \in 1 .. Len(ss[i]) : m = start[i] + k
      /\ \A i, j \in 1 .. N : i < j => start[i] + Len(ss[i]) <= start[j]
      /\ \A i \in 1 .. N : start[i] = IF i = 1 THEN 0 ELSE start[i - 1] + Len(ss[i - 1])
  BY <1>4, <1>6 DEF Starts
<1>9a. ASSUME NEW i \in 1 .. N, NEW j \in 1 .. N, i < j, names[i] \notin Out
       PROVE  start[i] + 1 <= start[j]
  <2>1. start[i] + Len(ss[i]) <= start[j]
    BY <1>9, <1>9a
  <2>2. Len(ss[i]) = 1
    BY <1>7, <1>9a
  <2> QED
    BY <2>1, <2>2
<1>9b. ASSUME NEW i \in 1 .. N, i # 1, i - 1 \in 1 .. N, names[i - 1] \notin Out
       PROVE  start[i] = start[i - 1] + 1
  <2>1. start[i] = start[i - 1] + Len(ss[i - 1])
    BY <1>9, <1>9b
  <2>2. Len(ss[i - 1]) = 1
    BY <1>7, <1>9b
  <2> QED
    BY <2>1, <2>2
<1>10. Len(y) \in Nat
  BY <1>5, LenProperties
<1>11. \A m \in 1 .. Len(y) : \E i \in 1 .. N : names[i] \notin Out /\ m = start[i] + 1 /\ y[m] = names[i]
  <2> SUFFICES ASSUME NEW m \in 1 .. Len(y)
               PROVE  \E i \in 1 .. N : names[i] \notin Out /\ m = start[i] + 1 /\ y[m] = names[i]
    OBVIOUS
  <2>1. PICK i \in 1 .. N : \E k \in 1 .. Len(ss[i]) : m = start[i] + k
    BY <1>9
  <2>2. PICK k \in 1 .. Len(ss[i]) : m = start[i] + k
    BY <2>1
  <2>3. k = 1 /\ names[i] \notin Out
    <3>1. Len(ss[i]) # 0
      BY <2>2
    <3>2. names[i] \notin Out /\ Len(ss[i]) = 1
      BY <1>7, <3>1
    <3>3. k \in 1 .. 1
      BY <3>2
    <3> QED
      BY <3>2, <3>3
  <2>4. y[start[i] + k] = ss[i][k]
    BY <1>9
  <2> QED
    BY <1>7, <2>2, <2>3, <2>4
<1> DEFINE pos == [m \in 1 .. Len(y) |->
                     CHOOSE i \in 1 .. N : names[i] \notin Out /\ m = start[i] + 1 /\ y[m] = names[i]]
<1>12. \A m \in 1 .. Len(y) : /\ pos[m] \in 1 .. N /\ names[pos[m]] \notin Out
                              /\ m = start[pos[m]] + 1 /\ y[m] = names[pos[m]]
  BY <1>11
<1>13. pos \in [1 .. Len(y) -> 1 .. N]
  BY <1>12
<1> HIDE DEF pos
<1>14. ASSUME NEW i \in 1 .. N, names[i] \notin Out
       PROVE  start[i] + 1 \in 1 .. Len(y) /\ pos[start[i] + 1] = i
  <2>1. 1 \in 1 .. Len(ss[i])
    BY <1>7, <1>14
  <2>2. start[i] + 1 \in 1 .. Len(y)
    BY <1>9, <2>1
  <2> DEFINE j == pos[start[i] + 1]
  <2>3. j \in 1 .. N /\ names[j] \notin Out /\ start[i] + 1 = start[j] + 1
    BY <1>12, <2>2
  <2> HIDE DEF j
  <2>4. start[i] \in Nat /\ start[j] \in Nat /\ Len(ss[i]) = 1 /\ Len(ss[j]) = 1
    BY <1>7, <1>9, <1>14, <2>3
  <2>5. ~(i < j) /\ ~(j < i)
    BY <1>9a, <1>14, <2>3, <2>4
  <2>6. i = j
    BY <1>1, <2>3, <2>5
  <2> QED
    BY <2>2, <2>6 DEF j
<1>15. ASSUME NEW m \in 1 .. Len(y), NEW n \in 1 .. Len(y), m < n
       PROVE  pos[m] < pos[n]
  <2> DEFINE i == pos[m]
             j == pos[n]
  <2>1. i \in 1 .. N /\ j \in 1 .. N /\ m = start[i] + 1 /\ n = start[j] + 1 /\ names[i] \notin Out /\ names[j] \notin Out
    BY <1>12
  <2> HIDE DEF i, j
  <2>2. start[i] \in Nat /\ start[j] \in Nat /\ Len(ss[i]) = 1 /\ Len(ss[j]) = 1
    BY <1>7, <1>9, <2>1
  <2>3. start[i] < start[j]
    BY <1>15, <2>1, <2>2
  <2>4. ~(j < i) /\ i # j
    BY <1>9a, <2>1, <2>2, <2>3
  <2>5. i < j
    BY <1>1, <2>1, <2>4
  <2> QED
    BY <2>5 DEF i, j
<1>16. ASSUME NEW b \in 0 .. N, \A i \in 1 .. b : names[i] \notin Out
       PROVE  b <= Len(y) /\ \A m \in 1 .. b : pos[m] = m
  <2> DEFINE P == {k \in Nat : k + 1 \in 1 .. b => start[k + 1] = k}
  <2>1. 0 \in P
    BY <1>1, <1>9
  <2>2. ASSUME NEW k \in P \cap Nat  PROVE k + 1 \in P
    <3> SUFFICES ASSUME (k + 1) + 1 \in 1 .. b  PROVE start[(k + 1) + 1] = k + 1
      OBVIOUS
    <3>1. k + 1 \in 1 .. b /\ ((k + 1) + 1) - 1 = k + 1 /\ (k + 1) + 1 # 1 /\ (k + 1) + 1 \in 1 .. N /\ k + 1 \in 1 .. N
      BY <1>1
    <3>2. start[k + 1] = k
      BY <3>1
    <3>3. Len(ss[k + 1]) = 1
      BY <1>7, <1>16, <3>1
    <3> QED
      BY <1>9b, <1>16, <3>1, <3>2
  <2>3. Nat \subseteq P
    <3> HIDE DEF P
    <3> QED
      BY <2>1, <2>2, NatInduct
  <2>4. ASSUME NEW m \in 1 .. b  PROVE pos[m] = m /\ m \in 1 .. Len(y)
    <3>1. m - 1 \in Nat /\ (m - 1) + 1 = m /\ m \in 1 .. N
      BY <1>1
    <3>2. m - 1 \in P
      BY <2>3, <3>1
    <3>3. start[m] + 1 = m
      BY <3>1, <3>2
    <3>4. start[m] + 1 \in 1 .. Len(y) /\ pos[start[m] + 1] = m
      BY <1>14, <1>16, <3>1
    <3> QED
      BY <3>3, <3>4
  <2>5. b <= Len(y)
    <3>1. CASE b = 0
      BY <1>10, <3>1
    <3>2. CASE b # 0
      <4>1. b \in 1 .. b
        BY <3>2, <1>1
      <4>2. b \in 1 .. Len(y)
        BY <4>1, <2>4
      <4> QED
        BY <4>2
    <3> QED
      BY <3>1, <3>2
  <2> QED
    BY <2>4, <2>5
<1>17. Filtered(pos, y, names, Out)
  <2>1. \A i \in 1 .. N : names[i] \notin Out => \E m \in 1 .. Len(y) : pos[m] = i
    BY <1>14
  <2> QED
    BY <1>12, <1>13, <1>15, <1>16, <2>1 DEF Filtered, N
<1>18. Without(names, Out) = y
  BY DEF Without, y, ss
<1> QED
  BY <1>5, <1>17, <1>18

(***************************************************************************)
(* What the operators of TransactionData return                            *)
(***************************************************************************)

(* What arguments are made of. *)
LEMMA ArgParts ==
  ASSUME NEW arg \in ArgType
  PROVE  /\ RefersToResult(arg) <=> arg \in ResultType
         /\ arg.kind = "Input" <=> arg \in ObjectType
         /\ arg.kind = "GasCoin" <=> arg = GasCoin
         /\ arg.kind \in {"Result", "NestedResult", "Input", "GasCoin"} /\ arg.at \in Nat
         /\ RefersToResult(arg) <=> arg.kind \in {"Result", "NestedResult"}
         /\ RefersToResult(arg) => arg.of \in Name
<1>1. CASE arg \in ResultType
  BY <1>1 DEF ResultType, ObjectType, GasCoin, RefersToResult
<1>2. CASE arg \in ObjectType
  BY <1>2 DEF ResultType, ObjectType, GasCoin, RefersToResult
<1>3. CASE arg = GasCoin
  BY <1>3 DEF ResultType, ObjectType, GasCoin, RefersToResult
<1> QED
  BY <1>1, <1>2, <1>3 DEF ArgType

(* Renumbering an argument changes nothing else of it. *)
LEMMA ArgUpdates ==
  /\ \A arg \in ResultType, v \in Nat :
       LET new == [arg EXCEPT !.at = v]
       IN new \in ResultType /\ new.kind = arg.kind /\ new.of = arg.of /\ new.at = v
  /\ \A arg \in ResultType, x \in Name :
       LET new == [arg EXCEPT !.of = x]
       IN new \in ResultType /\ new.kind = arg.kind /\ new.of = x /\ new.at = arg.at
  /\ \A arg \in ObjectType, v \in Nat :
       LET new == [arg EXCEPT !.at = v]
       IN new \in ObjectType /\ new.kind = arg.kind /\ new.of = arg.of /\ new.at = v /\ new.mutable = arg.mutable
BY DEF ResultType, ObjectType

(* The references to a replaced command keep their index.                  *)
Same == [kind |-> "Same"]

(* The arguments and commands that the operations make. *)
LEMMA Constructed ==
  /\ \A i \in Nat, x \in Name :
       /\ Result(i, x) \in ResultType /\ Result(i, x).kind = "Result"
       /\ Result(i, x).at = i /\ Result(i, x).of = x
       /\ NestedResult(i, x) \in ResultType /\ NestedResult(i, x).kind = "NestedResult"
       /\ NestedResult(i, x).at = i /\ NestedResult(i, x).of = x
       /\ Result(i, x) # Same /\ NestedResult(i, x) # Same
  /\ \A i \in Nat, o \in Object, m \in BOOLEAN :
       /\ InputArg(i, o, m) \in ObjectType /\ InputArg(i, o, m).kind = "Input"
       /\ InputArg(i, o, m).at = i /\ InputArg(i, o, m).of = o /\ InputArg(i, o, m).mutable = m
  /\ \A x \in Name, k \in Kinds, a \in Seq(ArgType) :
       /\ Command(x, k, a) \in CommandType
       /\ Command(x, k, a).id = x /\ Command(x, k, a).kind = k /\ Command(x, k, a).args = a
BY DEF Result, NestedResult, InputArg, Command, ResultType, ObjectType, CommandType, Same

(* What a list of commands is made of. *)
LEMMA CommandParts ==
  ASSUME NEW c \in Seq(CommandType)
  PROVE  /\ Len(c) \in Nat /\ DOMAIN c = 1 .. Len(c)
         /\ \A i \in 1 .. Len(c) :
              /\ c[i] \in CommandType /\ c[i].id \in Name /\ c[i].kind \in Kinds
              /\ c[i].args \in Seq(ArgType) /\ Len(c[i].args) \in Nat
              /\ DOMAIN c[i].args = 1 .. Len(c[i].args)
              /\ \A k \in 1 .. Len(c[i].args) : c[i].args[k] \in ArgType
<1>1. Len(c) \in Nat /\ DOMAIN c = 1 .. Len(c) /\ \A i \in 1 .. Len(c) : c[i] \in CommandType
  BY LenProperties, ElementOfSeq
<1>2. ASSUME NEW i \in 1 .. Len(c)
      PROVE  /\ c[i].id \in Name /\ c[i].kind \in Kinds
             /\ c[i].args \in Seq(ArgType) /\ Len(c[i].args) \in Nat
             /\ DOMAIN c[i].args = 1 .. Len(c[i].args)
             /\ \A k \in 1 .. Len(c[i].args) : c[i].args[k] \in ArgType
  <2>1. c[i].id \in Name /\ c[i].kind \in Kinds /\ c[i].args \in Seq(ArgType)
    BY <1>1 DEF CommandType
  <2> QED
    BY <2>1, LenProperties, ElementOfSeq
<1> QED
  BY <1>1, <1>2

(* x is c with n commands, rep, in the place of r of them. *)
Spliced(x, c, index, r, n, rep) ==
  /\ Len(x) = Len(c) + n - r
  /\ \A i \in 1 .. Len(x) :
       /\ i < index => i \in 1 .. Len(c) /\ x[i] = c[i]
       /\ i >= index /\ i < index + n => i - index + 1 \in 1 .. n /\ x[i] = rep[i - index + 1]
       /\ i >= index + n => i - n + r \in 1 .. Len(c) /\ x[i] = c[i - n + r]

(* Where the commands are after splice. *)
LEMMA SplicePlaces ==
  ASSUME NEW C, NEW c \in Seq(C), NEW rep \in Seq(C), NEW r \in {0, 1},
         NEW index \in 1 .. Len(c) + 1, index + r <= Len(c) + 1
  PROVE  /\ Splice(c, index, r, rep) \in Seq(C)
         /\ Spliced(Splice(c, index, r, rep), c, index, r, Len(rep), rep)
<1> DEFINE N == Len(c)
           n == Len(rep)
           a == SubSeq(c, 1, index - 1)
           z == SubSeq(c, index + r, N)
           x == (a \o rep) \o z
<1>1. N \in Nat /\ n \in Nat /\ N = Len(c) /\ n = Len(rep)
  BY LenProperties
<1>2. \A i \in 1 .. N : c[i] \in C
  BY ElementOfSeq
<1>3. Splice(c, index, r, rep) = x
  BY DEF Splice
<1> HIDE DEF N, n
<1>4. a \in Seq(C) /\ Len(a) = index - 1 /\ \A i \in 1 .. index - 1 : a[i] = c[i]
  <2>1. 1 \in Int /\ index - 1 \in Int /\ \A i \in 1 .. index - 1 : c[i] \in C /\ 1 + i - 1 = i
    BY <1>1, <1>2
  <2>2. /\ a \in Seq(C) /\ Len(a) = IF 1 <= index - 1 THEN (index - 1) - 1 + 1 ELSE 0
        /\ \A i \in 1 .. (index - 1) - 1 + 1 : a[i] = c[1 + i - 1]
    BY <2>1, SubSeqProperties
  <2>3. (index - 1) - 1 + 1 = index - 1 /\ (1 <= index - 1 \/ index - 1 = 0)
    BY <1>1
  <2> HIDE DEF a
  <2> QED
    BY <2>1, <2>2, <2>3
<1>5. z \in Seq(C) /\ Len(z) = N - (index + r) + 1 /\ \A i \in 1 .. N - (index + r) + 1 : z[i] = c[(index + r) + i - 1]
  <2>1. index + r \in Int /\ N \in Int /\ \A i \in index + r .. N : c[i] \in C
    BY <1>1, <1>2
  <2>2. /\ z \in Seq(C) /\ Len(z) = IF index + r <= N THEN N - (index + r) + 1 ELSE 0
        /\ \A i \in 1 .. N - (index + r) + 1 : z[i] = c[(index + r) + i - 1]
    BY <2>1, SubSeqProperties
  <2>3. index + r <= N \/ N - (index + r) + 1 = 0
    BY <1>1
  <2> HIDE DEF z
  <2> QED
    BY <2>2, <2>3
<1> HIDE DEF a, z
<1> DEFINE y == a \o rep
<1>6. y \in Seq(C) /\ Len(y) = index - 1 + n /\ \A i \in 1 .. index - 1 + n : y[i] = IF i <= index - 1 THEN a[i] ELSE rep[i - (index - 1)]
  <2>1. y \in Seq(C) /\ Len(y) = Len(a) + Len(rep)
        /\ \A i \in 1 .. Len(a) + Len(rep) : y[i] = IF i <= Len(a) THEN a[i] ELSE rep[i - Len(a)]
    BY <1>4, ConcatProperties
  <2> HIDE DEF y
  <2> QED
    BY <1>1, <1>4, <2>1
<1> HIDE DEF y
<1>7. x \in Seq(C) /\ Len(x) = (index - 1 + n) + (N - (index + r) + 1)
      /\ \A i \in 1 .. (index - 1 + n) + (N - (index + r) + 1) :
           x[i] = IF i <= index - 1 + n THEN y[i] ELSE z[i - (index - 1 + n)]
  <2>0. x = y \o z
    BY DEF y
  <2>1. x \in Seq(C) /\ Len(x) = Len(y) + Len(z)
        /\ \A i \in 1 .. Len(y) + Len(z) : x[i] = IF i <= Len(y) THEN y[i] ELSE z[i - Len(y)]
    BY SMTT(30), <1>5, <1>6, <2>0, ConcatProperties
  <2> HIDE DEF x
  <2> QED
    BY <1>5, <1>6, <2>1
<1> HIDE DEF x
<1>8. Len(x) = N + n - r
  BY <1>1, <1>7
<1>9. ASSUME NEW i \in 1 .. N + n - r
      PROVE  /\ i < index => i \in 1 .. N /\ x[i] = c[i]
             /\ i >= index /\ i < index + n => i - index + 1 \in 1 .. n /\ x[i] = rep[i - index + 1]
             /\ i >= index + n => i - n + r \in 1 .. N /\ x[i] = c[i - n + r]
  <2>0. i \in 1 .. (index - 1 + n) + (N - (index + r) + 1)
    BY <1>1
  <2>1. ASSUME i < index  PROVE i \in 1 .. N /\ x[i] = c[i]
    <3>1. i \in 1 .. N /\ i <= index - 1 + n /\ i <= index - 1 /\ i \in 1 .. index - 1 + n /\ i \in 1 .. index - 1
      BY <1>1, <2>1
    <3> QED
      BY <1>4, <1>6, <1>7, <2>0, <3>1
  <2>2. ASSUME i >= index, i < index + n  PROVE i - index + 1 \in 1 .. n /\ x[i] = rep[i - index + 1]
    <3>1. i <= index - 1 + n /\ ~(i <= index - 1) /\ i \in 1 .. index - 1 + n /\ i - (index - 1) = i - index + 1 /\ i - index + 1 \in 1 .. n
      BY <1>1, <2>2
    <3> QED
      BY <1>6, <1>7, <2>0, <3>1
  <2>3. ASSUME i >= index + n  PROVE i - n + r \in 1 .. N /\ x[i] = c[i - n + r]
    <3>1. ~(i <= index - 1 + n) /\ i - (index - 1 + n) \in 1 .. N - (index + r) + 1
          /\ (index + r) + (i - (index - 1 + n)) - 1 = i - n + r /\ i - n + r \in 1 .. N
      BY <1>1, <2>3
    <3> QED
      BY <1>5, <1>7, <2>0, <3>1
  <2> QED
    BY <2>1, <2>2, <2>3
<1>10. Spliced(x, c, index, r, n, rep)
  BY <1>1, <1>8, <1>9 DEF Spliced, N, n
<1> QED
  BY <1>1, <1>3, <1>7, <1>10

(* x is c with other arguments. *)
SameButArgs(x, c) ==
  /\ Len(x) = Len(c)
  /\ \A i \in 1 .. Len(c) : x[i].id = c[i].id /\ x[i].kind = c[i].kind /\ Len(x[i].args) = Len(c[i].args)

(* A command with other arguments. *)
LEMMA MapOne ==
  ASSUME NEW c \in CommandType, NEW e, e \in [1 .. Len(c.args) -> ArgType]
  PROVE  LET x == [c EXCEPT !.args = e]
         IN x \in CommandType /\ x.id = c.id /\ x.kind = c.kind /\ x.args = e /\ Len(x.args) = Len(c.args)
<1>1. c.args \in Seq(ArgType) /\ c.id \in Name /\ c.kind \in Kinds
  BY DEF CommandType
<1>2. Len(c.args) \in Nat
  BY <1>1, LenProperties
<1>3. e \in Seq(ArgType) /\ Len(e) = Len(c.args)
  <2>1. e = [i \in 1 .. Len(c.args) |-> e[i]]
    OBVIOUS
  <2> DEFINE n == Len(c.args)
  <2>2. n \in Nat /\ e \in [1 .. n -> ArgType]
    BY <1>2
  <2> HIDE DEF n
  <2>3. e \in Seq(ArgType) /\ Len(e) = n
    BY <2>2, SeqDef
  <2> QED
    BY <2>3 DEF n
<1> QED
  BY <1>1, <1>3 DEF CommandType

(* c with the arguments E. *)
WithArgs(c, E) == [i \in 1 .. Len(c) |-> [c[i] EXCEPT !.args = E[i]]]

(* Commands with other arguments. *)
LEMMA MapAll ==
  ASSUME NEW c \in Seq(CommandType), NEW E,
         \A i \in 1 .. Len(c) : E[i] \in [1 .. Len(c[i].args) -> ArgType],
         NEW x, x = WithArgs(c, E)
  PROVE  /\ x \in Seq(CommandType) /\ SameButArgs(x, c)
         /\ \A i \in 1 .. Len(c) : \A k \in 1 .. Len(c[i].args) : x[i].args[k] = E[i][k]
<1>1. Len(c) \in Nat /\ \A i \in 1 .. Len(c) : c[i] \in CommandType
  BY CommandParts
<1>2. ASSUME NEW i \in 1 .. Len(c)
      PROVE  /\ x[i] \in CommandType /\ x[i].id = c[i].id /\ x[i].kind = c[i].kind
             /\ x[i].args = E[i] /\ Len(x[i].args) = Len(c[i].args)
  <2>1. x[i] = [c[i] EXCEPT !.args = E[i]]
    BY DEF WithArgs
  <2>2. c[i] \in CommandType /\ E[i] \in [1 .. Len(c[i].args) -> ArgType]
    BY <1>1
  <2> QED
    BY <2>1, <2>2, MapOne
<1>3. x \in Seq(CommandType) /\ Len(x) = Len(c)
  <2> DEFINE n == Len(c)
  <2>1. n \in Nat /\ x = [i \in 1 .. n |-> x[i]] /\ \A i \in 1 .. n : x[i] \in CommandType
    BY <1>1, <1>2 DEF WithArgs
  <2> HIDE DEF n
  <2>2. x \in Seq(CommandType) /\ Len(x) = n
    <3>1. [i \in 1 .. n |-> x[i]] \in Seq(CommandType)
      BY <2>1, IsASeq
    <3>2. Len([i \in 1 .. n |-> x[i]]) = n
      BY <2>1
    <3> QED
      BY <2>1, <3>1, <3>2
  <2> QED
    BY <2>2 DEF n
<1> QED
  BY <1>2, <1>3 DEF SameButArgs

(* What replacing the command at index by n commands makes of an argument  *)
(* of the command that is then at i.                                       *)
Moved(arg, i, index, n, result) ==
  IF i < index + n \/ ~RefersToResult(arg) THEN arg
  ELSE IF arg.at = index /\ result # Same THEN [result EXCEPT !.of = arg.of]
  ELSE IF arg.at > index THEN [arg EXCEPT !.at = @ + n - 1]
  ELSE arg

(* How ReplaceCommand renumbers an argument, by cases. *)
MovedTo(arg, i, index, n, result, new) ==
  /\ new \in ArgType
  /\ i < index + n \/ ~RefersToResult(arg) => new = arg
  /\ RefersToResult(arg) => RefersToResult(new) /\ new.of = arg.of
  /\ i >= index + n /\ RefersToResult(arg) /\ arg.at = index /\ result # Same =>
       new.at = result.at /\ new.kind = result.kind
  /\ i >= index + n /\ RefersToResult(arg) /\ arg.at = index /\ result = Same => new = arg
  /\ i >= index + n /\ RefersToResult(arg) /\ arg.at > index =>
       new.at = arg.at + n - 1 /\ new.kind = arg.kind
  /\ i >= index + n /\ RefersToResult(arg) /\ arg.at < index => new = arg

(* What it makes of an argument. *)
LEMMA MovedParts ==
  ASSUME NEW arg \in ArgType, NEW i \in Nat, NEW index \in Nat, index > 0, NEW n \in Nat,
         NEW result \in {Same} \cup ResultType
  PROVE  MovedTo(arg, i, index, n, result, Moved(arg, i, index, n, result))
<1> DEFINE new == Moved(arg, i, index, n, result)
<1>0. arg.at \in Nat
  BY ArgParts
<1>1. CASE i < index + n \/ ~RefersToResult(arg)
  <2>1. new = arg
    BY <1>1 DEF Moved
  <2> QED
    BY <1>0, <1>1, <2>1 DEF MovedTo
<1>2. CASE i >= index + n /\ RefersToResult(arg)
  <2>0. arg \in ResultType /\ arg.of \in Name /\ ~(i < index + n)
    BY <1>2, ArgParts
  <2>1. CASE arg.at = index /\ result # Same
    <3>1. new = [result EXCEPT !.of = arg.of]
      BY <1>2, <2>0, <2>1 DEF Moved
    <3>2. new \in ResultType /\ new.kind = result.kind /\ new.of = arg.of /\ new.at = result.at
      BY <2>0, <2>1, <3>1, ArgUpdates
    <3>3. new \in ArgType /\ RefersToResult(new)
      BY <3>2, ArgParts DEF ArgType
    <3> HIDE DEF new
    <3>4. ~(arg.at > index) /\ ~(arg.at < index)
      BY <1>0, <2>1
    <3>5. new \in ArgType /\ RefersToResult(new) /\ new.of = arg.of /\ new.at = result.at /\ new.kind = result.kind
      BY <3>2, <3>3
    <3> QED
      BY <1>2, <2>0, <2>1, <3>4, <3>5 DEF new, MovedTo
  <2>2. CASE arg.at = index /\ result = Same
    <3>1. new = arg
      BY <1>0, <1>2, <2>0, <2>2 DEF Moved
    <3> QED
      BY <1>0, <1>2, <2>0, <2>2, <3>1 DEF MovedTo
  <2>3. CASE arg.at > index
    <3>0. arg.at + n - 1 \in Nat /\ arg.at # index
      BY <1>0, <2>3
    <3>1. new = [arg EXCEPT !.at = arg.at + n - 1]
      BY <1>0, <1>2, <2>0, <2>3, <3>0 DEF Moved
    <3>2. new \in ResultType /\ new.kind = arg.kind /\ new.of = arg.of /\ new.at = arg.at + n - 1
      BY <2>0, <3>0, <3>1, ArgUpdates
    <3>3. new \in ArgType /\ RefersToResult(new)
      BY <3>2, ArgParts DEF ArgType
    <3> HIDE DEF new
    <3>4. ~(arg.at < index)
      BY <1>0, <2>3
    <3> QED
      BY <1>2, <2>0, <2>3, <3>0, <3>2, <3>3, <3>4 DEF new, MovedTo
  <2>4. CASE arg.at < index
    <3>1. new = arg
      BY <1>0, <1>2, <2>0, <2>4 DEF Moved
    <3> QED
      BY <1>0, <1>2, <2>0, <2>4, <3>1 DEF MovedTo
  <2> QED
    BY <1>0, <2>1, <2>2, <2>3, <2>4
<1> QED
  BY <1>1, <1>2

(* What replaceCommand is given for it: by default the index as a number.  *)
GivenResult(result, index) == IF result = Same THEN Number(index) ELSE result

(* What replaceCommand does to an argument.                                *)
Remapped(arg, i, index, n, given) ==
  IF i < index + n \/ ~RefersToResult(arg) THEN arg
  ELSE IF arg.at # index THEN [arg EXCEPT !.at = IF @ > index THEN @ + n - 1 ELSE @]
  ELSE IF given.kind # "Number" THEN [given EXCEPT !.of = arg.of]
  ELSE [arg EXCEPT !.at = IF arg.kind = "Result"
                          THEN IF given.at > index THEN given.at + n - 1 ELSE given.at
                          ELSE given.at]

(* A result that is given its own index again is the same result. *)
LEMMA UnchangedArg ==
  ASSUME NEW arg \in ResultType, NEW at, at = arg.at
  PROVE  [arg EXCEPT !.at = at] = arg
BY DEF ResultType

(* For a result that is not a number, Remapped is what Moved says: it is   *)
(* shifted once.                                                           *)
LEMMA RemappedIs ==
  ASSUME NEW arg \in ArgType, NEW i \in Nat, NEW index \in Nat, NEW n \in Nat,
         NEW result \in {Same} \cup ResultType, NEW given, given = GivenResult(result, index)
  PROVE  Remapped(arg, i, index, n, given) = Moved(arg, i, index, n, result)
<1>0. arg.at \in Nat
  BY ArgParts
<1>1. CASE i < index + n \/ ~RefersToResult(arg)
  BY <1>1 DEF Remapped, Moved
<1>2. CASE ~(i < index + n \/ ~RefersToResult(arg))
  <2>0. arg \in ResultType
    BY <1>2, ArgParts
  <2>1. CASE arg.at = index /\ result # Same
    <3>1. given = result /\ result \in ResultType
      BY <2>1 DEF GivenResult
    <3>2. given.kind # "Number"
      BY <3>1 DEF ResultType
    <3>3. Remapped(arg, i, index, n, given) = [given EXCEPT !.of = arg.of]
      BY <1>2, <2>1, <3>2 DEF Remapped
    <3> QED
      BY <1>2, <2>1, <3>1, <3>3 DEF Moved
  <2>2. CASE arg.at = index /\ result = Same
    <3>1. given.kind = "Number" /\ given.at = index
      BY <2>2 DEF GivenResult, Number
    <3>2. PICK at : at = IF arg.kind = "Result"
                         THEN IF given.at > index THEN given.at + n - 1 ELSE given.at
                         ELSE given.at
      OBVIOUS
    <3>3. at = arg.at
      BY <2>2, <3>1, <3>2
    <3>4. Remapped(arg, i, index, n, given) = [arg EXCEPT !.at = at]
      BY <1>2, <2>2, <3>1, <3>2 DEF Remapped
    <3>5. Moved(arg, i, index, n, result) = arg
      BY <1>0, <1>2, <2>2 DEF Moved
    <3> QED
      BY <2>0, <3>3, <3>4, <3>5, UnchangedArg
  <2>3. CASE arg.at > index
    <3>1. arg.at # index
      BY <1>0, <2>3
    <3>2. Remapped(arg, i, index, n, given) = [arg EXCEPT !.at = arg.at + n - 1]
      BY <1>2, <2>3, <3>1 DEF Remapped
    <3>3. Moved(arg, i, index, n, result) = [arg EXCEPT !.at = arg.at + n - 1]
      BY <1>2, <2>3, <3>1 DEF Moved
    <3> QED
      BY <3>2, <3>3
  <2>4. CASE arg.at < index
    <3>1. arg.at # index /\ ~(arg.at > index)
      BY <1>0, <2>4
    <3>2. PICK at : at = arg.at
      OBVIOUS
    <3>3. Remapped(arg, i, index, n, given) = [arg EXCEPT !.at = at]
      BY <1>2, <3>1, <3>2 DEF Remapped
    <3>4. Moved(arg, i, index, n, result) = arg
      BY <1>2, <3>1 DEF Moved
    <3> QED
      BY <2>0, <3>2, <3>3, <3>4, UnchangedArg
  <2> QED
    BY <1>0, <2>1, <2>2, <2>3, <2>4
<1> QED
  BY <1>1, <1>2

(* Such a result is given as it is. *)
LEMMA GivenOther ==
  ASSUME NEW result \in ResultType, NEW index
  PROVE  result = GivenResult(result, index)
BY DEF GivenResult, ResultType, Same

(* replaceCommand: x is c with rep in the place of the command at index,   *)
(* and the arguments moved.                                                *)
Replaced1(x, c, index, rep, result) ==
  \E s \in Seq(CommandType) :
    /\ Spliced(s, c, index, 1, Len(rep), rep) /\ SameButArgs(x, s)
    /\ \A i \in 1 .. Len(s) : \A k \in 1 .. Len(s[i].args) :
         x[i].args[k] = Moved(s[i].args[k], i, index, Len(rep), result)

(* What ReplaceCommand returns: every command is in its place, with its    *)
(* arguments renumbered.                                                   *)
LEMMA ReplacePlaces ==
  ASSUME NEW c \in Seq(CommandType), NEW index \in 1 .. Len(c), NEW rep \in Seq(CommandType),
         NEW result \in {Same} \cup ResultType, NEW given, given = GivenResult(result, index)
  PROVE  /\ ReplaceCommand(c, index, rep, given) \in Seq(CommandType)
         /\ Replaced1(ReplaceCommand(c, index, rep, given), c, index, rep, result)
<1> DEFINE s == Splice(c, index, 1, rep)
           x == ReplaceCommand(c, index, rep, given)
           n == Len(rep)
<1>0. index \in 1 .. Len(c) + 1 /\ index + 1 <= Len(c) + 1 /\ 1 \in {0, 1} /\ n \in Nat
  BY CommandParts
<1>1. s \in Seq(CommandType) /\ Spliced(s, c, index, 1, Len(rep), rep)
  BY <1>0, SplicePlaces
<1>2. /\ Len(s) \in Nat /\ DOMAIN s = 1 .. Len(s)
      /\ \A i \in 1 .. Len(s) : /\ DOMAIN s[i].args = 1 .. Len(s[i].args)
                                /\ \A k \in 1 .. Len(s[i].args) : s[i].args[k] \in ArgType
  <2> HIDE DEF s
  <2> QED
    BY <1>1, CommandParts
<1>3. x = [i \in DOMAIN s |->
             [s[i] EXCEPT !.args = [k \in DOMAIN s[i].args |-> Remapped(s[i].args[k], i, index, n, given)]]]
  BY DEF ReplaceCommand, MapArguments, Remapped
<1> HIDE DEF s, x
<1> DEFINE E == [i \in 1 .. Len(s) |->
                   [k \in 1 .. Len(s[i].args) |-> Remapped(s[i].args[k], i, index, n, given)]]
<1>4. x = WithArgs(s, E)
  BY <1>2, <1>3 DEF WithArgs
<1>5a. ASSUME NEW i \in 1 .. Len(s), NEW k \in 1 .. Len(s[i].args)
       PROVE  /\ Moved(s[i].args[k], i, index, n, result) \in ArgType
              /\ Remapped(s[i].args[k], i, index, n, given) = Moved(s[i].args[k], i, index, n, result)
  <2>1. s[i].args[k] \in ArgType /\ i \in Nat /\ index \in Nat /\ index > 0
    BY <1>0, <1>2
  <2> HIDE DEF n
  <2>2. Moved(s[i].args[k], i, index, n, result) \in ArgType
    BY <1>0, <2>1, MovedParts DEF MovedTo
  <2>3. PICK a : a = s[i].args[k]
    OBVIOUS
  <2>4. a \in ArgType /\ i \in Nat /\ index \in Nat /\ n \in Nat
    BY <1>0, <2>1, <2>3
  <2>5. Remapped(a, i, index, n, given) = Moved(a, i, index, n, result)
    BY <2>4, RemappedIs
  <2> QED
    BY <2>2, <2>3, <2>5
<1>5. ASSUME NEW i \in 1 .. Len(s)  PROVE E[i] \in [1 .. Len(s[i].args) -> ArgType]
  <2>1. ASSUME NEW k \in 1 .. Len(s[i].args)  PROVE Remapped(s[i].args[k], i, index, n, given) \in ArgType
    BY <1>5a
  <2> QED
    BY <2>1
<1>6. /\ x \in Seq(CommandType) /\ SameButArgs(x, s)
      /\ \A i \in 1 .. Len(s) : \A k \in 1 .. Len(s[i].args) : x[i].args[k] = E[i][k]
  <2> HIDE DEF E, n
  <2> QED
    BY <1>1, <1>4, <1>5, MapAll
<1>7. \A i \in 1 .. Len(s) : \A k \in 1 .. Len(s[i].args) :
        x[i].args[k] = Moved(s[i].args[k], i, index, Len(rep), result)
  BY <1>5a, <1>6
<1>8. Replaced1(x, c, index, rep, result)
  BY <1>1, <1>6, <1>7 DEF Replaced1
<1> QED
  BY <1>6, <1>8 DEF x

(* The inputs x are the given ones, perhaps mutable now, and more. *)
InputsGrow(x, inputs) ==
  /\ Len(inputs) <= Len(x)
  /\ \A i \in 1 .. Len(inputs) :
       x[i].object = inputs[i].object /\ (inputs[i].mutable => x[i].mutable)

(* The object is in x, as mutable as it is needed. *)
HasObject(x, object, mutable) ==
  /\ InputIndex(x, object) \in 1 .. Len(x)
  /\ x[InputIndex(x, object)].object = object
  /\ mutable => x[InputIndex(x, object)].mutable

(* What a list of inputs is made of. *)
LEMMA InputParts ==
  ASSUME NEW x \in Seq(InputType)
  PROVE  Len(x) \in Nat /\ DOMAIN x = 1 .. Len(x)
         /\ \A i \in 1 .. Len(x) : x[i] \in InputType /\ x[i].object \in Object /\ x[i].mutable \in BOOLEAN
<1>1. Len(x) \in Nat /\ DOMAIN x = 1 .. Len(x) /\ \A i \in 1 .. Len(x) : x[i] \in InputType
  BY LenProperties, ElementOfSeq
<1>2. \A e \in InputType : e.object \in Object /\ e.mutable \in BOOLEAN
  BY DEF InputType
<1> QED
  BY <1>1, <1>2

(* WithObject has the object once, and keeps what was there. *)
LEMMA WithObjectGrows ==
  ASSUME NEW inputs \in Seq(InputType), ApartIn(inputs), NEW object \in Object, NEW m \in BOOLEAN
  PROVE  LET x == WithObject(inputs, object, m)
         IN /\ x \in Seq(InputType) /\ ApartIn(x) /\ InputsGrow(x, inputs) /\ HasObject(x, object, m)
            /\ InputIndex(inputs, object) = 0 =>
                 Len(x) = Len(inputs) + 1 /\ x[Len(inputs) + 1].object = object
            /\ InputIndex(inputs, object) # 0 => Len(x) = Len(inputs)
<1> DEFINE x == WithObject(inputs, object, m)
           i0 == InputIndex(inputs, object)
           e == [object |-> object, mutable |-> m]
           N == Len(inputs)
<1>1. N \in Nat /\ \A i \in 1 .. N : inputs[i] \in InputType /\ inputs[i].object \in Object /\ inputs[i].mutable \in BOOLEAN
  BY InputParts
<1>2. /\ i0 \in 0 .. N
      /\ i0 # 0 => inputs[i0].object = object
      /\ \A j \in 1 .. N : inputs[j].object = object => i0 # 0
  BY <1>1, InputIndexed
<1>3. e \in InputType /\ e.object = object /\ e.mutable = m
  BY DEF InputType
<1>4. x = IF i0 = 0 THEN Append(inputs, e) ELSE [inputs EXCEPT ![i0].mutable = inputs[i0].mutable \/ m]
  BY DEF WithObject
<1> HIDE DEF x, e
<1>6. CASE i0 = 0
  <2>1. x = Append(inputs, e)
    BY <1>4, <1>6
  <2>2. x \in Seq(InputType) /\ Len(x) = N + 1 /\ x[N + 1] = e /\ \A i \in 1 .. N : x[i] = inputs[i]
    BY <1>3, <2>1, AppendProperties
  <2>3. ApartIn(x)
    <3> SUFFICES ASSUME NEW i \in 1 .. N + 1, NEW j \in 1 .. N + 1, i # j  PROVE x[i].object # x[j].object
      BY <2>2 DEF ApartIn
    <3>1. CASE i = N + 1
      <4>1. j \in 1 .. N
        BY <1>1, <3>1
      <4>2. inputs[j].object # object
        BY <4>1, <1>2, <1>6
      <4> QED
        BY <1>3, <2>2, <3>1, <4>1, <4>2
    <3>2. CASE j = N + 1
      <4>1. i \in 1 .. N
        BY <1>1, <3>2
      <4>2. inputs[i].object # object
        BY <4>1, <1>2, <1>6
      <4> QED
        BY <1>3, <2>2, <3>2, <4>1, <4>2
    <3>3. CASE i # N + 1 /\ j # N + 1
      <4>1. i \in 1 .. N /\ j \in 1 .. N
        BY <1>1, <3>3
      <4> QED
        BY <2>2, <4>1 DEF ApartIn
    <3> QED
      BY <3>1, <3>2, <3>3
  <2>4. InputsGrow(x, inputs)
    BY <1>1, <2>2 DEF InputsGrow
  <2>5. HasObject(x, object, m)
    <3> DEFINE k == InputIndex(x, object)
    <3>1. /\ k \in 0 .. N + 1 /\ (k # 0 => x[k].object = object)
          /\ \A j \in 1 .. N + 1 : x[j].object = object => k # 0
      <4>1. Len(x) \in Nat
        BY <1>1, <2>2
      <4> QED
        BY <2>2, <4>1, InputIndexed
    <3> HIDE DEF k
    <3>2. k # 0 /\ k \in 1 .. N + 1 /\ x[k].object = object
      <4>1. N + 1 \in 1 .. N + 1 /\ x[N + 1].object = object
        BY <1>1, <1>3, <2>2
      <4> QED
        BY <3>1, <4>1
    <3>3. k = N + 1
      <4>1. CASE k \in 1 .. N
        BY <1>2, <1>6, <2>2, <3>2, <4>1
      <4> QED
        BY <1>1, <3>2, <4>1
    <3>4. m => x[k].mutable
      BY <1>3, <2>2, <3>3
    <3> QED
      BY <2>2, <3>2, <3>4 DEF HasObject, k
  <2> QED
    BY <1>3, <1>6, <2>2, <2>3, <2>4, <2>5 DEF x, N
<1>7. CASE i0 # 0
  <2>0. i0 \in 1 .. N /\ inputs[i0].object = object
    BY <1>1, <1>2, <1>7
  <2> DEFINE new == [inputs[i0] EXCEPT !.mutable = inputs[i0].mutable \/ m]
  <2>1. x = [inputs EXCEPT ![i0] = new]
    BY <1>4, <1>7
  <2>2. new \in InputType /\ new.object = object /\ (m => new.mutable) /\ (inputs[i0].mutable => new.mutable)
    <3>1. inputs[i0] \in InputType
      BY <1>1, <2>0
    <3> QED
      BY <2>0, <3>1 DEF InputType
  <2> HIDE DEF new
  <2>3. /\ x \in Seq(InputType) /\ Len(x) = N
        /\ \A j \in 1 .. N : x[j] = IF j = i0 THEN new ELSE inputs[j]
    BY <2>0, <2>1, <2>2, ExceptSeq
  <2>4. \A j \in 1 .. N : x[j].object = inputs[j].object /\ (inputs[j].mutable => x[j].mutable)
    BY <2>0, <2>2, <2>3
  <2>5. ApartIn(x)
    BY <2>3, <2>4 DEF ApartIn
  <2>6. InputsGrow(x, inputs)
    BY <1>1, <2>3, <2>4 DEF InputsGrow
  <2>7. HasObject(x, object, m)
    <3> DEFINE k == InputIndex(x, object)
    <3>1. /\ k \in 0 .. N /\ (k # 0 => x[k].object = object)
          /\ \A j \in 1 .. N : x[j].object = object => k # 0
      BY <1>1, <2>3, InputIndexed
    <3> HIDE DEF k
    <3>2. k \in 1 .. N /\ x[k].object = object
      BY <2>0, <2>4, <3>1
    <3>3. k = i0
      BY <2>0, <2>4, <2>5, <2>3, <3>2 DEF ApartIn
    <3> QED
      BY <2>0, <2>2, <2>3, <3>2, <3>3 DEF HasObject, k
  <2> QED
    BY <1>7, <2>3, <2>5, <2>6, <2>7 DEF x, N
<1> QED
  BY <1>6, <1>7

(* What a plugin puts in, with the names p and q. *)
OtherOf(object, p, q) ==
  [inputs |-> <<[object |-> object, mutable |-> TRUE]>>,
   commands |-> <<Command(p, "call", <<InputArg(1, object, TRUE)>>),
                  Command(q, "call", <<Result(1, p)>>)>>]

(* What inserting n commands at "at" makes of an argument of the command   *)
(* that is then at i.                                                      *)
Shifted(arg, i, at, n) ==
  IF i \notin at .. at + n - 1 /\ RefersToResult(arg) /\ arg.at >= at
  THEN [arg EXCEPT !.at = @ + n] ELSE arg

(* How InsertTransaction renumbers an argument. *)
LEMMA ShiftedParts ==
  ASSUME NEW arg \in ArgType, NEW i \in Nat, NEW at \in Nat, NEW n \in Nat
  PROVE  LET new == Shifted(arg, i, at, n)
         IN /\ new \in ArgType
            /\ i \in at .. at + n - 1 \/ ~RefersToResult(arg) \/ arg.at < at => new = arg
            /\ RefersToResult(arg) => RefersToResult(new) /\ new.of = arg.of /\ new.kind = arg.kind
            /\ i \notin at .. at + n - 1 /\ RefersToResult(arg) /\ arg.at >= at => new.at = arg.at + n
<1> DEFINE new == Shifted(arg, i, at, n)
<1>0. arg.at \in Nat
  BY ArgParts
<1>1. CASE i \in at .. at + n - 1 \/ ~RefersToResult(arg) \/ arg.at < at
  <2>1. new = arg
    BY <1>0, <1>1 DEF Shifted
  <2> QED
    BY <1>0, <1>1, <2>1
<1>2. CASE i \notin at .. at + n - 1 /\ RefersToResult(arg) /\ arg.at >= at
  <2>1. new = [arg EXCEPT !.at = arg.at + n]
    BY <1>2 DEF Shifted
  <2>2. arg \in ResultType /\ arg.at + n \in Nat
    BY <1>0, <1>2, ArgParts
  <2>3. new \in ResultType /\ new.kind = arg.kind /\ new.of = arg.of /\ new.at = arg.at + n
    BY <2>1, <2>2, ArgUpdates
  <2>4. new \in ArgType /\ RefersToResult(new)
    BY <2>3, ArgParts DEF ArgType
  <2> HIDE DEF new
  <2>5. ~(arg.at < at)
    BY <1>0, <1>2
  <2> QED
    BY <1>2, <2>3, <2>4, <2>5 DEF new
<1> QED
  BY <1>0, <1>1, <1>2

(* insertTransaction of what a plugin puts in: x are the inputs then. *)
Inserted1(d, e, at, object, p, q) ==
  /\ e.inputs = WithObject(d.inputs, object, TRUE)
  /\ \E s \in Seq(CommandType), rep \in Seq(CommandType) :
       /\ Len(rep) = 2 /\ rep[1].id = p /\ rep[1].kind = "call" /\ rep[2].id = q /\ rep[2].kind = "call"
       /\ Len(rep[1].args) = 1 /\ Len(rep[2].args) = 1
       /\ rep[1].args[1] = InputArg(InputIndex(e.inputs, object), object, TRUE)
       /\ rep[2].args[1] = Result(at, p)
       /\ Spliced(s, d.commands, at, 0, 2, rep) /\ SameButArgs(e.commands, s)
       /\ \A i \in 1 .. Len(s) : \A k \in 1 .. Len(s[i].args) :
            e.commands[i].args[k] = Shifted(s[i].args[k], i, at, 2)

(* insertTransaction, given the inputs joined. *)
JoinedInputs(inputs, other) ==
  LET joined[i \in 0 .. Len(other.inputs)] ==
        IF i = 0 THEN inputs
        ELSE WithObject(joined[i - 1], other.inputs[i].object, other.inputs[i].mutable)
  IN joined[Len(other.inputs)]

(* InsertTransaction, once the inputs are joined. *)
InsertedInto(d, at, other, inputs) ==
  LET size == Len(other.commands)
      inserted == RemapCommandArguments(other.commands,
                    [i \in DOMAIN other.inputs |-> InputIndex(inputs, other.inputs[i].object)],
                    [i \in 1 .. size |-> at + i - 1])
      remap(arg, i) == Shifted(arg, i, at, size)
  IN [inputs |-> inputs,
      commands |-> MapArguments(Splice(d.commands, at, 0, inserted), remap)]

(* InsertTransaction in these words. *)
LEMMA InsertIs ==
  ASSUME NEW d, NEW at, NEW other
  PROVE  InsertTransaction(d, at, other) = InsertedInto(d, at, other, JoinedInputs(d.inputs, other))
BY DEF InsertTransaction, InsertedInto, JoinedInputs, Shifted, MapArguments

(* The other transaction has one input. *)
LEMMA JoinOne ==
  ASSUME NEW inputs, NEW other, NEW object, NEW m,
         Len(other.inputs) = 1, other.inputs[1].object = object, other.inputs[1].mutable = m
  PROVE  JoinedInputs(inputs, other) = WithObject(inputs, object, m)
<1> DEFINE Body(g) == [i \in 0 .. Len(other.inputs) |->
                    IF i = 0 THEN inputs
                    ELSE WithObject(g[i - 1], other.inputs[i].object, other.inputs[i].mutable)]
           joined == CHOOSE g : g = Body(g)
           new == WithObject(inputs, object, m)
           g1 == [i \in 0 .. 1 |-> IF i = 0 THEN inputs ELSE new]
<1>1. g1 = Body(g1)
  <2>1. \A i \in 0 .. 1 : i = 0 \/ i = 1
    OBVIOUS
  <2>2. \A i \in 0 .. 1 : g1[i] = IF i = 0 THEN inputs ELSE WithObject(g1[i - 1], other.inputs[i].object, other.inputs[i].mutable)
    <3>1. g1[0] = inputs /\ g1[1] = new /\ 1 - 1 = 0 /\ 1 # 0
      OBVIOUS
    <3> HIDE DEF g1
    <3>2. g1[1] = WithObject(g1[1 - 1], other.inputs[1].object, other.inputs[1].mutable)
      BY <3>1
    <3> QED
      BY <2>1, <3>1, <3>2
  <2>3. g1 = [i \in 0 .. 1 |-> g1[i]]
    OBVIOUS
  <2> HIDE DEF g1
  <2> QED
    BY <2>2, <2>3
<1>2. joined = Body(joined)
  <2> HIDE DEF g1, Body
  <2> QED
    BY <1>1
<1>3. JoinedInputs(inputs, other) = joined[Len(other.inputs)]
  BY DEF JoinedInputs
<1> HIDE DEF joined, g1
<1>4. joined[0] = inputs
  BY <1>2
<1>5. joined[1] = WithObject(joined[1 - 1], object, m)
  BY <1>2
<1>6. 1 - 1 = 0
  OBVIOUS
<1> QED
  BY <1>3, <1>4, <1>5, <1>6

(* What InsertTransaction returns. *)
LEMMA InsertPlaces ==
  ASSUME NEW d \in DataType, ApartIn(d.inputs), NEW at \in 1 .. Len(d.commands) + 1,
         NEW object \in Object, NEW p \in Name, NEW q \in Name
  PROVE  LET e == InsertTransaction(d, at, OtherOf(object, p, q))
         IN e \in DataType /\ Inserted1(d, e, at, object, p, q)
<1> DEFINE o == OtherOf(object, p, q)
           in1 == [object |-> object, mutable |-> TRUE]
           c1 == Command(p, "call", <<InputArg(1, object, TRUE)>>)
           c2 == Command(q, "call", <<Result(1, p)>>)
           inputs == WithObject(d.inputs, object, TRUE)
           h == InputIndex(inputs, object)
           a1 == InputArg(h, object, TRUE)
           a2 == Result(at, p)
           e == InsertTransaction(d, at, o)
<1>1. d.inputs \in Seq(InputType) /\ d.commands \in Seq(CommandType)
  BY DEF DataType
<1>2. at \in Nat /\ at > 0 /\ Len(d.commands) \in Nat
  BY <1>1, CommandParts
<1>3. inputs \in Seq(InputType) /\ HasObject(inputs, object, TRUE) /\ h \in Nat
  <2>1. inputs \in Seq(InputType) /\ HasObject(inputs, object, TRUE)
    BY <1>1, WithObjectGrows
  <2>2. h \in 1 .. Len(inputs)
    BY <2>1 DEF HasObject
  <2>3. Len(inputs) \in Nat
    <3> HIDE DEF inputs
    <3> QED
      BY <2>1, LenProperties
  <2>4. h \in Nat
    <3> HIDE DEF inputs, h
    <3> QED
      BY <2>2, <2>3
  <2> QED
    BY <2>1, <2>4
<1> HIDE DEF h
<1>4. o.inputs = <<in1>> /\ o.commands = <<c1, c2>>
  BY DEF OtherOf
<1>5. Len(<<in1>>) = 1 /\ <<in1>>[1] = in1 /\ DOMAIN <<in1>> = 1 .. 1
  OBVIOUS
<1>6. /\ InputArg(1, object, TRUE) \in ObjectType /\ a1 \in ObjectType /\ a2 \in ResultType /\ Result(1, p) \in ResultType
      /\ InputArg(1, object, TRUE).kind = "Input" /\ Result(1, p).kind = "Result"
      /\ InputArg(1, object, TRUE).at = 1 /\ Result(1, p).at = 1
  <2>1. 1 \in Nat /\ TRUE \in BOOLEAN
    OBVIOUS
  <2>2. InputArg(1, object, TRUE) \in ObjectType /\ InputArg(1, object, TRUE).kind = "Input" /\ InputArg(1, object, TRUE).at = 1
    <3> DEFINE m == TRUE
    <3>1. m \in BOOLEAN
      OBVIOUS
    <3> HIDE DEF m
    <3>2. InputArg(1, object, m) \in ObjectType /\ InputArg(1, object, m).kind = "Input" /\ InputArg(1, object, m).at = 1
      BY <2>1, <3>1, Constructed
    <3> QED
      BY <3>2 DEF m
  <2>3. a1 \in ObjectType
    BY <1>3, <2>1, Constructed
  <2>4. a2 \in ResultType
    BY <1>2, Constructed
  <2>5. Result(1, p) \in ResultType /\ Result(1, p).kind = "Result" /\ Result(1, p).at = 1
    BY <2>1, Constructed
  <2> QED
    BY <2>2, <2>3, <2>4, <2>5
<1> HIDE DEF a1, a2
<1>7. /\ c1 \in CommandType /\ c1.id = p /\ c1.kind = "call" /\ c1.args = <<InputArg(1, object, TRUE)>>
      /\ c2 \in CommandType /\ c2.id = q /\ c2.kind = "call" /\ c2.args = <<Result(1, p)>>
  <2>1. InputArg(1, object, TRUE) \in ArgType /\ Result(1, p) \in ArgType
    BY <1>6 DEF ArgType
  <2>2. \A a \in ArgType : <<a>> \in Seq(ArgType)
    OBVIOUS
  <2>3. "call" \in Kinds
    BY DEF Kinds
  <2> DEFINE b1 == <<InputArg(1, object, TRUE)>>
             b2 == <<Result(1, p)>>
  <2>4. b1 \in Seq(ArgType) /\ b2 \in Seq(ArgType)
    BY <2>1, <2>2
  <2> HIDE DEF b1, b2
  <2>5. LET c == Command(p, "call", b1) IN c \in CommandType /\ c.id = p /\ c.kind = "call" /\ c.args = b1
    BY <2>3, <2>4, Constructed
  <2>6. LET c == Command(q, "call", b2) IN c \in CommandType /\ c.id = q /\ c.kind = "call" /\ c.args = b2
    BY <2>3, <2>4, Constructed
  <2> QED
    BY <2>5, <2>6 DEF b1, b2
<1>8. e = InsertedInto(d, at, o, inputs)
  <2>1. Len(o.inputs) = 1 /\ o.inputs[1].object = object /\ o.inputs[1].mutable = TRUE
    BY <1>4, <1>5
  <2> HIDE DEF o, inputs
  <2>2. JoinedInputs(d.inputs, o) = WithObject(d.inputs, object, TRUE)
    <3> DEFINE m == TRUE
    <3>1. o.inputs[1].mutable = m
      BY <2>1
    <3> HIDE DEF m
    <3>2. JoinedInputs(d.inputs, o) = WithObject(d.inputs, object, m)
      <4>1. Len(o.inputs) = 1 /\ o.inputs[1].object = object
        BY <2>1
      <4> DEFINE d0 == d.inputs
      <4> HIDE DEF d0
      <4>2. JoinedInputs(d0, o) = WithObject(d0, object, m)
        BY <3>1, <4>1, JoinOne, Zenon
      <4> QED
        BY <4>2 DEF d0
    <3> QED
      BY <3>2 DEF m
  <2> QED
    BY <2>2, InsertIs DEF inputs
<1> DEFINE map1 == [i \in DOMAIN o.inputs |-> InputIndex(inputs, o.inputs[i].object)]
           map2 == [i \in 1 .. Len(o.commands) |-> at + i - 1]
           rep == RemapCommandArguments(o.commands, map1, map2)
           s == Splice(d.commands, at, 0, rep)
           x == [i \in DOMAIN s |-> [s[i] EXCEPT !.args =
                  [k \in DOMAIN s[i].args |-> Shifted(s[i].args[k], i, at, Len(o.commands))]]]
<1>9. e.inputs = inputs /\ e.commands = x /\ e = [inputs |-> inputs, commands |-> x]
  <2> HIDE DEF o
  <2> QED
    BY <1>8 DEF InsertedInto, MapArguments
<1> DEFINE E1 == [i \in 1 .. 2 |-> IF i = 1 THEN [k \in 1 .. 1 |-> a1] ELSE [k \in 1 .. 1 |-> a2]]
           oc == o.commands
<1>10. oc \in Seq(CommandType) /\ Len(oc) = 2 /\ oc[1] = c1 /\ oc[2] = c2
  <2> HIDE DEF c1, c2
  <2> QED
    BY <1>4, <1>7
<1>11. Len(c1.args) = 1 /\ c1.args[1] = InputArg(1, object, TRUE) /\ Len(c2.args) = 1 /\ c2.args[1] = Result(1, p)
       /\ DOMAIN c1.args = 1 .. 1 /\ DOMAIN c2.args = 1 .. 1
  <2> HIDE DEF c1, c2
  <2> QED
    BY <1>7
<1>12. rep = WithArgs(oc, E1)
  <2>1. map1[1] = h /\ map2[1] = at
    <3>1. map1[1] = InputIndex(inputs, in1.object)
      <4> HIDE DEF inputs, in1
      <4> QED
        BY <1>4, <1>5
    <3>2. in1.object = object
      OBVIOUS
    <3>3. Len(o.commands) = 2 /\ 1 \in 1 .. 2 /\ at + 1 - 1 = at
      BY <1>2, <1>10
    <3> QED
      BY <3>1, <3>2, <3>3 DEF h
  <2> HIDE DEF o, c1, c2, map1, map2
  <2> DEFINE f1(arg) == CASE arg.kind = "Input" -> [arg EXCEPT !.at = map1[arg.at]]
                          [] RefersToResult(arg) -> [arg EXCEPT !.at = map2[arg.at]]
                          [] OTHER -> arg
  <2>2. rep = [i \in 1 .. 2 |-> [oc[i] EXCEPT !.args = [k \in DOMAIN oc[i].args |-> f1(oc[i].args[k])]]]
    <3>1. DOMAIN oc = 1 .. 2
      BY <1>10
    <3>2. rep = [i \in DOMAIN oc |-> [oc[i] EXCEPT !.args = [k \in DOMAIN oc[i].args |-> f1(oc[i].args[k])]]]
      BY DEF RemapCommandArguments, MapArguments
    <3> HIDE DEF rep, f1
    <3> QED
      BY <3>1, <3>2
  <2>3. f1(InputArg(1, object, TRUE)) = a1
    <3>1. f1(InputArg(1, object, TRUE)) = [InputArg(1, object, TRUE) EXCEPT !.at = map1[1]]
      BY <1>6 DEF RefersToResult
    <3>2. [InputArg(1, object, TRUE) EXCEPT !.at = h] = InputArg(h, object, TRUE)
      <4> DEFINE m == TRUE
      <4> HIDE DEF m
      <4>1. [InputArg(1, object, m) EXCEPT !.at = h] = InputArg(h, object, m)
        BY DEF InputArg
      <4> QED
        BY <4>1 DEF m
    <3> QED
      BY <2>1, <3>1, <3>2 DEF a1
  <2>4. f1(Result(1, p)) = a2
    <3>1. f1(Result(1, p)) = [Result(1, p) EXCEPT !.at = map2[1]]
      BY <1>6 DEF RefersToResult
    <3>2. [Result(1, p) EXCEPT !.at = at] = Result(at, p)
      BY DEF Result
    <3> QED
      BY <2>1, <3>1, <3>2 DEF a2
  <2> HIDE DEF rep, f1, oc
  <2> HIDE DEF a1, a2
  <2>5. [k \in DOMAIN oc[1].args |-> f1(oc[1].args[k])] = [k \in 1 .. 1 |-> a1]
    <3>1. DOMAIN oc[1].args = 1 .. 1 /\ oc[1].args[1] = InputArg(1, object, TRUE) /\ \A k \in 1 .. 1 : k = 1
      BY <1>10, <1>11
    <3> DEFINE r1 == InputArg(1, object, TRUE)
    <3>2. f1(r1) = a1 /\ oc[1].args[1] = r1
      BY <2>3, <3>1
    <3> HIDE DEF r1
    <3>3. \A k \in 1 .. 1 : f1(oc[1].args[k]) = a1
      BY <3>1, <3>2
    <3> QED
      BY <3>1, <3>3
  <2>6. [k \in DOMAIN oc[2].args |-> f1(oc[2].args[k])] = [k \in 1 .. 1 |-> a2]
    BY <1>10, <1>11, <2>4
  <2>7. \A i \in 1 .. 2 : [k \in DOMAIN oc[i].args |-> f1(oc[i].args[k])] = E1[i]
    <3>1. E1[1] = [k \in 1 .. 1 |-> a1] /\ E1[2] = [k \in 1 .. 1 |-> a2]
      OBVIOUS
    <3>2. \A i \in 1 .. 2 : i = 1 \/ i = 2
      OBVIOUS
    <3> HIDE DEF E1
    <3> QED
      BY <2>5, <2>6, <3>1, <3>2
  <2> HIDE DEF E1
  <2> QED
    BY <1>10, <2>2, <2>7 DEF WithArgs
<1>13. /\ rep \in Seq(CommandType) /\ Len(rep) = 2 /\ rep[1].id = p /\ rep[1].kind = "call"
       /\ rep[2].id = q /\ rep[2].kind = "call" /\ Len(rep[1].args) = 1 /\ Len(rep[2].args) = 1
       /\ rep[1].args[1] = a1 /\ rep[2].args[1] = a2
  <2>1. E1[1] = [k \in 1 .. 1 |-> a1] /\ E1[2] = [k \in 1 .. 1 |-> a2]
    OBVIOUS
  <2>2. a1 \in ArgType /\ a2 \in ArgType
    BY <1>6 DEF ArgType
  <2> HIDE DEF E1, rep, oc, c1, c2
  <2>3. E1[1] \in [1 .. Len(oc[1].args) -> ArgType] /\ E1[2] \in [1 .. Len(oc[2].args) -> ArgType]
    BY <1>10, <1>11, <2>1, <2>2
  <2>4. \A i \in 1 .. Len(oc) : i = 1 \/ i = 2
    BY <1>10
  <2>5. \A i \in 1 .. Len(oc) : E1[i] \in [1 .. Len(oc[i].args) -> ArgType]
    BY <2>3, <2>4
  <2>6. /\ rep \in Seq(CommandType) /\ SameButArgs(rep, oc)
        /\ \A i \in 1 .. Len(oc) : \A k \in 1 .. Len(oc[i].args) : rep[i].args[k] = E1[i][k]
    BY SMTT(30), <1>10, <1>12, <2>5, MapAll
  <2>7. 1 \in 1 .. Len(oc) /\ 2 \in 1 .. Len(oc) /\ 1 \in 1 .. 1
    BY <1>10
  <2>8. rep[1].args[1] = E1[1][1] /\ rep[2].args[1] = E1[2][1]
    BY <1>10, <1>11, <2>6, <2>7
  <2>9. E1[1][1] = a1 /\ E1[2][1] = a2
    BY <2>1, <2>7
  <2> QED
    BY <1>7, <1>10, <1>11, <2>6, <2>7, <2>8, <2>9 DEF SameButArgs
<1> HIDE DEF rep
<1>14. s \in Seq(CommandType) /\ Spliced(s, d.commands, at, 0, 2, rep)
  <2>1. at + 0 <= Len(d.commands) + 1 /\ 0 \in {0, 1}
    BY <1>2
  <2> QED
    BY <1>1, <1>13, <2>1, SplicePlaces
<1> DEFINE E == [i \in 1 .. Len(s) |-> [k \in 1 .. Len(s[i].args) |-> Shifted(s[i].args[k], i, at, 2)]]
<1> HIDE DEF s
<1>15. /\ Len(s) \in Nat /\ DOMAIN s = 1 .. Len(s)
       /\ \A i \in 1 .. Len(s) : /\ DOMAIN s[i].args = 1 .. Len(s[i].args)
                                 /\ \A k \in 1 .. Len(s[i].args) : s[i].args[k] \in ArgType
  BY <1>14, CommandParts
<1>16. x = WithArgs(s, E)
  <2>1. Len(o.commands) = 2
    BY <1>10
  <2> HIDE DEF o
  <2>2. x = [i \in 1 .. Len(s) |-> [s[i] EXCEPT !.args =
                  [k \in DOMAIN s[i].args |-> Shifted(s[i].args[k], i, at, 2)]]]
    BY <1>15, <2>1
  <2>3. \A i \in 1 .. Len(s) : [k \in DOMAIN s[i].args |-> Shifted(s[i].args[k], i, at, 2)] = E[i]
    BY <1>15
  <2> HIDE DEF x, E
  <2> QED
    BY <2>2, <2>3 DEF WithArgs
<1>17. \A i \in 1 .. Len(s) : E[i] \in [1 .. Len(s[i].args) -> ArgType]
  <2> SUFFICES ASSUME NEW i \in 1 .. Len(s), NEW k \in 1 .. Len(s[i].args)
               PROVE Shifted(s[i].args[k], i, at, 2) \in ArgType
    OBVIOUS
  <2>1. i \in Nat /\ 2 \in Nat /\ s[i].args[k] \in ArgType
    BY <1>15
  <2> QED
    BY <1>2, <2>1, ShiftedParts
<1>18. /\ x \in Seq(CommandType) /\ SameButArgs(x, s)
       /\ \A i \in 1 .. Len(s) : \A k \in 1 .. Len(s[i].args) : x[i].args[k] = E[i][k]
  <2> HIDE DEF x, E
  <2>1. s \in Seq(CommandType)
    BY <1>14
  <2> QED
    BY <1>16, <1>17, <2>1, MapAll
<1>19. \A i \in 1 .. Len(s) : \A k \in 1 .. Len(s[i].args) :
         x[i].args[k] = Shifted(s[i].args[k], i, at, 2)
  BY <1>18
<1> HIDE DEF x, E, o, inputs
<1>20. Inserted1(d, e, at, object, p, q)
  <2> HIDE DEF e
  <2>1. rep[1].args[1] = InputArg(InputIndex(e.inputs, object), object, TRUE) /\ rep[2].args[1] = Result(at, p)
    BY <1>9, <1>13 DEF a1, a2, h
  <2>2. e.inputs = WithObject(d.inputs, object, TRUE)
    BY <1>9 DEF inputs
  <2> QED
    BY <1>9, <1>13, <1>14, <1>18, <1>19, <2>1, <2>2 DEF Inserted1
<1>21. e \in DataType
  BY <1>3, <1>9, <1>18 DEF DataType
<1> QED
  BY <1>20, <1>21 DEF e, o

(***************************************************************************)
(* The invariant implies the properties                                    *)
(***************************************************************************)

(* IndexOf among the names of commands. *)
LEMMA IndexOfNames ==
  ASSUME NEW c \in Seq(CommandType), NEW id
  PROVE  /\ IndexOf(Names(c), id) \in 0 .. Len(c)
         /\ IndexOf(Names(c), id) = 0 <=> id \notin NamesIn(c)
         /\ IndexOf(Names(c), id) # 0 => c[IndexOf(Names(c), id)].id = id
         /\ \A j \in 1 .. Len(c) : c[j].id = id => IndexOf(Names(c), id) <= j
<1> DEFINE x == Names(c)
           n == IndexOf(x, id)
<1>1. Len(c) \in Nat /\ DOMAIN c = 1 .. Len(c)
  BY CommandParts
<1>2. Len(x) = Len(c) /\ \A i \in 1 .. Len(c) : x[i] = c[i].id
  <2> DEFINE N == Len(c)
  <2>1. N \in Nat /\ x = [i \in 1 .. N |-> c[i].id]
    BY <1>1 DEF Names
  <2> HIDE DEF N
  <2>2. Len(x) = N /\ \A i \in 1 .. N : x[i] = c[i].id
    BY <2>1
  <2> QED
    BY <2>2 DEF N
<1> HIDE DEF x
<1>3. /\ n \in 0 .. Len(c) /\ (n # 0 => x[n] = id)
      /\ \A j \in 1 .. Len(c) : x[j] = id => n # 0 /\ n <= j
  BY <1>1, <1>2, Indexed
<1> HIDE DEF n
<1>4. n # 0 => n \in 1 .. Len(c)
  BY <1>1, <1>3
<1>5. n # 0 => c[n].id = id
  BY <1>2, <1>3, <1>4
<1>6. n = 0 <=> id \notin NamesIn(c)
  BY <1>2, <1>3, <1>4, <1>5 DEF NamesIn
<1> QED
  BY <1>3, <1>4, <1>5, <1>6, <1>2 DEF n, x

(* What #data is made of. *)
LEMMA DataParts ==
  ASSUME NEW d \in DataType
  PROVE  d.commands \in Seq(CommandType) /\ d.inputs \in Seq(InputType)
         /\ Len(d.commands) \in Nat /\ Len(d.inputs) \in Nat
BY LenProperties DEF DataType

(* Every handle that may be referred to leads to its result. *)
LEMMA HandleFits ==
  ASSUME BuilderTypes, HandlesPoint, ThunksStand, NEW id \in Referable
  PROVE  /\ Points(Handle(id), id) /\ Handle(id) \in 1 .. Size
         /\ id \in DOMAIN handles /\ (id \in Thunks => ~thunks[id].void)
<1>0. data.commands \in Seq(CommandType) /\ Size \in Nat
  BY DataParts DEF BuilderTypes, Size
<1>1. id \in DOMAIN handles /\ (id \in Thunks => ~thunks[id].void) /\ ~SecondHand(id)
  BY DEF Referable, Usable, Thunks
<1>2. CASE id \notin Thunks
  <2>1. Handle(id) = handles[id]
    BY <1>2 DEF Handle, HandleIn, Thunks
  <2>2. id \notin Replaced /\ handles[id] \in 1 .. Size /\ NameAt(handles[id]) = id
    BY <1>1, <1>2 DEF HandlesPoint
  <2>3. Points(Handle(id), id)
    BY <2>1, <2>2 DEF Points, PointsIn, NameAt, Size, MeaningIn, Replaced
  <2> QED
    BY <1>1, <2>1, <2>2, <2>3
<1>3. CASE id \in Thunks /\ id \in InData
  <2>1. PICK i \in 1 .. Size : NameAt(i) = id
    BY <1>3 DEF InData, NamesIn, NameAt, Size
  <2>2. thunks[id].resultIndex = i
    BY <1>3, <2>1 DEF HandlesPoint
  <2>3. Handle(id) = i
    BY <1>3, <2>2 DEF Handle, HandleIn, Thunks
  <2>4. Points(Handle(id), id)
    BY <1>3, <2>1, <2>3 DEF Points, PointsIn, NameAt, Size
  <2> QED
    BY <1>1, <2>1, <2>3, <2>4
<1>4. CASE id \in Thunks /\ id \notin InData
  <2>1. thunks[id].state = "resolved" /\ thunks[id].result # id
    BY <1>1, <1>4 DEF ThunksStand
  <2>2. thunks[id].result \notin Thunks
    <3>1. IndexOf(Names(data.commands), id) = 0
      BY <1>0, <1>4, IndexOfNames DEF InData
    <3> QED
      BY <1>1, <1>4, <2>1, <3>1 DEF SecondHand, Thunks
  <2>3. Points(thunks[id].resultIndex, id)
    BY <1>1, <1>4, <2>2 DEF HandlesPoint
  <2>4. Handle(id) = thunks[id].resultIndex
    BY <1>4 DEF Handle, HandleIn, Thunks
  <2> QED
    BY <1>1, <2>3, <2>4 DEF Points, PointsIn, Size
<1> QED
  BY <1>2, <1>3, <1>4

(* An index that points to a result denotes it. *)
LEMMA PointsDenotes ==
  ASSUME NEW i, NEW id, Points(i, id), data.commands \in Seq(CommandType)
  PROVE  Denotes(i, id)
<1>1. DOMAIN data.commands = 1 .. Len(data.commands)
  BY CommandParts
<1> QED
  BY <1>1 DEF Points, PointsIn, Denotes, MeaningIn, Meaning

(* The invariant implies ReferencesKeepMeaning: *)
LEMMA ReferencesFromInv ==
  ASSUME BuilderInv  PROVE ReferencesKeepMeaning
<1>0. /\ data.commands \in Seq(CommandType)
      /\ BuilderTypes /\ HandlesPoint /\ ThunksStand /\ ArgsFit
  BY DataParts DEF BuilderInv, BuilderTypes
<1>1. \A id \in Referable : Denotes(Handle(id), id)
  BY <1>0, HandleFits, PointsDenotes
<1>2. ASSUME NEW i \in DOMAIN data.commands, NEW k \in DOMAIN data.commands[i].args,
             data.commands[i].id \notin refused
      PROVE LET arg == data.commands[i].args[k]
       IN CASE arg.kind = "Input" ->
                 /\ data.inputs[arg.at].object = arg.of
                 /\ arg.mutable => data.inputs[arg.at].mutable
            [] RefersToResult(arg) ->
                 arg.of \in astray \/ Denotes(arg.at, arg.of) \/ NestedInMerged(arg)
            [] OTHER -> TRUE
  <2> DEFINE arg == data.commands[i].args[k]
  <2>1. i \in 1 .. Len(data.commands) /\ k \in 1 .. Len(data.commands[i].args)
    BY <1>0, CommandParts
  <2>2. /\ arg.kind = "Input" => ObjectFits(data.inputs, arg)
        /\ RefersToResult(arg) => ResultFits(data.commands, Thunks, standsFor, i, arg)
    BY <1>0, <1>2, <2>1 DEF ArgsFit, ArgsFitIn
  <2> HIDE DEF arg
  <2>3. CASE arg.kind = "Input"
    <3>1. /\ data.inputs[arg.at].object = arg.of
          /\ arg.mutable => data.inputs[arg.at].mutable
      BY <2>2, <2>3 DEF ObjectFits
    <3>2. ~RefersToResult(arg)
      BY <2>3 DEF RefersToResult
    <3> QED
      BY <2>3, <3>1, <3>2 DEF arg
  <2>4. CASE RefersToResult(arg)
    <3>1. arg.kind # "Input"
      BY <2>4 DEF RefersToResult
    <3>2. Denotes(arg.at, arg.of) \/ NestedInMerged(arg)
      <4>1. CASE Points(arg.at, arg.of)
        BY <1>0, <4>1, PointsDenotes
      <4>2. CASE arg.kind = "NestedResult" /\ data.commands[arg.at].id = Append(MeaningIn(standsFor, arg.of), 0)
        BY <4>2 DEF NestedInMerged, MeaningIn, Meaning
      <4> QED
        BY <2>2, <2>4, <4>1, <4>2 DEF ResultFits, Points
    <3> QED
      BY <2>4, <3>1, <3>2 DEF arg
  <2>5. CASE arg.kind # "Input" /\ ~RefersToResult(arg)
    BY <2>5 DEF arg
  <2> QED
    BY <2>3, <2>4, <2>5
<1> QED
  BY <1>1, <1>2 DEF ReferencesKeepMeaning

(* and NoForwardReference, *)
LEMMA NoForwardFromInv ==
  ASSUME BuilderInv  PROVE NoForwardReference
<1>0. data.commands \in Seq(CommandType) /\ ArgsFit
  BY DataParts DEF BuilderInv, BuilderTypes
<1> SUFFICES ASSUME NEW i \in DOMAIN data.commands, data.commands[i].id \notin refused,
                    NEW k \in DOMAIN data.commands[i].args, RefersToResult(data.commands[i].args[k])
             PROVE  LET arg == data.commands[i].args[k] IN arg.at < i \/ arg.of \in astray
  BY DEF NoForwardReference
<1>1. i \in 1 .. Len(data.commands) /\ k \in 1 .. Len(data.commands[i].args)
  BY <1>0, CommandParts
<1> QED
  BY <1>0, <1>1 DEF ArgsFit, ArgsFitIn, ResultFits

(* where Before, the order of the program, is Less or Inside, *)
LEMMA LessBefore ==
  ASSUME NEW p \in Name, NEW q \in Name, Less(p, q)
  PROVE  Before(p, q)
<1>1. PICK k \in 1 .. Len(p) : /\ k \in 1 .. Len(q)
                               /\ \A j \in 1 .. k - 1 : p[j] = q[j]
                               /\ p[k] < q[k]
  BY DEF Less
<1>2. Len(p) \in Nat /\ Len(q) \in Nat /\ DOMAIN p = 1 .. Len(p) /\ DOMAIN q = 1 .. Len(q)
      /\ (\A j \in 1 .. Len(p) : p[j] \in Nat) /\ (\A j \in 1 .. Len(q) : q[j] \in Nat)
  BY LenProperties, ElementOfSeq DEF Name
<1>3. k \in DOMAIN p \cap DOMAIN q
  BY <1>1, <1>2
<1> DEFINE a == SubSeq(p, 1, k - 1)
           b == SubSeq(q, 1, k - 1)
           n == IF 1 <= k - 1 THEN k - 1 - 1 + 1 ELSE 0
<1>4. n = k - 1 /\ n \in Nat /\ 1 \in Int /\ k - 1 \in Int /\ \A j \in 1 .. k - 1 : p[j] \in Nat /\ q[j] \in Nat /\ 1 + j - 1 = j
  BY <1>1, <1>2
<1>5. a \in Name /\ Len(a) = n /\ \A j \in 1 .. k - 1 - 1 + 1 : a[j] = p[1 + j - 1]
  <2> HIDE DEF n
  <2> QED
    BY <1>4, SubSeqProperties DEF Name, n
<1>6. b \in Name /\ Len(b) = n /\ \A j \in 1 .. k - 1 - 1 + 1 : b[j] = q[1 + j - 1]
  <2> HIDE DEF n
  <2> QED
    BY <1>4, SubSeqProperties DEF Name, n
<1> HIDE DEF a, b, n
<1>7. k - 1 - 1 + 1 = k - 1
  BY <1>4
<1>8. \A j \in 1 .. Len(a) : a[j] = b[j]
  BY <1>1, <1>4, <1>5, <1>6, <1>7
<1>9. a = b
  BY <1>5, <1>6, <1>8, SameName
<1>10. \E m \in DOMAIN p \cap DOMAIN q : SubSeq(p, 1, m - 1) = SubSeq(q, 1, m - 1) /\ p[m] < q[m]
  BY <1>1, <1>3, <1>9 DEF a, b
<1> QED
  BY <1>10 DEF Before

(* and CommandsInCallOrder. *)
LEMMA OrderFromInv ==
  ASSUME BuilderInv  PROVE CommandsInCallOrder
<1> DEFINE names == Names(data.commands)
           added == {i \in DOMAIN names : names[i][1] # 0 /\ Last(names[i]) # 0}
<1>0. /\ data.commands \in Seq(CommandType) /\ Twins /\ Size \in Nat
      /\ phase \in {"idle", "waiting", "resolving", "resolved"}
      /\ phase \in {"idle", "waiting"} => Gathering
      /\ phase \in {"resolving", "resolved"} => Settled
      /\ data \in DataType
  BY DataParts DEF BuilderInv, BuilderTypes, Size
<1>1. DOMAIN names = 1 .. Size /\ \A i \in 1 .. Size : names[i] = NameAt(i) /\ names[i] \in Name
  BY <1>0, CommandParts DEF Names, NameAt, Size
<1> SUFFICES ASSUME DOMAIN section = {Root}, NEW i \in added, NEW j \in added, i < j
             PROVE  \/ Before(names[i], names[j])
                    \/ names[i] = names[j] /\ names[i] \in late /\ Count(names[i]) = 2
  BY DEF CommandsInCallOrder
<1>2. /\ i \in 1 .. Size /\ j \in 1 .. Size /\ User(NameAt(i)) /\ User(NameAt(j))
      /\ NameAt(i) \in Name /\ NameAt(j) \in Name /\ names[i] = NameAt(i) /\ names[j] = NameAt(j)
  BY <1>1 DEF User
<1> HIDE DEF names, added
<1>3. Less(NameAt(i), NameAt(j)) \/ NameAt(i) = NameAt(j)
  <2>1. CASE phase \in {"resolving", "resolved"}
    BY <1>0, <1>2, <2>1 DEF Settled, InOrder, OrderIn, NameAt
  <2>2. CASE phase \in {"idle", "waiting"}
    <3>1. PICK b \in 0 .. Size : Base(b) /\ Placed(b) /\ LessArgs(b)
      BY <1>0, <2>2 DEF Gathering, Adds
    <3>2. CASE j <= b
      <4>1. i \in 1 .. b /\ j \in 1 .. b
        BY <1>0, <1>2, <3>1, <3>2
      <4> QED
        BY <1>2, <3>1, <4>1 DEF Base, InOrder, OrderIn, NameAt
    <3>3. CASE ~(j <= b)
      <4>1. j \in b + 1 .. Size
        BY <1>0, <1>2, <3>1, <3>3
      <4>2. NameAt(j) # <<>> /\ Front(NameAt(j)) = Root
        BY <3>1, <4>1 DEF Placed, Forks
      <4>3. CASE i <= b
        <5>1. i \in 1 .. b /\ NameAt(j) \in New(b)
          BY <1>0, <1>2, <3>1, <4>1, <4>3 DEF New
        <5>2. NameAt(i)[1] < NameAt(j)[1]
          BY <3>1, <5>1 DEF Base
        <5>3. NameAt(i) # <<>>
          <6>1. NameAt(i) \in Known
            BY <1>2 DEF Known, InData, NamesIn, NameAt, Size
          <6> QED
            BY <6>1 DEF BuilderInv, NamesKnown
        <5> QED
          BY <1>2, <4>2, <5>2, <5>3, FirstLess
      <4>4. CASE ~(i <= b)
        <5>1. i \in b + 1 .. Size
          BY <1>0, <1>2, <3>1, <4>4
        <5>2. NameAt(i) # <<>> /\ Front(NameAt(i)) = Root
          BY <3>1, <5>1 DEF Placed, Forks
        <5>3. Last(NameAt(i)) < Last(NameAt(j))
          BY <3>1, <4>1, <4>2, <5>1, <5>2 DEF Placed
        <5>4. /\ NameAt(i) = Append(Root, Last(NameAt(i))) /\ Last(NameAt(i)) \in Nat
              /\ NameAt(j) = Append(Root, Last(NameAt(j))) /\ Last(NameAt(j)) \in Nat
          BY <1>2, <4>2, <5>2, FrontName
        <5>5. Root \in Name
          BY DEF Root, Name
        <5> DEFINE u == Last(NameAt(i))
                   v == Last(NameAt(j))
        <5>6. u \in Nat /\ v \in Nat /\ u < v
          BY <5>3, <5>4
        <5> HIDE DEF u, v
        <5>7. Less(Append(Root, u), Append(Root, v))
          BY <5>5, <5>6, LessAppend
        <5> QED
          BY <5>4, <5>7 DEF u, v
      <4> QED
        BY <4>3, <4>4
    <3> QED
      BY <3>2, <3>3
  <2> QED
    BY <1>0, <2>1, <2>2
<1>4. CASE Less(NameAt(i), NameAt(j))
  BY <1>2, <1>4, LessBefore
<1>5. CASE NameAt(i) = NameAt(j)
  <2>1. i # j
    BY <1>2
  <2>2. NameAt(i) \in late /\ \A k \in 1 .. Size : NameAt(k) = NameAt(i) => k \in {i, j}
    BY <1>0, <1>2, <1>5, <2>1 DEF Twins, TwinsIn, NameAt, Size
  <2>3. {k \in DOMAIN data.commands : data.commands[k].id = NameAt(i)} = {i, j}
    BY <1>0, <1>2, <1>5, <2>2, CommandParts DEF NameAt, Size
  <2>4. Cardinality({i, j}) = 2
    <3>1. Cardinality({i}) = 1 /\ IsFiniteSet({i}) /\ j \notin {i} /\ {i, j} = {i} \cup {j}
      BY <2>1, FS_Singleton
    <3>2. Cardinality({i} \cup {j}) = Cardinality({i}) + 1
      BY <3>1, FS_AddElement
    <3> QED
      BY <3>1, <3>2
  <2> QED
    BY <1>2, <1>5, <2>2, <2>3, <2>4 DEF Count
<1> QED
  BY <1>3, <1>4, <1>5

(* One part of every section, the commands or the inputs. *)
PartOf(part) == [f \in Forks |-> section[f][part]]

(* Expanding a row gives a row. *)
LEMMA ExpandedType ==
  ASSUME NEW F, NEW X, NEW E, E = EntriesOf(F, X), NEW s \in [F -> Seq(E)], NEW x \in Seq(E)
  PROVE  FlattenSeq(Expanded(x, s)) \in Seq(E)
<1>1. Len(x) \in Nat /\ DOMAIN x = 1 .. Len(x) /\ \A i \in 1 .. Len(x) : x[i] \in E
  BY LenProperties, ElementOfSeq
<1>2. \A e \in E : e.fork = TRUE \/ e.fork = FALSE
  <2> SUFFICES ASSUME NEW e \in EntriesOf(F, X)  PROVE e.fork = TRUE \/ e.fork = FALSE
    OBVIOUS
  <2> QED
    BY DEF EntriesOf
<1>3. \A e \in E : e.fork = TRUE => e.name \in F
  <2> SUFFICES ASSUME NEW e \in EntriesOf(F, X), e.fork = TRUE  PROVE e.name \in F
    OBVIOUS
  <2> QED
    BY DEF EntriesOf
<1>4. ASSUME NEW i \in 1 .. Len(x)
      PROVE (IF x[i].fork THEN s[x[i].name] ELSE <<x[i]>>) \in Seq(E)
  <2>1. x[i] \in E
    BY <1>1
  <2>2. CASE x[i].fork = TRUE
    <3>1. x[i].name \in F
      BY <1>3, <2>1, <2>2
    <3>2. s[x[i].name] \in Seq(E)
      BY <3>1
    <3> QED
      BY <2>2, <3>2
  <2>3. CASE x[i].fork = FALSE
    <3>1. <<x[i]>> \in Seq(E)
      BY <2>1
    <3> QED
      BY <2>3, <3>1
  <2> QED
    BY <1>2, <2>1, <2>2, <2>3
<1> DEFINE N == Len(x)
           ss == Expanded(x, s)
<1>5. ss = [i \in 1 .. N |-> IF x[i].fork THEN s[x[i].name] ELSE <<x[i]>>] /\ N \in Nat
  BY <1>1 DEF Expanded
<1> HIDE DEF N
<1>6. ss \in Seq(Seq(E))
  <2>1. [i \in 1 .. N |-> IF x[i].fork THEN s[x[i].name] ELSE <<x[i]>>] \in Seq(Seq(E))
    BY <1>4, <1>5, IsASeq DEF N
  <2> QED
    BY <1>5, <2>1
<1> HIDE DEF ss
<1>7. FlattenSeq(ss) \in Seq(E)
  BY <1>6, FlattenPositions
<1> QED
  BY <1>7 DEF ss

(* Flatten is the last of the rows. *)
LEMMA FlattenIsRow ==
  ASSUME NEW part, NEW X, NEW E, E = EntriesOf(Forks, X), Root \in Forks, IsFiniteSet(Forks),
         PartOf(part) \in [Forks -> Seq(E)]
  PROVE  \E w : /\ Rows(w, PartOf(part))
                /\ Flatten(part) = [i \in DOMAIN w[Cardinality(Forks)] |-> w[Cardinality(Forks)][i].name]
<1> DEFINE s == PartOf(part)
           G == [n \in Nat |-> [x \in Seq(E) |-> FlattenSeq(Expanded(x, s))]]
<1>0. s[Root] \in Seq(E) /\ Root = <<>> /\ \A f \in Forks : s[f] = section[f][part]
  BY DEF Root, PartOf
<1>1. G \in [Nat -> [Seq(E) -> Seq(E)]]
  <2>1. s \in [Forks -> Seq(E)]
    OBVIOUS
  <2> HIDE DEF s
  <2>2. \A x \in Seq(E) : FlattenSeq(Expanded(x, s)) \in Seq(E)
    BY <2>1, ExpandedType
  <2> QED
    BY <2>2
<1>2. PICK w : Iteration(w, Seq(E), G, s[Root])
  <2> HIDE DEF s, G
  <2> QED
    BY <1>0, <1>1, IterateExists
<1>3. w \in [Nat -> Seq(E)] /\ w[0] = s[Root] /\ \A n \in Nat : w[n + 1] = FlattenSeq(Expanded(w[n], s))
  BY <1>2 DEF Iteration
<1>4. Rows(w, s)
  BY <1>0, <1>3 DEF Rows
<1> DEFINE Step(x) == FlattenSeq([i \in DOMAIN x |-> IF x[i].fork THEN section[x[i].name][part] ELSE <<x[i]>>])
<1>5. \A x \in Seq(E) : Step(x) = FlattenSeq(Expanded(x, s))
  <2> SUFFICES ASSUME NEW x \in Seq(E)  PROVE Step(x) = FlattenSeq(Expanded(x, s))
    OBVIOUS
  <2>1. \A i \in DOMAIN x : x[i] \in E
    BY LenProperties, ElementOfSeq
  <2>2. \A e \in E : (e.fork = TRUE \/ e.fork = FALSE) /\ (e.fork = TRUE => e.name \in Forks)
    <3> SUFFICES ASSUME NEW e \in EntriesOf(Forks, X)
                 PROVE (e.fork = TRUE \/ e.fork = FALSE) /\ (e.fork = TRUE => e.name \in Forks)
      OBVIOUS
    <3> QED
      BY DEF EntriesOf
  <2>3. ASSUME NEW i \in DOMAIN x
        PROVE  (IF x[i].fork THEN section[x[i].name][part] ELSE <<x[i]>>) = IF x[i].fork THEN s[x[i].name] ELSE <<x[i]>>
    <3>0. x[i] \in E
      BY <2>1
    <3>1. CASE x[i].fork = TRUE
      <4>1. s[x[i].name] = section[x[i].name][part]
        BY <1>0, <2>2, <3>0, <3>1
      <4> QED
        BY <3>1, <4>1
    <3>2. CASE x[i].fork = FALSE
      BY <3>2
    <3> QED
      BY <2>2, <3>0, <3>1, <3>2
  <2>4. Expanded(x, s) = [i \in DOMAIN x |-> IF x[i].fork THEN section[x[i].name][part] ELSE <<x[i]>>]
    BY <2>3 DEF Expanded
  <2> QED
    BY <2>4
<1> DEFINE Body(g) == [n \in Nat |-> IF n = 0 THEN section[Root][part] ELSE Step(g[n - 1])]
           flat == CHOOSE g : g = Body(g)
<1> HIDE DEF s
<1>6. w = Body(w)
  <2>1. ASSUME NEW n \in Nat  PROVE w[n] = IF n = 0 THEN section[Root][part] ELSE Step(w[n - 1])
    <3>1. CASE n = 0
      BY <1>0, <1>3, <3>1
    <3>2. CASE n # 0
      <4>1. n - 1 \in Nat /\ (n - 1) + 1 = n
        BY <3>2
      <4>2. w[n - 1] \in Seq(E) /\ w[n] = FlattenSeq(Expanded(w[n - 1], s))
        <5>1. w[(n - 1) + 1] = FlattenSeq(Expanded(w[n - 1], s))
          BY <1>3, <4>1
        <5> QED
          BY <1>3, <4>1, <5>1
      <4>3. w[n] = Step(w[n - 1])
        <5> HIDE DEF Step
        <5> QED
          BY <1>5, <4>2
      <4> QED
        BY <3>2, <4>3
    <3> QED
      BY <3>1, <3>2
  <2>2. w = [n \in Nat |-> w[n]]
    BY <1>3
  <2> HIDE DEF Step
  <2> QED
    BY <2>1, <2>2
<1> HIDE DEF Step
<1>7. flat = Body(flat)
  <2> HIDE DEF Body
  <2> QED
    BY <1>6
<1> HIDE DEF flat
<1> DEFINE P == {n \in Nat : flat[n] = w[n]}
<1>8. 0 \in P
  BY <1>0, <1>3, <1>7
<1>9. ASSUME NEW n \in P \cap Nat  PROVE n + 1 \in P
  <2>1. n + 1 \in Nat /\ n + 1 # 0 /\ (n + 1) - 1 = n
    OBVIOUS
  <2>2. flat[n + 1] = Step(flat[n])
    BY <1>7, <2>1
  <2>3. w[n + 1] = Step(w[n])
    BY <1>6, <2>1
  <2> QED
    BY <2>1, <2>2, <2>3
<1>10. Nat \subseteq P
  <2> HIDE DEF P
  <2> QED
    BY <1>8, <1>9, NatInduct
<1>11. \A n \in Nat : flat[n] = w[n]
  BY <1>10
<1> DEFINE N == Cardinality(Forks)
<1>12. Flatten(part) = [i \in DOMAIN flat[N] |-> flat[N][i].name]
  BY DEF Flatten, flat, Body, Step, Forks
<1>13. N \in Nat
  BY FS_CardinalityType
<1> HIDE DEF N
<1>14. Flatten(part) = [i \in DOMAIN w[N] |-> w[N][i].name]
  BY <1>11, <1>12, <1>13
<1> QED
  BY <1>4, <1>14 DEF s, N

(* A sequence of things that are in E. *)
LEMMA SeqRetype ==
  ASSUME NEW S, NEW x \in Seq(S), NEW E, \A i \in 1 .. Len(x) : x[i] \in E
  PROVE  x \in Seq(E)
<1> DEFINE N == Len(x)
<1>1. N \in Nat /\ x = [i \in 1 .. N |-> x[i]] /\ \A i \in 1 .. N : x[i] \in E
  BY LenProperties
<1> HIDE DEF N
<1>2. [i \in 1 .. N |-> x[i]] \in Seq(E)
  BY <1>1, IsASeq
<1> QED
  BY <1>1, <1>2

(* The entries of the commands that are new since the last preparation,    *)
(* and the others; and the order that the sections give them.              *)
NewEntry(b, e) ==
  \/ e.fork = TRUE /\ e.name \in Forks \ {Root}
  \/ e.fork = FALSE /\ \E j \in b + 1 .. Size : NameAt(j) = e.name
OldEntry(b, e) == e.fork = FALSE /\ \E k \in 1 .. b : e = Entry(NameAt(k))
Comes(b, d, e) ==
  \/ OldEntry(b, d) /\ (OldEntry(b, e) \/ NewEntry(b, e))
  \/ /\ NewEntry(b, d) /\ NewEntry(b, e)
     /\ \/ Less(d.name, e.name)
        \/ e.fork = FALSE /\ (Inside(d.name, e.name) \/ (d.name = e.name /\ d.fork = TRUE))

(* What sections are made of. *)
LEMMA SectionTypes ==
  ASSUME BuilderTypes, NEW f \in Forks
  PROVE  /\ section[f].commands \in Seq(CommandEntry) /\ Len(section[f].commands) \in Nat
         /\ section[f].inputs \in Seq(InputEntry) /\ Len(section[f].inputs) \in Nat
         /\ \A k \in 1 .. Len(section[f].commands) :
              /\ section[f].commands[k] \in CommandEntry /\ section[f].commands[k].name \in Name
              /\ section[f].commands[k].fork = TRUE \/ section[f].commands[k].fork = FALSE
              /\ section[f].commands[k] = [fork |-> section[f].commands[k].fork, name |-> section[f].commands[k].name]
         /\ \A k \in 1 .. Len(section[f].inputs) :
              /\ section[f].inputs[k] \in InputEntry
              /\ section[f].inputs[k].fork = TRUE \/ section[f].inputs[k].fork = FALSE
              /\ section[f].inputs[k] = [fork |-> section[f].inputs[k].fork, name |-> section[f].inputs[k].name]
              /\ section[f].inputs[k].fork = FALSE => section[f].inputs[k].name \in Object
         /\ f \in Name
<1>1. section[f].commands \in Seq(CommandEntry) /\ section[f].inputs \in Seq(InputEntry)
  BY DEF BuilderTypes, SectionType
<1>0. \A X : \A e \in ForkType \cup [fork : {FALSE}, name : X] :
        /\ e.fork = TRUE \/ e.fork = FALSE
        /\ e = [fork |-> e.fork, name |-> e.name]
        /\ e.fork = TRUE => e.name \in Name
        /\ e.fork = FALSE => e.name \in X
  <2> SUFFICES ASSUME NEW X, NEW e \in ForkType \cup [fork : {FALSE}, name : X]
               PROVE  /\ e.fork = TRUE \/ e.fork = FALSE
                      /\ e = [fork |-> e.fork, name |-> e.name]
                      /\ e.fork = TRUE => e.name \in Name
                      /\ e.fork = FALSE => e.name \in X
    OBVIOUS
  <2>1. CASE e \in [fork : {TRUE}, name : Name]
    <3>1. e = [fork |-> e.fork, name |-> e.name]
      BY <2>1
    <3>2. e.fork \in {TRUE} /\ e.name \in Name
      BY <2>1
    <3>3. e.fork = TRUE
      BY <3>2
    <3> QED
      BY <3>1, <3>2, <3>3
  <2>2. CASE e \in [fork : {FALSE}, name : X]
    <3>1. e = [fork |-> e.fork, name |-> e.name]
      BY <2>2
    <3>2. e.fork \in {FALSE} /\ e.name \in X
      BY <2>2
    <3>3. e.fork = FALSE
      BY <3>2
    <3> QED
      BY <3>1, <3>2, <3>3
  <2> QED
    BY <2>1, <2>2 DEF ForkType
<1>2. \A e \in CommandEntry : e.name \in Name /\ (e.fork = TRUE \/ e.fork = FALSE) /\ e = [fork |-> e.fork, name |-> e.name]
  BY <1>0 DEF CommandEntry
<1>3. \A e \in InputEntry : (e.fork = TRUE \/ e.fork = FALSE) /\ e = [fork |-> e.fork, name |-> e.name] /\ (e.fork = FALSE => e.name \in Object)
  BY <1>0 DEF InputEntry
<1>4. Len(section[f].commands) \in Nat /\ \A k \in 1 .. Len(section[f].commands) : section[f].commands[k] \in CommandEntry
  BY <1>1, LenProperties, ElementOfSeq
<1>5. Len(section[f].inputs) \in Nat /\ \A k \in 1 .. Len(section[f].inputs) : section[f].inputs[k] \in InputEntry
  BY <1>1, LenProperties, ElementOfSeq
<1>6. f \in Name
  BY DEF BuilderTypes
<1> QED
  BY <1>1, <1>2, <1>3, <1>4, <1>5, <1>6

(* An entry of a section is old, or of what its code added. *)
LEMMA EntryKinds ==
  ASSUME BuilderTypes, NEW b \in 0 .. Size, Base(b), Placed(b), NEW f \in Forks, NEW k \in 1 .. Len(section[f].commands)
  PROVE  LET e == section[f].commands[k]
         IN /\ f = Root /\ k <= b => OldEntry(b, e)
            /\ ~(f = Root /\ k <= b) => NewEntry(b, e) /\ e.name # <<>> /\ Front(e.name) = f
                                        /\ Len(e.name) = Len(f) + 1 /\ e.name = Append(f, Last(e.name)) /\ Last(e.name) \in Nat
            /\ e.fork = TRUE => e.name \in Forks \ {Root} /\ Len(e.name) = Len(f) + 1
            /\ e \in EntriesOf(Forks, Name)
<1> DEFINE e == section[f].commands[k]
<1>0. Size \in Nat
  BY DataParts DEF BuilderTypes, Size
<1>1. /\ e \in CommandEntry /\ e.name \in Name /\ (e.fork = TRUE \/ e.fork = FALSE)
      /\ e = [fork |-> e.fork, name |-> e.name] /\ f \in Name /\ k \in Nat
  <2>1. Len(section[f].commands) \in Nat
    BY SectionTypes
  <2>2. k \in Nat
    BY <2>1
  <2>3. e \in CommandEntry /\ e.name \in Name /\ (e.fork = TRUE \/ e.fork = FALSE)
    BY SectionTypes
  <2>4. e = [fork |-> e.fork, name |-> e.name] /\ f \in Name
    BY SectionTypes
  <2> QED
    BY <2>2, <2>3, <2>4
<1> HIDE DEF e
<1>2. CASE f = Root /\ k <= b
  <2>1. k \in 1 .. b /\ e = Entry(NameAt(k))
    BY <1>0, <1>1, <1>2 DEF Base, e
  <2>2. e.fork = FALSE
    BY <2>1 DEF Entry
  <2>3. OldEntry(b, e)
    BY <2>1, <2>2 DEF OldEntry
  <2>4. e \in EntriesOf(Forks, Name)
    BY <1>1, <2>2 DEF EntriesOf
  <2> QED
    BY <1>2, <2>2, <2>3, <2>4 DEF e
<1>3. CASE ~(f = Root /\ k <= b)
  <2>1. EntryFits(f, b, e)
    BY <1>3 DEF Placed, e
  <2>2. e.name # <<>> /\ Front(e.name) = f
    BY <2>1 DEF EntryFits
  <2>3. Len(e.name) = Len(f) + 1 /\ e.name = Append(f, Last(e.name)) /\ Last(e.name) \in Nat
    BY <1>1, <2>2, FrontName
  <2>4. e.fork = TRUE => e.name \in Forks \ {Root}
    BY <2>1, <2>2 DEF EntryFits, Root
  <2>5. NewEntry(b, e)
    BY <1>1, <2>1, <2>4 DEF NewEntry, EntryFits
  <2>6. e \in EntriesOf(Forks, Name)
    BY <1>1, <2>4 DEF EntriesOf
  <2> QED
    BY <1>3, <2>2, <2>3, <2>4, <2>5, <2>6 DEF e
<1> QED
  BY <1>2, <1>3

(* The sections of commands are a tree, *)
LEMMA CommandTree ==
  ASSUME BuilderTypes, NEW b \in 0 .. Size, Base(b), Placed(b)
  PROVE  /\ PartOf("commands") \in [Forks -> Seq(EntriesOf(Forks, Name))]
         /\ Tree(Forks, EntriesOf(Forks, Name), PartOf("commands"))
<1> DEFINE s == PartOf("commands")
           E == EntriesOf(Forks, Name)
<1>1. \A f \in Forks : s[f] = section[f].commands
  BY DEF PartOf
<1>2. \A f \in Forks : s[f] \in Seq(E)
  <2> SUFFICES ASSUME NEW f \in Forks  PROVE section[f].commands \in Seq(E)
    BY <1>1
  <2>1. section[f].commands \in Seq(CommandEntry)
    BY SectionTypes
  <2>2. \A k \in 1 .. Len(section[f].commands) : section[f].commands[k] \in E
    BY EntryKinds
  <2> HIDE DEF E
  <2> QED
    BY <2>1, <2>2, SeqRetype
<1>3. s \in [Forks -> Seq(E)]
  BY <1>2 DEF PartOf
<1>4. <<>> \in Forks /\ Forks \subseteq Seq(Nat)
  BY DEF BuilderTypes, Root, Name
<1>5. \A f \in Forks : \A k \in 1 .. Len(s[f]) :
        s[f][k].fork = TRUE => s[f][k].name \in Forks /\ Len(s[f][k].name) = Len(f) + 1
  BY <1>1, EntryKinds
<1>6. \A g \in Forks \ {<<>>} : Front(g) \in Forks
  BY DEF Placed, Root
<1>7. \A g \in Forks \ {<<>>} : \E k \in 1 .. Len(s[Front(g)]) : s[Front(g)][k] = [fork |-> TRUE, name |-> g]
  BY <1>1, <1>6 DEF Placed, Root, ForkEntry
<1> HIDE DEF s, E
<1>8. Tree(Forks, E, s)
  BY <1>3, <1>4, <1>5, <1>6, <1>7 DEF Tree
<1> QED
  BY <1>3, <1>8 DEF s, E

(* and in the order Comes. *)
LEMMA CommandOrders ==
  ASSUME BuilderTypes, NEW b \in 0 .. Size, Base(b), Placed(b), NEW R,
         R = {p \in EntriesOf(Forks, Name) \X EntriesOf(Forks, Name) : Comes(b, p[1], p[2])}
  PROVE  Orders(R, Forks, PartOf("commands"))
<1> DEFINE s == PartOf("commands")
           E == EntriesOf(Forks, Name)
<1>0. Size \in Nat /\ b \in Nat
  BY DataParts DEF BuilderTypes, Size
<1>1. \A f \in Forks : s[f] = section[f].commands
  BY DEF PartOf
<1>2. \A d, e : <<d, e>> \in R <=> d \in E /\ e \in E /\ Comes(b, d, e)
  BY DEF E
<1>3. \A e \in E : e.name \in Name /\ (e.fork = TRUE \/ e.fork = FALSE)
  <2> SUFFICES ASSUME NEW e \in EntriesOf(Forks, Name)  PROVE e.name \in Name /\ (e.fork = TRUE \/ e.fork = FALSE)
    OBVIOUS
  <2>1. Forks \subseteq Name
    BY DEF BuilderTypes
  <2> QED
    BY <2>1 DEF EntriesOf
<1> HIDE DEF E
<1>4. ASSUME NEW f \in Forks, NEW k \in 1 .. Len(s[f]), NEW l \in 1 .. Len(s[f]), k < l
      PROVE  <<s[f][k], s[f][l]>> \in R
  <2> DEFINE d == section[f].commands[k]
             e == section[f].commands[l]
  <2>0. k \in 1 .. Len(section[f].commands) /\ l \in 1 .. Len(section[f].commands) /\ k \in Nat /\ l \in Nat
    BY <1>1, SectionTypes
  <2>1. /\ f = Root /\ k <= b => OldEntry(b, d)
        /\ ~(f = Root /\ k <= b) => NewEntry(b, d) /\ Front(d.name) = f /\ d.name = Append(f, Last(d.name)) /\ Last(d.name) \in Nat
        /\ d \in E
    BY <2>0, EntryKinds DEF E
  <2>2. /\ f = Root /\ l <= b => OldEntry(b, e)
        /\ ~(f = Root /\ l <= b) => NewEntry(b, e) /\ Front(e.name) = f /\ e.name = Append(f, Last(e.name)) /\ Last(e.name) \in Nat
        /\ e \in E
    BY <2>0, EntryKinds DEF E
  <2>3. f = Root => k > b \/ k <= b
    BY <1>0, <2>0
  <2> HIDE DEF d, e
  <2>4. CASE f = Root /\ k <= b
    BY <1>2, <2>1, <2>2, <2>4, <1>1 DEF Comes, d, e
  <2>5. CASE ~(f = Root /\ k <= b)
    <3>1. f = Root => k > b /\ ~(l <= b)
      BY <1>0, <1>4, <2>0, <2>5
    <3>2. Last(d.name) < Last(e.name) \/ (d.name = e.name /\ d.fork /\ ~e.fork)
      BY <1>4, <2>0, <3>1 DEF Placed, d, e
    <3>3. CASE Last(d.name) < Last(e.name)
      <4>1. f \in Name
        BY DEF BuilderTypes
      <4> DEFINE u == Last(d.name)
                 v == Last(e.name)
      <4>2. u \in Nat /\ v \in Nat /\ u < v /\ d.name = Append(f, u) /\ e.name = Append(f, v)
        BY <2>1, <2>2, <2>5, <3>1, <3>3
      <4> HIDE DEF u, v
      <4>3. Less(d.name, e.name)
        BY <4>1, <4>2, LessAppend
      <4> QED
        BY SMTT(30), <1>1, <1>2, <2>1, <2>2, <2>5, <3>1, <4>3 DEF Comes, d, e
    <3>4. CASE d.name = e.name /\ d.fork /\ ~e.fork
      <4>1. d.fork = TRUE /\ e.fork = FALSE
        BY <1>3, <2>1, <2>2, <3>4
      <4> QED
        BY <1>1, <1>2, <2>1, <2>2, <2>5, <3>1, <3>4, <4>1 DEF Comes, d, e
    <3> QED
      BY <3>2, <3>3, <3>4
  <2> QED
    BY <2>4, <2>5
<1>5. ASSUME NEW f \in Forks, NEW k \in 1 .. Len(s[f]), NEW e
      PROVE  /\ <<[fork |-> TRUE, name |-> f], e>> \in R => <<s[f][k], e>> \in R
             /\ <<e, [fork |-> TRUE, name |-> f]>> \in R => <<e, s[f][k]>> \in R
  <2> DEFINE x == section[f].commands[k]
             F0 == [fork |-> TRUE, name |-> f]
  <2>0. k \in 1 .. Len(section[f].commands)
    BY <1>1
  <2>1. /\ ~(f = Root /\ k <= b) => NewEntry(b, x) /\ x.name = Append(f, Last(x.name)) /\ Last(x.name) \in Nat
        /\ x \in E
    BY <2>0, EntryKinds DEF E
  <2>2. F0.fork = TRUE /\ F0.name = f /\ f \in Name
    BY DEF BuilderTypes
  <2>3. ~OldEntry(b, F0)
    BY <2>2 DEF OldEntry
  <2>4. NewEntry(b, F0) => f # Root
    BY <2>2 DEF NewEntry
  <2>5. f # Root => Inside(x.name, f) /\ NewEntry(b, x)
    BY <2>1, <2>2, AppendedName
  <2> HIDE DEF x, F0
  <2>6. ASSUME <<F0, e>> \in R  PROVE <<x, e>> \in R
    <3>1. /\ e \in E /\ NewEntry(b, e) /\ f # Root
          /\ \/ Less(f, e.name)
             \/ e.fork = FALSE /\ (Inside(f, e.name) \/ f = e.name)
      BY <1>2, <2>2, <2>3, <2>4, <2>6 DEF Comes
    <3>2. e.name \in Name /\ x.name \in Name
      BY <1>3, <2>1, <3>1
    <3>3. Less(x.name, e.name) \/ (e.fork = FALSE /\ Inside(x.name, e.name))
      BY <2>2, <2>5, <3>1, <3>2, LessInside, InsideTransitive
    <3> QED
      BY <1>2, <2>1, <2>5, <3>1, <3>3 DEF Comes
  <2>7. ASSUME <<e, F0>> \in R  PROVE <<e, x>> \in R
    <3>1. e \in E /\ f # Root /\ (OldEntry(b, e) \/ (NewEntry(b, e) /\ Less(e.name, f)))
      BY <1>2, <2>2, <2>3, <2>4, <2>7 DEF Comes
    <3>2. e.name \in Name /\ x.name \in Name
      BY <1>3, <2>1, <3>1
    <3>3. CASE OldEntry(b, e)
      BY <1>2, <2>1, <2>5, <3>1, <3>3 DEF Comes
    <3>4. CASE NewEntry(b, e) /\ Less(e.name, f)
      <4>1. Less(e.name, x.name)
        BY <2>2, <2>5, <3>1, <3>2, <3>4, LessInside
      <4> QED
        BY <1>2, <2>1, <2>5, <3>1, <3>4, <4>1 DEF Comes
    <3> QED
      BY <3>1, <3>3, <3>4
  <2> QED
    BY <1>1, <2>6, <2>7 DEF x, F0
<1> HIDE DEF s
<1>6. Orders(R, Forks, s)
  BY <1>4, <1>5 DEF Orders
<1> QED
  BY <1>6 DEF s

(* What the name of a command is. *)
LEMMA NameAtParts ==
  ASSUME BuilderTypes, NamesKnown, NEW i \in 1 .. Size
  PROVE  /\ NameAt(i) \in InData /\ NameAt(i) \in Known /\ NameAt(i) \in Name /\ NameAt(i) # <<>>
         /\ Made(NameAt(i)) /\ Len(NameAt(i)) \in Nat /\ 1 \in 1 .. Len(NameAt(i)) /\ NameAt(i)[1] \in Nat
         /\ KindAt(i) \in Kinds /\ ArgsAt(i) \in Seq(ArgType) /\ Len(ArgsAt(i)) \in Nat
         /\ data.commands[i] \in CommandType
<1>0. Size \in Nat /\ data.commands \in Seq(CommandType)
  BY DataParts DEF BuilderTypes, Size
<1>1. NameAt(i) \in InData /\ NameAt(i) \in Known
  BY DEF InData, NamesIn, NameAt, Known, Size
<1>2. NameAt(i) \in Name /\ NameAt(i) # <<>> /\ Made(NameAt(i))
  BY <1>1 DEF NamesKnown
<1> DEFINE u == NameAt(i)
<1>3. Len(u) \in Nat /\ Len(u) # 0 /\ \A j \in 1 .. Len(u) : u[j] \in Nat
  BY <1>2, NameParts, EmptySeq DEF Name
<1> HIDE DEF u
<1>4. 1 \in 1 .. Len(u)
  BY <1>3
<1>5. u[1] \in Nat
  BY <1>3, <1>4
<1>6. /\ KindAt(i) \in Kinds /\ ArgsAt(i) \in Seq(ArgType) /\ Len(ArgsAt(i)) \in Nat
      /\ data.commands[i] \in CommandType
  BY <1>0, CommandParts DEF KindAt, ArgsAt, Size
<1> QED
  BY <1>1, <1>2, <1>3, <1>4, <1>5, <1>6 DEF u

(* What the sections of the commands flatten to: the names of the b old    *)
(* commands, and those of the new ones, every function after what it added.*)
FlatFits(flat, b) ==
  /\ flat \in Seq(Name) /\ Len(flat) = Size
  /\ \A k \in 1 .. b : flat[k] = NameAt(k)
  /\ \A i \in b + 1 .. Size : \E j \in b + 1 .. Size : flat[i] = NameAt(j)
  /\ \A j \in b + 1 .. Size : \E i \in b + 1 .. Size : flat[i] = NameAt(j)
  /\ \A i, j \in b + 1 .. Size : i < j => Post(flat[i], flat[j])

(* New commands have new names. *)
LEMMA NewNotOld ==
  ASSUME BuilderTypes, NamesKnown, NEW b \in 0 .. Size, Base(b), NEW i \in 1 .. b, NEW j \in b + 1 .. Size
  PROVE  NameAt(i) # NameAt(j)
<1>0. Size \in Nat /\ data.commands \in Seq(CommandType)
  BY DataParts DEF BuilderTypes, Size
<1>1. NameAt(j) \in New(b)
  BY DEF New
<1>2. NameAt(i)[1] < NameAt(j)[1]
  BY <1>1 DEF Base
<1>3. NameAt(i)[1] \in Nat
  <2>1. i \in 1 .. Size
    BY <1>0
  <2> QED
    BY <2>1, NameAtParts
<1> SUFFICES ASSUME NameAt(i) = NameAt(j) PROVE FALSE
  OBVIOUS
<1> DEFINE u == NameAt(i)[1]
<1>4. u < u /\ u \in Nat
  BY <1>2, <1>3
<1> HIDE DEF u
<1> QED
  BY <1>4

(* Flatten names every command once, in this order. *)
LEMMA FlatCommands ==
  ASSUME BuilderTypes, NamesKnown, NEW b \in 0 .. Size, Base(b), Placed(b)
  PROVE  FlatFits(Flatten("commands"), b)
<1> DEFINE s == PartOf("commands")
           E == EntriesOf(Forks, Name)
           N == Cardinality(Forks)
           R == {p \in E \X E : Comes(b, p[1], p[2])}
           flat == Flatten("commands")
<1>0. /\ Size \in Nat /\ b \in Nat /\ b <= Size
      /\ Root \in Forks /\ Root = <<>> /\ IsFiniteSet(Forks)
  BY DataParts DEF BuilderTypes, Size, Root
<1>1. s \in [Forks -> Seq(E)] /\ Tree(Forks, E, s)
  BY CommandTree
<1>2. Orders(R, Forks, s)
  BY CommandOrders
<1>3. \A f \in Forks : s[f] = section[f].commands
  BY DEF PartOf
<1>4. \A d, e : <<d, e>> \in R <=> d \in E /\ e \in E /\ Comes(b, d, e)
  OBVIOUS
<1>5. \A e \in E : e.name \in Name /\ (e.fork = TRUE \/ e.fork = FALSE)
  <2> SUFFICES ASSUME NEW e \in EntriesOf(Forks, Name)  PROVE e.name \in Name /\ (e.fork = TRUE \/ e.fork = FALSE)
    OBVIOUS
  <2>1. Forks \subseteq Name
    BY DEF BuilderTypes
  <2> QED
    BY <2>1 DEF EntriesOf
<1>6. PICK v : Rows(v, s) /\ flat = [i \in DOMAIN v[N] |-> v[N][i].name]
  <2> HIDE DEF flat
  <2> QED
    BY <1>0, <1>1, FlattenIsRow DEF flat
<1>7. b <= Len(s[<<>>]) /\ \A k \in 1 .. b : s[<<>>][k].fork = FALSE /\ s[<<>>][k].name = NameAt(k)
  <2> HIDE DEF s
  <2>1. s[<<>>] = section[Root].commands
    BY <1>0, <1>3
  <2>2. b <= Len(section[Root].commands) /\ \A k \in 1 .. b : section[Root].commands[k] = Entry(NameAt(k))
    BY DEF Base
  <2>3. \A x : Entry(x).fork = FALSE /\ Entry(x).name = x
    BY DEF Entry
  <2> QED
    BY <2>1, <2>2, <2>3
<1> DEFINE w == v[N]
<1> HIDE DEF R, flat, s
<1>8. Leaves(w, Forks, E, s) /\ InRow(w, R, s, b)
  <2>1. E = EntriesOf(Forks, Name) /\ b \in Nat /\ Rows(v, s) /\ IsFiniteSet(Forks)
    BY <1>0, <1>6
  <2> HIDE DEF E
  <2> QED
    BY <1>1, <1>2, <1>7, <2>1, FlattenedRow
<1> DEFINE n == Len(w)
<1> HIDE DEF E
<1>9. /\ w \in Seq(E) /\ n \in Nat /\ DOMAIN w = 1 .. n /\ b <= n
      /\ \A i \in 1 .. n : w[i] \in E
      /\ \A i \in 1 .. n : w[i].fork = FALSE
  <2>1. w \in Seq(E)
    BY <1>8 DEF Leaves
  <2>2. n \in Nat /\ DOMAIN w = 1 .. n /\ \A i \in 1 .. n : w[i] \in E
    BY <2>1, LenProperties, ElementOfSeq
  <2> QED
    BY <1>8, <2>1, <2>2 DEF Leaves, InRow
<1> HIDE DEF w, N
<1>10. flat \in Seq(Name) /\ Len(flat) = n /\ \A i \in 1 .. n : flat[i] = w[i].name
  <2>1. flat = [i \in 1 .. n |-> w[i].name]
    BY <1>6, <1>9 DEF w
  <2> HIDE DEF n
  <2>2. n \in Nat /\ \A i \in 1 .. n : w[i].name \in Name
    BY <1>5, <1>9
  <2>3. [i \in 1 .. n |-> w[i].name] \in Seq(Name)
    BY <2>2, IsASeq
  <2> QED
    BY <2>1, <2>2, <2>3
<1>11. \A k \in 1 .. b : flat[k] = NameAt(k) /\ w[k].name = NameAt(k)
  <2> SUFFICES ASSUME NEW k \in 1 .. b  PROVE flat[k] = NameAt(k) /\ w[k].name = NameAt(k)
    OBVIOUS
  <2>1. k \in 1 .. n /\ w[k] = s[<<>>][k]
    BY <1>8, <1>9, <1>0 DEF InRow
  <2> QED
    BY <1>7, <1>10, <2>1
<1>12. ASSUME NEW i \in b + 1 .. n  PROVE i \in 1 .. n /\ NewEntry(b, w[i]) /\ w[i] \in E /\ \E j \in b + 1 .. Size : flat[i] = NameAt(j)
  <2>0. i \in 1 .. n
    BY <1>0, <1>9
  <2>1. PICK f \in Forks : \E k \in 1 .. Len(s[f]) : (f = <<>> => k > b) /\ w[i] = s[f][k]
    BY <1>1, <1>8 DEF InRow
  <2>2. PICK k \in 1 .. Len(s[f]) : (f = <<>> => k > b) /\ w[i] = s[f][k]
    BY <2>1
  <2>3. k \in 1 .. Len(section[f].commands) /\ w[i] = section[f].commands[k] /\ Len(section[f].commands) \in Nat
    BY <1>3, <2>2, SectionTypes
  <2>4. ~(f = Root /\ k <= b)
    BY <1>0, <2>2, <2>3
  <2>5. NewEntry(b, w[i])
    BY <2>3, <2>4, EntryKinds
  <2> QED
    BY <1>9, <1>10, <2>0, <2>5 DEF NewEntry
<1>13. \A i \in b + 1 .. n : ~OldEntry(b, w[i])
  <2> SUFFICES ASSUME NEW i \in b + 1 .. n, OldEntry(b, w[i])  PROVE FALSE
    OBVIOUS
  <2>1. PICK k \in 1 .. b : w[i].name = NameAt(k)
    BY DEF OldEntry, Entry
  <2>2. PICK j \in b + 1 .. Size : flat[i] = NameAt(j)
    BY <1>12
  <2>3. NameAt(k) = NameAt(j)
    BY <1>10, <1>12, <2>1, <2>2
  <2> QED
    BY <2>3, NewNotOld
<1>14. ASSUME NEW i \in b + 1 .. n, NEW j \in b + 1 .. n, i < j  PROVE Post(flat[i], flat[j]) /\ flat[i] # flat[j]
  <2>1. i \in 1 .. n /\ j \in 1 .. n
    BY <1>12
  <2>2. <<w[i], w[j]>> \in R
    BY <1>8, <1>14, <2>1 DEF InRow
  <2>3. Comes(b, w[i], w[j])
    BY <1>4, <2>2 DEF R, E
  <2>4. Less(w[i].name, w[j].name) \/ Inside(w[i].name, w[j].name)
    BY <1>9, <1>13, <2>1, <2>3 DEF Comes
  <2>5. flat[i] = w[i].name /\ flat[j] = w[j].name /\ w[i].name \in Name /\ w[j].name \in Name
    BY <1>5, <1>9, <1>10, <2>1 DEF E
  <2>6. Post(flat[i], flat[j])
    BY <2>4, <2>5 DEF Post
  <2> QED
    BY <2>5, <2>6, PostOrder
<1>15. ASSUME NEW j \in b + 1 .. Size  PROVE \E i \in b + 1 .. n : flat[i] = NameAt(j)
  <2>1. PICK k \in 1 .. Len(section[Front(NameAt(j))].commands) :
            section[Front(NameAt(j))].commands[k] = Entry(NameAt(j)) /\ Front(NameAt(j)) \in Forks
    BY DEF Placed
  <2>2. Entry(NameAt(j)).fork = FALSE /\ Entry(NameAt(j)).name = NameAt(j)
    BY DEF Entry
  <2>3. PICK i \in 1 .. n : w[i] = Entry(NameAt(j))
    BY <1>3, <1>8, <2>1, <2>2 DEF Leaves
  <2>4. flat[i] = NameAt(j)
    BY <1>10, <2>2, <2>3
  <2>5. i \in b + 1 .. n
    <3> SUFFICES ASSUME i \in 1 .. b  PROVE FALSE
      BY <1>0, <1>9
    <3>1. NameAt(i) = NameAt(j)
      BY <1>11, <2>4
    <3> QED
      BY <3>1, NewNotOld
  <2> QED
    BY <2>4, <2>5
<1>16. ASSUME NEW i \in b + 1 .. Size, NEW j \in b + 1 .. Size, NameAt(i) = NameAt(j)  PROVE i = j
  <2>0. i \in Nat /\ j \in Nat /\ i \in 1 .. Size /\ j \in 1 .. Size
    BY <1>0
  <2> DEFINE u == Last(NameAt(i))
  <2>1. u \in Nat
    <3>1. NameAt(i) \in Name /\ NameAt(i) # <<>>
      BY <2>0, NameAtParts
    <3> QED
      BY <3>1, FrontName
  <2>2. (i < j => u < u) /\ (j < i => u < u)
    BY <1>16 DEF Placed
  <2> HIDE DEF u
  <2> QED
    BY <2>0, <2>1, <2>2
<1>17. n = Size
  <2> DEFINE u == [i \in 1 .. Size |-> NameAt(i)]
  <2>1. \A i \in b + 1 .. Size : u[i] = NameAt(i)
    BY <1>0
  <2>2. \A i, j \in b + 1 .. n : flat[i] = flat[j] => i = j
    <3> SUFFICES ASSUME NEW i \in b + 1 .. n, NEW j \in b + 1 .. n, flat[i] = flat[j]  PROVE i = j
      OBVIOUS
    <3>1. ~(i < j) /\ ~(j < i) /\ i \in Nat /\ j \in Nat
      BY <1>0, <1>9, <1>14
    <3> QED
      BY <3>1
  <2>3. \A i, j \in b + 1 .. Size : u[i] = u[j] => i = j
    BY <1>16, <2>1
  <2>4. \A i \in b + 1 .. Size : \E j \in b + 1 .. n : flat[j] = u[i]
    BY <1>15, <2>1
  <2>5. \A j \in b + 1 .. n : \E i \in b + 1 .. Size : u[i] = flat[j]
    <3> SUFFICES ASSUME NEW j \in b + 1 .. n  PROVE \E i \in b + 1 .. Size : u[i] = flat[j]
      OBVIOUS
    <3>1. PICK i \in b + 1 .. Size : flat[j] = NameAt(i)
      BY <1>12
    <3> QED
      BY <2>1, <3>1
  <2> HIDE DEF u, n
  <2>6. Size = n
    <3>1. b \in Nat /\ Size \in Nat /\ n \in Nat /\ b <= Size /\ b <= n
      BY <1>0, <1>9
    <3>2. SameNames(u, Size, flat, n, b)
      BY <2>2, <2>3, <2>4, <2>5 DEF SameNames
    <3> QED
      BY <3>1, <3>2, SameLength
  <2> QED
    BY <2>6
<1> HIDE DEF n
<1>18. FlatFits(flat, b)
  BY <1>10, <1>11, <1>12, <1>14, <1>15, <1>17 DEF FlatFits
<1> QED
  BY <1>18 DEF flat

(* The entry x is d, or in a section underneath it.                        *)
Covers(d, x) ==
  \/ x = d
  \/ /\ d.fork = TRUE
     /\ \E h \in Forks : /\ h = d.name \/ Inside(h, d.name)
                         /\ \E m \in 1 .. Len(section[h].inputs) : section[h].inputs[m] = x

(* An entry of an inputs section. *)
LEMMA InputKinds ==
  ASSUME BuilderTypes, InputsPlaced, NEW f \in Forks, NEW k \in 1 .. Len(section[f].inputs)
  PROVE  LET e == section[f].inputs[k]
         IN /\ e.fork = TRUE => /\ e.name \in Forks \ {Root} /\ Len(e.name) = Len(f) + 1
                                /\ e.name \in Name /\ Inside(e.name, f) /\ e = ForkEntry(e.name)
            /\ e.fork = FALSE => /\ \E i \in 1 .. Len(data.inputs) : data.inputs[i].object = e.name
                                 /\ e.name \in Object /\ e = Entry(e.name)
            /\ e \in EntriesOf(Forks, Object) /\ (e.fork = TRUE \/ e.fork = FALSE)
<1> DEFINE e == section[f].inputs[k]
<1>1. /\ e \in InputEntry /\ (e.fork = TRUE \/ e.fork = FALSE)
      /\ e = [fork |-> e.fork, name |-> e.name] /\ f \in Name
      /\ e.fork = FALSE => e.name \in Object
  BY SectionTypes
<1>2. InputEntryFits(f, e)
  BY DEF InputsPlaced
<1> HIDE DEF e
<1>3. CASE e.fork = TRUE
  <2>1. e.name # <<>> /\ Front(e.name) = f /\ e.name \in Forks
    BY <1>2, <1>3 DEF InputEntryFits
  <2>2. e.name \in Name
    BY <2>1 DEF BuilderTypes
  <2>3. Len(e.name) = Len(f) + 1 /\ Inside(e.name, f)
    BY <2>1, <2>2, FrontName
  <2>4. e \in EntriesOf(Forks, Object)
    BY <1>1, <1>3, <2>1 DEF EntriesOf
  <2>5. e = ForkEntry(e.name)
    BY <1>1, <1>3 DEF ForkEntry
  <2> QED
    BY <1>3, <2>1, <2>2, <2>3, <2>4, <2>5 DEF e, Root
<1>4. CASE e.fork = FALSE
  <2>1. \E i \in 1 .. Len(data.inputs) : data.inputs[i].object = e.name
    BY <1>2, <1>4 DEF InputEntryFits
  <2>2. e \in EntriesOf(Forks, Object) /\ e.name \in Object
    BY <1>1, <1>4 DEF EntriesOf
  <2>3. e = Entry(e.name)
    BY <1>1, <1>4 DEF Entry
  <2> QED
    BY <1>4, <2>1, <2>2, <2>3 DEF e
<1> QED
  BY <1>1, <1>3, <1>4 DEF e

(* The sections of inputs are a tree, *)
LEMMA InputTree ==
  ASSUME BuilderTypes, NEW b \in 0 .. Size, Placed(b), InputsPlaced
  PROVE  /\ PartOf("inputs") \in [Forks -> Seq(EntriesOf(Forks, Object))]
         /\ Tree(Forks, EntriesOf(Forks, Object), PartOf("inputs"))
<1> DEFINE s == PartOf("inputs")
           E == EntriesOf(Forks, Object)
<1>1. \A f \in Forks : s[f] = section[f].inputs
  BY DEF PartOf
<1>2. \A f \in Forks : s[f] \in Seq(E)
  <2> SUFFICES ASSUME NEW f \in Forks  PROVE section[f].inputs \in Seq(E)
    BY <1>1
  <2>1. section[f].inputs \in Seq(InputEntry)
    BY SectionTypes
  <2>2. \A k \in 1 .. Len(section[f].inputs) : section[f].inputs[k] \in E
    BY InputKinds
  <2> HIDE DEF E
  <2> QED
    BY <2>1, <2>2, SeqRetype
<1>3. s \in [Forks -> Seq(E)]
  BY <1>2 DEF PartOf
<1>4. <<>> \in Forks /\ Forks \subseteq Seq(Nat)
  BY DEF BuilderTypes, Root, Name
<1>5. \A f \in Forks : \A k \in 1 .. Len(s[f]) :
        s[f][k].fork = TRUE => s[f][k].name \in Forks /\ Len(s[f][k].name) = Len(f) + 1
  BY <1>1, InputKinds
<1>6. \A g \in Forks \ {<<>>} : Front(g) \in Forks
  BY DEF Placed, Root
<1>7. \A g \in Forks \ {<<>>} : \E k \in 1 .. Len(s[Front(g)]) : s[Front(g)][k] = [fork |-> TRUE, name |-> g]
  BY <1>1, <1>6 DEF InputsPlaced, Root, ForkEntry
<1> HIDE DEF s, E
<1>8. Tree(Forks, E, s)
  BY <1>3, <1>4, <1>5, <1>6, <1>7 DEF Tree
<1> QED
  BY <1>3, <1>8 DEF s, E

(* (equally long prefixes of a name are equal) *)
LEMMA SamePrefix ==
  ASSUME NEW h \in Name, NEW p \in Name, NEW q \in Name, Len(p) = Len(q),
         h = p \/ Inside(h, p), h = q \/ Inside(h, q)
  PROVE  p = q
<1>1. Len(h) \in Nat /\ Len(p) \in Nat
  BY NameParts
<1>2. \A j \in 1 .. Len(p) : h[j] = p[j] /\ h[j] = q[j]
  BY <1>1 DEF Inside
<1> QED
  BY <1>2, SameName

(* and nothing is under two of their entries. *)
LEMMA InputOrders ==
  ASSUME BuilderTypes, InputsPlaced, NEW R,
         R = {p \in EntriesOf(Forks, Object) \X EntriesOf(Forks, Object) :
                \A x : ~(Covers(p[1], x) /\ Covers(p[2], x))}
  PROVE  Orders(R, Forks, PartOf("inputs"))
<1> DEFINE s == PartOf("inputs")
           E == EntriesOf(Forks, Object)
<1>1. \A f \in Forks : s[f] = section[f].inputs
  BY DEF PartOf
<1>2. \A d, e : <<d, e>> \in R <=> d \in E /\ e \in E /\ \A x : ~(Covers(d, x) /\ Covers(e, x))
  BY DEF E
<1>3. \A f \in Forks : \A k \in 1 .. Len(section[f].inputs) :
        LET e == section[f].inputs[k]
        IN /\ e.fork = TRUE => /\ e.name \in Forks /\ Len(e.name) = Len(f) + 1
                               /\ e.name \in Name /\ Inside(e.name, f) /\ e = ForkEntry(e.name)
           /\ e \in E
  BY InputKinds
<1>4. \A f \in Forks : f \in Name /\ Len(f) \in Nat
  BY NameParts DEF BuilderTypes
<1> HIDE DEF E
<1>5. ASSUME NEW f \in Forks, NEW k \in 1 .. Len(section[f].inputs), NEW l \in 1 .. Len(section[f].inputs), k # l,
             NEW x, Covers(section[f].inputs[k], x), Covers(section[f].inputs[l], x)
      PROVE  FALSE
  <2> DEFINE d == section[f].inputs[k]
             e == section[f].inputs[l]
  <2>1. d # e
    BY <1>5 DEF InputsPlaced
  <2>2. ASSUME NEW i \in 1 .. Len(section[f].inputs), NEW j \in 1 .. Len(section[f].inputs),
               x = section[f].inputs[i], section[f].inputs[j].fork = TRUE,
               NEW h \in Forks, h = section[f].inputs[j].name \/ Inside(h, section[f].inputs[j].name),
               NEW m \in 1 .. Len(section[h].inputs), section[h].inputs[m] = x
        PROVE  FALSE
    <3>1. h = f
      BY <2>2 DEF InputsPlaced
    <3>2. Len(section[f].inputs[j].name) = Len(f) + 1 /\ Len(f) \in Nat
      BY <1>3, <1>4, <2>2
    <3> QED
      BY <2>2, <3>1, <3>2 DEF Inside
  <2>3. CASE x = d
    <3>1. e.fork = TRUE /\ \E h \in Forks : /\ h = e.name \/ Inside(h, e.name)
                         /\ \E m \in 1 .. Len(section[h].inputs) : section[h].inputs[m] = x
      BY <1>5, <2>1, <2>3 DEF Covers
    <3> QED
      BY <2>2, <2>3, <3>1
  <2>4. CASE x = e
    <3>1. d.fork = TRUE /\ \E h \in Forks : /\ h = d.name \/ Inside(h, d.name)
                         /\ \E m \in 1 .. Len(section[h].inputs) : section[h].inputs[m] = x
      BY <1>5, <2>1, <2>4 DEF Covers
    <3> QED
      BY <2>2, <2>4, <3>1
  <2>5. CASE x # d /\ x # e
    <3> HIDE DEF d, e
    <3>1. d.fork = TRUE /\ \E h \in Forks : /\ h = d.name \/ Inside(h, d.name)
                         /\ \E m \in 1 .. Len(section[h].inputs) : section[h].inputs[m] = x
      BY <1>5, <2>5 DEF Covers, d
    <3>2. e.fork = TRUE /\ \E h \in Forks : /\ h = e.name \/ Inside(h, e.name)
                         /\ \E m \in 1 .. Len(section[h].inputs) : section[h].inputs[m] = x
      BY <1>5, <2>5 DEF Covers, e
    <3>3. PICK h \in Forks : /\ h = d.name \/ Inside(h, d.name)
                             /\ \E m \in 1 .. Len(section[h].inputs) : section[h].inputs[m] = x
      BY <3>1
    <3>4. PICK h2 \in Forks : /\ h2 = e.name \/ Inside(h2, e.name)
                              /\ \E m \in 1 .. Len(section[h2].inputs) : section[h2].inputs[m] = x
      BY <3>2
    <3>5. h = h2
      BY <3>3, <3>4 DEF InputsPlaced
    <3>6. /\ d.name \in Name /\ e.name \in Name /\ Len(d.name) = Len(e.name)
          /\ d = ForkEntry(d.name) /\ e = ForkEntry(e.name)
      BY <1>3, <3>1, <3>2 DEF d, e
    <3>7. d.name = e.name
      BY <1>4, <3>3, <3>4, <3>5, <3>6, SamePrefix
    <3>8. d = e
      <4> DEFINE u == d.name
                 v == e.name
      <4>1. d = ForkEntry(u) /\ e = ForkEntry(v) /\ u = v
        BY <3>6, <3>7
      <4> HIDE DEF u, v
      <4> QED
        BY <4>1
    <3> QED
      BY <2>1, <3>8 DEF d, e
  <2> QED
    BY <2>3, <2>4, <2>5
<1>6. \A f \in Forks : \A k, l \in 1 .. Len(s[f]) : k < l => <<s[f][k], s[f][l]>> \in R
  <2> SUFFICES ASSUME NEW f \in Forks, NEW k \in 1 .. Len(s[f]), NEW l \in 1 .. Len(s[f]), k < l
               PROVE  <<s[f][k], s[f][l]>> \in R
    OBVIOUS
  <2>1. k \in 1 .. Len(section[f].inputs) /\ l \in 1 .. Len(section[f].inputs)
    BY <1>1
  <2>2. k # l
    <3>1. Len(section[f].inputs) \in Nat
      BY SectionTypes
    <3> QED
      BY <2>1, <3>1
  <2>3. \A x : ~(Covers(section[f].inputs[k], x) /\ Covers(section[f].inputs[l], x))
    BY <1>5, <2>1, <2>2
  <2>4. section[f].inputs[k] \in E /\ section[f].inputs[l] \in E
    BY <1>3, <2>1
  <2> QED
    BY <1>1, <1>2, <2>3, <2>4
<1>7. ASSUME NEW f \in Forks, NEW k \in 1 .. Len(section[f].inputs), NEW x, Covers(section[f].inputs[k], x)
      PROVE  Covers([fork |-> TRUE, name |-> f], x)
  <2> DEFINE d == section[f].inputs[k]
             F0 == [fork |-> TRUE, name |-> f]
  <2>1. F0.fork = TRUE /\ F0.name = f
    OBVIOUS
  <2> HIDE DEF F0
  <2>2. CASE x = d
    BY <2>1, <2>2 DEF Covers
  <2>3. CASE x # d
    <3> HIDE DEF d
    <3>1. d.fork = TRUE /\ \E h \in Forks : /\ h = d.name \/ Inside(h, d.name)
                         /\ \E m \in 1 .. Len(section[h].inputs) : section[h].inputs[m] = x
      BY <1>7, <2>3 DEF Covers, d
    <3>2. PICK h \in Forks : /\ h = d.name \/ Inside(h, d.name)
                             /\ \E m \in 1 .. Len(section[h].inputs) : section[h].inputs[m] = x
      BY <3>1
    <3>3. d.name \in Name /\ Inside(d.name, f)
      BY <1>3, <3>1 DEF d
    <3>4. Inside(h, f)
      <4>1. CASE h = d.name
        <5> DEFINE u == d.name
        <5>1. h = u /\ Inside(u, f)
          BY <3>3, <4>1
        <5> HIDE DEF u
        <5> QED
          BY <5>1
      <4>2. CASE Inside(h, d.name)
        BY <1>4, <3>3, <4>2, InsideTransitive
      <4> QED
        BY <3>2, <4>1, <4>2
    <3> QED
      BY <2>1, <3>2, <3>4 DEF Covers
  <2> QED
    BY <2>2, <2>3 DEF F0
<1>8. ASSUME NEW f \in Forks, NEW k \in 1 .. Len(s[f]), NEW e
      PROVE  /\ <<[fork |-> TRUE, name |-> f], e>> \in R => <<s[f][k], e>> \in R
             /\ <<e, [fork |-> TRUE, name |-> f]>> \in R => <<e, s[f][k]>> \in R
  <2>1. k \in 1 .. Len(section[f].inputs)
    BY <1>1
  <2>2. \A x : Covers(section[f].inputs[k], x) => Covers([fork |-> TRUE, name |-> f], x)
    BY <1>7, <2>1
  <2>3. section[f].inputs[k] \in E
    BY <1>3, <2>1
  <2> DEFINE d == section[f].inputs[k]
             F0 == [fork |-> TRUE, name |-> f]
  <2>4. s[f][k] = d
    BY <1>1
  <2>5. \A x : Covers(d, x) => Covers(F0, x)
    BY <2>2
  <2>6. d \in E
    BY <2>3
  <2> HIDE DEF d, F0
  <2>7. <<F0, e>> \in R => <<d, e>> \in R
    BY <1>2, <2>5, <2>6
  <2>8. <<e, F0>> \in R => <<e, d>> \in R
    BY <1>2, <2>5, <2>6
  <2> QED
    BY <2>4, <2>7, <2>8 DEF F0
<1> HIDE DEF s
<1>9. Orders(R, Forks, s)
  BY <1>6, <1>8 DEF Orders
<1> QED
  BY <1>9 DEF s

(* What the sections of the inputs flatten to: every input once.           *)
ObjectsFit(objects) ==
  /\ objects \in Seq(Object) /\ Len(objects) = Len(data.inputs)
  /\ \A i, j \in 1 .. Len(objects) : i # j => objects[i] # objects[j]
  /\ \A i \in 1 .. Len(objects) : \E j \in 1 .. Len(data.inputs) : objects[i] = data.inputs[j].object
  /\ \A j \in 1 .. Len(data.inputs) : \E i \in 1 .. Len(objects) : objects[i] = data.inputs[j].object

(* Flatten names every input once. *)
LEMMA FlatInputs ==
  ASSUME BuilderTypes, InputsApart, NEW b \in 0 .. Size, Placed(b), InputsPlaced
  PROVE  ObjectsFit(Flatten("inputs"))
<1> DEFINE s == PartOf("inputs")
           E == EntriesOf(Forks, Object)
           N == Cardinality(Forks)
           R == {p \in E \X E : \A x : ~(Covers(p[1], x) /\ Covers(p[2], x))}
           objects == Flatten("inputs")
           M == Len(data.inputs)
<1>0. M \in Nat /\ Root \in Forks /\ Root = <<>> /\ IsFiniteSet(Forks)
  BY DataParts DEF BuilderTypes, Root
<1>1. s \in [Forks -> Seq(E)] /\ Tree(Forks, E, s)
  BY InputTree
<1>2. Orders(R, Forks, s)
  BY InputOrders
<1>3. \A f \in Forks : s[f] = section[f].inputs
  BY DEF PartOf
<1>4. \A d, e : <<d, e>> \in R <=> d \in E /\ e \in E /\ \A x : ~(Covers(d, x) /\ Covers(e, x))
  OBVIOUS
<1>6. PICK v : Rows(v, s) /\ objects = [i \in DOMAIN v[N] |-> v[N][i].name]
  <2> HIDE DEF objects
  <2> QED
    BY <1>0, <1>1, FlattenIsRow DEF objects
<1> DEFINE w == v[N]
<1> HIDE DEF R, objects, s
<1>8. Leaves(w, Forks, E, s) /\ InRow(w, R, s, 0)
  <2>1. E = EntriesOf(Forks, Object) /\ 0 \in Nat /\ Rows(v, s) /\ IsFiniteSet(Forks) /\ 0 <= Len(s[<<>>]) /\ \A k \in 1 .. 0 : s[<<>>][k].fork = FALSE
    <3>1. Len(s[<<>>]) \in Nat
      BY <1>0, <1>1, LenProperties
    <3> QED
      BY <1>0, <1>6, <3>1
  <2> HIDE DEF E
  <2> QED
    BY <1>1, <1>2, <2>1, FlattenedRow
<1> DEFINE n == Len(w)
<1> HIDE DEF E
<1>9. /\ w \in Seq(E) /\ n \in Nat /\ DOMAIN w = 1 .. n
      /\ \A i \in 1 .. n : w[i] \in E /\ w[i].fork = FALSE
      /\ \A i \in 1 .. n : \E f \in Forks : \E k \in 1 .. Len(section[f].inputs) : section[f].inputs[k] = w[i]
  <2>1. w \in Seq(E)
    BY <1>8 DEF Leaves
  <2>2. n \in Nat /\ DOMAIN w = 1 .. n /\ \A i \in 1 .. n : w[i] \in E
    BY <2>1, LenProperties, ElementOfSeq
  <2>3. \A i \in 1 .. n : \E f \in Forks : \E k \in 1 .. Len(section[f].inputs) : section[f].inputs[k] = w[i]
    BY <1>3, <1>8 DEF Leaves
  <2> QED
    BY <1>8, <2>1, <2>2, <2>3 DEF Leaves
<1> HIDE DEF w, N
<1>10. ASSUME NEW i \in 1 .. n
       PROVE  /\ w[i].name \in Object /\ w[i] = Entry(w[i].name)
              /\ \E j \in 1 .. M : data.inputs[j].object = w[i].name
  <2>1. PICK f \in Forks : \E k \in 1 .. Len(section[f].inputs) : section[f].inputs[k] = w[i]
    BY <1>9
  <2>2. PICK k \in 1 .. Len(section[f].inputs) : section[f].inputs[k] = w[i]
    BY <2>1
  <2> QED
    <3> DEFINE e == section[f].inputs[k]
    <3>1. e = w[i] /\ e.fork = FALSE
      BY <1>9, <2>2
    <3>2. (\E j \in 1 .. M : data.inputs[j].object = e.name) /\ e.name \in Object /\ e = Entry(e.name)
      BY <3>1, InputKinds
    <3> HIDE DEF e
    <3> QED
      BY <3>1, <3>2
<1>11. objects \in Seq(Object) /\ Len(objects) = n /\ \A i \in 1 .. n : objects[i] = w[i].name
  <2>1. objects = [i \in 1 .. n |-> w[i].name]
    BY <1>6, <1>9 DEF w
  <2> HIDE DEF n
  <2>2. n \in Nat /\ \A i \in 1 .. n : w[i].name \in Object
    BY <1>9, <1>10 DEF n
  <2>3. [i \in 1 .. n |-> w[i].name] \in Seq(Object)
    BY <2>2, IsASeq
  <2> QED
    BY <2>1, <2>2, <2>3
<1>12. ASSUME NEW i \in 1 .. n, NEW j \in 1 .. n, i < j  PROVE objects[i] # objects[j]
  <2>1. <<w[i], w[j]>> \in R
    BY <1>8, <1>12 DEF InRow
  <2>2. ~(Covers(w[i], w[i]) /\ Covers(w[j], w[i]))
    BY <1>4, <2>1 DEF R, E
  <2>3. w[i] # w[j]
    BY <2>2 DEF Covers
  <2>4. objects[i] = w[i].name /\ objects[j] = w[j].name /\ w[i] = Entry(w[i].name) /\ w[j] = Entry(w[j].name)
    BY <1>10, <1>11
  <2> QED
    BY <2>3, <2>4
<1>13. ASSUME NEW j \in 1 .. M  PROVE \E i \in 1 .. n : objects[i] = data.inputs[j].object
  <2>1. PICK f \in Forks : \E k \in 1 .. Len(section[f].inputs) : section[f].inputs[k] = Entry(data.inputs[j].object)
    BY DEF InputsPlaced
  <2>2. Entry(data.inputs[j].object).fork = FALSE /\ Entry(data.inputs[j].object).name = data.inputs[j].object
    BY DEF Entry
  <2>3. PICK i \in 1 .. n : w[i] = Entry(data.inputs[j].object)
    BY <1>3, <1>8, <2>1, <2>2 DEF Leaves
  <2> QED
    BY <1>11, <2>2, <2>3
<1>14. \A i, j \in 1 .. n : i # j => objects[i] # objects[j]
  <2> SUFFICES ASSUME NEW i \in 1 .. n, NEW j \in 1 .. n, i # j  PROVE objects[i] # objects[j]
    OBVIOUS
  <2>1. i < j \/ j < i
    BY <1>9
  <2> QED
    BY <1>12, <2>1
<1>15. \A i \in 1 .. n : \E j \in 1 .. M : objects[i] = data.inputs[j].object
  <2> SUFFICES ASSUME NEW i \in 1 .. n  PROVE \E j \in 1 .. M : objects[i] = data.inputs[j].object
    OBVIOUS
  <2>1. PICK j \in 1 .. M : data.inputs[j].object = w[i].name
    BY <1>10
  <2> QED
    BY <1>11, <2>1
<1>16. n = M
  <2> DEFINE u == [i \in 1 .. M |-> data.inputs[i].object]
  <2>1. \A i \in 0 + 1 .. M : i \in 1 .. M /\ u[i] = data.inputs[i].object
    OBVIOUS
  <2>2. \A i, j \in 0 + 1 .. n : objects[i] = objects[j] => i = j
    BY <1>14
  <2>3. \A i, j \in 0 + 1 .. M : u[i] = u[j] => i = j
    BY <2>1 DEF InputsApart, ApartIn
  <2>4. \A i \in 0 + 1 .. M : \E j \in 0 + 1 .. n : objects[j] = u[i]
    BY <1>13, <2>1
  <2>5. \A j \in 0 + 1 .. n : \E i \in 0 + 1 .. M : u[i] = objects[j]
    <3> SUFFICES ASSUME NEW j \in 0 + 1 .. n  PROVE \E i \in 0 + 1 .. M : u[i] = objects[j]
      OBVIOUS
    <3>1. PICK i \in 1 .. M : objects[j] = data.inputs[i].object
      BY <1>15
    <3>2. i \in 0 + 1 .. M /\ u[i] = objects[j]
      BY <3>1
    <3> QED
      BY <3>2
  <2> HIDE DEF u, n, M
  <2>6. SameNames(u, M, objects, n, 0)
    BY <2>2, <2>3, <2>4, <2>5 DEF SameNames
  <2>7. M \in Nat /\ n \in Nat /\ 0 \in Nat /\ 0 <= M /\ 0 <= n
    BY <1>0, <1>9 DEF M, n
  <2> QED
    BY <2>6, <2>7, SameLength
<1> HIDE DEF n
<1>17. ObjectsFit(objects)
  <2>1. Len(objects) = n /\ n = M
    BY <1>11, <1>16
  <2>2. \A j \in 1 .. M : \E i \in 1 .. n : objects[i] = data.inputs[j].object
    BY <1>13
  <2> QED
    BY <1>11, <1>14, <1>15, <2>1, <2>2 DEF ObjectsFit
<1> QED
  BY <1>17 DEF objects

(* The invariant implies TypeOK: the lengths are equal because each        *)
(* section names what its code added.                                      *)
LEMMA TypesFromInv ==
  ASSUME BuilderInv  PROVE TypeOK
<1>0. /\ data.commands \in Seq(CommandType) /\ data.inputs \in Seq(InputType)
      /\ Len(data.commands) \in Nat /\ Len(data.inputs) \in Nat /\ BuilderTypes /\ NamesKnown /\ ArgsFit
      /\ InputsApart /\ Size = Len(data.commands)
      /\ phase \in {"idle", "waiting", "resolving", "resolved"}
      /\ phase \in {"idle", "waiting"} => Gathering
  BY DataParts DEF BuilderInv, BuilderTypes, Size
<1>1. DOMAIN section = DOMAIN available
  BY <1>0 DEF BuilderTypes, Forks
<1>2. \A i \in DOMAIN data.inputs : data.inputs[i].mutable \in BOOLEAN
  BY <1>0, InputParts
<1>3. ASSUME NEW i \in DOMAIN data.commands, NEW k \in DOMAIN data.commands[i].args, data.commands[i].id \notin refused
      PROVE data.commands[i].args[k].at \in 0 .. Len(data.commands) + Len(data.inputs)
  <2> DEFINE arg == data.commands[i].args[k]
  <2>1. i \in 1 .. Len(data.commands) /\ k \in 1 .. Len(data.commands[i].args) /\ arg \in ArgType
    BY <1>0, CommandParts
  <2>2. /\ arg.kind = "Input" => ObjectFits(data.inputs, arg)
        /\ RefersToResult(arg) => ResultFits(data.commands, Thunks, standsFor, i, arg)
    BY <1>0, <1>3, <2>1 DEF ArgsFit, ArgsFitIn
  <2> HIDE DEF arg
  <2>3. /\ arg.at \in Nat /\ arg.kind \in {"Result", "NestedResult", "Input", "GasCoin"}
        /\ arg.kind = "GasCoin" <=> arg = GasCoin
    BY <2>1, ArgParts
  <2> DEFINE L == Len(data.commands)
             M == Len(data.inputs)
             a == arg.at
  <2>4. arg.kind = "Input" => a \in 1 .. M
    BY <2>2 DEF ObjectFits
  <2>5. RefersToResult(arg) => a \in 1 .. L
    BY <2>2 DEF ResultFits, PointsIn
  <2>6. arg.kind = "GasCoin" => a = 0
    BY <2>3 DEF GasCoin
  <2>7. arg.kind = "Input" \/ RefersToResult(arg) \/ arg.kind = "GasCoin"
    BY <2>3 DEF RefersToResult
  <2>8. L \in Nat /\ M \in Nat /\ a \in Nat
    BY <1>0, <2>3
  <2> HIDE DEF L, M, a
  <2>9. a \in 0 .. L + M
    BY <2>4, <2>5, <2>6, <2>7, <2>8
  <2> QED
    BY <2>9 DEF L, M, a, arg
<1>4. ASSUME phase \in {"idle", "waiting"}
      PROVE  Len(Flatten("commands")) = Len(data.commands) /\ Len(Flatten("inputs")) = Len(data.inputs)
  <2>2. PICK b \in 0 .. Size : Base(b) /\ Placed(b) /\ LessArgs(b)
    BY <1>0, <1>4 DEF Gathering, Adds
  <2>3. FlatFits(Flatten("commands"), b)
    BY <1>0, <2>2, FlatCommands
  <2>4. ObjectsFit(Flatten("inputs"))
    BY <1>0, <1>4, <2>2, FlatInputs DEF Gathering
  <2> QED
    BY <1>0, <2>3, <2>4 DEF FlatFits, ObjectsFit
<1> QED
  BY <1>0, <1>1, <1>2, <1>3, <1>4 DEF TypeOK

(***************************************************************************)
(* Steps that add nothing                                                  *)
(***************************************************************************)

(* Initially there is nothing. *)
LEMMA InitBuilder == Init => BuilderInv
<1> SUFFICES ASSUME Init  PROVE BuilderInv
  OBVIOUS
<1>1. /\ data = [inputs |-> <<>>, commands |-> <<>>] /\ DOMAIN section = {Root} /\ section = [f \in {Root} |-> NoSection]
      /\ available = [f \in {Root} |-> {}] /\ running = <<>> /\ thunks = [t \in {} |-> 0]
      /\ phase = "idle" /\ count = [f \in {Root} |-> 0] /\ special = 0
      /\ standsFor = [x \in {} |-> 0] /\ handles = [x \in {} |-> 0] /\ refused = {} /\ late = {}
  BY DEF Init
<1>2. Forks = {Root} /\ Thunks = {} /\ Replaced = {} /\ DOMAIN handles = {} /\ DOMAIN count = {Root} /\ Size = 0 /\ refused = {}
      /\ data.commands = <<>> /\ data.inputs = <<>> /\ Root = <<>> /\ Root \in Name /\ Len(Root) = 0
  BY <1>1 DEF Forks, Thunks, Replaced, Size, Root, Name
<1>3. Len(<<>>) = 0 /\ 1 .. 0 = {}
  OBVIOUS
<1>4. InData = {} /\ Known = {} /\ Mentioned = {}
  BY <1>2, <1>3 DEF InData, NamesIn, Known, Mentioned
<1>5. BuilderTypes
  <2>1. data \in DataType
    BY <1>1 DEF DataType
  <2>2. section \in [Forks -> SectionType]
    BY <1>1, <1>2 DEF SectionType, NoSection
  <2>3. IsFiniteSet(Forks) /\ IsFiniteSet(Thunks)
    BY <1>2, FS_Singleton, FS_EmptySet
  <2>4. available \in [Forks -> SUBSET (1 .. Size)] /\ running \in Seq(Forks)
    BY <1>1, <1>2
  <2>5. /\ thunks \in [Thunks -> ThunkType] /\ count \in [DOMAIN count -> Nat] /\ DOMAIN count \subseteq Name
        /\ handles \in [DOMAIN handles -> Nat] /\ standsFor \in [Replaced -> Name] /\ special \in Nat
    BY <1>1, <1>2
  <2> QED
    BY <1>1, <1>2, <2>1, <2>2, <2>3, <2>4, <2>5 DEF BuilderTypes
<1>6. NamesKnown
  BY <1>2, <1>3, <1>4 DEF NamesKnown
<1>7. Twins /\ KindsNamed /\ ReplacedGone /\ InputsApart /\ ArgsFit
  <2>0. Len(data.commands) = 0 /\ Len(data.inputs) = 0
    BY <1>2, <1>3
  <2>1. Twins
    BY <1>3, <2>0 DEF Twins, TwinsIn
  <2>2. KindsNamed
    BY <1>3, <2>0 DEF KindsNamed, KindsIn
  <2>3. ReplacedGone
    BY <1>2, <1>4 DEF ReplacedGone, GoneIn, InData, Replaced
  <2>4. InputsApart
    BY <1>3, <2>0 DEF InputsApart, ApartIn
  <2>5. ArgsFit
    BY <1>3, <2>0 DEF ArgsFit, ArgsFitIn
  <2> QED
    BY <2>1, <2>2, <2>3, <2>4, <2>5
<1>8. HandlesPoint /\ ThunksStand
  BY <1>2, <1>3 DEF HandlesPoint, ThunksStand
<1>9. section[Root].commands = <<>> /\ section[Root].inputs = <<>>
  BY <1>1 DEF NoSection
<1>10. Adds
  <2>1. Base(0)
    BY <1>2, <1>3, <1>9 DEF Base, InOrder, OrderIn
  <2>2. Placed(0)
    BY <1>2, <1>3, <1>4, <1>9 DEF Placed
  <2>3. LessArgs(0) /\ 0 \in 0 .. Size
    BY <1>2 DEF LessArgs
  <2> QED
    BY <2>1, <2>2, <2>3 DEF Adds
<1>11. InputsPlaced /\ AvailableLess /\ Running
  <2>1. InputsPlaced
    BY <1>2, <1>3, <1>9 DEF InputsPlaced
  <2>2. AvailableLess
    BY <1>1, <1>2 DEF AvailableLess
  <2>3. Running
    BY <1>1, <1>2, <1>3 DEF Running, Unresolved, Thunks
  <2> QED
    BY <2>1, <2>2, <2>3
<1> QED
  BY <1>1, <1>5, <1>6, <1>7, <1>8, <1>10, <1>11 DEF BuilderInv, Gathering

(* What the commands, the results and the handles promise, whatever is     *)
(* being added.                                                            *)
Core == Twins /\ KindsNamed /\ ReplacedGone /\ InputsApart /\ ArgsFit /\ HandlesPoint /\ ThunksStand

(* Each part is kept where what it speaks of does not change. *)
LEMMA CoreKept ==
  ASSUME Core, UNCHANGED <<data, thunks, standsFor, late, refused, handles>>
  PROVE  Core'
<1>1. (Twins /\ KindsNamed /\ ReplacedGone /\ InputsApart /\ ArgsFit)'
  BY DEF Core, Twins, KindsNamed, ReplacedGone, InputsApart, ArgsFit, Thunks
<1>2. \A t : Handle(t)' = Handle(t) /\ SecondHand(t)' = SecondHand(t) /\ Meaning(t)' = Meaning(t)
  BY DEF Handle, HandleIn, SecondHand, Meaning
<1>3. Referable' = Referable
  BY <1>2 DEF Referable, Usable
<1>4. HandlesPoint'
  BY DEF Core, HandlesPoint, Points, NameAt, ArgsAt, Size, InData, Thunks, Replaced
<1>5. ThunksStand'
  BY <1>2, <1>3 DEF Core, ThunksStand, ReturnFits, NameAt, InData, Thunks, Replaced
<1> QED
  BY <1>1, <1>4, <1>5 DEF Core

(* Names that are in use stay known. *)
LEMMA NamesKept ==
  ASSUME NamesKnown, BuilderTypes, UNCHANGED <<data, thunks, standsFor, count, handles, refused>>, special' \in Nat, special <= special'
  PROVE  NamesKnown'
<1>1. Known' = Known /\ Mentioned' = Mentioned
  BY DEF Known, Mentioned, InData, Thunks, Replaced
<1>2. \A x : Made(x)' = Made(x)
  BY DEF Made
<1>3. \A x \in Known : x[1] = 0 => x[2] <= special
  BY DEF NamesKnown
<1>4. ASSUME NEW x \in Known, x[1] = 0  PROVE Len(x) > 1 /\ x[2] <= special'
  <2>1. x \in Name /\ Len(x) > 1 /\ x[2] <= special
    BY <1>4 DEF NamesKnown
  <2>2. Len(x) \in Nat /\ \A j \in 1 .. Len(x) : x[j] \in Nat
    BY <2>1, NameParts
  <2>3. 2 \in 1 .. Len(x)
    BY <2>1, <2>2
  <2>4. x[2] \in Nat /\ special \in Nat
    BY <2>2, <2>3 DEF BuilderTypes
  <2> QED
    BY <2>1, <2>4
<1> QED
  BY <1>1, <1>2, <1>4 DEF NamesKnown

(* What was added stays in the sections, *)
LEMMA AddsKept ==
  ASSUME Adds, UNCHANGED <<data, section, thunks, handles, refused>>
  PROVE  Adds'
<1>1. \A b : /\ Base(b)' = Base(b) /\ Placed(b)' = Placed(b) /\ LessArgs(b)' = LessArgs(b)
  BY DEF Base, Placed, LessArgs, EntryFits, New, InOrder, NameAt, KindAt, ArgsAt, Size, InData, Thunks, Forks
<1> QED
  BY <1>1 DEF Adds, Size

(* and the inputs, *)
LEMMA InputsKept ==
  ASSUME InputsPlaced, UNCHANGED <<data, section>>
  PROVE  InputsPlaced'
<1>1. section' = section /\ data' = data
  OBVIOUS
<1> QED
  BY <1>1 DEF InputsPlaced, InputEntryFits, Forks

(* and what is available. *)
LEMMA AvailableKept ==
  ASSUME AvailableLess, UNCHANGED <<data, section, available, count>>
  PROVE  AvailableLess'
BY DEF AvailableLess, NextName, NameAt, Forks

(* The functions that run are the same. *)
LEMMA RunningKept ==
  ASSUME Running, UNCHANGED <<data, section, running, thunks, count, handles, refused, standsFor>>
  PROVE  Running'
<1>1. Unresolved' = Unresolved /\ InData' = InData /\ Forks' = Forks /\ Mentioned' = Mentioned
  BY DEF Unresolved, InData, Forks, Mentioned, Thunks, Replaced
<1> QED
  BY <1>1 DEF Running

(* All of these. *)
LEMMA GatheringKept ==
  ASSUME Gathering, UNCHANGED <<data, section, available, running, thunks, count, handles, refused, standsFor>>
  PROVE  Gathering'
BY AddsKept, InputsKept, AvailableKept, RunningKept DEF Gathering

(* Once sorted, the transaction stays sorted. *)
LEMMA SettledKept ==
  ASSUME Settled, UNCHANGED <<data, section, running, thunks>>
  PROVE  Settled'
BY DEF Settled, Forks, Unresolved, InData, Thunks, InOrder, Size

(* Types. *)
LEMMA TypesKept ==
  ASSUME BuilderTypes, UNCHANGED <<data, section, available, running, thunks, count, handles, standsFor>>,
         phase' \in {"idle", "waiting", "resolving", "resolved"}, special' \in Nat
  PROVE  BuilderTypes'
BY DEF BuilderTypes, Forks, Thunks, Replaced, Size

(* Nothing happens. *)
LEMMA StutterKeeps ==
  ASSUME BuilderInv, UNCHANGED vars
  PROVE  BuilderInv'
<1>0. /\ UNCHANGED <<data, section, available, running, thunks, handles, phase, count>>
      /\ UNCHANGED <<standsFor, refused, late>> /\ special' = special
  BY DEF vars, bounds, history
<1>0a. BuilderTypes /\ special \in Nat /\ special <= special
  BY DEF BuilderInv, BuilderTypes
<1>1. BuilderTypes'
  BY <1>0, <1>0a, TypesKept DEF BuilderTypes
<1>2. NamesKnown'
  BY <1>0, <1>0a, NamesKept DEF BuilderInv
<1>3. Core'
  BY <1>0, CoreKept DEF BuilderInv, Core
<1>4. (phase \in {"idle", "waiting"} => Gathering)' /\ (phase \in {"resolving", "resolved"} => Settled)'
  BY <1>0, GatheringKept, SettledKept DEF BuilderInv
<1> QED
  BY <1>1, <1>2, <1>3, <1>4 DEF BuilderInv, Core

(* The bound on special steps. *)
LEMMA SpecialCounts ==
  ASSUME BuilderTypes, NEW n \in Nat, Special(n)
  PROVE  special' \in Nat /\ special <= special' /\ special' = special + n
BY DEF BuilderTypes, Special

(* prepareForSerialization begins, or rejects. *)
LEMMA PrepareKeeps ==
  ASSUME BuilderInv, Prepare \/ PrepareFails
  PROVE  BuilderInv'
<1>0. /\ UNCHANGED <<data, section, available, running, thunks, handles, count>>
      /\ UNCHANGED <<standsFor, refused, late>>
      /\ phase \in {"idle", "waiting"} /\ phase' \in {"idle", "waiting"}
  BY DEF Prepare, PrepareFails, bounds, history
<1>0a. BuilderTypes /\ special' \in Nat /\ special <= special'
  <2>1. BuilderTypes /\ special \in Nat
    BY DEF BuilderInv, BuilderTypes
  <2>2. CASE Prepare
    <3>1. (IF prepares = 0 THEN 0 ELSE 1) \in Nat
      OBVIOUS
    <3>2. Special(IF prepares = 0 THEN 0 ELSE 1)
      BY <2>2 DEF Prepare
    <3> QED
      BY <2>1, <3>1, <3>2, SpecialCounts
  <2>3. CASE PrepareFails
    BY <2>1, <2>3 DEF PrepareFails, bounds
  <2> QED
    BY <2>2, <2>3
<1>1. BuilderTypes'
  BY <1>0, <1>0a, TypesKept
<1>2. NamesKnown'
  BY <1>0, <1>0a, NamesKept DEF BuilderInv
<1>3. Core'
  BY <1>0, CoreKept DEF BuilderInv, Core
<1>4. Gathering'
  BY <1>0, GatheringKept DEF BuilderInv
<1> QED
  BY <1>0, <1>1, <1>2, <1>3, <1>4 DEF BuilderInv, Core

(* A sequence without its last element. *)
LEMMA FrontParts ==
  ASSUME NEW S, NEW s \in Seq(S), s # <<>>
  PROVE  /\ Len(s) \in Nat /\ Len(s) > 0 /\ Last(s) = s[Len(s)] /\ Last(s) \in S
         /\ Front(s) \in Seq(S) /\ Len(Front(s)) = Len(s) - 1
         /\ \A k \in 1 .. Len(s) - 1 : Front(s)[k] = s[k]
<1> DEFINE n == Len(s)
<1>1. n \in Nat /\ n > 0 /\ \A j \in 1 .. n : s[j] \in S
  BY EmptySeq, LenProperties, ElementOfSeq
<1>2. Len(s) = n
  OBVIOUS
<1> HIDE DEF n
<1>3. /\ Front(s) \in Seq(S) /\ Len(Front(s)) = IF 1 <= n - 1 THEN n - 1 - 1 + 1 ELSE 0
      /\ \A i \in 1 .. n - 1 - 1 + 1 : Front(s)[i] = s[1 + i - 1]
  <2>1. 1 \in Int /\ n - 1 \in Int /\ \A i \in 1 .. n - 1 : s[i] \in S
    BY <1>1
  <2> QED
    BY <1>2, <2>1, SubSeqProperties DEF Front
<1>4. Len(Front(s)) = n - 1 /\ \A j \in 1 .. n - 1 : Front(s)[j] = s[j]
  <2>1. \A j \in 1 .. n - 1 : 1 + j - 1 = j /\ j \in 1 .. n - 1 - 1 + 1
    BY <1>1
  <2> QED
    BY <1>1, <1>3, <2>1
<1>5. Last(s) = s[n] /\ n \in 1 .. n
  BY <1>1, <1>2 DEF Last
<1> QED
  BY <1>1, <1>2, <1>3, <1>4, <1>5

(* A function returns: its caller gets what was available to it. *)
LEMMA ReturnValueKeeps ==
  ASSUME BuilderInv, ReturnValue
  PROVE  BuilderInv'
<1> DEFINE g == Last(running)
           p == Front(g)
           n == Len(running)
<1>0. /\ running # <<>> /\ available' = [available EXCEPT ![p] = available[g]] /\ running' = Front(running)
      /\ UNCHANGED <<data, section, thunks, handles, phase, count>> /\ UNCHANGED <<standsFor, refused, late>>
      /\ special' = special
  BY DEF ReturnValue, Parent, bounds, history
<1>1. BuilderTypes /\ special \in Nat /\ special <= special /\ running \in Seq(Forks)
  BY DEF BuilderInv, BuilderTypes
<1>2. Gathering /\ phase \in {"idle", "waiting"}
  BY <1>0 DEF BuilderInv, BuilderTypes, Settled
<1>3. /\ n \in Nat /\ n > 0 /\ g = running[n] /\ g \in Forks
      /\ Front(running) \in Seq(Forks) /\ Len(Front(running)) = n - 1
      /\ \A k \in 1 .. n - 1 : Front(running)[k] = running[k]
  <2>1. n \in Nat /\ n # 0
    BY <1>0, <1>1, EmptySeq, LenProperties
  <2>2. g = running[n] /\ n \in 1 .. n
    BY <2>1 DEF Last
  <2>3. g \in Forks
    BY <1>1, <2>2, ElementOfSeq
  <2>4. Front(running) \in Seq(Forks) /\ Len(Front(running)) = n - 1 /\ \A k \in 1 .. n - 1 : Front(running)[k] = running[k]
    BY <1>0, <1>1, FrontParts
  <2> QED
    BY <2>1, <2>2, <2>3, <2>4
<1>4. g # <<>> /\ Last(g) = count[p]
  BY <1>2, <1>3 DEF Gathering, Running
<1>5. p \in Forks
  BY <1>2, <1>3, <1>4 DEF Gathering, Adds, Placed, Root
<1>6. Forks' = Forks /\ Size' = Size
  BY <1>0 DEF Forks, Size
<1> HIDE DEF g, p, n
<1>7. BuilderTypes'
  <2>1. available' \in [Forks -> SUBSET (1 .. Size)]
    <3>1. available \in [Forks -> SUBSET (1 .. Size)]
      BY <1>1 DEF BuilderTypes
    <3> QED
      BY <1>0, <1>3, <1>5, <3>1
  <2> QED
    BY <1>0, <1>1, <1>3, <1>6, <2>1 DEF BuilderTypes, Forks, Thunks, Replaced, Size
<1>8. NamesKnown'
  BY <1>0, <1>1, NamesKept DEF BuilderInv
<1>9. Core'
  BY <1>0, CoreKept DEF BuilderInv, Core
<1>10. Adds' /\ InputsPlaced'
  BY <1>0, <1>2, AddsKept, InputsKept DEF Gathering
<1>11. AvailableLess'
  <2> SUFFICES ASSUME NEW f \in Forks, NEW i \in available'[f]  PROVE Less(NameAt(i), NextName(f))
    BY <1>0, <1>6 DEF AvailableLess, NextName, NameAt
  <2>1. CASE f # p
    <3>1. i \in available[f]
      BY <1>0, <1>1, <2>1 DEF BuilderTypes
    <3> QED
      BY <1>2, <3>1 DEF Gathering, AvailableLess
  <2>2. CASE f = p
    <3>1. i \in available[g] /\ i \in 1 .. Size
      <4>1. i \in available[g]
        BY <1>0, <1>1, <1>5, <2>2 DEF BuilderTypes
      <4> QED
        BY <1>1, <1>3, <4>1 DEF BuilderTypes
    <3> DEFINE x == NameAt(i)
               c == count[p]
    <3>2. x \in Name
      BY <1>1, <3>1, NameAtParts DEF BuilderInv
    <3>3. g \in Name /\ p \in Name /\ c \in Nat /\ count[g] \in Nat
      BY <1>1, <1>3, <1>5 DEF BuilderTypes
    <3>4. g = Append(p, c)
      BY <1>4, <3>3, FrontName DEF p
    <3>5. Less(x, Append(g, count[g] + 1))
      BY <1>2, <1>3, <3>1 DEF Gathering, AvailableLess, NextName
    <3>6. Less(x, g) \/ Inside(x, g)
      <4>1. count[g] + 1 \in Nat
        BY <3>3
      <4> QED
        BY <3>2, <3>3, <3>5, <4>1, LessAppend
    <3>7. NextName(p) = Append(p, c + 1) /\ Append(p, c + 1) \in Name /\ Less(g, Append(p, c + 1))
      <4>1. c + 1 \in Nat /\ c < c + 1
        BY <3>3
      <4>2. Append(p, c + 1) \in Name
        BY <3>3, <4>1, AppendedName
      <4>3. Less(Append(p, c), Append(p, c + 1))
        BY <3>3, <4>1, LessAppend
      <4> QED
        BY <3>4, <4>2, <4>3 DEF NextName
    <3> DEFINE y == Append(p, c + 1)
    <3> HIDE DEF x, y
    <3>8. Less(x, y)
      <4>1. y \in Name /\ Less(g, y)
        BY <3>7 DEF y
      <4> QED
        BY <3>2, <3>3, <3>6, <4>1, LessTransitive, LessInside
    <3> QED
      BY <2>2, <3>7, <3>8 DEF x, y
  <2> QED
    BY <2>1, <2>2
<1>12. Running'
  <2>1. Unresolved' = Unresolved /\ InData' = InData /\ Mentioned' = Mentioned
    BY <1>0 DEF Unresolved, InData, Mentioned, Thunks, Replaced
  <2>2. Len(running') = n - 1 /\ \A k \in 1 .. n - 1 : running'[k] = running[k] /\ k \in 1 .. n
    BY <1>0, <1>3
  <2>3. \A k \in 1 .. n - 1 : 1 \in 1 .. n - 1 /\ (k > 1 => k - 1 \in 1 .. n - 1)
    BY <1>3
  <2>4. Running /\ n = Len(running)
    BY <1>2 DEF Gathering, n
  <2> HIDE DEF Running
  <2>5. ASSUME NEW k \in 1 .. n - 1
        PROVE  /\ running'[k] # <<>> /\ Last(running'[k]) = count[Front(running'[k])]
               /\ running'[k] \notin InData \cup Mentioned
               /\ Len(running'[k]) = Len(running'[1]) + k - 1
               /\ k > 1 => Front(running'[k]) = running'[k - 1]
    BY <2>2, <2>3, <2>4 DEF Running
  <2>6. \A t \in Unresolved : t \in Forks
    BY <2>4 DEF Running
  <2> QED
    BY <1>0, <1>6, <2>1, <2>2, <2>5, <2>6 DEF Running
<1> QED
  BY <1>0, <1>2, <1>7, <1>8, <1>9, <1>10, <1>11, <1>12 DEF BuilderInv, Core, Gathering

(***************************************************************************)
(* A command is added                                                      *)
(***************************************************************************)

(* The asynchronous functions stay, but that one may reject; and x may be  *)
(* a new one.                                                              *)
ThunksGrow(x) ==
  /\ Thunks \subseteq Thunks' /\ Thunks' \subseteq Thunks \cup {x}
  /\ \A t \in Thunks :
       /\ thunks'[t].result = thunks[t].result /\ thunks'[t].resultIndex = thunks[t].resultIndex
       /\ thunks'[t].void = thunks[t].void
       /\ thunks'[t].state = thunks[t].state
            \/ (thunks[t].state = "running" /\ thunks'[t].state = "rejected")
  /\ x \in Thunks' => /\ thunks'[x].state = "running" /\ thunks'[x].result = x
                      /\ thunks'[x].resultIndex = Size + 1 /\ x \in DOMAIN handles'

(* At most a command x is added, at the end.                               *)
Grown(x) ==
  /\ Size' \in {Size, Size + 1}
  /\ \A i \in 1 .. Size : data'.commands[i] = data.commands[i]
  /\ Size' = Size + 1 => /\ data'.commands[Size + 1].id = x
                         /\ (x \in Thunks' => data'.commands[Size + 1].args = <<>>)
                         /\ data'.commands[Size + 1].kind # "merge" /\ Last(x) # 0 /\ x[1] # 0
                         /\ (data'.commands[Size + 1].kind = "thunk" <=> x \in Thunks')
  /\ x \notin InData \cup Mentioned
  /\ ThunksGrow(x)
  /\ standsFor' = standsFor /\ late' = late
  /\ refused \subseteq refused' /\ refused' \subseteq refused \cup {x}
  /\ DOMAIN handles \subseteq DOMAIN handles' /\ DOMAIN handles' \subseteq DOMAIN handles \cup {x}
  /\ \A y \in DOMAIN handles : handles'[y] = handles[y]
  /\ x \in DOMAIN handles' => Size' = Size + 1 /\ handles'[x] = Size + 1
  /\ Len(data.inputs) <= Len(data'.inputs)
  /\ \A i \in 1 .. Len(data.inputs) :
       data'.inputs[i].object = data.inputs[i].object /\ (data.inputs[i].mutable => data'.inputs[i].mutable)
  /\ InputsApart'

(* The arguments of a new command fit.                                     *)
NewArgsFit(x) ==
  \A k \in 1 .. Len(data'.commands[Size + 1].args) :
    LET arg == data'.commands[Size + 1].args[k]
    IN /\ arg.kind = "Input" => ObjectFits(data'.inputs, arg)
       /\ RefersToResult(arg) =>
            x \in refused' \/ (arg.at < Size + 1 /\ Points(arg.at, arg.of) /\ arg.of \in Mentioned)

(* What adding x does to the names there are, *)
LEMMA GrownNames ==
  ASSUME NEW x, Grown(x), BuilderTypes
  PROVE  /\ Size \in Nat /\ Size' \in Nat /\ Size <= Size'
         /\ \A i \in 1 .. Size : i \in 1 .. Size' /\ NameAt(i)' = NameAt(i) /\ NameAt(i) # x
                                 /\ ArgsAt(i)' = ArgsAt(i) /\ KindAt(i)' = KindAt(i)
         /\ \A i \in 1 .. Size' : i \in 1 .. Size \/ (i = Size + 1 /\ Size' = Size + 1)
         /\ \A y : y # x => (y \in InData' <=> y \in InData)
         /\ InData \subseteq InData' /\ (Size' = Size + 1 => x \in InData') /\ (Size' = Size => x \notin InData')
         /\ \A t \in Thunks : t # x /\ thunks[t].result # x
         /\ \A y : y # x => (y \in Thunks' <=> y \in Thunks)
         /\ Replaced' = Replaced /\ x \notin Replaced /\ x \notin Thunks /\ x \notin DOMAIN handles
         /\ \A y \in Replaced : standsFor[y] # x
<1>1. Size \in Nat /\ Size' \in Nat /\ Size <= Size' /\ Len(data.commands) = Size /\ Len(data'.commands) = Size'
  BY DataParts DEF BuilderTypes, Size, Grown
<1>2. \A i \in 1 .. Size : i \in 1 .. Size' /\ data'.commands[i] = data.commands[i] /\ data.commands[i].id \in InData /\ data.commands[i].id # x
  BY <1>1 DEF Grown, InData, NamesIn
<1>3. \A i \in 1 .. Size' : i \in 1 .. Size \/ (i = Size + 1 /\ Size' = Size + 1)
  BY <1>1 DEF Grown
<1>4. InData = {data.commands[i].id : i \in 1 .. Size} /\ InData' = {data'.commands[i].id : i \in 1 .. Size'}
  BY <1>1 DEF InData, NamesIn
<1>5. Size' = Size + 1 => Size + 1 \in 1 .. Size' /\ data'.commands[Size + 1].id = x
  BY <1>1 DEF Grown, NameAt
<1>6. \A y : y # x => (y \in InData' <=> y \in InData)
  BY <1>2, <1>3, <1>4, <1>5
<1>7. InData \subseteq InData' /\ (Size' = Size + 1 => x \in InData') /\ (Size' = Size => x \notin InData')
  BY <1>1, <1>2, <1>3, <1>4, <1>5
<1>8. x \notin Mentioned /\ ThunksGrow(x) /\ standsFor' = standsFor
  BY DEF Grown
<1>9. \A t \in Thunks : t # x /\ thunks[t].result # x
  BY <1>8 DEF Mentioned
<1>10. Replaced' = Replaced /\ x \notin Replaced /\ x \notin Thunks /\ x \notin DOMAIN handles
  BY <1>8 DEF Mentioned, Replaced
<1>11. \A y \in Replaced : standsFor[y] # x
  BY <1>8 DEF Mentioned
<1>12. \A y : y # x => (y \in Thunks' <=> y \in Thunks)
  BY <1>8 DEF ThunksGrow
<1> QED
  BY <1>1, <1>2, <1>3, <1>6, <1>7, <1>9, <1>10, <1>11, <1>12 DEF NameAt, ArgsAt, KindAt

(* What a handle says stays.                                               *)
LEMMA GrownHandles ==
  ASSUME NEW x, Grown(x), BuilderTypes, data' \in DataType
  PROVE  /\ \A y \in DOMAIN handles : y # x /\ Handle(y)' = Handle(y)
         /\ \A y : Meaning(y)' = Meaning(y)
         /\ Referable \subseteq Referable'
         /\ \A i \in 1 .. Size : \A y : Points(i, y)' <=> Points(i, y)
<1>0. data.commands \in Seq(CommandType) /\ data'.commands \in Seq(CommandType) /\ ThunksGrow(x)
  BY DataParts DEF BuilderTypes, Grown
<1>1. \A y \in DOMAIN handles : y # x /\ handles'[y] = handles[y] /\ y \in DOMAIN handles'
  BY GrownNames DEF Grown
<1>2. \A y \in DOMAIN handles : Handle(y)' = Handle(y)
  BY <1>0, <1>1, GrownNames DEF Handle, HandleIn, ThunksGrow, Thunks
<1>3. \A y : Meaning(y)' = Meaning(y)
  BY DEF Grown, Meaning
<1>4. \A y : (IndexOf(Names(data.commands), y) = 0 <=> y \notin InData)
  BY <1>0, IndexOfNames DEF InData
<1>5. \A y : (IndexOf(Names(data'.commands), y) = 0 <=> y \notin InData')
  BY <1>0, IndexOfNames DEF InData
<1>6. Referable \subseteq Referable'
  <2> SUFFICES ASSUME NEW y \in Referable  PROVE y \in Referable'
    OBVIOUS
  <2>1. y \in DOMAIN handles /\ (y \in Thunks => ~thunks[y].void) /\ ~SecondHand(y)
    BY DEF Referable, Usable, Thunks
  <2>2. y \in DOMAIN handles' /\ y # x /\ (y \in Thunks' <=> y \in Thunks) /\ (y \in InData' <=> y \in InData)
    BY <1>1, <2>1, GrownNames
  <2>3. y \in Thunks' => ~thunks'[y].void
    BY <1>0, <2>1, <2>2 DEF ThunksGrow
  <2>4. ASSUME SecondHand(y)'  PROVE FALSE
    <3>1. y \in Thunks /\ thunks'[y].result \in Thunks' /\ thunks'[y].result # y /\ y \notin InData'
      BY <1>5, <2>2, <2>4 DEF SecondHand, Thunks
    <3>2. thunks'[y].result = thunks[y].result /\ thunks[y].result # x
      BY <1>0, <3>1, GrownNames DEF ThunksGrow
    <3>3. thunks[y].result \in Thunks
      BY <3>1, <3>2, GrownNames
    <3> QED
      BY <1>4, <2>1, <2>2, <3>1, <3>2, <3>3 DEF SecondHand, Thunks
  <2> QED
    BY <2>2, <2>3, <2>4 DEF Referable, Usable, Thunks
<1>7. ASSUME NEW i \in 1 .. Size, NEW y  PROVE Points(i, y)' <=> Points(i, y)
  <2>1. i \in 1 .. Size' /\ data'.commands[i] = data.commands[i] /\ data.commands[i].id # x
    BY GrownNames DEF Grown, NameAt
  <2>2. data.commands[i].id \in Thunks' <=> data.commands[i].id \in Thunks
    BY <2>1, GrownNames
  <2>3. standsFor' = standsFor
    BY DEF Grown
  <2> QED
    BY <2>1, <2>2, <2>3 DEF Points, PointsIn, Size
<1> QED
  BY <1>1, <1>2, <1>3, <1>6, <1>7

(* to the commands, *)
LEMMA GrownKeepsCommands ==
  ASSUME NEW x, Grown(x), NewArgsFit(x), BuilderTypes, data' \in DataType, Core
  PROVE  (Twins /\ KindsNamed /\ ReplacedGone /\ InputsApart /\ ArgsFit)'
<1>0. /\ \A i \in 1 .. Size : i \in 1 .. Size' /\ data'.commands[i] = data.commands[i] /\ data.commands[i].id # x
                               /\ data.commands[i].id \in InData
      /\ \A i \in 1 .. Size' : i \in 1 .. Size \/ (i = Size + 1 /\ Size' = Size + 1)
      /\ Len(data.commands) = Size /\ Len(data'.commands) = Size' /\ Size \in Nat /\ Size' \in Nat
      /\ Size' = Size + 1 => data'.commands[Size + 1].id = x /\ data'.commands[Size + 1].kind # "merge"
                             /\ Last(x) # 0 /\ x[1] # 0 /\ (data'.commands[Size + 1].kind = "thunk" <=> x \in Thunks')
      /\ standsFor' = standsFor /\ late' = late
  BY GrownNames DEF Grown, NameAt, Size, InData, NamesIn
<1>1. Twins'
  <2> SUFFICES ASSUME NEW i \in 1 .. Size', NEW j \in 1 .. Size', i # j, data'.commands[i].id = data'.commands[j].id
               PROVE  /\ data'.commands[i].kind = "call" /\ data'.commands[i].args = <<>> /\ data'.commands[i].id \in late
                      /\ \A k \in 1 .. Size' : data'.commands[k].id = data'.commands[i].id => k \in {i, j}
    BY <1>0 DEF Twins, TwinsIn
  <2>1. i \in 1 .. Size /\ j \in 1 .. Size /\ data'.commands[i].id # x
    <3>1. \A k \in 1 .. Size' : \/ k \in 1 .. Size /\ data'.commands[k].id # x
                                \/ k = Size + 1 /\ data'.commands[k].id = x
      BY <1>0
    <3> QED
      BY <3>1
  <2>2. \A k \in 1 .. Size' : data'.commands[k].id = data'.commands[i].id => k \in 1 .. Size
    BY <1>0, <2>1
  <2>3. /\ data.commands[i].kind = "call" /\ data.commands[i].args = <<>> /\ data.commands[i].id \in late
        /\ \A k \in 1 .. Size : data.commands[k].id = data.commands[i].id => k \in {i, j}
    BY <1>0, <2>1 DEF Core, Twins, TwinsIn
  <2> QED
    BY <1>0, <2>1, <2>2, <2>3
<1>2. KindsNamed'
  <2> SUFFICES ASSUME NEW i \in 1 .. Size'
               PROVE  LET c == data'.commands
                      IN /\ c[i].kind \in Intents => c[i].id[1] # 0
                         /\ Last(c[i].id) = 0 <=> c[i].kind = "merge"
                         /\ c[i].kind = "merge" =>
                              \E j \in 1 .. Size' : Front(c[i].id) = c[j].id /\ c[j].kind = "split"
                         /\ c[i].kind = "thunk" <=> c[i].id \in Thunks'
    BY <1>0 DEF KindsNamed, KindsIn, Thunks
  <2>1. CASE i \in 1 .. Size
    <3>1. LET c == data.commands
          IN /\ c[i].kind \in Intents => c[i].id[1] # 0
             /\ Last(c[i].id) = 0 <=> c[i].kind = "merge"
             /\ c[i].kind = "merge" =>
                  \E j \in 1 .. Size : Front(c[i].id) = c[j].id /\ c[j].kind = "split"
             /\ c[i].kind = "thunk" <=> c[i].id \in Thunks
      BY <1>0, <2>1 DEF Core, KindsNamed, KindsIn
    <3>2. data.commands[i].id \in Thunks' <=> data.commands[i].id \in Thunks
      BY <1>0, <2>1, GrownNames
    <3> QED
      BY <1>0, <2>1, <3>1, <3>2
  <2>2. CASE i = Size + 1 /\ Size' = Size + 1
    BY <1>0, <2>2
  <2> QED
    BY <1>0, <2>1, <2>2
<1>3. ReplacedGone'
  <2>1. \A y \in InData' \cap Replaced : y \in InData /\ y \in Thunks
    BY GrownNames DEF Core, ReplacedGone, GoneIn, InData, Replaced
  <2>2. \A y \in InData' \cap Replaced : y \in Thunks'
    BY <2>1 DEF Grown, ThunksGrow
  <2> QED
    BY <1>0, <2>2, GrownNames DEF Core, ReplacedGone, GoneIn, InData, Replaced, Thunks
<1>4. InputsApart'
  BY DEF Grown
<1>5. ArgsFit'
  <2> SUFFICES ASSUME NEW i \in 1 .. Size', NEW k \in 1 .. Len(data'.commands[i].args), NEW arg, arg = data'.commands[i].args[k]
               PROVE  /\ arg.kind = "Input" => ObjectFits(data'.inputs, arg)
                      /\ RefersToResult(arg) =>
                           data'.commands[i].id \in refused' \/ ResultFits(data'.commands, Thunks', standsFor', i, arg)
    BY <1>0 DEF ArgsFit, ArgsFitIn
  <2>1. CASE i \in 1 .. Size
    <3>1. /\ arg.kind = "Input" => ObjectFits(data.inputs, arg)
          /\ RefersToResult(arg) =>
                data.commands[i].id \in refused \/ ResultFits(data.commands, Thunks, standsFor, i, arg)
      BY <1>0, <2>1 DEF Core, ArgsFit, ArgsFitIn
    <3>2. data.commands[i].id \in refused' <=> data.commands[i].id \in refused
      BY <1>0, <2>1 DEF Grown
    <3>3. ObjectFits(data.inputs, arg) => ObjectFits(data'.inputs, arg)
      <4>1. Len(data.inputs) \in Nat /\ Len(data'.inputs) \in Nat
        BY DataParts DEF BuilderTypes
      <4> SUFFICES ASSUME ObjectFits(data.inputs, arg)  PROVE ObjectFits(data'.inputs, arg)
        OBVIOUS
      <4>2. arg.at \in 1 .. Len(data.inputs) /\ data.inputs[arg.at].object = arg.of
        BY DEF ObjectFits
      <4>3. arg.mutable => data.inputs[arg.at].mutable
        BY DEF ObjectFits
      <4>4. /\ data'.inputs[arg.at].object = data.inputs[arg.at].object
            /\ data.inputs[arg.at].mutable => data'.inputs[arg.at].mutable
        BY <4>2 DEF Grown
      <4>5. arg.at \in 1 .. Len(data'.inputs)
        BY <4>1, <4>2 DEF Grown
      <4>6. arg.mutable => data'.inputs[arg.at].mutable
        BY ONLY <4>3, <4>4
      <4> QED
        BY <4>2, <4>4, <4>5, <4>6 DEF ObjectFits
    <3>4. ResultFits(data.commands, Thunks, standsFor, i, arg) => ResultFits(data'.commands, Thunks', standsFor', i, arg)
      <4> SUFFICES ASSUME ResultFits(data.commands, Thunks, standsFor, i, arg)
                   PROVE  ResultFits(data'.commands, Thunks', standsFor', i, arg)
        OBVIOUS
      <4>1. arg.at \in 1 .. Size
        BY <1>0 DEF ResultFits, PointsIn
      <4>2. PointsIn(data'.commands, Thunks', standsFor', arg.at, arg.of) <=> PointsIn(data.commands, Thunks, standsFor, arg.at, arg.of)
        BY <4>1, GrownHandles DEF Points
      <4> QED
        BY <1>0, <4>1, <4>2 DEF ResultFits
    <3> QED
      BY <1>0, <2>1, <3>1, <3>2, <3>3, <3>4
  <2>2. CASE i = Size + 1 /\ Size' = Size + 1
    <3>1. data'.commands[i].id = x
      BY <1>0, <2>2
    <3>2. /\ arg.kind = "Input" => ObjectFits(data'.inputs, arg)
          /\ RefersToResult(arg) => x \in refused' \/ (arg.at < Size + 1 /\ Points(arg.at, arg.of) /\ arg.of \in Mentioned)
      BY <2>2 DEF NewArgsFit
    <3>3. Points(arg.at, arg.of) => arg.at \in 1 .. Size
      BY <1>0 DEF Points, PointsIn
    <3>4. Points(arg.at, arg.of) => PointsIn(data'.commands, Thunks', standsFor', arg.at, arg.of)
      BY <3>3, GrownHandles DEF Points
    <3> QED
      BY <2>2, <3>1, <3>2, <3>4 DEF ResultFits
  <2> QED
    BY <1>0, <2>1, <2>2
<1> QED
  BY <1>1, <1>2, <1>3, <1>4, <1>5

(* and to handles and asynchronous functions. *)
LEMMA GrownKeepsHandles ==
  ASSUME NEW x, Grown(x), BuilderTypes, data' \in DataType, Core
  PROVE  HandlesPoint' /\ ThunksStand'
<1>0. ThunksGrow(x) /\ Size \in Nat /\ Size' \in Nat /\ HandlesPoint /\ ThunksStand
  BY GrownNames DEF Grown, Core
<1>1. ASSUME NEW id \in DOMAIN handles' \ Thunks'
      PROVE  id \notin Replaced' /\ handles'[id] \in 1 .. Size' /\ data'.commands[handles'[id]].id = id
  <2>1. CASE id = x
    <3>1. Size' = Size + 1 /\ handles'[x] = Size + 1 /\ data'.commands[Size + 1].id = x
      BY <1>1, <2>1 DEF Grown
    <3> QED
      BY <1>0, <2>1, <3>1, GrownNames
  <2>2. CASE id # x
    <3>1. id \in DOMAIN handles \ Thunks
      BY <1>1, <2>2, GrownNames DEF Grown
    <3>2. id \notin Replaced /\ handles[id] \in 1 .. Size /\ NameAt(handles[id]) = id /\ handles'[id] = handles[id]
      BY <1>0, <3>1 DEF HandlesPoint, Grown
    <3> QED
      BY <3>2, GrownNames DEF Grown, NameAt
  <2> QED
    BY <2>1, <2>2
<1>2. ASSUME NEW t \in DOMAIN handles' \cap Thunks', t \notin InData', ~thunks'[t].void, thunks'[t].result \notin Thunks'
      PROVE  PointsIn(data'.commands, Thunks', standsFor', thunks'[t].resultIndex, t)
  <2>1. t # x
    <3>1. x \in Thunks' => x \in InData'
      BY <1>0, GrownNames DEF Grown, ThunksGrow
    <3> QED
      BY <1>2, <3>1
  <2>2. t \in Thunks /\ t \in DOMAIN handles /\ t \notin InData
    BY <1>2, <2>1, GrownNames DEF Grown
  <2>3. thunks'[t].result = thunks[t].result /\ thunks'[t].resultIndex = thunks[t].resultIndex
          /\ thunks'[t].void = thunks[t].void /\ thunks[t].result \notin Thunks
    BY <1>0, <1>2, <2>2, GrownNames DEF ThunksGrow
  <2>4. Points(thunks[t].resultIndex, t)
    BY <1>0, <1>2, <2>2, <2>3 DEF HandlesPoint
  <2>5. PICK m \in 1 .. Size : m = thunks[t].resultIndex /\ Points(m, t)
    BY <2>4 DEF Points, PointsIn, Size
  <2>6. Points(m, t)'
    BY <2>5, GrownHandles
  <2>7. PointsIn(data'.commands, Thunks', standsFor', m, t)
    BY <2>6 DEF Points
  <2> QED
    BY <2>3, <2>5, <2>7
<1>3. ASSUME NEW i \in 1 .. Size', data'.commands[i].id \in Thunks'
      PROVE  /\ thunks'[data'.commands[i].id].resultIndex = i /\ data'.commands[i].id \in DOMAIN handles' /\ data'.commands[i].args = <<>>
  <2>1. CASE i \in 1 .. Size
    <3>1. data'.commands[i] = data.commands[i] /\ NameAt(i) \in Thunks
      BY <1>3, <2>1, GrownNames DEF Grown, NameAt
    <3>2. thunks[NameAt(i)].resultIndex = i /\ NameAt(i) \in DOMAIN handles /\ ArgsAt(i) = <<>>
      BY <1>0, <2>1, <3>1 DEF HandlesPoint
    <3> QED
      BY <1>0, <3>1, <3>2 DEF Grown, ThunksGrow, NameAt, ArgsAt
  <2>2. CASE i = Size + 1 /\ Size' = Size + 1
    BY <1>0, <1>3, <2>2 DEF Grown, ThunksGrow
  <2> QED
    BY <2>1, <2>2, GrownNames
<1>4. HandlesPoint'
  BY <1>1, <1>2, <1>3 DEF HandlesPoint, Points, NameAt, ArgsAt, Thunks, Replaced
<1>5. ASSUME NEW t \in Thunks'
      PROVE  /\ thunks'[t].state # "resolved" \/ thunks'[t].void => thunks'[t].result = t /\ t \notin Replaced'
             /\ thunks'[t].state = "resolved" /\ ~thunks'[t].void => thunks'[t].result # t
             /\ thunks'[t].state = "running" => t \in InData'
             /\ t \notin InData' => thunks'[t].state = "resolved"
             /\ t \in InData' /\ thunks'[t].state = "resolved" /\ ~thunks'[t].void =>
                  /\ ReturnFits(t)'
                  /\ Meaning(t)' \in Thunks' => Post(Meaning(t)', t) /\ Meaning(t)' \in InData'
  <2>1. CASE t = x
    <3>1. thunks'[t].state = "running" /\ thunks'[t].result = x /\ x \in DOMAIN handles'
      BY <1>0, <1>5, <2>1 DEF ThunksGrow
    <3>2. x \in InData' /\ x \notin Replaced'
      BY <1>0, <3>1, GrownNames DEF Grown
    <3> QED
      BY <2>1, <3>1, <3>2
  <2>2. CASE t # x
    <3>1. t \in Thunks /\ (t \in InData' <=> t \in InData) /\ Replaced' = Replaced
      BY <1>5, <2>2, GrownNames
    <3>2. /\ thunks'[t].result = thunks[t].result /\ thunks'[t].void = thunks[t].void
          /\ thunks'[t].state = thunks[t].state
                \/ (thunks[t].state = "running" /\ thunks'[t].state = "rejected")
      BY <1>0, <3>1 DEF ThunksGrow
    <3>3. /\ thunks[t].state # "resolved" \/ thunks[t].void => thunks[t].result = t /\ t \notin Replaced
          /\ thunks[t].state = "resolved" /\ ~thunks[t].void => thunks[t].result # t
          /\ thunks[t].state = "running" => t \in InData
          /\ t \notin InData => thunks[t].state = "resolved"
          /\ t \in InData /\ thunks[t].state = "resolved" /\ ~thunks[t].void =>
               /\ ReturnFits(t)
               /\ Meaning(t) \in Thunks => Post(Meaning(t), t) /\ Meaning(t) \in InData
      BY <1>0, <3>1 DEF ThunksStand
    <3>4. ASSUME t \in InData', thunks'[t].state = "resolved", ~thunks'[t].void
          PROVE  /\ ReturnFits(t)'
                 /\ Meaning(t)' \in Thunks' => Post(Meaning(t)', t) /\ Meaning(t)' \in InData'
      <4>1. /\ t \in InData /\ thunks[t].state = "resolved" /\ ReturnFits(t)
            /\ Meaning(t) \in Thunks => Post(Meaning(t), t) /\ Meaning(t) \in InData
        BY <3>1, <3>2, <3>3, <3>4
      <4>2. PICK r : r = thunks[t].result
        OBVIOUS
      <4>2a. /\ r \in Referable /\ r # t /\ Post(NameAt(Handle(r)), t) /\ t \in Replaced /\ Meaning(t) = Meaning(r)
        BY <4>1, <4>2 DEF ReturnFits
      <4>3. Handle(r) \in 1 .. Size /\ r \in DOMAIN handles
        BY <1>0, <4>2a, HandleFits
      <4>4. Handle(r)' = Handle(r) /\ Meaning(r)' = Meaning(r) /\ Meaning(t)' = Meaning(t) /\ r \in Referable'
        BY <4>2a, <4>3, GrownHandles
      <4>5. data'.commands[Handle(r)] = data.commands[Handle(r)]
        BY <4>3 DEF Grown
      <4>6. ReturnFits(t)'
        BY <3>1, <3>2, <4>2, <4>2a, <4>4, <4>5 DEF ReturnFits, NameAt, Replaced
      <4>7. t \in Replaced /\ Meaning(t) # x
        BY <4>2a, GrownNames DEF Meaning, Replaced
      <4>8. Meaning(t) \in Thunks' => Meaning(t) \in Thunks
        BY <4>7, GrownNames
      <4> QED
        BY <4>1, <4>4, <4>6, <4>8, GrownNames
    <3> QED
      BY <3>1, <3>2, <3>3, <3>4
  <2> QED
    BY <2>1, <2>2
<1>6. ThunksStand'
  BY <1>5 DEF ThunksStand, Thunks, Replaced
<1> QED
  BY <1>4, <1>6

(* A name in use is one that its path has given, *)
LEMMA MadeLast ==
  ASSUME BuilderTypes, NamesKnown, NEW y \in Known, NEW f \in DOMAIN count, Front(y) = f
  PROVE  Last(y) <= count[f] /\ Last(y) \in Nat /\ count[f] \in Nat /\ y \in Name /\ y # <<>> /\ f \in Name
         /\ y = Append(f, Last(y))
<1>1. y \in Name /\ y # <<>> /\ Made(y) /\ f \in Name /\ count[f] \in Nat
  BY DEF NamesKnown, BuilderTypes
<1>2. y = Append(f, Last(y)) /\ Last(y) \in Nat
  BY <1>1, FrontName
<1>3. Inside(Append(f, Last(y)), f) /\ Append(f, Last(y))[Len(f) + 1] = Last(y)
  BY <1>1, <1>2, AppendedName
<1>4. y[Len(f) + 1] <= count[f]
  BY <1>1, <1>2, <1>3 DEF Made
<1> QED
  BY <1>1, <1>2, <1>3, <1>4

(* and the next name is none of these. *)
LEMMA FreshName ==
  ASSUME BuilderTypes, NamesKnown, NEW f \in DOMAIN count
  PROVE  /\ NextName(f) \notin Known /\ NextName(f) \in Name /\ NextName(f) # <<>> /\ Front(NextName(f)) = f
         /\ Last(NextName(f)) = count[f] + 1 /\ count[f] \in Nat /\ User(NextName(f)) /\ NextName(f) = Append(f, count[f] + 1)
         /\ NextName(f) \notin DOMAIN count
<1>1. f \in Name /\ count[f] \in Nat /\ count[f] + 1 \in Nat
  BY DEF BuilderTypes
<1>2. /\ NextName(f) \in Name /\ NextName(f) # <<>> /\ Front(NextName(f)) = f /\ Last(NextName(f)) = count[f] + 1
      /\ NextName(f)[Len(f) + 1] = count[f] + 1 /\ \A j \in 1 .. Len(f) : NextName(f)[j] = f[j]
  BY <1>1, AppendedName DEF NextName
<1>3. NextName(f) \notin Known
  BY <1>1, <1>2, MadeLast
<1>4. NextName(f)[1] # 0
  <2>1. Len(f) \in Nat
    BY <1>1, NameParts
  <2>2. CASE Len(f) = 0
    BY <1>1, <1>2, <2>2
  <2>3. CASE Len(f) > 0
    <3>1. 1 \in 1 .. Len(f)
      BY <2>1, <2>3
    <3>2. f[1] > 0 /\ NextName(f)[1] = f[1]
      BY <1>2, <3>1 DEF NamesKnown
    <3> QED
      BY <3>2
  <2> QED
    BY <2>1, <2>2, <2>3
<1>5. User(NextName(f))
  BY <1>1, <1>2, <1>4 DEF User
<1>6. NextName(f) \notin DOMAIN count
  BY <1>2, <1>3 DEF Known, Root
<1> QED
  BY <1>1, <1>2, <1>3, <1>5, <1>6 DEF NextName

(* The code with path f puts in the command x.                             *)
PutAt(f, x) ==
  /\ f \in Forks /\ x \in Name /\ x # <<>> /\ Front(x) = f /\ User(x)
  /\ count[f] <= Last(x) /\ count'[f] = Last(x) /\ DOMAIN count' = DOMAIN count
  /\ \A g \in DOMAIN count \ {f} : count'[g] = count[g]
  /\ (x \in Forks /\ x \in Thunks') \/ (x \notin Forks /\ count[f] < Last(x))
  /\ Size' = Size + 1 /\ Forks' = Forks
  /\ \A g \in Forks \ {f} : section'[g].commands = section[g].commands
  /\ section'[f].commands = Append(section[f].commands, Entry(x))
  /\ \A g \in Forks \ {f} : available'[g] = available[g]
  /\ available'[f] = available[f] \cup {Size + 1}
  /\ data'.commands[Size + 1].kind \notin {"split", "merge"}
  /\ \A k \in 1 .. Len(data'.commands[Size + 1].args) :
       LET arg == data'.commands[Size + 1].args[k]
       IN x \notin refused' /\ RefersToResult(arg) => arg.at \in 1 .. Size /\ Less(NameAt(arg.at), x)

(* What putting in a command does to the sections. *)
LEMMA PutSections ==
  ASSUME NEW f, NEW x, PutAt(f, x), BuilderTypes
  PROVE  /\ \A g \in Forks : \A k \in 1 .. Len(section[g].commands) :
              k \in 1 .. Len(section'[g].commands) /\ section'[g].commands[k] = section[g].commands[k]
         /\ \A g \in Forks : \A k \in 1 .. Len(section'[g].commands) :
              \/ k \in 1 .. Len(section[g].commands)
              \/ g = f /\ k = Len(section[f].commands) + 1
         /\ Len(section[f].commands) + 1 \in 1 .. Len(section'[f].commands)
         /\ section'[f].commands[Len(section[f].commands) + 1] = Entry(x)
         /\ \A g \in Forks : Len(section[g].commands) \in Nat /\ Len(section[g].commands) <= Len(section'[g].commands)
<1>1. \A g \in Forks : section[g].commands \in Seq(CommandEntry) /\ Len(section[g].commands) \in Nat
  BY SectionTypes
<1>2. f \in Forks
  BY DEF PutAt
<1> DEFINE s == section[f].commands
           t == section'[f].commands
           E == CommandEntry \cup {Entry(x)}
<1>3. s \in Seq(E)
  <2>1. s \in Seq(CommandEntry) /\ Len(s) \in Nat /\ \A i \in 1 .. Len(s) : s[i] \in CommandEntry
    BY <1>1, <1>2, ElementOfSeq
  <2> HIDE DEF s
  <2> QED
    BY <2>1, SeqRetype
<1>4. t = Append(s, Entry(x)) /\ Entry(x) \in E
  BY DEF PutAt
<1>5. Len(s) \in Nat
  BY <1>1, <1>2
<1> HIDE DEF s, t, E
<1>6. Len(t) = Len(s) + 1 /\ (\A k \in 1 .. Len(s) : t[k] = s[k]) /\ t[Len(s) + 1] = Entry(x)
  BY <1>3, <1>4, AppendProperties
<1>7. \A g \in Forks : g # f => section'[g].commands = section[g].commands
  BY DEF PutAt
<1>8. /\ \A k \in 1 .. Len(s) : k \in 1 .. Len(t) /\ t[k] = s[k]
      /\ \A k \in 1 .. Len(t) : k \in 1 .. Len(s) \/ k = Len(s) + 1
      /\ Len(s) + 1 \in 1 .. Len(t) /\ t[Len(s) + 1] = Entry(x) /\ Len(s) <= Len(t)
  BY <1>5, <1>6
<1> QED
  <2>1. ASSUME NEW g \in Forks, g # f
        PROVE  /\ section'[g].commands = section[g].commands /\ Len(section[g].commands) \in Nat
               /\ Len(section[g].commands) <= Len(section'[g].commands)
    BY <1>1, <1>7, <2>1
  <2> QED
    BY <1>1, <1>2, <1>8, <2>1 DEF s, t

(* What was old stays old. *)
LEMMA PutKeepsBase ==
  ASSUME NEW f, NEW x, PutAt(f, x), Grown(x), BuilderTypes, NamesKnown,
         NEW b \in 0 .. Size, Base(b)
  PROVE  Base(b)'
<1>0. /\ Size \in Nat /\ Size' = Size + 1 /\ Forks' = Forks /\ f \in Forks /\ b \in Nat /\ Root \in Forks /\ Root = <<>>
      /\ ThunksGrow(x) /\ x \in Name /\ x # <<>> /\ Front(x) = f
  BY GrownNames DEF PutAt, BuilderTypes, Grown, Root
<1>1. \A i \in 1 .. b : i \in 1 .. Size /\ NameAt(i)' = NameAt(i) /\ NameAt(i) # x /\ data'.commands[i] = data.commands[i]
  BY <1>0, GrownNames DEF Grown
<1>2. b <= Len(section'[Root].commands)
  BY <1>0, PutSections DEF Base
<1>3. ASSUME NEW k \in 1 .. b
      PROVE  section'[Root].commands[k] = Entry(NameAt(k)) /\ NameAt(k) \notin Thunks'
  <2>1. section[Root].commands[k] = Entry(NameAt(k)) /\ NameAt(k) \notin Thunks /\ k \in 1 .. Len(section[Root].commands)
    BY <1>0, PutSections DEF Base
  <2> QED
    BY <1>0, <1>1, <2>1, GrownNames, PutSections
<1>4. ASSUME NEW i \in 1 .. b, NEW y \in New(b)'
      PROVE  NameAt(i)[1] < y[1]
  <2>1. \A z \in New(b) : NameAt(i)[1] < z[1]
    BY DEF Base
  <2>2. CASE y # x
    <3>1. y \in New(b)
      <4>1. \A j \in b + 1 .. Size' : j \in b + 1 .. Size \/ (j = Size + 1 /\ data'.commands[j].id = x)
        BY <1>0 DEF Grown
      <4>2. \A j \in b + 1 .. Size : NameAt(j)' = NameAt(j)
        BY <1>0, GrownNames
      <4> QED
        BY <1>0, <2>2, <4>1, <4>2 DEF New, NameAt
    <3> QED
      BY <2>1, <3>1
  <2>3. CASE y = x /\ f = Root
    <3>1. CASE x \in Forks
      <4>1. x \in New(b)
        BY <1>0, <3>1 DEF New
      <4> QED
        BY <2>1, <2>3, <4>1
    <3>2. CASE x \notin Forks
      <4>1. x = Append(Root, Last(x)) /\ Last(x) \in Nat /\ count[Root] < Last(x) /\ Root \in DOMAIN count
        BY <1>0, <2>3, <3>2, FrontName DEF PutAt, BuilderTypes
      <4>2. x[1] = Last(x)
        BY <4>1 DEF Root
      <4>3. NameAt(i)[1] <= count[Root] /\ NameAt(i)[1] \in Nat /\ count[Root] \in Nat
        <5>1. Made(NameAt(i)) /\ NameAt(i) \in Name /\ Len(NameAt(i)) \in Nat /\ 1 \in 1 .. Len(NameAt(i)) /\ NameAt(i)[1] \in Nat
          BY <1>1, NameAtParts
        <5>2. Inside(NameAt(i), Root) /\ Len(Root) + 1 = 1
          BY <5>1 DEF Root, Inside
        <5> QED
          BY <4>1, <5>1, <5>2 DEF Made, BuilderTypes
      <4> QED
        BY <2>3, <4>1, <4>2, <4>3
    <3> QED
      BY <3>1, <3>2
  <2>4. CASE y = x /\ f # Root
    <3>1. f \in New(b) /\ f \in Name
      BY <1>0, <2>4 DEF New, BuilderTypes
    <3>2. 1 \in 1 .. Len(f)
      BY <3>1, <2>4, EmptySeq, NameParts DEF Root, Name
    <3>3. x[1] = f[1]
      BY <1>0, <3>2, FrontName
    <3> QED
      BY <2>1, <2>4, <3>1, <3>3
  <2> QED
    BY <2>2, <2>3, <2>4
<1>5. ASSUME NEW t \in DOMAIN handles' \cap Thunks', t \notin InData', ~thunks'[t].void, thunks'[t].result \notin Thunks'
      PROVE  thunks'[t].resultIndex <= b
  <2>1. t # x
    BY <1>0, <1>5, GrownNames
  <2>2. t \in Thunks /\ t \in DOMAIN handles /\ t \notin InData
    BY <1>5, <2>1, GrownNames DEF Grown
  <2>3. thunks'[t].result = thunks[t].result /\ thunks'[t].resultIndex = thunks[t].resultIndex
          /\ thunks'[t].void = thunks[t].void /\ thunks[t].result \notin Thunks
    BY <1>0, <1>5, <2>2, GrownNames DEF ThunksGrow
  <2> QED
    BY <1>5, <2>2, <2>3 DEF Base
<1>6. InOrder(b)'
  BY <1>1 DEF Base, InOrder, OrderIn
<1>7. ASSUME NEW i \in b + 1 .. Size'
      PROVE  User(data'.commands[i].id) /\ data'.commands[i].kind \notin {"split", "merge"}
  <2>1. CASE i \in b + 1 .. Size
    <3>1. i \in 1 .. Size
      BY <1>0, <2>1
    <3>2. data'.commands[i] = data.commands[i]
      BY <3>1 DEF Grown
    <3> QED
      BY <2>1, <3>2 DEF Base, NameAt, KindAt
  <2>2. CASE i = Size + 1
    BY <1>0, <2>2 DEF Grown, PutAt
  <2> QED
    BY <1>0, <2>1, <2>2
<1> QED
  BY <1>1, <1>2, <1>3, <1>4, <1>5, <1>6, <1>7 DEF Base, NameAt, KindAt, Thunks

(* The new command is the last of its section. *)
LEMMA PutKeepsPlaced ==
  ASSUME NEW f, NEW x, PutAt(f, x), Grown(x), BuilderTypes, NamesKnown,
         NEW b \in 0 .. Size, Base(b), Placed(b)
  PROVE  Placed(b)'
<1>0. /\ Size \in Nat /\ Size' = Size + 1 /\ Forks' = Forks /\ f \in Forks /\ b \in Nat /\ Root \in Forks /\ Root = <<>>
      /\ x \in Name /\ x # <<>> /\ Front(x) = f /\ f \in DOMAIN count /\ data'.commands[Size + 1].id = x
  BY GrownNames DEF PutAt, BuilderTypes, Grown, Root
<1>1. \A i \in 1 .. Size : i \in 1 .. Size' /\ data'.commands[i].id = NameAt(i) /\ NameAt(i) # x
  BY <1>0, GrownNames DEF Grown, NameAt
<1>2. \A i \in b + 1 .. Size : i \in b + 1 .. Size' /\ i \in 1 .. Size
  BY <1>0
<1>3. \A i \in b + 1 .. Size' : i \in b + 1 .. Size \/ i = Size + 1
  BY <1>0
<1>3a. Size + 1 \in b + 1 .. Size'
  BY <1>0
<1> DEFINE L(g) == Len(section[g].commands)
           s(g, k) == section[g].commands[k]
<1>4. /\ \A g \in Forks : \A k \in 1 .. L(g) : k \in 1 .. Len(section'[g].commands) /\ section'[g].commands[k] = s(g, k)
      /\ \A g \in Forks : \A k \in 1 .. Len(section'[g].commands) : k \in 1 .. L(g) \/ (g = f /\ k = L(f) + 1)
      /\ L(f) + 1 \in 1 .. Len(section'[f].commands) /\ section'[f].commands[L(f) + 1] = Entry(x)
      /\ \A g \in Forks : L(g) \in Nat
  BY PutSections
<1> DEFINE Fits(g, e) == /\ e.name # <<>> /\ Front(e.name) = g
                         /\ IF e.fork THEN e.name \in Forks ELSE \E j \in b + 1 .. Size' : data'.commands[j].id = e.name
<1>5. ASSUME NEW g \in Forks, NEW k \in 1 .. Len(section'[g].commands), ~(g = Root /\ k <= b)
      PROVE  Fits(g, section'[g].commands[k])
  <2>1. CASE k \in 1 .. L(g)
    <3>1. EntryFits(g, b, s(g, k))
      BY <1>5, <2>1 DEF Placed
    <3>2. section'[g].commands[k] = s(g, k)
      BY <1>4, <2>1
    <3> QED
      BY <1>1, <1>2, <3>1, <3>2 DEF EntryFits
  <2>2. CASE g = f /\ k = L(f) + 1
    <3>1. section'[g].commands[k] = Entry(x)
      BY <1>4, <2>2
    <3> QED
      BY <1>0, <1>3a, <2>2, <3>1 DEF Entry
  <2> QED
    BY <1>4, <2>1, <2>2
<1>6. ASSUME NEW j \in b + 1 .. Size'
      PROVE  LET y == data'.commands[j].id
             IN /\ y # <<>> /\ Front(y) \in Forks
                /\ \E k \in 1 .. Len(section'[Front(y)].commands) : section'[Front(y)].commands[k] = Entry(y)
  <2>1. CASE j \in b + 1 .. Size
    <3> DEFINE y == NameAt(j)
    <3>1. data'.commands[j].id = y
      BY <1>1, <1>2, <2>1
    <3>2. /\ y # <<>> /\ Front(y) \in Forks
          /\ \E k \in 1 .. L(Front(y)) : s(Front(y), k) = Entry(y)
      BY <2>1 DEF Placed
    <3> HIDE DEF y
    <3> QED
      BY <1>4, <3>1, <3>2
  <2>2. CASE j = Size + 1
    BY <1>0, <1>4, <2>2
  <2> QED
    BY <1>3, <2>1, <2>2
<1>7. ASSUME NEW g \in Forks \ {Root}
      PROVE  /\ Front(g) \in Forks
             /\ \E k \in 1 .. Len(section'[Front(g)].commands) : section'[Front(g)].commands[k] = ForkEntry(g)
  <2>1. /\ Front(g) \in Forks /\ \E k \in 1 .. L(Front(g)) : s(Front(g), k) = ForkEntry(g)
    BY DEF Placed
  <2> QED
    BY <1>4, <2>1
<1>8. ASSUME NEW g \in Forks, NEW k \in 1 .. Len(section'[g].commands), NEW l \in 1 .. Len(section'[g].commands),
             k < l, g = Root => k > b
      PROVE  LET d == section'[g].commands[k]
                 e == section'[g].commands[l]
             IN Last(d.name) < Last(e.name) \/ (d.name = e.name /\ d.fork /\ ~e.fork)
  <2>1. CASE l \in 1 .. L(g)
    <3>1. k \in 1 .. L(g)
      BY <1>4, <1>8, <2>1
    <3>2. Last(s(g, k).name) < Last(s(g, l).name) \/ (s(g, k).name = s(g, l).name /\ s(g, k).fork /\ ~s(g, l).fork)
      BY <1>8, <2>1, <3>1 DEF Placed
    <3> QED
      BY <1>4, <2>1, <3>1, <3>2
  <2>2. CASE g = f /\ l = L(f) + 1
    <3>1. k \in 1 .. L(f) /\ ~(f = Root /\ k <= b)
      BY <1>0, <1>4, <1>8, <2>2
    <3> DEFINE e == s(f, k)
    <3>2. section'[g].commands[k] = e /\ section'[g].commands[l] = Entry(x)
      BY <1>4, <2>2, <3>1
    <3>3. EntryFits(f, b, e)
      BY <1>0, <3>1 DEF Placed
    <3>4. e.name \in Known
      <4>1. CASE e.fork
        BY <1>0, <3>3, <4>1 DEF EntryFits, Known, BuilderTypes
      <4>2. CASE ~e.fork
        <5>1. PICK j \in b + 1 .. Size : NameAt(j) = e.name
          BY <3>3, <4>2 DEF EntryFits
        <5> QED
          BY <1>2, <5>1, NameAtParts
      <4> QED
        BY <4>1, <4>2
    <3>5. Last(e.name) <= count[f] /\ Last(e.name) \in Nat /\ e.name = Append(f, Last(e.name)) /\ count[f] \in Nat
      BY <1>0, <3>3, <3>4, MadeLast DEF EntryFits
    <3>6. count[f] <= Last(x) /\ Last(x) \in Nat /\ x = Append(f, Last(x))
      BY <1>0, FrontName DEF PutAt
    <3>7. CASE Last(e.name) < Last(x)
      BY <3>2, <3>7 DEF Entry
    <3>8. CASE Last(e.name) = Last(x)
      <4>1. e.name = x
        BY <3>5, <3>6, <3>8
      <4>2. e.fork
        <5>1. ASSUME ~e.fork  PROVE FALSE
          <6>1. PICK j \in b + 1 .. Size : NameAt(j) = e.name
            BY <3>3, <5>1 DEF EntryFits
          <6> QED
            BY <1>1, <1>2, <4>1, <6>1
        <5> QED
          BY <5>1
      <4> QED
        BY <3>2, <4>1, <4>2 DEF Entry
    <3> HIDE DEF e
    <3> QED
      BY <3>5, <3>6, <3>7, <3>8
  <2> QED
    BY <1>4, <2>1, <2>2
<1>9. ASSUME NEW i \in b + 1 .. Size', NEW j \in b + 1 .. Size', i < j,
             Front(data'.commands[i].id) = Front(data'.commands[j].id)
      PROVE  Last(data'.commands[i].id) < Last(data'.commands[j].id)
  <2>1. CASE j \in b + 1 .. Size
    <3>1. i \in b + 1 .. Size
      BY <1>0, <1>9, <2>1
    <3> QED
      BY <1>1, <1>2, <1>9, <2>1, <3>1 DEF Placed
  <2>2. CASE j = Size + 1
    <3>1. i \in b + 1 .. Size /\ i \in 1 .. Size
      BY <1>0, <1>9, <2>2
    <3> DEFINE y == NameAt(i)
    <3>2. data'.commands[i].id = y /\ data'.commands[j].id = x /\ y # x /\ Front(y) = f
      BY <1>0, <1>1, <1>9, <2>2, <3>1
    <3>3. y \in Known
      BY <3>1, NameAtParts
    <3> HIDE DEF y
    <3>4. Last(y) <= count[f] /\ Last(y) \in Nat /\ y = Append(f, Last(y)) /\ count[f] \in Nat
      BY <1>0, <3>2, <3>3, MadeLast
    <3>5. count[f] <= Last(x) /\ Last(x) \in Nat /\ x = Append(f, Last(x))
      BY <1>0, FrontName DEF PutAt
    <3>6. Last(y) # Last(x)
      BY <3>2, <3>4, <3>5
    <3> QED
      BY <3>2, <3>4, <3>5, <3>6
  <2> QED
    BY <1>3, <2>1, <2>2
<1>10. InData' \cap (Forks \ {Root}) \subseteq Thunks'
  <2>1. InData \cap (Forks \ {Root}) \subseteq Thunks
    BY DEF Placed
  <2>2. Thunks \subseteq Thunks'
    BY DEF Grown, ThunksGrow
  <2>3. \A y : y # x => (y \in InData' <=> y \in InData)
    BY GrownNames
  <2>4. x \in Forks => x \in Thunks'
    BY DEF PutAt
  <2> QED
    BY <2>1, <2>2, <2>3, <2>4
<1> HIDE DEF L, s
<1>11. \A g \in Forks : \A k \in 1 .. Len(section'[g].commands) : (g = Root /\ k <= b) \/ EntryFits(g, b, section[g].commands[k])'
  BY <1>0, <1>5 DEF EntryFits, NameAt
<1> HIDE DEF Fits
<1>12. (\A g \in Forks : \A k \in 1 .. Len(section[g].commands) : (g = Root /\ k <= b) \/ EntryFits(g, b, section[g].commands[k]))'
  BY <1>0, <1>11 DEF Root
<1>13. (\A j \in b + 1 .. Size :
          /\ NameAt(j) # <<>> /\ Front(NameAt(j)) \in Forks
          /\ \E k \in 1 .. Len(section[Front(NameAt(j))].commands) :
               section[Front(NameAt(j))].commands[k] = Entry(NameAt(j)))'
  BY <1>0, <1>6 DEF NameAt
<1>14. (\A g \in Forks \ {Root} :
          /\ Front(g) \in Forks
          /\ \E k \in 1 .. Len(section[Front(g)].commands) : section[Front(g)].commands[k] = ForkEntry(g))'
  BY <1>0, <1>7 DEF Root
<1>15. (\A g \in Forks : \A k, l \in 1 .. Len(section[g].commands) :
          k < l /\ (g = Root => k > b) =>
            LET d == section[g].commands[k]
                e == section[g].commands[l]
            IN Last(d.name) < Last(e.name) \/ (d.name = e.name /\ d.fork /\ ~e.fork))'
  BY <1>0, <1>8 DEF Root
<1>16. (\A i, j \in b + 1 .. Size :
          i < j /\ Front(NameAt(i)) = Front(NameAt(j)) => Last(NameAt(i)) < Last(NameAt(j)))'
  BY <1>0, <1>9 DEF NameAt
<1>17. (InData \cap (Forks \ {Root}) \subseteq Thunks)'
  BY <1>0, <1>10 DEF Root
<1> QED
  BY <1>12, <1>13, <1>14, <1>15, <1>16, <1>17 DEF Placed

(* A new command uses results of earlier names, *)
LEMMA PutKeepsAdds ==
  ASSUME NEW f, NEW x, PutAt(f, x), Grown(x), BuilderTypes, NamesKnown, ArgsFit, Adds
  PROVE  Adds'
<1>0. Size \in Nat /\ Size' = Size + 1
  BY GrownNames DEF PutAt
<1>1. PICK b \in 0 .. Size : Base(b) /\ Placed(b) /\ LessArgs(b)
  BY DEF Adds
<1>2. Base(b)' /\ Placed(b)'
  BY <1>1, PutKeepsBase, PutKeepsPlaced
<1>3. LessArgs(b)'
  <2> SUFFICES ASSUME NEW i \in b + 1 .. Size', NEW k \in 1 .. Len(data'.commands[i].args), NEW arg,
                      arg = data'.commands[i].args[k], data'.commands[i].id \notin refused', RefersToResult(arg)
               PROVE  Less(data'.commands[arg.at].id, data'.commands[i].id)
    BY DEF LessArgs, NameAt, ArgsAt
  <2>1. CASE i \in b + 1 .. Size
    <3>1. i \in 1 .. Size /\ data'.commands[i] = data.commands[i]
      BY <1>0, <2>1 DEF Grown
    <3>2. data.commands[i].id \notin refused
      BY <3>1 DEF Grown
    <3>3. Less(NameAt(arg.at), NameAt(i))
      BY <1>1, <2>1, <3>1, <3>2 DEF LessArgs, NameAt, ArgsAt
    <3>4. arg.at \in 1 .. Size
      BY <3>1, <3>2 DEF ArgsFit, ArgsFitIn, ResultFits, PointsIn, Size
    <3>5. data'.commands[arg.at] = data.commands[arg.at]
      BY <3>4 DEF Grown
    <3> QED
      BY <3>1, <3>3, <3>5 DEF NameAt
  <2>2. CASE i = Size + 1
    <3>1. data'.commands[i].id = x
      BY <1>0, <2>2 DEF Grown
    <3>2. arg.at \in 1 .. Size /\ Less(NameAt(arg.at), x)
      BY <2>2, <3>1 DEF PutAt
    <3>3. data'.commands[arg.at] = data.commands[arg.at]
      BY <3>2 DEF Grown
    <3> QED
      BY <3>1, <3>2, <3>3 DEF NameAt
  <2> QED
    BY <1>0, <2>1, <2>2
<1>4. (\E c \in 0 .. Size : Base(c) /\ Placed(c) /\ LessArgs(c))'
  <2>1. b \in 0 .. Size'
    BY <1>0
  <2> QED
    BY <1>2, <1>3, <2>1
<1> QED
  BY <1>4 DEF Adds

(* and is available to what its code adds next. *)
LEMMA PutKeepsAvailable ==
  ASSUME NEW f, NEW x, PutAt(f, x), Grown(x), BuilderTypes, NamesKnown, AvailableLess
  PROVE  AvailableLess'
<1>0. /\ Size \in Nat /\ Size' = Size + 1 /\ Forks' = Forks /\ f \in Forks /\ x \in Name /\ x # <<>>
      /\ Front(x) = f /\ Forks \subseteq DOMAIN count /\ DOMAIN count \subseteq Name
      /\ available \in [Forks -> SUBSET (1 .. Size)] /\ count \in [DOMAIN count -> Nat]
  BY GrownNames DEF PutAt, BuilderTypes
<1>1. \A i \in 1 .. Size : data'.commands[i] = data.commands[i] /\ NameAt(i) \in Name
  BY NameAtParts DEF Grown
<1>2. data'.commands[Size + 1].id = x /\ x = Append(f, Last(x)) /\ Last(x) \in Nat
  BY <1>0, FrontName DEF Grown
<1>3. ASSUME NEW g \in Forks, NEW i \in available'[g]
      PROVE  Less(data'.commands[i].id, Append(g, count'[g] + 1))
  <2>1. CASE g # f
    <3>1. i \in available[g] /\ count'[g] = count[g] /\ i \in 1 .. Size
      BY <1>0, <1>3, <2>1 DEF PutAt
    <3> QED
      BY <1>1, <3>1 DEF AvailableLess, NextName, NameAt
  <2>2. CASE g = f /\ i \in available[f]
    <3>1. i \in 1 .. Size /\ NameAt(i) \in Name /\ Less(NameAt(i), Append(f, count[f] + 1)) /\ data'.commands[i].id = NameAt(i)
      BY <1>0, <1>1, <2>2 DEF AvailableLess, NextName, NameAt
    <3> DEFINE c == count[f]
               l == Last(x)
    <3>2. c \in Nat /\ l \in Nat /\ c <= l /\ count'[f] = l /\ c + 1 \in Nat /\ l + 1 \in Nat /\ f \in Name
      BY <1>0, <1>2 DEF PutAt
    <3> HIDE DEF c, l
    <3>3. CASE c = l
      BY <2>2, <3>1, <3>2, <3>3 DEF c
    <3>4. CASE c < l
      <4>1. Less(Append(f, c + 1), Append(f, l + 1))
        BY <3>2, <3>4, LessAppend
      <4>2. Append(f, c + 1) \in Name /\ Append(f, l + 1) \in Name
        BY <3>2, AppendedName
      <4>3. Less(NameAt(i), Append(f, c + 1))
        BY <3>1 DEF c
      <4>4. Less(NameAt(i), Append(f, l + 1))
        BY <3>1, <4>1, <4>2, <4>3, LessTransitive
      <4> QED
        BY <2>2, <3>1, <3>2, <4>4
    <3> QED
      BY <3>2, <3>3, <3>4
  <2>3. CASE g = f /\ i = Size + 1
    <3> DEFINE l == Last(x)
    <3>1. l \in Nat /\ l + 1 \in Nat /\ l < l + 1 /\ count'[f] = l /\ x = Append(f, l) /\ f \in Name
      BY <1>0, <1>2 DEF PutAt
    <3> HIDE DEF l
    <3>2. Less(Append(f, l), Append(f, l + 1))
      BY <3>1, LessAppend
    <3> QED
      BY <1>2, <2>3, <3>1, <3>2
  <2> QED
    BY <1>3, <2>1, <2>2, <2>3 DEF PutAt
<1> QED
  BY <1>0, <1>3 DEF AvailableLess, NextName, NameAt

(* At most one more name is in use, *)
LEMMA GrownMentions ==
  ASSUME NEW x, Grown(x)
  PROVE  Mentioned' \subseteq Mentioned \cup {x}
<1>0. ThunksGrow(x)
  BY DEF Grown
<1>1. Thunks' \subseteq Thunks \cup {x} /\ DOMAIN handles' \subseteq DOMAIN handles \cup {x}
  BY <1>0 DEF ThunksGrow, Grown
<1>2. standsFor' = standsFor /\ refused' \subseteq refused \cup {x}
  BY DEF Grown
<1>3. \A t \in Thunks' : thunks'[t].result = x \/ (t \in Thunks /\ thunks'[t].result = thunks[t].result)
  BY <1>0 DEF ThunksGrow
<1>4. ASSUME NEW t \in Thunks'  PROVE thunks'[t].result \in Mentioned \cup {x}
  BY <1>3 DEF Mentioned
<1>5. ASSUME NEW y \in Replaced'  PROVE y \in Mentioned /\ standsFor'[y] \in Mentioned
  BY <1>2 DEF Mentioned, Replaced
<1>6. ASSUME NEW y \in Thunks' \cup DOMAIN handles'  PROVE y \in Mentioned \cup {x}
  BY <1>1 DEF Mentioned
<1>7. refused' \subseteq Mentioned \cup {x}
  BY <1>2 DEF Mentioned
<1> QED
  BY <1>4, <1>5, <1>6, <1>7 DEF Mentioned

(* which was given. *)
LEMMA PutKeepsNames ==
  ASSUME NEW f, NEW x, PutAt(f, x), Grown(x), BuilderTypes, NamesKnown, special' \in Nat, special <= special'
  PROVE  NamesKnown'
<1>0. /\ x \in Name /\ x # <<>> /\ Front(x) = f /\ f \in Forks /\ f \in DOMAIN count /\ DOMAIN count' = DOMAIN count
      /\ count \in [DOMAIN count -> Nat] /\ DOMAIN count \subseteq Name /\ User(x) /\ ThunksGrow(x) /\ special \in Nat
  BY DEF PutAt, BuilderTypes, Grown
<1>1. \A g \in DOMAIN count : count[g] <= count'[g]
  BY <1>0 DEF PutAt
<1>2. Mentioned' \subseteq Mentioned \cup {x}
  BY GrownMentions
<1>3. Known' \subseteq Known \cup {x}
  <2>1. InData' \subseteq InData \cup {x}
    BY GrownNames
  <2> QED
    BY <1>0, <1>2, <2>1 DEF Known, Root
<1>4. ASSUME NEW y \in Known
      PROVE  y \in Name /\ y # <<>> /\ Made(y)' /\ (y[1] = 0 => Len(y) > 1 /\ y[2] <= special')
  <2>1. y \in Name /\ y # <<>> /\ Made(y) /\ (y[1] = 0 => Len(y) > 1 /\ y[2] <= special)
    BY DEF NamesKnown
  <2>2. Made(y)'
    <3> SUFFICES ASSUME NEW g \in DOMAIN count, Inside(y, g)  PROVE y[Len(g) + 1] <= count'[g]
      BY <1>0 DEF Made
    <3>1. y[Len(g) + 1] <= count[g]
      BY <2>1 DEF Made
    <3>2. y[Len(g) + 1] \in Nat /\ count[g] \in Nat /\ count'[g] \in Nat
      <4>1. Len(g) \in Nat /\ Len(y) \in Nat
        BY <1>0, <2>1, NameParts
      <4>2. Len(g) + 1 \in 1 .. Len(y)
        BY <4>1 DEF Inside
      <4>3. Last(x) \in Nat
        BY <1>0, FrontName
      <4> QED
        BY <1>0, <2>1, <4>2, <4>3, NameParts DEF PutAt
    <3> QED
      BY <1>1, <3>1, <3>2
  <2>3. y[1] = 0 => y[2] <= special'
    <3> SUFFICES ASSUME y[1] = 0  PROVE y[2] <= special'
      OBVIOUS
    <3>1. Len(y) \in Nat /\ Len(y) > 1
      BY <2>1, NameParts
    <3>2. 2 \in 1 .. Len(y)
      BY <3>1
    <3>3. y[2] \in Nat
      BY <2>1, <3>2, NameParts
    <3> QED
      BY <1>0, <2>1, <3>3
  <2> QED
    BY <2>1, <2>2, <2>3
<1>5. Made(x)'
  <2> SUFFICES ASSUME NEW g \in DOMAIN count, Inside(x, g)  PROVE x[Len(g) + 1] <= count'[g]
    BY <1>0 DEF Made
  <2>1. Len(g) \in Nat /\ Len(x) = Len(f) + 1 /\ Len(f) \in Nat /\ Last(x) = x[Len(x)] /\ f \in Name /\ g \in Name
        /\ \A j \in 1 .. Len(f) : f[j] = x[j]
    BY <1>0, FrontName, NameParts
  <2>2. Len(g) < Len(x) /\ \A j \in 1 .. Len(g) : x[j] = g[j]
    BY DEF Inside
  <2>3. CASE Len(g) = Len(f)
    <3>1. g = f
      BY <2>1, <2>2, <2>3, SameName
    <3>2. x[Len(g) + 1] = Last(x) /\ Last(x) \in Nat /\ count'[f] = Last(x)
      BY <1>0, <2>1, <2>3, FrontName DEF PutAt
    <3> QED
      BY <3>1, <3>2
  <2>4. CASE Len(g) < Len(f)
    <3>1. Inside(f, g)
      <4>1. \A j \in 1 .. Len(g) : j \in 1 .. Len(f)
        BY <2>1, <2>4
      <4> QED
        BY <2>1, <2>2, <2>4, <4>1 DEF Inside
    <3>2. f \in Known
      <4>1. f # Root
        BY <2>1, <2>4 DEF Root
      <4> QED
        BY <1>0, <4>1 DEF Known
    <3>3. Made(f)'
      BY <1>4, <3>2
    <3>4. f[Len(g) + 1] <= count'[g]
      BY <1>0, <3>1, <3>3 DEF Made
    <3>5. Len(g) + 1 \in 1 .. Len(f)
      BY <2>1, <2>4
    <3> QED
      BY <2>1, <3>4, <3>5
  <2> QED
    BY <2>1, <2>2, <2>3, <2>4
<1>6. x[1] # 0 /\ Last(x) # 0
  BY <1>0 DEF User
<1>7. \A y \in Known' : y \in Name /\ y # <<>> /\ Made(y)' /\ (y[1] = 0 => Len(y) > 1 /\ y[2] <= special')
  BY <1>0, <1>3, <1>4, <1>5, <1>6
<1>8. \A y \in Mentioned' \cup (DOMAIN count' \ {Root}) : Last(y) # 0
  BY <1>0, <1>2, <1>6 DEF NamesKnown
<1>9. \A g \in DOMAIN count' : \A j \in 1 .. Len(g) : g[j] > 0
  BY <1>0 DEF NamesKnown
<1> QED
  BY <1>7, <1>8, <1>9 DEF NamesKnown, Root

(* Code that may add something has a section. *)
LEMMA ActiveFork ==
  ASSUME BuilderInv, NEW f \in Active
  PROVE  /\ Gathering /\ phase \in {"idle", "waiting"} /\ f \in Forks /\ f \in DOMAIN count
         /\ running # <<>> => f = Last(running)
<1>1. BuilderTypes
  BY DEF BuilderInv
<1>2. CASE running # <<>>
  <2>1. f = Last(running) /\ running \in Seq(Forks)
    BY <1>1, <1>2 DEF Active, BuilderTypes
  <2>2. f \in Forks
    BY <1>2, <2>1, FrontParts
  <2>3. phase \in {"idle", "waiting"}
    BY <1>1, <1>2 DEF BuilderInv, BuilderTypes, Settled
  <2> QED
    BY <1>1, <2>1, <2>2, <2>3 DEF BuilderInv, BuilderTypes
<1>3. CASE running = <<>>
  <2>1. f \in Unresolved \/ (f = Root /\ phase \in {"idle", "waiting"})
    BY <1>3 DEF Active
  <2>2. phase \in {"idle", "waiting"}
    BY <1>1, <2>1 DEF BuilderInv, BuilderTypes, Settled
  <2>3. f \in Forks
    BY <1>1, <2>1, <2>2 DEF BuilderInv, BuilderTypes, Gathering, Running
  <2> QED
    BY <1>1, <1>3, <2>2, <2>3 DEF BuilderInv, BuilderTypes
<1> QED
  BY <1>2, <1>3

(* The functions that run are called by one another: the caller of one is  *)
(* not the last.                                                           *)
LEMMA RunningFront ==
  ASSUME BuilderTypes, Running, Adds, NEW f, running # <<>> => f = Last(running), NEW k \in 1 .. Len(running)
  PROVE  /\ running[k] \in Forks /\ running[k] \in Name /\ running[k] # <<>> /\ Len(running) \in Nat
         /\ Front(running[k]) \in Forks /\ Front(running[k]) # f
<1>1. running \in Seq(Forks) /\ Forks \subseteq DOMAIN count /\ DOMAIN count \subseteq Name
  BY DEF BuilderTypes
<1>2. Len(running) \in Nat /\ \A j \in 1 .. Len(running) : running[j] \in Forks /\ running[j] \in Name
  BY <1>1, LenProperties, ElementOfSeq
<1> DEFINE y == running[k]
           n == Len(running)
<1>3. y # <<>> /\ Len(y) = Len(running[1]) + k - 1
  BY DEF Running
<1>4. Front(y) # f
  <2>1. Len(y) = Len(Front(y)) + 1 /\ Len(Front(y)) \in Nat
    BY <1>2, <1>3, FrontName, NameParts
  <2>2. running # <<>>
    BY EmptySeq
  <2>3. f = running[n] /\ n \in 1 .. n
    BY <1>1, <1>2, <2>2 DEF Last
  <2>4. Len(f) = Len(running[1]) + n - 1
    BY <2>3 DEF Running
  <2>5. Len(running[1]) \in Nat
    BY <1>2, <2>3, NameParts
  <2>6. Len(y) <= Len(f)
    <3>1. Len(y) = Len(running[1]) + k - 1
      BY <1>3
    <3>2. k <= n /\ k \in Nat /\ n \in Nat
      BY <1>2
    <3> HIDE DEF y, n
    <3> QED
      BY <2>4, <2>5, <3>1, <3>2
  <2> HIDE DEF y
  <2> QED
    BY <2>1, <2>6
<1>5. y \in Forks /\ y # Root
  BY <1>2, <1>3 DEF Root
<1> HIDE DEF y
<1>6. Front(y) \in Forks
  BY <1>5 DEF Adds, Placed
<1> QED
  BY <1>2, <1>3, <1>4, <1>5, <1>6 DEF y

(* What has no name yet is not where a function is running.                *)
LEMMA AddKeepsRunning ==
  ASSUME NEW f, NEW x, PutAt(f, x), Grown(x), BuilderTypes, NamesKnown, Running, x \notin Known, x \notin Thunks', Adds,
         running # <<>> => f = Last(running), running' = running
  PROVE  Running'
<1>1. running \in Seq(Forks) /\ Forks' = Forks /\ Forks \subseteq DOMAIN count /\ DOMAIN count \subseteq Name
  BY DEF BuilderTypes, PutAt
<1>2. Len(running) \in Nat /\ \A k \in 1 .. Len(running) : running[k] \in Forks /\ running[k] \in Name
  BY <1>1, LenProperties, ElementOfSeq
<1>3. ASSUME NEW k \in 1 .. Len(running)
      PROVE  Last(running[k]) = count'[Front(running[k])] /\ running[k] \notin InData' \cup Mentioned'
  <2>1. running[k] # <<>> /\ Last(running[k]) = count[Front(running[k])] /\ running[k] \notin InData \cup Mentioned
        /\ Len(running[k]) = Len(running[1]) + k - 1
    BY DEF Running
  <2> DEFINE y == running[k]
  <2>2. Front(y) # f /\ Front(y) \in Forks
    BY RunningFront
  <2>3. Front(y) \in DOMAIN count => count'[Front(y)] = count[Front(y)]
    BY <2>2 DEF PutAt
  <2>4. Front(y) \in DOMAIN count
    BY <1>1, <2>2
  <2>5. y # x
    BY <1>1, <1>2, <2>1 DEF Known, Root
  <2>6. y \notin InData'
    BY <2>1, <2>5, GrownNames
  <2>7. y \notin Mentioned'
    BY <2>1, <2>5, GrownMentions
  <2> QED
    BY <2>1, <2>3, <2>4, <2>6, <2>7
<1>4. ASSUME NEW t \in Unresolved'  PROVE t \in Forks
  <2>1. t \in Thunks' /\ thunks'[t].state = "running"
    BY DEF Unresolved, Thunks
  <2>2. t \in Thunks /\ thunks[t].state = "running"
    BY <2>1 DEF Grown, ThunksGrow
  <2> QED
    BY <2>2 DEF Running, Unresolved, Thunks
<1>5. /\ (\A k \in 1 .. Len(running) :
             /\ running[k] # <<>> /\ Last(running[k]) = count[Front(running[k])]
             /\ running[k] \notin InData \cup Mentioned
             /\ Len(running[k]) = Len(running[1]) + k - 1
             /\ k > 1 => Front(running[k]) = running[k - 1])'
  BY <1>3 DEF Running
<1> QED
  BY <1>1, <1>4, <1>5 DEF Running

(* Sections of inputs that do not change. *)
LEMMA InputsStay ==
  ASSUME InputsPlaced, Forks' = Forks, Len(data'.inputs) = Len(data.inputs),
         \A i \in 1 .. Len(data.inputs) : data'.inputs[i].object = data.inputs[i].object,
         \A g : Front(g) \in Forks \/ g \notin Forks \ {Root},
         \A g \in Forks : section'[g].inputs = section[g].inputs
  PROVE  InputsPlaced'
<1>2. (\A f \in Forks : \A k \in 1 .. Len(section[f].inputs) : InputEntryFits(f, section[f].inputs[k]))'
  <2> SUFFICES ASSUME NEW f \in Forks, NEW k \in 1 .. Len(section'[f].inputs)
               PROVE  IF section'[f].inputs[k].fork
                      THEN section'[f].inputs[k].name # <<>> /\ Front(section'[f].inputs[k].name) = f /\ section'[f].inputs[k].name \in Forks
                      ELSE \E i \in 1 .. Len(data'.inputs) : data'.inputs[i].object = section'[f].inputs[k].name
    BY DEF InputEntryFits
  <2> QED
    BY DEF InputsPlaced, InputEntryFits
<1>3. (\A i \in 1 .. Len(data.inputs) :
         \E f \in Forks : \E k \in 1 .. Len(section[f].inputs) :
           section[f].inputs[k] = Entry(data.inputs[i].object))'
  <2> SUFFICES ASSUME NEW i \in 1 .. Len(data'.inputs)
               PROVE  \E f \in Forks : \E k \in 1 .. Len(section'[f].inputs) :
                         section'[f].inputs[k] = Entry(data'.inputs[i].object)
    OBVIOUS
  <2> QED
    BY DEF InputsPlaced
<1>4. (\A g \in Forks \ {Root} :
         \E k \in 1 .. Len(section[Front(g)].inputs) : section[Front(g)].inputs[k] = ForkEntry(g))'
  BY DEF InputsPlaced, Root
<1>5. (\A f, g \in Forks : \A k \in 1 .. Len(section[f].inputs), l \in 1 .. Len(section[g].inputs) :
         section[f].inputs[k] = section[g].inputs[l] => f = g /\ k = l)'
  <2> SUFFICES ASSUME NEW f \in Forks', NEW g \in Forks', NEW k \in 1 .. Len(section'[f].inputs),
                      NEW l \in 1 .. Len(section'[g].inputs), section'[f].inputs[k] = section'[g].inputs[l]
               PROVE  f = g /\ k = l
    OBVIOUS
  <2>1. f \in Forks /\ g \in Forks /\ section'[f].inputs = section[f].inputs /\ section'[g].inputs = section[g].inputs
    OBVIOUS
  <2>2. k \in 1 .. Len(section[f].inputs) /\ l \in 1 .. Len(section[g].inputs) /\ section[f].inputs[k] = section[g].inputs[l]
    BY <2>1
  <2> QED
    BY <2>1, <2>2 DEF InputsPlaced
<1> QED
  BY <1>2, <1>3, <1>4, <1>5 DEF InputsPlaced

(* A list of commands with one more. *)
LEMMA CommandAppended ==
  ASSUME NEW d \in Seq(CommandType), NEW c \in CommandType
  PROVE  /\ Append(d, c) \in Seq(CommandType) /\ Len(Append(d, c)) = Len(d) + 1 /\ Len(d) \in Nat
         /\ \A i \in 1 .. Len(d) : Append(d, c)[i] = d[i]
         /\ Append(d, c)[Len(d) + 1] = c
BY AppendProperties, LenProperties

(* g is a function. *)
IsMap(g) == g = [y \in DOMAIN g |-> g[y]]

(* A command x of the code with path f, whatever becomes of the inputs.    *)
AddsCommand(f, x, kind, args) ==
  /\ data'.commands = Append(data.commands, Command(x, kind, args))
  /\ \A g \in Forks \ {f} : section'[g] = section[g]
  /\ section'[f].commands = Append(section[f].commands, Entry(x))
  /\ section' \in [Forks -> SectionType]
  /\ available' = [available EXCEPT ![f] = @ \cup {Size + 1}]
  /\ count' = [count EXCEPT ![f] = count[f] + 1]
  /\ DOMAIN handles \subseteq DOMAIN handles' /\ DOMAIN handles' \subseteq DOMAIN handles \cup {x}
  /\ \A y \in DOMAIN handles : handles'[y] = handles[y]
  /\ x \in DOMAIN handles' => handles'[x] = Size + 1
  /\ IsMap(handles')
  /\ refused \subseteq refused' /\ refused' \subseteq refused \cup {x}
  /\ \/ thunks' = thunks
     \/ \E t \in Unresolved : thunks' = [thunks EXCEPT ![t].state = "rejected"]
  /\ running' = running /\ phase' = phase /\ standsFor' = standsFor /\ late' = late
  /\ special' \in Nat /\ special <= special'

(* Adding a command to the end is such a step, *)
LEMMA AddsGrow ==
  ASSUME BuilderInv, NEW f \in Active, NEW x, x = NextName(f), NEW kind \in {"call"} \cup Intents,
         NEW args \in Seq(ArgType), AddsCommand(f, x, kind, args), data' \in DataType,
         Len(data.inputs) <= Len(data'.inputs), InputsApart',
         \A i \in 1 .. Len(data.inputs) :
           data'.inputs[i].object = data.inputs[i].object /\ (data.inputs[i].mutable => data'.inputs[i].mutable),
         \A k \in 1 .. Len(args) :
            /\ args[k].kind = "Input" => ObjectFits(data'.inputs, args[k])
            /\ RefersToResult(args[k]) =>
                 \/ x \in refused'
                 \/ args[k].at \in available[f] /\ Points(args[k].at, args[k].of) /\ args[k].of \in Mentioned
  PROVE  Grown(x) /\ NewArgsFit(x) /\ PutAt(f, x) /\ BuilderTypes' /\ x \notin Known /\ x \notin Thunks'
<1>0. BuilderTypes /\ NamesKnown /\ Size \in Nat /\ Size = Len(data.commands) /\ data.commands \in Seq(CommandType)
  BY DataParts DEF BuilderInv, BuilderTypes, Size
<1>12. f \in DOMAIN count /\ f \in Forks /\ Gathering
  BY ActiveFork
<1>1. x \notin Known /\ x \in Name /\ x # <<>> /\ Front(x) = f /\ User(x) /\ Last(x) = count[f] + 1 /\ count[f] \in Nat /\ x \notin DOMAIN count
  BY <1>0, <1>12, FreshName
<1>2. x \notin InData \cup Mentioned /\ x \notin Forks
  BY <1>0, <1>1 DEF Known, BuilderTypes
<1> DEFINE c == Command(x, kind, args)
<1>3. c \in CommandType /\ c.id = x /\ c.kind = kind /\ c.args = args
  BY <1>1, Constructed DEF Kinds
<1>4. /\ data'.commands = Append(data.commands, c) /\ Size' = Size + 1
      /\ \A i \in 1 .. Size : data'.commands[i] = data.commands[i]
      /\ data'.commands[Size + 1] = c
  <2>1. data'.commands = Append(data.commands, c)
    BY DEF AddsCommand
  <2> HIDE DEF c
  <2> QED
    BY <1>0, <1>3, <2>1, CommandAppended DEF Size
<1>5. kind # "merge" /\ kind # "thunk" /\ kind # "split"
  BY DEF Intents
<1>6. /\ Thunks' = Thunks /\ x \notin Thunks' /\ ThunksGrow(x)
      /\ thunks' \in [Thunks -> ThunkType]
  <2>1. thunks \in [Thunks -> ThunkType] /\ x \notin Thunks
    BY <1>0, <1>2 DEF BuilderTypes, Mentioned
  <2>2. CASE thunks' = thunks
    BY <2>1, <2>2 DEF Thunks, ThunksGrow
  <2>3. CASE \E t \in Unresolved : thunks' = [thunks EXCEPT ![t].state = "rejected"]
    <3>1. PICK t \in Unresolved : thunks' = [thunks EXCEPT ![t].state = "rejected"]
      BY <2>3
    <3>2. t \in Thunks /\ thunks[t].state = "running"
      BY DEF Unresolved, Thunks
    <3>3. Thunks' = Thunks /\ (\A u \in Thunks : u # t => thunks'[u] = thunks[u])
          /\ thunks'[t] = [thunks[t] EXCEPT !.state = "rejected"]
      BY <2>1, <3>1, <3>2 DEF Thunks
    <3>4. thunks[t] \in ThunkType
      BY <2>1, <3>2
    <3>5. /\ thunks'[t].state = "rejected" /\ thunks'[t].result = thunks[t].result /\ thunks'[t].resultIndex = thunks[t].resultIndex
          /\ thunks'[t].void = thunks[t].void /\ thunks'[t] \in ThunkType
      BY <3>3, <3>4 DEF ThunkType
    <3>6. thunks' \in [Thunks -> ThunkType]
      BY <2>1, <3>1, <3>2, <3>3, <3>5
    <3>7. ThunksGrow(x)
      BY <2>1, <3>2, <3>3, <3>5 DEF ThunksGrow
    <3> QED
      BY <2>1, <3>3, <3>6, <3>7
  <2> QED
    BY <2>2, <2>3 DEF AddsCommand
<1>7. Grown(x)
  <2>1. Last(x) # 0 /\ x[1] # 0
    BY <1>1 DEF User
  <2>2. standsFor' = standsFor /\ late' = late /\ refused \subseteq refused' /\ refused' \subseteq refused \cup {x}
        /\ DOMAIN handles \subseteq DOMAIN handles' /\ DOMAIN handles' \subseteq DOMAIN handles \cup {x}
        /\ (\A y \in DOMAIN handles : handles'[y] = handles[y])
        /\ (x \in DOMAIN handles' => handles'[x] = Size + 1)
    BY DEF AddsCommand
  <2> HIDE DEF c
  <2> QED
    BY <1>2, <1>3, <1>4, <1>5, <1>6, <2>1, <2>2 DEF Grown
<1>8. available \in [Forks -> SUBSET (1 .. Size)]
  BY <1>0 DEF BuilderTypes
<1>9. NewArgsFit(x)
  <2> SUFFICES ASSUME NEW k \in 1 .. Len(args)
               PROVE  /\ args[k].kind = "Input" => ObjectFits(data'.inputs, args[k])
                      /\ RefersToResult(args[k]) =>
                           x \in refused' \/ (args[k].at < Size + 1 /\ Points(args[k].at, args[k].of) /\ args[k].of \in Mentioned)
    BY <1>3, <1>4 DEF NewArgsFit
  <2>1. args[k].at \in available[f] => args[k].at < Size + 1
    <3> DEFINE m == args[k].at
    <3>1. m \in available[f] => m \in 1 .. Size
      BY <1>8, <1>12
    <3> HIDE DEF m
    <3>2. m \in available[f] => m < Size + 1
      BY <1>0, <3>1
    <3> QED
      BY <3>2 DEF m
  <2> QED
    BY <2>1
<1>10. PutAt(f, x)
  <2>1. available'[f] = available[f] \cup {Size + 1} /\ \A g \in Forks \ {f} : available'[g] = available[g]
    BY <1>8, <1>12 DEF AddsCommand
  <2>2. count'[f] = Last(x) /\ DOMAIN count' = DOMAIN count /\ (\A g \in DOMAIN count \ {f} : count'[g] = count[g])
        /\ count[f] < Last(x) /\ count[f] <= Last(x)
    BY <1>0, <1>1, <1>12 DEF AddsCommand, BuilderTypes
  <2>3. Forks' = Forks /\ (\A g \in Forks \ {f} : section'[g].commands = section[g].commands)
        /\ section'[f].commands = Append(section[f].commands, Entry(x))
    BY DEF AddsCommand, Forks
  <2>4. ASSUME NEW k \in 1 .. Len(args), x \notin refused', RefersToResult(args[k])
        PROVE  args[k].at \in 1 .. Size /\ Less(NameAt(args[k].at), x)
    <3>1. args[k].at \in available[f]
      BY <2>4
    <3>2. AvailableLess
      BY <1>12 DEF Gathering
    <3> QED
      BY <1>8, <1>12, <3>1, <3>2 DEF AvailableLess
  <2> HIDE DEF c
  <2> QED
    BY <1>1, <1>2, <1>3, <1>4, <1>5, <1>12, <2>1, <2>2, <2>3, <2>4 DEF PutAt
<1>11. BuilderTypes'
  <2>1. available' \in [Forks -> SUBSET (1 .. Size')]
    <3>1. \A g \in Forks : available[g] \cup {Size + 1} \in SUBSET (1 .. Size') /\ available[g] \in SUBSET (1 .. Size')
      BY <1>0, <1>4, <1>8
    <3> QED
      BY <1>8, <1>12, <3>1 DEF AddsCommand
  <2>2. count' \in [DOMAIN count -> Nat] /\ DOMAIN count' = DOMAIN count
    <3>1. count \in [DOMAIN count -> Nat] /\ count[f] + 1 \in Nat
      BY <1>0, <1>1 DEF BuilderTypes
    <3> QED
      BY <3>1 DEF AddsCommand
  <2>3. handles' \in [DOMAIN handles' -> Nat]
    <3>1. \A y \in DOMAIN handles' : handles'[y] \in Nat
      <4>1. \A y \in DOMAIN handles : handles[y] \in Nat
        BY <1>0 DEF BuilderTypes
      <4>2. \A y \in DOMAIN handles' : y \in DOMAIN handles \/ y = x
        BY DEF AddsCommand
      <4>3. \A y \in DOMAIN handles : handles'[y] = handles[y]
        BY DEF AddsCommand
      <4>4. x \in DOMAIN handles' => handles'[x] \in Nat
        BY <1>0 DEF AddsCommand
      <4> QED
        BY <4>1, <4>2, <4>3, <4>4
    <3>2. handles' = [y \in DOMAIN handles' |-> handles'[y]]
      BY DEF AddsCommand, IsMap
    <3> QED
      BY <3>1, <3>2
  <2>4. section' \in [Forks -> SectionType] /\ Forks' = Forks /\ running' = running /\ phase' = phase /\ standsFor' = standsFor
        /\ special' \in Nat
    BY DEF AddsCommand, Forks
  <2> QED
    BY <1>0, <1>6, <2>1, <2>2, <2>3, <2>4 DEF BuilderTypes, Replaced
<1> QED
  BY <1>1, <1>6, <1>7, <1>9, <1>10, <1>11

(* and keeps the invariant. *)
LEMMA AddsKeep ==
  ASSUME BuilderInv, NEW f \in Active, NEW x, Grown(x), NewArgsFit(x), PutAt(f, x), BuilderTypes', x \notin Known, x \notin Thunks',
         InputsPlaced', running' = running, phase' = phase, special' \in Nat, special <= special'
  PROVE  BuilderInv'
<1>1. Gathering /\ phase \in {"idle", "waiting"} /\ (running # <<>> => f = Last(running))
  BY ActiveFork
<1>2. BuilderTypes /\ NamesKnown /\ Core /\ ArgsFit /\ data' \in DataType
  BY DEF BuilderInv, Core, BuilderTypes
<1>3. Core'
  BY <1>2, GrownKeepsCommands, GrownKeepsHandles DEF Core
<1>4. NamesKnown'
  BY <1>2, PutKeepsNames
<1>5. Adds' /\ AvailableLess' /\ Running'
  BY <1>1, <1>2, PutKeepsAdds, PutKeepsAvailable, AddKeepsRunning DEF Gathering
<1> QED
  BY <1>1, <1>3, <1>4, <1>5 DEF BuilderInv, Core, Gathering

(* A map with one more key. *)
LEMMA ExtendParts ==
  ASSUME NEW g, NEW x, NEW v
  PROVE  /\ DOMAIN Extend(g, x, v) = DOMAIN g \cup {x} /\ Extend(g, x, v)[x] = v
         /\ \A y \in DOMAIN g : y # x => Extend(g, x, v)[y] = g[y]
         /\ IsMap(Extend(g, x, v))
BY DEF Extend, IsMap

(* A result that code refers to is there. *)
LEMMA ResultArgsFit ==
  ASSUME BuilderInv, NEW arg \in ResultArgs
  PROVE  /\ arg \in ArgType /\ RefersToResult(arg) /\ Points(arg.at, arg.of) /\ arg.of \in Mentioned /\ arg.kind # "Input"
         /\ arg.at \in 1 .. Size
<1>1. PICK id \in Referable : arg \in {Result(Handle(id), id), NestedResult(Handle(id), id)}
  BY DEF ResultArgs
<1>2. Points(Handle(id), id) /\ Handle(id) \in 1 .. Size /\ id \in DOMAIN handles /\ BuilderTypes /\ NamesKnown
  BY HandleFits DEF BuilderInv
<1>3. Size \in Nat
  BY <1>2, DataParts DEF BuilderTypes, Size
<1>4. id \in Mentioned /\ id \in Name
  BY <1>2 DEF Mentioned, Known, NamesKnown
<1> DEFINE h == Handle(id)
<1>5. h \in Nat /\ h \in 1 .. Size /\ Points(h, id) /\ arg \in {Result(h, id), NestedResult(h, id)}
  BY <1>1, <1>2, <1>3
<1> HIDE DEF h
<1>6. arg \in ResultType /\ arg.at = h /\ arg.of = id /\ arg.kind \in {"Result", "NestedResult"}
  BY <1>4, <1>5, Constructed
<1> QED
  BY <1>4, <1>5, <1>6 DEF ArgType, RefersToResult

(* The count of one path goes up. *)
LEMMA CountedIs ==
  ASSUME BuilderTypes, NEW f \in DOMAIN count
  PROVE  Counted(f) = [count EXCEPT ![f] = count[f] + 1]
<1>1. count \in [DOMAIN count -> Nat]
  BY DEF BuilderTypes
<1> QED
  BY <1>1 DEF Counted, Extend

(* The sections with a new command. *)
WithEntry(f, x) == [section EXCEPT ![f].commands = Append(@, Entry(x))]

(* They are sections. *)
LEMMA EntryTyped ==
  ASSUME BuilderTypes, NEW f \in Forks, NEW x \in Name, NEW s, s = WithEntry(f, x)
  PROVE  /\ s \in [Forks -> SectionType] /\ s[f].commands = Append(section[f].commands, Entry(x))
         /\ s[f].inputs = section[f].inputs /\ \A g \in Forks \ {f} : s[g] = section[g]
<1>1. section \in [Forks -> SectionType] /\ section[f] \in SectionType
  BY DEF BuilderTypes
<1>2. Entry(x) \in CommandEntry
  BY DEF Entry, CommandEntry
<1> DEFINE a == Append(section[f].commands, Entry(x))
<1>3. a \in Seq(CommandEntry)
  <2>1. section[f].commands \in Seq(CommandEntry)
    BY <1>1 DEF SectionType
  <2> QED
    BY <1>2, <2>1, AppendProperties
<1>4. s = [section EXCEPT ![f] = [@ EXCEPT !.commands = a]]
  BY DEF WithEntry
<1> HIDE DEF a
<1>5. [section[f] EXCEPT !.commands = a] \in SectionType
  BY <1>1, <1>3 DEF SectionType
<1>6. s[f] = [section[f] EXCEPT !.commands = a] /\ (\A g \in Forks \ {f} : s[g] = section[g]) /\ s \in [Forks -> SectionType]
  BY <1>1, <1>4, <1>5
<1> QED
  BY <1>1, <1>6 DEF SectionType, a

(* What PutCommand does to the data. *)
LEMMA CommandPut ==
  ASSUME BuilderTypes, NEW f, NEW c \in CommandType, PutCommand(f, c)
  PROVE  data' \in DataType /\ data'.commands = Append(data.commands, c) /\ data'.inputs = data.inputs
<1>1. data \in DataType /\ data' = [data EXCEPT !.commands = Append(@, c)]
  BY DEF BuilderTypes, PutCommand
<1> DEFINE a == Append(data.commands, c)
<1>2. a \in Seq(CommandType)
  BY <1>1, DataParts, CommandAppended
<1> HIDE DEF a
<1>3. data' = [data EXCEPT !.commands = a]
  BY <1>1 DEF a
<1> QED
  BY <1>1, <1>2, <1>3 DEF DataType, a

(* The inputs do not change. *)
LEMMA SameInputsGrow ==
  ASSUME BuilderTypes, InputsApart, data'.inputs = data.inputs
  PROVE  /\ Len(data.inputs) <= Len(data'.inputs) /\ InputsApart'
         /\ \A i \in 1 .. Len(data.inputs) :
              data'.inputs[i].object = data.inputs[i].object /\ (data.inputs[i].mutable => data'.inputs[i].mutable)
<1>1. InputsApart'
  BY DEF InputsApart
<1>2. Len(data.inputs) = Len(data'.inputs) /\ Len(data.inputs) \in Nat
  BY DataParts DEF BuilderTypes
<1> QED
  BY <1>1, <1>2

(* add(command). *)
LEMMA AddCommandKeeps ==
  ASSUME BuilderInv, NEW f \in Active, NEW kind \in {"call"} \cup Intents,
         NEW args \in {<<>>} \cup {<<arg>> : arg \in ResultArgs}, AddCommand(f, kind, args)
  PROVE  BuilderInv'
<1>1. Gathering /\ f \in Forks /\ f \in DOMAIN count /\ BuilderTypes /\ NamesKnown /\ InputsApart /\ special \in Nat
  BY ActiveFork DEF BuilderInv, BuilderTypes
<1>2. PICK x : x = NextName(f)
  OBVIOUS
<1>3. x \in Name
  BY <1>1, <1>2, FreshName
<1>4. PICK w : w = IF kind # "call" \/ \E k \in DOMAIN args : args[k].kind = "NestedResult" THEN 1 ELSE 0
  OBVIOUS
<1>5. w \in Nat
  BY <1>4
<1>6. /\ PutCommand(f, Command(x, kind, args)) /\ (\A k \in DOMAIN args : args[k].at \in available[f])
      /\ count' = Counted(f) /\ handles' = Extend(handles, x, Len(data.commands) + 1) /\ Special(w)
      /\ UNCHANGED <<running, thunks, phase>> /\ UNCHANGED <<standsFor, refused, late>>
  BY <1>2, <1>4 DEF AddCommand, Available, history
<1>7. args \in Seq(ArgType) /\ Len(args) \in {0, 1} /\ (\A k \in 1 .. Len(args) : args[k] \in ResultArgs /\ k \in DOMAIN args)
  <2>1. CASE args = <<>>
    BY <2>1
  <2>2. CASE args \in {<<arg>> : arg \in ResultArgs}
    <3>1. PICK arg \in ResultArgs : args = <<arg>>
      BY <2>2
    <3>2. arg \in ArgType
      BY ResultArgsFit
    <3> QED
      BY <3>1, <3>2
  <2> QED
    BY <2>1, <2>2
<1>8. Command(x, kind, args) \in CommandType
  BY <1>3, <1>7, Constructed DEF Kinds
<1>9. /\ data' \in DataType /\ data'.commands = Append(data.commands, Command(x, kind, args)) /\ data'.inputs = data.inputs
  BY <1>1, <1>6, <1>8, CommandPut
<1>10. /\ section' \in [Forks -> SectionType] /\ section'[f].commands = Append(section[f].commands, Entry(x))
       /\ section'[f].inputs = section[f].inputs /\ (\A g \in Forks \ {f} : section'[g] = section[g])
       /\ available' = [available EXCEPT ![f] = @ \cup {Size + 1}]
  <2>1. section' = [section EXCEPT ![f].commands = Append(@, Entry(x))] /\ available' = [available EXCEPT ![f] = @ \cup {Size + 1}]
    BY <1>3, <1>6, <1>7, Constructed DEF PutCommand, Size, Command
  <2>2. PICK s : s = section'
    OBVIOUS
  <2>3. s = WithEntry(f, x)
    BY <2>1, <2>2 DEF WithEntry
  <2>4. /\ s \in [Forks -> SectionType] /\ s[f].commands = Append(section[f].commands, Entry(x))
        /\ s[f].inputs = section[f].inputs /\ \A g \in Forks \ {f} : s[g] = section[g]
    BY <1>1, <1>3, <2>3, EntryTyped
  <2> QED
    BY <2>1, <2>2, <2>4
<1>11. special' \in Nat /\ special <= special'
  BY <1>1, <1>5, <1>6, SpecialCounts
<1>12. AddsCommand(f, x, kind, args)
  <2>1. DOMAIN handles' = DOMAIN handles \cup {x} /\ handles'[x] = Size + 1
        /\ (\A y \in DOMAIN handles : y # x => handles'[y] = handles[y])
        /\ IsMap(handles')
    <3> DEFINE e == Extend(handles, x, Size + 1)
    <3>1. /\ DOMAIN e = DOMAIN handles \cup {x} /\ e[x] = Size + 1
          /\ (\A y \in DOMAIN handles : y # x => e[y] = handles[y])
          /\ IsMap(e)
      BY ExtendParts
    <3>2. handles' = e
      BY <1>6 DEF Size
    <3> HIDE DEF e
    <3> QED
      BY <3>1, <3>2
  <2>2. x \notin DOMAIN handles
    BY <1>1, <1>2, FreshName DEF Known, Mentioned
  <2>3. count' = [count EXCEPT ![f] = count[f] + 1]
    BY <1>1, <1>6, CountedIs
  <2> QED
    BY <1>6, <1>9, <1>10, <1>11, <2>1, <2>2, <2>3 DEF AddsCommand
<1>13. \A k \in 1 .. Len(args) :
         /\ args[k].kind = "Input" => ObjectFits(data'.inputs, args[k])
         /\ RefersToResult(args[k]) =>
              \/ x \in refused'
              \/ args[k].at \in available[f] /\ Points(args[k].at, args[k].of) /\ args[k].of \in Mentioned
  BY <1>6, <1>7, ResultArgsFit
<1>14. Grown(x) /\ NewArgsFit(x) /\ PutAt(f, x) /\ BuilderTypes' /\ x \notin Known /\ x \notin Thunks'
  BY <1>1, <1>2, <1>7, <1>9, <1>12, <1>13, SameInputsGrow, AddsGrow
<1>15. InputsPlaced'
  <2>1. Forks' = Forks
    BY <1>10 DEF Forks
  <2>2. \A g \in Forks : section'[g].inputs = section[g].inputs
    BY <1>10
  <2>3. \A g : Front(g) \in Forks \/ g \notin Forks \ {Root}
    BY <1>1 DEF Gathering, Adds, Placed
  <2> QED
    BY <1>1, <1>9, <2>1, <2>2, <2>3, InputsStay, SameInputsGrow DEF Gathering
<1> QED
  BY <1>6, <1>11, <1>14, <1>15, AddsKeep

(* add(command) throws, and the command stays. *)
LEMMA AddRefusedKeeps ==
  ASSUME BuilderInv, NEW f \in Active, NEW arg \in ResultArgs, AddRefused(f, arg)
  PROVE  BuilderInv'
<1>1. Gathering /\ f \in Forks /\ f \in DOMAIN count /\ BuilderTypes /\ NamesKnown /\ InputsApart /\ special \in Nat
  BY ActiveFork DEF BuilderInv, BuilderTypes
<1>2. PICK x : x = NextName(f)
  OBVIOUS
<1>3. x \in Name
  BY <1>1, <1>2, FreshName
<1> DEFINE args == <<arg>>
<1>6. /\ PutCommand(f, Command(x, "call", args)) /\ count' = Counted(f) /\ handles' = handles /\ Special(2)
      /\ (thunks' = thunks \/ (f \in Unresolved /\ thunks' = [thunks EXCEPT ![f].state = "rejected"]))
      /\ UNCHANGED <<running, phase, handles>> /\ UNCHANGED <<standsFor, late>> /\ refused' = refused \cup {x}
  BY <1>2 DEF AddRefused
<1>7. args \in Seq(ArgType) /\ Len(args) = 1 /\ args[1] = arg
  BY ResultArgsFit
<1> HIDE DEF args
<1>8. Command(x, "call", args) \in CommandType /\ "call" \in {"call"} \cup Intents
  BY <1>3, <1>7, Constructed DEF Kinds
<1>9. /\ data' \in DataType /\ data'.commands = Append(data.commands, Command(x, "call", args)) /\ data'.inputs = data.inputs
  BY <1>1, <1>6, <1>8, CommandPut
<1>10. /\ section' \in [Forks -> SectionType] /\ section'[f].commands = Append(section[f].commands, Entry(x))
       /\ section'[f].inputs = section[f].inputs /\ (\A g \in Forks \ {f} : section'[g] = section[g])
       /\ available' = [available EXCEPT ![f] = @ \cup {Size + 1}]
  <2>1. section' = [section EXCEPT ![f].commands = Append(@, Entry(x))] /\ available' = [available EXCEPT ![f] = @ \cup {Size + 1}]
    BY <1>3, <1>6, <1>7, Constructed DEF PutCommand, Size, Command
  <2>2. PICK s : s = section'
    OBVIOUS
  <2>3. s = WithEntry(f, x)
    BY <2>1, <2>2 DEF WithEntry
  <2>4. /\ s \in [Forks -> SectionType] /\ s[f].commands = Append(section[f].commands, Entry(x))
        /\ s[f].inputs = section[f].inputs /\ \A g \in Forks \ {f} : s[g] = section[g]
    BY <1>1, <1>3, <2>3, EntryTyped
  <2> QED
    BY <2>1, <2>2, <2>4
<1>11. special' \in Nat /\ special <= special'
  BY <1>1, <1>6, SpecialCounts
<1>12. AddsCommand(f, x, "call", args)
  <2>1. IsMap(handles') /\ x \notin DOMAIN handles'
    <3>1. IsMap(handles)
      BY <1>1 DEF BuilderTypes, IsMap
    <3>2. x \notin DOMAIN handles
      BY <1>1, <1>2, FreshName DEF Known, Mentioned
    <3> QED
      BY <1>6, <3>1, <3>2
  <2>3. count' = [count EXCEPT ![f] = count[f] + 1]
    BY <1>1, <1>6, CountedIs
  <2>4. thunks' = thunks \/ \E t \in Unresolved : thunks' = [thunks EXCEPT ![t].state = "rejected"]
    BY <1>6
  <2> QED
    BY <1>6, <1>9, <1>10, <1>11, <2>1, <2>3, <2>4 DEF AddsCommand
<1>13. \A k \in 1 .. Len(args) :
         /\ args[k].kind = "Input" => ObjectFits(data'.inputs, args[k])
         /\ RefersToResult(args[k]) =>
              \/ x \in refused'
              \/ args[k].at \in available[f] /\ Points(args[k].at, args[k].of) /\ args[k].of \in Mentioned
  <2>1. x \in refused'
    BY <1>6
  <2>2. \A k \in 1 .. Len(args) : args[k].kind # "Input"
    BY <1>7, ResultArgsFit
  <2> QED
    BY <2>1, <2>2
<1>14. Grown(x) /\ NewArgsFit(x) /\ PutAt(f, x) /\ BuilderTypes' /\ x \notin Known /\ x \notin Thunks'
  BY <1>1, <1>2, <1>7, <1>8, <1>9, <1>12, <1>13, SameInputsGrow, AddsGrow
<1>15. InputsPlaced'
  <2>1. Forks' = Forks
    BY <1>10 DEF Forks
  <2>2. \A g \in Forks : section'[g].inputs = section[g].inputs
    BY <1>10
  <2>3. \A g : Front(g) \in Forks \/ g \notin Forks \ {Root}
    BY <1>1 DEF Gathering, Adds, Placed
  <2> QED
    BY <1>1, <1>9, <2>1, <2>2, <2>3, InputsStay, SameInputsGrow DEF Gathering
<1> QED
  BY <1>6, <1>11, <1>14, <1>15, AddsKeep

(* An object that was no input yet becomes one, and the section of f says  *)
(* so.                                                                     *)
LEMMA InputAdded ==
  ASSUME BuilderTypes, InputsPlaced, NEW f \in Forks, NEW object, Forks' = Forks, \A g : Front(g) \in Forks \/ g \notin Forks \ {Root},
         InputIndex(data.inputs, object) = 0, Len(data'.inputs) = Len(data.inputs) + 1,
         data'.inputs[Len(data.inputs) + 1].object = object,
         \A i \in 1 .. Len(data.inputs) : data'.inputs[i].object = data.inputs[i].object,
         \A g \in Forks \ {f} : section'[g].inputs = section[g].inputs,
         section'[f].inputs = Append(section[f].inputs, Entry(object)), Entry(object) \in InputEntry
  PROVE  InputsPlaced'
<1> DEFINE L(g) == Len(section[g].inputs)
           N == Len(data.inputs)
<1>1. N \in Nat /\ (\A g \in Forks : L(g) \in Nat /\ section[g].inputs \in Seq(InputEntry))
  BY SectionTypes, DataParts DEF BuilderTypes
<1>2. /\ Len(section'[f].inputs) = L(f) + 1 /\ section'[f].inputs[L(f) + 1] = Entry(object)
      /\ \A k \in 1 .. L(f) : section'[f].inputs[k] = section[f].inputs[k]
  <2> DEFINE s == section[f].inputs
             e == Entry(object)
             t == section'[f].inputs
  <2>1. s \in Seq(InputEntry) /\ e \in InputEntry /\ t = Append(s, e)
    BY <1>1
  <2> HIDE DEF s, e, t
  <2>2. Len(t) = Len(s) + 1 /\ t[Len(s) + 1] = e /\ \A k \in 1 .. Len(s) : t[k] = s[k]
    BY <2>1, AppendProperties
  <2> QED
    BY <2>2 DEF s, e, t
<1>3. /\ \A g \in Forks : \A k \in 1 .. L(g) : k \in 1 .. Len(section'[g].inputs) /\ section'[g].inputs[k] = section[g].inputs[k]
      /\ \A g \in Forks : \A k \in 1 .. Len(section'[g].inputs) : k \in 1 .. L(g) \/ (g = f /\ k = L(f) + 1)
      /\ L(f) + 1 \in 1 .. Len(section'[f].inputs)
  <2>1. ASSUME NEW g \in Forks, g # f  PROVE section'[g].inputs = section[g].inputs /\ Len(section'[g].inputs) = L(g)
    BY <2>1
  <2>2. L(f) \in Nat
    BY <1>1
  <2> HIDE DEF L
  <2>3. L(f) + 1 \in 1 .. Len(section'[f].inputs)
    BY <1>2, <2>2
  <2>4. \A k \in 1 .. L(f) : k \in 1 .. Len(section'[f].inputs) /\ section'[f].inputs[k] = section[f].inputs[k]
    BY <1>2, <2>2
  <2>5. \A k \in 1 .. Len(section'[f].inputs) : k \in 1 .. L(f) \/ k = L(f) + 1
    BY <1>2, <2>2
  <2> QED
    BY <2>1, <2>3, <2>4, <2>5
<1>4. /\ \A i \in 1 .. N : i \in 1 .. Len(data'.inputs)
      /\ \A i \in 1 .. Len(data'.inputs) : i \in 1 .. N \/ i = N + 1
      /\ N + 1 \in 1 .. Len(data'.inputs) /\ data'.inputs[N + 1].object = object
  BY <1>1
<1>5. \A i \in 1 .. N : data.inputs[i].object # object
  BY <1>1, InputIndexed
<1> HIDE DEF L, N
<1>6. ASSUME NEW g \in Forks, NEW k \in 1 .. Len(section'[g].inputs), NEW e, e = section'[g].inputs[k]
      PROVE  IF e.fork THEN e.name # <<>> /\ Front(e.name) = g /\ e.name \in Forks
             ELSE \E i \in 1 .. Len(data'.inputs) : data'.inputs[i].object = e.name
  <2>1. CASE k \in 1 .. L(g)
    <3>1. InputEntryFits(g, section[g].inputs[k])
      BY <2>1 DEF InputsPlaced, L
    <3>2. e = section[g].inputs[k]
      BY <1>3, <1>6, <2>1
    <3>3. IF e.fork THEN e.name # <<>> /\ Front(e.name) = g /\ e.name \in Forks
          ELSE \E i \in 1 .. N : data.inputs[i].object = e.name
      BY <3>1, <3>2 DEF InputEntryFits, N
    <3> QED
      BY <1>4, <3>3 DEF N
  <2>2. CASE g = f /\ k = L(f) + 1
    <3>1. e = Entry(object)
      BY <1>2, <1>6, <2>2
    <3> QED
      BY <1>4, <3>1 DEF Entry
  <2> QED
    BY <1>3, <2>1, <2>2
<1>7. ASSUME NEW i \in 1 .. Len(data'.inputs)
      PROVE  \E g \in Forks : \E k \in 1 .. Len(section'[g].inputs) : section'[g].inputs[k] = Entry(data'.inputs[i].object)
  <2>1. CASE i \in 1 .. N
    <3>1. PICK g \in Forks : \E k \in 1 .. L(g) : section[g].inputs[k] = Entry(data.inputs[i].object)
      BY <2>1 DEF InputsPlaced, L, N
    <3>2. PICK k \in 1 .. L(g) : section[g].inputs[k] = Entry(data.inputs[i].object)
      BY <3>1
    <3>3. data'.inputs[i].object = data.inputs[i].object
      BY <2>1 DEF N
    <3> QED
      BY <1>3, <3>2, <3>3
  <2>2. CASE i = N + 1
    BY <1>2, <1>3, <1>4, <2>2
  <2> QED
    BY <1>4, <2>1, <2>2
<1>8. ASSUME NEW g \in Forks \ {Root}
      PROVE  \E k \in 1 .. Len(section'[Front(g)].inputs) : section'[Front(g)].inputs[k] = ForkEntry(g)
  <2>1. \E k \in 1 .. L(Front(g)) : section[Front(g)].inputs[k] = ForkEntry(g)
    BY DEF InputsPlaced, L
  <2> QED
    BY <1>3, <2>1
<1>9. ASSUME NEW g \in Forks, NEW h \in Forks, NEW k \in 1 .. Len(section'[g].inputs), NEW l \in 1 .. Len(section'[h].inputs),
             section'[g].inputs[k] = section'[h].inputs[l]
      PROVE  g = h /\ k = l
  <2>1. ASSUME NEW u \in Forks, NEW m \in 1 .. L(u)  PROVE section[u].inputs[m] # Entry(object)
    <3>1. InputEntryFits(u, section[u].inputs[m])
      BY DEF InputsPlaced, L
    <3> QED
      BY <1>5, <3>1 DEF InputEntryFits, Entry, N
  <2>2. CASE k \in 1 .. L(g) /\ l \in 1 .. L(h)
    <3>1. section[g].inputs[k] = section[h].inputs[l]
      BY <1>3, <1>9, <2>2
    <3>2. \A u, v \in Forks : \A m \in 1 .. Len(section[u].inputs), n \in 1 .. Len(section[v].inputs) :
            section[u].inputs[m] = section[v].inputs[n] => u = v /\ m = n
      BY DEF InputsPlaced
    <3>3. k \in 1 .. Len(section[g].inputs) /\ l \in 1 .. Len(section[h].inputs)
      BY <2>2 DEF L
    <3> QED
      BY <3>1, <3>2, <3>3
  <2>3. CASE k \in 1 .. L(g) /\ h = f /\ l = L(f) + 1
    BY <1>2, <1>3, <1>9, <2>1, <2>3
  <2>4. CASE g = f /\ k = L(f) + 1 /\ l \in 1 .. L(h)
    BY <1>2, <1>3, <1>9, <2>1, <2>4
  <2>5. CASE g = f /\ k = L(f) + 1 /\ h = f /\ l = L(f) + 1
    BY <2>5
  <2> QED
    BY <1>3, <2>2, <2>3, <2>4, <2>5
<1>10. (\A g \in Forks : \A k \in 1 .. Len(section[g].inputs) : InputEntryFits(g, section[g].inputs[k]))'
  <2> SUFFICES ASSUME NEW g \in Forks, NEW k \in 1 .. Len(section'[g].inputs)
               PROVE  InputEntryFits(g, section[g].inputs[k])'
    OBVIOUS
  <2>1. PICK e : e = section'[g].inputs[k]
    OBVIOUS
  <2> QED
    BY <1>6, <2>1 DEF InputEntryFits
<1>11. (\A i \in 1 .. Len(data.inputs) : \E g \in Forks : \E k \in 1 .. Len(section[g].inputs) :
           section[g].inputs[k] = Entry(data.inputs[i].object))'
  BY <1>7
<1>12. (\A g \in Forks \ {Root} : \E k \in 1 .. Len(section[Front(g)].inputs) : section[Front(g)].inputs[k] = ForkEntry(g))'
  BY <1>8 DEF Root
<1>13. (\A g, h \in Forks : \A k \in 1 .. Len(section[g].inputs), l \in 1 .. Len(section[h].inputs) :
         section[g].inputs[k] = section[h].inputs[l] => g = h /\ k = l)'
  BY <1>9
<1> QED
  BY <1>10, <1>11, <1>12, <1>13 DEF InputsPlaced

(* add(command) with an object. *)
LEMMA AddWithObjectKeeps ==
  ASSUME BuilderInv, NEW f \in Active, NEW object \in Objects, NEW mutable \in BOOLEAN, AddWithObject(f, object, mutable)
  PROVE  BuilderInv'
<1>1. /\ Gathering /\ f \in Forks /\ f \in DOMAIN count /\ BuilderTypes /\ NamesKnown /\ InputsApart /\ special \in Nat
      /\ data \in DataType
  BY ActiveFork DEF BuilderInv, BuilderTypes
<1>2. PICK x : x = NextName(f)
  OBVIOUS
<1>3. x \in Name /\ object \in Object
  BY <1>1, <1>2, FreshName DEF Object
<1>4. PICK inputs, i0 : inputs = WithObject(data.inputs, object, mutable) /\ i0 = InputIndex(data.inputs, object)
  OBVIOUS
<1>5. data.inputs \in Seq(InputType) /\ ApartIn(data.inputs) /\ data.commands \in Seq(CommandType) /\ Len(data.inputs) \in Nat
  BY <1>1, DataParts DEF InputsApart
<1>6. /\ inputs \in Seq(InputType) /\ ApartIn(inputs) /\ InputsGrow(inputs, data.inputs) /\ HasObject(inputs, object, mutable)
      /\ i0 = 0 => Len(inputs) = Len(data.inputs) + 1 /\ inputs[Len(data.inputs) + 1].object = object
      /\ i0 # 0 => Len(inputs) = Len(data.inputs)
  BY <1>3, <1>4, <1>5, WithObjectGrows
<1>7. PICK h : h = InputIndex(inputs, object)
  OBVIOUS
<1>8. h \in 1 .. Len(inputs) /\ inputs[h].object = object /\ (mutable => inputs[h].mutable) /\ h \in Nat
  <2>1. Len(inputs) \in Nat
    BY <1>6, LenProperties
  <2>2. h \in 1 .. Len(inputs) /\ inputs[h].object = object /\ (mutable => inputs[h].mutable)
    BY <1>6, <1>7 DEF HasObject
  <2> QED
    BY <2>1, <2>2
<1>9. PICK arg : arg = InputArg(h, object, mutable)
  OBVIOUS
<1>10. /\ arg \in ArgType /\ arg.kind = "Input" /\ arg.at = h /\ arg.of = object /\ arg.mutable = mutable /\ ~RefersToResult(arg)
  <2>1. arg \in ObjectType /\ arg.kind = "Input" /\ arg.at = h /\ arg.of = object /\ arg.mutable = mutable
    BY <1>3, <1>8, <1>9, Constructed
  <2> QED
    BY <2>1 DEF ArgType, RefersToResult
<1> DEFINE args == <<arg>>
<1>11. args \in Seq(ArgType) /\ Len(args) = 1 /\ args[1] = arg
  BY <1>10
<1>12. PICK c : c = Command(x, "call", args)
  OBVIOUS
<1>13. /\ data' = [inputs |-> inputs, commands |-> Append(data.commands, c)]
       /\ section' = [section EXCEPT ![f].commands = Append(@, Entry(x)),
                                     ![f].inputs = IF i0 = 0 THEN Append(@, Entry(object)) ELSE @]
       /\ available' = [available EXCEPT ![f] = @ \cup {Len(data.commands) + 1}]
       /\ count' = Counted(f) /\ handles' = Extend(handles, x, Len(data.commands) + 1) /\ Special(1)
       /\ UNCHANGED <<running, thunks, phase>> /\ UNCHANGED <<standsFor, refused, late>>
  BY <1>2, <1>4, <1>7, <1>9, <1>12 DEF AddWithObject, history
<1> HIDE DEF args
<1>14. c \in CommandType /\ "call" \in {"call"} \cup Intents
  BY <1>3, <1>11, <1>12, Constructed DEF Kinds
<1>15. data' \in DataType /\ data'.commands = Append(data.commands, c) /\ data'.inputs = inputs
  <2> DEFINE a == Append(data.commands, c)
  <2>1. a \in Seq(CommandType)
    BY <1>5, <1>14, CommandAppended
  <2>2. data' = [inputs |-> inputs, commands |-> a]
    BY <1>13
  <2> HIDE DEF a
  <2>3. data' \in DataType /\ data'.commands = a /\ data'.inputs = inputs
    BY <1>6, <2>1, <2>2 DEF DataType
  <2> QED
    BY <2>3 DEF a
<1>16. Entry(x) \in CommandEntry /\ Entry(object) \in InputEntry
  BY <1>3 DEF Entry, CommandEntry, InputEntry
<1>17. /\ section' \in [Forks -> SectionType] /\ (\A g \in Forks \ {f} : section'[g] = section[g])
       /\ section'[f].commands = Append(section[f].commands, Entry(x))
       /\ i0 = 0 => section'[f].inputs = Append(section[f].inputs, Entry(object))
       /\ i0 # 0 => section'[f].inputs = section[f].inputs
  <2> DEFINE a == Append(section[f].commands, Entry(x))
             n == IF i0 = 0 THEN Append(section[f].inputs, Entry(object)) ELSE section[f].inputs
  <2>1. section \in [Forks -> SectionType] /\ section[f] \in SectionType
    BY <1>1 DEF BuilderTypes
  <2>2. a \in Seq(CommandEntry)
    BY <1>16, <2>1, AppendProperties DEF SectionType
  <2>3. n \in Seq(InputEntry)
    BY <1>16, <2>1, AppendProperties DEF SectionType
  <2>4. section' = [section EXCEPT ![f] = [@ EXCEPT !.commands = a, !.inputs = n]]
    <3>1. section' = [section EXCEPT ![f].commands = a, ![f].inputs = n]
      BY <1>13, <2>1 DEF SectionType
    <3> HIDE DEF a, n
    <3> QED
      BY <2>1, <3>1 DEF SectionType
  <2>5. (i0 = 0 => n = Append(section[f].inputs, Entry(object))) /\ (i0 # 0 => n = section[f].inputs)
    OBVIOUS
  <2> HIDE DEF a, n
  <2>6. [section[f] EXCEPT !.commands = a, !.inputs = n] \in SectionType
        /\ [section[f] EXCEPT !.commands = a, !.inputs = n].commands = a
        /\ [section[f] EXCEPT !.commands = a, !.inputs = n].inputs = n
    BY <2>1, <2>2, <2>3 DEF SectionType
  <2>7. section'[f] = [section[f] EXCEPT !.commands = a, !.inputs = n] /\ (\A g \in Forks \ {f} : section'[g] = section[g])
        /\ section' \in [Forks -> SectionType]
    BY <1>1, <2>1, <2>4, <2>6
  <2> QED
    BY <2>5, <2>6, <2>7 DEF a
<1>18. special' \in Nat /\ special <= special'
  BY <1>1, <1>13, SpecialCounts
<1>19. AddsCommand(f, x, "call", args)
  <2>1. DOMAIN handles' = DOMAIN handles \cup {x} /\ handles'[x] = Size + 1
        /\ (\A y \in DOMAIN handles : y # x => handles'[y] = handles[y])
        /\ IsMap(handles')
    <3> DEFINE e == Extend(handles, x, Size + 1)
    <3>1. /\ DOMAIN e = DOMAIN handles \cup {x} /\ e[x] = Size + 1
          /\ (\A y \in DOMAIN handles : y # x => e[y] = handles[y])
          /\ IsMap(e)
      BY ExtendParts
    <3>2. handles' = e
      BY <1>13 DEF Size
    <3> HIDE DEF e
    <3> QED
      BY <3>1, <3>2
  <2>2. x \notin DOMAIN handles
    BY <1>1, <1>2, FreshName DEF Known, Mentioned
  <2>3. count' = [count EXCEPT ![f] = count[f] + 1]
    BY <1>1, <1>13, CountedIs
  <2>4. available' = [available EXCEPT ![f] = @ \cup {Size + 1}]
    BY <1>13 DEF Size
  <2>5. data'.commands = Append(data.commands, Command(x, "call", args))
    BY <1>12, <1>15
  <2> QED
    BY <1>13, <1>17, <1>18, <2>1, <2>2, <2>3, <2>4, <2>5 DEF AddsCommand
<1>20. Len(data.inputs) <= Len(data'.inputs) /\ InputsApart'
       /\ \A i \in 1 .. Len(data.inputs) :
           data'.inputs[i].object = data.inputs[i].object /\ (data.inputs[i].mutable => data'.inputs[i].mutable)
  BY <1>6, <1>15 DEF InputsApart, InputsGrow
<1>21. \A k \in 1 .. Len(args) :
         /\ args[k].kind = "Input" => ObjectFits(data'.inputs, args[k])
         /\ RefersToResult(args[k]) =>
              \/ x \in refused'
              \/ args[k].at \in available[f] /\ Points(args[k].at, args[k].of) /\ args[k].of \in Mentioned
  <2>1. ObjectFits(data'.inputs, arg)
    BY <1>8, <1>10, <1>15 DEF ObjectFits
  <2>2. x \notin refused'
    BY <1>1, <1>2, <1>13, FreshName DEF Known, Mentioned
  <2> QED
    BY <1>10, <1>11, <2>1, <2>2
<1>22. Grown(x) /\ NewArgsFit(x) /\ PutAt(f, x) /\ BuilderTypes' /\ x \notin Known /\ x \notin Thunks'
  BY <1>1, <1>2, <1>11, <1>14, <1>15, <1>19, <1>20, <1>21, AddsGrow
<1>23. InputsPlaced'
  <2>1. Forks' = Forks
    BY <1>17 DEF Forks
  <2>3. \A g : Front(g) \in Forks \/ g \notin Forks \ {Root}
    BY <1>1 DEF Gathering, Adds, Placed
  <2>4. CASE i0 = 0
    <3>1. Len(data'.inputs) = Len(data.inputs) + 1 /\ data'.inputs[Len(data.inputs) + 1].object = object
      BY <1>6, <1>15, <2>4
    <3>2. \A g \in Forks \ {f} : section'[g].inputs = section[g].inputs
      BY <1>17
    <3> QED
      BY <1>1, <1>4, <1>16, <1>17, <1>20, <2>1, <2>3, <2>4, <3>1, <3>2, InputAdded DEF Gathering
  <2>5. CASE i0 # 0
    <3>1. \A g \in Forks : section'[g].inputs = section[g].inputs
      BY <1>17, <2>5
    <3>2. Len(data'.inputs) = Len(data.inputs)
      BY <1>6, <1>15, <2>5
    <3> QED
      BY <1>1, <1>20, <2>1, <2>3, <3>1, <3>2, InputsStay DEF Gathering
  <2> QED
    BY <2>4, <2>5
<1> QED
  BY <1>13, <1>18, <1>22, <1>23, AddsKeep

(* A function returns a promise: its placeholder is added by its caller. *)
LEMMA ReturnPromiseKeeps ==
  ASSUME BuilderInv, NEW void \in BOOLEAN, ReturnPromise(void)
  PROVE  BuilderInv'
<1>1. PICK g : g = Last(running)
  OBVIOUS
<1>2. PICK p : p = Front(g)
  OBVIOUS
<1>3. PICK c : c = Command(g, "thunk", <<>>)
  OBVIOUS
<1>4. PICK r : r = [state |-> "running", result |-> g, resultIndex |-> Size + 1, void |-> void]
  OBVIOUS
<1>5. PICK w : w = IF void THEN 2 ELSE 0
  OBVIOUS
<1>6. /\ running # <<>> /\ PutCommand(p, c) /\ thunks' = Extend(thunks, g, r) /\ Special(w)
      /\ running' = Front(running) /\ handles' = Extend(handles, g, Size + 1)
      /\ UNCHANGED <<phase, count>> /\ UNCHANGED <<standsFor, refused, late>>
  BY <1>1, <1>2, <1>3, <1>4, <1>5 DEF ReturnPromise, Parent, history, Size
<1>7. BuilderTypes /\ NamesKnown /\ Core /\ ArgsFit /\ InputsApart /\ special \in Nat /\ Size \in Nat /\ running \in Seq(Forks)
  BY DataParts DEF BuilderInv, BuilderTypes, Core, Size
<1>8. Gathering /\ phase \in {"idle", "waiting"}
  BY <1>6 DEF BuilderInv, BuilderTypes, Settled
<1>9. special' \in Nat /\ special <= special'
  BY <1>5, <1>6, <1>7, SpecialCounts
<1> DEFINE n == Len(running)
<1>10. /\ n \in Nat /\ n > 0 /\ n \in 1 .. n /\ g = running[n] /\ g \in Forks
       /\ Front(running) \in Seq(Forks) /\ Len(Front(running)) = n - 1
       /\ \A k \in 1 .. n - 1 : Front(running)[k] = running[k]
  BY <1>1, <1>6, <1>7, FrontParts
<1>11. g # <<>> /\ Last(g) = count[p] /\ g \notin InData \cup Mentioned
  BY <1>2, <1>8, <1>10 DEF Gathering, Running
<1>12. /\ p \in Forks /\ p \in DOMAIN count /\ g \in DOMAIN count /\ g # Root /\ g \in Name /\ count[p] \in Nat /\ User(g)
  <2>1. p \in Forks /\ g # Root /\ g \in DOMAIN count
    BY <1>2, <1>7, <1>8, <1>10, <1>11 DEF Gathering, Adds, Placed, Root, BuilderTypes
  <2>2. p \in DOMAIN count /\ g \in Name /\ count[p] \in Nat
    BY <1>7, <2>1 DEF BuilderTypes
  <2>3. Last(g) # 0 /\ \A j \in 1 .. Len(g) : g[j] > 0
    BY <1>7, <2>1 DEF NamesKnown
  <2>4. 1 \in 1 .. Len(g)
    <3>1. Len(g) \in Nat /\ Len(g) # 0
      BY <1>11, <2>2, NameParts, EmptySeq DEF Name
    <3> QED
      BY <3>1
  <2> QED
    BY <2>1, <2>2, <2>3, <2>4 DEF User
<1>13. c \in CommandType /\ c.id = g /\ c.kind = "thunk" /\ c.args = <<>>
  <2>1. PICK a, k : a = <<>> /\ k = "thunk"
    OBVIOUS
  <2>2. a \in Seq(ArgType) /\ k \in Kinds
    BY <2>1 DEF Kinds
  <2>3. c = Command(g, k, a)
    BY <1>3, <2>1
  <2>4. c \in CommandType /\ c.id = g /\ c.kind = k /\ c.args = a
    BY <1>12, <2>2, <2>3, Constructed
  <2> QED
    BY <2>1, <2>4
<1>14. /\ data' \in DataType /\ data'.commands = Append(data.commands, c) /\ data'.inputs = data.inputs
  BY <1>6, <1>7, <1>13, CommandPut
<1>15. /\ Size' = Size + 1
       /\ \A i \in 1 .. Size : data'.commands[i] = data.commands[i]
       /\ data'.commands[Size + 1] = c
  <2>1. data.commands \in Seq(CommandType)
    BY <1>7, DataParts DEF BuilderTypes
  <2> QED
    BY <1>13, <1>14, <2>1, CommandAppended DEF Size
<1>16. /\ section' \in [Forks -> SectionType] /\ section'[p].commands = Append(section[p].commands, Entry(g))
       /\ section'[p].inputs = section[p].inputs /\ (\A q \in Forks \ {p} : section'[q] = section[q])
       /\ available' = [available EXCEPT ![p] = @ \cup {Size + 1}]
  <2>1. section' = [section EXCEPT ![p].commands = Append(@, Entry(g))] /\ available' = [available EXCEPT ![p] = @ \cup {Size + 1}]
    BY <1>6, <1>13 DEF PutCommand, Size
  <2>2. PICK s : s = section'
    OBVIOUS
  <2>3. s = WithEntry(p, g)
    BY <2>1, <2>2 DEF WithEntry
  <2>4. /\ s \in [Forks -> SectionType] /\ s[p].commands = Append(section[p].commands, Entry(g))
        /\ s[p].inputs = section[p].inputs /\ \A q \in Forks \ {p} : s[q] = section[q]
    BY <1>7, <1>12, <2>3, EntryTyped
  <2> QED
    BY <2>1, <2>2, <2>4
<1>17. /\ r \in ThunkType /\ r.state = "running" /\ r.result = g /\ r.resultIndex = Size + 1
  <2>1. void = TRUE \/ void = FALSE
    OBVIOUS
  <2> QED
    BY <1>4, <1>7, <1>12, <2>1 DEF ThunkType
<1>18. /\ Thunks' = Thunks \cup {g} /\ thunks'[g] = r /\ (\A t \in Thunks : t # g => thunks'[t] = thunks[t])
       /\ IsMap(thunks') /\ g \notin Thunks
  <2> DEFINE e == Extend(thunks, g, r)
  <2>1. DOMAIN e = DOMAIN thunks \cup {g} /\ e[g] = r /\ (\A t \in DOMAIN thunks : t # g => e[t] = thunks[t]) /\ IsMap(e)
    BY DEF Extend, IsMap
  <2>2. thunks' = e
    BY <1>6
  <2> HIDE DEF e
  <2> QED
    BY <1>11, <2>1, <2>2 DEF Thunks, Mentioned
<1>19. /\ DOMAIN handles' = DOMAIN handles \cup {g} /\ handles'[g] = Size + 1
       /\ (\A y \in DOMAIN handles : handles'[y] = handles[y]) /\ IsMap(handles')
  <2> DEFINE e == Extend(handles, g, Size + 1)
  <2>1. /\ DOMAIN e = DOMAIN handles \cup {g} /\ e[g] = Size + 1
        /\ (\A y \in DOMAIN handles : y # g => e[y] = handles[y]) /\ IsMap(e)
    BY ExtendParts
  <2>2. handles' = e /\ g \notin DOMAIN handles
    BY <1>6, <1>11 DEF Mentioned
  <2> HIDE DEF e
  <2> QED
    BY <2>1, <2>2
<1>20. ThunksGrow(g)
  BY <1>17, <1>18, <1>19 DEF ThunksGrow
<1>21. Grown(g)
  BY <1>6, <1>7, <1>11, <1>12, <1>13, <1>14, <1>15, <1>18, <1>19, <1>20, SameInputsGrow DEF Grown, User
<1>22. NewArgsFit(g)
  BY <1>13, <1>15 DEF NewArgsFit
<1>23. PutAt(p, g)
  <2>1. available \in [Forks -> SUBSET (1 .. Size)]
    BY <1>7 DEF BuilderTypes
  <2>2. available'[p] = available[p] \cup {Size + 1} /\ \A q \in Forks \ {p} : available'[q] = available[q]
    BY <1>12, <1>16, <2>1
  <2>3. Forks' = Forks
    BY <1>16 DEF Forks
  <2> QED
    BY <1>2, <1>6, <1>10, <1>11, <1>12, <1>13, <1>15, <1>16, <1>18, <2>2, <2>3 DEF PutAt
<1>24. BuilderTypes'
  <2>1. available' \in [Forks -> SUBSET (1 .. Size')]
    <3>1. available \in [Forks -> SUBSET (1 .. Size)]
      BY <1>7 DEF BuilderTypes
    <3>2. \A q \in Forks : available[q] \cup {Size + 1} \in SUBSET (1 .. Size') /\ available[q] \in SUBSET (1 .. Size')
      BY <1>7, <1>15, <3>1
    <3> QED
      BY <1>16, <3>1, <3>2
  <2>2. handles' \in [DOMAIN handles' -> Nat]
    BY <1>7, <1>19 DEF BuilderTypes, IsMap
  <2>3. thunks' \in [Thunks' -> ThunkType] /\ IsFiniteSet(Thunks')
    <3>1. thunks \in [Thunks -> ThunkType] /\ IsFiniteSet(Thunks)
      BY <1>7 DEF BuilderTypes
    <3>2. IsFiniteSet(Thunks \cup {g})
      BY <3>1, FS_AddElement
    <3> QED
      BY <1>17, <1>18, <3>1, <3>2 DEF IsMap, Thunks
  <2>4. section' \in [Forks -> SectionType] /\ Forks' = Forks /\ running' \in Seq(Forks)
    BY <1>6, <1>10, <1>16 DEF Forks
  <2> QED
    BY <1>6, <1>7, <1>9, <1>14, <2>1, <2>2, <2>3, <2>4 DEF BuilderTypes, Replaced
<1>25. Core' /\ NamesKnown' /\ Adds' /\ AvailableLess'
  BY <1>7, <1>8, <1>9, <1>14, <1>21, <1>22, <1>23, GrownKeepsCommands, GrownKeepsHandles, PutKeepsNames, PutKeepsAdds, PutKeepsAvailable
     DEF Core, Gathering
<1>26. InputsPlaced'
  <2>1. Forks' = Forks
    BY <1>16 DEF Forks
  <2>2. \A q \in Forks : section'[q].inputs = section[q].inputs
    BY <1>16
  <2>3. \A q : Front(q) \in Forks \/ q \notin Forks \ {Root}
    BY <1>8 DEF Gathering, Adds, Placed
  <2> QED
    BY <1>7, <1>8, <1>14, <2>1, <2>2, <2>3, InputsStay, SameInputsGrow DEF Gathering
<1>27. Running'
  <2>1. ASSUME NEW k \in 1 .. n - 1
        PROVE  /\ running'[k] # <<>> /\ Last(running'[k]) = count[Front(running'[k])]
               /\ running'[k] \notin InData' \cup Mentioned'
               /\ Len(running'[k]) = Len(running'[1]) + k - 1
               /\ k > 1 => Front(running'[k]) = running'[k - 1]
    <3>1. k \in 1 .. n /\ 1 \in 1 .. n - 1 /\ (k > 1 => k - 1 \in 1 .. n - 1) /\ k < n /\ k \in Nat
      BY <1>10
    <3>2. running'[k] = running[k] /\ running'[1] = running[1] /\ (k > 1 => running'[k - 1] = running[k - 1])
      BY <1>6, <1>10, <3>1
    <3>3. /\ running[k] # <<>> /\ Last(running[k]) = count[Front(running[k])]
          /\ running[k] \notin InData \cup Mentioned
          /\ Len(running[k]) = Len(running[1]) + k - 1
          /\ k > 1 => Front(running[k]) = running[k - 1]
      BY <1>8, <3>1 DEF Gathering, Running
    <3>4. running[k] # g
      <4>1. Len(g) = Len(running[1]) + n - 1
        BY <1>8, <1>10 DEF Gathering, Running
      <4>2. Len(running[1]) \in Nat
        <5>1. running[1] \in Name
          BY <1>7, <1>10, <3>1, ElementOfSeq DEF BuilderTypes
        <5> QED
          BY <5>1, NameParts
      <4> HIDE DEF n
      <4>3. Len(running[k]) # Len(g)
        BY <1>10, <3>1, <3>3, <4>1, <4>2
      <4> QED
        BY <4>3
    <3>5. running[k] \notin InData' \cup Mentioned'
      BY <1>7, <1>21, <3>3, <3>4, GrownNames, GrownMentions
    <3> QED
      BY <3>2, <3>3, <3>5
  <2>2. ASSUME NEW t \in Unresolved'  PROVE t \in Forks
    <3>1. t \in Thunks' /\ thunks'[t].state = "running"
      BY DEF Unresolved, Thunks
    <3>2. t # g => t \in Unresolved
      BY <1>18, <3>1 DEF Unresolved, Thunks
    <3> QED
      BY <1>8, <1>10, <3>2 DEF Gathering, Running
  <2>3. Len(running') = n - 1 /\ Forks' = Forks /\ count' = count
    BY <1>6, <1>10, <1>16 DEF Forks
  <2>4. (\A k \in 1 .. Len(running) :
           /\ running[k] # <<>> /\ Last(running[k]) = count[Front(running[k])]
           /\ running[k] \notin InData \cup Mentioned
           /\ Len(running[k]) = Len(running[1]) + k - 1
           /\ k > 1 => Front(running[k]) = running[k - 1])'
    BY <2>1, <2>3
  <2> QED
    BY <2>2, <2>3, <2>4 DEF Running
<1> QED
  BY <1>6, <1>8, <1>24, <1>25, <1>26, <1>27 DEF BuilderInv, Core, Gathering

(***************************************************************************)
(* A function is called                                                    *)
(***************************************************************************)

(* The function g of the code with path f starts.                          *)
ForkAt(f, g) ==
  /\ f \in Forks /\ f \in DOMAIN count /\ g \notin Known /\ g \notin DOMAIN count /\ g \notin Forks
  /\ g \in Name /\ g # <<>> /\ Front(g) = f
  /\ Last(g) = count[f] + 1 /\ User(g) /\ g = NextName(f)
  /\ data' = data /\ thunks' = thunks /\ handles' = handles /\ standsFor' = standsFor /\ refused' = refused /\ late' = late
  /\ Forks' = Forks \cup {g} /\ section' \in [Forks \cup {g} -> SectionType]
  /\ section'[g] = NoSection /\ \A h \in Forks \ {f} : section'[h] = section[h]
  /\ section'[f].commands = Append(section[f].commands, ForkEntry(g))
  /\ section'[f].inputs = Append(section[f].inputs, ForkEntry(g))
  /\ available' \in [Forks \cup {g} -> SUBSET (1 .. Size)]
  /\ available'[g] = available[f] /\ \A h \in Forks : available'[h] = available[h]
  /\ count' \in [DOMAIN count \cup {g} -> Nat]
  /\ count'[g] = 0 /\ count'[f] = count[f] + 1 /\ \A h \in DOMAIN count \ {f} : count'[h] = count[h]
  /\ running' = Append(running, g) /\ phase' = phase /\ special' = special

(* The sections when f has called the function g. *)
WithFork(f, g) ==
  [Extend(section, g, NoSection) EXCEPT
     ![f].commands = Append(@, ForkEntry(g)), ![f].inputs = Append(@, ForkEntry(g))]

(* What they are. *)
ForkSections(s, f, g) ==
  /\ s \in [Forks \cup {g} -> SectionType] /\ s[g] = NoSection /\ \A h \in Forks \ {f, g} : s[h] = section[h]
  /\ s[f].commands = Append(section[f].commands, ForkEntry(g))
  /\ s[f].inputs = Append(section[f].inputs, ForkEntry(g))

(* They are sections. *)
LEMMA ForkTyped ==
  ASSUME BuilderTypes, NEW f \in Forks, NEW g \in Name, g # f, NEW s, s = WithFork(f, g)
  PROVE  ForkSections(s, f, g)
<1> DEFINE e == Extend(section, g, NoSection)
           a == Append(section[f].commands, ForkEntry(g))
           n == Append(section[f].inputs, ForkEntry(g))
<1>1. section \in [Forks -> SectionType] /\ section[f] \in SectionType
  BY DEF BuilderTypes
<1>2. NoSection \in SectionType
  BY DEF NoSection, SectionType
<1>3. ForkEntry(g) \in CommandEntry /\ ForkEntry(g) \in InputEntry
  BY DEF ForkEntry, ForkType, CommandEntry, InputEntry
<1>4. a \in Seq(CommandEntry)
  BY <1>1, <1>3, AppendProperties DEF SectionType
<1>5. n \in Seq(InputEntry)
  BY <1>1, <1>3, AppendProperties DEF SectionType
<1>6. e \in [Forks \cup {g} -> SectionType] /\ e[g] = NoSection /\ (\A h \in Forks \ {g} : e[h] = section[h]) /\ e[f] = section[f]
  BY <1>1, <1>2 DEF Extend, Forks
<1>7. s = [e EXCEPT ![f] = [@ EXCEPT !.commands = a, !.inputs = n]]
  <2>1. s = [e EXCEPT ![f].commands = a, ![f].inputs = n]
    <3>1. s = [e EXCEPT ![f].commands = Append(@, ForkEntry(g)), ![f].inputs = Append(@, ForkEntry(g))]
      BY DEF WithFork
    <3> HIDE DEF e
    <3> QED
      BY <1>1, <1>6, <3>1 DEF SectionType
  <2> HIDE DEF a, n, e
  <2> QED
    BY <1>1, <1>6, <2>1 DEF SectionType
<1> HIDE DEF a, n, e
<1> DEFINE r == [section[f] EXCEPT !.commands = a, !.inputs = n]
<1>8. r \in SectionType /\ r.commands = a /\ r.inputs = n
  BY <1>1, <1>4, <1>5 DEF SectionType
<1>9. s = [e EXCEPT ![f] = r]
  BY <1>6, <1>7
<1> HIDE DEF r
<1>10. s[f] = r /\ (\A h \in (Forks \cup {g}) \ {f} : s[h] = e[h]) /\ s \in [Forks \cup {g} -> SectionType]
  BY <1>6, <1>8, <1>9
<1> QED
  BY <1>6, <1>8, <1>10 DEF a, n, ForkSections

(* AddFunction is such a step. *)
LEMMA FunctionForks ==
  ASSUME BuilderInv, NEW f \in Active, NEW g, g = NextName(f), AddFunction(f)
  PROVE  ForkAt(f, g)
<1>1. Gathering /\ f \in Forks /\ f \in DOMAIN count /\ BuilderTypes /\ NamesKnown
  BY ActiveFork DEF BuilderInv
<1>2. /\ g \notin Known /\ g \notin DOMAIN count /\ g \in Name /\ g # <<>> /\ Front(g) = f
      /\ Last(g) = count[f] + 1 /\ User(g) /\ count[f] \in Nat
  BY <1>1, FreshName
<1>3. g \notin Forks /\ g # f
  BY <1>1, <1>2 DEF BuilderTypes
<1>4. /\ running' = Append(running, g)
      /\ section' = [Extend(section, g, NoSection) EXCEPT
          ![f].commands = Append(@, ForkEntry(g)),
          ![f].inputs = Append(@, ForkEntry(g))]
      /\ available' = Extend(available, g, available[f])
      /\ count' = Extend(Counted(f), g, 0)
      /\ UNCHANGED <<data, thunks, handles, phase>> /\ special' = special /\ UNCHANGED <<standsFor, refused, late>>
  BY DEF AddFunction, bounds, history
<1>5. /\ section' \in [Forks \cup {g} -> SectionType] /\ section'[g] = NoSection /\ (\A h \in Forks \ {f} : section'[h] = section[h])
      /\ section'[f].commands = Append(section[f].commands, ForkEntry(g))
      /\ section'[f].inputs = Append(section[f].inputs, ForkEntry(g))
  <2>1. PICK s : s = section'
    OBVIOUS
  <2>2. s = WithFork(f, g)
    BY <1>4, <2>1 DEF WithFork
  <2>3. f \in Forks /\ g \in Name /\ g # f /\ BuilderTypes
    BY <1>1, <1>2, <1>3
  <2>4. ForkSections(s, f, g)
    BY <2>2, <2>3, ForkTyped
  <2> QED
    BY <1>3, <2>1, <2>4 DEF ForkSections
<1>6. /\ available' \in [Forks \cup {g} -> SUBSET (1 .. Size)]
      /\ available'[g] = available[f] /\ \A h \in Forks : available'[h] = available[h]
  BY <1>1, <1>3, <1>4 DEF Extend, BuilderTypes
<1>7. /\ count' \in [DOMAIN count \cup {g} -> Nat]
      /\ count'[g] = 0 /\ count'[f] = count[f] + 1 /\ \A h \in DOMAIN count \ {f} : count'[h] = count[h]
  <2>1. count \in [DOMAIN count -> Nat] /\ count[f] + 1 \in Nat
    BY <1>1 DEF BuilderTypes
  <2> DEFINE c == [count EXCEPT ![f] = count[f] + 1]
  <2>2. Counted(f) = c
    BY <1>1, CountedIs
  <2>3. c \in [DOMAIN count -> Nat] /\ c[f] = count[f] + 1 /\ \A h \in DOMAIN count \ {f} : c[h] = count[h]
    BY <1>1, <2>1
  <2> HIDE DEF c
  <2>4. count' = Extend(c, g, 0)
    BY <1>4, <2>2
  <2> QED
    BY <1>1, <1>2, <2>3, <2>4 DEF Extend
<1> QED
  BY <1>1, <1>2, <1>3, <1>4, <1>5, <1>6, <1>7 DEF ForkAt, Forks

(* The name of the function is new. *)
LEMMA ForkKeepsNames ==
  ASSUME NEW f, NEW g, ForkAt(f, g), BuilderTypes, NamesKnown
  PROVE  NamesKnown'
<1>1. /\ g \notin Known /\ g \in Name /\ f \in Name /\ count[f] \in Nat /\ DOMAIN count' = DOMAIN count \cup {g}
      /\ g = Append(f, count[f] + 1) /\ count[f] + 1 \in Nat /\ special' = special /\ f \in DOMAIN count
      /\ Mentioned' = Mentioned /\ DOMAIN count \subseteq Name /\ count \in [DOMAIN count -> Nat] /\ g # Root
  BY DEF ForkAt, BuilderTypes, Mentioned, Thunks, Replaced, NextName, Root
<1>2. Known' = Known \cup {g}
  <2>1. InData' = InData
    BY DEF ForkAt, InData
  <2> QED
    BY <1>1, <2>1 DEF Known, Root
<1>3. /\ Len(g) = Len(f) + 1 /\ g[Len(f) + 1] = count[f] + 1 /\ (\A j \in 1 .. Len(f) : g[j] = f[j]) /\ Inside(g, f)
      /\ Len(f) \in Nat /\ Len(g) \in Nat
  BY <1>1, AppendedName, NameParts
<1>4. ASSUME NEW y \in Known  PROVE Made(y)'
  <2> SUFFICES ASSUME NEW h \in DOMAIN count', Inside(y, h)  PROVE y[Len(h) + 1] <= count'[h]
    BY DEF Made
  <2>1. Made(y) /\ y \in Name
    BY <1>4 DEF NamesKnown
  <2>2. CASE h = g
    <3>1. Inside(y, f) /\ y[Len(f) + 1] = count[f] + 1
      <4>1. Len(f) + 1 \in 1 .. Len(g) /\ \A j \in 1 .. Len(f) : j \in 1 .. Len(g)
        BY <1>3
      <4>2. Len(g) < Len(y) /\ \A j \in 1 .. Len(g) : y[j] = g[j]
        BY <2>2 DEF Inside
      <4>3. Len(y) \in Nat
        BY <2>1, NameParts
      <4>4. Len(f) < Len(y)
        BY <1>3, <4>2, <4>3
      <4> QED
        BY <1>3, <4>1, <4>2, <4>4 DEF Inside
    <3>2. y[Len(f) + 1] <= count[f]
      BY <1>1, <2>1, <3>1 DEF Made
    <3> QED
      BY <1>1, <3>1, <3>2
  <2>3. CASE h \in DOMAIN count
    <3>1. y[Len(h) + 1] <= count[h] /\ count[h] \in Nat
      BY <1>1, <2>1, <2>3 DEF Made
    <3>2. count'[h] = count[h] \/ (h = f /\ count'[h] = count[h] + 1)
      BY <2>3 DEF ForkAt
    <3>3. y[Len(h) + 1] \in Nat
      <4>1. Len(h) \in Nat /\ Len(y) \in Nat /\ Len(h) < Len(y)
        BY <1>1, <2>1, <2>3, NameParts DEF Inside
      <4>2. Len(h) + 1 \in 1 .. Len(y)
        BY <4>1
      <4> QED
        BY <2>1, <4>2, NameParts
    <3> QED
      BY <3>1, <3>2, <3>3
  <2> QED
    BY <1>1, <2>2, <2>3
<1>5. Made(g)'
  <2> SUFFICES ASSUME NEW h \in DOMAIN count', Inside(g, h)  PROVE g[Len(h) + 1] <= count'[h]
    BY DEF Made
  <2>1. h # g
    BY <1>3 DEF Inside
  <2>2. h \in DOMAIN count /\ h \in Name /\ Len(h) \in Nat
    BY <1>1, <2>1, NameParts
  <2>3. Len(h) < Len(g) /\ \A j \in 1 .. Len(h) : g[j] = h[j]
    BY DEF Inside
  <2>4. CASE Len(h) = Len(f)
    <3>1. h = f
      BY <1>1, <1>3, <2>2, <2>3, <2>4, SameName
    <3> QED
      BY <1>1, <1>3, <3>1 DEF ForkAt
  <2>5. CASE Len(h) < Len(f)
    <3>1. Inside(f, h) /\ Len(h) + 1 \in 1 .. Len(f)
      <4>1. \A j \in 1 .. Len(h) : j \in 1 .. Len(f)
        BY <1>3, <2>2, <2>5
      <4> QED
        BY <1>3, <2>2, <2>3, <2>5, <4>1 DEF Inside
    <3>2. f \in Known
      <4>1. f # Root
        BY <1>3, <2>2, <2>5 DEF Root
      <4> QED
        BY <1>1, <4>1 DEF Known
    <3>3. Made(f)'
      BY <1>4, <3>2
    <3>4. f[Len(h) + 1] <= count'[h]
      BY <3>1, <3>3 DEF Made
    <3> QED
      BY <1>3, <3>1, <3>4
  <2> QED
    BY <1>3, <2>2, <2>3, <2>4, <2>5
<1>6. g # <<>> /\ g[1] # 0 /\ Last(g) # 0
  BY DEF ForkAt, User
<1>7. \A y \in Known' : y \in Name /\ y # <<>> /\ Made(y)' /\ (y[1] = 0 => Len(y) > 1 /\ y[2] <= special')
  BY <1>1, <1>2, <1>4, <1>5, <1>6 DEF NamesKnown
<1>8. \A y \in Mentioned' \cup (DOMAIN count' \ {Root}) : Last(y) # 0
  BY <1>1, <1>6 DEF NamesKnown
<1>9. ASSUME NEW h \in DOMAIN count', NEW j \in 1 .. Len(h)  PROVE h[j] > 0
  <2>1. CASE h = g /\ j \in 1 .. Len(f)
    <3>1. f[j] > 0
      BY <1>1, <2>1 DEF NamesKnown
    <3> QED
      BY <1>3, <2>1, <3>1
  <2>2. CASE h = g /\ j = Len(f) + 1
    BY <1>1, <1>3, <2>2
  <2>3. CASE h # g
    BY <1>1, <2>3 DEF NamesKnown
  <2> QED
    BY <1>3, <2>1, <2>2, <2>3
<1> QED
  BY <1>7, <1>8, <1>9 DEF NamesKnown, Root

(* What appending does to the indexes.                                     *)
LEMMA AppendGrows ==
  ASSUME NEW E, NEW s \in Seq(E), NEW e \in E, NEW t, t = Append(s, e)
  PROVE  /\ Len(s) \in Nat /\ Len(s) <= Len(t) /\ Len(s) + 1 \in 1 .. Len(t) /\ t[Len(s) + 1] = e
         /\ \A k \in 1 .. Len(s) : k \in 1 .. Len(t) /\ t[k] = s[k]
         /\ \A k \in 1 .. Len(t) : k \in 1 .. Len(s) \/ k = Len(s) + 1
<1>1. Len(t) = Len(s) + 1 /\ Len(s) \in Nat /\ t[Len(s) + 1] = e /\ \A k \in 1 .. Len(s) : t[k] = s[k]
  BY AppendProperties
<1> QED
  BY <1>1

(* The sections of the forks g and f after f started g.                    *)
LEMMA ForkParts ==
  ASSUME NEW f, NEW g, ForkAt(f, g), BuilderTypes
  PROVE  /\ \A h \in Forks : h # g /\ Len(section[h].commands) \in Nat /\ Len(section[h].inputs) \in Nat
                             /\ Len(section[h].commands) <= Len(section'[h].commands)
         /\ \A h \in Forks : \A k \in 1 .. Len(section[h].commands) :
              k \in 1 .. Len(section'[h].commands) /\ section'[h].commands[k] = section[h].commands[k]
         /\ \A h \in Forks : \A k \in 1 .. Len(section[h].inputs) :
              k \in 1 .. Len(section'[h].inputs) /\ section'[h].inputs[k] = section[h].inputs[k]
         /\ \A h \in Forks' : \A k \in 1 .. Len(section'[h].commands) :
              h \in Forks /\ (k \in 1 .. Len(section[h].commands) \/ (h = f /\ k = Len(section[f].commands) + 1))
         /\ \A h \in Forks' : \A k \in 1 .. Len(section'[h].inputs) :
              h \in Forks /\ (k \in 1 .. Len(section[h].inputs) \/ (h = f /\ k = Len(section[f].inputs) + 1))
         /\ Len(section[f].commands) + 1 \in 1 .. Len(section'[f].commands)
         /\ Len(section[f].inputs) + 1 \in 1 .. Len(section'[f].inputs)
         /\ section'[f].commands[Len(section[f].commands) + 1] = ForkEntry(g)
         /\ section'[f].inputs[Len(section[f].inputs) + 1] = ForkEntry(g)
<1>1. /\ f \in Forks /\ g \notin Forks /\ g \in Name /\ Forks' = Forks \cup {g} /\ section'[g] = NoSection
      /\ (\A h \in Forks \ {f} : section'[h] = section[h])
      /\ section'[f].commands = Append(section[f].commands, ForkEntry(g))
      /\ section'[f].inputs = Append(section[f].inputs, ForkEntry(g))
  BY DEF ForkAt
<1>2. \A h \in Forks : /\ section[h].commands \in Seq(CommandEntry) /\ Len(section[h].commands) \in Nat
                       /\ section[h].inputs \in Seq(InputEntry) /\ Len(section[h].inputs) \in Nat
  BY SectionTypes
<1>3. ForkEntry(g) \in CommandEntry /\ ForkEntry(g) \in InputEntry
  BY <1>1 DEF ForkEntry, ForkType, CommandEntry, InputEntry
<1> DEFINE sc == section[f].commands
           si == section[f].inputs
           tc == section'[f].commands
           ti == section'[f].inputs
<1>4. sc \in Seq(CommandEntry) /\ si \in Seq(InputEntry) /\ tc = Append(sc, ForkEntry(g)) /\ ti = Append(si, ForkEntry(g))
  BY <1>1, <1>2
<1> HIDE DEF sc, si, tc, ti
<1>5. /\ Len(sc) \in Nat /\ Len(sc) <= Len(tc) /\ Len(sc) + 1 \in 1 .. Len(tc) /\ tc[Len(sc) + 1] = ForkEntry(g)
      /\ \A k \in 1 .. Len(sc) : k \in 1 .. Len(tc) /\ tc[k] = sc[k]
      /\ \A k \in 1 .. Len(tc) : k \in 1 .. Len(sc) \/ k = Len(sc) + 1
  BY <1>3, <1>4, AppendGrows
<1>6. /\ Len(si) \in Nat /\ Len(si) <= Len(ti) /\ Len(si) + 1 \in 1 .. Len(ti) /\ ti[Len(si) + 1] = ForkEntry(g)
      /\ \A k \in 1 .. Len(si) : k \in 1 .. Len(ti) /\ ti[k] = si[k]
      /\ \A k \in 1 .. Len(ti) : k \in 1 .. Len(si) \/ k = Len(si) + 1
  BY <1>3, <1>4, AppendGrows
<1>7. ASSUME NEW h \in Forks, h # f
      PROVE  /\ section'[h].commands = section[h].commands /\ section'[h].inputs = section[h].inputs
             /\ Len(section[h].commands) <= Len(section'[h].commands)
  BY <1>1, <1>2, <1>7
<1>8. Len(section'[g].commands) = 0 /\ Len(section'[g].inputs) = 0
  BY <1>1 DEF NoSection
<1> USE DEF sc, si, tc, ti
<1>9. \A h \in Forks : h # g /\ Len(section[h].commands) \in Nat /\ Len(section[h].inputs) \in Nat
                             /\ Len(section[h].commands) <= Len(section'[h].commands)
  BY <1>1, <1>2, <1>5, <1>7
<1>10. /\ \A h \in Forks : \A k \in 1 .. Len(section[h].commands) :
              k \in 1 .. Len(section'[h].commands) /\ section'[h].commands[k] = section[h].commands[k]
       /\ \A h \in Forks : \A k \in 1 .. Len(section[h].inputs) :
              k \in 1 .. Len(section'[h].inputs) /\ section'[h].inputs[k] = section[h].inputs[k]
  BY <1>5, <1>6, <1>7
<1>11. ASSUME NEW h \in Forks', NEW k \in 1 .. Len(section'[h].commands)
       PROVE  h \in Forks /\ (k \in 1 .. Len(section[h].commands) \/ (h = f /\ k = Len(section[f].commands) + 1))
  BY <1>1, <1>5, <1>7, <1>8
<1>12. ASSUME NEW h \in Forks', NEW k \in 1 .. Len(section'[h].inputs)
       PROVE  h \in Forks /\ (k \in 1 .. Len(section[h].inputs) \/ (h = f /\ k = Len(section[f].inputs) + 1))
  BY <1>1, <1>6, <1>7, <1>8
<1> QED
  BY <1>5, <1>6, <1>9, <1>10, <1>11, <1>12

(* What was old stays old. *)
LEMMA ForkKeepsBase ==
  ASSUME NEW f, NEW g, ForkAt(f, g), BuilderTypes, NamesKnown, NEW b \in 0 .. Size, Base(b)
  PROVE  Base(b)'
<1>1. /\ f \in Forks /\ f \in DOMAIN count /\ g \in Name /\ g # <<>> /\ Front(g) = f /\ Last(g) = count[f] + 1
      /\ data' = data /\ thunks' = thunks /\ handles' = handles /\ Forks' = Forks \cup {g}
      /\ Root \in Forks /\ Root = <<>> /\ b \in Nat /\ Size \in Nat /\ count \in [DOMAIN count -> Nat] /\ g # Root
  BY DataParts DEF ForkAt, BuilderTypes, Root, Size
<1>2. b <= Len(section'[Root].commands)
  <2> DEFINE m == Len(section[Root].commands)
             n == Len(section'[Root].commands)
  <2>1. m \in Nat /\ m <= n /\ b <= m
    BY <1>1, ForkParts DEF Base
  <2>2. n \in Nat
    <3>1. section'[Root] \in SectionType
      BY <1>1 DEF ForkAt
    <3> QED
      BY <3>1 DEF SectionType
  <2> HIDE DEF m, n
  <2> QED
    BY <1>1, <2>1, <2>2 DEF n
<1>3. ASSUME NEW k \in 1 .. b
      PROVE  section'[Root].commands[k] = Entry(NameAt(k)) /\ NameAt(k) \notin Thunks
  <2>1. section[Root].commands[k] = Entry(NameAt(k)) /\ NameAt(k) \notin Thunks /\ b <= Len(section[Root].commands)
          /\ Len(section[Root].commands) \in Nat
    BY <1>1, ForkParts DEF Base
  <2>2. k \in 1 .. Len(section[Root].commands)
    BY <1>1, <2>1
  <2> QED
    BY <1>1, <2>1, <2>2, ForkParts
<1>4. ASSUME NEW i \in 1 .. b, NEW y \in New(b) \cup {g}
      PROVE  NameAt(i)[1] < y[1]
  <2>1. \A z \in New(b) : NameAt(i)[1] < z[1]
    BY DEF Base
  <2>2. CASE y # g
    BY <2>1, <2>2
  <2>3. CASE y = g /\ f = Root
    <3>1. count[Root] \in Nat /\ Root \in DOMAIN count
      BY <1>1, <2>3
    <3>2. g = Append(Root, count[Root] + 1)
      <4>1. g = Append(Front(g), Last(g))
        BY <1>1, FrontName
      <4> QED
        BY <1>1, <2>3, <4>1
    <3>3. g[1] = count[Root] + 1
      BY <3>1, <3>2 DEF Root
    <3>4. NameAt(i)[1] <= count[Root] /\ NameAt(i)[1] \in Nat
      <4>0. i \in 1 .. Size
        BY <1>1
      <4>1. Made(NameAt(i)) /\ NameAt(i) \in Name /\ Len(NameAt(i)) \in Nat /\ 1 \in 1 .. Len(NameAt(i)) /\ NameAt(i)[1] \in Nat
        BY <4>0, NameAtParts
      <4>2. Inside(NameAt(i), Root) /\ Len(Root) + 1 = 1
        BY <4>1 DEF Root, Inside
      <4> QED
        BY <3>1, <4>1, <4>2 DEF Made
    <3> QED
      BY <2>3, <3>1, <3>3, <3>4
  <2>4. CASE y = g /\ f # Root
    <3>1. f \in New(b) /\ f \in Name
      BY <1>1, <2>4 DEF New, BuilderTypes
    <3>2. 1 \in 1 .. Len(f)
      BY <3>1, <2>4, EmptySeq, NameParts DEF Root, Name
    <3>3. g[1] = f[1]
      BY <1>1, <3>2, FrontName
    <3> QED
      BY <2>1, <2>4, <3>1, <3>3
  <2> QED
    BY <2>2, <2>3, <2>4
<1>5. New(b)' = New(b) \cup {g}
  <2>1. Size' = Size /\ \A j : NameAt(j)' = NameAt(j)
    BY <1>1 DEF Size, NameAt
  <2> QED
    BY <1>1, <2>1 DEF New, Root
<1>6. InOrder(b)'
  BY <1>1 DEF Base, InOrder
<1>7. (\A k \in 1 .. b : section[Root].commands[k] = Entry(NameAt(k)) /\ NameAt(k) \notin Thunks)'
  BY <1>1, <1>3 DEF NameAt, Thunks, Root
<1>8. (\A i \in 1 .. b : \A x \in New(b) : NameAt(i)[1] < x[1])'
  BY <1>1, <1>4, <1>5 DEF NameAt
<1>9. (\A t \in DOMAIN handles \cap Thunks :
       t \notin InData /\ ~thunks[t].void /\ thunks[t].result \notin Thunks =>
          thunks[t].resultIndex <= b)'
  BY <1>1 DEF Base, Thunks, InData
<1>10. (\A i \in b + 1 .. Size : User(NameAt(i)) /\ KindAt(i) \notin {"split", "merge"})'
  BY <1>1 DEF Base, Size, NameAt, KindAt
<1> QED
  BY <1>1, <1>2, <1>6, <1>7, <1>8, <1>9, <1>10 DEF Base, Root

(* The function's entry is the last of its caller's section. *)
LEMMA ForkKeepsPlaced ==
  ASSUME NEW f, NEW g, ForkAt(f, g), BuilderTypes, NamesKnown, NEW b \in 0 .. Size, Base(b), Placed(b)
  PROVE  Placed(b)'
<1>1. /\ f \in Forks /\ f \in DOMAIN count /\ g \in Name /\ g # <<>> /\ Front(g) = f /\ Last(g) = count[f] + 1
      /\ data' = data /\ thunks' = thunks /\ Forks' = Forks \cup {g} /\ g \notin Known /\ g \notin Forks
      /\ Root \in Forks /\ Root = <<>> /\ b \in Nat /\ Size \in Nat /\ count \in [DOMAIN count -> Nat] /\ g # Root
      /\ Forks \subseteq DOMAIN count
  BY DataParts DEF ForkAt, BuilderTypes, Root, Size
<1>2. Size' = Size /\ InData' = InData /\ \A j : NameAt(j)' = NameAt(j)
  BY <1>1 DEF Size, NameAt, InData
<1>3. b <= Len(section[Root].commands)
  BY DEF Base
<1> DEFINE L(h) == Len(section[h].commands)
<1>4. /\ \A h \in Forks : \A k \in 1 .. L(h) : k \in 1 .. Len(section'[h].commands) /\ section'[h].commands[k] = section[h].commands[k]
      /\ \A h \in Forks' : \A k \in 1 .. Len(section'[h].commands) : h \in Forks /\ (k \in 1 .. L(h) \/ (h = f /\ k = L(f) + 1))
      /\ L(f) + 1 \in 1 .. Len(section'[f].commands) /\ section'[f].commands[L(f) + 1] = ForkEntry(g)
      /\ \A h \in Forks : L(h) \in Nat
  BY ForkParts
<1>5. ASSUME NEW h \in Forks', NEW k \in 1 .. Len(section'[h].commands), ~(h = Root /\ k <= b)
      PROVE  EntryFits(h, b, section[h].commands[k])'
  <2>0. PICK e : e = section'[h].commands[k]
    OBVIOUS
  <2>1. CASE k \in 1 .. L(h)
    <3>1. EntryFits(h, b, section[h].commands[k]) /\ section[h].commands[k] = e
      BY <1>4, <1>5, <2>0, <2>1 DEF Placed
    <3> QED
      BY <1>1, <1>2, <2>0, <3>1 DEF EntryFits
  <2>2. CASE h = f /\ k = L(f) + 1
    <3>1. e = ForkEntry(g)
      BY <1>4, <2>0, <2>2
    <3>2. e.name = g /\ e.fork = TRUE
      BY <3>1 DEF ForkEntry
    <3> QED
      BY <1>1, <2>0, <2>2, <3>2 DEF EntryFits
  <2> QED
    BY <1>4, <2>1, <2>2
<1>6. ASSUME NEW j \in b + 1 .. Size
      PROVE  /\ NameAt(j) # <<>> /\ Front(NameAt(j)) \in Forks
             /\ \E k \in 1 .. Len(section'[Front(NameAt(j))].commands) : section'[Front(NameAt(j))].commands[k] = Entry(NameAt(j))
  <2>1. /\ NameAt(j) # <<>> /\ Front(NameAt(j)) \in Forks
        /\ \E k \in 1 .. L(Front(NameAt(j))) : section[Front(NameAt(j))].commands[k] = Entry(NameAt(j))
    BY DEF Placed
  <2> QED
    BY <1>4, <2>1
<1>7. ASSUME NEW h \in Forks' \ {Root}
      PROVE  /\ Front(h) \in Forks
             /\ \E k \in 1 .. Len(section'[Front(h)].commands) : section'[Front(h)].commands[k] = ForkEntry(h)
  <2>1. CASE h = g
    BY <1>1, <1>4, <2>1
  <2>2. CASE h \in Forks \ {Root}
    <3>1. /\ Front(h) \in Forks /\ \E k \in 1 .. L(Front(h)) : section[Front(h)].commands[k] = ForkEntry(h)
      BY <2>2 DEF Placed
    <3> QED
      BY <1>4, <3>1
  <2> QED
    BY <1>1, <2>1, <2>2
<1>8. ASSUME NEW h \in Forks', NEW k \in 1 .. Len(section'[h].commands), NEW l \in 1 .. Len(section'[h].commands),
             k < l, h = Root => k > b
      PROVE  LET d == section'[h].commands[k]
                 e == section'[h].commands[l]
             IN Last(d.name) < Last(e.name) \/ (d.name = e.name /\ d.fork /\ ~e.fork)
  <2>0. h \in Forks /\ L(h) \in Nat
    BY <1>4
  <2>1. CASE l \in 1 .. L(h)
    <3>1. k \in 1 .. L(h)
      BY <1>8, <2>0, <2>1
    <3> DEFINE d == section[h].commands[k]
               e == section[h].commands[l]
    <3>2. Last(d.name) < Last(e.name) \/ (d.name = e.name /\ d.fork /\ ~e.fork)
      BY <1>8, <2>0, <2>1, <3>1 DEF Placed
    <3>3. section'[h].commands[k] = d /\ section'[h].commands[l] = e
      BY <1>4, <2>0, <2>1, <3>1
    <3> QED
      BY <3>2, <3>3
  <2>2. CASE h = f /\ l = L(f) + 1
    <3>1. k \in 1 .. L(f) /\ ~(f = Root /\ k <= b)
      BY <1>1, <1>4, <1>8, <2>0, <2>2
    <3> DEFINE e == section[f].commands[k]
    <3>2. section'[h].commands[k] = e /\ section'[h].commands[l] = ForkEntry(g)
      BY <1>1, <1>4, <2>2, <3>1
    <3>3. EntryFits(f, b, e)
      BY <1>1, <3>1 DEF Placed
    <3>4. e.name \in Known
      <4>1. CASE e.fork
        BY <1>1, <3>3, <4>1 DEF EntryFits, Known
      <4>2. CASE ~e.fork
        <5>1. PICK j \in b + 1 .. Size : NameAt(j) = e.name
          BY <3>3, <4>2 DEF EntryFits
        <5>2. j \in 1 .. Size
          BY <1>1
        <5> QED
          BY <5>1, <5>2, NameAtParts
      <4> QED
        BY <4>1, <4>2
    <3>5. Last(e.name) <= count[f] /\ Last(e.name) \in Nat /\ count[f] \in Nat
      BY <1>1, <3>3, <3>4, MadeLast DEF EntryFits
    <3> HIDE DEF e
    <3> QED
      BY <1>1, <3>2, <3>5 DEF ForkEntry
  <2> QED
    BY <1>4, <2>1, <2>2
<1>10. InData' \cap (Forks' \ {Root}) \subseteq Thunks'
  BY <1>1, <1>2 DEF Placed, Thunks, Known
<1> HIDE DEF L
<1>12. (\A h \in Forks : \A k \in 1 .. Len(section[h].commands) : (h = Root /\ k <= b) \/ EntryFits(h, b, section[h].commands[k]))'
  BY <1>5 DEF Root
<1>13. (\A j \in b + 1 .. Size :
          /\ NameAt(j) # <<>> /\ Front(NameAt(j)) \in Forks
          /\ \E k \in 1 .. Len(section[Front(NameAt(j))].commands) :
               section[Front(NameAt(j))].commands[k] = Entry(NameAt(j)))'
  BY <1>1, <1>2, <1>6
<1>14. (\A h \in Forks \ {Root} :
          /\ Front(h) \in Forks
          /\ \E k \in 1 .. Len(section[Front(h)].commands) : section[Front(h)].commands[k] = ForkEntry(h))'
  BY <1>1, <1>7 DEF Root
<1>15. (\A h \in Forks : \A k, l \in 1 .. Len(section[h].commands) :
          k < l /\ (h = Root => k > b) =>
            LET d == section[h].commands[k]
                e == section[h].commands[l]
            IN Last(d.name) < Last(e.name) \/ (d.name = e.name /\ d.fork /\ ~e.fork))'
  BY <1>8 DEF Root
<1>16. (\A i, j \in b + 1 .. Size :
          i < j /\ Front(NameAt(i)) = Front(NameAt(j)) => Last(NameAt(i)) < Last(NameAt(j)))'
  BY <1>2 DEF Placed
<1>17. (InData \cap (Forks \ {Root}) \subseteq Thunks)'
  BY <1>10 DEF Root
<1> QED
  BY <1>12, <1>13, <1>14, <1>15, <1>16, <1>17 DEF Placed

(* So it is among the inputs. *)
LEMMA ForkKeepsInputs ==
  ASSUME NEW f, NEW g, ForkAt(f, g), BuilderTypes, InputsPlaced, \A h \in Forks \ {Root} : Front(h) \in Forks
  PROVE  InputsPlaced'
<1>1. /\ f \in Forks /\ g # <<>> /\ Front(g) = f /\ data' = data /\ Forks' = Forks \cup {g} /\ g \notin Forks
      /\ ForkEntry(g).fork = TRUE /\ ForkEntry(g).name = g
  BY DEF ForkAt, ForkEntry
<1> DEFINE L(h) == Len(section[h].inputs)
<1>4. /\ \A h \in Forks : \A k \in 1 .. L(h) : k \in 1 .. Len(section'[h].inputs) /\ section'[h].inputs[k] = section[h].inputs[k]
      /\ \A h \in Forks' : \A k \in 1 .. Len(section'[h].inputs) : h \in Forks /\ (k \in 1 .. L(h) \/ (h = f /\ k = L(f) + 1))
      /\ L(f) + 1 \in 1 .. Len(section'[f].inputs) /\ section'[f].inputs[L(f) + 1] = ForkEntry(g)
  BY ForkParts
<1>5. ASSUME NEW h \in Forks, NEW k \in 1 .. L(h)
      PROVE  InputEntryFits(h, section[h].inputs[k]) /\ section[h].inputs[k] # ForkEntry(g)
  <2>1. InputEntryFits(h, section[h].inputs[k])
    BY DEF InputsPlaced
  <2> QED
    BY <1>1, <2>1 DEF InputEntryFits
<1> HIDE DEF L
<1>6. ASSUME NEW h \in Forks', NEW k \in 1 .. Len(section'[h].inputs)
      PROVE  InputEntryFits(h, section[h].inputs[k])'
  <2>0. PICK e : e = section'[h].inputs[k]
    OBVIOUS
  <2>1. CASE k \in 1 .. L(h)
    <3>1. InputEntryFits(h, section[h].inputs[k]) /\ section[h].inputs[k] = e
      BY <1>4, <1>5, <2>0, <2>1
    <3> QED
      BY <1>1, <2>0, <3>1 DEF InputEntryFits
  <2>2. CASE h = f /\ k = L(f) + 1
    <3>1. e = ForkEntry(g)
      BY <1>4, <2>0, <2>2
    <3> QED
      BY <1>1, <2>0, <2>2, <3>1 DEF InputEntryFits
  <2> QED
    BY <1>4, <2>1, <2>2
<1>7. ASSUME NEW i \in 1 .. Len(data.inputs)
      PROVE  \E h \in Forks : \E k \in 1 .. Len(section'[h].inputs) : section'[h].inputs[k] = Entry(data.inputs[i].object)
  <2>1. PICK h \in Forks : \E k \in 1 .. L(h) : section[h].inputs[k] = Entry(data.inputs[i].object)
    BY DEF InputsPlaced, L
  <2>2. PICK k \in 1 .. L(h) : section[h].inputs[k] = Entry(data.inputs[i].object)
    BY <2>1
  <2> QED
    BY <1>4, <2>2
<1>8. ASSUME NEW h \in Forks' \ {Root}
      PROVE  \E k \in 1 .. Len(section'[Front(h)].inputs) : section'[Front(h)].inputs[k] = ForkEntry(h)
  <2>1. CASE h = g
    BY <1>1, <1>4, <2>1
  <2>2. CASE h \in Forks \ {Root}
    <3>1. \E k \in 1 .. L(Front(h)) : section[Front(h)].inputs[k] = ForkEntry(h)
      BY <2>2 DEF InputsPlaced, L
    <3>2. Front(h) \in Forks
      BY <2>2
    <3> QED
      BY <1>4, <3>1, <3>2
  <2> QED
    BY <1>1, <2>1, <2>2
<1>9. ASSUME NEW h \in Forks', NEW i \in Forks', NEW k \in 1 .. Len(section'[h].inputs), NEW l \in 1 .. Len(section'[i].inputs),
             section'[h].inputs[k] = section'[i].inputs[l]
      PROVE  h = i /\ k = l
  <2>0. h \in Forks /\ i \in Forks
    BY <1>4
  <2>2. CASE k \in 1 .. L(h) /\ l \in 1 .. L(i)
    <3>1. section[h].inputs[k] = section[i].inputs[l]
      BY <1>4, <1>9, <2>0, <2>2
    <3>2. \A u, v \in Forks : \A m \in 1 .. Len(section[u].inputs), n \in 1 .. Len(section[v].inputs) :
            section[u].inputs[m] = section[v].inputs[n] => u = v /\ m = n
      BY DEF InputsPlaced
    <3>3. k \in 1 .. Len(section[h].inputs) /\ l \in 1 .. Len(section[i].inputs)
      BY <2>2 DEF L
    <3> QED
      BY <2>0, <3>1, <3>2, <3>3
  <2>3. CASE k \in 1 .. L(h) /\ i = f /\ l = L(f) + 1
    BY <1>4, <1>5, <1>9, <2>0, <2>3
  <2>4. CASE h = f /\ k = L(f) + 1 /\ l \in 1 .. L(i)
    BY <1>4, <1>5, <1>9, <2>0, <2>4
  <2>5. CASE h = f /\ k = L(f) + 1 /\ i = f /\ l = L(f) + 1
    BY <2>5
  <2> QED
    BY <1>4, <2>2, <2>3, <2>4, <2>5
<1>10. (\A h \in Forks : \A k \in 1 .. Len(section[h].inputs) : InputEntryFits(h, section[h].inputs[k]))'
  BY <1>6
<1>11. (\A i \in 1 .. Len(data.inputs) : \E h \in Forks : \E k \in 1 .. Len(section[h].inputs) :
           section[h].inputs[k] = Entry(data.inputs[i].object))'
  BY <1>1, <1>7
<1>12. (\A h \in Forks \ {Root} : \E k \in 1 .. Len(section[Front(h)].inputs) : section[Front(h)].inputs[k] = ForkEntry(h))'
  BY <1>8 DEF Root
<1>13. (\A h, i \in Forks : \A k \in 1 .. Len(section[h].inputs), l \in 1 .. Len(section[i].inputs) :
         section[h].inputs[k] = section[i].inputs[l] => h = i /\ k = l)'
  BY <1>9
<1> QED
  BY <1>10, <1>11, <1>12, <1>13 DEF InputsPlaced

(* A function may use what its caller may. *)
LEMMA ForkKeepsAvailable ==
  ASSUME NEW f, NEW g, ForkAt(f, g), BuilderTypes, NamesKnown, AvailableLess
  PROVE  AvailableLess'
<1>1. /\ f \in Forks /\ f \in DOMAIN count /\ g \in Name /\ count \in [DOMAIN count -> Nat] /\ Forks \subseteq DOMAIN count /\ DOMAIN count \subseteq Name
      /\ data' = data /\ Forks' = Forks \cup {g} /\ g = NextName(f) /\ g \notin Forks /\ g \notin DOMAIN count
      /\ available'[g] = available[f] /\ (\A h \in Forks : available'[h] = available[h])
      /\ count'[g] = 0 /\ count'[f] = count[f] + 1 /\ \A h \in DOMAIN count \ {f} : count'[h] = count[h]
      /\ available \in [Forks -> SUBSET (1 .. Size)]
  BY DEF ForkAt, BuilderTypes
<1>2. \A i : NameAt(i)' = NameAt(i)
  BY <1>1 DEF NameAt
<1>3. ASSUME NEW h \in Forks, NEW i \in available[h]
      PROVE  NameAt(i) \in Name /\ Less(NameAt(i), Append(h, count[h] + 1)) /\ h \in Name /\ count[h] \in Nat
  <2>1. i \in 1 .. Size
    BY <1>1
  <2>2. NameAt(i) \in Name
    BY <2>1, NameAtParts
  <2> QED
    BY <1>1, <2>2 DEF AvailableLess, NextName
<1>4. ASSUME NEW h \in Forks', NEW i \in available'[h]
      PROVE  Less(NameAt(i), Append(h, count'[h] + 1))
  <2>1. CASE h \in Forks /\ h # f
    <3>1. available'[h] = available[h] /\ count'[h] = count[h]
      BY <1>1, <2>1
    <3> QED
      BY <1>3, <2>1, <3>1
  <2>2. CASE h = f
    <3>1. available'[f] = available[f] /\ count'[f] = count[f] + 1
      BY <1>1
    <3>2. NameAt(i) \in Name /\ Less(NameAt(i), Append(f, count[f] + 1)) /\ f \in Name /\ count[f] \in Nat
      BY <1>1, <1>3, <2>2, <3>1
    <3>3. count[f] + 1 \in Nat /\ count[f] + 1 + 1 \in Nat /\ count[f] + 1 < count[f] + 1 + 1
      BY <3>2
    <3>4. Less(Append(f, count[f] + 1), Append(f, count[f] + 1 + 1))
      BY <3>2, <3>3, LessAppend
    <3>5. Append(f, count[f] + 1) \in Name /\ Append(f, count[f] + 1 + 1) \in Name
      BY <3>2, <3>3, AppendedName
    <3> QED
      BY <2>2, <3>1, <3>2, <3>4, <3>5, LessTransitive
  <2>3. CASE h = g
    <3>1. i \in available[f] /\ count'[h] = 0
      BY <1>1, <2>3
    <3>2. NameAt(i) \in Name /\ Less(NameAt(i), g)
      BY <1>1, <1>3, <3>1 DEF NextName
    <3>3. Less(NameAt(i), Append(g, 1))
      BY <1>1, <3>2, LessAppend
    <3> QED
      BY <2>3, <3>1, <3>3
  <2> QED
    BY <1>1, <2>1, <2>2, <2>3
<1> QED
  BY <1>2, <1>4 DEF AvailableLess, NextName

(* It is the innermost. *)
LEMMA ForkKeepsRunning ==
  ASSUME NEW f, NEW g, ForkAt(f, g), BuilderTypes, NamesKnown, Running, Adds, running # <<>> => f = Last(running)
  PROVE  Running'
<1>1. /\ f \in Forks /\ f \in DOMAIN count /\ g \in Name /\ g # <<>> /\ Front(g) = f /\ Last(g) = count[f] + 1 /\ g \notin Known
      /\ data' = data /\ thunks' = thunks /\ Forks' = Forks \cup {g} /\ count'[f] = count[f] + 1
      /\ (\A h \in DOMAIN count \ {f} : count'[h] = count[h]) /\ running' = Append(running, g)
      /\ running \in Seq(Forks) /\ Forks \subseteq DOMAIN count /\ InData' = InData /\ Mentioned' = Mentioned /\ f \in Name
  BY DEF ForkAt, BuilderTypes, Mentioned, Thunks, Replaced, InData
<1> DEFINE n == Len(running)
<1>2. /\ n \in Nat /\ Len(running') = n + 1 /\ running'[n + 1] = g /\ (\A k \in 1 .. n : running'[k] = running[k])
      /\ \A k \in 1 .. n : running[k] \in Forks
  BY <1>1, AppendProperties, ElementOfSeq
<1>3. ASSUME NEW k \in 1 .. n
      PROVE  /\ running[k] # <<>> /\ Last(running[k]) = count'[Front(running[k])] /\ running[k] \notin InData \cup Mentioned
             /\ Len(running[k]) = Len(running[1]) + k - 1
             /\ k > 1 => Front(running[k]) = running[k - 1]
  <2>1. /\ running[k] # <<>> /\ Last(running[k]) = count[Front(running[k])] /\ running[k] \notin InData \cup Mentioned
        /\ Len(running[k]) = Len(running[1]) + k - 1 /\ (k > 1 => Front(running[k]) = running[k - 1])
    BY DEF Running
  <2>2. Front(running[k]) \in Forks /\ Front(running[k]) # f
    BY RunningFront
  <2> QED
    BY <1>1, <2>1, <2>2
<1>4. /\ g \notin InData \cup Mentioned /\ Len(g) = Len(f) + 1 /\ Last(g) = count'[Front(g)]
  BY <1>1, FrontName DEF Known
<1>5. n > 0 => f = running[n] /\ Len(f) = Len(running[1]) + n - 1 /\ Len(running[1]) \in Nat
  <2>1. ASSUME n > 0  PROVE running # <<>> /\ Last(running) = running[n] /\ n \in 1 .. n /\ 1 \in 1 .. n
    BY <1>1, <1>2, <2>1, FrontParts
  <2>2. ASSUME n > 0  PROVE running[1] \in Name
    BY <1>1, <1>2, <2>1, <2>2 DEF BuilderTypes
  <2> QED
    BY <1>3, <2>1, <2>2, NameParts
<1>6. Len(f) \in Nat
  BY <1>1, NameParts
<1> DEFINE r == running'
<1>7. /\ \A k \in 1 .. n + 1 : k \in 1 .. n \/ k = n + 1
      /\ \A k \in 1 .. n : (k > 1 => k - 1 \in 1 .. n) /\ 1 \in 1 .. n
      /\ n > 0 => n + 1 - 1 = n /\ n \in 1 .. n /\ 1 \in 1 .. n
  BY <1>2
<1> HIDE DEF n
<1>8. ASSUME NEW k \in 1 .. n + 1
      PROVE  /\ r[k] # <<>> /\ Last(r[k]) = count'[Front(r[k])] /\ r[k] \notin InData \cup Mentioned
             /\ Len(r[k]) = Len(r[1]) + k - 1 /\ (k > 1 => Front(r[k]) = r[k - 1])
  <2>1. CASE k \in 1 .. n
    <3>1. r[k] = running[k] /\ r[1] = running[1] /\ (k > 1 => r[k - 1] = running[k - 1])
      BY <1>2, <1>7, <2>1
    <3> HIDE DEF r
    <3> QED
      BY <1>3, <2>1, <3>1
  <2>2. CASE k = n + 1 /\ n > 0
    <3>1. r[k] = g /\ r[1] = running[1] /\ r[k - 1] = running[n]
      BY <1>2, <1>7, <2>2
    <3> HIDE DEF r
    <3>2. Len(r[k]) = Len(r[1]) + k - 1
      BY <1>2, <1>4, <1>5, <1>6, <2>2, <3>1
    <3> QED
      BY <1>1, <1>4, <1>5, <2>2, <3>1, <3>2
  <2>3. CASE k = n + 1 /\ n = 0
    <3>1. r[k] = g /\ k = 1 /\ r[1] = g
      BY <1>2, <2>3
    <3> HIDE DEF r
    <3>2. Len(r[k]) = Len(r[1]) + k - 1
      BY <1>4, <1>6, <3>1
    <3> QED
      BY <1>1, <1>4, <3>1, <3>2
  <2> QED
    BY <1>2, <1>7, <2>1, <2>2, <2>3
<1>9. (\A k \in 1 .. Len(running) :
         /\ running[k] # <<>> /\ Last(running[k]) = count[Front(running[k])]
         /\ running[k] \notin InData \cup Mentioned
         /\ Len(running[k]) = Len(running[1]) + k - 1
         /\ k > 1 => Front(running[k]) = running[k - 1])'
  BY <1>1, <1>2, <1>8
<1>10. (\A t \in Unresolved : t \in Forks)'
  BY <1>1 DEF Running, Unresolved
<1> QED
  BY <1>9, <1>10 DEF Running

(* add(function). *)
LEMMA AddFunctionKeeps ==
  ASSUME BuilderInv, NEW f \in Active, AddFunction(f)
  PROVE  BuilderInv'
<1>1. PICK g : g = NextName(f)
  OBVIOUS
<1>2. ForkAt(f, g)
  BY <1>1, FunctionForks
<1>3. /\ BuilderTypes /\ NamesKnown /\ Core /\ Gathering /\ (running # <<>> => f = Last(running))
      /\ phase \in {"idle", "waiting"}
  BY ActiveFork DEF BuilderInv, Core
<1>4. /\ UNCHANGED <<data, thunks, standsFor, refused, handles, late, phase>> /\ special' = special
      /\ Forks' = Forks \cup {g}
  BY <1>2 DEF ForkAt
<1>5. Core' /\ NamesKnown' /\ InputsPlaced' /\ AvailableLess' /\ Running'
  <2>1. \A h \in Forks \ {Root} : Front(h) \in Forks
    BY <1>3 DEF Gathering, Adds, Placed
  <2>2. Core'
    BY <1>3, <1>4, CoreKept
  <2> QED
    BY <1>2, <1>3, <2>1, <2>2, ForkKeepsNames, ForkKeepsInputs, ForkKeepsAvailable, ForkKeepsRunning DEF Gathering
<1>6. Adds'
  <2>1. PICK b \in 0 .. Size : Base(b) /\ Placed(b) /\ LessArgs(b)
    BY <1>3 DEF Gathering, Adds
  <2>2. Base(b)' /\ Placed(b)'
    BY <1>2, <1>3, <2>1, ForkKeepsBase, ForkKeepsPlaced
  <2>3. LessArgs(b)' /\ Size' = Size
    BY <1>4, <2>1 DEF LessArgs, NameAt, ArgsAt, Size
  <2> QED
    BY <2>2, <2>3 DEF Adds
<1>7. BuilderTypes'
  <2>1. /\ section' \in [Forks' -> SectionType] /\ available' \in [Forks' -> SUBSET (1 .. Size)]
        /\ count' \in [DOMAIN count \cup {g} -> Nat] /\ g \in Name /\ g \notin Forks /\ running' = Append(running, g)
    BY <1>2, <1>4 DEF ForkAt
  <2>2. IsFiniteSet(Forks')
    BY <1>3, <1>4, FS_AddElement DEF BuilderTypes
  <2>3. running' \in Seq(Forks')
    <3>1. running \in Seq(Forks')
      BY <1>3, <1>4, SeqRetype, ElementOfSeq DEF BuilderTypes
    <3> QED
      BY <1>4, <2>1, <3>1, AppendProperties
  <2>4. Size' = Size /\ Thunks' = Thunks /\ Replaced' = Replaced
    BY <1>4 DEF Size, Thunks, Replaced
  <2>5. DOMAIN count' = DOMAIN count \cup {g}
    BY <2>1
  <2> QED
    BY <1>3, <1>4, <2>1, <2>2, <2>3, <2>4, <2>5 DEF BuilderTypes, Root
<1> QED
  BY <1>3, <1>4, <1>5, <1>6, <1>7 DEF BuilderInv, Core, Gathering

(***************************************************************************)
(* An asynchronous function ends                                           *)
(***************************************************************************)

(* A step of the asynchronous functions: their placeholders stay where     *)
(* they are, and those that have none any more stay as they are.           *)
ThunkStep ==
  /\ UNCHANGED <<data, section, available, running, handles, phase, count, refused, late>>
  /\ running = <<>> /\ phase \in {"idle", "waiting"}
  /\ thunks' \in [Thunks -> ThunkType]
  /\ \A t \in Thunks :
       /\ thunks'[t].resultIndex = thunks[t].resultIndex /\ thunks'[t].void = thunks[t].void
       /\ t \notin InData => thunks'[t] = thunks[t]
       /\ thunks'[t].state = "running" => thunks[t].state = "running"
  /\ standsFor' \in [Replaced' -> Name] /\ Mentioned' \subseteq Mentioned
  /\ special' \in Nat /\ special <= special'

(* Only what it says of functions is to be shown. *)
LEMMA ThunkStepKeeps ==
  ASSUME BuilderInv, ThunkStep, Core'
  PROVE  BuilderInv'
<1>1. /\ BuilderTypes /\ NamesKnown /\ Gathering /\ UNCHANGED <<data, section, available, running, handles, phase, count, refused, late>>
      /\ running = <<>> /\ phase \in {"idle", "waiting"} /\ special \in Nat /\ special' \in Nat /\ special <= special'
      /\ Mentioned' \subseteq Mentioned
  BY DEF BuilderInv, ThunkStep, BuilderTypes
<1>2. thunks' \in [Thunks -> ThunkType] /\ Thunks' = Thunks /\ standsFor' \in [Replaced' -> Name]
  BY DEF ThunkStep, Thunks
<1>3. Size' = Size /\ InData' = InData /\ Forks' = Forks
  BY <1>1 DEF Size, InData, Forks
<1>4. BuilderTypes'
  BY <1>1, <1>2, <1>3 DEF BuilderTypes
<1>5. NamesKnown'
  <2>1. Known' \subseteq Known
    BY <1>1, <1>3 DEF Known
  <2>2. ASSUME NEW x \in Known
        PROVE  x \in Name /\ x # <<>> /\ Made(x)' /\ (x[1] = 0 => Len(x) > 1 /\ x[2] <= special')
    <3>1. x \in Name /\ x # <<>> /\ Made(x) /\ (x[1] = 0 => Len(x) > 1 /\ x[2] <= special)
      BY <1>1 DEF NamesKnown
    <3>2. Made(x)'
      BY <1>1, <3>1 DEF Made
    <3>3. x[1] = 0 => x[2] <= special'
      <4>1. ASSUME x[1] = 0  PROVE x[2] \in Nat
        <5>1. Len(x) \in Nat /\ \A j \in 1 .. Len(x) : x[j] \in Nat
          BY <3>1, NameParts
        <5>2. 2 \in 1 .. Len(x)
          BY <3>1, <4>1, <5>1
        <5> QED
          BY <5>1, <5>2
      <4> QED
        BY <1>1, <3>1, <4>1
    <3> QED
      BY <3>1, <3>2, <3>3
  <2>3. (\A x \in Known : x \in Name /\ x # <<>> /\ Made(x) /\ (x[1] = 0 => Len(x) > 1 /\ x[2] <= special))'
    BY <2>1, <2>2
  <2>4. (\A x \in Mentioned \cup (DOMAIN count \ {Root}) : Last(x) # 0)'
    BY <1>1 DEF NamesKnown, Root
  <2>5. (\A f \in DOMAIN count : \A j \in 1 .. Len(f) : f[j] > 0)'
    BY <1>1 DEF NamesKnown
  <2> QED
    BY <2>3, <2>4, <2>5 DEF NamesKnown
<1>6. Adds'
  <2>1. PICK b \in 0 .. Size : Base(b) /\ Placed(b) /\ LessArgs(b)
    BY <1>1 DEF Gathering, Adds
  <2>2. \A j : NameAt(j)' = NameAt(j) /\ KindAt(j)' = KindAt(j) /\ ArgsAt(j)' = ArgsAt(j)
    BY <1>1 DEF NameAt, KindAt, ArgsAt
  <2>3. Base(b)'
    <3>1. (\A k \in 1 .. b : section[Root].commands[k] = Entry(NameAt(k)) /\ NameAt(k) \notin Thunks)'
      BY <1>1, <1>2, <2>1, <2>2 DEF Base, Root
    <3>2. (\A i \in 1 .. b : \A x \in New(b) : NameAt(i)[1] < x[1])'
      BY <1>3, <2>1, <2>2 DEF Base, New, Root
    <3>3. (\A t \in DOMAIN handles \cap Thunks :
             t \notin InData /\ ~thunks[t].void /\ thunks[t].result \notin Thunks =>
               thunks[t].resultIndex <= b)'
      BY <1>1, <1>2, <1>3, <2>1 DEF Base, ThunkStep
    <3>4. InOrder(b)'
      BY <1>1, <2>1 DEF Base, InOrder
    <3>5. (\A i \in b + 1 .. Size : User(NameAt(i)) /\ KindAt(i) \notin {"split", "merge"})'
      BY <1>3, <2>1, <2>2 DEF Base
    <3> QED
      BY <1>1, <2>1, <3>1, <3>2, <3>3, <3>4, <3>5 DEF Base, Root
  <2>4. Placed(b)'
    <3>1. \A f, e : EntryFits(f, b, e)' <=> EntryFits(f, b, e)
      BY <1>3, <2>2 DEF EntryFits
    <3> QED
      BY <1>1, <1>2, <1>3, <2>1, <2>2, <3>1 DEF Placed, Root
  <2>5. LessArgs(b)'
    BY <1>1, <1>3, <2>1, <2>2 DEF LessArgs
  <2> QED
    BY <1>3, <2>3, <2>4, <2>5 DEF Adds
<1>7. InputsPlaced' /\ AvailableLess'
  BY <1>1, InputsKept, AvailableKept DEF Gathering
<1>8. Running'
  <2>1. (\A t \in Unresolved : t \in Forks)'
    BY <1>1, <1>2, <1>3 DEF Running, Unresolved, ThunkStep, Thunks, Gathering
  <2>2. Len(running') = 0
    BY <1>1
  <2> QED
    BY <2>1, <2>2 DEF Running
<1> QED
  BY <1>1, <1>4, <1>5, <1>6, <1>7, <1>8 DEF BuilderInv, Core, Gathering

(* A placeholder in the data is asked by nobody for a result that is       *)
(* second hand.                                                            *)
LEMMA ThunkStepReferable ==
  ASSUME BuilderInv, ThunkStep
  PROVE  Referable' = Referable /\ \A x : Handle(x)' = Handle(x)
<1>1. handles' = handles /\ data' = data /\ Thunks' = Thunks /\ DOMAIN thunks = Thunks /\ DOMAIN thunks' = Thunks
  BY DEF ThunkStep, Thunks
<1>2. ASSUME NEW x
      PROVE  SecondHand(x)' <=> SecondHand(x)
  <2>1. x \in Thunks => thunks'[x].result = thunks[x].result \/ x \in InData
    BY DEF ThunkStep
  <2>2. x \in InData => IndexOf(Names(data.commands), x) # 0
    BY IndexOfNames, DataParts DEF BuilderInv, BuilderTypes, InData
  <2> QED
    BY <1>1, <2>1, <2>2 DEF SecondHand
<1>3. ASSUME NEW x
      PROVE  x \in Usable' <=> x \in Usable
  BY <1>1 DEF Usable, ThunkStep
<1>4. \A x : Handle(x)' = Handle(x)
  BY <1>1 DEF Handle, HandleIn, ThunkStep
<1>5. \A x : x \in Referable' <=> x \in Referable
  BY <1>2, <1>3 DEF Referable
<1> QED
  BY <1>4, <1>5

(* An asynchronous function rejects. *)
LEMMA RejectKeeps ==
  ASSUME BuilderInv, NEW t \in Unresolved, Reject(t)
  PROVE  BuilderInv'
<1>1. /\ BuilderTypes /\ NamesKnown /\ Core /\ t \in Thunks /\ thunks[t].state = "running"
      /\ thunks \in [Thunks -> ThunkType] /\ running = <<>> /\ thunks' = [thunks EXCEPT ![t].state = "rejected"]
      /\ UNCHANGED <<data, section, available, running, handles, phase, count, refused, late>> /\ standsFor' = standsFor
  BY DEF BuilderInv, Core, Unresolved, Thunks, Reject, history, BuilderTypes
<1>2. special' \in Nat /\ special <= special'
  BY <1>1, SpecialCounts DEF Reject
<1>3. phase \in {"idle", "waiting"}
  BY <1>1 DEF BuilderInv, Settled, BuilderTypes
<1>4. /\ thunks' \in [Thunks -> ThunkType] /\ thunks'[t].state = "rejected"
      /\ thunks'[t].result = thunks[t].result /\ thunks'[t].resultIndex = thunks[t].resultIndex /\ thunks'[t].void = thunks[t].void
      /\ \A s \in Thunks \ {t} : thunks'[s] = thunks[s]
  BY <1>1 DEF ThunkType
<1>5. t \in InData /\ Root \notin InData \cup Mentioned
  BY <1>1 DEF Core, ThunksStand, NamesKnown, Known, Root
<1>6. Thunks' = Thunks /\ Mentioned' = Mentioned /\ Replaced' = Replaced
  <2>1. Thunks' = Thunks /\ Replaced' = Replaced
    BY <1>1, <1>4 DEF Thunks, Replaced
  <2>2. \A x \in Thunks : thunks'[x].result = thunks[x].result
    BY <1>4
  <2> QED
    BY <1>1, <2>1, <2>2 DEF Mentioned
<1>7. ThunkStep
  BY <1>1, <1>2, <1>3, <1>4, <1>5, <1>6 DEF ThunkStep, BuilderTypes
<1>8. ThunksGrow(Root)
  <2>1. Root \notin Thunks
    BY <1>5 DEF Mentioned
  <2> QED
    BY <1>1, <1>4, <1>6, <2>1 DEF ThunksGrow
<1>9. Grown(Root)
  <2>1. Size' = Size /\ Size \in Nat
    BY <1>1, DataParts DEF Size, BuilderTypes
  <2>2. Root \notin DOMAIN handles
    BY <1>5 DEF Mentioned
  <2>3. InputsApart' /\ Len(data.inputs) <= Len(data'.inputs)
    BY <1>1, DataParts DEF Core, InputsApart, BuilderTypes
  <2>4. Size' # Size + 1
    BY <2>1
  <2> QED
    BY <1>1, <1>5, <1>8, <2>1, <2>2, <2>3, <2>4 DEF Grown
<1>10. Core'
  <2>1. HandlesPoint' /\ ThunksStand'
    BY <1>1, <1>9, GrownKeepsHandles DEF BuilderTypes
  <2>2. (Twins /\ KindsNamed /\ ReplacedGone /\ InputsApart /\ ArgsFit)'
    BY <1>1, <1>6 DEF Core, Twins, KindsNamed, ReplacedGone, InputsApart, ArgsFit
  <2> QED
    BY <2>1, <2>2 DEF Core
<1> QED
  BY <1>7, <1>10, ThunkStepKeeps

(* An asynchronous function t resolves with the result of id.              *)
Resolves(t, id, m) ==
  /\ t \in Thunks /\ thunks[t].state = "running" /\ ~thunks[t].void /\ t \in InData /\ t \notin Replaced /\ thunks[t].result = t
  /\ id \in Referable /\ Handle(id) \in available[t] /\ t \in Forks
  /\ m = Meaning(id)
  /\ standsFor' \in [Replaced \cup {t} -> Name]
  /\ standsFor'[t] = m /\ \A x \in Replaced : standsFor'[x] = IF standsFor[x] = t THEN m ELSE standsFor[x]
  /\ thunks'[t].state = "resolved" /\ thunks'[t].result = id /\ ~thunks'[t].void
  /\ \A s \in Thunks \ {t} : thunks'[s] = thunks[s]

(* What it returned was there before its placeholder. *)
LEMMA ResolvesFits ==
  ASSUME BuilderInv, NEW t, NEW id, NEW m, Resolves(t, id, m), Gathering
  PROVE  /\ id # t /\ m # t /\ m \notin Replaced /\ Post(NameAt(Handle(id)), t)
         /\ m \in Thunks => Post(m, t) /\ m \in InData
         /\ t \in Name /\ id \in Name /\ m \in Name
<1>1. /\ BuilderTypes /\ NamesKnown /\ HandlesPoint /\ ThunksStand /\ ReplacedGone /\ AvailableLess
      /\ t \in Thunks /\ t \in InData /\ t \notin Replaced /\ t \in Forks /\ id \in Referable /\ m = Meaning(id)
      /\ Handle(id) \in available[t] /\ t \in DOMAIN count /\ count[t] \in Nat
  BY DEF BuilderInv, Gathering, Resolves, BuilderTypes
<1> DEFINE h == Handle(id)
<1>2. Points(h, id) /\ h \in 1 .. Size /\ id \in DOMAIN handles
  BY <1>1, HandleFits
<1>3. NameAt(h) \in Name /\ NameAt(h) \in InData /\ t \in Name /\ id \in Name /\ id \in Mentioned
  BY <1>1, <1>2, NameAtParts DEF BuilderTypes, NamesKnown, Known, Mentioned
<1>4. Post(NameAt(h), t)
  <2>1. Less(NameAt(h), Append(t, count[t] + 1))
    BY <1>1 DEF AvailableLess, NextName
  <2>2. Less(NameAt(h), t) \/ Inside(NameAt(h), t)
    BY <1>1, <1>3, <2>1, LessAppend
  <2> QED
    BY <2>2 DEF Post
<1>5. ~Post(t, t) /\ (Post(NameAt(h), t) => ~Post(t, NameAt(h)) /\ NameAt(h) # t)
  BY <1>3, PostOrder
<1>6. NameAt(h) = IF NameAt(h) \in Thunks THEN id ELSE Meaning(id)
  BY <1>2 DEF Points, PointsIn, MeaningIn, Meaning, NameAt, Replaced
<1> HIDE DEF h
<1>7. id # t
  BY <1>1, <1>4, <1>5, <1>6 DEF Meaning, Replaced
<1>8. m \notin Replaced
  BY <1>1 DEF Meaning, ReplacedGone, GoneIn, Replaced
<1>9. /\ m \in Thunks => Post(m, t) /\ m \in InData
      /\ m # t
  <2>1. CASE NameAt(h) \notin Thunks
    BY <1>1, <1>4, <1>5, <1>6, <2>1
  <2>2. CASE NameAt(h) \in Thunks /\ id \notin Replaced
    BY <1>1, <1>3, <1>4, <1>6, <1>7, <2>2 DEF Meaning, Replaced
  <2>3. CASE NameAt(h) \in Thunks /\ id \in Replaced
    <3>1. NameAt(h) = id /\ id \in Thunks /\ id \in InData
      BY <1>3, <1>6, <2>3
    <3>2. thunks[id].state = "resolved" /\ ~thunks[id].void
      BY <1>1, <2>3, <3>1 DEF ThunksStand
    <3>3. m \in Thunks => Post(m, id) /\ m \in InData
      BY <1>1, <3>1, <3>2 DEF ThunksStand
    <3>4. m \in Thunks => m \in Name
      BY <3>3, <1>1 DEF NamesKnown, Known
    <3>5. m \in Thunks => Post(m, t)
      BY <1>3, <1>4, <3>1, <3>3, <3>4, PostOrder
    <3> QED
      BY <1>1, <1>5, <3>3, <3>5
  <2> QED
    BY <2>1, <2>2, <2>3
<1>10. m \in Name
  BY <1>1, <1>3 DEF Meaning, BuilderTypes, Replaced
<1> QED
  BY <1>3, <1>4, <1>7, <1>8, <1>9, <1>10 DEF h

(* Who meant t means m. *)
LEMMA ResolvesMeaning ==
  ASSUME NEW t, NEW id, NEW m, Resolves(t, id, m)
  PROVE  /\ \A x : Meaning(x)' = IF Meaning(x) = t THEN m ELSE Meaning(x)
         /\ Replaced' = Replaced \cup {t}
<1>1. /\ DOMAIN standsFor' = Replaced \cup {t} /\ DOMAIN standsFor = Replaced /\ t \notin Replaced
      /\ standsFor'[t] = m /\ \A x \in Replaced : standsFor'[x] = IF standsFor[x] = t THEN m ELSE standsFor[x]
  BY DEF Resolves, Replaced
<1> QED
  BY <1>1 DEF Meaning, Replaced

(* No reference changes what it means, *)
LEMMA ResolvesKeepsCommands ==
  ASSUME BuilderInv, ThunkStep, NEW t, NEW id, NEW m, Resolves(t, id, m), Gathering
  PROVE  /\ \A i \in 1 .. Size : \A x : Points(i, x) => Points(i, x)'
         /\ (Twins /\ KindsNamed /\ ReplacedGone /\ InputsApart /\ ArgsFit)'
<1>1. /\ BuilderTypes /\ KindsNamed /\ ReplacedGone /\ InputsApart /\ ArgsFit /\ Twins /\ t \in Thunks
      /\ data' = data /\ late' = late /\ refused' = refused /\ Thunks' = Thunks
  BY DEF BuilderInv, ThunkStep, Thunks, Resolves
<1>2. /\ m # t /\ m \notin Replaced /\ Replaced' = Replaced \cup {t}
      /\ \A x : MeaningIn(standsFor', x) = IF MeaningIn(standsFor, x) = t THEN m ELSE MeaningIn(standsFor, x)
  <2>1. \A x : Meaning(x)' = IF Meaning(x) = t THEN m ELSE Meaning(x)
    BY ResolvesMeaning
  <2> QED
    BY <2>1, ResolvesFits, ResolvesMeaning DEF Meaning, MeaningIn
<1>3. ASSUME NEW i, NEW x, Points(i, x)
      PROVE  Points(i, x)'
  <2>1. /\ i \in 1 .. Len(data.commands)
        /\ data.commands[i].id = IF data.commands[i].id \in Thunks THEN x ELSE MeaningIn(standsFor, x)
    BY <1>3 DEF Points, PointsIn
  <2>2. data.commands[i].id = IF data.commands[i].id \in Thunks THEN x ELSE MeaningIn(standsFor', x)
    BY <1>1, <1>2, <2>1
  <2> QED
    BY <1>1, <2>1, <2>2 DEF Points, PointsIn
<1>4. Twins' /\ KindsNamed' /\ InputsApart'
  BY <1>1 DEF Twins, KindsNamed, InputsApart
<1>5. ReplacedGone'
  <2>1. /\ \A x \in NamesIn(data.commands) \cap Replaced : x \in Thunks
        /\ \A x \in Replaced : standsFor[x] \notin Replaced
    BY <1>1 DEF ReplacedGone, GoneIn, Replaced
  <2>2. \A x \in NamesIn(data.commands) \cap Replaced' : x \in Thunks
    BY <1>1, <1>2, <2>1
  <2>3. \A x \in Replaced' : standsFor'[x] \notin Replaced'
    BY <1>2, <2>1 DEF Resolves
  <2> QED
    BY <1>1, <2>2, <2>3 DEF ReplacedGone, GoneIn, Replaced
<1>6. ASSUME NEW i \in 1 .. Size, NEW arg \in ArgType, RefersToResult(arg), ResultFits(data.commands, Thunks, standsFor, i, arg)
      PROVE  ResultFits(data.commands, Thunks, standsFor', i, arg)
  <2>1. CASE PointsIn(data.commands, Thunks, standsFor, arg.at, arg.of)
    <3>1. PointsIn(data.commands, Thunks, standsFor', arg.at, arg.of)
      BY <1>1, <1>3, <2>1 DEF Points
    <3> QED
      BY <1>6, <3>1 DEF ResultFits
  <2>2. CASE /\ arg.at \in 1 .. Len(data.commands) /\ arg.kind = "NestedResult"
             /\ data.commands[arg.at].id = Append(MeaningIn(standsFor, arg.of), 0)
    <3>1. CASE MeaningIn(standsFor, arg.of) # t
      BY <1>2, <1>6, <2>2, <3>1 DEF ResultFits
    <3>2. CASE MeaningIn(standsFor, arg.of) = t
      <4>1. data.commands[arg.at].id = Append(t, 0) /\ t \in Name
        BY <2>2, <3>2, ResolvesFits
      <4>2. Last(data.commands[arg.at].id) = 0 /\ Front(data.commands[arg.at].id) = t
        BY <4>1, AppendedName
      <4>3. PICK j \in 1 .. Len(data.commands) : t = data.commands[j].id /\ data.commands[j].kind = "split"
        BY <1>1, <2>2, <4>2 DEF KindsNamed, KindsIn
      <4>4. data.commands[j].kind = "thunk"
        BY <1>1, <4>3 DEF KindsNamed, KindsIn
      <4> QED
        BY <4>3, <4>4
    <3> QED
      BY <3>1, <3>2
  <2> QED
    BY <1>6, <2>1, <2>2 DEF ResultFits
<1>7. ArgsFit'
  <2> SUFFICES ASSUME NEW i \in 1 .. Size, NEW k \in 1 .. Len(ArgsAt(i)), NEW arg, arg = ArgsAt(i)[k]
               PROVE  /\ arg.kind = "Input" => ObjectFits(data.inputs, arg)
                      /\ RefersToResult(arg) =>
                           data.commands[i].id \in refused \/ ResultFits(data.commands, Thunks, standsFor', i, arg)
    BY <1>1 DEF ArgsFit, ArgsFitIn, Size, ArgsAt
  <2>1. arg \in ArgType
    BY <1>1, CommandParts, DataParts DEF BuilderTypes, ArgsAt, Size
  <2>2. /\ arg.kind = "Input" => ObjectFits(data.inputs, arg)
        /\ RefersToResult(arg) =>
             data.commands[i].id \in refused \/ ResultFits(data.commands, Thunks, standsFor, i, arg)
    BY <1>1 DEF ArgsFit, ArgsFitIn, Size, ArgsAt
  <2> QED
    BY <1>6, <2>1, <2>2
<1> QED
  BY <1>3, <1>4, <1>5, <1>7

(* and no handle. *)
LEMMA ResolvesKeepsHandles ==
  ASSUME BuilderInv, ThunkStep, NEW t, NEW id, NEW m, Resolves(t, id, m), Gathering
  PROVE  HandlesPoint' /\ ThunksStand'
<1>1. /\ BuilderTypes /\ NamesKnown /\ HandlesPoint /\ ThunksStand /\ t \in Thunks /\ t \in InData /\ id \in Referable /\ m = Meaning(id)
      /\ data' = data /\ handles' = handles /\ Thunks' = Thunks /\ Size' = Size /\ InData' = InData
      /\ \A i : NameAt(i)' = NameAt(i) /\ ArgsAt(i)' = ArgsAt(i)
  BY DEF BuilderInv, ThunkStep, Thunks, Resolves, Size, InData, NameAt, ArgsAt
<1>2. /\ thunks'[t].state = "resolved" /\ thunks'[t].result = id /\ ~thunks'[t].void
      /\ \A s \in Thunks \ {t} : thunks'[s] = thunks[s]
      /\ \A s \in Thunks : thunks'[s].resultIndex = thunks[s].resultIndex
  BY DEF Resolves, ThunkStep
<1>3. Replaced' = Replaced \cup {t} /\ \A x : Meaning(x)' = IF Meaning(x) = t THEN m ELSE Meaning(x)
  BY ResolvesMeaning
<1>4. \A i \in 1 .. Size : \A x : Points(i, x) => Points(i, x)'
  BY ResolvesKeepsCommands
<1>5. /\ id # t /\ m # t /\ m \notin Replaced /\ Post(NameAt(Handle(id)), t) /\ (m \in Thunks => Post(m, t) /\ m \in InData)
      /\ t \in Name /\ id \in Name /\ m \in Name
  BY ResolvesFits
<1>6. Referable' = Referable /\ \A x : Handle(x)' = Handle(x)
  BY ThunkStepReferable
<1>7. HandlesPoint'
  <2>1. (\A x \in DOMAIN handles \ Thunks :
           x \notin Replaced /\ handles[x] \in 1 .. Size /\ NameAt(handles[x]) = x)'
    BY <1>1, <1>3 DEF HandlesPoint
  <2>2. ASSUME NEW s \in DOMAIN handles \cap Thunks, s \notin InData, ~thunks'[s].void, thunks'[s].result \notin Thunks
        PROVE  Points(thunks[s].resultIndex, s)'
    <3>1. thunks'[s] = thunks[s]
      BY <1>1, <1>2, <2>2
    <3>2. Points(thunks[s].resultIndex, s)
      BY <1>1, <2>2, <3>1 DEF HandlesPoint
    <3>3. PICK i : i = thunks[s].resultIndex
      OBVIOUS
    <3>4. Points(i, s) /\ i \in 1 .. Size
      BY <3>2, <3>3 DEF Points, PointsIn, Size
    <3>5. Points(i, s)'
      BY <1>4, <3>4
    <3> QED
      BY <3>1, <3>3, <3>5 DEF Points
  <2>3. (\A s \in DOMAIN handles \cap Thunks :
           s \notin InData /\ ~thunks[s].void /\ thunks[s].result \notin Thunks => Points(thunks[s].resultIndex, s))'
    BY <1>1, <2>2
  <2>4. (\A i \in 1 .. Size : NameAt(i) \in Thunks =>
           /\ thunks[NameAt(i)].resultIndex = i /\ NameAt(i) \in DOMAIN handles /\ ArgsAt(i) = <<>>)'
    BY <1>1, <1>2 DEF HandlesPoint
  <2> QED
    BY <2>1, <2>3, <2>4 DEF HandlesPoint
<1>8. ASSUME NEW s \in Thunks
      PROVE  /\ thunks'[s].state # "resolved" \/ thunks'[s].void => thunks'[s].result = s /\ s \notin Replaced'
             /\ thunks'[s].state = "resolved" /\ ~thunks'[s].void => thunks'[s].result # s
             /\ thunks'[s].state = "running" => s \in InData
             /\ s \notin InData => thunks'[s].state = "resolved"
  BY <1>1, <1>2, <1>3, <1>5 DEF ThunksStand
<1>9. ASSUME NEW s \in Thunks, s \in InData, thunks'[s].state = "resolved", ~thunks'[s].void
      PROVE  ReturnFits(s)' /\ (Meaning(s)' \in Thunks => Post(Meaning(s)', s) /\ Meaning(s)' \in InData)
  <2>1. CASE s = t
    <3>1. Meaning(t)' = m /\ Meaning(id)' = m /\ t \in Replaced'
      <4>1. Meaning(t) = t
        BY DEF Resolves, Meaning, Replaced
      <4> QED
        BY <1>1, <1>3, <1>5, <4>1
    <3>2. ReturnFits(t)'
      <4>1. thunks'[t].result = id /\ id \in Referable' /\ id # t /\ Handle(id)' = Handle(id)
        BY <1>1, <1>2, <1>5, <1>6
      <4>2. Handle(thunks[t].result)' = Handle(id)' /\ Meaning(thunks[t].result)' = Meaning(id)'
        BY <4>1 DEF Handle, HandleIn, Meaning
      <4>3. PICK h : h = Handle(id)
        OBVIOUS
      <4>4. NameAt(Handle(thunks[t].result))' = NameAt(h)
        BY <1>1, <4>1, <4>2, <4>3 DEF NameAt
      <4> QED
        BY <1>5, <3>1, <4>1, <4>2, <4>3, <4>4 DEF ReturnFits
    <3> QED
      BY <1>5, <2>1, <3>1, <3>2
  <2>2. CASE s # t
    <3>0. PICK r : r = thunks[s].result
      OBVIOUS
    <3>1. thunks'[s] = thunks[s] /\ thunks'[s].result = r
      BY <1>2, <2>2, <3>0
    <3>2. /\ r \in Referable /\ r # s /\ Post(NameAt(Handle(r)), s) /\ s \in Replaced /\ Meaning(s) = Meaning(r)
          /\ Meaning(s) \in Thunks => Post(Meaning(s), s) /\ Meaning(s) \in InData
      BY <1>1, <1>9, <3>0, <3>1 DEF ThunksStand, ReturnFits
    <3>3. Meaning(s)' = Meaning(r)' /\ s \in Replaced'
      BY <1>3, <3>2
    <3>4. ReturnFits(s)'
      <4>2. Handle(thunks[s].result)' = Handle(r)' /\ Meaning(thunks[s].result)' = Meaning(r)'
        BY <3>1 DEF Handle, HandleIn, Meaning
      <4>3. PICK h : h = Handle(r)
        OBVIOUS
      <4>4. NameAt(Handle(thunks[s].result))' = NameAt(h)
        BY <1>1, <1>6, <4>2, <4>3 DEF NameAt
      <4> QED
        BY <1>6, <3>1, <3>2, <3>3, <4>2, <4>3, <4>4 DEF ReturnFits
    <3>5. Meaning(s)' \in Thunks => Post(Meaning(s)', s) /\ Meaning(s)' \in InData
      <4>1. CASE Meaning(s) # t
        BY <1>3, <3>2, <4>1
      <4>2. CASE Meaning(s) = t
        <5>1. Meaning(s)' = m /\ Post(t, s) /\ s \in Name
          BY <1>1, <1>3, <1>9, <3>2, <4>2 DEF NamesKnown, Known
        <5> QED
          BY <1>5, <5>1, PostOrder
      <4> QED
        BY <4>1, <4>2
    <3> QED
      BY <3>4, <3>5
  <2> QED
    BY <2>1, <2>2
<1>10. ThunksStand'
  BY <1>1, <1>8, <1>9 DEF ThunksStand
<1> QED
  BY <1>7, <1>10

(* An asynchronous function resolves. *)
LEMMA ResolveKeeps ==
  ASSUME BuilderInv, NEW t \in Unresolved, NEW id \in Referable, Resolve(t, id), astray' = {}
  PROVE  BuilderInv'
<1>1. /\ BuilderTypes /\ NamesKnown /\ Core /\ t \in Thunks /\ thunks[t].state = "running" /\ t \in InData
      /\ thunks \in [Thunks -> ThunkType] /\ thunks[t] \in ThunkType /\ running = <<>>
      /\ UNCHANGED <<data, section, available, running, handles, phase, count, refused, late>>
      /\ special \in Nat /\ ThunksStand /\ HandlesPoint /\ ReplacedGone
      /\ thunks[t].result = t /\ t \notin Replaced /\ standsFor \in [Replaced -> Name]
  BY DEF BuilderInv, Core, Unresolved, Thunks, Resolve, BuilderTypes, ThunksStand
<1>2. phase \in {"idle", "waiting"} /\ Gathering /\ t \in Forks
  BY <1>1 DEF BuilderInv, Settled, BuilderTypes, Gathering, Running
<1>2a. special' = special
  <2>1. ~GoesAstray(t)
    BY DEF GoesAstray
  <2> QED
    BY <2>1 DEF Resolve
<1>3. CASE thunks[t].void
  <2>1. thunks' = [thunks EXCEPT ![t].state = "resolved"] /\ standsFor' = standsFor
    BY <1>3 DEF Resolve
  <2>2. /\ thunks' \in [Thunks -> ThunkType] /\ thunks'[t].state = "resolved"
        /\ thunks'[t].result = t /\ thunks'[t].resultIndex = thunks[t].resultIndex /\ thunks'[t].void = thunks[t].void
        /\ \A s \in Thunks \ {t} : thunks'[s] = thunks[s]
    BY <1>1, <2>1 DEF ThunkType
  <2>3. Thunks' = Thunks /\ Replaced' = Replaced /\ Mentioned' = Mentioned
    <3>1. Thunks' = Thunks /\ Replaced' = Replaced
      BY <1>1, <2>1, <2>2 DEF Thunks, Replaced
    <3>2. \A x \in Thunks : thunks'[x].result = thunks[x].result
      BY <1>1, <2>2
    <3> QED
      BY <1>1, <2>1, <3>1, <3>2 DEF Mentioned
  <2>4. ThunkStep
    BY <1>1, <1>2, <1>2a, <2>1, <2>2, <2>3 DEF ThunkStep
  <2>5. (Twins /\ KindsNamed /\ ReplacedGone /\ InputsApart /\ ArgsFit)'
    BY <1>1, <2>1, <2>3 DEF Core, Twins, KindsNamed, ReplacedGone, InputsApart, ArgsFit
  <2>6. /\ \A i : NameAt(i)' = NameAt(i) /\ ArgsAt(i)' = ArgsAt(i)
        /\ \A i, x : Points(i, x)' <=> Points(i, x)
        /\ Size' = Size /\ InData' = InData /\ (\A x : Meaning(x)' = Meaning(x))
    BY <1>1, <2>1, <2>3 DEF NameAt, ArgsAt, Points, Size, InData, Meaning
  <2>7. HandlesPoint'
    <3>1. ASSUME NEW s \in DOMAIN handles \cap Thunks, s \notin InData, ~thunks'[s].void, thunks'[s].result \notin Thunks
          PROVE  Points(thunks[s].resultIndex, s)'
      <4>1. thunks'[s] = thunks[s]
        BY <1>1, <2>2, <3>1
      <4>2. Points(thunks[s].resultIndex, s)
        BY <1>1, <3>1, <4>1 DEF HandlesPoint
      <4>3. PICK i : i = thunks[s].resultIndex
        OBVIOUS
      <4>5. Points(i, s)'
        BY <2>6, <4>2, <4>3
      <4> QED
        BY <4>1, <4>3, <4>5 DEF Points
    <3>2. (\A s \in DOMAIN handles \cap Thunks :
             s \notin InData /\ ~thunks[s].void /\ thunks[s].result \notin Thunks => Points(thunks[s].resultIndex, s))'
      BY <1>1, <2>3, <2>6, <3>1
    <3>3. (\A x \in DOMAIN handles \ Thunks : x \notin Replaced /\ handles[x] \in 1 .. Size /\ NameAt(handles[x]) = x)'
      BY <1>1, <2>3, <2>6 DEF HandlesPoint
    <3>4. (\A i \in 1 .. Size : NameAt(i) \in Thunks =>
             /\ thunks[NameAt(i)].resultIndex = i /\ NameAt(i) \in DOMAIN handles /\ ArgsAt(i) = <<>>)'
      <4>1. \A s \in Thunks : thunks'[s].resultIndex = thunks[s].resultIndex
        BY <1>1, <2>2
      <4> QED
        BY <1>1, <2>3, <2>6, <4>1 DEF HandlesPoint
    <3> QED
      BY <3>2, <3>3, <3>4 DEF HandlesPoint
  <2>8. ThunksStand'
    <3>1. Referable' = Referable /\ \A x : Handle(x)' = Handle(x)
      BY <2>4, ThunkStepReferable
    <3>2. ASSUME NEW s \in Thunks, s \in InData, thunks'[s].state = "resolved", ~thunks'[s].void
          PROVE  ReturnFits(s)' /\ (Meaning(s)' \in Thunks => Post(Meaning(s)', s) /\ Meaning(s)' \in InData)
      <4>0. s # t
        BY <1>3, <2>2, <3>2
      <4>1. PICK r : r = thunks[s].result
        OBVIOUS
      <4>2. thunks'[s] = thunks[s] /\ thunks'[s].result = r
        BY <2>2, <4>0, <4>1
      <4>3. /\ r \in Referable /\ r # s /\ Post(NameAt(Handle(r)), s) /\ s \in Replaced /\ Meaning(s) = Meaning(r)
            /\ Meaning(s) \in Thunks => Post(Meaning(s), s) /\ Meaning(s) \in InData
        BY <1>1, <3>2, <4>1, <4>2 DEF ThunksStand, ReturnFits
      <4>4. Handle(thunks[s].result)' = Handle(r)' /\ Meaning(thunks[s].result)' = Meaning(r)'
        BY <4>2 DEF Handle, HandleIn, Meaning
      <4>5. PICK h : h = Handle(r)
        OBVIOUS
      <4>6. NameAt(Handle(thunks[s].result))' = NameAt(h)
        BY <1>1, <3>1, <4>4, <4>5 DEF NameAt
      <4>7. ReturnFits(s)'
        BY <2>3, <2>6, <3>1, <4>2, <4>3, <4>4, <4>5, <4>6 DEF ReturnFits
      <4> QED
        BY <2>6, <4>3, <4>7
    <3>3. ASSUME NEW s \in Thunks
          PROVE  /\ thunks'[s].state # "resolved" \/ thunks'[s].void => thunks'[s].result = s /\ s \notin Replaced'
                 /\ thunks'[s].state = "resolved" /\ ~thunks'[s].void => thunks'[s].result # s
                 /\ thunks'[s].state = "running" => s \in InData
                 /\ s \notin InData => thunks'[s].state = "resolved"
      BY <1>1, <1>3, <2>2, <2>3 DEF ThunksStand
    <3> QED
      BY <2>3, <2>6, <3>2, <3>3 DEF ThunksStand
  <2> QED
    BY <2>4, <2>5, <2>7, <2>8, ThunkStepKeeps DEF Core
<1>4. CASE ~thunks[t].void
  <2>1. /\ Handle(id) \in available[t] /\ TakesThePlaceOf(id, t)
        /\ thunks' = [thunks EXCEPT ![t].state = "resolved", ![t].result = id]
    <3>1. ~GoesAstray(t)
      BY DEF GoesAstray
    <3> QED
      BY <1>4, <3>1 DEF Resolve, ReturnsForeign
  <2>2. PICK m : m = Meaning(id)
    OBVIOUS
  <2>3. id \in DOMAIN handles /\ id \in Name /\ m \in Name
    <3>1. id \in DOMAIN handles /\ id \in Name
      BY <1>1 DEF Referable, Usable, NamesKnown, Known, Mentioned
    <3> QED
      BY <1>1, <2>2, <3>1 DEF Meaning, Replaced
  <2>4. /\ thunks' \in [Thunks -> ThunkType] /\ thunks'[t].state = "resolved"
        /\ thunks'[t].result = id /\ thunks'[t].resultIndex = thunks[t].resultIndex /\ thunks'[t].void = thunks[t].void
        /\ \A s \in Thunks \ {t} : thunks'[s] = thunks[s]
    <3> DEFINE r == [thunks[t] EXCEPT !.state = "resolved", !.result = id]
    <3>1. thunks' = [thunks EXCEPT ![t] = r]
      BY <1>1, <2>1 DEF ThunkType
    <3>2. r \in ThunkType /\ r.state = "resolved" /\ r.result = id /\ r.resultIndex = thunks[t].resultIndex /\ r.void = thunks[t].void
      BY <1>1, <2>3 DEF ThunkType
    <3> HIDE DEF r
    <3> QED
      BY <1>1, <3>1, <3>2
  <2>5. /\ standsFor' \in [Replaced \cup {t} -> Name] /\ standsFor'[t] = m
        /\ \A x \in Replaced : standsFor'[x] = IF standsFor[x] = t THEN m ELSE standsFor[x]
    <3>1. standsFor' = [x \in Replaced \cup {t} |-> IF x = t \/ standsFor[x] = t THEN m ELSE standsFor[x]]
      BY <2>1, <2>2 DEF TakesThePlaceOf, Replaced
    <3>2. \A x \in Replaced \cup {t} : (IF x = t \/ standsFor[x] = t THEN m ELSE standsFor[x]) \in Name
      BY <1>1, <2>3
    <3> QED
      BY <1>1, <3>1, <3>2
  <2>6. Resolves(t, id, m)
    BY <1>1, <1>2, <1>2a, <1>4, <2>1, <2>2, <2>4, <2>5 DEF Resolves
  <2>7. Thunks' = Thunks /\ Replaced' = Replaced \cup {t} /\ Mentioned' \subseteq Mentioned
    <3>1. Thunks' = Thunks /\ Replaced' = Replaced \cup {t} /\ DOMAIN handles' = DOMAIN handles /\ refused' = refused
      BY <1>1, <2>4, <2>5 DEF Thunks, Replaced
    <3>2. id \in Mentioned /\ m \in Mentioned /\ t \in Mentioned
      BY <1>1, <2>2, <2>3 DEF Mentioned, Meaning, Replaced
    <3>3. \A x \in Thunks : thunks'[x].result \in Mentioned
      BY <2>4, <3>2 DEF Mentioned
    <3>4. \A x \in Replaced \cup {t} : standsFor'[x] \in Mentioned
      BY <2>5, <3>2 DEF Mentioned
    <3>5. Thunks \cup DOMAIN handles \cup Replaced \cup refused \subseteq Mentioned
      BY DEF Mentioned
    <3>6. ASSUME NEW y \in Mentioned'  PROVE y \in Mentioned
      BY <3>1, <3>2, <3>3, <3>4, <3>5, <3>6 DEF Mentioned
    <3> QED
      BY <3>1, <3>6
  <2>8. ThunkStep
    BY <1>1, <1>2, <1>2a, <2>4, <2>5, <2>7 DEF ThunkStep
  <2>9. Core'
    BY <1>2, <2>6, <2>8, ResolvesKeepsCommands, ResolvesKeepsHandles DEF Core
  <2> QED
    BY <2>8, <2>9, ThunkStepKeeps
<1> QED
  BY <1>3, <1>4
=============================================================================
