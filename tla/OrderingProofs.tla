----------------------------- MODULE OrderingProofs -----------------------------
(***************************************************************************)
(* Lemmas on the place of a number in a finite set (Ordering.tla), on      *)
(* induction over numbers and ranks, and on recursive functions.           *)
(***************************************************************************)
EXTENDS Ordering, SequencesExt, FiniteSetTheorems, TLAPS

UpTo(S, p) == Cardinality({q \in S : q <= p})

(* A nonempty set of numbers has a first one.                                *)
LEMMA LeastElement ==
  ASSUME NEW S \in SUBSET Nat, S # {}
  PROVE  \E m \in S : IsFirst(m, S)
<1>1. PICK m \in S : \A q \in S : ~ <<q, m>> \in OpToRel(<, Nat)
  BY NatLessThanWellFounded, WFMin
<1>2. \A q \in S : m <= q
  <2> SUFFICES ASSUME NEW q \in S, q < m PROVE FALSE
    OBVIOUS
  <2>1. <<q, m>> \in OpToRel(<, Nat)
    BY DEF OpToRel
  <2> QED BY <2>1, <1>1
<1> QED BY <1>2 DEF IsFirst

(* A bounded one has a last one.                                             *)
LEMMA GreatestElement ==
  ASSUME NEW n \in Nat, NEW S \in SUBSET (0..n), S # {}
  PROVE  \E m \in S : \A q \in S : q <= m
<1> DEFINE U == {b \in Nat : \A q \in S : q <= b}
<1>1. n \in U
  OBVIOUS
<1>2. PICK m \in U : IsFirst(m, U)
  BY <1>1, LeastElement
<1>3. m \in S
  <2> SUFFICES ASSUME m \notin S PROVE FALSE
    OBVIOUS
  <2>1. \A q \in S : q \in Nat /\ q < m
    BY <1>2
  <2>2. m - 1 \in Nat /\ \A q \in S : q <= m - 1
    <3>1. m \in Nat
      BY <1>2
    <3>2. m # 0
      <4>1. PICK q \in S : TRUE
        OBVIOUS
      <4> QED BY <2>1, <3>1, <4>1
    <3>3. m - 1 \in Nat
      BY <3>1, <3>2
    <3>4. ASSUME NEW q \in S PROVE q <= m - 1
      <4>1. q \in Nat /\ q < m
        BY <2>1
      <4> QED BY <4>1, <3>1
    <3> QED BY <3>3, <3>4
  <2>3. m - 1 \in U /\ ~(m <= m - 1)
    BY <2>2
  <2> QED BY <2>3, <1>2 DEF IsFirst
<1> QED BY <1>2, <1>3

LEMMA Counts ==
  ASSUME NEW n \in Nat, NEW S \in SUBSET (0..n), NEW p \in Nat
  PROVE  /\ IsFiniteSet(S) /\ Cardinality(S) \in Nat
         /\ Below(S, p) \in Nat /\ UpTo(S, p) \in Nat
         /\ p \in S => UpTo(S, p) = Below(S, p) + 1
         /\ p \notin S => UpTo(S, p) = Below(S, p)
         /\ UpTo(S, p) <= Cardinality(S)
<1> DEFINE B == {q \in S : q < p}
           U == {q \in S : q <= p}
<1>1. IsFiniteSet(S)
  <2>1. IsFiniteSet(0..n)
    BY FS_Interval
  <2> QED BY <2>1, FS_Subset
<1>2. IsFiniteSet(B) /\ Cardinality(B) <= Cardinality(S)
  BY <1>1, FS_Subset
<1>3. IsFiniteSet(U) /\ Cardinality(U) <= Cardinality(S)
  BY <1>1, FS_Subset
<1>4. Cardinality(S) \in Nat /\ Cardinality(B) \in Nat /\ Cardinality(U) \in Nat
  BY <1>1, <1>2, <1>3, FS_CardinalityType
<1>5. p \in S => Cardinality(U) = Cardinality(B) + 1
  <2> SUFFICES ASSUME p \in S PROVE Cardinality(U) = Cardinality(B) + 1
    OBVIOUS
  <2>1. \A q \in S : q <= p <=> q < p \/ q = p
    OBVIOUS
  <2>2. p \notin B
    OBVIOUS
  <2>4. U = B \cup {p}
    <3>1. \A q : q \in U <=> q \in B \cup {p}
      BY <2>1
    <3> QED BY <3>1
  <2>3. Cardinality(B \cup {p}) =
          IF p \in B THEN Cardinality(B) ELSE Cardinality(B) + 1
    BY <1>2, FS_AddElement
  <2> QED BY <2>2, <2>4, <2>3
<1>6. p \notin S => U = B
  <2>1. p \notin S => \A q \in S : q <= p <=> q < p
    OBVIOUS
  <2> QED BY <2>1
<1> QED BY <1>1, <1>3, <1>4, <1>5, <1>6 DEF Below, UpTo

(* Of two numbers, the smaller one and what comes before it come before the  *)
(* larger one.                                                               *)
LEMMA Monotone ==
  ASSUME NEW n \in Nat, NEW S \in SUBSET (0..n), NEW p \in Nat, NEW q \in Nat
  PROVE  /\ p < q => UpTo(S, p) <= Below(S, q)
         /\ p <= q => Below(S, p) <= Below(S, q)
<1> DEFINE B(x) == {r \in S : r < x}
           U(x) == {r \in S : r <= x}
<1>1. IsFiniteSet(B(q))
  BY Counts, FS_Subset
<1>2. p < q => U(p) \in SUBSET B(q)
  <2>1. p < q => \A r \in S : r <= p => r < q
    OBVIOUS
  <2> QED BY <2>1
<1>3. p <= q => B(p) \in SUBSET B(q)
  <2>1. p <= q => \A r \in S : r < p => r < q
    OBVIOUS
  <2> QED BY <2>1
<1>4. p < q => Cardinality(U(p)) <= Cardinality(B(q))
  <2> HIDE DEF B, U
  <2> QED BY <1>1, <1>2, FS_Subset
<1>5. p <= q => Cardinality(B(p)) <= Cardinality(B(q))
  <2> HIDE DEF B, U
  <2> QED BY <1>1, <1>3, FS_Subset
<1> QED BY <1>4, <1>5 DEF Below, UpTo

(* A set of k + 1 numbers has one that comes after k of them.                *)
LEMMA EveryRank ==
  ASSUME NEW n \in Nat, NEW S \in SUBSET (0..n), NEW k \in Nat,
         k < Cardinality(S)
  PROVE  \E p \in S : Below(S, p) = k
<1> DEFINE T == {p \in S : k <= Below(S, p)}
<1>1. S # {}
  BY FS_EmptySet
<1>2. PICK last \in S : \A q \in S : q <= last
  BY <1>1, GreatestElement
<1>3. UpTo(S, last) = Cardinality(S)
  <2>1. {q \in S : q <= last} = S
    BY <1>2
  <2> QED BY <2>1 DEF UpTo
<1>4. last \in T
  BY <1>2, <1>3, Counts
<1>5. PICK p \in T : IsFirst(p, T)
  BY <1>4, LeastElement
<1>6. Below(S, p) \in Nat /\ k <= Below(S, p) /\ p \in S
  <2>1. p \in Nat
    BY <1>5
  <2> QED BY <1>5, <2>1, Counts
<1> SUFFICES ASSUME Below(S, p) # k PROVE FALSE
  BY <1>6
<1>7. {q \in S : q < p} # {}
  BY <1>6, FS_EmptySet DEF Below
<1>8. PICK m \in {q \in S : q < p} : \A q \in {q \in S : q < p} : q <= m
  BY <1>7, GreatestElement
<1>9. UpTo(S, m) = Below(S, p)
  <2>1. \A q \in S : q <= m <=> q < p
    BY <1>6, <1>8
  <2>2. {q \in S : q <= m} = {q \in S : q < p}
    BY <2>1
  <2> QED BY <2>2 DEF Below, UpTo
<1>10. Below(S, m) + 1 = UpTo(S, m) /\ Below(S, m) \in Nat
  BY <1>8, Counts
<1>11. m \in T
  BY <1>6, <1>8, <1>9, <1>10
<1> QED BY <1>5, <1>6, <1>8, <1>11 DEF IsFirst

(* The first k of a set are k of them, unless there are fewer, and come      *)
(* before the others.                                                        *)
LEMMA FirstOnes ==
  ASSUME NEW n \in Nat, NEW S \in SUBSET (0..n), NEW k \in Nat,
         NEW F, F = {p \in S : Below(S, p) < k}
  PROVE  /\ Cardinality(F) = IF Cardinality(S) > k THEN k ELSE Cardinality(S)
         /\ \A p \in F : \A q \in S \ F : p < q
<1>1. \A p \in S : /\ Below(S, p) \in Nat
                   /\ Below(S, p) < Cardinality(S)
  <2> TAKE p \in S
  <2>0. p \in Nat
    OBVIOUS
  <2>1. /\ UpTo(S, p) = Below(S, p) + 1
        /\ UpTo(S, p) <= Cardinality(S)
        /\ Below(S, p) \in Nat /\ Cardinality(S) \in Nat
    BY <2>0, Counts
  <2> QED BY <2>1
<1>2. \A p \in F : \A q \in S \ F : p < q
  <2> TAKE p \in F
  <2> TAKE q \in S \ F
  <2> SUFFICES ASSUME q <= p PROVE FALSE
    OBVIOUS
  <2>1. p \in Nat /\ q \in Nat /\ p \in S
    OBVIOUS
  <2>2. Below(S, q) <= Below(S, p)
    BY <2>1, Monotone
  <2>3. Below(S, p) < k /\ Below(S, p) \in Nat /\ Below(S, q) \in Nat
    BY <2>1, <1>1
  <2>4. Below(S, q) < k
    BY <2>2, <2>3
  <2> QED BY <2>4
<1>0. Cardinality(S) \in Nat
  BY Counts, 0 \in Nat
<1>3. CASE Cardinality(S) <= k
  <2>1. \A p \in S : Below(S, p) < k
    BY <1>0, <1>1, <1>3
  <2>2. F = S
    BY <2>1
  <2> QED BY <2>2, <1>0, <1>2, <1>3
<1>4. CASE k < Cardinality(S)
  <2>1. PICK p \in S : Below(S, p) = k
    BY <1>4, EveryRank
  <2>2. p \in S \ F
    BY <2>1
  <2>3. \A q \in S : q < p => Below(S, q) < k
    <3> SUFFICES ASSUME NEW q \in S, q < p PROVE Below(S, q) < k
      OBVIOUS
    <3>0. q \in Nat /\ p \in Nat
      OBVIOUS
    <3>1. UpTo(S, q) = Below(S, q) + 1 /\ Below(S, q) \in Nat
      BY <3>0, Counts
    <3>2. UpTo(S, q) <= Below(S, p)
      BY <3>0, Monotone
    <3> QED BY <3>1, <3>2, <2>1
  <2>4. F = {q \in S : q < p}
    BY <2>2, <2>3, <1>2
  <2> QED BY <2>1, <2>4, <1>2, <1>4 DEF Below
<1> QED BY <1>0, <1>3, <1>4

(* The i-th of a set of numbers is there, comes before the next ones, and    *)
(* every number of the set is the i-th for some i.                           *)
LEMMA Ranks ==
  ASSUME NEW n \in Nat, NEW S \in SUBSET (0..n)
  PROVE  /\ Cardinality(S) \in Nat
         /\ \A i \in 1..Cardinality(S) : Nth(S, i) \in S
         /\ \A i, j \in 1..Cardinality(S) : i < j => Nth(S, i) < Nth(S, j)
         /\ \A p \in S : \E i \in 1..Cardinality(S) : Nth(S, i) = p
<1>0. \A p \in S : p \in Nat
  OBVIOUS
<1>1. Cardinality(S) \in Nat
  BY Counts, 0 \in Nat
<1>2. ASSUME NEW i \in 1..Cardinality(S)
      PROVE  Nth(S, i) \in S /\ Below(S, Nth(S, i)) = i - 1
  <2>1. i - 1 \in Nat /\ i - 1 < Cardinality(S)
    BY <1>1
  <2>2. \E p \in S : Below(S, p) = i - 1
    BY <2>1, EveryRank
  <2> QED BY <2>2 DEF Nth
<1>3. ASSUME NEW i \in 1..Cardinality(S), NEW j \in 1..Cardinality(S), i < j
      PROVE  Nth(S, i) < Nth(S, j)
  <2> SUFFICES ASSUME ~(Nth(S, i) < Nth(S, j)) PROVE FALSE
    OBVIOUS
  <2>1. Nth(S, i) \in Nat /\ Nth(S, j) \in Nat
    BY <1>0, <1>2
  <2>2. Below(S, Nth(S, j)) <= Below(S, Nth(S, i))
    BY <2>1, Monotone
  <2>3. Below(S, Nth(S, i)) = i - 1 /\ Below(S, Nth(S, j)) = j - 1
    BY <1>2
  <2> QED BY <1>1, <1>3, <2>2, <2>3
<1>4. ASSUME NEW p \in S
      PROVE  \E i \in 1..Cardinality(S) : Nth(S, i) = p
  <2>0. p \in Nat
    OBVIOUS
  <2>1. /\ UpTo(S, p) = Below(S, p) + 1
        /\ UpTo(S, p) <= Cardinality(S)
        /\ Below(S, p) \in Nat
    BY <2>0, Counts
  <2>2. Below(S, p) + 1 \in 1..Cardinality(S)
    BY <1>1, <2>1
  <2> DEFINE q == Nth(S, Below(S, p) + 1)
  <2>3. q \in S /\ Below(S, q) = Below(S, p)
    BY <1>2, <2>1, <2>2
  <2>4. q \in Nat /\ UpTo(S, q) = Below(S, q) + 1
    <3>1. q \in Nat
      BY <1>0, <2>3
    <3> HIDE DEF q
    <3> QED BY <3>1, <2>3, Counts
  <2> HIDE DEF q
  <2>5. /\ q < p => UpTo(S, q) <= Below(S, p)
        /\ p < q => UpTo(S, p) <= Below(S, q)
    BY <2>0, <2>4, Monotone
  <2>6. q = p
    BY <2>0, <2>1, <2>3, <2>4, <2>5
  <2> QED BY <2>2, <2>6 DEF q
<1> QED BY <1>1, <1>2, <1>3, <1>4

-----------------------------------------------------------------------------
(* Induction and recursion.                                                 *)

(* What holds at p, and goes from each number to the next, holds from p on.  *)
LEMMA Upwards ==
  ASSUME NEW p \in Nat, NEW n \in Nat, NEW S, p \in S,
         \A q \in p..n : q < n /\ q \in S => q + 1 \in S
  PROVE  \A q \in p..n : q \in S
<1> DEFINE T == {q \in p..n : q \notin S}
<1> SUFFICES ASSUME T # {} PROVE FALSE
  OBVIOUS
<1>1. T \in SUBSET Nat
  OBVIOUS
<1>2. PICK m \in T : IsFirst(m, T)
  BY <1>1, LeastElement
<1>3. m \in p..n /\ m \notin S /\ m # p
  OBVIOUS
<1>4. m - 1 \in p..n /\ m - 1 < n /\ m - 1 + 1 = m /\ ~(m <= m - 1)
  BY <1>3
<1>5. m - 1 \in S
  BY <1>2, <1>4 DEF IsFirst
<1> QED BY <1>3, <1>4, <1>5

(* The functions on D whose value at each x is in R[x].                      *)
Within(D, R) ==
  {f \in [D -> UNION {R[x] : x \in D}] : \A x \in D : f[x] \in R[x]}

(* What holds at each x if it holds at all of a lower rank holds everywhere. *)
LEMMA RankInduction ==
  ASSUME NEW n \in Nat, NEW D, NEW rank \in [D -> 0..n], NEW S \in SUBSET D,
         \A x \in D : (\A y \in D : rank[y] < rank[x] => y \in S) => x \in S
  PROVE  S = D
<1> DEFINE L == {rank[x] : x \in D \ S}
<1> SUFFICES ASSUME S # D PROVE FALSE
  OBVIOUS
<1>1. L \in SUBSET Nat /\ L # {}
  OBVIOUS
<1>2. PICK k \in L : IsFirst(k, L)
  BY <1>1, LeastElement
<1>3. PICK x \in D \ S : rank[x] = k
  OBVIOUS
<1>4. ASSUME NEW y \in D, rank[y] < rank[x] PROVE y \in S
  <2> SUFFICES ASSUME y \notin S PROVE FALSE
    OBVIOUS
  <2>1. rank[y] \in L
    OBVIOUS
  <2>2. k <= rank[y] /\ rank[y] \in Nat /\ k \in Nat
    BY <1>1, <1>2, <2>1 DEF IsFirst
  <2> QED BY <1>3, <1>4, <2>2
<1> QED BY <1>3, <1>4

(* A recursion with the body B that only looks at lower ranks.               *)
Descends(B, D, R, rank, n) ==
  /\ n \in Nat /\ rank \in [D -> 0..n]
  /\ \A x \in D : R[x] # {}
  /\ B \in [Within(D, R) -> Within(D, R)]
  /\ \A f, g \in Within(D, R) : \A x \in D :
       (\A y \in D : rank[y] < rank[x] => f[y] = g[y]) => B[f][x] = B[g][x]

LEMMA WithinIs ==
  ASSUME NEW D, NEW R, NEW f, f = [x \in D |-> f[x]], \A x \in D : f[x] \in R[x]
  PROVE  f \in Within(D, R)
<1>1. \A x \in D : f[x] \in UNION {R[y] : y \in D}
  OBVIOUS
<1>2. f \in [D -> UNION {R[y] : y \in D}]
  BY <1>1
<1> QED BY <1>2 DEF Within

(* A recursion that only looks at lower ranks has a solution.                *)
LEMMA Recursion ==
  ASSUME NEW n, NEW D, NEW rank, NEW R, NEW B, Descends(B, D, R, rank, n)
  PROVE  \E f \in Within(D, R) : B[f] = f
<1> DEFINE Upto(k, f) == \A x \in D : rank[x] < k => B[f][x] = f[x]
           K == {k \in 0..(n + 1) : \E f \in Within(D, R) : Upto(k, f)}
<1>0. /\ n \in Nat /\ rank \in [D -> 0..n]
      /\ \A x \in D : R[x] # {}
      /\ B \in [Within(D, R) -> Within(D, R)]
      /\ \A f, g \in Within(D, R) : \A x \in D :
           (\A y \in D : rank[y] < rank[x] => f[y] = g[y]) => B[f][x] = B[g][x]
  BY DEF Descends
<1>1. 0 \in K
  <2> DEFINE f == [x \in D |-> CHOOSE v : v \in R[x]]
  <2>1. \A x \in D : f[x] \in R[x]
    BY <1>0
  <2>2. f \in Within(D, R)
    BY <2>1 DEF Within
  <2>3. Upto(0, f)
    BY <1>0
  <2> HIDE DEF f, Upto
  <2> QED BY <1>0, <2>2, <2>3
<1>2. PICK m \in K : \A k \in K : k <= m
  <2>1. K \in SUBSET (0..(n + 1)) /\ n + 1 \in Nat
    BY <1>0
  <2> HIDE DEF K
  <2> QED BY <1>1, <2>1, GreatestElement
<1>3. PICK f \in Within(D, R) : Upto(m, f)
  OBVIOUS
<1>4. B[f] \in Within(D, R) /\ m \in Nat
  BY <1>0
<1>5. m = n + 1
  <2> SUFFICES ASSUME m # n + 1 PROVE FALSE
    OBVIOUS
  <2>1. ASSUME NEW x \in D, rank[x] < m + 1 PROVE B[B[f]][x] = B[f][x]
    <3>1. \A y \in D : rank[y] < rank[x] => rank[y] < m
      BY <1>0, <1>4, <2>1
    <3>2. \A y \in D : rank[y] < rank[x] => B[f][y] = f[y]
      BY <1>3, <3>1
    <3> QED BY <1>0, <1>4, <3>2 
  <2>2. Upto(m + 1, B[f])
    BY <2>1
  <2>3. m + 1 \in 0..(n + 1)
    BY <1>0
  <2>4. m + 1 \in K
    BY <1>4, <2>2, <2>3
  <2> QED BY <1>2, <1>4, <2>4
<1>6. \A x \in D : B[f][x] = f[x]
  BY <1>0, <1>3, <1>5
<1>7. f \in [D -> UNION {R[x] : x \in D}] /\ B[f] \in [D -> UNION {R[x] : x \in D}]
  BY <1>4 DEF Within
<1>8. f = [x \in D |-> f[x]] /\ B[f] = [x \in D |-> B[f][x]]
  BY <1>7
<1> QED BY <1>6, <1>8

-----------------------------------------------------------------------------
(* Flattening a sequence of sequences.                                      *)

Flat(f, seqs) == [i \in 1..Len(seqs) |-> IF i = 1 THEN seqs[i] ELSE f[i - 1] \o seqs[i]]

LEMMA FlatteningIs ==
  ASSUME NEW S, NEW seqs \in Seq(Seq(S)), Len(seqs) # 0
  PROVE  \E f \in [1..Len(seqs) -> Seq(S)] : f = Flat(f, seqs) /\ FlattenSeq(seqs) = f[Len(seqs)]
<1> DEFINE n == Len(seqs)
           D == 1..n
           rank == [i \in D |-> i]
           R == [i \in D |-> Seq(S)]
           F == Within(D, R)
           B == [f \in F |-> Flat(f, seqs)]
           flatten == CHOOSE f : f = Flat(f, seqs)
<1>1. n \in Nat /\ n \in D /\ \A i \in D : i \in Nat /\ seqs[i] \in Seq(S)
  OBVIOUS
<1>2. FlattenSeq(seqs) = flatten[n]
  BY DEF FlattenSeq, Flat
<1>3. \A i \in D : R[i] = Seq(S) /\ R[i] # {}
  <2>1. << >> \in Seq(S)
    OBVIOUS
  <2> QED BY <2>1
<1>4. rank \in [D -> 0..n] /\ \A i \in D : rank[i] = i
  BY <1>1
<1> HIDE DEF R, rank, n
<1>5. \A f \in F : \A i \in D : f[i] \in Seq(S)
  BY <1>3 DEF Within
<1>6. ASSUME NEW f \in F PROVE Flat(f, seqs) \in F
  <2> DEFINE g == Flat(f, seqs)
  <2>1. \A i \in D : g[i] = IF i = 1 THEN seqs[i] ELSE f[i - 1] \o seqs[i]
    BY DEF Flat, n
  <2>2. \A i \in D : i # 1 => i - 1 \in D
    BY <1>1
  <2>3. \A i \in D : g[i] \in R[i]
    <3> SUFFICES ASSUME NEW i \in D PROVE g[i] \in Seq(S)
      BY <1>3
    <3>1. CASE i = 1
      BY <1>1, <2>1, <3>1
    <3>2. CASE i # 1
      <4> DEFINE t == f[i - 1]
                 u == seqs[i]
      <4>1. t \in Seq(S) /\ u \in Seq(S) /\ g[i] = t \o u
        BY <1>1, <1>5, <2>1, <2>2, <3>2
      <4> HIDE DEF t, u, g
      <4> QED BY <4>1
    <3> QED BY <3>1, <3>2
  <2>4. g = [i \in D |-> g[i]]
    BY DEF Flat, n
  <2>5. g \in F
    <3> HIDE DEF g
    <3> QED BY <2>3, <2>4, WithinIs
  <2> QED BY <2>5
<1>7. B \in [F -> F] /\ \A f \in F : B[f] = Flat(f, seqs)
  BY <1>6
<1>8. ASSUME NEW f \in F, NEW g \in F, NEW i \in D,
             \A j \in D : rank[j] < rank[i] => f[j] = g[j]
      PROVE  B[f][i] = B[g][i]
  <2>1. i # 1 => i - 1 \in D /\ i - 1 < i
    BY <1>1
  <2>2. i # 1 => f[i - 1] = g[i - 1]
    BY <1>4, <1>8, <2>1
  <2> QED BY <1>7, <2>2 DEF Flat, n
<1>9. \E f \in F : B[f] = f
  <2> HIDE DEF B
  <2>1. Descends(B, D, R, rank, n)
    BY <1>1, <1>3, <1>4, <1>7, <1>8 DEF Descends
  <2> QED BY <2>1, Recursion
<1>10. \E f : f = Flat(f, seqs)
  BY <1>7, <1>9
<1>11. flatten = Flat(flatten, seqs)
  BY <1>10
<1> HIDE DEF flatten
<1>12. flatten \in [D -> Seq(S)]
  <2>1. \A i \in D : flatten[i] = IF i = 1 THEN seqs[i] ELSE flatten[i - 1] \o seqs[i]
    BY <1>11 DEF Flat, n
  <2> DEFINE T == {i \in D : flatten[i] \in Seq(S)}
  <2>2. 1 \in T
    BY <1>1, <2>1
  <2>3. ASSUME NEW i \in 1..n, i < n, i \in T PROVE i + 1 \in T
    <3> DEFINE k == i + 1
               t == flatten[i]
               u == seqs[k]
    <3>1. k \in D /\ k # 1 /\ k - 1 = i
      BY <1>1, <2>3
    <3>2. flatten[k] = t \o u /\ t \in Seq(S) /\ u \in Seq(S)
      <4> HIDE DEF k
      <4> QED BY <1>1, <2>1, <2>3, <3>1
    <3>3. flatten[k] \in Seq(S)
      <4> HIDE DEF k, t, u
      <4> QED BY <3>2
    <3> QED BY <3>1, <3>3
  <2>4. \A i \in 1..n : i \in T
    <3> HIDE DEF T
    <3> QED BY <1>1, <2>2, <2>3, Upwards
  <2>5. flatten = [i \in D |-> flatten[i]]
    BY <1>11, <2>1 DEF Flat, n
  <2> QED BY <2>4, <2>5
<1> QED BY <1>2, <1>11, <1>12 DEF n

LEMMA RangeOfBoth ==
  ASSUME NEW S, NEW s \in Seq(S), NEW t \in Seq(S)
  PROVE  Range(s \o t) = Range(s) \cup Range(t)
<1>1. /\ \A i \in DOMAIN s : i \in DOMAIN (s \o t) /\ (s \o t)[i] = s[i]
      /\ \A i \in DOMAIN t : Len(s) + i \in DOMAIN (s \o t) /\ (s \o t)[Len(s) + i] = t[i]
  OBVIOUS
<1>2. \A k \in DOMAIN (s \o t) :
        k \in DOMAIN s \/ \E i \in DOMAIN t : k = Len(s) + i
  <2>1. Len(s) \in Nat /\ Len(t) \in Nat /\ DOMAIN s = 1..Len(s) /\ DOMAIN t = 1..Len(t)
        /\ DOMAIN (s \o t) = 1..(Len(s) + Len(t))
    OBVIOUS
  <2> TAKE k \in DOMAIN (s \o t)
  <2>2. k \notin DOMAIN s => k - Len(s) \in DOMAIN t /\ k = Len(s) + (k - Len(s))
    BY <2>1
  <2> QED BY <2>2
<1> DEFINE st == s \o t
<1>3. \A x : x \in Range(st) <=> x \in Range(s) \/ x \in Range(t)
  <2> TAKE x
  <2>1. ASSUME x \in Range(st) PROVE x \in Range(s) \/ x \in Range(t)
    <3>1. PICK k \in DOMAIN st : st[k] = x
      BY <2>1 DEF Range
    <3>2. CASE k \in DOMAIN s
      BY <1>1, <3>1, <3>2 DEF Range
    <3>3. ASSUME NEW i \in DOMAIN t, k = Len(s) + i PROVE x \in Range(t)
      BY <1>1, <3>1, <3>3 DEF Range
    <3> QED BY <1>2, <3>1, <3>2, <3>3
  <2>2. ASSUME x \in Range(s) PROVE x \in Range(st)
    <3>1. PICK i \in DOMAIN s : s[i] = x
      BY <2>2 DEF Range
    <3>2. i \in DOMAIN st /\ st[i] = x
      BY <1>1, <3>1
    <3> HIDE DEF st
    <3> QED BY <3>2 DEF Range
  <2>3. ASSUME x \in Range(t) PROVE x \in Range(st)
    <3>1. PICK i \in DOMAIN t : t[i] = x
      BY <2>3 DEF Range
    <3>2. Len(s) + i \in DOMAIN st /\ st[Len(s) + i] = x
      BY <1>1, <3>1
    <3> HIDE DEF st
    <3> QED BY <3>2 DEF Range
  <2> QED BY <2>1, <2>2, <2>3
<1> QED BY <1>3

(* What is in it.                                                            *)
LEMMA FlattenIs ==
  ASSUME NEW S, NEW seqs \in Seq(Seq(S))
  PROVE  /\ FlattenSeq(seqs) \in Seq(S)
         /\ Range(FlattenSeq(seqs)) = UNION {Range(seqs[i]) : i \in DOMAIN seqs}
<1>1. CASE Len(seqs) = 0
  <2>1. seqs = << >> /\ FlattenSeq(seqs) = seqs
    BY <1>1 DEF FlattenSeq
  <2>2. DOMAIN seqs = {} /\ << >> \in Seq(S)
    BY <2>1
  <2>3. Range(FlattenSeq(seqs)) = {}
    BY <2>1, <2>2 DEF Range
  <2> QED BY <2>1, <2>2, <2>3
<1>2. CASE Len(seqs) # 0
  <2> DEFINE n == Len(seqs)
             Upto(i) == UNION {Range(seqs[j]) : j \in 1..i}
  <2>1. n \in Nat /\ n # 0 /\ DOMAIN seqs = 1..n /\ \A i \in 1..n : seqs[i] \in Seq(S)
    BY <1>2
  <2>2. PICK f \in [1..n -> Seq(S)] : f = Flat(f, seqs) /\ FlattenSeq(seqs) = f[n]
    BY <1>2, FlatteningIs
  <2>3. \A i \in 1..n : f[i] = IF i = 1 THEN seqs[i] ELSE f[i - 1] \o seqs[i]
    BY <2>2 DEF Flat
  <2> DEFINE T == {i \in 1..n : Range(f[i]) = Upto(i)}
  <2>4. 1 \in T
    BY <2>1, <2>3
  <2>5. ASSUME NEW i \in 1..n, i < n, i \in T PROVE i + 1 \in T
    <3> DEFINE k == i + 1
    <3>1. k \in 1..n /\ k # 1 /\ k - 1 = i
      BY <2>1, <2>5
    <3>2. f[k] = f[i] \o seqs[k] /\ f[i] \in Seq(S) /\ seqs[k] \in Seq(S)
      <4> HIDE DEF k, n
      <4> QED BY <2>1, <2>2, <2>3, <3>1
    <3>3. Range(f[k]) = Range(f[i]) \cup Range(seqs[k])
      BY <3>2, RangeOfBoth
    <3>4. Upto(k) = Upto(i) \cup Range(seqs[k])
      <4>1. \A j : j \in 1..k <=> j \in 1..i \/ j = k
        BY <2>1
      <4> QED BY <4>1
    <3> QED BY <2>5, <3>1, <3>3, <3>4
  <2>6. n \in T
    <3>1. \A i \in 1..n : i \in T
      <4> HIDE DEF T, n
      <4> QED BY <2>1, <2>4, <2>5, Upwards
    <3>2. n \in 1..n
      BY <2>1
    <3> QED BY <3>1, <3>2
  <2>7. Range(f[n]) = UNION {Range(seqs[i]) : i \in DOMAIN seqs} /\ f[n] \in Seq(S)
    BY <2>1, <2>6
  <2> QED BY <2>2, <2>7
<1> QED BY <1>1, <1>2

LEMMA OneLong ==
  ASSUME NEW S, NEW x \in S
  PROVE  <<x>> \in Seq(S) /\ Len(<<x>>) = 1 /\ Range(<<x>>) = {x}
BY DEF Range

LEMMA LengthOfBoth ==
  ASSUME NEW S, NEW s \in Seq(S), NEW t \in Seq(S)
  PROVE  Len(s \o t) = Len(s) + Len(t) /\ Len(s) \in Nat /\ Len(t) \in Nat
OBVIOUS

LEMMA StartsSomewhere ==
  ASSUME NEW S, NEW seq \in Seq(S), seq # << >>
  PROVE  1 \in DOMAIN seq
OBVIOUS

(* Finitely many.                                                            *)
LEMMA RangeIsFinite ==
  ASSUME NEW S, NEW seq \in Seq(S)
  PROVE  IsFiniteSet(Range(seq)) /\ Range(seq) \in SUBSET S
<1>1. seq \in Surjection(1..Len(seq), Range(seq)) /\ Len(seq) \in Nat
  <2>1. Len(seq) \in Nat /\ DOMAIN seq = 1..Len(seq) /\ seq \in [1..Len(seq) -> Range(seq)]
    BY DEF Range
  <2>2. \A x \in Range(seq) : \E i \in 1..Len(seq) : seq[i] = x
    BY <2>1 DEF Range
  <2> QED BY <2>1, <2>2 DEF Surjection
<1>2. IsFiniteSet(1..Len(seq))
  BY <1>1, FS_Interval
<1>3. Range(seq) \in SUBSET S
  BY DEF Range
<1> QED BY <1>1, <1>2, <1>3, FS_Surjection
=============================================================================
