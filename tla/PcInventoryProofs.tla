-------------------------- MODULE PcInventoryProofs --------------------------
(***************************************************************************)
(* Proofs about PcInventory: what the readers make of any PC and any lists *)
(* is the truth about it.                                                  *)
(***************************************************************************)
EXTENDS PcInventory, FiniteSetTheorems, SequenceTheorems, TLAPS

-----------------------------------------------------------------------------
(* Numbers, lists and folds.  The induction over a list is the one over    *)
(* its length, by the set of lengths for which the claim holds.            *)

\* A set of natural numbers that is not empty has a least element.
LEMMA LeastNumber ==
  ASSUME NEW T \in SUBSET Nat, T # {}
  PROVE  \E x \in T : \A y \in T : x <= y
<1> DEFINE R == OpToRel(<, Nat)
<1>1. IsWellFoundedOn(R, Nat)
  BY NatLessThanWellFounded
<1>2. R = {ss \in Nat \X Nat : ss[1] < ss[2]}
  BY Zenon DEF OpToRel
<1> HIDE DEF R
<1>3. \E x \in T : \A y \in T : ~ (<<y, x>> \in R)
  BY ONLY <1>1, WFMin, T \subseteq Nat, T # {}, Zenon
<1>4. PICK x \in T : \A y \in T : ~ (<<y, x>> \in R)
  BY <1>3
<1>5. ASSUME NEW y \in T PROVE x <= y
  <2>1. <<y, x>> \in R <=> y < x
    BY <1>2
  <2> QED BY <1>4, <2>1
<1> QED BY <1>5

\* Induction, with the set of numbers for which the claim holds.
LEMMA Induction ==
  ASSUME NEW T, 0 \in T, \A n \in Nat : n \in T => n + 1 \in T
  PROVE  Nat \subseteq T
<1> SUFFICES ASSUME Nat \ T # {} PROVE FALSE
  OBVIOUS
<1>1. PICK n \in Nat \ T : \A m \in Nat \ T : n <= m
  BY LeastNumber
<1> QED BY <1>1

\* f is what is computed along a list of n elements, from base, by the steps g.
Iterates(f, n, base, g) ==
  \A i \in 0..n : f[i] = IF i = 0 THEN base ELSE g[i][f[i - 1]]

\* It exists.
LEMMA Iteration ==
  ASSUME NEW n \in Nat, NEW A, NEW base \in A, NEW g \in [1..n -> [A -> A]]
  PROVE  \E f \in [0..n -> A] : Iterates(f, n, base, g)
<1> DEFINE P(m, f) == \A i \in 0..m : f[i] = IF i = 0 THEN base ELSE g[i][f[i - 1]]
           T == {m \in Nat : m <= n => \E f \in [0..m -> A] : P(m, f)}
<1>1. 0 \in T
  <2>1. P(0, [i \in 0..0 |-> base])
    OBVIOUS
  <2> QED BY <2>1
<1>2. ASSUME NEW m \in Nat, m \in T PROVE m + 1 \in T
  <2> SUFFICES ASSUME m + 1 <= n PROVE \E f \in [0..(m + 1) -> A] : P(m + 1, f)
    OBVIOUS
  <2>1. PICK f \in [0..m -> A] : P(m, f)
    BY <1>2
  <2> DEFINE h == [i \in 0..(m + 1) |-> IF i = m + 1 THEN g[m + 1][f[m]] ELSE f[i]]
  <2>2. h \in [0..(m + 1) -> A]
    OBVIOUS
  <2>3. ASSUME NEW i \in 0..(m + 1)
        PROVE  h[i] = IF i = 0 THEN base ELSE g[i][h[i - 1]]
    <3>1. CASE i = m + 1
      <4>1. h[i] = g[m + 1][f[m]] /\ h[i - 1] = f[m] /\ i # 0
        BY <3>1
      <4> QED BY <3>1, <4>1
    <3>2. CASE i \in 0..m
      <4>1. h[i] = f[i] /\ (i # 0 => h[i - 1] = f[i - 1])
        BY <3>2
      <4> QED BY <2>1, <3>2, <4>1
    <3> QED BY <3>1, <3>2
  <2> QED BY <2>2, <2>3
<1>3. n \in T
  <2> HIDE DEF T
  <2> QED BY <1>1, <1>2, Induction
<1>4. PICK f \in [0..n -> A] : P(n, f)
  BY <1>3
<1>5. Iterates(f, n, base, g)
  BY <1>4 DEF Iterates
<1> QED BY <1>5

LEMMA GreatestElement ==
  ASSUME NEW n \in Nat, NEW S \in SUBSET (1..n), S # {}
  PROVE  Max(S) \in S /\ \A k \in S : k <= Max(S)
<1> DEFINE T == {n - k : k \in S}
<1>1. PICK t \in T : \A u \in T : t <= u
  <2>1. \A k \in S : n - k \in Nat
    OBVIOUS
  <2>2. T \in SUBSET Nat /\ T # {}
    BY <2>1
  <2> HIDE DEF T
  <2> QED BY <2>2, LeastNumber
<1>2. PICK x \in S : t = n - x
  OBVIOUS
<1>3. \A k \in S : x >= k
  <2> SUFFICES ASSUME NEW k \in S PROVE x >= k
    OBVIOUS
  <2>1. t <= n - k
    BY <1>1
  <2> QED BY <1>2, <2>1
<1>4. \E y \in S : \A k \in S : y >= k
  BY <1>3
<1>5. Max(S) \in S /\ \A k \in S : Max(S) >= k
  BY <1>4 DEF Max
<1> QED BY <1>5

LEMMA LeastElement ==
  ASSUME NEW S \in SUBSET Nat, S # {}
  PROVE  Min(S) \in S /\ \A k \in S : Min(S) <= k
BY LeastNumber DEF Min

LEMMA GreatestOfInterval ==
  ASSUME NEW i \in Nat \ {0}
  PROVE  Max(1..i) = i /\ (1..i) \ {i} = 1..(i - 1) /\ 1..i # {}
<1>1. i \in 1..i /\ 1..i \in SUBSET (1..i)
  OBVIOUS
<1>2. Max(1..i) \in 1..i /\ \A k \in 1..i : k <= Max(1..i)
  BY <1>1, GreatestElement
<1>3. Max(1..i) = i
  <2> DEFINE m == Max(1..i)
  <2> HIDE DEF m
  <2>1. m \in 1..i /\ i <= m
    BY <1>1, <1>2 DEF m
  <2>2. m = i
    BY <2>1
  <2> QED BY <2>2 DEF m
<1>4. (1..i) \ {i} = 1..(i - 1)
  OBVIOUS
<1> QED BY <1>1, <1>3, <1>4

\* it is what FoldLeft computes, for each set of the n places.
FoldSteps(it, n, base, g) ==
  \A s \in SUBSET (1..n) : it[s] = IF s = {} THEN base ELSE g[Max(s)][it[s \ {Max(s)}]]

\* It exists.
LEMMA FoldExists ==
  ASSUME NEW n \in Nat, NEW A, NEW base \in A, NEW g \in [1..n -> [A -> A]]
  PROVE  \E it \in [SUBSET (1..n) -> A] : FoldSteps(it, n, base, g)
<1> DEFINE Step(it, s) == it[s] = IF s = {} THEN base ELSE g[Max(s)][it[s \ {Max(s)}]]
           Ex(m) == \E it \in [SUBSET (1..m) -> A] : \A s \in SUBSET (1..m) : Step(it, s)
<1>1. Ex(0)
  <2> DEFINE it == [s \in SUBSET (1..0) |-> base]
  <2>1. it \in [SUBSET (1..0) -> A] /\ \A s \in SUBSET (1..0) : Step(it, s)
    OBVIOUS
  <2> QED BY <2>1
<1>2. ASSUME NEW m \in Nat, m + 1 <= n, Ex(m) PROVE Ex(m + 1)
  <2>1. PICK it \in [SUBSET (1..m) -> A] : \A s \in SUBSET (1..m) : Step(it, s)
    BY <1>2
  <2> DEFINE more == [s \in SUBSET (1..(m + 1)) |->
                        IF m + 1 \in s THEN g[m + 1][it[s \ {m + 1}]] ELSE it[s]]
  <2>2. \A s \in SUBSET (1..(m + 1)) : m + 1 \notin s => s \in SUBSET (1..m)
    OBVIOUS
  <2>3. \A s \in SUBSET (1..(m + 1)) : s \ {m + 1} \in SUBSET (1..m)
    OBVIOUS
  <2>4. more \in [SUBSET (1..(m + 1)) -> A]
    <3>1. g[m + 1] \in [A -> A]
      BY <1>2
    <3>2. ASSUME NEW s \in SUBSET (1..(m + 1))
          PROVE  (IF m + 1 \in s THEN g[m + 1][it[s \ {m + 1}]] ELSE it[s]) \in A
      <4>1. it[s \ {m + 1}] \in A
        BY <2>3
      <4> QED BY <2>2, <3>1, <4>1
    <3> QED BY <3>2
  <2>5. ASSUME NEW s \in SUBSET (1..(m + 1)) PROVE Step(more, s)
    <3>1. CASE m + 1 \in s
      <4>1. Max(s) = m + 1
        <5>1. Max(s) \in s /\ \A k \in s : k <= Max(s)
          BY ONLY m + 1 \in Nat, s \in SUBSET (1..(m + 1)), <3>1, GreatestElement
        <5>2. Max(s) \in 1..(m + 1) /\ m + 1 <= Max(s)
          BY <5>1, <3>1
        <5> QED BY <5>2
      <4>2. more[s \ {m + 1}] = it[s \ {m + 1}]
        OBVIOUS
      <4>3. more[s] = g[m + 1][more[s \ {m + 1}]]
        BY <4>2, <3>1
      <4> HIDE DEF more
      <4> QED BY <3>1, <4>1, <4>3
    <3>2. CASE m + 1 \notin s /\ s # {}
      <4>1. Max(s) \in s
        BY ONLY m + 1 \in Nat, s \in SUBSET (1..(m + 1)), <3>2, GreatestElement
      <4>2. Step(it, s)
        BY <2>1, <2>2, <3>2
      <4>3. more[s] = it[s] /\ more[s \ {Max(s)}] = it[s \ {Max(s)}]
        BY <3>2
      <4> HIDE DEF more
      <4> QED BY <3>2, <4>2, <4>3
    <3>3. CASE s = {}
      <4>1. more[s] = it[s] /\ Step(it, s)
        BY <2>1, <3>3
      <4> HIDE DEF more
      <4> QED BY <4>1, <3>3
    <3> QED BY <3>1, <3>2, <3>3
  <2> HIDE DEF more
  <2> QED BY <2>4, <2>5
<1> DEFINE T == {m \in Nat : m <= n => Ex(m)}
<1> HIDE DEF Ex
<1>3. n \in T
  <2>1. 0 \in T
    BY <1>1
  <2>2. ASSUME NEW m \in Nat, m \in T PROVE m + 1 \in T
    BY <1>2, <2>2
  <2> HIDE DEF T
  <2> QED BY <2>1, <2>2, Induction
<1>4. Ex(n)
  BY <1>3
<1> QED BY <1>4 DEF Ex, FoldSteps

\* v is what the steps g make of base along n places.
FoldsTo(v, n, A, base, g) ==
  \E f \in [0..n -> A] : Iterates(f, n, base, g) /\ v = f[n]

LEMMA FoldsToType ==
  ASSUME NEW v, NEW n \in Nat, NEW A, NEW base, NEW g, FoldsTo(v, n, A, base, g)
  PROVE  v \in A
BY DEF FoldsTo

\* A function on sets of places that takes these steps folds.
LEMMA FoldAlong ==
  ASSUME NEW n \in Nat, NEW A, NEW base \in A, NEW g \in [1..n -> [A -> A]], NEW fold,
         fold[{}] = base,
         \A s \in SUBSET (1..n) :
            s # {} /\ fold[s \ {Max(s)}] \in A => fold[s] = g[Max(s)][fold[s \ {Max(s)}]]
  PROVE  FoldsTo(fold[1..n], n, A, base, g)
<1> DEFINE f == [i \in 0..n |-> fold[1..i]]
           T == {i \in Nat : i <= n => fold[1..i] \in A}
<1>1. fold[1..0] = base
  OBVIOUS
<1>2. ASSUME NEW i \in Nat, i + 1 <= n, fold[1..i] \in A
      PROVE  fold[1..(i + 1)] = g[i + 1][fold[1..i]] /\ fold[1..(i + 1)] \in A
  <2> DEFINE s == 1..(i + 1)
  <2>1. Max(s) = i + 1 /\ s \ {i + 1} = 1..i /\ s # {}
    <3>1. i + 1 \in Nat \ {0} /\ (i + 1) - 1 = i
      OBVIOUS
    <3> QED BY <3>1, GreatestOfInterval
  <2>2. s \in SUBSET (1..n)
    BY <1>2
  <2> HIDE DEF s
  <2>3. fold[s] = g[i + 1][fold[1..i]]
    BY <1>2, <2>1, <2>2
  <2>4. g[i + 1] \in [A -> A]
    BY <1>2
  <2> QED BY <1>2, <2>3, <2>4 DEF s
<1>3. \A i \in Nat : i <= n => fold[1..i] \in A
  <2>1. 0 \in T
    BY <1>1
  <2>2. ASSUME NEW i \in Nat, i \in T PROVE i + 1 \in T
    BY <1>2, <2>2
  <2>3. Nat \subseteq T
    <3> HIDE DEF T
    <3> QED BY <2>1, <2>2, Induction
  <2> QED BY <2>3
<1>4. f \in [0..n -> A]
  BY <1>3
<1>5. Iterates(f, n, base, g)
  <2> SUFFICES ASSUME NEW i \in 0..n PROVE f[i] = IF i = 0 THEN base ELSE g[i][f[i - 1]]
    BY DEF Iterates
  <2>1. CASE i = 0
    BY <1>1, <2>1
  <2>2. CASE i # 0
    <3>1. i - 1 \in Nat /\ (i - 1) + 1 <= n /\ (i - 1) + 1 = i /\ fold[1..(i - 1)] \in A
      BY <1>3, <2>2
    <3>2. fold[1..i] = g[i][fold[1..(i - 1)]]
      BY <1>2, <3>1
    <3> QED BY <2>2, <3>2
  <2> QED BY <2>1, <2>2
<1>6. f[n] = fold[1..n]
  OBVIOUS
<1> HIDE DEF f
<1> QED BY <1>4, <1>5, <1>6 DEF FoldsTo

LEMMA AppendRange ==
  ASSUME NEW E, NEW s \in Seq(E), NEW e \in E
  PROVE  Range(Append(s, e)) = Range(s) \cup {e}
<1>1. DOMAIN Append(s, e) = (DOMAIN s) \cup {Len(s) + 1}
  OBVIOUS
<1>2. Append(s, e)[Len(s) + 1] = e /\ \A i \in DOMAIN s : Append(s, e)[i] = s[i]
  OBVIOUS
<1> QED BY <1>1, <1>2 DEF Range

\* The elements that pass are those of the list that are in the set.
LEMMA ThoseProperties ==
  ASSUME NEW E, NEW s \in Seq(E), NEW S
  PROVE  /\ Those(s, S) \in Seq(E)
         /\ Range(Those(s, S)) = Range(s) \cap S
<1> DEFINE n == Len(s)
           g == [i \in 1..n |-> [t \in Seq(E) |-> IF s[i] \in S THEN Append(t, s[i]) ELSE t]]
           Step(f) == [i \in 0..n |-> IF i = 0 THEN <<>>
                                      ELSE IF s[i] \in S THEN Append(f[i - 1], s[i])
                                      ELSE f[i - 1]]
           those == CHOOSE f : f = Step(f)
<1>1. n \in Nat /\ \A i \in 1..n : s[i] \in E
  OBVIOUS
<1>2. g \in [1..n -> [Seq(E) -> Seq(E)]]
  BY <1>1
<1>3. PICK f \in [0..n -> Seq(E)] : \A i \in 0..n : f[i] = IF i = 0 THEN <<>> ELSE g[i][f[i - 1]]
  <2> DEFINE A == Seq(E)
             empty == <<>>
  <2>1. n \in Nat /\ empty \in A /\ g \in [1..n -> [A -> A]]
    BY <1>1, <1>2
  <2> HIDE DEF g, n, A, empty
  <2>2. \E f \in [0..n -> A] : Iterates(f, n, empty, g)
    BY <2>1, Iteration
  <2> QED BY <2>2 DEF A, empty, Iterates
<1>4. f = Step(f)
  <2>1. ASSUME NEW i \in 0..n, i # 0
        PROVE  f[i] = IF s[i] \in S THEN Append(f[i - 1], s[i]) ELSE f[i - 1]
    <3>1. i \in 1..n /\ f[i - 1] \in Seq(E)
      BY <2>1, <1>1
    <3> QED BY <1>3, <2>1, <3>1
  <2> QED BY <1>3, <2>1
<1>5. those = Step(those)
  <2> HIDE DEF Step
  <2> QED BY <1>4, Zenon
<1> HIDE DEF those
<1> DEFINE Inv(i) == /\ those[i] \in Seq(E)
                     /\ Range(those[i]) = {s[k] : k \in 1..i} \cap S
           T == {i \in Nat : i <= n => Inv(i)}
<1>6. Inv(0)
  <2>1. those[0] = <<>>
    BY <1>1, <1>5
  <2> QED BY <2>1 DEF Range
<1>7. ASSUME NEW i \in Nat, i + 1 <= n, Inv(i) PROVE Inv(i + 1)
  <2>1. those[i] \in Seq(E) /\ Range(those[i]) = {s[k] : k \in 1..i} \cap S
    BY <1>7
  <2>2. those[i + 1] = IF s[i + 1] \in S THEN Append(those[i], s[i + 1]) ELSE those[i]
    <3>1. i + 1 \in 0..n /\ i + 1 # 0 /\ (i + 1) - 1 = i
      BY <1>1, <1>7
    <3>2. those[i + 1] = Step(those)[i + 1]
      BY <1>5
    <3> QED BY <3>1, <3>2
  <2>3. s[i + 1] \in E
    BY <1>1, <1>7
  <2>4. {s[k] : k \in 1..(i + 1)} = {s[k] : k \in 1..i} \cup {s[i + 1]}
    <3>1. 1..(i + 1) = (1..i) \cup {i + 1}
      OBVIOUS
    <3> QED BY <3>1
  <2>5. CASE s[i + 1] \in S
    <3>1. those[i + 1] = Append(those[i], s[i + 1])
      BY <2>2, <2>5
    <3>2. Range(those[i + 1]) = Range(those[i]) \cup {s[i + 1]}
      BY <2>1, <2>3, <3>1, AppendRange
    <3> QED BY <2>1, <2>3, <2>4, <2>5, <3>1, <3>2
  <2>6. CASE s[i + 1] \notin S
    BY <2>1, <2>2, <2>4, <2>6
  <2> QED BY <2>5, <2>6
<1>8. Inv(n)
  <2> HIDE DEF Inv
  <2>1. 0 \in T
    BY <1>6
  <2>2. ASSUME NEW i \in Nat, i \in T PROVE i + 1 \in T
    BY <1>1, <1>7, <2>2
  <2>3. n \in T
    <3> HIDE DEF T, n
    <3> QED BY <1>1, <2>1, <2>2, Induction
  <2> QED BY <2>3
<1>9. Those(s, S) = those[n]
  BY Zenon DEF Those, those
<1>10. Range(s) = {s[k] : k \in 1..n}
  BY DEF Range
<1> QED BY <1>8, <1>9, <1>10


\* A finite set in a strict total order is sorted: each element is at a place, and
\* before those after it.
StrictlyOrders(order, S) ==
  /\ \A a \in S : <<a, a>> \notin order
  /\ \A a, b \in S : a # b => <<a, b>> \in order \/ <<b, a>> \in order
  /\ \A a, b, c \in S : <<a, b>> \in order /\ <<b, c>> \in order => <<a, c>> \in order

LEMMA SortedProperties ==
  ASSUME NEW S, IsFiniteSet(S), NEW order, StrictlyOrders(order, S)
  PROVE  /\ Sorted(S, order) \in [1..Cardinality(S) -> S]
         /\ \A a \in S : \E i \in 1..Cardinality(S) : Sorted(S, order)[i] = a
         /\ \A i, j \in 1..Cardinality(S) :
               i < j => <<Sorted(S, order)[i], Sorted(S, order)[j]>> \in order
<1> DEFINE n == Cardinality(S)
           before(a) == {b \in S : <<b, a>> \in order}
           rank == [a \in S |-> Cardinality(before(a)) + 1]
<1>1. n \in Nat
  BY FS_CardinalityType
<1>2. \A a \in S : rank[a] \in 1..n
  <2> SUFFICES ASSUME NEW a \in S PROVE Cardinality(before(a)) \in 0..(n - 1)
    BY <1>1
  <2>1. before(a) \in SUBSET (S \ {a})
    BY DEF StrictlyOrders
  <2>2. IsFiniteSet(S \ {a}) /\ Cardinality(S \ {a}) = n - 1
    BY FS_RemoveElement
  <2>3. IsFiniteSet(before(a)) /\ Cardinality(before(a)) <= n - 1
    <3> DEFINE others == S \ {a}
               first == before(a)
    <3>1. first \in SUBSET others /\ IsFiniteSet(others) /\ Cardinality(others) = n - 1
      BY <2>1, <2>2
    <3> HIDE DEF others, first
    <3>2. IsFiniteSet(first) /\ Cardinality(first) <= Cardinality(others)
      BY <3>1, FS_Subset
    <3> QED BY <3>1, <3>2 DEF first
  <2>4. Cardinality(before(a)) \in Nat
    BY <2>3, FS_CardinalityType
  <2> QED BY <1>1, <2>3, <2>4
<1>3. \A a, b \in S : <<a, b>> \in order => rank[a] < rank[b]
  <2> SUFFICES ASSUME NEW a \in S, NEW b \in S, <<a, b>> \in order
               PROVE  rank[a] < rank[b]
    OBVIOUS
  <2>1. before(a) \in SUBSET before(b) /\ a \in before(b) /\ a \notin before(a)
    BY DEF StrictlyOrders
  <2>2. IsFiniteSet(before(b))
    BY FS_Subset
  <2>3. /\ Cardinality(before(a)) <= Cardinality(before(b))
        /\ Cardinality(before(a)) = Cardinality(before(b)) => before(b) = before(a)
    BY <2>1, <2>2, FS_Subset
  <2>4. Cardinality(before(a)) \in Nat /\ Cardinality(before(b)) \in Nat
    BY FS_Subset, FS_CardinalityType
  <2>5. Cardinality(before(a)) < Cardinality(before(b))
    BY <2>1, <2>3, <2>4
  <2> QED BY <2>4, <2>5
<1>4. \A a, b \in S : rank[a] = rank[b] => a = b
  <2> SUFFICES ASSUME NEW a \in S, NEW b \in S, a # b PROVE rank[a] # rank[b]
    OBVIOUS
  <2>1. <<a, b>> \in order \/ <<b, a>> \in order
    BY DEF StrictlyOrders
  <2>2. rank[a] \in Int /\ rank[b] \in Int
    BY <1>1, <1>2
  <2> HIDE DEF rank
  <2> QED BY <1>3, <2>1, <2>2
<1>5. rank \in Surjection(S, 1..n)
  <2>1. rank \in Injection(S, 1..n)
    BY <1>2, <1>4 DEF Injection, IsInjective
  <2>2. IsFiniteSet(1..n) /\ Cardinality(1..n) = n
    BY <1>1, FS_Interval
  <2> QED BY <2>1, <2>2, FS_Injection
<1>6. \A i \in 1..n : \E a \in S : rank[a] = i
  BY <1>5 DEF Surjection
<1>7. ASSUME NEW i \in 1..n
      PROVE  Sorted(S, order)[i] \in S /\ rank[Sorted(S, order)[i]] = i
  <2>1. Sorted(S, order)[i] = CHOOSE a \in S : Cardinality(before(a)) = i - 1
    BY DEF Sorted
  <2>2. PICK a \in S : rank[a] = i
    BY <1>6
  <2>3. Cardinality(before(a)) \in Int /\ Cardinality(before(a)) = i - 1
    <3>1. before(a) \in SUBSET S
      OBVIOUS
    <3>2. Cardinality(before(a)) \in Nat
      BY <3>1, FS_Subset, FS_CardinalityType
    <3> QED BY <2>2, <3>2
  <2>4. /\ Sorted(S, order)[i] \in S
        /\ Cardinality(before(Sorted(S, order)[i])) = i - 1
    BY <2>1, <2>3
  <2> QED BY <1>1, <2>4
<1>8. Sorted(S, order) \in [1..n -> S]
  <2> DEFINE at(i) == CHOOSE a \in S : Cardinality(before(a)) = i - 1
  <2>1. Sorted(S, order) = [i \in 1..n |-> at(i)]
    BY DEF Sorted
  <2> HIDE DEF at
  <2>2. \A i \in 1..n : at(i) \in S
    BY <1>7, <2>1
  <2> QED BY <2>1, <2>2
<1>9. \A a \in S : Sorted(S, order)[rank[a]] = a
  BY <1>2, <1>4, <1>7
<1>10. ASSUME NEW i \in 1..n, NEW j \in 1..n, i < j
       PROVE  <<Sorted(S, order)[i], Sorted(S, order)[j]>> \in order
  <2> DEFINE a == Sorted(S, order)[i]
             b == Sorted(S, order)[j]
  <2>1. a \in S /\ b \in S /\ rank[a] = i /\ rank[b] = j
    BY <1>7
  <2> HIDE DEF a, b, rank
  <2>2. a # b /\ ~ (rank[b] < rank[a])
    BY <1>1, <1>10, <2>1
  <2>3. <<a, b>> \in order \/ <<b, a>> \in order
    BY <2>1, <2>2 DEF StrictlyOrders
  <2>4. <<a, b>> \in order
    BY <1>3, <2>1, <2>2, <2>3
  <2> QED BY <2>4 DEF a, b
<1> HIDE DEF rank
<1> QED BY <1>2, <1>7, <1>8, <1>9, <1>10

-----------------------------------------------------------------------------
(* The sources                                                             *)

\* All the sources that answer or do not, answer.
OthersAnswer(a) ==
  /\ a.wmi = TRUE /\ a.drives = TRUE /\ a.serials = TRUE /\ a.ioctl = TRUE
  /\ a.dxgi = TRUE /\ a.tpm = TRUE

LEMMA OnlyPhysical ==
  ASSUME NEW p, NEW a, a = [AllAnswer EXCEPT !.physical = p]
  PROVE  a.physical = p /\ a.storage = "all" /\ a.registry = "all" /\ OthersAnswer(a)
BY Zenon DEF AllAnswer, OthersAnswer

LEMMA OnlyStorage ==
  ASSUME NEW s, NEW a, a = [AllAnswer EXCEPT !.storage = s]
  PROVE  a.physical = "all" /\ a.storage = s /\ a.registry = "all" /\ OthersAnswer(a)
BY Zenon DEF AllAnswer, OthersAnswer

LEMMA OnlyRegistry ==
  ASSUME NEW r, NEW a, a = [AllAnswer EXCEPT !.registry = r]
  PROVE  a.physical = "all" /\ a.storage = "all" /\ a.registry = r /\ OthersAnswer(a)
BY Zenon DEF AllAnswer, OthersAnswer

\* All but f do.
AllButOne(a, f) ==
  /\ a.physical = "all" /\ a.storage = "all" /\ a.registry = "all"
  /\ a.wmi = (f # "wmi") /\ a.drives = (f # "drives") /\ a.serials = (f # "serials")
  /\ a.ioctl = (f # "ioctl") /\ a.dxgi = (f # "dxgi") /\ a.tpm = (f # "tpm")

LEMMA OnlyOne ==
  ASSUME NEW f \in {"wmi", "drives", "serials", "ioctl", "dxgi", "bcdedit", "tpm"},
         NEW a, a = [AllAnswer EXCEPT ![f] = FALSE]
  PROVE  AllButOne(a, f)
<1>1. f # "physical" /\ f # "storage" /\ f # "registry"
  OBVIOUS
<1>2. a.physical = "all" /\ a.storage = "all" /\ a.registry = "all"
  BY Zenon, <1>1 DEF AllAnswer
<1>3. a.serials = IF f = "serials" THEN FALSE ELSE TRUE
  BY Zenon DEF AllAnswer
<1>4. a.ioctl = IF f = "ioctl" THEN FALSE ELSE TRUE
  BY Zenon DEF AllAnswer
<1>5. a.drives = IF f = "drives" THEN FALSE ELSE TRUE
  BY Zenon DEF AllAnswer
<1>6. a.wmi = IF f = "wmi" THEN FALSE ELSE TRUE
  BY Zenon DEF AllAnswer
<1>7. a.dxgi = IF f = "dxgi" THEN FALSE ELSE TRUE
  BY Zenon DEF AllAnswer
<1>8. a.tpm = IF f = "tpm" THEN FALSE ELSE TRUE
  BY Zenon DEF AllAnswer
<1> QED BY <1>2, <1>3, <1>4, <1>5, <1>6, <1>7, <1>8 DEF AllButOne

\* At most one of the sources is silent.
LEMMA OneSilentFacts ==
  ASSUME NEW a \in OneSilent
  PROVE  /\ a.physical \in {"all", "incomplete", "no media", "none"}
         /\ a.storage \in {"all", "other ids", "none"}
         /\ a.registry \in {"all", "no build", "none"}
         /\ a.serials \in BOOLEAN /\ a.ioctl \in BOOLEAN /\ a.drives \in BOOLEAN
         /\ a.wmi \in BOOLEAN /\ a.dxgi \in BOOLEAN /\ a.tpm \in BOOLEAN
         /\ a.physical # "all" => a.storage = "all" /\ a.ioctl /\ a.serials
         /\ a.storage # "all" => a.physical = "all" /\ a.ioctl
         /\ ~a.ioctl => a.physical = "all" /\ a.storage = "all"
         /\ a.registry # "all" => a.wmi /\ a.tpm
         /\ a.wmi \/ a.dxgi
<1>1. CASE a = AllAnswer
  BY <1>1 DEF AllAnswer
<1>2. ASSUME NEW r \in {"no build", "none"}, a = [AllAnswer EXCEPT !.registry = r]
      PROVE  a.physical = "all" /\ a.storage = "all" /\ a.registry = r /\ OthersAnswer(a)
  BY <1>2, OnlyRegistry, Zenon
<1>3. ASSUME NEW p \in {"incomplete", "no media", "none"}, a = [AllAnswer EXCEPT !.physical = p]
      PROVE  a.physical = p /\ a.storage = "all" /\ a.registry = "all" /\ OthersAnswer(a)
  BY <1>3, OnlyPhysical, Zenon
<1>4. ASSUME NEW s \in {"other ids", "none"}, a = [AllAnswer EXCEPT !.storage = s]
      PROVE  a.physical = "all" /\ a.storage = s /\ a.registry = "all" /\ OthersAnswer(a)
  BY <1>4, OnlyStorage, Zenon
<1>5. ASSUME NEW f \in {"wmi", "drives", "serials", "ioctl", "dxgi", "bcdedit", "tpm"},
             a = [AllAnswer EXCEPT ![f] = FALSE]
      PROVE  AllButOne(a, f)
  BY <1>5, OnlyOne, Zenon
<1>6. \/ a = AllAnswer
      \/ \E r \in {"no build", "none"} : a = [AllAnswer EXCEPT !.registry = r]
      \/ \E p \in {"incomplete", "no media", "none"} : a = [AllAnswer EXCEPT !.physical = p]
      \/ \E s \in {"other ids", "none"} : a = [AllAnswer EXCEPT !.storage = s]
      \/ \E f \in {"wmi", "drives", "serials", "ioctl", "dxgi", "bcdedit", "tpm"} :
            a = [AllAnswer EXCEPT ![f] = FALSE]
  BY Zenon DEF OneSilent
<1>7. CASE \E p \in {"incomplete", "no media", "none"} : a = [AllAnswer EXCEPT !.physical = p]
  <2>1. \E p \in {"incomplete", "no media", "none"} :
           a.physical = p /\ a.storage = "all" /\ a.registry = "all" /\ OthersAnswer(a)
    BY <1>3, <1>7, Zenon
  <2> QED BY <2>1 DEF OthersAnswer
<1>8. CASE \E s \in {"other ids", "none"} : a = [AllAnswer EXCEPT !.storage = s]
  <2>1. \E s \in {"other ids", "none"} :
           a.physical = "all" /\ a.storage = s /\ a.registry = "all" /\ OthersAnswer(a)
    BY <1>4, <1>8, Zenon
  <2> QED BY <2>1 DEF OthersAnswer
<1>9. CASE \E r \in {"no build", "none"} : a = [AllAnswer EXCEPT !.registry = r]
  <2>1. \E r \in {"no build", "none"} :
           a.physical = "all" /\ a.storage = "all" /\ a.registry = r /\ OthersAnswer(a)
    BY <1>2, <1>9, Zenon
  <2> QED BY <2>1 DEF OthersAnswer
<1>10. CASE \E f \in {"wmi", "drives", "serials", "ioctl", "dxgi", "bcdedit", "tpm"} :
              a = [AllAnswer EXCEPT ![f] = FALSE]
  <2>1. PICK f \in {"wmi", "drives", "serials", "ioctl", "dxgi", "bcdedit", "tpm"} :
           AllButOne(a, f)
    BY <1>5, <1>10, Zenon
  <2> QED BY <2>1 DEF AllButOne
<1> QED BY <1>1, <1>6, <1>7, <1>8, <1>9, <1>10

-----------------------------------------------------------------------------
(* The graphics adapter *)

Gpus == [kind : {"real", "virtual", "basic", "software"}, memory : Nat]

LEMMA GreatestValue ==
  ASSUME NEW n \in Nat \ {0}, NEW f, \A i \in 1..n : f[i] \in Nat
  PROVE  \E i \in 1..n : \A j \in 1..n : f[j] <= f[i]
<1> DEFINE Top(m) == \E i \in 1..m : \A j \in 1..m : f[j] <= f[i]
           T == {m \in Nat : m + 1 <= n => Top(m + 1)}
<1>1. Top(1)
  OBVIOUS
<1>2. ASSUME NEW m \in Nat, m + 2 <= n, Top(m + 1) PROVE Top(m + 2)
  <2>1. PICK i \in 1..(m + 1) : \A j \in 1..(m + 1) : f[j] <= f[i]
    BY <1>2
  <2>2. CASE f[m + 2] <= f[i]
    BY <1>2, <2>1, <2>2
  <2>3. CASE f[i] < f[m + 2]
    BY <1>2, <2>1, <2>3
  <2>4. f[i] \in Nat /\ f[m + 2] \in Nat
    BY <1>2
  <2> QED BY <2>2, <2>3, <2>4
<1> HIDE DEF Top
<1>3. n - 1 \in T
  <2>1. 0 \in T
    BY <1>1
  <2>2. ASSUME NEW m \in Nat, m \in T PROVE m + 1 \in T
    <3>1. (m + 1) + 1 <= n => Top((m + 1) + 1)
      <4>1. (m + 1) + 1 = m + 2
        OBVIOUS
      <4> QED BY <1>2, <2>2, <4>1
    <3> QED BY <3>1
  <2> HIDE DEF T
  <2> QED BY <2>1, <2>2, Induction
<1>4. Top((n - 1) + 1)
  BY <1>3
<1>5. (n - 1) + 1 = n
  OBVIOUS
<1> QED BY <1>4, <1>5 DEF Top

\* Of adapters there is one with most memory.
LEMMA LargestProperties ==
  ASSUME NEW gpus \in Seq(Gpus), gpus # <<>>
  PROVE  /\ \E i \in 1..Len(gpus) : Largest(gpus) = gpus[i]
         /\ \A j \in 1..Len(gpus) : gpus[j].memory <= Largest(gpus).memory
<1> DEFINE n == Len(gpus)
           f == [i \in 1..n |-> gpus[i].memory]
           I == {i \in 1..n : \A j \in DOMAIN gpus : gpus[j].memory <= gpus[i].memory}
<1>1. n \in Nat \ {0} /\ DOMAIN gpus = 1..n
  OBVIOUS
<1>2. \A i \in 1..n : f[i] \in Nat
  <2>1. \A i \in 1..n : gpus[i] \in Gpus
    OBVIOUS
  <2> QED BY <2>1 DEF Gpus
<1>3. I # {}
  <2> HIDE DEF n
  <2>1. \E i \in 1..n : \A j \in 1..n : f[j] <= f[i]
    <3> HIDE DEF f
    <3> QED BY <1>1, <1>2, GreatestValue
  <2> QED BY <1>1, <2>1
<1>4. Min(I) \in I
  <2>1. I \in SUBSET Nat
    OBVIOUS
  <2> HIDE DEF I
  <2> QED BY <1>3, <2>1, LeastElement
<1>5. Largest(gpus) = gpus[Min(I)]
  BY <1>1, <1>3, <1>4 DEF Largest, FirstOf, SelectInSeq
<1> QED BY <1>1, <1>4, <1>5

LEMMA WithKindProperties ==
  ASSUME NEW gpus \in Seq(Gpus), NEW k
  PROVE  /\ WithKind(gpus, k) \in Seq(Gpus)
         /\ \A i \in 1..Len(WithKind(gpus, k)) : WithKind(gpus, k)[i].kind = k
<1> DEFINE kept == {g \in Range(gpus) : g.kind = k}
           those == Those(gpus, kept)
<1>1. those \in Seq(Gpus) /\ Range(those) = Range(gpus) \cap kept
  <2> HIDE DEF kept
  <2> QED BY ThoseProperties
<1>2. \A i \in 1..Len(those) : those[i] \in kept
  <2> HIDE DEF those, kept
  <2>1. \A i \in 1..Len(those) : those[i] \in Range(those)
    BY <1>1 DEF Range
  <2> QED BY <1>1, <2>1
<1> QED BY <1>1, <1>2 DEF WithKind

\* The adapter that is shown is as GpuTold says, if one of the sources answers.
LEMMA GpuRight ==
  ASSUME NEW pc, pc.gpus \in Seq(Gpus), NEW a \in OneSilent
  PROVE  GpuTold(GpuSeen(pc, a), pc, a)
<1> DEFINE real == WithKind(pc.gpus, "real")
           capped == [i \in DOMAIN real |->
                        [kind |-> "real", memory |-> IF real[i].memory > 4 THEN 4
                                                     ELSE real[i].memory]]
           gpu == GpuSeen(pc, a)
<1>1. real \in Seq(Gpus) /\ \A i \in 1..Len(real) : real[i].kind = "real"
  BY WithKindProperties
<1>2. a.wmi \/ a.dxgi
  BY OneSilentFacts
<1>3. DOMAIN real = 1..Len(real) /\ Len(real) \in Nat /\ (real # <<>> => Len(real) # 0)
  <2> HIDE DEF real
  <2> QED BY <1>1
<1>4. CASE real # <<>> /\ a.dxgi
  <2>1. /\ \E i \in 1..Len(real) : Largest(real) = real[i]
        /\ \A j \in 1..Len(real) : real[j].memory <= Largest(real).memory
    <3> HIDE DEF real
    <3> QED BY <1>1, <1>4, LargestProperties
  <2>2. DxgiGpu(pc.gpus) = Largest(real)
    BY <1>4 DEF DxgiGpu
  <2>3. Largest(real).kind = "real"
    BY <1>1, <2>1
  <2>4. gpu = Largest(real)
    <3>1. Largest(real) # NoGpu
      BY <2>3 DEF NoGpu
    <3> HIDE DEF real
    <3> QED BY <1>4, <2>2, <3>1 DEF GpuSeen
  <2> HIDE DEF gpu
  <2>5. gpu.kind = "real" /\ \A j \in DOMAIN real : real[j].memory <= gpu.memory
    BY <1>3, <2>1, <2>3, <2>4
  <2> HIDE DEF real
  <2>6. gpu.kind = "real" <=> real # <<>>
    BY <1>4, <2>5
  <2> QED BY <2>5, <2>6 DEF GpuTold, real, gpu
<1>5. CASE real # <<>> /\ ~a.dxgi
  <2>1. \A i \in 1..Len(real) : real[i].memory \in Nat
    <3>1. \A i \in 1..Len(real) : real[i] \in Gpus
      <4> HIDE DEF real
      <4> QED BY <1>1
    <3> QED BY <3>1 DEF Gpus
  <2>2. \A i \in 1..Len(real) : capped[i] =
           [kind |-> "real", memory |-> IF real[i].memory > 4 THEN 4 ELSE real[i].memory]
    BY <1>3
  <2>3. capped = [i \in 1..Len(real) |-> capped[i]]
    BY <1>3
  <2>4. gpu = Largest(capped)
    <3>1. WmiGpu(pc.gpus) = Largest(capped)
      BY <1>5 DEF WmiGpu
    <3> QED BY <1>2, <1>5, <3>1 DEF GpuSeen
  <2> HIDE DEF real, capped, gpu
  <2>5. \A i \in 1..Len(real) : /\ capped[i] \in Gpus /\ capped[i].kind = "real"
                                /\ capped[i].memory <= 4
                                /\ capped[i].memory = 4 \/ capped[i].memory = real[i].memory
    <3> SUFFICES ASSUME NEW i \in 1..Len(real)
                 PROVE  /\ capped[i] \in Gpus /\ capped[i].kind = "real"
                        /\ capped[i].memory <= 4
                        /\ capped[i].memory = 4 \/ capped[i].memory = real[i].memory
      OBVIOUS
    <3> DEFINE m == IF real[i].memory > 4 THEN 4 ELSE real[i].memory
    <3>1. m \in Nat /\ m <= 4 /\ (m = 4 \/ m = real[i].memory)
      BY <2>1
    <3>2. capped[i] = [kind |-> "real", memory |-> m]
      BY <2>2
    <3> HIDE DEF m
    <3> QED BY <3>1, <3>2 DEF Gpus
  <2>6. capped \in Seq(Gpus) /\ capped # <<>> /\ Len(capped) = Len(real)
    BY <1>3, <1>5, <2>3, <2>5
  <2>7. /\ \E i \in 1..Len(capped) : Largest(capped) = capped[i]
        /\ \A j \in 1..Len(capped) : capped[j].memory <= Largest(capped).memory
    BY <2>6, LargestProperties
  <2>8. gpu.kind = "real" /\ gpu.memory <= 4 /\ gpu.memory \in Nat
    BY <2>4, <2>5, <2>6, <2>7 DEF Gpus
  <2>9. ASSUME NEW j \in DOMAIN real
        PROVE  real[j].memory <= gpu.memory \/ (~a.dxgi /\ gpu.memory = 4)
    <3>1. j \in 1..Len(real) /\ capped[j].memory <= gpu.memory
      BY <1>3, <2>4, <2>6, <2>7
    <3>2. capped[j].memory = 4 \/ capped[j].memory = real[j].memory
      BY <2>5, <3>1
    <3>3. CASE capped[j].memory = real[j].memory
      BY <3>1, <3>3
    <3>4. CASE capped[j].memory = 4
      BY <1>5, <2>8, <3>1, <3>4
    <3> QED BY <3>2, <3>3, <3>4
  <2>10. gpu.kind = "real" <=> real # <<>>
    BY <1>5, <2>8
  <2> QED BY <2>9, <2>10 DEF GpuTold, real, gpu
<1>6. CASE real = <<>>
  <2> DEFINE virtual == WithKind(pc.gpus, "virtual")
  <2>1. virtual # <<>> => Head(virtual).kind = "virtual"
    <3>1. virtual \in Seq(Gpus) /\ \A i \in 1..Len(virtual) : virtual[i].kind = "virtual"
      BY WithKindProperties
    <3> HIDE DEF virtual
    <3> QED BY <3>1
  <2>2. DxgiGpu(pc.gpus).kind # "real"
    <3>1. DxgiGpu(pc.gpus) = IF virtual # <<>> THEN Head(virtual)
                             ELSE IF WithKind(pc.gpus, "basic") # <<>> THEN NoDriver ELSE NoGpu
      BY <1>6 DEF DxgiGpu
    <3> HIDE DEF virtual
    <3> QED BY <2>1, <3>1 DEF NoDriver, NoGpu
  <2>3. WmiGpu(pc.gpus).kind # "real"
    <3>1. WmiGpu(pc.gpus) = IF WithKind(pc.gpus, "basic") # <<>> THEN NoDriver ELSE NoGpu
      BY <1>6 DEF WmiGpu
    <3> QED BY <3>1 DEF NoDriver, NoGpu
  <2>4. gpu.kind # "real"
    BY <2>2, <2>3 DEF GpuSeen, NoGpu
  <2>5. DOMAIN real = {}
    BY <1>6
  <2>6. gpu.kind = "real" <=> real # <<>>
    BY <1>6, <2>4
  <2> HIDE DEF gpu, real
  <2>7. \A i \in DOMAIN real : real[i].memory <= gpu.memory \/ (~a.dxgi /\ gpu.memory = 4)
    BY <2>5
  <2> QED BY <2>6, <2>7 DEF GpuTold, real, gpu
<1> QED BY <1>4, <1>5, <1>6

-----------------------------------------------------------------------------
(* The disks *)

Disks == [id : Nat \ {0}, model : SUBSET STRING, size : Nat,
          bus : {"NVMe", "SATA", "USB"}, media : {"SSD", "HDD"}]

Rows == [id : Nat \ {0}, model : SUBSET STRING, size : Nat,
         bus : {"NVMe", "SATA", "USB"}, media : {"SSD", "HDD", "Unknown"}]

\* The disks of a PC, as HardwareAssumption has them.
AreDisks(disks) ==
  /\ disks \in Seq(Disks) /\ disks # <<>>
  /\ \A i \in DOMAIN disks :
        /\ "nvme" \in disks[i].model => disks[i].bus = "NVMe"
        /\ disks[i].bus = "NVMe" => disks[i].media = "SSD"
  /\ \A i, j \in DOMAIN disks :
        /\ disks[i].id = disks[j].id => i = j
        /\ disks[i].model = disks[j].model => disks[i].media = disks[j].media
                                              /\ disks[i].bus = disks[j].bus

\* The row r of MSFT_PhysicalDisk says of disk d what it is, or not its medium.
Tells(r, d) ==
  r.id = d.id /\ r.model = d.model /\ r.size = d.size /\ r.bus = d.bus
  /\ r.media \in {d.media, "Unknown"}

\* A row without its medium still tells.
LEMMA NoMediaTells ==
  ASSUME NEW d \in Disks, NEW r, r = [d EXCEPT !.media = "Unknown"]
  PROVE  r \in Rows /\ Tells(r, d)
<1>1. r = [id |-> d.id, model |-> d.model, size |-> d.size, bus |-> d.bus,
           media |-> "Unknown"]
  BY Zenon DEF Disks
<1> QED BY <1>1 DEF Disks, Rows, Tells

\* Every row is of a disk, and every disk has a row unless it is left out.
AreRows(rows, disks, a) ==
  /\ rows \in Seq(Rows)
  /\ \A i \in DOMAIN rows : \E k \in DOMAIN disks : Tells(rows[i], disks[k])
  /\ a.physical # "no media" => \A i \in DOMAIN rows : rows[i].media \in {"SSD", "HDD"}
  /\ \A k \in DOMAIN disks :
        \/ a.physical = "none"
        \/ a.physical = "incomplete" /\ k = 1
        \/ \E i \in DOMAIN rows : Tells(rows[i], disks[k])
  /\ a.physical = "none" => rows = <<>>

LEMMA RowsTell ==
  ASSUME NEW disks, AreDisks(disks), NEW a \in OneSilent
  PROVE  AreRows(PhysicalRows(disks, a), disks, a)
<1> DEFINE rows == PhysicalRows(disks, a)
           n == Len(disks)
<1> SUFFICES AreRows(rows, disks, a)
  OBVIOUS
<1>1. /\ n \in Nat \ {0} /\ DOMAIN disks = 1..n
      /\ \A i \in 1..n : disks[i] \in Disks
  BY DEF AreDisks
<1>2. CASE a.physical = "all"
  <2>1. rows = [i \in 1..n |-> disks[i]]
    <3>1. rows = [i \in DOMAIN disks |-> disks[i]]
      BY <1>2, Zenon DEF PhysicalRows
    <3> QED BY <1>1, <3>1
  <2>2. \A i \in 1..n : disks[i] \in Rows /\ Tells(disks[i], disks[i])
                        /\ disks[i].media \in {"SSD", "HDD"}
    BY <1>1 DEF Disks, Rows, Tells
  <2>3. rows \in Seq(Rows) /\ DOMAIN rows = 1..n
    BY <1>1, <2>1, <2>2
  <2> HIDE DEF n, rows
  <2> QED BY <1>1, <1>2, <2>1, <2>2, <2>3 DEF AreRows
<1>3. CASE a.physical = "no media"
  <2> DEFINE r(i) == [disks[i] EXCEPT !.media = "Unknown"]
  <2>1. rows = [i \in 1..n |-> r(i)]
    <3>1. rows = [i \in DOMAIN disks |-> r(i)]
      BY <1>3, Zenon DEF PhysicalRows
    <3> HIDE DEF r
    <3> QED BY <1>1, <3>1
  <2>2. \A i \in 1..n : r(i) \in Rows /\ Tells(r(i), disks[i])
    BY <1>1, NoMediaTells, Zenon
  <2> HIDE DEF n, rows, r
  <2>3. rows \in Seq(Rows) /\ DOMAIN rows = 1..n
    BY <1>1, <2>1, <2>2
  <2> QED BY <1>1, <1>3, <2>1, <2>2, <2>3 DEF AreRows
<1>4. CASE a.physical = "incomplete"
  <2>1. disks \in Seq(Disks) /\ disks # <<>>
    BY DEF AreDisks
  <2>2. /\ Tail(disks) \in Seq(Disks) /\ Len(Tail(disks)) = n - 1
        /\ \A i \in 1..(n - 1) : Tail(disks)[i] = disks[i + 1]
    BY <2>1, HeadTailProperties
  <2>3. DOMAIN Tail(disks) = 1..(n - 1)
    BY <2>2
  <2>4. rows = [i \in 1..(n - 1) |-> disks[i + 1]]
    <3>1. rows = [i \in DOMAIN Tail(disks) |-> Tail(disks)[i]]
      BY <1>4, Zenon DEF PhysicalRows
    <3> QED BY <2>2, <2>3, <3>1
  <2>5. \A i \in 1..n : disks[i] \in Rows /\ Tells(disks[i], disks[i])
                        /\ disks[i].media \in {"SSD", "HDD"}
    BY <1>1 DEF Disks, Rows, Tells
  <2> HIDE DEF n, rows
  <2>6. rows \in Seq(Rows) /\ DOMAIN rows = 1..(n - 1)
    BY <1>1, <2>4, <2>5
  <2>7. \A i \in 1..(n - 1) : i + 1 \in 1..n /\ rows[i] = disks[i + 1]
    BY <1>1, <2>4
  <2>8. \A k \in 1..n : k # 1 => k - 1 \in 1..(n - 1) /\ rows[k - 1] = disks[k]
    BY <1>1, <2>4
  <2> QED BY <1>1, <1>4, <2>5, <2>6, <2>7, <2>8 DEF AreRows
<1>5. CASE a.physical = "none"
  <2>1. rows = <<>>
    BY <1>5 DEF PhysicalRows
  <2> HIDE DEF rows
  <2> QED BY <1>5, <2>1 DEF AreRows
<1> QED BY <1>2, <1>3, <1>4, <1>5, OneSilentFacts

\* The row is of the disk itself, of one like it, or none, if there is none for it.
Matches(row, rows, d) ==
  /\ row = NoDisk \/ \E i \in DOMAIN rows : row = rows[i]
                                  /\ (row.id = d.id \/ row.model = d.model)
  /\ (\E i \in DOMAIN rows : Tells(rows[i], d)) => row # NoDisk

\* Which the storage map finds.
LEMMA StorageMatch ==
  ASSUME NEW rows \in Seq(Rows), NEW d, NEW a
  PROVE  Matches(StoragePhysical(rows, d, a), rows, d)
<1> DEFINE I == {i \in 1..Len(rows) : a.storage = "all" /\ rows[i].id = d.id}
           J == {i \in 1..Len(rows) : rows[i].model = d.model /\ rows[i].size = d.size}
           same == IF I # {} THEN rows[Min(I)] ELSE NoDisk
           like == IF J # {} THEN rows[Min(J)] ELSE NoDisk
<1>1. I # {} => Min(I) \in I
  <2>1. I \in SUBSET Nat
    OBVIOUS
  <2> HIDE DEF I
  <2> QED BY <2>1, LeastElement
<1>2. J # {} => Min(J) \in J
  <2>1. J \in SUBSET Nat
    OBVIOUS
  <2> HIDE DEF J
  <2> QED BY <2>1, LeastElement
<1>3. \A i \in 1..Len(rows) : rows[i] # NoDisk
  <2>1. \A i \in 1..Len(rows) : rows[i] \in Rows
    OBVIOUS
  <2> QED BY <2>1 DEF Rows, NoDisk
<1>4. StoragePhysical(rows, d, a) = IF same # NoDisk THEN same ELSE like
  BY <1>1, <1>2 DEF StoragePhysical, FirstOf, SelectInSeq
<1>5. DOMAIN rows = 1..Len(rows)
  OBVIOUS
<1>6. (\E i \in DOMAIN rows : Tells(rows[i], d)) => J # {}
  BY <1>5 DEF Tells
<1>7. I # {} => same # NoDisk /\ same = rows[Min(I)] /\ same.id = d.id /\ Min(I) \in 1..Len(rows)
  BY <1>1, <1>3
<1>8. J # {} => like # NoDisk /\ like = rows[Min(J)] /\ like.model = d.model
        /\ Min(J) \in 1..Len(rows)
  BY <1>2, <1>3
<1>9. (I = {} => same = NoDisk) /\ (J = {} => like = NoDisk)
  OBVIOUS
<1> HIDE DEF I, J, same, like
<1> QED BY <1>4, <1>5, <1>6, <1>7, <1>8, <1>9 DEF Matches

\* A match says the bus, and of the medium nothing wrong.
LEMMA MatchTells ==
  ASSUME NEW disks, AreDisks(disks), NEW a, NEW rows, AreRows(rows, disks, a),
         NEW k \in DOMAIN disks, NEW row,
         row = NoDisk \/ \E i \in DOMAIN rows :
            row = rows[i] /\ (row.id = disks[k].id \/ row.model = disks[k].model)
  PROVE  row = NoDisk \/ (row.bus = disks[k].bus /\ row.media \in {disks[k].media, "Unknown"})
<1>1. SUFFICES ASSUME NEW i \in DOMAIN rows, row = rows[i],
                      row.id = disks[k].id \/ row.model = disks[k].model
               PROVE  row.bus = disks[k].bus /\ row.media \in {disks[k].media, "Unknown"}
  OBVIOUS
<1>2. PICK j \in DOMAIN disks : Tells(row, disks[j])
  BY <1>1 DEF AreRows
<1>3. disks[j].bus = disks[k].bus /\ disks[j].media = disks[k].media
  BY <1>1, <1>2 DEF AreDisks, Tells
<1> QED BY <1>2, <1>3 DEF Tells

\* The types by index are right, and where there is none DeviceIoControl answers.
LEMMA MappedRight ==
  ASSUME NEW disks, AreDisks(disks), NEW a \in OneSilent,
         NEW rows, AreRows(rows, disks, a), NEW k \in DOMAIN disks
  PROVE  \/ MappedType(rows, disks[k], a) = "" /\ a.ioctl
         \/ MappedType(rows, disks[k], a) = IF disks[k].bus = "NVMe" THEN "NVMe" ELSE disks[k].media
<1> DEFINE d == disks[k]
           row == StoragePhysical(rows, d, a)
<1>1. Matches(row, rows, d)
  <2>1. rows \in Seq(Rows)
    BY DEF AreRows
  <2> HIDE DEF d
  <2> QED BY <2>1, StorageMatch
<1>2. row = NoDisk \/ (row.bus = d.bus /\ row.media \in {d.media, "Unknown"})
  <2> HIDE DEF row
  <2> QED BY <1>1, MatchTells DEF Matches
<1>3. a.ioctl \in BOOLEAN /\ (~a.ioctl => a.physical = "all" /\ a.storage = "all")
  BY OneSilentFacts
<1>4. d \in Disks
  BY DEF AreDisks
<1>5. ~a.ioctl => row # NoDisk /\ row.media # "Unknown"
  <2> SUFFICES ASSUME ~a.ioctl PROVE row # NoDisk /\ row.media # "Unknown"
    OBVIOUS
  <2> HIDE DEF row
  <2>1. \E i \in DOMAIN rows : Tells(rows[i], d)
    BY <1>3 DEF AreRows
  <2>2. row # NoDisk /\ \E i \in DOMAIN rows : row = rows[i]
    BY <1>1, <2>1 DEF Matches
  <2> QED BY <1>3, <2>2 DEF AreRows
<1>6. MappedType(rows, d, a) =
        IF a.storage = "none" THEN ""
        ELSE IF (IF row = NoDisk THEN d.bus ELSE row.bus) = "NVMe" THEN "NVMe"
        ELSE IF row.media = "Unknown" THEN ""
        ELSE row.media
  BY DEF MappedType
<1>7. NoDisk.media = "Unknown"
  BY DEF NoDisk
<1> HIDE DEF d, row
<1>8. d.media \in {"SSD", "HDD"}
  BY <1>4 DEF Disks
<1>9. \/ MappedType(rows, d, a) = "" /\ a.ioctl
      \/ MappedType(rows, d, a) = IF d.bus = "NVMe" THEN "NVMe" ELSE d.media
  BY <1>2, <1>3, <1>5, <1>6, <1>7, <1>8
<1> QED BY <1>9 DEF d

\* The physical disk that is found best is of this disk or of one that is taken for
\* it; with a row for this disk it is of this one, or of one that is called alike.
LEMMA BestMatch ==
  ASSUME NEW rows \in Seq(Rows), NEW d, NEW a, a.serials \in BOOLEAN
  PROVE  /\ BestPhysical(rows, d, a) = NoDisk
            \/ \E i \in DOMAIN rows :
                  /\ BestPhysical(rows, d, a) = rows[i]
                  /\ \/ a.serials /\ rows[i].id = d.id
                     \/ Alike(rows[i], d)
                     \/ Distance(rows[i], d) <= 4
         /\ (\E i \in DOMAIN rows : Tells(rows[i], d)) =>
               \E i \in DOMAIN rows :
                  /\ BestPhysical(rows, d, a) = rows[i]
                  /\ IF a.serials THEN rows[i].id = d.id ELSE Alike(rows[i], d)
<1> DEFINE I == {i \in 1..Len(rows) : a.serials /\ rows[i].id = d.id}
           J == {i \in 1..Len(rows) : Alike(rows[i], d)}
           K == {i \in 1..Len(rows) : Distance(rows[i], d) <= 4 /\
                   \A j \in DOMAIN rows : Distance(rows[i], d) <= Distance(rows[j], d)}
           same == IF I # {} THEN rows[Min(I)] ELSE NoDisk
           like == IF J # {} THEN rows[Min(J)] ELSE NoDisk
           near == IF K # {} THEN rows[Min(K)] ELSE NoDisk
<1>0. ASSUME NEW L \in SUBSET (1..Len(rows)), L # {} PROVE Min(L) \in L
  <2>1. L \in SUBSET Nat
    OBVIOUS
  <2> QED BY <1>0, <2>1, LeastElement
<1>1. (I # {} => Min(I) \in I) /\ (J # {} => Min(J) \in J) /\ (K # {} => Min(K) \in K)
  <2>1. I \in SUBSET (1..Len(rows)) /\ J \in SUBSET (1..Len(rows)) /\ K \in SUBSET (1..Len(rows))
    OBVIOUS
  <2> HIDE DEF I, J, K
  <2> QED BY <1>0, <2>1
<1>2. \A i \in 1..Len(rows) : rows[i] # NoDisk
  <2>1. \A i \in 1..Len(rows) : rows[i] \in Rows
    OBVIOUS
  <2> QED BY <2>1 DEF Rows, NoDisk
<1>3. FirstOf(rows, LAMBDA r : a.serials /\ r.id = d.id, NoDisk) = same
  BY <1>1 DEF FirstOf, SelectInSeq
<1>4. FirstOf(rows, LAMBDA r : Alike(r, d), NoDisk) = like
  BY <1>1 DEF FirstOf, SelectInSeq
<1>5. FirstOf(rows, LAMBDA r : Distance(r, d) <= 4 /\
                    \A i \in DOMAIN rows : Distance(r, d) <= Distance(rows[i], d), NoDisk) = near
  BY <1>1 DEF FirstOf, SelectInSeq
<1>6. BestPhysical(rows, d, a) =
         IF same # NoDisk THEN same ELSE IF like # NoDisk THEN like ELSE near
  <2> HIDE DEF same, like, near
  <2> QED BY <1>3, <1>4, <1>5, Zenon DEF BestPhysical
<1>7. (\E i \in DOMAIN rows : Tells(rows[i], d)) => J # {} /\ (a.serials => I # {})
  BY DEF Tells, Alike
<1>12. DOMAIN rows = 1..Len(rows)
  OBVIOUS
<1>8. ASSUME I # {}
      PROVE  /\ same # NoDisk /\ a.serials
             /\ \E i \in DOMAIN rows : same = rows[i] /\ rows[i].id = d.id
  <2>1. Min(I) \in 1..Len(rows) /\ same = rows[Min(I)] /\ rows[Min(I)].id = d.id /\ a.serials
    BY <1>1, <1>8
  <2> HIDE DEF I, same
  <2> QED BY <1>2, <1>12, <2>1
<1>9. ASSUME J # {}
      PROVE  like # NoDisk /\ \E i \in DOMAIN rows : like = rows[i] /\ Alike(rows[i], d)
  <2>1. Min(J) \in 1..Len(rows) /\ like = rows[Min(J)] /\ Alike(rows[Min(J)], d)
    BY <1>1, <1>9
  <2> HIDE DEF J, like
  <2> QED BY <1>2, <1>12, <2>1
<1>10. ASSUME K # {}
       PROVE  \E i \in DOMAIN rows : near = rows[i] /\ Distance(rows[i], d) <= 4
  <2>1. Min(K) \in 1..Len(rows) /\ near = rows[Min(K)] /\ Distance(rows[Min(K)], d) <= 4
    BY <1>1, <1>10
  <2> HIDE DEF K, near
  <2> QED BY <1>12, <2>1
<1>11. (I = {} => same = NoDisk) /\ (J = {} => like = NoDisk) /\ (K = {} => near = NoDisk)
  OBVIOUS
<1> HIDE DEF I, J, K, same, like, near
<1> QED BY <1>6, <1>7, <1>8, <1>9, <1>10, <1>11

\* The bus of the physical disk that is found best is this disk's, or lent.
LEMMA BusFound ==
  ASSUME NEW disks, AreDisks(disks), NEW a \in OneSilent,
         NEW rows, AreRows(rows, disks, a), NEW k \in DOMAIN disks, disks[k].bus # "NVMe",
         NEW matched, matched = BestPhysical(rows, disks[k], a)
  PROVE  matched = NoDisk \/ matched.bus = disks[k].bus \/ Lent(matched.bus, disks[k], disks, a)
<1> DEFINE d == disks[k]
<1>1. rows \in Seq(Rows)
  BY DEF AreRows
<1>2. a.serials \in BOOLEAN /\ (a.physical # "all" => a.serials)
  BY OneSilentFacts
<1>3. /\ matched = NoDisk
         \/ \E i \in DOMAIN rows :
               /\ matched = rows[i]
               /\ \/ a.serials /\ rows[i].id = d.id
                  \/ Alike(rows[i], d)
                  \/ Distance(rows[i], d) <= 4
      /\ (\E i \in DOMAIN rows : Tells(rows[i], d)) =>
            \E i \in DOMAIN rows :
               /\ matched = rows[i]
               /\ IF a.serials THEN rows[i].id = d.id ELSE Alike(rows[i], d)
  <2>1. /\ BestPhysical(rows, d, a) = NoDisk
           \/ \E i \in DOMAIN rows :
                 /\ BestPhysical(rows, d, a) = rows[i]
                 /\ \/ a.serials /\ rows[i].id = d.id
                    \/ Alike(rows[i], d)
                    \/ Distance(rows[i], d) <= 4
        /\ (\E i \in DOMAIN rows : Tells(rows[i], d)) =>
              \E i \in DOMAIN rows :
                 /\ BestPhysical(rows, d, a) = rows[i]
                 /\ IF a.serials THEN rows[i].id = d.id ELSE Alike(rows[i], d)
    <3> HIDE DEF d
    <3> QED BY <1>1, <1>2, BestMatch
  <2>2. matched = BestPhysical(rows, d, a)
    OBVIOUS
  <2> HIDE DEF d
  <2> QED BY <2>1, <2>2, Zenon
\* The disk that a row tells of.
<1>4. ASSUME NEW i \in DOMAIN rows
      PROVE  \E e \in Range(disks) :
                /\ e.bus = rows[i].bus /\ e.id = rows[i].id
                /\ Alike(rows[i], d) => Alike(e, d)
                /\ Distance(rows[i], d) <= 4 => Distance(e, d) <= 4
                /\ e.id = d.id => e.bus = d.bus
  <2>1. PICK j \in DOMAIN disks : Tells(rows[i], disks[j])
    BY DEF AreRows
  <2>2. disks[j] \in Range(disks)
    BY DEF Range
  <2>3. disks[j].id = d.id => disks[j].bus = d.bus
    BY DEF AreDisks
  <2>4. Distance(rows[i], d) <= 4 => Distance(disks[j], d) <= 4
    BY <2>1 DEF Tells, Distance
  <2>5. Alike(rows[i], d) => Alike(disks[j], d)
    BY <2>1 DEF Tells, Alike
  <2> HIDE DEF d
  <2> QED BY <2>1, <2>2, <2>3, <2>4, <2>5 DEF Tells
<1>5. CASE \E i \in DOMAIN rows : Tells(rows[i], d)
  <2>1. PICK i \in DOMAIN rows : /\ matched = rows[i]
                                 /\ IF a.serials THEN rows[i].id = d.id ELSE Alike(rows[i], d)
    BY <1>3, <1>5
  <2>2. PICK e \in Range(disks) : /\ e.bus = rows[i].bus /\ e.id = rows[i].id
                                  /\ Alike(rows[i], d) => Alike(e, d)
                                  /\ e.id = d.id => e.bus = d.bus
    BY <1>4
  <2> HIDE DEF d
  <2>3. matched.bus = d.bus \/ Lent(matched.bus, d, disks, a)
    BY <2>1, <2>2 DEF Lent, d
  <2> QED BY <2>3 DEF d
<1>6. CASE a.physical = "none"
  <2>1. rows = <<>>
    BY <1>6 DEF AreRows
  <2> QED BY <1>3, <2>1
<1>7. CASE a.physical = "incomplete" /\ k = 1 /\ matched # NoDisk
  <2>1. d = Head(disks)
    BY <1>7 DEF AreDisks
  <2>2. PICK i \in DOMAIN rows : /\ matched = rows[i]
                                 /\ \/ a.serials /\ rows[i].id = d.id
                                    \/ Alike(rows[i], d)
                                    \/ Distance(rows[i], d) <= 4
    BY <1>3, <1>7
  <2>3. PICK e \in Range(disks) : /\ e.bus = rows[i].bus /\ e.id = rows[i].id
                                  /\ Alike(rows[i], d) => Alike(e, d)
                                  /\ Distance(rows[i], d) <= 4 => Distance(e, d) <= 4
                                  /\ e.id = d.id => e.bus = d.bus
    BY <1>4
  <2>4. d.bus # "NVMe"
    OBVIOUS
  <2> HIDE DEF d
  <2>5. matched.bus = d.bus \/ Lent(matched.bus, d, disks, a)
    BY <1>7, <2>1, <2>2, <2>3, <2>4 DEF Lent
  <2> QED BY <2>5 DEF d
<1>8. \/ a.physical = "none"
      \/ a.physical = "incomplete" /\ k = 1
      \/ \E i \in DOMAIN rows : Tells(rows[i], d)
  BY DEF AreRows
<1> QED BY <1>5, <1>6, <1>7, <1>8

\* What a fixed disk's row says is right, but for a bus that is lent.
LEMMA RowRight ==
  ASSUME NEW disks, AreDisks(disks), NEW a \in OneSilent,
         NEW rows, AreRows(rows, disks, a), NEW k \in DOMAIN disks, disks[k].bus # "USB"
  PROVE  /\ DiskRow(rows, disks[k], a).id = disks[k].id
         /\ DiskRow(rows, disks[k], a).type = disks[k].media
         /\ DiskRow(rows, disks[k], a).bus = disks[k].bus
            \/ Lent(DiskRow(rows, disks[k], a).bus, disks[k], disks, a)
<1> DEFINE d == disks[k]
           matched == BestPhysical(rows, d, a)
           mapped == MappedType(rows, d, a)
           ioctl == IF mapped = "" THEN IoctlType(d, a) ELSE "Unknown"
           inferred == InferredType(matched, d)
<1>1. \/ mapped = "" /\ a.ioctl
      \/ mapped = IF d.bus = "NVMe" THEN "NVMe" ELSE d.media
  BY MappedRight
<1>2. d \in Disks /\ (d.bus = "NVMe" => d.media = "SSD") /\ ("nvme" \in d.model => d.bus = "NVMe")
  BY DEF AreDisks
<1>3. d.bus \in {"NVMe", "SATA"} /\ d.media \in {"SSD", "HDD"}
  BY <1>2 DEF Disks
<1>4. rows \in Seq(Rows)
  BY DEF AreRows
<1>5. d.bus # "NVMe" => matched = NoDisk \/ matched.bus = d.bus \/ Lent(matched.bus, d, disks, a)
  BY <1>3, BusFound
<1>6. NoDisk.bus = "Unknown"
  BY DEF NoDisk
<1>7. DiskRow(rows, d, a) =
        [id |-> d.id, type |-> DiskType(mapped, ioctl, inferred),
         bus |-> IF "NVMe" \in {mapped, ioctl} THEN "NVMe" ELSE InferredBus(matched, d)]
  BY DEF DiskRow
<1> HIDE DEF matched, mapped, inferred
<1>8. IF d.bus = "NVMe" THEN "NVMe" \in {mapped, ioctl} ELSE "NVMe" \notin {mapped, ioctl}
  BY <1>1, <1>3 DEF IoctlType
<1>9. DiskType(mapped, ioctl, inferred) = d.media
  BY <1>1, <1>2, <1>3 DEF IoctlType, DiskType
<1>10. d.bus # "NVMe" => InferredBus(matched, d) = d.bus \/ Lent(InferredBus(matched, d), d, disks, a)
  BY <1>2, <1>3, <1>5, <1>6 DEF InferredBus
<1> HIDE DEF ioctl, d
<1>11. /\ DiskRow(rows, d, a).id = d.id
       /\ DiskRow(rows, d, a).type = d.media
       /\ DiskRow(rows, d, a).bus = d.bus \/ Lent(DiskRow(rows, d, a).bus, d, disks, a)
  BY <1>7, <1>8, <1>9, <1>10
<1> QED BY <1>11 DEF d

\* Of the disks with a row's number there is one.
LEMMA DiskOfRow ==
  ASSUME NEW pc, AreDisks(pc.disks), NEW k \in DOMAIN pc.disks, NEW row, row.id = pc.disks[k].id
  PROVE  DiskOf(pc, row) = pc.disks[k]
<1>1. pc.disks[k] \in Range(pc.disks)
  BY DEF Range
<1>2. \A d \in Range(pc.disks) : d.id = row.id => d = pc.disks[k]
  BY DEF Range, AreDisks
<1> QED BY <1>1, <1>2 DEF DiskOf

\* The fixed disks are those of the PC.
LEMMA FixedDisks ==
  ASSUME NEW disks, AreDisks(disks)
  PROVE  /\ Fixed(disks) \in Seq(Disks)
         /\ \A i \in DOMAIN Fixed(disks) :
               \E k \in DOMAIN disks : Fixed(disks)[i] = disks[k] /\ disks[k].bus # "USB"
<1> DEFINE kept == {d \in Range(disks) : d.bus # "USB"}
           those == Those(disks, kept)
<1>1. those \in Seq(Disks) /\ Range(those) = Range(disks) \cap kept
  <2>1. disks \in Seq(Disks)
    BY DEF AreDisks
  <2> HIDE DEF kept
  <2> QED BY <2>1, ThoseProperties
<1>2. \A i \in DOMAIN those : those[i] \in kept
  <2> HIDE DEF those, kept
  <2>1. \A i \in DOMAIN those : those[i] \in Range(those)
    BY DEF Range
  <2> QED BY <1>1, <2>1
<1>3. \A i \in DOMAIN those : \E k \in DOMAIN disks : those[i] = disks[k] /\ disks[k].bus # "USB"
  <2> HIDE DEF those
  <2> QED BY <1>2 DEF Range
<1>4. Fixed(disks) = those
  BY DEF Fixed
<1> HIDE DEF those
<1> QED BY <1>1, <1>3, <1>4

\* Every disk that is shown is told for what it is.
LEMMA DisksTold ==
  ASSUME NEW pc, AreDisks(pc.disks), NEW a \in OneSilent
  PROVE  \A i \in DOMAIN DisksSeen(pc, a) : DiskTold(DisksSeen(pc, a)[i], pc, a)
<1> DEFINE rows == PhysicalRows(pc.disks, a)
           fixed == IF a.drives THEN Fixed(pc.disks) ELSE <<>>
<1>1. AreRows(rows, pc.disks, a)
  BY RowsTell
<1>2. DisksSeen(pc, a) = IF fixed # <<>> THEN [i \in DOMAIN fixed |-> DiskRow(rows, fixed[i], a)]
                         ELSE [i \in DOMAIN rows |-> PhysicalRow(rows[i])]
  BY DEF DisksSeen
<1>3. \A i \in DOMAIN fixed :
         \E k \in DOMAIN pc.disks : fixed[i] = pc.disks[k] /\ pc.disks[k].bus # "USB"
  BY FixedDisks
<1>6. fixed = <<>> => StandIn(pc, a)
  BY DEF StandIn
<1> HIDE DEF rows, fixed
<1>4. CASE fixed # <<>>
  <2> SUFFICES ASSUME NEW i \in DOMAIN fixed PROVE DiskTold(DiskRow(rows, fixed[i], a), pc, a)
    BY <1>2, <1>4
  <2>1. PICK k \in DOMAIN pc.disks : fixed[i] = pc.disks[k] /\ pc.disks[k].bus # "USB"
    BY <1>3
  <2> DEFINE row == DiskRow(rows, pc.disks[k], a)
  <2>2. /\ row.id = pc.disks[k].id /\ row.type = pc.disks[k].media
        /\ row.bus = pc.disks[k].bus \/ Lent(row.bus, pc.disks[k], pc.disks, a)
    BY <1>1, <2>1, RowRight
  <2> HIDE DEF row
  <2>3. DiskOf(pc, row) = pc.disks[k]
    BY <2>2, DiskOfRow
  <2>4. DiskTold(row, pc, a)
    BY <2>1, <2>2, <2>3 DEF DiskTold
  <2> QED BY <2>1, <2>4 DEF row
<1>5. CASE fixed = <<>>
  <2> SUFFICES ASSUME NEW i \in DOMAIN rows PROVE DiskTold(PhysicalRow(rows[i]), pc, a)
    BY <1>2, <1>5
  <2>1. PICK k \in DOMAIN pc.disks : Tells(rows[i], pc.disks[k])
    BY <1>1 DEF AreRows
  <2> DEFINE row == PhysicalRow(rows[i])
  <2>2. /\ row.id = pc.disks[k].id /\ row.bus = pc.disks[k].bus
        /\ row.type = pc.disks[k].media \/ (row.type = "Unknown" /\ a.physical = "no media")
    BY <1>1, <2>1 DEF AreRows, Tells, PhysicalRow
  <2> HIDE DEF row
  <2>3. DiskOf(pc, row) = pc.disks[k]
    BY <2>2, DiskOfRow
  <2>4. DiskTold(row, pc, a)
    BY <1>6, <1>5, <2>2, <2>3 DEF DiskTold
  <2> QED BY <2>4 DEF row
<1> QED BY <1>4, <1>5

LEMMA DisjointUnion ==
  ASSUME NEW S, IsFiniteSet(S), NEW T, IsFiniteSet(T), S \cap T = {}
  PROVE  IsFiniteSet(S \cup T) /\ Cardinality(S \cup T) = Cardinality(S) + Cardinality(T)
<1>1. Cardinality(S \cap T) = 0
  BY FS_EmptySet
<1>2. Cardinality(S) \in Nat /\ Cardinality(T) \in Nat
  BY FS_CardinalityType
<1>3. /\ IsFiniteSet(S \cup T)
      /\ Cardinality(S \cup T) = Cardinality(S) + Cardinality(T) - Cardinality(S \cap T)
  BY FS_Union, Zenon
<1> QED BY <1>1, <1>2, <1>3

\* Each row is counted, once.
LEMMA CountedOnce ==
  ASSUME NEW n \in Nat, NEW rows, DOMAIN rows = 1..n
  PROVE  Summaries(rows)["NVMe"] + Summaries(rows)["SSD"] + Summaries(rows)["HDD"]
         + Summaries(rows)["Unknown"] = n
<1> DEFINE At(c) == {i \in 1..n : Category(rows[i]) = c}
           total == ((At("NVMe") \cup At("SSD")) \cup At("HDD")) \cup At("Unknown")
<1>1. IsFiniteSet(1..n) /\ Cardinality(1..n) = n
  BY FS_Interval
<1>2. \A c : IsFiniteSet(At(c))
  <2> SUFFICES ASSUME NEW c PROVE IsFiniteSet(At(c))
    OBVIOUS
  <2>1. At(c) \in SUBSET (1..n)
    OBVIOUS
  <2> HIDE DEF At
  <2> QED BY <1>1, <2>1, FS_Subset
<1>3. total = 1..n
  BY DEF Category
<1>4. \A c, e : c # e => At(c) \cap At(e) = {}
  OBVIOUS
<1>5. /\ Summaries(rows)["NVMe"] = Cardinality(At("NVMe"))
      /\ Summaries(rows)["SSD"] = Cardinality(At("SSD"))
      /\ Summaries(rows)["HDD"] = Cardinality(At("HDD"))
      /\ Summaries(rows)["Unknown"] = Cardinality(At("Unknown"))
  BY DEF Summaries
<1> HIDE DEF At
<1>6. /\ IsFiniteSet(At("NVMe") \cup At("SSD"))
      /\ Cardinality(At("NVMe") \cup At("SSD")) = Cardinality(At("NVMe")) + Cardinality(At("SSD"))
  BY <1>2, <1>4, DisjointUnion
<1>7. (At("NVMe") \cup At("SSD")) \cap At("HDD") = {}
  BY <1>4
<1>8. /\ IsFiniteSet((At("NVMe") \cup At("SSD")) \cup At("HDD"))
      /\ Cardinality((At("NVMe") \cup At("SSD")) \cup At("HDD"))
            = Cardinality(At("NVMe") \cup At("SSD")) + Cardinality(At("HDD"))
  BY <1>2, <1>6, <1>7, DisjointUnion
<1>9. ((At("NVMe") \cup At("SSD")) \cup At("HDD")) \cap At("Unknown") = {}
  BY <1>4
<1>10. Cardinality(total)
          = Cardinality((At("NVMe") \cup At("SSD")) \cup At("HDD")) + Cardinality(At("Unknown"))
  BY <1>2, <1>8, <1>9, DisjointUnion
<1> QED BY <1>1, <1>3, <1>5, <1>6, <1>8, <1>10

-----------------------------------------------------------------------------
(* The inductive invariant: what is shown is what the readers make of a PC *)
(* and of what answered.                                                   *)

PcRead ==
  /\ hardware \in Hardware /\ adapters \in Networks /\ program \in Programs
  /\ browser \in Browsers /\ roots \in Roots

InfoRead ==
  info # Nothing =>
    /\ info.of \in Hardware /\ info.answers \in OneSilent /\ info.adapters \in Networks
    /\ info.windows = WindowsSeen(info.of, info.answers)
    /\ info.tpm = TpmSeen(info.of, info.answers)
    /\ info.gpu = GpuSeen(info.of, info.answers)
    /\ info.disks = DisksSeen(info.of, info.answers)
    /\ info.summaries = Summaries(DisksSeen(info.of, info.answers))
    /\ \E fast, powershell, wmi \in BOOLEAN :
          /\ info.fast = fast /\ info.blind = (~fast /\ ~powershell /\ ~wmi)
          /\ info.active = ActiveAdapter(info.adapters, fast, powershell, wmi)

PageListed ==
  page # Nothing =>
    /\ page.of \in Networks /\ page.registry \in BOOLEAN
    /\ page.rows = Page(page.of, page.registry)

ProgramsChecked ==
  checked # Nothing =>
    /\ checked.of \in Programs /\ checked.browser \in Browsers
    /\ checked.latest \in {checked.of.published, NoVersion}
    /\ checked.verdict = Verdict(checked.of, checked.latest)
    /\ checked.history = HasHistory(Threshold, checked.browser)

OfficeChecked ==
  office # Nothing =>
    /\ office.of \in Roots /\ office.answering \in SUBSET (1..3)
    /\ office.verdict = OfficeVerdict(OfficeFound(office.of, office.answering))

ProgramsListed ==
  listed # Nothing =>
    /\ listed.of \in Roots /\ listed.answering \in SUBSET (1..3) /\ listed.program \in Programs
    /\ listed.list = ListPrograms(listed.of, listed.answering)
    /\ listed.fallback = (/\ ListPrograms(listed.of, listed.answering) = <<>>
                          /\ \/ Installed(listed.program)
                             \/ OfficeFound(listed.of, listed.answering) # "none")

ReadInv == PcRead /\ InfoRead /\ PageListed /\ ProgramsChecked /\ OfficeChecked /\ ProgramsListed

-----------------------------------------------------------------------------
(* What is read of a PC is the truth about it.                             *)

LEMMA InfoReadIsTold == InfoRead => InfoTold
<1> SUFFICES ASSUME InfoRead, info # Nothing PROVE InfoTold
  BY DEF InfoTold
<1> DEFINE pc == info.of
           a == info.answers
<1>1. pc \in Hardware /\ a \in OneSilent
  BY DEF InfoRead
<1>2. AreDisks(pc.disks) /\ pc.gpus \in Seq(Gpus)
  BY <1>1, HardwareAssumption DEF AreDisks, Disks, Gpus
<1>3. info.windows = IF pc.build >= 22000 THEN "windows_11" ELSE "windows_10"
  <2>1. a.registry # "all" => a.wmi
    BY <1>1, OneSilentFacts
  <2>2. info.windows = WindowsSeen(pc, a)
    BY DEF InfoRead
  <2> HIDE DEF pc, a
  <2> QED BY <2>1, <2>2 DEF WindowsSeen, RegistryCaption
<1>4. (pc.tpm => info.tpm \in {"version", "installed"}) /\ (info.tpm = "version" => pc.tpm)
  <2>1. a.registry = "none" => a.tpm
    BY <1>1, OneSilentFacts
  <2>2. info.tpm = TpmSeen(pc, a)
    BY DEF InfoRead
  <2> HIDE DEF pc, a
  <2> QED BY <2>1, <2>2 DEF TpmSeen
<1>5. GpuTold(info.gpu, pc, a)
  <2>1. info.gpu = GpuSeen(pc, a)
    BY DEF InfoRead
  <2> HIDE DEF pc, a
  <2> QED BY <1>1, <1>2, <2>1, GpuRight
<1>6. \A i \in DOMAIN info.disks : DiskTold(info.disks[i], pc, a)
  <2>1. info.disks = DisksSeen(pc, a)
    BY DEF InfoRead
  <2> HIDE DEF pc, a
  <2> QED BY <1>1, <1>2, <2>1, DisksTold
<1>7. info.summaries["NVMe"] + info.summaries["SSD"] + info.summaries["HDD"]
         + info.summaries["Unknown"]
      = IF StandIn(pc, a) THEN Len(PhysicalRows(pc.disks, a)) ELSE Len(Fixed(pc.disks))
  <2> DEFINE rows == PhysicalRows(pc.disks, a)
             fixed == Fixed(pc.disks)
             seen == DisksSeen(pc, a)
             n == IF ~a.drives \/ fixed = <<>> THEN Len(rows) ELSE Len(fixed)
  <2>1. info.summaries = Summaries(seen)
    BY DEF InfoRead
  <2> HIDE DEF pc, a
  <2>2. rows \in Seq(Rows) /\ fixed \in Seq(Disks)
    BY <1>1, <1>2, RowsTell, FixedDisks DEF AreRows
  <2>3. seen = IF (IF a.drives THEN fixed ELSE <<>>) # <<>>
               THEN [i \in DOMAIN (IF a.drives THEN fixed ELSE <<>>) |->
                        DiskRow(rows, (IF a.drives THEN fixed ELSE <<>>)[i], a)]
               ELSE [i \in DOMAIN rows |-> PhysicalRow(rows[i])]
    BY DEF DisksSeen
  <2> HIDE DEF rows, fixed, seen
  <2>4. n \in Nat /\ DOMAIN seen = 1..n
    BY <2>2, <2>3
  <2> HIDE DEF n
  <2>5. Summaries(seen)["NVMe"] + Summaries(seen)["SSD"] + Summaries(seen)["HDD"]
        + Summaries(seen)["Unknown"] = n
    BY <2>4, CountedOnce
  <2> QED BY <2>1, <2>5 DEF n, rows, fixed, StandIn
<1> QED BY <1>3, <1>4, <1>5, <1>6, <1>7 DEF InfoTold

-----------------------------------------------------------------------------
(* The adapters                                                            *)

Adapters == [id : Nat \ {0}, kind : {"Ethernet", "Wi-Fi", "virtual"},
             up : BOOLEAN, ip : {"valid", "linklocal", "none"},
             gateway4 : BOOLEAN, gateway6 : BOOLEAN, metric : Nat,
             named : BOOLEAN, dhcp : BOOLEAN, dns : SUBSET {"static", "leased"}]

AreAdapters(net) ==
  /\ IsFiniteSet(net) /\ net \subseteq Adapters
  /\ \A a, b \in net : a.id = b.id => a = b

LEMMA MetricType ==
  ASSUME NEW a \in Adapters
  PROVE  Metric(a) \in Nat
BY DEF Adapters, Metric

\* Of wired and wireless candidates there is one that comes before the others.
LEMMA FirstIsBefore ==
  ASSUME NEW net, AreAdapters(net), NEW C \in SUBSET net, C # {},
         \A c \in C : c.kind \in {"Ethernet", "Wi-Fi"}
  PROVE  /\ FirstAdapter(C) \in C
         /\ \A b \in C \ {FirstAdapter(C)} : Before(FirstAdapter(C), b)
         /\ FirstAdapter(C) # NoAdapter
<1> DEFINE E == {c \in C : c.kind = "Ethernet"}
           D == IF E # {} THEN E ELSE C
           M == {Metric(c) : c \in D}
<1>1. C \subseteq Adapters
  BY DEF AreAdapters
<1>2. D # {} /\ D \subseteq C
  OBVIOUS
<1>3. PICK m \in M : \A k \in M : m <= k
  <2>1. M \in SUBSET Nat /\ M # {}
    BY <1>1, <1>2, MetricType
  <2> HIDE DEF M
  <2> QED BY <2>1, LeastNumber
<1> DEFINE I == {c.id : c \in {d \in D : Metric(d) = m}}
<1>4. PICK i \in I : \A k \in I : i <= k
  <2>1. I # {}
    OBVIOUS
  <2>2. I \in SUBSET Nat
    BY <1>1, <1>2 DEF Adapters
  <2> HIDE DEF I
  <2> QED BY <2>1, <2>2, LeastNumber
<1>5. PICK a \in D : Metric(a) = m /\ a.id = i
  OBVIOUS
<1>6. ASSUME NEW b \in C \ {a} PROVE Before(a, b)
  <2>1. a \in Adapters /\ b \in Adapters /\ a \in C
    BY <1>1, <1>2
  <2>2. Metric(a) \in Nat /\ Metric(b) \in Nat
    BY <2>1, MetricType
  <2>3. a.kind # b.kind => a.kind = "Ethernet"
    OBVIOUS
  <2>4. a.kind = b.kind => b \in D
    OBVIOUS
  <2>5. b \in D => m <= Metric(b)
    BY <1>3
  <2>6. b \in D /\ Metric(b) = m => i <= b.id
    BY <1>4
  <2>7. a.id # b.id
    BY <2>1 DEF AreAdapters
  <2>8. a.id \in Nat /\ b.id \in Nat
    BY <2>1 DEF Adapters
  <2> HIDE DEF D, M, I
  <2> QED BY <1>5, <2>2, <2>3, <2>4, <2>5, <2>6, <2>7, <2>8 DEF Before
<1>7. a \in C
  BY <1>2
<1>8. FirstAdapter(C) \in C /\ \A b \in C \ {FirstAdapter(C)} : Before(FirstAdapter(C), b)
  <2>1. FirstAdapter(C) = CHOOSE c \in C : \A b \in C \ {c} : Before(c, b)
    BY Zenon DEF FirstAdapter
  <2> HIDE DEF D, M, I
  <2> QED BY <1>6, <1>7, <2>1
<1>9. FirstAdapter(C) # NoAdapter
  BY <1>1, <1>8 DEF Adapters, NoAdapter
<1> QED BY <1>8, <1>9

\* A page lists each adapter of the kinds it shows, and nothing else.
LEMMA PageLists ==
  ASSUME NEW net, AreAdapters(net), NEW registry
  PROVE  /\ \A i \in DOMAIN Page(net, registry) :
               \E a \in net : Page(net, registry)[i] = PageRow(a, registry)
         /\ \A a \in net : a.ip # "none" /\ a.kind \in {"Ethernet", "Wi-Fi"} =>
               \E i \in DOMAIN Page(net, registry) : Page(net, registry)[i].id = a.id
<1> DEFINE seen == {a \in WithAddress(net) : a.kind \in {"Ethernet", "Wi-Fi"}}
           order == {p \in seen \X seen : PageBefore(p[1], p[2])}
           sorted == Sorted(seen, order)
           n == Cardinality(seen)
<1>1. seen \subseteq net /\ seen \subseteq Adapters /\ IsFiniteSet(seen)
  <2>1. seen \in SUBSET net
    BY DEF WithAddress
  <2> HIDE DEF seen
  <2> QED BY <2>1, FS_Subset DEF AreAdapters
<1>2. \A a, b \in seen : <<a, b>> \in order <=> PageBefore(a, b)
  OBVIOUS
<1>3. \A a \in seen : Metric(a) \in Nat /\ a.id \in Nat /\ a.up \in BOOLEAN
                      /\ a.gateway4 \in BOOLEAN /\ PageKind(a) \in {"Ethernet", "Wi-Fi"}
  BY <1>1, MetricType DEF Adapters, PageKind
<1>4. \A a, b \in seen : a # b => a.id # b.id
  BY <1>1 DEF AreAdapters
<1>5. StrictlyOrders(order, seen)
  <2> HIDE DEF seen, order
  <2>1. \A a \in seen : ~ PageBefore(a, a)
    BY <1>3 DEF PageBefore
  <2>2. \A a, b \in seen : a # b => PageBefore(a, b) \/ PageBefore(b, a)
    BY <1>3, <1>4 DEF PageBefore
  <2>3. ASSUME NEW a \in seen, NEW b \in seen, NEW c \in seen,
               PageBefore(a, b), PageBefore(b, c)
        PROVE  PageBefore(a, c)
    BY <1>3, <2>3 DEF PageBefore
  <2> QED BY <1>2, <2>1, <2>2, <2>3 DEF StrictlyOrders
<1>6. /\ sorted \in [1..n -> seen]
      /\ \A a \in seen : \E i \in 1..n : sorted[i] = a
  <2> HIDE DEF seen, order
  <2> QED BY <1>1, <1>5, SortedProperties
<1>7. Page(net, registry) = [i \in DOMAIN sorted |-> PageRow(sorted[i], registry)]
  BY Zenon DEF Page
<1>8. \A a \in net : a.ip # "none" /\ a.kind \in {"Ethernet", "Wi-Fi"} => a \in seen
  BY DEF WithAddress
<1>9. \A a : PageRow(a, registry).id = a.id
  BY DEF PageRow
<1> HIDE DEF seen, sorted, n
<1> QED BY <1>1, <1>6, <1>7, <1>8, <1>9

\* What a row says of the name servers.
LEMMA PageDns ==
  ASSUME NEW a \in Adapters, NEW registry \in BOOLEAN
  PROVE  \/ PageRow(a, registry).dns = InForce(a)
         \/ ~a.dhcp /\ a.dns = {"leased"} /\ registry
<1>1. a.dhcp \in BOOLEAN /\ a.dns \subseteq {"static", "leased"}
  BY DEF Adapters
<1>2. PageRow(a, registry).dns =
         IF InForce(a) # "none" THEN InForce(a) ELSE RegistryConfig(a, registry).dns
  BY DEF PageRow
<1>3. CASE InForce(a) = "none" /\ registry
  <2>1. "static" \notin a.dns /\ (a.dhcp => "leased" \notin a.dns)
    BY <1>3 DEF InForce
  <2>2. RegistryConfig(a, registry).dns = ListedDns(a, IF a.dhcp THEN "on" ELSE "off")
    BY <1>3 DEF RegistryConfig
  <2>3. CASE "leased" \in a.dns
    <3>1. ~a.dhcp /\ a.dns = {"leased"}
      BY <1>1, <2>1, <2>3
    <3> QED BY <1>3, <3>1
  <2>4. CASE "leased" \notin a.dns
    <3>1. ListedDns(a, IF a.dhcp THEN "on" ELSE "off") = "none"
      BY <2>1, <2>4 DEF ListedDns
    <3> QED BY <1>2, <1>3, <2>2, <3>1
  <2> QED BY <2>3, <2>4
<1>4. CASE InForce(a) = "none" /\ ~registry
  <2>1. RegistryConfig(a, registry).dns = "none"
    BY <1>4 DEF RegistryConfig
  <2> QED BY <1>2, <1>4, <2>1
<1> QED BY <1>2, <1>3, <1>4

LEMMA AreNetworks == \A net \in Networks : AreAdapters(net)
BY NetworkAssumption, Zenon DEF AreAdapters, Adapters

\* The adapters that the answering source can recognise as connected.
KnownTo(net, fast) == {a \in net : Connected(a) /\ (a.named \/ fast)}

\* The adapter that is shown comes before all that its source knows.
IsFirst(active, known, net, fast, powershell, wmi) ==
  \/ active = NoAdapter /\ (known = {} \/ (~fast /\ ~powershell /\ ~wmi))
  \/ \E C \in SUBSET net :
        /\ (C = FastCandidates(net) /\ fast)
           \/ C = PowerShellCandidates(net)
        /\ known \subseteq C
        /\ active \in C /\ active # NoAdapter
        /\ \A b \in C \ {active} : Before(active, b)

LEMMA ActiveOfSource ==
  ASSUME NEW net, AreAdapters(net), NEW fast \in BOOLEAN, NEW powershell \in BOOLEAN,
         NEW wmi \in BOOLEAN
  PROVE  IsFirst(ActiveAdapter(net, fast, powershell, wmi), KnownTo(net, fast), net, fast,
                 powershell, wmi)
<1> DEFINE active == ActiveAdapter(net, fast, powershell, wmi)
           known == KnownTo(net, fast)
           F == FastCandidates(net)
           P == PowerShellCandidates(net)
           Best(C) == /\ C \in SUBSET net
                      /\ (C = FastCandidates(net) /\ fast) \/ C = PowerShellCandidates(net)
                      /\ known \subseteq C
                      /\ active \in C /\ active # NoAdapter
                      /\ \A b \in C \ {active} : Before(active, b)
<1>1. /\ F \in SUBSET net /\ P \in SUBSET net /\ P \subseteq F
      /\ \A c \in F \cup P : c.kind \in {"Ethernet", "Wi-Fi"}
      /\ known \subseteq F /\ (~fast => known \subseteq P)
  BY DEF FastCandidates, PowerShellCandidates, WithAddress, Connected, KnownTo
<1>2. ASSUME NEW C \in {F, P}, C # {}
      PROVE  /\ FirstAdapter(C) \in C /\ FirstAdapter(C) # NoAdapter
             /\ \A b \in C \ {FirstAdapter(C)} : Before(FirstAdapter(C), b)
  <2> HIDE DEF F, P
  <2> QED BY <1>1, <1>2, FirstIsBefore
<1>3. FirstAdapter({}) = NoAdapter
  BY DEF FirstAdapter
<1>4. active = LET first == IF fast THEN FirstAdapter(F) ELSE NoAdapter
                   second == IF powershell THEN FirstAdapter(P) ELSE NoAdapter
               IN  IF first # NoAdapter THEN first
                   ELSE IF second # NoAdapter THEN second
                   ELSE IF wmi THEN FirstAdapter(P)
                   ELSE NoAdapter
  BY Zenon DEF ActiveAdapter, WmiCandidates
<1> HIDE DEF F, P, active, known
<1>5. \/ active = NoAdapter /\ (known = {} \/ (~fast /\ ~powershell /\ ~wmi))
      \/ fast /\ F # {} /\ active = FirstAdapter(F)
      \/ ~fast /\ P # {} /\ active = FirstAdapter(P)
  BY <1>1, <1>2, <1>3, <1>4
<1>6. fast /\ F # {} /\ active = FirstAdapter(F) => Best(F)
  BY <1>1, <1>2 DEF F
<1>7. ~fast /\ P # {} /\ active = FirstAdapter(P) => Best(P)
  BY <1>1, <1>2 DEF P
<1>8. \/ active = NoAdapter /\ (known = {} \/ (~fast /\ ~powershell /\ ~wmi))
      \/ \E C \in SUBSET net : Best(C)
  <2>1. \A C : Best(C) => C \in SUBSET net
    OBVIOUS
  <2> HIDE DEF Best
  <2> QED BY <1>5, <1>6, <1>7, <2>1
<1> QED BY <1>8, Zenon DEF IsFirst, active, known

LEMMA ReadAdapterIsBest == ReadInv => AdapterIsBest
<1> SUFFICES ASSUME ReadInv PROVE AdapterIsBest
  OBVIOUS
<1>1. ASSUME page # Nothing, NEW i \in DOMAIN page.rows, NEW a \in page.of,
             a.id = page.rows[i].id
      PROVE  page.rows[i].dns = InForce(a) \/ (~a.dhcp /\ a.dns = {"leased"} /\ page.registry)
  <2>1. /\ AreAdapters(page.of) /\ page.registry \in BOOLEAN
        /\ page.rows = Page(page.of, page.registry)
    BY <1>1, AreNetworks DEF ReadInv, PageListed
  <2>2. PICK b \in page.of : page.rows[i] = PageRow(b, page.registry)
    BY <2>1, PageLists
  <2>3. page.rows[i].id = b.id
    BY <2>2 DEF PageRow
  <2>4. a = b /\ a \in Adapters
    BY <1>1, <2>1, <2>3 DEF AreAdapters
  <2> QED BY <2>1, <2>2, <2>4, PageDns
<1>2. ASSUME info # Nothing
      PROVE  LET known == {a \in info.adapters : Connected(a) /\ (a.named \/ info.fast)}
                 active == info.active
             IN  IF active = NoAdapter THEN known = {} \/ info.blind
                 ELSE /\ Connected(active)
                         \/ (info.fast /\ (active.gateway6 \/ active.ip = "linklocal"))
                      /\ \A a \in known \ {active} :
                            /\ a.kind = "Ethernet" => active.kind = "Ethernet"
                            /\ a.kind = active.kind => Metric(active) <= Metric(a)
                      /\ page # Nothing /\ page.of = info.adapters =>
                            \E i \in DOMAIN page.rows : page.rows[i].id = active.id
  <2> DEFINE net == info.adapters
             active == info.active
             known == {a \in net : Connected(a) /\ (a.named \/ info.fast)}
  <2>1. AreAdapters(net)
    BY <1>2, AreNetworks DEF ReadInv, InfoRead
  <2>2. PICK fast \in BOOLEAN, powershell \in BOOLEAN, wmi \in BOOLEAN :
          /\ info.fast = fast /\ info.blind = (~fast /\ ~powershell /\ ~wmi)
          /\ active = ActiveAdapter(net, fast, powershell, wmi)
    BY <1>2, Zenon DEF ReadInv, InfoRead
  <2>3. known = {a \in net : Connected(a) /\ (a.named \/ fast)}
    BY <2>2
  <2> HIDE DEF net, active, known
  <2>4. \/ active = NoAdapter /\ (known = {} \/ (~fast /\ ~powershell /\ ~wmi))
        \/ \E C \in SUBSET net :
              /\ (C = FastCandidates(net) /\ fast)
                 \/ C = PowerShellCandidates(net)
              /\ known \subseteq C
              /\ active \in C /\ active # NoAdapter
              /\ \A b \in C \ {active} : Before(active, b)
    <3>1. IsFirst(ActiveAdapter(net, fast, powershell, wmi), KnownTo(net, fast), net, fast,
                  powershell, wmi)
      BY <2>1, ActiveOfSource
    <3>2. IsFirst(active, known, net, fast, powershell, wmi)
      BY <2>2, <2>3, <3>1 DEF KnownTo
    <3> QED BY <3>2, Zenon DEF IsFirst
  <2>5. CASE active = NoAdapter /\ (known = {} \/ (~fast /\ ~powershell /\ ~wmi))
    BY <2>2, <2>5 DEF net, active, known
  <2>6. ASSUME NEW C \in SUBSET net,
               (C = FastCandidates(net) /\ fast) \/ C = PowerShellCandidates(net),
               known \subseteq C, active \in C, active # NoAdapter,
               \A b \in C \ {active} : Before(active, b)
        PROVE  /\ active # NoAdapter
               /\ Connected(active)
                  \/ (info.fast /\ (active.gateway6 \/ active.ip = "linklocal"))
               /\ \A a \in known \ {active} :
                     /\ a.kind = "Ethernet" => active.kind = "Ethernet"
                     /\ a.kind = active.kind => Metric(active) <= Metric(a)
               /\ page # Nothing /\ page.of = net =>
                     \E i \in DOMAIN page.rows : page.rows[i].id = active.id
    <3>1. C \subseteq Adapters
      BY <2>1 DEF AreAdapters
    <3>2. active.kind \in {"Ethernet", "Wi-Fi"} /\ active.ip # "none"
      BY <2>6 DEF FastCandidates, PowerShellCandidates, WithAddress
    <3>3. Connected(active) \/ (info.fast /\ (active.gateway6 \/ active.ip = "linklocal"))
      <4>1. CASE C = PowerShellCandidates(net)
        BY <2>6, <4>1 DEF PowerShellCandidates, Connected
      <4>2. CASE C = FastCandidates(net) /\ fast
        <5>1. active.ip \in {"valid", "linklocal", "none"}
          BY <2>6, <3>1 DEF Adapters
        <5> QED BY <2>2, <2>6, <4>2, <5>1 DEF FastCandidates, WithAddress, Connected
      <4> QED BY <2>6, <4>1, <4>2
    <3>4. ASSUME NEW a \in known \ {active}
          PROVE  /\ a.kind = "Ethernet" => active.kind = "Ethernet"
                 /\ a.kind = active.kind => Metric(active) <= Metric(a)
      <4>1. Before(active, a)
        BY <2>6
      <4>2. Metric(active) \in Nat /\ Metric(a) \in Nat
        BY <2>6, <3>1, MetricType
      <4> QED BY <4>1, <4>2 DEF Before
    <3>5. ASSUME page # Nothing, page.of = net
          PROVE  \E i \in DOMAIN page.rows : page.rows[i].id = active.id
      <4>1. page.rows = Page(net, page.registry)
        BY <3>5 DEF ReadInv, PageListed
      <4> QED BY <2>1, <2>6, <3>2, <4>1, PageLists
    <3> QED BY <2>6, <3>3, <3>4, <3>5
  <2>7. CASE \E C \in SUBSET net :
              /\ (C = FastCandidates(net) /\ fast)
                 \/ C = PowerShellCandidates(net)
              /\ known \subseteq C
              /\ active \in C /\ active # NoAdapter
              /\ \A b \in C \ {active} : Before(active, b)
    <3>1. /\ active # NoAdapter
          /\ Connected(active)
             \/ (info.fast /\ (active.gateway6 \/ active.ip = "linklocal"))
          /\ \A a \in known \ {active} :
                /\ a.kind = "Ethernet" => active.kind = "Ethernet"
                /\ a.kind = active.kind => Metric(active) <= Metric(a)
          /\ page # Nothing /\ page.of = net =>
                \E i \in DOMAIN page.rows : page.rows[i].id = active.id
      BY <2>6, <2>7, Zenon
    <3> QED BY <3>1, Zenon DEF net, active, known
  <2> QED BY <2>4, <2>5, <2>7
<1> QED BY <1>1, <1>2, Zenon DEF AdapterIsBest

-----------------------------------------------------------------------------
(* The programs                                                            *)

\* The number of a run of digits.
LEMMA NumberFolds ==
  ASSUME NEW s \in Seq(0..9)
  PROVE  FoldsTo(NumberOf(s), Len(s), Nat, 0, [i \in 1..Len(s) |-> [x \in Nat |-> 10 * x + s[i]]])
<1> DEFINE n == Len(s)
           A == Nat
           base == 0
           g == [i \in 1..n |-> [x \in Nat |-> 10 * x + s[i]]]
           Body(f) == [p \in SUBSET DOMAIN s |->
                         IF p = {} THEN base ELSE 10 * f[p \ {Max(p)}] + s[Max(p)]]
           fold == CHOOSE f : f = Body(f)
<1>1. n \in Nat /\ DOMAIN s = 1..n /\ \A i \in 1..n : s[i] \in Nat
  OBVIOUS
<1>2. base \in A /\ g \in [1..n -> [A -> A]]
  BY <1>1
<1>3. PICK it \in [SUBSET (1..n) -> A] : FoldSteps(it, n, base, g)
  <2> HIDE DEF n, A, base, g
  <2> QED BY <1>1, <1>2, FoldExists
<1>4. \A p \in SUBSET (1..n) : p # {} => Max(p) \in 1..n
  <2> HIDE DEF n
  <2> QED BY <1>1, GreatestElement
<1>5. it = Body(it)
  <2> SUFFICES ASSUME NEW p \in SUBSET (1..n)
               PROVE  it[p] = IF p = {} THEN base ELSE 10 * it[p \ {Max(p)}] + s[Max(p)]
    BY <1>1
  <2>1. p \ {Max(p)} \in SUBSET (1..n)
    OBVIOUS
  <2> QED BY <1>3, <1>4, <2>1 DEF FoldSteps
<1>6. fold = Body(fold)
  <2> HIDE DEF Body
  <2> QED BY <1>5, Zenon
<1>7. NumberOf(s) = fold[1..n]
  BY <1>1, Zenon DEF NumberOf, FoldLeft, MapThenFoldSet
<1>8. fold[{}] = base
  BY <1>6
<1>9. ASSUME NEW p \in SUBSET (1..n), p # {}, fold[p \ {Max(p)}] \in A
      PROVE  fold[p] = g[Max(p)][fold[p \ {Max(p)}]]
  <2>1. fold[p] = 10 * fold[p \ {Max(p)}] + s[Max(p)]
    BY <1>1, <1>6, <1>9
  <2>2. \A m \in 1..n, x \in A : g[m][x] = 10 * x + s[m]
    OBVIOUS
  <2> HIDE DEF fold, n, A, base, g
  <2> QED BY <1>4, <1>9, <2>1, <2>2
<1> HIDE DEF fold, n, A, base, g
<1>10. FoldsTo(fold[1..n], n, A, base, g)
  BY <1>1, <1>2, <1>8, <1>9, FoldAlong
<1> QED BY <1>7, <1>10 DEF n, A, base, g

LEMMA NumberType ==
  ASSUME NEW s \in Seq(0..9)
  PROVE  NumberOf(s) \in Nat
<1>1. Len(s) \in Nat
  OBVIOUS
<1> QED BY <1>1, NumberFolds, FoldsToType

LEMMA PartType ==
  ASSUME NEW v \in Seq(Seq(0..9)), NEW i
  PROVE  Part(v, i) \in Nat
<1>1. CASE i \in DOMAIN v
  <2>1. v[i] \in Seq(0..9)
    BY <1>1
  <2>2. NumberOf(v[i]) \in Nat
    BY <2>1, NumberType
  <2> QED BY <1>1, <2>2 DEF Part, Numbers
<1>2. CASE i \notin DOMAIN v
  BY <1>2 DEF Part
<1> QED BY <1>1, <1>2

\* Against a version of two numbers, the first two decide.
LEMMA MajorMinorEnough ==
  ASSUME NEW v \in Seq(Seq(0..9)), Len(v) >= 2, NEW w \in Seq(Seq(0..9)), Len(w) = 2
  PROVE  AtLeast(MajorMinor(v), w) <=> AtLeast(v, w)
<1> DEFINE short == MajorMinor(v)
           D == {i \in 1..Len(v) : Part(v, i) # Part(w, i)}
           E == {i \in 1..2 : Part(v, i) # Part(w, i)}
<1> SUFFICES AtLeast(short, w) <=> AtLeast(v, w)
  OBVIOUS
<1>1. short \in Seq(Seq(0..9)) /\ Len(short) = 2 /\ short[1] = v[1] /\ short[2] = v[2]
  <2>1. short = SubSeq(v, 1, 2)
    BY DEF MajorMinor
  <2> HIDE DEF short
  <2> QED BY <2>1
<1>2. \A i \in 1..2 : Part(short, i) = Part(v, i)
  <2> HIDE DEF short
  <2>1. \A i \in 1..2 : i \in DOMAIN v /\ i \in DOMAIN short /\ v[i] = short[i]
    BY <1>1
  <2> QED BY <2>1 DEF Part, Numbers
<1>3. \A i \in 1..Len(v) : i > 2 => Part(w, i) = 0
  BY DEF Part
<1>4. AtLeast(short, w) <=> E = {} \/ Part(short, Min(E)) > Part(w, Min(E))
  <2> DEFINE S == {i \in 1..2 : Part(short, i) # Part(w, i)}
  <2>1. (IF Len(short) > Len(w) THEN Len(short) ELSE Len(w)) = 2
    BY <1>1
  <2>2. AtLeast(short, w) <=> S = {} \/ Part(short, Min(S)) > Part(w, Min(S))
    <3> HIDE DEF short
    <3> QED BY <2>1, Zenon DEF AtLeast
  <2>3. S = E
    BY <1>2
  <2> QED BY <2>2, <2>3
<1>5. AtLeast(v, w) <=> D = {} \/ Part(v, Min(D)) > Part(w, Min(D))
  <2>1. (IF Len(v) > Len(w) THEN Len(v) ELSE Len(w)) = Len(v)
    OBVIOUS
  <2> QED BY <2>1, Zenon DEF AtLeast
<1>6. \A i : Part(v, i) \in Nat /\ Part(w, i) \in Nat
  BY PartType
<1>7. (D # {} => Min(D) \in D /\ \A k \in D : Min(D) <= k)
      /\ (E # {} => Min(E) \in E /\ \A k \in E : Min(E) <= k)
  <2>1. D \in SUBSET Nat /\ E \in SUBSET Nat
    OBVIOUS
  <2> HIDE DEF D, E
  <2> QED BY <2>1, LeastElement
<1>8. E \subseteq D /\ \A k \in D : k <= 2 => k \in E
  OBVIOUS
<1>9. D \subseteq 1..Len(v) /\ E \subseteq 1..2 /\ D \subseteq Nat /\ E \subseteq Nat
  OBVIOUS
<1>10. \A k \in D : Part(v, k) # Part(w, k)
  OBVIOUS
<1> HIDE DEF short, D, E
<1>11. CASE E # {}
  <2>1. Min(E) \in E /\ Min(E) \in D /\ Min(D) \in D /\ Min(E) \in Nat /\ Min(D) \in Nat
    <3>1. Min(E) \in E /\ Min(E) \in D
      BY <1>7, <1>8, <1>11
    <3>2. Min(D) \in D
      BY <1>7, <3>1
    <3> QED BY <1>9, <3>1, <3>2
  <2>2. Min(D) <= Min(E) /\ Min(E) <= 2
    BY <1>7, <1>9, <1>11, <2>1
  <2>3. Min(D) \in E
    BY <1>8, <2>1, <2>2
  <2>4. Min(E) <= Min(D)
    BY <1>7, <1>11, <2>3
  <2>5. Min(D) = Min(E)
    BY <2>1, <2>2, <2>4
  <2>6. Part(short, Min(E)) = Part(v, Min(E))
    BY <1>2, <1>9, <2>1
  <2> QED BY <1>4, <1>5, <1>11, <2>1, <2>5, <2>6
<1>12. CASE E = {} /\ D # {}
  <2>1. Min(D) \in D /\ Min(D) \in 1..Len(v) /\ ~ (Min(D) <= 2)
    BY <1>7, <1>8, <1>9, <1>12
  <2>2. Part(w, Min(D)) = 0 /\ Part(v, Min(D)) # 0 /\ Part(v, Min(D)) \in Nat
    BY <1>3, <1>6, <1>10, <2>1
  <2> QED BY <1>4, <1>5, <1>12, <2>2
<1> QED BY <1>4, <1>5, <1>11, <1>12

LEMMA NoDate == DateIn(NoVersion) = NoVersion
<1>1. Runs(NoVersion) = <<>>
  <2>1. FlattenSeq(<<>>) = <<>>
    BY DEF FlattenSeq
  <2>2. 1..(Len(<<>>) - 5) = {}
    OBVIOUS
  <2> QED BY <2>1, <2>2 DEF Runs, NoVersion
<1>2. SelectInSeq(Runs(NoVersion), IsDate) = 0
  BY <1>1 DEF SelectInSeq
<1>3. SelectInSeq(NoVersion, LAMBDA d : Len(d) = 6) = 0
  BY DEF SelectInSeq, NoVersion
<1> QED BY <1>2, <1>3, Zenon DEF DateIn

LEMMA DateOfDate ==
  ASSUME NEW v \in Seq(Seq(0..9)), Len(v) = 1, IsDate(v[1])
  PROVE  DateIn(v) = v
<1>1. Len(v[1]) = 6
  BY DEF IsDate
<1>2. SelectInSeq(v, LAMBDA d : Len(d) = 6) = 1
  <2>1. {i \in 1..Len(v) : Len(v[i]) = 6} = {1}
    BY <1>1
  <2>2. Min({1}) = 1
    BY DEF Min
  <2>3. {1} # {}
    OBVIOUS
  <2> QED BY <2>1, <2>2, <2>3, Zenon DEF SelectInSeq
<1>3. DateIn(v) = <<v[1]>>
  BY <1>2 DEF DateIn
<1>4. v = <<v[1]>>
  OBVIOUS
<1> QED BY <1>3, <1>4

\* What is found of PotPlayer is its release, nothing, or by accident.
LEMMA PotPlayerLocal ==
  ASSUME NEW p \in Programs, p.id = "potplayer"
  PROVE  LocalVersion(p) \in {NoVersion, p.release} \/ ByAccident(p)
<1>1. /\ p.release \in Seq(Seq(0..9)) /\ Len(p.release) = 1 /\ IsDate(p.release[1])
      /\ p.history \in {NoVersion, p.release}
      /\ (\E i \in DOMAIN p.version : Len(p.version[i]) = 6) => p.version = p.release
      /\ p.entries \in Seq(Seq(Seq(0..9)))
      /\ \A i \in DOMAIN p.entries : DateIn(p.entries[i]) \in {NoVersion, p.release}
  BY ProgramAssumption
<1>2. DateIn(p.release) = p.release
  BY <1>1, DateOfDate
<1>3. LocalVersion(p) = DateIn(PotPlayerVersion(p))
  BY DEF LocalVersion
<1>4. CASE p.file /\ p.history # NoVersion
  <2>1. PotPlayerVersion(p) = p.release
    BY <1>1, <1>4 DEF PotPlayerVersion
  <2> QED BY <1>2, <1>3, <2>1
<1>5. CASE p.file /\ p.history = NoVersion /\ DateIn(p.version) # NoVersion
  <2>1. CASE \E i \in DOMAIN p.version : Len(p.version[i]) = 6
    <3>1. p.version = p.release
      BY <1>1, <2>1
    <3>2. PotPlayerVersion(p) = DateIn(p.version)
      BY <1>5 DEF PotPlayerVersion
    <3> QED BY <1>2, <1>3, <3>1, <3>2
  <2>2. CASE \A i \in DOMAIN p.version : Len(p.version[i]) # 6
    BY <1>5, <2>2 DEF ByAccident
  <2> QED BY <2>1, <2>2
<1>6. CASE ~p.file \/ (p.history = NoVersion /\ DateIn(p.version) = NoVersion)
  <2> DEFINE I == {k \in 1..Len(p.entries) : DateIn(p.entries[k]) # NoVersion}
             i == IF I # {} THEN Min(I) ELSE 0
  <2>1. PotPlayerVersion(p) = RegistryVersion(p.entries)
    BY <1>6 DEF PotPlayerVersion
  <2>2. RegistryVersion(p.entries) = IF i = 0 THEN NoVersion ELSE DateIn(p.entries[i])
    BY Zenon DEF RegistryVersion, SelectInSeq
  <2>3. i = 0 \/ i \in I
    <3>1. I \in SUBSET Nat
      OBVIOUS
    <3> HIDE DEF I
    <3> QED BY <3>1, LeastElement
  <2>4. RegistryVersion(p.entries) \in {NoVersion, p.release}
    <3>1. DOMAIN p.entries = 1..Len(p.entries)
      BY <1>1
    <3>2. i \in I => i \in DOMAIN p.entries
      BY <3>1
    <3> HIDE DEF i, I
    <3> QED BY <1>1, <2>2, <2>3, <3>2
  <2> QED BY <1>2, <1>3, <2>1, <2>4, NoDate
<1> QED BY <1>4, <1>5, <1>6

\* What a check says of a program is right about its release.
LEMMA VerdictTold ==
  ASSUME NEW p \in Programs, NEW latest \in {p.published, NoVersion}
  PROVE  /\ Verdict(p, latest) = "missing" => ~p.file
         /\ Verdict(p, latest) \in {"latest", "outdated"} =>
               \/ ByAccident(p)
               \/ (Verdict(p, latest) = "latest")
                  <=> AtLeast(p.release, LatestVersion(p.id, latest))
<1> DEFINE local == LocalVersion(p)
           w == LatestVersion(p.id, latest)
<1>1. /\ p.file \in BOOLEAN /\ p.version \in Seq(Seq(0..9)) /\ p.published \in Seq(Seq(0..9))
      /\ p.id # "potplayer" => p.version \in {NoVersion, p.release}
  BY ProgramAssumption
<1>2. Verdict(p, latest) =
         IF ~Installed(p) THEN "missing"
         ELSE IF local = NoVersion \/ w = NoVersion THEN "unknown"
         ELSE IF AtLeast(local, w) THEN "latest"
         ELSE "outdated"
  BY Zenon DEF Verdict
<1>3. ~Installed(p) => ~p.file
  BY DEF Installed
<1> HIDE DEF local, w
<1>4. ASSUME local # NoVersion, w # NoVersion
      PROVE  ByAccident(p) \/ (AtLeast(local, w) <=> AtLeast(p.release, w))
  <2>1. CASE p.id = "potplayer"
    BY <1>4, <2>1, PotPlayerLocal DEF local
  <2>2. CASE p.id = "bandizip"
    <3>1. local = MajorMinor(p.version) /\ w = MajorMinor(latest)
      BY <1>4, <2>2 DEF local, w, LocalVersion, LatestVersion
    <3>2. Len(p.version) >= 2 /\ Len(latest) >= 2
      <4>1. Len(p.version) \in Nat /\ Len(latest) \in Nat
        BY <1>1 DEF NoVersion
      <4> QED BY <1>4, <3>1, <4>1 DEF MajorMinor
    <3>3. latest = p.published /\ p.version = p.release
      BY <1>1, <2>2, <3>2 DEF NoVersion
    <3>4. MajorMinor(latest) \in Seq(Seq(0..9)) /\ Len(MajorMinor(latest)) = 2
      <4>1. MajorMinor(latest) = SubSeq(latest, 1, 2)
        BY <1>1, <3>2, <3>3 DEF MajorMinor
      <4>2. latest \in Seq(Seq(0..9))
        BY <1>1, <3>3
      <4> QED BY <3>2, <4>1, <4>2
    <3> QED BY <1>1, <3>1, <3>2, <3>3, <3>4, MajorMinorEnough
  <2>3. CASE p.id \notin {"potplayer", "bandizip"}
    <3>1. local = p.version
      BY <1>4, <2>3 DEF local, LocalVersion
    <3> QED BY <1>1, <1>4, <2>3, <3>1
  <2> QED BY <2>1, <2>2, <2>3
<1> QED BY <1>2, <1>3, <1>4 DEF w

LEMMA SizeType ==
  ASSUME NEW f \in Nat \cup {Denied}
  PROVE  SizeOf(f) \in Nat
BY DEF SizeOf, Denied

\* The sum of the sizes.
LEMMA SumFolds ==
  ASSUME NEW files \in Seq(Nat \cup {Denied})
  PROVE  FoldsTo(FoldLeft(LAMBDA n, f : n + SizeOf(f), 0, files), Len(files), Nat, 0,
           [i \in 1..Len(files) |-> [x \in Nat |-> x + SizeOf(files[i])]])
<1> DEFINE n == Len(files)
           A == Nat
           base == 0
           g == [i \in 1..n |-> [x \in Nat |-> x + SizeOf(files[i])]]
           Body(f) == [p \in SUBSET DOMAIN files |->
                         IF p = {} THEN base ELSE f[p \ {Max(p)}] + SizeOf(files[Max(p)])]
           fold == CHOOSE f : f = Body(f)
<1>1. n \in Nat /\ DOMAIN files = 1..n /\ \A i \in 1..n : SizeOf(files[i]) \in Nat
  <2>1. \A i \in 1..Len(files) : files[i] \in Nat \cup {Denied}
    OBVIOUS
  <2>2. \A i \in 1..Len(files) : SizeOf(files[i]) \in Nat
    BY <2>1, SizeType, Zenon
  <2> QED BY <2>2
<1>2. base \in A /\ g \in [1..n -> [A -> A]]
  BY <1>1
<1>3. PICK it \in [SUBSET (1..n) -> A] : FoldSteps(it, n, base, g)
  <2> HIDE DEF n, A, base, g
  <2> QED BY <1>1, <1>2, FoldExists
<1>4. \A p \in SUBSET (1..n) : p # {} => Max(p) \in 1..n
  <2> HIDE DEF n
  <2> QED BY <1>1, GreatestElement
<1>5. it = Body(it)
  <2> SUFFICES ASSUME NEW p \in SUBSET (1..n)
               PROVE  it[p] = IF p = {} THEN base ELSE it[p \ {Max(p)}] + SizeOf(files[Max(p)])
    BY <1>1
  <2>1. p \ {Max(p)} \in SUBSET (1..n)
    OBVIOUS
  <2>2. \A m \in 1..n, x \in A : g[m][x] = x + SizeOf(files[m])
    BY <1>1
  <2> HIDE DEF g, A
  <2> QED BY <1>3, <1>4, <2>1, <2>2 DEF FoldSteps
<1>6. fold = Body(fold)
  <2> HIDE DEF Body
  <2> QED BY <1>5, Zenon
<1>7. FoldLeft(LAMBDA k, f : k + SizeOf(f), 0, files) = fold[1..n]
  BY <1>1, Zenon DEF FoldLeft, MapThenFoldSet
<1>8. fold[{}] = base
  BY <1>6
<1>9. ASSUME NEW p \in SUBSET (1..n), p # {}, fold[p \ {Max(p)}] \in A
      PROVE  fold[p] = g[Max(p)][fold[p \ {Max(p)}]]
  <2>1. fold[p] = fold[p \ {Max(p)}] + SizeOf(files[Max(p)])
    BY <1>1, <1>6, <1>9
  <2>2. \A m \in 1..n, x \in A : g[m][x] = x + SizeOf(files[m])
    BY <1>1
  <2> HIDE DEF fold, n, A, base, g
  <2> QED BY <1>4, <1>9, <2>1, <2>2
<1> HIDE DEF fold, n, A, base, g
<1>10. FoldsTo(fold[1..n], n, A, base, g)
  BY <1>1, <1>2, <1>8, <1>9, FoldAlong
<1> QED BY <1>7, <1>10 DEF n, A, base, g


\* What is counted of it.
LEMMA CountFolds ==
  ASSUME NEW files \in Seq(Nat \cup {Denied}), NEW budget \in Nat
  PROVE  FoldsTo(CountUpTo(budget, files), Len(files), Nat, 0,
           [i \in 1..Len(files) |-> [x \in Nat |-> IF x >= budget THEN x
           ELSE x + SizeOf(files[i])]])
<1> DEFINE n == Len(files)
           A == Nat
           base == 0
           g == [i \in 1..n |-> [x \in Nat |-> IF x >= budget THEN x ELSE x + SizeOf(files[i])]]
           Body(f) == [p \in SUBSET DOMAIN files |->
                         IF p = {} THEN base
                           ELSE (IF f[p \ {Max(p)}] >= budget THEN f[p \ {Max(p)}]
                           ELSE f[p \ {Max(p)}] + SizeOf(files[Max(p)]))]
           fold == CHOOSE f : f = Body(f)
<1>1. n \in Nat /\ DOMAIN files = 1..n /\ \A i \in 1..n : SizeOf(files[i]) \in Nat
  <2>1. \A i \in 1..Len(files) : files[i] \in Nat \cup {Denied}
    OBVIOUS
  <2>2. \A i \in 1..Len(files) : SizeOf(files[i]) \in Nat
    BY <2>1, SizeType, Zenon
  <2> QED BY <2>2
<1>2. base \in A /\ g \in [1..n -> [A -> A]]
  BY <1>1
<1>3. PICK it \in [SUBSET (1..n) -> A] : FoldSteps(it, n, base, g)
  <2> HIDE DEF n, A, base, g
  <2> QED BY <1>1, <1>2, FoldExists
<1>4. \A p \in SUBSET (1..n) : p # {} => Max(p) \in 1..n
  <2> HIDE DEF n
  <2> QED BY <1>1, GreatestElement
<1>5. it = Body(it)
  <2> SUFFICES ASSUME NEW p \in SUBSET (1..n)
               PROVE  it[p] = IF p = {} THEN base
                        ELSE (IF it[p \ {Max(p)}] >= budget THEN it[p \ {Max(p)}]
                        ELSE it[p \ {Max(p)}] + SizeOf(files[Max(p)]))
    BY <1>1
  <2>1. p \ {Max(p)} \in SUBSET (1..n)
    OBVIOUS
  <2>2. \A m \in 1..n, x \in A : g[m][x] = (IF x >= budget THEN x ELSE x + SizeOf(files[m]))
    BY <1>1
  <2> HIDE DEF g, A
  <2> QED BY <1>3, <1>4, <2>1, <2>2 DEF FoldSteps
<1>6. fold = Body(fold)
  <2> HIDE DEF Body
  <2> QED BY <1>5, Zenon
<1>7. CountUpTo(budget, files) = fold[1..n]
  BY <1>1, Zenon DEF CountUpTo, FoldLeft, MapThenFoldSet
<1>8. fold[{}] = base
  BY <1>6
<1>9. ASSUME NEW p \in SUBSET (1..n), p # {}, fold[p \ {Max(p)}] \in A
      PROVE  fold[p] = g[Max(p)][fold[p \ {Max(p)}]]
  <2>1. fold[p] = (IF fold[p \ {Max(p)}] >= budget THEN fold[p \ {Max(p)}]
          ELSE fold[p \ {Max(p)}] + SizeOf(files[Max(p)]))
    BY <1>1, <1>6, <1>9
  <2>2. \A m \in 1..n, x \in A : g[m][x] = (IF x >= budget THEN x ELSE x + SizeOf(files[m]))
    BY <1>1
  <2> HIDE DEF fold, n, A, base, g
  <2> QED BY <1>4, <1>9, <2>1, <2>2
<1> HIDE DEF fold, n, A, base, g
<1>10. FoldsTo(fold[1..n], n, A, base, g)
  BY <1>1, <1>2, <1>8, <1>9, FoldAlong
<1> QED BY <1>7, <1>10 DEF n, A, base, g

\* What is counted is the sum, or not less than the budget.
LEMMA CountIsSum ==
  ASSUME NEW files \in Seq(Nat \cup {Denied}), NEW budget \in Nat
  PROVE  LET sum == FoldLeft(LAMBDA n, f : n + SizeOf(f), 0, files)
         IN  /\ sum \in Nat /\ CountUpTo(budget, files) \in Nat
             /\ CountUpTo(budget, files) < budget => sum = CountUpTo(budget, files)
             /\ CountUpTo(budget, files) >= budget => sum >= budget
<1> DEFINE sum == FoldLeft(LAMBDA n, f : n + SizeOf(f), 0, files)
           count == CountUpTo(budget, files)
           n == Len(files)
           h == [i \in 1..n |-> [x \in Nat |-> x + SizeOf(files[i])]]
           g == [i \in 1..n |-> [x \in Nat |-> IF x >= budget THEN x ELSE x + SizeOf(files[i])]]
<1> SUFFICES /\ sum \in Nat /\ count \in Nat
             /\ count < budget => sum = count
             /\ count >= budget => sum >= budget
  OBVIOUS
<1>1. n \in Nat /\ \A i \in 1..n : SizeOf(files[i]) \in Nat
  <2>1. \A i \in 1..Len(files) : files[i] \in Nat \cup {Denied}
    OBVIOUS
  <2>2. \A i \in 1..Len(files) : SizeOf(files[i]) \in Nat
    BY <2>1, SizeType, Zenon
  <2> QED BY <2>2
<1>2. PICK S \in [0..n -> Nat] : Iterates(S, n, 0, h) /\ sum = S[n]
  BY SumFolds DEF FoldsTo
<1>3. PICK C \in [0..n -> Nat] : Iterates(C, n, 0, g) /\ count = C[n]
  BY CountFolds DEF FoldsTo
<1>4. S[0] = 0 /\ C[0] = 0
  <2>1. 0 \in 0..n
    BY <1>1
  <2> HIDE DEF n, h, g
  <2> QED BY <1>2, <1>3, <2>1 DEF Iterates
<1>5. \A m \in 1..n, x \in Nat :
         /\ h[m][x] = x + SizeOf(files[m])
         /\ g[m][x] = IF x >= budget THEN x ELSE x + SizeOf(files[m])
  OBVIOUS
<1> HIDE DEF sum, count, n, h, g
<1>6. ASSUME NEW i \in Nat, i + 1 <= n
      PROVE  /\ S[i] \in Nat /\ C[i] \in Nat
             /\ S[i + 1] = S[i] + SizeOf(files[i + 1])
             /\ C[i + 1] = IF C[i] >= budget THEN C[i] ELSE C[i] + SizeOf(files[i + 1])
  <2>1. i + 1 \in 1..n /\ i + 1 \in 0..n /\ i \in 0..n /\ (i + 1) - 1 = i /\ i + 1 # 0
    BY <1>1, <1>6
  <2>2. S[i + 1] = h[i + 1][S[i]] /\ C[i + 1] = g[i + 1][C[i]]
    BY <1>2, <1>3, <2>1 DEF Iterates
  <2> QED BY <1>2, <1>3, <1>5, <2>1, <2>2
<1> DEFINE Same(i) == /\ S[i] \in Nat /\ C[i] \in Nat
                      /\ C[i] < budget => S[i] = C[i]
                      /\ C[i] >= budget => S[i] >= budget
           T == {i \in Nat : i <= n => Same(i)}
<1>7. 0 \in T
  BY <1>4
<1>8. ASSUME NEW i \in Nat, i \in T PROVE i + 1 \in T
  <2> SUFFICES ASSUME i + 1 <= n PROVE Same(i + 1)
    OBVIOUS
  <2>1. Same(i)
    BY <1>1, <1>8
  <2>2. SizeOf(files[i + 1]) \in Nat
    BY <1>1
  <2> QED BY <1>6, <2>1, <2>2
<1>9. Same(n)
  <2>1. n \in T
    <3> HIDE DEF T
    <3> QED BY <1>1, <1>7, <1>8, Induction
  <2> QED BY <1>1, <2>1
<1> QED BY <1>2, <1>3, <1>9

\* What is counted from profile to profile.
LEMMA BudgetFolds ==
  ASSUME NEW profiles \in Seq(Seq(Nat \cup {Denied})), NEW threshold \in Nat
  PROVE  FoldsTo(FoldLeft(LAMBDA n, files : IF n >= threshold + 1 THEN n
           ELSE n + CountUpTo(threshold + 1 - n, files), 0, profiles), Len(profiles), Nat, 0,
           [i \in 1..Len(profiles) |-> [x \in Nat |-> IF x >= threshold + 1 THEN x
           ELSE x + CountUpTo(threshold + 1 - x, profiles[i])]])
<1> DEFINE n == Len(profiles)
           A == Nat
           base == 0
           g == [i \in 1..n |-> [x \in Nat |-> IF x >= threshold + 1 THEN x
                  ELSE x + CountUpTo(threshold + 1 - x, profiles[i])]]
           Body(f) == [p \in SUBSET DOMAIN profiles |->
                         IF p = {} THEN base
                           ELSE (IF f[p \ {Max(p)}] >= threshold + 1 THEN f[p \ {Max(p)}]
                           ELSE f[p \ {Max(p)}] + CountUpTo(threshold + 1 - f[p \ {Max(p)}], profiles[Max(p)]))]
           fold == CHOOSE f : f = Body(f)
<1>1. n \in Nat /\ DOMAIN profiles = 1..n /\ \A i \in 1..n : \A x \in Nat :
        x < threshold + 1 => CountUpTo(threshold + 1 - x, profiles[i]) \in Nat
  <2>1. \A i \in 1..Len(profiles) : profiles[i] \in Seq(Nat \cup {Denied})
    OBVIOUS
  <2>2. ASSUME NEW i \in 1..Len(profiles), NEW x \in Nat, x < threshold + 1
        PROVE  CountUpTo(threshold + 1 - x, profiles[i]) \in Nat
    <3>1. threshold + 1 - x \in Nat
      BY <2>2
    <3> QED BY <2>1, <3>1, CountIsSum
  <2> QED BY <2>2
<1>2. base \in A /\ g \in [1..n -> [A -> A]]
  BY <1>1
<1>3. PICK it \in [SUBSET (1..n) -> A] : FoldSteps(it, n, base, g)
  <2> HIDE DEF n, A, base, g
  <2> QED BY <1>1, <1>2, FoldExists
<1>4. \A p \in SUBSET (1..n) : p # {} => Max(p) \in 1..n
  <2> HIDE DEF n
  <2> QED BY <1>1, GreatestElement
<1>5. it = Body(it)
  <2> SUFFICES ASSUME NEW p \in SUBSET (1..n)
               PROVE  it[p] = IF p = {} THEN base
                        ELSE (IF it[p \ {Max(p)}] >= threshold + 1 THEN it[p \ {Max(p)}]
                        ELSE it[p \ {Max(p)}] + CountUpTo(threshold + 1 - it[p \ {Max(p)}], profiles[Max(p)]))
    BY <1>1
  <2>1. p \ {Max(p)} \in SUBSET (1..n)
    OBVIOUS
  <2>2. \A m \in 1..n, x \in A : g[m][x] = (IF x >= threshold + 1 THEN x
          ELSE x + CountUpTo(threshold + 1 - x, profiles[m]))
    BY <1>1
  <2> HIDE DEF g, A
  <2> QED BY <1>3, <1>4, <2>1, <2>2 DEF FoldSteps
<1>6. fold = Body(fold)
  <2> HIDE DEF Body
  <2> QED BY <1>5, Zenon
<1>7. FoldLeft(LAMBDA k, files : IF k >= threshold + 1 THEN k
        ELSE k + CountUpTo(threshold + 1 - k, files), 0, profiles) = fold[1..n]
  BY <1>1, Zenon DEF FoldLeft, MapThenFoldSet
<1>8. fold[{}] = base
  BY <1>6
<1>9. ASSUME NEW p \in SUBSET (1..n), p # {}, fold[p \ {Max(p)}] \in A
      PROVE  fold[p] = g[Max(p)][fold[p \ {Max(p)}]]
  <2>1. fold[p] = (IF fold[p \ {Max(p)}] >= threshold + 1 THEN fold[p \ {Max(p)}]
          ELSE fold[p \ {Max(p)}] + CountUpTo(threshold + 1 - fold[p \ {Max(p)}], profiles[Max(p)]))
    BY <1>1, <1>6, <1>9
  <2>2. \A m \in 1..n, x \in A : g[m][x] = (IF x >= threshold + 1 THEN x
          ELSE x + CountUpTo(threshold + 1 - x, profiles[m]))
    BY <1>1
  <2> HIDE DEF fold, n, A, base, g
  <2> QED BY <1>4, <1>9, <2>1, <2>2
<1> HIDE DEF fold, n, A, base, g
<1>10. FoldsTo(fold[1..n], n, A, base, g)
  BY <1>1, <1>2, <1>8, <1>9, FoldAlong
<1> QED BY <1>7, <1>10 DEF n, A, base, g


\* Counting stops early, the verdict is the same.
LEMMA HistoryTold ==
  ASSUME NEW threshold \in Nat, NEW data, data.default \in Seq(Nat \cup {Denied})
  PROVE  HasHistory(threshold, data) <=>
            \/ data.others # <<>>
            \/ FoldLeft(LAMBDA n, f : n + SizeOf(f), 0, data.default) >= threshold
<1> DEFINE files == data.default
           sum == FoldLeft(LAMBDA n, f : n + SizeOf(f), 0, files)
           budget == threshold + 1
           count == CountUpTo(budget, files)
           size == BudgetedSize(threshold, data)
<1>1. /\ sum \in Nat /\ count \in Nat
      /\ count < budget => sum = count
      /\ count >= budget => sum >= budget
  <2>1. files \in Seq(Nat \cup {Denied}) /\ budget \in Nat
    OBVIOUS
  <2> HIDE DEF files, budget
  <2> QED BY <2>1, CountIsSum
<1>2. ASSUME data.others = <<>> PROVE size = count
  <2> DEFINE g == [i \in 1..1 |-> [x \in Nat |->
                     IF x >= threshold + 1 THEN x
                     ELSE x + CountUpTo(threshold + 1 - x, <<files>>[i])]]
  <2>1. <<files>> \o <<>> = <<files>> /\ <<files>> \in Seq(Seq(Nat \cup {Denied}))
          /\ Len(<<files>>) = 1
    OBVIOUS
  <2>2. size = FoldLeft(LAMBDA n, f : IF n >= threshold + 1 THEN n
                                      ELSE n + CountUpTo(threshold + 1 - n, f), 0, <<files>>)
    BY <1>2, <2>1, Zenon DEF BudgetedSize
  <2>3. FoldsTo(size, 1, Nat, 0, g)
    BY <2>1, <2>2, BudgetFolds
  <2>4. g[1][0] = count
    <3>1. ~ (0 >= threshold + 1) /\ threshold + 1 - 0 = threshold + 1 /\ <<files>>[1] = files
      OBVIOUS
    <3>2. g[1][0] = 0 + CountUpTo(threshold + 1 - 0, <<files>>[1])
      BY <3>1
    <3>3. CountUpTo(threshold + 1 - 0, <<files>>[1]) = count
      BY <3>1, Zenon
    <3>4. g[1][0] = 0 + count
      BY <3>2, <3>3, Zenon
    <3>5. 0 + count = count
      <4> HIDE DEF sum, count
      <4> QED BY <1>1
    <3> QED BY <3>4, <3>5, Zenon
  <2> HIDE DEF g, size, count
  <2>5. PICK f \in [0..1 -> Nat] : Iterates(f, 1, 0, g) /\ size = f[1]
    BY <2>3 DEF FoldsTo
  <2>6. f[0] = 0 /\ f[1] = g[1][f[0]]
    BY <2>5 DEF Iterates
  <2> QED BY <2>4, <2>5, <2>6
<1>3. HasHistory(threshold, data) <=> data.others # <<>> \/ size >= threshold
  BY Zenon DEF HasHistory
<1> HIDE DEF sum, count, size
<1>4. HasHistory(threshold, data) <=> data.others # <<>> \/ sum >= threshold
  BY <1>1, <1>2, <1>3
<1> QED BY <1>4 DEF sum

Entries == [name : Nat, version : Nat, kind : {"shown", "system", "nameless"},
            office : {"none", "2021", "2024", "365", "other"}]

LEMMA ConcatPlaces ==
  ASSUME NEW E, NEW s \in Seq(E), NEW t \in Seq(E)
  PROVE  /\ s \o t \in Seq(E) /\ Len(s \o t) = Len(s) + Len(t)
         /\ Len(s) \in Nat /\ Len(t) \in Nat
         /\ \A i \in 1..Len(s \o t) : (s \o t)[i] = IF i <= Len(s) THEN s[i] ELSE t[i - Len(s)]
OBVIOUS

LEMMA ConcatRange ==
  ASSUME NEW E, NEW s \in Seq(E), NEW t \in Seq(E)
  PROVE  Range(s \o t) = Range(s) \cup Range(t)
<1> DEFINE c == s \o t
           m == Len(s)
           n == Len(t)
<1>1. /\ m \in Nat /\ n \in Nat /\ DOMAIN s = 1..m /\ DOMAIN t = 1..n
      /\ DOMAIN c = 1..(m + n)
  OBVIOUS
<1>2. \A i \in 1..(m + n) : c[i] = IF i <= m THEN s[i] ELSE t[i - m]
  OBVIOUS
<1> SUFFICES Range(c) = Range(s) \cup Range(t)
  OBVIOUS
<1> HIDE DEF c, m, n
<1>3. \A i \in 1..m : i \in 1..(m + n) /\ c[i] = s[i]
  BY <1>1, <1>2
<1>4. \A i \in 1..n : i + m \in 1..(m + n) /\ c[i + m] = t[i]
  BY <1>1, <1>2
<1>5. \A i \in 1..(m + n) : i \in 1..m \/ (i - m \in 1..n /\ c[i] = t[i - m])
  BY <1>1, <1>2
<1>6. \A x \in Range(c) : x \in Range(s) \cup Range(t)
  <2> SUFFICES ASSUME NEW i \in 1..(m + n) PROVE c[i] \in Range(s) \cup Range(t)
    BY <1>1 DEF Range
  <2>1. CASE i \in 1..m
    BY <1>1, <1>3, <2>1 DEF Range
  <2>2. CASE i - m \in 1..n /\ c[i] = t[i - m]
    BY <1>1, <2>2 DEF Range
  <2> QED BY <1>5, <2>1, <2>2
<1>7. \A x \in Range(s) : x \in Range(c)
  BY <1>1, <1>3 DEF Range
<1>8. \A x \in Range(t) : x \in Range(c)
  BY <1>1, <1>4 DEF Range
<1> QED BY <1>6, <1>7, <1>8

LEMMA FlattenTwo ==
  ASSUME NEW E, NEW seqs \in [1..2 -> Seq(E)]
  PROVE  FlattenSeq(seqs) = seqs[1] \o seqs[2]
<1> DEFINE Body(f) == [i \in 1..Len(seqs) |-> IF i = 1 THEN seqs[i] ELSE f[i - 1] \o seqs[i]]
           it == [i \in 1..2 |-> IF i = 1 THEN seqs[1] ELSE seqs[1] \o seqs[2]]
           flatten == CHOOSE f : f = Body(f)
<1>1. Len(seqs) = 2 /\ Len(seqs) # 0
  <2>1. Len(seqs) = 2
    OBVIOUS
  <2> QED BY <2>1
<1>2. it = Body(it)
  BY <1>1
<1>3. flatten = Body(flatten)
  <2> HIDE DEF it, Body
  <2> QED BY <1>2, Zenon
<1>4. FlattenSeq(seqs) = flatten[2]
  BY <1>1, Zenon DEF FlattenSeq
<1> HIDE DEF flatten
<1>5. flatten[1] = seqs[1] /\ flatten[2] = flatten[1] \o seqs[2]
  BY <1>1, <1>3
<1> QED BY <1>4, <1>5

LEMMA FlattenThree ==
  ASSUME NEW E, NEW seqs \in [1..3 -> Seq(E)]
  PROVE  FlattenSeq(seqs) = (seqs[1] \o seqs[2]) \o seqs[3]
<1> DEFINE Body(f) == [i \in 1..Len(seqs) |-> IF i = 1 THEN seqs[i] ELSE f[i - 1] \o seqs[i]]
           it == [i \in 1..3 |-> IF i = 1 THEN seqs[1] ELSE IF i = 2 THEN seqs[1] \o seqs[2]
                                 ELSE (seqs[1] \o seqs[2]) \o seqs[3]]
           flatten == CHOOSE f : f = Body(f)
<1>1. Len(seqs) = 3 /\ Len(seqs) # 0
  <2>1. Len(seqs) = 3
    OBVIOUS
  <2> QED BY <2>1
<1>2. it = Body(it)
  BY <1>1
<1>3. flatten = Body(flatten)
  <2> HIDE DEF it, Body
  <2> QED BY <1>2, Zenon
<1>4. FlattenSeq(seqs) = flatten[3]
  BY <1>1, Zenon DEF FlattenSeq
<1> HIDE DEF flatten
<1>5. /\ flatten[1] = seqs[1] /\ flatten[2] = flatten[1] \o seqs[2]
      /\ flatten[3] = flatten[2] \o seqs[3]
  <2>1. \A i \in 1..3 : flatten[i] = IF i = 1 THEN seqs[i] ELSE flatten[i - 1] \o seqs[i]
    BY <1>1, <1>3
  <2>2. 1 \in 1..3 /\ 2 \in 1..3 /\ 3 \in 1..3 /\ 2 - 1 = 1 /\ 3 - 1 = 2
    OBVIOUS
  <2> QED BY <2>1, <2>2
<1> QED BY <1>4, <1>5

\* The verdict on Office is that of one that is installed for the machine.
LEMMA OfficeTold ==
  ASSUME NEW rs \in Roots, NEW answering \in SUBSET (1..3)
  PROVE  LET found == {e.office : e \in UNION {Range(rs[r]) : r \in answering \ {3}}} \ {"none"}
             verdict == OfficeVerdict(OfficeFound(rs, answering))
         IN  /\ verdict = "missing" <=> found = {}
             /\ verdict = "supported" => found # {"other"}
             /\ verdict = "not recommended" => "other" \in found
<1> DEFINE all == UNION {Range(rs[r]) : r \in answering \ {3}}
           found == {e.office : e \in all} \ {"none"}
           verdict == OfficeVerdict(OfficeFound(rs, answering))
           seqs == [i \in 1..2 |-> IF i \in answering THEN rs[i] ELSE <<>>]
           read == FlattenSeq(seqs)
           I == {i \in 1..Len(read) : read[i].kind # "nameless" /\ read[i].office # "none"}
           first == IF I # {} THEN Min(I) ELSE 0
<1> SUFFICES /\ verdict = "missing" <=> found = {}
             /\ verdict = "supported" => found # {"other"}
             /\ verdict = "not recommended" => "other" \in found
  OBVIOUS
<1>1. /\ rs \in [1..3 -> Seq(Entries)]
      /\ \A k \in 1..3 : \A i \in DOMAIN rs[k] :
             rs[k][i].kind = "nameless" => rs[k][i].office = "none"
  BY RootsAssumption DEF Entries
<1>2. seqs \in [1..2 -> Seq(Entries)]
  BY <1>1
<1>3. read = seqs[1] \o seqs[2] /\ seqs[1] \in Seq(Entries) /\ seqs[2] \in Seq(Entries)
  <2> HIDE DEF seqs
  <2>1. seqs[1] \in Seq(Entries) /\ seqs[2] \in Seq(Entries)
    BY <1>2
  <2>2. read = seqs[1] \o seqs[2]
    BY <1>2, FlattenTwo
  <2> QED BY <2>1, <2>2
<1>4. read \in Seq(Entries) /\ Range(read) = Range(seqs[1]) \cup Range(seqs[2])
  <2> HIDE DEF seqs, read
  <2> QED BY <1>3, ConcatRange
<1>5. Range(read) = all
  <2>1. \A r \in 1..2 : Range(seqs[r]) = IF r \in answering THEN Range(rs[r]) ELSE {}
    <3>1. Range(<<>>) = {}
      BY DEF Range
    <3>2. \A r \in 1..2 : seqs[r] = IF r \in answering THEN rs[r] ELSE <<>>
      OBVIOUS
    <3> HIDE DEF seqs
    <3> QED BY <3>1, <3>2
  <2>2. answering \ {3} = answering \cap {1, 2}
    <3>1. \A r \in answering : r \in {1, 2, 3}
      OBVIOUS
    <3>2. 1 # 3 /\ 2 # 3
      OBVIOUS
    <3> QED BY <3>1, <3>2, Zenon
  <2> HIDE DEF seqs, read
  <2> QED BY <1>4, <2>1, <2>2
<1>6. \A e \in all : e \in Entries /\ (e.kind = "nameless" => e.office = "none")
  <2> SUFFICES ASSUME NEW r \in answering, NEW e \in Range(rs[r])
               PROVE  e \in Entries /\ (e.kind = "nameless" => e.office = "none")
    OBVIOUS
  <2>1. rs[r] \in Seq(Entries)
    BY <1>1
  <2>2. PICK i \in DOMAIN rs[r] : e = rs[r][i]
    BY DEF Range
  <2>3. rs[r][i] \in Entries
    BY <2>1, <2>2
  <2>4. r \in 1..3
    OBVIOUS
  <2> QED BY <1>1, <2>2, <2>3, <2>4
<1>7. Range(read) = {read[i] : i \in 1..Len(read)}
  <2> HIDE DEF read
  <2>1. DOMAIN read = 1..Len(read)
    BY <1>4
  <2> QED BY <2>1 DEF Range
<1>8. OfficeFound(rs, answering) = IF first = 0 THEN "none" ELSE read[first].office
  BY Zenon DEF OfficeFound, SelectInSeq
<1>9. first = 0 \/ first \in I
  <2>1. I \in SUBSET Nat
    OBVIOUS
  <2> HIDE DEF I
  <2> QED BY <2>1, LeastElement
<1>10. I # {} => first # 0
  <2>1. 0 \notin I /\ I \in SUBSET Nat
    OBVIOUS
  <2> HIDE DEF I
  <2> QED BY <2>1, LeastElement
<1>11. CASE first = 0
  <2>1. I = {}
    BY <1>10, <1>11
  <2>2. found = {}
    <3> SUFFICES ASSUME NEW e \in all, e.office # "none" PROVE FALSE
      OBVIOUS
    <3>1. e.kind # "nameless"
      BY <1>6
    <3>2. PICK i \in 1..Len(read) : e = read[i]
      BY <1>5, <1>7
    <3> HIDE DEF read
    <3> QED BY <2>1, <3>1, <3>2
  <2>3. verdict = "missing"
    BY <1>8, <1>11 DEF OfficeVerdict
  <2> QED BY <2>2, <2>3
<1>12. CASE first # 0
  <2> DEFINE o == read[first].office
  <2>1. first \in 1..Len(read) /\ o # "none"
    BY <1>9, <1>12
  <2>2. read[first] \in all
    <3> HIDE DEF read, first, all
    <3> QED BY <1>5, <1>7, <2>1
  <2>3. read[first] \in Entries
    BY <1>6, <2>2
  <2>4. o \in found /\ o \in {"none", "2021", "2024", "365", "other"}
    <3> HIDE DEF read, first, all
    <3> QED BY <2>1, <2>2, <2>3 DEF Entries
  <2>5. verdict = OfficeVerdict(o)
    BY <1>8, <1>12
  <2> HIDE DEF o, found, verdict
  <2> QED BY <2>1, <2>4, <2>5 DEF OfficeVerdict, o
<1> QED BY <1>11, <1>12

LEMMA FirstOfNameType ==
  ASSUME NEW list \in Seq(Entries), NEW e \in Entries
  PROVE  FirstOfName(list, e) \in Seq(Entries)
BY DEF FirstOfName

\* The list of those read first of their names.
LEMMA FirstOfNameFolds ==
  ASSUME NEW read \in Seq(Entries)
  PROVE  FoldsTo(FoldLeft(FirstOfName, <<>>, read), Len(read), Seq(Entries), <<>>,
           [i \in 1..Len(read) |-> [x \in Seq(Entries) |-> FirstOfName(x, read[i])]])
<1> DEFINE n == Len(read)
           A == Seq(Entries)
           base == <<>>
           g == [i \in 1..n |-> [x \in Seq(Entries) |-> FirstOfName(x, read[i])]]
           Body(f) == [p \in SUBSET DOMAIN read |->
                         IF p = {} THEN base ELSE FirstOfName(f[p \ {Max(p)}], read[Max(p)])]
           fold == CHOOSE f : f = Body(f)
<1>1. n \in Nat /\ DOMAIN read = 1..n /\ \A i \in 1..n : \A x \in Seq(Entries) :
        FirstOfName(x, read[i]) \in Seq(Entries)
  <2>1. \A i \in 1..Len(read) : read[i] \in Entries
    OBVIOUS
  <2>2. \A i \in 1..Len(read) : \A x \in Seq(Entries) : FirstOfName(x, read[i]) \in Seq(Entries)
    BY <2>1, FirstOfNameType, Zenon
  <2> QED BY <2>2
<1>2. base \in A /\ g \in [1..n -> [A -> A]]
  BY <1>1
<1>3. PICK it \in [SUBSET (1..n) -> A] : FoldSteps(it, n, base, g)
  <2> HIDE DEF n, A, base, g
  <2> QED BY <1>1, <1>2, FoldExists
<1>4. \A p \in SUBSET (1..n) : p # {} => Max(p) \in 1..n
  <2> HIDE DEF n
  <2> QED BY <1>1, GreatestElement
<1>5. it = Body(it)
  <2> SUFFICES ASSUME NEW p \in SUBSET (1..n)
               PROVE  it[p] = IF p = {} THEN base ELSE FirstOfName(it[p \ {Max(p)}], read[Max(p)])
    BY <1>1
  <2>1. p \ {Max(p)} \in SUBSET (1..n)
    OBVIOUS
  <2>2. \A m \in 1..n, x \in A : g[m][x] = FirstOfName(x, read[m])
    BY <1>1
  <2> HIDE DEF g, A
  <2> QED BY <1>3, <1>4, <2>1, <2>2 DEF FoldSteps
<1>6. fold = Body(fold)
  <2> HIDE DEF Body
  <2> QED BY <1>5, Zenon
<1>7. FoldLeft(FirstOfName, <<>>, read) = fold[1..n]
  BY <1>1, Zenon DEF FoldLeft, MapThenFoldSet
<1>8. fold[{}] = base
  BY <1>6
<1>9. ASSUME NEW p \in SUBSET (1..n), p # {}, fold[p \ {Max(p)}] \in A
      PROVE  fold[p] = g[Max(p)][fold[p \ {Max(p)}]]
  <2>1. fold[p] = FirstOfName(fold[p \ {Max(p)}], read[Max(p)])
    BY <1>1, <1>6, <1>9
  <2>2. \A m \in 1..n, x \in A : g[m][x] = FirstOfName(x, read[m])
    BY <1>1
  <2> HIDE DEF fold, n, A, base, g
  <2> QED BY <1>4, <1>9, <2>1, <2>2
<1> HIDE DEF fold, n, A, base, g
<1>10. FoldsTo(fold[1..n], n, A, base, g)
  BY <1>1, <1>2, <1>8, <1>9, FoldAlong
<1> QED BY <1>7, <1>10 DEF n, A, base, g


\* The list has each name once, and of those read with it the first.
LEMMA FirstNames ==
  ASSUME NEW read \in Seq(Entries), NEW list, list = FoldLeft(FirstOfName, <<>>, read)
  PROVE  /\ list \in Seq(Entries)
         /\ \A e, f \in Range(list) : e.name = f.name => e = f
         /\ \A j \in 1..Len(read) : \E e \in Range(list) :
               e.name = read[j].name /\ \E l \in 1..j : e = read[l]
<1> DEFINE n == Len(read)
           A == Seq(Entries)
           base == <<>>
           g == [i \in 1..n |-> [x \in A |-> FirstOfName(x, read[i])]]
<1>1. n \in Nat /\ \A i \in 1..n : read[i] \in Entries
  OBVIOUS
<1>2. PICK F \in [0..n -> A] : Iterates(F, n, base, g) /\ list = F[n]
  <2>1. FoldsTo(list, n, A, base, g)
    BY FirstOfNameFolds, Zenon
  <2> HIDE DEF n, A, base, g
  <2> QED BY <2>1 DEF FoldsTo
<1>3. \A m \in 1..n, x \in A : g[m][x] = FirstOfName(x, read[m])
  OBVIOUS
<1>4. F[0] = <<>>
  <2>1. 0 \in 0..n
    BY <1>1
  <2> HIDE DEF n, g
  <2> QED BY <1>2, <2>1 DEF Iterates
<1> DEFINE Kept(k) == /\ F[k] \in Seq(Entries)
                      /\ \A e, f \in Range(F[k]) : e.name = f.name => e = f
                      /\ \A e \in Range(F[k]) : \E l \in 1..k : e = read[l]
                      /\ \A j \in 1..k : \E e \in Range(F[k]) :
                            e.name = read[j].name /\ \E l \in 1..j : e = read[l]
           T == {k \in Nat : k <= n => Kept(k)}
<1>5. Kept(0)
  <2>1. Range(<<>>) = {}
    BY DEF Range
  <2>2. 1..0 = {}
    OBVIOUS
  <2> QED BY <1>4, <2>1, <2>2
<1>6. ASSUME NEW k \in Nat, k + 1 <= n, Kept(k) PROVE Kept(k + 1)
  <2> DEFINE before == F[k]
             after == F[k + 1]
             new == read[k + 1]
  <2>1. after = FirstOfName(before, new)
    <3>1. k + 1 \in 1..n /\ k + 1 \in 0..n /\ k \in 0..n /\ (k + 1) - 1 = k /\ k + 1 # 0
      BY <1>1, <1>6
    <3> HIDE DEF n, g, A
    <3>2. F[k + 1] = g[k + 1][F[k]]
      BY <1>2, <3>1 DEF Iterates
    <3> QED BY <1>2, <1>3, <3>1, <3>2
  <2>2. new \in Entries /\ before \in Seq(Entries)
    BY <1>1, <1>6
  <2>3. /\ \A e, f \in Range(before) : e.name = f.name => e = f
        /\ \A e \in Range(before) : \E l \in 1..k : e = read[l]
        /\ \A j \in 1..k : \E e \in Range(before) :
              e.name = read[j].name /\ \E l \in 1..j : e = read[l]
    BY <1>6
  <2>4. \A l \in 1..k : l \in 1..(k + 1)
    OBVIOUS
  <2>5. \A j \in 1..(k + 1) : j \in 1..k \/ j = k + 1
    OBVIOUS
  <2>6. k + 1 \in 1..(k + 1)
    OBVIOUS
  <2> SUFFICES /\ after \in Seq(Entries)
               /\ \A e, f \in Range(after) : e.name = f.name => e = f
               /\ \A e \in Range(after) : \E l \in 1..(k + 1) : e = read[l]
               /\ \A j \in 1..(k + 1) : \E e \in Range(after) :
                     e.name = read[j].name /\ \E l \in 1..j : e = read[l]
    OBVIOUS
  <2> HIDE DEF before, after
  <2>7. CASE \E e \in Range(before) : e.name = new.name
    <3>1. after = before
      BY <2>1, <2>7 DEF FirstOfName, Range
    <3>2. PICK e \in Range(before) : e.name = new.name
      BY <2>7
    <3>3. PICK l \in 1..k : e = read[l]
      BY <2>3
    <3>4. \A j \in 1..(k + 1) : \E d \in Range(before) :
             d.name = read[j].name /\ \E m \in 1..j : d = read[m]
      <4>1. \E m \in 1..(k + 1) : e = read[m]
        BY <2>4, <3>3
      <4> QED BY <2>3, <2>5, <3>2, <4>1
    <3>5. \A d \in Range(before) : \E m \in 1..(k + 1) : d = read[m]
      BY <2>3, <2>4
    <3> QED BY <2>2, <2>3, <3>1, <3>4, <3>5
  <2>8. CASE \A e \in Range(before) : e.name # new.name
    <3>1. after = Append(before, new)
      BY <2>1, <2>8 DEF FirstOfName, Range
    <3>2. after \in Seq(Entries) /\ Range(after) = Range(before) \cup {new}
      BY <2>2, <3>1, AppendRange
    <3>3. \A e, f \in Range(after) : e.name = f.name => e = f
      BY <2>3, <2>8, <3>2
    <3>4. \A e \in Range(after) : \E l \in 1..(k + 1) : e = read[l]
      BY <2>3, <2>4, <2>6, <3>2
    <3>5. \A j \in 1..(k + 1) : \E e \in Range(after) :
             e.name = read[j].name /\ \E l \in 1..j : e = read[l]
      <4>1. \A j \in 1..k : \E e \in Range(after) :
               e.name = read[j].name /\ \E l \in 1..j : e = read[l]
        BY <2>3, <3>2
      <4>2. new \in Range(after) /\ new.name = read[k + 1].name /\ \E l \in 1..(k + 1) :
              new = read[l]
        BY <2>6, <3>2
      <4> QED BY <2>5, <4>1, <4>2
    <3> QED BY <3>2, <3>3, <3>4, <3>5
  <2> QED BY <2>7, <2>8
<1>7. Kept(n)
  <2> HIDE DEF Kept
  <2>1. 0 \in T
    BY <1>5
  <2>2. ASSUME NEW k \in Nat, k \in T PROVE k + 1 \in T
    BY <1>1, <1>6, <2>2
  <2>3. n \in T
    <3> HIDE DEF T, n
    <3> QED BY <1>1, <2>1, <2>2, Induction
  <2> QED BY <1>1, <2>3
<1> QED BY <1>2, <1>7

\* The list has each name once, in order, as the first root has it.
LEMMA ListTold ==
  ASSUME NEW rs \in Roots, NEW answering \in SUBSET (1..3),
         NEW list, list = ListPrograms(rs, answering)
  PROVE  /\ \A i, j \in DOMAIN list : i < j => list[i].name < list[j].name
         /\ \A r \in answering : \A e \in Range(Shown(rs[r])) :
               \E i \in DOMAIN list :
                  /\ list[i].name = e.name
                  /\ \E s \in answering : s <= r /\ list[i] \in Range(Shown(rs[s]))
<1> DEFINE seqs == [i \in 1..3 |-> IF i \in answering THEN Shown(rs[i]) ELSE <<>>]
           one == seqs[1]
           two == seqs[2]
           three == seqs[3]
           read == (one \o two) \o three
           Root(l) == IF l <= Len(one) THEN 1 ELSE IF l <= Len(one) + Len(two) THEN 2 ELSE 3
           first == FoldLeft(FirstOfName, <<>>, read)
           unique == Range(first)
           order == {p \in unique \X unique : p[1].name < p[2].name}
<1>1. rs \in [1..3 -> Seq(Entries)]
  BY RootsAssumption DEF Entries
<1>2. \A r \in 1..3 : Shown(rs[r]) \in Seq(Entries)
  <2> SUFFICES ASSUME NEW r \in 1..3 PROVE Shown(rs[r]) \in Seq(Entries)
    OBVIOUS
  <2> DEFINE kept == {e \in Range(rs[r]) : e.kind = "shown"}
  <2>1. rs[r] \in Seq(Entries)
    BY <1>1
  <2>2. Shown(rs[r]) = Those(rs[r], kept)
    BY DEF Shown
  <2> HIDE DEF kept
  <2> QED BY <2>1, <2>2, ThoseProperties
<1>3. seqs \in [1..3 -> Seq(Entries)]
  BY <1>2
<1>4. one \in Seq(Entries) /\ two \in Seq(Entries) /\ three \in Seq(Entries)
  <2> HIDE DEF seqs
  <2> QED BY <1>3
<1>5. \A r \in 1..3 : \A e \in Range(seqs[r]) : r \in answering /\ e \in Range(Shown(rs[r]))
  <2>1. Range(<<>>) = {}
    BY DEF Range
  <2>2. \A r \in 1..3 : seqs[r] = IF r \in answering THEN Shown(rs[r]) ELSE <<>>
    OBVIOUS
  <2> HIDE DEF seqs
  <2> QED BY <2>1, <2>2
<1>6. \A r \in answering : seqs[r] = Shown(rs[r]) /\ r \in 1..3
  OBVIOUS
<1>7. list = Sorted(unique, order)
  <2>1. DOMAIN rs = 1..3
    BY <1>1
  <2>2. FlattenSeq(seqs) = read
    <3> HIDE DEF seqs
    <3> QED BY <1>3, FlattenThree
  <2>3. list = LET u == Range(FoldLeft(FirstOfName, <<>>, FlattenSeq(seqs)))
               IN  Sorted(u, {p \in u \X u : p[1].name < p[2].name})
    BY <2>1, Zenon DEF ListPrograms
  <2> HIDE DEF seqs, one, two, three, read
  <2> QED BY <2>2, <2>3, Zenon
<1> HIDE DEF seqs
<1>8. /\ read \in Seq(Entries)
      /\ Len(read) = Len(one) + Len(two) + Len(three)
      /\ Len(one) \in Nat /\ Len(two) \in Nat /\ Len(three) \in Nat
      /\ \A l \in 1..Len(read) :
            read[l] = IF l <= Len(one) THEN one[l]
                      ELSE IF l <= Len(one) + Len(two) THEN two[l - Len(one)]
                      ELSE three[l - Len(one) - Len(two)]
  <2> DEFINE both == one \o two
  <2>1. /\ both \in Seq(Entries) /\ Len(both) = Len(one) + Len(two)
        /\ Len(one) \in Nat /\ Len(two) \in Nat /\ Len(three) \in Nat
        /\ \A l \in 1..Len(both) : both[l] = IF l <= Len(one) THEN one[l] ELSE two[l - Len(one)]
    <3> HIDE DEF one, two, three
    <3> QED BY <1>4, ConcatPlaces
  <2> HIDE DEF one, two, three, both
  <2>2. /\ both \o three \in Seq(Entries) /\ Len(both \o three) = Len(both) + Len(three)
        /\ \A l \in 1..Len(both \o three) :
              (both \o three)[l] = IF l <= Len(both) THEN both[l] ELSE three[l - Len(both)]
    <3>1. both \in Seq(Entries) /\ three \in Seq(Entries)
      BY <1>4, <2>1
    <3> QED BY ONLY <3>1, ConcatPlaces, Zenon
  <2>3. read = both \o three
    BY DEF both
  <2> HIDE DEF read
  <2>4. \A l \in 1..Len(read) :
            read[l] = IF l <= Len(one) THEN one[l]
                      ELSE IF l <= Len(one) + Len(two) THEN two[l - Len(one)]
                      ELSE three[l - Len(one) - Len(two)]
    BY <2>1, <2>2, <2>3
  <2> QED BY <2>1, <2>2, <2>3, <2>4
<1>9. /\ DOMAIN one = 1..Len(one) /\ DOMAIN two = 1..Len(two) /\ DOMAIN three = 1..Len(three)
  <2> HIDE DEF one, two, three
  <2> QED BY <1>4
<1>10. \A l \in 1..Len(read) : Root(l) \in 1..3 /\ read[l] \in Range(seqs[Root(l)])
  <2> SUFFICES ASSUME NEW l \in 1..Len(read)
        PROVE Root(l) \in 1..3 /\ read[l] \in Range(seqs[Root(l)])
    OBVIOUS
  <2> HIDE DEF read, one, two, three
  <2>1. CASE l <= Len(one)
    <3>1. l \in DOMAIN one /\ read[l] = one[l]
      BY <1>8, <1>9, <2>1
    <3> QED BY <2>1, <3>1 DEF Range, one
  <2>2. CASE ~(l <= Len(one)) /\ l <= Len(one) + Len(two)
    <3>1. l - Len(one) \in DOMAIN two /\ read[l] = two[l - Len(one)]
      BY <1>8, <1>9, <2>2
    <3> QED BY <2>2, <3>1 DEF Range, two
  <2>3. CASE ~(l <= Len(one)) /\ ~(l <= Len(one) + Len(two))
    <3>1. l - Len(one) - Len(two) \in DOMAIN three /\ read[l] = three[l - Len(one) - Len(two)]
      BY <1>8, <1>9, <2>3
    <3> QED BY <2>3, <3>1 DEF Range, three
  <2> QED BY <2>1, <2>2, <2>3
<1>11. \A r \in 1..3 : \A e \in Range(seqs[r]) :
          \E l \in 1..Len(read) : read[l] = e /\ Root(l) = r
  <2> SUFFICES ASSUME NEW r \in 1..3, NEW e \in Range(seqs[r])
               PROVE  \E l \in 1..Len(read) : read[l] = e /\ Root(l) = r
    OBVIOUS
  <2>1. PICK k \in DOMAIN seqs[r] : e = seqs[r][k]
    BY DEF Range
  <2> HIDE DEF read
  <2>2. CASE r = 1
    <3>1. k \in DOMAIN one /\ e = one[k]
      BY <2>1, <2>2
    <3> HIDE DEF one, two, three
    <3>2. k \in 1..Len(read) /\ k <= Len(one)
      BY <1>8, <1>9, <3>1
    <3>3. read[k] = e
      BY <1>8, <3>1, <3>2
    <3> QED BY <2>2, <3>2, <3>3
  <2>3. CASE r = 2
    <3>1. k \in DOMAIN two /\ e = two[k]
      BY <2>1, <2>3
    <3> HIDE DEF one, two, three
    <3>2. /\ k + Len(one) \in 1..Len(read) /\ ~(k + Len(one) <= Len(one))
          /\ k + Len(one) <= Len(one) + Len(two) /\ (k + Len(one)) - Len(one) = k
      BY <1>8, <1>9, <3>1
    <3>3. read[k + Len(one)] = e
      BY <1>8, <3>1, <3>2
    <3> QED BY <2>3, <3>2, <3>3
  <2>4. CASE r = 3
    <3>1. k \in DOMAIN three /\ e = three[k]
      BY <2>1, <2>4
    <3> HIDE DEF one, two, three
    <3> DEFINE m == k + Len(one) + Len(two)
    <3>2. /\ m \in 1..Len(read) /\ ~(m <= Len(one))
          /\ ~(m <= Len(one) + Len(two)) /\ m - Len(one) - Len(two) = k
      BY <1>8, <1>9, <3>1
    <3>3. read[m] = e
      <4> HIDE DEF m
      <4> QED BY <1>8, <3>1, <3>2
    <3>4. Root(m) = 3
      <4> HIDE DEF m
      <4> QED BY <3>2
    <3>5. m \in 1..Len(read) /\ read[m] = e /\ Root(m) = r
      BY <2>4, <3>2, <3>3, <3>4
    <3> QED BY <3>5
  <2>5. r = 1 \/ r = 2 \/ r = 3
    OBVIOUS
  <2> HIDE DEF Root, one, two, three
  <2> QED BY ONLY <2>2, <2>3, <2>4, <2>5, Zenon
<1>12. \A j \in 1..Len(read) : \A l \in 1..j : Root(l) <= Root(j) /\ l \in 1..Len(read)
  <2> HIDE DEF read, one, two, three
  <2> QED BY <1>8
<1> HIDE DEF read
<1>13. /\ first \in Seq(Entries)
       /\ \A e, f \in unique : e.name = f.name => e = f
       /\ \A j \in 1..Len(read) : \E e \in unique :
             e.name = read[j].name /\ \E l \in 1..j : e = read[l]
  <2>1. read \in Seq(Entries)
    BY <1>8
  <2> HIDE DEF first
  <2> QED BY <2>1, FirstNames, Zenon DEF first
<1> HIDE DEF first, Root
<1>14. unique \subseteq Entries /\ IsFiniteSet(unique)
  <2>1. unique = {first[i] : i \in 1..Len(first)} /\ Len(first) \in Nat
    BY <1>13 DEF Range
  <2>2. \A i \in 1..Len(first) : first[i] \in Entries
    BY <1>13
  <2>3. IsFiniteSet(1..Len(first))
    BY <2>1, FS_Interval
  <2>4. IsFiniteSet(unique)
    <3> DEFINE f == [i \in 1..Len(first) |-> first[i]]
    <3>1. f \in Surjection(1..Len(first), unique)
      BY <2>1 DEF Surjection
    <3> HIDE DEF f, unique
    <3> QED BY <2>3, <3>1, FS_Surjection
  <2> QED BY <2>1, <2>2, <2>4
<1>15. \A a, b \in unique : <<a, b>> \in order <=> a.name < b.name
  OBVIOUS
<1> HIDE DEF unique, order
<1>16. \A a \in unique : a.name \in Nat
  BY <1>14 DEF Entries
<1>17. StrictlyOrders(order, unique)
  <2>1. \A a, b \in unique : a # b => a.name # b.name
    BY <1>13
  <2> QED BY <1>15, <1>16, <2>1 DEF StrictlyOrders
<1> DEFINE n == Cardinality(unique)
<1>18. /\ list \in [1..n -> unique]
       /\ \A a \in unique : \E i \in 1..n : list[i] = a
       /\ \A i, j \in 1..n : i < j => <<list[i], list[j]>> \in order
  BY <1>7, <1>14, <1>17, SortedProperties
<1> HIDE DEF n
<1>19. \A i, j \in DOMAIN list : i < j => list[i].name < list[j].name
  BY <1>15, <1>18
<1>20. ASSUME NEW r \in answering, NEW e \in Range(Shown(rs[r]))
       PROVE  \E i \in DOMAIN list :
                  /\ list[i].name = e.name
                  /\ \E s \in answering : s <= r /\ list[i] \in Range(Shown(rs[s]))
  <2>1. PICK j \in 1..Len(read) : read[j] = e /\ Root(j) = r
    BY <1>6, <1>11
  <2>2. PICK f \in unique : f.name = e.name /\ \E l \in 1..j : f = read[l]
    BY <1>13, <2>1
  <2>3. PICK l \in 1..j : f = read[l]
    BY <2>2
  <2>4. Root(l) <= r /\ l \in 1..Len(read)
    BY <1>12, <2>1
  <2>5. Root(l) \in answering /\ f \in Range(Shown(rs[Root(l)]))
    BY <1>5, <1>10, <2>3, <2>4
  <2>6. PICK i \in 1..n : list[i] = f
    BY <1>18
  <2>7. i \in DOMAIN list
    BY <1>18
  <2> QED BY <2>2, <2>4, <2>5, <2>6, <2>7
<1> QED BY <1>19, <1>20

\* The three verdicts and the list are right when they are those of the readers.
LEMMA ReadProgramsTold == ReadInv => ProgramsTold
<1> SUFFICES ASSUME ReadInv PROVE ProgramsTold
  OBVIOUS
<1>1. ASSUME checked # Nothing
      PROVE  LET p == checked.of
             IN  /\ checked.verdict = "missing" => ~p.file
                 /\ checked.verdict \in {"latest", "outdated"} =>
                       \/ ByAccident(p)
                       \/ (checked.verdict = "latest")
                          <=> AtLeast(p.release, LatestVersion(p.id, checked.latest))
  <2>1. /\ checked.of \in Programs /\ checked.latest \in {checked.of.published, NoVersion}
        /\ checked.verdict = Verdict(checked.of, checked.latest)
    BY <1>1 DEF ReadInv, ProgramsChecked
  <2> QED BY <2>1, VerdictTold, Zenon
<1>2. ASSUME checked # Nothing
      PROVE  checked.history <=>
                \/ checked.browser.others # <<>>
                \/ FoldLeft(LAMBDA n, f : n + SizeOf(f), 0, checked.browser.default) >= Threshold
  <2>1. /\ checked.browser \in Browsers
        /\ checked.history = HasHistory(Threshold, checked.browser)
    BY <1>2 DEF ReadInv, ProgramsChecked
  <2>2. checked.browser.default \in Seq(Nat \cup {Denied}) /\ Threshold \in Nat
    BY <2>1, BrowserAssumption, InventoryAssumption
  <2> QED BY <2>1, <2>2, HistoryTold, Zenon
<1>3. ASSUME office # Nothing
      PROVE  LET found == {e.office : e \in
                     UNION {Range(office.of[r]) : r \in office.answering \ {3}}} \ {"none"}
             IN  /\ office.verdict = "missing" <=> found = {}
                 /\ office.verdict = "supported" => found # {"other"}
                 /\ office.verdict = "not recommended" => "other" \in found
  <2>1. /\ office.of \in Roots /\ office.answering \in SUBSET (1..3)
        /\ office.verdict = OfficeVerdict(OfficeFound(office.of, office.answering))
    BY <1>3 DEF ReadInv, OfficeChecked
  <2> QED BY <2>1, OfficeTold, Zenon
<1>4. ASSUME listed # Nothing
      PROVE  LET list == listed.list
                 entries(r) == Range(Shown(listed.of[r]))
             IN  /\ \A i, j \in DOMAIN list : i < j => list[i].name < list[j].name
                 /\ \A r \in listed.answering : \A e \in entries(r) :
                       \E i \in DOMAIN list :
                           /\ list[i].name = e.name
                           /\ \E s \in listed.answering : s <= r /\ list[i] \in entries(s)
                 /\ list = <<>> /\ listed.program.file => listed.fallback
  <2>1. /\ listed.of \in Roots /\ listed.answering \in SUBSET (1..3)
        /\ listed.list = ListPrograms(listed.of, listed.answering)
    BY <1>4 DEF ReadInv, ProgramsListed
  <2>2. listed.list = <<>> /\ listed.program.file => listed.fallback
    BY <1>4, Zenon DEF ReadInv, ProgramsListed, Installed
  <2> QED BY <2>1, <2>2, ListTold, Zenon
<1> QED BY <1>1, <1>2, <1>3, <1>4, Zenon DEF ProgramsTold

-----------------------------------------------------------------------------
(* The invariant is kept.                                                  *)

LEMMA InitRead == Init => ReadInv
<1> SUFFICES ASSUME Init PROVE ReadInv
  OBVIOUS
<1>1. PcRead
  BY InventoryAssumption DEF Init, PcRead
<1> QED
  BY <1>1 DEF Init, ReadInv, InfoRead, PageListed, ProgramsChecked, OfficeChecked, ProgramsListed

LEMMA NextRead == ReadInv /\ [Next]_vars => ReadInv'
<1> SUFFICES ASSUME ReadInv, [Next]_vars PROVE ReadInv'
  OBVIOUS
<1> USE DEF ReadInv
<1>1. ASSUME UNCHANGED pcVars PROVE PcRead'
  BY <1>1 DEF PcRead, pcVars
<1>2. ASSUME UNCHANGED info PROVE InfoRead'
  BY <1>2, Zenon DEF InfoRead
<1>3. ASSUME UNCHANGED page PROVE PageListed'
  BY <1>3, Zenon DEF PageListed
<1>4. ASSUME UNCHANGED checked PROVE ProgramsChecked'
  BY <1>4, Zenon DEF ProgramsChecked
<1>5. ASSUME UNCHANGED office PROVE OfficeChecked'
  BY <1>5, Zenon DEF OfficeChecked
<1>6. ASSUME UNCHANGED listed PROVE ProgramsListed'
  BY <1>6, Zenon DEF ProgramsListed
<1>7. DOMAIN roots = 1..3
  BY RootsAssumption DEF PcRead
<1>8. CASE LoadPcInfo
  <2>1. UNCHANGED <<pcVars, page, checked, office, listed>>
    BY <1>8 DEF LoadPcInfo
  <2>2. InfoRead'
    <3>1. PICK a \in OneSilent, fast, powershell, wmi \in BOOLEAN :
            /\ a # AllAnswer => fast /\ powershell /\ wmi
            /\ info' = [of |-> hardware, answers |-> a,
                        windows |-> WindowsSeen(hardware, a),
                        boot |-> BootSeen(hardware, a),
                        secureBoot |-> SecureBootSeen(hardware, a),
                        tpm |-> TpmSeen(hardware, a),
                        gpu |-> GpuSeen(hardware, a),
                        disks |-> DisksSeen(hardware, a),
                        summaries |-> Summaries(DisksSeen(hardware, a)),
                        adapters |-> adapters, fast |-> fast,
                        blind |-> ~fast /\ ~powershell /\ ~wmi,
                        active |-> ActiveAdapter(adapters, fast, powershell, wmi)]
      BY <1>8, Zenon DEF LoadPcInfo
    <3>2. /\ info'.of = hardware /\ info'.answers = a /\ info'.adapters = adapters
          /\ info'.windows = WindowsSeen(hardware, a)
          /\ info'.tpm = TpmSeen(hardware, a)
          /\ info'.gpu = GpuSeen(hardware, a)
          /\ info'.disks = DisksSeen(hardware, a)
          /\ info'.summaries = Summaries(DisksSeen(hardware, a))
      BY <3>1, Zenon
    <3>3. /\ info'.fast = fast /\ info'.blind = (~fast /\ ~powershell /\ ~wmi)
          /\ info'.active = ActiveAdapter(adapters, fast, powershell, wmi)
      BY <3>1, Zenon
    <3>4. \E f, p, w \in BOOLEAN :
             /\ info'.fast = f /\ info'.blind = (~f /\ ~p /\ ~w)
             /\ info'.active = ActiveAdapter(info'.adapters, f, p, w)
      <4>1. info'.active = ActiveAdapter(info'.adapters, fast, powershell, wmi)
        BY <3>2, <3>3, Zenon
      <4> QED BY <3>3, <4>1, Zenon
    <3> QED BY <3>2, <3>4, Zenon DEF InfoRead, PcRead
  <2> QED BY <1>1, <1>3, <1>4, <1>5, <1>6, <2>1, <2>2
<1>9. CASE LoadRaises
  <2>1. UNCHANGED <<pcVars, info, page, checked, office, listed>>
    BY <1>9 DEF LoadRaises
  <2> QED BY <1>1, <1>2, <1>3, <1>4, <1>5, <1>6, <2>1
<1>10. CASE ListAdapters
  <2>1. UNCHANGED <<pcVars, info, checked, office, listed>>
    BY <1>10 DEF ListAdapters
  <2>2. PageListed'
    <3>1. PICK registry \in BOOLEAN :
            page' = [of |-> adapters, registry |-> registry, rows |-> Page(adapters, registry)]
      BY <1>10, Zenon DEF ListAdapters
    <3>2. page'.of = adapters /\ page'.registry = registry /\ page'.rows = Page(adapters, registry)
      BY <3>1, Zenon
    <3> QED BY <3>2, Zenon DEF PageListed, PcRead
  <2> QED BY <1>1, <1>2, <1>4, <1>5, <1>6, <2>1, <2>2
<1>11. CASE CheckPrograms
  <2>1. UNCHANGED <<pcVars, info, page, office, listed>>
    BY <1>11 DEF CheckPrograms
  <2>2. ProgramsChecked'
    <3>1. PICK latest \in {program.published, NoVersion} :
            checked' = [of |-> program, browser |-> browser, latest |-> latest,
                        verdict |-> Verdict(program, latest),
                        history |-> HasHistory(Threshold, browser)]
      BY <1>11, Zenon DEF CheckPrograms
    <3>2. /\ checked'.of = program /\ checked'.browser = browser /\ checked'.latest = latest
          /\ checked'.verdict = Verdict(program, latest)
          /\ checked'.history = HasHistory(Threshold, browser)
      BY <3>1, Zenon
    <3> QED BY <3>2, Zenon DEF ProgramsChecked, PcRead
  <2> QED BY <1>1, <1>2, <1>3, <1>5, <1>6, <2>1, <2>2
<1>12. CASE CheckOffice
  <2>1. UNCHANGED <<pcVars, info, page, checked, listed>>
    BY <1>12 DEF CheckOffice
  <2>2. OfficeChecked'
    <3>1. PICK answering \in SUBSET (1..3) :
            office' = [of |-> roots, answering |-> answering,
                       verdict |-> OfficeVerdict(OfficeFound(roots, answering))]
      BY <1>7, <1>12, Zenon DEF CheckOffice
    <3>2. /\ office'.of = roots /\ office'.answering = answering
          /\ office'.verdict = OfficeVerdict(OfficeFound(roots, answering))
      BY <3>1, Zenon
    <3> QED BY <3>2, Zenon DEF OfficeChecked, PcRead
  <2> QED BY <1>1, <1>2, <1>3, <1>4, <1>6, <2>1, <2>2
<1>13. CASE ReportPrograms
  <2>1. UNCHANGED <<pcVars, info, page, checked, office>>
    BY <1>13 DEF ReportPrograms
  <2>2. ProgramsListed'
    <3>1. PICK answering \in SUBSET (1..3) :
            listed' = [of |-> roots, answering |-> answering, program |-> program,
                       list |-> ListPrograms(roots, answering),
                       fallback |-> /\ ListPrograms(roots, answering) = <<>>
                                    /\ \/ Installed(program)
                                       \/ OfficeFound(roots, answering) # "none"]
      BY <1>7, <1>13, Zenon DEF ReportPrograms
    <3>2. /\ listed'.of = roots /\ listed'.answering = answering /\ listed'.program = program
          /\ listed'.list = ListPrograms(roots, answering)
          /\ listed'.fallback = (/\ ListPrograms(roots, answering) = <<>>
                                 /\ \/ Installed(program)
                                    \/ OfficeFound(roots, answering) # "none")
      BY <3>1, Zenon
    <3> QED BY <3>2, Zenon DEF ProgramsListed, PcRead
  <2> QED BY <1>1, <1>2, <1>3, <1>4, <1>5, <2>1, <2>2
<1>14. CASE PcChanges
  <2>1. UNCHANGED <<info, page, checked, office, listed>>
    BY <1>14 DEF PcChanges
  <2>2. PcRead'
    BY <1>14 DEF PcChanges, PcRead
  <2> QED BY <1>2, <1>3, <1>4, <1>5, <1>6, <2>1, <2>2
<1>15. CASE UNCHANGED vars
  <2>1. UNCHANGED <<pcVars, info, page, checked, office, listed>>
    BY <1>15 DEF vars
  <2> QED BY <1>1, <1>2, <1>3, <1>4, <1>5, <1>6, <2>1
<1> QED BY <1>8, <1>9, <1>10, <1>11, <1>12, <1>13, <1>14, <1>15 DEF Next

LEMMA ReadInvariant == Spec => []ReadInv
<1> QED BY InitRead, NextRead, PTL DEF Spec

\* Whichever single source of the hardware is silent, the page tells of the PC it
\* was read of what InfoTold says: its Windows, a TPM when there is one (and a
\* version only of one there is), the real graphics adapter with most memory, of
\* each disk the medium and, unless it is lent, the bus, and as many disks as there
\* are fixed ones, the physical ones standing in only when Win32_DiskDrive has no
\* fixed one (refresh, _get_disks and _build_disk_info).
THEOREM InfoIsTold == Spec => []InfoTold
<1>1. ReadInv => InfoTold
  BY InfoReadIsTold DEF ReadInv
<1> QED BY <1>1, ReadInvariant, PTL

\* Whichever sources answer, none of the connected adapters that the answering
\* source can recognise comes before the one that is shown; that one is connected,
\* but for an IPv6 gateway or a link-local address that the fast source let pass,
\* and the page of the network can offer it; and the page's name servers are those
\* in force, but for a static adapter that has only an earlier lease's
\* (_get_active_network_info, read_network_adapters_fast).
THEOREM AdapterShownIsBest == Spec => []AdapterIsBest
<1> QED BY ReadAdapterIsBest, ReadInvariant, PTL

\* What is shown of the programs is right, as ProgramsTold says it: a version is
\* called the latest exactly if its release is at least the published one,
\* history is counted exactly up to the threshold, Office is judged by what is
\* installed, and the list names every program once, in order.
THEOREM ProgramsAreTold == Spec => []ProgramsTold
<1>1. ReadInv => ProgramsTold
  BY ReadProgramsTold
<1> QED BY <1>1, ReadInvariant, PTL

=============================================================================
