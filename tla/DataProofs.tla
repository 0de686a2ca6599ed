----------------------------- MODULE DataProofs -----------------------------
(***************************************************************************)
(* What the operators on data compute that the models use: minima and      *)
(* maxima, sorting, folds.  No theorem here is about a behaviour; the      *)
(* proofs about the components cite them.                                  *)
(***************************************************************************)
EXTENDS Sorting, Integers, FiniteSets, FiniteSetTheorems, FunctionTheorems,
        SequenceTheorems, WellFoundedInduction, TLAPS

-----------------------------------------------------------------------------
(* Minima and maxima.                                                      *)

\* A non-empty set of natural numbers has the minimum that Min chooses.
LEMMA MinIsLeast ==
  ASSUME NEW S \in SUBSET Nat, S # {}
  PROVE  Min(S) \in S /\ \A x \in S : Min(S) <= x
<1>1. PICK x \in S : \A y \in S : ~ (<<y, x>> \in OpToRel(<, Nat))
  BY NatLessThanWellFounded, WFMin
<1>2. \A a, b \in Nat : a < b => <<a, b>> \in OpToRel(<, Nat)
  BY Zenon DEF OpToRel
<1>3. \A y \in S : ~ (y < x)
  BY <1>1, <1>2, Zenon
<1>4. \A y \in S : x <= y
  BY <1>3
<1> QED
  BY <1>4 DEF Min

\* A non-empty bounded set of natural numbers has the maximum that Max chooses.
LEMMA MaxIsGreatest ==
  ASSUME NEW S \in SUBSET Nat, S # {}, NEW b \in Nat, \A x \in S : x <= b
  PROVE  Max(S) \in S /\ \A x \in S : x <= Max(S)
<1> DEFINE B == {c \in Nat : \A x \in S : x <= c}
<1>1. B \in SUBSET Nat /\ b \in B
  OBVIOUS
<1>2. PICK c : c \in B /\ \A d \in B : c <= d
  <2> HIDE DEF B
  <2> QED
    BY <1>1, MinIsLeast
<1>3. PICK y \in S : TRUE
  OBVIOUS
<1>4. c \in S
  <2> SUFFICES ASSUME c \notin S PROVE FALSE
    OBVIOUS
  <2>1. \A x \in S : x <= c - 1 /\ c - 1 \in Nat
    BY <1>2
  <2>2. c - 1 \in B
    BY <1>3, <2>1
  <2> QED
    BY <1>2, <2>2
<1>5. \A x \in S : c >= x
  BY <1>2
<1> QED
  BY <1>4, <1>5 DEF Max

-----------------------------------------------------------------------------
(* Finite sets.                                                            *)

LEMMA UpTo ==
  ASSUME NEW n \in Nat
  PROVE  IsFiniteSet(1..n) /\ Cardinality(1..n) = n
<1>1. 1 \in Int /\ n \in Int
  OBVIOUS
<1>2. IsFiniteSet(1..n) /\ Cardinality(1..n) = IF 1 > n THEN 0 ELSE n - 1 + 1
  BY <1>1, FS_Interval, Zenon
<1> QED
  BY <1>2

\* Induction over finite sets: of the subsets that are bad, one has no bad subset with one
\* member less.
LEMMA SmallestBad ==
  ASSUME NEW S, IsFiniteSet(S), NEW Bad \in SUBSET (SUBSET S), Bad # {}
  PROVE  \E s \in Bad : \A x \in s : s \ {x} \notin Bad
<1>1. FiniteSubsetsOf(S) = SUBSET S
  BY FS_FiniteSubsetsOfFinite
<1>2. PICK s \in Bad : \A u \in Bad : <<u, s>> \notin StrictSubsetOrdering(S)
  BY <1>1, FS_StrictSubsetOrderingWellFounded, WFMin
<1>3. \A x \in s : s \ {x} \in SUBSET S /\ <<s \ {x}, s>> \in StrictSubsetOrdering(S)
  BY DEF StrictSubsetOrdering
<1> QED
  BY <1>2, <1>3

\* What a function makes of a finite set is finite.
LEMMA ImageIsFinite ==
  ASSUME NEW S, IsFiniteSet(S), NEW f
  PROVE  IsFiniteSet({f[x] : x \in S})
<1> DEFINE g == [x \in S |-> f[x]]
<1>1. g \in Surjection(S, {f[x] : x \in S})
  BY DEF Surjection
<1> QED
  BY <1>1, FS_Surjection

-----------------------------------------------------------------------------
(* A sum is a number of tickets: f[x] of them for each x.                  *)

\* The k-th ticket of x, for each k up to f[x].
Tickets(f, S) == {t \in S \X Nat : 1 <= t[2] /\ t[2] <= f[t[1]]}

Counts(f, S) == \A x \in S : f[x] \in Nat

\* The tickets of one element are counted by its share.
LEMMA TicketsOfOne ==
  ASSUME NEW x, NEW f, f[x] \in Nat
  PROVE  IsFiniteSet(Tickets(f, {x})) /\ Cardinality(Tickets(f, {x})) = f[x]
<1> DEFINE n == f[x]
           g == [k \in 1..n |-> <<x, k>>]
<1>1. IsFiniteSet(1..n) /\ Cardinality(1..n) = n
  <2> HIDE DEF n
  <2> QED
    BY UpTo DEF n
<1>2. g \in Bijection(1..n, Tickets(f, {x}))
  <2>1. g \in [1..n -> Tickets(f, {x})]
    BY DEF Tickets
  <2>2. \A i, j \in 1..n : g[i] = g[j] => i = j
    OBVIOUS
  <2>3. \A t \in Tickets(f, {x}) : \E k \in 1..n : g[k] = t
    <3> SUFFICES ASSUME NEW t \in Tickets(f, {x}) PROVE t[2] \in 1..n /\ g[t[2]] = t
      OBVIOUS
    <3> QED
      BY DEF Tickets
  <2> QED
    BY <2>1, <2>2, <2>3 DEF Bijection, Injection, Surjection, IsInjective
<1>3. ExistsBijection(1..n, Tickets(f, {x}))
  BY <1>2 DEF ExistsBijection
<1> HIDE DEF n, g
<1>4. IsFiniteSet(Tickets(f, {x})) /\ Cardinality(Tickets(f, {x})) = Cardinality(1..n)
  BY <1>1, <1>3, FS_Bijection
<1> QED
  BY <1>1, <1>4 DEF n

\* Tickets of separate sets add up.
LEMMA TicketsOfBoth ==
  ASSUME NEW f, NEW S, NEW T, S \cap T = {},
         IsFiniteSet(Tickets(f, S)), IsFiniteSet(Tickets(f, T))
  PROVE  /\ IsFiniteSet(Tickets(f, S \cup T))
         /\ Cardinality(Tickets(f, S \cup T)) = Cardinality(Tickets(f, S)) + Cardinality(Tickets(f, T))
<1> DEFINE A == Tickets(f, S)
           B == Tickets(f, T)
<1>1. A \cup B = Tickets(f, S \cup T) /\ A \cap B = {}
  BY DEF Tickets
<1> HIDE DEF A, B
<1>2. /\ IsFiniteSet(A \cup B)
      /\ Cardinality(A \cup B) = Cardinality(A) + Cardinality(B) - Cardinality(A \cap B)
  BY FS_Union DEF A, B
<1>3. Cardinality(A) \in Nat /\ Cardinality(B) \in Nat
  BY FS_CardinalityType DEF A, B
<1>4. Cardinality(A \cap B) = 0
  BY <1>1, FS_EmptySet
<1>5. Cardinality(A \cup B) = Cardinality(A) + Cardinality(B)
  BY <1>2, <1>3, <1>4
<1> QED
  BY <1>1, <1>2, <1>5, Zenon DEF A, B

LEMMA TicketsAreFinite ==
  ASSUME NEW S, IsFiniteSet(S), NEW f, Counts(f, S)
  PROVE  IsFiniteSet(Tickets(f, S)) /\ Cardinality(Tickets(f, S)) \in Nat
<1> DEFINE Bad == {s \in SUBSET S : ~IsFiniteSet(Tickets(f, s))}
<1>1. Bad = {}
  <2> SUFFICES ASSUME Bad # {} PROVE FALSE
    OBVIOUS
  <2>1. PICK s \in Bad : \A x \in s : s \ {x} \notin Bad
    <3>1. Bad \in SUBSET (SUBSET S)
      OBVIOUS
    <3> HIDE DEF Bad
    <3> QED
      BY <3>1, SmallestBad
  <2>2. s # {}
    <3>1. Tickets(f, {}) = {}
      BY DEF Tickets
    <3> QED
      BY <3>1, FS_EmptySet
  <2>3. PICK x \in s : TRUE
    BY <2>2
  <2>4. IsFiniteSet(Tickets(f, s \ {x}))
    BY <2>1
  <2>5. IsFiniteSet(Tickets(f, {x}))
    BY TicketsOfOne DEF Counts
  <2>6. {x} \cap (s \ {x}) = {} /\ {x} \cup (s \ {x}) = s
    OBVIOUS
  <2>7. IsFiniteSet(Tickets(f, {x} \cup (s \ {x})))
    BY <2>4, <2>5, <2>6, TicketsOfBoth
  <2> QED
    BY <2>6, <2>7
<1>2. S \in SUBSET S
  OBVIOUS
<1>3. IsFiniteSet(Tickets(f, S))
  BY <1>1, <1>2
<1> QED
  BY <1>3, FS_CardinalityType

LEMMA TicketsAddUp ==
  ASSUME NEW S, IsFiniteSet(S), NEW f, Counts(f, S), NEW x \in S
  PROVE  Cardinality(Tickets(f, S)) = f[x] + Cardinality(Tickets(f, S \ {x}))
<1>1. IsFiniteSet(Tickets(f, {x})) /\ Cardinality(Tickets(f, {x})) = f[x]
  BY TicketsOfOne DEF Counts
<1>2. IsFiniteSet(Tickets(f, S \ {x}))
  BY FS_RemoveElement, TicketsAreFinite DEF Counts
<1>3. {x} \cap (S \ {x}) = {} /\ {x} \cup (S \ {x}) = S
  OBVIOUS
<1>4. Cardinality(Tickets(f, {x} \cup (S \ {x})))
        = Cardinality(Tickets(f, {x})) + Cardinality(Tickets(f, S \ {x}))
  BY <1>1, <1>2, <1>3, TicketsOfBoth
<1> QED
  BY <1>1, <1>3, <1>4

\* g sums f over the subsets of S, one member at a time.
Sums(g, f, S) ==
  g = [s \in SUBSET S |-> IF s = {} THEN 0
                          ELSE f[CHOOSE x \in s : TRUE] + g[s \ {CHOOSE x \in s : TRUE}]]

\* Counting tickets does, and nothing else does.
LEMMA SumsCountTickets ==
  ASSUME NEW S, IsFiniteSet(S), NEW f, Counts(f, S)
  PROVE  /\ Sums([s \in SUBSET S |-> Cardinality(Tickets(f, s))], f, S)
         /\ \A g : Sums(g, f, S) => g[S] = Cardinality(Tickets(f, S))
<1> DEFINE Pick(s) == CHOOSE x \in s : TRUE
           count == [s \in SUBSET S |-> Cardinality(Tickets(f, s))]
<1>1. ASSUME NEW s \in SUBSET S, s # {}
      PROVE  /\ Pick(s) \in s /\ s \ {Pick(s)} \in SUBSET S
             /\ Cardinality(Tickets(f, s)) = f[Pick(s)] + Cardinality(Tickets(f, s \ {Pick(s)}))
  <2>1. Pick(s) \in s
    BY <1>1
  <2>2. IsFiniteSet(s) /\ Counts(f, s)
    BY FS_Subset DEF Counts
  <2> HIDE DEF Pick
  <2> QED
    BY <2>1, <2>2, TicketsAddUp
<1>2. Cardinality(Tickets(f, {})) = 0
  <2>1. Tickets(f, {}) = {}
    BY DEF Tickets
  <2> QED
    BY <2>1, FS_EmptySet
<1>3. \A g : Sums(g, f, S) <=> g = [s \in SUBSET S |-> IF s = {} THEN 0 ELSE f[Pick(s)] + g[s \ {Pick(s)}]]
  BY DEF Sums
<1> HIDE DEF Pick
<1>4. Sums(count, f, S)
  <2>1. \A s \in SUBSET S :
          count[s] = IF s = {} THEN 0 ELSE f[Pick(s)] + count[s \ {Pick(s)}]
    BY <1>1, <1>2
  <2> QED
    BY <1>3, <2>1
<1>5. ASSUME NEW g, Sums(g, f, S)
      PROVE  g[S] = count[S]
  <2> DEFINE Wrong == {s \in SUBSET S : g[s] # count[s]}
  <2> SUFFICES ASSUME Wrong # {} PROVE FALSE
    OBVIOUS
  <2>1. PICK s \in Wrong : \A x \in s : s \ {x} \notin Wrong
    <3>1. Wrong \in SUBSET (SUBSET S)
      OBVIOUS
    <3> HIDE DEF Wrong
    <3> QED
      BY <3>1, SmallestBad
  <2> HIDE DEF count
  <2>2. s # {}
    BY <1>3, <1>4, <1>5
  <2>3. Pick(s) \in s /\ s \ {Pick(s)} \in SUBSET S
    BY <1>1, <2>2
  <2>4. g[s \ {Pick(s)}] = count[s \ {Pick(s)}]
    BY <2>1, <2>3
  <2> QED
    BY <1>3, <1>4, <1>5, <2>2, <2>4
<1> QED
  BY <1>4, <1>5

\* The fold that sums f over a finite set counts its tickets.
LEMMA SumIsTickets ==
  ASSUME NEW S, IsFiniteSet(S), NEW f, Counts(f, S)
  PROVE  FoldFunctionOnSet(+, 0, f, S) = Cardinality(Tickets(f, S))
<1> DEFINE Solves(g) == g = [s \in SUBSET S |-> IF s = {} THEN 0
                          ELSE f[CHOOSE x \in s : TRUE] + g[s \ {CHOOSE x \in s : TRUE}]]
           iter == CHOOSE g : Solves(g)
<1>1. FoldFunctionOnSet(+, 0, f, S) = iter[S]
  BY DEF FoldFunctionOnSet, MapThenFoldSet
<1>2. \A g : Solves(g) <=> Sums(g, f, S)
  BY DEF Sums
<1> HIDE DEF Solves
<1>3. Solves(iter)
  BY <1>2, SumsCountTickets
<1> QED
  BY <1>1, <1>2, <1>3, SumsCountTickets

-----------------------------------------------------------------------------
(* Sorting.                                                                *)

\* s names each of the n members of S at one place.
Enumerates(s, S, n) ==
  /\ s \in [1..n -> S]
  /\ \A x \in S : \E i \in 1..n : s[i] = x
  /\ \A i, j \in 1..n : s[i] = s[j] => i = j

LEMMA EnumerationCounts ==
  ASSUME NEW S, NEW n \in Nat, NEW s, Enumerates(s, S, n)
  PROVE  IsFiniteSet(S) /\ Cardinality(S) = n /\ s \in SetToSeqs(S)
<1>1. s \in Surjection(1..n, S) /\ s \in Injection(1..n, S)
  BY DEF Enumerates, Surjection, Injection, IsInjective
<1>2. IsFiniteSet(S) /\ Cardinality(S) = n
  BY <1>1, UpTo, FS_Surjection
<1> QED
  BY <1>2 DEF Enumerates, SetToSeqs

\* An enumeration of a set without repetition names every member.
LEMMA EnumerationIsOnto ==
  ASSUME NEW S, IsFiniteSet(S), NEW s \in SetToSeqs(S)
  PROVE  Enumerates(s, S, Cardinality(S))
<1> DEFINE n == Cardinality(S)
<1>1. n \in Nat
  BY FS_CardinalityType
<1>2. s \in [1..n -> S] /\ \A i, j \in 1..n : s[i] = s[j] => i = j
  BY DEF SetToSeqs
<1>3. s \in Injection(1..n, S)
  BY <1>2 DEF Injection, IsInjective
<1> HIDE DEF n
<1>4. s \in Surjection(1..n, S)
  BY <1>1, <1>3, UpTo, FS_Injection DEF n
<1> QED
  BY <1>2, <1>4 DEF Enumerates, Surjection, n

\* w enumerates the n members of S in the order R.
InOrder(w, S, R, n) ==
  /\ w \in [1..n -> S]
  /\ \A x \in S : \E i \in 1..n : w[i] = x
  /\ \A i, j \in 1..n : i < j => <<w[i], w[j]>> \in R /\ <<w[j], w[i]>> \notin R

\* What Sorted takes for an order that is the set of pairs R.
Sorts(s, S, R) ==
  s \in SetToSeqs(S) /\ \A i, j \in DOMAIN s : i < j => <<s[j], s[i]>> \notin R

\* A set that is enumerated in the order R has no other enumeration in that order: it is
\* what sorting by R yields.
LEMMA OrderIsUnique ==
  ASSUME NEW S, NEW R, NEW n \in Nat, NEW w, InOrder(w, S, R, n)
  PROVE  /\ IsFiniteSet(S) /\ Cardinality(S) = n
         /\ Sorts(w, S, R) /\ \A s : Sorts(s, S, R) => s = w
<1>0. /\ w \in [1..n -> S]
      /\ \A x \in S : \E i \in 1..n : w[i] = x
      /\ \A i, j \in 1..n : i < j => <<w[i], w[j]>> \in R /\ <<w[j], w[i]>> \notin R
  BY DEF InOrder
<1>1. \A i, j \in 1..n : w[i] = w[j] => i = j
  <2> SUFFICES ASSUME NEW i \in 1..n, NEW j \in 1..n, w[i] = w[j], i # j PROVE FALSE
    OBVIOUS
  <2>1. CASE i < j
    BY <1>0, <2>1
  <2>2. CASE j < i
    BY <1>0, <2>2
  <2> QED
    BY <2>1, <2>2
<1>2. IsFiniteSet(S) /\ Cardinality(S) = n /\ w \in SetToSeqs(S)
  BY <1>0, <1>1, EnumerationCounts DEF Enumerates
<1>3. ASSUME NEW s, Sorts(s, S, R)
      PROVE  s = w
  <2>1. /\ s \in [1..n -> S]
        /\ \A x \in S : \E i \in 1..n : s[i] = x
        /\ \A i, j \in 1..n : s[i] = s[j] => i = j
    <3>1. Enumerates(s, S, n)
      BY <1>2, <1>3, EnumerationIsOnto DEF Sorts
    <3> QED
      BY <3>1 DEF Enumerates
  <2>2. ASSUME NEW k \in 1..n, s[k] # w[k], \A i \in 1..n : i < k => s[i] = w[i]
        PROVE  FALSE
    <3>1. PICK i \in 1..n : w[i] = s[k]
      BY <1>0, <2>1
    <3>2. PICK j \in 1..n : s[j] = w[k]
      BY <1>0, <2>1
    <3>3. k < i /\ k < j
      <4>1. i # k /\ j # k
        BY <2>2, <3>1, <3>2
      <4>2. ~(i < k)
        BY <2>1, <2>2, <3>1
      <4>3. ~(j < k)
        BY <1>1, <2>2, <3>2
      <4> QED
        BY <4>1, <4>2, <4>3
    <3>4. <<s[j], s[k]>> \in R
      BY <1>0, <3>1, <3>2, <3>3
    <3> QED
      BY <1>3, <2>1, <3>3, <3>4 DEF Sorts
  <2>3. \A k \in 1..n : s[k] = w[k]
    <3> DEFINE Wrong == {k \in 1..n : s[k] # w[k]}
    <3> SUFFICES ASSUME Wrong # {} PROVE FALSE
      OBVIOUS
    <3>1. Wrong \in SUBSET Nat
      OBVIOUS
    <3>2. Min(Wrong) \in Wrong /\ \A k \in Wrong : Min(Wrong) <= k
      <4> HIDE DEF Wrong
      <4> QED
        BY <3>1, MinIsLeast
    <3>3. PICK m \in 1..n : s[m] # w[m] /\ \A k \in Wrong : m <= k
      BY <3>2
    <3> QED
      BY <2>2, <3>3
  <2> QED
    BY <1>0, <2>1, <2>3
<1>4. Sorts(w, S, R)
  BY <1>0, <1>2 DEF Sorts
<1> QED
  BY <1>2, <1>3, <1>4

\* R orders the members of S, strictly and totally.
Orders(R, S) ==
  /\ \A x, y \in S : x = y \/ <<x, y>> \in R \/ <<y, x>> \in R
  /\ \A x, y \in S : <<x, y>> \in R => <<y, x>> \notin R
  /\ \A x, y, z \in S : <<x, y>> \in R /\ <<y, z>> \in R => <<x, z>> \in R

\* A finite set has an enumeration in any such order: the place of a member is one more
\* than the number of those before it.
LEMMA OrderExists ==
  ASSUME NEW S, IsFiniteSet(S), NEW R, Orders(R, S)
  PROVE  Cardinality(S) \in Nat /\ \E w : InOrder(w, S, R, Cardinality(S))
<1> DEFINE n == Cardinality(S)
           Below(x) == {y \in S : <<y, x>> \in R}
           rank == [x \in S |-> Cardinality(Below(x)) + 1]
           w == [i \in 1..n |-> CHOOSE x \in S : rank[x] = i]
<1>1. n \in Nat
  BY FS_CardinalityType
<1>2. ASSUME NEW x \in S
      PROVE  /\ IsFiniteSet(Below(x)) /\ Cardinality(Below(x)) \in Nat
             /\ Cardinality(Below(x)) < n
  <2>1. x \notin Below(x) /\ Below(x) \in SUBSET S
    BY DEF Orders
  <2> HIDE DEF Below
  <2>2. Below(x) # S
    BY <1>2, <2>1
  <2>3. IsFiniteSet(Below(x)) /\ Cardinality(Below(x)) <= n
        /\ (Cardinality(S) = Cardinality(Below(x)) => S = Below(x))
    BY <2>1, FS_Subset
  <2>4. Cardinality(Below(x)) \in Nat
    BY <2>3, FS_CardinalityType
  <2> QED
    BY <1>1, <2>2, <2>3, <2>4
<1>3. ASSUME NEW x \in S, NEW y \in S, <<x, y>> \in R
      PROVE  rank[x] < rank[y]
  <2>1. Below(x) \in SUBSET Below(y) /\ Below(x) # Below(y)
    <3>1. x \in Below(y) /\ x \notin Below(x)
      BY <1>3 DEF Orders
    <3>2. Below(x) \in SUBSET Below(y)
      BY <1>3 DEF Orders
    <3> QED
      BY <3>1, <3>2
  <2>2. /\ IsFiniteSet(Below(y)) /\ Cardinality(Below(y)) \in Nat
        /\ Cardinality(Below(x)) \in Nat
    BY <1>2
  <2> HIDE DEF Below
  <2>3. /\ Cardinality(Below(x)) <= Cardinality(Below(y))
        /\ Cardinality(Below(y)) = Cardinality(Below(x)) => Below(y) = Below(x)
    BY <2>1, <2>2, FS_Subset
  <2> QED
    BY <2>1, <2>2, <2>3
<1>4. \A x \in S : rank[x] \in 1..n
  <2> HIDE DEF Below
  <2> QED
    BY <1>1, <1>2
<1> HIDE DEF Below, rank
<1>5. \A x, y \in S : rank[x] = rank[y] => x = y
  <2> SUFFICES ASSUME NEW x \in S, NEW y \in S, rank[x] = rank[y], x # y PROVE FALSE
    OBVIOUS
  <2>1. <<x, y>> \in R \/ <<y, x>> \in R
    BY DEF Orders
  <2>2. rank[x] \in Nat /\ rank[y] \in Nat
    BY <1>1, <1>4
  <2> QED
    BY <1>3, <2>1, <2>2
<1>6. rank \in Injection(S, 1..n)
  <2>1. rank = [x \in S |-> rank[x]]
    BY DEF rank
  <2> QED
    BY <1>4, <1>5, <2>1 DEF Injection, IsInjective
<1>7. rank \in Surjection(S, 1..n)
  <2> HIDE DEF n
  <2> QED
    BY <1>1, <1>6, UpTo, FS_Injection DEF n
<1>8. ASSUME NEW i \in 1..n PROVE w[i] \in S /\ rank[w[i]] = i
  <2>1. \E x \in S : rank[x] = i
    BY <1>7 DEF Surjection
  <2> HIDE DEF n
  <2> QED
    BY <2>1
<1>9. InOrder(w, S, R, n)
  <2>1. w \in [1..n -> S]
    <3>1. w = [i \in 1..n |-> w[i]]
      OBVIOUS
    <3> HIDE DEF w, n
    <3> QED
      BY <1>8, <3>1
  <2> HIDE DEF w, n
  <2>2. \A x \in S : rank[x] \in 1..n /\ w[rank[x]] = x
    BY <1>4, <1>5, <1>8
  <2>3. ASSUME NEW i \in 1..n, NEW j \in 1..n, i < j
        PROVE  <<w[i], w[j]>> \in R /\ <<w[j], w[i]>> \notin R
    <3>1. w[i] \in S /\ w[j] \in S /\ rank[w[i]] = i /\ rank[w[j]] = j
      BY <1>8
    <3>2. <<w[j], w[i]>> \notin R
      BY <1>3, <2>3, <3>1
    <3>3. w[i] # w[j]
      BY <2>3, <3>1
    <3> QED
      BY <3>1, <3>2, <3>3 DEF Orders
  <2> QED
    BY <2>1, <2>2, <2>3 DEF InOrder
<1> QED
  BY <1>1, <1>9

LEMMA AppendIs ==
  ASSUME NEW V, NEW s \in Seq(V), NEW x \in V
  PROVE  Append(s, x) = [i \in 1..Len(s)+1 |-> IF i = Len(s) + 1 THEN x ELSE s[i]]
<1> DEFINE t == [i \in 1..Len(s)+1 |-> IF i = Len(s) + 1 THEN x ELSE s[i]]
<1>1. t \in [1..Len(s)+1 -> V] /\ Len(s) + 1 \in Nat
  OBVIOUS
<1>2. t \in Seq(V) /\ Len(t) = Len(s) + 1
  <2> HIDE DEF t
  <2> QED
    BY <1>1
<1>3. Append(s, x) \in Seq(V) /\ Len(Append(s, x)) = Len(s) + 1
  OBVIOUS
<1>4. \A i \in 1..Len(s)+1 : Append(s, x)[i] = t[i]
  OBVIOUS
<1> HIDE DEF t
<1>5. Append(s, x) = t
  BY <1>2, <1>3, <1>4, SeqEqual
<1> QED
  BY <1>5 DEF t


-----------------------------------------------------------------------------
(* Walking along a sequence.  A fold that collects the value of some of    *)
(* the places of a sequence yields those values in the order of the places.*)

\* The places K in increasing order, and the values found there.
Along(K) == Sorted(K, LAMBDA i, j : i < j)
Collected(K, value) == [i \in DOMAIN Along(K) |-> value[Along(K)[i]]]

\* w names the members of K in increasing order.
Increasing(w, K, n) ==
  /\ w \in [1..n -> K]
  /\ \A x \in K : \E i \in 1..n : w[i] = x
  /\ \A i, j \in 1..n : i < j => w[i] < w[j]

LEMMA AlongIs ==
  ASSUME NEW K \in SUBSET Nat, NEW n \in Nat, NEW w, Increasing(w, K, n)
  PROVE  Along(K) = w
<1> DEFINE R == {p \in Nat \X Nat : p[1] < p[2]}
           Good(s) == s \in SetToSeqs(K) /\ \A i, j \in DOMAIN s : i < j => ~(s[j] < s[i])
<1>0. w \in [1..n -> K] /\ \A i \in 1..n : w[i] \in Nat
  BY DEF Increasing
<1>1. InOrder(w, K, R, n)
  BY <1>0 DEF Increasing, InOrder
<1>2. ASSUME NEW s PROVE Good(s) <=> Sorts(s, K, R)
  <2>1. s \in SetToSeqs(K) => \A i \in DOMAIN s : s[i] \in Nat
    BY DEF SetToSeqs
  <2> QED
    BY <2>1 DEF Sorts
<1>3. Good(w) /\ \A s : Good(s) => s = w
  <2> HIDE DEF R, Good
  <2> QED
    BY <1>1, <1>2, OrderIsUnique
<1>4. Along(K) = CHOOSE s : Good(s)
  BY DEF Along, Sorted
<1> HIDE DEF Good
<1> QED
  BY <1>3, <1>4

\* Adding a last place.
LEMMA IncreasingGrows ==
  ASSUME NEW K \in SUBSET Nat, NEW n \in Nat, NEW w, Increasing(w, K, n),
         NEW m \in Nat, \A k \in K : k < m
  PROVE  /\ Append(w, m) = [i \in 1..n+1 |-> IF i = n + 1 THEN m ELSE w[i]]
         /\ Increasing(Append(w, m), K \cup {m}, n + 1)
<1>0. w \in [1..n -> Nat] /\ \A i \in 1..n : w[i] < m
  BY DEF Increasing
<1>1. /\ w \in [1..n -> K] /\ w \in Seq(Nat) /\ Len(w) = n
      /\ \A i \in 1..n : w[i] \in Nat /\ w[i] < m
  BY <1>0 DEF Increasing
<1>2. Append(w, m) = [i \in 1..n+1 |-> IF i = n + 1 THEN m ELSE w[i]]
  BY <1>1, AppendIs
<1> DEFINE v == [i \in 1..n+1 |-> IF i = n + 1 THEN m ELSE w[i]]
<1>3. v \in [1..n+1 -> K \cup {m}]
  BY <1>1
<1>4. ASSUME NEW x \in K \cup {m} PROVE \E i \in 1..n+1 : v[i] = x
  <2>1. CASE x = m
    <3>1. n + 1 \in 1..n+1 /\ v[n + 1] = x
      BY <2>1
    <3> QED
      BY <3>1
  <2>2. CASE x # m
    <3>1. PICK i \in 1..n : w[i] = x
      BY <1>4, <2>2 DEF Increasing
    <3>2. i \in 1..n+1 /\ v[i] = x
      BY <3>1
    <3> QED
      BY <3>2
  <2> QED
    BY <2>1, <2>2
<1>5. \A i, j \in 1..n+1 : i < j => v[i] < v[j]
  <2> SUFFICES ASSUME NEW i \in 1..n+1, NEW j \in 1..n+1, i < j PROVE v[i] < v[j]
    OBVIOUS
  <2>1. i \in 1..n /\ v[i] = w[i]
    OBVIOUS
  <2>2. CASE j = n + 1
    BY <1>1, <2>1, <2>2
  <2>3. CASE j # n + 1
    BY <2>1, <2>3 DEF Increasing
  <2> QED
    BY <2>2, <2>3
<1> HIDE DEF v
<1>6. Increasing(v, K \cup {m}, n + 1)
  BY <1>3, <1>4, <1>5 DEF Increasing
<1> QED
  BY <1>2, <1>6 DEF v

\* Every set of places has an increasing enumeration.
LEMMA IncreasingExists ==
  ASSUME NEW b \in Nat, NEW K \in SUBSET (1..b)
  PROVE  \E n \in Nat : \E w : Increasing(w, K, n)
<1> DEFINE Has(J) == \E n \in Nat : \E w : Increasing(w, J, n)
           Bad == {c \in Nat : \E J \in SUBSET (1..c) : ~Has(J)}
<1>1. SUFFICES Bad = {}
  OBVIOUS
<1>2. SUFFICES ASSUME Bad # {} PROVE FALSE
  OBVIOUS
<1>3. PICK c : c \in Bad /\ \A d \in Bad : c <= d
  <2>1. Bad \in SUBSET Nat
    OBVIOUS
  <2> HIDE DEF Bad
  <2> QED
    BY <1>2, <2>1, MinIsLeast
<1>4. PICK J \in SUBSET (1..c) : ~Has(J)
  BY <1>3
<1>5. J # {}
  <2>1. Increasing(<< >>, {}, 0)
    BY DEF Increasing
  <2> QED
    BY <1>4, <2>1
<1>6. c # 0 /\ c \in Nat
  <2>1. 1..0 = {}
    OBVIOUS
  <2> QED
    BY <1>3, <1>4, <1>5, <2>1
<1>7. Has(J \ {c})
  <2>1. J \ {c} \in SUBSET (1..c-1) /\ c - 1 \in Nat
    BY <1>6
  <2>2. c - 1 \notin Bad
    <3> HIDE DEF Bad
    <3> QED
      BY <1>3, <1>6
  <2> QED
    BY <2>1, <2>2
<1>8. c \in J
  BY <1>4, <1>7
<1>9. PICK n \in Nat : \E w : Increasing(w, J \ {c}, n)
  BY <1>7
<1>10. J \ {c} \in SUBSET Nat /\ \A k \in J \ {c} : k < c
  BY <1>6
<1>13. PICK w : Increasing(w, J \ {c}, n)
  BY <1>9
<1>11. Increasing(Append(w, c), (J \ {c}) \cup {c}, n + 1)
  BY <1>6, <1>13, <1>10, IncreasingGrows
<1>12. (J \ {c}) \cup {c} = J
  BY <1>8
<1> QED
  BY <1>4, <1>11, <1>12

LEMMA CollectedGrows ==
  ASSUME NEW b \in Nat, NEW K \in SUBSET (1..b), NEW m \in Nat, \A k \in K : k < m, NEW value
  PROVE  Collected(K \cup {m}, value) = Append(Collected(K, value), value[m])
<1>0. PICK n \in Nat : \E w : Increasing(w, K, n)
  BY IncreasingExists
<1>1. PICK w : Increasing(w, K, n)
  BY <1>0
<1>2. Along(K) = w /\ w \in [1..n -> K]
  BY <1>1, AlongIs DEF Increasing
<1>3. /\ Append(w, m) = [i \in 1..n+1 |-> IF i = n + 1 THEN m ELSE w[i]]
      /\ Increasing(Append(w, m), K \cup {m}, n + 1)
  <2>1. K \in SUBSET Nat
    OBVIOUS
  <2> QED
    BY <1>1, <2>1, IncreasingGrows
<1>4. Along(K \cup {m}) = [i \in 1..n+1 |-> IF i = n + 1 THEN m ELSE w[i]]
  <2>1. K \cup {m} \in SUBSET Nat /\ n + 1 \in Nat
    OBVIOUS
  <2> QED
    BY <1>3, <2>1, AlongIs
<1>5. Collected(K \cup {m}, value) = [i \in 1..n+1 |-> IF i = n + 1 THEN value[m] ELSE value[w[i]]]
  BY <1>4 DEF Collected
<1>6. Collected(K, value) = [i \in 1..n |-> value[w[i]]]
  BY <1>2 DEF Collected
<1> DEFINE V == {value[k] : k \in K \cup {m}}
<1>8. Collected(K, value) \in [1..n -> V]
  BY <1>2, <1>6
<1>7. Collected(K, value) \in Seq(V) /\ Len(Collected(K, value)) = n /\ value[m] \in V
  BY <1>8
<1> HIDE DEF V
<1>9. Append(Collected(K, value), value[m]) =
        [i \in 1..n+1 |-> IF i = n + 1 THEN value[m] ELSE Collected(K, value)[i]]
  BY <1>7, AppendIs
<1>10. \A i \in 1..n+1 : i # n + 1 => Collected(K, value)[i] = value[w[i]]
  BY <1>6
<1> QED
  BY <1>5, <1>9, <1>10

\* The values collected are those found at the places.
Names(s, K, value) == \A v : Contains(s, v) <=> \E k \in K : value[k] = v

LEMMA CollectedMembers ==
  ASSUME NEW b \in Nat, NEW K \in SUBSET (1..b), NEW value
  PROVE  Names(Collected(K, value), K, value)
<1>0. PICK n \in Nat : \E w : Increasing(w, K, n)
  BY IncreasingExists
<1>1. PICK w : Increasing(w, K, n)
  BY <1>0
<1>2. Along(K) = w /\ w \in [1..n -> K] /\ \A x \in K : \E i \in 1..n : w[i] = x
  BY <1>1, AlongIs DEF Increasing
<1>3. Collected(K, value) = [i \in 1..n |-> value[w[i]]]
  BY <1>2 DEF Collected
<1>4. Len(Collected(K, value)) = n
  BY <1>3
<1>5. ASSUME NEW v PROVE Contains(Collected(K, value), v) <=> \E k \in K : value[k] = v
  <2>1. Contains(Collected(K, value), v) <=> \E i \in 1..n : value[w[i]] = v
    BY <1>3, <1>4 DEF Contains
  <2> QED
    BY <1>2, <2>1
<1> QED
  BY <1>5 DEF Names

LEMMA CollectedEmpty ==
  ASSUME NEW value
  PROVE  Collected({}, value) = << >>
<1>1. Increasing(<< >>, {}, 0)
  BY DEF Increasing
<1>2. Along({}) = << >>
  BY <1>1, AlongIs
<1> QED
  BY <1>2 DEF Collected

\* Two functions that go through a set of places in the same way are the same: what a fold
\* along a sequence computes is what solves its equation.
SameSteps(g, h, b) ==
  /\ g[{}] = h[{}]
  /\ \A s \in SUBSET (1..b) :
       s # {} /\ g[s \ {Max(s)}] = h[s \ {Max(s)}] => g[s] = h[s]

LEMMA SameFold ==
  ASSUME NEW b \in Nat, NEW g, NEW h, SameSteps(g, h, b)
  PROVE  \A s \in SUBSET (1..b) : g[s] = h[s]
<1> DEFINE Wrong == {s \in SUBSET (1..b) : g[s] # h[s]}
<1> SUFFICES ASSUME Wrong # {} PROVE FALSE
  OBVIOUS
<1>1. PICK s \in Wrong : \A x \in s : s \ {x} \notin Wrong
  <2>1. Wrong \in SUBSET (SUBSET (1..b)) /\ IsFiniteSet(1..b)
    BY UpTo
  <2> HIDE DEF Wrong
  <2> QED
    BY <2>1, SmallestBad
<1>2. s # {} /\ s \in SUBSET Nat /\ \A x \in s : x <= b
  BY DEF SameSteps
<1>3. Max(s) \in s
  BY <1>2, MaxIsGreatest
<1> QED
  BY <1>1, <1>2, <1>3 DEF SameSteps

=============================================================================
