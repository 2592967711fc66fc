-------------------------- MODULE FlowGraphProofs --------------------------
(***************************************************************************)
(* What the reference definitions of FlowGraph say, for every graph: the   *)
(* blocks on paths are the least set that holds the starts and the targets *)
(* of its members, and the dominators of a block form a chain.  Before it, *)
(* what several modules need of least numbers, recursion and sequences.    *)
(***************************************************************************)
EXTENDS FlowGraph, FiniteSetTheorems, TLAPS

-----------------------------------------------------------------------------
(* Least elements, and functions defined by recursion.                     *)

Smaller == {p \in Nat \X Nat : p[1] < p[2]}

LEMMA SmallerFounded == IsWellFoundedOn(Smaller, Nat)
BY NatLessThanWellFounded DEF OpToRel, Smaller

LEMMA LeastOf ==
  ASSUME NEW S, S \subseteq Nat, S # {}
  PROVE  \E m \in S : \A n \in S : m <= n
<1>1. PICK m \in S : \A n \in S : <<n, m>> \notin Smaller
  BY SmallerFounded, WFMin
<1>2. \A n \in Nat : n < m => <<n, m>> \in Smaller
  BY <1>1 DEF Smaller
<1>3. \A n \in S : ~(n < m)
  BY <1>1, <1>2, Zenon
<1>4. \A n \in S : m <= n
  BY <1>3
<1> QED
  BY <1>4

\* Induction: a set with 0 and the successors of its members has all numbers.
LEMMA AllNumbers ==
  ASSUME NEW S, 0 \in S, \A n \in Nat : n \in S => n + 1 \in S
  PROVE  \A n \in Nat : n \in S
<1> SUFFICES ASSUME {n \in Nat : n \notin S} # {} PROVE FALSE
  OBVIOUS
<1>1. PICK m \in {n \in Nat : n \notin S} : \A n \in {k \in Nat : k \notin S} : m <= n
  BY LeastOf
<1>2. m # 0 /\ m - 1 \in Nat /\ m = (m - 1) + 1 /\ ~(m <= m - 1)
  BY <1>1
<1>3. m - 1 \in S
  BY <1>1, <1>2
<1> QED
  BY <1>1, <1>2, <1>3

\* The first n + 1 values of the iteration of step from x.
Iterates(h, n, x, step) ==
    /\ h[0] = x
    /\ \A k \in 0 .. n - 1 : h[k + 1] = step[h[k]]

LEMMA IteratesExist ==
  ASSUME NEW V, NEW x \in V, NEW step \in [V -> V]
  PROVE  \A n \in Nat : \E h \in [Nat -> V] : Iterates(h, n, x, step)
<1> DEFINE S == {n \in Nat : \E h \in [Nat -> V] : Iterates(h, n, x, step)}
<1>1. 0 \in S
  <2>1. [k \in Nat |-> x] \in [Nat -> V] /\ Iterates([k \in Nat |-> x], 0, x, step)
    BY DEF Iterates
  <2> QED
    BY <2>1
<1>2. ASSUME NEW n \in Nat, n \in S PROVE n + 1 \in S
  <2>1. PICK h \in [Nat -> V] : Iterates(h, n, x, step)
    BY <1>2
  <2>2. PICK g : g = [k \in Nat |-> IF k = n + 1 THEN step[h[n]] ELSE h[k]]
    OBVIOUS
  <2>3. g \in [Nat -> V]
    BY <2>2
  <2>4. g[0] = x
    BY <2>1, <2>2 DEF Iterates
  <2>5. \A k \in 0 .. n : g[k + 1] = step[g[k]]
    <3> TAKE k \in 0 .. n
    <3>1. k # n + 1 /\ k \in Nat /\ k + 1 \in Nat
      OBVIOUS
    <3>2. g[k] = h[k]
      BY <2>2, <3>1
    <3>3. CASE k = n
      BY <2>2, <3>2, <3>3
    <3>4. CASE k # n
      <4>1. k \in 0 .. n - 1 /\ k + 1 # n + 1
        BY <3>4
      <4>2. g[k + 1] = h[k + 1]
        BY <2>2, <3>1, <4>1
      <4> QED
        BY <2>1, <3>2, <4>1, <4>2 DEF Iterates
    <3> QED
      BY <3>3, <3>4
  <2>6. (n + 1) - 1 = n
    OBVIOUS
  <2>7. Iterates(g, n + 1, x, step)
    BY <2>4, <2>5, <2>6 DEF Iterates
  <2> QED
    BY <2>3, <2>7
<1> HIDE DEF S
<1>3. \A n \in Nat : n \in S
  BY <1>1, <1>2, AllNumbers
<1> QED
  BY <1>3 DEF S

LEMMA IteratesAgree ==
  ASSUME NEW x, NEW step, NEW g, NEW h, NEW n \in Nat, NEW m \in Nat,
         Iterates(g, n, x, step), Iterates(h, m, x, step), n <= m
  PROVE  \A k \in 0 .. n : g[k] = h[k]
<1> DEFINE S == {k \in Nat : k <= n => g[k] = h[k]}
<1>1. 0 \in S
  BY DEF Iterates
<1>2. ASSUME NEW k \in Nat, k \in S PROVE k + 1 \in S
  <2>1. SUFFICES ASSUME k + 1 <= n PROVE g[k + 1] = h[k + 1]
    OBVIOUS
  <2>2. k \in 0 .. n - 1 /\ k \in 0 .. m - 1 /\ k <= n
    BY <2>1
  <2> QED
    BY <1>2, <2>2 DEF Iterates
<1> HIDE DEF S
<1>3. \A k \in Nat : k \in S
  BY <1>1, <1>2, AllNumbers
<1> QED
  BY <1>3 DEF S

\* The iteration of a function.
LEMMA IterationExists ==
  ASSUME NEW V, NEW x \in V, NEW onward \in [V -> V]
  PROVE  \E h \in [Nat -> V] :
            h[0] = x /\ \A n \in Nat : h[n + 1] = onward[h[n]]
<1> DEFINE first(n) == CHOOSE h \in [Nat -> V] : Iterates(h, n, x, onward)
           f == [n \in Nat |-> first(n)[n]]
<1>1. \A n \in Nat : first(n) \in [Nat -> V] /\ Iterates(first(n), n, x, onward)
  BY IteratesExist
<1>2. \A n \in Nat : f[n] = first(n)[n]
  OBVIOUS
<1>3. f \in [Nat -> V]
  BY <1>1
<1> HIDE DEF f, first
<1>4. f[0] = x
  BY <1>1, <1>2 DEF Iterates
<1>5. \A n \in Nat : f[n + 1] = onward[f[n]]
  <2> TAKE n \in Nat
  <2>1. /\ n + 1 \in Nat /\ n <= n + 1 /\ n \in 0 .. n
        /\ n \in 0 .. (n + 1) - 1
    OBVIOUS
  <2>2. first(n)[n] = first(n + 1)[n]
    BY <1>1, <2>1, IteratesAgree
  <2>3. first(n + 1)[n + 1] = onward[first(n + 1)[n]]
    BY <1>1, <2>1 DEF Iterates
  <2> QED
    BY <1>2, <2>1, <2>2, <2>3
<1> QED
  BY <1>3, <1>4, <1>5

\* A growing sequence of subsets that stays where it once stood has stopped
\* growing after as many rounds as there are elements.
LEMMA RoundsAreEnough ==
  ASSUME NEW U, IsFiniteSet(U), NEW f \in [Nat -> SUBSET U],
         \A k \in Nat : f[k] \subseteq f[k + 1],
         \A k \in Nat : f[k + 1] = f[k] => f[(k + 1) + 1] = f[k + 1]
  PROVE  f[Cardinality(U) + 1] = f[Cardinality(U)]
<1> DEFINE N == Cardinality(U)
<1>1. N \in Nat
  BY FS_CardinalityType
<1> HIDE DEF N
<1>2. \E k \in Nat : k <= N /\ f[k + 1] = f[k]
  <2> SUFFICES ASSUME \A k \in Nat : k <= N => f[k + 1] # f[k] PROVE FALSE
    BY Zenon
  <2> DEFINE T == {k \in Nat : k <= N + 1 => k <= Cardinality(f[k])}
  <2>1. \A k \in Nat : IsFiniteSet(f[k]) /\ Cardinality(f[k]) \in Nat
    BY FS_Subset, FS_CardinalityType
  <2>2. 0 \in T
    BY <2>1
  <2>3. \A k \in Nat : k \in T => k + 1 \in T
    <3> TAKE k \in Nat
    <3> HAVE k \in T
    <3> SUFFICES ASSUME k + 1 <= N + 1 PROVE k + 1 <= Cardinality(f[k + 1])
      OBVIOUS
    <3>1. k <= N /\ k <= Cardinality(f[k])
      BY <1>1
    <3>2. f[k] \subseteq f[k + 1] /\ f[k] # f[k + 1] /\ IsFiniteSet(f[k + 1])
      BY <2>1, <3>1
    <3>3. Cardinality(f[k]) <= Cardinality(f[k + 1]) /\ Cardinality(f[k]) # Cardinality(f[k + 1])
      BY <3>2, FS_Subset
    <3>4. k + 1 \in Nat
      OBVIOUS
    <3>5. Cardinality(f[k]) \in Nat /\ Cardinality(f[k + 1]) \in Nat
      BY <2>1, <3>4, Zenon
    <3> QED
      BY <3>1, <3>3, <3>5
  <2> HIDE DEF T
  <2>4. \A k \in Nat : k \in T
    BY <2>2, <2>3, AllNumbers
  <2>5. N + 1 <= Cardinality(f[N + 1])
    BY <1>1, <2>4 DEF T
  <2>6. Cardinality(f[N + 1]) <= N
    BY <1>1, FS_Subset DEF N
  <2> QED
    BY <1>1, <2>1, <2>5, <2>6
<1>3. PICK k \in Nat : k <= N /\ f[k + 1] = f[k]
  BY <1>2
<1>4. \A m \in Nat : k <= m => f[m + 1] = f[m]
  <2> DEFINE T == {m \in Nat : k <= m => f[m + 1] = f[m]}
  <2>1. 0 \in T
    BY <1>3
  <2>2. \A m \in Nat : m \in T => m + 1 \in T
    <3> TAKE m \in Nat
    <3> HAVE m \in T
    <3> SUFFICES ASSUME k <= m + 1 PROVE f[(m + 1) + 1] = f[m + 1]
      OBVIOUS
    <3>1. k <= m \/ k = m + 1
      OBVIOUS
    <3>2. CASE k <= m
      BY <3>2
    <3>3. CASE k = m + 1
      BY <1>3, <3>3
    <3> QED
      BY <3>1, <3>2, <3>3
  <2> HIDE DEF T
  <2>3. \A m \in Nat : m \in T
    BY <2>1, <2>2, AllNumbers
  <2> QED
    BY <2>3 DEF T
<1> QED
  BY <1>1, <1>3, <1>4 DEF N

-----------------------------------------------------------------------------
(* Sequences.                                                              *)

Elements(s) == {s[i] : i \in 1 .. Len(s)}

Distinct(s) == \A i, j \in 1 .. Len(s) : i # j => s[i] # s[j]

LEMMA AppendFacts ==
    ASSUME NEW S, NEW s \in Seq(S), NEW x \in S
    PROVE  /\ Append(s, x) \in Seq(S)
           /\ Append(s, x) # <<>>
           /\ Elements(Append(s, x)) = Elements(s) \cup {x}
           /\ Distinct(s) /\ x \notin Elements(s) => Distinct(Append(s, x))
<1>1. /\ Append(s, x) \in Seq(S)
      /\ Len(Append(s, x)) = Len(s) + 1 /\ Len(s) \in Nat
      /\ \A i \in 1 .. Len(s) : Append(s, x)[i] = s[i]
      /\ Append(s, x)[Len(s) + 1] = x
  OBVIOUS
<1>2. \A i \in 1 .. Len(s) + 1 : i \in 1 .. Len(s) \/ i = Len(s) + 1
  BY <1>1
<1>3. Elements(Append(s, x)) = Elements(s) \cup {x}
  BY <1>1, <1>2 DEF Elements
<1>4. Distinct(s) /\ x \notin Elements(s) => Distinct(Append(s, x))
  BY <1>1, <1>2 DEF Elements, Distinct
<1>5. Append(s, x) # <<>>
  BY <1>1
<1> QED
  BY <1>1, <1>3, <1>4, <1>5

LEMMA JoinFacts ==
    ASSUME NEW S, NEW s \in Seq(S), NEW q \in Seq(S)
    PROVE  /\ s \o q \in Seq(S)
           /\ Elements(s \o q) = Elements(s) \cup Elements(q)
           /\ Distinct(s) /\ Distinct(q) /\ Elements(s) \cap Elements(q) = {} => Distinct(s \o q)
<1>1. /\ s \o q \in Seq(S)
      /\ Len(s \o q) = Len(s) + Len(q) /\ Len(s) \in Nat /\ Len(q) \in Nat
      /\ \A i \in 1 .. Len(s) : (s \o q)[i] = s[i]
      /\ \A i \in 1 .. Len(q) : (s \o q)[Len(s) + i] = q[i]
  OBVIOUS
<1>2. \A i \in 1 .. Len(s) + Len(q) :
        i \in 1 .. Len(s) \/ \E j \in 1 .. Len(q) : i = Len(s) + j
  <2> TAKE i \in 1 .. Len(s) + Len(q)
  <2>1. CASE i > Len(s)
    <3>1. i - Len(s) \in 1 .. Len(q) /\ i = Len(s) + (i - Len(s))
      BY <1>1, <2>1
    <3> QED
      BY <3>1
  <2> QED
    BY <1>1, <2>1
<1>3. Elements(s \o q) = Elements(s) \cup Elements(q)
  <2>1. Elements(s \o q) \subseteq Elements(s) \cup Elements(q)
    BY <1>1, <1>2 DEF Elements
  <2>2. \A i \in 1 .. Len(q) : Len(s) + i \in 1 .. Len(s) + Len(q)
    BY <1>1
  <2>3. \A i \in 1 .. Len(s) : i \in 1 .. Len(s) + Len(q)
    BY <1>1
  <2> QED
    BY <1>1, <2>1, <2>2, <2>3 DEF Elements
<1>4. ASSUME Distinct(s), Distinct(q), Elements(s) \cap Elements(q) = {},
             NEW i \in 1 .. Len(s \o q), NEW j \in 1 .. Len(s \o q), i # j
      PROVE  (s \o q)[i] # (s \o q)[j]
  <2>1. \A k \in 1 .. Len(s), m \in 1 .. Len(q) : s[k] # q[m]
    BY <1>4 DEF Elements
  <2>2. CASE i \in 1 .. Len(s)
    <3>1. CASE j \in 1 .. Len(s)
      BY <1>1, <1>4, <2>2, <3>1 DEF Distinct
    <3>2. CASE \E m \in 1 .. Len(q) : j = Len(s) + m
      BY <1>1, <2>1, <2>2, <3>2
    <3> QED
      BY <1>1, <1>2, <3>1, <3>2
  <2>3. CASE \E k \in 1 .. Len(q) : i = Len(s) + k
    <3>1. CASE j \in 1 .. Len(s)
      BY <1>1, <2>1, <2>3, <3>1
    <3>2. CASE \E m \in 1 .. Len(q) : j = Len(s) + m
      BY <1>1, <1>4, <2>3, <3>2 DEF Distinct
    <3> QED
      BY <1>1, <1>2, <3>1, <3>2
  <2> QED
    BY <1>1, <1>2, <2>2, <2>3
<1> QED
  BY <1>1, <1>3, <1>4 DEF Distinct

LEMMA HeadFacts ==
    ASSUME NEW S, NEW s \in Seq(S), s # <<>>
    PROVE  /\ Head(s) \in S
           /\ Tail(s) \in Seq(S)
           /\ Elements(s) = Elements(Tail(s)) \cup {Head(s)}
           /\ Distinct(s) => Distinct(Tail(s)) /\ Head(s) \notin Elements(Tail(s))
<1>1. /\ Head(s) \in S /\ Head(s) = s[1]
      /\ Tail(s) \in Seq(S)
      /\ Len(Tail(s)) = Len(s) - 1 /\ Len(s) \in Nat /\ Len(s) >= 1
      /\ \A i \in 1 .. Len(s) - 1 : Tail(s)[i] = s[i + 1]
  OBVIOUS
<1>2. \A i \in 1 .. Len(s) : i = 1 \/ (i - 1 \in 1 .. Len(s) - 1 /\ (i - 1) + 1 = i)
  BY <1>1
<1>3. \A i \in 1 .. Len(s) - 1 : i + 1 \in 1 .. Len(s) /\ i + 1 # 1
  BY <1>1
<1>4. Elements(s) = Elements(Tail(s)) \cup {Head(s)}
  <2>1. Elements(Tail(s)) \cup {Head(s)} \subseteq Elements(s)
    BY <1>1, <1>3 DEF Elements
  <2>2. \A i \in 1 .. Len(s) : s[i] \in Elements(Tail(s)) \cup {Head(s)}
    BY <1>1, <1>2 DEF Elements
  <2> QED
    BY <2>1, <2>2 DEF Elements
<1>5. Distinct(s) => Distinct(Tail(s))
  BY <1>1, <1>3 DEF Distinct
<1>6. Distinct(s) => Head(s) \notin Elements(Tail(s))
  BY <1>1, <1>3 DEF Distinct, Elements
<1> QED
  BY <1>1, <1>4, <1>5, <1>6

-----------------------------------------------------------------------------
(* Paths.                                                                  *)

LEMMA TargetsAreBlocks ==
  ASSUME NEW g, WellWired(g), NEW n \in Blocks(g)
  PROVE  Targets(g, n) \subseteq Blocks(g)
<1>1. Len(g) \in Nat /\ n \in 1 .. Len(g) /\ g[n] \in Terminators(n, Len(g))
  BY DEF WellWired, Blocks
<1>2. CASE g[n] \in {Return, LostJump, LostBranch}
  BY <1>2 DEF Targets, Succ, Return, LostJump, LostBranch
<1>3. CASE \E t \in 1 .. Len(g) : g[n] = Jump(t)
  BY <1>1, <1>3 DEF Targets, Succ, Jump, Blocks
<1>4. CASE n < Len(g) /\ \E t \in 1 .. Len(g) : g[n] = Branch(t, n + 1)
  BY <1>1, <1>4 DEF Targets, Succ, Branch, Blocks
<1> QED
  BY <1>1, <1>2, <1>3, <1>4 DEF Terminators

\* C holds the targets of its members that are not in B.
Closed(g, C, B) == \A n \in C : Targets(g, n) \ B \subseteq C

LEMMA BlocksAreFinite ==
  ASSUME NEW g, WellWired(g)
  PROVE  Len(g) \in Nat /\ IsFiniteSet(Blocks(g)) /\ Cardinality(Blocks(g)) = Len(g)
<1>1. Len(g) \in Nat
  BY DEF WellWired
<1>2. IsFiniteSet(1 .. Len(g)) /\ Cardinality(1 .. Len(g)) = Len(g)
  BY <1>1, FS_Interval
<1> QED
  BY <1>1, <1>2 DEF Blocks

\* One round of Spread.
Round(g, C, B) == C \cup ((UNION {Targets(g, n) : n \in C}) \ B)

LEMMA RoundFacts ==
  ASSUME NEW g, WellWired(g), NEW C, C \subseteq Blocks(g), NEW B
  PROVE  /\ Round(g, C, B) \subseteq Blocks(g) /\ C \subseteq Round(g, C, B)
         /\ \A D : C \subseteq D /\ Closed(g, D, B) => Round(g, C, B) \subseteq D
         /\ Round(g, C, B) = C => Closed(g, C, B)
<1>1. Round(g, C, B) = C \cup ((UNION {Targets(g, n) : n \in C}) \ B)
  BY DEF Round
<1>2. \A n \in C : Targets(g, n) \subseteq Blocks(g)
  BY TargetsAreBlocks
<1>3. \A t : t \in Round(g, C, B) <=> t \in C \/ (t \notin B /\ \E n \in C : t \in Targets(g, n))
  <2>1. PICK U : U = UNION {Targets(g, n) : n \in C}
    OBVIOUS
  <2>2. \A t : t \in U <=> \E n \in C : t \in Targets(g, n)
    BY <2>1
  <2>3. Round(g, C, B) = C \cup (U \ B)
    BY <1>1, <2>1, Zenon
  <2> QED
    BY <2>2, <2>3
<1>4. \A D : C \subseteq D /\ Closed(g, D, B) => Round(g, C, B) \subseteq D
  BY <1>3 DEF Closed
<1>5. Round(g, C, B) = C => Closed(g, C, B)
  BY <1>3 DEF Closed
<1> QED
  BY <1>2, <1>3, <1>4, <1>5

\* The recursion of Spread, unfolded.
LEMMA SpreadUnfolds ==
  ASSUME NEW g, WellWired(g), NEW S, S \subseteq Blocks(g), NEW B
  PROVE  \E f \in [Nat -> SUBSET Blocks(g)] :
            /\ f[0] = S \ B
            /\ \A k \in Nat : f[k + 1] = Round(g, f[k], B)
            /\ Spread(g, S, B) = f[Len(g)]
<1> DEFINE f == CHOOSE f : f = [k \in Nat |->
            IF k = 0 THEN S \ B
            ELSE f[k - 1] \cup ((UNION {Targets(g, n) : n \in f[k - 1]}) \ B)]
           V == SUBSET Blocks(g)
           x == S \ B
           step == [C \in V |-> Round(g, C, B)]
<1>1. Spread(g, S, B) = f[Len(g)]
  BY DEF Spread
<1>2. step \in [V -> V] /\ \A C \in V : step[C] = Round(g, C, B)
  BY RoundFacts
<1>3. x \in V
  OBVIOUS
<1> HIDE DEF step, x, V
<1>4. PICK h \in [Nat -> V] : h[0] = x /\ \A n \in Nat : h[n + 1] = step[h[n]]
  <2>1. step \in [V -> V]
    BY <1>2
  <2> QED
    BY <1>3, <2>1, IterationExists
<1>5. \A k \in Nat : h[k + 1] = Round(g, h[k], B)
  BY <1>2, <1>4
<1>6. h = [k \in Nat |->
            IF k = 0 THEN S \ B
            ELSE h[k - 1] \cup ((UNION {Targets(g, n) : n \in h[k - 1]}) \ B)]
  <2>1. \A k \in Nat : k # 0 => h[k] = Round(g, h[k - 1], B)
    <3> TAKE k \in Nat
    <3> HAVE k # 0
    <3>1. k - 1 \in Nat /\ (k - 1) + 1 = k
      OBVIOUS
    <3> QED
      BY <1>5, <3>1
  <2>2. \A k \in Nat : k # 0 =>
            h[k] = h[k - 1] \cup ((UNION {Targets(g, n) : n \in h[k - 1]}) \ B)
    BY <2>1 DEF Round
  <2>3. h = [k \in Nat |-> h[k]] /\ h[0] = S \ B
    BY <1>4 DEF x
  <2> QED
    BY <2>2, <2>3
<1>7. f = [k \in Nat |->
            IF k = 0 THEN S \ B
            ELSE f[k - 1] \cup ((UNION {Targets(g, n) : n \in f[k - 1]}) \ B)]
  BY <1>6, Zenon
<1> HIDE DEF f
<1>8. f = [k \in Nat |-> IF k = 0 THEN S \ B ELSE Round(g, f[k - 1], B)]
  BY <1>7 DEF Round
<1>9. f[0] = S \ B /\ \A k \in Nat : f[k + 1] = Round(g, f[k], B)
  <2>1. f[0] = S \ B
    BY <1>8
  <2>2. \A k \in Nat : k # 0 => f[k] = Round(g, f[k - 1], B)
    BY <1>8, Zenon
  <2>3. \A k \in Nat : k + 1 \in Nat /\ k + 1 # 0 /\ (k + 1) - 1 = k
    OBVIOUS
  <2>4. \A k \in Nat : f[k + 1] = Round(g, f[k], B)
    BY <2>2, <2>3
  <2> QED
    BY <2>1, <2>4
<1>10. \A k \in Nat : f[k] \subseteq Blocks(g)
  <2> DEFINE T == {k \in Nat : f[k] \subseteq Blocks(g)}
  <2>1. 0 \in T
    BY <1>9
  <2>2. \A k \in Nat : k \in T => k + 1 \in T
    BY <1>9, RoundFacts
  <2> HIDE DEF T
  <2>3. \A k \in Nat : k \in T
    BY <2>1, <2>2, AllNumbers
  <2> QED
    BY <2>3 DEF T
<1>11. f \in [Nat -> SUBSET Blocks(g)]
  <2>1. PICK d : d = [k \in Nat |-> IF k = 0 THEN S \ B ELSE Round(g, f[k - 1], B)]
    OBVIOUS
  <2>2. f = d /\ d = [k \in Nat |-> d[k]]
    BY <1>8, <2>1
  <2> QED
    BY <1>10, <2>2
<1> QED
  BY <1>1, <1>9, <1>11

(***************************************************************************)
(* The blocks on paths from S outside B are the least set that holds S and *)
(* is closed: as many rounds as there are blocks are enough.               *)
(***************************************************************************)
THEOREM SpreadIsLeast ==
  ASSUME NEW g, WellWired(g), NEW S, S \subseteq Blocks(g), NEW B
  PROVE  /\ Spread(g, S, B) \subseteq Blocks(g)
         /\ S \ B \subseteq Spread(g, S, B)
         /\ Closed(g, Spread(g, S, B), B)
         /\ \A C : S \ B \subseteq C /\ Closed(g, C, B) => Spread(g, S, B) \subseteq C
<1>1. PICK f \in [Nat -> SUBSET Blocks(g)] :
            /\ f[0] = S \ B
            /\ \A k \in Nat : f[k + 1] = Round(g, f[k], B)
            /\ Spread(g, S, B) = f[Len(g)]
  \* the provers take the lemma as stated, not its instance
  <2>1. \A B1 : \E f \in [Nat -> SUBSET Blocks(g)] :
            /\ f[0] = S \ B1
            /\ \A k \in Nat : f[k + 1] = Round(g, f[k], B1)
            /\ Spread(g, S, B1) = f[Len(g)]
    BY SpreadUnfolds, Zenon
  <2> QED
    BY <2>1, Zenon
<1>2. Len(g) \in Nat /\ IsFiniteSet(Blocks(g)) /\ Cardinality(Blocks(g)) = Len(g)
  BY BlocksAreFinite
<1>3. \A k \in Nat : f[k] \subseteq Blocks(g) /\ f[k] \subseteq f[k + 1]
  <2> TAKE k \in Nat
  <2>1. f[k] \subseteq Blocks(g)
    BY <1>1
  <2>2. f[k] \subseteq Round(g, f[k], B)
    BY <2>1, RoundFacts
  <2> QED
    BY <1>1, <2>1, <2>2
<1>4. \A k \in Nat : S \ B \subseteq f[k]
  <2> DEFINE T == {k \in Nat : S \ B \subseteq f[k]}
  <2>1. 0 \in T /\ \A k \in Nat : k \in T => k + 1 \in T
    BY <1>1, <1>3
  <2> HIDE DEF T
  <2>2. \A k \in Nat : k \in T
    BY <2>1, AllNumbers
  <2> QED
    BY <2>2 DEF T
<1>5. ASSUME NEW C, S \ B \subseteq C, Closed(g, C, B)
      PROVE  \A k \in Nat : f[k] \subseteq C
  <2> DEFINE T == {k \in Nat : f[k] \subseteq C}
  <2>1. 0 \in T
    BY <1>1, <1>5
  <2>2. \A k \in Nat : k \in T => k + 1 \in T
    <3> TAKE k \in Nat
    <3> HAVE k \in T
    <3>1. Round(g, f[k], B) \subseteq C
      BY <1>3, <1>5, RoundFacts
    <3> QED
      BY <1>1, <3>1
  <2> HIDE DEF T
  <2>3. \A k \in Nat : k \in T
    BY <2>1, <2>2, AllNumbers
  <2> QED
    BY <2>3 DEF T
<1>6. ASSUME NEW k \in Nat, f[k + 1] = f[k] PROVE f[(k + 1) + 1] = f[k + 1]
  <2>1. f[k + 1] = Round(g, f[k], B) /\ f[(k + 1) + 1] = Round(g, f[k + 1], B)
    BY <1>1
  <2> QED
    BY <1>6, <2>1
<1>9. f[Len(g) + 1] = f[Len(g)]
  BY <1>2, <1>3, <1>6, RoundsAreEnough
<1>10. Closed(g, f[Len(g)], B)
  <2>1. Len(g) \in Nat /\ f[Len(g)] \subseteq Blocks(g)
    BY <1>2, <1>3
  <2>2. Round(g, f[Len(g)], B) = f[Len(g)]
    BY <1>1, <1>9, <2>1
  <2> QED
    BY <2>1, <2>2, RoundFacts
<1>11. f[Len(g)] \subseteq Blocks(g) /\ S \ B \subseteq f[Len(g)]
  BY <1>2, <1>3, <1>4
<1>12. \A C : S \ B \subseteq C /\ Closed(g, C, B) => f[Len(g)] \subseteq C
  BY <1>2, <1>5
<1>13. Spread(g, S, B) = f[Len(g)]
  BY <1>1
<1> QED
  BY <1>10, <1>11, <1>12, <1>13, Zenon

-----------------------------------------------------------------------------
(* Dominators.                                                             *)

\* A graph the dominance analysis looks at.
Graph(g) == WellWired(g) /\ g # <<>>

LEMMA ReachableIsLeast ==
  ASSUME NEW g, Graph(g)
  PROVE  /\ Reachable(g) \subseteq Blocks(g) /\ 1 \in Blocks(g) /\ 1 \in Reachable(g)
         /\ \A n \in Reachable(g) : Targets(g, n) \subseteq Reachable(g)
         /\ \A C : 1 \in C /\ (\A n \in C : Targets(g, n) \subseteq C) => Reachable(g) \subseteq C
<1>1. WellWired(g) /\ Len(g) \in Nat /\ Len(g) # 0
  BY DEF Graph, WellWired
<1>2. 1 \in Blocks(g) /\ {1} \cap Blocks(g) = {1} /\ {1} \subseteq Blocks(g)
  BY <1>1 DEF Blocks
<1>3. Reachable(g) = Spread(g, {1}, {})
  BY <1>2 DEF Reachable
<1>4. /\ Spread(g, {1}, {}) \subseteq Blocks(g)
      /\ {1} \ {} \subseteq Spread(g, {1}, {})
      /\ Closed(g, Spread(g, {1}, {}), {})
      /\ \A C : {1} \ {} \subseteq C /\ Closed(g, C, {}) => Spread(g, {1}, {}) \subseteq C
  BY <1>1, <1>2, SpreadIsLeast
<1> QED
  BY <1>2, <1>3, <1>4 DEF Closed

\* What can be reached without a.
Without(g, a) == Spread(g, {1}, {a})

LEMMA WithoutIsLeast ==
  ASSUME NEW g, Graph(g), NEW a
  PROVE  /\ Without(g, a) \subseteq Reachable(g) /\ a \notin Without(g, a)
         /\ a # 1 => 1 \in Without(g, a)
         /\ \A n \in Without(g, a) : \A t \in Targets(g, n) : t # a => t \in Without(g, a)
         /\ \A C : /\ a # 1 => 1 \in C
                   /\ \A n \in C : \A t \in Targets(g, n) : t # a => t \in C
                   => Without(g, a) \subseteq C
<1>1. WellWired(g) /\ {1} \subseteq Blocks(g)
  BY ReachableIsLeast DEF Graph
<1>2. /\ {1} \ {a} \subseteq Without(g, a)
      /\ Closed(g, Without(g, a), {a})
      /\ \A C : {1} \ {a} \subseteq C /\ Closed(g, C, {a}) => Without(g, a) \subseteq C
  BY <1>1, SpreadIsLeast DEF Without
<1>3. ASSUME NEW C, a # 1 => 1 \in C,
             \A n \in C : \A t \in Targets(g, n) : t # a => t \in C
      PROVE  Without(g, a) \subseteq C
  <2>1. {1} \ {a} \subseteq C /\ Closed(g, C, {a})
    BY <1>3 DEF Closed
  <2> QED
    BY <1>2, <2>1
<1>4. Without(g, a) \subseteq Reachable(g) \ {a}
  <2>1. /\ a # 1 => 1 \in Reachable(g) \ {a}
        /\ \A n \in Reachable(g) \ {a} : \A t \in Targets(g, n) : t # a => t \in Reachable(g) \ {a}
    BY ReachableIsLeast
  <2> QED
    BY <1>3, <2>1, Zenon
<1> QED
  BY <1>2, <1>3, <1>4 DEF Closed

LEMMA DomIs ==
  ASSUME NEW g, NEW a, NEW b
  PROVE  Dom(g, a, b) <=> b \in Reachable(g) /\ b \notin Without(g, a)
BY DEF Dom, Without

LEMMA DomFacts ==
  ASSUME NEW g, Graph(g)
  PROVE  /\ \A a, b : Dom(g, a, b) => a \in Reachable(g) /\ b \in Reachable(g)
         /\ \A b \in Reachable(g) : Dom(g, b, b) /\ Dom(g, 1, b)
<1>1. ASSUME NEW a, NEW b, Dom(g, a, b), a \notin Reachable(g) PROVE FALSE
  <2>1. 1 \in Without(g, a) /\ \A n \in Without(g, a) : Targets(g, n) \subseteq Without(g, a)
    <3>1. a # 1
      BY <1>1, ReachableIsLeast
    <3>2. \A n \in Without(g, a) : \A t \in Targets(g, n) : t # a
      BY <1>1, WithoutIsLeast, ReachableIsLeast
    <3> QED
      BY <3>1, <3>2, WithoutIsLeast
  <2>2. Reachable(g) \subseteq Without(g, a)
    BY <2>1, ReachableIsLeast
  <2> QED
    BY <1>1, <2>2, DomIs
<1>2. \A b \in Reachable(g) : Dom(g, b, b)
  BY WithoutIsLeast, DomIs
<1>3. PICK C : C = {} /\ Without(g, 1) \subseteq C
  <2>1. PICK C : C = {}
    OBVIOUS
  <2>2. /\ 1 # 1 => 1 \in C
        /\ \A n \in C : \A t \in Targets(g, n) : t # 1 => t \in C
    BY <2>1
  <2> QED
    BY <2>1, <2>2, WithoutIsLeast
<1>4. \A b \in Reachable(g) : Dom(g, 1, b)
  BY <1>3, DomIs
<1> QED
  BY <1>1, <1>2, <1>4, DomIs

LEMMA DomTransitive ==
  ASSUME NEW g, Graph(g), NEW a, NEW b, NEW c, Dom(g, a, b), Dom(g, b, c)
  PROVE  Dom(g, a, c)
<1>1. CASE a = b
  BY <1>1
<1>2. CASE a # b
  <2> DEFINE C == Without(g, a) \cap Without(g, b)
  <2>1. b \notin Without(g, a) /\ c \in Reachable(g) /\ c \notin Without(g, b)
    BY DomIs
  <2>2. a # 1 => 1 \in C
    BY <1>2, <2>1, WithoutIsLeast
  <2>3. \A n \in C : \A t \in Targets(g, n) : t # a => t \in C
    BY <2>1, WithoutIsLeast
  <2> HIDE DEF C
  <2>4. Without(g, a) \subseteq C
    BY <2>2, <2>3, WithoutIsLeast
  <2> QED
    BY <2>1, <2>4, DomIs DEF C
<1> QED
  BY <1>1, <1>2

LEMMA DomAntisymmetric ==
  ASSUME NEW g, Graph(g), NEW a, NEW b, Dom(g, a, b), Dom(g, b, a)
  PROVE  a = b
<1> SUFFICES ASSUME a # b PROVE FALSE
  OBVIOUS
<1> DEFINE C == Without(g, a) \cap Without(g, b)
<1>1. /\ b \notin Without(g, a) /\ a \notin Without(g, b)
      /\ a \in Reachable(g) /\ b \in Reachable(g)
  BY DomIs
<1>2. 1 \in C
  BY <1>1, WithoutIsLeast
<1>3. \A n \in C : Targets(g, n) \subseteq C
  BY <1>1, WithoutIsLeast
<1> HIDE DEF C
<1>4. Reachable(g) \subseteq C
  BY <1>2, <1>3, ReachableIsLeast
<1> QED
  BY <1>1, <1>4, WithoutIsLeast DEF C

\* Of two dominators of one block, one dominates the other.
LEMMA DomChain ==
  ASSUME NEW g, Graph(g), NEW a, NEW b, NEW c, Dom(g, a, c), Dom(g, b, c)
  PROVE  Dom(g, a, b) \/ Dom(g, b, a)
<1> SUFFICES ASSUME ~Dom(g, a, b), ~Dom(g, b, a) PROVE FALSE
  OBVIOUS
<1> DEFINE C == Without(g, a) \cup Without(g, b)
<1>1. /\ a \in Without(g, b) /\ b \in Without(g, a)
      /\ c \in Reachable(g) /\ c \notin C
  BY DomFacts, DomIs
<1>2. 1 \in C
  BY <1>1, WithoutIsLeast
<1>3. \A n \in C : Targets(g, n) \subseteq C
  BY <1>1, WithoutIsLeast
<1> HIDE DEF C
<1>4. Reachable(g) \subseteq C
  BY <1>2, <1>3, ReachableIsLeast
<1> QED
  BY <1>1, <1>4

\* A block behind d is entered through d only.
LEMMA DomOfPred ==
  ASSUME NEW g, Graph(g), NEW d, NEW n \in Reachable(g), NEW t \in Targets(g, n),
         Dom(g, d, t), d # t
  PROVE  Dom(g, d, n)
BY WithoutIsLeast, DomIs

-----------------------------------------------------------------------------
(* Immediate dominators.                                                   *)

Dominators(g, n) == {d \in Blocks(g) : Dom(g, d, n)}

Strict(g, n) == {d \in Blocks(g) \ {n} : Dom(g, d, n)}

LEMMA DominatorsGrow ==
  ASSUME NEW g, Graph(g), NEW a, NEW b, Dom(g, a, b), a # b
  PROVE  /\ Cardinality(Dominators(g, a)) \in Nat /\ Cardinality(Dominators(g, b)) \in Nat
         /\ Cardinality(Dominators(g, b)) <= Len(g)
         /\ Cardinality(Dominators(g, a)) < Cardinality(Dominators(g, b))
<1>1. /\ IsFiniteSet(Blocks(g)) /\ Len(g) \in Nat /\ Cardinality(Blocks(g)) = Len(g)
      /\ Dominators(g, a) \subseteq Blocks(g) /\ Dominators(g, b) \subseteq Blocks(g)
  BY BlocksAreFinite DEF Graph, Dominators
<1>2. /\ IsFiniteSet(Dominators(g, a)) /\ IsFiniteSet(Dominators(g, b))
      /\ Cardinality(Dominators(g, b)) <= Len(g)
  BY <1>1, FS_Subset
<1>3. Cardinality(Dominators(g, a)) \in Nat /\ Cardinality(Dominators(g, b)) \in Nat
  BY <1>2, FS_CardinalityType
<1>4. Dominators(g, a) \subseteq Dominators(g, b)
  BY DomTransitive DEF Dominators
<1>5. b \in Dominators(g, b) /\ b \notin Dominators(g, a)
  BY DomFacts, DomAntisymmetric, ReachableIsLeast DEF Dominators
<1>6. /\ Cardinality(Dominators(g, a)) <= Cardinality(Dominators(g, b))
      /\ Cardinality(Dominators(g, b)) = Cardinality(Dominators(g, a))
            => Dominators(g, b) = Dominators(g, a)
  BY <1>2, <1>4, FS_Subset
<1> QED
  BY <1>2, <1>3, <1>5, <1>6

\* Of the strict dominators of a block one is dominated by all others.
LEMMA NearestDominator ==
  ASSUME NEW g, Graph(g), NEW n, Strict(g, n) # {}
  PROVE  \E d \in Strict(g, n) : \A c \in Strict(g, n) : Dom(g, c, d)
<1> DEFINE size(d) == Cardinality(Dominators(g, d))
           T == {Len(g) - size(d) : d \in Strict(g, n)}
<1>1. Len(g) \in Nat
  BY BlocksAreFinite DEF Graph
<1>2. \A d \in Strict(g, n) : Dom(g, d, n) /\ d # n
  BY DEF Strict
<1>3. \A d \in Strict(g, n) : size(d) \in Nat /\ size(d) <= Len(g)
  BY <1>1, <1>2, DominatorsGrow
<1>4. \A c, d \in Strict(g, n) : Dom(g, d, c) /\ d # c => size(d) < size(c)
  BY DominatorsGrow
<1> HIDE DEF size
<1>5. T \subseteq Nat /\ T # {}
  BY <1>1, <1>3
<1>6. PICK m \in T : \A k \in T : m <= k
  BY <1>5, LeastOf
<1>7. PICK d \in Strict(g, n) : m = Len(g) - size(d)
  BY <1>6
<1>8. \A c \in Strict(g, n) : Dom(g, c, d)
  <2> TAKE c \in Strict(g, n)
  <2>1. ~(size(d) < size(c))
    <3>1. Len(g) - size(d) <= Len(g) - size(c)
      BY <1>6, <1>7
    <3>2. size(c) \in Nat /\ size(d) \in Nat
      BY <1>3
    <3> QED
      BY <1>1, <3>1, <3>2
  <2>2. Dom(g, d, c) => d = c
    BY <1>4, <2>1
  <2> QED
    BY <1>2, <2>2, DomChain
<1> QED
  BY <1>8
=============================================================================
