---------------------------- MODULE LifterProofs ----------------------------
(***************************************************************************)
(* The lifter, for every function: from the first block to the last pass   *)
(* ids are assigned once; what is read is at hand until names stand for    *)
(* slots; and taking out the canary cuts nothing but the paths that fail.  *)
(***************************************************************************)
EXTENDS LiftProperties, FiniteSetTheorems, TLAPS

-----------------------------------------------------------------------------
(* Sequences of statements with fresh ids.                                 *)

IsSeq(s) == \E S : s \in Seq(S)

\* The ids s assigns are among the k from n on, each assigned once.
Fresh(s, n, k) ==
    /\ IsSeq(s)
    /\ \A i \in 1 .. Len(s) : IsAssign(s[i]) => s[i].lhs \in n .. n + k - 1
    /\ \A i, j \in 1 .. Len(s) : IsAssign(s[i]) /\ IsAssign(s[j]) /\ s[i].lhs = s[j].lhs => i = j

LEMMA Joined ==
    ASSUME NEW s, NEW t, IsSeq(s), IsSeq(t)
    PROVE  /\ IsSeq(s \o t)
           /\ Len(s) \in Nat /\ Len(t) \in Nat /\ Len(s \o t) = Len(s) + Len(t)
           /\ DOMAIN (s \o t) = 1 .. Len(s \o t)
           /\ \A i \in 1 .. Len(s) : (s \o t)[i] = s[i]
           /\ \A i \in 1 .. Len(t) : (s \o t)[Len(s) + i] = t[i]
           /\ \A i \in 1 .. Len(s \o t) :
                i \in 1 .. Len(s) \/ (i - Len(s) \in 1 .. Len(t) /\ i = Len(s) + (i - Len(s)))
<1>1. PICK S : s \in Seq(S)
  BY DEF IsSeq
<1>2. PICK T : t \in Seq(T)
  BY DEF IsSeq
<1>3. s \in Seq(S \cup T) /\ t \in Seq(S \cup T)
  BY <1>1, <1>2
<1>4. s \o t \in Seq(S \cup T)
  BY <1>3
<1>5. /\ Len(s) \in Nat /\ Len(t) \in Nat /\ Len(s \o t) = Len(s) + Len(t)
      /\ DOMAIN (s \o t) = 1 .. Len(s \o t)
      /\ \A i \in 1 .. Len(s) : (s \o t)[i] = s[i]
      /\ \A i \in 1 .. Len(t) : (s \o t)[Len(s) + i] = t[i]
  BY <1>3, <1>4
<1> QED
  BY <1>4, <1>5 DEF IsSeq

LEMMA FreshJoin ==
    ASSUME NEW s, NEW t, NEW n \in Nat, NEW k \in Nat, NEW m \in Nat,
           Fresh(s, n, k), Fresh(t, n + k, m)
    PROVE  Fresh(s \o t, n, k + m)
<1> DEFINE u == s \o t
<1>1. IsSeq(s) /\ IsSeq(t)
  BY DEF Fresh
<1>2. /\ IsSeq(u)
      /\ Len(s) \in Nat /\ Len(t) \in Nat /\ Len(u) = Len(s) + Len(t)
      /\ \A i \in 1 .. Len(s) : u[i] = s[i]
      /\ \A i \in 1 .. Len(t) : u[Len(s) + i] = t[i]
      /\ \A i \in 1 .. Len(u) :
           i \in 1 .. Len(s) \/ (i - Len(s) \in 1 .. Len(t) /\ i = Len(s) + (i - Len(s)))
  BY <1>1, Joined
<1> HIDE DEF u
<1>3. \A i \in 1 .. Len(s) : IsAssign(u[i]) => u[i].lhs \in n .. n + k - 1
  BY <1>2 DEF Fresh
<1>4. \A i \in 1 .. Len(u) : i \notin 1 .. Len(s) /\ IsAssign(u[i]) => u[i].lhs \in n + k .. n + k + m - 1
  <2> SUFFICES ASSUME NEW i \in 1 .. Len(u), i \notin 1 .. Len(s), IsAssign(u[i])
               PROVE  u[i].lhs \in n + k .. n + k + m - 1
    OBVIOUS
  <2>1. i - Len(s) \in 1 .. Len(t) /\ u[i] = t[i - Len(s)]
    BY <1>2
  <2> QED
    BY <2>1 DEF Fresh
<1>5. \A i \in 1 .. Len(u) : IsAssign(u[i]) => u[i].lhs \in n .. n + (k + m) - 1
  BY <1>3, <1>4
<1>6. ASSUME NEW i \in 1 .. Len(u), NEW j \in 1 .. Len(u),
             IsAssign(u[i]), IsAssign(u[j]), u[i].lhs = u[j].lhs
      PROVE  i = j
  <2>1. CASE i \in 1 .. Len(s) /\ j \in 1 .. Len(s)
    BY <1>2, <1>6, <2>1 DEF Fresh
  <2>2. CASE i \notin 1 .. Len(s) /\ j \notin 1 .. Len(s)
    <3>1. /\ i - Len(s) \in 1 .. Len(t) /\ u[i] = t[i - Len(s)]
          /\ j - Len(s) \in 1 .. Len(t) /\ u[j] = t[j - Len(s)]
      BY <1>2, <2>2
    <3>2. i - Len(s) = j - Len(s)
      BY <1>6, <3>1 DEF Fresh
    <3> QED
      BY <1>2, <3>2
  <2>3. CASE i \in 1 .. Len(s) /\ j \notin 1 .. Len(s)
    BY <1>3, <1>4, <1>6, <2>3
  <2>4. CASE i \notin 1 .. Len(s) /\ j \in 1 .. Len(s)
    BY <1>3, <1>4, <1>6, <2>4
  <2> QED
    BY <2>1, <2>2, <2>3, <2>4
<1> QED
  BY <1>2, <1>5, <1>6 DEF Fresh, u

LEMMA FreshNothing ==
    ASSUME NEW n \in Nat
    PROVE  Fresh(<<>>, n, 0)
<1>1. <<>> \in Seq({})
  OBVIOUS
<1>2. Len(<<>>) = 0
  OBVIOUS
<1>3. IsSeq(<<>>)
  BY <1>1, Zenon DEF IsSeq
<1> QED
  BY <1>2, <1>3 DEF Fresh

LEMMA FreshOne ==
    ASSUME NEW s, NEW n \in Nat, IsAssign(s) => s.lhs = n
    PROVE  Fresh(<<s>>, n, 1)
<1> DEFINE u == <<s>>
<1>1. u \in Seq({s}) /\ Len(u) = 1 /\ u[1] = s
  OBVIOUS
<1>2. IsSeq(u)
  BY <1>1, Zenon DEF IsSeq
<1> HIDE DEF u
<1>3. \A i \in 1 .. Len(u) : i = 1
  BY <1>1
<1>4. \A i \in 1 .. Len(u) : IsAssign(u[i]) => u[i].lhs \in n .. n + 1 - 1
  BY <1>1, <1>3
<1>5. \A i, j \in 1 .. Len(u) : IsAssign(u[i]) /\ IsAssign(u[j]) /\ u[i].lhs = u[j].lhs => i = j
  BY <1>3
<1>6. Fresh(u, n, 1)
  BY <1>2, <1>4, <1>5 DEF Fresh
<1> QED
  BY <1>6 DEF u

LEMMA FreshNone ==
    ASSUME NEW s, NEW n \in Nat, ~IsAssign(s)
    PROVE  Fresh(<<s>>, n, 0)
<1> DEFINE u == <<s>>
<1>1. u \in Seq({s}) /\ Len(u) = 1 /\ u[1] = s
  OBVIOUS
<1>2. IsSeq(u)
  BY <1>1, Zenon DEF IsSeq
<1> HIDE DEF u
<1>3. \A i \in 1 .. Len(u) : ~IsAssign(u[i])
  BY <1>1
<1>4. Fresh(u, n, 0)
  BY <1>2, <1>3 DEF Fresh
<1> QED
  BY <1>4 DEF u

\* A sequence with one statement more.
LEMMA FreshAppend ==
    ASSUME NEW s, NEW t, NEW n \in Nat, NEW k \in Nat, Fresh(s, n, k)
    PROVE  /\ (IsAssign(t) => t.lhs = n + k) => Fresh(Append(s, t), n, k + 1)
           /\ ~IsAssign(t) => Fresh(Append(s, t), n, k)
<1>1. PICK S : s \in Seq(S)
  BY DEF Fresh, IsSeq
<1>2. s \in Seq(S \cup {t}) /\ t \in S \cup {t}
  BY <1>1
<1>3. Append(s, t) = s \o <<t>>
  BY <1>2
<1>4. ASSUME IsAssign(t) => t.lhs = n + k
      PROVE  Fresh(s \o <<t>>, n, k + 1)
  <2>1. Fresh(<<t>>, n + k, 1)
    BY <1>4, FreshOne
  <2> QED
    BY <2>1, FreshJoin
<1>5. ASSUME ~IsAssign(t)
      PROVE  Fresh(s \o <<t>>, n, k)
  <2>1. Fresh(<<t>>, n + k, 0)
    BY <1>5, FreshNone
  <2>2. Fresh(s \o <<t>>, n, k + 0)
    BY <2>1, FreshJoin
  <2> QED
    BY <2>2
<1> QED
  BY <1>3, <1>4, <1>5

LEMMA FreshTwo ==
    ASSUME NEW s, NEW t, NEW n \in Nat, IsAssign(s) => s.lhs = n
    PROVE  /\ (IsAssign(t) => t.lhs = n + 1) => Fresh(<<s, t>>, n, 2)
           /\ ~IsAssign(t) => Fresh(<<s, t>>, n, 1)
<1>1. Fresh(<<s>>, n, 1)
  BY FreshOne
<1>2. <<s, t>> = Append(<<s>>, t)
  OBVIOUS
<1>3. 1 + 1 = 2
  OBVIOUS
<1> QED
  BY <1>1, <1>2, <1>3, FreshAppend

LEMMA FreshThree ==
    ASSUME NEW s, NEW t, NEW u, NEW n \in Nat,
           IsAssign(s) => s.lhs = n, IsAssign(t) => t.lhs = n + 1, IsAssign(u) => u.lhs = n + 2
    PROVE  Fresh(<<s, t, u>>, n, 3)
<1>1. Fresh(<<s, t>>, n, 2)
  BY FreshTwo
<1>2. <<s, t, u>> = Append(<<s, t>>, u)
  OBVIOUS
<1>3. 2 + 1 = 3
  OBVIOUS
<1> QED
  BY <1>1, <1>2, <1>3, FreshAppend

-----------------------------------------------------------------------------
(* While blocks are lifted.                                                *)

AssignedAt(b, i) ==
    b \in 1 .. Len(blocks) /\ i \in 1 .. Len(blocks[b].stmts) /\ IsAssign(blocks[b].stmts[i])

IdAt(b, i) == blocks[b].stmts[i].lhs

Counting == nextId \in Nat /\ pc \in Int /\ IsSeq(blocks) /\ (pc >= 0 => Len(blocks) > 0)

BlockShape ==
    \A b \in 1 .. Len(blocks) :
        /\ IsSeq(blocks[b].stmts)
        /\ blocks[b] = [stmts |-> blocks[b].stmts, term |-> blocks[b].term]

Seeds == \A id \in DOMAIN names : id \in Nat /\ id < nextId

\* Ids given out so far, and to no register.
IdsGivenOut ==
    \A b, i : AssignedAt(b, i) =>
        IdAt(b, i) \in Nat /\ IdAt(b, i) < nextId /\ IdAt(b, i) \notin DOMAIN names

OnceEach ==
    \A b, i, c, j :
        AssignedAt(b, i) /\ AssignedAt(c, j) /\ IdAt(b, i) = IdAt(c, j) => b = c /\ i = j

LiftFacts == Counting /\ BlockShape /\ Seeds /\ IdsGivenOut /\ OnceEach

\* The statements of an instruction have ids not given out before.
LEMMA LiftedKeeps ==
    ASSUME NEW stmts, NEW set, NEW fresh \in Nat,
           LiftFacts, pc >= 0, Fresh(stmts, nextId, fresh), Lifted(stmts, set, fresh)
    PROVE  LiftFacts'
<1> DEFINE n == Len(blocks)
           old == blocks[n].stmts
           new == old \o stmts
<1>1. n \in Nat /\ n > 0 /\ n \in 1 .. n
  <2>1. PICK S : blocks \in Seq(S)
    BY DEF LiftFacts, Counting, IsSeq
  <2> QED
    BY <2>1 DEF LiftFacts, Counting
<1>2. IsSeq(old) /\ IsSeq(stmts) /\ blocks[n] = [stmts |-> old, term |-> blocks[n].term]
  BY <1>1 DEF LiftFacts, BlockShape, Fresh
<1>3. /\ IsSeq(new)
      /\ Len(old) \in Nat /\ Len(stmts) \in Nat /\ Len(new) = Len(old) + Len(stmts)
      /\ \A i \in 1 .. Len(old) : new[i] = old[i]
      /\ \A i \in 1 .. Len(stmts) : new[Len(old) + i] = stmts[i]
      /\ \A i \in 1 .. Len(new) :
           i \in 1 .. Len(old) \/ (i - Len(old) \in 1 .. Len(stmts) /\ i = Len(old) + (i - Len(old)))
  BY <1>2, Joined
<1>4. /\ IsSeq(blocks') /\ Len(blocks') = n
      /\ \A b \in 1 .. n : b # n => blocks'[b] = blocks[b]
      /\ blocks'[n] = [stmts |-> new, term |-> blocks[n].term]
  <2> DEFINE rec == [stmts |-> new, term |-> blocks[n].term]
  <2>1. PICK S : blocks \in Seq(S)
    BY DEF LiftFacts, Counting, IsSeq
  <2>2. blocks' = [blocks EXCEPT ![n] = rec]
    BY <1>1, <1>2 DEF Lifted, at
  <2> HIDE DEF rec
  <2>3. blocks' \in Seq(S \cup {rec}) /\ Len(blocks') = n
    BY <2>1, <2>2, <1>1
  <2>4. blocks'[n] = rec /\ \A b \in 1 .. n : b # n => blocks'[b] = blocks[b]
    BY <2>1, <2>2, <1>1
  <2> QED
    BY <2>3, <2>4, Zenon DEF IsSeq, rec
<1>5. nextId' = nextId + fresh /\ pc' = pc + 1 /\ names' = names /\ nextId \in Nat /\ pc \in Int
  BY DEF Lifted, LiftFacts, Counting
<1> HIDE DEF n, old, new
<1>6. Counting'
  BY <1>1, <1>4, <1>5 DEF Counting
<1>7. BlockShape'
  <2> SUFFICES ASSUME NEW b \in 1 .. n
               PROVE  /\ IsSeq(blocks'[b].stmts)
                      /\ blocks'[b] = [stmts |-> blocks'[b].stmts, term |-> blocks'[b].term]
    BY <1>4 DEF BlockShape
  <2>1. CASE b = n
    BY <2>1, <1>4, <1>3
  <2>2. CASE b # n
    BY <2>2, <1>4 DEF LiftFacts, BlockShape, n
  <2> QED
    BY <2>1, <2>2
<1>8. Seeds'
  BY <1>5 DEF Seeds, LiftFacts
\* A statement is one of before, or one of the new ones.
<1>9. ASSUME NEW b, NEW i, AssignedAt(b, i)'
      PROVE  \/ AssignedAt(b, i) /\ IdAt(b, i)' = IdAt(b, i)
             \/ /\ b = n /\ i - Len(old) \in 1 .. Len(stmts) /\ i = Len(old) + (i - Len(old))
                /\ IsAssign(stmts[i - Len(old)])
                /\ IdAt(b, i)' = stmts[i - Len(old)].lhs
  <2>0. b \in 1 .. n /\ i \in 1 .. Len(blocks'[b].stmts) /\ IsAssign(blocks'[b].stmts[i])
    BY <1>9, <1>4 DEF AssignedAt
  <2>1. CASE b # n
    BY <2>0, <2>1, <1>4 DEF AssignedAt, IdAt, n
  <2>2. CASE b = n /\ i \in 1 .. Len(old)
    <3>1. blocks'[b].stmts[i] = old[i]
      BY <2>2, <1>3, <1>4
    <3>2. AssignedAt(b, i)
      BY <2>0, <2>2, <3>1 DEF AssignedAt, n, old
    <3> QED
      BY <2>2, <3>1, <3>2 DEF IdAt, n, old
  <2>3. CASE b = n /\ i \notin 1 .. Len(old)
    <3>1. i \in 1 .. Len(new) /\ blocks'[b].stmts = new
      BY <2>0, <2>3, <1>4
    <3>2. i - Len(old) \in 1 .. Len(stmts) /\ i = Len(old) + (i - Len(old))
      BY <2>3, <3>1, <1>3
    <3>3. new[i] = stmts[i - Len(old)]
      BY <3>2, <1>3
    <3> QED
      BY <2>0, <2>3, <3>1, <3>2, <3>3 DEF IdAt
  <2> QED
    BY <2>1, <2>2, <2>3
<1>10. ASSUME NEW i \in 1 .. Len(stmts), IsAssign(stmts[i])
       PROVE  stmts[i].lhs \in Nat /\ nextId <= stmts[i].lhs /\ stmts[i].lhs < nextId'
  BY <1>5, <1>10 DEF Fresh
<1>11. \A b, i : AssignedAt(b, i) => IdAt(b, i) \in Nat /\ IdAt(b, i) < nextId /\ IdAt(b, i) \notin DOMAIN names
  BY DEF LiftFacts, IdsGivenOut
<1>12. \A id \in DOMAIN names : id < nextId
  BY DEF LiftFacts, Seeds
<1>13. IdsGivenOut'
  <2> SUFFICES ASSUME NEW b, NEW i, AssignedAt(b, i)'
               PROVE  (IdAt(b, i) \in Nat /\ IdAt(b, i) < nextId /\ IdAt(b, i) \notin DOMAIN names)'
    BY DEF IdsGivenOut
  <2>1. CASE AssignedAt(b, i) /\ IdAt(b, i)' = IdAt(b, i)
    BY <2>1, <1>11, <1>5
  <2>2. CASE /\ i - Len(old) \in 1 .. Len(stmts) /\ IsAssign(stmts[i - Len(old)])
             /\ IdAt(b, i)' = stmts[i - Len(old)].lhs
    BY <2>2, <1>10, <1>12, <1>5
  <2> QED
    BY <1>9, <2>1, <2>2
<1>14. OnceEach'
  <2> SUFFICES ASSUME NEW b, NEW i, NEW c, NEW j, AssignedAt(b, i)', AssignedAt(c, j)',
                      IdAt(b, i)' = IdAt(c, j)'
               PROVE  b = c /\ i = j
    BY DEF OnceEach
  <2> DEFINE Old(x, y) == AssignedAt(x, y) /\ IdAt(x, y)' = IdAt(x, y)
             New(x, y) == /\ x = n /\ y - Len(old) \in 1 .. Len(stmts) /\ y = Len(old) + (y - Len(old))
                          /\ IsAssign(stmts[y - Len(old)])
                          /\ IdAt(x, y)' = stmts[y - Len(old)].lhs
  <2>1. (Old(b, i) \/ New(b, i)) /\ (Old(c, j) \/ New(c, j))
    BY <1>9
  <2>2. CASE Old(b, i) /\ Old(c, j)
    BY <2>2 DEF LiftFacts, OnceEach
  <2>3. CASE Old(b, i) /\ New(c, j)
    <3>1. nextId <= stmts[j - Len(old)].lhs /\ stmts[j - Len(old)].lhs = IdAt(b, i)
      BY <2>3, <1>10
    <3>2. IdAt(b, i) \in Nat /\ IdAt(b, i) < nextId
      BY <2>3, <1>11
    <3> QED
      BY <3>1, <3>2, <1>5
  <2>4. CASE New(b, i) /\ Old(c, j)
    BY <2>4, <1>10, <1>11, <1>5
  <2>5. CASE New(b, i) /\ New(c, j)
    <3>1. i - Len(old) = j - Len(old)
      BY <2>5 DEF Fresh
    <3> QED
      BY <3>1, <2>5
  <2> QED
    BY <2>1, <2>2, <2>3, <2>4, <2>5
<1> QED
  BY <1>6, <1>7, <1>8, <1>13, <1>14 DEF LiftFacts

-----------------------------------------------------------------------------
(* Each instruction.                                                       *)

LEMMA AssignIs ==
    /\ \A l, op, a : IsAssign(Assign(l, op, a)) /\ Assign(l, op, a).lhs = l
    /\ \A l, t, a : IsAssign(CallTo(l, t, a)) /\ CallTo(l, t, a).lhs = l
    /\ \A q, v : ~IsAssign(Store(q, v))
BY DEF IsAssign, Assign, CallTo, Store

\* Statements with ids in a row, one more under the next id.
OwnIds(stmts) == Len(stmts) \in Nat /\ Fresh(stmts, nextId, Len(stmts))

LEMMA ThenKeeps ==
    ASSUME NEW stmts, NEW op, NEW args, nextId \in Nat, OwnIds(stmts)
    PROVE  OwnIds(Then(stmts, op, args))
<1> DEFINE t == Assign(nextId + Len(stmts), op, args)
<1>1. t.lhs = nextId + Len(stmts)
  BY AssignIs
<1> HIDE DEF t
<1>2. Then(stmts, op, args) = Append(stmts, t)
  BY DEF Then, t
<1>3. Fresh(Append(stmts, t), nextId, Len(stmts) + 1)
  BY <1>1, FreshAppend DEF OwnIds
<1>4. PICK S : stmts \in Seq(S)
  BY DEF OwnIds, Fresh, IsSeq
<1>5. stmts \in Seq(S \cup {t}) /\ t \in S \cup {t}
  BY <1>4
<1>6. Len(Append(stmts, t)) = Len(stmts) + 1
  BY <1>5
<1> QED
  BY <1>2, <1>3, <1>6 DEF OwnIds

\* emit_addr: whatever a pointer is made of.
LEMMA AddressIs ==
    ASSUME nextId \in Nat
    PROVE  Len(Address) \in Nat /\ Fresh(Address, nextId, Len(Address))
<1>1. OwnIds(<<>>)
  BY FreshNothing DEF OwnIds
<1>2. OwnIds(Scaled)
  BY <1>1, ThenKeeps, Zenon DEF Scaled
<1>3. OwnIds(Indexed)
  BY <1>1, <1>2, ThenKeeps, Zenon DEF Indexed
<1>4. OwnIds(Displaced)
  BY <1>3, ThenKeeps, Zenon DEF Displaced
<1> QED
  BY <1>4, ThenKeeps, Zenon DEF Address, OwnIds

LEMMA MovedKeeps ==
    ASSUME NEW before, NEW k \in Nat, NEW op, NEW args, NEW id, id = nextId + k,
           LiftFacts, pc >= 0, Fresh(before, nextId, k),
           Moved(before, Assign(id, op, args), id)
    PROVE  LiftFacts'
<1> DEFINE value == Assign(id, op, args)
           cast == Assign(id + 1, "Cast", <<V(id)>>)
<1>1. nextId \in Nat /\ id \in Nat
  BY DEF LiftFacts, Counting
<1>2. value.lhs = id /\ cast.lhs = id + 1
  BY AssignIs
<1> HIDE DEF value, cast
<1>3. Fresh(before \o <<value, cast>>, nextId, k + 2)
  <2>1. Fresh(<<value, cast>>, nextId + k, 2)
    BY <1>1, <1>2, FreshTwo
  <2> QED
    BY <1>1, <2>1, FreshJoin
<1>4. Fresh(Append(before, value), nextId, k + 1)
  BY <1>1, <1>2, FreshAppend
<1>5. id + 2 - nextId = k + 2 /\ id + 1 - nextId = k + 1 /\ k + 2 \in Nat /\ k + 1 \in Nat
  BY <1>1
<1>6. CASE Narrow(insn.dst)
  <2>1. \E set : Lifted(before \o <<value, cast>>, set, k + 2)
    BY <1>5, <1>6, Zenon DEF Moved, value, cast
  <2> QED
    BY <2>1, <1>3, <1>5, LiftedKeeps
<1>7. CASE ~Narrow(insn.dst)
  <2>1. \E set : Lifted(Append(before, value), set, k + 1)
    BY <1>5, <1>7, Zenon DEF Moved, value
  <2> QED
    BY <2>1, <1>4, <1>5, LiftedKeeps
<1> QED
  BY <1>6, <1>7

LEMMA SeedsKeep == LiftFacts /\ LiftAssumption /\ SeedBlock => LiftFacts'
<1> SUFFICES ASSUME LiftFacts, LiftAssumption, SeedBlock
             PROVE  LiftFacts'
  OBVIOUS
<1> DEFINE n == Len(blocks)
           rec == [stmts |-> <<>>, term |-> Term("Unreachable", C(0), <<>>)]
           k == Len(AbiRegs)
<1>1. blocks' = Append(blocks, rec) /\ nextId' = nextId + k /\ pc' = 0 /\ nextId \in Nat
  BY DEF SeedBlock, LiftFacts, Counting
<1>2. k \in Nat
  BY DEF LiftAssumption
<1>3. rec = [stmts |-> rec.stmts, term |-> rec.term] /\ rec.stmts = <<>> /\ Len(rec.stmts) = 0
  OBVIOUS
<1>4. IsSeq(rec.stmts)
  <2>1. <<>> \in Seq({})
    OBVIOUS
  <2> QED
    BY <1>3, <2>1, Zenon DEF IsSeq
<1> HIDE DEF rec
<1>5. /\ IsSeq(blocks') /\ n \in Nat /\ Len(blocks') = n + 1 /\ blocks'[n + 1] = rec
      /\ \A b \in 1 .. n : blocks'[b] = blocks[b]
  <2>1. PICK S : blocks \in Seq(S)
    BY DEF LiftFacts, Counting, IsSeq
  <2>2. blocks \in Seq(S \cup {rec}) /\ rec \in S \cup {rec}
    BY <2>1
  <2>3. blocks' \in Seq(S \cup {rec})
    BY <1>1, <2>2
  <2>4. IsSeq(blocks')
    BY <2>3, Zenon DEF IsSeq
  <2> QED
    BY <1>1, <2>1, <2>2, <2>4
<1>6. \A id \in DOMAIN names' : id \in DOMAIN names \/ (id \in Nat /\ nextId <= id /\ id < nextId + k)
  <2> DEFINE ids == {SeedAt(i) : i \in 1 .. k}
  <2>1. DOMAIN names' = DOMAIN names \cup ids
    BY DEF SeedBlock
  <2>2. \A id \in ids : id \in Nat /\ nextId <= id /\ id < nextId + k
    BY <1>1, <1>2 DEF SeedAt
  <2> HIDE DEF ids
  <2> QED
    BY <2>1, <2>2
<1> HIDE DEF n, k
<1>7. Counting'
  BY <1>1, <1>2, <1>5 DEF Counting, n
<1>8. BlockShape'
  <2> SUFFICES ASSUME NEW b \in 1 .. n + 1
               PROVE  /\ IsSeq(blocks'[b].stmts)
                      /\ blocks'[b] = [stmts |-> blocks'[b].stmts, term |-> blocks'[b].term]
    BY <1>5 DEF BlockShape
  <2>1. CASE b = n + 1
    BY <2>1, <1>3, <1>4, <1>5
  <2>2. CASE b # n + 1
    <3>1. b \in 1 .. n
      BY <1>5, <2>2
    <3> QED
      BY <3>1, <1>5 DEF LiftFacts, BlockShape, n
  <2> QED
    BY <2>1, <2>2
<1>9. Seeds'
  BY <1>1, <1>2, <1>6 DEF LiftFacts, Seeds
<1>10. ASSUME NEW b, NEW i, AssignedAt(b, i)'
       PROVE  AssignedAt(b, i) /\ IdAt(b, i)' = IdAt(b, i)
  <2>1. b \in 1 .. n + 1
    BY <1>5, <1>10 DEF AssignedAt
  <2>2. b # n + 1
    BY <1>3, <1>5, <1>10 DEF AssignedAt
  <2>3. b \in 1 .. n /\ blocks'[b] = blocks[b]
    BY <1>5, <2>1, <2>2
  <2> QED
    BY <1>10, <2>3 DEF AssignedAt, IdAt, n
<1>11. IdsGivenOut'
  <2> SUFFICES ASSUME NEW b, NEW i, AssignedAt(b, i)'
               PROVE  (IdAt(b, i) \in Nat /\ IdAt(b, i) < nextId /\ IdAt(b, i) \notin DOMAIN names)'
    BY DEF IdsGivenOut
  <2>1. IdAt(b, i) \in Nat /\ IdAt(b, i) < nextId /\ IdAt(b, i) \notin DOMAIN names
    BY <1>10 DEF LiftFacts, IdsGivenOut
  <2> QED
    BY <1>1, <1>2, <1>6, <1>10, <2>1
<1>12. OnceEach'
  BY <1>10 DEF LiftFacts, OnceEach
<1> QED
  BY <1>7, <1>8, <1>9, <1>11, <1>12 DEF LiftFacts

LEMMA EndKeeps == LiftFacts /\ EndBlock => LiftFacts'
<1> SUFFICES ASSUME LiftFacts, EndBlock
             PROVE  LiftFacts'
  OBVIOUS
<1> DEFINE n == Len(blocks)
<1>1. PICK S : blocks \in Seq(S)
  BY DEF LiftFacts, Counting, IsSeq
<1>2. n \in Nat /\ n > 0 /\ n \in 1 .. n
  BY <1>1 DEF LiftFacts, Counting, EndBlock
<1>3. PICK rec : blocks' = [blocks EXCEPT ![n] = rec] /\ rec.stmts = blocks[n].stmts
                 /\ rec = [stmts |-> rec.stmts, term |-> rec.term]
  <2> DEFINE end == prog[at].end
             t == Term(end, IF end = "Return" THEN R("rax") ELSE C(0), prog[at].to)
             r == [stmts |-> blocks[n].stmts, term |-> t]
  <2>1. blocks' = [blocks EXCEPT ![n] = r]
    BY DEF EndBlock, at
  <2>2. r.stmts = blocks[n].stmts /\ r = [stmts |-> r.stmts, term |-> r.term]
    OBVIOUS
  <2> HIDE DEF r
  <2> QED
    BY <2>1, <2>2
<1>4. /\ blocks' \in Seq(S \cup {rec}) /\ Len(blocks') = n
      /\ blocks'[n] = rec /\ \A b \in 1 .. n : b # n => blocks'[b] = blocks[b]
  BY <1>1, <1>2, <1>3
<1>5. nextId' = nextId /\ names' = names /\ pc' = -1
  BY DEF EndBlock
<1>6. Counting'
  <2>1. IsSeq(blocks')
    BY <1>4, Zenon DEF IsSeq
  <2> QED
    BY <1>5, <2>1 DEF Counting, LiftFacts
<1> HIDE DEF n
<1>7. \A b \in 1 .. n : blocks'[b].stmts = blocks[b].stmts
  BY <1>3, <1>4
<1>8. BlockShape'
  BY <1>2, <1>3, <1>4, <1>7 DEF LiftFacts, BlockShape, n
<1>9. Seeds'
  BY <1>5 DEF LiftFacts, Seeds
<1>10. \A b, i : AssignedAt(b, i)' => AssignedAt(b, i) /\ IdAt(b, i)' = IdAt(b, i)
  BY <1>4, <1>7 DEF AssignedAt, IdAt, n
<1>11. IdsGivenOut'
  BY <1>5, <1>10 DEF LiftFacts, IdsGivenOut
<1>12. OnceEach'
  BY <1>10 DEF LiftFacts, OnceEach
<1> QED
  BY <1>6, <1>8, <1>9, <1>11, <1>12 DEF LiftFacts

LEMMA LiftKeeps == LiftFacts /\ LiftAssumption /\ LiftNext => LiftFacts'
<1> SUFFICES ASSUME LiftFacts, LiftAssumption, LiftNext
             PROVE  LiftFacts'
  OBVIOUS
<1>1. nextId \in Nat
  BY DEF LiftFacts, Counting
<1>2. CASE SeedBlock
  BY <1>2, SeedsKeep
<1>3. CASE EndBlock
  BY <1>3, EndKeeps
<1>4. \A ops : Ready(ops) => pc >= 0
  BY DEF Ready
<1>5. CASE LiftMov
  <2>1. pc >= 0 /\ \E op : Moved(<<>>, Assign(nextId, op, <<Operand>>), nextId)
    BY <1>5, <1>4, Zenon DEF LiftMov
  <2>2. nextId = nextId + 0 /\ Fresh(<<>>, nextId, 0)
    BY <1>1, FreshNothing
  <2> QED
    BY <2>1, <2>2, MovedKeeps
<1>6. Len(Address) \in Nat /\ Pointer + 1 = nextId + Len(Address) /\ Fresh(Address, nextId, Len(Address))
  BY <1>1, AddressIs DEF Pointer
<1>7. CASE LiftStore
  <2> DEFINE s == Store(V(Pointer), Operand)
  <2>1. pc >= 0 /\ Lifted(Append(Address, s), <<>>, Len(Address))
    BY <1>7, <1>4, Zenon DEF LiftStore
  <2>2. ~IsAssign(s)
    BY AssignIs
  <2> HIDE DEF s
  <2>3. Fresh(Append(Address, s), nextId, Len(Address))
    BY <1>1, <1>6, <2>2, FreshAppend
  <2> QED
    BY <2>1, <2>3, <1>6, LiftedKeeps
<1>8. CASE LiftLoad
  <2>1. pc >= 0 /\ Moved(Address, Assign(Pointer + 1, "Load", <<V(Pointer)>>), Pointer + 1)
    BY <1>8, <1>4, Zenon DEF LiftLoad
  <2> QED
    BY <2>1, <1>6, MovedKeeps
<1>9. CASE LiftLea
  <2> DEFINE s == Assign(Pointer + 1, "Cast", <<V(Pointer)>>)
  <2>1. pc >= 0 /\ \E set : Lifted(Append(Address, s), set, Len(Address) + 1)
    BY <1>9, <1>4, Zenon DEF LiftLea
  <2>2. s.lhs = nextId + Len(Address)
    BY AssignIs, <1>6
  <2> HIDE DEF s
  <2>3. Fresh(Append(Address, s), nextId, Len(Address) + 1) /\ Len(Address) + 1 \in Nat
    BY <1>1, <1>6, <2>2, FreshAppend
  <2> QED
    BY <2>1, <2>3, LiftedKeeps
<1>10. CASE LiftBinop
  <2> DEFINE s(op) == Assign(nextId, op, <<R(insn.dst), Operand>>)
             t == Assign(nextId + 1, "Eq", <<V(nextId), C(0)>>)
  <2>1. pc >= 0 /\ \E op, set : Lifted(<<s(op), t>>, set, 2)
    BY <1>10, <1>4, Zenon DEF LiftBinop
  <2>2. t.lhs = nextId + 1 /\ \A op : s(op).lhs = nextId
    BY AssignIs
  <2> HIDE DEF s, t
  <2>3. \A op : Fresh(<<s(op), t>>, nextId, 2)
    BY <1>1, <2>2, FreshTwo
  <2> QED
    BY <2>1, <2>3, LiftedKeeps
<1>11. CASE LiftZero
  <2> DEFINE s == Assign(nextId, "Value", <<C(0)>>)
  <2>1. pc >= 0 /\ \E set : Lifted(<<s>>, set, 1)
    BY <1>11, <1>4, Zenon DEF LiftZero
  <2>2. s.lhs = nextId
    BY AssignIs
  <2> HIDE DEF s
  <2>3. Fresh(<<s>>, nextId, 1)
    BY <1>1, <2>2, FreshOne
  <2> QED
    BY <2>1, <2>3, LiftedKeeps
<1>12. CASE LiftBinopMem
  <2> DEFINE s == Assign(nextId, "Add", <<V(NoLoad), Operand>>)
             t == Assign(nextId + 1, "Eq", <<V(nextId), C(0)>>)
  <2>1. pc >= 0 /\ Lifted(<<s, t>>, <<>>, 2)
    BY <1>12, <1>4, Zenon DEF LiftBinopMem
  <2>2. t.lhs = nextId + 1 /\ s.lhs = nextId
    BY AssignIs
  <2> HIDE DEF s, t
  <2>3. Fresh(<<s, t>>, nextId, 2)
    BY <1>1, <2>2, FreshTwo
  <2> QED
    BY <2>1, <2>3, LiftedKeeps
<1>13. CASE LiftPush
  <2> DEFINE s == Assign(nextId, "Sub", <<R("rsp"), C(8)>>)
             t == Store(V(nextId), Operand)
  <2>1. pc >= 0 /\ \E set : Lifted(<<s, t>>, set, 1)
    BY <1>13, <1>4, Zenon DEF LiftPush
  <2>2. s.lhs = nextId /\ ~IsAssign(t)
    BY AssignIs
  <2> HIDE DEF s, t
  <2>3. Fresh(<<s, t>>, nextId, 1)
    BY <1>1, <2>2, FreshTwo
  <2> QED
    BY <2>1, <2>3, LiftedKeeps
<1>14. CASE LiftPop
  <2> DEFINE s == Assign(nextId, "Load", <<R("rsp")>>)
             t == Assign(nextId + 1, "Add", <<PoppedRsp(insn.dst, nextId), C(8)>>)
  <2>1. pc >= 0 /\ \E set : Lifted(<<s, t>>, set, 2)
    BY <1>14, <1>4, Zenon DEF LiftPop
  <2>2. t.lhs = nextId + 1 /\ s.lhs = nextId
    BY AssignIs
  <2> HIDE DEF s, t
  <2>3. Fresh(<<s, t>>, nextId, 2)
    BY <1>1, <2>2, FreshTwo
  <2> QED
    BY <2>1, <2>3, LiftedKeeps
<1>15. CASE LiftLeave
  <2> DEFINE s == Assign(nextId, "Value", <<R("rbp")>>)
             t == Assign(nextId + 1, "Load", <<V(nextId)>>)
             u == Assign(nextId + 2, "Add", <<V(nextId), C(8)>>)
  <2>1. pc >= 0 /\ \E set : Lifted(<<s, t, u>>, set, 3)
    BY <1>15, <1>4, Zenon DEF LiftLeave
  <2>2. u.lhs = nextId + 2 /\ t.lhs = nextId + 1 /\ s.lhs = nextId
    BY AssignIs
  <2> HIDE DEF s, t, u
  <2>3. Fresh(<<s, t, u>>, nextId, 3)
    BY <1>1, <2>2, FreshThree
  <2> QED
    BY <2>1, <2>3, LiftedKeeps
<1>16. CASE LiftCall
  <2> DEFINE s == CallTo(nextId, Target, [i \in 1 .. Len(ArgRegs) |-> R(ArgRegs[i])])
  <2>1. pc >= 0 /\ \E set : Lifted(<<s>>, set, 1)
    BY <1>16, <1>4, Zenon DEF LiftCall
  <2>2. s.lhs = nextId
    BY AssignIs
  <2> HIDE DEF s
  <2>3. Fresh(<<s>>, nextId, 1)
    BY <1>1, <2>2, FreshOne
  <2> QED
    BY <2>1, <2>3, LiftedKeeps
<1>17. CASE LiftMovsx
  <2>1. pc >= 0 /\ Moved(<<>>, Assign(nextId, "Cast", <<Operand>>), nextId)
    BY <1>17, <1>4, Zenon DEF LiftMovsx
  <2>2. nextId = nextId + 0 /\ Fresh(<<>>, nextId, 0)
    BY <1>1, FreshNothing
  <2> QED
    BY <2>1, <2>2, MovedKeeps
<1>18. CASE LiftUnary
  <2> DEFINE dst == R(insn.dst)
             s == CASE insn.op = "neg" -> Assign(nextId, "Sub", <<C(0), dst>>)
                    [] insn.op = "not" -> Assign(nextId, "Not", <<dst>>)
                    [] OTHER -> Assign(nextId, BinOp[insn.op], <<dst, C(1)>>)
  <2>1. pc >= 0 /\ \E set : Lifted(<<s>>, set, 1)
    BY <1>18, <1>4, Zenon DEF LiftUnary
  <2>2. s.lhs = nextId
    BY AssignIs
  <2> HIDE DEF s
  <2>3. Fresh(<<s>>, nextId, 1)
    BY <1>1, <2>2, FreshOne
  <2> QED
    BY <2>1, <2>3, LiftedKeeps
<1>19. CASE LiftDiv
  <2> DEFINE s == Assign(nextId, "UDiv", <<R("rax"), Operand>>)
             t == Assign(nextId + 1, "URem", <<R("rax"), Operand>>)
  <2>1. pc >= 0 /\ \E set : Lifted(<<s, t>>, set, 2)
    BY <1>19, <1>4, Zenon DEF LiftDiv
  <2>2. t.lhs = nextId + 1 /\ s.lhs = nextId
    BY AssignIs
  <2> HIDE DEF s, t
  <2>3. Fresh(<<s, t>>, nextId, 2)
    BY <1>1, <2>2, FreshTwo
  <2> QED
    BY <2>1, <2>3, LiftedKeeps
<1>20. CASE LiftXchg
  <2> DEFINE s == Assign(nextId, "Value", <<Operand>>)
             t == Store(Operand, R(insn.dst))
             u == Store(R(insn.dst), V(nextId))
  <2>1. pc >= 0 /\ Lifted(<<s, t, u>>, <<>>, 1)
    BY <1>20, <1>4, Zenon DEF LiftXchg
  <2>2. s.lhs = nextId /\ ~IsAssign(t) /\ ~IsAssign(u)
    BY AssignIs
  <2> HIDE DEF s, t, u
  <2>3. Fresh(<<s, t>>, nextId, 1)
    BY <1>1, <2>2, FreshTwo
  <2>4. <<s, t, u>> = Append(<<s, t>>, u)
    OBVIOUS
  <2>5. Fresh(<<s, t, u>>, nextId, 1)
    BY <1>1, <2>2, <2>3, <2>4, FreshAppend
  <2> QED
    BY <2>1, <2>5, LiftedKeeps
<1>21. CASE LiftSyscall
  <2> DEFINE s == CallTo(nextId, ToKernel, [i \in 1 .. Len(SysRegs) |-> R(SysRegs[i])])
  <2>1. pc >= 0 /\ \E set : Lifted(<<s>>, set, 1)
    BY <1>21, <1>4, Zenon DEF LiftSyscall
  <2>2. s.lhs = nextId
    BY AssignIs
  <2> HIDE DEF s
  <2>3. Fresh(<<s>>, nextId, 1)
    BY <1>1, <2>2, FreshOne
  <2> QED
    BY <2>1, <2>3, LiftedKeeps
<1>22. CASE LiftNop
  <2>1. pc >= 0 /\ Lifted(<<Nop>>, <<>>, 0)
    BY <1>22, <1>4, Zenon DEF LiftNop
  <2>2. Fresh(<<Nop>>, nextId, 0)
    BY <1>1, FreshNone DEF Nop, IsAssign
  <2> QED
    BY <2>1, <2>2, LiftedKeeps
<1>23. CASE LiftOpaque
  <2> DEFINE s == Assign(nextId, "Opaque", <<>>)
  <2>1. pc >= 0 /\ Lifted(<<s>>, <<>>, 1)
    BY <1>23, <1>4, Zenon DEF LiftOpaque
  <2>2. s.lhs = nextId
    BY AssignIs
  <2> HIDE DEF s
  <2>3. Fresh(<<s>>, nextId, 1)
    BY <1>1, <2>2, FreshOne
  <2> QED
    BY <2>1, <2>3, LiftedKeeps
<1>24. CASE LiftLeaRip
  <2> DEFINE s == Assign(nextId, "Value", <<C(insn.val)>>)
  <2>1. pc >= 0 /\ \E set : Lifted(<<s>>, set, 1)
    BY <1>24, <1>4, Zenon DEF LiftLeaRip
  <2>2. s.lhs = nextId
    BY AssignIs
  <2> HIDE DEF s
  <2>3. Fresh(<<s>>, nextId, 1)
    BY <1>1, <2>2, FreshOne
  <2> QED
    BY <2>1, <2>3, LiftedKeeps
<1> QED
  BY <1>2, <1>3, <1>5, <1>7, <1>8, <1>9, <1>10, <1>11, <1>12, <1>13, <1>14, <1>15, <1>16,
     <1>17, <1>18, <1>19, <1>20, <1>21, <1>22, <1>23, <1>24 DEF LiftNext

-----------------------------------------------------------------------------
(* What statements read.                                                   *)

IsStmt(s) ==
    /\ s = [kind |-> s.kind, lhs |-> s.lhs, op |-> s.op, args |-> s.args, target |-> s.target]
    /\ IsSeq(s.args)

Computes(s, id) == IsAssign(s) /\ s.lhs = id

\* Each statement of s depends on ids of K and what earlier ones computed.
Sound(s, K) ==
    /\ IsSeq(s)
    /\ \A i \in 1 .. Len(s) : IsStmt(s[i])
    /\ \A i \in 1 .. Len(s) : \A id \in DependsOn(s[i]) :
            id \in K \/ \E j \in 1 .. i - 1 : Computes(s[j], id)

\* What can be read after s, and what one statement adds to it.
AtEnd(s, K) == K \cup {s[i].lhs : i \in {j \in 1 .. Len(s) : IsAssign(s[j])}}

Adds(s) == IF IsAssign(s) THEN {s.lhs} ELSE {}

AtHand(v, K) == v.var => v.n \in K

ReadsOnly(s, K) == IsStmt(s) /\ DependsOn(s) \subseteq K

LEMMA AtEndIs ==
    ASSUME NEW s, NEW K, NEW id
    PROVE  id \in AtEnd(s, K) <=> id \in K \/ \E j \in 1 .. Len(s) : Computes(s[j], id)
BY DEF AtEnd, Computes

LEMMA AddsIs ==
    ASSUME NEW s, NEW id
    PROVE  id \in Adds(s) <=> Computes(s, id)
BY DEF Adds, Computes

LEMMA SoundNothing ==
    ASSUME NEW K
    PROVE  Sound(<<>>, K) /\ AtEnd(<<>>, K) = K
<1>1. IsSeq(<<>>)
  BY FreshNothing DEF Fresh
<1>2. Len(<<>>) = 0
  OBVIOUS
<1> QED
  BY <1>1, <1>2 DEF Sound, AtEnd

LEMMA SoundJoin ==
    ASSUME NEW s, NEW t, NEW K, Sound(s, K), Sound(t, AtEnd(s, K))
    PROVE  Sound(s \o t, K) /\ AtEnd(s \o t, K) = AtEnd(t, AtEnd(s, K))
<1> DEFINE u == s \o t
<1>1. IsSeq(s) /\ IsSeq(t)
  BY DEF Sound
<1>2. /\ IsSeq(u)
      /\ Len(s) \in Nat /\ Len(t) \in Nat /\ Len(u) = Len(s) + Len(t)
      /\ \A i \in 1 .. Len(s) : u[i] = s[i]
      /\ \A i \in 1 .. Len(t) : u[Len(s) + i] = t[i]
      /\ \A i \in 1 .. Len(u) :
           i \in 1 .. Len(s) \/ (i - Len(s) \in 1 .. Len(t) /\ i = Len(s) + (i - Len(s)))
  BY <1>1, Joined
<1> HIDE DEF u
<1>3. \A i \in 1 .. Len(u) : IsStmt(u[i])
  <2> TAKE i \in 1 .. Len(u)
  <2>1. CASE i \in 1 .. Len(s)
    BY <2>1, <1>2 DEF Sound
  <2>2. CASE i - Len(s) \in 1 .. Len(t) /\ i = Len(s) + (i - Len(s))
    <3>1. u[i] = t[i - Len(s)]
      BY <2>2, <1>2
    <3> QED
      BY <2>2, <3>1 DEF Sound
  <2> QED
    BY <2>1, <2>2, <1>2
<1>4. ASSUME NEW i \in 1 .. Len(u), NEW id \in DependsOn(u[i])
      PROVE  id \in K \/ \E j \in 1 .. i - 1 : Computes(u[j], id)
  <2>1. CASE i \in 1 .. Len(s)
    <3>1. id \in K \/ \E j \in 1 .. i - 1 : Computes(s[j], id)
      BY <2>1, <1>2, <1>4 DEF Sound
    <3>2. \A j \in 1 .. i - 1 : u[j] = s[j]
      BY <2>1, <1>2
    <3> QED
      BY <3>1, <3>2
  <2>2. CASE i - Len(s) \in 1 .. Len(t) /\ i = Len(s) + (i - Len(s))
    <3> DEFINE k == i - Len(s)
    <3>1. u[i] = t[k] /\ k \in 1 .. Len(t)
      BY <2>2, <1>2
    <3>2. id \in AtEnd(s, K) \/ \E j \in 1 .. k - 1 : Computes(t[j], id)
      BY <3>1, <1>4 DEF Sound
    <3>3. CASE id \in K
      BY <3>3
    <3>4. CASE \E j \in 1 .. Len(s) : Computes(s[j], id)
      <4>1. PICK j \in 1 .. Len(s) : Computes(s[j], id)
        BY <3>4
      <4>2. j \in 1 .. i - 1 /\ u[j] = s[j]
        BY <4>1, <2>2, <1>2
      <4> QED
        BY <4>1, <4>2
    <3>5. CASE \E j \in 1 .. k - 1 : Computes(t[j], id)
      <4>1. PICK j \in 1 .. k - 1 : Computes(t[j], id)
        BY <3>5
      <4>2. Len(s) + j \in 1 .. i - 1 /\ u[Len(s) + j] = t[j]
        BY <3>1, <2>2, <1>2
      <4> QED
        BY <4>1, <4>2
    <3> QED
      BY <3>2, <3>3, <3>4, <3>5, AtEndIs
  <2> QED
    BY <2>1, <2>2, <1>2
<1>5. ASSUME NEW id
      PROVE  id \in AtEnd(u, K) <=> id \in AtEnd(t, AtEnd(s, K))
  <2>1. id \in AtEnd(u, K) <=> id \in K \/ \E j \in 1 .. Len(u) : Computes(u[j], id)
    BY AtEndIs
  <2>2. id \in AtEnd(t, AtEnd(s, K)) <=>
            id \in AtEnd(s, K) \/ \E j \in 1 .. Len(t) : Computes(t[j], id)
    BY AtEndIs
  <2>3. id \in AtEnd(s, K) <=> id \in K \/ \E j \in 1 .. Len(s) : Computes(s[j], id)
    BY AtEndIs
  <2>4. ASSUME NEW j \in 1 .. Len(u), Computes(u[j], id)
        PROVE  (\E i \in 1 .. Len(s) : Computes(s[i], id)) \/ (\E i \in 1 .. Len(t) : Computes(t[i], id))
    <3>1. CASE j \in 1 .. Len(s)
      BY <3>1, <2>4, <1>2
    <3>2. CASE j - Len(s) \in 1 .. Len(t) /\ j = Len(s) + (j - Len(s))
      <4>1. u[j] = t[j - Len(s)]
        BY <3>2, <1>2
      <4> QED
        BY <4>1, <3>2, <2>4
    <3> QED
      BY <3>1, <3>2, <1>2
  <2>5. ASSUME NEW i \in 1 .. Len(s), Computes(s[i], id)
        PROVE  \E j \in 1 .. Len(u) : Computes(u[j], id)
    <3>1. i \in 1 .. Len(u) /\ u[i] = s[i]
      BY <1>2
    <3> QED
      BY <2>5, <3>1
  <2>6. ASSUME NEW i \in 1 .. Len(t), Computes(t[i], id)
        PROVE  \E j \in 1 .. Len(u) : Computes(u[j], id)
    <3>1. Len(s) + i \in 1 .. Len(u) /\ u[Len(s) + i] = t[i]
      BY <1>2
    <3> QED
      BY <2>6, <3>1
  <2> QED
    BY <2>1, <2>2, <2>3, <2>4, <2>5, <2>6
<1>6. Sound(u, K)
  BY <1>2, <1>3, <1>4 DEF Sound
<1>7. AtEnd(u, K) = AtEnd(t, AtEnd(s, K))
  BY <1>5
<1> QED
  BY <1>6, <1>7 DEF u

LEMMA SoundOne ==
    ASSUME NEW s, NEW K, ReadsOnly(s, K)
    PROVE  Sound(<<s>>, K) /\ AtEnd(<<s>>, K) = K \cup Adds(s)
<1> DEFINE u == <<s>>
<1>1. u \in Seq({s}) /\ Len(u) = 1 /\ u[1] = s
  OBVIOUS
<1>2. IsSeq(u)
  BY <1>1, Zenon DEF IsSeq
<1> HIDE DEF u
<1>3. \A i \in 1 .. Len(u) : i = 1 /\ u[i] = s
  BY <1>1
<1>4. Sound(u, K)
  BY <1>2, <1>3 DEF Sound, ReadsOnly
<1>5. \A id : id \in AtEnd(u, K) <=> id \in K \/ Computes(s, id)
  BY <1>1, <1>3, AtEndIs
<1>6. AtEnd(u, K) = K \cup Adds(s)
  BY <1>5, AddsIs
<1> QED
  BY <1>4, <1>6 DEF u

LEMMA SoundAppend ==
    ASSUME NEW s, NEW t, NEW K, Sound(s, K), ReadsOnly(t, AtEnd(s, K))
    PROVE  /\ Sound(Append(s, t), K)
           /\ AtEnd(Append(s, t), K) = AtEnd(s, K) \cup Adds(t)
<1>1. PICK S : s \in Seq(S)
  BY DEF Sound, IsSeq
<1>2. s \in Seq(S \cup {t}) /\ t \in S \cup {t}
  BY <1>1
<1>3. Append(s, t) = s \o <<t>>
  BY <1>2
<1>4. Sound(<<t>>, AtEnd(s, K)) /\ AtEnd(<<t>>, AtEnd(s, K)) = AtEnd(s, K) \cup Adds(t)
  BY SoundOne
<1> QED
  BY <1>3, <1>4, SoundJoin

LEMMA SoundTwo ==
    ASSUME NEW s, NEW t, NEW K, ReadsOnly(s, K), ReadsOnly(t, K \cup Adds(s))
    PROVE  Sound(<<s, t>>, K) /\ AtEnd(<<s, t>>, K) = (K \cup Adds(s)) \cup Adds(t)
<1>1. Sound(<<s>>, K) /\ AtEnd(<<s>>, K) = K \cup Adds(s)
  BY SoundOne
<1>2. <<s, t>> = Append(<<s>>, t)
  OBVIOUS
<1>3. ReadsOnly(t, AtEnd(<<s>>, K))
  BY <1>1
<1>4. /\ Sound(Append(<<s>>, t), K)
      /\ AtEnd(Append(<<s>>, t), K) = AtEnd(<<s>>, K) \cup Adds(t)
  BY <1>1, <1>3, SoundAppend
<1> QED
  BY <1>1, <1>2, <1>4, Zenon

LEMMA SoundThree ==
    ASSUME NEW s, NEW t, NEW u, NEW K, ReadsOnly(s, K), ReadsOnly(t, K \cup Adds(s)),
           ReadsOnly(u, (K \cup Adds(s)) \cup Adds(t))
    PROVE  /\ Sound(<<s, t, u>>, K)
           /\ AtEnd(<<s, t, u>>, K) = ((K \cup Adds(s)) \cup Adds(t)) \cup Adds(u)
<1>1. Sound(<<s, t>>, K) /\ AtEnd(<<s, t>>, K) = (K \cup Adds(s)) \cup Adds(t)
  BY SoundTwo
<1>2. <<s, t, u>> = Append(<<s, t>>, u)
  OBVIOUS
<1>3. ReadsOnly(u, AtEnd(<<s, t>>, K))
  BY <1>1, Zenon
<1>4. /\ Sound(Append(<<s, t>>, u), K)
      /\ AtEnd(Append(<<s, t>>, u), K) = AtEnd(<<s, t>>, K) \cup Adds(u)
  BY <1>1, <1>3, SoundAppend
<1> QED
  BY <1>1, <1>2, <1>4, Zenon

LEMMA ArgsRead ==
    ASSUME NEW args, NEW K, \A i \in 1 .. Len(args) : AtHand(args[i], K)
    PROVE  VarsOf(args) \subseteq K
BY DEF VarsOf, AtHand

LEMMA StmtIs ==
    ASSUME NEW args, IsSeq(args)
    PROVE  /\ \A l, op : IsStmt(Assign(l, op, args)) /\ DependsOn(Assign(l, op, args)) = VarsOf(args)
           /\ \A l, t : /\ IsStmt(CallTo(l, t, args)) /\ CallTo(l, t, args).target = t
                        /\ Reads(CallTo(l, t, args)) = VarsOf(args)
           /\ \A a, c : args = <<a, c>> => IsStmt(Store(a, c)) /\ DependsOn(Store(a, c)) = VarsOf(args)
<1>1. \A l, op : IsStmt(Assign(l, op, args)) /\ DependsOn(Assign(l, op, args)) = VarsOf(args)
  <2> TAKE l, op
  <2>1. /\ Assign(l, op, args).args = args /\ Assign(l, op, args).target.kind = "None"
        /\ IsStmt(Assign(l, op, args))
    BY DEF IsStmt, Assign, NoTarget, ToAddress
  <2> QED
    BY <2>1 DEF DependsOn, Reads, TargetReads
<1>2. \A l, t : IsStmt(CallTo(l, t, args)) /\ CallTo(l, t, args).target = t /\ Reads(CallTo(l, t, args)) = VarsOf(args)
  BY DEF IsStmt, CallTo, Reads
<1>3. ASSUME NEW a, NEW c, args = <<a, c>>
      PROVE  IsStmt(Store(a, c)) /\ DependsOn(Store(a, c)) = VarsOf(args)
  <2>1. /\ Store(a, c).args = args /\ Store(a, c).target.kind = "None"
        /\ IsStmt(Store(a, c))
    BY <1>3 DEF IsStmt, Store, NoTarget, ToAddress
  <2> QED
    BY <2>1 DEF DependsOn, Reads, TargetReads
<1> QED
  BY <1>1, <1>2, <1>3

LEMMA NoArgs == IsSeq(<<>>) /\ \A K : VarsOf(<<>>) \subseteq K
<1>1. IsSeq(<<>>)
  BY FreshNothing DEF Fresh
<1>2. Len(<<>>) = 0
  OBVIOUS
<1> QED
  BY <1>1, <1>2 DEF VarsOf

LEMMA OneArg ==
    ASSUME NEW a, NEW K, AtHand(a, K)
    PROVE  IsSeq(<<a>>) /\ VarsOf(<<a>>) \subseteq K
<1> DEFINE u == <<a>>
<1>1. u \in Seq({a}) /\ Len(u) = 1 /\ u[1] = a
  OBVIOUS
<1>2. IsSeq(u)
  BY <1>1, Zenon DEF IsSeq
<1> HIDE DEF u
<1>3. \A i \in 1 .. Len(u) : u[i] = a
  BY <1>1
<1>4. VarsOf(u) \subseteq K
  BY <1>3, ArgsRead
<1> QED
  BY <1>2, <1>4 DEF u

LEMMA TwoArgs ==
    ASSUME NEW a, NEW c, NEW K, AtHand(a, K), AtHand(c, K)
    PROVE  IsSeq(<<a, c>>) /\ VarsOf(<<a, c>>) \subseteq K
<1> DEFINE u == <<a, c>>
<1>1. u \in Seq({a, c}) /\ Len(u) = 2 /\ u[1] = a /\ u[2] = c
  OBVIOUS
<1>2. IsSeq(u)
  BY <1>1, Zenon DEF IsSeq
<1> HIDE DEF u
<1>3. \A i \in 1 .. Len(u) : u[i] = a \/ u[i] = c
  BY <1>1
<1>4. VarsOf(u) \subseteq K
  BY <1>3, ArgsRead
<1> QED
  BY <1>2, <1>4 DEF u

\* The statements the lifter makes, by what they are made of.
LEMMA ReadsOfMade ==
    ASSUME NEW K, NEW l, NEW op
    PROVE  /\ ReadsOnly(Assign(l, op, <<>>), K)
           /\ \A a : AtHand(a, K) => ReadsOnly(Assign(l, op, <<a>>), K)
           /\ \A a, c : AtHand(a, K) /\ AtHand(c, K) => ReadsOnly(Assign(l, op, <<a, c>>), K)
           /\ \A a, c : AtHand(a, K) /\ AtHand(c, K) => ReadsOnly(Store(a, c), K)
           /\ \A a : Adds(Assign(l, op, a)) = {l}
           /\ \A t, a : Adds(CallTo(l, t, a)) = {l}
           /\ \A a, c : Adds(Store(a, c)) = {}
<1>1. ReadsOnly(Assign(l, op, <<>>), K)
  BY NoArgs, StmtIs DEF ReadsOnly
<1>2. ASSUME NEW a, AtHand(a, K)
      PROVE  ReadsOnly(Assign(l, op, <<a>>), K)
  BY <1>2, OneArg, StmtIs DEF ReadsOnly
<1>3. ASSUME NEW a, NEW c, AtHand(a, K), AtHand(c, K)
      PROVE  ReadsOnly(Assign(l, op, <<a, c>>), K) /\ ReadsOnly(Store(a, c), K)
  <2>1. IsSeq(<<a, c>>) /\ VarsOf(<<a, c>>) \subseteq K
    BY <1>3, TwoArgs
  <2>2. ReadsOnly(Assign(l, op, <<a, c>>), K)
    BY <2>1, StmtIs DEF ReadsOnly
  <2>3. ReadsOnly(Store(a, c), K)
    BY <2>1, StmtIs DEF ReadsOnly
  <2> QED
    BY <2>2, <2>3
<1> QED
  BY <1>1, <1>2, <1>3, AssignIs DEF Adds

\* More at hand before is more at hand after.
LEMMA SoundGrows ==
    ASSUME NEW s, NEW K, NEW L, K \subseteq L, Sound(s, K)
    PROVE  Sound(s, L) /\ AtEnd(s, K) \subseteq AtEnd(s, L)
BY DEF Sound, AtEnd

-----------------------------------------------------------------------------
(* While blocks are lifted, what is read is at hand.                       *)

BlocksRead ==
    \A b \in 1 .. Len(blocks) :
        /\ Sound(blocks[b].stmts, AtEntry(b))
        /\ TermReads(blocks[b].term) \subseteq AtEnd(blocks[b].stmts, AtEntry(b))

\* What the next statement of the block under way can read.
InReach == AtEnd(blocks[Len(blocks)].stmts, AtEntry(Len(blocks)))

RegsInReach == pc >= 0 => DOMAIN regs = RegNames /\ \A r \in RegNames : regs[r] \in InReach

\* Each register has one id from each block.
SeedFacts ==
    /\ \A id \in DOMAIN names : names[id] \in Registers
    /\ \A r \in Registers : IsFiniteSet(SeedsOf(r)) /\ Cardinality(SeedsOf(r)) = Len(blocks)

ReadFacts == BlocksRead /\ RegsInReach /\ SeedFacts

LEMMA EntryKept ==
    ASSUME names' = names, prog' = prog
    PROVE  (\A b : AtEntry(b)' = AtEntry(b)) /\ (\A r : SeedsOf(r)' = SeedsOf(r))
BY DEF AtEntry, SeedsIn, SeededBefore, SeedsOf, Unloaded, FromRipIn

LEMMA LiftedReads ==
    ASSUME NEW stmts, NEW set, NEW fresh, LiftFacts, ReadFacts, pc >= 0,
           Lifted(stmts, set, fresh), Sound(stmts, InReach),
           \A r \in DOMAIN set : set[r] \in AtEnd(stmts, InReach)
    PROVE  ReadFacts'
<1> DEFINE n == Len(blocks)
           old == blocks[n].stmts
           new == old \o stmts
           Seeded == AtEntry(n)
<1>1. PICK S : blocks \in Seq(S)
  BY DEF LiftFacts, Counting, IsSeq
<1>2. n \in Nat /\ n > 0 /\ n \in 1 .. n
  BY <1>1 DEF LiftFacts, Counting
<1>3. /\ Len(blocks') = n
      /\ \A b \in 1 .. n : b # n => blocks'[b] = blocks[b]
      /\ blocks'[n].stmts = new /\ blocks'[n].term = blocks[n].term
  <2> DEFINE rec == [stmts |-> new, term |-> blocks[n].term]
  <2>1. blocks' = [blocks EXCEPT ![n] = rec]
    BY <1>1, <1>2 DEF Lifted, at
  <2>2. rec.stmts = new /\ rec.term = blocks[n].term
    OBVIOUS
  <2> HIDE DEF rec
  <2> QED
    BY <2>1, <2>2, <1>1, <1>2
<1>4. names' = names /\ prog' = prog /\ \A b : AtEntry(b)' = AtEntry(b)
  BY EntryKept DEF Lifted
<1>5. Sound(new, Seeded) /\ AtEnd(new, Seeded) = AtEnd(stmts, InReach) /\ InReach \subseteq AtEnd(stmts, InReach)
  <2>1. Sound(old, Seeded) /\ InReach = AtEnd(old, Seeded)
    BY <1>2 DEF ReadFacts, BlocksRead, InReach
  <2> HIDE DEF old, Seeded
  <2>2. Sound(stmts, AtEnd(old, Seeded))
    BY <2>1
  <2>3. Sound(old \o stmts, Seeded) /\ AtEnd(old \o stmts, Seeded) = AtEnd(stmts, AtEnd(old, Seeded))
    BY <2>1, <2>2, SoundJoin
  <2> QED
    BY <2>1, <2>3 DEF AtEnd
<1> HIDE DEF n, old, new, Seeded
<1>6. InReach' = AtEnd(stmts, InReach)
  <2>1. InReach' = AtEnd(blocks'[Len(blocks')].stmts, AtEntry(Len(blocks))')
    BY DEF InReach, AtEnd
  <2>2. AtEntry(Len(blocks))' = AtEntry(n)
    BY <1>3, <1>4
  <2> QED
    BY <2>1, <2>2, <1>3, <1>5 DEF Seeded
<1>7. BlocksRead'
  <2> SUFFICES ASSUME NEW b \in 1 .. n
               PROVE  /\ Sound(blocks'[b].stmts, AtEntry(b))
                      /\ TermReads(blocks'[b].term) \subseteq AtEnd(blocks'[b].stmts, AtEntry(b))
    BY <1>3, <1>4 DEF BlocksRead
  <2>1. CASE b = n
    <3>1. TermReads(blocks[n].term) \subseteq InReach
      BY <1>2 DEF ReadFacts, BlocksRead, InReach, n
    <3>2. TermReads(blocks'[n].term) \subseteq AtEnd(new, Seeded)
      BY <1>3, <1>5, <3>1
    <3> QED
      BY <2>1, <3>2, <1>3, <1>5 DEF Seeded
  <2>2. CASE b # n
    BY <2>2, <1>3 DEF ReadFacts, BlocksRead, n
  <2> QED
    BY <2>1, <2>2
<1>8. RegsInReach'
  <2>1. /\ DOMAIN regs = RegNames /\ \A r \in RegNames : regs[r] \in InReach
        /\ regs' = [r \in DOMAIN regs |-> IF r \in DOMAIN set THEN set[r] ELSE regs[r]]
    BY DEF ReadFacts, RegsInReach, Lifted
  <2>2. DOMAIN regs' = RegNames
    BY <2>1
  <2>3. \A r \in RegNames : regs'[r] \in AtEnd(stmts, InReach)
    BY <2>1, <1>5
  <2> QED
    BY <2>2, <2>3, <1>6 DEF RegsInReach
<1>9. SeedFacts'
  BY <1>3, <1>4, EntryKept DEF ReadFacts, SeedFacts, n
<1> QED
  BY <1>7, <1>8, <1>9 DEF ReadFacts

\* The registers that one or two ids are for.
LEMMA OneIs ==
    ASSUME NEW a, NEW c, NEW x, NEW y
    PROVE  /\ \A r \in DOMAIN One(a, x) : One(a, x)[r] = x
           /\ \A r \in DOMAIN Both(a, x, c, y) : Both(a, x, c, y)[r] \in {x, y}
BY DEF One, Both

LEMMA MovedReads ==
    ASSUME NEW before, NEW op, NEW args, NEW id, LiftFacts, ReadFacts, pc >= 0,
           Sound(before, InReach), ReadsOnly(Assign(id, op, args), AtEnd(before, InReach)),
           Moved(before, Assign(id, op, args), id)
    PROVE  ReadFacts'
<1> DEFINE value == Assign(id, op, args)
           cast == Assign(id + 1, "Cast", <<V(id)>>)
           K == AtEnd(before, InReach)
<1>1. ReadsOnly(value, K) /\ Adds(value) = {id} /\ Adds(cast) = {id + 1}
  BY ReadsOfMade
<1>2. ReadsOnly(cast, K \cup Adds(value))
  <2>1. AtHand(V(id), K \cup Adds(value))
    BY <1>1 DEF AtHand, V
  <2> QED
    BY <2>1, ReadsOfMade
<1> HIDE DEF value, cast, K
<1>3. CASE Narrow(insn.dst)
  <2> DEFINE set == Both(insn.dst, id, Wide(insn.dst), id + 1)
  <2>1. Lifted(before \o <<value, cast>>, set, id + 2 - nextId)
    BY <1>3, Zenon DEF Moved, value, cast
  <2>2. Sound(<<value, cast>>, K) /\ AtEnd(<<value, cast>>, K) = (K \cup Adds(value)) \cup Adds(cast)
    BY <1>1, <1>2, SoundTwo
  <2>3. /\ Sound(before \o <<value, cast>>, InReach)
        /\ AtEnd(before \o <<value, cast>>, InReach) = AtEnd(<<value, cast>>, K)
    BY <2>2, SoundJoin DEF K
  <2>4. \A r \in DOMAIN set : set[r] \in {id, id + 1}
    BY OneIs
  <2>5. {id, id + 1} \subseteq AtEnd(before \o <<value, cast>>, InReach)
    BY <2>2, <2>3, <1>1
  <2> HIDE DEF set
  <2> QED
    BY <2>1, <2>3, <2>4, <2>5, LiftedReads
<1>4. CASE ~Narrow(insn.dst)
  <2> DEFINE set == One(insn.dst, id)
  <2>1. Lifted(Append(before, value), set, id + 1 - nextId)
    BY <1>4, Zenon DEF Moved, value
  <2>2. Sound(Append(before, value), InReach) /\ AtEnd(Append(before, value), InReach) = K \cup Adds(value)
    BY <1>1, SoundAppend DEF K
  <2>3. \A r \in DOMAIN set : set[r] = id
    BY OneIs
  <2> HIDE DEF set
  <2> QED
    BY <2>1, <2>2, <2>3, <1>1, LiftedReads
<1> QED
  BY <1>3, <1>4

-----------------------------------------------------------------------------
(* What each instruction reads is at hand.                                 *)

\* An instruction has its operands where its kind says they are.
LEMMA InsnIs ==
    ASSUME LiftFacts, Len(blocks) <= Len(prog), prog \in Programs, LiftAssumption,
           pc >= 0, pc < Len(Code)
    PROVE  insn \in Insn /\ insn \in ToSet(Code)
<1>1. PICK S : blocks \in Seq(S)
  BY DEF LiftFacts, Counting, IsSeq
<1>2. Len(blocks) \in Nat /\ Len(blocks) > 0 /\ pc \in Nat
  BY <1>1 DEF LiftFacts, Counting
<1>3. prog \in Seq(Block)
  BY DEF LiftAssumption
<1>4. prog[at] \in Block
  BY <1>2, <1>3 DEF at
<1>5. Code \in Seq(Insn)
  BY <1>4 DEF Block, Code
<1>6. pc + 1 \in 1 .. Len(Code) /\ DOMAIN Code = 1 .. Len(Code)
  BY <1>2, <1>5
<1>7. insn \in ToSet(Code)
  BY <1>6, Zenon DEF insn, ToSet
<1> QED
  BY <1>5, <1>6, <1>7 DEF insn

\* An instruction under way.
Under == LiftFacts /\ ReadFacts /\ pc >= 0 /\ insn \in Insn /\ insn \in ToSet(Code)

LEMMA RegRead ==
    ASSUME Under, NEW r \in RegNames
    PROVE  AtHand(R(r), InReach) /\ regs[r] \in InReach
BY DEF Under, ReadFacts, RegsInReach, AtHand, R, V

LEMMA Known64 ==
    ASSUME RegisterAssumption
    PROVE  /\ {"rax", "rbp", "rsp"} \subseteq RegNames
           /\ \A i \in 1 .. Len(ArgRegs) : ArgRegs[i] \in RegNames
           /\ \A i \in 1 .. Len(SysRegs) : SysRegs[i] \in RegNames
BY DEF RegisterAssumption, RegNames

\* The ids nothing computes are at hand where an instruction needs them.
LEMMA EntryInReach ==
    ASSUME Under
    PROVE  /\ insn.src = "mem" \/ insn.op = "addmem" => AtHand(V(NoLoad), InReach)
           /\ insn.op \in {"load", "store"} /\ insn.base = "rip" => AtHand(V(RipId), InReach)
<1>1. insn \in ToSet(prog[Len(blocks)].insns)
  BY DEF Under, Code, at
<1>2. insn.src = "mem" \/ insn.op = "addmem" => NoLoad \in AtEntry(Len(blocks))
  BY <1>1 DEF AtEntry, Unloaded
<1>3. insn.op \in {"load", "store"} /\ insn.base = "rip" => RipId \in AtEntry(Len(blocks))
  BY <1>1 DEF AtEntry, FromRipIn
<1> QED
  BY <1>2, <1>3 DEF InReach, AtEnd, AtHand, V

LEMMA OperandRead ==
    ASSUME Under
    PROVE  /\ AtHand(Operand, InReach) /\ AtHand(R(insn.dst), InReach)
           /\ \A k : AtHand(C(k), InReach)
<1>1. insn.src \in RegNames \cup {"imm", "mem"} /\ insn.dst \in RegNames
  BY DEF Under, Insn
<1>2. \A k, K : AtHand(C(k), K)
  BY DEF AtHand, C
<1>3. insn.src = "mem" => AtHand(V(NoLoad), InReach)
  BY EntryInReach
<1>4. AtHand(Operand, InReach)
  <2>1. CASE insn.src = "imm"
    BY <2>1, <1>2 DEF Operand
  <2>2. CASE insn.src = "mem"
    BY <2>2, <1>3 DEF Operand
  <2>3. CASE insn.src \notin {"imm", "mem"}
    <3>1. Operand = R(insn.src) /\ insn.src \in RegNames
      BY <2>3, <1>1 DEF Operand
    <3> QED
      BY <3>1, RegRead
  <2> QED
    BY <2>1, <2>2, <2>3
<1> QED
  BY <1>1, <1>2, <1>4, RegRead

\* Statements with ids in a row, the last of them at hand.
Chained(stmts) ==
    /\ Sound(stmts, InReach) /\ Len(stmts) \in Nat
    /\ stmts # <<>> => nextId + Len(stmts) - 1 \in AtEnd(stmts, InReach)

LEMMA AtHandLater ==
    ASSUME NEW v, NEW stmts, AtHand(v, InReach)
    PROVE  AtHand(v, AtEnd(stmts, InReach))
BY DEF AtHand, AtEnd

LEMMA LastRead ==
    ASSUME NEW stmts, NEW v, Chained(stmts), AtHand(v, InReach)
    PROVE  AtHand(LastOr(stmts, v), AtEnd(stmts, InReach))
<1>1. CASE stmts = <<>>
  BY <1>1, AtHandLater DEF LastOr
<1>2. CASE stmts # <<>>
  BY <1>2 DEF LastOr, Chained, AtHand, V
<1> QED
  BY <1>1, <1>2

LEMMA ThenReads ==
    ASSUME NEW stmts, NEW op, NEW args, nextId \in Nat, Chained(stmts),
           ReadsOnly(Assign(nextId + Len(stmts), op, args), AtEnd(stmts, InReach))
    PROVE  /\ Chained(Then(stmts, op, args))
           /\ nextId + Len(Then(stmts, op, args)) - 1 \in AtEnd(Then(stmts, op, args), InReach)
<1> DEFINE t == Assign(nextId + Len(stmts), op, args)
           new == Append(stmts, t)
<1>1. Then(stmts, op, args) = new /\ Adds(t) = {nextId + Len(stmts)}
  BY ReadsOfMade DEF Then
<1>2. ReadsOnly(t, AtEnd(stmts, InReach))
  OBVIOUS
<1> HIDE DEF t
<1>3. Sound(new, InReach) /\ AtEnd(new, InReach) = AtEnd(stmts, InReach) \cup Adds(t)
  BY <1>2, SoundAppend DEF Chained
<1>4. PICK S : stmts \in Seq(S)
  BY DEF Chained, Sound, IsSeq
<1>5. stmts \in Seq(S \cup {t}) /\ t \in S \cup {t}
  BY <1>4
<1>6. Len(new) = Len(stmts) + 1 /\ Len(stmts) \in Nat
  BY <1>5
<1> HIDE DEF new
<1>7. nextId + Len(new) - 1 = nextId + Len(stmts)
  BY <1>6
<1>8. nextId + Len(new) - 1 \in AtEnd(new, InReach)
  BY <1>1, <1>3, <1>7
<1> QED
  BY <1>1, <1>3, <1>6, <1>8 DEF Chained

LEMMA AddressReads ==
    ASSUME Under, insn.op \in {"load", "store"} \/ insn.base # "rip"
    PROVE  Sound(Address, InReach) /\ AtHand(V(Pointer), AtEnd(Address, InReach))
<1>1. nextId \in Nat
  BY DEF Under, LiftFacts, Counting
<1>2. Chained(<<>>)
  <2>1. Len(<<>>) = 0
    OBVIOUS
  <2> QED
    BY <2>1, SoundNothing DEF Chained
<1>3. insn.base \in RegNames \cup {"none", "rip"} /\ insn.index \in RegNames \cup {"none"}
  BY DEF Under, Insn
<1>4. AtHand(Base, InReach)
  <2>1. CASE insn.base = "none"
    BY <2>1, OperandRead DEF Base
  <2>2. CASE insn.base = "rip"
    <3>1. AtHand(V(RipId), InReach)
      BY <2>2, EntryInReach
    <3> QED
      BY <2>2, <3>1 DEF Base
  <2>3. CASE insn.base \notin {"none", "rip"}
    <3>1. Base = R(insn.base) /\ insn.base \in RegNames
      BY <2>3, <1>3 DEF Base
    <3> QED
      BY <3>1, RegRead
  <2> QED
    BY <2>1, <2>2, <2>3
<1>5. \A k, s : AtHand(C(k), AtEnd(s, InReach))
  BY DEF AtHand, C
<1>6. ASSUME insn.index # "none"
      PROVE  Chained(Scaled) /\ AtHand(R(insn.index), InReach)
  <2>1. AtHand(R(insn.index), InReach)
    BY <1>3, <1>6, RegRead
  <2>2. CASE insn.scale = 1
    BY <2>1, <2>2, <1>2 DEF Scaled
  <2>3. CASE insn.scale # 1
    <3>1. AtHand(R(insn.index), AtEnd(<<>>, InReach)) /\ AtHand(C(insn.scale), AtEnd(<<>>, InReach))
      BY <2>1, <1>5, AtHandLater
    <3>2. Chained(Then(<<>>, "Mul", <<R(insn.index), C(insn.scale)>>))
      BY <3>1, <1>1, <1>2, ReadsOfMade, ThenReads
    <3> QED
      BY <2>1, <2>3, <3>2, Zenon DEF Scaled
  <2> QED
    BY <2>2, <2>3
<1>7. Chained(Indexed)
  <2>1. CASE insn.index = "none"
    BY <2>1, <1>2 DEF Indexed
  <2>2. CASE insn.index # "none"
    <3> DEFINE last == LastOr(Scaled, R(insn.index))
    <3>1. Chained(Scaled) /\ AtHand(last, AtEnd(Scaled, InReach)) /\ AtHand(Base, AtEnd(Scaled, InReach))
      BY <2>2, <1>4, <1>6, LastRead, AtHandLater
    <3> HIDE DEF last
    <3>2. Chained(Then(Scaled, "Add", <<Base, last>>))
      BY <3>1, <1>1, ReadsOfMade, ThenReads
    <3> QED
      BY <2>2, <3>2, Zenon DEF Indexed, last
  <2> QED
    BY <2>1, <2>2
<1>8. Chained(Displaced)
  <2>1. CASE insn.disp = 0
    BY <2>1, <1>7 DEF Displaced
  <2>2. CASE insn.disp # 0
    <3> DEFINE last == LastOr(Indexed, Base)
               num == C(IF insn.disp < 0 THEN -insn.disp ELSE insn.disp)
               op == IF insn.disp < 0 THEN "Sub" ELSE "Add"
    <3>1. AtHand(last, AtEnd(Indexed, InReach)) /\ AtHand(num, AtEnd(Indexed, InReach))
      BY <1>4, <1>5, <1>7, LastRead
    <3>2. Displaced = Then(Indexed, op, <<last, num>>)
      BY <2>2 DEF Displaced
    <3> HIDE DEF last, num, op
    <3>3. Chained(Then(Indexed, op, <<last, num>>))
      BY <3>1, <1>1, <1>7, ReadsOfMade, ThenReads
    <3> QED
      BY <3>2, <3>3
  <2> QED
    BY <2>1, <2>2
<1>9. Chained(Address) /\ nextId + Len(Address) - 1 \in AtEnd(Address, InReach)
  <2> DEFINE last == LastOr(Displaced, Base)
  <2>1. AtHand(last, AtEnd(Displaced, InReach))
    BY <1>4, <1>8, LastRead
  <2>2. Address = Then(Displaced, "Cast", <<last>>)
    BY DEF Address
  <2> HIDE DEF last
  <2>3. /\ Chained(Then(Displaced, "Cast", <<last>>))
        /\ nextId + Len(Then(Displaced, "Cast", <<last>>)) - 1
              \in AtEnd(Then(Displaced, "Cast", <<last>>), InReach)
    BY <2>1, <1>1, <1>8, ReadsOfMade, ThenReads
  <2> QED
    BY <2>2, <2>3
<1> QED
  BY <1>9 DEF Chained, AtHand, V, Pointer

\* What the instructions read and write, statement by statement.
LEMMA AtHandMore ==
    ASSUME NEW v, NEW K, NEW L, AtHand(v, K)
    PROVE  AtHand(v, K \cup L)
BY DEF AtHand

LEMMA OwnId ==
    ASSUME NEW id, NEW K
    PROVE  AtHand(V(id), K \cup {id})
BY DEF AtHand, V

LEMMA MovesRead ==
    ASSUME Under, LiftMov \/ LiftMovsx \/ LiftLoad
    PROVE  ReadFacts'
<1>0. LiftFacts /\ ReadFacts /\ pc >= 0
  BY DEF Under
<1>1. Sound(<<>>, InReach) /\ AtEnd(<<>>, InReach) = InReach
  BY SoundNothing
<1>2. \A op : ReadsOnly(Assign(nextId, op, <<Operand>>), AtEnd(<<>>, InReach))
  <2>1. AtHand(Operand, InReach)
    BY OperandRead
  <2> QED
    BY <1>1, <2>1, ReadsOfMade
<1>3. CASE LiftMov
  <2>1. \E op : Moved(<<>>, Assign(nextId, op, <<Operand>>), nextId)
    BY <1>3, Zenon DEF LiftMov
  <2> QED
    BY <2>1, <1>0, <1>1, <1>2, MovedReads
<1>4. CASE LiftMovsx
  <2>1. Moved(<<>>, Assign(nextId, "Cast", <<Operand>>), nextId)
    BY <1>4, Zenon DEF LiftMovsx
  <2> QED
    BY <2>1, <1>0, <1>1, <1>2, MovedReads
<1>5. CASE LiftLoad
  <2>1. Moved(Address, Assign(Pointer + 1, "Load", <<V(Pointer)>>), Pointer + 1)
    BY <1>5, Zenon DEF LiftLoad
  <2>2. Sound(Address, InReach) /\ AtHand(V(Pointer), AtEnd(Address, InReach))
    <3>1. insn.op \in {"load", "store"}
      BY <1>5 DEF LiftLoad, Ready
    <3> QED
      BY <3>1, AddressReads
  <2>3. ReadsOnly(Assign(Pointer + 1, "Load", <<V(Pointer)>>), AtEnd(Address, InReach))
    BY <2>2, ReadsOfMade
  <2> QED
    BY <2>1, <2>2, <2>3, <1>0, MovedReads
<1> QED
  BY <1>3, <1>4, <1>5

\* The instruction makes one statement that reads what is at hand, or two.
LEMMA OneReads ==
    ASSUME Under, NEW s, NEW set, NEW k, ReadsOnly(s, InReach), Lifted(<<s>>, set, k),
           \A r \in DOMAIN set : set[r] \in Adds(s)
    PROVE  ReadFacts'
<1>1. Sound(<<s>>, InReach) /\ AtEnd(<<s>>, InReach) = InReach \cup Adds(s)
  BY SoundOne
<1>2. \A r \in DOMAIN set : set[r] \in AtEnd(<<s>>, InReach)
  BY <1>1
<1> QED
  BY <1>1, <1>2, LiftedReads DEF Under

LEMMA TwoRead ==
    ASSUME Under, NEW s, NEW t, NEW set, NEW k, ReadsOnly(s, InReach),
           ReadsOnly(t, InReach \cup Adds(s)), Lifted(<<s, t>>, set, k),
           \A r \in DOMAIN set : set[r] \in Adds(s) \cup Adds(t)
    PROVE  ReadFacts'
<1>1. /\ Sound(<<s, t>>, InReach)
      /\ AtEnd(<<s, t>>, InReach) = (InReach \cup Adds(s)) \cup Adds(t)
  BY SoundTwo
<1>2. \A r \in DOMAIN set : set[r] \in AtEnd(<<s, t>>, InReach)
  BY <1>1
<1> QED
  BY <1>1, <1>2, LiftedReads DEF Under

LEMMA ThreeRead ==
    ASSUME Under, NEW s, NEW t, NEW u, NEW set, NEW k, ReadsOnly(s, InReach),
           ReadsOnly(t, InReach \cup Adds(s)), ReadsOnly(u, (InReach \cup Adds(s)) \cup Adds(t)),
           Lifted(<<s, t, u>>, set, k),
           \A r \in DOMAIN set : set[r] \in (Adds(s) \cup Adds(t)) \cup Adds(u)
    PROVE  ReadFacts'
<1>1. /\ Sound(<<s, t, u>>, InReach)
      /\ AtEnd(<<s, t, u>>, InReach) = ((InReach \cup Adds(s)) \cup Adds(t)) \cup Adds(u)
  BY SoundThree
<1>2. \A r \in DOMAIN set : set[r] \in AtEnd(<<s, t, u>>, InReach)
  BY <1>1
<1> QED
  BY <1>1, <1>2, LiftedReads DEF Under

LEMMA NoneIs == \A r \in DOMAIN <<>> : FALSE
OBVIOUS

LEMMA PointersRead ==
    ASSUME Under, LiftStore \/ LiftLea
    PROVE  ReadFacts'
<1>0. LiftFacts /\ ReadFacts /\ pc >= 0
  BY DEF Under
<1>1. Sound(Address, InReach) /\ AtHand(V(Pointer), AtEnd(Address, InReach))
  <2>1. LiftStore => insn.op \in {"load", "store"}
    BY DEF LiftStore, Ready
  <2>2. LiftLea => insn.base # "rip"
    BY DEF LiftLea
  <2> QED
    BY <2>1, <2>2, AddressReads
<1>2. CASE LiftStore
  <2> DEFINE s == Store(V(Pointer), Operand)
  <2>1. Lifted(Append(Address, s), <<>>, Len(Address))
    BY <1>2, Zenon DEF LiftStore
  <2>2. AtHand(Operand, AtEnd(Address, InReach))
    BY OperandRead, AtHandLater
  <2>3. ReadsOnly(s, AtEnd(Address, InReach))
    BY <1>1, <2>2, ReadsOfMade
  <2> HIDE DEF s
  <2>4. Sound(Append(Address, s), InReach)
    BY <1>1, <2>3, SoundAppend
  <2> QED
    BY <1>0, <2>1, <2>4, NoneIs, LiftedReads
<1>3. CASE LiftLea
  <2> DEFINE s == Assign(Pointer + 1, "Cast", <<V(Pointer)>>)
             set == One(insn.dst, Pointer + 1)
  <2>1. Lifted(Append(Address, s), set, Len(Address) + 1)
    BY <1>3, Zenon DEF LiftLea
  <2>2. ReadsOnly(s, AtEnd(Address, InReach)) /\ Adds(s) = {Pointer + 1}
    BY <1>1, ReadsOfMade
  <2>3. \A r \in DOMAIN set : set[r] = Pointer + 1
    BY OneIs
  <2> HIDE DEF s, set
  <2>4. /\ Sound(Append(Address, s), InReach)
        /\ AtEnd(Append(Address, s), InReach) = AtEnd(Address, InReach) \cup Adds(s)
    BY <1>1, <2>2, SoundAppend
  <2>5. \A r \in DOMAIN set : set[r] \in AtEnd(Append(Address, s), InReach)
    BY <2>2, <2>3, <2>4
  <2> QED
    BY <1>0, <2>1, <2>4, <2>5, LiftedReads
<1> QED
  BY <1>2, <1>3

LEMMA SumsRead ==
    ASSUME Under, LiftBinop \/ LiftBinopMem \/ LiftUnary \/ LiftZero \/ LiftLeaRip
    PROVE  ReadFacts'
<1>1. /\ AtHand(Operand, InReach) /\ AtHand(R(insn.dst), InReach)
      /\ \A k : AtHand(C(k), InReach)
  BY OperandRead
<1> DEFINE t == Assign(nextId + 1, "Eq", <<V(nextId), C(0)>>)
<1>2. ReadsOnly(t, InReach \cup {nextId})
  <2>1. AtHand(V(nextId), InReach \cup {nextId}) /\ AtHand(C(0), InReach \cup {nextId})
    BY <1>1, AtHandMore, OwnId
  <2> QED
    BY <2>1, ReadsOfMade
<1> HIDE DEF t
<1>3. CASE LiftBinop
  <2> DEFINE set == IF insn.op \in {"cmp", "test"} THEN <<>> ELSE One(insn.dst, nextId)
             s == Assign(nextId, BinOp[insn.op], <<R(insn.dst), Operand>>)
  <2>1. Lifted(<<s, t>>, set, 2)
    BY <1>3, Zenon DEF LiftBinop, t
  <2>2. ReadsOnly(s, InReach) /\ Adds(s) = {nextId}
    BY <1>1, ReadsOfMade
  <2>3. \A r \in DOMAIN set : set[r] \in Adds(s)
    <3>1. \A r \in DOMAIN One(insn.dst, nextId) : One(insn.dst, nextId)[r] = nextId
      BY OneIs
    <3>2. CASE insn.op \in {"cmp", "test"}
      <4>1. set = <<>>
        BY <3>2
      <4> QED
        BY <4>1, NoneIs
    <3>3. CASE insn.op \notin {"cmp", "test"}
      <4>1. set = One(insn.dst, nextId)
        BY <3>3
      <4> QED
        BY <4>1, <3>1, <2>2
    <3> QED
      BY <3>2, <3>3
  <2> HIDE DEF s, set
  <2>4. ReadsOnly(t, InReach \cup Adds(s)) /\ \A r \in DOMAIN set : set[r] \in Adds(s) \cup Adds(t)
    BY <1>2, <2>2, <2>3
  <2> QED
    BY <2>1, <2>2, <2>4, TwoRead
<1>4. CASE LiftBinopMem
  <2> DEFINE s == Assign(nextId, "Add", <<V(NoLoad), Operand>>)
  <2>1. Lifted(<<s, t>>, <<>>, 2)
    BY <1>4, Zenon DEF LiftBinopMem, t
  <2>2. ReadsOnly(s, InReach) /\ Adds(s) = {nextId}
    <3>1. AtHand(V(NoLoad), InReach)
      BY <1>4, EntryInReach DEF LiftBinopMem, Ready
    <3> QED
      BY <1>1, <3>1, ReadsOfMade
  <2> HIDE DEF s
  <2>3. ReadsOnly(t, InReach \cup Adds(s))
    BY <1>2, <2>2
  <2> QED
    BY <2>1, <2>2, <2>3, NoneIs, TwoRead
<1>5. CASE LiftUnary
  <2> DEFINE dst == R(insn.dst)
             set == One(insn.dst, nextId)
             s == CASE insn.op = "neg" -> Assign(nextId, "Sub", <<C(0), dst>>)
                    [] insn.op = "not" -> Assign(nextId, "Not", <<dst>>)
                    [] OTHER -> Assign(nextId, BinOp[insn.op], <<dst, C(1)>>)
  <2>1. Lifted(<<s>>, set, 1)
    BY <1>5, Zenon DEF LiftUnary
  <2>2. /\ ReadsOnly(Assign(nextId, "Sub", <<C(0), dst>>), InReach)
        /\ ReadsOnly(Assign(nextId, "Not", <<dst>>), InReach)
        /\ \A op : ReadsOnly(Assign(nextId, op, <<dst, C(1)>>), InReach)
        /\ \A op, a : Adds(Assign(nextId, op, a)) = {nextId}
    BY <1>1, ReadsOfMade
  <2>3. ReadsOnly(s, InReach) /\ Adds(s) = {nextId}
    <3>1. CASE insn.op = "neg"
      BY <2>2, <3>1
    <3>2. CASE insn.op # "neg" /\ insn.op = "not"
      BY <2>2, <3>2
    <3>3. CASE insn.op # "neg" /\ insn.op # "not"
      BY <2>2, <3>3
    <3> QED
      BY <3>1, <3>2, <3>3
  <2>4. \A r \in DOMAIN set : set[r] \in Adds(s)
    <3>1. \A r \in DOMAIN set : set[r] = nextId
      BY OneIs
    <3> HIDE DEF s, set
    <3> QED
      BY <3>1, <2>3
  <2> HIDE DEF s, set
  <2> QED
    BY <2>1, <2>3, <2>4, OneReads
<1>6. CASE LiftZero \/ LiftLeaRip
  <2> DEFINE s(k) == Assign(nextId, "Value", <<C(k)>>)
             set == One(insn.dst, nextId)
  <2>1. \E k : Lifted(<<s(k)>>, set, 1)
    BY <1>6, Zenon DEF LiftZero, LiftLeaRip
  <2>2. \A k : ReadsOnly(s(k), InReach) /\ Adds(s(k)) = {nextId}
    BY <1>1, ReadsOfMade
  <2>3. \A k : \A r \in DOMAIN set : set[r] \in Adds(s(k))
    <3>1. \A r \in DOMAIN set : set[r] = nextId
      BY OneIs
    <3> HIDE DEF s, set
    <3> QED
      BY <3>1, <2>2
  <2> HIDE DEF s, set
  <2>4. PICK k : Lifted(<<s(k)>>, set, 1)
    BY <2>1
  <2> QED
    BY <2>2, <2>3, <2>4, OneReads
<1> QED
  BY <1>3, <1>4, <1>5, <1>6

LEMMA StackRead ==
    ASSUME Under, RegisterAssumption, LiftPush \/ LiftPop \/ LiftLeave
    PROVE  ReadFacts'
<1>1. AtHand(Operand, InReach) /\ \A k : AtHand(C(k), InReach)
  BY OperandRead
<1>2. AtHand(R("rsp"), InReach) /\ AtHand(R("rbp"), InReach)
  BY Known64, RegRead
<1>3. AtHand(V(nextId), InReach \cup {nextId}) /\ AtHand(C(8), InReach \cup {nextId})
  BY <1>1, AtHandMore, OwnId
<1>4. CASE LiftPush
  <2> DEFINE s == Assign(nextId, "Sub", <<R("rsp"), C(8)>>)
             t == Store(V(nextId), Operand)
             set == One("rsp", nextId)
  <2>1. Lifted(<<s, t>>, set, 1)
    BY <1>4, Zenon DEF LiftPush
  <2>2. ReadsOnly(s, InReach) /\ Adds(s) = {nextId}
    BY <1>1, <1>2, ReadsOfMade
  <2>3. AtHand(Operand, InReach \cup {nextId})
    BY <1>1, AtHandMore
  <2>4. ReadsOnly(t, InReach \cup {nextId})
    BY <1>3, <2>3, ReadsOfMade
  <2>5. \A r \in DOMAIN set : set[r] \in Adds(s)
    BY <2>2, OneIs
  <2> HIDE DEF s, t, set
  <2>6. ReadsOnly(t, InReach \cup Adds(s)) /\ \A r \in DOMAIN set : set[r] \in Adds(s) \cup Adds(t)
    BY <2>2, <2>4, <2>5
  <2> QED
    BY <2>1, <2>2, <2>6, TwoRead
<1>5. CASE LiftPop
  <2> DEFINE s == Assign(nextId, "Load", <<R("rsp")>>)
             top == PoppedRsp(insn.dst, nextId)
             t == Assign(nextId + 1, "Add", <<top, C(8)>>)
             set == Both("rsp", nextId + 1, insn.dst, nextId)
  <2>1. Lifted(<<s, t>>, set, 2)
    BY <1>5, Zenon DEF LiftPop
  <2>2. ReadsOnly(s, InReach) /\ Adds(s) = {nextId}
    BY <1>2, ReadsOfMade
  <2>3. AtHand(top, InReach \cup {nextId})
    BY <1>2, <1>3, AtHandMore DEF PoppedRsp
  <2> HIDE DEF top
  <2>4. ReadsOnly(t, InReach \cup {nextId}) /\ Adds(t) = {nextId + 1}
    BY <1>3, <2>3, ReadsOfMade
  <2>5. \A r \in DOMAIN set : set[r] \in {nextId + 1, nextId}
    BY OneIs
  <2> HIDE DEF s, t, set
  <2>6. ReadsOnly(t, InReach \cup Adds(s)) /\ \A r \in DOMAIN set : set[r] \in Adds(s) \cup Adds(t)
    BY <2>2, <2>4, <2>5
  <2> QED
    BY <2>1, <2>2, <2>6, TwoRead
<1>6. CASE LiftLeave
  <2> DEFINE s == Assign(nextId, "Value", <<R("rbp")>>)
             t == Assign(nextId + 1, "Load", <<V(nextId)>>)
             u == Assign(nextId + 2, "Add", <<V(nextId), C(8)>>)
             set == Both("rbp", nextId + 1, "rsp", nextId + 2)
  <2>1. Lifted(<<s, t, u>>, set, 3)
    BY <1>6, Zenon DEF LiftLeave
  <2>2. ReadsOnly(s, InReach) /\ Adds(s) = {nextId}
    BY <1>2, ReadsOfMade
  <2>3. ReadsOnly(t, InReach \cup {nextId}) /\ Adds(t) = {nextId + 1}
    BY <1>3, ReadsOfMade
  <2>4. ReadsOnly(u, (InReach \cup {nextId}) \cup {nextId + 1}) /\ Adds(u) = {nextId + 2}
    <3>1. /\ AtHand(V(nextId), (InReach \cup {nextId}) \cup {nextId + 1})
          /\ AtHand(C(8), (InReach \cup {nextId}) \cup {nextId + 1})
      BY <1>3, AtHandMore
    <3> QED
      BY <3>1, ReadsOfMade
  <2>5. \A r \in DOMAIN set : set[r] \in {nextId + 1, nextId + 2}
    BY OneIs
  <2> HIDE DEF s, t, u, set
  <2>6. /\ ReadsOnly(t, InReach \cup Adds(s)) /\ ReadsOnly(u, (InReach \cup Adds(s)) \cup Adds(t))
        /\ \A r \in DOMAIN set : set[r] \in (Adds(s) \cup Adds(t)) \cup Adds(u)
    BY <2>2, <2>3, <2>4, <2>5
  <2> QED
    BY <2>1, <2>2, <2>6, ThreeRead
<1> QED
  BY <1>4, <1>5, <1>6

LEMMA CallReads ==
    ASSUME Under, NEW names64 \in Seq(Registers), NEW target,
           \A i \in 1 .. Len(names64) : names64[i] \in RegNames,
           target.kind = "Indirect" => AtHand(target.val, InReach),
           Lifted(<<CallTo(nextId, target, [i \in 1 .. Len(names64) |-> R(names64[i])])>>,
                  One("rax", nextId), 1)
    PROVE  ReadFacts'
<1> DEFINE args == [i \in 1 .. Len(names64) |-> R(names64[i])]
           s == CallTo(nextId, target, args)
           set == One("rax", nextId)
<1>1. Len(names64) \in Nat /\ args \in Seq({R(names64[i]) : i \in 1 .. Len(names64)}) /\ Len(args) = Len(names64)
  OBVIOUS
<1>2. IsSeq(args)
  BY <1>1, Zenon DEF IsSeq
<1>3. \A i \in 1 .. Len(args) : AtHand(args[i], InReach)
  BY <1>1, RegRead
<1>4. Lifted(<<s>>, set, 1)
  OBVIOUS
<1> HIDE DEF args
<1>5. VarsOf(args) \subseteq InReach
  BY <1>3, ArgsRead
<1>6. ReadsOnly(s, InReach)
  <2>1. IsStmt(s) /\ s.target = target /\ Reads(s) \subseteq InReach
    BY <1>2, <1>5, StmtIs
  <2>2. target.kind = "Indirect" => VarsOf(<<target.val>>) \subseteq InReach
    BY OneArg
  <2> HIDE DEF s
  <2> QED
    BY <2>1, <2>2 DEF ReadsOnly, DependsOn, TargetReads
<1>7. Adds(s) = {nextId}
  BY ReadsOfMade
<1>8. \A r \in DOMAIN set : set[r] \in Adds(s)
  BY <1>7, OneIs
<1> HIDE DEF s, set
<1> QED
  BY <1>4, <1>6, <1>8, OneReads

LEMMA OthersRead ==
    ASSUME Under, RegisterAssumption,
           LiftDiv \/ LiftXchg \/ LiftCall \/ LiftSyscall \/ LiftNop \/ LiftOpaque
    PROVE  ReadFacts'
<1>1. AtHand(Operand, InReach) /\ AtHand(R(insn.dst), InReach)
  BY OperandRead
<1>2. CASE LiftDiv
  <2> DEFINE s == Assign(nextId, "UDiv", <<R("rax"), Operand>>)
             t == Assign(nextId + 1, "URem", <<R("rax"), Operand>>)
             set == Both("rax", nextId, "rdx", nextId + 1)
  <2>1. Lifted(<<s, t>>, set, 2)
    BY <1>2, Zenon DEF LiftDiv
  <2>2. AtHand(R("rax"), InReach)
    BY Known64, RegRead
  <2>3. AtHand(R("rax"), InReach \cup {nextId}) /\ AtHand(Operand, InReach \cup {nextId})
    BY <1>1, <2>2, AtHandMore
  <2>4. ReadsOnly(s, InReach) /\ Adds(s) = {nextId}
    BY <1>1, <2>2, ReadsOfMade
  <2>5. ReadsOnly(t, InReach \cup {nextId}) /\ Adds(t) = {nextId + 1}
    BY <2>3, ReadsOfMade
  <2>6. \A r \in DOMAIN set : set[r] \in {nextId, nextId + 1}
    BY OneIs
  <2> HIDE DEF s, t, set
  <2>7. ReadsOnly(t, InReach \cup Adds(s)) /\ \A r \in DOMAIN set : set[r] \in Adds(s) \cup Adds(t)
    BY <2>4, <2>5, <2>6
  <2> QED
    BY <2>1, <2>4, <2>7, TwoRead
<1>3. CASE LiftXchg
  <2> DEFINE s == Assign(nextId, "Value", <<Operand>>)
             t == Store(Operand, R(insn.dst))
             u == Store(R(insn.dst), V(nextId))
             K == InReach \cup {nextId}
  <2>1. Lifted(<<s, t, u>>, <<>>, 1)
    BY <1>3, Zenon DEF LiftXchg
  <2>2. AtHand(Operand, K) /\ AtHand(R(insn.dst), K) /\ AtHand(V(nextId), K)
    BY <1>1, AtHandMore, OwnId
  <2>3. ReadsOnly(s, InReach) /\ Adds(s) = {nextId}
    BY <1>1, ReadsOfMade
  <2>4. ReadsOnly(t, K) /\ Adds(t) = {} /\ ReadsOnly(u, K)
    BY <2>2, ReadsOfMade
  <2> HIDE DEF s, t, u
  <2>5. InReach \cup Adds(s) = K /\ (InReach \cup Adds(s)) \cup Adds(t) = K
    BY <2>3, <2>4
  <2> HIDE DEF K
  <2> QED
    BY <2>1, <2>3, <2>4, <2>5, NoneIs, ThreeRead
<1>4. CASE LiftCall
  <2>1. Lifted(<<CallTo(nextId, Target, [i \in 1 .. Len(ArgRegs) |-> R(ArgRegs[i])])>>, One("rax", nextId), 1)
    BY <1>4, Zenon DEF LiftCall
  <2>2. ArgRegs \in Seq(Registers)
    BY DEF RegisterAssumption
  <2>3. Target.kind = "Indirect" => AtHand(Target.val, InReach)
    BY <1>1 DEF Target, Through, ToAddress
  <2> QED
    BY <2>1, <2>2, <2>3, Known64, CallReads
<1>5. CASE LiftSyscall
  <2>1. Lifted(<<CallTo(nextId, ToKernel, [i \in 1 .. Len(SysRegs) |-> R(SysRegs[i])])>>, One("rax", nextId), 1)
    BY <1>5, Zenon DEF LiftSyscall
  <2>2. SysRegs \in Seq(Registers) /\ ToKernel.kind # "Indirect"
    BY DEF RegisterAssumption, ToKernel, ToAddress
  <2> QED
    BY <2>1, <2>2, Known64, CallReads
<1>6. CASE LiftNop
  <2>1. Lifted(<<Nop>>, <<>>, 0)
    BY <1>6, Zenon DEF LiftNop
  <2>2. ReadsOnly(Nop, InReach)
    BY NoArgs DEF ReadsOnly, DependsOn, Reads, TargetReads, NoTarget, ToAddress, IsStmt, Nop
  <2> QED
    BY <2>1, <2>2, NoneIs, OneReads
<1>7. CASE LiftOpaque
  <2>1. Lifted(<<Assign(nextId, "Opaque", <<>>)>>, <<>>, 1)
    BY <1>7, Zenon DEF LiftOpaque
  <2>2. ReadsOnly(Assign(nextId, "Opaque", <<>>), InReach)
    BY ReadsOfMade
  <2> QED
    BY <2>1, <2>2, NoneIs, OneReads
<1> QED
  BY <1>2, <1>3, <1>4, <1>5, <1>6, <1>7

\* A block's seeds: one more id for each register, larger than those before.
LEMMA SeedsGrow ==
    ASSUME LiftFacts, SeedFacts, LiftAssumption, RegisterAssumption, SeedBlock
    PROVE  /\ \A id \in DOMAIN names' : names'[id] \in Registers
           /\ \A r \in Registers : IsFiniteSet(SeedsOf(r)') /\ Cardinality(SeedsOf(r)') = Len(blocks) + 1
           /\ \A b \in 1 .. Len(blocks) : AtEntry(b) \subseteq AtEntry(b)'
           /\ \A i \in 1 .. Len(AbiRegs), b \in {Len(blocks) + 1} : SeedAt(i) \in SeedsIn(b)'
<1> DEFINE New == {SeedAt(i) : i \in 1 .. Len(AbiRegs)}
           n == Len(blocks)
<1>1. AbiRegs \in Seq(STRING) /\ Len(AbiRegs) \in Nat /\ DOMAIN AbiRegs = 1 .. Len(AbiRegs)
  BY DEF LiftAssumption
<1>2. nextId \in Nat /\ \A id \in DOMAIN names : id \in Nat /\ id < nextId
  BY DEF LiftFacts, Counting, Seeds
<1>3. \A i \in 1 .. Len(AbiRegs) : /\ SeedAt(i) \in Nat /\ SeedAt(i) >= nextId
                                   /\ SeedAt(i) - nextId + 1 = i /\ AbiRegs[i] \in Registers
  <2>1. \A i \in 1 .. Len(AbiRegs) : AbiRegs[i] \in Registers
    BY <1>1, Zenon DEF Registers, ToSet
  <2> QED
    BY <1>1, <1>2, <2>1 DEF SeedAt
<1>4. /\ DOMAIN names' = DOMAIN names \cup New
      /\ \A id \in DOMAIN names : names'[id] = names[id]
      /\ \A i \in 1 .. Len(AbiRegs) : names'[SeedAt(i)] = AbiRegs[i]
  <2>1. names' = [id \in DOMAIN names \cup New |->
                     IF id \in DOMAIN names THEN names[id] ELSE AbiRegs[id - nextId + 1]]
    BY DEF SeedBlock
  <2>2. \A i \in 1 .. Len(AbiRegs) : SeedAt(i) \in New /\ SeedAt(i) \notin DOMAIN names
    BY <1>2, <1>3
  <2> HIDE DEF New
  <2>3. \A i \in 1 .. Len(AbiRegs) : names'[SeedAt(i)] = AbiRegs[SeedAt(i) - nextId + 1]
    BY <2>1, <2>2
  <2> QED
    BY <2>1, <2>3, <1>3
<1>5. ASSUME NEW i \in 1 .. Len(AbiRegs)
      PROVE  SeedsOf(AbiRegs[i])' = SeedsOf(AbiRegs[i]) \cup {SeedAt(i)}
  <2>1. \A k \in 1 .. Len(AbiRegs) : AbiRegs[k] = AbiRegs[i] => k = i
    BY DEF RegisterAssumption
  <2>2. \A id : id \in SeedsOf(AbiRegs[i])' <=> id \in DOMAIN names' /\ names'[id] = AbiRegs[i]
    BY DEF SeedsOf
  <2>3. \A id : id \in SeedsOf(AbiRegs[i]) <=> id \in DOMAIN names /\ names[id] = AbiRegs[i]
    BY DEF SeedsOf
  <2>4. \A id \in New : names'[id] = AbiRegs[i] => id = SeedAt(i)
    BY <1>4, <2>1
  <2>5. SeedAt(i) \in DOMAIN names' /\ names'[SeedAt(i)] = AbiRegs[i]
    BY <1>4
  <2> HIDE DEF New
  <2> QED
    BY <1>4, <2>2, <2>3, <2>4, <2>5
<1>6. ASSUME NEW r \in Registers
      PROVE  \E i \in 1 .. Len(AbiRegs) : r = AbiRegs[i]
  BY <1>1, Zenon DEF Registers, ToSet
<1>7. ASSUME NEW r \in Registers
      PROVE  IsFiniteSet(SeedsOf(r)') /\ Cardinality(SeedsOf(r)') = n + 1
  <2>1. PICK i \in 1 .. Len(AbiRegs) : r = AbiRegs[i]
    BY <1>6
  <2>2. IsFiniteSet(SeedsOf(r)) /\ Cardinality(SeedsOf(r)) = n
    BY DEF SeedFacts
  <2>3. SeedAt(i) \notin SeedsOf(r)
    BY <1>2, <1>3 DEF SeedsOf
  <2>4. SeedsOf(r)' = SeedsOf(r) \cup {SeedAt(i)}
    BY <1>5, <2>1
  <2>5. /\ IsFiniteSet(SeedsOf(r) \cup {SeedAt(i)})
        /\ Cardinality(SeedsOf(r) \cup {SeedAt(i)}) = n + 1
    BY <2>2, <2>3, FS_AddElement
  <2> QED
    BY <2>4, <2>5
<1>8. ASSUME NEW id \in DOMAIN names
      PROVE  SeededBefore(id)' = SeededBefore(id)
  <2>1. names[id] \in Registers /\ names'[id] = names[id]
    BY <1>4 DEF SeedFacts
  <2>2. PICK i \in 1 .. Len(AbiRegs) : names[id] = AbiRegs[i]
    BY <1>6, <2>1
  <2>3. ~(SeedAt(i) < id)
    BY <1>2, <1>3
  <2>4. \A x : x \in SeededBefore(id)' <=> x \in DOMAIN names' /\ names'[x] = names'[id] /\ x < id
    BY DEF SeededBefore, SeedsOf
  <2>5. \A x : x \in SeededBefore(id) <=> x \in DOMAIN names /\ names[x] = names[id] /\ x < id
    BY DEF SeededBefore, SeedsOf
  <2>6. \A x : x \in DOMAIN names' /\ x < id => x \in DOMAIN names
    BY <1>2, <1>3, <1>4
  <2>7. \A x \in DOMAIN names : x \in DOMAIN names' /\ names'[x] = names[x]
    BY <1>4
  <2>8. \A x : x \in SeededBefore(id)' <=> x \in SeededBefore(id)
    BY <2>1, <2>4, <2>5, <2>6, <2>7, Zenon
  <2> QED
    BY <2>8, Zenon
<1>9. ASSUME NEW b \in 1 .. n
      PROVE  AtEntry(b) \subseteq AtEntry(b)'
  <2>1. SeedsIn(b) \subseteq SeedsIn(b)'
    <3> SUFFICES ASSUME NEW id \in SeedsIn(b)
                 PROVE  id \in SeedsIn(b)'
      OBVIOUS
    <3>1. id \in DOMAIN names /\ Cardinality(SeededBefore(id)) = b - 1
      BY DEF SeedsIn
    <3>2. id \in DOMAIN names' /\ SeededBefore(id)' = SeededBefore(id)
      BY <1>4, <1>8, <3>1
    <3>3. id \in DOMAIN names' /\ Cardinality(SeededBefore(id)') = b - 1
      BY <3>1, <3>2
    <3> QED
      BY <3>3 DEF SeedsIn
  <2>2. Unloaded(b)' = Unloaded(b) /\ FromRipIn(b)' = FromRipIn(b)
    BY DEF SeedBlock, Unloaded, FromRipIn
  <2> QED
    BY <2>1, <2>2 DEF AtEntry
<1>10. ASSUME NEW i \in 1 .. Len(AbiRegs), NEW b, b = n + 1
       PROVE  SeedAt(i) \in SeedsIn(b)'
  <2>1. PICK id : id = SeedAt(i)
    OBVIOUS
  <2>2. PICK r : r = AbiRegs[i]
    OBVIOUS
  <2>3. id \in DOMAIN names' /\ names'[id] = r /\ r \in Registers
    BY <1>3, <1>4, <2>1, <2>2
  <2>4. SeededBefore(id)' = SeedsOf(r)
    <3>1. \A x \in SeedsOf(r) : x < id
      BY <1>2, <1>3, <2>1 DEF SeedsOf
    <3>2. ~(id < id)
      BY <1>3, <2>1
    <3>3. \A x : x \in SeededBefore(id)' <=> x \in SeedsOf(r)' /\ x < id
      BY <2>3 DEF SeededBefore, SeedsOf
    <3>4. SeedsOf(r)' = SeedsOf(r) \cup {id}
      BY <1>5, <2>1, <2>2
    <3>5. \A x : x \in SeededBefore(id)' <=> x \in SeedsOf(r)
      BY <3>1, <3>2, <3>3, <3>4
    <3> QED
      BY <3>5, Zenon
  <2>5. Cardinality(SeedsOf(r)) = b - 1
    <3>1. n \in Nat
      BY DEF LiftFacts, Counting, IsSeq
    <3>2. Cardinality(SeedsOf(r)) = n
      BY <2>3 DEF SeedFacts
    <3> QED
      BY <1>10, <3>1, <3>2
  <2>6. id \in DOMAIN names' /\ Cardinality(SeededBefore(id)') = b - 1
    BY <2>3, <2>4, <2>5
  <2>7. id \in SeedsIn(b)'
    BY <2>6 DEF SeedsIn
  <2> QED
    BY <2>1, <2>7
<1>11. \A id \in DOMAIN names' : names'[id] \in Registers
  BY <1>3, <1>4 DEF SeedFacts
<1> QED
  BY <1>7, <1>9, <1>10, <1>11

LEMMA SeedReads ==
    ASSUME LiftFacts, ReadFacts, LiftAssumption, RegisterAssumption, SeedBlock
    PROVE  ReadFacts'
<1> DEFINE n == Len(blocks)
           rec == [stmts |-> <<>>, term |-> Term("Unreachable", C(0), <<>>)]
<1>1. PICK S : blocks \in Seq(S)
  BY DEF LiftFacts, Counting, IsSeq
<1>2. blocks' = Append(blocks, rec)
  BY DEF SeedBlock
<1>3. rec.stmts = <<>> /\ TermReads(rec.term) = {}
  BY DEF TermReads, Term
<1> HIDE DEF rec
<1>4. blocks \in Seq(S \cup {rec}) /\ rec \in S \cup {rec}
  BY <1>1
<1>5. /\ n \in Nat /\ Len(blocks') = n + 1 /\ blocks'[n + 1] = rec
      /\ \A b \in 1 .. n : blocks'[b] = blocks[b]
  BY <1>2, <1>4
<1>0. PICK m : m = n + 1
  OBVIOUS
<1>6. /\ \A b \in 1 .. n : AtEntry(b) \subseteq AtEntry(b)'
      /\ \A i \in 1 .. Len(AbiRegs) : SeedAt(i) \in AtEntry(m)'
      /\ SeedFacts'
  <2>1. SeedFacts
    BY DEF ReadFacts
  <2>2. \A i \in 1 .. Len(AbiRegs) : SeedAt(i) \in SeedsIn(m)'
    BY <1>0, <2>1, SeedsGrow
  <2>3. \A i \in 1 .. Len(AbiRegs) : SeedAt(i) \in AtEntry(m)'
    BY <2>2 DEF AtEntry
  <2>4. SeedFacts'
    BY <1>5, <2>1, SeedsGrow DEF SeedFacts
  <2> QED
    BY <2>1, <2>3, <2>4, SeedsGrow
<1>7. BlocksRead'
  <2> SUFFICES ASSUME NEW b \in 1 .. n + 1
               PROVE  /\ Sound(blocks'[b].stmts, AtEntry(b)')
                      /\ TermReads(blocks'[b].term) \subseteq AtEnd(blocks'[b].stmts, AtEntry(b)')
    BY <1>5 DEF BlocksRead, Sound, AtEnd
  <2>1. CASE b = n + 1
    BY <2>1, <1>3, <1>5, SoundNothing
  <2>2. CASE b # n + 1
    <3>1. b \in 1 .. n /\ blocks'[b] = blocks[b]
      BY <1>5, <2>2
    <3>2. /\ Sound(blocks[b].stmts, AtEntry(b))
          /\ TermReads(blocks[b].term) \subseteq AtEnd(blocks[b].stmts, AtEntry(b))
      BY <3>1 DEF ReadFacts, BlocksRead
    <3>3. /\ Sound(blocks[b].stmts, AtEntry(b)')
          /\ AtEnd(blocks[b].stmts, AtEntry(b)) \subseteq AtEnd(blocks[b].stmts, AtEntry(b)')
      BY <1>6, <3>1, <3>2, SoundGrows
    <3> QED
      BY <3>1, <3>2, <3>3
  <2> QED
    BY <2>1, <2>2
<1>8. ASSUME NEW r \in RegNames
      PROVE  regs'[r] \in AtEntry(m)'
  <2>1. Wide(r) \in Registers
    BY DEF RegisterAssumption, RegNames, Wide
  <2>2. \E i \in 1 .. Len(AbiRegs) : AbiRegs[i] = Wide(r)
    <3>1. DOMAIN AbiRegs = 1 .. Len(AbiRegs)
      BY DEF LiftAssumption
    <3> QED
      BY <2>1, <3>1 DEF Registers, ToSet
  <2>3. PICK k \in 1 .. Len(AbiRegs) : k = CHOOSE i \in 1 .. Len(AbiRegs) : AbiRegs[i] = Wide(r)
    BY <2>2
  <2>4. regs'[r] = SeedAt(k)
    BY <2>3 DEF SeedBlock
  <2> QED
    BY <2>4, <1>6
<1>9. InReach' = AtEntry(m)'
  <2>1. InReach' = AtEnd(blocks'[Len(blocks')].stmts, AtEntry(Len(blocks))')
    BY DEF InReach, AtEnd
  <2>2. blocks'[Len(blocks')].stmts = <<>>
    BY <1>3, <1>5
  <2>3. Len(blocks)' = m
    BY <1>0, <1>5
  <2>4. AtEntry(Len(blocks))' = AtEntry(m)'
    BY <2>3 DEF AtEntry, SeedsIn, SeededBefore, SeedsOf, Unloaded, FromRipIn
  <2> QED
    BY <2>1, <2>2, <2>4, SoundNothing
<1>10. DOMAIN regs' = RegNames
  BY DEF SeedBlock
<1> QED
  BY <1>6, <1>7, <1>8, <1>9, <1>10 DEF ReadFacts, RegsInReach

LEMMA EndReads ==
    ASSUME LiftFacts, ReadFacts, RegisterAssumption, EndBlock
    PROVE  ReadFacts'
<1> DEFINE n == Len(blocks)
           end == prog[at].end
           val == IF end = "Return" THEN R("rax") ELSE C(0)
           t == Term(end, val, prog[at].to)
           rec == [stmts |-> blocks[n].stmts, term |-> t]
<1>1. PICK S : blocks \in Seq(S)
  BY DEF LiftFacts, Counting, IsSeq
<1>2. n \in Nat /\ n > 0 /\ n \in 1 .. n /\ pc >= 0 /\ pc' = -1
  BY <1>1 DEF LiftFacts, Counting, EndBlock
<1>3. blocks' = [blocks EXCEPT ![n] = rec] /\ \A b : AtEntry(b)' = AtEntry(b)
  BY EntryKept DEF EndBlock, at
<1>4. rec.stmts = blocks[n].stmts /\ rec.term = t
  OBVIOUS
<1>5. AtHand(val, InReach)
  <2>1. "rax" \in RegNames
    BY Known64
  <2>2. regs["rax"] \in InReach
    BY <2>1, <1>2 DEF ReadFacts, RegsInReach
  <2> QED
    BY <2>2 DEF AtHand, R, V, C
<1> HIDE DEF val
<1>6. TermReads(t) \subseteq InReach
  <2>1. VarsOf(<<val>>) \subseteq InReach
    BY <1>5, OneArg
  <2>2. t.val = val
    BY DEF Term
  <2> HIDE DEF t
  <2> QED
    BY <2>1, <2>2 DEF TermReads
<1> HIDE DEF rec, t
<1>7. /\ Len(blocks') = n
      /\ blocks'[n] = rec /\ \A b \in 1 .. n : b # n => blocks'[b] = blocks[b]
  BY <1>1, <1>2, <1>3
<1>8. BlocksRead'
  <2> SUFFICES ASSUME NEW b \in 1 .. n
               PROVE  /\ Sound(blocks'[b].stmts, AtEntry(b))
                      /\ TermReads(blocks'[b].term) \subseteq AtEnd(blocks'[b].stmts, AtEntry(b))
    BY <1>3, <1>7 DEF BlocksRead
  <2>1. CASE b = n
    BY <2>1, <1>2, <1>4, <1>6, <1>7 DEF ReadFacts, BlocksRead, InReach
  <2>2. CASE b # n
    BY <2>2, <1>7 DEF ReadFacts, BlocksRead
  <2> QED
    BY <2>1, <2>2
<1>9. RegsInReach'
  BY <1>2 DEF RegsInReach
<1>10. SeedFacts'
  BY <1>7, EntryKept DEF ReadFacts, SeedFacts, EndBlock
<1> QED
  BY <1>8, <1>9, <1>10 DEF ReadFacts

LEMMA LiftReads ==
    ASSUME LiftFacts, ReadFacts, Len(blocks) <= Len(prog), prog \in Programs,
           LiftAssumption, RegisterAssumption, LiftNext
    PROVE  ReadFacts'
<1>1. CASE SeedBlock
  BY <1>1, SeedReads
<1>2. CASE EndBlock
  BY <1>2, EndReads
<1>3. \A ops : Ready(ops) => pc >= 0 /\ pc < Len(Code)
  BY DEF Ready
<1>4. pc >= 0 /\ pc < Len(Code) => Under
  BY InsnIs DEF Under
<1>5. CASE LiftMov \/ LiftMovsx \/ LiftLoad
  <2>1. Under
    BY <1>3, <1>4, <1>5, Zenon DEF LiftMov, LiftMovsx, LiftLoad
  <2> QED
    BY <2>1, <1>5, MovesRead
<1>6. CASE LiftStore \/ LiftLea
  <2>1. Under
    BY <1>3, <1>4, <1>6, Zenon DEF LiftStore, LiftLea
  <2> QED
    BY <2>1, <1>6, PointersRead
<1>7. CASE LiftBinop \/ LiftBinopMem \/ LiftUnary \/ LiftZero \/ LiftLeaRip
  <2>1. Under
    BY <1>3, <1>4, <1>7, Zenon DEF LiftBinop, LiftBinopMem, LiftUnary, LiftZero, LiftLeaRip
  <2> QED
    BY <2>1, <1>7, SumsRead
<1>8. CASE LiftPush \/ LiftPop \/ LiftLeave
  <2>1. Under
    BY <1>3, <1>4, <1>8, Zenon DEF LiftPush, LiftPop, LiftLeave
  <2> QED
    BY <2>1, <1>8, StackRead
<1>9. CASE LiftDiv \/ LiftXchg \/ LiftCall \/ LiftSyscall \/ LiftNop \/ LiftOpaque
  <2>1. Under
    BY <1>3, <1>4, <1>9, Zenon DEF LiftDiv, LiftXchg, LiftCall, LiftSyscall, LiftNop, LiftOpaque
  <2> QED
    BY <2>1, <1>9, OthersRead
<1> QED
  BY <1>1, <1>2, <1>5, <1>6, <1>7, <1>8, <1>9, Zenon DEF LiftNext

-----------------------------------------------------------------------------
(* What the rounds on dead assignments leave.                              *)

Numbers == INSTANCE FlowGraphProofs WITH Graphs <- {}

\* t has the first m statements of s that are kept, in their order; statement
\* i of t was statement g[i].
Retains(t, s, g, m) ==
    /\ IsSeq(t)
    /\ \A i \in 1 .. Len(t) : g[i] \in 1 .. m /\ t[i] = s[g[i]]
    /\ \A i, j \in 1 .. Len(t) : i < j => g[i] < g[j]
    /\ \A i \in 1 .. m : Kept(s[i]) => \E j \in 1 .. Len(t) : g[j] = i

\* One more statement.
LEMMA RetainsNext ==
    ASSUME NEW s, NEW t, NEW u, NEW g, NEW m \in Nat, Retains(t, s, g, m),
           u = IF Kept(s[m + 1]) THEN Append(t, s[m + 1]) ELSE t
    PROVE  \E h : Retains(u, s, h, m + 1)
<1>1. PICK S : t \in Seq(S)
  BY DEF Retains, IsSeq
<1>2. Len(t) \in Nat
  BY <1>1
<1>3. CASE ~Kept(s[m + 1])
  <2>1. u = t
    BY <1>3
  <2>2. \A i \in 1 .. m + 1 : i \in 1 .. m \/ i = m + 1
    OBVIOUS
  <2>3. \A i \in 1 .. m + 1 : Kept(s[i]) => \E j \in 1 .. Len(t) : g[j] = i
    BY <1>3, <2>2 DEF Retains
  <2>4. \A i \in 1 .. Len(t) : g[i] \in 1 .. m + 1
    BY DEF Retains
  <2>5. Retains(t, s, g, m + 1)
    BY <2>3, <2>4 DEF Retains
  <2> QED
    BY <2>1, <2>5
<1>4. CASE Kept(s[m + 1])
  <2> DEFINE x == s[m + 1]
             n == Len(t)
  <2>1. u = Append(t, x)
    BY <1>4
  <2>2. t \in Seq(S \cup {x}) /\ x \in S \cup {x}
    BY <1>1
  <2>3. u \in Seq(S \cup {x}) /\ Len(u) = n + 1 /\ u[n + 1] = x /\ \A i \in 1 .. n : u[i] = t[i]
    BY <2>1, <2>2
  <2>4. IsSeq(u)
    BY <2>3, Zenon DEF IsSeq
  <2>5. PICK h : h = [i \in 1 .. n + 1 |-> IF i = n + 1 THEN m + 1 ELSE g[i]]
    OBVIOUS
  <2>6. h[n + 1] = m + 1 /\ \A i \in 1 .. n : h[i] = g[i]
    BY <1>2, <2>5
  <2>7. \A i \in 1 .. n + 1 : i \in 1 .. n \/ i = n + 1
    BY <1>2
  <2>8. \A i \in 1 .. n : g[i] \in 1 .. m /\ t[i] = s[g[i]]
    BY DEF Retains
  <2> HIDE DEF n
  <2>9. \A i \in 1 .. n + 1 : h[i] \in 1 .. m + 1 /\ u[i] = s[h[i]]
    BY <2>3, <2>6, <2>7, <2>8
  <2>10. ASSUME NEW i \in 1 .. n + 1, NEW j \in 1 .. n + 1, i < j
         PROVE  h[i] < h[j]
    <3>1. i \in 1 .. n
      BY <2>7, <2>10, <1>2 DEF n
    <3>2. CASE j = n + 1
      BY <3>1, <3>2, <2>6, <2>8
    <3>3. CASE j \in 1 .. n
      BY <3>1, <3>3, <2>6, <2>10 DEF Retains, n
    <3> QED
      BY <3>2, <3>3, <2>7
  <2>11. ASSUME NEW i \in 1 .. m + 1, Kept(s[i])
         PROVE  \E j \in 1 .. n + 1 : h[j] = i
    <3>1. CASE i = m + 1
      <4>1. n + 1 \in 1 .. n + 1
        BY <1>2 DEF n
      <4> QED
        BY <3>1, <4>1, <2>6
    <3>2. CASE i # m + 1
      <4>1. i \in 1 .. m
        BY <3>2
      <4>2. PICK j \in 1 .. n : g[j] = i
        BY <4>1, <2>11 DEF Retains, n
      <4>3. j \in 1 .. n + 1
        BY <4>2, <1>2 DEF n
      <4> QED
        BY <4>2, <4>3, <2>6
    <3> QED
      BY <3>1, <3>2
  <2>12. Retains(u, s, h, m + 1)
    BY <2>3, <2>4, <2>9, <2>10, <2>11 DEF Retains
  <2> QED
    BY <2>12
<1> QED
  BY <1>3, <1>4

LEMMA RetainedAre ==
    ASSUME NEW s, IsSeq(s), NEW kept, kept[0] = <<>>,
           \A i \in 1 .. Len(s) :
                kept[i] = IF Kept(s[i]) THEN Append(kept[i - 1], s[i]) ELSE kept[i - 1]
    PROVE  \E g : Retains(kept[Len(s)], s, g, Len(s))
<1> DEFINE A == {m \in Nat : m <= Len(s) => \E g : Retains(kept[m], s, g, m)}
<1>1. PICK S : s \in Seq(S)
  BY DEF IsSeq
<1>2. Len(s) \in Nat
  BY <1>1
<1>3. 0 \in A
  <2>1. IsSeq(<<>>)
    BY FreshNothing DEF Fresh
  <2>2. Len(<<>>) = 0
    OBVIOUS
  <2>3. Retains(<<>>, s, <<>>, 0)
    BY <2>1, <2>2 DEF Retains
  <2> QED
    BY <2>3
<1>4. ASSUME NEW m \in Nat, m \in A
      PROVE  m + 1 \in A
  <2> SUFFICES ASSUME m + 1 <= Len(s)
               PROVE  \E g : Retains(kept[m + 1], s, g, m + 1)
    OBVIOUS
  <2>1. m <= Len(s) /\ m + 1 \in 1 .. Len(s) /\ (m + 1) - 1 = m
    BY <1>2
  <2>2. PICK g : Retains(kept[m], s, g, m)
    BY <1>4, <2>1
  <2>3. kept[m + 1] = IF Kept(s[m + 1]) THEN Append(kept[m], s[m + 1]) ELSE kept[m]
    BY <2>1
  <2> QED
    BY <2>2, <2>3, RetainsNext
<1> HIDE DEF A
<1>5. \A m \in Nat : m \in A
  BY <1>3, <1>4, Numbers!AllNumbers
<1> QED
  BY <1>2, <1>5 DEF A

\* The recursion of AllKept, unfolded.
LEMMA AllKeptUnfolds ==
    ASSUME NEW b, IsSeq(blocks[b].stmts)
    PROVE  \E g : Retains(AllKept(b), blocks[b].stmts, g, Len(blocks[b].stmts))
<1>1. PICK s, n : s = blocks[b].stmts /\ n = Len(s)
  OBVIOUS
<1>2. PICK S : s \in Seq(S)
  BY <1>1 DEF IsSeq
<1>3. n \in Nat /\ \A i \in 1 .. n : s[i] \in S
  BY <1>1, <1>2
<1> DEFINE Grown(t, i) == IF Kept(s[i]) THEN Append(t, s[i]) ELSE t
           kept == CHOOSE f : f = [i \in 0 .. n |->
                IF i = 0 THEN <<>>
                ELSE IF Kept(s[i]) THEN Append(f[i - 1], s[i]) ELSE f[i - 1]]
<1>4. AllKept(b) = kept[n]
  BY <1>1 DEF AllKept
<1> HIDE DEF kept
<1>5. PICK T, step :
        /\ T = Nat \X Seq(S)
        /\ step = [p \in Nat \X Seq(S) |->
                    <<p[1] + 1, IF p[1] + 1 \in 1 .. n THEN Grown(p[2], p[1] + 1) ELSE p[2]>>]
  OBVIOUS
<1>6. step \in [T -> T]
  <2> SUFFICES ASSUME NEW p \in Nat \X Seq(S)
               PROVE  <<p[1] + 1, IF p[1] + 1 \in 1 .. n THEN Grown(p[2], p[1] + 1) ELSE p[2]>>
                        \in Nat \X Seq(S)
    BY <1>5
  <2>1. p[1] + 1 \in Nat /\ p[2] \in Seq(S)
    OBVIOUS
  <2>2. p[1] + 1 \in 1 .. n => Grown(p[2], p[1] + 1) \in Seq(S)
    BY <2>1, <1>3
  <2> QED
    BY <2>1, <2>2
<1>7. PICK x : x = <<0, <<>>>>
  OBVIOUS
<1>8. x \in T
  <2>1. <<>> \in Seq(S)
    OBVIOUS
  <2>2. <<0, <<>>>> \in Nat \X Seq(S)
    BY <2>1
  <2> QED
    BY <2>2, <1>5, <1>7, Zenon
<1>9. PICK h \in [Nat -> T] : h[0] = x /\ \A k \in Nat : h[k + 1] = step[h[k]]
  <2>1. \A y \in T : \E f \in [Nat -> T] : f[0] = y /\ \A k \in Nat : f[k + 1] = step[f[k]]
    BY <1>6, Numbers!IterationExists
  <2> QED
    BY <2>1, <1>8, Zenon
<1>10. \A k \in Nat :
        /\ h[k + 1][1] = h[k][1] + 1
        /\ h[k + 1][2] = IF h[k][1] + 1 \in 1 .. n THEN Grown(h[k][2], h[k][1] + 1) ELSE h[k][2]
  <2> TAKE k \in Nat
  <2>1. h[k] \in Nat \X Seq(S) /\ h[k + 1] = step[h[k]]
    BY <1>5, <1>9
  <2>2. h[k + 1] = <<h[k][1] + 1, IF h[k][1] + 1 \in 1 .. n THEN Grown(h[k][2], h[k][1] + 1) ELSE h[k][2]>>
    BY <2>1, <1>5, Zenon
  <2> HIDE DEF Grown
  <2> QED
    BY <2>2
<1> HIDE DEF Grown
<1>11. \A k \in Nat : h[k][1] = k
  <2> DEFINE A == {k \in Nat : h[k][1] = k}
  <2>1. 0 \in A
    BY <1>7, <1>9
  <2>2. \A k \in Nat : k \in A => k + 1 \in A
    BY <1>10
  <2> HIDE DEF A
  <2>3. \A k \in Nat : k \in A
    BY <2>1, <2>2, Numbers!AllNumbers
  <2> QED
    BY <2>3 DEF A
<1>12. PICK f : f = [i \in 0 .. n |-> h[i][2]]
  OBVIOUS
<1>13. f[0] = <<>> /\ \A i \in 1 .. n : f[i] = Grown(f[i - 1], i)
  <2>1. f[0] = <<>>
    BY <1>3, <1>7, <1>9, <1>12
  <2>2. ASSUME NEW i \in 1 .. n
        PROVE  f[i] = Grown(f[i - 1], i)
    <3>1. i - 1 \in Nat /\ (i - 1) + 1 = i /\ i \in 0 .. n /\ i - 1 \in 0 .. n
      BY <1>3
    <3>2. h[i][2] = Grown(h[i - 1][2], i)
      BY <1>10, <1>11, <3>1
    <3> QED
      BY <3>1, <3>2, <1>12
  <2> QED
    BY <2>1, <2>2
<1>14. f = [i \in 0 .. n |->
                IF i = 0 THEN <<>>
                ELSE IF Kept(s[i]) THEN Append(f[i - 1], s[i]) ELSE f[i - 1]]
  <2>1. f = [i \in 0 .. n |-> f[i]]
    BY <1>12
  <2>2. \A i \in 0 .. n : i # 0 => i \in 1 .. n
    BY <1>3
  <2>3. \A i \in 0 .. n : f[i] = IF i = 0 THEN <<>>
                ELSE IF Kept(s[i]) THEN Append(f[i - 1], s[i]) ELSE f[i - 1]
    BY <1>13, <2>2 DEF Grown
  <2> QED
    BY <2>1, <2>3
<1>15. kept = [i \in 0 .. n |->
                IF i = 0 THEN <<>>
                ELSE IF Kept(s[i]) THEN Append(kept[i - 1], s[i]) ELSE kept[i - 1]]
  BY <1>14, Zenon DEF kept
<1>16. kept[0] = <<>>
  BY <1>3, <1>15
<1>17. \A i \in 1 .. n : kept[i] = IF Kept(s[i]) THEN Append(kept[i - 1], s[i]) ELSE kept[i - 1]
  <2> TAKE i \in 1 .. n
  <2>1. i \in 0 .. n /\ i # 0
    BY <1>3
  <2> QED
    BY <2>1, <1>15, Zenon
<1>18. \E g : Retains(kept[Len(s)], s, g, Len(s))
  BY <1>1, <1>16, <1>17, RetainedAre
<1> QED
  BY <1>1, <1>4, <1>18

-----------------------------------------------------------------------------
(* What a pass may do to the statements.                                   *)

Stmts == \A b \in 1 .. Len(blocks) : \A i \in 1 .. Len(blocks[b].stmts) : IsStmt(blocks[b].stmts[i])

LEMMA RowIs ==
    ASSUME NEW n \in Nat, NEW h, h = [i \in 1 .. n |-> h[i]]
    PROVE  IsSeq(h) /\ Len(h) = n
<1>1. PICK S : S = {h[i] : i \in 1 .. n}
  OBVIOUS
<1>2. h \in [1 .. n -> S]
  BY <1>1
<1>3. h \in Seq(S) /\ Len(h) = n
  BY <1>2
<1> QED
  BY <1>3, Zenon DEF IsSeq

LEMMA BlocksAre ==
    ASSUME LiftFacts
    PROVE  /\ Len(blocks) \in Nat /\ DOMAIN blocks = 1 .. Len(blocks)
           /\ \A b \in 1 .. Len(blocks) :
                /\ IsSeq(blocks[b].stmts) /\ Len(blocks[b].stmts) \in Nat
                /\ DOMAIN blocks[b].stmts = 1 .. Len(blocks[b].stmts)
<1>1. \A s : IsSeq(s) => Len(s) \in Nat /\ DOMAIN s = 1 .. Len(s)
  BY DEF IsSeq
<1> QED
  BY <1>1 DEF LiftFacts, Counting, BlockShape

\* The blocks stay, and no id is given out.
Holds ==
    /\ prog' = prog /\ names' = names /\ nextId' = nextId /\ pc' = pc
    /\ IsSeq(blocks') /\ Len(blocks') = Len(blocks)
    /\ \A b \in 1 .. Len(blocks) :
        /\ IsSeq(blocks'[b].stmts)
        /\ blocks'[b] = [stmts |-> blocks'[b].stmts, term |-> blocks'[b].term]

\* An assignment is one of before: statement i of block b was statement f[b][i].
Traced(f) ==
    /\ \A b, i : AssignedAt(b, i)' => AssignedAt(b, f[b][i]) /\ IdAt(b, i)' = IdAt(b, f[b][i])
    /\ \A b, i, j : AssignedAt(b, i)' /\ AssignedAt(b, j)' /\ f[b][i] = f[b][j] => i = j

LEMMA TracedKeeps ==
    ASSUME LiftFacts, Holds, NEW f, Traced(f)
    PROVE  LiftFacts'
<1>1. Counting'
  BY DEF LiftFacts, Counting, Holds
<1>2. BlockShape'
  BY DEF Holds, BlockShape
<1>3. Seeds'
  BY DEF LiftFacts, Seeds, Holds
<1>4. IdsGivenOut'
  <2> SUFFICES ASSUME NEW b, NEW i, AssignedAt(b, i)'
               PROVE  (IdAt(b, i) \in Nat /\ IdAt(b, i) < nextId /\ IdAt(b, i) \notin DOMAIN names)'
    BY DEF IdsGivenOut
  <2>1. AssignedAt(b, f[b][i]) /\ IdAt(b, i)' = IdAt(b, f[b][i])
    BY DEF Traced
  <2> QED
    BY <2>1 DEF LiftFacts, IdsGivenOut, Holds
<1>5. OnceEach'
  <2> SUFFICES ASSUME NEW b, NEW i, NEW c, NEW j, AssignedAt(b, i)', AssignedAt(c, j)',
                      IdAt(b, i)' = IdAt(c, j)'
               PROVE  b = c /\ i = j
    BY DEF OnceEach
  <2>1. /\ AssignedAt(b, f[b][i]) /\ IdAt(b, i)' = IdAt(b, f[b][i])
        /\ AssignedAt(c, f[c][j]) /\ IdAt(c, j)' = IdAt(c, f[c][j])
    BY DEF Traced
  <2>2. b = c /\ f[b][i] = f[c][j]
    BY <2>1 DEF LiftFacts, OnceEach
  <2> QED
    BY <2>2 DEF Traced
<1> QED
  BY <1>1, <1>2, <1>3, <1>4, <1>5 DEF LiftFacts

\* One statement in the place of another.
Replaces(new, old) == IsStmt(new) /\ (IsAssign(new) => IsAssign(old) /\ new.lhs = old.lhs)

InPlace ==
    \A b \in 1 .. Len(blocks) :
        /\ Len(blocks'[b].stmts) = Len(blocks[b].stmts)
        /\ \A i \in 1 .. Len(blocks[b].stmts) : Replaces(blocks'[b].stmts[i], blocks[b].stmts[i])

LEMMA InPlaceKeeps ==
    ASSUME LiftFacts, Holds, InPlace
    PROVE  LiftFacts' /\ Stmts'
<1>1. PICK f : f = [b \in 1 .. Len(blocks) |-> [i \in 1 .. Len(blocks[b].stmts) |-> i]]
  OBVIOUS
<1>2. ASSUME NEW b, NEW i, AssignedAt(b, i)'
      PROVE  f[b][i] = i /\ AssignedAt(b, i) /\ IdAt(b, i)' = IdAt(b, i)
  <2>1. b \in 1 .. Len(blocks) /\ i \in 1 .. Len(blocks[b].stmts) /\ IsAssign(blocks'[b].stmts[i])
    BY <1>2 DEF AssignedAt, Holds, InPlace
  <2>2. IsAssign(blocks[b].stmts[i]) /\ blocks'[b].stmts[i].lhs = blocks[b].stmts[i].lhs
    BY <2>1 DEF InPlace, Replaces
  <2> QED
    BY <2>1, <2>2, <1>1 DEF AssignedAt, IdAt
<1>3. Traced(f)
  BY <1>2 DEF Traced
<1>4. LiftFacts'
  BY <1>3, TracedKeeps
<1>5. Stmts'
  BY DEF Stmts, Holds, InPlace, Replaces
<1> QED
  BY <1>4, <1>5

\* The passes that rewrite the statements of each block.
LEMMA StatementsHold ==
    ASSUME LiftFacts, KeepIds, NEW h,
           blocks' = [b \in DOMAIN blocks |-> [stmts |-> h[b], term |-> blocks[b].term]],
           \A b \in DOMAIN blocks : IsSeq(h[b])
    PROVE  /\ Holds /\ DOMAIN blocks' = DOMAIN blocks
           /\ \A b \in DOMAIN blocks : blocks'[b].stmts = h[b] /\ blocks'[b].term = blocks[b].term
<1>1. Len(blocks) \in Nat /\ DOMAIN blocks = 1 .. Len(blocks)
  BY BlocksAre
<1>2. blocks' = [b \in 1 .. Len(blocks) |-> blocks'[b]]
  BY <1>1
<1>3. IsSeq(blocks') /\ Len(blocks') = Len(blocks)
  BY <1>1, <1>2, RowIs
<1>4. \A b \in DOMAIN blocks : blocks'[b] = [stmts |-> h[b], term |-> blocks[b].term]
  OBVIOUS
<1>5. \A b \in DOMAIN blocks : blocks'[b].stmts = h[b] /\ blocks'[b].term = blocks[b].term
  BY <1>4
<1>6. Holds
  BY <1>1, <1>3, <1>4, <1>5 DEF Holds, KeepIds
<1>7. DOMAIN blocks' = DOMAIN blocks
  OBVIOUS
<1> QED
  BY <1>5, <1>6, <1>7

\* A statement with other arguments.
LEMMA WithArgs ==
    ASSUME NEW s, IsStmt(s), NEW args, IsSeq(args)
    PROVE  /\ Replaces([s EXCEPT !.args = args], s)
           /\ [s EXCEPT !.args = args].args = args
           /\ \A id : Computes([s EXCEPT !.args = args], id) <=> Computes(s, id)
<1> DEFINE t == [s EXCEPT !.args = args]
<1>1. PICK kind, lhs, op, old, target :
        s = [kind |-> kind, lhs |-> lhs, op |-> op, args |-> old, target |-> target]
  BY DEF IsStmt
<1>2. t = [kind |-> kind, lhs |-> lhs, op |-> op, args |-> args, target |-> target]
  BY <1>1
<1>3. t.kind = s.kind /\ t.lhs = s.lhs /\ t.args = args
  BY <1>1, <1>2
<1>4. IsStmt(t)
  BY <1>2 DEF IsStmt
<1> HIDE DEF t
<1>5. Replaces(t, s) /\ \A id : Computes(t, id) <=> Computes(s, id)
  BY <1>3, <1>4 DEF Replaces, Computes, IsAssign
<1> QED
  BY <1>3, <1>5 DEF t

LEMMA Itself ==
    ASSUME NEW s, IsStmt(s)
    PROVE  Replaces(s, s) /\ Replaces(Nop, s)
<1>1. IsStmt(Nop)
  BY NoArgs DEF IsStmt, Nop
<1>2. ~IsAssign(Nop)
  BY DEF IsAssign, Nop
<1> QED
  BY <1>1, <1>2 DEF Replaces

LEMMA RowOfArgs ==
    ASSUME NEW args, IsSeq(args), NEW h, h = [i \in 1 .. Len(args) |-> h[i]]
    PROVE  IsSeq(h) /\ Len(h) = Len(args)
<1>1. Len(args) \in Nat
  BY DEF IsSeq
<1> QED
  BY <1>1, RowIs

-----------------------------------------------------------------------------
(* Constants.                                                              *)

\* A symbol stands where a value was; nothing else is read than before.
LEMMA ResolvedIs ==
    ASSUME NEW s, NEW eval, IsStmt(s)
    PROVE  /\ Replaces(Resolved(s, eval), s) /\ Reads(Resolved(s, eval)) \subseteq Reads(s)
           /\ \A id : Computes(Resolved(s, eval), id) <=> Computes(s, id)
<1>1. PICK kind, lhs, op, args, target :
        /\ s = [kind |-> kind, lhs |-> lhs, op |-> op, args |-> args, target |-> target]
        /\ IsSeq(args)
  BY DEF IsStmt
<1>2. CASE IsOp(s, {"Call"})
  <2> DEFINE new == [i \in 1 .. Len(args) |-> ResolvedArg(args[i], eval)]
             t == [kind |-> kind, lhs |-> lhs, op |-> op, args |-> new, target |-> ResolvedTarget(target)]
  <2>1. Resolved(s, eval) = t
    <3>0. ~(Evaluated(s, eval) \cap (Functions \cup Strings) # {})
      <4>1. Evaluated(s, eval) = {}
        BY <1>2 DEF Evaluated, IsOp
      <4> QED
        BY <4>1
    <3>1. Resolved(s, eval) =
            [s EXCEPT !.target = ResolvedTarget(@),
                      !.args = [i \in 1 .. Len(@) |-> ResolvedArg(@[i], eval)]]
      BY <1>2, <3>0 DEF Resolved
    <3>2. s.args = args /\ s.target = target
      BY <1>1
    <3>3. Resolved(s, eval) = [s EXCEPT !.target = ResolvedTarget(target), !.args = new]
      BY <3>1, <3>2
    <3> HIDE DEF new
    <3> QED
      BY <1>1, <3>3
  <2>2. IsSeq(new) /\ Len(new) = Len(args)
    BY <1>1, RowOfArgs
  <2>3. VarsOf(new) \subseteq VarsOf(args)
    <3>1. \A i \in 1 .. Len(args) : new[i].var => new[i] = args[i]
      BY DEF ResolvedArg, C
    <3> HIDE DEF new
    <3> QED
      BY <2>2, <3>1 DEF VarsOf
  <2> HIDE DEF new
  <2>4. t.kind = s.kind /\ t.lhs = s.lhs /\ t.args = new /\ s.args = args /\ IsStmt(t)
    BY <1>1, <2>2 DEF IsStmt
  <2> HIDE DEF t
  <2>5. Replaces(t, s) /\ Reads(t) \subseteq Reads(s) /\ \A id : Computes(t, id) <=> Computes(s, id)
    BY <2>3, <2>4 DEF Replaces, Reads, Computes, IsAssign
  <2> QED
    BY <2>1, <2>5
<1>3. CASE ~IsOp(s, {"Call"}) /\ Evaluated(s, eval) \cap (Functions \cup Strings) # {}
  <2> DEFINE new == <<C(CHOOSE k \in Evaluated(s, eval) : TRUE)>>
             t == [kind |-> kind, lhs |-> lhs, op |-> "Symbol", args |-> new, target |-> target]
  <2>1. Resolved(s, eval) = t
    BY <1>1, <1>3 DEF Resolved
  <2>2. IsSeq(new) /\ VarsOf(new) \subseteq {}
    <3>1. \A k : AtHand(C(k), {})
      BY DEF AtHand, C
    <3> QED
      BY <3>1, OneArg
  <2> HIDE DEF new
  <2>3. t.kind = s.kind /\ t.lhs = s.lhs /\ t.args = new /\ IsStmt(t)
    BY <1>1, <2>2 DEF IsStmt
  <2> HIDE DEF t
  <2>4. Replaces(t, s) /\ Reads(t) \subseteq Reads(s) /\ \A id : Computes(t, id) <=> Computes(s, id)
    BY <2>2, <2>3 DEF Replaces, Reads, Computes, IsAssign
  <2> QED
    BY <2>1, <2>4
<1>4. CASE ~IsOp(s, {"Call"}) /\ Evaluated(s, eval) \cap (Functions \cup Strings) = {}
  <2>1. Resolved(s, eval) = s
    BY <1>4 DEF Resolved
  <2> QED
    BY <2>1, Itself
<1> QED
  BY <1>2, <1>3, <1>4

\* What the passes keep: as Sound, but for the targets of indirect calls.
Fed(s, K) ==
    /\ IsSeq(s)
    /\ \A i \in 1 .. Len(s) : IsStmt(s[i])
    /\ \A i \in 1 .. Len(s) : \A id \in Reads(s[i]) :
            id \in K \/ \E j \in 1 .. i - 1 : Computes(s[j], id)

BlocksFed ==
    \A b \in 1 .. Len(blocks) :
        /\ Fed(blocks[b].stmts, AtEntry(b))
        /\ TermReads(blocks[b].term) \subseteq AtEnd(blocks[b].stmts, AtEntry(b))

LEMMA ReadAreFed == BlocksRead => BlocksFed
BY DEF BlocksRead, BlocksFed, Sound, Fed, DependsOn

\* A block that reads less and computes the same.
LEMMA FedLess ==
    ASSUME NEW s, NEW t, NEW K, Fed(s, K), IsSeq(t), Len(t) = Len(s),
           \A i \in 1 .. Len(s) :
                IsStmt(t[i]) /\ Reads(t[i]) \subseteq Reads(s[i])
                /\ \A id : Computes(t[i], id) <=> Computes(s[i], id)
    PROVE  Fed(t, K) /\ AtEnd(t, K) = AtEnd(s, K)
<1>1. Len(s) \in Nat
  BY DEF Fed, IsSeq
<1>2. ASSUME NEW i \in 1 .. Len(t), NEW id \in Reads(t[i])
      PROVE  id \in K \/ \E j \in 1 .. i - 1 : Computes(t[j], id)
  <2>1. id \in K \/ \E j \in 1 .. i - 1 : Computes(s[j], id)
    BY DEF Fed
  <2>2. \A j \in 1 .. i - 1 : j \in 1 .. Len(s)
    BY <1>1
  <2> QED
    BY <2>1, <2>2
<1>3. Fed(t, K)
  BY <1>2 DEF Fed
<1>4. \A id : id \in AtEnd(t, K) <=> id \in AtEnd(s, K)
  BY AtEndIs
<1> QED
  BY <1>3, <1>4

LEMMA ResolveKeeps ==
    ASSUME LiftFacts, Stmts, ResolveConstants
    PROVE  LiftFacts' /\ Stmts' /\ (BlocksFed => BlocksFed')
<1>1. PICK eval : blocks' = [b \in DOMAIN blocks |->
          [stmts |-> [i \in 1 .. Len(blocks[b].stmts) |-> Resolved(blocks[b].stmts[i], eval)],
           term |-> blocks[b].term]]
  BY DEF ResolveConstants, Statements
<1>2. PICK h : h = [b \in DOMAIN blocks |->
          [i \in 1 .. Len(blocks[b].stmts) |-> Resolved(blocks[b].stmts[i], eval)]]
  OBVIOUS
<1>3. blocks' = [b \in DOMAIN blocks |-> [stmts |-> h[b], term |-> blocks[b].term]]
  BY <1>1, <1>2
<1>4. DOMAIN blocks = 1 .. Len(blocks)
  BY BlocksAre
<1>5. ASSUME NEW b \in DOMAIN blocks
      PROVE  /\ IsSeq(h[b]) /\ Len(h[b]) = Len(blocks[b].stmts)
             /\ \A i \in 1 .. Len(blocks[b].stmts) : h[b][i] = Resolved(blocks[b].stmts[i], eval)
  <2>1. IsSeq(blocks[b].stmts)
    BY BlocksAre
  <2> QED
    BY <1>2, <2>1, RowOfArgs
<1>6. /\ Holds
      /\ \A b \in DOMAIN blocks : blocks'[b].stmts = h[b] /\ blocks'[b].term = blocks[b].term
  <2>1. KeepIds
    BY DEF ResolveConstants
  <2> QED
    BY <2>1, <1>3, <1>5, StatementsHold
<1>7. ASSUME NEW b \in DOMAIN blocks, NEW i \in 1 .. Len(blocks[b].stmts)
      PROVE  /\ Replaces(h[b][i], blocks[b].stmts[i])
             /\ Reads(h[b][i]) \subseteq Reads(blocks[b].stmts[i])
             /\ \A id : Computes(h[b][i], id) <=> Computes(blocks[b].stmts[i], id)
  <2>1. IsStmt(blocks[b].stmts[i])
    BY <1>4 DEF Stmts
  <2> QED
    BY <2>1, <1>5, ResolvedIs
<1>8. InPlace
  BY <1>4, <1>5, <1>6, <1>7 DEF InPlace
<1>9. ASSUME BlocksFed
      PROVE  BlocksFed'
  <2>1. (\A b : AtEntry(b)' = AtEntry(b)) /\ Len(blocks') = Len(blocks)
    BY <1>6, EntryKept DEF Holds
  <2> SUFFICES ASSUME NEW b \in 1 .. Len(blocks)
               PROVE  /\ Fed(blocks'[b].stmts, AtEntry(b))
                      /\ TermReads(blocks'[b].term) \subseteq AtEnd(blocks'[b].stmts, AtEntry(b))
    BY <2>1 DEF BlocksFed
  <2>2. Fed(blocks[b].stmts, AtEntry(b)) /\ TermReads(blocks[b].term) \subseteq AtEnd(blocks[b].stmts, AtEntry(b))
    BY <1>9 DEF BlocksFed
  <2>3. Fed(h[b], AtEntry(b)) /\ AtEnd(h[b], AtEntry(b)) = AtEnd(blocks[b].stmts, AtEntry(b))
    <3>1. \A i \in 1 .. Len(blocks[b].stmts) :
                /\ IsStmt(h[b][i]) /\ Reads(h[b][i]) \subseteq Reads(blocks[b].stmts[i])
                /\ \A id : Computes(h[b][i], id) <=> Computes(blocks[b].stmts[i], id)
      BY <1>4, <1>7 DEF Replaces
    <3>2. IsSeq(h[b]) /\ Len(h[b]) = Len(blocks[b].stmts)
      BY <1>4, <1>5
    <3> QED
      BY <2>2, <3>1, <3>2, FedLess
  <2> QED
    BY <1>4, <1>6, <2>2, <2>3
<1>10. LiftFacts' /\ Stmts'
  BY <1>6, <1>8, InPlaceKeeps
<1> QED
  BY <1>9, <1>10

-----------------------------------------------------------------------------
(* The frame, the copies and the canary.                                   *)

LEMMA DroppedIs ==
    ASSUME NEW s, IsSeq(s), NEW drop
    PROVE  /\ IsSeq(Dropped(s, drop)) /\ Len(Dropped(s, drop)) = Len(s)
           /\ \A i \in 1 .. Len(s) : Dropped(s, drop)[i] = Nop \/ Dropped(s, drop)[i] = s[i]
<1> DEFINE h == Dropped(s, drop)
<1>1. h = [i \in 1 .. Len(s) |-> IF i \in drop THEN Nop ELSE s[i]]
  BY DEF Dropped
<1>2. \A i \in 1 .. Len(s) : h[i] = Nop \/ h[i] = s[i]
  BY <1>1
<1>3. h = [i \in 1 .. Len(s) |-> h[i]]
  BY <1>1
<1> HIDE DEF h
<1>4. IsSeq(h) /\ Len(h) = Len(s)
  BY <1>3, RowOfArgs
<1> QED
  BY <1>2, <1>4 DEF h

LEMMA StrippedIs ==
    ASSUME LiftFacts, NEW b \in DOMAIN blocks, NEW rbps, NEW rsps, NEW size
    PROVE  LET t == Stripped(b, rbps, rsps, size)
               s == blocks[b].stmts
           IN  /\ IsSeq(t) /\ Len(t) = Len(s)
               /\ \A i \in 1 .. Len(s) : t[i] = Nop \/ t[i] = s[i]
<1> DEFINE s == blocks[b].stmts
<1>1. IsSeq(s)
  BY BlocksAre
<1> HIDE DEF s
<1>2. PICK t : t = IF b = 1 THEN Dropped(s, Prologue(rbps, rsps, size).drop) ELSE s
  OBVIOUS
<1>3. IsSeq(t) /\ Len(t) = Len(s) /\ \A i \in 1 .. Len(s) : t[i] = Nop \/ t[i] = s[i]
  <2>1. CASE b = 1
    BY <2>1, <1>1, <1>2, DroppedIs
  <2>2. CASE b # 1
    BY <2>2, <1>1, <1>2
  <2> QED
    BY <2>1, <2>2
<1>4. PICK u : u = IF blocks[b].term.kind = "Return" THEN Dropped(t, Epilogue(t, rbps, rsps)) ELSE t
  OBVIOUS
<1>5. IsSeq(u) /\ Len(u) = Len(t) /\ \A i \in 1 .. Len(t) : u[i] = Nop \/ u[i] = t[i]
  <2>1. CASE blocks[b].term.kind = "Return"
    BY <2>1, <1>3, <1>4, DroppedIs
  <2>2. CASE blocks[b].term.kind # "Return"
    BY <2>2, <1>3, <1>4
  <2> QED
    BY <2>1, <2>2
<1>6. Stripped(b, rbps, rsps, size) = u
  <2>1. t = IF b = 1 THEN Dropped(blocks[1].stmts, Prologue(rbps, rsps, size).drop) ELSE blocks[b].stmts
    BY <1>2 DEF s
  <2> QED
    BY <2>1, <1>4, Zenon DEF Stripped
<1> QED
  BY <1>3, <1>5, <1>6 DEF s

LEMMA NamedReplaces ==
    ASSUME NEW s, IsStmt(s), NEW rbps, NEW rsps, NEW size
    PROVE  Replaces(Named(s, rbps, rsps, size), s)
<1> DEFINE offs == SlotOf(s.args[1], rbps, rsps, size)
           v == V(SlotId(CHOOSE o \in offs : TRUE))
<1>1. CASE Accesses(s) /\ offs # {}
  <2> DEFINE new == [s.args EXCEPT ![1] = v]
  <2>1. Named(s, rbps, rsps, size) = [s EXCEPT !.args[1] = v]
    BY <1>1 DEF Named
  <2>2. [s EXCEPT !.args[1] = v] = [s EXCEPT !.args = new]
    OBVIOUS
  <2>3. IsSeq(s.args)
    BY DEF IsStmt
  <2> HIDE DEF v
  <2>4. new = [i \in 1 .. Len(s.args) |-> new[i]]
    <3>1. DOMAIN s.args = 1 .. Len(s.args)
      BY <2>3 DEF IsSeq
    <3> QED
      BY <3>1
  <2>6. IsSeq(new)
    BY <2>3, <2>4, RowOfArgs
  <2> HIDE DEF new
  <2>7. Replaces([s EXCEPT !.args = new], s)
    BY <2>6, WithArgs
  <2> QED
    BY <2>1, <2>2, <2>7
<1>2. CASE ~(Accesses(s) /\ offs # {})
  <2>1. Named(s, rbps, rsps, size) = s
    BY <1>2, Zenon DEF Named
  <2> QED
    BY <2>1, Itself
<1> QED
  BY <1>1, <1>2

LEMMA FrameKeeps ==
    ASSUME LiftFacts, Stmts, NEW rbp, NEW rsp, AnalyseFrame(rbp, rsp)
    PROVE  LiftFacts' /\ Stmts'
<1>1. PICK size, rbps, rsps, stripped :
        /\ stripped = [b \in DOMAIN blocks |-> Stripped(b, rbps, rsps, size)]
        /\ blocks' = [b \in DOMAIN blocks |->
                [stmts |-> [i \in 1 .. Len(stripped[b]) |-> Named(stripped[b][i], rbps, rsps, size)],
                 term |-> blocks[b].term]]
  <2> DEFINE size == FrameSize(rsp)
             rbps == Spine(rbp)
             rsps == Spine(rsp)
             stripped == [b \in DOMAIN blocks |-> Stripped(b, rbps, rsps, size)]
  <2>1. blocks' = [b \in DOMAIN blocks |->
                [stmts |-> [i \in 1 .. Len(stripped[b]) |-> Named(stripped[b][i], rbps, rsps, size)],
                 term |-> blocks[b].term]]
    BY Zenon DEF AnalyseFrame, Statements
  <2> QED
    BY <2>1, Zenon
<1>2. \A b \in DOMAIN blocks : stripped[b] = Stripped(b, rbps, rsps, size)
  BY <1>1
<1>3. PICK h : h = [b \in DOMAIN blocks |->
          [i \in 1 .. Len(stripped[b]) |-> Named(stripped[b][i], rbps, rsps, size)]]
  OBVIOUS
<1>4. blocks' = [b \in DOMAIN blocks |-> [stmts |-> h[b], term |-> blocks[b].term]]
  BY <1>1, <1>3
<1>5. DOMAIN blocks = 1 .. Len(blocks)
  BY BlocksAre
<1>6. ASSUME NEW b \in DOMAIN blocks
      PROVE  /\ IsSeq(h[b]) /\ Len(h[b]) = Len(blocks[b].stmts)
             /\ \A i \in 1 .. Len(blocks[b].stmts) : Replaces(h[b][i], blocks[b].stmts[i])
  <2> DEFINE s == blocks[b].stmts
  <2>1. PICK t : t = Stripped(b, rbps, rsps, size)
    OBVIOUS
  <2>2. IsSeq(t) /\ Len(t) = Len(s) /\ \A i \in 1 .. Len(s) : t[i] = Nop \/ t[i] = s[i]
    BY <2>1, StrippedIs
  <2>3. h[b] = [i \in 1 .. Len(t) |-> Named(t[i], rbps, rsps, size)]
    BY <1>2, <1>3, <2>1
  <2>4. IsSeq(h[b]) /\ Len(h[b]) = Len(t)
    BY <2>2, <2>3, RowOfArgs
  <2>5. ASSUME NEW i \in 1 .. Len(s)
        PROVE  Replaces(h[b][i], s[i])
    <3>1. h[b][i] = Named(t[i], rbps, rsps, size)
      BY <2>2, <2>3
    <3>2. IsStmt(s[i])
      BY <1>5 DEF Stmts
    <3>3. Replaces(Nop, s[i]) /\ Replaces(s[i], s[i])
      BY <3>2, Itself
    <3>4. Replaces(t[i], s[i])
      BY <2>2, <3>3
    <3>5. IsStmt(t[i])
      BY <3>4 DEF Replaces
    <3>6. Replaces(h[b][i], t[i])
      BY <3>1, <3>5, NamedReplaces
    <3> QED
      BY <3>4, <3>6 DEF Replaces
  <2> QED
    BY <2>2, <2>4, <2>5
<1>7. /\ Holds
      /\ \A b \in DOMAIN blocks : blocks'[b].stmts = h[b] /\ blocks'[b].term = blocks[b].term
  <2>1. KeepIds
    BY DEF AnalyseFrame
  <2> QED
    BY <2>1, <1>4, <1>6, StatementsHold
<1>8. InPlace
  BY <1>5, <1>6, <1>7 DEF InPlace
<1> QED
  BY <1>7, <1>8, InPlaceKeeps

LEMMA PropagatedReplaces ==
    ASSUME NEW s, IsStmt(s)
    PROVE  Replaces(Propagated(s), s)
<1> DEFINE a == IsStore(s) /\ s.args[1].var /\ s.args[1].n \in DOMAIN stored
           l == IsLoad(s) /\ s.args[1].var /\ s.args[1].n \in DOMAIN stored
<1>1. ~(a /\ l)
  BY DEF IsStore, IsLoad, IsOp, IsAssign
<1>2. CASE a
  <2>1. Propagated(s) = Nop
    BY <1>1, <1>2 DEF Propagated
  <2> QED
    BY <2>1, Itself
<1>3. CASE l
  <2> DEFINE x == Reloaded(s)
             t == Assign(s.lhs, "Value", <<x>>)
  <2>1. Propagated(s) = t
    BY <1>1, <1>3 DEF Propagated
  <2>2. t.lhs = s.lhs
    BY AssignIs
  <2>3. IsAssign(s)
    BY <1>3 DEF IsLoad, IsOp
  <2>4. IsStmt(t)
    <3>1. AtHand(x, {x.n})
      BY DEF AtHand
    <3> HIDE DEF x
    <3>2. IsSeq(<<x>>)
      BY <3>1, OneArg
    <3> QED
      BY <3>2, StmtIs
  <2> HIDE DEF t
  <2> QED
    BY <2>1, <2>2, <2>3, <2>4 DEF Replaces
<1>4. CASE ~a /\ ~l
  <2> DEFINE new == SubstitutedAll(s.args)
  <2>1. Propagated(s) = [s EXCEPT !.args = new]
    BY <1>4 DEF Propagated
  <2>2. IsSeq(new)
    <3>1. IsSeq(s.args)
      BY DEF IsStmt
    <3>2. new = [i \in 1 .. Len(s.args) |-> new[i]]
      BY DEF SubstitutedAll
    <3> HIDE DEF new
    <3> QED
      BY <3>1, <3>2, RowOfArgs
  <2> HIDE DEF new
  <2> QED
    BY <2>1, <2>2, WithArgs
<1> QED
  BY <1>2, <1>3, <1>4

\* The passes that change terminators too.
LEMMA RewrittenHolds ==
    ASSUME LiftFacts, KeepIds, DOMAIN blocks' = DOMAIN blocks, blocks' = [b \in DOMAIN blocks' |-> blocks'[b]],
           \A b \in DOMAIN blocks :
                /\ IsSeq(blocks'[b].stmts)
                /\ blocks'[b] = [stmts |-> blocks'[b].stmts, term |-> blocks'[b].term]
    PROVE  Holds
<1>1. Len(blocks) \in Nat /\ DOMAIN blocks = 1 .. Len(blocks)
  BY BlocksAre
<1>2. blocks' = [b \in 1 .. Len(blocks) |-> blocks'[b]]
  BY <1>1
<1>3. IsSeq(blocks') /\ Len(blocks') = Len(blocks)
  BY <1>1, <1>2, RowIs
<1> QED
  BY <1>1, <1>3 DEF Holds, KeepIds

LEMMA PropagateKeeps ==
    ASSUME LiftFacts, Stmts, Propagate
    PROVE  LiftFacts' /\ Stmts'
<1>1. blocks' = [b \in DOMAIN blocks |->
          [stmts |-> [i \in 1 .. Len(blocks[b].stmts) |-> Propagated(blocks[b].stmts[i])],
           term |-> SubstitutedIn(blocks[b].term)]]
  BY DEF Propagate
<1>2. DOMAIN blocks = 1 .. Len(blocks) /\ DOMAIN blocks' = DOMAIN blocks
  BY <1>1, BlocksAre
<1>3. ASSUME NEW b \in DOMAIN blocks
      PROVE  /\ IsSeq(blocks'[b].stmts) /\ Len(blocks'[b].stmts) = Len(blocks[b].stmts)
             /\ blocks'[b] = [stmts |-> blocks'[b].stmts, term |-> blocks'[b].term]
             /\ \A i \in 1 .. Len(blocks[b].stmts) : Replaces(blocks'[b].stmts[i], blocks[b].stmts[i])
  <2>1. PICK h : h = [i \in 1 .. Len(blocks[b].stmts) |-> Propagated(blocks[b].stmts[i])]
    OBVIOUS
  <2>2. blocks'[b] = [stmts |-> h, term |-> SubstitutedIn(blocks[b].term)]
    BY <1>1, <2>1
  <2>3. IsSeq(blocks[b].stmts)
    BY BlocksAre
  <2>4. IsSeq(h) /\ Len(h) = Len(blocks[b].stmts)
    BY <2>1, <2>3, RowOfArgs
  <2>5. ASSUME NEW i \in 1 .. Len(blocks[b].stmts)
        PROVE  Replaces(h[i], blocks[b].stmts[i])
    <3>1. IsStmt(blocks[b].stmts[i])
      BY <1>2 DEF Stmts
    <3> QED
      BY <2>1, <3>1, PropagatedReplaces
  <2>6. blocks'[b].stmts = h /\ blocks'[b] = [stmts |-> blocks'[b].stmts, term |-> blocks'[b].term]
    BY <2>2
  <2> QED
    BY <2>4, <2>5, <2>6
<1>4. Holds
  <2>1. KeepIds
    BY DEF Propagate
  <2>2. blocks' = [b \in DOMAIN blocks' |-> blocks'[b]]
    BY <1>1
  <2> QED
    BY <2>1, <2>2, <1>2, <1>3, RewrittenHolds
<1>5. InPlace
  BY <1>2, <1>3 DEF InPlace
<1> QED
  BY <1>4, <1>5, InPlaceKeeps

LEMMA FailsKeep ==
    ASSUME LiftFacts, Stmts, DropFails
    PROVE  LiftFacts' /\ Stmts'
<1>1. blocks' = [b \in DOMAIN blocks |->
          IF b \in fails
          THEN [stmts |-> [i \in 1 .. Len(blocks[b].stmts) |-> Nop],
                term |-> Term("Unreachable", C(0), <<>>)]
          ELSE blocks[b]]
  BY DEF DropFails
<1>2. DOMAIN blocks = 1 .. Len(blocks) /\ DOMAIN blocks' = DOMAIN blocks
  BY <1>1, BlocksAre
<1>3. ASSUME NEW b \in DOMAIN blocks
      PROVE  /\ IsSeq(blocks'[b].stmts) /\ Len(blocks'[b].stmts) = Len(blocks[b].stmts)
             /\ blocks'[b] = [stmts |-> blocks'[b].stmts, term |-> blocks'[b].term]
             /\ \A i \in 1 .. Len(blocks[b].stmts) : Replaces(blocks'[b].stmts[i], blocks[b].stmts[i])
  <2>1. IsSeq(blocks[b].stmts) /\ blocks[b] = [stmts |-> blocks[b].stmts, term |-> blocks[b].term]
    BY <1>2 DEF LiftFacts, BlockShape
  <2>2. \A i \in 1 .. Len(blocks[b].stmts) :
            Replaces(Nop, blocks[b].stmts[i]) /\ Replaces(blocks[b].stmts[i], blocks[b].stmts[i])
    BY <1>2, Itself DEF Stmts
  <2>3. CASE b \in fails
    <3>1. PICK h, t : /\ h = [i \in 1 .. Len(blocks[b].stmts) |-> Nop]
                      /\ t = Term("Unreachable", C(0), <<>>)
      OBVIOUS
    <3>2. blocks'[b] = [stmts |-> h, term |-> t]
      BY <1>1, <2>3, <3>1
    <3>3. IsSeq(h) /\ Len(h) = Len(blocks[b].stmts)
      BY <2>1, <3>1, RowOfArgs
    <3>4. blocks'[b].stmts = h /\ blocks'[b] = [stmts |-> blocks'[b].stmts, term |-> blocks'[b].term]
      BY <3>2
    <3> QED
      BY <2>2, <3>1, <3>3, <3>4
  <2>4. CASE b \notin fails
    <3>1. blocks'[b] = blocks[b]
      BY <1>1, <2>4
    <3> QED
      BY <2>1, <2>2, <3>1
  <2> QED
    BY <2>3, <2>4
<1>4. Holds
  <2>1. KeepIds
    BY DEF DropFails
  <2>2. blocks' = [b \in DOMAIN blocks' |-> blocks'[b]]
    BY <1>1
  <2> QED
    BY <2>1, <2>2, <1>2, <1>3, RewrittenHolds
<1>5. InPlace
  BY <1>2, <1>3 DEF InPlace
<1> QED
  BY <1>4, <1>5, InPlaceKeeps

LEMMA PatchKeepsStmts ==
    ASSUME LiftFacts, Stmts, NEW p \in DOMAIN blocks, NEW f, PatchBranch(p, f)
    PROVE  LiftFacts' /\ Stmts'
<1>1. PICK t : blocks' = [blocks EXCEPT ![p] = [stmts |-> @.stmts, term |-> t]]
  BY DEF PatchBranch
<1>2. PICK rec : rec = [stmts |-> blocks[p].stmts, term |-> t]
  OBVIOUS
<1>3. blocks' = [blocks EXCEPT ![p] = rec]
  BY <1>1, <1>2
<1>4. DOMAIN blocks = 1 .. Len(blocks) /\ DOMAIN blocks' = DOMAIN blocks
  BY <1>3, BlocksAre
<1>5. ASSUME NEW b \in DOMAIN blocks
      PROVE  /\ blocks'[b].stmts = blocks[b].stmts /\ IsSeq(blocks[b].stmts)
             /\ blocks'[b] = [stmts |-> blocks'[b].stmts, term |-> blocks'[b].term]
  <2>1. IsSeq(blocks[b].stmts) /\ blocks[b] = [stmts |-> blocks[b].stmts, term |-> blocks[b].term]
    BY <1>4 DEF LiftFacts, BlockShape
  <2>2. CASE b = p
    <3>1. blocks'[b] = rec
      BY <1>3, <2>2
    <3> QED
      BY <1>2, <2>1, <2>2, <3>1
  <2>3. CASE b # p
    BY <1>3, <2>1, <2>3
  <2> QED
    BY <2>2, <2>3
<1>6. Holds
  <2>1. KeepIds
    BY DEF PatchBranch
  <2>2. blocks' = [b \in DOMAIN blocks' |-> blocks'[b]]
    <3>1. blocks = [b \in DOMAIN blocks |-> blocks[b]]
      BY DEF LiftFacts, Counting, IsSeq
    <3> QED
      BY <1>3
  <2> QED
    BY <2>1, <2>2, <1>4, <1>5, RewrittenHolds
<1>7. InPlace
  BY <1>4, <1>5, Itself DEF InPlace, Stmts
<1> QED
  BY <1>6, <1>7, InPlaceKeeps

-----------------------------------------------------------------------------
(* Dead assignments.                                                       *)

\* What a block reads is not dead.
LEMMA KeptIfRead ==
    ASSUME NEW b \in DOMAIN blocks, NEW id \in ReadsOf(b), NEW s, Computes(s, id)
    PROVE  Kept(s)
<1>1. id \in AllReads
  BY DEF AllReads
<1> QED
  BY <1>1 DEF Kept, Live, Computes

LEMMA ReadsOfBlock ==
    ASSUME NEW b
    PROVE  /\ \A i \in 1 .. Len(blocks[b].stmts) : Reads(blocks[b].stmts[i]) \subseteq ReadsOf(b)
           /\ TermReads(blocks[b].term) \subseteq ReadsOf(b)
BY DEF ReadsOf

\* What a statement, or the terminator, reads is computed before it still.
LEMMA RetainsReads ==
    ASSUME LiftFacts, NEW b \in DOMAIN blocks, NEW t, NEW g, NEW K,
           Retains(t, blocks[b].stmts, g, Len(blocks[b].stmts)), Fed(blocks[b].stmts, K),
           TermReads(blocks[b].term) \subseteq AtEnd(blocks[b].stmts, K)
    PROVE  Fed(t, K) /\ TermReads(blocks[b].term) \subseteq AtEnd(t, K)
<1> DEFINE s == blocks[b].stmts
           n == Len(s)
<1>1. n \in Nat
  BY BlocksAre
<1>2. Len(t) \in Nat /\ IsSeq(t)
  BY DEF Retains, IsSeq
<1>3. ASSUME NEW id \in ReadsOf(b), NEW j \in 1 .. n, Computes(s[j], id)
      PROVE  \E k \in 1 .. Len(t) : g[k] = j /\ Computes(t[k], id)
  <2>1. Kept(s[j])
    BY <1>3, KeptIfRead
  <2>2. PICK k \in 1 .. Len(t) : g[k] = j
    BY <2>1 DEF Retains
  <2>3. t[k] = s[j]
    BY <2>2 DEF Retains
  <2> QED
    BY <1>3, <2>2, <2>3
<1>4. ASSUME NEW i \in 1 .. Len(t)
      PROVE  g[i] \in 1 .. n /\ t[i] = s[g[i]] /\ IsStmt(t[i])
  <2>1. g[i] \in 1 .. n /\ t[i] = s[g[i]]
    BY DEF Retains
  <2> QED
    BY <2>1 DEF Fed
<1>5. ASSUME NEW i \in 1 .. Len(t), NEW id \in Reads(t[i])
      PROVE  id \in K \/ \E j \in 1 .. i - 1 : Computes(t[j], id)
  <2>1. g[i] \in 1 .. n /\ id \in Reads(s[g[i]])
    BY <1>4, <1>5
  <2>2. id \in ReadsOf(b)
    BY <2>1, ReadsOfBlock
  <2>3. CASE id \in K
    BY <2>3
  <2>4. CASE \E j \in 1 .. g[i] - 1 : Computes(s[j], id)
    <3>1. PICK j \in 1 .. g[i] - 1 : Computes(s[j], id)
      BY <2>4
    <3>2. j \in 1 .. n /\ j < g[i]
      BY <1>1, <2>1, <3>1
    <3>3. PICK k \in 1 .. Len(t) : g[k] = j /\ Computes(t[k], id)
      BY <1>3, <2>2, <3>1, <3>2
    <3>4. k < i
      <4>1. i < k => g[i] < g[k]
        BY DEF Retains
      <4>2. i # k
        BY <3>2, <3>3, <2>1
      <4> QED
        BY <4>1, <4>2, <3>2, <3>3, <2>1, <1>2
    <3>5. k \in 1 .. i - 1
      BY <3>4, <1>2
    <3> QED
      BY <3>3, <3>5
  <2> QED
    BY <2>1, <2>3, <2>4 DEF Fed
<1>6. Fed(t, K)
  BY <1>2, <1>4, <1>5 DEF Fed
<1>7. ASSUME NEW id \in TermReads(blocks[b].term)
      PROVE  id \in AtEnd(t, K)
  <2>1. id \in ReadsOf(b)
    BY ReadsOfBlock
  <2>2. id \in K \/ \E j \in 1 .. n : Computes(s[j], id)
    BY AtEndIs
  <2>3. id \in K \/ \E k \in 1 .. Len(t) : Computes(t[k], id)
    BY <1>3, <2>1, <2>2
  <2> QED
    BY <2>3, AtEndIs
<1> QED
  BY <1>6, <1>7

LEMMA DropKeepsStmts ==
    ASSUME LiftFacts, Stmts, DropDead
    PROVE  LiftFacts' /\ Stmts' /\ (BlocksFed => BlocksFed')
<1>1. PICK h : h = [b \in DOMAIN blocks |-> AllKept(b)]
  OBVIOUS
<1>2. blocks' = [b \in DOMAIN blocks |-> [stmts |-> AllKept(b), term |-> blocks[b].term]]
  BY DEF DropDead, Statements
<1>3. blocks' = [b \in DOMAIN blocks |-> [stmts |-> h[b], term |-> blocks[b].term]]
  BY <1>1, <1>2
<1>4. PICK f : f = [b \in DOMAIN blocks |->
          CHOOSE g : Retains(h[b], blocks[b].stmts, g, Len(blocks[b].stmts))]
  OBVIOUS
<1>5. DOMAIN blocks = 1 .. Len(blocks)
  BY BlocksAre
<1>6. ASSUME NEW b \in DOMAIN blocks
      PROVE  Retains(h[b], blocks[b].stmts, f[b], Len(blocks[b].stmts))
  <2>1. IsSeq(blocks[b].stmts)
    BY BlocksAre
  <2>2. \E g : Retains(h[b], blocks[b].stmts, g, Len(blocks[b].stmts))
    BY <1>1, <2>1, AllKeptUnfolds
  <2>3. f[b] = CHOOSE g : Retains(h[b], blocks[b].stmts, g, Len(blocks[b].stmts))
    BY <1>4
  <2> QED
    BY <2>2, <2>3, Zenon
<1>7. /\ Holds
      /\ \A b \in DOMAIN blocks : blocks'[b].stmts = h[b] /\ blocks'[b].term = blocks[b].term
  <2>1. KeepIds
    BY DEF DropDead
  <2>2. \A b \in DOMAIN blocks : IsSeq(h[b])
    BY <1>6 DEF Retains
  <2> QED
    BY <2>1, <2>2, <1>3, StatementsHold
<1>8. ASSUME NEW b, NEW i, AssignedAt(b, i)'
      PROVE  /\ b \in DOMAIN blocks /\ i \in 1 .. Len(h[b]) /\ f[b][i] \in 1 .. Len(blocks[b].stmts)
             /\ AssignedAt(b, f[b][i]) /\ IdAt(b, i)' = IdAt(b, f[b][i])
  <2>1. b \in 1 .. Len(blocks) /\ i \in 1 .. Len(h[b]) /\ IsAssign(h[b][i])
    BY <1>5, <1>7, <1>8 DEF AssignedAt, Holds
  <2>2. f[b][i] \in 1 .. Len(blocks[b].stmts) /\ h[b][i] = blocks[b].stmts[f[b][i]]
    BY <1>5, <1>6, <2>1 DEF Retains
  <2> QED
    BY <1>5, <1>7, <2>1, <2>2 DEF AssignedAt, IdAt
<1>9. ASSUME NEW b, NEW i, NEW j, AssignedAt(b, i)', AssignedAt(b, j)', f[b][i] = f[b][j]
      PROVE  i = j
  <2>1. b \in DOMAIN blocks /\ i \in 1 .. Len(h[b]) /\ j \in 1 .. Len(h[b])
    BY <1>8, <1>9
  <2>2. f[b][i] \in Nat /\ Len(h[b]) \in Nat
    <3>1. IsSeq(h[b])
      BY <1>6, <2>1 DEF Retains
    <3>2. f[b][i] \in 1 .. Len(blocks[b].stmts)
      BY <1>8, <1>9
    <3> QED
      BY <3>1, <3>2, <2>1, BlocksAre DEF IsSeq
  <2>3. (i < j => f[b][i] < f[b][j]) /\ (j < i => f[b][j] < f[b][i])
    BY <1>6, <2>1 DEF Retains
  <2> QED
    BY <1>9, <2>1, <2>2, <2>3
<1>10. Traced(f)
  BY <1>8, <1>9 DEF Traced
<1>11. LiftFacts'
  BY <1>7, <1>10, TracedKeeps
<1>12. Stmts'
  <2> SUFFICES ASSUME NEW b \in 1 .. Len(blocks), NEW i \in 1 .. Len(h[b])
               PROVE  IsStmt(h[b][i])
    BY <1>5, <1>7 DEF Stmts, Holds
  <2>1. f[b][i] \in 1 .. Len(blocks[b].stmts) /\ h[b][i] = blocks[b].stmts[f[b][i]]
    BY <1>5, <1>6 DEF Retains
  <2> QED
    BY <2>1 DEF Stmts
<1>13. ASSUME BlocksFed
       PROVE  BlocksFed'
  <2>1. (\A b : AtEntry(b)' = AtEntry(b)) /\ Len(blocks') = Len(blocks)
    BY <1>7, EntryKept DEF Holds
  <2> SUFFICES ASSUME NEW b \in 1 .. Len(blocks)
               PROVE  /\ Fed(blocks'[b].stmts, AtEntry(b))
                      /\ TermReads(blocks'[b].term) \subseteq AtEnd(blocks'[b].stmts, AtEntry(b))
    BY <2>1 DEF BlocksFed
  <2>2. Fed(blocks[b].stmts, AtEntry(b)) /\ TermReads(blocks[b].term) \subseteq AtEnd(blocks[b].stmts, AtEntry(b))
    BY <1>13 DEF BlocksFed
  <2>3. Fed(h[b], AtEntry(b)) /\ TermReads(blocks[b].term) \subseteq AtEnd(h[b], AtEntry(b))
    BY <1>5, <1>6, <2>2, RetainsReads
  <2> QED
    BY <1>5, <1>7, <2>3
<1> QED
  BY <1>11, <1>12, <1>13

-----------------------------------------------------------------------------
(* Where control goes.                                                     *)

Early == {"dead1", "constants", "frame", "spills", "flatten", "dead2", "canary"}
Late  == {"dead3", "arguments", "done"}

KindOf(b) == blocks[b].term.kind

ArmsOf(b) == {e.to : e \in {x \in edges : x.from = b}}

Asis(b) == KindOf(b) = prog[b].end /\ blocks[b].term.to = prog[b].to

\* The blocks lifted so far end as their code does; not yet the one under way.
LiftFlow ==
    /\ Len(blocks) <= Len(prog) /\ pc >= -1
    /\ \A b \in 1 .. Len(blocks) : b < Len(blocks) \/ pc = -1 => Asis(b)

AllEdges ==
    UNION {{[from |-> b, arm |-> i, to |-> prog[b].to[i]] : i \in 1 .. Len(prog[b].to)} :
                b \in 1 .. Len(prog)}

EarlyFlow ==
    /\ DOMAIN blocks = 1 .. Len(prog)
    /\ \A b \in DOMAIN blocks : Asis(b)
    /\ edges = AllEdges

Agrees(b) == Goals(b) = ArmsOf(b) /\ Goals(b) \ fails = ToSet(prog[b].to) \ fails

\* A branch that is one still has its two edges.
Whole(b) ==
    KindOf(b) = "Branch" =>
        \E t1, t2 :
            /\ blocks[b].term.to = <<t1, t2>>
            /\ {x \in edges : x.from = b} =
                    {[from |-> b, arm |-> 1, to |-> t1], [from |-> b, arm |-> 2, to |-> t2]}

PatchFlow ==
    /\ DOMAIN blocks = 1 .. Len(prog)
    /\ \A b \in DOMAIN blocks : Agrees(b) /\ Whole(b)
    /\ \A e \in patches :
        /\ e[1] \in DOMAIN blocks /\ e[2] \in fails
        /\ KindOf(e[1]) = "Branch" => e[2] \in Goals(e[1])

LateFlow ==
    /\ DOMAIN blocks = 1 .. Len(prog)
    /\ \A b \in DOMAIN blocks \ fails : Agrees(b)

\* A pass that changes no terminator and no edge.
SameFlow ==
    /\ UNCHANGED <<prog, edges, fails>>
    /\ DOMAIN blocks' = DOMAIN blocks
    /\ \A b \in DOMAIN blocks :
        blocks'[b].term.kind = blocks[b].term.kind /\ blocks'[b].term.to = blocks[b].term.to

LEMMA ArmsOfAll ==
    ASSUME NEW b \in 1 .. Len(prog), EarlyFlow, prog \in Programs, LiftAssumption
    PROVE  /\ ArmsOf(b) = ToSet(prog[b].to)
           /\ {x \in edges : x.from = b} =
                {[from |-> b, arm |-> i, to |-> prog[b].to[i]] : i \in 1 .. Len(prog[b].to)}
<1>1. {x \in edges : x.from = b} =
        {[from |-> b, arm |-> i, to |-> prog[b].to[i]] : i \in 1 .. Len(prog[b].to)}
  <2> DEFINE es(c) == {[from |-> c, arm |-> i, to |-> prog[c].to[i]] : i \in 1 .. Len(prog[c].to)}
  <2>1. \A c : \A x \in es(c) : x.from = c
    OBVIOUS
  <2>2. edges = UNION {es(c) : c \in 1 .. Len(prog)}
    BY DEF EarlyFlow, AllEdges
  <2> HIDE DEF es
  <2>3. {x \in edges : x.from = b} = es(b)
    BY <2>1, <2>2
  <2> QED
    BY <2>3 DEF es
<1>2. DOMAIN prog[b].to = 1 .. Len(prog[b].to)
  <2>1. prog \in Seq(Block) /\ prog[b] \in Block
    BY DEF LiftAssumption
  <2>2. prog[b].to \in Seq(Nat \ {0})
    BY <2>1 DEF Block
  <2> QED
    BY <2>2
<1>3. ToSet(prog[b].to) = {prog[b].to[i] : i \in 1 .. Len(prog[b].to)}
  BY <1>2 DEF ToSet
<1>4. ArmsOf(b) = {prog[b].to[i] : i \in 1 .. Len(prog[b].to)}
  <2> DEFINE es == {[from |-> b, arm |-> i, to |-> prog[b].to[i]] : i \in 1 .. Len(prog[b].to)}
  <2>1. ArmsOf(b) = {e.to : e \in es}
    BY <1>1 DEF ArmsOf
  <2>2. ASSUME NEW i \in 1 .. Len(prog[b].to)
        PROVE  \E e \in es : e.to = prog[b].to[i]
    <3> DEFINE e == [from |-> b, arm |-> i, to |-> prog[b].to[i]]
    <3>1. e \in es /\ e.to = prog[b].to[i]
      OBVIOUS
    <3> HIDE DEF e, es
    <3> QED
      BY <3>1
  <2>3. \A e \in es : \E i \in 1 .. Len(prog[b].to) : e.to = prog[b].to[i]
    OBVIOUS
  <2> HIDE DEF es
  <2>4. {e.to : e \in es} \subseteq {prog[b].to[i] : i \in 1 .. Len(prog[b].to)}
    BY <2>3
  <2>5. {prog[b].to[i] : i \in 1 .. Len(prog[b].to)} \subseteq {e.to : e \in es}
    BY <2>2
  <2> QED
    BY <2>1, <2>4, <2>5
<1> QED
  BY <1>1, <1>3, <1>4

LEMMA EarlyAgrees ==
    ASSUME EarlyFlow, prog \in Programs, LiftAssumption, NEW b \in DOMAIN blocks
    PROVE  Agrees(b)
<1>1. b \in 1 .. Len(prog) /\ blocks[b].term.to = prog[b].to
  BY DEF EarlyFlow, Asis
<1>2. Goals(b) = ToSet(prog[b].to)
  BY <1>1 DEF Goals
<1>3. ArmsOf(b) = ToSet(prog[b].to)
  BY <1>1, ArmsOfAll
<1> QED
  BY <1>2, <1>3 DEF Agrees

LEMMA EarlyKept == EarlyFlow /\ SameFlow => EarlyFlow'
BY DEF EarlyFlow, SameFlow, AllEdges, Asis, KindOf

LEMMA LateKept == LateFlow /\ SameFlow => LateFlow'
<1> SUFFICES ASSUME LateFlow, SameFlow
             PROVE  LateFlow'
  OBVIOUS
<1>1. ASSUME NEW b \in DOMAIN blocks, Agrees(b)
      PROVE  Agrees(b)'
  <2>1. Goals(b)' = Goals(b) /\ ArmsOf(b)' = ArmsOf(b)
    BY DEF SameFlow, Goals, ArmsOf
  <2> QED
    BY <1>1, <2>1 DEF Agrees, SameFlow
<1> QED
  BY <1>1 DEF LateFlow, SameFlow

LEMMA EarlyLate == EarlyFlow /\ prog \in Programs /\ LiftAssumption => LateFlow
BY EarlyAgrees DEF LateFlow, EarlyFlow

-----------------------------------------------------------------------------
(* The canary.                                                             *)

LEMMA FindKeeps ==
    ASSUME EarlyFlow, prog \in Programs, LiftAssumption, FindCanary
    PROVE  PatchFlow'
<1>1. blocks' = blocks /\ prog' = prog /\ edges' = edges
  BY DEF FindCanary, liftVars
<1>2. EarlyFlow' /\ (prog \in Programs)'
  BY <1>1 DEF EarlyFlow, AllEdges, Asis, KindOf
<1>3. ASSUME NEW b \in DOMAIN blocks
      PROVE  Agrees(b)' /\ Whole(b)'
  <2>1. b \in 1 .. Len(prog) /\ Asis(b)
    BY DEF EarlyFlow
  <2>2. Agrees(b)'
    <3>1. Goals(b) = ArmsOf(b) /\ Goals(b) = ToSet(prog[b].to)
      BY <2>1, ArmsOfAll DEF Goals, Asis
    <3>2. Goals(b)' = Goals(b) /\ ArmsOf(b)' = ArmsOf(b)
      BY <1>1 DEF Goals, ArmsOf
    <3> QED
      BY <1>1, <3>1, <3>2 DEF Agrees
  <2>3. Whole(b)
    <3> SUFFICES ASSUME KindOf(b) = "Branch"
                 PROVE  \E t1, t2 :
                          /\ blocks[b].term.to = <<t1, t2>>
                          /\ {x \in edges : x.from = b} =
                                {[from |-> b, arm |-> 1, to |-> t1], [from |-> b, arm |-> 2, to |-> t2]}
      BY Zenon DEF Whole
    <3> DEFINE to == prog[b].to
    <3>1. Len(to) = 2 /\ to \in Seq(Nat \ {0})
      <4>1. prog \in Seq(Block) /\ prog[b] \in Block
        BY <2>1 DEF LiftAssumption
      <4>2. prog[b].end = "Branch"
        BY <2>1 DEF Asis
      <4> QED
        BY <4>1, <4>2, <2>1 DEF LiftAssumption, Block
    <3>2. to = <<to[1], to[2]>>
      BY <3>1
    <3>3. {x \in edges : x.from = b} =
             {[from |-> b, arm |-> i, to |-> to[i]] : i \in 1 .. 2}
      BY <2>1, <3>1, ArmsOfAll
    <3>4. {[from |-> b, arm |-> i, to |-> to[i]] : i \in 1 .. 2} =
             {[from |-> b, arm |-> 1, to |-> to[1]], [from |-> b, arm |-> 2, to |-> to[2]]}
      OBVIOUS
    <3> QED
      BY <2>1, <3>2, <3>3, <3>4 DEF Asis
  <2> QED
    BY <1>1, <2>2, <2>3 DEF Whole, KindOf
<1>4. ASSUME NEW e \in patches'
      PROVE  (e[1] \in DOMAIN blocks /\ e[2] \in fails /\ (KindOf(e[1]) = "Branch" => e[2] \in Goals(e[1])))'
  <2>1. PICK x \in edges : e = <<x.from, x.to>> /\ x.to \in fails'
    BY <1>4 DEF FindCanary
  <2>2. PICK b \in 1 .. Len(prog) : x.from = b
    BY DEF EarlyFlow, AllEdges
  <2>3. x.to \in ArmsOf(b)
    BY <2>2 DEF ArmsOf
  <2>4. x.to \in Goals(b) /\ b \in DOMAIN blocks
    BY <2>2, <2>3, EarlyAgrees DEF Agrees, EarlyFlow
  <2> QED
    BY <1>1, <2>1, <2>2, <2>4 DEF Goals
<1> QED
  BY <1>1, <1>2, <1>3, <1>4 DEF PatchFlow, EarlyFlow

\* Of the two arms the one that does not go to f stays, and its edge.
LEMMA BranchKeeps ==
    ASSUME PatchFlow, NEW p \in DOMAIN blocks, NEW f \in fails, f \in Goals(p), PatchBranch(p, f)
    PROVE  PatchFlow'
<1> DEFINE t == blocks[p].term
           g == OtherArm(t, f)
           gone == CHOOSE e \in edges : e.from = p /\ e.to = f
<1>1. p \in DOMAIN blocks /\ f \in fails /\ t.kind = "Branch" /\ f \in Goals(p)
  BY DEF PatchFlow, PatchBranch, KindOf
<1>2. PICK t1, t2 :
        /\ t.to = <<t1, t2>>
        /\ {x \in edges : x.from = p} =
                {[from |-> p, arm |-> 1, to |-> t1], [from |-> p, arm |-> 2, to |-> t2]}
  BY <1>1, Zenon DEF PatchFlow, Whole, KindOf
<1>3. Goals(p) = {t1, t2} /\ g = (IF t1 = f THEN t2 ELSE t1)
  BY <1>2 DEF Goals, ToSet, OtherArm
<1>4. edges' = edges \ {gone} /\ gone \in edges /\ gone.from = p /\ gone.to = f
  <2>1. \E e \in edges : e.from = p /\ e.to = f
    <3> DEFINE e1 == [from |-> p, arm |-> 1, to |-> t1]
               e2 == [from |-> p, arm |-> 2, to |-> t2]
    <3>1. e1.from = p /\ e1.to = t1 /\ e2.from = p /\ e2.to = t2 /\ e1 \in edges /\ e2 \in edges
      BY <1>2
    <3> HIDE DEF e1, e2
    <3> QED
      BY <3>1, <1>1, <1>3
  <2>2. edges' = edges \ {gone}
    BY DEF PatchBranch
  <2> QED
    BY <2>1, <2>2
<1>5. /\ fails' = fails /\ prog' = prog /\ patches' \subseteq patches /\ DOMAIN blocks' = DOMAIN blocks
      /\ \A b \in DOMAIN blocks : b # p => blocks'[b] = blocks[b]
      /\ blocks'[p].term = Term("Jump", C(0), <<g>>)
  BY <1>1 DEF PatchBranch, KeepIds
<1>6. blocks'[p].term.kind = "Jump" /\ blocks'[p].term.to = <<g>>
  BY <1>5 DEF Term
<1> HIDE DEF gone, g
<1>7. ArmsOf(p)' = {g}
  <2> DEFINE e1 == [from |-> p, arm |-> 1, to |-> t1]
             e2 == [from |-> p, arm |-> 2, to |-> t2]
  <2>1. e1 # e2 /\ e1.from = p /\ e1.to = t1 /\ e2.from = p /\ e2.to = t2
    OBVIOUS
  <2>2. {x \in edges : x.from = p} = {e1, e2}
    BY <1>2
  <2> HIDE DEF e1, e2
  <2>3. {x \in edges' : x.from = p} = {e1, e2} \ {gone}
    BY <1>4, <2>2
  <2>4. gone \in {e1, e2}
    BY <1>4, <2>2
  <2>5. CASE gone = e1
    <3>1. {x \in edges' : x.from = p} = {e2} /\ t1 = f
      BY <1>4, <2>1, <2>3, <2>5
    <3> QED
      BY <3>1, <1>3, <2>1 DEF ArmsOf
  <2>6. CASE gone = e2
    <3>1. {x \in edges' : x.from = p} = {e1} /\ t2 = f
      BY <1>4, <2>1, <2>3, <2>6
    <3> QED
      BY <3>1, <1>3, <2>1 DEF ArmsOf
  <2> QED
    BY <2>4, <2>5, <2>6
<1>8. Goals(p)' = {g}
  BY <1>6 DEF Goals, ToSet
<1>9. ASSUME NEW b \in DOMAIN blocks
      PROVE  Agrees(b)' /\ Whole(b)'
  <2>1. CASE b = p
    <3>1. {g} \ fails = {t1, t2} \ fails
      BY <1>1, <1>3
    <3>2. Goals(p) \ fails = ToSet(prog[p].to) \ fails
      BY <1>1 DEF PatchFlow, Agrees
    <3>3. Agrees(p)'
      BY <3>1, <3>2, <1>3, <1>5, <1>7, <1>8 DEF Agrees
    <3>4. Whole(p)'
      BY <1>6 DEF Whole, KindOf
    <3> QED
      BY <2>1, <3>3, <3>4
  <2>2. CASE b # p
    <3>1. blocks'[b] = blocks[b]
      BY <2>2, <1>5
    <3>2. {x \in edges' : x.from = b} = {x \in edges : x.from = b}
      BY <2>2, <1>4
    <3>3. Goals(b)' = Goals(b) /\ ArmsOf(b)' = ArmsOf(b)
      BY <3>1, <3>2 DEF Goals, ArmsOf
    <3>4. Agrees(b)'
      BY <3>3, <1>5 DEF PatchFlow, Agrees
    <3>5. Whole(b)'
      BY <3>1, <3>2 DEF PatchFlow, Whole, KindOf
    <3> QED
      BY <3>4, <3>5
  <2> QED
    BY <2>1, <2>2
<1>10. ASSUME NEW e \in patches'
       PROVE  (e[1] \in DOMAIN blocks /\ e[2] \in fails /\ (KindOf(e[1]) = "Branch" => e[2] \in Goals(e[1])))'
  <2>1. e[1] \in DOMAIN blocks /\ e[2] \in fails /\ (KindOf(e[1]) = "Branch" => e[2] \in Goals(e[1]))
    BY <1>5, <1>10 DEF PatchFlow
  <2>2. CASE e[1] = p
    BY <2>1, <2>2, <1>5, <1>6 DEF KindOf
  <2>3. CASE e[1] # p
    BY <2>1, <2>3, <1>5 DEF KindOf, Goals
  <2> QED
    BY <2>2, <2>3
<1> QED
  BY <1>5, <1>9, <1>10 DEF PatchFlow

LEMMA LeaveKeeps ==
    ASSUME PatchFlow, NEW p, NEW f, LeaveJump(p, f)
    PROVE  PatchFlow'
<1>1. blocks' = blocks /\ prog' = prog /\ edges' = edges /\ fails' = fails /\ patches' \subseteq patches
  BY DEF LeaveJump, liftVars
<1> QED
  BY <1>1 DEF PatchFlow, Agrees, Whole, KindOf, Goals, ArmsOf

LEMMA DropKeeps ==
    ASSUME PatchFlow, DropFails
    PROVE  LateFlow'
<1>1. /\ fails' = fails /\ prog' = prog /\ edges' = edges /\ DOMAIN blocks' = DOMAIN blocks
      /\ \A b \in DOMAIN blocks \ fails : blocks'[b] = blocks[b]
  BY DEF DropFails, KeepIds, canaryVars
<1>2. ASSUME NEW b \in DOMAIN blocks \ fails
      PROVE  Agrees(b)'
  <2>1. Goals(b)' = Goals(b) /\ ArmsOf(b)' = ArmsOf(b)
    BY <1>1 DEF Goals, ArmsOf
  <2> QED
    BY <2>1, <1>1 DEF PatchFlow, Agrees
<1> QED
  BY <1>1, <1>2 DEF PatchFlow, LateFlow

-----------------------------------------------------------------------------
(* The whole.                                                              *)

Inv ==
    /\ prog \in Programs /\ stage \in Stages
    /\ stage = "lift" => LiftFacts /\ LiftFlow
    /\ stage \in Early => EarlyFlow
    /\ stage = "patch" => PatchFlow
    /\ stage \in Late => LateFlow

LEMMA LiftFlowKeeps ==
    ASSUME LiftFacts, LiftFlow, LiftNext, prog \in Programs, LiftAssumption
    PROVE  LiftFlow' /\ prog' = prog
<1> DEFINE n == Len(blocks)
<1>0. pc \in Int /\ n \in Nat /\ (pc >= 0 => n > 0)
  <2>1. PICK S : blocks \in Seq(S)
    BY DEF LiftFacts, Counting, IsSeq
  <2> QED
    BY <2>1 DEF LiftFacts, Counting
<1>1. ASSUME NEW s, NEW set, NEW k, Lifted(s, set, k), pc >= 0
      PROVE  LiftFlow' /\ prog' = prog
  <2>1. PICK S : blocks \in Seq(S)
    BY DEF LiftFacts, Counting, IsSeq
  <2>2. PICK rec : blocks' = [blocks EXCEPT ![n] = rec]
    BY <1>1 DEF Lifted, at
  <2>3. blocks' \in Seq(S \cup {rec}) /\ Len(blocks') = n /\ \A b \in 1 .. n : b < n => blocks'[b] = blocks[b]
    BY <1>0, <1>1, <2>1, <2>2
  <2>4. pc' = pc + 1 /\ prog' = prog
    BY <1>1 DEF Lifted
  <2> HIDE DEF n
  <2> QED
    BY <1>0, <1>1, <2>3, <2>4 DEF LiftFlow, Asis, KindOf, n
<1>2. ASSUME NEW before, NEW value, NEW id, Moved(before, value, id), pc >= 0
      PROVE  LiftFlow' /\ prog' = prog
  BY <1>1, <1>2, Zenon DEF Moved
<1>3. CASE SeedBlock
  <2>1. PICK S : blocks \in Seq(S)
    BY DEF LiftFacts, Counting, IsSeq
  <2>2. PICK rec : blocks' = Append(blocks, rec)
    BY <1>3 DEF SeedBlock
  <2>3. blocks \in Seq(S \cup {rec}) /\ rec \in S \cup {rec}
    BY <2>1
  <2>4. Len(blocks') = n + 1 /\ \A b \in 1 .. n : blocks'[b] = blocks[b]
    BY <2>2, <2>3
  <2>5. pc = -1 /\ pc' = 0 /\ prog' = prog /\ n < Len(prog)
    BY <1>3 DEF SeedBlock, at
  <2>6. Len(prog) \in Nat
    BY DEF LiftAssumption
  <2> QED
    BY <1>0, <2>4, <2>5, <2>6 DEF LiftFlow, Asis, KindOf
<1>4. CASE EndBlock
  <2>1. PICK S : blocks \in Seq(S)
    BY DEF LiftFacts, Counting, IsSeq
  <2> DEFINE end == prog[n].end
             term == Term(end, IF end = "Return" THEN R("rax") ELSE C(0), prog[n].to)
             rec == [stmts |-> blocks[n].stmts, term |-> term]
  <2>2. blocks' = [blocks EXCEPT ![n] = rec]
    BY <1>4 DEF EndBlock, at
  <2>3. rec.term.kind = prog[n].end /\ rec.term.to = prog[n].to
    BY DEF Term
  <2> HIDE DEF rec
  <2>4. pc = Len(Code) /\ pc >= 0 /\ pc' = -1 /\ prog' = prog
    BY <1>4 DEF EndBlock
  <2>5. /\ Len(blocks') = n /\ blocks'[n] = rec
        /\ \A b \in 1 .. n : b < n => blocks'[b] = blocks[b]
    BY <1>0, <2>1, <2>2, <2>4
  <2> HIDE DEF n
  <2>6. \A b \in 1 .. n : b < n \/ b = n
    BY <1>0
  <2>7. \A b \in 1 .. n : Asis(b)'
    BY <2>3, <2>4, <2>5, <2>6 DEF LiftFlow, Asis, KindOf, n
  <2> QED
    BY <2>4, <2>5, <2>7 DEF LiftFlow, n
<1>5. \A ops : Ready(ops) => pc >= 0
  BY DEF Ready
<1>6. CASE LiftMov \/ LiftMovsx \/ LiftLoad
  <2>1. pc >= 0 /\ \E before, value, id : Moved(before, value, id)
    BY <1>5, <1>6, Zenon DEF LiftMov, LiftMovsx, LiftLoad
  <2> QED
    BY <1>2, <2>1
<1>7. CASE LiftStore \/ LiftLeaRip \/ LiftLea \/ LiftBinop \/ LiftZero
  <2>1. pc >= 0 /\ \E s, set, k : Lifted(s, set, k)
    BY <1>5, <1>7, Zenon DEF LiftStore, LiftLeaRip, LiftLea, LiftBinop, LiftZero
  <2> QED
    BY <1>1, <2>1
<1>8. CASE LiftBinopMem \/ LiftPush \/ LiftPop \/ LiftLeave \/ LiftCall
  <2>1. pc >= 0 /\ \E s, set, k : Lifted(s, set, k)
    BY <1>5, <1>8, Zenon DEF LiftBinopMem, LiftPush, LiftPop, LiftLeave, LiftCall
  <2> QED
    BY <1>1, <2>1
<1>9. CASE LiftUnary \/ LiftDiv \/ LiftXchg
  <2>1. pc >= 0 /\ \E s, set, k : Lifted(s, set, k)
    BY <1>5, <1>9, Zenon DEF LiftUnary, LiftDiv, LiftXchg
  <2> QED
    BY <1>1, <2>1
<1>10. CASE LiftSyscall \/ LiftNop \/ LiftOpaque
  <2>1. pc >= 0 /\ \E s, set, k : Lifted(s, set, k)
    BY <1>5, <1>10, Zenon DEF LiftSyscall, LiftNop, LiftOpaque
  <2> QED
    BY <1>1, <2>1
<1> QED
  BY <1>3, <1>4, <1>6, <1>7, <1>8, <1>9, <1>10 DEF LiftNext

LEMMA InitInv == Init /\ LiftAssumption => Inv
<1> SUFFICES ASSUME Init, LiftAssumption
             PROVE  Inv
  OBVIOUS
<1>1. blocks = <<>> /\ names = <<>> /\ nextId = 0 /\ pc = -1 /\ prog \in Programs /\ stage = "lift"
  BY DEF Init, LiftInit, PassInit
<1>2. <<>> \in Seq({}) /\ Len(<<>>) = 0 /\ DOMAIN <<>> = {}
  OBVIOUS
<1>3. IsSeq(blocks) /\ Len(blocks) = 0 /\ DOMAIN names = {}
  <2>1. IsSeq(<<>>)
    BY <1>2, Zenon DEF IsSeq
  <2> QED
    BY <1>1, <1>2, <2>1
<1>4. LiftFacts
  BY <1>1, <1>3 DEF LiftFacts, Counting, BlockShape, Seeds, IdsGivenOut, OnceEach, AssignedAt
<1>5. Len(prog) \in Nat
  BY <1>1 DEF LiftAssumption
<1>6. LiftFlow
  BY <1>1, <1>3, <1>5 DEF LiftFlow
<1> QED
  BY <1>1, <1>4, <1>6 DEF Inv, Stages, Early, Late

LEMMA EndLiftInv == Inv /\ LiftAssumption /\ EndLift => Inv'
<1> SUFFICES ASSUME Inv, LiftAssumption, EndLift
             PROVE  Inv'
  OBVIOUS
<1>1. stage = "lift" /\ stage' = "dead1"
  BY DEF EndLift, Over, After
<1>2. blocks' = blocks /\ prog' = prog /\ edges' = AllEdges /\ pc = -1 /\ Len(blocks) = Len(prog)
  BY DEF EndLift, liftVars, AllEdges, at
<1>3. DOMAIN blocks = 1 .. Len(blocks)
  BY <1>1 DEF Inv, LiftFacts, Counting, IsSeq
<1>4. \A b \in DOMAIN blocks : Asis(b)
  BY <1>1, <1>2, <1>3 DEF Inv, LiftFlow
<1>5. EarlyFlow'
  BY <1>2, <1>3, <1>4 DEF EarlyFlow, AllEdges, Asis, KindOf
<1> QED
  BY <1>1, <1>2, <1>5 DEF Inv, Stages, Early, Late

LEMMA SameFlowInv ==
    ASSUME Inv, LiftAssumption, SameFlow, stage \in Early \cup Late, stage' \in Early \cup Late,
           stage \in Late => stage' \in Late
    PROVE  Inv'
<1>1. (prog \in Programs)' /\ prog \in Programs
  BY DEF Inv, SameFlow
<1>2. stage' \in Early => EarlyFlow'
  BY EarlyKept DEF Inv, Early, Late
<1>3. LateFlow \/ EarlyFlow
  BY DEF Inv
<1>4. LateFlow'
  BY <1>1, <1>3, EarlyLate, LateKept
<1> QED
  BY <1>1, <1>2, <1>4 DEF Inv, Stages, Early, Late

\* The passes on statements keep terminators and edges.
LEMMA PassesKeep ==
    ASSUME Inv,
           \/ DropDead \/ NoneDead \/ ResolveConstants \/ (\E a, b : AnalyseFrame(a, b))
           \/ NoSpill \/ FindSpills \/ (\E k : Flatten(k)) \/ NextRound \/ Propagate
           \/ NoCanary \/ (\E s : InferArgs(s)) \/ Returned
    PROVE  /\ SameFlow
           /\ stage \in Early \cup Late /\ stage' \in Early \cup Late
           /\ stage \in Late => stage' \in Late
<1> USE DEF SameFlow, Early, Late
<1>1. CASE DropDead
  <2>1. Statements(AllKept)
    BY <1>1 DEF DropDead
  <2>2. blocks' = [b \in DOMAIN blocks |-> [stmts |-> AllKept(b), term |-> blocks[b].term]]
    BY <2>1 DEF Statements
  <2>3. UNCHANGED <<prog, edges, fails>> /\ stage' = stage /\ stage \in {"dead1", "dead2", "dead3"}
    BY <1>1 DEF DropDead, KeepIds, passVars, canaryVars
  <2> QED
    BY <2>2, <2>3
<1>2. CASE NoneDead
  BY <1>2 DEF NoneDead, Over, After, liftVars, canaryVars
<1>3. CASE ResolveConstants
  <2>1. UNCHANGED <<prog, edges, fails>> /\ stage = "constants" /\ stage' = "frame"
    BY <1>3 DEF ResolveConstants, KeepIds, canaryVars, Over, After
  <2>2. PICK eval : blocks' = [b \in DOMAIN blocks |->
            [stmts |-> [i \in 1 .. Len(blocks[b].stmts) |-> Resolved(blocks[b].stmts[i], eval)],
             term |-> blocks[b].term]]
    BY <1>3 DEF ResolveConstants, Statements
  <2> QED
    BY <2>1, <2>2
<1>4. CASE \E a, c : AnalyseFrame(a, c)
  <2>1. PICK a, c : AnalyseFrame(a, c)
    BY <1>4
  <2>2. UNCHANGED <<prog, edges, fails>> /\ stage = "frame" /\ stage' = "spills"
    BY <2>1 DEF AnalyseFrame, KeepIds, canaryVars, Over, After
  <2>3. DOMAIN blocks' = DOMAIN blocks /\ \A b \in DOMAIN blocks : blocks'[b].term = blocks[b].term
    BY <2>1 DEF AnalyseFrame, Statements
  <2> QED
    BY <2>2, <2>3
<1>5. CASE NoSpill \/ FindSpills \/ (\E k : Flatten(k)) \/ NextRound
  BY <1>5 DEF NoSpill, FindSpills, Flatten, NextRound, Over, After, liftVars, canaryVars
<1>6. CASE Propagate
  <2>1. UNCHANGED <<prog, edges, fails>> /\ stage = "flatten" /\ stage' = "dead2"
    BY <1>6 DEF Propagate, KeepIds, canaryVars, Over, After
  <2>2. DOMAIN blocks' = DOMAIN blocks /\ \A b \in DOMAIN blocks : blocks'[b].term = SubstitutedIn(blocks[b].term)
    BY <1>6 DEF Propagate
  <2>3. \A t : SubstitutedIn(t).kind = t.kind /\ SubstitutedIn(t).to = t.to
    BY DEF SubstitutedIn, Term
  <2> QED
    BY <2>1, <2>2, <2>3
<1>7. CASE NoCanary \/ (\E s : InferArgs(s)) \/ Returned
  BY <1>7 DEF NoCanary, InferArgs, Returned, vars, passVars, Over, After, liftVars, canaryVars
<1> QED
  BY <1>1, <1>2, <1>3, <1>4, <1>5, <1>6, <1>7

LEMMA CanaryInv ==
    ASSUME Inv, LiftAssumption, stage \in {"canary", "patch"},
           \/ FindCanary \/ (\E e \in patches : PatchBranch(e[1], e[2]) \/ LeaveJump(e[1], e[2]))
           \/ DropFails
    PROVE  Inv'
<1>1. CASE FindCanary
  <2>1. stage = "canary" /\ stage' = "patch" /\ prog' = prog
    BY <1>1 DEF FindCanary, liftVars
  <2>2. PatchFlow'
    BY <1>1, <2>1, FindKeeps DEF Inv, Early
  <2> QED
    BY <2>1, <2>2 DEF Inv, Stages, Early, Late
<1>2. CASE \E e \in patches : PatchBranch(e[1], e[2]) \/ LeaveJump(e[1], e[2])
  <2>1. PICK e \in patches : PatchBranch(e[1], e[2]) \/ LeaveJump(e[1], e[2])
    BY <1>2
  <2>2. stage = "patch" /\ stage' = "patch" /\ prog' = prog
    BY <2>1 DEF PatchBranch, LeaveJump, KeepIds, liftVars
  <2>3. PatchFlow
    BY <2>2 DEF Inv
  <2>4. CASE PatchBranch(e[1], e[2])
    <3>1. e[1] \in DOMAIN blocks /\ e[2] \in fails /\ (KindOf(e[1]) = "Branch" => e[2] \in Goals(e[1]))
      BY <2>3 DEF PatchFlow
    <3>2. PatchFlow'
      BY <2>3, <2>4, <3>1, BranchKeeps DEF PatchBranch, KindOf
    <3> QED
      BY <2>2, <3>2 DEF Inv, Stages, Early, Late
  <2>5. CASE LeaveJump(e[1], e[2])
    <3>1. PatchFlow'
      BY <2>3, <2>5, LeaveKeeps
    <3> QED
      BY <2>2, <3>1 DEF Inv, Stages, Early, Late
  <2> QED
    BY <2>1, <2>4, <2>5
<1>3. CASE DropFails
  <2>1. stage = "patch" /\ stage' = "dead3" /\ prog' = prog
    BY <1>3 DEF DropFails, KeepIds, Over, After
  <2>2. LateFlow'
    BY <1>3, <2>1, DropKeeps DEF Inv
  <2> QED
    BY <2>1, <2>2 DEF Inv, Stages, Early, Late
<1> QED
  BY <1>1, <1>2, <1>3

LEMMA InvKept == Inv /\ LiftAssumption /\ [Next]_vars => Inv'
<1> SUFFICES ASSUME Inv, LiftAssumption, [Next]_vars
             PROVE  Inv'
  OBVIOUS
<1>1. CASE LiftBlocks
  <2>1. stage = "lift" /\ stage' = "lift" /\ LiftNext
    BY <1>1 DEF LiftBlocks, passVars
  <2>2. LiftFacts' /\ LiftFlow' /\ prog' = prog
    BY <2>1, LiftKeeps, LiftFlowKeeps DEF Inv
  <2> QED
    BY <2>1, <2>2 DEF Inv, Stages, Early, Late
<1>2. CASE EndLift
  BY <1>2, EndLiftInv
<1>3. CASE \/ DropDead \/ NoneDead \/ ResolveConstants \/ (\E a, b : AnalyseFrame(a, b))
           \/ NoSpill \/ FindSpills \/ (\E k : Flatten(k)) \/ NextRound \/ Propagate
           \/ NoCanary \/ (\E s : InferArgs(s)) \/ Returned
  BY <1>3, PassesKeep, SameFlowInv
<1>4. CASE \/ FindCanary \/ (\E e \in patches : PatchBranch(e[1], e[2]) \/ LeaveJump(e[1], e[2]))
           \/ DropFails
  <2>1. stage \in {"canary", "patch"}
    BY <1>4 DEF FindCanary, PatchBranch, LeaveJump, DropFails
  <2> QED
    BY <1>4, <2>1, CanaryInv
<1>5. CASE UNCHANGED vars
  <2>1. UNCHANGED <<prog, blocks, names, nextId, pc, stage, edges, fails, patches>>
    BY <1>5 DEF vars, liftVars, passVars, canaryVars
  <2>2. LiftFacts' <=> LiftFacts
    BY <2>1 DEF LiftFacts, Counting, BlockShape, Seeds, IdsGivenOut, OnceEach, AssignedAt, IdAt
  <2>3. LiftFlow' <=> LiftFlow
    BY <2>1 DEF LiftFlow, Asis, KindOf
  <2>4. (EarlyFlow' <=> EarlyFlow) /\ (LateFlow' <=> LateFlow)
    BY <2>1 DEF EarlyFlow, LateFlow, Agrees, Goals, ArmsOf, AllEdges, Asis, KindOf
  <2>5. PatchFlow' <=> PatchFlow
    BY <2>1 DEF PatchFlow, Agrees, Whole, Goals, ArmsOf, KindOf
  <2> QED
    BY <2>1, <2>2, <2>3, <2>4, <2>5 DEF Inv
<1> QED
  <2>1. CASE PassNext
    BY <2>1, <1>2, <1>3, <1>4, Zenon DEF PassNext
  <2> QED
    BY <2>1, <1>1, <1>3, <1>5 DEF Next

LEMMA InvHolds == Spec => []Inv
<1>1. Init => Inv
  BY InitInv, LiftAssumption
<1>2. Inv /\ [Next]_vars => Inv'
  BY InvKept, LiftAssumption
<1> QED
  BY <1>1, <1>2, PTL DEF Spec

-----------------------------------------------------------------------------
(* The statements, to the end: the second invariant, over the first.       *)

\* The stages before names stand for slots.
Reading == {"lift", "dead1", "constants", "frame"}

StmtInv ==
    /\ LiftFacts /\ Stmts
    /\ stage = "lift" => ReadFacts
    /\ stage \in Reading => BlocksFed

\* What changes no block and no id changes nothing said of them.
LEMMA SameBlocksKeep ==
    ASSUME LiftFacts, Stmts, UNCHANGED <<prog, blocks, names, nextId, pc>>
    PROVE  LiftFacts' /\ Stmts' /\ (BlocksFed => BlocksFed')
<1>1. LiftFacts'
  BY DEF LiftFacts, Counting, BlockShape, Seeds, IdsGivenOut, OnceEach, AssignedAt, IdAt
<1>2. Stmts'
  BY DEF Stmts
<1>3. BlocksFed => BlocksFed'
  BY EntryKept DEF BlocksFed
<1> QED
  BY <1>1, <1>2, <1>3

LEMMA InitStmts == Init /\ LiftAssumption => StmtInv
<1> SUFFICES ASSUME Init, LiftAssumption
             PROVE  StmtInv
  OBVIOUS
<1>1. blocks = <<>> /\ pc = -1 /\ stage = "lift"
  BY DEF Init, LiftInit, PassInit
<1>2. LiftFacts
  BY <1>1, InitInv DEF Inv
<1>3. Stmts /\ BlocksRead
  BY <1>1 DEF Stmts, BlocksRead
<1>4. RegsInReach
  BY <1>1 DEF RegsInReach
<1>5. SeedFacts
  <2>1. DOMAIN names = {}
    BY DEF Init, LiftInit
  <2>2. \A r \in Registers : SeedsOf(r) = {}
    BY <2>1 DEF SeedsOf
  <2>3. Len(blocks) = 0
    BY <1>1
  <2> QED
    BY <2>1, <2>2, <2>3, FS_EmptySet DEF SeedFacts
<1>6. BlocksFed
  BY <1>3, ReadAreFed
<1> QED
  BY <1>2, <1>3, <1>4, <1>5, <1>6 DEF StmtInv, ReadFacts

LEMMA StmtKept ==
    ASSUME Inv, StmtInv, LiftAssumption, RegisterAssumption, [Next]_vars
    PROVE  StmtInv'
<1>0. LiftFacts /\ Stmts
  BY DEF StmtInv
<1>1. CASE LiftBlocks
  <2>1. stage = "lift" /\ stage' = "lift" /\ LiftNext
    BY <1>1 DEF LiftBlocks, passVars
  <2>2. ReadFacts /\ prog \in Programs /\ Len(blocks) <= Len(prog)
    BY <2>1 DEF Inv, StmtInv, LiftFlow
  <2>3. LiftFacts'
    BY <1>0, <2>1, LiftKeeps
  <2>4. ReadFacts'
    BY <1>0, <2>1, <2>2, LiftReads
  <2>5. Stmts'
    BY <2>4 DEF ReadFacts, BlocksRead, Sound, Stmts
  <2>6. BlocksFed'
    <3>1. BlocksRead'
      BY <2>4 DEF ReadFacts
    <3> QED
      BY <3>1 DEF BlocksRead, BlocksFed, Sound, Fed, DependsOn
  <2> QED
    BY <2>1, <2>3, <2>4, <2>5, <2>6 DEF StmtInv
<1>2. CASE EndLift \/ NoneDead \/ FindCanary \/ UNCHANGED vars
  <2>1. UNCHANGED <<prog, blocks, names, nextId, pc>>
    BY <1>2 DEF EndLift, NoneDead, FindCanary, vars, liftVars
  <2>2. UNCHANGED vars => UNCHANGED <<stage, regs>>
    BY DEF vars, passVars, liftVars
  <2>3. /\ stage' = "lift" => stage = "lift" /\ regs' = regs
        /\ stage' \in Reading => stage \in Reading
    BY <1>2, <2>2 DEF EndLift, NoneDead, FindCanary, Over, After, Reading
  <2>4. ReadFacts /\ regs' = regs => ReadFacts'
    <3>1. (\A b : AtEntry(b)' = AtEntry(b)) /\ (\A r : SeedsOf(r)' = SeedsOf(r))
      BY <2>1, EntryKept
    <3>2. BlocksRead => BlocksRead'
      BY <2>1, <3>1 DEF BlocksRead
    <3>3. SeedFacts => SeedFacts'
      BY <2>1, <3>1 DEF SeedFacts
    <3>4. AtEntry(Len(blocks))' = AtEntry(Len(blocks))
      BY <2>1, EntryKept DEF AtEntry, SeedsIn, SeededBefore, SeedsOf, Unloaded, FromRipIn
    <3>5. InReach' = InReach
      BY <2>1, <3>4 DEF InReach, AtEnd
    <3>6. RegsInReach /\ regs' = regs => RegsInReach'
      BY <2>1, <3>5 DEF RegsInReach
    <3> QED
      BY <3>2, <3>3, <3>6 DEF ReadFacts
  <2>5. LiftFacts' /\ Stmts' /\ (BlocksFed => BlocksFed')
    BY <1>0, <2>1, SameBlocksKeep
  <2> QED
    BY <2>3, <2>4, <2>5 DEF StmtInv
<1>3. CASE \/ NoSpill \/ FindSpills \/ (\E k : Flatten(k)) \/ NextRound
           \/ NoCanary \/ (\E s : InferArgs(s)) \/ Returned
  <2>1. UNCHANGED <<prog, blocks, names, nextId, pc>>
    BY <1>3 DEF NoSpill, FindSpills, Flatten, NextRound, NoCanary, InferArgs, Returned, vars, liftVars
  <2>2. stage' \notin Reading
    BY <1>3 DEF NoSpill, FindSpills, Flatten, NextRound, NoCanary, InferArgs, Returned, vars, passVars,
                Over, After, Reading
  <2> QED
    BY <1>0, <2>1, <2>2, SameBlocksKeep DEF StmtInv, Reading
<1>4. CASE DropDead
  <2>1. stage' = stage /\ stage # "lift"
    BY <1>4 DEF DropDead, passVars
  <2> QED
    BY <1>0, <1>4, <2>1, DropKeepsStmts DEF StmtInv
<1>5. CASE ResolveConstants
  <2>1. stage = "constants" /\ stage' = "frame"
    BY <1>5 DEF ResolveConstants, Over, After
  <2> QED
    BY <1>0, <1>5, <2>1, ResolveKeeps DEF StmtInv, Reading
<1>6. CASE \E rbp, rsp : AnalyseFrame(rbp, rsp)
  <2>1. PICK rbp, rsp : AnalyseFrame(rbp, rsp)
    BY <1>6
  <2>2. stage' = "spills"
    BY <2>1 DEF AnalyseFrame, Over, After
  <2> QED
    BY <1>0, <2>1, <2>2, FrameKeeps DEF StmtInv, Reading
<1>7. CASE Propagate
  <2>1. stage' = "dead2"
    BY <1>7 DEF Propagate, Over, After
  <2> QED
    BY <1>0, <1>7, <2>1, PropagateKeeps DEF StmtInv, Reading
<1>8. CASE \E e \in patches : PatchBranch(e[1], e[2]) \/ LeaveJump(e[1], e[2])
  <2>1. PICK e \in patches : PatchBranch(e[1], e[2]) \/ LeaveJump(e[1], e[2])
    BY <1>8
  <2>2. stage = "patch" /\ stage' = "patch"
    BY <2>1 DEF PatchBranch, LeaveJump
  <2>3. e[1] \in DOMAIN blocks
    BY <2>2 DEF Inv, PatchFlow
  <2>4. LiftFacts' /\ Stmts'
    <3>1. CASE PatchBranch(e[1], e[2])
      BY <1>0, <2>3, <3>1, PatchKeepsStmts
    <3>2. CASE LeaveJump(e[1], e[2])
      <4>1. UNCHANGED <<prog, blocks, names, nextId, pc>>
        BY <3>2 DEF LeaveJump, liftVars
      <4> QED
        BY <1>0, <4>1, SameBlocksKeep
    <3> QED
      BY <2>1, <3>1, <3>2
  <2> QED
    BY <2>2, <2>4 DEF StmtInv, Reading
<1>9. CASE DropFails
  <2>1. stage' = "dead3"
    BY <1>9 DEF DropFails, Over, After
  <2> QED
    BY <1>0, <1>9, <2>1, FailsKeep DEF StmtInv, Reading
<1> QED
  <2>1. CASE PassNext
    BY <2>1, <1>2, <1>3, <1>4, <1>5, <1>6, <1>7, <1>8, <1>9, Zenon DEF PassNext
  <2> QED
    BY <2>1, <1>1, <1>2, <1>3 DEF Next

LEMMA StmtInvHolds == Spec => []StmtInv
<1>1. Init => StmtInv
  BY InitStmts, LiftAssumption
<1>2. Inv /\ StmtInv /\ [Next]_vars => StmtInv'
  BY StmtKept, LiftAssumption, RegisterAssumption
<1> QED
  BY <1>1, <1>2, InvHolds, PTL DEF Spec

(***************************************************************************)
(* x86.rs, fresh, and the passes of lift_function: whatever the function   *)
(* and its registers, and whatever the passes take away, name or replace,  *)
(* no id is ever assigned twice and no register's id at all.               *)
(***************************************************************************)
THEOREM LiftAssignsOnce == Spec => []SingleAssignment
<1>1. StmtInv => SingleAssignment
  <2> SUFFICES ASSUME LiftFacts
               PROVE  SingleAssignment
    BY DEF StmtInv
  <2>1. \A q \in Positions : IsAssign(StmtAt(q)) => AssignedAt(q[1], q[2]) /\ q = <<q[1], q[2]>>
    <3>1. DOMAIN blocks = 1 .. Len(blocks)
      BY DEF LiftFacts, Counting, IsSeq
    <3>2. \A b \in 1 .. Len(blocks) : DOMAIN blocks[b].stmts = 1 .. Len(blocks[b].stmts)
      BY DEF LiftFacts, BlockShape, IsSeq
    <3> QED
      BY <3>1, <3>2 DEF Positions, StmtAt, AssignedAt
  <2>2. \A q : StmtAt(q).lhs = IdAt(q[1], q[2])
    BY DEF StmtAt, IdAt
  <2>3. ASSUME NEW p \in Positions, IsAssign(StmtAt(p))
        PROVE  StmtAt(p).lhs \in Ids \ DOMAIN names
    BY <2>1, <2>2, <2>3 DEF LiftFacts, IdsGivenOut, Counting, Ids
  <2>4. ASSUME NEW p \in Positions, NEW q \in Positions, IsAssign(StmtAt(p)), IsAssign(StmtAt(q)),
               StmtAt(q).lhs = StmtAt(p).lhs
        PROVE  p = q
    <3>1. p[1] = q[1] /\ p[2] = q[2]
      BY <2>1, <2>2, <2>4 DEF LiftFacts, OnceEach
    <3> QED
      BY <2>1, <2>4, <3>1
  <2> QED
    BY <2>3, <2>4 DEF SingleAssignment
<1> QED
  BY <1>1, StmtInvHolds, PTL

(***************************************************************************)
(* x86.rs, lift_block, eliminate_dead_assigns and resolve_constants:       *)
(* whatever the function, until names stand for the slots of its frame a   *)
(* statement and a terminator read the registers as their own block found  *)
(* them or what a statement before them in it computes, and the two ids    *)
(* nothing computes only where an instruction of the block asks for them.  *)
(* As lifted, the targets of indirect calls too; the passes after do drop  *)
(* what computes those.                                                    *)
(***************************************************************************)
THEOREM ReadsAreAtHand == Spec => []ReadsAreDefined
<1>1. StmtInv => ReadsAreDefined
  <2> SUFFICES ASSUME StmtInv, stage \in Reading, NEW b \in DOMAIN blocks
               PROVE  LET n == Len(blocks[b].stmts)
                          reads(s) == IF stage = "lift" THEN DependsOn(s) ELSE Reads(s)
                      IN  /\ \A i \in 1 .. n : \A id \in reads(blocks[b].stmts[i]) : There(id, b, i)
                          /\ \A id \in TermReads(blocks[b].term) : There(id, b, n + 1)
    BY DEF ReadsAreDefined, Reading
  <2> DEFINE s == blocks[b].stmts
  <2>1. b \in 1 .. Len(blocks) /\ BlocksFed
    BY DEF StmtInv, LiftFacts, Counting, IsSeq
  <2>2. Len(s) \in Nat
    BY <2>1 DEF StmtInv, LiftFacts, BlockShape, IsSeq
  <2>3. \A i \in 1 .. Len(s) : \A id \in Reads(s[i]) : There(id, b, i)
    <3>1. \A i \in 1 .. Len(s) : \A id \in Reads(s[i]) :
            id \in AtEntry(b) \/ \E j \in 1 .. i - 1 : Computes(s[j], id)
      BY <2>1 DEF BlocksFed, Fed
    <3> QED
      BY <3>1, Zenon DEF There, Computes, DefinedAt
  <2>4. stage = "lift" => \A i \in 1 .. Len(s) : \A id \in DependsOn(s[i]) : There(id, b, i)
    <3>1. stage = "lift" => \A i \in 1 .. Len(s) : \A id \in DependsOn(s[i]) :
            id \in AtEntry(b) \/ \E j \in 1 .. i - 1 : Computes(s[j], id)
      BY <2>1 DEF StmtInv, ReadFacts, BlocksRead, Sound
    <3> QED
      BY <3>1, Zenon DEF There, Computes, DefinedAt
  <2>5. Len(s) + 1 - 1 = Len(s)
    BY <2>2
  <2>6. \A id \in TermReads(blocks[b].term) : There(id, b, Len(s) + 1)
    <3>1. \A id \in TermReads(blocks[b].term) :
            id \in AtEntry(b) \/ \E j \in 1 .. Len(s) : Computes(s[j], id)
      BY <2>1, AtEndIs DEF BlocksFed
    <3>2. \A id \in TermReads(blocks[b].term) :
            id \in AtEntry(b) \/ \E j \in 1 .. Len(s) : DefinedAt(id, b, j)
      BY <3>1, Zenon DEF Computes, DefinedAt
    <3> QED
      BY <2>5, <3>2 DEF There
  <2> QED
    BY <2>3, <2>4, <2>6
<1> QED
  BY <1>1, StmtInvHolds, PTL

(***************************************************************************)
(* frame.rs, eliminate_canary, whatever the function: the terminators and  *)
(* the edges of the graph agree, before, during and after the canary is    *)
(* taken out, and only what goes to failing blocks is taken away.          *)
(***************************************************************************)
THEOREM CanaryCutsFails == Spec => [](EdgesFollowTerms /\ OnlyFailsAreCut)
<1>1. Inv => EdgesFollowTerms /\ OnlyFailsAreCut
  <2> SUFFICES ASSUME Inv
               PROVE  EdgesFollowTerms /\ OnlyFailsAreCut
    OBVIOUS
  <2>1. CASE stage = "lift"
    BY <2>1 DEF EdgesFollowTerms, OnlyFailsAreCut
  <2>2. CASE stage \in Early
    BY <2>2, EarlyAgrees, LiftAssumption DEF Inv, Early, Agrees, EdgesFollowTerms, OnlyFailsAreCut, ArmsOf
  <2>3. CASE stage = "patch"
    BY <2>3 DEF Inv, PatchFlow, Agrees, EdgesFollowTerms, OnlyFailsAreCut, ArmsOf
  <2>4. CASE stage \in Late
    BY <2>4 DEF Inv, Late, LateFlow, Agrees, EdgesFollowTerms, OnlyFailsAreCut, ArmsOf
  <2> QED
    BY <2>1, <2>2, <2>3, <2>4 DEF Inv, Stages, Early, Late
<1> QED
  BY <1>1, InvHolds, PTL
=============================================================================
