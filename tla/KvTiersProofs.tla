--------------------------- MODULE KvTiersProofs ---------------------------
(***************************************************************************)
(* Proofs about the chunk tiers: whatever sequences share, copy, promote,  *)
(* evict and reset in any order, every slot has one owner, and every token *)
(* is where its chunk says once the copies in flight have run.             *)
(***************************************************************************)
EXTENDS KvTiers, FiniteSetTheorems, SequenceTheorems, TLAPS

-----------------------------------------------------------------------------
(* Lists of slots                                                          *)

(* What a pool's alloc takes and leaves.                                   *)
LEMMA PopFacts ==
  ASSUME NEW S, NEW list \in Seq(S), list # <<>>
  PROVE  /\ AllocSlot(list) \in S /\ AllocSlot(list) \in ToSet(list)
         /\ AfterAlloc(list) \in Seq(S)
         /\ IsInjective(list) => /\ IsInjective(AfterAlloc(list))
                                 /\ ToSet(AfterAlloc(list)) = ToSet(list) \ {AllocSlot(list)}
<1> DEFINE n == Len(list)   rest == AfterAlloc(list)
<1>1. n \in Nat /\ n > 0 /\ n \in 1..n /\ DOMAIN list = 1..n
  OBVIOUS
<1>2. rest \in Seq(S) /\ Len(rest) = n - 1 /\ \A i \in 1..(n - 1) : rest[i] = list[i]
  BY <1>1, SubSeqProperties DEF AfterAlloc
<1>3. AllocSlot(list) \in S /\ AllocSlot(list) \in ToSet(list)
  BY <1>1 DEF AllocSlot, ToSet
<1>4. DOMAIN rest = 1..(n - 1)
  BY <1>1, <1>2
<1>5. ASSUME IsInjective(list)
      PROVE  IsInjective(rest) /\ ToSet(rest) = ToSet(list) \ {AllocSlot(list)}
  <2>0. \A i, j \in 1..n : list[i] = list[j] => i = j
    BY <1>1, <1>5 DEF IsInjective
  <2>1. IsInjective(rest)
    BY <1>1, <1>2, <1>4, <2>0 DEF IsInjective
  <2>2. ASSUME NEW x \in ToSet(rest) PROVE x \in ToSet(list) \ {AllocSlot(list)}
    <3>1. PICK i \in 1..(n - 1) : x = list[i]
      BY <1>2, <1>4 DEF ToSet
    <3>2. i \in 1..n /\ i # n
      <4> HIDE DEF n
      <4> QED BY <1>1
    <3> QED BY <1>1, <2>0, <3>1, <3>2 DEF ToSet, AllocSlot
  <2>3. ASSUME NEW x \in ToSet(list) \ {AllocSlot(list)} PROVE x \in ToSet(rest)
    <3>1. PICK i \in 1..n : x = list[i] /\ i # n
      BY <1>1 DEF ToSet, AllocSlot
    <3>2. i \in 1..(n - 1)
      <4> HIDE DEF n
      <4> QED BY <1>1, <3>1
    <3> QED BY <1>2, <1>4, <3>1, <3>2 DEF ToSet
  <2> QED BY <2>1, <2>2, <2>3
<1> QED BY <1>2, <1>3, <1>5

(* Lists behind one another                                                *)
LEMMA JoinFacts ==
  ASSUME NEW S, NEW f \in Seq(S), NEW g \in Seq(S), IsInjective(f), IsInjective(g),
         ToSet(f) \cap ToSet(g) = {}
  PROVE  /\ f \o g \in Seq(S) /\ IsInjective(f \o g)
         /\ ToSet(f \o g) = ToSet(f) \cup ToSet(g)
<1> DEFINE m == Len(f)   n == Len(g)   h == f \o g
<1>1. /\ m \in Nat /\ n \in Nat /\ DOMAIN f = 1..m /\ DOMAIN g = 1..n
      /\ h \in Seq(S) /\ Len(h) = m + n /\ DOMAIN h = 1..(m + n)
  OBVIOUS
<1>2. \A i \in 1..(m + n) : h[i] = IF i <= m THEN f[i] ELSE g[i - m]
  OBVIOUS
<1>3. \A i \in 1..(m + n) : (i <= m /\ i \in 1..m) \/ (~(i <= m) /\ i - m \in 1..n)
  BY <1>1
<1>4. \A i, j \in 1..m : f[i] = f[j] => i = j
  BY <1>1 DEF IsInjective
<1>5. \A i, j \in 1..n : g[i] = g[j] => i = j
  BY <1>1 DEF IsInjective
<1>6. \A i \in 1..m, j \in 1..n : f[i] # g[j]
  BY <1>1 DEF ToSet
<1>7. IsInjective(h)
  <2> SUFFICES ASSUME NEW i \in 1..(m + n), NEW j \in 1..(m + n), h[i] = h[j]
               PROVE  i = j
    BY <1>1 DEF IsInjective
  <2> HIDE DEF m, n, h
  <2>1. CASE i <= m /\ j <= m
    BY <1>2, <1>3, <1>4, <2>1
  <2>2. CASE ~(i <= m) /\ ~(j <= m)
    <3>1. i - m = j - m
      BY <1>2, <1>3, <1>5, <2>2
    <3> QED BY <1>1, <3>1
  <2>3. CASE (i <= m /\ ~(j <= m)) \/ (~(i <= m) /\ j <= m)
    BY <1>2, <1>3, <1>6, <2>3
  <2> QED BY <2>1, <2>2, <2>3
<1>8. ToSet(h) \subseteq ToSet(f) \cup ToSet(g)
  BY <1>1, <1>2, <1>3 DEF ToSet
<1>9. ToSet(f) \subseteq ToSet(h)
  BY <1>1, <1>2 DEF ToSet
<1>10. ASSUME NEW x \in ToSet(g) PROVE x \in ToSet(h)
  <2>1. PICK j \in 1..n : x = g[j]
    BY <1>1 DEF ToSet
  <2>2. m + j \in 1..(m + n) /\ ~(m + j <= m) /\ (m + j) - m = j
    BY <1>1
  <2>3. h[m + j] = g[j]
    BY <1>2, <2>2
  <2> QED BY <1>1, <2>1, <2>2, <2>3 DEF ToSet
<1> QED BY <1>1, <1>7, <1>8, <1>9, <1>10

(* Every member of a finite set of numbers has its own rank.               *)
LEMMA RankFacts ==
  ASSUME NEW n \in Nat, NEW P \in SUBSET (1..n)
  PROVE  /\ IsFiniteSet(P) /\ Cardinality(P) \in Nat
         /\ \A i \in P : Rank(P, i) \in 1..Cardinality(P)
         /\ \A i, j \in P : Rank(P, i) = Rank(P, j) => i = j
         /\ \A k \in 1..Cardinality(P) : \E i \in P : Rank(P, i) = k
<1> DEFINE below(i) == {j \in P : j <= i}   N == Cardinality(P)
<1>1. IsFiniteSet(P) /\ N \in Nat
  <2>1. IsFiniteSet(1..n)
    BY FS_Interval
  <2>2. IsFiniteSet(P)
    BY <2>1, FS_Subset
  <2> QED BY <2>2, FS_CardinalityType
<1>2. \A i \in P : i \in Nat /\ IsFiniteSet(below(i)) /\ Cardinality(below(i)) \in Nat /\ Cardinality(below(i)) <= N
  <2> SUFFICES ASSUME NEW i \in P
               PROVE  i \in Nat /\ IsFiniteSet(below(i)) /\ Cardinality(below(i)) \in Nat /\ Cardinality(below(i)) <= N
    OBVIOUS
  <2>1. below(i) \in SUBSET P
    OBVIOUS
  <2> QED BY <1>1, <2>1, FS_Subset, FS_CardinalityType
<1>3. \A i \in P : Rank(P, i) \in 1..N
  <2> SUFFICES ASSUME NEW i \in P PROVE Rank(P, i) \in 1..N
    OBVIOUS
  <2>1. below(i) # {}
    BY <1>2
  <2>2. Cardinality(below(i)) # 0
    BY <1>2, <2>1, FS_EmptySet
  <2> QED BY <1>1, <1>2, <2>2 DEF Rank
<1>4. ASSUME NEW i \in P, NEW j \in P, i < j
      PROVE  Rank(P, i) # Rank(P, j)
  <2>0. i \in Nat /\ j \in Nat /\ P \subseteq Nat
    OBVIOUS
  <2>1. \A k \in P : k <= i => k <= j
    BY <1>4, <2>0
  <2>2. j <= j /\ ~(j <= i)
    BY <1>4, <2>0
  <2>3. below(i) \in SUBSET below(j) /\ j \in below(j) /\ j \notin below(i)
    BY <2>1, <2>2
  <2>4. Cardinality(below(i)) # Cardinality(below(j))
    BY <1>2, <2>3, FS_Subset
  <2> QED BY <2>4 DEF Rank
<1>5. \A i, j \in P : Rank(P, i) = Rank(P, j) => i = j
  <2> SUFFICES ASSUME NEW i \in P, NEW j \in P, i # j PROVE Rank(P, i) # Rank(P, j)
    OBVIOUS
  <2>1. i < j \/ j < i
    BY <1>2
  <2> QED BY <1>4, <2>1
<1>6. \A k \in 1..N : \E i \in P : Rank(P, i) = k
  <2> DEFINE r == [i \in P |-> Rank(P, i)]
  <2>1. r \in Injection(P, 1..N)
    BY <1>3, <1>5 DEF Injection, IsInjective
  <2>2. IsFiniteSet(1..N) /\ Cardinality(1..N) = N
    BY <1>1, FS_Interval
  <2>3. r \in Surjection(P, 1..N)
    BY <2>1, <2>2, FS_Injection
  <2> QED BY <2>3 DEF Surjection
<1> QED BY <1>1, <1>3, <1>5, <1>6

(* InListOrder enumerates what it should.                                  *)
LEMMA ListOrder ==
  ASSUME NEW T, NEW list \in Seq(T), IsInjective(list), NEW S
  PROVE  LET q == InListOrder(list, S)
         IN  /\ q \in Seq(T) /\ IsInjective(q) /\ ToSet(q) = ToSet(list) \cap S
             /\ \A k \in 1..Len(q) : q[k] \in T \cap S
<1> DEFINE P == Places(list, S)   N == Cardinality(P)
           at(k) == CHOOSE i \in P : Rank(P, i) = k
           q == InListOrder(list, S)
<1>1. Len(list) \in Nat /\ P \in SUBSET (1..Len(list)) /\ DOMAIN list = 1..Len(list)
  BY DEF Places
<1>2. /\ N \in Nat
      /\ \A i \in P : Rank(P, i) \in 1..N
      /\ \A i, j \in P : Rank(P, i) = Rank(P, j) => i = j
      /\ \A k \in 1..N : \E i \in P : Rank(P, i) = k
  BY <1>1, RankFacts
<1>3. \A k \in 1..N : at(k) \in P /\ Rank(P, at(k)) = k
  BY <1>2
<1>4. q = [k \in 1..N |-> list[at(k)]]
  BY DEF InListOrder
<1>5. \A i \in P : list[i] \in T \cap S
  BY <1>1 DEF Places
<1> HIDE DEF q, P, N, at
<1>6. q \in Seq(T) /\ Len(q) = N /\ DOMAIN q = 1..N /\ \A k \in 1..N : q[k] = list[at(k)] /\ q[k] \in T \cap S
  BY <1>2, <1>3, <1>4, <1>5
<1>7. \A i, j \in P : list[i] = list[j] => i = j
  BY <1>1 DEF IsInjective
<1>8. IsInjective(q)
  <2> SUFFICES ASSUME NEW k \in 1..N, NEW l \in 1..N, q[k] = q[l] PROVE k = l
    BY <1>6 DEF IsInjective
  <2>1. at(k) = at(l)
    BY <1>3, <1>6, <1>7
  <2> QED BY <1>3, <2>1
<1>9. ASSUME NEW x \in ToSet(q) PROVE x \in ToSet(list) \cap S
  <2>1. PICK k \in 1..N : x = q[k]
    BY <1>6, <1>9 DEF ToSet
  <2> QED BY <1>1, <1>3, <1>6, <2>1 DEF ToSet
<1>10. ASSUME NEW x \in ToSet(list) \cap S PROVE x \in ToSet(q)
  <2>1. PICK i \in 1..Len(list) : x = list[i]
    BY <1>1 DEF ToSet
  <2>2. i \in P
    BY <1>10, <2>1 DEF P, Places
  <2>3. Rank(P, i) \in 1..N /\ at(Rank(P, i)) = i
    BY <1>2, <1>3, <2>2
  <2> QED BY <1>6, <2>1, <2>3 DEF ToSet
<1> QED BY <1>6, <1>8, <1>9, <1>10 DEF q

-----------------------------------------------------------------------------
(* Pools                                                                   *)

(* An allocation gives the top slot to a handle that had none, ...         *)
LEMMA TakeAccounted ==
  ASSUME NEW cap \in Nat, NEW free \in Seq(0..(cap - 1)), free # <<>>, NEW out,
         NEW held, Accounted(free, out, held, cap), NEW holds,
         \E h \in DOMAIN holds :
            /\ \A g \in DOMAIN holds : g \in DOMAIN held \/ g = h
            /\ h \in DOMAIN held => held[h] = cap
            /\ holds[h] = AllocSlot(free)
            /\ \A g \in DOMAIN held : g # h => g \in DOMAIN holds /\ holds[g] = held[g]
  PROVE  Accounted(AfterAlloc(free), out, holds, cap)
<1> DEFINE x == AllocSlot(free)   rest == AfterAlloc(free)
<1>0. PICK L, M, h : /\ L = DOMAIN held /\ M = DOMAIN holds /\ h \in M
                     /\ \A g \in M : g \in L \/ g = h
                     /\ h \in L => held[h] = cap
                     /\ holds[h] = AllocSlot(free)
                     /\ \A g \in L : g # h => g \in M /\ holds[g] = held[g]
  OBVIOUS
<1>1. DOMAIN held = L /\ DOMAIN holds = M
  BY <1>0
<1>2. x \in ToSet(free) /\ IsInjective(rest) /\ ToSet(rest) = ToSet(free) \ {x} /\ x \in 0..(cap - 1)
  <2>1. IsInjective(free)
    BY DEF Accounted
  <2> QED BY <2>1, PopFacts
<1>3. x # cap
  BY <1>2
<1>4. /\ ToSet(free) \cap out = {}
      /\ \A g \in L : held[g] \notin ToSet(free) \cup out
      /\ \A f, g \in L : f # g /\ held[f] = held[g] => held[g] = cap
      /\ \A v \in 0..(cap - 1) : v \in ToSet(free) \/ v \in out \/ \E g \in L : held[g] = v
  BY <1>1 DEF Accounted
<1>5. x \notin out /\ \A g \in L : held[g] # x
  BY <1>2, <1>4
<1> HIDE DEF x, rest
<1>6. ToSet(rest) \cap out = {}
  BY <1>2, <1>4
<1>7. \A g \in M : holds[g] \notin ToSet(rest) \cup out
  BY <1>0, <1>2, <1>4, <1>5 DEF x
<1>8. \A f, g \in M : f # g /\ holds[f] = holds[g] => holds[g] = cap
  BY <1>0, <1>4, <1>5 DEF x
<1>9. ASSUME NEW v \in 0..(cap - 1)
      PROVE  v \in ToSet(rest) \/ v \in out \/ \E g \in M : holds[g] = v
  <2>1. CASE v = x
    BY <1>0, <2>1 DEF x
  <2>2. CASE v # x
    <3>1. CASE v \in ToSet(free) \/ v \in out
      BY <1>2, <2>2, <3>1
    <3>2. CASE \E g \in L : held[g] = v
      <4>1. PICK g \in L : held[g] = v
        BY <3>2
      <4>2. g # h
        BY <1>0, <4>1
      <4> QED BY <1>0, <4>1, <4>2
    <3> QED BY <1>4, <3>1, <3>2
  <2> QED BY <2>1, <2>2
<1> QED BY <1>1, <1>2, <1>6, <1>7, <1>8, <1>9 DEF Accounted, rest

(* ... or to nobody.                                                       *)
LEMMA LoseAccounted ==
  ASSUME NEW cap \in Nat, NEW free \in Seq(0..(cap - 1)), free # <<>>, NEW out,
         NEW L, NEW held \in [L -> 0..cap], Accounted(free, out, held, cap)
  PROVE  Accounted(AfterAlloc(free), out \cup {AllocSlot(free)}, held, cap)
<1>2. /\ AllocSlot(free) \in ToSet(free) /\ IsInjective(AfterAlloc(free))
      /\ ToSet(AfterAlloc(free)) = ToSet(free) \ {AllocSlot(free)}
  BY PopFacts DEF Accounted
<1> QED BY <1>2 DEF Accounted

(* A handle without a slot changes nothing.                                *)
LEMMA SameAccounted ==
  ASSUME NEW cap \in Nat, NEW free \in Seq(0..(cap - 1)), NEW out \in SUBSET (0..(cap - 1)),
         NEW L, NEW held \in [L -> 0..cap], Accounted(free, out, held, cap),
         NEW M, NEW holds \in [M -> 0..cap], L \subseteq M,
         \A g \in L : holds[g] = held[g],
         \A g \in M \ L : holds[g] = cap
  PROVE  Accounted(free, out, holds, cap)
<1>1. DOMAIN held = L /\ DOMAIN holds = M
  OBVIOUS
<1>2. cap \notin ToSet(free) \cup out
  BY DEF ToSet
<1>3. /\ IsInjective(free) /\ ToSet(free) \cap out = {}
      /\ \A g \in L : held[g] \notin ToSet(free) \cup out
      /\ \A f, g \in L : f # g /\ held[f] = held[g] => held[g] = cap
      /\ \A v \in 0..(cap - 1) : v \in ToSet(free) \/ v \in out \/ \E g \in L : held[g] = v
  BY <1>1 DEF Accounted
<1>4. \A g \in M : holds[g] \notin ToSet(free) \cup out
  BY <1>2, <1>3
<1>5. \A f, g \in M : f # g /\ holds[f] = holds[g] => holds[g] = cap
  BY <1>3
<1>6. \A v \in 0..(cap - 1) : v \in ToSet(free) \/ v \in out \/ \E g \in M : holds[g] = v
  BY <1>3
<1> QED BY <1>1, <1>3, <1>4, <1>5, <1>6 DEF Accounted

(* The slots of some handles are returned, and they hold none any more.    *)
LEMMA ReturnAccounted ==
  ASSUME NEW cap \in Nat, NEW free \in Seq(0..(cap - 1)), NEW out \in SUBSET (0..(cap - 1)),
         NEW held, Accounted(free, out, held, cap),
         NEW q \in Seq(0..(cap - 1)), IsInjective(q), NEW holds,
         \E D \in SUBSET DOMAIN held :
            /\ ToSet(q) = {held[g] : g \in D} \ {cap}
            /\ \A g \in DOMAIN holds : g \in DOMAIN held
            /\ \A g \in DOMAIN held : g \notin D => g \in DOMAIN holds
            /\ \A g \in DOMAIN holds : holds[g] = IF g \in D THEN cap ELSE held[g]
  PROVE  free \o q \in Seq(0..(cap - 1)) /\ Accounted(free \o q, out, holds, cap)
<1>0. PICK L, M, D : /\ L = DOMAIN held /\ M = DOMAIN holds /\ D \in SUBSET L
                     /\ ToSet(q) = {held[g] : g \in D} \ {cap}
                     /\ M \subseteq L /\ L \ D \subseteq M
                     /\ \A g \in M : holds[g] = IF g \in D THEN cap ELSE held[g]
  OBVIOUS
<1>1. DOMAIN held = L /\ DOMAIN holds = M
  BY <1>0
<1>3. /\ IsInjective(free) /\ ToSet(free) \cap out = {}
      /\ \A g \in L : held[g] \notin ToSet(free) \cup out
      /\ \A f, g \in L : f # g /\ held[f] = held[g] => held[g] = cap
      /\ \A v \in 0..(cap - 1) : v \in ToSet(free) \/ v \in out \/ \E g \in L : held[g] = v
  BY <1>1 DEF Accounted
<1>4. ToSet(free) \cap ToSet(q) = {}
  BY <1>0, <1>3
<1>5. /\ free \o q \in Seq(0..(cap - 1)) /\ IsInjective(free \o q)
      /\ ToSet(free \o q) = ToSet(free) \cup ToSet(q)
  BY <1>3, <1>4, JoinFacts
<1>6. cap \notin ToSet(free) \cup out \cup ToSet(q)
  BY DEF ToSet
<1>7. ToSet(free \o q) \cap out = {}
  <2>1. \A x \in ToSet(q) : x \notin out
    BY <1>0, <1>3
  <2> QED BY <1>3, <1>5, <2>1
<1>8. \A g \in M : holds[g] \notin ToSet(free \o q) \cup out
  <2> SUFFICES ASSUME NEW g \in M PROVE holds[g] \notin ToSet(free) \cup ToSet(q) \cup out
    BY <1>5
  <2>1. CASE g \in D
    BY <1>0, <1>6, <2>1
  <2>2. CASE g \notin D
    <3>1. holds[g] = held[g] /\ g \in L
      BY <1>0, <2>2
    <3>2. \A x \in ToSet(q) : x # cap /\ \E f \in D : f \in L /\ held[f] = x
      BY <1>0
    <3>3. held[g] \notin ToSet(q)
      BY <1>3, <2>2, <3>1, <3>2
    <3> QED BY <1>3, <3>1, <3>3
  <2> QED BY <2>1, <2>2
<1>9. \A f, g \in M : f # g /\ holds[f] = holds[g] => holds[g] = cap
  BY <1>0, <1>3
<1>10. ASSUME NEW v \in 0..(cap - 1)
       PROVE  v \in ToSet(free \o q) \/ v \in out \/ \E g \in M : holds[g] = v
  <2>0. v # cap
    OBVIOUS
  <2>1. CASE v \in ToSet(free) \/ v \in out
    BY <1>5, <2>1
  <2>2. CASE \E g \in L : held[g] = v
    <3>1. PICK g \in L : held[g] = v
      BY <2>2
    <3>2. CASE g \in D
      BY <1>0, <1>5, <2>0, <3>1, <3>2
    <3>3. CASE g \notin D
      BY <1>0, <3>1, <3>3
    <3> QED BY <3>2, <3>3
  <2> QED BY <1>3, <2>1, <2>2
<1> QED BY <1>1, <1>5, <1>7, <1>8, <1>9, <1>10 DEF Accounted

(* The slots of a pool that are accounted for add up as SlotsAccountedFor  *)
(* counts them.                                                            *)
LEMMA Adds ==
  ASSUME NEW cap \in Nat, NEW free, NEW out, NEW L, NEW held \in [L -> 0..cap],
         Accounted(free, out, held, cap), NEW v \in 0..(cap - 1)
  PROVE  (IF v \in ToSet(free) THEN 1 ELSE 0) + (IF v \in out THEN 1 ELSE 0)
           + Cardinality({h \in L : held[h] = v}) = 1
<1> DEFINE H == {h \in L : held[h] = v}
<1>1. DOMAIN held = L /\ v # cap
  OBVIOUS
<1>2. /\ ToSet(free) \cap out = {}
      /\ \A g \in L : held[g] \notin ToSet(free) \cup out
      /\ \A f, g \in L : f # g /\ held[f] = held[g] => held[g] = cap
      /\ v \in ToSet(free) \/ v \in out \/ \E g \in L : held[g] = v
  BY <1>1 DEF Accounted
<1>3. CASE v \in ToSet(free) \cup out
  <2>1. H = {}
    BY <1>2, <1>3
  <2>2. Cardinality(H) = 0
    BY <2>1, FS_EmptySet
  <2> QED BY <1>2, <1>3, <2>2
<1>4. CASE v \notin ToSet(free) \cup out
  <2>1. PICK g \in L : held[g] = v
    BY <1>2, <1>4
  <2>2. H = {g}
    BY <1>1, <1>2, <2>1
  <2>3. Cardinality(H) = 1
    BY <2>2, FS_Singleton
  <2> QED BY <1>4, <2>3
<1> QED BY <1>3, <1>4

-----------------------------------------------------------------------------
(* Owners                                                                  *)

(* A set of sequences is empty, has one member or has more.                *)
LEMMA CountFacts ==
  ASSUME NEW S \in SUBSET Seqs
  PROVE  /\ Cardinality(S) \in Nat
         /\ Cardinality(S) > 0 <=> S # {}
         /\ Cardinality(S) = 1 <=> \E s \in Seqs : S = {s}
<1>1. IsFiniteSet(S) /\ Cardinality(S) \in Nat
  BY KvTiersAssumption, FS_Subset, FS_CardinalityType
<1>2. Cardinality(S) = 0 <=> S = {}
  BY <1>1, FS_EmptySet
<1>3. Cardinality(S) = 1 <=> \E s \in Seqs : S = {s}
  BY <1>1, FS_Singleton
<1> QED BY <1>1, <1>2, <1>3

(* A live handle is one with an owner.                                     *)
LEMMA LiveOwned ==
  /\ Live = {h \in Handles : Owners(h) # {}}
  /\ Live' = {h \in Handles : Owners(h)' # {}}
  /\ \A h : StrongCount(h) = 1 <=> \E s \in Seqs : Owners(h) = {s}
<1>1. \A h : Owners(h) \in SUBSET Seqs /\ Owners(h)' \in SUBSET Seqs
  BY DEF Owners
<1>2. \A h : Cardinality(Owners(h)) > 0 <=> Owners(h) # {}
  BY <1>1, CountFacts
<1>3. \A h : Cardinality(Owners(h)') > 0 <=> Owners(h)' # {}
  BY <1>1, CountFacts
<1>4. \A h : StrongCount(h) = 1 <=> \E s \in Seqs : Owners(h) = {s}
  BY <1>1, CountFacts DEF StrongCount
<1>5. Live = {h \in Handles : Owners(h) # {}}
  BY <1>2 DEF Live, StrongCount
<1>6. Live' = {h \in Handles : Owners(h)' # {}}
  BY <1>3 DEF Live, StrongCount
<1> QED BY <1>4, <1>5, <1>6

(* A handle that is not live is there to be taken.                         *)
LEMMA FreshIs ==
  Live # Handles => FreshHandle \in Handles \ Live
<1>1. Live \subseteq Handles
  BY DEF Live
<1>2. Live # Handles => \E h \in Handles \ Live : TRUE
  BY <1>1
<1> QED BY <1>2 DEF FreshHandle

(* Who is in a list is owned by its sequence.                              *)
LEMMA InList ==
  ASSUME chunks \in [Seqs -> Seq(Handles)], NEW s \in Seqs
  PROVE  /\ Len(chunks[s]) \in Nat
         /\ \A i \in 1..Len(chunks[s]) :
               /\ chunks[s][i] \in Handles /\ chunks[s][i] \in Live
               /\ s \in Owners(chunks[s][i])
         /\ \A h : s \in Owners(h) <=> \E i \in 1..Len(chunks[s]) : chunks[s][i] = h
         /\ chunks[s] # <<>> => /\ Len(chunks[s]) \in 1..Len(chunks[s])
                                /\ LastChunk(s) \in Handles /\ LastChunk(s) \in Live
                                /\ s \in Owners(LastChunk(s))
<1>1. chunks[s] \in Seq(Handles) /\ Len(chunks[s]) \in Nat
  OBVIOUS
<1>2. \A i \in 1..Len(chunks[s]) : chunks[s][i] \in Handles /\ s \in Owners(chunks[s][i])
  BY <1>1 DEF Owners
<1>3. \A i \in 1..Len(chunks[s]) : chunks[s][i] \in Live
  BY <1>2, LiveOwned
<1>4. \A h : s \in Owners(h) <=> \E i \in 1..Len(chunks[s]) : chunks[s][i] = h
  BY DEF Owners
<1>5. chunks[s] # <<>> => Len(chunks[s]) \in 1..Len(chunks[s])
  BY <1>1
<1> QED BY <1>1, <1>2, <1>3, <1>4, <1>5 DEF LastChunk

(* A fresh handle at the end of a list.                                    *)
LEMMA GrowFacts ==
  ASSUME chunks \in [Seqs -> Seq(Handles)], NEW s \in Seqs, NEW f \in Handles \ Live,
         chunks' = [chunks EXCEPT ![s] = Append(@, f)]
  PROVE  /\ chunks' \in [Seqs -> Seq(Handles)]
         /\ Len(chunks'[s]) = Len(chunks[s]) + 1 /\ chunks'[s] # <<>>
         /\ \A i \in 1..Len(chunks[s]) : chunks'[s][i] = chunks[s][i]
         /\ chunks'[s][Len(chunks[s]) + 1] = f /\ LastChunk(s)' = f
         /\ \A t \in Seqs : t # s => chunks'[t] = chunks[t] /\ LastChunk(t)' = LastChunk(t)
         /\ Owners(f) = {} /\ Owners(f)' = {s}
         /\ \A h : h # f => Owners(h)' = Owners(h)
         /\ Live' = Live \cup {f}
<1>1. chunks[s] \in Seq(Handles) /\ Len(chunks[s]) \in Nat
  OBVIOUS
<1>2. chunks'[s] = Append(chunks[s], f) /\ \A t \in Seqs : t # s => chunks'[t] = chunks[t]
  OBVIOUS
<1>3. /\ chunks' \in [Seqs -> Seq(Handles)]
      /\ Len(chunks'[s]) = Len(chunks[s]) + 1 /\ chunks'[s] # <<>>
      /\ \A i \in 1..Len(chunks[s]) : chunks'[s][i] = chunks[s][i]
      /\ chunks'[s][Len(chunks[s]) + 1] = f
  <2>1. PICK c \in Seq(Handles) : c = chunks[s]
    BY <1>1
  <2>2. PICK a : a = Append(c, f)
    OBVIOUS
  <2>3. /\ a \in Seq(Handles) /\ Len(a) = Len(c) + 1 /\ a[Len(c) + 1] = f
        /\ \A i \in 1..Len(c) : a[i] = c[i]
    BY <2>2
  <2>4. a # <<>>
    BY <2>3
  <2>5. chunks'[s] = a
    BY <1>2, <2>1, <2>2
  <2>6. chunks' \in [Seqs -> Seq(Handles)]
    BY <2>1, <2>2, <2>3
  <2> QED BY <2>1, <2>3, <2>4, <2>5, <2>6
<1>4. LastChunk(s)' = f /\ \A t \in Seqs : t # s => LastChunk(t)' = LastChunk(t)
  BY <1>2, <1>3 DEF LastChunk
<1>5. Owners(f) = {}
  BY LiveOwned
<1>6. \A i \in 1..(Len(chunks[s]) + 1) : i \in 1..Len(chunks[s]) \/ i = Len(chunks[s]) + 1
  BY <1>1
<1>7. Owners(f)' = {s}
  <2>1. s \in Owners(f)'
    BY <1>1, <1>3 DEF Owners
  <2>2. \A t \in Seqs : t # s => t \notin Owners(f)'
    BY <1>2, <1>5 DEF Owners
  <2> QED BY <2>1, <2>2 DEF Owners
<1>8. ASSUME NEW h, h # f PROVE Owners(h)' = Owners(h)
  <2>1. s \in Owners(h)' <=> s \in Owners(h)
    BY <1>1, <1>3, <1>6, <1>8 DEF Owners
  <2>2. \A t \in Seqs : t # s => (t \in Owners(h)' <=> t \in Owners(h))
    BY <1>2 DEF Owners
  <2> QED BY <2>1, <2>2 DEF Owners
<1>9. Live' = Live \cup {f}
  BY <1>7, <1>8, LiveOwned
<1> QED BY <1>2, <1>3, <1>4, <1>5, <1>7, <1>8, <1>9

(* A list without its last member.                                         *)
LEMMA FrontFacts ==
  ASSUME NEW S, NEW c \in Seq(S), c # <<>>
  PROVE  /\ Front(c) \in Seq(S) /\ Len(Front(c)) = Len(c) - 1
         /\ \A i \in 1..(Len(c) - 1) : Front(c)[i] = c[i]
<1>1. Len(c) \in Nat /\ Len(c) > 0
  OBVIOUS
<1>2. PICK n \in Nat : n = Len(c) /\ n > 0
  BY <1>1
<1>3. PICK e : e = Front(c) /\ e = SubSeq(c, 1, n - 1)
  BY <1>2 DEF Front
<1>4. \A i \in 1..(n - 1) : i \in 1..Len(c)
  BY <1>2
<1>5. e \in Seq(S) /\ Len(e) = n - 1 /\ \A i \in 1..(n - 1) : e[i] = c[i]
  BY <1>2, <1>3, <1>4, SubSeqProperties
<1> QED BY <1>2, <1>3, <1>5

(* A fresh handle in place of the last one, which others hold.             *)
Swapped(s, f) == [chunks EXCEPT ![s] = Front(@) \o <<f>>]

(* Only the last one loses an owner.                                       *)
LEMMA SwapFacts ==
  ASSUME chunks \in [Seqs -> Seq(Handles)], NEW s \in Seqs, NEW f \in Handles \ Live,
         chunks[s] # <<>>, IsInjective(chunks[s]),
         NEW old, old = LastChunk(s), StrongCount(old) > 1,
         chunks' = Swapped(s, f)
  PROVE  /\ chunks' \in [Seqs -> Seq(Handles)]
         /\ Len(chunks'[s]) = Len(chunks[s]) /\ chunks'[s] # <<>>
         /\ \A i \in 1..(Len(chunks[s]) - 1) : chunks'[s][i] = chunks[s][i]
         /\ chunks'[s][Len(chunks[s])] = f /\ LastChunk(s)' = f
         /\ \A t \in Seqs : t # s => chunks'[t] = chunks[t] /\ LastChunk(t)' = LastChunk(t)
         /\ Owners(f) = {} /\ Owners(f)' = {s}
         /\ Owners(old)' = Owners(old) \ {s}
         /\ \A h : h # f /\ h # old => Owners(h)' = Owners(h)
         /\ Live' = Live \cup {f}
<1> DEFINE n == Len(chunks[s])
<1>1. chunks[s] \in Seq(Handles) /\ n \in Nat /\ n > 0 /\ n - 1 \in Nat /\ DOMAIN chunks[s] = 1..n
  OBVIOUS
<1>2. PICK e : e = Front(chunks[s])
  OBVIOUS
<1>3. e \in Seq(Handles) /\ Len(e) = n - 1 /\ \A i \in 1..(n - 1) : e[i] = chunks[s][i]
  <2>1. PICK c \in Seq(Handles) : c = chunks[s] /\ c # <<>>
    BY <1>1
  <2> QED BY <1>2, <2>1, FrontFacts
<1>4. chunks'[s] = e \o <<f>> /\ \A t \in Seqs : t # s => chunks'[t] = chunks[t]
  BY <1>2 DEF Swapped
<1>5. e \o <<f>> = Append(e, f)
  BY <1>3
<1>6. Append(e, f) \in Seq(Handles) /\ Len(Append(e, f)) = n /\ Append(e, f)[n] = f
      /\ \A i \in 1..(n - 1) : Append(e, f)[i] = chunks[s][i]
  <2> HIDE DEF n
  <2> QED BY <1>1, <1>3
<1>7. /\ Len(chunks'[s]) = n /\ chunks'[s] # <<>>
      /\ \A i \in 1..(n - 1) : chunks'[s][i] = chunks[s][i]
      /\ chunks'[s][n] = f
  <2>1. PICK a \in Seq(Handles) : a = Append(e, f)
    BY <1>6
  <2>2. Len(a) = n /\ a[n] = f /\ \A i \in 1..(n - 1) : a[i] = chunks[s][i]
    BY <1>6, <2>1
  <2>3. a # <<>>
    BY <1>1, <2>2
  <2>4. chunks'[s] = a
    BY <1>4, <1>5, <2>1
  <2> QED BY <2>2, <2>3, <2>4
<1>8. chunks' \in [Seqs -> Seq(Handles)]
  BY <1>2, <1>5, <1>6 DEF Swapped
<1>9. LastChunk(s)' = f /\ \A t \in Seqs : t # s => LastChunk(t)' = LastChunk(t)
  BY <1>4, <1>7 DEF LastChunk
<1>10. Owners(f) = {}
  BY LiveOwned
<1>11. \A i \in 1..n : i \in 1..(n - 1) \/ i = n
  <2> HIDE DEF n
  <2> QED BY <1>1
<1>12. n \in 1..n /\ \A i \in 1..(n - 1) : i \in 1..n /\ i # n
  <2> HIDE DEF n
  <2> QED BY <1>1
<1>13. \A t \in Seqs : \A h : t # s => (t \in Owners(h)' <=> t \in Owners(h))
  BY <1>4 DEF Owners
<1>14. \A h : s \in Owners(h)' <=> h = f \/ \E i \in 1..(n - 1) : chunks[s][i] = h
  <2>1. \A h : s \in Owners(h)' <=> \E i \in 1..n : chunks'[s][i] = h
    BY <1>7 DEF Owners
  <2> QED BY <1>7, <1>11, <1>12, <2>1
<1>15. \A h : s \in Owners(h) <=> h = old \/ \E i \in 1..(n - 1) : chunks[s][i] = h
  <2>1. \A h : s \in Owners(h) <=> \E i \in 1..n : chunks[s][i] = h
    BY DEF Owners
  <2> QED BY <1>11, <1>12, <2>1 DEF LastChunk
<1>16. \A i \in 1..(n - 1) : chunks[s][i] # old
  BY <1>1, <1>12 DEF LastChunk, IsInjective
<1>17. old \in Handles /\ old \in Live /\ old # f
  BY InList
<1>18. \A h : Owners(h) \subseteq Seqs /\ Owners(h)' \subseteq Seqs
  BY DEF Owners
<1> HIDE DEF n
<1>19. Owners(f)' = {s}
  BY <1>10, <1>13, <1>14, <1>18
<1>20. Owners(old)' = Owners(old) \ {s}
  BY <1>13, <1>14, <1>16, <1>17, <1>18
<1>21. ASSUME NEW h, h # f, h # old PROVE Owners(h)' = Owners(h)
  <2>1. s \in Owners(h)' <=> s \in Owners(h)
    BY <1>14, <1>15, <1>21
  <2>2. \A t \in Seqs : t \in Owners(h)' <=> t \in Owners(h)
    BY <1>13, <2>1
  <2>3. \A t : t \in Owners(h)' <=> t \in Owners(h)
    BY <1>18, <2>2
  <2> QED BY <2>3
<1>22. Owners(old)' # {}
  <2>3. StrongCount(old) # 1
    OBVIOUS
  <2>4. Owners(old) # {s}
    BY <2>3, LiveOwned
  <2>5. Owners(old) # {}
    BY <1>17, LiveOwned
  <2> QED BY <1>20, <2>4, <2>5
<1>23. Live' = Live \cup {f}
  <2>1. \A h \in Handles : Owners(h)' # {} <=> Owners(h) # {} \/ h = f
    BY <1>17, <1>19, <1>21, <1>22, LiveOwned
  <2> QED BY <2>1, LiveOwned
<1> QED BY <1>4, <1>7, <1>8, <1>9, <1>10, <1>19, <1>20, <1>21, <1>23 DEF n

(* A list handed to a sequence that had none.                              *)
LEMMA ForkFacts ==
  ASSUME chunks \in [Seqs -> Seq(Handles)], NEW s \in Seqs, NEW t \in Seqs, s # t,
         chunks[t] = <<>>, chunks' = [chunks EXCEPT ![t] = chunks[s]]
  PROVE  /\ chunks' \in [Seqs -> Seq(Handles)]
         /\ chunks'[t] = chunks[s] /\ \A r \in Seqs : r # t => chunks'[r] = chunks[r]
         /\ LastChunk(t)' = LastChunk(s) /\ \A r \in Seqs : r # t => LastChunk(r)' = LastChunk(r)
         /\ \A h : Owners(h)' = IF s \in Owners(h) THEN Owners(h) \cup {t} ELSE Owners(h)
         /\ Live' = Live
<1>1. /\ chunks' \in [Seqs -> Seq(Handles)]
      /\ chunks'[t] = chunks[s] /\ \A r \in Seqs : r # t => chunks'[r] = chunks[r]
  OBVIOUS
<1>2. LastChunk(t)' = LastChunk(s) /\ \A r \in Seqs : r # t => LastChunk(r)' = LastChunk(r)
  BY <1>1 DEF LastChunk
<1>3. ASSUME NEW h
      PROVE  Owners(h)' = IF s \in Owners(h) THEN Owners(h) \cup {t} ELSE Owners(h)
  <2>1. t \notin Owners(h)
    <3>1. Len(chunks[t]) = 0
      OBVIOUS
    <3> QED BY <3>1 DEF Owners
  <2>2. t \in Owners(h)' <=> s \in Owners(h)
    BY <1>1 DEF Owners
  <2>3. \A r \in Seqs : r # t => (r \in Owners(h)' <=> r \in Owners(h))
    BY <1>1 DEF Owners
  <2>4. Owners(h) \subseteq Seqs /\ Owners(h)' \subseteq Seqs
    BY DEF Owners
  <2>5. CASE s \in Owners(h)
    BY <2>2, <2>3, <2>4, <2>5
  <2>6. CASE s \notin Owners(h)
    <3>1. \A r \in Seqs : r \in Owners(h)' <=> r \in Owners(h)
      BY <2>1, <2>2, <2>3, <2>6
    <3>2. \A r : r \in Owners(h)' <=> r \in Owners(h)
      BY <2>4, <3>1
    <3> QED BY <2>6, <3>2
  <2> QED BY <2>5, <2>6
<1>4. Live' = Live
  BY <1>3, LiveOwned
<1> QED BY <1>1, <1>2, <1>3, <1>4

(* A list given up.                                                        *)
LEMMA DropFacts ==
  ASSUME chunks \in [Seqs -> Seq(Handles)], NEW s \in Seqs,
         chunks' = [chunks EXCEPT ![s] = <<>>]
  PROVE  /\ chunks' \in [Seqs -> Seq(Handles)]
         /\ chunks'[s] = <<>> /\ \A r \in Seqs : r # s => chunks'[r] = chunks[r]
         /\ \A r \in Seqs : r # s => LastChunk(r)' = LastChunk(r)
         /\ \A h : Owners(h)' = Owners(h) \ {s}
         /\ Live' = Live \ Dropped(s)
         /\ Dropped(s) \subseteq Live
         /\ SoleOwned(s) = Dropped(s) /\ Dropped(s) \subseteq ToSet(chunks[s])
<1>1. /\ chunks' \in [Seqs -> Seq(Handles)]
      /\ chunks'[s] = <<>> /\ \A r \in Seqs : r # s => chunks'[r] = chunks[r]
  OBVIOUS
<1>2. \A r \in Seqs : r # s => LastChunk(r)' = LastChunk(r)
  BY <1>1 DEF LastChunk
<1>3. ASSUME NEW h PROVE Owners(h)' = Owners(h) \ {s}
  <2>1. s \notin Owners(h)'
    <3>1. Len(chunks'[s]) = 0
      BY <1>1
    <3> QED BY <3>1 DEF Owners
  <2>2. \A r \in Seqs : r # s => (r \in Owners(h)' <=> r \in Owners(h))
    BY <1>1 DEF Owners
  <2>4. Owners(h) \subseteq Seqs /\ Owners(h)' \subseteq Seqs
    BY DEF Owners
  <2> QED BY <2>1, <2>2, <2>4
<1>4. Live' = Live \ Dropped(s)
  BY <1>3, LiveOwned DEF Dropped
<1>5. Dropped(s) \subseteq Live
  BY LiveOwned DEF Dropped
<1>6. DOMAIN chunks[s] = 1..Len(chunks[s])
  OBVIOUS
<1>7. \A h : h \in ToSet(chunks[s]) <=> s \in Owners(h)
  BY <1>6 DEF ToSet, Owners
<1>8. \A h \in ToSet(chunks[s]) : h \in Handles
  BY <1>6 DEF ToSet
<1>9. SoleOwned(s) = Dropped(s) /\ Dropped(s) \subseteq ToSet(chunks[s])
  BY <1>7, <1>8, LiveOwned DEF SoleOwned, Dropped
<1> QED BY <1>1, <1>2, <1>3, <1>4, <1>5, <1>9

-----------------------------------------------------------------------------
(* Slots have one owner                                                    *)

(* What the type says of the slots the live handles hold.                  *)
LEMMA HeldFacts ==
  ASSUME ref \in [Handles -> ChunkRef]
  PROVE  /\ \A h \in Handles : /\ ref[h] \in ChunkRef /\ ref[h].vram \in 0..VramCap
                               /\ ref[h].host \in 0..HostCap /\ ref[h].len \in 0..ChunkTokens
                               /\ ref[h].tier \in {"Vram", "HostPinned"}
         /\ VramOf \in [Live -> 0..VramCap] /\ HostOf \in [Live -> 0..HostCap]
         /\ \A h \in Live : h \in Handles /\ VramOf[h] = ref[h].vram /\ HostOf[h] = ref[h].host
<1>1. \A h \in Handles : /\ ref[h] \in ChunkRef /\ ref[h].vram \in 0..VramCap
                         /\ ref[h].host \in 0..HostCap /\ ref[h].len \in 0..ChunkTokens
                         /\ ref[h].tier \in {"Vram", "HostPinned"}
  BY DEF ChunkRef, NoVram, NoHost
<1>2. Live \subseteq Handles
  BY DEF Live
<1> QED BY <1>1, <1>2 DEF VramOf, HostOf

(* The same in the next state.                                             *)
LEMMA HeldFactsNext ==
  ASSUME ref' \in [Handles -> ChunkRef]
  PROVE  /\ VramOf' \in [Live' -> 0..VramCap] /\ HostOf' \in [Live' -> 0..HostCap]
         /\ \A h \in Live' : h \in Handles /\ VramOf'[h] = ref'[h].vram /\ HostOf'[h] = ref'[h].host
<1>1. \A h \in Handles : ref'[h].vram \in 0..VramCap /\ ref'[h].host \in 0..HostCap
  BY DEF ChunkRef, NoVram, NoHost
<1>2. Live' \subseteq Handles
  BY DEF Live
<1> QED BY <1>1, <1>2 DEF VramOf, HostOf

(* A sequence that a step leaves alone keeps a good list.                  *)
LEMMA ListSame ==
  ASSUME chunks \in [Seqs -> Seq(Handles)], NEW t \in Seqs, ListOK(t),
         chunks'[t] = chunks[t], unwritten'[t] = unwritten[t], said'[t] = said[t],
         \A i \in 1..Len(chunks[t]) : ref'[chunks[t][i]].len = ref[chunks[t][i]].len,
         \A h : unwritten[t] /\ h = LastChunk(t) => Owners(h)' = {t}
  PROVE  ListOK(t)'
<1>1. SeqLen(t)' = SeqLen(t) /\ LastChunk(t)' = LastChunk(t)
  BY DEF SeqLen, LastChunk
<1>2. PICK c \in Seq(Handles) : c = chunks[t]
  OBVIOUS
<1>3. PICK z : z = LastChunk(t)
  OBVIOUS
<1>4. /\ IsInjective(c)
      /\ \A i \in 1..(Len(c) - 1) : ref[c[i]].len = ChunkTokens
      /\ c = <<>> => SeqLen(t) = 0
      /\ c # <<>> => SeqLen(t) = (Len(c) - 1) * ChunkTokens + ref[z].len
      /\ unwritten[t] => c # <<>> /\ ref[z].len > 0
  BY <1>2, <1>3 DEF ListOK
<1>5. \A i \in 1..(Len(c) - 1) : ref'[c[i]].len = ref[c[i]].len
  BY <1>2
<1>6. c # <<>> => ref'[z].len = ref[z].len
  <2>1. c # <<>> => Len(c) \in 1..Len(c)
    OBVIOUS
  <2> QED BY <1>2, <1>3, <2>1 DEF LastChunk
<1>7. unwritten[t] => Owners(z)' = {t}
  BY <1>3
<1>8. chunks'[t] = c /\ LastChunk(t)' = z
  BY <1>1, <1>2, <1>3
<1> QED BY <1>1, <1>4, <1>5, <1>6, <1>7, <1>8 DEF ListOK

(* A list that grows by a fresh handle of its own.                         *)
LEMMA NewChunk ==
  ASSUME OwnershipInv, NEW s \in Seqs, NeedsNewChunk(s), ~unwritten[s],
         NEW f \in Handles \ Live, NEW r \in ChunkRef,
         ref' = [ref EXCEPT ![f] = r], chunks' = [chunks EXCEPT ![s] = Append(@, f)],
         \/ unwritten' = unwritten /\ r.len = 0
         \/ unwritten' = [unwritten EXCEPT ![s] = TRUE] /\ r.len = 1,
         IF r.tier = "Vram" THEN r.vram # NoVram ELSE r.vram = NoVram /\ r.host # NoHost,
         said' = said, evicting' = evicting
  PROVE  /\ ref' \in [Handles -> ChunkRef] /\ chunks' \in [Seqs -> Seq(Handles)]
         /\ unwritten' \in [Seqs -> BOOLEAN] /\ evicting' \subseteq Live'
         /\ ListInv' /\ TierInv' /\ EvictInv'
         /\ Live' = Live \cup {f} /\ f \in Live'
         /\ ref'[f] = r /\ \A g \in Live : ref'[g] = ref[g]
<1>1. /\ ref \in [Handles -> ChunkRef] /\ chunks \in [Seqs -> Seq(Handles)]
      /\ unwritten \in [Seqs -> BOOLEAN] /\ evicting \subseteq Live /\ said \in [Seqs -> Seq(Tokens)]
      /\ ListInv /\ TierInv /\ EvictInv
  BY DEF OwnershipInv, TypeOK
<1>2. /\ chunks' \in [Seqs -> Seq(Handles)]
      /\ Len(chunks'[s]) = Len(chunks[s]) + 1 /\ chunks'[s] # <<>>
      /\ \A i \in 1..Len(chunks[s]) : chunks'[s][i] = chunks[s][i]
      /\ chunks'[s][Len(chunks[s]) + 1] = f /\ LastChunk(s)' = f
      /\ \A t \in Seqs : t # s => chunks'[t] = chunks[t] /\ LastChunk(t)' = LastChunk(t)
      /\ Owners(f) = {} /\ Owners(f)' = {s}
      /\ \A h : h # f => Owners(h)' = Owners(h)
      /\ Live' = Live \cup {f}
  BY <1>1, GrowFacts
<1>3. /\ ref' \in [Handles -> ChunkRef] /\ ref'[f] = r
      /\ \A h \in Handles : h # f => ref'[h] = ref[h]
  BY <1>1
<1>4. \A h \in Live : h \in Handles /\ h # f /\ ref'[h] = ref[h]
  BY <1>3 DEF Live
<1>5. unwritten' \in [Seqs -> BOOLEAN] /\ \A t \in Seqs : t # s => unwritten'[t] = unwritten[t]
  BY <1>1
<1>6. ASSUME NEW t \in Seqs, t # s PROVE ListOK(t)'
  <2>1. \A i \in 1..Len(chunks[t]) : chunks[t][i] \in Live
    BY <1>1, InList
  <2>2. \A i \in 1..Len(chunks[t]) : ref'[chunks[t][i]].len = ref[chunks[t][i]].len
    BY <1>4, <2>1
  <2>3. ASSUME NEW h, unwritten[t], h = LastChunk(t) PROVE Owners(h)' = {t}
    <3>1. Owners(h) = {t}
      BY <1>1, <2>3 DEF ListInv, ListOK
    <3> QED BY <1>2, <3>1
  <2>4. ListOK(t) /\ chunks'[t] = chunks[t] /\ unwritten'[t] = unwritten[t] /\ said'[t] = said[t]
    BY <1>1, <1>2, <1>5, <1>6 DEF ListInv
  <2> QED BY <1>1, <2>2, <2>3, <2>4, ListSame
<1>7. ListOK(s)'
  <2>0. PICK c \in Seq(Handles), d \in Seq(Handles) : c = chunks[s] /\ d = chunks'[s]
    BY <1>1, <1>2
  <2>1. /\ Len(c) \in Nat /\ Len(d) = Len(c) + 1 /\ DOMAIN c = 1..Len(c) /\ DOMAIN d = 1..(Len(c) + 1)
        /\ \A i \in 1..Len(c) : d[i] = c[i] /\ c[i] \in Live
        /\ d[Len(c) + 1] = f /\ d # <<>>
    <3>1. \A i \in 1..Len(c) : c[i] \in Live
      BY <1>1, <2>0, InList
    <3>2. Len(c) \in Nat /\ DOMAIN c = 1..Len(c) /\ DOMAIN d = 1..Len(d)
      OBVIOUS
    <3>3. /\ Len(d) = Len(c) + 1 /\ d[Len(c) + 1] = f /\ d # <<>>
          /\ \A i \in 1..Len(c) : d[i] = c[i]
      BY <1>2, <2>0
    <3> QED BY <3>1, <3>2, <3>3
  <2>2. ListOK(s)
    BY <1>1 DEF ListInv
  <2>3. \A i, j \in 1..Len(c) : c[i] = c[j] => i = j
    BY <2>0, <2>1, <2>2 DEF ListOK, IsInjective
  <2>4. \A i \in 1..(Len(c) + 1) : i \in 1..Len(c) \/ i = Len(c) + 1
    BY <2>1
  <2>5. IsInjective(d)
    BY <2>1, <2>3, <2>4 DEF IsInjective
  <2>6. \A i \in 1..Len(c) : ref[c[i]].len = ChunkTokens
    <3> SUFFICES ASSUME NEW i \in 1..Len(c) PROVE ref[c[i]].len = ChunkTokens
      OBVIOUS
    <3>1. CASE i \in 1..(Len(c) - 1)
      BY <2>0, <2>2, <3>1 DEF ListOK
    <3>2. CASE i = Len(c)
      <4>1. c # <<>>
        BY <2>1, <3>2
      <4>2. ref[c[i]].len >= ChunkTokens
        BY <2>0, <3>2, <4>1 DEF NeedsNewChunk, LastChunk
      <4>3. ref[c[i]].len \in 0..ChunkTokens
        BY <1>1, HeldFacts
      <4> QED BY <4>2, <4>3, KvTiersAssumption
    <3>3. i \in 1..(Len(c) - 1) \/ i = Len(c)
      OBVIOUS
    <3> QED BY <3>1, <3>2, <3>3
  <2>7. \A i \in 1..Len(c) : ref'[d[i]].len = ChunkTokens
    BY <1>4, <2>1, <2>6
  <2>8. SeqLen(s) = Len(c) * ChunkTokens
    <3>1. CASE c = <<>>
      BY <2>0, <2>2, <3>1, KvTiersAssumption DEF ListOK
    <3>2. CASE c # <<>>
      <4>1. Len(c) \in 1..Len(c)
        BY <2>1, <3>2
      <4>2. SeqLen(s) = (Len(c) - 1) * ChunkTokens + ChunkTokens
        BY <2>0, <2>2, <2>6, <3>2, <4>1 DEF ListOK, LastChunk
      <4>3. (Len(c) - 1) * ChunkTokens + ChunkTokens = Len(c) * ChunkTokens
        <5> HIDE DEF LastChunk
        <5> QED BY <2>1, KvTiersAssumption
      <4> QED BY <4>2, <4>3
    <3> QED BY <3>1, <3>2
  <2>9. SeqLen(s)' = SeqLen(s) + r.len
    <3>1. said[s] \in Seq(Tokens) /\ Len(said[s]) \in Nat
      BY <1>1
    <3>2. (~unwritten'[s] /\ r.len = 0) \/ (unwritten'[s] /\ r.len = 1)
      BY <1>1
    <3>3. SeqLen(s) = Len(said[s])
      BY <3>1 DEF SeqLen
    <3>4. SeqLen(s)' = Len(said[s]) + (IF unwritten'[s] THEN 1 ELSE 0)
      BY DEF SeqLen
    <3> QED BY <3>1, <3>2, <3>3, <3>4
  <2>10. unwritten'[s] => r.len > 0
    BY <1>1
  <2>11. LastChunk(s)' = f /\ Owners(f)' = {s} /\ ref'[f] = r
    BY <1>2, <1>3
  <2>12. Len(d) - 1 = Len(c)
    BY <2>1
  <2>13. chunks'[s] = d
    BY <2>0
  <2> QED BY <2>1, <2>5, <2>7, <2>8, <2>9, <2>10, <2>11, <2>12, <2>13 DEF ListOK
<1>8. ListInv'
  BY <1>6, <1>7 DEF ListInv
<1>9. TierInv'
  <2> SUFFICES ASSUME NEW h \in Live'
               PROVE  IF ref'[h].tier = "Vram" THEN ref'[h].vram # NoVram
                      ELSE ref'[h].vram = NoVram /\ ref'[h].host # NoHost
    BY DEF TierInv, NoVram, NoHost
  <2>1. CASE h = f
    BY <1>3, <2>1
  <2>2. CASE h \in Live
    BY <1>1, <1>4, <2>2 DEF TierInv
  <2> QED BY <1>2, <2>1, <2>2
<1>10. EvictInv'
  <2> SUFFICES ASSUME NEW h \in evicting
               PROVE  /\ ref'[h].tier = "Vram" /\ ref'[h].host # NoHost /\ ref'[h].len = ChunkTokens
                      /\ \A t \in Seqs : unwritten'[t] => LastChunk(t)' # h
    BY DEF EvictInv, NoHost
  <2>1. h \in Live /\ h # f /\ ref'[h] = ref[h]
    BY <1>1, <1>4
  <2> QED BY <1>1, <1>2, <1>5, <2>1 DEF EvictInv
<1>11. evicting' \subseteq Live'
  BY <1>1, <1>2
<1>12. f \in Live'
  BY <1>2
<1> QED BY <1>2, <1>3, <1>4, <1>5, <1>8, <1>9, <1>10, <1>11, <1>12

(* What the invariant says of the pools.                                   *)
LEMMA PoolFacts ==
  ASSUME OwnershipInv
  PROVE  /\ freeV \in Seq(0..(VramCap - 1)) /\ freeH \in Seq(0..(HostCap - 1))
         /\ lost \in SUBSET (0..(VramCap - 1)) /\ VramCap \in Nat /\ HostCap \in Nat
         /\ VramOf \in [Live -> 0..VramCap] /\ HostOf \in [Live -> 0..HostCap]
         /\ \A h \in Live : h \in Handles /\ VramOf[h] = ref[h].vram /\ HostOf[h] = ref[h].host
         /\ Accounted(freeV, lost, VramOf, VramCap) /\ Accounted(freeH, {}, HostOf, HostCap)
         /\ freeV # <<>> => /\ AllocSlot(freeV) \in 0..(VramCap - 1) /\ AllocSlot(freeV) # NoVram
                            /\ AfterAlloc(freeV) \in Seq(0..(VramCap - 1))
         /\ freeH # <<>> => /\ AllocSlot(freeH) \in 0..(HostCap - 1) /\ AllocSlot(freeH) # NoHost
                            /\ AfterAlloc(freeH) \in Seq(0..(HostCap - 1))
<1>1. /\ freeV \in Seq(0..(VramCap - 1)) /\ freeH \in Seq(0..(HostCap - 1))
      /\ lost \in SUBSET (0..(VramCap - 1)) /\ VramCap \in Nat /\ HostCap \in Nat
      /\ Accounted(freeV, lost, VramOf, VramCap) /\ Accounted(freeH, {}, HostOf, HostCap)
      /\ ref \in [Handles -> ChunkRef]
  BY KvTiersAssumption DEF OwnershipInv, TypeOK, PoolInv, VramSlots, HostSlots
<1>2. /\ VramOf \in [Live -> 0..VramCap] /\ HostOf \in [Live -> 0..HostCap]
      /\ \A h \in Live : h \in Handles /\ VramOf[h] = ref[h].vram /\ HostOf[h] = ref[h].host
  BY <1>1, HeldFacts
<1>3. freeV # <<>> => AllocSlot(freeV) \in 0..(VramCap - 1) /\ AfterAlloc(freeV) \in Seq(0..(VramCap - 1))
  BY <1>1, PopFacts
<1>4. freeH # <<>> => AllocSlot(freeH) \in 0..(HostCap - 1) /\ AfterAlloc(freeH) \in Seq(0..(HostCap - 1))
  BY <1>1, PopFacts
<1>5. \A v \in 0..(VramCap - 1) : v # NoVram
  BY <1>1 DEF NoVram
<1>6. \A v \in 0..(HostCap - 1) : v # NoHost
  BY <1>1 DEF NoHost
<1> QED BY <1>1, <1>2, <1>3, <1>4, <1>5, <1>6

(* A VRAM slot taken for a handle that had none.                           *)
LEMMA TakeV ==
  ASSUME OwnershipInv, freeV # <<>>, NEW f, ref' \in [Handles -> ChunkRef],
         Live' = Live \cup {f}, f \in Live => ref[f].vram = NoVram,
         ref'[f].vram = AllocSlot(freeV),
         \A g \in Live : g # f => ref'[g].vram = ref[g].vram,
         freeV' = AfterAlloc(freeV), lost' = lost
  PROVE  Accounted(freeV', lost', VramOf', VramCap)
<1>1. /\ VramOf' \in [Live' -> 0..VramCap]
      /\ \A h \in Live' : VramOf'[h] = ref'[h].vram
  BY HeldFactsNext
<1>2. PICK held, holds, L, M : held = VramOf /\ holds = VramOf' /\ L = Live /\ M = Live'
  OBVIOUS
<1>3. /\ freeV \in Seq(0..(VramCap - 1)) /\ VramCap \in Nat /\ held \in [L -> 0..VramCap]
      /\ \A h \in L : held[h] = ref[h].vram
      /\ Accounted(freeV, lost, held, VramCap)
  BY <1>2, PoolFacts
<1>4. holds \in [M -> 0..VramCap] /\ \A h \in M : holds[h] = ref'[h].vram
  BY <1>1, <1>2
<1>5. L \subseteq M /\ (\A g \in M : g \in L \/ g = f) /\ f \in M
  BY <1>2
<1>6. (f \in L => held[f] = VramCap) /\ holds[f] = AllocSlot(freeV)
  BY <1>2, <1>3, <1>4, <1>5 DEF NoVram
<1>7. \A g \in L : g # f => holds[g] = held[g]
  BY <1>2, <1>3, <1>4, <1>5
<1>8. \E h \in DOMAIN holds :
         /\ \A g \in DOMAIN holds : g \in DOMAIN held \/ g = h
         /\ h \in DOMAIN held => held[h] = VramCap
         /\ holds[h] = AllocSlot(freeV)
         /\ \A g \in DOMAIN held : g # h => g \in DOMAIN holds /\ holds[g] = held[g]
  <2>1. DOMAIN holds = M /\ DOMAIN held = L
    BY <1>3, <1>4
  <2> QED BY <1>5, <1>6, <1>7, <2>1
<1>9. Accounted(AfterAlloc(freeV), lost, holds, VramCap)
  BY <1>3, <1>8, TakeAccounted
<1> QED BY <1>2, <1>9

(* A host slot taken for a handle that had none.                           *)
LEMMA TakeH ==
  ASSUME OwnershipInv, freeH # <<>>, NEW f, ref' \in [Handles -> ChunkRef],
         Live' = Live \cup {f}, f \in Live => ref[f].host = NoHost,
         ref'[f].host = AllocSlot(freeH),
         \A g \in Live : g # f => ref'[g].host = ref[g].host,
         freeH' = AfterAlloc(freeH)
  PROVE  Accounted(freeH', {}, HostOf', HostCap)
<1>1. /\ HostOf' \in [Live' -> 0..HostCap]
      /\ \A h \in Live' : HostOf'[h] = ref'[h].host
  BY HeldFactsNext
<1>2. PICK held, holds, L, M : held = HostOf /\ holds = HostOf' /\ L = Live /\ M = Live'
  OBVIOUS
<1>3. /\ freeH \in Seq(0..(HostCap - 1)) /\ HostCap \in Nat /\ held \in [L -> 0..HostCap]
      /\ \A h \in L : held[h] = ref[h].host
      /\ Accounted(freeH, {}, held, HostCap)
  BY <1>2, PoolFacts
<1>4. holds \in [M -> 0..HostCap] /\ \A h \in M : holds[h] = ref'[h].host
  BY <1>1, <1>2
<1>5. L \subseteq M /\ (\A g \in M : g \in L \/ g = f) /\ f \in M
  BY <1>2
<1>6. (f \in L => held[f] = HostCap) /\ holds[f] = AllocSlot(freeH)
  BY <1>2, <1>3, <1>4, <1>5 DEF NoHost
<1>7. \A g \in L : g # f => holds[g] = held[g]
  BY <1>2, <1>3, <1>4, <1>5
<1>8. \E h \in DOMAIN holds :
         /\ \A g \in DOMAIN holds : g \in DOMAIN held \/ g = h
         /\ h \in DOMAIN held => held[h] = HostCap
         /\ holds[h] = AllocSlot(freeH)
         /\ \A g \in DOMAIN held : g # h => g \in DOMAIN holds /\ holds[g] = held[g]
  <2>1. DOMAIN holds = M /\ DOMAIN held = L
    BY <1>3, <1>4
  <2> QED BY <1>5, <1>6, <1>7, <2>1
<1>9. Accounted(AfterAlloc(freeH), {}, holds, HostCap)
  BY <1>3, <1>8, TakeAccounted
<1> QED BY <1>2, <1>9

(* A step that takes and frees no VRAM slot.                               *)
LEMMA SameV ==
  ASSUME OwnershipInv, ref' \in [Handles -> ChunkRef], Live \subseteq Live',
         \A g \in Live : ref'[g].vram = ref[g].vram,
         \A g \in Live' \ Live : ref'[g].vram = NoVram,
         freeV' = freeV, lost' = lost
  PROVE  Accounted(freeV', lost', VramOf', VramCap)
<1>1. /\ VramOf' \in [Live' -> 0..VramCap]
      /\ \A h \in Live' : VramOf'[h] = ref'[h].vram
  BY HeldFactsNext
<1>2. PICK held, holds, L, M : held = VramOf /\ holds = VramOf' /\ L = Live /\ M = Live'
  OBVIOUS
<1>3. /\ freeV \in Seq(0..(VramCap - 1)) /\ VramCap \in Nat /\ held \in [L -> 0..VramCap]
      /\ \A h \in L : held[h] = ref[h].vram
      /\ Accounted(freeV, lost, held, VramCap) /\ lost \in SUBSET (0..(VramCap - 1))
  BY <1>2, PoolFacts
<1>4. holds \in [M -> 0..VramCap] /\ \A h \in M : holds[h] = ref'[h].vram
  BY <1>1, <1>2
<1>5. L \subseteq M /\ \A g \in L : holds[g] = held[g]
  BY <1>2, <1>3, <1>4
<1>6. \A g \in M \ L : holds[g] = VramCap
  BY <1>2, <1>4 DEF NoVram
<1>7. Accounted(freeV, lost, holds, VramCap)
  BY <1>3, <1>4, <1>5, <1>6, SameAccounted
<1> QED BY <1>2, <1>7

(* A step that takes and frees no host slot.                               *)
LEMMA SameH ==
  ASSUME OwnershipInv, ref' \in [Handles -> ChunkRef], Live \subseteq Live',
         \A g \in Live : ref'[g].host = ref[g].host,
         \A g \in Live' \ Live : ref'[g].host = NoHost,
         freeH' = freeH
  PROVE  Accounted(freeH', {}, HostOf', HostCap)
<1>1. /\ HostOf' \in [Live' -> 0..HostCap]
      /\ \A h \in Live' : HostOf'[h] = ref'[h].host
  BY HeldFactsNext
<1>2. PICK held, holds, L, M : held = HostOf /\ holds = HostOf' /\ L = Live /\ M = Live'
  OBVIOUS
<1>3. /\ freeH \in Seq(0..(HostCap - 1)) /\ HostCap \in Nat /\ held \in [L -> 0..HostCap]
      /\ \A h \in L : held[h] = ref[h].host
      /\ Accounted(freeH, {}, held, HostCap) /\ {} \in SUBSET (0..(HostCap - 1))
  BY <1>2, PoolFacts
<1>4. holds \in [M -> 0..HostCap] /\ \A h \in M : holds[h] = ref'[h].host
  BY <1>1, <1>2
<1>5. L \subseteq M /\ \A g \in L : holds[g] = held[g]
  BY <1>2, <1>3, <1>4
<1>6. \A g \in M \ L : holds[g] = HostCap
  BY <1>2, <1>4 DEF NoHost
<1>7. Accounted(freeH, {}, holds, HostCap)
  BY <1>3, <1>4, <1>5, <1>6, SameAccounted
<1> QED BY <1>2, <1>7

(* What a new ChunkRef is.                                                 *)
LEMMA ChunkFacts ==
  ASSUME NEW v \in 0..VramCap, NEW n \in 0..HostCap, NEW l \in 0..ChunkTokens
  PROVE  /\ VramChunk(v, n, l) \in ChunkRef /\ VramChunk(v, n, l).vram = v
         /\ VramChunk(v, n, l).host = n /\ VramChunk(v, n, l).len = l
         /\ VramChunk(v, n, l).tier = "Vram"
BY DEF VramChunk, ChunkRef, NoVram, NoHost

(* AllocWithHostBacking keeps the invariant.                               *)
LEMMA OwnAlloc ==
  ASSUME OwnershipInv, NEW s \in Seqs, AllocWithHostBacking(s)
  PROVE  OwnershipInv'
<1>1. /\ NeedsNewChunk(s) /\ ~unwritten[s] /\ Live # Handles /\ freeV # <<>> /\ freeH # <<>>
      /\ ref' = [ref EXCEPT ![FreshHandle] = VramChunk(AllocSlot(freeV), AllocSlot(freeH), 0)]
      /\ chunks' = [chunks EXCEPT ![s] = Append(@, FreshHandle)]
      /\ freeV' = AfterAlloc(freeV) /\ freeH' = AfterAlloc(freeH)
      /\ UNCHANGED <<unwritten, lost, vram, host, sdma, evicting, resets, conv, said>>
  BY DEF AllocWithHostBacking, memVars, callerVars
<1>2. PICK f \in Handles \ Live : f = FreshHandle
  BY <1>1, FreshIs
<1>3. /\ freeV \in Seq(0..(VramCap - 1)) /\ freeH \in Seq(0..(HostCap - 1))
      /\ lost \in SUBSET (0..(VramCap - 1)) /\ VramCap \in Nat /\ HostCap \in Nat
      /\ Accounted(freeV, lost, VramOf, VramCap) /\ Accounted(freeH, {}, HostOf, HostCap)
      /\ AllocSlot(freeV) \in 0..(VramCap - 1) /\ AllocSlot(freeV) # NoVram
      /\ AfterAlloc(freeV) \in Seq(0..(VramCap - 1))
      /\ AllocSlot(freeH) \in 0..(HostCap - 1) /\ AllocSlot(freeH) # NoHost
      /\ AfterAlloc(freeH) \in Seq(0..(HostCap - 1))
  BY <1>1, PoolFacts
<1>4. PICK r \in ChunkRef : /\ r = VramChunk(AllocSlot(freeV), AllocSlot(freeH), 0)
                           /\ r.vram = AllocSlot(freeV) /\ r.host = AllocSlot(freeH)
                           /\ r.len = 0 /\ r.tier = "Vram"
  <2>1. PICK v \in 0..VramCap, n \in 0..HostCap, l \in 0..ChunkTokens :
            v = AllocSlot(freeV) /\ n = AllocSlot(freeH) /\ l = 0
    BY <1>3, KvTiersAssumption
  <2> QED BY <2>1, ChunkFacts
<1>5. /\ ref' = [ref EXCEPT ![f] = r] /\ chunks' = [chunks EXCEPT ![s] = Append(@, f)]
      /\ unwritten' = unwritten /\ said' = said /\ evicting' = evicting /\ r.vram # NoVram
  BY <1>1, <1>2, <1>3, <1>4
<1>6. /\ ref' \in [Handles -> ChunkRef] /\ chunks' \in [Seqs -> Seq(Handles)]
      /\ unwritten' \in [Seqs -> BOOLEAN] /\ evicting' \subseteq Live'
      /\ ListInv' /\ TierInv' /\ EvictInv'
      /\ Live' = Live \cup {f} /\ f \in Live'
      /\ ref'[f] = r /\ \A g \in Live : ref'[g] = ref[g]
  <2>1. IF r.tier = "Vram" THEN r.vram # NoVram ELSE r.vram = NoVram /\ r.host # NoHost
    BY <1>4, <1>5
  <2>2. \/ unwritten' = unwritten /\ r.len = 0
        \/ unwritten' = [unwritten EXCEPT ![s] = TRUE] /\ r.len = 1
    BY <1>4, <1>5
  <2>3. NeedsNewChunk(s) /\ ~unwritten[s]
    BY <1>1
  <2> QED BY <1>5, <2>1, <2>2, <2>3, NewChunk
<1>7. Accounted(freeV', lost', VramOf', VramCap)
  <2>1. ref'[f].vram = AllocSlot(freeV) /\ \A g \in Live : g # f => ref'[g].vram = ref[g].vram
    BY <1>4, <1>6
  <2> QED BY <1>1, <1>6, <2>1, TakeV
<1>8. Accounted(freeH', {}, HostOf', HostCap)
  <2>1. ref'[f].host = AllocSlot(freeH) /\ \A g \in Live : g # f => ref'[g].host = ref[g].host
    BY <1>4, <1>6
  <2> QED BY <1>1, <1>6, <2>1, TakeH
<1>9. PoolInv'
  BY <1>7, <1>8 DEF PoolInv
<1>10. TypeOK'
  BY <1>1, <1>3, <1>6 DEF OwnershipInv, TypeOK, VramSlots, HostSlots
<1> QED BY <1>6, <1>9, <1>10 DEF OwnershipInv

(* A step that leaves the lists alone.                                     *)
LEMMA ListsSame ==
  ASSUME chunks \in [Seqs -> Seq(Handles)], ListInv,
         chunks' = chunks, unwritten' = unwritten, said' = said,
         \A h \in Handles : ref'[h].len = ref[h].len
  PROVE  /\ ListInv' /\ Live' = Live /\ \A h : Owners(h)' = Owners(h)
         /\ \A t \in Seqs : LastChunk(t)' = LastChunk(t)
<1>1. \A h : Owners(h)' = Owners(h)
  BY DEF Owners
<1>2. Live' = Live
  BY <1>1, LiveOwned
<1>3. \A t \in Seqs : LastChunk(t)' = LastChunk(t)
  BY DEF LastChunk
<1>4. ASSUME NEW t \in Seqs PROVE ListOK(t)'
  <2>1. \A i \in 1..Len(chunks[t]) : ref'[chunks[t][i]].len = ref[chunks[t][i]].len
    BY InList
  <2>2. ListOK(t)
    BY DEF ListInv
  <2>3. \A h : unwritten[t] /\ h = LastChunk(t) => Owners(h)' = {t}
    BY <1>1, <2>2 DEF ListOK
  <2>4. chunks'[t] = chunks[t] /\ unwritten'[t] = unwritten[t] /\ said'[t] = said[t]
    OBVIOUS
  <2> QED BY <2>1, <2>2, <2>3, <2>4, ListSame
<1> QED BY <1>1, <1>2, <1>3, <1>4 DEF ListInv

(* A step that leaves the handles alone keeps what is said of them.        *)
LEMMA HandlesSame ==
  ASSUME OwnershipInv, ref' = ref, chunks' = chunks, unwritten' = unwritten, said' = said,
         freeV' = freeV, freeH' = freeH, lost' = lost
  PROVE  ListInv' /\ TierInv' /\ PoolInv' /\ Live' = Live
<1>1. ref \in [Handles -> ChunkRef] /\ chunks \in [Seqs -> Seq(Handles)] /\ ListInv /\ TierInv
  BY DEF OwnershipInv, TypeOK
<1>2. ListInv' /\ Live' = Live
  BY <1>1, ListsSame
<1>3. TierInv'
  BY <1>1, <1>2 DEF TierInv, NoVram, NoHost
<1>4. VramOf' = VramOf /\ HostOf' = HostOf
  BY <1>2 DEF VramOf, HostOf
<1>5. PoolInv'
  BY <1>4 DEF OwnershipInv, PoolInv
<1> QED BY <1>2, <1>3, <1>5

(* The SDMA engine keeps the invariant.                                    *)
LEMMA OwnRunCopy ==
  ASSUME OwnershipInv, RunCopy
  PROVE  OwnershipInv'
<1>1. /\ sdma # <<>> /\ sdma' = Tail(sdma)
      /\ IF Head(sdma).kind = "D2H"
         THEN host' = [host EXCEPT ![Head(sdma).dst] = Source(Head(sdma))] /\ UNCHANGED vram
         ELSE vram' = [vram EXCEPT ![Head(sdma).dst] = Source(Head(sdma))] /\ UNCHANGED host
      /\ UNCHANGED <<ref, chunks, unwritten, freeV, freeH, lost, evicting, resets, conv, said>>
  BY DEF RunCopy, handleVars, poolVars, callerVars
<1>2. TypeOK /\ EvictInv
  BY DEF OwnershipInv
<1>3. ListInv' /\ TierInv' /\ PoolInv' /\ Live' = Live
  BY <1>1, HandlesSame
<1>4. EvictInv'
  BY <1>1, <1>2 DEF EvictInv, LastChunk, NoHost
<1>5. Head(sdma) \in Copy /\ Tail(sdma) \in Seq(Copy)
  BY <1>1, <1>2 DEF TypeOK
<1>6. Source(Head(sdma)) \in Content
  <2>1. PICK c \in Copy : c = Head(sdma)
    BY <1>5
  <2>2. CASE c.kind = "H2D"
    <3>1. c.src \in HostSlots
      BY <2>2 DEF Copy
    <3> QED BY <1>2, <2>1, <2>2, <3>1 DEF Source, TypeOK
  <2>3. CASE c.kind # "H2D"
    <3>1. c.src \in VramSlots
      BY <2>3 DEF Copy
    <3> QED BY <1>2, <2>1, <2>3, <3>1 DEF Source, TypeOK
  <2> QED BY <2>2, <2>3
<1>7. vram' \in [VramSlots -> Content] /\ host' \in [HostSlots -> Content]
  BY <1>1, <1>2, <1>6 DEF TypeOK
<1>8. TypeOK'
  BY <1>1, <1>2, <1>3, <1>5, <1>7 DEF TypeOK
<1> QED BY <1>3, <1>4, <1>8 DEF OwnershipInv

(* A step of a sequence keeps the invariant.                               *)
LEMMA OwnDispatch ==
  ASSUME OwnershipInv, NEW s \in Seqs, Dispatch(s)
  PROVE  OwnershipInv'
<1>1. /\ unwritten[s]
      /\ vram' = [vram EXCEPT ![ref[LastChunk(s)].vram][ref[LastChunk(s)].len] = <<s, conv[s]>>]
      /\ said' = [said EXCEPT ![s] = Append(@, <<s, conv[s]>>)]
      /\ unwritten' = [unwritten EXCEPT ![s] = FALSE]
      /\ UNCHANGED <<ref, chunks, freeV, freeH, lost, host, sdma, evicting, resets, conv>>
  BY DEF Dispatch, poolVars
<1>2. TypeOK /\ ListInv /\ TierInv /\ EvictInv /\ PoolInv
  BY DEF OwnershipInv
<1>3. /\ chunks \in [Seqs -> Seq(Handles)] /\ unwritten \in [Seqs -> BOOLEAN]
      /\ said \in [Seqs -> Seq(Tokens)] /\ vram \in [VramSlots -> Content]
      /\ conv \in [Seqs -> 0..MaxResets] /\ evicting \subseteq Live
  BY <1>2 DEF TypeOK
<1>4. /\ \A h : Owners(h)' = Owners(h)
      /\ \A t \in Seqs : LastChunk(t)' = LastChunk(t)
  BY <1>1 DEF Owners, LastChunk
<1>5. Live' = Live
  BY <1>4, LiveOwned
<1>6. <<s, conv[s]>> \in Tokens
  BY <1>3 DEF Tokens
<1>7. ASSUME NEW t \in Seqs, t # s PROVE ListOK(t)'
  <2>1. ListOK(t) /\ chunks'[t] = chunks[t] /\ unwritten'[t] = unwritten[t] /\ said'[t] = said[t]
    BY <1>1, <1>2, <1>3, <1>7 DEF ListInv
  <2>2. \A h : unwritten[t] /\ h = LastChunk(t) => Owners(h)' = {t}
    BY <1>4, <2>1 DEF ListOK
  <2>3. \A i \in 1..Len(chunks[t]) : ref'[chunks[t][i]].len = ref[chunks[t][i]].len
    BY <1>1
  <2> QED BY <1>3, <2>1, <2>2, <2>3, ListSame
<1>8. ListOK(s)'
  <2>1. ListOK(s) /\ chunks'[s] = chunks[s] /\ ~unwritten'[s] /\ said'[s] = Append(said[s], <<s, conv[s]>>)
    BY <1>1, <1>2, <1>3 DEF ListInv
  <2>2. Len(said[s]) \in Nat /\ Len(said'[s]) = Len(said[s]) + 1
    BY <1>3, <1>6, <2>1
  <2>3. SeqLen(s)' = SeqLen(s)
    BY <1>1, <2>1, <2>2 DEF SeqLen
  <2>4. LastChunk(s)' = LastChunk(s) /\ ref' = ref
    BY <1>1, <1>4
  <2> QED BY <2>1, <2>3, <2>4 DEF ListOK
<1>9. ListInv'
  BY <1>7, <1>8 DEF ListInv
<1>10. TierInv' /\ EvictInv'
  <2>1. TierInv'
    BY <1>1, <1>2, <1>5 DEF TierInv, NoVram, NoHost
  <2>2. \A t \in Seqs : unwritten'[t] => unwritten[t]
    BY <1>1, <1>3
  <2>3. EvictInv'
    BY <1>1, <1>2, <1>4, <2>2 DEF EvictInv, NoHost
  <2> QED BY <2>1, <2>3
<1>11. PoolInv'
  <2>1. VramOf' = VramOf /\ HostOf' = HostOf
    BY <1>1, <1>5 DEF VramOf, HostOf
  <2> QED BY <1>1, <1>2, <2>1 DEF PoolInv
<1>12. vram' \in [VramSlots -> Content]
  <2> DEFINE v == ref[LastChunk(s)].vram   l == ref[LastChunk(s)].len
             w == [vram[v] EXCEPT ![l] = <<s, conv[s]>>]
  <2>1. v \in VramSlots => w \in Content
    BY <1>3, <1>6 DEF Content
  <2>2. vram' = [vram EXCEPT ![v] = w]
    BY <1>1
  <2> QED BY <1>3, <2>1, <2>2
<1>13. said' \in [Seqs -> Seq(Tokens)] /\ unwritten' \in [Seqs -> BOOLEAN]
  BY <1>1, <1>3, <1>6
<1>14. TypeOK'
  BY <1>1, <1>2, <1>5, <1>12, <1>13 DEF TypeOK
<1> QED BY <1>9, <1>10, <1>11, <1>14 DEF OwnershipInv

(* The start of an eviction keeps the invariant.                           *)
LEMMA OwnEvict ==
  ASSUME OwnershipInv, NEW h \in Handles, Evict(h)
  PROVE  OwnershipInv'
<1>1. /\ Evictable(h) /\ sdma' = Append(sdma, D2HCopy(h)) /\ evicting' = evicting \cup {h}
      /\ UNCHANGED <<ref, chunks, unwritten, freeV, freeH, lost, vram, host, resets, conv, said>>
  BY DEF Evict, handleVars, poolVars
<1>2. TypeOK /\ EvictInv /\ TierInv
  BY DEF OwnershipInv
<1>3. ListInv' /\ TierInv' /\ PoolInv' /\ Live' = Live
  BY <1>1, HandlesSame
<1>4. /\ h \in Live /\ ref[h].tier = "Vram" /\ ref[h].host # NoHost
      /\ ref[h].len = ChunkTokens /\ \A s \in Seqs : unwritten[s] => LastChunk(s) # h
  BY <1>1 DEF Evictable
<1>5. EvictInv'
  BY <1>1, <1>2, <1>4 DEF EvictInv, LastChunk, NoHost
<1>6. D2HCopy(h) \in Copy
  <2>1. ref[h].vram \in 0..VramCap /\ ref[h].host \in 0..HostCap
    BY <1>2, HeldFacts DEF TypeOK
  <2>2. ref[h].vram # VramCap /\ ref[h].host # HostCap
    BY <1>2, <1>4 DEF TierInv, NoVram, NoHost
  <2>3. ref[h].vram \in VramSlots /\ ref[h].host \in HostSlots
    BY <2>1, <2>2, KvTiersAssumption DEF VramSlots, HostSlots
  <2> QED BY <2>3 DEF D2HCopy, Copy
<1>7. sdma' \in Seq(Copy)
  BY <1>1, <1>2, <1>6 DEF TypeOK
<1>8. TypeOK'
  BY <1>1, <1>2, <1>3, <1>4, <1>7 DEF TypeOK
<1> QED BY <1>3, <1>5, <1>8 DEF OwnershipInv

(* A token in a chunk the sequence already has keeps the invariant.        *)
LEMMA OwnAppendOld ==
  ASSUME OwnershipInv, NEW s \in Seqs, ~unwritten[s], ~NeedsNewChunk(s),
         StrongCount(LastChunk(s)) = 1,
         ref' = [ref EXCEPT ![LastChunk(s)].len = @ + 1],
         unwritten' = [unwritten EXCEPT ![s] = TRUE],
         UNCHANGED <<chunks, freeV, freeH, lost, vram, host, sdma, evicting, resets, conv, said>>
  PROVE  OwnershipInv'
<1>2. TypeOK /\ ListInv /\ TierInv /\ EvictInv /\ PoolInv
  BY DEF OwnershipInv
<1>3. /\ ref \in [Handles -> ChunkRef]
      /\ chunks \in [Seqs -> Seq(Handles)] /\ unwritten \in [Seqs -> BOOLEAN]
      /\ said \in [Seqs -> Seq(Tokens)] /\ evicting \subseteq Live
  BY <1>2 DEF TypeOK
<1>4. /\ \A h : Owners(h)' = Owners(h)
      /\ \A t \in Seqs : LastChunk(t)' = LastChunk(t)
  BY DEF Owners, LastChunk
<1>5. Live' = Live
  BY <1>4, LiveOwned
<1>6. PICK z : z = LastChunk(s)
  OBVIOUS
<1>7. chunks[s] # <<>> /\ ~(ref[z].len >= ChunkTokens)
  BY <1>6 DEF NeedsNewChunk
<1>8. z \in Handles /\ z \in Live /\ s \in Owners(z)
  BY <1>3, <1>6, <1>7, InList
<1>9. Owners(z) = {s}
  BY <1>6, <1>8, LiveOwned
<1>10. ref[z] \in ChunkRef /\ ref[z].len \in 0..ChunkTokens
  BY <1>3, <1>8, HeldFacts
<1>11. ref[z].len < ChunkTokens /\ ref[z].len + 1 \in 0..ChunkTokens /\ ref[z].len + 1 > 0
  BY <1>7, <1>10, KvTiersAssumption
<1>12. PICK r : r = [ref[z] EXCEPT !.len = @ + 1]
  OBVIOUS
<1>13. /\ r \in ChunkRef /\ r.len = ref[z].len + 1 /\ r.vram = ref[z].vram
       /\ r.host = ref[z].host /\ r.tier = ref[z].tier
  BY <1>10, <1>11, <1>12 DEF ChunkRef
<1>14. ref' = [ref EXCEPT ![z] = r]
  BY <1>6, <1>12
<1>15. /\ ref' \in [Handles -> ChunkRef] /\ ref'[z] = r
       /\ \A h \in Handles : h # z => ref'[h] = ref[h]
  BY <1>3, <1>8, <1>13, <1>14
<1>16. \A h \in Handles : /\ ref'[h].vram = ref[h].vram /\ ref'[h].host = ref[h].host
                          /\ ref'[h].tier = ref[h].tier
  BY <1>13, <1>15
<1>17. ASSUME NEW t \in Seqs, t # s PROVE ListOK(t)'
  <2>1. ListOK(t) /\ chunks'[t] = chunks[t] /\ unwritten'[t] = unwritten[t] /\ said'[t] = said[t]
    BY <1>2, <1>3, <1>17 DEF ListInv
  <2>2. \A h : unwritten[t] /\ h = LastChunk(t) => Owners(h)' = {t}
    BY <1>4, <2>1 DEF ListOK
  <2>3. \A i \in 1..Len(chunks[t]) : chunks[t][i] \in Handles /\ t \in Owners(chunks[t][i])
    BY <1>3, InList
  <2>4. \A i \in 1..Len(chunks[t]) : ref'[chunks[t][i]].len = ref[chunks[t][i]].len
    BY <1>9, <1>15, <1>17, <2>3
  <2> QED BY <1>3, <2>1, <2>2, <2>4, ListSame
<1>18. ListOK(s)'
  <2>1. ListOK(s) /\ chunks'[s] = chunks[s] /\ unwritten'[s] /\ said'[s] = said[s]
    BY <1>2, <1>3 DEF ListInv
  <2>2. Len(said[s]) \in Nat
    BY <1>3
  <2>3. SeqLen(s)' = SeqLen(s) + 1
    BY <2>1, <2>2 DEF SeqLen
  <2>4. LastChunk(s)' = z /\ Owners(z)' = {s} /\ ref'[z].len = ref[z].len + 1
    BY <1>4, <1>6, <1>9, <1>13, <1>15
  <2>5. PICK c \in Seq(Handles) : c = chunks[s]
    BY <1>3
  <2>6. /\ IsInjective(c) /\ c # <<>>
        /\ \A i \in 1..(Len(c) - 1) : ref[c[i]].len = ChunkTokens
        /\ SeqLen(s) = (Len(c) - 1) * ChunkTokens + ref[z].len
    BY <1>6, <1>7, <2>1, <2>5 DEF ListOK
  <2>7. Len(c) \in Nat /\ Len(c) > 0 /\ z = c[Len(c)] /\ \A i \in 1..Len(c) : c[i] \in Handles
    BY <1>6, <2>5, <2>6 DEF LastChunk
  <2>8. \A i \in 1..(Len(c) - 1) : ref'[c[i]].len = ChunkTokens
    <3> SUFFICES ASSUME NEW i \in 1..(Len(c) - 1) PROVE ref'[c[i]].len = ChunkTokens
      OBVIOUS
    <3>1. i \in 1..Len(c) /\ Len(c) \in 1..Len(c) /\ i # Len(c)
      BY <2>7
    <3>2. c[i] # z
      BY <2>6, <2>7, <3>1 DEF IsInjective
    <3> QED BY <1>15, <2>6, <2>7, <3>1, <3>2
  <2>9. SeqLen(s)' = (Len(c) - 1) * ChunkTokens + ref'[z].len
    <3>1. (Len(c) - 1) * ChunkTokens \in Int
      BY <2>7, KvTiersAssumption
    <3>2. PICK m \in Int : m = (Len(c) - 1) * ChunkTokens
      BY <3>1
    <3>3. m + ref[z].len + 1 = m + (ref[z].len + 1)
      BY <1>10, <3>2
    <3> QED BY <2>3, <2>4, <2>6, <3>2, <3>3
  <2>10. ref'[z].len > 0
    BY <1>11, <2>4
  <2> QED BY <2>1, <2>4, <2>5, <2>6, <2>8, <2>9, <2>10 DEF ListOK
<1>19. ListInv'
  BY <1>17, <1>18 DEF ListInv
<1>20. \A h \in Live : h \in Handles
  BY DEF Live
<1>21. TierInv'
  BY <1>2, <1>5, <1>16, <1>20 DEF TierInv, NoVram, NoHost
<1>22. EvictInv'
  <2> SUFFICES ASSUME NEW h \in evicting
               PROVE  /\ ref'[h].tier = "Vram" /\ ref'[h].host # NoHost /\ ref'[h].len = ChunkTokens
                      /\ \A t \in Seqs : unwritten'[t] => LastChunk(t)' # h
    BY DEF EvictInv, NoHost
  <2>1. /\ ref[h].tier = "Vram" /\ ref[h].host # NoHost /\ ref[h].len = ChunkTokens
        /\ \A t \in Seqs : unwritten[t] => LastChunk(t) # h
    BY <1>2 DEF EvictInv
  <2>2. h # z /\ h \in Handles
    BY <1>3, <1>11, <1>20, <2>1, KvTiersAssumption
  <2>3. \A t \in Seqs : t # s => unwritten'[t] = unwritten[t]
    BY <1>3
  <2> QED BY <1>4, <1>6, <1>15, <2>1, <2>2, <2>3
<1>23. PoolInv'
  <2>1. VramOf' = VramOf /\ HostOf' = HostOf
    BY <1>5, <1>16, <1>20 DEF VramOf, HostOf
  <2> QED BY <1>2, <2>1 DEF PoolInv
<1>24. unwritten' \in [Seqs -> BOOLEAN]
  BY <1>3
<1>25. TypeOK'
  BY <1>2, <1>5, <1>15, <1>24 DEF TypeOK
<1> QED BY <1>19, <1>21, <1>22, <1>23, <1>25 DEF OwnershipInv

(* AppendToken keeps the invariant.                                        *)
LEMMA OwnAppend ==
  ASSUME OwnershipInv, NEW s \in Seqs, AppendToken(s)
  PROVE  OwnershipInv'
<1>1. /\ ~unwritten[s] /\ unwritten' = [unwritten EXCEPT ![s] = TRUE]
      /\ UNCHANGED <<lost, vram, host, sdma, evicting, resets, conv, said>>
  BY DEF AppendToken, memVars, callerVars
<1>2. /\ freeV \in Seq(0..(VramCap - 1)) /\ freeH \in Seq(0..(HostCap - 1))
      /\ VramCap \in Nat /\ HostCap \in Nat
      /\ freeV # <<>> => /\ AllocSlot(freeV) \in 0..(VramCap - 1) /\ AllocSlot(freeV) # NoVram
                         /\ AfterAlloc(freeV) \in Seq(0..(VramCap - 1))
      /\ freeH # <<>> => /\ AllocSlot(freeH) \in 0..(HostCap - 1) /\ AllocSlot(freeH) # NoHost
                         /\ AfterAlloc(freeH) \in Seq(0..(HostCap - 1))
  BY PoolFacts
<1>3. 1 \in 0..ChunkTokens
  BY KvTiersAssumption
<1>4. CASE /\ ~NeedsNewChunk(s) /\ StrongCount(LastChunk(s)) = 1
           /\ ref' = [ref EXCEPT ![LastChunk(s)].len = @ + 1]
           /\ UNCHANGED <<chunks, freeV, freeH>>
  BY <1>1, <1>4, OwnAppendOld
<1>5. ASSUME NEW f \in Handles \ Live, NEW r \in ChunkRef, NeedsNewChunk(s),
             ref' = [ref EXCEPT ![f] = r], chunks' = [chunks EXCEPT ![s] = Append(@, f)], r.len = 1,
             \/ /\ freeV # <<>> /\ freeV' = AfterAlloc(freeV) /\ freeH' = freeH
                /\ r.tier = "Vram" /\ r.vram = AllocSlot(freeV) /\ r.host = NoHost
             \/ /\ freeH # <<>> /\ freeH' = AfterAlloc(freeH) /\ freeV' = freeV
                /\ r.tier = "HostPinned" /\ r.vram = NoVram /\ r.host = AllocSlot(freeH)
      PROVE  OwnershipInv'
  <2>1. IF r.tier = "Vram" THEN r.vram # NoVram ELSE r.vram = NoVram /\ r.host # NoHost
    BY <1>2, <1>5
  <2>2. /\ ref' \in [Handles -> ChunkRef] /\ chunks' \in [Seqs -> Seq(Handles)]
        /\ unwritten' \in [Seqs -> BOOLEAN] /\ evicting' \subseteq Live'
        /\ ListInv' /\ TierInv' /\ EvictInv'
        /\ Live' = Live \cup {f} /\ f \in Live'
        /\ ref'[f] = r /\ \A g \in Live : ref'[g] = ref[g]
    <3>1. unwritten' = [unwritten EXCEPT ![s] = TRUE] /\ said' = said /\ evicting' = evicting
      BY <1>1
    <3> QED BY <1>1, <1>5, <2>1, <3>1, NewChunk
  <2>3. Live \subseteq Live' /\ \A g \in Live' \ Live : g = f
    BY <2>2
  <2>4. CASE r.tier = "Vram"
    <3>1. /\ freeV # <<>> /\ freeV' = AfterAlloc(freeV) /\ freeH' = freeH
          /\ r.vram = AllocSlot(freeV) /\ r.host = NoHost
      BY <1>5, <2>4
    <3>2. Accounted(freeV', lost', VramOf', VramCap)
      <4>1. ref'[f].vram = AllocSlot(freeV) /\ \A g \in Live : g # f => ref'[g].vram = ref[g].vram
        BY <2>2, <3>1
      <4> QED BY <1>1, <2>2, <3>1, <4>1, TakeV
    <3>3. Accounted(freeH', {}, HostOf', HostCap)
      <4>1. /\ \A g \in Live : ref'[g].host = ref[g].host
            /\ \A g \in Live' \ Live : ref'[g].host = NoHost
        BY <2>2, <2>3, <3>1
      <4> QED BY <2>2, <2>3, <3>1, <4>1, SameH
    <3>4. TypeOK'
      BY <1>1, <1>2, <2>2, <3>1 DEF OwnershipInv, TypeOK, VramSlots, HostSlots
    <3> QED BY <2>2, <3>2, <3>3, <3>4 DEF OwnershipInv, PoolInv
  <2>5. CASE r.tier # "Vram"
    <3>1. /\ freeH # <<>> /\ freeH' = AfterAlloc(freeH) /\ freeV' = freeV
          /\ r.vram = NoVram /\ r.host = AllocSlot(freeH)
      BY <1>5, <2>5
    <3>2. Accounted(freeH', {}, HostOf', HostCap)
      <4>1. ref'[f].host = AllocSlot(freeH) /\ \A g \in Live : g # f => ref'[g].host = ref[g].host
        BY <2>2, <3>1
      <4> QED BY <1>1, <2>2, <3>1, <4>1, TakeH
    <3>3. Accounted(freeV', lost', VramOf', VramCap)
      <4>1. /\ \A g \in Live : ref'[g].vram = ref[g].vram
            /\ \A g \in Live' \ Live : ref'[g].vram = NoVram
        BY <2>2, <2>3, <3>1
      <4> QED BY <1>1, <2>2, <2>3, <3>1, <4>1, SameV
    <3>4. TypeOK'
      BY <1>1, <1>2, <2>2, <3>1 DEF OwnershipInv, TypeOK, VramSlots, HostSlots
    <3> QED BY <2>2, <3>2, <3>3, <3>4 DEF OwnershipInv, PoolInv
  <2> QED BY <2>4, <2>5
<1>6. CASE /\ NeedsNewChunk(s) /\ freeV # <<>> /\ Live # Handles
           /\ ref' = [ref EXCEPT ![FreshHandle] = VramChunk(AllocSlot(freeV), NoHost, 1)]
           /\ chunks' = [chunks EXCEPT ![s] = Append(@, FreshHandle)]
           /\ freeV' = AfterAlloc(freeV) /\ UNCHANGED freeH
  <2>1. PICK f \in Handles \ Live : f = FreshHandle
    BY <1>6, FreshIs
  <2>2. PICK v \in 0..VramCap, n \in 0..HostCap : v = AllocSlot(freeV) /\ n = NoHost
    BY <1>2, <1>6 DEF NoHost
  <2>3. PICK r \in ChunkRef : /\ r = VramChunk(AllocSlot(freeV), NoHost, 1) /\ r.len = 1
                             /\ r.tier = "Vram" /\ r.vram = AllocSlot(freeV) /\ r.host = NoHost
    BY <1>3, <2>2, ChunkFacts
  <2>4. /\ ref' = [ref EXCEPT ![f] = r] /\ chunks' = [chunks EXCEPT ![s] = Append(@, f)]
        /\ freeH' = freeH
    BY <1>6, <2>1, <2>3
  <2> QED BY <1>5, <1>6, <2>3, <2>4
<1>7. CASE /\ NeedsNewChunk(s) /\ freeV = <<>> /\ freeH # <<>> /\ Live # Handles
           /\ ref' = [ref EXCEPT ![FreshHandle] = [HostChunk(AllocSlot(freeH)) EXCEPT !.len = 1]]
           /\ chunks' = [chunks EXCEPT ![s] = Append(@, FreshHandle)]
           /\ freeH' = AfterAlloc(freeH) /\ UNCHANGED freeV
  <2>1. PICK f \in Handles \ Live : f = FreshHandle
    BY <1>7, FreshIs
  <2>2. PICK n \in 0..HostCap : n = AllocSlot(freeH)
    BY <1>2, <1>7
  <2>3. PICK r : r = [HostChunk(n) EXCEPT !.len = 1]
    OBVIOUS
  <2>4. /\ r \in ChunkRef /\ r.len = 1 /\ r.tier = "HostPinned"
        /\ r.vram = NoVram /\ r.host = AllocSlot(freeH)
    BY <1>2, <1>3, <2>2, <2>3 DEF HostChunk, ChunkRef, NoVram, NoHost
  <2>5. /\ ref' = [ref EXCEPT ![f] = r] /\ chunks' = [chunks EXCEPT ![s] = Append(@, f)]
        /\ freeV' = freeV
    BY <1>7, <2>1, <2>2, <2>3
  <2> QED BY <1>5, <1>7, <2>4, <2>5
<1> QED BY <1>4, <1>6, <1>7 DEF AppendToken

(* A fork keeps the invariant.                                             *)
LEMMA OwnFork ==
  ASSUME OwnershipInv, NEW s \in Seqs, NEW t \in Seqs, s # t, Fork(s, t)
  PROVE  OwnershipInv'
<1>1. /\ chunks[s] # <<>> /\ ~unwritten[s] /\ chunks[t] = <<>>
      /\ chunks' = [chunks EXCEPT ![t] = chunks[s]] /\ said' = [said EXCEPT ![t] = said[s]]
      /\ UNCHANGED <<ref, unwritten, freeV, freeH, lost, vram, host, sdma, evicting, resets, conv>>
  BY DEF Fork, poolVars, memVars
<1>2. TypeOK /\ ListInv /\ TierInv /\ EvictInv /\ PoolInv
  BY DEF OwnershipInv
<1>3. /\ chunks \in [Seqs -> Seq(Handles)] /\ unwritten \in [Seqs -> BOOLEAN]
      /\ said \in [Seqs -> Seq(Tokens)] /\ evicting \subseteq Live
  BY <1>2 DEF TypeOK
<1>4. /\ chunks' \in [Seqs -> Seq(Handles)]
      /\ chunks'[t] = chunks[s] /\ \A r \in Seqs : r # t => chunks'[r] = chunks[r]
      /\ LastChunk(t)' = LastChunk(s) /\ \A r \in Seqs : r # t => LastChunk(r)' = LastChunk(r)
      /\ \A h : Owners(h)' = IF s \in Owners(h) THEN Owners(h) \cup {t} ELSE Owners(h)
      /\ Live' = Live
  BY <1>1, <1>3, ForkFacts
<1>5. ~unwritten[t]
  BY <1>1, <1>2 DEF ListInv, ListOK
<1>6. ASSUME NEW r \in Seqs, r # t PROVE ListOK(r)'
  <2>1. ListOK(r) /\ chunks'[r] = chunks[r] /\ unwritten'[r] = unwritten[r] /\ said'[r] = said[r]
    BY <1>1, <1>2, <1>3, <1>4, <1>6 DEF ListInv
  <2>2. ASSUME NEW h, unwritten[r], h = LastChunk(r) PROVE Owners(h)' = {r}
    <3>1. Owners(h) = {r} /\ r # s
      BY <1>1, <2>1, <2>2 DEF ListOK
    <3> QED BY <1>4, <3>1
  <2>3. \A i \in 1..Len(chunks[r]) : ref'[chunks[r][i]].len = ref[chunks[r][i]].len
    BY <1>1
  <2> QED BY <1>3, <2>1, <2>2, <2>3, ListSame
<1>7. ListOK(t)'
  <2>1. ListOK(s) /\ chunks'[t] = chunks[s] /\ ~unwritten'[t] /\ said'[t] = said[s] /\ ref' = ref
    BY <1>1, <1>2, <1>3, <1>4, <1>5 DEF ListInv
  <2>2. SeqLen(t)' = SeqLen(s)
    BY <1>1, <2>1 DEF SeqLen
  <2>3. LastChunk(t)' = LastChunk(s)
    BY <1>4
  <2> QED BY <2>1, <2>2, <2>3 DEF ListOK
<1>8. ListInv'
  BY <1>6, <1>7 DEF ListInv
<1>9. TierInv'
  BY <1>1, <1>2, <1>4 DEF TierInv, NoVram, NoHost
<1>10. EvictInv'
  BY <1>1, <1>2, <1>4, <1>5 DEF EvictInv, NoHost
<1>11. PoolInv'
  <2>1. VramOf' = VramOf /\ HostOf' = HostOf
    BY <1>1, <1>4 DEF VramOf, HostOf
  <2> QED BY <1>1, <1>2, <2>1 DEF PoolInv
<1>12. said' \in [Seqs -> Seq(Tokens)]
  BY <1>1, <1>3
<1>13. TypeOK'
  BY <1>1, <1>2, <1>4, <1>12 DEF TypeOK
<1> QED BY <1>8, <1>9, <1>10, <1>11, <1>13 DEF OwnershipInv

(* MakeExclusive keeps the invariant, whether or not its copy fails.       *)
LEMMA OwnExclusive ==
  ASSUME OwnershipInv, NEW s \in Seqs, MakeExclusive(s)
  PROVE  OwnershipInv'
<1>1. PICK old, slot, copies :
      /\ chunks[s] # <<>> /\ ~unwritten[s] /\ old = LastChunk(s) /\ slot = AllocSlot(freeV)
      /\ copies = IF ref[old].len = 0 THEN <<>>
                  ELSE <<[kind |-> "D2D", src |-> ref[old].vram, dst |-> slot]>>
      /\ ref[old].tier = "Vram" /\ StrongCount(old) > 1 /\ freeV # <<>>
      /\ freeV' = AfterAlloc(freeV)
      /\ \/ /\ Live # Handles
            /\ ref' = [ref EXCEPT ![FreshHandle] = VramChunk(slot, NoHost, ref[old].len)]
            /\ chunks' = [chunks EXCEPT ![s] = Front(@) \o <<FreshHandle>>]
            /\ sdma' = sdma \o copies /\ UNCHANGED lost
         \/ /\ lost' = lost \cup {slot} /\ UNCHANGED <<ref, chunks, sdma>>
      /\ UNCHANGED <<unwritten, freeH, vram, host, evicting, resets, conv, said>>
  BY DEF MakeExclusive, callerVars
<1>2. TypeOK /\ ListInv /\ TierInv /\ EvictInv /\ PoolInv
  BY DEF OwnershipInv
<1>3. /\ ref \in [Handles -> ChunkRef] /\ chunks \in [Seqs -> Seq(Handles)]
      /\ unwritten \in [Seqs -> BOOLEAN] /\ sdma \in Seq(Copy)
      /\ said \in [Seqs -> Seq(Tokens)] /\ evicting \subseteq Live
  BY <1>2 DEF TypeOK
<1>4. /\ freeV \in Seq(0..(VramCap - 1)) /\ lost \in SUBSET (0..(VramCap - 1))
      /\ VramCap \in Nat /\ HostCap \in Nat /\ slot \in 0..(VramCap - 1) /\ slot # NoVram
      /\ AfterAlloc(freeV) \in Seq(0..(VramCap - 1))
  BY <1>1, PoolFacts
<1>5. CASE lost' = lost \cup {slot} /\ UNCHANGED <<ref, chunks, sdma>>
  <2>1. ListInv' /\ Live' = Live /\ \A t \in Seqs : LastChunk(t)' = LastChunk(t)
    BY <1>1, <1>2, <1>3, <1>5, ListsSame
  <2>2. TierInv'
    BY <1>2, <1>5, <2>1 DEF TierInv, NoVram, NoHost
  <2>3. EvictInv'
    BY <1>1, <1>2, <1>5, <2>1 DEF EvictInv, NoHost
  <2>4. VramOf' = VramOf /\ HostOf' = HostOf
    BY <1>5, <2>1 DEF VramOf, HostOf
  <2>5. PICK held, L : held = VramOf /\ L = Live
    OBVIOUS
  <2>6. held \in [L -> 0..VramCap] /\ Accounted(freeV, lost, held, VramCap)
    BY <2>5, PoolFacts
  <2>7. Accounted(AfterAlloc(freeV), lost \cup {AllocSlot(freeV)}, held, VramCap)
    BY <1>1, <1>4, <2>6, LoseAccounted
  <2>8. PoolInv'
    BY <1>1, <1>2, <1>5, <2>4, <2>5, <2>7 DEF PoolInv
  <2>9. TypeOK'
    BY <1>1, <1>2, <1>4, <1>5, <2>1 DEF TypeOK, VramSlots
  <2> QED BY <2>1, <2>2, <2>3, <2>8, <2>9 DEF OwnershipInv
<1>6. CASE /\ Live # Handles
           /\ ref' = [ref EXCEPT ![FreshHandle] = VramChunk(slot, NoHost, ref[old].len)]
           /\ chunks' = [chunks EXCEPT ![s] = Front(@) \o <<FreshHandle>>]
           /\ sdma' = sdma \o copies /\ UNCHANGED lost
  <2>1. PICK f \in Handles \ Live : f = FreshHandle
    BY <1>6, FreshIs
  <2>2. /\ old \in Handles /\ old \in Live /\ s \in Owners(old) /\ old # f
    BY <1>1, <1>3, InList
  <2>3. ref[old].len \in 0..ChunkTokens /\ ref[old].vram \in 0..VramCap
    BY <1>3, <2>2, HeldFacts
  <2>4. PICK v \in 0..VramCap, n \in 0..HostCap, l \in 0..ChunkTokens :
            v = slot /\ n = NoHost /\ l = ref[old].len
    <3>1. slot \in 0..VramCap
      BY <1>4
    <3>2. NoHost \in 0..HostCap
      BY <1>4 DEF NoHost
    <3> QED BY <2>3, <3>1, <3>2
  <2>5. PICK r \in ChunkRef : /\ r = VramChunk(slot, NoHost, ref[old].len) /\ r.len = ref[old].len
                             /\ r.tier = "Vram" /\ r.vram = slot /\ r.host = NoHost
    BY <2>4, ChunkFacts
  <2>6. /\ ref' = [ref EXCEPT ![f] = r] /\ chunks' = [chunks EXCEPT ![s] = Front(@) \o <<f>>]
    BY <1>6, <2>1, <2>5
  <2>7. ListOK(s) /\ IsInjective(chunks[s])
    BY <1>2 DEF ListInv, ListOK
  <2>8. /\ chunks' \in [Seqs -> Seq(Handles)]
        /\ Len(chunks'[s]) = Len(chunks[s]) /\ chunks'[s] # <<>>
        /\ \A i \in 1..(Len(chunks[s]) - 1) : chunks'[s][i] = chunks[s][i]
        /\ chunks'[s][Len(chunks[s])] = f /\ LastChunk(s)' = f
        /\ \A t \in Seqs : t # s => chunks'[t] = chunks[t] /\ LastChunk(t)' = LastChunk(t)
        /\ Owners(f) = {} /\ Owners(f)' = {s}
        /\ Owners(old)' = Owners(old) \ {s}
        /\ \A h : h # f /\ h # old => Owners(h)' = Owners(h)
        /\ Live' = Live \cup {f}
    <3>1. chunks[s] # <<>> /\ old = LastChunk(s) /\ StrongCount(old) > 1
      BY <1>1
    <3>2. chunks \in [Seqs -> Seq(Handles)] /\ IsInjective(chunks[s])
      BY <1>3, <2>7
    <3>3. chunks' = Swapped(s, f)
      BY <2>6 DEF Swapped
    <3> QED BY <3>1, <3>2, <3>3, SwapFacts
  <2>9. ref' \in [Handles -> ChunkRef] /\ ref'[f] = r /\ \A h \in Handles : h # f => ref'[h] = ref[h]
    BY <1>3, <2>6
  <2>10. \A h \in Live : h \in Handles /\ h # f /\ ref'[h] = ref[h]
    BY <2>9 DEF Live
  <2>11. ASSUME NEW t \in Seqs, t # s PROVE ListOK(t)'
    <3>1. ListOK(t) /\ chunks'[t] = chunks[t] /\ unwritten'[t] = unwritten[t] /\ said'[t] = said[t]
      BY <1>1, <1>2, <2>8, <2>11 DEF ListInv
    <3>2. ASSUME NEW h, unwritten[t], h = LastChunk(t) PROVE Owners(h)' = {t}
      <4>1. Owners(h) = {t}
        BY <3>1, <3>2 DEF ListOK
      <4>2. h # f /\ h # old
        BY <2>2, <2>8, <2>11, <4>1
      <4> QED BY <2>8, <4>1, <4>2
    <3>3. \A i \in 1..Len(chunks[t]) : ref'[chunks[t][i]].len = ref[chunks[t][i]].len
      BY <1>3, <2>10, InList
    <3> QED BY <1>3, <3>1, <3>2, <3>3, ListSame
  <2>12. ListOK(s)'
    <3>1. PICK c \in Seq(Handles), d \in Seq(Handles) : c = chunks[s] /\ d = chunks'[s]
      BY <1>3, <2>8
    <3>2. /\ Len(c) \in Nat /\ Len(c) > 0 /\ Len(d) = Len(c) /\ d # <<>> /\ c # <<>>
          /\ DOMAIN c = 1..Len(c) /\ DOMAIN d = 1..Len(c) /\ d[Len(c)] = f
          /\ \A i \in 1..(Len(c) - 1) : d[i] = c[i]
      BY <1>1, <2>8, <3>1
    <3>3. \A i \in 1..Len(c) : c[i] \in Live
      BY <1>3, <3>1, InList
    <3>4. \A i \in 1..Len(c) : i \in 1..(Len(c) - 1) \/ i = Len(c)
      OBVIOUS
    <3>5. \A i \in 1..(Len(c) - 1) : i \in 1..Len(c)
      BY <3>2
    <3>6. \A i, j \in 1..Len(c) : c[i] = c[j] => i = j
      BY <2>7, <3>1, <3>2 DEF IsInjective
    <3>7. IsInjective(d)
      BY <3>2, <3>3, <3>4, <3>5, <3>6 DEF IsInjective
    <3>8. \A i \in 1..(Len(c) - 1) : ref[c[i]].len = ChunkTokens
      BY <2>7, <3>1 DEF ListOK
    <3>9. \A i \in 1..(Len(c) - 1) : ref'[d[i]].len = ChunkTokens
      BY <2>10, <3>2, <3>3, <3>5, <3>8
    <3>10. SeqLen(s)' = SeqLen(s) /\ ~unwritten'[s]
      BY <1>1 DEF SeqLen
    <3>11. SeqLen(s) = (Len(c) - 1) * ChunkTokens + ref'[f].len
      BY <1>1, <2>5, <2>7, <2>9, <3>1, <3>2 DEF ListOK
    <3>12. chunks'[s] = d /\ LastChunk(s)' = f
      BY <2>8, <3>1
    <3> QED BY <3>2, <3>7, <3>9, <3>10, <3>11, <3>12 DEF ListOK
  <2>13. ListInv'
    BY <2>11, <2>12 DEF ListInv
  <2>14. TierInv'
    <3> SUFFICES ASSUME NEW h \in Live'
                 PROVE  IF ref'[h].tier = "Vram" THEN ref'[h].vram # NoVram
                        ELSE ref'[h].vram = NoVram /\ ref'[h].host # NoHost
      BY DEF TierInv, NoVram, NoHost
    <3>1. CASE h = f
      BY <1>4, <2>5, <2>9, <3>1
    <3>2. CASE h \in Live
      BY <1>2, <2>10, <3>2 DEF TierInv
    <3> QED BY <2>8, <3>1, <3>2
  <2>15. EvictInv'
    <3> SUFFICES ASSUME NEW h \in evicting
                 PROVE  /\ ref'[h].tier = "Vram" /\ ref'[h].host # NoHost /\ ref'[h].len = ChunkTokens
                        /\ \A t \in Seqs : unwritten'[t] => LastChunk(t)' # h
      BY <1>1 DEF EvictInv, NoHost
    <3>1. h \in Live /\ h # f /\ ref'[h] = ref[h]
      BY <1>3, <2>10
    <3> QED BY <1>1, <1>2, <2>8, <3>1 DEF EvictInv
  <2>16. Accounted(freeV', lost', VramOf', VramCap)
    <3>1. ref'[f].vram = AllocSlot(freeV) /\ \A g \in Live : g # f => ref'[g].vram = ref[g].vram
      BY <1>1, <2>5, <2>9, <2>10
    <3>2. lost' = lost /\ freeV # <<>> /\ freeV' = AfterAlloc(freeV)
      BY <1>1, <1>6
    <3> QED BY <2>8, <2>9, <3>1, <3>2, TakeV
  <2>17. Accounted(freeH', {}, HostOf', HostCap)
    <3>1. /\ Live \subseteq Live' /\ \A g \in Live : ref'[g].host = ref[g].host
          /\ \A g \in Live' \ Live : ref'[g].host = NoHost
      BY <2>5, <2>8, <2>9, <2>10
    <3>2. freeH' = freeH
      BY <1>1
    <3> QED BY <2>9, <3>1, <3>2, SameH
  <2>18. sdma' \in Seq(Copy)
    <3>1. CASE ref[old].len = 0
      BY <1>1, <1>3, <1>6, <3>1
    <3>2. CASE ref[old].len # 0
      <4>1. ref[old].vram # VramCap
        BY <1>1, <1>2, <2>2 DEF TierInv, NoVram
      <4>2. ref[old].vram \in VramSlots /\ slot \in VramSlots
        BY <1>4, <2>3, <4>1 DEF VramSlots
      <4>3. [kind |-> "D2D", src |-> ref[old].vram, dst |-> slot] \in Copy
        BY <4>2 DEF Copy
      <4>4. copies \in Seq(Copy)
        BY <1>1, <3>2, <4>3
      <4> QED BY <1>3, <1>6, <4>4
    <3> QED BY <3>1, <3>2
  <2>19. TypeOK'
    <3>1. evicting' \subseteq Live'
      BY <1>1, <1>3, <2>8
    <3> QED BY <1>1, <1>2, <1>4, <1>6, <2>8, <2>9, <2>18, <3>1 DEF TypeOK, VramSlots
  <2> QED BY <2>13, <2>14, <2>15, <2>16, <2>17, <2>19 DEF OwnershipInv, PoolInv
<1> QED BY <1>1, <1>5, <1>6

(* A promotion keeps the invariant.                                        *)
LEMMA OwnPromote ==
  ASSUME OwnershipInv, NEW h \in Handles, Promote(h)
  PROVE  OwnershipInv'
<1>1. /\ h \in Live /\ ref[h].tier = "HostPinned" /\ ref[h].host # NoHost /\ freeV # <<>>
      /\ ref' = [ref EXCEPT ![h].vram = AllocSlot(freeV), ![h].tier = "Vram"]
      /\ freeV' = AfterAlloc(freeV)
      /\ sdma' = Append(sdma, [kind |-> "H2D", src |-> ref[h].host, dst |-> AllocSlot(freeV)])
      /\ UNCHANGED <<chunks, unwritten, freeH, lost, vram, host, evicting, resets, conv, said>>
  BY DEF Promote, callerVars
<1>2. TypeOK /\ ListInv /\ TierInv /\ EvictInv /\ PoolInv
  BY DEF OwnershipInv
<1>3. /\ ref \in [Handles -> ChunkRef] /\ chunks \in [Seqs -> Seq(Handles)]
      /\ sdma \in Seq(Copy) /\ evicting \subseteq Live
  BY <1>2 DEF TypeOK
<1>4. /\ VramCap \in Nat /\ HostCap \in Nat /\ AllocSlot(freeV) \in 0..(VramCap - 1)
      /\ AllocSlot(freeV) # NoVram /\ AfterAlloc(freeV) \in Seq(0..(VramCap - 1))
  BY <1>1, PoolFacts
<1>5. ref[h] \in ChunkRef /\ ref[h].host \in 0..HostCap /\ ref[h].vram = NoVram
  <2>1. ref[h] \in ChunkRef /\ ref[h].host \in 0..HostCap
    BY <1>3, HeldFacts
  <2>2. "HostPinned" # "Vram"
    OBVIOUS
  <2> QED BY <1>1, <1>2, <2>1, <2>2 DEF TierInv
<1>6. PICK r : r = [ref[h] EXCEPT !.vram = AllocSlot(freeV), !.tier = "Vram"]
  OBVIOUS
<1>7. /\ r \in ChunkRef /\ r.vram = AllocSlot(freeV) /\ r.tier = "Vram"
      /\ r.host = ref[h].host /\ r.len = ref[h].len
  <2>1. AllocSlot(freeV) \in 0..VramCap
    BY <1>4
  <2> QED BY <1>5, <1>6, <2>1 DEF ChunkRef, NoVram
<1>8. ref' = [ref EXCEPT ![h] = r]
  BY <1>1, <1>3, <1>6
<1>9. ref' \in [Handles -> ChunkRef] /\ ref'[h] = r /\ \A g \in Handles : g # h => ref'[g] = ref[g]
  BY <1>3, <1>7, <1>8
<1>10. \A g \in Handles : ref'[g].len = ref[g].len /\ ref'[g].host = ref[g].host
  BY <1>7, <1>9
<1>11. ListInv' /\ Live' = Live /\ \A t \in Seqs : LastChunk(t)' = LastChunk(t)
  BY <1>1, <1>2, <1>3, <1>10, ListsSame
<1>12. \A g \in Live : g \in Handles
  BY DEF Live
<1>13. TierInv'
  <2> SUFFICES ASSUME NEW g \in Live
               PROVE  IF ref'[g].tier = "Vram" THEN ref'[g].vram # NoVram
                      ELSE ref'[g].vram = NoVram /\ ref'[g].host # NoHost
    BY <1>11 DEF TierInv, NoVram, NoHost
  <2>1. CASE g = h
    BY <1>4, <1>7, <1>9, <2>1
  <2>2. CASE g # h
    BY <1>2, <1>9, <1>12, <2>2 DEF TierInv
  <2> QED BY <2>1, <2>2
<1>14. EvictInv'
  <2>1. \A g \in evicting : g # h /\ g \in Handles
    BY <1>1, <1>2, <1>3, <1>12 DEF EvictInv
  <2>2. \A g \in evicting : ref'[g] = ref[g]
    BY <1>9, <2>1
  <2>3. ASSUME NEW g \in evicting
        PROVE  /\ ref'[g].tier = "Vram" /\ ref'[g].host # NoHost /\ ref'[g].len = ChunkTokens
               /\ \A s \in Seqs : unwritten[s] => LastChunk(s)' # g
    BY <1>2, <1>11, <2>2 DEF EvictInv
  <2> QED BY <1>1, <2>3 DEF EvictInv, NoHost
<1>15. Accounted(freeV', lost', VramOf', VramCap)
  <2>1. /\ Live' = Live \cup {h} /\ ref'[h].vram = AllocSlot(freeV)
        /\ \A g \in Live : g # h => ref'[g].vram = ref[g].vram
    BY <1>1, <1>7, <1>9, <1>11, <1>12
  <2>2. freeV # <<>> /\ freeV' = AfterAlloc(freeV) /\ lost' = lost
    BY <1>1
  <2> QED BY <1>5, <1>9, <2>1, <2>2, TakeV
<1>16. Accounted(freeH', {}, HostOf', HostCap)
  <2>1. HostOf' = HostOf
    BY <1>10, <1>11, <1>12 DEF HostOf
  <2> QED BY <1>1, <1>2, <2>1 DEF PoolInv
<1>17. sdma' \in Seq(Copy)
  <2>1. ref[h].host \in HostSlots /\ AllocSlot(freeV) \in VramSlots
    BY <1>1, <1>4, <1>5 DEF HostSlots, VramSlots, NoHost
  <2>2. [kind |-> "H2D", src |-> ref[h].host, dst |-> AllocSlot(freeV)] \in Copy
    BY <2>1 DEF Copy
  <2> QED BY <1>1, <1>3, <2>2
<1>18. TypeOK'
  BY <1>1, <1>2, <1>4, <1>9, <1>11, <1>17 DEF TypeOK, VramSlots
<1> QED BY <1>11, <1>13, <1>14, <1>15, <1>16, <1>18 DEF OwnershipInv, PoolInv

(* The end of an eviction keeps what is said of handles and pools.         *)
LEMMA FreedFacts ==
  ASSUME OwnershipInv, NEW h \in Live, ref[h].tier = "Vram", ref[h].host # NoHost,
         ref' = Freed(h), freeV' = Append(freeV, ref[h].vram),
         UNCHANGED <<chunks, unwritten, freeH, lost, said>>,
         evicting' \subseteq evicting, h \notin evicting'
  PROVE  /\ ref' \in [Handles -> ChunkRef] /\ freeV' \in Seq(0..(VramCap - 1)) /\ Live' = Live
         /\ ListInv' /\ TierInv' /\ EvictInv' /\ PoolInv'
         /\ ref'[h].vram = NoVram /\ ref'[h].tier = "HostPinned" /\ ref'[h].host = ref[h].host
         /\ \A g \in Handles : ref'[g].len = ref[g].len /\ (g # h => ref'[g] = ref[g])
<1>2. TypeOK /\ ListInv /\ TierInv /\ EvictInv /\ PoolInv
  BY DEF OwnershipInv
<1>3. /\ ref \in [Handles -> ChunkRef] /\ chunks \in [Seqs -> Seq(Handles)] /\ evicting \subseteq Live
  BY <1>2 DEF TypeOK
<1>4. /\ freeV \in Seq(0..(VramCap - 1)) /\ lost \in SUBSET (0..(VramCap - 1)) /\ VramCap \in Nat
      /\ VramOf \in [Live -> 0..VramCap] /\ Accounted(freeV, lost, VramOf, VramCap)
      /\ \A g \in Live : g \in Handles /\ VramOf[g] = ref[g].vram
  BY PoolFacts
<1>5. ref[h] \in ChunkRef /\ ref[h].vram \in 0..VramCap /\ ref[h].vram # NoVram /\ h \in Handles
  BY <1>2, <1>3, <1>4, HeldFacts DEF TierInv
<1>6. PICK v \in 0..(VramCap - 1) : v = ref[h].vram
  BY <1>4, <1>5 DEF NoVram
<1>7. PICK r : r = [ref[h] EXCEPT !.vram = NoVram, !.tier = "HostPinned"]
  OBVIOUS
<1>8. /\ r \in ChunkRef /\ r.vram = NoVram /\ r.tier = "HostPinned"
      /\ r.host = ref[h].host /\ r.len = ref[h].len
  <2>1. NoVram \in 0..NoVram
    BY <1>4 DEF NoVram
  <2> QED BY <1>5, <1>7, <2>1 DEF ChunkRef
<1>9. ref' = [ref EXCEPT ![h] = r]
  BY <1>3, <1>7 DEF Freed
<1>10. ref' \in [Handles -> ChunkRef] /\ ref'[h] = r /\ \A g \in Handles : g # h => ref'[g] = ref[g]
  BY <1>3, <1>5, <1>8, <1>9
<1>11. \A g \in Handles : ref'[g].len = ref[g].len /\ ref'[g].host = ref[g].host
  BY <1>8, <1>10
<1>12. ListInv' /\ Live' = Live /\ \A t \in Seqs : LastChunk(t)' = LastChunk(t)
  BY <1>2, <1>3, <1>11, ListsSame
<1>13. TierInv'
  <2> SUFFICES ASSUME NEW g \in Live
               PROVE  IF ref'[g].tier = "Vram" THEN ref'[g].vram # NoVram
                      ELSE ref'[g].vram = NoVram /\ ref'[g].host # NoHost
    BY <1>12 DEF TierInv, NoVram, NoHost
  <2>1. CASE g = h
    BY <1>8, <1>10, <2>1
  <2>2. CASE g # h
    BY <1>2, <1>4, <1>10, <2>2 DEF TierInv
  <2> QED BY <2>1, <2>2
<1>14. EvictInv'
  <2>1. \A g \in evicting' : g # h /\ g \in Handles /\ g \in evicting
    BY <1>3, <1>4
  <2>2. \A g \in evicting' : ref'[g] = ref[g]
    BY <1>10, <2>1
  <2> QED BY <1>2, <1>12, <2>1, <2>2 DEF EvictInv, NoHost
<1>15. freeV' \in Seq(0..(VramCap - 1)) /\ Accounted(freeV', lost', VramOf', VramCap)
  <2>1. PICK held, holds, L : held = VramOf /\ holds = VramOf' /\ L = Live
    OBVIOUS
  <2>2. held \in [L -> 0..VramCap] /\ Accounted(freeV, lost, held, VramCap)
        /\ (\A g \in L : held[g] = ref[g].vram) /\ h \in L
    BY <1>4, <2>1
  <2>3. holds \in [L -> 0..VramCap] /\ \A g \in L : holds[g] = ref'[g].vram
    BY <1>10, <1>12, <2>1, HeldFactsNext
  <2>4. \A g \in L : holds[g] = IF g \in {h} THEN VramCap ELSE held[g]
    BY <1>4, <1>8, <1>10, <2>1, <2>2, <2>3 DEF NoVram
  <2>5. PICK q : q = <<v>>
    OBVIOUS
  <2>6. q \in Seq(0..(VramCap - 1)) /\ IsInjective(q) /\ ToSet(q) = {v}
    BY <2>5 DEF IsInjective, ToSet
  <2>7. {held[g] : g \in {h}} = {v} /\ v # VramCap
    BY <1>6, <2>2
  <2>8. ToSet(q) = {held[g] : g \in {h}} \ {VramCap}
    BY <2>6, <2>7
  <2>9. {h} \in SUBSET L /\ L \subseteq L /\ L \ {h} \subseteq L
    BY <2>2
  <2>10. freeV \o q \in Seq(0..(VramCap - 1)) /\ Accounted(freeV \o q, lost, holds, VramCap)
    <3>1. DOMAIN held = L /\ DOMAIN holds = L
      BY <2>2, <2>3
    <3>2. \E D \in SUBSET DOMAIN held :
             /\ ToSet(q) = {held[g] : g \in D} \ {VramCap}
             /\ \A g \in DOMAIN holds : g \in DOMAIN held
             /\ \A g \in DOMAIN held : g \notin D => g \in DOMAIN holds
             /\ \A g \in DOMAIN holds : holds[g] = IF g \in D THEN VramCap ELSE held[g]
      <4>1. {h} \in SUBSET DOMAIN held
        BY <2>2, <3>1
      <4> WITNESS {h} \in SUBSET DOMAIN held
      <4> QED BY <2>4, <2>8, <3>1
    <3> QED BY <1>4, <2>2, <2>6, <3>2, ReturnAccounted
  <2>11. freeV \o q = Append(freeV, v)
    BY <1>4, <2>5
  <2> QED BY <1>6, <2>1, <2>10, <2>11
<1>16. Accounted(freeH', {}, HostOf', HostCap)
  <2>1. HostOf' = HostOf
    BY <1>4, <1>11, <1>12 DEF HostOf
  <2> QED BY <1>2, <2>1 DEF PoolInv
<1> QED BY <1>8, <1>10, <1>11, <1>12, <1>13, <1>14, <1>15, <1>16 DEF PoolInv

(* The second phase of an eviction keeps the invariant.                    *)
LEMMA OwnFreeEvicted ==
  ASSUME OwnershipInv, NEW h \in Handles, FreeEvicted(h)
  PROVE  OwnershipInv'
<1>1. /\ h \in evicting /\ freeV' = Append(freeV, ref[h].vram) /\ ref' = Freed(h)
      /\ evicting' = evicting \ {h}
      /\ UNCHANGED <<chunks, unwritten, freeH, lost, vram, host, sdma, resets, conv, said>>
  BY DEF FreeEvicted, memVars
<1>2. TypeOK /\ EvictInv
  BY DEF OwnershipInv
<1>3. h \in Live /\ ref[h].tier = "Vram" /\ ref[h].host # NoHost
  BY <1>1, <1>2 DEF EvictInv, TypeOK
<1>4. /\ ref' \in [Handles -> ChunkRef] /\ freeV' \in Seq(0..(VramCap - 1)) /\ Live' = Live
      /\ ListInv' /\ TierInv' /\ EvictInv' /\ PoolInv'
  BY <1>1, <1>3, FreedFacts
<1>5. TypeOK'
  BY <1>1, <1>2, <1>4 DEF TypeOK, VramSlots
<1> QED BY <1>4, <1>5 DEF OwnershipInv

(* An eviction in one call keeps the invariant.                            *)
LEMMA OwnEvictAndFree ==
  ASSUME OwnershipInv, NEW h \in Handles, EvictAndFree(h)
  PROVE  OwnershipInv'
<1>1. /\ Evictable(h) /\ host' = [host EXCEPT ![ref[h].host] = vram[ref[h].vram]]
      /\ freeV' = Append(freeV, ref[h].vram) /\ ref' = Freed(h)
      /\ UNCHANGED <<chunks, unwritten, freeH, lost, vram, sdma, evicting, resets, conv, said>>
  BY DEF EvictAndFree, callerVars
<1>2. TypeOK /\ TierInv
  BY DEF OwnershipInv
<1>3. h \in Live /\ h \notin evicting /\ ref[h].tier = "Vram" /\ ref[h].host # NoHost
  BY <1>1 DEF Evictable
<1>4. /\ ref' \in [Handles -> ChunkRef] /\ freeV' \in Seq(0..(VramCap - 1)) /\ Live' = Live
      /\ ListInv' /\ TierInv' /\ EvictInv' /\ PoolInv'
  BY <1>1, <1>3, FreedFacts
<1>5. ref[h].vram \in VramSlots
  <2>1. ref[h].vram \in 0..VramCap
    BY <1>2, HeldFacts DEF TypeOK
  <2>2. ref[h].vram # VramCap
    BY <1>2, <1>3 DEF TierInv, NoVram
  <2> QED BY <2>1, <2>2, KvTiersAssumption DEF VramSlots
<1>6. host' \in [HostSlots -> Content]
  BY <1>1, <1>2, <1>5 DEF TypeOK
<1>7. TypeOK'
  BY <1>1, <1>2, <1>4, <1>6 DEF TypeOK, VramSlots
<1> QED BY <1>4, <1>7 DEF OwnershipInv

(* The slots of a list of handles, in order.                               *)
SlotsOf(F, list) == [i \in 1..Len(list) |-> F[list[i]]]

(* Different handles, different slots.                                     *)
LEMMA MapFacts ==
  ASSUME NEW cap \in Nat, NEW T, NEW list \in Seq(T), IsInjective(list), NEW F,
         \A x \in ToSet(list) : F[x] \in 0..(cap - 1),
         \A x, y \in ToSet(list) : F[x] = F[y] => x = y,
         NEW q, q = SlotsOf(F, list)
  PROVE  /\ q \in Seq(0..(cap - 1)) /\ IsInjective(q)
         /\ ToSet(q) = {F[x] : x \in ToSet(list)}
<1>1. Len(list) \in Nat /\ DOMAIN list = 1..Len(list)
  OBVIOUS
<1>2. \A i \in 1..Len(list) : list[i] \in ToSet(list)
  BY <1>1 DEF ToSet
<1>3. q \in Seq(0..(cap - 1)) /\ DOMAIN q = 1..Len(list) /\ \A i \in 1..Len(list) : q[i] = F[list[i]]
  BY <1>1, <1>2 DEF SlotsOf
<1>4. IsInjective(q)
  BY <1>1, <1>2, <1>3 DEF IsInjective
<1>5. ToSet(q) \subseteq {F[x] : x \in ToSet(list)}
  BY <1>2, <1>3 DEF ToSet
<1>6. ASSUME NEW x \in ToSet(list) PROVE F[x] \in ToSet(q)
  <2>1. PICK i \in 1..Len(list) : x = list[i]
    BY <1>1 DEF ToSet
  <2>2. i \in DOMAIN q /\ q[i] = F[x]
    BY <1>3, <2>1
  <2> QED BY <2>2 DEF ToSet
<1>7. {F[x] : x \in ToSet(list)} \subseteq ToSet(q)
  BY <1>6
<1> QED BY <1>3, <1>4, <1>5, <1>7

(* A reset keeps the invariant.                                            *)
LEMMA OwnReset ==
  ASSUME OwnershipInv, NEW s \in Seqs, Reset(s)
  PROVE  OwnershipInv'
<1>1. PICK inVram, backed :
      /\ resets < MaxResets
      /\ inVram = InListOrder(chunks[s], {h \in SoleOwned(s) : ref[h].tier = "Vram"})
      /\ backed = InListOrder(chunks[s], {h \in SoleOwned(s) : ref[h].host # NoHost})
      /\ freeV' = freeV \o [i \in 1..Len(inVram) |-> ref[inVram[i]].vram]
      /\ freeH' = freeH \o [i \in 1..Len(backed) |-> ref[backed[i]].host]
      /\ evicting' = evicting \ Dropped(s)
      /\ ref' = [h \in Handles |-> IF h \in Dropped(s) THEN HostChunk(NoHost) ELSE ref[h]]
      /\ chunks' = [chunks EXCEPT ![s] = <<>>]
      /\ unwritten' = [unwritten EXCEPT ![s] = FALSE]
      /\ resets' = resets + 1 /\ conv' = [conv EXCEPT ![s] = resets + 1]
      /\ said' = [said EXCEPT ![s] = <<>>]
      /\ UNCHANGED <<lost, vram, host, sdma>>
  BY DEF Reset, memVars
<1>2. TypeOK /\ ListInv /\ TierInv /\ EvictInv /\ PoolInv
  BY DEF OwnershipInv
<1>3. /\ ref \in [Handles -> ChunkRef] /\ chunks \in [Seqs -> Seq(Handles)]
      /\ unwritten \in [Seqs -> BOOLEAN] /\ said \in [Seqs -> Seq(Tokens)]
      /\ evicting \subseteq Live /\ resets \in 0..MaxResets /\ conv \in [Seqs -> 0..MaxResets]
  BY <1>2 DEF TypeOK
<1>4. /\ chunks' \in [Seqs -> Seq(Handles)]
      /\ chunks'[s] = <<>> /\ \A r \in Seqs : r # s => chunks'[r] = chunks[r]
      /\ \A r \in Seqs : r # s => LastChunk(r)' = LastChunk(r)
      /\ \A h : Owners(h)' = Owners(h) \ {s}
      /\ Live' = Live \ Dropped(s)
      /\ Dropped(s) \subseteq Live
      /\ SoleOwned(s) = Dropped(s) /\ Dropped(s) \subseteq ToSet(chunks[s])
  BY <1>1, <1>3, DropFacts
<1>5. PICK D : D = Dropped(s)
  OBVIOUS
<1>6. HostChunk(NoHost) \in ChunkRef
  BY KvTiersAssumption DEF HostChunk, ChunkRef, NoVram, NoHost
<1>7. ref' \in [Handles -> ChunkRef] /\ \A h \in Handles : h \notin D => ref'[h] = ref[h]
  BY <1>1, <1>3, <1>5, <1>6
<1>8. ASSUME NEW t \in Seqs, t # s PROVE ListOK(t)'
  <2>1. ListOK(t) /\ chunks'[t] = chunks[t] /\ unwritten'[t] = unwritten[t] /\ said'[t] = said[t]
    BY <1>1, <1>2, <1>3, <1>4, <1>8 DEF ListInv
  <2>2. \A h : unwritten[t] /\ h = LastChunk(t) => Owners(h)' = {t}
    BY <1>4, <1>8, <2>1 DEF ListOK
  <2>3. \A i \in 1..Len(chunks[t]) : chunks[t][i] \in Handles /\ chunks[t][i] \notin D
    BY <1>3, <1>5, <1>8, InList DEF Dropped
  <2>4. \A i \in 1..Len(chunks[t]) : ref'[chunks[t][i]].len = ref[chunks[t][i]].len
    BY <1>7, <2>3
  <2> QED BY <1>3, <2>1, <2>2, <2>4, ListSame
<1>9. ListOK(s)'
  <2>1. chunks'[s] = <<>> /\ ~unwritten'[s] /\ said'[s] = <<>>
    BY <1>1, <1>3, <1>4
  <2>2. SeqLen(s)' = 0
    BY <2>1 DEF SeqLen
  <2>3. IsInjective(<<>>) /\ Len(<<>>) = 0 /\ 1..(0 - 1) = {}
    BY DEF IsInjective
  <2> QED BY <2>1, <2>2, <2>3 DEF ListOK
<1>10. ListInv'
  BY <1>8, <1>9 DEF ListInv
<1>11. \A h \in Live' : h \in Live /\ h \in Handles /\ h \notin D /\ ref'[h] = ref[h]
  <2>1. Live \subseteq Handles
    BY DEF Live
  <2> QED BY <1>4, <1>5, <1>7, <2>1
<1>12. TierInv'
  BY <1>2, <1>11 DEF TierInv, NoVram, NoHost
<1>13. evicting' \subseteq Live'
  BY <1>1, <1>3, <1>4
<1>14. EvictInv'
  <2> SUFFICES ASSUME NEW h \in evicting'
               PROVE  /\ ref'[h].tier = "Vram" /\ ref'[h].host # NoHost /\ ref'[h].len = ChunkTokens
                      /\ \A t \in Seqs : unwritten'[t] => LastChunk(t)' # h
    BY DEF EvictInv, NoHost
  <2>1. h \in evicting /\ ref'[h] = ref[h]
    BY <1>1, <1>11, <1>13
  <2>2. \A t \in Seqs : unwritten'[t] => t # s /\ unwritten[t]
    BY <1>1, <1>3
  <2> QED BY <1>2, <1>4, <2>1, <2>2 DEF EvictInv
<1>15. /\ freeV \in Seq(0..(VramCap - 1)) /\ freeH \in Seq(0..(HostCap - 1))
       /\ lost \in SUBSET (0..(VramCap - 1)) /\ VramCap \in Nat /\ HostCap \in Nat
       /\ VramOf \in [Live -> 0..VramCap] /\ HostOf \in [Live -> 0..HostCap]
       /\ \A h \in Live : h \in Handles /\ VramOf[h] = ref[h].vram /\ HostOf[h] = ref[h].host
       /\ Accounted(freeV, lost, VramOf, VramCap) /\ Accounted(freeH, {}, HostOf, HostCap)
  BY PoolFacts
<1>16. /\ VramOf' \in [Live' -> 0..VramCap] /\ HostOf' \in [Live' -> 0..HostCap]
       /\ \A h \in Live' : VramOf'[h] = ref'[h].vram /\ HostOf'[h] = ref'[h].host
  BY <1>7, HeldFactsNext
<1>17. PICK c \in Seq(Handles) : c = chunks[s] /\ IsInjective(c)
  BY <1>2, <1>3 DEF ListInv, ListOK
<1>18. freeV' \in Seq(0..(VramCap - 1)) /\ Accounted(freeV', lost', VramOf', VramCap)
  <2>1. PICK held, holds, L : held = VramOf /\ holds = VramOf' /\ L = Live
    OBVIOUS
  <2>2. /\ held \in [L -> 0..VramCap] /\ Accounted(freeV, lost, held, VramCap)
        /\ \A g \in L : held[g] = ref[g].vram
        /\ D \in SUBSET L
    BY <1>4, <1>5, <1>15, <2>1
  <2>3. PICK S : S = {h \in D : ref[h].tier = "Vram"}
    OBVIOUS
  <2>4. inVram = InListOrder(c, S)
    BY <1>1, <1>4, <1>5, <1>17, <2>3
  <2>5. inVram \in Seq(Handles) /\ IsInjective(inVram) /\ ToSet(inVram) = ToSet(c) \cap S
    BY <1>17, <2>4, ListOrder
  <2>6. ToSet(inVram) = S
    BY <1>4, <1>5, <1>17, <2>3, <2>5
  <2>7. S = {h \in D : held[h] # VramCap}
    <3>1. ASSUME NEW h \in D PROVE ref[h].tier = "Vram" <=> held[h] # VramCap
      <4>1. h \in Live /\ held[h] = ref[h].vram
        BY <2>1, <2>2, <3>1
      <4> QED BY <1>2, <4>1 DEF TierInv, NoVram
    <3> QED BY <2>3, <3>1
  <2>8. PICK q : q = SlotsOf(held, inVram)
    OBVIOUS
  <2>9. DOMAIN inVram = 1..Len(inVram) /\ \A i \in 1..Len(inVram) : inVram[i] \in L
    <3>1. DOMAIN inVram = 1..Len(inVram)
      BY <2>5
    <3>2. \A i \in 1..Len(inVram) : inVram[i] \in ToSet(inVram)
      BY <3>1 DEF ToSet
    <3> QED BY <2>2, <2>3, <2>6, <3>1, <3>2
  <2>10. inVram \in Seq(L)
    BY <2>5, <2>9
  <2>11. q \in Seq(0..(VramCap - 1)) /\ IsInjective(q) /\ ToSet(q) = {held[g] : g \in D} \ {VramCap}
    <3>1. \A h \in ToSet(inVram) : h \in L /\ held[h] # VramCap
      BY <2>2, <2>6, <2>7
    <3>2. VramCap \in Nat /\ IsInjective(inVram) /\ DOMAIN held = L
      BY <1>15, <2>2, <2>5
    <3>3. \A h \in ToSet(inVram) : held[h] \in 0..(VramCap - 1)
      BY <2>2, <3>1, <3>2
    <3>4. \A g, h \in ToSet(inVram) : held[g] = held[h] => g = h
      BY <2>2, <3>1, <3>2 DEF Accounted
    <3>5. q \in Seq(0..(VramCap - 1)) /\ IsInjective(q) /\ ToSet(q) = {held[h] : h \in ToSet(inVram)}
      BY <2>8, <2>10, <3>2, <3>3, <3>4, MapFacts
    <3>6. {held[h] : h \in ToSet(inVram)} = {held[g] : g \in D} \ {VramCap}
      BY <2>6, <2>7
    <3> QED BY <3>5, <3>6
  <2>12. freeV' = freeV \o q
    BY <1>1, <2>2, <2>8, <2>9 DEF SlotsOf
  <2>13. DOMAIN held = L /\ DOMAIN holds = Live'
    BY <1>16, <2>1, <2>2
  <2>14. \E E \in SUBSET DOMAIN held :
             /\ ToSet(q) = {held[g] : g \in E} \ {VramCap}
             /\ \A g \in DOMAIN holds : g \in DOMAIN held
             /\ \A g \in DOMAIN held : g \notin E => g \in DOMAIN holds
             /\ \A g \in DOMAIN holds : holds[g] = IF g \in E THEN VramCap ELSE held[g]
    <3>1. D \in SUBSET DOMAIN held
      BY <2>2, <2>13
    <3>2. \A g \in Live' : g \in L /\ g \notin D /\ holds[g] = held[g]
      BY <1>11, <1>16, <2>1, <2>2
    <3>3. \A g \in L : g \notin D => g \in Live'
      BY <1>4, <1>5, <2>1
    <3> WITNESS D \in SUBSET DOMAIN held
    <3> QED BY <2>11, <2>13, <3>2, <3>3
  <2>15. freeV \o q \in Seq(0..(VramCap - 1)) /\ Accounted(freeV \o q, lost, holds, VramCap)
    BY <1>15, <2>2, <2>11, <2>14, ReturnAccounted
  <2> QED BY <1>1, <2>1, <2>12, <2>15
<1>19. freeH' \in Seq(0..(HostCap - 1)) /\ Accounted(freeH', {}, HostOf', HostCap)
  <2>1. PICK held, holds, L : held = HostOf /\ holds = HostOf' /\ L = Live
    OBVIOUS
  <2>2. /\ held \in [L -> 0..HostCap] /\ Accounted(freeH, {}, held, HostCap)
        /\ \A g \in L : held[g] = ref[g].host
        /\ D \in SUBSET L
    BY <1>4, <1>5, <1>15, <2>1
  <2>3. PICK S : S = {h \in D : ref[h].host # NoHost}
    OBVIOUS
  <2>4. backed = InListOrder(c, S)
    BY <1>1, <1>4, <1>5, <1>17, <2>3
  <2>5. backed \in Seq(Handles) /\ IsInjective(backed) /\ ToSet(backed) = ToSet(c) \cap S
    BY <1>17, <2>4, ListOrder
  <2>6. ToSet(backed) = S
    BY <1>4, <1>5, <1>17, <2>3, <2>5
  <2>7. S = {h \in D : held[h] # HostCap}
    BY <2>2, <2>3 DEF NoHost
  <2>8. PICK q : q = SlotsOf(held, backed)
    OBVIOUS
  <2>9. DOMAIN backed = 1..Len(backed) /\ \A i \in 1..Len(backed) : backed[i] \in L
    <3>1. DOMAIN backed = 1..Len(backed)
      BY <2>5
    <3>2. \A i \in 1..Len(backed) : backed[i] \in ToSet(backed)
      BY <3>1 DEF ToSet
    <3> QED BY <2>2, <2>3, <2>6, <3>1, <3>2
  <2>10. backed \in Seq(L)
    BY <2>5, <2>9
  <2>11. q \in Seq(0..(HostCap - 1)) /\ IsInjective(q) /\ ToSet(q) = {held[g] : g \in D} \ {HostCap}
    <3>1. \A h \in ToSet(backed) : h \in L /\ held[h] # HostCap
      BY <2>2, <2>6, <2>7
    <3>2. HostCap \in Nat /\ IsInjective(backed) /\ DOMAIN held = L
      BY <1>15, <2>2, <2>5
    <3>3. \A h \in ToSet(backed) : held[h] \in 0..(HostCap - 1)
      BY <2>2, <3>1, <3>2
    <3>4. \A g, h \in ToSet(backed) : held[g] = held[h] => g = h
      BY <2>2, <3>1, <3>2 DEF Accounted
    <3>5. q \in Seq(0..(HostCap - 1)) /\ IsInjective(q) /\ ToSet(q) = {held[h] : h \in ToSet(backed)}
      BY <2>8, <2>10, <3>2, <3>3, <3>4, MapFacts
    <3>6. {held[h] : h \in ToSet(backed)} = {held[g] : g \in D} \ {HostCap}
      BY <2>6, <2>7
    <3> QED BY <3>5, <3>6
  <2>12. freeH' = freeH \o q
    BY <1>1, <2>2, <2>8, <2>9 DEF SlotsOf
  <2>13. DOMAIN held = L /\ DOMAIN holds = Live'
    BY <1>16, <2>1, <2>2
  <2>14. \E E \in SUBSET DOMAIN held :
             /\ ToSet(q) = {held[g] : g \in E} \ {HostCap}
             /\ \A g \in DOMAIN holds : g \in DOMAIN held
             /\ \A g \in DOMAIN held : g \notin E => g \in DOMAIN holds
             /\ \A g \in DOMAIN holds : holds[g] = IF g \in E THEN HostCap ELSE held[g]
    <3>1. D \in SUBSET DOMAIN held
      BY <2>2, <2>13
    <3>2. \A g \in Live' : g \in L /\ g \notin D /\ holds[g] = held[g]
      BY <1>11, <1>16, <2>1, <2>2
    <3>3. \A g \in L : g \notin D => g \in Live'
      BY <1>4, <1>5, <2>1
    <3> WITNESS D \in SUBSET DOMAIN held
    <3> QED BY <2>11, <2>13, <3>2, <3>3
  <2>15. freeH \o q \in Seq(0..(HostCap - 1)) /\ Accounted(freeH \o q, {}, holds, HostCap)
    BY <1>15, <2>2, <2>11, <2>14, ReturnAccounted
  <2> QED BY <2>1, <2>12, <2>15
<1>20. /\ resets' \in 0..MaxResets /\ conv' \in [Seqs -> 0..MaxResets]
       /\ said' \in [Seqs -> Seq(Tokens)] /\ unwritten' \in [Seqs -> BOOLEAN]
  <2>1. resets + 1 \in 0..MaxResets
    BY <1>1, <1>3, KvTiersAssumption
  <2> QED BY <1>1, <1>3, <2>1
<1>21. TypeOK'
  BY <1>1, <1>2, <1>4, <1>7, <1>13, <1>18, <1>19, <1>20 DEF TypeOK, VramSlots, HostSlots
<1> QED BY <1>10, <1>12, <1>14, <1>18, <1>19, <1>21 DEF OwnershipInv, PoolInv

(* The invariant holds at the start.                                       *)
LEMMA OwnInit ==
  ASSUME Init PROVE OwnershipInv
<1>1. \A h : Owners(h) = {}
  <2>1. \A s \in Seqs : Len(chunks[s]) = 0
    BY DEF Init
  <2> QED BY <2>1 DEF Owners
<1>2. Live = {}
  BY <1>1, LiveOwned
<1>3. \A n \in Nat : /\ [i \in 1..n |-> n - i] \in Seq(0..(n - 1))
                     /\ IsInjective([i \in 1..n |-> n - i])
                     /\ \A v \in 0..(n - 1) : v \in ToSet([i \in 1..n |-> n - i])
  <2> SUFFICES ASSUME NEW n \in Nat, NEW q, q = [i \in 1..n |-> n - i]
               PROVE  /\ q \in Seq(0..(n - 1)) /\ IsInjective(q)
                      /\ \A v \in 0..(n - 1) : v \in ToSet(q)
    OBVIOUS
  <2>1. \A i \in 1..n : n - i \in 0..(n - 1)
    OBVIOUS
  <2>2. q \in Seq(0..(n - 1)) /\ DOMAIN q = 1..n
    BY <2>1
  <2>3. IsInjective(q)
    BY <2>2 DEF IsInjective
  <2>4. ASSUME NEW v \in 0..(n - 1) PROVE v \in ToSet(q)
    <3>1. n - v \in 1..n /\ n - (n - v) = v
      OBVIOUS
    <3>2. q[n - v] = v
      BY <3>1
    <3> QED BY <2>2, <3>1, <3>2 DEF ToSet
  <2> QED BY <2>2, <2>3, <2>4
<1>4. /\ freeV \in Seq(VramSlots) /\ IsInjective(freeV)
      /\ \A v \in 0..(VramCap - 1) : v \in ToSet(freeV)
  BY <1>3, KvTiersAssumption DEF Init, VramSlots
<1>5. /\ freeH \in Seq(HostSlots) /\ IsInjective(freeH)
      /\ \A v \in 0..(HostCap - 1) : v \in ToSet(freeH)
  BY <1>3, KvTiersAssumption DEF Init, HostSlots
<1>6. DOMAIN VramOf = {} /\ DOMAIN HostOf = {}
  BY <1>2 DEF VramOf, HostOf
<1>7. PoolInv
  BY <1>4, <1>5, <1>6 DEF PoolInv, Accounted, Init
<1>8. TypeOK
  <2>1. HostChunk(NoHost) \in ChunkRef /\ NoData \in Content
    BY KvTiersAssumption DEF HostChunk, ChunkRef, NoVram, NoHost, NoData, Content
  <2>2. 0 \in 0..MaxResets /\ <<>> \in Seq(Handles) /\ <<>> \in Seq(Tokens) /\ <<>> \in Seq(Copy)
    BY KvTiersAssumption
  <2> QED BY <1>4, <1>5, <2>1, <2>2 DEF TypeOK, Init
<1>9. ListInv
  <2>1. IsInjective(<<>>) /\ Len(<<>>) = 0 /\ 1..(0 - 1) = {}
    BY DEF IsInjective
  <2> QED BY <2>1 DEF ListInv, ListOK, Init, SeqLen
<1>10. TierInv /\ EvictInv
  BY <1>2 DEF TierInv, EvictInv, Init
<1> QED BY <1>7, <1>8, <1>9, <1>10 DEF OwnershipInv

(* Every step keeps the invariant.                                         *)
LEMMA OwnNext ==
  ASSUME OwnershipInv, [Next]_vars
  PROVE  OwnershipInv'
<1>1. ASSUME NEW s \in Seqs, AllocWithHostBacking(s) PROVE OwnershipInv'
  BY <1>1, OwnAlloc
<1>2. ASSUME NEW s \in Seqs, AppendToken(s) PROVE OwnershipInv'
  BY <1>2, OwnAppend
<1>3. ASSUME NEW s \in Seqs, MakeExclusive(s) PROVE OwnershipInv'
  BY <1>3, OwnExclusive
<1>4. ASSUME NEW s \in Seqs, Reset(s) PROVE OwnershipInv'
  BY <1>4, OwnReset
<1>5. ASSUME NEW s \in Seqs, Dispatch(s) PROVE OwnershipInv'
  BY <1>5, OwnDispatch
<1>6. ASSUME NEW s \in Seqs, NEW t \in Seqs \ {s}, Fork(s, t) PROVE OwnershipInv'
  BY <1>6, OwnFork
<1>7. ASSUME NEW h \in Handles, Promote(h) PROVE OwnershipInv'
  BY <1>7, OwnPromote
<1>8. ASSUME NEW h \in Handles, Evict(h) PROVE OwnershipInv'
  BY <1>8, OwnEvict
<1>9. ASSUME NEW h \in Handles, FreeEvicted(h) PROVE OwnershipInv'
  BY <1>9, OwnFreeEvicted
<1>10. ASSUME NEW h \in Handles, EvictAndFree(h) PROVE OwnershipInv'
  BY <1>10, OwnEvictAndFree
<1>11. CASE RunCopy
  BY <1>11, OwnRunCopy
<1>12. CASE UNCHANGED vars
  <2>1. UNCHANGED <<ref, chunks, unwritten, freeV, freeH, lost, vram, host, sdma,
                    evicting, resets, conv, said>>
    BY <1>12 DEF vars, handleVars, poolVars, memVars, callerVars
  <2>2. ListInv' /\ TierInv' /\ PoolInv' /\ Live' = Live
    BY <2>1, HandlesSame
  <2>3. EvictInv' /\ TypeOK'
    BY <2>1, <2>2 DEF OwnershipInv, EvictInv, LastChunk, NoHost, TypeOK
  <2> QED BY <2>2, <2>3 DEF OwnershipInv
<1> QED BY <1>1, <1>2, <1>3, <1>4, <1>5, <1>6, <1>7, <1>8, <1>9, <1>10, <1>11, <1>12 DEF Next

(* The ownership part of the invariant is inductive: lists, tiers,         *)
(* evictions and pools agree in every reachable state.                     *)
THEOREM OwnershipInvariant == Spec => []OwnershipInv
<1>1. Init => OwnershipInv
  BY OwnInit
<1>2. OwnershipInv /\ [Next]_vars => OwnershipInv'
  BY OwnNext
<1> QED BY <1>1, <1>2, PTL DEF Spec

(* Every slot of both pools is on the free list once, held by one live     *)
(* chunk, or lost to a failed copy-on-write: PageAllocator::free never     *)
(* sees a slot twice, and no slot is dropped.                              *)
THEOREM SlotsTheorem == Spec => []SlotsAccountedFor
<1>1. ASSUME OwnershipInv PROVE SlotsAccountedFor
  <2>1. /\ VramCap \in Nat /\ HostCap \in Nat
        /\ VramOf \in [Live -> 0..VramCap] /\ HostOf \in [Live -> 0..HostCap]
        /\ \A h \in Live : VramOf[h] = ref[h].vram /\ HostOf[h] = ref[h].host
        /\ Accounted(freeV, lost, VramOf, VramCap) /\ Accounted(freeH, {}, HostOf, HostCap)
    BY <1>1, PoolFacts
  <2>2. IsInjective(freeV) /\ IsInjective(freeH)
    BY <2>1 DEF Accounted
  <2>3. ASSUME NEW v \in VramSlots
        PROVE  (IF v \in ToSet(freeV) THEN 1 ELSE 0) + (IF v \in lost THEN 1 ELSE 0)
                 + Cardinality({h \in Live : ref[h].vram = v}) = 1
    <3>1. v \in 0..(VramCap - 1)
      BY <2>3 DEF VramSlots
    <3>2. {h \in Live : ref[h].vram = v} = {h \in Live : VramOf[h] = v}
      BY <2>1
    <3> QED BY <2>1, <3>1, <3>2, Adds
  <2>4. ASSUME NEW n \in HostSlots
        PROVE  (IF n \in ToSet(freeH) THEN 1 ELSE 0)
                 + Cardinality({h \in Live : ref[h].host = n}) = 1
    <3>1. n \in 0..(HostCap - 1)
      BY <2>4 DEF HostSlots
    <3>2. {h \in Live : ref[h].host = n} = {h \in Live : HostOf[h] = n}
      BY <2>1
    <3>3. (IF n \in ToSet(freeH) THEN 1 ELSE 0) + (IF n \in {} THEN 1 ELSE 0)
            + Cardinality({h \in Live : HostOf[h] = n}) = 1
      BY <2>1, <3>1, Adds
    <3> QED BY <3>2, <3>3
  <2> QED BY <2>2, <2>3, <2>4 DEF SlotsAccountedFor
<1> QED BY <1>1, OwnershipInvariant, PTL

-----------------------------------------------------------------------------
(* Where a token lies                                                      *)

(* A product with one more.                                                *)
LEMMA ProductNext ==
  ASSUME NEW c \in Nat, NEW n \in Nat
  PROVE  (n + 1) * c = n * c + c /\ n * c \in Nat
OBVIOUS

(* Products grow with their first factor.                                  *)
LEMMA ProductMonotone ==
  ASSUME NEW c \in Nat, NEW m \in Nat, NEW n \in Nat, m <= n
  PROVE  m * c <= n * c /\ m * c \in Nat /\ n * c \in Nat
<1>1. PICK d \in Nat : n = m + d
  <2>1. n - m \in Nat /\ n = m + (n - m)
    OBVIOUS
  <2> QED BY <2>1
<1>2. n * c = m * c + d * c
  BY <1>1
<1>3. m * c \in Nat /\ d * c \in Nat /\ n * c \in Nat
  OBVIOUS
<1> QED BY <1>2, <1>3

(* Index, chunk and offset of a token.                                     *)
LEMMA DivMod ==
  ASSUME NEW c \in Nat \ {0}, NEW i \in Nat
  PROVE  /\ i \div c \in Nat /\ i % c \in 0..(c - 1)
         /\ i = (i \div c) * c + (i % c)
<1> c > 0 OBVIOUS
<1>1. i \div c \in Nat /\ i % c \in 0..(c - 1)
  OBVIOUS
<1>2. i = c * (i \div c) + (i % c)
  OBVIOUS
<1>3. c * (i \div c) = (i \div c) * c
  BY <1>1
<1> QED BY <1>1, <1>2, <1>3

(* A token among n full chunks is in one of them; in the last one its      *)
(* offset is what is left.                                                 *)
LEMMA PlaceFacts ==
  ASSUME NEW c \in Nat \ {0}, NEW i \in Nat, NEW e \in Nat, NEW b \in Nat, b = e * c,
         NEW l \in 0..c, i < b + l
  PROVE  /\ i \div c \in 0..e /\ i % c \in 0..(c - 1) /\ i = (i \div c) * c + (i % c)
         /\ i \div c = e => i = b + (i % c)
         /\ l > 0 /\ i = b + l - 1 => i \div c = e
<1> DEFINE d == i \div c   m == i % c
<1>1. d \in Nat /\ m \in 0..(c - 1) /\ i = d * c + m
  BY DivMod
<1>3. i < e * c + l /\ e * c \in Nat /\ d * c \in Nat
  <2> HIDE DEF d, m
  <2> QED BY <1>1
<1> HIDE DEF d, m
<1>4. ~(e < d)
  <2> SUFFICES ASSUME e < d PROVE FALSE
    OBVIOUS
  <2>1. (e + 1) * c <= d * c
    BY <1>1, ProductMonotone
  <2>2. (e + 1) * c = e * c + c
    BY ProductNext
  <2> QED BY <1>1, <1>3, <2>1, <2>2
<1>5. d \in 0..e
  BY <1>1, <1>4
<1>6. d = e => i = b + m
  BY <1>1
<1>7. ASSUME l > 0, i = b + l - 1 PROVE d = e
  <2> SUFFICES ASSUME d < e PROVE FALSE
    BY <1>5
  <2>1. (d + 1) * c <= e * c
    BY <1>1, ProductMonotone
  <2>2. (d + 1) * c = d * c + c
    BY <1>1, ProductNext
  <2> QED BY <1>1, <1>3, <1>7, <2>1, <2>2
<1> QED BY <1>1, <1>5, <1>6, <1>7 DEF d, m

(* A written token is in the list of its sequence, within its chunk.       *)
LEMMA TokenPlace ==
  ASSUME OwnershipInv, NEW s \in Seqs, NEW i \in 1..Len(said[s])
  PROVE  /\ said[s][i] \in Tokens /\ Offset(i) \in 1..ChunkTokens /\ chunks[s] # <<>>
         /\ ChunkOf(s, i) \in Live /\ s \in Owners(ChunkOf(s, i))
         /\ \E k \in 1..Len(chunks[s]) :
               /\ k = ((i - 1) \div ChunkTokens) + 1 /\ ChunkOf(s, i) = chunks[s][k]
               /\ k = Len(chunks[s]) =>
                     /\ Offset(i) <= ref[LastChunk(s)].len
                     /\ unwritten[s] => Offset(i) < ref[LastChunk(s)].len
<1>1. /\ chunks \in [Seqs -> Seq(Handles)] /\ said \in [Seqs -> Seq(Tokens)]
      /\ ref \in [Handles -> ChunkRef] /\ ListOK(s)
  BY DEF OwnershipInv, TypeOK, ListInv
<1>2. said[s] \in Seq(Tokens) /\ Len(said[s]) \in Nat /\ said[s][i] \in Tokens
  BY <1>1
<1>3. SeqLen(s) >= i /\ (unwritten[s] => SeqLen(s) - 1 >= i) /\ SeqLen(s) \in Nat
  <2>1. CASE unwritten[s]
    <3>1. SeqLen(s) = Len(said[s]) + 1
      BY <2>1 DEF SeqLen
    <3> QED BY <1>2, <3>1
  <2>2. CASE ~unwritten[s]
    <3>1. SeqLen(s) = Len(said[s]) + 0
      BY <2>2 DEF SeqLen
    <3> QED BY <1>2, <2>2, <3>1
  <2> QED BY <2>1, <2>2
<1>4. chunks[s] # <<>>
  BY <1>1, <1>3 DEF ListOK
<1>5. LastChunk(s) \in Handles /\ Len(chunks[s]) \in Nat /\ Len(chunks[s]) > 0
  BY <1>1, <1>4, InList
<1>6. PICK l \in 0..ChunkTokens : l = ref[LastChunk(s)].len
  BY <1>1, <1>5, HeldFacts
<1>7. PICK n \in Nat : n = Len(chunks[s]) /\ n > 0
  BY <1>5
<1>8. SeqLen(s) = (n - 1) * ChunkTokens + l
  BY <1>1, <1>4, <1>6, <1>7 DEF ListOK
<1>9. PICK c \in Nat \ {0} : c = ChunkTokens
  BY KvTiersAssumption
<1>10. PICK j \in Nat : j = i - 1
  OBVIOUS
<1>11. PICK e \in Nat, q \in Nat : e = n - 1 /\ q = e * c
  <2>1. n - 1 \in Nat /\ (n - 1) * c \in Nat
    BY <1>7
  <2> QED BY <2>1
<1>12. SeqLen(s) = q + l /\ j < q + l /\ (unwritten[s] => j + 1 < q + l)
  BY <1>3, <1>8, <1>9, <1>10, <1>11
<1>13. j \div c \in 0..e /\ j % c \in 0..(c - 1) /\ (j \div c = e => j = q + (j % c))
  BY <1>9, <1>11, <1>12, PlaceFacts
<1>14. j \div c = e => j % c < l /\ (unwritten[s] => (j % c) + 1 < l)
  <2>1. PICK m \in 0..(c - 1) : m = j % c
    BY <1>13
  <2> QED BY <1>12, <1>13, <2>1
<1>15. Offset(i) = (j % c) + 1 /\ ChunkOf(s, i) = chunks[s][(j \div c) + 1]
  BY <1>9, <1>10 DEF Offset, ChunkOf
<1>16. PICK k \in Nat, m \in 0..(c - 1) : k = (j \div c) + 1 /\ m = j % c
  BY <1>13
<1>17. k \in 1..n /\ (k = n => m + 1 <= l /\ (unwritten[s] => m + 1 < l)) /\ m + 1 \in 1..c
  BY <1>7, <1>11, <1>13, <1>14, <1>16
<1>18. ChunkOf(s, i) = chunks[s][k] /\ Offset(i) = m + 1 /\ k \in 1..Len(chunks[s])
  BY <1>7, <1>15, <1>16, <1>17
<1>19. ChunkOf(s, i) \in Live /\ s \in Owners(ChunkOf(s, i))
  BY <1>1, <1>18, InList
<1>20. k = ((i - 1) \div ChunkTokens) + 1
  BY <1>9, <1>10, <1>16
<1> QED BY <1>2, <1>4, <1>6, <1>7, <1>9, <1>17, <1>18, <1>19, <1>20

(* The token of a step is the next one of the last chunk.                  *)
LEMMA NextPlace ==
  ASSUME OwnershipInv, NEW s \in Seqs, unwritten[s]
  PROVE  /\ ChunkOf(s, Len(said[s]) + 1) = LastChunk(s)
         /\ Offset(Len(said[s]) + 1) = ref[LastChunk(s)].len
         /\ ref[LastChunk(s)].len \in 1..ChunkTokens
<1>1. /\ chunks \in [Seqs -> Seq(Handles)] /\ said \in [Seqs -> Seq(Tokens)]
      /\ ref \in [Handles -> ChunkRef] /\ ListOK(s)
  BY DEF OwnershipInv, TypeOK, ListInv
<1>2. Len(said[s]) \in Nat /\ SeqLen(s) = Len(said[s]) + 1
  BY <1>1 DEF SeqLen
<1>3. chunks[s] # <<>> /\ ref[LastChunk(s)].len > 0
  BY <1>1 DEF ListOK
<1>4. LastChunk(s) \in Handles /\ Len(chunks[s]) \in Nat /\ Len(chunks[s]) > 0
  BY <1>1, <1>3, InList
<1>5. PICK l \in 0..ChunkTokens : l = ref[LastChunk(s)].len /\ l > 0
  BY <1>1, <1>3, <1>4, HeldFacts
<1>6. PICK n \in Nat : n = Len(chunks[s]) /\ n > 0
  BY <1>4
<1>7. PICK c \in Nat \ {0} : c = ChunkTokens
  BY KvTiersAssumption
<1>8. PICK j \in Nat : j = Len(said[s])
  BY <1>2
<1>9. PICK e \in Nat, q \in Nat : e = n - 1 /\ q = e * c
  <2>1. n - 1 \in Nat /\ (n - 1) * c \in Nat
    BY <1>6
  <2> QED BY <2>1
<1>10. j + 1 = q + l
  BY <1>1, <1>2, <1>3, <1>5, <1>6, <1>7, <1>8, <1>9 DEF ListOK
<1>11. j < q + l /\ j = q + l - 1 /\ l \in 0..c /\ l > 0
  BY <1>5, <1>7, <1>10
<1>12. j \div c = n - 1 /\ j % c = l - 1
  <2>1. /\ j % c \in 0..(c - 1) /\ (j \div c = e => j = q + (j % c))
        /\ l > 0 /\ j = q + l - 1 => j \div c = e
    BY <1>9, <1>11, PlaceFacts
  <2>2. PICK m \in 0..(c - 1) : m = j % c
    BY <2>1
  <2> QED BY <1>9, <1>11, <2>1, <2>2
<1>13. (j + 1) - 1 = j /\ (n - 1) + 1 = n /\ (l - 1) + 1 = l
  BY <1>5, <1>7
<1>14. ChunkOf(s, j + 1) = chunks[s][n] /\ Offset(j + 1) = l
  BY <1>7, <1>12, <1>13 DEF ChunkOf, Offset
<1> QED BY <1>5, <1>6, <1>7, <1>8, <1>14 DEF LastChunk

-----------------------------------------------------------------------------
(* What a slot will hold                                                   *)

(* At most one value.                                                      *)
LEMMA HasOnly ==
  ASSUME NEW F \in SUBSET Nat, NEW k \in Nat, NEW now, NEW p, NEW o, NEW x, NEW y,
         Has(now, F, p, k, o, x), Has(now, F, p, k, o, y)
  PROVE  x = y
<1>1. CASE \A j \in F : j >= k
  <2>1. ~\E j \in F : j < k
    BY <1>1
  <2> QED BY <2>1 DEF Has
<1>2. CASE ~\A j \in F : j >= k
  <2>1. PICK i \in F : i < k /\ p[i][o] = x /\ \A e \in F : e < k => e <= i
    BY <1>2 DEF Has
  <2>2. PICK j \in F : j < k /\ p[j][o] = y /\ \A e \in F : e < k => e <= j
    BY <1>2 DEF Has
  <2>3. i = j
    BY <2>1, <2>2
  <2> QED BY <2>1, <2>2, <2>3
<1> QED BY <1>1, <1>2

(* The same copies before k as before l, bringing the same.                *)
SameBefore(F, k, G, l) == \A j \in Nat : (j \in F /\ j < k) <=> (j \in G /\ j < l)
BringSame(F, k, p, q, o, x) == \A j \in F : j < k /\ p[j][o] = x => q[j][o] = x

(* It depends on the copies that come before, and on what they bring.      *)
LEMMA HasSame ==
  ASSUME NEW F \in SUBSET Nat, NEW G \in SUBSET Nat, NEW k \in Nat, NEW l \in Nat,
         NEW now, NEW then, NEW p, NEW q, NEW o, NEW x, Has(now, F, p, k, o, x),
         SameBefore(F, k, G, l), now = x => then = x, BringSame(F, k, p, q, o, x)
  PROVE  Has(then, G, q, l, o, x)
<1> USE DEF SameBefore, BringSame
<1>1. CASE now = x /\ \A j \in F : j >= k
  <2>1. \A j \in G : j >= l
    BY <1>1
  <2> QED BY <1>1, <2>1 DEF Has
<1>2. CASE \E j \in F : j < k /\ p[j][o] = x /\ \A i \in F : i < k => i <= j
  <2>1. PICK j \in F : j < k /\ p[j][o] = x /\ \A i \in F : i < k => i <= j
    BY <1>2
  <2>2. j \in G /\ j < l /\ q[j][o] = x
    BY <2>1
  <2>3. \A i \in G : i < l => i <= j
    BY <2>1
  <2> QED BY <2>2, <2>3 DEF Has
<1> QED BY <1>1, <1>2 DEF Has

(* The last copy decides.                                                  *)
LEMMA HasLast ==
  ASSUME NEW F \in SUBSET Nat, NEW k \in F, NEW now, NEW p, NEW o, NEW x, p[k][o] = x
  PROVE  Has(now, F, p, k + 1, o, x)
<1>1. k < k + 1 /\ \A i \in F : i < k + 1 => i <= k
  OBVIOUS
<1> QED BY <1>1 DEF Has

(* The first copy has run: the others have moved up with their promises,   *)
(* and a place it filled has what it brought.                              *)
MovedUp(F, G) ==
    /\ F \in SUBSET Nat /\ G \in SUBSET Nat /\ 0 \notin F
    /\ \A j \in Nat : j \in G <=> j >= 1 /\ j + 1 \in F
BringMovedUp(G, p, q, o) == \A j \in G : q[j][o] = p[j + 1][o]
FirstDone(F, p, o, x, now, then) == /\ 1 \notin F => then = now
                                    /\ 1 \in F /\ p[1][o] = x => then = x
OneLess(k, l) == k \in Nat /\ l \in Nat /\ k = l + 1 /\ l >= 1

(* What was to be there before copy k is to be there before copy k - 1.    *)
LEMMA HasShift ==
  ASSUME NEW F, NEW G, MovedUp(F, G), NEW k, NEW l, OneLess(k, l),
         NEW now, NEW then, NEW p, NEW q, NEW o, NEW x, Has(now, F, p, k, o, x),
         BringMovedUp(G, p, q, o), FirstDone(F, p, o, x, now, then)
  PROVE  Has(then, G, q, l, o, x)
<1> USE DEF MovedUp, BringMovedUp, FirstDone, OneLess
<1> l = k - 1
  OBVIOUS
<1>1. CASE now = x /\ \A j \in F : j >= k
  <2>1. 1 \notin F
    BY <1>1
  <2>2. ASSUME NEW j \in G PROVE j >= k - 1
    <3>1. j \in Nat /\ j + 1 \in F
      BY <2>2
    <3> QED BY <1>1, <3>1
  <2> QED BY <1>1, <2>1, <2>2 DEF Has
<1>2. CASE \E j \in F : j < k /\ p[j][o] = x /\ \A i \in F : i < k => i <= j
  <2>1. PICK j \in F : j < k /\ p[j][o] = x /\ \A i \in F : i < k => i <= j
    BY <1>2
  <2>2. CASE j = 1
    <3>1. then = x
      BY <2>1, <2>2
    <3>2. ASSUME NEW i \in G PROVE i >= k - 1
      <4>1. i + 1 \in F /\ i >= 1 /\ i \in Nat
        BY <3>2
      <4>2. ~(i + 1 < k)
        BY <2>1, <2>2, <4>1
      <4> QED BY <4>1, <4>2
    <3> QED BY <3>1, <3>2 DEF Has
  <2>3. CASE j # 1
    <3>1. j - 1 \in Nat /\ j - 1 >= 1 /\ (j - 1) + 1 = j
      BY <2>3
    <3>2. j - 1 \in G /\ j - 1 < k - 1
      BY <2>1, <3>1
    <3>3. q[j - 1][o] = x
      BY <2>1, <3>1, <3>2
    <3>4. ASSUME NEW i \in G, i < k - 1 PROVE i <= j - 1
      <4>1. i + 1 \in F /\ i \in Nat /\ i + 1 < k
        BY <3>4
      <4>2. i + 1 <= j
        BY <2>1, <4>1
      <4> QED BY <4>1, <4>2
    <3> QED BY <3>2, <3>3, <3>4 DEF Has
  <2> QED BY <2>2, <2>3
<1> QED BY <1>1, <1>2 DEF Has

(* What the fillers of a slot are.                                         *)
LEMMA FillersFacts ==
  ASSUME sdma \in Seq(Copy), NEW v
  PROVE  /\ Len(sdma) \in Nat
         /\ FillersV(v) \in SUBSET Nat /\ FillersH(v) \in SUBSET Nat
         /\ 0 \notin FillersV(v) /\ 0 \notin FillersH(v)
         /\ \A j \in FillersV(v) : j \in 1..Len(sdma) /\ j < Len(sdma) + 1
         /\ \A j \in FillersH(v) : j \in 1..Len(sdma) /\ j < Len(sdma) + 1
<1>1. Len(sdma) \in Nat
  OBVIOUS
<1>2. \A j \in 1..Len(sdma) : j \in Nat /\ j # 0 /\ j < Len(sdma) + 1
  BY <1>1
<1>3. FillersV(v) \subseteq 1..Len(sdma) /\ FillersH(v) \subseteq 1..Len(sdma)
  BY DEF FillersV, FillersH
<1> QED BY <1>1, <1>2, <1>3

(* A copy issued.                                                          *)
LEMMA FillersIssued ==
  ASSUME sdma \in Seq(Copy), NEW c \in Copy, sdma' = Append(sdma, c), NEW v
  PROVE  /\ Len(sdma') = Len(sdma) + 1 /\ sdma'[Len(sdma) + 1] = c
         /\ \A j \in 1..Len(sdma) : sdma'[j] = sdma[j] /\ j # Len(sdma) + 1
         /\ FillersV(v)' \in SUBSET Nat /\ FillersH(v)' \in SUBSET Nat
         /\ \A j : j \in FillersV(v)' <=>
               j \in FillersV(v) \/ (j = Len(sdma) + 1 /\ c.kind # "D2H" /\ c.dst = v)
         /\ \A j : j \in FillersH(v)' <=>
               j \in FillersH(v) \/ (j = Len(sdma) + 1 /\ c.kind = "D2H" /\ c.dst = v)
<1>1. PICK n \in Nat : n = Len(sdma)
  OBVIOUS
<1>2. /\ Len(sdma') = n + 1 /\ sdma'[n + 1] = c
      /\ \A j \in 1..n : sdma'[j] = sdma[j]
  BY <1>1
<1>3. \A j : j \in 1..(n + 1) <=> j \in 1..n \/ j = n + 1
  BY <1>1
<1>4. \A j \in 1..n : j # n + 1
  BY <1>1
<1>5. \A j : j \in FillersV(v)' <=>
         j \in FillersV(v) \/ (j = n + 1 /\ c.kind # "D2H" /\ c.dst = v)
  BY <1>1, <1>2, <1>3, <1>4 DEF FillersV
<1>6. \A j : j \in FillersH(v)' <=>
         j \in FillersH(v) \/ (j = n + 1 /\ c.kind = "D2H" /\ c.dst = v)
  BY <1>1, <1>2, <1>3, <1>4 DEF FillersH
<1>7. FillersV(v) \in SUBSET Nat /\ FillersH(v) \in SUBSET Nat /\ n + 1 \in Nat
  BY <1>1, FillersFacts
<1> QED BY <1>1, <1>2, <1>4, <1>5, <1>6, <1>7

(* A copy done.                                                            *)
LEMMA FillersDone ==
  ASSUME sdma \in Seq(Copy), sdma # <<>>, sdma' = Tail(sdma), NEW v
  PROVE  /\ Len(sdma) \in Nat \ {0} /\ Len(sdma') = Len(sdma) - 1
         /\ \A j \in 1..(Len(sdma) - 1) : sdma'[j] = sdma[j + 1] /\ j + 1 \in 1..Len(sdma)
         /\ FillersV(v)' \in SUBSET Nat /\ FillersH(v)' \in SUBSET Nat
         /\ \A j \in Nat : j \in FillersV(v)' <=> j >= 1 /\ j + 1 \in FillersV(v)
         /\ \A j \in Nat : j \in FillersH(v)' <=> j >= 1 /\ j + 1 \in FillersH(v)
<1>1. PICK n \in Nat \ {0} : n = Len(sdma)
  OBVIOUS
<1>2. Len(sdma') = n - 1 /\ \A j \in 1..(n - 1) : sdma'[j] = sdma[j + 1]
  BY <1>1
<1>3. \A j \in Nat : j \in 1..(n - 1) <=> j >= 1 /\ j + 1 \in 1..n
  BY <1>1
<1>4. 1..(n - 1) \in SUBSET Nat
  BY <1>1
<1>5. FillersV(v)' \in SUBSET Nat /\ \A j \in Nat : j \in FillersV(v)' <=> j >= 1 /\ j + 1 \in FillersV(v)
  BY <1>1, <1>2, <1>3, <1>4 DEF FillersV
<1>6. FillersH(v)' \in SUBSET Nat /\ \A j \in Nat : j \in FillersH(v)' <=> j >= 1 /\ j + 1 \in FillersH(v)
  BY <1>1, <1>2, <1>3, <1>4 DEF FillersH
<1> QED BY <1>1, <1>2, <1>3, <1>4, <1>5, <1>6

-----------------------------------------------------------------------------
(* The tokens stay                                                         *)

(* Two live chunks share no slot, and none has a free one.                 *)
LEMMA Apart ==
  ASSUME OwnershipInv
  PROVE  /\ \A g, h \in Live : g # h /\ ref[g].vram = ref[h].vram => ref[h].vram = NoVram
         /\ \A g, h \in Live : g # h /\ ref[g].host = ref[h].host => ref[h].host = NoHost
         /\ freeV # <<>> => \A h \in Live : ref[h].vram # AllocSlot(freeV)
         /\ \A h \in Live : /\ h \in Handles /\ ref[h].tier \in {"Vram", "HostPinned"}
                            /\ ref[h].tier = "Vram" => ref[h].vram # NoVram /\ ref[h].vram \in VramSlots
                            /\ ref[h].host # NoHost => ref[h].host \in HostSlots
                            /\ ref[h].tier # "Vram" => ref[h].host # NoHost
<1>1. PICK held, hosted, L : held = VramOf /\ hosted = HostOf /\ L = Live
  OBVIOUS
<1>2. /\ held \in [L -> 0..VramCap] /\ hosted \in [L -> 0..HostCap]
      /\ \A h \in L : h \in Handles /\ held[h] = ref[h].vram /\ hosted[h] = ref[h].host
      /\ Accounted(freeV, lost, held, VramCap) /\ Accounted(freeH, {}, hosted, HostCap)
      /\ freeV \in Seq(0..(VramCap - 1)) /\ VramCap \in Nat /\ HostCap \in Nat
  BY <1>1, PoolFacts
<1>3. /\ \A g, h \in L : g # h /\ held[g] = held[h] => held[h] = VramCap
      /\ \A g, h \in L : g # h /\ hosted[g] = hosted[h] => hosted[h] = HostCap
      /\ \A h \in L : held[h] \notin ToSet(freeV)
  BY <1>2 DEF Accounted
<1>4. freeV # <<>> => AllocSlot(freeV) \in ToSet(freeV)
  BY <1>2, PopFacts
<1>5. ASSUME NEW h \in Live
      PROVE  /\ h \in Handles /\ ref[h].tier \in {"Vram", "HostPinned"}
             /\ ref[h].tier = "Vram" => ref[h].vram # NoVram /\ ref[h].vram \in VramSlots
             /\ ref[h].host # NoHost => ref[h].host \in HostSlots
             /\ ref[h].tier # "Vram" => ref[h].host # NoHost
  <2>1. h \in Handles /\ ref \in [Handles -> ChunkRef] /\ TierInv
    BY <1>1, <1>2 DEF OwnershipInv, TypeOK
  <2>2. /\ ref[h].vram \in 0..VramCap /\ ref[h].host \in 0..HostCap
        /\ ref[h].tier \in {"Vram", "HostPinned"}
    BY <2>1, HeldFacts
  <2>3. /\ ref[h].tier = "Vram" => ref[h].vram # NoVram
        /\ ref[h].tier # "Vram" => ref[h].host # NoHost
    BY <2>1 DEF TierInv
  <2> QED BY <1>2, <2>1, <2>2, <2>3 DEF NoVram, NoHost, VramSlots, HostSlots
<1> QED BY <1>1, <1>2, <1>3, <1>4, <1>5 DEF NoVram, NoHost

(* The promises behind the invariant.                                      *)
LEMMA Promises ==
  ASSUME TiersInv
  PROVE  /\ OwnershipInv /\ sdma \in Seq(Copy) /\ evicting \subseteq Live
         /\ ref \in [Handles -> ChunkRef] /\ chunks \in [Seqs -> Seq(Handles)]
         /\ vram \in [VramSlots -> Content] /\ host \in [HostSlots -> Content]
         /\ said \in [Seqs -> Seq(Tokens)] /\ Len(sdma) \in Nat
         /\ \E p \in Seq(Content) : Len(p) = Len(sdma) /\ Kept(p) /\ AtHome(p)
BY DEF TiersInv, OwnershipInv, TypeOK, ContentInv

(* A token keeps its place when its list keeps its chunks.                 *)
LEMMA PlaceSame ==
  ASSUME OwnershipInv, NEW s \in Seqs, NEW i \in 1..Len(said[s]),
         \A k \in 1..Len(chunks[s]) : chunks'[s][k] = chunks[s][k]
  PROVE  ChunkOf(s, i)' = ChunkOf(s, i)
<1>1. \E k \in 1..Len(chunks[s]) : k = ((i - 1) \div ChunkTokens) + 1
  BY TokenPlace
<1> QED BY <1>1 DEF ChunkOf

(* Steps that leave memory, the stream and the places of the tokens alone. *)
LEMMA ContentSame ==
  ASSUME TiersInv, UNCHANGED <<vram, host, sdma, evicting>>,
         \A h \in Live : /\ ref'[h].tier = ref[h].tier /\ ref'[h].vram = ref[h].vram
                         /\ ref'[h].host = ref[h].host,
         \A s \in Seqs : \A i \in 1..Len(said'[s]) :
            \E t \in Seqs : /\ i \in 1..Len(said[t]) /\ said'[s][i] = said[t][i]
                            /\ ChunkOf(s, i)' = ChunkOf(t, i)
  PROVE  ContentInv'
<1>1. /\ OwnershipInv /\ evicting \subseteq Live
      /\ \E p \in Seq(Content) : Len(p) = Len(sdma) /\ Kept(p) /\ AtHome(p)
  BY Promises
<1>2. PICK p \in Seq(Content) : Len(p) = Len(sdma) /\ Kept(p) /\ AtHome(p)
  BY <1>1
<1>3. \A v : FillersV(v)' = FillersV(v) /\ FillersH(v)' = FillersH(v)
  BY DEF FillersV, FillersH
<1>4. \A k, v, o, x : /\ VramHas(p, k, v, o, x)' <=> VramHas(p, k, v, o, x)
                      /\ HostHas(p, k, v, o, x)' <=> HostHas(p, k, v, o, x)
  BY <1>3 DEF VramHas, HostHas
<1>5. Kept(p)'
  <2>1. ASSUME NEW k \in 1..Len(sdma), NEW o \in 1..ChunkTokens PROVE KeptAt(p, k, o)'
    <3>1. KeptAt(p, k, o)
      BY <1>2, <2>1 DEF Kept
    <3> QED BY <1>1, <1>3, <1>4, <3>1 DEF KeptAt
  <2> QED BY <2>1 DEF Kept
<1>6. ASSUME NEW s \in Seqs, NEW i \in 1..Len(said'[s])
      PROVE  HomeAt(p, ChunkOf(s, i), Offset(i), said[s][i])'
  <2>1. PICK t \in Seqs : /\ i \in 1..Len(said[t]) /\ said'[s][i] = said[t][i]
                          /\ ChunkOf(s, i)' = ChunkOf(t, i)
    BY <1>6
  <2>2. PICK g, o, x : g = ChunkOf(t, i) /\ o = Offset(i) /\ x = said[t][i]
    OBVIOUS
  <2>3. g \in Live
    BY <1>1, <2>1, <2>2, TokenPlace
  <2>4. HomeAt(p, g, o, x)
    BY <1>2, <2>1, <2>2 DEF AtHome
  <2>5. HomeAt(p, g, o, x)'
    BY <1>3, <1>4, <2>3, <2>4 DEF HomeAt
  <2>6. ChunkOf(s, i)' = g /\ Offset(i)' = o /\ said'[s][i] = x
    BY <2>1, <2>2 DEF Offset
  <2> QED BY <2>5, <2>6 DEF HomeAt
<1>7. AtHome(p)'
  BY <1>6 DEF AtHome
<1> QED BY <1>2, <1>5, <1>7 DEF ContentInv

(* A chunk allocated or a token appended moves no token.                   *)
LEMMA ContentGrown ==
  ASSUME TiersInv, NEW s \in Seqs, UNCHANGED <<vram, host, sdma, evicting, said>>,
         NEW f \in Handles \ Live, NEW r, ref' = [ref EXCEPT ![f] = r],
         chunks' = [chunks EXCEPT ![s] = Append(@, f)]
  PROVE  ContentInv'
<1>1. /\ OwnershipInv /\ ref \in [Handles -> ChunkRef] /\ chunks \in [Seqs -> Seq(Handles)]
  BY Promises
<1>2. /\ \A i \in 1..Len(chunks[s]) : chunks'[s][i] = chunks[s][i]
      /\ \A t \in Seqs : t # s => chunks'[t] = chunks[t]
  BY <1>1, GrowFacts
<1>3. \A t \in Seqs : \A k \in 1..Len(chunks[t]) : chunks'[t][k] = chunks[t][k]
  BY <1>2
<1>4. \A h \in Live : h \in Handles /\ ref'[h] = ref[h]
  BY <1>1 DEF Live
<1>5. ASSUME NEW t \in Seqs, NEW i \in 1..Len(said[t]) PROVE ChunkOf(t, i)' = ChunkOf(t, i)
  BY <1>1, <1>3, PlaceSame
<1> QED BY <1>4, <1>5, ContentSame

(* alloc_with_host_backing.                                                *)
LEMMA ContentAlloc ==
  ASSUME TiersInv, NEW s \in Seqs, AllocWithHostBacking(s)
  PROVE  ContentInv'
<1>1. /\ FreshHandle \in Handles \ Live
      /\ ref' = [ref EXCEPT ![FreshHandle] = VramChunk(AllocSlot(freeV), AllocSlot(freeH), 0)]
      /\ chunks' = [chunks EXCEPT ![s] = Append(@, FreshHandle)]
      /\ UNCHANGED <<vram, host, sdma, evicting, said>>
  BY FreshIs DEF AllocWithHostBacking, memVars, callerVars
<1>2. PICK f \in Handles \ Live : f = FreshHandle
  BY <1>1
<1> QED BY <1>1, <1>2, ContentGrown

(* append_token.                                                           *)
LEMMA ContentAppend ==
  ASSUME TiersInv, NEW s \in Seqs, AppendToken(s)
  PROVE  ContentInv'
<1>1. UNCHANGED <<vram, host, sdma, evicting, said>>
  BY DEF AppendToken, memVars, callerVars
<1>2. CASE chunks' = chunks /\ ref' = [ref EXCEPT ![LastChunk(s)].len = @ + 1]
  <2>1. OwnershipInv /\ ref \in [Handles -> ChunkRef]
    BY Promises
  <2>2. \A h \in Live : /\ ref'[h].tier = ref[h].tier /\ ref'[h].vram = ref[h].vram
                        /\ ref'[h].host = ref[h].host
    <3>1. \A h \in Live : h \in Handles /\ ref[h] \in ChunkRef
      BY <2>1 DEF Live
    <3> QED BY <1>2, <2>1, <3>1 DEF ChunkRef
  <2>3. ASSUME NEW t \in Seqs, NEW i \in 1..Len(said[t]) PROVE ChunkOf(t, i)' = ChunkOf(t, i)
    BY <1>2 DEF ChunkOf
  <2> QED BY <1>1, <2>2, <2>3, ContentSame
<1>3. CASE \E r : /\ Live # Handles /\ ref' = [ref EXCEPT ![FreshHandle] = r]
                  /\ chunks' = [chunks EXCEPT ![s] = Append(@, FreshHandle)]
  <2>1. PICK f \in Handles \ Live : f = FreshHandle
    BY <1>3, FreshIs
  <2>2. PICK r : /\ ref' = [ref EXCEPT ![FreshHandle] = r]
                 /\ chunks' = [chunks EXCEPT ![s] = Append(@, FreshHandle)]
    BY <1>3
  <2>3. ref' = [ref EXCEPT ![f] = r] /\ chunks' = [chunks EXCEPT ![s] = Append(@, f)]
    BY <2>1, <2>2
  <2> QED BY <1>1, <2>3, ContentGrown
<1> QED BY <1>2, <1>3 DEF AppendToken

(* Arc clones.                                                             *)
LEMMA ContentFork ==
  ASSUME TiersInv, NEW s \in Seqs, NEW t \in Seqs, s # t, Fork(s, t)
  PROVE  ContentInv'
<1>1. /\ ref' = ref /\ UNCHANGED <<vram, host, sdma, evicting>>
      /\ chunks' = [chunks EXCEPT ![t] = chunks[s]] /\ said' = [said EXCEPT ![t] = said[s]]
  BY DEF Fork, memVars
<1>2. chunks \in [Seqs -> Seq(Handles)] /\ said \in [Seqs -> Seq(Tokens)]
  BY Promises
<1>3. ASSUME NEW r \in Seqs, NEW i \in 1..Len(said'[r])
      PROVE  \E u \in Seqs : /\ i \in 1..Len(said[u]) /\ said'[r][i] = said[u][i]
                             /\ ChunkOf(r, i)' = ChunkOf(u, i)
  <2>1. CASE r = t
    <3>1. said'[r] = said[s] /\ chunks'[r] = chunks[s]
      BY <1>1, <1>2, <2>1
    <3> QED BY <1>3, <3>1 DEF ChunkOf
  <2>2. CASE r # t
    <3>1. said'[r] = said[r] /\ chunks'[r] = chunks[r]
      BY <1>1, <1>2, <2>2
    <3> QED BY <1>3, <3>1 DEF ChunkOf
  <2> QED BY <2>1, <2>2
<1> QED BY <1>1, <1>3, ContentSame

(* A copy c is issued and promises w.                                      *)
Issue(n, p, c, w, q) ==
    /\ sdma \in Seq(Copy) /\ n \in Nat /\ n = Len(sdma)
    /\ p \in Seq(Content) /\ Len(p) = n /\ c \in Copy /\ w \in Content /\ q = Append(p, w)
    /\ sdma' = Append(sdma, c) /\ vram' = vram /\ host' = host

(* A copy is issued with a promise: the earlier copies bring what they     *)
(* did, and the new one decides what its target will hold.                 *)
LEMMA Issued ==
  ASSUME NEW n, NEW p, NEW c, NEW w, NEW q, Issue(n, p, c, w, q)
  PROVE  /\ q \in Seq(Content) /\ Len(q) = n + 1 /\ Len(sdma') = n + 1 /\ q[n + 1] = w
         /\ n \in Nat /\ sdma'[n + 1] = c /\ \A j \in 1..n : q[j] = p[j] /\ sdma'[j] = sdma[j]
         /\ \A v, j : j \in FillersH(v)' <=>
               j \in FillersH(v) \/ (j = n + 1 /\ c.kind = "D2H" /\ c.dst = v)
         /\ \A k \in 1..(n + 1) : \A v, o, x :
               /\ VramHas(p, k, v, o, x) => VramHas(q, k, v, o, x)'
               /\ HostHas(p, k, v, o, x) => HostHas(q, k, v, o, x)'
         /\ \A v, o, x : VramHas(p, n + 1, v, o, x) /\ (c.kind = "D2H" \/ c.dst # v)
                            => VramHas(q, n + 2, v, o, x)'
         /\ \A v, o, x : HostHas(p, n + 1, v, o, x) /\ (c.kind # "D2H" \/ c.dst # v)
                            => HostHas(q, n + 2, v, o, x)'
         /\ c.kind # "D2H" => \A o, x : w[o] = x => VramHas(q, n + 2, c.dst, o, x)'
         /\ c.kind = "D2H" => \A o, x : w[o] = x => HostHas(q, n + 2, c.dst, o, x)'
<1>1. /\ sdma \in Seq(Copy) /\ n \in Nat /\ n = Len(sdma)
      /\ p \in Seq(Content) /\ Len(p) = n /\ c \in Copy /\ w \in Content /\ q = Append(p, w)
      /\ sdma' = Append(sdma, c) /\ vram' = vram /\ host' = host
  BY DEF Issue
<1>2. /\ q \in Seq(Content) /\ Len(q) = n + 1 /\ q[n + 1] = w /\ \A j \in 1..n : q[j] = p[j]
  BY <1>1
<1>3. Len(sdma') = n + 1 /\ sdma'[n + 1] = c /\ \A j \in 1..n : sdma'[j] = sdma[j]
  BY <1>1
<1>4. ASSUME NEW v
      PROVE  /\ FillersV(v) \in SUBSET Nat /\ FillersH(v) \in SUBSET Nat
             /\ FillersV(v)' \in SUBSET Nat /\ FillersH(v)' \in SUBSET Nat
             /\ \A j \in FillersV(v) : j \in 1..n
             /\ \A j \in FillersH(v) : j \in 1..n
             /\ \A j : j \in FillersV(v)' <=>
                   j \in FillersV(v) \/ (j = n + 1 /\ c.kind # "D2H" /\ c.dst = v)
             /\ \A j : j \in FillersH(v)' <=>
                   j \in FillersH(v) \/ (j = n + 1 /\ c.kind = "D2H" /\ c.dst = v)
  BY <1>1, FillersFacts, FillersIssued
<1>5. ASSUME NEW k \in 1..(n + 1), NEW v, NEW o, NEW x
      PROVE  /\ VramHas(p, k, v, o, x) => VramHas(q, k, v, o, x)'
             /\ HostHas(p, k, v, o, x) => HostHas(q, k, v, o, x)'
  <2>1. PICK F, G, H, I : /\ F = FillersV(v) /\ G = FillersV(v)'
                          /\ H = FillersH(v) /\ I = FillersH(v)'
    OBVIOUS
  <2>2. /\ F \in SUBSET Nat /\ G \in SUBSET Nat /\ H \in SUBSET Nat /\ I \in SUBSET Nat
        /\ SameBefore(F, k, G, k)
        /\ SameBefore(H, k, I, k)
    BY <1>1, <1>4, <2>1 DEF SameBefore
  <2>3. /\ BringSame(F, k, p, q, o, x)
        /\ BringSame(H, k, p, q, o, x)
    BY <1>2, <1>4, <2>1 DEF BringSame
  <2>4. k \in Nat
    BY <1>1
  <2>5. ASSUME Has(vram[v][o], F, p, k, o, x) PROVE Has(vram[v][o], G, q, k, o, x)
    BY <2>2, <2>3, <2>4, <2>5, HasSame
  <2>6. ASSUME Has(host[v][o], H, p, k, o, x) PROVE Has(host[v][o], I, q, k, o, x)
    BY <2>2, <2>3, <2>4, <2>6, HasSame
  <2> QED BY <1>1, <2>1, <2>5, <2>6 DEF VramHas, HostHas
<1>6. ASSUME NEW v, NEW o, NEW x, VramHas(p, n + 1, v, o, x), c.kind = "D2H" \/ c.dst # v
      PROVE  VramHas(q, n + 2, v, o, x)'
  <2>1. PICK F, G : F = FillersV(v) /\ G = FillersV(v)'
    OBVIOUS
  <2>2. /\ F \in SUBSET Nat /\ G \in SUBSET Nat
        /\ SameBefore(F, n + 1, G, n + 2)
    BY <1>1, <1>4, <1>6, <2>1 DEF SameBefore
  <2>3. BringSame(F, n + 1, p, q, o, x)
    BY <1>2, <1>4, <2>1 DEF BringSame
  <2>4. Has(vram[v][o], F, p, n + 1, o, x)
    BY <1>6, <2>1 DEF VramHas
  <2>6. n + 1 \in Nat /\ n + 2 \in Nat
    BY <1>1
  <2>5. Has(vram[v][o], G, q, n + 2, o, x)
    BY <2>2, <2>3, <2>4, <2>6, HasSame
  <2> QED BY <1>1, <2>1, <2>5 DEF VramHas
<1>7. ASSUME NEW v, NEW o, NEW x, HostHas(p, n + 1, v, o, x), c.kind # "D2H" \/ c.dst # v
      PROVE  HostHas(q, n + 2, v, o, x)'
  <2>1. PICK F, G : F = FillersH(v) /\ G = FillersH(v)'
    OBVIOUS
  <2>2. /\ F \in SUBSET Nat /\ G \in SUBSET Nat
        /\ SameBefore(F, n + 1, G, n + 2)
    BY <1>1, <1>4, <1>7, <2>1 DEF SameBefore
  <2>3. BringSame(F, n + 1, p, q, o, x)
    BY <1>2, <1>4, <2>1 DEF BringSame
  <2>4. Has(host[v][o], F, p, n + 1, o, x)
    BY <1>7, <2>1 DEF HostHas
  <2>6. n + 1 \in Nat /\ n + 2 \in Nat
    BY <1>1
  <2>5. Has(host[v][o], G, q, n + 2, o, x)
    BY <2>2, <2>3, <2>4, <2>6, HasSame
  <2> QED BY <1>1, <2>1, <2>5 DEF HostHas
<1>8. ASSUME NEW o, NEW x, w[o] = x, c.kind # "D2H" PROVE VramHas(q, n + 2, c.dst, o, x)'
  <2>1. PICK v, G : v = c.dst /\ G = FillersV(v)'
    OBVIOUS
  <2>2. n + 1 \in G /\ G \in SUBSET Nat /\ q[n + 1][o] = x /\ (n + 1) + 1 = n + 2
    BY <1>1, <1>2, <1>4, <1>8, <2>1
  <2>3. Has(vram[v][o], G, q, n + 2, o, x)
    BY <2>2, HasLast
  <2> QED BY <1>1, <2>1, <2>3 DEF VramHas
<1>9. ASSUME NEW o, NEW x, w[o] = x, c.kind = "D2H" PROVE HostHas(q, n + 2, c.dst, o, x)'
  <2>1. PICK v, G : v = c.dst /\ G = FillersH(v)'
    OBVIOUS
  <2>2. n + 1 \in G /\ G \in SUBSET Nat /\ q[n + 1][o] = x /\ (n + 1) + 1 = n + 2
    BY <1>1, <1>2, <1>4, <1>9, <2>1
  <2>3. Has(host[v][o], G, q, n + 2, o, x)
    BY <2>2, HasLast
  <2> QED BY <1>1, <2>1, <2>3 DEF HostHas
<1> QED BY <1>1, <1>2, <1>4, <1>3, <1>5, <1>6, <1>7, <1>8, <1>9

(* The promises of the earlier copies stand after one is issued.           *)
LEMMA IssuedKept ==
  ASSUME NEW n, NEW p, NEW c, NEW w, NEW q, Issue(n, p, c, w, q),
         Kept(p), \A h \in evicting : /\ h \in evicting' /\ ref'[h].vram = ref[h].vram
                                      /\ ref'[h].host = ref[h].host,
         \A o \in 1..ChunkTokens : KeptAt(q, n + 1, o)'
  PROVE  Kept(q)'
<1>1. /\ Len(sdma') = n + 1 /\ n \in Nat
      /\ \A j \in 1..n : q[j] = p[j] /\ sdma'[j] = sdma[j]
      /\ \A v, j : j \in FillersH(v)' <=>
            j \in FillersH(v) \/ (j = n + 1 /\ c.kind = "D2H" /\ c.dst = v)
      /\ \A k \in 1..(n + 1) : \A v, o, x :
            /\ VramHas(p, k, v, o, x) => VramHas(q, k, v, o, x)'
            /\ HostHas(p, k, v, o, x) => HostHas(q, k, v, o, x)'
  BY Issued
<1>2. host' = host /\ n = Len(sdma)
  BY DEF Issue
<1>3. ASSUME NEW k \in 1..n, NEW o \in 1..ChunkTokens PROVE KeptAt(q, k, o)'
  <2>1. KeptAt(p, k, o)
    BY <1>2, <1>3 DEF Kept
  <2>2. PICK d, x, u : d = sdma[k] /\ x = p[k][o] /\ u = d.src
    OBVIOUS
  <2>3. sdma'[k] = d /\ q[k][o] = x /\ k \in 1..(n + 1) /\ n + 1 >= k
    BY <1>1, <2>2
  <2>4. ASSUME x # NoToken, d.kind = "H2D"
        PROVE  host[u][o] = x /\ \A j \in FillersH(u)' : j >= k
    <3>1. host[u][o] = x /\ \A j \in FillersH(u) : j >= k
      BY <2>1, <2>2, <2>4 DEF KeptAt
    <3> QED BY <1>1, <2>3, <3>1
  <2>5. ASSUME x # NoToken, d.kind # "H2D" PROVE VramHas(q, k, u, o, x)'
    <3>1. VramHas(p, k, u, o, x)
      BY <2>1, <2>2, <2>5 DEF KeptAt
    <3> QED BY <1>1, <2>3, <3>1
  <2>6. ASSUME x # NoToken, d.kind = "D2H"
        PROVE  \E h \in evicting' : ref'[h].vram = u /\ ref'[h].host = d.dst
    <3>1. PICK h \in evicting : ref[h].vram = u /\ ref[h].host = d.dst
      BY <2>1, <2>2, <2>6 DEF KeptAt
    <3> QED BY <3>1
  <2> QED BY <1>2, <2>2, <2>3, <2>4, <2>5, <2>6 DEF KeptAt
<1>4. \A k : k \in 1..(n + 1) <=> k \in 1..n \/ k = n + 1
  BY <1>1
<1> QED BY <1>1, <1>3, <1>4 DEF Kept

(* A chunk whose slots the new copy does not fill stays at home.           *)
LEMMA IssuedHome ==
  ASSUME NEW n, NEW p, NEW c, NEW w, NEW q, Issue(n, p, c, w, q),
         NEW g, NEW o, NEW x, HomeAt(p, g, o, x), ref'[g].tier = ref[g].tier,
         ref'[g].vram = ref[g].vram, ref'[g].host = ref[g].host,
         ref[g].tier = "Vram" => c.kind = "D2H" \/ c.dst # ref[g].vram,
         ref[g].tier # "Vram" \/ g \in evicting => c.kind # "D2H" \/ c.dst # ref[g].host,
         g \in evicting' => g \in evicting
  PROVE  HomeAt(q, g, o, x)'
<1>1. /\ Len(sdma') = n + 1 /\ n \in Nat
      /\ \A v, j : j \in FillersH(v)' <=>
            j \in FillersH(v) \/ (j = n + 1 /\ c.kind = "D2H" /\ c.dst = v)
      /\ \A v, y, z : VramHas(p, n + 1, v, y, z) /\ (c.kind = "D2H" \/ c.dst # v)
                         => VramHas(q, n + 2, v, y, z)'
      /\ \A v, y, z : HostHas(p, n + 1, v, y, z) /\ (c.kind # "D2H" \/ c.dst # v)
                         => HostHas(q, n + 2, v, y, z)'
  BY Issued
<1>2. host' = host /\ n = Len(sdma)
  BY DEF Issue
<1>3. PICK u, m, t : u = ref[g].vram /\ m = ref[g].host /\ t = ref[g].tier
  OBVIOUS
<1>4. ref'[g].vram = u /\ ref'[g].host = m /\ ref'[g].tier = t /\ (n + 1) + 1 = n + 2
  BY <1>1, <1>3
<1>5. ASSUME t = "Vram" PROVE VramHas(q, n + 2, u, o, x)'
  <2>1. VramHas(p, n + 1, u, o, x) /\ (c.kind = "D2H" \/ c.dst # u)
    BY <1>2, <1>3, <1>5 DEF HomeAt
  <2> QED BY <1>1, <2>1
<1>6. ASSUME t # "Vram" PROVE host[m][o] = x /\ FillersH(m)' = {}
  <2>1. host[m][o] = x /\ FillersH(m) = {} /\ (c.kind # "D2H" \/ c.dst # m)
    BY <1>3, <1>6 DEF HomeAt
  <2> QED BY <1>1, <2>1
<1>7. ASSUME g \in evicting' PROVE HostHas(q, n + 2, m, o, x)'
  <2>1. HostHas(p, n + 1, m, o, x) /\ (c.kind # "D2H" \/ c.dst # m)
    BY <1>2, <1>3, <1>7 DEF HomeAt
  <2> QED BY <1>1, <2>1
<1> QED BY <1>1, <1>2, <1>4, <1>5, <1>6, <1>7 DEF HomeAt

(* promote_chunk: the host slot of a chunk that is not in VRAM is settled. *)
LEMMA ContentPromote ==
  ASSUME TiersInv, NEW h \in Handles, Promote(h)
  PROVE  ContentInv'
<1>1. /\ OwnershipInv /\ sdma \in Seq(Copy) /\ evicting \subseteq Live
      /\ ref \in [Handles -> ChunkRef] /\ host \in [HostSlots -> Content]
      /\ said \in [Seqs -> Seq(Tokens)] /\ chunks \in [Seqs -> Seq(Handles)]
      /\ \E p \in Seq(Content) : Len(p) = Len(sdma) /\ Kept(p) /\ AtHome(p)
  BY Promises
<1>2. PICK p \in Seq(Content) : Len(p) = Len(sdma) /\ Kept(p) /\ AtHome(p)
  BY <1>1
<1>3. PICK n \in Nat : n = Len(sdma)
  BY <1>1
<1>4. PICK v, m : v = AllocSlot(freeV) /\ m = ref[h].host
  OBVIOUS
<1>5. /\ h \in Live /\ ref[h].tier = "HostPinned" /\ m # NoHost /\ freeV # <<>>
      /\ ref' = [ref EXCEPT ![h].vram = v, ![h].tier = "Vram"]
      /\ sdma' = Append(sdma, [kind |-> "H2D", src |-> m, dst |-> v])
      /\ UNCHANGED <<chunks, vram, host, evicting, said>>
  BY <1>4 DEF Promote, callerVars
<1>6. v \in VramSlots /\ m \in HostSlots /\ \A g \in Live : ref[g].vram # v
  BY <1>1, <1>4, <1>5, Apart, PoolFacts DEF VramSlots
<1>7. PICK c \in Copy : /\ c.kind = "H2D" /\ c.src = m /\ c.dst = v /\ sdma' = Append(sdma, c)
  <2>1. [kind |-> "H2D", src |-> m, dst |-> v] \in Copy
    BY <1>6 DEF Copy
  <2> QED BY <1>5, <2>1
<1>8. PICK w \in Content : /\ FillersH(m) = {} => w = host[m]
                           /\ FillersH(m) # {} => w = NoData
  <2>1. host[m] \in Content /\ NoData \in Content
    BY <1>1, <1>6 DEF NoData, Content
  <2> QED BY <2>1
<1>9. PICK q : Issue(n, p, c, w, q)
  BY <1>1, <1>2, <1>3, <1>5, <1>7 DEF Issue
<1>10. /\ q \in Seq(Content) /\ Len(q) = n + 1 /\ Len(sdma') = n + 1 /\ q[n + 1] = w
       /\ sdma'[n + 1] = c
       /\ c.kind # "D2H" => \A o, x : w[o] = x => VramHas(q, n + 2, c.dst, o, x)'
       /\ \A u, j : j \in FillersH(u)' <=>
             j \in FillersH(u) \/ (j = n + 1 /\ c.kind = "D2H" /\ c.dst = u)
  BY <1>9, Issued
<1>11. FillersH(m)' = FillersH(m)
  <2>1. \A j : j \in FillersH(m)' <=> j \in FillersH(m)
    BY <1>7, <1>10
  <2> QED BY <2>1
<1>12. ASSUME NEW o \in 1..ChunkTokens PROVE KeptAt(q, n + 1, o)'
  <2>1. w[o] # NoToken => FillersH(m) = {}
    BY <1>8 DEF NoData
  <2>2. w[o] # NoToken => host[m][o] = w[o] /\ FillersH(m)' = {}
    BY <1>8, <1>11, <2>1
  <2> QED BY <1>5, <1>7, <1>10, <1>11, <2>2 DEF KeptAt
<1>13. ref[h] \in ChunkRef /\ \A g \in Live : g \in Handles
  BY <1>1, <1>5 DEF Live
<1>14. /\ ref'[h].vram = v /\ ref'[h].tier = "Vram" /\ \A g \in Live : g # h => ref'[g] = ref[g]
  BY <1>1, <1>5, <1>13 DEF ChunkRef
<1>15. \A g \in evicting : g \in Live /\ g # h
  BY <1>1, <1>5 DEF OwnershipInv, EvictInv
<1>16. Kept(q)'
  <2>1. \A g \in evicting : /\ g \in evicting' /\ ref'[g].vram = ref[g].vram
                            /\ ref'[g].host = ref[g].host
    BY <1>5, <1>14, <1>15
  <2> QED BY <1>2, <1>9, <1>12, <2>1, IssuedKept
<1>17. ASSUME NEW s \in Seqs, NEW i \in 1..Len(said'[s])
       PROVE  HomeAt(q, ChunkOf(s, i), Offset(i), said[s][i])'
  <2>1. PICK g, o, x : g = ChunkOf(s, i) /\ o = Offset(i) /\ x = said[s][i]
    OBVIOUS
  <2>2. ChunkOf(s, i)' = g /\ Offset(i)' = o /\ said'[s][i] = x /\ i \in 1..Len(said[s])
    BY <1>5, <2>1 DEF ChunkOf, Offset
  <2>3. g \in Live /\ HomeAt(p, g, o, x)
    BY <1>1, <1>2, <2>1, <2>2, TokenPlace DEF AtHome
  <2>4. CASE g = h
    <3>1. host[m][o] = x /\ FillersH(m) = {}
      BY <1>4, <1>5, <2>3, <2>4 DEF HomeAt
    <3>2. VramHas(q, n + 2, v, o, x)' /\ (n + 1) + 1 = n + 2
      BY <1>3, <1>7, <1>8, <1>10, <3>1
    <3>3. h \notin evicting'
      BY <1>5, <1>15
    <3>4. HomeAt(q, h, o, x)'
      BY <1>10, <1>14, <3>2, <3>3 DEF HomeAt
    <3> QED BY <2>2, <2>4, <3>4 DEF HomeAt
  <2>5. CASE g # h
    <3>1. /\ ref'[g].tier = ref[g].tier /\ ref'[g].vram = ref[g].vram
          /\ ref'[g].host = ref[g].host /\ c.dst # ref[g].vram /\ c.kind # "D2H"
      BY <1>6, <1>7, <1>14, <2>3, <2>5
    <3>2. HomeAt(q, g, o, x)'
      BY <1>5, <1>9, <2>3, <3>1, IssuedHome
    <3> QED BY <2>2, <3>2 DEF HomeAt
  <2> QED BY <2>4, <2>5
<1>18. AtHome(q)'
  BY <1>17 DEF AtHome
<1> QED BY <1>10, <1>16, <1>18 DEF ContentInv

(* What a VRAM slot is known to hold when copy k is about to run.          *)
Will(p, k, v) ==
    [o \in 1..ChunkTokens |->
        IF \E x \in Tokens : VramHas(p, k, v, o, x)
        THEN CHOOSE x \in Tokens : VramHas(p, k, v, o, x) ELSE NoToken]

(* It is the token the slot will hold, if any.                             *)
LEMMA WillFacts ==
  ASSUME sdma \in Seq(Copy), NEW p, NEW k \in Nat, NEW v
  PROVE  /\ Will(p, k, v) \in Content
         /\ \A o \in 1..ChunkTokens :
               /\ \A x \in Tokens : VramHas(p, k, v, o, x) => Will(p, k, v)[o] = x
               /\ Will(p, k, v)[o] # NoToken => VramHas(p, k, v, o, Will(p, k, v)[o])
<1>1. PICK w : w = Will(p, k, v)
  OBVIOUS
<1>2. ASSUME NEW o \in 1..ChunkTokens
      PROVE  /\ w[o] \in Tokens \cup {NoToken}
             /\ \A x \in Tokens : VramHas(p, k, v, o, x) => w[o] = x
             /\ w[o] # NoToken => VramHas(p, k, v, o, w[o])
  <2>1. CASE \E x \in Tokens : VramHas(p, k, v, o, x)
    <3>1. w[o] \in Tokens /\ VramHas(p, k, v, o, w[o])
      BY <1>1, <2>1 DEF Will
    <3>2. ASSUME NEW x \in Tokens, VramHas(p, k, v, o, x) PROVE w[o] = x
      <4>1. Has(vram[v][o], FillersV(v), p, k, o, x) /\ Has(vram[v][o], FillersV(v), p, k, o, w[o])
        BY <3>1, <3>2 DEF VramHas
      <4>2. FillersV(v) \in SUBSET Nat
        BY FillersFacts
      <4> QED BY <4>1, <4>2, HasOnly
    <3> QED BY <3>1, <3>2
  <2>2. CASE ~\E x \in Tokens : VramHas(p, k, v, o, x)
    <3>1. w[o] = NoToken
      BY <1>1, <2>2 DEF Will
    <3> QED BY <2>2, <3>1
  <2> QED BY <2>1, <2>2
<1>3. w \in Content
  <2>1. w = [o \in 1..ChunkTokens |-> w[o]]
    BY <1>1 DEF Will
  <2> QED BY <1>2, <2>1 DEF Content
<1> QED BY <1>1, <1>2, <1>3

(* The promise a copy from a VRAM slot can make.                           *)
LEMMA CanPromise ==
  ASSUME sdma \in Seq(Copy)
  PROVE  \A n \in Nat : \A p, u :
            \E w \in Content : \A o \in 1..ChunkTokens :
               /\ \A x \in Tokens : VramHas(p, n + 1, u, o, x) => w[o] = x
               /\ w[o] # NoToken => VramHas(p, n + 1, u, o, w[o])
<1>1. ASSUME NEW n \in Nat, NEW p, NEW u
      PROVE  \E w \in Content : \A o \in 1..ChunkTokens :
                /\ \A x \in Tokens : VramHas(p, n + 1, u, o, x) => w[o] = x
                /\ w[o] # NoToken => VramHas(p, n + 1, u, o, w[o])
  <2>1. PICK k \in Nat : k = n + 1
    OBVIOUS
  <2>2. /\ Will(p, k, u) \in Content
        /\ \A o \in 1..ChunkTokens :
              /\ \A x \in Tokens : VramHas(p, k, u, o, x) => Will(p, k, u)[o] = x
              /\ Will(p, k, u)[o] # NoToken => VramHas(p, k, u, o, Will(p, k, u)[o])
    BY WillFacts
  <2> QED BY <2>1, <2>2
<1> QED BY <1>1

(* evict_chunk: the chunk stays in VRAM, and its host slot will have it.   *)
LEMMA ContentEvict ==
  ASSUME TiersInv, NEW h \in Handles, Evict(h)
  PROVE  ContentInv'
<1>1. /\ OwnershipInv /\ sdma \in Seq(Copy) /\ evicting \subseteq Live
      /\ \E p \in Seq(Content) : Len(p) = Len(sdma) /\ Kept(p) /\ AtHome(p)
  BY Promises
<1>2. PICK p \in Seq(Content) : Len(p) = Len(sdma) /\ Kept(p) /\ AtHome(p)
  BY <1>1
<1>3. PICK n \in Nat : n = Len(sdma)
  BY <1>1
<1>4. PICK u, m : u = ref[h].vram /\ m = ref[h].host
  OBVIOUS
<1>5. /\ h \in Live /\ ref[h].tier = "Vram" /\ m # NoHost
      /\ sdma' = Append(sdma, [kind |-> "D2H", src |-> u, dst |-> m])
      /\ evicting' = evicting \cup {h}
      /\ UNCHANGED <<ref, chunks, vram, host, said>>
  BY <1>4 DEF Evict, Evictable, D2HCopy, handleVars
<1>6. u \in VramSlots /\ m \in HostSlots /\ \A g \in Live : g # h => ref[g].host # m
  BY <1>1, <1>4, <1>5, Apart
<1>7. PICK c \in Copy : /\ c.kind = "D2H" /\ c.src = u /\ c.dst = m /\ sdma' = Append(sdma, c)
  <2>1. [kind |-> "D2H", src |-> u, dst |-> m] \in Copy
    BY <1>6 DEF Copy
  <2> QED BY <1>5, <2>1
<1>8. PICK w \in Content :
         \A o \in 1..ChunkTokens :
            /\ \A x \in Tokens : VramHas(p, n + 1, u, o, x) => w[o] = x
            /\ w[o] # NoToken => VramHas(p, n + 1, u, o, w[o])
  BY <1>1, CanPromise
<1>9. PICK q : Issue(n, p, c, w, q)
  BY <1>1, <1>2, <1>3, <1>5, <1>7 DEF Issue
<1>10. /\ q \in Seq(Content) /\ Len(q) = n + 1 /\ Len(sdma') = n + 1 /\ q[n + 1] = w
       /\ sdma'[n + 1] = c
       /\ \A k \in 1..(n + 1) : \A v, o, x :
             /\ VramHas(p, k, v, o, x) => VramHas(q, k, v, o, x)'
             /\ HostHas(p, k, v, o, x) => HostHas(q, k, v, o, x)'
       /\ \A v, o, x : VramHas(p, n + 1, v, o, x) /\ (c.kind = "D2H" \/ c.dst # v)
                          => VramHas(q, n + 2, v, o, x)'
       /\ c.kind = "D2H" => \A o, x : w[o] = x => HostHas(q, n + 2, c.dst, o, x)'
  <2>1. /\ q \in Seq(Content) /\ Len(q) = n + 1 /\ Len(sdma') = n + 1 /\ q[n + 1] = w
        /\ sdma'[n + 1] = c
    BY <1>9, Issued
  <2>2. \A k \in 1..(n + 1) : \A v, o, x :
           /\ VramHas(p, k, v, o, x) => VramHas(q, k, v, o, x)'
           /\ HostHas(p, k, v, o, x) => HostHas(q, k, v, o, x)'
    BY <1>9, Issued
  <2>3. /\ \A v, o, x : VramHas(p, n + 1, v, o, x) /\ (c.kind = "D2H" \/ c.dst # v)
                           => VramHas(q, n + 2, v, o, x)'
        /\ c.kind = "D2H" => \A o, x : w[o] = x => HostHas(q, n + 2, c.dst, o, x)'
    BY <1>9, Issued
  <2> QED BY <2>1, <2>2, <2>3
<1>11. ASSUME NEW o \in 1..ChunkTokens PROVE KeptAt(q, n + 1, o)'
  <2>1. PICK x : x = w[o]
    OBVIOUS
  <2>2. ASSUME x # NoToken PROVE VramHas(q, n + 1, u, o, x)'
    BY <1>8, <1>10, <2>1, <2>2, n + 1 \in 1..(n + 1)
  <2>3. h \in evicting' /\ ref'[h].vram = u /\ ref'[h].host = m
    BY <1>4, <1>5
  <2> QED BY <1>7, <1>10, <2>1, <2>2, <2>3 DEF KeptAt
<1>12. Kept(q)'
  <2>1. \A g \in evicting : /\ g \in evicting' /\ ref'[g].vram = ref[g].vram
                            /\ ref'[g].host = ref[g].host
    BY <1>5
  <2> QED BY <1>2, <1>9, <1>11, <2>1, IssuedKept
<1>13. ASSUME NEW s \in Seqs, NEW i \in 1..Len(said'[s])
       PROVE  HomeAt(q, ChunkOf(s, i), Offset(i), said[s][i])'
  <2>1. PICK g, o, x : g = ChunkOf(s, i) /\ o = Offset(i) /\ x = said[s][i]
    OBVIOUS
  <2>2. ChunkOf(s, i)' = g /\ Offset(i)' = o /\ said'[s][i] = x /\ i \in 1..Len(said[s])
    BY <1>5, <2>1 DEF ChunkOf, Offset
  <2>3. g \in Live /\ HomeAt(p, g, o, x) /\ x \in Tokens /\ o \in 1..ChunkTokens
    BY <1>1, <1>2, <2>1, <2>2, TokenPlace DEF AtHome
  <2>4. CASE g = h
    <3>1. VramHas(p, n + 1, u, o, x)
      BY <1>3, <1>4, <1>5, <2>3, <2>4 DEF HomeAt
    <3>2. VramHas(q, n + 2, u, o, x)' /\ (n + 1) + 1 = n + 2
      BY <1>7, <1>10, <3>1
    <3>3. HostHas(q, n + 2, m, o, x)'
      BY <1>7, <1>8, <1>10, <2>3, <3>1
    <3>4. HomeAt(q, h, o, x)'
      BY <1>4, <1>5, <1>10, <3>2, <3>3 DEF HomeAt
    <3> QED BY <2>2, <2>4, <3>4 DEF HomeAt
  <2>5. CASE g # h
    <3>1. c.kind = "D2H" /\ c.dst # ref[g].host /\ (g \in evicting' => g \in evicting)
      BY <1>5, <1>6, <1>7, <2>3, <2>5
    <3>2. HomeAt(q, g, o, x)'
      BY <1>5, <1>9, <2>3, <3>1, IssuedHome
    <3> QED BY <2>2, <3>2 DEF HomeAt
  <2> QED BY <2>4, <2>5
<1>14. AtHome(q)'
  BY <1>13 DEF AtHome
<1> QED BY <1>10, <1>12, <1>14 DEF ContentInv

(* With an idle stream a place has what it will have.                      *)
LEMMA Idle ==
  ASSUME sdma = <<>>
  PROVE  /\ \A v : FillersV(v) = {} /\ FillersH(v) = {}
         /\ \A p, k, v, o, x : VramHas(p, k, v, o, x) <=> vram[v][o] = x
         /\ \A p, k, v, o, x : HostHas(p, k, v, o, x) <=> host[v][o] = x
<1>1. Len(sdma) = 0 /\ 1..0 = {}
  OBVIOUS
<1>2. \A v : FillersV(v) = {} /\ FillersH(v) = {}
  BY <1>1 DEF FillersV, FillersH
<1> QED BY <1>2 DEF VramHas, HostHas, Has

(* A chunk that is in its host slot can give up its VRAM slot.             *)
LEMMA ContentFreed ==
  ASSUME TiersInv, sdma = <<>>, sdma' = <<>>, NEW h \in Live, ref[h].tier = "Vram",
         ref[h].host # NoHost, ref' = Freed(h), UNCHANGED <<chunks, vram, said>>,
         evicting' \subseteq evicting, h \notin evicting',
         \A m \in HostSlots : m # ref[h].host => host'[m] = host[m],
         \A o, x : VramHas(<<>>, 1, ref[h].vram, o, x) /\ (h \in evicting => HostHas(<<>>, 1, ref[h].host, o, x))
                      => host'[ref[h].host][o] = x
  PROVE  ContentInv'
<1>1. /\ OwnershipInv /\ evicting \subseteq Live /\ ref \in [Handles -> ChunkRef]
      /\ \E p \in Seq(Content) : Len(p) = Len(sdma) /\ Kept(p) /\ AtHome(p)
  BY Promises
<1>2. Len(sdma) = 0 /\ Len(sdma') = 0 /\ 0 + 1 = 1 /\ 1..0 = {}
  OBVIOUS
<1>3. PICK p \in Seq(Content) : Len(p) = 0 /\ Kept(p) /\ AtHome(p)
  BY <1>1, <1>2
<1>4. p = <<>>
  BY <1>3
<1>5. Kept(p)'
  BY <1>2 DEF Kept
<1>6. h \in Handles /\ ref[h] \in ChunkRef /\ \A g \in Live : g \in Handles
  BY <1>1, Apart
<1>7. /\ ref'[h].tier = "HostPinned" /\ ref'[h].host = ref[h].host
      /\ \A g \in Live : g # h => ref'[g] = ref[g]
  BY <1>1, <1>6 DEF Freed, ChunkRef
<1>8. /\ \A v : FillersH(v) = {} /\ FillersH(v)' = {} /\ FillersV(v) = {} /\ FillersV(v)' = {}
  BY <1>2 DEF FillersV, FillersH
<1>9. \A v, o, x : /\ VramHas(p, 1, v, o, x) <=> vram[v][o] = x
                   /\ HostHas(p, 1, v, o, x) <=> host[v][o] = x
                   /\ VramHas(p, 1, v, o, x)' <=> vram[v][o] = x
                   /\ HostHas(p, 1, v, o, x)' <=> host'[v][o] = x
  BY <1>8 DEF VramHas, HostHas, Has
<1>10. ASSUME NEW s \in Seqs, NEW i \in 1..Len(said'[s])
       PROVE  HomeAt(p, ChunkOf(s, i), Offset(i), said[s][i])'
  <2>1. PICK g, o, x : g = ChunkOf(s, i) /\ o = Offset(i) /\ x = said[s][i]
    OBVIOUS
  <2>2. ChunkOf(s, i)' = g /\ Offset(i)' = o /\ said'[s][i] = x /\ i \in 1..Len(said[s])
    BY <2>1 DEF ChunkOf, Offset
  <2>3. g \in Live /\ HomeAt(p, g, o, x)
    BY <1>1, <1>3, <2>1, <2>2, TokenPlace DEF AtHome
  <2>4. CASE g = h
    <3>1. /\ VramHas(<<>>, 1, ref[h].vram, o, x)
          /\ h \in evicting => HostHas(<<>>, 1, ref[h].host, o, x)
      BY <1>2, <1>4, <2>3, <2>4 DEF HomeAt
    <3>2. host'[ref[h].host][o] = x
      BY <3>1
    <3>3. HomeAt(p, h, o, x)'
      BY <1>7, <1>8, <3>2 DEF HomeAt
    <3> QED BY <2>2, <2>4, <3>3 DEF HomeAt
  <2>5. CASE g # h
    <3>1. PICK t, u, m : t = ref[g].tier /\ u = ref[g].vram /\ m = ref[g].host
      OBVIOUS
    <3>2. ref'[g].tier = t /\ ref'[g].vram = u /\ ref'[g].host = m
      BY <1>7, <2>3, <2>5, <3>1
    <3>3. t # "Vram" \/ g \in evicting' => host'[m] = host[m]
      <4>1. g \in evicting' => ref[g].host # NoHost
        BY <1>1 DEF OwnershipInv, EvictInv
      <4>2. /\ t # "Vram" \/ g \in evicting' => m \in HostSlots
            /\ m # NoHost => m # ref[h].host
        BY <1>1, <2>3, <2>5, <3>1, <4>1, Apart
      <4>3. t # "Vram" \/ g \in evicting' => m # NoHost
        BY <1>1, <2>3, <3>1, <4>1, Apart
      <4> QED BY <4>2, <4>3
    <3>4. ASSUME t = "Vram" PROVE VramHas(p, 1, u, o, x)'
      BY <1>2, <1>9, <2>3, <3>1, <3>4 DEF HomeAt
    <3>5. ASSUME t # "Vram" PROVE host'[m][o] = x
      BY <2>3, <3>1, <3>3, <3>5 DEF HomeAt
    <3>6. ASSUME g \in evicting' PROVE HostHas(p, 1, m, o, x)'
      <4>1. HostHas(p, 1, m, o, x)
        BY <1>2, <2>3, <3>1, <3>6 DEF HomeAt
      <4> QED BY <1>9, <3>3, <3>6, <4>1
    <3>7. HomeAt(p, g, o, x)'
      BY <1>2, <1>8, <3>2, <3>4, <3>5, <3>6 DEF HomeAt
    <3> QED BY <2>2, <3>7 DEF HomeAt
  <2> QED BY <2>4, <2>5
<1>11. AtHome(p)'
  BY <1>10 DEF AtHome
<1> QED BY <1>2, <1>3, <1>5, <1>11 DEF ContentInv

(* The second phase of an eviction.                                        *)
LEMMA ContentFreeEvicted ==
  ASSUME TiersInv, NEW h \in Handles, FreeEvicted(h)
  PROVE  ContentInv'
<1>1. /\ h \in evicting /\ sdma = <<>> /\ ref' = Freed(h) /\ evicting' = evicting \ {h}
      /\ UNCHANGED <<chunks, vram, host, sdma, said>>
  BY DEF FreeEvicted, FlushTierOps, memVars
<1>2. evicting \subseteq Live /\ EvictInv
  BY Promises DEF OwnershipInv
<1>3. h \in Live /\ ref[h].tier = "Vram" /\ ref[h].host # NoHost
  BY <1>1, <1>2 DEF EvictInv
<1>4. \A p, k, v, o, x : HostHas(p, k, v, o, x) <=> host[v][o] = x
  BY <1>1, Idle
<1>5. \A o, x : HostHas(<<>>, 1, ref[h].host, o, x) => host'[ref[h].host][o] = x
  BY <1>1, <1>4
<1> QED BY <1>1, <1>3, <1>5, ContentFreed

(* evict_chunk_and_free.                                                   *)
LEMMA ContentEvictAndFree ==
  ASSUME TiersInv, NEW h \in Handles, EvictAndFree(h)
  PROVE  ContentInv'
<1>1. /\ h \in Live \ evicting /\ ref[h].tier = "Vram" /\ ref[h].host # NoHost
      /\ sdma = <<>> /\ ref' = Freed(h)
      /\ host' = [host EXCEPT ![ref[h].host] = vram[ref[h].vram]]
      /\ UNCHANGED <<chunks, vram, sdma, evicting, said>>
  BY DEF EvictAndFree, Evictable, FlushTierOps, callerVars
<1>2. host \in [HostSlots -> Content] /\ ref[h].host \in HostSlots
  BY <1>1, Promises, Apart
<1>3. \A p, k, v, o, x : VramHas(p, k, v, o, x) <=> vram[v][o] = x
  BY <1>1, Idle
<1>4. /\ host'[ref[h].host] = vram[ref[h].vram]
      /\ \A m \in HostSlots : m # ref[h].host => host'[m] = host[m]
  BY <1>1, <1>2
<1>5. \A o, x : VramHas(<<>>, 1, ref[h].vram, o, x) => host'[ref[h].host][o] = x
  BY <1>3, <1>4
<1> QED BY <1>1, <1>4, <1>5, ContentFreed

(* The last chunk of a list is replaced.                                   *)
LastReplaced(s, f) ==
    /\ \A j \in 1..(Len(chunks[s]) - 1) : chunks'[s][j] = chunks[s][j]
    /\ chunks'[s][Len(chunks[s])] = f
    /\ \A r \in Seqs : r # s => chunks'[r] = chunks[r]

(* Where the tokens lie after the last chunk of a list was replaced.       *)
LEMMA SwapPlace ==
  ASSUME OwnershipInv, NEW s \in Seqs, NEW f, NEW t \in Seqs, NEW i \in 1..Len(said[t]),
         LastReplaced(s, f)
  PROVE  \/ ChunkOf(t, i)' = ChunkOf(t, i)
         \/ /\ ChunkOf(t, i) = LastChunk(s) /\ ChunkOf(t, i)' = f
            /\ ref[LastChunk(s)].len # 0
<1> USE DEF LastReplaced
<1>1. CASE t # s
  BY <1>1 DEF ChunkOf
<1>2. CASE t = s
  <2>1. PICK k \in 1..Len(chunks[s]) :
           /\ k = ((i - 1) \div ChunkTokens) + 1 /\ ChunkOf(s, i) = chunks[s][k]
           /\ k = Len(chunks[s]) => Offset(i) <= ref[LastChunk(s)].len
    BY <1>2, TokenPlace
  <2>2. Len(chunks[s]) \in Nat /\ Offset(i) \in 1..ChunkTokens
    BY <1>2, TokenPlace, InList DEF OwnershipInv, TypeOK
  <2>3. ChunkOf(s, i)' = chunks'[s][k]
    BY <2>1 DEF ChunkOf
  <2>4. CASE k = Len(chunks[s])
    <3>1. Offset(i) # 0 /\ ~(Offset(i) <= 0)
      BY <2>2
    <3> QED BY <1>2, <2>1, <2>3, <2>4, <3>1 DEF LastChunk
  <2>5. CASE k # Len(chunks[s])
    <3>1. k \in 1..(Len(chunks[s]) - 1)
      BY <2>1, <2>2, <2>5
    <3> QED BY <1>2, <2>1, <2>3, <3>1
  <2> QED BY <2>4, <2>5
<1> QED BY <1>1, <1>2

(* make_exclusive with a copy: the new slot will have what the old one has. *)
LEMMA ContentCopied ==
  ASSUME TiersInv, NEW s \in Seqs, NEW f \in Handles \ Live, NEW old \in Live,
         old = LastChunk(s), ref[old].tier = "Vram", freeV # <<>>,
         NEW u, NEW v, u = ref[old].vram, v = AllocSlot(freeV),
         ref'[f].tier = "Vram", ref'[f].vram = v, \A g \in Live : ref'[g] = ref[g],
         LastReplaced(s, f),
         sdma' = Append(sdma, [kind |-> "D2D", src |-> u, dst |-> v]),
         UNCHANGED <<vram, host, evicting, said>>
  PROVE  ContentInv'
<1>1. /\ OwnershipInv /\ sdma \in Seq(Copy) /\ evicting \subseteq Live
      /\ \E p \in Seq(Content) : Len(p) = Len(sdma) /\ Kept(p) /\ AtHome(p)
  BY Promises
<1>2. PICK p \in Seq(Content) : Len(p) = Len(sdma) /\ Kept(p) /\ AtHome(p)
  BY <1>1
<1>3. PICK n \in Nat : n = Len(sdma)
  BY <1>1
<1>6. u \in VramSlots /\ v \in VramSlots /\ \A g \in Live : ref[g].vram # v
  BY <1>1, Apart, PoolFacts DEF VramSlots
<1>7. PICK c \in Copy : /\ c.kind = "D2D" /\ c.src = u /\ c.dst = v /\ sdma' = Append(sdma, c)
  <2>1. [kind |-> "D2D", src |-> u, dst |-> v] \in Copy
    BY <1>6 DEF Copy
  <2> QED BY <2>1
<1>8. PICK w \in Content :
         \A o \in 1..ChunkTokens :
            /\ \A x \in Tokens : VramHas(p, n + 1, u, o, x) => w[o] = x
            /\ w[o] # NoToken => VramHas(p, n + 1, u, o, w[o])
  <2> DEFINE P(k, r, y) == \E w \in Content : \A o \in 1..ChunkTokens :
                              /\ \A x \in Tokens : VramHas(r, k + 1, y, o, x) => w[o] = x
                              /\ w[o] # NoToken => VramHas(r, k + 1, y, o, w[o])
  <2>1. \A k \in Nat : \A r, y : P(k, r, y)
    BY <1>1, CanPromise
  <2>2. P(n, p, u)
    <3> HIDE DEF P
    <3> QED BY <2>1
  <2> QED BY <2>2
<1>9. PICK q : Issue(n, p, c, w, q)
  BY <1>1, <1>2, <1>3, <1>7 DEF Issue
<1>10. /\ q \in Seq(Content) /\ Len(q) = n + 1 /\ Len(sdma') = n + 1 /\ q[n + 1] = w
       /\ sdma'[n + 1] = c
  BY <1>9, Issued
<1>11. \A k \in 1..(n + 1) : \A y, o, x :
          /\ VramHas(p, k, y, o, x) => VramHas(q, k, y, o, x)'
          /\ HostHas(p, k, y, o, x) => HostHas(q, k, y, o, x)'
  BY <1>9, Issued
<1>12. c.kind # "D2H" => \A o, x : w[o] = x => VramHas(q, n + 2, c.dst, o, x)'
  BY <1>9, Issued
<1>13. ASSUME NEW o \in 1..ChunkTokens PROVE KeptAt(q, n + 1, o)'
  <2>1. PICK x : x = w[o]
    OBVIOUS
  <2>2. ASSUME x # NoToken PROVE VramHas(q, n + 1, u, o, x)'
    BY <1>8, <1>11, <2>1, <2>2, n + 1 \in 1..(n + 1)
  <2> QED BY <1>7, <1>10, <2>1, <2>2 DEF KeptAt
<1>14. Kept(q)'
  <2>1. \A g \in evicting : /\ g \in evicting' /\ ref'[g].vram = ref[g].vram
                            /\ ref'[g].host = ref[g].host
    BY <1>1
  <2> QED BY <1>2, <1>9, <1>13, <2>1, IssuedKept
<1>15. ASSUME NEW t \in Seqs, NEW i \in 1..Len(said'[t])
       PROVE  HomeAt(q, ChunkOf(t, i), Offset(i), said[t][i])'
  <2>1. PICK g, o, x : g = ChunkOf(t, i) /\ o = Offset(i) /\ x = said[t][i]
    OBVIOUS
  <2>2. Offset(i)' = o /\ said'[t][i] = x /\ i \in 1..Len(said[t])
    BY <2>1 DEF Offset
  <2>3. g \in Live /\ HomeAt(p, g, o, x) /\ x \in Tokens /\ o \in 1..ChunkTokens
    BY <1>1, <1>2, <2>1, <2>2, TokenPlace DEF AtHome
  <2>4. ChunkOf(t, i)' = g \/ (g = old /\ ChunkOf(t, i)' = f)
    <3>1. \/ ChunkOf(t, i)' = ChunkOf(t, i)
          \/ /\ ChunkOf(t, i) = LastChunk(s) /\ ChunkOf(t, i)' = f
             /\ ref[LastChunk(s)].len # 0
      BY <1>1, <2>2, SwapPlace
    <3> QED BY <2>1, <3>1
  <2>5. CASE ChunkOf(t, i)' = g
    <3>1. ref'[g] = ref[g] /\ c.kind # "D2H" /\ c.dst # ref[g].vram
      BY <1>6, <1>7, <2>3
    <3>2. HomeAt(q, g, o, x)'
      BY <1>9, <2>3, <3>1, IssuedHome
    <3> QED BY <2>2, <2>5, <3>2 DEF HomeAt
  <2>6. CASE g = old /\ ChunkOf(t, i)' = f
    <3>1. VramHas(p, n + 1, u, o, x)
      BY <1>3, <2>3, <2>6 DEF HomeAt
    <3>2. VramHas(q, n + 2, v, o, x)' /\ (n + 1) + 1 = n + 2
      BY <1>7, <1>8, <1>12, <2>3, <3>1
    <3>3. f \notin evicting'
      BY <1>1
    <3>4. HomeAt(q, f, o, x)'
      BY <1>10, <3>2, <3>3 DEF HomeAt
    <3> QED BY <2>2, <2>6, <3>4 DEF HomeAt
  <2> QED BY <2>4, <2>5, <2>6
<1>16. AtHome(q)'
  BY <1>15 DEF AtHome
<1> QED BY <1>10, <1>14, <1>16 DEF ContentInv

(* make_exclusive, its failure included.                                   *)
LEMMA ContentExclusive ==
  ASSUME TiersInv, NEW s \in Seqs, MakeExclusive(s)
  PROVE  ContentInv'
<1>1. PICK old, slot :
      /\ chunks[s] # <<>> /\ old = LastChunk(s) /\ slot = AllocSlot(freeV)
      /\ ref[old].tier = "Vram" /\ StrongCount(old) > 1 /\ freeV # <<>>
      /\ \/ /\ Live # Handles
            /\ ref' = [ref EXCEPT ![FreshHandle] = VramChunk(slot, NoHost, ref[old].len)]
            /\ chunks' = [chunks EXCEPT ![s] = Front(@) \o <<FreshHandle>>]
            /\ sdma' = sdma \o (IF ref[old].len = 0 THEN <<>>
                                ELSE <<[kind |-> "D2D", src |-> ref[old].vram, dst |-> slot]>>)
         \/ UNCHANGED <<ref, chunks, sdma>>
      /\ UNCHANGED <<vram, host, evicting, said>>
  BY DEF MakeExclusive, callerVars
<1>2. /\ OwnershipInv /\ sdma \in Seq(Copy) /\ ref \in [Handles -> ChunkRef]
      /\ chunks \in [Seqs -> Seq(Handles)] /\ ListInv
  BY Promises DEF OwnershipInv
<1>3. CASE UNCHANGED <<ref, chunks, sdma>>
  <2>1. ASSUME NEW t \in Seqs, NEW i \in 1..Len(said[t]) PROVE ChunkOf(t, i)' = ChunkOf(t, i)
    BY <1>3 DEF ChunkOf
  <2> QED BY <1>1, <1>3, <2>1, ContentSame
<1>4. CASE /\ Live # Handles
           /\ ref' = [ref EXCEPT ![FreshHandle] = VramChunk(slot, NoHost, ref[old].len)]
           /\ chunks' = [chunks EXCEPT ![s] = Front(@) \o <<FreshHandle>>]
           /\ sdma' = sdma \o (IF ref[old].len = 0 THEN <<>>
                               ELSE <<[kind |-> "D2D", src |-> ref[old].vram, dst |-> slot]>>)
  <2>1. PICK f \in Handles \ Live : f = FreshHandle
    BY <1>4, FreshIs
  <2>2. chunks' = Swapped(s, f)
    BY <1>4, <2>1 DEF Swapped
  <2>3. IsInjective(chunks[s])
    BY <1>2 DEF ListInv, ListOK
  <2>4. LastReplaced(s, f)
    <3>1. /\ \A j \in 1..(Len(chunks[s]) - 1) : chunks'[s][j] = chunks[s][j]
          /\ chunks'[s][Len(chunks[s])] = f
          /\ \A r \in Seqs : r # s => chunks'[r] = chunks[r]
      BY <1>1, <1>2, <2>2, <2>3, SwapFacts
    <3> QED BY <3>1 DEF LastReplaced
  <2>5. old \in Live /\ \A g \in Live : g \in Handles
    BY <1>1, <1>2, InList DEF Live
  <2>6. /\ ref'[f].tier = "Vram" /\ ref'[f].vram = slot
        /\ \A g \in Live : ref'[g] = ref[g]
    BY <1>2, <1>4, <2>1, <2>5 DEF VramChunk
  <2>7. CASE ref[old].len = 0
    <3>1. sdma' = sdma
      BY <1>2, <1>4, <2>7
    <3>2. ASSUME NEW t \in Seqs, NEW i \in 1..Len(said[t]) PROVE ChunkOf(t, i)' = ChunkOf(t, i)
      <4>1. \/ ChunkOf(t, i)' = ChunkOf(t, i)
            \/ /\ ChunkOf(t, i) = LastChunk(s) /\ ChunkOf(t, i)' = f
               /\ ref[LastChunk(s)].len # 0
        BY <1>2, <2>4, <3>2, SwapPlace
      <4> QED BY <1>1, <2>7, <4>1
    <3> QED BY <1>1, <2>6, <3>1, <3>2, ContentSame
  <2>8. CASE ref[old].len # 0
    <3>1. PICK u : u = ref[old].vram
      OBVIOUS
    <3>2. sdma' = Append(sdma, [kind |-> "D2D", src |-> u, dst |-> slot])
      <4>1. PICK c : c = [kind |-> "D2D", src |-> u, dst |-> slot]
        OBVIOUS
      <4>2. sdma' = sdma \o <<c>>
        BY <1>4, <2>8, <3>1, <4>1
      <4> QED BY <1>2, <4>1, <4>2
    <3> QED BY <1>1, <2>4, <2>5, <2>6, <3>1, <3>2, ContentCopied
  <2> QED BY <2>7, <2>8
<1> QED BY <1>1, <1>3, <1>4

(* A token is not the mark of an empty place.                              *)
LEMMA TokenIs == \A x \in Tokens : x # NoToken
<1> SUFFICES ASSUME NEW s \in Seqs, NEW r \in 0..MaxResets PROVE <<s, r>> # <<>>
  BY DEF Tokens, NoToken
<1>1. Len(<<s, r>>) = 2 /\ Len(<<>>) = 0
  OBVIOUS
<1> QED BY <1>1

(* What is left of the promises when a sequence drops its chunks: those of *)
(* evictions that are still under way.                                     *)
StillPromised(p) ==
    [k \in 1..Len(sdma) |->
        IF sdma[k].kind = "D2H"
           /\ ~\E h \in evicting' : ref[h].vram = sdma[k].src /\ ref[h].host = sdma[k].dst
        THEN NoData ELSE p[k]]

(* SequenceState::reset.                                                   *)
LEMMA ContentReset ==
  ASSUME TiersInv, NEW s \in Seqs, Reset(s)
  PROVE  ContentInv'
<1>1. /\ evicting' = evicting \ Dropped(s)
      /\ ref' = [h \in Handles |-> IF h \in Dropped(s) THEN HostChunk(NoHost) ELSE ref[h]]
      /\ chunks' = [chunks EXCEPT ![s] = <<>>] /\ said' = [said EXCEPT ![s] = <<>>]
      /\ UNCHANGED <<vram, host, sdma>>
  BY DEF Reset, memVars
<1>2. /\ OwnershipInv /\ sdma \in Seq(Copy) /\ evicting \subseteq Live /\ Len(sdma) \in Nat
      /\ chunks \in [Seqs -> Seq(Handles)] /\ said \in [Seqs -> Seq(Tokens)]
      /\ \E p \in Seq(Content) : Len(p) = Len(sdma) /\ Kept(p) /\ AtHome(p)
  BY Promises
<1>3. PICK p \in Seq(Content) : Len(p) = Len(sdma) /\ Kept(p) /\ AtHome(p)
  BY <1>2
<1>4. PICK n \in Nat : n = Len(sdma)
  BY <1>2
<1>5. PICK q : q = StillPromised(p)
  OBVIOUS
<1>6. ASSUME NEW k \in 1..n
      PROVE  /\ q[k] = p[k] \/ (sdma[k].kind = "D2H" /\ q[k] = NoData)
             /\ (sdma[k].kind = "D2H" /\ q[k] # NoData) =>
                   \E h \in evicting' : ref[h].vram = sdma[k].src /\ ref[h].host = sdma[k].dst
             /\ (\E h \in evicting' : ref[h].vram = sdma[k].src /\ ref[h].host = sdma[k].dst)
                   => q[k] = p[k]
  BY <1>4, <1>5, <1>6 DEF StillPromised
<1>7. q \in Seq(Content) /\ Len(q) = n
  <2>1. NoData \in Content
    BY DEF NoData, Content
  <2>2. \A k \in 1..n : q[k] \in Content
    BY <1>3, <1>4, <1>6, <2>1
  <2>3. q = [k \in 1..n |-> q[k]]
    BY <1>4, <1>5 DEF StillPromised
  <2> QED BY <2>2, <2>3
<1>8. \A v : FillersV(v)' = FillersV(v) /\ FillersH(v)' = FillersH(v)
  BY <1>1 DEF FillersV, FillersH
<1>9. ASSUME NEW k \in Nat, NEW v, NEW o, NEW x, VramHas(p, k, v, o, x)
      PROVE  VramHas(q, k, v, o, x)'
  <2>1. PICK F : F = FillersV(v)
    OBVIOUS
  <2>2. F \in SUBSET Nat /\ \A j \in F : j \in 1..n /\ sdma[j].kind # "D2H"
    BY <1>2, <1>4, <2>1, FillersFacts DEF FillersV
  <2>3. SameBefore(F, k, F, k) /\ BringSame(F, k, p, q, o, x)
    BY <1>6, <2>2 DEF SameBefore, BringSame
  <2>4. Has(vram[v][o], F, p, k, o, x)
    BY <1>9, <2>1 DEF VramHas
  <2>5. Has(vram[v][o], F, q, k, o, x)
    BY <2>2, <2>3, <2>4, HasSame
  <2> QED BY <1>1, <1>8, <2>1, <2>5 DEF VramHas
<1>10. \A h \in evicting' : h \in evicting /\ h \in Live /\ ref'[h] = ref[h]
  <2>1. \A h \in evicting' : h \in evicting /\ h \in Live /\ h \in Handles /\ h \notin Dropped(s)
    BY <1>1, <1>2 DEF Live
  <2> QED BY <1>1, <2>1
<1>11. ASSUME NEW k \in 1..n, NEW o \in 1..ChunkTokens PROVE KeptAt(q, k, o)'
  <2>1. KeptAt(p, k, o)
    BY <1>3, <1>4, <1>11 DEF Kept
  <2>2. PICK d, x : d = sdma[k] /\ x = q[k][o]
    OBVIOUS
  <2>3. ASSUME x # NoToken
        PROVE  /\ p[k][o] = x
               /\ d.kind = "D2H" => \E h \in evicting' : ref[h].vram = d.src /\ ref[h].host = d.dst
    <3>1. q[k] # NoData
      BY <1>11, <2>2, <2>3 DEF NoData
    <3> QED BY <1>6, <2>2, <3>1
  <2>4. ASSUME x # NoToken, d.kind = "H2D"
        PROVE  host[d.src][o] = x /\ \A j \in FillersH(d.src) : j >= k
    BY <2>1, <2>2, <2>3, <2>4 DEF KeptAt
  <2>5. ASSUME x # NoToken, d.kind # "H2D" PROVE VramHas(q, k, d.src, o, x)'
    <3>1. VramHas(p, k, d.src, o, x) /\ k \in Nat
      BY <2>1, <2>2, <2>3, <2>5 DEF KeptAt
    <3> QED BY <1>9, <3>1
  <2>6. ASSUME x # NoToken, d.kind = "D2H"
        PROVE  \E h \in evicting' : ref'[h].vram = d.src /\ ref'[h].host = d.dst
    BY <1>10, <2>3, <2>6
  <2>7. sdma'[k] = d
    BY <1>1, <2>2
  <2> QED BY <1>1, <1>8, <2>2, <2>4, <2>5, <2>6, <2>7 DEF KeptAt
<1>12. Kept(q)'
  BY <1>1, <1>4, <1>11 DEF Kept
<1>13. ASSUME NEW g \in evicting', NEW o \in 1..ChunkTokens, NEW x \in Tokens,
              HostHas(p, n + 1, ref[g].host, o, x)
       PROVE  HostHas(q, n + 1, ref[g].host, o, x)
  <2>1. PICK F, m : m = ref[g].host /\ F = FillersH(m)
    OBVIOUS
  <2>2. /\ F \in SUBSET Nat
        /\ \A j \in F : j \in 1..n /\ sdma[j].kind = "D2H" /\ sdma[j].dst = m
    BY <1>2, <1>4, <2>1, FillersFacts DEF FillersH
  <2>3. x # NoToken /\ m # NoHost /\ g \in Live
    <3>1. x # NoToken
      BY TokenIs
    <3> QED BY <1>2, <1>10, <2>1, <3>1 DEF OwnershipInv, EvictInv
  <2>4. ASSUME NEW j \in F, p[j][o] = x PROVE q[j][o] = x
    <3>1. KeptAt(p, j, o)
      BY <1>3, <1>4, <2>2 DEF Kept
    <3>2. PICK h \in evicting : ref[h].vram = sdma[j].src /\ ref[h].host = sdma[j].dst
      BY <2>2, <2>3, <2>4, <3>1 DEF KeptAt
    <3>3. h = g
      <4>1. h \in Live /\ ref[h].host = ref[g].host /\ ref[g].host # NoHost
        BY <1>2, <2>1, <2>2, <2>3, <3>2
      <4> QED BY <1>2, <2>3, <4>1, Apart
    <3>4. q[j] = p[j]
      BY <1>6, <2>2, <3>2, <3>3
    <3> QED BY <2>4, <3>4
  <2>5. SameBefore(F, n + 1, F, n + 1) /\ BringSame(F, n + 1, p, q, o, x)
    BY <2>4 DEF SameBefore, BringSame
  <2>6. Has(host[m][o], F, p, n + 1, o, x) /\ n + 1 \in Nat
    BY <1>13, <2>1 DEF HostHas
  <2>7. Has(host[m][o], F, q, n + 1, o, x)
    BY <2>2, <2>5, <2>6, HasSame
  <2> QED BY <2>1, <2>7 DEF HostHas
<1>14. ASSUME NEW t \in Seqs, NEW i \in 1..Len(said'[t])
       PROVE  HomeAt(q, ChunkOf(t, i), Offset(i), said[t][i])'
  <2>1. t # s
    <3>1. said'[s] = <<>> /\ 1..Len(<<>>) = {}
      BY <1>1, <1>2
    <3> QED BY <1>14, <3>1
  <2>2. said'[t] = said[t] /\ chunks'[t] = chunks[t]
    BY <1>1, <1>2, <2>1
  <2>3. PICK g, o, x : g = ChunkOf(t, i) /\ o = Offset(i) /\ x = said[t][i]
    OBVIOUS
  <2>4. ChunkOf(t, i)' = g /\ Offset(i)' = o /\ said'[t][i] = x /\ i \in 1..Len(said[t])
    BY <1>14, <2>2, <2>3 DEF ChunkOf, Offset
  <2>5. /\ g \in Live /\ HomeAt(p, g, o, x) /\ x \in Tokens /\ o \in 1..ChunkTokens
        /\ t \in Owners(g)
    BY <1>2, <1>3, <2>3, <2>4, TokenPlace DEF AtHome
  <2>6. g \notin Dropped(s) /\ g \in Handles
    BY <2>1, <2>5 DEF Dropped, Live
  <2>7. PICK r : r = ref[g]
    OBVIOUS
  <2>8. ref'[g] = r
    BY <1>1, <2>6, <2>7
  <2>9. ASSUME r.tier = "Vram" PROVE VramHas(q, n + 1, r.vram, o, x)'
    <3>1. VramHas(p, n + 1, r.vram, o, x) /\ n + 1 \in Nat
      BY <1>4, <2>5, <2>7, <2>9 DEF HomeAt
    <3> QED BY <1>9, <3>1
  <2>10. ASSUME r.tier # "Vram" PROVE host'[r.host][o] = x /\ FillersH(r.host)' = {}
    BY <1>1, <1>8, <2>5, <2>7, <2>10 DEF HomeAt
  <2>11. ASSUME g \in evicting' PROVE HostHas(q, n + 1, r.host, o, x)'
    <3>1. HostHas(p, n + 1, r.host, o, x)
      BY <1>4, <1>10, <2>5, <2>7, <2>11 DEF HomeAt
    <3>2. HostHas(q, n + 1, r.host, o, x)
      BY <1>13, <2>5, <2>7, <2>11, <3>1
    <3> QED BY <1>1, <1>8, <3>2 DEF HostHas
  <2>12. HomeAt(q, g, o, x)'
    BY <1>1, <1>4, <2>8, <2>9, <2>10, <2>11 DEF HomeAt
  <2> QED BY <2>4, <2>12 DEF HomeAt
<1>15. AtHome(q)'
  BY <1>14 DEF AtHome
<1> QED BY <1>1, <1>4, <1>7, <1>12, <1>15 DEF ContentInv

(* What a promised copy reads when it is its turn.                         *)
LEMMA SourceIs ==
  ASSUME sdma \in Seq(Copy), sdma # <<>>, NEW p, Kept(p), NEW o \in 1..ChunkTokens,
         p[1][o] # NoToken
  PROVE  Source(sdma[1])[o] = p[1][o]
<1>1. 1 \in 1..Len(sdma)
  OBVIOUS
<1>2. KeptAt(p, 1, o)
  BY <1>1 DEF Kept
<1>3. PICK c, x : c = sdma[1] /\ x = p[1][o]
  OBVIOUS
<1>4. CASE c.kind = "H2D"
  BY <1>2, <1>3, <1>4 DEF KeptAt, Source
<1>5. CASE c.kind # "H2D"
  <2>1. Has(vram[c.src][o], FillersV(c.src), p, 1, o, x)
    BY <1>2, <1>3, <1>5 DEF KeptAt, VramHas
  <2>2. \A j \in FillersV(c.src) : ~(j < 1)
    BY FillersFacts
  <2>3. vram[c.src][o] = x
    BY <2>1, <2>2 DEF Has
  <2> QED BY <1>3, <1>5, <2>3 DEF Source
<1> QED BY <1>4, <1>5

(* The slots a copy names are slots.                                       *)
LEMMA CopySlots ==
  ASSUME NEW c \in Copy
  PROVE  /\ c.kind = "H2D" => c.src \in HostSlots /\ c.dst \in VramSlots
         /\ c.kind = "D2H" => c.src \in VramSlots /\ c.dst \in HostSlots
         /\ c.kind \notin {"H2D", "D2H"} => c.src \in VramSlots /\ c.dst \in VramSlots
BY DEF Copy

(* The oldest copy is done.                                                *)
LEMMA ContentRunCopy ==
  ASSUME TiersInv, RunCopy
  PROVE  ContentInv'
<1>1. PICK c : /\ c = Head(sdma) /\ sdma # <<>> /\ sdma' = Tail(sdma)
               /\ c.kind = "D2H" => host' = [host EXCEPT ![c.dst] = Source(c)] /\ vram' = vram
               /\ c.kind # "D2H" => vram' = [vram EXCEPT ![c.dst] = Source(c)] /\ host' = host
               /\ UNCHANGED <<ref, chunks, evicting, said>>
  BY DEF RunCopy, handleVars, callerVars
<1>2. /\ OwnershipInv /\ sdma \in Seq(Copy) /\ evicting \subseteq Live
      /\ vram \in [VramSlots -> Content] /\ host \in [HostSlots -> Content]
      /\ \E p \in Seq(Content) : Len(p) = Len(sdma) /\ Kept(p) /\ AtHome(p)
  BY Promises
<1>3. PICK p \in Seq(Content) : Len(p) = Len(sdma) /\ Kept(p) /\ AtHome(p)
  BY <1>2
<1>4. PICK n \in Nat : n + 1 = Len(sdma)
  <2>1. Len(sdma) \in Nat /\ Len(sdma) # 0
    BY <1>1, <1>2
  <2>2. Len(sdma) - 1 \in Nat /\ (Len(sdma) - 1) + 1 = Len(sdma)
    BY <2>1
  <2> QED BY <2>2
<1>5. PICK q \in Seq(Content) : Len(q) = n /\ \A j \in 1..n : q[j] = p[j + 1]
  <2>1. p # <<>> /\ Tail(p) \in Seq(Content) /\ Len(Tail(p)) = n
        /\ \A j \in 1..n : Tail(p)[j] = p[j + 1]
    BY <1>3, <1>4
  <2> QED BY <2>1
<1>6. /\ Len(sdma') = n /\ \A j \in 1..n : sdma'[j] = sdma[j + 1] /\ j + 1 \in 1..(n + 1)
      /\ c = sdma[1] /\ c \in Copy /\ 1 \in 1..(n + 1)
  BY <1>1, <1>2, <1>4
<1>7. ASSUME NEW v
      PROVE  /\ FillersV(v) \in SUBSET Nat /\ FillersH(v) \in SUBSET Nat
             /\ 0 \notin FillersV(v) /\ 0 \notin FillersH(v)
             /\ FillersV(v)' \in SUBSET Nat /\ FillersH(v)' \in SUBSET Nat
             /\ FillersV(v)' \subseteq 1..n /\ FillersH(v)' \subseteq 1..n
             /\ \A j \in Nat : j \in FillersV(v)' <=> j >= 1 /\ j + 1 \in FillersV(v)
             /\ \A j \in Nat : j \in FillersH(v)' <=> j >= 1 /\ j + 1 \in FillersH(v)
             /\ 1 \in FillersV(v) <=> c.kind # "D2H" /\ c.dst = v
             /\ 1 \in FillersH(v) <=> c.kind = "D2H" /\ c.dst = v
  <2>1. /\ FillersV(v)' \subseteq 1..n /\ FillersH(v)' \subseteq 1..n
        /\ 1 \in FillersV(v) <=> c.kind # "D2H" /\ c.dst = v
        /\ 1 \in FillersH(v) <=> c.kind = "D2H" /\ c.dst = v
    BY <1>4, <1>6 DEF FillersV, FillersH
  <2> QED BY <1>1, <1>2, <2>1, FillersFacts, FillersDone
<1>8. \A o \in 1..ChunkTokens : p[1][o] # NoToken => Source(c)[o] = p[1][o]
  BY <1>1, <1>2, <1>3, <1>6, SourceIs
<1>9. /\ \A v \in VramSlots : 1 \notin FillersV(v) => vram'[v] = vram[v]
      /\ \A v : 1 \in FillersV(v) => vram'[v] = Source(c)
      /\ \A v \in HostSlots : 1 \notin FillersH(v) => host'[v] = host[v]
      /\ \A v : 1 \in FillersH(v) => host'[v] = Source(c)
  <2>1. /\ c.kind # "D2H" => c.dst \in VramSlots
        /\ c.kind = "D2H" => c.dst \in HostSlots
    BY <1>6, CopySlots
  <2> QED BY <1>1, <1>2, <1>7, <2>1
<1>10. ASSUME NEW k \in Nat, k >= 1, NEW v \in VramSlots, NEW o \in 1..ChunkTokens, NEW x,
              x # NoToken, VramHas(p, k + 1, v, o, x)
       PROVE  VramHas(q, k, v, o, x)'
  <2>1. PICK F, G, now, then : /\ F = FillersV(v) /\ G = FillersV(v)'
                               /\ now = vram[v][o] /\ then = vram'[v][o]
    OBVIOUS
  <2>2. MovedUp(F, G)
    BY <1>7, <2>1 DEF MovedUp
  <2>3. FirstDone(F, p, o, x, now, then)
    BY <1>8, <1>9, <1>10, <2>1 DEF FirstDone
  <2>4. BringMovedUp(G, p, q, o)
    BY <1>5, <1>7, <2>1 DEF BringMovedUp
  <2>5. Has(now, F, p, k + 1, o, x)
    BY <1>10, <2>1 DEF VramHas
  <2>6. PICK l \in Nat : l = k + 1 /\ OneLess(l, k)
    BY <1>10 DEF OneLess
  <2>7. Has(now, F, p, l, o, x)
    BY <2>5, <2>6
  <2>8. Has(then, G, q, k, o, x)
    BY <2>2, <2>3, <2>4, <2>6, <2>7, HasShift
  <2> QED BY <2>1, <2>6, <2>8 DEF VramHas
<1>11. ASSUME NEW k \in Nat, k >= 1, NEW v \in HostSlots, NEW o \in 1..ChunkTokens, NEW x,
              x # NoToken, HostHas(p, k + 1, v, o, x)
       PROVE  HostHas(q, k, v, o, x)'
  <2>1. PICK F, G, now, then : /\ F = FillersH(v) /\ G = FillersH(v)'
                               /\ now = host[v][o] /\ then = host'[v][o]
    OBVIOUS
  <2>2. MovedUp(F, G)
    BY <1>7, <2>1 DEF MovedUp
  <2>3. FirstDone(F, p, o, x, now, then)
    BY <1>8, <1>9, <1>11, <2>1 DEF FirstDone
  <2>4. BringMovedUp(G, p, q, o)
    BY <1>5, <1>7, <2>1 DEF BringMovedUp
  <2>5. Has(now, F, p, k + 1, o, x)
    BY <1>11, <2>1 DEF HostHas
  <2>6. PICK l \in Nat : l = k + 1 /\ OneLess(l, k)
    BY <1>11 DEF OneLess
  <2>7. Has(now, F, p, l, o, x)
    BY <2>5, <2>6
  <2>8. Has(then, G, q, k, o, x)
    BY <2>2, <2>3, <2>4, <2>6, <2>7, HasShift
  <2> QED BY <2>1, <2>6, <2>8 DEF HostHas
<1>12. ASSUME NEW k \in 1..n, NEW o \in 1..ChunkTokens PROVE KeptAt(q, k, o)'
  <2>1. KeptAt(p, k + 1, o)
    BY <1>3, <1>4, <1>6, <1>12 DEF Kept
  <2>2. PICK d, x : d = sdma[k + 1] /\ x = p[k + 1][o]
    OBVIOUS
  <2>3. sdma'[k] = d /\ q[k][o] = x /\ k \in Nat /\ k >= 1 /\ d \in Copy
    BY <1>2, <1>4, <1>5, <1>6, <2>2
  <2>4. ASSUME x # NoToken, d.kind = "H2D"
        PROVE  host'[d.src][o] = x /\ \A j \in FillersH(d.src)' : j >= k
    <3>1. host[d.src][o] = x /\ \A j \in FillersH(d.src) : j >= k + 1
      BY <2>1, <2>2, <2>4 DEF KeptAt
    <3>2. d.src \in HostSlots
      BY <2>3, <2>4, CopySlots
    <3>3. 1 \notin FillersH(d.src)
      BY <2>3, <3>1
    <3>4. ASSUME NEW j \in FillersH(d.src)' PROVE j >= k
      <4>1. j \in Nat /\ j + 1 \in FillersH(d.src)
        BY <1>7, <3>4
      <4> QED BY <2>3, <3>1, <4>1
    <3> QED BY <1>9, <3>1, <3>2, <3>3, <3>4
  <2>5. ASSUME x # NoToken, d.kind # "H2D" PROVE VramHas(q, k, d.src, o, x)'
    <3>1. VramHas(p, k + 1, d.src, o, x)
      BY <2>1, <2>2, <2>5 DEF KeptAt
    <3>2. d.src \in VramSlots
      BY <2>3, <2>5, CopySlots
    <3> QED BY <1>10, <2>3, <2>5, <3>1, <3>2
  <2>6. ASSUME x # NoToken, d.kind = "D2H"
        PROVE  \E h \in evicting' : ref'[h].vram = d.src /\ ref'[h].host = d.dst
    BY <1>1, <2>1, <2>2, <2>6 DEF KeptAt
  <2> QED BY <2>3, <2>4, <2>5, <2>6 DEF KeptAt
<1>13. Kept(q)'
  BY <1>6, <1>12 DEF Kept
<1>14. ASSUME NEW s \in Seqs, NEW i \in 1..Len(said'[s])
       PROVE  HomeAt(q, ChunkOf(s, i), Offset(i), said[s][i])'
  <2>1. PICK g, o, x : g = ChunkOf(s, i) /\ o = Offset(i) /\ x = said[s][i]
    OBVIOUS
  <2>2. ChunkOf(s, i)' = g /\ Offset(i)' = o /\ said'[s][i] = x /\ i \in 1..Len(said[s])
    BY <1>1, <1>14, <2>1 DEF ChunkOf, Offset
  <2>3. g \in Live /\ HomeAt(p, g, o, x) /\ x # NoToken /\ o \in 1..ChunkTokens
    BY <1>2, <1>3, <2>1, <2>2, TokenPlace, TokenIs DEF AtHome
  <2>4. PICK r : r = ref[g]
    OBVIOUS
  <2>5. /\ r.tier = "Vram" => r.vram \in VramSlots
        /\ r.tier # "Vram" \/ g \in evicting => r.host \in HostSlots
    <3>1. g \in evicting => ref[g].host # NoHost
      BY <1>2 DEF OwnershipInv, EvictInv
    <3> QED BY <1>2, <2>3, <2>4, <3>1, Apart
  <2>6. PICK k \in Nat : k = n + 1 /\ k >= 1 /\ k + 1 = (n + 1) + 1
    OBVIOUS
  <2>7. ASSUME r.tier = "Vram" PROVE VramHas(q, k, r.vram, o, x)'
    <3>1. VramHas(p, k + 1, r.vram, o, x)
      BY <1>4, <2>3, <2>4, <2>6, <2>7 DEF HomeAt
    <3> QED BY <1>10, <2>3, <2>5, <2>6, <2>7, <3>1
  <2>8. ASSUME r.tier # "Vram" PROVE host'[r.host][o] = x /\ FillersH(r.host)' = {}
    <3>1. host[r.host][o] = x /\ FillersH(r.host) = {}
      BY <2>3, <2>4, <2>8 DEF HomeAt
    <3>2. host'[r.host] = host[r.host]
      BY <1>9, <2>5, <2>8, <3>1
    <3>3. FillersH(r.host)' = {}
      BY <1>7, <3>1
    <3> QED BY <3>1, <3>2, <3>3
  <2>9. ASSUME g \in evicting PROVE HostHas(q, k, r.host, o, x)'
    <3>1. HostHas(p, k + 1, r.host, o, x)
      BY <1>4, <2>3, <2>4, <2>6, <2>9 DEF HomeAt
    <3> QED BY <1>11, <2>3, <2>5, <2>6, <2>9, <3>1
  <2>10. HomeAt(q, g, o, x)'
    BY <1>1, <1>6, <2>4, <2>6, <2>7, <2>8, <2>9 DEF HomeAt
  <2> QED BY <2>2, <2>10 DEF HomeAt
<1>15. AtHome(q)'
  BY <1>14 DEF AtHome
<1> QED BY <1>5, <1>6, <1>13, <1>15 DEF ContentInv

(* The caller flushes after make_exclusive as well.                        *)
FlushesCow == FlushAfterCow = TRUE

(* A step runs only when nothing still fills the slots it reads, and no    *)
(* copy-on-write is under way.                                             *)
LEMMA DispatchWaits ==
  ASSUME OwnershipInv, FlushesCow, NEW s \in Seqs, Dispatch(s)
  PROVE  /\ \A k \in 1..Len(sdma) : sdma[k].kind # "D2D"
         /\ \A i \in 1..Len(chunks[s]) : FillersV(ref[chunks[s][i]].vram) = {}
<1>1. MustFlush(s) => sdma = <<>>
  BY DEF Dispatch, FlushTierOps
<1>2. sdma = <<>> => 1..Len(sdma) = {}
  OBVIOUS
<1>3. ~\E k \in 1..Len(sdma) :
          \/ FlushAfterCow /\ sdma[k].kind = "D2D"
          \/ /\ sdma[k].kind # "D2H"
             /\ \E i \in 1..Len(chunks[s]) : ref[chunks[s][i]].vram = sdma[k].dst
  BY <1>1, <1>2 DEF MustFlush
<1>4. \A k \in 1..Len(sdma) : sdma[k].kind # "D2D"
  BY <1>3 DEF FlushesCow
<1>5. ASSUME NEW i \in 1..Len(chunks[s]), NEW k \in FillersV(ref[chunks[s][i]].vram) PROVE FALSE
  BY <1>3, <1>5 DEF FillersV
<1> QED BY <1>4, <1>5

(* The step writes one token where no other one lies, and no copy reads.   *)
LEMMA ContentDispatch ==
  ASSUME TiersInv, FlushesCow, NEW s \in Seqs, Dispatch(s)
  PROVE  ContentInv'
<1>1. PICK last, new : last = LastChunk(s) /\ new = <<s, conv[s]>>
  OBVIOUS
<1>2. PICK v, l : v = ref[last].vram /\ l = ref[last].len
  OBVIOUS
<1>3. /\ unwritten[s] /\ \A i \in 1..Len(chunks[s]) : ref[chunks[s][i]].tier = "Vram"
      /\ vram' = [vram EXCEPT ![v][l] = new] /\ said' = [said EXCEPT ![s] = Append(@, new)]
      /\ UNCHANGED <<ref, chunks, host, sdma, evicting>>
  BY <1>1, <1>2 DEF Dispatch
<1>4. /\ OwnershipInv /\ sdma \in Seq(Copy) /\ evicting \subseteq Live
      /\ chunks \in [Seqs -> Seq(Handles)] /\ said \in [Seqs -> Seq(Tokens)]
      /\ vram \in [VramSlots -> Content] /\ ListOK(s) /\ EvictInv
      /\ \E p \in Seq(Content) : Len(p) = Len(sdma) /\ Kept(p) /\ AtHome(p)
  BY Promises DEF OwnershipInv, ListInv
<1>5. PICK p \in Seq(Content) : Len(p) = Len(sdma) /\ Kept(p) /\ AtHome(p)
  BY <1>4
<1>6. chunks[s] # <<>> /\ Owners(last) = {s} /\ IsInjective(chunks[s])
  BY <1>1, <1>3, <1>4 DEF ListOK
<1>7. /\ Len(chunks[s]) \in Nat /\ Len(chunks[s]) \in 1..Len(chunks[s])
      /\ last = chunks[s][Len(chunks[s])] /\ last \in Live
  BY <1>1, <1>4, <1>6, InList DEF LastChunk
<1>8. ref[last].tier = "Vram" /\ v \in VramSlots /\ v # NoVram
  BY <1>2, <1>3, <1>4, <1>7, Apart
<1>9. /\ \A k \in 1..Len(sdma) : sdma[k].kind # "D2D"
      /\ FillersV(v) = {}
  BY <1>2, <1>4, <1>7, DispatchWaits
<1>10. /\ ChunkOf(s, Len(said[s]) + 1) = last /\ Offset(Len(said[s]) + 1) = l
       /\ l \in 1..ChunkTokens
  BY <1>1, <1>2, <1>3, <1>4, NextPlace
<1>11. vram[v] \in [1..ChunkTokens -> Tokens \cup {NoToken}]
  BY <1>4, <1>8 DEF Content
<1>12. /\ \A u \in VramSlots : u # v => vram'[u] = vram[u]
       /\ \A o \in 1..ChunkTokens : o # l => vram'[v][o] = vram[v][o]
       /\ vram'[v][l] = new
  BY <1>3, <1>4, <1>8, <1>10, <1>11
<1>13. last \notin evicting
  BY <1>1, <1>3, <1>4 DEF EvictInv
<1>14. \A u : FillersV(u)' = FillersV(u) /\ FillersH(u)' = FillersH(u)
  BY <1>3 DEF FillersV, FillersH
<1>15. ASSUME NEW k, NEW u, NEW o, NEW x, VramHas(p, k, u, o, x), vram'[u][o] = vram[u][o]
       PROVE  VramHas(p, k, u, o, x)'
  BY <1>14, <1>15 DEF VramHas
<1>16. \A k, u, o, x : HostHas(p, k, u, o, x)' <=> HostHas(p, k, u, o, x)
  BY <1>3, <1>14 DEF HostHas
<1>17. ASSUME NEW k \in 1..Len(sdma), NEW o \in 1..ChunkTokens PROVE KeptAt(p, k, o)'
  <2>1. KeptAt(p, k, o)
    BY <1>5, <1>17 DEF Kept
  <2>2. PICK d, x : d = sdma[k] /\ x = p[k][o]
    OBVIOUS
  <2>3. d \in Copy /\ d.kind # "D2D" /\ (d.kind = "H2D" \/ d.kind = "D2H")
    BY <1>4, <1>9, <1>17, <2>2 DEF Copy
  <2>4. ASSUME x # NoToken, d.kind = "D2H" PROVE VramHas(p, k, d.src, o, x)'
    <3>1. VramHas(p, k, d.src, o, x)
      BY <2>1, <2>2, <2>4 DEF KeptAt
    <3>2. PICK h \in evicting : ref[h].vram = d.src /\ ref[h].host = d.dst
      BY <2>1, <2>2, <2>4 DEF KeptAt
    <3>3. h \in Live /\ h # last
      BY <1>4, <1>13
    <3>4. d.src # v
      BY <1>2, <1>4, <1>7, <1>8, <3>2, <3>3, Apart
    <3>5. d.src \in VramSlots
      BY <2>3, <2>4, CopySlots
    <3> QED BY <1>12, <1>15, <3>1, <3>4, <3>5
  <2>5. ASSUME x # NoToken, d.kind = "H2D"
        PROVE  host'[d.src][o] = x /\ \A j \in FillersH(d.src)' : j >= k
    BY <1>3, <1>14, <2>1, <2>2, <2>5 DEF KeptAt
  <2>6. ASSUME x # NoToken, d.kind = "D2H"
        PROVE  \E h \in evicting' : ref'[h].vram = d.src /\ ref'[h].host = d.dst
    BY <1>3, <2>1, <2>2, <2>6 DEF KeptAt
  <2> QED BY <1>3, <2>2, <2>3, <2>4, <2>5, <2>6 DEF KeptAt
<1>18. Kept(p)'
  BY <1>3, <1>17 DEF Kept
<1>19. ASSUME NEW t \in Seqs, NEW i \in 1..Len(said[t]), NEW g, NEW o, NEW x,
              g = ChunkOf(t, i), o = Offset(i), x = said[t][i]
       PROVE  HomeAt(p, g, o, x)'
  <2>1. g \in Live /\ HomeAt(p, g, o, x) /\ x \in Tokens /\ o \in 1..ChunkTokens /\ t \in Owners(g)
    BY <1>4, <1>5, <1>19, TokenPlace DEF AtHome
  <2>2. PICK r : r = ref[g]
    OBVIOUS
  <2>3. r.tier = "Vram" => vram'[r.vram][o] = vram[r.vram][o]
    <3>1. CASE g = last
      <4>1. t = s
        BY <1>6, <2>1, <3>1
      <4>2. PICK k \in 1..Len(chunks[s]) :
               /\ ChunkOf(s, i) = chunks[s][k]
               /\ k = Len(chunks[s]) => (unwritten[s] => Offset(i) < ref[LastChunk(s)].len)
        BY <1>4, <1>19, <4>1, TokenPlace
      <4>3. k = Len(chunks[s])
        <5>1. PICK c \in Seq(Handles) : c = chunks[s]
          BY <1>4
        <5>2. \A a, b \in 1..Len(c) : c[a] = c[b] => a = b
          BY <1>6, <5>1 DEF IsInjective
        <5>3. c[k] = c[Len(c)] /\ Len(c) \in 1..Len(c) /\ k \in 1..Len(c)
          BY <1>7, <1>19, <3>1, <4>1, <4>2, <5>1
        <5> QED BY <5>1, <5>2, <5>3
      <4>4. o < l
        BY <1>1, <1>2, <1>3, <1>19, <4>2, <4>3
      <4>5. o # l
        BY <1>10, <2>1, <4>4
      <4> QED BY <1>2, <1>12, <2>1, <2>2, <3>1, <4>5
    <3>2. CASE g # last
      <4>1. r.tier = "Vram" => r.vram \in VramSlots /\ r.vram # v
        BY <1>2, <1>4, <1>7, <1>8, <2>1, <2>2, <3>2, Apart
      <4> QED BY <1>12, <4>1
    <3> QED BY <3>1, <3>2
  <2>4. ASSUME r.tier = "Vram" PROVE VramHas(p, Len(sdma) + 1, r.vram, o, x)'
    <3>1. PICK k : k = Len(sdma) + 1
      OBVIOUS
    <3>2. VramHas(p, k, r.vram, o, x)
      BY <2>1, <2>2, <2>4, <3>1 DEF HomeAt
    <3>3. VramHas(p, k, r.vram, o, x)'
      BY <1>15, <2>3, <2>4, <3>2
    <3> QED BY <1>3, <3>1, <3>3
  <2>5. ASSUME r.tier # "Vram" PROVE host'[r.host][o] = x /\ FillersH(r.host)' = {}
    BY <1>3, <1>14, <2>1, <2>2, <2>5 DEF HomeAt
  <2>6. ASSUME g \in evicting PROVE HostHas(p, Len(sdma) + 1, r.host, o, x)'
    <3>1. PICK k : k = Len(sdma) + 1
      OBVIOUS
    <3>2. HostHas(p, k, r.host, o, x)
      BY <2>1, <2>2, <2>6, <3>1 DEF HomeAt
    <3>3. HostHas(p, k, r.host, o, x)'
      BY <1>16, <3>2
    <3> QED BY <1>3, <3>1, <3>3
  <2> QED BY <1>3, <2>2, <2>4, <2>5, <2>6 DEF HomeAt
<1>20. ASSUME NEW t \in Seqs, NEW i \in 1..Len(said'[t])
       PROVE  HomeAt(p, ChunkOf(t, i), Offset(i), said[t][i])'
  <2>1. ChunkOf(t, i)' = ChunkOf(t, i) /\ Offset(i)' = Offset(i)
    BY <1>3 DEF ChunkOf, Offset
  <2>2. CASE i \in 1..Len(said[t])
    <3>1. PICK g, o, x : g = ChunkOf(t, i) /\ o = Offset(i) /\ x = said[t][i]
      OBVIOUS
    <3>2. said'[t][i] = x
      BY <1>3, <1>4, <2>2, <3>1
    <3>3. HomeAt(p, g, o, x)'
      BY <1>19, <2>2, <3>1
    <3> QED BY <2>1, <3>1, <3>2, <3>3 DEF HomeAt
  <2>3. CASE i \notin 1..Len(said[t])
    <3>1. t = s /\ i = Len(said[s]) + 1
      <4>1. /\ t # s => said'[t] = said[t]
            /\ said[s] \in Seq(Tokens) /\ said'[s] = Append(said[s], new)
        BY <1>3, <1>4
      <4>2. Len(said[s]) \in Nat /\ Len(said'[s]) = Len(said[s]) + 1
        BY <4>1
      <4> QED BY <1>20, <2>3, <4>1, <4>2
    <3>2. said'[t][i] = new
      BY <1>3, <1>4, <3>1
    <3>3. ChunkOf(t, i) = last /\ Offset(i) = l
      BY <1>10, <3>1
    <3>4. VramHas(p, Len(sdma) + 1, v, l, new)'
      BY <1>9, <1>12, <1>14 DEF VramHas, Has
    <3>5. HomeAt(p, last, l, new)'
      BY <1>2, <1>3, <1>8, <1>13, <3>4 DEF HomeAt
    <3> QED BY <2>1, <3>2, <3>3, <3>5 DEF HomeAt
  <2> QED BY <2>2, <2>3
<1>21. AtHome(p)'
  BY <1>20 DEF AtHome
<1> QED BY <1>3, <1>5, <1>18, <1>21 DEF ContentInv

(* Nothing is written and nothing in flight at the start.                  *)
LEMMA ContentInit ==
  ASSUME Init PROVE ContentInv
<1>1. sdma = <<>> /\ Len(sdma) = 0 /\ 1..0 = {} /\ \A s \in Seqs : said[s] = <<>> /\ Len(said[s]) = 0
  BY DEF Init
<1>2. PICK p \in Seq(Content) : Len(p) = 0
  <2>1. <<>> \in Seq(Content) /\ Len(<<>>) = 0
    OBVIOUS
  <2> QED BY <2>1
<1>3. Kept(p) /\ AtHome(p)
  BY <1>1 DEF Kept, AtHome
<1> QED BY <1>1, <1>2, <1>3 DEF ContentInv

(* Every step keeps the tokens.                                            *)
LEMMA ContentNext ==
  ASSUME TiersInv, FlushesCow, [Next]_vars
  PROVE  ContentInv'
<1>1. ASSUME NEW s \in Seqs, AllocWithHostBacking(s) PROVE ContentInv'
  BY <1>1, ContentAlloc
<1>2. ASSUME NEW s \in Seqs, AppendToken(s) PROVE ContentInv'
  BY <1>2, ContentAppend
<1>3. ASSUME NEW s \in Seqs, MakeExclusive(s) PROVE ContentInv'
  BY <1>3, ContentExclusive
<1>4. ASSUME NEW s \in Seqs, Reset(s) PROVE ContentInv'
  BY <1>4, ContentReset
<1>5. ASSUME NEW s \in Seqs, Dispatch(s) PROVE ContentInv'
  BY <1>5, ContentDispatch
<1>6. ASSUME NEW s \in Seqs, NEW t \in Seqs \ {s}, Fork(s, t) PROVE ContentInv'
  BY <1>6, ContentFork
<1>7. ASSUME NEW h \in Handles, Promote(h) PROVE ContentInv'
  BY <1>7, ContentPromote
<1>8. ASSUME NEW h \in Handles, Evict(h) PROVE ContentInv'
  BY <1>8, ContentEvict
<1>9. ASSUME NEW h \in Handles, FreeEvicted(h) PROVE ContentInv'
  BY <1>9, ContentFreeEvicted
<1>10. ASSUME NEW h \in Handles, EvictAndFree(h) PROVE ContentInv'
  BY <1>10, ContentEvictAndFree
<1>11. CASE RunCopy
  BY <1>11, ContentRunCopy
<1>12. CASE UNCHANGED vars
  <2>1. UNCHANGED <<ref, chunks, vram, host, sdma, evicting, said>>
    BY <1>12 DEF vars, handleVars, memVars, callerVars
  <2>2. ASSUME NEW t \in Seqs, NEW i \in 1..Len(said[t]) PROVE ChunkOf(t, i)' = ChunkOf(t, i)
    BY <2>1 DEF ChunkOf
  <2> QED BY <2>1, <2>2, ContentSame
<1> QED BY <1>1, <1>2, <1>3, <1>4, <1>5, <1>6, <1>7, <1>8, <1>9, <1>10, <1>11, <1>12 DEF Next

(* With a flush after make_exclusive, the whole invariant is inductive:    *)
(* ownership, and for every copy in flight what it is known to bring.      *)
THEOREM TiersInvariant ==
  ASSUME FlushesCow
  PROVE  Spec => []TiersInv
<1>1. Init => TiersInv
  BY OwnInit, ContentInit DEF TiersInv
<1>2. TiersInv /\ [Next]_vars => TiersInv'
  BY OwnNext, ContentNext DEF TiersInv
<1> QED BY <1>1, <1>2, PTL DEF Spec

(* No copy in flight loses a token, whatever sequences share, promote,     *)
(* evict and reset in between: when the stream is idle every written token *)
(* is in the pool its chunk's tier names (make_exclusive, promote_chunk,   *)
(* evict_chunk, evict_chunk_and_free, SequenceState::reset).               *)
THEOREM HomeTheorem ==
  ASSUME FlushesCow
  PROVE  Spec => []EveryTokenHasAHome
<1>1. ASSUME TiersInv PROVE EveryTokenHasAHome
  <2>1. ASSUME sdma = <<>>, NEW s \in Seqs, NEW i \in 1..Len(said[s]), NEW c, c = ref[ChunkOf(s, i)]
        PROVE  (IF c.tier = "Vram" THEN vram[c.vram] ELSE host[c.host])[Offset(i)] = said[s][i]
    <3>1. PICK p : AtHome(p)
      BY <1>1, Promises
    <3>2. HomeAt(p, ChunkOf(s, i), Offset(i), said[s][i])
      BY <3>1 DEF AtHome
    <3>3. /\ \A q, k, v, o, x : VramHas(q, k, v, o, x) <=> vram[v][o] = x
      BY <2>1, Idle
    <3>4. CASE c.tier = "Vram"
      BY <2>1, <3>2, <3>3, <3>4 DEF HomeAt
    <3>5. CASE c.tier # "Vram"
      BY <2>1, <3>2, <3>5 DEF HomeAt
    <3> QED BY <3>4, <3>5
  <2> QED BY <2>1 DEF EveryTokenHasAHome
<1> QED BY <1>1, TiersInvariant, PTL

(* A dispatched step attends to its own conversation: no slot of its page  *)
(* table is one that a promotion or a copy-on-write is still filling       *)
(* (contract 6 of promote_chunk).                                          *)
THEOREM DispatchTheorem ==
  ASSUME FlushesCow
  PROVE  Spec => DispatchReadsConversation
<1>1. ASSUME TiersInv, NEW s \in Seqs, Dispatch(s) PROVE Attended(s, Len(said[s])) = said[s]
  <2>1. /\ OwnershipInv /\ said \in [Seqs -> Seq(Tokens)] /\ chunks \in [Seqs -> Seq(Handles)]
        /\ \E p \in Seq(Content) : Len(p) = Len(sdma) /\ Kept(p) /\ AtHome(p)
    BY <1>1, Promises
  <2>2. PICK p : AtHome(p)
    BY <2>1
  <2>3. /\ \A i \in 1..Len(chunks[s]) : ref[chunks[s][i]].tier = "Vram"
        /\ \A i \in 1..Len(chunks[s]) : FillersV(ref[chunks[s][i]].vram) = {}
    BY <1>1, <2>1, DispatchWaits DEF Dispatch
  <2>4. ASSUME NEW i \in 1..Len(said[s])
        PROVE  vram[ref[ChunkOf(s, i)].vram][Offset(i)] = said[s][i]
    <3>1. PICK g, o, x : g = ChunkOf(s, i) /\ o = Offset(i) /\ x = said[s][i]
      OBVIOUS
    <3>2. HomeAt(p, g, o, x)
      BY <2>2, <3>1 DEF AtHome
    <3>3. ref[g].tier = "Vram" /\ FillersV(ref[g].vram) = {}
      <4>1. \E k \in 1..Len(chunks[s]) : ChunkOf(s, i) = chunks[s][k]
        BY <2>1, TokenPlace
      <4> QED BY <2>3, <3>1, <4>1
    <3>4. vram[ref[g].vram][o] = x
      BY <3>2, <3>3 DEF HomeAt, VramHas, Has
    <3> QED BY <3>1, <3>4
  <2>5. said[s] \in Seq(Tokens) /\ said[s] = [i \in 1..Len(said[s]) |-> said[s][i]]
    BY <2>1
  <2>6. PICK n, q : n = Len(said[s]) /\ q = said[s]
    OBVIOUS
  <2>7. Attended(s, n) = [i \in 1..n |-> q[i]]
    BY <2>4, <2>6 DEF Attended
  <2> QED BY <2>5, <2>6, <2>7
<1>2. TiersInv /\ [Next]_vars =>
         [\A s \in Seqs : Dispatch(s) => Attended(s, Len(said[s])) = said[s]]_vars
  BY <1>1
<1> QED BY <1>2, TiersInvariant, PTL DEF Spec, DispatchReadsConversation
============================================================================
