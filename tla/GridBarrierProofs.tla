------------------------- MODULE GridBarrierProofs -------------------------
(***************************************************************************)
(* Proofs about atomic_block_barrier for every number of blocks and every  *)
(* generation modulus of at least 2: BarrierInv is inductive, and the      *)
(* barrier implements AbstractBarrier.                                     *)
(***************************************************************************)
EXTENDS GridBarrier, FiniteSetTheorems, TLAPS

\* The next generation is a generation, and never the current one.
LEMMA NextGenFacts ==
    ASSUME NEW g \in 0..(GenModulus - 1)
    PROVE  /\ NextGen(g) \in 0..(GenModulus - 1)
           /\ NextGen(g) # g
<1>1. GenModulus \in Nat /\ GenModulus >= 2
  BY GenAssumption
<1>2. CASE g = GenModulus - 1
  <2>1. NextGen(g) = 0
    BY <1>1, <1>2 DEF NextGen
  <2>2. QED
    BY <1>1, <1>2, <2>1
<1>3. CASE g < GenModulus - 1
  <2>1. NextGen(g) = g + 1
    BY <1>1, <1>3 DEF NextGen
  <2>2. QED
    BY <1>1, <1>3, <2>1
<1>4. QED
  BY <1>1, <1>2, <1>3

\* The grid has a positive, finite number of blocks, and no proper subset of
\* it has as many.
LEMMA GridSize ==
    /\ Cardinality(Blocks) \in Nat \ {0}
    /\ \A S \in SUBSET Blocks :
         /\ IsFiniteSet(S)
         /\ Cardinality(S) \in 0..Cardinality(Blocks)
         /\ Cardinality(S) = Cardinality(Blocks) => S = Blocks
<1>1. IsFiniteSet(Blocks) /\ Blocks # {}
  BY BlocksAssumption
<1>2. Cardinality(Blocks) \in Nat /\ Cardinality(Blocks) # 0
  BY <1>1, FS_CardinalityType, FS_EmptySet
<1>3. ASSUME NEW S \in SUBSET Blocks
      PROVE  /\ IsFiniteSet(S)
             /\ Cardinality(S) \in 0..Cardinality(Blocks)
             /\ Cardinality(S) = Cardinality(Blocks) => S = Blocks
  <2>1. IsFiniteSet(S) /\ Cardinality(S) <= Cardinality(Blocks)
    BY <1>1, FS_Subset
  <2>2. Cardinality(S) = Cardinality(Blocks) => S = Blocks
    BY <1>1, FS_Subset
  <2>3. Cardinality(S) \in Nat
    BY <2>1, FS_CardinalityType
  <2>4. QED
    BY <1>2, <2>1, <2>2, <2>3
<1>4. QED
  BY <1>2, <1>3

\* BarrierInv holds when the grid starts.
LEMMA InitBarrierInv == Init => BarrierInv
<1> SUFFICES ASSUME Init PROVE BarrierInv
  OBVIOUS
<1> USE GenAssumption DEF Init
<1>1. Waiting = {} /\ Closing = {}
  BY DEF Waiting, Closing
<1>2. TypeOK
  BY GridSize DEF TypeOK, Locations
<1>3. ResetIsExclusive /\ TargetsAreNext
  BY <1>1 DEF ResetIsExclusive, TargetsAreNext
<1>4. ArrivedCountsWaiters
  BY <1>1, FS_EmptySet DEF ArrivedCountsWaiters
<1>5. QED
  BY <1>2, <1>3, <1>4 DEF BarrierInv

\* BarrierInv is preserved by every access a block leader makes.
LEMMA StepBarrierInv == BarrierInv /\ [Next]_vars => BarrierInv'
<1> SUFFICES ASSUME BarrierInv, [Next]_vars PROVE BarrierInv'
  OBVIOUS
<1> USE DEF BarrierInv
<1>1. GenModulus \in Nat /\ GenModulus >= 2
  BY GenAssumption
<1>2. generation \in 0..(GenModulus - 1) /\ NextGen(generation) \in 0..(GenModulus - 1)
      /\ NextGen(generation) # generation
  BY NextGenFacts DEF TypeOK
<1>3. Waiting \in SUBSET Blocks /\ Closing \in SUBSET Blocks
  BY DEF Waiting, Closing
<1>4. ASSUME NEW b \in Blocks, Enter(b) PROVE BarrierInv'
  <2>1. Waiting' = Waiting /\ Closing' = Closing
    BY <1>4 DEF Enter, Waiting, Closing, TypeOK
  <2>2. TypeOK'
    BY <1>4 DEF Enter, TypeOK, Locations
  <2>3. ResetIsExclusive' /\ TargetsAreNext'
    BY <1>4, <2>1 DEF Enter, ResetIsExclusive, TargetsAreNext, TypeOK
  <2>4. (\E c \in Closing : pc[c] = "flip")' <=> (\E c \in Closing : pc[c] = "flip")
    BY <1>4, <2>1 DEF Enter, Closing, TypeOK
  <2>5. ArrivedCountsWaiters'
    BY <1>4, <2>1, <2>4 DEF Enter, ArrivedCountsWaiters
  <2>6. QED
    BY <2>2, <2>3, <2>5
<1>5. ASSUME NEW b \in Blocks, LoadGeneration(b) PROVE BarrierInv'
  <2>1. Waiting' = Waiting /\ Closing' = Closing
    BY <1>5 DEF LoadGeneration, Waiting, Closing, TypeOK
  <2>2. TypeOK'
    BY <1>2, <1>5 DEF LoadGeneration, TypeOK, Locations
  <2>3. ResetIsExclusive' /\ TargetsAreNext'
    BY <1>5, <2>1 DEF LoadGeneration, ResetIsExclusive, TargetsAreNext, TypeOK
  <2>4. (\E c \in Closing : pc[c] = "flip")' <=> (\E c \in Closing : pc[c] = "flip")
    BY <1>5, <2>1 DEF LoadGeneration, Closing, TypeOK
  <2>5. ArrivedCountsWaiters'
    BY <1>5, <2>1, <2>4 DEF LoadGeneration, ArrivedCountsWaiters
  <2>6. QED
    BY <2>2, <2>3, <2>5
<1>6. ASSUME NEW b \in Blocks, Arrive(b) PROVE BarrierInv'
  \* Nobody is closing, because b is not waiting; b joins the waiting blocks.
  <2>1. b \notin Waiting /\ Closing = {}
    BY <1>6 DEF Arrive, Waiting, Closing, ResetIsExclusive
  <2>2. target_gen[b] = NextGen(generation)
    BY <1>6 DEF Arrive, TargetsAreNext
  <2>3. arrived = Cardinality(Waiting) /\ IsFiniteSet(Waiting)
    <3>1. Waiting \union Closing = Waiting
      BY <2>1
    <3>2. QED
      BY <1>3, <2>1, <3>1, GridSize DEF ArrivedCountsWaiters
  <2>4. /\ Cardinality(Waiting \union {b}) = arrived + 1
        /\ Waiting \union {b} \in SUBSET Blocks
    BY <1>3, <2>1, <2>3, FS_AddElement
  <2>5. arrived + 1 \in 0..Cardinality(Blocks)
    BY <2>4, GridSize
  <2>6. TypeOK'
    BY <1>6, <2>5 DEF Arrive, TypeOK, Locations
  <2>7. TargetsAreNext'
    BY <1>6, <2>2 DEF Arrive, TargetsAreNext, TypeOK
  <2>8. CASE arrived + 1 = Cardinality(Blocks)
    <3>1. pc' = [pc EXCEPT ![b] = "reset"] /\ UNCHANGED <<generation, target_gen>>
          /\ arrived' = arrived + 1
      BY <1>6, <2>8 DEF Arrive
    <3>2. Waiting \union {b} = Blocks
      BY <2>4, <2>8, GridSize
    <3>3. Waiting' = Waiting /\ Closing' = {b}
      BY <1>6, <2>1, <3>1 DEF Arrive, Waiting, Closing, TypeOK
    <3>4. ResetIsExclusive'
      BY <3>2, <3>3 DEF ResetIsExclusive
    <3>5. ArrivedCountsWaiters'
      <4>1. ~(\E c \in Closing : pc[c] = "flip")'
        BY <3>1, <3>3 DEF TypeOK
      <4>2. (Waiting \union Closing)' = Waiting \union {b}
        BY <3>3
      <4>3. QED
        BY <2>4, <3>1, <4>1, <4>2 DEF ArrivedCountsWaiters
    <3>6. QED
      BY <2>6, <2>7, <3>4, <3>5
  <2>9. CASE arrived + 1 # Cardinality(Blocks)
    <3>1. pc' = [pc EXCEPT ![b] = "spin"] /\ UNCHANGED <<generation, target_gen>>
          /\ arrived' = arrived + 1
      BY <1>6, <2>9 DEF Arrive
    <3>2. Waiting' = Waiting \union {b} /\ Closing' = {}
      BY <1>2, <1>6, <2>1, <2>2, <3>1 DEF Arrive, Waiting, Closing, TypeOK
    <3>3. ResetIsExclusive'
      BY <3>2 DEF ResetIsExclusive
    <3>4. ArrivedCountsWaiters'
      <4>1. (Waiting \union Closing)' = Waiting \union {b}
        BY <3>2
      <4>2. QED
        BY <2>4, <3>1, <3>2, <4>1 DEF ArrivedCountsWaiters
    <3>5. QED
      BY <2>6, <2>7, <3>3, <3>4
  <2>10. QED
    BY <2>8, <2>9
<1>7. ASSUME NEW b \in Blocks, ResetArrived(b) PROVE BarrierInv'
  <2>1. Waiting' = Waiting /\ Closing' = Closing /\ b \in Closing
    BY <1>7 DEF ResetArrived, Waiting, Closing, TypeOK
  <2>2. TypeOK'
    BY <1>7, GridSize DEF ResetArrived, TypeOK, Locations
  <2>3. ResetIsExclusive' /\ TargetsAreNext'
    BY <1>7, <2>1 DEF ResetArrived, ResetIsExclusive, TargetsAreNext, TypeOK
  <2>4. ArrivedCountsWaiters'
    <3>1. pc'[b] = "flip" /\ arrived' = 0
      BY <1>7 DEF ResetArrived, TypeOK
    <3>2. QED
      BY <2>1, <3>1 DEF ArrivedCountsWaiters
  <2>5. QED
    BY <2>2, <2>3, <2>4
<1>8. ASSUME NEW b \in Blocks, FlipGeneration(b) PROVE BarrierInv'
  \* Every other block waits for exactly the phase that is opened.
  <2>1. b \in Closing /\ target_gen[b] = NextGen(generation)
    BY <1>8 DEF FlipGeneration, Closing, TargetsAreNext
  <2>2. \A c \in Blocks \ {b} : pc[c] = "spin" /\ target_gen[c] = NextGen(generation)
    BY <2>1 DEF ResetIsExclusive, Waiting, TargetsAreNext
  <2>3. arrived = 0 /\ arrived' = 0
    BY <1>8, <2>1 DEF FlipGeneration, ArrivedCountsWaiters
  <2>4. generation' = NextGen(generation) /\ pc' = [pc EXCEPT ![b] = "out"]
        /\ target_gen' = target_gen
    BY <1>8, <2>1 DEF FlipGeneration
  <2>5. Waiting' = {} /\ Closing' = {}
    BY <2>2, <2>4 DEF Waiting, Closing, TypeOK
  <2>6. TypeOK'
    BY <1>2, <2>3, <2>4 DEF TypeOK, Locations
  <2>7. ResetIsExclusive' /\ TargetsAreNext'
    BY <2>2, <2>4, <2>5 DEF ResetIsExclusive, TargetsAreNext, TypeOK
  <2>8. ArrivedCountsWaiters'
    <3>1. (Waiting \union Closing)' = {}
      BY <2>5
    <3>2. QED
      BY <2>3, <2>5, <3>1, FS_EmptySet DEF ArrivedCountsWaiters
  <2>9. QED
    BY <2>6, <2>7, <2>8
<1>9. ASSUME NEW b \in Blocks, SpinExit(b) PROVE BarrierInv'
  <2>1. Waiting' = Waiting /\ Closing' = Closing
    BY <1>9 DEF SpinExit, Waiting, Closing, TypeOK
  <2>2. TypeOK'
    BY <1>9 DEF SpinExit, TypeOK, Locations
  <2>3. ResetIsExclusive' /\ TargetsAreNext'
    BY <1>9, <2>1 DEF SpinExit, ResetIsExclusive, TargetsAreNext, TypeOK
  <2>4. (\E c \in Closing : pc[c] = "flip")' <=> (\E c \in Closing : pc[c] = "flip")
    BY <1>9, <2>1 DEF SpinExit, Closing, TypeOK
  <2>5. ArrivedCountsWaiters'
    BY <1>9, <2>1, <2>4 DEF SpinExit, ArrivedCountsWaiters
  <2>6. QED
    BY <2>2, <2>3, <2>5
<1>10. ASSUME UNCHANGED vars PROVE BarrierInv'
  BY <1>10 DEF vars, TypeOK, ResetIsExclusive, TargetsAreNext,
               ArrivedCountsWaiters, Waiting, Closing
<1>11. QED
  BY <1>4, <1>5, <1>6, <1>7, <1>8, <1>9, <1>10 DEF Next, BlockNext

\* For any grid size, BarrierInv is an invariant of atomic_block_barrier: the
\* counter is exact and the last arriver resets it undisturbed.
THEOREM BarrierInvariant == Spec => []BarrierInv
<1>1. Init => BarrierInv
  BY InitBarrierInv
<1>2. BarrierInv /\ [Next]_vars => BarrierInv'
  BY StepBarrierInv
<1>3. QED
  BY <1>1, <1>2, PTL DEF Spec

\* A step of a block leader is a step of the abstract barrier or leaves the
\* abstract state alone.
LEMMA StepRefines == BarrierInv /\ [Next]_vars => [Abs!ANext]_(Abs!avars)
<1> SUFFICES ASSUME BarrierInv, [Next]_vars PROVE [Abs!ANext]_(Abs!avars)
  OBVIOUS
<1> USE DEF BarrierInv, insideBar, releasedBar
<1>1. generation \in 0..(GenModulus - 1) /\ NextGen(generation) # generation
  BY NextGenFacts DEF TypeOK
<1>2. ASSUME NEW b \in Blocks, Enter(b) PROVE Abs!AEnter(b)
  BY <1>2 DEF Enter, Abs!AEnter, TypeOK
<1>3. ASSUME NEW b \in Blocks, LoadGeneration(b) PROVE UNCHANGED Abs!avars
  BY <1>3 DEF LoadGeneration, Abs!avars, TypeOK
<1>4. ASSUME NEW b \in Blocks, Arrive(b) PROVE UNCHANGED Abs!avars
  <2>1. target_gen[b] # generation
    BY <1>1, <1>4 DEF Arrive, TargetsAreNext
  <2>2. QED
    BY <1>4, <2>1 DEF Arrive, Abs!avars, TypeOK
<1>5. ASSUME NEW b \in Blocks, ResetArrived(b) PROVE UNCHANGED Abs!avars
  BY <1>5 DEF ResetArrived, Abs!avars, TypeOK
<1>6. ASSUME NEW b \in Blocks, FlipGeneration(b) PROVE Abs!ARelease(b)
  <2>1. target_gen[b] = NextGen(generation) /\ b \in Closing
    BY <1>6 DEF FlipGeneration, TargetsAreNext, Closing
  <2>2. \A c \in Blocks \ {b} : pc[c] = "spin" /\ target_gen[c] = NextGen(generation)
    BY <2>1 DEF ResetIsExclusive, Waiting, TargetsAreNext
  <2>3. generation' = NextGen(generation) /\ pc' = [pc EXCEPT ![b] = "out"]
        /\ target_gen' = target_gen /\ pc[b] = "flip"
    BY <1>6, <2>1 DEF FlipGeneration
  <2>4. insideBar = Blocks /\ releasedBar = {}
    BY <1>1, <2>2, <2>3
  <2>5. insideBar' = Blocks \ {b} /\ releasedBar' = Blocks \ {b}
    BY <2>2, <2>3 DEF TypeOK
  <2>6. QED
    BY <2>4, <2>5 DEF Abs!ARelease
<1>7. ASSUME NEW b \in Blocks, SpinExit(b) PROVE Abs!ALeave(b)
  BY <1>7 DEF SpinExit, Abs!ALeave, TypeOK
<1>8. ASSUME UNCHANGED vars PROVE UNCHANGED Abs!avars
  BY <1>8 DEF vars, Abs!avars
<1>9. QED
  BY <1>2, <1>3, <1>4, <1>5, <1>6, <1>7, <1>8 DEF Next, BlockNext, Abs!ANext

\* atomic_block_barrier implements the abstract barrier for any grid size: a
\* block returns from a call only after every block has made it.
THEOREM BarrierRefinement == Spec => ImplementsAbstractBarrier
<1>1. Init => Abs!AInit
  BY DEF Init, Abs!AInit, insideBar, releasedBar
<1>2. BarrierInv /\ [Next]_vars => [Abs!ANext]_(Abs!avars)
  BY StepRefines
<1>3. Spec => []BarrierInv
  BY BarrierInvariant
<1>4. QED
  BY <1>1, <1>2, <1>3, PTL DEF Spec, ImplementsAbstractBarrier, Abs!ASpec
=============================================================================
