---------------------------- MODULE GridBarrier ----------------------------
(***************************************************************************)
(* atomic_block_barrier of kernels/rdna3/rdna3_barrier.h: the hand-rolled  *)
(* grid barrier that every opcode of the megakernel ends with and that the *)
(* persistent worker's poll loop relies on.  The two shared words of       *)
(* GridBarrierState are modelled as they are; each atomic access of the    *)
(* block leader (threadIdx.x == 0) is one action, so that the accesses of  *)
(* different blocks interleave freely.                                     *)
(***************************************************************************)
EXTENDS Naturals, FiniteSets

CONSTANTS Blocks,      \* gridDim.x thread blocks of the cooperative launch
          GenModulus   \* generation is an unsigned int: 2^32 in the code

ASSUME BlocksAssumption == IsFiniteSet(Blocks) /\ Blocks # {}
ASSUME GenAssumption == GenModulus \in Nat /\ GenModulus >= 2

VARIABLES arrived,     \* state->arrived
          generation,  \* state->generation
          pc,          \* where the leader of each block is
          target_gen   \* the leader's local target_gen

vars == <<arrived, generation, pc, target_gen>>

\* "out"    between two calls of the barrier
\* "load"   called; about to load generation
\* "arrive" about to fetch_add arrived
\* "reset"  last arriver, about to store arrived := 0
\* "flip"   last arriver, about to store generation := target_gen
\* "spin"   waiting for generation == target_gen
Locations == {"out", "load", "arrive", "reset", "flip", "spin"}

\* target_gen = generation + 1u, in 32-bit arithmetic.
NextGen(g) == (g + 1) % GenModulus

Init ==
    /\ arrived = 0
    /\ generation = 0
    /\ pc = [b \in Blocks |-> "out"]
    /\ target_gen = [b \in Blocks |-> 0]

\* __syncthreads and the release fence: the block is inside the call.
Enter(b) ==
    /\ pc[b] = "out"
    /\ pc' = [pc EXCEPT ![b] = "load"]
    /\ UNCHANGED <<arrived, generation, target_gen>>

\* target_gen = load(generation) + 1, before the block announces itself.
LoadGeneration(b) ==
    /\ pc[b] = "load"
    /\ target_gen' = [target_gen EXCEPT ![b] = NextGen(generation)]
    /\ pc' = [pc EXCEPT ![b] = "arrive"]
    /\ UNCHANGED <<arrived, generation>>

\* Mistake: one block too few is waited for (prev == gridDim.x - 2).
MutArriveOneShort(b) ==
    /\ pc[b] = "arrive"
    /\ arrived' = arrived + 1
    /\ pc' = [pc EXCEPT ![b] = IF arrived + 2 = Cardinality(Blocks)
                               THEN "reset" ELSE "spin"]
    /\ UNCHANGED <<generation, target_gen>>

\* prev = fetch_add(arrived, 1); the block that makes it gridDim.x is last.
Arrive(b) ==
    /\ pc[b] = "arrive"
    /\ arrived' = arrived + 1
    /\ pc' = [pc EXCEPT ![b] = IF arrived + 1 = Cardinality(Blocks)
                               THEN "reset" ELSE "spin"]
    /\ UNCHANGED <<generation, target_gen>>

\* Mistake: the counter is not reset before the barrier opens.
MutResetForgotten(b) ==
    /\ pc[b] = "reset"
    /\ pc' = [pc EXCEPT ![b] = "flip"]
    /\ UNCHANGED <<arrived, generation, target_gen>>

\* The last arriver resets the counter ...
ResetArrived(b) ==
    /\ pc[b] = "reset"
    /\ arrived' = 0
    /\ pc' = [pc EXCEPT ![b] = "flip"]
    /\ UNCHANGED <<generation, target_gen>>

\* ... and only then opens the barrier, returning from the call itself.
FlipGeneration(b) ==
    /\ pc[b] = "flip"
    /\ generation' = target_gen[b]
    /\ pc' = [pc EXCEPT ![b] = "out"]
    /\ UNCHANGED <<arrived, target_gen>>

\* A spinning block sees generation == target_gen and returns.
SpinExit(b) ==
    /\ pc[b] = "spin"
    /\ generation = target_gen[b]
    /\ pc' = [pc EXCEPT ![b] = "out"]
    /\ UNCHANGED <<arrived, generation, target_gen>>

BlockNext(b) ==
    \/ Enter(b) \/ LoadGeneration(b) \/ Arrive(b)
    \/ ResetArrived(b) \/ FlipGeneration(b) \/ SpinExit(b)

Next == \E b \in Blocks : BlockNext(b)

Spec == Init /\ [][Next]_vars

\* All blocks of a cooperative launch are resident, so each keeps running,
\* and every block of the worker calls the barrier equally often.
FairSpec == Spec /\ \A b \in Blocks : WF_vars(BlockNext(b))
-----------------------------------------------------------------------------
TypeOK ==
    /\ arrived \in 0..Cardinality(Blocks)
    /\ generation \in 0..(GenModulus - 1)
    /\ pc \in [Blocks -> Locations]
    /\ target_gen \in [Blocks -> 0..(GenModulus - 1)]

\* Blocks waiting for the phase that is still closed.
Waiting == {b \in Blocks : pc[b] = "spin" /\ target_gen[b] # generation}

\* The last arriver between its fetch_add and its store to generation.
Closing == {b \in Blocks : pc[b] \in {"reset", "flip"}}

\* The comment of rdna3_barrier.h on the reset ("no other block will be
\* incrementing because they are all waiting on generation"): while the last
\* arriver of atomic_block_barrier resets the counter, every other block is
\* waiting for the closed phase.
ResetIsExclusive ==
    \A b \in Closing : \A c \in Blocks \ {b} : c \in Waiting

\* A block's target is the phase after the current one until that phase is
\* opened, however far 32-bit generations have wrapped around.
TargetsAreNext ==
    \A b \in Blocks :
        /\ pc[b] \in {"arrive", "reset", "flip"} => target_gen[b] = NextGen(generation)
        /\ pc[b] = "spin" => target_gen[b] \in {generation, NextGen(generation)}

\* The counter of atomic_block_barrier counts the blocks that wait for the
\* closed phase, plus the last arriver until it resets it; nothing is lost
\* when a fast block arrives again before a slow one has left its spin.
ArrivedCountsWaiters ==
    arrived = IF \E b \in Closing : pc[b] = "flip" THEN 0
              ELSE Cardinality(Waiting \union Closing)

\* The inductive invariant behind the refinement of AbstractBarrier.
BarrierInv ==
    TypeOK /\ ResetIsExclusive /\ TargetsAreNext /\ ArrivedCountsWaiters

\* Blocks inside a call, and those among them that may return.
insideBar == {b \in Blocks : pc[b] # "out"}
releasedBar == {b \in Blocks : pc[b] = "spin" /\ target_gen[b] = generation}

Abs == INSTANCE AbstractBarrier WITH inside <- insideBar, released <- releasedBar

\* atomic_block_barrier implements the abstract barrier: no block returns
\* from a call before every block of the grid has made it.
ImplementsAbstractBarrier == Abs!ASpec

\* Everybody who calls atomic_block_barrier gets out of it again: the reset
\* and the generation flip never strand a block in its spin.
EveryCallReturns == \A b \in Blocks : (pc[b] # "out") ~> (pc[b] = "out")
=============================================================================
