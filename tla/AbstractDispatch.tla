-------------------------- MODULE AbstractDispatch --------------------------
(***************************************************************************)
(* What PersistentDispatch promises its callers: a stream of instructions  *)
(* that the blocks of one worker execute in order and in lockstep, at most *)
(* one batch in flight, and a wait that returns only when everything       *)
(* handed over has been executed by every block.                           *)
(***************************************************************************)
EXTENDS Naturals

CONSTANT Blocks
VARIABLES sent,       \* instructions handed over
          confirmed,  \* instructions covered by a wait that returned
          finished    \* per block, instructions executed

avars == <<sent, confirmed, finished>>

AInit == sent = 0 /\ confirmed = 0 /\ finished = [b \in Blocks |-> 0]

\* A batch is handed over when everything before it is confirmed.
ASubmit ==
    /\ confirmed = sent
    /\ sent' \in Nat /\ sent' > sent
    /\ UNCHANGED <<confirmed, finished>>

\* A block executes its next instruction: only if there is one, and only
\* when all blocks have finished the ones before.
ARun(b) ==
    /\ finished[b] < sent
    /\ \A c \in Blocks : finished[c] >= finished[b]
    /\ finished' = [finished EXCEPT ![b] = finished[b] + 1]
    /\ UNCHANGED <<sent, confirmed>>

\* A wait returns.
AConfirm ==
    /\ \A b \in Blocks : finished[b] = sent
    /\ confirmed' = sent
    /\ UNCHANGED <<sent, finished>>

ANext == ASubmit \/ AConfirm \/ \E b \in Blocks : ARun(b)

ASpec == AInit /\ [][ANext]_avars
=============================================================================
