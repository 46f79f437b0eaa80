-------------------------- MODULE AbstractBarrier --------------------------
(***************************************************************************)
(* What a grid barrier promises the kernel that calls it: a block that     *)
(* called the barrier returns only after every block of the grid has       *)
(* called it for the same phase.  One ARelease step opens a phase for all  *)
(* blocks at once; a block may call the barrier again while slower blocks  *)
(* are still returning from the previous phase.                            *)
(***************************************************************************)
CONSTANT Blocks     \* the thread blocks of the cooperative launch

VARIABLES inside,   \* blocks that called the barrier and have not returned
          released  \* blocks of inside that may return

avars == <<inside, released>>

AInit == inside = {} /\ released = {}

\* A block calls the barrier.
AEnter(b) ==
    /\ b \notin inside
    /\ inside' = inside \union {b}
    /\ UNCHANGED released

\* A released block returns from the call.
ALeave(b) ==
    /\ b \in released
    /\ inside' = inside \ {b}
    /\ released' = released \ {b}

\* The last block to call opens the phase for the others and returns.  Nobody
\* may still be returning from the phase before.
ARelease(b) ==
    /\ b \in Blocks
    /\ inside = Blocks
    /\ released = {}
    /\ released' = Blocks \ {b}
    /\ inside' = Blocks \ {b}

ANext ==
    \E b \in Blocks : AEnter(b) \/ ARelease(b) \/ ALeave(b)

ASpec == AInit /\ [][ANext]_avars
=============================================================================
