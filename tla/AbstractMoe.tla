----------------------------- MODULE AbstractMoe -----------------------------
(***************************************************************************)
(* What the expert GPUs promise to the decode loop: the MoE layers of a    *)
(* step are evaluated one after the other, and the sum that layer l adds   *)
(* to the hidden state is made of one share per worker, each computed with *)
(* the experts of layer l from the activation and the routing that layer l *)
(* produced in this very step.                                             *)
(***************************************************************************)
EXTENDS Integers

CONSTANTS Workers,          \* the expert GPUs
          NumLayers         \* MoE layers of the model

VARIABLE hidden             \* the last sum: [layer, seq, shares]

Origin(l, s) == <<l, s>>                                  \* made by layer l in step s
Share(l, s) == [experts |-> l, act |-> Origin(l, s), routing |-> Origin(l, s)]
Summed(l, s) == [layer |-> l, seq |-> s, shares |-> [w \in Workers |-> Share(l, s)]]
NoShare == [experts |-> 0, act |-> Origin(0, 0), routing |-> Origin(0, 0)]

AInit == hidden = [layer |-> NumLayers, seq |-> 0, shares |-> [w \in Workers |-> NoShare]]

\* The next layer of the same step
NextLayer ==
    /\ hidden.layer < NumLayers
    /\ hidden' = Summed(hidden.layer + 1, hidden.seq)
\* The first layer of a later step
NextStep ==
    /\ hidden.layer = NumLayers
    /\ hidden'.seq \in Nat /\ hidden'.seq > hidden.seq
    /\ hidden' = Summed(1, hidden'.seq)

ANext == NextLayer \/ NextStep
ASpec == AInit /\ [][ANext]_hidden
=============================================================================
