----------------------------- MODULE Checkpoint -----------------------------
(***************************************************************************)
(* Checkpoints of the recurrent (GDN) states: RecurrentCheckpointPool,     *)
(* save_checkpoint and restore_checkpoint of paged_kv.rs as                *)
(* Model::save_recurrent_checkpoint and restore_recurrent_checkpoint use   *)
(* them, with a pool of one slot.  The copies of a save are issued layer   *)
(* by layer on the model's stream and are not waited for; a decode step    *)
(* runs on the persistent worker, which is not ordered with that stream.   *)
(***************************************************************************)
EXTENDS Naturals, Sequences

CONSTANTS Layers,        \* recurrent layers (or pieces of them that are
                         \* copied one after the other), 1..Layers
          MaxSteps,      \* bound: decode steps
          MaxSaves       \* bound: saves

VARIABLES recurrent, \* the state of each layer: the step that wrote it
          saved,     \* the checkpoint slot, layer by layer
          slot,      \* "free", "held" (last_checkpoint_slot), or "leaked"
          stream,    \* layers whose save copy has not run, in order
          steps,     \* decode steps so far
          savedAt,   \* the states when the caller made its last checkpoint
          during,    \* history: the states each layer has had since, until
                     \* its copy had run
          saves      \* saves so far

ckVars == <<recurrent, saved, slot, stream, steps, savedAt, during, saves>>

LayerIds == 1..Layers

CkInit ==
    /\ recurrent = [l \in LayerIds |-> 0]
    /\ saved = [l \in LayerIds |-> 0]
    /\ slot = "free"
    /\ stream = <<>>
    /\ savedAt = [l \in LayerIds |-> 0]
    /\ during = [l \in LayerIds |-> {}]
    /\ steps = 0 /\ saves = 0

\* Mistake: every layer goes to the first place of the slot.
MutCopyLayer(mem, l) == [mem EXCEPT ![1] = recurrent[l]]

(* One copy of a save: each layer has its own place in the slot.           *)
CopyLayer(mem, l) == [mem EXCEPT ![l] = recurrent[l]]

(* The copy of layer l is still to run.                                    *)
Pending(l) == \E i \in 1..Len(stream) : stream[i] = l

(* decode_step: the worker overwrites every layer's state.  It does not    *)
(* wait for the stream, so the copies of a save may still be pending.      *)
DecodeStep ==
    /\ steps < MaxSteps
    /\ recurrent' = [l \in LayerIds |-> steps + 1]
    /\ steps' = steps + 1
    /\ during' = [l \in LayerIds |->
                     IF Pending(l) THEN during[l] \union {steps + 1} ELSE during[l]]
    /\ UNCHANGED <<saved, slot, stream, savedAt, saves>>

(* save_recurrent_checkpoint: the previous slot is freed and taken again,  *)
(* and one copy per layer issued.  A copy that cannot be issued returns    *)
(* early: the slot is neither free nor the last checkpoint, and every      *)
(* later save finds the pool empty.                                        *)
Save ==
    /\ slot # "leaked" /\ saves < MaxSaves
    /\ saves' = saves + 1
    /\ \/ /\ stream' = stream \o [l \in LayerIds |-> l]
          /\ slot' = "held" /\ savedAt' = recurrent
          /\ during' = [l \in LayerIds |-> {recurrent[l]}]
       \/ /\ \E n \in 0..(Layers - 1) : stream' = stream \o [l \in 1..n |-> l]
          /\ slot' = "leaked"
          /\ UNCHANGED <<savedAt, during>>
    /\ UNCHANGED <<recurrent, saved, steps>>

(* The stream performs the oldest copy.                                    *)
RunLayerCopy ==
    /\ stream # <<>>
    /\ saved' = CopyLayer(saved, Head(stream))
    /\ stream' = Tail(stream)
    /\ UNCHANGED <<recurrent, slot, steps, savedAt, during, saves>>

(* restore_recurrent_checkpoint of the slot the last save returned: the    *)
(* copies back follow the ones issued before, then the stream is           *)
(* synchronised.                                                           *)
Restore ==
    /\ slot = "held"
    /\ stream = <<>>
    /\ recurrent' = saved
    /\ UNCHANGED <<saved, slot, stream, steps, savedAt, during, saves>>

CkNext == DecodeStep \/ Save \/ RunLayerCopy \/ Restore

CkSpec == CkInit /\ [][CkNext]_ckVars

-----------------------------------------------------------------------------
(* Properties.                                                             *)

CheckpointType ==
    /\ recurrent \in [LayerIds -> Nat] /\ saved \in [LayerIds -> Nat]
    /\ savedAt \in [LayerIds -> Nat] /\ during \in [LayerIds -> SUBSET Nat]
    /\ slot \in {"free", "held", "leaked"}
    /\ stream \in Seq(LayerIds)
    /\ steps \in Nat

(* The inductive invariant: while the copy of a layer of the last           *)
(* checkpoint is to run, the state it will read is one the layer has had    *)
(* since the save; when it has run, such a state is in the layer's place.   *)
CheckpointInv ==
    /\ CheckpointType
    /\ slot = "held" =>
           \A l \in LayerIds : IF Pending(l) THEN recurrent[l] \in during[l]
                                            ELSE saved[l] \in during[l]

(* A restore gives each recurrent layer a state it had between the save     *)
(* that gave the slot and the end of the layer's own copy: never an older   *)
(* checkpoint's, another layer's, or one of the steps decoded after the     *)
(* copies; if no step is decoded before they have run, the saved state.     *)
(* Whatever was decoded, saved, failed or restored between                  *)
(* (save_recurrent_checkpoint, restore_recurrent_checkpoint).               *)
RestoreIsOfTheSave ==
    [][Restore => \A l \in LayerIds : recurrent'[l] \in during[l]]_ckVars

(* What tests/checkpoint_test.rs demands ("checkpoint restore should be     *)
(* bitwise identical"): a restore brings every recurrent layer back to what *)
(* it was at the save that gave the slot.  It fails: the copies of a save   *)
(* are not waited for, and a decode step may overwrite a state before its   *)
(* copy has read it.                                                        *)
RestoreIsTheSave == [][Restore => recurrent' = savedAt]_ckVars

=============================================================================
