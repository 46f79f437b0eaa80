-------------------------- MODULE CheckpointProofs --------------------------
(***************************************************************************)
(* Proofs about Checkpoint, for any number of recurrent layers and any     *)
(* number of steps, saves and restores in any order, with a decode step    *)
(* free to run while copies of a save are pending.                         *)
(***************************************************************************)
EXTENDS Checkpoint, TLAPS

(* The copies that a save issues are one for every layer, in order.        *)
LEMMA FullSave ==
  ASSUME Layers \in Nat, NEW s \in Seq(LayerIds)
  PROVE  /\ s \o [l \in LayerIds |-> l] \in Seq(LayerIds)
         /\ \A l \in LayerIds : \E i \in 1..Len(s \o [k \in LayerIds |-> k]) :
                 (s \o [k \in LayerIds |-> k])[i] = l
<1> DEFINE t == [l \in LayerIds |-> l]
<1>1. t \in Seq(LayerIds) /\ Len(t) = Layers
  BY DEF LayerIds
<1>2. s \o t \in Seq(LayerIds) /\ Len(s \o t) = Len(s) + Layers
  BY <1>1
<1>3. ASSUME NEW l \in LayerIds
      PROVE  \E i \in 1..Len(s \o t) : (s \o t)[i] = l
  <2>1. Len(s) + l \in 1..Len(s \o t)
    BY <1>2 DEF LayerIds
  <2>2. (s \o t)[Len(s) + l] = t[l]
    BY <1>1, <1>2, <2>1 DEF LayerIds
  <2>3. t[l] = l
    OBVIOUS
  <2> QED BY <2>1, <2>2, <2>3
<1> QED BY <1>2, <1>3

(* A save that stops after n layers has issued copies of layers only.      *)
LEMMA PartialSave ==
  ASSUME Layers \in Nat, NEW s \in Seq(LayerIds), NEW n \in 0..(Layers - 1)
  PROVE  s \o [l \in 1..n |-> l] \in Seq(LayerIds)
<1>1. [l \in 1..n |-> l] \in Seq(LayerIds)
  <2>1. \A l \in 1..n : l \in LayerIds
    BY DEF LayerIds
  <2>2. n \in Nat
    OBVIOUS
  <2> QED BY <2>1, <2>2
<1> QED BY <1>1

(* Running the oldest copy leaves every other layer as pending as it was.  *)
LEMMA OldestCopy ==
  ASSUME NEW S, NEW s \in Seq(S), s # <<>>
  PROVE  /\ Head(s) \in S /\ Tail(s) \in Seq(S)
         /\ \E i \in 1..Len(s) : s[i] = Head(s)
         /\ \A l \in S : l # Head(s) =>
                ((\E i \in 1..Len(s) : s[i] = l) <=>
                 (\E i \in 1..Len(Tail(s)) : Tail(s)[i] = l))
<1>1. /\ Head(s) \in S /\ Tail(s) \in Seq(S) /\ Len(Tail(s)) = Len(s) - 1
      /\ 1 \in 1..Len(s) /\ s[1] = Head(s)
  OBVIOUS
<1>2. ASSUME NEW l \in S, NEW i \in 1..Len(s), s[i] = l, l # Head(s)
      PROVE  \E j \in 1..Len(Tail(s)) : Tail(s)[j] = l
  <2>1. i # 1
    BY <1>1, <1>2
  <2>2. i - 1 \in 1..Len(Tail(s)) /\ Tail(s)[i - 1] = s[i]
    BY <1>1, <2>1
  <2> QED BY <1>2, <2>2
<1>3. ASSUME NEW l \in S, NEW j \in 1..Len(Tail(s)), Tail(s)[j] = l
      PROVE  \E i \in 1..Len(s) : s[i] = l
  <2>1. j + 1 \in 1..Len(s) /\ Tail(s)[j] = s[j + 1]
    BY <1>1
  <2> QED BY <1>3, <2>1
<1> QED BY <1>1, <1>2, <1>3

LEMMA InitCheckpoint ==
  ASSUME Layers \in Nat, CkInit
  PROVE  CheckpointInv
BY DEF CkInit, CheckpointInv, CheckpointType

LEMMA NextCheckpoint ==
  ASSUME Layers \in Nat, CheckpointInv, [CkNext]_ckVars
  PROVE  CheckpointInv'
<1> DEFINE Sound(l) == IF Pending(l) THEN recurrent[l] \in during[l] ELSE saved[l] \in during[l]
<1>0. CheckpointType /\ (slot = "held" => \A l \in LayerIds : Sound(l))
  BY DEF CheckpointInv
<1>1. CASE DecodeStep
  <2>0. /\ stream' = stream /\ slot' = slot /\ saved' = saved
        /\ savedAt' = savedAt /\ steps' = steps + 1
        /\ recurrent' = [l \in LayerIds |-> steps + 1]
        /\ during' = [l \in LayerIds |->
                         IF Pending(l) THEN during[l] \union {steps + 1} ELSE during[l]]
    BY <1>1 DEF DecodeStep
  <2>1. CheckpointType'
    BY <1>0, <2>0 DEF CheckpointType
  <2>2. ASSUME slot' = "held", NEW l \in LayerIds
        PROVE  Sound(l)'
    <3>1. Pending(l)' = Pending(l)
      BY <2>0 DEF Pending
    <3>2. Sound(l)
      BY <1>0, <2>0, <2>2
    <3> QED BY <2>0, <3>1, <3>2
  <2> QED BY <2>1, <2>2 DEF CheckpointInv
<1>2. CASE Save
  <2>0. recurrent' = recurrent /\ saved' = saved /\ steps' = steps
    BY <1>2 DEF Save
  <2>1. CASE /\ stream' = stream \o [l \in LayerIds |-> l] /\ slot' = "held" /\ savedAt' = recurrent
             /\ during' = [l \in LayerIds |-> {recurrent[l]}]
    <3>1. stream' \in Seq(LayerIds) /\ \A l \in LayerIds : Pending(l)'
      BY <1>0, <2>1, FullSave DEF CheckpointType, Pending
    <3>2. CheckpointType'
      BY <1>0, <2>0, <2>1, <3>1 DEF CheckpointType
    <3>3. \A l \in LayerIds : recurrent'[l] \in during'[l]
      BY <2>0, <2>1
    <3> QED BY <3>1, <3>2, <3>3 DEF CheckpointInv
  <2>2. CASE /\ \E n \in 0..(Layers - 1) : stream' = stream \o [l \in 1..n |-> l]
             /\ slot' = "leaked" /\ savedAt' = savedAt /\ during' = during
    <3>1. stream' \in Seq(LayerIds)
      BY <1>0, <2>2, PartialSave DEF CheckpointType
    <3>2. CheckpointType'
      BY <1>0, <2>0, <2>2, <3>1 DEF CheckpointType
    <3> QED BY <2>2, <3>2 DEF CheckpointInv
  <2> QED BY <1>2, <2>1, <2>2 DEF Save
<1>3. CASE RunLayerCopy
  <2> DEFINE h == Head(stream)
  <2>0. /\ stream # <<>> /\ stream' = Tail(stream) /\ slot' = slot
        /\ saved' = [saved EXCEPT ![h] = recurrent[h]]
        /\ recurrent' = recurrent /\ savedAt' = savedAt /\ during' = during /\ steps' = steps
    BY <1>3 DEF RunLayerCopy, CopyLayer
  <2>1. /\ h \in LayerIds /\ stream' \in Seq(LayerIds) /\ Pending(h)
        /\ \A l \in LayerIds : l # h => (Pending(l) <=> Pending(l)')
    <3>1. stream \in Seq(LayerIds) /\ stream # <<>>
      BY <1>0, <2>0 DEF CheckpointType
    <3>2. /\ h \in LayerIds /\ Tail(stream) \in Seq(LayerIds)
          /\ \E i \in 1..Len(stream) : stream[i] = h
          /\ \A l \in LayerIds : l # h =>
                ((\E i \in 1..Len(stream) : stream[i] = l) <=>
                 (\E i \in 1..Len(Tail(stream)) : Tail(stream)[i] = l))
      BY <3>1, OldestCopy
    <3> QED BY <2>0, <3>2 DEF Pending
  <2>2. CheckpointType'
    BY <1>0, <2>0, <2>1 DEF CheckpointType
  <2>3. ASSUME slot' = "held", NEW l \in LayerIds
        PROVE  Sound(l)'
    <3>1. Sound(l)
      BY <1>0, <2>0, <2>3
    <3>2. CASE l = h
      <4>1. recurrent[l] \in during[l]
        BY <2>1, <3>1, <3>2
      <4>2. saved'[l] = recurrent[l]
        BY <1>0, <2>0, <2>1, <3>2 DEF CheckpointType
      <4> QED BY <2>0, <4>1, <4>2
    <3>3. CASE l # h
      <4>1. saved'[l] = saved[l]
        BY <1>0, <2>0, <2>1, <3>3 DEF CheckpointType
      <4> QED BY <2>0, <2>1, <3>1, <3>3, <4>1
    <3> QED BY <3>2, <3>3
  <2> QED BY <2>2, <2>3 DEF CheckpointInv
<1>4. CASE Restore
  <2>0. /\ slot' = slot /\ stream = <<>> /\ stream' = <<>> /\ recurrent' = saved
        /\ saved' = saved /\ savedAt' = savedAt /\ during' = during /\ steps' = steps
    BY <1>4 DEF Restore
  <2> QED BY <2>0 DEF CheckpointInv, CheckpointType, Pending
<1>5. CASE UNCHANGED ckVars
  BY <1>5 DEF ckVars, CheckpointInv, CheckpointType, Pending
<1> QED BY <1>1, <1>2, <1>3, <1>4, <1>5 DEF CkNext

(* Each layer of the last checkpoint holds a state the layer had between    *)
(* the save and the end of its copy, or its copy is pending and will read   *)
(* one; the caller may decode, save or restore at any time.                 *)
THEOREM CheckpointInvariant ==
  ASSUME Layers \in Nat
  PROVE  CkSpec => []CheckpointInv
<1>1. CkInit => CheckpointInv
  BY InitCheckpoint
<1>2. CheckpointInv /\ [CkNext]_ckVars => CheckpointInv'
  BY NextCheckpoint
<1> QED BY <1>1, <1>2, PTL DEF CkSpec

(* restore_recurrent_checkpoint gives each layer a state that it had        *)
(* between the save that gave the slot and the end of its own copy,         *)
(* whatever was decoded, saved or restored between.                         *)
THEOREM RestoreTheorem ==
  ASSUME Layers \in Nat
  PROVE  CkSpec => RestoreIsOfTheSave
<1>1. CheckpointInv /\ [CkNext]_ckVars =>
          [Restore => \A l \in LayerIds : recurrent'[l] \in during[l]]_ckVars
  <2> SUFFICES ASSUME CheckpointInv, Restore, NEW l \in LayerIds
               PROVE  recurrent'[l] \in during[l]
    OBVIOUS
  <2>1. slot = "held" /\ stream = <<>> /\ recurrent' = saved
    BY DEF Restore
  <2>2. ~Pending(l)
    BY <2>1 DEF Pending
  <2> QED BY <2>1, <2>2 DEF CheckpointInv
<1> QED BY <1>1, CheckpointInvariant, PTL DEF CkSpec, RestoreIsOfTheSave

=============================================================================
