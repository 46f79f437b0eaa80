--------------------------- MODULE MoeHandoffProofs ---------------------------
(***************************************************************************)
(* Proofs about the hand-off between the GPUs for any number of workers,   *)
(* MoE layers, positions and steps: HandoffInv is inductive, and it yields *)
(* the refinement of AbstractMoe and the two promises about mailboxes and  *)
(* staging slots.  They are about YEF52_OPTION_C, where the host waits for *)
(* every GPU after every layer, and a sequence whose positions grow.       *)
(***************************************************************************)
EXTENDS MoeHandoff, TLAPS

\* YEF52_OPTION_C, one generation
OptionC == Mode = "option_c" /\ ~Rewinds

\* The parity of a position is a slot.
LEMMA SlotFact ==
    ASSUME NEW s \in Nat
    PROVE  Slot(s) \in Slots
BY DEF Slot, Slots

\* The GPUs are GPU 0 and the workers.
LEMMA Kinds ==
    /\ 0 \in Gpus
    /\ \A w \in Workers : w \in Gpus /\ w # 0 /\ w \in Nat
    /\ \A g \in Gpus : g = 0 \/ g \in Workers
    /\ \A g \in Gpus : g \in Nat
    /\ 1 \in Workers
BY MoeAssumption DEF Gpus, Workers

\* A GPU in the middle of a batch is at the layer and the step of the host.
LEMMA Busy ==
    ASSUME HandoffInv, NEW g \in Gpus, pc[g] # "poll"
    PROVE  /\ Fired(g) /\ InStep
           /\ cur[g] = Now /\ cur[g].layer = layer /\ cur[g].seq = seq
           /\ taken[g] = sent[g] /\ sent[g] = ack[g] + 1 /\ ack[g] \in Nat /\ sent[g] # ack[g]
           /\ g \in Workers => layer \in Layers
           /\ Done(g) => pc[g] = "ack"
           /\ seq \in Nat \ {0} /\ layer \in 1..(NumLayers + 1) /\ Here0 \in Slots
<1>1. ack[g] \in Nat /\ seq \in Nat /\ layer \in 1..(NumLayers + 1) /\ Here0 \in Slots
  BY SlotFact DEF HandoffInv, TypeOK, MailType, HostType, Here0
<1>2. taken[g] = sent[g] /\ sent[g] = ack[g] + 1 /\ cur[g] = work[g]
      /\ IF Fired(g) THEN work[g] = Now ELSE sent[g] = ack[g]
  BY DEF HandoffInv, MailInv
<1>3. Fired(g) /\ cur[g] = Now /\ sent[g] # ack[g]
  BY <1>1, <1>2
<1>4. cur[g].layer = layer /\ cur[g].seq = seq
  BY <1>3 DEF Now
<1>5. InStep
  BY <1>3 DEF Fired, InStep
<1>6. seq # 0
  BY <1>1, <1>5 DEF HandoffInv, HostInv
<1>7. g \in Workers => layer \in Layers
  BY <1>1, <1>3, Kinds, MoeAssumption DEF Fired, Layers
<1>8. Done(g) => pc[g] = "ack"
  BY <1>3 DEF Done
<1> QED
  BY <1>1, <1>2, <1>3, <1>4, <1>5, <1>6, <1>7, <1>8

\* A GPU to which nothing of this layer was fired is at rest.
LEMMA AtRest ==
    ASSUME HandoffInv, NEW g \in Gpus, sent[g] = ack[g]
    PROVE  pc[g] = "poll" /\ taken[g] = ack[g] /\ sent[g] \in Nat
<1>1. ack[g] \in Nat
  BY DEF HandoffInv, TypeOK, MailType
<1> QED
  BY <1>1 DEF HandoffInv, MailInv

\* A step of a kernel inside its batch leaves mailboxes and host as they are.
LEMMA Inside ==
    ASSUME HandoffInv, NEW g \in Gpus, NEW place \in Places, UNCHANGED hostVars,
           Goto(g, place), UNCHANGED <<taken, ack, cur>>, pc[g] # "poll", place # "poll"
    PROVE  /\ HostType' /\ MailType' /\ MailInv' /\ HostInv'
           /\ Here0' = Here0 /\ (InStep' <=> InStep) /\ layer' = layer /\ seq' = seq
           /\ pc'[g] = place /\ \A h \in Gpus : h # g => pc'[h] = pc[h]
           /\ \A h \in Gpus : Fired(h)' <=> Fired(h)
           /\ \A h \in Gpus : h # g => (Done(h)' <=> Done(h))
           /\ Done(g)' <=> place = "ack"
<1>0. UNCHANGED <<host, layer, next, waiting, seq, steps, sent, work, taken, ack, cur>>
  BY DEF hostVars
<1>1. HostType'
  BY <1>0 DEF HandoffInv, TypeOK, HostType
<1>2. MailType'
  BY <1>0 DEF HandoffInv, TypeOK, MailType, Goto
<1>3. HostInv'
  BY <1>0 DEF HandoffInv, HostInv, InStep
<1>4. Here0' = Here0 /\ (InStep' <=> InStep) /\ Now' = Now
  BY <1>0 DEF Here0, InStep, Now
<1>5. ASSUME NEW h \in Gpus PROVE Fired(h)' <=> Fired(h)
  BY <1>0 DEF Fired
<1>6. pc'[g] = place /\ \A h \in Gpus : h # g => pc'[h] = pc[h]
  BY DEF Goto, HandoffInv, TypeOK, MailType
<1>7. ASSUME NEW h \in Gpus, h # g PROVE Done(h)' <=> Done(h)
  BY <1>0, <1>5, <1>6, <1>7 DEF Done
<1>8. Done(g)' <=> place = "ack"
  BY <1>0, <1>5, <1>6, Busy DEF Done
<1>9. MailInv'
  BY <1>0, <1>4, <1>5, <1>6, Busy DEF HandoffInv, MailInv
<1> QED
  BY <1>0, <1>1, <1>2, <1>3, <1>4, <1>5, <1>6, <1>7, <1>8, <1>9

\* While GPU 0 is before its signal, the sentinel of this layer is not set, no worker has read
\* the staging slot, and the outputs are those of the layer before.
LEMMA BeforeSignal ==
    ASSUME HandoffInv, pc[0] \notin {"poll", "ack"}
    PROVE  /\ layer \in Layers => ~Signalled
           /\ \A w \in Workers : pc[w] \in {"poll", "wait"} /\ ~Done(w)
           /\ layer > 1 => \A w \in Workers : outs[w][Here0] = Moe!Share(layer - 1, seq)
<1>1. pc[0] # "poll" /\ ~Done(0) /\ InStep /\ layer \in 1..(NumLayers + 1)
  BY Busy, Kinds
<1>2. layer \in Layers => ~Signalled
  BY <1>1, MoeAssumption DEF HandoffInv, SentinelInv, Layers
<1>3. ASSUME NEW w \in Workers PROVE pc[w] \in {"poll", "wait"} /\ ~Done(w)
  <2>1. w \in Gpus
    BY Kinds
  <2>2. CASE layer \in Layers
    BY <1>2, <2>1, <2>2 DEF HandoffInv, StagingInv, PlaceInv
  <2>3. CASE layer \notin Layers
    <3>1. ~Fired(w)
      BY <1>1, <2>3, Kinds, MoeAssumption DEF Fired, Layers
    <3> QED
      BY <2>1, <2>3, <3>1, Busy DEF Done
  <2> QED
    BY <2>2, <2>3
<1>4. ASSUME layer > 1, NEW w \in Workers PROVE outs[w][Here0] = Moe!Share(layer - 1, seq)
  BY <1>1, <1>2, <1>4, MoeAssumption DEF HandoffInv, OutputInv, Layers
<1> QED
  BY <1>2, <1>3, <1>4

\* The steps of GPU 0 inside a batch: POST, the copies and their signal
LEMMA Gpu0Inside ==
    ASSUME OptionC, HandoffInv,
           PostSpin \/ PostRead \/ CopyActivation \/ CopyRouting \/ SignalActivation
    PROVE  HandoffInv'
<1>0. /\ 0 \in Gpus /\ pc[0] \notin {"poll", "ack"} /\ UNCHANGED hostVars
      /\ UNCHANGED <<taken, ack, cur, result_sentinel, local, outs>>
  BY Kinds DEF PostSpin, PostRead, CopyActivation, CopyRouting, SignalActivation, memVars
<1>1. /\ Fired(0) /\ InStep /\ cur[0].layer = layer /\ cur[0].seq = seq /\ sent[0] # ack[0]
      /\ seq \in Nat \ {0} /\ layer \in 1..(NumLayers + 1) /\ Here0 \in Slots
      /\ PostSlot = Here0 /\ PostLayer = layer - 1 /\ Here = Origin(layer, seq)
  BY <1>0, Busy DEF PostSlot, PostLayer, Here0, Here
<1>2. /\ layer \in Layers => ~Signalled
      /\ \A w \in Workers : pc[w] \in {"poll", "wait"} /\ ~Done(w) /\ w \in Gpus /\ w # 0
      /\ layer > 1 => \A w \in Workers : outs[w][Here0] = Moe!Share(layer - 1, seq)
  BY <1>0, BeforeSignal, Kinds
<1>3. StageType /\ SumType /\ PlaceInv /\ SentinelInv /\ StagingInv /\ OutputInv /\ HiddenInv
  BY DEF HandoffInv, TypeOK
<1>4. ASSUME NEW place \in Places \ {"poll"}, Goto(0, place)
      PROVE  /\ HostType' /\ MailType' /\ MailInv' /\ HostInv'
             /\ Here0' = Here0 /\ InStep' /\ layer' = layer /\ seq' = seq /\ sent' = sent
             /\ pc'[0] = place /\ \A w \in Workers : pc'[w] = pc[w] /\ ~Done(w)'
             /\ Done(0)' <=> place = "ack"
             /\ PostPending' <=> layer > 1 /\ place \in {"spin", "read"}
  <2>1. /\ HostType' /\ MailType' /\ MailInv' /\ HostInv'
        /\ Here0' = Here0 /\ InStep' /\ layer' = layer /\ seq' = seq
        /\ pc'[0] = place /\ \A w \in Workers : pc'[w] = pc[w] /\ ~Done(w)'
        /\ Done(0)' <=> place = "ack"
        /\ Fired(0)'
    BY <1>0, <1>1, <1>2, <1>4, Inside
  <2>2. sent' = sent /\ ack' = ack
    BY <1>0 DEF hostVars
  <2> QED
    BY <1>1, <2>1, <2>2 DEF PostPending
<1>5. ASSUME PostSpin PROVE HandoffInv'
  <2>0. PICK place \in {"spin", "read"} : Goto(0, place) /\ (place = "read" => scan' = 1)
    BY <1>5, MoeAssumption DEF PostSpin, SumType, Workers
  <2>1. /\ HostType' /\ MailType' /\ MailInv' /\ HostInv'
        /\ Here0' = Here0 /\ InStep' /\ layer' = layer /\ seq' = seq /\ sent' = sent
        /\ pc'[0] = place /\ \A w \in Workers : pc'[w] = pc[w] /\ ~Done(w)'
        /\ ~Done(0)' /\ (PostPending' <=> layer > 1)
    BY <1>4, <2>0 DEF Places
  <2>2. UNCHANGED <<act, routing, act_sentinel, result_sentinel, local, outs, sums, hidden>>
    BY <1>5 DEF PostSpin, memVars
  <2>3. StageType'
    BY <1>3, <2>2 DEF StageType
  <2>4. SumType'
    BY <1>3, <1>5, <2>2, MoeAssumption DEF PostSpin, SumType, Workers
  <2>5. PlaceInv'
    BY <1>3, <1>5, <2>1 DEF PostSpin, PlaceInv
  <2>6. Signalled' <=> Signalled
    BY <2>1, <2>2 DEF Signalled
  <2>7. SentinelInv'
    BY <1>1, <1>2, <1>3, <2>1, <2>2, <2>6, MoeAssumption DEF SentinelInv, Layers
  <2>8. StagingInv'
    BY <1>1, <1>2, <1>3, <2>1, <2>2, <2>6, MoeAssumption DEF StagingInv, Layers
  <2>9. OutputInv'
    BY <1>1, <1>2, <1>3, <2>0, <2>1, <2>2, MoeAssumption DEF OutputInv, Layers, Workers
  <2>10. HiddenInv'
    BY <1>0, <1>1, <1>3, <1>5, <2>1, <2>2 DEF HiddenInv, PostPending, PostSpin
  <2> QED
    BY <2>1, <2>3, <2>4, <2>5, <2>7, <2>8, <2>9, <2>10 DEF HandoffInv, TypeOK
<1>6. ASSUME PostRead PROVE HandoffInv'
  <2>0. /\ ResultSlot = Here0 /\ layer > 1 /\ scan \in Workers
        /\ UNCHANGED <<act, routing, act_sentinel, result_sentinel, local, outs>>
        /\ pc[0] = "read"
    BY <1>1, <1>3, <1>6 DEF PostRead, ResultSlot, OptionC, memVars, PlaceInv, SumType
  <2>1. sums' = [sums EXCEPT ![scan] = Moe!Share(layer - 1, seq)]
    BY <1>2, <1>6, <2>0 DEF PostRead
  <2>2. Moe!Share(layer - 1, seq) \in Shares
    BY <1>1, <2>0, MoeAssumption DEF Shares, Origins, Moe!Share, Moe!Origin
  <2>3. sums' \in [Workers -> Shares]
    BY <1>3, <2>0, <2>1, <2>2 DEF SumType
  <2>4. StageType'
    BY <1>3, <2>0 DEF StageType
  <2>5. Signalled' <=> Signalled
    BY <1>0, <2>0 DEF Signalled, Here0, hostVars
  <2>6. CASE scan < NumWorkers
    <3>0. Goto(0, "read") /\ scan' = scan + 1 /\ scan' \in Workers /\ UNCHANGED hidden
      BY <1>0, <1>6, <2>0, <2>6, MoeAssumption DEF PostRead, Goto, Workers, HandoffInv, TypeOK, MailType
    <3>1. /\ HostType' /\ MailType' /\ MailInv' /\ HostInv'
          /\ Here0' = Here0 /\ InStep' /\ layer' = layer /\ seq' = seq /\ sent' = sent
          /\ pc'[0] = "read" /\ \A w \in Workers : pc'[w] = pc[w] /\ ~Done(w)'
          /\ ~Done(0)' /\ PostPending'
      BY <1>4, <2>0, <3>0 DEF Places
    <3>2. SumType'
      BY <1>3, <2>0, <2>3, <3>0 DEF SumType
    <3>3. PlaceInv'
      BY <1>3, <2>0, <3>1 DEF PlaceInv
    <3>4. SentinelInv'
      BY <1>1, <1>2, <1>3, <2>0, <2>5, <3>1, MoeAssumption DEF SentinelInv, Layers
    <3>5. StagingInv'
      BY <1>1, <1>2, <1>3, <2>0, <2>5, <3>1, MoeAssumption DEF StagingInv, Layers
    <3>6. ASSUME NEW w \in Workers, w < scan' PROVE sums'[w] = Moe!Share(layer - 1, seq)
      BY <1>3, <2>0, <2>1, <3>0, <3>6, MoeAssumption DEF OutputInv, SumType, Workers
    <3>7. OutputInv'
      BY <1>1, <1>2, <1>3, <2>0, <3>1, <3>6 DEF OutputInv
    <3>8. HiddenInv'
      BY <1>1, <1>3, <2>0, <3>0, <3>1 DEF HiddenInv, PostPending
    <3> QED
      BY <2>4, <3>1, <3>2, <3>3, <3>4, <3>5, <3>7, <3>8 DEF HandoffInv, TypeOK
  <2>7. CASE ~(scan < NumWorkers)
    <3>0. PICK place \in {"ack", "copy"} :
            Goto(0, place) /\ (place = "ack" <=> layer = NumLayers + 1)
      <4>1. layer - 1 = NumLayers <=> layer = NumLayers + 1
        BY <1>1, MoeAssumption
      <4> QED
        BY <1>1, <1>6, <2>7, <4>1 DEF PostRead
    <3>1. /\ HostType' /\ MailType' /\ MailInv' /\ HostInv'
          /\ Here0' = Here0 /\ InStep' /\ layer' = layer /\ seq' = seq /\ sent' = sent
          /\ pc'[0] = place /\ \A w \in Workers : pc'[w] = pc[w] /\ ~Done(w)'
          /\ (Done(0)' <=> place = "ack") /\ ~PostPending'
      BY <1>4, <2>0, <3>0 DEF Places
    <3>2. hidden' = [layer |-> layer - 1, seq |-> seq, shares |-> sums'] /\ scan' = scan
      BY <1>1, <1>6, <2>7 DEF PostRead
    <3>3. SumType'
      BY <1>1, <1>3, <2>0, <2>3, <3>2, MoeAssumption DEF SumType
    <3>4. PlaceInv'
      BY <1>3, <2>0, <3>0, <3>1 DEF PlaceInv
    <3>5. SentinelInv'
      BY <1>1, <1>2, <1>3, <2>0, <2>5, <3>0, <3>1, MoeAssumption DEF SentinelInv, Layers
    <3>6. StagingInv'
      BY <1>1, <1>2, <1>3, <2>0, <2>5, <3>1, MoeAssumption DEF StagingInv, Layers
    <3>7. OutputInv'
      BY <1>1, <1>2, <1>3, <2>0, <3>1 DEF OutputInv
    <3>8. HiddenInv'
      BY <1>1, <2>0, <3>1, <3>2 DEF HiddenInv
    <3> QED
      BY <2>4, <3>1, <3>3, <3>4, <3>5, <3>6, <3>7, <3>8 DEF HandoffInv, TypeOK
  <2> QED
    BY <2>6, <2>7
<1>7. layer \in Layers => Origin(layer, seq) \in Origins
  BY <1>1, MoeAssumption DEF Origins, Origin, Layers
<1>8. ASSUME CopyActivation PROVE HandoffInv'
  <2>0. /\ Goto(0, "route") /\ act' = [act EXCEPT ![Here0] = Origin(layer, seq)]
        /\ UNCHANGED <<routing, act_sentinel, result_sentinel, local, outs, scan, sums, hidden>>
        /\ layer \in Layers /\ pc[0] = "copy"
    BY <1>1, <1>3, <1>8, MoeAssumption DEF CopyActivation, PlaceInv, Layers
  <2>1. /\ HostType' /\ MailType' /\ MailInv' /\ HostInv'
        /\ Here0' = Here0 /\ InStep' /\ layer' = layer /\ seq' = seq /\ sent' = sent
        /\ pc'[0] = "route" /\ \A w \in Workers : pc'[w] = pc[w] /\ ~Done(w)'
        /\ ~Done(0)' /\ ~PostPending'
    BY <1>4, <2>0 DEF Places
  <2>2. StageType'
    BY <1>1, <1>3, <1>7, <2>0 DEF StageType
  <2>3. SumType'
    BY <1>3, <2>0 DEF SumType
  <2>4. PlaceInv'
    BY <1>3, <2>0, <2>1 DEF PlaceInv
  <2>5. ~Signalled'
    BY <1>2, <2>0, <2>1 DEF Signalled
  <2>6. SentinelInv'
    BY <1>1, <1>2, <1>3, <2>0, <2>1, <2>5 DEF SentinelInv
  <2>7. act'[Here0] = Origin(layer, seq)
    BY <1>1, <1>3, <2>0 DEF StageType
  <2>8. StagingInv'
    BY <1>2, <2>0, <2>1, <2>5, <2>7 DEF StagingInv
  <2>9. OutputInv'
    BY <1>1, <1>2, <1>3, <2>0, <2>1 DEF OutputInv
  <2>10. HiddenInv'
    BY <1>1, <1>3, <2>0, <2>1 DEF HiddenInv, PostPending
  <2> QED
    BY <2>1, <2>2, <2>3, <2>4, <2>6, <2>8, <2>9, <2>10 DEF HandoffInv, TypeOK
<1>9. ASSUME CopyRouting PROVE HandoffInv'
  <2>0. /\ Goto(0, "signal") /\ routing' = [routing EXCEPT ![Here0] = Origin(layer, seq)]
        /\ UNCHANGED <<act, act_sentinel, result_sentinel, local, outs, scan, sums, hidden>>
        /\ layer \in Layers /\ pc[0] = "route"
    BY <1>1, <1>3, <1>9, MoeAssumption DEF CopyRouting, PlaceInv, Layers
  <2>1. /\ HostType' /\ MailType' /\ MailInv' /\ HostInv'
        /\ Here0' = Here0 /\ InStep' /\ layer' = layer /\ seq' = seq /\ sent' = sent
        /\ pc'[0] = "signal" /\ \A w \in Workers : pc'[w] = pc[w] /\ ~Done(w)'
        /\ ~Done(0)' /\ ~PostPending'
    BY <1>4, <2>0 DEF Places
  <2>2. StageType'
    BY <1>1, <1>3, <1>7, <2>0 DEF StageType
  <2>3. SumType'
    BY <1>3, <2>0 DEF SumType
  <2>4. PlaceInv'
    BY <1>3, <2>0, <2>1 DEF PlaceInv
  <2>5. ~Signalled'
    BY <1>2, <2>0, <2>1 DEF Signalled
  <2>6. SentinelInv'
    BY <1>1, <1>2, <1>3, <2>0, <2>1, <2>5 DEF SentinelInv
  <2>7. act'[Here0] = Origin(layer, seq) /\ routing'[Here0] = Origin(layer, seq)
    BY <1>1, <1>3, <2>0 DEF StageType, StagingInv
  <2>8. StagingInv'
    BY <1>2, <2>0, <2>1, <2>5, <2>7 DEF StagingInv
  <2>9. OutputInv'
    BY <1>1, <1>2, <1>3, <2>0, <2>1 DEF OutputInv
  <2>10. HiddenInv'
    BY <1>1, <1>3, <2>0, <2>1 DEF HiddenInv, PostPending
  <2> QED
    BY <2>1, <2>2, <2>3, <2>4, <2>6, <2>8, <2>9, <2>10 DEF HandoffInv, TypeOK
<1>10. ASSUME SignalActivation PROVE HandoffInv'
  <2>0. /\ Goto(0, "ack") /\ act_sentinel' = [act_sentinel EXCEPT ![layer][Here0] = seq]
        /\ UNCHANGED <<act, routing, result_sentinel, local, outs, scan, sums, hidden>>
        /\ layer \in Layers /\ pc[0] = "signal"
    BY <1>1, <1>3, <1>10, MoeAssumption DEF SignalActivation, PlaceInv, Layers
  <2>1. /\ HostType' /\ MailType' /\ MailInv' /\ HostInv'
        /\ Here0' = Here0 /\ InStep' /\ layer' = layer /\ seq' = seq /\ sent' = sent
        /\ pc'[0] = "ack" /\ \A w \in Workers : pc'[w] = pc[w] /\ ~Done(w)'
        /\ Done(0)' /\ ~PostPending'
    BY <1>4, <2>0 DEF Places
  <2>2. StageType'
    BY <1>1, <1>3, <2>0 DEF StageType
  <2>3. SumType'
    BY <1>3, <2>0 DEF SumType
  <2>4. PlaceInv'
    BY <1>3, <2>0, <2>1 DEF PlaceInv
  <2>5. Signalled'
    BY <1>1, <1>3, <2>0, <2>1 DEF Signalled, StageType
  <2>6. SentinelInv'
    <3>1. ASSUME NEW l \in Layers, NEW s \in Slots
          PROVE  act_sentinel'[l][s] <= seq /\ (l # layer => act_sentinel'[l][s] = act_sentinel[l][s])
      BY <1>1, <1>3, <2>0 DEF SentinelInv, StageType
    <3> QED
      BY <1>1, <1>3, <2>0, <2>1, <2>5, <3>1, MoeAssumption DEF SentinelInv, Layers
  <2>7. act'[Here0] = Origin(layer, seq) /\ routing'[Here0] = Origin(layer, seq)
    BY <1>3, <2>0 DEF StagingInv
  <2>8. StagingInv'
    BY <1>2, <2>0, <2>1, <2>5, <2>7 DEF StagingInv
  <2>9. OutputInv'
    BY <1>2, <2>0, <2>1, <2>5, MoeAssumption DEF OutputInv, Layers
  <2>10. HiddenInv'
    BY <1>1, <1>3, <2>0, <2>1 DEF HiddenInv, PostPending
  <2> QED
    BY <2>1, <2>2, <2>3, <2>4, <2>6, <2>8, <2>9, <2>10 DEF HandoffInv, TypeOK
<1> QED
  BY <1>5, <1>6, <1>8, <1>9, <1>10

\* The steps of a worker inside a batch
LEMMA WorkerInside ==
    ASSUME OptionC, HandoffInv, NEW w \in Workers,
           WaitActivation(w) \/ LoadActivation(w) \/ LoadRouting(w) \/ StoreResult(w) \/ SignalResult(w)
    PROVE  HandoffInv'
<1>0. /\ 0 \in Gpus /\ w \in Gpus /\ w # 0 /\ pc[w] \notin {"poll", "ack"} /\ UNCHANGED hostVars
      /\ UNCHANGED <<taken, ack, cur, act, routing, act_sentinel, scan, sums, hidden>>
  BY Kinds DEF WaitActivation, LoadActivation, LoadRouting, StoreResult, SignalResult, memVars
<1>1. /\ InStep /\ cur[w].layer = layer /\ cur[w].seq = seq /\ ~Done(w)
      /\ seq \in Nat \ {0} /\ layer \in Layers /\ Here0 \in Slots /\ WorkSlot(w) = Here0
  BY <1>0, Busy DEF WorkSlot, Here0
<1>2. StageType /\ SumType /\ PlaceInv /\ SentinelInv /\ StagingInv /\ OutputInv /\ HiddenInv
  BY DEF HandoffInv, TypeOK
<1>3. ASSUME NEW place \in {"load", "gate", "store", "signal", "ack"}, Goto(w, place)
      PROVE  /\ HostType' /\ MailType' /\ MailInv' /\ HostInv'
             /\ Here0' = Here0 /\ InStep' /\ layer' = layer /\ seq' = seq
             /\ pc'[w] = place /\ pc'[0] = pc[0]
             /\ \A v \in Workers : v # w => pc'[v] = pc[v] /\ (Done(v)' <=> Done(v))
             /\ Done(0)' <=> Done(0)
             /\ Done(w)' <=> place = "ack"
             /\ PostPending' <=> PostPending
             /\ Signalled' <=> Signalled
             /\ PlaceInv'
  <2>1. place \in Places /\ place # "poll"
    BY DEF Places
  <2>2. /\ HostType' /\ MailType' /\ MailInv' /\ HostInv'
        /\ Here0' = Here0 /\ InStep' /\ layer' = layer /\ seq' = seq
        /\ pc'[w] = place /\ \A h \in Gpus : h # w => pc'[h] = pc[h]
        /\ \A h \in Gpus : Fired(h)' <=> Fired(h)
        /\ \A h \in Gpus : h # w => (Done(h)' <=> Done(h))
        /\ Done(w)' <=> place = "ack"
    BY <1>0, <1>1, <1>3, <2>1, Inside
  <2>3. sent' = sent /\ ack' = ack
    BY <1>0 DEF hostVars
  <2>4. PostPending' <=> PostPending
    BY <1>0, <2>2, <2>3 DEF PostPending
  <2>5. Signalled' <=> Signalled
    BY <1>0, <2>2 DEF Signalled
  <2>6. PlaceInv'
    BY <1>0, <1>2, <2>2, Kinds DEF PlaceInv
  <2> QED
    BY <1>0, <2>2, <2>4, <2>5, <2>6, Kinds
<1>4. ASSUME WaitActivation(w) PROVE HandoffInv'
  <2>0. Goto(w, "load") /\ UNCHANGED <<result_sentinel, local, outs>> /\ Signalled /\ pc[w] = "wait"
    BY <1>1, <1>4 DEF WaitActivation, Signalled, memVars
  <2>f. /\ HostType' /\ MailType' /\ MailInv' /\ HostInv' /\ PlaceInv'
        /\ Here0' = Here0 /\ InStep' /\ layer' = layer /\ seq' = seq
        /\ pc'[w] = "load" /\ pc'[0] = pc[0] /\ ~Done(w)'
        /\ \A v \in Workers : v # w => pc'[v] = pc[v] /\ (Done(v)' <=> Done(v))
        /\ (Done(0)' <=> Done(0)) /\ (PostPending' <=> PostPending) /\ Signalled'
    BY <1>3, <2>0
  <2>1. StageType' /\ SumType'
    BY <1>0, <1>2, <2>0 DEF StageType, SumType
  <2>2. SentinelInv'
    BY <1>0, <1>1, <1>2, <2>f, <2>0, MoeAssumption DEF SentinelInv, Layers
  <2>3. StagingInv'
    BY <1>0, <1>1, <1>2, <2>f, <2>0, MoeAssumption DEF StagingInv, Layers
  <2>4. OutputInv'
    BY <1>0, <1>1, <1>2, <2>f, <2>0, MoeAssumption DEF OutputInv, Layers
  <2>5. HiddenInv'
    BY <1>0, <1>1, <1>2, <2>f, <2>0 DEF HiddenInv
  <2> QED
    BY <2>f, <2>0, <2>1, <2>2, <2>3, <2>4, <2>5 DEF HandoffInv, TypeOK
<1>5. ASSUME LoadActivation(w) PROVE HandoffInv'
  <2>0. /\ Goto(w, "gate") /\ UNCHANGED <<result_sentinel, outs>> /\ Signalled /\ pc[w] = "load"
        /\ local' = [local EXCEPT ![w].act = act[Here0]] /\ act[Here0] = Origin(layer, seq)
    BY <1>1, <1>2, <1>5, MoeAssumption DEF LoadActivation, StagingInv, memVars, Layers
  <2>f. /\ HostType' /\ MailType' /\ MailInv' /\ HostInv' /\ PlaceInv'
        /\ Here0' = Here0 /\ InStep' /\ layer' = layer /\ seq' = seq
        /\ pc'[w] = "gate" /\ pc'[0] = pc[0] /\ ~Done(w)'
        /\ \A v \in Workers : v # w => pc'[v] = pc[v] /\ (Done(v)' <=> Done(v))
        /\ (Done(0)' <=> Done(0)) /\ (PostPending' <=> PostPending) /\ Signalled'
    BY <1>3, <2>0
  <2>1. StageType' /\ SumType'
    BY <1>0, <1>1, <1>2, <2>0 DEF StageType, SumType
  <2>2. SentinelInv'
    BY <1>0, <1>1, <1>2, <2>f, <2>0, MoeAssumption DEF SentinelInv, Layers
  <2>3. local'[w].act = Origin(layer, seq) /\ \A v \in Workers : v # w => local'[v] = local[v]
    BY <1>2, <2>0 DEF StageType
  <2>4. StagingInv'
    BY <1>0, <1>1, <1>2, <2>f, <2>0, <2>3, MoeAssumption DEF StagingInv, Layers
  <2>5. OutputInv'
    BY <1>0, <1>1, <1>2, <2>f, <2>0, MoeAssumption DEF OutputInv, Layers
  <2>6. HiddenInv'
    BY <1>0, <1>1, <1>2, <2>f, <2>0 DEF HiddenInv
  <2> QED
    BY <2>f, <2>0, <2>1, <2>2, <2>4, <2>5, <2>6 DEF HandoffInv, TypeOK
<1>6. ASSUME LoadRouting(w) PROVE HandoffInv'
  <2>0. /\ Goto(w, "store") /\ UNCHANGED <<result_sentinel, outs>> /\ Signalled /\ pc[w] = "gate"
        /\ local' = [local EXCEPT ![w].routing = routing[Here0]] /\ routing[Here0] = Origin(layer, seq)
    BY <1>1, <1>2, <1>6, MoeAssumption DEF LoadRouting, StagingInv, memVars, Layers
  <2>f. /\ HostType' /\ MailType' /\ MailInv' /\ HostInv' /\ PlaceInv'
        /\ Here0' = Here0 /\ InStep' /\ layer' = layer /\ seq' = seq
        /\ pc'[w] = "store" /\ pc'[0] = pc[0] /\ ~Done(w)'
        /\ \A v \in Workers : v # w => pc'[v] = pc[v] /\ (Done(v)' <=> Done(v))
        /\ (Done(0)' <=> Done(0)) /\ (PostPending' <=> PostPending) /\ Signalled'
    BY <1>3, <2>0
  <2>1. StageType' /\ SumType'
    BY <1>0, <1>1, <1>2, <2>0 DEF StageType, SumType
  <2>2. SentinelInv'
    BY <1>0, <1>1, <1>2, <2>f, <2>0, MoeAssumption DEF SentinelInv, Layers
  <2>3. /\ local'[w].routing = Origin(layer, seq) /\ local'[w].act = local[w].act
        /\ \A v \in Workers : v # w => local'[v] = local[v]
    BY <1>2, <2>0 DEF StageType
  <2>4. StagingInv'
    BY <1>0, <1>1, <1>2, <2>f, <2>0, <2>3, MoeAssumption DEF StagingInv, Layers
  <2>5. OutputInv'
    BY <1>0, <1>1, <1>2, <2>f, <2>0, MoeAssumption DEF OutputInv, Layers
  <2>6. HiddenInv'
    BY <1>0, <1>1, <1>2, <2>f, <2>0 DEF HiddenInv
  <2> QED
    BY <2>f, <2>0, <2>1, <2>2, <2>4, <2>5, <2>6 DEF HandoffInv, TypeOK
<1>7. ASSUME StoreResult(w) PROVE HandoffInv'
  <2>0. /\ Goto(w, "signal") /\ UNCHANGED <<result_sentinel, local>> /\ Signalled /\ pc[w] = "store"
        /\ local[w].act = Origin(layer, seq) /\ local[w].routing = Origin(layer, seq)
    BY <1>1, <1>2, <1>7 DEF StoreResult, StagingInv, OptionC
  <2>f. /\ HostType' /\ MailType' /\ MailInv' /\ HostInv' /\ PlaceInv'
        /\ Here0' = Here0 /\ InStep' /\ layer' = layer /\ seq' = seq
        /\ pc'[w] = "signal" /\ pc'[0] = pc[0] /\ ~Done(w)'
        /\ \A v \in Workers : v # w => pc'[v] = pc[v] /\ (Done(v)' <=> Done(v))
        /\ (Done(0)' <=> Done(0)) /\ (PostPending' <=> PostPending) /\ Signalled'
    BY <1>3, <2>0
  <2>1. outs' = [outs EXCEPT ![w][Here0] = Moe!Share(layer, seq)]
    BY <1>1, <1>7, <2>0 DEF StoreResult, Moe!Share, Moe!Origin, Origin
  <2>2. Moe!Share(layer, seq) \in Shares
    BY <1>1, MoeAssumption DEF Shares, Origins, Moe!Share, Moe!Origin, Layers
  <2>3. StageType' /\ SumType'
    BY <1>0, <1>1, <1>2, <2>0, <2>1, <2>2 DEF StageType, SumType
  <2>4. SentinelInv'
    BY <1>0, <1>1, <1>2, <2>f, <2>0, MoeAssumption DEF SentinelInv, Layers
  <2>5. StagingInv'
    BY <1>0, <1>1, <1>2, <2>f, <2>0, MoeAssumption DEF StagingInv, Layers
  <2>6. outs'[w][Here0] = Moe!Share(layer, seq) /\ \A v \in Workers : v # w => outs'[v] = outs[v]
    BY <1>1, <1>2, <2>1 DEF SumType
  <2>7. OutputInv'
    BY <1>0, <1>1, <1>2, <2>f, <2>0, <2>6, MoeAssumption DEF OutputInv, Layers
  <2>8. HiddenInv'
    BY <1>0, <1>1, <1>2, <2>f, <2>0 DEF HiddenInv
  <2> QED
    BY <2>f, <2>0, <2>3, <2>4, <2>5, <2>7, <2>8 DEF HandoffInv, TypeOK
<1>8. ASSUME SignalResult(w) PROVE HandoffInv'
  <2>0. /\ Goto(w, "ack") /\ UNCHANGED <<local, outs>> /\ Signalled /\ pc[w] = "signal"
        /\ result_sentinel' = [result_sentinel EXCEPT ![layer][w][Here0] = seq]
    BY <1>1, <1>2, <1>8 DEF SignalResult, StagingInv
  <2>f. /\ HostType' /\ MailType' /\ MailInv' /\ HostInv' /\ PlaceInv'
        /\ Here0' = Here0 /\ InStep' /\ layer' = layer /\ seq' = seq
        /\ pc'[w] = "ack" /\ pc'[0] = pc[0] /\ Done(w)'
        /\ \A v \in Workers : v # w => pc'[v] = pc[v] /\ (Done(v)' <=> Done(v))
        /\ (Done(0)' <=> Done(0)) /\ (PostPending' <=> PostPending) /\ Signalled'
    BY <1>3, <2>0
  <2>1. StageType' /\ SumType'
    BY <1>0, <1>1, <1>2, <2>0 DEF StageType, SumType
  <2>2. ASSUME NEW l \in Layers, NEW v \in Workers, NEW s \in Slots PROVE result_sentinel'[l][v][s] <= seq
    BY <1>1, <1>2, <2>0 DEF SentinelInv, StageType
  <2>3. SentinelInv'
    BY <1>0, <1>1, <1>2, <2>f, <2>0, <2>2, MoeAssumption DEF SentinelInv, Layers
  <2>4. StagingInv'
    BY <1>0, <1>1, <1>2, <2>f, <2>0, MoeAssumption DEF StagingInv, Layers
  <2>5. OutputInv'
    BY <1>0, <1>1, <1>2, <2>f, <2>0, MoeAssumption DEF OutputInv, Layers
  <2>6. HiddenInv'
    BY <1>0, <1>1, <1>2, <2>f, <2>0 DEF HiddenInv
  <2> QED
    BY <2>f, <2>0, <2>1, <2>3, <2>4, <2>5, <2>6 DEF HandoffInv, TypeOK
<1> QED
  BY <1>4, <1>5, <1>6, <1>7, <1>8

\* A kernel takes the batch in its mailbox, which is the one of this layer.
LEMMA TakeStep ==
    ASSUME HandoffInv, NEW g \in Gpus, Take(g)
    PROVE  HandoffInv'
<1>0. /\ UNCHANGED <<host, layer, next, waiting, seq, steps, sent, work>>
      /\ UNCHANGED <<act, routing, act_sentinel, result_sentinel, outs, ack, sums, local, hidden>>
      /\ pc[g] = "poll" /\ sent[g] > taken[g]
  BY DEF Take, hostVars, memVars
<1>1. HostType /\ MailType /\ StageType /\ SumType
  BY DEF HandoffInv, TypeOK
<1>2. PlaceInv /\ HostInv /\ MailInv /\ SentinelInv /\ StagingInv /\ OutputInv /\ HiddenInv
  BY DEF HandoffInv
<1>3. sent[g] \in Nat /\ ack[g] \in Nat /\ taken[g] = ack[g] /\ sent[g] = ack[g] + 1 /\ sent[g] # ack[g]
  BY <1>0, <1>1, <1>2 DEF MailType, MailInv
<1>4. Fired(g) /\ work[g] = Now /\ work[g].layer = layer /\ InStep
  BY <1>2, <1>3 DEF MailInv, Now, Fired, InStep
<1>5. (g = 0 => scan' = 1) /\ (g # 0 => scan' = scan)
  BY DEF Take
<1>6. PICK place \in {"wait", "spin", "copy"} :
        /\ Goto(g, place)
        /\ g # 0 <=> place = "wait"
        /\ place = "spin" => layer > 1
        /\ place = "copy" => ~(layer > 1)
  BY <1>4 DEF Take
<1>7. pc'[g] = place /\ \A h \in Gpus : h # g => pc'[h] = pc[h]
  BY <1>1, <1>6 DEF Goto, MailType
<1>8. cur'[g] = work[g] /\ taken'[g] = sent[g] /\ \A h \in Gpus : h # g => cur'[h] = cur[h] /\ taken'[h] = taken[h]
  BY <1>1 DEF Take, MailType
<1>9. Here0' = Here0 /\ Now' = Now /\ (InStep' <=> InStep) /\ (Signalled' <=> Signalled)
  BY <1>0 DEF Here0, Now, InStep, Signalled
<1>10. ASSUME NEW h \in Gpus PROVE Fired(h)' <=> Fired(h)
  BY <1>0 DEF Fired
<1>11. ASSUME NEW h \in Gpus PROVE Done(h)' <=> Done(h)
  BY <1>0, <1>3, <1>7, <1>10 DEF Done
<1>12. PostPending' <=> PostPending
  BY <1>0, <1>3, <1>4, <1>6, <1>7, <1>10, Kinds DEF PostPending
<1>13. TypeOK'
  <2>1. place \in Places
    BY DEF Places
  <2>2. MailType'
    BY <1>0, <1>1, <1>6, <2>1 DEF MailType, Goto, Take
  <2>3. scan' \in Workers
    BY <1>1, <1>5, Kinds DEF SumType
  <2> QED
    BY <1>0, <1>1, <2>2, <2>3 DEF TypeOK, HostType, StageType, SumType
<1>14. MailInv'
  BY <1>0, <1>2, <1>3, <1>4, <1>6, <1>7, <1>8, <1>9, <1>10 DEF MailInv
<1>15. PlaceInv'
  BY <1>0, <1>1, <1>2, <1>6, <1>7, Kinds, MoeAssumption DEF PlaceInv, HostType
<1>16. HostInv'
  BY <1>0, <1>2, <1>9 DEF HostInv
<1>17. SentinelInv'
  BY <1>0, <1>2, <1>9, <1>11, Kinds DEF SentinelInv
<1>18. StagingInv'
  BY <1>0, <1>2, <1>6, <1>7, <1>9, <1>11, Kinds DEF StagingInv
<1>19. OutputInv'
  BY <1>0, <1>2, <1>5, <1>6, <1>7, <1>9, <1>11, Kinds DEF OutputInv
<1>20. HiddenInv'
  BY <1>0, <1>2, <1>9, <1>12 DEF HiddenInv
<1> QED
  BY <1>13, <1>14, <1>15, <1>16, <1>17, <1>18, <1>19, <1>20 DEF HandoffInv

\* A kernel acknowledges its batch and polls again.
LEMMA AckStep ==
    ASSUME HandoffInv, NEW g \in Gpus, Ack(g)
    PROVE  HandoffInv'
<1>0. /\ UNCHANGED <<host, layer, next, waiting, seq, steps, sent, work>>
      /\ UNCHANGED <<act, routing, act_sentinel, result_sentinel, outs, taken, cur, scan, sums, local, hidden>>
      /\ pc[g] = "ack"
  BY DEF Ack, hostVars, memVars
<1>1. HostType /\ MailType /\ StageType /\ SumType
  BY DEF HandoffInv, TypeOK
<1>2. PlaceInv /\ HostInv /\ MailInv /\ SentinelInv /\ StagingInv /\ OutputInv /\ HiddenInv
  BY DEF HandoffInv
<1>3. Fired(g) /\ InStep /\ taken[g] = sent[g] /\ sent[g] \in Nat /\ sent[g] # ack[g] /\ Done(g)
  BY <1>0, <1>1, Busy DEF MailType, Done
<1>4. pc'[g] = "poll" /\ \A h \in Gpus : h # g => pc'[h] = pc[h]
  BY <1>1 DEF Ack, Goto, MailType
<1>5. ack'[g] = sent[g] /\ \A h \in Gpus : h # g => ack'[h] = ack[h]
  BY <1>1, <1>3 DEF Ack, MailType
<1>6. Here0' = Here0 /\ Now' = Now /\ (InStep' <=> InStep) /\ (Signalled' <=> Signalled)
  BY <1>0 DEF Here0, Now, InStep, Signalled
<1>7. ASSUME NEW h \in Gpus PROVE Fired(h)' <=> Fired(h)
  BY <1>0 DEF Fired
<1>8. ASSUME NEW h \in Gpus PROVE Done(h)' <=> Done(h)
  BY <1>0, <1>3, <1>4, <1>5, <1>7 DEF Done
<1>9. PostPending' <=> PostPending
  BY <1>0, <1>3, <1>4, <1>5, <1>7, Kinds DEF PostPending
<1>10. TypeOK'
  <2>1. MailType'
    BY <1>0, <1>1 DEF MailType, Goto, Ack, Places
  <2> QED
    BY <1>0, <1>1, <2>1 DEF TypeOK, HostType, StageType, SumType
<1>11. MailInv'
  BY <1>0, <1>2, <1>3, <1>4, <1>5, <1>6, <1>7 DEF MailInv
<1>12. PlaceInv'
  BY <1>0, <1>2, <1>4, Kinds DEF PlaceInv
<1>13. HostInv'
  BY <1>0, <1>2, <1>5, <1>6 DEF HostInv
<1>14. SentinelInv'
  BY <1>0, <1>2, <1>6, <1>8, Kinds DEF SentinelInv
<1>15. StagingInv'
  BY <1>0, <1>2, <1>4, <1>6, <1>8, Kinds DEF StagingInv
<1>16. OutputInv'
  BY <1>0, <1>2, <1>4, <1>6, <1>8, Kinds DEF OutputInv
<1>17. HiddenInv'
  BY <1>0, <1>2, <1>6, <1>9 DEF HiddenInv
<1> QED
  BY <1>10, <1>11, <1>12, <1>13, <1>14, <1>15, <1>16, <1>17 DEF HandoffInv

\* The host fires into the mailbox of GPU g: FireSegment, FireWorker and FireTail
LEMMA Firing ==
    ASSUME HandoffInv, NEW g \in Gpus, sent[g] = ack[g], Fire(g, Now),
           UNCHANGED <<layer, seq, steps, memVars, gpuVars>>,
           Fired(g)', \A h \in Gpus : h # g => (Fired(h)' <=> Fired(h)),
           InStep, InStep', HostType', ~Fired(g)
    PROVE  /\ TypeOK' /\ MailInv' /\ PlaceInv' /\ SentinelInv' /\ StagingInv' /\ OutputInv' /\ HiddenInv'
<1>0. UNCHANGED <<layer, seq, steps, act, routing, act_sentinel, result_sentinel, outs,
                  taken, ack, cur, pc, scan, sums, local, hidden>>
  BY DEF memVars, gpuVars
<1>1. HostType /\ MailType /\ StageType /\ SumType
  BY DEF HandoffInv, TypeOK
<1>2. PlaceInv /\ HostInv /\ MailInv /\ SentinelInv /\ StagingInv /\ OutputInv /\ HiddenInv
  BY DEF HandoffInv
<1>3. pc[g] = "poll" /\ taken[g] = ack[g] /\ ack[g] \in Nat
  BY <1>1, AtRest DEF MailType
<1>4. Here0' = Here0 /\ Now' = Now /\ (Signalled' <=> Signalled)
  BY <1>0 DEF Here0, Now, Signalled
<1>5. /\ sent'[g] = ack[g] + 1 /\ work'[g] = Now /\ ack[g] + 1 # ack[g]
      /\ \A h \in Gpus : h # g => sent'[h] = sent[h] /\ work'[h] = work[h]
  BY <1>1, <1>3 DEF Fire, MailType
<1>6. ASSUME NEW h \in Gpus PROVE Done(h)' <=> Done(h)
  BY <1>0, <1>3, <1>5 DEF Done
<1>7. PostPending' <=> PostPending
  BY <1>0, <1>3, <1>5, Kinds DEF PostPending
<1>8. TypeOK'
  <2>1. Now \in Work
    BY <1>1, MoeAssumption DEF Now, Work, HostType
  <2>2. MailType'
    BY <1>0, <1>1, <2>1 DEF MailType, Fire
  <2> QED
    BY <1>0, <1>1, <2>2 DEF TypeOK, StageType, SumType
<1>9. MailInv'
  BY <1>0, <1>2, <1>3, <1>4, <1>5 DEF MailInv
<1>10. PlaceInv'
  BY <1>0, <1>2 DEF PlaceInv
<1>11. SentinelInv'
  BY <1>0, <1>2, <1>4, <1>6, Kinds DEF SentinelInv
<1>12. StagingInv'
  BY <1>0, <1>2, <1>4, <1>6, Kinds DEF StagingInv
<1>13. OutputInv'
  BY <1>0, <1>2, <1>4, <1>6, Kinds DEF OutputInv
<1>14. HiddenInv'
  BY <1>0, <1>2, <1>4, <1>7 DEF HiddenInv
<1> QED
  BY <1>8, <1>9, <1>10, <1>11, <1>12, <1>13, <1>14

\* The three places where the host fires: the mailbox is free and the batch is the one of Now.
LEMMA FireSteps ==
    ASSUME OptionC, HandoffInv, FireSegment \/ FireWorker \/ FireTail
    PROVE  HandoffInv'
<1>1. HostType /\ HostInv /\ MailInv
  BY DEF HandoffInv, TypeOK
<1>2. layer \in 1..(NumLayers + 1) /\ next \in Workers /\ waiting \subseteq Gpus
  BY <1>1 DEF HostType
<1>3. ASSUME FireSegment PROVE HandoffInv'
  <2>1. /\ host = "segment" /\ host' = "workers" /\ next' = 1 /\ Fire(0, Now)
        /\ UNCHANGED <<layer, waiting, seq, steps, memVars, gpuVars>>
    BY <1>3 DEF FireSegment, Now
  <2>2. ~Fired(0) /\ Fired(0)' /\ sent[0] = ack[0] /\ InStep /\ InStep'
    BY <1>1, <2>1, Kinds DEF Fired, MailInv, InStep
  <2>3. ASSUME NEW h \in Gpus, h # 0 PROVE Fired(h)' <=> Fired(h)
    <3>1. ~(h < 1)
      BY <2>3, Kinds
    <3> QED
      BY <2>1, <2>3, <3>1 DEF Fired
  <2>4. HostType'
    BY <1>1, <2>1, Kinds DEF HostType
  <2>5. HostInv'
    BY <1>1, <2>1 DEF HostInv, InStep
  <2> QED
    BY <2>1, <2>2, <2>3, <2>4, <2>5, Kinds, Firing DEF HandoffInv
<1>4. ASSUME FireWorker PROVE HandoffInv'
  <2>1. /\ host = "workers" /\ Fire(next, Now) /\ next \in Gpus /\ next # 0 /\ layer <= NumLayers
        /\ UNCHANGED <<layer, seq, steps, memVars, gpuVars>>
    BY <1>1, <1>2, <1>4, Kinds DEF FireWorker, Now, HostInv
  <2>2. ~Fired(next) /\ sent[next] = ack[next] /\ InStep
    BY <1>1, <1>2, <2>1, MoeAssumption DEF Fired, MailInv, InStep, Workers
  <2>3. \/ next < NumWorkers /\ next' = next + 1 /\ host' = "workers" /\ UNCHANGED waiting
        \/ next = NumWorkers /\ host' = "wait" /\ waiting' = Gpus /\ UNCHANGED next
    BY <1>2, <1>4, <2>1, MoeAssumption DEF FireWorker, Awaited, OptionC, Workers
  <2>4. PICK g \in Gpus : g = next
    BY <2>1
  <2>5. Fired(g)' /\ InStep'
    BY <1>2, <2>1, <2>3, <2>4, MoeAssumption DEF Fired, InStep, Workers
  <2>6. ASSUME NEW h \in Gpus, h # g PROVE Fired(h)' <=> Fired(h)
    BY <1>2, <2>1, <2>3, <2>4, <2>6, MoeAssumption DEF Fired, Workers, Gpus
  <2>7. HostType'
    <3>1. next' \in Workers
      BY <1>2, <2>3, MoeAssumption DEF Workers
    <3> QED
      BY <1>1, <2>1, <2>3, <3>1 DEF HostType
  <2>8. HostInv'
    BY <1>1, <2>1, <2>2, <2>3, <2>5 DEF HostInv
  <2> QED
    BY <2>1, <2>2, <2>4, <2>5, <2>6, <2>7, <2>8, Firing DEF HandoffInv
<1>5. ASSUME FireTail PROVE HandoffInv'
  <2>1. /\ host = "tail" /\ host' = "tailwait" /\ waiting' = {0} /\ Fire(0, Now)
        /\ UNCHANGED <<layer, next, seq, steps, memVars, gpuVars>>
    BY <1>5 DEF FireTail, Now
  <2>2. ~Fired(0) /\ Fired(0)' /\ sent[0] = ack[0] /\ InStep /\ InStep' /\ layer = NumLayers + 1
    BY <1>1, <2>1, Kinds DEF Fired, MailInv, InStep, HostInv
  <2>3. ASSUME NEW h \in Gpus, h # 0 PROVE ~Fired(h)' /\ ~Fired(h)
    BY <2>1, <2>2, <2>3, MoeAssumption DEF Fired
  <2>4. HostType'
    BY <1>1, <2>1, Kinds DEF HostType
  <2>5. ASSUME NEW h \in Gpus, h # 0 PROVE sent'[h] = ack'[h]
    BY <1>1, <2>1, <2>3, <2>5 DEF MailInv, Fire, gpuVars, HandoffInv, TypeOK, MailType
  <2>6. HostInv'
    BY <1>1, <2>1, <2>2, <2>5 DEF HostInv
  <2> QED
    BY <2>1, <2>2, <2>3, <2>4, <2>6, Kinds, Firing DEF HandoffInv
<1> QED
  BY <1>3, <1>4, <1>5

\* The steps of the host that fire nothing
LEMMA OtherHostSteps ==
    ASSUME OptionC, HandoffInv,
           BeginStep \/ (\E g \in Gpus : AckSeen(g)) \/ LayerDone \/ StepDone \/ WaitFails
    PROVE  HandoffInv'
<1>0. UNCHANGED <<next, sent, work, act, routing, act_sentinel, result_sentinel, outs,
                  taken, ack, cur, pc, scan, sums, local, hidden>>
  BY DEF BeginStep, AckSeen, LayerDone, StepDone, WaitFails, memVars, gpuVars
<1>1. HostType /\ MailType /\ StageType /\ SumType
  BY DEF HandoffInv, TypeOK
<1>2. PlaceInv /\ HostInv /\ MailInv /\ SentinelInv /\ StagingInv /\ OutputInv /\ HiddenInv
  BY DEF HandoffInv
<1>3. layer \in 1..(NumLayers + 1) /\ seq \in Nat /\ steps \in Nat
  BY <1>1 DEF HostType
<1>4. MailType' /\ StageType' /\ SumType'
  BY <1>0, <1>1 DEF MailType, StageType, SumType
<1>5. ASSUME BeginStep PROVE HandoffInv'
  <2>1. /\ host = "idle" /\ host' = "segment" /\ layer' = 1 /\ UNCHANGED waiting
        /\ seq' \in Nat /\ seq' > seq /\ steps' = steps + 1
    BY <1>5, <1>3, MoeAssumption DEF BeginStep, OptionC
  <2>2. ASSUME NEW g \in Gpus PROVE ~Fired(g) /\ ~Fired(g)' /\ ~Done(g)'
    BY <2>1 DEF Fired, Done
  <2>3. ASSUME NEW g \in Gpus PROVE sent[g] = ack[g] /\ pc[g] = "poll"
    BY <1>2, <2>2, AtRest DEF MailInv
  <2>4. 1 \in Layers /\ Here0' \in Slots /\ InStep' /\ ~InStep
    BY <2>1, SlotFact, MoeAssumption DEF Here0, Layers, InStep
  <2>5. TypeOK'
    BY <1>1, <1>0, <1>3, <1>4, <2>1, MoeAssumption DEF TypeOK, HostType
  <2>6. MailInv'
    BY <1>0, <1>2, <2>2, <2>3 DEF MailInv
  <2>7. PlaceInv'
    BY <1>0, <2>3, Kinds DEF PlaceInv
  <2>8. HostInv'
    BY <1>3, <2>1, <2>4, MoeAssumption DEF HostInv
  <2>9. ASSUME NEW l \in Layers, NEW s \in Slots
        PROVE  act_sentinel'[l][s] <= seq' /\ act_sentinel'[l][s] # seq'
    <3>1. act_sentinel[l][s] \in Nat /\ act_sentinel[l][s] <= seq
      BY <1>1, <1>2 DEF StageType, SentinelInv
    <3> QED
      BY <1>0, <1>3, <2>1, <3>1
  <2>10. ASSUME NEW l \in Layers, NEW w \in Workers, NEW s \in Slots
         PROVE  result_sentinel'[l][w][s] <= seq'
    <3>1. result_sentinel[l][w][s] \in Nat /\ result_sentinel[l][w][s] <= seq
      BY <1>1, <1>2 DEF StageType, SentinelInv
    <3> QED
      BY <1>0, <1>3, <2>1, <3>1
  <2>11. ~Signalled'
    BY <2>1, <2>4, <2>9 DEF Signalled
  <2>12. SentinelInv'
    BY <2>2, <2>4, <2>9, <2>10, <2>11, Kinds DEF SentinelInv
  <2>13. StagingInv'
    BY <1>0, <2>2, <2>3, <2>11, Kinds DEF StagingInv
  <2>14. OutputInv'
    BY <1>0, <2>1, <2>2, <2>3, Kinds DEF OutputInv
  <2>15. HiddenInv'
    <3>1. hidden.layer = NumLayers /\ hidden.seq <= seq /\ hidden.seq \in Nat
      BY <1>1, <1>2, <2>4 DEF HiddenInv, SumType
    <3> QED
      BY <1>0, <1>3, <2>1, <2>4, <3>1 DEF HiddenInv
  <2> QED
    BY <2>5, <2>6, <2>7, <2>8, <2>12, <2>13, <2>14, <2>15 DEF HandoffInv
<1>6. ASSUME layer' = layer, seq' = seq, steps' = steps, HostType', HostInv', InStep, InStep',
             \A g \in Gpus : Fired(g)' <=> Fired(g)
      PROVE  HandoffInv'
  <2>1. ASSUME NEW g \in Gpus PROVE Done(g)' <=> Done(g)
    BY <1>0, <1>6 DEF Done
  <2>2. Here0' = Here0 /\ Now' = Now /\ (Signalled' <=> Signalled) /\ (PostPending' <=> PostPending)
    BY <1>0, <1>6, Kinds DEF Here0, Now, Signalled, PostPending
  <2>3. MailInv'
    BY <1>0, <1>2, <1>6, <2>2 DEF MailInv
  <2>4. PlaceInv'
    BY <1>0, <1>2, <1>6 DEF PlaceInv
  <2>5. SentinelInv'
    BY <1>0, <1>2, <1>6, <2>1, <2>2, Kinds DEF SentinelInv
  <2>6. StagingInv'
    BY <1>0, <1>2, <1>6, <2>1, <2>2, Kinds DEF StagingInv
  <2>7. OutputInv'
    BY <1>0, <1>2, <1>6, <2>1, <2>2, Kinds DEF OutputInv
  <2>8. HiddenInv'
    BY <1>0, <1>2, <1>6, <2>2 DEF HiddenInv
  <2> QED
    BY <1>4, <1>6, <2>3, <2>4, <2>5, <2>6, <2>7, <2>8 DEF HandoffInv, TypeOK
<1>7. ASSUME NEW g \in Gpus, AckSeen(g) PROVE HandoffInv'
  <2>1. /\ host \in {"wait", "tailwait"} /\ waiting' = waiting \ {g} /\ ack[g] = sent[g]
        /\ UNCHANGED <<host, layer, seq, steps>>
    BY <1>7 DEF AckSeen
  <2>2. HostType' /\ InStep /\ InStep'
    BY <1>0, <1>1, <2>1 DEF HostType, InStep
  <2>3. HostInv'
    BY <1>0, <1>2, <2>1, <2>2 DEF HostInv
  <2>4. \A h \in Gpus : Fired(h)' <=> Fired(h)
    BY <1>0, <2>1 DEF Fired
  <2> QED
    BY <1>6, <2>1, <2>2, <2>3, <2>4
<1>8. ASSUME WaitFails PROVE HandoffInv'
  <2>1. /\ host \in {"wait", "tailwait"} /\ host' = "failed"
        /\ UNCHANGED <<layer, seq, steps, waiting>>
    BY <1>8 DEF WaitFails
  <2>2. HostType' /\ InStep /\ InStep'
    BY <1>0, <1>1, <2>1 DEF HostType, InStep
  <2>3. HostInv'
    BY <1>0, <1>2, <2>1, <2>2 DEF HostInv
  <2>4. \A h \in Gpus : Fired(h)' <=> Fired(h)
    BY <1>0, <1>2, <1>3, <2>1, MoeAssumption DEF Fired, HostInv
  <2> QED
    BY <1>6, <2>1, <2>2, <2>3, <2>4
<1>9. ASSUME host \in {"wait", "tailwait"}, waiting = {}, NEW g \in Gpus
      PROVE  sent[g] = ack[g] /\ pc[g] = "poll" /\ (Fired(g) => Done(g))
  BY <1>2, <1>9, AtRest DEF HostInv, Done
<1>10. ASSUME LayerDone PROVE HandoffInv'
  <2>1. /\ host = "wait" /\ waiting = {} /\ layer' = layer + 1 /\ layer \in Layers
        /\ host' = IF layer < NumLayers THEN "segment" ELSE "tail"
        /\ UNCHANGED <<seq, steps, waiting>>
    BY <1>2, <1>3, <1>10, MoeAssumption DEF LayerDone, HostInv, Layers
  <2>2. layer' \in 2..(NumLayers + 1) /\ layer < layer' /\ host' \in {"segment", "tail"}
        /\ (host' = "segment" => layer' <= NumLayers) /\ (host' = "tail" => layer' = NumLayers + 1)
    BY <1>3, <2>1, MoeAssumption DEF Layers
  <2>3. ASSUME NEW g \in Gpus
        PROVE  sent[g] = ack[g] /\ pc[g] = "poll" /\ Fired(g) /\ Done(g) /\ ~Fired(g)' /\ ~Done(g)'
    <3>1. Fired(g) /\ ~Fired(g)'
      BY <2>1, <2>2, MoeAssumption DEF Fired, Layers
    <3> QED
      BY <1>9, <2>1, <3>1 DEF Done
  <2>4. InStep /\ InStep' /\ Here0' = Here0 /\ PostPending' /\ ~PostPending
    BY <1>3, <2>1, <2>2, <2>3, Kinds DEF InStep, Here0, PostPending
  <2>5. HostType'
    BY <1>0, <1>1, <2>1, <2>2, MoeAssumption DEF HostType
  <2>6. MailInv'
    BY <1>0, <1>2, <2>3 DEF MailInv
  <2>7. PlaceInv'
    BY <1>0, <2>3, Kinds DEF PlaceInv
  <2>8. HostInv'
    BY <1>2, <2>1, <2>2, <2>4 DEF HostInv
  <2>9. layer' \in Layers => ~Signalled'
    BY <1>0, <1>2, <1>3, <2>1, <2>4 DEF Signalled, SentinelInv
  <2>10. SentinelInv'
    <3>1. ASSUME NEW l \in Layers, l > layer' PROVE l > layer
      BY <1>3, <2>1, <3>1, MoeAssumption DEF Layers
    <3>2. layer' <= NumLayers => layer' \in Layers
      BY <2>2, MoeAssumption DEF Layers
    <3> QED
      BY <1>0, <1>2, <2>1, <2>3, <2>4, <2>9, <3>1, <3>2, Kinds DEF SentinelInv
  <2>11. StagingInv'
    <3>1. layer' <= NumLayers => layer' \in Layers
      BY <2>2, MoeAssumption DEF Layers
    <3> QED
      BY <1>0, <2>3, <2>9, <3>1, Kinds DEF StagingInv
  <2>12. OutputInv'
    <3>1. layer' - 1 = layer
      BY <1>3, <2>1
    <3>2. ASSUME NEW w \in Workers PROVE outs[w][Here0] = Moe!Share(layer, seq)
      BY <1>2, <2>3, Kinds DEF OutputInv
    <3> QED
      BY <1>0, <2>1, <2>3, <2>4, <3>1, <3>2, Kinds DEF OutputInv
  <2>13. HiddenInv'
    <3>1. IF layer = 1 THEN hidden.layer = NumLayers /\ hidden.seq < seq
          ELSE hidden.layer = layer - 1 /\ hidden.seq = seq
      BY <1>2, <2>4 DEF HiddenInv
    <3>2. layer' # 1 /\ (layer' = 2 <=> layer = 1) /\ layer' - 2 = layer - 1
      BY <1>3, <2>1
    <3> QED
      BY <1>0, <2>1, <2>4, <3>1, <3>2 DEF HiddenInv
  <2> QED
    BY <1>4, <2>5, <2>6, <2>7, <2>8, <2>10, <2>11, <2>12, <2>13 DEF HandoffInv, TypeOK
<1>11. ASSUME StepDone PROVE HandoffInv'
  <2>1. /\ host = "tailwait" /\ waiting = {} /\ host' = "idle" /\ layer = NumLayers + 1
        /\ UNCHANGED <<layer, seq, steps, waiting>>
    BY <1>2, <1>11 DEF StepDone, HostInv
  <2>2. ASSUME NEW g \in Gpus PROVE sent[g] = ack[g] /\ pc[g] = "poll" /\ ~Fired(g)' /\ ~Done(g)'
    BY <1>9, <2>1 DEF Fired, Done
  <2>3. InStep /\ ~InStep' /\ Here0' = Here0 /\ ~PostPending
    BY <2>1, <2>2, Kinds DEF InStep, Here0, PostPending, Fired
  <2>4. HostType'
    BY <1>0, <1>1, <2>1 DEF HostType
  <2>5. MailInv'
    BY <1>0, <1>2, <2>2 DEF MailInv
  <2>6. PlaceInv'
    BY <1>0, <2>2, Kinds DEF PlaceInv
  <2>7. HostInv'
    BY <2>1, <2>3 DEF HostInv
  <2>8. SentinelInv'
    BY <1>0, <1>2, <2>1, <2>3 DEF SentinelInv
  <2>9. StagingInv'
    BY <1>0, <2>2, <2>3, Kinds DEF StagingInv
  <2>10. OutputInv'
    BY <1>0, <2>2, <2>3, Kinds DEF OutputInv
  <2>11. HiddenInv'
    <3>1. hidden.layer = layer - 1 /\ hidden.seq = seq
      BY <1>2, <2>1, <2>3, MoeAssumption DEF HiddenInv
    <3> QED
      BY <1>0, <1>3, <2>1, <2>3, <3>1, MoeAssumption DEF HiddenInv
  <2> QED
    BY <1>4, <2>4, <2>5, <2>6, <2>7, <2>8, <2>9, <2>10, <2>11 DEF HandoffInv, TypeOK
<1> QED
  BY <1>5, <1>7, <1>8, <1>10, <1>11

\* Before the first step every mailbox is empty and every slot and sentinel is zero.
LEMMA InitHandoff == Init => HandoffInv
<1> SUFFICES ASSUME Init PROVE HandoffInv
  OBVIOUS
<1>1. TypeOK
  <2>1. /\ 0 \in 0..(NumLayers + 1) /\ NumLayers \in 0..(NumLayers + 1) /\ 1 \in 1..(NumLayers + 1)
        /\ 1 \in Workers
    BY MoeAssumption DEF Workers
  <2>2. Fresh \in Origins
    BY <2>1 DEF Fresh, Origin, Origins
  <2>3. NoShare \in Shares
    BY <2>1, <2>2 DEF NoShare, Shares
  <2>4. NoWork \in Work
    BY <2>1 DEF NoWork, Work
  <2>5. HostType
    BY <2>1 DEF Init, HostType
  <2>6. MailType
    BY <2>4 DEF Init, MailType, Places
  <2>7. StageType
    BY <2>2 DEF Init, StageType
  <2>8. SumType
    BY <2>1, <2>3 DEF Init, SumType
  <2> QED
    BY <2>5, <2>6, <2>7, <2>8 DEF TypeOK
<1>2. ASSUME NEW g \in Gpus
      PROVE  ~Fired(g) /\ ~Done(g) /\ sent[g] = 0 /\ ack[g] = 0 /\ taken[g] = 0 /\ pc[g] = "poll"
  BY DEF Init, Fired, Done
<1>3. ~InStep /\ host = "idle" /\ layer = 1 /\ seq = 0
  BY DEF Init, InStep
<1>4. MailInv
  BY <1>2 DEF MailInv
<1>5. PlaceInv
  BY <1>2, Kinds DEF PlaceInv
<1>6. HostInv
  BY <1>3 DEF HostInv
<1>7. SentinelInv
  BY <1>3 DEF Init, SentinelInv
<1>8. StagingInv
  BY <1>2, <1>3, Kinds DEF StagingInv
<1>9. OutputInv
  BY <1>2, <1>3, Kinds DEF OutputInv
<1>10. HiddenInv
  BY <1>3 DEF Init, HiddenInv
<1> QED
  BY <1>1, <1>4, <1>5, <1>6, <1>7, <1>8, <1>9, <1>10 DEF HandoffInv

\* Every step keeps the invariant.
LEMMA NextHandoff ==
    ASSUME OptionC, HandoffInv, [Next]_vars
    PROVE  HandoffInv'
<1>1. CASE UNCHANGED vars
  <2>1. UNCHANGED <<host, layer, next, waiting, seq, steps, sent, work, taken, ack, cur, pc, scan, sums,
                    act, routing, act_sentinel, result_sentinel, local, outs, hidden>>
    BY <1>1 DEF vars, hostVars, memVars, gpuVars
  <2>2. TypeOK'
    BY <2>1 DEF HandoffInv, TypeOK, HostType, MailType, StageType, SumType
  <2>3. MailInv' /\ PlaceInv' /\ HostInv'
    BY <2>1 DEF HandoffInv, MailInv, PlaceInv, HostInv, Fired, Now, InStep
  <2>4. SentinelInv' /\ StagingInv' /\ OutputInv' /\ HiddenInv'
    BY <2>1 DEF HandoffInv, SentinelInv, StagingInv, OutputInv, HiddenInv, Fired, Done, InStep, Here0,
                Signalled, PostPending
  <2> QED
    BY <2>2, <2>3, <2>4 DEF HandoffInv
<1>2. CASE HostNext \/ WaitFails
  BY <1>2, FireSteps, OtherHostSteps DEF HostNext
<1>3. CASE Gpu0Next
  BY <1>3, Kinds, TakeStep, AckStep, Gpu0Inside DEF Gpu0Next
<1>4. ASSUME NEW w \in Workers, WorkerNext(w) PROVE HandoffInv'
  BY <1>4, Kinds, TakeStep, AckStep, WorkerInside DEF WorkerNext
<1> QED
  BY <1>1, <1>2, <1>3, <1>4 DEF Next, Finished

\* With YEF52_OPTION_C and growing positions every reachable state satisfies HandoffInv: mailboxes
\* are written only when free, the sentinel of a layer equals the step's number exactly when GPU 0
\* is past its copies, and until then the slots hold what the layer before left in them.
THEOREM HandoffInvariant ==
    ASSUME OptionC
    PROVE  Spec => []HandoffInv
<1>1. Init => HandoffInv
  BY InitHandoff
<1>2. HandoffInv /\ [Next]_vars => HandoffInv'
  BY NextHandoff
<1> QED
  BY <1>1, <1>2, PTL DEF Spec

\* dispatch_batch_fire never meets a mailbox whose batch is not acknowledged: FireSegment,
\* FireWorker and FireTail each find a GPU to which nothing of this layer was fired.
THEOREM FreeMailboxTheorem ==
    ASSUME OptionC
    PROVE  Spec => FiresIntoFreeMailbox
<1>1. ASSUME HandoffInv, [Next]_vars, NEW g \in Gpus, sent'[g] # sent[g]
      PROVE  ack[g] = sent[g]
  <2>1. CASE FireSegment
    <3>1. g = 0 /\ ~Fired(0)
      BY <1>1, <2>1 DEF FireSegment, Fire, Fired, HandoffInv, TypeOK, MailType
    <3> QED
      BY <1>1, <3>1 DEF HandoffInv, MailInv
  <2>2. CASE FireWorker
    <3>1. g = next /\ next \in Workers /\ host = "workers"
      BY <1>1, <2>2 DEF FireWorker, Fire, HandoffInv, TypeOK, MailType, HostType
    <3>2. ~Fired(g)
      BY <3>1, MoeAssumption DEF Fired, Workers
    <3> QED
      BY <1>1, <3>2 DEF HandoffInv, MailInv
  <2>3. CASE FireTail
    <3>1. g = 0 /\ ~Fired(0)
      BY <1>1, <2>3 DEF FireTail, Fire, Fired, HandoffInv, TypeOK, MailType
    <3> QED
      BY <1>1, <3>1 DEF HandoffInv, MailInv
  <2>4. CASE UNCHANGED sent
    BY <1>1, <2>4
  <2>5. FireSegment \/ FireWorker \/ FireTail \/ UNCHANGED sent
    BY <1>1 DEF Next, HostNext, BeginStep, AckSeen, LayerDone, StepDone, WaitFails, Gpu0Next, Take, Ack,
                PostSpin, PostRead, CopyActivation, CopyRouting, SignalActivation, WorkerNext,
                WaitActivation, LoadActivation, LoadRouting, StoreResult, SignalResult, Finished,
                vars, hostVars
  <2> QED
    BY <2>1, <2>2, <2>3, <2>4, <2>5
<1>2. HandoffInv /\ [Next]_vars => [\A g \in Gpus : sent'[g] # sent[g] => ack[g] = sent[g]]_vars
  BY <1>1
<1> QED
  BY <1>2, HandoffInvariant, PTL DEF Spec, FiresIntoFreeMailbox

\* GPU 0 never overwrites the staging slot that a worker of op_moe_ffn_remote is reading: while it
\* copies, the sentinel is not set and every worker polls or waits.
THEOREM StagingTheorem ==
    ASSUME OptionC
    PROVE  Spec => StagingIsStable
<1> DEFINE Kept(w) ==
      pc[w] \in {"load", "gate"} /\ pc'[w] # "poll" =>
         act'[WorkSlot(w)] = act[WorkSlot(w)] /\ routing'[WorkSlot(w)] = routing[WorkSlot(w)]
<1>1. ASSUME HandoffInv, [Next]_vars, NEW w \in Workers PROVE Kept(w)
  <2>1. CASE CopyActivation \/ CopyRouting
    <3>1. pc[0] \notin {"poll", "ack"}
      BY <2>1 DEF CopyActivation, CopyRouting
    <3> QED
      BY <1>1, <3>1, BeforeSignal
  <2>2. CASE UNCHANGED <<act, routing>>
    BY <2>2
  <2>3. CopyActivation \/ CopyRouting \/ UNCHANGED <<act, routing>>
    BY <1>1 DEF Next, HostNext, BeginStep, FireSegment, FireWorker, FireTail, AckSeen, LayerDone, StepDone,
                WaitFails, Gpu0Next, Take, Ack, PostSpin, PostRead, SignalActivation, WorkerNext,
                WaitActivation, LoadActivation, LoadRouting, StoreResult, SignalResult, Finished,
                vars, memVars
  <2> QED
    BY <2>1, <2>2, <2>3
<1>2. HandoffInv /\ [Next]_vars => [\A w \in Workers : Kept(w)]_vars
  BY <1>1
<1> QED
  BY <1>2, HandoffInvariant, PTL DEF Spec, StagingIsStable

\* The hand-off implements AbstractMoe: the sum that op_moe_dispatch_post adds is made of one share
\* per worker, each of this layer and this step, and the layers are summed in order.
THEOREM MoeRefinement ==
    ASSUME OptionC
    PROVE  Spec => ImplementsMoe
<1>1. Init => Moe!AInit
  BY DEF Init, Moe!AInit, NoShare, Moe!NoShare, Fresh, Origin, Moe!Origin
<1>2. ASSUME HandoffInv, [Next]_vars PROVE [Moe!ANext]_hidden
  <2>1. CASE PostRead /\ hidden' # hidden
    <3>1. /\ pc[0] = "read" /\ ~(scan < NumWorkers) /\ scan \in Workers /\ 0 \in Gpus
          /\ hidden' = [layer |-> PostLayer, seq |-> cur[0].seq, shares |-> sums']
          /\ sums' = [sums EXCEPT ![scan] = outs[scan][ResultSlot]]
      BY <1>2, <2>1, Kinds DEF PostRead, HandoffInv, TypeOK, SumType
    <3>2. /\ cur[0].layer = layer /\ cur[0].seq = seq /\ Fired(0) /\ InStep /\ sent[0] # ack[0]
          /\ layer \in 1..(NumLayers + 1) /\ seq \in Nat
      BY <1>2, <3>1, Busy
    <3>3. layer > 1
      BY <1>2, <3>1, <3>2 DEF HandoffInv, PlaceInv
    <3>4. ResultSlot = Here0 /\ PostLayer = layer - 1
      BY <3>2 DEF ResultSlot, PostSlot, Here0, PostLayer, OptionC
    <3>5. \A w \in Workers : outs[w][Here0] = Moe!Share(layer - 1, seq)
      BY <1>2, <3>1, <3>3, BeforeSignal
    <3>6. ASSUME NEW w \in Workers PROVE sums'[w] = Moe!Share(layer - 1, seq)
      <4>1. w = scan \/ w < scan
        BY <3>1, MoeAssumption DEF Workers
      <4> QED
        BY <1>2, <3>1, <3>4, <3>5, <4>1 DEF HandoffInv, OutputInv, TypeOK, SumType
    <3>7. sums' = [w \in Workers |-> Moe!Share(layer - 1, seq)]
      BY <1>2, <3>1, <3>6 DEF HandoffInv, TypeOK, SumType
    <3>8. hidden' = Moe!Summed(layer - 1, seq)
      BY <3>1, <3>2, <3>4, <3>7 DEF Moe!Summed
    <3>9. PostPending
      BY <3>1, <3>2, <3>3 DEF PostPending
    <3>10. CASE layer = 2
      <4>1. hidden.layer = NumLayers /\ hidden.seq < seq
        BY <1>2, <3>2, <3>9, <3>10 DEF HandoffInv, HiddenInv
      <4>2. hidden' = Moe!Summed(1, seq) /\ hidden'.seq = seq
        BY <3>8, <3>10 DEF Moe!Summed
      <4>3. hidden.seq \in Nat
        BY <1>2 DEF HandoffInv, TypeOK, SumType
      <4> QED
        BY <3>2, <4>1, <4>2, <4>3 DEF Moe!ANext, Moe!NextStep
    <3>11. CASE layer # 2
      <4>1. hidden.layer = layer - 2 /\ hidden.seq = seq
        BY <1>2, <3>2, <3>3, <3>9, <3>11 DEF HandoffInv, HiddenInv
      <4>2. hidden.layer + 1 = layer - 1 /\ hidden.layer < NumLayers
        BY <3>2, <4>1, MoeAssumption
      <4> QED
        BY <3>8, <4>1, <4>2 DEF Moe!ANext, Moe!NextLayer
    <3> QED
      BY <3>10, <3>11
  <2>2. CASE UNCHANGED hidden
    BY <2>2
  <2>3. PostRead \/ UNCHANGED hidden
    BY <1>2 DEF Next, HostNext, BeginStep, FireSegment, FireWorker, FireTail, AckSeen, LayerDone, StepDone,
                WaitFails, Gpu0Next, Take, Ack, PostSpin, CopyActivation, CopyRouting, SignalActivation,
                WorkerNext, WaitActivation, LoadActivation, LoadRouting, StoreResult, SignalResult, Finished,
                vars, gpuVars
  <2> QED
    BY <2>1, <2>2, <2>3
<1> QED
  BY <1>1, <1>2, HandoffInvariant, PTL DEF Spec, ImplementsMoe, Moe!ASpec
=============================================================================
