------------------------------ MODULE MoeHandoff ------------------------------
(***************************************************************************)
(* A decode step over several GPUs.  GPU 0 runs the layers, the experts    *)
(* are on the workers.  The host cuts GPU 0's program after every MoE      *)
(* layer, fires the segment and one instruction per worker, and waits      *)
(* before it fires the next segment.  Inside the kernels, activation and   *)
(* routing travel through a staging buffer of two slots announced by a     *)
(* sentinel per layer, the workers' results through two slots per worker   *)
(* announced by a sentinel per layer and worker.                           *)
(*                                                                         *)
(* A segment is the work [layer, seq]: the POST of layer - 1, if there is  *)
(* one, and the copies of layer.  Every mailbox has one slot; taking a     *)
(* batch is one step here (PersistentWorker shows why it may be).          *)
(***************************************************************************)
EXTENDS Integers

CONSTANTS NumWorkers,       \* expert GPUs
          NumLayers,        \* MoE layers
          Mode,             \* "option_c", "drop_ack", "drop_all_ack", "gpu_bp" or "default": the
                            \* YEF52_ variables
          Rewinds,          \* whether a later generation may reuse positions
          MaxSeq,           \* bound: positions of the sequence
          MaxSteps          \* bound: decode steps

ASSUME MoeAssumption ==
    /\ NumWorkers \in Nat \ {0} /\ NumLayers \in Nat \ {0}
    /\ MaxSeq \in Nat /\ MaxSteps \in Nat
    /\ Mode \in {"option_c", "drop_ack", "drop_all_ack", "gpu_bp", "default"} /\ Rewinds \in BOOLEAN

Workers == 1..NumWorkers
Layers == 1..NumLayers
Gpus == 0..NumWorkers
Slots == {0, 1}

VARIABLES
    host,               \* what the host does next
    layer,              \* the MoE layer it is at
    next,               \* the worker it fires next
    waiting,            \* GPUs whose ack it still waits for
    seq,                \* position + 1 of the current step
    steps,              \* decode_step of the program
    sent, work,         \* mailbox of every GPU: seq_num and batch
    taken, ack, cur,    \* seq_num and batch the GPU has taken, the ack it has written
    pc,                 \* where the GPU is in its batch
    scan, sums,         \* POST: the worker it is at and the shares it has read
    act, routing,       \* the staging slots
    act_sentinel, result_sentinel,
    local,              \* what a worker has read of the staging slot
    outs,               \* local_output_uc of every worker
    hidden              \* the last sum of shares

hostVars == <<host, layer, next, waiting, seq, steps, sent, work>>
memVars == <<act, routing, act_sentinel, result_sentinel, outs>>
gpuVars == <<taken, ack, cur, pc, scan, sums, local, hidden>>
vars == <<hostVars, memVars, gpuVars>>

Moe == INSTANCE AbstractMoe

Origin(l, s) == <<l, s>>
Fresh == Origin(0, 0)                                  \* a zeroed buffer
Slot(s) == s % 2                                       \* dbuf_slot
NoWork == [layer |-> 0, seq |-> 0]
NoShare == [experts |-> 0, act |-> Fresh, routing |-> Fresh]

Init ==
    /\ host = "idle" /\ layer = 1 /\ next = 1 /\ waiting = {} /\ seq = 0 /\ steps = 0
    /\ sent = [g \in Gpus |-> 0] /\ work = [g \in Gpus |-> NoWork]
    /\ taken = [g \in Gpus |-> 0] /\ ack = [g \in Gpus |-> 0] /\ cur = [g \in Gpus |-> NoWork]
    /\ pc = [g \in Gpus |-> "poll"]
    /\ scan = 1 /\ sums = [w \in Workers |-> NoShare]
    /\ act = [s \in Slots |-> Fresh] /\ routing = [s \in Slots |-> Fresh]
    /\ act_sentinel = [l \in Layers |-> [s \in Slots |-> 0]]
    /\ result_sentinel = [l \in Layers |-> [w \in Workers |-> [s \in Slots |-> 0]]]
    /\ local = [w \in Workers |-> [act |-> Fresh, routing |-> Fresh]]
    /\ outs = [w \in Workers |-> [s \in Slots |-> NoShare]]
    /\ hidden = [layer |-> NumLayers, seq |-> 0, shares |-> [w \in Workers |-> NoShare]]

-----------------------------------------------------------------------------
(* The host *)

\* dispatch_batch_fire: overwrites the mailbox, whatever the GPU has taken
Fire(g, w) ==
    /\ sent' = [sent EXCEPT ![g] = @ + 1]
    /\ work' = [work EXCEPT ![g] = w]

\* decode_step_p2p_inner begins: the position is the caller's
BeginStep ==
    /\ host = "idle" /\ steps < MaxSteps
    /\ \E s \in 1..MaxSeq : (s > seq \/ Rewinds) /\ seq' = s
    /\ host' = "segment" /\ layer' = 1 /\ steps' = steps + 1
    /\ UNCHANGED <<next, waiting, sent, work, memVars, gpuVars>>

\* The segment up to the barrier of this layer, one batch here.  One of more than
\* MAX_BATCH_INSTRUCTIONS is fired chunk by chunk without a wait in between: what that does to a
\* mailbox is PersistentWorker's subject (FirePrograms beyond MaxBatch).
FireSegment ==
    /\ host = "segment"
    /\ Fire(0, [layer |-> layer, seq |-> seq])
    /\ host' = "workers" /\ next' = 1
    /\ UNCHANGED <<layer, waiting, seq, steps, memVars, gpuVars>>

\* Mistake: GPU 0 is left out of the wait.
MutAwaited == IF Mode = "option_c" THEN Workers ELSE {0}

\* Whose acks the host waits for before it goes on
Awaited ==
    CASE Mode \in {"option_c", "default"} -> Gpus
      [] Mode = "drop_ack" -> {0}
      [] Mode = "drop_all_ack" -> {}
      [] Mode = "gpu_bp" -> IF steps > 2 THEN {} ELSE {0}

\* dispatch_moe_workers_decode_async: one instruction per worker
FireWorker ==
    /\ host = "workers"
    /\ Fire(next, [layer |-> layer, seq |-> seq])
    /\ IF next < NumWorkers
       THEN next' = next + 1 /\ UNCHANGED <<host, waiting>>
       ELSE host' = "wait" /\ waiting' = Awaited /\ UNCHANGED next
    /\ UNCHANGED <<layer, seq, steps, memVars, gpuVars>>

\* try_wait_acks_many, one read of one ack word
AckSeen(g) ==
    /\ host \in {"wait", "tailwait"}
    /\ g \in waiting /\ ack[g] = sent[g]
    /\ waiting' = waiting \ {g}
    /\ UNCHANGED <<host, layer, next, seq, steps, sent, work, memVars, gpuVars>>

\* The next segment, or the tail behind the last barrier
LayerDone ==
    /\ host = "wait" /\ waiting = {}
    /\ layer' = layer + 1
    /\ host' = IF layer < NumLayers THEN "segment" ELSE "tail"
    /\ UNCHANGED <<next, waiting, seq, steps, sent, work, memVars, gpuVars>>
FireTail ==
    /\ host = "tail"
    /\ Fire(0, [layer |-> layer, seq |-> seq])
    /\ host' = "tailwait" /\ waiting' = {0}
    /\ UNCHANGED <<layer, next, seq, steps, memVars, gpuVars>>
StepDone ==
    /\ host = "tailwait" /\ waiting = {}
    /\ host' = "idle"
    /\ UNCHANGED <<layer, next, waiting, seq, steps, sent, work, memVars, gpuVars>>

\* 30 seconds or a signal: the wait panics and the dispatcher is dropped
WaitFails ==
    /\ host \in {"wait", "tailwait"} /\ waiting # {}
    /\ host' = "failed"
    /\ UNCHANGED <<layer, next, waiting, seq, steps, sent, work, memVars, gpuVars>>

-----------------------------------------------------------------------------
(* The kernels *)

Goto(g, place) == pc' = [pc EXCEPT ![g] = place]

\* persistent_iter_poll_barrier and the fetch of the batch
Take(g) ==
    /\ pc[g] = "poll" /\ sent[g] > taken[g]
    /\ taken' = [taken EXCEPT ![g] = sent[g]]
    /\ cur' = [cur EXCEPT ![g] = work[g]]
    /\ Goto(g, IF g # 0 THEN "wait" ELSE IF work[0].layer > 1 THEN "spin" ELSE "copy")
    /\ scan' = IF g = 0 THEN 1 ELSE scan
    /\ UNCHANGED <<hostVars, memVars, ack, sums, local, hidden>>
Ack(g) ==
    /\ pc[g] = "ack"
    /\ ack' = [ack EXCEPT ![g] = taken[g]]
    /\ Goto(g, "poll")
    /\ UNCHANGED <<hostVars, memVars, taken, cur, scan, sums, local, hidden>>

\* op_moe_dispatch_post: spin on the result sentinel of every worker, one after the other ...
PostLayer == cur[0].layer - 1
PostSlot == Slot(cur[0].seq)
PostSpin ==
    /\ pc[0] = "spin"
    /\ Mode # "default" => result_sentinel[PostLayer][scan][PostSlot] = cur[0].seq
    /\ scan' = IF scan < NumWorkers THEN scan + 1 ELSE 1
    /\ Goto(0, IF scan < NumWorkers THEN "spin" ELSE "read")
    /\ UNCHANGED <<hostVars, memVars, taken, ack, cur, sums, local, hidden>>

\* Mistake: POST always reads the first slot.
MutResultSlot == 0

\* ... then read and sum their outputs.  Without YEF52_OPTION_C the slot is not looked at.
ResultSlot == IF Mode = "default" THEN 0 ELSE PostSlot
PostRead ==
    /\ pc[0] = "read"
    /\ sums' = [sums EXCEPT ![scan] = outs[scan][ResultSlot]]
    /\ IF scan < NumWorkers
       THEN scan' = scan + 1 /\ UNCHANGED <<pc, hidden>>
       ELSE /\ hidden' = [layer |-> PostLayer, seq |-> cur[0].seq, shares |-> sums']
            /\ Goto(0, IF PostLayer = NumLayers THEN "ack" ELSE "copy")
            /\ UNCHANGED scan
    /\ UNCHANGED <<hostVars, memVars, taken, ack, cur, local>>

\* The copies of activation, expert ids and expert weights; the last one signals the sentinel.
\* With YEF52_GPU_BP the first waits for the result that last used the slot, of the first worker.
Here == Origin(cur[0].layer, cur[0].seq)
CopyActivation ==
    /\ pc[0] = "copy"
    /\ Mode = "gpu_bp" /\ steps > 2 => result_sentinel[cur[0].layer][1][PostSlot] = cur[0].seq - 2
    /\ act' = [act EXCEPT ![PostSlot] = Here]
    /\ Goto(0, "route")
    /\ UNCHANGED <<hostVars, routing, act_sentinel, result_sentinel, outs, taken, ack, cur, scan, sums, local, hidden>>
CopyRouting ==
    /\ pc[0] = "route"
    /\ routing' = [routing EXCEPT ![PostSlot] = Here]
    /\ Goto(0, "signal")
    /\ UNCHANGED <<hostVars, act, act_sentinel, result_sentinel, outs, taken, ack, cur, scan, sums, local, hidden>>

\* Mistake: the sentinel of the other parity is signalled.
MutSignalActivation ==
    /\ pc[0] = "signal"
    /\ act_sentinel' = [act_sentinel EXCEPT ![cur[0].layer][1 - PostSlot] = cur[0].seq]
    /\ Goto(0, "ack")
    /\ UNCHANGED <<hostVars, act, routing, result_sentinel, outs, taken, ack, cur, scan, sums, local, hidden>>

SignalActivation ==
    /\ pc[0] = "signal"
    /\ act_sentinel' = [act_sentinel EXCEPT ![cur[0].layer][PostSlot] = cur[0].seq]
    /\ Goto(0, "ack")
    /\ UNCHANGED <<hostVars, act, routing, result_sentinel, outs, taken, ack, cur, scan, sums, local, hidden>>

\* op_moe_ffn_remote on worker w
WorkSlot(w) == Slot(cur[w].seq)

\* Mistake: the sentinel of any layer will do.
MutWaitActivation(w) ==
    /\ pc[w] = "wait"
    /\ \E l \in Layers : act_sentinel[l][WorkSlot(w)] = cur[w].seq
    /\ Goto(w, "load")
    /\ UNCHANGED <<hostVars, memVars, taken, ack, cur, scan, sums, local, hidden>>

WaitActivation(w) ==
    /\ pc[w] = "wait"
    /\ act_sentinel[cur[w].layer][WorkSlot(w)] = cur[w].seq
    /\ Goto(w, "load")
    /\ UNCHANGED <<hostVars, memVars, taken, ack, cur, scan, sums, local, hidden>>
LoadActivation(w) ==
    /\ pc[w] = "load"
    /\ local' = [local EXCEPT ![w].act = act[WorkSlot(w)]]
    /\ Goto(w, "gate")
    /\ UNCHANGED <<hostVars, memVars, taken, ack, cur, scan, sums, hidden>>
LoadRouting(w) ==
    /\ pc[w] = "gate"
    /\ local' = [local EXCEPT ![w].routing = routing[WorkSlot(w)]]
    /\ Goto(w, "store")
    /\ UNCHANGED <<hostVars, memVars, taken, ack, cur, scan, sums, hidden>>
StoreResult(w) ==
    /\ pc[w] = "store"
    /\ outs' = [outs EXCEPT ![w][WorkSlot(w)] =
                  [experts |-> cur[w].layer, act |-> local[w].act, routing |-> local[w].routing]]
    /\ Goto(w, IF Mode = "default" THEN "ack" ELSE "signal")
    /\ UNCHANGED <<hostVars, act, routing, act_sentinel, result_sentinel, taken, ack, cur, scan, sums, local, hidden>>
SignalResult(w) ==
    /\ pc[w] = "signal"
    /\ result_sentinel' = [result_sentinel EXCEPT ![cur[w].layer][w][WorkSlot(w)] = cur[w].seq]
    /\ Goto(w, "ack")
    /\ UNCHANGED <<hostVars, act, routing, act_sentinel, outs, taken, ack, cur, scan, sums, local, hidden>>

-----------------------------------------------------------------------------
HostNext ==
    \/ BeginStep \/ FireSegment \/ FireWorker
    \/ (\E g \in Gpus : AckSeen(g))
    \/ LayerDone \/ FireTail \/ StepDone
Gpu0Next == Take(0) \/ PostSpin \/ PostRead \/ CopyActivation \/ CopyRouting \/ SignalActivation \/ Ack(0)
WorkerNext(w) ==
    \/ Take(w) \/ WaitActivation(w) \/ LoadActivation(w) \/ LoadRouting(w)
    \/ StoreResult(w) \/ SignalResult(w) \/ Ack(w)

\* A failed wait ends the process; otherwise the caller has no more tokens.
Finished == (host = "failed" \/ (host = "idle" /\ (steps = MaxSteps \/ seq = MaxSeq))) /\ UNCHANGED vars

Next == HostNext \/ WaitFails \/ Gpu0Next \/ (\E w \in Workers : WorkerNext(w)) \/ Finished

\* The host never stops on its own and every kernel is resident: both are scheduled for ever.
\* A wait that fails is possible, never due.
Fairness ==
    /\ WF_vars(HostNext) /\ WF_vars(Gpu0Next)
    /\ \A w \in Workers : WF_vars(WorkerNext(w))
Spec == Init /\ [][Next]_vars /\ Fairness

-----------------------------------------------------------------------------
(* Properties *)

Places == {"poll", "wait", "load", "gate", "store", "signal", "ack", "spin", "read", "copy", "route"}
Origins == (0..(NumLayers + 1)) \X Nat
Shares == [experts : 0..(NumLayers + 1), act : Origins, routing : Origins]
Work == [layer : 0..(NumLayers + 1), seq : Nat]

HostType ==
    /\ host \in {"idle", "segment", "workers", "wait", "tail", "tailwait", "failed"}
    /\ layer \in 1..(NumLayers + 1) /\ next \in Workers /\ waiting \subseteq Gpus
    /\ seq \in Nat /\ steps \in Nat
MailType ==
    /\ sent \in [Gpus -> Nat] /\ taken \in [Gpus -> Nat] /\ ack \in [Gpus -> Nat]
    /\ work \in [Gpus -> Work] /\ cur \in [Gpus -> Work]
    /\ pc \in [Gpus -> Places]
StageType ==
    /\ act \in [Slots -> Origins] /\ routing \in [Slots -> Origins]
    /\ act_sentinel \in [Layers -> [Slots -> Nat]]
    /\ result_sentinel \in [Layers -> [Workers -> [Slots -> Nat]]]
    /\ local \in [Workers -> [act : Origins, routing : Origins]]
SumType ==
    /\ scan \in Workers /\ sums \in [Workers -> Shares]
    /\ outs \in [Workers -> [Slots -> Shares]]
    /\ hidden \in [layer : 0..(NumLayers + 1), seq : Nat, shares : [Workers -> Shares]]

\* The variables have their types.
TypeOK == HostType /\ MailType /\ StageType /\ SumType

\* Every sum that POST adds to the hidden state is made of the shares of this layer and this step,
\* one per worker, and the layers are summed in order: no stale slot, no stale sentinel, no result
\* of another layer, although staging and result slots are reused by every layer and every step.
ImplementsMoe == Moe!ASpec

\* A mailbox is written only when the batch in it has been acknowledged: no instruction is lost or
\* replaced while a kernel reads it, which is what the mailbox protocol relies on.
FiresIntoFreeMailbox == [][\A g \in Gpus : sent'[g] # sent[g] => ack[g] = sent[g]]_vars

\* The staging slot is not overwritten while a worker still has to read it.
StagingIsStable ==
    [][\A w \in Workers : pc[w] \in {"load", "gate"} /\ pc'[w] # "poll" =>
          act'[WorkSlot(w)] = act[WorkSlot(w)] /\ routing'[WorkSlot(w)] = routing[WorkSlot(w)]]_vars

\* Every decode step ends, unless a wait fails: host, GPU 0 and the workers never wait for each
\* other in a circle.
StepEnds == (host # "idle") ~> (host \in {"idle", "failed"})

(* The inductive invariant behind them, for Mode = "option_c" without rewinds *)
Now == [layer |-> layer, seq |-> seq]
Here0 == Slot(seq)
InStep == host # "idle"

\* Whether the batch of this layer is in the mailbox of GPU g
Fired(g) ==
    IF g = 0 THEN host \in {"workers", "wait", "tailwait", "failed"}
    ELSE layer <= NumLayers /\ (host \in {"wait", "failed"} \/ (host = "workers" /\ g < next))
Done(g) == Fired(g) /\ (pc[g] = "ack" \/ sent[g] = ack[g])

MailInv ==
    \A g \in Gpus :
       /\ pc[g] = "poll" => taken[g] = ack[g] /\ (sent[g] = ack[g] \/ sent[g] = ack[g] + 1)
       /\ pc[g] # "poll" => taken[g] = sent[g] /\ sent[g] = ack[g] + 1 /\ cur[g] = work[g]
       /\ IF Fired(g) THEN work[g] = Now ELSE sent[g] = ack[g]
PlaceInv ==
    /\ pc[0] \in {"poll", "spin", "read", "copy", "route", "signal", "ack"}
    /\ \A w \in Workers : pc[w] \in {"poll", "wait", "load", "gate", "store", "signal", "ack"}
    /\ layer = 1 => pc[0] \notin {"spin", "read"}
    /\ layer = NumLayers + 1 => pc[0] \notin {"copy", "route", "signal"}
HostInv ==
    /\ host \in {"segment", "workers", "wait"} => layer <= NumLayers
    /\ host \in {"tail", "tailwait"} => layer = NumLayers + 1
    /\ host \in {"wait", "tailwait"} => \A g \in Gpus : g \notin waiting => sent[g] = ack[g]
    /\ InStep => seq > 0
Signalled == act_sentinel[layer][Here0] = seq
SentinelInv ==
    /\ \A l \in Layers, s \in Slots : act_sentinel[l][s] <= seq
    /\ \A l \in Layers, w \in Workers, s \in Slots : result_sentinel[l][w][s] <= seq
    /\ InStep => \A l \in Layers : l > layer => act_sentinel[l][Here0] # seq
    /\ InStep /\ layer <= NumLayers => (Signalled <=> Done(0))
StagingInv ==
    /\ pc[0] \in {"route", "signal"} => act[Here0] = Origin(layer, seq)
    /\ pc[0] = "signal" => routing[Here0] = Origin(layer, seq)
    /\ InStep /\ layer <= NumLayers /\ Signalled =>
          act[Here0] = Origin(layer, seq) /\ routing[Here0] = Origin(layer, seq)
    /\ \A w \in Workers :
          /\ pc[w] \in {"load", "gate", "store", "signal", "ack"} => Signalled
          /\ pc[w] \in {"gate", "store"} => local[w].act = Origin(layer, seq)
          /\ pc[w] = "store" => local[w].routing = Origin(layer, seq)
          /\ Done(w) => Signalled
OutputInv ==
    /\ \A w \in Workers : pc[w] = "signal" \/ Done(w) => outs[w][Here0] = Moe!Share(layer, seq)
    /\ InStep /\ layer > 1 /\ (layer <= NumLayers => ~Signalled) =>
          \A w \in Workers : outs[w][Here0] = Moe!Share(layer - 1, seq)
    /\ pc[0] = "read" => \A w \in Workers : w < scan => sums[w] = Moe!Share(layer - 1, seq)
\* POST of the layer before has not summed yet
PostPending == layer > 1 /\ (~Fired(0) \/ (sent[0] # ack[0] /\ pc[0] \in {"poll", "spin", "read"}))
HiddenInv ==
    IF ~InStep THEN hidden.layer = NumLayers /\ hidden.seq <= seq
    ELSE IF layer = 1 \/ (layer = 2 /\ PostPending) THEN hidden.layer = NumLayers /\ hidden.seq < seq
    ELSE hidden.layer = (IF PostPending THEN layer - 2 ELSE layer - 1) /\ hidden.seq = seq

\* The inductive invariant: mailboxes are written only when free, a sentinel equals the step's number
\* exactly when its producer is past its store, and until it does the slots hold the last layer's data.
HandoffInv ==
    /\ TypeOK /\ MailInv /\ PlaceInv /\ HostInv
    /\ SentinelInv /\ StagingInv /\ OutputInv /\ HiddenInv
=============================================================================
