# A TLA+ model of braidinfer's runtime

braidinfer runs language models on AMD GPUs with one long-lived cooperative
kernel per device, the *persistent worker*, that a Rust host feeds with batches
of instructions through host-mapped memory. This directory models the runtime
from the grid barrier inside the kernel up to the chat and generate programs:
the mailbox between host and kernel, the watchdog, the paged KV cache, the
programs the compiler emits, the exchange with expert GPUs, the storage tiers and
checkpoints, and the session around them.

Paths below are relative to the repository root; `runtime/` abbreviates
`crates/braidinfer-runtime/src/`.

1. [Inventory](#1-inventory)
2. [Modules and their correspondence to the code](#2-modules-and-their-correspondence-to-the-code)
3. [Runs](#3-runs), with bounds and fairness
4. [Proofs](#4-proofs)
5. [Where code and documentation disagree](#5-where-code-and-documentation-disagree)
6. [What is not modelled](#6-what-is-not-modelled)
7. [Plan](#7-plan)

## 1. Inventory

| component | state it keeps | operations | what makes it correct |
|---|---|---|---|
| Grid barrier `kernels/rdna3/rdna3_barrier.h` | `arrived`, `generation` in device memory | `atomic_block_barrier` | nobody leaves before all have entered; no arrival is lost when a fast block is already in the next call; nobody is stranded |
| Persistent worker kernel `kernels/megakernel.hip`, `kernels/rdna3/rdna3_persistent_protocol.h`, `kernels/worker_queue.h` | per block `last_seq`, `pc`; device globals `g_shutdown_seen`, `should_exit` | poll, read the batch, instruction loop, ack, two exits | blocks agree on every branch between two barriers; instructions run in order, once; `ack` and `done` mean what the host takes them to mean |
| Persistent dispatch, host side `runtime/persistent_dispatch.rs` | `WorkerQueue` (one slot), `seq_counter`, worker slots | `dispatch_batch_slice`, `dispatch_batch_fire`, `try_wait_ack`, `try_wait_acks_many`, `add_device`, `send_halt_all`, `Drop` | a batch is complete before it is announced and untouched until acked; waits return; `Drop` frees nothing that is in use; one kernel per GPU |
| Watchdog `runtime/watchdog.rs`, `kernels/rdna3/rdna3_persistent.h` | `WatchdogState` (host-mapped), `WatchdogEntry` (thread) | beat, init, poll-and-check, signal-exited; the poll loop | a healthy kernel is left alone; a wedged one ends in an abort |
| Paged KV sequence `runtime/paged_kv.rs`, `runtime/model/state.rs`, `runtime/model/decode/mod.rs`, `runtime/megakernel/*` | slot pools, chunk list, three lengths, page and position tables of the compiled programs, quantised copies | `reset_state`, `prefill_paged`, `decode_step_persistent`, `post_step_paged` | no slot lost or shared; the lengths agree; attention reads exactly this conversation, each key at its own position |
| Program compiler and opcodes `runtime/megakernel/*`, `runtime/model/moe_forward.rs`, `kernels/megakernel_*.hip` | instruction lists, recorded patch indices, scratch buffers | `compile_inner`, `compile_inner_p2p`, the prefill compilers, `update_step_paged_no_upload`, each opcode | whichever program runs, the logits and the states are the network's; a patch hits the instruction it means |
| MoE hand-off between GPUs `runtime/moe_p2p.rs`, `runtime/model/decode/mod.rs`, `kernels/megakernel_moe*.hip` | staging and result slots, sentinels, one mailbox per GPU | cut the program at MoE layers, fire, wait, stage, compute, sum | every sum is of this layer and this step; no slot or mailbox is overwritten before it is consumed; nobody waits in a circle |
| KV tiers and copy-on-write `runtime/paged_kv.rs` | `ChunkRef` (slots, tier, length), strong counts, copies in flight | `make_exclusive`, `promote_chunk`, `evict_chunk`, `evict_chunk_and_free`, `reset` | every slot has one owner; no token is lost by a copy; no step reads a slot that a copy is still filling |
| Recurrent checkpoints `runtime/paged_kv.rs`, `runtime/model/state.rs` | one-slot pool, saved states | save, restore | a restored state is the saved one |
| Session `runtime/bin/chat.rs`, `runtime/bin/generate.rs`, `runtime/generate.rs`, `runtime/cli.rs`, lazy initialisers of `Model` | workers, compiled programs, history, what the model was fed | start-up, warm-up and retries, chat turn, token loop | every batch has a worker, each worker is launched once; the model is fed exactly the conversation; programs end |
| KV chunk mirror, loader, sampling, tracer, HIP bindings | | | see section 6 |

**How they interact.** `chat` and `generate` load a model, warm it up and call
`prefill` and `decode_step`. These launch the workers they find missing, compile the
programs they find missing, grow the paged sequence, patch the compiled program's
tables (`update_step_paged_no_upload`) and hand the program to the dispatcher. The
dispatcher copies at most 256 instructions into the mailbox and stores a new
sequence number; block 0 of the worker sees it, the grid barrier lets all blocks
read the batch, every opcode ends in the same barrier, and block 0 acks. With
expert GPUs the host cuts the program after every MoE layer and fires one
instruction to each expert worker; activations and results travel from kernel to
kernel, paced by sentinels. The watchdog thread reads a counter that block 0
advances and may set `force_exit`, which the worker samples once per batch. `Drop`
uses the `shutdown` word first and `force_exit` second; `reset_state` drops the
dispatcher with all its workers.

**What is hard.** Blocks, GPUs, copy engines, host thread, watchdog thread and
signal handler interleave freely over plain words in mapped memory; timeouts race
with late acks; shutdown can arrive at any point of a batch; staging slots and
sentinels are reused without being cleared; a compiled program outlives the
conversation it was patched for; four lazy initialisers look at different leftovers
of a reset; errors in the middle of a prefill drop state that is half built.
`PROJECT.json` lists these hazards at their lines, with the properties that would
notice each.

## 2. Modules and their correspondence to the code

`PROJECT.json` maps every definition to its lines. Operators named `Mut...`,
introduced by a comment "Mistake: ...", are plausible slips in the definition
that follows them; each property is known to fail when one of them takes that
definition's place. They are used nowhere in the specifications.

### AbstractBarrier, GridBarrier

`GridBarrier` has the two words of `GridBarrierState` and, for each block leader,
its location and its local `target_gen`. Each atomic access is one action: load
the generation, `fetch_add` the counter, reset it, store the generation, leave
the spin. `generation` wraps at `GenModulus` (2^32 in the code). Fences are taken
at their word: the model is sequentially consistent, which is what the
acquire/release pairs at agent scope are there to provide for these two words.
`AbstractBarrier` is the promise: one `ARelease` step, possible only when every
block is inside. The mapping takes `inside` to the blocks not at `out`, and
`released` to the spinning blocks whose target is the current generation.

### AbstractDispatch, PersistentWorker

`PersistentWorker` is one worker and its host. The mailbox variables are the
fields of `WorkerQueue`. The host writes instruction by instruction, then the
header, then `seq_num`; `try_wait_ack` is two steps, because it reads `ack` and
then looks at signal and clock, so that an ack may arrive in between. `Drop` is
`SendHalt`, then `DoneSeen`, `Escalate` or `Leak` in its two phases. A block
polls, reads `seq_num` and `num_instructions` for itself, passes the watchdog's
barrier, reads `pc_base`, and for each instruction fetches, executes and waits at
the opcode's barrier. A barrier is one `Rendezvous` step of all blocks, which the
refinement of GridBarrier justifies; `Rendezvous` opens whenever every block is at
*some* call site, as the counter does, and `BarrierSitesAgree` shows that it is
always the same one. An instruction is its position in the stream of everything
ever handed over. `Faults` chooses among a signal, a wait that times out, `Drop`'s
deadlines passing, and the watchdog setting `force_exit`, all at any moment.

`AbstractDispatch` is what `BatchDispatcher` promises: instructions are executed
in order and in lockstep, one batch is outstanding, and a wait returns only when
every block has executed everything.

### Watchdog

Block 0's beat (`watchdog_beat` flushes the first and every `FlushEvery`-th beat),
`watchdog_init` at the start of a batch, the once-per-batch check, and the thread's
loop with its two reads of the counter. Time is counted in polls of the thread. A
healthy kernel takes at most `OpTicks` polls per step, a wedged operation never
ends. `silent` is a history variable: polls since `progress_counter` last changed.
A behaviour fixes one `timing` of `Timings`. `HealthyKernelIsLeftAlone` speaks of
timings with a `RoomyWindow`, wider than `Window = 2 * FlushEvery * OpTicks` polls with batches that reach a flush, and
without forced exits; the bound is tight.

### PagedKV

One sequence on one GPU, dense path. A dispatch is synchronous, so a step that
dispatches is atomic. A cached key is reduced to its token's identity
(conversation, index) and the form it was stored in; a page is a pool and a slot;
`seen` records what the last attention read and by which positions. Actions:

| action | code |
|---|---|
| `ResetState` | `Model::reset_state` with `SequenceState::reset` |
| `StartPrefill`, `PrefillAppend`, `PrefillDispatch` | `prefill_paged` and the slab loop of `compile_prefill_paged_persistent`, `op_kv_write_paged_batch`, attention over the slab |
| `PrefillOutOfMemory` | the `?` that returns while sequence and allocator are taken out of the model |
| `DecodeStep`, `DecodeStepSeals` | `decode_step_persistent` with `append_token`, `update_step_paged_no_upload`, the dispatch and `post_step_paged` |
| `DecodeSealFails`, `DecodeFaults`, `DecodeOutOfMemory`, `DecodeSpills`, `DecodePanics` | its error paths: quantised pool empty, null quantised page, pool exhausted, a HostPinned chunk that nobody promotes, `position >= max_seq_len` |

A failed prefill loses its pool: `DeviceBuffer::drop` does not call `hipFree` while
a worker is running, and `ensure_paged_decode_state` makes a new pool. `pool`
numbers them, so that an address of the old pool differs from any of the new one.

### Instructions, Compiler, Network, Program

`Instructions` has one operator per encoder of `runtime/megakernel/instructions.rs`
that gives the instruction's effect on memory. Memory is symbolic: a row holds a term
saying which operation produced it from which weight and rows. Sums are unordered,
every other operation is a free symbol, and a row nobody wrote holds its own junk
term. `Compiler` has one operator per emitter: what `compile_inner`,
`compile_inner_p2p`, `compile_prefill_paged_persistent`,
`compile_prefill_segment_paged`, `compile_final_norm_lm_head` and
`moe_ffn_forward_prefill_batched` append for each kind of layer and weight format,
and the indices they record. `Network` evaluates the same layers without any buffer
reuse. `Program` plans a prefill or a decode step as rounds of batches, lets the GPUs
execute them interleaved, and patches the decode program as
`update_step_paged_no_upload` and `decode_step_p2p_inner` do.

The positions by which queries and keys are rotated are rows of memory too:
`position_ids` of the prefill buffers, which nothing writes after they were zeroed, the
position table that each prefill program's compilation fills (slab by slab or for the
whole range), and the decode program's table, which `set_position` fills one row per
step. A rotation by position 0 leaves its operand as it is.

With a prompt the code does not compute the network (section 5, `program_prompt`): keys
are cached after norm and rotation and normed and rotated again when they are read,
queries are rotated by position 0. The constant `Ignored` names operations that a
behaviour with a prompt is compared up to. The run `program` gives it the key norm and
all rotations, of keys and of queries; neither can be left out. What is left to compare
is everything else: buffers, weights, formats, states, caches, experts. A behaviour that
only decodes is compared exactly. Head-level splitting, chunk addresses and sizes are
PagedKV's subject.

### AbstractMoe, MoeHandoff

A decode step over GPU 0 and `NumWorkers` expert GPUs. The host fires the segment up
to a MoE layer, then one `OP_MOE_FFN_REMOTE` per worker, and waits for the acks its
mode asks for (`Awaited`; the YEF52_ environment variables are `Mode`). GPU 0 runs
the POST of the previous layer (spin on every worker's result sentinel, then read
every worker's result slot), then three copies into the staging slot, the last of
which signals the activation sentinel; a worker waits for it, reads activation and
routing, stores its share and signals. Data are reduced to their origin, the layer
and the step that made them. Slots are chosen by the parity of `position + 1`;
positions may skip, so that two steps in a row may use one slot. A mailbox batch is
taken in one step, which PersistentWorker justifies as long as mailboxes are written
only when free (`FiresIntoFreeMailbox`).

`AbstractMoe` is the promise to the decode loop: layer after layer, step after step,
the sum added to the hidden state consists of one share per worker, computed with
this layer's experts from this layer's activation and routing of this step.

### KvTiers, Checkpoint

`KvTiers` has the `ChunkRef`s with their `Arc` owners, both free lists (last in,
first out), the contents of both pools, and the copies issued on the SDMA stream,
which run one by one in order (`RunCopy`). A copy reads its source when it runs, not when
it is issued. `Handles` only bounds how many `ChunkRef`s are alive; a handle is used again
when no list holds it. `Promote`, `Evict`, `FreeEvicted`, `EvictAndFree`,
`MakeExclusive`, `AllocWithHostBacking`, `AppendToken` and `Reset` are the functions
of `runtime/paged_kv.rs`; their failure paths are included (`lost` are slots that a
failed copy-on-write copy leaves without an owner). `EvictAndFree` returns after
`hipStreamSynchronize`, hence after every copy issued before it: its guard `FlushTierOps`
lets `RunCopy` perform those first. Tokens are told apart by their sequence and by the
reset (`resets`) their conversation began with. The runtime does not call the
tier functions yet. `Dispatch` is the caller their comments prescribe: everything in
VRAM, flush, write the page table, run the step. Where the contracts leave a choice
open the constant `FlushAfterCow` says what the caller does.

`Checkpoint` is `save_recurrent_checkpoint` and `restore_recurrent_checkpoint`: the
copies of a save are issued layer by layer on a stream that the persistent worker is
not ordered with, and nobody waits for them, so that a decode step may come before a
copy. `during` is a history variable: for every layer, the states it had from the save
until its copy had run. `MCStorage` puts both into one run; a behaviour exercises one of
the two.

### Session

The two programs around one `Model`. The model is a record: the dispatcher's slots
and live workers, which programs exist, `moe_p2p`, and what cache and recurrent
states have been fed. The four lazy initialisers (`EnsureWorker`,
`EnsureMoeWorkers`, `InitMultiGpu`, `EnableDistributedMoe`), `ResetState`,
`Prefilled` and `Decoded` are functions on that record; the actions are the
programs' steps: start-up, warm-up (a decoding one token by token) and reload, a chat
turn, the token loop. `reset_state` and generate's `drop(model)` drop the dispatcher: with
several worker slots its `Drop` ends the process with `_exit(0)` (`DropExits`), with one
it may end it if the worker does not leave in time (`DropMayExit`); `ResetExits` and the
first disjunct of `Reload` are these ends. `Configs`
are installations and command lines (GPUs, MoE or not, model bigger than one GPU,
MULTI_GPU, KV_QUANT, warm-up mode, source of the token configuration). `Token` is the
vocabulary; prompts, answers and the history are sequences of tokens, and the chat
template is the history followed by the new line and the text that asks for an answer.
The model's answer is any token; every call that returns a `Result` may fail. PagedKV, Program
and MoeHandoff say what happens inside the calls.

## 3. Runs

Runs that hold:

| run | what it asks | bounds | states |
|---|---|---|---|
| `grid_barrier` | the inductive invariant `BarrierInv`, the refinement, and that every call returns | 3 blocks (a last arriver, a fast one and a slow one), generations modulo 3, so that they wrap | 387 |
| `worker` | the safety of the mailbox protocol: `AckMeansExecuted`, `InstructionsInOrder`, `TraceIndexIsGlobal`, `BarrierSitesAgree`, `DoneIsFinal`, `MailboxIsStable`, the inductive `WorkerInv`, and `ImplementsDispatch`; its progress: `WaitReturns`, `DropEnds` | 3 blocks; batches of 2 and sliced programs of 1 and 3, so that a program has a full chunk and a short one; a fired program of 2; 5 instructions in all, fewer batches than `SeqLimit`; every fault at any time | 100 736 |
| `watchdog` | `HealthyKernelIsLeftAlone`, `EscalationFollowsSilence`, `ArmedWedgeIsAborted` | two timings: a roomy one (window 7, flush every 3 beats) and a short one (window 2, grace 1, flush every 4, forced exits from `Drop`); batches of 2 or 3 instructions, wedges anywhere | 52 439 |
| `paged_chat` | `SlotPartition`, `KvIntact`, `LengthsAgree`, `PrefillSeesConversation` for any mixture of prefill and decode | chunks of 2 tokens, 3 slots, prompts up to 3 (a full and a partial slab), sequences up to 5, two conversations, with and without KV_QUANT and a host tier | 640 376 |
| `paged_decode` | `DecodeSeesConversation`, `DecodeKeysAtTheirPositions`, `QuantSlotPartition` for a client that only decodes | chunks of 2, sequences up to 7 (4 chunks) over 3 slots, four conversations | 3 012 |
| `program` | `LogitsAreTheNetworks`, `StatesAreTheNetworks`, `PatchesReachTheirInstructions` | eight model configurations of two to four layers with all layer kinds, weight formats and FFN forms; one GPU and two expert GPUs (`optionC`); no prompt, or one of 3 tokens in chunks of 2, compared up to `Ignored`; 4 tokens | 19 775 |
| `moe_handoff` | the inductive invariant `HandoffInv`, `ImplementsMoe`, `FiresIntoFreeMailbox`, `StagingIsStable`, `StepEnds` | 2 workers, 2 MoE layers (the slots of the first are reused by the second), up to 3 steps at positions 1 to 3, so that two steps have the same parity or not; YEF52_OPTION_C | 8 100 |
| `storage` | `SlotsAccountedFor`, `EveryTokenHasAHome`, `DispatchReadsConversation`; `RestoreIsOfTheSave` | 2 sequences, 2 slots in each pool, chunks of 2 tokens, sequences of 3, one reset, one failed copy; 2 recurrent layers, 3 steps, 3 saves | 315 136 |
| `session` | `EveryBatchHasAWorker`, `OneKernelPerGpu`, `ContextIsTheConversation`, `EosEndsTheAnswer`, `AnswersOrExits` | 3 turns, answers of 2 tokens, warm-ups of 3, 3 attempts; chat and generate on one GPU and on two, every warm-up mode, every refused start-up | 338 971 |

Each run explores its whole state space, no state constraint is used, and between
them the runs take every action.

The type invariants are conjuncts of the inductive invariants `BarrierInv`, `WorkerInv`,
`HandoffInv`, `WatchdogInv`, `CheckpointInv`, `ChatInv`, `SessionInv` and `OwnershipInv`.
In `Program` `TypeOK` documents the state. Inductive invariants that are not properties of a
run were checked by naming them as INVARIANTs in the module's configuration before they
were proved, and they hold there.

`paged_decode` deserves a remark. The page table of the decode program survives
`reset_state` and is rewritten only when the number of chunks changes. For a
client that only decodes this is harmless because every conversation starts with
one chunk, and the table is rewritten whenever the count differs from the last
one. If the last conversation also ended with one chunk, its slot is the one on
top of the LIFO free list, and the stale entry happens to be right. `paged_reset`
shows that this stops being true as soon as prompts are prefilled.

What the bounds leave out on purpose, because the property fails there, is listed in
section 5: `session` has no one-token prompt of generate on several GPUs and no
top-level `eos_token_id` read by `from_model_dir`; `storage` has a caller that flushes
after copy-on-write; `moe_handoff` has positions that only grow, and segments of one
batch; a latent model is prefilled, not decoded, in `program`, and a prompt is compared
up to `Ignored` there.

Runs that exhibit a disagreement (section 5): `paged_reset`, `checkpoint`,
`program_prompt`.

**Deadlock** is checked in `grid_barrier`, `worker`, `program`, `program_prompt`,
`moe_handoff` and `session`, whose ends are explicit stuttering steps
(`Finished`), so that any other stop is a deadlock. It is off in the other runs:
bounds on batches or conversations end a run, a client may stop, and an aborted
process or a faulted GPU really does stop.

**Fairness.**
- `GridBarrier`: weak fairness of every block. A cooperative launch guarantees that
  all blocks are resident, and each block of the worker calls the barrier equally
  often (this is what `BarrierSitesAgree` says).
- `PersistentWorker`: weak fairness of the host thread's own steps (not of
  starting a program, of dropping, or of timing out), of each block and of the
  barrier. That an operation ends is assumed here; an operation that does not is
  the watchdog's subject.
- `Watchdog`: weak fairness of the thread and of a kernel that is not wedged.
- `MoeHandoff`: weak fairness of the host thread, of GPU 0 and of each worker: each is
  one thread or one resident kernel. A wait that fails is never due.
- `Session`: weak fairness of the program's own steps; the user owes nothing.
- No fairness is claimed for faults. `PagedKV`, `Program`, `KvTiers` and `Checkpoint`
  have none: they are about safety.

## 4. Proofs

The theorems hold for every value of the constants that satisfies the named
assumptions: any number of blocks, GPUs, layers, chunks, tokens, turns and
configurations. Where a theorem has a hypothesis, the property really fails without it
(section 5), and the constants of the passing runs satisfy it. Each proof has the same
shape: an inductive invariant, kept by one lemma per action or group of actions, and the
properties as its consequences.

**Grid barrier** (from `BlocksAssumption`: the grid is finite and not empty;
`GenAssumption`: at least two generations).
- `BarrierInvariant`: `Spec => []BarrierInv`. The invariant says that the counter
  is the number of blocks waiting for the closed phase, or 0 between reset and flip
  (`ArrivedCountsWaiters`); that while the last arriver closes the phase every other
  block waits for it (`ResetIsExclusive`); and that a target is the current or the
  next generation (`TargetsAreNext`). None is inductive alone: the reset is exclusive
  only because the counter counts, and the counter survives the reset only because it
  is exclusive. Two generations suffice, since current and next differ: the wrap of
  the 32-bit word is harmless.
- `BarrierRefinement`: `Spec => ImplementsAbstractBarrier`.

**Mailbox protocol** (from `BlocksAssumption`, `BoundsAssumption` and
`SingleBatchFires`: a fired program fits one batch and is not empty).
- `WorkerInvariant`: `Spec => []WorkerInv`. The invariant ties the host's position
  to the batch in flight (`HostPhase`), the mailbox to that batch
  (`BatchInMailbox`), every block to the same stretch between two barriers
  (`PhaseAgreement`), a block's progress to its program counter (`InFlight`,
  `AtRest`), and `done` to the leader's exit (`DoneInv`). The proof has one lemma for
  the host's steps, one for a block's, one for the barrier and one for the rest.
- From it: `AckTheorem`, `OrderTheorem`, `DoneTheorem`, `BarrierSitesTheorem`,
  `MailboxTheorem`, `TraceTheorem` and the refinement `DispatchRefinement`.

`SingleBatchFires` cannot be dropped: `AckMeansExecuted` fails without it (section 5).
The faults need no assumption. The sequence number may wrap: past the wrap the worker
hangs (section 5), but nothing unsafe happens.

**MoE hand-off** (from `MoeAssumption`; hypothesis `OptionC`: YEF52_OPTION_C, positions
that only grow).
- `HandoffInvariant`: `Spec => []HandoffInv`. A mailbox is free, or holds the one batch
  its GPU is working on (`MailInv`); where a GPU stands follows from the layer the host is
  at (`PlaceInv`, `HostInv`); the activation sentinel of the layer equals the step's number
  exactly when GPU 0 is past its stores (`SentinelInv`); from then on the staging slot holds
  this layer's activation and routing, and until then the result slots still hold the
  shares of the layer before (`StagingInv`, `OutputInv`); the hidden state has summed
  exactly the layers before (`HiddenInv`). Each layer has its own sentinels but all layers
  share the slots. That a slot is not overwritten before it is read rests on the acks of a
  layer being awaited before the next one is fired, which is `MailInv`'s and `HostInv`'s
  part.
- From it: `FreeMailboxTheorem`, `StagingTheorem` and the refinement `MoeRefinement`.

**Watchdog** (from `TimingAssumption`).
- `WatchdogInvariant`: `Spec => []WatchdogInv`. Besides the counter's and the timers'
  relation to `silent`, it says for a healthy kernel that the stall measured so far plus
  `Budget`, the polls the kernel may still take to its next flushed beat, stays within
  `Window`. `Budget` is a case distinction on where the kernel is: before a flush in this
  batch, or past its last one, in which case the rest of this batch, the acknowledgement
  and the head of the next batch are added.
- `HealthyTheorem` (the hypothesis `RoomyWindow` is part of the property) and
  `EscalationTheorem`, an action property.
- The proof corrected the property: a window of one flush interval does not suffice, since
  `watchdog_init` discards unflushed beats at a batch boundary; `Window` is twice that.

**Checkpoint** (no hypothesis but a number of layers). `CheckpointInvariant`: while a slot
is held, each layer's saved copy is one of the states the layer had from the save until
the copy ran (`during`), or the copy is still queued and the state it would read now is
one. `RestoreTheorem` follows: what is restored is of this save, never of an older
checkpoint, another layer or a step after the copies. That it is *the* saved state is what
`checkpoint` refutes.

**KV tiers** (from `KvTiersAssumption`: finitely many sequences, at least one token per
chunk).
- `OwnershipInvariant`: `Spec => []OwnershipInv`. Lists have full chunks but for the last
  one, no handle twice, and a token waiting for its dispatch is in a chunk nobody shares
  (`ListInv`); the tier says which slots a `ChunkRef` has (`TierInv`); a chunk being evicted
  stays full, written and in both slots (`EvictInv`); and each slot of a pool is free, lost
  or held, once (`PoolInv`). `SlotsTheorem` counts: `SlotsAccountedFor` follows. The count
  alone is not inductive. A reset frees the slots of the chunks whose `strong_count` is 1,
  which returns each slot once only because a list names no handle twice, and the slot it
  pushes is a slot at all only because the tier is right about it.
- With the hypothesis `FlushesCow` (section 5 has a row for the case without it),
  `TiersInvariant`: `Spec => []TiersInv`, which adds `ContentInv`. What a slot will hold once
  the queue has run would be a fold over the queue, whose value needs induction. `ContentInv`
  says instead that there are promises `p`, one content for each copy in flight, such that
  a copy's source holds what was promised or an earlier copy brings it, and nothing else can
  change that source before the copy runs (`Kept`), and such that every token is, with the
  promises kept, in the pool its chunk's tier names, in both pools while its chunk is being
  evicted (`AtHome`). An action that issues a copy extends the promises, a reset withdraws
  those of the evictions it interrupts, `RunCopy` redeems the first one. Before the proof TLC
  checked the invariant with a witness for `p` computed from the state.
- `HomeTheorem` (`EveryTokenHasAHome`: with an empty queue there are no promises left) and
  `DispatchTheorem` (`DispatchReadsConversation`: the copies that a page table needs have
  been waited for, the others fill slots it does not name).

**Paged KV, any client** (from `BoundsAssumption`, `NullAssumption`).
- `ChatInvariant`: `Spec => []ChatInv`, for any mixture of prefill, decode, reset and
  failure and any chunk size. `SlotPartition`, `LengthsAgree`, `KvIntact` and
  `PrefillSeesConversation` are conjuncts; `ClientInv` and `PoolInv` add what a slab in
  progress and the pool guarantee. The central lemma is `Homes`: in a sound sequence the
  chunk and offset of a token, `i \div ChunkTokens` and `i % ChunkTokens`, are inside the
  chunk list and no two tokens share a cell, so that writing the next token disturbs none.
- `SlotTheorem`, `LengthsTheorem`, `KvTheorem`, `PrefillTheorem`.

**Paged KV, a client that only decodes** (hypothesis `DecodesOnly`: no prompt is
prefilled; with prompts the first two properties fail, see `paged_reset` and the table in
section 5, and so does the third).
- `DecodeInvariant`: `Spec => []DecodeInv`. Page and position tables are patched by
  length and outlive resets. The invariant therefore says what the table means between
  conversations: if it has one entry, that entry is the slot on top of the free list
  (`DecodeTableInv`). A reset establishes it because a list of one chunk returns its slot
  to the top; a longer list leaves a longer table, which the first append rewrites.
  `QuantInv` says the same of the quantised copies of full chunks.
- `DecodeTheorem`, `PositionTheorem`, `QuantSlotTheorem`.

**Session** (from `SessionAssumption`, `ConfigAssumption`).
- `SessionInvariant`: `Spec => []SessionInv`, for every set of configurations, supported
  or not. `ModelInv` is what the lazy initialisers take for granted of each other (a
  compiled paged program has its sequence and, unless a reset took it, its worker);
  `ContextInv` says at each place of the programs what the cache and the recurrent states
  hold. `OneKernelTheorem` and `ContextTheorem` follow without further hypotheses.
- `WorkersTheorem` with hypothesis `Supported`: on several GPUs the prompts of `generate`
  have at least two tokens (section 5 has a row for one token). For `chat` there is no
  hypothesis: on several GPUs its first `reset_state` ends the process, which the proof
  derives from the expert workers being in the dispatcher's slots.
- `EosTheorem` with hypothesis `EosIsKnown`: the loader found the end-of-sequence id, and
  no prompt contains it.

**Only model-checked**:
- liveness (`EveryCallReturns`, `WaitReturns`, `DropEnds`, `ArmedWedgeIsAborted`,
  `StepEnds`, `AnswersOrExits`), outside the prover's reach;
- `Program` (`LogitsAreTheNetworks`, `StatesAreTheNetworks`,
  `PatchesReachTheirInstructions`): a symbolic execution of whole programs, defined by
  recursion over instruction lists and layers, compared for equality of terms; a statement
  for every model is an induction over its layers.

## 5. Where code and documentation disagree

Shown by a run of its own:

1. **The decode page table is stale after a reset** (`paged_reset`). It is compared
   by length only (`runtime/megakernel/megakernel_run.rs:223`). The slots come back
   from the LIFO free list in another order, so a re-prefilled turn with as many
   chunks is decoded through the old order.
2. **A checkpoint may save later states** (`checkpoint`). `save_recurrent_checkpoint`
   (`runtime/model/state.rs:12-30`) does not wait for its copies, and the worker that runs
   the next decode step is not ordered with their stream.
   `crates/braidinfer-runtime/tests/checkpoint_test.rs` decodes right after the save and
   demands "checkpoint restore should be bitwise identical" (line 54).
3. **A prefill does not compute what decoding computes** (`program_prompt`).
   `crates/braidinfer-runtime/tests/prefill_test.rs:150-153` compares the two ("cross-chunk
   prefill diff={diff}"). Prefill caches K after norm and rotation
   (`runtime/megakernel/compile_attention.rs:250-262`, against line 96, "cache stores
   pre-norm K/V"), attention norms and rotates it again, and the queries are rotated by
   position 0, because nothing calls `write_positions` (`runtime/megakernel/mod.rs:209`,
   "MUST be called before every execute()"). The rows on PagedKV below tell the causes
   apart.

The models also show the following. Each can be reproduced by giving the named
property and these constants to the module.

| what | property and constants |
|---|---|
| A segment longer than one batch is fired into a one-slot mailbox: `runtime/persistent_dispatch.rs:248` promises "Per-GPU FIFO, so any seq drains everything queued ≤ it", and `decode_step_p2p_inner` (`runtime/model/decode/mod.rs:795`) fires every chunk and waits for the last; the second overwrites the first. It takes a combined segment of more than 256 instructions | `AckMeansExecuted` of PersistentWorker, `FirePrograms = {3}`, `MaxBatch = 2` |
| Beats are throttled: `kernels/megakernel.hip:214` says that beating each instruction "resets the no-progress window per op". A beat reaches the host only when it is the first or a multiple of 100, and `watchdog_init` discards the unflushed ones at each batch, so the window must cover up to 200 operations (the tail of one batch and the head of the next), and a kernel that is fed batches of fewer than 99 instructions flushes nothing after its first beat: it is left alone only if a poll happens to see it idle | `HealthyKernelIsLeftAlone` of Watchdog without one of the conjuncts of `RoomyWindow`: `flushEvery = 4`, window 8, `BatchSizes = {3, 6}`; or window 9, `BatchSizes = {1}`, five batches |
| The decode position table holds zero for prefilled tokens (`runtime/megakernel/megakernel_run.rs:89`): decode rotates all prompt keys by position 0 | `DecodeKeysAtTheirPositions` of PagedKV with the constants of `paged_reset` |
| Nothing calls `write_positions` (`runtime/megakernel/mod.rs:214`), which line 209 says "MUST be called before every execute()": every query of a prefill is rotated by position 0 | `PrefillMatchesDecode` with the constants of `paged_reset` |
| The position table of a prefill is written relative to the slab (`runtime/megakernel/megakernel_compile.rs:373`), so from the second slab on keys are rotated by another token's position | `PrefillMatchesDecode` with its first conjunct left out, likewise |
| Prefill caches K after QK-norm (`runtime/megakernel/compile_attention.rs:253`), decode before it (`:96`) | `PrefillMatchesDecode` likewise, with `HasQkNorm = TRUE` |
| A HostPinned chunk is used by the step that allocates it (`runtime/paged_kv.rs:824`) | `ChunksAreResident`, `MaxSeqLen = 6`, `VramChunks = 2`, `HostTiers = {1}`, `MaxPrompt = 0` |
| A chunk sealed by prefill is never quantised (`runtime/megakernel/megakernel_run.rs:157`), its quantised page is null | `DecodeSeesConversation` with `QuantModes = {TRUE}` and the other constants of `paged_reset` |
| A prefill that runs out of memory drops the sequence with its `quant_slots` (`runtime/model/state.rs:127-147`), which belong to a pool that stays: the slots are never returned | `QuantSlotPartition` with `QuantModes = {TRUE}` and the other constants of `paged_reset` |
| `partial_state` is cleared while there is one chunk and never restored (`runtime/megakernel/megakernel_run.rs:213`): the quantised pass is not merged | `SealedTokensAreMerged`, `QuantModes = {TRUE}`, `MaxPrompt = 0` |
| The host wraps sequence numbers to 1 but the kernel compares with `>`: the first batch after the wrap is never seen | `WaitReturns` under `FairSpec`, `SeqLimit = 3`, `MaxBatch = 1`, `MaxSent = 3`, programs of 1, no fault |
| An empty warm-up packet (`runtime/model/state.rs:919`) runs the first slot, since 0 counts as 1 (`kernels/rdna3/rdna3_persistent_protocol.h:197`) | `NothingBeyondSent`, `FirePrograms = {0}`, `MultiGpu = TRUE` |
| A kernel that wedges before the thread has seen progress is never aborted (`runtime/watchdog.rs:181`) | `EveryWedgeIsAborted` of Watchdog under `FairSpec`, window 2, `flushEvery = 4`, batches of 1 |
| A forced exit leaves `exited` at 0 (`kernels/megakernel.hip:120`), so a worker that has left may still be aborted for | `CooperativeExitIsRespected`, window 2, `dropMayForce = TRUE`, `MayWedge = FALSE` |
| Without YEF52_OPTION_C a worker still writes the slot of the step's parity (`kernels/megakernel_moe.hip:474`) while POST reads the first one (`kernels/megakernel_moe_dispatch.hip:97`): every second step sums stale shares | `ImplementsMoe` with `Mode = "default"`; `LogitsAreTheNetworks` of Program with `Modes = {"default"}` |
| With YEF52_DROP_ACK, YEF52_DROP_ALL_ACK (a diagnostic switch, "wedges via the lead-race") or YEF52_GPU_BP the host fires into mailboxes whose batch has not been taken (`runtime/model/decode/mod.rs:1508-1526` argues that sentinels and double buffering suffice) | `FiresIntoFreeMailbox` and `StepEnds` with `Mode = "drop_ack"`, `"drop_all_ack"` or `"gpu_bp"` |
| Sentinels survive a reset and the step's number is its position, so a second conversation meets its own numbers again (`runtime/model/decode/mod.rs:551`) | `ImplementsMoe` and `StagingIsStable` with `Rewinds = TRUE` |
| A warm-up that decodes is never discarded on one GPU (`runtime/bin/generate.rs:102`, "warmup-discard"): the answer continues from the warm-up's tokens | `WarmupIsDiscarded` of Session with the constants of `session` |
| `reset_state` says of the dispatcher it drops: "It will be re-launched lazily on the next decode_step call" (`runtime/model/state.rs:730`). With several workers `Drop` ends the process with status 0 (`runtime/persistent_dispatch.rs:1403-1417`), so a chat over several GPUs ends without an answer at its first line (`runtime/bin/chat.rs:132`), and generate's "Drop + reload" after a dirty warm-up (`runtime/bin/generate.rs:221-222`) ends the program instead | the invariant `cfg.app = "chat" /\ model.multi_gpu => pc # "loop"` of Session holds with the constants of `session`: no such chat ever answers |
| A one-token prompt of generate over several GPUs panics: `decode_step` comes before anything has made the sequence (`runtime/model/decode/mod.rs:713-729`) | `EveryBatchHasAWorker` of Session, generate on two GPUs, `prompt = <<"p">>` |
| KV_QUANT=1 is refused only with MULTI_GPU (`runtime/cli.rs:309`), but an MoE model takes all visible GPUs in any case | `NoQuantOnSeveralGpus`, an MoE configuration with two GPUs, `quant = TRUE`, `env = FALSE` |
| `from_bqnt` "Mirrors `from_model_dir`" (`runtime/generate.rs:112`), but only it reads a top-level `eos_token_id` (`:131`) | `EosEndsTheAnswer`, `source = "dir"`, `eos = "top"` |
| The copy of a copy-on-write is asynchronous: the other owner may reset, and the slot be reused and written, before it has run; nothing in `make_exclusive`'s comment asks for a flush | `EveryTokenHasAHome` with `FlushAfterCow = FALSE` |

Read in the code while modelling, without a property: a failed `save_checkpoint` leaks
the only slot of its pool, a failed `make_exclusive` leaks one; `make_exclusive` copies
`vram_slot` without a look at the tier; `alloc_with_host_backing` is called the canonical
allocation site, but `append_token` allocates without host backing, so its chunks cannot
be evicted; `promote_chunk`'s comment says that a later evict needs no copy, `evict_chunk`
always copies; the latent decode path has no activation sentinel and always uses slot 0;
on one GPU `compile_moe_ffn` emits no fc1/fc2 latent projections; `sampling::generate`
feeds the last prompt token twice.

## 6. What is not modelled

- In-band `OP_HALT` (`kernels/megakernel.hip:164-187`): no host code builds such a
  batch any more. The `cg::grid_group` barrier behind `BRAIDINFER_USE_GRID_SYNC`, and
  weak-memory behaviour of the fences and caches.
- SDMA debug mirrors and the trace-dump ring of `PersistentDispatch`;
  `runtime/kv_chunk_mirror.rs`, whose `init_kv_chunk_mirror` has no caller;
  `stop_and_join` and several entries of the watchdog.
- Head-parallel attention over several GPUs (`dispatch_head_parallel_attention`,
  `compile_attention_layer_multi_gpu`, `init_split_attn_weights`): the code is not
  reached by any step.
- Numerical content of opcodes and quantised formats, word layout of instructions:
  arithmetic, not state. File parsing and uploads of the loader, tracer, HIP bindings:
  I/O and diagnostics. `runtime/sampling.rs` has no caller in the two programs.
- Running out of memory on the MoE prefill path inside `Program`: Session has the
  failing call, PagedKV the failing allocation.

## 7. Plan

Done: GridBarrier, PersistentWorker, Watchdog, PagedKV, Compiler and Program,
MoeHandoff, KvTiers, Checkpoint, Session, with the abstract specifications; proofs about
all of them except Program, whose properties stay with TLC. A program is compiled by folds
over the layers and run by the RECURSIVE operator of `Instructions`; even
`PatchesReachTheirInstructions`, the only one of its properties that does not mention the
execution, speaks of indices that a fold recorded.
