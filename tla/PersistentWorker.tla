-------------------------- MODULE PersistentWorker --------------------------
(***************************************************************************)
(* One GPU's persistent worker and its host: the single-slot mailbox       *)
(* WorkerQueue (persistent_dispatch.rs), the cooperative kernel that polls *)
(* it (persistent_worker in megakernel.hip over the canonical protocol of  *)
(* rdna3_persistent_protocol.h) and the two-phase shutdown in Drop.        *)
(*                                                                         *)
(* Every thread block steps on its own between grid barriers; a barrier is *)
(* one step of all blocks together, which GridBarrier justifies.  An       *)
(* instruction is its position in the stream of all instructions the host  *)
(* ever hands over; 0 is the OP_NOP of a zeroed queue.                     *)
(***************************************************************************)
EXTENDS Naturals, FiniteSets

CONSTANTS Blocks,        \* thread blocks of the cooperative launch
          Leader,        \* blockIdx.x == 0
          MaxBatch,      \* MAX_BATCH_INSTRUCTIONS (256)
          SeqLimit,      \* 0xFFFFFFFF, the reserved sequence number
          SlicePrograms, \* lengths of programs sent by dispatch_batch_slice
          FirePrograms,  \* lengths of programs sent by dispatch_batch_fire
          MaxSent,       \* bound: the host starts no program beyond it
          MultiGpu,      \* workers.len() > 1
          Faults         \* subset of {"signal", "timeout", "deadline", "watchdog"}

ASSUME BlocksAssumption == IsFiniteSet(Blocks) /\ Leader \in Blocks
ASSUME BoundsAssumption ==
    /\ MaxBatch \in Nat \ {0} /\ SeqLimit \in Nat \ {0, 1, 2} /\ MaxSent \in Nat
    /\ SlicePrograms \subseteq Nat \ {0} /\ FirePrograms \subseteq Nat
    /\ MultiGpu \in BOOLEAN

VARIABLES
    \* WorkerQueue, host-mapped
    inst, num_instructions, pc_base, seq_num, shutdown, ack, done,
    \* WatchdogState.force_exit and the process-wide SHUTDOWN_REQUESTED
    force_exit, signalled,
    \* the host thread
    hpc, seq_counter, mode, plen, off, wi, panicking,
    \* device globals and per-block locals of the kernel
    g_shutdown_seen, should_exit, bpc, seq, num_inst, last_seq, base, pc, cur,
    \* history: instructions handed over / confirmed by an ack / finished
    sent, confirmed, finished

mailbox == <<inst, num_instructions, pc_base, seq_num, shutdown, ack, done>>
hostVars == <<hpc, seq_counter, mode, plen, off, wi, panicking, sent, confirmed>>
blockVars == <<g_shutdown_seen, should_exit, bpc, seq, num_inst, last_seq, base,
               pc, cur, finished>>
flags == <<force_exit, signalled>>
vars == <<mailbox, hostVars, blockVars, flags>>

\* add_device: a zeroed queue, seq_counter 0, every block at the loop's top.
Init ==
    /\ inst = [i \in 0..(MaxBatch - 1) |-> 0]
    /\ num_instructions = 0 /\ pc_base = 0 /\ seq_num = 0 /\ ack = 0
    /\ shutdown = 0 /\ done = 0 /\ force_exit = 0 /\ signalled = FALSE
    /\ hpc = "idle" /\ seq_counter = 0 /\ mode = "slice" /\ plen = 0
    /\ off = 0 /\ wi = 0 /\ panicking = FALSE
    /\ g_shutdown_seen = 0 /\ should_exit = 0
    /\ bpc = [b \in Blocks |-> "poll"]
    /\ seq = [b \in Blocks |-> 0] /\ num_inst = [b \in Blocks |-> 0]
    /\ last_seq = [b \in Blocks |-> 0] /\ base = [b \in Blocks |-> 0]
    /\ pc = [b \in Blocks |-> 0] /\ cur = [b \in Blocks |-> 0]
    /\ sent = 0 /\ confirmed = 0 /\ finished = [b \in Blocks |-> 0]
-----------------------------------------------------------------------------
(* The host. *)

\* The chunk being handed over: the rest of the program, at most MaxBatch.
ChunkLen == IF plen - off > MaxBatch THEN MaxBatch ELSE plen - off

\* seq_counter.wrapping_add(1), where 0 and 0xFFFFFFFF become 1.
NextSeq(s) == LET n == (s + 1) % (SeqLimit + 1)
              IN IF n \in {0, SeqLimit} THEN 1 ELSE n

\* A caller hands over a program of n instructions.
StartProgram(m, n) ==
    /\ hpc = "idle"
    /\ sent + n <= MaxSent
    /\ hpc' = "write"
    /\ mode' = m /\ plen' = n /\ off' = 0 /\ wi' = 0
    /\ UNCHANGED <<mailbox, seq_counter, panicking, sent, confirmed, blockVars, flags>>

\* One instruction of the chunk is copied into the batch buffer.
WriteInst ==
    /\ hpc = "write" /\ wi < ChunkLen
    /\ inst' = [inst EXCEPT ![wi] = sent + wi + 1]
    /\ wi' = wi + 1
    /\ UNCHANGED <<num_instructions, pc_base, seq_num, shutdown, ack, done,
                   hpc, seq_counter, mode, plen, off, panicking, sent, confirmed,
                   blockVars, flags>>

\* Mistake: every chunk is stamped with offset 0.
MutHeaderNoBase ==
    /\ hpc = "write" /\ wi = ChunkLen
    /\ num_instructions' = ChunkLen
    /\ pc_base' = 0
    /\ hpc' = "trigger"
    /\ UNCHANGED <<inst, seq_num, shutdown, ack, done, seq_counter, mode, plen,
                   off, wi, panicking, sent, confirmed, blockVars, flags>>

\* num_instructions and pc_base, before seq_num: dispatch_batch_slice passes
\* the chunk's offset, dispatch_batch_fire always 0.
WriteHeader ==
    /\ hpc = "write" /\ wi = ChunkLen
    /\ num_instructions' = ChunkLen
    /\ pc_base' = IF mode = "slice" THEN off ELSE 0
    /\ hpc' = "trigger"
    /\ UNCHANGED <<inst, seq_num, shutdown, ack, done, seq_counter, mode, plen,
                   off, wi, panicking, sent, confirmed, blockVars, flags>>

\* The store to seq_num hands the batch over.  A fired program's next chunk
\* follows at once; otherwise the caller waits for the ack.
Trigger ==
    /\ hpc = "trigger"
    /\ seq_counter' = NextSeq(seq_counter)
    /\ seq_num' = seq_counter'
    /\ sent' = sent + ChunkLen
    /\ off' = off + ChunkLen /\ wi' = 0
    /\ hpc' = IF mode = "fire" /\ off + ChunkLen < plen THEN "write" ELSE "wait"
    /\ UNCHANGED <<inst, num_instructions, pc_base, shutdown, ack, done, mode, plen,
                   panicking, confirmed, blockVars, flags>>

\* Mistake: the next chunk does not wait for the ack of the previous one.
MutAckSeenEarly ==
    /\ hpc = "wait"
    /\ confirmed' = sent
    /\ hpc' = IF off < plen THEN "write" ELSE "idle"
    /\ UNCHANGED <<mailbox, seq_counter, mode, plen, off, wi, panicking, sent,
                   blockVars, flags>>

\* try_wait_ack reads ack == seq: the batch is complete, and the slice goes
\* on with its next chunk.
AckSeen ==
    /\ hpc = "wait" /\ ack = seq_counter
    /\ confirmed' = sent
    /\ hpc' = IF off < plen THEN "write" ELSE "idle"
    /\ UNCHANGED <<mailbox, seq_counter, mode, plen, off, wi, panicking, sent,
                   blockVars, flags>>

\* It reads another value and goes on to look at the signal and the clock ...
AckMissing ==
    /\ hpc = "wait" /\ ack # seq_counter
    /\ hpc' = "check"
    /\ UNCHANGED <<mailbox, seq_counter, mode, plen, off, wi, panicking, sent,
                   confirmed, blockVars, flags>>

\* ... fails with ShutdownRequested or Timeout, on which every caller panics
\* and unwinds into Drop, whatever ack has become in the meantime ...
WaitFails ==
    /\ hpc = "check"
    /\ signalled \/ "timeout" \in Faults
    /\ panicking' = TRUE
    /\ hpc' = "drop"
    /\ UNCHANGED <<mailbox, seq_counter, mode, plen, off, wi, sent, confirmed,
                   blockVars, flags>>

\* ... or spins.
SpinAgain ==
    /\ hpc = "check" /\ ~signalled
    /\ hpc' = "wait"
    /\ UNCHANGED <<mailbox, seq_counter, mode, plen, off, wi, panicking, sent,
                   confirmed, blockVars, flags>>

\* The owner drops the dispatcher between two programs.
BeginDrop ==
    /\ hpc = "idle"
    /\ hpc' = "drop"
    /\ UNCHANGED <<mailbox, seq_counter, mode, plen, off, wi, panicking, sent,
                   confirmed, blockVars, flags>>

\* send_halt_all: the shutdown word (not an OP_HALT batch).
SendHalt ==
    /\ hpc = "drop"
    /\ shutdown' = 1
    /\ hpc' = "phase1"
    /\ UNCHANGED <<inst, num_instructions, pc_base, seq_num, ack, done, seq_counter,
                   mode, plen, off, wi, panicking, sent, confirmed, blockVars, flags>>

\* poll_round sees done in either phase; a panic or a multi-GPU process ends
\* without freeing anything, a single-GPU one frees the worker.
DoneSeen ==
    /\ hpc \in {"phase1", "phase2"} /\ done = 1
    /\ hpc' = IF panicking \/ MultiGpu THEN "exit" ELSE "freed"
    /\ force_exit' = IF MultiGpu /\ ~panicking THEN 1 ELSE force_exit
    /\ UNCHANGED <<mailbox, seq_counter, mode, plen, off, wi, panicking, sent,
                   confirmed, blockVars, signalled>>

\* The phase-1 deadline passes: escalate to force_exit on every worker.
Escalate ==
    /\ hpc = "phase1" /\ done = 0 /\ "deadline" \in Faults
    /\ force_exit' = 1
    /\ hpc' = "phase2"
    /\ UNCHANGED <<mailbox, seq_counter, mode, plen, off, wi, panicking, sent,
                   confirmed, blockVars, signalled>>

\* The total deadline passes: leak the worker and end the process.
Leak ==
    /\ hpc = "phase2" /\ done = 0 /\ "deadline" \in Faults
    /\ hpc' = "exit"
    /\ UNCHANGED <<mailbox, seq_counter, mode, plen, off, wi, panicking, sent,
                   confirmed, blockVars, flags>>

HostNext ==
    \/ \E n \in SlicePrograms : StartProgram("slice", n)
    \/ \E n \in FirePrograms : StartProgram("fire", n)
    \/ WriteInst \/ WriteHeader \/ Trigger
    \/ AckSeen \/ AckMissing \/ WaitFails \/ SpinAgain
    \/ BeginDrop \/ SendHalt \/ DoneSeen \/ Escalate \/ Leak

\* SIGINT or SIGTERM arrives.
Signal ==
    /\ "signal" \in Faults /\ ~signalled
    /\ signalled' = TRUE
    /\ UNCHANGED <<mailbox, hostVars, blockVars, force_exit>>

\* The watchdog thread judges the kernel stalled (module Watchdog).
WatchdogForces ==
    /\ "watchdog" \in Faults /\ force_exit = 0
    /\ force_exit' = 1
    /\ UNCHANGED <<mailbox, hostVars, blockVars, signalled>>
-----------------------------------------------------------------------------
(* The kernel.  Locations of a block:                                      *)
(* "poll"    top of the outer loop         "pollbar" the poll's barrier    *)
(* "seq"     about to read seq_num         "num"     ... num_instructions  *)
(* "wdbar"   watchdog_poll_and_check       "base"    about to read pc_base *)
(* "fetch"   about to load inst[pc]        "exec"    inside the operation  *)
(* "opbar"   the operation's barrier       "ack"     instruction loop over *)
(* "bye"     told to exit by the watchdog  "exited"  returned              *)
BarrierSites == {"pollbar", "wdbar", "opbar"}

\* Mistake: the poll misses the batch that directly follows the last one.
MutPollOffByOne(b) ==
    /\ bpc[b] = "poll"
    /\ b = Leader => shutdown = 1 \/ seq_num > last_seq[b] + 1
    /\ g_shutdown_seen' = IF b = Leader /\ shutdown = 1 THEN 1 ELSE g_shutdown_seen
    /\ bpc' = [bpc EXCEPT ![b] = "pollbar"]
    /\ UNCHANGED <<mailbox, hostVars, flags, should_exit, seq, num_inst, last_seq,
                   base, pc, cur, finished>>

\* Mistake: the poll also accepts the batch it has already acked.
MutPollAgain(b) ==
    /\ bpc[b] = "poll"
    /\ b = Leader => shutdown = 1 \/ seq_num >= last_seq[b]
    /\ g_shutdown_seen' = IF b = Leader /\ shutdown = 1 THEN 1 ELSE g_shutdown_seen
    /\ bpc' = [bpc EXCEPT ![b] = "pollbar"]
    /\ UNCHANGED <<mailbox, hostVars, flags, should_exit, seq, num_inst, last_seq,
                   base, pc, cur, finished>>

\* Block 0 spins on shutdown and seq_num; the others go to the barrier.
Poll(b) ==
    /\ bpc[b] = "poll"
    /\ b = Leader => shutdown = 1 \/ seq_num > last_seq[b]
    /\ g_shutdown_seen' = IF b = Leader /\ shutdown = 1 THEN 1 ELSE g_shutdown_seen
    /\ bpc' = [bpc EXCEPT ![b] = "pollbar"]
    /\ UNCHANGED <<mailbox, hostVars, flags, should_exit, seq, num_inst, last_seq,
                   base, pc, cur, finished>>

\* Mistake: each block looks at the mailbox's shutdown word for itself.
MutReadSeqOwnShutdown(b) ==
    /\ bpc[b] = "seq"
    /\ IF shutdown = 1
       THEN /\ bpc' = [bpc EXCEPT ![b] = "exited"]
            /\ seq_num' = IF b = Leader THEN SeqLimit ELSE seq_num
            /\ done' = IF b = Leader THEN 1 ELSE done
            /\ UNCHANGED seq
       ELSE /\ bpc' = [bpc EXCEPT ![b] = "num"]
            /\ seq' = [seq EXCEPT ![b] = seq_num]
            /\ UNCHANGED <<seq_num, done>>
    /\ UNCHANGED <<inst, num_instructions, pc_base, shutdown, ack, hostVars, flags,
                   g_shutdown_seen, should_exit, num_inst, last_seq, base, pc, cur,
                   finished>>

\* After the poll's barrier: leave if block 0 saw shutdown, else read seq_num.
ReadSeq(b) ==
    /\ bpc[b] = "seq"
    /\ IF g_shutdown_seen = 1
       THEN /\ bpc' = [bpc EXCEPT ![b] = "exited"]
            /\ seq_num' = IF b = Leader THEN SeqLimit ELSE seq_num
            /\ done' = IF b = Leader THEN 1 ELSE done
            /\ UNCHANGED seq
       ELSE /\ bpc' = [bpc EXCEPT ![b] = "num"]
            /\ seq' = [seq EXCEPT ![b] = seq_num]
            /\ UNCHANGED <<seq_num, done>>
    /\ UNCHANGED <<inst, num_instructions, pc_base, shutdown, ack, hostVars, flags,
                   g_shutdown_seen, should_exit, num_inst, last_seq, base, pc, cur,
                   finished>>

\* num_instructions, where 0 counts as 1; block 0 then samples force_exit.
ReadNum(b) ==
    /\ bpc[b] = "num"
    /\ num_inst' = [num_inst EXCEPT ![b] =
                       IF num_instructions = 0 THEN 1 ELSE num_instructions]
    /\ should_exit' = IF b = Leader THEN force_exit ELSE should_exit
    /\ bpc' = [bpc EXCEPT ![b] = "wdbar"]
    /\ UNCHANGED <<mailbox, hostVars, flags, g_shutdown_seen, seq, last_seq, base,
                   pc, cur, finished>>

\* watchdog_signal_exit: block 0 publishes done, everybody returns.
WatchdogExit(b) ==
    /\ bpc[b] = "bye"
    /\ done' = IF b = Leader THEN 1 ELSE done
    /\ bpc' = [bpc EXCEPT ![b] = "exited"]
    /\ UNCHANGED <<inst, num_instructions, pc_base, seq_num, shutdown, ack, hostVars,
                   flags, g_shutdown_seen, should_exit, seq, num_inst, last_seq, base,
                   pc, cur, finished>>

\* The batch's snapshot of pc_base, before its first instruction.
ReadBase(b) ==
    /\ bpc[b] = "base"
    /\ base' = [base EXCEPT ![b] = pc_base]
    /\ bpc' = [bpc EXCEPT ![b] = "fetch"]
    /\ UNCHANGED <<mailbox, hostVars, flags, g_shutdown_seen, should_exit, seq,
                   num_inst, last_seq, pc, cur, finished>>

\* mailbox_load_descriptor: the block's own copy of inst[pc].
Fetch(b) ==
    /\ bpc[b] = "fetch"
    /\ cur' = [cur EXCEPT ![b] = inst[pc[b]]]
    /\ bpc' = [bpc EXCEPT ![b] = "exec"]
    /\ UNCHANGED <<mailbox, hostVars, flags, g_shutdown_seen, should_exit, seq,
                   num_inst, last_seq, base, pc, finished>>

\* dispatch_opcode up to its trailing barrier.
Execute(b) ==
    /\ bpc[b] = "exec"
    /\ finished' = [finished EXCEPT ![b] = @ + 1]
    /\ bpc' = [bpc EXCEPT ![b] = "opbar"]
    /\ UNCHANGED <<mailbox, hostVars, flags, g_shutdown_seen, should_exit, seq,
                   num_inst, last_seq, base, pc, cur>>

\* After the last instruction block 0 acks the sequence number it read.
Ack(b) ==
    /\ bpc[b] = "ack"
    /\ ack' = IF b = Leader THEN seq[b] ELSE ack
    /\ last_seq' = [last_seq EXCEPT ![b] = seq[b]]
    /\ bpc' = [bpc EXCEPT ![b] = "poll"]
    /\ UNCHANGED <<inst, num_instructions, pc_base, seq_num, shutdown, done, hostVars,
                   flags, g_shutdown_seen, should_exit, seq, num_inst, base, pc, cur,
                   finished>>

\* Mistake: the instruction loop stops one instruction early.
MutLoopOneShort(b) ==
    CASE bpc[b] = "pollbar" -> "seq"
      [] bpc[b] = "wdbar"   -> IF should_exit = 1 THEN "bye" ELSE "base"
      [] bpc[b] = "opbar"   -> IF pc[b] + 2 < num_inst[b] THEN "fetch" ELSE "ack"

\* Where a block continues when the barrier it waits at opens.
AfterBarrier(b) ==
    CASE bpc[b] = "pollbar" -> "seq"
      [] bpc[b] = "wdbar"   -> IF should_exit = 1 THEN "bye" ELSE "base"
      [] bpc[b] = "opbar"   -> IF pc[b] + 1 < num_inst[b] THEN "fetch" ELSE "ack"

\* The barrier opens once every block is at one of its call sites; the
\* barrier does not know which.
Rendezvous ==
    /\ \A b \in Blocks : bpc[b] \in BarrierSites
    /\ bpc' = [b \in Blocks |-> AfterBarrier(b)]
    /\ pc' = [b \in Blocks |-> IF bpc[b] = "opbar" THEN pc[b] + 1 ELSE 0]
    /\ UNCHANGED <<mailbox, hostVars, flags, g_shutdown_seen, should_exit, seq,
                   num_inst, last_seq, base, cur, finished>>

BlockNext(b) ==
    \/ Poll(b) \/ ReadSeq(b) \/ ReadNum(b) \/ WatchdogExit(b)
    \/ ReadBase(b) \/ Fetch(b) \/ Execute(b) \/ Ack(b)

WorkerNext == Rendezvous \/ \E b \in Blocks : BlockNext(b)

\* The process has ended, or the worker is gone.
Finished ==
    /\ hpc \in {"freed", "exit"}
    /\ UNCHANGED vars

Next == HostNext \/ Signal \/ WatchdogForces \/ WorkerNext \/ Finished

Spec == Init /\ [][Next]_vars

\* The host thread runs, every block of a cooperative launch is resident, and
\* an operation ends.  Nobody is obliged to submit work, to stop or to fail.
FairSpec ==
    /\ Spec
    /\ WF_vars(WriteInst \/ WriteHeader \/ Trigger \/ AckSeen \/ AckMissing
               \/ SpinAgain \/ (signalled /\ WaitFails) \/ SendHalt \/ DoneSeen)
    /\ WF_vars(Rendezvous)
    /\ \A b \in Blocks : WF_vars(BlockNext(b))
-----------------------------------------------------------------------------
MailboxType ==
    /\ inst \in [0..(MaxBatch - 1) -> Nat]
    /\ num_instructions \in 0..MaxBatch /\ pc_base \in Nat
    /\ seq_num \in 0..SeqLimit /\ ack \in 0..SeqLimit
    /\ shutdown \in {0, 1} /\ done \in {0, 1}
    /\ force_exit \in {0, 1} /\ signalled \in BOOLEAN

HostType ==
    /\ hpc \in {"idle", "write", "trigger", "wait", "check", "drop", "phase1",
                "phase2", "freed", "exit"}
    /\ seq_counter \in 0..SeqLimit /\ mode \in {"slice", "fire"}
    /\ plen \in Nat /\ off \in 0..plen /\ wi \in 0..MaxBatch /\ panicking \in BOOLEAN
    /\ sent \in Nat /\ confirmed \in 0..sent

KernelType ==
    /\ g_shutdown_seen \in {0, 1} /\ should_exit \in {0, 1}
    /\ bpc \in [Blocks -> {"poll", "pollbar", "seq", "num", "wdbar", "base", "fetch",
                           "exec", "opbar", "ack", "bye", "exited"}]
    /\ seq \in [Blocks -> 0..SeqLimit] /\ num_inst \in [Blocks -> Nat]
    /\ last_seq \in [Blocks -> 0..SeqLimit] /\ base \in [Blocks -> Nat]
    /\ pc \in [Blocks -> Nat] /\ cur \in [Blocks -> Nat]
    /\ finished \in [Blocks -> Nat]

TypeOK == MailboxType /\ HostType /\ KernelType

\* The trait's promise for wait_ack ("Caller must wait_ack before reading any
\* buffer the batch writes to", "any seq drains everything queued <= it"):
\* once try_wait_ack can return, every block has finished every instruction
\* handed over so far.
AckMeansExecuted ==
    hpc \in {"wait", "check"} /\ ack = seq_counter =>
        \A b \in Blocks : finished[b] = sent

\* A block only executes the next instruction of the stream: none is skipped,
\* repeated, or taken from a batch already overwritten, in whatever order the
\* blocks read the mailbox.
InstructionsInOrder ==
    \A b \in Blocks : bpc[b] = "exec" => cur[b] = finished[b] + 1

\* The trace dump of a sliced program is indexed by the program-global
\* position (pc + pc_base), also in the chunks after the first.
TraceIndexIsGlobal ==
    \A b \in Blocks : bpc[b] = "exec" /\ mode = "slice" =>
        pc[b] + base[b] + 1 = cur[b] - (sent - off)

\* atomic_block_barrier counts arrivals and not call sites: blocks that meet
\* in it have all come to the same call.
BarrierSitesAgree ==
    (\A b \in Blocks : bpc[b] \in BarrierSites) =>
        \A b, c \in Blocks : bpc[b] = bpc[c] /\ (bpc[b] = "opbar" => pc[b] = pc[c])

\* The step a block takes next, if any, accesses the mailbox.
UsesQueue(b) ==
    \/ bpc[b] \in {"poll", "pollbar", "num", "wdbar", "base", "fetch", "exec",
                   "opbar", "ack"}
    \/ bpc[b] = "seq" /\ g_shutdown_seen = 0
    \/ b = Leader /\ bpc[b] \in {"seq", "bye"}

\* done is the last word of the worker ("only freed after the cooperative
\* kernel has confirmed exit via the done flag"): no block uses the mailbox
\* after it, so freeing the queue in Drop is safe even while blocks linger.
DoneIsFinal ==
    done = 1 \/ hpc = "freed" => \A b \in Blocks : ~UsesQueue(b)

\* The host rewrites the batch buffer and its header only while no block is
\* between the poll's barrier and the end of its instruction loop.
MailboxIsStable ==
    hpc \in {"write", "trigger"} =>
        \A b \in Blocks : bpc[b] \in {"ack", "poll", "pollbar"}

\* PersistentDispatch implements the promise of its BatchDispatcher trait:
\* in-order, lockstep execution, and waits that mean completion.
Abs == INSTANCE AbstractDispatch
ImplementsDispatch == Abs!ASpec

\* The comment on the empty warm-up packet ("reads num_inst=0, skips the inner
\* instruction loop"): a block executes nothing that was not handed over.
NothingBeyondSent ==
    \A b \in Blocks : bpc[b] = "exec" => finished[b] < sent

\* dispatch_batch_slice and wait_ack return: the worker acks every batch it
\* is handed, unless a signal ends the wait or the watchdog forces the
\* worker out; "Wrap to 1 instead of 0 to avoid ambiguity after u32
\* rollover" claims it beyond the rollover too.
WaitReturns == (hpc = "wait") ~> (hpc \in {"idle", "write", "drop"} \/ force_exit = 1)

\* Drop ends, and not by leaking: shutdown reaches every block, whatever
\* batch is in flight, and none is left behind in a barrier.
DropEnds ==
    (hpc = "drop") ~> (hpc \in {"freed", "exit"} /\ \A b \in Blocks : bpc[b] = "exited")
-----------------------------------------------------------------------------
(* The inductive invariant. *)

\* A batch is handed over and not yet acked.
Pending == ack # seq_counter

Quiet == {"ack", "poll", "pollbar"}
Reading == {"seq", "num", "wdbar"}
Working == {"base", "fetch", "exec", "opbar"}

\* All blocks are in the same stretch between two barriers.
PhaseAgreement ==
    \/ \A b \in Blocks : bpc[b] \in Quiet
    \/ g_shutdown_seen = 0 /\ \A b \in Blocks : bpc[b] \in Reading
    \/ g_shutdown_seen = 0 /\ should_exit = 0 /\ \A b \in Blocks : bpc[b] \in Working
    \/ g_shutdown_seen = 1 /\ \A b \in Blocks : bpc[b] \in {"seq", "exited"}
    \/ g_shutdown_seen = 0 /\ should_exit = 1 /\ \A b \in Blocks : bpc[b] \in {"bye", "exited"}

\* What the host's position says about the batch in flight.
HostPhase ==
    /\ last_seq[Leader] = ack
    /\ hpc \in {"idle", "write", "trigger"} => ~Pending /\ confirmed = sent
    /\ hpc \in {"wait", "check"} => confirmed < sent /\ wi = 0
    /\ ~Pending /\ done = 0 => seq_num = ack
    /\ Pending => /\ confirmed < sent
                  /\ done = 0 => seq_num = seq_counter
    /\ hpc = "write" => /\ off < plen /\ wi <= ChunkLen
                        /\ \A i \in 0..(wi - 1) : inst[i] = sent + i + 1
    /\ hpc = "trigger" => /\ off < plen
                          /\ num_instructions = ChunkLen
                          /\ mode = "slice" => pc_base = off
                          /\ \A i \in 0..(ChunkLen - 1) : inst[i] = sent + i + 1
    /\ mode = "fire" => plen <= MaxBatch /\ (off = 0 \/ off = plen)

\* The mailbox holds exactly the pending batch.
BatchInMailbox ==
    Pending => /\ num_instructions = sent - confirmed
               /\ mode = "slice" => pc_base = off - (sent - confirmed)
               /\ off \in (sent - confirmed)..plen
               /\ \A i \in 0..(num_instructions - 1) : inst[i] = confirmed + i + 1

\* Between two batches every block has finished everything, and only a
\* shutdown takes them past the poll's barrier.
AtRest ==
    /\ ~Pending => /\ \A b \in Blocks : finished[b] = sent
                   /\ \A b \in Blocks : bpc[b] \in Quiet \union {"seq", "exited"}
                   /\ bpc[Leader] = "poll" \/ g_shutdown_seen = 1
    /\ g_shutdown_seen = 1 => bpc[Leader] \in {"pollbar", "seq", "exited"}

\* How far block b is with the pending batch.
Progress(b) ==
    /\ bpc[Leader] = "ack" => finished[b] = sent
    /\ bpc[Leader] \notin Working \union {"ack"} => finished[b] = confirmed
    /\ bpc[b] \in {"num", "wdbar"} \union Working => seq[b] = seq_counter
    /\ bpc[b] \in {"wdbar"} \union Working => num_inst[b] = num_instructions
    /\ bpc[b] \in Working =>
        /\ pc[b] = pc[Leader] /\ pc[b] < num_inst[b]
        /\ finished[b] = confirmed + pc[b] + (IF bpc[b] = "opbar" THEN 1 ELSE 0)
    /\ bpc[b] \in {"fetch", "exec", "opbar"} => base[b] = pc_base
    /\ bpc[b] = "exec" => cur[b] = confirmed + pc[b] + 1

InFlight ==
    /\ Pending => \A b \in Blocks : Progress(b)
    /\ bpc[Leader] = "ack" => seq[Leader] = seq_counter

\* Nobody is left at the mailbox once done is set, nor when it is freed.
DoneInv ==
    /\ done = 1 => bpc[Leader] = "exited"
    /\ hpc = "freed" => done = 1
    /\ g_shutdown_seen = 1 => shutdown = 1
    /\ shutdown = 1 => hpc \in {"phase1", "phase2", "freed", "exit"}

WorkerInv ==
    TypeOK /\ PhaseAgreement /\ HostPhase /\ BatchInMailbox /\ AtRest /\ InFlight
    /\ DoneInv

\* The uses of the dispatcher the invariant covers: a fired program fits one
\* batch and is not empty.
SingleBatchFires == FirePrograms \subseteq 1..MaxBatch
=============================================================================
