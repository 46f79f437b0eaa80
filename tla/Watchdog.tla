------------------------------ MODULE Watchdog ------------------------------
(***************************************************************************)
(* The progress watchdog: block 0 of a persistent kernel beats into the    *)
(* host-mapped WatchdogState (rdna3_persistent.h, megakernel.hip), and the *)
(* host thread of watchdog.rs polls it, sends force_exit after a stall and *)
(* aborts the process after a grace period.                                *)
(*                                                                         *)
(* Time is counted in polls of the host thread.  A healthy kernel takes at *)
(* most OpTicks polls for each of its steps; a wedged operation never ends.*)
(***************************************************************************)
EXTENDS Integers

CONSTANTS Timings,    \* the configurations a behaviour may be in, see Timing
          OpTicks,    \* bound: polls a healthy operation may take
          BatchSizes, \* bound: instructions per batch
          MayWedge    \* an operation may wedge

\* no_progress_ms and grace_ms in polls, the beats between two flushes, whether
\* Drop may call force_exit_all, and a bound on the batches.
Timing == [noProgress : Nat \ {0}, grace : Nat, flushEvery : Nat \ {0},
           dropMayForce : BOOLEAN, maxBatches : Nat]

ASSUME TimingAssumption ==
    /\ Timings \subseteq Timing
    /\ OpTicks \in Nat \ {0} /\ BatchSizes \subseteq Nat \ {0} /\ MayWedge \in BOOLEAN

VARIABLES
    timing,                                 \* fixed at the start
    force_exit, exited, progress_counter,   \* WatchdogState
    kpc,            \* the kernel: "unlaunched" "idle" "check" "op" "end" "gone"
    left,           \* instructions left in the batch
    beat_ctr,       \* watchdog_beat_ctr of block 0
    age,            \* polls since the kernel's last step
    wedged,
    batches,
    wpc,            \* the thread: "sleep" "read" "judge" "quiesce" "aborted"
    counter, seen_exited,                   \* its reads of this poll
    last_progress, has_started,             \* WatchdogEntry
    stall,          \* polls since last_progress_at
    sent,           \* polls since force_exit_sent_at, NotSent for None
    silent          \* history: polls since progress_counter last changed

NoProgress == timing.noProgress
Grace == timing.grace
FlushEvery == timing.flushEvery
MaxBatches == timing.maxBatches
DropMayForce == timing.dropMayForce

NotSent == Grace + 1

state == <<force_exit, exited, progress_counter>>
kernel == <<kpc, left, beat_ctr, age, wedged, batches>>
thread == <<wpc, counter, seen_exited, last_progress, has_started, stall, sent>>
vars == <<timing, state, kernel, thread, silent>>

\* register: a zeroed page, often long before the kernel is launched.
Init ==
    /\ timing \in Timings
    /\ force_exit = 0 /\ exited = 0 /\ progress_counter = 0
    /\ kpc = "unlaunched" /\ left = 0 /\ beat_ctr = 0 /\ age = 0 /\ wedged = FALSE
    /\ batches = 0
    /\ wpc = "sleep" /\ counter = 0 /\ seen_exited = 0 /\ last_progress = 0
    /\ has_started = FALSE /\ stall = 0 /\ sent = NotSent
    /\ silent = 0
-----------------------------------------------------------------------------
(* The kernel. *)

\* Mistake: the beat never reaches the host after the first one.
MutBeatFirstOnly ==
    /\ beat_ctr' = beat_ctr + 1
    /\ progress_counter' = IF beat_ctr' = 1 THEN beat_ctr' ELSE progress_counter
    /\ silent' = IF beat_ctr' = 1 THEN 0 ELSE silent

\* watchdog_beat: count, and flush the first and every FlushEvery-th beat.
Beat ==
    /\ beat_ctr' = beat_ctr + 1
    /\ progress_counter' = IF beat_ctr' = 1 \/ beat_ctr' % FlushEvery = 0
                           THEN beat_ctr' ELSE progress_counter
    /\ silent' = IF progress_counter' # progress_counter THEN 0 ELSE silent

\* A batch arrives: watchdog_init takes the counter back to the last flushed
\* value and clears exited.
StartBatch(n) ==
    /\ kpc = "idle" /\ batches < MaxBatches /\ wpc # "aborted"
    /\ beat_ctr' = progress_counter
    /\ exited' = 0
    /\ kpc' = "check" /\ left' = n /\ age' = 0 /\ batches' = batches + 1
    /\ UNCHANGED <<timing, force_exit, progress_counter, wedged, thread, silent>>

\* watchdog_poll_and_check, once per batch: leave with done = 1, exited left
\* at 0, or beat and begin.
LeaveForced ==
    /\ kpc = "check" /\ force_exit = 1 /\ wpc # "aborted"
    /\ kpc' = "gone"
    /\ UNCHANGED <<timing, state, left, beat_ctr, age, wedged, batches, thread, silent>>

Begin ==
    /\ kpc = "check" /\ force_exit = 0 /\ wpc # "aborted"
    /\ Beat
    /\ kpc' = "op" /\ age' = 0
    /\ UNCHANGED <<timing, force_exit, exited, left, wedged, batches, thread>>

\* dispatch_opcode returns; one beat per instruction.
FinishOp ==
    /\ kpc = "op" /\ ~wedged /\ wpc # "aborted"
    /\ Beat
    /\ left' = left - 1 /\ age' = 0
    /\ kpc' = IF left = 1 THEN "end" ELSE "op"
    /\ UNCHANGED <<timing, force_exit, exited, wedged, batches, thread>>

\* The kernel starts, or its batch is acked: watchdog_signal_exited at the top
\* of the outer loop.
TopOfLoop ==
    /\ kpc \in {"unlaunched", "end"} /\ wpc # "aborted"
    /\ exited' = 1
    /\ kpc' = "idle" /\ age' = 0
    /\ UNCHANGED <<timing, force_exit, progress_counter, left, beat_ctr, wedged, batches, thread,
                   silent>>

\* The running operation never ends.
Wedge ==
    /\ MayWedge /\ kpc = "op" /\ ~wedged /\ wpc # "aborted"
    /\ wedged' = TRUE
    /\ UNCHANGED <<timing, state, kpc, left, beat_ctr, age, batches, thread, silent>>

KernelNext ==
    \/ \E n \in BatchSizes : StartBatch(n)
    \/ LeaveForced \/ Begin \/ FinishOp \/ TopOfLoop \/ Wedge

\* Drop escalates (PersistentWorker's Escalate).
ForceExitAll ==
    /\ DropMayForce /\ force_exit = 0 /\ wpc # "aborted"
    /\ force_exit' = 1
    /\ UNCHANGED <<timing, exited, progress_counter, kernel, thread, silent>>
-----------------------------------------------------------------------------
(* The host thread.  Sleeping for one poll interval makes everything older. *)

CountUpTo(n, limit) == IF n < limit THEN n + 1 ELSE n

\* The thread wakes and reads the counter ...
ReadCounter ==
    /\ wpc = "sleep"
    /\ kpc \in {"check", "op", "end"} /\ ~wedged => age < OpTicks
    /\ counter' = progress_counter
    /\ wpc' = "read"
    /\ age' = CountUpTo(age, OpTicks)
    /\ stall' = CountUpTo(stall, NoProgress)
    /\ sent' = CountUpTo(sent, IF sent = NotSent THEN NotSent ELSE Grace)
    /\ silent' = CountUpTo(silent, NoProgress + Grace)
    /\ UNCHANGED <<timing, state, kpc, left, beat_ctr, wedged, batches, seen_exited,
                   last_progress, has_started>>

\* ... and then exited.
ReadExited ==
    /\ wpc = "read"
    /\ seen_exited' = exited
    /\ wpc' = "judge"
    /\ UNCHANGED <<timing, state, kernel, counter, last_progress, has_started, stall, sent,
                   silent>>

\* The kernel is idle: restart the timer.
JudgeIdle ==
    /\ wpc = "judge" /\ seen_exited # 0
    /\ last_progress' = counter /\ stall' = 0 /\ sent' = NotSent
    /\ wpc' = "sleep"
    /\ UNCHANGED <<timing, state, kernel, counter, seen_exited, has_started, silent>>

\* The counter advanced: restart the timer, and arm the watchdog.
JudgeProgress ==
    /\ wpc = "judge" /\ seen_exited = 0 /\ counter > last_progress
    /\ last_progress' = counter /\ stall' = 0 /\ sent' = NotSent
    /\ has_started' = TRUE
    /\ wpc' = "sleep"
    /\ UNCHANGED <<timing, state, kernel, counter, seen_exited, silent>>

NoNews == wpc = "judge" /\ seen_exited = 0 /\ counter <= last_progress
Stalled == NoNews /\ has_started /\ stall >= NoProgress

\* Mistake: force_exit is repeated instead of being escalated.
MutKeepWaitingForever ==
    /\ NoNews
    /\ ~Stalled \/ sent <= Grace
    /\ wpc' = "sleep"
    /\ UNCHANGED <<timing, state, kernel, counter, seen_exited, last_progress, has_started,
                   stall, sent, silent>>

\* Not armed, not stalled for long enough, or still within the grace period.
KeepWaiting ==
    /\ NoNews
    /\ ~Stalled \/ sent < Grace
    /\ wpc' = "sleep"
    /\ UNCHANGED <<timing, state, kernel, counter, seen_exited, last_progress, has_started,
                   stall, sent, silent>>

SendForceExit ==
    /\ Stalled /\ sent = NotSent
    /\ force_exit' = 1 /\ sent' = 0
    /\ wpc' = "sleep"
    /\ UNCHANGED <<timing, exited, progress_counter, kernel, counter, seen_exited,
                   last_progress, has_started, stall, silent>>

\* The second read of the counter differs: "recovered"; force_exit stays set.
Recovered ==
    /\ Stalled /\ sent = Grace /\ progress_counter # counter
    /\ last_progress' = progress_counter /\ stall' = 0 /\ sent' = NotSent
    /\ wpc' = "sleep"
    /\ UNCHANGED <<timing, state, kernel, counter, seen_exited, has_started, silent>>

\* Mistake: escalate on the strength of the first read alone.
MutQuiesceWithoutReread ==
    /\ Stalled /\ sent = Grace
    /\ force_exit' = 1
    /\ wpc' = "quiesce"
    /\ UNCHANGED <<timing, exited, progress_counter, kernel, counter, seen_exited,
                   last_progress, has_started, stall, sent, silent>>

\* Nothing new: force_exit goes to every registered kernel ...
Quiesce ==
    /\ Stalled /\ sent = Grace /\ progress_counter = counter
    /\ force_exit' = 1
    /\ wpc' = "quiesce"
    /\ UNCHANGED <<timing, exited, progress_counter, kernel, counter, seen_exited,
                   last_progress, has_started, stall, sent, silent>>

\* ... and the process is aborted 200 ms later, whatever they do meanwhile.
Abort ==
    /\ wpc = "quiesce"
    /\ wpc' = "aborted"
    /\ UNCHANGED <<timing, state, kernel, counter, seen_exited, last_progress, has_started,
                   stall, sent, silent>>

ThreadNext ==
    \/ ReadCounter \/ ReadExited \/ JudgeIdle \/ JudgeProgress \/ KeepWaiting
    \/ SendForceExit \/ Recovered \/ Quiesce \/ Abort

Next == KernelNext \/ ForceExitAll \/ ThreadNext

Spec == Init /\ [][Next]_vars

\* The thread keeps polling, and a kernel that is not wedged keeps running
\* its batch; nobody is obliged to submit one.
FairSpec ==
    Spec /\ WF_vars(ThreadNext) /\ WF_vars(LeaveForced \/ Begin \/ FinishOp \/ TopOfLoop)
-----------------------------------------------------------------------------
TypeOK ==
    /\ timing \in Timings
    /\ force_exit \in {0, 1} /\ exited \in {0, 1} /\ progress_counter \in Nat
    /\ kpc \in {"unlaunched", "idle", "check", "op", "end", "gone"} /\ left \in Nat
    /\ beat_ctr \in Nat /\ age \in 0..OpTicks /\ wedged \in BOOLEAN
    /\ batches \in 0..MaxBatches
    /\ wpc \in {"sleep", "read", "judge", "quiesce", "aborted"} /\ counter \in Nat
    /\ seen_exited \in {0, 1} /\ last_progress \in Nat /\ has_started \in BOOLEAN
    /\ stall \in 0..NoProgress /\ sent \in 0..NotSent
    /\ silent \in 0..(NoProgress + Grace)

\* The polls a kernel may let pass between two flushes: what is left of a batch
\* behind its last flush, which the next watchdog_init discards, and the beats
\* of the next batch up to its first one.
Window == 2 * FlushEvery * OpTicks

\* no_progress_ms covers them, and every batch is long enough to flush.
RoomyWindow == NoProgress > Window /\ \A n \in BatchSizes : n + 1 >= FlushEvery

\* megakernel.hip on the per-instruction beat ("still catches a genuinely
\* STUCK op ... but tolerates a long sequence of fast ops"): as long as the
\* window is that wide and Drop forces nobody, a kernel whose operations all
\* end in time is never told to exit.
HealthyKernelIsLeftAlone ==
    RoomyWindow /\ ~DropMayForce /\ force_exit = 1 => wedged

\* The process is given up only for a kernel from which nothing has reached
\* the host for no_progress_ms + grace_ms: a beat that lands between the
\* thread's reads, or during the grace period, saves it.
EscalationFollowsSilence ==
    [][wpc # "quiesce" /\ wpc' = "quiesce" => silent >= NoProgress + Grace]_vars

\* A wedge is turned into an abort once the watchdog has seen the kernel
\* make progress.
ArmedWedgeIsAborted == (wedged /\ has_started) ~> (wpc = "aborted")

\* rdna3_persistent.h on the first flush ("arms the watchdog before the first
\* compute op, converting that wedge into a ~3s abort"): every wedge is.
EveryWedgeIsAborted == wedged ~> (wpc = "aborted")

\* rdna3_persistent.h, required invariants ("watchdog_signal_exited fires at
\* every kernel exit (clean or force-exit)"): the process is not aborted for
\* a kernel that has left cooperatively.
CooperativeExitIsRespected == kpc = "gone" => wpc # "aborted"
-----------------------------------------------------------------------------
(* The inductive invariant behind HealthyKernelIsLeftAlone and             *)
(* EscalationFollowsSilence                                                *)

\* What the thread knows never exceeds what was flushed.
CounterInv ==
    /\ progress_counter <= beat_ctr
    /\ last_progress <= progress_counter /\ counter <= progress_counter
    /\ wpc \in {"read", "judge"} => last_progress <= counter

\* The timers measure silence: nothing was flushed since the value in
\* last_progress for as long as they say.
SilenceInv ==
    last_progress = progress_counter =>
       silent >= (IF sent = NotSent THEN stall ELSE NoProgress + sent)

KernelInv ==
    /\ kpc = "unlaunched" => progress_counter = 0 /\ ~has_started
    /\ kpc = "idle" => exited = 1
    /\ kpc \in {"check", "op", "end"} => exited = 0
    /\ kpc = "check" => left \in BatchSizes
    /\ kpc = "op" => left >= 1

\* Beats until the next multiple of FlushEvery, and the polls until that flush
ToFlush == FlushEvery - (beat_ctr % FlushEvery)
Idle == IF wpc = "read" THEN 0 ELSE 1
NextBatch == FlushEvery * OpTicks
Budget ==
    IF kpc = "check" \/ (kpc = "op" /\ left >= ToFlush) THEN ToFlush * OpTicks - age
    ELSE IF kpc = "op" THEN left * OpTicks - age + OpTicks + 1 + NextBatch
    ELSE IF kpc = "end" THEN OpTicks - age + 1 + NextBatch
    ELSE IF kpc = "idle" THEN NextBatch + Idle
    ELSE 0

\* As long as no operation wedges, the stall measured so far and the polls
\* until the next flush stay within the window.
Healthy == RoomyWindow /\ ~DropMayForce /\ ~wedged
WithinWindow ==
    /\ force_exit = 0 /\ sent = NotSent
    /\ kpc # "gone" /\ wpc \in {"sleep", "read", "judge"}
    /\ wpc # "sleep" /\ counter = progress_counter => Budget <= Window
    /\ has_started /\ wpc = "sleep" /\ last_progress = progress_counter =>
          stall + Budget <= Window
    /\ has_started /\ (wpc = "read" \/ (wpc = "judge" /\ seen_exited = 0)) /\ counter = last_progress =>
          stall <= Window /\ (counter = progress_counter => stall + Budget <= Window)
HealthyInv == Healthy => WithinWindow

WatchdogInv == TypeOK /\ CounterInv /\ SilenceInv /\ KernelInv /\ HealthyInv
=============================================================================
