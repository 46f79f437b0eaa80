---------------------------- MODULE WatchdogProofs ----------------------------
(***************************************************************************)
(* Proofs about the progress watchdog for any window, grace period, flush  *)
(* interval and batch sizes: WatchdogInv is inductive.  A healthy kernel   *)
(* is left alone because stall plus the polls until the next flush never   *)
(* exceeds Window, and the process is aborted only after real silence      *)
(* because the timers never run ahead of it.                               *)
(***************************************************************************)
EXTENDS Watchdog, TLAPS

\* Multiples of the polls per operation
LEMMA TimesFacts ==
    ASSUME NEW t \in Nat, NEW a \in Int, NEW b \in Int
    PROVE  /\ (a - 1) * t = a * t - t /\ a * t \in Int
           /\ a <= b => a * t <= b * t
<1>1. (a - 1) * t = a * t - t /\ a * t \in Int
  OBVIOUS
<1>2. ASSUME a <= b PROVE a * t <= b * t
  <2>1. (b - a) * t = b * t - a * t /\ b * t \in Int
    OBVIOUS
  <2>2. (b - a) * t >= 0
    BY <1>2
  <2> QED
    BY <1>1, <2>1, <2>2
<1> QED
  BY <1>1, <1>2

\* A smaller term keeps a sum below its bound.
LEMMA SumBound ==
    ASSUME NEW a \in Nat, NEW b \in Nat, NEW c \in Nat, NEW w \in Nat, c <= b, a + b <= w
    PROVE  a + c <= w
OBVIOUS

\* The same where one poll passes.
LEMMA PollBound ==
    ASSUME NEW a \in Nat, NEW b \in Nat, NEW c \in Nat, NEW w \in Nat
    PROVE  /\ b + 1 <= w + 1 => b <= w
           /\ c <= a + 1 /\ a + 1 + b <= w => c <= w /\ c + b <= w
OBVIOUS

\* The remainder grows with the beat until it starts again at 0.
LEMMA ModFacts ==
    ASSUME NEW b \in Nat, NEW f \in Nat \ {0}
    PROVE  /\ (b % f) \in 0..(f - 1)
           /\ ((b + 1) % f) = 0 <=> (b % f) = f - 1
           /\ ((b + 1) % f) # 0 => ((b + 1) % f) = (b % f) + 1
<1>0. f \in Nat /\ f > 0
  OBVIOUS
<1>1. PICK q \in Int : b = f * q + (b % f) /\ (b % f) \in 0..(f - 1)
  <2>1. (b \div f) \in Int /\ b = f * (b \div f) + (b % f) /\ (b % f) \in 0..(f - 1)
    BY <1>0
  <2> QED
    BY <2>1
<1>2. PICK p \in Int : b + 1 = f * p + ((b + 1) % f) /\ ((b + 1) % f) \in 0..(f - 1)
  <2>1. ((b + 1) \div f) \in Int /\ b + 1 = f * ((b + 1) \div f) + ((b + 1) % f) /\ ((b + 1) % f) \in 0..(f - 1)
    BY <1>0
  <2> QED
    BY <2>1
<1>3. f * p - f * q = f * (p - q) /\ f * p \in Int /\ f * q \in Int
  OBVIOUS
<1>4. CASE p = q
  BY <1>1, <1>2, <1>4
<1>5. CASE p - q >= 1
  <2>1. CASE p - q = 1
    BY <1>1, <1>2, <1>3, <2>1
  <2>2. CASE p - q >= 2
    <3>1. f * (p - q) >= 2 * f
      BY <2>2
    <3> QED
      BY <1>1, <1>2, <1>3, <3>1
  <2> QED
    BY <1>5, <2>1, <2>2
<1>6. CASE q - p >= 1
  <2>1. f * (q - p) >= f
    BY <1>6
  <2>2. f * (q - p) = f * q - f * p
    OBVIOUS
  <2> QED
    BY <1>1, <1>2, <1>3, <2>1, <2>2
<1> QED
  BY <1>4, <1>5, <1>6

\* The parameters of the behaviour have their types.
LEMMA Parameters ==
    ASSUME TypeOK
    PROVE  /\ NoProgress \in Nat \ {0} /\ Grace \in Nat /\ FlushEvery \in Nat \ {0}
           /\ DropMayForce \in BOOLEAN /\ MaxBatches \in Nat
           /\ OpTicks \in Nat \ {0} /\ NotSent = Grace + 1
           /\ NextBatch \in Nat \ {0} /\ OpTicks <= NextBatch /\ Window = 2 * NextBatch
           /\ BatchSizes \subseteq Nat \ {0}
<1>1. timing \in Timing
  BY TimingAssumption DEF TypeOK
<1>2. /\ NoProgress \in Nat \ {0} /\ Grace \in Nat /\ FlushEvery \in Nat \ {0}
      /\ DropMayForce \in BOOLEAN /\ MaxBatches \in Nat
  BY <1>1 DEF Timing, NoProgress, Grace, FlushEvery, DropMayForce, MaxBatches
<1>3. OpTicks \in Nat \ {0}
  BY TimingAssumption
<1>4. 1 * OpTicks <= FlushEvery * OpTicks /\ FlushEvery * OpTicks \in Int
  BY <1>2, <1>3, TimesFacts
<1>5. Window = 2 * (FlushEvery * OpTicks)
  BY <1>2, <1>3 DEF Window
<1> QED
  BY <1>2, <1>3, <1>4, <1>5, TimingAssumption DEF NextBatch, NotSent

\* The parameters never change.
LEMMA Frozen ==
    ASSUME timing' = timing
    PROVE  /\ NoProgress' = NoProgress /\ Grace' = Grace /\ FlushEvery' = FlushEvery
           /\ DropMayForce' = DropMayForce /\ MaxBatches' = MaxBatches /\ NotSent' = NotSent
           /\ Window' = Window /\ NextBatch' = NextBatch /\ (RoomyWindow' <=> RoomyWindow)
BY DEF NoProgress, Grace, FlushEvery, DropMayForce, MaxBatches, NotSent, Window, NextBatch, RoomyWindow

\* watchdog_beat counts one up; either it flushes, or the next flush is one beat nearer.
LEMMA BeatFacts ==
    ASSUME TypeOK, progress_counter <= beat_ctr, Beat, timing' = timing
    PROVE  /\ beat_ctr' = beat_ctr + 1 /\ ToFlush \in 1..FlushEvery /\ ToFlush' \in 1..FlushEvery
           /\ \/ progress_counter' = beat_ctr' /\ progress_counter' > progress_counter /\ silent' = 0
              \/ UNCHANGED <<progress_counter, silent>> /\ ToFlush' = ToFlush - 1
<1>1. /\ beat_ctr \in Nat /\ progress_counter \in Nat /\ FlushEvery \in Nat \ {0}
      /\ FlushEvery' = FlushEvery /\ beat_ctr' = beat_ctr + 1
  BY Parameters, Frozen DEF TypeOK, Beat
<1>2. /\ (beat_ctr % FlushEvery) \in 0..(FlushEvery - 1)
      /\ (beat_ctr' % FlushEvery) \in 0..(FlushEvery - 1)
      /\ (beat_ctr' % FlushEvery) # 0 => (beat_ctr' % FlushEvery) = (beat_ctr % FlushEvery) + 1
  <2>1. /\ (beat_ctr % FlushEvery) \in 0..(FlushEvery - 1)
        /\ ((beat_ctr + 1) % FlushEvery) # 0 =>
              ((beat_ctr + 1) % FlushEvery) = (beat_ctr % FlushEvery) + 1
    BY <1>1, ModFacts
  <2>2. ((beat_ctr + 1) % FlushEvery) \in 0..(FlushEvery - 1)
    BY <1>1
  <2> QED
    BY <1>1, <2>1, <2>2, Zenon
<1>3. ToFlush \in 1..FlushEvery /\ ToFlush' \in 1..FlushEvery
  BY <1>1, <1>2 DEF ToFlush
<1>4. CASE beat_ctr' = 1 \/ (beat_ctr' % FlushEvery) = 0
  BY <1>1, <1>3, <1>4 DEF Beat
<1>5. CASE ~(beat_ctr' = 1 \/ (beat_ctr' % FlushEvery) = 0)
  <2>1. UNCHANGED <<progress_counter, silent>>
    BY <1>5 DEF Beat
  <2>2. ToFlush' = ToFlush - 1
    BY <1>1, <1>2, <1>5 DEF ToFlush
  <2> QED
    BY <1>1, <1>3, <2>1, <2>2
<1> QED
  BY <1>4, <1>5

\* At least one beat and at most FlushEvery are missing.
LEMMA ToFlushFacts == ASSUME TypeOK PROVE ToFlush \in 1..FlushEvery
<1>1. beat_ctr \in Nat /\ FlushEvery \in Nat \ {0}
  BY Parameters DEF TypeOK
<1>2. (beat_ctr % FlushEvery) \in 0..(FlushEvery - 1)
  BY <1>1, ModFacts
<1> QED
  BY <1>1, <1>2 DEF ToFlush

\* The budget is what its cases say, and at most one poll more than the window.
BudgetIs ==
    /\ Budget \in Nat /\ Budget <= Window + 1
    /\ kpc = "check" => Budget = ToFlush * OpTicks - age
    /\ kpc = "op" /\ left >= ToFlush => Budget = ToFlush * OpTicks - age
    /\ kpc = "op" /\ ~(left >= ToFlush) => Budget = left * OpTicks - age + OpTicks + 1 + NextBatch
    /\ kpc = "end" => Budget = OpTicks - age + 1 + NextBatch
    /\ kpc = "idle" => Budget = NextBatch + Idle
    /\ kpc \in {"unlaunched", "gone"} => Budget = 0
    /\ ToFlush \in 1..FlushEvery /\ ToFlush * OpTicks \in Nat /\ ToFlush * OpTicks <= NextBatch
    /\ Idle \in {0, 1} /\ left * OpTicks \in Int

LEMMA BudgetFacts == TypeOK /\ KernelInv => BudgetIs
<1> SUFFICES ASSUME TypeOK, KernelInv PROVE BudgetIs
  OBVIOUS
<1>1. /\ OpTicks \in Nat /\ age \in Nat /\ age <= OpTicks /\ NextBatch \in Nat
      /\ Window = 2 * NextBatch /\ FlushEvery \in Nat /\ left \in Nat /\ OpTicks <= NextBatch
  BY Parameters DEF TypeOK
<1>2. ToFlush \in 1..FlushEvery /\ Idle \in {0, 1}
  BY ToFlushFacts DEF Idle
<1>3. /\ 1 * OpTicks <= ToFlush * OpTicks /\ ToFlush * OpTicks <= NextBatch
      /\ ToFlush * OpTicks \in Int /\ left * OpTicks \in Int
  BY <1>1, <1>2, TimesFacts DEF NextBatch
<1>4. ASSUME kpc = "op", ~(left >= ToFlush)
      PROVE  1 * OpTicks <= left * OpTicks /\ left * OpTicks <= NextBatch - OpTicks
  <2>1. 1 <= left /\ left <= ToFlush - 1
    BY <1>1, <1>2, <1>4 DEF KernelInv
  <2>2. 1 * OpTicks <= left * OpTicks /\ left * OpTicks <= (ToFlush - 1) * OpTicks
    BY <1>1, <1>2, <2>1, TimesFacts
  <2>3. (ToFlush - 1) * OpTicks = ToFlush * OpTicks - OpTicks
    BY <1>1, <1>2, TimesFacts
  <2> QED
    BY <1>1, <1>3, <2>2, <2>3
<1>5. CASE kpc = "check" \/ (kpc = "op" /\ left >= ToFlush)
  BY <1>1, <1>2, <1>3, <1>5 DEF Budget, BudgetIs
<1>6. CASE kpc = "op" /\ ~(left >= ToFlush)
  BY <1>1, <1>2, <1>3, <1>4, <1>6 DEF Budget, BudgetIs
<1>7. CASE kpc \notin {"check", "op"}
  BY <1>1, <1>2, <1>3, <1>7 DEF Budget, BudgetIs
<1> QED
  BY <1>5, <1>6, <1>7

\* What a step of the kernel does to the budget: unless it flushes, it allows no more polls than before.
LEMMA KernelBudget ==
    ASSUME WatchdogInv, TypeOK', KernelInv', KernelNext, Healthy
    PROVE  \/ progress_counter' > progress_counter
           \/ progress_counter' = progress_counter /\ Budget' <= Budget
           \/ progress_counter' = progress_counter /\ kpc = "unlaunched" /\ Budget' <= Window
<1>1. TypeOK /\ KernelInv /\ CounterInv
  BY DEF WatchdogInv
<1>2. timing' = timing /\ wpc' = wpc /\ Idle' = Idle
  BY DEF KernelNext, StartBatch, LeaveForced, Begin, FinishOp, TopOfLoop, Wedge, thread, Idle
<1>3. /\ NextBatch' = NextBatch /\ Window' = Window /\ FlushEvery' = FlushEvery
      /\ NextBatch \in Nat \ {0} /\ OpTicks \in Nat \ {0} /\ OpTicks <= NextBatch
      /\ Window = 2 * NextBatch /\ FlushEvery \in Nat \ {0}
      /\ age \in Nat /\ age <= OpTicks /\ left \in Nat
  BY <1>1, <1>2, Frozen, Parameters DEF TypeOK
<1>4. BudgetIs
  BY <1>1, BudgetFacts
<1>5. BudgetIs'
  BY BudgetFacts, PTL
<1>6. ASSUME NEW n \in BatchSizes, StartBatch(n)
      PROVE  progress_counter' = progress_counter /\ Budget' <= Budget
  <2>1. kpc = "idle" /\ kpc' = "check" /\ age' = 0 /\ progress_counter' = progress_counter
    BY <1>6 DEF StartBatch
  <2>2. Budget = NextBatch + Idle /\ Idle \in {0, 1}
    BY <1>4, <2>1 DEF BudgetIs
  <2>3. Budget' \in Nat /\ Budget' <= NextBatch
    <3>1. Budget' = ToFlush' * OpTicks - 0 /\ ToFlush' * OpTicks \in Nat /\ ToFlush' * OpTicks <= NextBatch
      BY <1>3, <1>5, <2>1 DEF BudgetIs
    <3> QED
      BY <1>3, <3>1
  <2> QED
    BY <1>3, <2>1, <2>2, <2>3
<1>7. ASSUME Begin \/ FinishOp, ~(progress_counter' > progress_counter)
      PROVE  progress_counter' = progress_counter /\ Budget' <= Budget
  <2>1. /\ beat_ctr' = beat_ctr + 1 /\ ToFlush \in 1..FlushEvery /\ ToFlush' \in 1..FlushEvery
        /\ progress_counter' = progress_counter /\ ToFlush' = ToFlush - 1
    BY <1>1, <1>2, <1>7, BeatFacts DEF Begin, FinishOp, CounterInv
  <2>2. /\ ToFlush' * OpTicks = ToFlush * OpTicks - OpTicks
        /\ (left - 1) * OpTicks = left * OpTicks - OpTicks
        /\ ToFlush * OpTicks \in Int /\ left * OpTicks \in Int
    BY <1>3, <2>1, TimesFacts
  <2>3. CASE Begin
    <3>1. kpc = "check" /\ kpc' = "op" /\ age' = 0 /\ left' = left /\ left + 1 >= FlushEvery
      BY <1>1, <2>3 DEF Begin, KernelInv, Healthy, RoomyWindow
    <3>2. left' >= ToFlush'
      BY <1>3, <2>1, <3>1
    <3>3. Budget = ToFlush * OpTicks - age
      BY <1>4, <3>1 DEF BudgetIs
    <3>4. Budget' = ToFlush' * OpTicks - 0
      BY <1>5, <3>1, <3>2 DEF BudgetIs
    <3> QED
      BY <1>3, <2>1, <2>2, <3>3, <3>4
  <2>4. CASE FinishOp
    <3>1. /\ kpc = "op" /\ age' = 0 /\ left' = left - 1 /\ left >= 1
          /\ kpc' = IF left = 1 THEN "end" ELSE "op"
      BY <1>1, <2>4 DEF FinishOp, KernelInv
    <3>2. CASE left >= ToFlush
      <4>1. Budget = ToFlush * OpTicks - age /\ left # 1
        BY <1>3, <1>4, <2>1, <3>1, <3>2 DEF BudgetIs
      <4>2. left' >= ToFlush' /\ kpc' = "op"
        BY <1>3, <2>1, <3>1, <3>2, <4>1
      <4>3. Budget' = ToFlush' * OpTicks - 0
        BY <1>5, <3>1, <4>2 DEF BudgetIs
      <4> QED
        BY <1>3, <2>1, <2>2, <4>1, <4>3
    <3>3. CASE ~(left >= ToFlush)
      <4>1. Budget = left * OpTicks - age + OpTicks + 1 + NextBatch
        BY <1>4, <3>1, <3>3 DEF BudgetIs
      <4>2. CASE left = 1
        <5>1. Budget' = OpTicks - 0 + 1 + NextBatch
          BY <1>3, <1>5, <3>1, <4>2 DEF BudgetIs
        <5> QED
          BY <1>3, <2>1, <4>1, <4>2, <5>1
      <4>3. CASE left # 1
        <5>1. ~(left' >= ToFlush') /\ kpc' = "op"
          BY <1>3, <2>1, <3>1, <3>3, <4>3
        <5>2. Budget' = left' * OpTicks - 0 + OpTicks + 1 + NextBatch
          BY <1>3, <1>5, <3>1, <5>1 DEF BudgetIs
        <5> QED
          BY <1>3, <2>1, <2>2, <3>1, <4>1, <5>2
      <4> QED
        BY <4>2, <4>3
    <3> QED
      BY <3>2, <3>3
  <2> QED
    BY <1>7, <2>3, <2>4
<1>8. ASSUME TopOfLoop
      PROVE  progress_counter' = progress_counter /\ (Budget' <= Budget \/ (kpc = "unlaunched" /\ Budget' <= Window))
  <2>1. kpc \in {"unlaunched", "end"} /\ kpc' = "idle" /\ progress_counter' = progress_counter
    BY <1>8 DEF TopOfLoop
  <2>2. Budget' = NextBatch + Idle /\ Idle \in {0, 1}
    BY <1>2, <1>3, <1>4, <1>5, <2>1 DEF BudgetIs
  <2>3. kpc = "end" => Budget = OpTicks - age + 1 + NextBatch
    BY <1>4 DEF BudgetIs
  <2> QED
    BY <1>3, <2>1, <2>2, <2>3
<1>9. ASSUME LeaveForced PROVE progress_counter' = progress_counter /\ Budget' <= Budget
  <2>1. kpc' = "gone" /\ progress_counter' = progress_counter
    BY <1>9 DEF LeaveForced, state
  <2>2. Budget' = 0 /\ Budget \in Nat
    BY <1>4, <1>5, <2>1 DEF BudgetIs
  <2> QED
    BY <2>1, <2>2
<1>10. ASSUME Wedge PROVE progress_counter' = progress_counter /\ Budget' <= Budget
  <2>1. UNCHANGED <<timing, progress_counter, kpc, left, beat_ctr, age>>
    BY <1>10 DEF Wedge, state
  <2>2. Budget' = Budget /\ Budget \in Nat
    BY <1>2, <1>3, <1>4, <2>1 DEF Budget, ToFlush, BudgetIs
  <2> QED
    BY <2>1, <2>2
<1> QED
  BY <1>6, <1>7, <1>8, <1>9, <1>10 DEF KernelNext

\* A step of the kernel, or of Drop
LEMMA KernelStep ==
    ASSUME WatchdogInv, KernelNext \/ ForceExitAll
    PROVE  WatchdogInv'
<1>1. TypeOK /\ CounterInv /\ SilenceInv /\ KernelInv /\ HealthyInv
  BY DEF WatchdogInv
<1>2. /\ timing' = timing
      /\ UNCHANGED <<wpc, counter, seen_exited, last_progress, has_started, stall, sent>>
      /\ wedged => wedged'
  BY DEF KernelNext, StartBatch, LeaveForced, Begin, FinishOp, TopOfLoop, Wedge, ForceExitAll, thread, kernel
<1>3. /\ NoProgress \in Nat \ {0} /\ Grace \in Nat /\ NotSent = Grace + 1 /\ MaxBatches \in Nat
      /\ NoProgress' = NoProgress /\ Grace' = Grace /\ NotSent' = NotSent /\ MaxBatches' = MaxBatches
      /\ Window' = Window /\ Window \in Nat /\ (Healthy' => Healthy)
      /\ BatchSizes \subseteq Nat \ {0} /\ OpTicks \in Nat \ {0}
      /\ DropMayForce' = DropMayForce
  BY <1>1, <1>2, Frozen, Parameters DEF Healthy
<1>4. /\ \/ progress_counter' > progress_counter /\ silent' = 0
         \/ UNCHANGED <<progress_counter, silent>>
      /\ progress_counter' <= beat_ctr' /\ progress_counter' \in Nat /\ beat_ctr' \in Nat
  <2>1. CASE Begin \/ FinishOp
    <3>1. /\ beat_ctr' = beat_ctr + 1
          /\ \/ progress_counter' = beat_ctr' /\ progress_counter' > progress_counter /\ silent' = 0
             \/ UNCHANGED <<progress_counter, silent>>
      BY <1>1, <1>2, <2>1, BeatFacts DEF Begin, FinishOp, CounterInv
    <3> QED
      BY <1>1, <3>1 DEF TypeOK, CounterInv
  <2>2. CASE ~(Begin \/ FinishOp)
    BY <1>1, <2>2 DEF KernelNext, StartBatch, LeaveForced, TopOfLoop, Wedge, ForceExitAll, TypeOK, CounterInv,
                      state, kernel
  <2> QED
    BY <2>1, <2>2
<1>5. TypeOK'
  <2>1. /\ force_exit' \in {0, 1} /\ exited' \in {0, 1}
        /\ kpc' \in {"unlaunched", "idle", "check", "op", "end", "gone"}
    BY <1>1 DEF KernelNext, StartBatch, LeaveForced, Begin, FinishOp, TopOfLoop, Wedge, ForceExitAll, TypeOK,
                state, kernel
  <2>2. left' \in Nat
    BY <1>1, <1>3 DEF KernelNext, StartBatch, LeaveForced, Begin, FinishOp, TopOfLoop, Wedge, ForceExitAll,
                      TypeOK, KernelInv, kernel
  <2>3. age' \in 0..OpTicks /\ batches' \in 0..MaxBatches
    BY <1>1, <1>3 DEF KernelNext, StartBatch, LeaveForced, Begin, FinishOp, TopOfLoop, Wedge, ForceExitAll,
                      TypeOK, kernel
  <2>4. wedged' \in BOOLEAN
    BY <1>1 DEF KernelNext, StartBatch, LeaveForced, Begin, FinishOp, TopOfLoop, Wedge, ForceExitAll, TypeOK,
                kernel
  <2>5. silent' \in 0..(NoProgress + Grace)
    BY <1>1, <1>3, <1>4 DEF TypeOK
  <2> QED
    BY <1>1, <1>2, <1>3, <1>4, <2>1, <2>2, <2>3, <2>4, <2>5 DEF TypeOK
<1>6. CounterInv'
  BY <1>1, <1>2, <1>4 DEF CounterInv, TypeOK
<1>7. SilenceInv'
  BY <1>1, <1>2, <1>3, <1>4 DEF SilenceInv, CounterInv, TypeOK
<1>8. KernelInv'
  BY <1>1, <1>2, <1>3 DEF KernelNext, StartBatch, LeaveForced, Begin, FinishOp, TopOfLoop, Wedge, ForceExitAll,
                          TypeOK, KernelInv, kernel, state
<1>9. ASSUME Healthy' PROVE WithinWindow'
  <2>1. WithinWindow /\ Healthy /\ KernelNext
    BY <1>1, <1>3, <1>9 DEF HealthyInv, Healthy, ForceExitAll
  <2>2. force_exit' = 0 /\ kpc' # "gone"
    BY <2>1 DEF KernelNext, StartBatch, LeaveForced, Begin, FinishOp, TopOfLoop, Wedge, WithinWindow, state
  <2>3. BudgetIs /\ BudgetIs'
    BY <1>1, <1>5, <1>8, BudgetFacts, PTL
  <2>4. Budget \in Nat /\ Budget' \in Nat
    BY <2>3 DEF BudgetIs
  <2>5. \/ progress_counter' > progress_counter
        \/ progress_counter' = progress_counter /\ Budget' <= Budget
        \/ progress_counter' = progress_counter /\ ~has_started /\ Budget' <= Window
    BY <1>1, <1>5, <1>8, <2>1, KernelBudget DEF KernelInv
  <2>6. counter \in Nat /\ last_progress \in Nat /\ progress_counter \in Nat /\ stall \in Nat
        /\ counter <= progress_counter /\ last_progress <= progress_counter
    BY <1>1 DEF TypeOK, CounterInv
  <2>7. (has_started' <=> has_started) /\ sent' = NotSent' /\ wpc' \in {"sleep", "read", "judge"}
    BY <1>2, <1>3, <2>1, Zenon DEF WithinWindow
  <2>8. UNCHANGED <<wpc, counter, seen_exited, last_progress, stall>>
    BY <1>2
  <2>9. ASSUME wpc' # "sleep", counter' = progress_counter' PROVE Budget' <= Window'
    BY <1>3, <2>1, <2>4, <2>5, <2>6, <2>8, <2>9 DEF WithinWindow
  <2>10. ASSUME has_started', wpc' = "sleep", last_progress' = progress_counter'
         PROVE  stall' + Budget' <= Window'
    <3>1. \/ progress_counter' > progress_counter
          \/ progress_counter' = progress_counter /\ Budget' <= Budget
      BY <2>5, <2>7, <2>10, Zenon
    <3>2. last_progress = progress_counter => stall + Budget <= Window
      BY <2>1, <2>7, <2>8, <2>10 DEF WithinWindow
    <3>3. progress_counter' \in Nat /\ last_progress' = last_progress /\ stall' = stall /\ Window' = Window
          /\ Window \in Nat
      BY <1>3, <1>4, <2>8
    <3>4. CASE progress_counter' > progress_counter
      BY <2>6, <2>10, <3>3, <3>4
    <3>5. CASE progress_counter' = progress_counter /\ Budget' <= Budget
      <4>1. stall + Budget <= Window
        BY <2>10, <3>2, <3>3, <3>5
      <4>2. stall + Budget' <= Window
        BY <2>4, <2>6, <3>3, <3>5, <4>1, SumBound
      <4> QED
        BY <3>3, <4>2
    <3> QED
      BY <3>1, <3>4, <3>5
  <2>11. ASSUME has_started', wpc' = "read" \/ (wpc' = "judge" /\ seen_exited' = 0), counter' = last_progress'
         PROVE  stall' <= Window' /\ (counter' = progress_counter' => stall' + Budget' <= Window')
    <3>1. stall <= Window /\ (counter = progress_counter => stall + Budget <= Window)
      BY <2>1, <2>7, <2>8, <2>11 DEF WithinWindow
    <3>2. \/ progress_counter' > progress_counter
          \/ progress_counter' = progress_counter /\ Budget' <= Budget
      BY <2>5, <2>7, <2>11, Zenon
    <3>3. /\ progress_counter' \in Nat /\ counter' = counter /\ stall' = stall /\ Window' = Window
          /\ Window \in Nat
      BY <1>3, <1>4, <2>8
    <3>4. CASE progress_counter' > progress_counter
      BY <2>6, <3>1, <3>3, <3>4
    <3>5. CASE progress_counter' = progress_counter /\ Budget' <= Budget
      <4>1. counter' = progress_counter' => stall + Budget <= Window
        BY <3>1, <3>3, <3>5
      <4>2. stall + Budget <= Window => stall + Budget' <= Window
        BY <2>4, <2>6, <3>3, <3>5, SumBound
      <4> QED
        BY <3>1, <3>3, <4>1, <4>2
    <3> QED
      BY <3>2, <3>4, <3>5
  <2> QED
    BY <2>2, <2>7, <2>9, <2>10, <2>11 DEF WithinWindow
<1> QED
  BY <1>5, <1>6, <1>7, <1>8, <1>9 DEF WatchdogInv, HealthyInv

\* A step of the host thread
LEMMA ThreadStep ==
    ASSUME WatchdogInv, ThreadNext
    PROVE  WatchdogInv'
<1>1. TypeOK /\ CounterInv /\ SilenceInv /\ KernelInv /\ HealthyInv
  BY DEF WatchdogInv
<1>2. /\ UNCHANGED <<timing, exited, progress_counter, kpc, left, beat_ctr, wedged, batches>>
      /\ wpc # "sleep" => UNCHANGED <<age, silent>>
  BY DEF ThreadNext, ReadCounter, ReadExited, JudgeIdle, JudgeProgress, KeepWaiting, SendForceExit, Recovered,
         Quiesce, Abort, NoNews, Stalled, state, kernel
<1>3. /\ NoProgress \in Nat \ {0} /\ Grace \in Nat /\ NotSent = Grace + 1
      /\ NoProgress' = NoProgress /\ Grace' = Grace /\ NotSent' = NotSent /\ MaxBatches' = MaxBatches
      /\ Window' = Window /\ Window \in Nat /\ (Healthy' <=> Healthy)
      /\ Healthy => NoProgress > Window
      /\ NextBatch' = NextBatch /\ NextBatch \in Nat \ {0} /\ Window = 2 * NextBatch /\ OpTicks \in Nat \ {0}
  BY <1>1, <1>2, Frozen, Parameters DEF Healthy, RoomyWindow
<1>4. /\ progress_counter \in Nat /\ counter \in Nat /\ last_progress \in Nat
      /\ last_progress <= progress_counter /\ counter <= progress_counter
      /\ wpc \in {"read", "judge"} => last_progress <= counter
      /\ stall \in 0..NoProgress /\ sent \in 0..NotSent /\ silent \in 0..(NoProgress + Grace)
      /\ age \in 0..OpTicks
  BY <1>1 DEF TypeOK, CounterInv
<1>5. ReadCounter => TypeOK' /\ CounterInv' /\ SilenceInv'
  <2> SUFFICES ASSUME ReadCounter PROVE TypeOK' /\ CounterInv' /\ SilenceInv'
    OBVIOUS
  <2>1. /\ counter' = progress_counter /\ wpc' = "read" /\ age' \in 0..OpTicks
        /\ stall' \in 0..NoProgress /\ sent' \in 0..NotSent /\ silent' \in 0..(NoProgress + Grace)
    BY <1>3, <1>4 DEF ReadCounter, CountUpTo
  <2>2. TypeOK'
    BY <1>1, <1>2, <1>3, <1>4, <2>1 DEF ReadCounter, TypeOK, state
  <2>3. CounterInv'
    BY <1>1, <1>2, <1>4, <2>1 DEF ReadCounter, CounterInv
  <2>4. SilenceInv'
    BY <1>1, <1>2, <1>3, <1>4 DEF ReadCounter, SilenceInv, CountUpTo
  <2> QED
    BY <2>2, <2>3, <2>4
<1>6. ~ReadCounter => TypeOK' /\ CounterInv' /\ SilenceInv'
  <2> SUFFICES ASSUME ~ReadCounter PROVE TypeOK' /\ CounterInv' /\ SilenceInv'
    OBVIOUS
  <2>0. wpc # "sleep" /\ UNCHANGED <<age, silent>>
    BY <1>2 DEF ThreadNext, ReadExited, JudgeIdle, JudgeProgress, KeepWaiting, SendForceExit, Recovered, Quiesce,
         Abort, NoNews, Stalled
  <2>1. /\ force_exit' \in {0, 1} /\ wpc' \in {"sleep", "read", "judge", "quiesce", "aborted"}
        /\ counter' = counter /\ seen_exited' \in {0, 1} /\ last_progress' \in Nat
        /\ stall' \in 0..NoProgress /\ sent' \in 0..NotSent
    BY <1>1, <1>3, <1>4 DEF ThreadNext, ReadExited, JudgeIdle, JudgeProgress, KeepWaiting, SendForceExit,
         Recovered, Quiesce, Abort, TypeOK, state
  <2>2. has_started' \in BOOLEAN
    BY <1>1 DEF ThreadNext, ReadExited, JudgeIdle, JudgeProgress, KeepWaiting, SendForceExit,
         Recovered, Quiesce, Abort, TypeOK
  <2>3. TypeOK'
    BY <1>1, <1>2, <1>3, <1>4, <2>0, <2>1, <2>2 DEF TypeOK
  <2>4. CounterInv'
    BY <1>1, <1>2, <1>4, <2>1 DEF ThreadNext, ReadExited, JudgeIdle, JudgeProgress, KeepWaiting, SendForceExit,
         Recovered, Quiesce, Abort, CounterInv
  <2>5. SilenceInv'
    BY <1>1, <1>2, <1>3, <1>4, <2>0 DEF ThreadNext, ReadExited, JudgeIdle, JudgeProgress, KeepWaiting, SendForceExit,
         Recovered, Quiesce, Abort, SilenceInv, Stalled, NoNews
  <2> QED
    BY <2>3, <2>4, <2>5
<1>7. KernelInv'
  <2>1. ASSUME kpc = "unlaunched" PROVE ~has_started'
    <3>1. ~JudgeProgress
      BY <1>1, <1>4, <2>1 DEF JudgeProgress, KernelInv
    <3> QED
      BY <1>1, <2>1, <3>1 DEF ThreadNext, ReadCounter, ReadExited, JudgeIdle, KeepWaiting, SendForceExit,
         Recovered, Quiesce, Abort, KernelInv
  <2> QED
    BY <1>1, <1>2, <2>1 DEF KernelInv
<1>8. ASSUME Healthy' PROVE WithinWindow'
  <2>1. WithinWindow /\ Healthy /\ BudgetIs
    BY <1>1, <1>3, <1>8, BudgetFacts DEF HealthyInv
  <2>2. BudgetIs'
    BY <1>5, <1>6, <1>7, BudgetFacts, PTL
  <2>3. /\ Budget \in Nat /\ Budget <= Window + 1 /\ Budget' \in Nat
        /\ wpc' # "read" /\ wpc # "read" /\ UNCHANGED age => Budget' = Budget
    BY <1>2, <1>3, <2>1, <2>2 DEF BudgetIs, Budget, ToFlush, Idle, FlushEvery
  <2>4. force_exit = 0 /\ sent = NotSent /\ wpc \in {"sleep", "read", "judge"} /\ kpc # "gone"
    BY <2>1 DEF WithinWindow
  <2>5. CASE ReadCounter
    <3>1. /\ wpc = "sleep" /\ wpc' = "read" /\ counter' = progress_counter
          /\ UNCHANGED <<force_exit, last_progress, has_started, seen_exited>>
          /\ kpc \in {"check", "op", "end"} => age' = age + 1
          /\ stall' <= stall + 1 /\ stall' \in Nat /\ stall \in Nat /\ sent' = NotSent'
      BY <1>3, <1>4, <2>1, <2>4, <2>5 DEF ReadCounter, CountUpTo, Healthy, state
    <3>2. kpc # "unlaunched" => Budget = Budget' + 1
      <4>1. ToFlush' = ToFlush
        BY <1>2, Frozen DEF ToFlush
      <4> QED
        BY <1>1, <1>2, <1>3, <1>4, <2>1, <2>4, <3>1, <4>1 DEF BudgetIs, Budget, Idle, TypeOK
    <3>3. kpc = "unlaunched" => Budget' = 0
      BY <1>2, <2>2 DEF BudgetIs
    <3>4. Budget' <= Window
      <4>1. CASE kpc = "unlaunched"
        BY <1>3, <3>3, <4>1
      <4>2. CASE kpc # "unlaunched"
        <5>1. Budget' + 1 <= Window + 1 /\ Budget' \in Nat /\ Window \in Nat
          BY <1>3, <2>3, <3>2, <4>2
        <5> QED
          BY <5>1, PollBound
      <4> QED
        BY <4>1, <4>2
    <3>5. ASSUME has_started', counter' = last_progress'
          PROVE  stall' <= Window' /\ stall' + Budget' <= Window'
      <4>1. kpc # "unlaunched" /\ stall + Budget <= Window
        BY <1>1, <2>1, <3>1, <3>5 DEF WithinWindow, KernelInv
      <4>2. stall + 1 + Budget' <= Window
        BY <2>3, <3>1, <3>2, <4>1
      <4>3. stall' <= Window /\ stall' + Budget' <= Window
        <5>1. stall \in Nat /\ stall' \in Nat /\ Budget' \in Nat /\ Window \in Nat /\ stall' <= stall + 1
          BY <1>3, <2>3, <3>1
        <5> QED
          BY <4>2, <5>1, PollBound
      <4> QED
        BY <1>3, <4>3
    <3> QED
      BY <1>2, <1>3, <2>4, <3>1, <3>4, <3>5 DEF WithinWindow
  <2>6. CASE ReadExited
    <3>1. /\ wpc = "read" /\ wpc' = "judge" /\ seen_exited' = exited
          /\ UNCHANGED <<force_exit, counter, last_progress, has_started, stall, sent, age>>
      BY <2>6 DEF ReadExited, state, kernel
    <3>2. ASSUME kpc = "idle" PROVE Budget' <= Window' /\ seen_exited' # 0
      <4>1. Budget' = NextBatch + Idle' /\ Idle' \in {0, 1}
        BY <1>2, <1>3, <2>2, <3>2 DEF BudgetIs
      <4>2. NextBatch + 0 <= Window /\ NextBatch + 1 <= Window
        BY <1>3
      <4>3. Budget' <= Window'
        BY <1>3, <4>1, <4>2
      <4>4. seen_exited' # 0
        BY <1>1, <3>1, <3>2 DEF KernelInv
      <4> QED
        BY <4>3, <4>4
    <3>3. kpc # "idle" => Budget' = Budget
      BY <1>2, <1>3, <2>1, <3>1, Frozen DEF Budget, ToFlush
    <3> QED
      BY <1>2, <1>3, <2>1, <2>4, <3>1, <3>2, <3>3 DEF WithinWindow
  <2>7. CASE JudgeIdle
    <3>1. /\ wpc = "judge" /\ wpc' = "sleep" /\ last_progress' = counter /\ stall' = 0 /\ sent' = NotSent
          /\ UNCHANGED <<force_exit, counter, age>>
      BY <2>7 DEF JudgeIdle, state, kernel
    <3> QED
      BY <1>2, <1>3, <2>1, <2>3, <2>4, <3>1 DEF WithinWindow
  <2>8. CASE JudgeProgress
    <3>1. /\ wpc = "judge" /\ wpc' = "sleep" /\ last_progress' = counter /\ stall' = 0 /\ sent' = NotSent
          /\ UNCHANGED <<force_exit, counter, age>>
      BY <2>8 DEF JudgeProgress, state, kernel
    <3> QED
      BY <1>2, <1>3, <2>1, <2>3, <2>4, <3>1 DEF WithinWindow
  <2>9. CASE KeepWaiting
    <3>1. /\ wpc = "judge" /\ wpc' = "sleep" /\ seen_exited = 0 /\ counter = last_progress
          /\ UNCHANGED <<force_exit, counter, last_progress, has_started, stall, sent, age>>
      BY <1>4, <2>9 DEF KeepWaiting, NoNews, state, kernel
    <3>2. Budget' = Budget
      BY <2>3, <3>1
    <3> QED
      BY <1>2, <1>3, <2>1, <2>4, <3>1, <3>2 DEF WithinWindow
  <2>10. ~SendForceExit /\ ~Recovered /\ ~Quiesce /\ ~Abort
    <3>1. ~Stalled
      <4>1. SUFFICES ASSUME Stalled PROVE FALSE
        OBVIOUS
      <4>2. /\ wpc = "judge" /\ seen_exited = 0 /\ has_started /\ stall >= NoProgress /\ counter = last_progress
        BY <1>4, <4>1 DEF Stalled, NoNews
      <4>3. stall <= Window
        BY <2>1, <4>2 DEF WithinWindow
      <4> QED
        BY <1>3, <1>4, <2>1, <4>2, <4>3
    <3> QED
      BY <2>4, <3>1 DEF SendForceExit, Recovered, Quiesce, Abort
  <2> QED
    BY <2>5, <2>6, <2>7, <2>8, <2>9, <2>10 DEF ThreadNext
<1> QED
  BY <1>5, <1>6, <1>7, <1>8 DEF WatchdogInv, HealthyInv

\* The invariant holds when register returns.
LEMMA InitWatchdog == Init => WatchdogInv
<1> SUFFICES ASSUME Init PROVE WatchdogInv
  OBVIOUS
<1>1. timing \in Timing
  BY TimingAssumption DEF Init
<1>2. NoProgress \in Nat \ {0} /\ Grace \in Nat /\ MaxBatches \in Nat /\ NotSent = Grace + 1
  BY <1>1 DEF Timing, NoProgress, Grace, MaxBatches, NotSent
<1>3. TypeOK
  <2>1. 0 \in 0..OpTicks /\ 0 \in 0..MaxBatches /\ 0 \in 0..NoProgress /\ NotSent \in 0..NotSent
        /\ 0 \in 0..(NoProgress + Grace)
    BY <1>2, TimingAssumption
  <2> QED
    BY <2>1 DEF Init, TypeOK
<1>4. CounterInv /\ SilenceInv /\ KernelInv
  BY <1>2 DEF Init, CounterInv, SilenceInv, KernelInv
<1>5. HealthyInv
  BY DEF Init, HealthyInv, WithinWindow
<1> QED
  BY <1>3, <1>4, <1>5 DEF WatchdogInv

\* Beats of the kernel, timers of the watchdog thread and the silence they measure agree in every
\* reachable state (watchdog_beat, watchdog_init, the poll loop of watchdog.rs).
THEOREM WatchdogInvariant == Spec => []WatchdogInv
<1>1. Init => WatchdogInv
  BY InitWatchdog
<1>2. WatchdogInv /\ [Next]_vars => WatchdogInv'
  <2>1. ASSUME WatchdogInv, UNCHANGED vars PROVE WatchdogInv'
    <3>1. UNCHANGED <<timing, force_exit, exited, progress_counter, kpc, left, beat_ctr, age, wedged, batches,
                      wpc, counter, seen_exited, last_progress, has_started, stall, sent, silent>>
      BY <2>1 DEF vars, state, kernel, thread
    <3>2. Budget' = Budget
      BY <3>1, Frozen DEF Budget, ToFlush, Idle
    <3>3. TypeOK'
      BY <2>1, <3>1, Frozen DEF WatchdogInv, TypeOK
    <3>4. CounterInv' /\ SilenceInv' /\ KernelInv'
      BY <2>1, <3>1, Frozen DEF WatchdogInv, CounterInv, SilenceInv, KernelInv
    <3>5. HealthyInv'
      BY <2>1, <3>1, <3>2, Frozen DEF WatchdogInv, HealthyInv, Healthy, WithinWindow
    <3> QED
      BY <3>3, <3>4, <3>5 DEF WatchdogInv
  <2> QED
    BY <2>1, KernelStep, ThreadStep DEF Next
<1> QED
  BY <1>1, <1>2, PTL DEF Spec

\* A kernel whose operations all end within OpTicks polls is never sent force_exit by the watchdog,
\* provided that no_progress_ms exceeds Window and every batch is long enough to flush a beat.
THEOREM HealthyTheorem == Spec => []HealthyKernelIsLeftAlone
<1>1. WatchdogInv => HealthyKernelIsLeftAlone
  BY DEF WatchdogInv, HealthyInv, Healthy, WithinWindow, HealthyKernelIsLeftAlone
<1> QED
  BY <1>1, WatchdogInvariant, PTL

\* The poll loop goes from force_exit to quiesce and abort only for a kernel from which nothing was
\* flushed for no_progress_ms + grace_ms.
THEOREM EscalationTheorem == Spec => EscalationFollowsSilence
<1>1. ASSUME WatchdogInv, [Next]_vars, wpc # "quiesce", wpc' = "quiesce"
      PROVE  silent >= NoProgress + Grace
  <2>1. Quiesce
    BY <1>1 DEF Next, KernelNext, StartBatch, LeaveForced, Begin, FinishOp, TopOfLoop, Wedge, ForceExitAll,
                ThreadNext, ReadCounter, ReadExited, JudgeIdle, JudgeProgress, KeepWaiting, SendForceExit,
                Recovered, Abort, vars, thread
  <2>2. TypeOK /\ CounterInv /\ SilenceInv
    BY <1>1 DEF WatchdogInv
  <2>3. wpc = "judge" /\ sent = Grace /\ progress_counter = counter /\ counter <= last_progress
    BY <2>1 DEF Quiesce, Stalled, NoNews
  <2>4. last_progress = progress_counter
    BY <2>2, <2>3 DEF TypeOK, CounterInv
  <2>5. sent # NotSent /\ NoProgress + sent = NoProgress + Grace
    BY <2>2, <2>3, Parameters
  <2> QED
    BY <2>2, <2>4, <2>5 DEF SilenceInv
<1>2. WatchdogInv /\ [Next]_vars =>
         [wpc # "quiesce" /\ wpc' = "quiesce" => silent >= NoProgress + Grace]_vars
  BY <1>1
<1> QED
  BY <1>2, WatchdogInvariant, PTL DEF Spec, EscalationFollowsSilence
=============================================================================
