------------------------ MODULE PersistentWorkerProofs ------------------------
(***************************************************************************)
(* Proofs about the mailbox protocol for any number of blocks, any batch   *)
(* size and any program lengths: WorkerInv is inductive as long as fired   *)
(* programs fit one batch, and it yields the dispatcher's promises.        *)
(***************************************************************************)
EXTENDS PersistentWorker, TLAPS

\* A chunk is never longer than the batch buffer nor than what is left, and
\* never empty while something is left.
LEMMA ChunkLenFacts ==
    ASSUME plen \in Nat, off \in 0..plen
    PROVE  /\ ChunkLen \in 0..MaxBatch
           /\ ChunkLen <= plen - off
           /\ off < plen => ChunkLen >= 1
           /\ plen <= MaxBatch => ChunkLen = plen - off
BY BoundsAssumption DEF ChunkLen

\* A fresh sequence number differs from the previous one, from 0 and from the
\* reserved value, also where the counter rolls over.
LEMMA NextSeqFacts ==
    ASSUME NEW s \in 0..SeqLimit
    PROVE  NextSeq(s) \in 1..(SeqLimit - 1) /\ NextSeq(s) # s
<1>1. SeqLimit \in Nat /\ SeqLimit >= 3
  BY BoundsAssumption
<1>2. CASE s = SeqLimit
  <2>1. (s + 1) % (SeqLimit + 1) = 0
    BY <1>1, <1>2
  <2>2. QED
    BY <1>1, <1>2, <2>1 DEF NextSeq
<1>3. CASE s < SeqLimit
  <2>1. (s + 1) % (SeqLimit + 1) = s + 1
    BY <1>1, <1>3
  <2>2. QED
    BY <1>1, <1>3, <2>1 DEF NextSeq
<1>4. QED
  BY <1>1, <1>2, <1>3

\* The launch state of add_device satisfies the invariant.
LEMMA InitWorkerInv == Init => WorkerInv
<1> SUFFICES ASSUME Init PROVE WorkerInv
  OBVIOUS
<1> USE BlocksAssumption, BoundsAssumption DEF Init, Quiet, Pending
<1>1. MailboxType
  <2>1. 0 \in 0..SeqLimit /\ 0 \in 0..MaxBatch
    OBVIOUS
  <2>2. inst \in [0..(MaxBatch - 1) -> Nat]
    OBVIOUS
  <2> QED
    BY <2>1, <2>2, Zenon DEF MailboxType
<1>2. HostType
  <2>1. 0 \in 0..SeqLimit /\ 0 \in 0..MaxBatch /\ 0 \in 0..0 /\ 0 \in Nat
    OBVIOUS
  <2> QED
    BY <2>1, Zenon DEF HostType
<1>3. KernelType
  BY DEF KernelType
<1>4. PhaseAgreement
  BY DEF PhaseAgreement
<1>5. HostPhase
  BY DEF ChunkLen, HostPhase
<1>6. BatchInMailbox
  BY DEF BatchInMailbox
<1>7. AtRest
  BY DEF AtRest
<1>8. InFlight
  BY DEF InFlight, Progress
<1>9. DoneInv
  BY DEF DoneInv
<1> QED
  BY <1>1, <1>2, <1>3, <1>4, <1>5, <1>6, <1>7, <1>8, <1>9 DEF WorkerInv, TypeOK

\* The host's steps: dispatch_batch_with_base, dispatch_batch_fire, the waits
\* and the phases of Drop.
LEMMA HostStep ==
    ASSUME SingleBatchFires, WorkerInv, HostNext
    PROVE  WorkerInv'
<1> USE BlocksAssumption, BoundsAssumption
        DEF WorkerInv, TypeOK, mailbox, hostVars, blockVars, flags,
            Pending, Quiet, Reading, Working
<1>1. ASSUME NEW n \in SlicePrograms, StartProgram("slice", n) PROVE WorkerInv'
  <2>1. MailboxType'
    BY <1>1 DEF StartProgram, MailboxType
  <2>2. HostType'
    BY <1>1 DEF StartProgram, HostType
  <2>3. KernelType'
    BY <1>1 DEF StartProgram, KernelType
  <2>4. PhaseAgreement'
    BY <1>1 DEF StartProgram, PhaseAgreement
  <2>5. HostPhase'
    BY <1>1 DEF StartProgram, ChunkLen, HostPhase
  <2>6. BatchInMailbox'
    BY <1>1 DEF StartProgram, HostPhase, BatchInMailbox
  <2>7. AtRest'
    BY <1>1 DEF StartProgram, AtRest
  <2>8. InFlight'
    BY <1>1 DEF StartProgram, InFlight, Progress
  <2>9. DoneInv'
    BY <1>1 DEF StartProgram, DoneInv
  <2> QED
    BY <2>1, <2>2, <2>3, <2>4, <2>5, <2>6, <2>7, <2>8, <2>9 DEF WorkerInv, TypeOK
<1>2. ASSUME NEW n \in FirePrograms, StartProgram("fire", n) PROVE WorkerInv'
  <2>1. MailboxType'
    BY <1>2 DEF StartProgram, SingleBatchFires, MailboxType
  <2>2. HostType'
    BY <1>2 DEF StartProgram, SingleBatchFires, HostType
  <2>3. KernelType'
    BY <1>2 DEF StartProgram, SingleBatchFires, KernelType
  <2>4. PhaseAgreement'
    BY <1>2 DEF StartProgram, SingleBatchFires, PhaseAgreement
  <2>5. HostPhase'
    BY <1>2 DEF StartProgram, ChunkLen, SingleBatchFires, HostPhase
  <2>6. BatchInMailbox'
    BY <1>2 DEF StartProgram, HostPhase, BatchInMailbox
  <2>7. AtRest'
    BY <1>2 DEF StartProgram, SingleBatchFires, AtRest
  <2>8. InFlight'
    BY <1>2 DEF StartProgram, SingleBatchFires, InFlight, Progress
  <2>9. DoneInv'
    BY <1>2 DEF StartProgram, SingleBatchFires, DoneInv
  <2> QED
    BY <2>1, <2>2, <2>3, <2>4, <2>5, <2>6, <2>7, <2>8, <2>9 DEF WorkerInv, TypeOK
<1>3. ASSUME WriteInst PROVE WorkerInv'
  <2>1. MailboxType'
    BY <1>3 DEF WriteInst, ChunkLen, MailboxType, HostType, KernelType
  <2>2. HostType'
    BY <1>3 DEF WriteInst, ChunkLen, HostType
  <2>3. KernelType'
    BY <1>3 DEF WriteInst, ChunkLen, KernelType
  <2>4. PhaseAgreement'
    BY <1>3 DEF WriteInst, ChunkLen, PhaseAgreement
  <2>5. HostPhase'
    <3>1. ChunkLen \in 0..MaxBatch /\ ChunkLen' = ChunkLen
      BY <1>3, ChunkLenFacts DEF WriteInst, HostType, ChunkLen
    <3>2. wi \in 0..(MaxBatch - 1) /\ wi + 1 <= ChunkLen
      BY <1>3, <3>1 DEF WriteInst, HostType
    <3>3. ASSUME NEW i \in 0..(wi' - 1) PROVE inst'[i] = sent' + i + 1
      BY <1>3, <3>2 DEF WriteInst, HostType, MailboxType, HostPhase
    <3> QED
      BY <1>3, <3>1, <3>2, <3>3 DEF WriteInst, HostType, HostPhase
  <2>6. BatchInMailbox'
    BY <1>3 DEF WriteInst, HostPhase, BatchInMailbox
  <2>7. AtRest'
    BY <1>3 DEF WriteInst, ChunkLen, AtRest
  <2>8. InFlight'
    BY <1>3 DEF WriteInst, ChunkLen, InFlight, Progress
  <2>9. DoneInv'
    BY <1>3 DEF WriteInst, ChunkLen, DoneInv
  <2> QED
    BY <2>1, <2>2, <2>3, <2>4, <2>5, <2>6, <2>7, <2>8, <2>9 DEF WorkerInv, TypeOK
<1>4. ASSUME WriteHeader PROVE WorkerInv'
  <2>1. MailboxType'
    BY <1>4 DEF WriteHeader, ChunkLen, MailboxType, HostType, KernelType
  <2>2. HostType'
    BY <1>4 DEF WriteHeader, ChunkLen, HostType
  <2>3. KernelType'
    BY <1>4 DEF WriteHeader, ChunkLen, KernelType
  <2>4. PhaseAgreement'
    BY <1>4 DEF WriteHeader, ChunkLen, PhaseAgreement
  <2>5. HostPhase'
    BY <1>4 DEF WriteHeader, ChunkLen, HostPhase
  <2>6. BatchInMailbox'
    BY <1>4 DEF WriteHeader, HostPhase, BatchInMailbox
  <2>7. AtRest'
    BY <1>4 DEF WriteHeader, ChunkLen, AtRest
  <2>8. InFlight'
    BY <1>4 DEF WriteHeader, HostPhase, InFlight, Progress
  <2>9. DoneInv'
    BY <1>4 DEF WriteHeader, ChunkLen, DoneInv
  <2> QED
    BY <2>1, <2>2, <2>3, <2>4, <2>5, <2>6, <2>7, <2>8, <2>9 DEF WorkerInv, TypeOK
<1>5. ASSUME Trigger PROVE WorkerInv'
  <2>1. MailboxType'
    <3>1. NextSeq(seq_counter) \in 0..SeqLimit
      BY NextSeqFacts DEF HostType
    <3> QED
      BY <1>5, <3>1 DEF Trigger, MailboxType
  <2>2. HostType'
    <3>1. NextSeq(seq_counter) \in 0..SeqLimit
      BY NextSeqFacts DEF HostType
    <3>2. ChunkLen \in Nat /\ ChunkLen <= plen - off
      BY ChunkLenFacts DEF HostType
    <3> QED
      BY <1>5, <3>1, <3>2 DEF Trigger, HostType
  <2>3. KernelType'
    BY <1>5 DEF Trigger, ChunkLen, KernelType
  <2>4. PhaseAgreement'
    BY <1>5 DEF Trigger, ChunkLen, PhaseAgreement
  <2>5. HostPhase'
    BY <1>5 DEF Trigger, ChunkLen, MailboxType, HostType, KernelType, HostPhase
  <2>6. BatchInMailbox'
    BY <1>5, ChunkLenFacts DEF Trigger, HostType, HostPhase, BatchInMailbox
  <2>7. AtRest'
    <3>1. seq_counter' # ack'
      BY <1>5, NextSeqFacts DEF Trigger, HostPhase, HostType
    <3> QED
      BY <1>5, <3>1 DEF Trigger, AtRest
  <2>8. InFlight'
    <3>1. seq_counter' # ack' /\ ~Pending
      BY <1>5, NextSeqFacts DEF Trigger, HostPhase, HostType
    <3>2. g_shutdown_seen = 0 /\ bpc[Leader] = "poll"
      BY <1>5, <3>1 DEF Trigger, AtRest, DoneInv, KernelType
    <3>3. sent = confirmed /\ \A c \in Blocks : finished[c] = sent /\ bpc[c] \in Quiet
      BY <1>5, <3>1, <3>2 DEF Trigger, HostPhase, AtRest, PhaseAgreement
    <3>4. ASSUME NEW c \in Blocks PROVE Progress(c)'
      BY <1>5, <3>1, <3>2, <3>3 DEF Trigger, Progress
    <3> QED
      BY <1>5, <3>1, <3>2, <3>4 DEF Trigger, InFlight
  <2>9. DoneInv'
    BY <1>5 DEF Trigger, ChunkLen, DoneInv
  <2> QED
    BY <2>1, <2>2, <2>3, <2>4, <2>5, <2>6, <2>7, <2>8, <2>9 DEF WorkerInv, TypeOK
<1>6. ASSUME AckSeen PROVE WorkerInv'
  <2>1. MailboxType'
    BY <1>6 DEF AckSeen, MailboxType
  <2>2. HostType'
    BY <1>6 DEF AckSeen, HostType
  <2>3. KernelType'
    BY <1>6 DEF AckSeen, KernelType
  <2>4. PhaseAgreement'
    BY <1>6 DEF AckSeen, PhaseAgreement
  <2>5. HostPhase'
    BY <1>6 DEF AckSeen, ChunkLen, HostType, HostPhase
  <2>6. BatchInMailbox'
    BY <1>6 DEF AckSeen, BatchInMailbox
  <2>7. AtRest'
    BY <1>6 DEF AckSeen, AtRest
  <2>8. InFlight'
    BY <1>6 DEF AckSeen, InFlight, Progress
  <2>9. DoneInv'
    BY <1>6 DEF AckSeen, DoneInv
  <2> QED
    BY <2>1, <2>2, <2>3, <2>4, <2>5, <2>6, <2>7, <2>8, <2>9 DEF WorkerInv, TypeOK
<1>7. ASSUME AckMissing PROVE WorkerInv'
  <2>1. MailboxType' /\ HostType'
    BY <1>7 DEF AckMissing, MailboxType, HostType
  <2>2. KernelType' /\ PhaseAgreement' /\ AtRest' /\ InFlight'
    BY <1>7 DEF AckMissing, KernelType, PhaseAgreement, AtRest, InFlight, Progress
  <2>3. HostPhase' /\ BatchInMailbox'
    BY <1>7 DEF AckMissing, ChunkLen, HostPhase, BatchInMailbox
  <2>4. DoneInv'
    BY <1>7 DEF AckMissing, DoneInv
  <2> QED
    BY <2>1, <2>2, <2>3, <2>4 DEF WorkerInv, TypeOK
<1>8. ASSUME WaitFails PROVE WorkerInv'
  <2>1. MailboxType' /\ HostType'
    BY <1>8 DEF WaitFails, MailboxType, HostType
  <2>2. KernelType' /\ PhaseAgreement' /\ AtRest' /\ InFlight'
    BY <1>8 DEF WaitFails, KernelType, PhaseAgreement, AtRest, InFlight, Progress
  <2>3. HostPhase' /\ BatchInMailbox'
    BY <1>8 DEF WaitFails, ChunkLen, HostPhase, BatchInMailbox
  <2>4. DoneInv'
    BY <1>8 DEF WaitFails, DoneInv
  <2> QED
    BY <2>1, <2>2, <2>3, <2>4 DEF WorkerInv, TypeOK
<1>9. ASSUME SpinAgain PROVE WorkerInv'
  <2>1. MailboxType' /\ HostType'
    BY <1>9 DEF SpinAgain, MailboxType, HostType
  <2>2. KernelType' /\ PhaseAgreement' /\ AtRest' /\ InFlight'
    BY <1>9 DEF SpinAgain, KernelType, PhaseAgreement, AtRest, InFlight, Progress
  <2>3. HostPhase' /\ BatchInMailbox'
    BY <1>9 DEF SpinAgain, ChunkLen, HostPhase, BatchInMailbox
  <2>4. DoneInv'
    BY <1>9 DEF SpinAgain, DoneInv
  <2> QED
    BY <2>1, <2>2, <2>3, <2>4 DEF WorkerInv, TypeOK
<1>10. ASSUME BeginDrop PROVE WorkerInv'
  <2>1. MailboxType' /\ HostType'
    BY <1>10 DEF BeginDrop, MailboxType, HostType
  <2>2. KernelType' /\ PhaseAgreement' /\ AtRest' /\ InFlight'
    BY <1>10 DEF BeginDrop, KernelType, PhaseAgreement, AtRest, InFlight, Progress
  <2>3. HostPhase' /\ BatchInMailbox'
    BY <1>10 DEF BeginDrop, ChunkLen, HostPhase, BatchInMailbox
  <2>4. DoneInv'
    BY <1>10 DEF BeginDrop, DoneInv
  <2> QED
    BY <2>1, <2>2, <2>3, <2>4 DEF WorkerInv, TypeOK
<1>11. ASSUME SendHalt PROVE WorkerInv'
  <2>1. MailboxType' /\ HostType'
    BY <1>11 DEF SendHalt, MailboxType, HostType
  <2>2. KernelType' /\ PhaseAgreement' /\ AtRest' /\ InFlight'
    BY <1>11 DEF SendHalt, KernelType, PhaseAgreement, AtRest, InFlight, Progress
  <2>3. HostPhase' /\ BatchInMailbox'
    BY <1>11 DEF SendHalt, ChunkLen, HostPhase, BatchInMailbox
  <2>4. DoneInv'
    BY <1>11 DEF SendHalt, DoneInv
  <2> QED
    BY <2>1, <2>2, <2>3, <2>4 DEF WorkerInv, TypeOK
<1>12. ASSUME DoneSeen PROVE WorkerInv'
  <2>1. MailboxType' /\ HostType'
    BY <1>12 DEF DoneSeen, MailboxType, HostType
  <2>2. KernelType' /\ PhaseAgreement' /\ AtRest' /\ InFlight'
    BY <1>12 DEF DoneSeen, KernelType, PhaseAgreement, AtRest, InFlight, Progress
  <2>3. HostPhase' /\ BatchInMailbox'
    BY <1>12 DEF DoneSeen, ChunkLen, HostPhase, BatchInMailbox
  <2>4. DoneInv'
    BY <1>12 DEF DoneSeen, DoneInv
  <2> QED
    BY <2>1, <2>2, <2>3, <2>4 DEF WorkerInv, TypeOK
<1>13. ASSUME Escalate PROVE WorkerInv'
  <2>1. MailboxType' /\ HostType'
    BY <1>13 DEF Escalate, MailboxType, HostType
  <2>2. KernelType' /\ PhaseAgreement' /\ AtRest' /\ InFlight'
    BY <1>13 DEF Escalate, KernelType, PhaseAgreement, AtRest, InFlight, Progress
  <2>3. HostPhase' /\ BatchInMailbox'
    BY <1>13 DEF Escalate, ChunkLen, HostPhase, BatchInMailbox
  <2>4. DoneInv'
    BY <1>13 DEF Escalate, DoneInv
  <2> QED
    BY <2>1, <2>2, <2>3, <2>4 DEF WorkerInv, TypeOK
<1>14. ASSUME Leak PROVE WorkerInv'
  <2>1. MailboxType' /\ HostType'
    BY <1>14 DEF Leak, MailboxType, HostType
  <2>2. KernelType' /\ PhaseAgreement' /\ AtRest' /\ InFlight'
    BY <1>14 DEF Leak, KernelType, PhaseAgreement, AtRest, InFlight, Progress
  <2>3. HostPhase' /\ BatchInMailbox'
    BY <1>14 DEF Leak, ChunkLen, HostPhase, BatchInMailbox
  <2>4. DoneInv'
    BY <1>14 DEF Leak, DoneInv
  <2> QED
    BY <2>1, <2>2, <2>3, <2>4 DEF WorkerInv, TypeOK
<1> QED
  BY <1>1, <1>2, <1>3, <1>4, <1>5, <1>6, <1>7, <1>8, <1>9, <1>10, <1>11, <1>12, <1>13, <1>14 DEF HostNext

\* The steps of one block of persistent_worker between two barriers.
LEMMA BlockStep ==
    ASSUME WorkerInv, NEW b \in Blocks, BlockNext(b)
    PROVE  WorkerInv'
<1> USE BlocksAssumption, BoundsAssumption
        DEF WorkerInv, TypeOK, mailbox, hostVars, blockVars, flags,
            Pending, Quiet, Reading, Working
<1>1. ASSUME Poll(b) PROVE WorkerInv'
  <2>1. MailboxType'
    BY <1>1 DEF Poll, MailboxType
  <2>2. HostType'
    BY <1>1 DEF Poll, HostType
  <2>3. KernelType'
    BY <1>1 DEF Poll, KernelType
  <2>4. PhaseAgreement'
    BY <1>1 DEF Poll, PhaseAgreement
  <2>5. HostPhase'
    BY <1>1 DEF Poll, ChunkLen, HostPhase
  <2>6. BatchInMailbox'
    BY <1>1 DEF Poll, BatchInMailbox
  <2>7. AtRest'
    <3>1. ASSUME ~Pending, b = Leader PROVE g_shutdown_seen' = 1
      BY <1>1, <3>1 DEF Poll, HostPhase, DoneInv, MailboxType, KernelType
    <3> QED
      BY <1>1, <3>1 DEF Poll, AtRest, KernelType
  <2>8. InFlight'
    BY <1>1 DEF Poll, InFlight, Progress
  <2>9. DoneInv'
    BY <1>1 DEF Poll, DoneInv
  <2> QED
    BY <2>1, <2>2, <2>3, <2>4, <2>5, <2>6, <2>7, <2>8, <2>9 DEF WorkerInv, TypeOK
<1>2. ASSUME ReadSeq(b) PROVE WorkerInv'
  <2>1. MailboxType'
    BY <1>2 DEF ReadSeq, MailboxType
  <2>2. HostType'
    BY <1>2 DEF ReadSeq, HostType
  <2>3. KernelType'
    BY <1>2 DEF ReadSeq, MailboxType, HostType, KernelType
  <2>4. PhaseAgreement'
    <3>1. CASE g_shutdown_seen = 1
      <4>1. \A c \in Blocks : bpc[c] \in {"seq", "exited"}
        BY <1>2, <3>1 DEF ReadSeq, PhaseAgreement
      <4> QED
        BY <1>2, <3>1, <4>1 DEF ReadSeq, PhaseAgreement, KernelType
    <3>2. CASE g_shutdown_seen = 0
      <4>1. \A c \in Blocks : bpc[c] \in Reading
        BY <1>2, <3>2 DEF ReadSeq, PhaseAgreement
      <4> QED
        BY <1>2, <3>2, <4>1 DEF ReadSeq, PhaseAgreement, KernelType
    <3> QED
      BY <3>1, <3>2 DEF KernelType
  <2>5. HostPhase'
    BY <1>2 DEF ReadSeq, ChunkLen, HostPhase
  <2>6. BatchInMailbox'
    BY <1>2 DEF ReadSeq, BatchInMailbox
  <2>7. AtRest'
    <3>1. CASE g_shutdown_seen = 1
      BY <1>2, <3>1 DEF ReadSeq, AtRest, KernelType
    <3>2. CASE g_shutdown_seen = 0
      <4>1. Pending
        BY <1>2, <3>2 DEF ReadSeq, AtRest, PhaseAgreement, KernelType
      <4> QED
        BY <1>2, <3>2, <4>1 DEF ReadSeq, AtRest, KernelType
    <3> QED
      BY <3>1, <3>2 DEF KernelType
  <2>8. InFlight'
    <3>1. CASE g_shutdown_seen = 1
      BY <1>2, <3>1 DEF ReadSeq, InFlight, Progress, KernelType, PhaseAgreement
    <3>2. CASE g_shutdown_seen = 0
      <4>1. done = 0
        BY <1>2, <3>2 DEF ReadSeq, DoneInv, PhaseAgreement, KernelType, MailboxType
      <4>2. Pending /\ \A c \in Blocks : bpc[c] \in Reading
        BY <1>2, <3>2 DEF ReadSeq, AtRest, PhaseAgreement, KernelType
      <4>3. seq_num = seq_counter
        BY <4>1, <4>2 DEF HostPhase
      <4>4. ASSUME NEW c \in Blocks PROVE Progress(c)'
        BY <1>2, <3>2, <4>2, <4>3 DEF ReadSeq, InFlight, Progress, KernelType
      <4> QED
        BY <1>2, <3>2, <4>2, <4>4 DEF ReadSeq, InFlight, KernelType
    <3> QED
      BY <3>1, <3>2 DEF KernelType
  <2>9. DoneInv'
    BY <1>2 DEF ReadSeq, MailboxType, HostType, KernelType, DoneInv
  <2> QED
    BY <2>1, <2>2, <2>3, <2>4, <2>5, <2>6, <2>7, <2>8, <2>9 DEF WorkerInv, TypeOK
<1>3. ASSUME ReadNum(b) PROVE WorkerInv'
  <2>1. MailboxType'
    BY <1>3 DEF ReadNum, MailboxType
  <2>2. HostType'
    BY <1>3 DEF ReadNum, HostType
  <2>3. KernelType'
    <3>1. (IF num_instructions = 0 THEN 1 ELSE num_instructions) \in Nat
      BY DEF MailboxType
    <3> QED
      BY <1>3, <3>1 DEF ReadNum, KernelType, MailboxType
  <2>4. PhaseAgreement'
    BY <1>3 DEF ReadNum, PhaseAgreement
  <2>5. HostPhase'
    BY <1>3 DEF ReadNum, ChunkLen, HostPhase
  <2>6. BatchInMailbox'
    BY <1>3 DEF ReadNum, BatchInMailbox
  <2>7. AtRest'
    BY <1>3 DEF ReadNum, AtRest
  <2>8. InFlight'
    <3>1. Pending /\ \A c \in Blocks : bpc[c] \in Reading
      BY <1>3 DEF ReadNum, AtRest, PhaseAgreement, KernelType
    <3>2. num_instructions # 0
      BY <3>1 DEF HostPhase, BatchInMailbox, HostType
    <3>3. ASSUME NEW c \in Blocks PROVE Progress(c)'
      BY <1>3, <3>1, <3>2 DEF ReadNum, InFlight, Progress, KernelType
    <3> QED
      BY <1>3, <3>1, <3>3 DEF ReadNum, InFlight, KernelType
  <2>9. DoneInv'
    BY <1>3 DEF ReadNum, DoneInv
  <2> QED
    BY <2>1, <2>2, <2>3, <2>4, <2>5, <2>6, <2>7, <2>8, <2>9 DEF WorkerInv, TypeOK
<1>4. ASSUME WatchdogExit(b) PROVE WorkerInv'
  <2>1. MailboxType'
    BY <1>4 DEF WatchdogExit, MailboxType
  <2>2. HostType'
    BY <1>4 DEF WatchdogExit, HostType
  <2>3. KernelType'
    BY <1>4 DEF WatchdogExit, KernelType
  <2>4. PhaseAgreement'
    BY <1>4 DEF WatchdogExit, PhaseAgreement
  <2>5. HostPhase'
    BY <1>4 DEF WatchdogExit, ChunkLen, HostPhase
  <2>6. BatchInMailbox'
    BY <1>4 DEF WatchdogExit, BatchInMailbox
  <2>7. AtRest'
    BY <1>4 DEF WatchdogExit, AtRest
  <2>8. InFlight'
    BY <1>4 DEF WatchdogExit, InFlight, Progress
  <2>9. DoneInv'
    BY <1>4 DEF WatchdogExit, MailboxType, HostType, KernelType, DoneInv
  <2> QED
    BY <2>1, <2>2, <2>3, <2>4, <2>5, <2>6, <2>7, <2>8, <2>9 DEF WorkerInv, TypeOK
<1>5. ASSUME ReadBase(b) PROVE WorkerInv'
  <2>1. MailboxType'
    BY <1>5 DEF ReadBase, MailboxType
  <2>2. HostType'
    BY <1>5 DEF ReadBase, HostType
  <2>3. KernelType'
    BY <1>5 DEF ReadBase, MailboxType, HostType, KernelType
  <2>4. PhaseAgreement'
    BY <1>5 DEF ReadBase, PhaseAgreement
  <2>5. HostPhase'
    BY <1>5 DEF ReadBase, ChunkLen, HostPhase
  <2>6. BatchInMailbox'
    BY <1>5 DEF ReadBase, BatchInMailbox
  <2>7. AtRest'
    BY <1>5 DEF ReadBase, AtRest
  <2>8. InFlight'
    BY <1>5 DEF ReadBase, MailboxType, HostType, KernelType, InFlight, Progress
  <2>9. DoneInv'
    BY <1>5 DEF ReadBase, DoneInv
  <2> QED
    BY <2>1, <2>2, <2>3, <2>4, <2>5, <2>6, <2>7, <2>8, <2>9 DEF WorkerInv, TypeOK
<1>6. ASSUME Fetch(b) PROVE WorkerInv'
  <2>1. MailboxType'
    BY <1>6 DEF Fetch, MailboxType
  <2>2. HostType'
    BY <1>6 DEF Fetch, HostType
  <2>3. KernelType'
    <3>1. Pending /\ \A c \in Blocks : bpc[c] \in Working
      BY <1>6 DEF Fetch, AtRest, PhaseAgreement, KernelType
    <3>2. pc[b] \in 0..(num_instructions - 1) /\ num_instructions <= MaxBatch
      BY <1>6, <3>1 DEF Fetch, InFlight, Progress, KernelType, MailboxType
    <3>3. inst[pc[b]] \in Nat
      BY <3>2 DEF MailboxType
    <3> QED
      BY <1>6, <3>3 DEF Fetch, KernelType
  <2>4. PhaseAgreement'
    BY <1>6 DEF Fetch, PhaseAgreement
  <2>5. HostPhase'
    BY <1>6 DEF Fetch, ChunkLen, HostPhase
  <2>6. BatchInMailbox'
    BY <1>6 DEF Fetch, BatchInMailbox
  <2>7. AtRest'
    BY <1>6 DEF Fetch, AtRest
  <2>8. InFlight'
    <3>1. Pending /\ \A c \in Blocks : bpc[c] \in Working
      BY <1>6 DEF Fetch, AtRest, PhaseAgreement, KernelType
    <3>2. pc[b] \in 0..(num_instructions - 1) /\ num_instructions <= MaxBatch
      BY <1>6, <3>1 DEF Fetch, InFlight, Progress, KernelType, MailboxType
    <3>3. inst[pc[b]] = confirmed + pc[b] + 1
      BY <3>1, <3>2 DEF BatchInMailbox
    <3>4. ASSUME NEW c \in Blocks PROVE Progress(c)'
      BY <1>6, <3>1, <3>3 DEF Fetch, InFlight, Progress, KernelType
    <3> QED
      BY <1>6, <3>1, <3>4 DEF Fetch, InFlight, KernelType
  <2>9. DoneInv'
    BY <1>6 DEF Fetch, DoneInv
  <2> QED
    BY <2>1, <2>2, <2>3, <2>4, <2>5, <2>6, <2>7, <2>8, <2>9 DEF WorkerInv, TypeOK
<1>7. ASSUME Execute(b) PROVE WorkerInv'
  <2>1. MailboxType'
    BY <1>7 DEF Execute, MailboxType
  <2>2. HostType'
    BY <1>7 DEF Execute, HostType
  <2>3. KernelType'
    BY <1>7 DEF Execute, KernelType
  <2>4. PhaseAgreement'
    BY <1>7 DEF Execute, PhaseAgreement
  <2>5. HostPhase'
    BY <1>7 DEF Execute, ChunkLen, HostPhase
  <2>6. BatchInMailbox'
    BY <1>7 DEF Execute, BatchInMailbox
  <2>7. AtRest'
    BY <1>7 DEF Execute, AtRest
  <2>8. InFlight'
    <3>1. Pending /\ \A c \in Blocks : bpc[c] \in Working
      BY <1>7 DEF Execute, AtRest, PhaseAgreement, KernelType
    <3>2. ASSUME NEW c \in Blocks PROVE Progress(c)'
      BY <1>7, <3>1 DEF Execute, InFlight, Progress, KernelType, HostType
    <3> QED
      BY <1>7, <3>1, <3>2 DEF Execute, InFlight, KernelType
  <2>9. DoneInv'
    BY <1>7 DEF Execute, DoneInv
  <2> QED
    BY <2>1, <2>2, <2>3, <2>4, <2>5, <2>6, <2>7, <2>8, <2>9 DEF WorkerInv, TypeOK
<1>8. ASSUME Ack(b) PROVE WorkerInv'
  <2>1. MailboxType'
    BY <1>8 DEF Ack, MailboxType, HostType, KernelType
  <2>2. HostType'
    BY <1>8 DEF Ack, HostType
  <2>3. KernelType'
    BY <1>8 DEF Ack, KernelType
  <2>4. PhaseAgreement'
    BY <1>8 DEF Ack, PhaseAgreement
  <2>5. HostPhase'
    BY <1>8 DEF Ack, ChunkLen, KernelType, HostType, HostPhase, InFlight, PhaseAgreement
  <2>6. BatchInMailbox'
    BY <1>8 DEF Ack, HostPhase, BatchInMailbox, InFlight, AtRest
  <2>7. AtRest'
    BY <1>8 DEF Ack, KernelType, PhaseAgreement, AtRest, InFlight, Progress
  <2>8. InFlight'
    BY <1>8 DEF Ack, InFlight, Progress
  <2>9. DoneInv'
    BY <1>8 DEF Ack, DoneInv
  <2> QED
    BY <2>1, <2>2, <2>3, <2>4, <2>5, <2>6, <2>7, <2>8, <2>9 DEF WorkerInv, TypeOK
<1> QED
  BY <1>1, <1>2, <1>3, <1>4, <1>5, <1>6, <1>7, <1>8 DEF BlockNext

\* All blocks leave the grid barrier together.
LEMMA RendezvousStep ==
    ASSUME WorkerInv, Rendezvous
    PROVE  WorkerInv'
<1> USE BlocksAssumption, BoundsAssumption
        DEF WorkerInv, TypeOK, mailbox, hostVars, blockVars, flags,
            Pending, Quiet, Reading, Working
<1>1. ASSUME Rendezvous PROVE WorkerInv'
  <2>1. MailboxType'
    BY <1>1 DEF Rendezvous, AfterBarrier, BarrierSites, MailboxType
  <2>2. HostType'
    BY <1>1 DEF Rendezvous, AfterBarrier, BarrierSites, HostType
  <2>3. KernelType'
    BY <1>1 DEF Rendezvous, AfterBarrier, BarrierSites, KernelType
  <2>4. PhaseAgreement'
    <3>1. CASE \A c \in Blocks : bpc[c] = "pollbar"
      BY <1>1, <3>1 DEF Rendezvous, AfterBarrier, PhaseAgreement, KernelType
    <3>2. CASE \A c \in Blocks : bpc[c] = "wdbar"
      BY <1>1, <3>2 DEF Rendezvous, AfterBarrier, PhaseAgreement, KernelType
    <3>3. CASE \A c \in Blocks : bpc[c] = "opbar"
      <4>1. Pending /\ g_shutdown_seen = 0 /\ should_exit = 0
        BY <3>3 DEF AtRest, PhaseAgreement
      <4>2. \A c \in Blocks : pc[c] = pc[Leader] /\ num_inst[c] = num_instructions
        BY <3>3, <4>1 DEF InFlight, Progress
      <4>3. CASE pc[Leader] + 1 < num_instructions
        BY <1>1, <3>3, <4>1, <4>2, <4>3 DEF Rendezvous, AfterBarrier, PhaseAgreement
      <4>4. CASE ~(pc[Leader] + 1 < num_instructions)
        BY <1>1, <3>3, <4>1, <4>2, <4>4 DEF Rendezvous, AfterBarrier, PhaseAgreement
      <4> QED
        BY <4>3, <4>4
    <3> QED
      BY <1>1, <3>1, <3>2, <3>3 DEF Rendezvous, BarrierSites, PhaseAgreement
  <2>5. HostPhase'
    BY <1>1 DEF Rendezvous, AfterBarrier, BarrierSites, ChunkLen, HostPhase
  <2>6. BatchInMailbox'
    BY <1>1 DEF Rendezvous, AfterBarrier, BarrierSites, BatchInMailbox
  <2>7. AtRest'
    BY <1>1 DEF Rendezvous, AfterBarrier, BarrierSites, AtRest
  <2>8. InFlight'
    <3>1. CASE \A c \in Blocks : bpc[c] = "pollbar"
      BY <1>1, <3>1 DEF Rendezvous, AfterBarrier, InFlight, Progress, KernelType
    <3>2. CASE \A c \in Blocks : bpc[c] = "wdbar"
      <4>1. Pending /\ num_instructions \in Nat \ {0} /\ confirmed \in Nat
        BY <3>2 DEF AtRest, HostPhase, BatchInMailbox, HostType, MailboxType
      <4>2. ASSUME NEW c \in Blocks PROVE Progress(c)'
        BY <1>1, <3>2, <4>1 DEF Rendezvous, AfterBarrier, InFlight, Progress, KernelType
      <4> QED
        BY <1>1, <3>2, <4>1, <4>2 DEF Rendezvous, AfterBarrier, InFlight, KernelType
    <3>3. CASE \A c \in Blocks : bpc[c] = "opbar"
      <4>1. Pending /\ num_instructions \in Nat /\ confirmed \in Nat /\ sent \in Nat
                    /\ num_instructions = sent - confirmed
        BY <3>3 DEF AtRest, BatchInMailbox, HostType, MailboxType
      <4>2. \A c \in Blocks : /\ pc[c] = pc[Leader] /\ pc[c] \in Nat
                              /\ num_inst[c] = num_instructions
                              /\ seq[c] = seq_counter /\ base[c] = pc_base
                              /\ pc[c] < num_instructions
                              /\ finished[c] = confirmed + pc[c] + 1
        BY <3>3, <4>1 DEF InFlight, Progress, KernelType
      <4>3. CASE pc[Leader] + 1 < num_instructions
        BY <1>1, <3>3, <4>1, <4>2, <4>3 DEF Rendezvous, AfterBarrier, InFlight, Progress, KernelType
      <4>4. CASE ~(pc[Leader] + 1 < num_instructions)
        <5>1. \A c \in Blocks : bpc'[c] = "ack" /\ finished[c] = sent
          BY <1>1, <3>3, <4>1, <4>2, <4>4 DEF Rendezvous, AfterBarrier
        <5> QED
          BY <1>1, <4>2, <5>1 DEF Rendezvous, InFlight, Progress
      <4> QED
        BY <4>3, <4>4
    <3> QED
      BY <1>1, <3>1, <3>2, <3>3 DEF Rendezvous, BarrierSites, PhaseAgreement
  <2>9. DoneInv'
    BY <1>1 DEF Rendezvous, AfterBarrier, BarrierSites, DoneInv
  <2> QED
    BY <2>1, <2>2, <2>3, <2>4, <2>5, <2>6, <2>7, <2>8, <2>9 DEF WorkerInv, TypeOK
<1> QED
  BY <1>1

\* The environment's steps and stuttering.
LEMMA OtherStep ==
    ASSUME WorkerInv, Signal \/ WatchdogForces \/ UNCHANGED vars
    PROVE  WorkerInv'
<1> USE DEF WorkerInv, TypeOK, mailbox, hostVars, blockVars, flags, vars,
            Signal, WatchdogForces
<1>1. MailboxType'
  <2>1. signalled' \in BOOLEAN /\ force_exit' \in {0, 1}
    BY Zenon DEF MailboxType
  <2> QED
    BY <2>1 DEF MailboxType
<1>2. HostType' /\ KernelType'
  BY DEF HostType, KernelType
<1>3. PhaseAgreement' /\ AtRest' /\ DoneInv'
  BY DEF PhaseAgreement, AtRest, DoneInv, Pending
<1>4. HostPhase' /\ BatchInMailbox'
  BY DEF HostPhase, BatchInMailbox, Pending, ChunkLen
<1>5. InFlight'
  BY DEF InFlight, Progress, Pending
<1> QED
  BY <1>1, <1>2, <1>3, <1>4, <1>5

\* Every step preserves the invariant.
LEMMA StepWorkerInv ==
    ASSUME SingleBatchFires, WorkerInv, [Next]_vars
    PROVE  WorkerInv'
<1>1. CASE HostNext
  BY <1>1, HostStep
<1>2. CASE Signal \/ WatchdogForces
  BY <1>2, OtherStep
<1>3. CASE Rendezvous
  BY <1>3, RendezvousStep
<1>4. ASSUME NEW b \in Blocks, BlockNext(b) PROVE WorkerInv'
  BY <1>4, BlockStep
<1>5. CASE Finished \/ UNCHANGED vars
  BY <1>5, OtherStep DEF Finished
<1> QED
  BY <1>1, <1>2, <1>3, <1>4, <1>5 DEF Next, WorkerNext

\* The inductive invariant holds in every state of the mailbox protocol, for
\* any grid, any batch size and any number of batches.
THEOREM WorkerInvariant ==
    ASSUME SingleBatchFires
    PROVE  Spec => []WorkerInv
<1>1. Init => WorkerInv
  BY InitWorkerInv
<1>2. WorkerInv /\ [Next]_vars => WorkerInv'
  BY StepWorkerInv
<1> QED
  BY <1>1, <1>2, PTL DEF Spec

\* When a wait can return, every block has executed everything handed over.
THEOREM AckTheorem ==
    ASSUME SingleBatchFires
    PROVE  Spec => []AckMeansExecuted
<1>1. WorkerInv => AckMeansExecuted
  BY DEF WorkerInv, AckMeansExecuted, AtRest, Pending
<1> QED
  BY <1>1, WorkerInvariant, PTL

\* No instruction is skipped, repeated or torn.
THEOREM OrderTheorem ==
    ASSUME SingleBatchFires
    PROVE  Spec => []InstructionsInOrder
<1>1. ASSUME WorkerInv, NEW b \in Blocks, bpc[b] = "exec"
      PROVE  cur[b] = finished[b] + 1
  <2>1. Pending
    BY <1>1 DEF WorkerInv, AtRest, Quiet
  <2> QED
    BY <1>1, <2>1 DEF WorkerInv, TypeOK, HostType, KernelType, InFlight, Progress, Working
<1>2. WorkerInv => InstructionsInOrder
  BY <1>1 DEF InstructionsInOrder
<1> QED
  BY <1>2, WorkerInvariant, PTL

\* done is the last access of the worker to its mailbox, so Drop frees a
\* queue nobody uses.
THEOREM DoneTheorem ==
    ASSUME SingleBatchFires
    PROVE  Spec => []DoneIsFinal
<1>1. ASSUME WorkerInv, done = 1 \/ hpc = "freed", NEW b \in Blocks
      PROVE  ~UsesQueue(b)
  <2>1. bpc[Leader] = "exited"
    BY <1>1 DEF WorkerInv, DoneInv
  <2>2. \/ g_shutdown_seen = 1 /\ bpc[b] \in {"seq", "exited"}
        \/ bpc[b] \in {"bye", "exited"}
    BY <1>1, <2>1, BlocksAssumption DEF WorkerInv, PhaseAgreement, Quiet, Reading, Working
  <2> QED
    BY <2>1, <2>2 DEF UsesQueue
<1>2. WorkerInv => DoneIsFinal
  BY <1>1 DEF DoneIsFinal
<1> QED
  BY <1>2, WorkerInvariant, PTL

\* Blocks that meet in the grid barrier have come to the same call of it.
THEOREM BarrierSitesTheorem ==
    ASSUME SingleBatchFires
    PROVE  Spec => []BarrierSitesAgree
<1>1. ASSUME WorkerInv, \A b \in Blocks : bpc[b] \in BarrierSites,
             NEW b \in Blocks, NEW c \in Blocks
      PROVE  bpc[b] = bpc[c] /\ (bpc[b] = "opbar" => pc[b] = pc[c])
  <2>1. bpc[b] = bpc[c]
    BY <1>1 DEF WorkerInv, PhaseAgreement, BarrierSites, Quiet, Reading, Working
  <2>2. ASSUME bpc[b] = "opbar" PROVE pc[b] = pc[c]
    <3>1. Pending
      BY <1>1, <2>2 DEF WorkerInv, AtRest, Quiet
    <3> QED
      BY <1>1, <2>1, <2>2, <3>1 DEF WorkerInv, InFlight, Progress, Working
  <2> QED
    BY <2>1, <2>2
<1>2. WorkerInv => BarrierSitesAgree
  BY <1>1 DEF BarrierSitesAgree
<1> QED
  BY <1>2, WorkerInvariant, PTL

\* The host never rewrites a batch that a block may still read.
THEOREM MailboxTheorem ==
    ASSUME SingleBatchFires
    PROVE  Spec => []MailboxIsStable
<1>1. ASSUME WorkerInv, hpc \in {"write", "trigger"}, NEW b \in Blocks
      PROVE  bpc[b] \in Quiet
  <2>1. ~Pending /\ g_shutdown_seen = 0
    BY <1>1 DEF WorkerInv, TypeOK, KernelType, HostPhase, DoneInv
  <2>2. bpc[Leader] = "poll"
    BY <1>1, <2>1 DEF WorkerInv, AtRest
  <2> QED
    BY <1>1, <2>1, <2>2, BlocksAssumption DEF WorkerInv, PhaseAgreement, Quiet, Reading, Working
<1>2. WorkerInv => MailboxIsStable
  BY <1>1 DEF MailboxIsStable, Quiet
<1> QED
  BY <1>2, WorkerInvariant, PTL

\* The trace dump's index is the position in the whole sliced program.
THEOREM TraceTheorem ==
    ASSUME SingleBatchFires
    PROVE  Spec => []TraceIndexIsGlobal
<1>1. ASSUME WorkerInv, NEW b \in Blocks, bpc[b] = "exec", mode = "slice"
      PROVE  pc[b] + base[b] + 1 = cur[b] - (sent - off)
  <2>1. Pending
    BY <1>1 DEF WorkerInv, AtRest, Quiet
  <2>2. base[b] = off - (sent - confirmed) /\ cur[b] = confirmed + pc[b] + 1
    BY <1>1, <2>1 DEF WorkerInv, InFlight, Progress, BatchInMailbox
  <2> QED
    BY <1>1, <2>2 DEF WorkerInv, TypeOK, HostType, KernelType
<1>2. WorkerInv => TraceIndexIsGlobal
  BY <1>1 DEF TraceIndexIsGlobal
<1> QED
  BY <1>2, WorkerInvariant, PTL

\* Each step is a step of the abstract dispatcher or leaves it alone.
LEMMA StepImplements ==
    ASSUME SingleBatchFires, WorkerInv, [Next]_vars
    PROVE  [Abs!ANext]_(Abs!avars)
<1> USE DEF WorkerInv, TypeOK, mailbox, hostVars, blockVars, flags
<1>1. CASE Trigger
  <2>1. ChunkLen \in Nat /\ ChunkLen >= 1 /\ confirmed = sent /\ sent \in Nat
    BY <1>1, ChunkLenFacts DEF Trigger, HostType, HostPhase
  <2>2. Abs!ASubmit
    BY <1>1, <2>1 DEF Trigger, Abs!ASubmit
  <2> QED
    BY <2>2 DEF Abs!ANext
<1>2. CASE AckSeen
  <2>1. \A b \in Blocks : finished[b] = sent
    BY <1>2 DEF AckSeen, AtRest, Pending
  <2>2. Abs!AConfirm
    BY <1>2, <2>1 DEF AckSeen, Abs!AConfirm
  <2> QED
    BY <2>2 DEF Abs!ANext
<1>3. ASSUME NEW b \in Blocks, Execute(b) PROVE Abs!ARun(b)
  <2>1. Pending /\ \A c \in Blocks : bpc[c] \in Working
    BY <1>3 DEF Execute, AtRest, PhaseAgreement, Quiet, Reading, Working
  <2>2. /\ sent - confirmed = num_instructions /\ sent \in Nat /\ confirmed \in Nat
        /\ \A c \in Blocks : /\ pc[c] = pc[b] /\ pc[c] \in Nat
                             /\ num_inst[c] = num_instructions /\ pc[c] < num_inst[c]
                             /\ finished[c] = confirmed + pc[c]
                                    + (IF bpc[c] = "opbar" THEN 1 ELSE 0)
    BY <2>1, BlocksAssumption DEF InFlight, Progress, BatchInMailbox, HostType, KernelType
  <2>3. finished[b] = confirmed + pc[b]
    BY <1>3, <2>2 DEF Execute
  <2>4. finished[b] < sent /\ \A c \in Blocks : finished[c] >= finished[b]
    BY <2>2, <2>3, BlocksAssumption DEF MailboxType
  <2> QED
    BY <1>3, <2>4 DEF Execute, Abs!ARun
<1>4. CASE UNCHANGED <<sent, confirmed, finished>>
  BY <1>4 DEF Abs!avars
<1>5. HostNext => Trigger \/ AckSeen \/ UNCHANGED <<sent, confirmed, finished>>
  BY DEF HostNext, StartProgram, WriteInst, WriteHeader, AckMissing, WaitFails,
         SpinAgain, BeginDrop, SendHalt, DoneSeen, Escalate, Leak
<1>6. ASSUME NEW b \in Blocks, BlockNext(b)
      PROVE  Execute(b) \/ UNCHANGED <<sent, confirmed, finished>>
  BY <1>6 DEF BlockNext, Poll, ReadSeq, ReadNum, WatchdogExit, ReadBase, Fetch, Ack
<1>7. CASE Signal \/ WatchdogForces \/ Rendezvous \/ Finished \/ UNCHANGED vars
  BY <1>7, <1>4 DEF Signal, WatchdogForces, Rendezvous, Finished, vars
<1> QED
  BY <1>1, <1>2, <1>3, <1>4, <1>5, <1>6, <1>7 DEF Next, WorkerNext, Abs!ANext

\* PersistentDispatch and its worker implement the abstract dispatcher.
THEOREM DispatchRefinement ==
    ASSUME SingleBatchFires
    PROVE  Spec => ImplementsDispatch
<1>1. Init => Abs!AInit
  BY DEF Init, Abs!AInit
<1>2. WorkerInv /\ [Next]_vars => [Abs!ANext]_(Abs!avars)
  BY StepImplements
<1> QED
  BY <1>1, <1>2, WorkerInvariant, PTL DEF Spec, ImplementsDispatch, Abs!ASpec
===============================================================================
