SPECIFICATION FairSpec
CONSTANTS
    Blocks = {b0, b1, b2}
    Leader = b0
    MaxBatch = 2
    SeqLimit = 7
    SlicePrograms = {1, 3}
    FirePrograms = {2}
    MaxSent = 5
    MultiGpu = FALSE
    Faults = {"signal", "timeout", "deadline", "watchdog"}
INVARIANTS
    AckMeansExecuted
    InstructionsInOrder
    TraceIndexIsGlobal
    BarrierSitesAgree
    DoneIsFinal
    MailboxIsStable
    WorkerInv
PROPERTIES
    ImplementsDispatch
    WaitReturns
    DropEnds
