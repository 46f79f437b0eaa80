SPECIFICATION FairSpec
CONSTANTS
    Blocks = {b0, b1, b2}
    GenModulus = 3
INVARIANT BarrierInv
PROPERTIES ImplementsAbstractBarrier EveryCallReturns
