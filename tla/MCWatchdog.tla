----------------------------- MODULE MCWatchdog -----------------------------
EXTENDS Watchdog

(* A window wide enough for a healthy kernel, and one so short that healthy *)
(* kernels are suspected, recover, and are forced out by a Drop.            *)
Roomy == [noProgress |-> 7, grace |-> 2, flushEvery |-> 3,
          dropMayForce |-> FALSE, maxBatches |-> 3]
Short == [noProgress |-> 2, grace |-> 1, flushEvery |-> 4,
          dropMayForce |-> TRUE, maxBatches |-> 4]

BothTimings == {Roomy, Short}
=============================================================================
