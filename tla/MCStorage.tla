----------------------------- MODULE MCStorage -----------------------------
(***************************************************************************)
(* The storage primitives of paged_kv.rs, each driven by its own caller:   *)
(* the chunk tiers (KvTiers) or the recurrent checkpoints (Checkpoint).    *)
(* They share no state, so a behaviour exercises one of the two.           *)
(***************************************************************************)
EXTENDS KvTiers, Checkpoint

VARIABLE api \* which of the two this behaviour exercises

StorageInit == Init /\ CkInit /\ api \in {"tiers", "checkpoints"}

StorageNext ==
    \/ api = "tiers" /\ Next /\ UNCHANGED <<ckVars, api>>
    \/ api = "checkpoints" /\ CkNext /\ UNCHANGED <<vars, api>>

StorageSpec == StorageInit /\ [][StorageNext]_<<vars, ckVars, api>>

============================================================================
