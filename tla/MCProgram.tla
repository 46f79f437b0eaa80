------------------------------ MODULE MCProgram ------------------------------
(***************************************************************************)
(* Model configurations for Program: the layer patterns of the supported   *)
(* families, cut to two or three layers.                                   *)
(***************************************************************************)
EXTENDS Program

L(mixer, ffn) == [mixer |-> mixer, ffn |-> ffn]
Base == [layers |-> <<L("gdn", "dense"), L("attn", "dense")>>, gate |-> TRUE, qk |-> TRUE, onep |-> TRUE,
         tied |-> TRUE, fmt |-> "bf16", swiglu |-> TRUE, shared |-> "none", latent |-> FALSE]

\* Qwen3.5 dense, in three weight formats
QwenDense    == Base
QwenDenseQ4  == [Base EXCEPT !.fmt = "rnf4", !.tied = FALSE]
QwenMixed    == [Base EXCEPT !.fmt = "mixed", !.layers = <<L("attn", "dense"), L("gdn", "dense"), L("attn", "dense")>>]
\* Plain attention stack without gate and query norm
PlainPcg32   == [Base EXCEPT !.fmt = "pcg32", !.gate = FALSE, !.qk = FALSE, !.onep = FALSE,
                             !.layers = <<L("attn", "dense"), L("attn", "dense")>>]
\* Qwen3.5 with experts, gated shared expert
QwenMoe      == [Base EXCEPT !.layers = <<L("gdn", "moe"), L("attn", "moe")>>, !.shared = "gated"]
QwenMoeDense == [Base EXCEPT !.layers = <<L("attn", "moe"), L("gdn", "dense")>>, !.shared = "plain"]
\* Nemotron-H: Mamba2, attention and expert layers alternate
Nemotron     == [Base EXCEPT !.layers = <<L("mamba2", "none"), L("none", "moe"), L("attn", "none"), L("mamba2", "none")>>,
                             !.swiglu = FALSE, !.shared = "plain", !.gate = FALSE, !.qk = FALSE, !.onep = FALSE, !.tied = FALSE]
NemotronLatent == [Nemotron EXCEPT !.latent = TRUE, !.layers = <<L("mamba2", "none"), L("attn", "none"), L("none", "moe")>>]

DenseConfigs == {QwenDense, QwenDenseQ4, QwenMixed, PlainPcg32}
MoeConfigs   == {QwenMoe, QwenMoeDense, Nemotron, NemotronLatent}
OneConfig    == {QwenDense}
AllConfigs   == DenseConfigs \cup MoeConfigs
=============================================================================
