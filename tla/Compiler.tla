------------------------------ MODULE Compiler ------------------------------
(***************************************************************************)
(* The program compiler: the instruction lists that megakernel_compile.rs, *)
(* compile_attention.rs, compile_layers.rs, compile_moe.rs and             *)
(* moe_forward.rs emit for a model, and the indices they record for the    *)
(* fields that every decode step patches.                                  *)
(*                                                                         *)
(* A model configuration c is a record: layers (a sequence of records      *)
(* [mixer, ffn]), gate (has_output_gate), qk (has_qk_norm), onep           *)
(* (rms_norm_one_plus_w), tied (tie_word_embeddings), fmt (the format of   *)
(* the linear weights), swiglu (has_gate_proj), shared ("none", "plain" or *)
(* "gated") and latent (fc1_latent_proj and fc2_latent_proj present).      *)
(***************************************************************************)
EXTENDS Instructions

(* Weights *)
Fmt(c, name) == IF c.fmt # "mixed" THEN c.fmt ELSE IF name \in {"w_down", "w_a"} THEN "bf16" ELSE "rnf4"
W(c, name, l) == <<name, l, Fmt(c, name)>>
Bf16(name, l) == <<name, l, "bf16">>
LmHead(c) == IF c.tied THEN Bf16("embed", 0) ELSE Bf16("lm_head", 0)

(* Opcode choice *)
linear_proj_opcode(w) == [bf16 |-> "OP_LINEAR_PROJ", rnf4 |-> "OP_LINEAR_PROJ_RNF4", pcg32 |-> "OP_LINEAR_PROJ_PCG32"][w[3]]
rmsnorm_opcode(c) == IF c.onep THEN "OP_RMSNORM" ELSE "OP_RMSNORM_WX"
ffn_gate_up_opcode(rnf4, c) ==
    CASE ~rnf4 /\ c.onep  -> "OP_FFN_GATE_UP"
      [] ~rnf4 /\ ~c.onep -> "OP_FFN_GATE_UP_WX"
      [] rnf4 /\ c.onep   -> "OP_FFN_GATE_UP_RNF4"
      [] rnf4 /\ ~c.onep  -> "OP_FFN_GATE_UP_RNF4_WX"

Proj(w, output, input, n)    == LinearProjInst(linear_proj_opcode(w), output, w, input, n)
RmsNorm(c, n, output, input, w) == RmsNormInst(rmsnorm_opcode(c), n, output, input, w)
When(b, insts) == IF b THEN insts ELSE <<>>
PerToken(n, F(_)) == FlattenSeq([t \in 1..n |-> F(t - 1)])

(***************************************************************************)
(* A program under construction: the instructions, the indices recorded    *)
(* for patching, and how many layers of each kind have been passed.        *)
(***************************************************************************)
NewProgram == [insts |-> <<>>, embedding |-> 0, kv_write |-> <<>>, attn_paged |-> <<>>, attn_quant |-> <<>>,
               barrier |-> <<>>, act_d2d |-> <<>>, post_seq |-> <<>>, gdn |-> 0, mamba2 |-> 0, attn |-> 0]
Push(prog, insts) == [prog EXCEPT !.insts = @ \o insts]
Next1(prog) == Len(prog.insts) + 1              \* instructions.len(), 1-based

(* Attention *)
KCache(idx) == Mapped("k", 0, idx)
VCache(idx) == Mapped("v", 0, idx)
KNorm(c, l) == When(c.qk, <<Bf16("k_norm", l)>>)

\* emit_attention_layer up to the split of the queries from the gate
AttnProjections(c, l, bufs, n) ==
    LET B(name) == BufIn(bufs, name) IN
    <<RmsNorm(c, n, B("normed"), B("hidden"), Bf16("input_norm", l)),
      Proj(W(c, "w_q_gate", l), B("q_gate_attn"), B("normed"), n),
      Proj(W(c, "w_k", l), B("k_attn"), B("normed"), n),
      Proj(W(c, "w_v", l), B("v_attn"), B("normed"), n)>>
    \o (IF c.gate THEN <<DeinterleaveInst(B("q_attn"), B("gate_attn"), B("q_gate_attn"), n)>>
        ELSE <<D2dCopyInst(B("q_attn"), B("q_gate_attn"), n)>>)
AttnQkNorm(c, l, bufs, n) ==
    LET B(name) == BufIn(bufs, name) IN
    When(c.qk, <<QkNormInst(B("q_attn"), B("k_attn"), Bf16("q_norm", l), Bf16("k_norm", l), IF n > 1 THEN n ELSE 0)>>)
AttnOutput(c, l, bufs, n) ==
    LET B(name) == BufIn(bufs, name) IN
    When(c.gate, <<OutputGateInst(B("gated_out"), B("attn_out"), B("gate_attn"), n)>>)
    \o <<Proj(W(c, "w_o", l), B("out_proj"), IF c.gate THEN B("gated_out") ELSE B("attn_out"), n)>>

NullPtr == Act("null")
PositionTable == Mapped("position_table", 0, 0)                \* of the decode program
PrefillPositionTable == Mapped("prefill_position_table", 0, 0) \* of the prefill programs
\* AttentionVariant::PagedKv: raw keys and values go to the cache, one copy per head;
\* the destinations are patched by every decode step.
compile_attention_layer_paged(prog, c, l) ==
    LET idx == prog.attn
        proj == Push(prog, AttnProjections(c, l, Activations, 1))
        kv   == FlattenSeq([h \in DOMAIN KvHeads |->
                    <<D2dCopyInst(NullPtr, Slice(Act("k_attn"), KvHeads[h]), 0),
                      D2dCopyInst(NullPtr, Slice(Act("v_attn"), KvHeads[h]), 0)>>])
        wr   == [Push(proj, kv) EXCEPT !.kv_write = Append(@, [h \in DOMAIN KvHeads |->
                    <<Next1(proj) + 2 * h - 2, Next1(proj) + 2 * h - 1>>])]
        qk   == Push(wr, AttnQkNorm(c, l, Activations, 1) \o <<MropeInst(Act("q_attn"), Act("k_attn"), Act("position_ids"), 1)>>)
        attn == [Push(qk, <<AttnPagedQInst(Act("q_attn")),
                            AttnPagedInst(Act("attn_out"), Act("q_attn"), idx, KNorm(c, l), PositionTable, 1)>>)
                 EXCEPT !.attn_quant = Append(@, Next1(qk)), !.attn_paged = Append(@, Next1(qk) + 1)]
    IN  [Push(attn, AttnOutput(c, l, Activations, 1)
                    \o <<D2dCopyInst(Act("residual"), Act("hidden"), 1),
                         ResidualAddInst(Act("hidden"), Act("out_proj"), Act("residual"), 1)>>)
         EXCEPT !.attn = idx + 1]

\* AttentionVariant::PrefillPagedKv: n rows at a time, the keys after norm and rotation
PrefillAttention(c, l, idx, start_pos, n) ==
    AttnProjections(c, l, PrefillBufs, n) \o AttnQkNorm(c, l, PrefillBufs, n)
    \o <<MropeInst(Pre("q_attn"), Pre("k_attn"), Pre("position_ids"), n),
         KvWritePagedBatchInst(Pre("k_attn"), KCache(idx), start_pos, n),
         KvWritePagedBatchInst(Pre("v_attn"), VCache(idx), start_pos, n)>>
    \o PerToken(n, LAMBDA t : <<AttnPagedInst(At(Pre("attn_out"), t), At(Pre("q_attn"), t), idx, KNorm(c, l),
                                               PrefillPositionTable, start_pos + t + 1)>>)
    \o AttnOutput(c, l, PrefillBufs, n)
    \o <<ResidualAddInst(Pre("hidden"), Pre("out_proj"), Pre("hidden"), n)>>

(* Gated delta net *)
ConvState(idx, r) == Mapped("gdn_conv", r, idx)
GdnState(idx) == Mapped("gdn_state", 0, idx)
GdnW(name, l) == Bf16(name, l)

compile_gdn_layer(c, l, idx) ==
    LET a == W(c, "w_a", l)  b == W(c, "w_b", l)  x == Act("normed")
        qkv(s) == Slice(Act("qkv"), s)
    IN  <<RmsNorm(c, 1, x, Act("hidden"), Bf16("input_norm", l)), Proj(W(c, "w_qkv", l), Act("qkv"), x, 0)>>
        \o (IF a[3] = "bf16" /\ b[3] = "bf16" THEN <<LinearProj2xInst(Act("a_proj"), Act("b_proj"), a, b, x)>>
            ELSE <<Proj(a, Act("a_proj"), x, 0), Proj(b, Act("b_proj"), x, 0)>>)
        \o <<Proj(W(c, "w_z", l), Act("z_proj"), x, 0),
             Conv1d3xInst(ConvState(idx, 0), qkv("q"), GdnW("conv_q", l), Act("q_gdn"),
                          ConvState(idx, 1), qkv("k"), GdnW("conv_k", l), Act("k_gdn"),
                          ConvState(idx, 2), qkv("v"), GdnW("conv_v", l), Act("v_gdn")),
             GdnGateInst(Act("gate_gdn"), Act("a_proj"), GdnW("a_log", l)),
             GdnRecurInst(Act("q_gdn"), Act("k_gdn"), Act("v_gdn"), Act("gate_gdn"), Act("b_proj"), GdnState(idx), Act("recurrent_out")),
             RmsNormGateInst(Act("normed_gated"), Act("recurrent_out"), Act("z_proj"), GdnW("output_norm", l)),
             Proj(W(c, "w_out", l), Act("out_proj"), Act("normed_gated"), 0),
             ScaleAddInst(Act("hidden"), Act("out_proj"), 1)>>

\* The GDN arm of the two prefill compilers: projections over n rows, recurrence per token
PrefillGdnProjections(c, l, n) ==
    <<RmsNorm(c, n, Pre("normed"), Pre("hidden"), Bf16("input_norm", l)),
      Proj(W(c, "w_qkv", l), Pre("qkv"), Pre("normed"), n), Proj(W(c, "w_a", l), Pre("a_proj"), Pre("normed"), n),
      Proj(W(c, "w_b", l), Pre("b_proj"), Pre("normed"), n), Proj(W(c, "w_z", l), Pre("z_proj"), Pre("normed"), n)>>
PrefillGdnToken(c, l, idx, t) ==
    LET qkv(s) == Slice(At(Pre("qkv"), t), s)
    IN  <<Conv1dInst(ConvState(idx, 0), qkv("q"), GdnW("conv_q", l), Act("q_gdn")),
          Conv1dInst(ConvState(idx, 1), qkv("k"), GdnW("conv_k", l), Act("k_gdn")),
          Conv1dInst(ConvState(idx, 2), qkv("v"), GdnW("conv_v", l), Act("v_gdn")),
          GdnGateInst(Act("gate_gdn"), At(Pre("a_proj"), t), GdnW("a_log", l)),
          GdnRecurInst(Act("q_gdn"), Act("k_gdn"), Act("v_gdn"), Act("gate_gdn"), At(Pre("b_proj"), t), GdnState(idx), Act("recurrent_out")),
          RmsNormGateInst(Act("normed_gated"), Act("recurrent_out"), At(Pre("z_proj"), t), GdnW("output_norm", l)),
          Proj(W(c, "w_out", l), Act("out_proj"), Act("normed_gated"), 0),
          ResidualAddInst(At(Pre("hidden"), t), Act("out_proj"), At(Pre("hidden"), t), 0)>>

(* Mamba2 *)
Mamba2Conv(idx) == Mapped("mamba2_conv", 0, idx)
Mamba2Ssm(idx) == Mapped("mamba2_ssm", 0, idx)
compile_mamba2_layer(c, l, idx) ==
    LET proj(s) == Slice(Act("mamba2_in_proj"), s)  conv(s) == Slice(Act("mamba2_conv_out"), s)
    IN  <<RmsNorm(c, 1, Act("normed"), Act("hidden"), Bf16("input_norm", l)),
          Proj(W(c, "in_proj", l), Act("mamba2_in_proj"), Act("normed"), 0),
          Mamba2Conv1dInst(Mamba2Conv(idx), proj("xBC"), Bf16("conv1d", l), Act("mamba2_conv_out")),
          SsmUpdateInst(Mamba2Ssm(idx), conv("x"), proj("dt"), conv("B"), conv("C"), Bf16("ssm", l), Act("mamba2_ssm_out")),
          Mamba2NormGatedInst(Act("mamba2_conv_out"), Act("mamba2_ssm_out"), proj("gate"), Bf16("norm", l)),
          Proj(W(c, "out_proj", l), Act("out_proj"), Act("mamba2_conv_out"), 0),
          D2dCopyInst(Act("residual"), Act("hidden"), 0),
          ResidualAddInst(Act("hidden"), Act("out_proj"), Act("residual"), 0)>>

\* Mistake: all layers share the first one's state.
MutPrefillMamba2(c, l, idx, n) ==
    PerToken(n, LAMBDA t : <<D2dCopyInst(Act("hidden"), At(Pre("hidden"), t), 0)>> \o compile_mamba2_layer(c, l, 0)
                           \o <<D2dCopyInst(At(Pre("hidden"), t), Act("hidden"), 0)>>)

\* The prefill compilers run the decode code on one row at a time.
PrefillMamba2(c, l, idx, n) ==
    PerToken(n, LAMBDA t : <<D2dCopyInst(Act("hidden"), At(Pre("hidden"), t), 0)>> \o compile_mamba2_layer(c, l, idx)
                           \o <<D2dCopyInst(At(Pre("hidden"), t), Act("hidden"), 0)>>)

(* Dense feed-forward *)
FfnWeights(c, l) == [norm |-> Bf16("post_norm", l), gate |-> W(c, "w_gate", l), up |-> W(c, "w_up", l), down |-> W(c, "w_down", l)]
AllIn(w, fmt) == {w.gate[3], w.up[3], w.down[3]} = {fmt}

\* The fused pair, when all three weights have one format that the kernels know
FusedFfn(c, w, rnf4, bufs, n) ==
    LET B(name) == BufIn(bufs, name) IN
    <<FfnGateUpInst(ffn_gate_up_opcode(rnf4, c), B("ffn_act"), B("hidden"), w.norm, w.gate, w.up, n),
      D2dCopyInst(B("residual"), B("hidden"), n),
      FfnDownResInst(IF rnf4 THEN "OP_FFN_DOWN_RES_RNF4" ELSE "OP_FFN_DOWN_RES", B("hidden"), B("residual"), w.down, B("ffn_act"), n)>>
UnfusedFfn(c, w, hidden, normed, residual, gate, up, act, down) ==
    <<D2dCopyInst(residual, hidden, 0), RmsNorm(c, 1, normed, hidden, w.norm),
      Proj(w.gate, gate, normed, 0), Proj(w.up, up, normed, 0), SiluMulInst(act, gate, up),
      Proj(w.down, down, act, 0), ResidualAddInst(hidden, down, residual, 0)>>

compile_ffn(c, l) ==
    LET w == FfnWeights(c, l)
    IN  CASE AllIn(w, "bf16") -> FusedFfn(c, w, FALSE, Activations, 0)
          [] AllIn(w, "rnf4") -> FusedFfn(c, w, TRUE, Activations, 0)
          [] OTHER -> UnfusedFfn(c, w, Act("hidden"), Act("normed"), Act("residual"), Act("ffn_gate"), Act("ffn_up"), Act("ffn_act"), Act("ffn_down"))
compile_ffn_batched(c, l, n) ==
    LET w == FfnWeights(c, l)
    IN  CASE c.layers[l].ffn # "dense" -> <<>>
          [] c.layers[l].ffn = "dense" /\ AllIn(w, "bf16") -> FusedFfn(c, w, FALSE, PrefillBufs, n)
          [] c.layers[l].ffn = "dense" /\ AllIn(w, "rnf4") -> FusedFfn(c, w, TRUE, PrefillBufs, n)
          [] OTHER -> PerToken(n, LAMBDA t : UnfusedFfn(c, w, At(Pre("hidden"), t), At(Pre("normed"), t), At(Pre("residual"), t),
                          Pre("ffn_gate_scratch"), Pre("ffn_up_scratch"), At(Pre("ffn_act"), t), Pre("ffn_down_scratch")))

(* Mixture of experts *)
Shares == <<"experts1", "experts2">>            \* the experts of worker GPU 1, of worker GPU 2
ExpertOp(c) == IF c.swiglu THEN "swiglu_experts" ELSE "relu2_experts"
AllExperts(c, l) == <<l, ExpertOp(c), Shares>>
ExpertsOf(c, l, g) == <<l, ExpertOp(c), <<Shares[g]>>>>
\* MoeFfn layers have an input norm, the others a post norm
MoeNorm(c, l) == Bf16(IF c.layers[l].mixer = "none" THEN "input_norm" ELSE "post_norm", l)

SharedUp(c, l, up, gate, act, x) ==
    IF c.swiglu THEN <<Proj(W(c, "se_gate", l), gate, x, 0), Proj(W(c, "se_up", l), up, x, 0), SiluMulInst(act, gate, up)>>
    ELSE <<Proj(W(c, "se_up", l), up, x, 0), ReluSqInst(act, up)>>
SharedDown(c, l) == <<Proj(W(c, "se_down", l), Act("moe_expert_out"), Act("moe_expert_act"), 0)>>
\* The shared expert's output, gated or not, is added to acc.
AddShared(c, l, acc) ==
    IF c.shared = "gated"
    THEN <<LinearProjInst("OP_LINEAR_PROJ", Act("moe_scores"), Bf16("se_score", l), Act("normed"), 0),
           SigmoidWeightedAddInst(acc, Act("moe_scores"), Act("moe_expert_out"))>>
    ELSE <<ResidualAddInst(acc, acc, Act("moe_expert_out"), 0)>>
SharedExpertInto(c, l, acc) ==
    SharedUp(c, l, Act("moe_expert_up"), Act("moe_expert_gate"), Act("moe_expert_act"), Act("normed"))
    \o SharedDown(c, l) \o AddShared(c, l, acc)
emit_shared_expert(c, l)       == SharedExpertInto(c, l, Act("ffn_down"))
emit_shared_expert_stage(c, l) == SharedExpertInto(c, l, Act("ffn_down_stage"))

MoeRoute(c, l) ==
    <<D2dCopyInst(Act("residual"), Act("hidden"), 0), RmsNorm(c, 1, Act("normed"), Act("hidden"), MoeNorm(c, l)),
      LinearProjInst("OP_LINEAR_PROJ", Act("moe_scores"), Bf16("router", l), Act("normed"), 0)>>
MoeGate(l) == MoeGateInst(Act("moe_scores"), Act("moe_expert_ids"), Act("moe_expert_weights"), Bf16("score_bias", l))

compile_moe_ffn(c, l) ==
    MoeRoute(c, l)
    \o <<MoeGate(l), MoeFfnInst(Act("moe_expert_ids"), Act("moe_expert_weights"), Act("normed"), Act("ffn_down"), AllExperts(c, l))>>
    \o When(c.shared # "none", emit_shared_expert(c, l))
    \o <<ResidualAddInst(Act("hidden"), Act("residual"), Act("ffn_down"), 0)>>

\* The copies before the barrier are placeholders for compile_inner_p2p.
compile_moe_ffn_multi_gpu(prog, c, l, emit_post_barrier) ==
    LET pre == Push(prog, MoeRoute(c, l)
                    \o <<D2dCopyInst(Act("normed_stage"), Act("normed"), 0), MoeGate(l),
                         D2dCopyInst(Act("moe_expert_ids"), Act("moe_expert_ids"), 0),
                         D2dCopyInst(Act("moe_expert_weights"), Act("moe_expert_weights"), 0)>>)
    IN  Push([pre EXCEPT !.barrier = Append(@, <<Next1(pre), l>>)],
             <<BarrierInst(l)>>
             \o When(emit_post_barrier,
                     When(c.shared # "none", emit_shared_expert_stage(c, l))
                     \o <<ResidualAddInst(Act("hidden"), Act("residual"), Act("ffn_down_stage"), 0)>>))

(* Whole programs *)
FinalNormLmHead(c) ==
    <<D2dCopyInst(Act("normed"), Act("hidden"), 0), RmsNorm(c, 1, Act("hidden"), Act("normed"), Bf16("final_norm", 0)),
      LinearProjInst("OP_LM_HEAD", Act("logits"), LmHead(c), Act("hidden"), 0)>>

CompileMixer(prog, c, l) ==
    CASE c.layers[l].mixer = "attn"   -> compile_attention_layer_paged(prog, c, l)
      [] c.layers[l].mixer = "gdn"    -> [Push(prog, compile_gdn_layer(c, l, prog.gdn)) EXCEPT !.gdn = @ + 1]
      [] c.layers[l].mixer = "mamba2" -> [Push(prog, compile_mamba2_layer(c, l, prog.mamba2)) EXCEPT !.mamba2 = @ + 1]
      [] c.layers[l].mixer = "none"   -> prog
\* On one GPU the experts are loaded, and in the format OP_MOE_FFN knows: a lite-loaded model, whose
\* MoE layers this arm skips, runs compile_inner_p2p, and other formats end in an assertion.
CompileFfn(prog, c, l, multi_gpu) ==
    CASE c.layers[l].ffn = "dense" -> Push(prog, compile_ffn(c, l))
      [] c.layers[l].ffn = "moe" /\ multi_gpu -> compile_moe_ffn_multi_gpu(prog, c, l, ~c.latent)
      [] c.layers[l].ffn = "moe" /\ ~multi_gpu -> Push(prog, compile_moe_ffn(c, l))
      [] c.layers[l].ffn = "none" -> prog
compile_inner(c, multi_gpu) ==
    LET start == [Push(NewProgram, <<EmbeddingInst(Act("hidden"), Bf16("embed", 0), 0)>>) EXCEPT !.embedding = 1]
        body  == FoldLeft(LAMBDA p, l : CompileFfn(CompileMixer(p, c, l), c, l, multi_gpu), start, [l \in DOMAIN c.layers |-> l])
    IN  Push(body, FinalNormLmHead(c) \o <<HaltInst>>)

(***************************************************************************)
(* compile_inner_p2p.  Pass 1 replaces the placeholders around each        *)
(* barrier, pass 2 inserts POST (and the latent projections) after it and  *)
(* moves every recorded index by the number of insertions before it.       *)
(***************************************************************************)
Workers == <<1, 2>>                             \* worker GPUs; GPU 0 holds no experts
Staging(slot)    == Mapped("activation_staging_vram", slot, 0)
RoutingIds(slot) == Mapped("routing_ids_staging_vram", slot, 0)
RoutingWts(slot) == Mapped("routing_weights_staging_vram", slot, 0)
ActSentinel(l, slot) == Mapped("moe_act_sentinel", slot, l)
OutputSlot(row)  == Mapped("output_slots", row, 0)
ZeroBuffer       == Mapped("gpu0_zero_buffer", 0, 0)

P2pPlaceholders(c, prog, bl) ==
    LET b == bl[1]  l == bl[2]
        weights == D2dCopyInst(RoutingWts(0), Act("moe_expert_weights"), 0)
    IN  [prog EXCEPT
          !.insts[b - 4] = IF c.latent THEN Proj(W(c, "fc1", l), Act("moe_latent"), Act("normed"), 0)
                           ELSE D2dCopyInst(Staging(0), Act("normed"), 0),
          !.insts[b - 2] = D2dCopyInst(RoutingIds(0), Act("moe_expert_ids"), 0),
          !.insts[b - 1] = IF c.latent THEN weights ELSE with_signal(weights, ActSentinel(l, 0), 1),
          !.insts[b]     = D2dCopyInst(OutputSlot(0), ZeroBuffer, 0),
          !.act_d2d      = IF c.latent THEN @ ELSE Append(@, <<b - 1, l>>)]

P2pBefore(c) == When(c.latent, <<D2dCopyInst(Staging(0), Act("moe_latent"), 0)>>)
P2pLatentTail(c, l) ==
    <<Proj(W(c, "fc2", l), Act("ffn_down_stage"), Act("moe_latent"), 0)>>
    \o When(c.shared # "none" /\ ~c.swiglu, SharedExpertInto(c, l, Act("ffn_down_stage")))
    \o <<ResidualAddInst(Act("hidden"), Act("residual"), Act("ffn_down_stage"), 0)>>
P2pAfter(c, l, optionC) ==
    <<MoeDispatchInst(IF c.latent THEN Act("moe_latent") ELSE Act("ffn_down_stage"), OutputSlot(0), Workers, l, optionC)>>
    \o When(c.latent, P2pLatentTail(c, l))

\* Pass 2: moved[i] = inserted_before[i], the number of instructions put before instruction i.
P2pInsert(c, optionC, prog) ==
    LET here(i)  == SelectSeq(prog.barrier, LAMBDA bl : bl[1] = i)
        after(bl) == P2pAfter(c, bl[2], optionC)
        around(i) == IF here(i) = <<>> THEN <<prog.insts[i]>>
                     ELSE P2pBefore(c) \o <<prog.insts[i]>> \o after(here(i)[1])
        moved(i) == LET past == SelectSeq(prog.barrier, LAMBDA bl : bl[1] < i)
                    IN  Len(FlattenSeq([k \in DOMAIN past |-> P2pBefore(c) \o after(past[k])]))
                        + (IF here(i) = <<>> THEN 0 ELSE Len(P2pBefore(c)))
    IN  [insts |-> FlattenSeq([i \in DOMAIN prog.insts |-> around(i)]),
         moved |-> [i \in DOMAIN prog.insts |-> moved(i)],
         post  |-> IF optionC THEN [k \in DOMAIN prog.barrier |-> prog.barrier[k][1] + moved(prog.barrier[k][1]) + 1] ELSE <<>>]

\* Mistake: the copies into the KV cache keep their old indices.
MutP2pReindex(prog, new) ==
    LET Move(i) == i + new.moved[i]
        MoveAll(s) == [i \in DOMAIN s |-> Move(s[i])]
        MovePairs(s) == [i \in DOMAIN s |-> <<Move(s[i][1]), s[i][2]>>]
    IN  [prog EXCEPT !.insts = new.insts, !.post_seq = new.post, !.embedding = Move(@), !.barrier = MovePairs(@),
                     !.act_d2d = MovePairs(@), !.attn_paged = MoveAll(@), !.attn_quant = MoveAll(@)]

P2pReindex(prog, new) ==
    LET Move(i) == i + new.moved[i]
        MoveAll(s) == [i \in DOMAIN s |-> Move(s[i])]
        MovePairs(s) == [i \in DOMAIN s |-> <<Move(s[i][1]), s[i][2]>>]
    IN  [prog EXCEPT !.insts = new.insts, !.post_seq = new.post, !.embedding = Move(@), !.barrier = MovePairs(@),
                     !.act_d2d = MovePairs(@), !.attn_paged = MoveAll(@), !.attn_quant = MoveAll(@),
                     !.kv_write = [a \in DOMAIN @ |-> [h \in DOMAIN @[a] |-> MoveAll(@[a][h])]]]
compile_inner_p2p(c, optionC) ==
    LET prog  == compile_inner(c, TRUE)
        pass1 == FoldLeft(LAMBDA p, bl : P2pPlaceholders(c, p, bl), prog, prog.barrier)
    IN  P2pReindex(pass1, P2pInsert(c, optionC, pass1))

(***************************************************************************)
(* Prefill                                                                 *)
(***************************************************************************)
\* How many layers of this kind come before layer l: gdn_idx, mamba2_idx, attn_layer_idx
CountBefore(c, l, mixer) == Len(SelectSeq(SubSeq(c.layers, 1, l - 1), LAMBDA x : x.mixer = mixer))
PrefillLayer(c, l, start_pos, n) ==
    LET idx == CountBefore(c, l, c.layers[l].mixer)
    IN  CASE c.layers[l].mixer = "attn" ->
               PrefillAttention(c, l, idx, start_pos, n) \o <<ScaleAddInst(Pre("hidden"), Pre("hidden"), 0)>>
               \o compile_ffn_batched(c, l, n)
          [] c.layers[l].mixer = "gdn" ->
               PrefillGdnProjections(c, l, n) \o PerToken(n, LAMBDA t : PrefillGdnToken(c, l, idx, t)) \o compile_ffn_batched(c, l, n)
          [] c.layers[l].mixer = "mamba2" -> PrefillMamba2(c, l, idx, n)
          [] c.layers[l].mixer = "none" -> <<>>
PrefillTail(c, n) == <<D2dCopyInst(Act("hidden"), At(Pre("hidden"), n - 1), 0)>> \o FinalNormLmHead(c)
PrefillLayers(c, from, to, start_pos, n) == FlattenSeq([i \in 1..(to - from + 1) |-> PrefillLayer(c, from + i - 1, start_pos, n)])

\* The position table is written when a program is compiled: the rows of the slab from row 0
\* on by one compiler, the rows of all tokens so far by the other.
SlabPositions(start_pos, n) == [i \in 1..n |-> HostStore(At(PrefillPositionTable, i - 1), start_pos + i - 1)]
SegmentPositions(start_pos, n) == [i \in 1..(start_pos + n) |-> HostStore(At(PrefillPositionTable, i - 1), i - 1)]
compile_prefill_paged_persistent(c, start_pos, n) ==
    SlabPositions(start_pos, n) \o PrefillLayers(c, 1, Len(c.layers), start_pos, n) \o PrefillTail(c, n) \o <<HaltInst>>
compile_prefill_segment_paged(c, from, to, is_last, start_pos, n) ==
    SegmentPositions(start_pos, n) \o PrefillLayers(c, from, to, start_pos, n) \o When(is_last, PrefillTail(c, n)) \o <<HaltInst>>
compile_final_norm_lm_head(c, n) == PrefillTail(c, n) \o <<HaltInst>>
PrefillEmbeddings(tokens) ==
    [t \in DOMAIN tokens |-> EmbeddingInst(At(Pre("hidden"), t - 1), Bf16("embed", 0), tokens[t])]

(* moe_ffn_forward_prefill_batched *)
NormedSlot(t) == At(Act("prefill_moe_normed"), t)
TokenIds(t) == Mapped("per_token_expert_ids", t, 0)
TokenWts(t) == Mapped("per_token_expert_weights", t, 0)
HostStaging(t) == Mapped("activation_staging", t, 0)
LocalOutput(g) == Mapped("local_output", 0, g)
TokenSlot(t, g, num_gpus) == OutputSlot(t * num_gpus + g)

MoePrefillRoute(c, l, n) ==
    PerToken(n, LAMBDA t :
        (IF c.latent THEN <<RmsNorm(c, 1, Act("normed"), At(Pre("hidden"), t), MoeNorm(c, l)),
                            Proj(W(c, "fc1", l), NormedSlot(t), Act("normed"), 0)>>
         ELSE <<RmsNorm(c, 1, NormedSlot(t), At(Pre("hidden"), t), MoeNorm(c, l))>>)
        \o <<LinearProjInst("OP_LINEAR_PROJ", Act("moe_scores"), Bf16("router", l), IF c.latent THEN Act("normed") ELSE NormedSlot(t), 0),
             MoeGateInst(Act("moe_scores"), TokenIds(t), TokenWts(t), Bf16("score_bias", l))>>)
    \o <<D2dCopyInst(HostStaging(0), NormedSlot(0), n), NopInst>>

\* Mistake: every token is routed by the experts of the first.
MutMoePrefillRouting(t) == <<D2dCopyInst(Act("moe_expert_ids"), TokenIds(0), 0), D2dCopyInst(Act("moe_expert_weights"), TokenWts(t), 0)>>

\* The host copies the token's routing where the workers read it.
MoePrefillRouting(t) == <<D2dCopyInst(Act("moe_expert_ids"), TokenIds(t), 0), D2dCopyInst(Act("moe_expert_weights"), TokenWts(t), 0)>>
MoePrefillRemote(c, l, t, g) ==
    <<MoeFfnRemoteInst(HostStaging(t), <<LocalOutput(g)>>, Act("moe_expert_ids"), Act("moe_expert_weights"), ExpertsOf(c, l, g))>>
\* SDMA copies of the workers' outputs into the token's slots
MoePrefillCollect(t) == [g \in DOMAIN Workers |-> D2dCopyInst(TokenSlot(t, Workers[g], Len(Workers) + 1), LocalOutput(Workers[g]), 0)]
MoePrefillLocal(c, l, t) ==
    <<MoeFfnRemoteInst(NormedSlot(t), <<TokenSlot(t, 0, 1)>>, TokenIds(t), TokenWts(t), AllExperts(c, l))>>

MoePrefillCombine(c, l, t, gpus, num_gpus) ==
    <<D2dCopyInst(Act("hidden"), At(Pre("hidden"), t), 0), D2dCopyInst(Act("residual"), Act("hidden"), 0),
      D2dCopyInst(Act("ffn_down"), ZeroBuffer, 0)>>
    \o FlattenSeq([g \in DOMAIN gpus |-> <<D2dCopyInst(Act("moe_expert_out"), TokenSlot(t, gpus[g], num_gpus), 0),
                                           ScaleAddInst(Act("ffn_down"), Act("moe_expert_out"), 1)>>])
    \o When(c.latent, <<D2dCopyInst(Act("moe_expert_out"), Act("ffn_down"), 0),
                        Proj(W(c, "fc2", l), Act("ffn_down"), Act("moe_expert_out"), 0)>>)
MoePrefillShared(c, l) ==
    <<RmsNorm(c, 1, Act("normed"), Act("hidden"), MoeNorm(c, l))>>
    \o SharedUp(c, l, Act("moe_expert_up"), Act("moe_expert_gate"), Act("moe_expert_act"), Act("normed"))
    \o SharedDown(c, l)
    \o (IF c.shared = "gated" THEN <<DotSigmoidScaleAddInst(Act("ffn_down"), Act("moe_expert_out"), Act("normed"), Bf16("se_score", l))>>
        ELSE <<ScaleAddInst(Act("ffn_down"), Act("moe_expert_out"), 1)>>)
MoePrefillFinish(c, l, t, gpus, num_gpus) ==
    MoePrefillCombine(c, l, t, gpus, num_gpus) \o When(c.shared # "none", MoePrefillShared(c, l))
    \o <<ResidualAddInst(Act("hidden"), Act("residual"), Act("ffn_down"), 0), D2dCopyInst(At(Pre("hidden"), t), Act("hidden"), 0)>>
=============================================================================
