---------------------------- MODULE Instructions ----------------------------
(***************************************************************************)
(* The instruction set of the persistent worker: the encoders of           *)
(* megakernel/instructions.rs, and what each opcode does to memory.        *)
(*                                                                         *)
(* A pointer is a tuple <<buffer, row, space, part>>: space 0 is           *)
(* ActivationBuffers, space 1 PrefillBuffers (the caches and recurrent     *)
(* states use it for the layer), part names a slice of the row ("" is all  *)
(* of it).  The contents of memory are symbolic: a term says which         *)
(* operation produced the row, from which weight and which rows.  Addition *)
(* is commutative and associative; every other operation is a free symbol. *)
(* A row that nothing wrote holds its own junk term, so a program that     *)
(* reads before it writes never computes the right thing.                  *)
(***************************************************************************)
EXTENDS Naturals, Sequences, SequencesExt, TLC

Activations   == 0
PrefillBufs   == 1
BufIn(bufs, buf) == <<buf, 0, bufs, "">>
Act(buf)      == BufIn(Activations, buf)
Pre(buf)      == BufIn(PrefillBufs, buf)
At(p, row)    == <<p[1], p[2] + row, p[3], p[4]>>       \* ptr.add(row * stride)
Slice(p, s)   == <<p[1], p[2], p[3], s>>                \* ptr.add(offset of s)
Reg(i)        == <<"reg", i, 0, "">>                    \* LDS and registers
Mapped(buf, i, j) == <<buf, i, j, "">>

(***************************************************************************)
(* Values.  vals is the list of the distinct terms computed so far and a   *)
(* value is the position of its term in it, so two values are equal iff    *)
(* the terms are.  A term is an operation, a weight and the argument       *)
(* values; a sum is the ordered list of its summands.                      *)
(***************************************************************************)
Term(f, w, a) == [f |-> f, w |-> w, a |-> a]
NoWeight      == <<"", 0>>
Junk(p)       == Term("junk", <<p[1], p[3]>>, <<>>)
Zero          == Term("sum", NoWeight, <<>>)

Known(vals, term)  == \E i \in DOMAIN vals : vals[i] = term
Intern(vals, term) == IF Known(vals, term) THEN vals ELSE Append(vals, term)
ValueOf(vals, term) == CHOOSE i \in DOMAIN vals : vals[i] = term

Summands(vals, x) == IF vals[x].f = "sum" THEN vals[x].a ELSE <<x>>
Total(vals, args) ==
    LET parts == FlattenSeq([i \in DOMAIN args |-> Summands(vals, args[i])])
    IN  IF Len(parts) = 1 THEN vals[parts[1]]
        ELSE Term("sum", NoWeight, SortSeq(parts, LAMBDA x, y : x < y))

(* Memory: the value of every row written so far, and the list of values. *)
EmptyMemory == [at |-> <<>>, vals |-> <<>>]
Row(p)      == Slice(p, "")
Store(mem, p, term) ==
    LET vals == Intern(mem.vals, term)
    IN  [at |-> (p :> ValueOf(vals, term)) @@ mem.at, vals |-> vals]
\* The memory after p has been read into the register the read goes through.
Fetch(mem, p, r) ==
    LET row == IF Row(p) \in DOMAIN mem.at THEN mem ELSE Store(mem, Row(p), Junk(p))
    IN  IF p[4] = "" THEN [row EXCEPT !.at = (r :> @[p]) @@ @]
        ELSE Store(row, r, Term("slice", <<p[4], 0>>, <<row.at[Row(p)]>>))

(* What an instruction does is a sequence of assignments d := f(w, s..). *)
Set(d, f, w, s) == [d |-> d, f |-> f, w |-> w, s |-> s]
Operand(i) == <<"operand", i, 0, "">>
\* The rotation by position 0 is the identity.
NoRotation(vals, m, args) == m.f = "rope" /\ vals[args[2]] = Term("num", <<"", 0>>, <<>>)
\* hide: operations to be read as the identity on their first argument
Assign(mem, m, hide) ==
    LET read == FoldLeft(LAMBDA k, i : Fetch(k, m.s[i], Operand(i)), mem, [i \in DOMAIN m.s |-> i])
        args == [i \in DOMAIN m.s |-> read.at[Operand(i)]]
    IN  Store(read, m.d,
              CASE m.f = "copy" \/ m.f \in hide \/ NoRotation(read.vals, m, args) -> read.vals[args[1]]
                [] m.f = "add"  -> Total(read.vals, args)
                [] OTHER        -> Term(m.f, m.w, args))
\* Registers do not outlive the instruction.
Drop(mem)  == [mem EXCEPT !.at = [p \in {q \in DOMAIN @ : q[1] \notin {"operand", "reg"}} |-> @[p]]]
\* The assignments in order, by halves (the test makes the first half the first to be evaluated).
RECURSIVE Run(_, _, _)
Run(mem, assigns, hide) ==
    LET half == Len(assigns) \div 2
        first == Run(mem, SubSeq(assigns, 1, half), hide)
    IN  CASE assigns = <<>> -> mem
          [] Len(assigns) = 1 -> Assign(mem, assigns[1], hide)
          [] OTHER -> IF first.vals # <<>> THEN Run(first, SubSeq(assigns, half + 1, Len(assigns)), hide) ELSE first
Perform(mem, assigns, hide) == Drop(Run(mem, assigns, hide))

(***************************************************************************)
(* Encoders.  o, i and w are the output, input and weight pointers, n is   *)
(* the one integer operand that matters (a row count, a token, a sequence  *)
(* number, a length).  A weight is <<name, layer, format>>.                *)
(***************************************************************************)
Inst(op, o, i, w, n) == [op |-> op, o |-> o, i |-> i, w |-> w, n |-> n]

NopInst == Inst("OP_NOP", <<>>, <<>>, <<>>, 0)
HaltInst == Inst("OP_HALT", <<>>, <<>>, <<>>, 0)
RmsNormInst(op, rows, output, input, weight) == Inst(op, <<output>>, <<input>>, <<weight>>, rows)
LinearProjInst(op, output, weight, input, batch) == Inst(op, <<output>>, <<input>>, <<weight>>, batch)
LinearProj2xInst(oa, ob, wa, wb, input) == Inst("OP_LINEAR_PROJ_2X", <<oa, ob>>, <<input>>, <<wa, wb>>, 0)
Conv1dInst(state, input, weight, output) == Inst("OP_CONV1D", <<output, state>>, <<state, input>>, <<weight>>, 0)
Conv1d3xInst(qs, qi, qw, qo, ks, ki, kw, ko, vs, vi, vw, vo) ==
    Inst("OP_CONV1D_3X", <<qo, qs, ko, ks, vo, vs>>, <<qs, qi, ks, ki, vs, vi>>, <<qw, kw, vw>>, 0)
GdnGateInst(output, a, w) == Inst("OP_GDN_GATE", <<output>>, <<a>>, <<w>>, 0)
GdnRecurInst(q, k, v, gate, b, state, output) ==
    Inst("OP_GDN_RECUR", <<output, state>>, <<q, k, v, gate, b, state>>, <<>>, 0)
RmsNormGateInst(output, x, z, w) == Inst("OP_RMSNORM_GATE", <<output>>, <<x, z>>, <<w>>, 0)
ResidualAddInst(output, src, residual, rows) == Inst("OP_RESIDUAL_ADD", <<output>>, <<src, residual>>, <<>>, rows)
QkNormInst(q, k, qw, kw, batch) == Inst("OP_QK_NORM", <<q, k>>, <<q, k>>, <<qw, kw>>, batch)
MropeInst(q, k, pos_ids, batch) == Inst("OP_MROPE", <<q, k>>, <<q, k, pos_ids>>, <<>>, batch)
OutputGateInst(output, attn_out, gate, rows) == Inst("OP_OUTPUT_GATE", <<output>>, <<attn_out, gate>>, <<>>, rows)
FfnGateUpInst(op, output, hidden, norm, gate, up, batch) == Inst(op, <<output>>, <<hidden>>, <<norm, gate, up>>, batch)
FfnDownResInst(op, output, residual, down, ffn_act, batch) == Inst(op, <<output>>, <<residual, ffn_act>>, <<down>>, batch)
EmbeddingInst(output, weight, token) == Inst("OP_EMBEDDING", <<output>>, <<>>, <<weight>>, token)
D2dCopyInst(dst, src, rows) == Inst("OP_D2D_COPY", <<dst>>, <<src>>, <<>>, rows)
\* D2dCopyInst::with_signal: store seq to the sentinel once the copy is visible
with_signal(copy, sentinel, seq) == [copy EXCEPT !.o = <<@[1], sentinel>>, !.n = seq]
AttnPagedInst(output, q, layer, k_norm, pos_table, seq_len) ==
    Inst("OP_ATTN_PAGED", <<output>>, <<q, Mapped("k", 0, layer), Mapped("v", 0, layer), pos_table>>, k_norm, seq_len)
\* Without KV_QUANT the quantised pass has a null scratch pointer and does nothing.
AttnPagedQInst(q) == Inst("OP_ATTN_PAGED_Q", <<>>, <<q>>, <<>>, 0)
KvWritePagedBatchInst(src, cache, start_pos, n_tokens) ==
    Inst("OP_KV_WRITE_PAGED_BATCH", <<At(cache, start_pos)>>, <<src>>, <<>>, n_tokens)
DeinterleaveInst(q, gate, src, batch) == Inst("OP_DEINTERLEAVE", <<q, gate>>, <<src>>, <<>>, batch)
MoeGateInst(scores, ids, weights, layer) == Inst("OP_MOE_GATE", <<ids, weights>>, <<scores>>, <<layer>>, 0)
MoeFfnInst(ids, weights, normed, ffn_down, w) == Inst("OP_MOE_FFN", <<ffn_down>>, <<ids, weights, normed>>, w, 0)
SigmoidWeightedAddInst(output, scalar, input) == Inst("OP_SIGMOID_WEIGHTED_ADD", <<output>>, <<scalar, input>>, <<>>, 0)
DotSigmoidScaleAddInst(output, src, input, weight) ==
    Inst("OP_DOT_SIGMOID_SCALE_ADD", <<output>>, <<src, input>>, <<weight>>, 0)
\* workers: the GPUs to sum over; descs: whether result_descs is set.  seq_counter is
\* patched by every decode step.
MoeDispatchInst(final_output, output_slots, workers, layer, descs) ==
    Inst("OP_MOE_DISPATCH_POST", <<final_output>>, <<output_slots>>, <<workers, layer, descs>>, 0)
ScaleAddInst(output, src, scale) == Inst("OP_SCALE_ADD", <<output>>, <<src>>, <<>>, scale)
ReluSqInst(output, input) == Inst("OP_RELU_SQ", <<output>>, <<input>>, <<>>, 0)
SiluMulInst(output, gate, up) == Inst("OP_SILU_MUL", <<output>>, <<gate, up>>, <<>>, 0)
Mamba2Conv1dInst(state, input, w, output) == Inst("OP_MAMBA2_CONV1D", <<output, state>>, <<state, input>>, <<w>>, 0)
Mamba2NormGatedInst(output, x, z, w) == Inst("OP_MAMBA2_NORM_GATED", <<output>>, <<x, z>>, <<w>>, 0)
SsmUpdateInst(state, x, dt, b, c, w, output) == Inst("OP_SSM_UPDATE", <<output, state>>, <<state, x, dt, b, c>>, <<w>>, 0)
BarrierInst(layer) == Inst("OP_BARRIER", <<>>, <<>>, <<>>, layer)
\* output is the pair of its two half-buffers; with_wait and with_result_signal add a
\* sentinel to the inputs and to the outputs.
MoeFfnRemoteInst(activation, output, ids, weights, w) ==
    Inst("OP_MOE_FFN_REMOTE", output, <<ids, weights, activation>>, w, 0)
with_wait(inst, ptr, seq) == [inst EXCEPT !.i = @ \o <<ptr>>, !.n = seq]
with_result_signal(inst, ptr, seq) == [inst EXCEPT !.o = @ \o <<ptr>>, !.n = seq]
(***************************************************************************)
(* Kernels: what the opcodes do with their operands.  HostStore is no      *)
(* opcode: the host writes n to mapped memory before it fires the batch.   *)
(***************************************************************************)
HostStore(p, n) == Inst("host store", <<p>>, <<>>, <<>>, n)
KvHeads == <<"h0", "h1">>                       \* num_kv_heads = 2
KvAt(cache, pos, h) == <<cache[1], pos, cache[3] * Len(KvHeads) + h, "">>
ResultSentinel(layer, gpu, seq) == Mapped("moe_result_sentinel", seq % 2, layer * 8 + gpu)
LocalOutputUc(gpu, seq) == Mapped("local_output_uc", seq % 2, gpu)

PerRow(n, F(_)) == FlattenSeq([t \in 1..(IF n = 0 THEN 1 ELSE n) |-> F(t - 1)])

\* The opcodes that decode each weight format; any other opcode reads garbage.
Decodes == [bf16  |-> {"OP_LINEAR_PROJ", "OP_LM_HEAD", "OP_FFN_GATE_UP", "OP_FFN_GATE_UP_WX", "OP_FFN_DOWN_RES"},
            rnf4  |-> {"OP_LINEAR_PROJ_RNF4", "OP_FFN_GATE_UP_RNF4", "OP_FFN_GATE_UP_RNF4_WX", "OP_FFN_DOWN_RES_RNF4"},
            pcg32 |-> {"OP_LINEAR_PROJ_PCG32"}]
Weight(op, w) == IF op \in Decodes[w[3]] THEN <<w[1], w[2]>> ELSE <<"misread", w[2]>>
Name(w) == <<w[1], w[2]>>
Norm(op) == IF op \in {"OP_RMSNORM", "OP_FFN_GATE_UP", "OP_FFN_GATE_UP_RNF4"} THEN "rms(1+w)" ELSE "rms(w)"

\* The experts on this GPU: w = <<layer, activation, shares>>, one summand per share.
Experts(d, w, s) ==
    [i \in DOMAIN w[3] |-> Set(Reg(i), w[2], <<w[3][i], w[1]>>, s)]
    \o <<Set(d, "add", NoWeight, [i \in DOMAIN w[3] |-> Reg(i)])>>

\* OP_ATTN_PAGED: every key is normed and rotated when it is read.
Attend(x) ==
    LET Key(p, h) == Reg(p * 4 + h)
        Read(p) == FlattenSeq([h \in DOMAIN KvHeads |->
            <<Set(Key(p, h), IF x.w = <<>> THEN "copy" ELSE "knorm", IF x.w = <<>> THEN NoWeight ELSE Name(x.w[1]), <<KvAt(x.i[2], p, h)>>),
              Set(Key(p, h), "rope", NoWeight, <<Key(p, h), At(x.i[4], p)>>)>>])
    IN  PerRow(x.n, Read)
        \o <<Set(x.o[1], "attend", NoWeight,
                 <<x.i[1]>> \o PerRow(x.n, LAMBDA p : FlattenSeq([h \in DOMAIN KvHeads |->
                                 <<Key(p, h), KvAt(x.i[3], p, h)>>])))>>

\* OP_MOE_FFN_REMOTE writes the half of its output that the parity of result_seq names.
Remote(x) == Experts(x.o[1 + (x.n % 2)], x.w, SubSeq(x.i, 1, 3))
             \o (IF Len(x.o) = 3 THEN <<Set(x.o[3], "num", <<"", x.n>>, <<>>)>> ELSE <<>>)
\* OP_MOE_DISPATCH_POST: from the workers' memory, or from output_slots without parity.
Post(x) == <<Set(x.o[1], "add", NoWeight, [g \in DOMAIN x.w[1] |->
                 IF x.w[3] THEN LocalOutputUc(x.w[1][g], x.n) ELSE At(x.i[1], x.w[1][g])])>>

Body(x) ==
    CASE x.op \in {"OP_RMSNORM", "OP_RMSNORM_WX"} ->
           PerRow(x.n, LAMBDA t : <<Set(At(x.o[1], t), Norm(x.op), Name(x.w[1]), <<At(x.i[1], t)>>)>>)
      [] x.op \in {"OP_LINEAR_PROJ", "OP_LINEAR_PROJ_RNF4", "OP_LINEAR_PROJ_PCG32", "OP_LM_HEAD"} ->
           PerRow(x.n, LAMBDA t : <<Set(At(x.o[1], t), "proj", Weight(x.op, x.w[1]), <<At(x.i[1], t)>>)>>)
      [] x.op = "OP_LINEAR_PROJ_2X" ->
           <<Set(x.o[1], "proj", Weight("OP_LINEAR_PROJ", x.w[1]), x.i), Set(x.o[2], "proj", Weight("OP_LINEAR_PROJ", x.w[2]), x.i)>>
      [] x.op \in {"OP_CONV1D", "OP_CONV1D_3X", "OP_MAMBA2_CONV1D"} ->      \* output, then the shifted state
           FlattenSeq([c \in DOMAIN x.w |->
             <<Set(x.o[2 * c - 1], "conv", Name(x.w[c]), <<x.i[2 * c - 1], x.i[2 * c]>>),
               Set(x.o[2 * c], "shift", NoWeight, <<x.i[2 * c - 1], x.i[2 * c]>>)>>])
      [] x.op = "OP_GDN_GATE" -> <<Set(x.o[1], "gdn_gate", Name(x.w[1]), x.i)>>
      [] x.op = "OP_GDN_RECUR" -> <<Set(x.o[1], "gdn_out", NoWeight, x.i), Set(x.o[2], "gdn_state", NoWeight, x.i)>>
      [] x.op = "OP_SSM_UPDATE" -> <<Set(x.o[1], "ssm_out", Name(x.w[1]), x.i), Set(x.o[2], "ssm_state", Name(x.w[1]), x.i)>>
      [] x.op \in {"OP_RMSNORM_GATE", "OP_MAMBA2_NORM_GATED"} -> <<Set(x.o[1], "norm_gate", Name(x.w[1]), x.i)>>
      [] x.op = "OP_RESIDUAL_ADD" ->
           PerRow(x.n, LAMBDA t : <<Set(At(x.o[1], t), "add", NoWeight, <<At(x.i[1], t), At(x.i[2], t)>>)>>)
      [] x.op = "OP_QK_NORM" ->
           PerRow(x.n, LAMBDA t : <<Set(At(x.o[1], t), "qnorm", Name(x.w[1]), <<At(x.i[1], t)>>),
                                    Set(At(x.o[2], t), "knorm", Name(x.w[2]), <<At(x.i[2], t)>>)>>)
      [] x.op = "OP_MROPE" ->
           PerRow(x.n, LAMBDA t : [c \in 1..2 |-> Set(At(x.o[c], t), "rope", NoWeight, <<At(x.i[c], t), At(x.i[3], t)>>)])
      [] x.op = "OP_OUTPUT_GATE" ->
           PerRow(x.n, LAMBDA t : <<Set(At(x.o[1], t), "gate", NoWeight, <<At(x.i[1], t), At(x.i[2], t)>>)>>)
      [] x.op \in {"OP_FFN_GATE_UP", "OP_FFN_GATE_UP_WX", "OP_FFN_GATE_UP_RNF4", "OP_FFN_GATE_UP_RNF4_WX"} ->
           PerRow(x.n, LAMBDA t : <<Set(Reg(1), Norm(x.op), Name(x.w[1]), <<At(x.i[1], t)>>),
                                    Set(Reg(2), "proj", Weight(x.op, x.w[2]), <<Reg(1)>>),
                                    Set(Reg(3), "proj", Weight(x.op, x.w[3]), <<Reg(1)>>),
                                    Set(At(x.o[1], t), "silu_mul", NoWeight, <<Reg(2), Reg(3)>>)>>)
      [] x.op \in {"OP_FFN_DOWN_RES", "OP_FFN_DOWN_RES_RNF4"} ->
           PerRow(x.n, LAMBDA t : <<Set(Reg(1), "proj", Weight(x.op, x.w[1]), <<At(x.i[2], t)>>),
                                    Set(At(x.o[1], t), "add", NoWeight, <<At(x.i[1], t), Reg(1)>>)>>)
      [] x.op = "host store" -> <<Set(x.o[1], "num", <<"", x.n>>, <<>>)>>
      [] x.op = "OP_EMBEDDING" -> <<Set(x.o[1], "embed", <<x.w[1][1], x.n>>, <<>>)>>
      [] x.op = "OP_D2D_COPY" ->
           IF Len(x.o) = 2 THEN <<Set(x.o[1], "copy", NoWeight, x.i), Set(x.o[2], "num", <<"", x.n>>, <<>>)>>
           ELSE PerRow(x.n, LAMBDA t : <<Set(At(x.o[1], t), "copy", NoWeight, <<At(x.i[1], t)>>)>>)
      [] x.op = "OP_ATTN_PAGED" -> Attend(x)
      [] x.op = "OP_KV_WRITE_PAGED_BATCH" ->
           PerRow(x.n, LAMBDA t : [h \in DOMAIN KvHeads |->
             Set(KvAt(x.o[1], x.o[1][2] + t, h), "copy", NoWeight, <<Slice(At(x.i[1], t), KvHeads[h])>>)])
      [] x.op = "OP_DEINTERLEAVE" ->
           PerRow(x.n, LAMBDA t : <<Set(At(x.o[1], t), "copy", NoWeight, <<Slice(At(x.i[1], t), "q")>>),
                                    Set(At(x.o[2], t), "copy", NoWeight, <<Slice(At(x.i[1], t), "gate")>>)>>)
      [] x.op = "OP_MOE_GATE" -> <<Set(x.o[1], "top_ids", Name(x.w[1]), x.i), Set(x.o[2], "top_weights", Name(x.w[1]), x.i)>>
      [] x.op = "OP_MOE_FFN" -> Experts(x.o[1], x.w, x.i)
      [] x.op = "OP_MOE_FFN_REMOTE" -> Remote(x)
      [] x.op = "OP_MOE_DISPATCH_POST" -> Post(x)
      [] x.op = "OP_SIGMOID_WEIGHTED_ADD" ->
           <<Set(Reg(1), "sigmoid_mul", NoWeight, x.i), Set(x.o[1], "add", NoWeight, <<x.o[1], Reg(1)>>)>>
      [] x.op = "OP_DOT_SIGMOID_SCALE_ADD" ->
           <<Set(Reg(1), "proj", Name(x.w[1]), <<x.i[2]>>), Set(Reg(1), "sigmoid_mul", NoWeight, <<Reg(1), x.i[1]>>),
             Set(x.o[1], "add", NoWeight, <<x.o[1], Reg(1)>>)>>
      [] x.op = "OP_SCALE_ADD" -> <<Set(x.o[1], "add", NoWeight, <<x.o[1]>> \o (IF x.n = 0 THEN <<>> ELSE x.i))>>
      [] x.op = "OP_RELU_SQ" -> <<Set(x.o[1], "relu_sq", NoWeight, x.i)>>
      [] x.op = "OP_SILU_MUL" -> <<Set(x.o[1], "silu_mul", NoWeight, x.i)>>
      [] x.op \in {"OP_NOP", "OP_HALT", "OP_ATTN_PAGED_Q"} -> <<>>

\* The sentinels an instruction spins on, until each equals its sequence number.
Awaits(x) ==
    CASE x.op = "OP_MOE_FFN_REMOTE" /\ Len(x.i) = 4 -> {x.i[4]}
      [] x.op = "OP_MOE_DISPATCH_POST" /\ x.w[3] -> {ResultSentinel(x.w[2], x.w[1][g], x.n) : g \in DOMAIN x.w[1]}
      [] OTHER -> {}
Holds(mem, p, n) == p \in DOMAIN mem.at /\ mem.vals[mem.at[p]] = Term("num", <<"", n>>, <<>>)
Ready(mem, x) == \A s \in Awaits(x) : Holds(mem, s, x.n)

=============================================================================
