------------------------------- MODULE Program -------------------------------
(***************************************************************************)
(* A model run: prefill and decode steps compile, patch and dispatch the   *)
(* programs of Compiler, the workers execute them, and what ends up in the *)
(* logits, the KV cache and the recurrent states is compared with what the *)
(* network computes from the same tokens.                                  *)
(*                                                                         *)
(* job is the work the host has planned: a sequence of rounds, each a      *)
(* batch per GPU.  The batches of a round are in flight together, the host *)
(* goes on to the next round when all of them are acknowledged.            *)
(***************************************************************************)
EXTENDS Compiler, Network

CONSTANTS Configs,          \* the model configurations to run
          Modes,            \* "single": one GPU; "optionC", "default": expert GPUs
          CHUNK,            \* tokens per prefill chunk (CHUNK_TOKENS)
          PromptLens,       \* lengths of the prompt; 0 starts by decoding
          MaxTokens,        \* bound: tokens of the sequence
          Ignored           \* operations that a comparison after a prompt abstracts from

VARIABLES cfg,              \* [model, mode, hide]
          mem,              \* device and mapped memory
          prog,             \* the compiled decode program, or NewProgram
          job,              \* rounds still to be executed
          toks,             \* the tokens consumed so far
          logits            \* where the last step left its logits

vars == <<cfg, mem, prog, job, toks, logits>>

c == cfg.model
Gpus == {0} \cup {Workers[i] : i \in DOMAIN Workers}
Multi == cfg.mode # "single"
HasMoe(m) == \E l \in DOMAIN m.layers : m.layers[l].ffn = "moe"

Round(batch) == [g \in Gpus |-> IF g \in DOMAIN batch THEN batch[g] ELSE <<>>]
OnGpu0(insts) == <<Round(0 :> insts)>>

(* Prefill *)
Chunks(tokens) == [i \in 1..((Len(tokens) + CHUNK - 1) \div CHUNK) |->
                     SubSeq(tokens, (i - 1) * CHUNK + 1, IF i * CHUNK < Len(tokens) THEN i * CHUNK ELSE Len(tokens))]

prefill_paged(tokens, seq_len) ==
    FlattenSeq([i \in DOMAIN Chunks(tokens) |->
        LET chunk == Chunks(tokens)[i]  start_pos == seq_len + (i - 1) * CHUNK
        IN  OnGpu0(PrefillEmbeddings(chunk)) \o OnGpu0(compile_prefill_paged_persistent(c, start_pos, Len(chunk)))])

moe_ffn_forward_prefill_batched(l, n) ==
    LET remote(t) == OnGpu0(MoePrefillRouting(t))
                     \o <<Round([g \in Gpus \ {0} |-> MoePrefillRemote(c, l, t, g)])>>
                     \o OnGpu0(MoePrefillCollect(t))
    IN  OnGpu0(MoePrefillRoute(c, l, n))
        \o (IF Multi THEN PerToken(n, remote) ELSE PerToken(n, LAMBDA t : OnGpu0(MoePrefillLocal(c, l, t))))
        \o PerToken(n, LAMBDA t : OnGpu0(MoePrefillFinish(c, l, t, IF Multi THEN Workers ELSE <<0>>, IF Multi THEN Len(Workers) + 1 ELSE 1)))

\* One layer of the walk of prefill_mixed_chunk_paged: layers without experts are gathered
\* into spans, a layer with experts is a segment of its own.
MixedLayer(acc, l, start_pos, n) ==
    LET last == l = Len(c.layers)
        moe(k) == c.layers[k].ffn = "moe"
        segment(from, is_last) == OnGpu0(compile_prefill_segment_paged(c, from, l, is_last, start_pos, n))
    IN  IF moe(l)
        THEN [rounds |-> acc.rounds \o (IF c.layers[l].mixer = "none" THEN <<>> ELSE segment(l, FALSE))
                         \o moe_ffn_forward_prefill_batched(l, n)
                         \o (IF last THEN OnGpu0(compile_final_norm_lm_head(c, n)) ELSE <<>>),
              from |-> l + 1]
        ELSE IF last \/ moe(l + 1)
        THEN [rounds |-> acc.rounds \o segment(acc.from, last), from |-> l + 1]
        ELSE acc
prefill_mixed_chunk_paged(chunk, start_pos) ==
    OnGpu0(PrefillEmbeddings(chunk))
    \o FoldLeft(LAMBDA acc, l : MixedLayer(acc, l, start_pos, Len(chunk)), [rounds |-> <<>>, from |-> 1],
                [l \in DOMAIN c.layers |-> l]).rounds
prefill_batched(tokens, seq_len) ==
    FlattenSeq([i \in DOMAIN Chunks(tokens) |-> prefill_mixed_chunk_paged(Chunks(tokens)[i], seq_len + (i - 1) * CHUNK)])

(* Decode: the fields of the compiled program that every step patches *)
update_step_paged_no_upload(p, token, position) ==
    LET Dst(k, h, cache(_)) == KvAt(cache(k - 1), position, h)
        KvPatch(insts, k) == FoldLeft(LAMBDA s, h :
                [s EXCEPT ![p.kv_write[k][h][1]].o = <<Dst(k, h, KCache)>>, ![p.kv_write[k][h][2]].o = <<Dst(k, h, VCache)>>],
                insts, [h \in DOMAIN KvHeads |-> h])
        kv   == FoldLeft(KvPatch, [p.insts EXCEPT ![p.embedding].n = token], [k \in DOMAIN p.kv_write |-> k])
        attn == FoldLeft(LAMBDA s, i : [s EXCEPT ![i].n = position + 1], kv, p.attn_paged)
    IN  [p EXCEPT !.insts = attn]
\* The LM head of a decode program writes the logits that the host reads.
PatchLmHead(p) == [p EXCEPT !.insts = [i \in DOMAIN @ |-> IF @[i].op = "OP_LM_HEAD" THEN [@[i] EXCEPT !.o = <<Act("logits_mapped")>>] ELSE @[i]]]

\* decode_step_p2p_inner: the double-buffer slot and the sequence number of this step
PatchHandOff(p, seq) ==
    LET slot == seq % 2
        one(s, d) == [s EXCEPT ![d[1] - 3].o = <<Staging(slot)>>, ![d[1] - 1].o = <<RoutingIds(slot)>>,
                               ![d[1]].o = <<RoutingWts(slot), ActSentinel(d[2], slot)>>, ![d[1]].n = seq]
        acts == FoldLeft(one, p.insts, p.act_d2d)
    IN  [p EXCEPT !.insts = FoldLeft(LAMBDA s, i : [s EXCEPT ![i].n = seq], acts, p.post_seq)]

\* dispatch_moe_workers_decode_async: the batch of worker g for layer l
WorkerInst(l, g, seq) ==
    LET slot == seq % 2
        out  == IF cfg.mode = "optionC" THEN <<LocalOutputUc(g, 0), LocalOutputUc(g, 1)>>
                ELSE IF c.latent THEN <<OutputSlot(g), Mapped("output_slots", g, 1)>>
                ELSE <<OutputSlot(g), OutputSlot(g + 1)>>
        base == [MoeFfnRemoteInst(Staging(slot), out, RoutingIds(slot), RoutingWts(slot), ExpertsOf(c, l, g)) EXCEPT !.n = seq]
        wait == IF c.latent THEN base ELSE with_wait(base, ActSentinel(l, slot), seq)
    IN  IF cfg.mode = "optionC" THEN with_result_signal(wait, ResultSentinel(l, g, seq), seq) ELSE wait

\* The program is cut after every barrier; the segment up to it and the workers' batches
\* are in flight together.  The rest, up to HALT, is the last round.
Segments(p, seq) ==
    LET End(k) == IF k = 0 THEN 0 ELSE p.barrier[k][1]
        Cut(k) == Round([g \in Gpus |-> IF g = 0 THEN SubSeq(p.insts, End(k - 1) + 1, End(k))
                                        ELSE <<WorkerInst(p.barrier[k][2], g, seq)>>])
    IN  [k \in DOMAIN p.barrier |-> Cut(k)] \o OnGpu0(SubSeq(p.insts, End(Len(p.barrier)) + 1, Len(p.insts) - 1))

(* Host stores before a decode step: position_ids, and the token's row of the position table *)
HostWrite(m, p, n) == Perform(m, <<Set(p, "num", <<"", n>>, <<>>)>>, {})
SetPosition(m, position) == HostWrite(HostWrite(m, Act("position_ids"), position), Mapped("position_table", position, 0), position)

(* States of the model when it is loaded: recurrent states and mapped buffers are zeroed *)
ZeroedBuffers(m) ==
    {ZeroBuffer} \cup {ConvState(i, r) : i \in 0..CountBefore(m, Len(m.layers) + 1, "gdn"), r \in 0..2}
    \cup {GdnState(i) : i \in 0..CountBefore(m, Len(m.layers) + 1, "gdn")}
    \cup UNION {{Mamba2Conv(i), Mamba2Ssm(i)} : i \in 0..CountBefore(m, Len(m.layers) + 1, "mamba2")}
Positions == {At(Pre("position_ids"), t) : t \in 0..(CHUNK - 1)}
             \cup {At(table, i) : table \in {PositionTable, PrefillPositionTable}, i \in 0..(MaxTokens - 1)}
Loaded(m) == [at |-> [p \in ZeroedBuffers(m) |-> 1] @@ [p \in Positions |-> 2], vals |-> <<Zero, Term("num", <<"", 0>>, <<>>)>>]

\* hide: what the comparison with the network abstracts from.  Without a prompt, nothing.  A
\* prompt's keys are cached after norm and rotation and normed and rotated again when read, its
\* queries are rotated by position 0 because nothing writes the positions of PrefillBuffers,
\* and decode's position table has no rows for it: with Ignored = {} the comparison fails.
Init ==
    /\ \E m \in Configs, mode \in Modes, n \in PromptLens :
          /\ m.latent => mode # "single" /\ n > 0
          /\ cfg = [model |-> m, mode |-> mode, prompt |-> n, hide |-> IF n = 0 THEN {} ELSE Ignored]
          /\ mem = Loaded(m)
    /\ prog = NewProgram
    /\ job = <<>>
    /\ toks = <<>>
    /\ logits = Act("logits")

\* Nothing orders the workers of a latent model after the copy of the latent activation
\* (no sentinel, slot 0 whatever the step): only its prefill is run.
Bound == IF c.latent THEN cfg.prompt ELSE MaxTokens
NewTokens(n) == [i \in 1..n |-> Len(toks) + i]  \* every token of a run is different

\* Model::prefill, for a model without and with experts
Prefill(rounds(_, _)) ==
    /\ job = <<>> /\ toks = <<>> /\ cfg.prompt > 0
    /\ job' = rounds(NewTokens(cfg.prompt), Len(toks))
    /\ toks' = toks \o NewTokens(cfg.prompt)
    /\ logits' = Act("logits")
    /\ UNCHANGED <<cfg, mem, prog>>
PrefillDense == ~HasMoe(c) /\ Prefill(prefill_paged)
PrefillMoe   == HasMoe(c) /\ Prefill(prefill_batched)

Decode(compiled, rounds(_)) ==
    /\ job = <<>> /\ Len(toks) < Bound
    /\ cfg.prompt > 0 => toks # <<>>
    /\ LET position == Len(toks)
           p == update_step_paged_no_upload(PatchLmHead(IF prog = NewProgram THEN compiled ELSE prog), NewTokens(1)[1], position)
       IN  /\ prog' = PatchHandOff(p, position + 1)
           /\ mem' = SetPosition(mem, position)
           /\ job' = rounds(prog')
    /\ toks' = toks \o NewTokens(1)
    /\ logits' = Act("logits_mapped")
    /\ UNCHANGED cfg

\* decode_step_persistent
DecodeSingle == ~Multi /\ Decode(compile_inner(c, FALSE), LAMBDA p : OnGpu0(SubSeq(p.insts, 1, Len(p.insts) - 1)))
\* decode_step_p2p_inner
DecodeP2p    == Multi /\ Decode(compile_inner_p2p(c, cfg.mode = "optionC"), LAMBDA p : Segments(p, Len(toks) + 1))

\* A worker executes instructions of its batch: one while another GPU is busy, all of them
\* when it is alone.
Busy == {g \in Gpus : job # <<>> /\ Head(job)[g] # <<>>}
Execution(g) ==
    /\ g \in Busy
    /\ LET batch == Head(job)[g]
           k == IF Busy = {g} THEN Len(batch) ELSE 1
           left == [Head(job) EXCEPT ![g] = SubSeq(@, k + 1, Len(@))]
       IN  /\ Ready(mem, batch[1])
           /\ mem' = Perform(mem, FlattenSeq([i \in 1..k |-> Body(batch[i])]), cfg.hide)
           /\ job' = IF \A h \in Gpus : left[h] = <<>> THEN Tail(job) ELSE <<left>> \o Tail(job)
    /\ UNCHANGED <<cfg, prog, toks, logits>>

Finished == job = <<>> /\ Len(toks) >= Bound /\ UNCHANGED vars

Next == PrefillDense \/ PrefillMoe \/ DecodeSingle \/ DecodeP2p \/ (\E g \in Gpus : Execution(g)) \/ Finished

Spec == Init /\ [][Next]_vars

-----------------------------------------------------------------------------
(* Properties *)

\* The types of the host's variables: the planned batches are instructions of known GPUs and the
\* recorded indices lie inside the compiled program.
TypeOK ==
    /\ cfg.model \in Configs /\ cfg.mode \in Modes
    /\ \A i \in DOMAIN job : DOMAIN job[i] = Gpus
    /\ \A p \in DOMAIN mem.at : mem.at[p] \in DOMAIN mem.vals
    /\ \A i \in DOMAIN prog.attn_paged : prog.attn_paged[i] \in DOMAIN prog.insts
    /\ logits \in {Act("logits"), Act("logits_mapped")}

Reference == Perform(mem, Evaluate(c, Shares, toks), cfg.hide)
Idle == job = <<>> /\ toks # <<>>

\* When a prefill or a decode step returns, the logits the host reads are those of the network on
\* all tokens so far: every layer read what the layer before it wrote, no scratch buffer was reused
\* too early, every weight went to an opcode of its format, the experts' shares were summed once.
\* In a behaviour that only decodes this is equality.  In one with a prompt it is equality up to
\* the operations in Ignored; with the key norm and all rotations, of keys and of queries, it
\* holds, with none ignored it fails (tests/prefill_test.rs: prefill should match decode).
LogitsAreTheNetworks ==
    Idle => LET r == Reference IN logits \in DOMAIN r.at /\ r.at[logits] = r.at[V("logits", 0)]

KeyPairs(l) == {<<KvAt(KCache(CountBefore(c, l, "attn")), pos, h), Slice(P("k", l, pos), KvHeads[h])>> :
                   pos \in 0..(Len(toks) - 1), h \in DOMAIN KvHeads}
ValuePairs(l) == {<<KvAt(VCache(CountBefore(c, l, "attn")), pos, h), Slice(P("v", l, pos), KvHeads[h])>> :
                   pos \in 0..(Len(toks) - 1), h \in DOMAIN KvHeads}
StatePairs(l) ==
    CASE c.layers[l].mixer = "attn" -> KeyPairs(l) \cup ValuePairs(l)
      [] c.layers[l].mixer = "gdn" ->
           LET i == CountBefore(c, l, "gdn") IN
           {<<ConvState(i, 0), V("conv.q", l)>>, <<ConvState(i, 1), V("conv.k", l)>>,
            <<ConvState(i, 2), V("conv.v", l)>>, <<GdnState(i), V("S", l)>>}
      [] c.layers[l].mixer = "mamba2" ->
           LET i == CountBefore(c, l, "mamba2") IN {<<Mamba2Conv(i), V("cs", l)>>, <<Mamba2Ssm(i), V("S", l)>>}
      [] OTHER -> {}
\* ... and what the next step continues from, the cache of every attention layer at every position
\* and every recurrent state, is what the network has after the same tokens: exactly if they were
\* decoded, up to the operations in Ignored if a prompt was prefilled.  The cache of a prompt does
\* not hold the raw keys that decode caches; it holds them in the right places and with those
\* operations, and no others, applied.
StatesAreTheNetworks ==
    Idle => LET r == Reference
                Same(a, b) == LET x == Fetch(Fetch(r, a, Operand(1)), b, Operand(2)) IN x.at[Operand(1)] = x.at[Operand(2)]
            IN  \A l \in DOMAIN c.layers : \A ab \in StatePairs(l) : Same(ab[1], ab[2])

\* The instructions that a decode step patches are the ones it means: after the insertions of
\* compile_inner_p2p every recorded index still points at its instruction, and the copies found at
\* distances 3 and 1 before the routing weights are those of the activation and the expert ids.
PatchesReachTheirInstructions ==
    prog # NewProgram =>
       /\ prog.insts[prog.embedding].op = "OP_EMBEDDING"
       /\ \A a \in DOMAIN prog.kv_write : \A h \in DOMAIN KvHeads :
            /\ prog.insts[prog.kv_write[a][h][1]].i = <<Slice(Act("k_attn"), KvHeads[h])>>
            /\ prog.insts[prog.kv_write[a][h][2]].i = <<Slice(Act("v_attn"), KvHeads[h])>>
       /\ \A i \in DOMAIN prog.attn_paged : prog.insts[prog.attn_paged[i]].op = "OP_ATTN_PAGED"
       /\ \A i \in DOMAIN prog.attn_quant : prog.insts[prog.attn_quant[i]].op = "OP_ATTN_PAGED_Q"
       /\ \A i \in DOMAIN prog.post_seq : prog.insts[prog.post_seq[i]].op = "OP_MOE_DISPATCH_POST"
       /\ \A i \in DOMAIN prog.act_d2d :
            /\ prog.insts[prog.act_d2d[i][1] - 3].i = <<Act("normed")>>
            /\ prog.insts[prog.act_d2d[i][1] - 1].i = <<Act("moe_expert_ids")>>
            /\ prog.insts[prog.act_d2d[i][1]].i = <<Act("moe_expert_weights")>>
=============================================================================
