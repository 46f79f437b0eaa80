------------------------------- MODULE Network -------------------------------
(***************************************************************************)
(* What a model computes, independently of how it is compiled: the layers  *)
(* as assignments to named values, one value per name, layer and position, *)
(* no buffer reused.  Configurations are those of Compiler.                *)
(***************************************************************************)
EXTENDS Instructions

V(name, l)      == <<name, l, 100, "">>         \* a value of layer l
P(name, l, pos) == <<name, l, 101 + pos, "">>   \* ... that belongs to a position
Wt(name, l)     == <<name, l>>
Let(d, f, w, s) == <<Set(d, f, w, s)>>
RmsOf(c)        == IF c.onep THEN "rms(1+w)" ELSE "rms(w)"
AddTo(x, ys)    == Let(x, "add", NoWeight, <<x>> \o ys)
X               == V("x", 0)                    \* the residual stream

\* Raw keys and values stay; queries and keys are normed and rotated when they meet.
Attention(c, l, pos) ==
    LET Key(i, h) == P(<<"key1", "key2">>[h], l, i)
        Cached(i) == FlattenSeq([h \in DOMAIN KvHeads |->
                        Let(Key(i, h), "copy", NoWeight, <<Slice(P("k", l, i), KvHeads[h])>>)
                        \o (IF c.qk THEN Let(Key(i, h), "knorm", Wt("k_norm", l), <<Key(i, h)>>) ELSE <<>>)
                        \o Let(V("pos", i), "num", <<"", i>>, <<>>)
                        \o Let(Key(i, h), "rope", NoWeight, <<Key(i, h), V("pos", i)>>)])
    IN  Let(V("n", l), RmsOf(c), Wt("input_norm", l), <<X>>)
        \o Let(V("qg", l), "proj", Wt("w_q_gate", l), <<V("n", l)>>)
        \o Let(P("k", l, pos), "proj", Wt("w_k", l), <<V("n", l)>>)
        \o Let(P("v", l, pos), "proj", Wt("w_v", l), <<V("n", l)>>)
        \o Let(V("q", l), "copy", NoWeight, <<IF c.gate THEN Slice(V("qg", l), "q") ELSE V("qg", l)>>)
        \o (IF c.qk THEN Let(V("q", l), "qnorm", Wt("q_norm", l), <<V("q", l)>>) ELSE <<>>)
        \o Let(V("pos", pos), "num", <<"", pos>>, <<>>)
        \o Let(V("q", l), "rope", NoWeight, <<V("q", l), V("pos", pos)>>)
        \o FlattenSeq([i \in 1..(pos + 1) |-> Cached(i - 1)])
        \o Let(V("o", l), "attend", NoWeight, <<V("q", l)>> \o FlattenSeq([i \in 1..(pos + 1) |->
               FlattenSeq([h \in DOMAIN KvHeads |-> <<Key(i - 1, h), Slice(P("v", l, i - 1), KvHeads[h])>>])]))
        \o (IF c.gate THEN Let(V("o", l), "gate", NoWeight, <<V("o", l), Slice(V("qg", l), "gate")>>) ELSE <<>>)
        \o Let(V("y", l), "proj", Wt("w_o", l), <<V("o", l)>>) \o AddTo(X, <<V("y", l)>>)

ConvName == [q |-> "conv.q", k |-> "conv.k", v |-> "conv.v"]
DeltaNet(c, l) ==
    LET In(s) == Slice(V("qkv", l), s)  St(s) == V(ConvName[s], l)
        Conv(s, w) == Let(V(s, l), "conv", Wt(w, l), <<St(s), In(s)>>) \o Let(St(s), "shift", NoWeight, <<St(s), In(s)>>)
        args == <<V("q", l), V("k", l), V("v", l), V("g", l), V("b", l), V("S", l)>>
    IN  Let(V("n", l), RmsOf(c), Wt("input_norm", l), <<X>>)
        \o FlattenSeq([i \in 1..4 |-> Let(V(<<"qkv", "a", "b", "z">>[i], l), "proj", Wt(<<"w_qkv", "w_a", "w_b", "w_z">>[i], l), <<V("n", l)>>)])
        \o Conv("q", "conv_q") \o Conv("k", "conv_k") \o Conv("v", "conv_v")
        \o Let(V("g", l), "gdn_gate", Wt("a_log", l), <<V("a", l)>>)
        \o Let(V("o", l), "gdn_out", NoWeight, args) \o Let(V("S", l), "gdn_state", NoWeight, args)
        \o Let(V("o", l), "norm_gate", Wt("output_norm", l), <<V("o", l), V("z", l)>>)
        \o Let(V("y", l), "proj", Wt("w_out", l), <<V("o", l)>>) \o AddTo(X, <<V("y", l)>>)

StateSpace(c, l) ==
    LET In(s) == Slice(V("p", l), s)  Cv(s) == Slice(V("cv", l), s)
        args == <<V("S", l), Cv("x"), In("dt"), Cv("B"), Cv("C")>>
    IN  Let(V("n", l), RmsOf(c), Wt("input_norm", l), <<X>>) \o Let(V("p", l), "proj", Wt("in_proj", l), <<V("n", l)>>)
        \o Let(V("cv", l), "conv", Wt("conv1d", l), <<V("cs", l), In("xBC")>>) \o Let(V("cs", l), "shift", NoWeight, <<V("cs", l), In("xBC")>>)
        \o Let(V("o", l), "ssm_out", Wt("ssm", l), args) \o Let(V("S", l), "ssm_state", Wt("ssm", l), args)
        \o Let(V("o", l), "norm_gate", Wt("norm", l), <<V("o", l), In("gate")>>)
        \o Let(V("y", l), "proj", Wt("out_proj", l), <<V("o", l)>>) \o AddTo(X, <<V("y", l)>>)

Swiglu(l, x, gate, up, down) ==
    Let(V("fg", l), "proj", Wt(gate, l), <<x>>) \o Let(V("fu", l), "proj", Wt(up, l), <<x>>)
    \o Let(V("fa", l), "silu_mul", NoWeight, <<V("fg", l), V("fu", l)>>) \o Let(V("f", l), "proj", Wt(down, l), <<V("fa", l)>>)
DenseFfn(c, l) ==
    Let(V("n", l), RmsOf(c), Wt("post_norm", l), <<X>>) \o Swiglu(l, V("n", l), "w_gate", "w_up", "w_down") \o AddTo(X, <<V("f", l)>>)

SharedExpert(c, l) ==
    (IF c.swiglu THEN Swiglu(l, V("n", l), "se_gate", "se_up", "se_down")
     ELSE Let(V("fu", l), "proj", Wt("se_up", l), <<V("n", l)>>) \o Let(V("fa", l), "relu_sq", NoWeight, <<V("fu", l)>>)
          \o Let(V("f", l), "proj", Wt("se_down", l), <<V("fa", l)>>))
    \o (IF c.shared = "gated" THEN Let(V("sg", l), "proj", Wt("se_score", l), <<V("n", l)>>)
                                   \o Let(V("f", l), "sigmoid_mul", NoWeight, <<V("sg", l), V("f", l)>>) ELSE <<>>)
\* All experts take part; which of them the routing selects is inside the symbol.
ExpertFfn(c, l, shares) ==
    LET E(i) == V(shares[i], l)  h == IF c.latent THEN V("h", l) ELSE V("n", l)
    IN  Let(V("n", l), RmsOf(c), Wt(IF c.layers[l].mixer = "none" THEN "input_norm" ELSE "post_norm", l), <<X>>)
        \o Let(V("s", l), "proj", Wt("router", l), <<V("n", l)>>)
        \o Let(V("ids", l), "top_ids", Wt("score_bias", l), <<V("s", l)>>) \o Let(V("wts", l), "top_weights", Wt("score_bias", l), <<V("s", l)>>)
        \o (IF c.latent THEN Let(h, "proj", Wt("fc1", l), <<V("n", l)>>) ELSE <<>>)
        \o FlattenSeq([i \in DOMAIN shares |-> Let(E(i), IF c.swiglu THEN "swiglu_experts" ELSE "relu2_experts", Wt(shares[i], l),
                                                   <<V("ids", l), V("wts", l), h>>)])
        \o Let(V("e", l), "add", NoWeight, [i \in DOMAIN shares |-> E(i)])
        \o (IF c.latent THEN Let(V("e", l), "proj", Wt("fc2", l), <<V("e", l)>>) ELSE <<>>)
        \o (IF c.shared = "none" THEN <<>> ELSE SharedExpert(c, l) \o AddTo(V("e", l), <<V("f", l)>>))
        \o AddTo(X, <<V("e", l)>>)

\* Token number pos (from 0) through all layers
Token(c, shares, token, pos) ==
    Let(X, "embed", <<"embed", token>>, <<>>)
    \o FlattenSeq([l \in DOMAIN c.layers |->
         (CASE c.layers[l].mixer = "attn" -> Attention(c, l, pos) [] c.layers[l].mixer = "gdn" -> DeltaNet(c, l)
            [] c.layers[l].mixer = "mamba2" -> StateSpace(c, l) [] c.layers[l].mixer = "none" -> <<>>)
         \o (CASE c.layers[l].ffn = "dense" -> DenseFfn(c, l) [] c.layers[l].ffn = "moe" -> ExpertFfn(c, l, shares)
            [] c.layers[l].ffn = "none" -> <<>>)])
Logits(c) == Let(V("nf", 0), RmsOf(c), Wt("final_norm", 0), <<X>>)
             \o Let(V("logits", 0), "proj", Wt(IF c.tied THEN "embed" ELSE "lm_head", 0), <<V("nf", 0)>>)
StateNames(c, l) == CASE c.layers[l].mixer = "gdn" -> <<"conv.q", "conv.k", "conv.v", "S">>
                      [] c.layers[l].mixer = "mamba2" -> <<"cs", "S">> [] OTHER -> <<>>
Fresh(c) == FlattenSeq([l \in DOMAIN c.layers |-> [i \in DOMAIN StateNames(c, l) |-> Set(V(StateNames(c, l)[i], l), "add", NoWeight, <<>>)]])
\* The whole network on a sequence of tokens
Evaluate(c, shares, tokens) ==
    Fresh(c) \o FlattenSeq([i \in DOMAIN tokens |-> Token(c, shares, tokens[i], i - 1)]) \o Logits(c)
=============================================================================
