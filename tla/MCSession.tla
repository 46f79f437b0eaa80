------------------------------ MODULE MCSession ------------------------------
(***************************************************************************)
(* Instances of Session.                                                   *)
(***************************************************************************)
EXTENDS Session

Basic == [app |-> "chat", gpus |-> 1, moe |-> FALSE, big |-> FALSE, env |-> FALSE, quant |-> FALSE,
          warmup |-> "skip", source |-> "dir", eos |-> "text",
          prompt |-> <<"p", "q">>, hello |-> <<"bos", "hello">>, go |-> <<"go">>]
Vocabulary == {"word", "<think>", "</think>", "!", "eos", "u", "p", "q", "bos", "hello", "go"}
Warmups == {"skip", "empty-packet", "mailbox", "full-decode"}

\* chat on one GPU, dense and MoE, first prompts of one and of two tokens
ChatConfigs ==
    {[Basic EXCEPT !.moe = m, !.go = g, !.source = s, !.quant = m] :
        m \in BOOLEAN, g \in {<<>>, <<"go">>}, s \in {"dir", "bqnt"}}
\* generate on one GPU and on two, with every warm-up
GenerateConfigs ==
    {[Basic EXCEPT !.app = "generate", !.warmup = w, !.moe = m, !.prompt = p, !.source = "bqnt", !.eos = "top"] :
        w \in Warmups, m \in BOOLEAN, p \in {<<>>, <<"p">>, <<"p", "q">>}}
    \cup
    {[Basic EXCEPT !.app = "generate", !.warmup = w, !.gpus = 2, !.moe = TRUE, !.env = e] :
        w \in Warmups, e \in BOOLEAN}
\* Start-ups that are refused
RefusedConfigs ==
    {c \in {[Basic EXCEPT !.app = a, !.gpus = g, !.env = TRUE, !.moe = m, !.quant = q] :
              a \in {"chat", "generate"}, g \in {1, 2}, m \in BOOLEAN, q \in BOOLEAN} :
        c.gpus = 1 \/ ~c.moe \/ c.quant}
\* chat where expert workers are on a second GPU
SeveralGpusChat == {[Basic EXCEPT !.gpus = 2, !.moe = TRUE, !.env = e] : e \in BOOLEAN}
SupportedConfigs == ChatConfigs \cup GenerateConfigs \cup RefusedConfigs \cup SeveralGpusChat
=============================================================================
