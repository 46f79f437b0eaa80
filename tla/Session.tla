------------------------------- MODULE Session -------------------------------
(***************************************************************************)
(* The programs chat and generate around one Model: start-up and warm-up,  *)
(* the turns of a conversation, the token loop, and underneath which       *)
(* persistent workers exist, which programs are compiled and what the      *)
(* model has been fed.  Persistent workers are launched lazily by four     *)
(* functions that each look at something else; reset_state takes them all  *)
(* down.  What the model answers is a free choice, errors may occur in     *)
(* every call that can return one.                                         *)
(***************************************************************************)
EXTENDS Integers, Sequences, SequencesExt

CONSTANTS Configs,          \* installations and command lines
          Token,            \* the tokenizer's vocabulary
          Users,            \* what a user may type
          MaxTurns,         \* bound: turns of a chat
          MaxTokens,        \* MAX_TOKENS
          WarmupTokens,     \* tokens of a decoding warm-up (4)
          BangRun,          \* SIG_A_MIN_BANG_RUN (3)
          MaxRetries        \* BRAIDINFER_WARMUP_RETRIES

ASSUME SessionAssumption ==
    {MaxTurns, MaxTokens, WarmupTokens, BangRun, MaxRetries} \subseteq Nat /\ MaxRetries > 0

Answers == {"word", "<think>", "</think>", "!", "eos"}
WarmupAnswers == {"word", "!", "eos"}       \* a warm-up tells no others apart

Text == Seq(Token)

\* What is typed and answered are tokens; a machine has a GPU, and "Hello" is at least one token.
ASSUME ConfigAssumption ==
    /\ Users \subseteq Token /\ Answers \subseteq Token
    /\ \A c \in Configs :
          /\ c.gpus \in Nat \ {0} /\ c.moe \in BOOLEAN
          /\ c.prompt \in Text /\ c.go \in Text
          /\ c.hello \in Text /\ c.hello # <<>>

VARIABLES
    cfg,                    \* the member of Configs this process runs with
    pc,                     \* where the program is
    model,                  \* the Model, a record
    attempts,               \* warmup_attempts
    leftover,               \* what a warm-up has fed to this model
    turns,                  \* lines read by chat
    user, prompt, generated,    \* user_input, prompt_ids and the tokens fed after them
    next, position,         \* next_token and the position it will get
    thinking, response,     \* in_thinking and the text so far
    history                 \* user_input and response of every turn, one after the other

turnVars == <<user, prompt, generated, next, position, thinking, response>>
vars == <<cfg, pc, model, attempts, leftover, turns, turnVars, history>>

-----------------------------------------------------------------------------
(* Start-up decisions *)

\* apply_auto_modes: does the program believe it runs on several GPUs?
AutoMultiGpu(c) == c.big /\ c.gpus > 1
MultiGpuMode(c) == c.env \/ AutoMultiGpu(c)
\* validate_env_combos, and the rejections before it
Rejected(c) == MultiGpuMode(c) /\ (~c.moe \/ c.quant)

\* Mistake: neither loader looks at the top level.
MutStopTokens(c) == IF c.eos = "top" THEN {} ELSE {"eos"}

\* TokenConfig: from_model_dir looks for EOS ids among the special tokens and in text_config,
\* from_bqnt also at the top level of the configuration.
StopTokens(c) == IF c.eos = "top" /\ c.source = "dir" THEN {} ELSE {"eos"}
IsStopToken(t) == t \in StopTokens(cfg)

-----------------------------------------------------------------------------
(* The Model: workers and programs *)

None == [slots |-> 0, live |-> {}]
NumGpus(m) == IF m.multi_gpu THEN cfg.gpus ELSE 1          \* devices of MultiGpuContext
Experts(m) == 1..(NumGpus(m) - 1)

Loaded == [dispatch |-> None, crowded |-> FALSE, multi_gpu |-> FALSE,
           moe_p2p |-> FALSE, mk_p2p |-> FALSE, mk_paged |-> FALSE,
           paged_seq |-> FALSE, kv |-> <<>>, rec |-> <<>>, seq_len |-> 0]

\* add_device launches the kernel before it looks at the slot; crowded: the GPU was occupied
AddDevice(m, g) ==
    [m EXCEPT !.dispatch = [slots |-> IF g >= @.slots THEN g + 1 ELSE @.slots, live |-> @.live \cup {g}],
              !.crowded = @ \/ g \in m.dispatch.live]
\* init_with_total, assigned over the dispatcher there was: that one would be dropped afterwards,
\* but each caller finds none (ModelInv)
InitWithTotal(m, total, gs) ==
    [m EXCEPT !.dispatch = [slots |-> total, live |-> gs],
              !.crowded = @ \/ gs \cap m.dispatch.live # {}]

\* Mistake: has_worker is forgotten.
MutEnsureWorker(m) ==
    IF m.mk_paged /\ m.dispatch # None THEN m
    ELSE LET p == [m EXCEPT !.mk_paged = TRUE, !.paged_seq = TRUE]
         IN  IF m.dispatch = None THEN InitWithTotal(p, 1, {0}) ELSE AddDevice(p, 0)

\* Mistake: only the program is looked at, not the dispatcher.
MutEnsureWorkerOnce(m) ==
    IF m.mk_paged THEN m
    ELSE LET p == [m EXCEPT !.mk_paged = TRUE, !.paged_seq = TRUE]
         IN  IF m.dispatch = None THEN InitWithTotal(p, 1, {0})
             ELSE IF 0 \in m.dispatch.live THEN p ELSE AddDevice(p, 0)

\* ensure_persistent_worker_spawned
EnsureWorker(m) ==
    IF m.mk_paged /\ m.dispatch # None THEN m
    ELSE LET p == [m EXCEPT !.mk_paged = TRUE, !.paged_seq = TRUE]
         IN  IF m.dispatch = None THEN InitWithTotal(p, 1, {0})
             ELSE IF 0 \in m.dispatch.live THEN p ELSE AddDevice(p, 0)

\* ensure_moe_workers_started
EnsureMoeWorkers(m) ==
    IF m.moe_p2p \/ ~cfg.moe THEN m
    ELSE InitWithTotal([m EXCEPT !.moe_p2p = TRUE, !.mk_p2p = NumGpus(m) > 1], NumGpus(m), Experts(m))

\* init_multi_gpu_persistent
InitMultiGpu(m) ==
    LET e == EnsureMoeWorkers(m)
    IN  IF e.dispatch = None THEN InitWithTotal(e, NumGpus(m), {0})
        ELSE IF 0 \in e.dispatch.live THEN e ELSE AddDevice(e, 0)

\* enable_distributed_moe: all visible GPUs, whatever MULTI_GPU says
EnableFails(c) == c.env /\ c.gpus = 1               \* the experts were not loaded
EnableDistributedMoe(m) == EnsureMoeWorkers([m EXCEPT !.multi_gpu = cfg.gpus > 1])

\* Dropping the dispatcher, where reset_state or drop(model) does it: with several slots the
\* process always ends there (_exit(0)); with one it ends (_exit(134)) if the worker has not left
\* when the time is up.
DropExits(m) == m.dispatch.slots > 1
DropMayExit(m) == DropExits(m) \/ m.dispatch.live # {}

\* Mistake: the recurrent states survive.
MutResetState(m) ==
    [m EXCEPT !.dispatch = None, !.kv = <<>>, !.seq_len = 0]

\* reset_state: drops every worker, keeps the programs and moe_p2p (DropExits permitting)
ResetState(m) == [m EXCEPT !.dispatch = None, !.kv = <<>>, !.rec = <<>>, !.seq_len = 0]

-----------------------------------------------------------------------------
(* The Model: feeding it.  kv is the paged sequence, rec what the recurrent states have folded in. *)

At(toks, start) == [i \in DOMAIN toks |-> [tok |-> toks[i], pos |-> start + i - 1]]
Append1(m, tok, pos) == [m EXCEPT !.kv = Append(@, [tok |-> tok, pos |-> pos]), !.rec = Append(@, tok)]

\* Model::prefill: the workers it needs, and the tokens behind those fed so far
PrefillReady(m) == IF cfg.moe THEN EnsureMoeWorkers(EnsureWorker(m)) ELSE EnsureWorker(m)
PrefillTargets(m) == {0} \cup (IF cfg.moe THEN Experts(m) ELSE {})
Prefilled(m, toks) ==
    [m EXCEPT !.kv = @ \o At(toks, m.seq_len), !.rec = @ \o toks, !.seq_len = @ + Len(toks)]
\* It failed somewhere: a prefix was fed, seq_len is as it was
PrefillBroken(m, toks, n) ==
    [Prefilled(m, SubSeq(toks, 1, n)) EXCEPT !.seq_len = m.seq_len]

\* Model::decode_step
DecodeReady(m) ==
    IF ~m.multi_gpu THEN EnsureWorker(m)
    ELSE IF 0 \in m.dispatch.live THEN m ELSE InitMultiGpu(m)
DecodeTargets(m) == {0} \cup Experts(m)

Decoded(m, tok, pos) == [Append1(m, tok, pos) EXCEPT !.seq_len = pos + 1]

\* A batch for a GPU without a worker panics, and so does the first append of a decode over
\* several GPUs before any prefill has made the sequence.
PrefillPanics(m) == ~(PrefillTargets(m) \subseteq PrefillReady(m).dispatch.live)
DecodePanics(m) ==
    \/ ~(DecodeTargets(m) \subseteq DecodeReady(m).dispatch.live)
    \/ m.multi_gpu /\ ~m.paged_seq

\* The prompt goes in: one token by decode_step at position 0, more by prefill
FeedPanics(m, toks) == IF Len(toks) = 1 THEN DecodePanics(m) ELSE PrefillPanics(m)
Fed(m, toks) ==
    IF Len(toks) = 1 THEN Decoded(DecodeReady(m), toks[1], 0) ELSE Prefilled(PrefillReady(m), toks)
FeedBroken(m, toks, n) ==
    IF Len(toks) = 1 THEN (IF n = 1 THEN Append1(DecodeReady(m), toks[1], 0) ELSE DecodeReady(m))
    ELSE PrefillBroken(PrefillReady(m), toks, n)

-----------------------------------------------------------------------------
(* The programs *)

Init ==
    /\ cfg \in Configs /\ pc = "start" /\ model = Loaded
    /\ attempts = 0 /\ leftover = <<>> /\ turns = 0
    /\ user = "none" /\ prompt = <<>> /\ generated = <<>>
    /\ next = "word" /\ position = 0
    /\ thinking = FALSE /\ response = <<>> /\ history = <<>>

Fresh == IF cfg.moe THEN EnableDistributedMoe(Loaded) ELSE Loaded

\* Refused, or loading fails, or the program has its model
Start ==
    /\ pc = "start"
    /\ \/ pc' = "exit" /\ UNCHANGED model
       \/ /\ ~Rejected(cfg) /\ ~(cfg.moe /\ EnableFails(cfg))
          /\ model' = Fresh
          /\ pc' = IF cfg.app = "generate" /\ cfg.warmup # "skip" THEN "warmup" ELSE "idle"
    /\ UNCHANGED <<cfg, attempts, leftover, turns, turnVars, history>>

\* Mistake: the retries are never exhausted.
MutGiveUp == FALSE

\* A dirty warm-up: drop and reload the model, or give up
GiveUp == attempts + 1 >= MaxRetries
Retry ==
    /\ pc' = IF GiveUp THEN "exit" ELSE "reload"
    /\ UNCHANGED <<model, leftover>>
CountAttempt == attempts' = IF attempts < MaxRetries THEN attempts + 1 ELSE attempts
\* drop(model) ends the process, or loading fails, or the program has a new model
Reload ==
    /\ pc = "reload"
    /\ \/ pc' = "exit" /\ UNCHANGED model
       \/ ~DropExits(model) /\ model' = Fresh /\ pc' = "warmup"
    /\ UNCHANGED <<cfg, attempts, leftover, turns, turnVars, history>>
\* One batch to every live worker and its ack
WarmupMailbox ==
    /\ pc = "warmup" /\ cfg.warmup \in {"empty-packet", "mailbox"} /\ model.multi_gpu
    /\ CountAttempt
    /\ \/ model' = InitMultiGpu(EnsureMoeWorkers(model)) /\ pc' = "idle" /\ UNCHANGED leftover
       \/ Retry
    /\ UNCHANGED <<cfg, turns, turnVars, history>>
\* greedy_generate("Hello", 4), also where there is only one GPU.  Nothing undoes it.
WarmupDecode ==
    /\ pc = "warmup" /\ (cfg.warmup = "full-decode" \/ ~model.multi_gpu)
    /\ generated' = <<>> /\ position' = Len(cfg.hello)
    /\ IF FeedPanics(model, cfg.hello)
       THEN pc' = "panic" /\ UNCHANGED <<model, attempts, leftover, next>>
       ELSE \/ /\ model' = Fed(model, cfg.hello) /\ next' \in WarmupAnswers
               /\ pc' = "warming" /\ UNCHANGED <<attempts, leftover>>
            \/ CountAttempt /\ Retry /\ UNCHANGED next               \* it returned an error
    /\ UNCHANGED <<cfg, turns, user, prompt, thinking, response, history>>
WarmupStep ==
    /\ pc = "warming" /\ ~IsStopToken(next) /\ Len(generated) < WarmupTokens
    /\ generated' = Append(generated, next)
    /\ IF DecodePanics(model)
       THEN pc' = "panic" /\ UNCHANGED <<model, attempts, leftover, next, position>>
       ELSE \/ /\ model' = Decoded(DecodeReady(model), next, position)
               /\ next' \in WarmupAnswers /\ position' = position + 1
               /\ UNCHANGED <<pc, attempts, leftover>>
            \/ CountAttempt /\ Retry /\ UNCHANGED <<next, position>>
    /\ UNCHANGED <<cfg, turns, user, prompt, thinking, response, history>>
\* A run of "!" at the end of its text marks a model that computes NaNs.
Dirty(out) == Len(out) >= BangRun /\ \A i \in (Len(out) - BangRun + 1)..Len(out) : out[i] = "!"
WarmupEnds ==
    /\ pc = "warming" /\ (IsStopToken(next) \/ Len(generated) = WarmupTokens)
    /\ CountAttempt
    /\ IF Dirty(generated) THEN Retry
       ELSE pc' = "idle" /\ leftover' = cfg.hello \o generated /\ UNCHANGED model
    /\ UNCHANGED <<cfg, turns, turnVars, history>>

\* What both programs do with a prompt
TakePrompt(m, toks) ==
    /\ prompt' = toks /\ generated' = <<>> /\ thinking' = FALSE /\ response' = <<>>
    /\ position' = Len(toks)
    /\ IF FeedPanics(m, toks) THEN pc' = "panic" /\ model' = m /\ UNCHANGED next
       ELSE \/ pc' = "loop" /\ model' = Fed(m, toks) /\ next' \in Answers
            \/ /\ \E n \in 0..Len(toks) : model' = FeedBroken(m, toks, n)
               /\ pc' = (IF cfg.app = "chat" THEN "idle" ELSE "exit") /\ UNCHANGED next
    /\ UNCHANGED <<cfg, attempts, history>>

\* chat: the whole conversation is encoded again and fed to a model that was reset
Template(h, u) == h \o <<u>> \o cfg.go
ChatTurn(u) ==
    /\ pc = "idle" /\ cfg.app = "chat" /\ turns < MaxTurns
    /\ ~DropExits(model)
    /\ turns' = turns + 1 /\ user' = u /\ leftover' = <<>>
    /\ TakePrompt(ResetState(model), Template(history, u))
\* ... unless the process ended when reset_state dropped the dispatcher
ResetExits(u) ==
    /\ pc = "idle" /\ cfg.app = "chat" /\ turns < MaxTurns
    /\ DropMayExit(model)
    /\ turns' = turns + 1 /\ user' = u /\ pc' = "exit"
    /\ UNCHANGED <<cfg, model, attempts, leftover, prompt, generated, next, position, thinking, response, history>>
TemplateError ==
    /\ pc = "idle" /\ cfg.app = "chat" /\ turns < MaxTurns
    /\ turns' = turns + 1
    /\ UNCHANGED <<cfg, pc, model, attempts, leftover, turnVars, history>>
Quit ==
    /\ pc = "idle" /\ cfg.app = "chat"
    /\ pc' = "exit"
    /\ UNCHANGED <<cfg, model, attempts, leftover, turns, turnVars, history>>

\* generate_from_ids
Generate ==
    /\ pc = "idle" /\ cfg.app = "generate" /\ cfg.prompt # <<>>
    /\ TakePrompt(model, cfg.prompt)
    /\ UNCHANGED <<turns, user, leftover>>
GenerateNothing ==
    /\ pc = "idle" /\ cfg.app = "generate" /\ cfg.prompt = <<>>
    /\ pc' = "exit"
    /\ UNCHANGED <<cfg, model, attempts, leftover, turns, turnVars, history>>

\* The token loop is over: chat remembers the answer as it was printed
EndTurn(text) ==
    IF cfg.app = "chat"
    THEN pc' = "idle" /\ history' = history \o <<user>> \o text
    ELSE pc' = "exit" /\ UNCHANGED history
LoopEnds ==
    /\ pc = "loop"
    /\ IsStopToken(next) \/ Len(generated) = MaxTokens
    /\ EndTurn(response)
    /\ UNCHANGED <<cfg, model, attempts, leftover, turns, turnVars>>

\* Print the token, unless it belongs to a thinking block, and feed it
Printed ==
    IF next \in {"<think>", "</think>"} \/ thinking THEN response ELSE Append(response, next)
LoopStep ==
    /\ pc = "loop" /\ ~IsStopToken(next) /\ Len(generated) < MaxTokens
    /\ thinking' = CASE next = "<think>" -> TRUE [] next = "</think>" -> FALSE [] OTHER -> thinking
    /\ response' = Printed
    /\ generated' = Append(generated, next)
    /\ IF DecodePanics(model) THEN pc' = "panic" /\ UNCHANGED <<model, next, position, history>>
       ELSE \/ /\ model' = Decoded(DecodeReady(model), next, position)
               /\ next' \in Answers /\ position' = position + 1
               /\ UNCHANGED <<pc, history>>
            \/ /\ model' \in {DecodeReady(model), Append1(DecodeReady(model), next, position)}
               /\ EndTurn(Printed) /\ UNCHANGED <<next, position>>
    /\ UNCHANGED <<cfg, attempts, leftover, turns, user, prompt>>

Finished == pc \in {"exit", "panic"} /\ UNCHANGED vars

ProgramNext ==
    \/ Start \/ WarmupMailbox \/ WarmupDecode \/ WarmupStep \/ WarmupEnds \/ Reload
    \/ Generate \/ GenerateNothing \/ LoopEnds \/ LoopStep
Next == ProgramNext \/ (\E u \in Users : ChatTurn(u) \/ ResetExits(u)) \/ TemplateError \/ Quit \/ Finished

\* The program runs on until it waits for its user.
Spec == Init /\ [][Next]_vars /\ WF_vars(ProgramNext)

-----------------------------------------------------------------------------
(* Properties *)

ModelType ==
    [dispatch : [slots : Nat, live : SUBSET Nat], crowded : BOOLEAN, multi_gpu : BOOLEAN,
     moe_p2p : BOOLEAN, mk_p2p : BOOLEAN, mk_paged : BOOLEAN, paged_seq : BOOLEAN,
     kv : Seq([tok : Token, pos : Nat]), rec : Text, seq_len : Nat]

\* The variables have their types.
TypeOK ==
    /\ cfg \in Configs
    /\ pc \in {"start", "warmup", "warming", "reload", "idle", "loop", "exit", "panic"}
    /\ model \in ModelType
    /\ attempts \in 0..MaxRetries /\ leftover \in Text /\ turns \in 0..MaxTurns
    /\ user \in Users \cup {"none"} /\ prompt \in Text /\ generated \in Text
    /\ next \in Answers /\ position \in Nat /\ thinking \in BOOLEAN /\ response \in Text
    /\ history \in Text

\* No step dispatches to a GPU that has no worker, or needs a sequence nobody has made: whatever
\* started, was reset or failed before, the lazy initialisers between them launch what is needed.
\* (A chat over several GPUs keeps it by ending at its first line, when reset_state drops the
\* dispatcher.)
EveryBatchHasAWorker == pc # "panic"

\* No persistent kernel is launched on a GPU that another one still occupies: a cooperative grid
\* takes the whole device, the second launch would wait for ever.
OneKernelPerGpu == ~model.crowded

\* Whenever a token is chosen, the model has been fed exactly the conversation: attention and
\* recurrent states hold the warm-up's tokens, if there were any, the prompt and the answer so far,
\* each token once and in order, whatever turns or errors came before.  Without a warm-up the
\* positions count up from 0 and the next one is the caller's.
Conversation == prompt \o generated
ContextIsTheConversation ==
    pc = "loop" =>
       /\ model.rec = leftover \o Conversation
       /\ [i \in DOMAIN model.kv |-> model.kv[i].tok] = model.rec
       /\ leftover = <<>> =>
             /\ \A i \in DOMAIN model.kv : model.kv[i].pos = i - 1
             /\ position = model.seq_len

\* Stronger, of the real program: a warm-up leaves nothing behind in the model that answers.
WarmupIsDiscarded == pc = "loop" => model.rec = Conversation

\* The end-of-sequence token is neither fed back nor shown nor remembered.
EosEndsTheAnswer ==
    /\ "eos" \notin ToSet(model.rec)
    /\ "eos" \notin ToSet(history)

\* Stronger, of the real program: the unsupported combination of quantised KV and several GPUs
\* never gets past start-up.
NoQuantOnSeveralGpus == pc \in {"warmup", "warming", "idle", "loop"} => ~(cfg.quant /\ model.multi_gpu)

\* Start-up, warm-up with its retries and every turn come to an end.
AnswersOrExits == (pc # "idle") ~> (pc \in {"idle", "exit", "panic"})

-----------------------------------------------------------------------------
(* Inductive invariants *)

\* What the lazy initialisers rely on in a model that has been set up: the dispatcher has a slot for
\* every worker, a paged program has its sequence and, unless a reset took it, its worker.
ModelInv(m) ==
    /\ ~m.crowded
    /\ m.dispatch.live \subseteq 0..(m.dispatch.slots - 1)
    /\ cfg.moe => m.moe_p2p
    /\ m.multi_gpu => cfg.moe /\ cfg.gpus > 1
    /\ m.mk_paged => m.paged_seq
    /\ m.mk_paged /\ m.dispatch # None => 0 \in m.dispatch.live

SetUp == pc \notin {"start", "exit"}

\* The cache and the recurrent states hold exactly these tokens; each lies at its position.
Holds(m, toks) ==
    /\ m.rec = toks /\ Len(m.kv) = Len(toks)
    /\ \A i \in 1..Len(toks) : m.kv[i].tok = toks[i]
InOrder(m) ==
    /\ \A i \in 1..Len(m.kv) : m.kv[i].pos = i - 1
    /\ m.seq_len = Len(m.kv)

ContextInv ==
    /\ pc \in {"start", "warmup"} => Holds(model, <<>>) /\ InOrder(model)
    /\ pc \in {"start", "warmup", "warming", "reload"} => leftover = <<>>
    /\ pc = "warming" => /\ Holds(model, cfg.hello \o generated) /\ InOrder(model)
                         /\ position = model.seq_len
    /\ pc = "idle" /\ cfg.app = "generate" =>
          Holds(model, leftover) /\ (leftover = <<>> => InOrder(model))
    /\ pc = "loop" =>
          /\ Holds(model, leftover \o Conversation)
          /\ leftover = <<>> => InOrder(model) /\ position = model.seq_len

\* The inductive invariant, for every installation and command line.
SessionInv ==
    /\ TypeOK
    /\ pc = "start" => model = Loaded
    /\ ~model.crowded
    /\ SetUp => ModelInv(model)
    /\ pc = "loop" /\ cfg.app = "chat" => user \in Users
    /\ ContextInv

\* With expert workers on other GPUs the prompts of generate have two tokens or more.
Supported == \A c \in Configs :
    c.app = "generate" /\ c.moe /\ c.gpus > 1 /\ ~Rejected(c) => Len(c.hello) # 1 /\ Len(c.prompt) # 1

\* Then the expert workers stay once they are up, and token loops have their sequence.
WorkersInv ==
    /\ pc # "panic" /\ (SetUp => ~Rejected(cfg))
    /\ pc \in {"warmup", "warming", "reload"} => cfg.app = "generate"
    /\ SetUp /\ model.multi_gpu => Experts(model) \subseteq model.dispatch.live
    /\ pc \in {"warming", "loop"} /\ model.multi_gpu => model.paged_seq

\* The loader knows the model's end-of-sequence id, and no text contains it.
EosFree(toks) == \A i \in 1..Len(toks) : toks[i] # "eos"
EosIsKnown ==
    /\ "eos" \notin Users
    /\ \A c \in Configs : /\ StopTokens(c) = {"eos"}
                          /\ EosFree(c.prompt) /\ EosFree(c.hello) /\ EosFree(c.go)

EosInv == EosFree(model.rec) /\ EosFree(response) /\ EosFree(history)
=============================================================================
