--------------------------- MODULE SessionProofs ---------------------------
(***************************************************************************)
(* Proofs about Session, for every set of installations and command lines. *)
(***************************************************************************)
EXTENDS Session, SequenceTheorems, TLAPS

-----------------------------------------------------------------------------
(* What the functions on the Model keep and what they launch *)

\* Two models that have been fed the same on the same devices
SameFeed(m, n) ==
    /\ n.kv = m.kv /\ n.rec = m.rec /\ n.seq_len = m.seq_len
    /\ n.multi_gpu = m.multi_gpu

SamePrograms(m, n) ==
    n.moe_p2p = m.moe_p2p /\ n.mk_paged = m.mk_paged /\ n.paged_seq = m.paged_seq

\* A launch on free GPUs crowds nobody and touches nothing else.
LEMMA DispatcherMade ==
  ASSUME NEW m \in ModelType, NEW total \in Nat, NEW gs \in SUBSET Nat, gs \cap m.dispatch.live = {}
  PROVE  LET n == InitWithTotal(m, total, gs)
         IN  /\ n \in ModelType /\ SameFeed(m, n) /\ SamePrograms(m, n) /\ n.crowded = m.crowded
             /\ n.dispatch.slots = total /\ n.dispatch.live = gs
<1> DEFINE d == [slots |-> total, live |-> gs]
<1>1. d \in [slots : Nat, live : SUBSET Nat] /\ d.slots = total /\ d.live = gs
  OBVIOUS
<1>2. InitWithTotal(m, total, gs) = [m EXCEPT !.dispatch = d, !.crowded = m.crowded]
  BY DEF InitWithTotal, ModelType
<1> HIDE DEF d
<1> QED BY <1>1, <1>2 DEF ModelType, SameFeed, SamePrograms

\* add_device launches one more worker.
LEMMA DeviceAdded ==
  ASSUME NEW m \in ModelType, 0 \notin m.dispatch.live
  PROVE  LET n == AddDevice(m, 0)
         IN  /\ n \in ModelType /\ SameFeed(m, n) /\ SamePrograms(m, n) /\ n.crowded = m.crowded
             /\ n.dispatch.slots = (IF 0 >= m.dispatch.slots THEN 1 ELSE m.dispatch.slots)
             /\ n.dispatch.live = m.dispatch.live \cup {0}
<1> DEFINE d == [slots |-> IF 0 >= m.dispatch.slots THEN 0 + 1 ELSE m.dispatch.slots,
                 live |-> m.dispatch.live \cup {0}]
<1>1. m.dispatch.slots \in Nat /\ m.dispatch.live \in SUBSET Nat
  BY DEF ModelType
<1>2. d \in [slots : Nat, live : SUBSET Nat]
  BY <1>1
<1>3. AddDevice(m, 0) = [m EXCEPT !.dispatch = d, !.crowded = m.crowded]
  BY DEF AddDevice, ModelType
<1>4. d.slots = (IF 0 >= m.dispatch.slots THEN 1 ELSE m.dispatch.slots) /\ d.live = m.dispatch.live \cup {0}
  OBVIOUS
<1> HIDE DEF d
<1> QED BY <1>2, <1>3, <1>4 DEF ModelType, SameFeed, SamePrograms

\* ensure_persistent_worker leaves GPU 0 with its worker and the model with a sequence.
LEMMA WorkerLaunched ==
  ASSUME NEW m \in ModelType, ModelInv(m)
  PROVE  LET n == EnsureWorker(m)
         IN  /\ n \in ModelType /\ ModelInv(n) /\ SameFeed(m, n)
             /\ n.paged_seq /\ 0 \in n.dispatch.live
             /\ m.dispatch.live \subseteq n.dispatch.live
<1> DEFINE p == [m EXCEPT !.mk_paged = TRUE, !.paged_seq = TRUE]
<1>1. p \in ModelType /\ p.dispatch = m.dispatch /\ p.mk_paged /\ p.paged_seq /\ SameFeed(m, p)
      /\ p.crowded = m.crowded /\ p.moe_p2p = m.moe_p2p
  BY DEF ModelType, SameFeed
<1>2. CASE m.mk_paged /\ m.dispatch # None
  BY <1>2 DEF EnsureWorker, ModelInv, SameFeed
<1>3. CASE ~(m.mk_paged /\ m.dispatch # None) /\ m.dispatch = None
  <2>1. EnsureWorker(m) = InitWithTotal(p, 1, {0})
    BY <1>3 DEF EnsureWorker
  <2>2. {0} \cap p.dispatch.live = {} /\ m.dispatch.live = {}
    BY <1>1, <1>3 DEF None
  <2> HIDE DEF p
  <2> DEFINE n == InitWithTotal(p, 1, {0})
  <2>3. /\ n \in ModelType /\ SameFeed(p, n) /\ SamePrograms(p, n) /\ n.crowded = p.crowded
        /\ n.dispatch.slots = 1 /\ n.dispatch.live = {0}
    BY <1>1, <2>2, DispatcherMade
  <2> HIDE DEF n
  <2>4. SameFeed(m, n) /\ n.crowded = m.crowded /\ n.moe_p2p = m.moe_p2p /\ n.paged_seq
    BY <1>1, <2>3 DEF SameFeed, SamePrograms
  <2>5. ModelInv(n)
    BY <2>3, <2>4 DEF ModelInv, SameFeed
  <2> QED BY <2>1, <2>2, <2>3, <2>4, <2>5 DEF n
<1>4. CASE ~(m.mk_paged /\ m.dispatch # None) /\ m.dispatch # None /\ 0 \in m.dispatch.live
  <2>1. EnsureWorker(m) = p
    BY <1>4 DEF EnsureWorker
  <2> HIDE DEF p
  <2> QED BY <1>1, <1>4, <2>1 DEF ModelInv, SameFeed
<1>5. CASE ~(m.mk_paged /\ m.dispatch # None) /\ m.dispatch # None /\ 0 \notin m.dispatch.live
  <2>1. EnsureWorker(m) = AddDevice(p, 0)
    BY <1>5 DEF EnsureWorker
  <2> HIDE DEF p
  <2> DEFINE n == AddDevice(p, 0)
  <2>2. /\ n \in ModelType /\ SameFeed(p, n) /\ SamePrograms(p, n) /\ n.crowded = p.crowded
        /\ n.dispatch.slots = (IF 0 >= p.dispatch.slots THEN 1 ELSE p.dispatch.slots)
        /\ n.dispatch.live = p.dispatch.live \cup {0}
    BY <1>1, <1>5, DeviceAdded
  <2>3. p.dispatch.slots \in Nat
    BY <1>1 DEF ModelType
  <2> HIDE DEF n
  <2>4. SameFeed(m, n) /\ n.crowded = m.crowded /\ n.moe_p2p = m.moe_p2p /\ n.paged_seq
    BY <1>1, <2>2 DEF SameFeed, SamePrograms
  <2>5. n.dispatch.live \subseteq 0..(n.dispatch.slots - 1)
    BY <1>1, <2>2, <2>3 DEF ModelInv
  <2>6. ModelInv(n)
    BY <2>2, <2>4, <2>5 DEF ModelInv, SameFeed
  <2> QED BY <1>1, <2>1, <2>2, <2>4, <2>6 DEF n
<1> QED BY <1>2, <1>3, <1>4, <1>5

\* A model that is set up has asked for its expert workers.
LEMMA ExpertsAsked ==
  ASSUME NEW m, ModelInv(m)
  PROVE  EnsureMoeWorkers(m) = m
BY DEF ModelInv, EnsureMoeWorkers

\* init_multi_gpu leaves GPU 0 with its worker, but makes no sequence.
LEMMA LeaderLaunched ==
  ASSUME NEW m \in ModelType, ModelInv(m), cfg.gpus \in Nat \ {0}
  PROVE  LET n == InitMultiGpu(m)
         IN  /\ n \in ModelType /\ ModelInv(n) /\ SameFeed(m, n)
             /\ n.paged_seq = m.paged_seq /\ 0 \in n.dispatch.live
             /\ m.dispatch.live \subseteq n.dispatch.live
<1>0. EnsureMoeWorkers(m) = m
  BY ExpertsAsked
<1>1. CASE m.dispatch = None
  <2>1. InitMultiGpu(m) = InitWithTotal(m, NumGpus(m), {0})
    BY <1>0, <1>1 DEF InitMultiGpu
  <2>2. {0} \cap m.dispatch.live = {} /\ m.dispatch.live = {} /\ NumGpus(m) \in Nat \ {0}
    BY <1>1 DEF None, NumGpus, ModelType
  <2> DEFINE n == InitWithTotal(m, NumGpus(m), {0})
  <2>3. /\ n \in ModelType /\ SameFeed(m, n) /\ SamePrograms(m, n) /\ n.crowded = m.crowded
        /\ n.dispatch.slots = NumGpus(m) /\ n.dispatch.live = {0}
    BY <2>2, DispatcherMade
  <2> HIDE DEF n
  <2> QED BY <2>1, <2>2, <2>3 DEF ModelInv, SameFeed, SamePrograms, n
<1>2. CASE m.dispatch # None /\ 0 \in m.dispatch.live
  <2>1. InitMultiGpu(m) = m
    BY <1>0, <1>2 DEF InitMultiGpu
  <2> QED BY <1>2, <2>1 DEF SameFeed
<1>3. CASE m.dispatch # None /\ 0 \notin m.dispatch.live
  <2>1. InitMultiGpu(m) = AddDevice(m, 0)
    BY <1>0, <1>3 DEF InitMultiGpu
  <2> DEFINE n == AddDevice(m, 0)
  <2>2. /\ n \in ModelType /\ SameFeed(m, n) /\ SamePrograms(m, n) /\ n.crowded = m.crowded
        /\ n.dispatch.slots = (IF 0 >= m.dispatch.slots THEN 1 ELSE m.dispatch.slots)
        /\ n.dispatch.live = m.dispatch.live \cup {0}
    BY <1>3, DeviceAdded
  <2>3. m.dispatch.slots \in Nat
    BY DEF ModelType
  <2> HIDE DEF n
  <2> QED BY <1>3, <2>1, <2>2, <2>3 DEF ModelInv, SameFeed, SamePrograms, n
<1> QED BY <1>1, <1>2, <1>3

\* The initialisers of a prefill.
LEMMA PrefillReadyFacts ==
  ASSUME NEW m \in ModelType, ModelInv(m)
  PROVE  LET n == PrefillReady(m)
         IN  /\ n \in ModelType /\ ModelInv(n) /\ SameFeed(m, n)
             /\ n.paged_seq /\ 0 \in n.dispatch.live
             /\ m.dispatch.live \subseteq n.dispatch.live
<1>1. PrefillReady(m) = EnsureWorker(m)
  BY WorkerLaunched, ExpertsAsked DEF PrefillReady
<1> QED BY <1>1, WorkerLaunched

\* The initialisers of a decode step.
LEMMA DecodeReadyFacts ==
  ASSUME NEW m \in ModelType, ModelInv(m), cfg.gpus \in Nat \ {0}
  PROVE  LET n == DecodeReady(m)
         IN  /\ n \in ModelType /\ ModelInv(n) /\ SameFeed(m, n)
             /\ m.paged_seq \/ ~m.multi_gpu => n.paged_seq
             /\ 0 \in n.dispatch.live /\ m.dispatch.live \subseteq n.dispatch.live
<1>1. CASE ~m.multi_gpu
  BY <1>1, WorkerLaunched DEF DecodeReady
<1>2. CASE m.multi_gpu /\ 0 \in m.dispatch.live
  BY <1>2 DEF DecodeReady, SameFeed
<1>3. CASE m.multi_gpu /\ 0 \notin m.dispatch.live
  BY <1>3, LeaderLaunched DEF DecodeReady
<1> QED BY <1>1, <1>2, <1>3 DEF ModelType

-----------------------------------------------------------------------------
(* What a feeding function appends *)

Cell == [tok : Token, pos : Nat]

SameWorkers(m, n) ==
    /\ n.dispatch = m.dispatch /\ n.crowded = m.crowded /\ n.multi_gpu = m.multi_gpu
    /\ n.moe_p2p = m.moe_p2p /\ n.mk_paged = m.mk_paged /\ n.paged_seq = m.paged_seq

\* Feeding tokens leaves the workers alone.
LEMMA FeedingKeepsWorkers ==
  ASSUME NEW m, NEW n, SameWorkers(m, n), ModelInv(m)
  PROVE  ModelInv(n)
BY DEF SameWorkers, ModelInv

\* Concatenation, entry by entry.
LEMMA JoinFacts ==
  ASSUME NEW S, NEW s \in Seq(S), NEW t \in Seq(S)
  PROVE  /\ s \o t \in Seq(S) /\ Len(s \o t) = Len(s) + Len(t)
         /\ \A i \in 1..Len(s) : (s \o t)[i] = s[i]
         /\ \A i \in 1..Len(t) : (s \o t)[Len(s) + i] = t[i]
         /\ \A i \in 1..Len(s \o t) : i \in 1..Len(s) \/ (i - Len(s) \in 1..Len(t) /\ (s \o t)[i] = t[i - Len(s)])
OBVIOUS

\* One entry more.
LEMMA AppendFacts ==
  ASSUME NEW S, NEW s \in Seq(S), NEW x \in S
  PROVE  /\ Append(s, x) \in Seq(S) /\ Len(Append(s, x)) = Len(s) + 1
         /\ \A i \in 1..Len(s) : Append(s, x)[i] = s[i]
         /\ Append(s, x)[Len(s) + 1] = x
         /\ Append(s, x) = s \o <<x>>
OBVIOUS

\* The cells of a prompt have consecutive positions.
LEMMA AtFacts ==
  ASSUME NEW toks \in Text, NEW start \in Nat
  PROVE  /\ At(toks, start) \in Seq(Cell) /\ Len(At(toks, start)) = Len(toks)
         /\ \A i \in 1..Len(toks) : /\ At(toks, start)[i].tok = toks[i]
                                   /\ At(toks, start)[i].pos = start + i - 1
<1>1. DOMAIN toks = 1..Len(toks) /\ Len(toks) \in Nat /\ \A i \in 1..Len(toks) : toks[i] \in Token
  BY DEF Text
<1>2. At(toks, start) = [i \in 1..Len(toks) |-> [tok |-> toks[i], pos |-> start + i - 1]]
  BY <1>1 DEF At
<1>3. \A i \in 1..Len(toks) : [tok |-> toks[i], pos |-> start + i - 1] \in Cell
  BY <1>1 DEF Cell
<1> QED BY <1>1, <1>2, <1>3

\* The fields of a model that has prefilled a prompt.
LEMMA PrefilledFacts ==
  ASSUME NEW m \in ModelType, NEW toks \in Text
  PROVE  LET n == Prefilled(m, toks)
         IN  /\ n \in ModelType /\ SameWorkers(m, n)
             /\ n.kv = m.kv \o At(toks, m.seq_len) /\ n.rec = m.rec \o toks
             /\ n.seq_len = m.seq_len + Len(toks)
<1>1. /\ m.kv \in Seq(Cell) /\ m.rec \in Text /\ m.seq_len \in Nat
      /\ Len(toks) \in Nat /\ m.seq_len + Len(toks) \in Nat
  BY DEF ModelType, Cell, Text
<1>2. m.kv \o At(toks, m.seq_len) \in Seq(Cell)
  BY <1>1, AtFacts, JoinFacts
<1>3. m.rec \o toks \in Text
  BY <1>1 DEF Text
<1> DEFINE k == m.kv \o At(toks, m.seq_len)
           r == m.rec \o toks
           l == m.seq_len + Len(toks)
<1>4. Prefilled(m, toks) = [m EXCEPT !.kv = k, !.rec = r, !.seq_len = l]
  BY DEF Prefilled
<1>5. k \in Seq(Cell) /\ r \in Text /\ l \in Nat
  BY <1>1, <1>2, <1>3
<1> HIDE DEF k, r, l
<1>6. /\ Prefilled(m, toks).kv = k /\ Prefilled(m, toks).rec = r /\ Prefilled(m, toks).seq_len = l
      /\ Prefilled(m, toks) \in ModelType /\ SameWorkers(m, Prefilled(m, toks))
  BY <1>4, <1>5 DEF ModelType, SameWorkers, Cell
<1> QED BY <1>6 DEF k, r, l

\* A prefill adds the prompt to cache and states, in order.
LEMMA PrefillFeeds ==
  ASSUME NEW m \in ModelType, NEW toks \in Text
  PROVE  LET n == Prefilled(m, toks)
         IN  /\ Holds(m, m.rec) => Holds(n, m.rec \o toks)
             /\ InOrder(m) => InOrder(n)
<1> DEFINE n == Prefilled(m, toks)
           a == At(toks, m.seq_len)
<1>1. /\ n.kv = m.kv \o a /\ n.rec = m.rec \o toks /\ n.seq_len = m.seq_len + Len(toks)
      /\ m.kv \in Seq(Cell) /\ m.rec \in Seq(Token) /\ m.seq_len \in Nat /\ toks \in Seq(Token)
  BY PrefilledFacts DEF ModelType, Cell, Text
<1>2. /\ a \in Seq(Cell) /\ Len(a) = Len(toks)
      /\ \A i \in 1..Len(toks) : a[i].tok = toks[i] /\ a[i].pos = m.seq_len + i - 1
  BY <1>1, AtFacts
<1> HIDE DEF n, a
<1>3. ASSUME Holds(m, m.rec) PROVE Holds(n, m.rec \o toks)
  <2>1. Len(m.kv) = Len(m.rec) /\ \A i \in 1..Len(m.rec) : m.kv[i].tok = m.rec[i]
    BY <1>3 DEF Holds
  <2>2. Len(m.kv \o a) = Len(m.rec \o toks)
    <3>1. Len(m.kv \o a) = Len(m.kv) + Len(a)
      BY <1>1, <1>2, JoinFacts
    <3>2. Len(m.rec \o toks) = Len(m.rec) + Len(toks)
      BY <1>1, JoinFacts
    <3> QED BY <3>1, <3>2, <1>2, <2>1
  <2>3. ASSUME NEW i \in 1..Len(m.rec \o toks) PROVE (m.kv \o a)[i].tok = (m.rec \o toks)[i]
    <3>1. CASE i \in 1..Len(m.rec)
      BY <3>1, <1>1, <1>2, <2>1, JoinFacts
    <3>2. CASE i - Len(m.rec) \in 1..Len(toks) /\ (m.rec \o toks)[i] = toks[i - Len(m.rec)]
      <4>0. m.kv \in Seq(Cell) /\ a \in Seq(Cell) /\ i \in 1..Len(m.kv \o a) /\ i \notin 1..Len(m.kv)
        BY <3>2, <1>1, <1>2, <2>1, <2>2
      <4>1. (m.kv \o a)[i] = a[i - Len(m.kv)]
        BY <4>0, JoinFacts
      <4> QED BY <4>1, <3>2, <1>2, <2>1
    <3>3. i \in 1..Len(m.rec) \/ (i - Len(m.rec) \in 1..Len(toks) /\ (m.rec \o toks)[i] = toks[i - Len(m.rec)])
      BY <1>1, JoinFacts
    <3> QED BY <3>1, <3>2, <3>3
  <2> QED BY <1>1, <2>2, <2>3 DEF Holds
<1>4. ASSUME InOrder(m) PROVE InOrder(n)
  <2>1. m.seq_len = Len(m.kv) /\ \A i \in 1..Len(m.kv) : m.kv[i].pos = i - 1
    BY <1>4 DEF InOrder
  <2>2. n.seq_len = Len(m.kv \o a)
    <3>1. Len(m.kv \o a) = Len(m.kv) + Len(a)
      BY <1>1, <1>2, JoinFacts
    <3> QED BY <3>1, <1>1, <1>2, <2>1
  <2>3. ASSUME NEW i \in 1..Len(m.kv \o a) PROVE (m.kv \o a)[i].pos = i - 1
    <3>1. CASE i \in 1..Len(m.kv)
      BY <3>1, <1>1, <1>2, <2>1, JoinFacts
    <3>2. CASE i - Len(m.kv) \in 1..Len(a) /\ (m.kv \o a)[i] = a[i - Len(m.kv)]
      <4>1. a[i - Len(m.kv)].pos = m.seq_len + (i - Len(m.kv)) - 1
        BY <3>2, <1>2
      <4>2. i \in Int /\ Len(m.kv) \in Nat
        BY <1>1, <1>2
      <4> QED BY <3>2, <4>1, <4>2, <2>1
    <3> QED BY <3>1, <3>2, <1>1, <1>2, JoinFacts
  <2> QED BY <1>1, <2>2, <2>3 DEF InOrder
<1> QED BY <1>3, <1>4 DEF n

\* The fields of a model that has decoded a token.
LEMMA Append1Facts ==
  ASSUME NEW m \in ModelType, NEW tok \in Token, NEW pos \in Nat
  PROVE  LET n == Append1(m, tok, pos)
         IN  /\ n \in ModelType /\ SameWorkers(m, n)
             /\ n.kv = Append(m.kv, [tok |-> tok, pos |-> pos]) /\ n.rec = Append(m.rec, tok)
             /\ n.seq_len = m.seq_len
<1> DEFINE k == Append(m.kv, [tok |-> tok, pos |-> pos])
           r == Append(m.rec, tok)
<1>1. m.kv \in Seq(Cell) /\ m.rec \in Text /\ [tok |-> tok, pos |-> pos] \in Cell
  BY DEF ModelType, Cell, Text
<1>2. k \in Seq(Cell) /\ r \in Text
  BY <1>1 DEF Text
<1>3. Append1(m, tok, pos) = [m EXCEPT !.kv = k, !.rec = r]
  BY DEF Append1
<1> HIDE DEF k, r
<1>4. /\ Append1(m, tok, pos).kv = k /\ Append1(m, tok, pos).rec = r
      /\ Append1(m, tok, pos).seq_len = m.seq_len
      /\ Append1(m, tok, pos) \in ModelType /\ SameWorkers(m, Append1(m, tok, pos))
  BY <1>2, <1>3 DEF ModelType, SameWorkers, Cell
<1> QED BY <1>4 DEF k, r

\* A decode step adds one token, at the caller's position.
LEMMA DecodeFeeds ==
  ASSUME NEW m \in ModelType, NEW tok \in Token, NEW pos \in Nat
  PROVE  LET n == Decoded(m, tok, pos)
         IN  /\ n \in ModelType /\ SameWorkers(m, n) /\ n.rec = Append(m.rec, tok) /\ n.seq_len = pos + 1
             /\ Holds(m, m.rec) => Holds(n, Append(m.rec, tok))
             /\ InOrder(m) /\ pos = m.seq_len => InOrder(n)
<1> DEFINE a == Append1(m, tok, pos)
           n == Decoded(m, tok, pos)
           c == [tok |-> tok, pos |-> pos]
<1>1. /\ a \in ModelType /\ SameWorkers(m, a) /\ a.kv = Append(m.kv, c) /\ a.rec = Append(m.rec, tok)
  BY Append1Facts
<1>2. n = [a EXCEPT !.seq_len = pos + 1]
  BY DEF Decoded
<1>3. c \in Cell /\ c.tok = tok /\ c.pos = pos
  BY DEF Cell
<1> HIDE DEF a, n, c
<1>4. /\ n \in ModelType /\ SameWorkers(m, n) /\ n.rec = Append(m.rec, tok) /\ n.seq_len = pos + 1
      /\ n.kv = Append(m.kv, c)
  <2>1. PICK l \in Nat : l = pos + 1
    OBVIOUS
  <2>2. n = [a EXCEPT !.seq_len = l]
    BY <1>2, <2>1
  <2>3. n \in ModelType /\ SameWorkers(a, n) /\ n.rec = a.rec /\ n.kv = a.kv /\ n.seq_len = l
    BY <1>1, <2>2 DEF ModelType, SameWorkers
  <2> QED BY <1>1, <2>1, <2>3 DEF SameWorkers
<1>5. m.kv \in Seq(Cell) /\ m.rec \in Seq(Token) /\ m.seq_len \in Nat
  BY DEF ModelType, Cell, Text
<1>6. ASSUME Holds(m, m.rec) PROVE Holds(n, Append(m.rec, tok))
  <2>1. Len(m.kv) = Len(m.rec) /\ \A i \in 1..Len(m.rec) : m.kv[i].tok = m.rec[i]
    BY <1>6 DEF Holds
  <2>2. ASSUME NEW i \in 1..Len(Append(m.rec, tok)) PROVE Append(m.kv, c)[i].tok = Append(m.rec, tok)[i]
    BY <1>3, <1>5, <2>1, AppendFacts
  <2> QED BY <1>3, <1>4, <1>5, <2>1, <2>2, AppendFacts DEF Holds
<1>7. ASSUME InOrder(m), pos = m.seq_len PROVE InOrder(n)
  BY <1>3, <1>4, <1>5, <1>7, AppendFacts DEF InOrder
<1> QED BY <1>4, <1>6, <1>7 DEF n

-----------------------------------------------------------------------------
(* A prompt or a token goes in: the workers it needs and what it leaves *)

\* n comes from m by feeding it some tokens: no worker is lost.
Grown(m, n) ==
    /\ n \in ModelType /\ ModelInv(n)
    /\ n.multi_gpu = m.multi_gpu /\ m.dispatch.live \subseteq n.dispatch.live

\* Initialisers and then tokens.
LEMMA FeedingGrows ==
  ASSUME NEW m, NEW r, NEW n \in ModelType, Grown(m, r), SameWorkers(r, n)
  PROVE  Grown(m, n) /\ n.dispatch = r.dispatch /\ n.paged_seq = r.paged_seq
BY FeedingKeepsWorkers DEF Grown, SameWorkers

\* The initialisers do not touch what has been fed.
LEMMA HoldsRec ==
  ASSUME NEW m, NEW r, SameFeed(m, r)
  PROVE  /\ Holds(m, m.rec) <=> Holds(r, r.rec)
         /\ InOrder(m) <=> InOrder(r)
BY DEF SameFeed, Holds, InOrder

\* A whole decode step.
LEMMA TokenFed ==
  ASSUME NEW m \in ModelType, ModelInv(m), cfg.gpus \in Nat \ {0},
         NEW tok \in Token, NEW pos \in Nat
  PROVE  LET n == Decoded(DecodeReady(m), tok, pos)
         IN  /\ Grown(m, n) /\ n.rec = Append(m.rec, tok) /\ n.seq_len = pos + 1
             /\ 0 \in n.dispatch.live /\ (m.paged_seq \/ ~m.multi_gpu => n.paged_seq)
             /\ Holds(m, m.rec) => Holds(n, n.rec)
             /\ InOrder(m) /\ pos = m.seq_len => InOrder(n)
<1> DEFINE r == DecodeReady(m)
           n == Decoded(r, tok, pos)
<1>1. /\ r \in ModelType /\ ModelInv(r) /\ SameFeed(m, r)
      /\ m.paged_seq \/ ~m.multi_gpu => r.paged_seq
      /\ 0 \in r.dispatch.live /\ m.dispatch.live \subseteq r.dispatch.live
  BY DecodeReadyFacts
<1> HIDE DEF r
<1>2. /\ n \in ModelType /\ SameWorkers(r, n) /\ n.rec = Append(r.rec, tok) /\ n.seq_len = pos + 1
      /\ Holds(r, r.rec) => Holds(n, Append(r.rec, tok))
      /\ InOrder(r) /\ pos = r.seq_len => InOrder(n)
  BY <1>1, DecodeFeeds
<1> HIDE DEF n
<1>3. Grown(m, r)
  BY <1>1 DEF Grown, SameFeed
<1>4. Grown(m, n) /\ n.dispatch = r.dispatch /\ n.paged_seq = r.paged_seq
  BY <1>2, <1>3, FeedingGrows
<1>5. r.rec = m.rec /\ r.seq_len = m.seq_len
  BY <1>1 DEF SameFeed
<1>6. (Holds(m, m.rec) <=> Holds(r, r.rec)) /\ (InOrder(m) <=> InOrder(r))
  BY <1>1, HoldsRec
<1> QED BY <1>1, <1>2, <1>4, <1>5, <1>6 DEF r, n

\* A whole prompt, whichever path its length takes.
LEMMA PromptFed ==
  ASSUME NEW m \in ModelType, ModelInv(m), cfg.gpus \in Nat \ {0},
         NEW toks \in Text, toks # <<>>
  PROVE  LET n == Fed(m, toks)
         IN  /\ Grown(m, n) /\ n.rec = m.rec \o toks
             /\ 0 \in n.dispatch.live
             /\ m.paged_seq \/ ~m.multi_gpu \/ Len(toks) # 1 => n.paged_seq
             /\ Holds(m, m.rec) => Holds(n, n.rec)
             /\ Holds(m, <<>>) /\ InOrder(m) => InOrder(n) /\ n.seq_len = Len(toks)
<1>0. Holds(m, <<>>) /\ InOrder(m) => m.seq_len = 0
  BY DEF Holds, InOrder
<1>1. CASE Len(toks) = 1
  <2>1. toks = <<toks[1]>> /\ toks[1] \in Token
    BY <1>1 DEF Text
  <2>2. PICK t \in Token : t = toks[1]
    BY <2>1
  <2> DEFINE n == Decoded(DecodeReady(m), t, 0)
  <2>3. Fed(m, toks) = n
    BY <1>1, <2>2 DEF Fed
  <2>4. /\ Grown(m, n) /\ n.rec = Append(m.rec, t) /\ n.seq_len = 0 + 1
        /\ 0 \in n.dispatch.live /\ (m.paged_seq \/ ~m.multi_gpu => n.paged_seq)
        /\ Holds(m, m.rec) => Holds(n, n.rec)
        /\ InOrder(m) /\ 0 = m.seq_len => InOrder(n)
    BY TokenFed
  <2> HIDE DEF n
  <2>5. Append(m.rec, t) = m.rec \o toks
    <3>1. m.rec \in Seq(Token)
      BY DEF ModelType, Text
    <3>2. Append(m.rec, t) = m.rec \o <<t>>
      BY <3>1, AppendFacts
    <3> QED BY <3>2, <2>1, <2>2
  <2> QED BY <1>0, <1>1, <2>3, <2>4, <2>5
<1>2. CASE Len(toks) # 1
  <2> DEFINE r == PrefillReady(m)
             n == Prefilled(r, toks)
  <2>1. Fed(m, toks) = n
    BY <1>2 DEF Fed
  <2>2. /\ r \in ModelType /\ ModelInv(r) /\ SameFeed(m, r) /\ r.paged_seq
        /\ 0 \in r.dispatch.live /\ m.dispatch.live \subseteq r.dispatch.live
    BY PrefillReadyFacts
  <2> HIDE DEF r
  <2>3. /\ n \in ModelType /\ SameWorkers(r, n) /\ n.rec = r.rec \o toks
        /\ n.seq_len = r.seq_len + Len(toks)
    BY <2>2, PrefilledFacts
  <2>4. /\ Holds(r, r.rec) => Holds(n, r.rec \o toks)
        /\ InOrder(r) => InOrder(n)
    BY <2>2, PrefillFeeds
  <2> HIDE DEF n
  <2>5. Grown(m, r)
    BY <2>2 DEF Grown, SameFeed
  <2>6. Grown(m, n) /\ n.dispatch = r.dispatch /\ n.paged_seq = r.paged_seq
    BY <2>3, <2>5, FeedingGrows
  <2>7. r.rec = m.rec /\ r.seq_len = m.seq_len
    BY <2>2 DEF SameFeed
  <2>8. (Holds(m, m.rec) <=> Holds(r, r.rec)) /\ (InOrder(m) <=> InOrder(r))
    BY <2>2, HoldsRec
  <2>9. Len(toks) \in Nat
    BY DEF Text
  <2> QED BY <1>0, <2>1, <2>2, <2>3, <2>4, <2>6, <2>7, <2>8, <2>9
<1> QED BY <1>1, <1>2

\* Concatenation introduces no end-of-sequence token,
LEMMA EosJoin ==
  ASSUME NEW s \in Text, NEW t \in Text, EosFree(s), EosFree(t)
  PROVE  EosFree(s \o t)
<1>0. s \in Seq(Token) /\ t \in Seq(Token)
  BY DEF Text
<1>1. /\ \A i \in 1..Len(s) : s[i] # "eos"
      /\ \A i \in 1..Len(t) : t[i] # "eos"
  BY DEF EosFree
<1>2. ASSUME NEW i \in 1..Len(s \o t) PROVE (s \o t)[i] # "eos"
  <2>1. i \in 1..Len(s) \/ (i - Len(s) \in 1..Len(t) /\ (s \o t)[i] = t[i - Len(s)])
    BY <1>0, JoinFacts
  <2>2. i \in 1..Len(s) => (s \o t)[i] = s[i]
    BY <1>0, JoinFacts
  <2> QED BY <1>1, <2>1, <2>2
<1> QED BY <1>2 DEF EosFree

\* nor does any other token.
LEMMA EosAppend ==
  ASSUME NEW s \in Text, NEW x \in Token, EosFree(s), x # "eos"
  PROVE  EosFree(Append(s, x))
<1>1. <<x>> \in Text /\ EosFree(<<x>>)
  BY DEF Text, EosFree
<1>2. Append(s, x) = s \o <<x>>
  BY AppendFacts DEF Text
<1> QED BY <1>1, <1>2, EosJoin

\* What a failing call leaves: a prefix of the prompt, fed to the same workers
LEMMA PromptBroken ==
  ASSUME NEW m \in ModelType, ModelInv(m), cfg.gpus \in Nat \ {0},
         NEW toks \in Text, toks # <<>>, NEW k \in 0..Len(toks)
  PROVE  LET n == FeedBroken(m, toks, k)
         IN  Grown(m, n) /\ (EosFree(m.rec) /\ EosFree(toks) => EosFree(n.rec))
<1>0. Len(toks) \in Nat /\ m.rec \in Seq(Token) /\ toks \in Seq(Token) /\ m.seq_len \in Nat
  BY DEF Text, ModelType
<1>1. CASE Len(toks) = 1
  <2> DEFINE r == DecodeReady(m)
             a == Append1(r, toks[1], 0)
  <2>1. /\ r \in ModelType /\ ModelInv(r) /\ SameFeed(m, r)
        /\ m.dispatch.live \subseteq r.dispatch.live
    BY DecodeReadyFacts
  <2>2. FeedBroken(m, toks, k) = r \/ FeedBroken(m, toks, k) = a
    BY <1>1 DEF FeedBroken
  <2> HIDE DEF r
  <2>3. Grown(m, r) /\ r.rec = m.rec
    BY <2>1 DEF Grown, SameFeed
  <2>4. toks[1] \in Token
    BY <1>0, <1>1
  <2>5. a \in ModelType /\ SameWorkers(r, a) /\ a.rec = Append(r.rec, toks[1])
    <3>1. PICK t \in Token : t = toks[1]
      BY <2>4
    <3>2. PICK z \in Nat : z = 0
      OBVIOUS
    <3> DEFINE b == Append1(r, t, z)
    <3>3. b \in ModelType /\ SameWorkers(r, b) /\ b.rec = Append(r.rec, t)
      BY <2>1, Append1Facts
    <3> QED BY <3>1, <3>2, <3>3
  <2> HIDE DEF a
  <2>6. Grown(m, a)
    BY <2>3, <2>5, FeedingGrows
  <2>7. ASSUME EosFree(m.rec), EosFree(toks) PROVE EosFree(a.rec)
    <3>1. toks[1] # "eos"
      BY <1>1, <2>7 DEF EosFree
    <3> QED BY <1>0, <2>3, <2>4, <2>5, <2>7, <3>1, EosAppend DEF Text
  <2> QED BY <2>2, <2>3, <2>6, <2>7
<1>2. CASE Len(toks) # 1
  <2> DEFINE r == PrefillReady(m)
             t == SubSeq(toks, 1, k)
             p == Prefilled(r, t)
             n == [p EXCEPT !.seq_len = r.seq_len]
  <2>1. FeedBroken(m, toks, k) = n
    BY <1>2 DEF FeedBroken, PrefillBroken
  <2>2. /\ r \in ModelType /\ ModelInv(r) /\ SameFeed(m, r)
        /\ m.dispatch.live \subseteq r.dispatch.live
    BY PrefillReadyFacts
  <2>3. t \in Seq(Token) /\ Len(t) = k /\ \A i \in 1..k : t[i] = toks[i]
    BY <1>0, SubSeqProperties
  <2> HIDE DEF r, t
  <2>4. p \in ModelType /\ SameWorkers(r, p) /\ p.rec = r.rec \o t
    BY <2>2, <2>3, PrefilledFacts DEF Text
  <2> HIDE DEF p
  <2>5. n \in ModelType /\ SameWorkers(r, n) /\ n.rec = p.rec
    BY <2>2, <2>4 DEF ModelType, SameWorkers
  <2> HIDE DEF n
  <2>6. Grown(m, r) /\ r.rec = m.rec
    BY <2>2 DEF Grown, SameFeed
  <2>7. Grown(m, n)
    BY <2>5, <2>6, FeedingGrows
  <2>8. ASSUME EosFree(m.rec), EosFree(toks) PROVE EosFree(m.rec \o t)
    <3>1. EosFree(t)
      BY <2>3, <2>8, <1>0 DEF EosFree
    <3> QED BY <1>0, <2>3, <2>8, <3>1, EosJoin DEF Text
  <2> QED BY <2>1, <2>4, <2>5, <2>6, <2>7, <2>8
<1> QED BY <1>1, <1>2

-----------------------------------------------------------------------------
(* Models that have been fed nothing *)

Unfed(m) == Holds(m, <<>>) /\ InOrder(m)

\* A model that has just been loaded
LEMMA LoadedFacts == Loaded \in ModelType /\ ~Loaded.crowded /\ Unfed(Loaded) /\ ~Loaded.multi_gpu
<1>1. None \in [slots : Nat, live : SUBSET Nat] /\ None.live = {}
  BY DEF None
<1>2. <<>> \in Seq([tok : Token, pos : Nat]) /\ <<>> \in Text
  BY DEF Text
<1>3. Loaded \in ModelType
  BY <1>1, <1>2 DEF Loaded, ModelType
<1> QED BY <1>3 DEF Loaded, Unfed, Holds, InOrder

\* What start-up and reload hand to the program: the expert workers are up.
LEMMA FreshFacts ==
  ASSUME cfg \in Configs
  PROVE  /\ Fresh \in ModelType /\ ModelInv(Fresh) /\ Unfed(Fresh)
         /\ Fresh.multi_gpu => Experts(Fresh) \subseteq Fresh.dispatch.live
<1>0. cfg.gpus \in Nat \ {0} /\ cfg.moe \in BOOLEAN
  BY ConfigAssumption
<1>1. CASE ~cfg.moe
  BY <1>1, LoadedFacts DEF Fresh, ModelInv, Loaded, None
<1>2. CASE cfg.moe
  <2> DEFINE many == cfg.gpus > 1
             m0 == [Loaded EXCEPT !.multi_gpu = many]
             m1 == [m0 EXCEPT !.moe_p2p = TRUE, !.mk_p2p = NumGpus(m0) > 1]
             n == InitWithTotal(m1, NumGpus(m0), Experts(m0))
  <2>1. many \in BOOLEAN
    BY <1>0
  <2>2. /\ m0 \in ModelType /\ m0.multi_gpu = many /\ m0.moe_p2p = FALSE /\ m0.mk_paged = FALSE
        /\ m0.dispatch.live = {} /\ m0.crowded = FALSE /\ Unfed(m0)
    <3> HIDE DEF many
    <3> QED BY <2>1, LoadedFacts DEF Loaded, ModelType, Unfed, Holds, InOrder, None
  <2>3. Fresh = n
    BY <1>2, <2>2 DEF Fresh, EnableDistributedMoe, EnsureMoeWorkers
  <2>4. NumGpus(m0) \in Nat \ {0} /\ Experts(m0) \in SUBSET Nat /\ (NumGpus(m0) > 1) \in BOOLEAN
        /\ Experts(m0) \subseteq 0..(NumGpus(m0) - 1)
    BY <1>0, <2>2 DEF NumGpus, Experts
  <2>5. /\ m1 \in ModelType /\ m1.multi_gpu = many /\ m1.moe_p2p = TRUE /\ m1.mk_paged = FALSE
        /\ m1.dispatch.live = {} /\ m1.crowded = FALSE /\ Unfed(m1)
    <3> DEFINE q == NumGpus(m0) > 1
    <3> HIDE DEF many, m0, q
    <3>1. m1 = [m0 EXCEPT !.moe_p2p = TRUE, !.mk_p2p = q]
      BY DEF q
    <3>2. q \in BOOLEAN
      BY <2>4 DEF q
    <3> HIDE DEF m1
    <3> QED BY <2>2, <3>1, <3>2 DEF ModelType, Unfed, Holds, InOrder
  <2>6. /\ n \in ModelType /\ SameFeed(m1, n) /\ SamePrograms(m1, n) /\ n.crowded = m1.crowded
        /\ n.dispatch.slots = NumGpus(m0) /\ n.dispatch.live = Experts(m0)
    <3> HIDE DEF m0, m1
    <3> QED BY <2>4, <2>5, DispatcherMade
  <2> HIDE DEF m0, m1, n
  <2>7. n.multi_gpu = many /\ n.moe_p2p = TRUE /\ n.mk_paged = FALSE /\ n.crowded = FALSE
    BY <2>5, <2>6 DEF SameFeed, SamePrograms
  <2>8. Unfed(n)
    BY <2>5, <2>6 DEF SameFeed, Unfed, Holds, InOrder
  <2>9. Experts(n) = Experts(m0)
    BY <2>2, <2>7 DEF Experts, NumGpus
  <2>10. ModelInv(n)
    BY <1>2, <2>4, <2>6, <2>7 DEF ModelInv
  <2> QED BY <2>3, <2>6, <2>8, <2>9, <2>10
<1> QED BY <1>0, <1>1, <1>2

\* reset_state leaves a model that has been fed nothing and keeps the mode.
LEMMA ResetFacts ==
  ASSUME NEW m \in ModelType, ModelInv(m)
  PROVE  LET n == ResetState(m)
         IN  n \in ModelType /\ ModelInv(n) /\ Unfed(n) /\ n.rec = <<>> /\ n.multi_gpu = m.multi_gpu
<1> DEFINE n == ResetState(m)
<1>1. None \in [slots : Nat, live : SUBSET Nat] /\ None.live = {}
  BY DEF None
<1>2. <<>> \in Seq([tok : Token, pos : Nat]) /\ <<>> \in Text /\ 0 \in Nat
  BY DEF Text
<1>3. /\ n \in ModelType /\ n.kv = <<>> /\ n.rec = <<>> /\ n.seq_len = 0 /\ n.dispatch = None
      /\ n.crowded = m.crowded /\ n.multi_gpu = m.multi_gpu /\ n.moe_p2p = m.moe_p2p
      /\ n.mk_paged = m.mk_paged /\ n.paged_seq = m.paged_seq
  BY <1>1, <1>2 DEF ResetState, ModelType
<1> HIDE DEF n
<1>4. ModelInv(n)
  BY <1>1, <1>3 DEF ModelInv
<1>5. Unfed(n)
  BY <1>3 DEF Unfed, Holds, InOrder
<1> QED BY <1>3, <1>4, <1>5 DEF n

-----------------------------------------------------------------------------
(* The inductive invariant *)

\* What ConfigAssumption says of this process.
LEMMA ConfigFacts ==
  ASSUME cfg \in Configs
  PROVE  /\ cfg.gpus \in Nat \ {0} /\ cfg.moe \in BOOLEAN
         /\ cfg.prompt \in Text /\ cfg.go \in Text /\ cfg.hello \in Text /\ cfg.hello # <<>>
BY ConfigAssumption

\* Texts
LEMMA TextFacts ==
  /\ <<>> \in Text
  /\ \A s \in Text : /\ s \o <<>> = s /\ <<>> \o s = s /\ Len(s) \in Nat
                     /\ \A x \in Token : Append(s, x) \in Text /\ Append(s, x) # <<>>
  /\ \A s, t \in Text : s \o t \in Text
<1>1. \A s \in Seq(Token) : s \o <<>> = s /\ <<>> \o s = s
  BY ConcatEmptySeq
<1>2. \A s \in Seq(Token) : \A x \in Token : Append(s, x) \in Seq(Token) /\ Append(s, x) # <<>>
  <2> SUFFICES ASSUME NEW s \in Seq(Token), NEW x \in Token
               PROVE  Append(s, x) \in Seq(Token) /\ Append(s, x) # <<>>
    OBVIOUS
  <2>1. Append(s, x) \in Seq(Token) /\ Len(Append(s, x)) = Len(s) + 1 /\ Len(s) \in Nat
    OBVIOUS
  <2> QED BY <2>1
<1>3. \A s, t \in Seq(Token) : s \o t \in Seq(Token)
  OBVIOUS
<1> QED BY <1>1, <1>2, <1>3 DEF Text

\* Appending behind a prefix
LEMMA AppendBehind ==
  ASSUME NEW s \in Text, NEW t \in Text, NEW x \in Token
  PROVE  s \o Append(t, x) = Append(s \o t, x)
<1>1. s \in Seq(Token) /\ t \in Seq(Token) /\ <<x>> \in Seq(Token) /\ s \o t \in Seq(Token)
  BY DEF Text
<1>2. Append(t, x) = t \o <<x>>
  BY <1>1, AppendFacts
<1>3. Append(s \o t, x) = (s \o t) \o <<x>>
  BY <1>1, AppendFacts
<1> QED BY <1>1, <1>2, <1>3, ConcatAssociative

\* The invariant holds initially.
LEMMA InitSession == Init => SessionInv
<1> SUFFICES ASSUME Init PROVE SessionInv
  OBVIOUS
<1>0. MaxTurns \in Nat /\ MaxRetries \in Nat
  BY SessionAssumption
<1>1. TypeOK
  <2>1. 0 \in 0..MaxRetries /\ 0 \in 0..MaxTurns /\ "word" \in Answers
    BY <1>0 DEF Answers
  <2> QED BY <2>1, LoadedFacts, TextFacts DEF Init, TypeOK
<1>2. ContextInv
  BY LoadedFacts DEF Init, ContextInv, Unfed
<1> QED BY <1>1, <1>2, LoadedFacts DEF Init, SessionInv, SetUp

\* ModelInv mentions cfg, which never changes.
LEMMA PrimedInv ==
  ASSUME cfg' = cfg, ModelInv(model')
  PROVE  ModelInv(model)'
BY DEF ModelInv

\* Start-up, accepted or refused
LEMMA StartStep ==
  ASSUME SessionInv, Start
  PROVE  SessionInv'
<1>0. /\ TypeOK /\ model = Loaded /\ ~model.crowded /\ leftover = <<>> /\ cfg \in Configs
      /\ UNCHANGED <<cfg, attempts, leftover, turns, user, prompt, generated, next, position,
                     thinking, response, history>>
  BY DEF SessionInv, ContextInv, Start, turnVars, TypeOK
<1>1. CASE pc' = "exit" /\ UNCHANGED model
  <2>1. TypeOK'
    BY <1>0, <1>1 DEF TypeOK
  <2>2. ContextInv'
    BY <1>1 DEF ContextInv
  <2> QED BY <1>0, <1>1, <2>1, <2>2 DEF SessionInv, SetUp
<1>2. CASE model' = Fresh /\ pc' \in {"warmup", "idle"}
  <2>1. model' \in ModelType /\ ModelInv(model') /\ Unfed(model')
    BY <1>0, <1>2, FreshFacts
  <2>2. TypeOK'
    BY <1>0, <1>2, <2>1 DEF TypeOK
  <2>3. Holds(model, <<>>)' /\ InOrder(model)' /\ leftover' = <<>>
    BY <1>0, <2>1 DEF Unfed, Holds, InOrder
  <2>4. ContextInv'
    BY <1>2, <2>3 DEF ContextInv
  <2>5. ModelInv(model)'
    BY <1>0, <2>1, PrimedInv
  <2> QED BY <1>2, <2>2, <2>4, <2>5 DEF SessionInv, SetUp, ModelInv
<1> QED BY <1>1, <1>2 DEF Start

\* A model is loaded again after a warm-up that failed.
LEMMA ReloadStep ==
  ASSUME SessionInv, Reload
  PROVE  SessionInv'
<1>0. /\ TypeOK /\ ~model.crowded /\ leftover = <<>> /\ cfg \in Configs
      /\ UNCHANGED <<cfg, attempts, leftover, turns, user, prompt, generated, next, position,
                     thinking, response, history>>
  BY DEF SessionInv, ContextInv, Reload, turnVars, TypeOK
<1>1. CASE pc' = "exit" /\ UNCHANGED model
  <2>1. TypeOK'
    BY <1>0, <1>1 DEF TypeOK
  <2>2. ContextInv'
    BY <1>1 DEF ContextInv
  <2> QED BY <1>0, <1>1, <2>1, <2>2 DEF SessionInv, SetUp
<1>2. CASE model' = Fresh /\ pc' = "warmup"
  <2>1. model' \in ModelType /\ ModelInv(model') /\ Unfed(model')
    BY <1>0, <1>2, FreshFacts
  <2>2. TypeOK'
    BY <1>0, <1>2, <2>1 DEF TypeOK
  <2>3. Holds(model, <<>>)' /\ InOrder(model)' /\ leftover' = <<>>
    BY <1>0, <2>1 DEF Unfed, Holds, InOrder
  <2>4. ContextInv'
    BY <1>2, <2>3 DEF ContextInv
  <2>5. ModelInv(model)'
    BY <1>0, <2>1, PrimedInv
  <2> QED BY <1>2, <2>2, <2>4, <2>5 DEF SessionInv, SetUp, ModelInv
<1> QED BY <1>1, <1>2 DEF Reload

\* A warm-up that has to be repeated, or has used up its attempts
LEMMA RetryStep ==
  ASSUME SessionInv, CountAttempt, Retry, pc \in {"warmup", "warming"},
         UNCHANGED <<cfg, turns, user, prompt, next, thinking, response, history>>,
         generated' \in Text, position' \in Nat
  PROVE  SessionInv'
<1>0. TypeOK /\ ~model.crowded /\ leftover = <<>> /\ ModelInv(model)
  BY DEF SessionInv, ContextInv, SetUp
<1>1. attempts' \in 0..MaxRetries
  BY <1>0, SessionAssumption DEF CountAttempt, TypeOK
<1>2. TypeOK'
  BY <1>0, <1>1 DEF TypeOK, Retry
<1>3. ContextInv'
  BY <1>0 DEF ContextInv, Retry
<1>4. ModelInv(model)'
  BY <1>0 DEF ModelInv, Retry
<1> QED BY <1>0, <1>2, <1>3, <1>4 DEF SessionInv, Retry, SetUp

\* The warm-up that only launches workers
LEMMA MailboxStep ==
  ASSUME SessionInv, WarmupMailbox
  PROVE  SessionInv'
<1>0. /\ TypeOK /\ leftover = <<>> /\ cfg \in Configs /\ model \in ModelType /\ ModelInv(model)
      /\ UNCHANGED <<cfg, turns, user, prompt, generated, next, position, thinking, response, history>>
      /\ Unfed(model)
  BY DEF SessionInv, ContextInv, WarmupMailbox, turnVars, TypeOK, SetUp, Unfed
<1>1. CASE Retry
  <2>1. generated' \in Text /\ position' \in Nat
    BY <1>0 DEF TypeOK
  <2> QED BY <1>0, <1>1, <2>1, RetryStep DEF WarmupMailbox
<1>2. CASE model' = InitMultiGpu(EnsureMoeWorkers(model)) /\ pc' = "idle" /\ UNCHANGED leftover
  <2>0. cfg.gpus \in Nat \ {0}
    BY <1>0, ConfigFacts
  <2>1. model' = InitMultiGpu(model)
    BY <1>0, <1>2, ExpertsAsked
  <2>2. model' \in ModelType /\ ModelInv(model') /\ SameFeed(model, model')
    BY <1>0, <2>0, <2>1, LeaderLaunched
  <2>3. attempts' \in 0..MaxRetries
    BY <1>0, SessionAssumption DEF CountAttempt, TypeOK, WarmupMailbox
  <2>4. TypeOK'
    BY <1>0, <1>2, <2>2, <2>3 DEF TypeOK
  <2>5. Holds(model, <<>>)' /\ InOrder(model)' /\ leftover' = <<>>
    BY <1>0, <1>2, <2>2 DEF Unfed, Holds, InOrder, SameFeed
  <2>6. ContextInv'
    BY <1>2, <2>5 DEF ContextInv
  <2>7. ModelInv(model)'
    BY <1>0, <2>2, PrimedInv
  <2> QED BY <1>2, <2>4, <2>6, <2>7 DEF SessionInv, SetUp, ModelInv
<1> QED BY <1>1, <1>2 DEF WarmupMailbox

\* Every answer is a token.
LEMMA AnswerFacts == next \in Answers => next \in Token
BY ConfigAssumption

\* The token loop of a warm-up or of an answer feeds the next token.
LEMMA TokenStep ==
  ASSUME TypeOK, ModelInv(model), model' = Decoded(DecodeReady(model), next, position),
         NEW before \in Text, Holds(model, before \o generated), generated' = Append(generated, next)
  PROVE  /\ Grown(model, model') /\ Holds(model', before \o generated') /\ model'.seq_len = position + 1
         /\ InOrder(model) /\ position = model.seq_len => InOrder(model')
         /\ 0 \in model'.dispatch.live /\ (model.paged_seq \/ ~model.multi_gpu => model'.paged_seq)
         /\ model'.rec = Append(model.rec, next)
<1>0. /\ model \in ModelType /\ cfg.gpus \in Nat \ {0} /\ next \in Token /\ position \in Nat
      /\ generated \in Text
  BY ConfigFacts, AnswerFacts DEF TypeOK
<1>1. model.rec = before \o generated /\ Holds(model, model.rec)
  BY DEF Holds
<1>2. /\ Grown(model, model') /\ model'.rec = Append(model.rec, next) /\ model'.seq_len = position + 1
      /\ 0 \in model'.dispatch.live /\ (model.paged_seq \/ ~model.multi_gpu => model'.paged_seq)
      /\ Holds(model, model.rec) => Holds(model', model'.rec)
      /\ InOrder(model) /\ position = model.seq_len => InOrder(model')
  BY <1>0, TokenFed
<1>3. before \o generated' = Append(model.rec, next)
  BY <1>0, <1>1, AppendBehind
<1> QED BY <1>1, <1>2, <1>3

\* The warm-up that decodes: its prompt,
LEMMA WarmupDecodeStep ==
  ASSUME SessionInv, WarmupDecode
  PROVE  SessionInv'
<1>0. /\ TypeOK /\ leftover = <<>> /\ cfg \in Configs /\ model \in ModelType /\ ModelInv(model)
      /\ ~model.crowded /\ pc = "warmup" /\ generated' = <<>> /\ position' = Len(cfg.hello)
      /\ UNCHANGED <<cfg, turns, user, prompt, thinking, response, history>>
      /\ Unfed(model)
  BY DEF SessionInv, ContextInv, WarmupDecode, TypeOK, SetUp, Unfed
<1>1. cfg.gpus \in Nat \ {0} /\ cfg.hello \in Text /\ cfg.hello # <<>> /\ Len(cfg.hello) \in Nat
  BY <1>0, ConfigFacts, TextFacts
<1>2. CASE pc' = "panic" /\ UNCHANGED <<model, attempts, leftover, next>>
  <2>1. TypeOK'
    BY <1>0, <1>1, <1>2, TextFacts DEF TypeOK
  <2>2. ContextInv'
    BY <1>2 DEF ContextInv
  <2>3. ModelInv(model)'
    BY <1>0, <1>2, PrimedInv
  <2> QED BY <1>0, <1>2, <2>1, <2>2, <2>3 DEF SessionInv
<1>3. CASE CountAttempt /\ Retry /\ UNCHANGED next
  <2>1. generated' \in Text /\ position' \in Nat
    BY <1>0, <1>1, TextFacts
  <2> QED BY <1>0, <1>3, <2>1, RetryStep
<1>4. CASE /\ model' = Fed(model, cfg.hello) /\ next' \in WarmupAnswers
           /\ pc' = "warming" /\ UNCHANGED <<attempts, leftover>>
  <2>1. model.rec = <<>> /\ Holds(model, model.rec) /\ InOrder(model) /\ Holds(model, <<>>)
    BY <1>0 DEF Unfed, Holds
  <2>2. /\ Grown(model, model') /\ model'.rec = model.rec \o cfg.hello
        /\ Holds(model, model.rec) => Holds(model', model'.rec)
        /\ Holds(model, <<>>) /\ InOrder(model) => InOrder(model') /\ model'.seq_len = Len(cfg.hello)
    BY <1>0, <1>1, <1>4, PromptFed
  <2>3. model'.rec = cfg.hello \o generated'
    BY <1>0, <1>1, <2>1, <2>2, TextFacts
  <2>4. TypeOK'
    BY <1>0, <1>1, <1>4, <2>2, TextFacts DEF TypeOK, Grown, WarmupAnswers, Answers
  <2>5. /\ Holds(model, cfg.hello \o generated)' /\ InOrder(model)'
        /\ position' = model'.seq_len /\ leftover' = <<>>
    BY <1>0, <1>4, <2>1, <2>2, <2>3 DEF Holds, InOrder
  <2>6. ContextInv'
    BY <1>4, <2>5 DEF ContextInv
  <2>7. ModelInv(model)'
    BY <1>0, <2>2, PrimedInv DEF Grown
  <2> QED BY <1>4, <2>4, <2>6, <2>7 DEF SessionInv, ModelInv
<1> QED BY <1>2, <1>3, <1>4 DEF WarmupDecode

\* its tokens,
LEMMA WarmupTokenStep ==
  ASSUME SessionInv, WarmupStep
  PROVE  SessionInv'
<1>0. /\ TypeOK /\ leftover = <<>> /\ cfg \in Configs /\ model \in ModelType /\ ModelInv(model)
      /\ ~model.crowded /\ pc = "warming" /\ generated' = Append(generated, next)
      /\ UNCHANGED <<cfg, turns, user, prompt, thinking, response, history>>
      /\ Holds(model, cfg.hello \o generated) /\ InOrder(model) /\ position = model.seq_len
  BY DEF SessionInv, ContextInv, WarmupStep, TypeOK, SetUp
<1>1. cfg.hello \in Text /\ generated' \in Text /\ position \in Nat
  BY <1>0, ConfigFacts, TextFacts, AnswerFacts DEF TypeOK
<1>2. CASE pc' = "panic" /\ UNCHANGED <<model, attempts, leftover, next, position>>
  <2>1. TypeOK'
    BY <1>0, <1>1, <1>2 DEF TypeOK
  <2>2. ContextInv'
    BY <1>2 DEF ContextInv
  <2>3. ModelInv(model)'
    BY <1>0, <1>2, PrimedInv
  <2> QED BY <1>0, <1>2, <2>1, <2>2, <2>3 DEF SessionInv
<1>3. CASE CountAttempt /\ Retry /\ UNCHANGED <<next, position>>
  <2>1. generated' \in Text /\ position' \in Nat
    BY <1>1, <1>3
  <2> QED BY <1>0, <1>3, <2>1, RetryStep
<1>4. CASE /\ model' = Decoded(DecodeReady(model), next, position)
           /\ next' \in WarmupAnswers /\ position' = position + 1
           /\ UNCHANGED <<pc, attempts, leftover>>
  <2>1. /\ Grown(model, model') /\ Holds(model', cfg.hello \o generated') /\ InOrder(model')
        /\ model'.seq_len = position + 1
    BY <1>0, <1>1, <1>4, TokenStep
  <2>2. TypeOK'
    BY <1>0, <1>1, <1>4, <2>1 DEF TypeOK, Grown, WarmupAnswers, Answers
  <2>3. /\ Holds(model, cfg.hello \o generated)' /\ InOrder(model)'
        /\ position' = model'.seq_len /\ leftover' = <<>>
    BY <1>0, <1>4, <2>1 DEF Holds, InOrder
  <2>4. ContextInv'
    BY <1>0, <1>4, <2>3 DEF ContextInv
  <2>5. ModelInv(model)'
    BY <1>0, <2>1, PrimedInv DEF Grown
  <2> QED BY <1>0, <1>4, <2>2, <2>4, <2>5 DEF SessionInv, ModelInv
<1> QED BY <1>2, <1>3, <1>4 DEF WarmupStep

\* and its end.
LEMMA WarmupEndStep ==
  ASSUME SessionInv, WarmupEnds
  PROVE  SessionInv'
<1>0. /\ TypeOK /\ leftover = <<>> /\ cfg \in Configs /\ ModelInv(model)
      /\ ~model.crowded /\ pc = "warming" /\ CountAttempt
      /\ UNCHANGED <<cfg, turns, user, prompt, generated, next, position, thinking, response, history>>
      /\ Holds(model, cfg.hello \o generated) /\ InOrder(model)
      /\ generated \in Text /\ position \in Nat
  BY DEF SessionInv, ContextInv, WarmupEnds, TypeOK, SetUp, turnVars
<1>1. CASE Retry
  BY <1>0, <1>1, RetryStep
<1>2. CASE pc' = "idle" /\ leftover' = cfg.hello \o generated /\ UNCHANGED model
  <2>1. leftover' \in Text
    BY <1>0, <1>2, ConfigFacts, TextFacts
  <2>2. attempts' \in 0..MaxRetries
    BY <1>0, SessionAssumption DEF CountAttempt, TypeOK
  <2>3. TypeOK'
    BY <1>0, <1>2, <2>1, <2>2 DEF TypeOK
  <2>4. Holds(model, leftover)' /\ InOrder(model)'
    BY <1>0, <1>2 DEF Holds, InOrder
  <2>5. ContextInv'
    BY <1>2, <2>4 DEF ContextInv
  <2>6. ModelInv(model)'
    BY <1>0, <1>2, PrimedInv
  <2> QED BY <1>0, <1>2, <2>3, <2>5, <2>6 DEF SessionInv
<1> QED BY <1>1, <1>2 DEF WarmupEnds

\* What a failing decode step leaves: its token fed, or not
LEMMA BrokenToken ==
  ASSUME TypeOK, ModelInv(model), NEW n,
         n \in {DecodeReady(model), Append1(DecodeReady(model), next, position)}
  PROVE  /\ Grown(model, n)
         /\ n.rec = model.rec \/ n.rec = Append(model.rec, next)
<1> DEFINE r == DecodeReady(model)
           a == Append1(r, next, position)
<1>0. model \in ModelType /\ cfg.gpus \in Nat \ {0} /\ next \in Token /\ position \in Nat
  BY ConfigFacts, AnswerFacts DEF TypeOK
<1>1. /\ r \in ModelType /\ ModelInv(r) /\ SameFeed(model, r)
      /\ model.dispatch.live \subseteq r.dispatch.live
  BY <1>0, DecodeReadyFacts
<1>2. n = r \/ n = a
  OBVIOUS
<1> HIDE DEF r
<1>3. a \in ModelType /\ SameWorkers(r, a) /\ a.rec = Append(r.rec, next)
  BY <1>0, <1>1, Append1Facts
<1> HIDE DEF a
<1>4. Grown(model, r) /\ r.rec = model.rec
  BY <1>1 DEF Grown, SameFeed
<1>5. Grown(model, a)
  BY <1>3, <1>4, FeedingGrows
<1> QED BY <1>2, <1>3, <1>4, <1>5

\* What both programs do with a prompt, whatever model m it is for.
LEMMA PromptTaken ==
  ASSUME cfg \in Configs, next \in Answers, NEW m \in ModelType, ModelInv(m), NEW toks \in Text, toks # <<>>,
         TakePrompt(m, toks)
  PROVE  /\ Grown(m, model') /\ cfg' = cfg /\ next' \in Answers
         /\ prompt' = toks /\ generated' = <<>> /\ thinking' = FALSE /\ response' = <<>>
         /\ position' = Len(toks) /\ UNCHANGED <<attempts, history>>
         /\ pc' \in {"panic", "loop", "idle", "exit"}
         /\ pc' = "panic" => FeedPanics(m, toks)
         /\ pc' = "loop" => model' = Fed(m, toks)
         /\ pc' = "idle" => cfg.app = "chat"
         /\ EosFree(m.rec) /\ EosFree(toks) => EosFree(model'.rec)
<1>0. cfg.gpus \in Nat \ {0} /\ Len(toks) \in Nat
  BY ConfigFacts, TextFacts
<1>1. /\ prompt' = toks /\ generated' = <<>> /\ thinking' = FALSE /\ response' = <<>>
      /\ position' = Len(toks) /\ UNCHANGED <<cfg, attempts, history>>
  BY DEF TakePrompt
<1>2. CASE pc' = "panic" /\ FeedPanics(m, toks) /\ model' = m /\ UNCHANGED next
  BY <1>1, <1>2 DEF Grown
<1>3. CASE pc' = "loop" /\ model' = Fed(m, toks) /\ next' \in Answers
  <2>1. Grown(m, model') /\ model'.rec = m.rec \o toks
    BY <1>0, <1>3, PromptFed
  <2>2. m.rec \in Text
    BY DEF ModelType
  <2>3. EosFree(m.rec) /\ EosFree(toks) => EosFree(model'.rec)
    BY <2>1, <2>2, EosJoin
  <2> QED BY <1>1, <1>3, <2>1, <2>3
<1>4. CASE /\ \E n \in 0..Len(toks) : model' = FeedBroken(m, toks, n)
           /\ pc' = (IF cfg.app = "chat" THEN "idle" ELSE "exit") /\ UNCHANGED next
  <2>1. PICK n \in 0..Len(toks) : model' = FeedBroken(m, toks, n)
    BY <1>4
  <2>2. Grown(m, model') /\ (EosFree(m.rec) /\ EosFree(toks) => EosFree(model'.rec))
    BY <1>0, <2>1, PromptBroken
  <2>3. pc' \in {"idle", "exit"} /\ (pc' = "idle" => cfg.app = "chat")
    BY <1>4
  <2> QED BY <1>1, <1>4, <2>2, <2>3
<1> QED BY <1>2, <1>3, <1>4 DEF TakePrompt

\* Every turn feeds a prompt of its own.
LEMMA TemplateFacts ==
  ASSUME TypeOK, NEW u \in Users
  PROVE  Template(history, u) \in Text /\ Template(history, u) # <<>>
<1>1. history \in Text /\ cfg.go \in Text /\ u \in Token
  BY ConfigFacts, ConfigAssumption DEF TypeOK
<1>2. Append(history, u) \in Text /\ Append(history, u) = history \o <<u>>
  BY <1>1, TextFacts, AppendFacts DEF Text
<1>3. Len(Append(history, u)) = Len(history) + 1 /\ Len(history) \in Nat
  BY <1>1, TextFacts, AppendFacts DEF Text
<1>4. Template(history, u) = Append(history, u) \o cfg.go
  BY <1>2 DEF Template
<1>5. Len(Append(history, u) \o cfg.go) = Len(Append(history, u)) + Len(cfg.go) /\ Len(cfg.go) \in Nat
  BY <1>1, <1>2, JoinFacts, TextFacts DEF Text
<1>6. Append(history, u) \o cfg.go \in Text
  BY <1>1, <1>2, TextFacts
<1>7. Append(history, u) \o cfg.go # <<>>
  BY <1>3, <1>5
<1> QED BY <1>4, <1>6, <1>7

\* A chat turn resets the model and feeds the whole history.
LEMMA ChatStep ==
  ASSUME SessionInv, NEW u \in Users, ChatTurn(u)
  PROVE  SessionInv'
<1>0. /\ TypeOK /\ cfg \in Configs /\ model \in ModelType /\ ModelInv(model) /\ next \in Answers
      /\ turns < MaxTurns /\ turns' = turns + 1 /\ user' = u /\ leftover' = <<>> /\ cfg.app = "chat"
  BY DEF SessionInv, ChatTurn, TypeOK, SetUp
<1> DEFINE m == ResetState(model)
           toks == Template(history, u)
<1>1. toks \in Text /\ toks # <<>>
  BY <1>0, TemplateFacts
<1>2. m \in ModelType /\ ModelInv(m) /\ Unfed(m) /\ m.rec = <<>>
  BY <1>0, ResetFacts
<1>3. TakePrompt(m, toks)
  BY DEF ChatTurn
<1> HIDE DEF m, toks
<1>4. /\ Grown(m, model') /\ cfg' = cfg /\ next' \in Answers
      /\ prompt' = toks /\ generated' = <<>> /\ thinking' = FALSE /\ response' = <<>>
      /\ position' = Len(toks) /\ UNCHANGED <<attempts, history>>
      /\ pc' \in {"panic", "loop", "idle", "exit"}
      /\ pc' = "loop" => model' = Fed(m, toks)
  BY <1>0, <1>1, <1>2, <1>3, PromptTaken
<1>5. TypeOK'
  <2>1. turns' \in 0..MaxTurns
    BY <1>0, SessionAssumption DEF TypeOK
  <2>2. Len(toks) \in Nat /\ <<>> \in Text
    BY <1>1, TextFacts
  <2> QED BY <1>0, <1>1, <1>4, <2>1, <2>2 DEF TypeOK, Grown
<1>6. ModelInv(model)'
  BY <1>4, PrimedInv DEF Grown
<1>7. ASSUME pc' = "loop"
      PROVE  Holds(model, leftover \o Conversation)' /\ InOrder(model)' /\ position' = model'.seq_len
  <2>1. cfg.gpus \in Nat \ {0} /\ model' = Fed(m, toks)
    BY <1>0, <1>4, <1>7, ConfigFacts
  <2>2. Holds(m, m.rec) /\ Holds(m, <<>>) /\ InOrder(m)
    BY <1>2 DEF Unfed
  <2>3. /\ model'.rec = m.rec \o toks /\ Holds(model', model'.rec)
        /\ InOrder(model') /\ model'.seq_len = Len(toks)
    BY <1>1, <1>2, <2>1, <2>2, PromptFed
  <2>4. leftover' \o Conversation' = toks /\ model'.rec = toks
    BY <1>0, <1>1, <1>2, <1>4, <2>3, TextFacts DEF Conversation
  <2> QED BY <1>4, <2>3, <2>4 DEF Holds, InOrder
<1>8. ContextInv'
  BY <1>0, <1>4, <1>7 DEF ContextInv
<1> QED BY <1>0, <1>4, <1>5, <1>6, <1>8 DEF SessionInv, ModelInv

\* generate feeds its prompt behind what the warm-up left.
LEMMA GenerateStep ==
  ASSUME SessionInv, Generate
  PROVE  SessionInv'
<1>0. /\ TypeOK /\ cfg \in Configs /\ model \in ModelType /\ ModelInv(model) /\ next \in Answers
      /\ UNCHANGED <<turns, user, leftover>> /\ cfg.app = "generate" /\ cfg.prompt # <<>>
      /\ TakePrompt(model, cfg.prompt)
      /\ Holds(model, leftover) /\ (leftover = <<>> => InOrder(model))
  BY DEF SessionInv, ContextInv, Generate, TypeOK, SetUp
<1> DEFINE toks == cfg.prompt
<1>1. toks \in Text /\ leftover \in Text /\ model.rec = leftover
  BY <1>0, ConfigFacts DEF TypeOK, Holds
<1>2. toks # <<>> /\ TakePrompt(model, toks)
  BY <1>0
<1>3. cfg.app # "chat"
  BY <1>0
<1> HIDE DEF toks
<1>4. /\ Grown(model, model') /\ cfg' = cfg /\ next' \in Answers
      /\ prompt' = toks /\ generated' = <<>> /\ thinking' = FALSE /\ response' = <<>>
      /\ position' = Len(toks) /\ UNCHANGED <<attempts, history>>
      /\ pc' \in {"panic", "loop", "exit"}
      /\ pc' = "loop" => model' = Fed(model, toks)
  BY <1>0, <1>1, <1>2, <1>3, PromptTaken
<1>5. TypeOK'
  <2>2. Len(toks) \in Nat /\ <<>> \in Text
    BY <1>1, TextFacts
  <2> QED BY <1>0, <1>1, <1>4, <2>2 DEF TypeOK, Grown
<1>6. ModelInv(model)'
  BY <1>4, PrimedInv DEF Grown
<1>7. ASSUME pc' = "loop"
      PROVE  /\ Holds(model, leftover \o Conversation)'
             /\ leftover' = <<>> => InOrder(model)' /\ position' = model'.seq_len
  <2>1. cfg.gpus \in Nat \ {0} /\ model' = Fed(model, toks)
    BY <1>0, <1>4, <1>7, ConfigFacts
  <2>2. /\ model'.rec = leftover \o toks /\ Holds(model', model'.rec)
        /\ Holds(model, <<>>) /\ InOrder(model) => InOrder(model') /\ model'.seq_len = Len(toks)
    BY <1>0, <1>1, <1>2, <2>1, PromptFed
  <2>3. leftover' \o Conversation' = leftover \o toks
    BY <1>0, <1>1, <1>4, TextFacts DEF Conversation
  <2>4. Holds(model, leftover \o Conversation)'
    BY <2>2, <2>3 DEF Holds
  <2>5. leftover' = <<>> => InOrder(model') /\ model'.seq_len = Len(toks)
    BY <1>0, <2>2
  <2> QED BY <1>4, <2>4, <2>5 DEF InOrder
<1>8. ContextInv'
  BY <1>0, <1>3, <1>4, <1>7 DEF ContextInv
<1> QED BY <1>0, <1>3, <1>4, <1>5, <1>6, <1>8 DEF SessionInv, ModelInv

\* Steps that leave the model alone and lead to a place where nothing is said about it, or nowhere.
LEMMA QuietStep ==
  ASSUME SessionInv, UNCHANGED <<cfg, model, attempts, leftover, prompt, generated, next, position,
                                 thinking, response, history>>,
         turns' \in 0..MaxTurns, user' = user \/ user' \in Users, pc' = pc \/ (pc' = "exit" /\ pc # "start")
  PROVE  SessionInv'
<1>1. TypeOK'
  BY DEF SessionInv, TypeOK
<1>2. ContextInv'
  BY DEF SessionInv, ContextInv, Holds, InOrder, Conversation
<1>3. SetUp' => ModelInv(model)'
  BY DEF SessionInv, SetUp, ModelInv
<1> QED BY <1>1, <1>2, <1>3 DEF SessionInv, Loaded, None

\* A finished turn is remembered by chat and ends generate.
LEMMA EndTurnFacts ==
  ASSUME SessionInv, pc = "loop", NEW text \in Text, EndTurn(text)
  PROVE  /\ history' \in Text
         /\ (pc' = "idle" /\ cfg.app = "chat") \/ (pc' = "exit" /\ history' = history)
<1>1. CASE cfg.app = "chat"
  <2>1. user \in Token /\ history \in Text
    BY <1>1, ConfigAssumption DEF SessionInv, TypeOK
  <2>2. <<user>> \in Text
    BY <2>1 DEF Text
  <2>3. history' = history \o <<user>> \o text /\ pc' = "idle"
    BY <1>1 DEF EndTurn
  <2>4. history \o <<user>> \in Text
    BY <2>1, <2>2, TextFacts
  <2>5. (history \o <<user>>) \o text \in Text
    BY <2>4, TextFacts
  <2> QED BY <1>1, <2>3, <2>5
<1>2. CASE cfg.app # "chat"
  BY <1>2 DEF EndTurn, SessionInv, TypeOK
<1> QED BY <1>1, <1>2

\* The token loop ends.
LEMMA LoopEndStep ==
  ASSUME SessionInv, LoopEnds
  PROVE  SessionInv'
<1>0. /\ TypeOK /\ ModelInv(model) /\ ~model.crowded /\ response \in Text
      /\ UNCHANGED <<cfg, model, attempts, leftover, turns, user, prompt, generated, next, position,
                     thinking, response>>
  BY DEF SessionInv, LoopEnds, TypeOK, SetUp, turnVars
<1>1. history' \in Text /\ ((pc' = "idle" /\ cfg.app = "chat") \/ (pc' = "exit" /\ history' = history))
  BY <1>0, EndTurnFacts DEF LoopEnds
<1>2. TypeOK'
  BY <1>0, <1>1 DEF TypeOK
<1>3. ContextInv'
  BY <1>0, <1>1 DEF ContextInv
<1>4. ModelInv(model)'
  BY <1>0, PrimedInv
<1> QED BY <1>0, <1>1, <1>2, <1>3, <1>4 DEF SessionInv

\* The token loop feeds the token it has chosen.
LEMMA LoopTokenStep ==
  ASSUME SessionInv, LoopStep
  PROVE  SessionInv'
<1>0. /\ TypeOK /\ cfg \in Configs /\ model \in ModelType /\ ModelInv(model)
      /\ ~model.crowded /\ pc = "loop" /\ generated' = Append(generated, next) /\ response' = Printed
      /\ UNCHANGED <<cfg, attempts, leftover, turns, user, prompt>>
      /\ Holds(model, leftover \o Conversation)
      /\ leftover = <<>> => InOrder(model) /\ position = model.seq_len
      /\ cfg.app = "chat" => user \in Users
  BY DEF SessionInv, ContextInv, LoopStep, TypeOK, SetUp
<1>1. generated' \in Text /\ Printed \in Text /\ next \in Token /\ thinking' \in BOOLEAN
  <2>1. next \in Token /\ generated \in Text /\ response \in Text /\ thinking \in BOOLEAN
    BY <1>0, AnswerFacts DEF TypeOK
  <2>2. thinking' \in BOOLEAN
    BY <2>1 DEF LoopStep
  <2> QED BY <1>0, <2>1, <2>2, TextFacts DEF Printed
<1>2. CASE pc' = "panic" /\ UNCHANGED <<model, next, position, history>>
  <2>1. TypeOK'
    BY <1>0, <1>1, <1>2 DEF TypeOK
  <2>2. ContextInv'
    BY <1>2 DEF ContextInv
  <2>3. ModelInv(model)'
    BY <1>0, <1>2, PrimedInv
  <2> QED BY <1>0, <1>2, <2>1, <2>2, <2>3 DEF SessionInv
<1>3. CASE /\ model' \in {DecodeReady(model), Append1(DecodeReady(model), next, position)}
           /\ EndTurn(Printed) /\ UNCHANGED <<next, position>>
  <2>1. history' \in Text /\ ((pc' = "idle" /\ cfg.app = "chat") \/ pc' = "exit")
    BY <1>0, <1>1, <1>3, EndTurnFacts
  <2>2. model' \in ModelType /\ ModelInv(model')
    BY <1>0, <1>1, <1>3, BrokenToken DEF Grown
  <2>3. TypeOK'
    BY <1>0, <1>1, <1>3, <2>1, <2>2 DEF TypeOK
  <2>4. ContextInv'
    BY <1>0, <2>1 DEF ContextInv
  <2>5. ModelInv(model)'
    BY <1>0, <2>2, PrimedInv
  <2> QED BY <1>0, <2>1, <2>3, <2>4, <2>5 DEF SessionInv, ModelInv
<1>4. CASE /\ model' = Decoded(DecodeReady(model), next, position)
           /\ next' \in Answers /\ position' = position + 1
           /\ UNCHANGED <<pc, history>>
  <2>0. leftover \in Text /\ prompt \in Text /\ leftover \o prompt \in Text /\ generated \in Text
        /\ position \in Nat
    BY <1>0, TextFacts DEF TypeOK
  <2>1. /\ leftover \o Conversation = (leftover \o prompt) \o generated
        /\ leftover' \o Conversation' = (leftover \o prompt) \o generated'
    <3>1. leftover \o (prompt \o generated) = (leftover \o prompt) \o generated
      BY <2>0, ConcatAssociative DEF Text
    <3>2. PICK g \in Text : g = generated'
      BY <1>1
    <3>3. leftover \o (prompt \o g) = (leftover \o prompt) \o g
      BY <2>0, ConcatAssociative DEF Text
    <3> QED BY <1>0, <3>1, <3>2, <3>3 DEF Conversation
  <2>2. Holds(model, (leftover \o prompt) \o generated)
    BY <1>0, <2>1
  <2>3. /\ Grown(model, model') /\ Holds(model', (leftover \o prompt) \o generated')
        /\ model'.seq_len = position + 1
        /\ InOrder(model) /\ position = model.seq_len => InOrder(model')
    BY <1>0, <1>4, <2>0, <2>2, TokenStep
  <2>4. TypeOK'
    BY <1>0, <1>1, <1>4, <2>0, <2>3 DEF TypeOK, Grown
  <2>5. Holds(model, leftover \o Conversation)'
    BY <2>1, <2>3 DEF Holds
  <2>6. leftover' = <<>> => InOrder(model)' /\ position' = model'.seq_len
    BY <1>0, <1>4, <2>3 DEF InOrder
  <2>7. ContextInv'
    BY <1>0, <1>4, <2>5, <2>6 DEF ContextInv
  <2>8. ModelInv(model)'
    BY <1>0, <2>3, PrimedInv DEF Grown
  <2> QED BY <1>0, <1>4, <2>4, <2>7, <2>8 DEF SessionInv, ModelInv
<1> QED BY <1>2, <1>3, <1>4 DEF LoopStep

\* Every step keeps the invariant.
LEMMA NextSession == SessionInv /\ [Next]_vars => SessionInv'
<1> SUFFICES ASSUME SessionInv, [Next]_vars PROVE SessionInv'
  OBVIOUS
<1>0. turns \in 0..MaxTurns
  BY DEF SessionInv, TypeOK
<1>1. CASE GenerateNothing \/ Quit
  BY <1>0, <1>1, QuietStep DEF GenerateNothing, Quit, turnVars
<1>2. CASE TemplateError
  <2>1. turns' \in 0..MaxTurns
    BY <1>0, <1>2, SessionAssumption DEF TemplateError
  <2> QED BY <1>2, <2>1, QuietStep DEF TemplateError, turnVars
<1>3. CASE Finished \/ UNCHANGED vars
  BY <1>0, <1>3, QuietStep DEF Finished, vars, turnVars
<1>4. CASE \E u \in Users : ChatTurn(u)
  BY <1>4, ChatStep
<1>5. CASE \E u \in Users : ResetExits(u)
  <2>1. PICK u \in Users : ResetExits(u)
    BY <1>5
  <2>2. turns' \in 0..MaxTurns
    BY <1>0, <2>1, SessionAssumption DEF ResetExits
  <2> QED BY <2>1, <2>2, QuietStep DEF ResetExits
<1> QED BY <1>1, <1>2, <1>3, <1>4, <1>5, StartStep, ReloadStep, MailboxStep, WarmupDecodeStep, WarmupTokenStep,
           WarmupEndStep, GenerateStep, LoopEndStep, LoopTokenStep DEF Next, ProgramNext

(* The inductive invariant of the two programs.                            *)
THEOREM SessionInvariant == Spec => []SessionInv
<1>1. Init => SessionInv
  BY InitSession
<1>2. SessionInv /\ [Next]_vars => SessionInv'
  BY NextSession
<1> QED BY <1>1, <1>2, PTL DEF Spec

(* No worker is launched on a GPU that another one occupies, whatever the  *)
(* machine and the command line.                                           *)
THEOREM OneKernelTheorem == Spec => []OneKernelPerGpu
<1>1. SessionInv => OneKernelPerGpu
  BY DEF SessionInv, OneKernelPerGpu
<1> QED BY <1>1, SessionInvariant, PTL

(* Whenever a token is chosen the model has been fed the warm-up, if there *)
(* was one, the prompt and the answer so far, each token once, in order.   *)
THEOREM ContextTheorem == Spec => []ContextIsTheConversation
<1>1. SessionInv => ContextIsTheConversation
  <2> SUFFICES ASSUME SessionInv, pc = "loop"
               PROVE  /\ model.rec = leftover \o Conversation
                      /\ [i \in DOMAIN model.kv |-> model.kv[i].tok] = model.rec
                      /\ leftover = <<>> => /\ \A i \in DOMAIN model.kv : model.kv[i].pos = i - 1
                                            /\ position = model.seq_len
    BY DEF ContextIsTheConversation
  <2>1. /\ Holds(model, leftover \o Conversation) /\ model \in ModelType
        /\ leftover = <<>> => InOrder(model) /\ position = model.seq_len
    BY DEF SessionInv, ContextInv, TypeOK
  <2>2. model.kv \in Seq(Cell) /\ model.rec \in Seq(Token)
    BY <2>1 DEF ModelType, Cell, Text
  <2>3. DOMAIN model.kv = 1..Len(model.rec) /\ DOMAIN model.rec = 1..Len(model.rec)
        /\ \A i \in 1..Len(model.rec) : model.kv[i].tok = model.rec[i]
    BY <2>1, <2>2 DEF Holds
  <2>4. [i \in DOMAIN model.kv |-> model.kv[i].tok] = model.rec
    BY <2>2, <2>3
  <2>5. DOMAIN model.kv = 1..Len(model.kv)
    BY <2>2
  <2> QED BY <2>1, <2>4, <2>5 DEF Holds, InOrder
<1> QED BY <1>1, SessionInvariant, PTL

-----------------------------------------------------------------------------
(* Every batch has a worker *)

HasExperts(m) == m.multi_gpu => Experts(m) \subseteq m.dispatch.live

\* One GPU has no experts elsewhere.
LEMMA OneGpu ==
  ASSUME NEW m \in ModelType, ~m.multi_gpu
  PROVE  Experts(m) = {}
BY DEF Experts, NumGpus

\* With its experts and a sequence a decode step finds every worker.
LEMMA DecodeHasWorkers ==
  ASSUME NEW m \in ModelType, ModelInv(m), cfg.gpus \in Nat \ {0}, HasExperts(m),
         m.multi_gpu => m.paged_seq
  PROVE  ~DecodePanics(m)
<1>1. 0 \in DecodeReady(m).dispatch.live /\ m.dispatch.live \subseteq DecodeReady(m).dispatch.live
  BY DecodeReadyFacts
<1>2. Experts(m) \subseteq m.dispatch.live
  BY OneGpu DEF HasExperts, ModelType
<1> QED BY <1>1, <1>2 DEF DecodePanics, DecodeTargets

\* So does a prompt of several tokens.
LEMMA PromptHasWorkers ==
  ASSUME NEW m \in ModelType, ModelInv(m), cfg.gpus \in Nat \ {0}, HasExperts(m),
         NEW toks, m.multi_gpu => Len(toks) # 1
  PROVE  ~FeedPanics(m, toks)
<1>1. CASE Len(toks) = 1
  BY <1>1, DecodeHasWorkers DEF FeedPanics
<1>2. CASE Len(toks) # 1
  <2>1. 0 \in PrefillReady(m).dispatch.live /\ m.dispatch.live \subseteq PrefillReady(m).dispatch.live
    BY PrefillReadyFacts
  <2>2. Experts(m) \subseteq m.dispatch.live
    BY OneGpu DEF HasExperts, ModelType
  <2> QED BY <1>2, <2>1, <2>2 DEF FeedPanics, PrefillPanics, PrefillTargets
<1> QED BY <1>1, <1>2

\* Initialisers and feeding keep the experts.
LEMMA ExpertsStay ==
  ASSUME NEW m, Grown(m, model'), cfg' = cfg, HasExperts(m)
  PROVE  HasExperts(model)'
BY DEF Grown, HasExperts, Experts, NumGpus

\* Steps of a program that is set up: its configuration stays accepted.
LEMMA WorkersKept ==
  ASSUME WorkersInv, SetUp, cfg' = cfg, HasExperts(model)', pc' # "panic",
         pc' \in {"warming", "loop"} /\ model'.multi_gpu => model'.paged_seq,
         pc' \in {"warmup", "warming", "reload"} => cfg.app = "generate"
  PROVE  WorkersInv'
<1>1. ~Rejected(cfg)'
  BY DEF WorkersInv, Rejected, MultiGpuMode, AutoMultiGpu
<1> QED BY <1>1 DEF WorkersInv, HasExperts

\* On several GPUs generate has longer prompts.
LEMMA SeveralGpus ==
  ASSUME Supported, SessionInv, WorkersInv, SetUp, model.multi_gpu, cfg.app = "generate"
  PROVE  Len(cfg.hello) # 1 /\ Len(cfg.prompt) # 1
BY DEF Supported, SessionInv, TypeOK, WorkersInv, ModelInv

\* Every step of a supported installation keeps the workers.
LEMMA NextWorkers ==
  ASSUME Supported, SessionInv, WorkersInv, [Next]_vars
  PROVE  WorkersInv'
<1>0. TypeOK /\ cfg \in Configs /\ model \in ModelType /\ cfg.gpus \in Nat \ {0} /\ pc # "panic"
  BY ConfigFacts DEF SessionInv, TypeOK, WorkersInv
<1>a. ASSUME SetUp PROVE ModelInv(model) /\ HasExperts(model)
  BY <1>a DEF SessionInv, WorkersInv, HasExperts
<1>1. CASE Start
  <2>1. CASE pc' = "exit"
    BY <2>1 DEF WorkersInv, SetUp
  <2>2. CASE ~Rejected(cfg) /\ model' = Fresh /\ pc' \in {"warmup", "idle"} /\ cfg' = cfg
    <3>1. HasExperts(Fresh)
      BY <1>0, FreshFacts DEF HasExperts
    <3>2. HasExperts(model)' /\ ~Rejected(cfg)'
      BY <2>2, <3>1 DEF HasExperts, Experts, NumGpus, Rejected, MultiGpuMode, AutoMultiGpu
    <3>3. pc' = "warmup" => cfg.app = "generate"
      BY <1>1, <2>2 DEF Start
    <3> QED BY <2>2, <3>2, <3>3 DEF WorkersInv, HasExperts
  <2> QED BY <1>1, <2>1, <2>2 DEF Start
<1>2. CASE Reload
  <2>0. SetUp /\ cfg' = cfg /\ cfg.app = "generate"
    BY <1>2 DEF Reload, SetUp, WorkersInv
  <2>1. CASE pc' = "exit"
    BY <2>1 DEF WorkersInv, SetUp
  <2>2. CASE model' = Fresh /\ pc' = "warmup"
    <3>1. HasExperts(Fresh)
      BY <1>0, FreshFacts DEF HasExperts
    <3>2. HasExperts(model)'
      BY <2>0, <2>2, <3>1 DEF HasExperts, Experts, NumGpus
    <3> QED BY <2>0, <2>2, <3>2, WorkersKept
  <2> QED BY <1>2, <2>1, <2>2 DEF Reload
<1>3. ASSUME Retry, SetUp, cfg' = cfg, pc \in {"warmup", "warming"} PROVE WorkersInv'
  <2>1. HasExperts(model)'
    BY <1>3, <1>a DEF Retry, HasExperts, Experts, NumGpus
  <2>2. cfg.app = "generate"
    BY <1>3 DEF WorkersInv
  <2> QED BY <1>3, <2>1, <2>2, WorkersKept DEF Retry
<1>4. CASE WarmupMailbox
  <2>0. SetUp /\ cfg' = cfg /\ pc = "warmup"
    BY <1>4 DEF WarmupMailbox, SetUp
  <2>1. CASE Retry
    BY <2>0, <2>1, <1>3
  <2>2. CASE model' = InitMultiGpu(EnsureMoeWorkers(model)) /\ pc' = "idle"
    <3>1. model' = InitMultiGpu(model)
      BY <2>0, <2>2, <1>a, ExpertsAsked
    <3>2. Grown(model, model')
      BY <1>0, <1>a, <2>0, <3>1, LeaderLaunched DEF Grown, SameFeed
    <3>3. HasExperts(model)'
      BY <1>a, <2>0, <3>2, ExpertsStay
    <3> QED BY <2>0, <2>2, <3>3, WorkersKept
  <2> QED BY <1>4, <2>1, <2>2 DEF WarmupMailbox
<1>5. CASE WarmupDecode
  <2>0. SetUp /\ cfg' = cfg /\ pc = "warmup" /\ cfg.app = "generate"
    BY <1>5 DEF WarmupDecode, SetUp, WorkersInv
  <2>1. ~FeedPanics(model, cfg.hello)
    BY <1>0, <1>a, <2>0, SeveralGpus, PromptHasWorkers
  <2>2. CASE Retry
    BY <2>0, <2>2, <1>3
  <2>3. CASE model' = Fed(model, cfg.hello) /\ pc' = "warming"
    <3>1. cfg.hello \in Text /\ cfg.hello # <<>>
      BY <1>0, ConfigFacts
    <3>2. /\ Grown(model, model')
          /\ model.paged_seq \/ ~model.multi_gpu \/ Len(cfg.hello) # 1 => model'.paged_seq
      BY <1>0, <1>a, <2>0, <2>3, <3>1, PromptFed
    <3>3. HasExperts(model)'
      BY <1>a, <2>0, <3>2, ExpertsStay
    <3>4. model'.paged_seq
      BY <2>0, <3>2, SeveralGpus
    <3> QED BY <2>0, <2>3, <3>3, <3>4, WorkersKept
  <2> QED BY <1>5, <2>1, <2>2, <2>3 DEF WarmupDecode
<1>6. CASE WarmupEnds
  <2>0. SetUp /\ cfg' = cfg /\ pc = "warming"
    BY <1>6 DEF WarmupEnds, SetUp
  <2>1. CASE Retry
    BY <2>0, <2>1, <1>3
  <2>2. CASE pc' = "idle" /\ UNCHANGED model
    <3>1. HasExperts(model)'
      BY <1>a, <2>0, <2>2 DEF HasExperts, Experts, NumGpus
    <3> QED BY <2>0, <2>2, <3>1, WorkersKept
  <2> QED BY <1>6, <2>1, <2>2 DEF WarmupEnds
<1>7. ASSUME pc \in {"warming", "loop"} PROVE ~DecodePanics(model) /\ (model.multi_gpu => model.paged_seq)
  <2>1. SetUp /\ (model.multi_gpu => model.paged_seq)
    BY <1>7 DEF SetUp, WorkersInv
  <2> QED BY <1>0, <1>a, <2>1, DecodeHasWorkers
<1>8. ASSUME pc \in {"warming", "loop"}, cfg' = cfg, pc' = pc,
             model' = Decoded(DecodeReady(model), next, position)
      PROVE  WorkersInv'
  <2>0. SetUp
    BY <1>8 DEF SetUp
  <2>1. next \in Token /\ position \in Nat
    BY <1>0, AnswerFacts DEF TypeOK
  <2>2. Grown(model, model') /\ (model.paged_seq \/ ~model.multi_gpu => model'.paged_seq)
    BY <1>0, <1>a, <1>8, <2>0, <2>1, TokenFed
  <2>3. HasExperts(model)'
    BY <1>a, <1>8, <2>0, <2>2, ExpertsStay
  <2>4. model'.paged_seq
    BY <1>7, <1>8, <2>2
  <2>5. pc = "warming" => cfg.app = "generate"
    BY DEF WorkersInv
  <2> QED BY <1>0, <1>8, <2>0, <2>3, <2>4, <2>5, WorkersKept
<1>9. CASE WarmupStep
  <2>0. pc = "warming" /\ cfg' = cfg /\ SetUp
    BY <1>9 DEF WarmupStep, SetUp
  <2> QED BY <1>3, <1>7, <1>8, <1>9, <2>0 DEF WarmupStep
<1>10. CASE LoopStep
  <2>0. pc = "loop" /\ cfg' = cfg /\ SetUp
    BY <1>10 DEF LoopStep, SetUp
  <2>1. CASE /\ model' \in {DecodeReady(model), Append1(DecodeReady(model), next, position)}
             /\ pc' \in {"idle", "exit"}
    <3>1. Grown(model, model')
      BY <1>0, <1>a, <2>0, <2>1, BrokenToken
    <3>2. HasExperts(model)'
      BY <1>a, <2>0, <3>1, ExpertsStay
    <3> QED BY <2>0, <2>1, <3>2, WorkersKept
  <2> QED BY <1>7, <1>8, <1>10, <2>0, <2>1 DEF LoopStep, EndTurn
<1>11. CASE \E u \in Users : ChatTurn(u)
  <2>1. PICK u \in Users : ChatTurn(u)
    BY <1>11
  <2>2. SetUp /\ cfg.app = "chat"
    BY <2>1 DEF ChatTurn, SetUp
  <2>3. ~model.multi_gpu                     \* dropping a dispatcher of several workers ends the process
    <3> SUFFICES ASSUME model.multi_gpu PROVE FALSE
      OBVIOUS
    <3>1. cfg.gpus > 1 /\ Experts(model) \subseteq model.dispatch.live
          /\ model.dispatch.live \subseteq 0..(model.dispatch.slots - 1)
      BY <1>a, <2>2 DEF ModelInv, HasExperts
    <3>2. 1 \in Experts(model)
      BY <1>0, <3>1 DEF Experts, NumGpus
    <3>3. model.dispatch.slots \in Nat
      BY <1>0 DEF ModelType
    <3>4. model.dispatch.slots > 1
      BY <3>1, <3>2, <3>3
    <3> QED BY <2>1, <3>4 DEF ChatTurn, DropExits
  <2> DEFINE m == ResetState(model)
             toks == Template(history, u)
  <2>4. m \in ModelType /\ ModelInv(m) /\ ~m.multi_gpu
    BY <1>0, <1>a, <2>2, <2>3, ResetFacts
  <2>5. toks \in Text /\ toks # <<>> /\ TakePrompt(m, toks)
    BY <1>0, <2>1, TemplateFacts DEF ChatTurn
  <2> HIDE DEF m, toks
  <2>6. HasExperts(m)
    BY <2>4 DEF HasExperts
  <2>7. ~FeedPanics(m, toks)
    BY <1>0, <2>4, <2>6, PromptHasWorkers
  <2>8. /\ Grown(m, model') /\ cfg' = cfg /\ (pc' = "panic" => FeedPanics(m, toks))
        /\ pc' \in {"panic", "loop", "idle", "exit"}
    BY <1>0, <2>4, <2>5, PromptTaken DEF TypeOK
  <2>9. HasExperts(model)'
    BY <2>6, <2>8, ExpertsStay
  <2> QED BY <2>2, <2>4, <2>7, <2>8, <2>9, WorkersKept DEF Grown
<1>12. CASE Generate
  <2>1. /\ SetUp /\ TakePrompt(model, cfg.prompt) /\ cfg.prompt \in Text /\ cfg.prompt # <<>>
        /\ cfg.app = "generate"
    BY <1>0, <1>12, ConfigFacts DEF Generate, SetUp
  <2>2. model.multi_gpu => Len(cfg.prompt) # 1
    BY <2>1, SeveralGpus
  <2>3. ~FeedPanics(model, cfg.prompt)
    BY <1>0, <1>a, <2>1, <2>2, PromptHasWorkers
  <2>4. /\ Grown(model, model') /\ cfg' = cfg /\ (pc' = "panic" => FeedPanics(model, cfg.prompt))
        /\ pc' = "loop" => model' = Fed(model, cfg.prompt)
        /\ pc' \in {"panic", "loop", "idle", "exit"}
    BY <1>0, <1>a, <2>1, PromptTaken DEF TypeOK
  <2>5. HasExperts(model)'
    BY <1>a, <2>1, <2>4, ExpertsStay
  <2>6. pc' = "loop" => model'.paged_seq
    BY <1>0, <1>a, <2>1, <2>2, <2>4, PromptFed
  <2> QED BY <2>1, <2>3, <2>4, <2>5, <2>6, WorkersKept
<1>13. CASE LoopEnds \/ TemplateError \/ Quit \/ GenerateNothing
  <2>1. SetUp /\ cfg' = cfg /\ model' = model /\ pc' \in {"idle", "exit"}
    BY <1>13 DEF LoopEnds, EndTurn, TemplateError, Quit, GenerateNothing, SetUp
  <2>2. HasExperts(model)'
    BY <1>a, <2>1 DEF HasExperts, Experts, NumGpus
  <2> QED BY <2>1, <2>2, WorkersKept
<1>14. CASE Finished \/ UNCHANGED vars
  <2>1. cfg' = cfg /\ pc' = pc /\ model' = model
    BY <1>14 DEF Finished, vars
  <2> QED BY <2>1 DEF WorkersInv, SetUp, Rejected, MultiGpuMode, AutoMultiGpu, Experts, NumGpus
<1>15. CASE \E u \in Users : ResetExits(u)
  <2>1. pc' = "exit"
    BY <1>15 DEF ResetExits
  <2> QED BY <2>1 DEF WorkersInv, SetUp
<1> QED BY <1>1, <1>2, <1>4, <1>5, <1>6, <1>9, <1>10, <1>11, <1>12, <1>13, <1>14, <1>15
        DEF Next, ProgramNext

(* If generate's prompts have two tokens or more on several GPUs, the lazy *)
(* initialisers launch every worker before a batch needs it; a chat there  *)
(* ends at its first line, when reset_state drops the dispatcher.          *)
THEOREM WorkersTheorem ==
  ASSUME Supported
  PROVE  Spec => []EveryBatchHasAWorker
<1>1. Init => WorkersInv
  BY DEF Init, WorkersInv, SetUp
<1>2. SessionInv /\ WorkersInv /\ [Next]_vars => WorkersInv'
  BY NextWorkers
<1>3. WorkersInv => EveryBatchHasAWorker
  BY DEF WorkersInv, EveryBatchHasAWorker
<1> QED BY <1>1, <1>2, <1>3, SessionInvariant, PTL DEF Spec

-----------------------------------------------------------------------------
(* The end-of-sequence token *)

\* A loop goes on only with other tokens.
LEMMA NoStop ==
  ASSUME EosIsKnown, cfg \in Configs, ~IsStopToken(next)
  PROVE  next # "eos"
BY DEF EosIsKnown, IsStopToken

\* A turn without the token leaves a history without it.
LEMMA EosTurn ==
  ASSUME EosIsKnown, SessionInv, EosInv, pc = "loop", NEW text \in Text, EosFree(text), EndTurn(text)
  PROVE  EosFree(history')
<1>1. CASE cfg.app = "chat"
  <2>1. user \in Users /\ user \in Token /\ history \in Text /\ EosFree(history)
    BY <1>1, ConfigAssumption DEF SessionInv, TypeOK, EosInv
  <2>2. user # "eos"
    BY <2>1 DEF EosIsKnown
  <2>3. history \o <<user>> = Append(history, user) /\ Append(history, user) \in Text
    BY <2>1, AppendFacts, TextFacts DEF Text
  <2>4. EosFree(Append(history, user))
    BY <2>1, <2>2, EosAppend
  <2>5. EosFree(Append(history, user) \o text)
    BY <2>3, <2>4, EosJoin
  <2> QED BY <1>1, <2>3, <2>5 DEF EndTurn
<1>2. CASE cfg.app # "chat"
  BY <1>2 DEF EndTurn, EosInv
<1> QED BY <1>1, <1>2

\* Every step keeps the token out.
LEMMA NextEos ==
  ASSUME EosIsKnown, SessionInv, EosInv, [Next]_vars
  PROVE  EosInv'
<1>0. /\ TypeOK /\ cfg \in Configs /\ model \in ModelType /\ cfg.gpus \in Nat \ {0}
      /\ model.rec \in Text /\ response \in Text /\ history \in Text /\ next \in Token /\ position \in Nat
      /\ next \in Answers
  BY ConfigFacts, AnswerFacts DEF SessionInv, TypeOK, ModelType
<1>a. EosFree(model.rec) /\ EosFree(response) /\ EosFree(history)
  BY DEF EosInv
<1>b. ASSUME SetUp PROVE ModelInv(model)
  BY <1>b DEF SessionInv
<1>c. EosFree(cfg.prompt) /\ EosFree(cfg.hello) /\ EosFree(cfg.go) /\ EosFree(<<>>)
  BY <1>0 DEF EosIsKnown, EosFree
<1>d. ASSUME ~IsStopToken(next) PROVE EosFree(Append(model.rec, next)) /\ EosFree(Append(response, next))
  BY <1>0, <1>a, <1>d, NoStop, EosAppend
<1>1. ASSUME model'.rec = model.rec, response' = response, history' = history PROVE EosInv'
  BY <1>a, <1>1 DEF EosInv
<1>2. CASE Start \/ Reload
  <2>1. response' = response /\ history' = history /\ (model' = model \/ model' = Fresh)
    BY <1>2 DEF Start, Reload, turnVars
  <2>2. Fresh.rec = <<>>
    BY <1>0, FreshFacts DEF Unfed, Holds
  <2> QED BY <1>a, <1>c, <2>1, <2>2 DEF EosInv
<1>3. CASE WarmupMailbox
  <2>0. SetUp /\ response' = response /\ history' = history
    BY <1>3 DEF WarmupMailbox, SetUp, turnVars
  <2>1. CASE Retry
    BY <1>1, <2>0, <2>1 DEF Retry
  <2>2. CASE model' = InitMultiGpu(EnsureMoeWorkers(model))
    <3>1. model' = InitMultiGpu(model)
      BY <2>0, <2>2, <1>b, ExpertsAsked
    <3>2. model'.rec = model.rec
      BY <1>0, <1>b, <2>0, <3>1, LeaderLaunched DEF SameFeed
    <3> QED BY <1>1, <2>0, <3>2
  <2> QED BY <1>3, <2>1, <2>2 DEF WarmupMailbox
<1>4. CASE WarmupDecode
  <2>0. SetUp /\ response' = response /\ history' = history
    BY <1>4 DEF WarmupDecode, SetUp
  <2>1. CASE model' = model
    BY <1>1, <2>0, <2>1
  <2>2. CASE model' = Fed(model, cfg.hello)
    <3>1. cfg.hello \in Text /\ cfg.hello # <<>>
      BY <1>0, ConfigFacts
    <3>2. model'.rec = model.rec \o cfg.hello
      BY <1>0, <1>b, <2>0, <2>2, <3>1, PromptFed
    <3>3. EosFree(model'.rec)
      BY <1>0, <1>a, <1>c, <3>1, <3>2, EosJoin
    <3> QED BY <1>a, <2>0, <3>3 DEF EosInv
  <2> QED BY <1>4, <2>1, <2>2 DEF WarmupDecode, Retry
<1>5. ASSUME SetUp, ~IsStopToken(next), model' = Decoded(DecodeReady(model), next, position)
      PROVE  EosFree(model'.rec)
  <2>1. model'.rec = Append(model.rec, next)
    BY <1>0, <1>b, <1>5, TokenFed
  <2> QED BY <1>d, <1>5, <2>1
<1>6. CASE WarmupStep
  <2>0. SetUp /\ ~IsStopToken(next) /\ response' = response /\ history' = history
    BY <1>6 DEF WarmupStep, SetUp
  <2>1. CASE model' = model
    BY <1>1, <2>0, <2>1
  <2>2. CASE model' = Decoded(DecodeReady(model), next, position)
    BY <1>a, <1>5, <2>0, <2>2 DEF EosInv
  <2> QED BY <1>6, <2>1, <2>2 DEF WarmupStep, Retry
<1>7. CASE WarmupEnds \/ TemplateError \/ Quit \/ GenerateNothing \/ Finished \/ UNCHANGED vars
  <2>1. model' = model /\ response' = response /\ history' = history
    BY <1>7 DEF WarmupEnds, Retry, TemplateError, Quit, GenerateNothing, Finished, vars, turnVars
  <2> QED BY <1>1, <2>1
<1>12. CASE \E u \in Users : ResetExits(u)
  <2>1. model' = model /\ response' = response /\ history' = history
    BY <1>12 DEF ResetExits
  <2> QED BY <1>1, <2>1
<1>8. CASE \E u \in Users : ChatTurn(u)
  <2>1. PICK u \in Users : ChatTurn(u)
    BY <1>8
  <2> DEFINE m == ResetState(model)
             toks == Template(history, u)
  <2>2. SetUp
    BY <2>1 DEF ChatTurn, SetUp
  <2>3. m \in ModelType /\ ModelInv(m) /\ m.rec = <<>>
    BY <1>0, <1>b, <2>2, ResetFacts
  <2>4. toks \in Text /\ toks # <<>> /\ TakePrompt(m, toks)
    BY <1>0, <2>1, TemplateFacts DEF ChatTurn
  <2>5. EosFree(toks)
    <3>1. u \in Token /\ u # "eos" /\ cfg.go \in Text
      BY <1>0, ConfigAssumption DEF EosIsKnown
    <3>2. history \o <<u>> = Append(history, u) /\ Append(history, u) \in Text
      BY <1>0, <3>1, AppendFacts, TextFacts DEF Text
    <3>3. EosFree(Append(history, u))
      BY <1>0, <1>a, <3>1, EosAppend
    <3>4. EosFree(Append(history, u) \o cfg.go)
      BY <1>c, <3>1, <3>2, <3>3, EosJoin
    <3> QED BY <3>2, <3>4 DEF Template
  <2> HIDE DEF m, toks
  <2>6. /\ response' = <<>> /\ history' = history
        /\ EosFree(m.rec) /\ EosFree(toks) => EosFree(model'.rec)
    BY <1>0, <2>3, <2>4, PromptTaken
  <2> QED BY <1>a, <1>c, <2>3, <2>5, <2>6 DEF EosInv
<1>9. CASE Generate
  <2>1. SetUp /\ TakePrompt(model, cfg.prompt) /\ cfg.prompt \in Text /\ cfg.prompt # <<>>
    BY <1>0, <1>9, ConfigFacts DEF Generate, SetUp
  <2>2. /\ response' = <<>> /\ history' = history
        /\ EosFree(model.rec) /\ EosFree(cfg.prompt) => EosFree(model'.rec)
    BY <1>0, <1>b, <2>1, PromptTaken
  <2> QED BY <1>a, <1>c, <2>2 DEF EosInv
<1>10. CASE LoopEnds
  <2>1. model' = model /\ response' = response /\ EndTurn(response) /\ pc = "loop"
    BY <1>10 DEF LoopEnds, turnVars
  <2>2. EosFree(history')
    BY <1>0, <1>a, <2>1, EosTurn
  <2> QED BY <1>a, <2>1, <2>2 DEF EosInv
<1>11. CASE LoopStep
  <2>0. SetUp /\ pc = "loop" /\ ~IsStopToken(next) /\ response' = Printed
    BY <1>11 DEF LoopStep, SetUp
  <2>1. Printed \in Text /\ EosFree(Printed)
    BY <1>0, <1>a, <1>d, <2>0, TextFacts DEF Printed
  <2>2. EosFree(model'.rec)
    <3>1. CASE model' = model
      BY <1>a, <3>1
    <3>2. CASE model' \in {DecodeReady(model), Append1(DecodeReady(model), next, position)}
      <4>1. model'.rec = model.rec \/ model'.rec = Append(model.rec, next)
        BY <1>0, <1>b, <2>0, <3>2, BrokenToken
      <4> QED BY <1>a, <1>d, <2>0, <4>1
    <3>3. CASE model' = Decoded(DecodeReady(model), next, position)
      BY <1>5, <2>0, <3>3
    <3> QED BY <1>11, <3>1, <3>2, <3>3 DEF LoopStep
  <2>3. history' = history \/ EndTurn(Printed)
    BY <1>11 DEF LoopStep
  <2>4. EosFree(history')
    BY <1>a, <2>0, <2>1, <2>3, EosTurn
  <2> QED BY <2>0, <2>1, <2>2, <2>4 DEF EosInv
<1> QED BY <1>2, <1>3, <1>4, <1>6, <1>7, <1>8, <1>9, <1>10, <1>11, <1>12 DEF Next, ProgramNext

(* If the loader knows the model's end-of-sequence id, the token is never  *)
(* fed back, shown or remembered.                                          *)
THEOREM EosTheorem ==
  ASSUME EosIsKnown
  PROVE  Spec => []EosEndsTheAnswer
<1>1. Init => EosInv
  BY DEF Init, EosInv, EosFree, Loaded
<1>2. SessionInv /\ EosInv /\ [Next]_vars => EosInv'
  BY NextEos
<1>3. SessionInv /\ EosInv => EosEndsTheAnswer
  <2> SUFFICES ASSUME SessionInv, EosInv PROVE EosEndsTheAnswer
    OBVIOUS
  <2>1. DOMAIN model.rec = 1..Len(model.rec) /\ DOMAIN history = 1..Len(history)
    BY DEF SessionInv, TypeOK, ModelType, Text
  <2> QED BY <2>1 DEF EosInv, EosFree, EosEndsTheAnswer, ToSet
<1> QED BY <1>1, <1>2, <1>3, SessionInvariant, PTL DEF Spec

=============================================================================
