--------------------------- MODULE PagedKVProofs ---------------------------
(***************************************************************************)
(* Proofs about PagedKV for every client, chunk size, pool size and number *)
(* of conversations: ChatInv is inductive, so no slot is lost or owned     *)
(* twice, the three lengths agree, no cached token is overwritten, and     *)
(* prefill attends to its own conversation.                                *)
(*                                                                         *)
(* The argument: append_token keeps a sequence `Sound' (AppendSound); in a *)
(* sound sequence every token has a home of its own (Homes); so the D2D    *)
(* copies of decode (DecodeWrite) and the scatter of prefill               *)
(* (PrefillWrite) put their tokens at their homes and disturb no other.    *)
(*                                                                         *)
(* The second part is about a client that only decodes: the page and       *)
(* position tables of the decode program, which outlive every reset, and   *)
(* the quantised copies of sealed chunks always describe the conversation. *)
(***************************************************************************)
EXTENDS PagedKV, FiniteSetTheorems, SequenceTheorems, TLAPS

-----------------------------------------------------------------------------
(* Division by the chunk size, and sequences of slots.                     *)

(* Products grow with their factor.                                        *)
LEMMA ProductMonotone ==
  ASSUME NEW c \in Nat, NEW m \in Nat, NEW n \in Nat, m <= n
  PROVE  m * c \in Nat /\ n * c \in Nat /\ m * c <= n * c
OBVIOUS

(* One more chunk has c more tokens.                                       *)
LEMMA ProductNext ==
  ASSUME NEW c \in Nat, NEW n \in Nat
  PROVE  (n + 1) * c = n * c + c /\ n * c \in Nat
OBVIOUS

(* A token's chunk and offset, i \div c and i % c, give back its index.    *)
LEMMA DivMod ==
  ASSUME NEW c \in Nat \ {0}, NEW i \in Nat
  PROVE  /\ i \div c \in Nat /\ i % c \in 0..(c - 1)
         /\ i = (i \div c) * c + (i % c)
<1> c > 0 OBVIOUS
<1>1. i \div c \in Nat /\ i % c \in 0..(c - 1)
  OBVIOUS
<1>2. i = c * (i \div c) + (i % c)
  OBVIOUS
<1>3. c * (i \div c) = (i \div c) * c
  BY <1>1
<1> QED BY <1>1, <1>2, <1>3

(* No other chunk and offset do.                                           *)
LEMMA DivUnique ==
  ASSUME NEW c \in Nat \ {0}, NEW i \in Nat, NEW q \in Nat, NEW r \in 0..(c - 1),
         i = q * c + r
  PROVE  i \div c = q /\ i % c = r
<1> DEFINE d == i \div c   m == i % c
<1>1. d \in Nat /\ m \in 0..(c - 1) /\ i = d * c + m
  BY DivMod
<1>2. ~(d < q)
  <2> SUFFICES ASSUME d < q PROVE FALSE
    OBVIOUS
  <2>1. (d + 1) * c <= q * c /\ (d + 1) * c \in Nat /\ q * c \in Nat
    BY <1>1, ProductMonotone
  <2>2. (d + 1) * c = d * c + c /\ d * c \in Nat
    BY <1>1, ProductNext
  <2> HIDE DEF d, m
  <2> QED BY <1>1, <2>1, <2>2
<1>3. ~(q < d)
  <2> SUFFICES ASSUME q < d PROVE FALSE
    OBVIOUS
  <2>1. (q + 1) * c <= d * c /\ (q + 1) * c \in Nat /\ d * c \in Nat
    BY <1>1, ProductMonotone
  <2>2. (q + 1) * c = q * c + c /\ q * c \in Nat
    BY ProductNext
  <2> HIDE DEF d, m
  <2> QED BY <1>1, <2>1, <2>2
<1>4. d = q
  <2> HIDE DEF d
  <2> QED BY <1>1, <1>2, <1>3
<1>5. m = r
  <2>1. q * c \in Nat
    BY ProductNext
  <2> HIDE DEF d, m
  <2> QED BY <1>1, <1>4, <2>1
<1> QED BY <1>4, <1>5

(* A token below n chunks lies in one of them.                             *)
LEMMA DivBelow ==
  ASSUME NEW c \in Nat \ {0}, NEW i \in Nat, NEW n \in Nat, i < n * c
  PROVE  i \div c < n
<1> DEFINE d == i \div c   m == i % c
<1>1. d \in Nat /\ m \in 0..(c - 1) /\ i = d * c + m
  BY DivMod
<1> SUFFICES ASSUME n <= d PROVE FALSE
  BY <1>1
<1>2. n * c <= d * c /\ n * c \in Nat /\ d * c \in Nat
  BY <1>1, ProductMonotone
<1> HIDE DEF d, m
<1> QED BY <1>1, <1>2

\* n chunks are just enough for s tokens
LEMMA CeilDiv ==
  ASSUME NEW c \in Nat \ {0}, NEW s \in Nat, NEW n \in Nat
  PROVE  n = (s + c - 1) \div c <=> s <= n * c /\ n * c < s + c
<1> DEFINE t == s + c - 1
<1>0. t \in Nat
  OBVIOUS
<1>1. t \div c \in Nat /\ t % c \in 0..(c - 1) /\ t = (t \div c) * c + (t % c)
  BY <1>0, DivMod
<1>2. n * c \in Nat
  BY ProductNext
<1>3. ASSUME n = t \div c
      PROVE  s <= n * c /\ n * c < s + c
  <2>1. t = n * c + (t % c)
    BY <1>1, <1>3
  <2> QED BY <1>1, <1>2, <2>1
<1>4. ASSUME s <= n * c, n * c < s + c
      PROVE  n = t \div c
  <2>1. t - n * c \in 0..(c - 1) /\ t = n * c + (t - n * c)
    BY <1>2, <1>4
  <2>2. t \div c = n
    BY <1>0, <2>1, DivUnique
  <2> QED BY <2>2
<1> QED BY <1>3, <1>4

(* What ChunkAllocator::alloc takes and leaves.                            *)
LEMMA PopLast ==
  ASSUME NEW S, NEW f \in Seq(S), f # <<>>
  PROVE  /\ Last(f) \in S /\ Last(f) = f[Len(f)] /\ Len(f) \in Nat \ {0}
         /\ Front(f) \in Seq(S) /\ Len(Front(f)) = Len(f) - 1
         /\ \A i \in 1..(Len(f) - 1) : Front(f)[i] = f[i]
<1> DEFINE n == Len(f) - 1   h == SubSeq(f, 1, n)
<1>1. Len(f) \in Nat \ {0} /\ Last(f) = f[Len(f)] /\ Last(f) \in S
  BY DEF Last
<1>2. Front(f) = h
  BY DEF Front
<1>3. n \in Nat /\ \A i \in 1..n : f[i] \in S
  BY <1>1
<1>4. /\ h \in Seq(S)
      /\ Len(h) = IF 1 <= n THEN n - 1 + 1 ELSE 0
      /\ \A i \in 1..(n - 1 + 1) : h[i] = f[1 + i - 1]
  BY <1>3, SubSeqProperties
<1> HIDE DEF h, n
<1>5. Len(h) = n /\ \A i \in 1..n : h[i] = f[i]
  BY <1>3, <1>4
<1> QED BY <1>1, <1>2, <1>4, <1>5 DEF n

(* An allocation moves one slot from the free list to the owner.           *)
LEMMA PartitionPop ==
  ASSUME NEW S, NEW f \in Seq(S), f # <<>>, NEW g \in Seq(S), Partition(f, g, S)
  PROVE  Partition(Front(f), Append(g, Last(f)), S)
<1> DEFINE h == Front(f)   x == Last(f)   a == Append(g, x)   n == Len(g)
<1>1. /\ x \in S /\ x = f[Len(f)] /\ Len(f) \in Nat \ {0} /\ h \in Seq(S)
      /\ Len(h) = Len(f) - 1 /\ \A i \in 1..(Len(f) - 1) : h[i] = f[i]
  BY PopLast
<1>2. /\ a \in Seq(S) /\ n \in Nat /\ Len(a) = n + 1 /\ a[n + 1] = x
      /\ \A i \in 1..n : a[i] = g[i]
  BY <1>1
<1>3. \A i \in 1..n : g[i] \in S /\ g[i] # x
  BY <1>1 DEF Partition
<1> HIDE DEF h, x, a
<1>4. \A j, k \in 1..Len(h) : h[j] = h[k] => j = k
  BY <1>1 DEF Partition
<1>5. \A j, k \in 1..Len(a) : a[j] = a[k] => j = k
  BY <1>2, <1>3 DEF Partition
<1>6. ASSUME NEW s \in S
      PROVE  (\E j \in 1..Len(h) : h[j] = s) <=> ~(\E k \in 1..Len(a) : a[k] = s)
  <2>1. CASE s = x
    <3>1. \E k \in 1..Len(a) : a[k] = s
      BY <1>2, <2>1
    <3>2. ~(\E j \in 1..Len(h) : h[j] = s)
      BY <1>1, <2>1 DEF Partition
    <3> QED BY <3>1, <3>2
  <2>2. CASE s # x
    <3>1. (\E j \in 1..Len(h) : h[j] = s) <=> (\E j \in 1..Len(f) : f[j] = s)
      BY <1>1, <2>2
    <3>2. (\E k \in 1..Len(a) : a[k] = s) <=> (\E k \in 1..Len(g) : g[k] = s)
      BY <1>2, <2>2
    <3> QED BY <3>1, <3>2 DEF Partition
  <2> QED BY <2>1, <2>2
<1>7. Partition(h, a, S)
  BY <1>4, <1>5, <1>6 DEF Partition
<1> QED BY <1>7 DEF h, a, x

(* A reset returns all of them.                                            *)
LEMMA PartitionReturn ==
  ASSUME NEW S, NEW f \in Seq(S), NEW g \in Seq(S), Partition(f, g, S)
  PROVE  Partition(f \o g, << >>, S)
<1> DEFINE h == f \o g   m == Len(f)   n == Len(g)
<1>1. /\ m \in Nat /\ n \in Nat /\ h \in Seq(S) /\ Len(h) = m + n
      /\ \A i \in 1..m : h[i] = f[i]
      /\ \A i \in 1..n : h[m + i] = g[i]
  OBVIOUS
<1>2. ASSUME NEW i \in 1..(m + n)
      PROVE  \/ i \in 1..m /\ h[i] = f[i]
             \/ i - m \in 1..n /\ h[i] = g[i - m]
  <2>1. CASE i <= m
    BY <1>1, <2>1
  <2>2. CASE i > m
    <3>1. i - m \in 1..n /\ m + (i - m) = i
      BY <1>1, <2>2
    <3> QED BY <1>1, <3>1
  <2> QED BY <1>1, <2>1, <2>2
<1>3. \A i \in 1..m, j \in 1..n : f[i] # g[j]
  BY DEF Partition
<1> HIDE DEF h
<1>4. \A j, k \in 1..Len(h) : h[j] = h[k] => j = k
  <2> SUFFICES ASSUME NEW j \in 1..(m + n), NEW k \in 1..(m + n), h[j] = h[k]
               PROVE  j = k
    BY <1>1
  <2>1. CASE j \in 1..m /\ h[j] = f[j] /\ k \in 1..m /\ h[k] = f[k]
    BY <2>1 DEF Partition
  <2>2. CASE j - m \in 1..n /\ h[j] = g[j - m] /\ k - m \in 1..n /\ h[k] = g[k - m]
    <3>1. j - m = k - m
      BY <2>2 DEF Partition
    <3> QED BY <1>1, <3>1
  <2> QED BY <1>2, <1>3, <2>1, <2>2
<1>5. ASSUME NEW s \in S
      PROVE  \E j \in 1..Len(h) : h[j] = s
  <2>1. CASE \E j \in 1..m : f[j] = s
    BY <1>1, <2>1
  <2>2. CASE \E k \in 1..n : g[k] = s
    <3>1. PICK k \in 1..n : g[k] = s
      BY <2>2
    <3>2. m + k \in 1..Len(h) /\ h[m + k] = s
      BY <1>1, <3>1
    <3> QED BY <3>2
  <2> QED BY <2>1, <2>2 DEF Partition
<1>6. Partition(h, << >>, S)
  BY <1>4, <1>5 DEF Partition
<1> QED BY <1>6 DEF h

(* A new pool owns every slot once.                                        *)
LEMMA FullPoolPartition ==
  ASSUME NEW n \in Nat
  PROVE  /\ FullPool(n) \in Seq(0..(n - 1)) /\ Len(FullPool(n)) = n
         /\ Partition(FullPool(n), << >>, 0..(n - 1))
<1>1. FullPool(n) = [k \in 1..n |-> n - k]
  BY DEF FullPool
<1>2. \A k \in 1..n : n - k \in 0..(n - 1)
  OBVIOUS
<1>3. FullPool(n) \in Seq(0..(n - 1)) /\ Len(FullPool(n)) = n
  BY <1>1, <1>2
<1>4. \A j, k \in 1..n : n - j = n - k => j = k
  OBVIOUS
<1>5. \A s \in 0..(n - 1) : n - s \in 1..n /\ FullPool(n)[n - s] = s
  BY <1>1
<1>6. \A j, k \in 1..n : FullPool(n)[j] = FullPool(n)[k] => j = k
  BY <1>1, <1>4
<1> QED BY <1>3, <1>5, <1>6 DEF Partition

-----------------------------------------------------------------------------
(* The constants, and the chunk list.                                      *)

(* What BoundsAssumption says, in the form the leaves need.                *)
LEMMA Constants ==
  /\ ChunkTokens \in Nat \ {0} /\ MaxChunks \in Nat \ {0} /\ MaxPrompt \in Nat
  /\ VramChunks \in Nat \ {0} /\ VramChunks <= MaxChunks
  /\ Capacity \in Nat /\ Capacity = MaxChunks * ChunkTokens
  /\ MaxConversations \in Nat \ {0} /\ MaxSeqLen \in Nat \ {0} /\ HostTiers \subseteq Nat
<1>1. /\ ChunkTokens \in Nat \ {0} /\ MaxSeqLen \in Nat \ {0} /\ VramChunks \in 1..MaxChunks
      /\ MaxPrompt \in Nat /\ MaxConversations \in Nat \ {0} /\ HostTiers \subseteq Nat
  BY BoundsAssumption
<1>2. MaxSeqLen + ChunkTokens - 1 \in Nat
  BY <1>1
<1>3. MaxChunks \in Nat
  BY <1>1, <1>2, DivMod DEF MaxChunks
<1>4. MaxChunks * ChunkTokens \in Nat
  BY <1>1, <1>3, ProductNext
<1> QED BY <1>1, <1>3, <1>4 DEF Capacity

SlotsOf(c) == [k \in 1..Len(c) |-> c[k].slot]

(* While all chunks are resident the pool is shared out between the free   *)
(* list and the chunk list.                                                *)
LEMMA ResidentPartition ==
  SequenceType /\ ChunksAreResident =>
     /\ SlotsOf(chunks) \in Seq(Slots) /\ Len(SlotsOf(chunks)) = Len(chunks)
     /\ SlotPartition <=> Partition(free_list, SlotsOf(chunks), Slots)
<1> SUFFICES ASSUME SequenceType, ChunksAreResident
             PROVE  /\ SlotsOf(chunks) \in Seq(Slots) /\ Len(SlotsOf(chunks)) = Len(chunks)
                    /\ SlotPartition <=> Partition(free_list, SlotsOf(chunks), Slots)
  OBVIOUS
<1> DEFINE g == SlotsOf(chunks)   n == Len(chunks)
<1>1. n \in Nat /\ \A k \in 1..n : chunks[k].slot \in Slots
  <2>1. n \in Nat /\ \A k \in 1..n : chunks[k] \in Chunk
    BY DEF SequenceType
  <2>2. \A k \in 1..n : chunks[k].slot \in Slots \cup {NoSlot}
    BY <2>1 DEF Chunk
  <2> QED BY <2>1, <2>2 DEF ChunksAreResident
<1>2. g \in Seq(Slots) /\ Len(g) = n /\ \A k \in 1..n : g[k] = chunks[k].slot
  BY <1>1 DEF SlotsOf
<1>3. Resident = 1..n
  BY DEF Resident, ChunksAreResident
<1>4. SlotPartition <=> Partition(free_list, g, Slots)
  <2> HIDE DEF g
  <2> QED BY <1>2, <1>3 DEF SlotPartition, Partition
<1> QED BY <1>2, <1>4

(* reset gives the slots back in the order of the chunks.                  *)
LEMMA FreedAreAll ==
  SequenceType /\ ChunksAreResident => FreedSlots = SlotsOf(chunks)
<1> SUFFICES ASSUME SequenceType, ChunksAreResident
             PROVE  FreedSlots = SlotsOf(chunks)
  OBVIOUS
<1> DEFINE n == Len(chunks)
<1>1. n \in Nat /\ Resident = 1..n
  BY DEF SequenceType, Resident, ChunksAreResident
<1>2. Cardinality(Resident) = n
  BY <1>1, FS_Interval
<1>3. ASSUME NEW k \in 1..n
      PROVE  Rank(k) = k
  <2>1. {j \in Resident : j <= k} = 1..k
    BY <1>1
  <2>2. Cardinality(1..k) = k
    BY FS_Interval
  <2> QED BY <2>1, <2>2 DEF Rank
<1>4. ASSUME NEW m \in 1..n
      PROVE  (CHOOSE k \in Resident : Rank(k) = m) = m
  BY <1>1, <1>3
<1>5. FreedSlots = [m \in 1..n |-> chunks[CHOOSE k \in Resident : Rank(k) = m].slot]
  BY <1>2 DEF FreedSlots
<1>6. \A m \in 1..n : chunks[CHOOSE k \in Resident : Rank(k) = m].slot = chunks[m].slot
  BY <1>4
<1> QED BY <1>5, <1>6 DEF SlotsOf

(* How a chunk list stands to the number of its tokens.                    *)
LEMMA ChunkCount ==
  ASSUME SequenceType, ChunkLengths
  PROVE  LET n == Len(chunks) IN
         /\ n \in Nat /\ seq_len \in Nat /\ n * ChunkTokens \in Nat
         /\ seq_len <= n * ChunkTokens /\ n * ChunkTokens < seq_len + ChunkTokens
         /\ NeedsNewChunk <=> seq_len = n * ChunkTokens
<1> DEFINE n == Len(chunks)
<1>1. n \in Nat /\ seq_len \in Nat /\ ChunkTokens \in Nat \ {0} /\ Capacity + 1 \in Nat
  BY Constants DEF SequenceType
<1>2. n * ChunkTokens \in Nat
  BY <1>1, ProductNext
<1>3. seq_len <= n * ChunkTokens /\ n * ChunkTokens < seq_len + ChunkTokens
  BY <1>1, CeilDiv DEF ChunkLengths
<1>4. n = 0 => NeedsNewChunk /\ seq_len = n * ChunkTokens
  <2> SUFFICES ASSUME n = 0 PROVE NeedsNewChunk /\ seq_len = n * ChunkTokens
    OBVIOUS
  <2>1. chunks = <<>>
    BY DEF SequenceType
  <2>2. n * ChunkTokens = 0
    BY <1>1
  <2> QED BY <1>1, <1>3, <2>1, <2>2 DEF NeedsNewChunk
<1>5. n > 0 => (NeedsNewChunk <=> seq_len = n * ChunkTokens)
  <2> SUFFICES ASSUME n > 0 PROVE NeedsNewChunk <=> seq_len = n * ChunkTokens
    OBVIOUS
  <2>1. chunks # <<>> /\ Last(chunks) = chunks[n] /\ n \in 1..n
    BY <1>1 DEF Last
  <2>2. chunks[n].len = seq_len - (n - 1) * ChunkTokens
    BY <1>1, <2>1 DEF ChunkLengths
  <2>3. n - 1 \in Nat /\ (n - 1) + 1 = n
    BY <1>1
  <2>4. n * ChunkTokens = (n - 1) * ChunkTokens + ChunkTokens /\ (n - 1) * ChunkTokens \in Nat
    BY <1>1, <2>3, ProductNext
  <2>5. NeedsNewChunk <=> seq_len - (n - 1) * ChunkTokens >= ChunkTokens
    BY <2>1, <2>2 DEF NeedsNewChunk
  <2> QED BY <1>1, <1>2, <1>3, <2>4, <2>5
<1> QED BY <1>1, <1>2, <1>3, <1>4, <1>5

(* Everything about the sequence that append_token relies on and keeps.    *)
Sound ==
    /\ SequenceType /\ ChunksAreResident /\ Len(free_list) + Len(chunks) = VramChunks
    /\ SlotPartition /\ ChunkLengths

(* What append_token does to a sound sequence.                             *)
Appended ==
    /\ pool' = pool /\ seq_len' = seq_len + 1
    /\ Len(chunks') = (seq_len \div ChunkTokens) + 1
    /\ chunks'[Len(chunks')].len = (seq_len % ChunkTokens) + 1
    /\ \A k \in 1..Len(chunks) : chunks'[k].slot = chunks[k].slot
    /\ \/ Len(chunks') = Len(chunks)
       \/ Len(chunks') = Len(chunks) + 1 /\ chunks'[Len(chunks')].slot = Last(free_list)

(* The chunks of the pool bound what a sequence can hold.                  *)
LEMMA PoolBound ==
  ASSUME NEW f \in Nat, NEW n \in Nat, f + n = VramChunks
  PROVE  n <= MaxChunks /\ n * ChunkTokens <= Capacity
<1>1. n <= MaxChunks
  BY Constants
<1> QED BY <1>1, Constants, ProductMonotone

(* append_token at the end of a chunk takes a slot of the pool.            *)
LEMMA AppendNewChunk ==
  ASSUME Sound, AppendToken, NeedsNewChunk
  PROVE  Sound' /\ Appended
<1> DEFINE n == Len(chunks)   f == free_list   new == [slot |-> Last(f), len |-> 1]
<1>0. /\ f # <<>> /\ chunks' = Append(chunks, new) /\ free_list' = Front(f)
      /\ seq_len' = seq_len + 1 /\ pool' = pool /\ host_tier' = host_tier
      /\ host_free' = host_free
  BY DEF AppendToken, VramSuffices, Grown
<1>1. /\ f \in Seq(Slots) /\ chunks \in Seq(Chunk) /\ n \in Nat
      /\ ChunkTokens \in Nat \ {0} /\ seq_len \in Nat
  BY Constants DEF Sound, SequenceType
<1>2. /\ n * ChunkTokens \in Nat /\ seq_len = n * ChunkTokens
  BY ChunkCount DEF Sound
<1>3. /\ Last(f) \in Slots /\ Len(f) \in Nat \ {0} /\ Front(f) \in Seq(Slots)
      /\ Len(Front(f)) = Len(f) - 1
  BY <1>0, <1>1, PopLast
<1>4. new \in Chunk /\ NoSlot \notin Slots
  BY <1>1, <1>3, Constants DEF Chunk, Slots, NoSlot
<1>5. /\ chunks' \in Seq(Chunk) /\ Len(chunks') = n + 1
      /\ chunks'[n + 1] = new /\ \A k \in 1..n : chunks'[k] = chunks[k]
  BY <1>0, <1>1, <1>4
<1>6. Len(free_list') + Len(chunks') = VramChunks
  BY <1>0, <1>1, <1>3, <1>5 DEF Sound
<1>7. (n + 1) * ChunkTokens = n * ChunkTokens + ChunkTokens
  BY <1>1, ProductNext
<1>8. seq_len' <= Capacity
  <2>1. (n + 1) * ChunkTokens <= Capacity
    <3>1. Len(f) - 1 \in Nat /\ n + 1 \in Nat /\ (Len(f) - 1) + (n + 1) = VramChunks
      BY <1>1, <1>3 DEF Sound
    <3> QED BY <3>1, PoolBound
  <2> QED BY <1>0, <1>1, <1>2, <1>7, <2>1, Constants
<1>9. SequenceType'
  BY <1>0, <1>1, <1>3, <1>5, <1>8, Constants DEF Sound, SequenceType
<1>10. ChunksAreResident'
  <2>1. \A k \in 1..n : chunks'[k].slot # NoSlot
    BY <1>5 DEF Sound, ChunksAreResident
  <2>2. chunks'[n + 1].slot # NoSlot
    BY <1>3, <1>4, <1>5
  <2>3. \A k \in 1..(n + 1) : k \in 1..n \/ k = n + 1
    BY <1>1
  <2> QED BY <1>5, <2>1, <2>2, <2>3 DEF ChunksAreResident
<1>11. SlotPartition'
  <2>1. Partition(f, SlotsOf(chunks), Slots) /\ SlotsOf(chunks) \in Seq(Slots)
        /\ Len(SlotsOf(chunks)) = n
    BY ResidentPartition DEF Sound
  <2>2. Partition(Front(f), Append(SlotsOf(chunks), Last(f)), Slots)
    BY <1>0, <1>1, <2>1, PartitionPop
  <2>3. SlotsOf(chunks') = Append(SlotsOf(chunks), Last(f))
    <3> DEFINE a == Append(SlotsOf(chunks), Last(f))
    <3>1. /\ a \in Seq(Slots) /\ Len(a) = n + 1 /\ a[n + 1] = Last(f)
          /\ \A k \in 1..n : a[k] = SlotsOf(chunks)[k]
      BY <1>1, <1>3, <2>1
    <3>2. \A k \in 1..n : SlotsOf(chunks)[k] = chunks[k].slot
      BY DEF SlotsOf
    <3>3. SlotsOf(chunks') = [k \in 1..(n + 1) |-> chunks'[k].slot]
      BY <1>5 DEF SlotsOf
    <3>4. \A k \in 1..(n + 1) : a[k] = chunks'[k].slot
      <4>1. \A k \in 1..n : a[k] = chunks'[k].slot
        BY <1>5, <3>1, <3>2
      <4>2. \A k \in 1..(n + 1) : k \in 1..n \/ k = n + 1
        BY <1>1
      <4> HIDE DEF a
      <4> QED BY <1>5, <3>1, <4>1, <4>2
    <3> HIDE DEF a
    <3>5. a = [k \in 1..(n + 1) |-> a[k]]
      BY <3>1
    <3>6. SlotsOf(chunks') = a
      BY <3>3, <3>4, <3>5
    <3> QED BY <3>6 DEF a
  <2>4. SlotPartition' <=> Partition(free_list', SlotsOf(chunks'), Slots)
    <3>1. (SequenceType /\ ChunksAreResident)'
      BY <1>9, <1>10
    <3>2. (SequenceType /\ ChunksAreResident =>
             (SlotPartition <=> Partition(free_list, SlotsOf(chunks), Slots)))'
      BY ResidentPartition, PTL
    <3> QED BY <3>1, <3>2
  <2> QED BY <1>0, <2>2, <2>3, <2>4
<1>12. ChunkLengths'
  <2>1. \A k \in 1..n : chunks'[k].len = ChunkTokens
    <3> SUFFICES ASSUME NEW k \in 1..n PROVE chunks[k].len = ChunkTokens
      BY <1>5
    <3>1. CASE k < n
      BY <1>1, <3>1 DEF Sound, ChunkLengths
    <3>2. CASE k = n
      <4>1. chunks[n].len = seq_len - (n - 1) * ChunkTokens
        BY <1>1, <3>2 DEF Sound, ChunkLengths
      <4>2. n - 1 \in Nat /\ n = (n - 1) + 1
        BY <1>1, <3>2
      <4>3. n * ChunkTokens = (n - 1) * ChunkTokens + ChunkTokens /\ (n - 1) * ChunkTokens \in Nat
        BY <1>1, <4>2, ProductNext
      <4> QED BY <1>1, <1>2, <3>2, <4>1, <4>3
    <3> QED BY <1>1, <3>1, <3>2
  <2>2. chunks'[n + 1].len = seq_len' - n * ChunkTokens
    BY <1>0, <1>1, <1>2, <1>5
  <2>3. (n + 1) - 1 = n
    BY <1>1
  <2>4. n + 1 = (seq_len' + ChunkTokens - 1) \div ChunkTokens
    <3>1. seq_len' \in Nat /\ n + 1 \in Nat
      BY <1>0, <1>1
    <3>2. seq_len' <= (n + 1) * ChunkTokens /\ (n + 1) * ChunkTokens < seq_len' + ChunkTokens
      BY <1>0, <1>1, <1>2, <1>7
    <3> QED BY <1>1, <3>1, <3>2, CeilDiv
  <2>5. ~(n + 1 < n + 1) /\ \A k \in 1..(n + 1) : k # n + 1 => (k \in 1..n /\ k < n + 1)
    BY <1>1
  <2> QED BY <1>5, <2>1, <2>2, <2>3, <2>4, <2>5 DEF ChunkLengths
<1>13. seq_len \div ChunkTokens = n /\ seq_len % ChunkTokens = 0
  <2>1. 0 \in 0..(ChunkTokens - 1) /\ seq_len = n * ChunkTokens + 0
    BY <1>1, <1>2
  <2> QED BY <1>1, <2>1, DivUnique
<1>14. Appended
  BY <1>0, <1>5, <1>13 DEF Appended
<1> QED BY <1>6, <1>9, <1>10, <1>11, <1>12, <1>14 DEF Sound

(* append_token within a chunk fills the next offset.                      *)
LEMMA AppendInPlace ==
  ASSUME Sound, AppendToken, ~NeedsNewChunk
  PROVE  Sound' /\ Appended
<1> DEFINE n == Len(chunks)   r == seq_len - (n - 1) * ChunkTokens
<1>0. /\ chunks' = [chunks EXCEPT ![n].len = @ + 1] /\ free_list' = free_list
      /\ seq_len' = seq_len + 1 /\ pool' = pool /\ host_tier' = host_tier
      /\ host_free' = host_free
  BY DEF AppendToken, Grown
<1>1. /\ free_list \in Seq(Slots) /\ chunks \in Seq(Chunk) /\ n \in Nat
      /\ ChunkTokens \in Nat \ {0} /\ seq_len \in Nat
  BY Constants DEF Sound, SequenceType
<1>2. /\ n * ChunkTokens \in Nat /\ seq_len < n * ChunkTokens
      /\ n * ChunkTokens < seq_len + ChunkTokens
  BY <1>1, ChunkCount DEF Sound
<1>3. n \in 1..n /\ n - 1 \in Nat /\ (n - 1) + 1 = n
  <2>1. n # 0
    BY <1>1, <1>2
  <2> QED BY <1>1, <2>1
<1>4. n * ChunkTokens = (n - 1) * ChunkTokens + ChunkTokens /\ (n - 1) * ChunkTokens \in Nat
  BY <1>1, <1>3, ProductNext
<1>5. r \in 1..(ChunkTokens - 1) /\ seq_len = (n - 1) * ChunkTokens + r
  BY <1>1, <1>2, <1>4
<1>6. chunks[n].len = r /\ \A k \in 1..n : k < n => chunks[k].len = ChunkTokens
  BY <1>1, <1>3 DEF Sound, ChunkLengths
<1> HIDE DEF r
<1>7. /\ chunks' \in Seq(Chunk) /\ Len(chunks') = n
      /\ \A k \in 1..n : /\ chunks'[k].slot = chunks[k].slot
                         /\ chunks'[k].len = IF k = n THEN r + 1 ELSE chunks[k].len
  <2>1. \A k \in 1..n : chunks[k] \in Chunk
    BY <1>1
  <2>2. [chunks[n] EXCEPT !.len = @ + 1] \in Chunk
    <3>1. chunks[n].len + 1 \in 1..ChunkTokens
      BY <1>1, <1>5, <1>6
    <3> QED BY <1>3, <2>1, <3>1 DEF Chunk
  <2>3. chunks' = [chunks EXCEPT ![n] = [chunks[n] EXCEPT !.len = @ + 1]]
    BY <1>0, <1>1, <1>3
  <2>4. chunks' \in Seq(Chunk) /\ Len(chunks') = n
    BY <1>1, <1>3, <2>2, <2>3
  <2>5. \A k \in 1..n : k # n => chunks'[k] = chunks[k]
    BY <1>1, <2>3
  <2>6. chunks'[n] = [chunks[n] EXCEPT !.len = @ + 1]
    BY <1>1, <1>3, <2>3
  <2>7. chunks'[n].slot = chunks[n].slot /\ chunks'[n].len = r + 1
    BY <1>3, <1>6, <2>1, <2>6 DEF Chunk
  <2> QED BY <2>4, <2>5, <2>7
<1>8. seq_len' <= Capacity
  <2>1. n * ChunkTokens <= Capacity
    <3>1. Len(free_list) \in Nat /\ Len(free_list) + n = VramChunks
      BY <1>1 DEF Sound
    <3> QED BY <1>1, <3>1, PoolBound
  <2> QED BY <1>0, <1>1, <1>2, <2>1, Constants
<1>9. SequenceType'
  BY <1>0, <1>1, <1>7, <1>8, Constants DEF Sound, SequenceType
<1>10. ChunksAreResident' /\ Len(free_list') + Len(chunks') = VramChunks
  BY <1>0, <1>7 DEF Sound, ChunksAreResident
<1>11. SlotPartition'
  <2>1. Resident' = Resident /\ \A k \in Resident : k \in 1..n
    BY <1>7 DEF Resident
  <2> QED BY <1>0, <1>7, <2>1 DEF Sound, SlotPartition
<1>12. ChunkLengths'
  <2>1. \A k \in 1..n : chunks'[k].len = IF k < n THEN ChunkTokens
                                         ELSE seq_len' - (n - 1) * ChunkTokens
    <3>1. r + 1 = seq_len' - (n - 1) * ChunkTokens
      BY <1>0, <1>1, <1>4, <1>5
    <3>2. ~(n < n) /\ \A k \in 1..n : k # n => k < n
      BY <1>1
    <3> QED BY <1>6, <1>7, <3>1, <3>2
  <2>2. n = (seq_len' + ChunkTokens - 1) \div ChunkTokens
    <3>1. seq_len' \in Nat /\ seq_len' <= n * ChunkTokens /\ n * ChunkTokens < seq_len' + ChunkTokens
      BY <1>0, <1>1, <1>2
    <3> QED BY <1>1, <3>1, CeilDiv
  <2> QED BY <1>7, <2>1, <2>2 DEF ChunkLengths
<1>13. seq_len \div ChunkTokens = n - 1 /\ seq_len % ChunkTokens = r
  <2>1. r \in 0..(ChunkTokens - 1)
    BY <1>1, <1>5
  <2> QED BY <1>1, <1>3, <1>5, <2>1, DivUnique
<1>14. Appended
  <2>1. (n - 1) + 1 = n
    BY <1>3
  <2>2. Len(chunks') = (seq_len \div ChunkTokens) + 1
    BY <1>7, <1>13, <2>1
  <2>3. chunks'[Len(chunks')].len = (seq_len % ChunkTokens) + 1
    BY <1>3, <1>7, <1>13
  <2> QED BY <1>0, <1>7, <2>2, <2>3 DEF Appended
<1> QED BY <1>9, <1>10, <1>11, <1>12, <1>14 DEF Sound

(* append_token keeps the sequence sound.                                  *)
LEMMA AppendSound ==
  ASSUME Sound, AppendToken
  PROVE  Sound' /\ Appended
BY AppendNewChunk, AppendInPlace

-----------------------------------------------------------------------------
(* Where the tokens of a sound sequence live.                              *)

SlotOf(i) == chunks[(i \div ChunkTokens) + 1].slot

Homed ==
    \A i \in 0..(seq_len - 1) :
        /\ (i \div ChunkTokens) + 1 \in 1..Len(chunks)
        /\ i \div ChunkTokens \in QSlots /\ i \div ChunkTokens < Len(chunks)
        /\ i % ChunkTokens \in Offsets
        /\ SlotOf(i) \in Slots

HomesDistinct ==
    \A i, j \in 0..(seq_len - 1) :
        SlotOf(i) = SlotOf(j) /\ i % ChunkTokens = j % ChunkTokens => i = j

Bounded == seq_len <= Capacity /\ Len(chunks) <= MaxChunks

ResidentSlots == \A k \in 1..Len(chunks) : chunks[k].slot \in Slots

(* A sound sequence fits its pool and lies in VRAM.                        *)
LEMMA SoundBounds == Sound => Bounded /\ ResidentSlots
<1> SUFFICES ASSUME Sound PROVE Bounded /\ ResidentSlots
  OBVIOUS
<1> DEFINE n == Len(chunks)
<1>1. /\ n \in Nat /\ seq_len \in Nat /\ n * ChunkTokens \in Nat /\ seq_len <= n * ChunkTokens
  BY ChunkCount DEF Sound
<1>2. Len(free_list) \in Nat /\ Len(free_list) + n = VramChunks
  BY DEF Sound, SequenceType
<1>3. n <= MaxChunks /\ n * ChunkTokens <= Capacity
  BY <1>1, <1>2, PoolBound
<1>4. seq_len <= Capacity
  BY <1>1, <1>3, Constants
<1>5. ResidentSlots
  <2>1. SlotsOf(chunks) \in Seq(Slots) /\ Len(SlotsOf(chunks)) = n
    BY ResidentPartition DEF Sound
  <2>2. \A k \in 1..n : SlotsOf(chunks)[k] \in Slots
    BY <2>1
  <2>3. \A k \in 1..n : SlotsOf(chunks)[k] = chunks[k].slot
    BY DEF SlotsOf
  <2> QED BY <2>2, <2>3 DEF ResidentSlots
<1> QED BY <1>3, <1>4, <1>5 DEF Bounded

(* Every token of a sound sequence has a home, and no two share one.       *)
LEMMA Homes == Sound => Homed /\ HomesDistinct
<1> SUFFICES ASSUME Sound PROVE Homed /\ HomesDistinct
  OBVIOUS
<1> DEFINE n == Len(chunks)
<1>1. /\ n \in Nat /\ seq_len \in Nat /\ n * ChunkTokens \in Nat /\ seq_len <= n * ChunkTokens
      /\ ChunkTokens \in Nat \ {0} /\ MaxChunks \in Nat
  BY ChunkCount, Constants DEF Sound
<1>2. n <= MaxChunks /\ ResidentSlots
  BY SoundBounds DEF Bounded
<1>3. ASSUME NEW i \in 0..(seq_len - 1)
      PROVE  /\ i \in Nat /\ i \div ChunkTokens \in Nat /\ i \div ChunkTokens < n
             /\ i % ChunkTokens \in Offsets
             /\ i = (i \div ChunkTokens) * ChunkTokens + (i % ChunkTokens)
  <2>1. i \in Nat /\ i < n * ChunkTokens
    BY <1>1
  <2>2. i \div ChunkTokens < n
    BY <1>1, <2>1, DivBelow
  <2>3. /\ i \div ChunkTokens \in Nat /\ i % ChunkTokens \in 0..(ChunkTokens - 1)
        /\ i = (i \div ChunkTokens) * ChunkTokens + (i % ChunkTokens)
    BY <1>1, <2>1, DivMod
  <2> QED BY <2>1, <2>2, <2>3 DEF Offsets
<1>4. ASSUME NEW i \in 0..(seq_len - 1)
      PROVE  (i \div ChunkTokens) + 1 \in 1..n /\ i \div ChunkTokens \in QSlots
  <2> DEFINE d == i \div ChunkTokens
  <2>1. d \in Nat /\ d < n
    BY <1>3
  <2> HIDE DEF d
  <2>2. d + 1 \in 1..n /\ d \in QSlots
    BY <1>1, <1>2, <2>1 DEF QSlots
  <2> QED BY <2>2 DEF d
<1>5. Homed
  BY <1>2, <1>3, <1>4 DEF Homed, SlotOf, ResidentSlots
<1>6. ASSUME NEW i \in 0..(seq_len - 1), NEW j \in 0..(seq_len - 1),
             SlotOf(i) = SlotOf(j), i % ChunkTokens = j % ChunkTokens
      PROVE  i = j
  <2> DEFINE d == i \div ChunkTokens   e == j \div ChunkTokens
  <2>1. Resident = 1..n
    BY DEF Sound, Resident, ChunksAreResident
  <2>2. d + 1 \in Resident /\ e + 1 \in Resident
    BY <1>4, <2>1
  <2>3. d + 1 = e + 1
    BY <1>6, <2>2 DEF Sound, SlotPartition, SlotOf
  <2>4. d \in Nat /\ e \in Nat
    BY <1>3
  <2>5. d = e
    <3> HIDE DEF d, e
    <3> QED BY <2>3, <2>4
  <2>6. i = d * ChunkTokens + (i % ChunkTokens) /\ j = e * ChunkTokens + (j % ChunkTokens)
    BY <1>3
  <2> QED BY <1>6, <2>5, <2>6
<1> QED BY <1>5, <1>6 DEF HomesDistinct

(* Between calls and between slabs the sequence is sound.                  *)
LEMMA TalkingSound ==
  ASSUME ChatInv, phase \in {"talking", "prefill"}
  PROVE  /\ Sound /\ seq_len = Cached + slab /\ Cached \in Nat
         /\ pool < conv /\ pool \in Pools
<1>1. Sound /\ seq_len = Cached + slab
  BY DEF ChatInv, TypeOK, PoolInv, LengthsAgree, Sound
<1>2. Cached \in Nat
  BY Constants DEF ChatInv, TypeOK, ClientType, Cached
<1> QED BY <1>1, <1>2 DEF ChatInv, ClientInv, TypeOK, SequenceType

(* A page table rewritten from resident chunks.                            *)
LEMMA RewrittenTable ==
  ASSUME NEW t \in [QSlots -> Page \cup {Null}], NEW list \in Seq(Chunk), pool \in Pools,
         \A k \in 1..Len(list) : list[k].slot \in Slots, Len(list) <= MaxChunks
  PROVE  /\ Rewritten(t, list) \in [QSlots -> Page \cup {Null}]
         /\ \A k \in 0..(Len(list) - 1) : Rewritten(t, list)[k] = <<pool, list[k + 1].slot>>
<1>1. Len(list) \in Nat /\ MaxChunks \in Nat
  BY Constants
<1>2. ASSUME NEW k \in QSlots, k < Len(list)
      PROVE  <<pool, list[k + 1].slot>> \in Page
  <2>1. k + 1 \in 1..Len(list)
    BY <1>1, <1>2 DEF QSlots
  <2> QED BY <2>1 DEF Page
<1>3. Rewritten(t, list) \in [QSlots -> Page \cup {Null}]
  BY <1>2 DEF Rewritten
<1>4. \A k \in 0..(Len(list) - 1) : k \in QSlots /\ k < Len(list)
  BY <1>1 DEF QSlots
<1> QED BY <1>3, <1>4 DEF Rewritten

-----------------------------------------------------------------------------
(* A decode step.                                                          *)

(* The token is appended and the program patched.                          *)
LEMMA DecodePatch ==
  ASSUME ChatInv, phase = "talking", model_len < MaxSeqLen, AppendToken, PatchDecodeProgram
  PROVE  /\ Sound' /\ Appended /\ seq_len = model_len /\ model_len \in 0..(Capacity - 1)
         /\ d_page' \in [QSlots -> Page \cup {Null}] /\ last_page_table_len' \in 0..MaxChunks
         /\ d_pos' \in [0..(MaxSeqLen - 1) -> Nat] /\ partial_state' \in BOOLEAN
         /\ d_pos' = [d_pos EXCEPT ![model_len] = model_len]
         /\ model_len + 1 \in 0..Capacity
<1>1. Sound /\ Cached = model_len /\ slab = 0 /\ seq_len = model_len /\ pool \in Pools
  <2>1. Cached = model_len /\ slab = 0
    BY DEF Cached, ChatInv, ClientInv
  <2>2. Sound /\ seq_len = Cached + slab /\ Cached \in Nat /\ pool \in Pools
    BY TalkingSound
  <2> QED BY <2>1, <2>2
<1>2. Sound' /\ Appended
  BY <1>1, AppendSound
<1>3. model_len \in Nat /\ seq_len' = model_len + 1 /\ pool' = pool
  BY <1>1, <1>2, Constants DEF Appended, ChatInv, TypeOK, ClientType
<1>4. (Bounded /\ ResidentSlots)'
  BY <1>2, SoundBounds, PTL
<1>5. model_len + 1 <= Capacity /\ Len(chunks') <= MaxChunks
  BY <1>3, <1>4 DEF Bounded
<1>6. chunks' \in Seq(Chunk) /\ \A k \in 1..Len(chunks') : chunks'[k].slot \in Slots
  BY <1>2, <1>4 DEF Sound, SequenceType, ResidentSlots
<1>7. d_page' \in [QSlots -> Page \cup {Null}]
  <2>1. Rewritten(d_page, chunks') \in [QSlots -> Page \cup {Null}]
    <3>1. d_page \in [QSlots -> Page \cup {Null}]
      BY DEF ChatInv, TypeOK, TableType
    <3> QED BY <1>1, <1>5, <1>6, <3>1, RewrittenTable
  <2> QED BY <2>1 DEF PatchDecodeProgram, ChatInv, TypeOK, TableType
<1>8. last_page_table_len' \in 0..MaxChunks
  BY <1>5, <1>6, Constants DEF PatchDecodeProgram
<1>9. seq_len' - 1 = model_len
  BY <1>3
<1>10. d_pos' = [d_pos EXCEPT ![model_len] = model_len]
  BY <1>9 DEF PatchDecodeProgram
<1>11. d_pos' \in [0..(MaxSeqLen - 1) -> Nat]
  BY <1>3, <1>10 DEF ChatInv, TypeOK, TableType
<1>12. partial_state' \in BOOLEAN
  BY DEF PatchDecodeProgram
<1> QED BY <1>1, <1>2, <1>3, <1>5, <1>7, <1>8, <1>10, <1>11, <1>12, Constants

(* The D2D copies put the token at its home and leave the others alone.    *)
LEMMA DecodeWrite ==
  ASSUME ChatInv, phase = "talking", model_len < MaxSeqLen,
         AppendToken, PatchDecodeProgram, Dispatch
  PROVE  /\ kv' \in [Page -> [Offsets -> Cell]]
         /\ \A i \in 0..model_len :
               kv'[<<pool, SlotOf(i)'>>][i % ChunkTokens].tok = <<conv, i>>
         /\ seen'.by = "decode"
<1>1. Sound' /\ Appended /\ seq_len = model_len /\ model_len \in 0..(Capacity - 1)
  BY DecodePatch
<1>2. Homed' /\ HomesDistinct'
  <2>1. (Sound => Homed /\ HomesDistinct)'
    BY Homes, PTL
  <2> QED BY <1>1, <2>1
<1>3. /\ model_len \in Nat /\ pool' = pool /\ seq_len' = model_len + 1 /\ pool \in Pools
      /\ conv \in 0..MaxConversations
  BY <1>1, Constants DEF Appended, ChatInv, TypeOK, SequenceType, ClientType
<1> DEFINE w == <<pool, chunks'[(model_len \div ChunkTokens) + 1].slot>>   o == model_len % ChunkTokens
           cell == [tok |-> <<conv, model_len>>, form |-> "raw"]
<1>4. model_len \in 0..(seq_len' - 1)
  BY <1>3
<1>5. w \in Page /\ o \in Offsets
  BY <1>2, <1>3, <1>4 DEF Homed, Page, SlotOf
<1>6. WrittenPage = w /\ Last(chunks').len - 1 = o
  <2>1. Len(chunks') = (model_len \div ChunkTokens) + 1 /\ chunks'[Len(chunks')].len = o + 1
    BY <1>1 DEF Appended
  <2>2. Last(chunks') = chunks'[Len(chunks')]
    BY DEF Last
  <2>3. o \in Nat
    BY <1>3, Constants, DivMod
  <2>4. WrittenPage = <<pool, chunks'[Len(chunks')].slot>>
    BY <2>2 DEF WrittenPage
  <2>5. Last(chunks').len - 1 = o
    <3> HIDE DEF o
    <3> QED BY <2>1, <2>2, <2>3
  <2> QED BY <2>1, <2>4, <2>5
<1>7. kv' = [kv EXCEPT ![w][o] = cell] /\ seen'.by = "decode"
  BY <1>6 DEF Dispatch
<1>8. cell \in Cell
  BY <1>1, <1>3 DEF Cell
<1>9. kv \in [Page -> [Offsets -> Cell]]
  BY DEF ChatInv, TypeOK, MemoryType
<1> HIDE DEF w, o, cell
<1>10. kv' \in [Page -> [Offsets -> Cell]]
  BY <1>5, <1>7, <1>8, <1>9
<1>11. ASSUME NEW i \in 0..model_len
       PROVE  kv'[<<pool, SlotOf(i)'>>][i % ChunkTokens].tok = <<conv, i>>
  <2> DEFINE p == <<pool, SlotOf(i)'>>   u == i % ChunkTokens
  <2>0. i \in 0..(seq_len' - 1)
    BY <1>3
  <2>1. p \in Page /\ u \in Offsets
    BY <1>2, <1>3, <2>0 DEF Homed, Page
  <2>2. CASE i = model_len
    <3>1. p = w /\ u = o
      BY <2>2 DEF w, o, SlotOf
    <3>2. kv'[w][o] = cell
      BY <1>5, <1>7, <1>9
    <3>3. cell.tok = <<conv, i>>
      BY <2>2 DEF cell
    <3> QED BY <3>1, <3>2, <3>3
  <2>3. CASE i # model_len
    <3>1. ~(p = w /\ u = o)
      BY <1>2, <1>4, <2>0, <2>3 DEF HomesDistinct, SlotOf, w, o
    <3>2. kv'[p][u] = kv[p][u]
      <4> HIDE DEF p, u
      <4> QED BY <1>5, <1>7, <1>9, <2>1, <3>1
    <3>3. i \in 0..(model_len - 1) /\ i \in 0..(seq_len - 1)
      BY <1>1, <1>3, <2>3
    <3>4. SlotOf(i)' = SlotOf(i)
      <4>1. (i \div ChunkTokens) + 1 \in 1..Len(chunks)
        <5>1. Sound
          BY TalkingSound
        <5> QED BY <3>3, <5>1, Homes DEF Homed
      <4> QED BY <1>1, <4>1 DEF Appended, SlotOf
    <3>5. kv[<<pool, SlotOf(i)>>][u].tok = <<conv, i>>
      <4>1. Cached = model_len
        BY DEF Cached
      <4> QED BY <3>3, <4>1 DEF ChatInv, KvIntact, SlotOf
    <3> QED BY <3>2, <3>4, <3>5
  <2> QED BY <2>2, <2>3
<1> QED BY <1>7, <1>10, <1>11

-----------------------------------------------------------------------------
(* Every step keeps ChatInv.                                               *)

(* The two sequences of keys that an attention reads, one after the other. *)
LEMMA Joined ==
  ASSUME NEW n \in Nat, NEW m \in Nat, NEW s, NEW t,
         s = [k \in 1..n |-> s[k]], t = [k \in 1..m |-> t[k]]
  PROVE  /\ Len(s \o t) = n + m
         /\ \A k \in 1..n : (s \o t)[k] = s[k]
         /\ \A k \in 1..m : (s \o t)[n + k] = t[k]
<1> DEFINE S == {s[k] : k \in 1..n} \cup {t[k] : k \in 1..m}
<1>1. s \in Seq(S) /\ Len(s) = n
  <2>1. \A k \in 1..n : s[k] \in S
    OBVIOUS
  <2> HIDE DEF S
  <2> QED BY <2>1
<1>2. t \in Seq(S) /\ Len(t) = m
  <2>1. \A k \in 1..m : t[k] \in S
    OBVIOUS
  <2> HIDE DEF S
  <2> QED BY <2>1
<1> HIDE DEF S
<1> QED BY <1>1, <1>2

(* A sequence without chunks over a full pool is sound.                    *)
LEMMA EmptySequence ==
  ASSUME SequenceType', chunks' = << >>, seq_len' = 0, Len(free_list') = VramChunks,
         Partition(free_list', << >>, Slots)
  PROVE  /\ ChunksAreResident' /\ Len(free_list') + Len(chunks') = VramChunks
         /\ SlotPartition' /\ ChunkLengths'
<1>1. ChunksAreResident' /\ Len(free_list') + Len(chunks') = VramChunks
  BY Constants DEF ChunksAreResident
<1>2. Resident' = {}
  BY DEF Resident
<1>3. SlotPartition'
  BY <1>2 DEF SlotPartition, Partition
<1>4. 0 = (0 + ChunkTokens - 1) \div ChunkTokens
  <2>1. 0 * ChunkTokens = 0 /\ ChunkTokens \in Nat \ {0} /\ 0 < 0 + ChunkTokens
    BY Constants
  <2> QED BY <2>1, CeilDiv
<1>5. ChunkLengths'
  BY <1>4 DEF ChunkLengths
<1> QED BY <1>1, <1>3, <1>5

(* reset_state returns every slot and begins a conversation.               *)
LEMMA ResetKeeps ==
  ASSUME ChatInv, ResetState
  PROVE  ChatInv'
<1>0. /\ phase \in {"start", "talking", "failed"} /\ conv < MaxConversations
      /\ conv' = conv + 1 /\ phase' = "talking" /\ host_free' = host_tier /\ model_len' = 0
      /\ q_free' = q_free \o quant_slots /\ quant_slots' = <<>>
      /\ free_list' = free_list \o FreedSlots /\ chunks' = <<>> /\ seq_len' = 0
      /\ seen' = Unseen
      /\ UNCHANGED <<todo, offset, slab, kv_quant, pool, host_tier, kv>>
      /\ UNCHANGED <<d_page, last_page_table_len, d_pos, partial_state, p_page, p_pos>>
      /\ UNCHANGED <<q_page, q_kv>>
  BY DEF ResetState, dtabs, ptabs
<1>1. SequenceType /\ ChunksAreResident /\ Len(free_list) + Len(chunks) = VramChunks
  BY <1>0 DEF ChatInv, TypeOK, PoolInv
<1>2. /\ FreedSlots = SlotsOf(chunks) /\ SlotsOf(chunks) \in Seq(Slots)
      /\ Len(SlotsOf(chunks)) = Len(chunks) /\ Partition(free_list, SlotsOf(chunks), Slots)
  BY <1>1, FreedAreAll, ResidentPartition DEF ChatInv
<1>3. /\ free_list' \in Seq(Slots) /\ Len(free_list') = VramChunks
      /\ Partition(free_list', << >>, Slots)
  <2>1. free_list \in Seq(Slots) /\ free_list' = free_list \o SlotsOf(chunks)
    BY <1>0, <1>1, <1>2 DEF SequenceType
  <2>2. free_list' \in Seq(Slots) /\ Len(free_list') = Len(free_list) + Len(SlotsOf(chunks))
    <3> DEFINE g == SlotsOf(chunks)
    <3>1. g \in Seq(Slots) /\ free_list' = free_list \o g
      BY <1>2, <2>1
    <3> HIDE DEF g
    <3>2. free_list' \in Seq(Slots) /\ Len(free_list') = Len(free_list) + Len(g)
      BY <2>1, <3>1
    <3> QED BY <3>2 DEF g
  <2>3. Partition(free_list', << >>, Slots)
    BY <1>2, <2>1, PartitionReturn
  <2> QED BY <1>1, <1>2, <2>2, <2>3
<1>4. ClientType'
  BY <1>0, Constants DEF ChatInv, TypeOK, ClientType
<1>5. SequenceType'
  <2>1. host_tier \in Nat /\ Capacity + 1 \in Nat
    BY <1>1, Constants DEF SequenceType
  <2> QED BY <1>0, <1>1, <1>3, <2>1 DEF SequenceType
<1>6. MemoryType' /\ TableType'
  BY <1>0 DEF ChatInv, TypeOK, MemoryType, TableType
<1>7. QuantType'
  BY <1>0 DEF ChatInv, TypeOK, QuantType
<1>8. ClientInv'
  BY <1>0, Constants DEF ChatInv, TypeOK, ClientType, SequenceType, Pools, ClientInv
<1>9. ChunksAreResident' /\ PoolInv' /\ SlotPartition' /\ ChunkLengths'
  BY <1>0, <1>3, <1>5, EmptySequence DEF PoolInv
<1>10. Cached' = 0 /\ slab' = 0
  BY <1>0 DEF Cached, ChatInv, ClientInv
<1>11. LengthsAgree'
  BY <1>0, <1>9, <1>10 DEF LengthsAgree
<1>12. KvIntact'
  BY <1>10 DEF KvIntact
<1>13. PrefillSeesConversation'
  BY <1>0 DEF PrefillSeesConversation, Unseen
<1> QED BY <1>4, <1>5, <1>6, <1>7, <1>8, <1>9, <1>11, <1>12, <1>13 DEF ChatInv, TypeOK

(* A prompt begins.                                                        *)
LEMMA StartPrefillKeeps ==
  ASSUME ChatInv, NEW n \in 1..MaxPrompt, StartPrefill(n)
  PROVE  ChatInv'
<1>0. /\ phase = "talking" /\ phase' = "prefill" /\ todo' = n /\ offset' = 0 /\ slab' = 0
      /\ UNCHANGED <<conv, model_len, kv_quant, kv, seen>>
      /\ UNCHANGED <<pool, free_list, host_tier, host_free, chunks, seq_len>>
      /\ UNCHANGED <<d_page, last_page_table_len, d_pos, partial_state, p_page, p_pos>>
      /\ UNCHANGED <<q_free, quant_slots, q_page, q_kv>>
  BY DEF StartPrefill, seqst, dtabs, ptabs, quant
<1>1. Cached' = Cached /\ slab = 0
  BY <1>0, Constants DEF Cached, ChatInv, ClientInv, TypeOK, ClientType
<1>2. ClientType' /\ ClientInv'
  <2>1. SlabSize' \in Nat
    BY <1>0, Constants DEF SlabSize
  <2> QED BY <1>0, <2>1, Constants DEF ChatInv, TypeOK, ClientType, ClientInv
<1>3. SequenceType' /\ MemoryType' /\ TableType' /\ QuantType'
  BY <1>0 DEF ChatInv, TypeOK, SequenceType, MemoryType, TableType, QuantType
<1>4. PoolInv' /\ SlotPartition'
  BY <1>0 DEF ChatInv, PoolInv, ChunksAreResident, SlotPartition, Resident
<1>5. LengthsAgree'
  BY <1>0, <1>1 DEF ChatInv, LengthsAgree, ChunkLengths
<1>6. KvIntact'
  BY <1>0, <1>1 DEF ChatInv, KvIntact
<1>7. PrefillSeesConversation'
  BY <1>0, <1>1 DEF ChatInv, PrefillSeesConversation, SeesConversation, Keys
<1> QED BY <1>2, <1>3, <1>4, <1>5, <1>6, <1>7 DEF ChatInv, TypeOK

(* One token of a slab is appended, not yet written.                       *)
LEMMA PrefillAppendKeeps ==
  ASSUME ChatInv, PrefillAppend
  PROVE  ChatInv'
<1>0. /\ phase = "prefill" /\ slab < SlabSize /\ AppendToken /\ slab' = slab + 1
      /\ UNCHANGED <<phase, conv, todo, offset, model_len, kv_quant, kv, seen>>
      /\ UNCHANGED <<d_page, last_page_table_len, d_pos, partial_state, p_page, p_pos>>
      /\ UNCHANGED <<q_free, quant_slots, q_page, q_kv>>
  BY DEF PrefillAppend, dtabs, ptabs, quant
<1>1. Sound /\ seq_len = Cached + slab /\ Cached \in Nat /\ Cached' = Cached
  BY <1>0, TalkingSound DEF Cached
<1>2. Sound' /\ Appended
  BY <1>0, <1>1, AppendSound
<1>3. slab \in Nat /\ slab + 1 <= SlabSize /\ SlabSize <= ChunkTokens /\ SlabSize \in Nat
      /\ SlabSize' = SlabSize
  BY <1>0, Constants DEF ChatInv, TypeOK, ClientType, SlabSize
<1>4. ClientType' /\ ClientInv'
  <2>1. pool' = pool
    BY <1>2 DEF Appended
  <2> QED BY <1>0, <1>3, <2>1, Constants DEF ChatInv, TypeOK, ClientType, ClientInv
<1>5. MemoryType' /\ TableType' /\ QuantType'
  BY <1>0 DEF ChatInv, TypeOK, MemoryType, TableType, QuantType
<1>6. SequenceType' /\ PoolInv' /\ SlotPartition' /\ ChunkLengths'
  BY <1>2 DEF Sound, PoolInv
<1>7. LengthsAgree'
  <2>1. seq_len' = Cached' + slab'
    BY <1>0, <1>1, <1>2, <1>3 DEF Appended
  <2> QED BY <1>6, <2>1 DEF LengthsAgree
<1>8. KvIntact'
  <2>1. ASSUME NEW i \in 0..(Cached - 1)
        PROVE  kv'[<<pool', SlotOf(i)'>>][i % ChunkTokens].tok = <<conv', i>>
    <3>1. i \in 0..(seq_len - 1)
      BY <1>1, <1>3
    <3>2. (i \div ChunkTokens) + 1 \in 1..Len(chunks)
      BY <1>1, <3>1, Homes DEF Homed
    <3>3. SlotOf(i)' = SlotOf(i) /\ pool' = pool
      BY <1>2, <3>2 DEF Appended, SlotOf
    <3>4. kv[<<pool, SlotOf(i)>>][i % ChunkTokens].tok = <<conv, i>>
      BY <1>0 DEF ChatInv, KvIntact, SlotOf
    <3> QED BY <1>0, <3>3, <3>4
  <2> QED BY <1>1, <2>1 DEF KvIntact, SlotOf
<1>9. PrefillSeesConversation'
  BY <1>0, <1>1 DEF ChatInv, PrefillSeesConversation, SeesConversation, Keys
<1> QED BY <1>4, <1>5, <1>6, <1>7, <1>8, <1>9 DEF ChatInv, TypeOK

\* A prefill that fails loses its pool; the next conversation has another one.
LEMMA PrefillOutOfMemoryKeeps ==
  ASSUME ChatInv, PrefillOutOfMemory
  PROVE  ChatInv'
<1>0. /\ phase = "prefill" /\ phase' = "failed" /\ pool' = pool + 1
      /\ free_list' = FullPool(VramChunks) /\ chunks' = <<>> /\ seq_len' = 0
      /\ quant_slots' = <<>> /\ todo' = 0 /\ offset' = 0 /\ slab' = 0
      /\ UNCHANGED <<conv, model_len, kv_quant, host_tier, host_free, kv, seen>>
      /\ UNCHANGED <<d_page, last_page_table_len, d_pos, partial_state, p_page, p_pos>>
      /\ UNCHANGED <<q_free, q_page, q_kv>>
  BY DEF PrefillOutOfMemory, dtabs, ptabs
<1>1. pool \in Nat /\ conv \in Nat /\ pool + 1 <= conv /\ conv <= MaxConversations
  BY <1>0, TalkingSound, Constants DEF Pools, ChatInv, TypeOK, ClientType
<1>2. /\ free_list' \in Seq(Slots) /\ Len(free_list') = VramChunks
      /\ Partition(free_list', << >>, Slots)
  BY <1>0, Constants, FullPoolPartition DEF Slots
<1>3. ClientType' /\ ClientInv'
  BY <1>0, <1>1, Constants DEF ChatInv, TypeOK, ClientType, ClientInv
<1>4. SequenceType'
  <2>1. pool' \in Pools
    BY <1>0, <1>1, Constants DEF Pools
  <2> QED BY <1>0, <1>2, <2>1, Constants DEF ChatInv, TypeOK, SequenceType
<1>5. MemoryType' /\ TableType' /\ QuantType'
  BY <1>0 DEF ChatInv, TypeOK, MemoryType, TableType, QuantType
<1>6. PoolInv' /\ SlotPartition'
  BY <1>0, <1>2, <1>4, EmptySequence DEF PoolInv
<1> QED BY <1>0, <1>3, <1>4, <1>5, <1>6
        DEF ChatInv, TypeOK, LengthsAgree, KvIntact, PrefillSeesConversation

(* What the slab's program writes and where: every token of the sequence   *)
(* is at its home afterwards.                                              *)
LEMMA PrefillWrite ==
  ASSUME ChatInv, PrefillDispatch
  PROVE  /\ seq_len = SlabStart + slab /\ SlabStart \in Nat
         /\ p_page' \in [QSlots -> Page \cup {Null}]
         /\ \A i \in 0..(seq_len - 1) :
               p_page'[i \div ChunkTokens] = <<pool, SlotOf(i)>> /\ <<pool, SlotOf(i)>> \in Page
         /\ kv' \in [Page -> [Offsets -> Cell]]
         /\ \A i \in 0..(seq_len - 1) :
               kv'[<<pool, SlotOf(i)>>][i % ChunkTokens].tok = <<conv, i>>
<1> DEFINE T(p, o) == ScatteredTo(p_page', p, o)
<1>0. /\ phase = "prefill" /\ p_page' = Rewritten(p_page, chunks)
      /\ kv' = [p \in DOMAIN kv |-> [o \in Offsets |->
                  IF T(p, o) = {} THEN kv[p][o] ELSE PrefillCell(CHOOSE i \in T(p, o) : TRUE)]]
  BY DEF PrefillDispatch
<1>1. Sound /\ seq_len = Cached + slab /\ pool \in Pools /\ Cached = SlabStart
  BY <1>0, TalkingSound DEF Cached, SlabStart
<1>2. /\ SlabStart \in Nat /\ slab \in Nat /\ seq_len = SlabStart + slab /\ seq_len \in Nat
      /\ conv \in 0..MaxConversations /\ seq_len <= Capacity
  <2>1. SlabStart \in Nat /\ slab \in Nat
    BY Constants DEF ChatInv, TypeOK, ClientType, SlabStart
  <2> QED BY <1>1, <2>1, SoundBounds DEF ChatInv, TypeOK, ClientType, Bounded
<1>3. Homed /\ HomesDistinct
  BY <1>1, Homes
<1>4. /\ p_page' \in [QSlots -> Page \cup {Null}]
      /\ \A k \in 0..(Len(chunks) - 1) : p_page'[k] = <<pool, chunks[k + 1].slot>>
  <2>1. p_page \in [QSlots -> Page \cup {Null}] /\ chunks \in Seq(Chunk)
    BY <1>1 DEF ChatInv, TypeOK, TableType, Sound, SequenceType
  <2>2. ResidentSlots /\ Len(chunks) <= MaxChunks
    BY <1>1, SoundBounds DEF Bounded
  <2> QED BY <1>0, <1>1, <2>1, <2>2, RewrittenTable DEF ResidentSlots
<1>5. ASSUME NEW i \in 0..(seq_len - 1)
      PROVE  /\ p_page'[i \div ChunkTokens] = <<pool, SlotOf(i)>> /\ <<pool, SlotOf(i)>> \in Page
             /\ i % ChunkTokens \in Offsets
  <2>1. /\ i \div ChunkTokens \in QSlots /\ i \div ChunkTokens < Len(chunks)
        /\ i % ChunkTokens \in Offsets /\ SlotOf(i) \in Slots
    BY <1>3 DEF Homed
  <2>2. i \div ChunkTokens \in 0..(Len(chunks) - 1)
    <3> DEFINE d == i \div ChunkTokens
    <3>1. d \in Nat /\ d < Len(chunks) /\ Len(chunks) \in Nat
      BY <1>1, <2>1, Constants DEF QSlots, Sound, SequenceType
    <3> HIDE DEF d
    <3>2. d \in 0..(Len(chunks) - 1)
      BY <3>1
    <3> QED BY <3>2 DEF d
  <2> QED BY <1>1, <1>4, <2>1, <2>2 DEF SlotOf, Page
<1>6. \A p, o : T(p, o) = {j \in SlabStart..(seq_len - 1) :
                             p_page'[j \div ChunkTokens] = p /\ j % ChunkTokens = o}
  BY <1>2 DEF ScatteredTo
<1> HIDE DEF T
<1>7. kv \in [Page -> [Offsets -> Cell]]
  BY DEF ChatInv, TypeOK, MemoryType
<1>8. \A j \in SlabStart..(seq_len - 1) :
         PrefillCell(j) \in Cell /\ PrefillCell(j).tok = <<conv, j>> /\ j \in 0..(seq_len - 1)
  <2>1. \A j \in SlabStart..(seq_len - 1) : j \in 0..(seq_len - 1) /\ j \in 0..(Capacity - 1)
    BY <1>2, Constants
  <2> QED BY <1>2, <2>1 DEF PrefillCell, Cell
<1>9. \A p, o : T(p, o) # {} => (CHOOSE j \in T(p, o) : TRUE) \in SlabStart..(seq_len - 1)
  <2> SUFFICES ASSUME NEW p, NEW o, T(p, o) # {}
               PROVE  (CHOOSE j \in T(p, o) : TRUE) \in SlabStart..(seq_len - 1)
    OBVIOUS
  <2>1. (CHOOSE j \in T(p, o) : TRUE) \in T(p, o)
    OBVIOUS
  <2> QED BY <1>6, <2>1
<1>10. kv' \in [Page -> [Offsets -> Cell]]
  BY <1>0, <1>7, <1>8, <1>9
<1>11. ASSUME NEW i \in 0..(seq_len - 1)
       PROVE  kv'[<<pool, SlotOf(i)>>][i % ChunkTokens].tok = <<conv, i>>
  <2> DEFINE p == <<pool, SlotOf(i)>>   o == i % ChunkTokens
  <2>1. p \in Page /\ o \in Offsets
    BY <1>5
  <2>2. kv'[p][o] = IF T(p, o) = {} THEN kv[p][o] ELSE PrefillCell(CHOOSE j \in T(p, o) : TRUE)
    BY <1>0, <1>7, <2>1
  <2>3. \A j \in T(p, o) : j = i
    <3> SUFFICES ASSUME NEW j \in T(p, o) PROVE j = i
      OBVIOUS
    <3>1. j \in SlabStart..(seq_len - 1) /\ p_page'[j \div ChunkTokens] = p /\ j % ChunkTokens = o
      BY <1>6
    <3>2. j \in 0..(seq_len - 1)
      BY <1>8, <3>1
    <3>3. <<pool, SlotOf(j)>> = <<pool, SlotOf(i)>>
      BY <1>5, <3>1, <3>2
    <3>4. SlotOf(j) = SlotOf(i)
      BY <3>3
    <3> QED BY <1>3, <3>1, <3>2, <3>4 DEF HomesDistinct
  <2>4. CASE i \in SlabStart..(seq_len - 1)
    <3>1. i \in T(p, o)
      BY <1>5, <1>6, <2>4
    <3>2. (CHOOSE j \in T(p, o) : TRUE) = i
      BY <2>3, <3>1
    <3> QED BY <1>8, <2>2, <2>4, <3>1, <3>2
  <2>5. CASE i \notin SlabStart..(seq_len - 1)
    <3>1. T(p, o) = {}
      BY <1>6, <2>3, <2>5
    <3>2. i \in 0..(Cached - 1)
      BY <1>1, <1>2, <2>5
    <3>3. kv[p][o].tok = <<conv, i>>
      BY <1>0, <3>2 DEF ChatInv, KvIntact, SlotOf
    <3> QED BY <2>2, <3>1, <3>3
  <2> QED BY <2>4, <2>5
<1> QED BY <1>2, <1>4, <1>5, <1>10, <1>11

(* The keys that the slab's attention reads are those of the sequence.     *)
LEMMA PrefillReads ==
  ASSUME ChatInv, PrefillDispatch
  PROVE  /\ Len(Keys') = seq_len
         /\ \A k \in 1..seq_len : Keys'[k].cell.tok = <<conv, k - 1>>
<1>1. /\ seq_len = SlabStart + slab /\ SlabStart \in Nat
      /\ \A i \in 0..(seq_len - 1) :
            /\ p_page'[i \div ChunkTokens] = <<pool, SlotOf(i)>> /\ <<pool, SlotOf(i)>> \in Page
            /\ kv'[<<pool, SlotOf(i)>>][i % ChunkTokens].tok = <<conv, i>>
  BY PrefillWrite
<1>2. seq_len \in Nat /\ seq_len - 0 = seq_len
  BY Constants DEF ChatInv, TypeOK, SequenceType
<1> DEFINE t == Attend(kv', p_page', p_pos', 0, SlabStart + slab)
<1>3. seen'.sealed = <<>> /\ seen'.active = t
  BY DEF PrefillDispatch
<1>4. t = [k \in 1..seq_len |->
             [cell |-> CellAt(kv', p_page'[(0 + k - 1) \div ChunkTokens], (0 + k - 1) % ChunkTokens),
              pos |-> PosAt(p_pos', 0 + k - 1)]]
  BY <1>1, <1>2 DEF Attend
<1> HIDE DEF t
<1>5. ASSUME NEW k \in 1..seq_len
      PROVE  t[k].cell.tok = <<conv, k - 1>>
  <2> DEFINE i == k - 1
  <2>1. i \in 0..(seq_len - 1) /\ 0 + k - 1 = i
    BY <1>2
  <2>2. t[k].cell = CellAt(kv', p_page'[i \div ChunkTokens], i % ChunkTokens)
    BY <1>4, <2>1
  <2>3. p_page'[i \div ChunkTokens] = <<pool, SlotOf(i)>> /\ <<pool, SlotOf(i)>> # Null
    BY <1>1, <2>1, NullAssumption DEF Page
  <2>4. t[k].cell = kv'[<<pool, SlotOf(i)>>][i % ChunkTokens]
    BY <2>2, <2>3 DEF CellAt
  <2> QED BY <1>1, <2>1, <2>4
<1>6. t = [k \in 1..seq_len |-> t[k]] /\ << >> = [k \in 1..0 |-> << >>[k]]
  <2>1. t = [k \in 1..seq_len |-> t[k]]
    BY <1>4
  <2>2. << >> = [k \in 1..0 |-> << >>[k]]
    OBVIOUS
  <2> QED BY <2>1, <2>2
<1>7. Len(<<>> \o t) = 0 + seq_len /\ \A k \in 1..seq_len : (<<>> \o t)[0 + k] = t[k]
  BY <1>2, <1>6, Joined
<1>8. Keys' = <<>> \o t
  BY <1>3 DEF Keys
<1>9. 0 + seq_len = seq_len /\ \A k \in 1..seq_len : 0 + k = k
  BY <1>2
<1> QED BY <1>5, <1>7, <1>8, <1>9

(* A slab is written and attends to what is cached.                        *)
LEMMA PrefillDispatchKeeps ==
  ASSUME ChatInv, PrefillDispatch
  PROVE  ChatInv'
<1>0. /\ phase = "prefill" /\ slab = SlabSize /\ p_pos' = PrefillPositions
      /\ todo' = todo - slab /\ slab' = 0 /\ seen'.by = "prefill"
      /\ IF todo' = 0
         THEN phase' = "talking" /\ offset' = 0 /\ model_len' = model_len + offset + slab
         ELSE offset' = offset + slab /\ phase' = phase /\ model_len' = model_len
      /\ UNCHANGED <<conv, kv_quant>>
      /\ UNCHANGED <<pool, free_list, host_tier, host_free, chunks, seq_len>>
      /\ UNCHANGED <<d_page, last_page_table_len, d_pos, partial_state>>
      /\ UNCHANGED <<q_free, quant_slots, q_page, q_kv>>
  BY DEF PrefillDispatch, seqst, dtabs, quant
<1>1. Sound /\ pool < conv /\ seq_len <= Capacity
  BY <1>0, TalkingSound, SoundBounds DEF Bounded
<1>2. /\ seq_len = SlabStart + slab /\ SlabStart \in Nat
      /\ p_page' \in [QSlots -> Page \cup {Null}] /\ kv' \in [Page -> [Offsets -> Cell]]
      /\ \A i \in 0..(seq_len - 1) :
            kv'[<<pool, SlotOf(i)>>][i % ChunkTokens].tok = <<conv, i>>
  BY PrefillWrite
<1>3. /\ todo \in 1..MaxPrompt /\ offset \in Nat /\ offset + todo <= MaxPrompt /\ slab \in Nat
      /\ slab = (IF todo < ChunkTokens THEN todo ELSE ChunkTokens)
      /\ model_len \in Nat /\ seq_len = model_len + offset + slab
      /\ Capacity \in Nat /\ ChunkTokens \in Nat \ {0} /\ MaxPrompt \in Nat
  BY <1>0, <1>2, Constants DEF ChatInv, TypeOK, ClientType, ClientInv, SlabSize, SlabStart
<1>4. Cached' = seq_len /\ phase' \in {"talking", "prefill"}
  BY <1>0, <1>3 DEF Cached
<1>5. ClientType'
  <2>1. /\ todo' \in 0..MaxPrompt /\ offset' \in 0..MaxPrompt /\ slab' \in 0..ChunkTokens
        /\ model_len' \in 0..Capacity
    BY <1>0, <1>1, <1>3
  <2> QED BY <1>0, <1>4, <2>1 DEF ChatInv, TypeOK, ClientType
<1>6. ClientInv'
  <2>1. SlabSize' \in Nat /\ 0 <= SlabSize'
    BY <1>0, <1>3 DEF SlabSize
  <2> QED BY <1>0, <1>1, <1>3, <2>1 DEF ChatInv, ClientInv
<1>7. MemoryType'
  BY <1>0, <1>2 DEF ChatInv, TypeOK, MemoryType
<1>8. TableType'
  <2>1. p_pos' \in [0..(MaxSeqLen - 1) -> Nat]
    <3>1. \A i \in 0..(MaxSeqLen - 1) : SlabStart + i \in Nat
      BY <1>2, Constants
    <3> QED BY <1>0, <3>1 DEF PrefillPositions, ChatInv, TypeOK, TableType
  <2> QED BY <1>0, <1>2, <2>1 DEF ChatInv, TypeOK, TableType
<1>9. SequenceType' /\ QuantType'
  BY <1>0 DEF ChatInv, TypeOK, SequenceType, QuantType
<1>10. PoolInv' /\ SlotPartition'
  BY <1>0 DEF ChatInv, PoolInv, ChunksAreResident, SlotPartition, Resident
<1>11. LengthsAgree'
  <2>1. ChunkLengths'
    BY <1>0, <1>1 DEF Sound, ChunkLengths
  <2> QED BY <1>0, <1>3, <1>4, <2>1 DEF LengthsAgree
<1>12. KvIntact'
  BY <1>0, <1>2, <1>4 DEF KvIntact, SlotOf
<1>13. PrefillSeesConversation'
  <2>1. Len(Keys') = seq_len /\ \A k \in 1..seq_len : Keys'[k].cell.tok = <<conv, k - 1>>
    BY PrefillReads
  <2> QED BY <1>0, <1>4, <2>1 DEF PrefillSeesConversation, SeesConversation
<1> QED BY <1>5, <1>6, <1>7, <1>8, <1>9, <1>10, <1>11, <1>12, <1>13 DEF ChatInv, TypeOK

(* The part of a decode step that does not depend on how it ends.          *)
LEMMA DecodeKeeps ==
  ASSUME ChatInv, phase = "talking", model_len < MaxSeqLen, AppendToken, PatchDecodeProgram,
         UNCHANGED <<conv, todo, offset, slab, kv_quant, p_page, p_pos>>,
         model_len' \in {model_len, model_len + 1},
         phase' \in {"talking", "failed", "faulted"},
         MemoryType', QuantType',
         phase' = "talking" => model_len' = model_len + 1 /\ Dispatch
  PROVE  ChatInv'
<1>1. /\ Sound' /\ Appended /\ seq_len = model_len /\ model_len \in 0..(Capacity - 1)
      /\ d_page' \in [QSlots -> Page \cup {Null}] /\ last_page_table_len' \in 0..MaxChunks
      /\ d_pos' \in [0..(MaxSeqLen - 1) -> Nat] /\ partial_state' \in BOOLEAN
      /\ model_len + 1 \in 0..Capacity
  BY DecodePatch
<1>2. todo = 0 /\ offset = 0 /\ slab = 0 /\ pool < conv /\ pool' = pool
  BY <1>1, TalkingSound DEF Appended, ChatInv, ClientInv
<1>3. model_len \in Nat /\ model_len \in 0..Capacity /\ seq_len' = model_len + 1
  BY <1>1 DEF Appended, ChatInv, TypeOK, ClientType
<1>4. ClientType'
  BY <1>1, <1>3 DEF ChatInv, TypeOK, ClientType
<1>5. ClientInv'
  BY <1>2 DEF ChatInv, ClientInv
<1>6. SequenceType' /\ PoolInv' /\ SlotPartition' /\ ChunkLengths'
  BY <1>1 DEF Sound, PoolInv
<1>7. TableType'
  BY <1>1 DEF ChatInv, TypeOK, TableType
<1>8. LengthsAgree'
  <2> SUFFICES ASSUME phase' = "talking"
               PROVE  LengthsAgree'
    BY DEF LengthsAgree
  <2>1. Cached' = model_len + 1 /\ slab' = 0
    BY <1>2 DEF Cached
  <2>2. seq_len' = Cached' + slab'
    BY <1>3, <2>1
  <2> QED BY <1>6, <2>2 DEF LengthsAgree
<1>9. KvIntact'
  <2> SUFFICES ASSUME phase' = "talking"
               PROVE  KvIntact'
    BY DEF KvIntact
  <2>1. /\ Cached' = model_len + 1
        /\ \A i \in 0..model_len : kv'[<<pool, SlotOf(i)'>>][i % ChunkTokens].tok = <<conv, i>>
    BY DecodeWrite DEF Cached
  <2>2. (model_len + 1) - 1 = model_len
    BY <1>3
  <2> QED BY <1>2, <2>1, <2>2 DEF KvIntact, SlotOf
<1>10. PrefillSeesConversation'
  <2>1. phase' = "talking" => seen'.by = "decode"
    BY DecodeWrite
  <2> QED BY <2>1 DEF PrefillSeesConversation
<1> QED BY <1>4, <1>5, <1>6, <1>7, <1>8, <1>9, <1>10 DEF ChatInv, TypeOK

(* The decode steps that seal nothing.                                     *)
LEMMA DecodeStepKeeps ==
  ASSUME ChatInv, DecodeStep \/ DecodeSealFails \/ DecodeFaults
  PROVE  ChatInv'
<1>1. /\ phase = "talking" /\ model_len < MaxSeqLen /\ AppendToken /\ PatchDecodeProgram
      /\ UNCHANGED <<conv, todo, offset, slab, kv_quant, p_page, p_pos>>
      /\ UNCHANGED <<q_free, quant_slots, q_page, q_kv>>
      /\ model_len' \in {model_len, model_len + 1}
      /\ phase' \in {"talking", "failed", "faulted"}
      /\ phase' = "talking" => model_len' = model_len + 1 /\ Dispatch
      /\ Dispatch \/ kv' = kv
  BY DEF DecodeStep, DecodeSealFails, DecodeFaults, ptabs, quant
<1>2. QuantType'
  BY <1>1 DEF ChatInv, TypeOK, QuantType
<1>3. kv' \in [Page -> [Offsets -> Cell]]
  BY <1>1, DecodeWrite DEF ChatInv, TypeOK, MemoryType
<1>4. MemoryType'
  BY <1>1, <1>3 DEF ChatInv, TypeOK, MemoryType
<1> QED BY <1>1, <1>2, <1>4, DecodeKeeps

(* post_step_paged copies the sealed chunk to a quantised slot.            *)
LEMMA SealKeeps ==
  ASSUME ChatInv, DecodeStepSeals
  PROVE  ChatInv'
<1>1. /\ phase = "talking" /\ model_len < MaxSeqLen /\ AppendToken /\ PatchDecodeProgram
      /\ Dispatch /\ q_free # <<>> /\ q_free' = Front(q_free)
      /\ quant_slots' = Append(quant_slots, Last(q_free))
      /\ q_kv' = [q_kv EXCEPT ![Last(q_free)] = kv'[WrittenPage]]
      /\ q_page' = [q_page EXCEPT ![SealedPage] = Last(q_free)]
      /\ model_len' = model_len + 1 /\ phase' = phase
      /\ UNCHANGED <<conv, todo, offset, slab, kv_quant, p_page, p_pos>>
  BY DEF DecodeStepSeals, ptabs
<1>2. q_free \in Seq(QSlots) /\ quant_slots \in Seq(QSlots)
  BY DEF ChatInv, TypeOK, QuantType
<1>3. Last(q_free) \in QSlots /\ Front(q_free) \in Seq(QSlots)
  BY <1>1, <1>2, PopLast
<1>4. QuantType'
  <2>1. q_page' \in [QSlots -> QSlots \cup {Null}]
    BY <1>1, <1>3 DEF ChatInv, TypeOK, QuantType
  <2> QED BY <1>1, <1>2, <1>3, <2>1 DEF QuantType
<1>5. kv' \in [Page -> [Offsets -> Cell]]
  BY <1>1, DecodeWrite
<1>6. WrittenPage \in Page
  <2>1. Sound' /\ Appended /\ pool \in Pools
    BY <1>1, DecodePatch, TalkingSound
  <2>2. (Sound => Bounded /\ ResidentSlots)'
    BY SoundBounds, PTL
  <2>3. Len(chunks') \in 1..Len(chunks')
    <3>1. Len(chunks') \in Nat /\ Len(chunks') = (seq_len \div ChunkTokens) + 1
      BY <2>1 DEF Sound, SequenceType, Appended
    <3>2. seq_len \in Nat /\ ChunkTokens \in Nat \ {0}
      BY Constants DEF ChatInv, TypeOK, SequenceType
    <3>3. seq_len \div ChunkTokens \in Nat
      BY <3>2, DivMod
    <3> QED BY <3>1, <3>3
  <2>4. Last(chunks').slot \in Slots
    BY <2>1, <2>2, <2>3 DEF ResidentSlots, Last
  <2> QED BY <2>1, <2>4 DEF WrittenPage, Page
<1>7. MemoryType'
  <2>1. kv'[WrittenPage] \in [Offsets -> Cell]
    BY <1>5, <1>6
  <2>2. q_kv' \in [QSlots -> [Offsets -> Cell]]
    BY <1>1, <2>1 DEF ChatInv, TypeOK, MemoryType
  <2> QED BY <1>5, <2>2 DEF MemoryType
<1> QED BY <1>1, <1>4, <1>7, DecodeKeeps

(* A chunk beyond the pool takes no slot.                                  *)
LEMMA HostPinned ==
  ASSUME Sound, AppendHostPinned
  PROVE  SequenceType' /\ SlotPartition' /\ pool' = pool
<1> DEFINE n == Len(chunks)   new == [slot |-> NoSlot, len |-> 1]
<1>0. /\ chunks' = Append(chunks, new) /\ host_free > 0 /\ host_free' = host_free - 1
      /\ seq_len' = seq_len + 1 /\ pool' = pool /\ host_tier' = host_tier
      /\ free_list' = free_list
  BY DEF AppendHostPinned, VramSuffices, Grown
<1>1. /\ chunks \in Seq(Chunk) /\ n \in Nat /\ seq_len \in Nat /\ seq_len <= Capacity
      /\ Capacity \in Nat /\ host_tier \in HostTiers /\ host_tier \in Nat
      /\ host_free \in 0..host_tier
  BY Constants, SoundBounds DEF Sound, SequenceType, Bounded
<1>2. new \in Chunk
  BY Constants DEF Chunk
<1>3. /\ chunks' \in Seq(Chunk) /\ Len(chunks') = n + 1
      /\ chunks'[n + 1] = new /\ \A k \in 1..n : chunks'[k] = chunks[k]
  BY <1>0, <1>1, <1>2
<1>4. SequenceType'
  BY <1>0, <1>1, <1>3 DEF Sound, SequenceType
<1>5. Resident' = Resident /\ \A k \in Resident : k \in 1..n
  <2>1. chunks'[n + 1].slot = NoSlot
    BY <1>3
  <2>2. \A k \in 1..(n + 1) : k \in 1..n \/ k = n + 1
    BY <1>1
  <2>3. \A k \in 1..n : k \in 1..(n + 1)
    BY <1>1
  <2> QED BY <1>3, <2>1, <2>2, <2>3 DEF Resident
<1>6. SlotPartition'
  BY <1>0, <1>3, <1>5 DEF Sound, SlotPartition
<1> QED BY <1>0, <1>4, <1>6

(* The steps that end a conversation without a dispatch.                   *)
LEMMA EndKeeps ==
  ASSUME ChatInv, DecodeOutOfMemory \/ DecodeSpills \/ DecodePanics
  PROVE  ChatInv'
<1>0. /\ phase = "talking" /\ phase' \in {"failed", "spilled", "panicked"}
      /\ UNCHANGED <<conv, todo, offset, slab, model_len, kv_quant, kv, seen>>
      /\ UNCHANGED <<d_page, last_page_table_len, d_pos, partial_state, p_page, p_pos>>
      /\ UNCHANGED <<q_free, quant_slots, q_page, q_kv>>
  BY DEF DecodeOutOfMemory, DecodeSpills, DecodePanics, dtabs, ptabs, quant
<1>1. Sound /\ pool < conv
  BY <1>0, TalkingSound
<1>2. SequenceType' /\ SlotPartition' /\ PoolInv' /\ pool' = pool
  <2>1. CASE DecodeOutOfMemory
    <3>1. UNCHANGED <<pool, free_list, host_tier, host_free, chunks, seq_len>>
      BY <2>1 DEF DecodeOutOfMemory, seqst
    <3> QED BY <1>1, <3>1 DEF Sound, SequenceType, SlotPartition, Resident,
                              PoolInv, ChunksAreResident
  <2>2. CASE (DecodeSpills \/ DecodePanics) /\ AppendHostPinned
    <3>1. phase' \in {"spilled", "panicked"}
      BY <2>2 DEF DecodeSpills, DecodePanics
    <3> QED BY <1>1, <2>2, <3>1, HostPinned DEF PoolInv
  <2>3. CASE DecodePanics /\ AppendToken
    BY <1>1, <2>3, AppendSound DEF Sound, Appended, PoolInv
  <2> QED BY <2>1, <2>2, <2>3 DEF DecodeSpills, DecodePanics
<1>3. ClientType' /\ ClientInv'
  BY <1>0, <1>1, <1>2 DEF ChatInv, TypeOK, ClientType, ClientInv
<1>4. MemoryType' /\ TableType' /\ QuantType'
  BY <1>0 DEF ChatInv, TypeOK, MemoryType, TableType, QuantType
<1> QED BY <1>0, <1>2, <1>3, <1>4
        DEF ChatInv, TypeOK, LengthsAgree, KvIntact, PrefillSeesConversation

(* The invariant holds initially.                                          *)
LEMMA InitChat ==
  ASSUME Init
  PROVE  ChatInv
<1>0. /\ phase = "start" /\ conv = 0 /\ kv_quant \in QuantModes
      /\ todo = 0 /\ offset = 0 /\ slab = 0 /\ model_len = 0
      /\ pool = 0 /\ free_list = FullPool(VramChunks)
      /\ host_tier \in HostTiers /\ host_free = host_tier /\ chunks = <<>> /\ seq_len = 0
      /\ kv = [p \in Pools \X Slots |-> [o \in Offsets |-> Blank]]
      /\ d_page = [k \in QSlots |-> Null] /\ last_page_table_len = 0
      /\ d_pos = [i \in 0..(MaxSeqLen - 1) |-> 0]
      /\ p_page = d_page /\ p_pos = d_pos
      /\ q_free = FullPool(MaxChunks) /\ quant_slots = <<>> /\ q_page = d_page
      /\ q_kv = [q \in QSlots |-> [o \in Offsets |-> Blank]]
      /\ partial_state = kv_quant
  BY DEF Init
<1>1. kv_quant \in BOOLEAN
  BY <1>0, BoundsAssumption
<1>2. /\ free_list \in Seq(Slots) /\ Len(free_list) = VramChunks
      /\ Partition(free_list, << >>, Slots) /\ q_free \in Seq(QSlots)
  BY <1>0, Constants, FullPoolPartition DEF Slots, QSlots
<1>3. ClientType /\ ClientInv
  BY <1>0, <1>1, Constants DEF ClientType, ClientInv
<1>4. SequenceType
  <2>1. 0 \in Pools /\ 0 \in 0..(Capacity + 1)
    BY Constants DEF Pools
  <2>2. host_tier \in Nat
    BY <1>0, Constants
  <2>3. host_free \in 0..host_tier
    BY <1>0, <2>2
  <2> QED BY <1>0, <1>2, <2>1, <2>3 DEF SequenceType
<1>5. Blank \in Cell
  <2>1. 1 * ChunkTokens <= MaxChunks * ChunkTokens
    BY Constants, ProductMonotone
  <2>2. 0 \in 0..(Capacity - 1) /\ 0 \in 0..MaxConversations
    BY <2>1, Constants
  <2> QED BY <2>2 DEF Blank, Cell
<1>6. MemoryType
  BY <1>0, <1>5 DEF MemoryType, Page
<1>7. TableType
  BY <1>0, <1>1, Constants DEF TableType
<1>8. QuantType
  BY <1>0, <1>2 DEF QuantType
<1>9. PoolInv /\ SlotPartition
  <2>1. Resident = {} /\ ChunksAreResident
    BY <1>0 DEF Resident, ChunksAreResident
  <2> QED BY <1>0, <1>2, <2>1, Constants DEF PoolInv, SlotPartition, Partition
<1> QED BY <1>0, <1>3, <1>4, <1>6, <1>7, <1>8, <1>9
        DEF ChatInv, TypeOK, LengthsAgree, KvIntact, PrefillSeesConversation

(* Every step keeps it.                                                    *)
LEMMA NextChat ==
  ASSUME ChatInv, [Next]_vars
  PROVE  ChatInv'
<1>1. CASE ResetState
  BY <1>1, ResetKeeps
<1>2. CASE \E n \in 1..MaxPrompt : StartPrefill(n)
  BY <1>2, StartPrefillKeeps
<1>3. CASE PrefillAppend
  BY <1>3, PrefillAppendKeeps
<1>4. CASE PrefillOutOfMemory
  BY <1>4, PrefillOutOfMemoryKeeps
<1>5. CASE PrefillDispatch
  BY <1>5, PrefillDispatchKeeps
<1>6. CASE DecodeStep \/ DecodeSealFails \/ DecodeFaults
  BY <1>6, DecodeStepKeeps
<1>7. CASE DecodeStepSeals
  BY <1>7, SealKeeps
<1>8. CASE DecodeOutOfMemory \/ DecodeSpills \/ DecodePanics
  BY <1>8, EndKeeps
<1>9. CASE UNCHANGED vars
  <2>1. /\ UNCHANGED <<phase, conv, kv_quant, todo, offset, slab, model_len, kv, seen>>
        /\ UNCHANGED <<pool, free_list, host_tier, host_free, chunks, seq_len>>
        /\ UNCHANGED <<d_page, last_page_table_len, d_pos, partial_state, p_page, p_pos>>
        /\ UNCHANGED <<q_free, quant_slots, q_page, q_kv>>
    BY <1>9 DEF vars, client, seqst, dtabs, ptabs, quant
  <2>2. ClientType' /\ SequenceType' /\ MemoryType' /\ TableType' /\ QuantType'
    BY <2>1 DEF ChatInv, TypeOK, ClientType, SequenceType, MemoryType, TableType, QuantType
  <2>3. ClientInv' /\ PoolInv' /\ SlotPartition'
    BY <2>1 DEF ChatInv, ClientInv, SlabSize, PoolInv, ChunksAreResident,
                SlotPartition, Resident
  <2>4. Cached' = Cached
    BY <2>1 DEF Cached
  <2>5. LengthsAgree' /\ KvIntact' /\ PrefillSeesConversation'
    BY <2>1, <2>4 DEF ChatInv, LengthsAgree, ChunkLengths, KvIntact,
                      PrefillSeesConversation, SeesConversation, Keys
  <2> QED BY <2>2, <2>3, <2>5 DEF ChatInv, TypeOK
<1> QED BY <1>1, <1>2, <1>3, <1>4, <1>5, <1>6, <1>7, <1>8, <1>9 DEF Next

(* The inductive invariant of the paged cache, for any client, pool and     *)
(* chunk size.                                                              *)
THEOREM ChatInvariant == Spec => []ChatInv
<1>1. Init => ChatInv
  BY InitChat
<1>2. ChatInv /\ [Next]_vars => ChatInv'
  BY NextChat
<1> QED BY <1>1, <1>2, PTL DEF Spec

(* Every VRAM slot is free or owned by exactly one chunk, through resets,   *)
(* out-of-memory errors and abandoned pools.                                *)
THEOREM SlotTheorem == Spec => []SlotPartition
<1>1. ChatInv => SlotPartition
  BY DEF ChatInv
<1> QED BY <1>1, ChatInvariant, PTL

(* Model.seq_len, SequenceState.seq_len and the chunk lengths agree between *)
(* calls and between slabs.                                                 *)
THEOREM LengthsTheorem == Spec => []LengthsAgree
<1>1. ChatInv => LengthsAgree
  BY DEF ChatInv
<1> QED BY <1>1, ChatInvariant, PTL

(* No token of the cache is overwritten by a later one or by another        *)
(* conversation's, whether decode or prefill wrote it.                      *)
THEOREM KvTheorem == Spec => []KvIntact
<1>1. ChatInv => KvIntact
  BY DEF ChatInv
<1> QED BY <1>1, ChatInvariant, PTL

(* A prefilled token attends to its conversation, in order, and to nothing  *)
(* else, however many resets came before.                                   *)
THEOREM PrefillTheorem == Spec => []PrefillSeesConversation
<1>1. ChatInv => PrefillSeesConversation
  BY DEF ChatInv
<1> QED BY <1>1, ChatInvariant, PTL

-----------------------------------------------------------------------------
(* A client that only decodes                                              *)

(* The client never prefills.                                              *)
DecodesOnly == MaxPrompt = 0

-----------------------------------------------------------------------------
(* From one token to the next.                                             *)

(* The next token is in the same chunk or begins the next one.             *)
LEMMA DivNext ==
  ASSUME NEW c \in Nat \ {0}, NEW i \in Nat
  PROVE  IF (i + 1) % c = 0
         THEN (i + 1) \div c = (i \div c) + 1 /\ i % c = c - 1
         ELSE (i + 1) \div c = i \div c
<1> DEFINE d == i \div c   r == i % c
<1>1. d \in Nat /\ r \in 0..(c - 1) /\ i = d * c + r
  BY DivMod
<1>2. i + 1 \in Nat /\ d * c \in Nat /\ (d + 1) * c = d * c + c /\ (d + 1) * c \in Nat
  BY <1>1, ProductNext
<1>3. CASE r = c - 1
  <2>1. i + 1 = (d + 1) * c + 0 /\ 0 \in 0..(c - 1) /\ d + 1 \in Nat
    <3> HIDE DEF d, r
    <3> QED BY <1>1, <1>2, <1>3
  <2>2. (i + 1) \div c = d + 1 /\ (i + 1) % c = 0
    BY <1>2, <2>1, DivUnique
  <2> QED BY <1>3, <2>2
<1>4. CASE r # c - 1
  <2>1. i + 1 = d * c + (r + 1) /\ r + 1 \in 0..(c - 1) /\ r + 1 # 0
    <3> HIDE DEF d, r
    <3> QED BY <1>1, <1>2, <1>4
  <2>2. (i + 1) \div c = d /\ (i + 1) % c = r + 1
    BY <1>1, <1>2, <2>1, DivUnique
  <2> QED BY <2>1, <2>2
<1> QED BY <1>3, <1>4

(* The patched tables describe the chunk list with the new token.          *)
LEMMA PatchedTables ==
  ASSUME DecodeInv, phase = "talking", model_len < MaxSeqLen, AppendToken, PatchDecodeProgram
  PROVE  /\ last_page_table_len' = Len(chunks') /\ chunks' # <<>>
         /\ \A k \in 1..Len(chunks') : d_page'[k - 1] = <<pool, chunks'[k].slot>>
         /\ \A i \in 0..model_len : d_pos'[i] = i
<1>0. ChatInv
  BY DEF DecodeInv
<1>1. /\ Sound' /\ Appended /\ seq_len = model_len /\ pool \in Pools
      /\ d_pos' = [d_pos EXCEPT ![model_len] = model_len]
  BY <1>0, DecodePatch, TalkingSound
<1>2. /\ chunks' \in Seq(Chunk) /\ Len(chunks') <= MaxChunks /\ Len(chunks') \in Nat
      /\ \A k \in 1..Len(chunks') : chunks'[k].slot \in Slots
  <2>1. (Sound => Bounded /\ ResidentSlots)'
    BY SoundBounds, PTL
  <2> QED BY <1>1, <2>1 DEF Bounded, ResidentSlots, Sound, SequenceType
<1>3. /\ model_len \in Nat /\ MaxSeqLen \in Nat /\ chunks \in Seq(Chunk) /\ Len(chunks) \in Nat
      /\ d_page \in [QSlots -> Page \cup {Null}] /\ d_pos \in [0..(MaxSeqLen - 1) -> Nat]
  BY <1>0, Constants DEF ChatInv, TypeOK, ClientType, SequenceType, TableType
<1>4. Len(chunks') > 0
  <2>1. model_len \div ChunkTokens \in Nat
    BY <1>3, Constants, DivMod
  <2> QED BY <1>1, <2>1 DEF Appended
<1>5. ASSUME NEW k \in 1..Len(chunks')
      PROVE  d_page'[k - 1] = <<pool, chunks'[k].slot>>
  <2>1. CASE Len(chunks') # last_page_table_len
    <3>1. d_page' = Rewritten(d_page, chunks')
      BY <2>1 DEF PatchDecodeProgram
    <3>2. \A j \in 0..(Len(chunks') - 1) :
             Rewritten(d_page, chunks')[j] = <<pool, chunks'[j + 1].slot>>
      BY <1>1, <1>2, <1>3, RewrittenTable
    <3>3. k - 1 \in 0..(Len(chunks') - 1) /\ (k - 1) + 1 = k
      BY <1>2
    <3> QED BY <3>1, <3>2, <3>3
  <2>2. CASE Len(chunks') = last_page_table_len /\ chunks # <<>>
    <3>1. d_page' = d_page /\ Len(chunks') = Len(chunks)
      BY <2>2 DEF PatchDecodeProgram, DecodeInv, DecodeTableInv
    <3>2. d_page[k - 1] = <<pool, chunks[k].slot>>
      BY <2>2, <3>1 DEF DecodeInv, DecodeTableInv
    <3>3. chunks'[k].slot = chunks[k].slot
      BY <1>1, <3>1 DEF Appended
    <3> QED BY <3>1, <3>2, <3>3
  <2>3. CASE Len(chunks') = last_page_table_len /\ chunks = <<>>
    <3>1. Len(chunks) = 0
      BY <2>3
    <3>2. Len(chunks') = 1 /\ chunks'[1].slot = Last(free_list)
      BY <1>1, <1>4, <3>1 DEF Appended
    <3>3. k = 1 /\ k - 1 = 0
      BY <3>2
    <3>4. d_page' = d_page /\ d_page[0] = <<pool, Last(free_list)>>
      BY <2>3, <3>2 DEF PatchDecodeProgram, DecodeInv, DecodeTableInv
    <3> QED BY <3>2, <3>3, <3>4
  <2> QED BY <2>1, <2>2, <2>3
<1>6. ASSUME NEW i \in 0..model_len
      PROVE  d_pos'[i] = i
  <2>1. model_len \in 0..(MaxSeqLen - 1)
    BY <1>3
  <2>2. CASE i = model_len
    BY <1>1, <1>3, <2>1, <2>2
  <2>3. CASE i # model_len
    <3>1. i \in 0..(model_len - 1) /\ i \in 0..(MaxSeqLen - 1)
      BY <1>3, <2>3
    <3>2. d_pos[i] = i
      BY <3>1 DEF DecodeInv, DecodePositionInv
    <3> QED BY <1>1, <1>3, <2>3, <3>1, <3>2
  <2> QED BY <2>2, <2>3
<1>7. last_page_table_len' = Len(chunks') /\ chunks' # <<>>
  BY <1>4 DEF PatchDecodeProgram
<1> QED BY <1>5, <1>6, <1>7

(* Every sealed chunk has a quantised page.                                *)
LEMMA SealedPages ==
  ASSUME DecodeInv, phase = "talking", model_len < MaxSeqLen, AppendToken, PatchDecodeProgram
  PROVE  /\ Sealed \in Nat /\ Sealed * ChunkTokens \in Nat
         /\ Sealed * ChunkTokens <= model_len /\ ~NullQuantPage
         /\ \A d \in 0..(Sealed - 1), o \in Offsets :
               /\ q_page[d] # Null
               /\ q_kv[q_page[d]][o].tok = <<conv, d * ChunkTokens + o>>
<1>0. ChatInv
  BY DEF DecodeInv
<1>1. Appended /\ seq_len = model_len
  BY <1>0, DecodePatch
<1> DEFINE e == model_len \div ChunkTokens
<1>2. model_len \in Nat /\ ChunkTokens \in Nat \ {0}
  BY <1>0, Constants DEF ChatInv, TypeOK, ClientType
<1>3. e \in Nat /\ e * ChunkTokens \in Nat /\ e * ChunkTokens <= model_len
  <2>1. /\ e \in Nat /\ model_len % ChunkTokens \in 0..(ChunkTokens - 1)
        /\ model_len = e * ChunkTokens + (model_len % ChunkTokens)
    BY <1>2, DivMod
  <2>2. e * ChunkTokens \in Nat
    BY <1>2, <2>1, ProductNext
  <2> HIDE DEF e
  <2> QED BY <1>2, <2>1, <2>2
<1>4. Len(chunks') = e + 1
  BY <1>1 DEF Appended
<1>5. Sealed \in {0, e} /\ (Sealed # 0 => kv_quant /\ Sealed = e)
  <2> HIDE DEF e
  <2> QED BY <1>3, <1>4 DEF Sealed, QuantPass
<1>6. Sealed \in Nat /\ Sealed * ChunkTokens \in Nat /\ Sealed * ChunkTokens <= model_len
  <2>1. 0 * ChunkTokens = 0
    BY <1>2
  <2> HIDE DEF e
  <2> QED BY <1>2, <1>3, <1>5, <2>1
<1>7. ASSUME NEW d \in 0..(Sealed - 1)
      PROVE  /\ q_page[d] # Null
             /\ \A o \in Offsets : q_kv[q_page[d]][o].tok = <<conv, d * ChunkTokens + o>>
  <2>1. Sealed # 0
    BY <1>6
  <2>2. Sealed = Len(quant_slots) /\ kv_quant
    BY <1>5, <2>1 DEF DecodeInv, QuantInv
  <2>3. d + 1 \in 1..Len(quant_slots) /\ (d + 1) - 1 = d
    BY <1>6, <2>2
  <2>4. /\ q_page[d] = quant_slots[d + 1]
        /\ \A o \in Offsets : q_kv[quant_slots[d + 1]][o].tok = <<conv, d * ChunkTokens + o>>
    BY <2>2, <2>3 DEF DecodeInv, QuantInv
  <2>5. quant_slots[d + 1] \in QSlots
    BY <1>0, <2>3 DEF ChatInv, TypeOK, QuantType
  <2> QED BY <2>4, <2>5, NullAssumption
<1>8. ~NullQuantPage
  BY <1>7 DEF NullQuantPage
<1> QED BY <1>6, <1>7, <1>8

(* The decoded token reads its conversation, sealed and active, and every  *)
(* key at its own position.                                                *)
LEMMA DecodeReads ==
  ASSUME DecodeInv, phase = "talking", model_len < MaxSeqLen,
         AppendToken, PatchDecodeProgram, Dispatch
  PROVE  /\ Len(Keys') = model_len + 1
         /\ \A k \in 1..(model_len + 1) :
               Keys'[k].cell.tok = <<conv, k - 1>> /\ Keys'[k].pos = k - 1
<1>0. ChatInv
  BY DEF DecodeInv
<1> DEFINE n == Sealed * ChunkTokens   h == model_len + 1
           s == Attend(q_kv, q_page, d_pos', 0, n)
           t == Attend(kv', d_page', d_pos', n, seq_len')
<1>1. /\ Sound' /\ seq_len' = h /\ model_len \in Nat /\ MaxSeqLen \in Nat
      /\ ChunkTokens \in Nat \ {0} /\ pool \in Pools
  BY <1>0, DecodePatch, TalkingSound, Constants DEF Appended, ChatInv, TypeOK, ClientType
<1>2. /\ Sealed \in Nat /\ n \in Nat /\ n <= model_len
      /\ \A d \in 0..(Sealed - 1), o \in Offsets :
               /\ q_page[d] # Null
               /\ q_kv[q_page[d]][o].tok = <<conv, d * ChunkTokens + o>>
  BY SealedPages
<1>3. \A i \in 0..model_len : PosAt(d_pos', i) = i
  <2>1. \A i \in 0..model_len : i < MaxSeqLen /\ d_pos'[i] = i
    BY <1>1, PatchedTables
  <2> QED BY <2>1 DEF PosAt
<1>4. seen'.sealed = s /\ seen'.active = t
  BY DEF Dispatch
<1>5. /\ s = [k \in 1..(n - 0) |->
                [cell |-> CellAt(q_kv, q_page[(0 + k - 1) \div ChunkTokens], (0 + k - 1) % ChunkTokens),
                 pos |-> PosAt(d_pos', 0 + k - 1)]]
      /\ t = [k \in 1..(h - n) |->
                [cell |-> CellAt(kv', d_page'[(n + k - 1) \div ChunkTokens], (n + k - 1) % ChunkTokens),
                 pos |-> PosAt(d_pos', n + k - 1)]]
  BY <1>1 DEF Attend
<1> HIDE DEF s, t
<1>6. ASSUME NEW k \in 1..n
      PROVE  s[k].cell.tok = <<conv, k - 1>> /\ s[k].pos = k - 1
  <2> HIDE DEF n
  <2> DEFINE i == k - 1   d == i \div ChunkTokens   o == i % ChunkTokens
  <2>1. i \in Nat /\ i < n /\ i \in 0..model_len /\ 0 + k - 1 = i /\ k \in 1..(n - 0)
    BY <1>1, <1>2
  <2>2. s[k].cell = CellAt(q_kv, q_page[d], o) /\ s[k].pos = PosAt(d_pos', i)
    BY <1>5, <2>1
  <2>3. /\ d \in Nat /\ o \in Offsets /\ i = d * ChunkTokens + o /\ d < Sealed
    BY <1>1, <1>2, <2>1, DivMod, DivBelow DEF Offsets, n
  <2>4. d \in 0..(Sealed - 1)
    <3> HIDE DEF d
    <3> QED BY <1>2, <2>3
  <2>5. q_page[d] # Null /\ q_kv[q_page[d]][o].tok = <<conv, i>>
    BY <1>2, <2>3, <2>4
  <2>6. s[k].cell.tok = <<conv, i>>
    BY <2>2, <2>5 DEF CellAt
  <2> QED BY <1>3, <2>1, <2>2, <2>6
<1>7. ASSUME NEW k \in 1..(h - n)
      PROVE  t[k].cell.tok = <<conv, n + k - 1>> /\ t[k].pos = n + k - 1
  <2> HIDE DEF n
  <2>0. PICK i \in Nat : i = n + k - 1
    BY <1>2
  <2> DEFINE d == i \div ChunkTokens   o == i % ChunkTokens
  <2>1. i \in 0..model_len /\ i \in 0..(seq_len' - 1)
    BY <1>1, <1>2, <2>0
  <2>2. t[k].cell = CellAt(kv', d_page'[d], o) /\ t[k].pos = PosAt(d_pos', i)
    BY <1>5, <2>0
  <2>3. d + 1 \in 1..Len(chunks') /\ SlotOf(i)' \in Slots /\ d \in QSlots
    <3>1. (Sound => Homed /\ HomesDistinct)'
      BY Homes, PTL
    <3> QED BY <1>1, <2>1, <3>1 DEF Homed
  <2>4. (d + 1) - 1 = d
    <3>1. d \in Nat
      BY <2>3, Constants DEF QSlots
    <3> HIDE DEF d
    <3> QED BY <3>1
  <2>5. d_page'[d] = <<pool, SlotOf(i)'>>
    <3>1. d_page'[(d + 1) - 1] = <<pool, chunks'[d + 1].slot>>
      BY <2>3, PatchedTables
    <3> QED BY <2>4, <3>1 DEF SlotOf
  <2>6. <<pool, SlotOf(i)'>> # Null
    BY <1>1, <2>3, NullAssumption
  <2>7. t[k].cell.tok = <<conv, i>>
    <3>1. t[k].cell = kv'[<<pool, SlotOf(i)'>>][o]
      BY <2>2, <2>5, <2>6 DEF CellAt
    <3> QED BY <1>0, <2>1, <3>1, DecodeWrite
  <2>8. t[k].pos = i
    BY <1>3, <2>1, <2>2
  <2> QED BY <2>0, <2>7, <2>8
<1>8. h - n \in Nat /\ h \in Nat /\ n + (h - n) = h /\ n - 0 = n
  BY <1>1, <1>2
<1>9. s = [k \in 1..n |-> s[k]] /\ t = [k \in 1..(h - n) |-> t[k]]
  BY <1>5, <1>8
<1> HIDE DEF n
<1>10. /\ Len(s \o t) = n + (h - n)
       /\ \A k \in 1..n : (s \o t)[k] = s[k]
       /\ \A k \in 1..(h - n) : (s \o t)[n + k] = t[k]
  BY <1>2, <1>8, <1>9, Joined
<1>11. Keys' = s \o t
  BY <1>4 DEF Keys
<1>12. ASSUME NEW k \in 1..h
       PROVE  Keys'[k].cell.tok = <<conv, k - 1>> /\ Keys'[k].pos = k - 1
  <2>1. CASE k \in 1..n
    BY <1>6, <1>10, <1>11, <2>1
  <2>2. CASE k \notin 1..n
    <3>1. k - n \in 1..(h - n) /\ n + (k - n) = k /\ n + (k - n) - 1 = k - 1
      BY <1>1, <1>2, <2>2
    <3> QED BY <1>7, <1>10, <1>11, <3>1
  <2> QED BY <2>1, <2>2
<1> QED BY <1>8, <1>10, <1>11, <1>12

-----------------------------------------------------------------------------
(* Every step keeps DecodeInv.                                             *)

(* Returned slots lie on top of the free list, in order.                   *)
LEMMA JoinedSlots ==
  ASSUME NEW S, NEW f \in Seq(S), NEW g \in Seq(S)
  PROVE  /\ Len(f) \in Nat /\ Len(f \o g) = Len(f) + Len(g)
         /\ \A i \in 1..Len(g) : (f \o g)[Len(f) + i] = g[i]
OBVIOUS

(* The only slot returned is the next one taken.                           *)
LEMMA LastOfJoin ==
  ASSUME NEW S, NEW f \in Seq(S), NEW g \in Seq(S), Len(g) = 1
  PROVE  Last(f \o g) = g[1]
<1> DEFINE h == f \o g
<1>1. /\ Len(f) \in Nat /\ Len(h) = Len(f) + Len(g)
      /\ \A i \in 1..Len(g) : h[Len(f) + i] = g[i]
  BY JoinedSlots
<1> HIDE DEF h
<1>2. Len(h) = Len(f) + 1 /\ h[Len(f) + 1] = g[1]
  BY <1>1
<1>3. Last(h) = g[1]
  BY <1>2 DEF Last
<1> QED BY <1>3 DEF h

\* reset_state keeps the tables: a conversation of one chunk finds its slot on top of the free list.
LEMMA ResetKeepsDecode ==
  ASSUME DecodeInv, ResetState
  PROVE  DecodeInv'
<1>0. /\ phase \in {"start", "talking", "failed"} /\ phase' = "talking" /\ model_len' = 0
      /\ q_free' = q_free \o quant_slots /\ quant_slots' = <<>>
      /\ free_list' = free_list \o FreedSlots /\ chunks' = <<>> /\ seen' = Unseen
      /\ UNCHANGED <<pool, d_page, last_page_table_len>>
  BY DEF ResetState, dtabs
<1>1. ChatInv /\ ChatInv'
  BY ResetKeeps DEF DecodeInv
<1>2. q_free \in Seq(QSlots) /\ quant_slots \in Seq(QSlots)
  BY <1>1 DEF ChatInv, TypeOK, QuantType
<1>3. QuantSlotPartition'
  BY <1>0, <1>2, PartitionReturn DEF DecodeInv, QuantSlotPartition
<1>4. QuantInv'
  <2>1. Len(q_free') + Len(quant_slots') = MaxChunks
    BY <1>0, <1>2, Constants DEF DecodeInv, QuantInv
  <2>2. 0 \div ChunkTokens = 0
    <3>1. 0 = 0 * ChunkTokens + 0 /\ 0 \in 0..(ChunkTokens - 1) /\ ChunkTokens \in Nat \ {0}
      BY Constants
    <3> QED BY <3>1, DivUnique
  <2>3. Len(quant_slots') = 0
    BY <1>0
  <2> QED BY <1>0, <2>1, <2>2, <2>3 DEF QuantInv
<1>5. DecodeTableInv'
  <2> SUFFICES ASSUME last_page_table_len = 1
               PROVE  d_page[0] = <<pool, Last(free_list')>>
    BY <1>0 DEF DecodeTableInv
  <2>1. /\ SequenceType /\ ChunksAreResident
    BY <1>0, <1>1 DEF ChatInv, TypeOK, PoolInv
  <2> DEFINE g == SlotsOf(chunks)   f == free_list
  <2>2. free_list' = f \o g /\ g \in Seq(Slots) /\ Len(g) = Len(chunks) /\ f \in Seq(Slots)
    BY <1>0, <2>1, FreedAreAll, ResidentPartition DEF SequenceType
  <2>3. CASE chunks = <<>>
    <3>1. Len(g) = 0
      BY <2>2, <2>3
    <3> HIDE DEF g
    <3>2. f \o g = f
      BY <2>2, <3>1
    <3> QED BY <1>0, <2>2, <2>3, <3>2 DEF DecodeInv, DecodeTableInv
  <2>4. CASE chunks # <<>>
    <3>1. Len(chunks) = 1 /\ \A k \in 1..Len(chunks) : d_page[k - 1] = <<pool, chunks[k].slot>>
      BY <1>0, <2>4 DEF DecodeInv, DecodeTableInv
    <3>2. d_page[0] = <<pool, chunks[1].slot>> /\ g[1] = chunks[1].slot
      <4>1. d_page[1 - 1] = <<pool, chunks[1].slot>> /\ 1 - 1 = 0
        BY <3>1
      <4> QED BY <3>1, <4>1 DEF SlotsOf
    <3> HIDE DEF g
    <3>3. Last(f \o g) = g[1]
      <4>1. f \in Seq(Slots) /\ g \in Seq(Slots) /\ Len(g) = 1
        BY <2>2, <3>1
      <4> QED BY <4>1, LastOfJoin
    <3> QED BY <2>2, <3>2, <3>3
  <2> QED BY <2>3, <2>4
<1>6. DecodePositionInv'
  BY <1>0 DEF DecodePositionInv
<1>7. DecodeSeesConversation' /\ DecodeKeysAtTheirPositions'
  BY <1>0 DEF DecodeSeesConversation, DecodeKeysAtTheirPositions, Unseen
<1> QED BY <1>0, <1>1, <1>3, <1>4, <1>5, <1>6, <1>7 DEF DecodeInv

(* The part of a decode step that does not depend on how it ends.          *)
LEMMA DispatchKeepsDecode ==
  ASSUME DecodeInv, phase = "talking", model_len < MaxSeqLen,
         AppendToken, PatchDecodeProgram, Dispatch, conv' = conv,
         phase' \in {"talking", "failed"},
         phase' = "talking" => model_len' = model_len + 1
  PROVE  DecodeTableInv' /\ DecodePositionInv' /\ DecodeSeesConversation'
         /\ DecodeKeysAtTheirPositions'
<1>1. /\ last_page_table_len' = Len(chunks') /\ chunks' # <<>>
      /\ \A k \in 1..Len(chunks') : d_page'[k - 1] = <<pool, chunks'[k].slot>>
      /\ \A i \in 0..model_len : d_pos'[i] = i
  BY PatchedTables
<1>2. /\ Len(Keys') = model_len + 1
      /\ \A k \in 1..(model_len + 1) :
            Keys'[k].cell.tok = <<conv, k - 1>> /\ Keys'[k].pos = k - 1
  BY DecodeReads
<1>3. pool' = pool /\ model_len \in Nat /\ (model_len + 1) - 1 = model_len
  BY DecodePatch, Constants DEF DecodeInv, Appended, ChatInv, TypeOK, ClientType
<1>4. DecodeTableInv'
  BY <1>1, <1>3 DEF DecodeTableInv
<1>5. DecodePositionInv'
  BY <1>1, <1>3 DEF DecodePositionInv
<1>6. DecodeSeesConversation'
  <2>1. phase' = "talking" => Cached' = model_len + 1
    BY DEF Cached
  <2> QED BY <1>2, <2>1 DEF DecodeSeesConversation, SeesConversation
<1>7. DecodeKeysAtTheirPositions'
  BY <1>2 DEF DecodeKeysAtTheirPositions
<1> QED BY <1>4, <1>5, <1>6, <1>7

(* The steps that seal nothing.                                            *)
LEMMA DecodeStepKeepsDecode ==
  ASSUME DecodeInv, DecodeStep \/ DecodeSealFails
  PROVE  DecodeInv'
<1>0. /\ phase = "talking" /\ model_len < MaxSeqLen /\ AppendToken /\ PatchDecodeProgram
      /\ Dispatch /\ UNCHANGED <<conv, kv_quant, q_free, quant_slots, q_page, q_kv>>
      /\ phase' \in {"talking", "failed"}
      /\ phase' = "talking" => model_len' = model_len + 1 /\ ~Seals
  BY DEF DecodeStep, DecodeSealFails, quant
<1>1. ChatInv /\ ChatInv'
  BY DecodeStepKeeps DEF DecodeInv
<1>2. DecodeTableInv' /\ DecodePositionInv' /\ DecodeSeesConversation'
      /\ DecodeKeysAtTheirPositions'
  BY <1>0, DispatchKeepsDecode
<1>3. QuantSlotPartition'
  BY <1>0 DEF DecodeInv, QuantSlotPartition
<1>4. QuantInv'
  <2>1. (phase' = "talking" /\ kv_quant) =>
            (model_len + 1) \div ChunkTokens = model_len \div ChunkTokens
    <3>1. model_len \in Nat /\ ChunkTokens \in Nat \ {0}
      BY <1>1, Constants DEF ChatInv, TypeOK, ClientType
    <3>2. (model_len + 1) % ChunkTokens # 0 =>
             (model_len + 1) \div ChunkTokens = model_len \div ChunkTokens
      BY <3>1, DivNext
    <3> QED BY <1>0, <3>2 DEF Seals
  <2> QED BY <1>0, <2>1 DEF DecodeInv, QuantInv
<1> QED BY <1>0, <1>1, <1>2, <1>3, <1>4 DEF DecodeInv

\* The step that fills a chunk copies it and writes its entry of the quantised table.
LEMMA SealKeepsDecode ==
  ASSUME DecodeInv, DecodeStepSeals
  PROVE  DecodeInv'
<1> DEFINE x == Last(q_free)   e == model_len \div ChunkTokens   b == quant_slots
<1>0. /\ phase = "talking" /\ model_len < MaxSeqLen /\ AppendToken /\ PatchDecodeProgram
      /\ Dispatch /\ Seals /\ q_free # <<>> /\ q_free' = Front(q_free)
      /\ quant_slots' = Append(b, x) /\ q_kv' = [q_kv EXCEPT ![x] = kv'[WrittenPage]]
      /\ q_page' = [q_page EXCEPT ![SealedPage] = x]
      /\ model_len' = model_len + 1 /\ phase' = phase /\ conv' = conv /\ kv_quant' = kv_quant
  BY DEF DecodeStepSeals
<1>1. ChatInv /\ ChatInv'
  BY SealKeeps DEF DecodeInv
<1>2. DecodeTableInv' /\ DecodePositionInv' /\ DecodeSeesConversation'
      /\ DecodeKeysAtTheirPositions'
  BY <1>0, DispatchKeepsDecode
<1>3. /\ q_free \in Seq(QSlots) /\ b \in Seq(QSlots) /\ Len(b) \in Nat
      /\ q_page \in [QSlots -> QSlots \cup {Null}] /\ q_kv \in [QSlots -> [Offsets -> Cell]]
  BY <1>1 DEF ChatInv, TypeOK, QuantType, MemoryType
<1>4. QuantSlotPartition'
  BY <1>0, <1>3, PartitionPop DEF DecodeInv, QuantSlotPartition
<1>5. x \in QSlots /\ Len(q_free) \in Nat \ {0} /\ Len(Front(q_free)) = Len(q_free) - 1
      /\ x = q_free[Len(q_free)]
  BY <1>0, <1>3, PopLast
<1>6. \A k \in 1..Len(b) : b[k] # x /\ b[k] \in QSlots
  BY <1>3, <1>5 DEF DecodeInv, QuantSlotPartition, Partition
<1>7. /\ Len(quant_slots') = Len(b) + 1 /\ quant_slots'[Len(b) + 1] = x
      /\ \A k \in 1..Len(b) : quant_slots'[k] = b[k]
  BY <1>0, <1>3, <1>5
<1>8. kv_quant /\ (model_len + 1) % ChunkTokens = 0 /\ Len(b) = e
  BY <1>0 DEF Seals, DecodeInv, QuantInv
<1>9. model_len \in Nat /\ ChunkTokens \in Nat \ {0} /\ MaxChunks \in Nat
  BY <1>1, Constants DEF ChatInv, TypeOK, ClientType
<1>10. /\ (model_len + 1) \div ChunkTokens = e + 1 /\ e \in Nat /\ e * ChunkTokens \in Nat
       /\ model_len = e * ChunkTokens + (ChunkTokens - 1)
  <2>1. (model_len + 1) \div ChunkTokens = e + 1 /\ model_len % ChunkTokens = ChunkTokens - 1
    BY <1>8, <1>9, DivNext
  <2>2. e \in Nat /\ model_len = e * ChunkTokens + (model_len % ChunkTokens)
    BY <1>9, DivMod
  <2> QED BY <1>9, <2>1, <2>2, ProductNext
<1>11. Len(chunks') = e + 1 /\ SealedPage = e /\ e \in QSlots
       /\ WrittenPage = <<pool, chunks'[e + 1].slot>>
  <2>1. Appended /\ seq_len = model_len /\ Sound'
    BY <1>0, <1>1, DecodePatch
  <2>2. (Sound => Bounded)'
    BY SoundBounds, PTL
  <2>3. Len(chunks') = e + 1 /\ Len(chunks') <= MaxChunks
    BY <2>1, <2>2 DEF Appended, Bounded
  <2>4. WrittenPage = <<pool, chunks'[Len(chunks')].slot>>
    BY DEF WrittenPage, Last
  <2>5. SealedPage = e /\ e \in QSlots
    <3> HIDE DEF e
    <3> QED BY <1>9, <1>10, <2>3 DEF SealedPage, QSlots
  <2> QED BY <2>3, <2>4, <2>5
<1>12. ASSUME NEW o \in Offsets
       PROVE  kv'[WrittenPage][o].tok = <<conv, e * ChunkTokens + o>>
  <2>0. PICK i \in Nat : i = e * ChunkTokens + o
    BY <1>9, <1>10 DEF Offsets
  <2>1. i \in 0..model_len
    <3> HIDE DEF e
    <3> QED BY <1>9, <1>10, <2>0 DEF Offsets
  <2>2. i \div ChunkTokens = e /\ i % ChunkTokens = o
    <3> HIDE DEF e
    <3>1. o \in 0..(ChunkTokens - 1)
      BY DEF Offsets
    <3> QED BY <1>9, <1>10, <2>0, <3>1, DivUnique
  <2>3. kv'[<<pool, SlotOf(i)'>>][i % ChunkTokens].tok = <<conv, i>>
    BY <1>0, <1>1, <2>1, DecodeWrite
  <2>4. SlotOf(i)' = chunks'[e + 1].slot
    BY <2>2 DEF SlotOf
  <2> QED BY <1>11, <2>0, <2>2, <2>3, <2>4
<1> HIDE DEF x, e
<1>13. ASSUME NEW k \in 1..(e + 1)
       PROVE  /\ q_page'[k - 1] = quant_slots'[k]
              /\ \A o \in Offsets :
                   q_kv'[quant_slots'[k]][o].tok = <<conv, (k - 1) * ChunkTokens + o>>
  <2>1. CASE k = e + 1
    <3>1. k - 1 = e /\ quant_slots'[k] = x
      BY <1>7, <1>8, <1>10, <2>1
    <3>2. q_page'[e] = x /\ q_kv'[x] = kv'[WrittenPage]
      BY <1>0, <1>3, <1>5, <1>11
    <3> QED BY <1>12, <3>1, <3>2
  <2>2. CASE k # e + 1
    <3>1. k \in 1..Len(b) /\ k - 1 # e /\ k - 1 \in QSlots
      BY <1>8, <1>9, <1>10, <1>11, <2>2 DEF QSlots
    <3>2. quant_slots'[k] = b[k] /\ b[k] # x /\ b[k] \in QSlots
      BY <1>6, <1>7, <3>1
    <3>3. q_page'[k - 1] = q_page[k - 1]
      BY <1>0, <1>3, <1>11, <3>1
    <3>4. q_kv'[b[k]] = q_kv[b[k]]
      BY <1>0, <1>3, <3>2
    <3>5. /\ q_page[k - 1] = b[k]
          /\ \A o \in Offsets : q_kv[b[k]][o].tok = <<conv, (k - 1) * ChunkTokens + o>>
      BY <1>0, <1>8, <3>1 DEF DecodeInv, QuantInv
    <3> QED BY <3>2, <3>3, <3>4, <3>5
  <2> QED BY <2>1, <2>2
<1>14. QuantInv'
  <2>1. Len(q_free') + Len(quant_slots') = MaxChunks
    BY <1>0, <1>3, <1>5, <1>7 DEF DecodeInv, QuantInv
  <2>2. Len(quant_slots') = model_len' \div ChunkTokens
    BY <1>0, <1>7, <1>8, <1>10
  <2>3. 1..Len(quant_slots') = 1..(e + 1)
    BY <1>7, <1>8
  <2> QED BY <1>0, <1>13, <2>1, <2>2, <2>3 DEF QuantInv
<1> QED BY <1>0, <1>1, <1>2, <1>4, <1>14 DEF DecodeInv

(* The steps that end the conversation.                                    *)
LEMMA EndKeepsDecode ==
  ASSUME DecodeInv, DecodeOutOfMemory \/ DecodeSpills \/ DecodePanics
  PROVE  DecodeInv'
<1>0. /\ phase = "talking" /\ phase' \in {"failed", "spilled", "panicked"}
      /\ UNCHANGED <<d_page, last_page_table_len, q_free, quant_slots>>
      /\ phase' = "failed" => UNCHANGED <<pool, free_list, chunks>>
  BY DEF DecodeOutOfMemory, DecodeSpills, DecodePanics, seqst, dtabs, quant
<1>1. ChatInv'
  BY EndKeeps DEF DecodeInv
<1>2. QuantSlotPartition' /\ QuantInv'
  BY <1>0 DEF DecodeInv, QuantSlotPartition, QuantInv
<1>3. DecodeTableInv'
  BY <1>0 DEF DecodeInv, DecodeTableInv
<1>4. DecodePositionInv' /\ DecodeSeesConversation' /\ DecodeKeysAtTheirPositions'
  BY <1>0 DEF DecodePositionInv, DecodeSeesConversation, DecodeKeysAtTheirPositions
<1> QED BY <1>0, <1>1, <1>2, <1>3, <1>4 DEF DecodeInv

(* The invariant holds initially.                                          *)
LEMMA InitDecode ==
  ASSUME Init
  PROVE  DecodeInv
<1>1. ChatInv
  BY InitChat
<1>2. /\ phase = "start" /\ q_free = FullPool(MaxChunks) /\ quant_slots = <<>>
      /\ chunks = <<>> /\ last_page_table_len = 0
  BY DEF Init
<1>3. /\ Len(q_free) = MaxChunks /\ Partition(q_free, << >>, QSlots)
  BY <1>2, Constants, FullPoolPartition DEF QSlots
<1>4. QuantSlotPartition /\ QuantInv
  BY <1>2, <1>3, Constants DEF QuantSlotPartition, QuantInv
<1> QED BY <1>1, <1>2, <1>4 DEF DecodeInv, DecodeTableInv, DecodePositionInv,
                                DecodeSeesConversation, DecodeKeysAtTheirPositions

(* Every step of such a client keeps it.                                   *)
LEMMA NextDecode ==
  ASSUME DecodesOnly, DecodeInv, [Next]_vars
  PROVE  DecodeInv'
<1>1. CASE ResetState
  BY <1>1, ResetKeepsDecode
<1>2. CASE \E n \in 1..MaxPrompt : StartPrefill(n)
  BY <1>2 DEF DecodesOnly
<1>3. CASE PrefillAppend \/ PrefillOutOfMemory \/ PrefillDispatch
  BY <1>3 DEF DecodeInv, PrefillAppend, PrefillOutOfMemory, PrefillDispatch
<1>4. CASE DecodeStep \/ DecodeSealFails
  BY <1>4, DecodeStepKeepsDecode
<1>5. CASE DecodeFaults
  <2>1. phase = "talking" /\ model_len < MaxSeqLen /\ AppendToken /\ PatchDecodeProgram
        /\ NullQuantPage
    BY <1>5 DEF DecodeFaults
  <2> QED BY <2>1, SealedPages
<1>6. CASE DecodeStepSeals
  BY <1>6, SealKeepsDecode
<1>7. CASE DecodeOutOfMemory \/ DecodeSpills \/ DecodePanics
  BY <1>7, EndKeepsDecode
<1>8. CASE UNCHANGED vars
  <2>1. /\ UNCHANGED <<phase, conv, kv_quant, todo, offset, slab, model_len, kv, seen>>
        /\ UNCHANGED <<pool, free_list, host_tier, host_free, chunks, seq_len>>
        /\ UNCHANGED <<d_page, last_page_table_len, d_pos, partial_state, p_page, p_pos>>
        /\ UNCHANGED <<q_free, quant_slots, q_page, q_kv>>
    BY <1>8 DEF vars, client, seqst, dtabs, ptabs, quant
  <2>2. ChatInv'
    BY <1>8, NextChat DEF DecodeInv
  <2>3. QuantSlotPartition' /\ DecodeTableInv' /\ DecodePositionInv' /\ QuantInv'
    BY <2>1 DEF DecodeInv, QuantSlotPartition, DecodeTableInv, DecodePositionInv, QuantInv
  <2>4. Cached' = Cached /\ Keys' = Keys
    BY <2>1 DEF Cached, Keys
  <2>5. DecodeSeesConversation' /\ DecodeKeysAtTheirPositions'
    BY <2>1, <2>4 DEF DecodeInv, DecodeSeesConversation, SeesConversation,
                      DecodeKeysAtTheirPositions
  <2> QED BY <2>1, <2>2, <2>3, <2>5 DEF DecodeInv
<1> QED BY <1>1, <1>2, <1>3, <1>4, <1>5, <1>6, <1>7, <1>8 DEF Next

(* The inductive invariant for a client that only decodes.                  *)
THEOREM DecodeInvariant ==
  ASSUME DecodesOnly
  PROVE  Spec => []DecodeInv
<1>1. Init => DecodeInv
  BY InitDecode
<1>2. DecodeInv /\ [Next]_vars => DecodeInv'
  BY NextDecode
<1> QED BY <1>1, <1>2, PTL DEF Spec

(* A decoded token reads its own conversation, in order, and nothing else,  *)
(* through tables that no reset clears: the LIFO free list gives the first  *)
(* chunk the slot that a one-entry table still names.                       *)
THEOREM DecodeTheorem ==
  ASSUME DecodesOnly
  PROVE  Spec => []DecodeSeesConversation
<1>1. DecodeInv => DecodeSeesConversation
  BY DEF DecodeInv
<1> QED BY <1>1, DecodeInvariant, PTL

(* Every key is rotated by the position of its own token.                   *)
THEOREM PositionTheorem ==
  ASSUME DecodesOnly
  PROVE  Spec => []DecodeKeysAtTheirPositions
<1>1. DecodeInv => DecodeKeysAtTheirPositions
  BY DEF DecodeInv
<1> QED BY <1>1, DecodeInvariant, PTL

(* Every slot of the quantised pool is free or belongs to one sealed chunk. *)
THEOREM QuantSlotTheorem ==
  ASSUME DecodesOnly
  PROVE  Spec => []QuantSlotPartition
<1>1. DecodeInv => QuantSlotPartition
  BY DEF DecodeInv
<1> QED BY <1>1, DecodeInvariant, PTL

=============================================================================
