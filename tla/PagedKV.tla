------------------------------ MODULE PagedKV ------------------------------
(***************************************************************************)
(* The paged KV cache of one sequence on one GPU, as the chat loop drives  *)
(* it (bin/chat.rs): every turn resets the model, prefills the prompt and  *)
(* decodes one token after the other.  Four things have to stay in step:   *)
(*   - the pool of chunk slots and the chunk list of the sequence          *)
(*     (paged_kv.rs: PageAllocator, SequenceState);                        *)
(*   - Model.seq_len, from which prefill takes its start position;         *)
(*   - the page and position tables of the compiled decode program and of  *)
(*     the prefill programs, which outlive every reset;                    *)
(*   - with KV_QUANT=1, the quantised copies of sealed chunks, their page  *)
(*     table, and the pointer that merges the quantised pass.              *)
(* One thread drives all of this and a dispatch is synchronous, so a step  *)
(* that dispatches is atomic here (PersistentWorker is about the dispatch).*)
(*                                                                         *)
(* Data is reduced to identity: a cached key is the pair (conversation,    *)
(* index) of its token and the form it was stored in; a page is a pool and *)
(* a slot; seen records what the last attention read.                      *)
(***************************************************************************)
EXTENDS Naturals, FiniteSets, Sequences, SequencesExt

CONSTANTS
    ChunkTokens,      \* CHUNK_TOKENS, 64 in the code
    MaxSeqLen,        \* config.max_seq_len
    VramChunks,       \* slots of the f32 pool (BRAIDINFER_VRAM_KV_CHUNKS)
    HostTiers,        \* values BRAIDINFER_HOST_KV_CHUNKS may have, 0 when unset
    MaxPrompt,        \* longest call of prefill; 0: the client only decodes
    MaxConversations, \* bound on the number of resets
    QuantModes,       \* values KV_QUANT may have, a subset of BOOLEAN
    HasQkNorm,        \* config.has_qk_norm
    Null              \* a page table entry that was never written

\* max_paged_chunks
MaxChunks == (MaxSeqLen + ChunkTokens - 1) \div ChunkTokens

ASSUME BoundsAssumption ==
    /\ ChunkTokens \in Nat \ {0} /\ MaxSeqLen \in Nat /\ MaxSeqLen >= ChunkTokens
    /\ VramChunks \in 1..MaxChunks
    /\ HostTiers \subseteq Nat /\ MaxPrompt \in Nat /\ MaxConversations \in Nat \ {0}
    /\ QuantModes \subseteq BOOLEAN /\ HasQkNorm \in BOOLEAN

Slots  == 0..(VramChunks - 1)
QSlots == 0..(MaxChunks - 1)         \* the quantised pool is never capped
NoSlot == VramChunks                 \* vram_slot = u32::MAX: a HostPinned chunk
Pools  == 0..MaxConversations        \* a failed prefill abandons the pool
Offsets == 0..(ChunkTokens - 1)

\* Address 0 is no page of either pool.
ASSUME NullAssumption == Null \notin (Pools \X Slots) \cup QSlots

VARIABLES
    phase,      \* where the client is: see TypeOK
    conv,       \* which conversation this is
    kv_quant,   \* KV_QUANT=1, read when the decode program is compiled
    todo,       \* tokens of the current prefill call not yet dispatched
    offset,     \* tokens of it already dispatched (offset in prefill_paged)
    slab,       \* tokens of the current slab appended so far
    model_len,  \* Model.seq_len
    pool,       \* which pool page_allocator holds
    free_list,  \* PageAllocator.free_list of the f32 pool, top last
    host_tier,  \* HostPageAllocator's capacity
    host_free,  \* and its free slots
    chunks,     \* SequenceState.chunks: slot and length
    seq_len,    \* SequenceState.seq_len
    kv,         \* the memory of every pool: what each chunk slot holds
    d_page, last_page_table_len, d_pos,  \* tables of the decode program
    p_page, p_pos,                       \* tables of the prefill programs
    q_free, quant_slots,                 \* quantised pool, SequenceState.quant_slots
    q_page, q_kv,                        \* quant_page_table and its memory
    partial_state,                       \* AttnPagedInst.partial_state # 0
    seen                                 \* what the last attention read

client == <<phase, conv, todo, offset, slab, model_len>>
seqst  == <<pool, free_list, host_tier, host_free, chunks, seq_len>>
dtabs  == <<d_page, last_page_table_len, d_pos, partial_state>>
ptabs  == <<p_page, p_pos>>
quant  == <<q_free, quant_slots, q_page, q_kv>>
vars   == <<client, kv_quant, seqst, kv, dtabs, ptabs, quant, seen>>

Blank == [tok |-> <<0, 0>>, form |-> "none"]
Unseen == [by |-> "none", query |-> <<>>, sealed |-> <<>>, active |-> <<>>, merged |-> FALSE]

\* (0..max_chunks).rev(): slot 0 is the first to be popped
FullPool(n) == [k \in 1..n |-> n - k]

Init ==
    /\ phase = "start" /\ conv = 0
    /\ kv_quant \in QuantModes
    /\ todo = 0 /\ offset = 0 /\ slab = 0 /\ model_len = 0
    /\ pool = 0 /\ free_list = FullPool(VramChunks)
    /\ host_tier \in HostTiers /\ host_free = host_tier
    /\ chunks = <<>> /\ seq_len = 0
    /\ kv = [p \in Pools \X Slots |-> [o \in Offsets |-> Blank]]
    /\ d_page = [k \in QSlots |-> Null] /\ last_page_table_len = 0
    /\ d_pos = [i \in 0..(MaxSeqLen - 1) |-> 0]
    /\ p_page = d_page /\ p_pos = d_pos
    /\ q_free = FullPool(MaxChunks) /\ quant_slots = <<>>
    /\ q_page = d_page
    /\ q_kv = [q \in QSlots |-> [o \in Offsets |-> Blank]]
    /\ partial_state = kv_quant
    /\ seen = Unseen

-----------------------------------------------------------------------------
(* SequenceState::append_token.                                            *)

NeedsNewChunk == chunks = <<>> \/ Last(chunks).len >= ChunkTokens

\* allocator.alloc() has a slot to give, if one is needed
VramSuffices == NeedsNewChunk => free_list # <<>>

\* The chunk list after the append; `slot' is used only for a new chunk.
Grown(slot) ==
    IF NeedsNewChunk
    THEN Append(chunks, [slot |-> slot, len |-> 1])
    ELSE [chunks EXCEPT ![Len(chunks)].len = @ + 1]

AppendToken ==
    /\ VramSuffices
    /\ chunks' = Grown(IF NeedsNewChunk THEN Last(free_list) ELSE NoSlot)
    /\ free_list' = IF NeedsNewChunk THEN Front(free_list) ELSE free_list
    /\ seq_len' = seq_len + 1
    /\ UNCHANGED <<pool, host_tier, host_free>>

\* The fallback to a HostPinned chunk when the host tier is enabled.
AppendHostPinned ==
    /\ ~VramSuffices /\ host_free > 0
    /\ chunks' = Grown(NoSlot)
    /\ host_free' = host_free - 1
    /\ seq_len' = seq_len + 1
    /\ UNCHANGED <<pool, host_tier, free_list>>

\* Mistake: only entries not yet written are filled in.
MutRewritten(table, list) ==
    [k \in QSlots |-> IF k < Len(list) /\ table[k] = Null
                      THEN <<pool, list[k + 1].slot>> ELSE table[k]]

\* slot_ptr of every chunk in turn, over the entries a table already had
Rewritten(table, list) ==
    [k \in QSlots |-> IF k < Len(list) THEN <<pool, list[k + 1].slot>> ELSE table[k]]

-----------------------------------------------------------------------------
(* OP_ATTN_PAGED over tokens lo .. hi-1: the key of token i is read through *)
(* the page table and rotated by the position table at index i.             *)

\* Prefill does not compare its positions with max_seq_len: past it, the program
\* reads outside the position table, and what it reads is nobody's position.
PosAt(positions, i) == IF i < MaxSeqLen THEN positions[i] ELSE Null

CellAt(mem, page, o) == IF page = Null THEN Blank ELSE mem[page][o]

Attend(mem, table, positions, lo, hi) ==
    [k \in 1..(hi - lo) |->
        LET i == lo + k - 1 IN
        [cell |-> CellAt(mem, table[i \div ChunkTokens], i % ChunkTokens),
         pos  |-> PosAt(positions, i)]]

-----------------------------------------------------------------------------
(* Model::prefill_paged: slabs of at most CHUNK_TOKENS tokens.              *)

StartPrefill(n) ==
    /\ phase = "talking"
    /\ phase' = "prefill"
    /\ todo' = n /\ offset' = 0 /\ slab' = 0
    /\ UNCHANGED <<conv, model_len, kv_quant, seqst, kv, dtabs, ptabs, quant, seen>>

SlabSize == IF todo < ChunkTokens THEN todo ELSE ChunkTokens

\* One turn of the append loop of compile_prefill_paged_persistent.
PrefillAppend ==
    /\ phase = "prefill" /\ slab < SlabSize
    /\ AppendToken
    /\ slab' = slab + 1
    /\ UNCHANGED <<phase, conv, todo, offset, model_len,
                   kv_quant, kv, dtabs, ptabs, quant, seen>>

\* No host tier at compile time.  The error returns through prefill_paged's `?'
\* while the sequence and its allocator are out of the model, so both are
\* dropped; the pool's memory is leaked, because the worker is running, and the
\* next ensure_paged_decode_state makes a new pool and an empty sequence.
PrefillOutOfMemory ==
    /\ phase = "prefill" /\ slab < SlabSize
    /\ ~VramSuffices
    /\ phase' = "failed"
    /\ pool' = pool + 1 /\ free_list' = FullPool(VramChunks)
    /\ chunks' = <<>> /\ seq_len' = 0
    /\ quant_slots' = <<>>
    /\ todo' = 0 /\ offset' = 0 /\ slab' = 0
    /\ UNCHANGED <<conv, model_len, kv_quant, host_tier, host_free, kv, dtabs, ptabs,
                   q_free, q_page, q_kv, seen>>

\* Mistake: every call starts at position 0.
MutSlabStart == offset

\* chunk_start_pos
SlabStart == model_len + offset

\* What OP_KV_WRITE_PAGED_BATCH stores: K after QK-norm, and after an mRoPE whose
\* position_ids are still zero, which leaves it as it is.
PrefillCell(i) == [tok |-> <<conv, i>>, form |-> IF HasQkNorm THEN "normed" ELSE "raw"]

\* prefill_bufs.position_ids: allocated zeroed, write_positions has no caller
PrefillQueryPosition(i) == 0

\* The position table the slab's program is given: indexed within the slab.
PrefillPositions ==
    [i \in DOMAIN p_pos |-> IF i < slab THEN SlabStart + i ELSE p_pos[i]]

\* Which token of the slab, if any, the program scatters to a place.
ScatteredTo(table, page, o) ==
    {i \in SlabStart..(SlabStart + slab - 1) :
        table[i \div ChunkTokens] = page /\ i % ChunkTokens = o}

\* The tables are written, K and V are scattered by the page table, every token
\* of the slab attends to all before it, and the last slab advances seq_len.
PrefillDispatch ==
    /\ phase = "prefill" /\ slab = SlabSize
    /\ p_page' = Rewritten(p_page, chunks)
    /\ p_pos' = PrefillPositions
    /\ kv' = [p \in DOMAIN kv |-> [o \in Offsets |->
                 LET T == ScatteredTo(p_page', p, o)
                 IN  IF T = {} THEN kv[p][o] ELSE PrefillCell(CHOOSE i \in T : TRUE)]]
    /\ seen' = [by |-> "prefill",
                query |-> [t \in 1..slab |-> PrefillQueryPosition(SlabStart + t - 1)],
                sealed |-> <<>>, merged |-> FALSE,
                active |-> Attend(kv', p_page', p_pos', 0, SlabStart + slab)]
    /\ todo' = todo - slab /\ slab' = 0
    /\ IF todo' = 0
       THEN phase' = "talking" /\ offset' = 0 /\ model_len' = model_len + offset + slab
       ELSE offset' = offset + slab /\ UNCHANGED <<phase, model_len>>
    /\ UNCHANGED <<conv, kv_quant, seqst, dtabs, quant>>

-----------------------------------------------------------------------------
(* Model::decode_step_persistent.  The client passes position = model_len.  *)

\* The sealed chunks are read from their quantised copies.
QuantPass == kv_quant /\ Len(chunks') > 1
Sealed == IF QuantPass THEN Len(chunks') - 1 ELSE 0

\* Mistake: the table is rewritten only when it has grown.
MutPatchWhenLonger ==
    /\ d_pos' = [d_pos EXCEPT ![seq_len' - 1] = model_len]
    /\ partial_state' = (QuantPass /\ partial_state)
    /\ d_page' = IF Len(chunks') > last_page_table_len
                 THEN Rewritten(d_page, chunks') ELSE d_page
    /\ last_page_table_len' = Len(chunks')

\* Mistake: the position goes to the entry after the token's.
MutPatchPositionLate ==
    /\ d_pos' = [d_pos EXCEPT ![seq_len'] = model_len]
    /\ partial_state' = (QuantPass /\ partial_state)
    /\ d_page' = IF Len(chunks') # last_page_table_len
                 THEN Rewritten(d_page, chunks') ELSE d_page
    /\ last_page_table_len' = Len(chunks')

\* update_step_paged_no_upload: the position of the new token; partial_state is
\* cleared while no chunk is sealed; the page table is rewritten only when the
\* number of chunks differs from the one last written (nothing sets the dirty
\* flag).
PatchDecodeProgram ==
    /\ d_pos' = [d_pos EXCEPT ![seq_len' - 1] = model_len]
    /\ partial_state' = (QuantPass /\ partial_state)
    /\ d_page' = IF Len(chunks') # last_page_table_len
                 THEN Rewritten(d_page, chunks') ELSE d_page
    /\ last_page_table_len' = Len(chunks')

\* Where the D2D copies put the new token: the last slot of the last chunk.
WrittenPage == <<pool, Last(chunks').slot>>

\* The quantised pass over sealed chunks, then the f32 pass over the rest, which
\* merges the first only if partial_state is set.
Dispatch ==
    /\ kv' = [kv EXCEPT ![WrittenPage][Last(chunks').len - 1] =
                 [tok |-> <<conv, model_len>>, form |-> "raw"]]
    /\ LET n == Sealed * ChunkTokens
       IN  seen' = [by |-> "decode", query |-> <<model_len>>,
                    sealed |-> Attend(q_kv, q_page, d_pos', 0, n),
                    active |-> Attend(kv', d_page', d_pos', n, seq_len'),
                    merged |-> partial_state']

\* A quantised page that was never written is address 0.
NullQuantPage == \E k \in 0..(Sealed - 1) : q_page[k] = Null

\* (position + 1) % CHUNK_TOKENS = 0: the chunk is sealed by this step
Seals == kv_quant /\ (model_len + 1) % ChunkTokens = 0

\* The entry of quant_page_table a sealed chunk gets: num_sealed - 1
SealedPage == Len(chunks') - 1

\* Append, patch, dispatch, and nothing to seal.
DecodeStep ==
    /\ phase = "talking" /\ model_len < MaxSeqLen
    /\ AppendToken
    /\ ~NullQuantPage /\ ~Seals
    /\ PatchDecodeProgram
    /\ Dispatch
    /\ model_len' = model_len + 1
    /\ UNCHANGED <<phase, conv, todo, offset, slab, kv_quant, ptabs, quant>>

\* post_step_paged: a slot of the quantised pool receives the sealed chunk.
DecodeStepSeals ==
    /\ phase = "talking" /\ model_len < MaxSeqLen
    /\ AppendToken
    /\ ~NullQuantPage /\ Seals /\ q_free # <<>>
    /\ PatchDecodeProgram
    /\ Dispatch
    /\ q_free' = Front(q_free)
    /\ quant_slots' = Append(quant_slots, Last(q_free))
    /\ q_kv' = [q_kv EXCEPT ![Last(q_free)] = kv'[WrittenPage]]
    /\ q_page' = [q_page EXCEPT ![SealedPage] = Last(q_free)]
    /\ model_len' = model_len + 1
    /\ UNCHANGED <<phase, conv, todo, offset, slab, kv_quant, ptabs>>

\* The quantised pool is empty: an error after the token is in the cache and
\* before seq_len counts it.
DecodeSealFails ==
    /\ phase = "talking" /\ model_len < MaxSeqLen
    /\ AppendToken
    /\ ~NullQuantPage /\ Seals /\ q_free = <<>>
    /\ PatchDecodeProgram
    /\ Dispatch
    /\ phase' = "failed"
    /\ UNCHANGED <<conv, todo, offset, slab, model_len, kv_quant, ptabs, quant>>

\* OP_ATTN_PAGED_Q dereferences address 0: a GPU page fault.
DecodeFaults ==
    /\ phase = "talking" /\ model_len < MaxSeqLen
    /\ AppendToken
    /\ NullQuantPage
    /\ PatchDecodeProgram
    /\ phase' = "faulted"
    /\ UNCHANGED <<conv, todo, offset, slab, model_len, kv_quant, kv, ptabs, quant, seen>>

\* append_token's error: nothing has been changed.
DecodeOutOfMemory ==
    /\ phase = "talking"
    /\ ~VramSuffices /\ host_free = 0
    /\ phase' = "failed"
    /\ UNCHANGED <<conv, todo, offset, slab, model_len, kv_quant,
                   seqst, kv, dtabs, ptabs, quant, seen>>

\* A HostPinned chunk is appended, no prefetch pass promotes it, and the KV write
\* asks for its VRAM slot: slot_index asserts in a debug build, and a release
\* build computes an address from u32::MAX.
DecodeSpills ==
    /\ phase = "talking" /\ model_len < MaxSeqLen
    /\ AppendHostPinned
    /\ phase' = "spilled"
    /\ UNCHANGED <<conv, todo, offset, slab, model_len, kv_quant, kv, dtabs, ptabs, quant, seen>>

\* assert!(position < max_seq_len), after the token has been appended
DecodePanics ==
    /\ phase = "talking" /\ model_len >= MaxSeqLen
    /\ AppendToken \/ AppendHostPinned
    /\ phase' = "panicked"
    /\ UNCHANGED <<conv, todo, offset, slab, model_len, kv_quant, kv, dtabs, ptabs, quant, seen>>

-----------------------------------------------------------------------------
(* Model::reset_state, at the start of every turn.                          *)

\* Mistake: only full chunks are given back.
MutFreedSlots == LET S == SelectSeq(chunks, LAMBDA c : c.len = ChunkTokens)
                 IN  [k \in 1..Len(S) |-> S[k].slot]

Resident == {k \in 1..Len(chunks) : chunks[k].slot # NoSlot}
Rank(k) == Cardinality({j \in Resident : j <= k})

\* SequenceState::reset frees the VRAM slots front to back.
FreedSlots ==
    [n \in 1..Cardinality(Resident) |-> chunks[CHOOSE k \in Resident : Rank(k) = n].slot]

\* Mistake: Model.seq_len survives the reset.
MutResetKeepsLength ==
    /\ phase \in {"start", "talking", "failed"}
    /\ conv < MaxConversations
    /\ conv' = conv + 1
    /\ phase' = "talking"
    /\ host_free' = host_tier
    /\ q_free' = q_free \o quant_slots /\ quant_slots' = <<>>
    /\ free_list' = free_list \o FreedSlots
    /\ chunks' = <<>> /\ seq_len' = 0
    /\ seen' = Unseen
    /\ UNCHANGED <<todo, offset, slab, model_len, kv_quant, pool, host_tier, kv, dtabs, ptabs, q_page, q_kv>>

\* Mistake: the quantised slots are forgotten.
MutResetForgetsQuant ==
    /\ phase \in {"start", "talking", "failed"}
    /\ conv < MaxConversations
    /\ conv' = conv + 1
    /\ phase' = "talking"
    /\ host_free' = host_tier
    /\ model_len' = 0
    /\ quant_slots' = <<>>
    /\ free_list' = free_list \o FreedSlots
    /\ chunks' = <<>> /\ seq_len' = 0
    /\ seen' = Unseen
    /\ UNCHANGED <<todo, offset, slab, kv_quant, pool, host_tier, kv, dtabs, ptabs, q_free, q_page, q_kv>>

\* The host pool is dropped (and made anew before the next decode), the quantised
\* slots and the chunks are freed.  The tables of the compiled program, its
\* last_page_table_len and its partial_state are not touched.
ResetState ==
    /\ phase \in {"start", "talking", "failed"}
    /\ conv < MaxConversations
    /\ conv' = conv + 1
    /\ phase' = "talking"
    /\ host_free' = host_tier
    /\ model_len' = 0
    /\ q_free' = q_free \o quant_slots /\ quant_slots' = <<>>
    /\ free_list' = free_list \o FreedSlots
    /\ chunks' = <<>> /\ seq_len' = 0
    /\ seen' = Unseen
    /\ UNCHANGED <<todo, offset, slab, kv_quant, pool, host_tier, kv, dtabs, ptabs, q_page, q_kv>>

-----------------------------------------------------------------------------
Next ==
    \/ ResetState
    \/ \E n \in 1..MaxPrompt : StartPrefill(n)
    \/ PrefillAppend \/ PrefillOutOfMemory \/ PrefillDispatch
    \/ DecodeStep \/ DecodeStepSeals \/ DecodeSealFails
    \/ DecodeFaults \/ DecodeOutOfMemory \/ DecodeSpills \/ DecodePanics

Spec == Init /\ [][Next]_vars

-----------------------------------------------------------------------------
(* Properties.                                                              *)

Capacity == MaxChunks * ChunkTokens
Page == Pools \X Slots
Chunk == [slot : Slots \cup {NoSlot}, len : 1..ChunkTokens]
Cell == [tok : (0..MaxConversations) \X (0..(Capacity - 1)), form : {"none", "raw", "normed"}]

ClientType ==
    /\ phase \in {"start", "talking", "prefill", "failed",
                  "faulted", "spilled", "panicked"}
    /\ conv \in 0..MaxConversations /\ kv_quant \in BOOLEAN
    /\ todo \in 0..MaxPrompt /\ offset \in 0..MaxPrompt /\ slab \in 0..ChunkTokens
    /\ model_len \in 0..Capacity

SequenceType ==
    /\ pool \in Pools /\ free_list \in Seq(Slots)
    /\ host_tier \in HostTiers /\ host_free \in 0..host_tier
    /\ chunks \in Seq(Chunk) /\ seq_len \in 0..(Capacity + 1)

MemoryType ==
    /\ kv \in [Page -> [Offsets -> Cell]]
    /\ q_kv \in [QSlots -> [Offsets -> Cell]]

TableType ==
    /\ d_page \in [QSlots -> Page \cup {Null}] /\ p_page \in [QSlots -> Page \cup {Null}]
    /\ last_page_table_len \in 0..MaxChunks
    /\ d_pos \in [0..(MaxSeqLen - 1) -> Nat] /\ p_pos \in [0..(MaxSeqLen - 1) -> Nat]
    /\ partial_state \in BOOLEAN

QuantType ==
    /\ q_free \in Seq(QSlots) /\ quant_slots \in Seq(QSlots)
    /\ q_page \in [QSlots -> QSlots \cup {Null}]

\* The state has the shape of the code's structures: no chunk is longer than
\* CHUNK_TOKENS, and no length exceeds what the pool can hold (append_token).
TypeOK == ClientType /\ SequenceType /\ MemoryType /\ TableType /\ QuantType

\* Where a call of prefill stands, and how many pools have been abandoned.
ClientInv ==
    /\ phase = "prefill" => todo > 0 /\ offset + todo <= MaxPrompt /\ slab <= SlabSize
    /\ phase # "prefill" => todo = 0 /\ offset = 0 /\ slab = 0
    /\ pool <= conv /\ (phase \in {"talking", "prefill"} => pool < conv)

\* A chunk whose address is about to be computed is in VRAM (the assertions of
\* slot_index and of the page table loop of update_step_paged_no_upload).
ChunksAreResident == \A k \in 1..Len(chunks) : chunks[k].slot # NoSlot

\* A HostPinned chunk ends the conversation that needed it; otherwise the chunks
\* and the free list make up the pool.
PoolInv ==
    phase \notin {"spilled", "panicked"} =>
        ChunksAreResident /\ Len(free_list) + Len(chunks) = VramChunks

\* Two sequences of slots share out a pool: no slot is missing, none is there twice.
Partition(free, owned, S) ==
    /\ \A j, k \in 1..Len(free) : free[j] = free[k] => j = k
    /\ \A j, k \in 1..Len(owned) : owned[j] = owned[k] => j = k
    /\ \A s \in S : (\E j \in 1..Len(free) : free[j] = s)
                     <=> ~(\E k \in 1..Len(owned) : owned[k] = s)

\* Every slot of the f32 pool is free or belongs to exactly one chunk, through
\* resets, out-of-memory errors and abandoned pools: PageAllocator::free would
\* panic on the second owner's reset, and a lost slot is never given out again.
SlotPartition ==
    /\ \A j, k \in 1..Len(free_list) : free_list[j] = free_list[k] => j = k
    /\ \A j, k \in Resident : chunks[j].slot = chunks[k].slot => j = k
    /\ \A s \in Slots : (\E j \in 1..Len(free_list) : free_list[j] = s)
                         <=> ~(\E k \in Resident : chunks[k].slot = s)

\* The same for the quantised pool, whose slots only reset_state gives back.
QuantSlotPartition == Partition(q_free, quant_slots, QSlots)

\* How many tokens of the conversation the caller has been told are cached.
Cached == IF phase = "prefill" THEN model_len + offset ELSE model_len

\* Token i of the conversation is in the chunk and at the offset where
\* chunks[i / CHUNK_TOKENS] says it is, whichever of decode's D2D copies and
\* prefill's batched scatter put it there: no later token, and no token of
\* another conversation, has overwritten it.
KvIntact ==
    phase \in {"talking", "prefill"} =>
        \A i \in 0..(Cached - 1) :
            LET c == chunks[(i \div ChunkTokens) + 1]
            IN  kv[<<pool, c.slot>>][i % ChunkTokens].tok = <<conv, i>>

\* The chunks of a sequence are full but for the last, and hold seq_len tokens.
ChunkLengths ==
    /\ \A k \in 1..Len(chunks) :
          chunks[k].len = IF k < Len(chunks) THEN ChunkTokens
                          ELSE seq_len - (Len(chunks) - 1) * ChunkTokens
    /\ Len(chunks) = (seq_len + ChunkTokens - 1) \div ChunkTokens

\* Model.seq_len, SequenceState.seq_len and the chunk lengths, which three
\* different pieces of code advance, agree between calls and between slabs:
\* prefill takes its write positions from the first, decode from the others.
LengthsAgree ==
    phase \in {"talking", "prefill"} => seq_len = Cached + slab /\ ChunkLengths

\* The keys the last attention read, in the order of their tokens.
Keys == seen.sealed \o seen.active

SeesConversation ==
    /\ Len(Keys) = Cached
    /\ \A k \in 1..Len(Keys) : Keys[k].cell.tok = <<conv, k - 1>>

\* A prefilled token attends to every token of this conversation up to itself, in
\* order and to nothing else, however many resets came before: its page table is
\* rewritten for every slab.
PrefillSeesConversation ==
    (phase \in {"talking", "prefill"} /\ seen.by = "prefill") => SeesConversation

\* The inductive invariant for any client.
ChatInv == /\ TypeOK /\ ClientInv /\ PoolInv
           /\ SlotPartition /\ LengthsAgree /\ KvIntact /\ PrefillSeesConversation

\* A decoded token reads every token of this conversation up to itself, in order
\* and nothing else: the active ones through a page table that outlives resets and
\* is rewritten only when the number of chunks changes, the sealed ones, with
\* KV_QUANT=1, through a page table of which a seal writes one entry; and no entry
\* is read that was never written.
DecodeSeesConversation ==
    /\ phase # "faulted"
    /\ (phase = "talking" /\ seen.by = "decode") => SeesConversation

\* A decoded token finds every key rotated by that key's own position: "per-token
\* positions" (kernels/megakernel_ops.hip, OP_ATTN_PAGED), in a table of which
\* update_step_paged_no_upload fills one entry at a time and which no reset clears.
DecodeKeysAtTheirPositions ==
    (phase = "talking" /\ seen.by = "decode") =>
        \A k \in 1..Len(Keys) : Keys[k].pos = k - 1

\* The page table of the decode program names the chunks; when there are none yet
\* and the last conversation had one, it names the slot that will be popped first.
DecodeTableInv ==
    phase \in {"start", "talking", "failed"} =>
        IF chunks # <<>>
        THEN /\ last_page_table_len = Len(chunks)
             /\ \A k \in 1..Len(chunks) : d_page[k - 1] = <<pool, chunks[k].slot>>
        ELSE last_page_table_len = 1 => d_page[0] = <<pool, Last(free_list)>>

DecodePositionInv == phase = "talking" => \A i \in 0..(model_len - 1) : d_pos[i] = i

\* Every full chunk has a quantised copy, at its place in the quantised table.
QuantInv ==
    /\ Len(q_free) + Len(quant_slots) = MaxChunks
    /\ (phase = "talking" /\ kv_quant) =>
          /\ Len(quant_slots) = model_len \div ChunkTokens
          /\ \A k \in 1..Len(quant_slots) :
                /\ q_page[k - 1] = quant_slots[k]
                /\ \A o \in Offsets :
                     q_kv[quant_slots[k]][o].tok = <<conv, (k - 1) * ChunkTokens + o>>

\* The inductive invariant for a client that only decodes.
DecodeInv == /\ ChatInv /\ phase # "prefill" /\ QuantSlotPartition
             /\ DecodeTableInv /\ DecodePositionInv /\ QuantInv
             /\ DecodeSeesConversation /\ DecodeKeysAtTheirPositions

\* Prefill computes attention as decode does: queries "post-QK-norm, post-RoPE"
\* (kernels/megakernel_ops.hip, OP_ATTN_PAGED), each rotated by the position of
\* its own token, over keys that were cached before QK-norm ("cache stores
\* pre-norm K/V", compile_attention.rs) and are rotated by their own positions.
PrefillMatchesDecode ==
    (phase \in {"talking", "prefill"} /\ seen.by = "prefill") =>
        /\ \A t \in 1..Len(seen.query) :
              seen.query[t] = Cached - Len(seen.query) + t - 1
        /\ \A k \in 1..Len(Keys) : Keys[k].pos = k - 1 /\ Keys[k].cell.form = "raw"

\* The quantised pass counts: its scratch is merged into the result ("merges with
\* f32 active chunk", kernels/megakernel_ops.hip, OP_ATTN_PAGED_Q).
SealedTokensAreMerged == seen.sealed # <<>> => seen.merged
=============================================================================
