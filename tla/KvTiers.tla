------------------------------ MODULE KvTiers ------------------------------
(***************************************************************************)
(* The chunk handles of paged_kv.rs when sequences share chunks            *)
(* (copy-on-write, make_exclusive) and when chunks move between VRAM and   *)
(* pinned host memory (alloc_with_host_backing, promote_chunk, evict_chunk *)
(* and evict_chunk_and_free).                                              *)
(*                                                                         *)
(* Nothing in the runtime calls these functions yet; their caller here is  *)
(* the one their contracts and tests describe.  It appends a token, brings *)
(* every chunk to VRAM, flushes what it must, and dispatches the step that *)
(* writes the token and attends to the whole sequence.  All copies are     *)
(* asynchronous and run in order on one SDMA stream.  The persistent       *)
(* worker is not ordered with that stream.                                 *)
(***************************************************************************)
EXTENDS Naturals, FiniteSets, Sequences, SequencesExt

CONSTANTS Seqs,         \* the SequenceStates
          Handles,      \* bound: names of ChunkRefs, live while a sequence holds them
          VramCap,      \* slots of the PageAllocator
          HostCap,      \* slots of the HostPageAllocator
          ChunkTokens,  \* tokens per chunk
          MaxLen,       \* bound: tokens per sequence
          MaxResets,    \* bound: resets in all
          MaxFaults,    \* bound: failed copy-on-write copies
          FlushAfterCow \* the caller flushes after make_exclusive as well

ASSUME KvTiersAssumption ==
    /\ IsFiniteSet(Seqs)
    /\ VramCap \in Nat /\ HostCap \in Nat
    /\ ChunkTokens \in Nat \ {0}
    /\ MaxLen \in Nat /\ MaxResets \in Nat /\ MaxFaults \in Nat
    /\ FlushAfterCow \in BOOLEAN

VARIABLES ref,       \* the ChunkRef of every handle
          chunks,    \* SequenceState::chunks of every sequence
          unwritten, \* an appended token waits for its dispatch
          freeV,     \* free list of the VRAM pool, last in first out
          freeH,     \* free list of the host pool
          vram,      \* what each VRAM slot holds
          host,      \* what each host slot holds
          sdma,      \* copies issued on the stream, in order
          evicting,  \* handles between evict_chunk and their free
          resets,    \* resets so far
          conv,      \* the number of the reset each conversation began with
          said,      \* the tokens each sequence has written
          lost       \* slots a failed copy-on-write left without an owner

handleVars == <<ref, chunks, unwritten>>
poolVars == <<freeV, freeH, lost>>
memVars == <<vram, host, sdma>>
callerVars == <<evicting, resets, conv, said>>
vars == <<handleVars, poolVars, memVars, callerVars>>

VramSlots == 0..(VramCap - 1)
HostSlots == 0..(HostCap - 1)
NoVram == VramCap  \* u32::MAX in vram_slot: past the last slot
NoHost == HostCap  \* u32::MAX in host_slot

(* A token is told apart by the sequence and the conversation it is from.  *)
Tokens == Seqs \X (0..MaxResets)
NoToken == <<>>
Content == [1..ChunkTokens -> Tokens \cup {NoToken}]
NoData == [i \in 1..ChunkTokens |-> NoToken]

ChunkRef == [vram : 0..NoVram, host : 0..NoHost,
             len : 0..ChunkTokens, tier : {"Vram", "HostPinned"}]
Copy == [kind : {"H2D"}, src : HostSlots, dst : VramSlots]
        \cup [kind : {"D2H"}, src : VramSlots, dst : HostSlots]
        \cup [kind : {"D2D"}, src : VramSlots, dst : VramSlots]

-----------------------------------------------------------------------------
(* Arc::strong_count: one for every sequence whose list holds the handle.  *)
Owners(h) == {s \in Seqs : \E i \in 1..Len(chunks[s]) : chunks[s][i] = h}
StrongCount(h) == Cardinality(Owners(h))
Live == {h \in Handles : StrongCount(h) > 0}
FreshHandle == CHOOSE h \in Handles \ Live : TRUE

(* PageAllocator and HostPageAllocator pop and push the end of their list. *)
AllocSlot(list) == list[Len(list)]
AfterAlloc(list) == SubSeq(list, 1, Len(list) - 1)

(* ChunkHandle::new, alloc_with_host_backing and the host fallback.        *)
VramChunk(v, h, n) == [vram |-> v, host |-> h, len |-> n, tier |-> "Vram"]
HostChunk(h) == [vram |-> NoVram, host |-> h, len |-> 0, tier |-> "HostPinned"]

LastChunk(s) == chunks[s][Len(chunks[s])]

NeedsNewChunk(s) == chunks[s] # <<>> => ref[LastChunk(s)].len >= ChunkTokens

(* Where the i-th token of a sequence lies.                                *)
ChunkOf(s, i) == chunks[s][((i - 1) \div ChunkTokens) + 1]
Offset(i) == ((i - 1) % ChunkTokens) + 1

SeqLen(s) == Len(said[s]) + (IF unwritten[s] THEN 1 ELSE 0)

Init ==
    /\ ref = [h \in Handles |-> HostChunk(NoHost)]
    /\ chunks = [s \in Seqs |-> <<>>]
    /\ unwritten = [s \in Seqs |-> FALSE]
    /\ freeV = [i \in 1..VramCap |-> VramCap - i]
    /\ freeH = [i \in 1..HostCap |-> HostCap - i]
    /\ vram = [v \in VramSlots |-> NoData]
    /\ host = [h \in HostSlots |-> NoData]
    /\ sdma = <<>>
    /\ evicting = {}
    /\ resets = 0
    /\ conv = [s \in Seqs |-> 0]
    /\ said = [s \in Seqs |-> <<>>]
    /\ lost = {}

-----------------------------------------------------------------------------
(* alloc_with_host_backing: a slot of each pool, or none of either.        *)
AllocWithHostBacking(s) ==
    /\ NeedsNewChunk(s) /\ ~unwritten[s] /\ SeqLen(s) < MaxLen
    /\ freeV # <<>> /\ freeH # <<>> /\ Live # Handles
    /\ ref' = [ref EXCEPT ![FreshHandle] = VramChunk(AllocSlot(freeV), AllocSlot(freeH), 0)]
    /\ chunks' = [chunks EXCEPT ![s] = Append(@, FreshHandle)]
    /\ freeV' = AfterAlloc(freeV)
    /\ freeH' = AfterAlloc(freeH)
    /\ UNCHANGED <<unwritten, lost, memVars, callerVars>>

(* append_token.  A new chunk comes from VRAM without host backing, or, the *)
(* VRAM pool being empty, from the host pool; with both empty it is an      *)
(* error and nothing changes.  The caller has made a shared chunk exclusive *)
(* before: the length is a field of the shared ChunkRef.                    *)
AppendToken(s) ==
    /\ ~unwritten[s] /\ SeqLen(s) < MaxLen
    /\ \/ /\ ~NeedsNewChunk(s) /\ StrongCount(LastChunk(s)) = 1
          /\ ref' = [ref EXCEPT ![LastChunk(s)].len = @ + 1]
          /\ UNCHANGED <<chunks, freeV, freeH>>
       \/ /\ NeedsNewChunk(s) /\ freeV # <<>> /\ Live # Handles
          /\ ref' = [ref EXCEPT ![FreshHandle] = VramChunk(AllocSlot(freeV), NoHost, 1)]
          /\ chunks' = [chunks EXCEPT ![s] = Append(@, FreshHandle)]
          /\ freeV' = AfterAlloc(freeV)
          /\ UNCHANGED freeH
       \/ /\ NeedsNewChunk(s) /\ freeV = <<>> /\ freeH # <<>> /\ Live # Handles
          /\ ref' = [ref EXCEPT ![FreshHandle] = [HostChunk(AllocSlot(freeH)) EXCEPT !.len = 1]]
          /\ chunks' = [chunks EXCEPT ![s] = Append(@, FreshHandle)]
          /\ freeH' = AfterAlloc(freeH)
          /\ UNCHANGED freeV
    /\ unwritten' = [unwritten EXCEPT ![s] = TRUE]
    /\ UNCHANGED <<lost, memVars, callerVars>>

(* A second sequence starts from the chunks of the first: Arc clones.      *)
Fork(s, t) ==
    /\ chunks[s] # <<>> /\ ~unwritten[s]
    /\ chunks[t] = <<>>
    /\ chunks' = [chunks EXCEPT ![t] = chunks[s]]
    /\ said' = [said EXCEPT ![t] = said[s]]
    /\ UNCHANGED <<ref, unwritten, poolVars, memVars, evicting, resets, conv>>

(* make_exclusive on the chunk the caller is about to write.  An unshared  *)
(* handle is returned as it is.  A shared one gets a slot and, unless it   *)
(* is empty, a device-to-device copy of the whole chunk.  The function     *)
(* reads vram_slot without a look at the tier, so the caller passes only   *)
(* VRAM chunks.  When the copy cannot be issued, `?` returns with the slot *)
(* already taken.                                                          *)
MakeExclusive(s) ==
    /\ chunks[s] # <<>> /\ ~unwritten[s]
    /\ LET old == LastChunk(s)
           slot == AllocSlot(freeV)
           copies == IF ref[old].len = 0 THEN <<>>
                     ELSE <<[kind |-> "D2D", src |-> ref[old].vram, dst |-> slot]>>
       IN  /\ ref[old].tier = "Vram" /\ StrongCount(old) > 1
           /\ freeV # <<>>
           /\ freeV' = AfterAlloc(freeV)
           /\ \/ /\ Live # Handles
                 /\ ref' = [ref EXCEPT ![FreshHandle] = VramChunk(slot, NoHost, ref[old].len)]
                 /\ chunks' = [chunks EXCEPT ![s] = Front(@) \o <<FreshHandle>>]
                 /\ sdma' = sdma \o copies
                 /\ UNCHANGED lost
              \/ /\ copies # <<>> /\ Cardinality(lost) < MaxFaults
                 /\ lost' = lost \cup {slot}
                 /\ UNCHANGED <<ref, chunks, sdma>>
    /\ UNCHANGED <<unwritten, freeH, vram, host, callerVars>>

(* promote_chunk: the handle points to its new slot before the copy has    *)
(* run.  Without a free slot, or when the copy cannot be issued, nothing   *)
(* changes.                                                                *)
Promote(h) ==
    /\ h \in Live
    /\ ref[h].tier = "HostPinned" /\ ref[h].host # NoHost
    /\ freeV # <<>>
    /\ ref' = [ref EXCEPT ![h].vram = AllocSlot(freeV), ![h].tier = "Vram"]
    /\ freeV' = AfterAlloc(freeV)
    /\ sdma' = Append(sdma, [kind |-> "H2D", src |-> ref[h].host, dst |-> AllocSlot(freeV)])
    /\ UNCHANGED <<chunks, unwritten, freeH, lost, vram, host, callerVars>>

\* Mistake: a chunk is evicted between the append and the write of its last token.
MutEvictable(h) ==
    /\ h \in Live \ evicting
    /\ ref[h].tier = "Vram" /\ ref[h].host # NoHost
    /\ ref[h].len = ChunkTokens

(* What evict_chunk asserts and requires: a sealed VRAM chunk with a host  *)
(* slot.  The length counts a token from its append on, so the caller does *)
(* not evict in the middle of a step of an owner.                          *)
Evictable(h) ==
    /\ h \in Live \ evicting
    /\ ref[h].tier = "Vram" /\ ref[h].host # NoHost
    /\ ref[h].len = ChunkTokens
    /\ \A s \in Seqs : unwritten[s] => LastChunk(s) # h

D2HCopy(h) == [kind |-> "D2H", src |-> ref[h].vram, dst |-> ref[h].host]

\* Mistake: the flush does not wait.
MutFlushTierOps == TRUE

(* flush_tier_ops: hipStreamSynchronize returns when the stream is empty.  *)
FlushTierOps == sdma = <<>>

(* evict_chunk issues the copy and leaves the slot to the caller.          *)
Evict(h) ==
    /\ Evictable(h)
    /\ sdma' = Append(sdma, D2HCopy(h))
    /\ evicting' = evicting \cup {h}
    /\ UNCHANGED <<handleVars, poolVars, vram, host, resets, conv, said>>

Freed(h) == [ref EXCEPT ![h].vram = NoVram, ![h].tier = "HostPinned"]

(* The caller's second phase, and the end of evict_chunk_and_free: after   *)
(* the flush the slot is freed and the tier flipped.                       *)
FreeEvicted(h) ==
    /\ h \in evicting
    /\ FlushTierOps
    /\ freeV' = Append(freeV, ref[h].vram)
    /\ ref' = Freed(h)
    /\ evicting' = evicting \ {h}
    /\ UNCHANGED <<chunks, unwritten, freeH, lost, memVars, resets, conv, said>>

(* evict_chunk_and_free: issue, synchronise, free and flip in one call.     *)
(* The copies issued before it run first, while the host waits.            *)
EvictAndFree(h) ==
    /\ Evictable(h)
    /\ FlushTierOps
    /\ host' = [host EXCEPT ![ref[h].host] = vram[ref[h].vram]]
    /\ freeV' = Append(freeV, ref[h].vram)
    /\ ref' = Freed(h)
    /\ UNCHANGED <<chunks, unwritten, freeH, lost, vram, sdma, callerVars>>

(* The members of a set that are in a list, in the order of the list.      *)
Places(list, S) == {i \in 1..Len(list) : list[i] \in S}
Rank(places, i) == Cardinality({j \in places : j <= i})
InListOrder(list, S) ==
    [k \in 1..Cardinality(Places(list, S)) |->
        list[CHOOSE i \in Places(list, S) : Rank(Places(list, S), i) = k]]

\* Mistake: shared chunks are freed too.
MutSoleOwned(s) == ToSet(chunks[s])

(* The chunks reset frees: those no other sequence holds.                  *)
SoleOwned(s) == {h \in ToSet(chunks[s]) : StrongCount(h) = 1}

(* The ChunkRefs that end with the list.                                   *)
Dropped(s) == {h \in Handles : Owners(h) = {s}}

(* SequenceState::reset with the host pool at hand: VRAM slots of VRAM     *)
(* chunks and every host slot go back, in list order.                      *)
Reset(s) ==
    /\ chunks[s] # <<>> /\ resets < MaxResets
    /\ LET inVram == InListOrder(chunks[s], {h \in SoleOwned(s) : ref[h].tier = "Vram"})
           backed == InListOrder(chunks[s], {h \in SoleOwned(s) : ref[h].host # NoHost})
       IN  /\ freeV' = freeV \o [i \in 1..Len(inVram) |-> ref[inVram[i]].vram]
           /\ freeH' = freeH \o [i \in 1..Len(backed) |-> ref[backed[i]].host]
    /\ evicting' = evicting \ Dropped(s)
    /\ ref' = [h \in Handles |-> IF h \in Dropped(s) THEN HostChunk(NoHost) ELSE ref[h]]
    /\ chunks' = [chunks EXCEPT ![s] = <<>>]
    /\ unwritten' = [unwritten EXCEPT ![s] = FALSE]
    /\ resets' = resets + 1
    /\ conv' = [conv EXCEPT ![s] = resets + 1]
    /\ said' = [said EXCEPT ![s] = <<>>]
    /\ UNCHANGED <<lost, memVars>>

(* The caller flushes before it writes a page table with slots that a copy *)
(* of this step is still filling.                                          *)
MustFlush(s) ==
    \E k \in 1..Len(sdma) :
        \/ FlushAfterCow /\ sdma[k].kind = "D2D"
        \/ /\ sdma[k].kind # "D2H"
           /\ \E i \in 1..Len(chunks[s]) : ref[chunks[s][i]].vram = sdma[k].dst

(* What attention reads through the page table: the first n tokens.        *)
Attended(s, n) ==
    [i \in 1..n |-> vram[ref[ChunkOf(s, i)].vram][Offset(i)]]

(* The step: with every chunk in VRAM (slot_index) the page table is       *)
(* written and the worker stores the new token and attends.                *)
Dispatch(s) ==
    /\ unwritten[s]
    /\ \A i \in 1..Len(chunks[s]) : ref[chunks[s][i]].tier = "Vram"
    /\ MustFlush(s) => FlushTierOps
    /\ LET new == <<s, conv[s]>>
           last == ref[LastChunk(s)]
       IN  /\ vram' = [vram EXCEPT ![last.vram][last.len] = new]
           /\ said' = [said EXCEPT ![s] = Append(@, new)]
    /\ unwritten' = [unwritten EXCEPT ![s] = FALSE]
    /\ UNCHANGED <<ref, chunks, poolVars, host, sdma, evicting, resets, conv>>

(* The SDMA engine performs the oldest copy.                               *)
Source(c) == IF c.kind = "H2D" THEN host[c.src] ELSE vram[c.src]

RunCopy ==
    /\ sdma # <<>>
    /\ LET c == Head(sdma)
       IN  IF c.kind = "D2H"
           THEN host' = [host EXCEPT ![c.dst] = Source(c)] /\ UNCHANGED vram
           ELSE vram' = [vram EXCEPT ![c.dst] = Source(c)] /\ UNCHANGED host
    /\ sdma' = Tail(sdma)
    /\ UNCHANGED <<handleVars, poolVars, callerVars>>

Next ==
    \/ \E s \in Seqs :
          \/ AllocWithHostBacking(s) \/ AppendToken(s) \/ MakeExclusive(s)
          \/ Reset(s) \/ Dispatch(s)
          \/ \E t \in Seqs \ {s} : Fork(s, t)
    \/ \E h \in Handles :
          \/ Promote(h) \/ Evict(h) \/ FreeEvicted(h) \/ EvictAndFree(h)
    \/ RunCopy

Spec == Init /\ [][Next]_vars

-----------------------------------------------------------------------------
(* Every variable has its type; no length passes ChunkTokens.              *)
TypeOK ==
    /\ ref \in [Handles -> ChunkRef]
    /\ chunks \in [Seqs -> Seq(Handles)]
    /\ unwritten \in [Seqs -> BOOLEAN]
    /\ freeV \in Seq(VramSlots) /\ freeH \in Seq(HostSlots)
    /\ vram \in [VramSlots -> Content] /\ host \in [HostSlots -> Content]
    /\ sdma \in Seq(Copy)
    /\ evicting \subseteq Live
    /\ resets \in 0..MaxResets
    /\ conv \in [Seqs -> 0..MaxResets]
    /\ said \in [Seqs -> Seq(Tokens)]
    /\ lost \subseteq VramSlots

(* Every slot of both pools is at any time exactly one of: on the free     *)
(* list once, held by one live handle, or lost to a failed copy-on-write.  *)
(* Sharing, tier moves and resets by any owner in any order neither free a *)
(* slot twice (the assertion of PageAllocator::free) nor drop one.         *)
SlotsAccountedFor ==
    /\ IsInjective(freeV) /\ IsInjective(freeH)
    /\ \A v \in VramSlots :
          (IF v \in ToSet(freeV) THEN 1 ELSE 0) + (IF v \in lost THEN 1 ELSE 0)
            + Cardinality({h \in Live : ref[h].vram = v}) = 1
    /\ \A n \in HostSlots :
          (IF n \in ToSet(freeH) THEN 1 ELSE 0)
            + Cardinality({h \in Live : ref[h].host = n}) = 1

(* Whenever the stream is idle, every token a sequence has written lies in *)
(* the pool its chunk's tier names: no copy has lost its source to another *)
(* owner of the slot, no eviction misses a token, and no sequence has      *)
(* written into a chunk another one reads.  The stream can run dry in any  *)
(* state, so this is about every copy in flight.                           *)
EveryTokenHasAHome ==
    sdma = <<>> =>
        \A s \in Seqs : \A i \in 1..Len(said[s]) :
            LET c == ref[ChunkOf(s, i)]
                data == IF c.tier = "Vram" THEN vram[c.vram] ELSE host[c.host]
            IN  data[Offset(i)] = said[s][i]

(* A dispatched step attends to its own conversation and nothing else: the *)
(* page table is never written with a slot that a promotion or a           *)
(* copy-on-write is still filling (contract 6 of promote_chunk).           *)
DispatchReadsConversation ==
    [][\A s \in Seqs : Dispatch(s) => Attended(s, Len(said[s])) = said[s]]_vars

-----------------------------------------------------------------------------
(* The inductive invariant                                                 *)

(* A list has full chunks but for the last one and holds SeqLen tokens; a  *)
(* token waiting for its dispatch is in a chunk nobody shares.             *)
ListOK(s) ==
    /\ IsInjective(chunks[s])
    /\ \A i \in 1..(Len(chunks[s]) - 1) : ref[chunks[s][i]].len = ChunkTokens
    /\ chunks[s] = <<>> => SeqLen(s) = 0
    /\ chunks[s] # <<>> =>
          SeqLen(s) = (Len(chunks[s]) - 1) * ChunkTokens + ref[LastChunk(s)].len
    /\ unwritten[s] => /\ chunks[s] # <<>> /\ Owners(LastChunk(s)) = {s}
                       /\ ref[LastChunk(s)].len > 0
ListInv == \A s \in Seqs : ListOK(s)

(* The tier says which slots a ChunkRef has.                               *)
TierInv ==
    \A h \in Live : IF ref[h].tier = "Vram" THEN ref[h].vram # NoVram
                                            ELSE ref[h].vram = NoVram /\ ref[h].host # NoHost

(* A chunk being evicted is full, written and has both slots.              *)
EvictInv ==
    \A h \in evicting :
        /\ ref[h].tier = "Vram" /\ ref[h].host # NoHost /\ ref[h].len = ChunkTokens
        /\ \A s \in Seqs : unwritten[s] => LastChunk(s) # h

(* The slots of a pool are free, out of reach or held, each once.          *)
VramOf == [h \in Live |-> ref[h].vram]
HostOf == [h \in Live |-> ref[h].host]
Accounted(free, out, held, cap) ==
    /\ IsInjective(free)
    /\ ToSet(free) \cap out = {}
    /\ \A h \in DOMAIN held : held[h] \notin ToSet(free) \cup out
    /\ \A g, h \in DOMAIN held : g # h /\ held[g] = held[h] => held[h] = cap
    /\ \A v \in 0..(cap - 1) :
          v \in ToSet(free) \/ v \in out \/ \E h \in DOMAIN held : held[h] = v
PoolInv == /\ Accounted(freeV, lost, VramOf, VramCap)
           /\ Accounted(freeH, {}, HostOf, HostCap)

OwnershipInv == TypeOK /\ ListInv /\ TierInv /\ EvictInv /\ PoolInv

(* The copies in flight that fill a slot.                                  *)
FillersV(v) == {k \in 1..Len(sdma) : sdma[k].kind # "D2H" /\ sdma[k].dst = v}
FillersH(n) == {k \in 1..Len(sdma) : sdma[k].kind = "D2H" /\ sdma[k].dst = n}

(* With p[j] the tokens that copy j is known to bring: what a place that   *)
(* holds `now` and is filled by some copies will hold when copy k is about *)
(* to run.                                                                 *)
Has(now, fillers, p, k, o, tok) ==
    \/ now = tok /\ \A j \in fillers : j >= k
    \/ \E j \in fillers : /\ j < k /\ p[j][o] = tok
                          /\ \A i \in fillers : i < k => i <= j
VramHas(p, k, v, o, tok) == Has(vram[v][o], FillersV(v), p, k, o, tok)
HostHas(p, k, n, o, tok) == Has(host[n][o], FillersH(n), p, k, o, tok)

(* Nothing but an earlier copy can change the source of a copy before it   *)
(* runs: a promotion's host slot, a copy-on-write's VRAM slot, and an      *)
(* eviction's as long as the chunk is being evicted.                       *)
KeptAt(p, k, o) ==
    LET c == sdma[k] IN
    p[k][o] # NoToken =>
        /\ c.kind = "H2D" => host[c.src][o] = p[k][o] /\ \A j \in FillersH(c.src) : j >= k
        /\ c.kind # "H2D" => VramHas(p, k, c.src, o, p[k][o])
        /\ c.kind = "D2H" => \E h \in evicting : ref[h].vram = c.src /\ ref[h].host = c.dst
Kept(p) == \A k \in 1..Len(sdma), o \in 1..ChunkTokens : KeptAt(p, k, o)

(* Once the copies have run the tokens are at home; those of a chunk being *)
(* evicted are in both of its slots.                                       *)
HomeAt(p, h, o, tok) ==
    /\ ref[h].tier = "Vram" => VramHas(p, Len(sdma) + 1, ref[h].vram, o, tok)
    /\ ref[h].tier # "Vram" => host[ref[h].host][o] = tok /\ FillersH(ref[h].host) = {}
    /\ h \in evicting => HostHas(p, Len(sdma) + 1, ref[h].host, o, tok)
AtHome(p) == \A s \in Seqs : \A i \in 1..Len(said[s]) :
                 HomeAt(p, ChunkOf(s, i), Offset(i), said[s][i])

ContentInv == \E p \in Seq(Content) : Len(p) = Len(sdma) /\ Kept(p) /\ AtHome(p)

TiersInv == OwnershipInv /\ ContentInv
=============================================================================
