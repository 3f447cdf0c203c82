------------------------------- MODULE MemPool -------------------------------
(***************************************************************************)
(* The block allocator of the run time system, rts/src/xjr_mp.c.           *)
(*                                                                         *)
(* A pool is a sequence of sub pools of equal size.  A sub pool is a chain *)
(* of blocks, each a header followed by its content, closed by a final     *)
(* block at the highest header position.  The model keeps a chain as the   *)
(* sequence of its blocks in link order: the field offset_next of a block  *)
(* is the offset of its successor in that sequence.  A block is known to   *)
(* the rest of the run time system by its urid, never by its place.        *)
(*                                                                         *)
(* Each operation of the pool is one action: the run time system is single *)
(* threaded and no operation of the pool calls back into it.               *)
(***************************************************************************)
EXTENDS Integers, Sequences, FiniteSets, Functions, FiniteSetsExt, SequencesExt

CONSTANTS
  SubSize,   \* XJR_SUB_MP_SIZE
  MaxPools,  \* XJR_SUB_MP_MAX_NUM
  Hdr,       \* XJR_MP_BLOCK_HEADER_SIZE
  Invalid,   \* XJR_URID_INVALID: the urids are 0 .. Invalid - 1
  Sizes,     \* the sizes that are asked for
  Contents   \* what a client writes in a block

ASSUME PoolAssumption ==
  /\ Hdr \in Nat \ {0}
  /\ SubSize \in Nat /\ SubSize > 2 * Hdr
  /\ MaxPools \in Nat \ {0}
  /\ Invalid \in Nat \ {0}
  /\ Sizes \subseteq Nat
  /\ Contents # {}

VARIABLES
  noalign,   \* XJR_MP_OPTS_NOALIGN is set in opts, as the virtual machine has it
  pools,     \* the allocated sub pools, in array order
  blocks,    \* num_allocated_blocks
  capacity,  \* size_capacity, as last updated
  usage,     \* size_usage, as last updated
  peak       \* the three peaks the profile reports

vars == <<noalign, pools, blocks, capacity, usage, peak>>

Urids == 0 .. Invalid - 1
Final == SubSize - Hdr       \* where every sub pool keeps its final block

(***************************************************************************)
(* A block.  "bit" is the one header bit that both the managed and the     *)
(* marked macros read and write.                                           *)
(***************************************************************************)
Block == [off: 0 .. Final, urid: Urids, bit: BOOLEAN, size: 0 .. SubSize, data: Contents]

(* A sub pool; "base" stands for the address its memory was given.         *)
SubPool == [base: 1 .. MaxPools, free: 0 .. Final, chain: Seq(Block)]

Span(b) == b.size + Hdr      \* the bytes a block takes from its sub pool

----------------------------------------------------------------------------
(* Sub pools                                                               *)

(* xjr_mp_sub_new: the only block is the final one.                        *)
SubNew(base) == [base |-> base, free |-> Final, chain |-> <<>>]

(* xjr_sub_pool_is_empty: the first block is the final one.                *)
IsEmpty(sp) == sp.chain = <<>>

(* The offset the i-th block of a chain links to.                          *)
OffsetNext(chain, i) == IF i = Len(chain) THEN Final ELSE chain[i + 1].off

(* offset_begin *)
OffsetBegin(sp) == IF IsEmpty(sp) THEN Final ELSE sp.chain[1].off

UridsOf(sp) == {b.urid : b \in Range(sp.chain)}

(* Place of a urid in a chain: the first match of every search by urid.    *)
Find(sp, u) == CHOOSE i \in DOMAIN sp.chain :
                 /\ sp.chain[i].urid = u
                 /\ \A j \in 1 .. i - 1 : sp.chain[j].urid # u

(* The free bytes between the i-th block and the block it links to.        *)
Hole(chain, i) == OffsetNext(chain, i) - (chain[i].off + Span(chain[i]))

(* The sums of the first numbers of a sequence, from none to all of them.  *)
Sums(s) ==
  LET sum[n \in 0 .. Len(s)] == IF n = 0 THEN 0 ELSE sum[n - 1] + s[n]
  IN  sum

SumOf(s) == Sums(s)[Len(s)]

Spans(chain) == [i \in DOMAIN chain |-> Span(chain[i])]

CompactFromBegin(sp) ==
  LET before == Sums(Spans(sp.chain))
  IN  [sp EXCEPT !.chain =
         [i \in DOMAIN @ |-> [@[i] EXCEPT !.off = OffsetBegin(sp) + before[i - 1]]]]

(* xjr_sub_pool_compact: slide every block down to the end of the one      *)
(* before it.                                                              *)
Compact(sp) ==
  LET before == Sums(Spans(sp.chain))
  IN  [sp EXCEPT !.chain = [i \in DOMAIN @ |-> [@[i] EXCEPT !.off = before[i - 1]]]]

(* xjr_sub_pool_allocate_space: the blocks followed by a large enough      *)
(* hole; the code takes the first.                                         *)
Roomy(sp, size) == {i \in DOMAIN sp.chain : Hole(sp.chain, i) >= size + Hdr}

(* Put a block in the chain at place i, which must be a free range.        *)
PutBlock(sp, i, off, urid, bit, size, data) ==
  [sp EXCEPT !.chain = InsertAt(@, i, [off |-> off, urid |-> urid, bit |-> bit,
                                       size |-> size, data |-> data]),
             !.free = @ - (size + Hdr)]

FitsInFrontTight(sp, size) == IsEmpty(sp) \/ OffsetBegin(sp) >= size

(* The block in front of the chain serves an empty sub pool, or one whose  *)
(* first block leaves enough room before it.                               *)
FitsInFront(sp, size) == IsEmpty(sp) \/ OffsetBegin(sp) >= size + Hdr

CanPlaceAlways(sp, size) == FitsInFront(sp, size) \/ size >= 0

(* Whether xjr_sub_pool_malloc_with_urid finds a place.  With aligning,    *)
(* allocate_space compacts and searches again until it does.               *)
CanPlace(sp, size) ==
  FitsInFront(sp, size) \/ Roomy(sp, size) # {} \/ ~noalign

(* Behind the first block that is followed by a large enough hole.         *)
PutBehind(sp, urid, bit, size, data) ==
  LET i == Min(Roomy(sp, size))
      b == sp.chain[i]
  IN  PutBlock(sp, i + 1, b.off + Span(b), urid, bit, size, data)

(* xjr_sub_pool_malloc_with_urid, when CanPlace.                           *)
MallocWithUrid(sp, urid, bit, size, data) ==
  IF FitsInFront(sp, size) THEN PutBlock(sp, 1, 0, urid, bit, size, data)
  ELSE IF Roomy(sp, size) # {} THEN PutBehind(sp, urid, bit, size, data)
  ELSE PutBehind(Compact(sp), urid, bit, size, data)

SubFreeContentOnly(sp, u) ==
  LET i == Find(sp, u)
  IN  [sp EXCEPT !.chain = RemoveAt(@, i), !.free = @ + sp.chain[i].size]

(* xjr_sub_pool_free, when the urid is in the sub pool.                    *)
SubFree(sp, u) ==
  LET i == Find(sp, u)
  IN  [sp EXCEPT !.chain = RemoveAt(@, i), !.free = @ + Span(sp.chain[i])]

----------------------------------------------------------------------------
(* The pool                                                                *)

LiveUrids(ps) == UNION {UridsOf(ps[k]) : k \in DOMAIN ps}

(* xjr_mp_size_free and xjr_mp_size_capacity *)
SizeFree(ps) == SumOf([k \in DOMAIN ps |-> ps[k].free])
SizeCapacity(ps) == Len(ps) * SubSize

(* xjr_mp_allocate_urid: the smallest urid that no block has.              *)
AllocateUrid(ps) ==
  IF Urids \subseteq LiveUrids(ps) THEN Invalid ELSE Min(Urids \ LiveUrids(ps))

CandidatesStrict(ps, size) ==
  {k \in DOMAIN ps : Hdr + size < ps[k].free /\ CanPlace(ps[k], size)}

(* The sub pools xjr_mp_malloc_in_single_sub_pool can serve the request in.*)
Candidates(ps, size) ==
  {k \in DOMAIN ps : Hdr + size <= ps[k].free /\ CanPlace(ps[k], size)}

CanMalloc(ps, size) == AllocateUrid(ps) # Invalid /\ Candidates(ps, size) # {}

(* xjr_mp_malloc_in_single_sub_pool: the first sub pool that can.          *)
MallocInSingle(ps, size, managed, data) ==
  LET k == Min(Candidates(ps, size))
  IN  [ps EXCEPT ![k] = MallocWithUrid(@, AllocateUrid(ps), managed, size, data)]

(* xjr_mp_align_blocks.  The first block of a later sub pool that fits the *)
(* free space of sub pool dst, and the move that keeps its urid, bit and   *)
(* content.                                                                *)
Fitable(ps, dst, src) ==
  {i \in DOMAIN ps[src].chain :
     ps[dst].free > Hdr /\ ps[src].chain[i].size <= ps[dst].free - Hdr}

MoveBlockKeepSource(ps, dst, src) ==
  LET b == ps[src].chain[Min(Fitable(ps, dst, src))]
  IN  [ps EXCEPT ![dst] = MallocWithUrid(@, b.urid, b.bit, b.size, b.data)]

MoveBlockUnmanaged(ps, dst, src) ==
  LET b == ps[src].chain[Min(Fitable(ps, dst, src))]
  IN  [ps EXCEPT ![dst] = MallocWithUrid(@, b.urid, FALSE, b.size, b.data),
                 ![src] = SubFree(@, b.urid)]

MoveBlock(ps, dst, src) ==
  LET b == ps[src].chain[Min(Fitable(ps, dst, src))]
  IN  [ps EXCEPT ![dst] = MallocWithUrid(@, b.urid, b.bit, b.size, b.data),
                 ![src] = SubFree(@, b.urid)]

(* Move blocks from src to dst for as long as one fits.                    *)
Drain(ps, dst, src) ==
  LET after[n \in 0 .. Len(ps[src].chain)] ==
        IF n = 0 THEN ps
        ELSE LET now == after[n - 1]
             IN  IF Fitable(now, dst, src) = {} THEN now ELSE MoveBlock(now, dst, src)
  IN  after[Len(ps[src].chain)]

(* Fill sub pool dst from each later one in turn.                          *)
FillFromLater(ps, dst) ==
  LET after[src \in 0 .. Len(ps)] ==
        IF src <= dst THEN ps ELSE Drain(after[src - 1], dst, src)
  IN  after[Len(ps)]

AlignBlocks(ps) ==
  LET after[dst \in 0 .. Len(ps)] ==
        IF dst = 0 THEN [k \in DOMAIN ps |-> Compact(ps[k])]
        ELSE FillFromLater(after[dst - 1], dst)
  IN  after[Len(ps)]

FreshBase(ps) == Min((1 .. MaxPools) \ {ps[k].base : k \in DOMAIN ps})

(* xjr_mp_extend; the heap callback may have no memory to grant.           *)
Extend(ps, granted) ==
  IF Len(ps) < MaxPools /\ granted THEN Append(ps, SubNew(FreshBase(ps))) ELSE ps

(* xjr_mp_trim_empty_sub_pools *)
NonEmpty(ps) ==
  LET kept[n \in 0 .. Len(ps)] ==
        IF n = 0 THEN <<>>
        ELSE IF IsEmpty(ps[n]) THEN kept[n - 1] ELSE Append(kept[n - 1], ps[n])
  IN  kept[Len(ps)]

TrimEmpty(ps, granted) ==
  LET kept == NonEmpty(ps)
  IN  CASE Len(ps) = 1 -> ps
        [] Len(ps) # 1 /\ kept # <<>> -> kept
        [] OTHER -> IF granted THEN <<SubNew(1)>> ELSE <<>>

----------------------------------------------------------------------------
(* The operations                                                          *)

(* size_capacity and size_usage are computed anew; the peaks only where    *)
(* xjr_mp_malloc_opt does it.                                              *)
UpdateInfo(ps) ==
  /\ capacity' = SizeCapacity(ps)
  /\ usage' = SizeCapacity(ps) - SizeFree(ps)

(* xjr_mp_malloc_opt tries the pool as it is, then aligned, then extended: *)
(* the first of these that can serve the request, else the last.           *)
ServedIn(size, granted) ==
  LET aligned == IF ~noalign /\ Len(pools) > 1 /\ SizeFree(pools) >= size + Hdr
                 THEN AlignBlocks(pools) ELSE pools
  IN  CASE CanMalloc(pools, size) -> pools
        [] ~CanMalloc(pools, size) /\ CanMalloc(aligned, size) -> aligned
        [] OTHER -> Extend(aligned, granted)

AllocatedNoPeaks(ps) ==
  /\ pools' = ps
  /\ blocks' = blocks + 1
  /\ UpdateInfo(ps)
  /\ peak' = [peak EXCEPT !.blocks = Max({@, blocks'})]

Allocated(ps) ==
  /\ pools' = ps
  /\ blocks' = blocks + 1
  /\ UpdateInfo(ps)
  /\ peak' = [capacity |-> Max({peak.capacity, capacity'}),
              usage |-> Max({peak.usage, usage'}),
              blocks |-> Max({peak.blocks, blocks'})]

(* xjr_mp_malloc and xjr_mp_malloc_managed.  The content of a new block is *)
(* what was left in its memory, or what the client writes there at once.   *)
Malloc(size, managed, data, granted) ==
  LET ps == ServedIn(size, granted)
  IN  /\ size + Hdr <= SubSize
      /\ IF CanMalloc(ps, size)
         THEN Allocated(MallocInSingle(ps, size, managed, data))
         ELSE pools' = ps /\ UNCHANGED <<blocks, capacity, usage, peak>>

(* xjr_mp_free: the first sub pool that has the urid; nothing if none has. *)
Free(u) ==
  /\ u \in LiveUrids(pools)
  /\ LET k  == Min({j \in DOMAIN pools : u \in UridsOf(pools[j])})
         ps == [pools EXCEPT ![k] = SubFree(@, u)]
     IN  /\ pools' = ps
         /\ blocks' = blocks - 1
         /\ UpdateInfo(ps)
  /\ UNCHANGED peak

MapChains(ps, op(_)) ==
  [k \in DOMAIN ps |-> [ps[k] EXCEPT !.chain = [i \in DOMAIN @ |-> op(@[i])]]]

(* The client writes through the pointer xjr_mp_get_ptr gives it.          *)
Write(u, data) ==
  /\ u \in LiveUrids(pools)
  /\ pools' = MapChains(pools, LAMBDA b : IF b.urid = u THEN [b EXCEPT !.data = data] ELSE b)
  /\ UNCHANGED <<blocks, capacity, usage, peak>>

(* xjr_mp_clear *)
Clear ==
  /\ pools' = MapChains(pools, LAMBDA b : [b EXCEPT !.bit = FALSE])
  /\ UNCHANGED <<blocks, capacity, usage, peak>>

(* xjr_mp_mark *)
Mark(u) ==
  /\ u \in LiveUrids(pools)
  /\ pools' = MapChains(pools, LAMBDA b : IF b.urid = u THEN [b EXCEPT !.bit = TRUE] ELSE b)
  /\ UNCHANGED <<blocks, capacity, usage, peak>>

(* xjr_sub_pool_sweep frees, by urid, each block that is not marked.       *)
SweepSub(sp) ==
  LET after[n \in 0 .. Len(sp.chain)] ==
        IF n = 0 THEN sp
        ELSE IF sp.chain[n].bit THEN after[n - 1] ELSE SubFree(after[n - 1], sp.chain[n].urid)
  IN  after[Len(sp.chain)]

NumberOfBlocks(ps) == SumOf([k \in DOMAIN ps |-> Len(ps[k].chain)])

SweepTrimLast(granted) ==
  LET swept == [k \in DOMAIN pools |-> SweepSub(pools[k])]
  IN  /\ pools' = TrimEmpty(swept, granted)
      /\ blocks' = blocks - (NumberOfBlocks(pools) - NumberOfBlocks(swept))
      /\ UpdateInfo(swept)
      /\ UNCHANGED peak

(* xjr_mp_sweep *)
Sweep(granted) ==
  LET swept == [k \in DOMAIN pools |-> SweepSub(pools[k])]
      ps    == TrimEmpty(swept, granted)
  IN  /\ pools' = ps
      /\ blocks' = blocks - (NumberOfBlocks(pools) - NumberOfBlocks(swept))
      /\ UpdateInfo(ps)
      /\ UNCHANGED peak

(* xjr_mp_new_opt *)
Init ==
  /\ noalign \in BOOLEAN
  /\ pools = <<SubNew(1)>>
  /\ blocks = 0
  /\ capacity = SubSize
  /\ usage = SubSize - Final
  /\ peak = [capacity |-> SubSize, usage |-> SubSize - Final, blocks |-> 0]

Operation ==
  \/ \E size \in Sizes, managed \in BOOLEAN, data \in Contents, granted \in BOOLEAN :
       Malloc(size, managed, data, granted)
  \/ \E u \in Urids : Free(u) \/ Mark(u) \/ \E data \in Contents : Write(u, data)
  \/ Clear
  \/ \E granted \in BOOLEAN : Sweep(granted)

Next == Operation /\ UNCHANGED noalign

Spec == Init /\ [][Next]_vars

----------------------------------------------------------------------------
(* Properties                                                              *)

TypeOK ==
  /\ noalign \in BOOLEAN
  /\ pools \in Seq(SubPool) /\ Len(pools) <= MaxPools
  /\ blocks \in Nat
  /\ capacity \in Nat
  /\ usage \in Nat
  /\ peak \in [capacity: Nat, usage: Nat, blocks: Nat]

(* No block reaches into the block it links to, nor the last one into the  *)
(* final block: the first-fit search, the insertion in front and the       *)
(* compaction of xjr_sub_pool_* never make two blocks share memory.        *)
BlocksDisjoint ==
  \A k \in DOMAIN pools :
    LET chain == pools[k].chain
    IN  \A i \in DOMAIN chain : Hole(chain, i) >= 0

(* size_free is what the live blocks leave: every malloc, move, free and   *)
(* sweep keeps the books that malloc_in_single_sub_pool relies on.         *)
FreeExact ==
  \A k \in DOMAIN pools :
    pools[k].free = Final - SumOf(Spans(pools[k].chain))

(* No two blocks, of the same or of different sub pools, have the same     *)
(* urid, also after xjr_mp_align_blocks has copied and removed blocks.     *)
UridsDistinct ==
  \A k, l \in DOMAIN pools :
    \A i \in DOMAIN pools[k].chain, j \in DOMAIN pools[l].chain :
      pools[k].chain[i].urid = pools[l].chain[j].urid => k = l /\ i = j

(* The endless "compact then retry" of xjr_sub_pool_allocate_space ends:   *)
(* once compacted, a sub pool whose size_free covers a request has a hole  *)
(* for it behind some block.                                               *)
RetryTerminates ==
  \A k \in DOMAIN pools : \A size \in 0 .. pools[k].free - Hdr :
    ~FitsInFront(pools[k], size) => Roomy(Compact(pools[k]), size) # {}

(* The last sub pools, which a refused request may have added: the code    *)
(* computes size_capacity and size_usage anew only when a request is       *)
(* served, and an empty sub pool is used up by its final block's header.   *)
Idle(ps, n) == \A k \in Len(ps) - n + 1 .. Len(ps) : IsEmpty(ps[k])

(* num_allocated_blocks agrees with the sub pools whenever no operation is *)
(* under way, size_capacity and size_usage too but for idle sub pools.     *)
InfoExact ==
  /\ blocks = NumberOfBlocks(pools)
  /\ \E n \in 0 .. Len(pools) :
       /\ Idle(pools, n)
       /\ capacity = SizeCapacity(pools) - n * SubSize
       /\ usage = SizeCapacity(pools) - SizeFree(pools) - n * Hdr

(* The peaks the profile prints are never below what the sub pools hold,   *)
(* idle ones aside: a free or a sweep counts these without a look at the   *)
(* peaks.                                                                  *)
PeaksHold ==
  /\ blocks <= peak.blocks
  /\ \E n \in 0 .. Len(pools) :
       /\ Idle(pools, n)
       /\ SizeCapacity(pools) - n * SubSize <= peak.capacity
       /\ SizeCapacity(pools) - SizeFree(pools) - n * Hdr <= peak.usage

(* Blocks keep apart, urids are unique, and the books of each sub pool and  *)
(* of the whole pool are what a walk over the chains finds.                *)
PoolSound ==
  TypeOK /\ BlocksDisjoint /\ UridsDistinct /\ FreeExact /\ InfoExact /\ PeaksHold

(* In an aligning pool a request that fits an empty sub pool is refused    *)
(* only when the urids are used up, or when no sub pool may be added and   *)
(* none has the free bytes, wherever they lie.                             *)
RefusedOnlyWhenFull ==
  \A size \in Sizes :
    LET ps == ServedIn(size, TRUE)
    IN  (size + 2 * Hdr <= SubSize /\ ~CanMalloc(ps, size) /\ ~noalign) =>
          \/ AllocateUrid(ps) = Invalid
          \/ Len(ps) = MaxPools /\ \A k \in DOMAIN ps : ps[k].free < size + Hdr

(* The attempts of a malloc come to an end, and end with a block whenever  *)
(* there is room for one.                                                  *)
ServedWhenRoom == RetryTerminates /\ RefusedOnlyWhenFull

Where(ps, u) ==
  LET k == CHOOSE j \in DOMAIN ps : u \in UridsOf(ps[j])
  IN  <<ps[k].base, ps[k].chain[Find(ps[k], u)].off>>

(* In a pool that does not align (the one the virtual machine uses) no     *)
(* operation moves a live block: the C pointers that callers keep across   *)
(* allocations stay good until the block is freed.                         *)
PointersStable ==
  [][noalign =>
       \A u \in LiveUrids(pools) \cap LiveUrids(pools') : Where(pools', u) = Where(pools, u)]_vars

(***************************************************************************)
(* The pool implements the map from urids to blocks: no operation on one   *)
(* block, no move and no change of the sub pools shows in another block,   *)
(* and a sweep removes exactly the blocks that are not marked.             *)
(***************************************************************************)
AllBlocks == UNION {Range(pools[k].chain) : k \in DOMAIN pools}

Contained ==
  LET all == AllBlocks
  IN  [u \in {b.urid : b \in all} |->
         LET b == CHOOSE c \in all : c.urid = u
         IN  [size |-> b.size, bit |-> b.bit, data |-> b.data]]

Map == INSTANCE Heap WITH heap <- Contained

ImplementsHeap == Map!HSpec

(* For TLC: the contents do not tell one from another.                     *)
Symmetry == Permutations(Contents)
=============================================================================
