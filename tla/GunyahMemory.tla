----------------------------- MODULE GunyahMemory -----------------------------
(* The memory of a virtual machine on the Gunyah hypervisor, as crosvm sets it  *)
(* up and changes it (hypervisor/src/gunyah).  The kernel knows memory as       *)
(* parcels, each under a label; crosvm calls the labels slots.                  *)
(*                                                                              *)
(* GunyahVm::new hands over every region of guest memory: shared, or lent to a  *)
(* protected machine.  A lent region may be prepared first (mthp.rs): pages are *)
(* collapsed into ever smaller folios, and the region is lent in chunks of one  *)
(* kind of backing.  After that, add_memory_region and remove_memory_region     *)
(* map further memory under slots of their own, reusing the slots given back.   *)
(*                                                                              *)
(* Sizes and addresses count collapse units (MAP_UNIT, 64 KB).                  *)
EXTENDS Integers, Sequences, FiniteSets

CONSTANTS
    GuestRegions,   \* the regions of guest memory: a sequence of [base, size, lend]
    Levels,         \* COLLAPSE_LEVELS: a sequence of [size, order], largest first
    LendChunk,      \* LEND_CHUNK_SIZE, in 2 MB chunks
    Modes,          \* what prepare_lend_mthp may be: "none", "single", "chunked"
    Windows,        \* the regions devices add: a set of [base, size]
    PageSize,       \* pagesize(), which sizes are rounded up to
    MaxChanges,     \* bound: regions added or removed
    Trusted         \* TRUE: the machine has a vm_id and a pas_id

ASSUME GuestOK ==
    /\ GuestRegions \in Seq([base : Nat, size : Nat \ {0}, lend : BOOLEAN])
    /\ \A i, j \in DOMAIN GuestRegions :
          i # j => \/ GuestRegions[i].base + GuestRegions[i].size <= GuestRegions[j].base
                   \/ GuestRegions[j].base + GuestRegions[j].size <= GuestRegions[i].base
ASSUME LevelsOK ==
    /\ Levels \in Seq([size : Nat \ {0}, order : Nat \ {0}]) /\ Len(Levels) > 0
    /\ \A i, j \in DOMAIN Levels : i < j => /\ Levels[i].order > Levels[j].order
                                            /\ Levels[i].size % Levels[j].size = 0
ASSUME OthersOK ==
    /\ LendChunk \in Nat \ {0}
    /\ Modes \subseteq {"none", "single", "chunked"}
    /\ Windows \subseteq [base : Nat, size : Nat]
    /\ PageSize \in Nat \ {0}
    /\ MaxChanges \in Nat
    /\ Trusted \in BOOLEAN

N == Len(GuestRegions)
ThpSize == Levels[1].size

VARIABLES
    phase,          \* "setup", "created", "running", "failed"
    mthp_mode,      \* prepare_lend_mthp of the machine's configuration
    current,        \* setup: the guest region being handed over
    order,          \* setup: order_map, unit -> order of its folio, 0 without one
    cursor,         \* setup: the level and the chunk the cascade tries next
    next_lend_slot, \* setup: the slot of the next further chunk
    parcels,        \* the kernel's parcels: label -> [base, size, lent]
    mem_regions,    \* slot -> [base, size]
    mem_slot_gaps,  \* slots given back
    auth,           \* the kernel was told the machine's authentication type
    changes,        \* regions added or removed so far
    unremoved       \* history: slots given back whose parcel the kernel kept

setupVars == <<mthp_mode, current, order, cursor, next_lend_slot>>
slotVars == <<mem_regions, mem_slot_gaps>>
vars == <<phase, mthp_mode, current, order, cursor, next_lend_slot, parcels, mem_regions, mem_slot_gaps,
          auth, changes, unremoved>>

EmptyFun == [x \in {} |-> x]
Without(f, x) == [y \in DOMAIN f \ {x} |-> f[y]]
With(f, x, val) == [y \in DOMAIN f \union {x} |-> IF y = x THEN val ELSE f[y]]

Units(size) == 0 .. size - 1
FreshMap(i) == [u \in IF i <= N THEN Units(GuestRegions[i].size) ELSE {} |-> 0]
FirstTry == [level |-> 1, chunk |-> 0]

Init ==
    /\ phase = "setup"
    /\ mthp_mode \in Modes
    /\ current = 1
    /\ order = FreshMap(1)
    /\ cursor = FirstTry
    /\ next_lend_slot = N
    /\ parcels = EmptyFun
    /\ mem_regions = EmptyFun
    /\ mem_slot_gaps = {}
    /\ auth = FALSE
    /\ changes = 0
    /\ unremoved = {}

-------------------------------------------------------------------------------
(* mthp.rs *)

Region == GuestRegions[current]

(* Phase 3 of prepare_lend_region is over. *)
Prepared == cursor.level > Len(Levels)

ChunkUnits(l, c) == {u \in DOMAIN order : u \div Levels[l].size = c}

(* The next try: the chunks of a level in turn, as many as fit, then the next   *)
(* level.                                                                       *)
Advance ==
    cursor' = IF cursor.chunk + 1 < Region.size \div Levels[cursor.level].size
              THEN [cursor EXCEPT !.chunk = @ + 1]
              ELSE [level |-> cursor.level + 1, chunk |-> 0]

(* A chunk that does not fit, or holds a collapsed unit, is skipped. *)
MayCollapse ==
    /\ cursor.chunk < Region.size \div Levels[cursor.level].size
    /\ \A u \in ChunkUnits(cursor.level, cursor.chunk) : order[u] = 0

(* One round of the cascade: MADV_COLLAPSE, which the kernel may refuse. *)
Collapse(succeeds) ==
    /\ phase = "setup" /\ current <= N
    /\ Region.lend /\ mthp_mode # "none"
    /\ ~Prepared
    /\ succeeds => MayCollapse
    /\ order' = [u \in DOMAIN order |->
                    IF succeeds /\ u \in ChunkUnits(cursor.level, cursor.chunk)
                    THEN Levels[cursor.level].order ELSE order[u]]
    /\ Advance
    /\ UNCHANGED <<phase, mthp_mode, current, next_lend_slot, parcels, slotVars, auth, changes, unremoved>>

(* The 2 MB chunks of the region, and those not backed by one folio. *)
Thps == 0 .. Region.size \div ThpSize - 1
NeedSmall == {c \in Thps : \E u \in ChunkUnits(1, c) : order[u] < Levels[1].order}

(* compute_lend_chunks: maximal runs of one kind of backing, cut into pieces of *)
(* at most LendChunk; none when the region is small.                            *)
SameBacking(c, d) == (c \in NeedSmall) = (d \in NeedSmall)
RunStart(c) == CHOOSE s \in 0 .. c : /\ \A d \in s .. c : SameBacking(d, c)
                                     /\ s > 0 => ~SameBacking(s - 1, c)
StartsChunk(c) == (c - RunStart(c)) % LendChunk = 0
LendChunks ==
    IF Region.size <= LendChunk * ThpSize THEN {}
    ELSE {[offset |-> c * ThpSize,
           size |-> ThpSize * Cardinality({d \in Thps : /\ c <= d
                                                        /\ RunStart(d) = RunStart(c)
                                                        /\ d < c + LendChunk})]
            : c \in {c \in Thps : StartsChunk(c)}}

-------------------------------------------------------------------------------
(* GunyahVm::new, one region at a time. *)

(* Mutant: the counter is not advanced from chunk to chunk. *)
ChunkSlotStuck(ch) ==
    IF \E c \in LendChunks : c.offset < ch.offset THEN next_lend_slot ELSE current - 1

(* The slot of a chunk: the first takes the region's, the others count on. *)
ChunkSlot(ch) ==
    LET before == Cardinality({c \in LendChunks : c.offset < ch.offset})
    IN  IF before = 0 THEN current - 1 ELSE next_lend_slot + before - 1

LendPieces ==
    IF mthp_mode = "chunked" /\ LendChunks # {}
    THEN {[slot |-> ChunkSlot(c), base |-> Region.base + c.offset, size |-> c.size] : c \in LendChunks}
    ELSE {[slot |-> current - 1, base |-> Region.base, size |-> Region.size]}

AddParcels(pieces, lent) ==
    [s \in DOMAIN parcels \union {p.slot : p \in pieces} |->
        IF \E p \in pieces : p.slot = s
        THEN LET p == CHOOSE q \in pieces : q.slot = s
             IN  [base |-> p.base, size |-> p.size, lent |-> lent]
        ELSE parcels[s]]

SetupRegion ==
    /\ phase = "setup" /\ current <= N
    /\ IF Region.lend
       THEN /\ mthp_mode = "none" \/ Prepared
            /\ parcels' = AddParcels(LendPieces, TRUE)
            /\ next_lend_slot' = next_lend_slot + Cardinality(LendPieces) - 1
       ELSE /\ parcels' = AddParcels({[slot |-> current - 1, base |-> Region.base,
                                       size |-> Region.size]}, FALSE)
            /\ UNCHANGED next_lend_slot
    /\ current' = current + 1
    /\ order' = FreshMap(current + 1)
    /\ cursor' = FirstTry
    /\ UNCHANGED <<phase, mthp_mode, slotVars, auth, changes, unremoved>>

(* An ioctl of GunyahVm::new or init_arch fails: there is no machine. *)
SetupFails ==
    /\ phase = "setup" \/ phase = "created"
    /\ phase' = "failed"
    /\ UNCHANGED <<setupVars, parcels, slotVars, auth, changes, unremoved>>

Created ==
    /\ phase = "setup" /\ current > N
    /\ phase' = "created"
    /\ UNCHANGED <<setupVars, parcels, slotVars, auth, changes, unremoved>>

(* init_arch: a trusted machine's authentication type is set, whatever comes of *)
(* it; the device tree and the entry point are set; the machine starts.         *)
InitArch ==
    /\ phase = "created"
    /\ auth' \in IF Trusted THEN BOOLEAN ELSE {FALSE}
    /\ phase' = "running"
    /\ UNCHANGED <<setupVars, parcels, slotVars, changes, unremoved>>

-------------------------------------------------------------------------------
(* add_memory_region and remove_memory_region. *)

RoundUp(n) == ((n + PageSize - 1) \div PageSize) * PageSize
Overlap(b1, s1, b2, s2) == b1 < b2 + s2 /\ b2 < b1 + s1

(* Mutant: slots given back are not looked at. *)
NextSlotsNoGaps == {Cardinality(DOMAIN mem_regions) + N}

(* The slot taken: the smallest one given back, or the one after all in use. *)
NextSlots ==
    IF mem_slot_gaps # {} THEN {s \in mem_slot_gaps : \A t \in mem_slot_gaps : s <= t}
    ELSE {Cardinality(DOMAIN mem_regions) + N}

(* The caller's part of the contract: no overlap with another slot's region. *)
FreeWindow(w) ==
    \A s \in DOMAIN mem_regions :
        ~Overlap(w.base, RoundUp(w.size), mem_regions[s].base, mem_regions[s].size)

MayAdd(w) ==
    /\ phase \in {"created", "running"}
    /\ changes < MaxChanges
    /\ FreeWindow(w)
    /\ \A i \in 1 .. N : ~Overlap(w.base, RoundUp(w.size), GuestRegions[i].base, GuestRegions[i].size)

(* The kernel takes the parcel, shared or, after EEXIST, lent: only under a     *)
(* label that is free.                                                          *)
AddMemoryRegion(w) ==
    /\ MayAdd(w)
    /\ \E slot \in NextSlots, lent \in BOOLEAN :
          /\ slot \notin DOMAIN parcels
          /\ parcels' = With(parcels, slot, [base |-> w.base, size |-> RoundUp(w.size), lent |-> lent])
          /\ mem_regions' = With(mem_regions, slot, [base |-> w.base, size |-> RoundUp(w.size)])
          /\ mem_slot_gaps' = mem_slot_gaps \ {slot}
    /\ changes' = changes + 1
    /\ UNCHANGED <<phase, setupVars, auth, unremoved>>

(* Mutant: the result of the ioctl is not looked at. *)
AddFailsUnseen(w) ==
    /\ MayAdd(w)
    /\ \E slot \in NextSlots :
          /\ mem_regions' = With(mem_regions, slot, [base |-> w.base, size |-> RoundUp(w.size)])
          /\ mem_slot_gaps' = mem_slot_gaps \ {slot}
    /\ changes' = changes + 1
    /\ UNCHANGED <<phase, setupVars, parcels, auth, unremoved>>

(* Both ioctls fail, as they must when the label is taken: the slot is given    *)
(* back.                                                                        *)
AddFails(w) ==
    /\ MayAdd(w)
    /\ \E slot \in NextSlots : mem_slot_gaps' = mem_slot_gaps \union {slot}
    /\ changes' = changes + 1
    /\ UNCHANGED <<phase, setupVars, parcels, mem_regions, auth, unremoved>>

(* The kernel's refusal to remove the parcel is only logged. *)
RemoveMemoryRegion(slot) ==
    /\ phase \in {"created", "running"}
    /\ changes < MaxChanges
    /\ slot \in DOMAIN mem_regions
    /\ \E removed \in BOOLEAN :
          /\ parcels' = IF removed THEN Without(parcels, slot) ELSE parcels
          /\ unremoved' = IF removed THEN unremoved ELSE unremoved \union {slot}
    /\ mem_slot_gaps' = mem_slot_gaps \union {slot}
    /\ mem_regions' = Without(mem_regions, slot)
    /\ changes' = changes + 1
    /\ UNCHANGED <<phase, setupVars, auth>>

-------------------------------------------------------------------------------
Next ==
    \/ \E succeeds \in BOOLEAN : Collapse(succeeds)
    \/ SetupRegion
    \/ SetupFails
    \/ Created
    \/ InitArch
    \/ \E w \in Windows : AddMemoryRegion(w)
    \/ \E w \in Windows : AddFails(w)
    \/ \E slot \in DOMAIN mem_regions : RemoveMemoryRegion(slot)

Spec == Init /\ [][Next]_vars

-------------------------------------------------------------------------------
(* Properties. *)

(* The slots of windows in use and those given back are distinct, and together  *)
(* they are an interval from the number of guest regions on: add_memory_region  *)
(* never takes the slot of another window.  The kernel has nothing under the    *)
(* label it takes, unless it kept a parcel it was asked to remove, or guest     *)
(* memory was lent in more chunks than it has regions.  The labels of chunks    *)
(* run on from the same number, so that then no window is ever added.           *)
SlotsPartition ==
    /\ DOMAIN mem_regions \intersect mem_slot_gaps = {}
    /\ DOMAIN mem_regions \union mem_slot_gaps =
          N .. N + Cardinality(DOMAIN mem_regions) + Cardinality(mem_slot_gaps) - 1
    /\ IF next_lend_slot > N THEN DOMAIN mem_regions = {}
       ELSE \A s \in NextSlots : s \in DOMAIN parcels => s \in unremoved

(* What crosvm holds for a slot is what the kernel holds under that label. *)
RegionsBacked ==
    \A s \in DOMAIN mem_regions :
        s \in DOMAIN parcels /\ parcels[s].base = mem_regions[s].base
                             /\ parcels[s].size = mem_regions[s].size

InParcel(a, s) == parcels[s].base <= a /\ a < parcels[s].base + parcels[s].size

(* What compute_lend_chunks leaves out of a region it cuts into chunks: all     *)
(* beyond the last multiple of 2 MB.                                            *)
LeftOut(i) ==
    LET r == GuestRegions[i] IN
    IF mthp_mode = "chunked" /\ r.lend /\ r.size > LendChunk * ThpSize
    THEN r.base + (r.size \div ThpSize) * ThpSize .. r.base + r.size - 1
    ELSE {}

(* Once the machine exists, every address of guest memory is in exactly one     *)
(* parcel, but for the rest that compute_lend_chunks leaves out of a region     *)
(* that is no multiple of 2 MB: that is in no parcel.                           *)
GuestMemoryHandedOver ==
    phase \in {"created", "running"} =>
        \A i \in 1 .. N : \A a \in GuestRegions[i].base .. GuestRegions[i].base + GuestRegions[i].size - 1 :
            Cardinality({s \in DOMAIN parcels : InParcel(a, s)}) = IF a \in LeftOut(i) THEN 0 ELSE 1

===============================================================================
