--------------------------- MODULE GunyahMemoryProof ---------------------------
(* The bookkeeping of memory slots is right for every guest memory, every set   *)
(* of windows and any number of regions added and removed.                      *)
(*                                                                              *)
(* At the end, on its own, the allocator of addresses (AddressAllocator,        *)
(* instantiated as AA): no address is handed out twice or lost, for every set   *)
(* of disjoint pools and every set of tags, sizes and alignments.  An           *)
(* allocation cuts a range out of one free region, and a release puts it back;  *)
(* the range and the regions it is merged with touch, so nothing between them   *)
(* is covered twice or not at all.                                              *)
EXTENDS GunyahMemory, FiniteSetTheorems, WellFoundedInduction, TLAPS

Used == DOMAIN mem_regions

(* The part of SlotsPartition that speaks of crosvm's slots alone. *)
Partition ==
    /\ Used \intersect mem_slot_gaps = {}
    /\ Used \union mem_slot_gaps = N .. N + Cardinality(Used) + Cardinality(mem_slot_gaps) - 1

(* The inductive invariant: the partition of the slots, that both parts are     *)
(* finite, what the kernel holds for a slot, and that no slot is taken before   *)
(* the machine exists.                                                          *)
IInv ==
    /\ IsFiniteSet(Used)
    /\ IsFiniteSet(mem_slot_gaps)
    /\ Partition
    /\ RegionsBacked
    /\ phase = "setup" => Used = {} /\ mem_slot_gaps = {}

(* The number of guest regions is a number.                                     *)
LEMMA NType == N \in Nat
  BY GuestOK DEF N

(* GunyahVm::new starts without slots.                                          *)
LEMMA InitIInv == Init => IInv
  <1> SUFFICES ASSUME Init PROVE IInv
    OBVIOUS
  <1>1. Used = {} /\ mem_slot_gaps = {}
    BY DEF Init, EmptyFun, Used
  <1>2. IsFiniteSet(Used) /\ IsFiniteSet(mem_slot_gaps)
        /\ Cardinality(Used) = 0 /\ Cardinality(mem_slot_gaps) = 0
    BY <1>1, FS_EmptySet
  <1>3. Partition
    BY <1>1, <1>2, NType DEF Partition, Used
  <1>4. RegionsBacked
    BY <1>1 DEF RegionsBacked, Used
  <1> QED
    BY <1>1, <1>2, <1>3, <1>4 DEF IInv

(* Whatever slot add_memory_region takes, it is not in use; the slots stay an   *)
(* interval when it goes to either side.                                        *)
LEMMA NextSlotFresh ==
    ASSUME IInv, NEW slot \in NextSlots
    PROVE  /\ slot \notin Used
           /\ slot \in mem_slot_gaps \/ (mem_slot_gaps = {} /\ slot = N + Cardinality(Used))
  <1>1. CASE mem_slot_gaps # {}
    BY <1>1 DEF NextSlots, IInv, Partition, Used
  <1>2. CASE mem_slot_gaps = {}
    <2>1. Cardinality(Used) \in Nat /\ Cardinality(mem_slot_gaps) = 0
      BY <1>2, FS_CardinalityType, FS_EmptySet DEF IInv
    <2>2. Used = N .. N + Cardinality(Used) - 1
      BY <1>2, <2>1, NType DEF IInv, Partition, Used
    <2>3. slot = N + Cardinality(Used)
      BY <1>2, <2>1, NType DEF NextSlots, Used
    <2> QED
      BY <1>2, <2>1, <2>2, <2>3, NType
  <1> QED
    BY <1>1, <1>2

(* It is a number from N on.                                                    *)
LEMMA NextSlotNat ==
    ASSUME IInv, NEW slot \in NextSlots
    PROVE  slot \in Nat /\ slot >= N
  <1>1. Cardinality(Used) \in Nat /\ Cardinality(mem_slot_gaps) \in Nat
    BY FS_CardinalityType DEF IInv
  <1>2. slot \in mem_slot_gaps \/ slot = N + Cardinality(Used)
    BY NextSlotFresh
  <1>3. mem_slot_gaps \subseteq N .. N + Cardinality(Used) + Cardinality(mem_slot_gaps) - 1
    BY DEF IInv, Partition
  <1> QED
    BY <1>1, <1>2, <1>3, NType

(* Without windows it is the first one.                                         *)
LEMMA NextSlotFirst ==
    ASSUME IInv, Used = {}, NEW slot \in NextSlots
    PROVE  slot = N
  <1>1. Cardinality(Used) = 0 /\ Cardinality(mem_slot_gaps) \in Nat
    BY FS_CardinalityType, FS_EmptySet DEF IInv
  <1>2. mem_slot_gaps = N .. N + Cardinality(mem_slot_gaps) - 1
    BY <1>1, NType DEF IInv, Partition
  <1>3. CASE mem_slot_gaps = {}
    BY <1>1, <1>3, NType, NextSlotFresh
  <1>4. CASE mem_slot_gaps # {}
    <2>1. slot \in mem_slot_gaps /\ \A t \in mem_slot_gaps : slot <= t
      BY <1>4 DEF NextSlots
    <2>2. N \in mem_slot_gaps
      BY <1>1, <1>2, <1>4, NType
    <2>3. slot <= N /\ slot \in Nat /\ slot >= N
      BY <2>1, <2>2, NextSlotNat
    <2> QED
      BY <2>3, NType
  <1> QED
    BY <1>3, <1>4

(* add_memory_region takes the smallest slot given back, or the next one.       *)
LEMMA AddStep ==
    ASSUME IInv, NEW w \in Windows, AddMemoryRegion(w)
    PROVE  IInv'
  <1>1. PICK slot \in NextSlots, lent \in BOOLEAN :
          /\ slot \notin DOMAIN parcels
          /\ parcels' = With(parcels, slot, [base |-> w.base, size |-> RoundUp(w.size), lent |-> lent])
          /\ mem_regions' = With(mem_regions, slot, [base |-> w.base, size |-> RoundUp(w.size)])
          /\ mem_slot_gaps' = mem_slot_gaps \ {slot}
    BY DEF AddMemoryRegion
  <1>2. slot \notin Used
    BY NextSlotFresh
  <1>3. slot \in mem_slot_gaps \/ (mem_slot_gaps = {} /\ slot = N + Cardinality(Used))
    BY NextSlotFresh
  <1>4. Used' = Used \union {slot}
    BY <1>1 DEF With, Used
  <1>5. /\ IsFiniteSet(Used') /\ Cardinality(Used') = Cardinality(Used) + 1
        /\ Cardinality(Used) \in Nat /\ Cardinality(mem_slot_gaps) \in Nat
    BY <1>2, <1>4, FS_AddElement, FS_CardinalityType DEF IInv
  <1>6. Partition' /\ IsFiniteSet(mem_slot_gaps')
    <2>1. CASE slot \in mem_slot_gaps
      <3>1. IsFiniteSet(mem_slot_gaps') /\ Cardinality(mem_slot_gaps') = Cardinality(mem_slot_gaps) - 1
        BY <1>1, <2>1, FS_RemoveElement DEF IInv
      <3>2. Used' \union mem_slot_gaps' = Used \union mem_slot_gaps
        BY <1>1, <1>4, <2>1
      <3>3. Used' \intersect mem_slot_gaps' = {}
        BY <1>1, <1>4, <2>1 DEF IInv, Partition, Used
      <3>4. N + Cardinality(Used') + Cardinality(mem_slot_gaps') - 1
              = N + Cardinality(Used) + Cardinality(mem_slot_gaps) - 1
        BY <3>1, <1>5, NType
      <3> QED
        BY <3>1, <3>2, <3>3, <3>4 DEF IInv, Partition, Used
    <2>2. CASE mem_slot_gaps = {} /\ slot = N + Cardinality(Used)
      <3>1. mem_slot_gaps' = {} /\ Cardinality(mem_slot_gaps) = 0 /\ Cardinality(mem_slot_gaps') = 0
        BY <1>1, <2>2, FS_EmptySet
      <3>2. Used = N .. N + Cardinality(Used) - 1
        BY <3>1, <2>2, <1>5, NType DEF IInv, Partition, Used
      <3>3. Used' = N .. N + Cardinality(Used') - 1
        BY SMTT(30), <3>2, <1>4, <1>5, <2>2, NType
      <3>4. Used' \union mem_slot_gaps' = N .. N + Cardinality(Used') + Cardinality(mem_slot_gaps') - 1
        BY <3>1, <3>3, <1>5, NType
      <3> QED
        BY <3>1, <3>4, FS_EmptySet DEF Partition, Used
    <2> QED
      BY <1>3, <2>1, <2>2
  <1>7. RegionsBacked'
    BY <1>1 DEF RegionsBacked, IInv, With
  <1>8. phase' # "setup"
    BY DEF AddMemoryRegion, MayAdd
  <1> QED
    BY <1>5, <1>6, <1>7, <1>8 DEF IInv

(* A failed add_memory_region leaves slots and parcels as they were.            *)
LEMMA AddFailsStep ==
    ASSUME IInv, NEW w \in Windows, AddFails(w)
    PROVE  IInv'
  <1>1. PICK slot \in NextSlots : mem_slot_gaps' = mem_slot_gaps \union {slot}
    BY DEF AddFails
  <1>2. UNCHANGED <<parcels, mem_regions>> /\ phase' # "setup" /\ Used' = Used
    BY DEF AddFails, MayAdd, Used
  <1>3. slot \notin Used
        /\ (slot \in mem_slot_gaps \/ (mem_slot_gaps = {} /\ slot = N + Cardinality(Used)))
    BY NextSlotFresh
  <1>4. Cardinality(Used) \in Nat
    BY FS_CardinalityType DEF IInv
  <1>5. Partition' /\ IsFiniteSet(mem_slot_gaps')
    <2>1. CASE slot \in mem_slot_gaps
      <3>1. mem_slot_gaps' = mem_slot_gaps
        BY <1>1, <2>1
      <3> QED
        BY <3>1, <1>2 DEF IInv, Partition, Used
    <2>2. CASE mem_slot_gaps = {} /\ slot = N + Cardinality(Used)
      <3>a. mem_slot_gaps' = {slot} /\ Cardinality(mem_slot_gaps) = 0
        BY <1>1, <2>2, FS_EmptySet
      <3>b. IsFiniteSet({slot}) /\ Cardinality({slot}) = 1
        BY FS_Singleton
      <3>1. mem_slot_gaps' = {slot} /\ Cardinality(mem_slot_gaps) = 0
            /\ IsFiniteSet(mem_slot_gaps') /\ Cardinality(mem_slot_gaps') = 1
        BY <3>a, <3>b
      <3>2. Used = N .. N + Cardinality(Used) - 1
        BY <3>1, <2>2, <1>4, NType DEF IInv, Partition, Used
      <3>3. Used' \union mem_slot_gaps' = N .. N + Cardinality(Used') + Cardinality(mem_slot_gaps') - 1
        BY <3>1, <3>2, <1>2, <1>4, <2>2, NType
      <3>4. Used' \intersect mem_slot_gaps' = {}
        BY <3>1, <1>2, <1>3
      <3> QED
        BY <3>1, <3>3, <3>4 DEF Partition, Used
    <2> QED
      BY <1>3, <2>1, <2>2
  <1>6. RegionsBacked'
    BY <1>2 DEF RegionsBacked, IInv
  <1> QED
    BY <1>2, <1>5, <1>6 DEF IInv

(* remove_memory_region gives its slot back and takes its parcel away.          *)
LEMMA RemoveStep ==
    ASSUME IInv, NEW slot \in DOMAIN mem_regions, RemoveMemoryRegion(slot)
    PROVE  IInv'
  <1>1. /\ mem_slot_gaps' = mem_slot_gaps \union {slot}
        /\ mem_regions' = Without(mem_regions, slot)
        /\ parcels' = parcels \/ parcels' = Without(parcels, slot)
        /\ phase' # "setup"
    BY DEF RemoveMemoryRegion
  <1>2. Used' = Used \ {slot} /\ slot \in Used /\ slot \notin mem_slot_gaps
    BY <1>1 DEF Without, Used, IInv, Partition, Used
  <1>3. /\ IsFiniteSet(Used') /\ Cardinality(Used') = Cardinality(Used) - 1
        /\ IsFiniteSet(mem_slot_gaps') /\ Cardinality(mem_slot_gaps') = Cardinality(mem_slot_gaps) + 1
        /\ Cardinality(Used) \in Nat /\ Cardinality(mem_slot_gaps) \in Nat
    BY Zenon, <1>1, <1>2, FS_AddElement, FS_RemoveElement, FS_CardinalityType DEF IInv
  <1>4. Used' \union mem_slot_gaps' = Used \union mem_slot_gaps /\ Used' \intersect mem_slot_gaps' = {}
    BY <1>1, <1>2 DEF IInv, Partition, Used
  <1>5. N + Cardinality(Used') + Cardinality(mem_slot_gaps') - 1
          = N + Cardinality(Used) + Cardinality(mem_slot_gaps) - 1
    BY <1>3, NType
  <1>6. Partition'
    BY <1>4, <1>5 DEF IInv, Partition, Used
  <1>7. RegionsBacked'
    BY <1>1 DEF RegionsBacked, IInv, Without
  <1> QED
    BY <1>1, <1>3, <1>6, <1>7 DEF IInv

(* A step that leaves crosvm's slots alone, and the kernel's parcels too unless *)
(* the machine is being set up, keeps the invariant.                            *)
LEMMA OtherStep ==
    ASSUME IInv, UNCHANGED slotVars, UNCHANGED parcels \/ phase = "setup",
           phase' = "setup" => phase = "setup"
    PROVE  IInv'
  <1>1. Used' = Used /\ mem_slot_gaps' = mem_slot_gaps /\ mem_regions' = mem_regions
    BY DEF slotVars, Used
  <1>2. RegionsBacked'
    BY <1>1 DEF RegionsBacked, IInv, Used
  <1>3. Partition'
    BY <1>1 DEF Partition, IInv, Used
  <1> QED
    BY <1>1, <1>2, <1>3 DEF IInv

(* Every step preserves the invariant.                                          *)
LEMMA NextIInv == IInv /\ [Next]_vars => IInv'
  <1> SUFFICES ASSUME IInv, [Next]_vars PROVE IInv'
    OBVIOUS
  <1>1. ASSUME NEW succeeds \in BOOLEAN, Collapse(succeeds) PROVE IInv'
    BY <1>1, OtherStep DEF Collapse
  <1>2. CASE SetupRegion
    BY <1>2, OtherStep DEF SetupRegion
  <1>3. CASE SetupFails
    BY <1>3, OtherStep DEF SetupFails
  <1>4. CASE Created
    BY <1>4, OtherStep DEF Created
  <1>5. CASE InitArch
    BY <1>5, OtherStep DEF InitArch
  <1>6. ASSUME NEW w \in Windows, AddMemoryRegion(w) PROVE IInv'
    BY <1>6, AddStep
  <1>7. ASSUME NEW w \in Windows, AddFails(w) PROVE IInv'
    BY <1>7, AddFailsStep
  <1>8. ASSUME NEW slot \in DOMAIN mem_regions, RemoveMemoryRegion(slot) PROVE IInv'
    BY <1>8, RemoveStep
  <1>9. CASE UNCHANGED vars
    BY <1>9, OtherStep DEF vars, slotVars
  <1> QED
    BY <1>1, <1>2, <1>3, <1>4, <1>5, <1>6, <1>7, <1>8, <1>9 DEF Next

(* What crosvm holds for a slot is always what the kernel holds under that      *)
(* label, also when requests fail and when the kernel refuses to let go.        *)
THEOREM RegionsAreBacked == Spec => []RegionsBacked
  <1>1. IInv => RegionsBacked
    BY DEF IInv
  <1> QED
    BY InitIInv, NextIInv, <1>1, PTL DEF Spec

-------------------------------------------------------------------------------
(* Arithmetic. *)

(* A set of naturals has a least element: induction over data enters the proofs *)
(* below only through this lemma.                                               *)
LEMMA Least ==
    ASSUME NEW T \in SUBSET Nat, T # {}
    PROVE  \E x \in T : \A y \in T : x <= y
  <1>1. PICK x \in T : \A y \in T : ~(<<y, x>> \in OpToRel(<, Nat))
    BY WFMin, NatLessThanWellFounded
  <1>2. \A y \in T : ~(y < x)
    BY Zenon, <1>1 DEF OpToRel
  <1> QED
    BY <1>2

(* Multiples grow with their factor.                                            *)
LEMMA TimesMono ==
    ASSUME NEW a \in Nat, NEW b \in Nat, NEW t \in Nat, a <= b
    PROVE  a * t <= b * t
  <1>1. PICK d \in Nat : b = a + d
    <2>1. b - a \in Nat /\ b = a + (b - a)
      OBVIOUS
    <2> QED
      BY <2>1
  <1>2. b * t = a * t + d * t
    BY <1>1
  <1>3. d * t \in Nat /\ a * t \in Nat
    OBVIOUS
  <1> QED
    BY <1>2, <1>3

(* Division with remainder, over the integers.                                  *)
LEMMA Euclid ==
    ASSUME NEW v \in Int, NEW d \in Int, d > 0
    PROVE  v = d * (v \div d) + (v % d)
  BY Z3

(* Division with remainder, with the types of quotient and rest.                *)
LEMMA DivMod ==
    ASSUME NEW u \in Nat, NEW t \in Nat \ {0}
    PROVE  /\ u \div t \in Nat /\ u % t \in 0 .. t - 1
           /\ u = (u \div t) * t + (u % t)
  <1>2. u \div t \in Nat
    OBVIOUS
  <1>3. u % t \in 0 .. t - 1
    OBVIOUS
  <1>4. u = t * (u \div t) + (u % t)
    BY Euclid
  <1> QED
    BY <1>2, <1>3, <1>4

(* Whole multiples of t at most u are those of at most u \div t. *)
LEMMA DivFloor ==
    ASSUME NEW u \in Nat, NEW t \in Nat \ {0}, NEW c \in Nat
    PROVE  c * t <= u <=> c <= u \div t
  <1>1. /\ u \div t \in Nat /\ u % t \in 0 .. t - 1
        /\ u = (u \div t) * t + (u % t)
    BY Zenon, DivMod
  <1>2. c * t \in Nat /\ (u \div t) * t \in Nat
    BY <1>1
  <1>3. CASE c <= u \div t
    BY <1>1, <1>2, <1>3, TimesMono
  <1>4. CASE u \div t + 1 <= c
    <2>1. (u \div t + 1) * t <= c * t
      BY <1>1, <1>4, TimesMono
    <2>2. (u \div t + 1) * t = (u \div t) * t + t
      BY <1>1
    <2> QED
      BY <1>1, <1>2, <1>4, <2>1, <2>2
  <1> QED
    BY <1>1, <1>3, <1>4

(* The multiple of t below u is the only one within t of it. *)
LEMMA OneMultiple ==
    ASSUME NEW u \in Nat, NEW t \in Nat \ {0}, NEW c \in Nat, c % t = 0, c <= u, u < c + t
    PROVE  c = (u \div t) * t
  <1>1. /\ c \div t \in Nat /\ c = (c \div t) * t
    BY DivMod
  <1>2. c \div t <= u \div t
    BY <1>1, DivFloor
  <1>3. (c \div t + 1) * t = c + t
    BY <1>1
  <1>4. ~(c \div t + 1 <= u \div t)
    BY <1>1, <1>3, DivFloor
  <1> QED
    BY <1>1, <1>2, <1>4, DivMod

(* A multiple leaves no rest.                                                   *)
LEMMA MultipleMod ==
    ASSUME NEW q \in Nat, NEW t \in Nat \ {0}
    PROVE  (q * t) % t = 0
  <1>1. q * t \in Nat
    OBVIOUS
  <1>2. (q * t) \div t \in Nat /\ (q * t) % t \in 0 .. t - 1
        /\ q * t = ((q * t) \div t) * t + ((q * t) % t)
    BY Zenon, <1>1, DivMod
  <1>3. q <= (q * t) \div t
    BY <1>1, DivFloor
  <1>4. q * t <= ((q * t) \div t) * t
    BY <1>2, <1>3, TimesMono
  <1> QED
    BY <1>1, <1>2, <1>4

-------------------------------------------------------------------------------
(* compute_lend_chunks covers the 2 MB chunks of a region, each once. *)

T == ThpSize
M == Region.size \div T

(* The elements of a sequence are of its type.                                  *)
LEMMA ElementOfSeq ==
    ASSUME NEW S, NEW q \in Seq(S), NEW i \in 1 .. Len(q)
    PROVE  q[i] \in S
  OBVIOUS

(* A 2 MB chunk has units.                                                      *)
LEMMA ThpType == T \in Nat \ {0}
  <1>1. Levels \in Seq([size : Nat \ {0}, order : Nat \ {0}]) /\ Len(Levels) > 0
    BY LevelsOK
  <1>2. Levels[1] \in [size : Nat \ {0}, order : Nat \ {0}]
    <2>1. 1 \in 1 .. Len(Levels)
      BY <1>1
    <2> QED
      BY Zenon, <1>1, <2>1, ElementOfSeq
  <1> QED
    BY <1>2 DEF T, ThpSize

(* A guest region has its type.                                                 *)
LEMMA RegionType ==
    ASSUME NEW i \in 1 .. N
    PROVE  GuestRegions[i] \in [base : Nat, size : Nat \ {0}, lend : BOOLEAN]
  <1>1. GuestRegions \in Seq([base : Nat, size : Nat \ {0}, lend : BOOLEAN])
    BY GuestOK
  <1> QED
    BY Zenon, <1>1, ElementOfSeq DEF N

(* Having the same backing is an equivalence.                                   *)
LEMMA SameSymmetric ==
    ASSUME NEW c, NEW d, NEW e
    PROVE  /\ SameBacking(c, c)
           /\ SameBacking(c, d) => SameBacking(d, c)
           /\ SameBacking(c, d) /\ SameBacking(d, e) => SameBacking(c, e)
  BY DEF SameBacking

IsRunStart(s, c) ==
    /\ \A d \in s .. c : SameBacking(d, c)
    /\ s > 0 => ~SameBacking(s - 1, c)

(* A chunk is in one run of chunks with the same backing.                       *)
LEMMA RunStartUnique ==
    ASSUME NEW c \in Nat, NEW s \in 0 .. c, NEW r \in 0 .. c, IsRunStart(s, c), IsRunStart(r, c)
    PROVE  s = r
  <1>1. ~(s < r)
    BY DEF IsRunStart
  <1>2. ~(r < s)
    BY DEF IsRunStart
  <1> QED
    BY <1>1, <1>2

(* Every chunk is in such a run: the least candidate is its start.              *)
LEMMA RunStartIs ==
    ASSUME NEW c \in Nat
    PROVE  RunStart(c) \in 0 .. c /\ IsRunStart(RunStart(c), c)
  <1> DEFINE S == {s \in 0 .. c : \A d \in s .. c : SameBacking(d, c)}
  <1>1. c \in S
    <2>1. \A d \in c .. c : d = c
      OBVIOUS
    <2> QED
      BY <2>1, SameSymmetric
  <1>2. PICK s \in S : \A r \in S : s <= r
    <2>1. S \in SUBSET Nat /\ S # {}
      BY <1>1
    <2> HIDE DEF S
    <2> QED
      BY <2>1, Least
  <1>3. s > 0 => ~SameBacking(s - 1, c)
    <2> SUFFICES ASSUME s > 0, SameBacking(s - 1, c) PROVE FALSE
      OBVIOUS
    <2>1. s - 1 \in S
      OBVIOUS
    <2> QED
      BY <1>2, <2>1
  <1>4. \E r \in 0 .. c : /\ \A d \in r .. c : SameBacking(d, c)
                          /\ r > 0 => ~SameBacking(r - 1, c)
    BY <1>2, <1>3
  <1> QED
    BY Zenon, <1>4 DEF RunStart, IsRunStart

(* Everything back to the start of a run has the same start. *)
LEMMA RunStartSame ==
    ASSUME NEW c \in Nat, NEW d \in RunStart(c) .. c
    PROVE  RunStart(d) = RunStart(c)
  <1>1. RunStart(c) \in 0 .. c /\ IsRunStart(RunStart(c), c)
    BY RunStartIs
  <1>2. d \in Nat /\ RunStart(c) \in 0 .. d
    BY <1>1
  <1>3. SameBacking(d, c)
    BY <1>1 DEF IsRunStart
  <1>4. IsRunStart(RunStart(c), d)
    <2>1. ASSUME NEW e \in RunStart(c) .. d PROVE SameBacking(e, d)
      <3>1. e \in RunStart(c) .. c
        BY <1>1, <1>2
      <3>2. SameBacking(e, c)
        BY <1>1, <3>1 DEF IsRunStart
      <3> QED
        BY <1>3, <3>2, SameSymmetric
    <2>2. ASSUME RunStart(c) > 0 PROVE ~SameBacking(RunStart(c) - 1, d)
      BY <1>1, <1>3, <2>2, SameSymmetric DEF IsRunStart
    <2> QED
      BY <2>1, <2>2 DEF IsRunStart
  <1> QED
    BY <1>2, <1>4, RunStartIs, RunStartUnique

(* The 2 MB chunks that the chunk starting at c takes, and how many they are.   *)
Ext(c) == {d \in Thps : c <= d /\ RunStart(d) = RunStart(c) /\ d < c + LendChunk}
Length(c) == Cardinality(Ext(c))

(* The 2 MB chunks of the current region are numbered from zero.                *)
LEMMA ThpsNat == Thps \subseteq Nat /\ (current \in 1 .. N => M \in Nat /\ Thps = 0 .. M - 1)
  <1>1. Thps \subseteq Nat
    BY DEF Thps
  <1>2. ASSUME current \in 1 .. N PROVE M \in Nat /\ Thps = 0 .. M - 1
    <2>1. Region.size \in Nat
      BY <1>2, RegionType DEF Region
    <2> QED
      BY <2>1, ThpType, DivMod DEF M, Thps, T
  <1> QED
    BY <1>1, <1>2

(* They are consecutive. *)
LEMMA ExtSpan ==
    ASSUME current \in 1 .. N, NEW c \in Thps, NEW d \in Nat
    PROVE  /\ Length(c) \in Nat
           /\ (c <= d /\ d < c + Length(c)) <=> d \in Ext(c)
  <1>1. M \in Nat /\ Thps = 0 .. M - 1 /\ c \in Nat /\ LendChunk \in Nat
    BY ThpsNat, OthersOK
  <1>2. \A e \in Ext(c) : c .. e \subseteq Ext(c)
    <2> SUFFICES ASSUME NEW e \in Ext(c), NEW x \in c .. e PROVE x \in Ext(c)
      OBVIOUS
    <2>1. e \in Nat /\ e \in Thps /\ x \in Thps /\ RunStart(e) = RunStart(c)
      BY <1>1 DEF Ext
    <2>2. RunStart(c) <= c /\ RunStart(c) \in Nat
      BY <1>1, RunStartIs
    <2>3. x \in RunStart(e) .. e
      BY <1>1, <2>1, <2>2
    <2>4. RunStart(x) = RunStart(c)
      BY <2>1, <2>3, RunStartSame
    <2> QED
      BY <1>1, <2>1, <2>4 DEF Ext
  <1>3. IsFiniteSet(Ext(c)) /\ Length(c) \in Nat
    <2>1. Ext(c) \in SUBSET (0 .. M - 1)
      BY <1>1 DEF Ext
    <2>2. IsFiniteSet(0 .. M - 1)
      BY <1>1, FS_Interval
    <2> QED
      BY Zenon, <2>1, <2>2, FS_Subset, FS_CardinalityType DEF Length
  <1>4. ASSUME d \in Ext(c) PROVE c <= d /\ d < c + Length(c)
    <2>1. c <= d /\ c .. d \in SUBSET Ext(c)
      BY <1>2, <1>4 DEF Ext
    <2>2. Cardinality(c .. d) <= Length(c)
      BY Zenon, <1>3, <2>1, FS_Subset DEF Length
    <2>3. Cardinality(c .. d) = d - c + 1
      BY <1>1, <2>1, FS_Interval
    <2> QED
      BY <1>1, <1>3, <2>1, <2>2, <2>3
  <1>5. ASSUME d \notin Ext(c), c <= d PROVE ~(d < c + Length(c))
    <2>1. ASSUME NEW e \in Ext(c) PROVE c <= e /\ e < d
      <3>1. e \in Nat /\ c <= e
        BY <1>1 DEF Ext
      <3>2. d \notin c .. e
        BY <1>2, <1>5
      <3> QED
        BY <1>1, <1>5, <3>1, <3>2
    <2>2. Ext(c) \in SUBSET (c .. d - 1)
      BY <1>1, <2>1 DEF Ext
    <2>3. IsFiniteSet(c .. d - 1) /\ Cardinality(c .. d - 1) = d - c
      <3>1. c \in Int /\ d - 1 \in Int /\ (c > d - 1 => d - c = 0) /\ (d - 1) - c + 1 = d - c
        BY <1>1, <1>5
      <3> QED
        BY Zenon, <3>1, FS_Interval
    <2>4. Length(c) <= d - c
      BY ZenonT(30), <2>2, <2>3, FS_Subset DEF Length
    <2> QED
      BY <1>1, <1>3, <1>5, <2>4
  <1> QED
    BY <1>3, <1>4, <1>5

(* Every 2 MB chunk is taken by one chunk that is lent, and by one only. *)
LEMMA OneStart ==
    ASSUME current \in 1 .. N, NEW k \in Thps
    PROVE  \E c \in Thps : /\ StartsChunk(c) /\ k \in Ext(c)
                           /\ \A d \in Thps : StartsChunk(d) /\ k \in Ext(d) => d = c
  <1> DEFINE s == RunStart(k)
             m == k - s
             q == m \div LendChunk
             c == s + q * LendChunk
  <1>1. M \in Nat /\ Thps = 0 .. M - 1 /\ k \in Nat /\ LendChunk \in Nat \ {0}
    BY ThpsNat, OthersOK
  <1>a. s \in 0 .. k
    BY <1>1, RunStartIs
  <1> HIDE DEF s
  <1>2. s \in Nat /\ s <= k /\ m \in Nat /\ k = s + m
    BY <1>1, <1>a
  <1> HIDE DEF m
  <1>b. /\ q \in Nat /\ m % LendChunk \in 0 .. LendChunk - 1
        /\ m = q * LendChunk + (m % LendChunk)
    BY Zenon, <1>1, <1>2, DivMod
  <1> HIDE DEF q
  <1>3. /\ q \in Nat /\ m % LendChunk \in 0 .. LendChunk - 1
        /\ m = q * LendChunk + (m % LendChunk) /\ q * LendChunk \in Nat
    BY <1>1, <1>b
  <1>4. c \in Nat /\ s <= c /\ c <= k /\ k < c + LendChunk /\ c - s = q * LendChunk
    BY <1>1, <1>2, <1>3
  <1> HIDE DEF c
  <1>5. c \in Thps
    BY <1>1, <1>4
  <1>6. RunStart(c) = s
    <2>1. c \in RunStart(k) .. k
      BY <1>1, <1>2, <1>4 DEF s
    <2> QED
      BY <1>1, <2>1, RunStartSame DEF s
  <1>7. StartsChunk(c)
    BY <1>1, <1>3, <1>4, <1>6, MultipleMod DEF StartsChunk
  <1>8. k \in Ext(c)
    BY <1>4, <1>6 DEF Ext, s
  <1>9. ASSUME NEW d \in Thps, StartsChunk(d), k \in Ext(d) PROVE d = c
    <2>1. d \in Nat /\ d <= k /\ k < d + LendChunk /\ RunStart(d) = s
      BY <1>1, <1>9 DEF Ext, s
    <2>2. s <= d
      BY <2>1, RunStartIs
    <2>3. d - s \in Nat /\ (d - s) % LendChunk = 0 /\ d - s <= m /\ m < (d - s) + LendChunk
      BY <1>1, <1>2, <1>9, <2>1, <2>2 DEF StartsChunk
    <2>4. d - s = q * LendChunk
      BY Zenon, <1>1, <1>2, <2>3, OneMultiple DEF q
    <2> QED
      BY <1>2, <1>4, <2>1, <2>4
  <1> QED
    BY <1>5, <1>7, <1>8, <1>9

(* The chunk that starts at c, in bytes. *)
ChunkAt(c) == [offset |-> c * ThpSize, size |-> ThpSize * Length(c)]
Starts == {c \in Thps : StartsChunk(c)}

(* The chunks that are lent are those of their starts.                          *)
LEMMA ChunksAre ==
    ASSUME ~(Region.size <= LendChunk * ThpSize)
    PROVE  LendChunks = {ChunkAt(c) : c \in Starts}
  BY DEF LendChunks, ChunkAt, Starts, Length, Ext

(* An offset lies in the chunk that starts at c when its 2 MB chunk does. *)
LEMMA InChunk ==
    ASSUME current \in 1 .. N, NEW c \in Thps, NEW u \in Nat
    PROVE  /\ c * T \in Nat /\ T * Length(c) \in Nat
           /\ (c * T <= u /\ u < c * T + T * Length(c)) <=> u \div T \in Ext(c)
  <1>1. T \in Nat \ {0} /\ c \in Nat /\ Length(c) \in Nat /\ u \div T \in Nat
    BY Zenon, ThpType, ThpsNat, ExtSpan, DivMod
  <1>2. c * T + T * Length(c) = (c + Length(c)) * T /\ c + Length(c) \in Nat
    BY <1>1
  <1>3. c * T <= u <=> c <= u \div T
    BY <1>1, DivFloor
  <1>4. (c + Length(c)) * T <= u <=> c + Length(c) <= u \div T
    BY <1>1, <1>2, DivFloor
  <1>5. c * T \in Nat /\ T * Length(c) \in Nat /\ (c + Length(c)) * T \in Nat
    BY <1>1, <1>2
  <1>6. u < c * T + T * Length(c) <=> u \div T < c + Length(c)
    <2>1. u < (c + Length(c)) * T <=> ~((c + Length(c)) * T <= u)
      BY <1>5
    <2>2. u \div T < c + Length(c) <=> ~(c + Length(c) <= u \div T)
      BY <1>1, <1>2
    <2> QED
      BY <1>2, <1>4, <2>1, <2>2
  <1> QED
    BY <1>1, <1>3, <1>5, <1>6, ExtSpan

(* Chunks with different starts begin at different addresses.                   *)
LEMMA StartsApart ==
    ASSUME NEW c \in Nat, NEW d \in Nat, c < d
    PROVE  c * T \in Nat /\ d * T \in Nat /\ c * T < d * T
  <1>1. T \in Nat \ {0}
    BY ThpType
  <1>2. (c + 1) * T <= d * T
    BY <1>1, TimesMono
  <1>3. (c + 1) * T = c * T + T /\ c * T \in Nat /\ d * T \in Nat
    BY <1>1
  <1> QED
    BY <1>1, <1>2, <1>3

(* The chunks that are lent lie inside the region, and are finitely many,       *)
(* each with an offset of its own.                                              *)
LEMMA ChunksInside ==
    ASSUME current \in 1 .. N, ~(Region.size <= LendChunk * ThpSize)
    PROVE  /\ IsFiniteSet(LendChunks)
           /\ \A x \in LendChunks : /\ x.offset \in Nat /\ x.size \in Nat
                                    /\ x.offset + x.size <= M * T
           /\ M * T \in Nat /\ M * T <= Region.size
           /\ \A x, y \in LendChunks : x.offset = y.offset => x = y
  <1>1. LendChunks = {ChunkAt(c) : c \in Starts} /\ Starts \subseteq Thps
    BY ChunksAre DEF Starts
  <1>2. M \in Nat /\ Thps = 0 .. M - 1 /\ T \in Nat \ {0} /\ Region.size \in Nat
    BY ThpsNat, ThpType, RegionType DEF Region
  <1>3. IsFiniteSet(LendChunks)
    <2> DEFINE f == [c \in Starts |-> ChunkAt(c)]
    <2>1. f \in Surjection(Starts, LendChunks)
      BY <1>1 DEF Surjection
    <2>2. IsFiniteSet(0 .. M - 1) /\ Starts \in SUBSET (0 .. M - 1)
      BY <1>1, <1>2, FS_Interval
    <2>3. IsFiniteSet(Starts)
      BY Zenon, <2>2, FS_Subset
    <2> QED
      BY <2>1, <2>3, FS_Surjection
  <1>4. ASSUME NEW c \in Starts
        PROVE  c * T \in Nat /\ T * Length(c) \in Nat /\ c * T + T * Length(c) <= M * T
    <2>1. c \in Thps /\ c \in Nat /\ c <= M - 1
      BY <1>1, <1>2
    <2>2. Length(c) \in Nat
      BY <2>1, ExtSpan
    <2>3. c + Length(c) <= M
      <3>1. CASE Length(c) = 0
        BY <1>2, <2>1, <3>1
      <3>2. CASE Length(c) # 0
        <4>1. c + Length(c) - 1 \in Nat /\ c <= c + Length(c) - 1 /\ c + Length(c) - 1 < c + Length(c)
          BY <2>1, <2>2, <3>2
        <4>2. c + Length(c) - 1 \in Ext(c)
          BY <2>1, <4>1, ExtSpan
        <4> QED
          BY <1>2, <2>1, <2>2, <4>2 DEF Ext
      <3> QED
        BY <3>1, <3>2
    <2>4. (c + Length(c)) * T <= M * T
      BY <1>2, <2>1, <2>2, <2>3, TimesMono
    <2>5. (c + Length(c)) * T = c * T + T * Length(c)
      BY <1>2, <2>1, <2>2
    <2>6. c * T \in Nat /\ T * Length(c) \in Nat /\ M * T \in Nat
      BY <1>2, <2>1, <2>2
    <2> QED
      BY <1>2, <2>4, <2>5, <2>6
  <1>5. \A x \in LendChunks : /\ x.offset \in Nat /\ x.size \in Nat
                              /\ x.offset + x.size <= M * T
    BY <1>1, <1>4 DEF ChunkAt, T
  <1>7. M * T \in Nat /\ M * T <= Region.size
    BY <1>2, DivFloor DEF M
  <1>6. ASSUME NEW x \in LendChunks, NEW y \in LendChunks, x.offset = y.offset PROVE x = y
    <2>1. PICK c \in Starts : x = ChunkAt(c)
      BY <1>1
    <2>2. PICK d \in Starts : y = ChunkAt(d)
      BY <1>1
    <2>3. c \in Nat /\ d \in Nat /\ c * T = d * T
      BY <1>1, <1>2, <1>6, <2>1, <2>2 DEF ChunkAt, T
    <2>4. ~(c < d) /\ ~(d < c)
      BY <2>3, StartsApart
    <2> QED
      BY <2>1, <2>2, <2>3, <2>4
  <1> QED
    BY <1>3, <1>5, <1>6, <1>7

Before(x) == {y \in LendChunks : y.offset < x.offset}

(* Chunks count on in the order of their offsets. *)
LEMMA CountsOn ==
    ASSUME current \in 1 .. N, ~(Region.size <= LendChunk * ThpSize), NEW x \in LendChunks
    PROVE  /\ Cardinality(Before(x)) \in Nat /\ Cardinality(LendChunks) \in Nat
           /\ Cardinality(Before(x)) < Cardinality(LendChunks)
           /\ \A y \in LendChunks : x.offset < y.offset => Cardinality(Before(x)) < Cardinality(Before(y))
  <1>1. IsFiniteSet(LendChunks) /\ \A y \in LendChunks : y.offset \in Nat
    BY ChunksInside
  <1>2. \A y \in LendChunks : IsFiniteSet(Before(y)) /\ Cardinality(Before(y)) \in Nat
    <2>1. \A y \in LendChunks : Before(y) \in SUBSET LendChunks
      BY DEF Before
    <2> QED
      BY <1>1, <2>1, FS_Subset, FS_CardinalityType
  <1>3. Cardinality(LendChunks) \in Nat
    BY <1>1, FS_CardinalityType
  <1>4. Cardinality(Before(x)) < Cardinality(LendChunks)
    <2>1. Before(x) \in SUBSET LendChunks /\ x \notin Before(x)
      BY <1>1 DEF Before
    <2>2. /\ Cardinality(Before(x)) <= Cardinality(LendChunks)
          /\ Cardinality(LendChunks) # Cardinality(Before(x))
      BY <1>1, <2>1, FS_Subset
    <2> QED
      BY <1>2, <1>3, <2>2
  <1>5. ASSUME NEW y \in LendChunks, x.offset < y.offset
        PROVE  Cardinality(Before(x)) < Cardinality(Before(y))
    <2>1. Before(x) \in SUBSET Before(y) /\ x \in Before(y) /\ x \notin Before(x)
      BY <1>1, <1>5 DEF Before
    <2>2. /\ Cardinality(Before(x)) <= Cardinality(Before(y))
          /\ Cardinality(Before(y)) # Cardinality(Before(x))
      BY <1>2, <2>1, FS_Subset
    <2> QED
      BY <1>2, <2>2
  <1> QED
    BY <1>2, <1>3, <1>4, <1>5

-------------------------------------------------------------------------------
(* GunyahVm::new hands a region over in pieces that cover it, each address      *)
(* once, under slots of their own; a rest that is left out is in none of them.  *)

Lies(a, p) == p.base <= a /\ a < p.base + p.size
Addresses(r) == r.base .. r.base + r.size - 1

(* What SetupRegion needs of the pieces of a region. *)
PiecesOK(pieces) ==
    /\ Cardinality(pieces) \in Nat \ {0}
    /\ \A p \in pieces :
          /\ p.base \in Nat /\ p.size \in Nat /\ p.slot \in Nat
          /\ Region.base <= p.base /\ p.base + p.size <= Region.base + Region.size
          /\ \/ p.slot = current - 1
             \/ next_lend_slot <= p.slot /\ p.slot < next_lend_slot + Cardinality(pieces) - 1
    /\ \A p, q \in pieces : p.slot = q.slot => p = q
    /\ Cardinality(pieces) # 1 => \E p \in pieces : p.slot = next_lend_slot
    /\ \A a \in Addresses(Region) :
          IF a \in LeftOut(current) THEN \A p \in pieces : ~Lies(a, p)
          ELSE \E p \in pieces : Lies(a, p) /\ \A q \in pieces : Lies(a, q) => q = p

(* A region handed over in one piece is covered by it.                          *)
LEMMA WholeRegion ==
    ASSUME current \in 1 .. N, next_lend_slot \in Nat, LeftOut(current) = {}
    PROVE  PiecesOK({[slot |-> current - 1, base |-> Region.base, size |-> Region.size]})
  <1> DEFINE p == [slot |-> current - 1, base |-> Region.base, size |-> Region.size]
  <1>1. Region.base \in Nat /\ Region.size \in Nat /\ current - 1 \in Nat
    BY RegionType, NType DEF Region
  <1>2. p.slot = current - 1 /\ p.base = Region.base /\ p.size = Region.size
    OBVIOUS
  <1>3. Cardinality({p}) = 1
    BY Zenon, FS_Singleton
  <1> HIDE DEF p
  <1>4. PiecesOK({p})
    BY <1>1, <1>2, <1>3 DEF PiecesOK, Lies, Addresses
  <1> QED
    BY <1>4 DEF p

PieceOf(x) == [slot |-> ChunkSlot(x), base |-> Region.base + x.offset, size |-> x.size]

(* Chunks are lent under different slots, counted on from next_lend_slot.       *)
LEMMA ChunkSlots ==
    ASSUME current \in 1 .. N, next_lend_slot \in Nat, N <= next_lend_slot,
           ~(Region.size <= LendChunk * ThpSize), NEW x \in LendChunks
    PROVE  /\ ChunkSlot(x) \in Nat
           /\ \/ ChunkSlot(x) = current - 1
              \/ /\ next_lend_slot <= ChunkSlot(x)
                 /\ ChunkSlot(x) < next_lend_slot + Cardinality(LendChunks) - 1
           /\ \A y \in LendChunks : ChunkSlot(x) = ChunkSlot(y) => x = y
  <1>1. \A z \in LendChunks : ChunkSlot(z) = IF Cardinality(Before(z)) = 0 THEN current - 1
                                             ELSE next_lend_slot + Cardinality(Before(z)) - 1
    BY DEF ChunkSlot, Before
  <1>2. /\ Cardinality(Before(x)) \in Nat /\ Cardinality(LendChunks) \in Nat
        /\ Cardinality(Before(x)) < Cardinality(LendChunks)
    BY CountsOn
  <1>3. current \in Nat /\ current - 1 \in Nat /\ current - 1 < next_lend_slot
    BY NType
  <1>4. ASSUME NEW v \in LendChunks, NEW w \in LendChunks, v.offset < w.offset
        PROVE  ChunkSlot(v) # ChunkSlot(w)
    <2>1. /\ Cardinality(Before(v)) \in Nat /\ Cardinality(Before(w)) \in Nat
          /\ Cardinality(Before(v)) < Cardinality(Before(w))
      BY <1>4, CountsOn
    <2> QED
      BY <1>1, <1>3, <2>1
  <1>5. ASSUME NEW y \in LendChunks, ChunkSlot(x) = ChunkSlot(y) PROVE x = y
    <2>1. x.offset \in Nat /\ y.offset \in Nat /\ (x.offset = y.offset => x = y)
      BY ChunksInside
    <2>2. ~(x.offset < y.offset) /\ ~(y.offset < x.offset)
      BY <1>4, <1>5
    <2> QED
      BY <2>1, <2>2
  <1> QED
    BY <1>1, <1>2, <1>3, <1>5

(* When there is more than one chunk, one of them takes next_lend_slot.         *)
LEMMA SecondChunk ==
    ASSUME current \in 1 .. N, next_lend_slot \in Nat,
           ~(Region.size <= LendChunk * ThpSize), LendChunks # {}, Cardinality(LendChunks) # 1
    PROVE  \E x \in LendChunks : ChunkSlot(x) = next_lend_slot
  <1> DEFINE C == Cardinality(LendChunks)
             f == [x \in LendChunks |-> Cardinality(Before(x))]
             I == {f[x] : x \in LendChunks}
  <1>1. IsFiniteSet(LendChunks) /\ C \in Nat /\ C > 1
    <2>1. IsFiniteSet(LendChunks)
      BY ChunksInside
    <2>2. C \in Nat /\ C # 0
      BY <2>1, FS_CardinalityType, FS_EmptySet
    <2> QED
      BY <2>1, <2>2
  <1>2. \A x \in LendChunks : f[x] \in 0 .. C - 1
    BY <1>1, CountsOn
  <1>3. \A x, y \in LendChunks : f[x] = f[y] => x = y
    <2> SUFFICES ASSUME NEW x \in LendChunks, NEW y \in LendChunks, f[x] = f[y] PROVE x = y
      OBVIOUS
    <2>1. x.offset \in Nat /\ y.offset \in Nat /\ (x.offset = y.offset => x = y)
      BY ChunksInside
    <2>2. ~(x.offset < y.offset) /\ ~(y.offset < x.offset)
      BY CountsOn
    <2> QED
      BY <2>1, <2>2
  <1>4. Cardinality(I) = C /\ IsFiniteSet(I)
    <2>1. f \in Surjection(LendChunks, I)
      BY DEF Surjection
    <2>2. f \in Injection(LendChunks, I)
      BY <1>3 DEF Injection, IsInjective
    <2> HIDE DEF f, I
    <2> QED
      BY <1>1, <2>1, <2>2, FS_Surjection
  <1>5. I = 0 .. C - 1
    <2>1. IsFiniteSet(0 .. C - 1) /\ Cardinality(0 .. C - 1) = C
      <3> HIDE DEF C
      <3>1. 0 \in Int /\ C - 1 \in Int /\ ~(0 > C - 1) /\ C - 1 - 0 + 1 = C
        BY <1>1
      <3> QED
        BY <3>1, FS_Interval
    <2>2. I \in SUBSET (0 .. C - 1)
      BY <1>2
    <2> HIDE DEF C, I
    <2> QED
      BY Zenon, <1>4, <2>1, <2>2, FS_Subset
  <1>6. PICK x \in LendChunks : Cardinality(Before(x)) = 1
    BY <1>1, <1>5
  <1> QED
    BY <1>6 DEF ChunkSlot, Before

(* The lent chunks of a region cover each of its addresses once, up to the last *)
(* multiple of 2 MB, and nothing beyond.                                        *)
LEMMA ChunkPieces ==
    ASSUME mthp_mode = "chunked", current \in 1 .. N, Region.lend,
           next_lend_slot \in Nat, N <= next_lend_slot,
           ~(Region.size <= LendChunk * ThpSize), LendChunks # {}
    PROVE  PiecesOK({PieceOf(x) : x \in LendChunks})
  <1> DEFINE P == {PieceOf(x) : x \in LendChunks}
  <1>1. Region.base \in Nat /\ Region.size \in Nat /\ T \in Nat \ {0}
    BY RegionType, ThpType DEF Region
  <1>2. \A x \in LendChunks : /\ PieceOf(x).slot = ChunkSlot(x) /\ PieceOf(x).size = x.size
                              /\ PieceOf(x).base = Region.base + x.offset
    BY DEF PieceOf
  <1>3. Cardinality(P) = Cardinality(LendChunks) /\ Cardinality(P) \in Nat \ {0}
    <2> DEFINE f == [x \in LendChunks |-> PieceOf(x)]
    <2>1. f \in Surjection(LendChunks, P)
      BY DEF Surjection
    <2>2. \A x, y \in LendChunks : PieceOf(x) = PieceOf(y) => x = y
      BY <1>2, ChunkSlots
    <2>3. f \in Injection(LendChunks, P)
      BY <2>2 DEF Injection, IsInjective
    <2>4. IsFiniteSet(LendChunks)
      BY ChunksInside
    <2> HIDE DEF f, P
    <2> QED
      BY <2>1, <2>3, <2>4, FS_Surjection, FS_CardinalityType, FS_EmptySet
  <1>4. ASSUME NEW p \in P
        PROVE  /\ p.base \in Nat /\ p.size \in Nat /\ p.slot \in Nat
               /\ Region.base <= p.base /\ p.base + p.size <= Region.base + Region.size
               /\ \/ p.slot = current - 1
                  \/ next_lend_slot <= p.slot /\ p.slot < next_lend_slot + Cardinality(P) - 1
    <2>1. PICK x \in LendChunks : p = PieceOf(x)
      OBVIOUS
    <2>2. p.slot = ChunkSlot(x) /\ p.size = x.size /\ p.base = Region.base + x.offset
      BY <1>2, <2>1
    <2>3. /\ x.offset \in Nat /\ x.size \in Nat /\ x.offset + x.size <= M * T
          /\ M * T \in Nat /\ M * T <= Region.size
      BY ChunksInside
    <2>4. /\ ChunkSlot(x) \in Nat
          /\ \/ ChunkSlot(x) = current - 1
             \/ /\ next_lend_slot <= ChunkSlot(x)
                /\ ChunkSlot(x) < next_lend_slot + Cardinality(LendChunks) - 1
      BY ChunkSlots
    <2> QED
      BY <1>1, <1>3, <2>2, <2>3, <2>4
  <1>5. \A p, q \in P : p.slot = q.slot => p = q
    <2> SUFFICES ASSUME NEW x \in LendChunks, NEW y \in LendChunks, PieceOf(x).slot = PieceOf(y).slot
                 PROVE  x = y
      OBVIOUS
    <2> QED
      BY <1>2, ChunkSlots
  <1>a. LeftOut(current) = Region.base + M * T .. Region.base + Region.size - 1
    BY <1>1, ThpType, OthersOK DEF LeftOut, Region, M, T
  <1>b. M * T \in Nat /\ M * T <= Region.size
    BY ChunksInside
  <1>c. ASSUME NEW a \in LeftOut(current), NEW p \in P PROVE ~Lies(a, p)
    <2>1. PICK x \in LendChunks : p = PieceOf(x)
      OBVIOUS
    <2>2. p.size = x.size /\ p.base = Region.base + x.offset
      BY <1>2, <2>1
    <2>3. x.offset \in Nat /\ x.size \in Nat /\ x.offset + x.size <= M * T
      BY ChunksInside
    <2> QED
      BY <1>1, <1>a, <1>b, <2>2, <2>3 DEF Lies
  <1>d. Cardinality(P) # 1 => \E p \in P : p.slot = next_lend_slot
    BY <1>2, <1>3, SecondChunk
  <1>6. ASSUME NEW a \in Addresses(Region), a \notin LeftOut(current)
        PROVE  \E p \in P : Lies(a, p) /\ \A q \in P : Lies(a, q) => q = p
    <2> DEFINE u == a - Region.base
               k == u \div T
    <2>1. a \in Nat /\ u \in Nat /\ u < M * T /\ a = Region.base + u
      BY <1>1, <1>6, <1>a, <1>b DEF Addresses
    <2> HIDE DEF u
    <2>3. k \in Nat /\ M \in Nat /\ Thps = 0 .. M - 1
      <3>1. M \in Nat /\ Thps = 0 .. M - 1
        BY ThpsNat
      <3>2. k \in Nat
        BY Zenon, <1>1, <2>1, DivMod
      <3> QED
        BY <3>1, <3>2
    <2>4. ~(M <= k)
      <3>1. ~(M * T <= u)
        BY <1>b, <2>1
      <3> QED
        BY Zenon, <1>1, <2>1, <2>3, <3>1, DivFloor
    <2>5. k \in Thps
      BY <2>3, <2>4
    <2>6. PICK c \in Thps : /\ StartsChunk(c) /\ k \in Ext(c)
                            /\ \A d \in Thps : StartsChunk(d) /\ k \in Ext(d) => d = c
      BY <2>5, OneStart
    <2>7. LendChunks = {ChunkAt(d) : d \in Starts}
      BY ChunksAre
    <2>8. ASSUME NEW d \in Starts PROVE Lies(a, PieceOf(ChunkAt(d))) <=> k \in Ext(d)
      <3>1. ChunkAt(d).offset = d * T /\ ChunkAt(d).size = T * Length(d)
        BY DEF ChunkAt, T
      <3>2. /\ PieceOf(ChunkAt(d)).base = Region.base + d * T
            /\ PieceOf(ChunkAt(d)).size = T * Length(d)
        BY <1>2, <2>7, <3>1
      <3>3. /\ d * T \in Nat /\ T * Length(d) \in Nat
            /\ (d * T <= u /\ u < d * T + T * Length(d)) <=> k \in Ext(d)
        BY <2>1, InChunk DEF Starts
      <3> QED
        BY <1>1, <2>1, <3>2, <3>3 DEF Lies
    <2>9. c \in Starts /\ PieceOf(ChunkAt(c)) \in P
      BY <2>6, <2>7 DEF Starts
    <2>10. ASSUME NEW q \in P, Lies(a, q) PROVE q = PieceOf(ChunkAt(c))
      <3>1. PICK d \in Starts : q = PieceOf(ChunkAt(d))
        BY <2>7
      <3>2. k \in Ext(d)
        BY <2>8, <2>10, <3>1
      <3> QED
        BY <2>6, <3>1, <3>2 DEF Starts
    <2> QED
      BY <2>6, <2>8, <2>9, <2>10
  <1> HIDE DEF P
  <1>7. PiecesOK(P)
    BY <1>3, <1>4, <1>5, <1>6, <1>c, <1>d DEF PiecesOK
  <1> QED
    BY <1>7 DEF P

(* So do the pieces of a lent region in any mode.                               *)
LEMMA LendPiecesOK ==
    ASSUME current \in 1 .. N, Region.lend, next_lend_slot \in Nat, N <= next_lend_slot
    PROVE  PiecesOK(LendPieces)
  <1>1. CASE mthp_mode = "chunked" /\ LendChunks # {}
    <2>1. ~(Region.size <= LendChunk * ThpSize)
      BY <1>1 DEF LendChunks
    <2>2. LendPieces = {PieceOf(x) : x \in LendChunks}
      BY <1>1 DEF LendPieces, PieceOf
    <2> QED
      BY <1>1, <2>1, <2>2, ChunkPieces
  <1>2. CASE ~(mthp_mode = "chunked" /\ LendChunks # {})
    <2>1. LendPieces = {[slot |-> current - 1, base |-> Region.base, size |-> Region.size]}
      BY <1>2 DEF LendPieces
    <2>2. CASE Region.size <= LendChunk * ThpSize \/ mthp_mode # "chunked"
      <3>1. LeftOut(current) = {}
        <4>1. Region.size \in Nat /\ LendChunk * ThpSize \in Nat
          BY RegionType, ThpType, OthersOK DEF Region, T
        <4> QED
          BY <2>2, <4>1 DEF LeftOut, Region
      <3> QED
        BY <2>1, <3>1, WholeRegion
    <2>3. CASE ~(Region.size <= LendChunk * ThpSize) /\ mthp_mode = "chunked"
      <3>1. Region.size \in Nat /\ T \in Nat \ {0} /\ LendChunk \in Nat \ {0} /\ M \in Nat /\ Thps = 0 .. M - 1
        BY RegionType, ThpType, ThpsNat, OthersOK DEF Region
      <3>2. 1 * T <= LendChunk * T
        BY <3>1, TimesMono
      <3>3. 1 * T <= Region.size
        BY <2>3, <3>1, <3>2 DEF T
      <3>4. 1 <= M
        BY Zenon, <3>1, <3>3, DivFloor DEF M
      <3>5. 0 \in Thps
        BY <3>1, <3>4
      <3>6. PICK c \in Thps : StartsChunk(c)
        BY <3>5, OneStart
      <3>7. ChunkAt(c) \in LendChunks
        BY <2>3, <3>6, ChunksAre DEF Starts
      <3> QED
        BY <1>2, <2>3, <3>7
    <2> QED
      BY <2>2, <2>3
  <1> QED
    BY <1>1, <1>2

-------------------------------------------------------------------------------
(* The labels under which an address is handed over. *)
Holders(a) == {s \in DOMAIN parcels : InParcel(a, s)}
Once(a) == \E s : Holders(a) = {s}

(* An address of region i is held once, or not at all when it is left out. *)
HeldRight(i, a) == IF a \in LeftOut(i) THEN Holders(a) = {} ELSE Once(a)

(* The invariant of the handing over: up to the current region every address    *)
(* is held once, from there on not at all; labels are those of the regions done *)
(* or were counted on; later regions stay off guest memory.                     *)
Handed ==
    /\ mthp_mode \in Modes
    /\ current \in 1 .. N + 1 /\ next_lend_slot \in Nat /\ N <= next_lend_slot
    /\ phase = "setup" =>
          /\ \A s \in DOMAIN parcels : s \in Nat /\ (s < current - 1 \/ (N <= s /\ s < next_lend_slot))
          /\ \A i \in 1 .. N : \A a \in Addresses(GuestRegions[i]) :
                IF i < current THEN HeldRight(i, a) ELSE Holders(a) = {}
    /\ phase \in {"created", "running"} =>
          \A i \in 1 .. N : \A a \in Addresses(GuestRegions[i]) : HeldRight(i, a)
    /\ \A s \in DOMAIN mem_regions :
          \A i \in 1 .. N : \A a \in Addresses(GuestRegions[i]) : ~Lies(a, mem_regions[s])

(* At the start nothing is handed over.                                         *)
LEMMA InitHanded == Init => Handed
  <1> SUFFICES ASSUME Init PROVE Handed
    OBVIOUS
  <1>1. DOMAIN parcels = {} /\ DOMAIN mem_regions = {}
    BY DEF Init, EmptyFun
  <1>2. \A a : Holders(a) = {}
    BY <1>1 DEF Holders
  <1>3. current = 1 /\ next_lend_slot = N /\ phase = "setup" /\ mthp_mode \in Modes
    BY DEF Init
  <1>4. \A i \in 1 .. N : ~(i < current)
    BY <1>3, NType
  <1> QED
    BY <1>1, <1>2, <1>3, <1>4, NType DEF Handed

(* Adding the pieces of the current region. *)
LEMMA PiecesAdded ==
    ASSUME Handed, phase = "setup", current \in 1 .. N, NEW pieces, PiecesOK(pieces), NEW lent,
           parcels' = AddParcels(pieces, lent), UNCHANGED mthp_mode
    PROVE  /\ DOMAIN parcels' = DOMAIN parcels \union {p.slot : p \in pieces}
           /\ \A i \in 1 .. N : \A a \in Addresses(GuestRegions[i]) :
                 IF i < current + 1 THEN HeldRight(i, a)' ELSE Holders(a)' = {}
  <1>1. DOMAIN parcels' = DOMAIN parcels \union {p.slot : p \in pieces}
    BY DEF AddParcels
  <1>2. current \in Nat /\ current - 1 < N
    BY NType
  <1>3. \A p \in pieces : p.slot \notin DOMAIN parcels
    BY <1>2, NType DEF Handed, PiecesOK
  <1>4. \A s \in DOMAIN parcels : parcels'[s] = parcels[s]
    BY <1>1, <1>3 DEF AddParcels
  <1>5. ASSUME NEW p \in pieces PROVE parcels'[p.slot].base = p.base /\ parcels'[p.slot].size = p.size
    <2> DEFINE c == CHOOSE q \in pieces : q.slot = p.slot
    <2>1. c = p
      BY DEF PiecesOK
    <2>2. parcels'[p.slot] = [base |-> c.base, size |-> c.size, lent |-> lent]
      BY ZenonT(30), <1>1 DEF AddParcels
    <2> HIDE DEF c
    <2> QED
      BY <2>1, <2>2
  <1>6. \A a : Holders(a)' = Holders(a) \union {p.slot : p \in {q \in pieces : Lies(a, q)}}
    <2> TAKE a
    <2>1. \A s \in DOMAIN parcels : s \in Holders(a)' <=> s \in Holders(a)
      BY <1>1, <1>4 DEF Holders, InParcel
    <2>2. \A p \in pieces : p.slot \in Holders(a)' <=> Lies(a, p)
      BY <1>1, <1>5 DEF Holders, InParcel, Lies
    <2>3. Holders(a)' \subseteq DOMAIN parcels' /\ Holders(a) \subseteq DOMAIN parcels
      BY DEF Holders
    <2> QED
      BY <1>1, <1>3, <2>1, <2>2, <2>3
  <1>7. ASSUME NEW i \in 1 .. N, i # current, NEW a \in Addresses(GuestRegions[i]), NEW p \in pieces
        PROVE  ~Lies(a, p)
    <2>1. /\ GuestRegions[i] \in [base : Nat, size : Nat \ {0}, lend : BOOLEAN]
          /\ Region \in [base : Nat, size : Nat \ {0}, lend : BOOLEAN]
      BY RegionType DEF Region
    <2>2. \/ GuestRegions[i].base + GuestRegions[i].size <= Region.base
          \/ Region.base + Region.size <= GuestRegions[i].base
      <3>1. i \in DOMAIN GuestRegions /\ current \in DOMAIN GuestRegions
        BY GuestOK DEF N
      <3> QED
        BY <1>7, <3>1, GuestOK DEF Region
    <2>3. p.base \in Nat /\ p.size \in Nat /\ Region.base <= p.base
          /\ p.base + p.size <= Region.base + Region.size
      BY DEF PiecesOK
    <2> QED
      BY <2>1, <2>2, <2>3 DEF Lies, Addresses
  <1>8. ASSUME NEW i \in 1 .. N, NEW a \in Addresses(GuestRegions[i])
        PROVE  IF i < current + 1 THEN HeldRight(i, a)' ELSE Holders(a)' = {}
    <2>1. CASE i # current
      <3>1. Holders(a)' = Holders(a)
        BY Zenon, <1>6, <1>7, <2>1
      <3>2. i < current + 1 <=> i < current
        BY <1>2, <2>1
      <3>3. IF i < current THEN HeldRight(i, a) ELSE Holders(a) = {}
        BY DEF Handed
      <3>4. HeldRight(i, a)' <=> HeldRight(i, a)
        BY <3>1 DEF Once, HeldRight, LeftOut
      <3> QED
        BY <3>1, <3>2, <3>3, <3>4
    <2>2. CASE i = current
      <3>a. ~(i < current) /\ i < current + 1
        BY <1>2, <2>2
      <3>1. Holders(a) = {}
        BY <3>a DEF Handed
      <3>b. LeftOut(i)' = LeftOut(i)
        BY DEF LeftOut
      <3>2. CASE a \in LeftOut(i)
        <4>1. Holders(a)' = {}
          BY <1>6, <2>2, <3>1, <3>2 DEF PiecesOK, Region
        <4> QED
          BY <3>a, <3>b, <3>2, <4>1 DEF HeldRight
      <3>3. CASE a \notin LeftOut(i)
        <4>1. PICK p \in pieces : Lies(a, p) /\ \A q \in pieces : Lies(a, q) => q = p
          BY <2>2, <3>3 DEF PiecesOK, Region
        <4>2. Holders(a)' = {p.slot}
          BY <1>6, <3>1, <4>1
        <4> QED
          BY Zenon, <3>a, <3>b, <3>3, <4>2 DEF HeldRight, Once
      <3> QED
        BY <3>2, <3>3
    <2> QED
      BY <2>1, <2>2
  <1> QED
    BY <1>1, <1>8

(* A region is handed over in pieces as SetupRegion needs them.                 *)
LEMMA SetupPieces ==
    ASSUME Handed, SetupRegion
    PROVE  /\ current \in 1 .. N
           /\ \E pieces, lent : /\ PiecesOK(pieces) /\ parcels' = AddParcels(pieces, lent)
                                /\ next_lend_slot' = next_lend_slot + Cardinality(pieces) - 1
  <1>2. current \in 1 .. N /\ current \in Nat
    BY NType DEF Handed, SetupRegion
  <1>3. \E pieces, lent : /\ PiecesOK(pieces) /\ parcels' = AddParcels(pieces, lent)
                          /\ next_lend_slot' = next_lend_slot + Cardinality(pieces) - 1
    <2>1. CASE Region.lend
      BY Zenon, <1>2, <2>1, LendPiecesOK DEF SetupRegion, Handed
    <2>2. CASE ~Region.lend
      <3> DEFINE whole == {[slot |-> current - 1, base |-> Region.base, size |-> Region.size]}
      <3>1. PiecesOK(whole)
        BY <1>2, <2>2, WholeRegion DEF Handed, LeftOut, Region
      <3>2. Cardinality(whole) = 1
        BY Zenon, FS_Singleton
      <3>3. next_lend_slot' = next_lend_slot /\ parcels' = AddParcels(whole, FALSE)
        BY <2>2 DEF SetupRegion
      <3> HIDE DEF whole
      <3>4. next_lend_slot' = next_lend_slot + Cardinality(whole) - 1
        BY <3>2, <3>3 DEF Handed
      <3> QED
        BY Zenon, <3>1, <3>3, <3>4
    <2> QED
      BY <2>1, <2>2
  <1> QED
    BY <1>2, <1>3

(* Handing over one region keeps the others as they are.                        *)
LEMMA SetupHanded ==
    ASSUME Handed, SetupRegion
    PROVE  Handed'
  <1>1. /\ phase = "setup" /\ phase' = "setup" /\ current' = current + 1
        /\ UNCHANGED <<mthp_mode, mem_regions>>
    BY DEF SetupRegion, slotVars
  <1>2. current \in 1 .. N /\ current \in Nat
    BY SetupPieces, NType
  <1>4. PICK pieces, lent : /\ PiecesOK(pieces) /\ parcels' = AddParcels(pieces, lent)
                            /\ next_lend_slot' = next_lend_slot + Cardinality(pieces) - 1
    BY SetupPieces
  <1>5. /\ DOMAIN parcels' = DOMAIN parcels \union {p.slot : p \in pieces}
        /\ \A i \in 1 .. N : \A a \in Addresses(GuestRegions[i]) :
              IF i < current + 1 THEN HeldRight(i, a)' ELSE Holders(a)' = {}
    BY Zenon, <1>1, <1>2, <1>4, PiecesAdded
  <1>6. next_lend_slot' \in Nat /\ next_lend_slot <= next_lend_slot' /\ next_lend_slot \in Nat
        /\ N <= next_lend_slot' /\ N \in Nat
    BY <1>4, NType DEF PiecesOK, Handed
  <1>7. \A s \in DOMAIN parcels' : s \in Nat /\ (s < current' - 1 \/ (N <= s /\ s < next_lend_slot'))
    <2>1. ASSUME NEW s \in DOMAIN parcels
          PROVE  s \in Nat /\ (s < current' - 1 \/ (N <= s /\ s < next_lend_slot'))
      BY SMTT(30), <1>1, <1>2, <1>6 DEF Handed
    <2>2. ASSUME NEW p \in pieces
          PROVE  p.slot \in Nat /\ (p.slot < current' - 1 \/ (N <= p.slot /\ p.slot < next_lend_slot'))
      BY <1>1, <1>2, <1>4, <1>6 DEF PiecesOK, Handed
    <2> QED
      BY <1>5, <2>1, <2>2
  <1>8. \A i \in 1 .. N : \A a \in Addresses(GuestRegions[i]) :
              IF i < current' THEN HeldRight(i, a)' ELSE Holders(a)' = {}
    BY <1>1, <1>5
  <1>9. current' \in 1 .. N + 1 /\ mthp_mode' \in Modes
    BY <1>1, <1>2, NType DEF Handed
  <1>10. \A s \in DOMAIN mem_regions' :
            \A i \in 1 .. N : \A a \in Addresses(GuestRegions[i]) : ~Lies(a, mem_regions'[s])
    BY <1>1 DEF Handed
  <1> QED
    BY <1>1, <1>6, <1>7, <1>8, <1>9, <1>10 DEF Handed, Lies

(* A window the caller may add lies off guest memory. *)
LEMMA WindowsOff ==
    ASSUME NEW w \in Windows, MayAdd(w), NEW i \in 1 .. N, NEW a \in Addresses(GuestRegions[i])
    PROVE  ~Lies(a, [base |-> w.base, size |-> RoundUp(w.size)])
  <1>1. GuestRegions[i] \in [base : Nat, size : Nat \ {0}, lend : BOOLEAN]
    BY RegionType
  <1>2. w.base \in Nat /\ w.size \in Nat /\ PageSize \in Nat \ {0}
    BY OthersOK
  <1>3. w.size + PageSize - 1 \in Nat
    BY <1>2
  <1>4. (w.size + PageSize - 1) \div PageSize \in Nat
    BY <1>2, <1>3, DivMod
  <1>5. RoundUp(w.size) \in Nat
    BY <1>2, <1>4 DEF RoundUp
  <1>6. ~Overlap(w.base, RoundUp(w.size), GuestRegions[i].base, GuestRegions[i].size)
    BY DEF MayAdd
  <1> QED
    BY <1>1, <1>2, <1>5, <1>6 DEF Overlap, Lies, Addresses

(* Parcels that hold no address of guest memory come and go. *)
LEMMA OffGuest ==
    ASSUME Handed, phase \in {"created", "running"}, phase' \in {"created", "running"},
           UNCHANGED <<mthp_mode, current, next_lend_slot>>,
           \A i \in 1 .. N : \A a \in Addresses(GuestRegions[i]) :
              /\ Holders(a)' = Holders(a)
              /\ \A s \in DOMAIN mem_regions' : ~Lies(a, mem_regions'[s])
    PROVE  Handed'
  <1>1. \A i \in 1 .. N : \A a \in Addresses(GuestRegions[i]) : HeldRight(i, a)'
    <2>1. \A i : LeftOut(i)' = LeftOut(i)
      BY DEF LeftOut
    <2> QED
      BY Zenon, <2>1 DEF Handed, Once, HeldRight
  <1>2. phase' # "setup"
    OBVIOUS
  <1> QED
    BY <1>1, <1>2 DEF Handed, Lies

(* A window that is added stays off guest memory.                               *)
LEMMA AddHanded ==
    ASSUME Handed, NEW w \in Windows, AddMemoryRegion(w)
    PROVE  Handed'
  <1>1. /\ MayAdd(w) /\ phase \in {"created", "running"} /\ phase' = phase
        /\ UNCHANGED <<mthp_mode, current, next_lend_slot>>
    BY ZenonT(30) DEF AddMemoryRegion, MayAdd, setupVars
  <1>2. PICK slot, lent :
          /\ slot \notin DOMAIN parcels
          /\ parcels' = With(parcels, slot, [base |-> w.base, size |-> RoundUp(w.size), lent |-> lent])
          /\ mem_regions' = With(mem_regions, slot, [base |-> w.base, size |-> RoundUp(w.size)])
    BY ZenonT(30) DEF AddMemoryRegion
  <1>3. ASSUME NEW i \in 1 .. N, NEW a \in Addresses(GuestRegions[i])
        PROVE  /\ Holders(a)' = Holders(a)
               /\ \A s \in DOMAIN mem_regions' : ~Lies(a, mem_regions'[s])
    <2>1. ~Lies(a, [base |-> w.base, size |-> RoundUp(w.size)])
      BY ZenonT(30), <1>1, WindowsOff
    <2>2. Holders(a)' = Holders(a)
      BY <1>2, <2>1 DEF Holders, InParcel, With, Lies
    <2>3. \A s \in DOMAIN mem_regions : ~Lies(a, mem_regions[s])
      BY DEF Handed
    <2>4. /\ DOMAIN mem_regions' = DOMAIN mem_regions \union {slot}
          /\ mem_regions'[slot] = [base |-> w.base, size |-> RoundUp(w.size)]
          /\ \A s \in DOMAIN mem_regions \ {slot} : mem_regions'[s] = mem_regions[s]
      BY <1>2 DEF With
    <2> QED
      BY <2>1, <2>2, <2>3, <2>4
  <1> QED
    BY ZenonT(30), <1>1, <1>3, OffGuest

(* A window that is removed takes no guest memory with it.                      *)
LEMMA RemoveHanded ==
    ASSUME IInv, Handed, NEW slot \in DOMAIN mem_regions, RemoveMemoryRegion(slot)
    PROVE  Handed'
  <1>1. /\ phase \in {"created", "running"} /\ phase' = phase
        /\ UNCHANGED <<mthp_mode, current, next_lend_slot>>
        /\ mem_regions' = Without(mem_regions, slot)
        /\ parcels' = parcels \/ parcels' = Without(parcels, slot)
    BY DEF RemoveMemoryRegion, setupVars
  <1>2. ASSUME NEW i \in 1 .. N, NEW a \in Addresses(GuestRegions[i])
        PROVE  /\ Holders(a)' = Holders(a)
               /\ \A s \in DOMAIN mem_regions' : ~Lies(a, mem_regions'[s])
    <2>1. \A s \in DOMAIN mem_regions : ~Lies(a, mem_regions[s])
      BY DEF Handed
    <2>2. slot \notin Holders(a)
      BY <2>1 DEF Holders, InParcel, Lies, IInv, RegionsBacked
    <2>3. Holders(a)' = Holders(a)
      BY <1>1, <2>2 DEF Holders, InParcel, Without
    <2>4. \A s \in DOMAIN mem_regions' : s \in DOMAIN mem_regions /\ mem_regions'[s] = mem_regions[s]
      BY <1>1 DEF Without
    <2> QED
      BY <2>1, <2>3, <2>4
  <1> QED
    BY <1>1, <1>2, OffGuest

(* Steps that neither hand over nor take back anything. *)
LEMMA StillHanded ==
    ASSUME Handed, UNCHANGED <<parcels, mem_regions, mthp_mode, current, next_lend_slot>>,
           \/ phase' = phase
           \/ phase' = "failed"
           \/ phase = "setup" /\ current > N /\ phase' = "created"
           \/ phase = "created" /\ phase' = "running"
    PROVE  Handed'
  <1>1. \A i, a : Holders(a)' = Holders(a) /\ (HeldRight(i, a)' <=> HeldRight(i, a))
    BY DEF Holders, InParcel, Once, HeldRight, LeftOut
  <1>2. \A i \in 1 .. N : current > N /\ current \in Nat => i < current
    BY NType
  <1>3. \A s \in DOMAIN mem_regions' :
            \A i \in 1 .. N : \A a \in Addresses(GuestRegions[i]) : ~Lies(a, mem_regions'[s])
    BY DEF Handed
  <1>4. phase' = "setup" => phase = "setup"
    OBVIOUS
  <1>5. phase' \in {"created", "running"} =>
          \A i \in 1 .. N : \A a \in Addresses(GuestRegions[i]) : HeldRight(i, a)'
    <2>1. CASE phase = "setup" /\ current > N
      <3>1. current \in Nat
        BY NType DEF Handed
      <3> QED
        BY <1>1, <1>2, <2>1, <3>1 DEF Handed
    <2>2. CASE phase \in {"created", "running"}
      BY <1>1, <2>2 DEF Handed
    <2> QED
      BY <2>1, <2>2
  <1>6. phase' = "setup" =>
          /\ \A s \in DOMAIN parcels' : s \in Nat /\ (s < current' - 1 \/ (N <= s /\ s < next_lend_slot'))
          /\ \A i \in 1 .. N : \A a \in Addresses(GuestRegions[i]) :
                IF i < current' THEN HeldRight(i, a)' ELSE Holders(a)' = {}
    BY <1>1, <1>4 DEF Handed
  <1> QED
    BY <1>3, <1>5, <1>6 DEF Handed, Lies

(* Every step preserves Handed.                                                 *)
LEMMA NextHanded ==
    ASSUME IInv, Handed, [Next]_vars
    PROVE  Handed'
  <1>1. ASSUME NEW succeeds \in BOOLEAN, Collapse(succeeds) PROVE Handed'
    BY <1>1, StillHanded DEF Collapse, slotVars
  <1>2. CASE SetupRegion
    BY <1>2, SetupHanded
  <1>3. CASE SetupFails
    BY <1>3, StillHanded DEF SetupFails, setupVars, slotVars
  <1>4. CASE Created
    BY <1>4, StillHanded DEF Created, setupVars, slotVars
  <1>5. CASE InitArch
    BY <1>5, StillHanded DEF InitArch, setupVars, slotVars
  <1>6. ASSUME NEW w \in Windows, AddMemoryRegion(w) PROVE Handed'
    BY <1>6, AddHanded
  <1>7. ASSUME NEW w \in Windows, AddFails(w) PROVE Handed'
    BY <1>7, StillHanded DEF AddFails, setupVars
  <1>8. ASSUME NEW slot \in DOMAIN mem_regions, RemoveMemoryRegion(slot) PROVE Handed'
    BY <1>8, RemoveHanded
  <1>9. CASE UNCHANGED vars
    BY <1>9, StillHanded DEF vars
  <1> QED
    BY ZenonT(30), <1>1, <1>2, <1>3, <1>4, <1>5, <1>6, <1>7, <1>8, <1>9 DEF Next

(* Once GunyahVm::new is done, every address of guest memory is handed over     *)
(* under exactly one label, but for the rest compute_lend_chunks leaves out,    *)
(* which is under none; and it stays so whatever devices add and remove: for    *)
(* every guest memory, every collapse the kernel grants or refuses and every    *)
(* way of lending.                                                              *)
THEOREM GuestMemoryIsHandedOver == Spec => []GuestMemoryHandedOver
  <1>1. Handed => GuestMemoryHandedOver
    <2> SUFFICES ASSUME Handed, phase \in {"created", "running"}, NEW i \in 1 .. N,
                        NEW a \in Addresses(GuestRegions[i])
                 PROVE  Cardinality({s \in DOMAIN parcels : InParcel(a, s)}) = IF a \in LeftOut(i) THEN 0 ELSE 1
      BY DEF GuestMemoryHandedOver, Addresses
    <2>1. HeldRight(i, a)
      BY Zenon DEF Handed
    <2>2. CASE a \in LeftOut(i)
      BY <2>1, <2>2, FS_EmptySet DEF Holders, HeldRight
    <2>3. CASE a \notin LeftOut(i)
      <3>1. PICK s : Holders(a) = {s}
        BY Zenon, <2>1, <2>3 DEF Once, HeldRight
      <3>2. Cardinality({s}) = 1
        BY FS_Singleton
      <3> QED
        BY <2>3, <3>1, <3>2 DEF Holders
    <2> QED
      BY <2>2, <2>3
  <1> QED
    BY <1>1, InitIInv, NextIInv, InitHanded, NextHanded, PTL DEF Spec

-------------------------------------------------------------------------------
(* The labels of chunks.  When they run past the number of guest regions, the   *)
(* first slot of a window is one of them; otherwise the kernel's labels are     *)
(* those of guest memory, of windows, and of parcels it kept.                   *)
Labels ==
    /\ next_lend_slot > N => N \in DOMAIN parcels /\ Used = {}
    /\ next_lend_slot = N => \A s \in DOMAIN parcels : s \in Nat /\ (s < N \/ s \in Used \/ s \in unremoved)

(* At the start there is no label.                                              *)
LEMMA InitLabels == Init => Labels
  BY NType DEF Init, Labels, EmptyFun, Used

(* Handing over a region: of several chunks the second takes next_lend_slot.    *)
LEMMA SetupLabels ==
    ASSUME IInv, Handed, Labels, SetupRegion, Handed'
    PROVE  Labels'
  <1>1. PICK pieces, lent : /\ PiecesOK(pieces) /\ parcels' = AddParcels(pieces, lent)
                            /\ next_lend_slot' = next_lend_slot + Cardinality(pieces) - 1
    BY SetupPieces
  <1>2. Used' = {} /\ Used = {} /\ phase' = "setup"
    BY DEF SetupRegion, slotVars, Used, IInv
  <1>3. DOMAIN parcels' = DOMAIN parcels \union {p.slot : p \in pieces}
    BY <1>1 DEF AddParcels
  <1>4. next_lend_slot \in Nat /\ N <= next_lend_slot /\ N \in Nat /\ Cardinality(pieces) \in Nat
        /\ current' \in 1 .. N + 1
    BY <1>1, NType DEF Handed, PiecesOK
  <1>5. next_lend_slot' > N => N \in DOMAIN parcels'
    <2>1. CASE next_lend_slot > N
      BY <1>3, <2>1 DEF Labels
    <2>2. CASE next_lend_slot = N /\ Cardinality(pieces) # 1
      BY <1>1, <1>3, <2>2 DEF PiecesOK
    <2>3. CASE next_lend_slot = N /\ Cardinality(pieces) = 1
      BY <1>1, <1>4, <2>3
    <2> QED
      BY <1>4, <2>1, <2>2, <2>3
  <1>6. next_lend_slot' = N => \A s \in DOMAIN parcels' : s \in Nat /\ s < N
    BY <1>2, <1>4 DEF Handed
  <1> QED
    BY <1>2, <1>5, <1>6 DEF Labels

(* A window is added only where the first slot is no chunk's.                   *)
LEMMA AddLabels ==
    ASSUME IInv, Handed, Labels, NEW w \in Windows, AddMemoryRegion(w)
    PROVE  Labels'
  <1>1. PICK slot \in NextSlots :
          /\ slot \notin DOMAIN parcels
          /\ DOMAIN parcels' = DOMAIN parcels \union {slot}
          /\ Used' = Used \union {slot}
    BY DEF AddMemoryRegion, With, Used
  <1>2. UNCHANGED <<next_lend_slot, unremoved>>
    BY DEF AddMemoryRegion, setupVars
  <1>3. next_lend_slot \in Nat /\ N \in Nat
    BY NType DEF Handed
  <1>4. slot \in Nat
    BY NextSlotNat
  <1>5. ~(next_lend_slot > N)
    <2>1. SUFFICES ASSUME next_lend_slot > N PROVE FALSE
      OBVIOUS
    <2>2. Used = {} /\ N \in DOMAIN parcels
      BY <2>1 DEF Labels
    <2>3. slot = N
      BY <2>2, NextSlotFirst
    <2> QED
      BY <1>1, <2>2, <2>3
  <1> QED
    BY <1>1, <1>2, <1>3, <1>4, <1>5 DEF Labels

(* The other steps.                                                             *)
LEMMA NextLabels ==
    ASSUME IInv, Handed, Labels, [Next]_vars, Handed'
    PROVE  Labels'
  <1>1. CASE SetupRegion
    BY <1>1, SetupLabels
  <1>2. ASSUME NEW w \in Windows, AddMemoryRegion(w) PROVE Labels'
    BY <1>2, AddLabels
  <1>3. ASSUME NEW slot \in DOMAIN mem_regions, RemoveMemoryRegion(slot) PROVE Labels'
    <2>1. /\ Used' = Used \ {slot} /\ slot \in Used /\ next_lend_slot' = next_lend_slot
          /\ \/ DOMAIN parcels' = DOMAIN parcels \ {slot} /\ unremoved' = unremoved
             \/ parcels' = parcels /\ unremoved' = unremoved \union {slot}
      BY <1>3 DEF RemoveMemoryRegion, setupVars, Without, Used
    <2> QED
      BY <2>1 DEF Labels
  <1>4. ASSUME UNCHANGED <<next_lend_slot, parcels, mem_regions, unremoved>> PROVE Labels'
    BY <1>4 DEF Labels, Used
  <1>5. ASSUME NEW succeeds \in BOOLEAN, Collapse(succeeds) PROVE Labels'
    BY <1>4, <1>5 DEF Collapse, slotVars
  <1>6. CASE SetupFails \/ Created \/ InitArch
    BY Zenon, <1>4, <1>6 DEF SetupFails, Created, InitArch, setupVars, slotVars
  <1>7. ASSUME NEW w \in Windows, AddFails(w) PROVE Labels'
    BY <1>4, <1>7 DEF AddFails, setupVars
  <1>8. CASE UNCHANGED vars
    BY <1>4, <1>8 DEF vars
  <1> QED
    BY Zenon, <1>1, <1>2, <1>3, <1>5, <1>6, <1>7, <1>8 DEF Next

(* The slots of windows in use and those given back are always an interval from *)
(* the number of guest regions on, each on one side: add_memory_region, which   *)
(* counts the regions to find a new slot, never takes another window's.  The    *)
(* kernel has its label free unless it kept a parcel it was asked to remove, or *)
(* chunks of guest memory have run into it: then no window is ever added.       *)
THEOREM SlotsArePartitioned == Spec => []SlotsPartition
  <1>1. ASSUME IInv, Handed, Labels PROVE SlotsPartition
    <2>1. CASE next_lend_slot > N
      BY <1>1, <2>1 DEF IInv, Partition, Used, SlotsPartition, Labels
    <2>2. CASE ~(next_lend_slot > N)
      <3>1. next_lend_slot = N
        BY <1>1, <2>2, NType DEF Handed
      <3>2. ASSUME NEW s \in NextSlots, s \in DOMAIN parcels PROVE s \in unremoved
        <4>1. s \notin Used /\ s \in Nat /\ s >= N
          BY <1>1, NextSlotFresh, NextSlotNat
        <4> QED
          BY <1>1, <3>1, <3>2, <4>1, NType DEF Labels
      <3> QED
        BY <1>1, <2>2, <3>2, NType DEF IInv, Partition, Used, SlotsPartition
    <2> QED
      BY <2>1, <2>2
  <1>2. IInv /\ Handed /\ Labels => SlotsPartition
    BY <1>1
  <1> QED
    BY InitIInv, NextIInv, InitHanded, NextHanded, InitLabels, NextLabels, <1>2, PTL DEF Spec

---------------------------------------------------------------------------
(* The address allocator.                                                  *)

CONSTANTS MaxAddr, Pools, Allocs, NoRange, MinAlign, PreferredAlign,
          Sizes, Alignments                            \* of AddressAllocator
VARIABLES regions, allocs

AA == INSTANCE AddressAllocator

(* The configuration is kept in the invariant, where each step finds it.   *)
AllocInv == AA!PoolsAssumption /\ AA!AllocAssumption /\ AA!TypeOK /\ AA!NoOverlap /\ AA!UnionIsPools

(* AlignUp and AlignDown move an address by less than the alignment        *)
(* (internal_allocate_with_align).                                         *)
LEMMA AlignBounds ==
  ASSUME NEW a \in Nat, NEW n \in Nat \ {0}
  PROVE  /\ AA!AlignUp(a, n) \in Nat /\ AA!AlignUp(a, n) >= a
         /\ AA!AlignDown(a, n) \in Nat /\ AA!AlignDown(a, n) <= a
<1>1. a % n \in 0 .. n - 1
  BY Z3
<1>2. a % n <= a
  BY Z3
<1> QED
  BY <1>1, <1>2 DEF AA!AlignUp, AA!AlignDown

(* What is placed in a region that fits it lies inside the region          *)
(* (internal_allocate_with_align).                                         *)
LEMMA PlacedInside ==
  ASSUME NEW r \in AA!Nonempty, NEW size \in Nat \ {0}, NEW n \in Nat \ {0}, NEW reverse \in BOOLEAN,
         AA!Fits(r, size, n, reverse)
  PROVE  /\ AA!Placed(r, size, n, reverse) \in AA!Nonempty
         /\ AA!ContainsRange(r, AA!Placed(r, size, n, reverse))
<1>1. CASE reverse
  <2>1. r.end - (size - 1) \in Nat
    BY <1>1 DEF AA!Fits, AA!Nonempty
  <2>2. /\ AA!AlignDown(r.end - (size - 1), n) \in Nat
        /\ AA!AlignDown(r.end - (size - 1), n) <= r.end - (size - 1)
    BY <2>1, AlignBounds
  <2> QED
    BY <1>1, <2>2 DEF AA!Fits, AA!Placed, AA!Place, AA!ContainsRange, AA!Nonempty, AA!R
<1>2. CASE ~reverse
  <2>1. AA!AlignUp(r.start, n) \in Nat /\ AA!AlignUp(r.start, n) >= r.start
    BY AlignBounds DEF AA!Nonempty
  <2> QED
    BY <1>2, <2>1 DEF AA!Fits, AA!Placed, AA!Place, AA!ContainsRange, AA!Nonempty, AA!R
<1> QED
  BY <1>1, <1>2

(* Cutting a range out of a free region keeps the invariant                *)
(* (internal_allocate_from_slot).                                          *)
LEMMA GrantStep ==
  ASSUME AllocInv, NEW a \in Allocs, allocs[a] = NoRange, NEW slot \in regions, NEW r \in AA!Nonempty,
         AA!ContainsRange(slot, r), AA!Grant(a, slot, r)
  PROVE  AllocInv'
<1> DEFINE cut == {s \in {AA!R(slot.start, r.start - 1), AA!R(r.end + 1, slot.end)} : s.start <= s.end}
<1>1. /\ regions' = (regions \ {slot}) \cup cut
      /\ allocs' = [allocs EXCEPT ![a] = r]
  BY DEF AA!Grant, AA!Take
<1>2. /\ slot \in AA!Nonempty /\ regions \subseteq AA!Nonempty
      /\ allocs \in [Allocs -> AA!Nonempty \cup {NoRange}]
  BY DEF AllocInv, AA!TypeOK
<1>3. /\ slot.start \in Nat /\ slot.end \in Nat /\ r.start \in Nat /\ r.end \in Nat
      /\ slot.start <= r.start /\ r.start <= r.end /\ r.end <= slot.end
  BY <1>2 DEF AA!Nonempty, AA!ContainsRange
<1>4. \A s \in cut : s \in AA!Nonempty /\ AA!ContainsRange(slot, s) /\ AA!Apart(s, r)
  BY <1>3 DEF AA!Nonempty, AA!ContainsRange, AA!Apart, AA!R
<1>5. \A s, t \in cut : s # t => AA!Apart(s, t)
  BY <1>3 DEF AA!Apart, AA!R
<1>6. \A x \in Nat : AA!In(x, slot) <=> (AA!In(x, r) \/ \E s \in cut : AA!In(x, s))
  <2> SUFFICES ASSUME NEW x \in Nat
               PROVE  AA!In(x, slot) <=> (AA!In(x, r) \/ \E s \in cut : AA!In(x, s))
    OBVIOUS
  <2> DEFINE before == AA!R(slot.start, r.start - 1)
             after == AA!R(r.end + 1, slot.end)
  <2>0. /\ before.start = slot.start /\ before.end = r.start - 1
        /\ after.start = r.end + 1 /\ after.end = slot.end
        /\ cut = {s \in {before, after} : s.start <= s.end}
    BY DEF AA!R
  <2>1. CASE x < r.start
    <3>1. AA!In(x, slot) <=> before \in cut /\ AA!In(x, before)
      BY <2>0, <2>1, <1>3 DEF AA!In
    <3>2. ~AA!In(x, r) /\ ~AA!In(x, after)
      BY <2>0, <2>1, <1>3 DEF AA!In
    <3> QED
      BY <2>0, <3>1, <3>2
  <2>2. CASE r.start <= x /\ x <= r.end
    BY <2>2, <1>3 DEF AA!In, AA!R
  <2>3. CASE r.end < x
    <3>1. AA!In(x, slot) <=> after \in cut /\ AA!In(x, after)
      BY <2>0, <2>3, <1>3 DEF AA!In
    <3>2. ~AA!In(x, r) /\ ~AA!In(x, before)
      BY <2>0, <2>3, <1>3 DEF AA!In
    <3> QED
      BY <2>0, <3>1, <3>2
  <2> QED
    BY <2>1, <2>2, <2>3, <1>3
<1>7. NoRange # r
  BY DEF AllocInv, AA!AllocAssumption, AA!Nonempty
<1>8. AA!Held' = AA!Held \cup {a} /\ allocs'[a] = r /\ \A b \in AA!Held : b # a /\ allocs'[b] = allocs[b]
  BY <1>1, <1>2, <1>7 DEF AA!Held
<1>9. AA!TypeOK'
  BY <1>1, <1>2, <1>4 DEF AA!TypeOK
<1>10. AA!NoOverlap'
  <2>1. \A s, t \in regions' : s # t => AA!Apart(s, t)
    <3>1. \A s \in regions \ {slot} : \A t \in cut : AA!Apart(s, t)
      BY <1>2, <1>3, <1>4 DEF AllocInv, AA!NoOverlap, AA!Apart, AA!ContainsRange, AA!Nonempty
    <3> QED
      BY <1>1, <1>2, <1>4, <1>5, <3>1 DEF AllocInv, AA!NoOverlap, AA!Apart, AA!Nonempty
  <2>2. \A b \in AA!Held' : \A t \in regions' : AA!Apart(allocs'[b], t)
    <3>1. \A b \in AA!Held : \A t \in regions \cup cut : AA!Apart(allocs[b], t)
      BY <1>2, <1>3, <1>4 DEF AllocInv, AA!NoOverlap, AA!Apart, AA!ContainsRange, AA!Nonempty, AA!Held
    <3>2. \A t \in regions \ {slot} : AA!Apart(r, t)
      BY <1>2, <1>3 DEF AllocInv, AA!NoOverlap, AA!Apart, AA!Nonempty
    <3>3. \A t \in cut : AA!Apart(r, t)
      BY <1>4 DEF AA!Apart
    <3> QED
      BY <1>1, <1>8, <3>1, <3>2, <3>3
  <2>3. \A b, c \in AA!Held' : b # c => AA!Apart(allocs'[b], allocs'[c])
    <3>1. \A b \in AA!Held : AA!Apart(allocs[b], r) /\ AA!Apart(r, allocs[b])
      BY <1>2, <1>3 DEF AllocInv, AA!NoOverlap, AA!Apart, AA!ContainsRange, AA!Nonempty, AA!Held
    <3> QED
      BY <1>8, <3>1 DEF AllocInv, AA!NoOverlap
  <2> QED
    BY <2>1, <2>2, <2>3 DEF AA!NoOverlap
<1>11. AA!UnionIsPools'
  <2> SUFFICES ASSUME NEW x \in AA!Addrs
               PROVE (\E p \in Pools : AA!In(x, p)) <=>
                     ((\E s \in regions' : AA!In(x, s)) \/ (\E b \in AA!Held' : AA!In(x, allocs'[b])))
    BY DEF AA!UnionIsPools
  <2>1. x \in Nat
    BY DEF AA!Addrs
  <2>2. (\E s \in regions' : AA!In(x, s)) \/ AA!In(x, r) <=> (\E s \in regions : AA!In(x, s))
    BY <1>1, <1>6, <2>1
  <2>3. (\E b \in AA!Held' : AA!In(x, allocs'[b])) <=> AA!In(x, r) \/ (\E b \in AA!Held : AA!In(x, allocs[b]))
    BY <1>8
  <2> QED
    BY <2>2, <2>3 DEF AllocInv, AA!UnionIsPools
<1> QED
  BY <1>9, <1>10, <1>11 DEF AllocInv

(* Putting a range back, merged with the regions it touches, keeps the     *)
(* invariant; insert_at never refuses it (release, insert_at).             *)
LEMMA ReleaseStep ==
  ASSUME AllocInv, NEW a \in Allocs, AA!Release(a)
  PROVE  AllocInv'
<1> DEFINE s == allocs[a]
           lo == AA!Before(regions, s)
           hi == AA!After(regions, s)
           m == AA!Merged(lo, hi, s)
<1>1. /\ a \in AA!Held /\ regions \subseteq AA!Nonempty /\ s \in AA!Nonempty
      /\ allocs \in [Allocs -> AA!Nonempty \cup {NoRange}]
  BY DEF AllocInv, AA!TypeOK, AA!Release, AA!Held
<1>2. /\ \A r \in regions : r.start \in Nat /\ r.end \in Nat /\ r.start <= r.end /\ AA!Apart(s, r)
      /\ s.start \in Nat /\ s.end \in Nat /\ s.start <= s.end
  BY <1>1 DEF AllocInv, AA!NoOverlap, AA!Nonempty
<1>3. ~AA!Refused(regions, s)
  BY <1>2 DEF AA!Refused, AA!Below, AA!Above, AA!Highest, AA!Lowest, AA!Apart
<1>4. /\ regions' = (regions \ (lo \cup hi)) \cup {m}
      /\ allocs' = [allocs EXCEPT ![a] = NoRange]
  BY <1>3 DEF AA!Release, AA!InsertAt
<1>5. /\ lo \subseteq regions /\ \A r \in lo : r.end + 1 = s.start
      /\ hi \subseteq regions /\ \A r \in hi : s.end + 1 = r.start
  BY DEF AA!Before, AA!After, AA!Below, AA!Above, AA!Highest, AA!Lowest
<1> HIDE DEF lo, hi, m
<1>6. /\ \A r, t \in lo : r = t
      /\ \A r, t \in hi : r = t
  BY <1>2, <1>5 DEF AllocInv, AA!NoOverlap, AA!Apart
<1>7. /\ lo = {} => m.start = s.start
      /\ \A r \in lo : m.start = r.start
      /\ hi = {} => m.end = s.end
      /\ \A r \in hi : m.end = r.end
  BY <1>6 DEF m, AA!Merged, AA!R
<1>8. m \in AA!Nonempty /\ m.start <= s.start /\ s.end <= m.end
  <2>1. m.start \in Nat /\ m.start <= s.start
    BY <1>2, <1>5, <1>7
  <2>2. m.end \in Nat /\ s.end <= m.end
    BY <1>2, <1>5, <1>7
  <2>3. m \in [start : Nat, end : Nat]
    BY <2>1, <2>2 DEF m, AA!Merged, AA!R
  <2> QED
    BY <1>2, <2>1, <2>2, <2>3 DEF AA!Nonempty
<1>9. \A x \in Nat : AA!In(x, m) <=> (AA!In(x, s) \/ \E r \in lo \cup hi : AA!In(x, r))
  <2> SUFFICES ASSUME NEW x \in Nat
               PROVE  AA!In(x, m) <=> (AA!In(x, s) \/ \E r \in lo \cup hi : AA!In(x, r))
    OBVIOUS
  <2>1. CASE x < s.start
    BY <2>1, <1>2, <1>5, <1>7, <1>8 DEF AA!In, AA!Nonempty
  <2>2. CASE s.start <= x /\ x <= s.end
    BY <2>2, <1>2, <1>8 DEF AA!In, AA!Nonempty
  <2>3. CASE s.end < x
    BY <2>3, <1>2, <1>5, <1>7, <1>8 DEF AA!In, AA!Nonempty
  <2> QED
    BY <2>1, <2>2, <2>3, <1>2
<1>10. \A t \in AA!Nonempty : AA!Apart(t, s) /\ (\A r \in lo \cup hi : AA!Apart(t, r)) => AA!Apart(t, m)
  <2> SUFFICES ASSUME NEW t \in AA!Nonempty, AA!Apart(t, s), \A r \in lo \cup hi : AA!Apart(t, r)
               PROVE  AA!Apart(t, m)
    OBVIOUS
  <2>1. t.start \in Nat /\ t.end \in Nat /\ t.start <= t.end
    BY DEF AA!Nonempty
  <2>2. CASE t.end < s.start
    <3>1. t.end < m.start
      BY <2>1, <2>2, <1>2, <1>5, <1>7 DEF AA!Apart
    <3> QED
      BY <3>1 DEF AA!Apart
  <2>3. CASE s.end < t.start
    <3>1. m.end < t.start
      BY <2>1, <2>3, <1>2, <1>5, <1>7 DEF AA!Apart
    <3> QED
      BY <3>1 DEF AA!Apart
  <2> QED
    BY <2>2, <2>3 DEF AA!Apart
<1>11. AA!Held' = AA!Held \ {a} /\ \A b \in AA!Held' : allocs'[b] = allocs[b] /\ allocs[b] \in AA!Nonempty
  BY <1>1, <1>4 DEF AA!Held
<1>12. AA!TypeOK'
  BY <1>1, <1>4, <1>8 DEF AA!TypeOK
<1>13. AA!NoOverlap'
  <2>1. \A r \in regions \ (lo \cup hi) : AA!Apart(r, m)
    BY <1>1, <1>2, <1>5, <1>10 DEF AllocInv, AA!NoOverlap, AA!Apart
  <2>2. \A r, t \in regions' : r # t => AA!Apart(r, t)
    BY <1>4, <2>1 DEF AllocInv, AA!NoOverlap, AA!Apart
  <2>3. \A b \in AA!Held' : \A r \in regions' : AA!Apart(allocs'[b], r)
    <3>1. \A b \in AA!Held' : AA!Apart(allocs[b], s) /\ \A r \in regions : AA!Apart(allocs[b], r)
      BY <1>1, <1>11 DEF AllocInv, AA!NoOverlap
    <3>2. \A b \in AA!Held' : AA!Apart(allocs[b], m)
      BY <3>1, <1>5, <1>10, <1>11
    <3> QED
      BY <3>1, <3>2, <1>4, <1>11
  <2>4. \A b, c \in AA!Held' : b # c => AA!Apart(allocs'[b], allocs'[c])
    BY <1>11 DEF AllocInv, AA!NoOverlap
  <2> QED
    BY <2>2, <2>3, <2>4 DEF AA!NoOverlap
<1>14. AA!UnionIsPools'
  <2> SUFFICES ASSUME NEW x \in AA!Addrs
               PROVE (\E p \in Pools : AA!In(x, p)) <=>
                     ((\E r \in regions' : AA!In(x, r)) \/ (\E b \in AA!Held' : AA!In(x, allocs'[b])))
    BY DEF AA!UnionIsPools
  <2>1. x \in Nat
    BY DEF AA!Addrs
  <2>2. (\E r \in regions' : AA!In(x, r)) <=> AA!In(x, s) \/ (\E r \in regions : AA!In(x, r))
    BY <1>4, <1>5, <1>9, <2>1
  <2>3. (\E b \in AA!Held : AA!In(x, allocs[b])) <=> AA!In(x, s) \/ (\E b \in AA!Held' : AA!In(x, allocs'[b]))
    BY <1>1, <1>11
  <2> QED
    BY <2>2, <2>3 DEF AllocInv, AA!UnionIsPools
<1> QED
  BY <1>12, <1>13, <1>14 DEF AllocInv

(* The allocation with an alignment keeps the invariant                    *)
(* (internal_allocate_with_align).                                         *)
LEMMA AlignedStep ==
  ASSUME AllocInv, NEW a \in Allocs, NEW size \in Sizes, NEW align \in Alignments,
         NEW reverse \in BOOLEAN, AA!AllocateWithAlign(a, size, align, reverse)
  PROVE  AllocInv'
<1> DEFINE n == IF align < MinAlign THEN MinAlign ELSE align
<1>1. n \in Nat \ {0} /\ size \in Nat \ {0}
  BY DEF AllocInv, AA!AllocAssumption
<1>2. PICK slot \in AA!Slots(regions, size, n, reverse) :
        AA!Grant(a, slot, AA!Placed(slot, size, n, reverse))
  BY DEF AA!AllocateWithAlign
<1>3. slot \in regions /\ AA!Fits(slot, size, n, reverse) /\ slot \in AA!Nonempty
  BY <1>2 DEF AA!Slots, AA!Highest, AA!Lowest, AllocInv, AA!TypeOK
<1>4. /\ AA!Placed(slot, size, n, reverse) \in AA!Nonempty
      /\ AA!ContainsRange(slot, AA!Placed(slot, size, n, reverse))
  BY <1>1, <1>3, PlacedInside
<1> QED
  BY <1>2, <1>3, <1>4, GrantStep DEF AA!AllocateWithAlign

(* For every pool list, tag set and alignment, whatever is allocated and   *)
(* released: no address is handed out twice and none is lost               *)
(* (AddressAllocator).                                                     *)
THEOREM AllocatorSafe ==
  AA!PoolsAssumption /\ AA!AllocAssumption /\ AA!Spec => [](AA!NoOverlap /\ AA!UnionIsPools)
<1>1. AA!PoolsAssumption /\ AA!AllocAssumption /\ AA!Init => AllocInv
  <2> SUFFICES ASSUME AA!PoolsAssumption, AA!AllocAssumption, AA!Init PROVE AllocInv
    OBVIOUS
  <2>1. AA!Held = {}
    BY DEF AA!Init, AA!Held
  <2>2. AA!TypeOK
    BY DEF AA!PoolsAssumption, AA!Init, AA!TypeOK
  <2>3. AA!NoOverlap
    BY <2>1 DEF AA!PoolsAssumption, AA!Init, AA!NoOverlap
  <2> QED
    BY <2>1, <2>2, <2>3 DEF AA!Init, AllocInv, AA!UnionIsPools
<1>2. AllocInv /\ [AA!Next]_(AA!vars) => AllocInv'
  <2> SUFFICES ASSUME AllocInv, [AA!Next]_(AA!vars) PROVE AllocInv'
    OBVIOUS
  <2>1. ASSUME NEW a \in Allocs, NEW size \in Sizes, NEW reverse \in BOOLEAN,
               AA!Allocate(a, size, reverse)
        PROVE  AllocInv'
    BY <2>1, AlignedStep DEF AllocInv, AA!AllocAssumption, AA!Allocate
  <2>2. ASSUME NEW a \in Allocs, NEW size \in Sizes, NEW reverse \in BOOLEAN,
               NEW align \in Alignments, AA!AllocateWithAlign(a, size, align, reverse)
        PROVE  AllocInv'
    BY <2>2, AlignedStep
  <2>3. ASSUME NEW a \in Allocs, NEW x \in AA!Addrs, NEW y \in AA!Addrs, x <= y, AA!AllocateAt(a, AA!R(x, y))
        PROVE  AllocInv'
    <3>1. AA!R(x, y) \in AA!Nonempty
      BY <2>3 DEF AA!R, AA!Nonempty, AA!Addrs
    <3>2. PICK slot \in regions : AA!ContainsRange(slot, AA!R(x, y)) /\ AA!Grant(a, slot, AA!R(x, y))
      BY <2>3 DEF AA!AllocateAt, AA!Lowest
    <3> QED
      BY <2>3, <3>1, <3>2, GrantStep DEF AA!AllocateAt
  <2>4. ASSUME NEW a \in Allocs, AA!Release(a)
        PROVE  AllocInv'
    BY <2>4, ReleaseStep
  <2>5. ASSUME NEW x \in AA!Addrs, AA!ReleaseContaining(x)
        PROVE  AllocInv'
    BY <2>5, <2>4 DEF AA!ReleaseContaining
  <2>6. CASE UNCHANGED AA!vars
    BY <2>6 DEF AA!vars, AllocInv, AA!TypeOK, AA!NoOverlap, AA!UnionIsPools, AA!Held
  <2> QED
    BY <2>1, <2>2, <2>3, <2>4, <2>5, <2>6 DEF AA!Next
<1>3. AllocInv => AA!NoOverlap /\ AA!UnionIsPools
  BY DEF AllocInv
<1> QED
  BY <1>1, <1>2, <1>3, PTL DEF AA!Spec
===============================================================================
