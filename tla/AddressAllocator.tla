-------------------------- MODULE AddressAllocator --------------------------
(***************************************************************************)
(* crosvm/resources/src/address_allocator.rs: one allocator of addresses,  *)
(* irq numbers or PCI functions.  It is used under &mut, so each method is *)
(* one step; one that fails changes nothing and is not a step.             *)
(***************************************************************************)
EXTENDS AddressRanges

CONSTANTS MaxAddr,           \* u64::MAX
          Pools,             \* the ranges it manages
          Allocs, NoRange,   \* the tags (enum Alloc); a tag without a range
          MinAlign, PreferredAlign,
          Sizes, Alignments  \* what callers ask for

(* What crosvm configures an allocator with; the theorems take it as their *)
(* hypothesis.                                                             *)
PoolsAssumption ==
  /\ MaxAddr \in Nat /\ Pools \subseteq {p \in Nonempty : p.end <= MaxAddr}
  /\ \A p, q \in Pools : p # q => Apart(p, q)
AllocAssumption ==
  /\ NoRange \notin [start : Nat, end : Nat]
  /\ Sizes \subseteq Nat \ {0} /\ Alignments \subseteq Nat \ {0}
  /\ MinAlign \in Alignments /\ PreferredAlign \in Alignments

Addrs == 0 .. MaxAddr

VARIABLES regions, allocs
vars == <<regions, allocs>>

Init == regions = Pools /\ allocs = [a \in Allocs |-> NoRange]

(***************************************************************************)
(* The methods.                                                            *)
(***************************************************************************)
Grant(a, slot, r) ==
  /\ regions' = Take(regions, slot, r)
  /\ allocs' = [allocs EXCEPT ![a] = r]

AllocateWithAlign(a, size, align, reverse) ==
  LET n == IF align < MinAlign THEN MinAlign ELSE align
  IN /\ allocs[a] = NoRange
     /\ \E slot \in Slots(regions, size, n, reverse) : Grant(a, slot, Placed(slot, size, n, reverse))

\* allocate and reverse_allocate.
Allocate(a, size, reverse) ==
  IF \E r \in regions : Fits(r, size, PreferredAlign, reverse)
  THEN AllocateWithAlign(a, size, PreferredAlign, reverse)
  ELSE AllocateWithAlign(a, size, MinAlign, reverse)

AllocateAt(a, r) ==
  /\ allocs[a] = NoRange
  /\ \E slot \in Lowest({s \in regions : ContainsRange(s, r)}) : Grant(a, slot, r)

Release(a) ==
  /\ allocs[a] # NoRange
  /\ allocs' = [allocs EXCEPT ![a] = NoRange]
  /\ regions' = InsertAt(regions, allocs[a])

ReleaseContaining(x) == \E a \in Allocs : allocs[a] # NoRange /\ In(x, allocs[a]) /\ Release(a)

Next ==
  \E a \in Allocs :
    \/ \E size \in Sizes, reverse \in BOOLEAN :
         \/ Allocate(a, size, reverse)
         \/ \E align \in Alignments : AllocateWithAlign(a, size, align, reverse)
    \/ \E x, y \in Addrs : x <= y /\ AllocateAt(a, R(x, y))
    \/ Release(a)
    \/ \E x \in Addrs : ReleaseContaining(x)

Spec == Init /\ [][Next]_vars

-----------------------------------------------------------------------------
Held == {a \in Allocs : allocs[a] # NoRange}

(* The state has its type: no region and no allocation is empty. *)
TypeOK == regions \subseteq Nonempty /\ allocs \in [Allocs -> Nonempty \cup {NoRange}]

(* Nothing is handed out twice, and what is free is no one's (allocate,    *)
(* allocate_at, release).                                                  *)
NoOverlap ==
  /\ \A r, s \in regions : r # s => Apart(r, s)
  /\ \A a \in Held : \A r \in regions : Apart(allocs[a], r)
  /\ \A a, b \in Held : a # b => Apart(allocs[a], allocs[b])

(* "The union of all regions from |allocs| and |regions| equals the pools" *)
(* (AddressAllocator): no address is lost, whatever the order in which     *)
(* ranges are taken and released.                                          *)
UnionIsPools ==
  \A x \in Addrs :
    (\E p \in Pools : In(x, p)) <=>
    ((\E r \in regions : In(x, r)) \/ (\E a \in Held : In(x, allocs[a])))

=============================================================================
