--------------------------- MODULE PageAllocator ---------------------------
(***************************************************************************)
(* What a page allocator over a fixed region promises its callers: an      *)
(* allocation is a run of pages inside the region that no other            *)
(* outstanding allocation uses, and it stays the caller's until the caller *)
(* gives it back.  Once the promise is broken it says nothing any more.    *)
(***************************************************************************)
EXTENDS Integers

CONSTANT TotalPages      \* pages of the region

VARIABLES allocated,     \* the outstanding allocations
          broken         \* the promise has been broken

Run(s, n) == s .. (s + n - 1)

PagesOf(a) == Run(a.start, a.num)

Allocation == [start : 0 .. TotalPages, num : 0 .. TotalPages]

Disjoint(A, B) == A \cap B = {}

Init == allocated = {} /\ broken = FALSE

(* Hand out a run that lies in the region and meets no other allocation.   *)
Allocate(a) ==
    /\ PagesOf(a) \subseteq 0 .. (TotalPages - 1)
    /\ \A b \in allocated : Disjoint(PagesOf(a), PagesOf(b))
    /\ allocated' = allocated \cup {a}
    /\ UNCHANGED broken

Free(a) ==
    /\ allocated' = allocated \ {a}
    /\ UNCHANGED broken

Next == \/ \E a \in Allocation : Allocate(a)
        \/ \E a \in allocated : Free(a)
        \/ broken'

Spec == Init /\ [][Next]_<<allocated, broken>>
=============================================================================
