---------------------------- MODULE AddressRanges ----------------------------
(***************************************************************************)
(* Address ranges and the searches over sets of free regions that          *)
(* crosvm/resources/src/address_allocator.rs makes, as pure operators.     *)
(***************************************************************************)
EXTENDS Integers, FiniteSets

R(a, b) == [start |-> a, end |-> b]
Nonempty == {r \in [start : Nat, end : Nat] : r.start <= r.end}

In(x, r) == r.start <= x /\ x <= r.end
ContainsRange(r, s) == r.start <= s.start /\ s.end <= r.end
Apart(r, s) == r.end < s.start \/ s.end < r.start

\* At most one of each when the regions are apart.
Lowest(S) == {r \in S : \A q \in S : r.start <= q.start}
Highest(S) == {r \in S : \A q \in S : q.start <= r.start}

(***************************************************************************)
(* internal_allocate_with_align: where in a region an allocation would go, *)
(* whether it fits there, and the region that is taken.                    *)
(***************************************************************************)
AlignUp(a, n) == IF a % n = 0 THEN a ELSE a + n - (a % n)
AlignDown(a, n) == a - (a % n)

Place(r, size, align, reverse) ==
  IF reverse THEN AlignDown(r.end - (size - 1), align) ELSE AlignUp(r.start, align)

Fits(r, size, align, reverse) ==
  IF reverse
  THEN r.end >= size - 1 /\ Place(r, size, align, reverse) >= r.start
  ELSE Place(r, size, align, reverse) + size - 1 <= r.end

Slots(regions, size, align, reverse) ==
  LET fitting == {r \in regions : Fits(r, size, align, reverse)}
  IN IF reverse THEN Highest(fitting) ELSE Lowest(fitting)

Placed(slot, size, align, reverse) ==
  LET s == Place(slot, size, align, reverse) IN R(s, s + size - 1)

\* internal_allocate_from_slot, AddressRange::non_overlapping_ranges.
Take(regions, slot, r) ==
  (regions \ {slot}) \cup {s \in {R(slot.start, r.start - 1), R(r.end + 1, slot.end)} :
                             s.start <= s.end}

(***************************************************************************)
(* insert_at: the region goes back, merged with the neighbours it touches. *)
(* A region that overlaps one is refused.                                  *)
(***************************************************************************)
Below(regions, s) ==
  Highest({r \in regions : r.start < s.start \/ (r.start = s.start /\ r.end <= s.end)})
Above(regions, s) ==
  Lowest({r \in regions : r.start > s.start \/ (r.start = s.start /\ r.end > s.end)})

Refused(regions, s) ==
  \/ \E r \in Below(regions, s) : r.end + 1 > s.start
  \/ \E r \in Above(regions, s) : s.end > r.start - 1

Before(regions, s) == {r \in Below(regions, s) : r.end + 1 = s.start}
After(regions, s) == {r \in Above(regions, s) : s.end + 1 = r.start}

Merged(lo, hi, s) ==
  R(IF lo = {} THEN s.start ELSE (CHOOSE r \in lo : TRUE).start,
    IF hi = {} THEN s.end ELSE (CHOOSE r \in hi : TRUE).end)

InsertAt(regions, s) ==
  LET lo == Before(regions, s)
      hi == After(regions, s)
  IN IF Refused(regions, s) THEN regions
     ELSE (regions \ (lo \cup hi)) \cup {Merged(lo, hi, s)}
=============================================================================
