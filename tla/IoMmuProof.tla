----------------------------- MODULE IoMmuProof -----------------------------
(***************************************************************************)
(* Proofs about IoMmu for every size of the pool and of a page, any number *)
(* of mappings, buffers and values.                                        *)
(***************************************************************************)
EXTENDS IoMmu, TLAPS

TypeOK ==
    /\ bitmap \subseteq Pages
    /\ pool \in [Cells -> Values]
    /\ DOMAIN host = Buffers
    /\ \A b \in Buffers : host[b] \in [0 .. (BufSize[b] - 1) -> Values]
    /\ maps \in [MapIds -> MapInfo \cup {None}]
    /\ commons \subseteq [start : Pages, num : Nat]

(* A bounce buffer lies in the pool, holds the bytes of its mapping and is *)
(* no longer than the driver's own buffer.                                 *)
BounceOK(m) ==
    /\ m.op \in {"read", "write"}
    /\ m.bounced = TRUE
    /\ m.host \in Buffers
    /\ m.bytes <= BufSize[m.host]
    /\ m.bytes <= m.pages * PageBytes
    /\ m.start + m.pages <= TotalPages

(* A common mapping is one of a common buffer that is still allocated.     *)
CommonOK(m) ==
    /\ m.op = "common"
    /\ m.bounced = FALSE
    /\ \A k \in 0 .. (m.bytes - 1) : m.seen[k] = None
    /\ \E c \in commons : c.start = m.start /\ c.num * PageBytes = m.bytes

MapsOK == \A id \in Live : BounceOK(maps[id]) \/ CommonOK(maps[id])

CommonsInside == \A c \in commons : c.start + c.num <= TotalPages

BouncesApart ==
    \A i, j \in Bounced : i # j => BouncePages(i) \cap BouncePages(j) = {}

CommonsApart ==
    \A c, d \in commons : c # d => CommonPages(c) \cap CommonPages(d) = {}

KindsApart ==
    \A i \in Bounced, c \in commons : BouncePages(i) \cap CommonPages(c) = {}

(* The inductive invariant: what the bitmap marks is split into the runs   *)
(* of the bounce and common buffers, each inside the pool and apart from   *)
(* the others, and the cells of a run hold what its mapping promises.      *)
IInv ==
    /\ TypeOK
    /\ MapsOK
    /\ CommonsInside
    /\ BouncesApart
    /\ CommonsApart
    /\ KindsApart
    /\ PoolAccounting
    /\ BounceFaithful

-----------------------------------------------------------------------------
(* Arithmetic of pages and cells.                                          *)

(* More pages have more cells.                                             *)
LEMMA TimesMono ==
    ASSUME NEW a \in Nat, NEW b \in Nat, a <= b
    PROVE  a * PageBytes <= b * PageBytes
<1>1. PageBytes \in Nat
  BY IoMmuAssumption
<1>2. PICK d \in Nat : b = a + d
  <2>1. b - a \in Nat /\ b = a + (b - a)
    OBVIOUS
  <2> QED
    BY <2>1
<1>3. b * PageBytes = a * PageBytes + d * PageBytes
  BY <1>1, <1>2
<1>4. d * PageBytes \in Nat /\ a * PageBytes \in Nat
  BY <1>1
<1> QED
  BY <1>3, <1>4

(* EFI_SIZE_TO_PAGES rounds up: the pages hold the bytes.                  *)
LEMMA SizeFits ==
    ASSUME NEW bytes \in Nat
    PROVE  SizeToPages(bytes) \in Nat /\ bytes <= SizeToPages(bytes) * PageBytes
  BY IoMmuAssumption DEF SizeToPages

(* The cells of a run inside the pool are cells of the pool.               *)
LEMMA CellInside ==
    ASSUME NEW s \in Nat, NEW n \in Nat, s + n <= TotalPages,
           NEW k \in 0 .. (n * PageBytes - 1)
    PROVE  Cell(s, k) \in Cells
<1>1. PageBytes \in Nat /\ TotalPages \in Nat
  BY IoMmuAssumption
<1>2. (s + n) * PageBytes <= TotalPages * PageBytes
  BY <1>1, TimesMono
<1>3. (s + n) * PageBytes = s * PageBytes + n * PageBytes
  BY <1>1
<1>4. s * PageBytes \in Nat /\ n * PageBytes \in Nat /\ TotalPages * PageBytes \in Nat
  BY <1>1
<1> QED
  BY <1>2, <1>3, <1>4 DEF Cell, Cells

(* Cells of disjoint runs of pages are different cells.                    *)
LEMMA CellsApart ==
    ASSUME NEW s \in Nat, NEW n \in Nat, NEW t \in Nat, NEW m \in Nat,
           Run(s, n) \cap Run(t, m) = {},
           NEW k \in 0 .. (n * PageBytes - 1), NEW j \in 0 .. (m * PageBytes - 1)
    PROVE  Cell(s, k) # Cell(t, j)
<1>1. PageBytes \in Nat
  BY IoMmuAssumption
<1>2. n > 0 /\ m > 0
  BY <1>1
<1>3. s + n <= t \/ t + m <= s
  <2>1. CASE s < t
    <3>1. t \in Run(t, m)
      BY <1>2 DEF Run
    <3>2. t \notin Run(s, n)
      BY <3>1
    <3> QED
      BY <3>2, <2>1, <1>2 DEF Run
  <2>2. CASE t <= s
    <3>1. s \in Run(s, n)
      BY <1>2 DEF Run
    <3>2. s \notin Run(t, m)
      BY <3>1
    <3> QED
      BY <3>2, <2>2, <1>2 DEF Run
  <2> QED
    BY <2>1, <2>2
<1>4. /\ (s + n) * PageBytes = s * PageBytes + n * PageBytes
      /\ (t + m) * PageBytes = t * PageBytes + m * PageBytes
  BY <1>1
<1>5. /\ s * PageBytes \in Nat /\ n * PageBytes \in Nat
      /\ t * PageBytes \in Nat /\ m * PageBytes \in Nat
  BY <1>1
<1>6. CASE s + n <= t
  <2>1. (s + n) * PageBytes <= t * PageBytes
    BY <1>6, TimesMono
  <2> QED
    BY <2>1, <1>4, <1>5 DEF Cell
<1>7. CASE t + m <= s
  <2>1. (t + m) * PageBytes <= s * PageBytes
    BY <1>7, TimesMono
  <2> QED
    BY <2>1, <1>4, <1>5 DEF Cell
<1> QED
  BY <1>3, <1>6, <1>7

-----------------------------------------------------------------------------
(* MAP_INFOs: their fields, and that None is none of them.                 *)

(* What membership in MapInfo says of the fields.                          *)
LEMMA MapInfoFields ==
    ASSUME NEW m \in MapInfo
    PROVE  /\ m # None
           /\ m.bytes \in Nat
           /\ m.bytes <= TotalPages * PageBytes
           /\ m.start \in Pages
           /\ m.start \in Nat
           /\ m.pages \in Nat
           /\ m.seen \in [0 .. (m.bytes - 1) -> Values \cup {None}]
<1>1. PICK n \in 0 .. (TotalPages * PageBytes) :
        m \in [op : {"read", "write", "common"}, host : Buffers \cup {None}, bytes : {n},
               start : 0 .. (TotalPages - 1), pages : 0 .. TotalPages, bounced : BOOLEAN,
               seen : [0 .. (n - 1) -> Values \cup {None}]]
  BY DEF MapInfo
<1>2. m.bytes = n
  BY <1>1
<1>3. TotalPages \in Nat /\ TotalPages * PageBytes \in Nat
  BY IoMmuAssumption
<1>4. m # None
  BY IoMmuAssumption
<1>5. m.start \in 0 .. (TotalPages - 1) /\ m.pages \in 0 .. TotalPages
  BY <1>1
<1>6. m.seen \in [0 .. (m.bytes - 1) -> Values \cup {None}]
  BY <1>1, <1>2
<1> QED
  BY <1>1, <1>2, <1>3, <1>4, <1>5, <1>6 DEF Pages

(* The record Map fills in is a MAP_INFO.                                  *)
LEMMA MakeMapInfo ==
    ASSUME NEW op \in {"read", "write", "common"}, NEW h \in Buffers \cup {None},
           NEW n \in 0 .. (TotalPages * PageBytes), NEW s \in Pages,
           NEW p \in 0 .. TotalPages, NEW b \in BOOLEAN,
           NEW seen \in [0 .. (n - 1) -> Values \cup {None}]
    PROVE  [op |-> op, host |-> h, bytes |-> n, start |-> s, pages |-> p,
            bounced |-> b, seen |-> seen] \in MapInfo
  BY DEF MapInfo, Pages

(* An identifier in use has a MAP_INFO.                                    *)
LEMMA LiveMaps ==
    ASSUME TypeOK, NEW id \in Live
    PROVE  id \in MapIds /\ maps[id] \in MapInfo
  BY DEF TypeOK, Live

(* The entry point leaves an empty pool and no mappings.                   *)
LEMMA InitInv == Init => IInv
<1> SUFFICES ASSUME Init PROVE IInv
  OBVIOUS
<1>1. Live = {} /\ Bounced = {}
  BY DEF Init, Live, Bounced
<1>2. TypeOK
  BY IoMmuAssumption DEF Init, TypeOK
<1>3. PoolAccounting
  BY <1>1 DEF Init, PoolAccounting
<1>4. MapsOK /\ CommonsInside /\ BouncesApart /\ CommonsApart /\ KindsApart /\ BounceFaithful
  BY <1>1 DEF Init, MapsOK, CommonsInside, BouncesApart, CommonsApart, KindsApart, BounceFaithful
<1> QED
  BY <1>2, <1>3, <1>4 DEF IInv

-----------------------------------------------------------------------------
(* The pages DmaPoolAllocatePages hands out are nobody's.                  *)
LEMMA FreshRun ==
    ASSUME IInv, NEW s \in Pages, NEW n \in Nat, FirstFit(s, n)
    PROVE  /\ s + n <= TotalPages
           /\ Run(s, n) \subseteq Pages
           /\ Run(s, n) \cap bitmap = {}
           /\ \A i \in Bounced : BouncePages(i) \cap Run(s, n) = {}
           /\ \A c \in commons : CommonPages(c) \cap Run(s, n) = {}
<1>1. s \in Nat /\ TotalPages \in Nat
  BY IoMmuAssumption DEF Pages
<1>2. s + n <= TotalPages /\ Run(s, n) \subseteq Run(s, Needed(n))
  BY <1>1 DEF FirstFit, FreeRun, Needed, Run
<1>3. Run(s, n) \cap bitmap = {}
  BY <1>2 DEF FirstFit, FreeRun
<1>4. /\ \A i \in Bounced : BouncePages(i) \subseteq bitmap
      /\ \A c \in commons : CommonPages(c) \subseteq bitmap
  BY DEF IInv, PoolAccounting
<1>5. Run(s, n) \subseteq Pages
  BY <1>1, <1>2 DEF Run, Pages
<1> QED
  BY <1>2, <1>3, <1>4, <1>5

(* A cell of a bounce buffer is none of a run apart from it ...            *)
LEMMA BounceCell ==
    ASSUME IInv, NEW i \in Bounced, NEW k \in 0 .. (maps[i].bytes - 1),
           NEW s \in Nat, NEW n \in Nat, BouncePages(i) \cap Run(s, n) = {}
    PROVE  /\ Cell(maps[i].start, k) \in Cells
           /\ \A j \in 0 .. (n * PageBytes - 1) : Cell(maps[i].start, k) # Cell(s, j)
<1>1. i \in Live /\ maps[i] \in MapInfo /\ BounceOK(maps[i])
  BY LiveMaps DEF IInv, MapsOK, CommonOK, Bounced
<1>2. maps[i].start \in Nat /\ maps[i].pages \in Nat /\ maps[i].bytes \in Nat
  BY <1>1, MapInfoFields
<1>3. maps[i].pages * PageBytes \in Nat
  BY <1>2, IoMmuAssumption
<1>4. k \in 0 .. (maps[i].pages * PageBytes - 1)
  BY <1>1, <1>2, <1>3 DEF BounceOK
<1>5. Cell(maps[i].start, k) \in Cells
  BY <1>1, <1>2, <1>4, CellInside DEF BounceOK
<1>6. ASSUME NEW j \in 0 .. (n * PageBytes - 1) PROVE Cell(maps[i].start, k) # Cell(s, j)
  BY Zenon, <1>2, <1>4, CellsApart DEF BouncePages
<1> QED
  BY <1>5, <1>6

(* ... and neither is a cell of a common buffer.                           *)
LEMMA CommonCell ==
    ASSUME IInv, NEW c \in commons, NEW k \in 0 .. (c.num * PageBytes - 1),
           NEW s \in Nat, NEW n \in Nat, CommonPages(c) \cap Run(s, n) = {}
    PROVE  /\ Cell(c.start, k) \in Cells
           /\ \A j \in 0 .. (n * PageBytes - 1) : Cell(c.start, k) # Cell(s, j)
<1>1. c.start \in Nat /\ c.num \in Nat /\ c.start + c.num <= TotalPages
  BY IoMmuAssumption DEF IInv, TypeOK, CommonsInside, Pages
<1>2. Cell(c.start, k) \in Cells
  BY <1>1, CellInside
<1>3. ASSUME NEW j \in 0 .. (n * PageBytes - 1) PROVE Cell(c.start, k) # Cell(s, j)
  BY <1>1, CellsApart DEF CommonPages
<1> QED
  BY <1>2, <1>3

(* Cells that a store to the first len cells of a run leaves alone.        *)
LEMMA OutsideStore ==
    ASSUME NEW s \in Nat, NEW n \in Nat, NEW len \in Nat, len <= n * PageBytes,
           NEW x \in Cells, \A j \in 0 .. (n * PageBytes - 1) : x # Cell(s, j)
    PROVE  x - Cell(s, 0) \notin 0 .. (len - 1)
<1>1. PageBytes \in Nat /\ TotalPages \in Nat
  BY IoMmuAssumption
<1>2. x \in Int /\ s * PageBytes \in Nat /\ n * PageBytes \in Nat
  BY <1>1 DEF Cells
<1>3. SUFFICES ASSUME x - Cell(s, 0) \in 0 .. (len - 1) PROVE FALSE
  OBVIOUS
<1>4. x - Cell(s, 0) \in 0 .. (n * PageBytes - 1)
  BY <1>2, <1>3 DEF Cell
<1>5. x = Cell(s, x - Cell(s, 0))
  BY <1>2 DEF Cell
<1> QED
  BY <1>4, <1>5

-----------------------------------------------------------------------------
(* A new bounce buffer, whatever the pages hold for it.                    *)
LEMMA NewBounce ==
    ASSUME IInv, NEW id \in MapIds, maps[id] = None,
           NEW m \in MapInfo, BounceOK(m),
           Run(m.start, m.pages) \subseteq Pages,
           \A i \in Bounced : BouncePages(i) \cap Run(m.start, m.pages) = {},
           \A c \in commons : CommonPages(c) \cap Run(m.start, m.pages) = {},
           maps' = [maps EXCEPT ![id] = m],
           bitmap' = bitmap \cup Run(m.start, m.pages),
           pool' \in [Cells -> Values],
           \A i \in Bounced : \A k \in 0 .. (maps[i].bytes - 1) :
               pool'[Cell(maps[i].start, k)] = pool[Cell(maps[i].start, k)],
           \A k \in 0 .. (m.bytes - 1) :
               m.seen[k] # None => pool'[Cell(m.start, k)] = m.seen[k],
           UNCHANGED <<host, commons>>
    PROVE  IInv'
<1>1. m # None /\ m.seen \in [0 .. (m.bytes - 1) -> Values \cup {None}] /\ m.bounced = TRUE
  BY MapInfoFields DEF BounceOK
<1>2. maps'[id] = m /\ \A i \in MapIds : i # id => maps'[i] = maps[i]
  BY DEF IInv, TypeOK
<1>3. Live' = Live \cup {id} /\ id \notin Live /\ Live \subseteq MapIds
  BY <1>1, <1>2 DEF Live
<1>4. Bounced' = Bounced \cup {id} /\ id \notin Bounced /\ Bounced \subseteq MapIds
  BY <1>1, <1>2, <1>3 DEF Bounced
<1>5. /\ BouncePages(id)' = Run(m.start, m.pages)
      /\ \A i \in Bounced : BouncePages(i)' = BouncePages(i)
  BY <1>2, <1>4 DEF BouncePages
<1>6. \A c \in commons : CommonPages(c)' = CommonPages(c)
  BY DEF CommonPages
<1>7. TypeOK'
  BY DEF IInv, TypeOK
<1>8. MapsOK'
  <2>1. SUFFICES ASSUME NEW i \in Live' PROVE (BounceOK(maps[i]) \/ CommonOK(maps[i]))'
    BY DEF MapsOK
  <2>2. CASE i = id
    BY <2>2, <1>2 DEF BounceOK
  <2>3. CASE i \in Live
    BY <2>3, <1>2, <1>3 DEF IInv, MapsOK, BounceOK, CommonOK
  <2> QED
    BY <2>1, <2>2, <2>3, <1>3
<1>9. CommonsInside' /\ CommonsApart'
  BY DEF IInv, CommonsInside, CommonsApart, CommonPages
<1>10. BouncesApart'
  BY <1>4, <1>5 DEF IInv, BouncesApart
<1>11. KindsApart'
  BY <1>4, <1>5, <1>6 DEF IInv, KindsApart
<1>12. PoolAccounting'
  <2>1. {BouncePages(i)' : i \in Bounced'} =
            {BouncePages(i) : i \in Bounced} \cup {Run(m.start, m.pages)}
    BY <1>4, <1>5
  <2>2. {CommonPages(c)' : c \in commons'} = {CommonPages(c) : c \in commons}
    BY <1>6
  <2> QED
    BY <2>1, <2>2 DEF IInv, PoolAccounting
<1>13. BounceFaithful'
  <2>1. SUFFICES ASSUME NEW i \in Live', NEW k \in DOMAIN maps'[i].seen, maps'[i].seen[k] # None
                 PROVE  pool'[Cell(maps'[i].start, k)] = maps'[i].seen[k]
    BY DEF BounceFaithful, Cell
  <2>2. CASE i = id
    BY ZenonT(30), <2>1, <2>2, <1>1, <1>2
  <2>3. CASE i \in Live
    <3>1. maps'[i] = maps[i] /\ maps[i] \in MapInfo
      BY <2>3, <1>2, <1>3, LiveMaps DEF IInv
    <3>2. maps[i].seen \in [0 .. (maps[i].bytes - 1) -> Values \cup {None}]
      BY <3>1, MapInfoFields
    <3>3. k \in 0 .. (maps[i].bytes - 1)
      BY Zenon, <2>1, <3>1, <3>2
    <3>4. i \in Bounced
      BY <2>1, <2>3, <3>1, <3>3 DEF IInv, MapsOK, CommonOK, BounceOK, Bounced
    <3> QED
      BY <2>1, <2>3, <3>1, <3>3, <3>4 DEF IInv, BounceFaithful
  <2> QED
    BY <2>1, <2>2, <2>3, <1>3
<1> QED
  BY <1>7, <1>8, <1>9, <1>10, <1>11, <1>12, <1>13 DEF IInv

(* Map for BusMasterRead takes free pages and copies the data into them.   *)
LEMMA MapReadStep ==
    ASSUME IInv, NEW id \in MapIds, NEW b \in Buffers, NEW bytes \in 0 .. BufSize[b],
           MapRead(id, b, bytes)
    PROVE  IInv'
<1> DEFINE n == SizeToPages(bytes)
           m(s) == [op |-> "read", host |-> b, bytes |-> bytes, start |-> s, pages |-> n,
                    bounced |-> TRUE, seen |-> [k \in 0 .. (bytes - 1) |-> host[b][k]]]
<1>1. PICK s \in Pages :
        /\ FirstFit(s, n)
        /\ bitmap' = bitmap \cup Run(s, n)
        /\ pool' = [c \in Cells |-> IF c - Cell(s, 0) \in 0 .. (bytes - 1)
                                      THEN host[b][c - Cell(s, 0)] ELSE pool[c]]
        /\ maps' = [maps EXCEPT ![id] = m(s)]
  BY Zenon DEF MapRead
<1>2. /\ bytes \in Nat /\ BufSize[b] \in Nat /\ bytes <= BufSize[b]
      /\ TotalPages \in Nat /\ PageBytes \in Nat /\ s \in Nat
  BY IoMmuAssumption DEF Pages
<1>3. n \in Nat /\ bytes <= n * PageBytes
  BY <1>2, SizeFits
<1> HIDE DEF n
<1>4. /\ s + n <= TotalPages
      /\ Run(s, n) \subseteq Pages
      /\ \A i \in Bounced : BouncePages(i) \cap Run(s, n) = {}
      /\ \A c \in commons : CommonPages(c) \cap Run(s, n) = {}
  BY <1>1, <1>3, FreshRun
<1>5. bytes \in 0 .. (TotalPages * PageBytes) /\ n \in 0 .. TotalPages
  <2>1. n * PageBytes <= TotalPages * PageBytes
    BY <1>2, <1>3, <1>4, TimesMono
  <2>2. n * PageBytes \in Nat /\ TotalPages * PageBytes \in Nat
    BY <1>2, <1>3
  <2> QED
    BY <1>2, <1>3, <1>4, <2>1, <2>2
<1>6. host[b] \in [0 .. (BufSize[b] - 1) -> Values]
  BY DEF IInv, TypeOK
<1>7. [k \in 0 .. (bytes - 1) |-> host[b][k]] \in [0 .. (bytes - 1) -> Values \cup {None}]
  BY <1>2, <1>6
<1>8. m(s) \in MapInfo
  BY Zenon, <1>5, <1>7, MakeMapInfo
<1>9. BounceOK(m(s))
  BY <1>2, <1>3, <1>4 DEF BounceOK
<1>10. pool' \in [Cells -> Values]
  <2>1. \A c \in Cells : c - Cell(s, 0) \in 0 .. (bytes - 1) => host[b][c - Cell(s, 0)] \in Values
    BY <1>2, <1>6
  <2> QED
    BY <2>1, <1>1 DEF IInv, TypeOK
<1>11. ASSUME NEW i \in Bounced, NEW k \in 0 .. (maps[i].bytes - 1)
       PROVE  pool'[Cell(maps[i].start, k)] = pool[Cell(maps[i].start, k)]
  <2> DEFINE x == Cell(maps[i].start, k)
  <2>1. x \in Cells /\ \A j \in 0 .. (n * PageBytes - 1) : x # Cell(s, j)
    BY <1>2, <1>3, <1>4, BounceCell
  <2> HIDE DEF x
  <2>2. x - Cell(s, 0) \notin 0 .. (bytes - 1)
    BY <2>1, <1>2, <1>3, OutsideStore
  <2>3. pool'[x] = pool[x]
    BY <2>1, <2>2, <1>1
  <2> QED
    BY <2>3 DEF x
<1>12. ASSUME NEW k \in 0 .. (bytes - 1)
       PROVE  pool'[Cell(s, k)] = host[b][k]
  <2>1. k \in 0 .. (n * PageBytes - 1)
    BY <1>2, <1>3
  <2>2. Cell(s, k) \in Cells
    BY Zenon, <1>2, <1>3, <1>4, <2>1, CellInside
  <2>3. Cell(s, k) - Cell(s, 0) = k
    <3>1. s * PageBytes \in Nat
      BY <1>2
    <3> QED
      BY <3>1 DEF Cell
  <2> QED
    BY <2>2, <2>3, <1>1
<1>13. UNCHANGED <<host, commons>> /\ maps[id] = None
  BY DEF MapRead
<1>14. /\ m(s).start = s /\ m(s).pages = n /\ m(s).bytes = bytes
       /\ m(s).seen = [k \in 0 .. (bytes - 1) |-> host[b][k]]
  OBVIOUS
<1>15. \A k \in 0 .. (m(s).bytes - 1) :
         m(s).seen[k] # None => pool'[Cell(m(s).start, k)] = m(s).seen[k]
  BY <1>12, <1>14
<1> HIDE DEF m
<1> QED
  BY Zenon, <1>1, <1>4, <1>8, <1>9, <1>10, <1>11, <1>13, <1>14, <1>15, NewBounce

(* Map for BusMasterWrite takes free pages.                                *)
LEMMA MapWriteStep ==
    ASSUME IInv, NEW id \in MapIds, NEW b \in Buffers, NEW bytes \in 0 .. BufSize[b],
           MapWrite(id, b, bytes)
    PROVE  IInv'
<1> DEFINE n == SizeToPages(bytes)
           m(s) == [op |-> "write", host |-> b, bytes |-> bytes, start |-> s, pages |-> n,
                    bounced |-> TRUE, seen |-> [k \in 0 .. (bytes - 1) |-> None]]
<1>1. PICK s \in Pages :
        /\ FirstFit(s, n)
        /\ bitmap' = bitmap \cup Run(s, n)
        /\ maps' = [maps EXCEPT ![id] = m(s)]
  BY Zenon DEF MapWrite
<1>2. /\ bytes \in Nat /\ BufSize[b] \in Nat /\ bytes <= BufSize[b]
      /\ TotalPages \in Nat /\ PageBytes \in Nat /\ s \in Nat
  BY IoMmuAssumption DEF Pages
<1>3. n \in Nat /\ bytes <= n * PageBytes
  BY <1>2, SizeFits
<1> HIDE DEF n
<1>4. /\ s + n <= TotalPages
      /\ Run(s, n) \subseteq Pages
      /\ \A i \in Bounced : BouncePages(i) \cap Run(s, n) = {}
      /\ \A c \in commons : CommonPages(c) \cap Run(s, n) = {}
  BY <1>1, <1>3, FreshRun
<1>5. bytes \in 0 .. (TotalPages * PageBytes) /\ n \in 0 .. TotalPages
  <2>1. n * PageBytes <= TotalPages * PageBytes
    BY <1>2, <1>3, <1>4, TimesMono
  <2>2. n * PageBytes \in Nat /\ TotalPages * PageBytes \in Nat
    BY <1>2, <1>3
  <2> QED
    BY <1>2, <1>3, <1>4, <2>1, <2>2
<1>6. m(s) \in MapInfo
  <2>1. [k \in 0 .. (bytes - 1) |-> None] \in [0 .. (bytes - 1) -> Values \cup {None}]
    OBVIOUS
  <2> QED
    BY Zenon, <1>5, <2>1, MakeMapInfo
<1>7. BounceOK(m(s))
  BY <1>2, <1>3, <1>4 DEF BounceOK
<1>8. UNCHANGED <<host, commons, pool>> /\ maps[id] = None /\ pool \in [Cells -> Values]
  BY DEF MapWrite, IInv, TypeOK
<1>9. /\ m(s).start = s /\ m(s).pages = n /\ m(s).bytes = bytes
      /\ \A k \in 0 .. (bytes - 1) : m(s).seen[k] = None
  OBVIOUS
<1> HIDE DEF m
<1> QED
  BY Zenon, <1>1, <1>4, <1>6, <1>7, <1>8, <1>9, NewBounce

-----------------------------------------------------------------------------
(* Map of a common buffer takes no pages.                                  *)
LEMMA MapCommonStep ==
    ASSUME IInv, NEW id \in MapIds, NEW c \in commons, MapCommon(id, c)
    PROVE  IInv'
<1> DEFINE n == c.num * PageBytes
           m == [op |-> "common", host |-> None, bytes |-> n, start |-> c.start, pages |-> 0,
                 bounced |-> FALSE, seen |-> [k \in 0 .. (n - 1) |-> None]]
<1>1. /\ maps[id] = None
      /\ maps' = [maps EXCEPT ![id] = m]
      /\ UNCHANGED <<bitmap, pool, host, commons>>
  BY DEF MapCommon
<1>2. /\ c.start \in Pages /\ c.start \in Nat /\ c.num \in Nat /\ c.start + c.num <= TotalPages
      /\ TotalPages \in Nat /\ PageBytes \in Nat
  BY IoMmuAssumption DEF IInv, TypeOK, CommonsInside, Pages
<1>3. n \in 0 .. (TotalPages * PageBytes)
  <2>1. c.num * PageBytes <= TotalPages * PageBytes
    BY <1>2, TimesMono
  <2>2. c.num * PageBytes \in Nat /\ TotalPages * PageBytes \in Nat
    BY <1>2
  <2> QED
    BY <2>1, <2>2
<1> HIDE DEF n
<1>4. m \in MapInfo
  <2>1. [k \in 0 .. (n - 1) |-> None] \in [0 .. (n - 1) -> Values \cup {None}]
    OBVIOUS
  <2>2. 0 \in 0 .. TotalPages
    BY <1>2
  <2> QED
    BY Zenon, <1>2, <1>3, <2>1, <2>2, MakeMapInfo
<1>5. /\ m.op = "common" /\ m.bounced = FALSE /\ m.start = c.start /\ m.bytes = n
      /\ m.seen = [k \in 0 .. (n - 1) |-> None]
  OBVIOUS
<1> HIDE DEF m
<1>6. m # None
  BY <1>4, MapInfoFields
<1>7. maps'[id] = m /\ \A i \in MapIds : i # id => maps'[i] = maps[i]
  BY <1>1 DEF IInv, TypeOK
<1>8. Live' = Live \cup {id} /\ id \notin Live /\ Live \subseteq MapIds
  BY <1>1, <1>6, <1>7 DEF Live
<1>9. Bounced' = Bounced /\ id \notin Bounced /\ Bounced \subseteq MapIds
  BY <1>5, <1>7, <1>8 DEF Bounced
<1>10. \A i \in Bounced : BouncePages(i)' = BouncePages(i)
  BY <1>7, <1>9 DEF BouncePages
<1>11. \A d \in commons : CommonPages(d)' = CommonPages(d)
  BY DEF CommonPages
<1>12. TypeOK'
  BY <1>1, <1>4 DEF IInv, TypeOK
<1>13. MapsOK'
  <2>1. SUFFICES ASSUME NEW i \in Live' PROVE (BounceOK(maps[i]) \/ CommonOK(maps[i]))'
    BY DEF MapsOK
  <2>2. CASE i = id
    <3>1. \A k \in 0 .. (m.bytes - 1) : m.seen[k] = None
      BY <1>5
    <3>2. c \in commons' /\ c.start = m.start /\ c.num * PageBytes = m.bytes
      BY <1>1, <1>5 DEF n
    <3> QED
      BY Zenon, <2>2, <3>1, <3>2, <1>5, <1>7 DEF CommonOK
  <2>3. CASE i \in Live
    BY <2>3, <1>1, <1>7, <1>8 DEF IInv, MapsOK, BounceOK, CommonOK
  <2> QED
    BY <2>1, <2>2, <2>3, <1>8
<1>14. CommonsInside' /\ CommonsApart'
  BY <1>1 DEF IInv, CommonsInside, CommonsApart, CommonPages
<1>15. BouncesApart' /\ KindsApart'
  BY <1>1, <1>9, <1>10, <1>11 DEF IInv, BouncesApart, KindsApart
<1>16. PoolAccounting'
  <2>1. {BouncePages(i)' : i \in Bounced'} = {BouncePages(i) : i \in Bounced}
    BY <1>9, <1>10
  <2>2. {CommonPages(d)' : d \in commons'} = {CommonPages(d) : d \in commons}
    BY <1>1, <1>11
  <2> QED
    BY <2>1, <2>2, <1>1 DEF IInv, PoolAccounting
<1>17. BounceFaithful'
  <2>1. SUFFICES ASSUME NEW i \in Live', NEW k \in DOMAIN maps'[i].seen, maps'[i].seen[k] # None
                 PROVE  pool'[Cell(maps'[i].start, k)] = maps'[i].seen[k]
    BY DEF BounceFaithful, Cell
  <2>2. i \in Live /\ maps'[i] = maps[i]
    BY ZenonT(30), <2>1, <1>5, <1>7, <1>8
  <2> QED
    BY <2>1, <2>2, <1>1 DEF IInv, BounceFaithful
<1> QED
  BY <1>12, <1>13, <1>14, <1>15, <1>16, <1>17 DEF IInv

(* Unmap gives back the pages of its own bounce buffer, if it has one.     *)
LEMMA UnmapStep ==
    ASSUME IInv, NEW id \in MapIds, Unmap(id)
    PROVE  IInv'
<1> DEFINE m == maps[id]
<1>1. /\ id \in Live
      /\ host' = IF m.bounced /\ m.op # "read"
                   THEN [host EXCEPT ![m.host] =
                           [k \in DOMAIN host[m.host] |->
                              IF k < m.bytes THEN pool[Cell(m.start, k)] ELSE host[m.host][k]]]
                   ELSE host
      /\ bitmap' = IF m.bounced THEN bitmap \ BouncePages(id) ELSE bitmap
      /\ maps' = [maps EXCEPT ![id] = None]
      /\ UNCHANGED <<pool, commons>>
  BY DEF Unmap, BouncePages
<1>2. maps'[id] = None /\ \A i \in MapIds : i # id => maps'[i] = maps[i]
  BY <1>1 DEF IInv, TypeOK
<1>3. Live' = Live \ {id} /\ Live \subseteq MapIds
  BY <1>1, <1>2 DEF Live
<1>4. Bounced' = Bounced \ {id} /\ Bounced \subseteq MapIds
  BY <1>2, <1>3 DEF Bounced
<1>5. \A i \in Bounced' : BouncePages(i)' = BouncePages(i)
  BY <1>2, <1>4 DEF BouncePages
<1>6. \A d \in commons : CommonPages(d)' = CommonPages(d)
  BY DEF CommonPages
<1>7. m \in MapInfo /\ (BounceOK(m) \/ CommonOK(m))
  BY <1>1, LiveMaps DEF IInv, MapsOK
<1>8. \A b \in Buffers : host'[b] \in [0 .. (BufSize[b] - 1) -> Values]
  <2>1. CASE m.bounced /\ m.op # "read"
    <3>1. BounceOK(m) /\ id \in Bounced
      BY <1>1, <1>7, <2>1 DEF CommonOK, Bounced
    <3>2. m.bytes \in Nat /\ BufSize[m.host] \in Nat /\ m.host \in Buffers
      BY <1>7, <3>1, MapInfoFields, IoMmuAssumption DEF BounceOK
    <3>3. \A k \in 0 .. (m.bytes - 1) : pool[Cell(m.start, k)] \in Values
      <4>1. 0 \in Nat /\ BouncePages(id) \cap Run(0, 0) = {}
        BY DEF Run
      <4>2. \A k \in 0 .. (m.bytes - 1) : Cell(m.start, k) \in Cells
        BY <3>1, <4>1, BounceCell
      <4> QED
        BY <4>2 DEF IInv, TypeOK
    <3>4. host[m.host] \in [0 .. (BufSize[m.host] - 1) -> Values]
      BY <3>2 DEF IInv, TypeOK
    <3>5. [k \in DOMAIN host[m.host] |->
             IF k < m.bytes THEN pool[Cell(m.start, k)] ELSE host[m.host][k]]
            \in [0 .. (BufSize[m.host] - 1) -> Values]
      BY <3>2, <3>3, <3>4
    <3>6. \A b \in Buffers : host[b] \in [0 .. (BufSize[b] - 1) -> Values]
      BY DEF IInv, TypeOK
    <3>7. DOMAIN host = Buffers
      BY DEF IInv, TypeOK
    <3> HIDE DEF m
    <3> QED
      BY <1>1, <2>1, <3>2, <3>5, <3>6, <3>7
  <2>2. CASE ~(m.bounced /\ m.op # "read")
    BY <1>1, <2>2 DEF IInv, TypeOK
  <2> QED
    BY <2>1, <2>2
<1>9. TypeOK'
  <2>1. DOMAIN host' = Buffers
    BY <1>1 DEF IInv, TypeOK
  <2>2. bitmap' \subseteq Pages
    BY <1>1 DEF IInv, TypeOK
  <2>3. maps' \in [MapIds -> MapInfo \cup {None}]
    BY <1>1 DEF IInv, TypeOK
  <2> QED
    BY <1>1, <1>8, <2>1, <2>2, <2>3 DEF IInv, TypeOK
<1>10. MapsOK'
  <2>1. SUFFICES ASSUME NEW i \in Live' PROVE (BounceOK(maps[i]) \/ CommonOK(maps[i]))'
    BY DEF MapsOK
  <2> QED
    BY <1>1, <1>2, <1>3 DEF IInv, MapsOK, BounceOK, CommonOK
<1>11. CommonsInside' /\ CommonsApart'
  BY <1>1 DEF IInv, CommonsInside, CommonsApart, CommonPages
<1>12. BouncesApart' /\ KindsApart'
  BY <1>1, <1>4, <1>5, <1>6 DEF IInv, BouncesApart, KindsApart
<1>13. PoolAccounting'
  <2>1. {BouncePages(i)' : i \in Bounced'} = {BouncePages(i) : i \in Bounced \ {id}}
    BY <1>4, <1>5
  <2>2. {CommonPages(d)' : d \in commons'} = {CommonPages(d) : d \in commons}
    BY <1>1, <1>6
  <2>3. CASE m.bounced
    <3>1. id \in Bounced
      BY <1>1, <2>3 DEF Bounced
    <3>2. \A i \in Bounced \ {id} : BouncePages(i) \cap BouncePages(id) = {}
      BY <3>1 DEF IInv, BouncesApart
    <3>3. \A d \in commons : CommonPages(d) \cap BouncePages(id) = {}
      BY <3>1 DEF IInv, KindsApart
    <3>4. bitmap' = bitmap \ BouncePages(id)
      BY <1>1, <2>3
    <3>5. bitmap = UNION ({BouncePages(i) : i \in Bounced} \cup {CommonPages(d) : d \in commons})
      BY DEF IInv, PoolAccounting
    <3>6. bitmap' = UNION ({BouncePages(i) : i \in Bounced \ {id}}
                             \cup {CommonPages(d) : d \in commons})
      BY <3>1, <3>2, <3>3, <3>4, <3>5
    <3> QED
      BY <2>1, <2>2, <3>6 DEF PoolAccounting
  <2>4. CASE ~m.bounced
    <3>1. Bounced \ {id} = Bounced
      BY <2>4 DEF Bounced
    <3> QED
      BY <1>1, <2>1, <2>2, <2>4, <3>1 DEF IInv, PoolAccounting
  <2> QED
    BY <2>3, <2>4
<1>14. BounceFaithful'
  <2>1. SUFFICES ASSUME NEW i \in Live', NEW k \in DOMAIN maps'[i].seen, maps'[i].seen[k] # None
                 PROVE  pool'[Cell(maps'[i].start, k)] = maps'[i].seen[k]
    BY DEF BounceFaithful, Cell
  <2> QED
    BY <2>1, <1>1, <1>2, <1>3 DEF IInv, BounceFaithful
<1> QED
  BY <1>9, <1>10, <1>11, <1>12, <1>13, <1>14 DEF IInv

-----------------------------------------------------------------------------
(* The mappings stay as they are while a common buffer comes or goes.      *)
LEMMA SameMaps ==
    ASSUME UNCHANGED maps
    PROVE  /\ Live' = Live
           /\ Bounced' = Bounced
           /\ \A i \in Bounced : BouncePages(i)' = BouncePages(i)
  BY DEF Live, Bounced, BouncePages

(* A mapping that promises a cell is a bounced one.                        *)
LEMMA PromiseBounced ==
    ASSUME IInv, NEW i \in Live, NEW k \in DOMAIN maps[i].seen, maps[i].seen[k] # None
    PROVE  i \in Bounced /\ k \in 0 .. (maps[i].bytes - 1)
<1>1. maps[i].seen \in [0 .. (maps[i].bytes - 1) -> Values \cup {None}]
  BY LiveMaps, MapInfoFields DEF IInv
<1>2. k \in 0 .. (maps[i].bytes - 1)
  BY Zenon, <1>1
<1> QED
  BY <1>2 DEF IInv, MapsOK, CommonOK, BounceOK, Bounced

(* AllocateBuffer takes free pages and clears them.                        *)
LEMMA AllocateBufferStep ==
    ASSUME IInv, NEW n \in 1 .. MaxCommon, AllocateBuffer(n)
    PROVE  IInv'
<1>1. PICK s \in Pages :
        /\ FirstFit(s, n)
        /\ bitmap' = bitmap \cup Run(s, n)
        /\ pool' = [c \in Cells |-> IF c - Cell(s, 0) \in 0 .. (n * PageBytes - 1)
                                      THEN Zero ELSE pool[c]]
        /\ commons' = commons \cup {[start |-> s, num |-> n]}
  BY DEF AllocateBuffer
<1> DEFINE d == [start |-> s, num |-> n]
<1>2. UNCHANGED <<host, maps>>
  BY DEF AllocateBuffer
<1>3. n \in Nat /\ s \in Nat /\ PageBytes \in Nat /\ TotalPages \in Nat /\ n * PageBytes \in Nat
  BY IoMmuAssumption DEF Pages
<1>4. /\ s + n <= TotalPages
      /\ Run(s, n) \subseteq Pages
      /\ \A i \in Bounced : BouncePages(i) \cap Run(s, n) = {}
      /\ \A c \in commons : CommonPages(c) \cap Run(s, n) = {}
  BY <1>1, <1>3, FreshRun
<1>5. d.start = s /\ d.num = n /\ CommonPages(d) = Run(s, n) /\ commons' = commons \cup {d}
  BY <1>1 DEF CommonPages
<1>6. d \in [start : Pages, num : Nat]
  BY <1>3
<1> HIDE DEF d
<1>7. \A c \in commons' : CommonPages(c)' = CommonPages(c)
  BY DEF CommonPages
<1>8. /\ Live' = Live /\ Bounced' = Bounced
      /\ \A i \in Bounced : BouncePages(i)' = BouncePages(i)
  BY <1>2, SameMaps
<1>9. TypeOK'
  <2>1. pool' \in [Cells -> Values]
    BY <1>1, IoMmuAssumption DEF IInv, TypeOK
  <2> QED
    BY <1>1, <1>2, <1>4, <1>5, <1>6, <2>1 DEF IInv, TypeOK
<1>10. MapsOK'
  BY <1>2, <1>5, <1>8 DEF IInv, MapsOK, BounceOK, CommonOK
<1>11. CommonsInside'
  BY <1>4, <1>5 DEF IInv, CommonsInside
<1>12. BouncesApart'
  BY <1>8 DEF IInv, BouncesApart
<1>13. CommonsApart'
  BY <1>4, <1>5, <1>7 DEF IInv, CommonsApart
<1>14. KindsApart'
  BY <1>4, <1>5, <1>7, <1>8 DEF IInv, KindsApart
<1>15. PoolAccounting'
  <2>1. {BouncePages(i)' : i \in Bounced'} = {BouncePages(i) : i \in Bounced}
    BY <1>8
  <2>2. {CommonPages(c)' : c \in commons'} = {CommonPages(c) : c \in commons} \cup {Run(s, n)}
    BY <1>5, <1>7
  <2> QED
    BY Zenon, <2>1, <2>2, <1>1 DEF IInv, PoolAccounting
<1>16. BounceFaithful'
  <2>1. SUFFICES ASSUME NEW i \in Live, NEW k \in DOMAIN maps[i].seen, maps[i].seen[k] # None
                 PROVE  pool'[Cell(maps[i].start, k)] = maps[i].seen[k]
    BY <1>2, <1>8 DEF BounceFaithful, Cell
  <2>2. i \in Bounced /\ k \in 0 .. (maps[i].bytes - 1)
    BY <2>1, PromiseBounced
  <2> DEFINE x == Cell(maps[i].start, k)
  <2>3. x \in Cells /\ \A j \in 0 .. (n * PageBytes - 1) : x # Cell(s, j)
    BY <2>2, <1>3, <1>4, BounceCell
  <2>4. pool[x] = maps[i].seen[k]
    BY <2>1 DEF IInv, BounceFaithful
  <2> HIDE DEF x
  <2>5. x - Cell(s, 0) \notin 0 .. (n * PageBytes - 1)
    BY <2>3, <1>3, OutsideStore
  <2>6. pool'[x] = pool[x]
    BY <2>3, <2>5, <1>1
  <2> QED
    BY <2>4, <2>6 DEF x
<1> QED
  BY <1>9, <1>10, <1>11, <1>12, <1>13, <1>14, <1>15, <1>16 DEF IInv

(* FreeBuffer gives back the pages of its buffer and no others.            *)
LEMMA FreeBufferStep ==
    ASSUME IInv, NEW c \in commons, FreeBuffer(c)
    PROVE  IInv'
<1>1. /\ \A id \in Live : maps[id].op = "common" => maps[id].start # c.start
      /\ bitmap' = bitmap \ CommonPages(c)
      /\ commons' = commons \ {c}
      /\ UNCHANGED <<pool, host, maps>>
  BY DEF FreeBuffer, CommonPages
<1>2. \A d \in commons : CommonPages(d)' = CommonPages(d)
  BY DEF CommonPages
<1>3. /\ Live' = Live /\ Bounced' = Bounced
      /\ \A i \in Bounced : BouncePages(i)' = BouncePages(i)
  BY <1>1, SameMaps
<1>4. TypeOK'
  BY <1>1 DEF IInv, TypeOK
<1>5. MapsOK'
  <2>1. SUFFICES ASSUME NEW i \in Live PROVE (BounceOK(maps[i]) \/ CommonOK(maps[i]))'
    BY ZenonT(30), <1>3 DEF MapsOK
  <2>2. CASE BounceOK(maps[i])
    BY <2>2, <1>1 DEF BounceOK
  <2>3. CASE CommonOK(maps[i])
    <3>1. PICK d \in commons : d.start = maps[i].start /\ d.num * PageBytes = maps[i].bytes
      BY <2>3 DEF CommonOK
    <3>2. d # c
      BY <3>1, <2>3, <1>1 DEF CommonOK
    <3> QED
      BY <3>1, <3>2, <2>3, <1>1 DEF CommonOK
  <2> QED
    BY <2>2, <2>3 DEF IInv, MapsOK
<1>6. CommonsInside' /\ CommonsApart'
  BY <1>1, <1>2 DEF IInv, CommonsInside, CommonsApart
<1>7. BouncesApart' /\ KindsApart'
  BY <1>1, <1>2, <1>3 DEF IInv, BouncesApart, KindsApart
<1>8. PoolAccounting'
  <2>1. {BouncePages(i)' : i \in Bounced'} = {BouncePages(i) : i \in Bounced}
    BY <1>3
  <2>2. {CommonPages(d)' : d \in commons'} = {CommonPages(d) : d \in commons \ {c}}
    BY <1>1, <1>2
  <2>3. \A d \in commons \ {c} : CommonPages(d) \cap CommonPages(c) = {}
    BY DEF IInv, CommonsApart
  <2>4. \A i \in Bounced : BouncePages(i) \cap CommonPages(c) = {}
    BY DEF IInv, KindsApart
  <2>5. bitmap = UNION ({BouncePages(i) : i \in Bounced} \cup {CommonPages(d) : d \in commons})
    BY DEF IInv, PoolAccounting
  <2>6. bitmap' = UNION ({BouncePages(i) : i \in Bounced}
                           \cup {CommonPages(d) : d \in commons \ {c}})
    BY <1>1, <2>3, <2>4, <2>5
  <2> QED
    BY <2>1, <2>2, <2>6 DEF PoolAccounting
<1>9. BounceFaithful'
  BY <1>1, <1>3 DEF IInv, BounceFaithful, Cell
<1> QED
  BY <1>4, <1>5, <1>6, <1>7, <1>8, <1>9 DEF IInv

-----------------------------------------------------------------------------
(* The pages behind a mapping: its bounce buffer, or its common buffer.    *)
LEMMA Behind ==
    ASSUME IInv, NEW id \in Live
    PROVE  /\ maps[id].start \in Nat /\ maps[id].bytes \in Nat
           /\ \/ /\ id \in Bounced /\ maps[id].op # "common"
                 /\ maps[id].pages \in Nat
                 /\ maps[id].bytes <= maps[id].pages * PageBytes
              \/ /\ id \notin Bounced /\ maps[id].op = "common"
                 /\ \E c \in commons : /\ c.start = maps[id].start
                                       /\ c.num \in Nat
                                       /\ c.num * PageBytes = maps[id].bytes
<1>1. maps[id].start \in Nat /\ maps[id].bytes \in Nat /\ maps[id].pages \in Nat
  BY LiveMaps, MapInfoFields DEF IInv
<1>2. CASE BounceOK(maps[id])
  BY <1>1, <1>2 DEF BounceOK, Bounced
<1>3. CASE CommonOK(maps[id])
  BY <1>1, <1>3 DEF CommonOK, Bounced, IInv, TypeOK
<1> QED
  BY <1>2, <1>3 DEF IInv, MapsOK

(* A device that writes through a mapping reaches no other bounce buffer.  *)
LEMMA DeviceCell ==
    ASSUME IInv, NEW id \in Live, NEW k \in 0 .. (maps[id].bytes - 1)
    PROVE  /\ Cell(maps[id].start, k) \in Cells
           /\ \A i \in Bounced \ {id} : \A j \in 0 .. (maps[i].bytes - 1) :
                  Cell(maps[i].start, j) # Cell(maps[id].start, k)
<1>1. maps[id].start \in Nat /\ maps[id].bytes \in Nat
  BY Behind
<1>2. CASE id \in Bounced
  <2>1. maps[id].pages \in Nat /\ maps[id].bytes <= maps[id].pages * PageBytes
    BY <1>2, Behind
  <2>2. maps[id].pages * PageBytes \in Nat
    BY <2>1, IoMmuAssumption
  <2>3. k \in 0 .. (maps[id].pages * PageBytes - 1)
    BY <1>1, <2>1, <2>2
  <2>4. Cell(maps[id].start, k) \in Cells
    <3>1. BouncePages(id) \cap Run(0, 0) = {}
      BY DEF Run
    <3> QED
      BY <1>2, <3>1, BounceCell
  <2>5. ASSUME NEW i \in Bounced \ {id}, NEW j \in 0 .. (maps[i].bytes - 1)
        PROVE  Cell(maps[i].start, j) # Cell(maps[id].start, k)
    <3>1. BouncePages(i) \cap Run(maps[id].start, maps[id].pages) = {}
      BY <1>2 DEF IInv, BouncesApart, BouncePages
    <3> QED
      BY <3>1, <1>1, <2>1, <2>3, BounceCell
  <2> QED
    BY <2>4, <2>5
<1>3. CASE id \notin Bounced
  <2>1. PICK c \in commons : /\ c.start = maps[id].start /\ c.num \in Nat
                             /\ c.num * PageBytes = maps[id].bytes
    BY <1>3, Behind
  <2>2. k \in 0 .. (c.num * PageBytes - 1)
    BY <2>1
  <2>3. Cell(maps[id].start, k) \in Cells
    <3>1. CommonPages(c) \cap Run(0, 0) = {}
      BY DEF Run
    <3> QED
      BY <2>1, <2>2, <3>1, CommonCell
  <2>4. ASSUME NEW i \in Bounced \ {id}, NEW j \in 0 .. (maps[i].bytes - 1)
        PROVE  Cell(maps[i].start, j) # Cell(maps[id].start, k)
    <3>1. BouncePages(i) \cap Run(c.start, c.num) = {}
      BY DEF IInv, KindsApart, CommonPages
    <3> QED
      BY <3>1, <1>1, <2>1, <2>2, BounceCell
  <2> QED
    BY <2>3, <2>4
<1> QED
  BY <1>2, <1>3

(* A device writes the cells of its own mapping only.                      *)
LEMMA DeviceWriteStep ==
    ASSUME IInv, NEW id \in Live, NEW k \in 0 .. (maps[id].bytes - 1), NEW v \in Values,
           DeviceWrite(id, k, v)
    PROVE  IInv' /\ Live' = Live
<1> DEFINE m == maps[id]
           w == IF m.op = "write" THEN v ELSE None
           new == [m EXCEPT !.seen = [m.seen EXCEPT ![k] = w]]
<1>1. /\ m.op # "read"
      /\ pool' = [pool EXCEPT ![Cell(m.start, k)] = v]
      /\ maps' = [maps EXCEPT ![id] = new]
      /\ UNCHANGED <<bitmap, host, commons>>
  BY DEF DeviceWrite
<1>2. id \in MapIds /\ m \in MapInfo
  BY LiveMaps DEF IInv
<1>3. new \in MapInfo /\ new.op = m.op /\ new.host = m.host /\ new.bytes = m.bytes
      /\ new.start = m.start /\ new.pages = m.pages /\ new.bounced = m.bounced
      /\ new.seen = [m.seen EXCEPT ![k] = w]
  <2> DEFINE Rec(n) == [op : {"read", "write", "common"}, host : Buffers \cup {None},
                        bytes : {n}, start : 0 .. (TotalPages - 1), pages : 0 .. TotalPages,
                        bounced : BOOLEAN, seen : [0 .. (n - 1) -> Values \cup {None}]]
  <2>1. PICK n \in 0 .. (TotalPages * PageBytes) : m \in Rec(n)
    BY <1>2 DEF MapInfo
  <2>2. [m.seen EXCEPT ![k] = w] \in [0 .. (n - 1) -> Values \cup {None}]
    BY <2>1
  <2>3. new \in Rec(n)
    BY Zenon, <2>1, <2>2
  <2>4. new \in MapInfo
    BY <2>3 DEF MapInfo
  <2> QED
    BY <2>1, <2>4
<1>4. maps'[id] = new /\ \A i \in MapIds : i # id => maps'[i] = maps[i]
  BY <1>1, <1>2 DEF IInv, TypeOK
<1>5. Live' = Live /\ Live \subseteq MapIds
  <2>1. new # None
    BY <1>3, MapInfoFields
  <2> QED
    BY <1>2, <1>4, <2>1 DEF Live
<1>6. m.seen \in [0 .. (m.bytes - 1) -> Values \cup {None}] /\ m.start \in Nat /\ m.bytes \in Nat
  BY <1>2, MapInfoFields
<1> HIDE DEF m, new
<1>7. Bounced' = Bounced
  BY <1>3, <1>4, <1>5 DEF Bounced, m
<1>8. \A i \in Live : BouncePages(i)' = BouncePages(i)
  BY <1>3, <1>4, <1>5 DEF BouncePages, m
<1>9. TypeOK'
  BY ZenonT(30), <1>1, <1>3 DEF IInv, TypeOK
<1>10. MapsOK'
  <2>1. SUFFICES ASSUME NEW i \in Live PROVE (BounceOK(maps[i]) \/ CommonOK(maps[i]))'
    BY <1>5 DEF MapsOK
  <2>2. CASE i # id
    BY ZenonT(30), <2>2, <1>1, <1>4, <1>5 DEF IInv, MapsOK, BounceOK, CommonOK
  <2>3. CASE i = id /\ BounceOK(m)
    BY ZenonT(30), <2>3, <1>3, <1>4 DEF BounceOK
  <2>4. CASE i = id /\ CommonOK(m)
    <3>1. w = None /\ m.op = "common"
      BY <2>4 DEF CommonOK
    <3>2. \A j \in 0 .. (new.bytes - 1) : new.seen[j] = None
      BY <2>4, <3>1, <1>3, <1>6 DEF CommonOK
    <3> QED
      BY ZenonT(30), <2>4, <3>2, <1>1, <1>3, <1>4 DEF CommonOK
  <2> QED
    BY <2>2, <2>3, <2>4 DEF IInv, MapsOK, m
<1>11. CommonsInside' /\ CommonsApart'
  BY <1>1 DEF IInv, CommonsInside, CommonsApart, CommonPages
<1>12. BouncesApart' /\ KindsApart'
  BY <1>1, <1>7, <1>8 DEF IInv, BouncesApart, KindsApart, Bounced, CommonPages
<1>13. PoolAccounting'
  <2>1. {BouncePages(i)' : i \in Bounced'} = {BouncePages(i) : i \in Bounced}
    BY <1>7, <1>8 DEF Bounced
  <2>2. {CommonPages(d)' : d \in commons'} = {CommonPages(d) : d \in commons}
    BY <1>1 DEF CommonPages
  <2> QED
    BY <2>1, <2>2, <1>1 DEF IInv, PoolAccounting
<1>14. BounceFaithful'
  <2>1. SUFFICES ASSUME NEW i \in Live, NEW j \in DOMAIN maps'[i].seen, maps'[i].seen[j] # None
                 PROVE  pool'[Cell(maps'[i].start, j)] = maps'[i].seen[j]
    BY <1>5 DEF BounceFaithful, Cell
  <2>2. Cell(m.start, k) \in Cells /\ pool \in [Cells -> Values]
    BY DeviceCell DEF IInv, TypeOK, m
  <2>3. CASE i # id
    <3>1. maps'[i] = maps[i]
      BY <2>3, <1>4, <1>5
    <3>2. i \in Bounced /\ j \in 0 .. (maps[i].bytes - 1)
      BY <2>1, <3>1, PromiseBounced
    <3>3. Cell(maps[i].start, j) # Cell(m.start, k)
      BY <2>3, <3>2, DeviceCell DEF m
    <3>4. pool[Cell(maps[i].start, j)] = maps[i].seen[j]
      BY <2>1, <3>1 DEF IInv, BounceFaithful
    <3>5. pool'[Cell(maps[i].start, j)] = pool[Cell(maps[i].start, j)]
      <4>1. Cell(maps[i].start, j) \in Cells
        <5>1. BouncePages(i) \cap Run(0, 0) = {}
          BY DEF Run
        <5> QED
          BY <3>2, <5>1, BounceCell
      <4> QED
        BY <1>1, <2>2, <3>3, <4>1
    <3> QED
      BY <3>1, <3>4, <3>5
  <2>4. CASE i = id /\ j = k
    <3>1. maps'[i].seen[j] = w /\ maps'[i].start = m.start
      BY <2>1, <2>4, <1>3, <1>4, <1>6
    <3>2. w = v
      BY <2>1, <3>1
    <3> QED
      BY <3>1, <3>2, <2>2, <2>4, <1>1
  <2>5. CASE i = id /\ j # k
    <3>1. j \in DOMAIN m.seen /\ maps'[i].seen[j] = m.seen[j] /\ maps'[i].start = m.start
      BY <2>1, <2>5, <1>3, <1>4, <1>6
    <3>2. m.seen[j] # None
      BY <2>1, <3>1
    <3>3. pool[Cell(m.start, j)] = m.seen[j]
      BY <3>1, <3>2 DEF IInv, BounceFaithful, m
    <3>4. j \in 0 .. (m.bytes - 1)
      BY <3>1, <1>6
    <3>5. Cell(m.start, j) \in Cells
      BY <3>4, DeviceCell DEF m
    <3>6. Cell(m.start, j) # Cell(m.start, k)
      <4>1. m.start * PageBytes \in Nat
        BY <1>6, IoMmuAssumption
      <4> QED
        BY <4>1, <3>4, <2>5 DEF Cell, m
    <3>7. pool'[Cell(m.start, j)] = pool[Cell(m.start, j)]
      BY <3>5, <3>6, <2>2, <1>1
    <3> QED
      BY <3>1, <3>3, <3>7
  <2> QED
    BY <2>3, <2>4, <2>5
<1> QED
  BY <1>5, <1>9, <1>10, <1>11, <1>12, <1>13, <1>14 DEF IInv

(* The driver's own stores leave the pool alone.                           *)
LEMMA HostWriteStep ==
    ASSUME IInv, NEW b \in Buffers, NEW k \in 0 .. (BufSize[b] - 1), NEW v \in Values,
           HostWrite(b, k, v)
    PROVE  IInv'
<1>1. host' = [host EXCEPT ![b][k] = v] /\ UNCHANGED <<bitmap, pool, maps, commons>>
  BY DEF HostWrite
<1>2. TypeOK'
  BY <1>1 DEF IInv, TypeOK
<1>3. Live' = Live /\ Bounced' = Bounced /\ \A i \in Bounced : BouncePages(i)' = BouncePages(i)
  BY ZenonT(30), <1>1, SameMaps
<1>4. /\ MapsOK' /\ CommonsInside' /\ BouncesApart' /\ CommonsApart' /\ KindsApart'
      /\ BounceFaithful'
  BY <1>1, <1>3 DEF IInv, MapsOK, BounceOK, CommonOK, CommonsInside, BouncesApart, CommonsApart,
                    KindsApart, BounceFaithful, CommonPages, Cell
<1>5. PoolAccounting'
  BY <1>1 DEF IInv, PoolAccounting, BouncePages, CommonPages, Bounced, Live
<1> QED
  BY <1>2, <1>4, <1>5 DEF IInv

(* What the invariant speaks of is unchanged.                              *)
LEMMA StillStep ==
    ASSUME IInv, UNCHANGED <<bitmap, pool, host, maps, commons>>
    PROVE  IInv'
<1>1. TypeOK'
  BY DEF IInv, TypeOK
<1>2. Live' = Live /\ Bounced' = Bounced /\ \A i \in Bounced : BouncePages(i)' = BouncePages(i)
  BY ZenonT(30), SameMaps
<1>3. /\ MapsOK' /\ CommonsInside' /\ BouncesApart' /\ CommonsApart' /\ KindsApart'
      /\ BounceFaithful'
  BY <1>2 DEF IInv, MapsOK, BounceOK, CommonOK, CommonsInside, BouncesApart, CommonsApart,
              KindsApart, BounceFaithful, CommonPages, Cell
<1>4. PoolAccounting'
  BY ZenonT(30) DEF IInv, PoolAccounting, BouncePages, CommonPages, Bounced, Live
<1> QED
  BY <1>1, <1>3, <1>4 DEF IInv

(* Every step preserves the invariant.                                     *)
LEMMA InvStep == IInv /\ [Next]_vars => IInv'
<1> SUFFICES ASSUME IInv, [Next]_vars PROVE IInv'
  OBVIOUS
<1>1. CASE EntryInstalls \/ EntryFindsNoPool \/ EntryOutOfMemory
  BY <1>1, StillStep DEF EntryInstalls, EntryFindsNoPool, EntryOutOfMemory
<1>2. ASSUME NEW id \in MapIds, NEW b \in Buffers, NEW n \in 0 .. BufSize[b],
             MapRead(id, b, n) \/ MapWrite(id, b, n)
      PROVE  IInv'
  BY <1>2, MapReadStep, MapWriteStep
<1>3. ASSUME NEW id \in MapIds, NEW c \in commons, MapCommon(id, c) PROVE IInv'
  BY <1>3, MapCommonStep
<1>4. ASSUME NEW id \in MapIds, Unmap(id) PROVE IInv'
  BY <1>4, UnmapStep
<1>5. ASSUME NEW n \in 1 .. MaxCommon, AllocateBuffer(n) PROVE IInv'
  BY <1>5, AllocateBufferStep
<1>6. ASSUME NEW c \in commons, FreeBuffer(c) PROVE IInv'
  BY <1>6, FreeBufferStep
<1>7. ASSUME NEW id \in Live, NEW k \in 0 .. (maps[id].bytes - 1), NEW v \in Values,
             DeviceWrite(id, k, v)
      PROVE  IInv'
  BY <1>7, DeviceWriteStep
<1>8. ASSUME NEW b \in Buffers, NEW k \in 0 .. (BufSize[b] - 1), NEW v \in Values,
             HostWrite(b, k, v)
      PROVE  IInv'
  BY <1>8, HostWriteStep
<1>9. CASE UNCHANGED vars
  BY <1>9, StillStep DEF vars
<1> QED
  BY <1>1, <1>2, <1>3, <1>4, <1>5, <1>6, <1>7, <1>8, <1>9 DEF Next

(* For every pool, every set of mappings and buffers, and every order of   *)
(* GunyahIoMmuMap, Unmap, AllocateBuffer and FreeBuffer: no page leaks and *)
(* none is lent twice.                                                     *)
THEOREM PoolAccounted == Spec => []PoolAccounting
<1>1. IInv => PoolAccounting
  BY DEF IInv
<1> QED
  BY <1>1, InitInv, InvStep, PTL DEF Spec

(* For all of them: the cells behind a mapping hold what the driver put    *)
(* there before Map, or what the device wrote since.                       *)
THEOREM BouncesFaithful == Spec => []BounceFaithful
<1>1. IInv => BounceFaithful
  BY ZenonT(30) DEF IInv
<1> QED
  BY <1>1, InitInv, InvStep, PTL DEF Spec

-----------------------------------------------------------------------------
(* What one step may do to the drivers' buffers and to common buffers.     *)

Delivers ==
    \A id \in Live : maps'[id] = None =>
        /\ \A k \in DOMAIN maps[id].seen :
              maps[id].op = "write" /\ maps[id].seen[k] # None =>
                  host'[maps[id].host][k] = maps[id].seen[k]
        /\ \A b \in Buffers : \A k \in DOMAIN host[b] :
              host'[b][k] # host[b][k] =>
                  maps[id].op = "write" /\ maps[id].host = b /\ k < maps[id].bytes

(* Only Unmap makes a MAP_INFO go away.                                    *)
LEMMA OnlyUnmap ==
    ASSUME IInv, [Next]_vars, NEW id \in Live, maps'[id] = None
    PROVE  Unmap(id)
<1>1. IInv'
  BY InvStep
<1>2. id \in MapIds /\ maps[id] # None /\ maps \in [MapIds -> MapInfo \cup {None}]
  BY DEF IInv, TypeOK, Live
<1>3. CASE UNCHANGED maps
  BY ZenonT(30), <1>2, <1>3
<1>4. ASSUME NEW i \in MapIds, NEW b \in Buffers, NEW n \in 0 .. BufSize[b],
             MapRead(i, b, n) \/ MapWrite(i, b, n)
      PROVE  FALSE
  <2>1. i # id
    BY <1>2, <1>4 DEF MapRead, MapWrite
  <2> QED
    BY ZenonT(30), <2>1, <1>2, <1>4 DEF MapRead, MapWrite
<1>5. ASSUME NEW i \in MapIds, NEW c \in commons, MapCommon(i, c) PROVE FALSE
  <2>1. i # id
    BY <1>2, <1>5 DEF MapCommon
  <2> QED
    BY <2>1, <1>2, <1>5 DEF MapCommon
<1>6. ASSUME NEW i \in MapIds, Unmap(i) PROVE Unmap(id)
  <2>1. CASE i # id
    BY ZenonT(30), <2>1, <1>2, <1>6 DEF Unmap
  <2> QED
    BY <2>1, <1>6
<1>7. ASSUME NEW i \in Live, NEW k \in 0 .. (maps[i].bytes - 1), NEW v \in Values,
             DeviceWrite(i, k, v)
      PROVE  FALSE
  BY <1>7, DeviceWriteStep DEF Live
<1>8. \/ EntryInstalls \/ EntryFindsNoPool \/ EntryOutOfMemory
      \/ \E n \in 1 .. MaxCommon : AllocateBuffer(n)
      \/ \E c \in commons : FreeBuffer(c)
      \/ \E b \in Buffers : \E k \in 0 .. (BufSize[b] - 1), v \in Values : HostWrite(b, k, v)
      \/ UNCHANGED vars
      => UNCHANGED maps
  BY ZenonT(30) DEF EntryInstalls, EntryFindsNoPool, EntryOutOfMemory, AllocateBuffer, FreeBuffer, HostWrite, vars
<1> QED
  BY <1>3, <1>4, <1>5, <1>6, <1>7, <1>8 DEF Next

(* Unmap copies the bounce buffer back, to its own buffer only.            *)
LEMMA DeliversStep ==
    ASSUME IInv, NEW id \in Live, Unmap(id)
    PROVE  /\ \A k \in DOMAIN maps[id].seen :
                 maps[id].op = "write" /\ maps[id].seen[k] # None =>
                     host'[maps[id].host][k] = maps[id].seen[k]
           /\ \A b \in Buffers : \A k \in DOMAIN host[b] :
                 host'[b][k] # host[b][k] =>
                     maps[id].op = "write" /\ maps[id].host = b /\ k < maps[id].bytes
<1> DEFINE m == maps[id]
<1>1. host' = IF m.bounced /\ m.op # "read"
                THEN [host EXCEPT ![m.host] =
                        [k \in DOMAIN host[m.host] |->
                           IF k < m.bytes THEN pool[Cell(m.start, k)] ELSE host[m.host][k]]]
                ELSE host
  BY DEF Unmap
<1>2. DOMAIN host = Buffers /\ \A b \in Buffers : host[b] \in [0 .. (BufSize[b] - 1) -> Values]
  BY DEF IInv, TypeOK
<1>3. m \in MapInfo /\ (BounceOK(m) \/ CommonOK(m))
  BY LiveMaps DEF IInv, MapsOK
<1>4. m.bytes \in Nat /\ m.seen \in [0 .. (m.bytes - 1) -> Values \cup {None}]
  BY <1>3, MapInfoFields
<1>5. \A k \in DOMAIN m.seen : m.seen[k] # None => pool[Cell(m.start, k)] = m.seen[k]
  BY ZenonT(30) DEF IInv, BounceFaithful
<1> HIDE DEF m
<1>6. CASE BounceOK(m) /\ m.op = "write"
  <2>1. m.bounced /\ m.host \in Buffers /\ m.bytes <= BufSize[m.host] /\ BufSize[m.host] \in Nat
    BY <1>6, IoMmuAssumption DEF BounceOK
  <2>2. host' = [host EXCEPT ![m.host] =
                   [k \in DOMAIN host[m.host] |->
                      IF k < m.bytes THEN pool[Cell(m.start, k)] ELSE host[m.host][k]]]
    BY <1>1, <1>6, <2>1
  <2>3. \A k \in DOMAIN host[m.host] :
          host'[m.host][k] = IF k < m.bytes THEN pool[Cell(m.start, k)] ELSE host[m.host][k]
    BY <1>2, <2>1, <2>2
  <2>4. \A b \in Buffers : b # m.host => host'[b] = host[b]
    BY <1>2, <2>1, <2>2
  <2>5. \A k \in DOMAIN m.seen : k \in DOMAIN host[m.host] /\ k < m.bytes
    BY <1>2, <1>4, <2>1
  <2>6. \A k \in DOMAIN m.seen : m.seen[k] # None => host'[m.host][k] = m.seen[k]
    BY <2>3, <2>5, <1>5
  <2> QED
    BY <1>6, <2>3, <2>4, <2>6 DEF m
<1>7. CASE ~(BounceOK(m) /\ m.op = "write")
  <2>1. host' = host /\ m.op # "write"
    BY <1>1, <1>3, <1>7 DEF BounceOK, CommonOK
  <2> QED
    BY <2>1 DEF m
<1> QED
  BY <1>6, <1>7

(* Whatever is mapped beside it, Unmap of a BusMasterWrite gives the       *)
(* driver every cell the device wrote, and no Unmap touches a buffer, or a *)
(* part of one, that it was not asked for (GunyahIoMmuUnmap).              *)
THEOREM UnmapsDeliver == Spec => UnmapDelivers
<1>1. IInv /\ [Next]_vars => [Delivers]_vars
  BY OnlyUnmap, DeliversStep DEF Delivers
<1> QED
  BY <1>1, InitInv, InvStep, PTL DEF Spec, UnmapDelivers, Delivers

-----------------------------------------------------------------------------
Undisturbed ==
    \A c \in commons \cap commons' : \A k \in 0 .. (c.num * PageBytes - 1) :
        pool'[Cell(c.start, k)] # pool[Cell(c.start, k)] =>
            \E id \in Live : maps[id].op = "common" /\ maps[id].start = c.start

(* Copying or clearing freshly allocated pages reaches no common buffer.   *)
LEMMA StoreUndisturbed ==
    ASSUME IInv, NEW s \in Pages, NEW n \in Nat, FirstFit(s, n),
           NEW len \in Nat, len <= n * PageBytes, NEW F,
           pool' = [x \in Cells |-> IF x - Cell(s, 0) \in 0 .. (len - 1) THEN F[x] ELSE pool[x]]
    PROVE  Undisturbed
<1>1. SUFFICES ASSUME NEW c \in commons, NEW k \in 0 .. (c.num * PageBytes - 1)
               PROVE  pool'[Cell(c.start, k)] = pool[Cell(c.start, k)]
  BY DEF Undisturbed
<1>2. s \in Nat /\ CommonPages(c) \cap Run(s, n) = {}
  BY SMTT(30), FreshRun DEF Pages
<1> DEFINE x == Cell(c.start, k)
<1>3. x \in Cells /\ \A j \in 0 .. (n * PageBytes - 1) : x # Cell(s, j)
  BY ZenonT(30), <1>2, CommonCell
<1> HIDE DEF x
<1>4. x - Cell(s, 0) \notin 0 .. (len - 1)
  BY <1>2, <1>3, OutsideStore
<1>5. pool'[x] = pool[x]
  BY <1>3, <1>4
<1> QED
  BY ZenonT(30), <1>5 DEF x

(* A device reaches a common buffer only through a mapping of it.          *)
LEMMA DeviceUndisturbed ==
    ASSUME IInv, NEW id \in Live, NEW k \in 0 .. (maps[id].bytes - 1), NEW v \in Values,
           DeviceWrite(id, k, v)
    PROVE  Undisturbed
<1>1. SUFFICES ASSUME NEW c \in commons, NEW j \in 0 .. (c.num * PageBytes - 1),
                      pool'[Cell(c.start, j)] # pool[Cell(c.start, j)]
               PROVE  maps[id].op = "common" /\ maps[id].start = c.start
  BY DEF Undisturbed
<1>2. pool' = [pool EXCEPT ![Cell(maps[id].start, k)] = v] /\ pool \in [Cells -> Values]
  BY ZenonT(30) DEF DeviceWrite, IInv, TypeOK
<1>3. Cell(c.start, j) \in Cells
  <2>1. CommonPages(c) \cap Run(0, 0) = {}
    BY SMTT(30) DEF Run
  <2> QED
    BY Zenon, <2>1, CommonCell
<1>4. Cell(c.start, j) = Cell(maps[id].start, k)
  BY <1>1, <1>2, <1>3
<1>5. maps[id].start \in Nat /\ maps[id].bytes \in Nat
  BY ZenonT(30), Behind
<1>6. CASE id \in Bounced
  <2>1. maps[id].pages \in Nat /\ maps[id].bytes <= maps[id].pages * PageBytes
    BY <1>6, Behind
  <2>2. maps[id].pages * PageBytes \in Nat
    BY <2>1, IoMmuAssumption
  <2>3. k \in 0 .. (maps[id].pages * PageBytes - 1)
    BY <1>5, <2>1, <2>2
  <2>4. CommonPages(c) \cap Run(maps[id].start, maps[id].pages) = {}
    BY <1>6 DEF IInv, KindsApart, BouncePages
  <2> QED
    BY <2>1, <2>3, <2>4, <1>4, <1>5, CommonCell
<1>7. CASE id \notin Bounced
  <2>1. maps[id].op = "common"
    BY <1>7, Behind
  <2>2. PICK d \in commons : /\ d.start = maps[id].start /\ d.num \in Nat
                             /\ d.num * PageBytes = maps[id].bytes
    BY ZenonT(30), <1>7, Behind
  <2>3. CASE d # c
    <3>1. CommonPages(c) \cap Run(d.start, d.num) = {}
      BY <2>3 DEF IInv, CommonsApart, CommonPages
    <3>2. k \in 0 .. (d.num * PageBytes - 1)
      BY ZenonT(30), <2>2
    <3> QED
      BY <3>1, <3>2, <2>2, <1>4, <1>5, CommonCell
  <2> QED
    BY <2>1, <2>2, <2>3
<1> QED
  BY ZenonT(30), <1>6, <1>7

(* Every step leaves the common buffers to their own mappings.             *)
LEMMA UndisturbedStep == ASSUME IInv, [Next]_vars PROVE Undisturbed
<1>1. ASSUME NEW id \in MapIds, NEW b \in Buffers, NEW n \in 0 .. BufSize[b], MapRead(id, b, n)
      PROVE  Undisturbed
  <2>1. PICK s \in Pages :
          /\ FirstFit(s, SizeToPages(n))
          /\ pool' = [x \in Cells |-> IF x - Cell(s, 0) \in 0 .. (n - 1)
                                        THEN host[b][x - Cell(s, 0)] ELSE pool[x]]
    BY <1>1 DEF MapRead
  <2>2. n \in Nat
    BY IoMmuAssumption
  <2>3. SizeToPages(n) \in Nat /\ n <= SizeToPages(n) * PageBytes
    BY <2>2, SizeFits
  <2> DEFINE F == [x \in Cells |-> host[b][x - Cell(s, 0)]]
  <2>4. pool' = [x \in Cells |-> IF x - Cell(s, 0) \in 0 .. (n - 1) THEN F[x] ELSE pool[x]]
    BY <2>1
  <2> HIDE DEF F
  <2> QED
    BY SMTT(30), <2>1, <2>2, <2>3, <2>4, StoreUndisturbed
<1>2. ASSUME NEW n \in 1 .. MaxCommon, AllocateBuffer(n) PROVE Undisturbed
  <2>1. PICK s \in Pages :
          /\ FirstFit(s, n)
          /\ pool' = [x \in Cells |-> IF x - Cell(s, 0) \in 0 .. (n * PageBytes - 1)
                                        THEN Zero ELSE pool[x]]
    BY <1>2 DEF AllocateBuffer
  <2>2. n \in Nat /\ n * PageBytes \in Nat /\ n * PageBytes <= n * PageBytes
    BY IoMmuAssumption
  <2> DEFINE F == [x \in Cells |-> Zero]
  <2>3. pool' = [x \in Cells |-> IF x - Cell(s, 0) \in 0 .. (n * PageBytes - 1)
                                   THEN F[x] ELSE pool[x]]
    BY <2>1
  <2> HIDE DEF F
  <2> QED
    BY <2>1, <2>2, <2>3, StoreUndisturbed
<1>3. ASSUME NEW id \in Live, NEW k \in 0 .. (maps[id].bytes - 1), NEW v \in Values,
             DeviceWrite(id, k, v)
      PROVE  Undisturbed
  BY <1>3, DeviceUndisturbed
<1>4. CASE UNCHANGED pool
  BY ZenonT(30), <1>4 DEF Undisturbed
<1>5. \/ EntryInstalls \/ EntryFindsNoPool \/ EntryOutOfMemory
      \/ \E id \in MapIds, b \in Buffers : \E n \in 0 .. BufSize[b] : MapWrite(id, b, n)
      \/ \E id \in MapIds : \E c \in commons : MapCommon(id, c)
      \/ \E id \in MapIds : Unmap(id)
      \/ \E c \in commons : FreeBuffer(c)
      \/ \E b \in Buffers : \E k \in 0 .. (BufSize[b] - 1), v \in Values : HostWrite(b, k, v)
      \/ UNCHANGED vars
      => UNCHANGED pool
  BY Zenon DEF EntryInstalls, EntryFindsNoPool, EntryOutOfMemory, MapWrite, MapCommon, Unmap,
         FreeBuffer, HostWrite, vars
<1> QED
  BY <1>1, <1>2, <1>3, <1>4, <1>5 DEF Next

(* No copy into a bounce buffer, no ZeroMem of a new buffer and no device  *)
(* of another mapping changes a common buffer while its driver holds it    *)
(* (GunyahIoMmuMap, GunyahIoMmuAllocateBuffer).                            *)
THEOREM CommonsUndisturbed == Spec => CommonUndisturbed
<1>1. IInv /\ [Next]_vars => [Undisturbed]_vars
  BY UndisturbedStep
<1> QED
  BY <1>1, InitInv, InvStep, PTL DEF Spec, CommonUndisturbed, Undisturbed
=============================================================================
