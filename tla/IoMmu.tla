------------------------------- MODULE IoMmu -------------------------------
(***************************************************************************)
(* GunyahIoMmuDxe: the EDKII_IOMMU_PROTOCOL that lets devices of a         *)
(* protected VM reach memory only in the restricted DMA pool.  A buffer    *)
(* mapped for BusMasterRead or BusMasterWrite is bounced through pool      *)
(* pages; a common buffer is allocated in the pool and mapped to itself.   *)
(*                                                                         *)
(* The calls are atomic here (DmaPool shows when they may be taken so) and *)
(* memory is counted in cells, PageBytes of them to a page.  Calls that    *)
(* return an error before they change anything are stuttering steps.       *)
(***************************************************************************)
EXTENDS Integers, FiniteSets

CONSTANTS TotalPages,  \* pages of the restricted-dma-pool region
          PageBytes,   \* cells of a page (EFI_PAGE_SIZE)
          MapIds,      \* bound: the MAP_INFO blocks that can exist at once
          Buffers,     \* the drivers' own buffers, outside the pool
          BufSize,     \* the length of each of them in cells
          MaxCommon,   \* bound: pages of one common buffer
          Values,      \* what a cell can hold
          Zero,        \* what ZeroMem stores
          None         \* neither a cell's content nor a MAP_INFO

(* A MAP_INFO: what Map was asked for, where the buffer lies in the pool,  *)
(* how many pages Map took for it, and what its cells are meant to hold.   *)
MapInfo ==
    UNION {[op : {"read", "write", "common"}, host : Buffers \cup {None}, bytes : {n},
            start : 0 .. (TotalPages - 1), pages : 0 .. TotalPages, bounced : BOOLEAN,
            seen : [0 .. (n - 1) -> Values \cup {None}]] : n \in 0 .. (TotalPages * PageBytes)}

ASSUME IoMmuAssumption ==
    /\ TotalPages \in Nat \ {0}
    /\ PageBytes \in Nat \ {0}
    /\ BufSize \in [Buffers -> Nat]
    /\ MaxCommon \in Nat
    /\ Zero \in Values
    /\ None \notin Values \cup MapInfo

VARIABLES protected, \* does the device tree name a restricted-dma-pool?
          driver,   \* "loaded", then "installed" or "absent"
          bitmap,   \* the pages DmaPool.c has marked allocated
          pool,     \* the contents of the region
          host,     \* the contents of the drivers' buffers
          maps,     \* mMapInfoList: the MAP_INFO of each id, or None
          commons   \* the common buffers drivers hold

vars == <<protected, driver, bitmap, pool, host, maps, commons>>

Pages == 0 .. (TotalPages - 1)

Run(s, n) == s .. (s + n - 1)

Cells == 0 .. (TotalPages * PageBytes - 1)

(* Mutant: rounds down.                                                    *)
SizeToPagesDown(bytes) == bytes \div PageBytes

(* EFI_SIZE_TO_PAGES                                                       *)
SizeToPages(bytes) == (bytes + PageBytes - 1) \div PageBytes

Needed(n) == IF n = 0 THEN 1 ELSE n

FreeRun(s, n) == s + n <= TotalPages /\ \A p \in Run(s, n) : p \notin bitmap

(* The page DmaPoolAllocatePages (n) returns: the lowest run that is free. *)
FirstFit(s, n) ==
    /\ FreeRun(s, Needed(n))
    /\ \A t \in Pages : t < s => ~FreeRun(t, Needed(n))

(* Cell k of a buffer that starts at page s of the pool.                   *)
Cell(s, k) == s * PageBytes + k

Live == {id \in MapIds : maps[id] # None}

Init ==
    /\ protected \in BOOLEAN
    /\ driver = "loaded"
    /\ bitmap = {}
    /\ pool = [c \in Cells |-> Zero]
    /\ host = [b \in Buffers |-> [k \in 0 .. (BufSize[b] - 1) |-> Zero]]
    /\ maps = [id \in MapIds |-> None]
    /\ commons = {}

(* The entry point finds the pool in the device tree and has memory for    *)
(* the bitmap: the protocol is installed.                                  *)
EntryInstalls ==
    /\ driver = "loaded"
    /\ protected
    /\ driver' = "installed"
    /\ UNCHANGED <<protected, bitmap, pool, host, maps, commons>>

(* The device tree names no pool: EFI_SUCCESS, and no protocol.            *)
EntryFindsNoPool ==
    /\ driver = "loaded"
    /\ ~protected
    /\ driver' = "absent"
    /\ UNCHANGED <<protected, bitmap, pool, host, maps, commons>>

(* It names one, and the bitmap or the protocol cannot be allocated.       *)
EntryOutOfMemory ==
    /\ driver = "loaded"
    /\ protected
    /\ driver' = "absent"
    /\ UNCHANGED <<protected, bitmap, pool, host, maps, commons>>

(* GunyahIoMmuMap for BusMasterRead: bounce pages, host data copied in.    *)
(* "seen" records what the device is meant to read.                        *)
MapRead(id, b, bytes) ==
    /\ driver = "installed"
    /\ maps[id] = None
    /\ \E s \in Pages :
          /\ FirstFit(s, SizeToPages(bytes))
          /\ bitmap' = bitmap \cup Run(s, SizeToPages(bytes))
          /\ pool' = [c \in Cells |->
                        IF c - Cell(s, 0) \in 0 .. (bytes - 1)
                          THEN host[b][c - Cell(s, 0)] ELSE pool[c]]
          /\ maps' = [maps EXCEPT ![id] =
                        [op |-> "read", host |-> b, bytes |-> bytes,
                         start |-> s, pages |-> SizeToPages(bytes), bounced |-> TRUE,
                         seen |-> [k \in 0 .. (bytes - 1) |-> host[b][k]]]]
    /\ UNCHANGED <<protected, driver, host, commons>>

(* GunyahIoMmuMap for BusMasterWrite: bounce pages as they were left.      *)
MapWrite(id, b, bytes) ==
    /\ driver = "installed"
    /\ maps[id] = None
    /\ \E s \in Pages :
          /\ FirstFit(s, SizeToPages(bytes))
          /\ bitmap' = bitmap \cup Run(s, SizeToPages(bytes))
          /\ maps' = [maps EXCEPT ![id] =
                        [op |-> "write", host |-> b, bytes |-> bytes,
                         start |-> s, pages |-> SizeToPages(bytes), bounced |-> TRUE,
                         seen |-> [k \in 0 .. (bytes - 1) |-> None]]]
    /\ UNCHANGED <<protected, driver, pool, host, commons>>

(* GunyahIoMmuMap for BusMasterCommonBuffer: the identity.                 *)
MapCommon(id, c) ==
    /\ driver = "installed"
    /\ maps[id] = None
    /\ c \in commons
    /\ maps' = [maps EXCEPT ![id] =
                  [op |-> "common", host |-> None, bytes |-> c.num * PageBytes,
                   start |-> c.start, pages |-> 0, bounced |-> FALSE,
                   seen |-> [k \in 0 .. (c.num * PageBytes - 1) |-> None]]]
    /\ UNCHANGED <<protected, driver, bitmap, pool, host, commons>>

(* Mutant: the copy-back is made for reads, not for writes.                *)
UnmapCopiesReads(id) ==
    /\ id \in Live
    /\ LET m == maps[id] IN
         /\ host' = IF m.bounced /\ m.op = "read"
                      THEN [host EXCEPT ![m.host] =
                              [k \in DOMAIN host[m.host] |->
                                 IF k < m.bytes THEN pool[Cell(m.start, k)]
                                                ELSE host[m.host][k]]]
                      ELSE host
         /\ bitmap' = IF m.bounced THEN bitmap \ Run(m.start, m.pages) ELSE bitmap
    /\ maps' = [maps EXCEPT ![id] = None]
    /\ UNCHANGED <<protected, driver, pool, commons>>

(* Mutant: frees only the pages that are used to their end.                *)
UnmapFreesWholePages(id) ==
    /\ id \in Live
    /\ LET m == maps[id] IN
         /\ host' = IF m.bounced /\ m.op # "read"
                      THEN [host EXCEPT ![m.host] =
                              [k \in DOMAIN host[m.host] |->
                                 IF k < m.bytes THEN pool[Cell(m.start, k)]
                                                ELSE host[m.host][k]]]
                      ELSE host
         /\ bitmap' = IF m.bounced THEN bitmap \ Run(m.start, m.bytes \div PageBytes) ELSE bitmap
    /\ maps' = [maps EXCEPT ![id] = None]
    /\ UNCHANGED <<protected, driver, pool, commons>>

(* GunyahIoMmuUnmap: a write is copied back, bounce pages are freed, the   *)
(* MAP_INFO goes away.                                                     *)
Unmap(id) ==
    /\ id \in Live
    /\ LET m == maps[id] IN
         /\ host' = IF m.bounced /\ m.op # "read"
                      THEN [host EXCEPT ![m.host] =
                              [k \in DOMAIN host[m.host] |->
                                 IF k < m.bytes THEN pool[Cell(m.start, k)]
                                                ELSE host[m.host][k]]]
                      ELSE host
         /\ bitmap' = IF m.bounced THEN bitmap \ Run(m.start, m.pages) ELSE bitmap
    /\ maps' = [maps EXCEPT ![id] = None]
    /\ UNCHANGED <<protected, driver, pool, commons>>

(* Mutant: zeroes one page more than was allocated.                        *)
AllocateBufferZeroesMore(n) ==
    /\ driver = "installed"
    /\ \E s \in Pages :
          /\ FirstFit(s, n)
          /\ bitmap' = bitmap \cup Run(s, n)
          /\ pool' = [c \in Cells |->
                        IF c - Cell(s, 0) \in 0 .. ((n + 1) * PageBytes - 1)
                          THEN Zero ELSE pool[c]]
          /\ commons' = commons \cup {[start |-> s, num |-> n]}
    /\ UNCHANGED <<protected, driver, host, maps>>

(* GunyahIoMmuAllocateBuffer                                               *)
AllocateBuffer(n) ==
    /\ driver = "installed"
    /\ \E s \in Pages :
          /\ FirstFit(s, n)
          /\ bitmap' = bitmap \cup Run(s, n)
          /\ pool' = [c \in Cells |->
                        IF c - Cell(s, 0) \in 0 .. (n * PageBytes - 1)
                          THEN Zero ELSE pool[c]]
          /\ commons' = commons \cup {[start |-> s, num |-> n]}
    /\ UNCHANGED <<protected, driver, host, maps>>

(* GunyahIoMmuFreeBuffer, called as PCI I/O drivers must: once nothing is  *)
(* mapped in the buffer any more.                                          *)
FreeBuffer(c) ==
    /\ c \in commons
    /\ \A id \in Live : maps[id].op = "common" => maps[id].start # c.start
    /\ bitmap' = bitmap \ Run(c.start, c.num)
    /\ commons' = commons \ {c}
    /\ UNCHANGED <<protected, driver, pool, host, maps>>

(* The device writes through a mapping that allows it.                     *)
DeviceWrite(id, k, v) ==
    /\ id \in Live
    /\ maps[id].op # "read"
    /\ k \in 0 .. (maps[id].bytes - 1)
    /\ pool' = [pool EXCEPT ![Cell(maps[id].start, k)] = v]
    /\ maps' = [maps EXCEPT ![id].seen[k] = IF maps[id].op = "write" THEN v ELSE None]
    /\ UNCHANGED <<protected, driver, bitmap, host, commons>>

(* A driver fills its own buffer.                                          *)
HostWrite(b, k, v) ==
    /\ \A id \in Live : maps[id].op = "write" => maps[id].host # b
    /\ k \in 0 .. (BufSize[b] - 1)
    /\ host' = [host EXCEPT ![b][k] = v]
    /\ UNCHANGED <<protected, driver, bitmap, pool, maps, commons>>

Next ==
    \/ EntryInstalls
    \/ EntryFindsNoPool
    \/ EntryOutOfMemory
    \/ \E id \in MapIds, b \in Buffers : \E n \in 0 .. BufSize[b] :
          MapRead(id, b, n) \/ MapWrite(id, b, n)
    \/ \E id \in MapIds : \E c \in commons : MapCommon(id, c)
    \/ \E id \in MapIds : Unmap(id)
    \/ \E n \in 1 .. MaxCommon : AllocateBuffer(n)
    \/ \E c \in commons : FreeBuffer(c)
    \/ \E id \in Live : \E k \in 0 .. (maps[id].bytes - 1), v \in Values : DeviceWrite(id, k, v)
    \/ \E b \in Buffers : \E k \in 0 .. (BufSize[b] - 1), v \in Values : HostWrite(b, k, v)

Spec == Init /\ [][Next]_vars

-----------------------------------------------------------------------------
BouncePages(id) == Run(maps[id].start, maps[id].pages)

Bounced == {id \in Live : maps[id].bounced}

CommonPages(c) == Run(c.start, c.num)

(* The pool neither leaks nor lends pages twice: exactly the pages of      *)
(* outstanding bounce buffers and of common buffers are marked allocated,  *)
(* after every order of Map, Unmap, AllocateBuffer and FreeBuffer.         *)
PoolAccounting ==
    bitmap = UNION ({BouncePages(id) : id \in Bounced} \cup {CommonPages(c) : c \in commons})

(* The device reads what the driver put in its buffer before Map, and what *)
(* it wrote stays in the bounce buffer until Unmap, whatever other         *)
(* mappings and common buffers come, go and are written meanwhile.         *)
BounceFaithful ==
    \A id \in Live : \A k \in DOMAIN maps[id].seen :
        maps[id].seen[k] # None => pool[Cell(maps[id].start, k)] = maps[id].seen[k]

(* Unmap of a BusMasterWrite gives the driver every cell the device wrote; *)
(* no step changes another buffer, a cell behind NumberOfBytes, or (except *)
(* the driver's own stores) a buffer that is not being unmapped.           *)
UnmapDelivers ==
    [][\A id \in Live : maps'[id] = None =>
          /\ \A k \in DOMAIN maps[id].seen :
                maps[id].op = "write" /\ maps[id].seen[k] # None =>
                    host'[maps[id].host][k] = maps[id].seen[k]
          /\ \A b \in Buffers : \A k \in DOMAIN host[b] :
                host'[b][k] # host[b][k] =>
                    maps[id].op = "write" /\ maps[id].host = b /\ k < maps[id].bytes]_vars

(* A common buffer changes only through a mapping of that very buffer:     *)
(* bounce copies, zeroing and the devices of other mappings never reach it *)
(* while the driver holds it.                                              *)
CommonUndisturbed ==
    [][\A c \in commons \cap commons' : \A k \in 0 .. (c.num * PageBytes - 1) :
          pool'[Cell(c.start, k)] # pool[Cell(c.start, k)] =>
              \E id \in Live : maps[id].op = "common" /\ maps[id].start = c.start]_vars

=============================================================================
