---------------------------- MODULE VirtioGpuDevice ----------------------------
(* crosvm's virtio-gpu device: what each command does to the resources of the   *)
(* frontend (virtio_gpu.rs), to their counterparts in the renderer              *)
(* (rutabaga_core.rs, rutabaga_2d.rs), to the displays and to the blob mappings *)
(* of the hypervisor.  A command is an operator from the device's state to the  *)
(* set of its outcomes; the modules that send commands choose among them.       *)
(*                                                                              *)
(* A resource's backing is a store, a stretch of guest memory that the driver   *)
(* named.  The pixels themselves are left out: what is kept of a transfer or a  *)
(* flush is whether the renderer can still serve the resource afterwards.       *)
EXTENDS Integers, FiniteSets, Sequences

CONSTANTS
    Offsets,        \* places in the region blobs are mapped into
    Displays,       \* ids a display may have (0 .. VIRTIO_GPU_MAX_SCANOUTS - 1)
    FirstDisplays,  \* the displays of the command line
    NativeSize      \* their size

ASSUME DisplaysOK == FirstDisplays \subseteq Displays /\ NativeSize \in Nat /\ 0 \notin Offsets

None == 0
NoStore == "no store"

EmptyMap == [x \in {} |-> x]
Put(f, x, val) == [y \in DOMAIN f \union {x} |-> IF y = x THEN val ELSE f[y]]
Drop(f, x) == [y \in DOMAIN f \ {x} |-> f[y]]

(* VirtioGpuScanout: its size, the resource it shows, whether it has a surface. *)
NewPrimary(size) == [size |-> size, res |-> None, surface |-> FALSE]

(* A place of the region: the blob the guest finds there, whether              *)
(* VmRequester::mappings lists the place, and whether it was ever recorded for  *)
(* two resources at a time (a history that no step reads).                      *)
NoMapping == [blob |-> None, listed |-> FALSE, twice |-> FALSE]

NewDevice ==
    [res |-> EmptyMap,      \* VirtioGpu::resources
     host |-> EmptyMap,     \* Rutabaga::resources
     outs |-> [s \in FirstDisplays |-> NewPrimary(NativeSize)],
     shm |-> [o \in Offsets |-> NoMapping],
     event |-> FALSE]       \* scanouts_updated

Reply(d, ok) == [dev |-> d, ok |-> ok]
Refused(d) == {Reply(d, FALSE)}
Done(d) == {Reply(d, TRUE)}

NewResource(size) == [size |-> size, backing |-> NoStore, offset |-> None, ext |-> FALSE]

(* kind: "2d", or a blob: "fd" when its memory can be exported as a descriptor, *)
(* "ptr" when the renderer maps it.  info: info_2d is there.                    *)
NewHost(size, kind) ==
    [size |-> size, kind |-> kind, info |-> kind = "2d", backing |-> NoStore,
     mapped |-> FALSE]

(* resource_create_3d, resource_create_blob.                                    *)
Create(d, id, size, kind) ==
    IF id \in DOMAIN d.host THEN Refused(d)
    ELSE Done([d EXCEPT !.res = Put(@, id, NewResource(size)),
                        !.host = Put(@, id, NewHost(size, kind))])

(* attach_backing, detach_backing.                                              *)
SetBacking(d, id, store) ==
    IF id \notin DOMAIN d.res \/ id \notin DOMAIN d.host THEN Refused(d)
    ELSE Done([d EXCEPT !.res[id].backing = store, !.host[id].backing = store])
AttachBacking(d, id, store) == SetBacking(d, id, store)
DetachBackingFrontend(d, id) ==
    IF id \notin DOMAIN d.res THEN Refused(d)
    ELSE Done([d EXCEPT !.res[id].backing = NoStore])
DetachBacking(d, id) == SetBacking(d, id, NoStore)

(* unref_resource: the frontend forgets the resource first; a renderer that     *)
(* fails to unmap it keeps it.  The mapping of the hypervisor is left alone.    *)
UnrefResource(d, id) ==
    IF id \notin DOMAIN d.res THEN Refused(d)
    ELSE LET gone == [d EXCEPT !.res = Drop(@, id)]
         IN  Done([gone EXCEPT !.host = Drop(@, id)])
             \union (IF d.res[id].ext THEN Refused(gone) ELSE {})

(* create_surface, for a scanout of the given new size.  The old surface is     *)
(* released before the new one is asked for, which the display may refuse.      *)
NeedSurface(out, size) == ~out.surface \/ out.size # size
CreateSurface(d, s, size) ==
    IF ~NeedSurface(d.outs[s], size) THEN Done(d)
    ELSE LET released == [d EXCEPT !.outs[s].size = size, !.outs[s].surface = FALSE]
         IN  Done([released EXCEPT !.outs[s].surface = TRUE])
             \union Refused(released)

(* set_scanout, through update_scanout_resource.                                *)
DisableScanout(d, s) ==
    Done(IF d.outs[s].res # None
         THEN [d EXCEPT !.outs[s].res = None, !.outs[s].surface = FALSE]
         ELSE d)
SetScanout(d, s, id, size) ==
    IF s \notin DOMAIN d.outs THEN Refused(d)
    ELSE IF id = None THEN DisableScanout(d, s)
    ELSE IF id \notin DOMAIN d.res THEN Refused(d)
    ELSE {IF r.ok THEN Reply([r.dev EXCEPT !.outs[s].res = id], TRUE) ELSE r
            : r \in CreateSurface(d, s, size)}

(* transfer_write of the 2D renderer.  info_2d and the iovecs are taken out of  *)
(* the resource and put back only by a transfer that succeeds.                  *)
TransferWrite(d, id, inside) ==
    IF id \notin DOMAIN d.host THEN Refused(d)
    ELSE LET h == d.host[id]
         IN  IF h.info /\ h.backing # NoStore /\ inside
             THEN Done(d)
             ELSE Refused([d EXCEPT !.host[id].info = FALSE,
                                    !.host[id].backing = IF h.info THEN NoStore ELSE @])

(* VirtioGpuScanout::flush of one scanout: transfer_read into the surface's     *)
(* buffer, and the guest's memory when that failed or read black.  A scanout    *)
(* that is larger than the resource, or a resource that lost info_2d before,    *)
(* makes the read fail, and info_2d is gone.  A compositor that holds the next  *)
(* buffer is success, a display without one an error, and neither reads.        *)
ReadFits(d, s, id) == d.host[id].info /\ d.outs[s].size <= d.host[id].size

(* flush_resource: the scanouts that show the resource, in the order of their   *)
(* ids; the first that fails ends the command.  Every one of them may be        *)
(* without a buffer.  After a read that failed (at s) the guest's memory serves *)
(* the scanouts from s on, if there is any, up to one without a buffer.         *)
Shown(d, id) == {s \in DOMAIN d.outs : d.outs[s].res = id /\ d.outs[s].surface}
Misfits(d, id) == {s \in Shown(d, id) : ~ReadFits(d, s, id)}
Misread(d, s, id) ==
    LET lost == [d EXCEPT !.host[id].info = FALSE]
    IN  IF d.res[id].backing = NoStore THEN Refused(lost)
        ELSE Done(lost) \union (IF \E t \in Shown(d, id) : s < t THEN Refused(lost) ELSE {})
FlushResource(d, id) ==
    IF id \notin DOMAIN d.host \/ id \notin DOMAIN d.res THEN Refused(d)
    ELSE Done(d) \union (IF Shown(d, id) # {} THEN Refused(d) ELSE {})
         \union UNION {Misread(d, s, id) : s \in Misfits(d, id)}

(* VmRequester::add_mapping, which looks for no earlier mapping: where a region *)
(* was prepared (fixed_blob_mapping) the blob takes the place of the one that   *)
(* is there, otherwise the hypervisor takes or refuses it.                      *)
AddMapping(d, id, o) ==
    Done([d EXCEPT !.shm[o] =
            [blob |-> id, listed |-> TRUE,
             twice |-> @.twice \/ \E j \in DOMAIN d.res \ {id} : d.res[j].offset = o]])
    \union Refused(d)

(* VmRequester::remove_mapping: the place is taken off the list first; when     *)
(* unregister_memory fails the blob is still there, or only the IOMMU was not   *)
(* told.                                                                        *)
RemoveMapping(d, o) ==
    IF ~d.shm[o].listed THEN Refused(d)
    ELSE LET unlisted == [d EXCEPT !.shm[o].listed = FALSE]
             gone == [unlisted EXCEPT !.shm[o].blob = None]
         IN  Done(gone) \union Refused(gone) \union Refused(unlisted)

(* resource_map_blob: a blob that cannot be exported is mapped by the renderer  *)
(* first, unless that is ruled out or fails, and stays so when the mapping is   *)
(* refused.                                                                     *)
Exported(h) == h.kind = "fd"
ResourceMapBlob(d, id, o) ==
    IF id \notin DOMAIN d.res \/ d.host[id].kind = "2d" THEN Refused(d)
    ELSE LET src == IF Exported(d.host[id]) THEN d
                    ELSE [d EXCEPT !.res[id].ext = TRUE, !.host[id].mapped = TRUE]
         IN  {IF r.ok THEN Reply([r.dev EXCEPT !.res[id].offset = o], TRUE) ELSE r
                : r \in AddMapping(src, id, o)}
             \union Refused(d)

(* resource_unmap_blob: the offset is forgotten only when the mapping is gone,  *)
(* and then the renderer may fail to unmap.                                     *)
Forgotten(d, id) ==
    LET gone == [d EXCEPT !.res[id].offset = None]
    IN  IF ~gone.res[id].ext THEN Done(gone)
        ELSE Done([gone EXCEPT !.res[id].ext = FALSE, !.host[id].mapped = FALSE])
             \union Refused(gone)
ResourceUnmapBlob(d, id) ==
    IF id \notin DOMAIN d.res THEN Refused(d)
    ELSE IF d.res[id].offset = None THEN Refused(d)
    ELSE UNION {IF r.ok THEN Forgotten(r.dev, id) ELSE {r}
                  : r \in RemoveMapping(d, d.res[id].offset)}

Lowest(S) == CHOOSE x \in S : \A y \in S : x <= y

(* add_displays with one display: it gets the lowest free id.                   *)
AddDisplay(d) ==
    LET free == Displays \ DOMAIN d.outs
    IN  IF free = {} THEN Refused(d)
        ELSE Done([d EXCEPT !.outs = Put(@, Lowest(free), NewPrimary(NativeSize)), !.event = TRUE])

(* remove_displays with a list of ids, one after the other: a missing one, or  *)
(* one that was removed before in the list, ends it.                            *)
Missing(d, ids) ==
    {i \in DOMAIN ids : ids[i] \notin DOMAIN d.outs \/ \E j \in 1 .. i - 1 : ids[j] = ids[i]}
Without(d, ids, n) ==
    [d EXCEPT !.outs = [s \in DOMAIN @ \ {ids[i] : i \in 1 .. n} |-> @[s]]]
RemoveDisplays(d, ids) ==
    IF Missing(d, ids) = {} THEN Done([Without(d, ids, Len(ids)) EXCEPT !.event = TRUE])
    ELSE Refused(Without(d, ids, Lowest(Missing(d, ids)) - 1))

(* reset_state: resources and bindings; surfaces and mappings stay.             *)
ResetState(d) ==
    [d EXCEPT !.res = EmptyMap,
              !.host = [id \in DOMAIN @ \ DOMAIN d.res |-> @[id]],
              !.outs = [s \in DOMAIN @ |-> [@[s] EXCEPT !.res = None]]]

(* VirtioGpu::snapshot with RutabagaResourceSnapshot: no backing of the         *)
(* renderer's; a surface is there or not.                                       *)
Saved(d) ==
    [d EXCEPT !.host = [id \in DOMAIN @ |-> [@[id] EXCEPT !.backing = NoStore]]]

(* VirtioGpu::resume with a snapshot, in the device of a new process: the       *)
(* displays have to be those of the command line, with their sizes; surfaces    *)
(* are made anew, and every backing is attached once more.                      *)
SameDisplays(snap) ==
    /\ DOMAIN snap.outs = FirstDisplays
    /\ \A s \in FirstDisplays : snap.outs[s].size = NativeSize
Reattached(snap) ==
    [snap EXCEPT !.host = [id \in DOMAIN @ |->
        IF id \in DOMAIN snap.res THEN [@[id] EXCEPT !.backing = snap.res[id].backing]
        ELSE @[id]]]
===============================================================================
