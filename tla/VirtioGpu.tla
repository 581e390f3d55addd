------------------------------- MODULE VirtioGpu -------------------------------
(* The virtio-gpu device of VirtioGpuDevice under any driver at all: commands   *)
(* in any order with any arguments, displays that come and go, resets, and a    *)
(* snapshot that a new process resumes from.                                    *)
EXTENDS VirtioGpuDevice

CONSTANTS
    Ids,            \* resource ids the driver uses
    Sizes,          \* sizes of resources and scanouts
    Stores          \* stretches of guest memory

VARIABLES
    dev,            \* the device
    up,             \* TRUE while the worker serves; a failed assertion or resume ends it
    before,         \* the device a snapshot was taken of, right after its resume
    blobs           \* the renderer has blobs; the 2D renderer has none
vars == <<dev, up, before, blobs>>

NotResumed == <<>>

Init ==
    /\ dev = NewDevice
    /\ up = TRUE
    /\ before = NotResumed
    /\ blobs \in BOOLEAN

Kinds == IF blobs THEN {"fd", "ptr"} ELSE {"2d"}

(* A command runs to its end; its reply is one of the outcomes.                 *)
Command(outcomes) ==
    /\ up
    /\ \E r \in outcomes : dev' = r.dev
    /\ before' = NotResumed
    /\ UNCHANGED <<up, blobs>>

CreateResource == \E id \in Ids, size \in Sizes, k \in Kinds : Command(Create(dev, id, size, k))
Attach == \E id \in Ids, st \in Stores : Command(AttachBacking(dev, id, st))
Detach == \E id \in Ids : Command(DetachBacking(dev, id))
Unref == \E id \in Ids : Command(UnrefResource(dev, id))
Transfer == \E id \in Ids, inside \in BOOLEAN :
    /\ ~blobs
    /\ Command(TransferWrite(dev, id, inside))
Flush == ~blobs /\ \E id \in Ids : Command(FlushResource(dev, id))

(* Scanouts show 2D resources, which have transfers and flushes.                *)
Scanout == \E s \in Displays, id \in Ids \union {None}, size \in Sizes :
    /\ ~blobs
    /\ Command(SetScanout(dev, s, id, size))
MapBlob == blobs /\ \E id \in Ids, o \in Offsets : Command(ResourceMapBlob(dev, id, o))
UnmapBlob == blobs /\ \E id \in Ids : Command(ResourceUnmapBlob(dev, id))

(* GpuControlCommand.                                                           *)
Plug == Command(AddDisplay(dev))
Unplug == \E ids \in {<<s>> : s \in Displays} \union (Displays \X Displays) :
    Command(RemoveDisplays(dev, ids))

(* The configuration interrupt has been sent and the driver read the event.     *)
ReadEvent == dev.event /\ Command(Done([dev EXCEPT !.event = FALSE]))

(* Gpu::reset of an active device.                                              *)
Reset == Command(Done(ResetState(dev)))

(* virtio_sleep, virtio_snapshot, a new process, virtio_restore, virtio_wake;   *)
(* only with the 2D renderer.                                                   *)
NeedsSurface(snap) == \E s \in DOMAIN snap.outs : snap.outs[s].surface
ResumeForgetsBacking ==
    /\ up /\ ~blobs
    /\ before' = dev
    /\ SameDisplays(Saved(dev))
    /\ dev' = Saved(dev) /\ up' = TRUE
    /\ UNCHANGED blobs
Resume ==
    /\ up /\ ~blobs
    /\ LET snap == Saved(dev)
       IN  \/ /\ SameDisplays(snap)
              /\ dev' = Reattached(snap)
              /\ before' = dev
              /\ up' = TRUE
           \/ /\ ~SameDisplays(snap) \/ NeedsSurface(snap)
              /\ up' = FALSE
              /\ before' = NotResumed
              /\ UNCHANGED dev
    /\ UNCHANGED blobs

Next ==
    \/ CreateResource \/ Attach \/ Detach \/ Unref \/ Transfer \/ Flush \/ Scanout
    \/ MapBlob \/ UnmapBlob \/ Plug \/ Unplug \/ ReadEvent \/ Reset \/ Resume

Spec == Init /\ [][Next]_vars
-------------------------------------------------------------------------------
(* The frontend's table, the renderer's and the hypervisor's stay together.     *)
(* Every resource of the frontend exists in the renderer with the same size,    *)
(* and what only the renderer still has is a blob it failed to unmap for        *)
(* unref_resource.  The renderer reads guest memory only through a backing the  *)
(* frontend lists, and a blob the frontend believes to be mapped by it is.      *)
(* Where remove_mapping would act on the offset recorded for a blob, the guest  *)
(* finds that blob, so that unmapping one never unmaps another: as long as the  *)
(* driver has not mapped two resources at that offset, which add_mapping lets   *)
(* it do.                                                                       *)
BooksAgree ==
    /\ DOMAIN dev.res \subseteq DOMAIN dev.host
    /\ \A id \in DOMAIN dev.host \ DOMAIN dev.res : dev.host[id].mapped
    /\ \A id \in DOMAIN dev.res :
        /\ dev.host[id].size = dev.res[id].size
        /\ dev.host[id].backing \in {dev.res[id].backing, NoStore}
        /\ dev.res[id].ext => dev.host[id].mapped
        /\ LET o == dev.res[id].offset
           IN  (o # None /\ dev.shm[o].listed /\ ~dev.shm[o].twice) => dev.shm[o].blob = id

(* After a resume the driver finds the resources it had, with the memory behind *)
(* them, on the displays it had put them on.                                    *)
RestoreFaithful ==
    before # NotResumed =>
        /\ dev.res = before.res
        /\ DOMAIN dev.host = DOMAIN before.host
        /\ \A id \in DOMAIN dev.res :
            before.host[id].backing # NoStore => dev.host[id].backing = before.host[id].backing
        /\ \A s \in DOMAIN dev.outs :
            dev.outs[s].res = before.outs[s].res /\ dev.outs[s].surface = before.outs[s].surface
===============================================================================
