-------------------------------- MODULE VgpuGop --------------------------------
(* The graphics output of the firmware's virtio-gpu driver (Gop.c,              *)
(* DriverBinding.c) on crosvm's device (VirtioGpuDevice), one command per step. *)
(* A mode is a size; a Blt covers the whole screen.                             *)
EXTENDS VirtioGpuDevice

CONSTANTS
    Modes,          \* sizes a mode may have
    Stores,         \* stretches of memory a backing store may be allocated from
    MaxInfos        \* bound on mode descriptions that are allocated at a time

ASSUME ModesOK == 0 \in DOMAIN Modes /\ \A n \in DOMAIN Modes : Modes[n] \in Nat \ {0}
ASSUME StoresOK == NoStore \notin Stores

VARIABLES
    dev,            \* crosvm's device
    pages,          \* stores allocated and mapped
    gop,            \* VGPU_GOP: ResourceId, BackingStore, resolution
    child,          \* ParentBus->Child: "none", "init" during InitVgpuGop, "up", "os"
    pc,             \* the step the running call is at; "hung" is CpuDeadLoop
    new,            \* locals of GopSetMode: NewResourceId, NewBackingStore, resolution
    infos,          \* GopModeInfo allocations that are not freed
    dark            \* history: the display refused head 0 a surface for the last SetScanout
vars == <<dev, pages, gop, child, pc, new, infos, dark>>
local == <<pages, gop, child, new, infos, dark>>

NoGop == [id |-> None, store |-> NoStore, size |-> 0]
Screen == dev.outs[0]

Init ==
    /\ dev = NewDevice
    /\ pages = {}
    /\ gop = NoGop /\ new = NoGop
    /\ child = "none" /\ pc = "idle"
    /\ infos = 0 /\ dark = FALSE

(* VirtioGpuSendCommand: the host's outcome, or an error before the request is  *)
(* on the ring.  pc goes to `good` or to `bad`.                                 *)
Send(outcomes, good, bad) ==
    \E r \in outcomes \union Refused(dev) :
        /\ dev' = r.dev
        /\ pc' = IF r.ok THEN good ELSE bad

(* GopSetMode, by InitVgpuGop with mode 0 or by a user of the protocol.         *)
NewResourceId == IF gop.id = None THEN 1 ELSE 3 - gop.id
Enter(size) ==
    /\ pc' = "create"
    /\ infos < MaxInfos /\ infos' = infos + 1
    /\ new' = [id |-> NewResourceId, store |-> NoStore, size |-> size]
    /\ UNCHANGED <<dev, pages, gop, dark>>
InitVgpuGop == pc = "idle" /\ child = "none" /\ child' = "init" /\ Enter(Modes[0])
SetMode == pc = "idle" /\ child = "up" /\ UNCHANGED child
           /\ \E n \in DOMAIN Modes : Enter(Modes[n])

(* The early return after a failed creation: GopModeInfo is not freed.          *)
CreateStep ==
    /\ pc = "create"
    /\ Send(Create(dev, new.id, new.size, "2d"), "alloc", "idle")
    /\ child' = IF pc' = "idle" /\ child = "init" THEN "none" ELSE child
    /\ UNCHANGED <<pages, gop, new, infos, dark>>

(* VirtioGpuAllocateZeroAndMapBackingStore.                                     *)
AllocStep ==
    /\ pc = "alloc"
    /\ \/ \E st \in Stores \ pages :
            /\ pages' = pages \union {st}
            /\ new' = [new EXCEPT !.store = st]
            /\ pc' = "attach"
       \/ pc' = "unref" /\ UNCHANGED <<pages, new>>
    /\ UNCHANGED <<dev, gop, child, infos, dark>>

AttachStep ==
    /\ pc = "attach"
    /\ Send(AttachBacking(dev, new.id, new.store), "scanout", "free")
    /\ UNCHANGED local

ScanoutStep ==
    /\ pc = "scanout"
    /\ Send(SetScanout(dev, 0, new.id, new.size),
            IF gop.id = None THEN "commit" ELSE "flush", "detach")
    /\ dark' = (pc' = "detach" /\ (dark \/ dev' # dev))
    /\ UNCHANGED <<pages, gop, child, new, infos>>

FlushStepNoFlip ==
    /\ pc = "flush"
    /\ Send(FlushResource(dev, new.id), "old detach", "detach")
    /\ UNCHANGED local
FlushStep ==
    /\ pc = "flush"
    /\ Send(FlushResource(dev, new.id), "old detach", "flip back")
    /\ UNCHANGED local
FlipBackStep ==
    /\ pc = "flip back"
    /\ Send(SetScanout(dev, 0, gop.id, gop.size), "detach", "hung")
    /\ UNCHANGED local

(* ReleaseGopResources: DisableHead for UninitVgpuGop and the error path of     *)
(* InitVgpuGop only, its error suppressed; an error of the others hangs.        *)
HeadStep ==
    /\ pc = "head"
    /\ Send(SetScanout(dev, 0, None, 0), "old detach", "old detach")
    /\ UNCHANGED local
OldDetachStep ==
    /\ pc = "old detach"
    /\ Send(DetachBacking(dev, gop.id), "old free", "hung")
    /\ UNCHANGED local
OldFreeStep ==
    /\ pc = "old free"
    /\ pages' = pages \ {gop.store}
    /\ gop' = [gop EXCEPT !.store = NoStore]
    /\ pc' = "old unref"
    /\ UNCHANGED <<dev, child, new, infos, dark>>
OldUnrefStep ==
    /\ pc = "old unref"
    /\ Send(UnrefResource(dev, gop.id), IF child = "up" THEN "commit" ELSE "idle", "hung")
    /\ gop' = NoGop
    /\ child' = IF child = "up" THEN "up" ELSE "none"
    /\ UNCHANGED <<pages, new, infos, dark>>

(* The end of GopSetMode, and of InitVgpuGop where installing the protocol may  *)
(* fail.                                                                        *)
CommitStep ==
    /\ pc = "commit"
    /\ gop' = new /\ infos' = infos - 1
    /\ \/ pc' = "idle" /\ child' = "up"
       \/ child = "init" /\ pc' = "head" /\ UNCHANGED child
    /\ UNCHANGED <<dev, pages, new, dark>>

(* The labels DetachBackingStore, UnmapAndFreeBackingStore, DestroyHostResource.*)
DetachSkipped ==
    /\ pc = "detach" /\ pc' = "free"
    /\ UNCHANGED <<local, dev>>
DetachStep ==
    /\ pc = "detach"
    /\ Send(DetachBacking(dev, new.id), "free", "hung")
    /\ UNCHANGED local
FreeStep ==
    /\ pc = "free"
    /\ pages' = pages \ {new.store} /\ pc' = "unref"
    /\ UNCHANGED <<dev, gop, child, new, infos, dark>>
UnrefStep ==
    /\ pc = "unref"
    /\ Send(UnrefResource(dev, new.id), "idle", "hung")
    /\ infos' = infos - 1
    /\ child' = IF child = "init" THEN "none" ELSE child
    /\ UNCHANGED <<pages, gop, new, dark>>

(* UninitVgpuGop.                                                               *)
UninitVgpuGop ==
    /\ pc = "idle" /\ child = "up"
    /\ child' = "none" /\ pc' = "head"
    /\ UNCHANGED <<dev, pages, gop, new, infos, dark>>

(* GopBlt: the transfer and the flush.                                          *)
BltTransfer ==
    /\ pc = "idle" /\ child = "up"
    /\ Send(TransferWrite(dev, gop.id, TRUE), "show", "idle")
    /\ UNCHANGED local
BltFlush ==
    /\ pc = "show"
    /\ Send(FlushResource(dev, gop.id), "idle", "idle")
    /\ UNCHANGED local

(* VirtioGpuExitBoot: the device is reset, the memory now is the system's.      *)
ExitBoot ==
    /\ pc = "idle" /\ child = "up"
    /\ dev' = ResetState(dev)
    /\ child' = "os" /\ pages' = {}
    /\ gop' = NoGop /\ new' = NoGop /\ infos' = 0 /\ dark' = FALSE
    /\ UNCHANGED pc

Next ==
    \/ InitVgpuGop \/ SetMode \/ CreateStep \/ AllocStep \/ AttachStep \/ ScanoutStep
    \/ FlushStep \/ FlipBackStep \/ HeadStep \/ OldDetachStep \/ OldFreeStep
    \/ OldUnrefStep \/ CommitStep \/ DetachStep \/ FreeStep \/ UnrefStep
    \/ UninitVgpuGop \/ BltTransfer \/ BltFlush \/ ExitBoot

Spec == Init /\ [][Next]_vars
-------------------------------------------------------------------------------
(* Commands.c: the caller detaches a backing store before it unmaps and frees   *)
(* it.  At every step, what the host may read is memory the driver still owns,  *)
(* and a driver that was stopped or failed to start leaves nothing behind.      *)
BackingSafe ==
    child # "os" =>
        /\ \A id \in DOMAIN dev.host :
            dev.host[id].backing # NoStore =>
                dev.host[id].backing \in pages /\ dev.res[id].backing = dev.host[id].backing
        /\ (pc = "idle" /\ child = "none") => DOMAIN dev.host = {} /\ pages = {}

(* Between calls the driver and the host agree, whatever failed before: one     *)
(* resource, of the current mode's size, on head 0, backed by the one store.    *)
(* Head 0 shows it on a surface of the current mode's size.  The exception is a *)
(* mode change at which the display refused the new surface: create_surface has *)
(* released the old one by then, and GopSetMode, which means to fail without    *)
(* disturbing the current mode, leaves the screen dark until a later mode       *)
(* change succeeds.                                                             *)
ModeConsistent ==
    (pc = "idle" /\ child = "up") =>
        /\ DOMAIN dev.res = {gop.id} /\ DOMAIN dev.host = {gop.id}
        /\ dev.host[gop.id].size = gop.size
        /\ dev.host[gop.id].backing = gop.store /\ pages = {gop.store}
        /\ Screen.res = gop.id
        /\ Screen.surface => Screen.size = gop.size
        /\ ~Screen.surface => dark
===============================================================================
