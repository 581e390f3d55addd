-------------------------- MODULE VirtioPrograms ---------------------------
(***************************************************************************)
(* The driver bindings of the four virtio drivers as straight-line         *)
(* programs with labels: each step is one call (or a run of calls with the *)
(* same error label that change nothing modelled here), and names the      *)
(* label its failure goes to.  Loops over queues are unrolled.             *)
(***************************************************************************)
EXTENDS Sequences, Integers

NoLabel == <<"", 0>>
Label(name) == <<name, 0>>

(* Resources, numbered by queue where there is one per queue. *)
Ring(q) == <<"ring", q>>          \* VirtioRingInit
RingMap(q) == <<"ringmap", q>>    \* VirtioRingMap
Buffers(q) == <<"buffers", q>>    \* AllocateSharedPages
BufferMap(q) == <<"buffermap", q>> \* VirtioMapAllBytesInSharedBuffer
Res(name) == <<name, 0>>

(***************************************************************************)
(* The steps.  "err" is the label of the goto under EFI_ERROR (Status);    *)
(* NoLabel where the code drops the status, and the call is taken to       *)
(* succeed.                                                                *)
(***************************************************************************)
Step(op, arg, err) == [at |-> NoLabel, op |-> op, arg |-> arg, err |-> err]
Call(err) == Step("call", NoLabel, err)      \* changes nothing modelled
Get(r, err) == Step("get", r, err)           \* acquires r
Put(r, err) == Step("put", r, err)           \* releases r
PutIfSet(r) == Step("putifset", r, NoLabel)  \* if (Ptr) { release; Ptr = NULL; }
Reset(err) == Step("reset", NoLabel, err)    \* SetDeviceStatus (0)
Status(bit, err) == Step("status", bit, err) \* NextDevStat |= bit; SetDeviceStatus
Address(q, err) == Step("address", q, err)   \* SetQueueAddress
Goto(l) == Step("goto", l, NoLabel)
Return(phase) == Step("return", phase, NoLabel)
At(l, s) == [s EXCEPT !.at = l]

(* Steps 1 to 3 of every Init, and the feature negotiation. *)
Negotiate(failed) ==
    << Reset(failed), Status("ACK", failed), Status("DRIVER", failed),
       Call(failed), Status("FEATURES_OK", failed) >>

-----------------------------------------------------------------------------
(* GunyahVirtioScsiDxe: control, event and request queues. *)

Unmap(q) == <<"UnmapQueue", q>>
Release(q) == <<"ReleaseQueue", q>>

(* Mutant: what fails before the ring exists unwinds the queue itself. *)
ScsiQueueUnwindsItself(q, before) ==
    << Call(before), Get(Ring(q), Unmap(q)), Get(RingMap(q), Release(q)),
       Call(Unmap(q)), Address(q, Unmap(q)) >>

(* The code between two queues: what fails before the ring exists unwinds  *)
(* the queue before it.                                                    *)
ScsiQueue(q, before) ==
    << Call(before), Get(Ring(q), before), Get(RingMap(q), Release(q)),
       Call(Unmap(q)), Address(q, Unmap(q)) >>

UnwindQueue(q) ==
    << At(Unmap(q), Put(RingMap(q), NoLabel)), At(Release(q), Put(Ring(q), NoLabel)) >>

ScsiInit(failed) ==
    Negotiate(Label("Failed"))
    \o ScsiQueue(0, Label("Failed")) \o ScsiQueue(1, Unmap(0)) \o ScsiQueue(2, Unmap(1))
    \o << Call(Unmap(2)), Status("DRIVER_OK", Unmap(2)), Goto(Label("InitDone")) >>
    \o UnwindQueue(2) \o UnwindQueue(1) \o UnwindQueue(0)
    \o << At(Label("Failed"), Reset(NoLabel)), Goto(failed), At(Label("InitDone"), Call(NoLabel)) >>

UninitQueue(q) == << Put(RingMap(q), NoLabel), Put(Ring(q), NoLabel) >>

ScsiUninit ==
    << Reset(NoLabel) >> \o UninitQueue(2) \o UninitQueue(1) \o UninitQueue(0)

(***************************************************************************)
(* DriverBindingStart and -Stop have one shape in the SCSI, keyboard and   *)
(* filesystem drivers.  "session" is what lies between Init and the event. *)
(***************************************************************************)
BindingStart(init, session, uninit) ==
    << Get(Res("dev"), Label("Fail")), Get(Res("virtio"), Label("FreeDev")) >>
    \o init \o session
    \o << Get(Res("exitboot"), Label("UninitDev")), Get(Res("protocol"), Label("CloseExitBoot")),
          Return("running"),
          At(Label("CloseExitBoot"), Put(Res("exitboot"), NoLabel)),
          At(Label("UninitDev"), Call(NoLabel)) >>
    \o uninit
    \o << At(Label("CloseVirtIo"), Put(Res("virtio"), NoLabel)),
          At(Label("FreeDev"), Put(Res("dev"), NoLabel)),
          At(Label("Fail"), Return("failed")) >>

BindingStop(uninit) ==
    << Call(Label("Keep")), Put(Res("protocol"), Label("Keep")),
       Put(Res("exitboot"), NoLabel) >>
    \o uninit
    \o << Put(Res("virtio"), NoLabel), Put(Res("dev"), NoLabel),
          Return("unbound"), At(Label("Keep"), Return("running")) >>

ScsiStart == BindingStart(ScsiInit(Label("CloseVirtIo")), << >>, ScsiUninit)
ScsiStop == BindingStop(ScsiUninit)

-----------------------------------------------------------------------------
(* GunyahVirtioFsDxe: hiprio and request queues. *)

FsQueue(q, before) ==
    << Call(before), Get(Ring(q), before), Get(RingMap(q), Release(q)),
       Address(q, Unmap(q)) >>

FsInit(failed) ==
    Negotiate(Label("Failed")) \o << Call(Label("Failed")) >>
    \o FsQueue(0, Label("Failed")) \o FsQueue(1, Unmap(0))
    \o << Status("DRIVER_OK", Unmap(1)), Goto(Label("InitDone")) >>
    \o UnwindQueue(1) \o UnwindQueue(0)
    \o << At(Label("Failed"), Reset(NoLabel)), Goto(failed), At(Label("InitDone"), Call(NoLabel)) >>

(* Mutant: the reset comes after the rings are freed. *)
FsUninitResetsLast == UninitQueue(1) \o UninitQueue(0) \o << Reset(NoLabel) >>

FsUninit == << Reset(NoLabel) >> \o UninitQueue(1) \o UninitQueue(0)

(* VirtioFsFuseInitSession comes between Init and the event. *)
FsStart == BindingStart(FsInit(Label("CloseVirtIo")), << Call(Label("UninitDev")) >>, FsUninit)
FsStop == BindingStop(FsUninit)

-----------------------------------------------------------------------------
(* GunyahVirtioKeyboardDxe: event and status queues, with their buffers. *)

ReleasePages(q) == <<"ReleasePages", q>>
RingReady(q) == <<"RingReady", q>>

KbdInitRing(q) ==
    << Call(Label("Failed")), Get(Ring(q), Label("Failed")), Get(RingMap(q), Release(q)),
       Call(Unmap(q)), Address(q, Unmap(q)),
       Get(Buffers(q), Unmap(q)), Get(BufferMap(q), ReleasePages(q)), Goto(RingReady(q)),
       At(ReleasePages(q), Put(Buffers(q), NoLabel)),
       At(Unmap(q), Put(RingMap(q), NoLabel)),
       At(Release(q), Put(Ring(q), NoLabel)),
       Goto(Label("Failed")), At(RingReady(q), Call(NoLabel)) >>

KbdUninitRing(q) ==
    << PutIfSet(BufferMap(q)), PutIfSet(Buffers(q)), PutIfSet(RingMap(q)), PutIfSet(Ring(q)) >>

KbdUninitAllRings == KbdUninitRing(0) \o KbdUninitRing(1)

KbdInit(failed) ==
    Negotiate(Label("Failed")) \o KbdInitRing(0) \o KbdInitRing(1)
    \o << Call(Label("Failed")), Status("DRIVER_OK", Label("Failed")),
          Get(Res("waitforkey"), Label("Failed")), Get(Res("waitforkeyex"), Label("Failed")),
          Get(Res("timer"), Label("Failed")), Call(Label("Failed")), Goto(Label("InitDone")),
          At(Label("Failed"), Call(NoLabel)) >>
    \o KbdUninitAllRings
    \o << Status("FAILED", NoLabel), Goto(failed), At(Label("InitDone"), Call(NoLabel)) >>

KbdUninit == << Put(Res("timer"), NoLabel), Reset(NoLabel) >> \o KbdUninitAllRings

KbdStart == BindingStart(KbdInit(Label("CloseVirtIo")), << >>, KbdUninit)
KbdStop == BindingStop(KbdUninit)

(* VirtioKeyboardSimpleTextInputReset drops the status of Init. *)
KbdReset == KbdUninit \o KbdInit(Label("Done")) \o << At(Label("Done"), Return("running")) >>

-----------------------------------------------------------------------------
(* GunyahVirtioGpuDxe: control and cursor queues, and a GOP child. *)

Rollback(n) == <<"RollbackQueues", n>> \* with QueueIdx = n
NextQueue(q) == <<"NextQueue", q>>

GpuQueue(q) ==
    << Call(Rollback(q)), Get(Ring(q), Rollback(q)), Get(RingMap(q), Release(q)),
       Address(q, Unmap(q)), Goto(NextQueue(q)) >>
    \o UnwindQueue(q)
    \o << Goto(Rollback(q)), At(NextQueue(q), Call(NoLabel)) >>

GpuInit(failed) ==
    Negotiate(Label("Failed")) \o GpuQueue(0) \o GpuQueue(1)
    \o << Status("DRIVER_OK", Rollback(2)), Goto(Label("InitDone")),
          At(Rollback(2), Call(NoLabel)) >> \o UninitQueue(1)
    \o << At(Rollback(1), Call(NoLabel)) >> \o UninitQueue(0)
    \o << At(Rollback(0), Call(NoLabel)),
          At(Label("Failed"), Status("FAILED", NoLabel)), Goto(failed),
          At(Label("InitDone"), Call(NoLabel)) >>

GpuUninit == << Reset(NoLabel) >> \o UninitQueue(0) \o UninitQueue(1)

(* The GOP child; SetMode and ReleaseGopResources acquire and release "gop". *)
InitVgpuGop(failed) ==
    << Get(Res("vgpugop"), failed), Get(Res("gopname"), Label("FreeVgpuGop")),
       Get(Res("goppath"), Label("FreeVgpuGopName")), Get(Res("pathprotocol"), Label("FreeDevicePath")),
       Get(Res("childref"), Label("UninstallDevicePath")), Get(Res("gop"), Label("CloseVirtIoByChild")),
       Get(Res("gopprotocol"), Label("UninitGop")), Return("running"),
       At(Label("UninitGop"), Put(Res("gop"), NoLabel)),
       At(Label("CloseVirtIoByChild"), Put(Res("childref"), NoLabel)),
       At(Label("UninstallDevicePath"), Put(Res("pathprotocol"), NoLabel)),
       At(Label("FreeDevicePath"), Put(Res("goppath"), NoLabel)),
       At(Label("FreeVgpuGopName"), Put(Res("gopname"), NoLabel)),
       At(Label("FreeVgpuGop"), Put(Res("vgpugop"), NoLabel)), Goto(failed) >>

UninitVgpuGop ==
    << Put(Res("gopprotocol"), NoLabel), Put(Res("gop"), NoLabel), Put(Res("childref"), NoLabel),
       Put(Res("pathprotocol"), NoLabel), Put(Res("goppath"), NoLabel),
       Put(Res("gopname"), NoLabel), Put(Res("vgpugop"), NoLabel) >>

(* Start that binds the controller; "child" is what it goes on to produce. *)
GpuBind(child) ==
    << Get(Res("virtio"), Label("Fail")), Get(Res("dev"), Label("CloseVirtIo")),
       Call(Label("FreeDev")), Get(Res("busname"), Label("FreeDev")) >>
    \o GpuInit(Label("FreeBusName"))
    \o << Get(Res("exitboot"), Label("UninitDev")), Get(Res("protocol"), Label("CloseExitBoot")) >>
    \o child
    \o << At(Label("UninstallDev"), Put(Res("protocol"), NoLabel)),
          At(Label("CloseExitBoot"), Put(Res("exitboot"), NoLabel)),
          At(Label("UninitDev"), Call(NoLabel)) >>
    \o GpuUninit
    \o << At(Label("FreeBusName"), Put(Res("busname"), NoLabel)),
          At(Label("FreeDev"), Put(Res("dev"), NoLabel)),
          At(Label("CloseVirtIo"), Put(Res("virtio"), NoLabel)),
          At(Label("Fail"), Return("failed")) >>

GpuStartBus == GpuBind(<< Return("bound") >>)
GpuStartAll == GpuBind(InitVgpuGop(Label("UninstallDev")))

(* Mutant: VirtIoBoundJustNow is not looked at when the child fails. *)
GpuStartChildUnwindsBus ==
    << Call(Label("Fail")) >> \o InitVgpuGop(Label("UninstallDev"))
    \o << At(Label("UninstallDev"), Put(Res("protocol"), NoLabel)), Put(Res("exitboot"), NoLabel) >>
    \o GpuUninit
    \o << At(Label("Fail"), Return("bound")) >>

(* Start on a controller bound before: VirtIoBoundJustNow is FALSE. *)
GpuStartChild ==
    << Call(Label("Fail")) >> \o InitVgpuGop(Label("Fail")) \o << At(Label("Fail"), Return("bound")) >>

GpuStopChild == << Call(Label("Keep")) >> \o UninitVgpuGop \o << Return("bound"), At(Label("Keep"), Return("running")) >>

GpuStopBus ==
    << Call(Label("Keep")), Put(Res("protocol"), NoLabel), Put(Res("exitboot"), NoLabel) >>
    \o GpuUninit
    \o << Put(Res("busname"), NoLabel), Put(Res("dev"), NoLabel), Put(Res("virtio"), NoLabel),
          Return("unbound"), At(Label("Keep"), Return("bound")) >>

=============================================================================
