-------------------------- MODULE VirtioLifecycle --------------------------
(***************************************************************************)
(* A virtio driver binds, uses and unbinds its device: the programs of     *)
(* VirtioPrograms run against crosvm's device of VirtioPciDevice.  Every   *)
(* call whose status the driver looks at may fail at every try, and        *)
(* ConnectController, DisconnectController, Reset and ExitBootServices     *)
(* come in any order.                                                      *)
(***************************************************************************)
EXTENDS VirtioPrograms, VirtioPciDevice, FiniteSets

CONSTANT Drivers  \* which of the drivers

VARIABLES driver,      \* the driver at work
          phase,       \* "unbound", "bound" (GPU without child), "running",
                       \* "busy" or "os"
          program,     \* the steps of the entry point it is in while busy
          pc,          \* the position in it
          NextDevStat, \* the local of that name
          held,        \* the resources the driver has acquired
          lost,        \* those overwritten while held: nobody can free them
          stray,       \* those released while not held
          tries        \* "first", "failed" once a Start has failed or the
                       \* device has stopped in the middle of its activation,
                       \* "again" once another entry point was called after that

vars == <<driver, phase, program, pc, NextDevStat, held, lost, stray, tries, deviceVars>>

Queues(d) == IF d = "scsi" THEN 0 .. 2 ELSE 0 .. 1

Programs ==
    [ ScsiStart |-> ScsiStart, ScsiStop |-> ScsiStop,
      FsStart |-> FsStart, FsStop |-> FsStop,
      KbdStart |-> KbdStart, KbdStop |-> KbdStop, KbdReset |-> KbdReset,
      GpuStartBus |-> GpuStartBus, GpuStartAll |-> GpuStartAll, GpuStartChild |-> GpuStartChild,
      GpuStopChild |-> GpuStopChild, GpuStopBus |-> GpuStopBus ]

(* The entry points the DXE core and the drivers' users may call. *)
Entries(d, p) ==
    CASE d = "scsi" /\ p = "unbound" -> {"ScsiStart"}
      [] d = "scsi" /\ p = "running" -> {"ScsiStop"}
      [] d = "fs" /\ p = "unbound" -> {"FsStart"}
      [] d = "fs" /\ p = "running" -> {"FsStop"}
      [] d = "keyboard" /\ p = "unbound" -> {"KbdStart"}
      [] d = "keyboard" /\ p = "running" -> {"KbdStop", "KbdReset"}
      [] d = "gpu" /\ p = "unbound" -> {"GpuStartBus", "GpuStartAll"}
      [] d = "gpu" /\ p = "bound" -> {"GpuStartChild", "GpuStopBus"}
      [] d = "gpu" /\ p = "running" -> {"GpuStopChild"}
      [] OTHER -> {}

Here == program[pc]

Target(l) == CHOOSE n \in 1 .. Len(program) : program[n].at = l

Init ==
    /\ driver \in Drivers
    /\ phase = "unbound"
    /\ program = << >>
    /\ pc = 0
    /\ NextDevStat = {}
    /\ held = {}
    /\ lost = {}
    /\ stray = {}
    /\ tries = "first"
    /\ DeviceInit(Queues(driver))

Enter ==
    /\ \E p \in Entries(driver, phase) : program' = Programs[p]
    /\ phase' = "busy"
    /\ pc' = 1
    /\ tries' = IF tries = "failed" THEN "again" ELSE tries
    /\ UNCHANGED <<driver, NextDevStat, held, lost, stray, deviceVars>>

At1(op) == phase = "busy" /\ Here.op = op
Advance == pc' = pc + 1 /\ UNCHANGED <<driver, phase, program, tries>>

(* Any call whose status is looked at may fail; it then has no effect.  A  *)
(* status write that fails has already changed NextDevStat.                *)
Fails ==
    /\ phase = "busy"
    /\ Here.err # NoLabel
    /\ pc' = Target(Here.err)
    /\ NextDevStat' = CASE Here.op = "reset" -> {}
                        [] Here.op = "status" -> NextDevStat \cup {Here.arg}
                        [] OTHER -> NextDevStat
    /\ UNCHANGED <<driver, phase, program, held, lost, stray, tries, deviceVars>>

Passes ==
    /\ At1("call")
    /\ Advance
    /\ UNCHANGED <<NextDevStat, held, lost, stray, deviceVars>>

Acquires ==
    /\ At1("get")
    /\ Advance
    /\ held' = held \cup {Here.arg}
    /\ lost' = IF Here.arg \in held THEN lost \cup {Here.arg} ELSE lost
    /\ UNCHANGED <<NextDevStat, stray, deviceVars>>

Releases ==
    /\ At1("put") \/ (At1("putifset") /\ Here.arg \in held)
    /\ Advance
    /\ held' = held \ {Here.arg}
    /\ stray' = IF Here.arg \in held THEN stray ELSE stray \cup {Here.arg}
    /\ IF Here.arg[1] = "ring" THEN RingFreed(Here.arg[2]) ELSE UNCHANGED deviceVars
    /\ UNCHANGED <<NextDevStat, lost>>

SkipsRelease ==
    /\ At1("putifset") /\ Here.arg \notin held
    /\ Advance
    /\ UNCHANGED <<NextDevStat, held, lost, stray, deviceVars>>

WritesStatus ==
    /\ \/ At1("reset") /\ NextDevStat' = {}
       \/ At1("status") /\ NextDevStat' = NextDevStat \cup {Here.arg}
    /\ WriteStatus(NextDevStat')
    /\ pc' = pc + 1
    /\ tries' = IF tries = "first" /\ DriverReady(status') /\ ~deviceActivated'
                   /\ "NEEDS_RESET" \notin status'
                THEN "failed" ELSE tries
    /\ UNCHANGED <<driver, phase, program, held, lost, stray>>

SetsAddress ==
    /\ At1("address")
    /\ SetQueueAddress(Here.arg)
    /\ Advance
    /\ UNCHANGED <<NextDevStat, held, lost, stray>>

Jumps ==
    /\ At1("goto")
    /\ pc' = Target(Here.arg)
    /\ UNCHANGED <<driver, phase, program, NextDevStat, held, lost, stray, tries, deviceVars>>

(* NextDevStat and the other locals go away with the entry point. *)
Returns ==
    /\ At1("return")
    /\ phase' = IF Here.arg # "failed" THEN Here.arg ELSE "unbound"
    /\ tries' = IF Here.arg = "failed" /\ tries = "first" THEN "failed" ELSE tries
    /\ program' = << >>
    /\ pc' = 0
    /\ NextDevStat' = {}
    /\ UNCHANGED <<driver, held, lost, stray, deviceVars>>

(* Mutant: the notification function leaves the device alone. *)
ExitBootForgetsDevice ==
    /\ phase \in {"unbound", "bound", "running"}
    /\ phase' = "os"
    /\ UNCHANGED <<driver, program, pc, NextDevStat, held, lost, stray, tries, deviceVars>>

(* ExitBootServices signals the event of a driver that has one; its        *)
(* notification function resets the device.  The OS then owns the memory.  *)
ExitBoot ==
    /\ phase \in {"unbound", "bound", "running"}
    /\ phase' = "os"
    /\ IF Res("exitboot") \in held THEN WriteStatus({}) ELSE UNCHANGED deviceVars
    /\ UNCHANGED <<driver, program, pc, NextDevStat, held, lost, stray, tries>>

Next ==
    \/ Enter
    \/ Fails
    \/ Passes
    \/ Acquires
    \/ Releases
    \/ SkipsRelease
    \/ WritesStatus
    \/ SetsAddress
    \/ Jumps
    \/ Returns
    \/ ExitBoot

Spec == Init /\ [][Next]_vars

-----------------------------------------------------------------------------
(* A device that could not be started is tried again on what the first try *)
(* left in it (see RingsHeld), and the keyboard's Init, when its timer     *)
(* cannot be set, frees the rings before it stops the device: the          *)
(* properties about the device are those of the other drivers, up to a     *)
(* second try.                                                             *)
Untroubled == driver # "keyboard" /\ tries # "again"

DmaResources(d) == {Ring(q) : q \in Queues(d)} \cup {RingMap(q) : q \in Queues(d)}
                   \cup {Buffers(q) : q \in Queues(d)} \cup {BufferMap(q) : q \in Queues(d)}

(* The resources a driver accounts for: of the keyboard those for DMA.     *)
(* Its events are left open: the timer when a later step of Init fails,    *)
(* the two WaitForKey events always, as VirtioKeyboardUninit closes only   *)
(* the timer.                                                              *)
Accounted(d, rs) == IF d = "keyboard" THEN rs \cap DmaResources(d) ELSE rs

(* The goto chains of Init and the teardown in Uninit balance: no ring,    *)
(* mapping, buffer, event or protocol is freed twice, overwritten while    *)
(* held, or kept by a driver that is not bound, whichever calls fail and   *)
(* however often the driver is started, stopped and reset.                 *)
AllBalanced ==
    /\ Accounted(driver, lost \cup stray) = {}
    /\ phase = "unbound" => Accounted(driver, held) = {}

(* While the device runs, each of its queues lies in the ring the driver   *)
(* holds and has mapped.  VirtioScsi.c:1314 says a full reset "prevents    *)
(* 'queue is already activated' on retry": then a second Start would be    *)
(* like the first.                                                         *)
RingsHeld ==
    deviceActivated =>
        \A q \in activated : address[q] = "held" /\ {Ring(q), RingMap(q)} \subseteq held

(* "crosvm requires all three to be ready before DRIVER_OK" (VirtioScsi.c: *)
(* 1055), and "The host will have learned to stay away from the old comms  *)
(* area" (VirtioScsi.c:1336) before that area is freed: a running device   *)
(* has all of its driver's queues, each in a ring the driver holds.        *)
DeviceUsesHeldRings ==
    /\ deviceActivated => activated = Queues(driver)
    /\ Untroubled => RingsHeld

(* The ExitBoot notifications leave no device running in the OS's memory.  *)
QuietAfterExitBoot == Untroubled /\ phase = "os" => ~deviceActivated

(* A driver that has installed its protocol has a device with DRIVER_OK    *)
(* and its rings.                                                          *)
ProtocolMeansDevice ==
    phase \in {"bound", "running"} /\ Untroubled =>
        /\ "DRIVER_OK" \in status
        /\ {Ring(q) : q \in Queues(driver)} \cup {RingMap(q) : q \in Queues(driver)} \subseteq held

=============================================================================
