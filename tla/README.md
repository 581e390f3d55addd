# Formal verification of edk2-gunyah

edk2-gunyah is a UEFI firmware for virtual machines under the Gunyah hypervisor,
run by the crosvm virtual machine monitor, which the repository carries with
patches.  This directory holds TLA+ models of the parts of both that keep state,
the TLC configurations that check them on small instances, and proofs checked by
TLAPS.  `PROJECT.json` ties them together: the parts, the runs, the source lines
each definition models, the hazards and the theorems.

## The system

**The firmware** (`GunyahPkg`, C) runs on one processor.  Its concurrency comes
from UEFI events: a notification function of a higher task priority level (TPL)
preempts lower code between any two instructions and runs to its end.  Every
virtio driver maps its rings and buffers through the IOMMU protocol, which takes
its pages from the DMA pool.  The file systems that the SCSI and filesystem
drivers produce are the volumes the Secure Boot driver is notified of.

**The monitor** (`crosvm`, Rust) has threads: one per virtual cpu, one per device
worker, one that executes the requests of clients.  Its virtio-pci transport
starts and stops the devices the firmware drives: from DRIVER_OK until a reset
they read and write the firmware's memory.  Its Gunyah backend hands the memory
of the machine to the kernel.

What matters: memory a device can reach belongs to the driver that gave it;
every resource is given back on every exit; data arrive where they should;
bookkeeping on two sides of an interface agrees after every failure; what
survives a reboot is never left in a state a later boot cannot repair; and a
request that was accepted ends.

| module | models | main source |
|---|---|---|
| `DmaPool` | the page allocator, preemptible anywhere by callbacks | `GunyahIoMmuDxe/DmaPool.c` |
| `PageAllocator` | what its callers rely on: disjoint runs of pages | |
| `IoMmu` | Map, Unmap and common buffers, with the contents of memory | `GunyahIoMmuDxe.c` |
| `VirtioPrograms`, `VirtioLifecycle` | start, stop, reset and exit of four drivers | the drivers' `DriverBinding`, `Init`, `Uninit` |
| `VirtioPciDevice` | what such a driver sees of crosvm's transport | `virtio_pci_device.rs` |
| `SecureBootProvisioning` | key enrolment and the policy file over several boots | `SecureBootProvisioningDxe.c` |
| `KeyboardInput` | crosvm's input worker, the event ring and the driver | `virtio/input`, `GunyahVirtioKeyboardDxe` |
| `VirtioFsFiles` | the EFI file protocol over a FUSE server | `GunyahVirtioFsDxe` |
| `VgpuGop` | the firmware's display driver | `Gop.c` |
| `VirtioGpuDevice`, `VirtioGpu` | crosvm's GPU device, and any driver of it | `virtio_gpu.rs`, `rutabaga_core.rs` |
| `GpuStack` | one GPU device from the firmware to the operating system | |
| `VirtioPciTransport` | the transport in full, with sleep and restore | `virtio_pci_device.rs`, `queue.rs` |
| `GunyahMemory` | slots, parcels and lending of guest memory | `hypervisor/src/gunyah` |
| `VmRunControl` | suspend, resume, snapshot and exit | `vm_control/src/lib.rs`, `vcpu.rs`, `linux.rs` |
| `PassthroughInodes` | inodes and handles of the virtio-fs server | `fs/passthrough.rs`, `fuse/src/server.rs` |
| `CasefoldCache` | its case-insensitive lookups | `fs/passthrough.rs` |
| `RwLock` | the asynchronous reader-writer lock | `cros_async/src/sync/mu.rs` |
| `AddressRanges`, `AddressAllocator` | the allocator of addresses and irqs | `address_allocator.rs` |

The `MC` modules hold the instances for TLC, the `Proof` modules the theorems.
Some operators are plausible slips in the code (a dropped guard, a swapped
order) and are used by no action: each stands before the definition it varies,
and `PROJECT.json` names, under "mutants", the property that fails when it takes
that definition's place.

## How the modules correspond to the code

### DmaPool, PageAllocator

`bitmap` is the set of pages whose bit is set.  Each active TPL has its own call
(`pc`, `NumPages`, `RunStart`, `RunLen`, `i`: the locals of `BitmapFindFreeRun`,
`BitmapSetRange` and `BitmapClearRange`).  The loops go one iteration at a time;
setting a bit is a load of the byte into `byte` and a store of it.  `Preempt` and
`Return` are the TPL discipline: higher levels come and go as on a stack.
A callback may keep the pages it allocated and free pages that other code
allocated.  The refinement mapping takes the allocations that the levels' callers
hold for those of `PageAllocator`.

`DmaPool.c` raises no TPL, and a callback that does so *inside a call it
interrupted* breaks the pool: the call goes on with a scan, or with a byte of the
bitmap, that is out of date, and two callers own one page.  (TLC finds such a
behaviour at once when `ExclusiveOwnership` is stated without its guard.)  The
history variable `overtaken` records that moment; every property claims what holds
before it, and `PageAllocator` promises nothing once it is `broken`.
The firmware image has drivers with timer callbacks that may keep mappings
(VirtioNet with the network stack, Xhci and UsbKb: `GunyahFvMain.fdf.inc:159`,
`:206`, `:262`), so that this is not excluded by how the pool is used.  What the
run and the proofs add is that it is the *only* way: callbacks that give back what
they take may interrupt a call anywhere, and callbacks that keep pages may
interrupt anything but a call.

### IoMmu

Calls are atomic; `DmaPool` shows that this is right as long as no call of the
allocator is overtaken.  Memory is modelled with its contents (`pool`, `host`),
so that a copy at the wrong moment or in the wrong direction shows.  The device
writes any cell of a mapping that is open for writing.  `protected` says whether
the device tree has a `restricted-dma-pool` node; without one the protocol is not
installed, nor when memory for the bitmap runs out.  `SetAttribute` changes
nothing and has no action.

### The life cycle of the virtio drivers

The `Start` and `Stop` functions with their `Init` and `Uninit` are long goto
chains.  `VirtioPrograms` writes each as a sequence of steps (acquire, release,
write the status, set a queue address, a call that changes nothing modelled) with
the label its failure jumps to; `VirtioLifecycle` interprets them against
`VirtioPciDevice`.  Any call whose status the code looks at may fail at every
try; calls whose status it drops are taken to succeed.  The interface revision is
at least 1.0, as for all of crosvm's devices.  A ring address on the device's
side is "held" while the driver holds the ring it was taken from and "freed"
afterwards; `lost` and `stray` record what was overwritten while held and what
was released while not held.  An activation that stops midway leaves the queues
before the fault activated and the device not running (`tries` = "failed").

Two things are known to go wrong and are kept apart by `Untroubled`.  A start
that failed before DRIVER_OK leaves queues ready in crosvm, whose reset clears
them only for an activated device: the second start runs on the first one's freed
rings (`virtio_retry`, a finding).  And the keyboard's `Init`, when its timer
cannot be set, frees the rings before it stops the device, and leaves its events
open when a later step fails; the two events of `WaitForKey` are closed by no
`Uninit`.  Of the keyboard, the properties therefore claim only the balance of
DMA resources and that a running device has all queues.

### SecureBootProvisioning

The entry point is a position (`entry`); each activation of
`OnFileSystemNotification`, the direct call and the event's, has its own position
and volume (`work`), and the event's preempts the direct one.  A volume appears
between two steps of the entry point or of the direct call, never inside the
event's own call, which runs at its TPL.  Files survive `PowerLoss` and `Boot`,
and so may the variables: with `PcdEmuVariableNvModeEnable`, the default
(`README.md:116`), none does, and `Boot` may start with an empty store.
Everything else starts anew.  A fault is a
failing call or a loss of power.  External, and modelled from how the driver uses
them: the DXE core's protocol notification (each volume is handed out once per
registration), edk2's variable driver (custom mode does not survive a reboot;
SecureBootEnable may be set along with PK) and the setup menu.  `hadPk`,
`choice`, `clean`, `stuck` and `cut` are history variables that only the
properties read.  `HonoursChoice` excepts a choice whose read failed:
`SecureBootVariableEquals` answers FALSE for a variable it cannot read.

`Esp` is the set of volumes that hold the Windows boot manager.  The comments at
`:153` and `:221` say that others are skipped, but the status of that test is
overwritten (`:241`) and the driver goes on to open, create or delete the file
there as well; creating it fails where the directory is missing.  The comment at
`:502` says that the file is written "only on the first boot of a clean (PK-less)
variable store"; the notification does its work in every boot.  `PolicyFollowsPk`
therefore speaks of every boot, and of the volumes in `Esp` only.

### KeyboardInput

The driver's callbacks run at TPL_NOTIFY: one runs to its end before a reader
goes on, while crosvm's worker runs at any time.  A reset keeps the keys that are
down.  The driver returns buffers without notifying the device, so events arrive
for certain only while the ring does not run out of buffers: `EventsArrive` says
so.  Key codes are those of crosvm's keyboards, all below 256, which the driver's
cast to UINT8 keeps apart, and a used buffer holds a whole number of events.
`missed` holds the keys about which the driver may be wrong: it takes a
repetition for a release, decodes only the first event of a buffer, and loses the
events in the ring at a reset.

### VirtioFsFiles

Operations run to their end one after the other.  The server (`srv`) is a tree of
nodes with the lookups and handles it counts for the driver; it may refuse any
request (`bad` numbers the refused ones) but no forget.  `shared` records that a
node was open twice, after which a rename or a removal through one file leaves
the other's path stale; `PathsKept` and `DeletesOwn` speak of behaviours before
that.

### The GPU: VgpuGop, VirtioGpuDevice, VirtioGpu, GpuStack

A command of crosvm's device is an operator from its state to the set of its
outcomes; the frontend's table (`res`), the renderer's (`host`), the displays and
the hypervisor's blob mappings are kept apart, because the properties are about
their agreement.  A blob is mapped at an offset of a region (`shm`): `AddMapping`
looks for no earlier mapping, so that with `fixed_blob_mapping` a second blob at
one offset takes the place of the first (`twice`), and `RemoveMapping` takes the
offset off its list (`listed`) before it asks the hypervisor, which may fail.
`VgpuGop` sends one command per step of `GopSetMode`, of its roll-back labels,
`GopBlt` and `UninitVgpuGop`; a command fails before the host sees it or by the
host's answer.  `VirtioGpu` is any driver at all, with displays that come and go,
resets and a resume (sleep, snapshot, new process, restore and wake in one step).
`GpuStack` gives one device to the first and then, after ExitBootServices, to the
second.  Pixels are left out and a Blt covers the whole screen.  `dark` records
that the display refused a surface: `create_surface` has released the old one by
then, and the roll-back of a `SetScanout` that failed does not send another, so
the screen is left without any, where `Gop.c:389` speaks of bailing out "without
disturbing the current graphics mode".  Errors of the IOMMU after the device has
executed a command are not told apart from its answer, as they cannot happen
here.  The renderer is external.  Cursor, 3D contexts, blob scanouts and imports
are left out.  The firmware is modelled with the 2D renderer only, and only that
renderer has snapshots; a device with blobs starts with the system.

### VirtioPciTransport

Every method holds the device's lock and is one step.  A queue's size, vector and
three addresses are one value, its ring.  While the driver has the device
suspended (the SUSPEND bit of the status), the device's `Interrupt` keeps its
signals back (`pending`) and sends them when the driver resumes it; `untold` are
the queues of which the driver has not heard.  Three history variables mark
what goes wrong and is not claimed: `partial`, an activation that failed halfway
and left queues activated; `rewritten`, queues the driver disabled, and perhaps
changed, while the device ran on them; `forgot`, an `Interrupt` that was made for
a device the driver has suspended, by restoring or by activating it.  The
snapshot of an `Interrupt` has only the interrupt status, so that the new one
takes the device to be running and sends.  `Faults` says what may fail: registering
an ioevent, activating a queue or the device, its reset, unregistering.  A device
refuses to run without queues.  The vcpus are stopped while it sleeps, and a
worker finishes what it took before it goes to sleep.  BAR moves and capabilities
are left out.

### GunyahMemory

Sizes and addresses count 64 KB units.  `GunyahVm::new` goes region by region:
shared memory in one parcel, lent memory in one parcel or, prepared by the
cascade of `mthp.rs`, in chunks of one kind of backing.  Populating and locking
of pages is abstracted to which collapses succeed.  Labels are the kernel's: it
refuses one in use.  After that, windows are added and removed under slots of
their own, and any request may fail.  `mem_slot_gaps`, a heap in the code, is a
set, which `SlotsPartition` justifies.  In chunked mode the labels of chunks run on
from the number of guest regions, which is also the first slot of a window: once
there are more chunks than regions every added window meets a label in use, and
no window is ever added.  `unremoved` are labels of parcels that the kernel kept
although crosvm gave up their slots.  Chunks are multiples of 2 MB, and
`compute_lend_chunks` leaves the rest of a region out (`LeftOut`); nothing aligns
the size of guest memory, less the bounce buffer, to 2 MB.  Callers never
overlap another slot; windows whose end overflows are not enumerated; file-backed
regions are mapped like a single parcel.  The balloon, irqfds, ioevents and the
device tree are left out.

### VmRunControl

`todo` holds the steps that remain of the request the control thread is at.  A
kick of all vcpus is one of them, which goes on until each has been sent the
message and then the signal (`turn`, `sent`).  A vcpu thread has its channel
(`tube`), a pending signal (`sig`), the flag of the shared page (`imm`) and its
run mode.  The guest may never leave a vcpu by itself.  The machine starts
running or, with `--suspended`, with the devices asleep and the vcpus suspended.
Requests and events that are ready are served in any order.  A snapshot's guards
remember the run mode and the state of the devices they found (`guard`).  On
Gunyah `wait_until_runnable` and `kick_halted` do nothing.  `unheard` records a
signal that came before `run_vcpu` had published its thread handle, `hostWoke` a
resume event that came while the devices slept.  The debugger, restoring,
vmm-swap, s2idle and the flush of the interrupt handler are left out.

### PassthroughInodes

Several workers serve the guest's requests.  Each system call on the shared
directory is a step, and so is each section under the lock of `inodes`.  The
directory belongs to the host's kernel: the number of an object is used again
once no name and no descriptor refers to it.  The guest forgets only references
it holds.  `orphans` counts references nobody will give back: those of a guest
that reset the device, and of an `atomic_open` that failed on a file it had
looked up.  `raced` is set when the guest changes a directory beside another
request on it, which a kernel that locks its directories does not do; after that
`EntryIsFile` claims nothing.  Opening a file that was found may fail, and an
`atomic_open` of a symbolic link replies the entry without a handle.  `Destroy` is
the guest's last request, which its kernel sends when the others are answered.
Inode numbers are bounded by `MaxInode`, which is
as many as the requests can use up.  The root's entry and the modes without open
requests are left out.

### CasefoldCache, RwLock, AddressAllocator

These three have no run: they are proved for every value of their constants.

`CasefoldCache`: a handler holds the caches' lock over its system call and its
update of the cache, which is one step; a lookup is three.  Only the server
changes the directories.  Nothing is claimed once a directory has had two names
that differ only in case, or a rename has left its old name in place
(`RenameInPlace`, `ambiguous`): RENAME_EXCHANGE, and a rename onto another name of
the same file, which does nothing on the host.  The code takes the old name out of
the cache, although it is still there.

`RwLock`: one atomic operation on the state word is a step, and memory is taken
to be sequentially consistent.  Futures may be dropped at any point.

`AddressAllocator`: used under `&mut`, so each method is a step.  The pools are
disjoint and the alignments positive, as crosvm configures them
(`PoolsAssumption`, `AllocAssumption`, hypotheses of the theorem).

## Runs

| run | instance | shows |
|---|---|---|
| `dma_pool_nested` | two TPLs, three pages, two to a bitmap byte | until a callback overtakes a call: no page has two owners, "exhausted" is true, a callback leaves nothing but the pages it keeps, and the abstract allocator is implemented |
| `iommu_data` | two mappings, one common buffer, three pages of two cells, a buffer of one and a half pages | the pool is accounted for, bounce data are right on both sides, common buffers are left alone |
| `virtio_lifecycle` | all four drivers | resources balance, a running device uses held rings, nothing runs after ExitBootServices, a protocol has a live device behind it |
| `secure_boot_faults` | two volumes, one of them the Windows ESP, three boots, two faults | no PK without db and KEK, custom mode ends, no volume is missed, decisions stand, a clean boot completes the enrolment, SiPolicy.p7b follows PK |
| `keyboard_input` | a shift key, a letter, two buffers, four reports, one reset | the driver's picture of the keys is true, a reader takes the last key, events arrive |
| `virtio_fs_files` | two names, two nodes, depth two, two open files, two refusals per operation | lookups and handles balance on every exit, renames keep other paths, a delete removes its own file |
| `gpu_stack` | two modes, two stores, two displays, two resource ids | memory the host may read is the driver's, a failed mode change leaves the old mode or, where the display refused, a dark screen, the tables agree, a resumed device is the saved one |
| `gunyah_memory` | lent memory of three 2 MB blocks and a rest, a shared region, five windows, five changes | slots are never given out twice, records agree with parcels, guest memory is handed over once, but for the rest |
| `run_control` | two vcpus, two requests, one guest exit, started running or suspended | no vcpu runs beside sleeping devices, a snapshot is of a stopped machine, guards roll back, every request ends |
| `passthrough_inodes` | two workers, two names, three objects, three requests, one reset | references are accounted for, an inode is the file it was given for |
| `virtio_pci_transport` | two queues, one set of rings, all faults | a queue is held in one place and is the one configured, interrupts kept back are sent on resume, announced work is done |
| `virtio_retry` | the SCSI driver | **violated**: a comment says the full reset makes a retry like a first start; the retry runs on freed rings |

### Bounds

* DMA pool: three pages with two to a byte give a byte that two calls share and
  one they do not; two levels are one preemption.  Behaviours are followed up to
  the step that overtakes a call (`UntilOvertaken`), after which no property claims
  anything.  The proof covers the rest.
* IOMMU: `PageBytes = 2` and a buffer of one and a half pages make the rounding
  to pages visible; two mappings and a common buffer fill the pool, so that
  allocation fails too.  Map identifiers are symmetric.
* Life cycle: none.  `Drivers` is a subset of four names and every other domain
  is finite, so the run is the complete state space of the model.
* Secure Boot: a volume may appear while the other is worked on; a boot that
  fails may be followed by one that fails elsewhere and one that does not fail.
* Keyboard: four reports overfill two buffers; three events per buffer let one
  buffer hold a report and half of the next.
* Filesystem: depth two gives renames of a directory above an open file; two
  refusals fail an operation and then its clean-up.
* GPU: two stores are what a mode change needs at a time; the second display is
  plugged in at run time.
* Gunyah memory: three blocks and a half with `LendChunk = 2` give a full chunk, a
  smaller one and a rest that is lent in none;
  five changes add, remove and reuse slots out of order.
* Run control: two requests are one that meets another's leftovers; two vcpus
  answer in either order.
* Inodes: two workers on two names reach every pair of steps; three objects let a
  number be used again; three requests let a forget cross a lookup that follows
  another.  Workers and names are symmetric.
* Transport: two queues, so that one may fail after the other was activated.

### Fairness and deadlock

`KeyboardInput` assumes that crosvm's worker runs, that the driver's timer, which
is periodic, fires, and that a callback or reader that has begun goes on; nothing
makes anyone read a key.  `VirtioPciTransport` assumes that a sleeping device is
woken (weak fairness: nothing else disables the wake) and that a worker that is
polled again and again between sleeps gets to its queues (strong fairness).
`VmRunControl` assumes that threads run and pending signals are delivered; the
guest is trusted with nothing.  The other specifications assume no fairness.

Deadlock is not checked where the system may really stop: an operating system has
started, a driver is given up, the machine has exited, a resume failed or the
display driver reached its `CpuDeadLoop`, or a bound on requests is used up.

### The finding

`VirtioScsi.c:1314` says a full device reset "prevents 'queue is already
activated' on retry".  crosvm's `write_bar` resets the queues only of a device
that was activated.  After an `Init` that failed before DRIVER_OK they stay ready
with the addresses of freed rings, the retry's writes to a ready queue are
ignored, and its DRIVER_OK activates the device on them.  `virtio_retry` shows
the behaviour.

## Proofs

Each theorem holds for every value of the constants that satisfies the
assumptions named in the component's module, which TLC evaluates on the runs.
The inductive invariants of components that have a run were checked by TLC on its
instance as well.

**`DmaPoolProof`**: `~overtaken => NestingInv` is inductive, for any pool, levels
and callbacks, those that keep pages included; and from it `ExclusiveOwnership`,
`BitSetMeansAllocated`, `ExhaustedIsExhausted`, `CallbackLeavesNoTrace`, and that
`DmaPool` implements `PageAllocator`.  Ownership
alone is not inductive: a preempted scan has found pages free that a callback now
owns, and a preempted store holds a byte that is out of date.  `NestingInv` says
why this is harmless: a level's claim is free of what its own and lower levels
own, the byte in a register is what the bitmap will hold again when the level
goes on, and no run the scan has passed over was free below it.

**`IoMmuProof`**: `PoolAccounting`, `BounceFaithful`, and the action properties
`UnmapDelivers` and `CommonUndisturbed`, for any pool, page size, buffers and
number of mappings.  Equality of the bitmap with a union of runs says nothing of
two runs that share a page, so the invariant adds that live bounce runs are
disjoint from each other (`BouncesApart`), common buffers too (`CommonsApart`),
and one kind from the other (`KindsApart`); disjoint runs of pages are disjoint
sets of cells (`CellsApart`), and rounding up to pages covers the bytes
(`SizeFits`), the two places with non-linear arithmetic.  Assumed: `None` is no
MAP_INFO.

**`FirmwareProof`**: two drivers of the firmware, each on its own.

* `SecureBootProvisioning`: all six properties of `secure_boot_faults`, for any
  volumes, with and without the boot manager, and any number of boots and faults,
  whether or not variables survive a boot.  `IInv` ties the position of the entry
  point to what has been enrolled (`Progress`), to what the boot began with
  (`Decision`) and to custom mode (`Mode`); `Pending` says that while a volume is not
  handed out somebody is signalled or at work, and `Quiet` that nobody is when the
  operating system starts.  `CleanProgress` is what a blank boot without faults has
  done so far.  `PolicyWork` is what an activation of the notification knows of its
  volume: no other activation has it, PK does not change under it, a file about to be
  created is absent and one about to be written is empty.
* `KeyboardInput`: `ModifiersTrue` and `TakesLast`, for any keys, ring, buffers and
  typing.  `ModifiersTrue` speaks of the moments when nothing is under way; the
  invariant follows each key's events through source, queue and ring, the last of
  which tells whether the key is down (`Stream`).  For that the device must not
  write into a buffer the driver has still to read: used and available buffers,
  one after the other, are all buffers in the order of the driver's cycle
  (`RingOrder`), so the one it gives back is the one it has just read.  Assumed:
  `KeyboardOK`, that the ring has a buffer, a buffer room for an event, and that the
  code of no key is no key's.

**`GunyahMemoryProof`**: `SlotsPartition` and `RegionsBacked` for any guest memory,
windows and number of changes; the slot that comes next is fresh because slots in
use and slots given back partition an interval (`NextSlotFresh`).
`GuestMemoryHandedOver` holds for any layout: the rest that chunking leaves out is
named exactly (`LeftOut`).  The invariant `Handed` says that addresses of regions
done, but for what is left out of them, are in one parcel and all others in none;
the lemmas behind it show that each 2 MB block lies in exactly one of the chunks
the code lends, and that their slots count on without a gap.

The module also holds, on its own, the theorem about `AddressAllocator`
(`AllocatorSafe`): allocations and free regions are disjoint, and together they are
the pools.  A granted range lies inside the region it was cut from
(`PlacedInside`), and merging joins only ranges that touch.

**`PassthroughInodesProof`**: `RefsAccounted` and `EntryIsFile` for any workers,
names, objects and number of requests.  `RefsAccounted` speaks of a sum over the
requests under way, and induction over data is out of the prover's reach; so
what requests have in hand is counted as the cardinality of a set of places, and
`InHandStep` gives the change of that cardinality when one worker's record
changes.  Every step is then one of a few kinds (a reference is taken, replied,
undone, forgotten or orphaned), each with a lemma.  The invariant adds the shape of
a request's record at each position (`Shapes`).  `EntryIsFile` needs two more
facts: a request that depends on a name is alone with it unless `raced` is set
(`Alone`), and what it has found still is what the name stands for (`Tracking`).
An object's number is not used again while anything refers to it, and inode
numbers never are.

**`VmRunControlProof`**: `VcpusRunDevicesAwake`, `SnapshotOfStoppedVm` and
`GuardsRollBack`, for any number of vcpus, requests and guest exits.  None is
inductive: a vcpu does what the messages in its channel say, long after the
control thread has gone on.  The invariant therefore speaks of the mode a vcpu
*will* be in once it has taken its messages (`Eff`) and says that it is the mode
commanded last for all vcpus but those a kick has still to reach (`Told`).  From
that, an answer collected by `get_vcpu_state` is the mode commanded, and a vcpu
that answered "suspended" is in its message loop and stays there, because nothing
else is on its way to it (`Answers`, `Collected`).  `Asleep` and `Snapshots` say
what this gives a request that put the devices to sleep, `Guarded` what the guards
of `do_snapshot` will restore.  `Point` lists the places a request can be at;
every step has a lemma.  Assumed: `ParametersOK`.

**`GpuStackProof`**: `BackingSafe`, `ModeConsistent`, `BooksAgree` and
`RestoreFaithful`, for any modes, stores, ids, sizes and displays.  Two layers.
Each command of the device keeps the tables in agreement whatever it answers
(`CreateIs`, `UnrefIs`, `MapIs` ...), which is all that is known of the system's
driver and proves `BooksAgree`.  For the firmware's driver the invariant also says,
for every step of a mode change and of its undoing, which of the two resources is
on the host, which of the two stores is allocated, and which resource has its
store behind it (`Lives`, `Tables`), and what the screen shows (`Shows`): a step
frees a store only where the tables say that no resource has it.  The two drivers
see the same device through different instances of its operators, which the
`Same...` lemmas equate.  Assumed: `DisplaysOK`, `ModesOK` and `SystemOK`, the
configuration, and `StoresOK`, that no store is the absence of one.

**`HostStructuresProof`**: three structures of crosvm, each on its own.

* `VirtioPciTransport`: `HeldAccounted` and `InterruptsDeferred`, and the safety half
  of `WorkDone`: a ring with work keeps its signalled event and its place in the
  device (`NotificationsKept`).  `OnePlace`, that the queues are with the worker or
  in the sleep state and never in both, is what `HeldAccounted` lacks to be
  inductive; for the interrupts it is that an activated device has an `Interrupt`,
  suspended only by the driver's wish, and that a device that is not activated has
  raised nothing (`SignalInv`).
* `CasefoldCache` (`CasefoldSafe`): a cache lists every file of its directory, and
  a lookup finds a file that was there all along.  The invariant adds that no two
  names of a directory fold alike and that a lookup under way still sees the files
  it saw (`LookupsSee`).
* `RwLock`: `MutualExclusion` (with the reader count of the state word) and
  `SpinlockExclusive`, for any finite set of tasks.  The invariant adds that whoever
  still tries for the lock asks for the bits of its holders to be clear, whatever
  the long wait and wake-ups changed of its condition, and that whoever releases
  the spin lock clears its bit (`LockCareful`).

### Only model-checked

* `WorkDone`, `EventsArrive`, `RequestsEnd`: liveness under fairness is out of the
  prover's reach.
* `virtio_lifecycle`: finite for every value of its constants, so TLC's run is
  already complete.
* `virtio_fs_files`: the driver and the server walk paths and trees with recursive
  operators, about which the prover cannot reason.

## Not modelled

* In the firmware: the requests of the SCSI driver and the encoding of FUSE
  requests (one thread, one request at a time), path canonicalisation (strings),
  PCI configuration access and bridge discovery, clock, serial port, framebuffer,
  SMBIOS and ACPI tables, the boot manager library and the start of day: straight
  line code whose little state is kept by edk2.  The virtio-mmio library is not
  linked into the firmware.
* In crosvm: the condition variable, executors and thread pools, the indices of
  virtqueues, vhost-user, MSI-X and INTx, fences of a 3D renderer, the block,
  network, sound and other devices, interrupt controllers in user space, other
  hypervisors and architectures, and the set-up of a machine from its command
  line.  `PROJECT.json` gives the reason for each.
