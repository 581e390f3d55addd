------------------------- MODULE VirtioPciTransport -------------------------
(***************************************************************************)
(* The virtio-pci transport of a crosvm device: the common configuration   *)
(* registers (virtio_pci_common_config.rs), the queue configurations       *)
(* (queue.rs), VirtioPciDevice (virtio_pci_device.rs), which activates the *)
(* device on a write that makes the driver ready, resets it on a write of  *)
(* zero, puts it to sleep for snapshots and restores it, and its Interrupt *)
(* (interrupt.rs), which keeps interrupts back while the driver has the    *)
(* device suspended.  Every method holds the device's lock, so each is one *)
(* step.  A queue's size, vector and three addresses are one value, its    *)
(* ring; how an interrupt that is sent reaches the guest is not modelled.  *)
(***************************************************************************)
EXTENDS Integers, FiniteSets

CONSTANTS NumQueues,
          Rings, ZeroRing,\* ZeroRing: the addresses and size of a clean queue
          NoQueue,
          Faults          \* what may fail: "register", "queue", "device", "reset", "unregister"

ASSUME NumQueuesAssumption == NumQueues \in Nat \ {0}
ASSUME RingsAssumption == NoQueue \notin Rings \cup {ZeroRing}

Queues == 0 .. NumQueues - 1
\* driver_status: "init" is ACKNOWLEDGE, DRIVER and FEATURES_OK, "ok" DRIVER_OK.
\* What drivers write to it.
DriverStatuses ==
  {{}, {"init"}, {"init", "ok"}, {"init", "ok", "failed"}, {"init", "ok", "suspend"}}

VARIABLES
  status, select,    \* driver_status, queue_select
  queues,            \* QueueConfig: ready, activated, ring
  device_activated,
  registered,        \* queues with an ioevent in the hypervisor
  resampler,         \* the resample thread runs
  interrupt,         \* "none", or PmState of the Interrupt: "running" or "suspended"
  pending,           \* pending_signals: queues whose interrupt is kept back
  held,              \* the rings the device's worker runs on
  sleep,             \* sleep_state: "awake", "inactive" or "active"
  asleep,            \* the rings of SleepState::Active
  kick,              \* queue events that are signalled
  work,              \* rings with entries the device has not looked at
  untold,            \* queues with used entries for which no interrupt was sent
  \* History, since the device was last clean:
  partial,           \* an activation failed and left queues activated
  rewritten,         \* queues the driver disabled while the device ran on them
  forgot             \* an Interrupt was made while the device was suspended

common == <<status, select, queues>>
worker == <<held, kick, work>>
sleeping == <<sleep, asleep>>
signals == <<interrupt, pending, untold>>
history == <<partial, rewritten, forgot>>
vars == <<common, device_activated, registered, resampler, worker, sleeping, signals, history>>

Clean == [ready |-> FALSE, activated |-> FALSE, ring |-> ZeroRing]
NoQueues == [q \in Queues |-> NoQueue]

Init ==
  /\ status = {} /\ select = 0 /\ queues = [q \in Queues |-> Clean]
  /\ device_activated = FALSE /\ registered = {} /\ resampler = FALSE
  /\ held = NoQueues /\ sleep = "awake" /\ asleep = NoQueues
  /\ kick = {} /\ work = {}
  /\ interrupt = "none" /\ pending = {} /\ untold = {}
  /\ partial = FALSE /\ rewritten = {} /\ forgot = FALSE

IsDriverReady(s) == {"init", "ok"} \subseteq s /\ "failed" \notin s

(***************************************************************************)
(* activate: ready queues in order, each registered and then activated;    *)
(* it stops at the first that fails and undoes nothing.  A device refuses  *)
(* to run without queues.                                                  *)
(***************************************************************************)
Ready(qs) == {q \in Queues : qs[q].ready}
Bad(qs, fault) ==
  {q \in Ready(qs) : \/ qs[q].activated \/ fault = <<"queue", q>>
                     \/ fault = <<"register", q>> /\ q \notin registered}
ActivateFaults ==
  {<<>>} \cup {<<k, q>> : k \in Faults \cap {"register", "queue"}, q \in Queues}
         \cup {<<k>> : k \in Faults \cap {"device"}}

Activate(s, qs) == \E fault \in ActivateFaults :
  LET bad == Bad(qs, fault)
      done == {q \in Ready(qs) : \A b \in bad : q < b}
      reached == {q \in Ready(qs) : \A b \in bad : q < b \/ (q = b /\ fault # <<"register", q>>)}
      runs == bad = {} /\ fault # <<"device">> /\ Ready(qs) # {}
  IN /\ resampler' = TRUE
     /\ registered' = registered \cup reached
     /\ queues' = [q \in Queues |-> [qs[q] EXCEPT !.activated = @ \/ q \in done]]
     /\ device_activated' = runs
     /\ status' = s \cup (IF bad = {} /\ ~runs THEN {"needs_reset"} ELSE {})
     /\ held' = IF runs THEN [q \in Queues |-> IF q \in done THEN qs[q].ring ELSE NoQueue] ELSE held
     /\ partial' = (partial \/ (~runs /\ done # {}))
     /\ rewritten' = {}
     /\ UNCHANGED <<kick, work>>

\* unregister_ioevents, in order, up to the first that fails.
UnregisterFaults == {NumQueues} \cup (IF "unregister" \in Faults THEN Queues ELSE {})
UnregisterIoevents == \E f \in UnregisterFaults : registered' = {q \in registered : q >= f}

QueueReset == [q \in Queues |-> Clean]

ResetDevice ==
  /\ device_activated' = FALSE /\ queues' = QueueReset /\ select' = 0
  /\ UnregisterIoevents /\ resampler' = FALSE
  /\ held' = NoQueues /\ work' = {} /\ UNCHANGED kick
  /\ partial' = FALSE /\ rewritten' = {}

(***************************************************************************)
(* A write that changes the SUSPEND bit tells the Interrupt, and the       *)
(* signals kept back are sent when the bit is cleared.  An Interrupt that  *)
(* is made (activate) starts out running, with no signals.                 *)
(***************************************************************************)
Suspends(s) == "suspend" \in s /\ "suspend" \notin status
Resumes(s) == "suspend" \notin s /\ "suspend" \in status

SetSuspendedSendsNone(s, made) ==
  /\ interrupt' = IF ~made /\ interrupt = "none" THEN "none"
                  ELSE IF Suspends(s) THEN "suspended"
                  ELSE IF made \/ Resumes(s) THEN "running" ELSE interrupt
  /\ pending' = IF made THEN {} ELSE pending

SetSuspended(s, made) ==
  /\ interrupt' = IF ~made /\ interrupt = "none" THEN "none"
                  ELSE IF Suspends(s) THEN "suspended"
                  ELSE IF made \/ Resumes(s) THEN "running" ELSE interrupt
  /\ pending' = IF made \/ Resumes(s) THEN {} ELSE pending

Told(s) == IF Resumes(s) THEN untold \ pending ELSE untold

(***************************************************************************)
(* write_bar: the register is written (s, i and qs are what becomes of the *)
(* status, the selector and the queues), then the device is activated or   *)
(* reset.                                                                  *)
(***************************************************************************)
WriteBar(s, i, qs) ==
  /\ sleep = "awake"
  /\ \/ /\ ~device_activated /\ IsDriverReady(s)
        /\ Activate(s, qs) /\ select' = i
        /\ SetSuspended(s, TRUE) /\ untold' = Told(s)
        /\ forgot' = ("suspend" \in s /\ ~Suspends(s))
     \/ /\ device_activated /\ s = {}
        /\ ResetDevice /\ status' = {}
        /\ SetSuspended(s, FALSE) /\ untold' = {} /\ forgot' = FALSE
     \/ /\ IF device_activated THEN s # {} \/ "reset" \in Faults ELSE ~IsDriverReady(s)
        /\ status' = s /\ select' = i /\ queues' = qs
        /\ SetSuspended(s, FALSE) /\ untold' = Told(s)
        /\ rewritten' = rewritten \cup {q \in Queues : held[q] # NoQueue /\ ~qs[q].ready}
        /\ UNCHANGED <<device_activated, registered, resampler, worker, partial, forgot>>
  /\ UNCHANGED <<sleeping>>

\* with_queue_mut: a selector beyond the last queue names none.
WithQueue(new) == [q \in Queues |-> IF q = select THEN new[q] ELSE queues[q]]

WriteStatus(s) == WriteBar(s, select, queues)
WriteSelect(i) == WriteBar(status, i, queues)
SetReady(b) == WriteBar(status, select, WithQueue([q \in Queues |-> [queues[q] EXCEPT !.ready = b]]))
SetRing(r) == WriteBar(status, select,
                       WithQueue([q \in Queues |-> IF queues[q].ready THEN queues[q]
                                                     ELSE [queues[q] EXCEPT !.ring = r]]))

(***************************************************************************)
(* A notification reaches the queue's event through the ioevent or, when   *)
(* none is registered, through write_bar.  The device's worker looks at a  *)
(* ring when its event is signalled, empties it and signals the driver     *)
(* (Interrupt::signal).                                                    *)
(***************************************************************************)
Notify(q) ==
  /\ sleep = "awake" /\ device_activated /\ queues[q].ready /\ held[q] # NoQueue
  /\ work' = work \cup {q} /\ kick' = kick \cup {q}
  /\ UNCHANGED <<common, device_activated, registered, resampler, held, sleeping, signals, history>>

Process(q) ==
  /\ held[q] # NoQueue /\ q \in kick
  /\ kick' = kick \ {q} /\ work' = work \ {q}
  /\ LET kept == IF interrupt = "suspended" THEN work \cap {q} ELSE {}
     IN pending' = pending \cup kept /\ untold' = untold \cup kept
  /\ UNCHANGED <<common, device_activated, registered, resampler, held, sleeping, interrupt, history>>

(***************************************************************************)
(* Suspendable.  The vcpus are stopped while a device sleeps.  A snapshot  *)
(* is of a sleeping device; it is restored into another process, whose own *)
(* device is not activated and may have ioevents of an activation that     *)
(* failed (events), its resample thread and an Interrupt of its own.  The  *)
(* snapshot of an Interrupt has no PmState.                                *)
(***************************************************************************)
Active == held # NoQueues

Sleep ==
  /\ sleep = "awake" /\ Active = device_activated
  /\ sleep' = IF Active THEN "active" ELSE "inactive"
  /\ asleep' = held /\ held' = NoQueues
  /\ UNCHANGED <<common, device_activated, registered, resampler, kick, work, signals, history>>

WakeWith(kept) ==
  /\ sleep # "awake" /\ sleep' = "awake"
  /\ held' = asleep /\ asleep' = kept
  /\ UNCHANGED <<common, device_activated, registered, resampler, kick, work, signals, history>>

WakeKeeping == WakeWith(asleep)

Wake == WakeWith(NoQueues)

\* Every doorbell is signalled: the events' state is not in the snapshot.
SignalNone == {}
RestoredKicks == Queues

Restore(events, thread, own) ==
  /\ sleep # "awake" /\ (events # {} \/ thread => Faults # {})
  /\ thread => own # "none"
  /\ registered' = events \cup Ready(queues)
  /\ resampler' = (thread \/ interrupt # "none")
  /\ interrupt' = IF interrupt # "none" THEN "running" ELSE own
  /\ pending' = {}
  /\ forgot' = (forgot \/ (interrupt # "none" /\ "suspend" \in status))
  /\ kick' = RestoredKicks
  /\ UNCHANGED <<common, device_activated, held, work, sleeping, untold, partial, rewritten>>

Next ==
  \/ \E s \in DriverStatuses : WriteStatus(s)
  \/ \E i \in 0 .. NumQueues : WriteSelect(i)
  \/ \E b \in BOOLEAN : SetReady(b)
  \/ \E r \in Rings : SetRing(r)
  \/ \E q \in Queues : Notify(q) \/ Process(q)
  \/ Sleep \/ Wake
  \/ \E events \in SUBSET Queues, thread \in BOOLEAN, own \in {"none", "running", "suspended"} :
       Restore(events, thread, own)

Spec == Init /\ [][Next]_vars

\* The device's worker runs, and what was put to sleep is woken.
FairSpec == Spec /\ WF_vars(Wake) /\ \A q \in Queues : SF_vars(Process(q))

-----------------------------------------------------------------------------
Has(q) == held[q] # NoQueue \/ asleep[q] # NoQueue
RingOf(q) == IF held[q] # NoQueue THEN held[q] ELSE asleep[q]

(* A device that is activated, and no other, has queues.  Each is one      *)
(* whose configuration says so, and, unless the driver disabled it in the  *)
(* meantime, has the ring that is configured; the resample thread runs.    *)
(* Unless an activation failed halfway, no queue is marked activated that  *)
(* the device does not have.  No queue is held twice, by the worker and by *)
(* the sleep state (activate, sleep, wake, restore, write_bar, set_ready   *)
(* and the setters, which ignore a ready queue).                           *)
HeldAccounted ==
  /\ \A q \in Queues : Has(q) =>
       /\ device_activated /\ queues[q].activated /\ resampler
       /\ q \notin rewritten => queues[q].ready /\ RingOf(q) = queues[q].ring
  /\ ~partial => \A q \in Queues : queues[q].activated => Has(q)
  /\ Active => sleep = "awake" /\ asleep = NoQueues

(* "A suspended virtio device MUST NOT send notifications ... to the       *)
(* driver.  These are deferred": the Interrupt of an activated device      *)
(* knows that the driver suspended it, what the device raised in the       *)
(* meantime is kept back and all of it is sent when the driver resumes it, *)
(* over sleep and wake (write_bar, PmState).  Not so after an Interrupt    *)
(* was made for a device that is suspended, by a restore or by activating  *)
(* it: the new one does not know (forgot).                                 *)
InterruptsDeferred ==
  /\ interrupt # "suspended" => pending = {}
  /\ ~forgot =>
       /\ device_activated => (interrupt = "suspended" <=> "suspend" \in status)
       /\ untold \subseteq pending

(* The device's worker comes to every ring the driver notified, over sleep *)
(* and restore ("There might be data in the queue that wasn't drained").   *)
WorkDone == \A q \in Queues : q \in work ~> q \notin work
=============================================================================
