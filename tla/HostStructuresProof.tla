------------------------ MODULE HostStructuresProof ------------------------
(***************************************************************************)
(* Theorems about three structures of crosvm, each on its own.  Those      *)
(* with a prefix are instantiated just before their section.               *)
(*                                                                         *)
(* VirtioPciTransport: for any number of queues, any rings and any set of  *)
(* faults, the queues of a device are accounted for, no notification is    *)
(* lost, and the interrupts of a suspended device are kept back.           *)
(*                                                                         *)
(* CasefoldCache, instantiated as C: for any number of workers,            *)
(* directories and names, a cache that is up to date stays so, and a       *)
(* lookup that goes through it misses no file.                             *)
(*                                                                         *)
(* RwLock, instantiated as L: mutual exclusion, of its data and of its     *)
(* waiter list, for any finite set of tasks, any threshold and any         *)
(* dropping of futures.                                                    *)
(***************************************************************************)
EXTENDS VirtioPciTransport, TLAPS

---------------------------------------------------------------------------
(* The virtio PCI transport.                                               *)

AnyRing == Rings \cup {ZeroRing}
QueueConfig == [ready : BOOLEAN, activated : BOOLEAN, ring : AnyRing]

TypeOK ==
  /\ queues \in [Queues -> QueueConfig]
  /\ held \in [Queues -> AnyRing \cup {NoQueue}]
  /\ asleep \in [Queues -> AnyRing \cup {NoQueue}]
  /\ resampler \in BOOLEAN
  /\ work \subseteq Queues

(* The queues of a device sit in one place: with its worker while it is    *)
(* awake, in the sleep state otherwise.                                    *)
OnePlace ==
  /\ sleep = "awake" => asleep = NoQueues
  /\ sleep # "awake" => held = NoQueues

(* A ring with entries the device has not looked at has its event          *)
(* signalled, and the device has the ring, awake or in its sleep state:    *)
(* neither sleep, wake nor a restore without the events' state lose a      *)
(* notification (Suspendable of VirtioPciDevice).                          *)
NoNotificationLost ==
  \A q \in work : q \in kick /\ (held[q] # NoQueue \/ asleep[q] # NoQueue)

(* The queues' half of the inductive invariant.  OnePlace is what          *)
(* HeldAccounted lacks: without it a reset could leave rings behind in the *)
(* sleep state.                                                            *)
HeldInv ==
  /\ TypeOK
  /\ OnePlace
  /\ HeldAccounted
  /\ NoNotificationLost

(* Its other half, about the Interrupt: an activated device has one, which *)
(* is never suspended without the driver's wish, and a device that is not  *)
(* activated has raised nothing.                                           *)
SignalInv ==
  /\ InterruptsDeferred
  /\ device_activated => interrupt # "none"
  /\ device_activated /\ interrupt = "suspended" => "suspend" \in status
  /\ ~device_activated => untold = {} /\ pending = {}

IInv == HeldInv /\ SignalInv

(* A new device satisfies the invariant.                                   *)
LEMMA InitInv == Init => IInv
<1> SUFFICES ASSUME Init PROVE IInv
  OBVIOUS
<1>1. TypeOK
  BY Zenon DEF Init, TypeOK, NoQueues, Clean, QueueConfig, AnyRing
<1>2. OnePlace /\ NoNotificationLost
  BY DEF Init, OnePlace, NoNotificationLost
<1>3. HeldAccounted
  BY DEF Init, HeldAccounted, Has, Clean, NoQueues, Active
<1>4. SignalInv
  BY DEF Init, SignalInv, InterruptsDeferred
<1> QED
  BY <1>1, <1>2, <1>3, <1>4 DEF IInv, HeldInv

(* A device that is not activated has no queues, and none is notified.     *)
LEMMA InactiveEmpty ==
    ASSUME HeldInv, ~device_activated
    PROVE  held = NoQueues /\ asleep = NoQueues /\ work = {}
<1>1. \A q \in Queues : held[q] = NoQueue /\ asleep[q] = NoQueue
  BY DEF HeldInv, HeldAccounted, Has
<1>2. held = NoQueues /\ asleep = NoQueues
  BY <1>1 DEF HeldInv, TypeOK, NoQueues
<1> QED
  BY <1>1, <1>2 DEF HeldInv, TypeOK, NoNotificationLost

-----------------------------------------------------------------------------
(* activate runs on a device without queues, and either none or those that *)
(* it activated are held afterwards.                                       *)
LEMMA ActivateStep ==
    ASSUME HeldInv, NEW s, NEW qs \in [Queues -> QueueConfig],
           \A q \in Queues : qs[q].activated = queues[q].activated,
           sleep = "awake", ~device_activated, Activate(s, qs), UNCHANGED <<sleeping>>
    PROVE  HeldInv'
<1>1. held = NoQueues /\ asleep = NoQueues /\ work = {}
  BY InactiveEmpty
<1>2. PICK done \in SUBSET Ready(qs), runs \in BOOLEAN :
        /\ resampler' = TRUE
        /\ queues' = [q \in Queues |-> [qs[q] EXCEPT !.activated = @ \/ q \in done]]
        /\ device_activated' = runs
        /\ held' = IF runs THEN [q \in Queues |-> IF q \in done THEN qs[q].ring ELSE NoQueue]
                           ELSE held
        /\ partial' = (partial \/ (~runs /\ done # {}))
        /\ UNCHANGED <<kick, work>>
  <2>1. PICK fault \in ActivateFaults :
          LET bad == Bad(qs, fault)
              done == {q \in Ready(qs) : \A b \in bad : q < b}
              runs == bad = {} /\ fault # <<"device">> /\ Ready(qs) # {}
          IN /\ resampler' = TRUE
             /\ queues' = [q \in Queues |-> [qs[q] EXCEPT !.activated = @ \/ q \in done]]
             /\ device_activated' = runs
             /\ held' = IF runs THEN [q \in Queues |-> IF q \in done THEN qs[q].ring ELSE NoQueue]
                                ELSE held
             /\ partial' = (partial \/ (~runs /\ done # {}))
             /\ UNCHANGED <<kick, work>>
    BY Zenon DEF Activate
  <2> QED
    BY Zenon, <2>1
<1> HIDE DEF Ready
<1>3. done \subseteq Queues /\ \A q \in done : qs[q].ready
  BY DEF Ready
<1>4. queues' \in [Queues -> QueueConfig]
  BY Zenon, <1>2 DEF QueueConfig
<1>5. \A q \in Queues : /\ queues'[q].activated = (qs[q].activated \/ q \in done)
                        /\ queues'[q].ready = qs[q].ready /\ queues'[q].ring = qs[q].ring
  BY Zenon, <1>2 DEF QueueConfig
<1>6. held' \in [Queues -> AnyRing \cup {NoQueue}]
  BY <1>2 DEF QueueConfig, HeldInv, TypeOK
<1>7. \A q \in Queues : /\ held'[q] # NoQueue => device_activated' /\ q \in done /\ held'[q] = qs[q].ring
                        /\ device_activated' /\ q \in done => held'[q] # NoQueue
  BY <1>1, <1>2, RingsAssumption DEF NoQueues, QueueConfig, AnyRing
<1>8. TypeOK'
  BY <1>2, <1>4, <1>6 DEF HeldInv, TypeOK, sleeping
<1>9. OnePlace'
  BY <1>1 DEF OnePlace, sleeping, NoQueues
<1>10. sleep' = "awake" /\ asleep' = NoQueues
  BY <1>1 DEF sleeping, NoQueues
<1>11. ~partial' => \A q \in Queues : queues'[q].activated => held'[q] # NoQueue
  <2>1. ~partial => \A q \in Queues : ~qs[q].activated
    BY <1>1 DEF HeldInv, HeldAccounted, Has, NoQueues
  <2> QED
    BY <1>2, <1>5, <1>7, <2>1
<1>12. HeldAccounted'
  <2>1. \A q \in Queues : asleep'[q] = NoQueue
    BY <1>10 DEF NoQueues
  <2>2. ASSUME NEW q \in Queues, Has(q)'
        PROVE  /\ device_activated' /\ queues'[q].activated /\ resampler'
               /\ queues'[q].ready /\ RingOf(q)' = queues'[q].ring
    <3>1. held'[q] # NoQueue
      BY <2>1, <2>2 DEF Has
    <3>2. q \in done /\ device_activated' /\ held'[q] = qs[q].ring
      BY Zenon, <1>7, <3>1
    <3>3. queues'[q].ready /\ queues'[q].activated
      BY Zenon, <1>3, <1>5, <3>2
    <3> QED
      BY <1>2, <1>5, <3>1, <3>2, <3>3 DEF RingOf
  <2>3. ~partial' => \A q \in Queues : queues'[q].activated => Has(q)'
    BY Zenon, <1>11 DEF Has
  <2> QED
    BY Zenon, <1>10, <2>2, <2>3 DEF HeldAccounted
<1>13. NoNotificationLost'
  BY <1>1, <1>2 DEF NoNotificationLost
<1> QED
  BY <1>8, <1>9, <1>12, <1>13 DEF HeldInv

(* A reset takes the queues back from the worker.                          *)
LEMMA ResetStep ==
    ASSUME HeldInv, sleep = "awake", ResetDevice, UNCHANGED <<sleeping>>
    PROVE  HeldInv'
<1>1. /\ device_activated' = FALSE /\ queues' = [q \in Queues |-> Clean] /\ resampler' = FALSE
      /\ held' = NoQueues /\ work' = {} /\ sleep' = "awake" /\ asleep' = NoQueues
  BY DEF ResetDevice, QueueReset, sleeping, HeldInv, OnePlace
<1>2. TypeOK'
  BY Zenon, <1>1 DEF TypeOK, Clean, QueueConfig, AnyRing, NoQueues
<1>3. OnePlace' /\ HeldAccounted' /\ NoNotificationLost'
  BY <1>1 DEF OnePlace, HeldAccounted, NoNotificationLost, NoQueues, Active, Has, Clean
<1> QED
  BY <1>2, <1>3 DEF HeldInv

(* A write of a register, which changes no queue's activation by itself.   *)
LEMMA WriteBarStep ==
    ASSUME HeldInv, NEW s, NEW i, NEW qs \in [Queues -> QueueConfig],
           \A q \in Queues : qs[q].activated = queues[q].activated,
           \A q \in Queues : queues[q].ready /\ qs[q].ready => qs[q].ring = queues[q].ring,
           WriteBar(s, i, qs)
    PROVE  HeldInv'
<1>1. CASE ~device_activated /\ Activate(s, qs)
  BY <1>1, ActivateStep DEF WriteBar
<1>2. CASE ResetDevice
  BY <1>2, ResetStep DEF WriteBar
<1>3. CASE /\ queues' = qs /\ UNCHANGED <<device_activated, registered, resampler, worker, partial, forgot>>
           /\ rewritten' = rewritten \cup {q \in Queues : held[q] # NoQueue /\ ~qs[q].ready}
  <2>1. UNCHANGED <<device_activated, resampler, held, kick, work, sleep, asleep, partial>>
    BY <1>3 DEF WriteBar, worker, sleeping
  <2>2. TypeOK'
    BY <1>3, <2>1 DEF HeldInv, TypeOK
  <2>3. OnePlace' /\ NoNotificationLost'
    BY <2>1 DEF HeldInv, OnePlace, NoNotificationLost, NoQueues
  <2>4. HeldAccounted'
    <3>1. \A q \in Queues : asleep[q] = NoQueue
      BY DEF WriteBar, HeldInv, OnePlace, NoQueues
    <3> QED
      BY <1>3, <2>1, <3>1 DEF HeldInv, HeldAccounted, Active, NoQueues, Has, RingOf
  <2> QED
    BY <2>2, <2>3, <2>4 DEF HeldInv
<1> QED
  BY Zenon, <1>1, <1>2, <1>3 DEF WriteBar

(* Writes of common configuration registers, with activation and reset.    *)
LEMMA RegisterSteps ==
    ASSUME HeldInv,
           \/ \E s \in DriverStatuses : WriteStatus(s)
           \/ \E i \in 0 .. NumQueues : WriteSelect(i)
           \/ \E b \in BOOLEAN : SetReady(b)
           \/ \E r \in Rings : SetRing(r)
    PROVE  HeldInv'
<1> USE DEF HeldInv, TypeOK
<1>1. CASE \E s \in DriverStatuses : WriteStatus(s)
  BY <1>1, WriteBarStep DEF WriteStatus
<1>2. CASE \E i \in 0 .. NumQueues : WriteSelect(i)
  BY <1>2, WriteBarStep DEF WriteSelect
<1>3. CASE \E b \in BOOLEAN : SetReady(b)
  <2>1. PICK b \in BOOLEAN : SetReady(b)
    BY <1>3
  <2> DEFINE qs == WithQueue([q \in Queues |-> [queues[q] EXCEPT !.ready = b]])
  <2>2. /\ qs \in [Queues -> QueueConfig]
        /\ \A q \in Queues : qs[q].activated = queues[q].activated
        /\ \A q \in Queues : queues[q].ready /\ qs[q].ready => qs[q].ring = queues[q].ring
    BY DEF WithQueue, QueueConfig
  <2>3. WriteBar(status, select, qs)
    BY <2>1 DEF SetReady
  <2> HIDE DEF qs
  <2> QED
    BY <2>2, <2>3, WriteBarStep
<1>4. CASE \E r \in Rings : SetRing(r)
  <2>1. PICK r \in Rings : SetRing(r)
    BY <1>4
  <2> DEFINE qs == WithQueue([q \in Queues |-> IF queues[q].ready THEN queues[q]
                                               ELSE [queues[q] EXCEPT !.ring = r]])
  <2>2. /\ qs \in [Queues -> QueueConfig]
        /\ \A q \in Queues : qs[q].activated = queues[q].activated
        /\ \A q \in Queues : queues[q].ready /\ qs[q].ready => qs[q].ring = queues[q].ring
    BY DEF WithQueue, QueueConfig, AnyRing
  <2>3. WriteBar(status, select, qs)
    BY <2>1 DEF SetRing
  <2> HIDE DEF qs
  <2> QED
    BY <2>2, <2>3, WriteBarStep
<1> QED
  BY <1>1, <1>2, <1>3, <1>4

(* The notifications and the worker.                                       *)
LEMMA WorkerStep ==
    ASSUME HeldInv, NEW q \in Queues, Notify(q) \/ Process(q)
    PROVE  HeldInv'
<1>1. /\ UNCHANGED <<queues, device_activated, resampler, held, sleep, asleep, partial, rewritten>>
      /\ work' \subseteq Queues
  BY DEF Notify, Process, common, sleeping, history, HeldInv, TypeOK
<1>2. TypeOK' /\ OnePlace' /\ HeldAccounted'
  BY <1>1 DEF HeldInv, TypeOK, OnePlace, HeldAccounted, Active, NoQueues, Has, RingOf
<1>3. NoNotificationLost'
  BY DEF Notify, Process, sleeping, HeldInv, NoNotificationLost
<1> QED
  BY <1>2, <1>3 DEF HeldInv

RestoreSome ==
  \E events \in SUBSET Queues, thread \in BOOLEAN, own \in {"none", "running", "suspended"} :
    Restore(events, thread, own)

(* Sleep moves the rings into the sleep state, Wake moves them back.       *)
LEMMA SuspendStep ==
    ASSUME IInv, Sleep \/ Wake \/ RestoreSome
    PROVE  HeldInv'
<1>0. HeldInv /\ (device_activated => interrupt # "none")
  BY DEF IInv, SignalInv
<1>1. CASE Sleep
  <2>1. /\ UNCHANGED <<queues, device_activated, resampler, kick, work, partial, rewritten>>
        /\ sleep' # "awake" /\ asleep' = held /\ held' = NoQueues /\ sleep = "awake"
    BY <1>1 DEF Sleep, common, history
  <2>2. asleep = NoQueues
    BY <1>0, <2>1 DEF HeldInv, OnePlace
  <2>3. TypeOK' /\ OnePlace'
    BY <1>0, <2>1 DEF HeldInv, TypeOK, OnePlace, NoQueues
  <2>4. HeldAccounted' /\ NoNotificationLost'
    BY <1>0, <2>1, <2>2 DEF HeldInv, TypeOK, HeldAccounted, NoNotificationLost, Active, NoQueues, Has, RingOf
  <2> QED
    BY <2>3, <2>4 DEF HeldInv
<1>2. CASE Wake
  <2>1. /\ UNCHANGED <<queues, device_activated, resampler, kick, work, partial, rewritten>>
        /\ sleep' = "awake" /\ held' = asleep /\ asleep' = NoQueues /\ sleep # "awake"
    BY <1>2 DEF Wake, WakeWith, common, history
  <2>2. held = NoQueues
    BY <1>0, <2>1 DEF HeldInv, OnePlace
  <2>3. TypeOK' /\ OnePlace'
    BY <1>0, <2>1 DEF HeldInv, TypeOK, OnePlace, NoQueues
  <2>4. HeldAccounted' /\ NoNotificationLost'
    BY <1>0, <2>1, <2>2 DEF HeldInv, TypeOK, HeldAccounted, NoNotificationLost, Active, NoQueues, Has, RingOf
  <2> QED
    BY <2>3, <2>4 DEF HeldInv
<1>3. CASE RestoreSome
  <2>1. /\ UNCHANGED <<queues, device_activated, held, work, sleep, asleep, partial, rewritten>>
        /\ kick' = Queues /\ resampler' \in BOOLEAN /\ (interrupt # "none" => resampler')
    BY Zenon, <1>3 DEF RestoreSome, Restore, RestoredKicks, common, sleeping
  <2>2. TypeOK' /\ OnePlace'
    BY <1>0, <2>1 DEF HeldInv, TypeOK, OnePlace, NoQueues
  <2>3. HeldAccounted' /\ NoNotificationLost'
    BY <1>0, <2>1 DEF HeldInv, TypeOK, HeldAccounted, NoNotificationLost, Active, NoQueues, Has, RingOf
  <2> QED
    BY <2>2, <2>3 DEF HeldInv
<1> QED
  BY <1>1, <1>2, <1>3

-----------------------------------------------------------------------------
(* A write of a register tells the Interrupt what the driver wants of it,  *)
(* sends what was kept back when the device resumes, and a reset drops     *)
(* what the driver was not told.                                           *)
LEMMA WriteSignals ==
    ASSUME SignalInv, NEW s, NEW i, NEW qs, WriteBar(s, i, qs)
    PROVE  SignalInv'
<1>1. CASE /\ ~device_activated /\ Activate(s, qs) /\ SetSuspended(s, TRUE)
           /\ untold' = Told(s) /\ forgot' = ("suspend" \in s /\ ~Suspends(s))
  <2>1. "suspend" \in status' <=> "suspend" \in s
    BY <1>1 DEF Activate
  <2>2. untold = {}
    BY Zenon, <1>1 DEF SignalInv
  <2>3. /\ Suspends(s) => interrupt' = "suspended"
        /\ ~Suspends(s) => interrupt' = "running"
    BY Zenon, <1>1 DEF SetSuspended
  <2>4. pending' = {} /\ untold' = {}
    BY <1>1, <2>2 DEF SetSuspended, Told
  <2>5. ~forgot' => (Suspends(s) <=> "suspend" \in s)
    BY Zenon, <1>1 DEF Suspends
  <2>6. interrupt' # "none" /\ (interrupt' = "suspended" <=> Suspends(s))
    BY <2>3
  <2>7. Suspends(s) => "suspend" \in status'
    BY Zenon, <2>1 DEF Suspends
  <2>8. InterruptsDeferred'
    <3>1. ~forgot' => (interrupt' = "suspended" <=> "suspend" \in status')
      BY Zenon, <2>1, <2>5, <2>6
    <3> QED
      BY Zenon, <3>1, <2>4 DEF InterruptsDeferred
  <2>9. interrupt' = "suspended" => "suspend" \in status'
    BY Zenon, <2>6, <2>7
  <2> QED
    BY Zenon, <2>4, <2>6, <2>8, <2>9 DEF SignalInv
<1>2. CASE /\ device_activated /\ s = {} /\ ResetDevice /\ SetSuspended(s, FALSE)
           /\ untold' = {} /\ forgot' = FALSE
  <2>1. ~device_activated' /\ ~Suspends(s)
    BY <1>2 DEF ResetDevice, Suspends
  <2>2. Resumes(s) \/ interrupt # "suspended"
    BY <1>2 DEF Resumes, SignalInv
  <2>3. pending' = {}
    BY <1>2, <2>2 DEF SetSuspended, SignalInv, InterruptsDeferred
  <2> QED
    BY Zenon, <1>2, <2>1, <2>3 DEF SignalInv, InterruptsDeferred
<1>3. CASE /\ status' = s /\ SetSuspended(s, FALSE) /\ untold' = Told(s)
           /\ UNCHANGED <<device_activated, forgot>>
  <2>1. (device_activated' <=> device_activated) /\ (forgot' <=> forgot)
    BY Zenon, <1>3
  <2>2. /\ status' = s
        /\ interrupt = "none" => interrupt' = "none"
        /\ interrupt # "none" /\ Suspends(s) => interrupt' = "suspended"
        /\ interrupt # "none" /\ Resumes(s) => interrupt' = "running"
        /\ ~Suspends(s) /\ ~Resumes(s) => interrupt' = interrupt
    BY Zenon, <1>3 DEF SetSuspended, Suspends, Resumes
  <2>3. /\ Resumes(s) => pending' = {} /\ untold' = untold \ pending
        /\ ~Resumes(s) => pending' = pending /\ untold' = untold
    BY SMTT(30), <1>3 DEF SetSuspended, Told
  <2>4. interrupt' # "suspended" => pending' = {}
    BY <2>2, <2>3 DEF SignalInv, InterruptsDeferred
  <2>5. ~forgot' => untold' \subseteq pending'
    BY <2>1, <2>3 DEF SignalInv, InterruptsDeferred
  <2>6. device_activated' => /\ interrupt' # "none"
                             /\ interrupt' = "suspended" => "suspend" \in status'
                             /\ ~forgot' => (interrupt' = "suspended" <=> "suspend" \in status')
    BY <2>1, <2>2 DEF SignalInv, InterruptsDeferred, Suspends, Resumes
  <2>7. ~device_activated' => untold' = {} /\ pending' = {}
    BY <2>1, <2>3 DEF SignalInv
  <2> QED
    BY Zenon, <2>4, <2>5, <2>6, <2>7 DEF SignalInv, InterruptsDeferred
<1> QED
  BY Zenon, <1>1, <1>2, <1>3 DEF WriteBar

(* The other steps: the worker raises interrupts, and a restore makes a    *)
(* new Interrupt.                                                          *)
LEMMA SignalStep ==
    ASSUME SignalInv, HeldInv, Next
    PROVE  SignalInv'
<1>1. ASSUME NEW s, NEW i, NEW qs, WriteBar(s, i, qs) PROVE SignalInv'
  BY <1>1, WriteSignals
<1>2. CASE \E q \in Queues : Notify(q) \/ Process(q)
  <2>1. PICK q \in Queues : Notify(q) \/ Process(q)
    BY <1>2
  <2>2. CASE Notify(q)
    BY <2>2 DEF Notify, common, signals, history, SignalInv, InterruptsDeferred
  <2>3. CASE Process(q)
    <3>1. device_activated
      BY <2>3 DEF Process, HeldInv, HeldAccounted, Has
    <3> QED
      BY <2>3, <3>1 DEF Process, common, history, SignalInv, InterruptsDeferred
  <2> QED
    BY <2>1, <2>2, <2>3
<1>3. CASE Sleep \/ Wake
  BY <1>3 DEF Sleep, Wake, WakeWith, common, signals, history, SignalInv, InterruptsDeferred
<1>4. CASE RestoreSome
  <2>1. PICK own \in {"none", "running", "suspended"} :
          /\ interrupt' = IF interrupt # "none" THEN "running" ELSE own
          /\ pending' = {} /\ UNCHANGED <<device_activated, status, untold>>
          /\ forgot' = (forgot \/ (interrupt # "none" /\ "suspend" \in status))
    BY Zenon, <1>4 DEF RestoreSome, Restore, common
  <2>2. (device_activated' <=> device_activated) /\ status' = status /\ untold' = untold /\ pending' = {}
    BY Zenon, <2>1
  <2>3. ~forgot' => ~forgot /\ (interrupt = "none" \/ "suspend" \notin status)
    BY Zenon, <2>1
  <2>4. device_activated' => interrupt' = "running"
    BY <2>1, <2>2 DEF SignalInv
  <2>5. ~forgot' => untold' = {}
    BY <2>2, <2>3 DEF SignalInv, InterruptsDeferred
  <2>6. device_activated /\ ~forgot' => "suspend" \notin status'
    BY <2>2, <2>3 DEF SignalInv
  <2> QED
    BY <2>2, <2>4, <2>5, <2>6 DEF SignalInv, InterruptsDeferred
<1> QED
  BY Zenon, <1>1, <1>2, <1>3, <1>4 DEF Next, RestoreSome, WriteStatus, WriteSelect, SetReady, SetRing

(* Every step preserves the invariant.                                     *)
LEMMA InvStep == IInv /\ [Next]_vars => IInv'
<1> SUFFICES ASSUME IInv, [Next]_vars PROVE IInv'
  OBVIOUS
<1>1. CASE UNCHANGED vars
  <2>1. UNCHANGED <<queues, device_activated, resampler, held, kick, work, sleep, asleep, partial, rewritten>>
    BY <1>1 DEF vars, common, worker, sleeping, history
  <2>2. UNCHANGED <<status, device_activated, interrupt, pending, untold, forgot>>
    BY <1>1 DEF vars, common, signals, history
  <2>3. HeldInv'
    BY <2>1 DEF IInv, HeldInv, TypeOK, OnePlace, HeldAccounted, NoNotificationLost, Active, NoQueues, Has, RingOf
  <2>4. SignalInv'
    BY <2>2 DEF IInv, SignalInv, InterruptsDeferred
  <2> QED
    BY <2>3, <2>4 DEF IInv
<1>2. CASE Next
  <2>1. HeldInv'
    BY <1>2, RegisterSteps, WorkerStep, SuspendStep DEF Next, IInv, RestoreSome
  <2> QED
    BY <1>2, <2>1, SignalStep DEF IInv
<1> QED
  BY <1>1, <1>2

-----------------------------------------------------------------------------
(* The device runs on a queue only while it is activated, on one whose     *)
(* configuration says so, in the ring that is configured unless the driver *)
(* disabled it, and never on one that the sleep state also has: for any    *)
(* queues, faults and driver.                                              *)
THEOREM HeldQueuesAccounted == Spec => []HeldAccounted
<1>1. IInv => HeldAccounted
  BY DEF IInv, HeldInv
<1> QED
  BY <1>1, InitInv, InvStep, PTL DEF Spec

(* A ring that waits for the device keeps its signalled event and its      *)
(* place in the device over activation faults, sleep, wake and restore:    *)
(* what WorkDone needs of safety.                                          *)
THEOREM NotificationsKept == Spec => []NoNotificationLost
<1>1. IInv => NoNotificationLost
  BY DEF IInv, HeldInv
<1> QED
  BY <1>1, InitInv, InvStep, PTL DEF Spec

(* The interrupts of a suspended device are kept back and all are sent     *)
(* when it resumes, for any queues, faults, driver and order of sleeps,    *)
(* until an Interrupt is made for a device that is suspended.              *)
THEOREM InterruptsAreDeferred == Spec => []InterruptsDeferred
<1>1. IInv => InterruptsDeferred
  BY DEF IInv, SignalInv
<1> QED
  BY <1>1, InitInv, InvStep, PTL DEF Spec

---------------------------------------------------------------------------
(* Case-insensitive lookups.                                               *)

CONSTANTS Workers, Dirs, Letters, Spellings            \* of CasefoldCache
VARIABLES files, cached, cache, lookup, ambiguous

C == INSTANCE CasefoldCache

Lookups ==
    [pc : {"idle", "exact", "fold", "again", "found", "missing"},
     d : Dirs \cup {C!NoName}, n : C!Names \cup {C!NoName}, always : SUBSET C!Names]

CacheTypeOK ==
    /\ files \in [Dirs -> SUBSET C!Names]
    /\ cached \in SUBSET Dirs
    /\ cache \in [Dirs -> [Letters -> C!Names \cup {C!NoName}]]
    /\ lookup \in [Workers -> Lookups]
    /\ ambiguous \in BOOLEAN

\* No directory has two names that differ only in case.
NamesApart ==
    ~ambiguous => \A d \in Dirs : \A m, n \in files[d] : C!Lower(m) = C!Lower(n) => m = n

\* What a lookup has seen of its directory is still there; the name it takes
\* from the cache is one of these, unless all of them are gone.
Seen(r) ==
    C!Looking(r) =>
        /\ r.d \in Dirs /\ r.n \in C!Names
        /\ ~ambiguous =>
             /\ r.always \subseteq C!Like(files[r.d], C!Lower(r.n))
             /\ r.pc = "again" /\ r.always # {} => r.n \in r.always

LookupsSee == \A w \in Workers : Seen(lookup[w])

CacheInv ==
    /\ CacheTypeOK
    /\ NamesApart
    /\ C!CacheExhaustive
    /\ LookupsSee
    /\ C!LookupFinds

---------------------------------------------------------------------------
\* Lower-casing a name gives a letter, and no name is the cache's "none".
LEMMA NameFacts == \A n \in C!Names : C!Lower(n) \in Letters /\ n # C!NoName
  BY DEF C!Names, C!Lower, C!NoName

\* The empty share satisfies the invariant.
LEMMA CacheInitInv == C!Init => CacheInv
  <1> SUFFICES ASSUME C!Init PROVE CacheInv
    OBVIOUS
  <1>1. C!Idle \in Lookups BY DEF C!Idle, Lookups
  <1>2. C!Idle.pc = "idle" BY DEF C!Idle
  <1>3. CacheTypeOK BY Zenon, <1>1 DEF C!Init, CacheTypeOK, C!Empty
  <1>4. NamesApart BY DEF C!Init, NamesApart
  <1>5. C!CacheExhaustive BY DEF C!Init, C!CacheExhaustive
  <1>6. LookupsSee BY <1>2 DEF C!Init, LookupsSee, Seen, C!Looking
  <1>7. C!LookupFinds BY <1>2 DEF C!Init, C!LookupFinds
  <1> QED BY <1>3, <1>4, <1>5, <1>6, <1>7 DEF CacheInv

\* A change of the directories leaves every lookup what it saw and is still
\* there, so the facts about lookups survive any such change that keeps names
\* apart.
LEMMA WitnessStep ==
  ASSUME CacheInv, files' \in [Dirs -> SUBSET C!Names], lookup' = C!Witness(files'),
         ambiguous' \in BOOLEAN, ambiguous => ambiguous', NamesApart
  PROVE  /\ lookup' \in [Workers -> Lookups]
         /\ LookupsSee'
         /\ C!LookupFinds'
  <1>1. ASSUME NEW w \in Workers
        PROVE  /\ lookup'[w] \in Lookups
               /\ Seen(lookup[w])'
               /\ ~ambiguous' /\ lookup'[w].pc = "missing" => lookup'[w].always = {}
    <2> DEFINE r == lookup[w]
    <2>1. r \in Lookups /\ Seen(r) BY DEF CacheInv, CacheTypeOK, LookupsSee
    <2>2. CASE ~C!Looking(r)
      <3>1. lookup'[w] = r BY <2>2 DEF C!Witness
      <3> QED BY <2>1, <2>2, <3>1 DEF Seen, C!Looking, CacheInv, C!LookupFinds
    <2>3. CASE C!Looking(r)
      <3>1. lookup'[w] = [r EXCEPT !.always = @ \cap files'[r.d]]
        BY <2>3 DEF C!Witness
      <3>2. /\ lookup'[w] \in Lookups
            /\ lookup'[w].pc = r.pc /\ lookup'[w].d = r.d /\ lookup'[w].n = r.n
            /\ lookup'[w].always = r.always \cap files'[r.d]
        BY <2>1, <3>1 DEF Lookups
      <3>3. /\ r.d \in Dirs /\ r.n \in C!Names
            /\ ~ambiguous => r.always \subseteq C!Like(files[r.d], C!Lower(r.n))
            /\ ~ambiguous /\ r.pc = "again" /\ r.always # {} => r.n \in r.always
        BY <2>1, <2>3 DEF Seen
      <3>4. ~ambiguous => \A m, n \in r.always : m = n
        BY <3>3 DEF NamesApart, C!Like
      <3>5. C!Looking(lookup'[w]) BY <2>3, <3>2 DEF C!Looking
      <3>6. ~ambiguous' => lookup'[w].always \subseteq C!Like(files'[r.d], C!Lower(r.n))
        BY <3>2, <3>3 DEF C!Like
      <3>7. lookup'[w].pc = "again" /\ ~ambiguous' /\ lookup'[w].always # {}
              => lookup'[w].n \in lookup'[w].always
        BY <3>2, <3>3, <3>4
      <3> QED BY <2>3, <3>2, <3>3, <3>5, <3>6, <3>7 DEF Seen, C!Looking
    <2> QED BY <2>2, <2>3
  <1>2. lookup' \in [Workers -> Lookups]
    BY <1>1 DEF C!Witness
  <1> QED BY <1>1, <1>2 DEF LookupsSee, C!LookupFinds

\* A cache that is up to date stays so when a name is added, up to case a new
\* one, and the cache is told.
LEMMA CacheCreateStep == CacheInv /\ (\E d \in Dirs, n \in C!Names : C!Create(d, n)) => CacheInv'
  <1> SUFFICES ASSUME CacheInv, NEW d \in Dirs, NEW n \in C!Names, C!Create(d, n) PROVE CacheInv'
    OBVIOUS
  <1> USE DEF CacheInv
  <1>1. /\ files' = [files EXCEPT ![d] = @ \cup {n}] /\ cached' = cached
        /\ cache' = C!CacheInsert(cache, d, n)
        /\ ambiguous' = (ambiguous \/ C!Like(files[d], C!Lower(n)) # {})
        /\ lookup' = C!Witness(files')
    BY DEF C!Create
  <1>2. files' \in [Dirs -> SUBSET C!Names] /\ ambiguous' \in BOOLEAN
    BY <1>1 DEF CacheTypeOK
  <1>3. cache' \in [Dirs -> [Letters -> C!Names \cup {C!NoName}]]
    BY <1>1, NameFacts DEF CacheTypeOK, C!CacheInsert
  <1>4. lookup' \in [Workers -> Lookups] /\ LookupsSee' /\ C!LookupFinds'
    BY Zenon, <1>1, <1>2, WitnessStep
  <1>5. NamesApart'
    BY ZenonT(30), <1>1 DEF NamesApart, CacheTypeOK, C!Like
  <1>6. C!CacheExhaustive'
    <2> SUFFICES ASSUME ~ambiguous', NEW e \in cached, NEW l \in Letters
                 PROVE  IF C!Like(files'[e], l) = {} THEN cache'[e][l] = C!NoName
                        ELSE cache'[e][l] \in C!Like(files'[e], l)
      BY Zenon, <1>1 DEF C!CacheExhaustive, C!Agrees
    <2>1. ~ambiguous /\ C!Like(files[d], C!Lower(n)) = {} BY Zenon, <1>1
    <2>2. IF C!Like(files[e], l) = {} THEN cache[e][l] = C!NoName
          ELSE cache[e][l] \in C!Like(files[e], l)
      BY <2>1 DEF C!CacheExhaustive, C!Agrees
    <2>3. e \in Dirs BY DEF CacheTypeOK
    <2>4. CASE e = d /\ l = C!Lower(n)
      <3>1. cache'[e][l] = n BY <1>1, <2>4, <2>3 DEF C!CacheInsert, CacheTypeOK
      <3>2. n \in C!Like(files'[e], l) BY <1>1, <2>4, <2>3 DEF CacheTypeOK, C!Like
      <3> QED BY <3>1, <3>2
    <2>5. CASE ~(e = d /\ l = C!Lower(n))
      <3>1. cache'[e][l] = cache[e][l] BY <1>1, <2>5, <2>3 DEF C!CacheInsert, CacheTypeOK
      <3>2. C!Like(files'[e], l) = C!Like(files[e], l)
        BY <1>1, <2>5, <2>3 DEF CacheTypeOK, C!Like
      <3> QED BY <2>2, <3>1, <3>2
    <2> QED BY <2>4, <2>5
  <1>7. cached' \in SUBSET Dirs BY <1>1 DEF CacheTypeOK
  <1> QED BY <1>2, <1>3, <1>4, <1>5, <1>6, <1>7 DEF CacheTypeOK

\* The same when a name is removed.
LEMMA CacheUnlinkStep == CacheInv /\ (\E d \in Dirs, n \in C!Names : C!Unlink(d, n)) => CacheInv'
  <1> SUFFICES ASSUME CacheInv, NEW d \in Dirs, NEW n \in C!Names, C!Unlink(d, n) PROVE CacheInv'
    OBVIOUS
  <1> USE DEF CacheInv
  <1>1. /\ n \in files[d] /\ files' = [files EXCEPT ![d] = @ \ {n}] /\ cached' = cached
        /\ cache' = C!CacheRemove(cache, d, n)
        /\ ambiguous' = ambiguous
        /\ lookup' = C!Witness(files')
    BY DEF C!Unlink
  <1>2. files' \in [Dirs -> SUBSET C!Names] /\ ambiguous' \in BOOLEAN
    BY <1>1 DEF CacheTypeOK
  <1>3. cache' \in [Dirs -> [Letters -> C!Names \cup {C!NoName}]]
    BY <1>1, NameFacts DEF CacheTypeOK, C!CacheRemove
  <1>4. lookup' \in [Workers -> Lookups] /\ LookupsSee' /\ C!LookupFinds'
    BY Zenon, <1>1, <1>2, WitnessStep
  <1>5. NamesApart'
    BY <1>1 DEF NamesApart, CacheTypeOK
  <1>6. C!CacheExhaustive'
    <2> SUFFICES ASSUME ~ambiguous', NEW e \in cached, NEW l \in Letters
                 PROVE  IF C!Like(files'[e], l) = {} THEN cache'[e][l] = C!NoName
                        ELSE cache'[e][l] \in C!Like(files'[e], l)
      BY Zenon, <1>1 DEF C!CacheExhaustive, C!Agrees
    <2>2. IF C!Like(files[e], l) = {} THEN cache[e][l] = C!NoName
          ELSE cache[e][l] \in C!Like(files[e], l)
      BY <1>1 DEF C!CacheExhaustive, C!Agrees
    <2>3. e \in Dirs BY DEF CacheTypeOK
    <2>4. CASE e = d /\ l = C!Lower(n)
      <3>1. cache'[e][l] = C!NoName BY <1>1, <2>4, <2>3 DEF C!CacheRemove, CacheTypeOK
      <3>2. \A m \in files[d] : C!Lower(m) = C!Lower(n) => m = n
        BY <1>1 DEF NamesApart
      <3>3. C!Like(files'[e], l) = {} BY <1>1, <2>4, <2>3, <3>2 DEF CacheTypeOK, C!Like
      <3> QED BY <3>1, <3>3
    <2>5. CASE ~(e = d /\ l = C!Lower(n))
      <3>1. cache'[e][l] = cache[e][l] BY <1>1, <2>5, <2>3 DEF C!CacheRemove, CacheTypeOK
      <3>2. C!Like(files'[e], l) = C!Like(files[e], l)
        BY <1>1, <2>5, <2>3 DEF CacheTypeOK, C!Like
      <3> QED BY <2>2, <3>1, <3>2
    <2> QED BY <2>4, <2>5
  <1>7. cached' \in SUBSET Dirs BY <1>1 DEF CacheTypeOK
  <1> QED BY <1>2, <1>3, <1>4, <1>5, <1>6, <1>7 DEF CacheTypeOK

\* The same when a name is renamed, to another directory or within one, to a
\* name that is new up to case or over one that is there.
LEMMA CacheRenameStep ==
  CacheInv /\ (\E d, e \in Dirs, n, m \in C!Names : C!Rename(d, n, e, m)) => CacheInv'
  <1> SUFFICES ASSUME CacheInv, NEW d \in Dirs, NEW e \in Dirs, NEW n \in C!Names,
                      NEW m \in C!Names, C!Rename(d, n, e, m)
               PROVE  CacheInv'
    OBVIOUS
  <1> USE DEF CacheInv
  <1> DEFINE gone == [files EXCEPT ![d] = @ \ {n}]
             less == C!CacheRemove(cache, d, n)
  <1>1. /\ n \in files[d] /\ files' = [gone EXCEPT ![e] = @ \cup {m}] /\ cached' = cached
        /\ cache' = C!CacheInsert(less, e, m)
        /\ ambiguous' = (ambiguous \/ C!Like(gone[e] \ {m}, C!Lower(m)) # {})
        /\ lookup' = C!Witness(files')
    BY DEF C!Rename
  <1>g. gone \in [Dirs -> SUBSET C!Names] BY DEF CacheTypeOK
  <1>l. less \in [Dirs -> [Letters -> C!Names \cup {C!NoName}]]
    BY SMTT(30), NameFacts DEF CacheTypeOK, C!CacheRemove
  <1>2. files' \in [Dirs -> SUBSET C!Names] /\ ambiguous' \in BOOLEAN
    BY <1>1, <1>g DEF CacheTypeOK
  <1>3. cache' \in [Dirs -> [Letters -> C!Names \cup {C!NoName}]]
    BY <1>1, <1>l, NameFacts DEF C!CacheInsert
  <1>4. lookup' \in [Workers -> Lookups] /\ LookupsSee' /\ C!LookupFinds'
    BY Zenon, <1>1, <1>2, WitnessStep
  <1>a. ~ambiguous => \A f \in Dirs : \A x, y \in gone[f] : C!Lower(x) = C!Lower(y) => x = y
    BY DEF NamesApart, CacheTypeOK
  <1>5. NamesApart'
    <2> SUFFICES ASSUME ~ambiguous', NEW f \in Dirs, NEW x \in files'[f],
                        NEW y \in files'[f], C!Lower(x) = C!Lower(y)
                 PROVE  x = y
      BY DEF NamesApart
    <2>1. CASE f = e
      <3>1. x \in gone[e] \cup {m} /\ y \in gone[e] \cup {m}
        BY <1>1, <1>g, <2>1
      <3>2. \A z \in gone[e] : C!Lower(z) = C!Lower(m) => z = m
        BY Zenon, <1>1 DEF C!Like
      <3> QED BY Zenon, <1>1, <1>a, <3>1, <3>2
    <2>2. CASE f # e
      <3>1. x \in gone[f] /\ y \in gone[f]
        BY <1>1, <1>g, <2>2
      <3> QED BY Zenon, <1>1, <1>a, <3>1
    <2> QED BY <2>1, <2>2
  <1>6. C!CacheExhaustive'
    <2> SUFFICES ASSUME ~ambiguous', NEW f \in cached, NEW l \in Letters
                 PROVE  IF C!Like(files'[f], l) = {} THEN cache'[f][l] = C!NoName
                        ELSE cache'[f][l] \in C!Like(files'[f], l)
      BY Zenon, <1>1 DEF C!CacheExhaustive, C!Agrees
    <2>1. ~ambiguous BY Zenon, <1>1
    <2>2. IF C!Like(files[f], l) = {} THEN cache[f][l] = C!NoName
          ELSE cache[f][l] \in C!Like(files[f], l)
      BY <2>1 DEF C!CacheExhaustive, C!Agrees
    <2>3. f \in Dirs BY DEF CacheTypeOK
    <2>4. IF C!Like(gone[f], l) = {} THEN less[f][l] = C!NoName
          ELSE less[f][l] \in C!Like(gone[f], l)
      <3>1. CASE f = d /\ l = C!Lower(n)
        <4>1. less[f][l] = C!NoName BY <3>1, <2>3 DEF C!CacheRemove, CacheTypeOK
        <4>2. \A x \in files[d] : C!Lower(x) = C!Lower(n) => x = n
          BY <1>1, <2>1 DEF NamesApart
        <4>3. C!Like(gone[f], l) = {} BY <3>1, <2>3, <4>2 DEF CacheTypeOK, C!Like
        <4> QED BY <4>1, <4>3
      <3>2. CASE ~(f = d /\ l = C!Lower(n))
        <4>1. less[f][l] = cache[f][l] BY <3>2, <2>3 DEF C!CacheRemove, CacheTypeOK
        <4>2. C!Like(gone[f], l) = C!Like(files[f], l) BY <3>2, <2>3 DEF CacheTypeOK, C!Like
        <4> QED BY <2>2, <4>1, <4>2
      <3> QED BY <3>1, <3>2
    <2>5. CASE f = e /\ l = C!Lower(m)
      <3>1. cache'[f][l] = m BY <1>1, <1>l, <2>5, <2>3 DEF C!CacheInsert
      <3>2. m \in C!Like(files'[f], l) BY <1>1, <1>g, <2>5, <2>3 DEF C!Like
      <3> QED BY <3>1, <3>2
    <2>6. CASE ~(f = e /\ l = C!Lower(m))
      <3>1. cache'[f][l] = less[f][l] BY <1>1, <1>l, <2>6, <2>3 DEF C!CacheInsert
      <3>2. C!Like(files'[f], l) = C!Like(gone[f], l) BY <1>1, <1>g, <2>6, <2>3 DEF C!Like
      <3> QED BY <2>4, <3>1, <3>2
    <2> QED BY <2>5, <2>6
  <1>7. cached' \in SUBSET Dirs BY <1>1 DEF CacheTypeOK
  <1> QED BY <1>2, <1>3, <1>4, <1>5, <1>6, <1>7 DEF CacheTypeOK

\* After a rename in place nothing more is claimed; a cache that is dropped is gone.
LEMMA CacheOtherStep ==
  CacheInv /\ (\/ \E d, e \in Dirs, n, m \in C!Names : C!RenameInPlace(d, n, e, m)
               \/ \E d \in Dirs : C!Drop(d)
               \/ UNCHANGED C!vars) => CacheInv'
  <1> USE DEF CacheInv, CacheTypeOK
  <1>1. ASSUME CacheInv, NEW d \in Dirs, NEW e \in Dirs, NEW n \in C!Names, NEW m \in C!Names,
               C!RenameInPlace(d, n, e, m)
        PROVE  CacheInv'
    <2>1. cache' = C!CacheInsert(C!CacheRemove(cache, d, n), e, m) /\ ambiguous' = TRUE
          /\ UNCHANGED <<files, cached, lookup>>
      BY <1>1 DEF C!RenameInPlace
    <2>2. C!CacheRemove(cache, d, n) \in [Dirs -> [Letters -> C!Names \cup {C!NoName}]]
      BY <1>1, NameFacts DEF C!CacheRemove
    <2>3. cache' \in [Dirs -> [Letters -> C!Names \cup {C!NoName}]]
      BY <1>1, <2>1, <2>2, NameFacts DEF C!CacheInsert
    <2>4. LookupsSee' BY ZenonT(30), <1>1, <2>1 DEF LookupsSee, Seen
    <2> QED BY <1>1, <2>1, <2>3, <2>4 DEF NamesApart, C!CacheExhaustive, C!LookupFinds
  <1>2. ASSUME CacheInv, NEW d \in Dirs, C!Drop(d) PROVE CacheInv'
    BY Zenon, <1>2 DEF C!Drop, NamesApart, C!CacheExhaustive, C!Agrees, LookupsSee, Seen, C!LookupFinds
  <1>3. ASSUME CacheInv, UNCHANGED C!vars PROVE CacheInv'
    BY Zenon, <1>3 DEF C!vars, NamesApart, C!CacheExhaustive, C!Agrees, LookupsSee, Seen, C!LookupFinds
  <1> QED BY ZenonT(30), <1>1, <1>2, <1>3

\* A step of one worker's lookup that leaves the directories alone keeps the
\* invariant if its new record does what the invariant says of it.
LEMMA OneLookup ==
  ASSUME CacheInv, NEW w \in Workers, NEW r \in Lookups,
         lookup' = [lookup EXCEPT ![w] = r], UNCHANGED <<files, ambiguous>>,
         Seen(r), ~ambiguous /\ r.pc = "missing" => r.always = {}
  PROVE  /\ lookup' \in [Workers -> Lookups]
         /\ LookupsSee' /\ C!LookupFinds' /\ NamesApart'
  <1>1. lookup' \in [Workers -> Lookups] BY DEF CacheInv, CacheTypeOK
  <1>2. \A v \in Workers : lookup'[v] = IF v = w THEN r ELSE lookup[v]
    BY DEF CacheInv, CacheTypeOK
  <1>3. LookupsSee' BY <1>2 DEF CacheInv, LookupsSee, Seen
  <1>4. C!LookupFinds' BY <1>2 DEF CacheInv, C!LookupFinds
  <1> QED BY <1>1, <1>3, <1>4 DEF CacheInv, NamesApart

\* The steps of a lookup.
LEMMA CacheLookupStep ==
  CacheInv /\ (\E w \in Workers : \/ \E d \in Dirs, n \in C!Names : C!StartLookup(w, d, n)
                                  \/ C!Exact(w) \/ C!Unfold(w) \/ C!Again(w)) => CacheInv'
  <1> SUFFICES ASSUME CacheInv, NEW w \in Workers,
                      \/ \E d \in Dirs, n \in C!Names : C!StartLookup(w, d, n)
                      \/ C!Exact(w) \/ C!Unfold(w) \/ C!Again(w)
               PROVE  CacheInv'
    OBVIOUS
  <1> DEFINE r == lookup[w]
  <1>t. r \in Lookups /\ Seen(r) /\ CacheTypeOK /\ C!CacheExhaustive /\ NamesApart
    BY ZenonT(30) DEF CacheInv, CacheTypeOK, LookupsSee
  <1>1. ASSUME NEW d \in Dirs, NEW n \in C!Names, C!StartLookup(w, d, n) PROVE CacheInv'
    <2> DEFINE q == [pc |-> "exact", d |-> d, n |-> n, always |-> C!Like(files[d], C!Lower(n))]
    <2>1. lookup' = [lookup EXCEPT ![w] = q] /\ UNCHANGED <<files, cached, cache, ambiguous>>
      BY <1>1 DEF C!StartLookup
    <2>2. q \in Lookups BY <1>t DEF Lookups, CacheTypeOK, C!Like
    <2>3. Seen(q) BY DEF Seen
    <2>4. lookup' \in [Workers -> Lookups] /\ LookupsSee' /\ C!LookupFinds' /\ NamesApart'
      BY Zenon, <2>1, <2>2, <2>3, OneLookup
    <2> QED BY Zenon, <1>t, <2>1, <2>4 DEF CacheInv, CacheTypeOK, C!CacheExhaustive, C!Agrees
  <1>2. ASSUME C!Exact(w) \/ C!Again(w) PROVE CacheInv'
    <2> DEFINE p == IF r.n \in files[r.d] THEN "found"
                    ELSE IF r.pc = "exact" THEN "fold" ELSE "missing"
               q == [r EXCEPT !.pc = p]
    <2>1. /\ lookup' = [lookup EXCEPT ![w] = q] /\ UNCHANGED <<files, cached, cache, ambiguous>>
          /\ r.pc \in {"exact", "again"}
      BY <1>2, <1>t DEF C!Exact, C!Again, C!Result, CacheTypeOK
    <2>2. q \in Lookups /\ q.pc = p /\ q.d = r.d /\ q.n = r.n /\ q.always = r.always
      BY <1>t DEF Lookups
    <2>3. C!Looking(r) BY <2>1 DEF C!Looking
    <2>4. Seen(q) BY <1>t, <2>2, <2>3 DEF Seen, C!Looking
    <2>5. ~ambiguous /\ q.pc = "missing" => q.always = {}
      BY <1>t, <2>1, <2>2, <2>3 DEF Seen, C!Like
    <2>6. lookup' \in [Workers -> Lookups] /\ LookupsSee' /\ C!LookupFinds' /\ NamesApart'
      BY ZenonT(30), <2>1, <2>2, <2>4, <2>5, OneLookup
    <2> QED BY Zenon, <1>t, <2>1, <2>6 DEF CacheInv, CacheTypeOK, C!CacheExhaustive, C!Agrees
  <1>3. ASSUME C!Unfold(w) PROVE CacheInv'
    <2>1. PICK c \in [Letters -> C!Names \cup {C!NoName}] :
            /\ IF r.d \in cached THEN c = cache[r.d] ELSE C!Agrees(c, r.d)
            /\ cache' = [cache EXCEPT ![r.d] = c]
            /\ lookup' = [lookup EXCEPT ![w] =
                  IF c[C!Lower(r.n)] = C!NoName THEN [r EXCEPT !.pc = "missing"]
                  ELSE [r EXCEPT !.pc = "again", !.n = c[C!Lower(r.n)]]]
      BY Zenon, <1>3, <1>t DEF C!Unfold, CacheTypeOK
    <2>2. r.pc = "fold" /\ cached' = cached \cup {r.d} /\ UNCHANGED <<files, ambiguous>>
      BY ZenonT(30), <1>3 DEF C!Unfold
    <2>3. /\ r.d \in Dirs /\ r.n \in C!Names
          /\ ~ambiguous => r.always \subseteq C!Like(files[r.d], C!Lower(r.n))
      BY <1>t, <2>2 DEF Seen, C!Looking
    <2>4. ~ambiguous => C!Agrees(c, r.d)
      BY <1>t, <2>1 DEF C!CacheExhaustive
    <2> DEFINE k == c[C!Lower(r.n)]
               q == IF k = C!NoName THEN [r EXCEPT !.pc = "missing"]
                    ELSE [r EXCEPT !.pc = "again", !.n = k]
    <2>5. C!Lower(r.n) \in Letters /\ k \in C!Names \cup {C!NoName}
      BY ZenonT(30), <2>1, <2>3, NameFacts
    <2>6. ~ambiguous => IF C!Like(files[r.d], C!Lower(r.n)) = {} THEN k = C!NoName
                        ELSE k \in C!Like(files[r.d], C!Lower(r.n))
      BY <2>4, <2>5 DEF C!Agrees
    <2>7. q \in Lookups /\ q.d = r.d /\ q.always = r.always
          /\ q.pc = (IF k = C!NoName THEN "missing" ELSE "again")
          /\ q.n = (IF k = C!NoName THEN r.n ELSE k)
      BY Zenon, <1>t, <2>5 DEF Lookups
    <2>8. ~ambiguous /\ q.pc = "missing" => q.always = {}
      <3> SUFFICES ASSUME ~ambiguous, q.pc = "missing" PROVE q.always = {}
        OBVIOUS
      <3>1. k = C!NoName BY <2>7
      <3>2. \A x \in C!Like(files[r.d], C!Lower(r.n)) : x \in C!Names
        BY <1>t, <2>3 DEF CacheTypeOK, C!Like
      <3>3. C!Like(files[r.d], C!Lower(r.n)) = {} BY <2>6, <3>1, <3>2, NameFacts
      <3> QED BY <2>3, <2>7, <3>3
    <2>9. Seen(q)
      <3> SUFFICES ASSUME C!Looking(q) PROVE Seen(q)
        BY DEF Seen
      <3>1. k # C!NoName /\ q.n = k /\ k \in C!Names BY <2>5, <2>7 DEF C!Looking
      <3>2. ~ambiguous => k \in C!Like(files[r.d], C!Lower(r.n))
        BY <2>6, <3>1
      <3>3. ~ambiguous => \A x \in r.always : x = k
        BY <1>t, <2>3, <3>2 DEF NamesApart, C!Like
      <3>4. ~ambiguous => C!Lower(k) = C!Lower(r.n) BY <3>2 DEF C!Like
      <3> QED BY <2>3, <2>7, <3>1, <3>3, <3>4 DEF Seen
    <2>10. lookup' \in [Workers -> Lookups] /\ LookupsSee' /\ C!LookupFinds' /\ NamesApart'
      BY Zenon, <2>1, <2>2, <2>7, <2>8, <2>9, OneLookup
    <2>11. C!CacheExhaustive'
      BY Zenon, <1>t, <2>1, <2>2, <2>3, <2>4 DEF C!CacheExhaustive, C!Agrees, CacheTypeOK
    <2> QED BY <1>t, <2>1, <2>2, <2>3, <2>10, <2>11 DEF CacheInv, CacheTypeOK
  <1> QED BY <1>1, <1>2, <1>3

---------------------------------------------------------------------------
(* On every reachable state of a share of any size: a directory's cache    *)
(* agrees with the directory (CasefoldCache), and a lookup misses no file  *)
(* that was there all along (lookup, get_case_unfolded_name), as long as   *)
(* no directory was given two names that differ only in case and no rename *)
(* left its old name in place (RENAME_EXCHANGE, or a rename onto another   *)
(* link of the same file), which takes a name out of the cache.            *)
THEOREM CasefoldSafe == C!Spec => [](C!CacheExhaustive /\ C!LookupFinds)
  <1>1. CacheInv /\ [C!Next]_(C!vars) => CacheInv'
    <2>1. ASSUME CacheInv, C!Next PROVE CacheInv'
      <3>1. CASE \E d \in Dirs, n \in C!Names : C!Create(d, n) BY <2>1, <3>1, CacheCreateStep
      <3>2. CASE \E d \in Dirs, n \in C!Names : C!Unlink(d, n) BY <2>1, <3>2, CacheUnlinkStep
      <3>3. CASE \E d, e \in Dirs, n, m \in C!Names : C!Rename(d, n, e, m)
        BY <2>1, <3>3, CacheRenameStep
      <3>4. CASE \/ \E d, e \in Dirs, n, m \in C!Names : C!RenameInPlace(d, n, e, m)
                 \/ \E d \in Dirs : C!Drop(d)
        BY <2>1, <3>4, CacheOtherStep
      <3>5. CASE \E w \in Workers : \/ \E d \in Dirs, n \in C!Names : C!StartLookup(w, d, n)
                                    \/ C!Exact(w) \/ C!Unfold(w) \/ C!Again(w)
        BY <2>1, <3>5, CacheLookupStep
      <3> QED BY <2>1, <3>1, <3>2, <3>3, <3>4, <3>5 DEF C!Next
    <2>2. ASSUME CacheInv, UNCHANGED C!vars PROVE CacheInv' BY <2>2, CacheOtherStep DEF C!vars
    <2> QED BY <2>1, <2>2
  <1>2. CacheInv => C!CacheExhaustive /\ C!LookupFinds BY DEF CacheInv
  <1> QED BY CacheInitInv, <1>1, <1>2, PTL DEF C!Spec

---------------------------------------------------------------------------
(* The asynchronous reader-writer lock.                                    *)

CONSTANTS Tasks, LongWaitThreshold                     \* of RwLock
VARIABLES state, readers, waiters, pc, kind, clear, zero, waits, taken, woken, wakeNext,
          relSet, relClear, wakeList

L == INSTANCE RwLock

INSTANCE FiniteSetTheorems

LockTyped ==
    /\ state \subseteq L!Flags /\ readers \in Nat
    /\ pc \in [Tasks -> L!PCs] /\ kind \in [Tasks -> L!Kinds]
    /\ clear \in [Tasks -> SUBSET {"LONG_WAIT", "DESIGNATED_WAKER"}]
    /\ zero \in [Tasks -> SUBSET {"LOCKED", "READ_MASK", "WRITER_WAITING", "LONG_WAIT"}]
    /\ relSet \in [Tasks -> SUBSET {"WRITER_WAITING", "LONG_WAIT"}]
    /\ relClear \in [Tasks -> SUBSET (L!Flags \ {"LOCKED"})]

(* Whoever still tries for the lock respects its holders, and whoever is   *)
(* about to release the spin lock clears its bit.                          *)
LockCareful ==
    \A t \in Tasks :
        /\ pc[t] \in {"slow", "enqueued", "waiting"} =>
               /\ "LOCKED" \in zero[t]
               /\ kind[t] = "Exclusive" => "READ_MASK" \in zero[t]
        /\ pc[t] = "release" => "SPINLOCK" \in relClear[t]

LockInv == IsFiniteSet(Tasks) /\ LockTyped /\ LockCareful /\ L!MutualExclusion /\ L!SpinlockExclusive

InSpin(t) == pc[t] \in {"enqueued", "release"}

(* Cardinality is the same operator inside the instance as outside.        *)
LEMMA SameCardinality == \A S : L!Cardinality(S) = Cardinality(S)
  BY SMTT(30) DEF L!Cardinality, Cardinality

(* The holders are finitely many, so that they can be counted.             *)
LEMMA HoldersFinite == LockInv => \A k \in L!Kinds : IsFiniteSet(L!Holders(k))
  BY FS_Subset DEF LockInv, L!Holders

(* A task that takes the lock joins the holders of its kind.               *)
LEMMA AcquireKeepsExclusion ==
  ASSUME LockInv, NEW t \in Tasks, NEW k \in L!Kinds,
         NEW clr \in SUBSET {"LONG_WAIT", "DESIGNATED_WAKER"},
         pc[t] # "holding", ~ InSpin(t),
         "LOCKED" \notin state, k = "Exclusive" => readers = 0,
         L!Acquire(t, k, clr), kind' = [kind EXCEPT ![t] = k]
  PROVE  L!MutualExclusion' /\ L!SpinlockExclusive' /\ state' \subseteq L!Flags /\ readers' \in Nat
<1>. USE DEF L!Kinds
<1>1. L!Holders("Exclusive") = {}
  BY SameCardinality DEF LockInv, L!MutualExclusion
<1>2. pc' = [pc EXCEPT ![t] = "holding"] /\ pc \in [Tasks -> L!PCs] /\ kind \in [Tasks -> L!Kinds]
  BY DEF L!Acquire, LockInv, LockTyped
<1>3. L!Holders(k)' = L!Holders(k) \cup {t} /\ t \notin L!Holders(k)
  BY <1>2 DEF L!Holders
<1>4. \A j \in L!Kinds : j # k => L!Holders(j)' = L!Holders(j)
  BY <1>2 DEF L!Holders
<1>5. state' \subseteq L!Flags /\ ("SPINLOCK" \in state' <=> "SPINLOCK" \in state)
  BY DEF L!Acquire, LockInv, LockTyped, L!Flags, L!ClearOnAcquire
<1>6. L!SpinlockExclusive'
  BY <1>2, <1>5 DEF LockInv, L!SpinlockExclusive, InSpin
<1>7. readers = Cardinality(L!Holders("Shared")) /\ IsFiniteSet(L!Holders("Shared"))
  BY HoldersFinite, SameCardinality DEF LockInv, L!MutualExclusion
<1>8. CASE k = "Exclusive"
  <2>1. L!Holders("Shared") = {}
    BY <1>7, <1>8, FS_EmptySet
  <2>2. readers' = readers /\ "LOCKED" \in state'
    BY <1>8 DEF L!Acquire, L!ClearOnAcquire
  <2>3. L!Holders("Exclusive")' = {t} /\ L!Holders("Shared")' = {}
    BY ZenonT(30), <1>1, <1>3, <1>4, <1>8, <2>1
  <2>4. readers' = 0 /\ Cardinality({}) = 0
    BY ZenonT(30), <1>7, <1>8, <2>2, FS_EmptySet
  <2>5. L!MutualExclusion'
    BY <2>2, <2>3, <2>4, SameCardinality, SMTT(30) DEF L!MutualExclusion
  <2>. QED
    BY <1>5, <1>6, <2>4, <2>5, SMTT(30)
<1>9. CASE k = "Shared"
  <2>1. readers' = readers + 1 /\ "LOCKED" \notin state'
    BY <1>9 DEF L!Acquire
  <2>2. L!Holders("Exclusive")' = {} /\ L!Holders("Shared")' = L!Holders("Shared") \cup {t}
    BY <1>1, <1>3, <1>4, <1>9
  <2>3. Cardinality(L!Holders("Shared") \cup {t}) = Cardinality(L!Holders("Shared")) + 1
    BY Zenon, <1>3, <1>7, <1>9, FS_AddElement
  <2>4. L!MutualExclusion'
    BY ZenonT(30), <1>7, <2>1, <2>2, <2>3, SameCardinality DEF L!MutualExclusion
  <2>5. readers' \in Nat
    BY <2>1 DEF LockInv, LockTyped
  <2>. QED
    BY <1>5, <1>6, <2>4, <2>5
<1>. QED
  BY <1>8, <1>9

(* A step of a task that neither takes nor gives up the lock.              *)
LEMMA HoldersKept ==
  ASSUME LockInv, NEW t \in Tasks, pc[t] # "holding", pc'[t] # "holding",
         pc' = [pc EXCEPT ![t] = pc'[t]],
         \A u \in Tasks : u # t => kind'[u] = kind[u],
         readers' = readers, "LOCKED" \in state' <=> "LOCKED" \in state
  PROVE  L!MutualExclusion'
<1>1. \A u \in Tasks : u # t => pc'[u] = pc[u]
  BY SMTT(30) DEF LockInv, LockTyped
<1>2. \A k \in L!Kinds : L!Holders(k)' = L!Holders(k)
  BY <1>1, SMTT(30) DEF L!Holders
<1>3. L!Holders("Exclusive")' = L!Holders("Exclusive") /\ L!Holders("Shared")' = L!Holders("Shared")
  BY <1>2 DEF L!Kinds
<1>. QED
  BY <1>3, SameCardinality, SMTT(30) DEF LockInv, L!MutualExclusion

(* A step that leaves the spin lock alone.                                 *)
LEMMA SpinlockKept ==
  ASSUME LockInv, NEW t \in Tasks, ~ InSpin(t), ~ InSpin(t)',
         pc' = [pc EXCEPT ![t] = pc'[t]], "SPINLOCK" \in state' <=> "SPINLOCK" \in state
  PROVE  L!SpinlockExclusive'
<1>1. \A u \in Tasks : u # t => pc'[u] = pc[u]
  BY DEF LockInv, LockTyped
<1>. QED
  BY <1>1 DEF LockInv, L!SpinlockExclusive, InSpin

(* A step that takes the free spin lock.                                   *)
LEMMA SpinlockTaken ==
  ASSUME LockInv, NEW t \in Tasks, "SPINLOCK" \notin state, "SPINLOCK" \in state',
         InSpin(t)', pc' = [pc EXCEPT ![t] = pc'[t]]
  PROVE  L!SpinlockExclusive'
<1>1. \A u \in Tasks : u # t => pc'[u] = pc[u]
  BY DEF LockInv, LockTyped
<1>2. \A u \in Tasks : ~ InSpin(u)
  BY DEF LockInv, L!SpinlockExclusive, InSpin
<1>. QED
  BY <1>1, <1>2 DEF L!SpinlockExclusive, InSpin

(* A step that releases it.                                                *)
LEMMA SpinlockReleased ==
  ASSUME LockInv, NEW t \in Tasks, InSpin(t), ~ InSpin(t)', "SPINLOCK" \notin state',
         pc' = [pc EXCEPT ![t] = pc'[t]]
  PROVE  L!SpinlockExclusive'
<1>1. \A u \in Tasks : u # t => pc'[u] = pc[u] /\ ~ InSpin(u)
  BY DEF LockInv, LockTyped, L!SpinlockExclusive, InSpin
<1>. QED
  BY <1>1 DEF L!SpinlockExclusive, InSpin

(* A holder that unlocks leaves the holders of its kind.                   *)
LEMMA UnlockKeepsExclusion ==
  ASSUME LockInv, NEW t \in Tasks, L!Unlock(t)
  PROVE  L!MutualExclusion' /\ L!SpinlockExclusive' /\ state' \subseteq L!Flags /\ readers' \in Nat
<1>1. /\ pc[t] = "holding" /\ kind' = kind /\ pc \in [Tasks -> L!PCs] /\ kind \in [Tasks -> L!Kinds]
      /\ pc' = [pc EXCEPT ![t] = pc'[t]] /\ pc'[t] \in {"unlock", "idle"}
  BY DEF L!Unlock, L!call, LockInv, LockTyped
<1>2. t \in L!Holders(kind[t]) /\ \A j \in L!Kinds : j = kind[t] => L!Holders(j)' = L!Holders(j) \ {t}
  BY <1>1 DEF L!Holders
<1>3. \A j \in L!Kinds : j # kind[t] => L!Holders(j)' = L!Holders(j)
  BY <1>1 DEF L!Holders
<1>4. state' \subseteq L!Flags /\ ("SPINLOCK" \in state' <=> "SPINLOCK" \in state)
  BY DEF L!Unlock, LockInv, LockTyped
<1>5. L!SpinlockExclusive'
  BY <1>1, <1>4, SpinlockKept, SMTT(30) DEF InSpin
<1>6. readers = Cardinality(L!Holders("Shared")) /\ IsFiniteSet(L!Holders("Shared")) /\ readers \in Nat
  BY HoldersFinite, SameCardinality DEF LockInv, L!MutualExclusion, LockTyped, L!Kinds
<1>7. CASE kind[t] = "Exclusive"
  <2>1. L!Holders("Exclusive") = {t} /\ L!Holders("Shared") = {}
    BY <1>2, <1>7, SameCardinality DEF LockInv, L!MutualExclusion
  <2>2. L!Holders("Exclusive")' = {} /\ L!Holders("Shared")' = {}
    BY ZenonT(30), <1>2, <1>3, <1>7, <2>1 DEF L!Kinds
  <2>3. readers' = readers /\ "LOCKED" \notin state'
    BY <1>7 DEF L!Unlock
  <2>4. L!MutualExclusion'
    BY ZenonT(30), <1>6, <2>1, <2>2, <2>3, SameCardinality DEF L!MutualExclusion
  <2>. QED
    BY ZenonT(30), <1>4, <1>5, <1>6, <2>3, <2>4
<1>8. CASE kind[t] = "Shared"
  <2>1. L!Holders("Exclusive") = {}
    BY <1>2, <1>8, SameCardinality DEF LockInv, L!MutualExclusion
  <2>2. L!Holders("Exclusive")' = {} /\ L!Holders("Shared")' = L!Holders("Shared") \ {t}
    BY ZenonT(30), <1>2, <1>3, <1>8, <2>1 DEF L!Kinds
  <2>3. Cardinality(L!Holders("Shared") \ {t}) = Cardinality(L!Holders("Shared")) - 1
    BY ZenonT(30), <1>2, <1>6, <1>8, FS_RemoveElement
  <2>4. Cardinality(L!Holders("Shared") \ {t}) \in Nat
    BY ZenonT(30), <1>6, FS_RemoveElement, FS_CardinalityType
  <2>5. readers' = readers - 1 /\ state' = state
    BY <1>8 DEF L!Unlock
  <2>6. "LOCKED" \notin state
    BY <2>1, SameCardinality DEF LockInv, L!MutualExclusion
  <2>7. L!MutualExclusion'
    BY ZenonT(30), <1>6, <2>2, <2>3, <2>5, <2>6, SameCardinality DEF L!MutualExclusion
  <2>. QED
    BY ZenonT(30), <1>4, <1>5, <1>6, <2>3, <2>4, <2>5, <2>7
<1>. QED
  BY <1>1, <1>7, <1>8, SMTT(30) DEF L!Kinds

-----------------------------------------------------------------------------
(* The invariant holds at first: nobody holds or wants the lock.           *)
LEMMA LockInitInv == IsFiniteSet(Tasks) /\ L!Init => LockInv
<1>. SUFFICES ASSUME IsFiniteSet(Tasks), L!Init PROVE LockInv
  OBVIOUS
<1>1. LockTyped
  BY DEF L!Init, LockTyped, L!PCs, L!Kinds, L!Flags
<1>2. LockCareful /\ L!SpinlockExclusive
  BY DEF L!Init, LockCareful, L!SpinlockExclusive
<1>3. L!Holders("Exclusive") = {} /\ L!Holders("Shared") = {}
  BY DEF L!Init, L!Holders
<1>4. L!MutualExclusion
  BY Zenon, <1>3, FS_EmptySet, SameCardinality DEF L!Init, L!MutualExclusion
<1>. QED
  BY <1>1, <1>2, <1>4 DEF LockInv

(* One step per action: what it does to the lock's word, and that it keeps *)
(* every task careful.                                                     *)
LEMMA LockStep == LockInv /\ [L!Next]_(L!vars) => LockInv'
<1>. SUFFICES ASSUME LockInv, [L!Next]_(L!vars) PROVE LockInv'
  OBVIOUS
<1>. USE DEF L!word, L!call, L!waiterVars, L!release
<1>1. CASE UNCHANGED L!vars
  BY <1>1, SameCardinality
  DEF L!vars, LockInv, LockTyped, LockCareful, L!MutualExclusion, L!SpinlockExclusive, L!Holders
<1>2. ASSUME NEW t \in Tasks, NEW k \in L!Kinds, L!LockFast(t, k) PROVE LockInv'
  <2>1. "LOCKED" \notin state /\ (k = "Exclusive" => readers = 0) /\ pc[t] = "idle"
    BY <1>2 DEF L!LockFast, L!Word, L!ZeroToAcquire, L!Kinds, LockInv, LockTyped
  <2>2. L!Acquire(t, k, {}) /\ kind' = [kind EXCEPT ![t] = k]
    BY <1>2 DEF L!LockFast
  <2>3. L!MutualExclusion' /\ L!SpinlockExclusive' /\ state' \subseteq L!Flags /\ readers' \in Nat
    BY Zenon, <2>1, <2>2, AcquireKeepsExclusion DEF InSpin
  <2>4. LockTyped'
    BY SMTT(30), <1>2, <2>2, <2>3 DEF L!LockFast, L!Acquire, LockInv, LockTyped, L!PCs
  <2>5. LockCareful'
    BY <1>2, <2>2 DEF L!LockFast, L!Acquire, LockInv, LockTyped, LockCareful
  <2>. QED
    BY ZenonT(30), <2>3, <2>4, <2>5 DEF LockInv
<1>3. ASSUME NEW t \in Tasks, NEW k \in L!Kinds, L!LockSlow(t, k) PROVE LockInv'
  <2>. USE <1>3 DEF L!LockSlow, L!CallLockSlow
  <2>1. LockTyped'
    BY SMTT(30) DEF LockInv, LockTyped, L!PCs, L!ZeroToAcquire
  <2>2. LockCareful'
    BY DEF LockInv, LockTyped, LockCareful, L!ZeroToAcquire, L!Kinds
  <2>3. pc'[t] = "slow" /\ pc' = [pc EXCEPT ![t] = pc'[t]] /\ pc[t] = "idle"
    BY DEF LockInv, LockTyped
  <2>4. \A u \in Tasks : u # t => kind'[u] = kind[u]
    BY DEF LockInv, LockTyped
  <2>5. L!MutualExclusion'
    BY Zenon, <2>3, <2>4, HoldersKept
  <2>6. L!SpinlockExclusive'
    BY Zenon, <2>3, SpinlockKept DEF InSpin
  <2>. QED
    BY ZenonT(30), <2>1, <2>2, <2>5, <2>6 DEF LockInv
<1>4. ASSUME NEW t \in Tasks, L!SlowAcquire(t) PROVE LockInv'
  <2>1. "LOCKED" \notin state /\ (kind[t] = "Exclusive" => readers = 0) /\ pc[t] = "slow"
    BY <1>4, SMTT(30) DEF L!SlowAcquire, L!Word, LockInv, LockTyped, LockCareful
  <2>2. L!Acquire(t, kind[t], clear[t]) /\ kind' = [kind EXCEPT ![t] = kind[t]] /\ kind[t] \in L!Kinds
        /\ clear[t] \in SUBSET {"LONG_WAIT", "DESIGNATED_WAKER"}
    BY <1>4 DEF L!SlowAcquire, LockInv, LockTyped
  <2>3. L!MutualExclusion' /\ L!SpinlockExclusive' /\ state' \subseteq L!Flags /\ readers' \in Nat
    BY Zenon, <2>1, <2>2, AcquireKeepsExclusion DEF InSpin
  <2>4. LockTyped'
    BY ZenonT(30), <1>4, <2>2, <2>3 DEF L!SlowAcquire, L!Acquire, LockInv, LockTyped, L!PCs
  <2>5. LockCareful'
    BY <1>4, <2>2 DEF L!SlowAcquire, L!Acquire, LockInv, LockTyped, LockCareful
  <2>. QED
    BY ZenonT(30), <2>3, <2>4, <2>5 DEF LockInv
<1>5. ASSUME NEW t \in Tasks, L!Enqueue(t) PROVE LockInv'
  <2>. USE <1>5 DEF L!Enqueue
  <2>1. LockTyped'
    BY Zenon DEF LockInv, LockTyped, L!PCs, L!Flags, L!SetWhenWaiting
  <2>2. LockCareful'
    BY SMTT(30) DEF LockInv, LockTyped, LockCareful
  <2>3. pc'[t] = "enqueued" /\ pc' = [pc EXCEPT ![t] = pc'[t]] /\ pc[t] = "slow"
    BY SMTT(30) DEF LockInv, LockTyped
  <2>4. /\ "LOCKED" \in state' <=> "LOCKED" \in state
        /\ "SPINLOCK" \notin state /\ "SPINLOCK" \in state'
    BY DEF LockInv, LockTyped, L!SetWhenWaiting
  <2>5. L!MutualExclusion'
    BY Zenon, <2>3, <2>4, HoldersKept
  <2>6. L!SpinlockExclusive'
    BY Zenon, <2>3, <2>4, SpinlockTaken DEF InSpin
  <2>. QED
    BY ZenonT(30), <2>1, <2>2, <2>5, <2>6 DEF LockInv
<1>6. ASSUME NEW t \in Tasks, L!StartWaiting(t) PROVE LockInv'
  <2>. USE <1>6 DEF L!StartWaiting
  <2>1. LockTyped'
    BY Zenon DEF LockInv, LockTyped, L!PCs, L!Flags
  <2>2. LockCareful'
    BY DEF LockInv, LockTyped, LockCareful
  <2>3. pc'[t] = "waiting" /\ pc' = [pc EXCEPT ![t] = pc'[t]] /\ pc[t] = "enqueued"
    BY DEF LockInv, LockTyped
  <2>4. ("LOCKED" \in state' <=> "LOCKED" \in state) /\ "SPINLOCK" \notin state'
    BY DEF LockInv, LockTyped
  <2>5. L!MutualExclusion'
    BY Zenon, <2>3, <2>4, HoldersKept
  <2>6. L!SpinlockExclusive'
    BY Zenon, <2>3, <2>4, SpinlockReleased DEF InSpin
  <2>. QED
    BY ZenonT(30), <2>1, <2>2, <2>5, <2>6 DEF LockInv
<1>7. ASSUME NEW t \in Tasks, L!Resume(t) PROVE LockInv'
  <2>. USE <1>7 DEF L!Resume
  <2>1. LockTyped'
    BY SMTT(30) DEF LockInv, LockTyped, L!PCs
  <2>2. LockCareful'
    BY DEF LockInv, LockTyped, LockCareful
  <2>3. pc'[t] = "slow" /\ pc' = [pc EXCEPT ![t] = pc'[t]] /\ pc[t] = "waiting"
    BY DEF LockInv, LockTyped
  <2>4. L!MutualExclusion'
    BY Zenon, <2>3, HoldersKept
  <2>5. L!SpinlockExclusive'
    BY ZenonT(30), <2>3, SpinlockKept DEF InSpin
  <2>. QED
    BY ZenonT(30), <2>1, <2>2, <2>4, <2>5 DEF LockInv
<1>8. ASSUME NEW t \in Tasks, L!Unlock(t) PROVE LockInv'
  <2>1. L!MutualExclusion' /\ L!SpinlockExclusive' /\ state' \subseteq L!Flags /\ readers' \in Nat
    BY <1>8, UnlockKeepsExclusion
  <2>2. LockTyped'
    BY ZenonT(30), <1>8, <2>1 DEF L!Unlock, LockInv, LockTyped, L!PCs
  <2>3. LockCareful'
    BY ZenonT(30), <1>8 DEF L!Unlock, LockInv, LockTyped, LockCareful
  <2>. QED
    BY <2>1, <2>2, <2>3 DEF LockInv
<1>9. ASSUME NEW t \in Tasks, L!NothingToWake(t) \/ L!WakeDone(t) PROVE LockInv'
  <2>. USE <1>9 DEF L!NothingToWake, L!WakeDone
  <2>1. LockTyped'
    BY DEF LockInv, LockTyped, L!PCs
  <2>2. LockCareful'
    BY DEF LockInv, LockTyped, LockCareful
  <2>3. pc'[t] = "idle" /\ pc' = [pc EXCEPT ![t] = pc'[t]] /\ pc[t] \in {"unlock", "wake"}
    BY DEF LockInv, LockTyped
  <2>4. L!MutualExclusion'
    BY <2>3, HoldersKept
  <2>5. L!SpinlockExclusive'
    BY <2>3, SpinlockKept DEF InSpin
  <2>. QED
    BY ZenonT(30), <2>1, <2>2, <2>4, <2>5 DEF LockInv
<1>10. ASSUME NEW t \in Tasks, L!TakeWaiters(t) PROVE LockInv'
  <2>. USE <1>10 DEF L!TakeWaiters
  <2>1. LockTyped'
    BY DEF LockInv, LockTyped, L!PCs, L!Flags, L!SetOnRelease
  <2>2. LockCareful'
    BY DEF LockInv, LockTyped, LockCareful
  <2>3. pc'[t] = "release" /\ pc' = [pc EXCEPT ![t] = pc'[t]] /\ pc[t] = "unlock"
    BY DEF LockInv, LockTyped
  <2>4. /\ "LOCKED" \in state' <=> "LOCKED" \in state
        /\ "SPINLOCK" \notin state /\ "SPINLOCK" \in state'
    OBVIOUS
  <2>5. L!MutualExclusion'
    BY Zenon, <2>3, <2>4, HoldersKept
  <2>6. L!SpinlockExclusive'
    BY Zenon, <2>3, <2>4, SpinlockTaken DEF InSpin
  <2>. QED
    BY ZenonT(30), <2>1, <2>2, <2>5, <2>6 DEF LockInv
<1>11. ASSUME NEW t \in Tasks, L!Drop(t) PROVE LockInv'
  <2>. USE <1>11 DEF L!Drop
  <2>1. LockTyped'
    BY DEF LockInv, LockTyped, L!PCs
  <2>2. LockCareful'
    BY DEF LockInv, LockTyped, LockCareful
  <2>3. pc'[t] = "canceled" /\ pc' = [pc EXCEPT ![t] = pc'[t]] /\ pc[t] = "waiting"
    BY DEF LockInv, LockTyped
  <2>4. L!MutualExclusion'
    BY Zenon, <2>3, HoldersKept
  <2>5. L!SpinlockExclusive'
    BY ZenonT(30), <2>3, SpinlockKept DEF InSpin
  <2>. QED
    BY ZenonT(30), <2>1, <2>2, <2>4, <2>5 DEF LockInv
<1>12. ASSUME NEW t \in Tasks, L!CancelWaiter(t) PROVE LockInv'
  <2>. USE <1>12 DEF L!CancelWaiter
  <2>1. relSet' \in [Tasks -> SUBSET {"WRITER_WAITING", "LONG_WAIT"}]
    BY DEF LockInv, LockTyped, L!SetOnRelease
  <2>2. relClear' \in [Tasks -> SUBSET (L!Flags \ {"LOCKED"})] /\ "SPINLOCK" \in relClear'[t]
    BY Zenon DEF LockInv, LockTyped, L!Flags, L!SetWhenWaiting
  <2>3. pc'[t] = "release" /\ pc' = [pc EXCEPT ![t] = pc'[t]] /\ pc[t] = "canceled"
    BY DEF LockInv, LockTyped
  <2>4. /\ "LOCKED" \in state' <=> "LOCKED" \in state
        /\ "SPINLOCK" \notin state /\ "SPINLOCK" \in state'
    OBVIOUS
  <2>5. LockTyped'
    BY Zenon, <2>1, <2>2 DEF LockInv, LockTyped, L!PCs, L!Flags
  <2>6. LockCareful'
    <3>1. \A u \in Tasks : u # t => pc'[u] = pc[u] /\ relClear'[u] = relClear[u]
      BY <2>3 DEF LockInv, LockTyped
    <3>. QED
      BY ZenonT(30), <2>2, <2>3, <3>1 DEF LockInv, LockCareful
  <2>7. L!MutualExclusion'
    BY Zenon, <2>3, <2>4, HoldersKept
  <2>8. L!SpinlockExclusive'
    BY Zenon, <2>3, <2>4, SpinlockTaken DEF InSpin
  <2>. QED
    BY ZenonT(30), <2>5, <2>6, <2>7, <2>8 DEF LockInv
<1>13. ASSUME NEW t \in Tasks, L!ReleaseSpinlock(t) PROVE LockInv'
  <2>. USE <1>13 DEF L!ReleaseSpinlock
  <2>1. LockTyped'
    BY Zenon DEF LockInv, LockTyped, L!PCs, L!Flags
  <2>2. LockCareful'
    BY DEF LockInv, LockTyped, LockCareful
  <2>3. pc'[t] = "wake" /\ pc' = [pc EXCEPT ![t] = pc'[t]] /\ pc[t] = "release"
    BY DEF LockInv, LockTyped
  <2>4. ("LOCKED" \in state' <=> "LOCKED" \in state) /\ "SPINLOCK" \notin state'
    BY DEF LockInv, LockTyped, LockCareful
  <2>5. L!MutualExclusion'
    BY Zenon, <2>3, <2>4, HoldersKept
  <2>6. L!SpinlockExclusive'
    BY ZenonT(30), <2>3, <2>4, SpinlockReleased DEF InSpin
  <2>. QED
    BY ZenonT(30), <2>1, <2>2, <2>5, <2>6 DEF LockInv
<1>14. ASSUME NEW t \in Tasks, L!Wake(t) PROVE LockInv'
  BY <1>14, SameCardinality
  DEF L!Wake, LockInv, LockTyped, LockCareful, L!MutualExclusion, L!SpinlockExclusive, L!Holders
<1>. QED
  BY ZenonT(30), <1>1, <1>2, <1>3, <1>4, <1>5, <1>6, <1>7, <1>8, <1>9, <1>10, <1>11, <1>12, <1>13, <1>14
     DEF L!Next, L!Attempt, L!Finish, L!TakeSpinlock

-----------------------------------------------------------------------------
(* The guards that RwLock::lock and read_lock hand out exclude each other, *)
(* and the state word counts them, whatever futures are dropped.           *)
THEOREM ExclusionHolds == IsFiniteSet(Tasks) /\ L!Spec => []L!MutualExclusion
<1>1. LockInv => L!MutualExclusion
  BY ZenonT(30) DEF LockInv
<1>. QED
  BY LockInitInv, LockStep, <1>1, PTL DEF L!Spec

(* The SPINLOCK bit gives lock_slow, unlock_slow and cancel_waiter         *)
(* exclusive access to the waiter list.                                    *)
THEOREM WaiterListGuarded == IsFiniteSet(Tasks) /\ L!Spec => []L!SpinlockExclusive
<1>1. LockInv => L!SpinlockExclusive
  BY DEF LockInv
<1>. QED
  BY LockInitInv, LockStep, <1>1, PTL DEF L!Spec

=============================================================================
