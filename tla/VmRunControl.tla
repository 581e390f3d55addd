----------------------------- MODULE VmRunControl -----------------------------
(* How crosvm stops and restarts a virtual machine: the control thread that    *)
(* executes the requests to suspend, resume, snapshot and exit, the threads     *)
(* that run the virtual cpus, and the thread that puts the devices to sleep.    *)
(*                                                                              *)
(* The control thread (run_control in crosvm/sys/linux.rs, VmRequest::execute   *)
(* in vm_control/src/lib.rs) talks to a vcpu thread through a channel and a     *)
(* signal: the message is sent first, then the signal, whose handler sets the   *)
(* immediate_exit flag of the vcpu shared with the hypervisor.  A vcpu thread   *)
(* looks at its channel only after it was interrupted or while it is not        *)
(* running (vcpu_loop in crosvm/sys/linux/vcpu.rs), so a kick that leaves       *)
(* neither trace is lost until the guest happens to exit by itself.             *)
(*                                                                              *)
(* The requests are straight-line programs for the control thread: `todo` holds *)
(* the steps that remain of the one in progress.  A kick is one step of them    *)
(* that goes on until each vcpu has been sent the message and the signal.       *)
EXTENDS Integers, Sequences, FiniteSets, FiniteSetsExt

CONSTANTS
    NumVcpus,       \* the number of virtual cpus
    MaxRequests,    \* bound: requests and suspend events the control thread takes
    MaxExits,       \* bound: guest exits served by the vcpu threads
    Requests,       \* the requests a client sends
    SleepMayFail,   \* TRUE: a device may refuse to sleep
    MaySystemExit   \* TRUE: the guest may power off or crash

ASSUME ParametersOK ==
    /\ NumVcpus \in Nat \ {0}
    /\ MaxRequests \in Nat
    /\ MaxExits \in Nat
    /\ Requests \subseteq {"SuspendVcpus", "ResumeVcpus", "SuspendVm", "ResumeVm", "Snapshot"}
    /\ {SleepMayFail, MaySystemExit} \subseteq BOOLEAN

Vcpus == 1 .. NumVcpus
Modes == {"Running", "Suspending", "Exiting"}
None == "none"
NoClock == -1

VARIABLES
    pc,         \* vcpu -> where its thread is
    mode,       \* vcpu -> run_mode
    tube,       \* vcpu -> the messages of from_main_tube
    sig,        \* vcpu -> SIGRTMIN is pending for the thread
    imm,        \* vcpu -> immediate_exit of the shared run page
    intr,       \* vcpu -> interrupted_by_signal
    todo,       \* the steps the control thread still has to take
    turn,       \* the vcpu a kick is at
    sent,       \* and whether that one has been sent the message
    answers,    \* vcpu -> the answer sent on response_chan, or None
    got,        \* the result of the last get_vcpu_state
    guard,      \* the guards of do_snapshot: what they restore when dropped
    dev,        \* devices_state of the device control thread
    clock,      \* suspended_pvclock_state: the stint it was read in, or NoClock
    stint,      \* how often the machine was resumed, which numbers its stints
    commanded,  \* the run mode last sent to the vcpus
    exited,     \* a VmEvent waits for the control thread
    taken,      \* requests taken so far
    exits,      \* guest exits so far
    unheard,    \* a signal came before the thread had published its handle
    hostWoke    \* a resume event came while the devices slept

place == <<turn, sent>>
vcpuVars == <<pc, mode, tube, sig, imm, intr>>
mainVars == <<todo, place, answers, got, guard, dev, clock, stint, commanded, taken>>
vars == <<pc, mode, tube, sig, imm, intr, todo, turn, sent, answers, got, guard, dev, clock,
          stint, commanded, exited, taken, exits, unheard, hostWoke>>
faults == <<unheard, hostWoke>>

(* `found`, the devices' state before the snapshot, is history only.            *)
NoGuard == [held |-> FALSE, mode |-> "Running", woken |-> FALSE, found |-> "Wake"]

(* With cfg.suspended the devices are put to sleep before the vcpu threads are  *)
(* made, which then start suspended.                                            *)
Init ==
    /\ pc = [v \in Vcpus |-> "start"]
    /\ \/ commanded = "Running" /\ dev = "Wake"
       \/ commanded = "Suspending" /\ dev = "Sleep"
    /\ mode = [v \in Vcpus |-> commanded]
    /\ tube = [v \in Vcpus |-> <<>>]
    /\ sig = [v \in Vcpus |-> FALSE]
    /\ imm = [v \in Vcpus |-> FALSE]
    /\ intr = [v \in Vcpus |-> FALSE]
    /\ todo = <<>>
    /\ turn = 1
    /\ sent = FALSE
    /\ answers = [v \in Vcpus |-> None]
    /\ got = None
    /\ guard = NoGuard
    /\ clock = NoClock
    /\ stint = 0
    /\ exited = FALSE
    /\ taken = 0
    /\ exits = 0
    /\ unheard = FALSE
    /\ hostWoke = FALSE

-------------------------------------------------------------------------------
(* The vcpu threads. *)

(* run_vcpu after the start barrier: the thread publishes the handle its signal *)
(* handler uses, then enters vcpu_loop.                                         *)
SetThreadLocal(v) ==
    /\ pc[v] = "start"
    /\ pc' = [pc EXCEPT ![v] = "top"]
    /\ UNCHANGED <<mode, tube, sig, imm, intr, mainVars, exited, exits, faults>>

(* handle_signal: without a handle the signal leaves no trace; a vcpu in the    *)
(* guest comes back with EINTR.  Blocked from the end of vcpu_loop on.          *)
HandleSignal(v) ==
    /\ sig[v]
    /\ pc[v] # "done"
    /\ sig' = [sig EXCEPT ![v] = FALSE]
    /\ imm' = [imm EXCEPT ![v] = @ \/ pc[v] # "start"]
    /\ pc' = [pc EXCEPT ![v] = IF @ = "guest" THEN "clear" ELSE @]
    /\ intr' = [intr EXCEPT ![v] = @ \/ pc[v] = "guest"]
    /\ unheard' = (unheard \/ pc[v] = "start")
    /\ UNCHANGED <<mode, tube, mainVars, exited, exits, hostWoke>>

(* The run mode after some messages: that of the last one which sets it. *)
RunStates(msgs) == {i \in DOMAIN msgs : msgs[i] \in Modes}
ModeAfter(now, msgs) == IF RunStates(msgs) = {} THEN now ELSE msgs[Max(RunStates(msgs))]

(* The message a batch ends at: Exiting returns from the loop at once. *)
Exits(msgs) == {i \in DOMAIN msgs : msgs[i] = "Exiting"}
UpToExit(msgs) == IF Exits(msgs) = {} THEN msgs ELSE SubSeq(msgs, 1, Min(Exits(msgs)))

(* The answer to the last request for one in the batch: the run mode at that    *)
(* point.  A snapshot of the vcpu is answered the same way.                     *)
Asks(msgs) == {i \in DOMAIN msgs : msgs[i] \in {"GetStates", "Snapshot"}}
Answered(v, msgs) ==
    IF Asks(msgs) = {} THEN answers[v] ELSE ModeAfter(mode[v], SubSeq(msgs, 1, Max(Asks(msgs))))

(* A vcpu thread that leaves its loop posts a VmEvent. *)
Leave(v) ==
    /\ pc' = [pc EXCEPT ![v] = "done"]
    /\ exited' = TRUE

(* The top of the loop: state_loop. All pending messages are taken together;    *)
(* a thread that is not running waits for one.                                  *)
StateLoop(v) ==
    /\ pc[v] = "top"
    /\ intr[v] \/ mode[v] # "Running"
    /\ tube[v] # <<>> \/ mode[v] = "Running"
    /\ LET msgs == UpToExit(tube[v])
           now == ModeAfter(mode[v], msgs)
       IN  /\ mode' = [mode EXCEPT ![v] = now]
           /\ answers' = [answers EXCEPT ![v] = Answered(v, msgs)]
           /\ IF now = "Exiting" THEN Leave(v)
              ELSE /\ pc' = [pc EXCEPT ![v] = IF now = "Running" THEN "enter" ELSE "top"]
                   /\ UNCHANGED exited
           /\ intr' = [intr EXCEPT ![v] = now # "Running" /\ @]
    /\ tube' = [tube EXCEPT ![v] = <<>>]
    /\ UNCHANGED <<sig, imm, todo, place, got, guard, dev, clock, stint, commanded, taken, exits,
                   faults>>

(* The top of the loop of a thread that runs and was not interrupted. *)
SkipMessages(v) ==
    /\ pc[v] = "top"
    /\ ~intr[v]
    /\ mode[v] = "Running"
    /\ pc' = [pc EXCEPT ![v] = "enter"]
    /\ UNCHANGED <<mode, tube, sig, imm, intr, mainVars, exited, exits, faults>>

RunIgnoresFlag(v) ==
    /\ pc[v] = "enter"
    /\ pc' = [pc EXCEPT ![v] = "guest"]
    /\ intr' = [intr EXCEPT ![v] = FALSE]
    /\ UNCHANGED <<mode, tube, sig, imm, mainVars, exited, exits, faults>>

(* vcpu.run: with immediate_exit set it returns EINTR without entering. *)
Run(v) ==
    /\ pc[v] = "enter"
    /\ pc' = [pc EXCEPT ![v] = IF imm[v] THEN "clear" ELSE "guest"]
    /\ intr' = [intr EXCEPT ![v] = imm[v]]
    /\ UNCHANGED <<mode, tube, sig, imm, mainVars, exited, exits, faults>>

(* The guest exits by itself: an access to a device, handled on this thread, or *)
(* an exit that needs nothing (EAGAIN).                                         *)
GuestExit(v) ==
    /\ pc[v] = "guest"
    /\ exits < MaxExits
    /\ exits' = exits + 1
    /\ pc' = [pc EXCEPT ![v] = "top"]
    /\ UNCHANGED <<mode, tube, sig, imm, intr, mainVars, exited, faults>>

(* The guest powers off, resets or crashes: vcpu_loop returns. *)
SystemEvent(v) ==
    /\ pc[v] = "guest"
    /\ MaySystemExit
    /\ Leave(v)
    /\ tube' = [tube EXCEPT ![v] = <<>>]
    /\ UNCHANGED <<mode, sig, imm, intr, mainVars, exits, faults>>

(* The end of an interrupted round: set_immediate_exit(false). *)
ClearImmediateExit(v) ==
    /\ pc[v] = "clear"
    /\ imm' = [imm EXCEPT ![v] = FALSE]
    /\ pc' = [pc EXCEPT ![v] = "top"]
    /\ UNCHANGED <<mode, tube, sig, intr, mainVars, exited, exits, faults>>

-------------------------------------------------------------------------------
(* The control thread. *)

Op(name) == [op |-> name, msg |-> None]

(* kick_all_vcpus: to each vcpu in turn the message, then the signal. *)
Kick(m) == [op |-> "kick", msg |-> m]

ProgramUnguarded(r) ==
    CASE r = "SuspendVcpus" -> <<Kick("Suspending"), Kick("GetStates"), Op("collect")>>
      [] r = "ResumeVcpus" -> <<Kick("Running")>>
      [] r = "SuspendVm" -> <<Kick("Suspending"), Kick("GetStates"), Op("collect"), Op("suspendvm")>>
      [] r = "ResumeVm" -> <<Op("wake"), Op("setclock"), Kick("Running")>>
      [] r = "Snapshot" -> <<Kick("GetStates"), Op("collect"), Op("guard")>>

(* The steps of a request, up to its first decision.  get_vcpu_state is a kick  *)
(* with GetStates and the wait for an answer of each vcpu.                      *)
Program(r) ==
    CASE r = "SuspendVcpus" -> <<Kick("Suspending"), Kick("GetStates"), Op("collect")>>
      [] r = "ResumeVcpus" -> IF dev = "Sleep" THEN <<>> ELSE <<Kick("Running")>>
      [] r = "SuspendVm" -> <<Kick("Suspending"), Kick("GetStates"), Op("collect"), Op("suspendvm")>>
      [] r = "ResumeVm" -> <<Op("wake"), Op("setclock"), Kick("Running")>>
      [] r = "Snapshot" -> <<Kick("GetStates"), Op("collect"), Op("guard")>>

Idle == todo = <<>> /\ commanded # "Exiting"

TakeRequest(r) ==
    /\ Idle
    /\ taken < MaxRequests
    /\ taken' = taken + 1
    /\ todo' = Program(r)
    /\ guard' = NoGuard
    /\ UNCHANGED <<vcpuVars, place, answers, got, dev, clock, stint, commanded, exited, exits, faults>>

(* Token::Suspend: the power management device asks to stop or to go on. *)
TakeSuspendEvent(suspend) ==
    /\ Idle
    /\ taken < MaxRequests
    /\ taken' = taken + 1
    /\ todo' = <<Kick(IF suspend THEN "Suspending" ELSE "Running")>>
    /\ guard' = NoGuard
    /\ UNCHANGED <<vcpuVars, place, answers, got, dev, clock, stint, commanded, exited, exits, unheard>>
    /\ hostWoke' = (hostWoke \/ (~suspend /\ dev = "Sleep"))

(* A VmEvent, or a request to exit at any time: the loop ends, the vcpus are    *)
(* told to exit and joined.                                                     *)
TakeExit ==
    /\ Idle
    /\ todo' = <<Kick("Exiting"), Op("join")>>
    /\ UNCHANGED <<vcpuVars, place, answers, got, guard, dev, clock, stint, commanded, exited,
                   taken, exits, faults>>

Next1(name) == todo # <<>> /\ Head(todo).op = name

(* tube.send: a closed channel drops the message. *)
Send ==
    /\ Next1("kick")
    /\ ~sent
    /\ LET m == Head(todo).msg
       IN  /\ tube' = [tube EXCEPT ![turn] = IF pc[turn] = "done" THEN @ ELSE Append(@, m)]
           /\ commanded' = IF m \in Modes THEN m ELSE commanded
           /\ answers' = [answers EXCEPT ![turn] = IF m \in Modes THEN @ ELSE None]
    /\ sent' = TRUE
    /\ UNCHANGED <<pc, mode, sig, imm, intr, todo, turn, got, guard, dev, clock, stint, exited,
                   taken, exits, faults>>

(* handle.kill, and on to the next vcpu. *)
Kill ==
    /\ Next1("kick")
    /\ sent
    /\ sig' = [sig EXCEPT ![turn] = pc[turn] # "done"]
    /\ sent' = FALSE
    /\ IF turn < NumVcpus THEN turn' = turn + 1 /\ UNCHANGED todo
       ELSE turn' = 1 /\ todo' = Tail(todo)
    /\ UNCHANGED <<pc, mode, tube, imm, intr, answers, got, guard, dev, clock, stint,
                   commanded, exited, taken, exits, faults>>

(* The answers of get_vcpu_state: an error when a vcpu is gone, or when they    *)
(* differ.                                                                      *)
Result ==
    LET all == {answers[v] : v \in Vcpus}
    IN  IF None \in all \/ Cardinality(all) > 1 THEN "error" ELSE CHOOSE m \in all : TRUE

Collect ==
    /\ Next1("collect")
    /\ \A v \in Vcpus : answers[v] # None \/ pc[v] = "done"
    /\ got' = Result
    /\ todo' = Tail(todo)
    /\ UNCHANGED <<vcpuVars, place, answers, guard, dev, clock, stint, commanded, exited, taken, exits, faults>>

(* SuspendVm once the vcpus answered: the clock is read unless one is kept, the *)
(* devices are put to sleep; those that slept are woken again when one refuses. *)
SuspendVm ==
    /\ Next1("suspendvm")
    /\ IF got # "Suspending" THEN UNCHANGED <<dev, clock>>
       ELSE /\ clock' = IF clock = NoClock THEN stint ELSE clock
            /\ \/ dev' = "Sleep"
               \/ SleepMayFail /\ dev = "Wake" /\ dev' = "Wake"
    /\ todo' = Tail(todo)
    /\ UNCHANGED <<vcpuVars, place, answers, got, guard, stint, commanded, exited, taken, exits, faults>>

(* ResumeVm: WakeDevices. *)
WakeDevices ==
    /\ Next1("wake")
    /\ dev' = "Wake"
    /\ todo' = Tail(todo)
    /\ UNCHANGED <<vcpuVars, place, answers, got, guard, clock, stint, commanded, exited, taken, exits, faults>>

(* ResumeVm: set_pvclock with the clock kept, which is kept on. *)
SetPvclock ==
    /\ Next1("setclock")
    /\ stint' = stint + 1
    /\ todo' = Tail(todo)
    /\ UNCHANGED <<vcpuVars, place, answers, got, guard, dev, clock, commanded, exited, taken, exits, faults>>

GuardVcpusUnconfirmed ==
    /\ Next1("guard")
    /\ guard' = [guard EXCEPT !.held = got \in {"Running", "Suspending"}, !.mode = got,
                              !.found = dev]
    /\ todo' = CASE got = "Running" -> <<Kick("Suspending"), Op("sleep")>>
                 [] got = "Suspending" -> <<Op("sleep")>>
                 [] got = "error" -> <<>>
    /\ UNCHANGED <<vcpuVars, place, answers, got, dev, clock, stint, commanded, exited, taken, exits, faults>>

(* VcpuSuspendGuard::new after the first answer. *)
GuardVcpus ==
    /\ Next1("guard")
    /\ guard' = [guard EXCEPT !.held = got \in {"Running", "Suspending"}, !.mode = got,
                              !.found = dev]
    /\ todo' = CASE got = "Running" -> <<Kick("Suspending"), Kick("GetStates"), Op("collect"), Op("confirm")>>
                 [] got = "Suspending" -> <<Op("sleep")>>
                 [] got = "error" -> <<>>
    /\ UNCHANGED <<vcpuVars, place, answers, got, dev, clock, stint, commanded, exited, taken, exits, faults>>

(* VcpuSuspendGuard::new after the second answer: an error of get_vcpu_state    *)
(* returns at once, another mode sends the vcpus back.                          *)
ConfirmSuspended ==
    /\ Next1("confirm")
    /\ todo' = CASE got = "Suspending" -> <<Op("sleep")>>
                 [] got = "error" -> <<>>
                 [] got = "Running" -> <<Kick(guard.mode)>>
    /\ UNCHANGED <<vcpuVars, place, answers, got, guard, dev, clock, stint, commanded, exited, taken,
                   exits, faults>>

(* The drop of VcpuSuspendGuard. *)
DropVcpuGuard == IF guard.mode = "Suspending" THEN <<>> ELSE <<Kick(guard.mode)>>

GuardDevicesLeaks ==
    /\ Next1("sleep")
    /\ \/ /\ dev' = "Sleep"
          /\ guard' = [guard EXCEPT !.woken = dev = "Wake"]
          /\ todo' = <<Kick("Snapshot"), Op("collect"), Op("snapshot")>>
       \/ /\ SleepMayFail
          /\ dev = "Wake"
          /\ todo' = <<>>
          /\ UNCHANGED <<dev, guard>>
    /\ UNCHANGED <<vcpuVars, place, answers, got, clock, stint, commanded, exited, taken, exits, faults>>

(* DeviceSleepGuard::new; a refusal drops the guard of the vcpus. *)
GuardDevices ==
    /\ Next1("sleep")
    /\ \/ /\ dev' = "Sleep"
          /\ guard' = [guard EXCEPT !.woken = dev = "Wake"]
          /\ todo' = <<Kick("Snapshot"), Op("collect"), Op("snapshot")>>
       \/ /\ SleepMayFail
          /\ dev = "Wake"
          /\ todo' = DropVcpuGuard
          /\ UNCHANGED <<dev, guard>>
    /\ UNCHANGED <<vcpuVars, place, answers, got, clock, stint, commanded, exited, taken, exits, faults>>

(* do_snapshot: memory and devices are written out, with success or not, then   *)
(* the guards are dropped: the devices are woken before the vcpus run.          *)
SnapshotDevices ==
    /\ Next1("snapshot")
    /\ dev' = IF guard.woken THEN "Wake" ELSE dev
    /\ todo' = DropVcpuGuard
    /\ UNCHANGED <<vcpuVars, place, answers, got, guard, clock, stint, commanded, exited, taken, exits, faults>>

(* The end of run_control: every vcpu thread is joined. *)
Join ==
    /\ Next1("join")
    /\ \A v \in Vcpus : pc[v] = "done"
    /\ todo' = <<>>
    /\ UNCHANGED <<vcpuVars, place, answers, got, guard, dev, clock, stint, commanded, exited, taken,
                   exits, faults>>

-------------------------------------------------------------------------------
VcpuStep(v) ==
    \/ SetThreadLocal(v)
    \/ StateLoop(v)
    \/ SkipMessages(v)
    \/ Run(v)
    \/ ClearImmediateExit(v)

MainStep ==
    \/ Send
    \/ Kill
    \/ Collect
    \/ SuspendVm
    \/ WakeDevices
    \/ SetPvclock
    \/ GuardVcpus
    \/ ConfirmSuspended
    \/ GuardDevices
    \/ SnapshotDevices
    \/ Join

Next ==
    \/ \E v \in Vcpus : VcpuStep(v)
    \/ \E v \in Vcpus : HandleSignal(v)
    \/ \E v \in Vcpus : GuestExit(v)
    \/ \E v \in Vcpus : SystemEvent(v)
    \/ \E r \in Requests : TakeRequest(r)
    \/ \E suspend \in BOOLEAN : TakeSuspendEvent(suspend)
    \/ TakeExit
    \/ MainStep

Spec == Init /\ [][Next]_vars

(* The threads run and a pending signal is delivered.  The guest is trusted     *)
(* with nothing: it may stay on a vcpu for ever.                                *)
FairSpec ==
    /\ Spec
    /\ \A v \in Vcpus : WF_vars(VcpuStep(v)) /\ WF_vars(HandleSignal(v))
    /\ WF_vars(MainStep)

-------------------------------------------------------------------------------
(* Properties. *)

(* No vcpu is in the guest while the devices sleep: ResumeVcpus refuses to wake *)
(* the vcpus of sleeping devices, SuspendVm and do_snapshot stop the vcpus      *)
(* first, ResumeVm and the guards start them last.  A resume event of the power *)
(* management device asks for no state of the devices.                          *)
VcpusRunDevicesAwake == ~hostWoke => \A v \in Vcpus : pc[v] = "guest" => dev = "Wake"

(* When memory and devices are written to a snapshot, every vcpu has answered   *)
(* from its message loop and stays in it, and the devices sleep: what the       *)
(* "VM & devices are stopped" of snapshot_handler relies on.                    *)
SnapshotOfStoppedVm ==
    Next1("snapshot") =>
        /\ dev = "Sleep"
        /\ \A v \in Vcpus : pc[v] \in {"top", "done"} /\ mode[v] # "Running"

(* After a snapshot, taken, refused or failed, the devices are as it found      *)
(* them, whether or not the vcpus ran, and the vcpus have been told to go back  *)
(* to the mode they were in, unless one of them has ended.                      *)
GuardsRollBack ==
    (Idle /\ guard.held) =>
        /\ dev = guard.found
        /\ ~exited => commanded = guard.mode

(* Whatever the guest does, the control thread is never left waiting: each      *)
(* request ends, and exiting joins every thread, as every vcpu comes back to    *)
(* answer a kick.  Only a kick that comes before run_vcpu has published the     *)
(* handle of its thread is lost.                                                *)
RequestsEnd == []<>(todo = <<>> \/ unheard)
===============================================================================
