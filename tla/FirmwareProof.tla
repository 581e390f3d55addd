---------------------------- MODULE FirmwareProof ----------------------------
(* Theorems about two drivers of the firmware, each on its own.                 *)
(*                                                                              *)
(* SecureBootProvisioning: its properties for any volumes, any number of boots  *)
(* and any number of faults.                                                    *)
(*                                                                              *)
(* KeyboardInput: what the driver knows of the keys and what its readers take,  *)
(* for any keys, any size of the ring and of its buffers, and any typing.       *)
EXTENDS SecureBootProvisioning, KeyboardInput, TLAPS

-----------------------------------------------------------------------------
(* Secure Boot provisioning. *)

(* The types the argument needs. *)
Shape ==
    /\ key \in [Keys -> {"absent", "default", "user"}]
    /\ DOMAIN work = Workers
    /\ \A w \in Workers : DOMAIN work[w] = {"at", "vol"}
    /\ work["entry"].at # "idle" <=> entry = "scan"
    /\ registered \in BOOLEAN
    /\ signalled \in BOOLEAN

(* The positions of the entry point after it has decided to enrol. *)
Enrolling == {"custom", "db", "dbx", "dbt", "KEK", "PK", "standard", "enable", "restore"}

(* What is enrolled at each position. *)
Progress ==
    /\ IsSecureBootOn => key["db"] # "absent" /\ key["KEK"] # "absent"
    /\ entry \in {"dbx", "dbt", "KEK", "PK"} => key["db"] # "absent"
    /\ entry = "PK" => key["KEK"] # "absent"

(* Until it decides, the entry point sees what the boot began with. *)
Decision ==
    phase = "boot" =>
        /\ entry \in {"register", "scan", "choice", "setup"} => (hadPk <=> IsSecureBootOn)
        /\ entry \in {"register", "scan", "choice"} => (choice = "made" <=> SecureBootEnable # "absent")
        /\ entry = "setup" \/ entry \in Enrolling => choice # "made"
        /\ entry \in Enrolling => ~hadPk

(* Custom mode lasts from its start to its end. *)
Mode ==
    /\ CustomMode = "standard" \/ stuck \/ entry \in Enrolling \ {"custom", "enable"}
    /\ phase = "os" => entry = "done"

(* A volume that is not handed out yet has somebody who will take it. *)
Pending ==
    registered /\ ~cut /\ visited # present =>
        \/ phase = "off" \/ signalled
        \/ \E w \in Workers : work[w].at # "idle"

(* At the hand-off nobody is at work. *)
Quiet == phase = "os" => ~signalled /\ \A w \in Workers : work[w].at = "idle"

IInv == Shape /\ Progress /\ Decision /\ Mode /\ Pending /\ Quiet

-----------------------------------------------------------------------------

(* A freshly started machine satisfies the inductive invariant. *)
LEMMA InitIInv == Init => IInv
<1>. SUFFICES ASSUME Init PROVE IInv
  OBVIOUS
<1>1. Shape
  <2>1. DOMAIN work = Workers /\ \A w \in Workers : work[w] = Idle
    BY DEF Init
  <2>2. \A w \in Workers : DOMAIN work[w] = {"at", "vol"} /\ work[w].at = "idle"
    BY <2>1 DEF Idle
  <2>. QED  BY Zenon, <2>1, <2>2 DEF Init, Shape, Workers
<1>2. Progress /\ Decision
  BY DEF Init, Progress, Decision, IsSecureBootOn, Keys, Enrolling
<1>3. Mode /\ Pending /\ Quiet
  BY DEF Init, Mode, Pending, Quiet
<1>. QED  BY <1>1, <1>2, <1>3 DEF IInv

(* The steps of the file system callback leave the keys alone. *)
LEMMA PolicySteps ==
  ASSUME IInv, NEW w \in Workers, Policy(w)
  PROVE  IInv'
<1>. USE DEF IInv, Shape, Runs, At, KeepRest, Workers, histVars
<1>1. UNCHANGED <<key, SecureBootEnable, CustomMode, phase, hadPk, choice, stuck, registered, signalled, present>>
  BY DEF Policy, Take, TakeNone, TakeFails, OpenFails, OpenPolicy, Remove, Compare, Delete, Create, WritePolicy, nvVars
<1>2. phase = "boot"
  BY Zenon DEF Policy, Take, TakeNone, TakeFails, OpenFails, OpenPolicy, Remove, Compare, Delete, Create, WritePolicy
<1>3. CASE TakeNone(w) \/ TakeFails(w)
  <2>1. /\ DOMAIN work' = Workers
        /\ \A x \in Workers : DOMAIN work'[x] = {"at", "vol"}
        /\ \A x \in Workers : x # w => work'[x] = work[x]
        /\ work'[w].at = "idle"
    <3>1. work' = [work EXCEPT ![w] = Idle]
      BY <1>3 DEF TakeNone, TakeFails
    <3>2. DOMAIN Idle = {"at", "vol"} /\ Idle.at = "idle"
      BY DEF Idle
    <3> QED
      BY <3>1, <3>2
  <2>2. /\ entry' = IF w = "entry" THEN "choice" ELSE entry
        /\ w = "entry" => entry = "scan"
    BY <1>3 DEF TakeNone, TakeFails
  <2>3. Shape' /\ Progress' /\ Decision' /\ Mode'
    BY <1>1, <1>2, <2>1, <2>2 DEF Progress, Decision, Mode, IsSecureBootOn, Enrolling
  <2>4. cut' \/ visited' = present'
    BY <1>1, <1>3 DEF TakeNone, TakeFails
  <2>5. Pending' /\ Quiet'
    BY Zenon, <1>1, <1>2, <2>4 DEF Pending, Quiet
  <2>. QED  BY Zenon, <2>3, <2>5
<1>4. CASE ~(TakeNone(w) \/ TakeFails(w))
  <2>1. entry' = entry /\ work[w].at # "idle"
    BY <1>4 DEF Policy, Take, TakeFails, OpenFails, OpenPolicy, Remove, Compare, Delete, Create, WritePolicy
  <2>2. /\ DOMAIN work' = Workers
        /\ \A x \in Workers : DOMAIN work'[x] = {"at", "vol"}
        /\ \A x \in Workers : x # w => work'[x] = work[x]
        /\ work'[w].at # "idle"
    BY <1>4 DEF Policy, Take, TakeFails, OpenFails, OpenPolicy, Remove, Compare, Delete, Create, WritePolicy, Goto, NextFile
  <2>3. Shape'
    BY Zenon, <1>1, <2>1, <2>2
  <2>4. Progress' /\ Decision' /\ Mode'
    BY <1>1, <2>1 DEF Progress, Decision, Mode, IsSecureBootOn
  <2>5. Pending' /\ Quiet'
    BY Zenon, <1>1, <1>2, <2>2 DEF Pending, Quiet
  <2>. QED  BY <2>3, <2>4, <2>5
<1>. QED  BY <1>3, <1>4
(* The steps of the entry point. *)
LEMMA EntrySteps ==
  ASSUME IInv, Entry
  PROVE  IInv'
<1>. USE DEF IInv, Shape, EntryAt, Runs, KeepFs, Workers
<1>1. phase = "boot" /\ phase' = "boot" /\ hadPk' = hadPk /\ cut' = cut /\ present' = present /\ visited' = visited
      /\ signalled' = signalled
  BY DEF Entry, Register, CheckChoice, CheckSetupMode, EnterCustomMode, EnrollKeys, Enroll, EnrollOptional,
         EnrollPK, LeaveCustomMode, Enable, histVars, fsVars
<1>2. CASE Register
  <2>1. UNCHANGED <<key, SecureBootEnable, CustomMode, choice, stuck>>
    BY <1>2 DEF Register, nvVars, histVars
  <2>2. CASE entry' = "scan"
    <3>1. registered' /\ work' = [work EXCEPT !["entry"].at = "take"]
      BY <1>2, <2>2 DEF Register
    <3>2. /\ DOMAIN work' = Workers
          /\ \A w \in Workers : DOMAIN work'[w] = {"at", "vol"}
          /\ work'["entry"].at # "idle"
      BY <3>1
    <3>3. registered' \in BOOLEAN
      BY <1>2, <2>2 DEF Register
    <3>4. Shape' /\ Pending' /\ Quiet'
      BY <1>1, <2>1, <2>2, <3>2, <3>3 DEF Pending, Quiet
    <3>5. Progress' /\ Decision' /\ Mode'
      BY <1>1, <1>2, <2>1, <2>2 DEF Register, Progress, Decision, Mode, Enrolling, IsSecureBootOn
    <3>. QED  BY <3>4, <3>5
  <2>3. CASE entry' = "choice"
    BY <1>1, <1>2, <2>1, <2>3 DEF Register, Progress, Decision, Mode, Pending, Quiet, Enrolling, IsSecureBootOn
  <2>. QED  BY <1>2, <2>2, <2>3 DEF Register
<1>3. CASE ~Register
  <2>1. work' = work /\ registered' = registered /\ entry # "scan" /\ entry' # "scan"
    BY <1>3 DEF Entry, CheckChoice, CheckSetupMode, EnterCustomMode, EnrollKeys, Enroll, EnrollOptional,
                EnrollPK, LeaveCustomMode, Enable, fsVars
  <2>2. key' \in [Keys -> {"absent", "default", "user"}]
    BY Zenon, <1>3 DEF Entry, CheckChoice, CheckSetupMode, EnterCustomMode, EnrollKeys, Enroll, EnrollOptional,
                EnrollPK, LeaveCustomMode, Enable, nvVars
  <2>3. Shape' /\ Pending' /\ Quiet'
    BY <1>1, <2>1, <2>2 DEF Pending, Quiet
  <2>4. CASE CheckChoice
    BY <1>1, <2>3, <2>4 DEF CheckChoice, Progress, Decision, Mode, Enrolling, nvVars, histVars, IsSecureBootOn
  <2>5. CASE CheckSetupMode
    BY <1>1, <2>3, <2>5 DEF CheckSetupMode, Progress, Decision, Mode, Enrolling, nvVars, histVars, IsSecureBootOn
  <2>6. CASE EnterCustomMode
    BY <1>1, <2>3, <2>6 DEF EnterCustomMode, Progress, Decision, Mode, Enrolling, histVars, IsSecureBootOn
  <2>7. CASE EnrollKeys
    <3>1. Progress'
      BY <2>7 DEF EnrollKeys, Enroll, EnrollOptional, Progress, IsSecureBootOn, Keys
    <3>2. Decision'
      BY <1>1, <2>7 DEF EnrollKeys, Enroll, EnrollOptional, Decision, Enrolling, histVars
    <3>3. Mode'
      BY <1>1, <2>7 DEF EnrollKeys, Enroll, EnrollOptional, Mode, Enrolling, histVars
    <3>. QED  BY <2>3, <3>1, <3>2, <3>3
  <2>8. CASE EnrollPK
    <3>1. Progress'
      BY <2>8 DEF EnrollPK, Progress, IsSecureBootOn, Keys
    <3>2. Decision' /\ Mode'
      BY <1>1, <2>8 DEF EnrollPK, Decision, Mode, Enrolling, histVars
    <3>. QED  BY <2>3, <3>1, <3>2
  <2>9. CASE LeaveCustomMode
    BY <1>1, <2>3, <2>9 DEF LeaveCustomMode, Progress, Decision, Mode, Enrolling, IsSecureBootOn
  <2>10. CASE Enable
    BY <1>1, <2>3, <2>10 DEF Enable, Progress, Decision, Mode, Enrolling, histVars, IsSecureBootOn
  <2>. QED  BY <1>3, <2>4, <2>5, <2>6, <2>7, <2>8, <2>9, <2>10 DEF Entry
<1>. QED  BY <1>2, <1>3

(* The steps of the environment. *)
LEMMA OtherSteps ==
  ASSUME IInv,
         \/ Notify \/ (\E v \in Volumes : Arrive(v)) \/ UserSwitches \/ UserRemovesPK \/ UserEnrolls
         \/ HandOff \/ PowerLoss \/ Boot \/ UNCHANGED vars
  PROVE  IInv'
<1>. USE DEF IInv, Shape, Workers
<1>1. CASE Notify
  <2>1. /\ phase = "boot" /\ signalled' \in BOOLEAN
        /\ DOMAIN work' = Workers /\ \A w \in Workers : DOMAIN work'[w] = {"at", "vol"}
        /\ work'["entry"] = work["entry"] /\ work'["callback"].at = "take"
    BY Zenon, <1>1 DEF Notify
  <2>2. UNCHANGED <<key, SecureBootEnable, CustomMode, registered, present, visited, phase,
                    entry, hadPk, choice, stuck, cut>>
    BY <1>1 DEF Notify, nvVars, histVars
  <2>. QED  BY <2>1, <2>2 DEF Progress, Decision, Mode, Pending, Quiet, IsSecureBootOn
<1>2. CASE \E v \in Volumes : Arrive(v)
  <2>1. phase = "boot" /\ signalled' = registered
    BY <1>2 DEF Arrive
  <2>2. UNCHANGED <<key, SecureBootEnable, CustomMode, work, registered, phase, entry, hadPk, choice, stuck, cut>>
    BY <1>2 DEF Arrive, nvVars, histVars
  <2>. QED  BY <2>1, <2>2 DEF Progress, Decision, Mode, Pending, Quiet, IsSecureBootOn
<1>3. CASE UserSwitches \/ UserRemovesPK \/ UserEnrolls
  <2>1. /\ phase = "boot" /\ entry = "done"
        /\ UNCHANGED <<CustomMode, work, registered, signalled, present, visited, phase, entry, hadPk, choice, stuck, cut>>
    BY <1>3 DEF UserSwitches, UserRemovesPK, UserEnrolls, InMenu, EntryAt, Runs, KeepFs, fsVars, histVars
  <2>2. key' \in [Keys -> {"absent", "default", "user"}]
    BY <1>3 DEF UserSwitches, UserRemovesPK, UserEnrolls
  <2>3. Progress'
    BY Zenon, <1>3, <2>1 DEF UserSwitches, UserRemovesPK, UserEnrolls, Progress, IsSecureBootOn, Keys
  <2>. QED  BY <2>1, <2>2, <2>3 DEF Decision, Mode, Pending, Quiet, Enrolling
<1>4. CASE HandOff
  <2>1. UNCHANGED <<key, SecureBootEnable, CustomMode, work, registered, signalled, present, visited,
                    entry, hadPk, choice, stuck, cut>>
    BY Zenon, <1>4 DEF HandOff, nvVars, fsVars, histVars
  <2>2. phase = "boot" /\ phase' = "os" /\ entry = "done" /\ ~signalled /\ \A w \in Workers : work[w].at = "idle"
    BY <1>4 DEF HandOff, EntryAt, Runs
  <2>. QED  BY <2>1, <2>2 DEF Progress, Decision, Mode, Pending, Quiet, IsSecureBootOn
<1>5. CASE PowerLoss
  BY <1>5 DEF PowerLoss, nvVars, fsVars, histVars, Progress, Decision, Mode, Pending, Quiet, IsSecureBootOn
<1>6. CASE Boot
  <2>1. DOMAIN work' = Workers /\ \A w \in Workers : work'[w] = Idle
    BY <1>6 DEF Boot
  <2>2. \A w \in Workers : DOMAIN work'[w] = {"at", "vol"} /\ work'[w].at = "idle"
    BY <2>1 DEF Idle
  <2>3. Shape'
    <3>1. key' \in [Keys -> {"absent", "default", "user"}]
      BY <1>6 DEF Boot
    <3>. QED  BY Zenon, <1>6, <2>1, <2>2, <3>1 DEF Boot
  <2>4. Progress' /\ Decision'
    BY Zenon, <1>6 DEF Boot, Progress, Decision, Enrolling, IsSecureBootOn, Keys
  <2>5. Mode' /\ Pending' /\ Quiet'
    BY <1>6 DEF Boot, Mode, Pending, Quiet
  <2>. QED  BY <2>3, <2>4, <2>5
<1>7. CASE UNCHANGED vars
  BY <1>7 DEF vars, nvVars, fsVars, histVars, Progress, Decision, Mode, Pending, Quiet, IsSecureBootOn
<1>. QED  BY <1>1, <1>2, <1>3, <1>4, <1>5, <1>6, <1>7

(* IInv is inductive. *)
THEOREM IInvHolds == Spec => []IInv
<1>1. IInv /\ [Next]_vars => IInv'
  BY PolicySteps, EntrySteps, OtherSteps DEF Next
<1>. QED  BY InitIInv, <1>1, PTL DEF Spec

-----------------------------------------------------------------------------

(* Whatever call fails and whenever power is lost, a platform key is never *)
(* without db and KEK: the order of the enrolments in the entry point.     *)
THEOREM PkImpliesKeysHolds == Spec => []PkImpliesKeys
<1>1. IInv => PkImpliesKeys
  BY DEF IInv, Progress, PkImpliesKeys
<1>. QED  BY IInvHolds, <1>1, PTL

(* Every way out of the entry point ends custom mode or reports that it    *)
(* could not.                                                              *)
THEOREM StandardAtHandOffHolds == Spec => []StandardAtHandOff
<1>1. IInv => StandardAtHandOff
  BY DEF IInv, Mode, StandardAtHandOff, Enrolling
<1>. QED  BY IInvHolds, <1>1, PTL

(* The direct scan and the notification together reach every volume.       *)
THEOREM NoVolumeMissedHolds == Spec => []NoVolumeMissed
<1>1. IInv => NoVolumeMissed
  BY DEF IInv, Pending, Quiet, NoVolumeMissed
<1>. QED  BY IInvHolds, <1>1, PTL

(* The entry point never changes keys or the option over a PK or a choice  *)
(* that the boot began with.                                               *)
THEOREM HonoursChoiceHolds == Spec => HonoursChoice
<1>1. ASSUME IInv, [Next]_vars, phase = "boot", entry # "done", hadPk \/ choice = "made"
      PROVE  UNCHANGED <<key, SecureBootEnable>>
  <2>1. CASE Entry
    <3>1. entry \notin Enrolling
      BY <1>1 DEF IInv, Decision
    <3>. QED  BY <2>1, <3>1 DEF Entry, Register, CheckChoice, CheckSetupMode, EnterCustomMode, EnrollKeys, Enroll,
                     EnrollOptional, EnrollPK, LeaveCustomMode, Enable, EntryAt, Enrolling, nvVars
  <2>2. CASE \E w \in Workers : Policy(w)
    BY <2>2 DEF Policy, Take, TakeNone, TakeFails, OpenFails, OpenPolicy, Remove, Compare, Delete, Create, WritePolicy,
                KeepRest, nvVars
  <2>3. CASE Notify \/ (\E v \in Volumes : Arrive(v)) \/ HandOff \/ PowerLoss \/ UNCHANGED vars
    BY <2>3 DEF Notify, Arrive, HandOff, PowerLoss, vars, nvVars
  <2>4. CASE UserSwitches \/ UserRemovesPK \/ UserEnrolls \/ Boot
    BY <1>1, <2>4 DEF UserSwitches, UserRemovesPK, UserEnrolls, InMenu, EntryAt, Boot
  <2>. QED  BY <1>1, <2>1, <2>2, <2>3, <2>4 DEF Next
<1>2. IInv /\ [Next]_vars => [phase = "boot" /\ entry # "done" /\ (hadPk \/ choice = "made")
                                  => UNCHANGED <<key, SecureBootEnable>>]_vars
  BY <1>1
<1>. QED  BY IInvHolds, <1>2, PTL DEF Spec, HonoursChoice

-----------------------------------------------------------------------------
(* A boot that began blank and has met no fault enrols in order: it is     *)
(* never on the way out of an error, and every key it has passed is the    *)
(* default one.                                                            *)
CleanProgress ==
    phase = "boot" /\ Blank /\ clean =>
        /\ entry # "restore"
        /\ entry \in {"dbx", "dbt", "KEK", "PK", "standard", "enable"} => key["db"] = "default"
        /\ entry \in {"PK", "standard", "enable"} => key["KEK"] = "default"
        /\ entry \in {"standard", "enable"} => key["PK"] = "default"

(* Every step preserves CleanProgress.                                     *)
LEMMA CleanProgressStep ==
  ASSUME IInv, CleanProgress, [Next]_vars
  PROVE  CleanProgress'
<1>. USE DEF CleanProgress, Blank
<1>1. CASE Entry
  <2>. USE DEF EntryAt, Runs, KeepFs, Fault, NoFault, faultVars, histVars
  <2>1. CASE Register \/ CheckChoice \/ CheckSetupMode \/ EnterCustomMode
    BY Zenon, <2>1 DEF Register, CheckChoice, CheckSetupMode, EnterCustomMode
  <2>2. CASE EnrollKeys \/ EnrollPK
    BY Zenon, <2>2 DEF EnrollKeys, Enroll, EnrollOptional, EnrollPK, IInv, Shape, Keys
  <2>3. CASE LeaveCustomMode \/ Enable
    BY Zenon, <2>3 DEF LeaveCustomMode, Enable
  <2>. QED  BY <1>1, <2>1, <2>2, <2>3 DEF Entry
<1>2. CASE \E w \in Workers : Policy(w)
  <2>1. UNCHANGED <<key, phase, hadPk, choice>> /\ (clean' => clean) /\ (entry' = entry \/ entry' = "choice")
    BY Zenon, <1>2 DEF Policy, Take, TakeNone, TakeFails, OpenFails, OpenPolicy, Remove, Compare, Delete, Create, WritePolicy,
                KeepRest, nvVars, histVars, Fault, NoFault, faultVars
  <2>. QED  BY <2>1
<1>3. CASE Notify \/ (\E v \in Volumes : Arrive(v)) \/ UNCHANGED vars
  BY Zenon, <1>3 DEF Notify, Arrive, vars, nvVars, histVars, NoFault, faultVars
<1>4. CASE UserSwitches \/ UserRemovesPK \/ UserEnrolls
  BY <1>4 DEF UserSwitches, UserRemovesPK, UserEnrolls, InMenu, EntryAt
<1>5. CASE HandOff \/ PowerLoss \/ Boot
  BY <1>5 DEF HandOff, PowerLoss, Boot
<1>. QED  BY <1>1, <1>2, <1>3, <1>4, <1>5 DEF Next

(* A boot without faults over a store without keys or choice ends with     *)
(* db, KEK, PK and the option set, whatever the boots before it left.      *)
THEOREM CleanBootEnrollsHolds == Spec => CleanBootEnrolls
<1>1. Init => CleanProgress
  BY DEF Init, CleanProgress
<1>2. ASSUME IInv, CleanProgress, Next, entry # "done", entry' = "done", Blank, clean'
      PROVE  (\A k \in {"db", "KEK", "PK"} : key'[k] = "default") /\ SecureBootEnable' = "on"
  <2>1. Entry
    BY <1>2 DEF Next, Policy, Take, TakeNone, TakeFails, OpenFails, OpenPolicy, Remove, Compare, Delete, Create,
                WritePolicy, KeepRest, Notify, Arrive, UserSwitches, UserRemovesPK, UserEnrolls, InMenu, EntryAt,
                HandOff, PowerLoss, Boot
  <2>2. phase = "boot"
    BY <2>1 DEF Entry, Register, CheckChoice, CheckSetupMode, EnterCustomMode, EnrollKeys, Enroll, EnrollOptional,
                EnrollPK, LeaveCustomMode, Enable, EntryAt, Runs
  <2>3. Enable \/ (CheckChoice /\ NoFault) \/ (CheckSetupMode /\ NoFault) \/ (LeaveCustomMode /\ NoFault)
    BY <1>2, <2>1 DEF Entry, Register, CheckChoice, CheckSetupMode, EnterCustomMode, EnrollKeys, Enroll, EnrollOptional,
                EnrollPK, LeaveCustomMode, Enable, Fault
  <2>4. ~CheckChoice
    BY <1>2, <2>2 DEF CheckChoice, EntryAt, IInv, Decision, Blank, Fault
  <2>5. ~CheckSetupMode
    BY <1>2, <2>2 DEF CheckSetupMode, EntryAt, IInv, Decision, Blank, IsSecureBootOn, Fault
  <2>6. ~LeaveCustomMode
    BY Zenon, <1>2, <2>2 DEF LeaveCustomMode, EntryAt, CleanProgress, Fault, NoFault, faultVars
  <2>. QED  BY Zenon, <1>2, <2>2, <2>3, <2>4, <2>5, <2>6 DEF Enable, EntryAt, CleanProgress, Fault, NoFault, faultVars
<1>3. CleanProgress /\ IInv /\ [Next]_vars =>
        [entry # "done" /\ entry' = "done" /\ Blank /\ clean'
           => (\A k \in {"db", "KEK", "PK"} : key'[k] = "default") /\ SecureBootEnable' = "on"]_vars
  BY <1>2
<1>4. CleanProgress /\ IInv /\ [Next]_vars => CleanProgress'
  BY CleanProgressStep
<1>. QED  BY IInvHolds, <1>1, <1>3, <1>4, PTL DEF Spec, CleanBootEnrolls

-----------------------------------------------------------------------------
Contents == {"absent", "empty", "default", "other"}
Stages == {"idle", "take", "open", "remove", "compare", "delete", "create", "write"}
Busy(w) == work[w].at \notin {"idle", "take"}

(* What each activation of OnFileSystemNotification knows of its volume:   *)
(* no other activation has it, PK is as it was when the file was opened,   *)
(* and in a boot without faults a file to be created is not there and one  *)
(* to be written is empty.                                                 *)
PolicyWork ==
    /\ policy \in [Volumes -> Contents]
    /\ work \in [Workers -> [at : Stages, vol : Volumes \cup {NoVolume}]]
    /\ present \subseteq Volumes
    /\ \A w \in Workers :
          /\ ~Busy(w) => work[w].vol = NoVolume
          /\ Busy(w) => work[w].vol \in visited /\ work[w].vol \in Volumes
          /\ phase = "boot" /\ work[w].at = "remove" => ~IsSecureBootOn
          /\ phase = "boot" /\ work[w].at \in {"compare", "delete", "create", "write"} => IsSecureBootOn
          /\ clean /\ work[w].at = "create" => policy[work[w].vol] = "absent"
          /\ clean /\ work[w].at = "write" => policy[work[w].vol] = "empty"
    /\ Busy("entry") /\ Busy("callback") => work["entry"].vol # work["callback"].vol

(* A freshly started machine is at no volume.                              *)
LEMMA PolicyWorkInit == Init => PolicyWork
  BY DEF Init, PolicyWork, Workers, Idle, Stages, Contents, Busy

(* While an activation has a volume, no key changes: the callback preempts *)
(* everything, and the entry point scans before it enrols.                 *)
LEMMA KeysStill ==
  ASSUME IInv, [Next]_vars, ~Boot, NEW w \in Workers, work[w].at # "idle"
  PROVE  key' = key
<1>. USE DEF IInv, Shape, Workers, EntryAt, Runs
<1>1. CASE Entry
  BY ZenonT(30), <1>1 DEF Entry, Register, CheckChoice, CheckSetupMode, EnterCustomMode, EnrollKeys, Enroll, EnrollOptional,
              EnrollPK, LeaveCustomMode, Enable, nvVars
<1>2. CASE \E x \in Workers : Policy(x)
  BY Zenon, <1>2 DEF Policy, Take, TakeNone, TakeFails, OpenFails, OpenPolicy, Remove, Compare, Delete, Create, WritePolicy,
              KeepRest, nvVars
<1>3. CASE Notify \/ (\E v \in Volumes : Arrive(v)) \/ HandOff \/ PowerLoss \/ UNCHANGED vars
  BY <1>3 DEF Notify, Arrive, HandOff, PowerLoss, vars, nvVars
<1>4. CASE UserSwitches \/ UserRemovesPK \/ UserEnrolls
  BY <1>4 DEF UserSwitches, UserRemovesPK, UserEnrolls, InMenu
<1>. QED  BY <1>1, <1>2, <1>3, <1>4 DEF Next

Positions == [at : Stages, vol : Volumes \cup {NoVolume}]

Moves(w, n) ==
    /\ work' \in [Workers -> Positions] /\ work'[w] = n
    /\ \A x \in Workers : x # w => work'[x] = work[x]

(* Goto changes the stage of one activation and keeps its volume.          *)
LEMMA GotoMoves ==
  ASSUME work \in [Workers -> Positions], NEW w \in Workers, NEW s \in Stages, Goto(w, s)
  PROVE  Moves(w, [at |-> s, vol |-> work[w].vol])
<1>1. PICK a \in Stages, v \in Volumes \cup {NoVolume} : work[w] = [at |-> a, vol |-> v]
  BY DEF Positions
<1>2. [work[w] EXCEPT !.at = s] = [at |-> s, vol |-> work[w].vol]
  BY <1>1
<1>3. work' = [work EXCEPT ![w] = [work[w] EXCEPT !.at = s]]
  BY DEF Goto
<1>4. work' = [work EXCEPT ![w] = [at |-> s, vol |-> work[w].vol]]
  BY Zenon, <1>2, <1>3
<1>5. [at |-> s, vol |-> work[w].vol] \in Positions
  BY <1>1 DEF Positions
<1>. QED  BY <1>4, <1>5 DEF Moves

(* One activation moves to n, and may change the file of its volume.       *)
LEMMA WorkerMoves ==
  ASSUME PolicyWork, NEW w \in Workers, phase = "boot",
         key' = key, present' = present, visited \subseteq visited', clean' => clean,
         NEW n \in Positions, Moves(w, n),
         policy' \in [Volumes -> Contents],
         \A v \in Volumes : (Busy(w) /\ v = work[w].vol) \/ policy'[v] = policy[v],
         n.at \in {"idle", "take"} => n.vol = NoVolume,
         n.at \notin {"idle", "take"} => /\ n.vol \in visited' /\ n.vol \in Volumes
                                         /\ (Busy(w) /\ n.vol = work[w].vol) \/ n.vol \notin visited,
         n.at = "remove" => ~IsSecureBootOn,
         n.at \in {"compare", "delete", "create", "write"} => IsSecureBootOn,
         clean' /\ n.at = "create" => policy'[n.vol] = "absent",
         clean' /\ n.at = "write" => policy'[n.vol] = "empty"
  PROVE  PolicyWork'
<1>. USE DEF PolicyWork, Positions, Moves
<1>1. work'[w] = n /\ \A x \in Workers : x # w => work'[x] = work[x]
  OBVIOUS
<1>2. \A x \in Workers : Busy(x)' <=> work'[x].at \notin {"idle", "take"}
  BY DEF Busy
<1>3. \A x \in Workers : x # w => (Busy(x)' <=> Busy(x))
  BY <1>1, <1>2 DEF Busy
<1>4. \A x \in Workers : x # w /\ Busy(x) => ~(Busy(w) /\ work[x].vol = work[w].vol)
  BY DEF Workers
<1>5. \A x \in Workers : x # w /\ Busy(x) => policy'[work'[x].vol] = policy[work[x].vol]
  BY <1>1, <1>4
<1>6. IsSecureBootOn' <=> IsSecureBootOn
  BY DEF IsSecureBootOn
<1>7. ASSUME NEW x \in Workers
      PROVE  /\ ~Busy(x)' => work'[x].vol = NoVolume
             /\ Busy(x)' => work'[x].vol \in visited' /\ work'[x].vol \in Volumes
             /\ phase' = "boot" /\ work'[x].at = "remove" => ~IsSecureBootOn'
             /\ phase' = "boot" /\ work'[x].at \in {"compare", "delete", "create", "write"} => IsSecureBootOn'
             /\ clean' /\ work'[x].at = "create" => policy'[work'[x].vol] = "absent"
             /\ clean' /\ work'[x].at = "write" => policy'[work'[x].vol] = "empty"
  <2>1. CASE x = w
    BY <1>1, <1>2, <1>6, <2>1
  <2>2. CASE x # w
    BY <1>1, <1>3, <1>5, <1>6, <2>2 DEF Busy
  <2>. QED  BY <2>1, <2>2
<1>8. Busy("entry")' /\ Busy("callback")' => work'["entry"].vol # work'["callback"].vol
  <2>1. ASSUME NEW x \in Workers, x # w, Busy(x), n.at \notin {"idle", "take"} PROVE work[x].vol # n.vol
    BY <1>4, <2>1
  <2>. QED  BY <1>1, <1>2, <1>3, <2>1 DEF Workers
<1>9. work' \in [Workers -> Positions]
  BY ZenonT(30)
<1>. QED  BY <1>7, <1>8, <1>9

(* What the activation that is done with a volume leaves of its file.      *)
Settled(w) == work[w].vol \in Esp => policy'[work[w].vol] = IF IsSecureBootOn THEN "default" ELSE "absent"

(* A step of one activation keeps PolicyWork, settles the volume it leaves *)
(* in a boot without faults, and does not disturb the other activation.    *)
LEMMA PolicyWorkSteps ==
  ASSUME IInv, PolicyWork, NEW w \in Workers, Policy(w)
  PROVE  /\ PolicyWork' /\ (clean' /\ Busy(w) /\ ~Busy(w)' => Settled(w))
         /\ \A x \in Workers : x # w => work'[x] = work[x]
         /\ Busy(w) /\ Busy(w)' => work'[w].vol = work[w].vol
<1>. USE DEF At, Runs, KeepRest, histVars, Fault, NoFault, faultVars
<1>1. /\ phase = "boot" /\ UNCHANGED <<key, phase, present>>
      /\ visited \subseteq visited' /\ (clean' => clean) /\ work[w].at # "idle"
  BY Zenon DEF Policy, Take, TakeNone, TakeFails, OpenFails, OpenPolicy, Remove, Compare, Delete, Create, WritePolicy, nvVars
<1>2. /\ policy \in [Volumes -> Contents] /\ work \in [Workers -> Positions]
      /\ Busy(w) => work[w].vol \in visited /\ work[w].vol \in Volumes
      /\ Busy(w) <=> work[w].at \notin {"idle", "take"}
      /\ work[w] \in Positions
  BY DEF PolicyWork, Positions, Busy
<1> DEFINE to(s) == [at |-> s, vol |-> work[w].vol]
           away == [at |-> "take", vol |-> NoVolume]
<1>3. /\ \A s \in Stages : to(s) \in Positions /\ to(s).at = s /\ to(s).vol = work[w].vol
      /\ away \in Positions /\ away.at = "take" /\ away.vol = NoVolume
  BY <1>2 DEF Positions, Stages
<1>4. ASSUME NEW s \in Stages, Goto(w, s) PROVE Moves(w, to(s))
  BY <1>2, <1>4, GotoMoves
<1>5. ASSUME NextFile(w) PROVE Moves(w, away) /\ ~Busy(w)'
  BY <1>2, <1>3, <1>5 DEF NextFile, Busy, Moves
<1>6. ASSUME NEW s \in Stages \ {"idle", "take"}, Goto(w, s), Busy(w) PROVE Busy(w)'
  BY Zenon, <1>3, <1>4, <1>6 DEF Busy, Moves
<1>7. ASSUME NEW q \in Contents, SetPolicy(w, q), Busy(w)
      PROVE  /\ policy' \in [Volumes -> Contents] /\ policy'[work[w].vol] = q
             /\ \A v \in Volumes : v = work[w].vol \/ policy'[v] = policy[v]
  BY <1>2, <1>7 DEF SetPolicy
<1> HIDE DEF to, away
<1>8. ASSUME NextFile(w), policy' \in [Volumes -> Contents],
             \A v \in Volumes : (Busy(w) /\ v = work[w].vol) \/ policy'[v] = policy[v]
      PROVE  PolicyWork' /\ ~Busy(w)' /\ \A x \in Workers : x # w => work'[x] = work[x]
  BY Zenon, <1>1, <1>3, <1>5, <1>8, WorkerMoves DEF Moves
<1>10. CASE Take(w)
  <2>1. PICK v \in present \ visited : visited' = visited \cup {v}
                                       /\ work' = [work EXCEPT ![w] = [at |-> "open", vol |-> v]]
    BY Zenon, <1>10 DEF Take
  <2>2. policy' = policy /\ v \in Volumes /\ ~Busy(w)
    BY <1>10 DEF Take, PolicyWork, Busy
  <2> DEFINE n == [at |-> "open", vol |-> v]
  <2>3. n \in Positions /\ n.at = "open" /\ n.vol = v
    BY <2>2 DEF Positions, Stages
  <2> HIDE DEF n
  <2>4. Moves(w, n)
    BY <1>2, <2>1, <2>3 DEF n, Moves
  <2>. QED  BY Zenon, <1>1, <1>2, <2>1, <2>2, <2>3, <2>4, WorkerMoves DEF Moves
<1>11. CASE TakeNone(w) \/ TakeFails(w)
  <2>1. Idle \in Positions /\ Idle.at = "idle" /\ Idle.vol = NoVolume
    BY DEF Idle, Positions, Stages
  <2>2. policy' = policy /\ Moves(w, Idle) /\ ~Busy(w)
    BY ZenonT(30), <1>2, <1>11, <2>1 DEF TakeNone, TakeFails, Busy, Moves
  <2>. QED  BY <1>1, <1>2, <2>1, <2>2, WorkerMoves DEF Moves
<1>12. CASE OpenFails(w)
  <2>1. policy' = policy /\ NextFile(w) /\ ~clean'
    BY ZenonT(30), <1>12 DEF OpenFails
  <2>. QED  BY Zenon, <1>2, <1>8, <2>1
<1>13. CASE OpenPolicy(w)
  <2>1. policy' = policy /\ Busy(w) /\ Of(w) = policy[work[w].vol]
    BY <1>13 DEF OpenPolicy, Busy, Of
  <2>2. CASE Of(w) # "absent" /\ IsSecureBootOn
    <3>1. Goto(w, "compare") /\ "compare" \in Stages
      BY <1>13, <2>2 DEF OpenPolicy, Stages
    <3>2. Moves(w, to("compare")) /\ Busy(w)'
      BY <1>4, <1>6, <2>1, <3>1
    <3>. QED  BY <1>1, <1>2, <1>3, <2>1, <2>2, <3>1, <3>2, WorkerMoves DEF Moves
  <2>3. CASE Of(w) # "absent" /\ ~IsSecureBootOn
    <3>1. Goto(w, "remove") /\ "remove" \in Stages
      BY Zenon, <1>13, <2>3 DEF OpenPolicy, Stages
    <3>2. Moves(w, to("remove")) /\ Busy(w)'
      BY Zenon, <1>4, <1>6, <2>1, <3>1
    <3>. QED  BY <1>1, <1>2, <1>3, <2>1, <2>3, <3>1, <3>2, WorkerMoves DEF Moves
  <2>4. CASE Of(w) = "absent" /\ IsSecureBootOn
    <3>1. Goto(w, "create") /\ "create" \in Stages
      BY Zenon, <1>13, <2>4 DEF OpenPolicy, Stages
    <3>2. Moves(w, to("create")) /\ Busy(w)'
      BY <1>4, <1>6, <2>1, <3>1
    <3>3. PolicyWork'
      BY ZenonT(30), <1>1, <1>2, <1>3, <2>1, <2>4, <3>1, <3>2, WorkerMoves
    <3>. QED  BY ZenonT(30), <1>3, <3>1, <3>2, <3>3 DEF Moves
  <2>5. CASE Of(w) = "absent" /\ ~IsSecureBootOn
    <3>1. NextFile(w)
      BY ZenonT(30), <1>13, <2>5 DEF OpenPolicy
    <3>. QED  BY ZenonT(30), <1>2, <1>8, <2>1, <2>5, <3>1 DEF Settled
  <2>. QED  BY Zenon, <2>2, <2>3, <2>4, <2>5
<1>14. CASE Remove(w)
  <2>1. Busy(w) /\ ~IsSecureBootOn /\ NextFile(w)
    BY ZenonT(30), <1>1, <1>14 DEF Remove, Busy, PolicyWork
  <2>2. (SetPolicy(w, "absent") /\ "absent" \in Contents) \/ (policy' = policy /\ ~clean')
    BY ZenonT(30), <1>14 DEF Remove, Contents
  <2>. QED  BY Zenon, <1>2, <1>7, <1>8, <2>1, <2>2 DEF Settled
<1>15. CASE Compare(w)
  <2>1. Busy(w) /\ IsSecureBootOn /\ policy' = policy /\ Of(w) = policy[work[w].vol]
    BY ZenonT(30), <1>1, <1>15 DEF Compare, Busy, PolicyWork, Of
  <2>2. CASE NextFile(w)
    <3>1. ~clean' \/ Of(w) = "default"
      BY <1>2, <1>15, <2>2 DEF Compare, Goto, NextFile, Positions
    <3>. QED  BY Zenon, <1>2, <1>8, <2>1, <2>2, <3>1 DEF Settled
  <2>3. CASE Goto(w, "delete")
    <3>1. "delete" \in Stages
      BY DEF Stages
    <3>2. Moves(w, to("delete")) /\ Busy(w)'
      BY <1>4, <1>6, <2>1, <2>3, <3>1
    <3>. QED  BY <1>1, <1>2, <1>3, <2>1, <3>1, <3>2, WorkerMoves DEF Moves
  <2>. QED  BY Zenon, <1>15, <2>2, <2>3 DEF Compare
<1>16. CASE Delete(w)
  <2>1. Busy(w) /\ IsSecureBootOn /\ Goto(w, "create") /\ "create" \in Stages
    BY <1>1, <1>16 DEF Delete, Busy, PolicyWork, Stages
  <2>2. (SetPolicy(w, "absent") /\ "absent" \in Contents) \/ (policy' = policy /\ ~clean')
    BY Zenon, <1>16 DEF Delete, Contents
  <2>3. Moves(w, to("create")) /\ Busy(w)'
    BY ZenonT(30), <1>4, <1>6, <2>1
  <2>4. /\ policy' \in [Volumes -> Contents] /\ (clean' => policy'[work[w].vol] = "absent")
        /\ \A v \in Volumes : v = work[w].vol \/ policy'[v] = policy[v]
    BY ZenonT(30), <1>2, <1>7, <2>1, <2>2
  <2>. QED  BY <1>1, <1>2, <1>3, <2>1, <2>3, <2>4, WorkerMoves DEF Moves
<1>17. CASE Create(w)
  <2>1. Busy(w) /\ IsSecureBootOn /\ Of(w) = policy[work[w].vol] /\ (clean => Of(w) = "absent")
    BY ZenonT(30), <1>1, <1>17 DEF Create, Busy, PolicyWork, Of
  <2>2. CASE UNCHANGED policy /\ NextFile(w) /\ Fault
    BY Zenon, <1>2, <1>8, <2>2
  <2>3. CASE SetPolicy(w, IF Of(w) = "absent" THEN "empty" ELSE Of(w)) /\ Goto(w, "write") /\ NoFault
    <3>1. "write" \in Stages /\ (IF Of(w) = "absent" THEN "empty" ELSE Of(w)) \in Contents
      BY ZenonT(30), <1>2, <2>1 DEF Stages, Contents
    <3>2. Moves(w, to("write")) /\ Busy(w)'
      BY ZenonT(30), <1>4, <1>6, <2>1, <2>3, <3>1
    <3>3. /\ policy' \in [Volumes -> Contents] /\ (clean' => policy'[work[w].vol] = "empty")
          /\ \A v \in Volumes : v = work[w].vol \/ policy'[v] = policy[v]
      BY ZenonT(30), <1>1, <1>7, <2>1, <2>3, <3>1
    <3>. QED  BY <1>1, <1>2, <1>3, <2>1, <3>1, <3>2, <3>3, WorkerMoves DEF Moves
  <2>4. CASE work[w].vol \notin Esp /\ UNCHANGED policy /\ NextFile(w) /\ NoFault
    BY Zenon, <1>2, <1>8, <2>4 DEF Settled
  <2>. QED  BY Zenon, <1>17, <2>2, <2>3, <2>4 DEF Create
<1>18. CASE WritePolicy(w)
  <2>1. Busy(w) /\ IsSecureBootOn /\ Of(w) = policy[work[w].vol] /\ (clean => Of(w) = "empty") /\ NextFile(w)
    BY <1>1, <1>18 DEF WritePolicy, Busy, PolicyWork, Of
  <2>2. PICK q \in Contents : SetPolicy(w, q) /\ (clean' => q = "default")
    BY <1>1, <1>2, <1>18, <2>1 DEF WritePolicy, Contents
  <2>. QED  BY Zenon, <1>7, <1>8, <2>1, <2>2 DEF Settled
<1>. QED  BY Zenon, <1>10, <1>11, <1>12, <1>13, <1>14, <1>15, <1>16, <1>17, <1>18 DEF Policy

(* The steps that leave every activation with its volume.                  *)
LEMMA PolicyWorkOther ==
  ASSUME IInv, PolicyWork, [Next]_vars, ~\E w \in Workers : Policy(w)
  PROVE  PolicyWork' /\ (Boot \/ \A w \in Workers : work'[w].vol = work[w].vol)
<1>1. CASE Boot
  <2>1. UNCHANGED policy /\ work' = [w \in Workers |-> Idle] /\ present' = {}
    BY <1>1 DEF Boot
  <2>. QED  BY <1>1, <2>1 DEF PolicyWork, Workers, Idle, Stages, Busy
<1>2. CASE Notify \/ (Entry /\ Register)
  <2>1. PICK x \in Workers : (Goto(x, "take") /\ work[x].at = "idle") \/ work' = work
    BY <1>2 DEF Notify, Register, Workers, Goto, EntryAt, IInv, Shape
  <2>2. /\ UNCHANGED <<key, policy, present, visited, phase>> /\ (clean' => clean)
    BY <1>2 DEF Notify, Register, nvVars, Fault, NoFault, faultVars
  <2>3. CASE work' = work
    BY <2>2, <2>3 DEF PolicyWork, Busy, IsSecureBootOn
  <2>4. CASE work' # work
    <3> DEFINE n == [at |-> "take", vol |-> work[x].vol]
    <3>1. Moves(x, n)
      BY Zenon, <2>1, <2>4, GotoMoves DEF PolicyWork, Positions, Stages
    <3>2. work[x].vol = NoVolume /\ policy \in [Volumes -> Contents] /\ phase = "boot"
      BY <1>2, <2>1, <2>4 DEF PolicyWork, Busy, Notify, Register, EntryAt, Runs
    <3>3. n \in Positions /\ n.at = "take" /\ n.vol = work[x].vol
      BY ZenonT(30), <3>2 DEF Positions, Stages
    <3> HIDE DEF n
    <3>4. PolicyWork'
      BY Zenon, <2>2, <3>1, <3>2, <3>3, WorkerMoves
    <3>. QED  BY <3>1, <3>3, <3>4 DEF Moves
  <2>. QED  BY <2>3, <2>4
<1>3. CASE \/ (Entry /\ ~Register) \/ (\E v \in Volumes : Arrive(v)) \/ UserSwitches \/ UserRemovesPK \/ UserEnrolls
           \/ HandOff \/ PowerLoss \/ UNCHANGED vars
  <2>1. /\ UNCHANGED <<policy, work, visited>> /\ present' \subseteq Volumes /\ (clean' => clean)
        /\ (phase' = "boot" => phase = "boot")
    <3>. present \subseteq Volumes
      BY ZenonT(30) DEF PolicyWork
    <3> HIDE DEF PolicyWork
    <3>1. CASE Entry /\ ~Register
      <4>1. KeepFs /\ (NoFault \/ Fault)
        BY <3>1 DEF Entry, CheckChoice, CheckSetupMode, EnterCustomMode, EnrollKeys, Enroll, EnrollOptional,
                    EnrollPK, LeaveCustomMode, Enable
      <4>. QED  BY <4>1 DEF KeepFs, fsVars, NoFault, Fault, faultVars
    <3>2. CASE \E v \in Volumes : Arrive(v)
      <4>1. PICK v \in Volumes : Arrive(v)
        BY <3>2
      <4> QED
        BY <4>1 DEF Arrive, NoFault, faultVars
    <3>3. CASE UserSwitches \/ UserRemovesPK \/ UserEnrolls
      BY <3>3 DEF UserSwitches, UserRemovesPK, UserEnrolls, InMenu, KeepFs, fsVars, Fault, NoFault, faultVars
    <3>4. CASE HandOff \/ PowerLoss
      BY <3>4 DEF HandOff, PowerLoss, Runs, KeepFs, fsVars, Fault, NoFault, faultVars
    <3>5. CASE UNCHANGED vars
      BY <3>5 DEF vars, fsVars, faultVars, histVars
    <3>. QED  BY <1>3, <3>1, <3>2, <3>3, <3>4, <3>5
  <2>2. ~Boot
    BY <2>1 DEF Boot
  <2>3. \A w \in Workers : Busy(w) => key' = key
    BY <2>2, KeysStill DEF Busy
  <2>. QED  BY <2>1, <2>3 DEF PolicyWork, Busy, IsSecureBootOn
<1>. QED  BY Zenon, <1>1, <1>2, <1>3 DEF Next

(* In a boot without faults SiPolicy.p7b is the default one exactly when   *)
(* there is a PK, once OnFileSystemNotification is done with the ESP,      *)
(* whatever an earlier boot left of the file and however the entry point's *)
(* scan and the callback share the volumes.                                *)
THEOREM PolicyFollowsPkHolds == Spec => PolicyFollowsPk
<1>1. PolicyWork /\ IInv /\ [Next]_vars => PolicyWork'
  BY Zenon, PolicyWorkSteps, PolicyWorkOther
<1>2. ASSUME IInv, PolicyWork, Next, NEW w \in Workers, work[w].vol \in Esp, work'[w].vol = NoVolume,
             clean', phase = "boot", phase' = "boot"
      PROVE  policy'[work[w].vol] = IF IsSecureBootOn THEN "default" ELSE "absent"
  <2>0. work[w].vol # NoVolume
    BY <1>2, VolumesAssumption
  <2>1. PICK x \in Workers : Policy(x)
    <3>1. ~Boot
      BY <1>2 DEF Boot
    <3>. QED  BY <1>2, <2>0, <3>1, PolicyWorkOther
  <2>2. x = w
    <3>1. x # w => work'[w] = work[w]
      BY <1>2, <2>1, PolicyWorkSteps
    <3>. QED  BY <1>2, <2>0, <3>1
  <2>3. Busy(w)
    BY ZenonT(30), <1>2, <2>0 DEF PolicyWork
  <2>4. CASE ~Busy(w)'
    BY <1>2, <2>1, <2>2, <2>3, <2>4, PolicyWorkSteps DEF Settled
  <2>5. CASE Busy(w)'
    <3>1. work'[w].vol = work[w].vol
      BY <1>2, <2>1, <2>2, <2>3, <2>5, PolicyWorkSteps
    <3>. QED  BY <1>2, <2>0, <3>1
  <2>. QED  BY <2>4, <2>5
<1>3. PolicyWork /\ IInv /\ [Next]_vars =>
        [\A w \in Workers :
            work[w].vol \in Esp /\ work'[w].vol = NoVolume /\ clean' /\ phase = "boot" /\ phase' = "boot"
              => policy'[work[w].vol] = IF IsSecureBootOn THEN "default" ELSE "absent"]_vars
  BY <1>2
<1>. QED  BY IInvHolds, PolicyWorkInit, <1>1, <1>3, PTL DEF Spec, PolicyFollowsPk

-----------------------------------------------------------------------------
(* The keyboard. *)

(* The events there are: those of keys have a key's code. *)
Event ==
  {e \in [type : {"key", "syn"}, code : Codes \cup {NoKey}, value : 0..2] :
     e.type = "key" <=> e.code \in Codes}

(* The types the argument needs; a used buffer holds an event. *)
KeyTypes ==
  /\ source \in Seq(Event) /\ queue \in Seq(Event)
  /\ avail \in Seq(Buffers) /\ used \in Seq(Buffers)
  /\ mem \in [Buffers -> Seq(Event)]
  /\ next \in Buffers
  /\ \A n \in DOMAIN used : mem[used[n]] # <<>>

(* The buffers the device has used and those it may use, one after the other:   *)
(* all buffers, in the order of the cycle that the driver gives them back in.   *)
Slot(i) == IF i <= Len(used) THEN used[i] ELSE avail[i - Len(used)]
RingOrder ==
  /\ Len(used) + Len(avail) = QueueSize
  /\ Slot(1) = next
  /\ \A i \in 1..QueueSize : Slot(IF i = QueueSize THEN 1 ELSE i + 1) = (Slot(i) + 1) % QueueSize
  /\ \A i, j \in 1..QueueSize : Slot(i) = Slot(j) => i = j

(* Events of a key are among these; the last of them tells if it is down.       *)
Has(events, code) == \E i \in DOMAIN events : events[i].code = code
Right(events, code, down) ==
  \A i \in DOMAIN events :
    events[i].code = code /\ (\A j \in DOMAIN events : j > i => events[j].code # code)
      => (events[i].value = 0 <=> code \notin down)

(* The last event of a key that is on its way tells whether it is down.  If     *)
(* none is, the driver knows.                                                   *)
OnItsWay(code) ==
  \/ Has(source, code) \/ Has(queue, code)
  \/ \E n \in DOMAIN used : Has(mem[used[n]], code)
Stream(code) ==
  /\ Right(source, code, held)
  /\ ~Has(source, code) => Right(queue, code, held)
  /\ ~Has(source, code) /\ ~Has(queue, code) =>
       \A n \in DOMAIN used :
         (\A m \in DOMAIN used : m > n => ~Has(mem[used[m]], code)) => Right(mem[used[n]], code, held)
  /\ ~OnItsWay(code) /\ code \notin missed => (code \in active <=> code \in held)

(* What a reader has copied is the last key, and no callback runs. *)
Reading == copied # NoKey => copied = lastKey /\ ~polling

KeyInv == KeyTypes /\ RingOrder /\ (\A code \in Codes : Stream(code)) /\ Reading

-----------------------------------------------------------------------------
(* A sequence that is one followed by another: its events are theirs, and its   *)
(* last event of a key is the second's, if that has one.                        *)
LEMMA Joined ==
  ASSUME NEW s \in Seq(Event), NEW t \in Seq(Event), NEW c, NEW H
  PROVE  /\ s \o t \in Seq(Event)
         /\ Has(s \o t, c) <=> Has(s, c) \/ Has(t, c)
         /\ Right(s \o t, c, H) <=> Right(t, c, H) /\ (~Has(t, c) => Right(s, c, H))
<1> DEFINE u == s \o t
<1>1. u \in Seq(Event) /\ Len(u) = Len(s) + Len(t) /\ Len(s) \in Nat /\ Len(t) \in Nat
  OBVIOUS
<1>2. \A i \in 1..Len(s) : i \in 1..Len(u) /\ u[i] = s[i]
  OBVIOUS
<1>3. \A i \in 1..Len(t) : Len(s) + i \in 1..Len(u) /\ u[Len(s) + i] = t[i]
  OBVIOUS
<1>4. \A i \in 1..Len(u) : i \in 1..Len(s) \/ (i - Len(s) \in 1..Len(t) /\ u[i] = t[i - Len(s)])
  OBVIOUS
<1>5. DOMAIN s = 1..Len(s) /\ DOMAIN t = 1..Len(t) /\ DOMAIN u = 1..Len(u)
  BY <1>1
<1> HIDE DEF u
<1>6. Has(u, c) <=> Has(s, c) \/ Has(t, c)
  <2>1. ASSUME Has(u, c) PROVE Has(s, c) \/ Has(t, c)
    <3>1. PICK i \in 1..Len(u) : u[i].code = c
      BY <1>5, <2>1 DEF Has
    <3>2. CASE i \in 1..Len(s)
      BY <1>2, <1>5, <3>1, <3>2 DEF Has
    <3>3. CASE i - Len(s) \in 1..Len(t) /\ u[i] = t[i - Len(s)]
      BY <1>5, <3>1, <3>3 DEF Has
    <3> QED
      BY <1>4, <3>2, <3>3
  <2>2. ASSUME Has(s, c) PROVE Has(u, c)
    BY <1>2, <1>5, <2>2 DEF Has
  <2>3. ASSUME Has(t, c) PROVE Has(u, c)
    BY <1>3, <1>5, <2>3 DEF Has
  <2> QED
    BY <2>1, <2>2, <2>3
<1>7. ASSUME Right(u, c, H) PROVE Right(t, c, H)
  <2> SUFFICES ASSUME NEW i \in 1..Len(t), t[i].code = c, \A j \in 1..Len(t) : j > i => t[j].code # c
               PROVE  t[i].value = 0 <=> c \notin H
    BY <1>5 DEF Right
  <2>1. \A j \in 1..Len(u) : j > Len(s) + i => u[j].code # c
    <3> SUFFICES ASSUME NEW j \in 1..Len(u), j > Len(s) + i PROVE u[j].code # c
      OBVIOUS
    <3>1. j - Len(s) \in 1..Len(t) /\ u[j] = t[j - Len(s)] /\ j - Len(s) > i
      BY <1>1, <1>4
    <3> QED
      BY <3>1
  <2> QED
    BY <1>3, <1>5, <1>7, <2>1 DEF Right
<1>8. ASSUME Right(u, c, H), ~Has(t, c) PROVE Right(s, c, H)
  <2> SUFFICES ASSUME NEW i \in 1..Len(s), s[i].code = c, \A j \in 1..Len(s) : j > i => s[j].code # c
               PROVE  s[i].value = 0 <=> c \notin H
    BY <1>5, SMTT(30) DEF Right
  <2>1. \A j \in 1..Len(u) : j > i => u[j].code # c
    BY Zenon, <1>1, <1>2, <1>4, <1>5, <1>8 DEF Has
  <2> QED
    BY <1>2, <1>5, <1>8, <2>1 DEF Right
<1>9. ASSUME Right(t, c, H), ~Has(t, c) => Right(s, c, H) PROVE Right(u, c, H)
  <2> SUFFICES ASSUME NEW i \in 1..Len(u), u[i].code = c, \A j \in 1..Len(u) : j > i => u[j].code # c
               PROVE  u[i].value = 0 <=> c \notin H
    BY <1>5 DEF Right
  <2>1. CASE i \in 1..Len(s)
    <3>1. ~Has(t, c)
      BY <1>1, <1>3, <1>5, <2>1 DEF Has
    <3>2. \A j \in 1..Len(s) : j > i => s[j].code # c
      BY <1>2
    <3> QED
      BY <1>2, <1>5, <1>9, <2>1, <3>1, <3>2 DEF Right
  <2>2. CASE i \notin 1..Len(s)
    <3>1. i - Len(s) \in 1..Len(t) /\ u[i] = t[i - Len(s)]
      BY <1>4, <2>2
    <3>2. \A j \in 1..Len(t) : j > i - Len(s) => t[j].code # c
      BY <1>1, <1>3
    <3> QED
      BY <1>5, <1>9, <3>1, <3>2 DEF Right
  <2> QED
    BY <2>1, <2>2
<1> QED
  BY <1>1, <1>6, <1>7, <1>8, <1>9 DEF u

(* The events of one sequence followed by another.                              *)
LEMMA Chained ==
  ASSUME NEW s \in Seq(Event), NEW t \in Seq(Event)
  PROVE  /\ s \o t \in Seq(Event) /\ Len(s \o t) = Len(s) + Len(t)
         /\ \A i \in 1..Len(s) : (s \o t)[i] = s[i]
         /\ \A i \in 1..Len(t) : (s \o t)[Len(s) + i] = t[i]
OBVIOUS

(* What a buffer takes of the queue and what stays are the queue.               *)
LEMMA FilledSplits ==
  ASSUME NEW q \in Seq(Event), q # <<>>
  PROVE  LET rest == SubSeq(q, Len(Filled(q)) + 1, Len(q)) IN
         /\ Filled(q) \in Seq(Event) /\ Filled(q) # <<>>
         /\ rest \in Seq(Event)
         /\ q = Filled(q) \o rest
<1> DEFINE k == IF Len(q) < PerBuffer THEN Len(q) ELSE PerBuffer
<1>1. k \in 1..Len(q) /\ Filled(q) = SubSeq(q, 1, k)
  BY KeyboardOK DEF Filled
<1> HIDE DEF k
<1>2. Filled(q) \in Seq(Event) /\ Len(Filled(q)) = k /\ \A i \in 1..k : Filled(q)[i] = q[i]
  BY <1>1
<1>3. Filled(q) # <<>>
  BY <1>1, <1>2
<1> DEFINE rest == SubSeq(q, k + 1, Len(q))
<1>4. rest \in Seq(Event) /\ Len(rest) = Len(q) - k /\ \A i \in 1..(Len(q) - k) : rest[i] = q[k + i]
  BY <1>1
<1> DEFINE f == Filled(q)
<1> HIDE DEF rest, f
<1>5. q = f \o rest
  <2>1. f \in Seq(Event) /\ Len(f) = k /\ \A i \in 1..k : f[i] = q[i]
    BY <1>2 DEF f
  <2>2. k \in Nat /\ Len(q) \in Nat
    BY <1>1
  <2> DEFINE w == f \o rest
  <2>3. /\ w \in Seq(Event) /\ Len(w) = Len(f) + Len(rest)
        /\ \A i \in 1..Len(f) : w[i] = f[i]
        /\ \A i \in 1..Len(rest) : w[Len(f) + i] = rest[i]
    BY Chained, <1>4, <2>1
  <2> HIDE DEF w
  <2>4. \A i \in 1..Len(q) : w[i] = q[i]
    <3> SUFFICES ASSUME NEW i \in 1..Len(q) PROVE w[i] = q[i]
      OBVIOUS
    <3>1. CASE i \in 1..k
      BY <2>1, <2>3, <3>1
    <3>2. CASE i - k \in 1..(Len(q) - k)
      <4> DEFINE d == i - k
      <4>1. d \in 1..Len(rest) /\ k + d = i
        BY <1>4, <2>2, <3>2
      <4> HIDE DEF d
      <4>2. w[k + d] = rest[d] /\ rest[d] = q[k + d]
        BY <1>4, <2>1, <2>3, <4>1
      <4> QED
        BY <4>1, <4>2
    <3>3. i \in 1..k \/ i - k \in 1..(Len(q) - k)
      BY <2>2
    <3> QED
      BY <3>1, <3>2, <3>3
  <2>5. q = w
    BY <1>4, <2>1, <2>2, <2>3, <2>4, SMTT(30)
  <2> QED
    BY <2>5 DEF w
<1> QED
  BY <1>2, <1>3, <1>4, <1>5, SMTT(30) DEF rest, f

-----------------------------------------------------------------------------
(* Buffers given to the device in order are in the order of the cycle.          *)
LEMMA FirstCycle ==
  ASSUME NEW i \in 1..QueueSize
  PROVE  LET n == IF i = QueueSize THEN 1 ELSE i + 1 IN
         n \in 1..QueueSize /\ n - 1 = (i - 1 + 1) % QueueSize
<1>1. i - 1 + 1 = i
  OBVIOUS
<1>2. CASE i = QueueSize
  <2>1. QueueSize % QueueSize = 0
    BY KeyboardOK
  <2> QED
    BY KeyboardOK, <1>1, <1>2, <2>1
<1>3. CASE i # QueueSize
  <2>1. i % QueueSize = i
    BY KeyboardOK, <1>3
  <2> QED
    BY KeyboardOK, <1>1, <1>3, <2>1
<1> QED
  BY <1>2, <1>3

(* The initial state.                                                           *)
LEMMA KeyInitInv ==
  ASSUME KeyboardInit
  PROVE  KeyInv
<1>1. KeyTypes
  BY KeyboardOK DEF KeyboardInit, KeyTypes, Buffers
<1>2. RingOrder
  <2>1. \A i \in 1..QueueSize : Slot(i) = i - 1
    BY KeyboardOK DEF KeyboardInit, Slot
  <2>2. Len(used) = 0 /\ Len(avail) = QueueSize
    BY KeyboardOK DEF KeyboardInit
  <2>3. ASSUME NEW i \in 1..QueueSize
        PROVE  Slot(IF i = QueueSize THEN 1 ELSE i + 1) = (Slot(i) + 1) % QueueSize
    BY <2>1, FirstCycle
  <2> QED
    BY KeyboardOK, <2>1, <2>2, <2>3 DEF RingOrder, KeyboardInit
<1>3. ASSUME NEW code \in Codes PROVE Stream(code)
  BY DEF KeyboardInit, Stream, Right, Has, OnItsWay
<1> QED
  BY <1>1, <1>2, <1>3 DEF KeyInv, Reading, KeyboardInit

(* The stream of a key after a step.                                            *)
LEMMA StreamNext ==
  ASSUME NEW d,
         Right(source', d, held'),
         ~Has(source', d) => Right(queue', d, held'),
         ~Has(source', d) /\ ~Has(queue', d) =>
           \A n \in DOMAIN used' :
             (\A m \in DOMAIN used' : m > n => ~Has(mem'[used'[m]], d)) => Right(mem'[used'[n]], d, held'),
         ~OnItsWay(d)' /\ d \notin missed' => (d \in active' <=> d \in held')
  PROVE  Stream(d)'
<1>1. /\ Right(source, d, held)' <=> Right(source', d, held')
      /\ Right(queue, d, held)' <=> Right(queue', d, held')
      /\ \A n : Right(mem[used[n]], d, held)' <=> Right(mem'[used'[n]], d, held')
  BY Zenon DEF Right
<1>2. /\ Has(source, d)' <=> Has(source', d)
      /\ Has(queue, d)' <=> Has(queue', d)
      /\ \A n : Has(mem[used[n]], d)' <=> Has(mem'[used'[n]], d)
  BY DEF Has
<1> QED
  BY Zenon, <1>1, <1>2 DEF Stream

(* A key has an event on its way after a step.                                  *)
LEMMA OnItsWayNext ==
  ASSUME NEW d
  PROVE  OnItsWay(d)' <=> \/ Has(source', d) \/ Has(queue', d)
                         \/ \E n \in DOMAIN used' : Has(mem'[used'[n]], d)
<1>1. /\ Has(source, d)' <=> Has(source', d)
      /\ Has(queue, d)' <=> Has(queue', d)
      /\ \A n : Has(mem[used[n]], d)' <=> Has(mem'[used'[n]], d)
  BY DEF Has
<1> QED
  BY Zenon, <1>1 DEF OnItsWay

(* Nothing that the invariant speaks of changes.                                *)
LEMMA KeySame ==
  ASSUME KeyInv, UNCHANGED <<source, queue, ring, active, held, missed>>, Reading'
  PROVE  KeyInv'
<1>1. /\ source' = source /\ queue' = queue /\ active' = active /\ held' = held /\ missed' = missed
      /\ avail' = avail /\ used' = used /\ mem' = mem /\ next' = next
  BY DEF ring
<1>2. KeyTypes' /\ RingOrder'
  BY <1>1 DEF KeyInv, KeyTypes, RingOrder, Slot
<1>3. ASSUME NEW d \in Codes PROVE Stream(d)'
  <2>1. Stream(d)
    BY DEF KeyInv
  <2>2. OnItsWay(d)' <=> OnItsWay(d)
    BY Zenon, <1>1, OnItsWayNext DEF OnItsWay
  <2> QED
    BY Zenon, <1>1, <2>1, <2>2, StreamNext DEF Stream
<1> QED
  BY <1>2, <1>3 DEF KeyInv

(* The keyboard reports: the new event is the last of its key.                  *)
LEMMA ReportInv ==
  ASSUME KeyInv, NEW c \in Codes, NEW v \in 0..2, Report(c, v)
  PROVE  KeyInv'
<1> DEFINE t == <<KeyEvent(c, v), Syn>>
<1>1. t \in Seq(Event)
  BY KeyboardOK DEF Event, KeyEvent, Syn
<1>2. Len(t) = 2 /\ t[1].code = c /\ t[1].value = v /\ t[2].code = NoKey /\ DOMAIN t = {1, 2}
  BY DEF KeyEvent, Syn
<1>3. /\ source' = source \o t
      /\ UNCHANGED <<queue, ring, active, lastKey, polling, copied, missed>>
      /\ c \in held' <=> v # 0
      /\ \A d \in Codes : d # c => (d \in held' <=> d \in held)
  BY DEF Report, driver
<1> HIDE DEF t
<1>4. KeyTypes'
  BY <1>1, <1>3, Joined DEF KeyInv, KeyTypes, ring
<1>5. RingOrder'
  BY <1>3 DEF KeyInv, RingOrder, Slot, ring
<1>6. ASSUME NEW d \in Codes PROVE Stream(d)'
  <2>1. Has(source', d) <=> Has(source, d) \/ Has(t, d)
    BY Zenon, <1>1, <1>3, Joined DEF KeyInv, KeyTypes
  <2>2. Right(source', d, held') <=> Right(t, d, held') /\ (~Has(t, d) => Right(source, d, held'))
    BY <1>1, <1>3, Joined DEF KeyInv, KeyTypes
  <2>3. CASE d = c
    <3>1. Has(t, d)
      BY <1>2, <2>3 DEF Has
    <3>2. Right(t, d, held')
      BY KeyboardOK, <1>2, <1>3, <2>3 DEF Right
    <3>3. Has(source', d) /\ Right(source', d, held')
      BY <2>1, <2>2, <3>1, <3>2
    <3>4. OnItsWay(d)'
      BY <3>3, OnItsWayNext
    <3> QED
      BY Zenon, <3>3, <3>4, StreamNext
  <2>4. CASE d # c
    <3>1. ~Has(t, d) /\ Right(t, d, held')
      BY KeyboardOK, <1>2, <2>4 DEF Has, Right
    <3>2. \A s : Right(s, d, held') <=> Right(s, d, held)
      BY Zenon, <1>3, <2>4 DEF Right
    <3>3. Stream(d)
      BY DEF KeyInv
    <3>4. Has(source', d) <=> Has(source, d)
      BY <2>1, <3>1
    <3>5. Right(source', d, held')
      BY <2>2, <3>1, <3>2, <3>3 DEF Stream
    <3>6. queue' = queue /\ used' = used /\ mem' = mem /\ missed' = missed /\ active' = active
      BY Zenon, <1>3 DEF ring
    <3>7. OnItsWay(d)' <=> OnItsWay(d)
      BY <3>4, <3>6, OnItsWayNext DEF OnItsWay
    <3>8. d \in held' <=> d \in held
      BY <1>3, <2>4
    <3> QED
      BY Zenon, <3>2, <3>3, <3>4, <3>5, <3>6, <3>7, <3>8, StreamNext DEF Stream
  <2> QED
    BY <2>3, <2>4
<1> QED
  BY <1>3, <1>4, <1>5, <1>6 DEF KeyInv, Reading

(* The worker takes the events of its source behind those it has.               *)
LEMMA ReceiveEventsInv ==
  ASSUME KeyInv, ReceiveEvents
  PROVE  KeyInv'
<1>1. /\ queue' = queue \o source /\ source' = <<>>
      /\ UNCHANGED <<ring, active, lastKey, polling, copied, held, missed>>
  BY DEF ReceiveEvents, driver
<1>2. source \in Seq(Event) /\ queue \in Seq(Event)
  BY DEF KeyInv, KeyTypes
<1>3. KeyTypes'
  BY <1>1, <1>2, Joined DEF KeyInv, KeyTypes, ring
<1>4. RingOrder'
  BY <1>1 DEF KeyInv, RingOrder, Slot, ring
<1>5. ASSUME NEW d \in Codes PROVE Stream(d)'
  <2>1. Has(queue', d) <=> Has(queue, d) \/ Has(source, d)
    BY Zenon, <1>1, <1>2, Joined
  <2>2. Right(queue', d, held) <=> Right(source, d, held) /\ (~Has(source, d) => Right(queue, d, held))
    BY Zenon, <1>1, <1>2, Joined
  <2>3. ~Has(source', d) /\ Right(source', d, held)
    BY <1>1 DEF Has, Right
  <2>4. Stream(d)
    BY DEF KeyInv
  <2>5. used' = used /\ mem' = mem /\ missed' = missed /\ active' = active /\ held' = held
    BY <1>1 DEF ring
  <2>6. OnItsWay(d)' <=> OnItsWay(d)
    BY Zenon, <2>1, <2>3, <2>5, OnItsWayNext DEF OnItsWay
  <2> QED
    BY Zenon, <2>1, <2>2, <2>3, <2>4, <2>5, <2>6, StreamNext DEF Stream
<1> QED
  BY <1>1, <1>3, <1>4, <1>5 DEF KeyInv, Reading

(* A buffer takes the first events of the queue: it is none of those in use,    *)
(* and its events go before what stays in the queue.                            *)
LEMMA SendEventsInv ==
  ASSUME KeyInv, SendEvents
  PROVE  KeyInv'
<1>1. CASE ~(queue # <<>> /\ avail # <<>>)
  <2>1. UNCHANGED <<source, queue, ring, active, lastKey, polling, copied, held, missed>>
    BY Zenon, <1>1 DEF SendEvents, driver
  <2> QED
    BY <2>1, KeySame DEF KeyInv, Reading
<1>2. CASE queue # <<>> /\ avail # <<>>
  <2> DEFINE b == Head(avail)
             f == Filled(queue)
             rest == SubSeq(queue, Len(Filled(queue)) + 1, Len(queue))
  <2>1. /\ mem' = [mem EXCEPT ![b] = f] /\ queue' = rest
        /\ avail' = Tail(avail) /\ used' = Append(used, b) /\ next' = next
        /\ UNCHANGED <<source, active, lastKey, polling, copied, held, missed>>
    BY <1>2 DEF SendEvents, driver
  <2>2. KeyTypes /\ RingOrder
    BY DEF KeyInv
  <2>3. f \in Seq(Event) /\ f # <<>> /\ rest \in Seq(Event) /\ queue = f \o rest
    BY <1>2, <2>2, FilledSplits, SMTT(30) DEF KeyTypes
  <2>4. b \in Buffers /\ b = avail[1] /\ avail \in Seq(Buffers) /\ Len(avail) \in Nat \ {0}
    BY <1>2, <2>2 DEF KeyTypes
  <2> HIDE DEF b, f, rest
  <2>5. used \in Seq(Buffers) /\ Len(used) \in Nat /\ DOMAIN used = 1..Len(used)
    BY <2>2 DEF KeyTypes
  <2>6. ASSUME NEW n \in DOMAIN used PROVE used[n] # b
    <3>1. n \in 1..QueueSize /\ Len(used) + 1 \in 1..QueueSize
      BY KeyboardOK, <2>2, <2>4, <2>5 DEF RingOrder
    <3>2. Slot(n) = used[n] /\ Slot(Len(used) + 1) = b
      BY <2>4, <2>5 DEF Slot
    <3> QED
      BY <2>2, <2>5, <3>1, <3>2 DEF RingOrder
  <2>7. /\ used' \in Seq(Buffers) /\ Len(used') = Len(used) + 1 /\ DOMAIN used' = 1..(Len(used) + 1)
        /\ \A n \in DOMAIN used : used'[n] = used[n]
        /\ used'[Len(used) + 1] = b
    BY <2>1, <2>4, <2>5
  <2>8. /\ avail' \in Seq(Buffers) /\ Len(avail') = Len(avail) - 1
        /\ \A i \in 1..(Len(avail) - 1) : avail'[i] = avail[i + 1]
    BY <1>2, <2>1, <2>4
  <2>9. /\ mem' \in [Buffers -> Seq(Event)] /\ mem'[b] = f
        /\ \A n \in DOMAIN used : mem'[used[n]] = mem[used[n]]
    BY <2>1, <2>2, <2>3, <2>4, <2>5, <2>6, SMTT(30) DEF KeyTypes
  <2>10. KeyTypes'
    <3>1. ASSUME NEW n \in DOMAIN used' PROVE mem'[used'[n]] # <<>>
      <4>1. CASE n \in DOMAIN used
        BY <2>2, <2>7, <2>9, <4>1 DEF KeyTypes
      <4>2. CASE n = Len(used) + 1
        BY <2>3, <2>7, <2>9, <4>2
      <4> QED
        BY <2>5, <2>7, <4>1, <4>2
    <3> QED
      BY Zenon, <2>1, <2>2, <2>3, <2>7, <2>8, <2>9, <3>1 DEF KeyTypes
  <2>11. RingOrder'
    <3>1. Len(used') + Len(avail') = QueueSize
      BY <2>2, <2>4, <2>5, <2>7, <2>8 DEF RingOrder
    <3>2. ASSUME NEW i \in 1..QueueSize PROVE Slot(i)' = Slot(i)
      <4>0. QueueSize = Len(used) + Len(avail)
        BY <2>2 DEF RingOrder
      <4>1. CASE i <= Len(used)
        BY <2>5, <2>7, <4>1 DEF Slot
      <4>2. CASE i = Len(used) + 1
        BY <2>4, <2>5, <2>7, <4>2 DEF Slot
      <4>3. CASE i > Len(used) + 1
        <5> DEFINE d == i - (Len(used) + 1)
        <5>1. d \in 1..(Len(avail) - 1) /\ d + 1 = i - Len(used)
          BY <2>4, <2>5, <4>0, <4>3
        <5>2. Slot(i)' = avail'[d]
          BY <2>5, <2>7, <4>3 DEF Slot
        <5>3. Slot(i) = avail[d + 1]
          BY <2>5, <4>3, <5>1 DEF Slot
        <5> QED
          BY <2>8, <5>1, <5>2, <5>3
      <4> QED
        BY <2>5, <4>1, <4>2, <4>3
    <3>3. 1 \in 1..QueueSize /\ \A i \in 1..QueueSize : (IF i = QueueSize THEN 1 ELSE i + 1) \in 1..QueueSize
      BY KeyboardOK
    <3>4. Slot(1)' = next'
      BY <2>1, <2>2, <3>2, <3>3 DEF RingOrder
    <3>5. ASSUME NEW i \in 1..QueueSize
          PROVE  Slot(IF i = QueueSize THEN 1 ELSE i + 1)' = (Slot(i)' + 1) % QueueSize
      BY <2>2, <3>2, <3>3 DEF RingOrder
    <3>6. ASSUME NEW i \in 1..QueueSize, NEW j \in 1..QueueSize, Slot(i)' = Slot(j)' PROVE i = j
      BY <2>2, <3>2, <3>6 DEF RingOrder
    <3> QED
      BY <3>1, <3>4, <3>5, <3>6 DEF RingOrder
  <2>12. ASSUME NEW d \in Codes PROVE Stream(d)'
    <3>1. Stream(d)
      BY DEF KeyInv
    <3>2. source' = source /\ held' = held /\ missed' = missed /\ active' = active /\ queue' = rest
      BY <2>1
    <3>3. Has(queue, d) <=> Has(f, d) \/ Has(rest, d)
      BY <2>3, Joined
    <3>4. Right(queue, d, held) <=> Right(rest, d, held) /\ (~Has(rest, d) => Right(f, d, held))
      BY <2>3, Joined
    <3>5. ASSUME ~Has(source, d), ~Has(rest, d), NEW n \in DOMAIN used',
                 \A m \in DOMAIN used' : m > n => ~Has(mem'[used'[m]], d)
          PROVE  Right(mem'[used'[n]], d, held)
      <4>1. CASE n = Len(used) + 1
        BY Zenon, <2>7, <2>9, <3>1, <3>4, <3>5, <4>1 DEF Stream
      <4>2. CASE n \in DOMAIN used
        <5>1. ~Has(f, d)
          <6>1. Len(used) + 1 \in DOMAIN used' /\ Len(used) + 1 > n /\ mem'[used'[Len(used) + 1]] = f
            BY <2>5, <2>7, <2>9, <4>2
          <6> QED
            BY <3>5, <6>1
        <5>2. \A m \in DOMAIN used : m > n => ~Has(mem[used[m]], d)
          BY <2>5, <2>7, <2>9, <3>5, SMTT(30)
        <5>3. Right(mem[used[n]], d, held)
          BY <3>1, <3>3, <3>5, <4>2, <5>1, <5>2 DEF Stream
        <5> QED
          BY <2>7, <2>9, <4>2, <5>3
      <4> QED
        BY <2>5, <2>7, <4>1, <4>2
    <3>6. OnItsWay(d) => Has(source, d) \/ Has(rest, d) \/ \E n \in DOMAIN used' : Has(mem'[used'[n]], d)
      <4>1. ASSUME Has(f, d) PROVE \E n \in DOMAIN used' : Has(mem'[used'[n]], d)
        <5>1. Len(used) + 1 \in DOMAIN used' /\ mem'[used'[Len(used) + 1]] = f
          BY <2>5, <2>7, <2>9
        <5> QED
          BY <4>1, <5>1
      <4>2. ASSUME NEW n \in DOMAIN used, Has(mem[used[n]], d) PROVE \E m \in DOMAIN used' : Has(mem'[used'[m]], d)
        <5>1. n \in DOMAIN used' /\ mem'[used'[n]] = mem[used[n]]
          BY <2>5, <2>7, <2>9
        <5> QED
          BY <4>2, <5>1
      <4> QED
        BY <3>3, <4>1, <4>2 DEF OnItsWay
    <3>7. /\ Right(source, d, held)
          /\ ~Has(source, d) => Right(rest, d, held)
          /\ ~OnItsWay(d) /\ d \notin missed => (d \in active <=> d \in held)
      BY Zenon, <3>1, <3>4 DEF Stream
    <3>8. OnItsWay(d) => OnItsWay(d)'
      BY <3>2, <3>6, OnItsWayNext
    <3> QED
      BY Zenon, <3>2, <3>5, <3>7, <3>8, StreamNext
  <2> QED
    BY <2>1, <2>10, <2>11, <2>12 DEF KeyInv, Reading
<1> QED
  BY <1>1, <1>2

(* The key of a buffer's first event is told; every later one is skipped.       *)
LEMMA ToldOrSkipped ==
  ASSUME NEW h \in Seq(Event), h # <<>>, NEW d \in Codes
  PROVE  /\ d \in Told(h) <=> h[1].code = d
         /\ \A i \in DOMAIN h : i > 1 /\ h[i].code = d => d \in Skipped(h)
         /\ h[1].value = 2 /\ h[1].code = d => d \in Skipped(h)
<1>1. Len(h) \in Nat \ {0} /\ DOMAIN h = 1..Len(h)
  OBVIOUS
<1> DEFINE first == SubSeq(h, 1, 1)
           later == SubSeq(h, 2, Len(h))
<1>2. DOMAIN first = {1} /\ first[1] = h[1]
  BY <1>1
<1>3. DOMAIN later = 1..(Len(h) - 1) /\ \A j \in 1..(Len(h) - 1) : later[j] = h[j + 1]
  BY <1>1
<1>4. d \in Told(h) <=> h[1].code = d
  <2> HIDE DEF first
  <2>1. Told(h) = KeysOf(first)
    BY DEF Told, first
  <2> QED
    BY Zenon, <1>2, <2>1 DEF KeysOf
<1>5. ASSUME NEW i \in DOMAIN h, i > 1, h[i].code = d PROVE d \in Skipped(h)
  <2>1. KeysOf(later) \subseteq Skipped(h)
    BY DEF Skipped
  <2> HIDE DEF later
  <2>2. i - 1 \in DOMAIN later /\ later[i - 1] = h[i]
    <3> DEFINE j == i - 1
    <3>1. j \in 1..(Len(h) - 1) /\ j + 1 = i
      BY <1>1, <1>5
    <3> HIDE DEF j
    <3>2. j \in DOMAIN later /\ later[j] = h[i]
      BY <1>3, <3>1
    <3> QED
      BY <3>2 DEF j
  <2>3. d \in KeysOf(later)
    BY <1>5, <2>2 DEF KeysOf
  <2> QED
    BY <2>1, <2>3
<1>6. ASSUME h[1].value = 2, h[1].code = d PROVE d \in Skipped(h)
  BY <1>4, <1>6 DEF Skipped
<1> QED
  BY Zenon, <1>4, <1>5, <1>6

(* The driver takes the oldest used buffer, which is the one it gives back: the  *)
(* cycle of buffers turns by one.  A key whose last event was in that buffer is  *)
(* now known or missed.                                                         *)
LEMMA GetBufferInv ==
  ASSUME KeyInv, polling, GetBuffer, UNCHANGED <<device, copied, held>>
  PROVE  KeyInv'
<1> DEFINE h == mem[Head(used)]
           e == mem[Head(used)][1]
           Nx(i) == IF i = QueueSize THEN 1 ELSE i + 1
<1>1. KeyTypes /\ RingOrder
  BY DEF KeyInv
<1>2. /\ used # <<>> /\ used' = Tail(used) /\ avail' = Append(avail, next)
      /\ next' = (next + 1) % QueueSize /\ mem' = mem /\ polling' = polling
      /\ source' = source /\ queue' = queue /\ copied' = copied /\ held' = held
      /\ Decode(e) /\ missed' = (missed \ Told(h)) \cup Skipped(h)
  BY DEF GetBuffer, device
<1>3. /\ used \in Seq(Buffers) /\ Len(used) \in Nat \ {0} /\ DOMAIN used = 1..Len(used)
      /\ Head(used) = used[1] /\ 1 \in DOMAIN used
      /\ avail \in Seq(Buffers) /\ Len(avail) \in Nat /\ next \in Buffers
  BY <1>1, <1>2 DEF KeyTypes
<1>4. h \in Seq(Event) /\ h # <<>> /\ e \in Event /\ e = h[1] /\ 1 \in DOMAIN h
  <2>1. h \in Seq(Event) /\ h # <<>>
    <3>1. h = mem[used[1]] /\ used[1] \in Buffers
      BY <1>3
    <3>2. mem[used[1]] # <<>> /\ mem \in [Buffers -> Seq(Event)]
      BY Zenon, <1>1, <1>3 DEF KeyTypes
    <3> HIDE DEF h, e
    <3> QED
      BY <3>1, <3>2
  <2>2. e = h[1]
    OBVIOUS
  <2> HIDE DEF h, e
  <2>3. 1 \in DOMAIN h /\ h[1] \in Event
    BY <2>1
  <2> QED
    BY <2>1, <2>2, <2>3
<1>5. /\ used' \in Seq(Buffers) /\ Len(used') = Len(used) - 1 /\ DOMAIN used' = 1..(Len(used) - 1)
      /\ \A n \in 1..(Len(used) - 1) : used'[n] = used[n + 1] /\ n + 1 \in DOMAIN used
  BY <1>2, <1>3
<1>6. /\ avail' \in Seq(Buffers) /\ Len(avail') = Len(avail) + 1
      /\ \A i \in 1..Len(avail) : avail'[i] = avail[i]
      /\ avail'[Len(avail) + 1] = next
  BY <1>2, <1>3
<1> HIDE DEF h, e
<1>7. KeyTypes'
  <2>1. next' \in Buffers
    BY KeyboardOK, <1>2, <1>3 DEF Buffers
  <2>2. ASSUME NEW n \in DOMAIN used' PROVE mem'[used'[n]] # <<>>
    BY Zenon, <1>1, <1>2, <1>5 DEF KeyTypes
  <2> QED
    BY <1>1, <1>2, <1>5, <1>6, <2>1, <2>2 DEF KeyTypes
<1>8. RingOrder'
  <2>0. QueueSize = Len(used) + Len(avail) /\ QueueSize \in Nat \ {0} /\ Slot(1) = next
    BY KeyboardOK, <1>1 DEF RingOrder
  <2>1. Len(used') + Len(avail') = QueueSize
    BY <1>3, <1>5, <1>6, <2>0
  <2>2. \A i \in 1..QueueSize : Nx(i) \in 1..QueueSize
    BY <2>0
  <2>3. \A i \in 1..QueueSize : Slot(Nx(i)) = (Slot(i) + 1) % QueueSize
    BY <1>1 DEF RingOrder
  <2>4. ASSUME NEW i \in 1..QueueSize PROVE Slot(i)' = Slot(Nx(i))
    <3>1. CASE i <= Len(used) - 1
      <4>1. Nx(i) = i + 1 /\ i + 1 <= Len(used) /\ i \in 1..(Len(used) - 1)
        BY <1>3, <2>0, <3>1
      <4> QED
        BY <1>3, <1>5, <3>1, <4>1 DEF Slot
    <3>2. CASE i > Len(used) - 1 /\ i # QueueSize
      <4> DEFINE j == i + 1 - Len(used)
      <4>1. Nx(i) = i + 1 /\ ~(i + 1 <= Len(used)) /\ j \in 1..Len(avail) /\ i - (Len(used) - 1) = j
        BY <1>3, <2>0, <3>2
      <4>2. Slot(i)' = avail'[j]
        BY <1>3, <1>5, <3>2, <4>1 DEF Slot
      <4>3. Slot(Nx(i)) = avail[j]
        BY <4>1 DEF Slot
      <4> HIDE DEF j
      <4> QED
        BY <1>6, <4>1, <4>2, <4>3
    <3>3. CASE i = QueueSize
      <4>1. i - (Len(used) - 1) = Len(avail) + 1 /\ ~(i <= Len(used) - 1)
        BY <1>3, <2>0, <3>3
      <4>2. Slot(i)' = avail'[Len(avail) + 1]
        BY <1>5, <4>1 DEF Slot
      <4> QED
        BY <1>6, <2>0, <3>3, <4>2
    <3> QED
      BY <1>3, <3>1, <3>2, <3>3
  <2>5. Slot(1)' = next'
    <3>1. 1 \in 1..QueueSize
      BY <2>0
    <3> QED
      BY <1>2, <2>0, <2>3, <2>4, <3>1
  <2>6. ASSUME NEW i \in 1..QueueSize PROVE Slot(Nx(i))' = (Slot(i)' + 1) % QueueSize
    <3>1. Slot(Nx(i))' = Slot(Nx(Nx(i)))
      BY <2>2, <2>4
    <3> QED
      BY <2>2, <2>3, <2>4, <3>1
  <2>7. ASSUME NEW i \in 1..QueueSize, NEW j \in 1..QueueSize, Slot(i)' = Slot(j)' PROVE i = j
    <3>1. Nx(i) = Nx(j)
      BY <1>1, <2>2, <2>4, <2>7, SMTT(30) DEF RingOrder
    <3> QED
      BY <2>0, <3>1
  <2> QED
    BY <2>1, <2>5, <2>6, <2>7 DEF RingOrder
<1>9. ASSUME NEW d \in Codes PROVE Stream(d)'
  <2>1. Stream(d)
    BY ZenonT(30) DEF KeyInv
  <2>2. ASSUME ~Has(source, d), ~Has(queue, d), NEW n \in DOMAIN used',
               \A m \in DOMAIN used' : m > n => ~Has(mem[used'[m]], d)
        PROVE  Right(mem[used'[n]], d, held)
    <3>1. n + 1 \in DOMAIN used /\ used'[n] = used[n + 1]
      BY Zenon, <1>5
    <3>2. ASSUME NEW m \in DOMAIN used, m > n + 1 PROVE ~Has(mem[used[m]], d)
      <4> DEFINE k == m - 1
      <4>1. k \in 1..(Len(used) - 1) /\ k + 1 = m /\ k > n
        BY <1>3, <1>5, <3>2
      <4> HIDE DEF k
      <4>2. k \in DOMAIN used' /\ used'[k] = used[m]
        BY <1>5, <4>1
      <4> QED
        BY Zenon, <2>2, <4>1, <4>2
    <3> QED
      BY ZenonT(30), <2>1, <2>2, <3>1, <3>2 DEF Stream
  <2>3. ASSUME ~OnItsWay(d)', d \notin missed' PROVE d \in active' <=> d \in held
    <3>1. ~Has(source, d) /\ ~Has(queue, d) /\ \A n \in DOMAIN used' : ~Has(mem[used'[n]], d)
      BY Zenon, <1>2, <2>3, OnItsWayNext
    <3>2. ASSUME NEW m \in DOMAIN used, m > 1 PROVE ~Has(mem[used[m]], d)
      <4> DEFINE k == m - 1
      <4>1. k \in 1..(Len(used) - 1) /\ k + 1 = m
        BY <1>3, <3>2
      <4> HIDE DEF k
      <4>2. k \in DOMAIN used' /\ used'[k] = used[m]
        BY <1>5, <4>1
      <4> QED
        BY Zenon, <3>1, <4>2
    <3>3. mem[used[1]] = h
      BY <1>3 DEF h
    <3>4. CASE Has(h, d)
      <4>1. Right(h, d, held)
        BY Zenon, <1>3, <2>1, <3>1, <3>2, <3>3 DEF Stream
      <4>2. d \notin Skipped(h)
        BY <1>2, <2>3
      <4>3. \A i \in DOMAIN h : i > 1 => h[i].code # d
        BY <1>4, <4>2, ToldOrSkipped
      <4>4. h[1].code = d
        BY <1>4, <3>4, <4>3 DEF Has
      <4>5. h[1].value # 2
        BY <1>4, <4>2, <4>4, ToldOrSkipped
      <4>6. h[1].value = 0 <=> d \notin held
        BY <1>4, <4>1, <4>3, <4>4 DEF Right
      <4>7. e.type = "key" /\ e.code = d /\ e.value \in {0, 1} /\ (e.value = 0 <=> d \notin held)
        BY <1>4, <4>4, <4>5, <4>6, SMTT(30) DEF Event
      <4> QED
        BY <1>2, <4>7 DEF Decode
    <3>5. CASE ~Has(h, d)
      <4>1. ~OnItsWay(d)
        BY <1>3, <3>1, <3>2, <3>3, <3>5 DEF OnItsWay
      <4>2. h[1].code # d
        BY <1>4, <3>5 DEF Has
      <4>3. d \notin missed
        BY <1>2, <1>4, <2>3, <4>2, ToldOrSkipped, SMTT(30)
      <4>4. d \in active' <=> d \in active
        BY Zenon, <1>2, <1>4, <4>2 DEF Decode
      <4> QED
        BY <2>1, <4>1, <4>3, <4>4 DEF Stream
    <3> QED
      BY <3>4, <3>5
  <2>4. Right(source', d, held') /\ (~Has(source', d) => Right(queue', d, held'))
    BY <1>2, <2>1 DEF Stream
  <2>5. ASSUME ~Has(source', d), ~Has(queue', d), NEW n \in DOMAIN used',
               \A m \in DOMAIN used' : m > n => ~Has(mem'[used'[m]], d)
        PROVE  Right(mem'[used'[n]], d, held')
    BY Zenon, <1>2, <2>2, <2>5
  <2>6. ~OnItsWay(d)' /\ d \notin missed' => (d \in active' <=> d \in held')
    BY <1>2, <2>3
  <2> QED
    BY Zenon, <2>4, <2>5, <2>6, StreamNext
<1>10. Reading'
  BY <1>2 DEF KeyInv, Reading
<1> QED
  BY <1>7, <1>8, <1>9, <1>10 DEF KeyInv

(* A reset misses the keys of the events it loses.                              *)
LEMMA ResetInv ==
  ASSUME KeyInv, Reset
  PROVE  KeyInv'
<1>1. /\ avail' = [i \in 1..QueueSize |-> i - 1] /\ used' = <<>>
      /\ mem' = [b \in Buffers |-> <<>>] /\ next' = 0
      /\ missed' = missed \cup UNION {KeysOf(mem[used[i]]) : i \in DOMAIN used}
      /\ UNCHANGED <<source, queue, active, lastKey, polling, copied, held>>
  BY DEF Reset, driver
<1>2. KeyTypes'
  BY KeyboardOK, <1>1 DEF KeyInv, KeyTypes, Buffers
<1>3. RingOrder'
  <2>1. \A i \in 1..QueueSize : Slot(i)' = i - 1
    BY KeyboardOK, <1>1 DEF Slot
  <2>2. Len(used') = 0 /\ Len(avail') = QueueSize
    BY KeyboardOK, <1>1
  <2>3. ASSUME NEW i \in 1..QueueSize
        PROVE  Slot(IF i = QueueSize THEN 1 ELSE i + 1)' = (Slot(i)' + 1) % QueueSize
    BY <2>1, FirstCycle
  <2> QED
    BY KeyboardOK, <1>1, <2>1, <2>2, <2>3 DEF RingOrder
<1>4. ASSUME NEW d \in Codes PROVE Stream(d)'
  <2>1. Stream(d)
    BY DEF KeyInv
  <2>2. ASSUME ~OnItsWay(d)', d \notin missed' PROVE ~OnItsWay(d) /\ d \notin missed
    <3>1. ~Has(source, d) /\ ~Has(queue, d) /\ d \notin missed
      BY <1>1, <2>2, OnItsWayNext
    <3>2. ASSUME NEW n \in DOMAIN used, Has(mem[used[n]], d) PROVE FALSE
      <4>1. d \in KeysOf(mem[used[n]])
        BY <3>2 DEF Has, KeysOf
      <4> QED
        BY <1>1, <2>2, <4>1
    <3> QED
      BY <3>1, <3>2, SMTT(30) DEF OnItsWay
  <2>3. source' = source /\ queue' = queue /\ active' = active /\ held' = held
    BY <1>1
  <2>4. DOMAIN used' = {}
    BY <1>1, SMTT(30)
  <2>5. /\ Right(source, d, held)
        /\ ~Has(source, d) => Right(queue, d, held)
        /\ ~OnItsWay(d)' /\ d \notin missed' => (d \in active <=> d \in held)
    BY Zenon, <2>1, <2>2 DEF Stream
  <2> QED
    BY Zenon, <2>3, <2>4, <2>5, StreamNext
<1> QED
  BY <1>1, <1>2, <1>3, <1>4 DEF KeyInv, Reading

(* Every step.                                                                  *)
LEMMA KeyNextInv ==
  ASSUME KeyInv, [KeyboardNext]_keyboardVars
  PROVE  KeyInv'
<1>1. CASE \E code \in Codes, value \in 0..2 : Report(code, value)
  BY <1>1, ReportInv
<1>2. CASE ReceiveEvents
  BY <1>2, ReceiveEventsInv
<1>3. CASE EventQAvailable
  BY <1>3, KeySame DEF EventQAvailable, driver, KeyInv, Reading
<1>4. CASE SendEvents
  BY <1>4, SendEventsInv
<1>5. CASE Timer
  BY <1>5, KeySame DEF Timer, device, KeyInv, Reading
<1>6. CASE GetDeviceData
  <2>1. CASE GetBuffer
    BY <1>6, <2>1, GetBufferInv DEF GetDeviceData
  <2>2. CASE ~GetBuffer
    BY <1>6, <2>2, KeySame DEF GetDeviceData, device, KeyInv, Reading
  <2> QED
    BY <2>1, <2>2
<1>7. CASE CopyKey
  BY <1>7, KeySame DEF CopyKey, device, KeyInv, Reading
<1>8. CASE ConsumeKey
  BY <1>8, KeySame DEF ConsumeKey, device, KeyInv, Reading
<1>9. CASE Reset
  BY <1>9, ResetInv
<1>10. CASE UNCHANGED keyboardVars
  BY <1>10, KeySame DEF keyboardVars, device, driver, KeyInv, Reading
<1> QED
  BY <1>1, <1>2, <1>3, <1>4, <1>5, <1>6, <1>7, <1>8, <1>9, <1>10 DEF KeyboardNext, Worker

(* The invariant holds in every reachable state.                                *)
LEMMA KeyInvariant == KeyboardSpec => []KeyInv
<1>1. KeyboardInit => KeyInv
  BY KeyInitInv
<1>2. KeyInv /\ [KeyboardNext]_keyboardVars => KeyInv'
  BY KeyNextInv
<1> QED
  BY <1>1, <1>2, PTL DEF KeyboardSpec

(* When no event is on its way from crosvm's worker to the driver, KeyActive    *)
(* tells of every key whether it is down, unless the key's last event was       *)
(* skipped, was a repetition or was lost in a reset: for any keys, any size of  *)
(* the ring and of its buffers, and any typing.                                 *)
THEOREM KeysAreKnown == KeyboardSpec => []ModifiersTrue
<1>1. KeyInv => ModifiersTrue
  <2> SUFFICES ASSUME KeyInv, source = <<>>, queue = <<>>, used = <<>>, NEW code \in Codes \ missed
               PROVE  code \in active <=> code \in held
    BY DEF ModifiersTrue
  <2>1. Stream(code)
    BY DEF KeyInv
  <2>2. ~OnItsWay(code)
    BY DEF OnItsWay, Has
  <2> QED
    BY <2>1, <2>2 DEF Stream
<1> QED
  BY <1>1, KeyInvariant, PTL

(* ReadKeyStroke clears the ready flag only while the key it has copied is      *)
(* still the last one decoded, for the same instances.                          *)
THEOREM ReadersTakeLast == KeyboardSpec => TakesLast
<1>1. KeyInv /\ [KeyboardNext]_keyboardVars => [keyReady /\ ~keyReady' => copied = lastKey]_keyboardVars
  <2> SUFFICES ASSUME KeyInv, KeyboardNext, keyReady, ~keyReady' PROVE copied = lastKey
    OBVIOUS
  <2>1. CASE ConsumeKey
    BY <2>1, SMTT(30) DEF ConsumeKey, KeyInv, Reading
  <2>2. CASE GetDeviceData
    BY Zenon, <2>2 DEF GetDeviceData, GetBuffer, Decode
  <2>3. CASE ~ConsumeKey /\ ~GetDeviceData
    BY Zenon, <2>3 DEF KeyboardNext, Worker, Report, ReceiveEvents, EventQAvailable, SendEvents, Timer, CopyKey, Reset, driver
  <2> QED
    BY <2>1, <2>2, <2>3
<1> QED
  BY <1>1, KeyInvariant, PTL DEF KeyboardSpec, TakesLast

=============================================================================
