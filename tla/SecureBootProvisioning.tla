----------------------- MODULE SecureBootProvisioning -----------------------
(***************************************************************************)
(* SecureBootProvisioningDxe over several boots.  Its entry point enrols   *)
(* the default keys; for each file system that appears it brings           *)
(* SiPolicy.p7b into line with Secure Boot.  The file system callback runs *)
(* at TPL_CALLBACK and may preempt the entry point anywhere; any call may  *)
(* fail; power may be lost between any two steps.  Files survive a boot;   *)
(* variables do unless the build emulates their store in memory.           *)
(***************************************************************************)
EXTENDS Naturals, FiniteSets

CONSTANTS Volumes,    \* file systems
          Esp,        \* those that hold \EFI\Microsoft\Boot\bootmgfw.efi
          MaxBoots, MaxFaults

VARIABLES key,              \* db, dbx, dbt, KEK, PK
          SecureBootEnable, CustomMode,
          policy,           \* SiPolicy.p7b of each volume
          phase,            \* "boot", "os" or "off"
          entry,            \* the position of the entry point
          work,             \* what each activation of OnFileSystemNotification is doing
          registered,       \* the callback is registered
          signalled,        \* its event is signalled
          present, visited, \* volumes that have appeared; that were handed out
          hadPk,            \* history: this boot began with a PK
          choice,           \* history: SecureBootEnable as the boot began: "none", "made" or "unread"
          clean,            \* history: no fault in this boot so far
          stuck,            \* history: STANDARD mode could not be restored
          cut,              \* history: LocateHandleBuffer failed
          faults, boots

nvVars == <<key, SecureBootEnable, CustomMode>>
fsVars == <<policy, work, registered, signalled, present, visited>>
histVars == <<hadPk, choice, stuck, cut>>
faultVars == <<faults, clean>>
vars == <<nvVars, fsVars, phase, entry, histVars, faultVars, boots>>

Keys == {"db", "dbx", "dbt", "KEK", "PK"}
NoVolume == "none"
ASSUME VolumesAssumption == Esp \subseteq Volumes /\ NoVolume \notin Volumes
Workers == {"entry", "callback"}
Idle == [at |-> "idle", vol |-> NoVolume]

(* A call fails, or power is lost: at most MaxFaults times. *)
Fault == faults < MaxFaults /\ faults' = faults + 1 /\ clean' = FALSE
NoFault == UNCHANGED faultVars

(* IsSecureBootOn: the variable PK exists. *)
IsSecureBootOn == key["PK"] # "absent"

(* The callback preempts the entry point and runs to its end. *)
Runs(w) == phase = "boot" /\ (w = "callback" \/ work["callback"].at = "idle")

-----------------------------------------------------------------------------
(* OnFileSystemNotification and TryWritePlatformSiPolicy. *)

At(w, stage) == Runs(w) /\ work[w].at = stage
Goto(w, stage) == work' = [work EXCEPT ![w].at = stage]
SetPolicy(w, p) == policy' = [policy EXCEPT ![work[w].vol] = p]
Of(w) == policy[work[w].vol]
NextFile(w) == work' = [work EXCEPT ![w] = [at |-> "take", vol |-> NoVolume]]
KeepRest == UNCHANGED <<nvVars, registered, signalled, present, visited, phase, entry, histVars, boots>>

Notify ==
    /\ phase = "boot" /\ signalled /\ work["callback"].at = "idle"
    /\ signalled' = FALSE
    /\ work' = [work EXCEPT !["callback"].at = "take"]
    /\ NoFault
    /\ UNCHANGED <<nvVars, policy, registered, present, visited, phase, entry, histVars, boots>>

(* LocateHandleBuffer hands out each volume once; both activations share   *)
(* the position of the registration.                                       *)
Take(w) ==
    /\ At(w, "take")
    /\ \E v \in present \ visited :
          /\ visited' = visited \cup {v}
          /\ work' = [work EXCEPT ![w] = [at |-> "open", vol |-> v]]
    /\ NoFault
    /\ UNCHANGED <<nvVars, policy, registered, signalled, present, phase, entry, histVars, boots>>

TakeNone(w) ==
    /\ At(w, "take") /\ present = visited
    /\ work' = [work EXCEPT ![w] = Idle]
    /\ entry' = IF w = "entry" THEN "choice" ELSE entry
    /\ NoFault
    /\ UNCHANGED <<nvVars, policy, registered, signalled, present, visited, phase, histVars, boots>>

(* Any error of LocateHandleBuffer ends the loop, like the last volume. *)
TakeFails(w) ==
    /\ At(w, "take") /\ Fault
    /\ work' = [work EXCEPT ![w] = Idle]
    /\ entry' = IF w = "entry" THEN "choice" ELSE entry
    /\ cut' = TRUE
    /\ UNCHANGED <<nvVars, policy, registered, signalled, present, visited, phase, hadPk, choice, stuck, boots>>

(* GetSectionFromAnyFv, HandleProtocol, OpenVolume or Open fails. *)
OpenFails(w) == At(w, "open") /\ Fault /\ NextFile(w) /\ UNCHANGED policy /\ KeepRest

(* Mutant: the policy file is not looked at when Secure Boot is off. *)
OpenPolicyIfOn(w) ==
    /\ At(w, "open")
    /\ IF ~IsSecureBootOn THEN NextFile(w)
       ELSE Goto(w, IF Of(w) = "absent" THEN "create" ELSE "compare")
    /\ NoFault /\ UNCHANGED policy /\ KeepRest

(* The outcome of opening bootmgfw.efi is overwritten, so that a volume    *)
(* without it is not skipped; then SiPolicy.p7b is opened.                 *)
OpenPolicy(w) ==
    /\ At(w, "open")
    /\ IF Of(w) # "absent" THEN Goto(w, IF IsSecureBootOn THEN "compare" ELSE "remove")
       ELSE IF IsSecureBootOn THEN Goto(w, "create") ELSE NextFile(w)
    /\ NoFault /\ UNCHANGED policy /\ KeepRest

(* The status of Delete is not looked at. *)
Remove(w) ==
    /\ At(w, "remove")
    /\ NextFile(w)
    /\ \/ SetPolicy(w, "absent") /\ NoFault
       \/ UNCHANGED policy /\ Fault
    /\ KeepRest

(* The hashes are compared; a file that cannot be read is replaced, a      *)
(* failed allocation gives up.                                             *)
Compare(w) ==
    /\ At(w, "compare")
    /\ \/ Of(w) = "default" /\ NextFile(w) /\ NoFault
       \/ Of(w) # "default" /\ Goto(w, "delete") /\ NoFault
       \/ Goto(w, "delete") /\ Fault
       \/ NextFile(w) /\ Fault
    /\ UNCHANGED policy /\ KeepRest

Delete(w) ==
    /\ At(w, "delete")
    /\ Goto(w, "create")
    /\ \/ SetPolicy(w, "absent") /\ NoFault
       \/ UNCHANGED policy /\ Fault
    /\ KeepRest

(* A volume that is not the ESP may lack the directory. *)
Create(w) ==
    /\ At(w, "create")
    /\ \/ /\ SetPolicy(w, IF Of(w) = "absent" THEN "empty" ELSE Of(w))
          /\ Goto(w, "write") /\ NoFault
       \/ work[w].vol \notin Esp /\ UNCHANGED policy /\ NextFile(w) /\ NoFault
       \/ UNCHANGED policy /\ NextFile(w) /\ Fault
    /\ KeepRest

(* A file that Delete left behind keeps its tail when it was longer.  A    *)
(* failed Write may have written a part.                                   *)
WritePolicy(w) ==
    /\ At(w, "write")
    /\ NextFile(w)
    /\ \/ \E p \in IF Of(w) = "empty" THEN {"default"} ELSE {"default", "other"} : SetPolicy(w, p) /\ NoFault
       \/ \E p \in {Of(w), "other"} : SetPolicy(w, p) /\ Fault
    /\ KeepRest

-----------------------------------------------------------------------------
(* SecureBootProvisioningDxeEntryPoint. *)

EntryAt(e) == Runs("entry") /\ entry = e
KeepFs == UNCHANGED <<fsVars, phase, boots>>

(* Mutant: the volumes that are there already are not scanned. *)
RegisterWithoutScan ==
    /\ EntryAt("register")
    /\ registered' = TRUE /\ entry' = "choice" /\ NoFault
    /\ UNCHANGED <<nvVars, policy, work, signalled, present, visited, phase, histVars, boots>>

(* The volumes that are there already are scanned by a direct call. *)
Register ==
    /\ EntryAt("register")
    /\ \/ /\ registered' = TRUE /\ entry' = "scan"
          /\ work' = [work EXCEPT !["entry"].at = "take"] /\ NoFault
       \/ entry' = "choice" /\ UNCHANGED <<registered, work>> /\ Fault
    /\ UNCHANGED <<nvVars, policy, signalled, present, visited, phase, histVars, boots>>

(* SecureBootVariableEquals: a variable that cannot be read counts as absent. *)
CheckChoice ==
    /\ EntryAt("choice")
    /\ \/ /\ entry' = (IF SecureBootEnable = "absent" THEN "setup" ELSE "done")
          /\ NoFault /\ UNCHANGED choice
       \/ entry' = "setup" /\ choice' = "unread" /\ Fault
    /\ UNCHANGED <<nvVars, hadPk, stuck, cut>> /\ KeepFs

(* Mutant: the setup mode is not looked at. *)
CheckSetupModeIgnored ==
    /\ EntryAt("setup")
    /\ entry' = "custom"
    /\ NoFault
    /\ UNCHANGED <<nvVars, histVars>> /\ KeepFs

CheckSetupMode ==
    /\ EntryAt("setup")
    /\ \/ entry' = (IF key["PK"] = "absent" THEN "custom" ELSE "done") /\ NoFault
       \/ entry' = "done" /\ Fault
    /\ UNCHANGED <<nvVars, histVars>> /\ KeepFs

EnterCustomMode ==
    /\ EntryAt("custom")
    /\ \/ CustomMode' = "custom" /\ entry' = "db" /\ NoFault
       \/ UNCHANGED CustomMode /\ entry' = "done" /\ Fault
    /\ UNCHANGED <<key, SecureBootEnable, histVars>> /\ KeepFs

(* Enrol[...]FromDefault writes one variable. *)
Enroll(k, next, onError) ==
    /\ EntryAt(k)
    /\ \/ key' = [key EXCEPT ![k] = "default"] /\ entry' = next /\ NoFault
       \/ UNCHANGED key /\ entry' = onError /\ Fault
    /\ UNCHANGED <<SecureBootEnable, CustomMode, histVars>> /\ KeepFs

(* dbx and dbt may fail, for want of a default too: the entry point goes on. *)
EnrollOptional(k, next) ==
    /\ EntryAt(k)
    /\ key' \in {key, [key EXCEPT ![k] = "default"]}
    /\ entry' = next
    /\ NoFault
    /\ UNCHANGED <<SecureBootEnable, CustomMode, histVars>> /\ KeepFs

(* Mutant: PK is enrolled after db, before the others. *)
EnrollKeysPkEarly ==
    \/ Enroll("db", "PK", "restore")
    \/ EnrollOptional("dbx", "dbt")
    \/ EnrollOptional("dbt", "KEK")
    \/ Enroll("KEK", "standard", "restore")

(* Mutant: KEK is taken for the last key. *)
EnrollKeysForgetPk ==
    \/ Enroll("db", "dbx", "restore")
    \/ EnrollOptional("dbx", "dbt")
    \/ EnrollOptional("dbt", "KEK")
    \/ Enroll("KEK", "standard", "restore")

(* Mutant: an error leaves the entry point at once. *)
EnrollKeysReturn ==
    \/ Enroll("db", "dbx", "done")
    \/ EnrollOptional("dbx", "dbt")
    \/ EnrollOptional("dbt", "KEK")
    \/ Enroll("KEK", "PK", "done")

EnrollKeys ==
    \/ Enroll("db", "dbx", "restore")
    \/ EnrollOptional("dbx", "dbt")
    \/ EnrollOptional("dbt", "KEK")
    \/ Enroll("KEK", "PK", "restore")

(* With PK the variable driver leaves setup mode and may set               *)
(* SecureBootEnable.                                                       *)
EnrollPK ==
    /\ EntryAt("PK")
    /\ \/ /\ key' = [key EXCEPT !["PK"] = "default"]
          /\ SecureBootEnable' \in {SecureBootEnable, "on"}
          /\ entry' = "standard" /\ NoFault
       \/ UNCHANGED <<key, SecureBootEnable>> /\ entry' = "restore" /\ Fault
    /\ UNCHANGED <<CustomMode, histVars>> /\ KeepFs

LeaveCustomMode ==
    /\ EntryAt("standard") \/ EntryAt("restore")
    /\ \/ CustomMode' = "standard" /\ NoFault /\ UNCHANGED stuck
          /\ entry' = IF entry = "standard" THEN "enable" ELSE "done"
       \/ UNCHANGED CustomMode /\ Fault /\ stuck' = TRUE /\ entry' = "done"
    /\ UNCHANGED <<key, SecureBootEnable, hadPk, choice, cut>> /\ KeepFs

Enable ==
    /\ EntryAt("enable")
    /\ \/ SecureBootEnable' = "on" /\ NoFault
       \/ UNCHANGED SecureBootEnable /\ Fault
    /\ entry' = "done"
    /\ UNCHANGED <<key, CustomMode, histVars>> /\ KeepFs

Entry ==
    \/ Register
    \/ CheckChoice
    \/ CheckSetupMode
    \/ EnterCustomMode
    \/ EnrollKeys
    \/ EnrollPK
    \/ LeaveCustomMode
    \/ Enable

Policy(w) ==
    \/ Take(w)
    \/ TakeNone(w)
    \/ TakeFails(w)
    \/ OpenFails(w)
    \/ OpenPolicy(w)
    \/ Remove(w)
    \/ Compare(w)
    \/ Delete(w)
    \/ Create(w)
    \/ WritePolicy(w)

-----------------------------------------------------------------------------
(* The environment: file system drivers, the setup menu, power. *)

Arrive(v) ==
    /\ phase = "boot" /\ work["callback"].at = "idle"
    /\ v \notin present
    /\ present' = present \cup {v}
    /\ signalled' = registered
    /\ NoFault
    /\ UNCHANGED <<nvVars, policy, work, registered, visited, phase, entry, histVars, boots>>

(* SecureBootConfigDxe's menu: the user switches Secure Boot, removes the  *)
(* keys, or enrols keys of their own.                                      *)
InMenu == EntryAt("done") /\ ~signalled /\ NoFault /\ UNCHANGED <<CustomMode, entry, histVars>> /\ KeepFs

UserSwitches ==
    /\ InMenu /\ IsSecureBootOn
    /\ SecureBootEnable' \in {"off", "on"} \ {SecureBootEnable}
    /\ UNCHANGED key

UserRemovesPK ==
    /\ InMenu /\ IsSecureBootOn
    /\ key' = [key EXCEPT !["PK"] = "absent"]
    /\ SecureBootEnable' \in {SecureBootEnable, "absent"}

UserEnrolls ==
    /\ InMenu /\ ~IsSecureBootOn
    /\ key' = [k \in Keys |-> "user"]
    /\ SecureBootEnable' \in {SecureBootEnable, "on"}

HandOff ==
    /\ EntryAt("done") /\ ~signalled
    /\ phase' = "os"
    /\ NoFault
    /\ UNCHANGED <<nvVars, fsVars, entry, histVars, boots>>

PowerLoss ==
    /\ phase = "boot" /\ Fault
    /\ phase' = "off"
    /\ UNCHANGED <<nvVars, fsVars, entry, histVars, boots>>

(* The variable driver starts in standard mode, and may set                *)
(* SecureBootEnable when there is a PK.  By default the variables are      *)
(* emulated in memory and start blank; a build with EMU_VARIABLE_NV_MODE   *)
(* FALSE keeps them.                                                       *)
Boot ==
    /\ phase # "boot" /\ boots < MaxBoots
    /\ boots' = boots + 1 /\ phase' = "boot" /\ entry' = "register"
    /\ CustomMode' = "standard"
    /\ \/ /\ SecureBootEnable' \in IF SecureBootEnable = "absent" /\ IsSecureBootOn THEN {"absent", "on"} ELSE {SecureBootEnable}
          /\ UNCHANGED key
       \/ key' = [k \in Keys |-> "absent"] /\ SecureBootEnable' = "absent"
    /\ hadPk' = (key'["PK"] # "absent")
    /\ choice' = IF SecureBootEnable' = "absent" THEN "none" ELSE "made"
    /\ clean' = TRUE /\ stuck' = FALSE /\ cut' = FALSE
    /\ work' = [w \in Workers |-> Idle]
    /\ registered' = FALSE /\ signalled' = FALSE
    /\ present' = {} /\ visited' = {}
    /\ UNCHANGED <<policy, faults>>

Init ==
    /\ key = [k \in Keys |-> "absent"]
    /\ SecureBootEnable = "absent" /\ CustomMode = "standard"
    /\ policy \in [Volumes -> {"absent", "other"}]
    /\ phase = "boot" /\ entry = "register" /\ boots = 1
    /\ work = [w \in Workers |-> Idle]
    /\ registered = FALSE /\ signalled = FALSE
    /\ present = {} /\ visited = {}
    /\ hadPk = FALSE /\ choice = "none" /\ clean = TRUE /\ stuck = FALSE /\ cut = FALSE /\ faults = 0

Next ==
    \/ Entry
    \/ Notify
    \/ \E w \in Workers : Policy(w)
    \/ \E v \in Volumes : Arrive(v)
    \/ UserSwitches
    \/ UserRemovesPK
    \/ UserEnrolls
    \/ HandOff
    \/ PowerLoss
    \/ Boot

Spec == Init /\ [][Next]_vars

-----------------------------------------------------------------------------
(* "then PK last.  Enrolling PK is what flips SetupMode -> USER_MODE and   *)
(* locks the store": whatever call fails and whenever power is lost, there *)
(* is no platform key over a store without db and KEK.                     *)
PkImpliesKeys == IsSecureBootOn => key["db"] # "absent" /\ key["KEK"] # "absent"

(* "Honor any prior user choice" and "protects the user against us         *)
(* clobbering their manually-enrolled keys": the entry point leaves keys   *)
(* and SecureBootEnable alone in a boot that began with a PK, whatever     *)
(* fails, and in one that began with a choice that could be read.          *)
HonoursChoice ==
    [][phase = "boot" /\ entry # "done" /\ (hadPk \/ choice = "made") => UNCHANGED <<key, SecureBootEnable>>]_vars

(* A clean variable store, as this boot began. *)
Blank == ~hadPk /\ choice = "none"

(* A boot without faults finishes the enrolment that earlier boots left    *)
(* anywhere in between: PK, KEK and db are there and the option is on.     *)
CleanBootEnrolls ==
    [][entry # "done" /\ entry' = "done" /\ Blank /\ clean'
         => (\A k \in {"db", "KEK", "PK"} : key'[k] = "default") /\ SecureBootEnable' = "on"]_vars

(* The operating system never starts in custom mode, in which keys can be  *)
(* changed without a signature, unless the write that ends it failed.      *)
StandardAtHandOff == phase = "os" => CustomMode = "standard" \/ stuck

(* When OnFileSystemNotification is done with the Windows ESP and nothing  *)
(* failed in this boot, SiPolicy.p7b agrees with IsSecureBootOn, whatever  *)
(* earlier boots left of it: no truncated file is taken for an up to date  *)
(* one.  Of other volumes, which the driver means to skip but does not,    *)
(* nothing is claimed.                                                     *)
PolicyFollowsPk ==
    [][\A w \in Workers :
          work[w].vol \in Esp /\ work'[w].vol = NoVolume /\ clean' /\ phase = "boot" /\ phase' = "boot"
            => policy'[work[w].vol] = IF IsSecureBootOn THEN "default" ELSE "absent"]_vars

(* Once the callback is registered no volume is missed: neither one that   *)
(* was there before, nor one that appears while the entry point scans or   *)
(* between two runs of the callback, unless LocateHandleBuffer failed.     *)
NoVolumeMissed == phase = "os" /\ registered /\ ~cut => visited = present

=============================================================================
