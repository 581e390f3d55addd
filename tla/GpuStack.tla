------------------------------- MODULE GpuStack -------------------------------
(* One virtio-gpu device from power-on to the operating system: the firmware's  *)
(* display driver (VgpuGop) drives it until ExitBootServices, then the driver   *)
(* of the system (VirtioGpu) finds what the firmware's reset left behind.  The  *)
(* firmware's driver makes 2D resources, which only the 2D renderer keeps in    *)
(* memory of its own; a device with blobs starts with the system.               *)
EXTENDS VgpuGop

CONSTANTS
    Ids,            \* resource ids the system's driver uses
    Sizes           \* sizes of its resources and scanouts

ASSUME SystemOK == None \notin Ids /\ Sizes \subseteq Nat \ {0}

VARIABLES up, before, blobs
OS == INSTANCE VirtioGpu
firmware == <<pages, gop, child, pc, new, infos, dark>>
system == <<up, before, blobs>>
stackVars == <<vars, system>>

StackInit ==
    /\ OS!Init
    /\ pages = {} /\ gop = NoGop /\ new = NoGop /\ infos = 0 /\ dark = FALSE
    /\ pc = "idle" /\ child = IF blobs THEN "os" ELSE "none"

StackNext ==
    \/ Next /\ UNCHANGED system
    \/ child = "os" /\ OS!Next /\ UNCHANGED firmware

StackSpec == StackInit /\ [][StackNext]_stackVars
-------------------------------------------------------------------------------
(* The device's tables agree under the firmware's driver, under the system's,   *)
(* and across the reset between them.                                           *)
BooksAgree == OS!BooksAgree

(* What a resumed device owes the system's driver.                              *)
RestoreFaithful == OS!RestoreFaithful
===============================================================================
