------------------------- MODULE MCVirtioLifecycle -------------------------
(* Instances of VirtioLifecycle for TLC. *)
EXTENDS VirtioLifecycle

AllDrivers == {"scsi", "fs", "keyboard", "gpu"}
OnlyScsi == {"scsi"}

=============================================================================
