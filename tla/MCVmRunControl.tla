---------------------------- MODULE MCVmRunControl ----------------------------
(* Instances of VmRunControl for TLC: two vcpus. *)
EXTENDS VmRunControl
===============================================================================
