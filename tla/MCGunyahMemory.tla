---------------------------- MODULE MCGunyahMemory ----------------------------
(* Instances of GunyahMemory for TLC.                                           *)
EXTENDS GunyahMemory

AllModes == {"none", "single", "chunked"}

(* Folios of two units, a 2 MB chunk, and of one. *)
TwoLevels == <<[size |-> 2, order |-> 9], [size |-> 1, order |-> 8]>>

(* Guest memory of three 2 MB chunks and a rest, and a shared region above it. *)
ChunksAndRest == <<[base |-> 0, size |-> 7, lend |-> TRUE], [base |-> 20, size |-> 2, lend |-> FALSE]>>

(* Windows of devices, one of a size that is no multiple of the page and one    *)
(* over guest memory.                                                           *)
DeviceWindows == {[base |-> 30, size |-> 1], [base |-> 40, size |-> 2], [base |-> 50, size |-> 2],
                  [base |-> 60, size |-> 2], [base |-> 21, size |-> 2]}
===============================================================================
