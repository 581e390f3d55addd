------------------------ MODULE MCVirtioPciTransport ------------------------
(* A device of two queues, whose driver has one set of rings. *)
EXTENDS VirtioPciTransport

CONSTANTS r1

AllFaults == {"register", "queue", "device", "reset", "unregister"}
=============================================================================
