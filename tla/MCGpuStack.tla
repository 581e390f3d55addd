------------------------------ MODULE MCGpuStack ------------------------------
(* Bounds for GpuStack: two modes, the two stores a mode change needs, and a    *)
(* second display to plug in.                                                   *)
EXTENDS GpuStack

MCModes == [n \in {0, 1} |-> n + 1]
MCDisplays == {0, 1}
===============================================================================
