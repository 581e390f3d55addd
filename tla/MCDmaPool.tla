----------------------------- MODULE MCDmaPool -----------------------------
(* Instances of DmaPool for TLC: a pool of a few pages, two pages per      *)
(* bitmap byte, and callers at two task priority levels.                   *)
EXTENDS DmaPool

(* TPL_APPLICATION, TPL_CALLBACK                                           *)
TwoTpls == {4, 8}

(* Nothing is claimed after a call was overtaken, so nothing is explored.  *)
UntilOvertaken == ~overtaken

=============================================================================
