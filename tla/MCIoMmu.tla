------------------------------ MODULE MCIoMmu ------------------------------
(* Instances of IoMmu for TLC.                                             *)
EXTENDS IoMmu, TLC

CONSTANTS m1, m2, b1

(* A buffer that ends inside its second page.                              *)
OneAndAHalfPages == b1 :> 3

OneBit == {0, 1}

MapSymmetry == Permutations(MapIds)
=============================================================================
