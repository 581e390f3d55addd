---------------------------- MODULE MCSecureBoot ----------------------------
(* Instances of SecureBootProvisioning for TLC. *)
EXTENDS SecureBootProvisioning

TwoVolumes == {"esp", "data"}
OneEsp == {"esp"}

=============================================================================
