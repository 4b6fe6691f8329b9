------------------------------ MODULE MCReview ------------------------------
(* ProtectionReview for TLC, with the values of MCOms. *)
EXTENDS ProtectionReview, MCOms
=============================================================================
