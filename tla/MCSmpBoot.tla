----------------------------- MODULE MCSmpBoot -----------------------------
(* Finite instances of SmpBoot for TLC. *)
EXTENDS SmpBoot
=============================================================================
