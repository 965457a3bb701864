----------------------------- MODULE MCSzymanski -----------------------------
(* Finite instances of Szymanski for TLC. *)
EXTENDS Szymanski
=============================================================================
