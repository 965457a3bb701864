------------------------------ MODULE MCIpiMsg ------------------------------
(* Finite instances of IpiMsg for TLC. *)
EXTENDS IpiMsg

AllButNone == (SUBSET (0 .. NumHarts - 1)) \ {{}}
Everyone   == { 0 .. NumHarts - 1 }
=============================================================================
