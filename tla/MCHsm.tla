------------------------------- MODULE MCHsm -------------------------------
(* Finite instances of Hsm for TLC. *)
EXTENDS Hsm

All     == [hotplug : BOOLEAN, orderly : BOOLEAN]
Orderly == { c \in All : c.orderly }
InTree  == { c \in All : ~c.hotplug }
=============================================================================
