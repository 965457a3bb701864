------------------------------- MODULE Mutex -------------------------------
(***************************************************************************)
(* What arch_spin_lock and arch_spin_unlock promise their callers          *)
(* (console_putchar, print_bad_trap, the atomics of builds without the A   *)
(* extension): the code between the two runs on one hart at a time, and    *)
(* while harts wait the lock keeps being handed out.                       *)
(***************************************************************************)
CONSTANT Harts
VARIABLES waiting, inside   \* the harts that want the lock, and that hold it

vars == <<waiting, inside>>

Init == waiting = {} /\ inside = {}

Want(h) ==
  /\ h \notin waiting \cup inside
  /\ waiting' = waiting \cup {h}
  /\ UNCHANGED inside

Enter(h) ==
  /\ h \in waiting
  /\ inside = {}
  /\ waiting' = waiting \ {h}
  /\ inside'  = {h}

Leave(h) ==
  /\ h \in inside
  /\ inside' = inside \ {h}
  /\ UNCHANGED waiting

Next == \E h \in Harts : Want(h) \/ Enter(h) \/ Leave(h)

Spec ==
  /\ Init
  /\ [][Next]_vars
  /\ WF_vars(\E h \in Harts : Enter(h))
  /\ \A h \in Harts : WF_vars(Leave(h))

=============================================================================
