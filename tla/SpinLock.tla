------------------------------ MODULE SpinLock ------------------------------
(***************************************************************************)
(* The spinlock of builds with the A extension (spinlock.h) and the code   *)
(* that holds it: printk_lock around a character of console_putchar and    *)
(* around the dump of print_bad_trap (mtrap.c).                            *)
(*                                                                         *)
(* The lock is read until it is free and then swapped: two steps, so that  *)
(* harts may see it free together.  A definition named X_Fault is a faulty *)
(* variant of X, used to see that the properties tell the two apart.       *)
(***************************************************************************)
EXTENDS Naturals

CONSTANT NumHarts

Harts == 0 .. NumHarts - 1

ASSUME HartsAssumption == NumHarts \in Nat \ {0}

VARIABLES
  lock,   \* arch_spinlock_t.lock
  pc      \* where each hart is

vars == <<lock, pc>>

Init == lock = 0 /\ pc = [h \in Harts |-> "S"]

Step(h, from, to) == pc[h] = from /\ pc' = [pc EXCEPT ![h] = to]

\* A call to console_putchar or a trap that cannot be handled.
Call(h) == Step(h, "S", "test") /\ UNCHANGED lock

\* arch_spin_is_locked: spin while it is.
Test(h) == Step(h, "test", "swap") /\ lock = 0 /\ UNCHANGED lock

\* arch_spin_trylock: amoswap of 1; back to the test if another hart won.
TryLock_Stored(h) == Step(h, "swap", "print") /\ lock' = 1
TryLock(h) ==
  /\ Step(h, "swap", IF lock = 0 THEN "print" ELSE "test")
  /\ lock' = 1

\* The characters go out; the caller then drops the lock.
PrintChar(h) == Step(h, "print", "unlock") /\ UNCHANGED lock
Unlock(h) == Step(h, "unlock", "S") /\ lock' = 0

Firmware(h) == Test(h) \/ TryLock(h) \/ PrintChar(h) \/ Unlock(h)

Next == \E h \in Harts : Call(h) \/ Firmware(h)

Spec == Init /\ [][Next]_vars /\ \A h \in Harts : WF_vars(Firmware(h))

-----------------------------------------------------------------------------
\* The type of the state.
TypeOK ==
  /\ lock \in {0, 1}
  /\ pc \in [Harts -> {"S", "test", "swap", "print", "unlock"}]

Waiting == { h \in Harts : pc[h] \in {"test", "swap"} }
Holders == { h \in Harts : pc[h] \in {"print", "unlock"} }

\* The lock word is 1 exactly while a hart holds the lock, and one hart does:
\* harts that saw it free together are told apart by what the swap returns.
LockInv ==
  /\ lock = 0 <=> Holders = {}
  /\ \A h, k \in Holders : h = k

\* The output of two harts is never mixed, and while harts wait the lock keeps
\* being handed out (none of them in particular: the lock is not fair).
Abstract == INSTANCE Mutex WITH waiting <- Waiting, inside <- Holders
ImplementsMutex == Abstract!Spec

=============================================================================
