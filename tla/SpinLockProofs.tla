--------------------------- MODULE SpinLockProofs ---------------------------
(***************************************************************************)
(* Theorems of SpinLock for every number of harts: the lock word and its   *)
(* holders agree, and every step is a step of Mutex or changes nothing     *)
(* there.  (Mutex's fairness is out of reach of the prover; the run        *)
(* traps checks it.)                                                       *)
(***************************************************************************)
EXTENDS SpinLock, TLAPS

\* The type invariant, of the two variables spinlock.h works on.
THEOREM TypeCorrect == Spec => []TypeOK
<1>1. Init => TypeOK
  BY DEF Init, TypeOK
<1>2. TypeOK /\ [Next]_vars => TypeOK'
  BY DEF TypeOK, Next, vars, Call, Firmware, Test, TryLock, PrintChar, Unlock, Step
<1> QED BY <1>1, <1>2, PTL DEF Spec

\* One step keeps the lock word in agreement with its holders.
LEMMA LockStep ==
  ASSUME TypeOK, LockInv, [Next]_vars PROVE LockInv'
<1> USE DEF TypeOK, LockInv, Holders, Step
<1>1. ASSUME NEW h \in Harts, Call(h) PROVE LockInv'
  BY <1>1 DEF Call
<1>2. ASSUME NEW h \in Harts, Test(h) PROVE LockInv'
  BY <1>2 DEF Test
<1>3. ASSUME NEW h \in Harts, TryLock(h), lock = 0 PROVE LockInv'
  BY <1>3 DEF TryLock
<1>4. ASSUME NEW h \in Harts, TryLock(h), lock # 0 PROVE LockInv'
  BY <1>4 DEF TryLock
<1>5. ASSUME NEW h \in Harts, PrintChar(h) PROVE LockInv'
  BY <1>5 DEF PrintChar
<1>6. ASSUME NEW h \in Harts, Unlock(h) PROVE LockInv'
  <2>1. pc[h] = "unlock" /\ pc' = [pc EXCEPT ![h] = "S"] /\ lock' = 0
    BY <1>6 DEF Unlock
  <2>2. Holders = {h}
    BY <2>1
  <2> QED BY <2>1, <2>2
<1>7. CASE UNCHANGED vars
  BY <1>7 DEF vars
<1> QED BY <1>1, <1>2, <1>3, <1>4, <1>5, <1>6, <1>7 DEF Next, Firmware

\* The lock word is 1 exactly while one hart holds the lock (spinlock.h:59-89).
THEOREM LockWordIsExact == Spec => []LockInv
<1>1. Init => LockInv
  BY DEF Init, LockInv, Holders
<1> QED BY <1>1, TypeCorrect, LockStep, PTL DEF Spec

\* The output of two harts is never mixed: a step of the spinlock is a step of
\* Mutex or a stutter there.
THEOREM StepsOfMutex ==
  Spec => Abstract!Init /\ [][Abstract!Next]_<<Waiting, Holders>>
<1>1. Init => Abstract!Init
  BY DEF Init, Abstract!Init, Waiting, Holders
<1>2. TypeOK /\ LockInv /\ [Next]_vars => [Abstract!Next]_<<Waiting, Holders>>
  <2> SUFFICES ASSUME TypeOK, LockInv, [Next]_vars
               PROVE  Abstract!Next \/ (Waiting' = Waiting /\ Holders' = Holders)
    OBVIOUS
  <2> USE DEF TypeOK, Step, Waiting, Holders
  <2>1. ASSUME NEW h \in Harts, Call(h) PROVE Abstract!Want(h)
    BY <2>1 DEF Call, Abstract!Want
  <2>2. ASSUME NEW h \in Harts, Test(h) PROVE Waiting' = Waiting /\ Holders' = Holders
    BY <2>2 DEF Test
  <2>3. ASSUME NEW h \in Harts, TryLock(h), lock = 0 PROVE Abstract!Enter(h)
    <3>1. Holders = {} /\ pc[h] = "swap" /\ pc' = [pc EXCEPT ![h] = "print"]
      BY <2>3 DEF TryLock, LockInv
    <3> QED BY <3>1 DEF Abstract!Enter
  <2>4. ASSUME NEW h \in Harts, TryLock(h), lock # 0
        PROVE  Waiting' = Waiting /\ Holders' = Holders
    BY <2>4 DEF TryLock
  <2>5. ASSUME NEW h \in Harts, PrintChar(h) PROVE Waiting' = Waiting /\ Holders' = Holders
    BY <2>5 DEF PrintChar
  <2>6. ASSUME NEW h \in Harts, Unlock(h) PROVE Abstract!Leave(h)
    BY <2>6 DEF Unlock, Abstract!Leave
  <2>7. CASE UNCHANGED vars
    BY <2>7 DEF vars
  <2> QED BY <2>1, <2>2, <2>3, <2>4, <2>5, <2>6, <2>7 DEF Next, Firmware, Abstract!Next
<1> QED BY <1>1, <1>2, TypeCorrect, LockWordIsExact, PTL DEF Spec

=============================================================================
