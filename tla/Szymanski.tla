----------------------------- MODULE Szymanski -----------------------------
(***************************************************************************)
(* The spinlock of builds with PLF_SMP_NO_ATOMIC_SPINLOCK (spinlock.c): a  *)
(* byte of flags for each hart in one word, read as a whole and written    *)
(* byte by byte.                                                           *)
(*                                                                         *)
(* Each step is one write of the hart's byte, or the read of the word that *)
(* ends a wait.  At most four harts: for a higher ipi_n the masks shift an *)
(* int by 32 bits or more, which C leaves undefined.                       *)
(***************************************************************************)
EXTENDS Naturals

CONSTANT NumHarts   \* 1 to 4

Harts == 0 .. NumHarts - 1   \* ipi_n

\* enum ASP_state; Zero is a byte never written, which every wait lets pass.
Zero == "0"
ST0  == "ST0"
ST1  == "ST1"
ST2  == "ST2"
ST3  == "ST3"
ST4  == "ST4"

VARIABLES flag, pc
vars == <<flag, pc>>

Init == flag = [h \in Harts |-> Zero] /\ pc = [h \in Harts |-> "S"]

Step(h, from, to)  == pc[h] = from /\ pc' = [pc EXCEPT ![h] = to]
Write(h, value)    == flag' = [flag EXCEPT ![h] = value]
AllIn(S, values)   == \A k \in S : flag[k] \in values \cup {Zero}
Lower(h)           == { k \in Harts : k < h }

\* arch_spin_lock; a recursive call returns at once (no caller makes one).
Outside(h) == Step(h, "S", "door") /\ flag[h] # ST4 /\ Write(h, ST0)

OpenDoor(h) ==
  Step(h, "door", "doorway") /\ AllIn(Harts, {ST0, ST1, ST2}) /\ UNCHANGED flag

Doorway(h) == Step(h, "doorway", "look") /\ Write(h, ST3)

\* Is another hart waiting to enter?
Look(h) ==
  /\ Step(h, "look", IF \E k \in Harts : flag[k] = ST1 THEN "room" ELSE "close")
  /\ UNCHANGED flag

WaitingRoom(h) == Step(h, "room", "wait") /\ Write(h, ST2)

\* asp_wait_any_eq(lock, ASP_ST4): the mask covers the byte of hart 0 only.
DoorClosed(h) == Step(h, "wait", "close") /\ flag[0] = ST4 /\ UNCHANGED flag

CloseDoor(h) == Step(h, "close", "turn") /\ Write(h, ST4)

MyTurn(h) == Step(h, "turn", "critical") /\ AllIn(Lower(h), {ST0, ST1}) /\ UNCHANGED flag

\* arch_spin_unlock
Unlock(h) == Step(h, "critical", "leave") /\ UNCHANGED flag

Leave(h) ==
  Step(h, "leave", "S") /\ AllIn(Harts \ Lower(h), {ST0, ST1, ST4}) /\ Write(h, ST0)

Next ==
  \E h \in Harts :
    \/ Outside(h) \/ OpenDoor(h) \/ Doorway(h) \/ Look(h) \/ WaitingRoom(h)
    \/ DoorClosed(h) \/ CloseDoor(h) \/ MyTurn(h) \/ Unlock(h) \/ Leave(h)

Spec == Init /\ [][Next]_vars

\* "Mutual exclusion using Szymanski's algorithm" (spinlock.c:11): one hart is
\* between arch_spin_lock and arch_spin_unlock.
MutualExclusion ==
  \A h, k \in Harts : pc[h] = "critical" /\ pc[k] = "critical" => h = k

=============================================================================
