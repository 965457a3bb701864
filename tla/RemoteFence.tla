---------------------------- MODULE RemoteFence ----------------------------
(***************************************************************************)
(* What REMOTE_SFENCE_VMA promises: a supervisor asks for a fence on a set *)
(* of harts, and each of them runs it once, some time later.  How requests *)
(* travel, and in which order they are run, is left open.                  *)
(***************************************************************************)
EXTENDS Naturals

CONSTANTS NumHarts, MaxCalls

Harts    == 0 .. NumHarts - 1
Requests == Harts \X (0 .. MaxCalls)

VARIABLES
  asked,   \* the requests made so far
  todo,    \* todo[t]: the requests hart t still has to run
  fences   \* fences[t]: how many fences hart t has run

vars == <<asked, todo, fences>>

Init ==
  /\ asked  = {}
  /\ todo   = [t \in Harts |-> {}]
  /\ fences = [t \in Harts |-> 0]

Ask(r, targets) ==
  /\ r \notin asked
  /\ asked' = asked \cup {r}
  /\ todo'  = [t \in Harts |-> IF t \in targets THEN todo[t] \cup {r} ELSE todo[t]]
  /\ UNCHANGED fences

Run(t, r) ==
  /\ r \in todo[t]
  /\ todo'   = [todo EXCEPT ![t] = @ \ {r}]
  /\ fences' = [fences EXCEPT ![t] = @ + 1]
  /\ UNCHANGED asked

Next ==
  \/ \E r \in Requests, targets \in SUBSET Harts : Ask(r, targets)
  \/ \E t \in Harts, r \in Requests : Run(t, r)

Spec ==
  /\ Init
  /\ [][Next]_vars
  /\ \A t \in Harts, r \in Requests : WF_vars(Run(t, r))

=============================================================================
