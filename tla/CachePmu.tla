------------------------------ MODULE CachePmu ------------------------------
(***************************************************************************)
(* The counters of the L2 and the L3 cache (src/l2_pmu.c, src/l3_pmu.c).   *)
(* Unless each hart has an L2 of its own, one table of events serves all   *)
(* harts and is read and written without a lock; a hart that comes up      *)
(* clears it (hart_init of src/minit.c).  The supervisors name only the    *)
(* counters handed to them.  Of the event only the hart that asked for it  *)
(* is kept; banks, counter values and calls refused for a bad event are    *)
(* left out.                                                               *)
(***************************************************************************)
EXTENDS Integers, FiniteSets

CONSTANTS
  CacheKinds,  \* records [l3, dedicated]: the PMU, and PLF_CACHE_L2_DEDICATED
  PmuHarts,
  NumCounters, \* SCR_L2_PMU_CTR_NUM, SCR_L3_PMU_COUNTERS
  MaxCfgs,     \* bound: counters asked for
  MaxBoots     \* bound: harts stopped and started again (PLF_HSM_HOTPLUG)

ASSUME CachePmuAssumption ==
  /\ CacheKinds \subseteq {k \in [l3: BOOLEAN, dedicated: BOOLEAN] : ~(k.l3 /\ k.dedicated)}
  /\ IsFiniteSet(PmuHarts) /\ NumCounters \in Nat \ {0} /\ MaxCfgs \in Nat /\ MaxBoots \in Nat
  /\ PmuHarts \cap {"nobody", "shared"} = {}

VARIABLES
  cache,    \* which PMU
  taken,    \* active_events: counter -> hart or Nobody, for each table
  hwEvent,  \* the event register of each counter
  at,       \* hart -> its place in a call
  idx,      \* hart -> index of the search, or the counter being released
  found,    \* hart -> ctr_idx
  todo,     \* hart -> counters of a stop still to be handled
  auto,     \* hart -> AUTO_START was asked for
  owned,    \* supervisor of a hart: counters handed to it
  on,       \* supervisor of a hart: counters it has started
  cfgs, boots,
  alone     \* history: no two table changes have overlapped, no hart came up

cacheVars == <<cache, taken, hwEvent, at, idx, found, todo, auto, owned, on, cfgs, boots, alone>>

Counters == 0 .. (NumCounters - 1)
Nobody == "nobody"
TableOf(h) == IF cache.dedicated THEN h ELSE "shared"
Tables == PmuHarts \cup {"shared"}
Taker(h, k) == taken[TableOf(h)][k]
Put(f, h, k, x) == [f EXCEPT ![TableOf(h)][k] = x]
\* scr_l2_pmu_ctr_write_event; for L3 the registers of the banks, or of all at once.
WriteL2(h, k, x) == hwEvent' = Put(hwEvent, h, k, x)
WriteL3(h, k, x) == hwEvent' = Put(hwEvent, h, k, x)
\* pmu_ctr_validate, scr_l3_pmu_event_validate.
Valid(h, k) == Taker(h, k) # Nobody
Changing(h) == at[h] \notin {"idle", "starting"}
\* The history, when h enters a call that changes the table.
Enters(h) == alone' = (alone /\ \A g \in PmuHarts \ {h} : ~Changing(g))

\* The loops at the end of scr_fdt_l2_pmu_init and scr_fdt_l3_pmu_init.
AllFree == [k \in Counters |-> Nobody]

CacheInit ==
  /\ cache \in CacheKinds
  /\ taken = [t \in Tables |-> AllFree]
  /\ hwEvent = [t \in Tables |-> [k \in Counters |-> Nobody]]
  /\ at = [h \in PmuHarts |-> "idle"]
  /\ idx = [h \in PmuHarts |-> 0] /\ found = [h \in PmuHarts |-> -1]
  /\ todo = [h \in PmuHarts |-> {}] /\ auto = [h \in PmuHarts |-> FALSE]
  /\ owned = [h \in PmuHarts |-> {}] /\ on = [h \in PmuHarts |-> {}]
  /\ cfgs = 0 /\ boots = 0 /\ alone = TRUE

\* sbi_l2_pmu_ctr_cfg_match, sbi_l3_pmu_ctr_cfg_match up to the search.
CfgCall(h) ==
  /\ at[h] = "idle" /\ cfgs < MaxCfgs /\ cfgs' = cfgs + 1
  /\ at' = [at EXCEPT ![h] = "find"] /\ Enters(h)
  /\ idx' = [idx EXCEPT ![h] = 0] /\ found' = [found EXCEPT ![h] = -1]
  /\ \E b \in BOOLEAN : auto' = [auto EXCEPT ![h] = b]
  /\ UNCHANGED <<cache, taken, hwEvent, todo, owned, on, boots>>

\* A search that does not look whether the entry is free.
IsFree_Unchecked(h) == Taker(h, idx[h]) = Taker(h, idx[h])

\* One entry: L2 goes on to the last free one, L3 stops at the first.
IsFree(h) == Taker(h, idx[h]) = Nobody
Find(h) ==
  /\ at[h] = "find" /\ idx[h] < NumCounters
  /\ found' = IF IsFree(h) THEN [found EXCEPT ![h] = idx[h]] ELSE found
  /\ idx' = [idx EXCEPT ![h] = IF IsFree(h) /\ cache.l3 THEN NumCounters ELSE @ + 1]
  /\ UNCHANGED <<cache, taken, hwEvent, at, todo, auto, owned, on, cfgs, boots, alone>>

NoneFree(h) ==
  /\ at[h] = "find" /\ idx[h] = NumCounters /\ found[h] < 0
  /\ at' = [at EXCEPT ![h] = "idle"]
  /\ UNCHANGED <<cache, taken, hwEvent, idx, found, todo, auto, owned, on, cfgs, boots, alone>>

\* L2 writes the event register and then the table.
TakeEvent(h) ==
  /\ at[h] = "find" /\ idx[h] = NumCounters /\ found[h] >= 0
  /\ at' = [at EXCEPT ![h] = "take"]
  /\ IF cache.l3 THEN UNCHANGED hwEvent ELSE WriteL2(h, found[h], h)
  /\ UNCHANGED <<cache, taken, idx, found, todo, auto, owned, on, cfgs, boots, alone>>

TakeRow(h) ==
  /\ at[h] = "take"
  /\ taken' = Put(taken, h, found[h], h)
  /\ at' = [at EXCEPT ![h] = "given"]
  /\ UNCHANGED <<cache, hwEvent, idx, found, todo, auto, owned, on, cfgs, boots, alone>>

\* AUTO_START, which for L2 does nothing, and the return with the counter.
Give(h) ==
  /\ at[h] = "given" /\ at' = [at EXCEPT ![h] = "idle"]
  /\ IF cache.l3 /\ auto[h] THEN WriteL3(h, found[h], h) ELSE UNCHANGED hwEvent
  /\ owned' = [owned EXCEPT ![h] = @ \cup {found[h]}]
  /\ on' = IF ~cache.l3 \/ auto[h] THEN [on EXCEPT ![h] = @ \cup {found[h]}] ELSE on
  /\ UNCHANGED <<cache, taken, idx, found, todo, auto, cfgs, boots, alone>>

\* A configuration with SKIP_MATCH names the counter; L3 can start it at once.
CfgSkip(h, k) ==
  /\ at[h] = "idle" /\ k \in owned[h] /\ Valid(h, k) /\ cache.l3
  /\ WriteL3(h, k, h)
  /\ on' = [on EXCEPT ![h] = @ \cup {k}]
  /\ UNCHANGED <<cache, taken, at, idx, found, todo, auto, owned, cfgs, boots, alone>>

\* sbi_l3_pmu_ctr_start, a counter: it counts the event of the table.
StartL3(h, k) ==
  /\ at[h] = "idle" /\ k \in owned[h] /\ Valid(h, k) /\ cache.l3
  /\ WriteL3(h, k, Taker(h, k))
  /\ on' = [on EXCEPT ![h] = @ \cup {k}]
  /\ UNCHANGED <<cache, taken, at, idx, found, todo, auto, owned, cfgs, boots, alone>>

\* sbi_l2_pmu_ctr_start: an L2 counter runs since it was configured.
StartL2(h, k) ==
  /\ at[h] = "idle" /\ k \in owned[h] /\ Valid(h, k) /\ ~cache.l3
  /\ on' = [on EXCEPT ![h] = @ \cup {k}]
  /\ UNCHANGED <<cache, taken, hwEvent, at, idx, found, todo, auto, owned, cfgs, boots, alone>>

\* sbi_l2_pmu_ctr_stop, sbi_l3_pmu_ctr_stop with RESET: the supervisor gives counters up.
StopCall(h, S) ==
  /\ at[h] = "idle" /\ S # {} /\ S \subseteq owned[h]
  /\ at' = [at EXCEPT ![h] = "stop"] /\ Enters(h)
  /\ todo' = [todo EXCEPT ![h] = S]
  /\ owned' = [owned EXCEPT ![h] = @ \ S] /\ on' = [on EXCEPT ![h] = @ \ S]
  /\ UNCHANGED <<cache, taken, hwEvent, idx, found, auto, cfgs, boots>>

Lowest(S) == CHOOSE k \in S : \A l \in S : k <= l

\* The row is free before the event register is cleared; free rows are passed over.
ResetRow(h) ==
  /\ at[h] = "stop" /\ todo[h] # {}
  /\ LET k == Lowest(todo[h])
     IN IF ~Valid(h, k)
        THEN todo' = [todo EXCEPT ![h] = @ \ {k}] /\ UNCHANGED <<taken, at>>
        ELSE taken' = Put(taken, h, k, Nobody) /\ at' = [at EXCEPT ![h] = "clear"] /\ UNCHANGED todo
  /\ UNCHANGED <<cache, hwEvent, idx, found, auto, owned, on, cfgs, boots, alone>>

ResetEvent(h) ==
  /\ at[h] = "clear" /\ at' = [at EXCEPT ![h] = "stop"]
  /\ IF cache.l3 THEN WriteL3(h, Lowest(todo[h]), Nobody) ELSE WriteL2(h, Lowest(todo[h]), Nobody)
  /\ todo' = [todo EXCEPT ![h] = @ \ {Lowest(todo[h])}]
  /\ UNCHANGED <<cache, taken, idx, found, auto, owned, on, cfgs, boots, alone>>

StopReturns(h) ==
  /\ at[h] = "stop" /\ todo[h] = {}
  /\ at' = [at EXCEPT ![h] = "idle"]
  /\ UNCHANGED <<cache, taken, hwEvent, idx, found, todo, auto, owned, on, cfgs, boots, alone>>

\* Without RESET L3 clears the event register and keeps the row; L2 does nothing.
Pause(h, k) ==
  /\ at[h] = "idle" /\ k \in on[h] /\ cache.l3 /\ Valid(h, k)
  /\ WriteL3(h, k, Nobody)
  /\ on' = [on EXCEPT ![h] = @ \ {k}]
  /\ UNCHANGED <<cache, taken, at, idx, found, todo, auto, owned, cfgs, boots, alone>>

\* hart_init of a hart that was stopped, after its supervisor gave its counters up.
ComesUp(h) ==
  /\ boots < MaxBoots /\ at[h] = "idle" /\ owned[h] = {}
  /\ boots' = boots + 1 /\ alone' = FALSE
  /\ taken' = [taken EXCEPT ![TableOf(h)] = AllFree]
  /\ UNCHANGED <<cache, hwEvent, at, idx, found, todo, auto, owned, on, cfgs>>

CacheNext ==
  \E h \in PmuHarts :
    \/ CfgCall(h) \/ Find(h) \/ NoneFree(h) \/ TakeEvent(h) \/ TakeRow(h) \/ Give(h)
    \/ \E k \in Counters : CfgSkip(h, k) \/ StartL2(h, k) \/ StartL3(h, k) \/ Pause(h, k)
    \/ \E S \in SUBSET Counters : StopCall(h, S)
    \/ ResetRow(h) \/ ResetEvent(h) \/ StopReturns(h) \/ ComesUp(h)
CacheSpec == CacheInit /\ [][CacheNext]_cacheVars

(* A counter belongs to one supervisor, whose event it counts when it is   *)
(* on: always when each hart has its own cache, and for a shared table as  *)
(* long as no two configurations or releases overlap and no hart comes up  *)
(* meanwhile (src/l2_pmu.c:208-227, src/l3_pmu.c:222-244, src/minit.c:314).*)
CountersAreExact ==
  cache.dedicated \/ alone =>
    \A h \in PmuHarts : \A k \in owned[h] :
      /\ Taker(h, k) = h
      /\ k \in on[h] => hwEvent[TableOf(h)][k] = h
      /\ ~cache.dedicated => \A g \in PmuHarts \ {h} : k \notin owned[g]
=============================================================================
