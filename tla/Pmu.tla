--------------------------------- MODULE Pmu ---------------------------------
(***************************************************************************)
(* The performance counters of one hart (src/pmu.c): the SBI calls that    *)
(* configure, start and stop them over masks, the counters that overflow   *)
(* meanwhile, and the supervisor that takes the overflow interrupt.  The   *)
(* table of events is the hart's own (__thread), but pmu_hw_ctr_avail is   *)
(* one word of all harts, counted anew by every sbi_pmu_num_ctr: so a loop *)
(* over a mask takes a step for each counter, where it tests that word.    *)
(* What the counters count is left out: any running one may overflow.      *)
(***************************************************************************)
EXTENDS Integers

CONSTANTS
  LastCtr,     \* PMU_HW_CTR_MAX
  HwCtrs,      \* configurable counters a hart has: bits that stick in mcounteren
  Masks,       \* masks of counters the supervisor may pass, shifted by their base
  Strict,      \* PLF_PMU_STRICT_EVENTS
  PmuEvents,   \* records [kind, id, listed]: events the supervisor may ask for
  MaxAvail     \* bound: largest number that other harts put into pmu_hw_ctr_avail

ASSUME PmuAssumption ==
  /\ LastCtr \in Nat /\ LastCtr >= 3 /\ Strict \in BOOLEAN /\ MaxAvail \in Nat
  /\ HwCtrs \subseteq 3 .. LastCtr /\ Masks \subseteq SUBSET (0 .. LastCtr)
  /\ PmuEvents \subseteq [kind: {"hw", "cache", "raw", "fw", "other"}, id: Nat, listed: BOOLEAN]

VARIABLES
  avail,   \* pmu_hw_ctr_avail, of all harts
  call,    \* the call of this hart that is under way
  table,   \* active_events
  inhibit, \* mcountinhibit
  mevent,  \* mhpmevent: [sel, of]
  lcofip,  \* mip bit 13
  ret,     \* the answer of the last call
  raised   \* history: overflows the supervisor has not been able to read

ctrVars == <<table, inhibit, mevent, raised>>
pmuVars == <<avail, call, ctrVars, lcofip, ret>>

Ctrs == 0 .. LastCtr
Word(name) == [kind |-> name, id |-> 0, listed |-> FALSE]
NoEvent == Word("none")          \* SBI_PMU_EVENT_NOT_SUPP, all ones
Zero == [sel |-> Word("zero"), of |-> FALSE]
AlwaysOn == {0, 2}               \* PMU_DFLT_EN_MINH

\* What the calls set; the event of counter 0 is never used, and a mark is the hardware's.
Settings == [inhibit |-> inhibit, table |-> [k \in Ctrs \ {0} |-> table[k]],
             sel |-> [k \in HwCtrs |-> mevent[k].sel]]
NoSettings == [inhibit |-> {}, table |-> <<>>, sel |-> <<>>]

(* A call: the counters its loop has left, of which the lowest is at hand, *)
(* and whether that is tested or written next; its flags; mip_val          *)
(* ("pending"); the word it loaded ("copy"); and two histories, whether    *)
(* avail has fallen since it began and the settings it began with.         *)
NoCall == [op |-> "none", at |-> "test", left |-> {}, reset |-> FALSE, event |-> NoEvent,
           pending |-> FALSE, copy |-> 0, fell |-> FALSE, was |-> NoSettings]
Idle == call.op = "none"

\* hart_init and pmu_hart_init.
PmuInit ==
  /\ avail = 0
  /\ call = NoCall
  /\ table = [k \in Ctrs |-> NoEvent]
  /\ inhibit = Ctrs \ AlwaysOn
  /\ mevent = [k \in HwCtrs |-> Zero]
  /\ lcofip = FALSE /\ ret = "none" /\ raised = {}

Answers(code) == ret' = code /\ call' = NoCall
InLoop == call.op \in {"find", "start", "stop"}

-----------------------------------------------------------------------------
\* sbi_ffs: the lowest counter of a mask that is not empty.
First(mask) == CHOOSE b \in mask : \A c \in mask : b <= c
At == First(call.left)

(* sbi_pmu_num_ctr: the word of all harts is set to 3, and one is added to *)
(* it for each counter of mcounteren, with a load and a store.             *)
NumCtr ==
  /\ Idle /\ avail' = 3 /\ ret' = "none"
  /\ call' = [NoCall EXCEPT !.op = "count", !.left = HwCtrs]
  /\ UNCHANGED <<ctrVars, lcofip>>

LoadAvail ==
  /\ call.op = "count" /\ call.at = "test" /\ call.left # {}
  /\ call' = [call EXCEPT !.at = "write", !.copy = avail]
  /\ UNCHANGED <<avail, ctrVars, lcofip, ret>>

StoreAvail ==
  /\ call.op = "count" /\ call.at = "write" /\ avail' = call.copy + 1
  /\ call' = [call EXCEPT !.at = "test", !.copy = 0, !.left = @ \ {At}]
  /\ UNCHANGED <<ctrVars, lcofip, ret>>

NumCtrReturns ==
  /\ call.op = "count" /\ call.left = {} /\ Answers("SUCCESS")
  /\ UNCHANGED <<avail, ctrVars, lcofip>>

(* Another hart in sbi_pmu_num_ctr stores 3, or one more than it loaded,   *)
(* which may be a sum that several harts have added to.                    *)
NumCtrElsewhere(n) ==
  /\ avail' = n
  /\ call' = [call EXCEPT !.fell = InLoop /\ (@ \/ n < avail)]
  /\ UNCHANGED <<ctrVars, lcofip, ret>>

\* sbi_pmu_ctr_get_info, sbi_pmu_fw_ctr_read: answers only.
GetInfo(k) ==
  /\ Idle /\ Answers(IF k > avail \/ k = 1 THEN "INVALID_PARAM" ELSE "SUCCESS")
  /\ UNCHANGED <<avail, ctrVars, lcofip>>

-----------------------------------------------------------------------------
\* hw_sbi_events and hw_raw_events: the events the core counts.
Listed(e) == e.listed

\* pmu_find_event_selector; a build without PLF_PMU_STRICT_EVENTS takes any raw event.
HasSelector(e) == \/ e.kind \in {"hw", "cache", "raw"} /\ Listed(e)
                  \/ e.kind = "raw" /\ ~Strict

\* A test that leaves the limit to the loop.
Refused_EmptyOnly(mask) == mask = {}

\* The tests before the loop over a mask; sbi_fls is its highest bit.
Refused(mask) == mask = {} \/ \E b \in mask : b > avail

\* A call that passes its first tests, or is answered at once.
Begin(op, mask, more) ==
  /\ UNCHANGED <<avail, ctrVars, lcofip>>
  /\ IF Refused(mask) THEN Answers("INVALID_PARAM")
     ELSE ret' = "none" /\ call' = [more EXCEPT !.op = op, !.left = mask, !.was = Settings]

(* sbi_pmu_ctr_cfg_match: "skip" names the counter, which is tested once,  *)
(* otherwise pmu_find_hw_cntr searches a free one above the fixed ones.    *)
CfgMatch(e, mask, skip) ==
  /\ Idle
  /\ \/ /\ ~HasSelector(e) /\ Answers("NOT_SUPPORTED")
        /\ UNCHANGED <<avail, ctrVars, lcofip>>
     \/ /\ HasSelector(e) /\ skip
        /\ Begin("find", IF mask = {} THEN {} ELSE {First(mask)},
                 [NoCall EXCEPT !.at = "write", !.event = e])
     \/ HasSelector(e) /\ ~skip /\ Begin("find", mask \ 0 .. 2, [NoCall EXCEPT !.event = e])

StartCtrs(mask) == Idle /\ Begin("start", mask, NoCall)
StopCtrs(mask, reset) == Idle /\ Begin("stop", mask, [NoCall EXCEPT !.reset = reset])

-----------------------------------------------------------------------------
Testing == InLoop /\ call.at = "test" /\ call.left # {}
Forbidden(b) == b > avail \/ b = 1
OnToNext == call' = [call EXCEPT !.at = "test", !.left = @ \ {At}, !.pending = FALSE]
ToWrite == call' = [call EXCEPT !.at = "write", !.pending = lcofip]

\* The same test heads the three loops.
Refuses ==
  /\ Testing /\ Forbidden(At) /\ Answers("INVALID_PARAM")
  /\ UNCHANGED <<avail, ctrVars, lcofip>>

LoopEnds ==
  /\ InLoop /\ call.at = "test" /\ call.left = {}
  /\ Answers(IF call.op = "find" THEN "FAILURE" ELSE "SUCCESS")
  /\ UNCHANGED <<avail, ctrVars, lcofip>>

\* pmu_set_hw_event: the fixed counters and those beyond the limit have no event,
Settable(k) == k >= 3 /\ k <= avail
\* and csr_write_num writes the register of another, if the hart has it.
Written(k, word) ==
  IF Settable(k) /\ k \in HwCtrs THEN [mevent EXCEPT ![k] = word] ELSE mevent

\* pmu_find_hw_cntr takes the first free counter,
FindCtr ==
  /\ Testing /\ call.op = "find" /\ ~Forbidden(At)
  /\ IF table[At] = NoEvent THEN ToWrite ELSE OnToNext
  /\ UNCHANGED <<avail, ctrVars, lcofip, ret>>

\* which the call gives the event, its overflow disarmed.
Configure ==
  /\ call.op = "find" /\ call.at = "write"
  /\ table' = [table EXCEPT ![At] = call.event]
  /\ mevent' = Written(At, [sel |-> call.event, of |-> TRUE])
  /\ raised' = raised \ {At}
  /\ Answers("SUCCESS") /\ UNCHANGED <<avail, inhibit, lcofip>>

\* sbi_pmu_ctr_start: a counter that runs is passed over.
StartTest ==
  /\ Testing /\ call.op = "start" /\ ~Forbidden(At)
  /\ IF At \in inhibit THEN ToWrite ELSE OnToNext
  /\ UNCHANGED <<avail, ctrVars, lcofip, ret>>

\* A start that arms the interrupt in any case.
Rearmed_Always(b) == Written(b, [sel |-> table[b], of |-> table[b] = NoEvent])

\* The event is written again, which arms the interrupt, unless one was pending.
Rearmed(b) ==
  IF call.pending THEN mevent ELSE Written(b, [sel |-> table[b], of |-> table[b] = NoEvent])

StartWrite ==
  /\ call.op = "start" /\ call.at = "write"
  /\ mevent' = Rearmed(At) /\ inhibit' = inhibit \ {At} /\ OnToNext
  /\ UNCHANGED <<avail, table, raised, lcofip, ret>>

\* sbi_pmu_ctr_stop
StopTest ==
  /\ Testing /\ call.op = "stop" /\ ~Forbidden(At)
  /\ inhibit' = (inhibit \cup {At}) \ AlwaysOn
  /\ IF call.reset THEN call' = [call EXCEPT !.at = "write"] ELSE OnToNext
  /\ UNCHANGED <<avail, table, mevent, raised, lcofip, ret>>

\* RESET frees the counter.
StopWrite ==
  /\ call.op = "stop" /\ call.at = "write"
  /\ table' = [table EXCEPT ![At] = NoEvent]
  /\ mevent' = Written(At, Zero) /\ raised' = raised \ {At} /\ OnToNext
  /\ UNCHANGED <<avail, inhibit, lcofip, ret>>

-----------------------------------------------------------------------------
\* A running counter overflows for the first time since it was armed.
Overflow(k) ==
  /\ k \in HwCtrs \ inhibit /\ mevent[k].sel # Zero.sel /\ ~mevent[k].of
  /\ mevent' = [mevent EXCEPT ![k].of = TRUE]
  /\ lcofip' = TRUE /\ raised' = raised \cup {k}
  /\ UNCHANGED <<avail, call, table, inhibit, ret>>

\* The supervisor has read which counters have overflowed, and clears the bit.
ClearOverflow ==
  /\ Idle /\ lcofip /\ lcofip' = FALSE /\ raised' = {}
  /\ UNCHANGED <<avail, call, table, inhibit, mevent, ret>>

PmuNext ==
  \/ NumCtr \/ LoadAvail \/ StoreAvail \/ NumCtrReturns
  \/ \E n \in 3 .. MaxAvail : NumCtrElsewhere(n)
  \/ \E k \in Ctrs : GetInfo(k) \/ Overflow(k)
  \/ \E e \in PmuEvents, mask \in Masks, skip \in BOOLEAN : CfgMatch(e, mask, skip)
  \/ \E mask \in Masks : StartCtrs(mask) \/ \E reset \in BOOLEAN : StopCtrs(mask, reset)
  \/ Refuses \/ LoopEnds \/ FindCtr \/ Configure
  \/ StartTest \/ StartWrite \/ StopTest \/ StopWrite
  \/ ClearOverflow
PmuSpec == PmuInit /\ [][PmuNext]_pmuVars

(* A call that fails has changed no setting but the event of counter 0; a  *)
(* start or a stop, unless another hart has counted the counters under it  *)
(* and the limit fell (src/pmu.c:236, 341, 380): of the counters a mask    *)
(* may not name the loops otherwise meet only number 1, after 0 alone.     *)
FailsClean ==
  [][ret' \notin {"none", "SUCCESS"} /\ (call.op = "find" \/ ~call.fell) =>
       Settings' = (IF Idle THEN Settings ELSE call.was)]_pmuVars

(* While an overflow interrupt is pending, every counter that raised it    *)
(* still carries its mark, whatever is stopped and started meanwhile: the  *)
(* supervisor finds all of them (src/pmu.c:355-359).                       *)
OverflowKept == lcofip => \A k \in raised : mevent[k].of
=============================================================================
