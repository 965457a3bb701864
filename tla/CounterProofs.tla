--------------------------- MODULE CounterProofs ---------------------------
(***************************************************************************)
(* Theorems about the counters.  Of Pmu, for any counters, events and      *)
(* masks and whatever other harts count meanwhile: an overflow keeps its   *)
(* mark until the supervisor has seen it, and a call that fails leaves the *)
(* counters as they were, unless the limit fell under a start or stop.  Of *)
(* CachePmu, for any harts and any number of counters: the counters that   *)
(* supervisors hold are exact while what is shared is changed by one hart  *)
(* at a time.  Of WideRead, for any size of a word: a counter read in      *)
(* halves is read as a value it had.                                       *)
(***************************************************************************)
EXTENDS Pmu, CachePmu, WideRead, FiniteSetTheorems, WellFoundedInduction, TLAPS

\* The lowest counter of a mask is one of it.
LEMMA FirstIsIn ==
  ASSUME NEW S \in SUBSET Ctrs, S # {}
  PROVE  First(S) \in S /\ \A c \in S : First(S) <= c
<1>1. S \subseteq Nat
  BY PmuAssumption DEF Ctrs
<1> DEFINE less == {ss \in Nat \X Nat : ss[1] < ss[2]}
<1>2. IsWellFoundedOn(less, Nat)
  BY NatLessThanWellFounded DEF OpToRel
<1>3. \A n, m \in Nat : n < m => <<n, m>> \in less
  OBVIOUS
<1> HIDE DEF less
<1>4. PICK n \in S : \A m \in S : ~(<<m, n>> \in less)
  BY <1>1, <1>2, WFMin
<1>5. ASSUME NEW m \in S PROVE n <= m
  <2>1. n \in Nat /\ m \in Nat
    BY <1>1, <1>4
  <2>2. ~(m < n)
    BY <2>1, <1>3, <1>4
  <2> QED BY <2>1, <2>2
<1> QED BY <1>5 DEF First

IsWord(w) == w = [sel |-> w.sel, of |-> w.of]
IsCall(c) ==
  c = [op |-> c.op, at |-> c.at, left |-> c.left, reset |-> c.reset, event |-> c.event,
       pending |-> c.pending, copy |-> c.copy, fell |-> c.fell, was |-> c.was]

\* What the registers and the call under way are made of.
PmuTypes ==
  /\ avail \in Nat
  /\ inhibit \cap AlwaysOn = {}
  /\ mevent = [k \in HwCtrs |-> mevent[k]] /\ \A k \in HwCtrs : IsWord(mevent[k])
  /\ IsCall(call) /\ call.left \in SUBSET Ctrs /\ call.copy \in Nat
  /\ InLoop /\ call.at = "write" => call.left # {}
  /\ ~Idle => ret = "none"

(* No overflow is remembered without a pending interrupt: the first one    *)
(* after that finds none older.  A start that is about to arm a counter    *)
(* has seen an interrupt pending, or the counter has not overflowed since: *)
(* it does not count (src/pmu.c:350-359).                                  *)
MarkInv ==
  /\ PmuTypes
  /\ raised \subseteq HwCtrs
  /\ raised # {} => lcofip
  /\ \A k \in raised : mevent[k].of
  /\ call.op = "start" /\ call.at = "write" =>
       At \in inhibit /\ (call.pending \/ At \notin raised)

(* Until the limit falls the loops meet none beyond it; and counter 1, if  *)
(* it is named, comes before all but counter 0.                            *)
Untouched == Settings = call.was
CleanInv ==
  /\ MarkInv
  /\ InLoop /\ ~call.fell => \A b \in call.left : b <= avail
  /\ call.op = "find" => Untouched
  /\ InLoop /\ ~call.fell /\ 1 \in call.left => Untouched
  /\ call.op \in {"start", "stop"} /\ call.at = "write" => At # 1

\* What pmu_set_hw_event leaves of the counters.
LEMMA WrittenKeeps ==
  ASSUME NEW b, NEW word, PmuTypes, IsWord(word)
  PROVE  /\ Written(b, word) = [k \in HwCtrs |-> Written(b, word)[k]]
         /\ \A k \in HwCtrs : IsWord(Written(b, word)[k])
         /\ \A k \in HwCtrs \ {b} : Written(b, word)[k] = mevent[k]
         /\ ~Settable(b) => Written(b, word) = mevent
  BY DEF Written, PmuTypes

\* Steps that leave the settings, but for the event of counter 0.
Same ==
  /\ inhibit' = inhibit
  /\ \A k \in Ctrs \ {0} : table'[k] = table[k]
  /\ \A k \in HwCtrs : mevent'[k].sel = mevent[k].sel

LEMMA SameIsSame ==
  ASSUME Same PROVE Settings' = Settings
<1>1. [k \in Ctrs \ {0} |-> table'[k]] = [k \in Ctrs \ {0} |-> table[k]]
  BY DEF Same
<1>2. [k \in HwCtrs |-> mevent'[k].sel] = [k \in HwCtrs |-> mevent[k].sel]
  BY DEF Same
<1> QED BY <1>1, <1>2 DEF Same, Settings

(* What each step does to the call: it goes on with what it has, ends, or  *)
(* one begins with the settings there are.                                 *)
Ends == call' = NoCall
GoesOn ==
  /\ IsCall(call') /\ call'.op = call.op /\ call'.was = call.was
  /\ call'.left \subseteq call.left /\ call'.copy = call.copy

LEMMA OnToNextFacts ==
  ASSUME PmuTypes, OnToNext
  PROVE  /\ GoesOn /\ call'.at = "test" /\ call'.left = call.left \ {At}
         /\ call'.fell = call.fell
  BY DEF PmuTypes, OnToNext, GoesOn, IsCall

LEMMA ToWriteFacts ==
  ASSUME PmuTypes, ToWrite
  PROVE  /\ GoesOn /\ call'.at = "write" /\ call'.left = call.left
         /\ call'.fell = call.fell /\ call'.pending = lcofip
  BY DEF PmuTypes, ToWrite, GoesOn, IsCall

\* The counter at hand is one of those left, and the lowest.
LEMMA AtIsLowest ==
  ASSUME PmuTypes, call.left # {}
  PROVE  At \in call.left /\ At \in Ctrs /\ \A c \in call.left : At <= c
  BY FirstIsIn DEF PmuTypes, At

\* A step keeps the invariant, and if it is an answer that a call failed, that is clean.
Failed == ret' \notin {"none", "SUCCESS"} /\ (call.op = "find" \/ ~call.fell)
StepIsClean ==
  /\ CleanInv'
  /\ Failed => Settings' = (IF Idle THEN Settings ELSE call.was)

LEMMA NoCallFacts ==
  /\ IsCall(NoCall) /\ NoCall.op = "none" /\ NoCall.left = {} /\ NoCall.copy = 0
  /\ NoCall.at = "test" /\ NoCall.fell = FALSE
  BY DEF NoCall, IsCall

\* A call that ends and leaves the counters alone.
LEMMA EndStep ==
  ASSUME CleanInv, Ends, UNCHANGED <<avail, ctrVars, lcofip>>
  PROVE  CleanInv'
<1>1. PmuTypes'
  BY NoCallFacts, PmuAssumption DEF CleanInv, MarkInv, PmuTypes, Ends, ctrVars, InLoop, Idle, Ctrs
<1>2. MarkInv'
  BY <1>1, NoCallFacts DEF CleanInv, MarkInv, Ends, ctrVars
<1> QED BY <1>2, NoCallFacts DEF CleanInv, Ends, InLoop

LEMMA SettingsStay ==
  ASSUME UNCHANGED ctrVars PROVE Settings' = Settings
  BY DEF ctrVars, Settings

\* It begins with no counter beyond the limit left, and with nothing changed.
LEMMA BeginStep ==
  ASSUME CleanInv, Idle, NEW op \in {"find", "start", "stop"},
         NEW mask \in SUBSET Ctrs, NEW more, IsCall(more), ~more.fell, more.copy = 0,
         op \in {"start", "stop"} => more.at = "test",
         Begin(op, mask, more)
  PROVE  StepIsClean
<1>1. CASE Refused(mask)
  <2>1. Ends /\ UNCHANGED <<avail, ctrVars, lcofip>>
    BY <1>1 DEF Begin, Answers, Ends
  <2> QED BY <2>1, EndStep, SettingsStay DEF StepIsClean
<1>2. CASE ~Refused(mask)
  <2>1. UNCHANGED <<avail, ctrVars, lcofip>> /\ ret' = "none"
        /\ call' = [more EXCEPT !.op = op, !.left = mask, !.was = Settings]
    BY <1>2 DEF Begin
  <2>2. /\ IsCall(call') /\ call'.op = op /\ call'.left = mask /\ call'.was = Settings
        /\ ~call'.fell /\ call'.copy = 0 /\ call'.at = more.at
    BY <2>1 DEF IsCall
  <2>3. mask # {} /\ \A b \in mask : ~(b > avail)
    BY <1>2 DEF Refused
  <2>4. avail \in Nat /\ avail' = avail /\ mask \subseteq Nat
    BY <2>1, PmuAssumption DEF CleanInv, MarkInv, PmuTypes, Ctrs
  <2>5. \A b \in mask : b <= avail
    BY <2>3, <2>4
  <2>6. PmuTypes'
    BY <2>1, <2>2, <2>3 DEF CleanInv, MarkInv, PmuTypes, ctrVars
  <2>7. MarkInv'
    BY <2>1, <2>2, <2>6 DEF CleanInv, MarkInv, ctrVars
  <2>8. Settings' = Settings
    BY <2>1, SettingsStay
  <2> QED BY <2>1, <2>2, <2>4, <2>5, <2>7, <2>8 DEF CleanInv, StepIsClean, Failed, Untouched
<1> QED BY <1>1, <1>2

\* The test may leave the loop where it is; it changes no counter.
LEMMA TestStep ==
  ASSUME CleanInv, UNCHANGED <<avail, ctrVars, lcofip, ret>>, Testing, ~Forbidden(At),
         OnToNext \/ (ToWrite /\ (call.op = "start" => At \in inhibit))
  PROVE  StepIsClean
<1>1. /\ GoesOn /\ call'.fell = call.fell /\ call'.left \in SUBSET Ctrs
      /\ call'.at = "test"
         \/ /\ call'.at = "write" /\ call'.left = call.left /\ call'.pending = lcofip
            /\ call.op = "start" => At \in inhibit
  BY OnToNextFacts, ToWriteFacts DEF CleanInv, MarkInv, PmuTypes, GoesOn
<1>2. PmuTypes'
  BY <1>1 DEF CleanInv, MarkInv, PmuTypes, GoesOn, ctrVars, InLoop, Idle, Testing
<1>3. MarkInv'
  BY <1>1, <1>2 DEF CleanInv, MarkInv, GoesOn, ctrVars, At
<1>4. Settings' = Settings
  BY SettingsStay
<1>5. CleanInv'
  BY <1>1, <1>3, <1>4 DEF CleanInv, GoesOn, InLoop, Untouched, Forbidden, At
<1>6. ~Failed
  BY DEF CleanInv, MarkInv, PmuTypes, Testing, InLoop, Idle, Failed
<1> QED BY <1>5, <1>6 DEF StepIsClean

\* A call is refused with nothing changed, or because the limit fell.
LEMMA RefuseStep ==
  ASSUME CleanInv, Refuses PROVE StepIsClean
<1>1. CleanInv' /\ Settings' = Settings
  BY EndStep, SettingsStay DEF Refuses, Answers, Ends
<1>2. ASSUME Failed PROVE Settings = call.was
  <2>1. CASE call.op = "find"
    BY <2>1 DEF CleanInv, Untouched
  <2>2. CASE ~call.fell
    <3>1. At \in call.left
      BY AtIsLowest DEF CleanInv, MarkInv, Refuses, Testing
    <3>2. At <= avail /\ (At > avail \/ At = 1)
      BY <2>2, <3>1 DEF CleanInv, Refuses, Testing, Forbidden
    <3>3. At \in Nat /\ avail \in Nat
      BY <3>1, PmuAssumption DEF CleanInv, MarkInv, PmuTypes, Ctrs
    <3>4. 1 \in call.left
      BY <3>1, <3>2, <3>3
    <3> QED BY <2>2, <3>4 DEF CleanInv, Refuses, Testing, Untouched
  <2> QED BY <1>2, <2>1, <2>2 DEF Failed
<1> QED BY <1>1, <1>2 DEF StepIsClean, Refuses, Testing, InLoop, Idle

\* A search that finds no counter has changed nothing.
LEMMA LoopEndStep ==
  ASSUME CleanInv, LoopEnds PROVE StepIsClean
<1>1. CleanInv' /\ Settings' = Settings
  BY EndStep, SettingsStay DEF LoopEnds, Answers, Ends
<1>2. Failed => call.op = "find"
  BY DEF Failed, LoopEnds, Answers
<1> QED BY <1>1, <1>2 DEF StepIsClean, LoopEnds, InLoop, Idle, CleanInv, Untouched

\* A configured counter starts without an overflow, and no other changes.
LEMMA ConfigureStep ==
  ASSUME CleanInv, Configure PROVE StepIsClean
<1> DEFINE word == [sel |-> call.event, of |-> TRUE]
<1>1. /\ mevent' = Written(At, word) /\ raised' = raised \ {At}
      /\ Ends /\ ret' = "SUCCESS" /\ avail' = avail /\ inhibit' = inhibit /\ lcofip' = lcofip
  BY DEF Configure, Answers, Ends
<1>2. IsWord(word)
  BY DEF IsWord
<1> HIDE DEF word
<1>3. /\ mevent' = [k \in HwCtrs |-> mevent'[k]] /\ \A k \in HwCtrs : IsWord(mevent'[k])
      /\ \A k \in HwCtrs \ {At} : mevent'[k] = mevent[k]
  BY <1>1, <1>2, WrittenKeeps DEF CleanInv, MarkInv
<1>4. PmuTypes'
  BY <1>1, <1>3, NoCallFacts DEF CleanInv, MarkInv, PmuTypes, Ends, InLoop, Idle
<1>5. MarkInv'
  BY <1>1, <1>3, <1>4, NoCallFacts DEF CleanInv, MarkInv, Ends
<1> QED BY <1>1, <1>5, NoCallFacts DEF StepIsClean, Failed, CleanInv, Ends, InLoop

(* Writes in a loop: they touch the counter at hand, take nothing from it  *)
(* while it carries a mark that is remembered, and go on.  Counter 0 has   *)
(* no event register and is never inhibited.                               *)
LEMMA WriteStep ==
  ASSUME CleanInv, InLoop, call.op # "find", call.left # {}, At # 1,
         UNCHANGED <<avail, lcofip, ret>>, GoesOn, call'.fell = call.fell,
         \/ call'.at = "test" /\ call'.left = call.left \ {At}
         \/ call.op = "stop" /\ call'.left = call.left,
         raised' \subseteq raised, inhibit' \cap AlwaysOn = {},
         mevent' = [k \in HwCtrs |-> mevent'[k]], \A k \in HwCtrs : IsWord(mevent'[k]),
         \A k \in raised' : mevent'[k].of,
         At = 0 => Same
  PROVE  StepIsClean
<1>1. call'.left \in SUBSET Ctrs /\ (call'.op = "start" => call'.at = "test")
      /\ (call'.at = "write" => call'.left # {})
  BY DEF CleanInv, MarkInv, PmuTypes, GoesOn
<1>2. PmuTypes'
  BY <1>1 DEF CleanInv, MarkInv, PmuTypes, GoesOn, InLoop, Idle
<1>3. MarkInv'
  BY <1>1, <1>2 DEF CleanInv, MarkInv
<1>4. ASSUME ~call.fell, 1 \in call'.left PROVE Untouched'
  <2>1. 1 \in call.left
    BY <1>4 DEF GoesOn
  <2>2. At \in Ctrs /\ At <= 1
    BY <2>1, AtIsLowest DEF CleanInv, MarkInv
  <2>3. At = 0
    BY <2>2, PmuAssumption DEF Ctrs
  <2>4. Settings' = Settings
    BY <2>3, SameIsSame
  <2> QED BY <1>4, <2>1, <2>4 DEF CleanInv, Untouched, GoesOn
<1>5. call'.at = "write" => At' = At
  BY DEF At, GoesOn
<1>6. ~Failed
  BY DEF Failed, CleanInv, MarkInv, PmuTypes, InLoop, Idle
<1>7. CleanInv'
  BY <1>1, <1>3, <1>4, <1>5 DEF CleanInv, GoesOn, InLoop
<1> QED BY <1>6, <1>7 DEF StepIsClean

\* A start that writes no mark while an overflow is pending (src/pmu.c:355-359).
LEMMA StartWriteStep ==
  ASSUME CleanInv, StartWrite PROVE StepIsClean
<1> DEFINE word == [sel |-> table[At], of |-> table[At] = NoEvent]
<1>1. /\ mevent' = IF call.pending THEN mevent ELSE Written(At, word)
      /\ inhibit' = inhibit \ {At} /\ OnToNext
      /\ UNCHANGED <<avail, table, raised, lcofip, ret>>
  BY DEF StartWrite, Rearmed
<1>2. IsWord(word)
  BY DEF IsWord
<1> HIDE DEF word
<1>3. InLoop /\ call.at = "write" /\ call.op = "start"
  BY DEF StartWrite, InLoop
<1>4. call.left # {} /\ At # 1 /\ At \in inhibit /\ (call.pending \/ At \notin raised)
  BY <1>3 DEF CleanInv, MarkInv, PmuTypes
<1>5. /\ mevent' = [k \in HwCtrs |-> mevent'[k]] /\ \A k \in HwCtrs : IsWord(mevent'[k])
      /\ \A k \in HwCtrs \ {At} : mevent'[k] = mevent[k]
      /\ call.pending => mevent' = mevent
  BY <1>1, <1>2, WrittenKeeps DEF CleanInv, MarkInv, PmuTypes
<1>6. At # 0
  BY <1>4 DEF CleanInv, MarkInv, PmuTypes, AlwaysOn
<1>7. /\ GoesOn /\ call'.at = "test" /\ call'.left = call.left \ {At} /\ call'.fell = call.fell
  BY <1>1, OnToNextFacts DEF CleanInv, MarkInv
<1>8. inhibit' \cap AlwaysOn = {}
  BY <1>1 DEF CleanInv, MarkInv, PmuTypes
<1>9. \A k \in raised' : mevent'[k].of
  BY <1>1, <1>4, <1>5 DEF CleanInv, MarkInv
<1> QED BY <1>1, <1>3, <1>4, <1>5, <1>6, <1>7, <1>8, <1>9, WriteStep

LEMMA StopTestStep ==
  ASSUME CleanInv, StopTest PROVE StepIsClean
<1>1. /\ inhibit' = (inhibit \cup {At}) \ AlwaysOn
      /\ OnToNext \/ call' = [call EXCEPT !.at = "write"]
      /\ UNCHANGED <<avail, table, mevent, raised, lcofip, ret>>
      /\ InLoop /\ call.op = "stop" /\ call.left # {} /\ At # 1
  BY DEF StopTest, Testing, Forbidden
<1>2. /\ GoesOn /\ call'.fell = call.fell
      /\ call'.left = call.left \/ (call'.at = "test" /\ call'.left = call.left \ {At})
  <2>1. CASE OnToNext
    BY <2>1, OnToNextFacts DEF CleanInv, MarkInv
  <2>2. CASE call' = [call EXCEPT !.at = "write"]
    BY <2>2 DEF CleanInv, MarkInv, PmuTypes, GoesOn, IsCall
  <2> QED BY <1>1, <2>1, <2>2
<1>3. /\ inhibit' \cap AlwaysOn = {}
      /\ mevent' = [k \in HwCtrs |-> mevent'[k]] /\ \A k \in HwCtrs : IsWord(mevent'[k])
      /\ \A k \in raised' : mevent'[k].of
  BY <1>1 DEF CleanInv, MarkInv, PmuTypes
<1>4. At = 0 => Same
  BY <1>1 DEF Same, CleanInv, MarkInv, PmuTypes, AlwaysOn
<1> QED BY <1>1, <1>2, <1>3, <1>4, WriteStep

\* Releasing a counter clears its mark only.
LEMMA StopWriteStep ==
  ASSUME CleanInv, StopWrite PROVE StepIsClean
<1>1. /\ mevent' = Written(At, Zero) /\ raised' = raised \ {At} /\ OnToNext
      /\ table' = [table EXCEPT ![At] = NoEvent]
      /\ UNCHANGED <<avail, inhibit, lcofip, ret>>
      /\ InLoop /\ call.op = "stop" /\ call.at = "write"
  BY DEF StopWrite, InLoop
<1>2. call.left # {} /\ At # 1
  BY <1>1 DEF CleanInv, MarkInv, PmuTypes
<1>3. IsWord(Zero)
  BY DEF IsWord, Zero
<1>4. /\ mevent' = [k \in HwCtrs |-> mevent'[k]] /\ \A k \in HwCtrs : IsWord(mevent'[k])
      /\ \A k \in HwCtrs \ {At} : mevent'[k] = mevent[k]
      /\ ~Settable(At) => mevent' = mevent
  BY <1>1, <1>3, WrittenKeeps DEF CleanInv, MarkInv
<1>5. /\ GoesOn /\ call'.at = "test" /\ call'.left = call.left \ {At} /\ call'.fell = call.fell
  BY <1>1, OnToNextFacts DEF CleanInv, MarkInv
<1>6. inhibit' \cap AlwaysOn = {} /\ \A k \in raised' : mevent'[k].of
  BY <1>1, <1>4 DEF CleanInv, MarkInv, PmuTypes
<1>7. ASSUME At = 0 PROVE Same
  <2>1. ~Settable(At)
    BY <1>7 DEF Settable
  <2>2. \A k \in Ctrs \ {0} : table'[k] = table[k]
    BY <1>1, <1>7
  <2> QED BY <1>1, <1>4, <2>1, <2>2 DEF Same
<1> QED BY <1>1, <1>2, <1>4, <1>5, <1>6, <1>7, WriteStep

\* Counting the counters touches none: neither here,
LEMMA CountStep ==
  ASSUME CleanInv, NumCtr \/ LoadAvail \/ StoreAvail \/ NumCtrReturns PROVE StepIsClean
<1>1. CASE NumCtrReturns
  <2>1. Ends /\ UNCHANGED <<avail, ctrVars, lcofip>> /\ ret' = "SUCCESS"
    BY <1>1 DEF NumCtrReturns, Answers, Ends
  <2> QED BY <2>1, EndStep DEF StepIsClean, Failed
<1>2. CASE NumCtr \/ LoadAvail \/ StoreAvail
  <2>1. UNCHANGED <<ctrVars, lcofip>> /\ ret' = "none"
    BY <1>2 DEF NumCtr, LoadAvail, StoreAvail, CleanInv, MarkInv, PmuTypes, Idle
  <2>2. avail' \in Nat
    BY <1>2 DEF NumCtr, LoadAvail, StoreAvail, CleanInv, MarkInv, PmuTypes
  <2>3. HwCtrs \in SUBSET Ctrs
    BY PmuAssumption DEF Ctrs
  <2>4. IsCall(call') /\ call'.op = "count" /\ call'.left \in SUBSET Ctrs /\ call'.copy \in Nat
    <3>1. CASE NumCtr
      BY <3>1, <2>3 DEF NumCtr, NoCall, IsCall
    <3>2. CASE LoadAvail
      BY <3>2 DEF LoadAvail, CleanInv, MarkInv, PmuTypes, IsCall
    <3>3. CASE StoreAvail
      BY <3>3 DEF StoreAvail, CleanInv, MarkInv, PmuTypes, IsCall
    <3> QED BY <1>2, <3>1, <3>2, <3>3
  <2>5. PmuTypes'
    BY <2>1, <2>2, <2>4 DEF CleanInv, MarkInv, PmuTypes, ctrVars, InLoop, Idle
  <2>6. CleanInv'
    BY <2>1, <2>4, <2>5 DEF CleanInv, MarkInv, ctrVars, InLoop
  <2> QED BY <2>1, <2>6 DEF StepIsClean, Failed
<1> QED BY <1>1, <1>2

\* nor elsewhere; but the limit of a loop may fall.
LEMMA CountElsewhereStep ==
  ASSUME CleanInv, NEW n \in 3 .. MaxAvail, NumCtrElsewhere(n) PROVE StepIsClean
<1> DEFINE f == InLoop /\ (call.fell \/ n < avail)
<1>0. call' = [call EXCEPT !.fell = f]
  BY DEF NumCtrElsewhere
<1> HIDE DEF f
<1>1. /\ GoesOn /\ call'.at = call.at /\ call'.left = call.left /\ call'.pending = call.pending
      /\ InLoop /\ ~call'.fell => ~call.fell /\ ~(n < avail)
  <2>1. IsCall(call') /\ call'.op = call.op /\ call'.was = call.was /\ call'.left = call.left
        /\ call'.copy = call.copy /\ call'.at = call.at /\ call'.pending = call.pending
        /\ call'.fell = f
    BY <1>0 DEF CleanInv, MarkInv, PmuTypes, IsCall
  <2>2. InLoop /\ ~call'.fell => ~call.fell /\ ~(n < avail)
    BY <2>1, Zenon DEF f
  <2> QED BY <2>1, <2>2 DEF GoesOn
<1>2. avail' = n /\ n \in Nat /\ avail \in Nat /\ UNCHANGED <<ctrVars, lcofip, ret>>
  BY PmuAssumption DEF NumCtrElsewhere, CleanInv, MarkInv, PmuTypes
<1>3. PmuTypes'
  BY <1>1, <1>2 DEF CleanInv, MarkInv, PmuTypes, GoesOn, ctrVars, InLoop, Idle
<1>4. MarkInv'
  BY <1>1, <1>2, <1>3 DEF CleanInv, MarkInv, GoesOn, ctrVars, At
<1>5. Settings' = Settings
  BY <1>2, SettingsStay
<1>6. ASSUME InLoop', ~call'.fell, NEW b \in call'.left PROVE b <= avail'
  <2>1. InLoop /\ ~call.fell /\ ~(n < avail) /\ b \in call.left /\ b \in Nat
    BY <1>1, <1>6, PmuAssumption DEF InLoop, GoesOn, CleanInv, MarkInv, PmuTypes, Ctrs
  <2>2. b <= avail
    BY <2>1 DEF CleanInv
  <2> QED BY <1>2, <2>1, <2>2
<1>7. CleanInv'
  BY <1>1, <1>4, <1>5, <1>6 DEF CleanInv, GoesOn, InLoop, Untouched, At
<1>8. ASSUME Failed PROVE Idle
  BY <1>2, <1>8 DEF Failed, CleanInv, MarkInv, PmuTypes
<1> QED BY <1>5, <1>7, <1>8 DEF StepIsClean

\* An overflow marks its counter, which counts, and so is none about to be armed.
LEMMA OverflowStep ==
  ASSUME CleanInv, NEW k, Overflow(k) PROVE StepIsClean
<1>1. /\ k \in HwCtrs /\ k \notin inhibit /\ lcofip' /\ raised' = raised \cup {k}
      /\ UNCHANGED <<avail, call, table, inhibit, ret>>
  BY DEF Overflow
<1>2. \A j \in HwCtrs \ {k} : mevent'[j] = mevent[j]
  BY DEF Overflow, CleanInv, MarkInv, PmuTypes
<1>3. mevent' = [j \in HwCtrs |-> mevent'[j]]
  BY DEF Overflow, CleanInv, MarkInv, PmuTypes
<1>4. mevent'[k] = [mevent[k] EXCEPT !.of = TRUE]
  BY <1>1 DEF Overflow, CleanInv, MarkInv, PmuTypes
<1>5. mevent'[k].of /\ IsWord(mevent'[k]) /\ mevent'[k].sel = mevent[k].sel
  BY <1>1, <1>4 DEF CleanInv, MarkInv, PmuTypes, IsWord
<1>6. PmuTypes'
  BY <1>1, <1>2, <1>3, <1>5 DEF CleanInv, MarkInv, PmuTypes, InLoop, Idle
<1>7. MarkInv'
  BY <1>1, <1>2, <1>5, <1>6 DEF CleanInv, MarkInv, At
<1>8. Same
  BY <1>1, <1>2, <1>5 DEF Same
<1>9. Settings' = Settings
  BY <1>8, SameIsSame
<1>10. CleanInv'
  BY <1>1, <1>7, <1>9 DEF CleanInv, InLoop, Untouched, At
<1>11. ASSUME Failed PROVE Idle
  BY <1>1, <1>11 DEF Failed, CleanInv, MarkInv, PmuTypes
<1> QED BY <1>9, <1>10, <1>11 DEF StepIsClean

LEMMA ClearStep ==
  ASSUME CleanInv, ClearOverflow PROVE StepIsClean
<1>1. UNCHANGED <<avail, call, table, inhibit, mevent, ret>> /\ raised' = {} /\ Idle
  BY DEF ClearOverflow
<1>2. Settings' = Settings
  BY <1>1 DEF Settings
<1>3. CleanInv'
  BY <1>1, <1>2 DEF CleanInv, MarkInv, PmuTypes, InLoop, Idle, Untouched, At
<1> QED BY <1>1, <1>2, <1>3 DEF StepIsClean

\* Answers that need no loop.
LEMMA AnswerStep ==
  ASSUME CleanInv, Idle, NEW code, Answers(code), UNCHANGED <<avail, ctrVars, lcofip>>
  PROVE  StepIsClean
  BY EndStep, SettingsStay DEF Answers, Ends, StepIsClean

\* What a call begins with, whatever its flags.
Fresh(c) == IsCall(c) /\ ~c.fell /\ c.copy = 0
LEMMA FreshToWrite ==
  ASSUME NEW m, NEW e, m = [NoCall EXCEPT !.at = "write", !.event = e] PROVE Fresh(m)
  BY DEF NoCall, IsCall, Fresh

LEMMA FreshToFind ==
  ASSUME NEW m, NEW e, m = [NoCall EXCEPT !.event = e] PROVE Fresh(m)
  BY DEF NoCall, IsCall, Fresh

LEMMA FreshToStop ==
  ASSUME NEW m, NEW r, m = [NoCall EXCEPT !.reset = r] PROVE Fresh(m) /\ m.at = "test"
  BY DEF NoCall, IsCall, Fresh

LEMMA CfgMatchStep ==
  ASSUME CleanInv, NEW e, NEW mask \in Masks, NEW skip, CfgMatch(e, mask, skip)
  PROVE  StepIsClean
<1>1. Idle /\ mask \in SUBSET Ctrs
  BY PmuAssumption DEF CfgMatch, Ctrs
<1>2. CASE Answers("NOT_SUPPORTED") /\ UNCHANGED <<avail, ctrVars, lcofip>>
  BY <1>1, <1>2, AnswerStep
<1>3. CASE Begin("find", IF mask = {} THEN {} ELSE {First(mask)},
                 [NoCall EXCEPT !.at = "write", !.event = e])
  <2> DEFINE one == IF mask = {} THEN {} ELSE {First(mask)}
             more == [NoCall EXCEPT !.at = "write", !.event = e]
  <2>1. one \in SUBSET Ctrs
    BY <1>1, FirstIsIn
  <2>0. more = [NoCall EXCEPT !.at = "write", !.event = e]
    OBVIOUS
  <2> HIDE DEF one, more
  <2>2. IsCall(more) /\ ~more.fell /\ more.copy = 0
    BY <2>0, FreshToWrite DEF Fresh
  <2>3. Begin("find", one, more)
    BY <1>3 DEF one, more
  <2> QED BY <1>1, <2>1, <2>2, <2>3, BeginStep
<1>4. CASE Begin("find", mask \ 0 .. 2, [NoCall EXCEPT !.event = e])
  <2> DEFINE more == [NoCall EXCEPT !.event = e]
             rest == mask \ 0 .. 2
  <2>0. more = [NoCall EXCEPT !.event = e]
    OBVIOUS
  <2>1. IsCall(more) /\ ~more.fell /\ more.copy = 0
    <3> HIDE DEF more
    <3> QED BY <2>0, FreshToFind DEF Fresh
  <2>2. rest \in SUBSET Ctrs
    BY <1>1
  <2> HIDE DEF more, rest
  <2>3. Begin("find", rest, more)
    BY <1>4 DEF more, rest
  <2> QED BY <1>1, <2>1, <2>2, <2>3, BeginStep
<1> QED BY <1>2, <1>3, <1>4 DEF CfgMatch

LEMMA StartStopStep ==
  ASSUME CleanInv, NEW mask \in Masks, NEW reset, StartCtrs(mask) \/ StopCtrs(mask, reset)
  PROVE  StepIsClean
<1>1. Idle /\ mask \in SUBSET Ctrs
  BY PmuAssumption DEF StartCtrs, StopCtrs, Ctrs
<1>2. CASE StartCtrs(mask)
  <2>1. IsCall(NoCall) /\ ~NoCall.fell /\ NoCall.copy = 0 /\ NoCall.at = "test"
    BY DEF NoCall, IsCall
  <2>2. Begin("start", mask, NoCall)
    BY <1>2 DEF StartCtrs
  <2> QED BY <1>1, <2>1, <2>2, BeginStep
<1>3. CASE StopCtrs(mask, reset)
  <2> DEFINE more == [NoCall EXCEPT !.reset = reset]
  <2>0. more = [NoCall EXCEPT !.reset = reset]
    OBVIOUS
  <2>1. IsCall(more) /\ ~more.fell /\ more.copy = 0 /\ more.at = "test"
    <3> HIDE DEF more
    <3> QED BY <2>0, FreshToStop DEF Fresh
  <2>2. Begin("stop", mask, more)
    BY <1>3 DEF StopCtrs
  <2> HIDE DEF more
  <2> QED BY <1>1, <2>1, <2>2, BeginStep
<1> QED BY <1>2, <1>3

LEMMA PmuStep == ASSUME CleanInv, PmuNext PROVE StepIsClean
<1>1. CASE NumCtr \/ LoadAvail \/ StoreAvail \/ NumCtrReturns
  BY <1>1, CountStep
<1>2. ASSUME NEW n \in 3 .. MaxAvail, NumCtrElsewhere(n) PROVE StepIsClean
  BY <1>2, CountElsewhereStep
<1>3. ASSUME NEW k \in Ctrs, GetInfo(k) PROVE StepIsClean
  <2>1. PICK code : Idle /\ Answers(code) /\ UNCHANGED <<avail, ctrVars, lcofip>>
    BY <1>3 DEF GetInfo
  <2> QED BY <2>1, AnswerStep
<1>4. ASSUME NEW k \in Ctrs, Overflow(k) PROVE StepIsClean
  BY <1>4, OverflowStep
<1>5. ASSUME NEW e \in PmuEvents, NEW mask \in Masks, NEW skip \in BOOLEAN,
             CfgMatch(e, mask, skip)
      PROVE  StepIsClean
  BY <1>5, CfgMatchStep
<1>6. ASSUME NEW mask \in Masks, StartCtrs(mask) \/ \E reset \in BOOLEAN : StopCtrs(mask, reset)
      PROVE  StepIsClean
  BY <1>6, StartStopStep
<1>7. CASE Refuses
  BY <1>7, RefuseStep
<1>8. CASE LoopEnds
  BY <1>8, LoopEndStep
<1>9. CASE FindCtr
  <2>1. /\ UNCHANGED <<avail, ctrVars, lcofip, ret>> /\ Testing /\ ~Forbidden(At)
        /\ OnToNext \/ (ToWrite /\ (call.op = "start" => At \in inhibit))
    BY <1>9 DEF FindCtr
  <2> QED BY <2>1, TestStep
<1>10. CASE StartTest
  <2>1. /\ UNCHANGED <<avail, ctrVars, lcofip, ret>> /\ Testing /\ ~Forbidden(At)
        /\ OnToNext \/ (ToWrite /\ (call.op = "start" => At \in inhibit))
    BY <1>10 DEF StartTest
  <2> QED BY <2>1, TestStep
<1>11. CASE Configure
  BY <1>11, ConfigureStep
<1>12. CASE StartWrite
  BY <1>12, StartWriteStep
<1>13. CASE StopTest
  BY <1>13, StopTestStep
<1>14. CASE StopWrite
  BY <1>14, StopWriteStep
<1>15. CASE ClearOverflow
  BY <1>15, ClearStep
<1> QED BY <1>1, <1>2, <1>3, <1>4, <1>5, <1>6, <1>7, <1>8, <1>9, <1>10, <1>11, <1>12, <1>13,
            <1>14, <1>15 DEF PmuNext

LEMMA PmuInitInv == PmuInit => CleanInv
<1> SUFFICES ASSUME PmuInit PROVE CleanInv
  OBVIOUS
<1>1. IsWord(Zero) /\ 0 \in Nat
  BY DEF IsWord, Zero
<1>2. PmuTypes
  BY <1>1, NoCallFacts DEF PmuInit, PmuTypes, AlwaysOn, InLoop, Idle
<1> QED BY <1>2, NoCallFacts DEF PmuInit, MarkInv, CleanInv, InLoop

LEMMA PmuStays == CleanInv /\ UNCHANGED pmuVars => CleanInv'
<1> SUFFICES ASSUME CleanInv, UNCHANGED pmuVars PROVE CleanInv'
  OBVIOUS
<1>1. UNCHANGED <<avail, call, table, inhibit, mevent, raised, lcofip, ret>>
  BY DEF pmuVars, ctrVars
<1>2. Settings' = Settings
  BY <1>1 DEF Settings
<1> QED BY <1>1, <1>2 DEF CleanInv, MarkInv, PmuTypes, InLoop, Idle, Untouched, At

\* While an overflow interrupt is pending every counter that raised it carries
\* its mark, for any masks the supervisor stops and starts meanwhile and
\* whatever other harts do to the number of counters.
THEOREM MarksAreKept == PmuSpec => []OverflowKept
<1>1. CleanInv /\ [PmuNext]_pmuVars => CleanInv'
  BY PmuStep, PmuStays DEF StepIsClean
<1>2. CleanInv => OverflowKept
  BY DEF CleanInv, MarkInv, OverflowKept
<1> QED BY <1>1, <1>2, PmuInitInv, PTL DEF PmuSpec

\* A call that fails has changed nothing but the event of counter 0, and a start
\* or a stop unless another hart lowered the number of counters under it, for any
\* number of counters and any masks (src/pmu.c:236, 338-344, 377-383).
THEOREM FailedCallsAreClean == PmuSpec => FailsClean
<1>1. CleanInv /\ [PmuNext]_pmuVars => CleanInv'
  BY PmuStep, PmuStays DEF StepIsClean
<1>2. CleanInv /\ [PmuNext]_pmuVars =>
        [ret' \notin {"none", "SUCCESS"} /\ (call.op = "find" \/ ~call.fell) =>
           Settings' = (IF Idle THEN Settings ELSE call.was)]_pmuVars
  BY PmuStep DEF StepIsClean, Failed
<1> QED BY <1>1, <1>2, PmuInitInv, PTL DEF PmuSpec, FailsClean

-----------------------------------------------------------------------------
(* The counters harts share.                                               *)

Rows == [Tables -> [Counters -> PmuHarts \cup {Nobody}]]

CacheTypes ==
  /\ cache \in CacheKinds
  /\ taken \in Rows /\ hwEvent \in Rows
  /\ at \in [PmuHarts -> {"idle", "find", "take", "given", "stop", "clear"}]
  /\ idx \in [PmuHarts -> 0 .. NumCounters]
  /\ found \in [PmuHarts -> {-1} \cup Counters]
  /\ auto \in [PmuHarts -> BOOLEAN]
  /\ todo \in [PmuHarts -> SUBSET Counters]
  /\ owned \in [PmuHarts -> SUBSET Counters]
  /\ on \in [PmuHarts -> SUBSET Counters]
  /\ \A h \in PmuHarts : /\ on[h] \subseteq owned[h]
                         /\ at[h] \in {"take", "given"} => found[h] # -1
                         /\ at[h] = "clear" => todo[h] # {}
  /\ cfgs \in Nat /\ boots \in Nat /\ alone \in BOOLEAN

\* Harts that work on one table.
Shares(g, h) == TableOf(g) = TableOf(h)

\* The counter a hart found is free until it takes it, and its own until it is given.
FoundIsFree ==
  \A h \in PmuHarts :
    /\ at[h] = "find" /\ found[h] # -1 => Taker(h, found[h]) = Nobody
    /\ at[h] = "take" => Taker(h, found[h]) = Nobody
    /\ at[h] = "given" => /\ Taker(h, found[h]) = h
                          /\ \A g \in PmuHarts : Shares(g, h) => found[h] \notin owned[g]
    /\ at[h] \in {"take", "given"} /\ ~cache.l3 => hwEvent[TableOf(h)][found[h]] = h

\* The counters a hart gives up belong to nobody already.
StoppedIsGone ==
  \A h \in PmuHarts :
    at[h] \in {"stop", "clear"} =>
      \A g \in PmuHarts : Shares(g, h) => todo[h] \cap owned[g] = {}

\* A counter that is owned is taken by its owner and counts its event when on.
OwnedIsTaken ==
  \A h \in PmuHarts : \A k \in owned[h] :
    /\ Taker(h, k) = h
    /\ k \in on[h] \/ ~cache.l3 => hwEvent[TableOf(h)][k] = h

OneChanges == \A g, h \in PmuHarts : Shares(g, h) /\ Changing(g) /\ Changing(h) => g = h

Exact == OneChanges /\ OwnedIsTaken /\ FoundIsFree /\ StoppedIsGone

CacheInv == CacheTypes /\ (cache.dedicated \/ alone => Exact)

\* The two kinds of tables.
LEMMA Sharing ==
  ASSUME CacheTypes
  PROVE  /\ cache.l3 \in BOOLEAN /\ cache.dedicated \in BOOLEAN
         /\ \A h \in PmuHarts : TableOf(h) \in Tables
         /\ cache.dedicated => \A g, h \in PmuHarts : Shares(g, h) => g = h
         /\ ~cache.dedicated => \A g, h \in PmuHarts : Shares(g, h)
         /\ Nobody \notin PmuHarts
  BY CachePmuAssumption DEF CacheTypes, TableOf, Shares, Tables, Nobody

\* What a write to one cell of a table shows to each hart.
LEMMA PutFacts ==
  ASSUME CacheTypes, NEW f \in Rows, NEW h \in PmuHarts, NEW k \in Counters,
         NEW x \in PmuHarts \cup {Nobody}
  PROVE  /\ Put(f, h, k, x) \in Rows
         /\ \A g \in PmuHarts, j \in Counters :
              Put(f, h, k, x)[TableOf(g)][j] =
                IF Shares(g, h) /\ j = k THEN x ELSE f[TableOf(g)][j]
<1>1. TableOf(h) \in Tables /\ \A g \in PmuHarts : TableOf(g) \in Tables
  BY Sharing
<1>2. Put(f, h, k, x) \in Rows
  BY <1>1 DEF Put, Rows
<1>3. ASSUME NEW g \in PmuHarts, NEW j \in Counters
      PROVE  Put(f, h, k, x)[TableOf(g)][j] =
                IF Shares(g, h) /\ j = k THEN x ELSE f[TableOf(g)][j]
  BY <1>1 DEF Put, Rows, Shares
<1> QED BY <1>2, <1>3

LEMMA LowestIsIn ==
  ASSUME NEW S \in SUBSET Counters, S # {} PROVE Lowest(S) \in S
<1>1. S \subseteq Nat
  BY CachePmuAssumption DEF Counters
<1> DEFINE less == {ss \in Nat \X Nat : ss[1] < ss[2]}
<1>2. IsWellFoundedOn(less, Nat)
  BY NatLessThanWellFounded DEF OpToRel
<1>3. \A n, m \in Nat : n < m => <<n, m>> \in less
  OBVIOUS
<1> HIDE DEF less
<1>4. PICK n \in S : \A m \in S : ~(<<m, n>> \in less)
  BY <1>1, <1>2, WFMin
<1>5. ASSUME NEW m \in S PROVE n <= m
  <2>1. n \in Nat /\ m \in Nat
    BY <1>1, <1>4
  <2>2. ~(m < n)
    BY <2>1, <1>3, <1>4
  <2> QED BY <2>1, <2>2
<1> QED BY <1>5 DEF Lowest

\* Each action keeps the invariant.
LEMMA CfgCallKeeps ==
  ASSUME CacheInv, NEW h \in PmuHarts, CfgCall(h) PROVE CacheInv'
<1>1. CacheTypes'
  BY CachePmuAssumption DEF CacheInv, CacheTypes, CfgCall, Enters
<1>2. SUFFICES ASSUME cache.dedicated \/ alone' PROVE Exact'
  BY <1>1 DEF CacheInv, CfgCall
<1>3. Exact /\ CacheTypes
  BY <1>2 DEF CacheInv, CfgCall, Enters
<1>4. OneChanges'
  BY <1>2, <1>3, Sharing DEF OneChanges, CfgCall, Shares, TableOf, Enters, Changing
<1>5. OwnedIsTaken'
  BY <1>3 DEF Exact, OwnedIsTaken, CfgCall, TableOf, Taker
<1>6. FoundIsFree'
  BY <1>3 DEF CacheTypes, Exact, FoundIsFree, CfgCall, Shares, TableOf, Taker
<1>7. StoppedIsGone'
  BY <1>3 DEF Exact, StoppedIsGone, CfgCall, Shares, TableOf
<1> QED BY <1>4, <1>5, <1>6, <1>7 DEF Exact

LEMMA FindKeeps ==
  ASSUME CacheInv, NEW h \in PmuHarts, Find(h) PROVE CacheInv'
<1>1. CacheTypes'
  <2>1. CacheTypes
    BY DEF CacheInv
  <2>2. idx[h] \in 0 .. NumCounters /\ idx[h] < NumCounters /\ NumCounters \in Nat
    BY <2>1, CachePmuAssumption DEF CacheTypes, Find
  <2>3. idx' \in [PmuHarts -> 0 .. NumCounters]
    BY <2>1, <2>2 DEF CacheTypes, Find
  <2>4. found' \in [PmuHarts -> {-1} \cup Counters]
    BY <2>1, <2>2 DEF CacheTypes, Find, Counters
  <2> QED BY <2>1, <2>3, <2>4 DEF CacheTypes, Find
<1>2. SUFFICES ASSUME cache.dedicated \/ alone' PROVE Exact'
  BY <1>1 DEF CacheInv, Find
<1>3. Exact /\ CacheTypes
  BY <1>2 DEF CacheInv, Find
<1>4. OneChanges'
  BY <1>3 DEF Exact, OneChanges, Find, Shares, TableOf, Counters, IsFree, Changing
<1>5. OwnedIsTaken'
  BY <1>3 DEF Exact, OwnedIsTaken, Find, TableOf, Taker, Counters, IsFree
<1>6. FoundIsFree'
  BY <1>3 DEF Exact, FoundIsFree, Find, Shares, TableOf, Taker, Counters, IsFree
<1>7. StoppedIsGone'
  BY <1>3 DEF Exact, StoppedIsGone, Find, Shares, TableOf, Counters, IsFree
<1> QED BY <1>4, <1>5, <1>6, <1>7 DEF Exact

LEMMA NoneFreeKeeps ==
  ASSUME CacheInv, NEW h \in PmuHarts, NoneFree(h) PROVE CacheInv'
<1>1. CacheTypes'
  BY DEF CacheInv, CacheTypes, NoneFree
<1>2. SUFFICES ASSUME cache.dedicated \/ alone' PROVE Exact'
  BY <1>1 DEF CacheInv, NoneFree
<1>3. Exact /\ CacheTypes
  BY <1>2 DEF CacheInv, NoneFree
<1>4. OneChanges'
  BY <1>3 DEF Exact, OneChanges, NoneFree, Shares, TableOf, Changing
<1>5. OwnedIsTaken'
  BY <1>3 DEF Exact, OwnedIsTaken, NoneFree, TableOf, Taker
<1>6. FoundIsFree'
  BY <1>3 DEF Exact, FoundIsFree, NoneFree, Shares, TableOf, Taker
<1>7. StoppedIsGone'
  BY <1>3 DEF Exact, StoppedIsGone, NoneFree, Shares, TableOf
<1> QED BY <1>4, <1>5, <1>6, <1>7 DEF Exact

LEMMA TakeEventKeeps ==
  ASSUME CacheInv, NEW h \in PmuHarts, TakeEvent(h) PROVE CacheInv'
<1>1. CacheTypes
  BY DEF CacheInv
<1>2. found[h] \in Counters /\ h \in PmuHarts \cup {Nobody} /\ taken \in Rows /\ hwEvent \in Rows
  BY <1>1 DEF CacheTypes, TakeEvent, Rows
<1>3. hwEvent' \in Rows
  BY <1>1, <1>2, PutFacts DEF TakeEvent, WriteL2
<1>4. CacheTypes'
  BY <1>1, <1>2, <1>3 DEF CacheTypes, TakeEvent
<1>5. SUFFICES ASSUME cache.dedicated \/ alone' PROVE Exact'
  BY <1>4 DEF CacheInv, TakeEvent
<1>6. Exact /\ CacheTypes
  BY <1>5 DEF CacheInv, TakeEvent
<1>7. \A g \in PmuHarts, j \in Counters :
        hwEvent'[TableOf(g)][j] =
          IF ~cache.l3 /\ Shares(g, h) /\ j = found[h] THEN h ELSE hwEvent[TableOf(g)][j]
  BY <1>1, <1>2, PutFacts DEF TakeEvent, WriteL2
<1>8. OneChanges'
  BY <1>6 DEF Exact, OneChanges, TakeEvent, Shares, TableOf, Changing
<1>9. OwnedIsTaken'
  BY <1>6, <1>7, Sharing
  DEF CacheTypes, Exact, OwnedIsTaken, FoundIsFree, TakeEvent, TableOf, Taker
<1>10. FoundIsFree'
  BY <1>6, <1>7
  DEF CacheTypes, Exact, OneChanges, FoundIsFree, TakeEvent, Shares, TableOf, Taker,
       Changing
<1>11. StoppedIsGone'
  BY <1>6 DEF Exact, StoppedIsGone, TakeEvent, Shares, TableOf
<1> QED BY <1>8, <1>9, <1>10, <1>11 DEF Exact

LEMMA TakeRowKeeps ==
  ASSUME CacheInv, NEW h \in PmuHarts, TakeRow(h) PROVE CacheInv'
<1>1. CacheTypes
  BY DEF CacheInv
<1>2. found[h] \in Counters /\ h \in PmuHarts \cup {Nobody} /\ taken \in Rows /\ hwEvent \in Rows
  BY <1>1 DEF CacheTypes, TakeRow, Rows
<1>3. taken' \in Rows
  BY <1>1, <1>2, PutFacts DEF TakeRow
<1>4. CacheTypes'
  BY <1>1, <1>2, <1>3 DEF CacheTypes, TakeRow
<1>5. SUFFICES ASSUME cache.dedicated \/ alone' PROVE Exact'
  BY <1>4 DEF CacheInv, TakeRow
<1>6. Exact /\ CacheTypes
  BY <1>5 DEF CacheInv, TakeRow
<1>7. \A g \in PmuHarts, j \in Counters :
        taken'[TableOf(g)][j] =
          IF Shares(g, h) /\ j = found[h] THEN h ELSE taken[TableOf(g)][j]
  BY <1>1, <1>2, PutFacts DEF TakeRow
<1>8. OneChanges'
  BY <1>6 DEF Exact, OneChanges, TakeRow, Shares, TableOf, Changing
<1>9. OwnedIsTaken'
  BY <1>6, <1>7, Sharing
  DEF CacheTypes, Exact, OwnedIsTaken, FoundIsFree, TakeRow, TableOf, Taker
<1>10. FoundIsFree'
  BY <1>6, <1>7, Sharing
  DEF CacheTypes, Exact, OneChanges, OwnedIsTaken, FoundIsFree, TakeRow, Shares, TableOf,
       Taker, Changing
<1>11. StoppedIsGone'
  BY <1>6 DEF Exact, StoppedIsGone, TakeRow, Shares, TableOf
<1> QED BY <1>8, <1>9, <1>10, <1>11 DEF Exact

LEMMA GiveKeeps ==
  ASSUME CacheInv, NEW h \in PmuHarts, Give(h) PROVE CacheInv'
<1>1. CacheTypes
  BY DEF CacheInv
<1>2. found[h] \in Counters /\ h \in PmuHarts \cup {Nobody} /\ taken \in Rows /\ hwEvent \in Rows
  BY <1>1 DEF CacheTypes, Give, Rows
<1>3. hwEvent' \in Rows
  BY <1>1, <1>2, PutFacts DEF Give, WriteL3
<1>4. CacheTypes'
  BY <1>1, <1>2, <1>3 DEF CacheTypes, Give
<1>5. SUFFICES ASSUME cache.dedicated \/ alone' PROVE Exact'
  BY <1>4 DEF CacheInv, Give
<1>6. Exact /\ CacheTypes
  BY <1>5 DEF CacheInv, Give
<1>7. \A g \in PmuHarts, j \in Counters :
        hwEvent'[TableOf(g)][j] =
          IF cache.l3 /\ auto[h] /\ Shares(g, h) /\ j = found[h] THEN h ELSE hwEvent[TableOf(g)][j]
  BY <1>1, <1>2, PutFacts DEF Give, WriteL3
<1>8. OneChanges'
  BY <1>6 DEF Exact, OneChanges, Give, Shares, TableOf, Changing
<1>9. OwnedIsTaken'
  BY <1>6, <1>7
  DEF CacheTypes, Exact, OwnedIsTaken, FoundIsFree, Give, Shares, TableOf, Taker
<1>10. FoundIsFree'
  BY <1>6 DEF CacheTypes, Exact, FoundIsFree, Give, Shares, TableOf, Taker
<1>11. StoppedIsGone'
  BY <1>6 DEF Exact, OneChanges, StoppedIsGone, Give, Shares, TableOf, Changing
<1> QED BY <1>8, <1>9, <1>10, <1>11 DEF Exact

LEMMA CfgSkipKeeps ==
  ASSUME CacheInv, NEW h \in PmuHarts, NEW k \in Counters, CfgSkip(h, k) PROVE CacheInv'
<1>1. CacheTypes'
  BY PutFacts DEF CacheInv, CacheTypes, CfgSkip, WriteL3
<1>2. SUFFICES ASSUME cache.dedicated \/ alone' PROVE Exact'
  BY <1>1 DEF CacheInv, CfgSkip
<1>3. Exact /\ CacheTypes
  BY <1>2 DEF CacheInv, CfgSkip
<1>4. \A g \in PmuHarts, j \in Counters :
        hwEvent'[TableOf(g)][j] =
          IF Shares(g, h) /\ j = k THEN h ELSE hwEvent[TableOf(g)][j]
  BY <1>3, PutFacts DEF CacheTypes, CfgSkip, WriteL3
<1>5. OneChanges'
  BY <1>3 DEF Exact, OneChanges, CfgSkip, Shares, TableOf, Changing
<1>6. OwnedIsTaken'
  BY <1>3, <1>4 DEF CacheTypes, Exact, OwnedIsTaken, CfgSkip, Shares, TableOf, Taker
<1>7. FoundIsFree'
  BY <1>3 DEF Exact, FoundIsFree, CfgSkip, Shares, TableOf, Taker
<1>8. StoppedIsGone'
  BY <1>3 DEF Exact, StoppedIsGone, CfgSkip, Shares, TableOf
<1> QED BY <1>5, <1>6, <1>7, <1>8 DEF Exact

LEMMA StartL3Keeps ==
  ASSUME CacheInv, NEW h \in PmuHarts, NEW k \in Counters, StartL3(h, k) PROVE CacheInv'
<1>1. CacheTypes
  BY DEF CacheInv
<1>2. k \in Counters /\ Taker(h, k) \in PmuHarts \cup {Nobody} /\ taken \in Rows /\ hwEvent \in Rows
  BY <1>1, Sharing DEF CacheTypes, StartL3, Rows, Taker
<1>3. hwEvent' \in Rows
  BY <1>1, <1>2, PutFacts DEF StartL3, WriteL3
<1>4. CacheTypes'
  BY <1>1, <1>2, <1>3 DEF CacheTypes, StartL3
<1>5. SUFFICES ASSUME cache.dedicated \/ alone' PROVE Exact'
  BY <1>4 DEF CacheInv, StartL3
<1>6. Exact /\ CacheTypes
  BY <1>5 DEF CacheInv, StartL3
<1>7. \A g \in PmuHarts, j \in Counters :
        hwEvent'[TableOf(g)][j] =
          IF Shares(g, h) /\ j = k THEN Taker(h, k) ELSE hwEvent[TableOf(g)][j]
  <2>1. hwEvent' = Put(hwEvent, h, k, Taker(h, k))
    BY DEF StartL3, WriteL3
  <2> QED BY <1>1, <1>2, <2>1, PutFacts
<1>8. OneChanges'
  BY <1>6 DEF Exact, OneChanges, StartL3, Shares, TableOf, Changing
<1>9. OwnedIsTaken'
  BY <1>6, <1>7 DEF CacheTypes, Exact, OwnedIsTaken, StartL3, Shares, TableOf, Taker
<1>10. FoundIsFree'
  BY <1>6 DEF Exact, FoundIsFree, StartL3, Shares, TableOf, Taker
<1>11. StoppedIsGone'
  BY <1>6 DEF Exact, StoppedIsGone, StartL3, Shares, TableOf
<1> QED BY <1>8, <1>9, <1>10, <1>11 DEF Exact

LEMMA StartL2Keeps ==
  ASSUME CacheInv, NEW h \in PmuHarts, NEW k \in Counters, StartL2(h, k) PROVE CacheInv'
<1>1. CacheTypes'
  BY DEF CacheInv, CacheTypes, StartL2
<1>2. SUFFICES ASSUME cache.dedicated \/ alone' PROVE Exact'
  BY <1>1 DEF CacheInv, StartL2
<1>3. Exact /\ CacheTypes
  BY <1>2 DEF CacheInv, StartL2
<1>4. OneChanges'
  BY <1>3 DEF Exact, OneChanges, StartL2, Shares, TableOf, Changing
<1>5. OwnedIsTaken'
  BY <1>3 DEF Exact, OwnedIsTaken, StartL2, TableOf, Taker
<1>6. FoundIsFree'
  BY <1>3 DEF Exact, FoundIsFree, StartL2, Shares, TableOf, Taker
<1>7. StoppedIsGone'
  BY <1>3 DEF Exact, StoppedIsGone, StartL2, Shares, TableOf
<1> QED BY <1>4, <1>5, <1>6, <1>7 DEF Exact

LEMMA PauseKeeps ==
  ASSUME CacheInv, NEW h \in PmuHarts, NEW k \in Counters, Pause(h, k) PROVE CacheInv'
<1>1. CacheTypes'
  BY PutFacts DEF CacheInv, CacheTypes, Pause, WriteL3
<1>2. SUFFICES ASSUME cache.dedicated \/ alone' PROVE Exact'
  BY <1>1 DEF CacheInv, Pause
<1>3. Exact /\ CacheTypes
  BY <1>2 DEF CacheInv, Pause
<1>4. \A g \in PmuHarts, j \in Counters :
        hwEvent'[TableOf(g)][j] =
          IF Shares(g, h) /\ j = k THEN Nobody ELSE hwEvent[TableOf(g)][j]
  BY <1>3, PutFacts DEF CacheTypes, Pause, WriteL3
<1>5. OneChanges'
  BY <1>3 DEF Exact, OneChanges, Pause, Shares, TableOf, Changing
<1>6. OwnedIsTaken'
  BY <1>3, <1>4 DEF CacheTypes, Exact, OwnedIsTaken, Pause, Shares, TableOf, Taker
<1>7. FoundIsFree'
  BY <1>3 DEF Exact, FoundIsFree, Pause, Shares, TableOf, Taker
<1>8. StoppedIsGone'
  BY <1>3 DEF Exact, StoppedIsGone, Pause, Shares, TableOf
<1> QED BY <1>5, <1>6, <1>7, <1>8 DEF Exact

LEMMA StopCallKeeps ==
  ASSUME CacheInv, NEW h \in PmuHarts, NEW S \in SUBSET Counters, StopCall(h, S) PROVE CacheInv'
<1>1. CacheTypes'
  BY DEF CacheInv, CacheTypes, StopCall, Enters
<1>2. SUFFICES ASSUME cache.dedicated \/ alone' PROVE Exact'
  BY <1>1 DEF CacheInv, StopCall
<1>3. Exact /\ CacheTypes
  BY <1>2 DEF CacheInv, StopCall, Enters
<1>4. OneChanges'
  BY <1>2, <1>3, Sharing DEF OneChanges, StopCall, Shares, TableOf, Enters, Changing
<1>5. OwnedIsTaken'
  BY <1>3 DEF Exact, OwnedIsTaken, StopCall, TableOf, Taker
<1>6. FoundIsFree'
  BY <1>3 DEF Exact, FoundIsFree, StopCall, Shares, TableOf, Taker
<1>7. StoppedIsGone'
  BY <1>3
  DEF CacheTypes, Exact, OwnedIsTaken, StoppedIsGone, StopCall, Shares, TableOf, Taker
<1> QED BY <1>4, <1>5, <1>6, <1>7 DEF Exact

LEMMA ResetRowKeeps ==
  ASSUME CacheInv, NEW h \in PmuHarts, ResetRow(h) PROVE CacheInv'
<1>1. CacheTypes
  BY DEF CacheInv
<1>2. Lowest(todo[h]) \in Counters /\ Nobody \in PmuHarts \cup {Nobody} /\ taken \in Rows /\ hwEvent \in Rows
  BY <1>1, LowestIsIn DEF CacheTypes, ResetRow, Rows
<1>3. taken' \in Rows
  BY <1>1, <1>2, PutFacts DEF ResetRow
<1>4. CacheTypes'
  BY <1>1, <1>2, <1>3 DEF CacheTypes, ResetRow
<1>5. SUFFICES ASSUME cache.dedicated \/ alone' PROVE Exact'
  BY <1>4 DEF CacheInv, ResetRow
<1>6. Exact /\ CacheTypes
  BY <1>5 DEF CacheInv, ResetRow
<1>7. \A g \in PmuHarts, j \in Counters :
        taken'[TableOf(g)][j] =
          IF Valid(h, Lowest(todo[h])) /\ Shares(g, h) /\ j = Lowest(todo[h]) THEN Nobody ELSE taken[TableOf(g)][j]
  BY <1>1, <1>2, PutFacts DEF ResetRow
<1>8. OneChanges'
  BY <1>6 DEF CacheTypes, Exact, OneChanges, ResetRow, Shares, TableOf, Changing
<1>9. OwnedIsTaken'
  BY <1>6, <1>7, LowestIsIn
  DEF CacheTypes, Exact, OwnedIsTaken, StoppedIsGone, ResetRow, TableOf, Taker
<1>10. FoundIsFree'
  BY <1>6, <1>7
  DEF CacheTypes, Exact, OneChanges, FoundIsFree, ResetRow, Shares, TableOf, Taker,
       Changing
<1>11. StoppedIsGone'
  BY <1>6 DEF CacheTypes, Exact, StoppedIsGone, ResetRow, Shares, TableOf
<1> QED BY <1>8, <1>9, <1>10, <1>11 DEF Exact

LEMMA ResetEventKeeps ==
  ASSUME CacheInv, NEW h \in PmuHarts, ResetEvent(h) PROVE CacheInv'
<1>1. CacheTypes
  BY DEF CacheInv
<1>2. Lowest(todo[h]) \in Counters /\ Nobody \in PmuHarts \cup {Nobody} /\ taken \in Rows /\ hwEvent \in Rows
  BY <1>1, LowestIsIn DEF CacheTypes, ResetEvent, Rows
<1>3. hwEvent' \in Rows
  BY <1>1, <1>2, PutFacts DEF ResetEvent, WriteL2, WriteL3
<1>4. CacheTypes'
  BY <1>1, <1>2, <1>3 DEF CacheTypes, ResetEvent
<1>5. SUFFICES ASSUME cache.dedicated \/ alone' PROVE Exact'
  BY <1>4 DEF CacheInv, ResetEvent
<1>6. Exact /\ CacheTypes
  BY <1>5 DEF CacheInv, ResetEvent
<1>7. \A g \in PmuHarts, j \in Counters :
        hwEvent'[TableOf(g)][j] =
          IF Shares(g, h) /\ j = Lowest(todo[h]) THEN Nobody ELSE hwEvent[TableOf(g)][j]
  BY <1>1, <1>2, PutFacts DEF ResetEvent, WriteL2, WriteL3
<1>8. OneChanges'
  BY <1>6 DEF Exact, OneChanges, ResetEvent, Shares, TableOf, Changing
<1>9. OwnedIsTaken'
  BY <1>6, <1>7, LowestIsIn
  DEF CacheTypes, Exact, OwnedIsTaken, StoppedIsGone, ResetEvent, TableOf, Taker
<1>10. FoundIsFree'
  BY <1>6, <1>7
  DEF CacheTypes, Exact, OneChanges, FoundIsFree, ResetEvent, Shares, TableOf, Taker,
       Changing
<1>11. StoppedIsGone'
  BY <1>6 DEF Exact, StoppedIsGone, ResetEvent, Shares, TableOf
<1> QED BY <1>8, <1>9, <1>10, <1>11 DEF Exact

LEMMA StopReturnsKeeps ==
  ASSUME CacheInv, NEW h \in PmuHarts, StopReturns(h) PROVE CacheInv'
<1>1. CacheTypes'
  BY DEF CacheInv, CacheTypes, StopReturns
<1>2. SUFFICES ASSUME cache.dedicated \/ alone' PROVE Exact'
  BY <1>1 DEF CacheInv, StopReturns
<1>3. Exact /\ CacheTypes
  BY <1>2 DEF CacheInv, StopReturns
<1>4. OneChanges'
  BY <1>3 DEF Exact, OneChanges, StopReturns, Shares, TableOf, Changing
<1>5. OwnedIsTaken'
  BY <1>3 DEF Exact, OwnedIsTaken, StopReturns, TableOf, Taker
<1>6. FoundIsFree'
  BY <1>3 DEF Exact, FoundIsFree, StopReturns, Shares, TableOf, Taker
<1>7. StoppedIsGone'
  BY <1>3 DEF Exact, StoppedIsGone, StopReturns, Shares, TableOf
<1> QED BY <1>4, <1>5, <1>6, <1>7 DEF Exact

LEMMA ComesUpKeeps ==
  ASSUME CacheInv, NEW h \in PmuHarts, ComesUp(h) PROVE CacheInv'
<1>1. CacheTypes'
  <2>1. CacheTypes
    BY DEF CacheInv
  <2>2. taken' \in Rows
    BY <2>1 DEF CacheTypes, ComesUp, AllFree, Rows
  <2>3. boots' \in Nat
    BY <2>1 DEF CacheTypes, ComesUp
  <2>4. alone' = FALSE
    BY DEF ComesUp
  <2> QED BY <2>1, <2>2, <2>3, <2>4 DEF CacheTypes, ComesUp
<1>2. SUFFICES ASSUME cache.dedicated \/ alone' PROVE Exact'
  BY <1>1 DEF CacheInv, ComesUp
<1>3. Exact /\ CacheTypes
  BY <1>2 DEF CacheInv, ComesUp
<1>4. OneChanges'
  BY <1>2 DEF OneChanges, ComesUp, Shares, TableOf
<1>5. OwnedIsTaken'
  BY <1>2, <1>3 DEF Exact, OwnedIsTaken, ComesUp, TableOf, Taker
<1>6. FoundIsFree'
  BY <1>2, <1>3 DEF Exact, FoundIsFree, ComesUp, Shares, TableOf, Taker
<1>7. StoppedIsGone'
  BY <1>3 DEF Exact, StoppedIsGone, ComesUp, Shares, TableOf
<1> QED BY <1>4, <1>5, <1>6, <1>7 DEF Exact
LEMMA CacheInitInv == CacheInit => CacheInv
<1> SUFFICES ASSUME CacheInit PROVE CacheInv
  OBVIOUS
<1>1. CacheTypes
  BY CachePmuAssumption DEF CacheInit, CacheTypes, Rows, AllFree
<1>2. Exact
  BY DEF CacheInit, Exact, OneChanges, OwnedIsTaken, FoundIsFree, StoppedIsGone, Changing
<1> QED BY <1>1, <1>2 DEF CacheInv

LEMMA CacheStep == CacheInv /\ [CacheNext]_cacheVars => CacheInv'
<1> SUFFICES ASSUME CacheInv, [CacheNext]_cacheVars PROVE CacheInv'
  OBVIOUS
<1>1. CASE UNCHANGED cacheVars
  BY <1>1 DEF cacheVars, CacheInv, CacheTypes, Exact, OneChanges, OwnedIsTaken, FoundIsFree,
     StoppedIsGone, Shares, TableOf, Taker, Changing
<1>2. CASE CacheNext
  <2>1. PICK h \in PmuHarts :
          \/ CfgCall(h) \/ Find(h) \/ NoneFree(h) \/ TakeEvent(h) \/ TakeRow(h) \/ Give(h)
          \/ \E k \in Counters : CfgSkip(h, k) \/ StartL2(h, k) \/ StartL3(h, k) \/ Pause(h, k)
          \/ \E S \in SUBSET Counters : StopCall(h, S)
          \/ ResetRow(h) \/ ResetEvent(h) \/ StopReturns(h) \/ ComesUp(h)
    BY <1>2 DEF CacheNext
  <2>2. CASE CfgCall(h) \/ Find(h) \/ NoneFree(h) \/ TakeEvent(h) \/ TakeRow(h) \/ Give(h)
    BY <2>2, CfgCallKeeps, FindKeeps, NoneFreeKeeps, TakeEventKeeps, TakeRowKeeps, GiveKeeps
  <2>3. CASE \E k \in Counters : CfgSkip(h, k) \/ StartL2(h, k) \/ StartL3(h, k) \/ Pause(h, k)
    BY <2>3, CfgSkipKeeps, StartL2Keeps, StartL3Keeps, PauseKeeps
  <2>4. CASE \E S \in SUBSET Counters : StopCall(h, S)
    BY <2>4, StopCallKeeps
  <2>5. CASE ResetRow(h) \/ ResetEvent(h) \/ StopReturns(h) \/ ComesUp(h)
    BY <2>5, ResetRowKeeps, ResetEventKeeps, StopReturnsKeeps, ComesUpKeeps
  <2> QED BY <2>1, <2>2, <2>3, <2>4, <2>5
<1> QED BY <1>1, <1>2

\* A counter belongs to one supervisor and counts its event when it is on, for
\* any harts and counters: always with a cache of its own for each hart, else
\* while the table is changed by one hart at a time (src/l2_pmu.c:208-227,
\* src/l3_pmu.c:222-244).
THEOREM CountersHaveOneOwner == CacheSpec => []CountersAreExact
<1>1. CacheInv => CountersAreExact
  <2> SUFFICES ASSUME CacheInv, cache.dedicated \/ alone PROVE CountersAreExact
    BY DEF CountersAreExact
  <2>1. CacheTypes /\ OwnedIsTaken
    BY DEF CacheInv, Exact
  <2>2. ASSUME NEW h \in PmuHarts, NEW k \in owned[h], NEW g \in PmuHarts \ {h}, ~cache.dedicated
        PROVE  k \notin owned[g]
    BY <2>1, <2>2, Sharing DEF OwnedIsTaken, Taker, Shares
  <2> QED BY <2>1, <2>2 DEF CountersAreExact, OwnedIsTaken
<1> QED BY <1>1, CacheInitInv, CacheStep, PTL DEF CacheSpec

-----------------------------------------------------------------------------
(* The counter of two words.                                               *)

\* A value is its two words.
LEMMA WordsOf ==
  ASSUME NEW c \in Nat
  PROVE  High(c) \in Nat /\ Low(c) \in 0 .. WordValues - 1 /\ c = High(c) * WordValues + Low(c)
  BY WideReadAssumption DEF High, Low

\* The high word does not go back while the counter does not.
LEMMA HighGrows ==
  ASSUME NEW c \in Nat, NEW d \in Nat, c <= d PROVE High(c) <= High(d)
<1>1. High(c) \in Nat /\ High(d) \in Nat /\ WordValues \in Nat \ {0, 1}
  BY WordsOf, WideReadAssumption
<1>2. c = High(c) * WordValues + Low(c) /\ d = High(d) * WordValues + Low(d)
      /\ Low(c) \in 0 .. WordValues - 1 /\ Low(d) \in 0 .. WordValues - 1
  BY WordsOf
<1>3. ASSUME High(d) + 1 <= High(c) PROVE FALSE
  <2>1. (High(d) + 1) * WordValues <= High(c) * WordValues
    BY <1>1, <1>3
  <2>2. (High(d) + 1) * WordValues = High(d) * WordValues + WordValues
    BY <1>1
  <2>3. High(d) * WordValues \in Nat /\ High(c) * WordValues \in Nat
    BY <1>1
  <2> QED BY <1>1, <1>2, <2>1, <2>2, <2>3
<1> QED BY <1>1, <1>3

\* In fewer than WordValues steps it grows by one at most.
LEMMA HighGrowsByOne ==
  ASSUME NEW c \in Nat, NEW d \in Nat, c <= d, d - c < WordValues
  PROVE  High(d) <= High(c) + 1
<1>1. High(c) \in Nat /\ High(d) \in Nat /\ WordValues \in Nat \ {0, 1}
  BY WordsOf, WideReadAssumption
<1>2. c = High(c) * WordValues + Low(c) /\ d = High(d) * WordValues + Low(d)
      /\ Low(c) \in 0 .. WordValues - 1 /\ Low(d) \in 0 .. WordValues - 1
  BY WordsOf
<1>3. ASSUME High(c) + 2 <= High(d) PROVE FALSE
  <2>1. (High(c) + 2) * WordValues <= High(d) * WordValues
    BY <1>1, <1>3
  <2>2. (High(c) + 2) * WordValues = High(c) * WordValues + 2 * WordValues
    BY <1>1
  <2>3. High(d) * WordValues \in Nat /\ High(c) * WordValues \in Nat
    BY <1>1
  <2> QED BY <1>1, <1>2, <2>1, <2>2, <2>3
<1> QED BY <1>1, <1>3

(* The words read so far are those of values the counter had since the     *)
(* read began, in the order they were read.                                *)
Had(c) == c \in began .. count

ReadInv ==
  /\ count \in Nat /\ began \in Nat /\ began <= count
  /\ repeats \in BOOLEAN
  /\ ~repeats => count - began < WordValues
  /\ rpc \in {"high", "low", "again", "fix", "done"}
  /\ rpc = "low" => \E c : Had(c) /\ hPrev = High(c)
  /\ rpc = "again" => \E c, d : Had(c) /\ Had(d) /\ c <= d /\ hPrev = High(c) /\ lo = Low(d)
  /\ rpc = "fix" => ~repeats /\ hi # hPrev /\ \E c, d :
       Had(c) /\ Had(d) /\ c <= d /\ hPrev = High(c) /\ hi = High(d)
  /\ ReadIsAValue

LEMMA ReadStep == ASSUME ReadInv, [WideNext]_wideVars PROVE ReadInv'
<1> USE DEF ReadInv, Had
<1>1. CASE Counts
  <2>1. /\ count' = count + 1 /\ rpc # "done"
        /\ UNCHANGED <<repeats, rpc, hPrev, lo, hi, began>>
        /\ ~repeats => count - began + 1 < WordValues
    BY <1>1 DEF Counts
  <2>2. \A c : Had(c) => Had(c)'
    BY <2>1
  <2> QED BY <2>1, <2>2 DEF ReadIsAValue
<1>2. CASE ReadHigh
  BY <1>2 DEF ReadHigh, ReadIsAValue
<1>3. CASE ReadLow
  <2>1. Had(count)
    OBVIOUS
  <2> QED BY <1>3, <2>1 DEF ReadLow, ReadIsAValue
<1>4. CASE ReadAgain /\ High(count) = hPrev
  <2>1. PICK c, d : Had(c) /\ Had(d) /\ c <= d /\ hPrev = High(c) /\ lo = Low(d)
    BY <1>4 DEF ReadAgain
  <2>2. c \in Nat /\ d \in Nat /\ c <= d /\ d <= count
    BY <2>1
  <2>3. High(c) <= High(d) /\ High(d) <= High(count)
    BY <2>2, HighGrows
  <2>4. High(d) = hPrev
    BY <1>4, <2>1, <2>2, <2>3, WordsOf
  <2>5. hPrev * WordValues + lo = d
    BY <2>1, <2>2, <2>4, WordsOf
  <2>6. hi' = hPrev /\ rpc' = "done" /\ UNCHANGED <<count, repeats, hPrev, lo, began>>
    BY <1>4 DEF ReadAgain
  <2> QED BY <2>1, <2>5, <2>6 DEF ReadIsAValue
<1>5. CASE ReadAgain /\ High(count) # hPrev
  <2>1. PICK c, d : Had(c) /\ Had(d) /\ c <= d /\ hPrev = High(c) /\ lo = Low(d)
    BY <1>5 DEF ReadAgain
  <2>2. /\ hi' = High(count)
        /\ rpc' = IF repeats THEN "high" ELSE "fix"
        /\ UNCHANGED <<count, repeats, hPrev, lo, began>>
    BY <1>5 DEF ReadAgain
  <2>3. Had(count) /\ c <= count
    BY <2>1
  <2> QED BY <1>5, <2>1, <2>2, <2>3 DEF ReadIsAValue
<1>6. CASE FixLow
  <2>1. PICK c, d : Had(c) /\ Had(d) /\ c <= d /\ hPrev = High(c) /\ hi = High(d)
    BY <1>6 DEF FixLow
  <2>2. ~repeats /\ rpc = "fix" /\ lo' = Low(count) /\ rpc' = "done" /\ hi # hPrev
        /\ UNCHANGED <<count, repeats, hPrev, hi, began>>
    BY <1>6 DEF FixLow
  <2>3. c \in Nat /\ d \in Nat /\ c <= d /\ d <= count /\ count - c < WordValues
    BY <2>1, <2>2, WideReadAssumption
  <2>4. High(c) <= High(d) /\ High(d) <= High(count) /\ High(count) <= High(c) + 1
    BY <2>3, HighGrows, HighGrowsByOne
  <2>5. hi = High(count)
    BY SMTT(30), <2>1, <2>2, <2>3, <2>4, WordsOf
  <2>6. hi * WordValues + lo' = count
    BY <2>2, <2>5, WordsOf
  <2> QED BY <2>2, <2>6 DEF ReadIsAValue
<1>7. CASE UNCHANGED wideVars
  BY <1>7 DEF wideVars, ReadIsAValue
<1> QED BY <1>1, <1>2, <1>3, <1>4, <1>5, <1>6, <1>7 DEF WideNext

\* A counter of two words is read as a value it had, for every word size and
\* every interleaving (src/l2_pmu.c:142-152, src/fsbl.c:965-980).
THEOREM WideReadsAreValues == WideSpec => []ReadIsAValue
<1>1. WideInit => ReadInv
  BY WideReadAssumption DEF WideInit, ReadInv, Had, ReadIsAValue
<1>2. ReadInv => ReadIsAValue
  BY DEF ReadInv
<1> QED BY <1>1, <1>2, ReadStep, PTL DEF WideSpec

=============================================================================
