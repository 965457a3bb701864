------------------------------ MODULE HsmProofs ------------------------------
(***************************************************************************)
(* Theorems of Hsm for any number of harts and of HART_START calls: each   *)
(* request reaches its hart whole, a CPU goes into reset only when it      *)
(* sleeps, and an orderly supervisor keeps harts_online exact.             *)
(***************************************************************************)
EXTENDS Hsm, TLAPS

-----------------------------------------------------------------------------
(* The request table.  A hart is asked for by one starter at a time, and   *)
(* an entry is written only between the call and initialized = true.       *)
Writing  == {"addr", "opaque", "ready"}
Inside   == {"args", "clear", "join", "joined", "mret"}
Running  == {"S"} \cup StartPcs

\* While a starter fills an entry the hart waits, and nothing reads the entry.
Filling(a) ==
  LET t == target[a] IN
  /\ t # 0
  /\ seen[t] = "starting"
  /\ pc[t] \notin Inside
  /\ ~entry[t].initialized
  /\ pc[a] \in {"opaque", "ready"} => entry[t].addr = asked[t]
  /\ pc[a] = "ready" => entry[t].opaque = asked[t]

Whole(h) == entry[h].addr = asked[h] /\ entry[h].opaque = asked[h]

EntriesFilled == \A a \in Harts : pc[a] \in Writing => Filling(a)
OneWriter ==
  \A a, b \in Harts :
    pc[a] \in Writing /\ pc[b] \in Writing /\ target[a] = target[b] => a = b
ReadyIsWhole ==
  \A h \in Harts : entry[h].initialized =>
    Whole(h) /\ seen[h] = "starting" /\ pc[h] \notin {"join", "joined", "mret"}
InsideAsked ==
  /\ \A h \in Harts : pc[h] \in Inside => seen[h] = "starting"
  /\ \A h \in Harts : pc[h] \in {"args", "clear"} => entry[h].initialized
  /\ \A h \in Harts : pc[h] \in Running => seen[h] = "up"
EnteredAsAsked ==
  /\ \A h \in Harts : pc[h] = "args" => entered[h][1] = asked[h]
  /\ \A h \in Slaves : pc[h] \in Running \cup (Inside \ {"args"}) =>
       entered[h] = <<asked[h], asked[h]>>

EntryInv == EntriesFilled /\ OneWriter /\ ReadyIsWhole /\ InsideAsked /\ EnteredAsAsked

-----------------------------------------------------------------------------
(* A stop message, and the handler's job, are about a hart that has sent   *)
(* the message and has not left it since.                                  *)
Stopping == {"prepare", "halted"}

StopInv ==
  /\ \A h \in stopMsg : pc[h] \in Stopping /\ job # Cpu(h)
  /\ \A h \in Harts : job = Cpu(h) =>
       pc[h] \in Stopping /\ (jobPc # "wfi" => pc[h] = "halted")
  /\ job = NoCpu <=> jobPc = "idle"

-----------------------------------------------------------------------------
(* An orderly supervisor on CPU 0: one hart at a time is on its way up or  *)
(* down, so nobody changes harts_online between the load and the store.    *)
OnlinePcs == {"S", "mret", "stop", "leave", "left"} \cup StartPcs
Leaving   == {"stop", "leave", "left", "send"} \cup Stopping
Moving    == {"starting", "dying"}

OneMoves   == \A h, g \in Harts : seen[h] \in Moving /\ seen[g] \in Moving => h = g
CopyIsNew  == \A h \in Harts : pc[h] \in {"joined", "left"} => copy[h] = online
LeavingDie == \A h \in Harts : pc[h] \in Leaving => seen[h] = "dying"
ResetIsOff == \A h \in Harts : ~resetN[h] <=> pc[h] = "off"

OrderlyInv ==
  /\ ResetIsOff
  /\ conf.orderly => OnlineExact /\ OneMoves /\ CopyIsNew /\ LeavingDie

-----------------------------------------------------------------------------
\* init_smp numbers the CPUs: no two harts have the same one.
LEMMA CpuInjective ==
  /\ \A h \in Harts : Cpu(h) \in Harts
  /\ \A h, g \in Harts : Cpu(h) = Cpu(g) => h = g
  /\ NoCpu \notin Harts
  BY HartsAssumption DEF Harts, Cpu, NoCpu

-----------------------------------------------------------------------------
\* One field of a table entry, and one of the two arguments, is written.
Entry == [addr : Requests \cup {0}, opaque : Requests \cup {0}, initialized : BOOLEAN]
LEMMA EntryReady ==
  ASSUME NEW r \in Entry, NEW v \in BOOLEAN
  PROVE  [r EXCEPT !.initialized = v] \in Entry
  BY DEF Entry

LEMMA EntryArgs ==
  ASSUME NEW r \in Entry, NEW x \in Requests \cup {0}
  PROVE  [r EXCEPT !.addr = x] \in Entry /\ [r EXCEPT !.opaque = x] \in Entry
  BY DEF Entry

LEMMA PairPut ==
  ASSUME NEW S, NEW p \in S \X S, NEW x \in S
  PROVE  [p EXCEPT ![1] = x] \in S \X S /\ [p EXCEPT ![2] = x] \in S \X S
  OBVIOUS

LEMMA PairSecond ==
  ASSUME NEW S, NEW p \in S \X S, NEW x \in S PROVE [p EXCEPT ![2] = x] = <<p[1], x>>
  OBVIOUS

LEMMA Put ==
  ASSUME NEW S, NEW T, NEW f \in [S -> T], NEW x, NEW v \in T
  PROVE  [f EXCEPT ![x] = v] \in [S -> T]
  OBVIOUS

LEMMA EnteredPut ==
  ASSUME NEW S, NEW T, NEW f \in [T -> S \X S], NEW h \in T, NEW x \in S
  PROVE  /\ [f EXCEPT ![h] = [f[h] EXCEPT ![1] = x]] \in [T -> S \X S]
         /\ [f EXCEPT ![h] = [f[h] EXCEPT ![2] = x]] \in [T -> S \X S]
<1>1. f[h] \in S \X S
  OBVIOUS
<1>2. [f[h] EXCEPT ![1] = x] \in S \X S /\ [f[h] EXCEPT ![2] = x] \in S \X S
  BY <1>1, PairPut
<1> QED BY <1>2, Put

LEMMA EnterTyped ==
  ASSUME TypeOK, NEW h \in Harts, EnterAddr(h) \/ EnterOpaque(h)
  PROVE  entered' \in [Harts -> (Requests \cup {0}) \X (Requests \cup {0})]
<1>1. entered \in [Harts -> (Requests \cup {0}) \X (Requests \cup {0})]
  BY DEF TypeOK
<1>2. entry[h].addr \in Requests \cup {0} /\ entry[h].opaque \in Requests \cup {0}
  BY DEF TypeOK
<1>3. /\ [entered EXCEPT ![h] = [entered[h] EXCEPT ![1] = entry[h].addr]]
           \in [Harts -> (Requests \cup {0}) \X (Requests \cup {0})]
      /\ [entered EXCEPT ![h] = [entered[h] EXCEPT ![2] = entry[h].opaque]]
           \in [Harts -> (Requests \cup {0}) \X (Requests \cup {0})]
  BY <1>1, <1>2, EnteredPut
<1>4. CASE EnterAddr(h)
  BY <1>3, <1>4 DEF EnterAddr
<1>5. CASE EnterOpaque(h)
  BY <1>3, <1>5 DEF EnterOpaque
<1> QED BY <1>4, <1>5

\* A step leaves the variables in their types.
LEMMA TypeStep == ASSUME TypeOK, [Next]_vars PROVE TypeOK'
<1> USE DEF TypeOK, Goto, powerVars, stopVars, histVars, StartPcs, UpPcs, DownPcs
<1>1. ASSUME NEW a \in Harts, NEW t \in Harts, EcallStart(a, t) PROVE TypeOK'
  <2>1. made' \in 0 .. MaxStarts /\ made + 1 \in Requests
    BY <1>1, StartsAssumption DEF EcallStart, Requests
  <2> QED BY <1>1, <2>1 DEF EcallStart
<1>2. ASSUME NEW a \in Harts, NEW t \in Harts, EcallStatus(a, t) PROVE TypeOK'
  BY <1>2 DEF EcallStatus
<1>3. ASSUME NEW h \in Harts, EcallStop(h) PROVE TypeOK'
  BY <1>3 DEF EcallStop
<1>4. ASSUME NEW h \in Harts, Starter(h) PROVE TypeOK'
  <2>0. 0 \in Harts
    BY HartsAssumption DEF Harts
  <2>1. CASE StartAddr(h)
    <3>1. [entry[target[h]] EXCEPT !.addr = asked[target[h]]] \in Entry
      BY EntryArgs DEF Entry
    <3>2. entry' \in [Harts -> Entry]
      BY <2>1, <3>1 DEF StartAddr, Entry
    <3> QED BY <2>1, <3>2 DEF StartAddr, Entry
  <2>2. CASE StartOpaque(h)
    <3>1. [entry[target[h]] EXCEPT !.opaque = asked[target[h]]] \in Entry
      BY EntryArgs DEF Entry
    <3>2. entry' \in [Harts -> Entry]
      BY <2>2, <3>1 DEF StartOpaque, Entry
    <3> QED BY <2>2, <3>2 DEF StartOpaque, Entry
  <2>3. CASE StartReady(h)
    <3>1. /\ pc' = [pc EXCEPT ![h] = "test"] \/ pc' = [pc EXCEPT ![h] = "S"]
          /\ target' = target \/ target' = [target EXCEPT ![h] = 0]
      BY <2>3 DEF StartReady
    <3>2. target' \in [Harts -> Harts]
      BY <3>1, Put, <2>0
    <3>3. [entry[target[h]] EXCEPT !.initialized = TRUE] \in Entry
      BY EntryReady DEF Entry
    <3>4. entry' \in [Harts -> Entry]
      BY <2>3, <3>3 DEF StartReady, Entry
    <3>5. pc' \in [Harts -> {"S"} \cup StartPcs \cup UpPcs \cup DownPcs]
      BY <3>1
    <3> QED BY <2>3, <3>2, <3>4, <3>5 DEF StartReady, Entry
  <2>4. CASE StartTest(h)
    <3>1. /\ pc' = [pc EXCEPT ![h] = "activate"] \/ pc' = [pc EXCEPT ![h] = "S"]
          /\ target' = target \/ target' = [target EXCEPT ![h] = 0]
      BY <2>4 DEF StartTest
    <3>2. target' \in [Harts -> Harts]
      BY <3>1, Put, <2>0
    <3>3. pc' \in [Harts -> {"S"} \cup StartPcs \cup UpPcs \cup DownPcs]
      BY <3>1
    <3> QED BY <2>4, <3>2, <3>3 DEF StartTest
  <2>5. CASE StartActivate(h)
    BY <2>5 DEF StartActivate
  <2>6. CASE StartReturn(h)
    BY <2>6, <2>0 DEF StartReturn
  <2>7. ASSUME NEW from, NEW condition, NEW to \in StartPcs, Await(h, from, condition, to)
        PROVE  TypeOK'
    BY <2>7 DEF Await
  <2>8. ASSUME NEW from, NEW c \in {"SETUP", "START"}, NEW to \in StartPcs,
               SendBoot(h, from, c, to)
        PROVE  TypeOK'
    BY <2>8 DEF SendBoot
  <2> QED BY <1>4, <2>1, <2>2, <2>3, <2>4, <2>5, <2>6, <2>7, <2>8 DEF Starter
<1>5. ASSUME NEW h \in Harts, ComeUp(h) PROVE TypeOK'
  <2>1. CASE ResetWait(h)
    BY <2>1 DEF ResetWait
  <2>2. CASE WaitSetup(h)
    BY <2>2 DEF WaitSetup
  <2>3. CASE WaitStart(h)
    BY <2>3 DEF WaitStart
  <2>4. CASE SlaveStarted(h)
    BY <2>4 DEF SlaveStarted
  <2>5. CASE EnterAddr(h)
    <3>1. entered' \in [Harts -> (Requests \cup {0}) \X (Requests \cup {0})]
      BY <2>5, EnterTyped
    <3> QED BY <2>5, <3>1 DEF EnterAddr
  <2>6. CASE EnterOpaque(h)
    <3>1. entered' \in [Harts -> (Requests \cup {0}) \X (Requests \cup {0})]
      BY <2>6, EnterTyped
    <3> QED BY <2>6, <3>1 DEF EnterOpaque
  <2>7. CASE EnterClear(h)
    BY <2>7 DEF EnterClear
  <2>8. CASE EnterOnline(h)
    BY <2>8 DEF EnterOnline
  <2>9. CASE EnterMret(h)
    BY <2>9 DEF EnterMret
  <2>10. CASE LoadOnline(h, "join", "joined")
    BY <2>10 DEF LoadOnline
  <2> QED BY <1>5, <2>1, <2>2, <2>3, <2>4, <2>5, <2>6, <2>7, <2>8, <2>9, <2>10 DEF ComeUp
<1>6. ASSUME NEW h \in Harts, GoDown(h) PROVE TypeOK'
  <2>1. CASE StopState(h)
    BY <2>1 DEF StopState
  <2>2. CASE StopOnline(h)
    BY <2>2 DEF StopOnline
  <2>3. CASE StopSend(h)
    BY <2>3 DEF StopSend
  <2>4. CASE StopHalt(h)
    BY <2>4 DEF StopHalt
  <2>5. CASE LoadOnline(h, "leave", "left")
    BY <2>5 DEF LoadOnline
  <2> QED BY <1>6, <2>1, <2>2, <2>3, <2>4, <2>5 DEF GoDown
<1>7. ASSUME NEW h \in Harts, TakeStop(h) PROVE TypeOK'
  BY <1>7, CpuInjective DEF TakeStop
<1>8. CASE StopHandler
  <2>1. CASE HandlerWfi
    BY <2>1 DEF HandlerWfi, JobStep
  <2>2. CASE HandlerLink
    BY <2>2 DEF HandlerLink, JobStep
  <2>3. CASE HandlerReset
    BY <2>3 DEF HandlerReset
  <2> QED BY <1>8, <2>1, <2>2, <2>3 DEF StopHandler
<1>9. ASSUME NEW c \in Harts, LinkFollows(c) PROVE TypeOK'
  BY <1>9 DEF LinkFollows
<1>10. CASE UNCHANGED vars
  BY <1>10 DEF vars
<1> QED BY <1>1, <1>2, <1>3, <1>4, <1>5, <1>6, <1>7, <1>8, <1>9, <1>10
        DEF Next, Firmware, Supervisor

\* The type invariant, of the state the three calls and the boot words share.
THEOREM TypeCorrect == Spec => []TypeOK
<1>1. Init => TypeOK
  BY HartsAssumption, SettingsAssumption, StartsAssumption
     DEF Init, TypeOK, Harts, StartPcs, UpPcs, DownPcs, Requests, NoCpu
<1> QED BY <1>1, TypeStep, PTL DEF Spec

-----------------------------------------------------------------------------
tableVars == <<entry, seen, asked, entered>>

LEMMA EntryUnmoved ==
  ASSUME EntryInv, UNCHANGED <<pc, target, tableVars>> PROVE EntryInv'
  BY DEF tableVars, EntryInv, EntriesFilled, OneWriter, ReadyIsWhole, InsideAsked,
         EnteredAsAsked, Filling, Whole

\* A hart that moves without touching the table, outside the two windows.
LEMMA EntryMove ==
  ASSUME TypeOK, EntryInv, NEW h \in Harts, NEW to,
         pc' = [pc EXCEPT ![h] = to], UNCHANGED tableVars,
         \A g \in Harts : g # h => target'[g] = target[g],
         to \notin Writing, to \notin {"args", "clear"},
         to \in Inside => pc[h] \in {"join", "joined", "mret"},
         to \in Running => pc[h] \in Running
  PROVE  EntryInv'
<1> USE DEF TypeOK, EntryInv, EntriesFilled, OneWriter, ReadyIsWhole, InsideAsked, EnteredAsAsked,
            Filling, Whole, Writing, Inside, Running, Slaves, tableVars
<1>1. \A g \in Harts : pc'[g] = IF g = h THEN to ELSE pc[g]
  OBVIOUS
<1>2. EntriesFilled'
  BY <1>1
<1>3. OneWriter'
  BY <1>1
<1>4. ReadyIsWhole'
  BY <1>1
<1>5. InsideAsked'
  BY <1>1
<1>6. EnteredAsAsked'
  BY <1>1
<1> QED BY <1>2, <1>3, <1>4, <1>5, <1>6

\* A new request is for a hart nobody is starting, whose entry is clear.
LEMMA EcallStartKeepsEntries ==
  ASSUME TypeOK, EntryInv, NEW a \in Harts, NEW t \in Harts, EcallStart(a, t) PROVE EntryInv'
<1>1. /\ pc[a] = "S" /\ t # 0 /\ seen[t] = "down"
      /\ \A g \in Harts : pc'[g] = IF g = a THEN "addr" ELSE pc[g]
      /\ \A g \in Harts : seen'[g] = IF g = t THEN "starting" ELSE seen[g]
      /\ \A g \in Harts : asked'[g] = IF g = t THEN made + 1 ELSE asked[g]
      /\ \A g \in Harts : target'[g] = IF g = a THEN t ELSE target[g]
      /\ entry' = entry /\ entered' = entered
      /\ \A g \in Harts : target[g] \in Harts
  BY DEF TypeOK, Goto, histVars, At, EcallStart
<1> USE DEF EntryInv, EntriesFilled, OneWriter, ReadyIsWhole, InsideAsked, EnteredAsAsked,
            Filling, Whole, Writing, Inside, Running, Slaves, StartPcs
<1>2. EntriesFilled'
  BY <1>1
<1>3. OneWriter'
  BY <1>1
<1>4. ReadyIsWhole'
  BY <1>1
<1>5. InsideAsked'
  BY <1>1
<1>6. EnteredAsAsked'
  BY <1>1
<1> QED BY <1>2, <1>3, <1>4, <1>5, <1>6

\* A hart that stops has consumed its request.
LEMMA EcallStopKeepsEntries ==
  ASSUME TypeOK, EntryInv, NEW h \in Harts, EcallStop(h) PROVE EntryInv'
<1>1. /\ pc[h] = "S"
      /\ \A g \in Harts : pc'[g] = IF g = h THEN "stop" ELSE pc[g]
      /\ \A g \in Harts : seen'[g] = IF g = h THEN "dying" ELSE seen[g]
      /\ entry' = entry /\ entered' = entered /\ asked' = asked /\ target' = target
      /\ \A g \in Harts : target[g] \in Harts
  BY DEF TypeOK, Goto, histVars, At, EcallStop
<1> USE DEF EntryInv, EntriesFilled, OneWriter, ReadyIsWhole, InsideAsked, EnteredAsAsked,
            Filling, Whole, Writing, Inside, Running, Slaves, StartPcs
<1>2. EntriesFilled'
  BY <1>1
<1>3. OneWriter'
  BY <1>1
<1>4. ReadyIsWhole'
  BY <1>1
<1>5. InsideAsked'
  BY <1>1
<1>6. EnteredAsAsked'
  BY <1>1
<1> QED BY <1>2, <1>3, <1>4, <1>5, <1>6

\* The two arguments are written while the hart waits for initialized.
LEMMA StartAddrKeepsEntries ==
  ASSUME TypeOK, EntryInv, NEW a \in Harts, StartAddr(a) PROVE EntryInv'
<1>1. /\ pc[a] = "addr"
      /\ \A g \in Harts : pc'[g] = IF g = a THEN "opaque" ELSE pc[g]
      /\ \A g \in Harts : g # target[a] => entry'[g] = entry[g]
      /\ entry'[target[a]].addr = asked[target[a]]
      /\ entry'[target[a]].initialized = entry[target[a]].initialized
      /\ target' = target /\ seen' = seen /\ asked' = asked /\ entered' = entered
      /\ \A g \in Harts : target[g] \in Harts
  BY DEF TypeOK, Goto, histVars, At, StartAddr
<1> USE DEF EntryInv, EntriesFilled, OneWriter, ReadyIsWhole, InsideAsked, EnteredAsAsked,
            Filling, Whole, Writing, Inside, Running, Slaves, StartPcs
<1>2. EntriesFilled'
  BY <1>1
<1>3. OneWriter'
  BY <1>1
<1>4. ReadyIsWhole'
  BY <1>1
<1>5. InsideAsked'
  BY <1>1
<1>6. EnteredAsAsked'
  BY <1>1
<1> QED BY <1>2, <1>3, <1>4, <1>5, <1>6

LEMMA StartOpaqueKeepsEntries ==
  ASSUME TypeOK, EntryInv, NEW a \in Harts, StartOpaque(a) PROVE EntryInv'
<1>1. /\ pc[a] = "opaque"
      /\ \A g \in Harts : pc'[g] = IF g = a THEN "ready" ELSE pc[g]
      /\ \A g \in Harts : g # target[a] => entry'[g] = entry[g]
      /\ entry'[target[a]].addr = entry[target[a]].addr
      /\ entry'[target[a]].opaque = asked[target[a]]
      /\ entry'[target[a]].initialized = entry[target[a]].initialized
      /\ target' = target /\ seen' = seen /\ asked' = asked /\ entered' = entered
      /\ \A g \in Harts : target[g] \in Harts
  BY DEF TypeOK, Goto, histVars, At, StartOpaque
<1> USE DEF EntryInv, EntriesFilled, OneWriter, ReadyIsWhole, InsideAsked, EnteredAsAsked,
            Filling, Whole, Writing, Inside, Running, Slaves, StartPcs
<1>2. EntriesFilled'
  BY <1>1
<1>3. OneWriter'
  BY <1>1
<1>4. ReadyIsWhole'
  BY <1>1
<1>5. InsideAsked'
  BY <1>1
<1>6. EnteredAsAsked'
  BY <1>1
<1> QED BY <1>2, <1>3, <1>4, <1>5, <1>6

\* initialized makes a complete entry visible.
LEMMA StartReadyKeepsEntries ==
  ASSUME TypeOK, EntryInv, NEW a \in Harts, StartReady(a) PROVE EntryInv'
<1>1. /\ pc[a] = "ready"
      /\ \A g \in Harts : g # a => pc'[g] = pc[g] /\ target'[g] = target[g]
      /\ pc'[a] \in {"test", "S"}
      /\ \A g \in Harts : g # target[a] => entry'[g] = entry[g]
      /\ entry'[target[a]].addr = entry[target[a]].addr
      /\ entry'[target[a]].opaque = entry[target[a]].opaque
      /\ seen' = seen /\ asked' = asked /\ entered' = entered
      /\ \A g \in Harts : target[g] \in Harts
  BY DEF TypeOK, Goto, histVars, At, StartReady
<1> USE DEF EntryInv, EntriesFilled, OneWriter, ReadyIsWhole, InsideAsked, EnteredAsAsked,
            Filling, Whole, Writing, Inside, Running, Slaves, StartPcs
<1>2. EntriesFilled'
  BY <1>1
<1>3. OneWriter'
  BY <1>1
<1>4. ReadyIsWhole'
  BY <1>1
<1>5. InsideAsked'
  BY <1>1
<1>6. EnteredAsAsked'
  BY <1>1
<1> QED BY <1>2, <1>3, <1>4, <1>5, <1>6

\* A CPU that leaves reset has not entered anything yet.
LEMMA StartActivateKeepsEntries ==
  ASSUME TypeOK, EntryInv, NEW a \in Harts, StartActivate(a) PROVE EntryInv'
<1>1. /\ pc[a] = "activate"
      /\ \A g \in Harts : pc'[g] = pc[g] \/ (pc[g] = "off" /\ pc'[g] = "reset") \/ (g = a /\ pc'[g] = "linkwait")
      /\ entry' = entry /\ target' = target /\ seen' = seen /\ asked' = asked /\ entered' = entered
      /\ \A g \in Harts : target[g] \in Harts
  BY DEF TypeOK, Goto, histVars, At, StartActivate
<1> USE DEF EntryInv, EntriesFilled, OneWriter, ReadyIsWhole, InsideAsked, EnteredAsAsked,
            Filling, Whole, Writing, Inside, Running, Slaves, StartPcs
<1>2. EntriesFilled'
  BY <1>1
<1>3. OneWriter'
  BY <1>1
<1>4. ReadyIsWhole'
  BY <1>1
<1>5. InsideAsked'
  BY <1>1
<1>6. EnteredAsAsked'
  BY <1>1
<1> QED BY <1>2, <1>3, <1>4, <1>5, <1>6

\* The hart takes a complete entry, one argument after the other.
LEMMA EnterAddrKeepsEntries ==
  ASSUME TypeOK, EntryInv, NEW h \in Harts, EnterAddr(h) PROVE EntryInv'
<1>1. /\ pc[h] = "enter" /\ entry[h].initialized
      /\ \A g \in Harts : pc'[g] = IF g = h THEN "args" ELSE pc[g]
      /\ \A g \in Harts : g # h => entered'[g] = entered[g]
      /\ entered'[h][1] = entry[h].addr
      /\ entry' = entry /\ seen' = seen /\ asked' = asked /\ target' = target
      /\ \A g \in Harts : target[g] \in Harts
  BY DEF TypeOK, Goto, histVars, At, EnterAddr
<1> USE DEF EntryInv, EntriesFilled, OneWriter, ReadyIsWhole, InsideAsked, EnteredAsAsked,
            Filling, Whole, Writing, Inside, Running, Slaves, StartPcs
<1>2. EntriesFilled'
  BY <1>1
<1>3. OneWriter'
  BY <1>1
<1>4. ReadyIsWhole'
  BY <1>1
<1>5. InsideAsked'
  BY <1>1
<1>6. EnteredAsAsked'
  BY <1>1
<1> QED BY <1>2, <1>3, <1>4, <1>5, <1>6

LEMMA EnterOpaqueKeepsEntries ==
  ASSUME TypeOK, EntryInv, NEW h \in Harts, EnterOpaque(h) PROVE EntryInv'
<1>1. /\ pc[h] = "args"
      /\ \A g \in Harts : pc'[g] = IF g = h THEN "clear" ELSE pc[g]
      /\ \A g \in Harts : entered'[g] = IF g = h THEN <<entered[h][1], entry[h].opaque>> ELSE entered[g]
      /\ entry' = entry /\ seen' = seen /\ asked' = asked /\ target' = target
      /\ \A g \in Harts : target[g] \in Harts
  <2>1. entered'[h] = [entered[h] EXCEPT ![2] = entry[h].opaque]
        /\ \A g \in Harts : g # h => entered'[g] = entered[g]
    BY DEF TypeOK, EnterOpaque
  <2>2. entered[h] \in (Requests \cup {0}) \X (Requests \cup {0})
        /\ entry[h].opaque \in Requests \cup {0}
    BY DEF TypeOK
  <2>3. entered'[h] = <<entered[h][1], entry[h].opaque>>
    BY <2>1, <2>2, PairSecond
  <2> QED BY <2>1, <2>3 DEF TypeOK, Goto, histVars, EnterOpaque
<1> USE DEF EntryInv, EntriesFilled, OneWriter, ReadyIsWhole, InsideAsked, EnteredAsAsked,
            Filling, Whole, Writing, Inside, Running, Slaves, StartPcs
<1>2. EntriesFilled'
  BY <1>1
<1>3. OneWriter'
  BY <1>1
<1>4. ReadyIsWhole'
  BY <1>1
<1>5. InsideAsked'
  BY <1>1
<1>6. EnteredAsAsked'
  BY <1>1
<1> QED BY <1>2, <1>3, <1>4, <1>5, <1>6

\* It clears the entry and is still the one that was asked for.
LEMMA EnterClearKeepsEntries ==
  ASSUME TypeOK, EntryInv, NEW h \in Harts, EnterClear(h) PROVE EntryInv'
<1>1. /\ pc[h] = "clear"
      /\ \A g \in Harts : pc'[g] = IF g = h THEN "join" ELSE pc[g]
      /\ \A g \in Harts : g # h => entry'[g] = entry[g]
      /\ ~entry'[h].initialized
      /\ entered' = entered /\ seen' = seen /\ asked' = asked /\ target' = target
      /\ \A g \in Harts : target[g] \in Harts
  BY DEF TypeOK, Goto, histVars, At, EnterClear
<1> USE DEF EntryInv, EntriesFilled, OneWriter, ReadyIsWhole, InsideAsked, EnteredAsAsked,
            Filling, Whole, Writing, Inside, Running, Slaves, StartPcs
<1>2. EntriesFilled'
  BY <1>1
<1>3. OneWriter'
  BY <1>1
<1>4. ReadyIsWhole'
  BY <1>1
<1>5. InsideAsked'
  BY <1>1
<1>6. EnteredAsAsked'
  BY <1>1
<1> QED BY <1>2, <1>3, <1>4, <1>5, <1>6

\* It enters the supervisor.
LEMMA EnterMretKeepsEntries ==
  ASSUME TypeOK, EntryInv, NEW h \in Harts, EnterMret(h) PROVE EntryInv'
<1>1. /\ pc[h] = "mret"
      /\ \A g \in Harts : pc'[g] = IF g = h THEN "S" ELSE pc[g]
      /\ \A g \in Harts : seen'[g] = IF g = h THEN "up" ELSE seen[g]
      /\ entry' = entry /\ asked' = asked /\ target' = target /\ entered' = entered
      /\ \A g \in Harts : target[g] \in Harts
  BY DEF TypeOK, Goto, histVars, At, EnterMret
<1> USE DEF EntryInv, EntriesFilled, OneWriter, ReadyIsWhole, InsideAsked, EnteredAsAsked,
            Filling, Whole, Writing, Inside, Running, Slaves, StartPcs
<1>2. EntriesFilled'
  BY <1>1
<1>3. OneWriter'
  BY <1>1
<1>4. ReadyIsWhole'
  BY <1>1
<1>5. InsideAsked'
  BY <1>1
<1>6. EnteredAsAsked'
  BY <1>1
<1> QED BY <1>2, <1>3, <1>4, <1>5, <1>6

\* A step keeps every request whole.
LEMMA EntryStep == ASSUME TypeOK, EntryInv, [Next]_vars PROVE EntryInv'
<1>1. ASSUME NEW a \in Harts, NEW t \in Harts, EcallStart(a, t) PROVE EntryInv'
  BY <1>1, EcallStartKeepsEntries
<1>2. ASSUME NEW a \in Harts, NEW t \in Harts, EcallStatus(a, t) PROVE EntryInv'
  <2>1. /\ seen[t] = "dying"
        /\ \A g \in Harts : seen'[g] = IF g = t THEN "down" ELSE seen[g]
        /\ UNCHANGED <<pc, entry, asked, entered, target>>
        /\ \A g \in Harts : target[g] \in Harts
    BY <1>2 DEF TypeOK, EcallStatus, histVars
  <2> USE DEF EntryInv, Filling, Whole, Slaves
  <2>2. EntriesFilled' /\ OneWriter'
    BY <2>1 DEF EntriesFilled, OneWriter
  <2>3. ReadyIsWhole' /\ InsideAsked'
    BY <2>1 DEF ReadyIsWhole, InsideAsked
  <2>4. EnteredAsAsked'
    BY <2>1 DEF EnteredAsAsked
  <2> QED BY <2>2, <2>3, <2>4
<1>3. ASSUME NEW h \in Harts, EcallStop(h) PROVE EntryInv'
  BY <1>3, EcallStopKeepsEntries
<1> USE DEF Writing, Inside, Running, StartPcs, tableVars, histVars, Goto
<1>4. ASSUME NEW h \in Harts, Starter(h) PROVE EntryInv'
  <2>1. CASE StartAddr(h) \/ StartOpaque(h) \/ StartReady(h) \/ StartActivate(h)
    BY <2>1, StartAddrKeepsEntries, StartOpaqueKeepsEntries, StartReadyKeepsEntries,
       StartActivateKeepsEntries
  <2>2. CASE StartTest(h)
    <3>1. PICK to \in {"S", "activate"} : pc' = [pc EXCEPT ![h] = to]
      BY <2>2 DEF StartTest
    <3>2. /\ UNCHANGED tableVars
          /\ \A g \in Harts : g # h => target'[g] = target[g]
      BY <2>2 DEF StartTest, TypeOK
    <3>3. pc[h] \in Running
      BY <2>2 DEF StartTest, At
    <3> QED BY <3>1, <3>2, <3>3, EntryMove
  <2>3. ASSUME NEW from \in StartPcs, NEW condition, NEW to \in StartPcs \ Writing,
               Await(h, from, condition, to)
        PROVE  EntryInv'
    BY <2>3, EntryMove DEF Await, At
  <2>4. ASSUME NEW from \in StartPcs, NEW c, NEW to \in StartPcs \ Writing,
               SendBoot(h, from, c, to)
        PROVE  EntryInv'
    BY <2>4, EntryMove DEF SendBoot, At
  <2>5. CASE StartReturn(h)
    <3>1. \A g \in Harts : g # h => target'[g] = target[g]
      BY <2>5 DEF StartReturn, TypeOK
    <3> QED BY <2>5, <3>1, EntryMove DEF StartReturn, At
  <2> QED BY <1>4, <2>1, <2>2, <2>3, <2>4, <2>5 DEF Starter
<1>5. ASSUME NEW h \in Harts, ComeUp(h) PROVE EntryInv'
  <2>1. CASE EnterAddr(h) \/ EnterOpaque(h) \/ EnterClear(h) \/ EnterMret(h)
    BY <2>1, EnterAddrKeepsEntries, EnterOpaqueKeepsEntries, EnterClearKeepsEntries,
       EnterMretKeepsEntries
  <2>2. CASE ResetWait(h)
    BY <2>2, EntryMove DEF ResetWait
  <2>3. CASE WaitSetup(h) /\ word[h] = "SETUP"
    BY <2>3, EntryMove DEF WaitSetup
  <2>4. CASE WaitSetup(h) /\ word[h] # "SETUP"
    BY <2>4, EntryUnmoved DEF WaitSetup
  <2>5. CASE WaitStart(h)
    <3>1. PICK to \in {"slave", "pending"} : pc' = [pc EXCEPT ![h] = to]
      BY <2>5 DEF WaitStart
    <3> QED BY <2>5, <3>1, EntryMove DEF WaitStart
  <2>6. CASE SlaveStarted(h)
    BY <2>6, EntryMove DEF SlaveStarted
  <2>7. CASE LoadOnline(h, "join", "joined")
    BY <2>7, EntryMove DEF LoadOnline
  <2>8. CASE EnterOnline(h)
    BY <2>8, EntryMove DEF EnterOnline
  <2> QED BY <1>5, <2>1, <2>2, <2>3, <2>4, <2>5, <2>6, <2>7, <2>8 DEF ComeUp
<1>6. ASSUME NEW h \in Harts, GoDown(h) PROVE EntryInv'
  <2>1. CASE StopState(h)
    BY <2>1, EntryMove DEF StopState
  <2>2. CASE LoadOnline(h, "leave", "left")
    BY <2>2, EntryMove DEF LoadOnline
  <2>3. CASE StopOnline(h)
    BY <2>3, EntryMove DEF StopOnline
  <2>4. CASE StopSend(h)
    BY <2>4, EntryMove DEF StopSend
  <2>5. CASE StopHalt(h)
    BY <2>5, EntryMove DEF StopHalt
  <2> QED BY <1>6, <2>1, <2>2, <2>3, <2>4, <2>5 DEF GoDown
<1>7. ASSUME NEW h \in Harts, TakeStop(h) PROVE EntryInv'
  BY <1>7, EntryUnmoved DEF TakeStop
<1>8. CASE HandlerWfi \/ HandlerLink
  BY <1>8, EntryUnmoved DEF HandlerWfi, HandlerLink, JobStep
<1>9. CASE HandlerReset
  <2>1. /\ \A g \in Harts : pc'[g] = pc[g] \/ pc'[g] = "off"
        /\ UNCHANGED <<entry, seen, asked, entered, target>>
        /\ \A g \in Harts : target[g] \in Harts
    BY <1>9 DEF HandlerReset, TypeOK
  <2> USE DEF EntryInv, Filling, Whole, Slaves
  <2>2. EntriesFilled' /\ OneWriter'
    BY <2>1 DEF EntriesFilled, OneWriter
  <2>3. ReadyIsWhole' /\ InsideAsked'
    BY <2>1 DEF ReadyIsWhole, InsideAsked
  <2>4. EnteredAsAsked'
    BY <2>1 DEF EnteredAsAsked
  <2> QED BY <2>2, <2>3, <2>4
<1>10. ASSUME NEW c \in Harts, LinkFollows(c) PROVE EntryInv'
  BY <1>10, EntryUnmoved DEF LinkFollows
<1>11. CASE UNCHANGED vars
  BY <1>11, EntryUnmoved DEF vars
<1> QED BY <1>1, <1>2, <1>3, <1>4, <1>5, <1>6, <1>7, <1>8, <1>9, <1>10, <1>11
        DEF Next, Firmware, Supervisor, StopHandler

LEMMA EntryInit == Init => EntryInv
  BY DEF Init, EntryInv, EntriesFilled, OneWriter, ReadyIsWhole, InsideAsked, EnteredAsAsked,
         Writing, Inside, Running, StartPcs, Slaves

\* A hart enters the supervisor with the two arguments of the last request
\* made for it, for any number of harts and however their steps mix
\* (mtrap.c:491-515, minit.c: enter_entry_point).
THEOREM RequestsArriveWhole == Spec => []EntersAsAsked
<1>1. EntryInv => EntersAsAsked
  BY DEF EntryInv, EnteredAsAsked, EntersAsAsked, Inside, Running
<1> QED BY <1>1, EntryInit, EntryStep, TypeCorrect, PTL DEF Spec

-----------------------------------------------------------------------------
\* The stop messages and the handler are left alone, and no hart leaves
\* Stopping or "halted".
LEMMA StopUnmoved ==
  ASSUME StopInv, UNCHANGED stopVars, TypeOK,
         \A h \in Harts : pc[h] \in Stopping => pc'[h] \in Stopping,
         \A h \in Harts : pc[h] = "halted" => pc'[h] = "halted"
  PROVE  StopInv'
  BY DEF StopInv, stopVars, TypeOK

\* A step keeps the messages and the job about harts that have not left.
LEMMA StopStep == ASSUME TypeOK, StopInv, [Next]_vars PROVE StopInv'
<1> USE DEF Stopping, Goto, At
<1>1. ASSUME NEW a \in Harts, NEW t \in Harts, EcallStart(a, t) PROVE StopInv'
  BY <1>1, StopUnmoved DEF EcallStart, TypeOK
<1>2. ASSUME NEW a \in Harts, NEW t \in Harts, EcallStatus(a, t) PROVE StopInv'
  BY <1>2, StopUnmoved DEF EcallStatus, TypeOK
<1>3. ASSUME NEW h \in Harts, EcallStop(h) PROVE StopInv'
  BY <1>3, StopUnmoved DEF EcallStop, TypeOK
<1>4. ASSUME NEW h \in Harts, Starter(h) PROVE StopInv'
  <2>1. CASE StartAddr(h)
    BY <2>1, StopUnmoved DEF StartAddr, TypeOK
  <2>2. CASE StartOpaque(h)
    BY <2>2, StopUnmoved DEF StartOpaque, TypeOK
  <2>3. CASE StartReady(h)
    BY <2>3, StopUnmoved DEF StartReady, TypeOK
  <2>4. CASE StartTest(h)
    BY <2>4, StopUnmoved DEF StartTest, TypeOK
  <2>5. CASE StartActivate(h)
    BY <2>5, StopUnmoved DEF StartActivate, TypeOK
  <2>6. ASSUME NEW from \in StartPcs, NEW condition, NEW to, Await(h, from, condition, to)
        PROVE  StopInv'
    BY <2>6, StopUnmoved DEF Await, TypeOK, StartPcs
  <2>7. ASSUME NEW from \in StartPcs, NEW c, NEW to, SendBoot(h, from, c, to)
        PROVE  StopInv'
    BY <2>7, StopUnmoved DEF SendBoot, TypeOK, StartPcs
  <2>8. CASE StartReturn(h)
    BY <2>8, StopUnmoved DEF StartReturn, TypeOK
  <2> QED BY <1>4, <2>1, <2>2, <2>3, <2>4, <2>5, <2>6, <2>7, <2>8 DEF Starter, StartPcs
<1>5. ASSUME NEW h \in Harts, ComeUp(h) PROVE StopInv'
  <2>1. CASE ResetWait(h) \/ WaitSetup(h) \/ WaitStart(h) \/ SlaveStarted(h)
    BY <2>1, StopUnmoved DEF ResetWait, WaitSetup, WaitStart, SlaveStarted, TypeOK
  <2>2. CASE EnterAddr(h) \/ EnterOpaque(h) \/ EnterClear(h) \/ EnterMret(h)
    BY <2>2, StopUnmoved DEF EnterAddr, EnterOpaque, EnterClear, EnterMret, TypeOK
  <2>3. CASE LoadOnline(h, "join", "joined") \/ EnterOnline(h)
    BY <2>3, StopUnmoved DEF LoadOnline, EnterOnline, TypeOK
  <2> QED BY <1>5, <2>1, <2>2, <2>3 DEF ComeUp
<1>6. ASSUME NEW h \in Harts, GoDown(h) PROVE StopInv'
  <2>1. CASE StopState(h) \/ LoadOnline(h, "leave", "left") \/ StopOnline(h)
    BY <2>1, StopUnmoved DEF StopState, LoadOnline, StopOnline, TypeOK
  <2>2. CASE StopSend(h)
    <3>1. /\ pc[h] = "send" /\ stopMsg' \subseteq stopMsg \cup {h}
          /\ job' = job /\ jobPc' = jobPc
          /\ \A g \in Harts : pc'[g] = IF g = h THEN "prepare" ELSE pc[g]
          /\ stopMsg \subseteq Harts
      BY <2>2 DEF StopSend, TypeOK
    <3>2. job # Cpu(h)
      BY <3>1 DEF StopInv
    <3> QED BY <3>1, <3>2 DEF StopInv
  <2>3. CASE StopHalt(h)
    BY <2>3, StopUnmoved DEF StopHalt, TypeOK
  <2> QED BY <1>6, <2>1, <2>2, <2>3 DEF GoDown
<1>7. ASSUME NEW h \in Harts, TakeStop(h) PROVE StopInv'
  <2>1. PICK s \in stopMsg :
          /\ stopMsg' = stopMsg \ {s}
          /\ job' = Cpu(s) /\ jobPc' = "wfi" /\ pc' = pc
    BY <1>7 DEF TakeStop
  <2>2. s \in Harts /\ stopMsg \subseteq Harts
    BY DEF TypeOK
  <2> QED BY <2>1, <2>2, CpuInjective DEF StopInv
<1>8. CASE HandlerWfi
  <2>1. jobPc = "wfi" /\ jobPc' = "link" /\ job' = job /\ pc' = pc /\ stopMsg' = stopMsg
    BY <1>8 DEF HandlerWfi, JobStep
  <2>2. PICK g \in Harts : Cpu(g) = job /\ pc[g] \in {"parked", "halted"}
    BY <1>8 DEF HandlerWfi, JobStep, InWfi
  <2>3. \A h \in Harts : job = Cpu(h) => pc[h] = "halted"
    BY <2>2, CpuInjective DEF StopInv
  <2> QED BY <2>1, <2>3 DEF StopInv
<1>9. CASE HandlerLink
  <2>1. jobPc = "link" /\ jobPc' = "sts" /\ job' = job /\ pc' = pc /\ stopMsg' = stopMsg
    BY <1>9 DEF HandlerLink, JobStep
  <2> QED BY <2>1 DEF StopInv
<1>10. CASE HandlerReset
  <2>1. /\ stopMsg' = stopMsg /\ job' = NoCpu /\ jobPc' = "idle"
        /\ \A h \in Harts : Cpu(h) # job => pc'[h] = pc[h]
        /\ stopMsg \subseteq Harts
    BY <1>10 DEF HandlerReset, TypeOK
  <2>2. \A h \in Harts : Cpu(h) # NoCpu
    BY CpuInjective
  <2> QED BY <2>1, <2>2 DEF StopInv
<1>11. ASSUME NEW c \in Harts, LinkFollows(c) PROVE StopInv'
  BY <1>11, StopUnmoved DEF LinkFollows, TypeOK
<1>12. CASE UNCHANGED vars
  BY <1>12, StopUnmoved DEF vars, TypeOK
<1> QED BY <1>1, <1>2, <1>3, <1>4, <1>5, <1>6, <1>7, <1>8, <1>9, <1>10, <1>11, <1>12
        DEF Next, Firmware, Supervisor, StopHandler

LEMMA StopInit == Init => StopInv
  BY CpuInjective DEF Init, StopInv, Stopping

\* Only the stop handler puts a CPU into reset.
LEMMA ResetByHandler ==
  ASSUME TypeOK, [Next]_vars, NEW c \in Harts, resetN[c], ~resetN'[c]
  PROVE  HandlerReset /\ c = job
<1> USE DEF powerVars, TypeOK
<1>1. ASSUME NEW h \in Harts, Starter(h) PROVE FALSE
  <2>1. CASE StartActivate(h)
    BY <2>1 DEF StartActivate
  <2>2. resetN' = resetN \/ StartActivate(h)
    BY <1>1 DEF Starter, StartAddr, StartOpaque, StartReady, StartTest, Await, SendBoot,
                StartReturn
  <2> QED BY <2>1, <2>2
<1>2. ASSUME NEW h \in Harts, ComeUp(h) PROVE FALSE
  BY <1>2 DEF ComeUp, ResetWait, WaitSetup, WaitStart, SlaveStarted, EnterAddr, EnterOpaque,
              EnterClear, LoadOnline, EnterOnline, EnterMret
<1>3. ASSUME NEW h \in Harts, GoDown(h) \/ TakeStop(h) PROVE FALSE
  BY <1>3 DEF GoDown, StopState, LoadOnline, StopOnline, StopSend, StopHalt, TakeStop
<1>4. ASSUME NEW h \in Harts, Supervisor(h) PROVE FALSE
  BY <1>4 DEF Supervisor, EcallStart, EcallStatus, EcallStop
<1>5. CASE HandlerWfi \/ HandlerLink
  BY <1>5 DEF HandlerWfi, HandlerLink, JobStep
<1>6. CASE HandlerReset
  BY <1>6 DEF HandlerReset
<1>7. ASSUME NEW d \in Harts, LinkFollows(d) PROVE FALSE
  BY <1>7 DEF LinkFollows
<1>8. ~UNCHANGED vars
  BY DEF vars
<1> QED BY <1>1, <1>2, <1>3, <1>4, <1>5, <1>6, <1>7, <1>8 DEF Next, Firmware, StopHandler

\* A CPU goes into reset only when its hart sleeps at the end of HART_STOP and
\* its bus link is down (cluster_control.c, mtrap.c:566-600).
THEOREM ResetsOnlySleepers == Spec => ResetOnlyAsleep
<1>1. ASSUME TypeOK, StopInv, [Next]_vars
      PROVE  \A h \in Harts :
               resetN[Cpu(h)] /\ ~resetN'[Cpu(h)] => pc[h] = "halted" /\ ~linkSts[Cpu(h)]
  <2> SUFFICES ASSUME NEW h \in Harts, resetN[Cpu(h)], ~resetN'[Cpu(h)]
               PROVE  pc[h] = "halted" /\ ~linkSts[Cpu(h)]
    OBVIOUS
  <2>1. HandlerReset /\ job = Cpu(h)
    BY <1>1, CpuInjective, ResetByHandler
  <2>2. jobPc = "sts" /\ ~linkSts[job]
    BY <2>1 DEF HandlerReset
  <2> QED BY <1>1, <2>1, <2>2 DEF StopInv
<1>2. TypeOK /\ StopInv /\ [Next]_vars =>
        [\A h \in Harts : resetN[Cpu(h)] /\ ~resetN'[Cpu(h)] =>
           pc[h] = "halted" /\ ~linkSts[Cpu(h)]]_vars
  BY <1>1
<1> QED BY <1>2, StopInit, StopStep, TypeCorrect, PTL DEF Spec, ResetOnlyAsleep

-----------------------------------------------------------------------------
orderlyVars == <<conf, resetN, online, copy, seen>>

\* A hart that moves without touching harts_online or entering reset.
LEMMA OrderlyMove ==
  ASSUME TypeOK, OrderlyInv, NEW h \in Harts, NEW to,
         pc' = [pc EXCEPT ![h] = to], UNCHANGED orderlyVars,
         pc[h] \in OnlinePcs <=> to \in OnlinePcs,
         to \notin {"joined", "left", "off"}, pc[h] # "off",
         to \in Leaving => pc[h] \in Leaving
  PROVE  OrderlyInv'
<1>1. \A g \in Harts : pc'[g] = IF g = h THEN to ELSE pc[g]
  BY DEF TypeOK
<1> USE DEF OrderlyInv, orderlyVars
<1>2. ResetIsOff'
  BY <1>1 DEF ResetIsOff
<1>3. conf.orderly => OnlineExact'
  BY <1>1 DEF OnlineExact, OnlinePcs
<1>4. conf.orderly => OneMoves'
  BY <1>1 DEF OneMoves
<1>5. conf.orderly => CopyIsNew'
  BY <1>1 DEF CopyIsNew
<1>6. conf.orderly => LeavingDie'
  BY <1>1 DEF LeavingDie
<1> QED BY <1>2, <1>3, <1>4, <1>5, <1>6

LEMMA OrderlyUnmoved ==
  ASSUME OrderlyInv, UNCHANGED <<pc, orderlyVars>> PROVE OrderlyInv'
  BY DEF OrderlyInv, ResetIsOff, OnlineExact, OneMoves, CopyIsNew, LeavingDie, orderlyVars

\* A call begins when no other hart is on its way.
LEMMA OrderlyCall ==
  ASSUME TypeOK, OrderlyInv, EntryInv, NEW h \in Harts, NEW t \in Harts,
         EcallStart(h, t) \/ (t = h /\ EcallStop(h))
  PROVE  OrderlyInv'
<1>1. /\ pc[h] = "S" /\ (conf.orderly => ~Busy)
      /\ \A g \in Harts : g # t => seen'[g] = seen[g]
      /\ UNCHANGED <<conf, resetN, online, copy>>
  BY DEF EcallStart, EcallStop, At, Goto, TypeOK, powerVars, histVars
<1>2. /\ \A g \in Harts : g # h => pc'[g] = pc[g]
      /\ pc'[h] = "addr" \/ (pc'[h] = "stop" /\ t = h /\ seen'[h] = "dying")
  <2>1. CASE EcallStart(h, t)
    BY <2>1 DEF EcallStart, Goto, TypeOK
  <2>2. CASE t = h /\ EcallStop(h)
    BY <2>2 DEF EcallStop, Goto, TypeOK
  <2> QED BY <2>1, <2>2
<1>3. conf.orderly => \A g \in Harts : seen[g] \notin Moving
  BY <1>1 DEF Busy, Moving
<1> USE DEF OrderlyInv
<1>4. ResetIsOff'
  BY <1>1, <1>2 DEF ResetIsOff
<1>5. conf.orderly => OnlineExact'
  BY <1>1, <1>2 DEF OnlineExact, StartPcs
<1>6. conf.orderly => OneMoves'
  BY <1>1, <1>3 DEF OneMoves
<1>7. conf.orderly => CopyIsNew'
  BY <1>1, <1>2 DEF CopyIsNew
<1>8. conf.orderly => LeavingDie'
  <2>1. conf.orderly => \A g \in Harts : pc[g] \notin Leaving
    BY <1>3 DEF LeavingDie, Moving
  <2> QED BY <1>2, <2>1 DEF LeavingDie, Leaving, Stopping
<1> QED BY <1>1, <1>4, <1>5, <1>6, <1>7, <1>8

\* The second half of harts_online |= ... and &= ~...: nobody has changed the
\* mask since the first.
LEMMA OrderlyStore ==
  ASSUME TypeOK, OrderlyInv, EntryInv, NEW h \in Harts, EnterOnline(h) \/ StopOnline(h)
  PROVE  OrderlyInv'
<1>1. /\ \A g \in Harts : g # h => pc'[g] = pc[g] /\ copy'[g] = copy[g]
      /\ UNCHANGED <<conf, resetN, seen>>
      /\ \/ pc[h] = "joined" /\ pc'[h] = "mret" /\ online' = copy[h] \cup {h}
         \/ pc[h] = "left" /\ pc'[h] = "send" /\ online' = copy[h] \ {h}
      /\ conf.orderly => copy[h] = online
  BY DEF EnterOnline, StopOnline, Goto, TypeOK, powerVars, histVars, OrderlyInv, CopyIsNew
<1>2. conf.orderly => \A g \in Harts : pc[g] \in {"joined", "left"} => g = h
  BY <1>1 DEF OrderlyInv, OneMoves, Moving, LeavingDie, Leaving, EntryInv, InsideAsked, Inside
<1> USE DEF OrderlyInv
<1>3. ResetIsOff'
  BY <1>1 DEF ResetIsOff
<1>4. conf.orderly => OnlineExact'
  BY <1>1 DEF OnlineExact, StartPcs
<1>5. conf.orderly => OneMoves'
  BY <1>1 DEF OneMoves
<1>6. conf.orderly => CopyIsNew'
  BY <1>1, <1>2 DEF CopyIsNew
<1>7. conf.orderly => LeavingDie'
  BY <1>1 DEF LeavingDie, Leaving, Stopping
<1> QED BY <1>1, <1>3, <1>4, <1>5, <1>6, <1>7

\* The first half.
LEMMA OrderlyLoad ==
  ASSUME TypeOK, OrderlyInv, NEW h \in Harts,
         LoadOnline(h, "join", "joined") \/ LoadOnline(h, "leave", "left")
  PROVE  OrderlyInv'
<1>1. /\ \A g \in Harts : g # h => pc'[g] = pc[g] /\ copy'[g] = copy[g]
      /\ UNCHANGED <<conf, resetN, seen, online>>
      /\ \/ pc[h] = "join" /\ pc'[h] = "joined"
         \/ pc[h] = "leave" /\ pc'[h] = "left"
      /\ copy'[h] = online
  BY DEF LoadOnline, Goto, TypeOK, powerVars, histVars
<1> USE DEF OrderlyInv
<1>2. ResetIsOff'
  BY <1>1 DEF ResetIsOff
<1>3. conf.orderly => OnlineExact'
  BY <1>1 DEF OnlineExact, StartPcs
<1>4. conf.orderly => OneMoves' /\ LeavingDie'
  BY <1>1 DEF OneMoves, LeavingDie, Leaving, Stopping
<1>5. conf.orderly => CopyIsNew'
  BY <1>1 DEF CopyIsNew
<1> QED BY <1>1, <1>2, <1>3, <1>4, <1>5

\* A step of a system whose master is CPU 0.
LEMMA OrderlyStep ==
  ASSUME MasterHart = 0, TypeOK, EntryInv, StopInv, OrderlyInv, [Next]_vars
  PROVE  OrderlyInv'
<1>0. \A h \in Harts : Cpu(h) = h
  BY HartsAssumption DEF Cpu, Harts
<1> USE DEF Goto, At, powerVars, histVars, orderlyVars, OnlinePcs, StartPcs, Leaving, Stopping
<1>1. ASSUME NEW a \in Harts, NEW t \in Harts, EcallStart(a, t) PROVE OrderlyInv'
  BY <1>1, OrderlyCall
<1>2. ASSUME NEW h \in Harts, EcallStop(h) PROVE OrderlyInv'
  BY <1>2, OrderlyCall
<1>3. ASSUME NEW a \in Harts, NEW t \in Harts, EcallStatus(a, t) PROVE OrderlyInv'
  <2>1. /\ conf.orderly => pc[t] = "off"
        /\ \A g \in Harts : seen'[g] = IF g = t THEN "down" ELSE seen[g]
        /\ UNCHANGED <<pc, conf, resetN, online, copy>>
    BY <1>3 DEF EcallStatus, TypeOK, OrderlyInv, ResetIsOff
  <2> USE <2>1 DEF OrderlyInv
  <2>2. ResetIsOff'
    BY DEF ResetIsOff
  <2>3. conf.orderly => OnlineExact' /\ CopyIsNew'
    BY DEF OnlineExact, CopyIsNew
  <2>4. conf.orderly => OneMoves'
    BY DEF OneMoves, Moving
  <2>5. conf.orderly => LeavingDie'
    BY DEF LeavingDie
  <2> QED BY <2>2, <2>3, <2>4, <2>5
<1>4. ASSUME NEW h \in Harts, Starter(h) PROVE OrderlyInv'
  <2>1. CASE StartAddr(h)
    BY <2>1, OrderlyMove DEF StartAddr
  <2>2. CASE StartOpaque(h)
    BY <2>2, OrderlyMove DEF StartOpaque
  <2>3. CASE StartReady(h)
    <3>1. PICK to \in {"test", "S"} : pc' = [pc EXCEPT ![h] = to]
      BY <2>3 DEF StartReady
    <3> QED BY <2>3, <3>1, OrderlyMove DEF StartReady
  <2>4. CASE StartTest(h)
    <3>1. PICK to \in {"activate", "S"} : pc' = [pc EXCEPT ![h] = to]
      BY <2>4 DEF StartTest
    <3> QED BY <2>4, <3>1, OrderlyMove DEF StartTest
  <2>5. CASE StartActivate(h)
    <3>1. /\ pc[h] = "activate"
          /\ \A g \in Harts :
               pc'[g] = IF g = h THEN "linkwait"
                        ELSE IF g = target[h] /\ pc[g] = "off" THEN "reset" ELSE pc[g]
          /\ \A g \in Harts : resetN'[g] = IF g = target[h] THEN TRUE ELSE resetN[g]
          /\ UNCHANGED <<conf, online, copy, seen>>
      BY <2>5, <1>0 DEF StartActivate, TypeOK
    <3> USE DEF OrderlyInv
    <3>2. ResetIsOff'
      BY <3>1 DEF ResetIsOff
    <3>3. conf.orderly => OnlineExact'
      BY <3>1 DEF OnlineExact
    <3>4. conf.orderly => OneMoves'
      BY <3>1 DEF OneMoves
    <3>5. conf.orderly => CopyIsNew'
      BY <3>1 DEF CopyIsNew
    <3>6. conf.orderly => LeavingDie'
      BY <3>1 DEF LeavingDie
    <3> QED BY <3>1, <3>2, <3>3, <3>4, <3>5, <3>6
  <2>6. ASSUME NEW from \in StartPcs, NEW condition, NEW to \in StartPcs,
               Await(h, from, condition, to)
        PROVE  OrderlyInv'
    BY <2>6, OrderlyMove DEF Await
  <2>7. ASSUME NEW from \in StartPcs, NEW c, NEW to \in StartPcs, SendBoot(h, from, c, to)
        PROVE  OrderlyInv'
    BY <2>7, OrderlyMove DEF SendBoot
  <2>8. CASE StartReturn(h)
    BY <2>8, OrderlyMove DEF StartReturn
  <2> QED BY <1>4, <2>1, <2>2, <2>3, <2>4, <2>5, <2>6, <2>7, <2>8 DEF Starter
<1>5. ASSUME NEW h \in Harts, ComeUp(h) PROVE OrderlyInv'
  <2>1. CASE ResetWait(h)
    BY <2>1, OrderlyMove DEF ResetWait
  <2>2. CASE WaitSetup(h) /\ word[h] = "SETUP"
    BY <2>2, OrderlyMove DEF WaitSetup
  <2>3. CASE WaitSetup(h) /\ word[h] # "SETUP"
    BY <2>3, OrderlyUnmoved DEF WaitSetup
  <2>4. CASE WaitStart(h)
    <3>1. PICK to \in {"slave", "pending"} : pc' = [pc EXCEPT ![h] = to]
      BY <2>4 DEF WaitStart
    <3> QED BY <2>4, <3>1, OrderlyMove DEF WaitStart
  <2>5. CASE SlaveStarted(h)
    BY <2>5, OrderlyMove DEF SlaveStarted
  <2>6. CASE EnterAddr(h)
    BY <2>6, OrderlyMove DEF EnterAddr
  <2>7. CASE EnterOpaque(h)
    BY <2>7, OrderlyMove DEF EnterOpaque
  <2>8. CASE EnterClear(h)
    BY <2>8, OrderlyMove DEF EnterClear
  <2>9. CASE LoadOnline(h, "join", "joined") \/ EnterOnline(h)
    BY <2>9, OrderlyLoad, OrderlyStore
  <2>10. CASE EnterMret(h)
    <3>1. /\ pc[h] = "mret"
          /\ \A g \in Harts : pc'[g] = IF g = h THEN "S" ELSE pc[g]
          /\ \A g \in Harts : seen'[g] = IF g = h THEN "up" ELSE seen[g]
          /\ UNCHANGED <<conf, resetN, online, copy>>
      BY <2>10 DEF EnterMret, TypeOK
    <3> USE DEF OrderlyInv
    <3>2. ResetIsOff'
      BY <3>1 DEF ResetIsOff
    <3>3. conf.orderly => OnlineExact'
      BY <3>1 DEF OnlineExact
    <3>4. conf.orderly => OneMoves'
      BY <3>1 DEF OneMoves, Moving
    <3>5. conf.orderly => CopyIsNew'
      BY <3>1 DEF CopyIsNew
    <3>6. conf.orderly => LeavingDie'
      BY <3>1 DEF LeavingDie
    <3> QED BY <3>1, <3>2, <3>3, <3>4, <3>5, <3>6
  <2> QED BY <1>5, <2>1, <2>2, <2>3, <2>4, <2>5, <2>6, <2>7, <2>8, <2>9, <2>10 DEF ComeUp
<1>6. ASSUME NEW h \in Harts, GoDown(h) PROVE OrderlyInv'
  <2>1. CASE StopState(h)
    BY <2>1, OrderlyMove DEF StopState
  <2>2. CASE LoadOnline(h, "leave", "left") \/ StopOnline(h)
    BY <2>2, OrderlyLoad, OrderlyStore
  <2>3. CASE StopSend(h)
    BY <2>3, OrderlyMove DEF StopSend
  <2>4. CASE StopHalt(h)
    BY <2>4, OrderlyMove DEF StopHalt
  <2> QED BY <1>6, <2>1, <2>2, <2>3, <2>4 DEF GoDown
<1>7. ASSUME NEW h \in Harts, TakeStop(h) PROVE OrderlyInv'
  BY <1>7, OrderlyUnmoved DEF TakeStop
<1>8. CASE HandlerWfi \/ HandlerLink
  BY <1>8, OrderlyUnmoved DEF HandlerWfi, HandlerLink, JobStep
<1>9. CASE HandlerReset
  <2>1. jobPc = "sts" /\ job \in Harts /\ pc[job] = "halted"
    BY <1>9, <1>0 DEF HandlerReset, StopInv, TypeOK
  <2>2. /\ \A g \in Harts : pc'[g] = IF g = job THEN "off" ELSE pc[g]
        /\ \A g \in Harts : resetN'[g] = IF g = job THEN FALSE ELSE resetN[g]
        /\ UNCHANGED <<conf, online, copy, seen>>
    BY <1>9, <1>0 DEF HandlerReset, TypeOK
  <2> USE DEF OrderlyInv
  <2>3. ResetIsOff'
    BY <2>1, <2>2 DEF ResetIsOff
  <2>4. conf.orderly => OnlineExact'
    BY <2>1, <2>2 DEF OnlineExact
  <2>5. conf.orderly => OneMoves'
    BY <2>2 DEF OneMoves
  <2>6. conf.orderly => CopyIsNew'
    BY <2>2 DEF CopyIsNew
  <2>7. conf.orderly => LeavingDie'
    BY <2>2 DEF LeavingDie
  <2> QED BY <2>2, <2>3, <2>4, <2>5, <2>6, <2>7
<1>10. ASSUME NEW c \in Harts, LinkFollows(c) PROVE OrderlyInv'
  BY <1>10, OrderlyUnmoved DEF LinkFollows
<1>11. CASE UNCHANGED vars
  BY <1>11, OrderlyUnmoved DEF vars
<1> QED BY <1>1, <1>2, <1>3, <1>4, <1>5, <1>6, <1>7, <1>8, <1>9, <1>10, <1>11
        DEF Next, Firmware, Supervisor, StopHandler

\* On a system whose master is CPU 0, an orderly supervisor sees harts_online
\* ("mask for linux ready harts", mtrap.c:197) exact at every moment.  Another
\* master is left out: there HART_STATUS and the stop handler mean different
\* CPUs by one number, and an orderly supervisor waits for the wrong one.
THEOREM OnlineIsExact ==
  ASSUME MasterHart = 0 PROVE Spec => []OrderlyOnlineExact
<1>1. Init => OrderlyInv
  <2> SUFFICES ASSUME Init PROVE OrderlyInv
    OBVIOUS
  <2>1. ResetIsOff /\ OneMoves
    BY DEF Init, ResetIsOff, OneMoves, Moving
  <2>2. OnlineExact
    BY DEF Init, OnlineExact, StartPcs
  <2>3. CopyIsNew /\ LeavingDie
    BY DEF Init, CopyIsNew, LeavingDie, Leaving, Stopping
  <2> QED BY <2>1, <2>2, <2>3 DEF OrderlyInv
<1>2. TypeOK /\ EntryInv /\ StopInv /\ OrderlyInv /\ [Next]_vars => OrderlyInv'
  BY OrderlyStep
<1>3. OrderlyInv => OrderlyOnlineExact
  BY DEF OrderlyInv, OrderlyOnlineExact
<1> QED BY <1>1, <1>2, <1>3, EntryInit, EntryStep, StopInit, StopStep, TypeCorrect, PTL DEF Spec

=============================================================================
