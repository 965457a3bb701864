-------------------------------- MODULE Hsm --------------------------------
(***************************************************************************)
(* Hart state management: the SBI calls HART_START, HART_STOP and          *)
(* HART_STATUS (mtrap.c), the way a secondary hart comes up from reset and *)
(* enters the supervisor (mentry.S, minit.c), and the way one is switched  *)
(* off through the cluster's control registers (mentry.S,                  *)
(* cluster_control.c).                                                     *)
(*                                                                         *)
(* Harts are logical numbers.  The cluster's registers are indexed by the  *)
(* CPU number (mhartid), which differs when the master is not CPU 0; the   *)
(* call's argument regs[10] is used as either.  The state is the one after *)
(* a cold boot: the master in the supervisor, the others in                *)
(* enter_entry_point.                                                      *)
(*                                                                         *)
(* A step is one access to memory or to a register that other harts see;   *)
(* the read-modify-writes of harts_online are two, those of a control      *)
(* register one.  A definition named X_Fault is a faulty variant of X,     *)
(* used to see that the properties below tell the two apart.               *)
(***************************************************************************)
EXTENDS Naturals, FiniteSets

CONSTANTS
  NumHarts,     \* num_harts
  MasterHart,   \* PLF_MASTER_HART: the CPU number of the master
  MaxStarts,    \* bound: HART_START calls made
  Settings      \* the builds and supervisors looked at: hotplug, orderly

Harts  == 0 .. NumHarts - 1
Slaves == Harts \ {0}

ASSUME HartsAssumption == NumHarts \in Nat \ {0} /\ MasterHart \in Harts
ASSUME StartsAssumption == MaxStarts \in Nat
ASSUME SettingsAssumption == Settings \subseteq [hotplug : BOOLEAN, orderly : BOOLEAN]

\* init_smp: the master is logical hart 0, the others follow in slot order.
Cpu(h) == IF h = 0 THEN MasterHart ELSE IF h <= MasterHart THEN h - 1 ELSE h

\* Requests are numbered; 0 is a cleared table entry.  NoCpu: no stop handled.
Requests == 1 .. MaxStarts
NoCpu    == NumHarts

VARIABLES
  conf,     \* PLF_HSM_HOTPLUG of this build, and does its supervisor bring up or
            \* down one hart at a time and wait until a stopped one is in reset
  pc,       \* where each hart is; "S" is the supervisor, "off" is in reset
  state,    \* hls->state
  resetN,   \* RESET_N of each CPU
  linkup,   \* LINKUP: the CPU's bus link as asked for
  linkSts,  \* LINK_STS: the link as it is
  entry,    \* hsm_start_arr: start_addr and opaque of a request, initialized
  online,   \* harts_online
  copy,     \* the copy of harts_online in a register of each hart
  word,     \* the boot command in each hart's mailbox
  stopMsg,  \* the harts whose stop message has not been received
  job,      \* the CPU ipi_handler_hsm_stop_callback is switching off
  jobPc,    \* and how far it is
  target,   \* regs[10] of the HART_START a hart is in
  seen,     \* the supervisor's view of each hart
  asked,    \* history: the last request for each hart
  entered,  \* history: start_addr and opaque each hart entered with
  made      \* history: HART_START calls made

powerVars == <<resetN, linkup, linkSts>>
stopVars  == <<stopMsg, job, jobPc>>
histVars  == <<conf, asked, entered, made>>
vars == <<pc, state, powerVars, entry, online, copy, word, stopVars, target,
          seen, histVars>>

Goto(h, at)  == pc' = [pc EXCEPT ![h] = at]

\* The hart the stop messages go to: hsm_send_ipi_stop takes the master's CPU
\* number for its logical one.
StopReceiver == MasterHart

\* A hart executes its own code while it is not in the stop handler.
At(h, where) == pc[h] = where /\ (h = StopReceiver => job = NoCpu)

\* WFI of a CPU's control register, outside the supervisor.
InWfi(c) == \E h \in Harts : Cpu(h) = c /\ pc[h] \in {"parked", "halted"}

Init ==
  /\ conf \in Settings
  /\ pc      = [h \in Harts |-> IF h = 0 THEN "S" ELSE "enter"]
  /\ state   = [h \in Harts |-> "START"]
  /\ resetN  = [c \in Harts |-> TRUE]
  /\ linkup  = [c \in Harts |-> TRUE]
  /\ linkSts = [c \in Harts |-> TRUE]
  /\ entry   = [h \in Harts |-> [addr |-> 0, opaque |-> 0, initialized |-> FALSE]]
  /\ online  = {0}
  /\ copy    = [h \in Harts |-> {}]
  /\ word    = [h \in Harts |-> "none"]
  /\ stopMsg = {}
  /\ job     = NoCpu
  /\ jobPc   = "idle"
  /\ target  = [h \in Harts |-> 0]
  /\ seen    = [h \in Harts |-> IF h = 0 THEN "up" ELSE "down"]
  /\ asked   = [h \in Harts |-> 0]
  /\ entered = [h \in Harts |-> <<0, 0>>]
  /\ made    = 0

-----------------------------------------------------------------------------
(***************************************************************************)
(* The supervisor's decisions.                                             *)
(***************************************************************************)

\* Is another hart being brought up or down?
Busy ==
  \/ \E h \in Harts : seen[h] \in {"starting", "dying"}
  \/ \E h \in Harts : target[h] # 0

\* HART_START of hart t by hart a: t is believed to be stopped.
EcallStart(a, t) ==
  /\ At(a, "S")
  /\ t # 0
  /\ seen[t] = "down"
  /\ conf.orderly => ~Busy
  /\ made < MaxStarts
  /\ made'   = made + 1
  /\ asked'  = [asked EXCEPT ![t] = made + 1]
  /\ seen'   = [seen EXCEPT ![t] = "starting"]
  /\ target' = [target EXCEPT ![a] = t]
  /\ Goto(a, "addr")
  /\ UNCHANGED <<state, powerVars, entry, online, copy, word, stopVars, conf, entered>>

\* HART_STOP, by the hart that stops; the master is refused.
EcallStop(h) ==
  /\ conf.hotplug
  /\ At(h, "S")
  /\ Cpu(h) # MasterHart
  /\ seen[h] = "up"
  /\ conf.orderly => ~Busy
  /\ seen' = [seen EXCEPT ![h] = "dying"]
  /\ Goto(h, "stop")
  /\ UNCHANGED <<state, powerVars, entry, online, copy, word, stopVars, target, histVars>>

\* HART_STATUS of hart t: when it answers "stopped" the supervisor knows.
Status(t) == IF resetN[t] THEN state[t] ELSE "STOP"
EcallStatus(a, t) ==
  /\ conf.hotplug
  /\ At(a, "S")
  /\ seen[t] = "dying"
  /\ Status(t) = "STOP"
  /\ conf.orderly => ~resetN[t]
  /\ seen' = [seen EXCEPT ![t] = "down"]
  /\ UNCHANGED <<pc, state, powerVars, entry, online, copy, word, stopVars, target, histVars>>

-----------------------------------------------------------------------------
(***************************************************************************)
(* HART_START: the table entry, then the hart if it is in reset.           *)
(***************************************************************************)

StartAddr(a) ==
  /\ At(a, "addr")
  /\ entry' = [entry EXCEPT ![target[a]].addr = asked[target[a]]]
  /\ Goto(a, "opaque")
  /\ UNCHANGED <<state, powerVars, online, copy, word, stopVars, target, seen, histVars>>

StartOpaque_ReadyFirst(a) ==
  /\ At(a, "opaque")
  /\ entry' = [entry EXCEPT ![target[a]].initialized = TRUE]
  /\ Goto(a, "ready")
  /\ UNCHANGED <<state, powerVars, online, copy, word, stopVars, target, seen, histVars>>
StartOpaque(a) ==
  /\ At(a, "opaque")
  /\ entry' = [entry EXCEPT ![target[a]].opaque = asked[target[a]]]
  /\ Goto(a, "ready")
  /\ UNCHANGED <<state, powerVars, online, copy, word, stopVars, target, seen, histVars>>

StartReady(a) ==
  /\ At(a, "ready")
  /\ entry' = [entry EXCEPT ![target[a]].initialized = TRUE]
  /\ IF conf.hotplug
     THEN Goto(a, "test") /\ UNCHANGED target
     ELSE Goto(a, "S") /\ target' = [target EXCEPT ![a] = 0]
  /\ UNCHANGED <<state, powerVars, online, copy, word, stopVars, seen, histVars>>

\* The whole sequence only if the CPU is in reset.
StartTest_Skips(a) ==
  /\ At(a, "test")
  /\ Goto(a, "S") /\ target' = [target EXCEPT ![a] = 0]
  /\ UNCHANGED <<state, powerVars, entry, online, copy, word, stopVars, seen, histVars>>
StartTest(a) ==
  /\ At(a, "test")
  /\ IF resetN[target[a]]
     THEN Goto(a, "S") /\ target' = [target EXCEPT ![a] = 0]
     ELSE Goto(a, "activate") /\ UNCHANGED target
  /\ UNCHANGED <<state, powerVars, entry, online, copy, word, stopVars, seen, histVars>>

\* plf_ext_cpu_activate: the CPU leaves reset at _start.
StartActivate(a) ==
  /\ At(a, "activate")
  /\ resetN' = [resetN EXCEPT ![target[a]] = TRUE]
  /\ linkup' = [linkup EXCEPT ![target[a]] = TRUE]
  /\ pc' = [h \in Harts |-> IF h = a THEN "linkwait"
                            ELSE IF Cpu(h) = target[a] /\ pc[h] = "off" THEN "reset"
                            ELSE pc[h]]
  /\ UNCHANGED <<state, linkSts, entry, online, copy, word, stopVars, target, seen, histVars>>

\* A wait loop of the starter: it reads until the condition holds.
Await(a, from, condition, to) ==
  /\ At(a, from)
  /\ condition
  /\ Goto(a, to)
  /\ UNCHANGED <<state, powerVars, entry, online, copy, word, stopVars, target, seen, histVars>>

\* ipi_send_data to the starting hart's mailbox.
SendBoot(a, from, c, to) ==
  /\ At(a, from)
  /\ word' = [word EXCEPT ![target[a]] = c]
  /\ Goto(a, to)
  /\ UNCHANGED <<state, powerVars, entry, online, copy, stopVars, target, seen, histVars>>

StartReturn(a) ==
  /\ At(a, "online")
  /\ target[a] \in online
  /\ Goto(a, "S")
  /\ target' = [target EXCEPT ![a] = 0]
  /\ UNCHANGED <<state, powerVars, entry, online, copy, word, stopVars, seen, histVars>>

Starter(a) ==
  \/ StartAddr(a) \/ StartOpaque(a) \/ StartReady(a) \/ StartTest(a)
  \/ StartActivate(a)
  \/ Await(a, "linkwait", linkSts[target[a]], "wfiwait")
  \/ Await(a, "wfiwait", InWfi(target[a]), "setup")
  \/ SendBoot(a, "setup", "SETUP", "pendwait")
  \/ Await(a, "pendwait", state[target[a]] = "START_PENDING", "start")
  \/ SendBoot(a, "start", "START", "startwait")
  \/ Await(a, "startwait", state[target[a]] = "START", "online")
  \/ StartReturn(a)

-----------------------------------------------------------------------------
(***************************************************************************)
(* A secondary hart comes up.                                              *)
(***************************************************************************)

\* secondary_reset_wait: clear the mailbox, enable IPIs, sleep.
ResetWait(h) ==
  /\ pc[h] = "reset"
  /\ word' = [word EXCEPT ![h] = "none"]
  /\ Goto(h, "parked")
  /\ UNCHANGED <<state, powerVars, entry, online, copy, stopVars, target, seen, histVars>>

\* The first IPI traps to secondary_reset, which waits for SETUP; the SETUP
\* hart runs hart_fill_hls and waits for START.  A word of another kind is
\* read and dropped.
WaitSetup(h) ==
  /\ pc[h] = "parked"
  /\ word[h] # "none"
  /\ word'  = [word EXCEPT ![h] = "none"]
  /\ IF word[h] = "SETUP"
     THEN Goto(h, "pending") /\ state' = [state EXCEPT ![h] = "START_PENDING"]
     ELSE UNCHANGED <<pc, state>>
  /\ UNCHANGED <<powerVars, entry, online, copy, stopVars, target, seen, histVars>>

WaitStart(h) ==
  /\ pc[h] = "pending"
  /\ word[h] # "none"
  /\ word' = [word EXCEPT ![h] = "none"]
  /\ Goto(h, IF word[h] = "START" THEN "slave" ELSE "pending")
  /\ UNCHANGED <<state, powerVars, entry, online, copy, stopVars, target, seen, histVars>>

SlaveStarted_NotTold(h) ==
  /\ pc[h] = "slave"
  /\ Goto(h, "enter")
  /\ UNCHANGED <<state, powerVars, entry, online, copy, word, stopVars, target, seen, histVars>>
SlaveStarted(h) ==
  /\ pc[h] = "slave"
  /\ state' = [state EXCEPT ![h] = "START"]
  /\ Goto(h, "enter")
  /\ UNCHANGED <<powerVars, entry, online, copy, word, stopVars, target, seen, histVars>>

\* enter_entry_point of a secondary.
EnterAddr(h) ==
  /\ pc[h] = "enter"
  /\ entry[h].initialized
  /\ entered' = [entered EXCEPT ![h][1] = entry[h].addr]
  /\ Goto(h, "args")
  /\ UNCHANGED <<state, powerVars, entry, online, copy, word, stopVars, target, seen, conf, asked, made>>

EnterOpaque(h) ==
  /\ pc[h] = "args"
  /\ entered' = [entered EXCEPT ![h][2] = entry[h].opaque]
  /\ Goto(h, "clear")
  /\ UNCHANGED <<state, powerVars, entry, online, copy, word, stopVars, target, seen, conf, asked, made>>

EnterClear(h) ==
  /\ pc[h] = "clear"
  /\ entry' = [entry EXCEPT ![h] = [addr |-> 0, opaque |-> 0, initialized |-> FALSE]]
  /\ Goto(h, "join")
  /\ UNCHANGED <<state, powerVars, online, copy, word, stopVars, target, seen, histVars>>

\* harts_online |= ... and harts_online &= ~...: a load, then a store.
LoadOnline(h, from, to) ==
  /\ pc[h] = from
  /\ copy' = [copy EXCEPT ![h] = online]
  /\ Goto(h, to)
  /\ UNCHANGED <<state, powerVars, entry, online, word, stopVars, target, seen, histVars>>

EnterOnline(h) ==
  /\ pc[h] = "joined"
  /\ online' = copy[h] \cup {h}
  /\ copy'   = [copy EXCEPT ![h] = {}]
  /\ Goto(h, "mret")
  /\ UNCHANGED <<state, powerVars, entry, word, stopVars, target, seen, histVars>>

\* mret: the supervisor's first instruction on this hart.
EnterMret(h) ==
  /\ pc[h] = "mret"
  /\ seen' = [seen EXCEPT ![h] = "up"]
  /\ Goto(h, "S")
  /\ UNCHANGED <<state, powerVars, entry, online, copy, word, stopVars, target, histVars>>

ComeUp(h) ==
  \/ ResetWait(h) \/ WaitSetup(h) \/ WaitStart(h) \/ SlaveStarted(h)
  \/ EnterAddr(h) \/ EnterOpaque(h) \/ EnterClear(h)
  \/ LoadOnline(h, "join", "joined") \/ EnterOnline(h) \/ EnterMret(h)

-----------------------------------------------------------------------------
(***************************************************************************)
(* A hart goes down.                                                       *)
(***************************************************************************)

StopState(h) ==
  /\ pc[h] = "stop"
  /\ state' = [state EXCEPT ![h] = "STOP"]
  /\ Goto(h, "leave")
  /\ UNCHANGED <<powerVars, entry, online, copy, word, stopVars, target, seen, histVars>>

StopOnline_Kept(h) ==
  /\ pc[h] = "left"
  /\ online' = copy[h]
  /\ copy'   = [copy EXCEPT ![h] = {}]
  /\ Goto(h, "send")
  /\ UNCHANGED <<state, powerVars, entry, word, stopVars, target, seen, histVars>>
StopOnline(h) ==
  /\ pc[h] = "left"
  /\ online' = copy[h] \ {h}
  /\ copy'   = [copy EXCEPT ![h] = {}]
  /\ Goto(h, "send")
  /\ UNCHANGED <<state, powerVars, entry, word, stopVars, target, seen, histVars>>

\* hsm_send_ipi_stop; sent to itself, the handler finds its own CPU and
\* does nothing.
StopSend_Lost(h) ==
  /\ pc[h] = "send"
  /\ Goto(h, "prepare")
  /\ UNCHANGED <<state, powerVars, entry, online, copy, word, stopVars, target, seen, histVars>>
StopSend(h) ==
  /\ pc[h] = "send"
  /\ stopMsg' = IF h = StopReceiver THEN stopMsg ELSE stopMsg \cup {h}
  /\ Goto(h, "prepare")
  /\ UNCHANGED <<state, powerVars, entry, online, copy, word, job, jobPc, target, seen, histVars>>

\* plf_local_cpu_deactivation_prepare: interrupts masked, caches off, wfi.
StopHalt(h) ==
  /\ pc[h] = "prepare"
  /\ Goto(h, "halted")
  /\ UNCHANGED <<state, powerVars, entry, online, copy, word, stopVars, target, seen, histVars>>

GoDown(h) ==
  \/ StopState(h) \/ LoadOnline(h, "leave", "left") \/ StopOnline(h)
  \/ StopSend(h) \/ StopHalt(h)

\* The receiver's interrupt: the handler gets the sender's CPU number.
TakeStop(h) ==
  /\ At(h, "S")
  /\ h = StopReceiver
  /\ \E s \in stopMsg :
       /\ stopMsg' = stopMsg \ {s}
       /\ job'     = Cpu(s)
       /\ jobPc'   = "wfi"
  /\ UNCHANGED <<pc, state, powerVars, entry, online, copy, word, target, seen, histVars>>

JobStep(from, condition, to) ==
  /\ jobPc = from
  /\ condition
  /\ jobPc' = to
  /\ UNCHANGED <<pc, state, entry, online, copy, word, stopMsg, target, seen, histVars>>

\* The CPU sleeps and its activity has ended.
HandlerWfi_NotAwaited == JobStep("wfi", TRUE, "link") /\ UNCHANGED <<powerVars, job>>
HandlerWfi == JobStep("wfi", InWfi(job), "link") /\ UNCHANGED <<powerVars, job>>

HandlerLink ==
  /\ JobStep("link", TRUE, "sts")
  /\ linkup' = [linkup EXCEPT ![job] = FALSE]
  /\ UNCHANGED <<resetN, linkSts, job>>

HandlerReset ==
  /\ jobPc = "sts"
  /\ ~linkSts[job]
  /\ resetN' = [resetN EXCEPT ![job] = FALSE]
  /\ pc'     = [h \in Harts |-> IF Cpu(h) = job THEN "off" ELSE pc[h]]
  /\ job'    = NoCpu
  /\ jobPc'  = "idle"
  /\ UNCHANGED <<state, linkup, linkSts, entry, online, copy, word, stopMsg, target, seen, histVars>>

StopHandler == HandlerWfi \/ HandlerLink \/ HandlerReset

\* The interconnect brings a link up or down some time after it was asked to.
LinkFollows(c) ==
  /\ linkSts[c] # linkup[c]
  /\ linkSts' = [linkSts EXCEPT ![c] = linkup[c]]
  /\ UNCHANGED <<pc, state, resetN, linkup, entry, online, copy, word, stopVars, target, seen, histVars>>

-----------------------------------------------------------------------------
Firmware(h) == Starter(h) \/ ComeUp(h) \/ GoDown(h) \/ TakeStop(h)

Supervisor(a) ==
  \/ \E t \in Harts : EcallStart(a, t) \/ EcallStatus(a, t)
  \/ EcallStop(a)

Next ==
  \/ \E h \in Harts : Firmware(h) \/ Supervisor(h)
  \/ StopHandler
  \/ \E c \in Harts : LinkFollows(c)

\* Harts and the interconnect run on their own; the supervisor need not call.
Spec ==
  /\ Init
  /\ [][Next]_vars
  /\ \A h \in Harts : WF_vars(Firmware(h)) /\ WF_vars(LinkFollows(h))
  /\ WF_vars(StopHandler)

-----------------------------------------------------------------------------
StartPcs == {"addr", "opaque", "ready", "test", "activate", "linkwait",
             "wfiwait", "setup", "pendwait", "start", "startwait", "online"}
UpPcs    == {"reset", "parked", "pending", "slave", "enter", "args", "clear",
             "join", "joined", "mret"}
DownPcs  == {"stop", "leave", "left", "send", "prepare", "halted", "off"}

\* The type of the state.
TypeOK ==
  /\ conf    \in Settings
  /\ pc      \in [Harts -> {"S"} \cup StartPcs \cup UpPcs \cup DownPcs]
  /\ state   \in [Harts -> {"START", "STOP", "START_PENDING"}]
  /\ resetN  \in [Harts -> BOOLEAN]
  /\ linkup  \in [Harts -> BOOLEAN]
  /\ linkSts \in [Harts -> BOOLEAN]
  /\ entry   \in [Harts -> [addr : Requests \cup {0}, opaque : Requests \cup {0},
                            initialized : BOOLEAN]]
  /\ online  \in SUBSET Harts
  /\ copy    \in [Harts -> SUBSET Harts]
  /\ word    \in [Harts -> {"none", "SETUP", "START"}]
  /\ stopMsg \in SUBSET Harts
  /\ job     \in Harts \cup {NoCpu}
  /\ jobPc   \in {"idle", "wfi", "link", "sts"}
  /\ target  \in [Harts -> Harts]
  /\ seen    \in [Harts -> {"up", "down", "starting", "dying"}]
  /\ asked   \in [Harts -> Requests \cup {0}]
  /\ entered \in [Harts -> (Requests \cup {0}) \X (Requests \cup {0})]
  /\ made    \in 0 .. MaxStarts

\* "mask for linux ready harts" (mtrap.c:197): a hart is in harts_online from
\* just before it enters the supervisor until it stops, whatever the others
\* add and remove; IPIs and remote fences reach only the harts in it.
OnlineExact ==
  \A h \in Harts :
    h \in online <=> pc[h] \in {"S", "mret", "stop", "leave", "left"} \cup StartPcs

\* It is, when one hart at a time changes it.
OrderlyOnlineExact == conf.orderly => OnlineExact

\* A hart enters the supervisor with the start address and the argument of one
\* request, the last one made for it: the two table fields are complete before
\* initialized is set, and are not overwritten or cleared in between.
EntersAsAsked ==
  \A h \in Slaves :
    pc[h] \in {"clear", "join", "joined", "mret", "S"} => entered[h] = <<asked[h], asked[h]>>

\* A CPU is put into reset only when it sleeps at the end of its HART_STOP and
\* its bus link is down, never while it runs or is about to be started.
ResetOnlyAsleep ==
  [][ \A h \in Harts :
        resetN[Cpu(h)] /\ ~resetN'[Cpu(h)] => pc[h] = "halted" /\ ~linkSts[Cpu(h)] ]_vars

\* Every HART_START of an orderly supervisor returns: the starter's waits for
\* the states a hart passes through do not miss them.
StartReturns ==
  \A a \in Harts : conf.orderly /\ pc[a] \in StartPcs ~> pc[a] = "S"

\* "when start secondary: pc -> start_addr" (mtrap.c:513): a hart that was
\* asked to start enters the supervisor.
StartsArrive == \A h \in Slaves : seen[h] = "starting" ~> seen[h] = "up"

\* It does, when the supervisor is orderly; and always without hotplug.
OrderlyStartsArrive ==
  \A h \in Slaves :
    (conf.hotplug => conf.orderly) /\ seen[h] = "starting" ~> seen[h] = "up"

\* "send STOP message to master hart" (mtrap.c:566): a hart that stops ends up
\* in reset.
StopsComplete ==
  \A h \in Slaves : conf.orderly /\ pc[h] = "stop" ~> ~resetN[Cpu(h)]

=============================================================================
