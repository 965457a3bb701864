------------------------------ MODULE SmpBoot ------------------------------
(***************************************************************************)
(* The boot of a multi-hart system: the master looks for harts in the      *)
(* mailbox slots and hands each one its logical number and stack           *)
(* (init_smp), then lets them run one by one (init_slaves) and writes in   *)
(* the device tree which CPUs the kernel has (init_dtb, minit.c); a        *)
(* secondary hart goes from reset to enter_entry_point (mentry.S,          *)
(* minit.c).  After a shutdown the harts are still in the supervisor when  *)
(* the master boots again.                                                 *)
(*                                                                         *)
(* A step is one mailbox access or one access to the hls of a hart.  A     *)
(* definition named X_Fault is a faulty variant of X, used to see that     *)
(* the properties below tell the two apart.                                *)
(***************************************************************************)
EXTENDS Naturals, FiniteSets

CONSTANTS
  NumSlots,     \* ipi_get_num_slots
  MaxHarts,     \* max_harts: PLF_SMP_HART_NUM, or fewer if the stack is small
  MasterSlot,   \* PLF_MASTER_HART
  Warm,         \* TRUE: the secondaries may be in the supervisor, after a shutdown
  Timely,       \* TRUE: every hart reads its RESET within the 100 ms
  Settled       \* TRUE: a hart that was reset waits for SETUP when it is sent

Slots == 0 .. NumSlots - 1

ASSUME SlotsAssumption == /\ NumSlots \in Nat \ {0}
                          /\ MaxHarts \in Nat \ {0}
                          /\ MasterSlot \in Slots
ASSUME FlagsAssumption == /\ Warm \in BOOLEAN
                          /\ Timely \in BOOLEAN
                          /\ Settled \in BOOLEAN

\* Logical harts; hls_init may be called for one more than there is room for.
Logical == 0 .. NumSlots
NoSlot  == NumSlots

NoWord == [cmd |-> "none",  data |-> 0]
RESET  == [cmd |-> "RESET", data |-> 0]
START  == [cmd |-> "START", data |-> 0]
SETUP(n) == [cmd |-> "SETUP", data |-> n]

VARIABLES
  present,   \* the slots with a hart
  mpc,       \* where the master is
  slotn,     \* its loop variable over slots
  found,     \* slot_mask
  hartn,     \* hartn, then num_harts
  n,         \* its loop variable over logical harts
  hls,       \* ipi_n, active, hartid and state of each logical hart
  tree,      \* the node of each slot's CPU in the device tree
  page,      \* root_page_table # NULL: the slaves may go on
  mail,      \* the master's word in each slot's mailbox
  hpc,       \* where the hart of each slot is
  own        \* the logical number it was given, 0 for none

masterVars == <<mpc, slotn, found, hartn, n, page>>
hartVars   == <<hpc, own>>
vars       == <<present, masterVars, hls, tree, mail, hartVars>>

\* _crt_start: the hart that is not the master goes its own way.
Secondaries == present \ {MasterSlot}

\* The node of a CPU as the device tree source has it, and as a boot that
\* found all harts left it: "okay", with the logical number and the clock.
\* A restart does not load the image again, so the tree is what it was.
SourceTree  == [s \in Slots |-> [status |-> "fail", reg |-> s, clk |-> NoSlot]]
EarlierTree ==
  [s \in Slots |->
     IF s < MaxHarts
     THEN [status |-> "okay", clk |-> s,
           reg    |-> IF s = MasterSlot THEN 0 ELSE IF s < MasterSlot THEN s + 1 ELSE s]
     ELSE SourceTree[s]]

\* hls_init, and hart_fill_hls of the hart itself.
HlsRecord(s, active) ==
  [slot |-> s, active |-> active, hartid |-> NoSlot, state |-> "STOP"]
FillHls(record, s) == [record EXCEPT !.hartid = s, !.state = "START_PENDING"]

\* plf_init has cleared the BSS, page with it, and filled the master's hls.
Init ==
  /\ present \in { P \in SUBSET Slots : MasterSlot \in P }
  /\ mpc   = "probe"
  /\ slotn = 0
  /\ found = {}
  /\ hartn = 1
  /\ n     = 1
  /\ hls   = [k \in Logical |->
                IF k = 0 THEN FillHls(HlsRecord(MasterSlot, TRUE), MasterSlot)
                         ELSE [slot   |-> NoSlot, active |-> FALSE,
                               hartid |-> NoSlot, state  |-> "START"]]
  /\ page  = FALSE
  /\ tree  \in {SourceTree} \cup (IF Warm THEN {EarlierTree} ELSE {})
  /\ mail  = [s \in Slots |-> NoWord]
  /\ hpc   \in { f \in [Slots -> {"S", "reset", "parked", "absent"}] :
                   \A s \in Slots :
                     /\ s \in Secondaries <=> f[s] # "absent"
                     /\ ~Warm => f[s] # "S"
                     /\ (Timely /\ ~Warm) => f[s] # "reset" }
  /\ own   = [s \in Slots |-> 0]

-----------------------------------------------------------------------------
(***************************************************************************)
(* init_smp: one RESET to each slot; the slot whose mailbox is read is     *)
(* active, the master's own slot answers to itself.                        *)
(***************************************************************************)

InitHls(k, s, active) ==
  hls' = [hls EXCEPT ![k] = HlsRecord(s, active)]

NextSlot == IF slotn + 1 < NumSlots
            THEN slotn' = slotn + 1 /\ mpc' = "probe"
            ELSE slotn' = 0 /\ mpc' = "inactive"

SendReset ==
  /\ mpc = "probe"
  /\ IF slotn = MasterSlot
     THEN found' = found \cup {slotn} /\ NextSlot /\ UNCHANGED mail
     ELSE /\ mail' = [mail EXCEPT ![slotn] = RESET]
          /\ mpc' = "avail"
          /\ UNCHANGED <<slotn, found>>
  /\ UNCHANGED <<present, hartn, n, page, hls, tree, hartVars>>

\* The hart read its RESET.  Its hls is filled if there is room for it.
SlotActive ==
  /\ mpc = "avail"
  /\ mail[slotn] = NoWord
  /\ found' = found \cup {slotn}
  /\ IF slotn < MaxHarts
     THEN InitHls(hartn, slotn, TRUE) /\ hartn' = hartn + 1
     ELSE UNCHANGED <<hls, hartn>>
  /\ NextSlot
  /\ UNCHANGED <<present, n, page, tree, mail, hartVars>>

\* ipi_wait_receiver_avail gives up.
SlotEmpty_Kept ==
  /\ mpc = "avail"
  /\ mail[slotn] # NoWord
  /\ found' = found \cup {slotn}
  /\ InitHls(hartn, slotn, TRUE) /\ hartn' = hartn + 1
  /\ NextSlot
  /\ UNCHANGED <<present, n, page, tree, mail, hartVars>>
SlotEmpty ==
  /\ mpc = "avail"
  /\ mail[slotn] # NoWord
  /\ Timely => slotn \notin present
  /\ NextSlot
  /\ UNCHANGED <<present, found, hartn, n, page, hls, tree, mail, hartVars>>

\* The other slots get the logical numbers that are left; then num_harts is
\* known, and checked.
FillInactive ==
  /\ mpc = "inactive"
  /\ IF slotn \notin found /\ hartn < MaxHarts
     THEN InitHls(hartn, slotn, FALSE) /\ hartn' = hartn + 1
     ELSE UNCHANGED <<hls, hartn>>
  /\ IF slotn + 1 < NumSlots
     THEN slotn' = slotn + 1 /\ UNCHANGED mpc
     ELSE slotn' = 0 /\ mpc' = IF hartn' > MaxHarts THEN "halted" ELSE "setup"
  /\ UNCHANGED <<present, found, n, page, tree, mail, hartVars>>

(***************************************************************************)
(* The two rounds over the logical harts: SETUP until START_PENDING        *)
(* (init_smp), START until START (init_slaves).                            *)
(***************************************************************************)
NextHart(round) == IF n + 1 < hartn
                   THEN n' = n + 1 /\ mpc' = round
                   ELSE n' = 1 /\ mpc' = (IF round = "setup" THEN "machine" ELSE "dtb")

\* No secondaries at all, or one that is not active.
SkipHart ==
  /\ mpc \in {"setup", "start"}
  /\ ~(n < hartn /\ hls[n].active)
  /\ NextHart(mpc)
  /\ UNCHANGED <<present, slotn, found, hartn, page, hls, tree, mail, hartVars>>

SendTo(round, word, wait) ==
  /\ mpc = round
  /\ n < hartn /\ hls[n].active
  /\ mail' = [mail EXCEPT ![hls[n].slot] = word]
  /\ mpc' = wait
  /\ UNCHANGED <<present, slotn, found, hartn, n, page, hls, tree, hartVars>>

SendSetup_SlotNumber ==
  /\ SendTo("setup", SETUP(hls[n].slot), "pendwait")
  /\ Settled => hpc[hls[n].slot] \notin {"S", "reset"}
SendSetup ==
  /\ SendTo("setup", SETUP(n), "pendwait")
  /\ Settled => hpc[hls[n].slot] \notin {"S", "reset"}

SendStart == SendTo("start", START, "startwait")

AwaitState(wait, state, round) ==
  /\ mpc = wait
  /\ hls[n].state = state
  /\ NextHart(round)
  /\ UNCHANGED <<present, slotn, found, hartn, page, hls, tree, mail, hartVars>>

(***************************************************************************)
(* start_master_hart: the lock of the slaves is taken before the first of  *)
(* them gets its START, and opened when the device tree is written.        *)
(***************************************************************************)
StartMaster ==
  /\ mpc = "machine"
  /\ page' = FALSE
  /\ hls'  = [hls EXCEPT ![0].state = "START"]
  /\ mpc'  = "start"
  /\ UNCHANGED <<present, slotn, found, hartn, n, tree, mail, hartVars>>

\* The node of logical hart k: the kernel's number for it is k, and its clock
\* is found by the number the hart wrote into its hls, if it has.
Node(k) ==
  LET id == hls[k].slot IN
  [status |-> IF hls[k].active /\ id < hartn THEN "okay" ELSE "fail",
   reg    |-> k,
   clk    |-> IF hls[k].hartid # NoSlot THEN hls[k].hartid ELSE tree[id].clk]

\* init_dtb, for the nodes of the logical harts; the others stay.
InitDtb_ActiveOnly ==
  /\ mpc = "dtb"
  /\ tree' = [s \in Slots |->
                 IF \E k \in 0 .. hartn - 1 : hls[k].slot = s /\ hls[k].active
                 THEN Node(CHOOSE k \in 0 .. hartn - 1 : hls[k].slot = s)
                 ELSE tree[s]]
  /\ mpc' = "run"
  /\ UNCHANGED <<present, slotn, found, hartn, n, page, hls, mail, hartVars>>
InitDtb ==
  /\ mpc = "dtb"
  /\ tree' = [s \in Slots |->
                 IF \E k \in 0 .. hartn - 1 : hls[k].slot = s
                 THEN Node(CHOOSE k \in 0 .. hartn - 1 : hls[k].slot = s)
                 ELSE tree[s]]
  /\ mpc' = "run"
  /\ UNCHANGED <<present, slotn, found, hartn, n, page, hls, mail, hartVars>>

\* The slaves are let go, the master enters the kernel.
LetGo ==
  /\ mpc = "run"
  /\ page' = TRUE
  /\ mpc'  = "kernel"
  /\ UNCHANGED <<present, slotn, found, hartn, n, hls, tree, mail, hartVars>>

Master ==
  \/ SendReset \/ SlotActive \/ SlotEmpty \/ FillInactive
  \/ SkipHart \/ SendSetup \/ SendStart
  \/ AwaitState("pendwait", "START_PENDING", "setup")
  \/ AwaitState("startwait", "START", "start")
  \/ StartMaster \/ InitDtb \/ LetGo

-----------------------------------------------------------------------------
(***************************************************************************)
(* A secondary hart.                                                       *)
(***************************************************************************)
Read(s)     == mail' = [mail EXCEPT ![s] = NoWord]
HGoto(s, to) == hpc' = [hpc EXCEPT ![s] = to]

\* In the supervisor: the interrupt handler knows RESET; the other boot
\* commands are unexpected and halt the hart.
TakeReset(s) ==
  /\ hpc[s] = "S"
  /\ mail[s] # NoWord
  /\ Read(s)
  /\ HGoto(s, IF mail[s] = RESET THEN "reset" ELSE "halted")
  /\ UNCHANGED <<present, masterVars, hls, tree, own>>

\* secondary_reset_wait: read the mailbox until it is empty.
ClearMail(s) ==
  /\ hpc[s] = "reset"
  /\ IF mail[s] # NoWord
     THEN Read(s) /\ UNCHANGED hpc
     ELSE HGoto(s, "parked") /\ UNCHANGED mail
  /\ UNCHANGED <<present, masterVars, hls, tree, own>>

\* secondary_reset: wait for SETUP, dropping other words; then hart_fill_hls.
WaitSetup_NotTold(s) ==
  /\ hpc[s] = "parked"
  /\ mail[s] # NoWord
  /\ Read(s)
  /\ IF mail[s].cmd = "SETUP"
     THEN /\ own' = [own EXCEPT ![s] = mail[s].data]
          /\ UNCHANGED hls
          /\ HGoto(s, "pending")
     ELSE UNCHANGED <<hpc, own, hls>>
  /\ UNCHANGED <<present, masterVars, tree>>
WaitSetup(s) ==
  /\ hpc[s] = "parked"
  /\ mail[s] # NoWord
  /\ Read(s)
  /\ IF mail[s].cmd = "SETUP"
     THEN /\ own' = [own EXCEPT ![s] = mail[s].data]
          /\ hls' = [hls EXCEPT ![mail[s].data] = FillHls(@, s)]
          /\ HGoto(s, "pending")
     ELSE UNCHANGED <<hpc, own, hls>>
  /\ UNCHANGED <<present, masterVars, tree>>

WaitStart(s) ==
  /\ hpc[s] = "pending"
  /\ mail[s] # NoWord
  /\ Read(s)
  /\ HGoto(s, IF mail[s] = START THEN "slave" ELSE "pending")
  /\ UNCHANGED <<present, masterVars, hls, tree, own>>

\* start_slave_hart: started, then held until the master lets go.
SlaveStart(s) ==
  /\ hpc[s] = "slave"
  /\ hls' = [hls EXCEPT ![own[s]].state = "START"]
  /\ HGoto(s, "held")
  /\ UNCHANGED <<present, masterVars, tree, mail, own>>

SlaveEnter(s) ==
  /\ hpc[s] = "held"
  /\ page
  /\ HGoto(s, "enter")
  /\ UNCHANGED <<present, masterVars, hls, tree, mail, own>>

Secondary(s) ==
  \/ TakeReset(s) \/ ClearMail(s) \/ WaitSetup(s) \/ WaitStart(s)
  \/ SlaveStart(s) \/ SlaveEnter(s)

-----------------------------------------------------------------------------
Next == Master \/ \E s \in Secondaries : Secondary(s)

\* All harts run; those that are in reset come out of it.
Spec ==
  /\ Init
  /\ [][Next]_vars
  /\ WF_vars(Master)
  /\ \A s \in Slots : WF_vars(s \in Secondaries /\ Secondary(s))

-----------------------------------------------------------------------------
\* The type of the state.
TypeOK ==
  /\ present \subseteq Slots
  /\ mpc   \in {"probe", "avail", "inactive", "setup", "pendwait", "start",
                "startwait", "machine", "dtb", "run", "kernel", "halted"}
  /\ slotn \in Slots
  /\ found \subseteq Slots
  /\ hartn \in 1 .. NumSlots
  /\ n     \in 1 .. NumSlots
  /\ hls   \in [Logical -> [slot : Slots \cup {NoSlot}, active : BOOLEAN,
                            hartid : Slots \cup {NoSlot},
                            state : {"START", "STOP", "START_PENDING"}]]
  /\ tree  \in [Slots -> [status : {"okay", "fail"}, reg : Logical,
                          clk : Slots \cup {NoSlot}]]
  /\ page  \in BOOLEAN
  /\ mail  \in [Slots -> {NoWord, RESET, START} \cup { SETUP(k) : k \in Logical }]
  /\ hpc   \in [Slots -> {"absent", "S", "reset", "parked", "pending", "slave",
                          "held", "enter", "halted"}]
  /\ own   \in [Slots -> Logical]

\* Two harts never share a logical number, and so a stack and a hls; the number
\* is the one whose hls holds the slot it is reached by.  hls_init is called only
\* for a hart that has a chunk of the stack: "to avoid out of bound memory
\* accesses" (minit.c:1357).
OwnNumber ==
  /\ hartn <= MaxHarts
  /\ \A s \in Slots :
       own[s] # 0 => /\ hls[own[s]].slot = s /\ hls[own[s]].active
                     /\ \A t \in Slots \ {s} : own[t] # own[s]

\* When a kernel runs, the device tree lists as "okay" the harts that answer to
\* HART_START and no others, each under the number it calls itself and with its
\* own clock: nothing that an earlier boot or the source of the tree says of a
\* hart that is gone, or not yet counted, is left (init_dtb).
TreeIsTrue ==
  (mpc = "kernel" \/ \E s \in Slots : hpc[s] = "enter") =>
    \A s \in Slots :
      /\ tree[s].status = "okay" <=> s = MasterSlot \/ own[s] # 0
      /\ tree[s].status = "okay" => tree[s].reg = own[s] /\ tree[s].clk = s

\* init_smp and init_slaves send without the busy test: no word is written
\* over one the receiver has not read.
SendsToFreeMailbox ==
  [][ \A s \in Slots : mail[s] # NoWord => mail'[s] \in {NoWord, mail[s]} ]_vars

\* "wait for secondary harts to reach secondary_reset" (minit.c:1307): SETUP is
\* sent to a hart that waits for it.
SetupAwaited ==
  \A s \in Secondaries : mail[s].cmd = "SETUP" => hpc[s] = "parked"

\* The boot ends, with every hart that was found and has a stack waiting for
\* its HART_START: no wait for a state of a hart is endless.
BootCompletes ==
  <>[](/\ mpc = "kernel"
       /\ \A k \in 1 .. hartn - 1 : hls[k].active => hpc[hls[k].slot] = "enter")

=============================================================================
