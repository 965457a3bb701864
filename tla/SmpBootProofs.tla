--------------------------- MODULE SmpBootProofs ---------------------------
(***************************************************************************)
(* Proofs about SmpBoot, for any number of slots and harts, any master and *)
(* harts that answer in time, late or from the supervisor.                 *)
(*                                                                         *)
(* BootInv says what each part of the boot leaves for the next one: the    *)
(* hls that init_smp has filled (HlsFilled, Counted), the words it has     *)
(* sent and the harts that have read them (Words, Given), how far each     *)
(* hart has come when the master goes on (Rounds), and the device tree.    *)
(***************************************************************************)
EXTENDS SmpBoot, FiniteSetTheorems, TLAPS

-----------------------------------------------------------------------------
Known   == 0 .. hartn - 1    \* the logical harts that have a hls
Others  == 1 .. hartn - 1    \* all but the master
Early   == {"probe", "avail", "inactive", "halted"}
Rounded == {"machine", "start", "startwait", "dtb", "run", "kernel"}

\* Each known hart is reached by a slot of its own, hart 0 by the master's.
HlsFilled ==
  /\ hls[0].slot = MasterSlot /\ hls[0].active /\ hls[0].hartid = MasterSlot
  /\ \A k \in Known : hls[k].slot \in Slots
  /\ \A k, l \in Known : hls[k].slot = hls[l].slot => k = l

\* What the two loops over the slots have seen so far: the first one fills the
\* hls of the harts it finds, as far as there is a stack for them, the second
\* one those of the other slots.
Counted ==
  /\ mpc \in {"probe", "avail"} => \A s \in found : s < slotn
  /\ mpc = "avail" => slotn # MasterSlot
  /\ MasterSlot \in found \/ (mpc \in {"probe", "avail"} /\ slotn <= MasterSlot)
  /\ \A k \in Others : hls[k].active <=> hls[k].slot \in found
  /\ \A k \in Others : hls[k].active => hls[k].slot < MaxHarts
  /\ mpc \in {"probe", "avail"} => \A k \in Others : hls[k].active
  /\ mpc = "inactive" => \A k \in Others : hls[k].active \/ hls[k].slot < slotn
  /\ \A s \in found : s < MaxHarts => \E k \in Known \cup {0} : hls[k].slot = s

\* With the master among them, there is room for all of them, and when both
\* loops are done every slot that has room has a hls.
HasRoom ==
  MasterSlot < MaxHarts =>
    /\ hartn <= MaxHarts
    /\ \A s \in Slots :
         /\ s < MaxHarts
         /\ mpc \notin {"probe", "avail"} /\ (mpc = "inactive" => s < slotn)
         => \E k \in Known : hls[k].slot = s

\* A hart that has a number has that of the hls with its slot, and has filled it.
Given ==
  /\ \A s \in Slots : own[s] # 0 =>
       /\ own[s] \in Others
       /\ hls[own[s]].slot = s /\ hls[own[s]].active /\ hls[own[s]].hartid = s
  /\ \A s \in Slots : own[s] # 0 <=> hpc[s] \in {"pending", "slave", "held", "enter"}
  /\ \A k \in Others : hls[k].state # "STOP" => own[hls[k].slot] = k
  /\ \A k \in Others : hls[k].state = "START" => hpc[hls[k].slot] \in {"held", "enter"}
  /\ \A k \in Others : own[hls[k].slot] = 0 => hls[k].hartid = NoSlot
  /\ hpc[MasterSlot] = "absent"

\* The words that are on their way.
Words ==
  /\ \A s \in Slots : mail[s] = NoWord \/ mail[s] = RESET \/ mail[s] = START
                      \/ (mpc = "pendwait" /\ mail[s] = SETUP(n))
  /\ mpc = "probe" => \A s \in Slots : s >= slotn => mail[s] = NoWord
  /\ mpc = "avail" => \A s \in Slots : s > slotn => mail[s] = NoWord
  /\ \A s \in Slots : mail[s] = RESET => s \notin found
  /\ \A s \in Slots : mail[s].cmd = "SETUP" =>
       mpc = "pendwait" /\ hls[n].slot = s /\ own[s] = 0
  /\ \A s \in Slots : mail[s] = START =>
       mpc = "startwait" /\ hls[n].slot = s /\ hpc[s] = "pending"

\* Where the rounds over the logical harts are.
Rounds ==
  /\ mpc \in Early \cup {"machine"} => n = 1
  /\ mpc \in {"pendwait", "startwait"} => n < hartn /\ hls[n].active
  /\ mpc \in Early => \A s \in Slots : own[s] = 0
  /\ mpc = "setup" => \A k \in Others : k >= n => own[hls[k].slot] = 0
  /\ mpc = "pendwait" => \A k \in Others : k > n => own[hls[k].slot] = 0
  /\ mpc \in {"setup", "pendwait"} =>
       \A k \in Others : k < n /\ hls[k].active => own[hls[k].slot] = k
  /\ mpc \in Rounded => \A k \in Others : hls[k].active => own[hls[k].slot] = k
  /\ \A k \in Others :
       /\ own[hls[k].slot] = k
       /\ \/ mpc \in {"setup", "pendwait", "machine"}
          \/ mpc = "start" /\ k >= n
          \/ mpc = "startwait" /\ k > n
       => hpc[hls[k].slot] = "pending"

\* The tree before and after init_dtb, and who may be in the kernel.
TreeKept ==
  /\ mpc \notin {"run", "kernel"} => \A s \in Slots : tree[s].status = "okay" => s < MaxHarts
  /\ page => mpc = "kernel"
  /\ \A s \in Slots : hpc[s] = "enter" => mpc = "kernel"

TreeExact ==
  MasterSlot < MaxHarts /\ mpc \in {"run", "kernel"} =>
    \A s \in Slots :
      /\ tree[s].status = "okay" <=> s = MasterSlot \/ own[s] # 0
      /\ tree[s].status = "okay" => tree[s].reg = own[s] /\ tree[s].clk = s

BootInv == TypeOK /\ HlsFilled /\ Counted /\ HasRoom /\ Given /\ Words /\ Rounds
           /\ TreeKept /\ TreeExact

-----------------------------------------------------------------------------
(***************************************************************************)
(* The initial state, and each step.                                       *)
(***************************************************************************)
LEMMA WordsDiffer ==
  /\ NoWord.cmd = "none" /\ RESET.cmd = "RESET" /\ START.cmd = "START"
  /\ \A k \in Logical : SETUP(k).cmd = "SETUP" /\ SETUP(k).data = k
  BY DEF NoWord, RESET, START, SETUP

\* More than b numbers do not fit in b places.
LEMMA Pigeons ==
  ASSUME NEW a \in Nat, NEW b \in Nat, NEW f \in [0 .. a - 1 -> 0 .. b - 1],
         \A x, y \in 0 .. a - 1 : f[x] = f[y] => x = y
  PROVE  a <= b
<1>1. IsFiniteSet(0 .. a - 1) /\ Cardinality(0 .. a - 1) = a
  BY FS_Interval
<1>2. IsFiniteSet(0 .. b - 1) /\ Cardinality(0 .. b - 1) = b
  BY FS_Interval
<1>3. CASE b < a
  <2>1. \E x, y \in 0 .. a - 1 : x # y /\ f[x] = f[y]
    BY <1>1, <1>2, <1>3, FS_PigeonHole
  <2> QED BY <2>1
<1> QED BY <1>3

LEMMA NextSlotCases ==
  ASSUME TypeOK, NextSlot
  PROVE  \/ slotn + 1 \in Slots /\ slotn' = slotn + 1 /\ mpc' = "probe"
         \/ slotn = NumSlots - 1 /\ slotn' = 0 /\ mpc' = "inactive"
  BY SlotsAssumption DEF TypeOK, NextSlot, Slots

LEMMA NextHartCases ==
  ASSUME TypeOK, NEW round \in {"setup", "start"}, NextHart(round)
  PROVE  \/ n + 1 < hartn /\ n' = n + 1 /\ mpc' = round
         \/ n + 1 >= hartn /\ n' = 1 /\ round = "setup" /\ mpc' = "machine"
         \/ n + 1 >= hartn /\ n' = 1 /\ round = "start" /\ mpc' = "dtb"
<1>1. CASE round = "setup"
  BY <1>1, SlotsAssumption DEF TypeOK, NextHart
<1>2. CASE round = "start"
  BY <1>2, SlotsAssumption DEF TypeOK, NextHart
<1> QED BY <1>1, <1>2

HlsType ==
  [Logical -> [slot : Slots \cup {NoSlot}, active : BOOLEAN, hartid : Slots \cup {NoSlot},
               state : {"START", "STOP", "START_PENDING"}]]

HlsEntry == [slot : Slots \cup {NoSlot}, active : BOOLEAN, hartid : Slots \cup {NoSlot},
             state : {"START", "STOP", "START_PENDING"}]

LEMMA TypedHls == ASSUME TypeOK PROVE hls \in HlsType
  BY DEF TypeOK, HlsType

\* A step of the master and a step of a hart leave everything in its type.
MasterPcs == {"probe", "avail", "inactive", "setup", "pendwait", "start",
              "startwait", "machine", "dtb", "run", "kernel", "halted"}
HartPcs   == {"absent", "S", "reset", "parked", "pending", "slave", "held", "enter", "halted"}

LEMMA MasterTyped ==
  ASSUME TypeOK, UNCHANGED <<present, page, tree, mail, hpc, own>>,
         mpc' \in MasterPcs, slotn' \in Slots, found' \subseteq Slots,
         hartn' \in 1 .. NumSlots, n' \in 1 .. NumSlots, hls' \in HlsType
  PROVE  TypeOK'
  BY DEF TypeOK, MasterPcs, HlsType

LEMMA HartTyped ==
  ASSUME TypeOK, UNCHANGED <<present, mpc, slotn, found, hartn, n, page, tree>>,
         hls' \in HlsType, own' \in [Slots -> Logical], hpc' \in [Slots -> HartPcs],
         mail' \in [Slots -> {NoWord, RESET, START} \cup { SETUP(k) : k \in Logical }]
  PROVE  TypeOK'
  BY DEF TypeOK, HartPcs, HlsType

\* The numbers of a well-typed state.
LEMMA Typed ==
  ASSUME TypeOK
  PROVE  /\ hartn \in Nat /\ 1 <= hartn /\ hartn <= NumSlots
         /\ n \in Nat /\ 1 <= n /\ n <= NumSlots
         /\ slotn \in Nat /\ slotn < NumSlots
         /\ found \subseteq Slots
         /\ \A k \in Logical : hls[k] \in HlsEntry /\ hls[k].active \in BOOLEAN
         /\ \A s \in Slots : own[s] \in Logical /\ mail[s].cmd # "none" => mail[s] # NoWord
  BY SlotsAssumption, WordsDiffer DEF TypeOK, HlsEntry, Slots, Logical

\* The hart enters a state, or fills its hls.
LEMMA HlsState ==
  ASSUME TypeOK, NEW k \in Logical, NEW state \in {"START", "STOP", "START_PENDING"},
         hls' = [hls EXCEPT ![k].state = state]
  PROVE  /\ hls' \in HlsType
         /\ \A j \in Logical : j # k => hls'[j] = hls[j]
         /\ hls'[k].slot = hls[k].slot /\ hls'[k].active = hls[k].active
         /\ hls'[k].hartid = hls[k].hartid /\ hls'[k].state = state
<1>1. hls \in [Logical -> HlsEntry]
  BY DEF TypeOK, HlsEntry
<1>2. hls' = [hls EXCEPT ![k] = [hls[k] EXCEPT !.state = state]]
  OBVIOUS
<1>3. [hls[k] EXCEPT !.state = state] \in HlsEntry
  BY <1>1 DEF HlsEntry
<1> QED BY <1>1, <1>2, <1>3 DEF HlsType, HlsEntry

LEMMA HlsFill ==
  ASSUME TypeOK, NEW k \in Logical, NEW s \in Slots,
         hls' = [hls EXCEPT ![k] = FillHls(@, s)]
  PROVE  /\ hls' \in HlsType
         /\ \A j \in Logical : j # k => hls'[j] = hls[j]
         /\ hls'[k].slot = hls[k].slot /\ hls'[k].active = hls[k].active
         /\ hls'[k].hartid = s /\ hls'[k].state = "START_PENDING"
<1>1. hls \in [Logical -> HlsEntry]
  BY DEF TypeOK, HlsEntry
<1>2. FillHls(hls[k], s) \in HlsEntry
      /\ FillHls(hls[k], s).slot = hls[k].slot /\ FillHls(hls[k], s).active = hls[k].active
      /\ FillHls(hls[k], s).hartid = s /\ FillHls(hls[k], s).state = "START_PENDING"
  BY <1>1 DEF HlsEntry, FillHls
<1>3. hls' \in [Logical -> HlsEntry]
  BY <1>1, <1>2
<1>4. hls'[k] = FillHls(hls[k], s) /\ \A j \in Logical : j # k => hls'[j] = hls[j]
  BY <1>1
<1> QED BY <1>2, <1>3, <1>4 DEF HlsType, HlsEntry

\* hls_init of the next logical hart.
LEMMA HlsAdded ==
  ASSUME TypeOK, NEW s \in Slots, NEW active \in BOOLEAN,
         hls' = [hls EXCEPT ![hartn] = HlsRecord(s, active)]
  PROVE  /\ hls' \in HlsType
         /\ \A k \in Logical : k # hartn => hls'[k] = hls[k]
         /\ hls'[hartn].slot = s /\ hls'[hartn].active = active
         /\ hls'[hartn].hartid = NoSlot /\ hls'[hartn].state = "STOP"
<1>1. hartn \in Logical /\ hls \in HlsType
  BY SlotsAssumption DEF TypeOK, HlsType, Logical, Slots
<1>2. HlsRecord(s, active) \in [slot : Slots \cup {NoSlot}, active : BOOLEAN,
                                hartid : Slots \cup {NoSlot},
                                state : {"START", "STOP", "START_PENDING"}]
      /\ HlsRecord(s, active).slot = s /\ HlsRecord(s, active).active = active
      /\ HlsRecord(s, active).hartid = NoSlot /\ HlsRecord(s, active).state = "STOP"
  BY DEF HlsRecord
<1> QED BY <1>1, <1>2 DEF HlsType

\* Harts with slots below b, and a slot below b that is none of theirs.
LEMMA RoomLeft ==
  ASSUME TypeOK, HlsFilled, NEW b \in Nat, NEW s \in Slots, s < b,
         \A k \in Known : hls[k].slot # s /\ hls[k].slot < b
  PROVE  hartn + 1 <= b
<1> DEFINE f == [k \in 0 .. (hartn + 1) - 1 |-> IF k = hartn THEN s ELSE hls[k].slot]
<1>1. hartn \in Nat /\ hartn + 1 \in Nat
  BY SlotsAssumption DEF TypeOK, Slots
<1>2. f \in [0 .. (hartn + 1) - 1 -> 0 .. b - 1]
  BY <1>1, SlotsAssumption DEF HlsFilled, Known, Slots
<1>3. \A x, y \in 0 .. (hartn + 1) - 1 : f[x] = f[y] => x = y
  BY <1>1 DEF HlsFilled, Known
<1> HIDE DEF f
<1> QED BY <1>1, <1>2, <1>3, Pigeons

\* When all hls are filled, an active hart's slot is one of the first hartn.
LEMMA SlotsBelow ==
  ASSUME TypeOK, HlsFilled, Counted, HasRoom, MasterSlot < MaxHarts, mpc = "dtb",
         NEW k \in Known, hls[k].active
  PROVE  hls[k].slot < hartn
<1> USE SlotsAssumption DEF Slots, Logical
<1> DEFINE top == hls[k].slot
           f == [s \in 0 .. (top + 1) - 1 |-> CHOOSE j \in Known : hls[j].slot = s]
<1>1. top \in Slots /\ top < MaxHarts /\ top + 1 \in Nat /\ hartn \in Nat
  BY Typed DEF HlsFilled, Counted, Known, Others
<1>2. \A s \in 0 .. (top + 1) - 1 : \E j \in Known : hls[j].slot = s
  BY <1>1 DEF HasRoom
<1>3. \A s \in 0 .. (top + 1) - 1 : f[s] \in Known /\ hls[f[s]].slot = s
  BY <1>2
<1>4. f \in [0 .. (top + 1) - 1 -> 0 .. hartn - 1]
  BY <1>3 DEF Known
<1>5. \A x, y \in 0 .. (top + 1) - 1 : f[x] = f[y] => x = y
  BY <1>3
<1> HIDE DEF f
<1>6. top + 1 <= hartn
  BY <1>1, <1>4, <1>5, Pigeons
<1> QED BY <1>1, <1>6

LEMMA InitBoot == Init => BootInv
<1> SUFFICES ASSUME Init PROVE BootInv
  OBVIOUS
<1> USE SlotsAssumption DEF BootInv, Slots, Logical, NoSlot
<1>1. FillHls(HlsRecord(MasterSlot, TRUE), MasterSlot) \in HlsEntry
      /\ FillHls(HlsRecord(MasterSlot, TRUE), MasterSlot).slot = MasterSlot
      /\ FillHls(HlsRecord(MasterSlot, TRUE), MasterSlot).active = TRUE
      /\ FillHls(HlsRecord(MasterSlot, TRUE), MasterSlot).hartid = MasterSlot
  BY DEF FillHls, HlsRecord, HlsEntry
<1>6. /\ hls \in [Logical -> HlsEntry]
      /\ hls[0].slot = MasterSlot /\ hls[0].active = TRUE /\ hls[0].hartid = MasterSlot
  <2>1. [slot |-> NoSlot, active |-> FALSE, hartid |-> NoSlot, state |-> "START"] \in HlsEntry
    BY DEF HlsEntry
  <2>2. /\ hls = [k \in Logical |->
                    IF k = 0 THEN FillHls(HlsRecord(MasterSlot, TRUE), MasterSlot)
                    ELSE [slot |-> NoSlot, active |-> FALSE, hartid |-> NoSlot, state |-> "START"]]
        /\ 0 \in Logical
    BY DEF Init
  <2> QED BY <1>1, <2>1, <2>2
<1>2. tree \in [Slots -> [status : {"okay", "fail"}, reg : Logical, clk : Slots \cup {NoSlot}]]
      /\ \A s \in Slots : tree[s].status = "okay" => s < MaxHarts
  BY DEF Init, SourceTree, EarlierTree
<1>3. TypeOK
  <2>1. hls \in [Logical -> [slot : Slots \cup {NoSlot}, active : BOOLEAN,
                             hartid : Slots \cup {NoSlot},
                             state : {"START", "STOP", "START_PENDING"}]]
    BY <1>6 DEF HlsEntry
  <2>2. /\ mail \in [Slots -> {NoWord, RESET, START} \cup { SETUP(k) : k \in Logical }]
        /\ hpc  \in [Slots -> {"absent", "S", "reset", "parked", "pending", "slave",
                               "held", "enter", "halted"}]
        /\ own  \in [Slots -> Logical]
    BY DEF Init
  <2>3. present \subseteq Slots
    BY DEF Init
  <2>5. slotn = 0 /\ found = {} /\ hartn = 1 /\ n = 1 /\ page = FALSE
    BY DEF Init
  <2>4. mpc = "probe"
    BY DEF Init
  <2>6. /\ slotn \in Slots /\ found \subseteq Slots /\ page \in BOOLEAN
        /\ hartn \in 1 .. NumSlots /\ n \in 1 .. NumSlots
    <3>1. 0 \in 0 .. NumSlots - 1 /\ 1 \in 1 .. NumSlots
      OBVIOUS
    <3>2. FALSE \in BOOLEAN
      OBVIOUS
    <3> QED BY <2>5, <3>1, <3>2
  <2>7. mpc \in {"probe", "avail", "inactive", "setup", "pendwait", "start",
                "startwait", "machine", "dtb", "run", "kernel", "halted"}
    BY <2>4
  <2> QED BY <1>2, <2>1, <2>2, <2>3, <2>6, <2>7 DEF TypeOK
<1>7. HlsFilled /\ Counted /\ HasRoom
  <2>1. mpc = "probe" /\ slotn = 0 /\ found = {} /\ hartn = 1
    BY DEF Init
  <2>2. Known = {0} /\ Others = {}
    BY <2>1 DEF Known, Others
  <2>3. HlsFilled
    BY <1>6, <2>2 DEF HlsFilled
  <2>4. Counted
    BY <2>1, <2>2 DEF Counted
  <2>5. HasRoom
    BY <2>1 DEF HasRoom
  <2> QED BY <2>3, <2>4, <2>5
<1>4. Given /\ Rounds
  BY DEF Init, Given, Rounds, Others, Early, Rounded, Secondaries
<1>5. Words /\ TreeKept /\ TreeExact
  BY <1>2, WordsDiffer DEF Init, Words, TreeKept, TreeExact
<1> QED BY <1>3, <1>4, <1>5, <1>7

LEMMA SendResetKeeps ==
  ASSUME BootInv, SendReset
  PROVE  BootInv'
<1> USE SlotsAssumption DEF BootInv, Slots, Logical, NoSlot, masterVars, hartVars
<1>1. mpc = "probe" /\ UNCHANGED <<present, hartn, n, page, hls, tree, hpc, own>>
  BY DEF SendReset
<1>2. \/ /\ slotn = MasterSlot /\ found' = found \cup {slotn} /\ mail' = mail
         /\ \/ slotn + 1 \in Slots /\ slotn' = slotn + 1 /\ mpc' = "probe"
            \/ slotn = NumSlots - 1 /\ slotn' = 0 /\ mpc' = "inactive"
      \/ /\ slotn # MasterSlot /\ mpc' = "avail" /\ UNCHANGED <<slotn, found>>
         /\ mail' = [mail EXCEPT ![slotn] = RESET]
  BY NextSlotCases DEF SendReset
<1>3. TypeOK'
  <2>1. CASE slotn = MasterSlot
    <3>1. mail' = mail /\ found' = found \cup {slotn} /\ slotn' \in Slots /\ mpc' \in {"probe", "inactive"}
      BY <1>2, <2>1
    <3> QED BY <1>1, <3>1 DEF TypeOK
  <2>2. CASE slotn # MasterSlot
    BY <1>1, <1>2, <2>2 DEF TypeOK
  <2> QED BY <2>1, <2>2
<1>4. HlsFilled'
  BY <1>1 DEF HlsFilled, Known
<1>5. Counted'
  <2>1. CASE slotn = MasterSlot
    <3>1. /\ found' = found \cup {slotn}
          /\ \/ slotn' = slotn + 1 /\ mpc' = "probe"
             \/ mpc' = "inactive"
      BY <1>2, <2>1
    <3>2. \A k \in Others : hls[k].slot # slotn
      BY <2>1, Typed DEF HlsFilled, Known, Others
    <3> QED BY <1>1, <2>1, <3>1, <3>2, Typed DEF Counted, HlsFilled, Known, Others
  <2>2. CASE slotn # MasterSlot
    BY <1>1, <1>2, <2>2 DEF Counted, Known, Others
  <2> QED BY <2>1, <2>2
<1>6. HasRoom'
  BY <1>1, <1>2 DEF HasRoom
<1>7. Given'
  BY <1>1 DEF Given, Others
<1>8. Words'
  <2>1. CASE slotn = MasterSlot
    BY <1>1, <1>2, <2>1, WordsDiffer DEF Words
  <2>2. CASE slotn # MasterSlot
    <3>1. mail'[slotn] = RESET /\ \A s \in Slots : s # slotn => mail'[s] = mail[s]
      BY <1>2, <2>2 DEF TypeOK
    <3>2. slotn \notin found
      BY <1>1, Typed DEF Counted
    <3> QED BY <1>1, <1>2, <2>2, <3>1, <3>2, WordsDiffer, Typed DEF Words
  <2> QED BY <2>1, <2>2
<1>9. Rounds'
  BY <1>1, <1>2 DEF Rounds, Early, Rounded
<1>10. TreeKept'
  BY <1>1 DEF TreeKept
<1>11. TreeExact'
  BY <1>2 DEF TreeExact
<1> QED BY <1>3, <1>4, <1>5, <1>6, <1>7, <1>8, <1>9, <1>10, <1>11

LEMMA SlotActiveKeeps ==
  ASSUME BootInv, SlotActive
  PROVE  BootInv'
<1> USE SlotsAssumption DEF BootInv, Slots, Logical, NoSlot, masterVars, hartVars
<1>1. /\ mpc = "avail" /\ mail[slotn] = NoWord /\ found' = found \cup {slotn}
      /\ UNCHANGED <<present, n, page, tree, mail, hpc, own>>
  BY DEF SlotActive
<1>2. \/ slotn + 1 \in Slots /\ slotn' = slotn + 1 /\ mpc' = "probe"
      \/ slotn = NumSlots - 1 /\ slotn' = 0 /\ mpc' = "inactive"
  <2>1. NextSlot
    BY DEF SlotActive
  <2> QED BY <2>1, NextSlotCases
<1>3. /\ \A k \in Known : hls[k].slot # slotn
      /\ hartn + 1 <= NumSlots
      /\ MasterSlot < MaxHarts /\ slotn < MaxHarts => hartn + 1 <= MaxHarts
  <2>1. slotn \in Slots /\ slotn < NumSlots /\ NumSlots \in Nat /\ MaxHarts \in Nat
    BY DEF TypeOK
  <2>2. \A k \in Known : hls[k].slot # slotn /\ hls[k].slot < NumSlots
    BY <1>1, <2>1 DEF HlsFilled, Counted, Known, Others
  <2>3. MasterSlot < MaxHarts => \A k \in Known : hls[k].slot < MaxHarts
    BY <1>1 DEF HlsFilled, Counted, Known, Others
  <2> QED BY <2>1, <2>2, <2>3, RoomLeft
<1>4. \/ /\ slotn < MaxHarts /\ hartn' = hartn + 1
         /\ hls' \in HlsType
         /\ \A k \in Logical : k # hartn => hls'[k] = hls[k]
         /\ hls'[hartn].slot = slotn /\ hls'[hartn].active = TRUE
         /\ hls'[hartn].hartid = NoSlot /\ hls'[hartn].state = "STOP"
      \/ slotn >= MaxHarts /\ UNCHANGED <<hartn, hls>>
  <2>1. slotn \in Slots /\ slotn \in Nat /\ MaxHarts \in Nat /\ hartn \in Nat /\ TRUE \in BOOLEAN
    BY DEF TypeOK
  <2>2. \/ slotn < MaxHarts /\ hartn' = hartn + 1 /\ hls' = [hls EXCEPT ![hartn] = HlsRecord(slotn, TRUE)]
        \/ slotn >= MaxHarts /\ UNCHANGED <<hartn, hls>>
    <3>1. CASE slotn < MaxHarts
      BY <3>1 DEF SlotActive, InitHls
    <3>2. CASE slotn >= MaxHarts
      <4>1. ~(slotn < MaxHarts)
        BY <2>1, <3>2
      <4>2. UNCHANGED <<hls, hartn>>
        BY <4>1 DEF SlotActive
      <4> QED BY <3>2, <4>2
    <3>3. slotn < MaxHarts \/ slotn >= MaxHarts
      BY <2>1
    <3>4. hartn < MaxHarts \/ hartn >= MaxHarts
      BY <2>1
    <3> QED BY <3>1, <3>2, <3>3, <3>4
  <2> QED BY <2>1, <2>2, HlsAdded
<1>5. TypeOK'
  <2>1. hls \in HlsType
    BY DEF TypeOK, HlsType
  <2>2. hls' \in HlsType
    BY <1>4, <2>1
  <2>3. hartn' = hartn \/ (hartn' = hartn + 1 /\ hartn + 1 <= NumSlots)
    BY <1>3, <1>4
  <2>4. hartn' \in 1 .. NumSlots
    BY <2>3, Typed
  <2>5. mpc' \in MasterPcs
    BY <1>2 DEF MasterPcs
  <2>7. slotn' \in Slots /\ found' \subseteq Slots
    BY <1>1, <1>2, Typed
  <2>6. n' \in 1 .. NumSlots
    BY <1>1, Typed
  <2> QED BY <1>1, <2>2, <2>4, <2>5, <2>6, <2>7, MasterTyped
<1>6. HlsFilled'
  BY <1>3, <1>4, Typed DEF HlsFilled, Known
<1>7. Counted'
  BY <1>1, <1>2, <1>4, Typed DEF Counted, Known, Others
<1>8. HasRoom'
  BY <1>2, <1>3, <1>4 DEF HasRoom
<1>9. Given'
  BY <1>1, <1>4, Typed DEF Given, Others
<1>10. Words'
  BY <1>1, <1>2, WordsDiffer, Typed DEF Words
<1>11. Rounds'
  BY <1>1, <1>2 DEF Rounds, Early, Rounded
<1>12. TreeKept'
  BY <1>1 DEF TreeKept
<1>13. TreeExact'
  BY <1>2 DEF TreeExact
<1> QED BY <1>5, <1>6, <1>7, <1>8, <1>9, <1>10, <1>11, <1>12, <1>13

LEMMA SlotEmptyKeeps ==
  ASSUME BootInv, SlotEmpty
  PROVE  BootInv'
<1> USE SlotsAssumption DEF BootInv, Slots, Logical, NoSlot, masterVars, hartVars
<1>1. /\ mpc = "avail" /\ mail[slotn] # NoWord
      /\ UNCHANGED <<present, found, hartn, n, page, hls, tree, mail, hpc, own>>
  BY DEF SlotEmpty
<1>2. \/ slotn + 1 \in Slots /\ slotn' = slotn + 1 /\ mpc' = "probe"
      \/ slotn = NumSlots - 1 /\ slotn' = 0 /\ mpc' = "inactive"
  <2>1. NextSlot
    BY DEF SlotEmpty
  <2> QED BY <2>1, NextSlotCases
<1>3. TypeOK'
  <2>1. mpc' \in MasterPcs
    BY <1>2 DEF MasterPcs
  <2>3. slotn' \in Slots /\ found' \subseteq Slots
    BY <1>1, <1>2, Typed
  <2>2. hartn' \in 1 .. NumSlots /\ n' \in 1 .. NumSlots
    BY <1>1, <1>2, Typed
  <2> QED BY <1>1, <2>1, <2>2, <2>3, TypedHls, MasterTyped
<1>4. HlsFilled'
  BY <1>1 DEF HlsFilled, Known
<1>5. Counted'
  BY <1>1, <1>2, Typed DEF Counted, Known, Others
<1>6. HasRoom'
  BY <1>1, <1>2 DEF HasRoom
<1>7. Given'
  BY <1>1 DEF Given, Others
<1>8. Words'
  BY <1>1, <1>2, Typed DEF Words
<1>9. Rounds'
  BY <1>1, <1>2 DEF Rounds, Early, Rounded
<1>10. TreeKept'
  BY <1>1 DEF TreeKept
<1>11. TreeExact'
  BY <1>2 DEF TreeExact
<1> QED BY <1>3, <1>4, <1>5, <1>6, <1>7, <1>8, <1>9, <1>10, <1>11

LEMMA FillInactiveKeeps ==
  ASSUME BootInv, FillInactive
  PROVE  BootInv'
<1> USE SlotsAssumption DEF BootInv, Slots, Logical, NoSlot, masterVars, hartVars
<1>1. /\ mpc = "inactive"
      /\ UNCHANGED <<present, found, n, page, tree, mail, hpc, own>>
  BY DEF FillInactive
<1>2. \/ slotn + 1 \in Slots /\ slotn' = slotn + 1 /\ mpc' = mpc
      \/ slotn = NumSlots - 1 /\ slotn' = 0 /\ (mpc' = "halted" \/ mpc' = "setup")
  <2>1. slotn \in Slots
    BY DEF TypeOK
  <2>2. CASE slotn + 1 < NumSlots
    BY <2>1, <2>2 DEF FillInactive
  <2>3. CASE slotn + 1 >= NumSlots
    BY <2>1, <2>3 DEF FillInactive
  <2> QED BY <2>1, <2>2, <2>3
<1>3. slotn \notin found => /\ \A k \in Known : hls[k].slot # slotn
                            /\ hartn + 1 <= NumSlots
                            /\ MasterSlot < MaxHarts /\ slotn < MaxHarts => hartn + 1 <= MaxHarts
  <2> SUFFICES ASSUME slotn \notin found
               PROVE  /\ \A k \in Known : hls[k].slot # slotn
                      /\ hartn + 1 <= NumSlots
                      /\ MasterSlot < MaxHarts /\ slotn < MaxHarts => hartn + 1 <= MaxHarts
    OBVIOUS
  <2>1. slotn \in Slots /\ slotn < NumSlots /\ NumSlots \in Nat /\ MaxHarts \in Nat
    BY DEF TypeOK
  <2>2. \A k \in Known : hls[k].slot # slotn /\ hls[k].slot < NumSlots
    BY <1>1, <2>1 DEF HlsFilled, Counted, Known, Others
  <2>3. MasterSlot < MaxHarts /\ slotn < MaxHarts => \A k \in Known : hls[k].slot < MaxHarts
    BY <1>1, <2>1 DEF HlsFilled, Counted, Known, Others
  <2> QED BY <2>1, <2>2, <2>3, RoomLeft
<1>4. \/ /\ slotn \notin found /\ hartn < MaxHarts /\ hartn' = hartn + 1
         /\ hls' \in HlsType
         /\ \A k \in Logical : k # hartn => hls'[k] = hls[k]
         /\ hls'[hartn].slot = slotn /\ hls'[hartn].active = FALSE
         /\ hls'[hartn].hartid = NoSlot /\ hls'[hartn].state = "STOP"
      \/ (slotn \in found \/ hartn >= MaxHarts) /\ UNCHANGED <<hartn, hls>>
  <2>1. slotn \in Slots /\ hartn \in Nat /\ MaxHarts \in Nat /\ FALSE \in BOOLEAN
    BY DEF TypeOK
  <2>2. \/ /\ slotn \notin found /\ hartn < MaxHarts /\ hartn' = hartn + 1
           /\ hls' = [hls EXCEPT ![hartn] = HlsRecord(slotn, FALSE)]
        \/ (slotn \in found \/ hartn >= MaxHarts) /\ UNCHANGED <<hartn, hls>>
    <3>1. CASE slotn \notin found /\ hartn < MaxHarts
      BY <3>1 DEF FillInactive, InitHls
    <3>2. CASE slotn \in found \/ hartn >= MaxHarts
      <4>1. ~(slotn \notin found /\ hartn < MaxHarts)
        BY <2>1, <3>2
      <4>2. UNCHANGED <<hls, hartn>>
        BY <4>1 DEF FillInactive
      <4> QED BY <3>2, <4>2
    <3>3. slotn < MaxHarts \/ slotn >= MaxHarts
      BY <2>1
    <3>4. hartn < MaxHarts \/ hartn >= MaxHarts
      BY <2>1
    <3> QED BY <3>1, <3>2, <3>3, <3>4
  <2> QED BY <2>1, <2>2, HlsAdded
<1>5. TypeOK'
  <2>1. hls \in HlsType
    BY DEF TypeOK, HlsType
  <2>2. hls' \in HlsType
    BY <1>4, <2>1
  <2>3. hartn' = hartn \/ (hartn' = hartn + 1 /\ hartn + 1 <= NumSlots)
    BY <1>3, <1>4
  <2>4. hartn' \in 1 .. NumSlots
    BY <2>3, Typed
  <2>5. mpc' \in MasterPcs
    BY <1>1, <1>2 DEF MasterPcs
  <2>7. slotn' \in Slots /\ found' \subseteq Slots
    BY <1>1, <1>2, Typed
  <2>6. n' \in 1 .. NumSlots
    BY <1>1, Typed
  <2> QED BY <1>1, <2>2, <2>4, <2>5, <2>6, <2>7, MasterTyped
<1>6. HlsFilled'
  BY <1>3, <1>4, Typed DEF HlsFilled, Known
<1>7. Counted'
  <2>1. \A k \in 1 .. hartn' - 1 : hls'[k].active <=> hls'[k].slot \in found
    BY <1>4, Typed DEF Counted, Others
  <2>2. \A k \in 1 .. hartn' - 1 : hls'[k].active => hls'[k].slot < MaxHarts
    BY <1>4, Typed DEF Counted, Others
  <2>3. mpc' = "inactive" => \A k \in 1 .. hartn' - 1 : hls'[k].active \/ hls'[k].slot < slotn'
    BY <1>2, <1>4, Typed DEF Counted, Others, HlsFilled, Known
  <2>4. \A s \in found : s < MaxHarts => \E k \in 0 .. hartn' - 1 : hls'[k].slot = s
    BY <1>4, Typed DEF Counted, Known
  <2> QED BY <1>1, <1>2, <2>1, <2>2, <2>3, <2>4 DEF Counted, Known, Others
<1>8. HasRoom'
  <2> SUFFICES ASSUME MasterSlot < MaxHarts
               PROVE  /\ hartn' <= MaxHarts
                      /\ \A s \in Slots :
                           /\ s < MaxHarts
                           /\ mpc' \notin {"probe", "avail"} /\ (mpc' = "inactive" => s < slotn')
                           => \E k \in 0 .. hartn' - 1 : hls'[k].slot = s
    BY DEF HasRoom, Known
  <2>1. hartn' <= MaxHarts
    BY <1>4, Typed DEF HasRoom
  <2>2. \A s \in Slots : s < MaxHarts /\ s < slotn => \E k \in 0 .. hartn' - 1 : hls'[k].slot = s
    BY <1>1, <1>4, Typed DEF HasRoom, Known
  <2>3. slotn < MaxHarts => \E k \in 0 .. hartn' - 1 : hls'[k].slot = slotn
    <3>1. CASE slotn \in found
      <4>1. slotn < MaxHarts => \E k \in Known \cup {0} : hls[k].slot = slotn
        BY <3>1 DEF Counted
      <4> QED BY <1>4, <3>1, <4>1, Typed DEF Known
    <3>2. CASE slotn \notin found
      BY <1>3, <1>4, <3>2, Typed
    <3> QED BY <3>1, <3>2
  <2>4. \A s \in Slots : (mpc' = "inactive" => s < slotn') => s < slotn \/ s = slotn
    BY <1>1, <1>2, Typed
  <2> QED BY <2>1, <2>2, <2>3, <2>4
<1>9. Given'
  BY <1>1, <1>4, Typed DEF Given, Others
<1>10. Words'
  BY <1>1, <1>2 DEF Words
<1>11. Rounds'
  BY <1>1, <1>2, <1>4, Typed DEF Rounds, HlsFilled, Known, Others, Early, Rounded
<1>12. TreeKept'
  BY <1>1 DEF TreeKept
<1>13. TreeExact'
  BY <1>1, <1>2 DEF TreeExact
<1> QED BY <1>5, <1>6, <1>7, <1>8, <1>9, <1>10, <1>11, <1>12, <1>13

LEMMA SkipSetupKeeps ==
  ASSUME BootInv, mpc = "setup", SkipHart
  PROVE  BootInv'
<1> USE SlotsAssumption DEF BootInv, Slots, Logical, NoSlot, masterVars, hartVars
<1>1. /\ ~(n < hartn /\ hls[n].active)
      /\ UNCHANGED <<present, slotn, found, hartn, page, hls, tree, mail, hpc, own>>
  BY DEF SkipHart
<1>2. \/ n + 1 < hartn /\ n' = n + 1 /\ mpc' = "setup"
      \/ n + 1 >= hartn /\ n' = 1 /\ mpc' = "machine"
  <2>1. NextHart("setup")
    BY DEF SkipHart
  <2> QED BY <2>1, NextHartCases
<1>3. TypeOK'
  <2>1. mpc' \in MasterPcs
    BY <1>2 DEF MasterPcs
  <2>3. slotn' \in Slots /\ found' \subseteq Slots
    BY <1>1, <1>2, Typed
  <2>2. hartn' \in 1 .. NumSlots /\ n' \in 1 .. NumSlots
    BY <1>1, <1>2, Typed
  <2> QED BY <1>1, <2>1, <2>2, <2>3, TypedHls, MasterTyped
<1>4. HlsFilled'
  BY <1>1 DEF HlsFilled, Known
<1>5. Counted'
  BY <1>1, <1>2 DEF Counted, Known, Others
<1>6. HasRoom'
  BY <1>1 DEF HasRoom, Known
<1>7. Given'
  BY <1>1 DEF Given, Others
<1>8. Words'
  BY <1>1, <1>2 DEF Words
<1>9. Rounds'
  BY <1>1, <1>2, Typed DEF Rounds, Others, Early, Rounded
<1>10. TreeKept'
  BY <1>1 DEF TreeKept
<1>11. TreeExact'
  BY <1>2 DEF TreeExact
<1> QED BY <1>3, <1>4, <1>5, <1>6, <1>7, <1>8, <1>9, <1>10, <1>11

LEMMA SkipStartKeeps ==
  ASSUME BootInv, mpc = "start", SkipHart
  PROVE  BootInv'
<1> USE SlotsAssumption DEF BootInv, Slots, Logical, NoSlot, masterVars, hartVars
<1>1. /\ ~(n < hartn /\ hls[n].active)
      /\ UNCHANGED <<present, slotn, found, hartn, page, hls, tree, mail, hpc, own>>
  BY DEF SkipHart
<1>2. \/ n + 1 < hartn /\ n' = n + 1 /\ mpc' = "start"
      \/ n + 1 >= hartn /\ n' = 1 /\ mpc' = "dtb"
  <2>1. NextHart("start")
    BY DEF SkipHart
  <2> QED BY <2>1, NextHartCases
<1>3. TypeOK'
  <2>1. mpc' \in MasterPcs
    BY <1>2 DEF MasterPcs
  <2>3. slotn' \in Slots /\ found' \subseteq Slots
    BY <1>1, <1>2, Typed
  <2>2. hartn' \in 1 .. NumSlots /\ n' \in 1 .. NumSlots
    BY <1>1, <1>2, Typed
  <2> QED BY <1>1, <2>1, <2>2, <2>3, TypedHls, MasterTyped
<1>4. HlsFilled'
  BY <1>1 DEF HlsFilled, Known
<1>5. Counted'
  BY <1>1, <1>2 DEF Counted, Known, Others
<1>6. HasRoom'
  BY <1>1 DEF HasRoom, Known
<1>7. Given'
  BY <1>1 DEF Given, Others
<1>8. Words'
  BY <1>1, <1>2 DEF Words
<1>9. Rounds'
  BY <1>1, <1>2, Typed DEF Rounds, Others, Early, Rounded
<1>10. TreeKept'
  BY <1>1 DEF TreeKept
<1>11. TreeExact'
  BY <1>2 DEF TreeExact
<1> QED BY <1>3, <1>4, <1>5, <1>6, <1>7, <1>8, <1>9, <1>10, <1>11

LEMMA SendSetupKeeps ==
  ASSUME BootInv, SendSetup
  PROVE  BootInv'
<1> USE SlotsAssumption DEF BootInv, Slots, Logical, NoSlot, masterVars, hartVars
<1>1. /\ mpc = "setup" /\ mpc' = "pendwait" /\ n < hartn /\ hls[n].active
      /\ mail' = [mail EXCEPT ![hls[n].slot] = SETUP(n)]
      /\ UNCHANGED <<present, slotn, found, hartn, n, page, hls, tree, hpc, own>>
  BY DEF SendSetup, SendTo
<1>2. n \in Others /\ hls[n].slot \in Slots /\ own[hls[n].slot] = 0 /\ SETUP(n) \in {SETUP(k) : k \in Logical}
  BY <1>1 DEF Others, Known, HlsFilled, Rounds, TypeOK
<1>3. TypeOK'
  BY <1>1, <1>2 DEF TypeOK
<1>4. /\ mail'[hls[n].slot] = SETUP(n)
      /\ \A s \in Slots : s # hls[n].slot => mail'[s] = mail[s]
  BY <1>1, <1>2 DEF TypeOK
<1>5. HlsFilled'
  BY <1>1 DEF HlsFilled, Known
<1>6. Counted'
  BY <1>1 DEF Counted, Known, Others
<1>7. HasRoom'
  BY <1>1 DEF HasRoom, Known
<1>8. Given'
  BY <1>1 DEF Given, Others
<1>9. Words'
  BY <1>1, <1>2, WordsDiffer DEF Words
<1>10. Rounds'
  BY <1>1, <1>2 DEF Rounds, Others, Early, Rounded
<1>11. TreeKept'
  BY <1>1 DEF TreeKept
<1>12. TreeExact'
  BY <1>1 DEF TreeExact
<1> QED BY <1>3, <1>5, <1>6, <1>7, <1>8, <1>9, <1>10, <1>11, <1>12

LEMMA SendStartKeeps ==
  ASSUME BootInv, SendStart
  PROVE  BootInv'
<1> USE SlotsAssumption DEF BootInv, Slots, Logical, NoSlot, masterVars, hartVars
<1>1. /\ mpc = "start" /\ mpc' = "startwait" /\ n < hartn /\ hls[n].active
      /\ mail' = [mail EXCEPT ![hls[n].slot] = START]
      /\ UNCHANGED <<present, slotn, found, hartn, n, page, hls, tree, hpc, own>>
  BY DEF SendStart, SendTo
<1>2. n \in Others /\ hls[n].slot \in Slots /\ hls[n].slot \in found /\ hpc[hls[n].slot] = "pending"
  BY <1>1 DEF Others, Rounds, Counted, Rounded, TypeOK
<1>3. TypeOK'
  BY <1>1 DEF TypeOK
<1>4. /\ mail'[hls[n].slot] = START
      /\ \A s \in Slots : s # hls[n].slot => mail'[s] = mail[s]
  BY <1>1, <1>2 DEF TypeOK
<1>5. HlsFilled'
  BY <1>1 DEF HlsFilled, Known
<1>6. Counted'
  BY <1>1 DEF Counted, Known, Others
<1>7. HasRoom'
  BY <1>1 DEF HasRoom, Known
<1>8. Given'
  BY <1>1 DEF Given, Others
<1>9. Words'
  BY <1>1, <1>2, WordsDiffer DEF Words
<1>10. Rounds'
  BY <1>1, <1>2 DEF Rounds, Others, Early, Rounded
<1>11. TreeKept'
  BY <1>1 DEF TreeKept
<1>12. TreeExact'
  BY <1>1 DEF TreeExact
<1> QED BY <1>3, <1>5, <1>6, <1>7, <1>8, <1>9, <1>10, <1>11, <1>12

LEMMA AwaitPendingKeeps ==
  ASSUME BootInv, AwaitState("pendwait", "START_PENDING", "setup")
  PROVE  BootInv'
<1> USE SlotsAssumption DEF BootInv, Slots, Logical, NoSlot, masterVars, hartVars
<1>1. /\ mpc = "pendwait" /\ hls[n].state = "START_PENDING"
      /\ UNCHANGED <<present, slotn, found, hartn, page, hls, tree, mail, hpc, own>>
  BY DEF AwaitState
<1>2. \/ n + 1 < hartn /\ n' = n + 1 /\ mpc' = "setup"
      \/ n + 1 >= hartn /\ n' = 1 /\ mpc' = "machine"
  <2>1. NextHart("setup")
    BY DEF AwaitState
  <2> QED BY <2>1, NextHartCases
<1>3. n \in Others /\ n < hartn /\ own[hls[n].slot] = n
  <2>1. n \in Others /\ n < hartn
    BY <1>1, Typed DEF Others, Rounds
  <2> QED BY <1>1, <2>1 DEF Given
<1>4. \A s \in Slots : mail[s].cmd # "SETUP"
  BY <1>3 DEF Words, Others
<1>5. TypeOK'
  BY <1>1, <1>2, WordsDiffer DEF TypeOK
<1>6. HlsFilled'
  BY <1>1 DEF HlsFilled, Known
<1>7. Counted'
  BY <1>1, <1>2 DEF Counted, Known, Others
<1>8. HasRoom'
  BY <1>1 DEF HasRoom, Known
<1>9. Given'
  BY <1>1 DEF Given, Others
<1>10. Words'
  BY <1>1, <1>2, <1>4, WordsDiffer, Typed DEF Words
<1>11. Rounds'
  BY <1>1, <1>2, <1>3, Typed DEF Rounds, Others, Early, Rounded
<1>12. TreeKept'
  BY <1>1 DEF TreeKept
<1>13. TreeExact'
  BY <1>2 DEF TreeExact
<1> QED BY <1>5, <1>6, <1>7, <1>8, <1>9, <1>10, <1>11, <1>12, <1>13

LEMMA AwaitStartedKeeps ==
  ASSUME BootInv, AwaitState("startwait", "START", "start")
  PROVE  BootInv'
<1> USE SlotsAssumption DEF BootInv, Slots, Logical, NoSlot, masterVars, hartVars
<1>1. /\ mpc = "startwait" /\ hls[n].state = "START"
      /\ UNCHANGED <<present, slotn, found, hartn, page, hls, tree, mail, hpc, own>>
  BY DEF AwaitState
<1>2. \/ n + 1 < hartn /\ n' = n + 1 /\ mpc' = "start"
      \/ n + 1 >= hartn /\ n' = 1 /\ mpc' = "dtb"
  <2>1. NextHart("start")
    BY DEF AwaitState
  <2> QED BY <2>1, NextHartCases
<1>3. n \in Others /\ n < hartn /\ hpc[hls[n].slot] \in {"held", "enter"}
  BY <1>1 DEF Others, Rounds, Given, TypeOK
<1>4. \A s \in Slots : mail[s] # START
  BY <1>3 DEF Words
<1>5. TypeOK'
  <2>1. mpc' \in MasterPcs
    BY <1>2 DEF MasterPcs
  <2>3. slotn' \in Slots /\ found' \subseteq Slots
    BY <1>1, <1>2, Typed
  <2>2. hartn' \in 1 .. NumSlots /\ n' \in 1 .. NumSlots
    BY <1>1, <1>2, Typed
  <2> QED BY <1>1, <2>1, <2>2, <2>3, TypedHls, MasterTyped
<1>6. HlsFilled'
  BY <1>1 DEF HlsFilled, Known
<1>7. Counted'
  BY <1>1, <1>2 DEF Counted, Known, Others
<1>8. HasRoom'
  BY <1>1 DEF HasRoom, Known
<1>9. Given'
  BY <1>1 DEF Given, Others
<1>10. Words'
  BY <1>1, <1>2, <1>4 DEF Words
<1>11. Rounds'
  BY <1>1, <1>2, <1>3 DEF Rounds, Others, Early, Rounded
<1>12. TreeKept'
  BY <1>1 DEF TreeKept
<1>13. TreeExact'
  BY <1>2 DEF TreeExact
<1> QED BY <1>5, <1>6, <1>7, <1>8, <1>9, <1>10, <1>11, <1>12, <1>13

LEMMA StartMasterKeeps ==
  ASSUME BootInv, StartMaster
  PROVE  BootInv'
<1> USE SlotsAssumption DEF BootInv, Slots, Logical, NoSlot, masterVars, hartVars
<1>1. /\ mpc = "machine" /\ page' = FALSE /\ mpc' = "start"
      /\ UNCHANGED <<present, slotn, found, hartn, n, tree, mail, hpc, own>>
  BY DEF StartMaster
<1>2. /\ hls' \in HlsType
      /\ \A k \in Logical : k # 0 => hls'[k] = hls[k]
      /\ hls'[0].slot = hls[0].slot /\ hls'[0].active = hls[0].active /\ hls'[0].hartid = hls[0].hartid
  <2>1. 0 \in Logical /\ hls' = [hls EXCEPT ![0].state = "START"]
    BY DEF StartMaster
  <2> QED BY <2>1, HlsState
<1>3. TypeOK'
  BY <1>1, <1>2, WordsDiffer DEF TypeOK, HlsType
<1>4. HlsFilled'
  BY <1>1, <1>2, WordsDiffer, Typed DEF HlsFilled, Known, Others, Early, Rounded
<1>5. Counted'
  BY <1>1, <1>2, Typed DEF Counted, Known, Others
<1>6. HasRoom'
  BY <1>1, <1>2, Typed DEF HasRoom, Known
<1>7. Given'
  BY <1>1, <1>2, Typed DEF Given, Others
<1>8. Words'
  BY <1>1 DEF Words
<1>9. Rounds'
  BY <1>1, <1>2, Typed DEF Rounds, Others, Early, Rounded
<1>10. TreeKept'
  BY <1>1 DEF TreeKept
<1>11. TreeExact'
  BY <1>1 DEF TreeExact
<1> QED BY <1>3, <1>4, <1>5, <1>6, <1>7, <1>8, <1>9, <1>10, <1>11

LEMMA InitDtbKeeps ==
  ASSUME BootInv, InitDtb
  PROVE  BootInv'
<1> USE SlotsAssumption DEF BootInv, Slots, Logical, NoSlot, masterVars, hartVars
<1>1. /\ mpc = "dtb" /\ mpc' = "run"
      /\ UNCHANGED <<present, slotn, found, hartn, n, page, hls, mail, hpc, own>>
  BY DEF InitDtb
<1>2. \A s \in Slots : (\A k \in Known : hls[k].slot # s) => tree'[s] = tree[s]
  BY DEF InitDtb, Known
<1>3. \A s \in Slots : (\E k \in Known : hls[k].slot = s)
                       => \E k \in Known : hls[k].slot = s /\ tree'[s] = Node(k)
  BY DEF InitDtb, Known
<1>4. TypeOK'
  <2>1. \A k \in Known : Node(k) \in [status : {"okay", "fail"}, reg : Logical, clk : Slots \cup {NoSlot}]
    BY DEF Node, Known, HlsFilled, HlsEntry, TypeOK
  <2>2. tree' = [s \in Slots |-> tree'[s]]
    BY DEF InitDtb
  <2>3. \A s \in Slots : tree'[s] \in [status : {"okay", "fail"}, reg : Logical, clk : Slots \cup {NoSlot}]
    <3> TAKE s \in Slots
    <3>1. CASE \A k \in Known : hls[k].slot # s
      BY <1>2, <3>1 DEF TypeOK
    <3>2. CASE \E k \in Known : hls[k].slot = s
      BY <1>3, <2>1, <3>2
    <3> QED BY <3>1, <3>2
  <2>4. tree' \in [Slots -> [status : {"okay", "fail"}, reg : Logical, clk : Slots \cup {NoSlot}]]
    BY <2>2, <2>3
  <2> QED BY <1>1, <2>4 DEF TypeOK
<1>5. HlsFilled'
  BY <1>1 DEF HlsFilled, Known
<1>6. Counted'
  BY <1>1 DEF Counted, Known, Others
<1>7. HasRoom'
  BY <1>1 DEF HasRoom, Known
<1>8. Given'
  BY <1>1 DEF Given, Others
<1>9. Words'
  BY <1>1 DEF Words
<1>10. Rounds'
  BY <1>1 DEF Rounds, Others, Early, Rounded
<1>11. TreeKept'
  BY <1>1 DEF TreeKept
<1>12. TreeExact'
  <2> SUFFICES ASSUME MasterSlot < MaxHarts, NEW s \in Slots
               PROVE  /\ tree'[s].status = "okay" <=> s = MasterSlot \/ own[s] # 0
                      /\ tree'[s].status = "okay" => tree'[s].reg = own[s] /\ tree'[s].clk = s
    BY <1>1 DEF TreeExact
  <2>1. CASE \A k \in Known : hls[k].slot # s
    <3>1. ~(s < MaxHarts) /\ s # MasterSlot
      BY <1>1, <2>1 DEF HasRoom
    <3>2. own[s] = 0
      BY <2>1 DEF Given, Others, Known
    <3> QED BY <1>1, <1>2, <2>1, <3>1, <3>2 DEF TreeKept
  <2>2. CASE \E k \in Known : hls[k].slot = s
    <3>1. PICK k \in Known : hls[k].slot = s /\ tree'[s] = Node(k)
      BY <1>3, <2>2
    <3>2. hls[k].active <=> s = MasterSlot \/ own[s] # 0
      BY <1>1, <3>1, Typed DEF Given, HlsFilled, Rounds, Rounded, Others, Known
    <3>3. hls[k].active => s < hartn /\ hls[k].hartid = s /\ own[s] = k
      BY <1>1, <3>1, SlotsBelow DEF Given, HlsFilled, Rounds, Rounded, Others, Known
    <3> QED BY <3>1, <3>2, <3>3, Typed DEF Node
  <2> QED BY <2>1, <2>2
<1> QED BY <1>4, <1>5, <1>6, <1>7, <1>8, <1>9, <1>10, <1>11, <1>12

LEMMA LetGoKeeps ==
  ASSUME BootInv, LetGo
  PROVE  BootInv'
<1> USE SlotsAssumption DEF BootInv, Slots, Logical, NoSlot, masterVars, hartVars
<1>1. TypeOK'
  BY DEF LetGo, TypeOK
<1>2. HlsFilled'
  BY DEF HlsFilled, LetGo, Known
<1>3. Counted'
  BY DEF Counted, LetGo, Known, Others
<1>4. HasRoom'
  BY DEF HasRoom, LetGo, Known
<1>5. Given'
  BY DEF Given, LetGo, Others
<1>6. Words'
  BY DEF Words, LetGo
<1>7. Rounds'
  BY DEF Rounds, LetGo, Others, Early, Rounded
<1>8. TreeKept'
  BY DEF TreeKept, LetGo
<1>9. TreeExact'
  BY DEF TreeExact, LetGo
<1> QED BY <1>1, <1>2, <1>3, <1>4, <1>5, <1>6, <1>7, <1>8, <1>9

LEMMA TakeResetKeeps ==
  ASSUME BootInv, NEW h \in Secondaries, TakeReset(h)
  PROVE  BootInv'
<1> USE SlotsAssumption DEF BootInv, Slots, Logical, NoSlot, masterVars, hartVars
<1>1. h \in Slots /\ h # MasterSlot
  BY DEF Secondaries, TypeOK
<1>2. /\ hpc[h] = "S" /\ mail[h] # NoWord
      /\ mail' = [mail EXCEPT ![h] = NoWord]
      /\ \/ hpc' = [hpc EXCEPT ![h] = "reset"]
         \/ hpc' = [hpc EXCEPT ![h] = "halted"]
      /\ UNCHANGED <<present, mpc, slotn, found, hartn, n, page, hls, tree, own>>
  BY DEF TakeReset, Read, HGoto
<1>3. TypeOK'
  BY <1>2 DEF TypeOK
<1>4. /\ \A s \in Slots : s # h => mail'[s] = mail[s] /\ hpc'[s] = hpc[s]
      /\ mail'[h] = NoWord /\ hpc'[h] \in {"reset", "halted"}
  BY <1>1, <1>2 DEF TypeOK
<1>5. HlsFilled'
  BY <1>2 DEF HlsFilled, Known
<1>6. Counted'
  BY <1>2 DEF Counted, Known, Others
<1>7. HasRoom'
  BY <1>2 DEF HasRoom, Known
<1>8. Given'
  BY <1>2, <1>4 DEF Given, HlsFilled, Known, Others
<1>9. Words'
  BY <1>2, <1>4, WordsDiffer DEF Words
<1>10. Rounds'
  BY <1>2, <1>4 DEF Rounds, HlsFilled, Known, Others
<1>11. TreeKept'
  BY <1>2, <1>4 DEF TreeKept
<1>12. TreeExact'
  BY <1>2 DEF TreeExact
<1> QED BY <1>3, <1>5, <1>6, <1>7, <1>8, <1>9, <1>10, <1>11, <1>12

LEMMA ClearMailKeeps ==
  ASSUME BootInv, NEW h \in Secondaries, ClearMail(h)
  PROVE  BootInv'
<1> USE SlotsAssumption DEF BootInv, Slots, Logical, NoSlot, masterVars, hartVars
<1>1. h \in Slots /\ h # MasterSlot
  BY DEF Secondaries, TypeOK
<1>2. /\ hpc[h] = "reset"
      /\ \/ mail' = [mail EXCEPT ![h] = NoWord] /\ hpc' = hpc
         \/ mail' = mail /\ hpc' = [hpc EXCEPT ![h] = "parked"]
      /\ UNCHANGED <<present, mpc, slotn, found, hartn, n, page, hls, tree, own>>
  BY DEF ClearMail, Read, HGoto
<1>3. TypeOK'
  BY <1>2 DEF TypeOK
<1>4. /\ \A s \in Slots : s # h => mail'[s] = mail[s] /\ hpc'[s] = hpc[s]
      /\ mail'[h] \in {NoWord, mail[h]} /\ hpc'[h] \in {"reset", "parked"}
  BY <1>2 DEF TypeOK
<1>5. HlsFilled'
  BY <1>2 DEF HlsFilled, Known
<1>6. Counted'
  BY <1>2 DEF Counted, Known, Others
<1>7. HasRoom'
  BY <1>2 DEF HasRoom, Known
<1>8. Given'
  BY <1>2, <1>4 DEF Given, HlsFilled, Known, Others
<1>9. Words'
  BY <1>2, <1>4, WordsDiffer DEF Words
<1>10. Rounds'
  BY <1>2, <1>4 DEF Rounds, HlsFilled, Known, Others
<1>11. TreeKept'
  BY <1>2, <1>4 DEF TreeKept
<1>12. TreeExact'
  BY <1>2 DEF TreeExact
<1> QED BY <1>3, <1>5, <1>6, <1>7, <1>8, <1>9, <1>10, <1>11, <1>12

LEMMA WaitSetupKeeps ==
  ASSUME BootInv, NEW h \in Secondaries, WaitSetup(h)
  PROVE  BootInv'
<1> USE SlotsAssumption DEF BootInv, Slots, Logical, NoSlot, masterVars, hartVars
<1>1. h \in Slots /\ h # MasterSlot
  BY DEF Secondaries, TypeOK
<1>2. /\ hpc[h] = "parked" /\ mail[h] # NoWord
      /\ mail' = [mail EXCEPT ![h] = NoWord]
      /\ UNCHANGED <<present, mpc, slotn, found, hartn, n, page, tree>>
  BY DEF WaitSetup, Read
<1>3. mail[h].cmd = "SETUP" => /\ mpc = "pendwait" /\ mail[h].data = n
                               /\ n \in Others /\ n \in Logical /\ hls[n].slot = h /\ hls[n].active
  <2> SUFFICES ASSUME mail[h].cmd = "SETUP"
               PROVE  /\ mpc = "pendwait" /\ mail[h].data = n
                      /\ n \in Others /\ n \in Logical /\ hls[n].slot = h /\ hls[n].active
    OBVIOUS
  <2>1. mpc = "pendwait" /\ hls[n].slot = h
    BY <1>1 DEF Words
  <2>2. n \in Others /\ n \in Logical /\ hls[n].active
    BY <2>1 DEF Rounds, Others, TypeOK
  <2>3. mail[h] = SETUP(n)
    BY <1>1, WordsDiffer DEF Words
  <2> QED BY <2>1, <2>2, <2>3, WordsDiffer
<1>4. \/ /\ mail[h].cmd = "SETUP"
         /\ own' = [own EXCEPT ![h] = n] /\ hpc' = [hpc EXCEPT ![h] = "pending"]
         /\ hls' \in HlsType
         /\ \A k \in Logical : k # n => hls'[k] = hls[k]
         /\ hls'[n].slot = h /\ hls'[n].active = TRUE /\ hls'[n].hartid = h /\ hls'[n].state = "START_PENDING"
      \/ mail[h].cmd # "SETUP" /\ UNCHANGED <<hls, own, hpc>>
  <2>1. CASE mail[h].cmd = "SETUP"
    <3>1. n \in Logical /\ hls[n].active = TRUE
      BY <1>3, <2>1
    <3>2. /\ own' = [own EXCEPT ![h] = n] /\ hpc' = [hpc EXCEPT ![h] = "pending"]
          /\ hls' = [hls EXCEPT ![n] = FillHls(@, h)]
      BY <1>3, <2>1 DEF WaitSetup, HGoto
    <3>3. /\ hls' \in HlsType /\ \A k \in Logical : k # n => hls'[k] = hls[k]
          /\ hls'[n].slot = h /\ hls'[n].active = TRUE /\ hls'[n].hartid = h /\ hls'[n].state = "START_PENDING"
      <4>1. TypeOK /\ hls[n].slot = h
        BY <1>3, <2>1
      <4>2. hls' = [hls EXCEPT ![n] = FillHls(@, h)]
        BY <3>2
      <4>3. /\ hls' \in HlsType /\ \A k \in Logical : k # n => hls'[k] = hls[k]
            /\ hls'[n].slot = hls[n].slot /\ hls'[n].active = hls[n].active
            /\ hls'[n].hartid = h /\ hls'[n].state = "START_PENDING"
        BY <1>1, <3>1, <4>1, <4>2, HlsFill, Zenon
      <4> QED BY <3>1, <4>1, <4>3
    <3> QED BY <2>1, <3>2, <3>3
  <2>2. CASE mail[h].cmd # "SETUP"
    BY <2>2 DEF WaitSetup
  <2> QED BY <2>1, <2>2
<1>5. TypeOK'
  <2>1. hls' \in HlsType
    BY <1>4, TypedHls
  <2>2. mail' \in [Slots -> {NoWord, RESET, START} \cup { SETUP(k) : k \in Logical }]
    BY <1>2 DEF TypeOK
  <2>3. own' \in [Slots -> Logical]
    BY <1>3, <1>4 DEF TypeOK
  <2>4. hpc' \in [Slots -> HartPcs]
    <3>1. hpc \in [Slots -> HartPcs] /\ "pending" \in HartPcs
      BY DEF TypeOK, HartPcs
    <3> QED BY <1>4, <3>1
  <2> QED BY <1>2, <2>1, <2>2, <2>3, <2>4, HartTyped
<1>6. /\ \A s \in Slots : s # h => mail'[s] = mail[s] /\ hpc'[s] = hpc[s] /\ own'[s] = own[s]
      /\ mail'[h] = NoWord
      /\ mail[h].cmd = "SETUP" => own'[h] = n /\ hpc'[h] = "pending"
  BY <1>1, <1>2, <1>4 DEF TypeOK
<1>7. HlsFilled'
  BY <1>2, <1>3, <1>4, Typed DEF HlsFilled, Known
<1>8. Counted'
  BY <1>2, <1>3, <1>4, Typed DEF Counted, Known, Others
<1>9. HasRoom'
  BY <1>2, <1>3, <1>4, Typed DEF HasRoom, Known
<1>10. Given'
  <2>1. CASE mail[h].cmd = "SETUP"
    <3>1. /\ n \in Others /\ hls[n].slot = h /\ own'[h] = n /\ hpc'[h] = "pending" /\ n # 0
          /\ own[h] = 0 /\ hpc[h] = "parked"
      BY <1>1, <1>2, <1>3, <1>6, <2>1, Typed DEF Given, Others
    <3>2. \A k \in Others : hls[k].slot = h => k = n
      BY <1>3, <2>1, Typed DEF HlsFilled, Known, Others
    <3>3. /\ \A k \in Logical : k # n => hls'[k] = hls[k]
          /\ hls'[n].slot = h /\ hls'[n].active /\ hls'[n].hartid = h
          /\ hls'[n].state = "START_PENDING"
      BY <1>4, <2>1
    <3>4. Others' = Others /\ Others \subseteq Logical
      BY <1>2, Typed DEF Others
    <3>5. \A s \in Slots : own'[s] # 0 =>
            /\ own'[s] \in Others
            /\ hls'[own'[s]].slot = s /\ hls'[own'[s]].active /\ hls'[own'[s]].hartid = s
      BY <1>6, <3>1, <3>2, <3>3, <3>4 DEF Given
    <3>6. /\ \A s \in Slots : own'[s] # 0 <=> hpc'[s] \in {"pending", "slave", "held", "enter"}
          /\ hpc'[MasterSlot] = "absent"
      BY <1>1, <1>6, <3>1 DEF Given
    <3>7. \A k \in Others :
            /\ hls'[k].state # "STOP" => own'[hls'[k].slot] = k
            /\ hls'[k].state = "START" => hpc'[hls'[k].slot] \in {"held", "enter"}
            /\ own'[hls'[k].slot] = 0 => hls'[k].hartid = NoSlot
      BY <1>6, <3>1, <3>2, <3>3, <3>4 DEF Given, HlsFilled, Known, Others
    <3> QED BY <3>4, <3>5, <3>6, <3>7 DEF Given
  <2>2. CASE mail[h].cmd # "SETUP"
    BY <1>2, <1>4, <2>2 DEF Given, Others
  <2> QED BY <2>1, <2>2
<1>11. Words'
  BY <1>2, <1>3, <1>4, <1>6, WordsDiffer DEF Words
<1>12. Rounds'
  BY <1>2, <1>3, <1>4, <1>6, Typed DEF Rounds, HlsFilled, Known, Others, Early, Rounded
<1>13. TreeKept'
  BY <1>2, <1>4, <1>6 DEF TreeKept
<1>14. TreeExact'
  BY <1>2, <1>3, <1>4 DEF TreeExact
<1> QED BY <1>5, <1>7, <1>8, <1>9, <1>10, <1>11, <1>12, <1>13, <1>14

LEMMA WaitStartKeeps ==
  ASSUME BootInv, NEW h \in Secondaries, WaitStart(h)
  PROVE  BootInv'
<1> USE SlotsAssumption DEF BootInv, Slots, Logical, NoSlot, masterVars, hartVars
<1>1. h \in Slots /\ h # MasterSlot
  BY DEF Secondaries, TypeOK
<1>2. /\ hpc[h] = "pending" /\ mail[h] # NoWord
      /\ mail' = [mail EXCEPT ![h] = NoWord]
      /\ \/ mail[h] = START /\ hpc' = [hpc EXCEPT ![h] = "slave"]
         \/ mail[h] # START /\ hpc' = [hpc EXCEPT ![h] = "pending"]
      /\ UNCHANGED <<present, mpc, slotn, found, hartn, n, page, hls, tree, own>>
  BY DEF WaitStart, Read, HGoto
<1>3. TypeOK'
  BY <1>2 DEF TypeOK
<1>4. /\ \A s \in Slots : s # h => mail'[s] = mail[s] /\ hpc'[s] = hpc[s]
      /\ mail'[h] = NoWord
      /\ hpc'[h] = "pending" \/ (hpc'[h] = "slave" /\ mpc = "startwait" /\ hls[n].slot = h)
  <2>1. mail[h] = START => mpc = "startwait" /\ hls[n].slot = h
    BY <1>1 DEF Words
  <2> QED BY <1>1, <1>2, <2>1 DEF TypeOK
<1>5. HlsFilled'
  BY <1>2 DEF HlsFilled, Known
<1>6. Counted'
  BY <1>2 DEF Counted, Known, Others
<1>7. HasRoom'
  BY <1>2 DEF HasRoom, Known
<1>8. Given'
  BY <1>2, <1>4 DEF Given, HlsFilled, Known, Others
<1>9. Words'
  BY <1>2, <1>4, WordsDiffer DEF Words
<1>10. Rounds'
  BY <1>2, <1>4, Typed DEF Rounds, HlsFilled, Known, Others
<1>11. TreeKept'
  BY <1>2, <1>4 DEF TreeKept
<1>12. TreeExact'
  BY <1>2 DEF TreeExact
<1> QED BY <1>3, <1>5, <1>6, <1>7, <1>8, <1>9, <1>10, <1>11, <1>12

LEMMA SlaveStartKeeps ==
  ASSUME BootInv, NEW h \in Secondaries, SlaveStart(h)
  PROVE  BootInv'
<1> USE SlotsAssumption DEF BootInv, Slots, Logical, NoSlot, masterVars, hartVars
<1>1. h \in Slots /\ h # MasterSlot
  BY DEF Secondaries, TypeOK
<1>2. /\ hpc[h] = "slave" /\ hpc' = [hpc EXCEPT ![h] = "held"]
      /\ UNCHANGED <<present, mpc, slotn, found, hartn, n, page, tree, mail, own>>
  BY DEF SlaveStart, HGoto
<1>3. PICK k \in Others : own[h] = k /\ k \in Logical /\ hls[k].slot = h
  BY <1>1, <1>2 DEF Given, TypeOK
<1>4. /\ hls' \in HlsType
      /\ \A j \in Logical : j # k => hls'[j] = hls[j]
      /\ hls'[k].slot = h /\ hls'[k].active = hls[k].active
      /\ hls'[k].hartid = hls[k].hartid /\ hls'[k].state = "START"
  <2>1. hls' = [hls EXCEPT ![k].state = "START"]
    BY <1>3 DEF SlaveStart
  <2> QED BY <1>3, <2>1, HlsState
<1>5. TypeOK'
  BY <1>1, <1>2, <1>4, WordsDiffer, Typed DEF TypeOK, HlsType
<1>6. hpc'[h] = "held" /\ \A s \in Slots : s # h => hpc'[s] = hpc[s]
  BY <1>1, <1>2 DEF TypeOK
<1>7. HlsFilled'
  BY <1>2, <1>3, <1>4, Typed DEF HlsFilled, Known
<1>8. Counted'
  BY <1>2, <1>3, <1>4, Typed DEF Counted, Known, Others
<1>9. HasRoom'
  BY <1>2, <1>3, <1>4, Typed DEF HasRoom, Known
<1>10. Given'
  BY <1>2, <1>3, <1>4, <1>6, Typed DEF Given, Others
<1>11. Words'
  BY <1>2, <1>3, <1>4, Typed DEF Words
<1>12. Rounds'
  BY <1>2, <1>3, <1>4, Typed DEF Rounds, Others
<1>13. TreeKept'
  BY <1>2 DEF TreeKept
<1>14. TreeExact'
  BY <1>2 DEF TreeExact
<1> QED BY <1>5, <1>7, <1>8, <1>9, <1>10, <1>11, <1>12, <1>13, <1>14

LEMMA SlaveEnterKeeps ==
  ASSUME BootInv, NEW h \in Secondaries, SlaveEnter(h)
  PROVE  BootInv'
<1> USE SlotsAssumption DEF BootInv, Slots, Logical, NoSlot, masterVars, hartVars
<1>1. h \in Slots /\ h # MasterSlot
  BY DEF Secondaries, TypeOK
<1>2. /\ hpc[h] = "held" /\ page /\ hpc' = [hpc EXCEPT ![h] = "enter"]
      /\ UNCHANGED <<present, mpc, slotn, found, hartn, n, page, hls, tree, mail, own>>
  BY DEF SlaveEnter, HGoto
<1>3. TypeOK'
  BY <1>2 DEF TypeOK
<1>4. HlsFilled'
  BY <1>2 DEF HlsFilled, Known
<1>5. Counted'
  BY <1>2 DEF Counted, Known, Others
<1>6. HasRoom'
  BY <1>2 DEF HasRoom, Known
<1>7. Given'
  BY <1>2 DEF Given, Others
<1>8. Words'
  BY <1>2 DEF Words
<1>9. Rounds'
  BY <1>2 DEF Rounds, Others
<1>10. TreeKept'
  BY <1>2 DEF TreeKept
<1>11. TreeExact'
  BY <1>2 DEF TreeExact
<1> QED BY <1>3, <1>4, <1>5, <1>6, <1>7, <1>8, <1>9, <1>10, <1>11

LEMMA BootStep == BootInv /\ [Next]_vars => BootInv'
<1> SUFFICES ASSUME BootInv, [Next]_vars PROVE BootInv'
  OBVIOUS
<1>1. CASE Master
  <2>1. CASE SendReset
    BY <2>1, SendResetKeeps
  <2>2. CASE SlotActive
    BY <2>2, SlotActiveKeeps
  <2>3. CASE SlotEmpty
    BY <2>3, SlotEmptyKeeps
  <2>4. CASE FillInactive
    BY <2>4, FillInactiveKeeps
  <2>5. CASE SkipHart
    <3>1. mpc = "setup" \/ mpc = "start"
      BY <2>5 DEF SkipHart
    <3> QED BY <2>5, <3>1, SkipSetupKeeps, SkipStartKeeps
  <2>6. CASE SendSetup
    BY <2>6, SendSetupKeeps
  <2>7. CASE SendStart
    BY <2>7, SendStartKeeps
  <2>8. CASE AwaitState("pendwait", "START_PENDING", "setup")
    BY <2>8, AwaitPendingKeeps
  <2>9. CASE AwaitState("startwait", "START", "start")
    BY <2>9, AwaitStartedKeeps
  <2>10. CASE StartMaster
    BY <2>10, StartMasterKeeps
  <2>11. CASE InitDtb
    BY <2>11, InitDtbKeeps
  <2>12. CASE LetGo
    BY <2>12, LetGoKeeps
  <2> QED BY <1>1, <2>1, <2>2, <2>3, <2>4, <2>5, <2>6, <2>7, <2>8, <2>9, <2>10, <2>11, <2>12 DEF Master
<1>2. CASE \E s \in Secondaries : Secondary(s)
  <2>1. PICK h \in Secondaries : Secondary(h)
    BY <1>2
  <2> QED BY <2>1, TakeResetKeeps, ClearMailKeeps, WaitSetupKeeps, WaitStartKeeps,
             SlaveStartKeeps, SlaveEnterKeeps DEF Secondary
<1>3. CASE UNCHANGED vars
  BY <1>3 DEF vars, masterVars, hartVars, BootInv, TypeOK, HlsFilled, Counted, HasRoom, Given,
              Words, Rounds, TreeKept, TreeExact, Known, Others, Early, Rounded
<1> QED BY <1>1, <1>2, <1>3 DEF Next

LEMMA BootAlways == Spec => []BootInv
  BY InitBoot, BootStep, PTL DEF Spec

-----------------------------------------------------------------------------
(***************************************************************************)
(* What the boot promises.                                                 *)
(***************************************************************************)
\* Every reachable state is well typed: the logical numbers never run past
\* the slots, whatever is populated (init_smp, minit.c:1345-1380).
THEOREM TypeCorrect == Spec => []TypeOK
<1>1. BootInv => TypeOK
  BY DEF BootInv
<1> QED BY <1>1, BootAlways, PTL

\* Two harts never share a number, a stack or a hls, and hls_init stays within
\* the stack, when the master is one of the harts that have room
\* (minit.c:1357-1380).  For a master beyond it the loop counts one more hart
\* than there is room for, and init_smp halts only after filling its hls.
THEOREM NumbersAreOwn == ASSUME MasterSlot < MaxHarts PROVE Spec => []OwnNumber
<1>1. BootInv => OwnNumber
  <2> SUFFICES ASSUME BootInv PROVE OwnNumber
    OBVIOUS
  <2> QED BY DEF BootInv, HasRoom, Given, OwnNumber
<1> QED BY <1>1, BootAlways, PTL

\* The tree that a kernel reads names exactly the harts of this boot, each with
\* its own number and clock, whatever an earlier boot left in it (init_dtb).
THEOREM TreesAreTrue == ASSUME MasterSlot < MaxHarts PROVE Spec => []TreeIsTrue
<1>1. BootInv => TreeIsTrue
  BY DEF BootInv, TreeKept, TreeExact, TreeIsTrue
<1> QED BY <1>1, BootAlways, PTL

\* The master never writes over a word that a hart has not read, although it
\* does not look (ipi_send_data, minit.c:1345-1435).
THEOREM MailboxesAreFree == Spec => SendsToFreeMailbox
<1>1. BootInv /\ [Next]_vars
      => [\A s \in Slots : mail[s] # NoWord => mail'[s] \in {NoWord, mail[s]}]_vars
  <2> SUFFICES ASSUME BootInv, Next, NEW s \in Slots, mail[s] # NoWord
               PROVE  mail'[s] \in {NoWord, mail[s]}
    OBVIOUS
  <2> USE SlotsAssumption DEF BootInv, Slots
  <2>1. CASE SendReset
    BY <2>1, Typed DEF SendReset, Words, TypeOK
  <2>2. CASE SendSetup
    <3>1. /\ mpc = "setup" /\ n < hartn /\ hls[n].active
          /\ mail' = [mail EXCEPT ![hls[n].slot] = SETUP(n)]
      BY <2>2 DEF SendSetup, SendTo
    <3>2. hls[n].slot \in found
      BY <3>1, Typed DEF Counted, Others
    <3>3. mail[hls[n].slot] = NoWord
      BY <3>1, <3>2, Typed DEF Words
    <3> QED BY <3>1, <3>3 DEF TypeOK
  <2>3. CASE SendStart
    <3>1. /\ mpc = "start" /\ n < hartn /\ hls[n].active
          /\ mail' = [mail EXCEPT ![hls[n].slot] = START]
      BY <2>3 DEF SendStart, SendTo
    <3>2. hls[n].slot \in found
      BY <3>1, Typed DEF Counted, Others
    <3>3. mail[hls[n].slot] = NoWord
      BY <3>1, <3>2, Typed DEF Words
    <3> QED BY <3>1, <3>3 DEF TypeOK
  <2>4. CASE SlotActive \/ SlotEmpty \/ FillInactive \/ SkipHart \/ StartMaster \/ InitDtb \/ LetGo
    BY <2>4 DEF SlotActive, SlotEmpty, FillInactive, SkipHart, StartMaster, InitDtb, LetGo
  <2>5. CASE AwaitState("pendwait", "START_PENDING", "setup") \/ AwaitState("startwait", "START", "start")
    BY <2>5 DEF AwaitState
  <2>6. CASE \E h \in Secondaries : Secondary(h)
    <3>1. PICK h \in Secondaries : Secondary(h)
      BY <2>6
    <3>2. mail' = mail \/ mail' = [mail EXCEPT ![h] = NoWord]
      BY <3>1 DEF Secondary, TakeReset, ClearMail, WaitSetup, WaitStart, SlaveStart, SlaveEnter, Read
    <3> QED BY <3>2 DEF TypeOK
  <2> QED BY <2>1, <2>2, <2>3, <2>4, <2>5, <2>6 DEF Next, Master
<1> QED BY <1>1, BootAlways, PTL DEF Spec, SendsToFreeMailbox
=============================================================================
