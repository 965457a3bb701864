------------------------------ MODULE DevTree ------------------------------
(* What the kernel is told of the platform: the clocks of the header that    *)
(* the previous boot stage left in on-chip RAM, or the registers that stand  *)
(* in for it (clk.c), the timer set up from them (scr_rtc_init, rtc.h), the  *)
(* fields of the device tree that init_dtb (minit.c) fills in, and the copy  *)
(* of the tree that the kernel reads. A warm restart fills in a tree that an *)
(* earlier boot has filled, and copies it over what the kernel left.         *)
(*                                                                           *)
(* A 4-byte property of the tree is a label, a cell of a "reg" one number;   *)
(* the tree has at a label what it was built with (0) until it is set. The   *)
(* nodes of the CPUs besides their clocks are in module SmpBoot. Texts (MAC, *)
(* versions) are left out.                                                   *)
EXTENDS Integers, Sequences

CONSTANTS
  Platforms,     \* builds of sc-bl with the tree and the machine of each (a set of records)
  Headers,       \* contents of the on-chip RAM at the header's address
  CellValues,    \* values of a 4-byte cell (2^32)
  Timebase,      \* PLF_RTC_TIMEBASE
  TreeRoom,      \* DTB_KERNEL_ADDR_OFFS, the room kept for the copy
  MaxTreeBoots   \* bound of the boots

Regions == {"mem", "mem1", "dma"}     \* nodes with labels on base and size

ASSUME TreeAssumption ==
  /\ CellValues \in Nat \ {0} /\ Timebase \in Nat \ {0}
  /\ TreeRoom \in Nat \ {0} /\ MaxTreeBoots \in Nat

VARIABLES
  plf,      \* the platform, fixed
  header,   \* struct clk_header
  getters,  \* clk_callbacks: "none", "v1" or "fallback"
  tree,     \* dt_blob_start: [word: label -> value, reg: region -> cells]
  copy,     \* at DTB_KERNEL_COPY_ADDR: [at, word, reg]
  rtc,      \* divider and clock source of the machine timer
  tpc, boots
treeVars == <<plf, header, getters, tree, copy, rtc, tpc, boots>>

NoCopy == [at |-> 0, word |-> <<>>, reg |-> <<>>]

\* A region's labels are "cells" cells apart; what follows the node's value is
\* kept beside it, in the last element.
TreeInit ==
  /\ plf \in Platforms /\ header \in Headers
  /\ getters = "none" /\ copy = NoCopy /\ rtc = [div |-> 0, src |-> "off"]
  /\ tree = [word |-> [l \in plf.labels |-> 0],
             reg |-> [r \in Regions |-> [k \in 1 .. 2 * plf.cells[r] + 1 |-> 0]]]
  /\ tpc = "start" /\ boots = 0

-----------------------------------------------------------------------------
(* clk.c *)

\* clk_header_init
ClkHeaderInit ==
  /\ tpc = "start" /\ tpc' = "clocks"
  /\ getters' = IF header.v1 THEN "v1" ELSE "fallback"
  /\ UNCHANGED <<plf, header, tree, copy, rtc, boots>>

V1 == getters = "v1"
\* The register, or the constant the build has instead: PLF_CPU_FREQ, under the
\* condition that PLF_SYS_FREQ is there.  A build with neither halts.
SysFallback == IF plf.sysreg THEN plf.sys ELSE plf.cpu
\* clk_sys_get
SysClk == IF V1 THEN header.sys ELSE SysFallback
ClusterFallback == IF plf.cluster.readable THEN plf.cluster.clk ELSE SysFallback
\* clk_cluster_get
ClusterClk == IF V1 THEN header.cluster ELSE ClusterFallback
\* The timer's clock, from outside where there is one.
MtimerFallback ==
  IF plf.external THEN [clk |-> SysFallback \div 4, src |-> "external"]
  ELSE [clk |-> ClusterFallback, src |-> "internal"]
MtimerV1 ==
  IF header.ext # 0 THEN [clk |-> header.ext, src |-> "external"]
  ELSE [clk |-> header.cluster, src |-> "internal"]
\* clk_mtimer_get
MtimerClk == IF V1 THEN MtimerV1 ELSE MtimerFallback
\* The entries of the header for a hart, of which the first counts; without a
\* header all harts have one clock (SCR_CLK_UNIFORM_HARTS).
Listed(id) == {i \in DOMAIN header.harts : header.harts[i].id = id}
HartUniform == plf.cpu
HartListed(id) == header.harts[CHOOSE i \in Listed(id) : \A j \in Listed(id) : i <= j].clk
\* clk_hart_get_by_id, and whether it succeeds
HasHartClk(id) == V1 => Listed(id) # {}
HartClk(id) == IF V1 THEN HartListed(id) ELSE HartUniform

-----------------------------------------------------------------------------
(* init_dtb *)

\* Labels that the tree does not have (weak symbols) are passed over; a value
\* is cut to 4 bytes (dtb_freq).
Put(values) ==
  tree' = [tree EXCEPT !.word =
             [l \in DOMAIN tree.word |->
                IF l \in DOMAIN values THEN values[l] % CellValues ELSE tree.word[l]]]
TreeStep(from, to) ==
  /\ tpc = from /\ tpc' = to
  /\ UNCHANGED <<plf, header, getters, copy, rtc, boots>>

\* "timebase-frequency" and the timer's "clock-frequency", zeros without a timer
SetClocks ==
  /\ TreeStep("clocks", "memory")
  /\ Put([l \in {<<"timebase", 0>>, <<"mtimer", 0>>} |->
            IF ~plf.mtimer THEN 0 ELSE IF l[1] = "timebase" THEN Timebase ELSE MtimerClk.clk])

\* A 64-bit number takes two cells when the labels are more than 4 bytes apart,
\* else the low half takes the one there is.
CellsOf_Wide(apart, x) == <<(x \div CellValues) % CellValues, x % CellValues>>
CellsOf(apart, x) ==
  IF apart > 4 THEN <<(x \div CellValues) % CellValues, x % CellValues>>
  ELSE <<x % CellValues>>
CopyAt(cells, at, new) ==
  [k \in DOMAIN cells |-> IF k - at \in DOMAIN new THEN new[k - at] ELSE cells[k]]
SetRegion(cells, apart, base, size) ==
  CopyAt(CopyAt(cells, 0, CellsOf(apart, base)), apart \div 4, CellsOf(apart, size))

MemSize == plf.size - plf.cmem
CmemBase == IF plf.cmem = 0 THEN 0 ELSE plf.base + MemSize
\* Main memory without the part reserved for DMA; a second bank where the build
\* has one; the reserved part, or zeros.
SetMemory ==
  /\ TreeStep("memory", "devs")
  /\ LET reg(r) ==
           IF plf.cells[r] = 0 \/ (r = "mem1" /\ plf.size1 = 0) THEN tree.reg[r]
           ELSE CASE r = "mem" -> SetRegion(tree.reg[r], 4 * plf.cells[r], plf.base, MemSize)
                  [] r = "mem1" -> SetRegion(tree.reg[r], 4 * plf.cells[r], plf.base1, plf.size1)
                  [] OTHER -> SetRegion(tree.reg[r], 4 * plf.cells[r], CmemBase, plf.cmem)
     IN tree' = [tree EXCEPT !.reg = [r \in Regions |-> reg(r)]]

\* The devices' "clock-frequency"
SetDevs ==
  /\ TreeStep("devs", "cpus")
  /\ Put([l \in {<<"dev", k>> : k \in 0 .. 15} |-> SysClk])

\* The clock of each hart into the node of its slot (ipi_n); the node of a hart
\* without a clock stays.
Timed == {k \in DOMAIN plf.harts : HasHartClk(plf.harts[k].id)}
HartAt(slot) == CHOOSE k \in DOMAIN plf.harts : plf.harts[k].slot = slot
SetCpus ==
  /\ TreeStep("cpus", "caches")
  /\ Put([l \in {<<"cpu", plf.harts[k].slot>> : k \in Timed} |-> HartClk(plf.harts[HartAt(l[2])].id)])

\* DTB_FILL_PER_HART_INFO and DTB_FILL_INFO; a tree labels the caches of all
\* harts or of none.
Cached == {k \in DOMAIN plf.harts : plf.harts[k].active /\ plf.harts[k].slot < Len(plf.harts)}
SetCaches ==
  /\ TreeStep("caches", "copy")
  /\ Put([l \in {<<"l1", plf.harts[k].slot>> : k \in Cached} \cup {<<"l2", 0>>, <<"l3", 0>>} |->
            IF l[1] = "l1" THEN plf.harts[HartAt(l[2])].l1 ELSE plf.shared])

\* DTB_KERNEL_COPY_OFFS: the end of memory, or of what the kernel maps of it.
CopyOffs == IF MemSize > plf.virt THEN plf.virt - TreeRoom ELSE MemSize - TreeRoom
CopyTree ==
  /\ tpc = "copy" /\ tpc' = "timer"
  /\ copy' = [at |-> plf.base + CopyOffs, word |-> tree.word, reg |-> tree.reg]
  /\ UNCHANGED <<plf, header, getters, tree, rtc, boots>>

-----------------------------------------------------------------------------
\* scr_rtc_init, empty without PLF_MTIMER_BASE; a clock below the timebase wraps
\* the divider.
RtcInit ==
  /\ tpc = "timer" /\ tpc' = "kernel"
  /\ rtc' = IF plf.mtimer
            THEN [div |-> (MtimerClk.clk \div Timebase - 1) % CellValues, src |-> MtimerClk.src]
            ELSE rtc
  /\ UNCHANGED <<plf, header, getters, tree, copy, boots>>

\* The kernel has read its tree, has used the memory of it, and restarts.
TreeRestart ==
  /\ tpc = "kernel" /\ boots < MaxTreeBoots
  /\ tpc' = "start" /\ boots' = boots + 1
  /\ copy' = [copy EXCEPT !.word = [l \in DOMAIN copy.word |-> CellValues]]
  /\ UNCHANGED <<plf, header, getters, tree, rtc>>

TreeNext ==
  \/ ClkHeaderInit \/ SetClocks \/ SetMemory \/ SetDevs \/ SetCpus \/ SetCaches \/ CopyTree
  \/ RtcInit \/ TreeRestart
TreeSpec == TreeInit /\ [][TreeNext]_treeVars

-----------------------------------------------------------------------------
(* What the kernel reads. *)

\* The number that the base or the size of a region says: its cells joined.
Joined(cells) == IF Len(cells) = 1 THEN cells[1] ELSE cells[1] * CellValues + cells[2]
Said(r) ==
  LET n == plf.cells[r]
  IN [base |-> Joined(SubSeq(copy.reg[r], 1, n)), size |-> Joined(SubSeq(copy.reg[r], n + 1, 2 * n))]

\* The kernel is told where memory is: the regions it reads are the platform's,
\* no field beside one is written over, and the tree lies in memory that it is
\* told of and can map, apart from the memory kept for DMA (init_dtb).
MemoryIsTold ==
  LET mem == Said("mem") dma == Said("dma")
  IN /\ \A r \in Regions : copy.reg[r][2 * plf.cells[r] + 1] = 0
     /\ plf.cells["mem"] > 0 =>
          /\ mem.base = plf.base
          /\ copy.at >= mem.base
          /\ copy.at + TreeRoom <= mem.base + mem.size
          /\ copy.at + TreeRoom <= mem.base + plf.virt
     /\ plf.cells["mem"] > 0 /\ plf.cells["dma"] > 0 =>
          /\ mem.size + dma.size = plf.size
          /\ dma.size > 0 => dma.base = mem.base + mem.size
     /\ plf.cells["mem1"] > 0 /\ plf.size1 > 0 =>
          Said("mem1") = [base |-> plf.base1, size |-> plf.size1]
\* The frequency at which the timer's source runs, in the machine: the header's if
\* there is one; plf.sys and plf.cluster.clk are what the buses really run at.
SourceClk ==
  CASE rtc.src = "internal" -> IF V1 THEN header.cluster
                               ELSE IF plf.cluster.readable THEN plf.cluster.clk ELSE plf.sys
    [] rtc.src = "external" -> IF V1 THEN header.ext ELSE plf.sys \div 4
\* clk_sys_get_fallback returns PLF_CPU_FREQ for PLF_SYS_FREQ (src/clk.c:72-73): a
\* build where they differ does not know the clock that it derives the timer's from.
SysMistaken ==
  ~V1 /\ ~plf.sysreg /\ plf.sys # plf.cpu /\ (plf.external \/ ~plf.cluster.readable)
\* The clock that drives the timer is the one the tree names, builds that mistake
\* it excepted, and divided as scr_rtc_init has set it, the clock of the tree ticks
\* at the timebase the tree names, or faster by less than one part of it; where
\* there is no timer the tree names none (scr_rtc_init, init_dtb).
TimerIsTold ==
  <<"mtimer", 0>> \in plf.labels /\ <<"timebase", 0>> \in plf.labels =>
    LET clk == copy.word[<<"mtimer", 0>>] base == copy.word[<<"timebase", 0>>]
    IN IF plf.mtimer
       THEN /\ ~SysMistaken => clk = SourceClk
            /\ base * (rtc.div + 1) <= clk /\ clk < base * (rtc.div + 2)
       ELSE clk = 0 /\ base = 0 /\ rtc.src = "off"
\* A hart's node has the hart's own clock and cache, whatever slot it came in.
HartsAreTold ==
  \A k \in DOMAIN plf.harts :
    LET hart == plf.harts[k] cpu == <<"cpu", hart.slot>> l1 == <<"l1", hart.slot>>
    IN /\ cpu \in plf.labels =>
            copy.word[cpu] = IF ~V1 THEN plf.cpu
                             ELSE IF \E e \in {header.harts[i] : i \in DOMAIN header.harts} : e.id = hart.id
                             THEN HartClk(hart.id) ELSE 0
       /\ l1 \in plf.labels => copy.word[l1] = IF hart.active THEN hart.l1 ELSE 0
\* In every boot the kernel starts with a tree that tells it of the machine it
\* runs on: its memory, its timer and its harts (init_dtb, scr_rtc_init).
KernelIsTold == tpc = "kernel" => MemoryIsTold /\ TimerIsTold /\ HartsAreTold
=============================================================================
