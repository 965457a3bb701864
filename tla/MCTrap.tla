------------------------------- MODULE MCTrap -------------------------------
(* Finite instances of the parts of trap handling for TLC. *)
EXTENDS Trap, SbiCall, Pmu, CachePmu, WideRead, Console
CONSTANTS HypOnly
VARIABLE part     \* what one behaviour is about: none of the parts acts on another
all == <<part, trapVars, sbiVars, pmuVars, cacheVars, wideVars, vars, conVars>>
MCConfs ==
  IF HypOnly THEN {[xlen |-> 64, flen |-> 64, soft |-> FALSE, h |-> TRUE, holes |-> {}]}
  ELSE {[xlen |-> 64, flen |-> 64, soft |-> TRUE, h |-> FALSE, holes |-> {}],
        [xlen |-> 32, flen |-> 32, soft |-> FALSE, h |-> FALSE, holes |-> {}],
        [xlen |-> 32, flen |-> 0, soft |-> FALSE, h |-> FALSE, holes |-> {1}],
        [xlen |-> 64, flen |-> 64, soft |-> FALSE, h |-> TRUE, holes |-> {}]}
MCPages == {0, 1}
MCNumbers == {0, 8, 9}
MCFills ==
  {[regs |-> [r \in Named |-> [k \in 1 .. 8 |-> IF r = <<"x", 0>> THEN 0 ELSE 16 * r[2] + k]],
    mem |-> [a \in Addrs |-> (IF a % 2 = 0 THEN a ELSE 128 + a) % 256]]}
\* GVA is told of a guest's fault, and goes with SPV in hstatus.
MCCsrs ==
  [h \in BOOLEAN |->
     LET B == BOOLEAN
         H == IF h THEN BOOLEAN ELSE {FALSE}
         S == IF h THEN {FALSE} ELSE BOOLEAN
     IN {c \in [into: {"M"}, mpp: {"U", "S"}, mpv: H, gva: H, spp: S, spie: B, sie: B,
                 vspp: H, vspie: H, vsie: H, spv: H, hgva: H, spvp: H, hedeleg: H,
                 stvec0: S, sexc: {NoCsr}, vsexc: {NoCsr}] :
           /\ c.gva => c.mpv
           /\ c.hgva = c.spv}]
\* Two cores: an SCR7 with both caches' counters, and one with little of its own.
MCBuilds ==
  {b \in [smp: BOOLEAN, hsm: BOOLEAN, hotplug: BOOLEAN, pmu: BOOLEAN, asm: BOOLEAN,
          l2: BOOLEAN, l3: BOOLEAN, vcs: BOOLEAN, info: {{0, 1}, {5}}] :
     /\ (b.hsm => b.smp) /\ (b.hotplug => b.hsm)
     /\ b.l2 = b.l3 /\ b.vcs = ~b.l2 /\ b.l2 = b.pmu /\ b.info = IF b.pmu THEN {0, 1} ELSE {5}}
MCEvents == {[kind |-> "hw", id |-> 1, listed |-> TRUE], [kind |-> "raw", id |-> 2, listed |-> FALSE]}
MCHwCtrs == {3, 4}
MCMasks == {{}, {0, 1}, {3, 4}}
MCKinds == {[l3 |-> TRUE, dedicated |-> FALSE], [l3 |-> FALSE, dedicated |-> FALSE],
            [l3 |-> FALSE, dedicated |-> TRUE]}
MCPmuHarts == {"h1", "h2"}
MCPattern == <<"L", "x", " ">>
\* The hypervisor's bits are combined with one access only.
MCTrapInit ==
  /\ TrapInit
  /\ ins.addr \in {1, 5, 7}
  /\ ins.reg \in IF ins.op.file = "x" THEN {0, 8} ELSE {8}
  /\ conf.h => ins.op = Op("STORE", 3, 8, "none", "x", "rs2") /\ ins.addr = 5 /\ ins.reg = 8
MCInit ==
  /\ part \in IF HypOnly THEN {"access"} ELSE {"access", "call", "counters", "cache", "wide", "console"}
  /\ SbiInit /\ (part # "call" => /\ build.smp /\ build.hsm /\ build.hotplug /\ build.pmu
                                 /\ build.asm /\ ext = "hsm")
  /\ CacheInit /\ (part # "cache" => cache.l3)
  /\ WideInit /\ (part # "wide" => count = 0 /\ repeats)
  /\ MCTrapInit /\ (part # "access" => conf.h /\ pte = {})
  /\ PmuInit /\ ConInit
MCNext ==
  \/ part = "access" /\ TrapNext /\ UNCHANGED <<part, sbiVars, pmuVars, cacheVars, wideVars, vars, conVars>>
  \/ part = "call" /\ SbiNext /\ UNCHANGED <<part, trapVars, pmuVars, cacheVars, wideVars, vars, conVars>>
  \/ part = "counters" /\ PmuNext /\ UNCHANGED <<part, trapVars, sbiVars, cacheVars, wideVars, vars, conVars>>
  \/ part = "cache" /\ CacheNext /\ UNCHANGED <<part, trapVars, sbiVars, pmuVars, wideVars, vars, conVars>>
  \/ part = "wide" /\ WideNext /\ UNCHANGED <<part, trapVars, sbiVars, pmuVars, cacheVars, vars, conVars>>
  \/ part = "console" /\ ConNext /\ UNCHANGED <<part, trapVars, sbiVars, pmuVars, cacheVars, wideVars>>
MCSpec == /\ MCInit /\ [][MCNext]_all
          /\ \/ part = "access" /\ TrapFair
             \/ part = "call" /\ SbiFair
             \/ part = "console" /\ ConFair
             \/ part \in {"counters", "cache", "wide"}
=============================================================================
