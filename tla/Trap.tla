------------------------------- MODULE Trap -------------------------------
(***************************************************************************)
(* The trap that M-mode does not handle itself: handle_trap_in_machine_mode *)
(* of src/mentry.S saves the program, mmode_trap_handler (src/mtrap.c)     *)
(* emulates a misaligned access, and a fault met on the way is handed to   *)
(* the supervisor, to the hypervisor or to the guest by writing the CSRs   *)
(* that the hardware would have written had it delegated the fault.        *)
(***************************************************************************)
EXTENDS EmuLdst

CONSTANT Csrs     \* what the CSRs below can hold when a program faults, in a
                  \* build with (TRUE) or without the hypervisor extension

NoCsr == [into |-> "none"]

(* mpp and mpv say where the program ran; a build without the extension    *)
(* has none of its bits.                                                   *)
ASSUME CsrAssumption ==
  /\ Csrs \in [BOOLEAN -> SUBSET
       [mpp: {"U", "S"}, mpv: BOOLEAN, gva: BOOLEAN, spp: BOOLEAN, spie: BOOLEAN, sie: BOOLEAN,
        vspp: BOOLEAN, vspie: BOOLEAN, vsie: BOOLEAN, spv: BOOLEAN, hgva: BOOLEAN,
        spvp: BOOLEAN, hedeleg: BOOLEAN, stvec0: BOOLEAN,
        into: {"M"}, sexc: {NoCsr}, vsexc: {NoCsr}]]
  /\ \A c \in Csrs[FALSE] : ~c.mpv /\ ~c.gva /\ ~c.spv /\ ~c.hgva

VARIABLES
  csr,    \* CSRs the redirection reads and writes, while it matters
  old     \* history: the same at the trap

trapVars == <<emuVars, csr, old>>

TrapInit == EmuInit /\ csr = NoCsr /\ old = NoCsr

\* .Lto_vs: the guest's registers; its bits are set and never cleared.
ToVS(c, e) ==
  [c EXCEPT !.into = "VS", !.vsexc = e,
            !.vspp = @ \/ c.mpp = "S",
            !.vspie = @ \/ c.vsie,
            !.vsie = FALSE, !.mpp = "S"]

\* .Lfill_h_to_s: SPV, GVA from mstatus; SPVP only when SPV is clear.
FillH(c) ==
  [c EXCEPT !.spv = c.mpv, !.hgva = c.gva, !.mpv = FALSE,
            !.spvp = IF c.mpv THEN @ ELSE c.mpp = "S"]

\* A redirection that leaves SIE as it is.
ToS_KeepsSie(c, e) ==
  [c EXCEPT !.into = "S", !.sexc = e, !.spp = c.mpp = "S", !.spie = c.sie, !.mpp = "S"]

\* .Lto_s
ToS(c, e) ==
  IF c.stvec0 THEN [c EXCEPT !.into = "bad"]
  ELSE [c EXCEPT !.into = "S", !.sexc = e, !.spp = c.mpp = "S", !.spie = c.sie,
                 !.sie = FALSE, !.mpp = "S"]

Redirected(c, e) ==
  IF ~conf.h THEN ToS(c, e)
  ELSE IF c.mpv /\ c.hedeleg THEN ToVS(c, e)
  ELSE ToS(FillH(c), e)

\* mmode_trap_handler returned 1.
Redirect ==
  /\ epc = "redirect"
  /\ \E c \in Csrs[conf.h] :
       /\ old' = c
       /\ csr' = Redirected(c, exc)
       /\ epc' = IF csr'.into = "bad" THEN "halted" ELSE "super"
  /\ UNCHANGED <<conf, ins, i, val, regs, mem, pte, tlb, exc, unmaps, before>>

\* The supervisor (hypervisor, guest) answers a page fault, or ends the program.
Supervise ==
  /\ epc = "super"
  /\ csr' = NoCsr /\ old' = NoCsr
  /\ IF Mappable THEN MapAndReturn(FaultPage)
     ELSE epc' = "killed" /\ UNCHANGED <<pte, tlb>>
  /\ UNCHANGED <<conf, ins, i, val, regs, mem, exc, unmaps, before>>

TrapNext == (EmuNext /\ UNCHANGED <<csr, old>>) \/ Redirect \/ Supervise

\* A hart runs its own instructions; the supervisor answers its faults.
TrapFair ==
  /\ WF_trapVars(Emulate /\ UNCHANGED <<csr, old>>)
  /\ WF_trapVars(OwnFetchFault /\ UNCHANGED <<csr, old>>)
  /\ WF_trapVars(Redirect) /\ WF_trapVars(Supervise)

TrapSpec == TrapInit /\ [][TrapNext]_trapVars /\ TrapFair

(* The registers hardware delegation would have written, by the privileged *)
(* specification the comments of src/mentry.S:511-514 and 550-555 recite.  *)
HwTrap(c, e) ==
  IF c.mpv /\ c.hedeleg
  THEN [c EXCEPT !.into = "VS", !.vsexc = e, !.vspp = c.mpp = "S", !.vspie = c.vsie,
                 !.vsie = FALSE, !.mpp = "S"]
  ELSE [c EXCEPT !.into = "S", !.sexc = e, !.spp = c.mpp = "S", !.spie = c.sie,
                 !.sie = FALSE, !.mpp = "S", !.spv = c.mpv, !.hgva = c.gva, !.mpv = FALSE,
                 !.spvp = IF c.mpv THEN c.mpp = "S" ELSE @]

(* A redirected fault leaves the CSRs as the hardware would have, had it   *)
(* been delegated (src/mentry.S:489-640).  Only the hypervisor extension   *)
(* has exceptions: hstatus.SPVP of a fault the hypervisor takes, whose     *)
(* branch is inverted, and the bits of vsstatus that are set and never     *)
(* cleared: SPP where the guest's user faults, SPIE where SIE is clear.    *)
RedirectAsHardware ==
  epc = "super" =>
    LET hw == HwTrap(old, exc)
    IN \A f \in DOMAIN csr : csr[f] # hw[f] =>
         /\ conf.h
         /\ \/ f = "spvp" /\ csr.into = "S"
            \/ f = "vspp" /\ csr.into = "VS" /\ old.mpp = "U" /\ old.vspp
            \/ f = "vspie" /\ csr.into = "VS" /\ ~old.vsie /\ old.vspie

(* "SPVP should be changed only if MPV": the comment in src/mentry.S:584.  *)
SpvpKept == epc = "super" /\ ~old.mpv => csr.spvp = old.spvp

(* A misaligned access ends: it is stepped over, or its program is ended,  *)
(* although each page may be missing, evicted by the next or taken away.   *)
AccessEnds == (epc = "fetch") ~> (epc \in {"done", "killed", "halted"})
=============================================================================
