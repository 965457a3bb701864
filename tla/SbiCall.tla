------------------------------ MODULE SbiCall ------------------------------
(***************************************************************************)
(* The calls of one supervisor hart: the assembly fast path of __trap_hander *)
(* (src/mentry.S, builds with PLF_IPI_ASM_HANDLERS), the dispatcher        *)
(* mmode_trap_handler (src/mtrap.c) behind it, and the timer that both     *)
(* set.  Fences, messages, harts and counters have modules of their own:   *)
(* here a call to them is its answer and the name of its effect.           *)
(***************************************************************************)
EXTENDS Integers

CONSTANTS
  Builds,   \* the #if's of the dispatchers, and info: the registers of
            \* mcall_ext_plfinfo that the core has
  MaxTime   \* bound: ticks of the clock

ASSUME SbiAssumption ==
  /\ Builds \subseteq [smp: BOOLEAN, hsm: BOOLEAN, hotplug: BOOLEAN, pmu: BOOLEAN, asm: BOOLEAN,
                       l2: BOOLEAN, l3: BOOLEAN, vcs: BOOLEAN, info: SUBSET (0 .. 6)]
  /\ MaxTime \in Nat

VARIABLES
  build,   \* the build
  ext,     \* the extension the supervisor wants to use
  probed,  \* what PROBE_EXT said of it: "yes", "no" or not asked
  tried,   \* the answers its own function (Home) has given
  time,    \* mtime
  cmp,     \* mtimecmp
  mtie,    \* mie.MTIE
  stip,    \* mip.STIP
  asked,   \* history: the time of the last SET_TIMER, or Never
  hung     \* the hart is in the loop of call 255

sbiVars == <<build, ext, probed, tried, time, cmp, mtie, stip, asked, hung>>

Never == MaxTime + 1          \* UINT64_MAX
V2 == {"base", "time", "ipi", "rfence", "hsm", "pmu", "scr", "vendor"}
Legacy == {"set_timer", "putchar", "getchar", "clear_ipi", "send_ipi", "remote_fence_i",
           "remote_sfence", "shutdown", "hang"}
L2PMU == 1
L3PMU == 2
VCS == 3
PLFINFO == 4                  \* SBI_SCR_PLFINFO, 0x101
Args(e, f, s) == [ext |-> e, fn |-> f, sub |-> s]      \* a7, a6 and a0
Calls == {Args(e, 0, 0) : e \in Legacy} \cup {Args(e, f, 0) : e \in V2, f \in 0 .. 6}
         \cup {Args("hsm", f, 1) : f \in 0 .. 6}
         \cup {Args("scr", f, s) : f \in 0 .. 5, s \in 0 .. 8}
\* The calls that are what an extension is there for.
Home(b, c) == IF c.ext = "scr" THEN c.fn = PLFINFO /\ c.sub \in b.info
              ELSE c.fn = 0 /\ (c.ext = "hsm" => c.sub = 1)

Answer(code, effect) == [code |-> code, effect |-> effect]
NotSupported == Answer("NOT_SUPPORTED", "none")

\* __trap_hander: what the fast path takes; the rest it passes on.
FastCalls(b) ==
  IF ~b.asm THEN {}
  ELSE {"set_timer", "time"} \cup
       IF b.smp THEN {"send_ipi", "ipi", "clear_ipi"}
       ELSE {"remote_sfence", "remote_fence_i", "clear_ipi"}
FastAnswer(b, c) ==
  CASE c.ext \in {"time", "ipi"} /\ c.fn # 0 -> NotSupported
    [] c.ext = "set_timer" \/ (c.ext = "time" /\ c.fn = 0) -> Answer("SUCCESS", "timer")
    [] c.ext = "send_ipi" \/ (c.ext = "ipi" /\ c.fn = 0) -> Answer("SUCCESS", "ipi")
    [] c.ext = "clear_ipi" -> Answer("SUCCESS", "clear_ipi")
    [] c.ext \in {"remote_sfence", "remote_fence_i"} -> Answer("SUCCESS", "fence")

\* The functions of mcall_ext_base (PROBE_EXT is number 3), mcall_ext_pmu,
\* mcall_ext_l2_pmu and mcall_ext_l3_pmu (l2_ctr_get_info is there to refuse),
\* and mcall_ext_custom_fn.
BaseFns == 0 .. 6
PmuFns  == 0 .. 5
L2Fns   == {0, 2, 3, 4, 6, 7, 8}
L3Fns   == {0, 2, 3, 4, 6, 7, 8}
VcsFns  == 1 .. 3

\* mcall_ext_plfinfo: a register is read if the core has it.
InfoFns(b) == b.info

\* The blocks of the vendor's extension.
ScrFns(b, fn) ==
  CASE fn = L2PMU /\ b.l2 -> L2Fns
    [] fn = L3PMU /\ b.l3 -> L3Fns
    [] fn = VCS /\ b.vcs -> VcsFns
    [] fn = PLFINFO -> InfoFns(b)
    [] OTHER -> {}

(* mcall_ext_hsm: start, stop and state of a hart.  a0 is 1 if the hart is *)
(* one that may be started or asked about, and not the master that stops.  *)
HsmAnswer(b, c) ==
  CASE c.fn = 1 /\ b.hotplug /\ c.sub = 0 -> Answer("FAILURE", "none")
    [] (c.fn = 0 \/ (c.fn = 2 /\ b.hotplug)) /\ c.sub = 0 -> Answer("INVALID_PARAM", "none")
    [] (c.fn = 0 \/ (c.fn \in 1 .. 2 /\ b.hotplug)) /\ c.sub # 0 -> Answer("SUCCESS", "hsm")
    [] OTHER -> NotSupported

\* A list of extensions that forgets the condition on one of them.
Probe(b, e) ==
  \/ e \in {"time", "scr"}
  \/ e \in {"ipi", "rfence"} /\ b.smp
  \/ e = "hsm" /\ b.smp /\ b.hsm
  \/ e = "pmu" /\ b.pmu

\* mmode_trap_handler: the switch over regs[17] and regs[16].
SlowAnswer(b, c) ==
  CASE c.ext \in {"putchar", "getchar"} -> Answer("SUCCESS", "console")
    [] c.ext \in {"send_ipi", "clear_ipi"} /\ b.smp /\ ~b.asm -> Answer("SUCCESS", c.ext)
    [] c.ext \in {"remote_fence_i", "remote_sfence"} /\ b.smp -> Answer("SUCCESS", "rfence")
    [] c.ext = "shutdown" -> Answer("SUCCESS", "shutdown")
    [] c.ext = "set_timer" \/ (c.ext = "time" /\ c.fn = 0) -> Answer("SUCCESS", "timer")
    [] c.ext = "base" /\ c.fn \in BaseFns -> Answer("SUCCESS", "info")
    [] c.ext = "ipi" /\ b.smp /\ ~b.asm ->
         IF c.fn = 0 THEN Answer("SUCCESS", "ipi") ELSE Answer("INVALID_PARAM", "none")
    [] c.ext = "rfence" /\ b.smp /\ c.fn \in 0 .. 2 -> Answer("SUCCESS", "rfence")
    [] c.ext = "hsm" /\ b.smp /\ b.hsm -> HsmAnswer(b, c)
    [] c.ext = "pmu" /\ b.pmu /\ c.fn \in PmuFns -> Answer("SUCCESS", "pmu")
    [] c.ext = "scr" /\ c.sub \in ScrFns(b, c.fn) -> Answer("SUCCESS", "scr")
    [] c.ext = "hang" -> Answer("none", "hang")
    [] OTHER -> NotSupported

AnswerOf(b, c) == IF c.ext \in FastCalls(b) THEN FastAnswer(b, c) ELSE SlowAnswer(b, c)

(* scr_rtc_init starts the clock at 0 with no alarm set, before the master  *)
(* enters the supervisor; the timer's interrupts are off.                  *)
SbiInit ==
  /\ build \in Builds
  /\ ext \in V2 /\ probed = "-" /\ tried = {}
  /\ time = 0 /\ cmp = Never /\ mtie = FALSE /\ stip = FALSE
  /\ asked = Never /\ hung = FALSE

\* scr_rtc_setcmp: in one step also where mtimecmp takes three stores, since
\* the interrupt is a level and M-mode does not take it meanwhile.
SetCmp(when) == cmp' = when /\ asked' = when

\* A SET_TIMER that leaves the old interrupt pending.
SetTimer_KeepsPending(when) ==
  /\ SetCmp(when)
  /\ stip' = stip /\ mtie' = TRUE

\* A SET_TIMER that leaves the interrupt masked.
SetTimer_KeepsMask(when) ==
  /\ SetCmp(when)
  /\ stip' = FALSE /\ mtie' = mtie

\* sbi_call_set_timer, mcall_set_timer: mtimecmp, then STIP off, then MTIE on.
SetTimer(when) ==
  /\ SetCmp(when)
  /\ stip' = FALSE /\ mtie' = TRUE

\* An ecall of the supervisor; a0 tells it whether the extension is there.
Ecall(c) ==
  LET a == AnswerOf(build, c)
  IN /\ ~hung
     /\ IF a.effect = "timer" THEN \E when \in 0 .. MaxTime : SetTimer(when)
        ELSE UNCHANGED <<cmp, asked, stip, mtie>>
     /\ tried' = IF c.ext = ext /\ Home(build, c) THEN tried \cup {a.code} ELSE tried
     /\ hung' = (a.effect = "hang")
     /\ UNCHANGED <<build, ext, probed, time>>

ProbeExt ==
  /\ ~hung
  /\ probed' = IF Probe(build, ext) THEN "yes" ELSE "no"
  /\ UNCHANGED <<build, ext, tried, time, cmp, mtie, stip, asked, hung>>

\* interrupt_handler, INT_MM_TIMER: the machine's interrupt becomes the supervisor's.
TimerInterrupt ==
  /\ ~hung /\ mtie /\ time >= cmp
  /\ mtie' = FALSE /\ stip' = TRUE
  /\ UNCHANGED <<build, ext, probed, tried, time, cmp, asked, hung>>

Tick == time < MaxTime /\ time' = time + 1
        /\ UNCHANGED <<build, ext, probed, tried, cmp, mtie, stip, asked, hung>>

SbiNext == \/ \E c \in Calls : Ecall(c)
           \/ ProbeExt
           \/ TimerInterrupt
           \/ Tick

\* Time passes and an unmasked interrupt is taken.
SbiFair == WF_sbiVars(Tick) /\ WF_sbiVars(TimerInterrupt)
SbiSpec == SbiInit /\ [][SbiNext]_sbiVars /\ SbiFair

(* A pending supervisor timer interrupt is that of the last SET_TIMER: its *)
(* time has come (mtimecmp, MTIE and STIP are written apart).              *)
StipMeansExpired == stip => asked # Never /\ asked <= time

(* Once the clock has passed every time a SET_TIMER can have named, the    *)
(* supervisor has its interrupt, unless the hart is hung                   *)
(* (src/mentry.S:428-434, 834-846).                                        *)
TimerArrives == (asked # Never /\ time = MaxTime) ~> (stip \/ hung)

(* An extension that PROBE_EXT calls available answers its own function,   *)
(* and one called absent refuses it, in every build and on both paths;     *)
(* "base" itself is the exception: it answers and is called absent         *)
(* (src/mtrap.c:325-345 against 745-850 and src/mentry.S:786-935).         *)
ProbeIsTrue ==
  ext # "base" => /\ probed = "yes" => tried \subseteq {"SUCCESS"}
                  /\ probed = "no" => tried \subseteq {"NOT_SUPPORTED"}
=============================================================================
