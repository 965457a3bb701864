------------------------------ MODULE WideRead ------------------------------
(***************************************************************************)
(* A counter of two words read while it counts: scr_l2_pmu_read            *)
(* (src/l2_pmu.c), which reads the high word, the low one and the high one *)
(* again, and read_counter64 (src/fsbl.c, builds with PLF_HWCNT_DUMP),     *)
(* which repeats that until the high words agree.                          *)
(***************************************************************************)
EXTENDS Integers

CONSTANTS
  WordValues,  \* values of a word: 2^32
  MaxCount     \* bound: what the counter can reach

ASSUME WideReadAssumption ==
  WordValues \in Nat \ {0, 1} /\ MaxCount \in Nat \ {0}

VARIABLES
  count,    \* the counter
  repeats,  \* the reader: TRUE for read_counter64
  rpc,      \* its place
  hPrev, lo, hi,   \* high_prev, low, high; _h, _l, _h2
  began     \* history: the counter when the read began

wideVars == <<count, repeats, rpc, hPrev, lo, hi, began>>

High(c) == c \div WordValues
Low(c)  == c % WordValues

WideInit ==
  /\ count \in 0 .. MaxCount /\ repeats \in BOOLEAN
  /\ rpc = "high" /\ hPrev = 0 /\ lo = 0 /\ hi = 0 /\ began = count

\* During one scr_l2_pmu_read the low word does not come round again.
Counts ==
  /\ count < MaxCount /\ rpc # "done"
  /\ ~repeats => count - began + 1 < WordValues
  /\ count' = count + 1
  /\ UNCHANGED <<repeats, rpc, hPrev, lo, hi, began>>

ReadHigh ==
  /\ rpc = "high"
  /\ hPrev' = High(count) /\ rpc' = "low"
  /\ UNCHANGED <<count, repeats, lo, hi, began>>

ReadLow ==
  /\ rpc = "low"
  /\ lo' = Low(count) /\ rpc' = "again"
  /\ UNCHANGED <<count, repeats, hPrev, hi, began>>

\* The high words differ: read_counter64 starts over, scr_l2_pmu_read takes
\* the low word once more.
ReadAgain ==
  /\ rpc = "again"
  /\ hi' = High(count)
  /\ rpc' = IF hi' = hPrev THEN "done" ELSE IF repeats THEN "high" ELSE "fix"
  /\ UNCHANGED <<count, repeats, hPrev, lo, began>>

FixLow_Kept ==
  /\ rpc = "fix" /\ rpc' = "done"
  /\ UNCHANGED <<count, repeats, hPrev, lo, hi, began>>
FixLow ==
  /\ rpc = "fix"
  /\ lo' = Low(count) /\ rpc' = "done"
  /\ UNCHANGED <<count, repeats, hPrev, hi, began>>

WideNext == Counts \/ ReadHigh \/ ReadLow \/ ReadAgain \/ FixLow
WideSpec == WideInit /\ [][WideNext]_wideVars

(* "race-free read of a 64-bit counter" (src/fsbl.c:965): the value that   *)
(* is returned is one the counter had while it was read, also when the low *)
(* word overflows between two of the reads (src/l2_pmu.c:142-152).         *)
ReadIsAValue ==
  rpc = "done" => hi * WordValues + lo \in began .. count
=============================================================================
