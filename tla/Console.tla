------------------------------ MODULE Console ------------------------------
(***************************************************************************)
(* console_putchar of all harts under printk_lock, with the colorizer of   *)
(* the kernel log (con_colorize_putchar, src/con_utils.c) that holds back  *)
(* the start of a "Linux " banner, and console_getchar, which turns the    *)
(* colorizer off without the lock (src/mtrap.c).  Colors are left out.     *)
(***************************************************************************)
EXTENDS SpinLock, Sequences

CONSTANTS
  Pattern,  \* linux_hdr_pattern
  Others,   \* characters that are none of those below
  MaxPos    \* 30: length of a time stamp

ASSUME ConsoleAssumption ==
  /\ Pattern \in Seq(STRING) /\ Len(Pattern) > 0 /\ MaxPos \in Nat
  /\ "wrong" \notin Others \cup {Pattern[k] : k \in 1 .. Len(Pattern)}

VARIABLES
  lcs, lcsPos,  \* state of the colorizer
  skip,         \* skip_con_colorize
  look,         \* what the hart with the lock has read of it: "color", "plain" or nothing yet
  due           \* history: characters put in that have not come out, or <<"wrong">>

conVars == <<lcs, lcsPos, skip, look, due>>

Chars == {"[", "]", " ", ":", "\n", "\r"} \cup Others \cup {Pattern[k] : k \in 1 .. Len(Pattern)}

ConInit == Init /\ lcs = "INIT" /\ lcsPos = 0 /\ skip = FALSE /\ look = "-" /\ due = << >>

Wrong == <<"wrong">>
\* What is held back when the colorizer is off stays behind for good.
Behind(text) == IF text = Wrong THEN Wrong ELSE << >>

\* What goes out comes off what was put in, in that order.
Out(ch, text) ==
  LET owed == Append(due, ch)
      left == IF SubSeq(owed, 1, Len(text)) = text
              THEN SubSeq(owed, Len(text) + 1, Len(owed)) ELSE Wrong
  IN due' = IF skip THEN Behind(left) ELSE left

\* The automaton's step: its next state and the text it puts out.
To(next, pos, ch, text) == lcs' = next /\ lcsPos' = pos /\ Out(ch, text)

Stamp(ch) ==             \* LCS_TIME, LCS_INFO2
  IF ch = "]" THEN To("SPACE1", lcsPos, ch, <<ch>>)
  ELSE To(IF lcsPos + 1 > MaxPos THEN "PARSE_ERR" ELSE lcs, lcsPos + 1, ch, <<ch>>)

\* A mismatch that forgets what was held back.
LinuxHeader_DropsPrefix(ch) ==
  IF lcsPos = Len(Pattern) THEN To("LINUX_HDR_REST", lcsPos, ch, Append(Pattern, ch))
  ELSE IF ch = Pattern[lcsPos + 1] THEN To(lcs, lcsPos + 1, ch, << >>)
  ELSE To("TEXT_MAIN", lcsPos, ch, <<ch>>)

LinuxHeader(ch) ==
  IF lcsPos = Len(Pattern) THEN To("LINUX_HDR_REST", lcsPos, ch, Append(Pattern, ch))
  ELSE IF ch = Pattern[lcsPos + 1] THEN To(lcs, lcsPos + 1, ch, << >>)
  ELSE To("TEXT_MAIN", lcsPos, ch, Append(SubSeq(Pattern, 1, lcsPos), ch))

Colorize(ch) ==
  CASE lcs = "INIT" ->
         IF ch = "[" THEN To("TIME", 0, ch, <<ch>>)
         ELSE To(IF ch \in {"\n", "\r"} THEN lcs ELSE "PARSE_ERR", lcsPos, ch, <<ch>>)
    [] lcs \in {"TIME", "INFO2"} -> Stamp(ch)
    [] lcs = "SPACE1" ->
         IF ch = "[" THEN To("INFO2", 0, ch, <<ch>>)
         ELSE To(IF ch = " " THEN "LINE_START" ELSE "PARSE_ERR", lcsPos, ch, <<ch>>)
    [] lcs = "LINE_START" ->
         IF ch = Pattern[1] THEN To("LINUX_HEADER", 1, ch, << >>)
         ELSE To("TEXT_MAIN", lcsPos, ch, <<ch>>)
    [] lcs = "LINUX_HEADER" -> LinuxHeader(ch)
    [] lcs = "TEXT_MAIN" /\ ch = ":" -> To("TEXT_REST", lcsPos, ch, <<ch>>)
    [] OTHER ->    \* LINUX_HDR_REST, TEXT_MAIN, TEXT_REST, PARSE_ERR
         To(IF ch = "\n" THEN "INIT" ELSE lcs, lcsPos, ch, <<ch>>)

\* mcall_console_putchar, with the lock held: the flag is read, the character put out.
ReadSkip(h) ==
  /\ pc[h] = "print" /\ look = "-"
  /\ look' = IF skip THEN "plain" ELSE "color"
  /\ UNCHANGED <<vars, lcs, lcsPos, skip, due>>

Putchar(h) ==
  /\ PrintChar(h) /\ look # "-" /\ look' = "-"
  /\ \E ch \in Chars :
       IF look = "plain" THEN Out(ch, <<ch>>) /\ UNCHANGED <<lcs, lcsPos>> ELSE Colorize(ch)
  /\ UNCHANGED skip

\* mcall_console_getchar takes no lock: the hart with the lock may have read the flag.
Getchar(h) ==
  /\ pc[h] = "S"
  /\ skip' = TRUE
  /\ due' = IF look = "color" THEN due ELSE Behind(due)
  /\ UNCHANGED <<vars, lcs, lcsPos, look>>

Locking(h) == (Call(h) \/ Test(h) \/ TryLock(h) \/ Unlock(h)) /\ UNCHANGED conVars
ConNext == \E h \in Harts : Locking(h) \/ ReadSkip(h) \/ Putchar(h) \/ Getchar(h)
ConFair == \A h \in Harts :
             WF_<<vars, conVars>>(ReadSkip(h) \/ Putchar(h) \/ (Locking(h) /\ ~Call(h)))
ConSpec == ConInit /\ [][ConNext]_<<vars, conVars>> /\ ConFair

(* The text comes out as it went in, in order and whole, whichever harts   *)
(* put it in: nothing but the beginning of a banner is held back, and      *)
(* nothing but that can be lost, when a getchar turns the colorizer off    *)
(* while another hart is in the middle of it (src/con_utils.c:287-305,     *)
(* src/mtrap.c:189).                                                       *)
TextComesOut ==
  due = IF (~skip \/ look = "color") /\ lcs = "LINUX_HEADER" THEN SubSeq(Pattern, 1, lcsPos) ELSE << >>
=============================================================================
