--------------------------- MODULE ConsoleProofs ---------------------------
(***************************************************************************)
(* Theorems of Console for every number of harts, every banner and every   *)
(* alphabet: the console's steps keep the lock's invariant, and no text is *)
(* lost or changed by the colorizer but the held back part of a banner.    *)
(* And of Keyboard: what is read of it is what was pressed.                *)
(***************************************************************************)
EXTENDS Console, Keyboard, SpinLockProofs, SequenceTheorems

\* A step of the console is a step of the spinlock or leaves it alone.
LEMMA ConsoleStep ==
  ASSUME [ConNext]_<<vars, conVars>> PROVE [Next]_vars
<1>1. ASSUME NEW h \in Harts, Locking(h) PROVE [Next]_vars
  BY <1>1 DEF Locking, Next, Firmware
<1>2. ASSUME NEW h \in Harts, ReadSkip(h) PROVE [Next]_vars
  BY <1>2 DEF ReadSkip
<1>3. ASSUME NEW h \in Harts, Putchar(h) PROVE [Next]_vars
  BY <1>3 DEF Putchar, Next, Firmware
<1>4. ASSUME NEW h \in Harts, Getchar(h) PROVE [Next]_vars
  BY <1>4 DEF Getchar
<1>5. CASE UNCHANGED <<vars, conVars>>
  BY <1>5
<1> QED BY <1>1, <1>2, <1>3, <1>4, <1>5 DEF ConNext

\* printk_lock is held by one hart at most, with the colorizer inside and
\* getchar outside of it (src/mtrap.c:163-195).
THEOREM ConsoleLockIsExact == ConSpec => []LockInv
<1>1. ConInit => TypeOK /\ LockInv
  BY DEF ConInit, Init, TypeOK, LockInv, Holders
<1>2. TypeOK /\ LockInv /\ [ConNext]_<<vars, conVars>> => TypeOK' /\ LockInv'
  <2> SUFFICES ASSUME TypeOK, LockInv, [ConNext]_<<vars, conVars>> PROVE TypeOK' /\ LockInv'
    OBVIOUS
  <2>1. [Next]_vars
    BY ConsoleStep
  <2>2. TypeOK'
    BY <2>1 DEF TypeOK, Next, vars, Call, Firmware, Test, TryLock, PrintChar, Unlock, Step
  <2> QED BY <2>1, <2>2, LockStep
<1> QED BY <1>1, <1>2, PTL DEF ConSpec

-----------------------------------------------------------------------------
\* The characters of the pattern are characters, and none of them is the mark.
LEMMA PatternFacts ==
  /\ Pattern \in Seq(Chars) /\ Len(Pattern) \in Nat \ {0}
  /\ "wrong" \notin Chars
<1>1. Pattern \in Seq(STRING) /\ Len(Pattern) > 0
  BY ConsoleAssumption
<1>2. Len(Pattern) \in Nat /\ \A k \in 1 .. Len(Pattern) : Pattern[k] \in Chars
  BY <1>1, LenProperties DEF Chars
<1>3. Pattern = SubSeq(Pattern, 1, Len(Pattern))
  BY <1>1, SubSeqFull
<1>4. Pattern \in Seq(Chars)
  BY <1>2, <1>3, SubSeqProperties
<1>5. "wrong" \notin Chars
  BY ConsoleAssumption DEF Chars
<1> QED BY <1>1, <1>2, <1>4, <1>5

\* The beginnings of the pattern are texts, of their length.
LEMMA PrefixFacts ==
  ASSUME NEW p \in 0 .. Len(Pattern)
  PROVE  /\ SubSeq(Pattern, 1, p) \in Seq(Chars)
         /\ Len(SubSeq(Pattern, 1, p)) = p
         /\ \A k \in 1 .. p : SubSeq(Pattern, 1, p)[k] = Pattern[k]
<1>1. \A k \in 1 .. p : Pattern[k] \in Chars
  BY PatternFacts, ElementOfSeq
<1> QED BY <1>1, PatternFacts, SubSeqProperties

\* A text of characters is not the mark.
LEMMA TextIsNotWrong ==
  ASSUME NEW text \in Seq(Chars) PROVE text # Wrong /\ Behind(text) = << >>
<1>1. text # Wrong
  <2> SUFFICES ASSUME text = Wrong PROVE FALSE
    OBVIOUS
  <2>1. Len(text) = 1 /\ text[1] = "wrong"
    BY DEF Wrong
  <2>2. text[1] \in Chars
    BY <2>1, ElementOfSeq
  <2> QED BY <2>1, <2>2, PatternFacts
<1> QED BY <1>1 DEF Behind

\* When everything owed is put out, nothing is owed.
LEMMA OutWhole ==
  ASSUME NEW ch \in Chars, due \in Seq(Chars), Out(ch, Append(due, ch))
  PROVE  due' = << >>
<1> DEFINE owed == Append(due, ch)
<1>1. owed \in Seq(Chars) /\ Len(owed) \in Nat
  BY AppendProperties, LenProperties
<1>2. SubSeq(owed, 1, Len(owed)) = owed
  BY <1>1, SubSeqFull
<1>3. SubSeq(owed, Len(owed) + 1, Len(owed)) = << >>
  BY <1>1, SubSeqEmpty
<1>4. Behind(<< >>) = << >>
  BY TextIsNotWrong, EmptySeq
<1> QED BY <1>2, <1>3, <1>4 DEF Out

\* When nothing is put out, all of it is owed, or lost if the colorizer is off.
LEMMA OutNothing ==
  ASSUME NEW ch \in Chars, due \in Seq(Chars), Out(ch, << >>)
  PROVE  due' = IF skip THEN << >> ELSE Append(due, ch)
<1> DEFINE owed == Append(due, ch)
<1>1. owed \in Seq(Chars) /\ Len(owed) \in Nat
  BY AppendProperties, LenProperties
<1>2. Len(<< >>) = 0 /\ SubSeq(owed, 1, 0) = << >>
  BY SubSeqEmpty
<1>3. SubSeq(owed, 0 + 1, Len(owed)) = owed
  BY <1>1, SubSeqFull
<1>4. Behind(owed) = << >>
  BY <1>1, TextIsNotWrong
<1> QED BY <1>2, <1>3, <1>4 DEF Out

\* One character more of the banner.
LEMMA LongerPrefix ==
  ASSUME NEW p \in 0 .. Len(Pattern) - 1
  PROVE  Append(SubSeq(Pattern, 1, p), Pattern[p + 1]) = SubSeq(Pattern, 1, p + 1)
<1>1. p \in 0 .. Len(Pattern) /\ p + 1 \in 0 .. Len(Pattern) /\ p + 1 \in 1 .. Len(Pattern)
  BY PatternFacts
<1> DEFINE s == SubSeq(Pattern, 1, p)
           t == SubSeq(Pattern, 1, p + 1)
<1>2. Pattern[p + 1] \in Chars
  BY <1>1, PatternFacts, ElementOfSeq
<1>3. s \in Seq(Chars) /\ Len(s) = p /\ \A k \in 1 .. p : s[k] = Pattern[k]
  BY <1>1, PrefixFacts
<1>4. t \in Seq(Chars) /\ Len(t) = p + 1 /\ \A k \in 1 .. p + 1 : t[k] = Pattern[k]
  BY <1>1, PrefixFacts
<1> HIDE DEF s, t
<1>5. /\ Append(s, Pattern[p + 1]) \in Seq(Chars)
      /\ Len(Append(s, Pattern[p + 1])) = p + 1
      /\ \A k \in 1 .. p : Append(s, Pattern[p + 1])[k] = s[k]
      /\ Append(s, Pattern[p + 1])[p + 1] = Pattern[p + 1]
  BY <1>2, <1>3, AppendProperties
<1>6. \A k \in 1 .. p + 1 : Append(s, Pattern[p + 1])[k] = t[k]
  BY <1>3, <1>4, <1>5
<1>7. Append(s, Pattern[p + 1]) = t
  BY <1>4, <1>5, <1>6, SeqEqual
<1> QED BY <1>7 DEF s, t

\* What is held back: the beginning of the banner that has been recognised.
Held == IF lcs = "LINUX_HEADER" THEN SubSeq(Pattern, 1, lcsPos) ELSE << >>

HeldInv ==
  /\ TextComesOut
  /\ look \in {"-", "color", "plain"}
  /\ look = "plain" => skip
  /\ lcs = "LINUX_HEADER" => lcsPos \in 1 .. Len(Pattern)

LEMMA HeldFacts ==
  ASSUME HeldInv
  PROVE  /\ due \in Seq(Chars) /\ Behind(due) = << >>
         /\ look = "color" \/ ~skip => due = Held
         /\ look # "color" /\ skip => due = << >>
<1>1. Held \in Seq(Chars)
  BY PrefixFacts, PatternFacts, EmptySeq DEF Held, HeldInv
<1>2. due = Held \/ due = << >>
  BY DEF HeldInv, TextComesOut, Held
<1>3. due \in Seq(Chars)
  BY <1>1, <1>2, EmptySeq
<1>4. (look = "color" \/ ~skip => due = Held) /\ (look # "color" /\ skip => due = << >>)
  BY DEF HeldInv, TextComesOut, Held
<1> QED BY <1>3, <1>4, TextIsNotWrong

\* What a step of the automaton leaves behind, the flag being what it was.
Settled(ch) ==
  /\ due' = IF ~skip /\ lcs' = "LINUX_HEADER" THEN SubSeq(Pattern, 1, lcsPos') ELSE << >>
  /\ lcs' = "LINUX_HEADER" => lcsPos' \in 1 .. Len(Pattern)

\* Outside of a banner a character goes out, or is the first of one.
LEMMA OutsideBanner ==
  ASSUME NEW ch \in Chars, due = << >>, lcs # "LINUX_HEADER", Colorize(ch)
  PROVE  Settled(ch)
<1>1. \/ \E next, pos : next # "LINUX_HEADER" /\ To(next, pos, ch, <<ch>>)
      \/ ch = Pattern[1] /\ To("LINUX_HEADER", 1, ch, << >>)
  <2>1. CASE lcs = "INIT"
    BY <2>1 DEF Colorize
  <2>2. CASE lcs \in {"TIME", "INFO2"}
    BY <2>2 DEF Colorize, Stamp
  <2>3. CASE lcs = "SPACE1"
    BY <2>3 DEF Colorize
  <2>4. CASE lcs = "LINE_START"
    BY <2>4 DEF Colorize
  <2>5. CASE lcs = "TEXT_MAIN" /\ ch = ":"
    BY <2>5 DEF Colorize
  <2>6. CASE /\ lcs \notin {"INIT", "TIME", "INFO2", "SPACE1", "LINE_START"}
             /\ ~(lcs = "TEXT_MAIN" /\ ch = ":")
    <3>1. To(IF ch = "\n" THEN "INIT" ELSE lcs, lcsPos, ch, <<ch>>)
      BY <2>6 DEF Colorize
    <3> QED BY <3>1
  <2> QED BY <2>1, <2>2, <2>3, <2>4, <2>5, <2>6
<1>2. due \in Seq(Chars) /\ Append(due, ch) = <<ch>>
  BY EmptySeq
<1>3. ASSUME NEW next, NEW pos, next # "LINUX_HEADER", To(next, pos, ch, <<ch>>)
      PROVE  Settled(ch)
  <2>1. lcs' = next /\ Out(ch, Append(due, ch))
    BY <1>2, <1>3 DEF To
  <2> QED BY <1>2, <1>3, <2>1, OutWhole DEF Settled
<1>4. ASSUME ch = Pattern[1], To("LINUX_HEADER", 1, ch, << >>)
      PROVE  Settled(ch)
  <2>1. lcs' = "LINUX_HEADER" /\ lcsPos' = 1 /\ Out(ch, << >>)
    BY <1>4 DEF To
  <2>2. due' = IF skip THEN << >> ELSE <<ch>>
    BY <1>2, <2>1, OutNothing
  <2>3. 1 \in 1 .. Len(Pattern) /\ 1 \in 0 .. Len(Pattern)
    BY PatternFacts
  <2>4. SubSeq(Pattern, 1, 1) = <<ch>>
    <3>1. SubSeq(Pattern, 1, 0) = << >>
      BY SubSeqEmpty
    <3>2. 0 \in 0 .. Len(Pattern) - 1 /\ 0 + 1 = 1
      BY PatternFacts
    <3>3. Append(SubSeq(Pattern, 1, 0), Pattern[1]) = SubSeq(Pattern, 1, 1)
      BY <3>2, LongerPrefix
    <3> QED BY <1>2, <1>4, <3>1, <3>3
  <2> QED BY <2>1, <2>2, <2>3, <2>4 DEF Settled
<1> QED BY <1>1, <1>3, <1>4

\* Inside a banner a character completes it, continues it, or lets all go.
LEMMA InsideBanner ==
  ASSUME NEW ch \in Chars, due = SubSeq(Pattern, 1, lcsPos),
         lcs = "LINUX_HEADER", lcsPos \in 1 .. Len(Pattern), Colorize(ch)
  PROVE  Settled(ch)
<1>1. LinuxHeader(ch)
  BY DEF Colorize
<1>2. Len(Pattern) \in Nat /\ lcsPos \in 0 .. Len(Pattern) /\ due \in Seq(Chars)
  BY PatternFacts, PrefixFacts
<1>3. CASE lcsPos = Len(Pattern)
  <2>1. due = Pattern
    BY <1>3, PatternFacts, SubSeqFull
  <2>2. lcs' = "LINUX_HDR_REST" /\ Out(ch, Append(due, ch))
    BY <1>1, <1>3, <2>1 DEF LinuxHeader, To
  <2> QED BY <1>2, <2>2, OutWhole DEF Settled
<1>4. CASE lcsPos # Len(Pattern) /\ ch = Pattern[lcsPos + 1]
  <2>1. lcs' = "LINUX_HEADER" /\ lcsPos' = lcsPos + 1 /\ Out(ch, << >>)
    BY <1>1, <1>4 DEF LinuxHeader, To
  <2>2. due' = IF skip THEN << >> ELSE Append(due, ch)
    BY <1>2, <2>1, OutNothing
  <2>3. lcsPos \in 0 .. Len(Pattern) - 1 /\ lcsPos + 1 \in 1 .. Len(Pattern)
    BY <1>2, <1>4
  <2>4. Append(due, ch) = SubSeq(Pattern, 1, lcsPos + 1)
    BY <1>4, <2>3, LongerPrefix
  <2> QED BY <2>1, <2>2, <2>3, <2>4 DEF Settled
<1>5. CASE lcsPos # Len(Pattern) /\ ch # Pattern[lcsPos + 1]
  <2>1. lcs' = "TEXT_MAIN" /\ Out(ch, Append(due, ch))
    BY <1>1, <1>5 DEF LinuxHeader, To
  <2> QED BY <1>2, <2>1, OutWhole DEF Settled
<1> QED BY <1>3, <1>4, <1>5

\* One step of one hart.
LEMMA HeldStep ==
  ASSUME HeldInv, [ConNext]_<<vars, conVars>> PROVE HeldInv'
<1>1. ASSUME NEW h \in Harts, Locking(h) PROVE HeldInv'
  BY <1>1 DEF Locking, conVars, HeldInv, TextComesOut
<1>2. ASSUME NEW h \in Harts, ReadSkip(h) PROVE HeldInv'
  BY <1>2 DEF ReadSkip, HeldInv, TextComesOut
<1>3. ASSUME NEW h \in Harts, Putchar(h) PROVE HeldInv'
  <2>1. look # "-" /\ look' = "-" /\ skip' = skip
    BY <1>3 DEF Putchar
  <2>2. PICK ch \in Chars :
          IF look = "plain" THEN Out(ch, <<ch>>) /\ UNCHANGED <<lcs, lcsPos>> ELSE Colorize(ch)
    BY <1>3 DEF Putchar
  <2>3. CASE look = "plain"
    <3>1. skip /\ due = << >>
      BY <2>3, HeldFacts DEF HeldInv
    <3>2. due \in Seq(Chars) /\ Append(due, ch) = <<ch>>
      BY <3>1, EmptySeq
    <3>3. due' = << >>
      BY <2>2, <2>3, <3>2, OutWhole
    <3> QED BY <2>1, <2>2, <2>3, <3>1, <3>3 DEF HeldInv, TextComesOut
  <2>4. CASE look = "color"
    <3>1. due = Held /\ Colorize(ch)
      BY <2>2, <2>4, HeldFacts
    <3>2. Settled(ch)
      BY <3>1, OutsideBanner, InsideBanner DEF Held, HeldInv
    <3> QED BY <2>1, <3>2 DEF Settled, HeldInv, TextComesOut
  <2> QED BY <2>1, <2>3, <2>4 DEF HeldInv
<1>4. ASSUME NEW h \in Harts, Getchar(h) PROVE HeldInv'
  <2>1. due' = IF look = "color" THEN due ELSE << >>
    BY <1>4, HeldFacts DEF Getchar
  <2>2. skip' /\ look' = look /\ lcs' = lcs /\ lcsPos' = lcsPos
    BY <1>4 DEF Getchar
  <2> QED BY <2>1, <2>2, HeldFacts DEF HeldInv, TextComesOut, Held
<1>5. CASE UNCHANGED <<vars, conVars>>
  BY <1>5 DEF conVars, HeldInv, TextComesOut
<1> QED BY <1>1, <1>2, <1>3, <1>4, <1>5 DEF ConNext

\* The text comes out as it went in, whichever harts put it in and whenever one
\* of them turns the colorizer off (src/con_utils.c:222-371, src/mtrap.c:163-195).
THEOREM TextIsKept == ConSpec => []TextComesOut
<1>1. ConInit => HeldInv
  BY DEF ConInit, HeldInv, TextComesOut
<1>2. HeldInv => TextComesOut
  BY DEF HeldInv
<1> QED BY <1>1, <1>2, HeldStep, PTL DEF ConSpec

-----------------------------------------------------------------------------
(***************************************************************************)
(* The keyboard.  What has been sent and not been read is one sequence of  *)
(* bytes, those the port has and those on the wire.                        *)
(***************************************************************************)
Codes == {Ack, Passed, "00", "fc"}
Sent == Codes \cup Keys \cup {Release}
Bytes == fifo \o wire

\* Byte i of b, read from place k on, is the key that a Release is about; it is
\* read as a letter.
Released(b, k, i) == IF i = 1 THEN k = "release" ELSE b[i - 1] = Release
Letter(b, k, i) == b[i] \in Letters /\ ~Released(b, k, i)

\* The letters of b continue those read before, t, to those pressed, p. r counts
\* the letters read when i bytes of b are.
Spells(b, k, t, p) ==
  /\ Len(t) <= Len(p) /\ \A j \in 1 .. Len(t) : p[j] = t[j]
  /\ \E r \in [0 .. Len(b) -> Nat] :
       /\ r[0] = Len(t) /\ r[Len(b)] = Len(p)
       /\ \A i \in 1 .. Len(b) :
            IF Letter(b, k, i) THEN r[i] = r[i - 1] + 1 /\ p[r[i]] = b[i] ELSE r[i] = r[i - 1]
       /\ \A i, j \in 0 .. Len(b) : i <= j => r[i] <= r[j]
\* The shift that is on, or that a byte of b turns on, is turned off by a later one.
Lifted(b, k, s) ==
  /\ s => \E j \in 1 .. Len(b) : Released(b, k, j) /\ b[j] \in Shifts
  /\ \A i \in 1 .. Len(b) :
       b[i] \in Shifts /\ ~Released(b, k, i) =>
         \E j \in i + 1 .. Len(b) : Released(b, k, j) /\ b[j] \in Shifts
\* A Release and its key are sent together.
WellFormed(b, k) ==
  /\ \A i \in 1 .. Len(b) : b[i] = Release => i < Len(b) /\ b[i + 1] \in Keys
  /\ k = "release" => b # <<>> /\ b[1] \in Keys

KeyTypes ==
  /\ device \in {"none", "keyboard", "mouse", "broken"}
  /\ replies \in Seq(Seq(Codes))
  /\ wire \in Seq(Sent) /\ fifo \in Seq(Sent)
  /\ kpc \in {"reset", "ack", "bat", "second", "rate", "idle", "release"}
  /\ found \in {"none", "keyboard", "mouse"} /\ shift \in BOOLEAN
  /\ held \subseteq Keys /\ pressed \in Seq(Letters) /\ typed \in Seq(Letters)
\* What device d may send; a mouse never ends with the byte that says that the
\* test has passed.
GroupOf(d, g) ==
  /\ g # <<>>
  /\ d = "keyboard" => \A i \in 1 .. Len(g) : g[i] # "00"
  /\ d = "broken" => \A i \in 1 .. Len(g) : g[i] \notin {"00", Passed}
  /\ d = "mouse" => g[Len(g)] # Passed
Identified ==
  /\ found # "none" => device \in {found, "none"}
  /\ \A i \in 1 .. Len(replies) : GroupOf(device, replies[i])
  /\ Bytes # <<>> => GroupOf(device, Bytes)
  /\ kpc = "second" => device # "broken" /\ (device = "mouse" => Bytes # <<>>)
\* No key has been struck.
Unused ==
  /\ held = {} /\ pressed = <<>> /\ typed = <<>> /\ ~shift
  /\ \A i \in 1 .. Len(Bytes) : Bytes[i] \in Codes
KeyboardInv ==
  device = "keyboard" =>
    /\ kpc \notin {"idle", "release"} \/ replies # <<>> => Unused
    /\ WellFormed(Bytes, kpc)
    /\ Spells(Bytes, kpc, typed, pressed)
    /\ held \cap Shifts = {} => Lifted(Bytes, kpc, shift)

\* A byte sent after b, and a letter pressed if it is one.
LEMMA SpellsAppend ==
  ASSUME NEW S, NEW b \in Seq(S), NEW k, NEW t \in Seq(Letters), NEW p \in Seq(Letters),
         NEW x \in S, Spells(b, k, t, p),
         NEW q, q = IF Letter(Append(b, x), k, Len(b) + 1) THEN Append(p, x) ELSE p
  PROVE  Spells(Append(b, x), k, t, q)
<1> DEFINE c == Append(b, x)
           n == Len(b)
           l == Letter(c, k, n + 1)
<1>1. PICK r \in [0 .. n -> Nat] :
        /\ r[0] = Len(t) /\ r[n] = Len(p)
        /\ \A i \in 1 .. n :
             IF Letter(b, k, i) THEN r[i] = r[i - 1] + 1 /\ p[r[i]] = b[i] ELSE r[i] = r[i - 1]
        /\ \A i, j \in 0 .. n : i <= j => r[i] <= r[j]
  BY DEF Spells
<1> DEFINE u == [i \in 0 .. n + 1 |-> IF i = n + 1 THEN Len(q) ELSE r[i]]
<1>2. /\ c \in Seq(S) /\ Len(c) = n + 1 /\ n \in Nat /\ c[n + 1] = x
      /\ \A i \in 1 .. n : c[i] = b[i]
  OBVIOUS
<1>3. \A i \in 1 .. n : Letter(c, k, i) = Letter(b, k, i)
  BY <1>2 DEF Letter, Released
<1>4. /\ q \in Seq(Letters) /\ Len(q) = IF l THEN Len(p) + 1 ELSE Len(p)
      /\ \A i \in 1 .. Len(p) : q[i] = p[i]
      /\ l => q[Len(q)] = x
  <2>1. l => x \in Letters
    BY <1>2 DEF Letter
  <2> QED BY <2>1
<1> HIDE DEF l
<1>5. u \in [0 .. Len(c) -> Nat] /\ u[0] = Len(t) /\ u[Len(c)] = Len(q)
  BY <1>1, <1>2, <1>4
<1>6. ASSUME NEW i \in 0 .. Len(c), NEW j \in 0 .. Len(c), i <= j PROVE u[i] <= u[j]
  <2>1. ASSUME NEW h \in 0 .. n PROVE u[h] = r[h] /\ r[h] \in Nat /\ r[h] <= Len(p)
    <3>1. n \in 0 .. n /\ h <= n /\ h \in 0 .. n + 1 /\ h # n + 1
      BY <1>2
    <3> QED BY <1>1, <3>1
  <2>2. u[n + 1] = Len(q) /\ Len(p) <= Len(q)
    BY <1>2, <1>4
  <2>3. CASE j \in 0 .. n
    <3>1. i \in 0 .. n
      BY <1>2, <1>6, <2>3
    <3> QED BY <1>1, <1>6, <2>1, <2>3, <3>1
  <2>4. CASE j = n + 1
    <3>1. i \in 0 .. n \/ i = n + 1
      BY <1>2
    <3> HIDE DEF u
    <3>2. u[j] = Len(q)
      BY <2>2, <2>4
    <3>3. u[i] <= Len(p) \/ u[i] = Len(q)
      BY <2>1, <2>2, <3>1
    <3>4. u[i] = Len(q) \/ u[i] \in Nat
      BY <2>1, <2>2, <3>1
    <3> QED BY <1>4, <2>2, <3>2, <3>3, <3>4
  <2> QED BY <1>2, <2>3, <2>4
<1>7. ASSUME NEW i \in 1 .. Len(c)
      PROVE  IF Letter(c, k, i) THEN u[i] = u[i - 1] + 1 /\ q[u[i]] = c[i] ELSE u[i] = u[i - 1]
  <2>1. CASE i = n + 1
    <3>1. u[i] = Len(q) /\ u[i - 1] = Len(p)
      BY <1>1, <1>2, <2>1
    <3> QED BY <1>2, <1>4, <2>1, <3>1 DEF l
  <2>2. CASE i # n + 1
    <3>1. i \in 1 .. n /\ u[i] = r[i] /\ u[i - 1] = r[i - 1]
      BY <1>2, <2>2
    <3>2. r[i] <= Len(p) /\ r[i - 1] \in Nat /\ r[i] \in Nat
      <4>1. i \in 0 .. n /\ i - 1 \in 0 .. n /\ n \in 0 .. n /\ i <= n
        BY <1>2, <3>1
      <4> QED BY <1>1, <4>1
    <3>3. Letter(b, k, i) => q[r[i]] = p[r[i]] /\ c[i] = b[i]
      BY <1>1, <1>2, <1>4, <3>1, <3>2
    <3> QED BY <1>1, <1>3, <3>1, <3>3
  <2> QED BY <2>1, <2>2
<1>8. Len(t) <= Len(q) /\ \A j \in 1 .. Len(t) : q[j] = t[j]
  BY <1>4 DEF Spells
<1> HIDE DEF u, c
<1>9. \E f \in [0 .. Len(c) -> Nat] :
       /\ f[0] = Len(t) /\ f[Len(c)] = Len(q)
       /\ \A i \in 1 .. Len(c) :
            IF Letter(c, k, i) THEN f[i] = f[i - 1] + 1 /\ q[f[i]] = c[i] ELSE f[i] = f[i - 1]
       /\ \A i, j \in 0 .. Len(c) : i <= j => f[i] <= f[j]
  BY <1>5, <1>6, <1>7
<1> QED BY <1>8, <1>9 DEF Spells, c

\* The first byte of b is read.
LEMMA SpellsTail ==
  ASSUME NEW S, NEW b \in Seq(S), NEW k, NEW t \in Seq(Letters), NEW p \in Seq(Letters),
         b # <<>>, Spells(b, k, t, p), NEW m, (m = "release") <=> (b[1] = Release),
         NEW v, v = IF Letter(b, k, 1) THEN Append(t, b[1]) ELSE t
  PROVE  Spells(Tail(b), m, v, p)
<1> DEFINE c == Tail(b)
           n == Len(b)
           l == Letter(b, k, 1)
<1>1. PICK r \in [0 .. n -> Nat] :
        /\ r[0] = Len(t) /\ r[n] = Len(p)
        /\ \A i \in 1 .. n :
             IF Letter(b, k, i) THEN r[i] = r[i - 1] + 1 /\ p[r[i]] = b[i] ELSE r[i] = r[i - 1]
        /\ \A i, j \in 0 .. n : i <= j => r[i] <= r[j]
  BY DEF Spells
<1> DEFINE u == [i \in 0 .. n - 1 |-> r[i + 1]]
<1>2. /\ c \in Seq(S) /\ Len(c) = n - 1 /\ n \in Nat \ {0}
      /\ \A i \in 1 .. n - 1 : c[i] = b[i + 1]
  OBVIOUS
<1>3. \A i \in 1 .. n - 1 : Letter(c, m, i) <=> Letter(b, k, i + 1)
  <2>1. \A i \in 1 .. n - 1 : Released(c, m, i) <=> Released(b, k, i + 1)
    BY <1>2 DEF Released
  <2> QED BY <1>2, <2>1 DEF Letter
<1>4. /\ v \in Seq(Letters) /\ Len(v) = IF l THEN Len(t) + 1 ELSE Len(t)
      /\ \A i \in 1 .. Len(t) : v[i] = t[i]
      /\ l => v[Len(v)] = b[1]
  <2>1. l => b[1] \in Letters
    BY DEF Letter
  <2> QED BY <2>1
<1> HIDE DEF l
<1>5. r[1] = Len(v) /\ r[1] <= Len(p) /\ l => p[r[1]] = b[1]
  <2>1. 1 \in 1 .. n /\ 1 - 1 = 0
    BY <1>2
  <2> QED BY <1>1, <1>2, <1>4, <2>1 DEF l
<1>6. r[1] = Len(v) /\ r[1] <= Len(p)
  <2>1. 1 \in 1 .. n /\ 1 - 1 = 0
    BY <1>2
  <2> QED BY <1>1, <1>2, <1>4, <2>1 DEF l
<1>7. u \in [0 .. Len(c) -> Nat] /\ u[0] = Len(v) /\ u[Len(c)] = Len(p)
  BY <1>1, <1>2, <1>6
<1>8. \A i, j \in 0 .. Len(c) : i <= j => u[i] <= u[j]
  BY <1>1, <1>2
<1>9. ASSUME NEW i \in 1 .. Len(c)
      PROVE  IF Letter(c, m, i) THEN u[i] = u[i - 1] + 1 /\ p[u[i]] = c[i] ELSE u[i] = u[i - 1]
  <2>1. /\ i \in 1 .. n - 1 /\ i + 1 \in 1 .. n /\ (i + 1) - 1 = i
        /\ u[i] = r[i + 1] /\ u[i - 1] = r[i] /\ c[i] = b[i + 1]
    BY <1>2
  <2> QED BY <1>1, <1>3, <2>1
<1>10. Len(v) <= Len(p) /\ \A j \in 1 .. Len(v) : p[j] = v[j]
  BY <1>4, <1>5, <1>6 DEF Spells
<1> HIDE DEF u, c
<1>11. \E f \in [0 .. Len(c) -> Nat] :
       /\ f[0] = Len(v) /\ f[Len(c)] = Len(p)
       /\ \A i \in 1 .. Len(c) :
            IF Letter(c, m, i) THEN f[i] = f[i - 1] + 1 /\ p[f[i]] = c[i] ELSE f[i] = f[i - 1]
       /\ \A i, j \in 0 .. Len(c) : i <= j => f[i] <= f[j]
  BY <1>7, <1>8, <1>9
<1> QED BY <1>10, <1>11 DEF Spells, c

LEMMA SpellsNone ==
  ASSUME NEW S, NEW b \in Seq(S), NEW k, NEW t \in Seq(Letters),
         \A i \in 1 .. Len(b) : b[i] \notin Letters
  PROVE  Spells(b, k, t, t)
<1> DEFINE u == [i \in 0 .. Len(b) |-> Len(t)]
<1>1. /\ u \in [0 .. Len(b) -> Nat] /\ u[0] = Len(t) /\ u[Len(b)] = Len(t)
      /\ \A i, j \in 0 .. Len(b) : i <= j => u[i] <= u[j]
  OBVIOUS
<1>2. \A i \in 1 .. Len(b) :
        IF Letter(b, k, i) THEN u[i] = u[i - 1] + 1 /\ t[u[i]] = b[i] ELSE u[i] = u[i - 1]
  BY DEF Letter
<1> HIDE DEF u
<1>3. \E r \in [0 .. Len(b) -> Nat] :
       /\ r[0] = Len(t) /\ r[Len(b)] = Len(t)
       /\ \A i \in 1 .. Len(b) :
            IF Letter(b, k, i) THEN r[i] = r[i - 1] + 1 /\ t[r[i]] = b[i] ELSE r[i] = r[i - 1]
       /\ \A i, j \in 0 .. Len(b) : i <= j => r[i] <= r[j]
  BY <1>1, <1>2
<1>4. Len(t) <= Len(t)
  OBVIOUS
<1> QED BY <1>3, <1>4 DEF Spells

\* When all is read, what was read is what was pressed.
LEMMA SpellsAll ==
  ASSUME NEW k, NEW t \in Seq(Letters), NEW p \in Seq(Letters), Spells(<<>>, k, t, p)
  PROVE  t = p
<1>1. Len(t) = Len(p)
  BY DEF Spells
<1> QED BY <1>1 DEF Spells

LEMMA LiftedAppend ==
  ASSUME NEW S, NEW b \in Seq(S), NEW k, NEW s, NEW x \in S,
         \/ Released(Append(b, x), k, Len(b) + 1) /\ x \in Shifts
         \/ Lifted(b, k, s) /\ (x \in Shifts => Released(Append(b, x), k, Len(b) + 1))
  PROVE  Lifted(Append(b, x), k, s)
<1> DEFINE c == Append(b, x)
           n == Len(b)
<1>2. /\ c \in Seq(S) /\ Len(c) = n + 1 /\ n \in Nat /\ c[n + 1] = x
      /\ \A i \in 1 .. n : c[i] = b[i]
  OBVIOUS
<1>3. \A i \in 1 .. n : Released(c, k, i) = Released(b, k, i)
  BY <1>2 DEF Released
<1>1. \/ Released(c, k, n + 1) /\ x \in Shifts
      \/ Lifted(b, k, s) /\ (x \in Shifts => Released(c, k, n + 1))
  OBVIOUS
<1>4. CASE Released(c, k, n + 1) /\ x \in Shifts
  <2> HIDE DEF c
  <2> QED BY <1>2, <1>4 DEF Lifted
<1>5. CASE Lifted(b, k, s) /\ (x \in Shifts => Released(c, k, n + 1))
  <2> HIDE DEF c
  <2>1. s => \E j \in 1 .. Len(c) : Released(c, k, j) /\ c[j] \in Shifts
    BY <1>2, <1>3, <1>5 DEF Lifted
  <2>2. ASSUME NEW i \in 1 .. Len(c), c[i] \in Shifts /\ ~Released(c, k, i)
        PROVE  \E j \in i + 1 .. Len(c) : Released(c, k, j) /\ c[j] \in Shifts
    <3>1. i \in 1 .. n
      BY <1>2, <1>5, <2>2
    <3>2. PICK j \in i + 1 .. n : Released(b, k, j) /\ b[j] \in Shifts
      BY <1>2, <1>3, <1>5, <2>2, <3>1 DEF Lifted
    <3> QED BY <1>2, <1>3, <3>1, <3>2
  <2>3. Lifted(c, k, s)
    BY <2>1, <2>2 DEF Lifted
  <2> QED BY <2>3 DEF c
<1> QED BY <1>1, <1>4, <1>5

LEMMA LiftedTail ==
  ASSUME NEW S, NEW b \in Seq(S), NEW k, NEW s \in BOOLEAN, b # <<>>, Lifted(b, k, s),
         NEW m, (m = "release") <=> (b[1] = Release),
         NEW u \in BOOLEAN,
         u <=> (IF Released(b, k, 1) THEN s /\ b[1] \notin Shifts ELSE s \/ b[1] \in Shifts)
  PROVE  Lifted(Tail(b), m, u)
<1> DEFINE c == Tail(b)
           n == Len(b)
<1>2. /\ c \in Seq(S) /\ Len(c) = n - 1 /\ n \in Nat \ {0}
      /\ \A i \in 1 .. n - 1 : c[i] = b[i + 1]
  OBVIOUS
<1>3. \A i \in 1 .. n - 1 : Released(c, m, i) <=> Released(b, k, i + 1)
  BY <1>2 DEF Released
<1> HIDE DEF c
<1>4. ASSUME NEW j \in 2 .. n, Released(b, k, j) /\ b[j] \in Shifts
      PROVE  j - 1 \in 1 .. Len(c) /\ Released(c, m, j - 1) /\ c[j - 1] \in Shifts
  BY <1>2, <1>3, <1>4
<1>5. u => \E j \in 1 .. Len(c) : Released(c, m, j) /\ c[j] \in Shifts
  <2>1. u => \E j \in 2 .. n : Released(b, k, j) /\ b[j] \in Shifts
    BY <1>2 DEF Lifted
  <2> QED BY <1>4, <2>1
<1>6. ASSUME NEW i \in 1 .. Len(c), c[i] \in Shifts /\ ~Released(c, m, i)
      PROVE  \E j \in i + 1 .. Len(c) : Released(c, m, j) /\ c[j] \in Shifts
  <2>1. i + 1 \in 1 .. n /\ b[i + 1] \in Shifts /\ ~Released(b, k, i + 1)
    BY <1>2, <1>3, <1>6
  <2>2. PICK j \in (i + 1) + 1 .. n : Released(b, k, j) /\ b[j] \in Shifts
    BY <2>1 DEF Lifted
  <2>3. j \in 2 .. n /\ j - 1 \in i + 1 .. Len(c)
    BY <1>2, <2>2
  <2> QED BY <1>4, <2>2, <2>3
<1> QED BY <1>5, <1>6 DEF Lifted, c

\* The bytes of an answer are no keys.
LEMMA CodesApart ==
  /\ \A x \in Codes : x \notin Letters /\ x \notin Shifts /\ x # Release
  /\ Release \notin Keys /\ Letters \subseteq Keys /\ Shifts \subseteq Keys
BY KeyboardAssumption DEF Codes, Keys, Release, Ack, Passed, Shifts

\* Before the first key nothing that was sent is read as one.
LEMMA CodesOnly ==
  ASSUME NEW b \in Seq(Sent), \A i \in 1 .. Len(b) : b[i] \in Codes, NEW k, k # "release"
  PROVE  WellFormed(b, k) /\ Spells(b, k, <<>>, <<>>) /\ Lifted(b, k, FALSE)
<1>1. WellFormed(b, k) /\ Lifted(b, k, FALSE)
  BY CodesApart DEF WellFormed, Lifted
<1>2. Spells(b, k, <<>>, <<>>)
  <2>1. <<>> \in Seq(Letters) /\ \A i \in 1 .. Len(b) : b[i] \notin Letters
    BY CodesApart
  <2> QED BY <2>1, SpellsNone
<1> QED BY <1>1, <1>2

\* Moving a byte from the front of w to the end of f leaves f \o w as it is.
LEMMA SeqFacts ==
  ASSUME NEW S, NEW f \in Seq(S), NEW w \in Seq(S)
  PROVE  /\ f \o w \in Seq(S) /\ Len(f \o w) = Len(f) + Len(w)
         /\ w # <<>> => Append(f, Head(w)) \o Tail(w) = f \o w
         /\ f # <<>> => /\ Tail(f) \o w = Tail(f \o w) /\ (f \o w)[1] = Head(f) /\ f \o w # <<>>
         /\ \A x \in S : f \o Append(w, x) = Append(f \o w, x)
         /\ \A x, y \in S : f \o (w \o <<x, y>>) = Append(Append(f \o w, x), y)
         /\ \A v \in Seq(S) : f \o (w \o v) = (f \o w) \o v
<1>1. f \o w \in Seq(S) /\ Len(f \o w) = Len(f) + Len(w)
  OBVIOUS
<1>2. w # <<>> => Append(f, Head(w)) \o Tail(w) = f \o w
  OBVIOUS
<1>3. f # <<>> => Tail(f) \o w = Tail(f \o w)
  OBVIOUS
<1>4. f # <<>> => (f \o w)[1] = Head(f) /\ f \o w # <<>>
  OBVIOUS
<1>5. \A x \in S : f \o Append(w, x) = Append(f \o w, x)
  OBVIOUS
<1>6. \A x, y \in S : f \o (w \o <<x, y>>) = Append(Append(f \o w, x), y)
  OBVIOUS
<1>7. \A v \in Seq(S) : f \o (w \o v) = (f \o w) \o v
  OBVIOUS
<1> QED BY <1>1, <1>2, <1>3, <1>4, <1>5, <1>6, <1>7

LEMMA GotBytes ==
  ASSUME KeyTypes, NEW at, Got(at), UNCHANGED wire
  PROVE  /\ Bytes \in Seq(Sent) /\ Bytes # <<>> /\ Bytes[1] = Head(fifo) /\ Bytes[1] \in Sent
         /\ Bytes' = Tail(Bytes) /\ kpc = at
<1>1. /\ fifo \in Seq(Sent) /\ wire \in Seq(Sent) /\ fifo # <<>>
      /\ fifo' = Tail(fifo) /\ wire' = wire /\ kpc = at
  BY DEF KeyTypes, Got
<1>2. /\ fifo \o wire \in Seq(Sent) /\ fifo \o wire # <<>>
      /\ (fifo \o wire)[1] = Head(fifo) /\ Tail(fifo) \o wire = Tail(fifo \o wire)
  BY <1>1, SeqFacts
<1>3. Head(fifo) \in Sent
  BY <1>1
<1> QED BY <1>1, <1>2, <1>3 DEF Bytes

LEMMA SilentBytes ==
  ASSUME KeyTypes, NEW at, Silent(at), UNCHANGED wire
  PROVE  Bytes = <<>> /\ Bytes' = <<>> /\ fifo = <<>> /\ kpc = at
BY SeqFacts DEF KeyTypes, Silent, Bytes

LEMMA AnswerBytes ==
  ASSUME KeyTypes, Answer
  PROVE  /\ Bytes \in Seq(Sent) /\ Head(replies) \in Seq(Codes) /\ Head(replies) \in Seq(Sent)
         /\ Bytes' = Bytes \o Head(replies)
<1>1. Head(replies) \in Seq(Codes)
  BY DEF KeyTypes, Answer
<1>2. Head(replies) \in Seq(Sent)
  BY <1>1 DEF Sent
<1>3. \A f, w, v \in Seq(Sent) : f \o (w \o v) = (f \o w) \o v
  BY SeqFacts
<1>4. fifo \in Seq(Sent) /\ wire \in Seq(Sent)
  BY DEF KeyTypes
<1> QED BY <1>1, <1>2, <1>3, <1>4, SeqFacts DEF Answer, Bytes

LEMMA ArriveBytes == ASSUME KeyTypes, Arrive PROVE Bytes' = Bytes
BY SeqFacts DEF KeyTypes, Arrive, Bytes

LEMMA Tuples ==
  ASSUME NEW S, NEW x \in S, NEW y \in S
  PROVE  <<>> \in Seq(S) /\ <<x>> \in Seq(S) /\ <<x, y>> \in Seq(S)
OBVIOUS

LEMMA Answers ==
  ASSUME KeyTypes, NEW c
  PROVE  /\ AnswerTo(c) \in Seq(Seq(Codes))
         /\ \A i \in 1 .. Len(AnswerTo(c)) : GroupOf(device, AnswerTo(c)[i])
<1> DEFINE one == <<Ack>>
           two == <<Passed>>
           both == <<Passed, "00">>
           bad == <<"fc">>
<1>1. /\ one \in Seq(Codes) /\ two \in Seq(Codes) /\ both \in Seq(Codes) /\ bad \in Seq(Codes)
      /\ one # <<>> /\ two # <<>> /\ both # <<>> /\ bad # <<>>
      /\ Len(one) = 1 /\ Len(two) = 1 /\ Len(both) = 2 /\ Len(bad) = 1
      /\ one[1] = Ack /\ two[1] = Passed /\ both[1] = Passed /\ both[2] = "00" /\ bad[1] = "fc"
  BY DEF Codes
<1>2. AnswerTo(c) \in {<<>>, <<one, two>>, <<one, both>>, <<one, bad>>, <<one>>}
  BY DEF AnswerTo
<1>3. /\ device = "keyboard" => AnswerTo(c) \in {<<one, two>>, <<one>>}
      /\ device = "mouse" => AnswerTo(c) \in {<<one, both>>, <<one>>}
      /\ device = "broken" => AnswerTo(c) \in {<<one, bad>>, <<one>>}
  BY DEF AnswerTo
<1>4. GroupOf(device, one)
  BY <1>1 DEF GroupOf, Ack, Passed
<1>5. device \notin {"mouse", "broken"} => GroupOf(device, two)
  BY <1>1 DEF GroupOf, Passed
<1>6. device \notin {"keyboard", "broken"} => GroupOf(device, both)
  BY <1>1 DEF GroupOf, Passed
<1>7. GroupOf(device, bad)
  BY <1>1 DEF GroupOf, Passed
<1> HIDE DEF one, two, both, bad
<1>8. AnswerTo(c) \in Seq(Seq(Codes))
  BY <1>1, <1>2, Tuples
<1>9. ASSUME NEW i \in 1 .. Len(AnswerTo(c)) PROVE GroupOf(device, AnswerTo(c)[i])
  <2>1. CASE device \in {"none"}
    BY <1>2, <1>4, <1>5, <1>6, <1>7, <2>1
  <2>2. CASE device = "keyboard"
    BY <1>3, <1>4, <1>5, <2>2
  <2>3. CASE device = "mouse"
    BY <1>3, <1>4, <1>6, <2>3
  <2>4. CASE device = "broken"
    BY <1>3, <1>4, <1>7, <2>4
  <2> QED BY <2>1, <2>2, <2>3, <2>4 DEF KeyTypes
<1> QED BY <1>8, <1>9

LEMMA WriteTyped == ASSUME KeyTypes, NEW c, Write(c) PROVE replies' \in Seq(Seq(Codes))
BY Answers DEF Write, KeyTypes

LEMMA GotTyped ==
  ASSUME KeyTypes, NEW at, Got(at) PROVE fifo' \in Seq(Sent) /\ Head(fifo) \in Sent
BY DEF KeyTypes, Got

LEMMA ReadTyped ==
  ASSUME KeyTypes, NEW at, Got(at) \/ Silent(at) PROVE fifo' \in Seq(Sent)
BY GotTyped DEF KeyTypes, Silent

LEMMA TypesStep == ASSUME KeyTypes, [KeyNext]_keyVars PROVE KeyTypes'
<1>1. CASE Answer
  <2>1. replies' \in Seq(Seq(Codes))
    BY <1>1 DEF Answer, KeyTypes
  <2>2. wire' \in Seq(Sent)
    BY <1>1, AnswerBytes DEF Answer, KeyTypes
  <2> QED BY <1>1, <2>1, <2>2 DEF Answer, KeyTypes, userVars
<1>2. CASE Arrive
  <2>1. wire' \in Seq(Sent) /\ fifo' \in Seq(Sent)
    BY <1>2 DEF Arrive, KeyTypes
  <2> QED BY <1>2, <2>1 DEF Arrive, KeyTypes, userVars
<1>3. ASSUME NEW k \in Keys, Strike(k) PROVE KeyTypes'
  <2>1. k \in Sent /\ Release \in Sent /\ <<Release, k>> \in Seq(Sent)
    BY Tuples DEF Sent
  <2>2. wire' = Append(wire, k) \/ wire' = wire \o <<Release, k>>
    BY <1>3 DEF Strike
  <2>3. wire' \in Seq(Sent)
    <3>1. \A w, v \in Seq(Sent) : w \o v \in Seq(Sent)
      OBVIOUS
    <3>2. \A w \in Seq(Sent), x \in Sent : Append(w, x) \in Seq(Sent)
      OBVIOUS
    <3>3. wire \in Seq(Sent)
      BY DEF KeyTypes
    <3> QED BY <2>1, <2>2, <3>1, <3>2, <3>3
  <2>4. pressed' = pressed \/ (k \in Letters /\ pressed' = Append(pressed, k))
    BY <1>3 DEF Strike
  <2>5. pressed' \in Seq(Letters)
    <3>1. \A w \in Seq(Letters), x \in Letters : Append(w, x) \in Seq(Letters)
      OBVIOUS
    <3>2. pressed \in Seq(Letters)
      BY DEF KeyTypes
    <3> QED BY <2>4, <3>1, <3>2
  <2>6. held' \subseteq Keys
    BY <1>3 DEF Strike, KeyTypes
  <2>7. UNCHANGED <<device, replies, fifo, kpc, tries, found, shift, typed>>
    BY <1>3 DEF Strike
  <2> QED BY <2>3, <2>5, <2>6, <2>7 DEF KeyTypes
<1>4. CASE Unplug
  BY <1>4, Tuples DEF Unplug, KeyTypes
<1>5. CASE PollAgain
  BY <1>5 DEF PollAgain, KeyTypes, deviceVars, userVars
<1>6. CASE Reset
  <2>1. replies' \in Seq(Seq(Codes)) /\ kpc' \in {"ack", "idle"} /\ shift' \in BOOLEAN
    BY <1>6, WriteTyped DEF Reset, KeyTypes
  <2> QED BY <1>6, <2>1 DEF Reset, KeyTypes, userVars
<1>7. CASE WaitAck
  <2>1. fifo' \in Seq(Sent) /\ kpc' \in {"idle", "bat", "ack"}
    BY <1>7, ReadTyped DEF WaitAck
  <2> QED BY <1>7, <2>1 DEF WaitAck, KeyTypes, deviceVars, userVars, KeepKeys
<1>8. CASE ReadBat
  <2>1. fifo' \in Seq(Sent) /\ kpc' \in {"idle", "second"}
    BY <1>8, ReadTyped DEF ReadBat
  <2> QED BY <1>8, <2>1 DEF ReadBat, KeyTypes, deviceVars, userVars, KeepKeys
<1>9. CASE ReadSecond
  <2>1. replies' \in Seq(Seq(Codes))
    BY <1>9, WriteTyped DEF ReadSecond, KeyTypes
  <2>2. fifo' \in Seq(Sent) /\ kpc' \in {"idle", "rate"} /\ found' \in {"none", "keyboard", "mouse"}
    BY <1>9, ReadTyped DEF ReadSecond, KeyTypes
  <2> QED BY <1>9, <2>1, <2>2 DEF ReadSecond, KeyTypes, userVars, KeepKeys
<1>10. CASE SetRate
  <2>1. replies' \in Seq(Seq(Codes))
    BY <1>10, WriteTyped DEF SetRate, KeyTypes
  <2>2. fifo' \in Seq(Sent) /\ kpc' \in {"idle", "rate"}
    BY <1>10, ReadTyped DEF SetRate, Got
  <2> QED BY <1>10, <2>1, <2>2 DEF SetRate, KeyTypes, userVars, KeepKeys
<1>11. CASE GetChar
  <2>1. fifo' \in Seq(Sent) /\ kpc' \in {"idle", "release"} /\ shift' \in BOOLEAN
    BY <1>11, GotTyped DEF GetChar, KeyTypes
  <2>2. typed' \in Seq(Letters)
    BY <1>11 DEF GetChar, KeyTypes
  <2> QED BY <1>11, <2>1, <2>2 DEF GetChar, KeyTypes, deviceVars, userVars
<1>12. CASE ReadRelease
  <2>1. fifo' \in Seq(Sent) /\ kpc' = "idle" /\ shift' \in BOOLEAN
    BY <1>12, ReadTyped DEF ReadRelease, KeyTypes
  <2> QED BY <1>12, <2>1 DEF ReadRelease, KeyTypes, deviceVars, userVars
<1>13. CASE UNCHANGED keyVars
  BY <1>13 DEF keyVars, KeyTypes
<1> QED BY <1>1, <1>2, <1>3, <1>4, <1>5, <1>6, <1>7, <1>8, <1>9, <1>10, <1>11, <1>12, <1>13 DEF KeyNext

(***************************************************************************)
(* Which device is found.                                                  *)
(***************************************************************************)
\* What the first byte of an answer says of the device.
LEMMA GroupTail ==
  ASSUME NEW d, NEW b \in Seq(Sent), b # <<>>, GroupOf(d, b)
  PROVE  /\ Tail(b) # <<>> => GroupOf(d, Tail(b))
         /\ b[1] = Passed => d # "broken" /\ (d = "mouse" => Tail(b) # <<>>)
         /\ b[1] = "00" => d \notin {"keyboard", "broken"}
<1>1. /\ Tail(b) \in Seq(Sent) /\ Len(Tail(b)) = Len(b) - 1 /\ Len(b) \in Nat \ {0}
      /\ \A i \in 1 .. Len(b) - 1 : Tail(b)[i] = b[i + 1] /\ i + 1 \in 1 .. Len(b)
  OBVIOUS
<1>2. ASSUME Tail(b) # <<>> PROVE GroupOf(d, Tail(b)) /\ Len(b) # 1
  <2>1. Len(b) # 1
    BY <1>1, <1>2
  <2> QED BY <1>1, <1>2, <2>1 DEF GroupOf
<1>3. Len(b) # 1 => Tail(b) # <<>>
  <2>1. Len(<<>>) = 0
    OBVIOUS
  <2>2. Tail(b) = <<>> => Len(Tail(b)) = 0
    BY <2>1, Zenon
  <2> QED BY <1>1, <2>2
<1> QED BY <1>1, <1>2, <1>3 DEF GroupOf

LEMMA GroupConcat ==
  ASSUME NEW d, NEW b \in Seq(Sent), NEW g \in Seq(Sent), GroupOf(d, g), b # <<>> => GroupOf(d, b)
  PROVE  GroupOf(d, b \o g) /\ b \o g # <<>>
<1>1. /\ b \o g \in Seq(Sent) /\ Len(b \o g) = Len(b) + Len(g) /\ Len(b) \in Nat /\ Len(g) \in Nat \ {0}
      /\ \A i \in 1 .. Len(b) + Len(g) :
           IF i <= Len(b) THEN i \in 1 .. Len(b) /\ (b \o g)[i] = b[i] /\ b # <<>>
           ELSE i - Len(b) \in 1 .. Len(g) /\ (b \o g)[i] = g[i - Len(b)]
  BY DEF GroupOf
<1>2. b \o g # <<>> /\ (b \o g)[Len(b \o g)] = g[Len(g)]
  BY <1>1
<1> HIDE DEF Sent
<1>3. ASSUME NEW i \in 1 .. Len(b \o g)
      PROVE  /\ d = "keyboard" => (b \o g)[i] # "00"
             /\ d = "broken" => (b \o g)[i] \notin {"00", Passed}
  BY <1>1 DEF GroupOf
<1> QED BY <1>2, <1>3 DEF GroupOf

LEMMA WriteIdentified ==
  ASSUME KeyTypes, NEW c, Write(c), \A i \in 1 .. Len(replies) : GroupOf(device, replies[i])
  PROVE  \A i \in 1 .. Len(replies') : GroupOf(device, replies'[i])
<1> DEFINE a == AnswerTo(c)
<1>1. a \in Seq(Seq(Codes)) /\ \A i \in 1 .. Len(a) : GroupOf(device, a[i])
  BY Answers
<1>2. replies \in Seq(Seq(Codes)) /\ replies' = replies \o a
  BY DEF KeyTypes, Write
<1> HIDE DEF a
<1>3. \A i \in 1 .. Len(replies \o a) :
        \/ i \in 1 .. Len(replies) /\ (replies \o a)[i] = replies[i]
        \/ i - Len(replies) \in 1 .. Len(a) /\ (replies \o a)[i] = a[i - Len(replies)]
  BY <1>1, <1>2
<1> QED BY <1>1, <1>2, <1>3

LEMMA IdentifiedStep == ASSUME KeyTypes, Identified, [KeyNext]_keyVars PROVE Identified'
<1> DEFINE Replied == \A i \in 1 .. Len(replies) : GroupOf(device, replies[i])
<1>1. CASE Answer
  <2>1. /\ Bytes \in Seq(Sent) /\ Head(replies) \in Seq(Sent) /\ Bytes' = Bytes \o Head(replies)
        /\ UNCHANGED <<device, found, kpc>>
    BY <1>1, AnswerBytes DEF Answer
  <2>2. /\ GroupOf(device, Head(replies))
        /\ \A i \in 1 .. Len(Tail(replies)) : GroupOf(device, Tail(replies)[i])
    BY <1>1 DEF Identified, Answer, KeyTypes
  <2>3. GroupOf(device, Bytes') /\ Bytes' # <<>>
    BY <2>1, <2>2, GroupConcat DEF Identified
  <2> QED BY <1>1, <2>1, <2>2, <2>3 DEF Identified, Answer
<1>2. ASSUME Bytes' = Bytes, UNCHANGED <<device, replies, found, kpc>> PROVE Identified'
  BY <1>2 DEF Identified
<1>3. ASSUME NEW k \in Keys, Strike(k) PROVE Identified'
  <2>1. /\ k \in Sent /\ <<k>> \in Seq(Sent) /\ <<Release, k>> \in Seq(Sent) /\ wire \in Seq(Sent)
        /\ fifo \in Seq(Sent)
    BY Tuples DEF Sent, KeyTypes
  <2>2. UNCHANGED <<device, replies, found, kpc, fifo>> /\ device = "keyboard" /\ kpc # "second"
    BY <1>3 DEF Strike
  <2>3. wire' = wire \o <<k>> \/ wire' = wire \o <<Release, k>>
    <3>1. Append(wire, k) = wire \o <<k>>
      BY <2>1
    <3> QED BY <1>3, <3>1 DEF Strike
  <2>4. \A f, w, v \in Seq(Sent) : f \o (w \o v) = (f \o w) \o v /\ f \o w \in Seq(Sent)
    BY SeqFacts
  <2>5. Bytes \in Seq(Sent) /\ (Bytes' = Bytes \o <<k>> \/ Bytes' = Bytes \o <<Release, k>>)
    <3>1. fifo' = fifo
      BY <2>2
    <3>2. fifo \o (wire \o <<k>>) = (fifo \o wire) \o <<k>>
      BY <2>1, <2>4
    <3>3. fifo \o (wire \o <<Release, k>>) = (fifo \o wire) \o <<Release, k>>
      BY <2>1, <2>4
    <3>4. fifo \o wire \in Seq(Sent)
      BY <2>1, <2>4
    <3> QED BY <2>3, <3>1, <3>2, <3>3, <3>4, Zenon DEF Bytes
  <2>6. k # "00" /\ Release # "00"
    BY KeyboardAssumption DEF Release
  <2>7. GroupOf(device, <<k>>) /\ GroupOf(device, <<Release, k>>)
    BY <2>2, <2>6 DEF GroupOf
  <2>8. GroupOf(device, Bytes')
    BY <2>1, <2>5, <2>7, GroupConcat DEF Identified
  <2> QED BY <2>2, <2>8 DEF Identified
<1>4. CASE Unplug
  <2>1. device' = "none" /\ replies' = <<>> /\ UNCHANGED <<found, kpc>>
    BY <1>4 DEF Unplug
  <2>2. \A g : g # <<>> => GroupOf("none", g)
    BY DEF GroupOf
  <2> QED BY <2>1, <2>2 DEF Identified
<1>5. CASE Arrive
  BY <1>2, <1>5, ArriveBytes DEF Arrive
<1>6. CASE PollAgain
  BY <1>2, <1>6 DEF PollAgain, deviceVars, Bytes
<1>7. ASSUME NEW at, Got(at), UNCHANGED <<device, wire>>, kpc' # "second", Replied',
             found' # "none" => device \in {found', "none"}
      PROVE  Identified'
  <2>1. Bytes \in Seq(Sent) /\ Bytes # <<>> /\ Bytes' = Tail(Bytes)
    BY <1>7, GotBytes
  <2>2. Tail(Bytes) # <<>> => GroupOf(device, Tail(Bytes))
    BY <2>1, GroupTail DEF Identified
  <2> QED BY <1>7, <2>1, <2>2 DEF Identified
<1>8. ASSUME NEW at, Silent(at), UNCHANGED <<device, wire>>, kpc' # "second", Replied',
             found' # "none" => device \in {found', "none"}
      PROVE  Identified'
  <2>1. Bytes' = <<>>
    BY <1>8, SilentBytes
  <2> QED BY <1>8, <2>1 DEF Identified
<1>9. UNCHANGED <<device, replies>> => Replied'
  BY DEF Identified
<1>10. UNCHANGED <<device, found>> => (found' # "none" => device \in {found', "none"})
  BY DEF Identified
<1>11. \A c : Write(c) /\ UNCHANGED device => Replied'
  BY WriteIdentified DEF Identified
<1>12. CASE Reset
  <2>1. Bytes' = Bytes /\ kpc' # "second" /\ UNCHANGED <<device, found>> /\ Replied'
    BY <1>9, <1>11, <1>12 DEF Reset, Bytes
  <2> QED BY <2>1 DEF Identified
<1>13. CASE WaitAck
  <2>1. UNCHANGED <<device, wire, replies, found>> /\ kpc' # "second"
    BY <1>13 DEF WaitAck, deviceVars
  <2> QED BY <1>7, <1>8, <1>9, <1>10, <1>13, <2>1 DEF WaitAck
<1>14. CASE ReadBat
  <2>1. UNCHANGED <<device, wire, replies, found>>
    BY <1>14 DEF ReadBat, deviceVars
  <2>2. CASE fifo # <<>> /\ Head(fifo) = Passed
    <3>1. Got("bat")
      BY <1>14, <2>2 DEF ReadBat, Silent
    <3>2. Bytes \in Seq(Sent) /\ Bytes # <<>> /\ Bytes' = Tail(Bytes) /\ Bytes[1] = Passed
      BY <2>1, <2>2, <3>1, GotBytes
    <3>3. /\ Tail(Bytes) # <<>> => GroupOf(device, Tail(Bytes))
          /\ device # "broken" /\ (device = "mouse" => Tail(Bytes) # <<>>)
      BY <3>2, GroupTail DEF Identified
    <3> QED BY <2>1, <3>2, <3>3 DEF Identified
  <2>3. CASE ~(fifo # <<>> /\ Head(fifo) = Passed)
    <3>1. kpc' # "second"
      BY <1>14, <2>3 DEF ReadBat
    <3> QED BY <1>7, <1>8, <1>9, <1>10, <1>14, <2>1, <3>1 DEF ReadBat
  <2> QED BY <2>2, <2>3
<1>15. CASE ReadSecond
  <2>1. UNCHANGED <<device, wire>> /\ kpc' # "second" /\ Replied'
    BY <1>9, <1>11, <1>15 DEF ReadSecond
  <2>2. CASE Silent("second") /\ found' = "keyboard"
    <3>1. Bytes = <<>> /\ kpc = "second"
      BY <2>1, <2>2, SilentBytes
    <3>2. device \in {"keyboard", "none"}
      BY <3>1 DEF Identified, KeyTypes
    <3> QED BY <1>8, <2>1, <2>2, <3>2
  <2>3. CASE Got("second") /\ Head(fifo) = "00" /\ found' = "mouse"
    <3>1. Bytes \in Seq(Sent) /\ Bytes # <<>> /\ Bytes[1] = "00"
      BY <2>1, <2>3, GotBytes
    <3>2. device \in {"mouse", "none"}
      BY <3>1, GroupTail DEF Identified, KeyTypes
    <3> QED BY <1>7, <2>1, <2>3, <3>2
  <2>4. CASE Got("second") /\ UNCHANGED found
    BY <1>7, <1>10, <2>1, <2>4
  <2> QED BY <1>15, <2>2, <2>3, <2>4 DEF ReadSecond
<1>16. CASE SetRate
  <2>1. UNCHANGED <<device, wire, found>> /\ kpc' # "second" /\ Replied'
    BY <1>9, <1>11, <1>16 DEF SetRate, Got
  <2> QED BY <1>7, <1>8, <1>10, <1>16, <2>1 DEF SetRate
<1>17. CASE GetChar
  <2>1. UNCHANGED <<device, wire, replies, found>> /\ kpc' # "second"
    BY <1>17 DEF GetChar, deviceVars
  <2> QED BY <1>7, <1>9, <1>10, <1>17, <2>1 DEF GetChar
<1>18. CASE ReadRelease
  <2>1. UNCHANGED <<device, wire, replies, found>> /\ kpc' # "second"
    BY <1>18 DEF ReadRelease, deviceVars
  <2> QED BY <1>7, <1>8, <1>9, <1>10, <1>18, <2>1 DEF ReadRelease
<1>19. CASE UNCHANGED keyVars
  BY <1>2, <1>19 DEF keyVars, Bytes
<1> QED BY <1>1, <1>3, <1>4, <1>5, <1>6, <1>12, <1>13, <1>14, <1>15, <1>16, <1>17, <1>18, <1>19 DEF KeyNext

LEMMA WellFormedTail ==
  ASSUME NEW b \in Seq(Sent), b # <<>>, NEW k, WellFormed(b, k),
         NEW m, (m = "release") <=> (b[1] = Release)
  PROVE  WellFormed(Tail(b), m)
<1>1. /\ Len(Tail(b)) = Len(b) - 1 /\ Len(b) \in Nat \ {0}
      /\ \A i \in 1 .. Len(b) - 1 : Tail(b)[i] = b[i + 1] /\ i + 1 \in 1 .. Len(b)
  OBVIOUS
<1>2. m = "release" => Tail(b) # <<>> /\ Tail(b)[1] \in Keys
  <2>1. m = "release" => Len(b) > 1 /\ b[2] \in Keys
    BY <1>1 DEF WellFormed
  <2>2. Len(<<>>) = 0
    OBVIOUS
  <2>3. Tail(b) = <<>> => Len(Tail(b)) = 0
    BY <2>2, Zenon
  <2> QED BY <1>1, <2>1, <2>3
<1> QED BY <1>1, <1>2 DEF WellFormed

\* A key that is struck is not taken for one released.
LEMMA WellFormedEnd ==
  ASSUME NEW b \in Seq(Sent), NEW k, WellFormed(b, k), NEW x \in Sent
  PROVE  ~Released(Append(b, x), k, Len(b) + 1)
<1>1. /\ Len(b) \in Nat /\ (Len(b) = 0 <=> b = <<>>)
      /\ \A i \in 1 .. Len(b) : Append(b, x)[i] = b[i]
  OBVIOUS
<1>2. CASE Len(b) = 0
  BY <1>1, <1>2 DEF WellFormed, Released
<1>3. CASE Len(b) # 0
  <2>1. Len(b) \in 1 .. Len(b) /\ Len(b) + 1 # 1 /\ (Len(b) + 1) - 1 = Len(b)
    BY <1>1, <1>3
  <2> QED BY <1>1, <2>1 DEF WellFormed, Released
<1> QED BY <1>2, <1>3

LEMMA WellFormedStruck ==
  ASSUME NEW b \in Seq(Sent), NEW k, WellFormed(b, k), NEW x \in Keys
  PROVE  WellFormed(Append(b, x), k) /\ WellFormed(Append(Append(b, Release), x), k)
<1>1. x \in Sent /\ x # Release /\ Release \in Sent
  BY CodesApart DEF Sent
<1>2. /\ Len(b) \in Nat /\ Len(Append(b, x)) = Len(b) + 1
      /\ \A i \in 1 .. Len(b) : Append(b, x)[i] = b[i]
      /\ Append(b, x)[Len(b) + 1] = x /\ Append(b, x) # <<>>
  BY <1>1
<1> DEFINE d == Append(Append(b, Release), x)
<1>3. /\ Len(b) \in Nat /\ Len(d) = Len(b) + 2
      /\ \A i \in 1 .. Len(b) : d[i] = b[i]
      /\ d[Len(b) + 1] = Release /\ d[Len(b) + 2] = x /\ d # <<>>
  BY <1>1
<1>4. b # <<>> => 1 \in 1 .. Len(b)
  OBVIOUS
<1> HIDE DEF d
<1>5. WellFormed(Append(b, x), k)
  BY <1>1, <1>2, <1>4 DEF WellFormed
<1>6. WellFormed(d, k)
  <2>1. ASSUME NEW i \in 1 .. Len(d), d[i] = Release PROVE i < Len(d) /\ d[i + 1] \in Keys
    <3>1. CASE i \in 1 .. Len(b)
      <4>1. i < Len(b) /\ b[i + 1] \in Keys
        BY <1>3, <2>1, <3>1 DEF WellFormed
      <4> QED BY <1>3, <3>1, <4>1
    <3>2. CASE i = Len(b) + 1
      BY <1>3, <3>2
    <3>3. CASE i = Len(b) + 2
      BY <1>1, <1>3, <2>1, <3>3
    <3> QED BY <1>3, <3>1, <3>2, <3>3
  <2>2. k = "release" => d # <<>> /\ d[1] \in Keys
    BY <1>3, <1>4 DEF WellFormed
  <2> QED BY <2>1, <2>2 DEF WellFormed
<1> QED BY <1>5, <1>6 DEF d

LEMMA UnusedTail ==
  ASSUME KeyTypes, Unused, NEW at, Got(at) \/ Silent(at), UNCHANGED wire, KeepKeys
  PROVE  Unused'
<1>1. CASE Got(at)
  <2>1. Bytes \in Seq(Sent) /\ Bytes # <<>> /\ Bytes' = Tail(Bytes)
    BY <1>1, GotBytes
  <2>2. \A i \in 1 .. Len(Tail(Bytes)) : Tail(Bytes)[i] = Bytes[i + 1] /\ i + 1 \in 1 .. Len(Bytes)
    BY <2>1
  <2> QED BY <2>1, <2>2 DEF Unused, KeepKeys, userVars
<1>2. CASE Silent(at)
  BY <1>2, SilentBytes DEF Unused, KeepKeys, userVars
<1> QED BY <1>1, <1>2

LEMMA KeyboardStep == ASSUME KeyTypes, KeyTypes', KeyboardInv, [KeyNext]_keyVars PROVE KeyboardInv'
<1> SUFFICES ASSUME device' = "keyboard" PROVE KeyboardInv'
  BY DEF KeyboardInv
<1>1. CASE Unplug
  BY <1>1 DEF Unplug
<1>2. ASSUME ~Unplug PROVE device = "keyboard"
  BY <1>2 DEF KeyNext, Answer, Arrive, Strike, PollAgain, Reset, WaitAck, ReadBat, ReadSecond,
       SetRate, GetChar, ReadRelease, deviceVars, keyVars
<1> SUFFICES ASSUME device = "keyboard", ~Unplug PROVE KeyboardInv'
  BY <1>1, <1>2
<1>3. /\ Bytes \in Seq(Sent) /\ Bytes' \in Seq(Sent)
      /\ typed \in Seq(Letters) /\ pressed \in Seq(Letters) /\ shift \in BOOLEAN /\ shift' \in BOOLEAN
  BY SeqFacts DEF Bytes, KeyTypes
<1>4. ASSUME Unused', kpc' # "release" PROVE KeyboardInv'
  <2>1. WellFormed(Bytes', kpc') /\ Spells(Bytes', kpc', <<>>, <<>>) /\ Lifted(Bytes', kpc', FALSE)
    BY <1>3, <1>4, CodesOnly DEF Unused
  <2>2. typed' = <<>> /\ pressed' = <<>> /\ shift' = FALSE
    BY <1>3, <1>4 DEF Unused
  <2> QED BY <1>4, <2>1, <2>2 DEF KeyboardInv
<1>5. Unused => kpc # "release"
  <2>1. Bytes # <<>> => 1 \in 1 .. Len(Bytes)
    BY <1>3
  <2>2. Codes \cap Keys = {}
    BY CodesApart DEF Keys
  <2> QED BY <2>1, <2>2 DEF KeyboardInv, Unused, WellFormed
<1>6. kpc \notin {"idle", "release"} \/ replies # <<>> => Unused
  BY DEF KeyboardInv
<1>7. WellFormed(Bytes, kpc) /\ Spells(Bytes, kpc, typed, pressed)
  BY DEF KeyboardInv
<1>8. held \cap Shifts = {} => Lifted(Bytes, kpc, shift)
  BY DEF KeyboardInv
<1>9. ASSUME Bytes' = Bytes, UNCHANGED <<device, replies, kpc, shift, held, pressed, typed>>
      PROVE  KeyboardInv'
  BY <1>9 DEF KeyboardInv, Unused
<1>10. CASE Answer
  <2>1. /\ Head(replies) \in Seq(Codes) /\ Bytes' = Bytes \o Head(replies) /\ Unused
        /\ UNCHANGED <<kpc, shift, held, pressed, typed>>
    BY <1>6, <1>10, AnswerBytes DEF Answer, userVars
  <2>2. \A i \in 1 .. Len(Bytes \o Head(replies)) : (Bytes \o Head(replies))[i] \in Codes
    BY <1>3, <2>1 DEF Unused
  <2> QED BY <1>4, <1>5, <2>1, <2>2 DEF Unused
<1>11. CASE Arrive
  BY <1>9, <1>11, ArriveBytes DEF Arrive, userVars
<1>12. ASSUME NEW x \in Keys, Strike(x) PROVE KeyboardInv'
  <2>1. /\ x \in Sent /\ Release \in Sent /\ fifo \in Seq(Sent) /\ wire \in Seq(Sent)
        /\ x # Release /\ Release \notin Letters /\ Release \notin Shifts
    BY CodesApart DEF Sent, KeyTypes
  <2>2. UNCHANGED <<replies, fifo, kpc, shift, typed>> /\ replies = <<>> /\ kpc \in {"idle", "release"}
    BY <1>12 DEF Strike
  <2>3. ~Released(Append(Bytes, x), kpc, Len(Bytes) + 1)
    BY <1>3, <1>7, <2>1, WellFormedEnd
  <2>4. WellFormed(Append(Bytes, x), kpc) /\ WellFormed(Append(Append(Bytes, Release), x), kpc)
    BY <1>3, <1>7, WellFormedStruck
  <2>5. ASSUME held' = held \cup {x}, wire' = Append(wire, x),
               pressed' = IF x \in Letters THEN Append(pressed, x) ELSE pressed
        PROVE  KeyboardInv'
    <3>1. Bytes' = Append(Bytes, x)
      BY <2>1, <2>2, <2>5, SeqFacts DEF Bytes
    <3>2. Append(Bytes, x)[Len(Bytes) + 1] = x
      BY <1>3, <2>1
    <3>3. Spells(Append(Bytes, x), kpc, typed, pressed')
      <4>1. pressed' = IF Letter(Append(Bytes, x), kpc, Len(Bytes) + 1) THEN Append(pressed, x) ELSE pressed
        BY <2>3, <2>5, <3>2 DEF Letter
      <4> QED BY <1>3, <1>7, <2>1, <4>1, SpellsAppend
    <3>4. held' \cap Shifts = {} => Lifted(Append(Bytes, x), kpc, shift)
      <4>1. held' \cap Shifts = {} => held \cap Shifts = {} /\ x \notin Shifts
        BY <2>5
      <4> QED BY <1>3, <1>8, <2>1, <4>1, LiftedAppend
    <3> QED BY <2>2, <2>4, <3>1, <3>3, <3>4 DEF KeyboardInv
  <2>6. ASSUME held' = held \ {x}, wire' = wire \o <<Release, x>>, pressed' = pressed
        PROVE  KeyboardInv'
    <3> DEFINE c == Append(Bytes, Release)
               d == Append(c, x)
    <3>1. Bytes' = d
      <4>1. fifo \o (wire \o <<Release, x>>) = Append(Append(fifo \o wire, Release), x)
        BY <2>1, SeqFacts
      <4>2. Bytes' = fifo \o (wire \o <<Release, x>>)
        BY <2>2, <2>6 DEF Bytes
      <4> QED BY <4>1, <4>2 DEF Bytes
    <3>2. /\ c \in Seq(Sent) /\ Len(c) = Len(Bytes) + 1 /\ c[Len(Bytes) + 1] = Release
          /\ d[Len(c) + 1] = x /\ d[Len(c)] = Release /\ Len(Bytes) \in Nat
      BY <1>3, <2>1
    <3>3. ~Letter(c, kpc, Len(Bytes) + 1)
      BY <2>1, <3>2 DEF Letter
    <3>4. Released(d, kpc, Len(c) + 1)
      BY <3>2 DEF Released
    <3>5. ~Letter(d, kpc, Len(c) + 1)
      BY <3>4 DEF Letter
    <3>6. Spells(c, kpc, typed, pressed)
      BY <1>3, <1>7, <2>1, <3>3, SpellsAppend
    <3>7. Spells(d, kpc, typed, pressed)
      BY <1>3, <2>1, <3>2, <3>5, <3>6, SpellsAppend
    <3>8. held' \cap Shifts = {} => Lifted(d, kpc, shift)
      <4>1. CASE x \in Shifts
        BY <2>1, <3>2, <3>4, <4>1, LiftedAppend
      <4>2. CASE x \notin Shifts
        <5>1. held' \cap Shifts = {} => held \cap Shifts = {}
          BY <2>6, <4>2
        <5>2. held' \cap Shifts = {} => Lifted(c, kpc, shift)
          BY <1>3, <1>8, <2>1, <5>1, LiftedAppend
        <5> QED BY <2>1, <3>2, <4>2, <5>2, LiftedAppend
      <4> QED BY <4>1, <4>2
    <3> QED BY <2>2, <2>4, <2>6, <3>1, <3>7, <3>8 DEF KeyboardInv
  <2> QED BY <1>12, <2>5, <2>6 DEF Strike
<1>13. CASE PollAgain
  BY <1>9, <1>13 DEF PollAgain, deviceVars, userVars, Bytes
<1>14. CASE Reset
  <2>1. Bytes' = Bytes /\ UNCHANGED <<held, pressed, typed>> /\ ~shift' /\ kpc' # "release" /\ Unused
    BY <1>6, <1>14 DEF Reset, userVars, Bytes
  <2> QED BY <1>4, <2>1 DEF Unused
<1>15. CASE WaitAck
  <2>1. Unused /\ kpc' # "release" /\ UNCHANGED wire /\ KeepKeys
    BY <1>6, <1>15 DEF WaitAck, Got, Silent, deviceVars
  <2> QED BY <1>4, <1>15, <2>1, UnusedTail DEF WaitAck
<1>16. CASE ReadBat
  <2>1. Unused /\ kpc' # "release" /\ UNCHANGED wire /\ KeepKeys
    BY <1>6, <1>16 DEF ReadBat, Got, Silent, deviceVars
  <2> QED BY <1>4, <1>16, <2>1, UnusedTail DEF ReadBat
<1>17. CASE ReadSecond
  <2>1. Unused /\ kpc' # "release" /\ UNCHANGED wire /\ KeepKeys
    BY <1>6, <1>17 DEF ReadSecond, Got, Silent
  <2> QED BY <1>4, <1>17, <2>1, UnusedTail DEF ReadSecond
<1>18. CASE SetRate
  <2>1. Unused /\ kpc' # "release" /\ UNCHANGED wire /\ KeepKeys
    BY <1>6, <1>18 DEF SetRate, Got, Silent
  <2> QED BY <1>4, <1>18, <2>1, UnusedTail DEF SetRate
<1>19. CASE GetChar
  <2>1. /\ Bytes # <<>> /\ Bytes[1] = Head(fifo) /\ Bytes' = Tail(Bytes) /\ kpc = "idle"
        /\ UNCHANGED <<replies, held, pressed>>
    BY <1>19, GotBytes DEF GetChar, deviceVars, userVars
  <2>2. /\ kpc' = IF Bytes[1] = Release THEN "release" ELSE "idle"
        /\ shift' = (shift \/ Bytes[1] \in Shifts)
        /\ typed' = IF Bytes[1] \in Letters THEN Append(typed, Bytes[1]) ELSE typed
    BY <1>19, <2>1 DEF GetChar
  <2>3. ~Released(Bytes, kpc, 1)
    BY <2>1 DEF Released
  <2>4. WellFormed(Bytes', kpc')
    BY <1>3, <1>7, <2>1, <2>2, WellFormedTail
  <2>5. Spells(Bytes', kpc', typed', pressed)
    <3>1. typed' = IF Letter(Bytes, kpc, 1) THEN Append(typed, Bytes[1]) ELSE typed
      BY <2>2, <2>3 DEF Letter
    <3>2. (kpc' = "release") <=> (Bytes[1] = Release)
      BY <2>2
    <3> QED BY <1>3, <1>7, <2>1, <3>1, <3>2, SpellsTail
  <2>6. held \cap Shifts = {} => Lifted(Bytes', kpc', shift')
    <3>1. shift' <=> (IF Released(Bytes, kpc, 1) THEN shift /\ Bytes[1] \notin Shifts
                      ELSE shift \/ Bytes[1] \in Shifts)
      BY <2>2, <2>3
    <3>2. (kpc' = "release") <=> (Bytes[1] = Release)
      BY <2>2
    <3> QED BY <1>3, <1>8, <2>1, <3>1, <3>2, LiftedTail
  <2>7. replies' # <<>> => Unused'
    <3> SUFFICES ASSUME Unused PROVE Unused'
      BY <1>6, <2>1
    <3>1. 1 \in 1 .. Len(Bytes)
      BY <1>3, <2>1
    <3>2. Bytes[1] \notin Letters /\ Bytes[1] \notin Shifts
      BY <3>1, CodesApart DEF Unused
    <3>3. KeepKeys
      BY <1>3, <2>1, <2>2, <3>2, <1>19 DEF KeepKeys, GetChar
    <3> QED BY <1>19, <3>3, UnusedTail DEF GetChar, deviceVars
  <2>8. kpc' \in {"idle", "release"}
    BY <2>2
  <2> QED BY <2>1, <2>4, <2>5, <2>6, <2>7, <2>8 DEF KeyboardInv
<1>20. CASE ReadRelease
  <2>1. Bytes # <<>> /\ Bytes[1] \in Keys /\ replies = <<>> /\ kpc = "release"
    <3>1. kpc = "release"
      BY <1>20 DEF ReadRelease, Got, Silent
    <3> QED BY <1>5, <1>6, <1>7, <3>1 DEF WellFormed
  <2>2. Got("release") /\ UNCHANGED <<wire, replies, typed, held, pressed>> /\ kpc' = "idle"
    BY <1>20, <2>1, SilentBytes DEF ReadRelease, deviceVars, userVars
  <2>3. /\ Bytes[1] = Head(fifo) /\ Bytes' = Tail(Bytes) /\ fifo # <<>>
        /\ shift' = (shift /\ Bytes[1] \notin Shifts)
    BY <1>20, <2>2, GotBytes DEF ReadRelease, Got
  <2>4. Released(Bytes, kpc, 1) /\ ~Letter(Bytes, kpc, 1)
    BY <2>1 DEF Released, Letter
  <2>5. (kpc' = "release") <=> (Bytes[1] = Release)
    BY <2>1, <2>2, CodesApart
  <2>6. WellFormed(Bytes', kpc')
    BY <1>3, <1>7, <2>1, <2>3, <2>5, WellFormedTail
  <2>7. Spells(Bytes', kpc', typed, pressed)
    BY <1>3, <1>7, <2>1, <2>3, <2>4, <2>5, SpellsTail
  <2>8. held \cap Shifts = {} => Lifted(Bytes', kpc', shift')
    <3>1. shift' <=> (IF Released(Bytes, kpc, 1) THEN shift /\ Bytes[1] \notin Shifts
                      ELSE shift \/ Bytes[1] \in Shifts)
      BY <2>3, <2>4
    <3> QED BY <1>3, <1>8, <2>1, <2>3, <2>5, <3>1, LiftedTail
  <2> QED BY <2>1, <2>2, <2>6, <2>7, <2>8 DEF KeyboardInv
<1>21. CASE UNCHANGED keyVars
  BY <1>9, <1>21 DEF keyVars, Bytes
<1> QED BY <1>10, <1>11, <1>12, <1>13, <1>14, <1>15, <1>16, <1>17, <1>18, <1>19, <1>20, <1>21 DEF KeyNext

\* What is found is what was plugged in, and when all bytes have been read, the
\* letters returned are those pressed, in their order, and no shift is on when no
\* shift key is down (ps2_init, ps2kbd_getchar).  For any letters, any number of
\* keys struck and any polls, whenever the device is unplugged.
THEOREM KeysComeAsPressed == KeySpec => []KeysAsPressed
<1> DEFINE Inv == KeyTypes /\ Identified /\ KeyboardInv
<1>1. ASSUME KeyInit PROVE Inv
  <2>1. fifo = <<>> /\ wire = <<>> /\ Bytes = <<>> /\ replies = <<>>
    BY <1>1 DEF KeyInit, Bytes
  <2>2. KeyTypes
    <3>1. <<>> \in Seq(Seq(Codes)) /\ <<>> \in Seq(Sent) /\ <<>> \in Seq(Letters)
      OBVIOUS
    <3> QED BY <1>1, <3>1 DEF KeyInit, KeyTypes
  <2>3. Identified
    BY <1>1, <2>1 DEF KeyInit, Identified
  <2>4. Unused
    BY <1>1, <2>1 DEF KeyInit, Unused
  <2>5. kpc # "release" /\ Bytes \in Seq(Sent)
    BY <1>1, <2>1, Tuples DEF KeyInit
  <2>6. WellFormed(Bytes, kpc) /\ Spells(Bytes, kpc, <<>>, <<>>) /\ Lifted(Bytes, kpc, FALSE)
    BY <2>4, <2>5, CodesOnly DEF Unused
  <2>7. typed = <<>> /\ pressed = <<>> /\ shift = FALSE
    BY <1>1 DEF KeyInit
  <2> QED BY <2>2, <2>3, <2>4, <2>6, <2>7 DEF KeyboardInv
<1>2. Inv /\ [KeyNext]_keyVars => Inv'
  BY TypesStep, IdentifiedStep, KeyboardStep
<1>3. ASSUME Inv PROVE KeysAsPressed
  <2>1. found # "none" => device \in {found, "none"}
    BY <1>3 DEF Identified
  <2>2. ASSUME device = "keyboard", kpc = "idle", wire = <<>>, fifo = <<>>
        PROVE  typed = pressed /\ (shift => held \cap Shifts # {})
    <3>1. Bytes = <<>> /\ Len(Bytes) = 0
      BY <2>2 DEF Bytes
    <3>2. typed = pressed
      BY <1>3, <2>2, <3>1, SpellsAll DEF KeyboardInv, KeyTypes
    <3>3. held \cap Shifts = {} => Lifted(Bytes, kpc, shift)
      BY <1>3, <2>2 DEF KeyboardInv
    <3>4. shift => held \cap Shifts # {}
      BY <3>1, <3>3 DEF Lifted
    <3> QED BY <3>2, <3>4
  <2> QED BY <2>1, <2>2 DEF KeysAsPressed
<1> QED BY <1>1, <1>2, <1>3, PTL DEF KeySpec
=============================================================================
