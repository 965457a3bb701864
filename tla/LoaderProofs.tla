---------------------------- MODULE LoaderProofs ----------------------------
(***************************************************************************)
(* What the machine mode program promises of the data it carries and of    *)
(* the devices it sets up, for any sizes: a transfer leaves the beginning  *)
(* of what was sent, an update the image in the flash, a load the flash in *)
(* memory, autostart starts one supervisor and that one with a loaded      *)
(* image, the interrupt controllers let through nothing but an IPI, and    *)
(* the kernel is told of the machine it starts on.                         *)
(***************************************************************************)
EXTENDS BootMenu, Xmodem, Aia, DevTree, FiniteSetTheorems, WellFoundedInduction, TLAPS

-----------------------------------------------------------------------------
(***************************************************************************)
(* Remainders and multiples.  The provers know a % m for a given m only;   *)
(* what follows is what the proofs need of it for any m.                   *)
(***************************************************************************)
LEMMA MulPos == ASSUME NEW m \in Nat, NEW d \in Nat PROVE m * d \in Nat
  OBVIOUS

LEMMA MulGe == ASSUME NEW m \in Nat, NEW d \in Int, d >= 1 PROVE m * d >= m
<1>1. m * (d - 1) \in Nat
  BY MulPos
<1>2. m * d = m * (d - 1) + m
  BY SMT
<1> QED BY <1>1, <1>2

LEMMA ModFacts ==
  ASSUME NEW a \in Nat, NEW m \in Nat \ {0}
  PROVE  a \div m \in Nat /\ a % m \in 0 .. m - 1 /\ a = m * (a \div m) + (a % m)
BY SMT

\* Quotient and remainder are determined by the number.
LEMMA Unique ==
  ASSUME NEW m \in Nat \ {0}, NEW p \in Nat, NEW q \in Nat,
         NEW r \in 0 .. m - 1, NEW s \in 0 .. m - 1, m * p + r = m * q + s
  PROVE  p = q /\ r = s
<1>1. CASE p = q
  BY <1>1, SMT
<1>2. CASE p - q >= 1
  <2>1. m * (p - q) >= m
    BY <1>2, MulGe
  <2>2. m * (p - q) = m * p - m * q
    OBVIOUS
  <2> QED BY <2>1, <2>2, SMT
<1>3. CASE q - p >= 1
  <2>1. m * (q - p) >= m
    BY <1>3, MulGe
  <2>2. m * (q - p) = m * q - m * p
    OBVIOUS
  <2> QED BY <2>1, <2>2, SMT
<1> QED BY <1>1, <1>2, <1>3, SMT

LEMMA DivMod ==
  ASSUME NEW m \in Nat \ {0}, NEW q \in Nat, NEW r \in 0 .. m - 1
  PROVE  (m * q + r) \div m = q /\ (m * q + r) % m = r
<1> DEFINE a == m * q + r
           p == a \div m
           s == a % m
<1>1. a \in Nat
  BY MulPos
<1>2. p \in Nat /\ s \in 0 .. m - 1 /\ a = m * p + s
  BY <1>1, ModFacts
<1>3. m * p + s = m * q + r
  BY <1>2
<1> HIDE DEF p, s
<1>4. p = q /\ s = r
  BY <1>2, <1>3, Unique
<1> QED BY <1>4 DEF p, s

LEMMA ModSmall ==
  ASSUME NEW m \in Nat \ {0}, NEW a \in 0 .. m - 1 PROVE a % m = a /\ a \div m = 0
<1>1. m * 0 + a = a
  OBVIOUS
<1> QED BY <1>1, DivMod

LEMMA DivBelow ==
  ASSUME NEW m \in Nat \ {0}, NEW a \in Nat
  PROVE  a \div m \in 0 .. a /\ (a >= m => a \div m >= 1)
<1> DEFINE q == a \div m
<1>1. q \in Nat /\ a % m \in 0 .. m - 1 /\ a = m * q + (a % m)
  BY ModFacts
<1> HIDE DEF q
<1>2. q <= m * q
  <2>1. (m - 1) * q \in Nat
    BY <1>1, MulPos
  <2>2. m * q = (m - 1) * q + q
    BY <1>1, SMT
  <2> QED BY <1>1, <2>1, <2>2
<1>3. a >= m => q # 0
  <2>1. q = 0 => m * q = 0
    BY SMT
  <2> QED BY <1>1, <2>1
<1>4. m * q \in Nat
  BY <1>1, MulPos
<1> QED BY <1>1, <1>2, <1>3, <1>4 DEF q

\* Two cells hold a number below the square of what one holds.
LEMMA DivSquare ==
  ASSUME NEW m \in Nat \ {0}, NEW a \in Nat, a < m * m PROVE a \div m \in 0 .. m - 1
<1> DEFINE q == a \div m
<1>1. q \in Nat /\ a % m \in 0 .. m - 1 /\ a = m * q + (a % m)
  BY ModFacts
<1> HIDE DEF q
<1>2. CASE q >= m
  <2>1. m * (q - m) \in Nat
    BY <1>1, <1>2, MulPos
  <2>2. m * q = m * (q - m) + m * m
    BY <1>1, SMT
  <2>3. m * q \in Nat /\ m * m \in Nat
    BY <1>1, MulPos
  <2> QED BY <1>1, <2>1, <2>2, <2>3
<1> QED BY <1>1, <1>2 DEF q

LEMMA NextMod ==
  ASSUME NEW a \in Nat, NEW m \in Nat \ {0, 1}
  PROVE  /\ a % m \in 0 .. m - 1
         /\ (a + 1) % m = IF a % m = m - 1 THEN 0 ELSE (a % m) + 1
<1> DEFINE q == a \div m
           r == a % m
<1>1. q \in Nat /\ r \in 0 .. m - 1 /\ a = m * q + r
  BY ModFacts
<1> HIDE DEF q, r
<1>2. CASE r = m - 1
  <2>1. a + 1 = m * (q + 1) + 0
    BY <1>1, <1>2, SMT
  <2>2. (m * (q + 1) + 0) % m = 0
    BY <1>1, DivMod
  <2> QED BY <1>1, <1>2, <2>1, <2>2 DEF r
<1>3. CASE r # m - 1
  <2>1. a + 1 = m * q + (r + 1) /\ r + 1 \in 0 .. m - 1
    BY <1>1, <1>3, SMT
  <2>2. (m * q + (r + 1)) % m = r + 1
    BY <1>1, <2>1, DivMod
  <2> QED BY <1>1, <1>3, <2>1, <2>2 DEF r
<1> QED BY <1>2, <1>3

-----------------------------------------------------------------------------
(***************************************************************************)
(* The transfer.  While the receiver runs, the sender is at the block      *)
(* accepted last or at the next one, and an ACK on the line is for the     *)
(* block it is at; so a packet that comes in is one of those two, and its  *)
(* number tells which, except where the numbers wrap.                      *)
(***************************************************************************)
Running  == rpc \in {"control", "flush"}
OneWay   == down # Nothing => up = "none"
Pace     == Running => /\ next \in {accepted, accepted + 1}
                       /\ up = "ACK" => next = accepted
InFlight == Running => \/ down \in {Nothing, Can}
                       \/ /\ down \in [kind : {"packet", "damaged", "headless"}, block : {next}]
                          /\ next <= NumBlocks
                       \/ down = Eot /\ next = NumBlocks + 1
Numbered == seqnum = (accepted + 1) % SeqMod
Totals   == /\ accepted \in Nat /\ accepted <= NumBlocks /\ next \in Nat \ {0}
            /\ total = Start[accepted + 1]
Below    == \A b \in 1 .. accepted : Start[b + 1] <= total
Arrived    == \A b \in 1 .. accepted :
              Start[b + 1] <= DestSize => \A n \in 1 .. Sizes[b] : mem[Start[b] + n] = <<b, n>>

LineInv == /\ OneWay /\ Pace /\ InFlight /\ Numbered /\ Totals /\ Below
           /\ DOMAIN mem = 1 .. DestSize /\ Arrived
           /\ DoneIsComplete /\ OutOfSyncOnlyAtWrap

LEMMA SizesTyped ==
  /\ NumBlocks \in Nat
  /\ \A b \in Blocks : Sizes[b] \in Nat \ {0}
  /\ \A b \in 1 .. NumBlocks + 1 : Start[b] \in Nat
  /\ \A b \in Blocks : Start[b + 1] = Start[b] + Sizes[b]
BY SMTT(30), SizesAssumption, StartAssumption DEF NumBlocks, Blocks

LEMMA LineInit == Init => LineInv
<1> SUFFICES ASSUME Init PROVE LineInv
  OBVIOUS
<1>1. Numbered
  <2>1. 1 \in 0 .. SeqMod - 1 /\ SeqMod \in Nat \ {0} /\ 1 = SeqMod * 0 + 1
    BY BoundsAssumption
  <2>2. (SeqMod * 0 + 1) % SeqMod = 1
    BY <2>1, DivMod
  <2> QED BY <2>1, <2>2 DEF Init, Numbered
<1>2. OneWay /\ Pace /\ InFlight
  BY DEF Init, OneWay, Pace, InFlight, Nothing
<1>3. Totals /\ Below
  BY StartAssumption, SizesTyped DEF Init, Totals, Below
<1>4. DOMAIN mem = 1 .. DestSize /\ Arrived /\ DoneIsComplete /\ OutOfSyncOnlyAtWrap
  BY DEF Init, Arrived, DoneIsComplete, OutOfSyncOnlyAtWrap
<1> QED BY <1>1, <1>2, <1>3, <1>4 DEF LineInv

\* Storing the data of a packet leaves what was accepted alone.
LEMMA StoreKeeps ==
  ASSUME LineInv, NEW data \in Seq(Nat \X Nat), Store(data)
  PROVE  /\ DOMAIN mem' = 1 .. DestSize
         /\ \A b \in 1 .. accepted : Start[b + 1] <= DestSize =>
              \A n \in 1 .. Sizes[b] : mem'[Start[b] + n] = <<b, n>>
<1>1. DOMAIN mem' = 1 .. DestSize /\ \A j \in 1 .. DestSize : j <= total => mem'[j] = mem[j]
  <2>1. total \in Nat
    BY SizesTyped DEF LineInv, Totals
  <2> QED BY <2>1, BoundsAssumption DEF LineInv, Store
<1>2. ASSUME NEW b \in 1 .. accepted, Start[b + 1] <= DestSize, NEW n \in 1 .. Sizes[b]
      PROVE  mem'[Start[b] + n] = <<b, n>>
  <2>1. b \in Blocks /\ Start[b] \in Nat /\ Start[b + 1] = Start[b] + Sizes[b] /\ Sizes[b] \in Nat
    BY SizesTyped DEF LineInv, Totals, Blocks
  <2>2. Start[b] + n \in 1 .. DestSize /\ Start[b] + n <= total
    <3>1. Start[b + 1] <= total /\ total \in Nat
      BY SizesTyped DEF LineInv, Below, Totals
    <3>2. n \in Nat \ {0} /\ n <= Sizes[b] /\ DestSize \in Nat
      BY <2>1, BoundsAssumption
    <3> QED BY <1>2, <2>1, <3>1, <3>2
  <2> QED BY <1>1, <1>2, <2>2 DEF LineInv, Arrived
<1> QED BY <1>1, <1>2

LEMMA StoreFills ==
  ASSUME NEW data \in Seq(Nat \X Nat), Store(data), total \in Nat,
         total + Len(data) <= DestSize, NEW n \in 1 .. Len(data), total + n \in DOMAIN mem
  PROVE  mem'[total + n] = data[n]
<1> DEFINE j == total + n
<1>1. j \in DOMAIN mem /\ j \in total + 1 .. total + Len(data) /\ j - total = n
  OBVIOUS
<1> HIDE DEF j
<1>2. mem'[j] = data[j - total]
  BY <1>1 DEF Store
<1> QED BY <1>1, <1>2 DEF j

\* What a packet without errors is: the block expected, or the one before it.
LEMMA PacketKind ==
  ASSUME LineInv, rpc = "control", down.kind = "packet"
  PROVE  LET seq == down.block % SeqMod
         IN /\ down.block = next /\ next \in Blocks /\ up = "none"
            /\ IsRetransmission(seq) => next = accepted
            /\ ~IsRetransmission(seq) /\ IsExpected(seq) => next = accepted + 1
            /\ ~IsRetransmission(seq) /\ ~IsExpected(seq) => seqnum = 0
<1> DEFINE m == accepted % SeqMod
<1>1. down.block = next /\ next \in Blocks /\ up = "none" /\ next \in {accepted, accepted + 1}
  BY SizesTyped DEF LineInv, InFlight, Running, Nothing, Can, Eot, OneWay, Pace, Totals, Blocks
<1>2. SeqMod \in Nat \ {0, 1} /\ accepted \in Nat
  BY BoundsAssumption DEF LineInv, Totals
<1>3. m \in 0 .. SeqMod - 1 /\ seqnum = IF m = SeqMod - 1 THEN 0 ELSE m + 1
  BY <1>2, NextMod DEF LineInv, Numbered
<1> HIDE DEF m
<1>4. CASE next = accepted
  <2>1. down.block % SeqMod = m
    BY <1>1, <1>4 DEF m
  <2> QED BY <1>1, <1>2, <1>3, <1>4, <2>1 DEF IsRetransmission, IsExpected
<1>5. CASE next = accepted + 1
  <2>1. down.block % SeqMod = seqnum
    BY <1>1, <1>5 DEF LineInv, Numbered
  <2>2. seqnum \in Nat
    BY <1>2, <1>3
  <2> QED BY <1>1, <1>2, <1>5, <2>1, <2>2 DEF IsRetransmission, IsExpected
<1> QED BY <1>1, <1>4, <1>5

LEMMA DataTyped ==
  ASSUME NEW b \in Blocks
  PROVE  /\ Data(b) \in Seq(Nat \X Nat) /\ Len(Data(b)) = Sizes[b]
         /\ \A n \in 1 .. Sizes[b] : Data(b)[n] = <<b, n>>
<1>1. Sizes[b] \in Nat /\ b \in Nat
  BY SizesTyped DEF Blocks
<1> QED BY <1>1 DEF Data

LEMMA TakePacketInv == LineInv /\ TakePacket => LineInv'
<1> SUFFICES ASSUME LineInv, TakePacket PROVE LineInv'
  OBVIOUS
<1> DEFINE seq == down.block % SeqMod
<1>1. /\ rpc = "control" /\ down.kind = "packet" /\ down' = Nothing /\ next' = next
      /\ misread' = misread /\ Store(Data(down.block))
  BY DEF TakePacket, sendVars
<1>2. /\ down.block = next /\ next \in Blocks /\ up = "none"
      /\ IsRetransmission(seq) => next = accepted
      /\ ~IsRetransmission(seq) /\ IsExpected(seq) => next = accepted + 1
      /\ ~IsRetransmission(seq) /\ ~IsExpected(seq) => seqnum = 0
  BY <1>1, PacketKind
<1>3. Data(next) \in Seq(Nat \X Nat) /\ Len(Data(next)) = Sizes[next]
      /\ \A n \in 1 .. Sizes[next] : Data(next)[n] = <<next, n>>
  BY <1>2, DataTyped
<1>4. /\ DOMAIN mem' = 1 .. DestSize
      /\ \A b \in 1 .. accepted : Start[b + 1] <= DestSize =>
              \A n \in 1 .. Sizes[b] : mem'[Start[b] + n] = <<b, n>>
  BY <1>1, <1>2, <1>3, StoreKeeps
<1>5. OneWay' /\ InFlight'
  BY <1>1 DEF OneWay, InFlight
<1>6. CASE seqnum' = seqnum /\ total' = total /\ accepted' = accepted
           /\ \/ rpc' = "retries"
              \/ rpc' = rpc /\ next = accepted
              \/ rpc' = "sync" /\ seqnum = 0
  <2>1. Pace'
    BY <1>1, <1>6 DEF LineInv, Pace, Running
  <2>2. Numbered' /\ Totals' /\ Below'
    BY <1>1, <1>6 DEF LineInv, Numbered, Totals, Below
  <2>3. Arrived'
    BY <1>4, <1>6 DEF Arrived
  <2>4. DoneIsComplete' /\ OutOfSyncOnlyAtWrap'
    BY <1>1, <1>6 DEF DoneIsComplete, OutOfSyncOnlyAtWrap
  <2> QED BY <1>4, <1>5, <2>1, <2>2, <2>3, <2>4 DEF LineInv
<1>7. CASE /\ next = accepted + 1 /\ rpc' = rpc /\ up' = "ACK"
           /\ seqnum' = (seqnum + 1) % SeqMod /\ total' = total + Sizes[next]
           /\ accepted' = accepted + 1
  <2>1. /\ accepted \in Nat /\ SeqMod \in Nat \ {0, 1} /\ next \in Blocks /\ total = Start[next]
        /\ Start[next + 1] = total' /\ total \in Nat /\ Sizes[next] \in Nat
        /\ accepted' <= NumBlocks
    BY <1>2, <1>7, SizesTyped, BoundsAssumption DEF LineInv, Totals, Blocks
  <2>2. Pace'
    BY <1>1, <1>7 DEF Pace
  <2>3. Numbered'
    <3> DEFINE m == (accepted + 1) % SeqMod
    <3>1. /\ m \in 0 .. SeqMod - 1
          /\ (accepted + 1 + 1) % SeqMod = IF m = SeqMod - 1 THEN 0 ELSE m + 1
      <4>1. accepted + 1 \in Nat
        BY <2>1
      <4> QED BY <2>1, <4>1, NextMod
    <3>2. seqnum = m
      BY DEF LineInv, Numbered
    <3> HIDE DEF m
    <3>3. (m + 1) % SeqMod = IF m = SeqMod - 1 THEN 0 ELSE m + 1
      <4>1. CASE m = SeqMod - 1
        <5>1. SeqMod = SeqMod * 1 + 0 /\ 0 \in 0 .. SeqMod - 1 /\ m + 1 = SeqMod * 1 + 0
          BY <2>1, <4>1
        <5>2. (SeqMod * 1 + 0) % SeqMod = 0
          BY <2>1, <5>1, DivMod
        <5> QED BY <4>1, <5>1, <5>2
      <4>2. CASE m # SeqMod - 1
        <5>1. m + 1 \in 0 .. SeqMod - 1 /\ m + 1 = SeqMod * 0 + (m + 1)
          BY <2>1, <3>1, <4>2
        <5>2. (SeqMod * 0 + (m + 1)) % SeqMod = m + 1
          BY <2>1, <5>1, DivMod
        <5> QED BY <4>2, <5>1, <5>2
      <4> QED BY <4>1, <4>2
    <3> QED BY <1>7, <3>1, <3>2, <3>3 DEF Numbered
  <2>4. Totals'
    BY <1>1, <1>7, <2>1 DEF LineInv, Totals
  <2>5. Below'
    <3> SUFFICES ASSUME NEW b \in 1 .. accepted + 1 PROVE Start[b + 1] <= total'
      BY <1>7 DEF Below
    <3>1. CASE b = next
      BY <1>7, <2>1, <3>1
    <3>2. CASE b # next
      <4>1. b \in 1 .. accepted /\ b + 1 \in 1 .. NumBlocks + 1
        BY <1>7, <2>1, <3>2, SizesTyped
      <4>2. Start[b + 1] <= total /\ Start[b + 1] \in Nat
        BY <4>1, SizesTyped DEF LineInv, Below
      <4> QED BY <1>7, <2>1, <4>2
    <3> QED BY <3>1, <3>2
  <2>6. Arrived'
    <3> SUFFICES ASSUME NEW b \in 1 .. accepted + 1, Start[b + 1] <= DestSize,
                        NEW n \in 1 .. Sizes[b]
                 PROVE  mem'[Start[b] + n] = <<b, n>>
      BY <1>7 DEF Arrived
    <3>1. CASE b = next
      <4>1. total + n \in 1 .. DestSize /\ n \in 1 .. Sizes[next] /\ total + Sizes[next] <= DestSize
        BY <1>7, <2>1, <3>1, BoundsAssumption
      <4>2. mem'[total + n] = Data(next)[n]
        BY <1>1, <1>2, <1>3, <2>1, <4>1, StoreFills DEF LineInv
      <4> QED BY <1>3, <2>1, <3>1, <4>1, <4>2
    <3>2. CASE b # next
      <4>1. b \in 1 .. accepted
        BY <1>7, <2>1, <3>2
      <4> QED BY <1>4, <4>1
    <3> QED BY <3>1, <3>2
  <2>7. DoneIsComplete' /\ OutOfSyncOnlyAtWrap'
    BY <1>1, <1>7 DEF DoneIsComplete, OutOfSyncOnlyAtWrap
  <2> QED BY <1>4, <1>5, <2>2, <2>3, <2>4, <2>5, <2>6, <2>7 DEF LineInv
<1>8. QED
  <2>1. \/ IsRetransmission(seq) /\ UNCHANGED <<seqnum, total, accepted>>
           /\ (rpc' = "retries" \/ rpc' = rpc)
        \/ /\ ~IsRetransmission(seq) /\ IsExpected(seq) /\ rpc' = rpc /\ up' = "ACK"
           /\ seqnum' = (seqnum + 1) % SeqMod /\ total' = total + Sizes[down.block]
           /\ accepted' = accepted + 1
        \/ /\ ~IsRetransmission(seq) /\ ~IsExpected(seq) /\ rpc' = "sync"
           /\ UNCHANGED <<seqnum, total, accepted>>
    BY DEF TakePacket
  <2> QED BY <1>2, <1>6, <1>7, <2>1

\* What is left to show of a step that accepts nothing.
LEMMA Unaccepting ==
  ASSUME LineInv, UNCHANGED <<seqnum, total, accepted>>,
         mem' = mem \/ \E data \in Seq(Nat \X Nat) : Store(data),
         OneWay', Pace', InFlight', DoneIsComplete', OutOfSyncOnlyAtWrap', next' \in Nat \ {0}
  PROVE  LineInv'
<1>1. Numbered' /\ Totals' /\ Below'
  BY DEF LineInv, Numbered, Totals, Below
<1>2. DOMAIN mem' = 1 .. DestSize /\ Arrived'
  <2>1. CASE mem' = mem
    BY <2>1 DEF LineInv, Arrived
  <2>2. CASE \E data \in Seq(Nat \X Nat) : Store(data)
    BY <2>2, StoreKeeps DEF Arrived
  <2> QED BY <2>1, <2>2
<1> QED BY <1>1, <1>2 DEF LineInv

LEMMA RefuseStores ==
  ASSUME Refuse
  PROVE  /\ \E data \in Seq(Nat \X Nat) : Store(data)
         /\ rpc' = "flush" /\ up' = "NAK"
<1>1. <<Junk>> \in Seq(Nat \X Nat) /\ <<Junk, Junk>> \in Seq(Nat \X Nat)
  BY DEF Junk
<1> QED BY <1>1 DEF Refuse

LEMMA ReceiverInv == LineInv /\ Receiver => LineInv'
<1> SUFFICES ASSUME LineInv, Receiver PROVE LineInv'
  OBVIOUS
<1>0. /\ next \in Nat \ {0} /\ accepted \in Nat
      /\ OneWay /\ Pace /\ InFlight /\ DoneIsComplete /\ OutOfSyncOnlyAtWrap /\ Totals
  BY DEF LineInv, Totals
<1>1. CASE SendC
  <2>1. UNCHANGED <<rpc, seqnum, total, accepted, mem, misread, next, down>> /\ down = Nothing
        /\ up' = "C"
    BY <1>1 DEF SendC, recvVars, sendVars
  <2> QED BY <1>0, <2>1, Unaccepting
          DEF OneWay, Pace, InFlight, Running, DoneIsComplete, OutOfSyncOnlyAtWrap
<1>2. CASE TakePacket
  BY <1>2, TakePacketInv
<1>3. CASE TakeDamaged
  <2>1. /\ UNCHANGED <<seqnum, total, accepted, misread, next>> /\ down' = Nothing
        /\ rpc = "control" /\ rpc' = "flush" /\ up' = "NAK"
        /\ \E data \in Seq(Nat \X Nat) : Store(data)
    BY <1>3, RefuseStores DEF TakeDamaged, sendVars
  <2> QED BY <1>0, <2>1, Unaccepting
          DEF OneWay, Pace, InFlight, Running, DoneIsComplete, OutOfSyncOnlyAtWrap
<1>4. CASE TakeEot
  <2>1. /\ UNCHANGED <<seqnum, total, accepted, misread, next, mem>> /\ down' = Nothing
        /\ rpc = "control" /\ down = Eot /\ rpc' \in {"eof", "done"}
    BY <1>4 DEF TakeEot, ReadEot, sendVars
  <2>2. accepted = NumBlocks
    BY <1>0, <2>1, SizesTyped
       DEF InFlight, Pace, Running, Eot, Can, Nothing, Totals
  <2> QED BY <1>0, <2>1, <2>2, Unaccepting
          DEF OneWay, Pace, InFlight, Running, DoneIsComplete, OutOfSyncOnlyAtWrap
<1>5. CASE TakeCan
  <2>1. /\ UNCHANGED <<seqnum, total, accepted, misread, next, mem>> /\ down' = Nothing
        /\ rpc' = "cancelled"
    BY <1>5 DEF TakeCan, ReadCan, sendVars
  <2> QED BY <1>0, <2>1, Unaccepting
          DEF OneWay, Pace, InFlight, Running, DoneIsComplete, OutOfSyncOnlyAtWrap
<1>6. CASE TakeHeadless
  <2>1. /\ UNCHANGED <<seqnum, total, accepted, next>> /\ down' = Nothing
        /\ rpc = "control" /\ misread' = TRUE /\ down.kind = "headless"
    BY <1>6 DEF TakeHeadless, sendVars
  <2>2. up = "none"
    BY <1>0, <2>1 DEF OneWay, Nothing
  <2>3. OneWay' /\ InFlight' /\ DoneIsComplete'
    BY <2>1 DEF OneWay, InFlight, DoneIsComplete
  <2>4. CASE UNCHANGED <<rpc, up, mem, trychar>>
    BY <1>0, <2>1, <2>3, <2>4, Unaccepting DEF Pace, Running, OutOfSyncOnlyAtWrap
  <2>5. CASE Refuse
    <3>1. rpc' = "flush" /\ up' = "NAK" /\ \E data \in Seq(Nat \X Nat) : Store(data)
      BY <2>5, RefuseStores
    <3> QED BY <1>0, <2>1, <2>3, <3>1, Unaccepting DEF Pace, Running, OutOfSyncOnlyAtWrap
  <2>6. CASE (ReadEot \/ ReadCan) /\ UNCHANGED <<mem, trychar>>
    <3>1. rpc' \in {"eof", "done", "cancelled"} /\ mem' = mem
      BY <2>6 DEF ReadEot, ReadCan
    <3> QED BY <1>0, <2>1, <2>3, <3>1, Unaccepting DEF Pace, Running, OutOfSyncOnlyAtWrap
  <2> QED BY <1>6, <2>4, <2>5, <2>6 DEF TakeHeadless
<1>7. CASE FlushInput
  <2>1. /\ UNCHANGED <<seqnum, total, accepted, misread, next, mem, up>>
        /\ rpc = "flush" /\ rpc' \in {"flush", "control"} /\ down' = Nothing
    BY <1>7 DEF FlushInput, sendVars
  <2> QED BY <1>0, <2>1, Unaccepting
          DEF OneWay, Pace, InFlight, Running, DoneIsComplete, OutOfSyncOnlyAtWrap
<1> QED BY <1>1, <1>2, <1>3, <1>4, <1>5, <1>6, <1>7 DEF Receiver

\* The sender and the line.
LEMMA SendInv == LineInv /\ (Sender \/ LineFault) => LineInv'
<1> SUFFICES ASSUME LineInv, Sender \/ LineFault PROVE LineInv'
  OBVIOUS
<1>0. /\ next \in Nat \ {0} /\ accepted \in Nat /\ NumBlocks \in Nat /\ accepted <= NumBlocks
      /\ OneWay /\ Pace /\ InFlight /\ DoneIsComplete /\ OutOfSyncOnlyAtWrap
  BY SizesTyped DEF LineInv, Totals
<1>1. UNCHANGED <<rpc, seqnum, total, accepted, misread, mem>>
  BY DEF Sender, SendAgain, SendNext, Abandon, LineFault, recvVars
<1>2. DoneIsComplete' /\ OutOfSyncOnlyAtWrap'
  BY <1>0, <1>1 DEF DoneIsComplete, OutOfSyncOnlyAtWrap
<1>3. CASE SendAgain
  <2>1. next' = next /\ down' = Message(next) /\ up' = "none"
    BY <1>3 DEF SendAgain
  <2>2. InFlight'
    <3> SUFFICES ASSUME Running PROVE InFlight'
      BY <1>1 DEF InFlight, Running
    <3>1. next <= NumBlocks + 1
      BY <1>0 DEF Pace
    <3> QED BY <1>0, <2>1, <3>1 DEF InFlight, Message, Packet, Eot
  <2>3. OneWay' /\ Pace'
    BY <1>0, <1>1, <2>1 DEF OneWay, Pace, Running
  <2> QED BY <1>0, <1>1, <1>2, <2>1, <2>2, <2>3, Unaccepting
<1>4. CASE SendNext
  <2>1. /\ up = "ACK" /\ up' = "none"
        /\ \/ next <= NumBlocks /\ next' = next + 1 /\ down' = Message(next + 1)
           \/ next' = next /\ down' = down
    BY <1>4 DEF SendNext
  <2>2. Running => next = accepted
    BY <1>0, <2>1 DEF Pace
  <2>3. Pace' /\ OneWay'
    BY <1>0, <1>1, <2>1, <2>2 DEF Pace, Running, OneWay
  <2>4. InFlight'
    <3>1. CASE next <= NumBlocks /\ next' = next + 1 /\ down' = Message(next + 1)
      BY <1>0, <3>1 DEF InFlight, Message, Packet, Eot
    <3>2. CASE next' = next /\ down' = down
      BY <1>0, <1>1, <3>2 DEF InFlight, Running
    <3> QED BY <2>1, <3>1, <3>2
  <2>5. next' \in Nat \ {0}
    BY <1>0, <2>1
  <2> QED BY <1>0, <1>1, <1>2, <2>3, <2>4, <2>5, Unaccepting
<1>5. CASE Abandon
  <2>1. next' = next /\ up' = "none" /\ down' \in {Nothing, Can}
    BY <1>5 DEF Abandon
  <2> QED BY <1>0, <1>1, <1>2, <2>1, Unaccepting DEF OneWay, Pace, InFlight, Running
<1>6. CASE LineFault
  <2>1. /\ next' = next /\ (up' = up \/ up' = "none")
        /\ \/ down' = Nothing
           \/ down' = down
           \/ down.kind = "packet"
              /\ down' \in { [down EXCEPT !.kind = k] : k \in {"damaged", "headless"} }
        /\ down' # Nothing => up' = up \/ up' = "none"
        /\ down' # Nothing => down # Nothing
    BY <1>6 DEF LineFault, sendVars, Nothing
  <2>2. OneWay' /\ Pace'
    BY <1>0, <1>1, <2>1 DEF OneWay, Pace, Running
  <2>3. InFlight'
    <3> SUFFICES ASSUME Running PROVE InFlight'
      BY <1>1 DEF InFlight, Running
    <3>1. CASE down' = Nothing \/ down' = down
      BY <1>0, <2>1, <3>1 DEF InFlight
    <3>2. CASE down.kind = "packet"
                /\ down' \in { [down EXCEPT !.kind = k] : k \in {"damaged", "headless"} }
      <4>1. /\ down \in [kind : {"packet", "damaged", "headless"}, block : {next}]
            /\ next <= NumBlocks
        BY <1>0, <3>2 DEF InFlight, Nothing, Can, Eot
      <4> QED BY <2>1, <3>2, <4>1 DEF InFlight
    <3> QED BY <2>1, <3>1, <3>2
  <2> QED BY <1>0, <1>1, <1>2, <2>1, <2>2, <2>3, Unaccepting
<1> QED BY <1>3, <1>4, <1>5, <1>6 DEF Sender

LEMMA LineInvariance == Spec => []LineInv
<1>1. LineInv /\ [Next]_vars => LineInv'
  <2> SUFFICES ASSUME LineInv, [Next]_vars PROVE LineInv'
    OBVIOUS
  <2>1. CASE Next
    BY <2>1, ReceiverInv, SendInv DEF Next
  <2>2. CASE UNCHANGED vars
    BY <2>2 DEF vars, recvVars, sendVars, LineInv, OneWay, Pace, InFlight, Running, Numbered, Totals,
                Below, Arrived, DoneIsComplete, OutOfSyncOnlyAtWrap
  <2> QED BY <2>1, <2>2
<1> QED BY LineInit, <1>1, PTL DEF Spec

(***************************************************************************)
(* However the line loses and damages packets and answers, what was        *)
(* received is the beginning of what is sent: no block twice, none left    *)
(* out, none overwritten by a damaged or repeated one (xmodem.c:102-205).  *)
(***************************************************************************)
THEOREM TransferIsPrefix == Spec => []ImageIsPrefix
<1>1. LineInv => ImageIsPrefix
  <2> SUFFICES ASSUME LineInv PROVE ImageIsPrefix
    OBVIOUS
  <2>1. ASSUME NEW b \in 1 .. accepted, Start[b + 1] <= DestSize, NEW n \in 1 .. Sizes[b]
        PROVE  mem[Start[b] + n] = Data(b)[n]
    <3>1. b \in Blocks
      BY SizesTyped DEF LineInv, Totals, Blocks
    <3>2. Data(b)[n] = <<b, n>>
      BY <3>1, DataTyped
    <3> QED BY <2>1, <3>2 DEF LineInv, Arrived
  <2> QED BY <2>1 DEF LineInv, ImageIsPrefix, Totals
<1> QED BY <1>1, LineInvariance, PTL

(***************************************************************************)
(* xmodem_receive reports a transfer as done when the sender has sent its  *)
(* last block, unless it took the inside of a packet for control bytes     *)
(* (xmodem.c:136).                                                         *)
(***************************************************************************)
THEOREM TransferIsComplete == Spec => []DoneIsComplete
<1>1. LineInv => DoneIsComplete
  BY DEF LineInv
<1> QED BY <1>1, LineInvariance, PTL

(***************************************************************************)
(* A packet that was sent again is taken for one, except when its number   *)
(* is the last one before the numbers wrap (xmodem.c:189).                 *)
(***************************************************************************)
THEOREM InSyncButAtWrap == Spec => []OutOfSyncOnlyAtWrap
<1>1. LineInv => OutOfSyncOnlyAtWrap
  BY DEF LineInv
<1> QED BY <1>1, LineInvariance, PTL

-----------------------------------------------------------------------------
(***************************************************************************)
(* The flash.  A command that writes finds the chip idle and enabled; what *)
(* lies before ptr is written, what is erased and not yet programmed is    *)
(* blank; and a load knows which byte of the flash each byte it reads is.  *)
(***************************************************************************)
Names == {"ram", "rom", "rest", "blank", "mixed", "garbage", "dummy", "next",
          "sent", "typed", "inverted"}
Byte == Names \X Int
Multiple(a, m) == \E q \in Nat : a = m * q
Erasing == {"erase_enable", "erase"}
Paging  == {"wip_up", "wip_noise", "wip_down", "page_enable", "page", "updated"}

Buffers ==
  /\ size \in Nat \ {0} /\ skew \in 0 .. WordBytes - 1
  /\ ram \in [0 .. size - 1 -> Byte] /\ cells \in [Cells -> Byte]

ChipReady ==
  /\ work \in {"idle", "accepted", "busy"}
  /\ sp \notin {"wip_up", "wip_noise", "wip_down"} => work = "idle"
  /\ sp \in {"wip_up", "wip_down"} => work # "accepted"
  /\ sp \in {"erase", "page"} => wel = TRUE

Written ==
  sp \in Erasing \cup Paging =>
    /\ kept = ram /\ ptr \in 0 .. size /\ left = size - ptr
    /\ cur \in Nat /\ Multiple(cur, PageBytes) /\ (ptr < size => cur = ptr)
    /\ \A a \in 0 .. ptr - 1 : cells[a] = ram[a]
    /\ sp \in Erasing => ptr < size /\ Multiple(cur, SectorBytes)
    /\ sp = "updated" => ptr = size

Erased ==
  sp \in Paging =>
    /\ end \in ptr .. size /\ (end < size => Multiple(end, SectorBytes))
    /\ sp \in {"page_enable", "page"} => ptr < end
    /\ \A a \in Int : cur <= a /\ a < end => cells[a] = Blank

Fifo ==
  sp = "read" =>
    /\ i \in 0 .. size + Header /\ tx \in 0 .. Header /\ sent \in Nat /\ i = sent + tx
    /\ rx \in Seq(Byte) /\ Len(rx) + tx = Header
    /\ \A k \in 1 .. Len(rx), a \in Cells : i + k = a + Header + 2 => rx[k] = cells[a]

Whole(p, h) == \E q \in Nat : p = h + WordBytes * q
Placed ==
  /\ ptr \in 0 .. size /\ word \in Seq(Byte) /\ Len(word) < WordBytes
  /\ IF i > Header + 1 THEN ptr + Len(word) + Header + 1 = i ELSE ptr = 0 /\ word = << >>
  /\ IF ptr < HeadBytes THEN word = << >> ELSE Whole(ptr, HeadBytes)
  /\ \A a \in Int : 0 <= a /\ a < ptr => ram[a] = cells[a]
  /\ \A k \in 1 .. Len(word), a \in Int : ptr + k = a + 1 => word[k] = cells[a]
Stored == sp = "read" => Placed

FlashInv == Buffers /\ ChipReady /\ Written /\ Erased /\ Fifo /\ Stored /\ LoadIsExact

MainInv ==
  /\ autoEnable \in BOOLEAN /\ skipped \in BOOLEAN /\ autoBoots \in {0, 1}
  /\ restarts \in Nat /\ keys \in Nat /\ prevCmd \in Commands \cup {NoCmd}
  /\ autoEnable = TRUE => autoBoots = 0 /\ skipped = FALSE
  /\ mpc \in {"countdown", "autoload"} => autoEnable = FALSE /\ autoBoots = 0 /\ skipped = FALSE
  /\ skipped = TRUE => autoBoots = 0
  /\ sp # "idle" => mpc \in {"flash", "autoload"}
  /\ mpc = "autoload" => sp \in {"read", "loaded"}
  /\ mpc = "supervisor" /\ autoBoots = 1 /\ restarts = 0 /\ keys = 0 => Loaded

LEMMA Positive == /\ PageBytes \in Nat \ {0} /\ SectorPages \in Nat \ {0} /\ WordBytes \in Nat \ {0}
                  /\ SectorBytes \in Nat \ {0}
<1>1. PageBytes \in Nat \ {0} /\ SectorPages \in Nat \ {0} /\ WordBytes \in Nat \ {0}
  BY FlashAssumption
<1>2. SectorPages * PageBytes >= SectorPages
  BY <1>1, MulGe
<1> QED BY <1>1, <1>2 DEF SectorBytes

\* From one multiple of a number to the next.
LEMMA NextMultiple ==
  ASSUME NEW a \in Nat, NEW b \in Nat, Multiple(a, PageBytes), Multiple(b, SectorBytes), a < b
  PROVE  a + PageBytes <= b
<1>1. PICK q \in Nat : a = PageBytes * q
  BY DEF Multiple
<1>2. PICK r \in Nat : b = SectorBytes * r
  BY DEF Multiple
<1> DEFINE d == SectorPages * r - q
<1>3. SectorPages * r \in Nat /\ d \in Int
  BY Positive, MulPos
<1>4. b - a = PageBytes * d
  <2>1. b = PageBytes * (SectorPages * r)
    BY <1>2, Positive, SMT DEF SectorBytes
  <2> QED BY <1>1, <1>3, <2>1, Positive, SMT
<1> HIDE DEF d
<1>5. d >= 1
  <2>1. ASSUME ~(d >= 1) PROVE FALSE
    <3>1. PageBytes * (0 - d) \in Nat /\ PageBytes * (0 - d) = 0 - PageBytes * d
      BY <1>3, <2>1, Positive, MulPos
    <3> QED BY <1>4, <3>1
  <2> QED BY <2>1
<1>6. PageBytes * d >= PageBytes
  BY <1>3, <1>5, MulGe, Positive
<1> QED BY <1>4, <1>6, Positive

LEMMA StepMultiple ==
  ASSUME NEW m \in Nat \ {0}, NEW a \in Nat, Multiple(a, m) PROVE Multiple(a + m, m)
<1>1. PICK q \in Nat : a = m * q
  BY DEF Multiple
<1>2. a + m = m * (q + 1)
  BY <1>1
<1> QED BY <1>2 DEF Multiple

LEMMA ZeroMultiple == ASSUME NEW m \in Nat PROVE Multiple(0, m)
<1>1. 0 = m * 0
  OBVIOUS
<1> QED BY <1>1 DEF Multiple

\* The cells of a sector, by the address of the first one.
LEMMA InSector ==
  ASSUME NEW a \in Nat, NEW c \in Nat, Multiple(c, SectorBytes)
  PROVE  a \div SectorBytes = c \div SectorBytes <=> a \in c .. c + SectorBytes - 1
<1> DEFINE m == SectorBytes
           p == a \div m
           r == a % m
<1>1. PICK q \in Nat : c = m * q
  BY DEF Multiple
<1>2. m \in Nat \ {0}
  BY Positive
<1>3. c \div m = q
  <2>1. m * q + 0 = c /\ 0 \in 0 .. m - 1
    BY <1>1, <1>2
  <2> QED BY <1>2, <2>1, DivMod
<1>4. p \in Nat /\ r \in 0 .. m - 1 /\ a = m * p + r
  BY <1>2, ModFacts
<1>5. ASSUME a \in c .. c + m - 1 PROVE p = q
  <2>1. a - c \in 0 .. m - 1 /\ m * q + (a - c) = a
    BY <1>1, <1>2, <1>5
  <2> QED BY <1>2, <2>1, DivMod
<1> HIDE DEF m, p, r
<1>6. ASSUME p = q PROVE a \in c .. c + m - 1
  BY <1>1, <1>2, <1>4, <1>6
<1> QED BY <1>3, <1>5, <1>6 DEF m, p

\* The chip holds the image.
LEMMA CellsHoldImage == Buffers => 0 .. size - 1 \subseteq Cells /\ Cells \subseteq Nat
<1> SUFFICES ASSUME Buffers PROVE 0 .. size - 1 \subseteq Cells /\ Cells \subseteq Nat
  OBVIOUS
<1> DEFINE m == SectorBytes
           a == size + m - 1
           p == a \div m
           r == a % m
<1>1. m \in Nat \ {0} /\ a \in Nat /\ size \in Nat
  BY Positive DEF Buffers
<1>2. p \in Nat /\ r \in 0 .. m - 1 /\ a = m * p + r
  BY <1>1, ModFacts
<1>3. Cells = 0 .. (p * m - 1)
  BY DEF Cells
<1>4. p * m = m * p /\ p * m \in Nat
  BY <1>1, <1>2
<1>5. p * m >= size
  <2> HIDE DEF p, r
  <2> QED BY <1>1, <1>2, <1>4
<1> HIDE DEF p
<1> QED BY <1>1, <1>3, <1>4, <1>5

LEMMA BlankTyped == Blank \in Byte /\ <<"mixed", 0>> \in Byte
  BY DEF Blank, Byte, Names

LEMMA FlashInitInv == FlashInit => FlashInv
<1> SUFFICES ASSUME FlashInit PROVE FlashInv
  OBVIOUS
<1>1. size \in Nat \ {0} /\ skew \in 0 .. WordBytes - 1 /\ sp = "idle" /\ work = "idle"
  BY FlashAssumption DEF FlashInit
<1>2. ram \in [0 .. size - 1 -> Byte]
  BY <1>1 DEF FlashInit, Image, Byte, Names
<1>3. cells \in [Cells -> Byte]
  <2>1. Cells \subseteq Int
    BY DEF Cells
  <2>2. \A a \in Cells : <<"rom", a>> \in Byte /\ <<"rest", a>> \in Byte
    BY <2>1 DEF Byte, Names
  <2> QED BY <2>2 DEF FlashInit
<1> QED BY <1>1, <1>2, <1>3
        DEF FlashInv, Buffers, ChipReady, Written, Erased, Fifo, Stored, LoadIsExact, Erasing, Paging

\* A driver that does nothing.
LEMMA Resting ==
  ASSUME Buffers', ChipReady', sp' = "idle"
  PROVE  FlashInv'
BY DEF FlashInv, Written, Erased, Fifo, Stored, LoadIsExact, Erasing, Paging

\* A write has no load under way, and the other way round.
LEMMA NoLoad ==
  ASSUME sp' \in Erasing \cup Paging PROVE Fifo' /\ Stored' /\ LoadIsExact'
BY DEF Erasing, Paging, Fifo, Stored, LoadIsExact
LEMMA NoWrite ==
  ASSUME sp' \in {"read", "loaded"} PROVE Written' /\ Erased'
BY DEF Erasing, Paging, Written, Erased

LEMMA StartUpdateInv == FlashInv /\ StartUpdate => FlashInv'
<1> SUFFICES ASSUME FlashInv, StartUpdate PROVE FlashInv'
  OBVIOUS
<1>1. /\ sp = "idle" /\ sp' = "erase_enable" /\ cur' = 0 /\ ptr' = 0 /\ left' = size /\ kept' = ram
      /\ UNCHANGED <<size, skew, ram, cells, wel, work>>
  BY DEF StartUpdate
<1>2. Buffers' /\ ChipReady'
  BY <1>1 DEF FlashInv, Buffers, ChipReady, Cells
<1>3. Written' /\ Erased'
  <2>1. Multiple(0, PageBytes) /\ Multiple(0, SectorBytes)
    BY ZeroMultiple, Positive
  <2>2. size \in Nat \ {0}
    BY DEF FlashInv, Buffers
  <2> QED BY <1>1, <2>1, <2>2 DEF Written, Erased, Erasing, Paging, Multiple
<1> QED BY <1>1, <1>2, <1>3, NoLoad DEF FlashInv, Erasing

LEMMA WriteEnableInv == FlashInv /\ WriteEnable => FlashInv'
<1> SUFFICES ASSUME FlashInv, WriteEnable PROVE FlashInv'
  OBVIOUS
<1>1. /\ \/ sp = "erase_enable" /\ sp' = "erase"
         \/ sp = "page_enable" /\ sp' = "page"
      /\ wel' = (wel \/ work = "idle")
      /\ UNCHANGED <<size, skew, ram, cells, work, cur, ptr, end, left, kept>>
  BY DEF WriteEnable
<1>2. work = "idle" /\ wel' = TRUE
  BY <1>1 DEF FlashInv, ChipReady
<1>3. Buffers' /\ ChipReady'
  BY <1>1, <1>2 DEF FlashInv, Buffers, ChipReady, Cells
<1>4. Written' /\ Erased'
  BY <1>1 DEF FlashInv, Written, Erased, Erasing, Paging, Multiple
<1> QED BY <1>1, <1>3, <1>4, NoLoad DEF FlashInv, Erasing, Paging

LEMMA EraseSectorInv == FlashInv /\ EraseSector => FlashInv'
<1> SUFFICES ASSUME FlashInv, EraseSector PROVE FlashInv'
  OBVIOUS
<1> DEFINE new == [a \in Cells |-> IF a \div SectorBytes = cur \div SectorBytes
                                   THEN Blank ELSE cells[a]]
<1>1. /\ sp = "erase" /\ sp' = "wip_noise" /\ end' = ptr + Least(left, SectorBytes) /\ ChipTakes(new)
      /\ UNCHANGED <<size, skew, ram, cur, ptr, left, kept>>
  BY DEF EraseSector
<1>2. wel = TRUE /\ work = "idle" /\ Buffers
  BY <1>1 DEF FlashInv, ChipReady
<1>3. cells' = new /\ work' = "accepted"
  BY <1>1, <1>2 DEF ChipTakes
<1>4. /\ kept = ram /\ ptr \in 0 .. size - 1 /\ left = size - ptr /\ cur = ptr
      /\ Multiple(cur, PageBytes) /\ Multiple(cur, SectorBytes)
      /\ \A a \in 0 .. ptr - 1 : cells[a] = ram[a]
      /\ size \in Nat /\ SectorBytes \in Nat \ {0}
  BY <1>1, <1>2, Positive DEF FlashInv, Written, Erasing, Buffers
<1>5. 0 .. size - 1 \subseteq Cells /\ Cells \subseteq Nat
  BY <1>2, CellsHoldImage
<1>6. Buffers' /\ ChipReady'
  <2>1. new \in [Cells -> Byte]
    BY <1>2, BlankTyped DEF Buffers
  <2> QED BY <1>1, <1>2, <1>3, <2>1 DEF Buffers, ChipReady, Cells
<1>7. \A a \in 0 .. size - 1 : cells'[a] = IF a \in ptr .. ptr + SectorBytes - 1 THEN Blank ELSE cells[a]
  BY <1>3, <1>4, <1>5, InSector
<1>8. Written'
  BY <1>1, <1>4, <1>7 DEF Written, Erasing, Paging, Multiple
<1>9. Erased'
  <2>1. /\ end' \in ptr .. size /\ end' <= ptr + SectorBytes
        /\ end' < size => end' = ptr + SectorBytes
    BY <1>1, <1>4 DEF Least
  <2>2. end' < size => Multiple(end', SectorBytes)
    BY <1>4, <2>1, StepMultiple
  <2>3. \A a \in Int : cur <= a /\ a < end' => cells'[a] = Blank
    <3> SUFFICES ASSUME NEW a \in Int, cur <= a, a < end' PROVE cells'[a] = Blank
      OBVIOUS
    <3>1. ptr \in Nat /\ size \in Int /\ SectorBytes \in Int /\ cur = ptr
      BY <1>4
    <3>2. a \in 0 .. size - 1 /\ a \in ptr .. ptr + SectorBytes - 1
      BY <2>1, <3>1
    <3> QED BY <1>7, <3>2
  <2> QED BY <1>1, <2>1, <2>2, <2>3 DEF Erased, Multiple
<1> QED BY <1>1, <1>6, <1>8, <1>9, NoLoad DEF FlashInv, Paging

LEMMA ProgramPageInv == FlashInv /\ ProgramPage => FlashInv'
<1> SUFFICES ASSUME FlashInv, ProgramPage PROVE FlashInv'
  OBVIOUS
<1> DEFINE n == Least(left, PageBytes)
           new == [a \in Cells |-> IF a \in cur .. (cur + n - 1)
                                   THEN Programmed(cells[a], ram[ptr + a - cur]) ELSE cells[a]]
<1>1. /\ sp = "page" /\ sp' = "wip_noise" /\ ChipTakes(new)
      /\ cur' = cur + PageBytes /\ ptr' = ptr + n /\ left' = left - n
      /\ UNCHANGED <<size, skew, ram, end, kept>>
  BY DEF ProgramPage
<1>2. wel = TRUE /\ work = "idle" /\ Buffers
  BY <1>1 DEF FlashInv, ChipReady
<1>3. cells' = new /\ work' = "accepted"
  BY <1>1, <1>2 DEF ChipTakes
<1>4. /\ kept = ram /\ ptr \in 0 .. size - 1 /\ left = size - ptr /\ cur = ptr
      /\ Multiple(cur, PageBytes)
      /\ \A a \in 0 .. ptr - 1 : cells[a] = ram[a]
      /\ end \in ptr + 1 .. size /\ (end < size => Multiple(end, SectorBytes))
      /\ \A a \in Int : cur <= a /\ a < end => cells[a] = Blank
      /\ size \in Nat /\ PageBytes \in Nat \ {0}
  BY <1>1, <1>2, Positive DEF FlashInv, Written, Erased, Paging, Buffers
<1>5. n \in Nat \ {0} /\ n <= PageBytes /\ n <= left /\ (n = PageBytes \/ n = left)
  <2>1. left \in Nat \ {0} /\ PageBytes \in Nat \ {0}
    BY <1>4
  <2> QED BY <2>1 DEF Least
<1> HIDE DEF n
<1>6. ptr + n <= end
  <2>1. CASE end < size
    BY <1>4, <1>5, <2>1, NextMultiple
  <2>2. CASE end = size
    BY <1>4, <1>5, <2>2
  <2> QED BY <1>4, <2>1, <2>2
<1>7. 0 .. size - 1 \subseteq Cells /\ Cells \subseteq Nat
  BY <1>2, CellsHoldImage
<1>8. \A a \in 0 .. size - 1 : cells'[a] = IF a \in ptr .. ptr + n - 1 THEN ram[a] ELSE cells[a]
  <2>1. \A a \in ptr .. ptr + n - 1 : cells[a] = Blank /\ ptr + a - cur = a
    BY <1>4, <1>5, <1>6
  <2> QED BY <1>3, <1>4, <1>7, <2>1 DEF Programmed
<1>9. Buffers' /\ ChipReady'
  <2>1. new \in [Cells -> Byte]
    <3> SUFFICES ASSUME NEW a \in Cells PROVE new[a] \in Byte
      OBVIOUS
    <3>1. CASE a \in ptr .. ptr + n - 1
      <4>1. ptr + a - cur = a /\ a \in 0 .. size - 1
        BY <1>4, <1>5, <1>7, <3>1
      <4> QED BY <1>2, <1>4, <3>1, <4>1, BlankTyped DEF Buffers, Programmed
    <3>2. CASE a \notin ptr .. ptr + n - 1
      BY <1>2, <1>4, <3>2 DEF Buffers
    <3> QED BY <3>1, <3>2
  <2> QED BY <1>1, <1>2, <1>3, <2>1 DEF Buffers, ChipReady, Cells
<1>10. Written'
  <2>1. Multiple(cur', PageBytes)
    BY <1>1, <1>4, StepMultiple
  <2>2. cur' \in Nat /\ ptr' \in 0 .. size /\ left' = size - ptr' /\ (ptr' < size => cur' = ptr')
    BY <1>1, <1>4, <1>5
  <2>3. \A a \in 0 .. ptr' - 1 : cells'[a] = ram[a]
    BY <1>1, <1>4, <1>5, <1>8
  <2> QED BY <1>1, <1>4, <2>1, <2>2, <2>3 DEF Written, Erasing, Multiple
<1>11. Erased'
  <2>1. end \in ptr' .. size
    BY <1>1, <1>4, <1>5, <1>6
  <2>2. \A a \in Int : cur' <= a /\ a < end => cells'[a] = Blank
    BY <1>1, <1>4, <1>5, <1>8
  <2> QED BY <1>1, <1>4, <2>1, <2>2 DEF Erased, Multiple
<1> QED BY <1>1, <1>9, <1>10, <1>11, NoLoad DEF FlashInv, Paging

LEMMA PollUpInv == FlashInv /\ PollUp => FlashInv'
<1> SUFFICES ASSUME FlashInv, PollUp PROVE FlashInv'
  OBVIOUS
<1>1. /\ sp \in {"wip_up", "wip_noise"}
      /\ sp' \in {"wip_up", "wip_down"} /\ work # "accepted"
      /\ UNCHANGED <<size, skew, ram, cells, wel, work, cur, ptr, end, left, kept>>
  BY DEF PollUp, FlashInv, ChipReady
<1>2. Buffers' /\ ChipReady'
  BY <1>1 DEF FlashInv, Buffers, ChipReady, Cells
<1>3. Written' /\ Erased'
  BY <1>1 DEF FlashInv, Written, Erased, Erasing, Paging, Multiple
<1> QED BY <1>1, <1>2, <1>3, NoLoad DEF FlashInv, Paging

LEMMA PollDownInv == FlashInv /\ PollDown => FlashInv'
<1> SUFFICES ASSUME FlashInv, PollDown PROVE FlashInv'
  OBVIOUS
<1>1. /\ sp = "wip_down" /\ work # "busy"
      /\ sp' = IF ptr < end THEN "page_enable" ELSE IF left > 0 THEN "erase_enable" ELSE "updated"
      /\ UNCHANGED <<size, skew, ram, cells, wel, work, cur, ptr, end, left, kept>>
  BY DEF PollDown
<1>2. work = "idle"
  BY <1>1 DEF FlashInv, ChipReady
<1>3. Buffers' /\ ChipReady'
  BY <1>1, <1>2 DEF FlashInv, Buffers, ChipReady, Cells
<1>4. /\ ptr \in 0 .. size /\ left = size - ptr /\ size \in Nat /\ end \in ptr .. size
      /\ (ptr < size => cur = ptr) /\ (end < size => Multiple(end, SectorBytes))
  BY <1>1 DEF FlashInv, Written, Erased, Paging, Buffers
<1>5. ASSUME ptr < end PROVE Written' /\ Erased'
  BY <1>1, <1>4, <1>5 DEF FlashInv, Written, Erased, Erasing, Paging, Multiple
<1>6. ASSUME ~(ptr < end) /\ left > 0 PROVE Written' /\ Erased'
  <2>1. ptr < size /\ Multiple(cur, SectorBytes) /\ sp' = "erase_enable"
    BY <1>1, <1>4, <1>6
  <2> QED BY <1>1, <2>1 DEF FlashInv, Written, Erased, Erasing, Paging, Multiple
<1>7. ASSUME ~(ptr < end) /\ ~(left > 0) PROVE Written' /\ Erased'
  <2>1. ptr = size /\ sp' = "updated"
    BY <1>1, <1>4, <1>7
  <2> QED BY <1>1, <2>1 DEF FlashInv, Written, Erased, Erasing, Paging, Multiple
<1>8. sp' \in Erasing \cup Paging
  BY <1>1 DEF Erasing, Paging
<1>9. Written' /\ Erased'
  BY <1>5, <1>6, <1>7
<1> QED BY <1>3, <1>8, <1>9, NoLoad DEF FlashInv

LEMMA HeadTyped == Buffers => HeadBytes \in 0 .. size
<1> SUFFICES ASSUME Buffers PROVE HeadBytes \in 0 .. size
  OBVIOUS
<1>1. WordBytes - skew \in Nat /\ size \in Nat
  BY Positive DEF Buffers
<1>2. (WordBytes - skew) % WordBytes \in 0 .. WordBytes - 1
  BY <1>1, Positive, ModFacts
<1> QED BY <1>1, <1>2, Positive DEF HeadBytes, Least

LEMMA StartLoadInv == FlashInv /\ StartLoad => FlashInv'
<1> SUFFICES ASSUME FlashInv, StartLoad PROVE FlashInv'
  OBVIOUS
<1>1. /\ sp = "idle" /\ sp' = "read" /\ ptr' = 0 /\ i' = 0 /\ word' = << >>
      /\ rx' = [k \in 1 .. Header |-> <<"garbage", k>>] /\ tx' = 0 /\ sent' = 0
      /\ UNCHANGED <<size, skew, ram, cells, wel, work>>
  BY DEF StartLoad
<1>2. Buffers' /\ ChipReady'
  BY <1>1 DEF FlashInv, Buffers, ChipReady, Cells
<1>3. Fifo'
  <2>1. rx' \in Seq(Byte) /\ Len(rx') = Header
    <3>1. \A k \in 1 .. Header : <<"garbage", k>> \in Byte
      BY DEF Byte, Names
    <3> QED BY <1>1, <3>1 DEF Header
  <2>2. size \in Nat
    BY DEF FlashInv, Buffers
  <2>3. \A k \in 1 .. Header, a \in Cells : k # a + Header + 2
    BY CellsHoldImage DEF FlashInv, Header
  <2> QED BY <1>1, <2>1, <2>2, <2>3 DEF Fifo, Header, Cells
<1>4. Placed'
  <2>1. HeadBytes \in Nat /\ HeadBytes' = HeadBytes
    BY <1>1, HeadTyped DEF FlashInv, HeadBytes, Buffers
  <2>2. HeadBytes = 0 => 0 = HeadBytes + WordBytes * 0
    BY Positive
  <2>3. HeadBytes = 0 => Whole(0, HeadBytes)
    BY <2>2 DEF Whole
  <2>4. size \in Nat /\ << >> \in Seq(Byte)
    BY DEF FlashInv, Buffers
  <2>5. ~(0 < HeadBytes) => Whole(0, HeadBytes)
    BY <2>1, <2>3
  <2>6. Len(<< >>) = 0 /\ 0 < WordBytes /\ 0 \in 0 .. size /\ ~(0 > Header + 1)
    BY <2>4, Positive DEF Header
  <2> QED BY <1>1, <2>1, <2>4, <2>5, <2>6 DEF Placed
<1> QED BY <1>1, <1>2, <1>3, <1>4, NoWrite DEF FlashInv, Stored, LoadIsExact

\* The chip works on by itself.
LEMMA ChipWorksInv == FlashInv /\ (ChipStarts \/ ChipFinishes) => FlashInv'
<1> SUFFICES ASSUME FlashInv, ChipStarts \/ ChipFinishes PROVE FlashInv'
  OBVIOUS
<1>1. /\ UNCHANGED <<size, skew, ram, cells, wel, sp, cur, ptr, end, left, i, word, rx, tx, sent, kept>>
      /\ \/ work = "accepted" /\ work' = "busy"
         \/ work = "busy" /\ work' = "idle"
  BY DEF ChipStarts, ChipFinishes
<1>2. ChipReady'
  BY <1>1 DEF FlashInv, ChipReady
<1> QED BY <1>1, <1>2
        DEF FlashInv, Buffers, Written, Erased, Fifo, Stored, Placed, Whole, LoadIsExact, Loaded,
            Cells, HeadBytes, Multiple

LEMMA ExchangeInv == FlashInv /\ Exchange => FlashInv'
<1> SUFFICES ASSUME FlashInv, Exchange PROVE FlashInv'
  OBVIOUS
<1> DEFINE new == IF sent = 0 THEN <<"dummy", 0>>
                  ELSE IF sent - 1 \in Cells THEN cells[sent - 1] ELSE <<"next", 0>>
<1>1. /\ tx > 0 /\ tx' = tx - 1 /\ sent' = sent + 1 /\ rx' = Append(rx, new)
      /\ UNCHANGED <<size, skew, ram, cells, wel, work, sp, cur, ptr, end, left, i, word, kept>>
  BY DEF Exchange
<1>2. Buffers' /\ ChipReady' /\ Written' /\ Erased' /\ Stored' /\ LoadIsExact'
  BY <1>1 DEF FlashInv, Buffers, ChipReady, Written, Erased, Stored, Placed, Whole, LoadIsExact, Loaded,
              Cells, HeadBytes, Multiple
<1>3. Fifo'
  <2> SUFFICES ASSUME sp = "read" PROVE Fifo'
    BY <1>1 DEF Fifo
  <2>1. /\ i \in 0 .. size + Header /\ tx \in 1 .. Header /\ sent \in Nat /\ i = sent + tx
        /\ rx \in Seq(Byte) /\ Len(rx) + tx = Header /\ size \in Nat
        /\ \A k \in 1 .. Len(rx), a \in Cells : i + k = a + Header + 2 => rx[k] = cells[a]
    BY <1>1 DEF FlashInv, Fifo, Buffers, Header
  <2>2. new \in Byte
    <3>1. <<"dummy", 0>> \in Byte /\ <<"next", 0>> \in Byte
      BY DEF Byte, Names
    <3> QED BY <3>1 DEF FlashInv, Buffers
  <2>3. Cells \subseteq Nat
    BY CellsHoldImage DEF FlashInv
  <2>4. ASSUME NEW a \in Cells, i + (Len(rx) + 1) = a + Header + 2 PROVE new = cells[a]
    <3>1. sent + 6 = a + 7
      BY <2>1, <2>3, <2>4 DEF Header
    <3>2. sent # 0 /\ sent - 1 = a
      BY <2>1, <2>3, <3>1
    <3> QED BY <2>4, <3>2
  <2> HIDE DEF new
  <2>5. /\ rx' \in Seq(Byte) /\ Len(rx') = Len(rx) + 1
        /\ rx'[Len(rx) + 1] = new
        /\ \A k \in 1 .. Len(rx) : rx'[k] = rx[k]
    BY <1>1, <2>1, <2>2
  <2>6. \A k \in 1 .. Len(rx'), a \in Cells : i + k = a + Header + 2 => rx'[k] = cells[a]
    <3> SUFFICES ASSUME NEW k \in 1 .. Len(rx) + 1, NEW a \in Cells, i + k = a + Header + 2
                 PROVE  rx'[k] = cells[a]
      BY <2>5
    <3>1. CASE k \in 1 .. Len(rx)
      BY <2>1, <2>5, <3>1
    <3>2. CASE k = Len(rx) + 1
      BY <2>4, <2>5, <3>2
    <3> QED BY <2>1, <3>1, <3>2
  <2>7. tx' \in 0 .. Header /\ sent' \in Nat /\ i = sent' + tx' /\ Len(rx') + tx' = Header
    BY <1>1, <2>1, <2>5 DEF Header
  <2> QED BY <1>1, <2>1, <2>5, <2>6, <2>7 DEF Fifo, Cells
<1> QED BY <1>2, <1>3 DEF FlashInv

\* What a read does: the byte it takes is that of the flash it is for, and it
\* is skipped, stored at once, kept for a word or stored with its word.
LEMMA ReadPlaces ==
  ASSUME FlashInv, Read
  PROVE  /\ Placed' /\ ram' \in [0 .. size - 1 -> Byte]
         /\ rx # << >> /\ sp = "read" /\ rx' = Tail(rx) /\ tx' = tx + 1 /\ i' = i + 1
         /\ sp' = IF i + 1 = Header + 1 + size THEN "loaded" ELSE "read"
         /\ UNCHANGED <<size, skew, cells, wel, work, cur, end, left, sent, kept>>
         /\ HeadBytes' = HeadBytes /\ Cells' = Cells
<1> DEFINE b == rx[1]
           h == HeadBytes
           stored == IF i < Header + 1 THEN << >> ELSE IF i < Header + 1 + h THEN <<b>> ELSE
                     IF Len(word) = WordBytes - 1 THEN Append(word, b) ELSE << >>
<1>1. /\ rx # << >> /\ sp = "read" /\ rx' = Tail(rx) /\ tx' = tx + 1 /\ i' = i + 1
      /\ sp' = IF i + 1 = Header + 1 + size THEN "loaded" ELSE "read"
      /\ word' = IF i < Header + 1 + h \/ stored # << >> THEN << >> ELSE Append(word, b)
      /\ ram' = [a \in DOMAIN ram |-> IF a \in ptr .. (ptr + Len(stored) - 1)
                                      THEN stored[a - ptr + 1] ELSE ram[a]]
      /\ ptr' = ptr + Len(stored)
      /\ UNCHANGED <<size, skew, cells, wel, work, cur, end, left, sent, kept>>
  BY DEF Read, ReadByte
<1>2. HeadBytes' = HeadBytes /\ HeadBytes' = h /\ Cells' = Cells
  BY <1>1 DEF HeadBytes, Cells
<1>3. /\ size \in Nat \ {0} /\ ram \in [0 .. size - 1 -> Byte] /\ h \in 0 .. size
      /\ WordBytes \in Nat \ {0}
      /\ i \in 0 .. size + 5 /\ rx \in Seq(Byte) /\ ptr \in 0 .. size /\ word \in Seq(Byte)
      /\ Len(word) \in Nat /\ Len(word) < WordBytes
      /\ IF i > 6 THEN ptr + Len(word) + 6 = i ELSE ptr = 0 /\ word = << >>
      /\ IF ptr < h THEN word = << >> ELSE Whole(ptr, h)
  <2>1. /\ size \in Nat \ {0} /\ ram \in [0 .. size - 1 -> Byte] /\ h \in 0 .. size
        /\ WordBytes \in Nat \ {0}
    BY HeadTyped, Positive DEF FlashInv, Buffers
  <2>2. i \in 0 .. size + 5 /\ rx \in Seq(Byte)
    BY <1>1 DEF FlashInv, Fifo, Header
  <2>3. Placed
    BY <1>1 DEF FlashInv, Stored
  <2> QED BY <2>1, <2>2, <2>3 DEF Placed, Header
<1>4. /\ \A a \in Int : 0 <= a /\ a < ptr => ram[a] = cells[a]
      /\ \A k \in 1 .. Len(word), a \in Int : ptr + k = a + 1 => word[k] = cells[a]
  BY <1>1 DEF FlashInv, Stored, Placed
<1>5. b \in Byte
  BY <1>1, <1>3
<1>6. ASSUME i >= 6 PROVE b = cells[i - 6] /\ i - 6 \in 0 .. size - 1
  <2>1. i - 6 \in 0 .. size - 1 /\ i + 1 = (i - 6) + Header + 2
    BY <1>3, <1>6 DEF Header
  <2>2. i - 6 \in Cells /\ 1 \in 1 .. Len(rx)
    BY <1>1, <1>3, <2>1, CellsHoldImage DEF FlashInv
  <2> QED BY <1>1, <2>1, <2>2 DEF FlashInv, Fifo
<1> HIDE DEF b, h
<1>7. ASSUME i < 6 PROVE Placed' /\ ram' \in [0 .. size - 1 -> Byte]
  <2>1. stored = << >>
    BY <1>7 DEF Header
  <2>2. word' = << >> /\ ptr' = ptr /\ ptr = 0 /\ word = << >>
    BY <1>1, <1>3, <1>7, <2>1 DEF Header
  <2>3. ram' = ram
    BY <1>1, <1>3, <2>1, <2>2
  <2>4. IF ptr < h THEN << >> = << >> ELSE Whole(ptr, h)
    BY <1>3
  <2>5. Placed'
    BY <1>1, <1>2, <1>3, <1>7, <2>2, <2>3, <2>4 DEF Placed, Whole, Header
  <2> QED BY <1>3, <2>3, <2>5
<1>8. ASSUME i >= 6 /\ i < 6 + h PROVE Placed' /\ ram' \in [0 .. size - 1 -> Byte]
  <2>1. stored = <<b>> /\ Len(stored) = 1 /\ stored[1] = b
    BY <1>3, <1>5, <1>8 DEF Header
  <2>2. ptr = i - 6 /\ ptr < h /\ word = << >> /\ ptr' = ptr + 1 /\ word' = << >>
    BY <1>1, <1>3, <1>8, <2>1 DEF Header
  <2> HIDE DEF stored
  <2>3. ram' = [a \in 0 .. size - 1 |-> IF a = ptr THEN b ELSE ram[a]]
    BY <1>1, <1>3, <2>1, <2>2
  <2>4. ptr' \in 0 .. size /\ ptr + 1 + 0 + 6 = i + 1
    BY <1>3, <1>8, <2>2
  <2>5. ASSUME ~(ptr + 1 < h) PROVE Whole(ptr + 1, h)
    <3>1. ptr + 1 = h + WordBytes * 0
      BY <1>3, <2>2, <2>5
    <3> QED BY <3>1 DEF Whole
  <2>6. \A a \in Int : 0 <= a /\ a < ptr + 1 => ram'[a] = cells[a]
    <3> SUFFICES ASSUME NEW a \in Int, 0 <= a, a < ptr + 1 PROVE ram'[a] = cells[a]
      OBVIOUS
    <3>1. a \in 0 .. size - 1 /\ (a = ptr \/ a < ptr)
      BY <1>3, <2>2
    <3> QED BY <1>4, <1>6, <1>8, <2>2, <2>3, <3>1
  <2>7. Placed'
    <3>1. << >> \in Seq(Byte) /\ Len(<< >>) = 0 /\ i + 1 > 6
      BY <1>3, <1>8
    <3>2. IF ptr' < HeadBytes' THEN word' = << >> ELSE Whole(ptr', HeadBytes')
      BY <1>2, <2>2, <2>5
    <3>3. ptr' \in 0 .. size' /\ word' \in Seq(Byte) /\ Len(word') < WordBytes
      BY <1>1, <1>3, <2>2, <2>4, <3>1
    <3>4. i' > Header + 1 /\ ptr' + Len(word') + Header + 1 = i'
      BY <1>1, <1>3, <2>2, <2>4, <3>1 DEF Header
    <3>5. \A a \in Int : 0 <= a /\ a < ptr' => ram'[a] = cells'[a]
      BY <1>1, <2>2, <2>6
    <3>6. \A k \in 1 .. Len(word'), a \in Int : ptr' + k = a + 1 => word'[k] = cells'[a]
      BY <2>2, <3>1
    <3> QED BY <3>2, <3>3, <3>4, <3>5, <3>6 DEF Placed
  <2>8. ram' \in [0 .. size - 1 -> Byte]
    BY <1>3, <1>5, <2>3
  <2> QED BY <2>7, <2>8
<1>9. ASSUME i >= 6 + h PROVE Placed' /\ ram' \in [0 .. size - 1 -> Byte]
  <2>1. Whole(ptr, h) /\ ptr + Len(word) = i - 6 /\ ~(ptr < h)
    <3>1. CASE i > 6
      BY <1>3, <1>9, <3>1
    <3>2. CASE i = 6
      BY <1>3, <1>9, <3>2
    <3> QED BY <1>3, <1>9, <3>1, <3>2
  <2>2. b = cells[i - 6] /\ i - 6 \in 0 .. size - 1
    BY <1>3, <1>6, <1>9
  <2>3. Append(word, b) \in Seq(Byte) /\ Len(Append(word, b)) = Len(word) + 1
        /\ \A k \in 1 .. Len(word) + 1, a \in Int : ptr + k = a + 1 => Append(word, b)[k] = cells[a]
    <3>1. /\ Append(word, b) \in Seq(Byte) /\ Len(Append(word, b)) = Len(word) + 1
          /\ Append(word, b)[Len(word) + 1] = b
          /\ \A k \in 1 .. Len(word) : Append(word, b)[k] = word[k]
      BY <1>3, <1>5
    <3>2. ASSUME NEW k \in 1 .. Len(word) + 1, NEW a \in Int, ptr + k = a + 1
          PROVE  Append(word, b)[k] = cells[a]
      <4>1. CASE k \in 1 .. Len(word)
        BY <1>4, <3>1, <3>2, <4>1
      <4>2. CASE k = Len(word) + 1
        <5>1. a = i - 6
          BY <1>3, <2>1, <3>2, <4>2
        <5> QED BY <2>2, <3>1, <4>2, <5>1
      <4> QED BY <1>3, <4>1, <4>2
    <3> QED BY <3>1, <3>2
  <2>4. CASE Len(word) = WordBytes - 1
    <3>1. stored = Append(word, b) /\ Len(stored) = WordBytes /\ stored # << >>
      <4>1. ~(i < Header + 1) /\ ~(i < Header + 1 + h)
        BY <1>3, <1>9 DEF Header
      <4>2. stored = Append(word, b)
        BY <2>4, <4>1
      <4>3. Len(Append(word, b)) = WordBytes /\ Append(word, b) # << >>
        <5>1. Len(Append(word, b)) = WordBytes
          BY <1>3, <2>3, <2>4
        <5>2. Len(<< >>) = 0
          OBVIOUS
        <5> QED BY <1>3, <5>1, <5>2
      <4> QED BY <4>2, <4>3
    <3>2. /\ \A k \in 1 .. WordBytes, a \in Int : ptr + k = a + 1 => stored[k] = cells[a]
          /\ \A k \in 1 .. WordBytes : stored[k] \in Byte
      <4>1. 1 .. WordBytes = 1 .. Len(word) + 1 /\ stored = Append(word, b)
        BY <1>3, <2>4, <3>1
      <4>2. \A k \in 1 .. Len(word) + 1 : Append(word, b)[k] \in Byte
        BY <2>3
      <4> QED BY <2>3, <4>1, <4>2
    <3> HIDE DEF stored
    <3>3. word' = << >> /\ ptr' = ptr + WordBytes /\ ptr + WordBytes = i - 5
      BY <1>1, <1>3, <2>1, <2>4, <3>1
    <3>4. ram' = [a \in 0 .. size - 1 |-> IF a \in ptr .. (ptr + WordBytes - 1)
                                          THEN stored[a - ptr + 1] ELSE ram[a]]
      BY <1>1, <1>3, <3>1
    <3>5. \A a \in 0 .. size - 1 : a \in ptr .. (ptr + WordBytes - 1)
            => stored[a - ptr + 1] = cells[a] /\ stored[a - ptr + 1] \in Byte
      <4> SUFFICES ASSUME NEW a \in 0 .. size - 1, a \in ptr .. (ptr + WordBytes - 1)
                   PROVE  stored[a - ptr + 1] = cells[a] /\ stored[a - ptr + 1] \in Byte
        OBVIOUS
      <4>1. a - ptr + 1 \in 1 .. WordBytes /\ ptr + (a - ptr + 1) = a + 1
        BY <1>3
      <4> QED BY <3>2, <4>1
    <3>6. ram' \in [0 .. size - 1 -> Byte]
      BY <1>3, <3>4, <3>5
    <3>7. ptr + WordBytes \in 0 .. size /\ ~(ptr + WordBytes < h) /\ ptr + WordBytes + 0 + 6 = i + 1
      BY <1>3, <2>1, <2>2, <3>3
    <3>8. \A a \in Int : 0 <= a /\ a < ptr + WordBytes => ram'[a] = cells[a]
      <4> SUFFICES ASSUME NEW a \in Int, 0 <= a, a < ptr + WordBytes PROVE ram'[a] = cells[a]
        OBVIOUS
      <4>1. a \in 0 .. size - 1 /\ (a \in ptr .. (ptr + WordBytes - 1) \/ a < ptr)
        BY <1>3, <3>7
      <4> QED BY <1>3, <1>4, <3>4, <3>5, <4>1
    <3>9. Whole(ptr + WordBytes, h)
      <4>1. PICK q \in Nat : ptr = h + WordBytes * q
        BY <2>1 DEF Whole
      <4>2. ptr + WordBytes = h + WordBytes * (q + 1)
        BY <1>3, <4>1
      <4> QED BY <4>2 DEF Whole
    <3>10. Placed'
      <4>1. << >> \in Seq(Byte) /\ Len(<< >>) = 0 /\ i + 1 > 6
        BY <1>3, <1>9
      <4>2. ~(ptr' < HeadBytes') /\ Whole(ptr', HeadBytes')
        BY <1>2, <3>3, <3>7, <3>9
      <4>3. ptr' \in 0 .. size' /\ word' \in Seq(Byte) /\ Len(word') < WordBytes
        BY <1>1, <1>3, <3>3, <3>7, <4>1
      <4>4. i' > Header + 1 /\ ptr' + Len(word') + Header + 1 = i'
        <5>1. /\ i \in Nat /\ Len(word') = 0 /\ i' = i + 1 /\ ptr' = ptr + WordBytes
              /\ ptr + WordBytes \in Nat
          BY <1>1, <1>3, <3>3, <3>7, <4>1
        <5> QED BY <3>7, <4>1, <5>1 DEF Header
      <4>5. \A a \in Int : 0 <= a /\ a < ptr' => ram'[a] = cells'[a]
        BY <1>1, <3>3, <3>8
      <4>6. \A k \in 1 .. Len(word'), a \in Int : ptr' + k = a + 1 => word'[k] = cells'[a]
        BY <3>3, <4>1
      <4> QED BY <4>2, <4>3, <4>4, <4>5, <4>6 DEF Placed
    <3> QED BY <3>6, <3>10
  <2>5. CASE Len(word) # WordBytes - 1
    <3>1. stored = << >> /\ ~(i < Header + 1 + h)
      BY <1>3, <1>9, <2>5 DEF Header
    <3> HIDE DEF stored
    <3>2. word' = Append(word, b) /\ ptr' = ptr
      BY <1>1, <1>3, <3>1
    <3>3. ram' = ram
      <4>1. \A a \in 0 .. size - 1 : a \notin ptr .. (ptr + Len(stored) - 1)
        BY <1>3, <3>1
      <4> QED BY <1>1, <1>3, <4>1
    <3>4. Placed'
      <4>1. Len(word) + 1 < WordBytes /\ ptr + (Len(word) + 1) + 6 = i + 1 /\ i + 1 > 6
        BY SMTT(30), <1>3, <1>9, <2>1, <2>5
      <4>2. ~(ptr' < HeadBytes') /\ Whole(ptr', HeadBytes')
        BY <1>2, <2>1, <3>2
      <4>3. ptr' \in 0 .. size' /\ word' \in Seq(Byte) /\ Len(word') < WordBytes
        BY <1>1, <1>3, <2>3, <3>2, <4>1
      <4>4. i' > Header + 1 /\ ptr' + Len(word') + Header + 1 = i'
        <5>1. /\ i \in Nat /\ Len(word') = Len(word) + 1 /\ i' = i + 1 /\ ptr' = ptr
              /\ ptr \in Nat /\ Len(word) \in Nat
          BY <1>1, <1>3, <2>3, <3>2
        <5> QED BY <4>1, <5>1 DEF Header
      <4>5. \A a \in Int : 0 <= a /\ a < ptr' => ram'[a] = cells'[a]
        BY <1>1, <1>4, <3>2, <3>3
      <4>6. \A k \in 1 .. Len(word'), a \in Int : ptr' + k = a + 1 => word'[k] = cells'[a]
        BY <1>1, <2>3, <3>2
      <4> QED BY <4>2, <4>3, <4>4, <4>5, <4>6 DEF Placed
    <3> QED BY <1>3, <3>3, <3>4
  <2> QED BY <2>4, <2>5
<1>10. Placed' /\ ram' \in [0 .. size - 1 -> Byte]
  BY <1>3, <1>7, <1>8, <1>9
<1> QED BY <1>1, <1>2, <1>10

LEMMA ReadInv == FlashInv /\ Read => FlashInv'
<1> SUFFICES ASSUME FlashInv, Read PROVE FlashInv'
  OBVIOUS
<1>1. /\ Placed' /\ ram' \in [0 .. size - 1 -> Byte]
      /\ rx # << >> /\ sp = "read" /\ rx' = Tail(rx) /\ tx' = tx + 1 /\ i' = i + 1
      /\ sp' = IF i + 1 = Header + 1 + size THEN "loaded" ELSE "read"
      /\ UNCHANGED <<size, skew, cells, wel, work, cur, end, left, sent, kept>>
      /\ HeadBytes' = HeadBytes /\ Cells' = Cells
  BY ReadPlaces
<1>2. Buffers' /\ ChipReady'
  BY <1>1 DEF FlashInv, Buffers, ChipReady
<1>3. /\ i \in 0 .. size + Header /\ tx \in 0 .. Header /\ sent \in Nat /\ i = sent + tx
      /\ rx \in Seq(Byte) /\ Len(rx) + tx = Header /\ size \in Nat \ {0}
      /\ \A k \in 1 .. Len(rx), a \in Cells : i + k = a + Header + 2 => rx[k] = cells[a]
      /\ HeadBytes \in 0 .. size /\ WordBytes \in Nat \ {0} /\ Header = 5 /\ Cells \subseteq Nat
  BY <1>1, HeadTyped, CellsHoldImage, Positive DEF FlashInv, Fifo, Buffers, Header
<1>4. CASE i + 1 # Header + 1 + size
  <2>1. sp' = "read"
    BY <1>1, <1>4
  <2>2. rx' \in Seq(Byte) /\ Len(rx') + 1 = Len(rx) /\ \A k \in 1 .. Len(rx') : rx'[k] = rx[k + 1]
    BY <1>1, <1>3
  <2>3. \A k \in 1 .. Len(rx'), a \in Cells : i' + k = a + Header + 2 => rx'[k] = cells[a]
    <3> SUFFICES ASSUME NEW k \in 1 .. Len(rx'), NEW a \in Cells, i' + k = a + Header + 2
                 PROVE  rx'[k] = cells[a]
      OBVIOUS
    <3>1. Len(rx) \in Nat /\ Len(rx') \in Nat
      BY <1>3, <2>2
    <3>2. k + 1 \in 1 .. Len(rx) /\ i + (k + 1) = a + Header + 2
      BY <1>1, <1>3, <2>2, <3>1
    <3> QED BY <1>3, <2>2, <3>2
  <2>4. i' \in 0 .. size + Header /\ tx' \in 0 .. Header /\ i' = sent + tx' /\ Len(rx') + tx' = Header
    <3>1. Len(rx) \in Nat /\ Len(rx') \in Nat
      BY <1>3, <2>2
    <3> QED BY <1>1, <1>3, <1>4, <2>2, <3>1
  <2>5. Fifo'
    BY <1>1, <1>3, <2>2, <2>3, <2>4 DEF Fifo
  <2> QED BY <1>1, <1>2, <2>1, <2>5, NoWrite DEF FlashInv, Stored, LoadIsExact
<1>5. CASE i + 1 = Header + 1 + size
  <2>1. sp' = "loaded"
    BY <1>1, <1>5
  <2>2. Loaded'
    <3> DEFINE h == HeadBytes
               p == ptr'
               w == Len(word')
    <3>1. /\ p \in 0 .. size /\ w \in Nat /\ w < WordBytes /\ p + w = size
          /\ IF p < h THEN word' = << >> ELSE Whole(p, h)
          /\ \A a \in Int : 0 <= a /\ a < p => ram'[a] = cells[a]
      <4>1. i' > Header + 1 /\ size' = size /\ i' = Header + 1 + size /\ HeadBytes' = h
        BY <1>1, <1>3, <1>5
      <4>2. /\ p \in 0 .. size /\ word' \in Seq(Byte) /\ w < WordBytes
            /\ p + w + Header + 1 = i'
            /\ IF p < h THEN word' = << >> ELSE Whole(p, h)
        BY <1>1, <4>1 DEF Placed
      <4>3. w \in Nat
        BY <4>2
      <4>4. \A a \in Int : 0 <= a /\ a < p => ram'[a] = cells[a]
        BY <1>1 DEF Placed
      <4> QED BY <1>3, <4>1, <4>2, <4>3, <4>4
    <3>2. ~(p < h)
      BY <1>3, <3>1
    <3>3. PICK q \in Nat : p = h + WordBytes * q
      BY <3>1, <3>2 DEF Whole
    <3> HIDE DEF h, p, w
    <3>4. size - h = WordBytes * q + w /\ w \in 0 .. WordBytes - 1
      <4>1. WordBytes * q \in Nat /\ h \in Nat
        BY <1>3, MulPos DEF h
      <4> QED BY <1>3, <3>1, <3>3, <4>1
    <3>5. (size - h) % WordBytes = w
      <4>1. (WordBytes * q + w) % WordBytes = w
        BY <1>3, <3>3, <3>4, DivMod
      <4> QED BY <3>4, <4>1
    <3>6. size - 1 - w = p - 1
      BY <1>3, <3>1
    <3>7. \A a \in 0 .. (size - 1 - w) : ram'[a] = cells[a]
      BY <1>3, <3>1, <3>6
    <3> QED BY <1>1, <3>5, <3>7 DEF Loaded, h
  <2> QED BY <1>1, <1>2, <2>1, <2>2, NoWrite DEF FlashInv, Stored, Fifo, LoadIsExact
<1> QED BY <1>4, <1>5

-----------------------------------------------------------------------------
(***************************************************************************)
(* The menu.                                                               *)
(***************************************************************************)
\* A step of the driver or the chip leaves main where it is.
LEMMA FlashStepInv == FlashInv /\ (Driver \/ Chip) => FlashInv'
BY WriteEnableInv, EraseSectorInv, ProgramPageInv, PollUpInv, PollDownInv, ReadInv, ChipWorksInv,
   ExchangeInv DEF Driver, Chip

LEMMA FlashFrame == FlashInv /\ UNCHANGED flashVars => FlashInv'
<1> SUFFICES ASSUME FlashInv, UNCHANGED flashVars PROVE FlashInv'
  OBVIOUS
<1>1. UNCHANGED <<size, skew, ram, cells, wel, work, sp, cur, ptr, end, left, i, word, rx, tx, sent, kept>>
  BY DEF flashVars
<1> QED BY <1>1
        DEF FlashInv, Buffers, ChipReady, Written, Erased, Fifo, Stored, Placed, Whole, LoadIsExact,
            Loaded, Cells, HeadBytes, Multiple

\* The memory is overwritten while the driver does nothing.
LEMMA OverwriteInv ==
  ASSUME FlashInv, sp = "idle", OnlyMem,
         NEW at, NEW val \in Names, Overwrite(at, val)
  PROVE  FlashInv'
<1>1. /\ UNCHANGED <<size, skew, cells, wel, work, sp>>
      /\ ram' = [a \in DOMAIN ram |-> IF a \in at THEN <<val, a>> ELSE ram[a]]
  BY DEF OnlyMem, Overwrite, chipVars
<1>2. ram' \in [0 .. size - 1 -> Byte]
  <2>1. ram \in [0 .. size - 1 -> Byte] /\ size \in Nat
    BY DEF FlashInv, Buffers
  <2>2. \A a \in 0 .. size - 1 : <<val, a>> \in Byte
    BY <2>1 DEF Byte
  <2> QED BY <1>1, <2>1, <2>2
<1>3. Buffers' /\ ChipReady'
  BY <1>1, <1>2 DEF FlashInv, Buffers, ChipReady, Cells
<1> QED BY <1>1, <1>3, Resting

LEMMA RunInv ==
  ASSUME FlashInv, sp = "idle", mpc = "menu", NEW c \in Commands, NEW at, Run(c, at)
  PROVE  /\ FlashInv' /\ mpc' \in {"menu", "flash", "supervisor"}
         /\ sp' # "idle" => mpc' = "flash"
<1>1. CASE c.key = "0"
  <2>1. mpc' = "supervisor" /\ UNCHANGED flashVars
    BY <1>1 DEF Run, StartLinux
  <2>2. sp' = sp
    BY <2>1 DEF flashVars
  <2> QED BY <2>1, <2>2, FlashFrame
<1>2. CASE c.key = "1"
  <2>1. PICK n \in 0 .. size : Overwrite({a \in DOMAIN ram : a - at \in 0 .. (n - 1)}, "sent")
    BY <1>2 DEF Run
  <2>2. OnlyMem /\ UNCHANGED mpc
    BY <1>2 DEF Run
  <2>3. sp' = sp
    BY <2>2 DEF OnlyMem
  <2> QED BY <2>1, <2>2, <2>3, OverwriteInv DEF Names
<1>3. CASE c.key = "v"
  <2>1. StartLoad /\ mpc' = "flash"
    BY <1>3 DEF Run
  <2> QED BY <2>1, StartLoadInv
<1>4. CASE c.key = "u"
  <2>1. FlashUpdate
    BY <1>4 DEF Run
  <2>2. CASE StartUpdate /\ mpc' = "flash"
    BY <2>2, StartUpdateInv
  <2>3. CASE UNCHANGED <<flashVars, mpc>>
    <3>1. UNCHANGED flashVars /\ mpc' = mpc /\ sp' = sp
      BY <2>3 DEF flashVars
    <3> QED BY <3>1, FlashFrame
  <2> QED BY <2>1, <2>2, <2>3 DEF FlashUpdate
<1>5. CASE c.key = "m"
  <2>1. Overwrite(at .. (at + LongLen - 1), "typed") /\ OnlyMem /\ UNCHANGED mpc
    BY <1>5 DEF Run
  <2>2. sp' = sp
    BY <2>1 DEF OnlyMem
  <2> QED BY <2>1, <2>2, OverwriteInv DEF Names
<1>6. CASE c.key = "t"
  <2>1. PICK n \in {0, size} : Overwrite(at .. (at + n - 1), "inverted")
    BY <1>6 DEF Run
  <2>2. OnlyMem /\ UNCHANGED mpc
    BY <1>6 DEF Run
  <2>3. sp' = sp
    BY <2>2 DEF OnlyMem
  <2> QED BY <2>1, <2>2, <2>3, OverwriteInv DEF Names
<1>7. CASE c.key \in {"d", " "}
  <2>1. UNCHANGED <<flashVars, mpc>>
    BY <1>7 DEF Run
  <2>2. UNCHANGED flashVars /\ mpc' = mpc /\ sp' = sp
    BY <2>1 DEF flashVars
  <2> QED BY <2>2, FlashFrame
<1>8. c.key \in {"0", "1", "v", "u", "d", "m", "t", " "}
  <2>1. /\ Cmd("0", FALSE, 0).key = "0" /\ Cmd("1", TRUE, 0).key = "1"
        /\ Cmd("v", FALSE, 0).key = "v" /\ Cmd("u", FALSE, 0).key = "u"
        /\ Cmd("d", TRUE, DumpLen).key = "d" /\ Cmd("m", TRUE, LongLen).key = "m"
        /\ Cmd("t", TRUE, 0).key = "t" /\ Cmd(" ", FALSE, 0).key = " "
    BY DEF Cmd
  <2>2. \/ c = Cmd("0", FALSE, 0) \/ c = Cmd("1", TRUE, 0) \/ c = Cmd("v", FALSE, 0)
        \/ c = Cmd("u", FALSE, 0) \/ c = Cmd("d", TRUE, DumpLen)
        \/ c = Cmd("m", TRUE, LongLen) \/ c = Cmd("t", TRUE, 0) \/ c = Cmd(" ", FALSE, 0)
    BY Zenon DEF Commands
  <2> QED BY <2>1, <2>2, Zenon
<1> QED BY <1>1, <1>2, <1>3, <1>4, <1>5, <1>6, <1>7, <1>8

LEMMA MenuInitInv == MenuInit => FlashInv /\ MainInv
<1> SUFFICES ASSUME MenuInit PROVE FlashInv /\ MainInv
  OBVIOUS
<1>1. FlashInv
  BY FlashInitInv DEF MenuInit
<1>2. MainInv
  BY DEF MenuInit, FlashInit, MainInv
<1> QED BY <1>1, <1>2

\* A key of the user: a command, the last one again, or nothing.
LEMMA KeyStepInv ==
  ASSUME FlashInv, MainInv, (\E c \in Commands : Command(c)) \/ Enter \/ UnknownKey
  PROVE  FlashInv' /\ MainInv'
<1>1. /\ mpc = "menu" /\ sp = "idle" /\ keys \in Nat /\ keys' = keys + 1
      /\ UNCHANGED <<autoEnable, skipped, autoBoots, restarts>>
  BY DEF MainInv, Command, Enter, UnknownKey, Key
<1>2. prevCmd' \in Commands \cup {NoCmd}
  BY DEF MainInv, Command, Enter, UnknownKey
<1>3. /\ FlashInv' /\ mpc' \in {"menu", "flash", "supervisor"}
      /\ sp' # "idle" => mpc' = "flash"
  <2>1. CASE \E c \in Commands : Command(c)
    <3>1. PICK c \in Commands : \E at : Run(c, at)
      BY <2>1 DEF Command
    <3> QED BY <1>1, <3>1, RunInv
  <2>2. ASSUME UNCHANGED <<flashVars, mpc>>
        PROVE  /\ FlashInv' /\ mpc' \in {"menu", "flash", "supervisor"}
               /\ sp' # "idle" => mpc' = "flash"
    <3>1. UNCHANGED flashVars /\ mpc' = mpc /\ sp' = sp
      BY <2>2 DEF flashVars
    <3> QED BY <1>1, <3>1, FlashFrame
  <2>3. CASE Enter
    <3>1. CASE prevCmd.step > 0
      <4>1. prevCmd \in Commands
        BY <3>1 DEF MainInv, NoCmd, Cmd
      <4>2. Run(prevCmd, prevAddr')
        BY <2>3, <3>1 DEF Enter
      <4> QED BY <1>1, <4>1, <4>2, RunInv
    <3>2. CASE ~(prevCmd.step > 0)
      BY <2>2, <2>3, <3>2 DEF Enter
    <3> QED BY <3>1, <3>2
  <2>4. CASE UnknownKey
    BY <2>2, <2>4 DEF UnknownKey
  <2> QED BY <2>1, <2>3, <2>4
<1>4. MainInv'
  BY <1>1, <1>2, <1>3 DEF MainInv
<1> QED BY <1>3, <1>4

LEMMA MenuStepInv ==
  ASSUME FlashInv, MainInv, MainStart \/ Skip \/ TimeOut \/ FlashReturns \/ Shutdown
  PROVE  FlashInv' /\ MainInv'
<1>1. CASE MainStart \/ Skip \/ Shutdown
  <2>1. UNCHANGED flashVars
    BY <1>1 DEF MainStart, Skip, Shutdown
  <2>2. sp' = sp /\ sp = "idle"
    BY <1>1, <2>1 DEF flashVars, MainInv, MainStart, Skip, Shutdown
  <2>3. FlashInv'
    BY <2>1, FlashFrame
  <2>4. NoCmd \in Commands \cup {NoCmd}
    OBVIOUS
  <2>5. CASE MainStart
    BY <2>2, <2>3, <2>4, <2>5 DEF MainStart, MainInv
  <2>6. CASE Skip
    BY <2>2, <2>3, <2>6 DEF Skip, MainInv
  <2>7. CASE Shutdown
    BY <2>2, <2>3, <2>7 DEF Shutdown, MainInv
  <2> QED BY <1>1, <2>5, <2>6, <2>7
<1>2. CASE TimeOut
  <2>1. /\ StartLoad /\ mpc = "countdown" /\ mpc' = "autoload" /\ sp' = "read"
        /\ UNCHANGED <<autoEnable, prevCmd, skipped, autoBoots, restarts, keys>>
    BY <1>2 DEF TimeOut, StartLoad
  <2> QED BY <2>1, StartLoadInv DEF MainInv
<1>3. CASE FlashReturns
  <2>1. /\ sp \in {"loaded", "updated"} /\ sp' = "idle"
        /\ UNCHANGED <<size, skew, ram, cells, wel, work, autoEnable, prevCmd, skipped, restarts, keys>>
        /\ \/ mpc = "autoload" /\ mpc' = "supervisor" /\ autoBoots' = autoBoots + 1
           \/ mpc # "autoload" /\ mpc' = "menu" /\ autoBoots' = autoBoots
    BY <1>3 DEF FlashReturns, chipVars
  <2>2. Buffers' /\ ChipReady'
    BY <2>1 DEF FlashInv, Buffers, ChipReady, Cells
  <2>3. FlashInv'
    BY <2>1, <2>2, Resting
  <2>4. mpc = "autoload" => Loaded'
    BY <2>1 DEF FlashInv, MainInv, LoadIsExact, Loaded, HeadBytes
  <2>5. MainInv'
    BY <2>1, <2>4 DEF MainInv
  <2> QED BY <2>3, <2>5
<1> QED BY <1>1, <1>2, <1>3

LEMMA DriverStepInv ==
  ASSUME FlashInv, MainInv, Driver \/ Chip, UNCHANGED menuVars
  PROVE  FlashInv' /\ MainInv'
<1>1. FlashInv'
  BY FlashStepInv
<1>2. UNCHANGED <<mpc, autoEnable, prevCmd, skipped, autoBoots, restarts, keys>>
  BY DEF menuVars
<1>3. CASE Chip
  <2>1. UNCHANGED <<size, skew, ram, cells, sp>>
    BY <1>3 DEF Chip, ChipStarts, ChipFinishes, Exchange
  <2>2. Loaded' <=> Loaded
    BY <2>1 DEF Loaded, HeadBytes
  <2> QED BY <1>1, <1>2, <2>1, <2>2 DEF MainInv
<1>4. CASE Driver
  <2>1. sp # "idle"
    BY <1>4 DEF Driver, WriteEnable, EraseSector, ProgramPage, PollUp, PollDown, Read
  <2>2. sp \in {"read", "loaded"} => sp' \in {"read", "loaded"}
    BY <1>4, ReadPlaces
       DEF Driver, WriteEnable, EraseSector, ProgramPage, PollUp, PollDown
  <2> QED BY <1>1, <1>2, <2>1, <2>2 DEF MainInv
<1> QED BY <1>3, <1>4

LEMMA MenuInvariance == MenuSpec => [](FlashInv /\ MainInv)
<1>1. FlashInv /\ MainInv /\ [MenuNext]_<<flashVars, menuVars>> => (FlashInv /\ MainInv)'
  <2> SUFFICES ASSUME FlashInv, MainInv, [MenuNext]_<<flashVars, menuVars>>
               PROVE  FlashInv' /\ MainInv'
    OBVIOUS
  <2>1. CASE Menu
    BY <2>1, KeyStepInv, MenuStepInv DEF Menu
  <2>2. CASE (Driver \/ Chip) /\ UNCHANGED menuVars
    BY <2>2, DriverStepInv
  <2>3. CASE UNCHANGED <<flashVars, menuVars>>
    <3>1. FlashInv'
      BY <2>3, FlashFrame
    <3>2. /\ UNCHANGED <<mpc, autoEnable, prevCmd, skipped, autoBoots, restarts, keys>>
          /\ UNCHANGED <<size, skew, ram, cells, sp>>
      BY <2>3 DEF menuVars, flashVars
    <3>3. Loaded' <=> Loaded
      BY <3>2 DEF Loaded, HeadBytes
    <3> QED BY <3>1, <3>2, <3>3 DEF MainInv
  <2> QED BY <2>1, <2>2, <2>3 DEF MenuNext
<1> QED BY MenuInitInv, <1>1, PTL DEF MenuSpec

(***************************************************************************)
(* A completed update leaves the image in the flash, for every size of     *)
(* image, page and sector, whether the chip is done before it is first     *)
(* asked or not, provided that it has started an erase or a page by the    *)
(* second poll after it (xqspi.c:489-602).                                 *)
(***************************************************************************)
THEOREM UpdatesAreExact == MenuSpec => []UpdateIsExact
<1>1. FlashInv => UpdateIsExact
  <2> SUFFICES ASSUME FlashInv, sp = "updated", NEW a \in DOMAIN kept PROVE cells[a] = kept[a]
    BY DEF UpdateIsExact
  <2>1. kept = ram /\ ptr = size /\ \A k \in 0 .. ptr - 1 : cells[k] = ram[k]
    BY DEF FlashInv, Written, Paging
  <2>2. DOMAIN kept = 0 .. size - 1
    BY <2>1 DEF FlashInv, Buffers
  <2> QED BY <2>1, <2>2
<1> QED BY <1>1, MenuInvariance, PTL

(***************************************************************************)
(* A completed load has every byte of the flash image in its place, but    *)
(* for those after the last whole word (xqspi.c:387-399).                  *)
(***************************************************************************)
THEOREM LoadsAreExact == MenuSpec => []LoadIsExact
<1>1. FlashInv => LoadIsExact
  BY DEF FlashInv
<1> QED BY <1>1, MenuInvariance, PTL

(***************************************************************************)
(* Autostart starts a supervisor at most once after power on, never after  *)
(* SPACE was pressed, and the one it starts finds the image of the flash   *)
(* in memory (fsbl.c:800-806).                                             *)
(***************************************************************************)
THEOREM AutostartsOnce == MenuSpec => []AutostartOnce
<1>1. MainInv => AutostartOnce
  BY DEF MainInv, AutostartOnce
<1> QED BY <1>1, MenuInvariance, PTL

-----------------------------------------------------------------------------
(***************************************************************************)
(* The interrupt controllers.  The loops over their registers leave no bit *)
(* of what an earlier boot has set; nothing but an IPI is enabled after.   *)
(***************************************************************************)
\* The platform's window is aligned to what the harts' numbers take of it, and
\* those numbers have room in their field.
WindowsFit ==
  \A w \in Windows : \A l \in {"m", "s"} :
    /\ w[l].ppn \in Nat /\ BasePpn(w[l]) = w[l].ppn
    /\ \A g \in AiaHarts : g % 2^w[l].lhxw = g

AplicPcs == {"domain", "clrie", "sources", "delegate", "msi"}
Closing  == AplicPcs \cup {"disable"}
Closed   == {"clear", "threshold", "deliver", "enable"}

AiaTypes ==
  /\ delegate \in Delegations /\ window \in Windows
  /\ ie \in SUBSET Sources
  /\ msi \in [{"m", "s"} -> [locked : BOOLEAN, ppn : Nat]]
  /\ eie \in [AiaHarts -> SUBSET Ids]
  /\ delivery \in [AiaHarts -> BOOLEAN] /\ below \in [AiaHarts -> BOOLEAN]
  /\ id \in [AiaHarts -> Nat \ {0}]
  /\ apc \in [AiaHarts -> Closing \cup Closed \cup {"ready"}]

\* Of a hart's interrupts those below the loop variable are disabled.
ImsicDone ==
  \A h \in AiaHarts :
    /\ apc[h] \in Closing => id[h] <= NumIds /\ \A n \in eie[h] : n >= id[h]
    /\ apc[h] \in Closed => eie[h] = {}
    /\ apc[h] = "ready" => eie[h] = {IpiId}
    /\ apc[h] \in {"deliver", "enable", "ready"} => below[h]
    /\ apc[h] \in {"enable", "ready"} => delivery[h]

\* What aplic_init has done by the place it is at.
AplicDone ==
  /\ apc[0] \notin {"domain", "clrie"} => ie = {}
  /\ apc[0] \notin {"domain", "clrie", "sources"} => \A s \in Sources : target[s] = 1
  /\ apc[0] = "delegate" => cfg = [s \in Sources |-> Own]
  /\ apc[0] \notin AplicPcs \ {"msi"} => \A s \in Sources : cfg[s] = Domain(s)
  /\ apc[0] \notin AplicPcs => \A l \in {"m", "s"} : msi[l].locked \/ msi[l].ppn = window[l].ppn

AiaInv == AiaTypes /\ ImsicDone /\ AplicDone

\* The interrupts of a register from a on are a .. k for some k.
LEMMA WordIsInterval ==
  ASSUME NEW a \in Nat \ {0}, NEW last \in Nat, a <= last, NEW m \in Nat \ {0}
  PROVE  \E k \in a .. last : {n \in a .. last : n \div m = a \div m} = a .. k
<1> DEFINE q == a \div m
           top == m * q + (m - 1)
<1>1. q \in Nat /\ m * q \in Nat /\ m * q <= a /\ a <= top
  <2>1. q \in Nat /\ a % m \in 0 .. m - 1 /\ a = m * q + (a % m)
    BY ModFacts
  <2>2. m * q \in Nat
    BY <2>1, MulPos
  <2> HIDE DEF q
  <2> QED BY <2>1, <2>2
<1>2. ASSUME NEW n \in a .. last PROVE n \div m = q <=> n <= top
  <2>1. CASE n <= top
    <3>1. n - m * q \in 0 .. m - 1
      BY <1>1, <2>1
    <3>2. (m * q + (n - m * q)) \div m = q
      BY <1>1, <3>1, DivMod
    <3>3. m * q + (n - m * q) = n
      BY <1>1
    <3> QED BY <2>1, <3>2, <3>3
  <2>2. CASE n \div m = q
    <3> DEFINE b == m * q
               r == n % m
    <3>0. n \in Nat /\ r \in 0 .. m - 1 /\ n = m * (n \div m) + r
      BY ModFacts
    <3>1. r \in 0 .. m - 1 /\ n = b + r /\ b \in Nat /\ top = b + (m - 1)
      BY <1>1, <2>2, <3>0
    <3> HIDE DEF b, r, top
    <3>2. n <= top
      BY <3>1
    <3> QED BY <2>2, <3>2
  <2> QED BY <2>1, <2>2
<1>5. top \in Int
  BY <1>1 DEF top
<1> HIDE DEF q, top
<1>3. CASE last <= top
  <2>1. {n \in a .. last : n \div m = q} = a .. last
    BY <1>2, <1>3, <1>5
  <2> QED BY <2>1 DEF q
<1>4. CASE top < last
  <2>1. top \in a .. last
    BY <1>1, <1>4, <1>5
  <2>2. {n \in a .. last : n \div m = q} = a .. top
    BY <1>2, <2>1
  <2> QED BY <2>1, <2>2 DEF q
<1> QED BY <1>3, <1>4, <1>5

LEMMA AiaStart == AiaInit => AiaInv
<1> SUFFICES ASSUME AiaInit PROVE AiaInv
  OBVIOUS
<1> USE AiaAssumption DEF AiaInit, AplicPcs, Closing, Closed
<1>1. AiaTypes
  BY DEF AiaTypes
<1>2. ImsicDone
  BY DEF ImsicDone, Ids
<1>3. AplicDone
  BY DEF AplicDone
<1> QED BY <1>1, <1>2, <1>3 DEF AiaInv

\* One register of disabled interrupts.
LEMMA DisableIdsInv == ASSUME AiaInv, NEW h \in AiaHarts, DisableIds(h) PROVE AiaInv'
<1> USE DEF AiaInv
<1>1. /\ id[h] \in Nat \ {0} /\ id[h] <= NumIds /\ NumIds \in Nat
      /\ apc[h] = "disable" /\ eie[h] \in SUBSET (1 .. NumIds)
      /\ \A n \in eie[h] : n >= id[h]
  BY AiaAssumption DEF DisableIds, AiaTypes, ImsicDone, Closing, Ids
<1>2. PICK k \in id[h] .. NumIds : Word(h, NumIds) = id[h] .. k
  BY <1>1, AiaAssumption, WordIsInterval DEF Word
<1>3. Cardinality(Word(h, NumIds)) = k - id[h] + 1
  <2>1. id[h] \in Int /\ k \in Int /\ ~(id[h] > k)
    BY <1>1, <1>2
  <2>2. Cardinality(id[h] .. k) = k - id[h] + 1
    BY <2>1, FS_Interval, Zenon
  <2> QED BY <1>2, <2>2
<1>4. id[h] + Cardinality(Word(h, NumIds)) = k + 1 /\ k + 1 \in Nat \ {0}
  BY <1>1, <1>3
<1>5. /\ id' = [id EXCEPT ![h] = k + 1]
      /\ eie' = [eie EXCEPT ![h] = eie[h] \ (id[h] .. k)]
      /\ IF k + 1 > NumIds THEN apc' = [apc EXCEPT ![h] = "clear"] ELSE apc' = apc
      /\ UNCHANGED <<delegate, window, msiMode, ie, cfg, target, msi, delivery, below>>
  BY <1>2, <1>4 DEF DisableIds, Goto, ImsicStep, aplicVars, AiaTypes
<1>6. AiaTypes'
  BY <1>4, <1>5 DEF AiaTypes, Closing, Closed
<1>7. \A n \in eie'[h] : n \in 1 .. NumIds /\ n >= k + 1
  BY <1>1, <1>2, <1>5 DEF AiaTypes
<1>8. ImsicDone'
  <2> SUFFICES ASSUME NEW g \in AiaHarts PROVE ImsicDone!(g)'
    BY DEF ImsicDone
  <2>1. CASE g # h
    BY <1>5, <2>1 DEF ImsicDone, AiaTypes
  <2>2. CASE g = h /\ k + 1 > NumIds
    <3>1. apc'[h] = "clear" /\ eie'[h] = {}
      BY <1>1, <1>5, <1>7, <2>2 DEF AiaTypes
    <3> QED BY <2>2, <3>1 DEF ImsicDone, Closing, AplicPcs, Closed
  <2>3. CASE g = h /\ ~(k + 1 > NumIds)
    <3>1. apc'[h] = "disable" /\ id'[h] = k + 1 /\ k + 1 <= NumIds
      BY <1>1, <1>2, <1>5, <2>3 DEF AiaTypes
    <3> QED BY <1>7, <2>3, <3>1 DEF ImsicDone, Closing, AplicPcs, Closed
  <2> QED BY <2>1, <2>2, <2>3
<1>9. AplicDone'
  <2>1. apc'[0] = apc[0] \/ (apc[0] = "disable" /\ apc'[0] = "clear")
    BY <1>1, <1>5, AiaAssumption DEF AiaTypes
  <2>2. \A s \in Sources : Domain(s)' = Domain(s)
    BY <1>5 DEF Domain
  <2> QED BY <1>5, <2>1, <2>2 DEF AplicDone, AplicPcs
<1> QED BY <1>6, <1>8, <1>9

\* The other steps of a hart's own set-up.
LEMMA ImsicInv == ASSUME AiaInv, NEW h \in AiaHarts, Imsic(h) PROVE AiaInv'
<1> USE DEF AiaInv, Goto, ImsicStep, aplicVars
<1>1. ASSUME NEW from \in Closed, NEW to \in Closed \cup {"ready"},
             apc[h] = from, apc' = [apc EXCEPT ![h] = to],
             UNCHANGED <<delegate, window, ie, cfg, target, msi>>
      PROVE  AplicDone'
  BY <1>1 DEF AplicDone, AplicPcs, Closed, AiaTypes, Domain
<1>2. CASE ClearIpi(h)
  BY <1>1, <1>2 DEF ClearIpi, AiaTypes, ImsicDone, Closing, AplicPcs, Closed
<1>3. CASE SetThreshold(h)
  BY <1>1, <1>3 DEF SetThreshold, AiaTypes, ImsicDone, Closing, AplicPcs, Closed
<1>4. CASE SetDelivery(h)
  BY <1>1, <1>4 DEF SetDelivery, AiaTypes, ImsicDone, Closing, AplicPcs, Closed
<1>5. CASE EnableIpi(h)
  <2>1. /\ apc[h] = "enable" /\ apc' = [apc EXCEPT ![h] = "ready"]
        /\ eie[h] = {} /\ eie' = [eie EXCEPT ![h] = eie[h] \cup {IpiId}]
        /\ UNCHANGED <<delegate, window, ie, cfg, target, msi, delivery, below, id>>
    BY <1>5 DEF EnableIpi, ImsicDone, Closed, AiaTypes
  <2>2. IpiId \in Ids
    BY AiaAssumption DEF IpiId, Ids
  <2>3. AiaTypes'
    BY <2>1, <2>2 DEF AiaTypes
  <2>4. ImsicDone'
    BY <2>1 DEF ImsicDone, AiaTypes, Closing, AplicPcs, Closed
  <2> QED BY <1>1, <2>1, <2>3, <2>4 DEF Closed
<1> QED BY <1>2, <1>3, <1>4, <1>5, DisableIdsInv DEF Imsic

\* The master's steps before its own set-up.
LEMMA AplicInv == ASSUME WindowsFit, AiaInv, Aplic PROVE AiaInv'
<1> USE DEF AiaInv
<1>1. 0 \in AiaHarts
  BY AiaAssumption
<1>2. ASSUME NEW from \in AplicPcs, NEW to \in Closing, AplicStep(from, to)
      PROVE  /\ ImsicDone'
             /\ apc[0] = from /\ apc'[0] = to
             /\ UNCHANGED <<delegate, window, eie, delivery, below, id>>
             /\ apc' \in [AiaHarts -> Closing \cup Closed \cup {"ready"}]
  <2>1. /\ apc[0] = from /\ apc' = [apc EXCEPT ![0] = to]
        /\ UNCHANGED <<delegate, window, eie, delivery, below, id>>
    BY <1>2 DEF AplicStep, Goto, imsicVars
  <2>2. ImsicDone'
    BY <1>1, <2>1 DEF ImsicDone, AiaTypes, Closing, AplicPcs, Closed
  <2> QED BY <1>1, <2>1, <2>2 DEF AiaTypes
<1>3. CASE SetDomain
  <2>1. apc[0] = "domain" /\ apc'[0] = "clrie"
    BY <1>2, <1>3 DEF SetDomain, AplicPcs, Closing
  <2> QED BY <1>2, <1>3, <2>1 DEF SetDomain, AiaTypes, AplicDone, AplicPcs, Closing
<1>4. CASE DisableSources
  <2>1. ie' = {}
    <3>1. \A s \in Sources : s \in 0 .. NumSources /\ s \div WordBits = s \div WordBits
      BY AiaAssumption DEF Sources
    <3>2. ie' = {s \in ie : \A j \in 0 .. NumSources : j \div WordBits # s \div WordBits}
      BY <1>4 DEF DisableSources
    <3> QED BY <3>1, <3>2 DEF AiaTypes
  <2>2. apc[0] = "clrie" /\ apc'[0] = "sources"
    BY <1>2, <1>4 DEF DisableSources, AplicPcs, Closing
  <2> QED BY <1>2, <1>4, <2>1, <2>2 DEF DisableSources, AiaTypes, AplicDone, AplicPcs, Closing
<1>5. CASE ResetSources
  <2>1. apc[0] = "sources" /\ apc'[0] = "delegate"
    BY <1>2, <1>5 DEF ResetSources, AplicPcs, Closing
  <2> QED BY <1>2, <1>5, <2>1 DEF ResetSources, AiaTypes, AplicDone, AplicPcs, Closing
<1>6. CASE Delegate
  <2>1. apc[0] = "delegate" /\ apc'[0] = "msi" /\ delegate' = delegate
    BY <1>2, <1>6 DEF Delegate, AplicPcs, Closing
  <2>2. cfg = [s \in Sources |-> Own]
    BY <2>1 DEF AplicDone
  <2>3. ASSUME NEW s \in Sources PROVE cfg'[s] = Domain(s)
    <3> DEFINE on(k) == Counts(delegate[k]) /\ Covers(delegate[k], s)
    <3>1. cfg'[s] = IF on(2) THEN delegate[2].child ELSE IF on(1) THEN delegate[1].child ELSE Own
      BY <1>6, <2>2 DEF Delegate, Delegated
    <3> DEFINE all == {k \in 1 .. 2 : on(k)}
    <3>2. /\ 2 \in all <=> on(2)
          /\ all = {} <=> ~on(1) /\ ~on(2)
      OBVIOUS
    <3>3. Domain(s) = IF all = {} THEN Own ELSE delegate[IF 2 \in all THEN 2 ELSE 1].child
      BY DEF Domain
    <3> QED BY <3>1, <3>2, <3>3
  <2>4. \A s \in Sources : cfg'[s] = Domain(s)'
    BY <2>1, <2>3 DEF Domain
  <2> QED BY <1>2, <1>6, <2>1, <2>4 DEF Delegate, AiaTypes, AplicDone, AplicPcs, Closing
<1>7. CASE WriteMsiConfig
  <2>1. apc[0] = "msi" /\ apc'[0] = "disable" /\ UNCHANGED <<delegate, window>>
    BY <1>2, <1>7 DEF WriteMsiConfig, AplicPcs, Closing
  <2>2. \A l \in {"m", "s"} : BasePpn(window[l]) = window[l].ppn /\ window[l].ppn \in Nat
    BY DEF WindowsFit, AiaTypes
  <2>3. msi' = [l \in {"m", "s"} |->
                  IF msi[l].locked THEN msi[l] ELSE [msi[l] EXCEPT !.ppn = window[l].ppn]]
    BY <1>7, <2>2 DEF WriteMsiConfig
  <2>4. msi' \in [{"m", "s"} -> [locked : BOOLEAN, ppn : Nat]]
    BY <2>2, <2>3 DEF AiaTypes
  <2>5. \A l \in {"m", "s"} : msi'[l].locked \/ msi'[l].ppn = window[l].ppn
    BY <2>3 DEF AiaTypes
  <2>6. UNCHANGED <<ie, cfg, target>>
    BY <1>7 DEF WriteMsiConfig
  <2>7. AplicDone'
    BY <2>1, <2>5, <2>6 DEF AplicDone, AplicPcs, Domain
  <2> QED BY <1>2, <1>7, <2>4, <2>6, <2>7 DEF WriteMsiConfig, AiaTypes, AplicPcs, Closing
<1> QED BY <1>3, <1>4, <1>5, <1>6, <1>7 DEF Aplic

LEMMA AiaStep == ASSUME WindowsFit, AiaInv, [AiaNext]_aiaVars PROVE AiaInv'
<1>1. ASSUME UNCHANGED <<delegate, window, ie, cfg, target, msi, eie, delivery, below, id, apc>>
      PROVE  AiaInv'
  BY <1>1 DEF AiaInv, AiaTypes, ImsicDone, AplicDone, Domain
<1>2. ASSUME NEW h \in AiaHarts, MsgArrives(h) PROVE AiaInv'
  BY <1>1, <1>2 DEF MsgArrives, aplicVars
<1>3. CASE UNCHANGED aiaVars
  BY <1>1, <1>3 DEF aiaVars
<1> QED BY <1>2, <1>3, AplicInv, ImsicInv DEF AiaNext

\* When a hart has set up its interrupt controller it takes IPIs of the firmware
\* and nothing else, and on the master the sources are closed and sent where the
\* table and the window say, whatever an earlier boot has left in the registers
\* and whenever messages arrive (aplic_init, imsic_init).  For any number of
\* interrupts, any width of a register, any harts and any table.
THEOREM InterruptsAreClosed == ASSUME WindowsFit PROVE AiaSpec => []OnlyIpiArrives
<1>1. ASSUME AiaInv PROVE OnlyIpiArrives
  <2> USE DEF AiaInv
  <2>1. \A h \in AiaHarts :
          /\ apc[h] \in Closed => eie[h] = {}
          /\ apc[h] = "ready" => eie[h] = {IpiId} /\ delivery[h] /\ below[h]
    BY <1>1 DEF ImsicDone
  <2>2. ASSUME apc[0] = "ready"
        PROVE  /\ ie = {} /\ \A s \in Sources : cfg[s] = Domain(s) /\ target[s] = 1
               /\ \A l \in {"m", "s"} : ~msi[l].locked => msi[l].ppn = window[l].ppn
    BY <1>1, <2>2 DEF AplicDone, AplicPcs
  <2>3. \A l \in {"m", "s"}, g \in AiaHarts : g % 2^window[l].lhxw = g
    BY <1>1 DEF WindowsFit, AiaTypes
  <2>4. ASSUME NEW l \in {"m", "s"}, NEW g \in AiaHarts, msi[l].ppn = window[l].ppn
        PROVE  Page(l, g) = window[l].ppn + g * 2^window[l].lhxs
    BY <2>3, <2>4 DEF Page
  <2> QED BY <2>1, <2>2, <2>4 DEF OnlyIpiArrives, Closed
<1>2. WindowsFit /\ AiaInv /\ [AiaNext]_aiaVars => AiaInv'
  BY AiaStep
<1> QED BY <1>1, <1>2, AiaStart, PTL DEF AiaSpec

-----------------------------------------------------------------------------
(***************************************************************************)
(* The device tree.  The hypothesis is that a build's numbers fit where    *)
(* they go: into the cells of its tree, into memory and into the divider.  *)
(***************************************************************************)
HeldBy(n, x) == x \in Nat /\ (n = 1 => x < CellValues) /\ (n = 2 => x < CellValues * CellValues)
RegionCells(n, c) == c \in [1 .. 2 * n + 1 -> Nat]
RegionBase(p, r) ==
  CASE r = "mem" -> p.base [] r = "mem1" -> p.base1
    [] OTHER -> IF p.cmem = 0 THEN 0 ELSE p.base + (p.size - p.cmem)
RegionSize(p, r) ==
  CASE r = "mem" -> p.size - p.cmem [] r = "mem1" -> p.size1 [] OTHER -> p.cmem
SysOf(p) == IF p.sysreg THEN p.sys ELSE p.cpu
TimerOf(p, h) ==
  IF h.v1 THEN IF h.ext # 0 THEN h.ext ELSE h.cluster
  ELSE IF p.external THEN SysOf(p) \div 4
       ELSE IF p.cluster.readable THEN p.cluster.clk ELSE SysOf(p)
MemoryFits(p) ==
  /\ \A r \in Regions :
       /\ p.cells[r] \in {0, 1, 2}
       /\ HeldBy(p.cells[r], RegionBase(p, r)) /\ HeldBy(p.cells[r], RegionSize(p, r))
  /\ p.size \in Nat /\ p.cmem \in Nat /\ p.virt \in Nat
  /\ TreeRoom <= p.size - p.cmem /\ TreeRoom <= p.virt
HartsFit(p) ==
  /\ \A k \in DOMAIN p.harts :
       /\ p.harts[k].l1 \in 0 .. CellValues - 1
       /\ p.harts[k].active /\ <<"l1", p.harts[k].slot>> \in p.labels => p.harts[k].slot < Len(p.harts)
  /\ \A k, j \in DOMAIN p.harts : p.harts[k].slot = p.harts[j].slot => k = j
  /\ p.cpu \in 0 .. CellValues - 1
HeaderFits(h) ==
  /\ DOMAIN h.harts \subseteq Nat
  /\ \A n \in DOMAIN h.harts : h.harts[n].clk \in 0 .. CellValues - 1
TreeFits ==
  \A p \in Platforms, h \in Headers :
    /\ MemoryFits(p) /\ HartsFit(p) /\ HeaderFits(h)
    /\ p.mtimer => TimerOf(p, h) \in Timebase .. CellValues - 1

\* What each part of init_dtb leaves in the tree.
CpuLabel(k) == <<"cpu", plf.harts[k].slot>>
CacheLabel(k) == <<"l1", plf.harts[k].slot>>
Clocked(k) == header.v1 => Listed(plf.harts[k].id) # {}
ClockOf(k) == IF header.v1 THEN HartListed(plf.harts[k].id) ELSE plf.cpu
ClocksTold(w) ==
  /\ <<"timebase", 0>> \in plf.labels =>
       w[<<"timebase", 0>>] = IF plf.mtimer THEN Timebase ELSE 0
  /\ <<"mtimer", 0>> \in plf.labels =>
       w[<<"mtimer", 0>>] = IF plf.mtimer THEN TimerOf(plf, header) ELSE 0
RegionsTold(g) ==
  \A r \in Regions : ~(plf.cells[r] = 0 \/ (r = "mem1" /\ plf.size1 = 0)) =>
    /\ Joined(SubSeq(g[r], 1, plf.cells[r])) = RegionBase(plf, r)
    /\ Joined(SubSeq(g[r], plf.cells[r] + 1, 2 * plf.cells[r])) = RegionSize(plf, r)
CpusTold(w) ==
  \A k \in DOMAIN plf.harts : CpuLabel(k) \in plf.labels /\ Clocked(k) => w[CpuLabel(k)] = ClockOf(k)
CachesTold(w) ==
  \A k \in DOMAIN plf.harts :
    CacheLabel(k) \in plf.labels /\ plf.harts[k].active => w[CacheLabel(k)] = plf.harts[k].l1
\* What no part of it touches.
LeftAlone(w) ==
  \A k \in DOMAIN plf.harts :
    /\ CpuLabel(k) \in plf.labels /\ ~Clocked(k) => w[CpuLabel(k)] = 0
    /\ CacheLabel(k) \in plf.labels /\ ~plf.harts[k].active => w[CacheLabel(k)] = 0

TreeTypes ==
  /\ plf \in Platforms /\ header \in Headers
  /\ tree = [word |-> tree.word, reg |-> tree.reg]
  /\ tree.word = [l \in plf.labels |-> tree.word[l]]
  /\ tree.reg = [r \in Regions |-> tree.reg[r]]
  /\ \A r \in Regions : /\ RegionCells(plf.cells[r], tree.reg[r])
                         /\ tree.reg[r][2 * plf.cells[r] + 1] = 0
  /\ tpc \in {"start", "clocks", "memory", "devs", "cpus", "caches", "copy", "timer", "kernel"}
  /\ tpc # "start" => getters = IF header.v1 THEN "v1" ELSE "fallback"
TreeInv ==
  /\ TreeTypes
  /\ LeftAlone(tree.word)
  /\ tpc \notin {"start", "clocks"} => ClocksTold(tree.word)
  /\ tpc \notin {"start", "clocks", "memory"} => RegionsTold(tree.reg)
  /\ tpc \in {"caches", "copy", "timer", "kernel"} => CpusTold(tree.word)
  /\ tpc \in {"copy", "timer", "kernel"} => CachesTold(tree.word)
  /\ tpc \in {"timer", "kernel"} =>
       copy = [at |-> plf.base + CopyOffs, word |-> tree.word, reg |-> tree.reg]
  /\ ~plf.mtimer => rtc.src = "off"
  /\ tpc = "kernel" /\ plf.mtimer =>
       rtc = [div |-> (TimerOf(plf, header) \div Timebase - 1) % CellValues, src |-> MtimerClk.src]

LEMMA CellSeq ==
  ASSUME NEW n \in Nat, NEW c, c \in [1 .. n -> Nat] PROVE c \in Seq(Nat) /\ Len(c) = n
OBVIOUS

\* What dtb_size writes into the cells of a region is what they say, and the value
\* beside the region stays.
LEMMA CellsSay ==
  ASSUME NEW n \in {1, 2}, NEW c, RegionCells(n, c), NEW x, HeldBy(n, x), NEW y, HeldBy(n, y),
         NEW g, g = SetRegion(c, 4 * n, x, y)
  PROVE  /\ RegionCells(n, g) /\ g[2 * n + 1] = c[2 * n + 1]
         /\ Joined(SubSeq(g, 1, n)) = x /\ Joined(SubSeq(g, n + 1, 2 * n)) = y
<1> DEFINE m == CellValues
<1>1. m \in Nat \ {0} /\ x \in Nat /\ y \in Nat
  BY TreeAssumption DEF HeldBy
<1>2. \A a \in Nat : a \div m \in Nat /\ a % m \in 0 .. m - 1 /\ a = m * (a \div m) + (a % m)
  BY <1>1, ModFacts
<1>3. \A a \in 0 .. m - 1 : a % m = a
  BY <1>1, ModSmall
<1> USE DEF RegionCells
<1>4. CASE n = 1
  <2>1. x % m = x /\ y % m = y
    BY <1>1, <1>3, <1>4 DEF HeldBy
  <2> HIDE DEF m
  <2>2. CellsOf(4 * n, x) = <<x>> /\ CellsOf(4 * n, y) = <<y>> /\ (4 * n) \div 4 = 1
    BY <1>4, <2>1 DEF CellsOf, m
  <2> DEFINE e == CopyAt(c, 0, <<x>>)
  <2>3. e \in [1 .. 3 -> Nat] /\ e[3] = c[3] /\ e[1] = x
    BY <1>1, <1>4 DEF CopyAt
  <2>4. g = CopyAt(e, 1, <<y>>)
    BY <2>2 DEF SetRegion
  <2> HIDE DEF e
  <2>5. g \in [1 .. 3 -> Nat] /\ g[3] = e[3] /\ g[1] = e[1] /\ g[2] = y
    BY <1>1, <2>3, <2>4 DEF CopyAt
  <2>6. g \in Seq(Nat) /\ Len(g) = 3
    BY <2>5, CellSeq
  <2>7. Joined(SubSeq(g, 1, 1)) = g[1] /\ Joined(SubSeq(g, 2, 2)) = g[2]
    BY <2>6 DEF Joined
  <2> QED BY <1>4, <2>3, <2>5, <2>7
<1>5. CASE n = 2
  <2> DEFINE xh == x \div m
             xl == x % m
             yh == y \div m
             yl == y % m
  <2>1. /\ xh \in 0 .. m - 1 /\ yh \in 0 .. m - 1 /\ xl \in 0 .. m - 1 /\ yl \in 0 .. m - 1
        /\ x = m * xh + xl /\ y = m * yh + yl
    BY <1>1, <1>2, <1>5, DivSquare DEF HeldBy
  <2>2. CellsOf(4 * n, x) = <<xh % m, xl>> /\ CellsOf(4 * n, y) = <<yh % m, yl>> /\ (4 * n) \div 4 = 2
    BY <1>5 DEF CellsOf
  <2>3. xh % m = xh /\ yh % m = yh
    BY <1>3, <2>1
  <2> HIDE DEF xh, xl, yh, yl, m
  <2> DEFINE e == CopyAt(c, 0, <<xh, xl>>)
  <2>4. xh \in Nat /\ xl \in Nat /\ yh \in Nat /\ yl \in Nat
    BY <1>1, <2>1
  <2>5. e \in [1 .. 5 -> Nat] /\ e[5] = c[5] /\ e[1] = xh /\ e[2] = xl
    BY <1>5, <2>4 DEF CopyAt
  <2>6. g = CopyAt(e, 2, <<yh, yl>>)
    BY <2>2, <2>3 DEF SetRegion
  <2> HIDE DEF e
  <2>7. g \in [1 .. 5 -> Nat] /\ g[5] = e[5] /\ g[1] = e[1] /\ g[2] = e[2] /\ g[3] = yh /\ g[4] = yl
    <3>1. g = [k \in 1 .. 5 |-> IF k - 2 \in 1 .. 2 THEN <<yh, yl>>[k - 2] ELSE e[k]]
      <4>1. DOMAIN e = 1 .. 5 /\ DOMAIN <<yh, yl>> = 1 .. 2
        BY <2>5
      <4> QED BY <2>6, <4>1, Zenon DEF CopyAt
    <3>2. <<yh, yl>>[1] = yh /\ <<yh, yl>>[2] = yl
      OBVIOUS
    <3>3. g[3] = <<yh, yl>>[1] /\ g[4] = <<yh, yl>>[2]
      BY <3>1
    <3>4. g[5] = e[5] /\ g[1] = e[1] /\ g[2] = e[2]
      BY <3>1
    <3>5. ASSUME NEW k \in 1 .. 5 PROVE g[k] \in Nat
      <4>1. k \in {1, 2, 3, 4, 5}
        OBVIOUS
      <4> QED BY <2>4, <2>5, <3>2, <3>3, <3>4, <4>1
    <3> QED BY <3>1, <3>2, <3>3, <3>4, <3>5
  <2>8. g \in Seq(Nat) /\ Len(g) = 5
    BY <2>7, CellSeq
  <2>9. Joined(SubSeq(g, 1, 2)) = g[1] * CellValues + g[2] /\ Joined(SubSeq(g, 3, 4)) = g[3] * CellValues + g[4]
    BY <2>8 DEF Joined
  <2>10. xh * CellValues + xl = x /\ yh * CellValues + yl = y
    BY <1>1, <2>1, <2>4, SMT DEF m
  <2> QED BY <1>5, <2>5, <2>7, <2>9, <2>10
<1> QED BY <1>4, <1>5

\* The first of the header's entries for a hart.
LEMMA ListedClock ==
  ASSUME HeaderFits(header), NEW h, Listed(h) # {} PROVE HartListed(h) \in 0 .. CellValues - 1
<1>1. Listed(h) \subseteq DOMAIN header.harts /\ Listed(h) \subseteq Nat
  BY DEF Listed, HeaderFits
<1> DEFINE less == {ss \in Nat \X Nat : ss[1] < ss[2]}
<1>2. IsWellFoundedOn(less, Nat)
  BY NatLessThanWellFounded DEF OpToRel
<1>3. \A n, m \in Nat : n < m => <<n, m>> \in less
  OBVIOUS
<1> HIDE DEF less
<1>4. PICK n \in Listed(h) : \A m \in Listed(h) : ~(<<m, n>> \in less)
  BY <1>1, <1>2, WFMin
<1>5. ASSUME NEW m \in Listed(h) PROVE n <= m
  <2>1. n \in Nat /\ m \in Nat
    BY <1>1, <1>4
  <2>2. ~(m < n)
    BY <2>1, <1>3, <1>4
  <2> QED BY <2>1, <2>2
<1> DEFINE first == CHOOSE a \in Listed(h) : \A b \in Listed(h) : a <= b
<1>6. first \in Listed(h)
  BY <1>5
<1> HIDE DEF first
<1>7. HartListed(h) = header.harts[first].clk
  BY DEF HartListed, first
<1> QED BY <1>1, <1>6, <1>7 DEF HeaderFits

\* The clock of a hart is a matter of the platform and the header.
LEMMA ClocksKept ==
  ASSUME UNCHANGED <<plf, header>>
  PROVE  \A k : /\ CpuLabel(k)' = CpuLabel(k) /\ Clocked(k)' = Clocked(k)
                 /\ ClockOf(k)' = ClockOf(k)
<1>1. plf' = plf /\ header' = header
  OBVIOUS
<1>2. \A h : Listed(h)' = Listed(h)
  BY <1>1 DEF Listed
<1>3. \A h : HartListed(h)' = HartListed(h)
  BY <1>1, <1>2 DEF HartListed
<1> QED BY <1>1, <1>2, <1>3 DEF CpuLabel, Clocked, ClockOf

LEMMA HartAtSlot ==
  ASSUME HartsFit(plf), NEW k \in DOMAIN plf.harts PROVE HartAt(plf.harts[k].slot) = k
BY DEF HartsFit, HartAt

\* Setting labels leaves the memory's nodes and the other labels alone.
LEMMA PutWords ==
  ASSUME TreeTypes, NEW v, Put(v), UNCHANGED <<plf, header, getters>>,
         tpc # "start", tpc' \in {"memory", "cpus", "caches", "copy"}
  PROVE  /\ TreeTypes' /\ UNCHANGED <<plf, header>> /\ tree'.reg = tree.reg
         /\ \A l \in plf.labels :
              tree'.word[l] = IF l \in DOMAIN v THEN v[l] % CellValues ELSE tree.word[l]
<1>1. tree'.reg = tree.reg /\ tree' = [word |-> tree'.word, reg |-> tree'.reg]
  BY DEF TreeTypes, Put
<1>2. tree'.word = [l \in plf.labels |-> IF l \in DOMAIN v THEN v[l] % CellValues ELSE tree.word[l]]
  BY DEF TreeTypes, Put
<1> QED BY <1>1, <1>2 DEF TreeTypes

LEMMA TreeStart == ASSUME TreeFits, TreeInit PROVE TreeInv
<1>1. plf \in Platforms /\ header \in Headers /\ MemoryFits(plf)
  BY DEF TreeInit, TreeFits
<1>2. tree.word = [l \in plf.labels |-> 0] /\ tree.reg = [r \in Regions |-> [k \in 1 .. 2 * plf.cells[r] + 1 |-> 0]]
  BY DEF TreeInit
<1>3. tree = [word |-> tree.word, reg |-> tree.reg]
  BY DEF TreeInit
<1>4. TreeTypes
  BY <1>1, <1>2, <1>3 DEF TreeInit, TreeTypes, MemoryFits, RegionCells
<1>5. LeftAlone(tree.word)
  BY <1>2 DEF LeftAlone
<1> QED BY <1>4, <1>5 DEF TreeInv, TreeInit

LEMMA TimerClock ==
  ASSUME TreeTypes, tpc # "start"
  PROVE  /\ MtimerClk.clk = TimerOf(plf, header) /\ (V1 <=> header.v1)
         /\ MtimerClk.src \in {"internal", "external"}
         /\ MtimerClk.src = "internal" /\ ~SysMistaken =>
              TimerOf(plf, header) = IF V1 THEN header.cluster
                                     ELSE IF plf.cluster.readable THEN plf.cluster.clk ELSE plf.sys
         /\ MtimerClk.src = "external" /\ ~SysMistaken =>
              TimerOf(plf, header) = IF V1 THEN header.ext ELSE plf.sys \div 4
<1>1. V1 <=> header.v1
  BY DEF TreeTypes, V1
<1> QED BY <1>1 DEF MtimerClk, MtimerV1, MtimerFallback, TimerOf, SysOf, ClusterFallback, SysFallback,
                     SysMistaken

\* The timer is off in a build without one, until scr_rtc_init and ever after.
LEMMA NoTimer ==
  ASSUME TreeInv, UNCHANGED <<plf, rtc>> PROVE ~plf'.mtimer => rtc'.src = "off"
BY DEF TreeInv

LEMMA ClocksStep == ASSUME TreeFits, TreeInv, SetClocks PROVE TreeInv'
<1> DEFINE v == [l \in {<<"timebase", 0>>, <<"mtimer", 0>>} |->
                   IF ~plf.mtimer THEN 0 ELSE IF l[1] = "timebase" THEN Timebase ELSE MtimerClk.clk]
<1>1. TreeTypes /\ LeftAlone(tree.word) /\ Put(v) /\ tpc = "clocks" /\ tpc' = "memory"
  BY DEF SetClocks, TreeStep, TreeInv
<1>2. UNCHANGED <<plf, header, getters>>
  BY DEF SetClocks, TreeStep
<1>3. /\ TreeTypes' /\ tree'.reg = tree.reg
      /\ \A l \in plf.labels :
           tree'.word[l] = IF l \in DOMAIN v THEN v[l] % CellValues ELSE tree.word[l]
  BY <1>1, <1>2, PutWords
<1>4. plf.mtimer => TimerOf(plf, header) \in Timebase .. CellValues - 1
  BY <1>1 DEF TreeFits, TreeTypes
<1>5. /\ DOMAIN v = {<<"timebase", 0>>, <<"mtimer", 0>>}
      /\ v[<<"timebase", 0>>] = IF plf.mtimer THEN Timebase ELSE 0
      /\ v[<<"mtimer", 0>>] = IF plf.mtimer THEN TimerOf(plf, header) ELSE 0
  BY <1>1, TimerClock
<1>6. \A a : <<"cpu", a>> \notin DOMAIN v /\ <<"l1", a>> \notin DOMAIN v
  BY <1>5
<1> HIDE DEF v
<1>7. LeftAlone(tree.word)'
  BY <1>1, <1>2, <1>3, <1>6 DEF LeftAlone, CpuLabel, CacheLabel, Clocked, Listed
<1>8. ClocksTold(tree.word)'
  <2>1. \A x \in {v[<<"timebase", 0>>], v[<<"mtimer", 0>>]} : x % CellValues = x
    <3>1. \A x \in {v[<<"timebase", 0>>], v[<<"mtimer", 0>>]} : x \in 0 .. CellValues - 1
      BY <1>4, <1>5, TreeAssumption
    <3> QED BY <3>1, TreeAssumption, ModSmall
  <2> QED BY <1>2, <1>3, <1>5, <2>1 DEF ClocksTold
<1> QED BY <1>1, <1>2, <1>3, <1>7, <1>8 DEF TreeInv, SetClocks, TreeStep

LEMMA MemoryStep == ASSUME TreeFits, TreeInv, SetMemory PROVE TreeInv'
<1>1. /\ TreeTypes /\ LeftAlone(tree.word) /\ ClocksTold(tree.word) /\ MemoryFits(plf)
      /\ tpc = "memory" /\ tpc' = "devs" /\ UNCHANGED <<plf, header, getters>>
  BY DEF SetMemory, TreeStep, TreeInv, TreeTypes, TreeFits
<1> DEFINE Skipped(r) == plf.cells[r] = 0 \/ (r = "mem1" /\ plf.size1 = 0)
           new(r) == SetRegion(tree.reg[r], 4 * plf.cells[r], RegionBase(plf, r), RegionSize(plf, r))
<1>2. /\ tree' = [word |-> tree.word, reg |-> tree'.reg]
      /\ tree'.reg = [r \in Regions |-> IF Skipped(r) THEN tree.reg[r] ELSE new(r)]
  BY <1>1 DEF SetMemory, TreeTypes, Regions, RegionBase, RegionSize, CmemBase, MemSize
<1>3. ASSUME NEW r \in Regions, ~Skipped(r)
      PROVE  /\ RegionCells(plf.cells[r], new(r)) /\ new(r)[2 * plf.cells[r] + 1] = 0
             /\ Joined(SubSeq(new(r), 1, plf.cells[r])) = RegionBase(plf, r)
             /\ Joined(SubSeq(new(r), plf.cells[r] + 1, 2 * plf.cells[r])) = RegionSize(plf, r)
  <2>1. /\ plf.cells[r] \in {1, 2}
        /\ HeldBy(plf.cells[r], RegionBase(plf, r)) /\ HeldBy(plf.cells[r], RegionSize(plf, r))
    BY <1>1, <1>3 DEF MemoryFits
  <2>2. RegionCells(plf.cells[r], tree.reg[r]) /\ tree.reg[r][2 * plf.cells[r] + 1] = 0
    BY <1>1 DEF TreeTypes
  <2> DEFINE n == plf.cells[r]
             c == tree.reg[r]
             x == RegionBase(plf, r)
             y == RegionSize(plf, r)
             g == new(r)
  <2>3. g = SetRegion(c, 4 * n, x, y)
    OBVIOUS
  <2>4. n \in {1, 2} /\ HeldBy(n, x) /\ HeldBy(n, y) /\ RegionCells(n, c) /\ c[2 * n + 1] = 0
    BY <2>1, <2>2
  <2> HIDE DEF n, c, x, y, g
  <2>5. /\ RegionCells(n, g) /\ g[2 * n + 1] = c[2 * n + 1]
        /\ Joined(SubSeq(g, 1, n)) = x /\ Joined(SubSeq(g, n + 1, 2 * n)) = y
    BY <2>3, <2>4, CellsSay
  <2>6. RegionCells(n, g) /\ g[2 * n + 1] = 0
    BY <2>4, <2>5
  <2> QED BY <2>5, <2>6 DEF n, c, x, y, g
<1> HIDE DEF Skipped, new
<1>4. \A r \in Regions : tree'.reg[r] = IF Skipped(r) THEN tree.reg[r] ELSE new(r)
  BY <1>2
<1>5. TreeTypes'
  BY <1>1, <1>2, <1>3, <1>4 DEF TreeTypes
<1>6. RegionsTold(tree.reg)'
  BY <1>1, <1>3, <1>4 DEF RegionsTold, Skipped
<1>7. LeftAlone(tree.word)' /\ ClocksTold(tree.word)'
  BY <1>1, <1>2 DEF LeftAlone, ClocksTold, CpuLabel, CacheLabel, Clocked, Listed
<1>8. ~plf'.mtimer => rtc'.src = "off"
  BY NoTimer DEF SetMemory, TreeStep
<1> QED BY <1>1, <1>5, <1>6, <1>7, <1>8 DEF TreeInv

LEMMA DevsStep == ASSUME TreeFits, TreeInv, SetDevs PROVE TreeInv'
<1> DEFINE v == [l \in {<<"dev", k>> : k \in 0 .. 15} |-> SysClk]
<1>1. /\ TreeTypes /\ LeftAlone(tree.word) /\ ClocksTold(tree.word) /\ RegionsTold(tree.reg)
      /\ Put(v) /\ tpc = "devs" /\ tpc' = "cpus"
  BY DEF SetDevs, TreeStep, TreeInv
<1>2. UNCHANGED <<plf, header, getters>>
  BY DEF SetDevs, TreeStep
<1>3. /\ TreeTypes' /\ tree'.reg = tree.reg
      /\ \A l \in plf.labels :
           tree'.word[l] = IF l \in DOMAIN v THEN v[l] % CellValues ELSE tree.word[l]
  BY <1>1, <1>2, PutWords
<1>4. \A a : /\ <<"cpu", a>> \notin DOMAIN v /\ <<"l1", a>> \notin DOMAIN v
             /\ <<"timebase", a>> \notin DOMAIN v /\ <<"mtimer", a>> \notin DOMAIN v
  OBVIOUS
<1> HIDE DEF v
<1>5. LeftAlone(tree.word)'
  <2>1. ASSUME NEW k \in DOMAIN plf.harts
        PROVE  /\ CpuLabel(k) \in plf.labels /\ ~Clocked(k) => tree'.word[CpuLabel(k)] = 0
               /\ CacheLabel(k) \in plf.labels /\ ~plf.harts[k].active => tree'.word[CacheLabel(k)] = 0
    BY <1>1, <1>3, <1>4 DEF LeftAlone, CpuLabel, CacheLabel
  <2> QED BY <1>2, <2>1 DEF LeftAlone, CpuLabel, CacheLabel, Clocked, Listed
<1>6. ClocksTold(tree.word)'
  BY <1>1, <1>2, <1>3, <1>4 DEF ClocksTold
<1>7. RegionsTold(tree.reg)'
  BY <1>1, <1>2, <1>3 DEF RegionsTold
<1>8. ~plf'.mtimer => rtc'.src = "off"
  BY NoTimer DEF SetDevs, TreeStep
<1> QED BY <1>1, <1>3, <1>5, <1>6, <1>7, <1>8 DEF TreeInv

LEMMA CpusStep == ASSUME TreeFits, TreeInv, SetCpus PROVE TreeInv'
<1> DEFINE D == {<<"cpu", plf.harts[k].slot>> : k \in Timed}
           v == [l \in D |-> HartClk(plf.harts[HartAt(l[2])].id)]
<1>1. /\ TreeTypes /\ LeftAlone(tree.word) /\ ClocksTold(tree.word) /\ RegionsTold(tree.reg)
      /\ Put(v) /\ tpc = "cpus" /\ tpc' = "caches" /\ HartsFit(plf) /\ HeaderFits(header)
  BY DEF SetCpus, TreeStep, TreeInv, TreeFits, TreeTypes
<1>2. UNCHANGED <<plf, header, getters>>
  BY DEF SetCpus, TreeStep
<1>3. /\ TreeTypes' /\ tree'.reg = tree.reg
      /\ \A l \in plf.labels :
           tree'.word[l] = IF l \in DOMAIN v THEN v[l] % CellValues ELSE tree.word[l]
  BY <1>1, <1>2, PutWords
<1>4. \A a : <<"l1", a>> \notin D /\ <<"timebase", a>> \notin D /\ <<"mtimer", a>> \notin D
  OBVIOUS
<1>5. V1 <=> header.v1
  BY <1>1, TimerClock
<1>6. Timed = {k \in DOMAIN plf.harts : Clocked(k)}
  BY <1>5 DEF Timed, HasHartClk, Clocked
<1>7. ASSUME NEW k \in DOMAIN plf.harts
      PROVE  /\ CpuLabel(k) \in D <=> Clocked(k)
             /\ Clocked(k) => v[CpuLabel(k)] = ClockOf(k)
             /\ Clocked(k) => ClockOf(k) % CellValues = ClockOf(k)
  <2>1. CpuLabel(k) \in D <=> Clocked(k)
    <3>1. ASSUME NEW j \in Timed, CpuLabel(k) = <<"cpu", plf.harts[j].slot>> PROVE j = k
      <4>1. plf.harts[k].slot = plf.harts[j].slot
        BY <3>1 DEF CpuLabel
      <4> QED BY <1>1, <1>6, <4>1 DEF HartsFit
    <3>2. CpuLabel(k) = <<"cpu", plf.harts[k].slot>>
      BY DEF CpuLabel
    <3> QED BY <1>6, <3>1, <3>2
  <2>2. Clocked(k) => v[CpuLabel(k)] = ClockOf(k)
    <3>1. CpuLabel(k)[2] = plf.harts[k].slot
      BY DEF CpuLabel
    <3>2. HartAt(plf.harts[k].slot) = k
      BY <1>1, HartAtSlot
    <3>3. HartClk(plf.harts[k].id) = ClockOf(k)
      BY <1>5 DEF HartClk, ClockOf, HartUniform
    <3> HIDE DEF D
    <3> QED BY <2>1, <3>1, <3>2, <3>3
  <2>3. Clocked(k) => ClockOf(k) \in 0 .. CellValues - 1
    BY <1>1, ListedClock DEF Clocked, ClockOf, HartsFit
  <2>4. Clocked(k) => ClockOf(k) % CellValues = ClockOf(k)
    BY <2>3, TreeAssumption, ModSmall
  <2> QED BY <2>1, <2>2, <2>4
<1>8. DOMAIN v = D
  OBVIOUS
<1> HIDE DEF v, D
<1>9. LeftAlone(tree.word)'
  <2>1. ASSUME NEW k \in DOMAIN plf.harts
        PROVE  /\ CpuLabel(k) \in plf.labels /\ ~Clocked(k) => tree'.word[CpuLabel(k)] = 0
               /\ CacheLabel(k) \in plf.labels /\ ~plf.harts[k].active => tree'.word[CacheLabel(k)] = 0
    BY <1>1, <1>3, <1>4, <1>7, <1>8 DEF LeftAlone, CacheLabel
  <2> QED BY <1>2, <2>1 DEF LeftAlone, CpuLabel, CacheLabel, Clocked, Listed
<1>10. ClocksTold(tree.word)'
  BY <1>1, <1>2, <1>3, <1>4, <1>8 DEF ClocksTold
<1>11. RegionsTold(tree.reg)'
  BY <1>1, <1>2, <1>3 DEF RegionsTold
<1>12. CpusTold(tree.word)'
  <2>1. ASSUME NEW k \in DOMAIN plf.harts, CpuLabel(k) \in plf.labels, Clocked(k)
        PROVE  tree'.word[CpuLabel(k)] = ClockOf(k)
    BY <1>3, <1>7, <1>8, <2>1
  <2> QED BY <1>2, <2>1, ClocksKept DEF CpusTold
<1>13. ~plf'.mtimer => rtc'.src = "off"
  BY NoTimer DEF SetCpus, TreeStep
<1> QED BY <1>1, <1>3, <1>9, <1>10, <1>11, <1>12, <1>13 DEF TreeInv

LEMMA CachesStep == ASSUME TreeFits, TreeInv, SetCaches PROVE TreeInv'
<1> DEFINE D == {<<"l1", plf.harts[k].slot>> : k \in Cached}
           E == D \cup {<<"l2", 0>>, <<"l3", 0>>}
           v == [l \in E |-> IF l[1] = "l1" THEN plf.harts[HartAt(l[2])].l1 ELSE plf.shared]
<1>1. /\ TreeTypes /\ LeftAlone(tree.word) /\ ClocksTold(tree.word) /\ RegionsTold(tree.reg)
      /\ CpusTold(tree.word) /\ Put(v) /\ tpc = "caches" /\ tpc' = "copy" /\ HartsFit(plf)
  BY DEF SetCaches, TreeStep, TreeInv, TreeFits, TreeTypes
<1>2. UNCHANGED <<plf, header, getters>>
  BY DEF SetCaches, TreeStep
<1>3. /\ TreeTypes' /\ tree'.reg = tree.reg
      /\ \A l \in plf.labels :
           tree'.word[l] = IF l \in DOMAIN v THEN v[l] % CellValues ELSE tree.word[l]
  BY <1>1, <1>2, PutWords
<1>4. \A a : <<"cpu", a>> \notin E /\ <<"timebase", a>> \notin E /\ <<"mtimer", a>> \notin E
  OBVIOUS
<1>5. ASSUME NEW k \in DOMAIN plf.harts
      PROVE  /\ CacheLabel(k) \in E => plf.harts[k].active
             /\ CacheLabel(k) \in plf.labels /\ plf.harts[k].active => CacheLabel(k) \in E
             /\ CacheLabel(k) \in E => v[CacheLabel(k)] = plf.harts[k].l1
             /\ plf.harts[k].l1 % CellValues = plf.harts[k].l1
  <2>1. CacheLabel(k) \in E => plf.harts[k].active
    <3>1. ASSUME NEW j \in Cached, CacheLabel(k) = <<"l1", plf.harts[j].slot>> PROVE j = k
      <4>1. plf.harts[k].slot = plf.harts[j].slot
        BY <3>1 DEF CacheLabel
      <4> QED BY <1>1, <4>1 DEF HartsFit, Cached
    <3>2. CacheLabel(k) \notin {<<"l2", 0>>, <<"l3", 0>>}
      BY DEF CacheLabel
    <3> QED BY <3>1, <3>2 DEF Cached
  <2>2. CacheLabel(k) \in plf.labels /\ plf.harts[k].active => CacheLabel(k) \in E
    BY <1>1 DEF CacheLabel, HartsFit, Cached
  <2>3. CacheLabel(k) \in E => v[CacheLabel(k)] = plf.harts[k].l1
    <3>1. CacheLabel(k)[1] = "l1" /\ CacheLabel(k)[2] = plf.harts[k].slot
      BY DEF CacheLabel
    <3>2. HartAt(plf.harts[k].slot) = k
      BY <1>1, HartAtSlot
    <3> HIDE DEF E
    <3> QED BY <3>1, <3>2
  <2>4. plf.harts[k].l1 % CellValues = plf.harts[k].l1
    <3>1. plf.harts[k].l1 \in 0 .. CellValues - 1
      BY <1>1 DEF HartsFit
    <3> QED BY <3>1, TreeAssumption, ModSmall
  <2> QED BY <2>1, <2>2, <2>3, <2>4
<1>6. DOMAIN v = E
  OBVIOUS
<1> HIDE DEF v, E
<1>7. LeftAlone(tree.word)'
  <2>1. ASSUME NEW k \in DOMAIN plf.harts
        PROVE  /\ CpuLabel(k) \in plf.labels /\ ~Clocked(k) => tree'.word[CpuLabel(k)] = 0
               /\ CacheLabel(k) \in plf.labels /\ ~plf.harts[k].active => tree'.word[CacheLabel(k)] = 0
    BY <1>1, <1>3, <1>4, <1>5, <1>6 DEF LeftAlone, CpuLabel
  <2> QED BY <1>2, <2>1 DEF LeftAlone, CpuLabel, CacheLabel, Clocked, Listed
<1>8. ClocksTold(tree.word)'
  BY <1>1, <1>2, <1>3, <1>4, <1>6 DEF ClocksTold
<1>9. RegionsTold(tree.reg)'
  BY <1>1, <1>2, <1>3 DEF RegionsTold
<1>10. CpusTold(tree.word)'
  <2>1. ASSUME NEW k \in DOMAIN plf.harts, CpuLabel(k) \in plf.labels, Clocked(k)
        PROVE  tree'.word[CpuLabel(k)] = ClockOf(k)
    BY <1>1, <1>3, <1>4, <1>6, <2>1 DEF CpusTold, CpuLabel
  <2> QED BY <1>2, <2>1, ClocksKept DEF CpusTold
<1>11. CachesTold(tree.word)'
  <2>1. ASSUME NEW k \in DOMAIN plf.harts, CacheLabel(k) \in plf.labels, plf.harts[k].active
        PROVE  tree'.word[CacheLabel(k)] = plf.harts[k].l1
    BY <1>3, <1>5, <1>6, <2>1
  <2> QED BY <1>2, <2>1 DEF CachesTold, CacheLabel
<1>12. ~plf'.mtimer => rtc'.src = "off"
  BY NoTimer DEF SetCaches, TreeStep
<1> QED BY <1>1, <1>3, <1>7, <1>8, <1>9, <1>10, <1>11, <1>12 DEF TreeInv

\* Steps that leave the tree alone keep what it says.
LEMMA TreeKeeps ==
  ASSUME TreeInv, UNCHANGED <<plf, header, tree>>,
         tpc' \in {"start", "clocks", "memory", "devs", "cpus", "caches", "copy", "timer", "kernel"},
         tpc' # "start" => getters' = IF header.v1 THEN "v1" ELSE "fallback"
  PROVE  /\ TreeTypes' /\ LeftAlone(tree.word)'
         /\ ClocksTold(tree.word) => ClocksTold(tree.word)'
         /\ RegionsTold(tree.reg) => RegionsTold(tree.reg)'
         /\ CpusTold(tree.word) => CpusTold(tree.word)'
         /\ CachesTold(tree.word) => CachesTold(tree.word)'
<1>1. TreeTypes'
  BY DEF TreeInv, TreeTypes
<1>2. LeftAlone(tree.word)'
  BY DEF TreeInv, LeftAlone, CpuLabel, CacheLabel, Clocked, Listed
<1>3. ClocksTold(tree.word) => ClocksTold(tree.word)'
  BY DEF ClocksTold
<1>4. RegionsTold(tree.reg) => RegionsTold(tree.reg)'
  BY DEF RegionsTold
<1>5. ASSUME CpusTold(tree.word) PROVE CpusTold(tree.word)'
  <2>1. plf' = plf /\ header' = header /\ tree' = tree
    OBVIOUS
  <2>2. ASSUME NEW k \in DOMAIN plf.harts, CpuLabel(k) \in plf.labels, Clocked(k)
        PROVE  tree'.word[CpuLabel(k)] = ClockOf(k)
    BY <1>5, <2>1, <2>2 DEF CpusTold
  <2> QED BY <2>1, <2>2, ClocksKept DEF CpusTold
<1>6. CachesTold(tree.word) => CachesTold(tree.word)'
  BY DEF CachesTold, CacheLabel
<1> QED BY <1>1, <1>2, <1>3, <1>4, <1>5, <1>6

LEMMA HeaderStep == ASSUME TreeInv, ClkHeaderInit PROVE TreeInv'
<1>1. /\ UNCHANGED <<plf, header, tree>> /\ tpc = "start" /\ tpc' = "clocks"
      /\ getters' = IF header.v1 THEN "v1" ELSE "fallback"
  BY DEF ClkHeaderInit
<1>2. TreeTypes' /\ LeftAlone(tree.word)'
  BY <1>1, TreeKeeps
<1>3. ~plf'.mtimer => rtc'.src = "off"
  BY NoTimer DEF ClkHeaderInit
<1> QED BY <1>1, <1>2, <1>3 DEF TreeInv

LEMMA CopyStep == ASSUME TreeInv, CopyTree PROVE TreeInv'
<1>1. /\ UNCHANGED <<plf, header, getters, tree>> /\ tpc = "copy" /\ tpc' = "timer"
      /\ copy' = [at |-> plf.base + CopyOffs, word |-> tree.word, reg |-> tree.reg]
  BY DEF CopyTree
<1>2. /\ ClocksTold(tree.word) /\ RegionsTold(tree.reg) /\ CpusTold(tree.word) /\ CachesTold(tree.word)
      /\ getters = IF header.v1 THEN "v1" ELSE "fallback"
  BY <1>1 DEF TreeInv, TreeTypes
<1>3. /\ TreeTypes' /\ LeftAlone(tree.word)' /\ ClocksTold(tree.word)' /\ RegionsTold(tree.reg)'
      /\ CpusTold(tree.word)' /\ CachesTold(tree.word)'
  BY <1>1, <1>2, TreeKeeps
<1>4. copy' = [at |-> plf.base + CopyOffs, word |-> tree.word, reg |-> tree.reg]'
  BY <1>1 DEF CopyOffs, MemSize
<1>5. ~plf'.mtimer => rtc'.src = "off"
  BY NoTimer DEF CopyTree
<1> QED BY <1>1, <1>3, <1>4, <1>5 DEF TreeInv

LEMMA RtcStep == ASSUME TreeInv, RtcInit PROVE TreeInv'
<1>1. /\ UNCHANGED <<plf, header, getters, tree, copy>> /\ tpc = "timer" /\ tpc' = "kernel"
      /\ rtc' = IF plf.mtimer
                THEN [div |-> (MtimerClk.clk \div Timebase - 1) % CellValues, src |-> MtimerClk.src]
                ELSE rtc
  BY DEF RtcInit
<1>2. /\ ClocksTold(tree.word) /\ RegionsTold(tree.reg) /\ CpusTold(tree.word) /\ CachesTold(tree.word)
      /\ getters = IF header.v1 THEN "v1" ELSE "fallback"
      /\ TreeTypes
      /\ copy = [at |-> plf.base + CopyOffs, word |-> tree.word, reg |-> tree.reg]
  BY <1>1 DEF TreeInv, TreeTypes
<1>3. /\ TreeTypes' /\ LeftAlone(tree.word)' /\ ClocksTold(tree.word)' /\ RegionsTold(tree.reg)'
      /\ CpusTold(tree.word)' /\ CachesTold(tree.word)'
  BY <1>1, <1>2, TreeKeeps
<1>4. copy' = [at |-> plf.base + CopyOffs, word |-> tree.word, reg |-> tree.reg]'
  BY <1>1, <1>2 DEF CopyOffs, MemSize
<1>5. MtimerClk.clk = TimerOf(plf, header)
  BY <1>1, <1>2, TimerClock
<1>6. MtimerClk' = MtimerClk /\ TimerOf(plf, header)' = TimerOf(plf, header)
  BY <1>1 DEF MtimerClk, MtimerV1, MtimerFallback, ClusterFallback, SysFallback, V1, TimerOf, SysOf
<1>7. plf.mtimer =>
        rtc' = [div |-> (TimerOf(plf, header) \div Timebase - 1) % CellValues, src |-> MtimerClk.src]'
  BY <1>1, <1>5, <1>6
<1>8. ~plf'.mtimer => rtc'.src = "off"
  BY <1>1 DEF TreeInv
<1> QED BY <1>1, <1>3, <1>4, <1>7, <1>8 DEF TreeInv

LEMMA RestartStep == ASSUME TreeInv, TreeRestart PROVE TreeInv'
<1>1. UNCHANGED <<plf, header, tree>> /\ tpc' = "start"
  BY DEF TreeRestart
<1>2. TreeTypes' /\ LeftAlone(tree.word)'
  BY <1>1, TreeKeeps
<1>3. ~plf'.mtimer => rtc'.src = "off"
  BY NoTimer DEF TreeRestart
<1> QED BY <1>1, <1>2, <1>3 DEF TreeInv

LEMMA TreeStays == ASSUME TreeInv, UNCHANGED treeVars PROVE TreeInv'
<1>1. UNCHANGED <<plf, header, getters, tree, copy, rtc, tpc>>
  BY DEF treeVars
<1>2. /\ tpc \in {"start", "clocks", "memory", "devs", "cpus", "caches", "copy", "timer", "kernel"}
      /\ tpc # "start" => getters = IF header.v1 THEN "v1" ELSE "fallback"
  BY DEF TreeInv, TreeTypes
<1>3. /\ TreeTypes' /\ LeftAlone(tree.word)'
      /\ ClocksTold(tree.word) => ClocksTold(tree.word)'
      /\ RegionsTold(tree.reg) => RegionsTold(tree.reg)'
      /\ CpusTold(tree.word) => CpusTold(tree.word)'
      /\ CachesTold(tree.word) => CachesTold(tree.word)'
  BY <1>1, <1>2, TreeKeeps
<1>4. CopyOffs' = CopyOffs /\ MtimerClk' = MtimerClk /\ TimerOf(plf, header)' = TimerOf(plf, header)
  BY <1>1 DEF CopyOffs, MemSize, MtimerClk, MtimerV1, MtimerFallback, ClusterFallback, SysFallback, V1, TimerOf, SysOf
<1>5. tpc' \in {"timer", "kernel"} => copy' = [at |-> plf.base + CopyOffs, word |-> tree.word, reg |-> tree.reg]'
  BY <1>1, <1>4 DEF TreeInv
<1>6. tpc' = "kernel" /\ plf.mtimer =>
        rtc' = [div |-> (TimerOf(plf, header) \div Timebase - 1) % CellValues, src |-> MtimerClk.src]'
  BY <1>1, <1>4 DEF TreeInv
<1> QED BY <1>1, <1>3, <1>5, <1>6 DEF TreeInv

\* The kernel's view follows from the tree's.
LEMMA MemoryTold == ASSUME TreeFits, TreeInv, tpc = "kernel" PROVE MemoryIsTold
<1>1. /\ MemoryFits(plf) /\ RegionsTold(tree.reg) /\ copy.reg = tree.reg /\ copy.at = plf.base + CopyOffs
      /\ \A r \in Regions : tree.reg[r][2 * plf.cells[r] + 1] = 0
  BY DEF TreeInv, TreeTypes, TreeFits
<1>2. \A r \in Regions : plf.cells[r] > 0 => plf.cells[r] # 0
  BY <1>1 DEF MemoryFits
<1>3. ASSUME NEW r \in Regions, plf.cells[r] > 0, r # "mem1" \/ plf.size1 # 0
      PROVE  Said(r) = [base |-> RegionBase(plf, r), size |-> RegionSize(plf, r)]
  BY <1>1, <1>2, <1>3 DEF RegionsTold, Said
<1>4. "mem" \in Regions /\ "mem1" \in Regions /\ "dma" \in Regions
  BY DEF Regions
<1>5. /\ plf.size \in Nat /\ plf.cmem \in Nat /\ plf.virt \in Nat /\ TreeRoom \in Nat
      /\ TreeRoom <= plf.size - plf.cmem /\ TreeRoom <= plf.virt
      /\ plf.base \in Nat
  BY <1>1, <1>4, TreeAssumption DEF MemoryFits, HeldBy, RegionBase
<1>6. /\ copy.at >= plf.base /\ copy.at + TreeRoom <= plf.base + (plf.size - plf.cmem)
      /\ copy.at + TreeRoom <= plf.base + plf.virt
  BY <1>1, <1>5 DEF CopyOffs, MemSize
<1>7. plf.cells["mem"] > 0 => Said("mem") = [base |-> plf.base, size |-> plf.size - plf.cmem]
  BY <1>3, <1>4 DEF RegionBase, RegionSize
<1>8. plf.cells["dma"] > 0 =>
        Said("dma") = [base |-> IF plf.cmem = 0 THEN 0 ELSE plf.base + (plf.size - plf.cmem), size |-> plf.cmem]
  BY <1>3, <1>4 DEF RegionBase, RegionSize
<1>9. plf.size1 > 0 => plf.size1 # 0
  <2>1. RegionSize(plf, "mem1") = plf.size1 /\ RegionSize(plf, "mem1") \in Nat
    BY <1>1, <1>4 DEF MemoryFits, HeldBy, RegionSize
  <2> QED BY <2>1
<1>10. plf.cells["mem1"] > 0 /\ plf.size1 > 0 => Said("mem1") = [base |-> plf.base1, size |-> plf.size1]
  BY <1>3, <1>4, <1>9 DEF RegionBase, RegionSize
<1>11. \A r \in Regions : copy.reg[r][2 * plf.cells[r] + 1] = 0
  BY <1>1
<1>12. plf.cells["mem"] > 0 =>
         /\ Said("mem").base = plf.base /\ Said("mem").size = plf.size - plf.cmem
         /\ copy.at >= Said("mem").base
         /\ copy.at + TreeRoom <= Said("mem").base + Said("mem").size
         /\ copy.at + TreeRoom <= Said("mem").base + plf.virt
  BY <1>6, <1>7
<1>13. plf.cells["mem"] > 0 /\ plf.cells["dma"] > 0 =>
         /\ Said("mem").size + Said("dma").size = plf.size
         /\ Said("dma").size > 0 => Said("dma").base = Said("mem").base + Said("mem").size
  BY <1>5, <1>7, <1>8
<1> QED BY <1>10, <1>11, <1>12, <1>13 DEF MemoryIsTold

LEMMA TimerTold == ASSUME TreeFits, TreeInv, tpc = "kernel" PROVE TimerIsTold
<1>0. CASE ~plf.mtimer
  BY <1>0 DEF TreeInv, ClocksTold, TimerIsTold
<1> SUFFICES ASSUME plf.mtimer PROVE TimerIsTold
  BY <1>0
<1> DEFINE c == TimerOf(plf, header)
           q == c \div Timebase
<1>1. /\ TreeTypes /\ ClocksTold(tree.word) /\ copy.word = tree.word
      /\ rtc = [div |-> (q - 1) % CellValues, src |-> MtimerClk.src]
  BY DEF TreeInv
<1>2. c \in Timebase .. CellValues - 1 /\ Timebase \in Nat \ {0} /\ CellValues \in Nat \ {0}
  BY <1>1, TreeAssumption DEF TreeTypes, TreeFits
<1>3. V1 <=> header.v1
  BY <1>1, TimerClock
<1>4. ~SysMistaken => c = SourceClk
  <2>1. rtc.src = MtimerClk.src
    BY <1>1
  <2> QED BY <1>1, <2>1, TimerClock DEF SourceClk
<1> HIDE DEF c
<1>5. q \in 1 .. c /\ q \in Nat /\ c % Timebase \in 0 .. Timebase - 1 /\ c = Timebase * q + (c % Timebase)
  <2>1. c \in Nat /\ c >= Timebase
    BY <1>2
  <2>2. q \in 0 .. c /\ q >= 1
    BY <1>2, <2>1, DivBelow
  <2>3. c % Timebase \in 0 .. Timebase - 1 /\ c = Timebase * q + (c % Timebase)
    BY <1>2, <2>1, ModFacts
  <2> HIDE DEF q
  <2> QED BY <2>1, <2>2, <2>3
<1> HIDE DEF q
<1>6. rtc.div = q - 1
  <2>1. q - 1 \in 0 .. CellValues - 1
    BY <1>2, <1>5
  <2> QED BY <1>1, <1>2, <2>1, ModSmall
<1>7. rtc.div + 1 = q /\ rtc.div + 2 = q + 1
  BY <1>5, <1>6
<1>8. Timebase * (rtc.div + 1) <= c /\ c < Timebase * (rtc.div + 2)
  <2>1. Timebase * (q + 1) = Timebase * q + Timebase
    BY <1>2, <1>5, SMT
  <2>2. Timebase * q \in Nat
    BY <1>2, <1>5, MulPos
  <2> QED BY <1>2, <1>5, <1>7, <2>1, <2>2
<1>9. <<"mtimer", 0>> \in plf.labels /\ <<"timebase", 0>> \in plf.labels =>
        copy.word[<<"mtimer", 0>>] = c /\ copy.word[<<"timebase", 0>>] = Timebase
  BY <1>1 DEF ClocksTold, c
<1> QED BY <1>4, <1>8, <1>9 DEF TimerIsTold

LEMMA HartsTold == ASSUME TreeFits, TreeInv, tpc = "kernel" PROVE HartsAreTold
<1>1. /\ TreeTypes /\ LeftAlone(tree.word) /\ CpusTold(tree.word) /\ CachesTold(tree.word)
      /\ copy.word = tree.word
  BY DEF TreeInv
<1>2. V1 <=> header.v1
  BY <1>1, TimerClock
<1>3. ASSUME NEW k \in DOMAIN plf.harts
      PROVE  /\ CpuLabel(k) \in plf.labels =>
                  copy.word[CpuLabel(k)] =
                    IF ~V1 THEN plf.cpu
                    ELSE IF \E e \in {header.harts[n] : n \in DOMAIN header.harts} : e.id = plf.harts[k].id
                    THEN HartClk(plf.harts[k].id) ELSE 0
             /\ CacheLabel(k) \in plf.labels =>
                  copy.word[CacheLabel(k)] = IF plf.harts[k].active THEN plf.harts[k].l1 ELSE 0
  <2>1. Listed(plf.harts[k].id) # {} <=>
          \E e \in {header.harts[n] : n \in DOMAIN header.harts} : e.id = plf.harts[k].id
    BY DEF Listed
  <2>2. CpuLabel(k) \in plf.labels =>
          copy.word[CpuLabel(k)] = IF Clocked(k) THEN ClockOf(k) ELSE 0
    BY <1>1 DEF CpusTold, LeftAlone
  <2>3. V1 => HartClk(plf.harts[k].id) = HartListed(plf.harts[k].id)
    BY DEF HartClk
  <2>4. CacheLabel(k) \in plf.labels =>
          copy.word[CacheLabel(k)] = IF plf.harts[k].active THEN plf.harts[k].l1 ELSE 0
    BY <1>1 DEF CachesTold, LeftAlone
  <2> QED BY <1>2, <2>1, <2>2, <2>3, <2>4 DEF Clocked, ClockOf
<1> QED BY <1>3 DEF HartsAreTold, CpuLabel, CacheLabel

\* In every boot the kernel starts with a tree that tells it of the machine's
\* memory, timer and harts, whatever an earlier boot had written into it
\* (init_dtb, scr_rtc_init), on any platform whose numbers fit (TreeFits).  Where
\* the build takes the clock of a hart for that of the bus, the divider fits the
\* clock that the tree names, which is not said to be the timer's (SysMistaken).
THEOREM KernelsAreTold == ASSUME TreeFits PROVE TreeSpec => []KernelIsTold
<1>1. TreeInit => TreeInv
  BY TreeStart
<1>2. TreeInv /\ [TreeNext]_treeVars => TreeInv'
  <2> SUFFICES ASSUME TreeInv, [TreeNext]_treeVars PROVE TreeInv'
    OBVIOUS
  <2>1. CASE ClkHeaderInit
    BY <2>1, HeaderStep
  <2>2. CASE SetClocks
    BY <2>2, ClocksStep
  <2>3. CASE SetMemory
    BY <2>3, MemoryStep
  <2>4. CASE SetDevs
    BY <2>4, DevsStep
  <2>5. CASE SetCpus
    BY <2>5, CpusStep
  <2>6. CASE SetCaches
    BY <2>6, CachesStep
  <2>7. CASE CopyTree
    BY <2>7, CopyStep
  <2>8. CASE RtcInit
    BY <2>8, RtcStep
  <2>9. CASE TreeRestart
    BY <2>9, RestartStep
  <2>10. CASE UNCHANGED treeVars
    BY <2>10, TreeStays
  <2> QED BY <2>1, <2>2, <2>3, <2>4, <2>5, <2>6, <2>7, <2>8, <2>9, <2>10 DEF TreeNext
<1>3. TreeInv => KernelIsTold
  BY MemoryTold, TimerTold, HartsTold DEF KernelIsTold
<1> QED BY <1>1, <1>2, <1>3, PTL DEF TreeSpec
=============================================================================
