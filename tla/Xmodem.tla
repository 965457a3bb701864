------------------------------- MODULE Xmodem -------------------------------
(***************************************************************************)
(* The XMODEM receiver of the boot menu (xmodem.c), against a sender on    *)
(* the other end of a serial line that loses and damages what it carries.  *)
(*                                                                         *)
(* A step of the receiver is one pass of its loop: a packet or a control   *)
(* byte and the answer to it.  Sizes are in units of 128 bytes: a packet   *)
(* is one (SOH) or eight (STX) of them, here one or two.  CRC errors are   *)
(* detected.  The sender waits for an answer before it goes on, and        *)
(* resends after a time longer than any the receiver takes.                *)
(*                                                                         *)
(* A definition named X_Fault is a faulty variant of X, used to see that   *)
(* the properties below tell the two apart.                                *)
(***************************************************************************)
EXTENDS Naturals, Sequences

CONSTANTS
  Sizes,        \* the size of each block the sender has
  Start,        \* Start[b]: the size of the blocks before block b
  DestSize,     \* destsz
  SeqMod,       \* the packet numbers there are: 256
  MaxRetrans,   \* MAXRETRANS
  MaxFaults     \* bound: things lost or damaged on the line

NumBlocks == Len(Sizes)
Blocks    == 1 .. NumBlocks

ASSUME SizesAssumption == Sizes \in Seq(Nat \ {0})
ASSUME StartAssumption ==
  /\ Start \in [1 .. NumBlocks + 1 -> Nat] /\ Start[1] = 0
  /\ \A b \in Blocks : Start[b + 1] = Start[b] + Sizes[b]
ASSUME BoundsAssumption == /\ DestSize \in Nat
                           /\ SeqMod \in Nat \ {0, 1}
                           /\ MaxRetrans \in Nat \ {0}
                           /\ MaxFaults \in Nat

Junk   == <<0, 0>>   \* what a damaged packet or nothing at all leaves in a unit
Data(b) == [i \in 1 .. Sizes[b] |-> <<b, i>>]

\* What is under way to the receiver: a packet (damaged, or without its first
\* byte), EOT, two CANs, or nothing.
Nothing      == [kind |-> "none", block |-> 0]
Eot          == [kind |-> "eot", block |-> 0]
Can          == [kind |-> "can", block |-> 0]
Packet(b)    == [kind |-> "packet", block |-> b]

VARIABLES
  rpc,       \* the receiver: "control", "flush" or how it returned
  trychar,   \* is 'C' sent while it waits for a control byte?
  seqnum,    \* the packet number expected
  total,     \* totalbytes, which is also buf - dest
  mem,       \* what is in memory from dest on
  retry,
  spc,       \* the sender: "start", "wait" for an answer, or "gone"
  next,      \* the block it sends; after the last one, EOT
  down, up,  \* what is under way to the receiver and to the sender
  accepted,  \* history: blocks accepted
  misread,   \* history: has the inside of a packet been read as control bytes?
  faults     \* history: things lost or damaged

recvVars == <<rpc, trychar, seqnum, total, mem, retry, accepted, misread>>
sendVars == <<spc, next>>
vars == <<recvVars, sendVars, down, up, faults>>

Returned == {"done", "eof", "cancelled", "retries", "sync"}

Init ==
  /\ rpc      = "control"
  /\ trychar  = TRUE
  /\ seqnum   = 1
  /\ total    = 0
  /\ mem      = [i \in 1 .. DestSize |-> Junk]
  /\ retry    = MaxRetrans
  /\ spc      = "start"
  /\ next     = 1
  /\ down     = Nothing
  /\ up       = "none"
  /\ accepted = 0
  /\ misread  = FALSE
  /\ faults   = 0

-----------------------------------------------------------------------------
(***************************************************************************)
(* The receiver.                                                           *)
(***************************************************************************)

\* No control byte within 1.5 s.
SendC_Never == FALSE /\ UNCHANGED vars
SendC ==
  /\ rpc = "control" /\ trychar
  /\ down = Nothing /\ up = "none"
  /\ up' = "C"
  /\ UNCHANGED <<recvVars, sendVars, down, faults>>

\* The data of a packet goes to buf while it comes in, before it is checked.
Store(data) ==
  mem' = [ i \in DOMAIN mem |->
             IF total + Len(data) <= DestSize /\ i \in total + 1 .. total + Len(data)
             THEN data[i - total] ELSE mem[i] ]

\* The number is compared as an int: after packet 255 seqnum is 0, not 256.
IsRetransmission_Never(seq) == FALSE
IsRetransmission(seq) == seqnum = seq + 1
IsExpected_Unchecked(seq) == TRUE
IsExpected(seq) == seqnum = seq

\* A packet without errors.
TakePacket ==
  /\ rpc = "control"
  /\ down.kind = "packet"
  /\ LET b    == down.block
         size == Sizes[b]
         seq  == b % SeqMod
     IN /\ Store(Data(b))
        /\ \/ /\ IsRetransmission(seq)
              /\ retry' = retry - 1
              /\ IF retry' = 0
                 THEN rpc' = "retries" /\ up' = "CAN"
                 ELSE UNCHANGED rpc /\ up' = "ACK"
              /\ UNCHANGED <<seqnum, total, accepted>>
           \/ /\ ~IsRetransmission(seq) /\ IsExpected(seq)
              /\ seqnum'   = (seqnum + 1) % SeqMod
              /\ total'    = total + size
              /\ accepted' = accepted + 1
              /\ retry'    = MaxRetrans
              /\ up'       = "ACK"
              /\ UNCHANGED rpc
           \/ /\ ~IsRetransmission(seq) /\ ~IsExpected(seq)
              /\ rpc' = "sync" /\ up' = "CAN"
              /\ UNCHANGED <<seqnum, total, accepted, retry>>
  /\ trychar' = FALSE
  /\ down' = Nothing
  /\ UNCHANGED <<misread, sendVars, faults>>

\* Wrong complement, wrong CRC, or 1 s without the next byte.
Refuse_Acks ==
  /\ \E data \in {<<Junk>>, <<Junk, Junk>>} : Store(data)
  /\ rpc' = "flush" /\ up' = "ACK" /\ trychar' = FALSE
Refuse ==
  /\ \E data \in {<<Junk>>, <<Junk, Junk>>} : Store(data)
  /\ rpc' = "flush" /\ up' = "NAK" /\ trychar' = FALSE

TakeDamaged ==
  /\ rpc = "control"
  /\ down.kind = "damaged"
  /\ Refuse
  /\ down' = Nothing
  /\ UNCHANGED <<seqnum, total, retry, accepted, misread, sendVars, faults>>

\* ^D if nothing was received, the end of the transmission otherwise.
ReadEot == IF total = 0 THEN rpc' = "eof" /\ UNCHANGED up ELSE rpc' = "done" /\ up' = "ACK"
ReadCan == rpc' = "cancelled" /\ up' = "ACK"

TakeEot ==
  /\ rpc = "control"
  /\ down = Eot /\ ReadEot
  /\ down' = Nothing
  /\ UNCHANGED <<trychar, seqnum, total, mem, retry, accepted, misread, sendVars, faults>>

TakeCan ==
  /\ rpc = "control"
  /\ down = Can /\ ReadCan
  /\ down' = Nothing
  /\ UNCHANGED <<trychar, seqnum, total, mem, retry, accepted, misread, sendVars, faults>>

\* The first byte of a packet was lost: the loop takes the next ones for
\* control bytes.  They are unknown, or a packet that is not one, or EOT, or CAN.
TakeHeadless ==
  /\ rpc = "control"
  /\ down.kind = "headless"
  /\ \/ UNCHANGED <<rpc, up, mem, trychar>>
     \/ Refuse
     \/ (ReadEot \/ ReadCan) /\ UNCHANGED <<mem, trychar>>
  /\ misread' = TRUE
  /\ down' = Nothing
  /\ UNCHANGED <<seqnum, total, retry, accepted, sendVars, faults>>

\* flushinput: after the NAK has gone out, everything that comes is dropped
\* until the line was silent for 1 s.
FlushInput ==
  /\ rpc = "flush"
  /\ IF down = Nothing
     THEN rpc' = "control" /\ UNCHANGED down
     ELSE down' = Nothing /\ UNCHANGED rpc
  /\ UNCHANGED <<trychar, seqnum, total, mem, retry, accepted, misread, sendVars, up, faults>>

Receiver ==
  \/ SendC \/ TakePacket \/ TakeDamaged \/ TakeEot \/ TakeCan \/ TakeHeadless
  \/ FlushInput

-----------------------------------------------------------------------------
(***************************************************************************)
(* The sender and the line.                                                *)
(***************************************************************************)
Message(b) == IF b <= NumBlocks THEN Packet(b) ELSE Eot

\* Nothing is under way and nobody is about to send.
Quiet == down = Nothing /\ up = "none" /\ rpc # "flush"

\* A first packet, the packet asked for again, or one that was not answered.
SendAgain ==
  /\ spc # "gone"
  /\ \/ up \in {"C", "NAK"}
     \/ spc = "wait" /\ Quiet
  /\ down' = Message(next)
  /\ up'   = "none"
  /\ spc'  = "wait"
  /\ UNCHANGED <<recvVars, next, faults>>

SendNext ==
  /\ spc = "wait"
  /\ up = "ACK"
  /\ up' = "none"
  /\ IF next <= NumBlocks
     THEN next' = next + 1 /\ down' = Message(next + 1) /\ UNCHANGED spc
     ELSE spc' = "gone" /\ UNCHANGED <<next, down>>
  /\ UNCHANGED <<recvVars, faults>>

\* The user cancels, the sender gives up, or the receiver cancelled.
Abandon ==
  /\ spc = "wait"
  /\ Quiet \/ up = "CAN"
  /\ up'   = "none"
  /\ spc'  = "gone"
  /\ down' \in IF up = "CAN" THEN {Nothing} ELSE {Nothing, Can}
  /\ UNCHANGED <<recvVars, next, faults>>

Sender == SendAgain \/ SendNext \/ Abandon

LineFault ==
  /\ faults < MaxFaults
  /\ faults' = faults + 1
  /\ \/ down # Nothing /\ down' = Nothing /\ UNCHANGED up
     \/ /\ down.kind = "packet"
        /\ down' \in { [down EXCEPT !.kind = k] : k \in {"damaged", "headless"} }
        /\ UNCHANGED up
     \/ up # "none" /\ up' = "none" /\ UNCHANGED down
  /\ UNCHANGED <<recvVars, sendVars>>

-----------------------------------------------------------------------------
Next == Receiver \/ Sender \/ LineFault

\* The receiver runs; the sender sends until it has an answer or goes away.
Spec == Init /\ [][Next]_vars /\ WF_vars(Receiver) /\ WF_vars(Sender)

-----------------------------------------------------------------------------
\* The type of the state.
TypeOK ==
  /\ rpc      \in {"control", "flush"} \cup Returned
  /\ trychar  \in BOOLEAN
  /\ seqnum   \in 0 .. SeqMod - 1
  /\ total    \in Nat
  /\ mem      \in [1 .. DestSize -> {Junk} \cup (Blocks \X Nat)]
  /\ retry    \in 0 .. MaxRetrans
  /\ spc      \in {"start", "wait", "gone"}
  /\ next     \in 1 .. NumBlocks + 1
  /\ down     \in [kind : {"none", "eot", "can", "packet", "damaged", "headless"},
                   block : Blocks \cup {0}]
  /\ up       \in {"none", "C", "ACK", "NAK", "CAN"}
  /\ accepted \in Nat
  /\ misread  \in BOOLEAN
  /\ faults   \in 0 .. MaxFaults

\* What was received is the beginning of what is sent: no block twice, none
\* left out, none overwritten by a damaged or repeated one; as far as it fits,
\* and nothing beyond destsz.
ImageIsPrefix ==
  /\ DOMAIN mem = 1 .. DestSize
  /\ accepted <= NumBlocks
  /\ total = Start[accepted + 1]
  /\ \A b \in 1 .. accepted :
       Start[b + 1] <= DestSize =>
         \A i \in 1 .. Sizes[b] : mem[Start[b] + i] = Data(b)[i]

\* "transmition done" (xmodem.c:136): xmodem_receive returns totalbytes when the
\* sender has sent its last block and not earlier; unless it took the inside of
\* a packet for control bytes.
DoneIsComplete == rpc = "done" /\ ~misread => accepted = NumBlocks

\* "retransmission of the last packet, ignore it" (xmodem.c:189): a sender that
\* repeats a packet is not out of sync, except when its number is the last one
\* before the numbers wrap.
OutOfSyncOnlyAtWrap == rpc = "sync" => seqnum = 0

\* The receiver returns, if the sender does not go away.
ReceiveEnds == <>(rpc \in Returned \/ spc = "gone")

=============================================================================
