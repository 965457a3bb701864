------------------------------- MODULE IpiMsg -------------------------------
(***************************************************************************)
(* Inter-processor messages of the SBI firmware: the mailboxes between     *)
(* harts, the pool of reference-counted ipi_msg buffers (ipi.c), the       *)
(* supervisor calls that use them (SEND_IPI in mentry.S, REMOTE_FENCE_I    *)
(* and REMOTE_SFENCE_VMA[_ASID] in mtrap.c) and the machine-software       *)
(* interrupt handler that receives (mentry.S).                             *)
(*                                                                         *)
(* A step is one access to memory or to a mailbox that other harts see:    *)
(* the atomic read and add of shared_cnt, a mailbox read or write, the     *)
(* writes of a message's payload by its owner.  M-mode runs with           *)
(* interrupts off, so a hart inside a call receives only where the C code  *)
(* polls; in S-mode ("S") it receives by interrupt.                        *)
(*                                                                         *)
(* A definition named X_Fault is a faulty variant of X, used to see that   *)
(* the properties below tell the two apart; Next uses none of them.        *)
(***************************************************************************)
EXTENDS Integers, FiniteSets

CONSTANTS
  NumHarts,    \* num_harts: the harts that were booted, all of them online
  PoolSize,    \* SCIPI_MSG_POOL_SIZE
  Masks,       \* the hart masks the supervisors ask for
  Kinds,       \* the calls they make: a subset of CallKinds
  MaxCalls,    \* bound: calls each supervisor makes
  Prompt       \* the calls made only once a pending IPI has been taken

Harts     == 0 .. NumHarts - 1
Slots     == 0 .. PoolSize - 1
CallKinds == {"send_ipi", "fence_i", "rfence"}

ASSUME HartsAssumption == NumHarts \in Nat \ {0}
ASSUME PoolAssumption  == PoolSize \in Nat \ {0}
ASSUME CallsAssumption == /\ Masks \subseteq SUBSET Harts
                          /\ Kinds \subseteq CallKinds
                          /\ MaxCalls \in Nat
                          /\ Prompt \subseteq CallKinds

(***************************************************************************)
(* Command codes of a mailbox word; NoCmd is an empty mailbox.             *)
(***************************************************************************)
NoCmd   == 0
SIGNAL  == 4
FENCE_I == 5
Msg(s)  == 8 + s
Slot(c) == c - 8
MsgCmds == { Msg(s) : s \in Slots }

VARIABLES
  pc,       \* where each hart is; "S" is outside the firmware
  calls,    \* calls made by each supervisor
  mask,     \* hart_mask: the targets a call has not reached yet
  slot,     \* i of ipi_alloc_msg
  cmd,      \* the command a call sends; a message command makes it the owner
  cnt,      \* shared_cnt of each pool slot
  content,  \* handler and payload of each pool slot: the request they describe
  mbox,     \* mbox[s][r]: the unread word of sender s at receiver r
  cur,      \* the message command a hart is executing, NoCmd for none
  ran,      \* has its handler returned
  ssip,     \* mip.SSIP of each hart
  asked,    \* history: the fence requests made so far
  todo,     \* history: of these, the ones a hart still has to run
  fences    \* history: how many fence handlers a hart has run

ownVars  == <<pc, calls, mask, slot, cmd>>
poolVars == <<cnt, content>>
recvVars == <<cur, ran, ssip>>
histVars == <<asked, todo, fences>>
vars     == <<ownVars, poolVars, mbox, recvVars, histVars>>

Request(h)  == <<h, calls[h]>>
Requests    == Harts \X (0 .. MaxCalls)
MailFor(h)  == { s \in Harts : mbox[s][h] # NoCmd }
HasMsg(h)   == cmd[h] \in MsgCmds
Lowest(S)   == { x \in S : \A y \in S : x <= y }
Highest(S)  == { x \in S : \A y \in S : x >= y }
Goto(h, at) == pc' = [pc EXCEPT ![h] = at]
Add(s, n)   == cnt' = [cnt EXCEPT ![s] = @ + n]

\* A hart executes its own code while no message handler runs on it.
At(h, where) == pc[h] = where /\ cur[h] = NoCmd

Init ==
  /\ pc      = [h \in Harts |-> "S"]
  /\ calls   = [h \in Harts |-> 0]
  /\ mask    = [h \in Harts |-> {}]
  /\ slot    = [h \in Harts |-> 0]
  /\ cmd     = [h \in Harts |-> NoCmd]
  /\ cnt     = [s \in Slots |-> 0]
  /\ content = [s \in Slots |-> <<0, 0>>]
  /\ mbox    = [s \in Harts |-> [r \in Harts |-> NoCmd]]
  /\ cur     = [h \in Harts |-> NoCmd]
  /\ ran     = [h \in Harts |-> FALSE]
  /\ ssip    = [h \in Harts |-> FALSE]
  /\ asked   = {}
  /\ todo    = [h \in Harts |-> {}]
  /\ fences  = [h \in Harts |-> 0]

-----------------------------------------------------------------------------
(***************************************************************************)
(* Receiving.                                                              *)
(***************************************************************************)

\* What a received word does: SSIP for a signal, a fence.i, or the start of
\* a message handler.
Dispatch_DropsSignal(h, c) ==
  /\ cur' = IF c \in MsgCmds THEN [cur EXCEPT ![h] = c] ELSE cur
  /\ UNCHANGED <<ran, ssip>>
Dispatch(h, c) ==
  /\ ssip' = IF c = SIGNAL THEN [ssip EXCEPT ![h] = TRUE] ELSE ssip
  /\ cur'  = IF c \in MsgCmds THEN [cur EXCEPT ![h] = c] ELSE cur
  /\ UNCHANGED ran

\* ipi_check_local_cmd with a word available; which sender's word the
\* mailbox hands out first is the hardware's choice.
ReadMail(h) ==
  \E s \in MailFor(h) :
    /\ mbox' = [mbox EXCEPT ![s][h] = NoCmd]
    /\ Dispatch(h, mbox[s][h])

\* The machine-software interrupt, taken from S-mode.
TakeIpi(h) ==
  /\ At(h, "S")
  /\ ReadMail(h)
  /\ UNCHANGED <<ownVars, poolVars, histVars>>

\* The message handler: the fence the slot's content describes is executed.
RunHandler(h) ==
  /\ cur[h] # NoCmd
  /\ ~ran[h]
  /\ ran'    = [ran EXCEPT ![h] = TRUE]
  /\ todo'   = [todo EXCEPT ![h] = @ \ {content[Slot(cur[h])]}]
  /\ fences' = [fences EXCEPT ![h] = @ + 1]
  /\ UNCHANGED <<ownVars, poolVars, mbox, cur, ssip, asked>>

\* ipi_free_msg after the handler (amoadd.w -1 in the interrupt handler).
FreeHandled(h) ==
  /\ cur[h] # NoCmd
  /\ ran[h]
  /\ Add(Slot(cur[h]), -1)
  /\ cur' = [cur EXCEPT ![h] = NoCmd]
  /\ ran' = [ran EXCEPT ![h] = FALSE]
  /\ UNCHANGED <<ownVars, content, mbox, ssip, histVars>>

-----------------------------------------------------------------------------
(***************************************************************************)
(* The supervisor's calls.                                                 *)
(***************************************************************************)

\* In S-mode a pending IPI is taken before the next instruction; the model
\* asks that of the calls in Prompt and lets it be late for the others.
CanCall(h, kind) ==
  /\ kind \in Kinds
  /\ At(h, "S")
  /\ calls[h] < MaxCalls
  /\ kind \in Prompt => MailFor(h) = {}

EnterCall(h, kind, m, at, c) ==
  /\ CanCall(h, kind)
  /\ Goto(h, at)
  /\ calls' = [calls EXCEPT ![h] = @ + 1]
  /\ mask'  = [mask EXCEPT ![h] = m]
  /\ cmd'   = [cmd EXCEPT ![h] = c]
  /\ UNCHANGED <<poolVars, mbox, recvVars, histVars>>

EcallSendIpi(h, m) ==
  EnterCall(h, "send_ipi", m, "signal", NoCmd) /\ UNCHANGED slot

EcallFenceI(h, m) ==
  EnterCall(h, "fence_i", m, "local", FENCE_I) /\ UNCHANGED slot

EcallRfence(h, m) ==
  /\ EnterCall(h, "rfence", m, "probe", NoCmd)
  /\ slot' = [slot EXCEPT ![h] = h % PoolSize]

\* The supervisor acknowledges its software interrupt (SBI_CLEAR_IPI).
ClearIpi(h) ==
  /\ At(h, "S")
  /\ ssip[h]
  /\ ssip' = [ssip EXCEPT ![h] = FALSE]
  /\ UNCHANGED <<ownVars, poolVars, mbox, cur, ran, histVars>>

\* mret to the supervisor; the call's locals die.
Return(h) ==
  /\ Goto(h, "S")
  /\ cmd'  = [cmd EXCEPT ![h] = NoCmd]
  /\ slot' = [slot EXCEPT ![h] = 0]
  /\ UNCHANGED <<calls, mask>>

-----------------------------------------------------------------------------
(***************************************************************************)
(* SEND_IPI, in assembly: highest hart first, no polling while it waits.   *)
(***************************************************************************)
SignalOne(h) ==
  /\ At(h, "signal")
  /\ \E t \in Highest(mask[h]) :
       /\ IF t = h
          THEN ssip' = [ssip EXCEPT ![h] = TRUE] /\ UNCHANGED mbox
          ELSE /\ mbox[h][t] = NoCmd
               /\ mbox' = [mbox EXCEPT ![h][t] = SIGNAL]
               /\ UNCHANGED ssip
       /\ mask' = [mask EXCEPT ![h] = @ \ {t}]
  /\ UNCHANGED <<pc, calls, slot, cmd, poolVars, cur, ran, histVars>>

SignalDone(h) ==
  /\ At(h, "signal")
  /\ mask[h] = {}
  /\ Return(h)
  /\ UNCHANGED <<poolVars, mbox, recvVars, histVars>>

-----------------------------------------------------------------------------
(***************************************************************************)
(* ipi_alloc_msg: probe, claim, and undo a claim that lost the race.       *)
(***************************************************************************)
AllocProbe(h) ==
  /\ At(h, "probe")
  /\ Goto(h, IF cnt[slot[h]] = 0 THEN "claim" ELSE "next")
  /\ UNCHANGED <<calls, mask, slot, cmd, poolVars, mbox, recvVars, histVars>>

AllocClaim_Unchecked(h) ==
  /\ At(h, "claim")
  /\ Add(slot[h], 1)
  /\ Goto(h, "fill")
  /\ cmd' = [cmd EXCEPT ![h] = Msg(slot[h])]
  /\ UNCHANGED <<calls, mask, slot, content, mbox, recvVars, histVars>>
AllocClaim(h) ==
  /\ At(h, "claim")
  /\ Add(slot[h], 1)
  /\ IF cnt[slot[h]] = 0
     THEN Goto(h, "fill") /\ cmd' = [cmd EXCEPT ![h] = Msg(slot[h])]
     ELSE Goto(h, "undo") /\ UNCHANGED cmd
  /\ UNCHANGED <<calls, mask, slot, content, mbox, recvVars, histVars>>

AllocUndo_Kept(h) ==
  /\ At(h, "undo")
  /\ Goto(h, "next")
  /\ UNCHANGED <<calls, mask, slot, cmd, poolVars, mbox, recvVars, histVars>>
AllocUndo(h) ==
  /\ At(h, "undo")
  /\ Add(slot[h], -1)
  /\ Goto(h, "next")
  /\ UNCHANGED <<calls, mask, slot, cmd, content, mbox, recvVars, histVars>>

\* The next slot; one incoming word is processed each time round the pool.
AllocNext(h) ==
  /\ At(h, "next")
  /\ Goto(h, "probe")
  /\ slot' = [slot EXCEPT ![h] = (@ + 1) % PoolSize]
  /\ IF slot'[h] = 0 /\ MailFor(h) # {}
     THEN ReadMail(h)
     ELSE UNCHANGED <<mbox, recvVars>>
  /\ UNCHANGED <<calls, mask, cmd, poolVars, histVars>>

\* The owner writes handler_msg and the rfence payload.
Fill(h) ==
  /\ At(h, "fill")
  /\ content' = [content EXCEPT ![Slot(cmd[h])] = Request(h)]
  /\ asked'   = asked \cup {Request(h)}
  /\ todo'    = [t \in Harts |-> IF t \in mask[h] THEN todo[t] \cup {Request(h)}
                                                  ELSE todo[t]]
  /\ Goto(h, "local")
  /\ UNCHANGED <<calls, mask, slot, cmd, cnt, mbox, recvVars, fences>>

-----------------------------------------------------------------------------
(***************************************************************************)
(* ipi_send_cmd: the caller's own share first, then the others, lowest     *)
(* first.  A message (msg_cnt # 0) is counted before it is posted.         *)
(***************************************************************************)
CountRef_LocalOnly(h) == IF HasMsg(h) /\ pc[h] = "local" THEN Add(Slot(cmd[h]), 1) ELSE UNCHANGED cnt
CountRef(h) == IF HasMsg(h) THEN Add(Slot(cmd[h]), 1) ELSE UNCHANGED cnt

SendLocal_KeepsItself(h) ==
  /\ At(h, "local")
  /\ Goto(h, "send")
  /\ IF h \in mask[h]
     THEN CountRef(h) /\ Dispatch(h, cmd[h])
     ELSE UNCHANGED <<cnt, recvVars>>
  /\ UNCHANGED <<calls, mask, slot, cmd, content, mbox, histVars>>
SendLocal(h) ==
  /\ At(h, "local")
  /\ Goto(h, "send")
  /\ IF h \in mask[h]
     THEN CountRef(h) /\ Dispatch(h, cmd[h])
     ELSE UNCHANGED <<cnt, recvVars>>
  /\ mask' = [mask EXCEPT ![h] = @ \ {h}]
  /\ UNCHANGED <<calls, slot, cmd, content, mbox, histVars>>

\* The receiver still has this sender's previous word: keep receiving.
SendPoll_NoPolling(h) == FALSE
SendPoll(h) ==
  /\ At(h, "send")
  /\ \E t \in Lowest(mask[h]) : mbox[h][t] # NoCmd
  /\ ReadMail(h)
  /\ UNCHANGED <<ownVars, poolVars, histVars>>

SendCount_NotBusyTested(h) ==
  /\ At(h, "send")
  /\ mask[h] # {}
  /\ CountRef(h)
  /\ Goto(h, "post")
  /\ UNCHANGED <<calls, mask, slot, cmd, content, mbox, recvVars, histVars>>
SendCount(h) ==
  /\ At(h, "send")
  /\ \E t \in Lowest(mask[h]) : mbox[h][t] = NoCmd
  /\ CountRef(h)
  /\ Goto(h, "post")
  /\ UNCHANGED <<calls, mask, slot, cmd, content, mbox, recvVars, histVars>>

SendPost(h) ==
  /\ At(h, "post")
  /\ \E t \in Lowest(mask[h]) :
       /\ mbox' = [mbox EXCEPT ![h][t] = cmd[h]]
       /\ mask' = [mask EXCEPT ![h] = @ \ {t}]
  /\ Goto(h, "send")
  /\ UNCHANGED <<calls, slot, cmd, poolVars, recvVars, histVars>>

\* The caller drops its own reference (rfence) and returns: it does not
\* wait for the receivers.
SendDone(h) ==
  /\ At(h, "send")
  /\ mask[h] = {}
  /\ IF HasMsg(h) THEN Add(Slot(cmd[h]), -1) ELSE UNCHANGED cnt
  /\ Return(h)
  /\ UNCHANGED <<content, mbox, recvVars, histVars>>

-----------------------------------------------------------------------------
Receive(h) == TakeIpi(h) \/ RunHandler(h) \/ FreeHandled(h)

Alloc(h) == AllocProbe(h) \/ AllocClaim(h) \/ AllocUndo(h) \/ AllocNext(h)

Send(h) ==
  SendLocal(h) \/ SendPoll(h) \/ SendCount(h) \/ SendPost(h) \/ SendDone(h)

\* Everything the firmware does on hart h; the rest is the supervisor's choice.
Firmware(h) ==
  Receive(h) \/ SignalOne(h) \/ SignalDone(h) \/ Alloc(h) \/ Fill(h) \/ Send(h)

Supervisor(h) ==
  \/ ClearIpi(h)
  \/ \E m \in Masks : EcallSendIpi(h, m) \/ EcallFenceI(h, m) \/ EcallRfence(h, m)

Next == \E h \in Harts : Firmware(h) \/ Supervisor(h)

\* Harts are real processors: none stops between two instructions.
Spec == Init /\ [][Next]_vars /\ \A h \in Harts : WF_vars(Firmware(h))

-----------------------------------------------------------------------------
(***************************************************************************)
(* Correctness.                                                            *)
(***************************************************************************)

\* The places from which slot s is referred to: its owner, claims that lost
\* the race and are not undone, counted sends not posted yet, mailbox words,
\* and handlers running.
Owners(s)    == { h \in Harts : cmd[h] = Msg(s) }
LostClaims(s) == { h \in Harts : pc[h] = "undo" /\ slot[h] = s }
Counted(s)   == { h \in Owners(s) : pc[h] = "post" }
Posted(s)    == { p \in Harts \X Harts : mbox[p[1]][p[2]] = Msg(s) }
Running(s)   == { h \in Harts : cur[h] = Msg(s) }

Refs(s) ==
  Cardinality(Owners(s)) + Cardinality(LostClaims(s)) + Cardinality(Counted(s))
    + Cardinality(Posted(s)) + Cardinality(Running(s))

PCs == {"S", "signal", "probe", "claim", "undo", "next", "fill", "local",
        "send", "post"}

\* The type of the state; the values every location of the code can hold.
TypeOK ==
  /\ pc      \in [Harts -> PCs]
  /\ calls   \in [Harts -> 0 .. MaxCalls]
  /\ mask    \in [Harts -> SUBSET Harts]
  /\ slot    \in [Harts -> Slots]
  /\ cmd     \in [Harts -> {NoCmd, FENCE_I} \cup MsgCmds]
  /\ cnt     \in [Slots -> Int]
  /\ content \in [Slots -> Requests]
  /\ mbox    \in [Harts -> [Harts -> {NoCmd, SIGNAL, FENCE_I} \cup MsgCmds]]
  /\ cur     \in [Harts -> {NoCmd} \cup MsgCmds]
  /\ ran     \in [Harts -> BOOLEAN]
  /\ ssip    \in [Harts -> BOOLEAN]
  /\ asked   \in SUBSET Requests
  /\ todo    \in [Harts -> SUBSET Requests]
  /\ fences  \in [Harts -> Nat]

\* shared_cnt is exact: it counts the owner, the claims about to be undone,
\* the sends counted but not posted, the words in mailboxes and the handlers
\* running, each once.  ipi_alloc_msg, ipi_send_cmd and the two places that
\* free keep it so under every interleaving.
RefCountExact == \A s \in Slots : cnt[s] = Refs(s)

\* A pool slot has one owner: the atomic add that follows the plain read of
\* shared_cnt decides the race between two allocations (ipi.c:115-121).
OneOwner ==
  \A h, k \in Harts : HasMsg(h) /\ cmd[h] = cmd[k] => h = k

\* The handler and payload of a message are never rewritten while a word for
\* it is in a mailbox or its handler runs somewhere, although the caller that
\* filled it has long returned (mtrap.c:249-276 free right after sending).
PayloadStable ==
  [][ \A s \in Slots :
        content'[s] # content[s] => Posted(s) = {} /\ Running(s) = {} ]_vars

\* The facts that make the above inductive: which locations own a message or
\* carry a command; a message being filled is referred to by nobody else; the
\* mailbox a counted word goes to is still empty when it is posted.
PcCmd ==
  \A h \in Harts :
    /\ pc[h] \in {"S", "signal", "probe", "claim", "undo", "next"} => cmd[h] = NoCmd
    /\ pc[h] = "fill" => HasMsg(h)
    /\ pc[h] \in {"local", "send", "post"} => cmd[h] # NoCmd

FillExclusive ==
  \A h \in Harts, s \in Slots :
    pc[h] = "fill" /\ cmd[h] = Msg(s) => Posted(s) = {} /\ Running(s) = {}

PostTargetFree ==
  \A h \in Harts :
    pc[h] = "post" => \A t \in Lowest(mask[h]) : mbox[h][t] = NoCmd

IInv ==
  /\ TypeOK
  /\ RefCountExact
  /\ OneOwner
  /\ PcCmd
  /\ FillExclusive
  /\ PostTargetFree

\* A word in a mailbox is never overwritten by a later one: the busy test is
\* made before the count and the write that it protects (ipi.c:44-51).
MailNotOverwritten ==
  [][ \A s, r \in Harts :
        mbox[s][r] # NoCmd => mbox'[s][r] \in {NoCmd, mbox[s][r]} ]_vars

\* No hart waits for ever on another: every call into the firmware returns,
\* whichever harts call at the same time (the comment at ipi.c:43).
CallsReturn == \A h \in Harts : pc[h] # "S" ~> pc[h] = "S"

\* A signal written to a mailbox becomes the receiver's pending software
\* interrupt, also when the receiver reads it while polling (ipi.c:94-95).
SignalsArrive ==
  \A s, r \in Harts : mbox[s][r] = SIGNAL ~> ssip[r]

\* The service of this module: every fence asked for is run once by each
\* target.  See RemoteFence.
Abstract == INSTANCE RemoteFence
ImplementsRemoteFence == Abstract!Spec

=============================================================================
