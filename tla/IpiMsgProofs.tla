---------------------------- MODULE IpiMsgProofs ----------------------------
(***************************************************************************)
(* Proofs about IpiMsg for any number of harts, any pool size, any masks   *)
(* and any number of calls.                                                *)
(*                                                                         *)
(* The inductive invariant is IInv.  Reference counting is proved by       *)
(* following, for each action, which of the five sets of references to a   *)
(* slot gain or lose an element.  That the messages do what RemoteFence    *)
(* promises needs a second one, Delivery, which follows a message from its *)
(* owner to the handler.                                                   *)
(***************************************************************************)
EXTENDS IpiMsg, FiniteSetTheorems, TLAPS

USE HartsAssumption, PoolAssumption, CallsAssumption

-----------------------------------------------------------------------------
(* Finite sets and their sizes. *)

\* The harts, and the pairs of a sender and a receiver, are finitely many.
LEMMA HartsFinite == IsFiniteSet(Harts) /\ IsFiniteSet(Harts \X Harts)
<1>1. IsFiniteSet(Harts)
  BY FS_Interval DEF Harts
<1>2. IsFiniteSet(Harts \X Harts)
  BY <1>1, FS_Product
<1>. QED
  BY <1>1, <1>2

\* A set of harts, or of such pairs, has a natural number of elements, and
\* none only if it is empty.
LEMMA SizeIsNat ==
  ASSUME NEW S, S \in SUBSET Harts \/ S \in SUBSET (Harts \X Harts)
  PROVE  /\ IsFiniteSet(S)
         /\ Cardinality(S) \in Nat
         /\ Cardinality(S) = 0 => S = {}
<1>1. IsFiniteSet(S)
  BY HartsFinite, FS_Subset
<1>. QED
  BY <1>1, FS_CardinalityType, FS_EmptySet

\* One more reference, one more in the count; one less, one less.
LEMMA OneMore ==
  ASSUME NEW S, S \in SUBSET Harts \/ S \in SUBSET (Harts \X Harts),
         NEW x, x \notin S
  PROVE  Cardinality(S \cup {x}) = Cardinality(S) + 1
BY SizeIsNat, FS_AddElement

LEMMA OneLess ==
  ASSUME NEW S, S \in SUBSET Harts \/ S \in SUBSET (Harts \X Harts),
         NEW x \in S
  PROVE  Cardinality(S \ {x}) = Cardinality(S) - 1
BY SizeIsNat, FS_RemoveElement

\* The five sets of references to a slot are sets of harts or of pairs.
LEMMA RefSets ==
  ASSUME NEW s
  PROVE  /\ Owners(s) \in SUBSET Harts
         /\ LostClaims(s) \in SUBSET Harts
         /\ Counted(s) \in SUBSET Harts
         /\ Posted(s) \in SUBSET (Harts \X Harts)
         /\ Running(s) \in SUBSET Harts
BY DEF Owners, LostClaims, Counted, Posted, Running

-----------------------------------------------------------------------------
(* Type correctness. *)

LEMMA TypeInit == Init => TypeOK
<1>1. 0 \in Slots /\ 0 \in 0 .. MaxCalls /\ 0 \in Harts
  BY DEF Slots, Harts
<1>2. <<0, 0>> \in Requests
  BY <1>1 DEF Requests
<1>. QED
  BY <1>1, <1>2 DEF Init, TypeOK, PCs

\* What receiving a word writes.
LEMMA DispatchType ==
  ASSUME TypeOK, NEW h \in Harts, NEW c, Dispatch(h, c)
  PROVE  /\ cur'  \in [Harts -> {NoCmd} \cup MsgCmds]
         /\ ran'  \in [Harts -> BOOLEAN]
         /\ ssip' \in [Harts -> BOOLEAN]
BY DEF TypeOK, Dispatch

LEMMA AddType ==
  ASSUME TypeOK, NEW s, NEW n \in Int, Add(s, n)
  PROVE  cnt' \in [Slots -> Int]
<1>1. CASE s \in Slots
  BY <1>1 DEF TypeOK, Add
<1>2. CASE s \notin Slots
  BY <1>2 DEF TypeOK, Add
<1>. QED
  BY <1>1, <1>2

LEMMA CountRefType ==
  ASSUME TypeOK, NEW h \in Harts, CountRef(h)
  PROVE  cnt' \in [Slots -> Int]
BY AddType DEF TypeOK, CountRef

LEMMA ReadMailType ==
  ASSUME TypeOK, NEW h \in Harts, ReadMail(h)
  PROVE  /\ mbox' \in [Harts -> [Harts -> {NoCmd, SIGNAL, FENCE_I} \cup MsgCmds]]
         /\ cur'  \in [Harts -> {NoCmd} \cup MsgCmds]
         /\ ran'  \in [Harts -> BOOLEAN]
         /\ ssip' \in [Harts -> BOOLEAN]
<1>1. PICK s \in MailFor(h) : /\ mbox' = [mbox EXCEPT ![s][h] = NoCmd]
                              /\ Dispatch(h, mbox[s][h])
  BY DEF ReadMail
<1>2. mbox' \in [Harts -> [Harts -> {NoCmd, SIGNAL, FENCE_I} \cup MsgCmds]]
  BY <1>1 DEF TypeOK, MailFor
<1>. QED
  BY <1>1, <1>2, DispatchType

LEMMA PostType ==
  ASSUME TypeOK, NEW h \in Harts, NEW t \in Harts,
         NEW c \in {NoCmd, SIGNAL, FENCE_I} \cup MsgCmds,
         mbox' = [mbox EXCEPT ![h][t] = c]
  PROVE  mbox' \in [Harts -> [Harts -> {NoCmd, SIGNAL, FENCE_I} \cup MsgCmds]]
BY DEF TypeOK

\* Every action writes values of the type of the variable it writes.
LEMMA TypeNext == TypeOK /\ [Next]_vars => TypeOK'
<1>. SUFFICES ASSUME TypeOK, [Next]_vars
              PROVE  TypeOK'
  OBVIOUS
<1>. USE DEF TypeOK, PCs, ownVars, poolVars, recvVars, histVars, At, Goto
<1>1. ASSUME NEW h \in Harts, Receive(h)
      PROVE  TypeOK'
  <2>1. CASE TakeIpi(h)
    BY <2>1, ReadMailType DEF TakeIpi
  <2>2. CASE RunHandler(h)
    BY <2>2 DEF RunHandler
  <2>3. CASE FreeHandled(h)
    BY <2>3, AddType DEF FreeHandled
  <2>. QED
    BY <1>1, <2>1, <2>2, <2>3 DEF Receive
<1>2. ASSUME NEW h \in Harts, SignalOne(h) \/ SignalDone(h)
      PROVE  TypeOK'
  <2>1. CASE SignalOne(h)
    <3>1. PICK t \in Highest(mask[h]) :
            /\ IF t = h
               THEN ssip' = [ssip EXCEPT ![h] = TRUE] /\ UNCHANGED mbox
               ELSE /\ mbox[h][t] = NoCmd
                    /\ mbox' = [mbox EXCEPT ![h][t] = SIGNAL]
                    /\ UNCHANGED ssip
            /\ mask' = [mask EXCEPT ![h] = @ \ {t}]
      BY <2>1 DEF SignalOne
    <3>2. /\ mask' \in [Harts -> SUBSET Harts]
          /\ ssip' \in [Harts -> BOOLEAN]
      BY <3>1
    <3>3. mbox' \in [Harts -> [Harts -> {NoCmd, SIGNAL, FENCE_I} \cup MsgCmds]]
      <4>1. CASE t = h
        BY <3>1, <4>1
      <4>2. CASE t # h /\ t \in Harts
        BY <3>1, <4>2, PostType
      <4>. QED
        BY <4>1, <4>2 DEF Highest
    <3>. QED
      BY <2>1, <3>2, <3>3 DEF SignalOne
  <2>2. CASE SignalDone(h)
    <3>1. cmd' \in [Harts -> {NoCmd, FENCE_I} \cup MsgCmds]
      BY <2>2 DEF SignalDone, Return
    <3>2. slot' \in [Harts -> Slots]
      BY <2>2 DEF SignalDone, Return, Slots
    <3>. QED
      BY <2>2, <3>1, <3>2 DEF SignalDone, Return
  <2>. QED
    BY <1>2, <2>1, <2>2
<1>3. ASSUME NEW h \in Harts, Alloc(h)
      PROVE  TypeOK'
  <2>1. CASE AllocProbe(h)
    BY <2>1 DEF AllocProbe
  <2>2. CASE AllocClaim(h)
    <3>1. slot[h] \in Slots
      OBVIOUS
    <3>2. cnt' \in [Slots -> Int]
      BY <2>2, AddType DEF AllocClaim
    <3>3. cmd' \in [Harts -> {NoCmd, FENCE_I} \cup MsgCmds]
      BY <2>2, <3>1 DEF AllocClaim, MsgCmds
    <3>4. pc' = [pc EXCEPT ![h] = "fill"] \/ pc' = [pc EXCEPT ![h] = "undo"]
      BY <2>2 DEF AllocClaim
    <3>5. pc' \in [Harts -> PCs]
      BY <3>4
    <3>. QED
      BY <2>2, <3>2, <3>3, <3>5 DEF AllocClaim
  <2>3. CASE AllocUndo(h)
    BY <2>3, AddType DEF AllocUndo
  <2>4. CASE AllocNext(h)
    <3>1. slot' \in [Harts -> Slots]
      BY <2>4 DEF AllocNext, Slots
    <3>. QED
      BY <2>4, <3>1, ReadMailType DEF AllocNext
  <2>. QED
    BY <1>3, <2>1, <2>2, <2>3, <2>4 DEF Alloc
<1>4. ASSUME NEW h \in Harts, Fill(h)
      PROVE  TypeOK'
  <2>1. Request(h) \in Requests
    BY DEF Request, Requests
  <2>2. content' \in [Slots -> Requests]
    BY <1>4, <2>1 DEF Fill
  <2>3. asked' \in SUBSET Requests /\ todo' \in [Harts -> SUBSET Requests]
    BY <1>4, <2>1 DEF Fill
  <2>. QED
    BY <1>4, <2>2, <2>3 DEF Fill
<1>5. ASSUME NEW h \in Harts, Send(h)
      PROVE  TypeOK'
  <2>1. CASE SendLocal(h)
    <3>1. CASE h \in mask[h]
      <4>1. cnt' \in [Slots -> Int]
        BY <2>1, <3>1, CountRefType DEF SendLocal
      <4>2. /\ cur'  \in [Harts -> {NoCmd} \cup MsgCmds]
            /\ ran'  \in [Harts -> BOOLEAN]
            /\ ssip' \in [Harts -> BOOLEAN]
        BY <2>1, <3>1, DispatchType DEF SendLocal
      <4>. QED
        BY <2>1, <4>1, <4>2 DEF SendLocal
    <3>2. CASE h \notin mask[h]
      BY <2>1, <3>2 DEF SendLocal
    <3>. QED
      BY <3>1, <3>2
  <2>2. CASE SendPoll(h)
    BY <2>2, ReadMailType DEF SendPoll
  <2>3. CASE SendCount(h)
    BY <2>3, CountRefType DEF SendCount
  <2>4. CASE SendPost(h)
    BY <2>4 DEF SendPost, Lowest
  <2>5. CASE SendDone(h)
    <3>1. cnt' \in [Slots -> Int]
      BY <2>5, AddType DEF SendDone
    <3>2. cmd' \in [Harts -> {NoCmd, FENCE_I} \cup MsgCmds]
      BY <2>5 DEF SendDone, Return
    <3>3. slot' \in [Harts -> Slots]
      BY <2>5 DEF SendDone, Return, Slots
    <3>. QED
      BY <2>5, <3>1, <3>2, <3>3 DEF SendDone, Return
  <2>. QED
    BY <1>5, <2>1, <2>2, <2>3, <2>4, <2>5 DEF Send
<1>6. ASSUME NEW h \in Harts, Supervisor(h)
      PROVE  TypeOK'
  <2>1. CASE ClearIpi(h)
    BY <2>1 DEF ClearIpi
  <2>2. ASSUME NEW kind, NEW m \in Masks, NEW at \in PCs, NEW c \in {NoCmd, FENCE_I},
               EnterCall(h, kind, m, at, c), slot' \in [Harts -> Slots]
        PROVE  TypeOK'
    <3>1. m \in SUBSET Harts
      OBVIOUS
    <3>2. calls' \in [Harts -> 0 .. MaxCalls]
      BY <2>2 DEF EnterCall, CanCall
    <3>. QED
      BY <2>2, <3>1, <3>2 DEF EnterCall
  <2>3. h % PoolSize \in Slots
    BY DEF Harts, Slots
  <2>4. ASSUME NEW m \in Masks, EcallSendIpi(h, m)
        PROVE  TypeOK'
    BY <2>2, <2>4 DEF EcallSendIpi
  <2>5. ASSUME NEW m \in Masks, EcallFenceI(h, m)
        PROVE  TypeOK'
    BY <2>2, <2>5 DEF EcallFenceI
  <2>6. ASSUME NEW m \in Masks, EcallRfence(h, m)
        PROVE  TypeOK'
    BY <2>2, <2>3, <2>6 DEF EcallRfence
  <2>. QED
    BY <1>6, <2>1, <2>4, <2>5, <2>6 DEF Supervisor
<1>7. CASE UNCHANGED vars
  BY <1>7 DEF vars
<1>. QED
  BY <1>1, <1>2, <1>3, <1>4, <1>5, <1>6, <1>7 DEF Next, Firmware

\* Every reachable state of the firmware has the type TypeOK states.
THEOREM TypeCorrect == Spec => []TypeOK
BY TypeInit, TypeNext, PTL DEF Spec

-----------------------------------------------------------------------------
(* Command codes. *)

\* Message commands are told from the others, and from one another, by code.
LEMMA Codes ==
  /\ \A s \in Slots : Msg(s) \in MsgCmds /\ Slot(Msg(s)) = s
  /\ \A c \in MsgCmds : Slot(c) \in Slots /\ Msg(Slot(c)) = c
  /\ \A s, r \in Slots : Msg(s) = Msg(r) => s = r
  /\ NoCmd \notin MsgCmds /\ SIGNAL \notin MsgCmds /\ FENCE_I \notin MsgCmds
  /\ NoCmd # SIGNAL /\ NoCmd # FENCE_I
BY DEF Slots, MsgCmds, Msg, Slot, NoCmd, SIGNAL, FENCE_I

-----------------------------------------------------------------------------
(* Reference counting. *)

\* The count of s follows its references when neither changes, when a set of
\* references gains an element, and when one loses an element.
SameRefs(s) ==
  /\ Owners(s)' = Owners(s)
  /\ LostClaims(s)' = LostClaims(s)
  /\ Counted(s)' = Counted(s)
  /\ Posted(s)' = Posted(s)
  /\ Running(s)' = Running(s)

LEMMA SameRefsSameCount ==
  ASSUME NEW s, SameRefs(s)
  PROVE  Refs(s)' = Refs(s)
BY DEF SameRefs, Refs

\* A slot nobody counts is referred to by nobody.
LEMMA NoRefs ==
  ASSUME NEW s, Refs(s) = 0
  PROVE  /\ Owners(s) = {} /\ LostClaims(s) = {} /\ Counted(s) = {}
         /\ Posted(s) = {} /\ Running(s) = {}
<1>. DEFINE o == Cardinality(Owners(s))
            l == Cardinality(LostClaims(s))
            c == Cardinality(Counted(s))
            p == Cardinality(Posted(s))
            r == Cardinality(Running(s))
<1>1. o \in Nat /\ l \in Nat /\ c \in Nat /\ p \in Nat /\ r \in Nat
  BY RefSets, SizeIsNat
<1>2. o + l + c + p + r = 0
  BY DEF Refs
<1>. HIDE DEF o, l, c, p, r
<1>3. o = 0 /\ l = 0 /\ c = 0 /\ p = 0 /\ r = 0
  BY <1>1, <1>2
<1>. QED
  BY <1>3, RefSets, SizeIsNat DEF o, l, c, p, r

\* Reading a mailbox turns a posted reference into a running one.
LEMMA ReadMailRefs ==
  ASSUME TypeOK, NEW h \in Harts, cur[h] = NoCmd, ReadMail(h), NEW s \in Slots
  PROVE  /\ Cardinality(Posted(s)') + Cardinality(Running(s)')
              = Cardinality(Posted(s)) + Cardinality(Running(s))
         /\ Posted(s)' \subseteq Posted(s)
         /\ Posted(s) = {} => Running(s)' = Running(s)
         /\ \A a, b \in Harts : mbox[a][b] = NoCmd => mbox'[a][b] = NoCmd
<1>1. PICK a \in Harts : /\ mbox[a][h] # NoCmd
                        /\ mbox' = [mbox EXCEPT ![a][h] = NoCmd]
                        /\ Dispatch(h, mbox[a][h])
  BY DEF ReadMail, MailFor
<1>2. \A x, y \in Harts : mbox'[x][y] = IF x = a /\ y = h THEN NoCmd ELSE mbox[x][y]
  BY <1>1 DEF TypeOK
<1>3. \A k \in Harts : cur'[k] = IF k = h /\ mbox[a][h] \in MsgCmds
                                  THEN mbox[a][h] ELSE cur[k]
  BY <1>1 DEF Dispatch, TypeOK
<1>4. NoCmd # Msg(s) /\ Msg(s) \in MsgCmds
  BY Codes
<1>5. CASE mbox[a][h] = Msg(s)
  <2>1. Posted(s)' = Posted(s) \ {<<a, h>>} /\ <<a, h>> \in Posted(s)
    BY <1>2, <1>4, <1>5 DEF Posted
  <2>2. Running(s)' = Running(s) \cup {h} /\ h \notin Running(s)
    BY <1>3, <1>4, <1>5 DEF Running
  <2>3. /\ Cardinality(Posted(s)') = Cardinality(Posted(s)) - 1
        /\ Cardinality(Running(s)') = Cardinality(Running(s)) + 1
    BY <2>1, <2>2, OneLess, OneMore, RefSets
  <2>4. Cardinality(Posted(s)) \in Nat /\ Cardinality(Running(s)) \in Nat
    BY RefSets, SizeIsNat
  <2>. QED
    BY <1>2, <2>1, <2>3, <2>4
<1>6. CASE mbox[a][h] # Msg(s)
  <2>1. Posted(s)' = Posted(s)
    BY <1>2, <1>4, <1>6 DEF Posted
  <2>2. Running(s)' = Running(s)
    BY <1>3, <1>4, <1>6 DEF Running
  <2>. QED
    BY <1>2, <2>1, <2>2
<1>. QED
  BY <1>5, <1>6

-----------------------------------------------------------------------------
(* Preservation of IInv, one lemma per action or group of actions. *)

LEMMA InitIInv == Init => IInv
<1>. SUFFICES ASSUME Init
              PROVE  IInv
  OBVIOUS
<1>1. TypeOK
  BY TypeInit
<1>2. RefCountExact
  <2>. SUFFICES ASSUME NEW s \in Slots
                PROVE  cnt[s] = Refs(s)
    BY DEF RefCountExact
  <2>1. /\ Owners(s) = {} /\ LostClaims(s) = {} /\ Counted(s) = {}
        /\ Posted(s) = {} /\ Running(s) = {}
    BY Codes DEF Init, Owners, LostClaims, Counted, Posted, Running
  <2>. QED
    BY <2>1, FS_EmptySet DEF Init, Refs
<1>3. OneOwner /\ PcCmd /\ FillExclusive /\ PostTargetFree
  BY Codes DEF Init, OneOwner, PcCmd, FillExclusive, PostTargetFree, HasMsg
<1>. QED
  BY <1>1, <1>2, <1>3 DEF IInv

\* Steps that leave pc, cmd, slot, cnt, mbox and cur alone leave all of IInv
\* but the type alone.
LEMMA QuietStep ==
  ASSUME IInv, TypeOK',
         UNCHANGED <<pc, cmd, slot, cnt, mbox, cur>>, UNCHANGED mask
  PROVE  IInv'
<1>1. \A s \in Slots : Refs(s)' = Refs(s)
  BY DEF Refs, Owners, LostClaims, Counted, Posted, Running
<1>. QED
  BY <1>1 DEF IInv, RefCountExact, OneOwner, PcCmd, FillExclusive, PostTargetFree,
              HasMsg, Posted, Running

\* A signal goes into an empty mailbox and refers to no message.
LEMMA SignalStep ==
  ASSUME IInv, TypeOK', NEW h \in Harts, SignalOne(h) \/ SignalDone(h)
  PROVE  IInv'
<1>. USE DEF IInv, At
<1>1. CASE SignalOne(h)
  <2>1. /\ UNCHANGED <<pc, cmd, slot, cnt, cur>>
        /\ pc[h] = "signal"
        /\ \A k \in Harts : k # h => mask'[k] = mask[k]
        /\ \A a, b \in Harts : \/ mbox'[a][b] = mbox[a][b]
                               \/ a = h /\ mbox[a][b] = NoCmd /\ mbox'[a][b] = SIGNAL
    <3>1. PICK t \in Highest(mask[h]) :
            /\ IF t = h
               THEN ssip' = [ssip EXCEPT ![h] = TRUE] /\ UNCHANGED mbox
               ELSE /\ mbox[h][t] = NoCmd
                    /\ mbox' = [mbox EXCEPT ![h][t] = SIGNAL]
                    /\ UNCHANGED ssip
            /\ mask' = [mask EXCEPT ![h] = @ \ {t}]
      BY <1>1 DEF SignalOne
    <3>. QED
      BY <1>1, <3>1 DEF SignalOne, TypeOK, poolVars
  <2>2. \A s \in Slots : Posted(s)' = Posted(s)
    BY <2>1, Codes DEF Posted
  <2>3. \A s \in Slots : SameRefs(s)
    BY <2>1, <2>2 DEF SameRefs, Owners, LostClaims, Counted, Running
  <2>4. RefCountExact'
    BY <2>1, <2>3, SameRefsSameCount DEF RefCountExact
  <2>5. FillExclusive'
    BY <2>1, <2>2 DEF FillExclusive, Running
  <2>6. PostTargetFree'
    BY <2>1 DEF PostTargetFree, Lowest, TypeOK
  <2>. QED
    BY <2>1, <2>4, <2>5, <2>6 DEF OneOwner, PcCmd, HasMsg
<1>2. CASE SignalDone(h)
  <2>1. /\ UNCHANGED <<mask, cnt, mbox, cur>>
        /\ pc[h] = "signal" /\ pc' = [pc EXCEPT ![h] = "S"]
        /\ \A k \in Harts : cmd'[k] = cmd[k]
        /\ \A k \in Harts : k # h => slot'[k] = slot[k]
    BY <1>2 DEF SignalDone, Return, Goto, PcCmd, TypeOK, poolVars, recvVars
  <2>2. \A s \in Slots : SameRefs(s)
    BY <2>1 DEF SameRefs, Owners, LostClaims, Counted, Posted, Running, TypeOK
  <2>3. RefCountExact'
    BY <2>1, <2>2, SameRefsSameCount DEF RefCountExact
  <2>. QED
    BY <2>1, <2>3 DEF OneOwner, PcCmd, FillExclusive, PostTargetFree, HasMsg,
                     Posted, Running, TypeOK
<1>. QED
  BY <1>1, <1>2

\* Entering a call: it owns nothing yet, and has not counted anything.
LEMMA CallStep ==
  ASSUME IInv, TypeOK', NEW h \in Harts, Supervisor(h)
  PROVE  IInv'
<1>. USE DEF IInv, At
<1>1. CASE ClearIpi(h)
  BY <1>1, QuietStep DEF ClearIpi, ownVars, poolVars
<1>2. CASE ~ClearIpi(h)
  <2>1. /\ pc[h] = "S"
        /\ \/ pc' = [pc EXCEPT ![h] = "signal"] /\ cmd' = [cmd EXCEPT ![h] = NoCmd]
           \/ pc' = [pc EXCEPT ![h] = "probe"]  /\ cmd' = [cmd EXCEPT ![h] = NoCmd]
           \/ pc' = [pc EXCEPT ![h] = "local"]  /\ cmd' = [cmd EXCEPT ![h] = FENCE_I]
        /\ \A k \in Harts : k # h => slot'[k] = slot[k] /\ mask'[k] = mask[k]
        /\ UNCHANGED <<cnt, mbox, cur>>
    BY <1>2 DEF Supervisor, EcallSendIpi, EcallFenceI, EcallRfence, EnterCall,
                CanCall, Goto, poolVars, recvVars, TypeOK
  <2>2. cmd[h] = NoCmd
    BY <2>1 DEF PcCmd
  <2>3. /\ \A k \in Harts : k # h => pc'[k] = pc[k] /\ cmd'[k] = cmd[k]
        /\ pc'[h] \in {"signal", "probe", "local"}
    BY <2>1 DEF TypeOK
  <2>4. \A s \in Slots : SameRefs(s)
    BY <2>1, <2>2, Codes DEF SameRefs, Owners, LostClaims, Counted, Posted, Running, TypeOK
  <2>5. RefCountExact'
    BY <2>1, <2>4, SameRefsSameCount DEF RefCountExact
  <2>6. OneOwner'
    BY <2>1, <2>2, Codes DEF OneOwner, HasMsg, TypeOK
  <2>7. PcCmd'
    BY <2>1, <2>2, Codes DEF PcCmd, HasMsg, TypeOK
  <2>8. FillExclusive'
    BY <2>1, <2>3 DEF FillExclusive, Posted, Running
  <2>9. PostTargetFree'
    BY <2>1, <2>3 DEF PostTargetFree, Lowest
  <2>. QED
    BY <2>5, <2>6, <2>7, <2>8, <2>9
<1>. QED
  BY <1>1, <1>2

\* Moving between the probes of ipi_alloc_msg, with or without receiving a
\* word, and receiving anywhere else.
Wander ==
  \A k \in Harts :
    \/ pc'[k] = pc[k] /\ (pc[k] = "undo" => slot'[k] = slot[k])
    \/ pc[k] \in {"probe", "next"} /\ pc'[k] \in {"probe", "claim", "next"}

LEMMA WanderStep ==
  ASSUME IInv, TypeOK', Wander, UNCHANGED <<cmd, mask, cnt>>,
         \A s \in Slots :
           /\ Cardinality(Posted(s)') + Cardinality(Running(s)')
                = Cardinality(Posted(s)) + Cardinality(Running(s))
           /\ Posted(s)' \subseteq Posted(s)
           /\ Posted(s) = {} => Running(s)' = Running(s),
         \A a, b \in Harts : mbox[a][b] = NoCmd => mbox'[a][b] = NoCmd
  PROVE  IInv'
<1>. USE DEF IInv
<1>1. \A s \in Slots :
        Owners(s)' = Owners(s) /\ LostClaims(s)' = LostClaims(s) /\ Counted(s)' = Counted(s)
  BY DEF Wander, Owners, LostClaims, Counted
<1>2. RefCountExact'
  <2>. SUFFICES ASSUME NEW s \in Slots
                PROVE  Refs(s)' = Refs(s)
    BY DEF RefCountExact
  <2>1. /\ Cardinality(Posted(s)) \in Nat /\ Cardinality(Running(s)) \in Nat
        /\ Cardinality(Posted(s)') \in Nat /\ Cardinality(Running(s)') \in Nat
        /\ Cardinality(Owners(s)) \in Nat /\ Cardinality(LostClaims(s)) \in Nat
        /\ Cardinality(Counted(s)) \in Nat
    <3>1. Posted(s)' \in SUBSET (Harts \X Harts) /\ Running(s)' \in SUBSET Harts
      BY DEF Posted, Running
    <3>. QED
      BY <3>1, RefSets, SizeIsNat
  <2>. QED
    BY <1>1, <2>1 DEF Refs
<1>3. OneOwner'
  BY DEF OneOwner, HasMsg
<1>4. PcCmd'
  BY DEF PcCmd, HasMsg, Wander
<1>5. FillExclusive'
  BY DEF FillExclusive, Wander
<1>6. PostTargetFree'
  <2>. SUFFICES ASSUME NEW h \in Harts, pc'[h] = "post", NEW t \in Lowest(mask[h])
                PROVE  mbox'[h][t] = NoCmd
    BY DEF PostTargetFree
  <2>1. pc[h] = "post"
    BY DEF Wander
  <2>2. t \in Harts
    BY DEF Lowest, TypeOK
  <2>. QED
    BY <2>1, <2>2 DEF PostTargetFree
<1>. QED
  BY <1>2, <1>3, <1>4, <1>5, <1>6

\* The same without a word received.
LEMMA WanderStepNoMail ==
  ASSUME IInv, TypeOK', Wander, UNCHANGED <<cmd, mask, cnt, mbox, cur>>
  PROVE  IInv'
<1>1. \A s \in Slots : Posted(s)' = Posted(s) /\ Running(s)' = Running(s)
  BY DEF Posted, Running
<1>. QED
  BY <1>1, WanderStep

\* The same with a word received.
LEMMA WanderStepMail ==
  ASSUME IInv, TypeOK', Wander, UNCHANGED <<cmd, mask, cnt>>,
         NEW h \in Harts, cur[h] = NoCmd, ReadMail(h)
  PROVE  IInv'
<1>1. TypeOK
  BY DEF IInv
<1>2. \A s \in Slots :
        /\ Cardinality(Posted(s)') + Cardinality(Running(s)')
             = Cardinality(Posted(s)) + Cardinality(Running(s))
        /\ Posted(s)' \subseteq Posted(s)
        /\ Posted(s) = {} => Running(s)' = Running(s)
  <2>. TAKE s \in Slots
  <2>. QED
    BY <1>1, ReadMailRefs
<1>3. \A a, b \in Harts : mbox[a][b] = NoCmd => mbox'[a][b] = NoCmd
  <2>1. 0 \in Slots
    BY DEF Slots
  <2>. QED
    BY <1>1, <2>1, ReadMailRefs
<1>. QED
  BY <1>2, <1>3, WanderStep

\* Receiving, running a handler, and looking for a slot.
LEMMA ReceiveStep ==
  ASSUME IInv, TypeOK', NEW h \in Harts,
         TakeIpi(h) \/ RunHandler(h) \/ SendPoll(h) \/ AllocProbe(h) \/ AllocNext(h)
  PROVE  IInv'
<1>. USE DEF ownVars, poolVars, recvVars, histVars, At, Goto
<1>1. TypeOK
  BY DEF IInv
<1>2. CASE TakeIpi(h)
  <2>1. cur[h] = NoCmd /\ ReadMail(h) /\ Wander /\ UNCHANGED <<cmd, mask, cnt>>
    BY <1>2 DEF TakeIpi, Wander
  <2>. QED
    BY <2>1, WanderStepMail
<1>3. CASE SendPoll(h)
  <2>1. cur[h] = NoCmd /\ ReadMail(h) /\ Wander /\ UNCHANGED <<cmd, mask, cnt>>
    BY <1>3 DEF SendPoll, Wander
  <2>. QED
    BY <2>1, WanderStepMail
<1>4. CASE RunHandler(h)
  BY <1>4, QuietStep DEF RunHandler
<1>5. CASE AllocProbe(h)
  <2>1. Wander /\ UNCHANGED <<cmd, mask, cnt, mbox, cur>>
    BY <1>1, <1>5 DEF AllocProbe, Wander, TypeOK
  <2>. QED
    BY <2>1, WanderStepNoMail
<1>6. CASE AllocNext(h)
  <2>1. cur[h] = NoCmd /\ Wander /\ UNCHANGED <<cmd, mask, cnt>>
    BY <1>1, <1>6 DEF AllocNext, Wander, TypeOK
  <2>2. CASE ReadMail(h)
    BY <2>1, <2>2, WanderStepMail
  <2>3. CASE UNCHANGED <<mbox, recvVars>>
    BY <2>1, <2>3, WanderStepNoMail
  <2>. QED
    BY <1>6, <2>2, <2>3 DEF AllocNext
<1>. QED
  BY <1>2, <1>3, <1>4, <1>5, <1>6

\* A handler's end takes one running reference away, and one from the count.
LEMMA FreeHandledStep ==
  ASSUME IInv, TypeOK', NEW h \in Harts, FreeHandled(h)
  PROVE  IInv'
<1>. DEFINE f == Slot(cur[h])
<1>. USE DEF IInv
<1>1. f \in Slots /\ cur[h] = Msg(f)
  BY Codes DEF FreeHandled, TypeOK
<1>2. /\ UNCHANGED <<pc, calls, mask, slot, cmd, content, mbox>>
      /\ \A s \in Slots : cnt'[s] = IF s = f THEN cnt[s] - 1 ELSE cnt[s]
      /\ \A k \in Harts : cur'[k] = IF k = h THEN NoCmd ELSE cur[k]
  BY DEF FreeHandled, Add, TypeOK, ownVars
<1>. HIDE DEF f
<1>3. RefCountExact'
  <2>. SUFFICES ASSUME NEW s \in Slots
                PROVE  cnt'[s] = Refs(s)'
    BY DEF RefCountExact
  <2>1. /\ Owners(s)' = Owners(s) /\ LostClaims(s)' = LostClaims(s)
        /\ Counted(s)' = Counted(s) /\ Posted(s)' = Posted(s)
    BY <1>2 DEF Owners, LostClaims, Counted, Posted
  <2>2. CASE s = f
    <3>1. Running(s)' = Running(s) \ {h} /\ h \in Running(s)
      BY <1>1, <1>2, <2>2, Codes DEF Running
    <3>2. Cardinality(Running(s)') = Cardinality(Running(s)) - 1
      BY <3>1, OneLess, RefSets
    <3>3. /\ Cardinality(Owners(s)) \in Nat /\ Cardinality(LostClaims(s)) \in Nat
          /\ Cardinality(Counted(s)) \in Nat /\ Cardinality(Posted(s)) \in Nat
          /\ Cardinality(Running(s)) \in Nat
      BY RefSets, SizeIsNat
    <3>. QED
      BY <1>2, <2>1, <2>2, <3>2, <3>3 DEF RefCountExact, Refs
  <2>3. CASE s # f
    <3>1. Running(s)' = Running(s)
      BY <1>1, <1>2, <2>3, Codes DEF Running
    <3>. QED
      BY <1>2, <2>1, <2>3, <3>1 DEF RefCountExact, Refs
  <2>. QED
    BY <2>2, <2>3
<1>4. FillExclusive'
  <2>1. \A s \in Slots : Running(s)' \subseteq Running(s) /\ Posted(s)' = Posted(s)
    BY <1>2, Codes DEF Running, Posted
  <2>. QED
    BY <1>2, <2>1 DEF FillExclusive
<1>. QED
  BY <1>2, <1>3, <1>4 DEF OneOwner, PcCmd, PostTargetFree, HasMsg

\* The five numbers that make up the count of a slot.
LEMMA RefsNat ==
  ASSUME NEW s
  PROVE  /\ Cardinality(Owners(s)) \in Nat /\ Cardinality(LostClaims(s)) \in Nat
         /\ Cardinality(Counted(s)) \in Nat /\ Cardinality(Posted(s)) \in Nat
         /\ Cardinality(Running(s)) \in Nat
BY RefSets, SizeIsNat

\* A claim makes the caller the owner of a slot nobody refers to, or leaves a
\* lost claim behind: one more reference either way.
LEMMA ClaimStep ==
  ASSUME IInv, TypeOK', NEW h \in Harts, AllocClaim(h)
  PROVE  IInv'
<1>. DEFINE f == slot[h]
<1>. USE DEF IInv
<1>1. /\ f \in Slots
      /\ pc[h] = "claim" /\ cmd[h] = NoCmd
      /\ UNCHANGED <<mask, slot, mbox, cur>>
      /\ \A s \in Slots : cnt'[s] = IF s = f THEN cnt[s] + 1 ELSE cnt[s]
      /\ \A k \in Harts : k # h => pc'[k] = pc[k] /\ cmd'[k] = cmd[k]
  BY DEF AllocClaim, At, Add, Goto, PcCmd, TypeOK, recvVars
<1>2. \/ cnt[f] = 0 /\ pc'[h] = "fill" /\ cmd'[h] = Msg(f)
      \/ cnt[f] # 0 /\ pc'[h] = "undo" /\ cmd'[h] = NoCmd
  BY <1>1 DEF AllocClaim, Goto, TypeOK
<1>3. cnt[f] = 0 => /\ Owners(f) = {} /\ Posted(f) = {} /\ Running(f) = {}
  BY <1>1, NoRefs DEF RefCountExact
<1>. HIDE DEF f
<1>4. RefCountExact'
  <2>. SUFFICES ASSUME NEW s \in Slots
                PROVE  cnt'[s] = Refs(s)'
    BY DEF RefCountExact
  <2>1. Posted(s)' = Posted(s) /\ Running(s)' = Running(s)
    BY <1>1 DEF Posted, Running
  <2>2. Counted(s)' = Counted(s)
    BY <1>1, <1>2 DEF Counted, Owners
  <2>3. CASE s # f
    <3>1. Owners(s)' = Owners(s)
      BY <1>1, <1>2, <2>3, Codes DEF Owners
    <3>2. LostClaims(s)' = LostClaims(s)
      BY <1>1, <1>2, <2>3 DEF LostClaims, f
    <3>. QED
      BY <1>1, <2>1, <2>2, <2>3, <3>1, <3>2 DEF RefCountExact, Refs
  <2>4. CASE s = f /\ cnt[f] = 0
    <3>1. Owners(s)' = Owners(s) \cup {h} /\ h \notin Owners(s)
      BY <1>1, <1>2, <2>4, Codes DEF Owners
    <3>2. LostClaims(s)' = LostClaims(s)
      BY <1>1, <1>2, <2>4 DEF LostClaims
    <3>3. Cardinality(Owners(s)') = Cardinality(Owners(s)) + 1
      BY <3>1, OneMore, RefSets
    <3>. QED
      BY <1>1, <2>1, <2>2, <2>4, <3>2, <3>3, RefsNat DEF RefCountExact, Refs
  <2>5. CASE s = f /\ cnt[f] # 0
    <3>1. Owners(s)' = Owners(s)
      BY <1>1, <1>2, <2>5 DEF Owners
    <3>2. LostClaims(s)' = LostClaims(s) \cup {h} /\ h \notin LostClaims(s)
      BY <1>1, <1>2, <2>5 DEF LostClaims, f
    <3>3. Cardinality(LostClaims(s)') = Cardinality(LostClaims(s)) + 1
      BY <3>2, OneMore, RefSets
    <3>. QED
      BY <1>1, <2>1, <2>2, <2>5, <3>1, <3>3, RefsNat DEF RefCountExact, Refs
  <2>. QED
    BY <2>3, <2>4, <2>5
<1>5. OneOwner'
  BY <1>1, <1>2, <1>3, Codes DEF OneOwner, HasMsg, Owners
<1>6. PcCmd'
  BY <1>1, <1>2, Codes DEF PcCmd, HasMsg
<1>7. FillExclusive'
  <2>1. \A s \in Slots : Posted(s)' = Posted(s) /\ Running(s)' = Running(s)
    BY <1>1 DEF Posted, Running
  <2>. QED
    BY <1>1, <1>2, <1>3, <2>1, Codes DEF FillExclusive
<1>8. PostTargetFree'
  BY <1>1, <1>2 DEF PostTargetFree
<1>. QED
  BY <1>4, <1>5, <1>6, <1>7, <1>8

\* Undoing a lost claim takes it out of the count.
LEMMA UndoStep ==
  ASSUME IInv, TypeOK', NEW h \in Harts, AllocUndo(h)
  PROVE  IInv'
<1>. DEFINE f == slot[h]
<1>. USE DEF IInv
<1>1. /\ f \in Slots
      /\ pc[h] = "undo" /\ pc'[h] = "next"
      /\ UNCHANGED <<mask, slot, cmd, mbox, cur>>
      /\ \A s \in Slots : cnt'[s] = IF s = f THEN cnt[s] - 1 ELSE cnt[s]
      /\ \A k \in Harts : k # h => pc'[k] = pc[k]
  BY DEF AllocUndo, At, Add, Goto, TypeOK, recvVars
<1>. HIDE DEF f
<1>2. \A s \in Slots :
        /\ Owners(s)' = Owners(s) /\ Counted(s)' = Counted(s)
        /\ Posted(s)' = Posted(s) /\ Running(s)' = Running(s)
  BY <1>1 DEF Owners, Counted, Posted, Running
<1>3. RefCountExact'
  <2>. SUFFICES ASSUME NEW s \in Slots
                PROVE  cnt'[s] = Refs(s)'
    BY DEF RefCountExact
  <2>1. CASE s # f
    <3>1. LostClaims(s)' = LostClaims(s)
      BY <1>1, <2>1 DEF LostClaims, f
    <3>. QED
      BY <1>1, <1>2, <2>1, <3>1 DEF RefCountExact, Refs
  <2>2. CASE s = f
    <3>1. LostClaims(s)' = LostClaims(s) \ {h} /\ h \in LostClaims(s)
      BY <1>1, <2>2 DEF LostClaims, f
    <3>2. Cardinality(LostClaims(s)') = Cardinality(LostClaims(s)) - 1
      BY <3>1, OneLess, RefSets
    <3>. QED
      BY <1>1, <1>2, <2>2, <3>2, RefsNat DEF RefCountExact, Refs
  <2>. QED
    BY <2>1, <2>2
<1>. QED
  BY <1>1, <1>2, <1>3 DEF OneOwner, PcCmd, FillExclusive, PostTargetFree, HasMsg

\* Writing the message changes no reference.
LEMMA FillStep ==
  ASSUME IInv, TypeOK', NEW h \in Harts, Fill(h)
  PROVE  IInv'
<1>. USE DEF IInv
<1>1. /\ pc[h] = "fill" /\ pc'[h] = "local"
      /\ UNCHANGED <<mask, slot, cmd, cnt, mbox, cur>>
      /\ \A k \in Harts : k # h => pc'[k] = pc[k]
  BY DEF Fill, At, Goto, TypeOK, recvVars
<1>2. \A s \in Slots : SameRefs(s)
  BY <1>1 DEF SameRefs, Owners, LostClaims, Counted, Posted, Running
<1>3. RefCountExact'
  BY <1>1, <1>2, SameRefsSameCount DEF RefCountExact
<1>4. PcCmd'
  BY <1>1, Codes DEF PcCmd, HasMsg
<1>5. FillExclusive'
  BY <1>1, <1>2 DEF FillExclusive, SameRefs
<1>. QED
  BY <1>1, <1>3, <1>4, <1>5 DEF OneOwner, PostTargetFree, HasMsg

\* Running one's own share of a message: counted and running in one step.
LEMMA LocalStep ==
  ASSUME IInv, TypeOK', NEW h \in Harts, SendLocal(h)
  PROVE  IInv'
<1>. USE DEF IInv
<1>1. /\ pc[h] = "local" /\ pc'[h] = "send" /\ cur[h] = NoCmd
      /\ cmd[h] # NoCmd
      /\ UNCHANGED <<slot, cmd, mbox>>
      /\ \A k \in Harts : k # h => pc'[k] = pc[k] /\ mask'[k] = mask[k]
  BY DEF SendLocal, At, Goto, TypeOK, PcCmd
<1>2. \A s \in Slots :
        /\ Owners(s)' = Owners(s) /\ LostClaims(s)' = LostClaims(s)
        /\ Counted(s)' = Counted(s) /\ Posted(s)' = Posted(s)
  BY <1>1 DEF Owners, LostClaims, Counted, Posted
<1>3. OneOwner' /\ PcCmd' /\ PostTargetFree'
  BY <1>1 DEF OneOwner, PcCmd, HasMsg, PostTargetFree, Lowest
<1>4. CASE h \in mask[h] /\ HasMsg(h)
  <2>1. PICK f \in Slots : cmd[h] = Msg(f) /\ Slot(cmd[h]) = f
    BY <1>4, Codes DEF HasMsg
  <2>2. /\ \A s \in Slots : cnt'[s] = IF s = f THEN cnt[s] + 1 ELSE cnt[s]
        /\ \A k \in Harts : cur'[k] = IF k = h THEN cmd[h] ELSE cur[k]
    BY <1>4, <2>1 DEF SendLocal, CountRef, HasMsg, Add, Dispatch, TypeOK
  <2>3. /\ Running(f)' = Running(f) \cup {h} /\ h \notin Running(f)
        /\ \A s \in Slots : s # f => Running(s)' = Running(s)
    BY <1>1, <2>1, <2>2, Codes DEF Running
  <2>4. Cardinality(Running(f)') = Cardinality(Running(f)) + 1
    BY <2>3, OneMore, RefSets
  <2>5. RefCountExact'
    <3>. SUFFICES ASSUME NEW s \in Slots
                  PROVE  cnt'[s] = Refs(s)'
      BY DEF RefCountExact
    <3>1. CASE s = f
      BY <1>2, <2>2, <2>4, <3>1, RefsNat DEF RefCountExact, Refs
    <3>2. CASE s # f
      BY <1>2, <2>2, <2>3, <3>2 DEF RefCountExact, Refs
    <3>. QED
      BY <3>1, <3>2
  <2>6. FillExclusive'
    <3>1. \A k \in Harts, s \in Slots :
            pc'[k] = "fill" /\ cmd[k] = Msg(s) => pc[k] = "fill" /\ s # f
      BY <1>1, <2>1, Codes DEF OneOwner, HasMsg
    <3>. QED
      BY <1>1, <1>2, <2>3, <3>1 DEF FillExclusive
  <2>. QED
    BY <1>3, <2>5, <2>6
<1>5. CASE ~(h \in mask[h] /\ HasMsg(h))
  <2>1. UNCHANGED <<cnt, cur>>
    BY <1>5, Codes DEF SendLocal, CountRef, HasMsg, Dispatch, recvVars
  <2>2. \A s \in Slots : Running(s)' = Running(s)
    BY <2>1 DEF Running
  <2>3. RefCountExact'
    BY <1>2, <2>1, <2>2 DEF RefCountExact, Refs
  <2>4. FillExclusive'
    BY <1>1, <1>2, <2>2 DEF FillExclusive
  <2>. QED
    BY <1>3, <2>3, <2>4
<1>. QED
  BY <1>4, <1>5

\* Counting a reference for a receiver whose mailbox is empty.
LEMMA CountStep ==
  ASSUME IInv, TypeOK', NEW h \in Harts, SendCount(h)
  PROVE  IInv'
<1>. USE DEF IInv
<1>1. /\ pc[h] = "send" /\ pc'[h] = "post"
      /\ cmd[h] # NoCmd
      /\ UNCHANGED <<mask, slot, cmd, mbox, cur>>
      /\ \A k \in Harts : k # h => pc'[k] = pc[k]
  BY DEF SendCount, At, Goto, TypeOK, PcCmd, recvVars
<1>2. \A t \in Lowest(mask[h]) : mbox[h][t] = NoCmd
  <2>1. PICK u \in Lowest(mask[h]) : mbox[h][u] = NoCmd
    BY DEF SendCount
  <2>2. \A t \in Lowest(mask[h]) : t = u
    BY <2>1 DEF Lowest, TypeOK, Harts
  <2>. QED
    BY <2>1, <2>2
<1>3. \A s \in Slots :
        /\ Owners(s)' = Owners(s) /\ LostClaims(s)' = LostClaims(s)
        /\ Posted(s)' = Posted(s) /\ Running(s)' = Running(s)
  BY <1>1 DEF Owners, LostClaims, Posted, Running
<1>4. RefCountExact'
  <2>1. CASE HasMsg(h)
    <3>1. PICK f \in Slots : cmd[h] = Msg(f) /\ Slot(cmd[h]) = f
      BY <2>1, Codes DEF HasMsg
    <3>2. \A s \in Slots : cnt'[s] = IF s = f THEN cnt[s] + 1 ELSE cnt[s]
      BY <2>1, <3>1 DEF SendCount, CountRef, Add, TypeOK
    <3>3. /\ Counted(f)' = Counted(f) \cup {h} /\ h \notin Counted(f)
          /\ \A s \in Slots : s # f => Counted(s)' = Counted(s)
      BY <1>1, <3>1, Codes DEF Counted, Owners
    <3>4. Cardinality(Counted(f)') = Cardinality(Counted(f)) + 1
      BY <3>3, OneMore, RefSets
    <3>. SUFFICES ASSUME NEW s \in Slots
                  PROVE  cnt'[s] = Refs(s)'
      BY DEF RefCountExact
    <3>5. CASE s = f
      BY <1>3, <3>2, <3>4, <3>5, RefsNat DEF RefCountExact, Refs
    <3>6. CASE s # f
      BY <1>3, <3>2, <3>3, <3>6 DEF RefCountExact, Refs
    <3>. QED
      BY <3>5, <3>6
  <2>2. CASE ~HasMsg(h)
    <3>1. \A s \in Slots : Counted(s)' = Counted(s)
      BY <1>1, <2>2, Codes DEF Counted, Owners, HasMsg
    <3>2. cnt' = cnt
      BY <2>2 DEF SendCount, CountRef
    <3>. QED
      BY <1>3, <3>1, <3>2 DEF RefCountExact, Refs
  <2>. QED
    BY <2>1, <2>2
<1>5. FillExclusive'
  BY <1>1, <1>3 DEF FillExclusive
<1>6. PostTargetFree'
  BY <1>1, <1>2 DEF PostTargetFree
<1>. QED
  BY <1>1, <1>4, <1>5, <1>6 DEF OneOwner, PcCmd, HasMsg

\* Posting turns the counted reference into a posted one.
LEMMA PostStep ==
  ASSUME IInv, TypeOK', NEW h \in Harts, SendPost(h)
  PROVE  IInv'
<1>. USE DEF IInv
<1>1. PICK t \in Lowest(mask[h]) :
        /\ mbox' = [mbox EXCEPT ![h][t] = cmd[h]]
        /\ mask' = [mask EXCEPT ![h] = @ \ {t}]
  BY DEF SendPost
<1>2. /\ pc[h] = "post" /\ pc'[h] = "send"
      /\ cmd[h] # NoCmd
      /\ t \in Harts /\ mbox[h][t] = NoCmd
      /\ UNCHANGED <<slot, cmd, cnt, cur>>
      /\ \A k \in Harts : k # h => pc'[k] = pc[k] /\ mask'[k] = mask[k]
      /\ \A a, b \in Harts : mbox'[a][b] = IF a = h /\ b = t THEN cmd[h] ELSE mbox[a][b]
  BY <1>1 DEF SendPost, At, Goto, TypeOK, PcCmd, Lowest, PostTargetFree, recvVars, poolVars
<1>3. \A s \in Slots :
        Owners(s)' = Owners(s) /\ LostClaims(s)' = LostClaims(s) /\ Running(s)' = Running(s)
  BY <1>2 DEF Owners, LostClaims, Running
<1>4. \A s \in Slots : cmd[h] # Msg(s) =>
        Counted(s)' = Counted(s) /\ Posted(s)' = Posted(s)
  BY <1>2, Codes DEF Counted, Owners, Posted
<1>5. RefCountExact'
  <2>. SUFFICES ASSUME NEW s \in Slots
                PROVE  Refs(s)' = Refs(s)
    BY <1>2 DEF RefCountExact
  <2>1. CASE cmd[h] = Msg(s)
    <3>1. Counted(s)' = Counted(s) \ {h} /\ h \in Counted(s)
      BY <1>2, <2>1 DEF Counted, Owners
    <3>2. Posted(s)' = Posted(s) \cup {<<h, t>>} /\ <<h, t>> \notin Posted(s)
      BY <1>2, <2>1, Codes DEF Posted
    <3>3. /\ Cardinality(Counted(s)') = Cardinality(Counted(s)) - 1
          /\ Cardinality(Posted(s)') = Cardinality(Posted(s)) + 1
      BY <3>1, <3>2, OneLess, OneMore, RefSets
    <3>. QED
      BY <1>3, <3>3, RefsNat DEF Refs
  <2>2. CASE cmd[h] # Msg(s)
    BY <1>3, <1>4, <2>2 DEF Refs
  <2>. QED
    BY <2>1, <2>2
<1>6. FillExclusive'
  <2>1. \A k \in Harts, s \in Slots :
          pc'[k] = "fill" /\ cmd[k] = Msg(s) => pc[k] = "fill" /\ cmd[h] # Msg(s)
    BY <1>2, Codes DEF OneOwner, HasMsg
  <2>. QED
    BY <1>2, <1>3, <1>4, <2>1 DEF FillExclusive
<1>7. PostTargetFree'
  <2>. SUFFICES ASSUME NEW k \in Harts, pc'[k] = "post", NEW u \in Lowest(mask'[k])
                PROVE  mbox'[k][u] = NoCmd
    BY DEF PostTargetFree
  <2>1. k # h /\ pc[k] = "post" /\ mask'[k] = mask[k]
    BY <1>2
  <2>2. u \in Lowest(mask[k]) /\ u \in Harts
    BY <2>1 DEF Lowest, TypeOK
  <2>3. mbox[k][u] = NoCmd
    BY <2>1, <2>2 DEF PostTargetFree
  <2>. QED
    BY <1>2, <2>1, <2>2, <2>3
<1>. QED
  BY <1>2, <1>5, <1>6, <1>7 DEF OneOwner, PcCmd, HasMsg

\* Returning gives the owner's reference up.
LEMMA DoneStep ==
  ASSUME IInv, TypeOK', NEW h \in Harts, SendDone(h)
  PROVE  IInv'
<1>. USE DEF IInv
<1>1. /\ pc[h] = "send" /\ pc'[h] = "S"
      /\ UNCHANGED <<mask, mbox, cur>>
      /\ \A k \in Harts : k # h => pc'[k] = pc[k] /\ slot'[k] = slot[k]
      /\ \A k \in Harts : cmd'[k] = IF k = h THEN NoCmd ELSE cmd[k]
  BY DEF SendDone, At, Return, Goto, TypeOK, recvVars
<1>2. \A s \in Slots :
        /\ LostClaims(s)' = LostClaims(s) /\ Counted(s)' = Counted(s)
        /\ Posted(s)' = Posted(s) /\ Running(s)' = Running(s)
  BY <1>1, Codes DEF LostClaims, Counted, Owners, Posted, Running
<1>3. RefCountExact'
  <2>1. CASE HasMsg(h)
    <3>1. PICK f \in Slots : cmd[h] = Msg(f) /\ Slot(cmd[h]) = f
      BY <2>1, Codes DEF HasMsg
    <3>2. \A s \in Slots : cnt'[s] = IF s = f THEN cnt[s] - 1 ELSE cnt[s]
      BY <2>1, <3>1 DEF SendDone, Add, TypeOK
    <3>3. /\ Owners(f)' = Owners(f) \ {h} /\ h \in Owners(f)
          /\ \A s \in Slots : s # f => Owners(s)' = Owners(s)
      BY <1>1, <3>1, Codes DEF Owners
    <3>4. Cardinality(Owners(f)') = Cardinality(Owners(f)) - 1
      BY <3>3, OneLess, RefSets
    <3>. SUFFICES ASSUME NEW s \in Slots
                  PROVE  cnt'[s] = Refs(s)'
      BY DEF RefCountExact
    <3>5. CASE s = f
      BY <1>2, <3>2, <3>4, <3>5, RefsNat DEF RefCountExact, Refs
    <3>6. CASE s # f
      BY <1>2, <3>2, <3>3, <3>6 DEF RefCountExact, Refs
    <3>. QED
      BY <3>5, <3>6
  <2>2. CASE ~HasMsg(h)
    <3>1. \A s \in Slots : Owners(s)' = Owners(s)
      BY <1>1, <2>2, Codes DEF Owners, HasMsg
    <3>2. cnt' = cnt
      BY <2>2 DEF SendDone
    <3>. QED
      BY <1>2, <3>1, <3>2 DEF RefCountExact, Refs
  <2>. QED
    BY <2>1, <2>2
<1>4. OneOwner' /\ PcCmd'
  BY <1>1, Codes DEF OneOwner, PcCmd, HasMsg
<1>5. FillExclusive' /\ PostTargetFree'
  BY <1>1, <1>2 DEF FillExclusive, PostTargetFree
<1>. QED
  BY <1>3, <1>4, <1>5

-----------------------------------------------------------------------------
(* The theorems. *)

\* Every step of the specification preserves IInv.
LEMMA NextIInv == IInv /\ [Next]_vars => IInv'
<1>. SUFFICES ASSUME IInv, [Next]_vars
              PROVE  IInv'
  OBVIOUS
<1>1. TypeOK'
  BY TypeNext DEF IInv
<1>2. CASE UNCHANGED vars
  BY <1>1, <1>2, QuietStep DEF vars, ownVars, poolVars, recvVars
<1>3. ASSUME NEW h \in Harts, Firmware(h) \/ Supervisor(h)
      PROVE  IInv'
  <2>1. CASE Receive(h) \/ Alloc(h) \/ Send(h)
    BY <1>1, <2>1, ReceiveStep, FreeHandledStep, ClaimStep, UndoStep, LocalStep,
       CountStep, PostStep, DoneStep
       DEF Receive, Alloc, Send
  <2>2. CASE SignalOne(h) \/ SignalDone(h) \/ Fill(h) \/ Supervisor(h)
    BY <1>1, <2>2, SignalStep, FillStep, CallStep
  <2>. QED
    BY <1>3, <2>1, <2>2 DEF Firmware
<1>. QED
  BY <1>2, <1>3 DEF Next

THEOREM Invariance == Spec => []IInv
BY InitIInv, NextIInv, PTL DEF Spec

\* shared_cnt is exact, for any number of harts and any pool: the count kept
\* by the four atomic adds of ipi.c and the one of mentry.S equals the number
\* of references there are.
THEOREM CountsAreExact == Spec => []RefCountExact
<1>1. IInv => RefCountExact
  BY DEF IInv
<1>. QED
  BY <1>1, Invariance, PTL

\* ipi_alloc_msg never hands the same slot to two callers.
THEOREM SlotsHaveOneOwner == Spec => []OneOwner
<1>1. IInv => OneOwner
  BY DEF IInv
<1>. QED
  BY <1>1, Invariance, PTL

\* Only the owner of a slot writes its handler and payload, and only while no
\* mailbox word and no running handler refers to it.
THEOREM PayloadIsStable == Spec => PayloadStable
<1>1. ASSUME IInv, Next,
             NEW s \in Slots, content'[s] # content[s]
      PROVE  Posted(s) = {} /\ Running(s) = {}
  <2>1. PICK h \in Harts : Fill(h)
    BY <1>1 DEF Next, Firmware, Supervisor, Receive, TakeIpi, RunHandler, FreeHandled,
       SignalOne, SignalDone, Alloc, AllocProbe, AllocClaim, AllocUndo, AllocNext,
       Send, SendLocal, SendPoll, SendCount, SendPost, SendDone, Return,
       ClearIpi, EcallSendIpi, EcallFenceI, EcallRfence, EnterCall, poolVars
  <2>2. pc[h] = "fill" /\ content' = [content EXCEPT ![Slot(cmd[h])] = Request(h)]
    BY <2>1 DEF Fill, At
  <2>3. s = Slot(cmd[h]) /\ cmd[h] \in MsgCmds
    BY <1>1, <2>2 DEF IInv, TypeOK, PcCmd, HasMsg
  <2>4. cmd[h] = Msg(s)
    BY <2>3, Codes
  <2>. QED
    BY <1>1, <2>2, <2>4 DEF IInv, FillExclusive
<1>2. IInv /\ [Next]_vars =>
        [\A s \in Slots : content'[s] # content[s] => Posted(s) = {} /\ Running(s) = {}]_vars
  BY <1>1
<1>. QED
  BY <1>2, Invariance, PTL DEF Spec, PayloadStable

\* Whoever writes a mailbox has seen it empty, and only its one sender writes
\* it, so it is still empty.
THEOREM MailIsNotOverwritten == Spec => MailNotOverwritten
<1>. DEFINE Kept(a, b) == mbox[a][b] # NoCmd => mbox'[a][b] \in {NoCmd, mbox[a][b]}
<1>1. ASSUME IInv, NEW h \in Harts, ReadMail(h), NEW a \in Harts, NEW b \in Harts
      PROVE  Kept(a, b)
  <2>1. PICK s \in Harts : mbox' = [mbox EXCEPT ![s][h] = NoCmd]
    BY <1>1 DEF ReadMail, MailFor
  <2>. QED
    BY <1>1, <2>1 DEF IInv, TypeOK
<1>2. ASSUME IInv, NEW h \in Harts, Firmware(h) \/ Supervisor(h),
             NEW a \in Harts, NEW b \in Harts
      PROVE  Kept(a, b)
  <2>1. CASE SignalOne(h)
    <3>1. PICK t \in Highest(mask[h]) :
            \/ mbox' = mbox
            \/ mbox[h][t] = NoCmd /\ mbox' = [mbox EXCEPT ![h][t] = SIGNAL]
      BY <2>1 DEF SignalOne
    <3>2. t \in Harts /\ h \in Harts
      BY <1>2 DEF Highest, IInv, TypeOK
    <3>3. mbox \in [Harts -> [Harts -> {NoCmd, SIGNAL, FENCE_I} \cup MsgCmds]]
      BY <1>2 DEF IInv, TypeOK
    <3>. QED
      BY <1>2, <3>1, <3>2, <3>3
  <2>2. CASE SendPost(h)
    <3>1. PICK t \in Lowest(mask[h]) : mbox' = [mbox EXCEPT ![h][t] = cmd[h]]
      BY <2>2 DEF SendPost
    <3>2. t \in Harts /\ mbox[h][t] = NoCmd
      BY <1>2, <2>2 DEF Lowest, IInv, TypeOK, SendPost, At, PostTargetFree
    <3>. QED
      BY <1>2, <3>1, <3>2 DEF IInv, TypeOK
  <2>3. CASE ReadMail(h)
    BY <1>1, <1>2, <2>3
  <2>4. CASE ~SignalOne(h) /\ ~SendPost(h) /\ ~ReadMail(h)
    <3>1. mbox' = mbox
      BY <1>2, <2>4 DEF Firmware, Supervisor, Receive, TakeIpi, RunHandler, FreeHandled,
         SignalDone, Alloc, AllocProbe, AllocClaim, AllocUndo, AllocNext, Fill,
         Send, SendLocal, SendPoll, SendCount, SendDone, Return,
         ClearIpi, EcallSendIpi, EcallFenceI, EcallRfence, EnterCall
    <3>. QED
      BY <3>1
  <2>. QED
    BY <2>1, <2>2, <2>3, <2>4
<1>3. IInv /\ [Next]_vars =>
        [\A s, r \in Harts :
           mbox[s][r] # NoCmd => mbox'[s][r] \in {NoCmd, mbox[s][r]}]_vars
  BY <1>2 DEF Next
<1>. QED
  BY <1>3, Invariance, PTL DEF Spec, MailNotOverwritten

-----------------------------------------------------------------------------
(* Each target of a remote fence runs it once: the steps of RemoteFence. *)

\* Hart h is sending the message of slot s.
Sends(h, s) == pc[h] \in {"local", "send", "post"} /\ cmd[h] = Msg(s)

\* Where the message of slot s may be on its way to hart t: not sent yet, or
\* in t's mailbox; then in t's hands, which is cur[t] = Msg(s).
Ahead(s, t)  == \E h \in Harts : Sends(h, s) /\ t \in mask[h]
InMail(s, t) == \E a \in Harts : mbox[a][t] = Msg(s)

\* The message of slot s is filled and somebody has still to do with it.
Live(s) == \E h \in Harts : Sends(h, s) \/ InMail(s, h) \/ cur[h] = Msg(s)

\* The request that a hart is about to write down has not been made before.
NewRequest ==
  /\ \A r \in asked : r[2] <= calls[r[1]]
  /\ \A h \in Harts :
       pc[h] \in {"probe", "claim", "undo", "next", "fill"} => Request(h) \notin asked

\* Messages under way stand for different requests, all of them made.
OwnRequest ==
  \A s \in Slots : Live(s) =>
    /\ content[s] \in asked
    /\ \A u \in Slots : Live(u) /\ content[u] = content[s] => u = s

\* A message under way to t is one that t has still to run.
Due ==
  \A s \in Slots, t \in Harts :
    Ahead(s, t) \/ InMail(s, t) \/ (cur[t] = Msg(s) /\ ~ran[t]) => content[s] \in todo[t]

\* It is under way to t at one place only.
OnePlace ==
  \A s \in Slots, t \in Harts :
    /\ Ahead(s, t) => ~InMail(s, t)
    /\ Ahead(s, t) \/ InMail(s, t) => cur[t] # Msg(s)
    /\ \A a, b \in Harts : mbox[a][t] = Msg(s) /\ mbox[b][t] = Msg(s) => a = b

Delivery == NewRequest /\ OwnRequest /\ Due /\ OnePlace

\* The places of a call before its request is made.
Early == {"probe", "claim", "undo", "next", "fill"}

\* Between calls the request that is about to be made stays new.
LEMMA StillNew ==
  ASSUME NewRequest, UNCHANGED <<asked, calls>>,
         \A k \in Harts : pc'[k] \in Early => pc[k] \in Early
  PROVE  NewRequest'
BY DEF NewRequest, Early, Request

\* A call gets a number that none of its hart's requests has.
LEMMA CallIsNew ==
  ASSUME TypeOK, NewRequest, UNCHANGED asked, NEW h \in Harts,
         calls' = [calls EXCEPT ![h] = @ + 1],
         \A k \in Harts : k # h => pc'[k] = pc[k]
  PROVE  NewRequest'
<1>1. \A k \in Harts : /\ calls[k] \in Nat
                       /\ calls'[k] = IF k = h THEN calls[k] + 1 ELSE calls[k]
  BY DEF TypeOK
<1>2. \A r \in asked : r[1] \in Harts /\ r[2] \in Nat /\ r[2] <= calls[r[1]]
  BY DEF TypeOK, Requests, NewRequest
<1>3. \A r \in asked : r[2] <= calls'[r[1]]
  BY <1>1, <1>2
<1>4. <<h, calls'[h]>> \notin asked
  <2>. SUFFICES ASSUME <<h, calls'[h]>> \in asked
                PROVE  FALSE
    OBVIOUS
  <2>1. <<h, calls'[h]>>[2] <= calls[<<h, calls'[h]>>[1]]
    BY <1>2
  <2>2. calls'[h] <= calls[h]
    BY <2>1
  <2>. QED
    BY <1>1, <2>2
<1>5. \A k \in Harts : k # h /\ pc'[k] \in Early => <<k, calls'[k]>> \notin asked
  BY <1>1 DEF NewRequest, Early, Request
<1>. QED
  BY <1>3, <1>4, <1>5 DEF NewRequest, Early, Request

\* A step by which messages are only given up keeps the rest: no hart begins
\* to send one, none comes into a mailbox, and no handler begins.
LEMMA FewerDeliveries ==
  ASSUME OwnRequest, Due, OnePlace, UNCHANGED <<content, asked, todo>>,
         \A k \in Harts, s \in Slots : Sends(k, s)' => Sends(k, s) /\ mask'[k] = mask[k],
         \A a, b \in Harts, s \in Slots : mbox'[a][b] = Msg(s) => mbox[a][b] = Msg(s),
         \A k \in Harts : cur'[k] = NoCmd \/ (cur'[k] = cur[k] /\ ran'[k] = ran[k])
  PROVE  OwnRequest' /\ Due' /\ OnePlace'
<1>1. \A s \in Slots : Msg(s) # NoCmd
  BY Codes
<1>2. \A s \in Slots : Live(s)' => Live(s)
  BY <1>1 DEF Live, InMail
<1>3. \A s \in Slots, t \in Harts :
        /\ Ahead(s, t)' => Ahead(s, t)
        /\ InMail(s, t)' => InMail(s, t)
        /\ cur'[t] = Msg(s) => cur[t] = Msg(s) /\ ran'[t] = ran[t]
  BY <1>1 DEF Ahead, InMail
<1>4. OwnRequest'
  BY <1>2 DEF OwnRequest
<1>5. Due'
  BY <1>3 DEF Due
<1>6. OnePlace'
  BY <1>3 DEF OnePlace
<1>. QED
  BY <1>4, <1>5, <1>6

\* Reading a mailbox moves a message into its receiver's hands.
LEMMA MailDelivers ==
  ASSUME IInv, Delivery, NEW h \in Harts, cur[h] = NoCmd, ReadMail(h),
         UNCHANGED <<content, asked, todo, mask>>,
         \A k \in Harts, s \in Slots : Sends(k, s)' => Sends(k, s)
  PROVE  OwnRequest' /\ Due' /\ OnePlace'
<1>1. PICK a \in Harts : /\ mbox[a][h] # NoCmd
                        /\ mbox' = [mbox EXCEPT ![a][h] = NoCmd]
                        /\ Dispatch(h, mbox[a][h])
  BY DEF ReadMail, MailFor
<1>2. \A x, y \in Harts : mbox'[x][y] = IF x = a /\ y = h THEN NoCmd ELSE mbox[x][y]
  BY <1>1 DEF IInv, TypeOK
<1>3. /\ \A k \in Harts : cur'[k] = IF k = h /\ mbox[a][h] \in MsgCmds
                                    THEN mbox[a][h] ELSE cur[k]
      /\ ran' = ran
  BY <1>1 DEF Dispatch, IInv, TypeOK
<1>4. \A s \in Slots : Msg(s) # NoCmd /\ Msg(s) \in MsgCmds
  BY Codes
<1>5. \A s \in Slots, t \in Harts :
        /\ Ahead(s, t)' => Ahead(s, t)
        /\ InMail(s, t)' => InMail(s, t)
        /\ cur'[t] = Msg(s) /\ cur[t] # Msg(s) => t = h /\ mbox[a][h] = Msg(s)
        /\ mbox[a][h] = Msg(s) => InMail(s, h)
  BY <1>2, <1>3, <1>4 DEF Ahead, InMail
<1>6. \A s \in Slots : Live(s)' => Live(s)
  BY <1>5 DEF Live
<1>7. OwnRequest'
  BY <1>6 DEF OwnRequest, Delivery
<1>8. Due'
  <2>1. \A s \in Slots, t \in Harts :
          Ahead(s, t)' \/ InMail(s, t)' \/ (cur'[t] = Msg(s) /\ ~ran'[t]) =>
            Ahead(s, t) \/ InMail(s, t) \/ (cur[t] = Msg(s) /\ ~ran[t])
    BY <1>3, <1>5
  <2>. QED
    BY <2>1 DEF Due, Delivery
<1>9. ASSUME NEW s \in Slots, mbox[a][h] = Msg(s)
      PROVE  ~Ahead(s, h)' /\ ~InMail(s, h)'
  <2>1. InMail(s, h)
    BY <1>9 DEF InMail
  <2>2. ~Ahead(s, h)
    BY <2>1 DEF Delivery, OnePlace
  <2>3. \A b \in Harts : mbox[b][h] = Msg(s) => a = b
    BY <1>9 DEF Delivery, OnePlace
  <2>. QED
    BY <1>2, <1>4, <1>5, <2>2, <2>3 DEF InMail
<1>10. OnePlace'
  <2>. SUFFICES ASSUME NEW s \in Slots, NEW t \in Harts
                PROVE  /\ Ahead(s, t)' => ~InMail(s, t)'
                       /\ Ahead(s, t)' \/ InMail(s, t)' => cur'[t] # Msg(s)
                       /\ \A x, y \in Harts :
                            mbox'[x][t] = Msg(s) /\ mbox'[y][t] = Msg(s) => x = y
    BY DEF OnePlace
  <2>1. Ahead(s, t)' => ~InMail(s, t)'
    BY <1>5 DEF Delivery, OnePlace
  <2>2. Ahead(s, t)' \/ InMail(s, t)' => cur'[t] # Msg(s)
    BY <1>5, <1>9 DEF Delivery, OnePlace
  <2>3. \A x, y \in Harts : mbox'[x][t] = Msg(s) /\ mbox'[y][t] = Msg(s) => x = y
    BY <1>2, <1>4 DEF Delivery, OnePlace
  <2>. QED
    BY <2>1, <2>2, <2>3
<1>. QED
  BY <1>7, <1>8, <1>10

\* The caller's own share goes straight into its hands.
LEMMA LocalDelivers ==
  ASSUME IInv, Delivery, NEW h \in Harts, SendLocal(h)
  PROVE  Delivery'
<1>1. /\ pc[h] = "local" /\ pc'[h] = "send" /\ cur[h] = NoCmd
      /\ UNCHANGED <<calls, cmd, content, mbox, asked, todo>>
      /\ ran' = ran
      /\ \A k \in Harts : k # h => pc'[k] = pc[k] /\ mask'[k] = mask[k]
      /\ mask'[h] = mask[h] \ {h}
  BY DEF SendLocal, At, Goto, Dispatch, recvVars, histVars, IInv, TypeOK
<1>2. \A k \in Harts : cur'[k] = IF k = h /\ h \in mask[h] /\ HasMsg(h)
                                  THEN cmd[h] ELSE cur[k]
  BY DEF SendLocal, Dispatch, recvVars, HasMsg, IInv, TypeOK
<1>3. \A s \in Slots : Msg(s) # NoCmd /\ Msg(s) \in MsgCmds
  BY Codes
<1>4. NewRequest'
  BY <1>1, StillNew DEF Early, Delivery
<1>5. \A k \in Harts, s \in Slots : Sends(k, s)' => Sends(k, s)
  BY <1>1 DEF Sends
<1>6. \A s \in Slots, t \in Harts :
        /\ Ahead(s, t)' => Ahead(s, t)
        /\ InMail(s, t)' = InMail(s, t)
        /\ cur'[t] = Msg(s) /\ cur[t] # Msg(s) =>
             t = h /\ h \in mask[h] /\ Sends(h, s) /\ Ahead(s, t)
  BY <1>1, <1>2, <1>3, <1>5 DEF Ahead, InMail, Sends
<1>7. \A s \in Slots : Live(s)' => Live(s)
  BY <1>5, <1>6 DEF Live
<1>8. OwnRequest'
  BY <1>1, <1>7 DEF OwnRequest, Delivery
<1>9. Due'
  BY <1>1, <1>6 DEF Due, Delivery
<1>10. ASSUME NEW s \in Slots, Sends(h, s)
       PROVE  ~Ahead(s, h)'
  <2>1. \A k \in Harts : Sends(k, s) => k = h
    BY <1>3, <1>10 DEF Sends, IInv, OneOwner, HasMsg
  <2>. QED
    BY <1>1, <1>5, <2>1 DEF Ahead
<1>11. OnePlace'
  BY <1>1, <1>6, <1>10 DEF Delivery, OnePlace
<1>. QED
  BY <1>4, <1>8, <1>9, <1>11 DEF Delivery

\* Posting moves a message from ahead into the mailbox.
LEMMA PostDelivers ==
  ASSUME IInv, Delivery, NEW h \in Harts, SendPost(h)
  PROVE  Delivery'
<1>1. PICK u \in Lowest(mask[h]) :
        /\ mbox' = [mbox EXCEPT ![h][u] = cmd[h]]
        /\ mask' = [mask EXCEPT ![h] = @ \ {u}]
  BY DEF SendPost
<1>2. /\ pc[h] = "post" /\ pc'[h] = "send" /\ u \in mask[h] /\ u \in Harts
      /\ UNCHANGED <<calls, cmd, content, cur, ran, asked, todo>>
      /\ \A k \in Harts : k # h => pc'[k] = pc[k] /\ mask'[k] = mask[k]
      /\ mask'[h] = mask[h] \ {u}
      /\ \A a, b \in Harts : mbox'[a][b] = IF a = h /\ b = u THEN cmd[h] ELSE mbox[a][b]
  BY <1>1 DEF SendPost, At, Goto, Lowest, poolVars, recvVars, histVars, IInv, TypeOK
<1>3. \A s \in Slots : Msg(s) # NoCmd /\ Msg(s) \in MsgCmds
  BY Codes
<1>4. NewRequest'
  BY <1>2, StillNew DEF Early, Delivery
<1>5. \A k \in Harts, s \in Slots : Sends(k, s)' => Sends(k, s)
  BY <1>2 DEF Sends
<1>6. \A s \in Slots, t \in Harts :
        /\ Ahead(s, t)' => Ahead(s, t)
        /\ InMail(s, t)' /\ ~InMail(s, t) => t = u /\ Sends(h, s) /\ Ahead(s, t)
  BY <1>2, <1>5 DEF Ahead, InMail, Sends
<1>7. \A s \in Slots : Live(s)' => Live(s)
  BY <1>2, <1>5, <1>6 DEF Live
<1>8. OwnRequest'
  BY <1>2, <1>7 DEF OwnRequest, Delivery
<1>9. Due'
  BY <1>2, <1>6 DEF Due, Delivery
<1>10. ASSUME NEW s \in Slots, Sends(h, s)
       PROVE  ~Ahead(s, u)' /\ ~InMail(s, u) /\ cur[u] # Msg(s)
  <2>1. \A k \in Harts : Sends(k, s) => k = h
    BY <1>3, <1>10 DEF Sends, IInv, OneOwner, HasMsg
  <2>2. Ahead(s, u)
    BY <1>2, <1>10 DEF Ahead
  <2>. QED
    BY <1>2, <1>5, <2>1, <2>2 DEF Ahead, Delivery, OnePlace
<1>11. OnePlace'
  <2>. SUFFICES ASSUME NEW s \in Slots, NEW t \in Harts
                PROVE  /\ Ahead(s, t)' => ~InMail(s, t)'
                       /\ Ahead(s, t)' \/ InMail(s, t)' => cur'[t] # Msg(s)
                       /\ \A x, y \in Harts :
                            mbox'[x][t] = Msg(s) /\ mbox'[y][t] = Msg(s) => x = y
    BY DEF OnePlace
  <2>1. CASE t = u /\ Sends(h, s)
    <3>1. \A x \in Harts : mbox[x][u] # Msg(s)
      BY <1>10, <2>1 DEF InMail
    <3>2. \A x \in Harts : mbox'[x][u] = Msg(s) => x = h
      BY <1>2, <3>1
    <3>. QED
      BY <1>2, <1>10, <2>1, <3>2
  <2>2. CASE ~(t = u /\ Sends(h, s))
    <3>1. \A x \in Harts : mbox'[x][t] = Msg(s) => mbox[x][t] = Msg(s)
      BY <1>2, <2>2 DEF Sends
    <3>2. InMail(s, t)' => InMail(s, t)
      BY <3>1 DEF InMail
    <3>. QED
      BY <1>2, <1>6, <3>1, <3>2 DEF Delivery, OnePlace
  <2>. QED
    BY <2>1, <2>2
<1>. QED
  BY <1>4, <1>8, <1>9, <1>11 DEF Delivery

\* Filling makes a new request of a message that nobody refers to.
LEMMA FillDelivers ==
  ASSUME IInv, Delivery, NEW h \in Harts, Fill(h)
  PROVE  Delivery'
<1>1. PICK f \in Slots : cmd[h] = Msg(f) /\ Slot(cmd[h]) = f
  BY Codes DEF Fill, At, IInv, PcCmd, HasMsg
<1>2. /\ pc[h] = "fill" /\ pc'[h] = "local"
      /\ UNCHANGED <<calls, mask, cmd, mbox, cur, ran>>
      /\ \A k \in Harts : k # h => pc'[k] = pc[k]
      /\ \A s \in Slots : content'[s] = IF s = f THEN Request(h) ELSE content[s]
      /\ asked' = asked \cup {Request(h)}
      /\ \A t \in Harts : /\ todo[t] \subseteq todo'[t]
                          /\ t \in mask[h] => Request(h) \in todo'[t]
  BY <1>1 DEF Fill, At, Goto, recvVars, IInv, TypeOK
<1>3. /\ Request(h) \notin asked
      /\ Posted(f) = {} /\ Running(f) = {}
      /\ \A k \in Harts : ~Sends(k, f)
  BY <1>1, <1>2, Codes DEF Delivery, NewRequest, IInv, FillExclusive, OneOwner, HasMsg, Sends
<1>4. \A s \in Slots : s # f => Msg(s) # Msg(f)
  BY Codes
<1>5. \A k \in Harts, s \in Slots : Sends(k, s)' = IF s = f THEN k = h ELSE Sends(k, s)
  <2>. SUFFICES ASSUME NEW k \in Harts, NEW s \in Slots
                PROVE  Sends(k, s)' = IF s = f THEN k = h ELSE Sends(k, s)
    OBVIOUS
  <2>1. CASE k = h
    BY <1>1, <1>2, <1>4, <2>1 DEF Sends
  <2>2. CASE k # h
    BY <1>2, <1>3, <2>2 DEF Sends
  <2>. QED
    BY <2>1, <2>2
<1>6. \A s \in Slots : s # f => Live(s)' = Live(s)
  BY <1>2, <1>5 DEF Live, InMail
<1>7. NewRequest'
  <2>1. calls[h] \in Nat /\ Request(h)[1] = h /\ Request(h)[2] = calls[h]
    BY DEF Request, IInv, TypeOK
  <2>2. \A r \in asked' : r[2] <= calls[r[1]]
    BY <1>2, <2>1 DEF Delivery, NewRequest
  <2>3. \A k \in Harts : pc'[k] \in Early => k # h /\ Request(k) \notin asked'
    BY <1>2 DEF Delivery, NewRequest, Early, Request
  <2>. QED
    BY <1>2, <2>2, <2>3 DEF NewRequest, Early, Request
<1>8. OwnRequest'
  <2>1. \A s \in Slots : s # f /\ Live(s)' => content[s] \in asked /\ content'[s] = content[s]
    BY <1>2, <1>6 DEF Delivery, OwnRequest
  <2>2. \A s, r \in Slots :
          s # f /\ r # f /\ Live(s)' /\ Live(r)' /\ content[r] = content[s] => r = s
    BY <1>6 DEF Delivery, OwnRequest
  <2>. QED
    BY <1>2, <1>3, <2>1, <2>2 DEF OwnRequest
<1>9. \A s \in Slots, t \in Harts :
        /\ InMail(s, t)' = InMail(s, t)
        /\ s # f => Ahead(s, t)' = Ahead(s, t)
        /\ Ahead(f, t)' => t \in mask[h]
  BY <1>2, <1>5 DEF Ahead, InMail
<1>10. \A t \in Harts : ~InMail(f, t) /\ cur[t] # Msg(f)
  <2>1. \A a, t \in Harts : <<a, t>> \in Posted(f) <=> mbox[a][t] = Msg(f)
    BY DEF Posted
  <2>. QED
    BY <1>3, <2>1 DEF InMail, Running
<1>11. Due'
  BY <1>2, <1>9, <1>10 DEF Delivery, Due
<1>12. OnePlace'
  BY <1>2, <1>9, <1>10 DEF Delivery, OnePlace, InMail
<1>. QED
  BY <1>7, <1>8, <1>11, <1>12 DEF Delivery

\* What a handler runs is a request that its hart still had to run; no other
\* message under way to it stands for the same one.
LEMMA HandlerRuns ==
  ASSUME IInv, Delivery, NEW h \in Harts, RunHandler(h)
  PROVE  /\ Delivery'
         /\ content[Slot(cur[h])] \in todo[h]
<1>1. PICK f \in Slots : cur[h] = Msg(f) /\ Slot(cur[h]) = f
  BY Codes DEF RunHandler, IInv, TypeOK
<1>2. /\ ~ran[h] /\ ran'[h]
      /\ UNCHANGED <<pc, calls, mask, slot, cmd, content, mbox, cur, asked>>
      /\ \A k \in Harts : k # h => ran'[k] = ran[k] /\ todo'[k] = todo[k]
      /\ todo'[h] = todo[h] \ {content[f]}
  BY <1>1 DEF RunHandler, ownVars, poolVars, IInv, TypeOK
<1>3. content[f] \in todo[h]
  BY <1>1, <1>2 DEF Delivery, Due
<1>4. NewRequest'
  BY <1>2, StillNew DEF Delivery
<1>5. /\ \A k \in Harts, s \in Slots : Sends(k, s)' = Sends(k, s)
      /\ \A s \in Slots : Live(s)' = Live(s)
      /\ \A s \in Slots, t \in Harts :
           Ahead(s, t)' = Ahead(s, t) /\ InMail(s, t)' = InMail(s, t)
  BY <1>2 DEF Sends, Live, Ahead, InMail
<1>6. OwnRequest'
  BY <1>2, <1>5 DEF Delivery, OwnRequest
<1>7. OnePlace'
  BY <1>2, <1>5 DEF Delivery, OnePlace
<1>8. Due'
  <2>. SUFFICES ASSUME NEW s \in Slots, NEW t \in Harts,
                       Ahead(s, t) \/ InMail(s, t) \/ (cur[t] = Msg(s) /\ ~ran'[t])
                PROVE  content[s] \in todo'[t]
    BY <1>2, <1>5 DEF Due
  <2>1. CASE t # h
    BY <1>2, <2>1 DEF Delivery, Due
  <2>2. CASE t = h
    <3>1. Ahead(s, h) \/ InMail(s, h)
      BY <1>2, <2>2
    <3>2. s # f
      BY <1>1, <3>1 DEF Delivery, OnePlace
    <3>3. Live(s) /\ Live(f)
      BY <1>1, <3>1 DEF Live, Ahead, InMail
    <3>4. content[s] # content[f]
      BY <3>2, <3>3 DEF Delivery, OwnRequest
    <3>5. content[s] \in todo[h]
      BY <3>1 DEF Delivery, Due
    <3>. QED
      BY <1>2, <2>2, <3>4, <3>5
  <2>. QED
    BY <2>1, <2>2
<1>. QED
  BY <1>1, <1>3, <1>4, <1>6, <1>7, <1>8 DEF Delivery

\* At first nothing is under way.
LEMMA DeliveryInit == Init => Delivery
<1>. SUFFICES ASSUME Init
              PROVE  Delivery
  OBVIOUS
<1>1. \A s \in Slots : Msg(s) # NoCmd
  BY Codes
<1>2. /\ \A k \in Harts, s \in Slots : ~Sends(k, s)
      /\ \A s \in Slots, t \in Harts : ~Ahead(s, t) /\ ~InMail(s, t) /\ cur[t] # Msg(s)
      /\ \A s \in Slots : ~Live(s)
  BY <1>1 DEF Init, Sends, Ahead, InMail, Live
<1>3. NewRequest
  BY DEF Init, NewRequest
<1>4. OwnRequest /\ Due
  BY <1>2 DEF OwnRequest, Due
<1>5. OnePlace
  BY <1>2 DEF OnePlace, InMail
<1>. QED
  BY <1>3, <1>4, <1>5 DEF Delivery

\* Entering a call.
LEMMA CallDelivery ==
  ASSUME IInv, Delivery, NEW h \in Harts, Supervisor(h)
  PROVE  Delivery'
<1>. USE DEF At
<1>1. CASE ClearIpi(h)
  <2>1. UNCHANGED <<pc, calls, mask, cmd, content, mbox, cur, ran, asked, todo>>
    BY <1>1 DEF ClearIpi, ownVars, poolVars, histVars
  <2>2. NewRequest'
    BY <2>1, StillNew DEF Delivery
  <2>3. OwnRequest' /\ Due' /\ OnePlace'
    BY <2>1, FewerDeliveries DEF Delivery, Sends
  <2>. QED
    BY <2>2, <2>3 DEF Delivery
<1>2. CASE ~ClearIpi(h)
  <2>1. /\ calls' = [calls EXCEPT ![h] = @ + 1]
        /\ cmd'[h] \in {NoCmd, FENCE_I}
        /\ \A k \in Harts : k # h => pc'[k] = pc[k] /\ mask'[k] = mask[k] /\ cmd'[k] = cmd[k]
        /\ UNCHANGED <<content, mbox, cur, ran, asked, todo>>
    BY <1>2 DEF Supervisor, EcallSendIpi, EcallFenceI, EcallRfence, EnterCall,
                CanCall, Goto, poolVars, recvVars, histVars, IInv, TypeOK
  <2>2. NewRequest'
    BY <2>1, CallIsNew DEF Delivery, IInv
  <2>3. \A k \in Harts, s \in Slots : Sends(k, s)' => Sends(k, s) /\ mask'[k] = mask[k]
    BY <2>1, Codes DEF Sends
  <2>4. OwnRequest' /\ Due' /\ OnePlace'
    BY <2>1, <2>3, FewerDeliveries DEF Delivery
  <2>. QED
    BY <2>2, <2>4 DEF Delivery
<1>. QED
  BY <1>1, <1>2

\* SEND_IPI sends no message.
LEMMA SignalDelivery ==
  ASSUME IInv, Delivery, NEW h \in Harts, SignalOne(h) \/ SignalDone(h)
  PROVE  Delivery'
<1>1. /\ pc[h] = "signal" /\ pc'[h] \in {"signal", "S"}
      /\ UNCHANGED <<calls, content, cur, ran, asked, todo>>
      /\ \A k \in Harts : k # h => pc'[k] = pc[k] /\ mask'[k] = mask[k] /\ cmd'[k] = cmd[k]
  BY DEF SignalOne, SignalDone, Return, Goto, At, poolVars, recvVars, histVars, IInv, TypeOK
<1>2. \A a, b \in Harts : mbox'[a][b] # mbox[a][b] => mbox'[a][b] = SIGNAL
  <2>1. CASE SignalOne(h)
    <3>1. PICK t \in Highest(mask[h]) :
            mbox' = mbox \/ mbox' = [mbox EXCEPT ![h][t] = SIGNAL]
      BY <2>1 DEF SignalOne
    <3>. QED
      BY <3>1 DEF IInv, TypeOK
  <2>2. CASE SignalDone(h)
    BY <2>2 DEF SignalDone
  <2>. QED
    BY <2>1, <2>2
<1>3. NewRequest'
  BY <1>1, StillNew DEF Delivery, Early
<1>4. \A k \in Harts, s \in Slots : Sends(k, s)' => Sends(k, s) /\ mask'[k] = mask[k]
  BY <1>1 DEF Sends
<1>5. \A a, b \in Harts, s \in Slots : mbox'[a][b] = Msg(s) => mbox[a][b] = Msg(s)
  BY <1>2, Codes
<1>6. OwnRequest' /\ Due' /\ OnePlace'
  BY <1>1, <1>4, <1>5, FewerDeliveries DEF Delivery
<1>. QED
  BY <1>3, <1>6 DEF Delivery

\* Looking for a slot sends nothing; it receives once a round.
LEMMA AllocDelivery ==
  ASSUME IInv, Delivery, NEW h \in Harts, Alloc(h)
  PROVE  Delivery'
<1>1. /\ pc[h] \in Early /\ pc'[h] \in Early /\ cur[h] = NoCmd
      /\ UNCHANGED <<calls, mask, content, asked, todo>>
      /\ \A k \in Harts : k # h => pc'[k] = pc[k] /\ cmd'[k] = cmd[k]
  BY DEF Alloc, AllocProbe, AllocClaim, AllocUndo, AllocNext, Goto, At, Early,
         poolVars, histVars, IInv, TypeOK
<1>2. NewRequest'
  BY <1>1, StillNew DEF Delivery
<1>3. \A k \in Harts, s \in Slots : Sends(k, s)' => Sends(k, s)
  BY <1>1 DEF Sends, Early
<1>4. OwnRequest' /\ Due' /\ OnePlace'
  <2>1. CASE ReadMail(h)
    BY <1>1, <1>3, <2>1, MailDelivers
  <2>2. CASE ~ReadMail(h)
    <3>1. UNCHANGED <<mbox, cur, ran>>
      BY <2>2 DEF Alloc, AllocProbe, AllocClaim, AllocUndo, AllocNext, recvVars
    <3>. QED
      BY <1>1, <1>3, <3>1, FewerDeliveries DEF Delivery
  <2>. QED
    BY <2>1, <2>2
<1>. QED
  BY <1>2, <1>4 DEF Delivery

\* Receiving by interrupt or while sending.
LEMMA TakeDelivery ==
  ASSUME IInv, Delivery, NEW h \in Harts, TakeIpi(h) \/ SendPoll(h)
  PROVE  Delivery'
<1>1. /\ cur[h] = NoCmd /\ ReadMail(h)
      /\ UNCHANGED <<pc, calls, mask, cmd, content, asked, todo>>
  BY DEF TakeIpi, SendPoll, At, ownVars, poolVars, histVars
<1>2. NewRequest'
  BY <1>1, StillNew DEF Delivery
<1>3. \A k \in Harts, s \in Slots : Sends(k, s)' => Sends(k, s)
  BY <1>1 DEF Sends
<1>. QED
  BY <1>1, <1>2, <1>3, MailDelivers DEF Delivery

\* Counting, giving up the owner's reference, and the end of a handler.
LEMMA GiveUpDelivery ==
  ASSUME IInv, Delivery, NEW h \in Harts, SendCount(h) \/ SendDone(h) \/ FreeHandled(h)
  PROVE  Delivery'
<1>1. /\ \A k \in Harts : pc'[k] # pc[k] =>
           pc[k] = "send" /\ (pc'[k] = "post" \/ (pc'[k] = "S" /\ cmd'[k] = NoCmd))
      /\ \A k \in Harts : cmd'[k] = cmd[k] \/ cmd'[k] = NoCmd
      /\ \A k \in Harts : cur'[k] = NoCmd \/ (cur'[k] = cur[k] /\ ran'[k] = ran[k])
      /\ UNCHANGED <<calls, mask, content, mbox, asked, todo>>
  <2>1. CASE SendCount(h)
    BY <2>1 DEF SendCount, At, Goto, poolVars, recvVars, histVars, IInv, TypeOK
  <2>2. CASE SendDone(h)
    BY <2>2 DEF SendDone, Return, At, Goto, recvVars, histVars, IInv, TypeOK
  <2>3. CASE FreeHandled(h)
    BY <2>3 DEF FreeHandled, ownVars, histVars, IInv, TypeOK
  <2>. QED
    BY <2>1, <2>2, <2>3
<1>2. NewRequest'
  BY <1>1, StillNew DEF Delivery, Early
<1>3. \A k \in Harts, s \in Slots : Sends(k, s)' => Sends(k, s) /\ mask'[k] = mask[k]
  BY <1>1, Codes DEF Sends
<1>4. OwnRequest' /\ Due' /\ OnePlace'
  BY <1>1, <1>3, FewerDeliveries DEF Delivery
<1>. QED
  BY <1>2, <1>4 DEF Delivery

\* Every step keeps Delivery.
LEMMA DeliveryNext == IInv /\ Delivery /\ [Next]_vars => Delivery'
<1>. SUFFICES ASSUME IInv, Delivery, [Next]_vars
              PROVE  Delivery'
  OBVIOUS
<1>1. CASE UNCHANGED vars
  <2>1. UNCHANGED <<pc, calls, mask, cmd, content, mbox, cur, ran, asked, todo>>
    BY <1>1 DEF vars, ownVars, poolVars, recvVars, histVars
  <2>2. NewRequest'
    BY <2>1, StillNew DEF Delivery
  <2>3. OwnRequest' /\ Due' /\ OnePlace'
    BY <2>1, FewerDeliveries DEF Delivery, Sends
  <2>. QED
    BY <2>2, <2>3 DEF Delivery
<1>2. ASSUME NEW h \in Harts, Firmware(h) \/ Supervisor(h)
      PROVE  Delivery'
  <2>1. CASE Receive(h) \/ Alloc(h) \/ Send(h)
    BY <2>1, TakeDelivery, HandlerRuns, GiveUpDelivery, AllocDelivery,
       LocalDelivers, PostDelivers
       DEF Receive, Send
  <2>2. CASE SignalOne(h) \/ SignalDone(h) \/ Fill(h) \/ Supervisor(h)
    BY <2>2, SignalDelivery, FillDelivers, CallDelivery
  <2>. QED
    BY <1>2, <2>1, <2>2 DEF Firmware
<1>. QED
  BY <1>1, <1>2 DEF Next

\* Filling a message is asking for a fence; running its handler is running
\* it; every other step says nothing to RemoteFence.
LEMMA FenceStep ==
  ASSUME IInv, Delivery, [Next]_vars
  PROVE  [Abstract!Next]_(Abstract!vars)
<1>. USE DEF Abstract!Harts, Abstract!Requests, Harts, Requests
<1>1. ASSUME NEW h \in Harts, Fill(h)
      PROVE  Abstract!Next
  <2>1. Request(h) \in Requests /\ mask[h] \in SUBSET Harts
    BY DEF Request, IInv, TypeOK
  <2>2. Request(h) \notin asked
    BY <1>1 DEF Delivery, NewRequest, Fill, At
  <2>3. Abstract!Ask(Request(h), mask[h])
    BY <1>1, <2>2 DEF Abstract!Ask, Fill
  <2>. QED
    BY <2>1, <2>3 DEF Abstract!Next
<1>2. ASSUME NEW h \in Harts, RunHandler(h)
      PROVE  Abstract!Next
  <2>1. content[Slot(cur[h])] \in todo[h]
    BY <1>2, HandlerRuns
  <2>2. content[Slot(cur[h])] \in Requests
    BY <2>1 DEF IInv, TypeOK
  <2>3. Abstract!Run(h, content[Slot(cur[h])])
    BY <1>2, <2>1 DEF Abstract!Run, RunHandler
  <2>. QED
    BY <2>2, <2>3 DEF Abstract!Next
<1>3. CASE \A h \in Harts : ~Fill(h) /\ ~RunHandler(h)
  <2>1. UNCHANGED <<asked, todo, fences>>
    BY <1>3 DEF Next, Firmware, Supervisor, Receive, TakeIpi, FreeHandled,
       SignalOne, SignalDone, Alloc, AllocProbe, AllocClaim, AllocUndo, AllocNext,
       Send, SendLocal, SendPoll, SendCount, SendPost, SendDone, Return,
       ClearIpi, EcallSendIpi, EcallFenceI, EcallRfence, EnterCall, histVars, vars
  <2>. QED
    BY <2>1 DEF Abstract!vars
<1>. QED
  BY <1>1, <1>2, <1>3

\* Every fence that is asked for is run once by each of its targets and by no
\* other hart: every step of the messages is a step of RemoteFence or leaves
\* its variables alone.  (That each is run in the end is ImplementsRemoteFence,
\* which TLC checks.)
THEOREM StepsOfRemoteFence ==
  Spec => Abstract!Init /\ [][Abstract!Next]_(Abstract!vars)
<1>1. Init => Abstract!Init
  BY DEF Init, Abstract!Init, Abstract!Harts, Harts
<1>2. IInv /\ Delivery /\ [Next]_vars => [Abstract!Next]_(Abstract!vars)
  BY FenceStep
<1>. QED
  BY <1>1, <1>2, DeliveryInit, DeliveryNext, Invariance, PTL DEF Spec

=============================================================================
