-------------------------------- MODULE Aia --------------------------------
(* The advanced interrupt architecture, when a build has it: the master hart *)
(* sets up the APLIC (aplic.c), each hart its own IMSIC (imsic.c), while     *)
(* messages may arrive at any hart. The registers hold whatever an earlier   *)
(* boot left. A register of one bit per interrupt is the set of the          *)
(* interrupts whose bit is set.                                              *)
EXTENDS Integers, FiniteSets

CONSTANTS
  AiaHarts,      \* harts, 0 is the master
  NumSources,    \* PLF_APLIC_NUM_SOURCE
  NumIds,        \* PLF_IMSIC_NUM_IDS
  WordBits,      \* bits of a register (32 in the APLIC, XLEN in the IMSIC)
  Delegations,   \* tables of PLF_APLIC_DELEGATE: sequences of [first, last, child]
  MaxChild,      \* APLIC_SOURCECFG_CHILDIDX_MASK
  PageShift,     \* APLIC_xMSICFGADDR_PPN_SHIFT (12)
  Windows        \* pairs of MSI windows [ppn, lhxw, lhxs, hhxw, hhxs]

Ids == 1 .. NumIds
Sources == 1 .. NumSources
IpiId == 1
Own == -1                    \* source configuration 0: the machine domain's, inactive

ASSUME AiaAssumption ==
  /\ 0 \in AiaHarts /\ NumSources \in Nat /\ NumIds \in Nat \ {0} /\ WordBits \in Nat \ {0}

VARIABLES
  delegate, window,          \* what the build asks for
  msiMode,                   \* APLIC_DOMAINCFG_DM
  ie, cfg, target,           \* APLIC: enabled sources, each one's domain and priority
  msi,                       \* MSI configuration of each level: [locked, ppn]
  eie, eip, delivery, below, \* IMSIC of each hart: enabled, pending, delivery on, threshold
  id,                        \* loop variable of imsic_local_eix_update
  apc
aiaVars == <<delegate, window, msiMode, ie, cfg, target, msi, eie, eip, delivery, below, id, apc>>
aplicVars == <<msiMode, ie, cfg, target, msi>>
imsicVars == <<eie, eip, delivery, below>>

\* What an earlier boot left: any bits of the IMSIC, a source enabled or sent
\* to a domain, an MSI configuration locked.
AiaInit ==
  /\ delegate \in Delegations /\ window \in Windows
  /\ msiMode = FALSE /\ ie \in {{}, Sources} /\ target = [s \in Sources |-> 0]
  /\ cfg \in {[s \in Sources |-> c] : c \in {Own, MaxChild}}
  /\ msi \in {[l \in {"m", "s"} |-> [locked |-> b, ppn |-> 0]] : b \in BOOLEAN}
  /\ eie = [h \in AiaHarts |-> Ids] /\ eip = [h \in AiaHarts |-> Ids]
  /\ delivery \in {[h \in AiaHarts |-> b] : b \in BOOLEAN}
  /\ below = [h \in AiaHarts |-> FALSE]
  /\ id = [h \in AiaHarts |-> 1]
  /\ apc = [h \in AiaHarts |-> IF h = 0 THEN "domain" ELSE "disable"]

Goto(h, at) == apc' = [apc EXCEPT ![h] = at]
AplicStep(from, to) ==
  apc[0] = from /\ Goto(0, to) /\ UNCHANGED <<delegate, window, id, imsicVars>>

-----------------------------------------------------------------------------
(* aplic_init *)

SetDomain ==
  /\ AplicStep("domain", "clrie")
  /\ msiMode' = TRUE /\ UNCHANGED <<ie, cfg, target, msi>>

\* All bits of each register that holds the bit of a source.
DisableSources_UpToLast ==
  /\ AplicStep("clrie", "sources")
  /\ ie' = {s \in ie : \A i \in 0 .. NumSources - 1 : i \div WordBits # s \div WordBits}
  /\ UNCHANGED <<msiMode, cfg, target, msi>>
DisableSources ==
  /\ AplicStep("clrie", "sources")
  /\ ie' = {s \in ie : \A i \in 0 .. NumSources : i \div WordBits # s \div WordBits}
  /\ UNCHANGED <<msiMode, cfg, target, msi>>

ResetSources ==
  /\ AplicStep("sources", "delegate")
  /\ cfg' = [s \in Sources |-> Own] /\ target' = [s \in Sources |-> 1]
  /\ UNCHANGED <<msiMode, ie, msi>>

\* Entries are passed over that are empty, beyond the sources or for no child;
\* the bounds may come in either order, and a later entry wins.
Counts(d) ==
  d.first # 0 /\ d.last # 0 /\ d.first <= NumSources /\ d.last <= NumSources /\ d.child <= MaxChild
Covers(d, s) == IF d.first > d.last THEN s \in d.last .. d.first ELSE s \in d.first .. d.last
Delegated(f, d) ==
  [s \in Sources |-> IF Counts(d) /\ Covers(d, s) THEN d.child ELSE f[s]]
Delegate ==
  /\ AplicStep("delegate", "msi")
  /\ cfg' = Delegated(Delegated(cfg, delegate[1]), delegate[2])
  /\ UNCHANGED <<msiMode, ie, target, msi>>

\* aplic_write_msiconfig, of the machine's window and then the supervisor's: the
\* bits of the base that a hart's number takes are cleared.
ClearBits(x, at, width) == x - ((x \div 2^at) % 2^width) * 2^at
BasePpn(w) ==
  ClearBits(ClearBits(ClearBits(w.ppn, 0, w.lhxs), w.lhxs, w.lhxw), w.hhxs + PageShift, w.hhxw)
WriteMsiConfig ==
  /\ AplicStep("msi", "disable")
  /\ msi' = [l \in {"m", "s"} |->
               IF msi[l].locked THEN msi[l] ELSE [msi[l] EXCEPT !.ppn = BasePpn(window[l])]]
  /\ UNCHANGED <<msiMode, ie, cfg, target>>

-----------------------------------------------------------------------------
(* imsic_init *)

\* One register of imsic_local_eix_update(first, count): the interrupts of this
\* word, from id on.
Word(h, last) == {n \in id[h] .. last : n \div WordBits = id[h] \div WordBits}
ImsicStep(h) == UNCHANGED <<delegate, window, aplicVars>>

DisableIds(h) ==
  /\ apc[h] = "disable" /\ ImsicStep(h)
  /\ eie' = [eie EXCEPT ![h] = @ \ Word(h, NumIds)]
  /\ id' = [id EXCEPT ![h] = @ + Cardinality(Word(h, NumIds))]
  /\ IF id'[h] > NumIds THEN Goto(h, "clear") ELSE apc' = apc
  /\ UNCHANGED <<eip, delivery, below>>

ClearIpi(h) ==
  /\ apc[h] = "clear" /\ Goto(h, "threshold") /\ ImsicStep(h)
  /\ eip' = [eip EXCEPT ![h] = @ \ {IpiId}]
  /\ UNCHANGED <<eie, delivery, below, id>>

SetThreshold(h) ==
  /\ apc[h] = "threshold" /\ Goto(h, "deliver") /\ ImsicStep(h)
  /\ below' = [below EXCEPT ![h] = TRUE]
  /\ UNCHANGED <<eie, eip, delivery, id>>

SetDelivery(h) ==
  /\ apc[h] = "deliver" /\ Goto(h, "enable") /\ ImsicStep(h)
  /\ delivery' = [delivery EXCEPT ![h] = TRUE]
  /\ UNCHANGED <<eie, eip, below, id>>

EnableIpi(h) ==
  /\ apc[h] = "enable" /\ Goto(h, "ready") /\ ImsicStep(h)
  /\ eie' = [eie EXCEPT ![h] = @ \cup {IpiId}]
  /\ UNCHANGED <<eip, delivery, below, id>>

\* A message arrives, from a device or a hart.
MsgArrives(h) ==
  /\ \E n \in Ids : eip' = [eip EXCEPT ![h] = @ \cup {n}]
  /\ UNCHANGED <<delegate, window, aplicVars, eie, delivery, below, id, apc>>

Aplic == SetDomain \/ DisableSources \/ ResetSources \/ Delegate \/ WriteMsiConfig
Imsic(h) ==
  DisableIds(h) \/ ClearIpi(h) \/ SetThreshold(h) \/ SetDelivery(h) \/ EnableIpi(h)
AiaNext == Aplic \/ \E h \in AiaHarts : Imsic(h) \/ MsgArrives(h)
AiaSpec == AiaInit /\ [][AiaNext]_aiaVars

-----------------------------------------------------------------------------
\* The domain the table gives a source: that of the last entry that counts.
Domain(s) ==
  LET on == {k \in 1 .. 2 : Counts(delegate[k]) /\ Covers(delegate[k], s)}
  IN IF on = {} THEN Own ELSE delegate[IF 2 \in on THEN 2 ELSE 1].child
\* Where a message of a level for hart h goes, of the low hart index.
Page(l, h) == msi[l].ppn + (h % 2^window[l].lhxw) * 2^window[l].lhxs

\* A hart that has passed the disabling takes no interrupt but a message of
\* another hart, and that one once it is ready; and then, on the master, no
\* source is enabled, each is in the domain the table says, and messages for a
\* hart go to the page of that hart (aplic_init, imsic_init). What the
\* registers held before makes no difference.
OnlyIpiArrives ==
  \A h \in AiaHarts :
    /\ apc[h] \in {"clear", "threshold", "deliver", "enable"} => eie[h] = {}
    /\ apc[h] = "ready" => eie[h] = {IpiId} /\ delivery[h] /\ below[h]
    /\ h = 0 /\ apc[h] = "ready" =>
         /\ ie = {} /\ \A s \in Sources : cfg[s] = Domain(s) /\ target[s] = 1
         /\ \A l \in {"m", "s"} : ~msi[l].locked =>
              \A g \in AiaHarts : Page(l, g) = window[l].ppn + g * 2^window[l].lhxs
=============================================================================
