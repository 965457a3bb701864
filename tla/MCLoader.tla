------------------------------ MODULE MCLoader ------------------------------
(* Finite instances of the parts of the loader for TLC. *)
EXTENDS BootMenu, Xmodem, DevTree, Aia, Keyboard
VARIABLE part     \* what one behaviour is about: none of the parts acts on another
all == <<part, flashVars, menuVars, vars, treeVars, aiaVars, keyVars>>
MCSizes == {6, 7}
MCSkews == {0, 1}
MCAddrs == {0, 3}
SixBlocks == <<1, 2, 1, 1, 2, 1>>
SixStarts == <<0, 1, 3, 4, 5, 7, 8>>
\* 64-bit and 32-bit machines, with memory that the kernel maps or not all of
\* it, a second bank, and trees that label everything or little.
AllLabels == {<<"timebase", 0>>, <<"mtimer", 0>>, <<"dev", 0>>, <<"dev", 15>>, <<"cpu", 0>>,
              <<"cpu", 1>>, <<"l1", 0>>, <<"l1", 1>>, <<"l2", 0>>}
MCHarts == {<<[id |-> 7, slot |-> 0, active |-> TRUE, l1 |-> 3], [id |-> 9, slot |-> 1, active |-> TRUE, l1 |-> 5]>>,
            <<[id |-> 9, slot |-> 1, active |-> TRUE, l1 |-> 5], [id |-> 7, slot |-> 0, active |-> FALSE, l1 |-> 3]>>}
MCPlatforms ==
  {p \in [labels: {AllLabels, {<<"cpu", 0>>}}, harts: MCHarts, shared: {2},
          cells: {[mem |-> 2, mem1 |-> 2, dma |-> 2], [mem |-> 1, mem1 |-> 1, dma |-> 0],
                  [mem |-> 1, mem1 |-> 0, dma |-> 1]},
          base: {4, 36}, size: {24, 8}, cmem: {0, 3}, base1: {5}, size1: {0, 9}, virt: {8, 16},
          external: BOOLEAN, sys: {12}, sysreg: BOOLEAN, cpu: {6, 12}, mtimer: BOOLEAN,
          cluster: {[readable |-> TRUE, clk |-> 10], [readable |-> FALSE, clk |-> 0]}] :
     /\ (p.cells.mem = 1) = (p.base = 4) /\ (p.base = 4) = (p.size = 8)
     /\ p.cells.mem1 # 2 => p.size1 \in {0, 9} /\ p.virt = 16
     /\ p.external => p.cluster.readable
     /\ p.sysreg => p.cpu = 6
     /\ p.external /\ ~p.sysreg => p.cpu = 12   \* so that no clock is below the timebase
     /\ ~p.mtimer \/ ~p.sysreg => p.cmem = 0 /\ p.size1 = 0 /\ p.virt = 16}
MCHeaders == {[v1 |-> FALSE, sys |-> 0, cluster |-> 0, ext |-> 0, harts |-> <<>>]} \cup
  {[v1 |-> TRUE, sys |-> 13, cluster |-> 11, ext |-> x, harts |-> h] : x \in {0, 8},
    h \in {<<>>, <<[id |-> 9, clk |-> 4], [id |-> 7, clk |-> 5]>>, <<[id |-> 7, clk |-> 4]>>}}
MCDelegations ==
  {<<[first |-> a, last |-> b, child |-> c], d>> : a \in {0, 1, 3}, b \in {2, 4}, c \in {0, 2},
    d \in {[first |-> 4, last |-> 3, child |-> 1], [first |-> 1, last |-> 5, child |-> 1]}}
MCWindows ==
  {[m |-> [ppn |-> 8, lhxw |-> 1, lhxs |-> 0, hhxw |-> 1, hhxs |-> 4],
    s |-> [ppn |-> 16, lhxw |-> 1, lhxs |-> 1, hhxw |-> 1, hhxs |-> 4]]}
MCHartNumbers == {0, 1}
MCLetters == {"one", "a"}
APlatform == CHOOSE p \in MCPlatforms : TRUE
AHeader == CHOOSE h \in MCHeaders : h.v1
ATable == CHOOSE d \in MCDelegations : TRUE
MCInit ==
  /\ part \in {"menu", "line", "tree", "aia", "keys"}
  /\ MenuInit /\ (part # "menu" => size = 6 /\ skew = 0)
  /\ KeyInit /\ (part # "keys" => device = "none")
  /\ AiaInit /\ (part # "aia" => /\ delegate = ATable /\ ie = {} /\ cfg[1] = Own
                                /\ delivery[0] /\ ~msi["m"].locked)
  /\ TreeInit /\ (part # "tree" => plf = APlatform /\ header = AHeader)
  /\ Init
MCNext ==
  \/ part = "menu" /\ MenuNext /\ UNCHANGED <<part, vars, treeVars, aiaVars, keyVars>>
  \/ part = "line" /\ Next /\ UNCHANGED <<part, flashVars, menuVars, treeVars, aiaVars, keyVars>>
  \/ part = "tree" /\ TreeNext /\ UNCHANGED <<part, flashVars, menuVars, vars, aiaVars, keyVars>>
  \/ part = "aia" /\ AiaNext /\ UNCHANGED <<part, flashVars, menuVars, vars, treeVars, keyVars>>
  \/ part = "keys" /\ KeyNext /\ UNCHANGED <<part, flashVars, menuVars, vars, treeVars, aiaVars>>
MCSpec == /\ MCInit /\ [][MCNext]_all
          /\ \/ part = "menu" /\ MenuFair
             \/ part = "line" /\ WF_vars(Receiver) /\ WF_vars(Sender)
             \/ part \in {"tree", "aia", "keys"}

\* ReceiveEnds of module Xmodem, of the behaviours in which the receiver runs.
LineReceiveEnds == part = "line" => ReceiveEnds
=============================================================================
