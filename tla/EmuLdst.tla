------------------------------ MODULE EmuLdst ------------------------------
(***************************************************************************)
(* Emulation of misaligned loads and stores (src/emu_ldst.c) for a program *)
(* that runs in U or S mode under page tables the supervisor edits, with a *)
(* hardware or a software page walker (EXC_TLB_MISS).  A step is the       *)
(* trapped instruction, the fetch of its text, or one byte of its access:  *)
(* each of the last two can fault inside M-mode.                           *)
(***************************************************************************)
EXTENDS Integers, Sequences, FiniteSets

CONSTANTS
  Confs,      \* builds: [xlen, flen, soft, h, holes]; soft: TLB misses trap, h: hypervisor;
              \* holes: data pages no access may touch
  Pages,      \* data pages 0 .. n
  PgSize,     \* bytes in a page
  TlbSize,    \* entries of the TLB
  MaxUnmaps,  \* bound: how often another hart unmaps a page
  Numbers,    \* the numbers of the registers a program uses
  Fills,      \* what registers and memory can hold when it runs
  ToZero      \* may a load name x0 as its destination?

Addrs == 0 .. (Cardinality(Pages) * PgSize - 1)
Named == {"x", "f"} \X Numbers     \* the registers: file and number
Bytes == 0 .. 255

ASSUME EmuAssumption ==
  /\ Confs \subseteq [xlen: {32, 64}, flen: {0, 32, 64},
                      soft: BOOLEAN, h: BOOLEAN, holes: SUBSET Pages]
  /\ PgSize \in Nat \ {0} /\ IsFiniteSet(Pages)
  /\ MaxUnmaps \in Nat
  /\ TlbSize >= 3        \* the text and both pages of an access fit together
  /\ Numbers \subseteq 0 .. 31
  /\ Fills \subseteq [regs: [Named -> [1 .. 8 -> Bytes]], mem: [Addrs -> Bytes]]
  /\ \A fill \in Fills, r \in Named : r = <<"x", 0>> => \A k \in 1 .. 8 : fill.regs[r][k] = 0
  /\ ToZero \in BOOLEAN

VARIABLES
  conf,    \* the build
  ins,     \* the instruction and its address, from the program
  epc,     \* "user", "fetch", "byte", "redirect" or "done"
  i,       \* bytes handled
  val,     \* Reg_data: bytes loaded
  regs,    \* trap frame and f registers: <<file, number>> -> bytes
  mem,     \* data memory
  pte,     \* pages mapped
  tlb,     \* software walker: page -> is the entry valid
  exc,     \* mcause, mepc, mtval
  unmaps,  \* unmaps made, bounded by MaxUnmaps
  before   \* history: registers and memory when the program issued ins

emuVars == <<conf, ins, epc, i, val, regs, mem, pte, tlb, exc, unmaps, before>>

Text == -1                       \* the page and the address of the instruction
PageOf(a) == a \div PgSize

(* The instruction set: what the program means.  [op, f3] is the encoding, *)
(* "at" the field of the register, "ext" how a load fills the register.    *)
Op(op, f3, len, ext, file, at) ==
  [op |-> op, f3 |-> f3, len |-> len, ext |-> ext, file |-> file, at |-> at]
Loads32 == {Op("LOAD", 1, 2, "sign", "x", "rd"), Op("LOAD", 2, 4, "sign", "x", "rd"),
            Op("LOAD", 5, 2, "zero", "x", "rd"),
            Op("C0", 2, 4, "sign", "x", "rs2s"), Op("C2", 2, 4, "sign", "x", "rd")}
Loads64 == {Op("LOAD", 3, 8, "sign", "x", "rd"), Op("LOAD", 6, 4, "zero", "x", "rd"),
            Op("C0", 3, 8, "sign", "x", "rs2s"), Op("C2", 3, 8, "sign", "x", "rd")}
LoadsF == {Op("LOAD-FP", 2, 4, "box", "f", "rd")}
LoadsF32 == {Op("C0", 3, 4, "box", "f", "rs2s"), Op("C2", 3, 4, "box", "f", "rd")}
LoadsD == {Op("LOAD-FP", 3, 8, "box", "f", "rd"), Op("C0", 1, 8, "box", "f", "rs2s"),
           Op("C2", 1, 8, "box", "f", "rd")}
Stores32 == {Op("STORE", 1, 2, "none", "x", "rs2"), Op("STORE", 2, 4, "none", "x", "rs2"),
             Op("C0", 6, 4, "none", "x", "rs2s"), Op("C2", 6, 4, "none", "x", "rs2c")}
Stores64 == {Op("STORE", 3, 8, "none", "x", "rs2"), Op("C0", 7, 8, "none", "x", "rs2s"),
             Op("C2", 7, 8, "none", "x", "rs2c")}
StoresF == {Op("STORE-FP", 2, 4, "none", "f", "rs2")}
StoresF32 == {Op("C0", 7, 4, "none", "f", "rs2s"), Op("C2", 7, 4, "none", "f", "rs2c")}
StoresD == {Op("STORE-FP", 3, 8, "none", "f", "rs2"), Op("C0", 5, 8, "none", "f", "rs2s"),
            Op("C2", 5, 8, "none", "f", "rs2c")}
Loads(c) == UNION {Loads32, IF c.xlen = 64 THEN Loads64 ELSE {},
                   IF c.flen > 0 THEN LoadsF ELSE {}, IF c.flen = 64 THEN LoadsD ELSE {},
                   IF c.flen > 0 /\ c.xlen = 32 THEN LoadsF32 ELSE {}}
Stores(c) == UNION {Stores32, IF c.xlen = 64 THEN Stores64 ELSE {},
                    IF c.flen > 0 THEN StoresF ELSE {}, IF c.flen = 64 THEN StoresD ELSE {},
                    IF c.flen > 0 /\ c.xlen = 32 THEN StoresF32 ELSE {}}
Amo == Op("AMO", 2, 4, "sign", "x", "rd")     \* misaligned, and not emulated

(* The fields of the text: the register sits in its field, the others hold *)
(* 9, the rest of an immediate.                                            *)
Encode(o, r) ==
  [op |-> o.op, f3 |-> o.f3,
   rd |-> IF o.at = "rd" THEN r ELSE 9, rs2 |-> IF o.at = "rs2" THEN r ELSE 9,
   c62 |-> IF o.at = "rs2c" THEN r ELSE IF o.at = "rs2s" THEN r + 8 ELSE 9]
\* Compressed fields reach registers 8 to 15; a load into x0 is ToZero's, and
\* compressed it is no instruction.
RegsOf(o) ==
  {r \in Numbers :
     /\ o.at = "rs2s" => r \in 8 .. 15
     /\ r = 0 /\ o.file = "x" /\ o.ext # "none" => ToZero /\ o.op = "LOAD"}

(* What the code decodes: the rows of its if-chains.                       *)
Row(len, ext, file, at) == [len |-> len, ext |-> ext, file |-> file, at |-> at]
NoRow == Row(0, "none", "x", "rd")

\* emu_misaligned_load: the chain of masks, in order of opcode and funct3.
DecodeLoad(c, t) ==
  CASE t.op = "LOAD" /\ t.f3 = 2 -> Row(4, "sign", "x", "rd")
    [] t.op = "LOAD" /\ t.f3 = 3 /\ c.xlen = 64 -> Row(8, "sign", "x", "rd")
    [] t.op = "LOAD" /\ t.f3 = 6 /\ c.xlen = 64 -> Row(4, "zero", "x", "rd")
    [] t.op = "LOAD-FP" /\ t.f3 = 3 /\ c.flen > 0 -> Row(8, "box", "f", "rd")
    [] t.op = "LOAD-FP" /\ t.f3 = 2 /\ c.flen > 0 -> Row(4, "box", "f", "rd")
    [] t.op = "LOAD" /\ t.f3 = 1 -> Row(2, "sign", "x", "rd")
    [] t.op = "LOAD" /\ t.f3 = 5 -> Row(2, "zero", "x", "rd")
    [] t.op = "C0" /\ t.f3 = 3 /\ c.xlen = 64 -> Row(8, "sign", "x", "rs2s")
    [] t.op = "C2" /\ t.f3 = 3 /\ c.xlen = 64 /\ t.rd # 0 -> Row(8, "sign", "x", "rd")
    [] t.op = "C0" /\ t.f3 = 2 -> Row(4, "sign", "x", "rs2s")
    [] t.op = "C2" /\ t.f3 = 2 /\ t.rd # 0 -> Row(4, "sign", "x", "rd")
    [] t.op = "C0" /\ t.f3 = 1 /\ c.flen > 0 -> Row(8, "box", "f", "rs2s")
    [] t.op = "C2" /\ t.f3 = 1 /\ c.flen > 0 -> Row(8, "box", "f", "rd")
    [] t.op = "C0" /\ t.f3 = 3 /\ c.flen > 0 /\ c.xlen = 32 -> Row(4, "box", "f", "rs2s")
    [] t.op = "C2" /\ t.f3 = 3 /\ c.flen > 0 /\ c.xlen = 32 -> Row(4, "box", "f", "rd")
    [] OTHER -> NoRow

\* emu_misaligned_store: the chain of masks.
DecodeStore(c, t) ==
  CASE t.op = "STORE" /\ t.f3 = 2 -> Row(4, "none", "x", "rs2")
    [] t.op = "STORE" /\ t.f3 = 3 /\ c.xlen = 64 -> Row(8, "none", "x", "rs2")
    [] t.op = "STORE-FP" /\ t.f3 = 3 /\ c.flen = 64 -> Row(8, "none", "f", "rs2")
    [] t.op = "STORE-FP" /\ t.f3 = 2 /\ c.flen > 0 -> Row(4, "none", "f", "rs2")
    [] t.op = "STORE" /\ t.f3 = 1 -> Row(2, "none", "x", "rs2")
    [] t.op = "C0" /\ t.f3 = 7 /\ c.xlen = 64 -> Row(8, "none", "x", "rs2s")
    [] t.op = "C2" /\ t.f3 = 7 /\ c.xlen = 64 -> Row(8, "none", "x", "rs2c")
    [] t.op = "C0" /\ t.f3 = 6 -> Row(4, "none", "x", "rs2s")
    [] t.op = "C2" /\ t.f3 = 6 -> Row(4, "none", "x", "rs2c")
    [] t.op = "C0" /\ t.f3 = 5 /\ c.flen = 64 -> Row(8, "none", "f", "rs2s")
    [] t.op = "C2" /\ t.f3 = 5 /\ c.flen = 64 -> Row(8, "none", "f", "rs2c")
    [] t.op = "C0" /\ t.f3 = 7 /\ c.flen > 0 /\ c.xlen = 32 -> Row(4, "none", "f", "rs2s")
    [] t.op = "C2" /\ t.f3 = 7 /\ c.flen > 0 /\ c.xlen = 32 -> Row(4, "none", "f", "rs2c")
    [] OTHER -> NoRow

\* Fields with the compressed stores' own one lost.
RegOf_PlainRs2(row, t) ==
  <<row.file, CASE row.at = "rd" -> t.rd
                [] row.at \in {"rs2", "rs2c"} -> t.rs2
                [] row.at = "rs2s" -> 8 + (t.c62 % 8)>>

\* GET_RS2, GET_RS2S, GET_RS2C, SET_RD: where the fields say the register is.
RegOf(row, t) ==
  <<row.file, CASE row.at = "rd" -> t.rd
                [] row.at = "rs2" -> t.rs2
                [] row.at = "rs2c" -> t.c62
                [] row.at = "rs2s" -> 8 + (t.c62 % 8)>>

IsLoad == ins.op.ext # "none"
Row0 == IF IsLoad THEN DecodeLoad(conf, ins.text) ELSE DecodeStore(conf, ins.text)
XBytes == conf.xlen \div 8
FileBytes(file) == IF file = "x" THEN XBytes ELSE conf.flen \div 8

\* The value a register takes: sign or zero extension, or the boxing of flw.
Extend(ext, bytes, n) ==
  LET top == CASE ext = "sign" -> IF bytes[Len(bytes)] >= 128 THEN 255 ELSE 0
               [] ext = "zero" -> 0
               [] ext = "box" -> 255
  IN [k \in 1 .. n |-> IF k <= Len(bytes) THEN bytes[k] ELSE top]

\* A filling as the registers of the build hold it.
RegsFrom(c, fill) ==
  [r \in Named |-> [k \in 1 .. (IF r[1] = "x" THEN c.xlen ELSE c.flen) \div 8 |-> fill.regs[r][k]]]

EmuInit ==
  /\ conf \in Confs
  /\ ins \in {[op |-> o, reg |-> r, text |-> Encode(o, r), addr |-> a] :
                o \in Loads(conf) \cup Stores(conf) \cup {Amo}, r \in Numbers, a \in Addrs}
  /\ ins.reg \in RegsOf(ins.op)
  /\ ins.addr % ins.op.len # 0 /\ ins.addr + ins.op.len - 1 \in Addrs
  /\ epc = "user" /\ i = 0 /\ val = << >>
  /\ \E fill \in Fills : regs = RegsFrom(conf, fill) /\ mem = fill.mem
  /\ pte \in SUBSET (Pages \cup {Text})
  /\ tlb = << >> /\ unmaps = 0
  /\ exc = [mcause |-> "none", mepc |-> "none", mtval |-> 0]
  /\ before = [regs |-> regs, mem |-> mem]

(* An access to page p from the program, or from M-mode with MPRV.         *)
Outcome(p) ==
  CASE p \in conf.holes -> "af"
    [] p \notin conf.holes /\ conf.soft /\ p \notin DOMAIN tlb -> "miss"
    [] p \notin conf.holes /\ conf.soft /\ p \in DOMAIN tlb -> IF tlb[p] THEN "ok" ELSE "pf"
    [] OTHER -> IF p \in pte THEN "ok" ELSE "pf"

\* A walk that leaves the entries alone when the page is not mapped.
Walk_SkipsInvalid(p) ==
  \E q \in IF Cardinality(DOMAIN tlb) < TlbSize THEN {p} ELSE DOMAIN tlb :
    tlb' = IF p \in pte THEN [r \in (DOMAIN tlb \ {q}) \cup {p} |-> r = p \/ tlb[r]] ELSE tlb

\* tlb_miss_trap_handler: the walk enters the page, valid or not, in place of any.
Walk(p) ==
  \E q \in IF Cardinality(DOMAIN tlb) < TlbSize THEN {p} ELSE DOMAIN tlb :
    tlb' = [r \in (DOMAIN tlb \ {q}) \cup {p} |-> IF r = p THEN p \in pte ELSE tlb[r]]

\* medeleg as hart_init leaves it, of the causes below: page faults are the
\* supervisor's, misaligned accesses and access faults are M-mode's.
Delegated == {"pf_fetch", "pf_load", "pf_store"}

(* The program executes ins: the core fetches it and traps to M-mode.      *)
Execute ==
  LET cause == IF IsLoad THEN "mis_load" ELSE "mis_store"
  IN /\ epc = "user" /\ Outcome(Text) = "ok" /\ cause \notin Delegated
     /\ epc' = "fetch"
     /\ exc' = [mcause |-> cause, mepc |-> "ins", mtval |-> ins.addr]
     /\ i' = 0 /\ val' = << >>
     /\ UNCHANGED <<conf, ins, regs, mem, pte, tlb, unmaps, before>>

\* A TLB miss of the program itself.
ExecuteMisses ==
  /\ epc = "user" /\ Outcome(Text) = "miss"
  /\ Walk(Text)
  /\ UNCHANGED <<conf, ins, epc, i, val, regs, mem, pte, exc, unmaps, before>>

\* emu_process_tlb_miss and "repeat instruction".
Repeat(p) ==
  /\ Walk(p)
  /\ exc' = [exc EXCEPT !.mepc = "ins"]
  /\ epc' = "user"

RedirectTo(cause, tval) ==
  /\ exc' = [mcause |-> cause, mepc |-> "ins", mtval |-> tval]
  /\ epc' = "redirect"

\* "redirect to smode" with the cause of the nested trap, renamed for a fetch.
FaultName(out, kind) ==
  CASE out = "pf" -> "pf_" \o kind
    [] out = "af" -> "mem_" \o kind

\* emu_get_instr fails, or the text is decoded to nothing.
FetchFails ==
  /\ epc = "fetch" /\ Outcome(Text) # "ok"
  /\ IF Outcome(Text) = "miss" THEN Repeat(Text)
     ELSE RedirectTo(FaultName(Outcome(Text), "fetch"), Text) /\ UNCHANGED tlb
  /\ UNCHANGED <<conf, ins, i, val, regs, mem, pte, unmaps, before>>

FetchDecode ==
  /\ epc = "fetch" /\ Outcome(Text) = "ok"
  /\ IF Row0 = NoRow
     THEN RedirectTo(IF IsLoad THEN "mis_load" ELSE "mis_store", ins.addr)
     ELSE epc' = "byte" /\ UNCHANGED exc
  /\ UNCHANGED <<conf, ins, i, val, regs, mem, pte, tlb, unmaps, before>>

\* emu_load8 or emu_store8 faults at byte i.
ByteFails ==
  LET a == ins.addr + i
      out == Outcome(PageOf(a))
  IN /\ epc = "byte" /\ i < Row0.len /\ out # "ok"
     /\ IF out = "miss" THEN Repeat(PageOf(a))
        ELSE RedirectTo(FaultName(out, IF IsLoad THEN "load" ELSE "store"), a)
             /\ UNCHANGED tlb
     /\ UNCHANGED <<conf, ins, i, val, regs, mem, pte, unmaps, before>>

\* A faulty loop that writes the register byte by byte as it loads.
Byte_InPlace ==
  /\ epc = "byte" /\ i < Row0.len /\ Outcome(PageOf(ins.addr + i)) = "ok"
  /\ i' = i + 1
  /\ IF IsLoad
     THEN /\ val' = Append(val, mem[ins.addr + i])
          /\ LET r == RegOf(Row0, ins.text)
             IN regs' = [regs EXCEPT ![r] = Extend(Row0.ext, val', FileBytes(r[1]))]
          /\ UNCHANGED mem
     ELSE /\ mem' = [mem EXCEPT ![ins.addr + i] = regs[RegOf(Row0, ins.text)][i + 1]]
          /\ UNCHANGED <<val, regs>>
  /\ UNCHANGED <<conf, ins, epc, pte, tlb, exc, unmaps, before>>

Byte ==
  /\ epc = "byte" /\ i < Row0.len /\ Outcome(PageOf(ins.addr + i)) = "ok"
  /\ i' = i + 1
  /\ IF IsLoad THEN val' = Append(val, mem[ins.addr + i]) /\ UNCHANGED mem
     ELSE /\ mem' = [mem EXCEPT ![ins.addr + i] = regs[RegOf(Row0, ins.text)][i + 1]]
          /\ UNCHANGED val
  /\ UNCHANGED <<conf, ins, epc, regs, pte, tlb, exc, unmaps, before>>

\* All bytes are there: write the register, step over the instruction.
Complete ==
  /\ epc = "byte" /\ i = Row0.len
  /\ LET r == RegOf(Row0, ins.text)
     IN regs' = IF IsLoad
                THEN [regs EXCEPT ![r] = Extend(Row0.ext, val, FileBytes(r[1]))]
                ELSE regs
  /\ exc' = [exc EXCEPT !.mepc = "next"]
  /\ epc' = "done"
  /\ UNCHANGED <<conf, ins, i, val, mem, pte, tlb, unmaps, before>>

(* The supervisor: a page fault of the program is answered by mapping the  *)
(* page and flushing it; other faults end the program.  The redirection    *)
(* itself (mentry.S) is in module Trap.                                    *)
MapAndReturn(p) ==
  /\ pte' = pte \cup {p}
  /\ tlb' = [q \in DOMAIN tlb \ {p} |-> tlb[q]]
  /\ epc' = "user"

FaultPage == IF exc.mtval = Text THEN Text ELSE PageOf(exc.mtval)
Mappable == exc.mcause \in {"pf_load", "pf_store", "pf_fetch"}

\* A fault of the program's own fetch that M-mode does not see.
OwnFetchFault ==
  /\ epc = "user" /\ Outcome(Text) \in {"pf", "af"}
  /\ FaultName(Outcome(Text), "fetch") \in Delegated
  /\ MapAndReturn(Text)
  /\ UNCHANGED <<conf, ins, i, val, regs, mem, exc, unmaps, before>>

(* Another hart takes a page away; this hart's stale entry goes with the   *)
(* remote fence, which M-mode does not take while it emulates.             *)
Unmap(p) ==
  /\ unmaps < MaxUnmaps /\ p \in pte
  /\ epc \in {"user", "fetch", "byte"}
  /\ pte' = pte \ {p}
  /\ unmaps' = unmaps + 1
  /\ UNCHANGED <<conf, ins, epc, i, val, regs, mem, tlb, exc, before>>

Flush(p) ==
  /\ epc = "user" /\ p \in DOMAIN tlb \ pte /\ tlb[p]
  /\ tlb' = [q \in DOMAIN tlb \ {p} |-> tlb[q]]
  /\ UNCHANGED <<conf, ins, epc, i, val, regs, mem, pte, exc, unmaps, before>>

Emulate == Execute \/ ExecuteMisses \/ FetchFails \/ FetchDecode
           \/ ByteFails \/ Byte \/ Complete
EmuNext == Emulate \/ OwnFetchFault
           \/ \E p \in Pages \cup {Text} : Unmap(p) \/ Flush(p)

(* What the access would have done in hardware, from the program's meaning. *)
HwByte(k) ==
  LET last == before.mem[ins.addr + ins.op.len - 1]
  IN IF k <= ins.op.len THEN before.mem[ins.addr + k - 1]
     ELSE CASE ins.op.ext = "sign" -> 255 * (last \div 128)
            [] ins.op.ext = "zero" -> 0
            [] OTHER -> 255
HwRegs == IF IsLoad /\ <<ins.op.file, ins.reg>> # <<"x", 0>>
          THEN [before.regs EXCEPT ![<<ins.op.file, ins.reg>>] =
                  [k \in 1 .. FileBytes(ins.op.file) |-> HwByte(k)]]
          ELSE before.regs
HwMem == IF IsLoad THEN before.mem
         ELSE [a \in Addrs |->
                 IF a \in ins.addr .. (ins.addr + ins.op.len - 1)
                 THEN before.regs[<<ins.op.file, ins.reg>>][a - ins.addr + 1]
                 ELSE before.mem[a]]

(* When the emulation steps over an instruction, registers and memory are  *)
(* what the aligned access would have made of them, whatever pages were    *)
(* missing, mapped or taken away meanwhile and however often it was        *)
(* repeated: decoding, register fields, order and extension of the bytes   *)
(* (emu_misaligned_load, emu_misaligned_store).                            *)
Emulated == epc = "done" => regs = HwRegs /\ mem = HwMem

(* A fault given to the supervisor names the instruction and a byte of its *)
(* access whose page does not answer; no register has changed, and memory  *)
(* differs only below that byte, by what the store puts there: the program *)
(* can be resumed by repeating the instruction.                            *)
FaultIsExact ==
  epc = "redirect" =>
    /\ exc.mepc = "ins" /\ regs = before.regs
    /\ \A a \in Addrs : mem[a] # before.mem[a] =>
          mem[a] = HwMem[a] /\ a \in ins.addr .. (ins.addr + ins.op.len - 1)
    /\ exc.mcause \in {"mis_load", "mis_store"} \/ exc.mtval = Text
       \/ /\ exc.mtval \in ins.addr .. (ins.addr + ins.op.len - 1)
          /\ Outcome(PageOf(exc.mtval)) \in {"pf", "af"}
=============================================================================
