----------------------------- MODULE TrapProofs -----------------------------
(***************************************************************************)
(* Theorems of what M-mode does for its own supervisor.  Of Trap: for      *)
(* every build, page size and TLB, a misaligned access does what the       *)
(* aligned one would, a fault can be resumed, and a redirection is the     *)
(* hardware's.  Of SbiCall: for every set of builds and bound on time, the *)
(* timer interrupt is never early, and PROBE_EXT tells the truth.          *)
(***************************************************************************)
EXTENDS Trap, SbiCall, FiniteSetTheorems, TLAPS

-----------------------------------------------------------------------------
(* What the masks of emu_ldst.c decode.                                    *)
IsConf(c) == c.xlen \in {32, 64} /\ c.flen \in {0, 32, 64}

\* The text of an instruction as its fields.
LEMMA EncodedFields ==
  ASSUME NEW o, NEW r
  PROVE  /\ Encode(o, r).op = o.op /\ Encode(o, r).f3 = o.f3
         /\ o.at = "rd" => Encode(o, r).rd = r
         /\ o.at = "rs2" => Encode(o, r).rs2 = r
         /\ o.at = "rs2c" => Encode(o, r).c62 = r
         /\ o.at = "rs2s" => Encode(o, r).c62 = r + 8
  BY DEF Encode

\* The register fields of a row find the register of the program.
LEMMA FieldsFind ==
  ASSUME NEW o, NEW r \in 0 .. 31, o.at \in {"rd", "rs2", "rs2c", "rs2s"},
         o.at = "rs2s" => r \in 8 .. 15, NEW row, row.file = o.file, row.at = o.at
  PROVE  RegOf(row, Encode(o, r)) = <<o.file, r>>
<1>1. CASE o.at = "rd"
  BY <1>1, EncodedFields DEF RegOf
<1>2. CASE o.at = "rs2"
  BY <1>2, EncodedFields DEF RegOf
<1>3. CASE o.at = "rs2c"
  BY <1>3, EncodedFields DEF RegOf
<1>4. CASE o.at = "rs2s"
  <2>1. Encode(o, r).c62 = r + 8
    BY <1>4, EncodedFields
  <2>2. (r + 8) % 8 = r - 8
    <3>1. r \in 8 .. 15
      BY <1>4
    <3>2. \A k \in 0 .. 7 : (16 + k) % 8 = k
      OBVIOUS
    <3>3. r - 8 \in 0 .. 7 /\ r + 8 = 16 + (r - 8)
      BY <3>1
    <3> QED BY <3>2, <3>3
  <2>3. row.at = "rs2s" /\ row.file = o.file
    BY <1>4
  <2> QED BY <2>1, <2>2, <2>3 DEF RegOf
<1> QED BY <1>1, <1>2, <1>3, <1>4

\* The chain of masks of emu_misaligned_load finds the row of every load.
LEMMA LoadRows ==
  ASSUME NEW c, IsConf(c), NEW o \in Loads(c), NEW t, t.op = o.op, t.f3 = o.f3,
         o.at = "rd" /\ o.file = "x" => t.rd # 0
  PROVE  DecodeLoad(c, t) = Row(o.len, o.ext, o.file, o.at)
<1> USE DEF IsConf, Op
<1>1. CASE o = Op("LOAD", 1, 2, "sign", "x", "rd")
  BY <1>1 DEF DecodeLoad
<1>2. CASE o = Op("LOAD", 2, 4, "sign", "x", "rd")
  BY <1>2 DEF DecodeLoad
<1>3. CASE o = Op("LOAD", 5, 2, "zero", "x", "rd")
  BY <1>3 DEF DecodeLoad
<1>4. CASE o = Op("C0", 2, 4, "sign", "x", "rs2s")
  BY <1>4 DEF DecodeLoad
<1>5. CASE o = Op("C2", 2, 4, "sign", "x", "rd")
  BY <1>5 DEF DecodeLoad
<1>6. CASE o = Op("LOAD", 3, 8, "sign", "x", "rd") /\ c.xlen = 64
  BY <1>6 DEF DecodeLoad
<1>7. CASE o = Op("LOAD", 6, 4, "zero", "x", "rd") /\ c.xlen = 64
  BY <1>7 DEF DecodeLoad
<1>8. CASE o = Op("C0", 3, 8, "sign", "x", "rs2s") /\ c.xlen = 64
  BY <1>8 DEF DecodeLoad
<1>9. CASE o = Op("C2", 3, 8, "sign", "x", "rd") /\ c.xlen = 64
  BY <1>9 DEF DecodeLoad
<1>10. CASE o = Op("LOAD-FP", 2, 4, "box", "f", "rd") /\ c.flen > 0
  BY <1>10 DEF DecodeLoad
<1>11. CASE o = Op("C0", 3, 4, "box", "f", "rs2s") /\ c.flen > 0 /\ c.xlen = 32
  BY <1>11 DEF DecodeLoad
<1>12. CASE o = Op("C2", 3, 4, "box", "f", "rd") /\ c.flen > 0 /\ c.xlen = 32
  BY <1>12 DEF DecodeLoad
<1>13. CASE o = Op("LOAD-FP", 3, 8, "box", "f", "rd") /\ c.flen = 64
  BY <1>13 DEF DecodeLoad
<1>14. CASE o = Op("C0", 1, 8, "box", "f", "rs2s") /\ c.flen = 64
  BY <1>14 DEF DecodeLoad
<1>15. CASE o = Op("C2", 1, 8, "box", "f", "rd") /\ c.flen = 64
  BY <1>15 DEF DecodeLoad
<1> HIDE DEF Op, IsConf
<1> QED BY <1>1, <1>2, <1>3, <1>4, <1>5, <1>6, <1>7, <1>8, <1>9, <1>10, <1>11, <1>12,
           <1>13, <1>14, <1>15
        DEF Loads, Loads32, Loads64, LoadsF, LoadsF32, LoadsD

\* The chain of masks of emu_misaligned_store finds the row of every store.
LEMMA StoreRows ==
  ASSUME NEW c, IsConf(c), NEW o \in Stores(c), NEW t, t.op = o.op, t.f3 = o.f3
  PROVE  DecodeStore(c, t) = Row(o.len, o.ext, o.file, o.at)
<1> USE DEF IsConf, Op
<1>1. CASE o = Op("STORE", 1, 2, "none", "x", "rs2")
  BY <1>1 DEF DecodeStore
<1>2. CASE o = Op("STORE", 2, 4, "none", "x", "rs2")
  BY <1>2 DEF DecodeStore
<1>3. CASE o = Op("C0", 6, 4, "none", "x", "rs2s")
  BY <1>3 DEF DecodeStore
<1>4. CASE o = Op("C2", 6, 4, "none", "x", "rs2c")
  BY <1>4 DEF DecodeStore
<1>5. CASE o = Op("STORE", 3, 8, "none", "x", "rs2") /\ c.xlen = 64
  BY <1>5 DEF DecodeStore
<1>6. CASE o = Op("C0", 7, 8, "none", "x", "rs2s") /\ c.xlen = 64
  BY <1>6 DEF DecodeStore
<1>7. CASE o = Op("C2", 7, 8, "none", "x", "rs2c") /\ c.xlen = 64
  BY <1>7 DEF DecodeStore
<1>8. CASE o = Op("STORE-FP", 2, 4, "none", "f", "rs2") /\ c.flen > 0
  BY <1>8 DEF DecodeStore
<1>9. CASE o = Op("C0", 7, 4, "none", "f", "rs2s") /\ c.flen > 0 /\ c.xlen = 32
  BY <1>9 DEF DecodeStore
<1>10. CASE o = Op("C2", 7, 4, "none", "f", "rs2c") /\ c.flen > 0 /\ c.xlen = 32
  BY <1>10 DEF DecodeStore
<1>11. CASE o = Op("STORE-FP", 3, 8, "none", "f", "rs2") /\ c.flen = 64
  BY <1>11 DEF DecodeStore
<1>12. CASE o = Op("C0", 5, 8, "none", "f", "rs2s") /\ c.flen = 64
  BY <1>12 DEF DecodeStore
<1>13. CASE o = Op("C2", 5, 8, "none", "f", "rs2c") /\ c.flen = 64
  BY <1>13 DEF DecodeStore
<1> HIDE DEF Op, IsConf
<1> QED BY <1>1, <1>2, <1>3, <1>4, <1>5, <1>6, <1>7, <1>8, <1>9, <1>10, <1>11, <1>12,
           <1>13
        DEF Stores, Stores32, Stores64, StoresF, StoresF32, StoresD

\* Shapes of the instruction set.
LEMMA LoadShapes ==
  ASSUME NEW c, NEW o \in Loads(c)
  PROVE  /\ o.at \in {"rd", "rs2s"} /\ o.len \in {2, 4, 8}
         /\ o.ext \in {"sign", "zero", "box"} /\ o.file \in {"x", "f"}
<1>1. o \in Loads32 \cup Loads64 \cup LoadsF \cup LoadsF32 \cup LoadsD
  BY DEF Loads
<1> QED BY <1>1 DEF Op, Loads32, Loads64, LoadsF, LoadsF32, LoadsD

LEMMA StoreShapes ==
  ASSUME NEW c, NEW o \in Stores(c)
  PROVE  /\ o.at \in {"rs2", "rs2s", "rs2c"} /\ o.len \in {2, 4, 8}
         /\ o.ext = "none" /\ o.file \in {"x", "f"}
<1>1. o \in Stores32 \cup Stores64 \cup StoresF \cup StoresF32 \cup StoresD
  BY DEF Stores
<1> QED BY <1>1 DEF Op, Stores32, Stores64, StoresF, StoresF32, StoresD

(* The instruction and the machine the program runs on.                    *)
Program ==
  /\ conf \in Confs
  /\ ins.op \in Loads(conf) \cup Stores(conf) \cup {Amo}
  /\ ins.reg \in RegsOf(ins.op) /\ ins.text = Encode(ins.op, ins.reg)
  /\ ins.addr \in Addrs /\ ins.addr + ins.op.len - 1 \in Addrs
  /\ \E fill \in Fills : before = [regs |-> RegsFrom(conf, fill), mem |-> fill.mem]

Span == ins.addr .. (ins.addr + ins.op.len - 1)

\* A row is decoded for what is emulated, and for nothing else.
LEMMA RowIsOp ==
  ASSUME Program, ~ToZero
  PROVE  /\ ins.op = Amo => Row0 = NoRow
         /\ ins.op # Amo =>
              /\ Row0 # NoRow /\ Row0.len = ins.op.len /\ Row0.ext = ins.op.ext
              /\ RegOf(Row0, ins.text) = <<ins.op.file, ins.reg>>
              /\ IsLoad => <<ins.op.file, ins.reg>> # <<"x", 0>>
<1> DEFINE t == Encode(ins.op, ins.reg)
<1>0. IsConf(conf) /\ ins.text = t
  BY EmuAssumption DEF Program, IsConf
<1>1. CASE ins.op = Amo
  <2>1. t.op = "AMO" /\ Amo.ext # "none"
    BY <1>1, EncodedFields DEF Amo, Op
  <2>2. DecodeLoad(conf, t) = NoRow
    BY <2>1 DEF DecodeLoad
  <2> QED BY <1>0, <1>1, <2>1, <2>2 DEF Row0, IsLoad
<1>2. CASE ins.op \in Loads(conf)
  <2>1. ins.op.ext # "none" /\ ins.op.at \in {"rd", "rs2s"} /\ ins.op.len \in {2, 4, 8}
    BY <1>2, LoadShapes
  <2>2. ins.reg \in 0 .. 31 /\ (ins.op.at = "rs2s" => ins.reg \in 8 .. 15)
        /\ (ins.op.file = "x" => ins.reg # 0)
    BY <2>1, EmuAssumption DEF Program, RegsOf
  <2>3. t.op = ins.op.op /\ t.f3 = ins.op.f3 /\ (ins.op.at = "rd" => t.rd = ins.reg)
    BY EncodedFields
  <2>4. DecodeLoad(conf, t) = Row(ins.op.len, ins.op.ext, ins.op.file, ins.op.at)
    BY <1>0, <1>2, <2>2, <2>3, LoadRows
  <2>5. Row0 = Row(ins.op.len, ins.op.ext, ins.op.file, ins.op.at)
    BY <1>0, <2>1, <2>4 DEF Row0, IsLoad
  <2>6. RegOf(Row0, t) = <<ins.op.file, ins.reg>>
    BY <2>1, <2>2, <2>5, FieldsFind DEF Row
  <2>7. Row0.len = ins.op.len /\ Row0.ext = ins.op.ext /\ NoRow.len = 0
    BY <2>5 DEF Row, NoRow
  <2>8. Row0 # NoRow
    BY <2>1, <2>7
  <2>9. ins.op # Amo
    BY <1>1, <2>8
  <2> QED BY <1>0, <2>2, <2>6, <2>7, <2>8, <2>9
<1>3. CASE ins.op \in Stores(conf)
  <2>1. ins.op.ext = "none" /\ ins.op.len \in {2, 4, 8}
        /\ ins.op.at \in {"rd", "rs2", "rs2c", "rs2s"}
    BY <1>3, StoreShapes
  <2>2. ins.reg \in 0 .. 31 /\ (ins.op.at = "rs2s" => ins.reg \in 8 .. 15)
    BY <2>1, EmuAssumption DEF Program, RegsOf
  <2>3. DecodeStore(conf, t) = Row(ins.op.len, ins.op.ext, ins.op.file, ins.op.at)
    BY <1>0, <1>3, EncodedFields, StoreRows
  <2>4. Row0 = Row(ins.op.len, ins.op.ext, ins.op.file, ins.op.at) /\ ~IsLoad
    BY <1>0, <2>1, <2>3 DEF Row0, IsLoad
  <2>5. RegOf(Row0, t) = <<ins.op.file, ins.reg>>
    BY <2>1, <2>2, <2>4, FieldsFind DEF Row
  <2>6. Row0.len = ins.op.len /\ Row0.ext = ins.op.ext /\ NoRow.len = 0
    BY <2>4 DEF Row, NoRow
  <2>7. Row0 # NoRow
    BY <2>1, <2>6
  <2>8. ins.op # Amo
    BY <1>1, <2>7
  <2> QED BY <1>0, <2>4, <2>5, <2>6, <2>7, <2>8
<1> QED BY <1>1, <1>2, <1>3 DEF Program

LEMMA SpanInside ==
  ASSUME Program PROVE Span \subseteq Addrs /\ Addrs \subseteq Nat /\ ins.op.len \in {2, 4, 8}
<1>1. Cardinality(Pages) \in Nat
  BY FS_CardinalityType, EmuAssumption
<1>2. Cardinality(Pages) * PgSize - 1 \in Int
  BY <1>1, EmuAssumption
<1>3. ins.op.len \in {2, 4, 8}
  BY LoadShapes, StoreShapes DEF Program, Amo, Op
<1> QED BY <1>2, <1>3 DEF Program, Addrs, Span

-----------------------------------------------------------------------------
(* The emulation.  What has been loaded is a prefix of the bytes; what has *)
(* been stored, in this try and in those a fault ended, is what the access *)
(* would have stored.                                                      *)
Loaded == Len(val) = i /\ val \in Seq(0 .. 255)
          /\ \A k \in 1 .. i : val[k] = before.mem[ins.addr + k - 1]
Stored == \A a \in Span : a < ins.addr + i => mem[a] = HwMem[a]

EmuInv ==
  /\ Program
  /\ epc \in {"user", "fetch", "byte", "redirect", "super", "halted", "killed", "done"}
  /\ epc # "done" => regs = before.regs
  /\ IsLoad => mem = before.mem
  /\ ~IsLoad => mem = [a \in Addrs |-> mem[a]]
               /\ \A a \in Addrs : mem[a] # before.mem[a] => a \in Span /\ mem[a] = HwMem[a]
  /\ epc = "fetch" => i = 0 /\ val = << >>
  /\ epc = "byte" => ins.op # Amo /\ i \in 0 .. ins.op.len
                     /\ IF IsLoad THEN Loaded ELSE Stored
  /\ epc = "done" => ins.op # Amo /\ regs = HwRegs /\ mem = HwMem
  /\ FaultIsExact

\* Memory holds bytes.
LEMMA MemoryIsBytes ==
  ASSUME Program PROVE \A a \in Addrs : before.mem[a] \in 0 .. 255
<1>1. PICK fill \in Fills : before = [regs |-> RegsFrom(conf, fill), mem |-> fill.mem]
  BY DEF Program
<1>2. fill.mem \in [Addrs -> 0 .. 255]
  BY EmuAssumption DEF Bytes
<1> QED BY <1>1, <1>2

progVars == <<conf, ins, before>>

\* A step of the hart's own that changes neither registers nor memory.
LEMMA EmuMove ==
  ASSUME EmuInv, UNCHANGED <<progVars, regs, mem>>,
         epc # "done",
         epc' \in {"user", "super", "halted", "killed"} \/ (epc' = "fetch" /\ i' = 0 /\ val' = << >>)
  PROVE  EmuInv'
<1>1. Program' /\ IsLoad' = IsLoad /\ Span' = Span /\ HwMem' = HwMem
  BY DEF progVars, EmuInv, Program, IsLoad, Span, HwMem
<1>2. FaultIsExact'
  BY DEF FaultIsExact
<1> QED BY <1>1, <1>2 DEF EmuInv, progVars

\* Redirecting: nothing has been written but a part of the store's own bytes.
LEMMA EmuRedirects ==
  ASSUME EmuInv, UNCHANGED <<progVars, regs, mem, pte, tlb>>, epc # "done", epc' = "redirect",
         exc'.mepc = "ins",
         \/ exc'.mcause \in {"mis_load", "mis_store"} \/ exc'.mtval = Text
         \/ exc'.mtval \in Span /\ Outcome(PageOf(exc'.mtval)) \in {"pf", "af"}
  PROVE  EmuInv'
<1>1. Program' /\ IsLoad' = IsLoad /\ Span' = Span /\ HwMem' = HwMem
  BY DEF progVars, EmuInv, Program, IsLoad, Span, HwMem
<1>2. \A p : Outcome(p)' = Outcome(p)
  BY DEF Outcome, progVars
<1>3. \A a \in Addrs : mem'[a] # before'.mem[a] => mem'[a] = HwMem'[a] /\ a \in Span
  BY <1>1 DEF EmuInv, progVars
<1>4. FaultIsExact'
  BY <1>1, <1>2, <1>3 DEF FaultIsExact, Span, EmuInv, progVars, PageOf
<1> QED BY <1>1, <1>4 DEF EmuInv, progVars

\* Steps before the bytes, and the program's own.
LEMMA EmuOthers ==
  ASSUME EmuInv,
         \/ Execute \/ ExecuteMisses \/ FetchFails \/ OwnFetchFault
         \/ \E p \in Pages \cup {Text} : Unmap(p) \/ Flush(p)
  PROVE  EmuInv'
<1> USE DEF progVars
<1>1. CASE Execute
  BY <1>1, EmuMove DEF Execute
<1>2. CASE ExecuteMisses
  BY <1>2, EmuMove DEF ExecuteMisses
<1>3. CASE FetchFails /\ Outcome(Text) = "miss"
  BY <1>3, EmuMove DEF FetchFails, Repeat
<1>4. CASE FetchFails /\ Outcome(Text) # "miss"
  BY <1>4, EmuRedirects DEF FetchFails, RedirectTo
<1>5. CASE OwnFetchFault
  BY <1>5, EmuMove DEF OwnFetchFault, MapAndReturn
<1>6. ASSUME NEW p, Flush(p) PROVE EmuInv'
  BY <1>6, EmuMove DEF Flush
<1>7. ASSUME NEW p, Unmap(p) PROVE EmuInv'
  <2>1. UNCHANGED <<conf, ins, epc, i, val, regs, mem, exc, before>>
        /\ epc \in {"user", "fetch", "byte"}
    BY <1>7 DEF Unmap
  <2>2. Program' /\ IsLoad' = IsLoad /\ Span' = Span /\ HwMem' = HwMem
        /\ Loaded' = Loaded /\ Stored' = Stored
    BY <2>1 DEF EmuInv, Program, IsLoad, Span, HwMem, Loaded, Stored
  <2>3. FaultIsExact'
    BY <2>1 DEF FaultIsExact
  <2> QED BY <2>1, <2>2, <2>3 DEF EmuInv
<1> QED BY <1>1, <1>2, <1>3, <1>4, <1>5, <1>6, <1>7

\* The text is decoded: the first byte is next, or nothing is known of it.
LEMMA EmuDecodes ==
  ASSUME ~ToZero, EmuInv, FetchDecode PROVE EmuInv'
<1>1. CASE Row0 = NoRow
  BY <1>1, EmuRedirects DEF FetchDecode, RedirectTo, progVars
<1>2. CASE Row0 # NoRow
  <2>1. ins.op # Amo /\ i = 0 /\ val = << >>
    BY <1>2, RowIsOp DEF FetchDecode, EmuInv
  <2>2. UNCHANGED <<conf, ins, i, val, regs, mem, before>> /\ epc' = "byte" /\ epc = "fetch"
    BY <1>2 DEF FetchDecode
  <2>3. Program' /\ IsLoad' = IsLoad /\ Span' = Span /\ HwMem' = HwMem
    BY <2>2 DEF EmuInv, Program, IsLoad, Span, HwMem
  <2>4. FaultIsExact'
    BY <2>2 DEF FaultIsExact
  <2>5. i' \in 0 .. ins'.op.len
    BY <2>1, <2>2, SpanInside DEF EmuInv
  <2>6. Loaded'
    BY <2>1, <2>2 DEF Loaded
  <2>7. Stored'
    <3>1. \A a \in Span : a \in Nat /\ a >= ins.addr /\ ins.addr \in Nat
      BY SpanInside DEF Span, EmuInv, Program
    <3> QED BY <2>1, <2>2, <2>3, <3>1 DEF Stored
  <2> QED BY <2>1, <2>2, <2>3, <2>4, <2>5, <2>6, <2>7 DEF EmuInv
<1> QED BY <1>1, <1>2

\* A byte faults.
LEMMA EmuFaults ==
  ASSUME ~ToZero, EmuInv, ByteFails PROVE EmuInv'
<1> DEFINE a == ins.addr + i
<1>1. epc = "byte" /\ i < Row0.len /\ ins.op # Amo /\ i \in 0 .. ins.op.len
      /\ UNCHANGED <<conf, ins, before, regs, mem, pte>>
  BY DEF ByteFails, EmuInv
<1>2. a \in Span
  <2>1. ins.addr \in Nat /\ ins.op.len \in {2, 4, 8}
    BY SpanInside DEF EmuInv, Program
  <2>2. i \in Nat /\ i < ins.op.len
    BY <1>1, <2>1, RowIsOp DEF EmuInv
  <2> QED BY <2>1, <2>2 DEF Span
<1>3. CASE Outcome(PageOf(a)) = "miss"
  BY <1>1, <1>3, EmuMove DEF ByteFails, Repeat, progVars
<1>4. CASE Outcome(PageOf(a)) # "miss"
  <2>1. Outcome(PageOf(a)) \in {"pf", "af"}
    BY <1>4 DEF ByteFails, Outcome
  <2>2. exc'.mtval = a /\ exc'.mepc = "ins" /\ epc' = "redirect" /\ tlb' = tlb
    BY <1>4 DEF ByteFails, RedirectTo
  <2> QED BY <1>1, <1>2, <2>1, <2>2, EmuRedirects DEF progVars
<1> QED BY <1>3, <1>4

\* A byte is read or written.
LEMMA EmuBytes ==
  ASSUME ~ToZero, EmuInv, Byte PROVE EmuInv'
<1> DEFINE a == ins.addr + i
<1>1. epc = "byte" /\ epc' = "byte" /\ i < ins.op.len /\ ins.op # Amo /\ i \in 0 .. ins.op.len
      /\ i' = i + 1 /\ UNCHANGED <<conf, ins, before, regs>> /\ regs = before.regs
  BY RowIsOp DEF Byte, EmuInv
<1>2. a \in Span /\ a \in Addrs /\ a \in Nat /\ ins.addr \in Nat /\ i \in Nat
  BY <1>1, SpanInside DEF Span, EmuInv, Program
<1>3. Program' /\ IsLoad' = IsLoad /\ Span' = Span /\ HwMem' = HwMem
  BY <1>1 DEF EmuInv, Program, IsLoad, Span, HwMem
<1>4. FaultIsExact'
  BY <1>1 DEF FaultIsExact
<1>5. i' \in 0 .. ins'.op.len
  BY <1>1, SpanInside DEF EmuInv
<1>6. CASE IsLoad
  <2>1. val' = Append(val, before.mem[a]) /\ mem' = mem
    BY <1>6 DEF Byte, EmuInv
  <2>2. before.mem[a] \in 0 .. 255
    BY <1>2, MemoryIsBytes DEF EmuInv
  <2>3. Loaded'
    <3>1. Loaded
      BY <1>1, <1>6 DEF EmuInv
    <3>2. Len(val') = i + 1 /\ val' \in Seq(0 .. 255)
      <4> DEFINE x == before.mem[a]
      <4>1. val \in Seq(0 .. 255) /\ Len(val) = i
        BY <3>1 DEF Loaded
      <4>2. val' = Append(val, x) /\ x \in 0 .. 255
        BY <2>1, <2>2
      <4> HIDE DEF x
      <4> QED BY <4>1, <4>2
    <3>3. \A k \in 1 .. i + 1 : val'[k] = before.mem[ins.addr + k - 1]
      <4>1. val'[i + 1] = before.mem[ins.addr + i]
        BY <2>1, <3>1 DEF Loaded
      <4>2. \A k \in 1 .. i : val'[k] = before.mem[ins.addr + k - 1]
        BY <1>2, <2>1, <3>1 DEF Loaded
      <4> QED BY <1>2, <4>1, <4>2
    <3> QED BY <1>1, <3>2, <3>3 DEF Loaded
  <2> QED BY <1>1, <1>3, <1>4, <1>5, <1>6, <2>1, <2>3 DEF EmuInv
<1>7. CASE ~IsLoad
  <2>1. mem' = [mem EXCEPT ![a] = before.regs[<<ins.op.file, ins.reg>>][i + 1]]
    BY <1>1, <1>7, RowIsOp DEF Byte, EmuInv
  <2>2. HwMem[a] = before.regs[<<ins.op.file, ins.reg>>][i + 1]
    <3>1. a - ins.addr + 1 = i + 1
      BY <1>2
    <3> QED BY <1>2, <1>7, <3>1 DEF HwMem, Span
  <2>3. /\ mem = [b \in Addrs |-> mem[b]]
        /\ \A b \in Addrs : mem[b] # before.mem[b] => b \in Span /\ mem[b] = HwMem[b]
    BY <1>7 DEF EmuInv
  <2>4. mem' = [b \in Addrs |-> mem'[b]]
        /\ \A b \in Addrs : mem'[b] = IF b = a THEN HwMem[a] ELSE mem[b]
    BY <2>1, <2>2, <2>3
  <2>5. \A b \in Addrs : mem'[b] # before.mem[b] => b \in Span /\ mem'[b] = HwMem[b]
    BY <1>2, <2>3, <2>4
  <2>6. Stored'
    <3> SUFFICES ASSUME NEW b \in Span, b < ins.addr + (i + 1) PROVE mem'[b] = HwMem[b]
      BY <1>1, <1>3 DEF Stored
    <3>1. b \in Addrs /\ b \in Nat
      BY SpanInside DEF EmuInv
    <3>2. CASE b = a
      BY <2>4, <3>1, <3>2
    <3>3. CASE b # a
      <4>1. b < ins.addr + i
        BY <1>2, <3>1, <3>3
      <4> QED BY <1>1, <1>7, <2>4, <3>1, <3>3, <4>1 DEF EmuInv, Stored
    <3> QED BY <3>2, <3>3
  <2> QED BY <1>1, <1>3, <1>4, <1>5, <1>7, <2>4, <2>5, <2>6 DEF EmuInv
<1> QED BY <1>6, <1>7

\* All bytes are there.
LEMMA EmuCompletes ==
  ASSUME ~ToZero, EmuInv, Complete PROVE EmuInv'
<1>1. epc = "byte" /\ epc' = "done" /\ i = ins.op.len /\ ins.op # Amo
      /\ UNCHANGED <<conf, ins, before, mem>> /\ regs = before.regs
  BY RowIsOp DEF Complete, EmuInv
<1>2. Program' /\ IsLoad' = IsLoad /\ Span' = Span /\ HwMem' = HwMem /\ HwRegs' = HwRegs
  BY <1>1 DEF EmuInv, Program, IsLoad, Span, HwMem, HwRegs, FileBytes, HwByte, XBytes
<1>3. FaultIsExact'
  BY <1>1 DEF FaultIsExact
<1>4. CASE IsLoad
  <2> DEFINE n == FileBytes(ins.op.file)
             r == <<ins.op.file, ins.reg>>
  <2>1. regs' = [before.regs EXCEPT ![r] = Extend(ins.op.ext, val, n)] /\ r # <<"x", 0>>
    <3>1. RegOf(Row0, ins.text) = r /\ Row0.ext = ins.op.ext /\ r # <<"x", 0>>
      BY <1>1, <1>4, RowIsOp DEF EmuInv
    <3>2. RegOf(Row0, ins.text)[1] = ins.op.file
      BY <3>1
    <3> QED BY <1>1, <1>4, <3>1, <3>2 DEF Complete
  <2>2. Len(val) = ins.op.len /\ \A k \in 1 .. ins.op.len : val[k] = before.mem[ins.addr + k - 1]
    BY <1>1, <1>4 DEF EmuInv, Loaded
  <2>3. ins.op.len \in {2, 4, 8} /\ ins.op.ext \in {"sign", "zero", "box"}
    BY <1>1, <1>4, LoadShapes, StoreShapes DEF EmuInv, Program, IsLoad
  <2>4. before.mem[ins.addr + ins.op.len - 1] \in 0 .. 255
    BY MemoryIsBytes DEF EmuInv, Program
  <2>5. \A k \in 1 .. n : Extend(ins.op.ext, val, n)[k] = HwByte(k)
    <3> SUFFICES ASSUME NEW k \in 1 .. n PROVE Extend(ins.op.ext, val, n)[k] = HwByte(k)
      OBVIOUS
    <3>1. CASE k <= ins.op.len
      BY <2>2, <2>3, <3>1 DEF Extend, HwByte
    <3>2. CASE ~(k <= ins.op.len)
      <4>1. val[Len(val)] = before.mem[ins.addr + ins.op.len - 1]
        BY <2>2, <2>3
      <4> DEFINE last == before.mem[ins.addr + ins.op.len - 1]
      <4>2. IF last >= 128 THEN last \div 128 = 1 ELSE last \div 128 = 0
        <5>1. last \in 0 .. 255
          BY <2>4
        <5> HIDE DEF last
        <5> QED BY <5>1
      <4>3. ~(k <= Len(val))
        BY <2>2, <3>2
      <4>4. Extend(ins.op.ext, val, n)[k] =
              CASE ins.op.ext = "sign" -> IF last >= 128 THEN 255 ELSE 0
                [] ins.op.ext = "zero" -> 0
                [] ins.op.ext = "box" -> 255
        BY <4>1, <4>3 DEF Extend
      <4>5. HwByte(k) = CASE ins.op.ext = "sign" -> 255 * (last \div 128)
                          [] ins.op.ext = "zero" -> 0
                          [] OTHER -> 255
        BY <3>2 DEF HwByte
      <4>6. CASE ins.op.ext = "sign"
        BY <4>2, <4>4, <4>5, <4>6
      <4>7. CASE ins.op.ext = "zero" \/ ins.op.ext = "box"
        BY <4>4, <4>5, <4>7
      <4> QED BY <2>3, <4>6, <4>7
    <3> QED BY <3>1, <3>2
  <2>6. Extend(ins.op.ext, val, n) = [k \in 1 .. n |-> HwByte(k)]
    BY <2>5 DEF Extend
  <2>7. regs' = HwRegs
    BY <1>4, <2>1, <2>6 DEF HwRegs
  <2>8. mem' = HwMem
    BY <1>1, <1>4 DEF HwMem, EmuInv
  <2> QED BY <1>1, <1>2, <1>3, <1>4, <2>7, <2>8 DEF EmuInv
<1>5. CASE ~IsLoad
  <2>1. regs' = HwRegs
    BY <1>1, <1>5 DEF Complete, HwRegs
  <2>2. \A b \in Addrs : mem[b] = HwMem[b]
    <3> SUFFICES ASSUME NEW b \in Addrs PROVE mem[b] = HwMem[b]
      OBVIOUS
    <3>1. CASE b \in Span
      <4>1. b < ins.addr + i
        BY <1>1, <3>1, SpanInside DEF Span, EmuInv, Program
      <4> QED BY <1>1, <1>5, <3>1, <4>1 DEF EmuInv, Stored
    <3>2. CASE b \notin Span
      <4>1. mem[b] = before.mem[b]
        BY <1>5, <3>2 DEF EmuInv
      <4> QED BY <1>5, <3>2, <4>1 DEF HwMem, Span
    <3> QED BY <3>1, <3>2
  <2>3. mem' = HwMem
    <3>1. mem = [b \in Addrs |-> mem[b]] /\ HwMem = [b \in Addrs |-> HwMem[b]]
      BY <1>5 DEF EmuInv, HwMem
    <3> QED BY <1>1, <2>2, <3>1
  <2> QED BY <1>1, <1>2, <1>3, <1>5, <2>1, <2>3 DEF EmuInv
<1> QED BY <1>4, <1>5

LEMMA EmuStart == ASSUME TrapInit PROVE EmuInv
<1>1. PICK o \in Loads(conf) \cup Stores(conf) \cup {Amo}, r \in Numbers, a \in Addrs :
        ins = [op |-> o, reg |-> r, text |-> Encode(o, r), addr |-> a]
  BY DEF TrapInit, EmuInit
<1>2. PICK fill \in Fills : regs = RegsFrom(conf, fill) /\ mem = fill.mem
  BY DEF TrapInit, EmuInit
<1>3. before = [regs |-> regs, mem |-> mem] /\ epc = "user"
      /\ conf \in Confs /\ ins.reg \in RegsOf(ins.op) /\ ins.addr + ins.op.len - 1 \in Addrs
  BY DEF TrapInit, EmuInit
<1>4. Program
  BY <1>1, <1>2, <1>3 DEF Program
<1>5. fill.mem \in [Addrs -> 0 .. 255]
  BY EmuAssumption DEF Bytes
<1>6. mem = [b \in Addrs |-> mem[b]]
  BY <1>2, <1>5
<1> QED BY <1>3, <1>4, <1>6 DEF EmuInv, FaultIsExact

LEMMA EmuStep ==
  ASSUME ~ToZero, EmuInv, [TrapNext]_trapVars PROVE EmuInv'
<1>1. CASE EmuNext
  BY <1>1, EmuOthers, EmuDecodes, EmuFaults, EmuBytes, EmuCompletes DEF EmuNext, Emulate
<1>2. CASE Redirect
  BY <1>2, EmuMove DEF Redirect, progVars
<1>3. CASE Supervise
  BY <1>3, EmuMove DEF Supervise, MapAndReturn, progVars
<1>4. CASE UNCHANGED trapVars
  <2>1. UNCHANGED emuVars
    BY <1>4 DEF trapVars
  <2>2. Program' /\ IsLoad' = IsLoad /\ Span' = Span /\ HwMem' = HwMem /\ HwRegs' = HwRegs
        /\ Loaded' = Loaded /\ Stored' = Stored
    BY <2>1 DEF EmuInv, Program, IsLoad, Span, HwMem, HwRegs, FileBytes, HwByte, XBytes,
                Loaded, Stored, emuVars
  <2>3. FaultIsExact'
    BY <2>1 DEF FaultIsExact, HwMem, IsLoad, Outcome, PageOf, emuVars, EmuInv
  <2> QED BY <2>1, <2>2, <2>3 DEF EmuInv, emuVars
<1> QED BY <1>1, <1>2, <1>3, <1>4 DEF TrapNext

-----------------------------------------------------------------------------
(* The redirection (src/mentry.S).                                         *)

CsrFields == {"into", "mpp", "mpv", "gva", "spp", "spie", "sie", "vspp", "vspie", "vsie",
              "spv", "hgva", "spvp", "hedeleg", "stvec0", "sexc", "vsexc"}

LEMMA CsrFieldsOf ==
  ASSUME NEW h \in BOOLEAN, NEW c \in Csrs[h]
  PROVE  DOMAIN c = CsrFields /\ \A e : DOMAIN Redirected(c, e) = CsrFields
  <2>1. DOMAIN c = CsrFields
    BY CsrAssumption DEF CsrFields
  <2> QED BY <2>1 DEF Redirected, ToS, ToVS, FillH

\* Without the hypervisor extension the supervisor is entered as by hardware.
LEMMA PlainRedirect ==
  ASSUME NEW c \in Csrs[FALSE], NEW e, ~conf.h, Redirected(c, e).into # "bad"
  PROVE  \A f \in CsrFields : Redirected(c, e)[f] = HwTrap(c, e)[f]
<1>1. c.mpv = FALSE /\ c.gva = FALSE /\ c.hgva = FALSE /\ c.spv = FALSE
  BY CsrAssumption
<1>2. DOMAIN c = CsrFields
  BY CsrFieldsOf
<1>3. ~c.stvec0 
  BY DEF Redirected, ToS
<1>4. HwTrap(c, e) = [c EXCEPT !.into = "S", !.sexc = e, !.spp = c.mpp = "S", !.spie = c.sie,
               !.sie = FALSE, !.mpp = "S", !.spv = FALSE, !.hgva = FALSE, !.mpv = FALSE,
               !.spvp = @]
  BY <1>1 DEF HwTrap
<1>5. Redirected(c, e) = [c EXCEPT !.into = "S", !.sexc = e, !.spp = c.mpp = "S", !.spie = c.sie,
               !.sie = FALSE, !.mpp = "S"]
  BY <1>3 DEF Redirected, ToS
<1>6. \A f \in CsrFields \ {"mpv", "spv", "hgva", "spvp"} : Redirected(c, e)[f] = HwTrap(c, e)[f]
  BY <1>2, <1>4, <1>5 DEF CsrFields
<1>7. \A f \in {"mpv", "spv", "hgva"} : HwTrap(c, e)[f] = FALSE
  BY <1>2, <1>4 DEF CsrFields
<1>8. \A f \in {"mpv", "spv", "hgva"} : Redirected(c, e)[f] = FALSE
  BY <1>1, <1>2, <1>5 DEF CsrFields
<1>9. Redirected(c, e)["spvp"] = HwTrap(c, e)["spvp"]
  BY <1>2, <1>4, <1>5 DEF CsrFields
<1> QED
  BY <1>6, <1>7, <1>8, <1>9

\* With it, a guest's fault that the hypervisor delegates.
LEMMA GuestRedirect ==
  ASSUME NEW c \in Csrs[TRUE], NEW e, conf.h, c.mpv, c.hedeleg
  PROVE  /\ \A f \in CsrFields \ {"vspp", "vspie"} : Redirected(c, e)[f] = HwTrap(c, e)[f]
         /\ Redirected(c, e).into = "VS"
         /\ ~(c.mpp = "U" /\ c.vspp) => Redirected(c, e).vspp = HwTrap(c, e).vspp
         /\ ~(~c.vsie /\ c.vspie) => Redirected(c, e).vspie = HwTrap(c, e).vspie
<1>1. c.mpp \in {"U", "S"} /\ c.vspp \in BOOLEAN /\ c.vspie \in BOOLEAN /\ c.vsie \in BOOLEAN
  BY CsrAssumption
<1>2. DOMAIN c = CsrFields
  BY CsrFieldsOf
<1>3. Redirected(c, e) = [c EXCEPT !.into = "VS", !.vsexc = e, !.vspp = @ \/ c.mpp = "S",
          !.vspie = @ \/ c.vsie, !.vsie = FALSE, !.mpp = "S"]
  BY DEF Redirected, ToVS
<1>4. HwTrap(c, e) = [c EXCEPT !.into = "VS", !.vsexc = e, !.vspp = c.mpp = "S",
          !.vspie = c.vsie, !.vsie = FALSE, !.mpp = "S"]
  BY DEF HwTrap
<1>5. \A f \in CsrFields \ {"vspp", "vspie"} : Redirected(c, e)[f] = HwTrap(c, e)[f]
  <2>1. \A f \in CsrFields \ {"into", "vsexc", "vspp", "vspie", "vsie", "mpp"} :
          Redirected(c, e)[f] = c[f] /\ HwTrap(c, e)[f] = c[f]
    BY <1>2, <1>3, <1>4
  <2>2. \A f \in {"into", "vsexc", "vsie", "mpp"} : Redirected(c, e)[f] = HwTrap(c, e)[f]
    <3> DEFINE r == Redirected(c, e)
               w == HwTrap(c, e)
    <3>1. r.into = "VS" /\ r.vsexc = e /\ r.vsie = FALSE /\ r.mpp = "S"
      BY <1>2, <1>3 DEF CsrFields
    <3>2. w.into = "VS" /\ w.vsexc = e /\ w.vsie = FALSE /\ w.mpp = "S"
      BY <1>2, <1>4 DEF CsrFields
    <3> HIDE DEF r, w
    <3>3. \A f \in {"into", "vsexc", "vsie", "mpp"} : r[f] = w[f]
      BY <3>1, <3>2
    <3> QED BY <3>3 DEF r, w
  <2> QED BY <2>1, <2>2
<1>6. Redirected(c, e).vspp = (c.vspp \/ c.mpp = "S") /\ HwTrap(c, e).vspp = (c.mpp = "S")
  BY <1>2, <1>3, <1>4 DEF CsrFields
<1>7. Redirected(c, e).vspie = (c.vspie \/ c.vsie) /\ HwTrap(c, e).vspie = c.vsie
  BY <1>2, <1>3, <1>4 DEF CsrFields
<1>8. Redirected(c, e).into = "VS"
  BY <1>2, <1>3 DEF CsrFields
<1> QED BY <1>1, <1>5, <1>6, <1>7, <1>8

\* And one that the hypervisor takes.
LEMMA HypervisorRedirect ==
  ASSUME NEW c \in Csrs[TRUE], NEW e, conf.h, ~(c.mpv /\ c.hedeleg),
         Redirected(c, e).into # "bad"
  PROVE  /\ \A f \in CsrFields \ {"spvp"} : Redirected(c, e)[f] = HwTrap(c, e)[f]
         /\ Redirected(c, e).into = "S"
<1>1. DOMAIN c = CsrFields
  BY CsrFieldsOf
<1>2. DOMAIN FillH(c) = CsrFields /\ FillH(c).stvec0 = c.stvec0
  BY <1>1 DEF FillH, CsrFields
<1>3. ~c.stvec0
  <2>1. CASE FillH(c).stvec0
    <3>1. Redirected(c, e) = [FillH(c) EXCEPT !.into = "bad"]
      BY <2>1 DEF Redirected, ToS
    <3>2. Redirected(c, e).into = "bad"
      BY <1>2, <3>1 DEF CsrFields
    <3> QED BY <3>2
  <2> QED BY <1>2, <2>1
<1>4. Redirected(c, e) =
        [FillH(c) EXCEPT !.into = "S", !.sexc = e, !.spp = FillH(c).mpp = "S",
                         !.spie = FillH(c).sie, !.sie = FALSE, !.mpp = "S"]
  BY <1>3, <1>2 DEF Redirected, ToS
<1>5. FillH(c).mpp = c.mpp /\ FillH(c).sie = c.sie
  BY <1>1 DEF FillH, CsrFields
<1>6. HwTrap(c, e) =
        [c EXCEPT !.into = "S", !.sexc = e, !.spp = c.mpp = "S", !.spie = c.sie,
                  !.sie = FALSE, !.mpp = "S", !.spv = c.mpv, !.hgva = c.gva, !.mpv = FALSE,
                  !.spvp = IF c.mpv THEN c.mpp = "S" ELSE @]
  BY DEF HwTrap
<1>7. \A f \in {"into", "sexc", "spp", "spie", "sie", "mpp"} : Redirected(c, e)[f] = HwTrap(c, e)[f]
  <2> DEFINE r == Redirected(c, e)
             w == HwTrap(c, e)
  <2>1. /\ r.into = "S" /\ r.sexc = e /\ r.spp = (c.mpp = "S")
        /\ r.spie = c.sie /\ r.sie = FALSE /\ r.mpp = "S"
    BY <1>2, <1>4, <1>5 DEF CsrFields
  <2>2. /\ w.into = "S" /\ w.sexc = e /\ w.spp = (c.mpp = "S")
        /\ w.spie = c.sie /\ w.sie = FALSE /\ w.mpp = "S"
    BY <1>1, <1>6 DEF CsrFields
  <2> HIDE DEF r, w
  <2>3. \A f \in {"into", "sexc", "spp", "spie", "sie", "mpp"} : r[f] = w[f]
    BY <2>1, <2>2
  <2> QED BY <2>3 DEF r, w
<1>8. \A f \in CsrFields \ {"into", "sexc", "spp", "spie", "sie", "mpp", "spvp"} :
        Redirected(c, e)[f] = FillH(c)[f]
  BY <1>2, <1>4 DEF CsrFields
<1>9. \A f \in CsrFields \ {"into", "sexc", "spp", "spie", "sie", "mpp", "spvp"} :
        HwTrap(c, e)[f] = FillH(c)[f]
  <2>1. \A f \in {"spv", "hgva", "mpv"} : HwTrap(c, e)[f] = FillH(c)[f]
    BY <1>1, <1>6 DEF FillH, CsrFields
  <2>2. \A f \in CsrFields \ {"into", "sexc", "spp", "spie", "sie", "mpp", "spvp", "spv", "hgva", "mpv"} :
          HwTrap(c, e)[f] = c[f] /\ FillH(c)[f] = c[f]
    BY <1>1, <1>6 DEF FillH, CsrFields
  <2> QED BY <2>1, <2>2
<1>10. Redirected(c, e).into = "S"
  BY <1>2, <1>4 DEF CsrFields
<1> QED BY <1>7, <1>8, <1>9, <1>10

\* The CSRs in the supervisor are those of its trap, redirected.
RedirectInv ==
  /\ conf \in Confs
  /\ epc = "super" =>
       old \in Csrs[conf.h] /\ csr = Redirected(old, exc) /\ csr.into # "bad"

LEMMA RedirectStep == ASSUME RedirectInv, [TrapNext]_trapVars PROVE RedirectInv'
<1>1. CASE EmuNext /\ UNCHANGED <<csr, old>>
  <2>1. conf' = conf /\ epc' # "super"
    BY <1>1 DEF EmuNext, Emulate, Execute, ExecuteMisses, FetchFails, FetchDecode, ByteFails,
                Byte, Complete, Repeat, RedirectTo, OwnFetchFault, MapAndReturn, Unmap, Flush
  <2> QED BY <2>1 DEF RedirectInv
<1>2. CASE Redirect
  BY <1>2 DEF Redirect, RedirectInv, Redirected, ToS, ToVS, FillH
<1>3. CASE Supervise
  <2>1. conf' = conf /\ epc' # "super"
    BY <1>3 DEF Supervise, MapAndReturn
  <2> QED BY <2>1 DEF RedirectInv
<1>4. CASE UNCHANGED trapVars
  BY <1>4 DEF trapVars, emuVars, RedirectInv, Redirected, ToS, ToVS, FillH
<1> QED BY <1>1, <1>2, <1>3, <1>4 DEF TrapNext

-----------------------------------------------------------------------------
\* A misaligned access that is stepped over has done what the aligned one would
\* have, for any bytes in registers and memory, any register the access can name,
\* any pages, TLB and builds, and whatever another hart unmaps meanwhile
\* (emu_misaligned_load, emu_misaligned_store).  A load into x0 is left out: the
\* code writes the slot of x0 in the trap frame.
THEOREM AccessesAreEmulated == ASSUME ~ToZero PROVE TrapSpec => []Emulated
<1>1. TrapInit => EmuInv
  BY EmuStart
<1>2. EmuInv /\ [TrapNext]_trapVars => EmuInv'
  BY EmuStep
<1>3. EmuInv => Emulated
  BY DEF EmuInv, Emulated
<1> QED BY <1>1, <1>2, <1>3, PTL DEF TrapSpec

\* A fault that is handed on names a byte of the access and leaves what a
\* repetition needs (emu_load8, emu_store8, src/emu_ldst.c).
THEOREM FaultsAreExact == ASSUME ~ToZero PROVE TrapSpec => []FaultIsExact
<1>1. TrapInit => EmuInv
  BY EmuStart
<1>2. EmuInv /\ [TrapNext]_trapVars => EmuInv'
  BY EmuStep
<1>3. EmuInv => FaultIsExact
  BY DEF EmuInv
<1> QED BY <1>1, <1>2, <1>3, PTL DEF TrapSpec

\* A redirected fault enters S mode, the hypervisor or the guest as a delegated
\* one, whatever the CSRs held, with three exceptions in builds with the
\* hypervisor extension: hstatus.SPVP of a fault the hypervisor takes, vsstatus.SPP
\* already set when the guest's user faults, and vsstatus.SPIE already set when
\* SIE is clear (src/mentry.S:489-640).
THEOREM RedirectsAsHardware == TrapSpec => []RedirectAsHardware
<1>1. TrapInit => RedirectInv
  BY DEF TrapInit, EmuInit, RedirectInv
<1>2. RedirectInv => RedirectAsHardware
  <2> SUFFICES ASSUME RedirectInv, epc = "super", NEW f \in DOMAIN csr,
                      csr[f] # HwTrap(old, exc)[f]
               PROVE  /\ conf.h
                      /\ \/ f = "spvp" /\ csr.into = "S"
                         \/ f = "vspp" /\ csr.into = "VS" /\ old.mpp = "U" /\ old.vspp
                         \/ f = "vspie" /\ csr.into = "VS" /\ ~old.vsie /\ old.vspie
    BY DEF RedirectAsHardware
  <2>1. conf.h \in BOOLEAN
    BY EmuAssumption DEF RedirectInv
  <2>2. old \in Csrs[conf.h] /\ csr = Redirected(old, exc) /\ csr.into # "bad"
    BY DEF RedirectInv
  <2>3. f \in CsrFields
    BY <2>1, <2>2, CsrFieldsOf
  <2>4. CASE conf.h = FALSE
    BY <2>2, <2>3, <2>4, PlainRedirect
  <2>5. CASE conf.h = TRUE /\ old.mpv /\ old.hedeleg
    <3>1. old \in Csrs[TRUE]
      BY <2>2, <2>5
    <3>2. csr.into = "VS" /\ \A x \in CsrFields \ {"vspp", "vspie"} : csr[x] = HwTrap(old, exc)[x]
      BY <2>2, <2>5, <3>1, GuestRedirect
    <3>5. f \in {"vspp", "vspie"}
      BY <2>3, <3>2
    <3>3. f = "vspp" => old.mpp = "U" /\ old.vspp
      BY <2>2, <2>5, <3>1, GuestRedirect
    <3>4. f = "vspie" => ~old.vsie /\ old.vspie
      BY <2>2, <2>5, <3>1, GuestRedirect
    <3> QED BY <2>5, <3>2, <3>3, <3>4, <3>5
  <2>6. CASE conf.h = TRUE /\ ~(old.mpv /\ old.hedeleg)
    <3>1. old \in Csrs[TRUE]
      BY <2>2, <2>6
    <3> QED BY <2>2, <2>3, <2>6, <3>1, HypervisorRedirect
  <2> QED BY <2>1, <2>4, <2>5, <2>6
<1> QED BY <1>1, <1>2, RedirectStep, PTL DEF TrapSpec

-----------------------------------------------------------------------------
(* The SBI calls.                                                          *)

\* The compare register holds what was asked for last, and the pending bit is of it.
TimerInv ==
  /\ time \in 0 .. MaxTime
  /\ asked \in 0 .. Never
  /\ cmp = asked
  /\ StipMeansExpired

\* A call sets the timer or leaves it alone.
LEMMA EcallTimer ==
  ASSUME NEW c, TimerInv, Ecall(c) PROVE TimerInv'
<1>1. MaxTime \in Nat
  BY SbiAssumption
<1>2. CASE AnswerOf(build, c).effect = "timer"
  <2>1. PICK when \in 0 .. MaxTime : SetTimer(when)
    BY <1>2 DEF Ecall
  <2>2. time' = time
    BY DEF Ecall
  <2> QED BY <1>1, <2>1, <2>2 DEF SetTimer, SetCmp, TimerInv, StipMeansExpired, Never
<1>3. CASE AnswerOf(build, c).effect # "timer"
  <2>1. UNCHANGED <<time, cmp, asked, stip>>
    BY <1>3 DEF Ecall
  <2> QED BY <2>1 DEF TimerInv, StipMeansExpired, Never
<1> QED BY <1>2, <1>3

\* A pending supervisor timer interrupt is that of the last SET_TIMER, and its
\* time has come (src/mentry.S:427-439, 834-846).
THEOREM TimerIsNotEarly == SbiSpec => []StipMeansExpired
<1> USE DEF TimerInv, StipMeansExpired, Never
<1>1. SbiInit => TimerInv
  BY SbiAssumption DEF SbiInit
<1>2. TimerInv /\ [SbiNext]_sbiVars => TimerInv'
  <2> SUFFICES ASSUME TimerInv, [SbiNext]_sbiVars PROVE TimerInv'
    OBVIOUS
  <2>1. ASSUME NEW c \in Calls, Ecall(c) PROVE TimerInv'
    BY <2>1, EcallTimer
  <2>2. CASE ProbeExt
    BY <2>2 DEF ProbeExt
  <2>3. CASE TimerInterrupt
    BY <2>3, SbiAssumption DEF TimerInterrupt
  <2>4. CASE Tick
    BY <2>4, SbiAssumption DEF Tick
  <2>5. CASE UNCHANGED sbiVars
    BY <2>5 DEF sbiVars
  <2> QED BY <2>1, <2>2, <2>3, <2>4, <2>5 DEF SbiNext
<1> QED BY <1>1, <1>2, PTL DEF SbiSpec

-----------------------------------------------------------------------------
Truth(b, e) == IF Probe(b, e) THEN "SUCCESS" ELSE "NOT_SUPPORTED"

\* The function an extension is there for answers as PROBE_EXT says, on the path
\* that the build has for it.
LEMMA HomeAnswers ==
  ASSUME NEW b \in Builds, NEW c \in Calls, c.ext \in V2 \ {"base"}, Home(b, c)
  PROVE  AnswerOf(b, c).code = Truth(b, c.ext)
<1> USE DEF Truth, Probe, AnswerOf, FastCalls, NotSupported, Answer, Home, V2, SbiInit
<1>1. CASE c.ext = "time"
  BY <1>1 DEF FastAnswer, SlowAnswer
<1>2. CASE c.ext = "ipi"
  BY <1>2 DEF FastAnswer, SlowAnswer
<1>3. CASE c.ext = "rfence"
  BY <1>3 DEF SlowAnswer
<1>4. CASE c.ext = "hsm"
  BY <1>4 DEF SlowAnswer, HsmAnswer
<1>5. CASE c.ext = "pmu"
  BY <1>5 DEF SlowAnswer, PmuFns
<1>6. CASE c.ext = "scr"
  BY <1>6 DEF SlowAnswer, ScrFns, InfoFns, PLFINFO, L2PMU, L3PMU, VCS
<1>7. CASE c.ext = "vendor"
  BY <1>7 DEF SlowAnswer
<1> QED BY <1>1, <1>2, <1>3, <1>4, <1>5, <1>6, <1>7

\* What was probed is the truth, and so is every answer that was given.
ProbeInv ==
  /\ build \in Builds
  /\ probed = "yes" => Probe(build, ext)
  /\ probed = "no" => ~Probe(build, ext)
  /\ ext \in V2
  /\ ext # "base" => tried \subseteq {Truth(build, ext)}

\* An extension that PROBE_EXT calls available answers its own function, and one
\* called absent refuses it, in every build (src/mtrap.c:325-345).
THEOREM ProbesAreTrue == SbiSpec => []ProbeIsTrue
<1>1. SbiInit => ProbeInv
  BY DEF SbiInit, ProbeInv
<1>2. ProbeInv /\ [SbiNext]_sbiVars => ProbeInv'
  <2> SUFFICES ASSUME ProbeInv, [SbiNext]_sbiVars PROVE ProbeInv'
    OBVIOUS
  <2>1. ASSUME NEW c \in Calls, Ecall(c) PROVE ProbeInv'
    <3>1. UNCHANGED <<build, ext, probed>>
      BY <2>1 DEF Ecall
    <3>2. tried' = IF c.ext = ext /\ Home(build, c)
                   THEN tried \cup {AnswerOf(build, c).code} ELSE tried
      BY <2>1 DEF Ecall
    <3>3. ASSUME ext # "base" PROVE tried' \subseteq {Truth(build, ext)}
      <4>1. CASE c.ext = ext /\ Home(build, c)
        BY <4>1, <3>2, <3>3, HomeAnswers DEF ProbeInv
      <4>2. CASE ~(c.ext = ext /\ Home(build, c))
        BY <4>2, <3>2, <3>3 DEF ProbeInv
      <4> QED BY <4>1, <4>2
    <3> QED BY <3>1, <3>3 DEF ProbeInv, Truth
  <2>2. CASE ProbeExt
    BY <2>2 DEF ProbeExt, ProbeInv, Truth
  <2>3. CASE TimerInterrupt
    BY <2>3 DEF TimerInterrupt, ProbeInv, Truth
  <2>4. CASE Tick
    BY <2>4 DEF Tick, ProbeInv, Truth
  <2>5. CASE UNCHANGED sbiVars
    BY <2>5 DEF sbiVars, ProbeInv, Truth
  <2> QED BY <2>1, <2>2, <2>3, <2>4, <2>5 DEF SbiNext
<1>3. ProbeInv => ProbeIsTrue
  BY DEF ProbeInv, ProbeIsTrue, Truth
<1> QED BY <1>1, <1>2, <1>3, PTL DEF SbiSpec

=============================================================================
