------------------------------- MODULE Flash -------------------------------
(***************************************************************************)
(* The kernel image in QSPI flash: xqspi_flash_write and                   *)
(* xqspi_flash_fast_read (src/xqspi.c), called by flash_update and         *)
(* flash_load (src/fsbl.c), over a controller with two FIFOs and a flash   *)
(* chip that works on its own after chip select is released.               *)
(***************************************************************************)
EXTENDS Integers, Sequences

CONSTANTS
  ImageSizes,   \* sizes of an image, PLF_NVRAM_KERNEL_SIZE
  Skews,        \* address of the buffer modulo WordBytes
  PageBytes,    \* XSP_FLASH_PAGE_SIZE and XSP_TX_FIFO_DEPTH
  SectorPages,  \* pages in a 4K subsector
  WordBytes,    \* sizeof(unsigned long)
  PollMax       \* 100: status reads before the driver gives up seeing WIP

ASSUME FlashAssumption ==
  /\ PageBytes \in Nat \ {0} /\ SectorPages \in Nat \ {0} /\ WordBytes \in Nat \ {0}
  /\ ImageSizes \subseteq Nat \ {0} /\ Skews \subseteq 0 .. (WordBytes - 1)
  /\ PollMax \in Nat

VARIABLES
  size, skew,  \* the image and its buffer
  ram,         \* the buffer: PLF_MEM_BASE ..
  cells,       \* the chip: PLF_NVRAM_KERNEL_BASE ..
  wel, work,   \* the chip: write enable latch; "idle", "accepted" or "busy"
  sp,          \* the driver's place
  cur, ptr, end, left, i,   \* cur_addr, ptr, end, size, i of the driver
  word,        \* fast read: wdata, not yet stored
  rx, tx, sent,  \* receive FIFO, bytes to exchange, bytes the chip sent
  kept         \* history: the image an update was given, or << >>

flashVars == <<size, skew, ram, cells, wel, work, sp, cur, ptr, end, left, i, word, rx, tx, sent, kept>>
chipVars == <<cells, wel, work>>

SectorBytes == SectorPages * PageBytes
Least(a, b) == IF a < b THEN a ELSE b
\* Whole sectors are erased, the last one beyond the image.
Cells == 0 .. (((size + SectorBytes - 1) \div SectorBytes) * SectorBytes - 1)
Blank == <<"blank", 0>>
Image(name) == [a \in 0 .. (size - 1) |-> <<name, a>>]

FlashInit ==
  /\ size \in ImageSizes /\ skew \in Skews
  /\ ram = Image("ram") /\ cells = [a \in Cells |-> IF a < size THEN <<"rom", a>> ELSE <<"rest", a>>]
  /\ wel = FALSE /\ work = "idle" /\ sp = "idle"
  /\ cur = 0 /\ ptr = 0 /\ end = 0 /\ left = 0 /\ i = 0
  /\ word = << >> /\ rx = << >> /\ tx = 0 /\ sent = 0 /\ kept = << >>

(* The chip.  A command other than a status read is taken when the latch   *)
(* is set and the chip is idle, and ignored otherwise; it clears the latch.*)
ChipTakes(written) ==
  IF wel /\ work = "idle"
  THEN cells' = written /\ wel' = FALSE /\ work' = "accepted"
  ELSE UNCHANGED chipVars
ChipStarts == work = "accepted" /\ work' = "busy"
              /\ UNCHANGED <<size, skew, ram, cells, wel, sp, cur, ptr, end, left, i, word, rx, tx, sent, kept>>
ChipFinishes == work = "busy" /\ work' = "idle"
                /\ UNCHANGED <<size, skew, ram, cells, wel, sp, cur, ptr, end, left, i, word, rx, tx, sent, kept>>
\* Programming a cell that is not blank leaves neither value.
Programmed(old, new) == IF old = Blank THEN new ELSE <<"mixed", 0>>

\* flash_update and the start of xqspi_flash_write.
StartUpdate ==
  /\ sp = "idle"
  /\ sp' = "erase_enable" /\ cur' = 0 /\ ptr' = 0 /\ end' = 0 /\ left' = size /\ i' = 0
  /\ kept' = ram
  /\ UNCHANGED <<size, skew, ram, cells, wel, work, word, rx, tx, sent>>

\* xqspi_flash_write_enable, before an erase and before each page.
WriteEnable ==
  /\ sp \in {"erase_enable", "page_enable"}
  /\ wel' = (wel \/ work = "idle")
  /\ sp' = IF sp = "erase_enable" THEN "erase" ELSE "page"
  /\ UNCHANGED <<size, skew, ram, cells, work, cur, ptr, end, left, i, word, rx, tx, sent, kept>>

\* xqspi_flash_4K_subsector_erase up to its polls; "end" is set when it returns.
EraseSector ==
  /\ sp = "erase"
  /\ ChipTakes([a \in Cells |-> IF a \div SectorBytes = cur \div SectorBytes THEN Blank ELSE cells[a]])
  /\ end' = ptr + Least(left, SectorBytes)
  /\ i' = 0 /\ sp' = "wip_noise"
  /\ UNCHANGED <<size, skew, ram, cur, ptr, left, word, rx, tx, sent, kept>>

\* A page: header, data in one FIFO's worth, release of chip select.
ProgramPage ==
  LET n == Least(left, PageBytes)
  IN /\ sp = "page"
     /\ ChipTakes([a \in Cells |-> IF a \in cur .. (cur + n - 1)
                                   THEN Programmed(cells[a], ram[ptr + a - cur]) ELSE cells[a]])
     /\ cur' = cur + PageBytes /\ ptr' = ptr + n
     /\ left' = left - n
     /\ i' = 0 /\ sp' = "wip_noise"
     /\ UNCHANGED <<size, skew, ram, end, word, rx, tx, sent, kept>>

\* Polls that never give up.
PollUp_Forever ==
  /\ sp \in {"wip_up", "wip_noise"}
  /\ sp = "wip_noise" => work # "accepted"
  /\ \E wip \in IF sp = "wip_noise" THEN BOOLEAN ELSE {work = "busy"} :
       sp' = IF wip THEN "wip_down" ELSE "wip_up"
  /\ i' = Least(i + 1, PollMax)
  /\ UNCHANGED <<size, skew, ram, cells, wel, work, cur, ptr, end, left, word, rx, tx, sent, kept>>

(* The polls for WIP to rise, at most PollMax + 2 of them.  After an erase *)
(* as after a page, the first one goes out before chip select is on and    *)
(* reads anything: if it reads WIP, the next poll is already one of those  *)
(* for WIP to fall, and the driver relies on the chip having started.      *)
PollUp ==
  /\ sp \in {"wip_up", "wip_noise"}
  /\ sp = "wip_noise" => work # "accepted"
  /\ \E wip \in IF sp = "wip_noise" THEN BOOLEAN ELSE {work = "busy"} :
       sp' = IF wip \/ i > PollMax THEN "wip_down" ELSE "wip_up"
  /\ i' = i + 1
  /\ UNCHANGED <<size, skew, ram, cells, wel, work, cur, ptr, end, left, word, rx, tx, sent, kept>>

\* A driver that does not wait for the chip.
PollDown_NoWait ==
  /\ sp = "wip_down"
  /\ sp' = IF ptr < end THEN "page_enable" ELSE IF left > 0 THEN "erase_enable" ELSE "updated"
  /\ UNCHANGED <<size, skew, ram, cells, wel, work, cur, ptr, end, left, i, word, rx, tx, sent, kept>>

\* The polls for WIP to fall; then the next page, sector or the end.
PollDown ==
  /\ sp = "wip_down" /\ work # "busy"
  /\ sp' = IF ptr < end THEN "page_enable" ELSE IF left > 0 THEN "erase_enable" ELSE "updated"
  /\ UNCHANGED <<size, skew, ram, cells, wel, work, cur, ptr, end, left, i, word, rx, tx, sent, kept>>

(* xqspi_flash_fast_read: command and address leave five bytes in the      *)
(* receive FIFO; from then on each byte read is paid with a dummy byte,    *)
(* so that reading stays five bytes behind the chip.  RX_EMPTY is not      *)
(* looked at: the bus is taken to be no more than five bytes late.         *)
Header == 5
StartLoad ==
  /\ sp = "idle"
  /\ sp' = "read" /\ ptr' = 0 /\ i' = 0 /\ word' = << >>
  /\ rx' = [k \in 1 .. Header |-> <<"garbage", k>>] /\ tx' = 0 /\ sent' = 0
  /\ UNCHANGED <<size, skew, ram, cells, wel, work, cur, end, left, kept>>

\* The controller exchanges a byte; the chip's first one is its dummy cycles.
Exchange ==
  /\ tx > 0 /\ tx' = tx - 1 /\ sent' = sent + 1
  /\ rx' = Append(rx, IF sent = 0 THEN <<"dummy", 0>>
                      ELSE IF sent - 1 \in Cells THEN cells[sent - 1] ELSE <<"next", 0>>)
  /\ UNCHANGED <<size, skew, ram, cells, wel, work, sp, cur, ptr, end, left, i, word, kept>>

\* A byte is read; bytes up to a word boundary are stored at once, the rest by words.
HeadBytes == Least(size, (WordBytes - skew) % WordBytes)
ReadByte(skip) ==
  LET stored == IF i < skip THEN << >> ELSE IF i < skip + HeadBytes THEN <<rx[1]>> ELSE
                IF Len(word) = WordBytes - 1 THEN Append(word, rx[1]) ELSE << >>
  IN /\ rx' = Tail(rx) /\ tx' = tx + 1 /\ i' = i + 1
     /\ word' = IF i < skip + HeadBytes \/ stored # << >> THEN << >> ELSE Append(word, rx[1])
     /\ ram' = [a \in DOMAIN ram |-> IF a \in ptr .. (ptr + Len(stored) - 1)
                                     THEN stored[a - ptr + 1] ELSE ram[a]]
     /\ ptr' = ptr + Len(stored)
     /\ sp' = IF i + 1 = skip + size THEN "loaded" ELSE sp

\* A loop that skips the header and forgets the dummy byte.
Read_NoDummy ==
  /\ sp = "read" /\ rx # << >>
  /\ ReadByte(Header)
  /\ UNCHANGED <<size, skew, cells, wel, work, cur, end, left, sent, kept>>

Read ==
  /\ sp = "read" /\ rx # << >>
  /\ ReadByte(Header + 1)
  /\ UNCHANGED <<size, skew, cells, wel, work, cur, end, left, sent, kept>>

Driver == WriteEnable \/ EraseSector \/ ProgramPage \/ PollUp \/ PollDown \/ Read
Chip == ChipStarts \/ ChipFinishes \/ Exchange

(* A completed update leaves the image in the flash, whatever the first    *)
(* poll of each erase and page reads, and whether the chip is still busy   *)
(* at the second or long done: no command of the sequence reaches a busy   *)
(* chip or one that is not enabled, and no cell is programmed that is not  *)
(* blank, if the chip starts on an erase or page before the second poll    *)
(* (src/xqspi.c:468-602).                                                  *)
UpdateIsExact == sp = "updated" => \A a \in DOMAIN kept : cells[a] = kept[a]

(* A load puts every byte of the flash image in its place, except that the *)
(* bytes after the last whole word stay what they were                     *)
(* (src/xqspi.c:387-399); PLF_NVRAM_KERNEL_SIZE has none.                  *)
Loaded == \A a \in 0 .. (size - 1 - ((size - HeadBytes) % WordBytes)) : ram[a] = cells[a]
LoadIsExact == sp = "loaded" => Loaded
=============================================================================
