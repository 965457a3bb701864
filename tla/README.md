# A verification of the SCBL firmware

SCBL is the Syntacore first stage bootloader. It starts the harts, loads the kernel and then stays
in machine mode as the SBI firmware that the supervisor (Linux, or a hypervisor with its guests)
calls. This directory holds TLA+ models of it, the TLC runs that check them, and proofs of their
main properties. Paths below are those of the repository (`src/ipi.c` is its file `src/ipi.c`);
"M-mode" is the firmware and "the supervisor" what runs above it.

Contents

1. Inventory of the system
2. The modules and what they stand for
3. What each run checks, the bounds, and why they are enough
4. Fairness and other assumptions
5. What is proved
6. Where code and intent disagree
7. What is not modelled, and the plan

## 1. Inventory of the system

| component | source | state | operations | interacts through |
|---|---|---|---|---|
| inter-hart messages | `src/ipi.c`, `include/ipi.h`, `include/ipi_msg.h`, handler and `SEND_IPI` in `src/mentry.S`, fences in `src/mtrap.c` | mailbox words (one per sender and receiver), `ipi_msg_pool` with `shared_cnt`, SSIP of each hart | allocate, send, poll, receive by interrupt, free; the calls SEND_IPI, REMOTE_FENCE_I, REMOTE_SFENCE_VMA | mailbox hardware, shared pool |
| hart state management (HSM) | `src/mtrap.c`, `src/minit.c`, `src/mentry.S`, `src/cluster_control.c` | `hls->state`, `hsm_start_arr`, `harts_online`, control register of each CPU | HART_START, HART_STOP, HART_STATUS; entry of a secondary; switching a CPU off | shared memory, boot words, stop messages, control registers |
| SMP bring-up, device tree | `src/minit.c`, `src/mentry.S` | slots found, hls of each logical hart, boot words, the CPU nodes of the tree | `init_smp`, `init_slaves`, `init_dtb`, secondary reset path | boot words RESET, SETUP, START; `hls->state`; the tree that Linux reads |
| shutdown and restart | `src/mtrap.c`, `src/mentry.S`, `src/minit.c` | RESET words, the data section | SHUTDOWN, restart | mailboxes |
| spinlock | `include/spinlock.h`, users in `src/mtrap.c` | lock word | lock, trylock, unlock | amoswap |
| spinlock without atomics | `src/spinlock.c` | a flag byte per hart | lock, unlock (and atomics built on it) | loads and stores |
| console and log colorizer | `src/mtrap.c`, `src/con_utils.c` | automaton state and position, `skip_con_colorize` | a character in, characters out; getchar | `printk_lock`, the UART |
| SBI dispatch and timer | fast path in `src/mentry.S`, `src/mtrap.c` | `mtimecmp`, `mie.MTIE`, `mip.STIP` | all calls of the extensions, PROBE_EXT, SET_TIMER, the timer interrupt | calls everything above and the PMUs |
| trap redirection | `src/mentry.S` | status, cause and address registers of the modes below | a fault M-mode does not handle goes to S, HS or VS | those registers |
| misaligned access emulation | `src/emu_ldst.c`, TLB handler in `src/mtrap.c` | trap frame, floating-point registers, memory of the program | fetch and decode, load and store by bytes, software page walk | page tables the supervisor edits, trap redirection |
| hart PMU | `src/pmu.c` | events of each counter, `mcountinhibit`, `mhpmevent`, overflow interrupt, and one number of counters for all harts | configure, start, stop over masks, read | the supervisor's overflow handler; the number other harts count anew |
| L2 and L3 PMU | `src/l2_pmu.c`, `src/l3_pmu.c` | event tables shared by all harts, event registers | configure, start, stop, read | the shared table, without a lock |
| boot menu and autostart | `src/fsbl.c` | previous command and address, `autostart_enable` | commands on memory and flash, automatic start | flash, xmodem, restart |
| flash load and update | `src/fsbl.c`, `src/xqspi.c` | FIFOs, write-enable latch, busy bit | erase, program, fast read | the flash chip |
| xmodem receiver | `src/xmodem.c`, `src/crc16.c` | packet number, retry counts | receive | serial line |
| clocks, timer set-up and device tree fields | `src/clk.c`, `include/rtc.h`, `init_dtb` in `src/minit.c` | the header of the previous stage, `clk_callbacks`, the tree and its copy, the timer's divider | `clk_header_init`, `clk_*_get`, `init_dtb`, `scr_rtc_init` | the tree that Linux reads, the timer it counts with |
| advanced interrupt architecture | `src/aplic.c`, `src/imsic.c` | sources, their domains and targets; enabled and pending identities of each hart | set-up by the master and by each hart | messages that may arrive at any moment |
| keyboard | `src/kbd.c` | what was found, `shift_state` | `ps2_init`, `ps2kbd_getchar` | a device that answers in its own time, or not |
| PLIC, caches, detection, memory test | `src/plic.c`, `include/cache.h`, ... | device registers | one-time set-up | devices |

What is hard about it. M-mode runs with interrupts off, so a hart that waits there must poll what
others wait for. A mailbox holds one word, so senders wait for receivers. Messages are reference
counted and outlive the call that sent them. A hart's power goes through four registers and two
harts. Masks and tables are updated by plain loads and stores. A shutdown starts the boot anew
while other harts are still running the supervisor. A trap may fault in its own middle: an
emulated access is made byte by byte through page tables that another hart edits. What the
supervisor sees of a trap is written register by register. Counters are wider than what can be
read at once, and a flash chip goes on working after the command that started it.

What makes each component correct:

- *messages*: the reference count of a message is exact; a message has one owner and is not
  rewritten while it can be read; a mailbox word is not overwritten; no set of calls waits on
  itself; each target of a remote fence runs it once;
- *HSM*: `harts_online` is the set of harts in the supervisor; a hart enters with the arguments of
  the last request for it; a CPU is put into reset only when it sleeps; starts and stops complete;
- *bring-up*: each hart gets a logical number and a stack of its own, within bounds; the tree
  names the harts of this boot and no others; the boot ends, whichever slots are populated and
  however slow the harts are;
- *locks*: mutual exclusion and progress; what several harts print comes out whole;
- *dispatch and timer*: what PROBE_EXT says is what the calls answer, in every build; a timer
  interrupt is never early and comes in the end;
- *traps*: an emulated access does what the hardware would have done, or faults as it would, at
  the byte that faults and with the registers of the right mode;
- *PMUs*: a call that fails has changed nothing, if nobody interferes; an overflow is not lost; a counter of a shared
  cache has one owner and counts that owner's event; a wide counter is read as a value it had;
- *loader*: the flash holds the image it was given, and memory the image of the flash; an
  automatic start happens once; what xmodem stores is a prefix of what is sent, whatever is lost,
  damaged or repeated; neither hangs;
- *platform*: what the tree says of memory, timer and harts is so, in every boot; an interrupt
  controller set up from arbitrary registers lets only IPIs in; keys are read as they are pressed.

## 2. The modules and what they stand for

| module | role |
|---|---|
| `IpiMsg` | mailboxes, message pool, sending and receiving, the three calls that use them |
| `RemoteFence` | abstract: what REMOTE_SFENCE_VMA promises; `IpiMsg` implements it |
| `Hsm` | start, stop and status of harts, with the power registers |
| `SmpBoot` | the boot of the master and of the secondaries, cold or after a shutdown, and the device tree |
| `Mutex` | abstract: what a lock promises |
| `SpinLock` | the test-and-swap lock; implements `Mutex` |
| `Szymanski` | the lock of builds without atomic instructions |
| `Console` | extends `SpinLock`: the colorizer inside the critical section, getchar outside |
| `EmuLdst` | emulation of misaligned accesses, page faults and the software page walk |
| `Trap` | extends `EmuLdst`: the redirection of what it cannot handle |
| `SbiCall` | the two dispatchers over the builds, and the timer |
| `Pmu`, `CachePmu`, `WideRead` | counters of a hart, counters of the shared caches, 64-bit reads |
| `Flash` | update and load of an image over QSPI, with the chip |
| `BootMenu` | extends `Flash`: main loop, automatic start, restarts |
| `Xmodem` | the XMODEM receiver, a sender and a faulty line |
| `DevTree` | the clocks, the fields of the device tree, its copy for the kernel, the timer's divider |
| `Aia` | the set-up of the APLIC and of each hart's IMSIC |
| `Keyboard` | the PS/2 keyboard: finding it, and reading keys |
| `IpiMsgProofs`, `SpinLockProofs`, `ConsoleProofs`, `CounterProofs`, `TrapProofs`, `HsmProofs`, `SmpBootProofs`, `LoaderProofs` | the proofs |
| `MC*` | the instances for TLC; `MC<module>_<x>.cfg` are their configurations |

A module's comment names its atomic steps: one access to something that other harts see. Accesses
of a hart to its own registers and stack are merged into them. A definition called `X_Fault`
(`CountRef_LocalOnly`) is a faulty variant of `X`; no specification uses it. It documents an error
that the named property distinguishes.

`MCTrap` and `MCLoader` put several modules into one run. Their modules share no state (`Console`
and `SpinLock` excepted, which are one), because in the code they share none. A variable `part`
says which module a behaviour is about and only that one moves, so that the state spaces add up
instead of multiplying.

**IpiMsg.** `mbox[s][r]` is the word sender `s` has in the mailbox of `r`, `cnt` is `shared_cnt`
of each message of the pool, `content` its handler and payload (written as the identity of the
request it describes), `cur[h]` and `ran[h]` the handler running on `h`. `pc` follows a hart
through a call:

| actions | code |
|---|---|
| `EcallSendIpi`, `SignalOne`, `SignalDone` | `SEND_IPI` in `src/mentry.S` (PLF_IPI_ASM_HANDLERS, set on all platforms of the tree), which does not poll while it waits |
| `EcallFenceI`, `EcallRfence`, `Fill` | `mtrap.c`: the fence calls |
| `AllocProbe`, `AllocClaim`, `AllocUndo`, `AllocNext` | `ipi_alloc_msg`: plain read, atomic add, undo of a lost claim, next slot with one poll per round |
| `SendLocal`, `SendPoll`, `SendCount`, `SendPost`, `SendDone` | `ipi_send_cmd`: own share, busy test with polling, count, post, drop of the caller's reference |
| `TakeIpi`, `RunHandler`, `FreeHandled` | the software-interrupt handler and `ipi_check_local_cmd` |

The order in which a mailbox with words of several senders hands them out is left to the hardware.
Harts never stop here; that is `Hsm`.

**Hsm.** `state`, `entry` (`hsm_start_arr`), `online` (`harts_online`) and the register bits
`resetN`, `linkup`, `linkSts` are the program's; `copy[h]` is the mask in a register of hart `h`
between its load and its store. `conf` is a rigid variable that selects the build
(PLF_HSM_HOTPLUG) and how the supervisor behaves (section 4). `Starter` is HART_START, `ComeUp`
the path of a secondary from reset to its first instruction in the supervisor, `GoDown` HART_STOP,
`TakeStop` and `StopHandler` the receiving side of the stop message, `LinkFollows` the bus link
obeying the register. Logical harts and CPU numbers differ when the master is not CPU 0; `Cpu`
converts, at the places where the code does, and not at those where it does not.

**SmpBoot.** `init_smp` is `SendReset` .. `FillInactive` and the round `setup`, `init_slaves` the
round `start`, `init_dtb` the step that edits the tree between them. A hart of a slot is in the
supervisor (`"S"`), on its way through reset (`"reset"`), waiting for SETUP (`"parked"`) and so
on. The initial states have every set of populated slots and every mixture of those positions that
the constants allow: a cold boot (`Warm` = FALSE) or a restart. The tree is a status and a number
for each CPU node; on a restart it is what an earlier boot, with other harts present, may have
made of it.

**SpinLock** and **Szymanski** have one step for each access to the lock. In **Console** the
critical section is two steps, the test of `skip_con_colorize` and the automaton with its output,
and `Getchar` comes between them; `due` is a history of the characters that have been put in and
have not come out.

**EmuLdst.** An instruction is a record of what it means (`op`, access length, extension,
register) and of how it is encoded (plain or compressed, where the register number is). The
decoder is modelled by its case distinctions over those records, not over bits. `epc` is the place
of the handler: the fetch of the text through `MPRV`, then one byte per step. Each may miss: with
a hardware walker a page that is not mapped faults inside M-mode, with the software walker
(EXC_TLB_MISS) the handler fills the TLB from the page table and the instruction is repeated from
its start. `Unmap` and `Flush` are another hart's edits of the page table and the TLB at any
moment. Bytes already stored stay stored. `Numbers` are the register numbers the program uses and
`Fills` what registers and memory hold at first. `before` is the history against which the result is
compared.

**Trap.** When the emulation gives up, `Redirected` transcribes the branches `.Lto_s`,
`.Lfill_h_to_s` and `.Lto_vs` as one function from the registers at the trap to those at the
return. `Csrs` are the values they can hold at the trap, of which a build without the hypervisor
extension has fewer. `HwTrap` is the reference, written from the specification that the comments there quote.

**SbiCall.** A call is an extension, a function and, for the SCR extension, a sub-extension.
`Builds` are the settings of the switches which the two dispatchers test. A call's effect on other
harts is left to `IpiMsg` and `Hsm`, its effect on counters to the PMU modules; here it is its
answer. The timer is complete: `mtimecmp`, MTIE and STIP are written, and the interrupt is taken,
as the code does it.

**Pmu** is one hart's counters, and `avail` is `pmu_hw_ctr_avail`, the one word of all harts: each
`sbi_pmu_num_ctr` sets it to 3 and counts up from there, with a load and a store (`NumCtr`,
`LoadAvail`, `StoreAvail`), and `NumCtrElsewhere` is any such store of another hart, at any moment.
The loops over a mask test that word for each counter, so a loop has a step for each counter's test
and one for what is then done to it (`StartTest`, `StartWrite`, `StopTest`, ...); what was done before
a test fails stays done. **CachePmu** has one step per access to the shared table or
the event registers, by several harts. **WideRead** interleaves the counter with the reads of its
words.

**Flash.** `sp` follows the driver through erase, program and read; `wel` and `work` are the chip,
which works on its own after chip select and ignores commands then. Words and bytes are as the
code moves them: the unaligned head, the whole words, the tail. **BootMenu** is `main` with the
commands as what they do to memory, flash and the address they remember.

**Xmodem.** A step of the receiver is a packet or a control byte and the answer to it:
`TakePacket`, `TakeDamaged` (wrong complement or CRC, or too short), `TakeEot`, `TakeCan`, `SendC`
and `FlushInput`. `mem` is memory from `dest` on, written while a packet comes in, before it is
checked. `TakeHeadless` is what the control loop makes of a packet that lost its first byte: the
loop does not know that it reads data. The sender and the line are not code of the repository;
they are written from the protocol the receiver implements. `SeqMod` is 256 in the code, and the
comparison with `seq[0] + 1` is made without wrapping, as in the code. `Start` is where each block
begins in the image, the sum of the sizes before it; the ASSUME `StartAssumption` says so, step by
step, because nothing can be proved about a sum that is defined by recursion.

**DevTree.** `header` is what the previous stage left at the header's address, or nothing valid;
`getters` is the table of functions that `clk_header_init` installs. `SetClocks` .. `SetCaches` are
`init_dtb` from top to bottom, `CopyTree` its end and `RtcInit` is `scr_rtc_init`. A property of 4
bytes is a label with a value, the `reg` of a memory node a sequence of cells, of which the last
stands for what follows the property in the blob: `dtb_size` writes one cell or two, by the
distance of the labels. Texts (MAC addresses, versions) are left out, a tree labels the caches of
all harts or of none, and clocks are at least the timebase and less than 2^32. `sysreg` says whether
the build reads the clock of the bus from a register (PLF_SYSCLK_MHZ_ADDR) or takes a constant for
it, `mtimer` whether it has a timer. The numbers of the
CPU nodes and their status are in `SmpBoot`.

**Aia.** A register with one bit per interrupt is the set of the interrupts whose bit is set, and
the loops over registers of `WordBits` bits are there as such: one step per register in
`DisableIds` (each hart's own, while `MsgArrives` may set a bit between two steps), one step for
the APLIC's, which no one else touches. The registers begin with whatever an earlier boot left.

**Keyboard.** `wire` holds what the device has sent and `fifo` what has arrived. The device answers
a reset as a keyboard, a mouse or a broken device does, or may be missing or unplugged at any
moment. A byte that was sent arrives before the poll for it gives up, since the poll waits ten times
as long as a byte takes; keys are struck only after the initialisation. Both shift keys share one
bit of `shift_state`, so releasing one ends the effect of both, in the code and here. The keys are
those of one byte: those with the prefix E0, which `ps2kbd_getchar` does not know, are not struck.
`ps2kbd_getchar` has no caller in the tree; it is modelled from its own text.

## 3. What each run checks, the bounds, and why they are enough

| run | configuration | shows |
|---|---|---|
| `pool` | 3 harts, 2 messages, 2 remote fences to all per hart; 666,865 states | `RefCountExact`, `OneOwner`, `PayloadStable` |
| `service` | 2 harts, 1 message, all three calls to any set, 2 calls per hart; 213,924 states | refinement of `RemoteFence` (with its fairness), `MailNotOverwritten`, `CallsReturn`, `SignalsArrive` |
| `plug` | 3 harts, 4 starts, with and without hotplug, orderly and not; 168,122 states | `EntersAsAsked` and `ResetOnlyAsleep` for every supervisor; `OrderlyOnlineExact`, `StartReturns`, `OrderlyStartsArrive`, `StopsComplete` for an orderly one |
| `boot_late` | 4 slots, 3 stacks, master in slot 1, restart, harts slower than the timeout; 14,472 states | `OwnNumber`, `TreeIsTrue`, `SendsToFreeMailbox`, `BootCompletes` |
| `traps` | all of section 2's trap, SBI, PMU and console modules; 411,153 states | `Emulated`, `FaultIsExact`, `AccessEnds`, `RedirectAsHardware`; `StipMeansExpired`, `TimerArrives`; `OverflowKept`, `FailsClean`, `CountersAreExact`, `ReadIsAValue`; `ImplementsMutex`, `TextComesOut` |
| `transfer` | the menu with the flash, the xmodem receiver, the device tree, the AIA and the keyboard; 800,415 states | `UpdateIsExact`, `LoadIsExact`, `FlashEnds`, `AutostartOnce`; `ImageIsPrefix`, `DoneIsComplete`, `OutOfSyncOnlyAtWrap`, `LineReceiveEnds`; `KernelIsTold`; `OnlyIpiArrives`; `KeysAsPressed` |
| `parallel_start`, `lost_start`, `other_master`, `restart_race`, `hyp_redirect`, `no_atomics` | small | the disagreements of section 6 |

*pool.* More harts than messages makes allocation fail, lose races and wrap; three harts let two
of them race for a slot that the third still counts. Two calls each let a slot be reused while its
previous message is in flight. Larger values are covered by the proofs.

*service.* With two harts and one message each hart waits for the other in every way the code has:
for a message, for a mailbox word, and for the other's polling. Three harts add only longer chains
of the same waits.

*plug.* Four starts of two secondaries leave at least one hart that is started, stopped and
started again while another comes or goes. The bound `MaxStarts` only ends the behaviour. All of
the tree's SMP platforms build without hotplug (PLF_HSM_HOTPLUG is off); the build with it is
there because the code is.

*boot_late.* Four slots give an empty one below, between and above populated ones, a master that
is not the first, and one slot more than stacks, so that `hart not filled` and `inactive hart
filled` both happen. The tree starts as any earlier boot with any other set of harts can have left
it.

*traps.* The accesses are those of `src/emu_ldst.c`'s tables, at three misaligned addresses of two
pages of eight bytes: inside a page, and across the boundary near its end and near its start.
Every combination of mapped pages and one unmapping at any moment (`MaxUnmaps`) is tried, in four
builds (`MCConfs`): 64 bits with a software page walker, 32 bits with floating point, 32 bits
without it and with a page that no access may touch, and 64 bits with the hypervisor extension,
for which one access is taken and the registers at the trap take every combination of the bits that
the redirection reads, or sets without clearing (`MCCsrs`). Registers x0, 8 and 9 (8 alone for
floating point) have bytes of their own, and each byte of memory differs from its neighbours in the
sign too. A second unmapping only repeats an instruction again; eight bytes are the widest access. The clock
shows three times, so that a new SET_TIMER can come before, with and after the interrupt of the
last one. Two builds of the SBI switches that differ in the caches stand for the real ones, times
the SMP, HSM and assembly switches. The hart's PMU has two of the three
counters that can be configured, and masks that are empty, with the forbidden counter, and of both
counters; the number that other harts leave in `avail` is anything up to the last counter
(`MaxAvail`), so that a limit can fall between two counters of a mask, or rise past those there are.
Two harts and two counters with three configurations and one hart that comes up are enough for two
harts to hold each other's counter; a third hart adds no new order. The words of the wide counter
have three values and the low one wraps three times. Three harts print a pattern of three
characters, of which every prefix can be broken off by each other kind of character.

*transfer.* An image takes two sectors of two pages of two bytes, all but one or two bytes of
them, so that it ends with a whole word or not, in a buffer that is aligned or not; the chip may
be busy at the first poll or only later, or be done before it is seen busy (`PollMax`). Three keys
reach every command after every other with the address it leaves; two restarts show that the
automatic start does not come back. For xmodem six packets make the four numbers wrap, and let a
fault happen before, at and after the wrap. Four faults are more than `MaxRetrans`, so that the
receiver gives up in some behaviours. The image is larger than the memory: a packet that does not
fit is dropped but acknowledged and counted, and `xmodem_receive` then returns more bytes than
`destsz` (`src/xmodem.c:169`, `:201`); `ImageIsPrefix` says what is in memory in that case. Two
weak points of the receiver appear as conditions of the properties: `misread` in `DoneIsComplete`
(a lost first byte lets an EOT inside a packet end the transmission) and the wrap in
`OutOfSyncOnlyAtWrap` (when the ACK of packet 255 is lost, the packet sent again is not
recognised, and the transmission is cancelled as out of sync).

The platforms of the device tree are machines of 64 and 32 bits, with one bank of memory or two,
with and without memory reserved for DMA, with more memory than the kernel maps or less, with and
without a register for the bus clock (and then with a clock of the harts that is the same or not)
or a timer, and trees that label everything or almost nothing; the headers name all harts, one, none, or are absent. A
cell has 16 values, so that an address takes two cells and one does not hold it. One restart shows
what becomes of fields that were set before. The AIA has registers of two bits for four sources and
three identities, so that the last register is full in the one and broken in the other, and two
entries of the delegation table that overlap, are reversed, or are to be ignored. Three keys, two of
them letters besides both shifts, are pressed, repeated and released in every order.

Conditions in other properties that a reader should notice, for each is what the code leaves open:

- `CountersAreExact` holds for a cache shared by all harts only while no two configurations or
  releases overlap and no hart comes up (`alone`). Without that it fails at once: the free counter
  is searched and taken without a lock, and `hart_init` clears the table of all.
- `LoadIsExact` leaves out the bytes after the last whole word, which `xqspi_flash_fast_read`
  reads and does not store (`src/xqspi.c:387`). The sizes that platforms set are whole words.
- `RedirectAsHardware` leaves out three bits, in builds with the hypervisor extension only: of
  vsstatus SPP where the guest's user faults and SPIE where SIE is clear, if they were set before,
  for `.Lto_vs` sets them and never clears them (`src/mentry.S:540`), and hstatus.SPVP of a fault
  that the hypervisor takes, which is in section 6.
- `FailsClean` leaves out the event of counter 0, which nothing reads, and starts and stops during
  which another hart has lowered the number of counters: while it counts them anew
  (`src/pmu.c:236`), a loop that has passed the tests at its head meets a limit below the counter at
  hand (`:341`, `:380`) and fails with the counters before it started or stopped. With that
  condition dropped TLC shows it. What is told of the number itself is in no property: a supervisor
  whose hart counts while another does may be told a wrong one.
- `KernelIsTold` does not say that the clock the tree names for the timer is the one that drives it
  where `SysMistaken`: a build without PLF_SYSCLK_MHZ_ADDR, whose PLF_SYS_FREQ and PLF_CPU_FREQ
  differ and whose timer's clock comes from the former. See the end of section 6.
- `ProbeIsTrue`, which is proved and has no run, leaves out the
  base extension, which answers and is called absent.
- `KeysAsPressed` does not say that a shift key that is down has its effect: with both of them down
  the release of one ends it.
- `Emulated` speaks of loads whose destination is not x0 (`ToZero`). Such a load writes the first
  slot of the saved registers (`src/emu_ldst.c:112`), from which a later misaligned store of x0
  would take its value; with `ToZero` = TRUE TLC shows it.

The systems may stop: a supervisor need not call, and calls are bounded. That is why the
configurations do not check for deadlock; the liveness properties say instead that no hart stays
inside the firmware.

## 4. Fairness and other assumptions

- Every hart executes: weak fairness for the firmware's steps of each hart. Harts are separate
  processors, and the firmware runs with interrupts off or is the handler of the interrupt that is
  due. Nothing is assumed about the supervisor; it need never call. Fairness is per hart, not per
  action: which word a mailbox gives first, or who gets a lock, stays open.
- The bus link of a CPU follows its register (`LinkFollows`): the code polls for it without a
  timeout.
- `Prompt` (IpiMsg): the calls before which a pending IPI has been taken. M-mode software
  interrupts cannot be masked by the supervisor, so a pending one is taken before its next
  instruction, but an interrupt has some delay. The run `service` makes SEND_IPI wait for it and
  lets the two calls written in C come first. The assumption is needed: the assembly SEND_IPI does
  not poll, and two harts which each enter it with the other's signal still unread wait for each
  other for ever. With it the cycle is impossible: if A and B wait in SEND_IPI for each other's
  mailbox, the word A left was written in an earlier call of A, and after B entered its call, for
  B entered with no mail; the same holds with A and B exchanged, and the four times cannot be
  ordered. The calls in C need no such assumption because they poll.
- `orderly` (Hsm): the supervisor starts or stops one hart at a time, and waits until a stopped
  one is in reset before it starts it again. Linux does the former under its hotplug lock and
  approximates the latter by polling HART_STATUS. Where it does not hold, the runs
  `parallel_start` and `lost_start` show what happens. In every setting, a supervisor starts only
  harts it takes to be stopped.
- `Timely` (SmpBoot): every hart reads its RESET within the 100 ms of `ipi_wait_receiver_avail`.
  `boot_late` does not assume it.
- `Settled` (SmpBoot): a hart that was reset waits for SETUP when it is sent. `init_smp` has no
  such wait after it has sent the RESETs; `restart_race` shows what its absence means, and
  `boot_late` checks the rest of the boot with it.
- `TrapFair`: the hart goes on emulating and redirecting, and the supervisor answers a page fault
  by mapping the page (or ends the program). Unmapping is bounded; with pages that are taken away
  for ever `AccessEnds` would not hold, and need not. An entry that an unmapping leaves in the TLB
  is flushed by a remote fence, which the hart takes only outside M-mode.
- `SbiFair`: the clock goes on and an unmasked timer interrupt is taken. `ConFair`: as for the
  lock, a hart that has entered the console goes on. Whether a hart calls stays open.
- `MenuFair`: the driver and the chip go on; a busy chip becomes idle. Nobody need type a key.
- The flash chip has started an erase or a page by the time of the second poll after it: the first
  one goes out before chip select is on and reads anything (`src/xqspi.c:489`, `:587`), and if that
  looks busy the second one is already a poll for the end. RX_EMPTY is not looked at by the driver, and the bus is taken to be no more
  than five bytes late.
- The XMODEM receiver runs, and the sender repeats a packet until it is answered or goes away
  (weak fairness of `Receiver` and `Sender`). It repeats only when nothing is under way and the
  receiver does not flush: a sender's time-out is several times the receiver's 1 s. The number of
  faults is bounded. `ReceiveEnds` does not hold for a sender that goes away silently: the
  receiver has no limit on its rounds.
- The keyboard's bytes arrive while they are polled for (section 2). The device tree, the AIA and
  the keyboard have safety properties only, and no fairness.
- `WideRead`: during one `scr_l2_pmu_read` the low word does not come round twice.
- Memory is sequentially consistent. The code has fences where it hands over messages and entries;
  weaker orders between them are not explored.

## 5. What is proved

The proofs hold for every value of the constants: any number of harts, messages, counters, builds,
any masks and any number of calls. They use nothing but the named ASSUMEs on the constants, which
the runs evaluate.

| module | theorems |
|---|---|
| `IpiMsgProofs` | `TypeCorrect`, `Invariance` (`IInv`), `CountsAreExact`, `SlotsHaveOneOwner`, `PayloadIsStable`, `MailIsNotOverwritten`, `StepsOfRemoteFence` |
| `HsmProofs` | `TypeCorrect`, `RequestsArriveWhole`, `ResetsOnlySleepers`, `OnlineIsExact` |
| `SmpBootProofs` | `TypeCorrect`, `NumbersAreOwn`, `TreesAreTrue`, `MailboxesAreFree` |
| `TrapProofs` | `AccessesAreEmulated`, `FaultsAreExact`, `RedirectsAsHardware`, `TimerIsNotEarly`, `ProbesAreTrue` |
| `CounterProofs` | `MarksAreKept`, `FailedCallsAreClean`, `CountersHaveOneOwner`, `WideReadsAreValues` |
| `LoaderProofs` | `UpdatesAreExact`, `LoadsAreExact`, `AutostartsOnce`, `TransferIsPrefix`, `TransferIsComplete`, `InSyncButAtWrap`, `InterruptsAreClosed`, `KernelsAreTold` |
| `SpinLockProofs` | `TypeCorrect`, `LockWordIsExact`, `StepsOfMutex` |
| `ConsoleProofs` | `ConsoleLockIsExact`, `TextIsKept`, `KeysComeAsPressed` |

Seven of them have a hypothesis, each of which marks a place where the code does not keep the
promise without it:

- `AccessesAreEmulated` and `FaultsAreExact` suppose `~ToZero`, no misaligned load into x0: such a
  load writes the first slot of the saved registers (section 3).
- `OnlineIsExact` supposes `MasterHart = 0`. Otherwise the stop message goes to a hart that is not
  the master (`other_master`, section 6). `OrderlyOnlineExact` itself speaks of orderly supervisors
  only.
- `NumbersAreOwn` and `TreesAreTrue` suppose `MasterSlot < MaxHarts`. Otherwise `init_smp` fills
  one hls more than there are (section 6, at the end).
- `InterruptsAreClosed` supposes `WindowsFit`: the platform's MSI windows are aligned to the bits
  that the numbers of the harts take of an address, and the numbers fit in those bits.
  `aplic_write_msiconfig` clears them in the base without a check, so that messages of another
  window would go to other pages than the platform's. The windows of `transfer` satisfy it.
- `KernelsAreTold` supposes `TreeFits`: the addresses and sizes of a platform fit the cells that its
  tree has for them, memory holds the copy of the tree, no two harts share a slot, clocks fit a
  cell, and the timer's clock, where there is a timer, is not below the timebase. `init_dtb` and `scr_rtc_init` check none
  of it: a number that is too large is cut to its cells, and a slower timer wraps the divider. The
  platforms and headers of `transfer` satisfy it.

Every inductive invariant below was checked by TLC on the instances of section 3 before it was
proved.

*IpiMsgProofs.* `RefCountExact` says that `shared_cnt` is the sum of the sizes of five sets: the
owner, claims that lost the race, sends counted but not posted, mailbox words, handlers that run.
Each action moves one element between the sets, or adds or removes one and changes the count. That
is not inductive alone. `PcCmd` says which positions own a message at all; `FillExclusive` that a
message which is being filled is referred to by nobody, which follows from the count being zero
when the claim was won (an exact count of zero means that all five sets are empty);
`PostTargetFree` that the mailbox found empty by the busy test is still empty at the write,
because a sender's word is written by that sender only. `OneOwner` then follows from the claim
reading zero, and `PayloadStable` from `FillExclusive`.

`StepsOfRemoteFence` is the safety half of `ImplementsRemoteFence`: filling a message is `Ask`,
running its handler is `Run`, and every other step stutters. `Ask` needs a request that is new
(`NewRequest`: the numbers of calls only grow). `Run` needs the request to be one that the hart
still has to run, which is `Delivery`: a message that is on its way to a hart stands for such a
request (`Due`), it is on its way at one place only, ahead of the sender, in the mailbox or in the
hart's hands (`OnePlace`), and two messages under way stand for different requests (`OwnRequest`),
so that running one leaves the others due. A message is filled when nobody refers to it, by
`FillExclusive`.

*HsmProofs.* `EntryInv` follows a line of `hsm_start_arr`: between a hart's call and
`initialized = true` it has one writer, what it holds is as far as the writer has come
(`Filling`), and once ready it is the whole of the last request, until the hart has taken both
words; a hart that is starting is asked for by nobody else. `StopInv` says that the message and the
job of the stop handler are about a hart that has not left since: it is asleep or about to be.
`OrderlyInv` says that at most one hart is on its way up or down, that a mask loaded from
`harts_online` is still that mask at the store, and that a CPU is in reset exactly if its hart is
off.

*SmpBootProofs.* `BootInv` has a part for what each phase leaves to the next: each hls names a slot
of its own (`HlsFilled`), the two loops over the slots have treated those below the loop variable
(`Counted`), the numbers fit (`HasRoom`); a hart has the number of the hls with its slot (`Given`);
a word under way is that of the phase, and only SETUP and START wait for harts with a number
(`Words`); a round over the harts has reached all before the variable (`Rounds`). What the tree
says follows from the edits in one step (`TreeKept`, `TreeExact`).

*TrapProofs.* That the chains of masks in `emu_ldst.c` find the row of each instruction, and the
fields its register, are lemmas over every build. `EmuInv` then says of the handler's place how
many bytes have been moved, that those are the program's, and that everything else is as it was.
`RedirectInv` says what the registers were at the trap while the handler runs; the redirection is
compared with `HwTrap` case by case, whatever the fields hold, but for the bits named in section 3. `TimerInv` adds that the compare
register holds the time last asked for, whatever the other writes. `ProbesAreTrue` compares the
three lists of extensions build by build.

*CounterProofs.* `MarkInv` adds to `OverflowKept` what the table and the event registers can hold, and
that a start which is about to arm a counter has seen an interrupt pending or has a counter that has
not overflowed; a counter is armed anew only if no interrupt was pending. For `FailsClean` the
invariant `CleanInv` says of a loop under way that it has no counter beyond the limit left, unless
the limit has fallen since, and that as long as the forbidden counter 1 is left nothing has been
changed: only counter 0 comes before it. `CacheInv` says, where one hart at a
time changes what is shared: a counter that was found is free until it is taken, one that was taken
is in nobody's hands until it is given, and one that is being released is in nobody's hands already.
Sharing is a relation between harts, so that one argument serves the cache of each hart and the
cache of all. `ReadInv` says between which two values of the counter each word was read.

*LoaderProofs.* `LineInv` relates the two ends of the serial line: only one of them has something
under way (`OneWay`), the sender is at the block accepted last or at the next one (`Pace`,
`InFlight`), the number of a packet is that of its block modulo `SeqMod` (`Numbered`), and what was
accepted lies in memory where it begins in the image (`Totals`, `Below`, `Arrived`). `FlashInv`
follows the driver: which sectors are erased and which words programmed so far (`Erased`,
`Written`), what the chip has latched and whether it works (`ChipReady`), what is in the FIFOs and
which byte the bus has reached (`Fifo`), and what was stored of it (`Stored`). It needs a few facts
on multiples and remainders, which are proved first, for the prover knows `%` of constants only.
`MainInv` relates the automatic start to the commands already run. `AiaInv` follows the loops over
the registers of the interrupt controllers: of a hart's identities those below the loop variable
are disabled (`ImsicDone`), and what `aplic_init` has done by each place (`AplicDone`). The identities
of one register from the loop variable on are an interval, whatever the width (`WordIsInterval`), so
that the loop variable moves past exactly those that were cleared.

For the device tree, `TreeInv` says what each part of `init_dtb` leaves: the clocks (`ClocksTold`),
the cells of each region (`RegionsTold`), the harts (`CpusTold`, `CachesTold`), then that the copy
is the tree and the divider that of the timer's clock. A warm restart starts from a tree that is
filled in, so `KernelIsTold` needs `LeftAlone`, which holds in every state: the labels of a hart
that has no clock in the header, or is not active, are as the tree was built. That the cells of a
region join to the number written into them, and that the value after the region stays, is
`CellsSay`, from facts on quotients; that a header has a first entry for a hart is the
well-ordering of the numbers.

*SpinLockProofs, ConsoleProofs.* `LockInv` is inductive as it stands, and every step is a step of
`Mutex` or changes nothing of it. The console's steps are steps of the lock or leave it alone,
which gives the first theorem. The second needs in addition where the automaton can be: `HeldInv`
says that what is held back is a prefix of the pattern as long as the position says, and that only
the hart with the lock has read the switch. The pattern is any sequence of strings.

The keyboard's bytes, those that have arrived and those still on the wire, are taken as one
sequence `Bytes`, which only grows at its end and shrinks at its beginning. `Identified` says of it
what the device can still answer in each place of `ps2_init`. `KeyboardInv` says that a release is
followed by its key (`WellFormed`), that the letters returned and those that `Bytes` still spells
are the letters pressed (`Spells`), and that with no shift key down the bytes under way turn
`shift_state` off (`Lifted`); before the first key all of this holds because only codes of the
protocol are under way (`Unused`). Each part is a property of a sequence that one lemma carries
over a byte added at the end and one taken from the front.

Every invariant and every action property of the passing runs is proved. Model-checked only: the
liveness properties and the fairness half of the two refinements (`ImplementsRemoteFence`,
`ImplementsMutex`), which TLAPS does not prove, and the properties of section 6, which do not hold.

## 6. Where code and intent disagree

Each is a run that TLC ends with a counterexample; PROJECT.json quotes the line.

| run | what happens |
|---|---|
| `parallel_start` | two harts enter the supervisor together and one is lost from `harts_online` (`src/minit.c:501`); IPIs and remote fences no longer reach it |
| `lost_start` | HART_STATUS answers STOPPED before the hart is in reset (`src/mtrap.c:564`), a HART_START then finds RESET_N still set (`src/mtrap.c:527`), answers success, and the hart never starts |
| `other_master` | the stop message goes to logical hart PLF_MASTER_HART (`src/mtrap.c:500`), which is not the master unless the number is 0 |
| `restart_race` | after a shutdown SETUP is sent to a hart that has not reached `secondary_reset` and that clears its mailbox |
| `hyp_redirect` | the redirection changes hstatus.SPVP when the fault is the hypervisor's own, and leaves it when it is a guest's (`src/mentry.S:587`), the inverse of its comment |
| `no_atomics` | `arch_spin_lock` of `src/spinlock.c` writes ASP_ST0 where the algorithm it cites writes flag 1 (`:119` against `:17`), and two harts enter |

The first needs two HART_START calls that follow each other faster than a hart comes up (they do
not wait for it without hotplug). The second and third need a hotplug build, the fourth a
shutdown, the fifth a core with the hypervisor extension and a fault that M-mode keeps, the sixth
the option PLF_SMP_NO_ATOMIC_SPINLOCK, which no platform of the tree sets.

Known without runs of their own. `clk_sys_get_fallback` returns PLF_CPU_FREQ where PLF_SYS_FREQ is
there (`src/clk.c:72`; `:114` returns PLF_SYS_FREQ under the same condition), so that the clock of
the bus, of the devices and, with an external source or without a cluster clock, of the timer is told
wrong in a build where the two differ; no platform of the tree defines PLF_SYS_FREQ. With the master in a slot beyond `max_harts` (an unusual
PLF_MASTER_HART), `hls_init` is called for one logical hart too many before the count is checked
and the boot ends (`src/minit.c:1359`, `:1385`).

## 7. What is not modelled, and the plan

Left out of the present modules: the contents of a fence (address, size, ASID) beyond the identity
of its request; the non-coherent and ICCM variants of the message pool; `arch_spin_trylock` and
the emulated atomics of `src/spinlock.c`; the check that a HART_START target exists and its error
answers; SEND_IPI in C, which the assembly replaces on every platform of the tree; the values of
counters, banks of the L3 PMU and calls refused for a bad event; quad commands, clocking and
configuration registers of the flash; MAC addresses and the parsing of the device tree; colours of
the log; what the menu prints, and its command `g`, which jumps into a program the user has loaded;
keys with the prefix E0.

Four hazards have no property, each for a reason. A hart that stops with work in its mailbox
(`src/mtrap.c:205`) needs harts that stop and contention for mailboxes in one model, which is more
than TLC finishes with three harts and a pool. A shutdown that is reposted to the master while it
polls is dropped (`src/ipi.c:94`); what is lost is the whole system's shutdown, and no property of
the firmware outlives it. A restart clears the pool while handlers of it run (`src/minit.c:202`):
every invariant of the pool is lost at once, and the restart then resets those harts. A misaligned
load into x0 (`src/emu_ldst.c:112`) breaks `Emulated` at once; the run leaves such loads out, and
the proofs name that as their hypothesis.

Not modelled, and why:

- the PLIC, memory regions, page tables, caches, platform files: registers and tables written
  once, by one hart, without state of their own afterwards; the order that other harts depend on is
  in `SmpBoot`, and the delegation in `EmuLdst`;
- feature and register detection: the primitives that probe a register are not defined in the
  tree;
- the memory test: a separate program that runs alone.

Next: a small composition of `IpiMsg` with harts that stop, two harts and one message, for the first
of the hazards above.

Runs are kept few: a new component joins the run of its kind with its own properties, and
configurations are sets (`Confs`, `Builds`, `CacheKinds`, `Settings`) inside a run where they can
be.
