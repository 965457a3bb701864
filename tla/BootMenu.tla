------------------------------ MODULE BootMenu ------------------------------
(***************************************************************************)
(* main of the first stage loader (src/fsbl.c): autostart from flash, the  *)
(* command loop on the console, and the commands on memory and flash; and  *)
(* a supervisor that shuts down, which restarts main without loading the   *)
(* firmware again (src/mentry.S, _crt_start).                              *)
(***************************************************************************)
EXTENDS Flash

CONSTANTS
  Autostart,    \* PLF_AUTOSTART_NVRAM: set or not
  DumpLen,      \* 128, the data of 'd' and 'D'
  LongLen,      \* sizeof(long), the data of 'm'
  LoadAddrs,    \* addresses typed by the user; 0 is PLF_MEM_BASE
  MaxRestarts,  \* bound: shutdowns of the supervisor
  MaxKeys       \* bound: keys the user types

ASSUME MenuAssumption ==
  /\ Autostart \in BOOLEAN
  /\ DumpLen \in Nat \ {0} /\ LongLen \in Nat \ {0}
  /\ LoadAddrs \subseteq Nat /\ MaxRestarts \in Nat /\ MaxKeys \in Nat

VARIABLES
  mpc,         \* place in main
  autoEnable,  \* autostart_enable, initialized data
  prevCmd, prevAddr,  \* prev_cmd (its key or "none"), prev_addr
  skipped,     \* history: SPACE was pressed at an autostart
  autoBoots,   \* history: supervisors started by autostart
  restarts, keys

menuVars == <<mpc, autoEnable, prevCmd, prevAddr, skipped, autoBoots, restarts, keys>>

\* scbl_commands: key, with an address or not, and the step of auto-increment.
Cmd(key, addr, step) == [key |-> key, addr |-> addr, step |-> step]
Commands == {Cmd("0", FALSE, 0), Cmd("1", TRUE, 0), Cmd("v", FALSE, 0), Cmd("u", FALSE, 0),
             Cmd("d", TRUE, DumpLen), Cmd("m", TRUE, LongLen), Cmd("t", TRUE, 0),
             Cmd(" ", FALSE, 0)}
NoCmd == Cmd("none", FALSE, 0)

MenuInit ==
  /\ FlashInit
  /\ mpc = "reset" /\ autoEnable = TRUE
  /\ prevCmd = NoCmd /\ prevAddr = 0
  /\ skipped = FALSE /\ autoBoots = 0 /\ restarts = 0 /\ keys = 0

\* An autostart that is disabled only when it has run.
MainStart_DisablesLate ==
  /\ mpc = "reset"
  /\ prevCmd' = NoCmd /\ prevAddr' = 0
  /\ IF Autostart /\ autoEnable THEN autoEnable' = autoEnable /\ mpc' = "countdown"
     ELSE mpc' = "menu" /\ UNCHANGED autoEnable
  /\ UNCHANGED <<flashVars, skipped, autoBoots, restarts, keys>>

\* main up to do_autostart, and the first part of it.
MainStart ==
  /\ mpc = "reset"
  /\ prevCmd' = NoCmd /\ prevAddr' = 0
  /\ IF Autostart /\ autoEnable THEN autoEnable' = FALSE /\ mpc' = "countdown"
     ELSE mpc' = "menu" /\ UNCHANGED autoEnable
  /\ UNCHANGED <<flashVars, skipped, autoBoots, restarts, keys>>

\* SPACE within PLF_AUTOSTART_DELAY seconds, or not.
Skip ==
  /\ mpc = "countdown"
  /\ mpc' = "menu" /\ skipped' = TRUE
  /\ UNCHANGED <<flashVars, autoEnable, prevCmd, prevAddr, autoBoots, restarts, keys>>
TimeOut ==
  /\ mpc = "countdown"
  /\ StartLoad /\ mpc' = "autoload"
  /\ UNCHANGED <<autoEnable, prevCmd, prevAddr, skipped, autoBoots, restarts, keys>>

\* flash_load or flash_update returns; autostart goes on to cmd_start_linux.
FlashReturns ==
  /\ sp \in {"loaded", "updated"}
  /\ sp' = "idle"
  /\ IF mpc = "autoload" THEN mpc' = "supervisor" /\ autoBoots' = autoBoots + 1
     ELSE mpc' = "menu" /\ UNCHANGED autoBoots
  /\ UNCHANGED <<size, skew, ram, chipVars, cur, ptr, end, left, i, word, rx, tx, sent, kept,
                 autoEnable, prevCmd, prevAddr, skipped, restarts, keys>>

Overwrite(at, val) == ram' = [a \in DOMAIN ram |-> IF a \in at THEN <<val, a>> ELSE ram[a]]
OnlyMem == UNCHANGED <<size, skew, chipVars, sp, cur, ptr, end, left, i, word, rx, tx, sent, kept>>

\* kernel_start: the loader does not come back.
StartLinux == mpc' = "supervisor" /\ UNCHANGED flashVars

\* flash_update: SPACE within nine seconds cancels it.
FlashUpdate == \/ StartUpdate /\ mpc' = "flash"
               \/ UNCHANGED <<flashVars, mpc>>

(* cmd->func(prev_addr).  An xmodem transfer leaves what it received, all  *)
(* or the packets before an error; a memory test its last pattern.         *)
Run(c, at) ==
  CASE c.key = "0" -> StartLinux
    [] c.key = "1" -> /\ \E n \in 0 .. size : Overwrite({a \in DOMAIN ram : a - at \in 0 .. (n - 1)}, "sent")
                      /\ OnlyMem /\ UNCHANGED mpc
    [] c.key = "v" -> StartLoad /\ mpc' = "flash"
    [] c.key = "u" -> FlashUpdate
    [] c.key = "m" -> Overwrite(at .. (at + LongLen - 1), "typed") /\ OnlyMem /\ UNCHANGED mpc
    [] c.key = "t" -> /\ \E n \in {0, size} : Overwrite(at .. (at + n - 1), "inverted")
                      /\ OnlyMem /\ UNCHANGED mpc
    [] c.key \in {"d", " "} -> UNCHANGED <<flashVars, mpc>>

Key == mpc = "menu" /\ keys < MaxKeys /\ keys' = keys + 1

Command(c) ==
  /\ Key
  /\ \E at \in IF c.addr THEN LoadAddrs ELSE {0} :
       Run(c, at) /\ prevAddr' = at
  /\ prevCmd' = c
  /\ UNCHANGED <<autoEnable, skipped, autoBoots, restarts>>

Enter ==
  /\ Key
  /\ IF prevCmd.step > 0
     THEN prevAddr' = prevAddr + prevCmd.step /\ Run(prevCmd, prevAddr')
     ELSE UNCHANGED <<prevAddr, flashVars, mpc>>
  /\ UNCHANGED <<autoEnable, prevCmd, skipped, autoBoots, restarts>>

UnknownKey == Key /\ UNCHANGED <<flashVars, mpc, autoEnable, prevCmd, prevAddr, skipped,
                                 autoBoots, restarts>>

\* SBI shutdown: main again, with the data as it was left.
Shutdown ==
  /\ mpc = "supervisor" /\ restarts < MaxRestarts
  /\ mpc' = "reset" /\ restarts' = restarts + 1
  /\ UNCHANGED <<flashVars, autoEnable, prevCmd, prevAddr, skipped, autoBoots, keys>>

Menu == MainStart \/ Skip \/ TimeOut \/ FlashReturns
        \/ (\E c \in Commands : Command(c)) \/ Enter \/ UnknownKey \/ Shutdown
MenuNext == Menu \/ ((Driver \/ Chip) /\ UNCHANGED menuVars)
MenuFair == /\ WF_<<flashVars, menuVars>>(Driver /\ UNCHANGED menuVars)
            /\ WF_<<flashVars, menuVars>>(Chip /\ UNCHANGED menuVars)
            /\ WF_<<flashVars, menuVars>>(FlashReturns)
MenuSpec == MenuInit /\ [][MenuNext]_<<flashVars, menuVars>> /\ MenuFair

(* Autostart starts a supervisor at most once after power on and never     *)
(* once SPACE was pressed, however often the supervisor shuts down         *)
(* (src/fsbl.c:800-806); and what it starts is the image in the flash.     *)
AutostartOnce ==
  /\ autoBoots <= 1 /\ (skipped => autoBoots = 0)
  /\ mpc = "supervisor" /\ autoBoots = 1 /\ restarts = 0 /\ keys = 0 => Loaded

(* An update or a load that was begun comes back to the menu, or to the    *)
(* start of the supervisor.                                                *)
FlashEnds == (mpc \in {"flash", "autoload"}) ~> (mpc \in {"menu", "supervisor"})
=============================================================================
