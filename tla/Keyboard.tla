------------------------------ MODULE Keyboard ------------------------------
(* The PS/2 keyboard of a build that has one (kbd.c): ps2_init resets the    *)
(* device and finds out what it is, ps2kbd_getchar reads scan codes and      *)
(* keeps the state of the shift keys. The device answers in its own time; a  *)
(* byte that it has sent arrives before the poll for it gives up, which      *)
(* waits 10 or 50 times 20 ms for a byte that takes one.                     *)
EXTENDS Integers, Sequences

CONSTANTS
  ShortPolls, LongPolls,   \* of ps2_read_byte_timeout and ps2_read_byte_timeout2
  Letters,                 \* scan codes of keys that have a character
  MaxStrokes               \* bound of the keys pressed and released

Shifts == {"shiftL", "shiftR"}
Keys == Letters \cup Shifts
Ack == "fa"
Passed == "aa"
Release == "f0"

ASSUME KeyboardAssumption ==
  /\ ShortPolls \in Nat /\ LongPolls \in Nat
  /\ Keys \cap {Ack, Passed, Release, "00", "fc"} = {}

VARIABLES
  device,        \* what is plugged in: "none", "keyboard", "mouse" or "broken"
  replies,       \* the bytes it has still to answer, in groups
  wire, fifo,    \* bytes sent, and bytes that the port has
  kpc, tries,    \* where the loader is, and the polls for the byte it waits for
  found,         \* what ps2_init has found
  shift,         \* shift_state
  held, strokes,   \* keys down, and how often one was pressed
  pressed, typed   \* letters pressed and letters returned, in order
keyVars == <<device, replies, wire, fifo, kpc, tries, found, shift, held, strokes, pressed, typed>>
deviceVars == <<device, replies, wire>>
userVars == <<held, strokes, pressed>>

KeyInit ==
  /\ device \in {"none", "keyboard", "mouse", "broken"}
  /\ replies = <<>> /\ wire = <<>> /\ fifo = <<>>
  /\ kpc = "reset" /\ tries = 0 /\ found = "none" /\ shift = FALSE
  /\ held = {} /\ strokes = 0 /\ pressed = <<>> /\ typed = <<>>

-----------------------------------------------------------------------------
(* The device and its user. *)

AnswerTo(command) ==
  CASE device = "none" -> <<>>
    [] command = "reset" /\ device = "keyboard" -> <<<<Ack>>, <<Passed>>>>
    [] command = "reset" /\ device = "mouse" -> <<<<Ack>>, <<Passed, "00">>>>
    [] command = "reset" /\ device = "broken" -> <<<<Ack>>, <<"fc">>>>
    [] OTHER -> <<<<Ack>>>>

Answer ==
  /\ replies # <<>> /\ replies' = Tail(replies) /\ wire' = wire \o Head(replies)
  /\ UNCHANGED <<device, fifo, kpc, tries, found, shift, userVars, typed>>

Arrive ==
  /\ wire # <<>> /\ wire' = Tail(wire) /\ fifo' = Append(fifo, Head(wire))
  /\ UNCHANGED <<device, replies, kpc, tries, found, shift, userVars, typed>>

\* Keys are struck once the loader reads them, or go on being held and repeat.
Strike(k) ==
  /\ device = "keyboard" /\ replies = <<>> /\ kpc \in {"idle", "release"}
  /\ strokes < MaxStrokes
  /\ \/ /\ held' = held \cup {k} /\ wire' = Append(wire, k) /\ strokes' = strokes + 1
        /\ pressed' = IF k \in Letters THEN Append(pressed, k) ELSE pressed
     \/ k \in held /\ held' = held \ {k} /\ wire' = wire \o <<Release, k>> /\ UNCHANGED <<strokes, pressed>>
  /\ UNCHANGED <<device, replies, fifo, kpc, tries, found, shift, typed>>

\* The device is unplugged; what it was sending is lost.
Unplug ==
  /\ device # "none" /\ device' = "none" /\ replies' = <<>> /\ wire' = <<>> /\ held' = {}
  /\ UNCHANGED <<fifo, kpc, tries, found, shift, strokes, pressed, typed>>

-----------------------------------------------------------------------------
(* ps2_init *)

\* ps2_write_byte: the port refuses the byte (PS2_CTRL_CE), or sends it.
Write(command) == replies' = replies \o AnswerTo(command)

Got(at) == kpc = at /\ fifo # <<>> /\ fifo' = Tail(fifo) /\ tries' = 0
PollAgain ==
  /\ kpc \in {"ack", "bat", "second", "rate", "release"} /\ fifo = <<>>
  /\ tries < (IF kpc \in {"second", "release"} THEN ShortPolls ELSE LongPolls)
  /\ tries' = tries + 1
  /\ UNCHANGED <<deviceVars, fifo, kpc, found, shift, userVars, typed>>
Silent(at) ==
  /\ kpc = at /\ fifo = <<>> /\ wire = <<>> /\ tries' = 0 /\ UNCHANGED fifo
  /\ tries = (IF kpc \in {"second", "release"} THEN ShortPolls ELSE LongPolls)
KeepKeys == UNCHANGED <<shift, userVars, typed>>

Reset ==
  /\ kpc = "reset" /\ shift' = FALSE
  /\ \/ Write("reset") /\ kpc' = "ack"
     \/ kpc' = "idle" /\ UNCHANGED replies
  /\ UNCHANGED <<device, wire, fifo, tries, found, userVars, typed>>

\* ps2_wait_ack: other bytes are passed over.
WaitAck ==
  /\ Got("ack") \/ Silent("ack")
  /\ kpc' = IF fifo = <<>> THEN "idle" ELSE IF Head(fifo) = Ack THEN "bat" ELSE "ack"
  /\ UNCHANGED <<deviceVars, found>> /\ KeepKeys

ReadBat ==
  /\ Got("bat") \/ Silent("bat")
  /\ kpc' = IF fifo # <<>> /\ Head(fifo) = Passed THEN "second" ELSE "idle"
  /\ UNCHANGED <<deviceVars, found>> /\ KeepKeys

\* A keyboard sends no second byte, a mouse a zero. The typematic rate is set,
\* or the mouse enabled.
ReadSecond ==
  /\ \/ /\ Silent("second") /\ found' = "keyboard"
        /\ \/ Write("rate") /\ kpc' = "rate"
           \/ kpc' = "idle" /\ UNCHANGED replies
     \/ /\ Got("second") /\ kpc' = "idle"
        /\ IF Head(fifo) = "00" THEN found' = "mouse" /\ (Write("enable") \/ UNCHANGED replies)
           ELSE UNCHANGED <<found, replies>>
  /\ UNCHANGED <<device, wire>> /\ KeepKeys

SetRate ==
  /\ \/ /\ Got("rate")
        /\ IF Head(fifo) = Ack THEN kpc' = "idle" /\ (Write("value") \/ UNCHANGED replies)
           ELSE UNCHANGED <<kpc, replies>>
     \/ Silent("rate") /\ kpc' = "idle" /\ UNCHANGED replies
  /\ UNCHANGED <<device, wire, found>> /\ KeepKeys

-----------------------------------------------------------------------------
(* ps2kbd_getchar *)

\* Both shift keys have the same bit of shift_state: the release of one ends the
\* effect of both.
GetChar ==
  /\ Got("idle")
  /\ kpc' = IF Head(fifo) = Release THEN "release" ELSE "idle"
  /\ shift' = (shift \/ Head(fifo) \in Shifts)
  /\ typed' = IF Head(fifo) \in Letters THEN Append(typed, Head(fifo)) ELSE typed
  /\ UNCHANGED <<deviceVars, found, userVars>>

ReadRelease_NoShift ==
  /\ Got("release") \/ Silent("release")
  /\ kpc' = "idle"
  /\ UNCHANGED <<deviceVars, found, userVars, typed, shift>>
ReadRelease ==
  /\ Got("release") \/ Silent("release")
  /\ kpc' = "idle"
  /\ shift' = (shift /\ ~(fifo # <<>> /\ Head(fifo) \in Shifts))
  /\ UNCHANGED <<deviceVars, found, userVars, typed>>

KeyNext ==
  \/ Answer \/ Arrive \/ (\E k \in Keys : Strike(k)) \/ Unplug
  \/ PollAgain \/ Reset \/ WaitAck \/ ReadBat \/ ReadSecond \/ SetRate
  \/ GetChar \/ ReadRelease
KeySpec == KeyInit /\ [][KeyNext]_keyVars

-----------------------------------------------------------------------------
\* What is found is what was plugged in. When all that was sent has been read,
\* the letters returned are those pressed, in order, no release has become one,
\* and no shift is left on when no shift key is down (ps2_init, ps2kbd_getchar).
\* The reverse fails: with both shift keys down the release of one turns it off.
KeysAsPressed ==
  /\ found # "none" => device \in {found, "none"}
  /\ device = "keyboard" /\ kpc = "idle" /\ wire = <<>> /\ fifo = <<>> =>
       /\ typed = pressed
       /\ shift => held \cap Shifts # {}
=============================================================================
