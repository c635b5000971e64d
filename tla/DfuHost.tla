------------------------------- MODULE DfuHost -------------------------------
(***************************************************************************)
(* The web flasher (docs/flasher.js) and its serial DFU host               *)
(* (docs/dfu.js): the running firmware is rebooted into the bootloader,    *)
(* then START, INIT, the firmware's packets and STOP are written one at a  *)
(* time, each waiting for an acknowledgement that carries no number.       *)
(* The bootloader is external; the firmware itself, when it is the one on  *)
(* the port, echoes every frame, and an echo looks like an                 *)
(* acknowledgement.  readAck() takes what stands between two delimiters    *)
(* for an acknowledgement and starts afresh in every call: after a timeout *)
(* within one (torn) it is a delimiter behind, and sees empty frames, until*)
(* a timeout between two.                                                  *)
(***************************************************************************)
EXTENDS Integers, Sequences

CONSTANTS
    MaxPackets,  \* bound on the DATA packets of a firmware
    MaxMisses,   \* MAX_CONSECUTIVE_ACK_MISSES
    MaxStale     \* bound on the acknowledgements left over from earlier transfers

ASSUME PacketAssumption == MaxPackets \in Nat \ {0}
ASSUME MissAssumption == MaxMisses \in Nat \ {0}
ASSUME StaleAssumption == MaxStale \in Nat

VARIABLES
    stage,   \* what the flasher is doing
    size,    \* DATA packets of the firmware
    sent,    \* of these, written
    misses,  \* ackMissedRun
    acked,   \* ackOk
    frames,  \* written, not yet read by the board
    acks,    \* acknowledgements under way whose opening is not yet read
    torn,    \* readAck() timed out within an acknowledgement: it takes closing
             \* delimiters for opening ones
    board,   \* "app", "boot", or "erased": in the bootloader without an application
    linked,  \* the board is still on the opened port
    silent,  \* history: DATA packets given up or answered since the board last read
    spare,   \* history: acknowledgements under way when it did
    heard,   \* history: DATA packets the bootloader has read
    echoed,  \* history: the firmware has echoed a packet of this transfer
    stale    \* history: acknowledgements under way when the port was opened

rest == <<size, silent, spare, heard, echoed, stale>>
dfuVars == <<stage, size, sent, misses, acked, frames, acks, torn, board, linked,
             silent, spare, heard, echoed, stale>>

Transfer == {"start", "init", "data", "stop"}
Resting == {"idle", "armed"}

DfuInit ==
    /\ stage = "idle" /\ board = "app" /\ linked = FALSE
    /\ size = 0 /\ sent = 0 /\ misses = 0 /\ acked = 0
    /\ frames = <<>> /\ acks = 0 /\ torn = FALSE
    /\ silent = 0 /\ spare = 0 /\ heard = 0 /\ echoed = FALSE /\ stale = 0

\* The port is closed, and the page shows how it went.
Finish ==
    /\ stage' = "idle" /\ linked' = FALSE
    /\ size' = 0 /\ sent' = 0 /\ misses' = 0 /\ acked' = 0
    /\ frames' = <<>> /\ acks' = 0 /\ torn' = FALSE
    /\ silent' = 0 /\ spare' = 0 /\ heard' = 0 /\ echoed' = FALSE /\ stale' = 0
    /\ UNCHANGED board

-----------------------------------------------------------------------------
(***************************************************************************)
(* Into the bootloader.                                                    *)
(***************************************************************************)
Stage(next, boards) ==
    /\ stage' = next /\ board' \in boards
    /\ UNCHANGED <<size, sent, misses, acked, frames, acks, torn, linked,
                   silent, spare, heard, echoed, stale>>
Rebooted == IF board = "app" THEN {"app", "boot"} ELSE {board}

\* "Connect & flash"
Start == stage \in Resting /\ Stage("command", {board})

\* The console's DFU command: acknowledged, or else the touch follows.
RebootByCommand ==
    /\ stage = "command"
    /\ \/ board = "app" /\ Stage("watch", {"boot"})
       \/ Stage("touch", Rebooted)

Touch1200 == stage = "touch" /\ Stage("watch", Rebooted)

\* Whatever is seen of the USB devices, the second button is armed.
WaitForReenumeration == stage = "watch" /\ Stage("armed", {board})

\* Reset by hand, and the bootloader's return to an application that is there.
DoubleTap == stage \in Resting /\ board = "app" /\ Stage(stage, {"boot"})
BootTimesOut ==
    stage \in Resting \cup {"touch", "watch"} /\ board = "boot" /\ Stage(stage, {"app"})

-----------------------------------------------------------------------------
(***************************************************************************)
(* dfuFlash(): one packet after the other.                                 *)
(***************************************************************************)
\* A write to a port that is gone fails, and is a miss as any other.
Write(kind) == frames' = IF linked THEN Append(frames, kind) ELSE frames

\* The port that was picked may be the application's.
Flash ==
    /\ stage \in Resting
    /\ stage' = "start" /\ linked' = TRUE
    /\ size' \in 1 .. MaxPackets
    /\ sent' = 0 /\ misses' = 0 /\ acked' = 0 /\ torn' = FALSE
    /\ frames' = <<"start">>
    /\ acks' \in 0 .. MaxStale
    /\ silent' = 0 /\ spare' = acks' /\ heard' = 0 /\ echoed' = FALSE /\ stale' = acks'
    /\ UNCHANGED board

\* Mutant: STOP follows even if no packet was acknowledged.
GoOnUnheard ==
    IF sent < size
    THEN stage' = "data" /\ sent' = sent + 1 /\ Write("data")
    ELSE stage' = "stop" /\ sent' = sent /\ Write("stop")

\* The next DATA packet, or STOP if one at least was acknowledged.
GoOn ==
    IF sent < size
    THEN stage' = "data" /\ sent' = sent + 1 /\ Write("data")
    ELSE stage' = "stop" /\ sent' = sent /\ Write("stop") /\ acked' > 0

\* An acknowledgement arrives in time, of this packet or of an earlier one.
\* A host that is a delimiter behind finds a body only where the firmware put
\* lines of its own between two echoes, or did so before the port was opened.
Arrives == /\ acks > 0 /\ (torn => echoed \/ stale > 0)
           /\ acks' = acks - 1

StartAcked ==
    /\ stage = "start" /\ Arrives
    /\ stage' = "init" /\ Write("init")
    /\ UNCHANGED <<sent, misses, acked, torn, board, linked, rest>>

InitAcked ==
    /\ stage = "init" /\ Arrives
    /\ GoOn /\ UNCHANGED <<misses, acked, torn, board, linked, rest>>

DataAcked ==
    /\ stage = "data" /\ Arrives
    /\ acked' = acked + 1 /\ misses' = 0 /\ silent' = silent + 1
    /\ GoOn
    /\ UNCHANGED <<size, torn, board, linked, spare, heard, echoed, stale>>

\* A delimiter behind, the host reads an empty frame and tries again: what
\* arrives is skipped, and it is a delimiter behind still.
Skipped ==
    /\ stage \in Transfer /\ torn /\ acks > 0
    /\ acks' = acks - 1
    /\ UNCHANGED <<stage, sent, misses, acked, frames, torn, board, linked, rest>>

\* The timeout may come between two acknowledgements, which puts the next
\* readAck() right, or within one, which puts it a delimiter behind.
TimesOut ==
    \/ ~torn /\ UNCHANGED <<acks, torn>>
    \/ ~torn /\ acks > 0 /\ acks' = acks - 1 /\ torn' = TRUE
    \/ torn /\ UNCHANGED acks /\ torn' \in BOOLEAN

\* Mutant: every miss is tolerated.
DataMissedTolerated ==
    /\ stage = "data" /\ TimesOut
    /\ misses' = 0 /\ silent' = silent + 1
    /\ acked' = acked
    /\ GoOn
    /\ UNCHANGED <<size, board, linked, spare, heard, echoed, stale>>

\* Mutant: one miss too many is tolerated.
DataMissedOneMore ==
    /\ stage = "data" /\ TimesOut
    /\ misses < MaxMisses
    /\ misses' = misses + 1 /\ silent' = silent + 1
    /\ acked' = acked
    /\ GoOn
    /\ UNCHANGED <<size, board, linked, spare, heard, echoed, stale>>

\* A miss is tolerated, but not MAX_CONSECUTIVE_ACK_MISSES of them.
DataMissed ==
    /\ stage = "data" /\ TimesOut
    /\ misses + 1 < MaxMisses
    /\ misses' = misses + 1 /\ silent' = silent + 1
    /\ acked' = acked
    /\ GoOn
    /\ UNCHANGED <<size, board, linked, spare, heard, echoed, stale>>

\* "flash failed": START or INIT was not acknowledged, one packet too many
\* was not, or none at all was.
Fails ==
    /\ \/ stage \in {"start", "init"}
       \/ stage = "data" /\ misses + 1 = MaxMisses
       \/ stage = "data" /\ sent = size /\ acked = 0
    /\ Finish

\* "flashed": STOP need not be acknowledged.
Flashed == stage = "stop" /\ Finish

Host == \/ Start \/ RebootByCommand \/ Touch1200 \/ WaitForReenumeration \/ Flash
        \/ StartAcked \/ InitAcked \/ DataAcked \/ Skipped \/ DataMissed
        \/ Fails \/ Flashed

-----------------------------------------------------------------------------
(***************************************************************************)
(* The board.                                                              *)
(***************************************************************************)
TakesFrame == frames # <<>> /\ frames' = Tail(frames)
Answers == acks' = acks + 1 /\ silent' = 0 /\ spare' = acks'

\* START erases the application; at STOP the new one runs if all of it arrived.
BootloaderReads ==
    /\ board # "app" /\ TakesFrame /\ Answers
    /\ board' = CASE Head(frames) = "start" -> "erased"
                  [] Head(frames) = "stop" /\ heard = size -> "app"
                  [] OTHER -> board
    /\ linked' = (linked /\ (board' # "app"))
    /\ heard' = heard + (IF Head(frames) = "data" THEN 1 ELSE 0)
    /\ UNCHANGED <<stage, size, sent, misses, acked, torn, echoed, stale>>

\* SerialConsole's local echo.
AppEchoes ==
    /\ board = "app" /\ TakesFrame /\ Answers
    /\ echoed' = TRUE
    /\ UNCHANGED <<stage, size, sent, misses, acked, torn, board, linked, heard, stale>>

\* A frame that is overrun or damaged is not answered.
Loses ==
    /\ TakesFrame
    /\ UNCHANGED <<stage, sent, misses, acked, acks, torn, board, linked, rest>>

\* The board resets, and is gone from the opened port.
Vanishes ==
    /\ stage \in Transfer /\ linked
    /\ linked' = FALSE /\ frames' = <<>>
    /\ board' = IF board = "boot" THEN "app" ELSE board
    /\ UNCHANGED <<stage, sent, misses, acked, acks, torn, rest>>

Board == \/ DoubleTap \/ BootTimesOut
         \/ BootloaderReads \/ AppEchoes \/ Loses \/ Vanishes

-----------------------------------------------------------------------------
DfuNext == Host \/ Board

DfuSpec == DfuInit /\ [][DfuNext]_dfuVars

-----------------------------------------------------------------------------
DfuTypeOK ==
    /\ stage \in {"command", "touch", "watch"} \cup Resting \cup Transfer
    /\ size \in 0 .. MaxPackets /\ sent \in 0 .. size
    /\ misses \in 0 .. MaxMisses - 1 /\ acked \in Nat
    /\ frames \in Seq(Transfer) /\ acks \in Nat
    /\ {torn, linked, echoed} \subseteq BOOLEAN
    /\ board \in {"app", "boot", "erased"}
    /\ {silent, spare, heard, stale} \subseteq Nat

\* A transfer gets to STOP, and so to "flashed", only if the board at the port
\* read one of the last packets: fewer than MAX_CONSECUTIVE_ACK_MISSES of them
\* have gone unread, and as many again for each acknowledgement that was still
\* under way, in whatever order acknowledgements, timeouts between and within
\* them and losses came (dfu.js:340-397).
SilenceNoticed == stage = "stop" => silent < MaxMisses * (spare + 1)

\* It does so only if the bootloader read a DATA packet (dfu.js:396-405), unless
\* acknowledgements of an earlier transfer were taken for its own, or the
\* firmware was at the port: what it echoes is taken for acknowledgements, and a
\* flash of the wrong port ends in "flashed".
HeardSomething == stage = "stop" /\ stale = 0 /\ ~echoed => heard > 0
=============================================================================
