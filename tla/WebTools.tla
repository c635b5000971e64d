------------------------------ MODULE WebTools ------------------------------
(***************************************************************************)
(* The configuration page and the flasher at one board, whose serial port  *)
(* only one of them can hold.  A reboot into the bootloader takes the      *)
(* staged configuration with it, and frames meant for the bootloader that  *)
(* reached the firmware stay in its line buffer, in front of the next      *)
(* command.  The operator turns from one page to the other when nothing is *)
(* on its way.                                                             *)
(***************************************************************************)
EXTENDS ConsoleClient, DfuHost

VARIABLE buffered  \* s_line holds what the flasher sent

webVars == <<consoleVars, dfuVars, buffered>>

WebInit == ConsoleInit /\ DfuInit /\ buffered = FALSE

\* The first command ends the line that the flasher's bytes began.
Misreads ==
    /\ buffered /\ commands # <<>> /\ ~rebooting
    /\ Prints(<<>>, "err")
    /\ buffered' = FALSE
    /\ UNCHANGED <<Here, device>>

\* The page works while the flasher is idle and the firmware runs.
PageStep ==
    /\ stage = "idle" /\ board = "app"
    /\ \/ Page /\ UNCHANGED buffered
       \/ ~buffered /\ Run /\ UNCHANGED buffered
       \/ Misreads
       \/ \E line \in Noise : Chatter(line) /\ UNCHANGED buffered
       \/ Restarts /\ buffered' = FALSE
    /\ UNCHANGED dfuVars

\* The firmware is reset whenever the board changes over, or is unplugged.
FlasherStep ==
    /\ flow = "closed" /\ commands = <<>> /\ output = <<>> /\ ~rebooting
    /\ DfuNext
    /\ IF board' # board \/ Vanishes
       THEN staged' = saved /\ buffered' = FALSE
       ELSE /\ UNCHANGED staged
            /\ \/ AppEchoes /\ buffered' \in BOOLEAN
               \/ RebootByCommand /\ buffered' = FALSE
               \/ ~AppEchoes /\ ~RebootByCommand /\ UNCHANGED buffered
    /\ UNCHANGED <<page, queue, commands, output, saved, rebooting>>

WebNext == PageStep \/ FlasherStep

WebSpec == WebInit /\ [][WebNext]_webVars
=============================================================================
