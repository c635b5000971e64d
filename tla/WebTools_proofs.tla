--------------------------- MODULE WebTools_proofs ---------------------------
(***************************************************************************)
(* The flasher's transfer, for any number of packets, misses and stale     *)
(* acknowledgements; then the configuration page and the flasher at one    *)
(* board.  The flasher's steps are DfuHost's, so what is proved of it      *)
(* alone holds for the two; the page's invariant survives what the flasher *)
(* does to the device.                                                     *)
(***************************************************************************)
EXTENDS WebTools, ConsoleClient_proofs

-----------------------------------------------------------------------------
(***************************************************************************)
(* The flasher.  A board that stops reading leaves behind it               *)
(* acknowledgements under way, and each of them pays for at most           *)
(* MAX_CONSECUTIVE_ACK_MISSES packets.                                     *)
(***************************************************************************)
\* What is unread since the board last read, against the acknowledgements used
\* up since.
Paid == /\ acks <= spare
        /\ silent <= MaxMisses * (spare - acks) + misses

\* Until the bootloader has read a DATA packet, with nothing left over from
\* earlier and nothing echoed, there is one acknowledgement for START, one for INIT, and none more.
Unheard ==
    stale = 0 /\ heard = 0 /\ ~echoed =>
        /\ stage # "stop"
        /\ stage \in Transfer => acked = 0
        /\ stage \in {"start", "init"} => acks + Len(frames) <= 1
        /\ stage = "data" => acks = 0 /\ \A i \in 1 .. Len(frames) : frames[i] = "data"

DfuInv == DfuTypeOK /\ Paid /\ Unheard

\* One acknowledgement more pays for MaxMisses packets more.
LEMMA OneMore ==
    ASSUME NEW k \in Nat PROVE MaxMisses * (k + 1) = MaxMisses * k + MaxMisses
BY MissAssumption

LEMMA NoLess ==
    ASSUME NEW k \in Nat, NEW n \in Nat, k <= n PROVE MaxMisses * k <= MaxMisses * n
BY MissAssumption

LEMMA DfuTypes ==
    ASSUME DfuTypeOK
    PROVE /\ MaxMisses \in Nat \ {0} /\ MaxPackets \in Nat \ {0} /\ MaxStale \in Nat
          /\ {size, sent, misses, acked, acks, silent, spare, heard, stale} \subseteq Nat
BY PacketAssumption, MissAssumption, StaleAssumption DEF DfuTypeOK

LEMMA Same == ASSUME NEW a \in Nat, NEW b, b = a PROVE b \in Nat /\ b - a = 0 /\ a <= b
OBVIOUS

LEMMA Begins == ASSUME DfuInit PROVE DfuInv
<1>1. stage \in {"command", "touch", "watch"} \cup Resting \cup Transfer
  BY DEF DfuInit, Resting
<1>2. board \in {"app", "boot", "erased"} /\ {torn, linked, echoed} \subseteq BOOLEAN
  BY DEF DfuInit
<1>3. size \in 0 .. MaxPackets /\ sent \in 0 .. size /\ misses \in 0 .. MaxMisses - 1
  BY PacketAssumption, MissAssumption DEF DfuInit
<1>4. acked \in Nat /\ acks \in Nat
  BY DEF DfuInit
<1>5. {silent, spare, heard, stale} \subseteq Nat
  BY DEF DfuInit
<1>6. frames \in Seq(Transfer)
  BY DEF DfuInit
<1>7. DfuTypeOK
  BY <1>1, <1>2, <1>3, <1>4, <1>5, <1>6 DEF DfuTypeOK
<1>8. Paid
  BY MissAssumption DEF DfuInit, Paid
<1>9. Unheard
  BY DEF DfuInit, Unheard, Transfer
<1> QED BY <1>7, <1>8, <1>9 DEF DfuInv

\* Steps outside a transfer.
LEMMA StageKeeps ==
    ASSUME DfuInv, NEW next \in {"command", "touch", "watch"} \cup Resting,
           NEW boards \in SUBSET {"app", "boot", "erased"},
           Stage(next, boards)
    PROVE DfuInv'
BY DEF Stage, DfuInv, DfuTypeOK, Paid, Unheard, Resting, Transfer

LEMMA FinishKeeps == ASSUME DfuInv, Finish PROVE DfuInv'
<1>1. stage' \in {"command", "touch", "watch"} \cup Resting \cup Transfer
  BY DEF Finish, Resting
<1>2. board' \in {"app", "boot", "erased"} /\ {torn', linked', echoed'} \subseteq BOOLEAN
  BY DEF Finish, DfuInv, DfuTypeOK
<1>3. size' \in 0 .. MaxPackets /\ sent' \in 0 .. size' /\ misses' \in 0 .. MaxMisses - 1
  BY PacketAssumption, MissAssumption DEF Finish
<1>4. acked' \in Nat /\ acks' \in Nat
  BY DEF Finish
<1>5. {silent', spare', heard', stale'} \subseteq Nat
  BY DEF Finish
<1>6. frames' \in Seq(Transfer)
  BY DEF Finish
<1>7. DfuTypeOK'
  BY <1>1, <1>2, <1>3, <1>4, <1>5, <1>6 DEF DfuTypeOK
<1>8. Paid'
  BY MissAssumption DEF Finish, Paid
<1>9. Unheard'
  BY DEF Finish, Unheard, Transfer
<1> QED BY <1>7, <1>8, <1>9 DEF DfuInv

LEMMA FlashKeeps == ASSUME DfuInv, Flash PROVE DfuInv'
<1>1. acks' \in Nat
  BY StaleAssumption DEF Flash
<1>2. frames' = <<"start">> /\ Len(frames') = 1 /\ frames' \in Seq(Transfer)
  BY DEF Flash, Transfer
<1>3. DfuTypeOK'
  <2>1. stage' \in {"command", "touch", "watch"} \cup Resting \cup Transfer
    BY DEF Flash, Transfer
  <2>2. board' \in {"app", "boot", "erased"} /\ {torn', linked', echoed'} \subseteq BOOLEAN
    BY DEF Flash, DfuInv, DfuTypeOK
  <2>3. size' \in 0 .. MaxPackets /\ sent' \in 0 .. size' /\ misses' \in 0 .. MaxMisses - 1
    BY PacketAssumption, MissAssumption DEF Flash
  <2>4. acked' \in Nat
    BY DEF Flash
  <2>5. {silent', spare', heard', stale'} \subseteq Nat
    BY <1>1 DEF Flash
  <2> QED BY <1>1, <1>2, <2>1, <2>2, <2>3, <2>4, <2>5 DEF DfuTypeOK
<1>4. Paid'
  <2>1. silent' = 0 /\ misses' = 0 /\ spare' = acks'
    BY DEF Flash
  <2>2. spare' - acks' = 0 /\ acks' <= spare'
    BY <1>1, <2>1, Same
  <2> QED BY <2>1, <2>2, MissAssumption DEF Paid
<1>5. Unheard'
  BY <1>1, <1>2 DEF Flash, Unheard, Transfer
<1> QED BY <1>3, <1>4, <1>5 DEF DfuInv

-----------------------------------------------------------------------------
(***************************************************************************)
(* Packets and acknowledgements.                                           *)
(***************************************************************************)
\* A packet appended, or lost with the port.
LEMMA WriteSeq ==
    ASSUME DfuTypeOK, NEW kind \in Transfer, Write(kind)
    PROVE /\ frames' \in Seq(Transfer)
          /\ Len(frames') <= Len(frames) + 1
          /\ \A i \in 1 .. Len(frames') :
                frames'[i] = kind \/ (i \in 1 .. Len(frames) /\ frames'[i] = frames[i])
<1>1. CASE linked
  BY <1>1 DEF Write, DfuTypeOK
<1>2. CASE ~linked
  BY <1>2 DEF Write, DfuTypeOK
<1> QED BY <1>1, <1>2

LEMMA GoOnTypes ==
    ASSUME DfuTypeOK, GoOn
    PROVE /\ stage' \in {"data", "stop"} /\ sent' \in 0 .. size
          /\ frames' \in Seq(Transfer)
          /\ stage' = "stop" => acked' > 0
          /\ stage' = "data" => Write("data")
<1>1. CASE sent < size
  BY <1>1, WriteSeq, DfuTypes DEF GoOn, DfuTypeOK, Transfer
<1>2. CASE ~(sent < size)
  BY <1>2, WriteSeq, DfuTypes DEF GoOn, DfuTypeOK, Transfer
<1> QED BY <1>1, <1>2

\* Fewer acknowledgements under way pay for no less.
LEMMA PaidKept ==
    ASSUME DfuTypeOK, Paid, acks' \in Nat, acks' <= acks, UNCHANGED spare,
           silent' \in Nat, misses' \in Nat,
           silent' - silent <= misses' - misses
    PROVE Paid'
<1>1. MaxMisses * (spare - acks) <= MaxMisses * (spare' - acks')
  BY NoLess, DfuTypes DEF Paid
<1>2. {MaxMisses * (spare - acks), MaxMisses * (spare' - acks')} \subseteq Int
  BY DfuTypes
<1> QED BY <1>1, <1>2, DfuTypes DEF Paid

\* An acknowledgement used up makes up for the misses there were.
LEMMA PaidByOne ==
    ASSUME DfuTypeOK, Paid, acks > 0, acks' = acks - 1, UNCHANGED spare,
           silent' = silent + 1, misses' = 0
    PROVE Paid'
<1>1. MaxMisses * (spare' - acks') = MaxMisses * (spare - acks) + MaxMisses
  <2>1. spare - acks \in Nat /\ spare' - acks' = (spare - acks) + 1
    BY DfuTypes DEF Paid
  <2> QED BY <2>1, OneMore
<1>2. MaxMisses * (spare - acks) \in Int /\ misses < MaxMisses
  BY DfuTypes DEF DfuTypeOK
<1> QED BY <1>1, <1>2, DfuTypes DEF Paid

LEMMA StartAckedKeeps == ASSUME DfuInv, StartAcked PROVE DfuInv'
<1> USE DEF DfuInv
<1>1. stage = "start" /\ stage' = "init" /\ acks > 0 /\ acks' = acks - 1 /\ Write("init")
  BY DEF StartAcked, Arrives
<1>2. /\ UNCHANGED <<sent, misses, acked, torn, board, linked>>
      /\ UNCHANGED <<size, silent, spare, heard, echoed, stale>>
  BY DEF StartAcked, rest
<1>3. DfuTypeOK'
  BY <1>1, <1>2, WriteSeq, DfuTypes DEF DfuTypeOK, Transfer
<1>4. Paid'
  BY <1>1, <1>2, PaidKept, DfuTypes
<1>5. Unheard'
  BY <1>1, <1>2, WriteSeq, DfuTypes DEF Unheard, Transfer, DfuTypeOK
<1> QED BY <1>3, <1>4, <1>5

LEMMA InitAckedKeeps == ASSUME DfuInv, InitAcked PROVE DfuInv'
<1> USE DEF DfuInv
<1>1. stage = "init" /\ acks > 0 /\ acks' = acks - 1 /\ GoOn
  BY DEF InitAcked, Arrives
<1>2. /\ UNCHANGED <<misses, acked, torn, board, linked>>
      /\ UNCHANGED <<size, silent, spare, heard, echoed, stale>>
  BY DEF InitAcked, rest
<1>3. DfuTypeOK'
  BY <1>1, <1>2, GoOnTypes, DfuTypes DEF DfuTypeOK, Transfer
<1>4. Paid'
  BY <1>1, <1>2, PaidKept, DfuTypes
<1>5. Unheard'
  <2> SUFFICES ASSUME stale' = 0, heard' = 0, ~echoed'
      PROVE /\ stage' # "stop" /\ acked' = 0
            /\ stage' \notin {"start", "init"}
            /\ stage' = "data" => acks' = 0
                 /\ \A i \in 1 .. Len(frames') : frames'[i] = "data"
    BY DEF Unheard
  <2>1. acked' = 0 /\ acks + Len(frames) <= 1
    BY <1>1, <1>2 DEF Unheard, Transfer
  <2>2. Len(frames) = 0 /\ acks' = 0
    BY <1>1, <2>1, DfuTypes DEF DfuTypeOK
  <2>3. stage' = "data" /\ Write("data")
    BY <1>1, <2>1, GoOnTypes
  <2>4. \A i \in 1 .. Len(frames') : frames'[i] = "data"
    BY <2>2, <2>3, WriteSeq DEF Transfer
  <2> QED BY <2>1, <2>2, <2>3, <2>4
<1> QED BY <1>3, <1>4, <1>5

LEMMA DataAckedKeeps == ASSUME DfuInv, DataAcked PROVE DfuInv'
<1> USE DEF DfuInv
<1>1. /\ stage = "data" /\ acks > 0 /\ acks' = acks - 1 /\ GoOn
      /\ acked' = acked + 1 /\ misses' = 0 /\ silent' = silent + 1
      /\ UNCHANGED <<size, torn, board, linked, spare, heard, echoed, stale>>
  BY DEF DataAcked, Arrives
<1>2. DfuTypeOK'
  BY <1>1, GoOnTypes, DfuTypes DEF DfuTypeOK, Transfer
<1>3. Paid'
  BY <1>1, PaidByOne
<1>4. Unheard'
  BY <1>1 DEF Unheard
<1> QED BY <1>2, <1>3, <1>4

LEMMA SkippedKeeps == ASSUME DfuInv, Skipped PROVE DfuInv'
<1> USE DEF DfuInv
<1>1. /\ acks > 0 /\ acks' = acks - 1
      /\ UNCHANGED <<stage, sent, misses, acked, frames, torn, board, linked>>
      /\ UNCHANGED <<size, silent, spare, heard, echoed, stale>>
  BY DEF Skipped, rest
<1>2. DfuTypeOK'
  BY <1>1, DfuTypes DEF DfuTypeOK
<1>3. Paid'
  BY <1>1, PaidKept, DfuTypes
<1>4. Unheard'
  BY <1>1, DfuTypes DEF Unheard, DfuTypeOK
<1> QED BY <1>2, <1>3, <1>4

LEMMA DataMissedKeeps == ASSUME DfuInv, DataMissed PROVE DfuInv'
<1> USE DEF DfuInv
<1>1. /\ stage = "data" /\ misses + 1 < MaxMisses /\ GoOn
      /\ misses' = misses + 1 /\ silent' = silent + 1 /\ acked' = acked
      /\ UNCHANGED <<size, board, linked, spare, heard, echoed, stale>>
  BY DEF DataMissed
<1>2. acks' \in Nat /\ acks' <= acks /\ torn' \in BOOLEAN
  <2>1. acks \in Nat /\ torn \in BOOLEAN
    BY DEF DfuTypeOK
  <2>2. CASE ~torn /\ UNCHANGED <<acks, torn>>
    BY <2>1, <2>2
  <2>3. CASE ~torn /\ acks > 0 /\ acks' = acks - 1 /\ torn' = TRUE
    BY <2>1, <2>3
  <2>4. CASE torn /\ UNCHANGED acks /\ torn' \in BOOLEAN
    BY <2>1, <2>4
  <2> QED BY <2>2, <2>3, <2>4 DEF DataMissed, TimesOut
<1>3. DfuTypeOK'
  BY <1>1, <1>2, GoOnTypes, DfuTypes DEF DfuTypeOK, Transfer
<1>4. Paid'
  BY <1>1, <1>2, PaidKept, DfuTypes
<1>5. Unheard'
  <2> SUFFICES ASSUME stale' = 0, heard' = 0, ~echoed'
      PROVE /\ stage' # "stop" /\ acked' = 0
            /\ stage' \notin {"start", "init"}
            /\ stage' = "data" => acks' = 0
                 /\ \A i \in 1 .. Len(frames') : frames'[i] = "data"
    BY DEF Unheard
  <2>1. acked = 0 /\ acks = 0 /\ \A i \in 1 .. Len(frames) : frames[i] = "data"
    BY <1>1 DEF Unheard, Transfer
  <2>2. acked' = 0 /\ acks' = 0
    BY <1>1, <1>2, <2>1, DfuTypes
  <2>3. stage' = "data" /\ Write("data")
    BY <1>1, <2>2, GoOnTypes
  <2>4. \A i \in 1 .. Len(frames') : frames'[i] = "data"
    BY <2>1, <2>3, WriteSeq DEF Transfer
  <2> QED BY <2>2, <2>3, <2>4
<1> QED BY <1>3, <1>4, <1>5

-----------------------------------------------------------------------------
(***************************************************************************)
(* The board.                                                              *)
(***************************************************************************)
LEMMA TailSeq ==
    ASSUME DfuTypeOK, TakesFrame
    PROVE /\ frames' \in Seq(Transfer) /\ Len(frames') = Len(frames) - 1
          /\ \A i \in 1 .. Len(frames') : i + 1 \in 1 .. Len(frames) /\ frames'[i] = frames[i + 1]
          /\ Len(frames) >= 1 /\ Head(frames) = frames[1]
BY DEF TakesFrame, DfuTypeOK

\* Whoever reads a packet answers it.
LEMMA AnswersKeeps ==
    ASSUME DfuInv, TakesFrame, Answers, board' \in {"app", "boot", "erased"},
           linked' \in BOOLEAN, echoed' \in BOOLEAN, echoed => echoed',
           heard' \in Nat, heard' >= heard,
           Head(frames) = "data" => heard' > 0 \/ echoed',
           UNCHANGED <<stage, size, sent, misses, acked, torn, stale>>
    PROVE DfuInv'
<1> USE DEF DfuInv
<1>1. acks' = acks + 1 /\ silent' = 0 /\ spare' = acks'
  BY DEF Answers
<1>2. DfuTypeOK'
  BY <1>1, TailSeq, DfuTypes DEF DfuTypeOK
<1>3. Paid'
  <2>1. spare' - acks' = 0 /\ acks' <= spare' /\ silent' = 0 /\ misses' \in Nat
    BY <1>1, <1>2, DfuTypes
  <2> QED BY <2>1, MissAssumption DEF Paid
<1>4. Unheard'
  BY <1>1, TailSeq, DfuTypes DEF Unheard, DfuTypeOK
<1> QED BY <1>2, <1>3, <1>4

LEMMA BootloaderReadsKeeps == ASSUME DfuInv, BootloaderReads PROVE DfuInv'
<1>1. TakesFrame /\ Answers
      /\ UNCHANGED <<stage, size, sent, misses, acked, torn, echoed, stale>>
  BY DEF BootloaderReads
<1>2. board' \in {"app", "boot", "erased"}
  <2>1. CASE Head(frames) = "start"
    BY <2>1 DEF BootloaderReads
  <2>2. CASE Head(frames) = "stop" /\ heard = size
    BY <2>2 DEF BootloaderReads
  <2>3. CASE Head(frames) # "start" /\ ~(Head(frames) = "stop" /\ heard = size)
    BY <2>3 DEF BootloaderReads, DfuInv, DfuTypeOK
  <2> QED BY <2>1, <2>2, <2>3
<1>3. linked' \in BOOLEAN
  BY DEF BootloaderReads, DfuInv, DfuTypeOK
<1>4. echoed' \in BOOLEAN /\ echoed' = echoed
  BY <1>1 DEF DfuInv, DfuTypeOK
<1>5. heard \in Nat /\ heard' = heard + (IF Head(frames) = "data" THEN 1 ELSE 0)
  BY DEF BootloaderReads, DfuInv, DfuTypeOK
<1>6. heard' \in Nat /\ heard' >= heard /\ (Head(frames) = "data" => heard' > 0)
  BY <1>5
<1> QED BY <1>1, <1>2, <1>3, <1>4, <1>6, AnswersKeeps

LEMMA AppEchoesKeeps == ASSUME DfuInv, AppEchoes PROVE DfuInv'
<1>1. TakesFrame /\ Answers /\ echoed' = TRUE
      /\ UNCHANGED <<stage, size, sent, misses, acked, torn, board, linked, heard, stale>>
  BY DEF AppEchoes
<1>2. board' \in {"app", "boot", "erased"} /\ linked' \in BOOLEAN
      /\ heard' \in Nat /\ heard' >= heard
  BY <1>1 DEF DfuInv, DfuTypeOK
<1> QED BY <1>1, <1>2, AnswersKeeps

LEMMA LosesKeeps == ASSUME DfuInv, Loses PROVE DfuInv'
<1> USE DEF DfuInv
<1>1. /\ UNCHANGED <<stage, sent, misses, acked, acks, torn, board, linked>>
      /\ UNCHANGED <<size, silent, spare, heard, echoed, stale>>
  BY DEF Loses, rest
<1>2. DfuTypeOK'
  <2>1. frames' \in Seq(Transfer)
    BY TailSeq DEF Loses
  <2> QED BY <1>1, <2>1 DEF DfuTypeOK
<1>3. Paid'
  BY <1>1 DEF Paid
<1>4. /\ Len(frames') = Len(frames) - 1 /\ Len(frames) \in Nat /\ Len(frames') \in Nat
      /\ \A i \in 1 .. Len(frames') : i + 1 \in 1 .. Len(frames) /\ frames'[i] = frames[i + 1]
  BY TailSeq DEF Loses, DfuTypeOK
<1>5. acks \in Nat /\ (stage' = stage /\ acked' = acked /\ acks' = acks)
  BY <1>1 DEF DfuTypeOK
<1>6. Unheard'
  <2> SUFFICES ASSUME stale = 0, heard = 0, ~echoed
               PROVE  /\ stage # "stop"
                      /\ stage \in Transfer => acked = 0
                      /\ stage \in {"start", "init"} => acks + Len(frames') <= 1
                      /\ stage = "data" =>
                            acks = 0 /\ \A i \in 1 .. Len(frames') : frames'[i] = "data"
    BY <1>1 DEF Unheard
  <2>1. acks + Len(frames) <= 1 => acks + Len(frames') <= 1
    BY <1>4, <1>5
  <2>2. (\A i \in 1 .. Len(frames) : frames[i] = "data")
           => \A i \in 1 .. Len(frames') : frames'[i] = "data"
    BY <1>4
  <2> QED BY <2>1, <2>2 DEF Unheard
<1> QED BY <1>2, <1>3, <1>6

LEMMA VanishesKeeps == ASSUME DfuInv, Vanishes PROVE DfuInv'
<1> USE DEF DfuInv
<1>1. /\ UNCHANGED <<stage, sent, misses, acked, acks, torn>>
      /\ UNCHANGED <<size, silent, spare, heard, echoed, stale>>
      /\ frames' = <<>>
  BY DEF Vanishes, rest
<1>2. DfuTypeOK'
  <2>1. /\ linked' \in BOOLEAN
        /\ frames' \in Seq(Transfer)
    <3>1. linked' \in BOOLEAN
      BY DEF Vanishes
    <3>2. frames' \in Seq(Transfer)
      BY <1>1
    <3> QED BY <3>1, <3>2
  <2>2. board' \in {"app", "boot", "erased"}
    BY DEF Vanishes, DfuTypeOK
  <2> QED BY <1>1, <2>1, <2>2 DEF DfuTypeOK
<1>3. Paid'
  BY <1>1 DEF Paid
<1>4. Unheard'
  BY <1>1, DfuTypes DEF Unheard, DfuTypeOK
<1> QED BY <1>2, <1>3, <1>4

-----------------------------------------------------------------------------
LEMMA HostKeeps == ASSUME DfuInv, Host PROVE DfuInv'
<1>1. CASE Start
  BY <1>1, StageKeeps DEF Start, DfuInv, DfuTypeOK
<1>2. CASE RebootByCommand
  BY <1>2, StageKeeps DEF RebootByCommand, Rebooted, DfuInv, DfuTypeOK
<1>3. CASE Touch1200
  BY <1>3, StageKeeps DEF Touch1200, Rebooted, DfuInv, DfuTypeOK
<1>4. CASE WaitForReenumeration
  BY <1>4, StageKeeps DEF WaitForReenumeration, Resting, DfuInv, DfuTypeOK
<1>5. CASE Flash
  BY <1>5, FlashKeeps
<1>6. CASE StartAcked
  BY <1>6, StartAckedKeeps
<1>7. CASE InitAcked
  BY <1>7, InitAckedKeeps
<1>8. CASE DataAcked
  BY <1>8, DataAckedKeeps
<1>9. CASE Skipped
  BY <1>9, SkippedKeeps
<1>10. CASE DataMissed
  BY <1>10, DataMissedKeeps
<1>11. CASE Fails
  BY <1>11, FinishKeeps DEF Fails
<1>12. CASE Flashed
  BY <1>12, FinishKeeps DEF Flashed
<1> QED BY <1>1, <1>2, <1>3, <1>4, <1>5, <1>6, <1>7, <1>8, <1>9, <1>10, <1>11, <1>12 DEF Host

LEMMA BoardKeeps == ASSUME DfuInv, Board PROVE DfuInv'
<1>1. CASE DoubleTap
  BY <1>1, StageKeeps DEF DoubleTap, DfuInv, DfuTypeOK
<1>2. CASE BootTimesOut
  BY <1>2, StageKeeps DEF BootTimesOut, DfuInv, DfuTypeOK
<1>3. CASE BootloaderReads
  BY <1>3, BootloaderReadsKeeps
<1>4. CASE AppEchoes
  BY <1>4, AppEchoesKeeps
<1>5. CASE Loses
  BY <1>5, LosesKeeps
<1>6. CASE Vanishes
  BY <1>6, VanishesKeeps
<1> QED BY <1>1, <1>2, <1>3, <1>4, <1>5, <1>6 DEF Board

LEMMA DfuKeeps == DfuInv /\ [DfuNext]_dfuVars => DfuInv'
<1>1. ASSUME DfuInv, UNCHANGED dfuVars PROVE DfuInv'
  BY <1>1 DEF dfuVars, DfuInv, DfuTypeOK, Paid, Unheard
<1> QED BY <1>1, HostKeeps, BoardKeeps DEF DfuNext

LEMMA DfuAlways == DfuSpec => []DfuInv
BY Begins, DfuKeeps, PTL DEF DfuSpec

\* The flasher's variables keep their types: no packet is sent beyond the
\* firmware's last, and the misses in a row stay below the limit.
THEOREM DfuTypeCorrect == DfuSpec => []DfuTypeOK
<1>1. DfuInv => DfuTypeOK
  BY DEF DfuInv
<1> QED BY <1>1, DfuAlways, PTL

LEMMA PaidIsNoticed == DfuInv => SilenceNoticed
<1> SUFFICES ASSUME DfuInv PROVE silent < MaxMisses * (spare + 1)
  BY DEF SilenceNoticed
<1>1. MaxMisses * (spare + 1) = MaxMisses * spare + MaxMisses
  BY OneMore, DfuTypes DEF DfuInv
<1>2. MaxMisses * (spare - acks) <= MaxMisses * spare
  BY NoLess, DfuTypes DEF DfuInv, Paid
<1>3. {MaxMisses * (spare - acks), MaxMisses * spare} \subseteq Int /\ misses < MaxMisses
  BY DfuTypes DEF DfuInv, DfuTypeOK
<1> QED BY <1>1, <1>2, <1>3, DfuTypes DEF DfuInv, Paid

\* For any number of packets and any limit on the misses in a row, a transfer
\* gets to STOP only if the board at the port read one of the last packets.
THEOREM SilenceAlwaysNoticed == DfuSpec => []SilenceNoticed
BY DfuAlways, PaidIsNoticed, PTL

\* With no acknowledgements left over from an earlier transfer, and no firmware
\* echoing, it gets to STOP only if the bootloader read a DATA packet.
THEOREM AlwaysHeard == DfuSpec => []HeardSomething
<1>1. DfuInv => HeardSomething
  BY DfuTypes DEF DfuInv, Unheard, HeardSomething
<1> QED BY <1>1, DfuAlways, PTL

-----------------------------------------------------------------------------
(***************************************************************************)
(* The two tools                                                           *)
(***************************************************************************)
LEMMA FlasherOnly == [WebNext]_webVars => [DfuNext]_dfuVars
<1>1. CASE PageStep
  BY <1>1 DEF PageStep
<1>2. CASE FlasherStep
  BY <1>2 DEF FlasherStep
<1>3. CASE UNCHANGED webVars
  BY <1>3 DEF webVars
<1> QED BY <1>1, <1>2, <1>3 DEF WebNext

\* A run of the two tools is, for the flasher's variables, a run of the flasher.
LEMMA WebImplementsDfu == WebSpec => DfuSpec
<1>1. WebInit => DfuInit
  BY DEF WebInit
<1> QED BY <1>1, FlasherOnly, PTL DEF WebSpec, DfuSpec

\* With the configuration page at the same board, too, a transfer gets to STOP
\* only if the board at the port read one of the last packets.
THEOREM WebSilenceNoticed == WebSpec => []SilenceNoticed
BY WebImplementsDfu, SilenceAlwaysNoticed, PTL

\* ... and only if the bootloader read a DATA packet, with no acknowledgement
\* left over and none but its own.
THEOREM WebHeard == WebSpec => []HeardSomething
BY WebImplementsDfu, AlwaysHeard, PTL

-----------------------------------------------------------------------------
(***************************************************************************)
(* The page, whose commands may land behind the flasher's bytes and whose  *)
(* device the flasher restarts: not a run of the page alone.               *)
(***************************************************************************)
LEMMA MisreadsKeeps == ASSUME PageInv, Misreads PROVE PageInv'
<1>1. commands # <<>> /\ Prints(<<>>, "err") /\ UNCHANGED Here
      /\ UNCHANGED <<staged, saved, rebooting>>
  BY DEF Misreads, device
<1>2. call.clean /\ Waiting /\ commands[1].cmd = call.cmd => Meant(Line("err", TRUE))'
  BY <1>1, LineSays DEF Waiting, Meant, Here, page
<1> QED BY <1>1, <1>2, NoPayload, RunKeeps DEF PageInv, Types

LEMMA FlasherKeeps == ASSUME PageInv, FlasherStep PROVE PageInv'
<1> USE DEF PageInv
<1>1. /\ flow = "closed" /\ staged' \in {staged, saved}
      /\ UNCHANGED <<flow, call, recorded, vals, todo, trusted, queue, commands, output,
                     saved, rebooting>>
  BY DEF FlasherStep, page
<1>2. Types'
  BY <1>1 DEF Types
<1>3. Matches' /\ Remaining'
  BY <1>1 DEF Matches, Refreshes, Remaining
<1>4. Own'
  BY <1>1, NoCallTypes DEF Matches, Own
<1>5. Calm'
  BY <1>1 DEF Calm
<1> QED BY <1>2, <1>3, <1>4, <1>5

LEMMA WebKeepsPage == PageInv /\ [WebNext]_webVars => PageInv'
<1>1. ASSUME PageInv, PageStep PROVE PageInv'
  BY <1>1, PageKeeps, RunsKeep, MisreadsKeeps, ChatterKeeps, RestartsKeeps DEF PageStep
<1>2. ASSUME PageInv, UNCHANGED webVars PROVE PageInv'
  BY <1>2, StutterKeeps DEF webVars
<1> QED BY <1>1, <1>2, FlasherKeeps DEF WebNext

LEMMA WebPageAlways == WebSpec => []PageInv
<1>1. WebInit => PageInv
  BY Starts DEF WebInit
<1> QED BY <1>1, WebKeepsPage, PTL DEF WebSpec

\* Beside the flasher, too, a call that began with nothing of an earlier one
\* under way ends with its own terminator, also when the console took its
\* command for the rest of a frame.
THEOREM WebAnsweredOwn == WebSpec => AnsweredOwn
<1>1. PageInv /\ [WebNext]_webVars =>
         [Answered /\ call.clean /\ call' # call => Head(queue).awaited]_consoleVars
  BY OwnAnswers
<1> QED BY <1>1, WebPageAlways, PTL DEF WebSpec, AnsweredOwn

\* Beside the flasher, too, the page's record is what the device has staged
\* whenever the page is at rest and had no reason to doubt: a staged record
\* that was lost with a reboot into the bootloader is never shown as current.
THEOREM WebOriginalIsStaged == WebSpec => []OriginalIsStaged
BY WebPageAlways, RecordIsRight, PTL

\* ... and "committed" is shown only for the values that were saved.
THEOREM WebCommitReported == WebSpec => []CommitReported
BY WebPageAlways, ReportIsRight, PTL
=============================================================================
