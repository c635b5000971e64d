---------------------------- MODULE RepeaterLoop ----------------------------
(***************************************************************************)
(* The main loop of src/src/main.cpp over the wrapping millis(), with the  *)
(* two parties that share it: the periodic senders (Telemetry.cpp,         *)
(* LxmfPresence.cpp), and the Bluetooth session (Ble.cpp) that pauses the  *)
(* radio.  Bluefruit queues its events and hands them, in order, to a      *)
(* callback task of higher priority: a callback is one step, except that   *)
(* an ANNOUNCE transmits from it, with delays in which the loop runs.      *)
(* The client and the SoftDevice's link are the environment.               *)
(***************************************************************************)
EXTENDS Integers, Sequences

CONSTANTS
    Wrap,         \* millis() counts modulo Wrap (2^32)
    IdleTimeout,  \* BLE_IDLE_TIMEOUT_MS
    First,        \* FIRST_MS
    Interval,     \* tele_interval_ms, lxmf_interval_ms
    Stall,        \* the longest pass of the loop
    Handles, NoHandle,
    Records,      \* configurations a client or the serial console stages
    Zero,         \* the zero-filled s_staging before serial_console::init()
    Settings,     \* the node's settings to explore
    MaxEvents     \* bound on the callback task's queue

Tasks == {"telemetry", "presence"}
Larger(a, b) == IF a < b THEN b ELSE a
Late == Larger(First, Interval) + 4 * Stall
Unused == IdleTimeout + 2 * Stall

ASSUME ClockAssumption ==
    /\ {Wrap, IdleTimeout, First, Interval, Stall} \subseteq Nat \ {0}
    /\ Unused < Wrap /\ Larger(First, Interval) + 2 * Stall < Wrap
ASSUME HandleAssumption == NoHandle \notin Handles
ASSUME RecordAssumption == Zero \notin Records
ASSUME SettingAssumption ==
    Settings \subseteq [bt : BOOLEAN, pin : BOOLEAN, on : SUBSET Tasks]
ASSUME QueueAssumption == MaxEvents \in Nat \ {0}

VARIABLES
    setting,    \* bt_enabled, whether bt_pin # 0, and the senders that are on:
                \* enabled, radio online, collector set, interval not 0
    now,        \* millis()
    pc,         \* the loop's place
    clock, mark, \* what ble::tick() has read of millis() and s_last_activity_ms
    stamp,      \* each sender's s_last_ms
    link,       \* the SoftDevice's link: its handle and security
    events,     \* queued for the callback task
    callback,   \* "ready", or inside an ANNOUNCE
    handle, connected, last,  \* s_conn_handle, s_connected, s_last_activity_ms
    staging,    \* SerialConsole's s_staging
    shown,      \* the CONFIG characteristic's value
    pass,       \* history: ms since the loop's pass began
    quiet,      \* history: ms since a session's last callback that marked activity
    raced,      \* history: a callback ran while ble::tick() was reading
    touched,    \* history: since CONFIG was last refreshed a field was rejected,
                \* the serial console changed staging, or the node booted or
                \* a session ended; or a write was overtaken by the refresh
    age,        \* history: ms since each sender last sent
    waited      \* history: of these, the ms since the radio was last paused

time == <<now, pass, age, waited>>
loop == <<pc, clock, mark>>
session == <<handle, connected, last>>
config == <<staging, shown, touched>>
vars == <<setting, now, pc, clock, mark, stamp, link, events, callback, handle,
          connected, last, staging, shown, pass, quiet, raced, touched, age, waited>>

None == -1
Down == [handle |-> NoHandle, level |-> "down"]
Millis == 0 .. Wrap - 1
Since(t, s) == (t - s) % Wrap

\* Mutant: a millisecond counter that does not wrap.
LaterUnwrapped(t) == t + 1

Later(t) == (t + 1) % Wrap

Event == [kind : {"connect", "secured", "unpaired", "disconnect", "command", "commit"},
          handle : Handles]
         \cup [kind : {"config"}, handle : Handles, value : Records]

\* setup(): s_staging is still zero-filled when ble::init() fills in CONFIG.
Init ==
    /\ setting \in Settings
    /\ now = 0 /\ pass = 0 /\ pc = "top" /\ clock = None /\ mark = None
    /\ stamp = [k \in Tasks |-> 0]
    /\ age = [k \in Tasks |-> Larger(First, Interval)]
    /\ waited = [k \in Tasks |-> 0]
    /\ link = Down /\ events = <<>> /\ callback = "ready"
    /\ handle = NoHandle /\ connected = FALSE
    /\ last = 0 /\ quiet = 0 /\ raced = FALSE
    /\ staging \in Records /\ shown = Zero /\ touched = TRUE

\* The same after NVIC_SystemReset().
Restart ==
    /\ setting' \in Settings
    /\ now' = 0 /\ pass' = 0 /\ pc' = "top" /\ clock' = None /\ mark' = None
    /\ stamp' = [k \in Tasks |-> 0]
    /\ age' = [k \in Tasks |-> Larger(First, Interval)]
    /\ waited' = [k \in Tasks |-> 0]
    /\ link' = Down /\ events' = <<>> /\ callback' = "ready"
    /\ handle' = NoHandle /\ connected' = FALSE
    /\ last' = 0 /\ quiet' = 0 /\ raced' = FALSE
    /\ staging' \in Records /\ shown' = Zero /\ touched' = TRUE

-----------------------------------------------------------------------------
\* A pass of the loop, or a callback, takes at most Stall ms.
Tick ==
    /\ pass < Stall
    /\ now' = Later(now)
    /\ pass' = pass + 1
    /\ quiet' = IF ~connected THEN 0
                ELSE IF quiet <= Unused THEN quiet + 1 ELSE quiet
    /\ age' = [k \in Tasks |->
                 IF age[k] < Larger(First, Interval) THEN age[k] + 1 ELSE age[k]]
    /\ waited' = [k \in Tasks |->
                    IF k \notin setting.on \/ connected THEN 0
                    ELSE IF waited[k] <= Late THEN waited[k] + 1 ELSE waited[k]]
    /\ UNCHANGED <<setting, loop, stamp, link, events, callback, session, config, raced>>

-----------------------------------------------------------------------------
(***************************************************************************)
(* loop(): the radio's work unless a session is open, then the consoles.   *)
(***************************************************************************)
\* Mutant: the radio pauses for a client that never pairs, too.
LoopTopAnyLink ==
    /\ pc = "top"
    /\ pc' = IF handle # NoHandle THEN "console" ELSE "transport"
    /\ pass' = 0
    /\ UNCHANGED <<setting, now, clock, mark, stamp, link, events, callback, session,
                   config, quiet, raced, age, waited>>

LoopTop ==
    /\ pc = "top"
    /\ pc' = IF connected THEN "console" ELSE "transport"
    /\ pass' = 0
    /\ UNCHANGED <<setting, now, clock, mark, stamp, link, events, callback, session,
                   config, quiet, raced, age, waited>>

TransportTick ==
    /\ pc = "transport"
    /\ pc' = "telemetry"
    /\ UNCHANGED <<setting, time, clock, mark, stamp, link, events, callback, session,
                   config, quiet, raced>>

\* Mutant: the next send's time is computed with the wrap, compared without.
DueWrapped(k) ==
    IF stamp[k] = 0 THEN now >= First ELSE now >= (stamp[k] + Interval) % Wrap

\* Enabled, with somebody to send to, and an interval that is not 0.
On(k) == k \in setting.on

\* A stamp of 0 stands for "never", also when it was taken as millis() wrapped.
Due(k) == IF stamp[k] = 0 THEN now >= First ELSE Since(now, stamp[k]) >= Interval

\* The stamp is taken first: a send that fails is not tried again until the
\* interval has passed.
PeriodicTick(k) ==
    /\ pc = k
    /\ pc' = IF k = "telemetry" THEN "presence" ELSE "console"
    /\ \/ /\ On(k) /\ Due(k)
          /\ stamp' = [stamp EXCEPT ![k] = now]
          /\ age' = [age EXCEPT ![k] = 0]
          /\ waited' = [waited EXCEPT ![k] = 0]
       \/ /\ ~(On(k) /\ Due(k))
          /\ UNCHANGED <<stamp, age, waited>>
    /\ UNCHANGED <<setting, now, pass, clock, mark, link, events, callback, session,
                   config, quiet, raced>>

\* A line of the serial console: CONFIG SET, RESET or REVERT, an ANNOUNCE,
\* which transmits whether a session is open or not, or any other, or none.
ConsoleTick ==
    /\ pc = "console"
    /\ \/ pc' = "ble" /\ UNCHANGED <<staging, touched>>
       \/ pc' = "ble" /\ staging' \in Records /\ touched' = TRUE
       \/ pc' = "announce" /\ UNCHANGED <<staging, touched>>
    /\ UNCHANGED <<setting, time, clock, mark, stamp, link, events, callback, session,
                   shown, quiet, raced>>

ConsoleAnnounced ==
    /\ pc = "announce"
    /\ pc' = "ble"
    /\ UNCHANGED <<setting, time, clock, mark, stamp, link, events, callback, session,
                   config, quiet, raced>>

\* Bluefruit.disconnect(h): the link goes down and the event follows, behind
\* those still in queue q.
Close(h, q) ==
    IF link.handle = h /\ h # NoHandle
    THEN /\ link' = Down
         /\ events' = Append(q, [kind |-> "disconnect", handle |-> h])
    ELSE link' = link /\ events' = q

\* ble::tick(): the flag, then millis() and the stamp, in whichever order the
\* compiler reads them, then the comparison.  A callback may come in between.
IdleCheck ==
    /\ pc = "ble"
    /\ pc' = IF connected /\ handle # NoHandle THEN "reading" ELSE "top"
    /\ UNCHANGED <<setting, time, clock, mark, stamp, link, events, callback, session,
                   config, quiet, raced>>

ReadMillis ==
    /\ pc = "reading" /\ clock = None
    /\ clock' = now
    /\ UNCHANGED <<setting, time, pc, mark, stamp, link, events, callback, session,
                   config, quiet, raced>>

ReadMark ==
    /\ pc = "reading" /\ mark = None
    /\ mark' = last
    /\ UNCHANGED <<setting, time, pc, clock, stamp, link, events, callback, session,
                   config, quiet, raced>>

\* Mutant: the deadline is computed, and compared, without the wrap.
ExpiredAbsolute(t, s) == t > s + IdleTimeout

Expired(t, s) == Since(t, s) > IdleTimeout

IdleCompare ==
    /\ pc = "reading" /\ clock # None /\ mark # None
    /\ pc' = "top" /\ clock' = None /\ mark' = None
    /\ IF Expired(clock, mark)
       THEN Close(handle, events)
       ELSE UNCHANGED <<link, events>>
    /\ raced' = FALSE
    /\ UNCHANGED <<setting, time, stamp, callback, session, config, quiet>>

Loop == \/ LoopTop \/ TransportTick \/ (\E k \in Tasks : PeriodicTick(k))
        \/ ConsoleTick \/ ConsoleAnnounced
        \/ IdleCheck \/ ReadMillis \/ ReadMark \/ IdleCompare

-----------------------------------------------------------------------------
(***************************************************************************)
(* The client, and the SoftDevice on its behalf.                           *)
(***************************************************************************)
Queue(kind) == Append(events, [kind |-> kind, handle |-> link.handle])
Room == Len(events) < MaxEvents
firmware == <<setting, time, loop, stamp, callback, session, quiet, raced>>

Connect(h) ==
    /\ setting.bt /\ link = Down /\ Room
    /\ link' = [handle |-> h, level |-> "open"]
    /\ events' = Append(events, [kind |-> "connect", handle |-> h])
    /\ UNCHANGED <<firmware, config>>

Encrypt(level) ==
    /\ Room
    /\ link.level = "open" \/ (link.level = "weak" /\ level = "mitm")
    /\ link' = [link EXCEPT !.level = level]
    /\ events' = Queue("secured")
    /\ UNCHANGED <<firmware, config>>

PairingFails ==
    /\ setting.pin /\ link.level = "open" /\ Room
    /\ events' = Queue("unpaired")
    /\ UNCHANGED <<firmware, link, config>>

\* SECMODE_ENC_WITH_MITM with a PIN, SECMODE_OPEN without.
MayWrite == IF setting.pin THEN link.level = "mitm" ELSE link # Down

\* The characteristic holds what was written before the callback sees it.
WriteConfig(v) ==
    /\ MayWrite /\ Room
    /\ shown' = v
    /\ events' = Append(events, [kind |-> "config", handle |-> link.handle, value |-> v])
    /\ UNCHANGED <<firmware, link, staging, touched>>

Write(kind) ==
    /\ MayWrite /\ Room
    /\ events' = Queue(kind)
    /\ UNCHANGED <<firmware, link, config>>

\* The client disconnects, or the supervision timeout does.
Leave ==
    /\ link # Down
    /\ Close(link.handle, events)
    /\ UNCHANGED <<firmware, config>>

Client == \/ \E h \in Handles : Connect(h)
          \/ \E level \in {"weak", "mitm"} : Encrypt(level)
          \/ PairingFails
          \/ \E v \in Records : WriteConfig(v)
          \/ \E kind \in {"command", "commit"} : Write(kind)
          \/ Leave

-----------------------------------------------------------------------------
(***************************************************************************)
(* The callbacks.                                                          *)
(***************************************************************************)
Takes(kind) == callback = "ready" /\ events # <<>> /\ Head(events).kind = kind
Ran == raced' = (pc = "reading")
MarkActivity == last' = now /\ quiet' = 0
elsewhere == <<setting, time, loop, stamp>>

OnConnect ==
    /\ Takes("connect")
    /\ events' = Tail(events) /\ Ran
    /\ handle' = Head(events).handle /\ connected' = FALSE
    /\ UNCHANGED <<elsewhere, link, callback, last, quiet, config>>

\* Mutant: the flag is left to the next connection.
OnDisconnectKeepsFlag ==
    /\ Takes("disconnect")
    /\ events' = Tail(events) /\ Ran
    /\ handle' = IF handle = Head(events).handle THEN NoHandle ELSE handle
    /\ UNCHANGED <<elsewhere, link, callback, connected, last, quiet, config>>

OnDisconnect ==
    /\ Takes("disconnect")
    /\ events' = Tail(events) /\ Ran
    /\ IF handle = Head(events).handle
       THEN handle' = NoHandle /\ connected' = FALSE /\ touched' = TRUE
       ELSE UNCHANGED <<handle, connected, touched>>
    /\ UNCHANGED <<elsewhere, link, callback, last, quiet, staging, shown>>

\* s_conn_handle is the event's, and Bluefruit.Connection() knows it.
Known == handle = Head(events).handle /\ link.handle = handle
Written == \E i \in 1 .. Len(events) : events[i].kind = "config"
Refresh == shown' = staging /\ touched' = Written
Enough == setting.pin => link.level = "mitm"

\* Mutant: a new session inherits the last one's stamp.
OnSecuredUnmarked ==
    /\ Takes("secured") /\ Known /\ Enough
    /\ events' = Tail(events) /\ Ran
    /\ connected' = TRUE
    /\ Refresh
    /\ UNCHANGED <<elsewhere, link, callback, handle, last, quiet, staging>>

\* Mutant: CONFIG is filled in once, by init().
OnSecuredStale ==
    /\ Takes("secured") /\ Known /\ Enough
    /\ events' = Tail(events) /\ Ran
    /\ connected' = TRUE
    /\ touched' = Written
    /\ MarkActivity
    /\ UNCHANGED <<elsewhere, link, callback, handle, staging, shown>>

\* Mutant: the session counts as open only once it has sent something.
OnSecuredLazy ==
    /\ Takes("secured") /\ Known /\ Enough
    /\ events' = Tail(events) /\ Ran
    /\ MarkActivity
    /\ UNCHANGED <<elsewhere, link, callback, handle, connected, config>>

OnSecured ==
    /\ Takes("secured") /\ Known /\ Enough
    /\ events' = Tail(events) /\ Ran
    /\ connected' = TRUE
    /\ Refresh
    /\ MarkActivity
    /\ waited' = [k \in Tasks |-> 0]
    /\ UNCHANGED <<setting, now, pass, age, loop, stamp, link, callback, handle, staging>>

\* Not enough for the PIN: disconnected; and CONFIG refreshed if the flag is set.
OnSecuredWeak ==
    /\ Takes("secured") /\ Known /\ ~Enough
    /\ Close(handle, Tail(events)) /\ Ran
    /\ IF connected THEN Refresh
                    ELSE UNCHANGED <<shown, touched>>
    /\ UNCHANGED <<elsewhere, callback, session, quiet, staging>>

OnSecuredStray ==
    /\ Takes("secured") /\ ~Known
    /\ events' = Tail(events) /\ Ran
    /\ UNCHANGED <<elsewhere, link, callback, session, quiet, config>>

OnPairingComplete ==
    /\ Takes("unpaired")
    /\ IF handle = Head(events).handle
       THEN Close(handle, Tail(events)) /\ Ran
       ELSE link' = link /\ events' = Tail(events) /\ Ran
    /\ UNCHANGED <<elsewhere, callback, session, quiet, config>>

\* Every field is applied on its own: a rejected one keeps its old value, and
\* the characteristic keeps the client's.
OnConfigWrite ==
    /\ Takes("config")
    /\ events' = Tail(events) /\ Ran
    /\ MarkActivity
    /\ \/ staging' = Head(events).value /\ UNCHANGED touched
       \/ staging' \in Records /\ touched' = TRUE
    /\ UNCHANGED <<elsewhere, link, callback, handle, connected, shown>>

\* A record that is invalid, or cannot be saved, is reported and kept.
OnCommitWrite ==
    /\ Takes("commit")
    /\ \/ /\ events' = Tail(events) /\ Ran
          /\ MarkActivity
          /\ UNCHANGED <<elsewhere, link, callback, handle, connected, config>>
       \/ Restart

\* dispatch_line(), in the callback task.
OnCommandWrite ==
    /\ Takes("command")
    /\ \/ /\ events' = Tail(events) /\ Ran
          /\ MarkActivity
          /\ callback' \in {"ready", "announcing"}
          /\ \/ UNCHANGED <<staging, touched>>
             \/ callback' = "ready" /\ staging' \in Records /\ touched' = TRUE
          /\ UNCHANGED <<elsewhere, link, handle, connected, shown>>
       \/ Restart

Announced ==
    /\ callback = "announcing"
    /\ Ran
    /\ callback' = "ready"
    /\ UNCHANGED <<elsewhere, link, events, session, quiet, config>>

Callback == \/ OnConnect \/ OnDisconnect
            \/ OnSecured \/ OnSecuredWeak \/ OnSecuredStray \/ OnPairingComplete
            \/ OnConfigWrite \/ OnCommitWrite \/ OnCommandWrite \/ Announced

-----------------------------------------------------------------------------
Next == Tick \/ Loop \/ Client \/ Callback

Spec == Init /\ [][Next]_vars

-----------------------------------------------------------------------------
Idle == events = <<>> /\ callback = "ready"
\* The client s_conn_handle stands for is still connected.
Present == /\ link.handle = handle /\ link # Down
           /\ \A i \in 1 .. Len(events) : events[i].kind # "disconnect"
Sized == [handle : Handles, level : {"open", "weak", "mitm"}] \cup {Down}

TypeOK ==
    /\ setting \in Settings
    /\ now \in Millis /\ last \in Millis
    /\ pc \in {"top", "transport", "console", "announce", "ble", "reading"} \cup Tasks
    /\ clock \in Millis \cup {None} /\ mark \in Millis \cup {None}
    /\ stamp \in [Tasks -> Millis]
    /\ link \in Sized /\ events \in Seq(Event)
    /\ callback \in {"ready", "announcing"}
    /\ handle \in Handles \cup {NoHandle} /\ connected \in BOOLEAN
    /\ staging \in Records /\ shown \in Records \cup {Zero}
    /\ pass \in 0..Stall /\ quiet \in 0 .. Unused + 1
    /\ raced \in BOOLEAN /\ touched \in BOOLEAN
    /\ age \in [Tasks -> 0 .. Larger(First, Interval)]
    /\ waited \in [Tasks -> 0 .. Late + 1]

\* The flag that pauses the radio is set only while its link is up and as
\* secure as the settings ask, whatever order links came and went in and
\* whatever is reused; only events still in the queue may say otherwise
\* (Ble.cpp:259-319).
SessionIsCurrent ==
    connected /\ Idle =>
        /\ handle # NoHandle /\ link.handle = handle
        /\ link.level \in (IF setting.pin THEN {"mitm"} ELSE {"weak", "mitm"})

\* Within a session a read of CONFIG returns the staged record, unless a field
\* was rejected, the serial console changed it meanwhile, or a write came
\* before the refresh (Ble.cpp:313-318 with 149-211).
ReadIsCurrent == connected /\ Idle /\ ~touched => shown = staging

\* ble::tick() drops only a session that was unused for longer than the
\* timeout, unless a callback came between its two reads, or events of the
\* client's were still waiting (Ble.cpp:461-464).
DroppedOnlyIdle ==
    [][ pc = "reading" /\ pc' = "top" /\ link # Down /\ link' = Down =>
          quiet > IdleTimeout \/ raced \/ ~Idle ]_vars

\* With a PIN, no pass begins its radio work while the callback task transmits
\* an ANNOUNCE for a client that is still there: the two meet only in a pass
\* that began before the session, or through the serial console (main.cpp:165
\* with Ble.cpp:254).
AnnouncesAlone ==
    [][ pc = "top" /\ pc' = "transport" /\ setting.pin /\ Present =>
          callback = "ready" ]_vars

\* A sender waits at least its interval between two sends, across a wrap of
\* millis() too, and after a send stamped 0 at least FIRST_MS
\* (Telemetry.cpp:216-225, LxmfPresence.cpp:119-128).
IntervalKept ==
    [][ \A k \in Tasks : age'[k] < age[k] =>
          age[k] >= (IF stamp[k] = 0 THEN First ELSE Interval) ]_vars

\* A sender that is on sends within its interval and two passes of the loop,
\* counted from its last send or the end of the session that paused it, across
\* a wrap of millis() too; two passes more when a long pause ends just as the
\* elapsed time itself wraps.
SendsInTime == \A k \in Tasks : waited[k] <= Late

\* A session nobody uses is dropped within the timeout and two passes of the
\* loop, across a wrap of millis() too, so that "a forgotten session" does not
\* keep the node off the air (Ble.cpp:452-467); what is left is to handle the
\* queued event.
IdleSessionEnds == connected /\ Idle => quiet <= Unused
=============================================================================
