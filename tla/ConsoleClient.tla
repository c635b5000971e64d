--------------------------- MODULE ConsoleClient ---------------------------
(***************************************************************************)
(* The configuration page (docs/console.js) on a serial port: the page's   *)
(* commands, the lines that come back, and the record the page believes    *)
(* the device has staged.  send() tells the answer to its command from     *)
(* everything else only by what a line looks like: this module follows     *)
(* every line from the console (SerialConsole.cpp) to the collector that   *)
(* takes it.  One command is sent at a time.  Work that JavaScript runs    *)
(* before its next event is done here before the next event is.            *)
(***************************************************************************)
EXTENDS Integers, Sequences, FiniteSets

CONSTANTS
    Fields, Head1, Last1,  \* the fields of the pipe line, its first and last
    Values, Garbled,       \* what a field holds; text of a log line run into it
    Factory,               \* config::defaults()
    MaxLines, MaxNoise,    \* bounds on the lines, and of them other output, on
                           \* their way to the page
    MaxLate,               \* bound on the answers under way that nobody awaits
    MaxQueued              \* MAX_QUEUED_LINES

Configs == [Fields -> Values]
Shown == [Fields -> Values \cup {Garbled}]

ASSUME FieldAssumption == Head1 \in Fields /\ Last1 \in Fields
ASSUME ValueAssumption == Garbled \notin Values /\ Factory \in Configs
ASSUME LineAssumption ==
    {MaxLines, MaxNoise, MaxLate} \subseteq Nat /\ MaxQueued \in Nat \ {0}

VARIABLES
    flow,       \* what the page is doing
    call,       \* the send() whose collector waits for a line
    queue,      \* lineQueue, and the line just handed to the collector
    commands,   \* written, not yet read by the console
    output,     \* printed by the device, not yet read by the page
    recorded,   \* originalCfg
    vals,       \* formValues() of the commit under way
    todo,       \* its fields still to be SET
    staged, saved,  \* s_staging; the configuration on flash, which is also *s_live
    rebooting,  \* cmd_config_commit() is about to reset
    trusted     \* history: no doubt since the last refresh about what was staged

page == <<flow, call, recorded, vals, todo, trusted>>
device == <<staged, saved, rebooting>>
consoleVars == <<flow, call, queue, commands, output, recorded, vals, todo,
                 staged, saved, rebooting, trusted>>

Blank == [f \in Fields |-> Garbled]
Cmd(op) == [op |-> op]
Set(f, v) == [op |-> "set", field |-> f, value |-> v]
Get == Cmd("getp")

Line(kind, awaited) == [kind |-> kind, awaited |-> awaited]
Log == Line("log", FALSE)      \* starts with '['
Plain == Line("plain", FALSE)  \* text of any other shape
Noise == {Log, Plain}

\* The call is given up: nobody awaits what is still on its way.
Orphan(sent) == [i \in DOMAIN sent |-> [sent[i] EXCEPT !.awaited = FALSE]]

Late == Cardinality({i \in DOMAIN commands : ~commands[i].awaited})
        + Cardinality({i \in DOMAIN output :
                         ~output[i].awaited /\ output[i].kind \in {"ok", "err"}})

NoCall == [cmd |-> Cmd("none"), echoed |-> FALSE, clean |-> FALSE,
           text |-> <<>>, before |-> FALSE, after |-> FALSE]

ConsoleInit ==
    /\ flow = "closed" /\ call = NoCall
    /\ queue = <<>> /\ commands = <<>> /\ output = <<>>
    /\ recorded = Blank /\ vals = Blank /\ todo = {}
    /\ saved \in Configs /\ staged = saved /\ rebooting = FALSE
    /\ trusted = FALSE

-----------------------------------------------------------------------------
(***************************************************************************)
(* send(): drain, then collect, then write.                                *)
(***************************************************************************)
\* Mutant: the queue is not drained.
DrainNothing(lines) == lines

\* _drainAsync()
Drain(lines) == <<>>

\* The part of a line that has arrived is dropped too, and the rest of it
\* looks like nothing in particular.
Torn(lines) ==
    {lines} \cup (IF lines = <<>> THEN {} ELSE {<<Plain>> \o Tail(lines)})

\* Nothing but noise, and what is drained, precedes the answer.
Clean == commands = <<>> /\ \A i \in DOMAIN output : output[i] \in Noise

Send(cmd, lines) ==
    /\ queue' = Drain(lines)
    /\ commands' = Append(commands, [cmd |-> cmd, awaited |-> TRUE])
    /\ call' = [NoCall EXCEPT !.cmd = cmd, !.clean = Clean]
    /\ output' \in Torn(output)

\* Between two events the collector has no line left to look at.
Settled == call = NoCall \/ queue = <<>>
Free == call = NoCall /\ Len(commands) < 2

-----------------------------------------------------------------------------
(***************************************************************************)
(* The buttons.                                                            *)
(***************************************************************************)
Connect ==
    /\ flow = "closed" /\ Free
    /\ flow' = "loading"
    /\ Send(Get, queue)
    /\ UNCHANGED <<recorded, vals, todo, device, trusted>>

Reload ==
    /\ flow = "ready" /\ Free
    /\ flow' = "reloading"
    /\ Send(Get, queue)
    /\ UNCHANGED <<recorded, vals, todo, device, trusted>>

\* CONFIG REVERT and RESET, followed by a refresh.
Change(op) ==
    /\ flow = "ready" /\ Free
    /\ flow' = "changing"
    /\ Send(Cmd(op), queue)
    /\ UNCHANGED <<recorded, vals, todo, device, trusted>>

\* STATUS and ANNOUNCE
Ask ==
    /\ flow = "ready" /\ Free
    /\ flow' = "asking"
    /\ Send(Cmd("status"), queue)
    /\ UNCHANGED <<recorded, vals, todo, device, trusted>>

\* The fields that are left are SET one after the other, then committed.
Push(left, lines) ==
    /\ todo' = left
    /\ IF left = {}
       THEN flow' = "committing" /\ Send(Cmd("commit"), lines)
       ELSE /\ flow' = "setting"
            /\ \E f \in left : Send(Set(f, vals'[f]), lines)

\* The form shows what was recorded until it is edited.
Commit ==
    /\ flow = "ready" /\ Free
    /\ vals' \in {v \in Shown : \A f \in Fields : v[f] \in Values \cup {recorded[f]}}
    /\ Push({f \in Fields : vals'[f] # recorded[f]}, queue)
    /\ UNCHANGED <<recorded, device, trusted>>

\* _teardown(): what is on its way may still reach the next session, which
\* begins with a refresh.
Close ==
    /\ flow' = "closed" /\ call' = NoCall /\ queue' = <<>>
    /\ recorded' = Blank /\ vals' = Blank /\ todo' = {} /\ trusted' = FALSE

Disconnect ==
    /\ flow \notin {"closed", "stuck"} /\ Settled /\ Late < MaxLate
    /\ Close
    /\ commands' = Orphan(commands)
    /\ output' \in {Orphan(output), <<>>}
    /\ UNCHANGED device

-----------------------------------------------------------------------------
(***************************************************************************)
(* _onLine(), the collector and its timer.                                 *)
(***************************************************************************)
\* Mutant: the lines nobody waits for are all kept.
ArriveUnbounded ==
    /\ flow # "closed" /\ output # <<>>
    /\ call = NoCall \/ queue = <<>>
    /\ queue' = Append(queue, Head(output))
    /\ output' = Tail(output)
    /\ UNCHANGED <<page, commands, device>>

\* Without a collector only the latest MAX_QUEUED_LINES are kept.
Arrive ==
    /\ flow # "closed" /\ output # <<>>
    /\ call = NoCall \/ Len(queue) < MaxQueued
    /\ queue' = Append(IF Len(queue) < MaxQueued THEN queue ELSE Tail(queue), Head(output))
    /\ output' = Tail(output)
    /\ UNCHANGED <<page, commands, device>>

\* parsePipe() of the joined payload: other text runs into the first or the
\* last field, and two records make none.
Parsed(c) ==
    [f \in Fields |-> IF (f = Head1 /\ c.before) \/ (f = Last1 /\ c.after)
                      THEN Garbled ELSE Head(c.text)[f]]

\* A line that ends no call: a log line, the echo, or payload.
Took(c, line) ==
    CASE line = Log -> c
      [] line.kind = "echo" /\ line.awaited /\ ~c.echoed -> [c EXCEPT !.echoed = TRUE]
      [] line.kind = "data" -> [c EXCEPT !.text = IF Len(@) < 2 THEN Append(@, line.rec) ELSE @]
      [] OTHER -> IF c.text = <<>> THEN [c EXCEPT !.before = TRUE]
                                     ELSE [c EXCEPT !.after = TRUE]

CollectMore ==
    /\ call # NoCall /\ queue # <<>> /\ Head(queue).kind \notin {"ok", "err"}
    /\ queue' = Tail(queue)
    /\ call' = Took(call, Head(queue))
    /\ UNCHANGED <<flow, recorded, vals, todo, trusted, commands, output, device>>

\* The call returns what its line says; unless another follows, it is the last.
Returns(kind) == call # NoCall /\ queue # <<>> /\ Head(queue).kind = kind
Answered == Returns("ok") \/ Returns("err")
lines == Tail(queue)
Sure == trusted /\ call.clean
End == /\ queue' = lines /\ call' = NoCall
       /\ commands' = Orphan(commands) /\ output' = Orphan(output)

Told ==
    /\ flow = "asking" /\ Answered
    /\ flow' = "ready"
    /\ trusted' = Sure
    /\ End
    /\ UNCHANGED <<recorded, vals, todo, device>>

\* refreshConfig()
Refreshes == flow \in {"loading", "reloading", "refreshing"}
RefreshFails ==
    /\ flow' = IF flow = "loading" THEN "stuck" ELSE "ready"
    /\ trusted' = (trusted /\ flow # "refreshing")
    /\ UNCHANGED recorded

RefreshReturns ==
    /\ Refreshes /\ Answered
    /\ IF Returns("ok") /\ Len(call.text) = 1
       THEN /\ recorded' = Parsed(call)
            /\ flow' = "ready"
            /\ trusted' = (call.clean /\ ~call.before /\ ~call.after)
       ELSE RefreshFails
    /\ End
    /\ UNCHANGED <<vals, todo, device>>

\* Mutant: the fields are recorded once all of them have landed.
SetReturnsUnrecorded ==
    /\ flow = "setting" /\ Returns("ok")
    /\ recorded' = IF todo = {call.cmd.field} THEN vals ELSE recorded
    /\ trusted' = Sure
    /\ UNCHANGED <<vals, device>>
    /\ Push(todo \ {call.cmd.field}, lines)

SetReturns ==
    /\ flow = "setting" /\ Returns("ok")
    /\ recorded' = [recorded EXCEPT ![call.cmd.field] = call.cmd.value]
    /\ trusted' = Sure
    /\ UNCHANGED <<vals, device>>
    /\ Push(todo \ {call.cmd.field}, lines)

CommitReturns ==
    /\ flow = "committing" /\ Returns("ok")
    /\ flow' = "committed"
    /\ trusted' = Sure
    /\ End
    /\ UNCHANGED <<recorded, vals, todo, device>>

ChangeReturns ==
    /\ flow = "changing" /\ Returns("ok")
    /\ flow' = "refreshing"
    /\ trusted' = Sure
    /\ Send(Get, lines)
    /\ UNCHANGED <<recorded, vals, todo, device>>

\* Mutant: a field the device rejects is passed over.
JobRejectedGoesOn ==
    /\ flow \in {"setting", "committing", "changing"} /\ Returns("err")
    /\ trusted' = Sure
    /\ UNCHANGED <<recorded, device>>
    /\ \/ flow = "setting" /\ vals' = vals /\ Push(todo \ {call.cmd.field}, lines)
       \/ flow # "setting" /\ flow' = "ready" /\ vals' = Blank /\ todo' = {} /\ End

\* "ERR:" ends the job, and what was not pushed yet is left for a retry.
JobRejected ==
    /\ flow \in {"setting", "committing", "changing"} /\ Returns("err")
    /\ flow' = "ready" /\ vals' = Blank /\ todo' = {}
    /\ trusted' = Sure
    /\ End
    /\ UNCHANGED <<recorded, device>>

\* The device may yet carry out a command that timed out.
TimeOut ==
    /\ call # NoCall /\ queue = <<>> /\ Late < MaxLate
    /\ queue' = <<>> /\ call' = NoCall
    /\ commands' = Orphan(commands) /\ output' = Orphan(output)
    /\ \/ Refreshes /\ RefreshFails /\ UNCHANGED <<vals, todo>>
       \/ /\ ~Refreshes
          /\ flow' = "ready" /\ vals' = Blank /\ todo' = {}
          /\ trusted' = (trusted /\ flow \in {"committing", "asking"})
          /\ UNCHANGED recorded
    /\ UNCHANGED device

Collect == \/ CollectMore \/ Told \/ RefreshReturns \/ SetReturns
           \/ CommitReturns \/ ChangeReturns \/ JobRejected

-----------------------------------------------------------------------------
(***************************************************************************)
(* The device: one command a pass, whose echo other output may cut in two. *)
(***************************************************************************)
Room(n) == Len(output) + n <= MaxLines

Prints(payload, kind) ==
    LET awaited == Head(commands).awaited
    IN  /\ commands' = Tail(commands)
        /\ Room(2 + Len(payload))
        /\ \E echo \in {Line("echo", awaited), Plain} :
              output' = output \o <<echo>> \o payload \o <<Line(kind, awaited)>>

Reads(op) == commands # <<>> /\ ~rebooting /\ Head(commands).cmd.op = op
Here == <<page, queue>>

RunGetp ==
    /\ Reads("getp")
    /\ Prints(<<[kind |-> "data", awaited |-> Head(commands).awaited, rec |-> staged]>>, "ok")
    /\ UNCHANGED <<Here, device>>

RunSet ==
    /\ Reads("set")
    /\ LET c == Head(commands).cmd
       IN  \/ staged' = [staged EXCEPT ![c.field] = c.value] /\ Prints(<<>>, "ok")
           \/ staged' = staged /\ Prints(<<>>, "err")
    /\ UNCHANGED <<Here, saved, rebooting>>

\* A record that is invalid, or cannot be saved, is kept staged.
RunCommit ==
    /\ Reads("commit")
    /\ \/ saved' = staged /\ rebooting' = TRUE /\ Prints(<<>>, "ok")
       \/ UNCHANGED <<saved, rebooting>> /\ Prints(<<>>, "err")
    /\ UNCHANGED <<Here, staged>>

RunRevert == Reads("revert") /\ staged' = saved /\ Prints(<<>>, "ok")
             /\ UNCHANGED <<Here, saved, rebooting>>

RunReset == Reads("reset") /\ staged' = Factory /\ Prints(<<>>, "ok")
            /\ UNCHANGED <<Here, saved, rebooting>>

RunStatus == Reads("status") /\ Prints(<<>>, "ok") /\ UNCHANGED <<Here, device>>

Chatter(line) ==
    /\ Room(1) /\ Cardinality({i \in DOMAIN output : output[i] \in Noise}) < MaxNoise
    /\ output' = Append(output, line)
    /\ UNCHANGED <<Here, commands, device>>

\* After a commit, at a power loss: the port drops, and the page notices.
Restarts ==
    /\ Settled
    /\ Close
    /\ commands' = <<>> /\ output' = <<>>
    /\ staged' = saved /\ rebooting' = FALSE
    /\ UNCHANGED saved

Run == RunGetp \/ RunSet \/ RunCommit \/ RunRevert \/ RunReset \/ RunStatus

Console == Run \/ Restarts \/ \E line \in Noise : Chatter(line)

Page == \/ Connect \/ Reload \/ (\E op \in {"revert", "reset"} : Change(op))
        \/ Ask \/ Commit \/ Disconnect
        \/ Arrive \/ Collect \/ TimeOut

ConsoleNext == Page \/ Console

ConsoleSpec == ConsoleInit /\ [][ConsoleNext]_consoleVars

-----------------------------------------------------------------------------
Cmds == [op : {"getp", "commit", "revert", "reset", "status"}]
        \cup [op : {"set"}, field : Fields, value : Values]

ConsoleTypeOK ==
    /\ flow \in {"closed", "loading", "stuck", "ready", "reloading", "changing",
                 "refreshing", "asking", "setting", "committing", "committed"}
    /\ call = NoCall \/ call.cmd \in Cmds
    /\ Len(queue) <= MaxQueued /\ Len(output) <= MaxLines
    /\ \A i \in DOMAIN commands : commands[i].cmd \in Cmds
    /\ recorded \in Shown /\ vals \in Shown /\ todo \subseteq Fields
    /\ staged \in Configs /\ saved \in Configs
    /\ rebooting \in BOOLEAN /\ trusted \in BOOLEAN

\* A command sent when no earlier answer was still on its way is answered by
\* its own terminator, also after an earlier one timed out and was answered
\* between the two (console.js:133-178).
AnsweredOwn ==
    [][ Answered /\ call.clean /\ call' # call => Head(queue).awaited ]_consoleVars

\* While no answer was in doubt, the page's record of what the device has
\* staged is right whenever it is at rest: after fields that landed and one
\* that did not, a commit that failed, a revert or reset and its refresh
\* (console.js:721-739, 770-789).
OriginalIsStaged == trusted /\ flow = "ready" => recorded = staged

\* "committed" is shown for the values of the form, all of them saved
\* (console.js:728-742).
CommitReported == trusted /\ flow = "committed" => saved = vals
=============================================================================
