------------------------ MODULE ConsoleClient_proofs ------------------------
(***************************************************************************)
(* The configuration page, for any fields and values and any number of     *)
(* lines on their way.  One inductive invariant: what each line under way  *)
(* says, of a call that began with nothing under way, is true.             *)
(***************************************************************************)
EXTENDS ConsoleClient, TLAPS

Lines == [kind : {"ok", "err", "echo", "log", "plain"}, awaited : BOOLEAN]
         \cup [kind : {"data"}, awaited : BOOLEAN, rec : Configs]
Sents == [cmd : Cmds, awaited : BOOLEAN]
Calls == [cmd : Cmds \cup {Cmd("none")}, echoed : BOOLEAN, clean : BOOLEAN,
          text : Seq(Configs), before : BOOLEAN, after : BOOLEAN]

Types ==
    /\ flow \in {"closed", "loading", "stuck", "ready", "reloading", "changing",
                 "refreshing", "asking", "setting", "committing", "committed"}
    /\ call \in Calls
    /\ queue \in Seq(Lines) /\ output \in Seq(Lines) /\ commands \in Seq(Sents)
    /\ Len(queue) <= MaxQueued /\ Len(output) <= MaxLines
    /\ recorded \in Shown /\ vals \in Shown /\ todo \subseteq Fields
    /\ staged \in Configs /\ saved \in Configs
    /\ rebooting \in BOOLEAN /\ trusted \in BOOLEAN

\* The call is the one that what the page is doing asks for.
Matches ==
    /\ flow \in {"closed", "stuck", "ready", "committed"} => call = NoCall
    /\ Refreshes => call.cmd = Get
    /\ flow = "asking" => call.cmd = Cmd("status")
    /\ flow = "changing" => call.cmd \in {Cmd("revert"), Cmd("reset")}
    /\ flow = "setting" => \E f \in todo : call.cmd = Set(f, vals[f])
    /\ flow = "committing" => call.cmd = Cmd("commit") /\ todo = {}

\* What is left to SET is what differs from the record, and valid as text.
Remaining ==
    /\ \A f \in todo : vals[f] \in Values
    /\ flow \in {"setting", "committing", "committed"} =>
          \A f \in Fields \ todo : recorded[f] = vals[f]
    /\ flow = "committed" => todo = {}

Silent(sent) == \A i \in DOMAIN sent : sent[i].kind \in {"echo", "log", "plain"}

Meant(line) ==
    /\ line.kind \in {"ok", "err"} => line.awaited
    /\ line.kind = "data" /\ Refreshes => line.rec = staged
    /\ line.kind = "err" /\ trusted /\ flow \in {"setting", "changing"} => staged = recorded
    /\ line.kind = "ok" /\ trusted /\ flow = "setting" =>
          staged = [recorded EXCEPT ![call.cmd.field] = call.cmd.value]
    /\ line.kind = "ok" /\ flow = "committing" => saved = staged

\* A call that began with nothing under way: its command has not been read,
\* or has and every line speaks of it.
Waiting ==
    /\ commands = <<[cmd |-> call.cmd, awaited |-> TRUE]>>
    /\ Silent(queue) /\ Silent(output) /\ call.text = <<>>
    /\ trusted /\ flow \in {"setting", "changing"} => staged = recorded
Done ==
    /\ commands = <<>>
    /\ \A i \in DOMAIN queue : Meant(queue[i])
    /\ \A i \in DOMAIN output : Meant(output[i])
    /\ Refreshes => \A i \in DOMAIN call.text : call.text[i] = staged
Own == call.clean => Waiting \/ Done

Harmless(sent) == \A i \in DOMAIN sent : sent[i].cmd.op \in {"status", "commit", "getp"}

\* Without doubt: the record is right except while it is being changed, and
\* nothing that could change the staged record is under way.
Calm ==
    /\ trusted /\ flow \in {"ready", "asking", "committing", "committed", "reloading"} =>
          recorded = staged
    /\ trusted /\ flow \notin {"setting", "changing"} => Harmless(commands)
    /\ trusted /\ flow = "committed" => saved = staged
    /\ flow = "closed" => ~trusted

PageInv == Types /\ Matches /\ Remaining /\ Own /\ Calm

-----------------------------------------------------------------------------
(***************************************************************************)
(* Commands and lines.                                                     *)
(***************************************************************************)
LEMMA CmdTypes ==
    /\ \A op \in {"getp", "commit", "revert", "reset", "status"} :
          Cmd(op) \in Cmds /\ Cmd(op).op = op
    /\ \A f \in Fields, v \in Values :
          /\ Set(f, v) \in Cmds /\ Set(f, v).op = "set"
          /\ Set(f, v).field = f /\ Set(f, v).value = v
    /\ Cmd("none").op = "none" /\ \A c \in Cmds : c.op # "none"
    /\ Get = Cmd("getp")
BY DEF Cmd, Set, Cmds, Get

LEMMA LineTypes ==
    /\ \A k \in {"ok", "err", "echo", "log", "plain"}, a \in BOOLEAN :
          Line(k, a) \in Lines /\ Line(k, a).kind = k /\ Line(k, a).awaited = a
    /\ \A a \in BOOLEAN, r \in Configs : [kind |-> "data", awaited |-> a, rec |-> r] \in Lines
    /\ \A x \in Noise : x \in Lines /\ x.kind \in {"log", "plain"}
    /\ Plain \in Noise /\ Plain.kind = "plain"
    /\ \A x \in Lines : x.kind = "data" => x.rec \in Configs
BY DEF Line, Lines, Noise, Log, Plain

LEMMA NoCallTypes ==
    /\ NoCall \in Calls /\ NoCall.clean = FALSE /\ NoCall.cmd = Cmd("none")
    /\ NoCall.text = <<>>
BY DEF NoCall, Calls

LEMMA BlankTypes == Blank \in Shown /\ Configs \subseteq Shown /\ Factory \in Configs
BY ValueAssumption DEF Blank, Shown, Configs

LEMMA OrphanLines ==
    ASSUME NEW s \in Seq(Lines)
    PROVE Orphan(s) \in Seq(Lines) /\ Len(Orphan(s)) = Len(s)
<1>1. \A x \in Lines : [x EXCEPT !.awaited = FALSE] \in Lines
  BY DEF Lines
<1>2. DOMAIN s = 1 .. Len(s) /\ Len(s) \in Nat /\ \A i \in 1 .. Len(s) : s[i] \in Lines
  OBVIOUS
<1>3. Orphan(s) = [i \in 1 .. Len(s) |-> [s[i] EXCEPT !.awaited = FALSE]]
  BY <1>2 DEF Orphan
<1> QED BY <1>1, <1>2, <1>3

LEMMA OrphanSents ==
    ASSUME NEW s \in Seq(Sents)
    PROVE /\ Orphan(s) \in Seq(Sents) /\ Len(Orphan(s)) = Len(s)
          /\ DOMAIN Orphan(s) = DOMAIN s
          /\ \A i \in DOMAIN s : Orphan(s)[i].cmd = s[i].cmd
          /\ s = <<>> => Orphan(s) = <<>>
          /\ Harmless(s) => Harmless(Orphan(s))
<1>1. \A x \in Sents : [x EXCEPT !.awaited = FALSE] \in Sents
                       /\ [x EXCEPT !.awaited = FALSE].cmd = x.cmd
  BY DEF Sents
<1>2. DOMAIN s = 1 .. Len(s) /\ Len(s) \in Nat /\ \A i \in 1 .. Len(s) : s[i] \in Sents
  OBVIOUS
<1>3. Orphan(s) = [i \in 1 .. Len(s) |-> [s[i] EXCEPT !.awaited = FALSE]]
  BY <1>2 DEF Orphan
<1>4. /\ Orphan(s) \in Seq(Sents) /\ Len(Orphan(s)) = Len(s) /\ DOMAIN Orphan(s) = DOMAIN s
      /\ \A i \in DOMAIN s : Orphan(s)[i].cmd = s[i].cmd
  <2>1. Orphan(s) \in Seq(Sents)
    BY <1>1, <1>2, <1>3
  <2>2. DOMAIN Orphan(s) = 1 .. Len(s)
    BY <1>3
  <2>3. Len(Orphan(s)) = Len(s)
    BY <1>2, <2>1, <2>2
  <2>4. \A i \in 1 .. Len(s) : Orphan(s)[i] = [s[i] EXCEPT !.awaited = FALSE]
    BY <1>3
  <2> QED BY <1>1, <1>2, <2>1, <2>2, <2>3, <2>4
<1>5. s = <<>> => Orphan(s) = <<>>
  BY <1>4
<1>6. Harmless(s) => Harmless(Orphan(s))
  BY <1>4 DEF Harmless
<1> QED BY <1>4, <1>5, <1>6

LEMMA TornIs ==
    ASSUME NEW s \in Seq(Lines), NEW t \in Torn(s)
    PROVE /\ t \in Seq(Lines) /\ Len(t) = Len(s)
          /\ (\A i \in DOMAIN s : s[i] \in Noise) => Silent(t)
<1>1. CASE t = s
  BY <1>1, LineTypes DEF Silent
<1>2. CASE s # <<>> /\ t = <<Plain>> \o Tail(s)
  <2>1. /\ t \in Seq(Lines) /\ Len(t) = Len(s) /\ t[1] = Plain
        /\ \A i \in DOMAIN t : i = 1 \/ (i \in DOMAIN s /\ t[i] = s[i])
    BY <1>2, LineTypes
  <2> QED BY <2>1, LineTypes DEF Silent
<1> QED BY <1>1, <1>2 DEF Torn

LEMMA AppendIs ==
    ASSUME NEW S, NEW s \in Seq(S), NEW e \in S
    PROVE /\ Append(s, e) \in Seq(S) /\ Len(Append(s, e)) = Len(s) + 1
          /\ s = <<>> => Append(s, e) = <<e>>
          /\ \A i \in DOMAIN Append(s, e) :
                (i \in DOMAIN s /\ Append(s, e)[i] = s[i]) \/ Append(s, e)[i] = e
<1>1. Append(s, e) \in Seq(S) /\ Len(Append(s, e)) = Len(s) + 1 /\ Len(s) \in Nat
  OBVIOUS
<1>2. \A i \in 1 .. Len(s) : Append(s, e)[i] = s[i]
  OBVIOUS
<1>3. Append(s, e)[Len(s) + 1] = e
  OBVIOUS
<1>4. DOMAIN Append(s, e) = 1 .. Len(s) + 1 /\ DOMAIN s = 1 .. Len(s)
  BY <1>1
<1>5. \A i \in 1 .. Len(s) + 1 : i \in 1 .. Len(s) \/ i = Len(s) + 1
  BY <1>1
<1>6. s = <<>> => Append(s, e) = <<e>>
  OBVIOUS
<1> QED BY <1>1, <1>2, <1>3, <1>4, <1>5, <1>6

LEMMA AppendSents ==
    ASSUME NEW s \in Seq(Sents), NEW c \in Cmds
    PROVE /\ Append(s, [cmd |-> c, awaited |-> TRUE]) \in Seq(Sents)
          /\ s = <<>> => Append(s, [cmd |-> c, awaited |-> TRUE]) = <<[cmd |-> c, awaited |-> TRUE]>>
          /\ Harmless(s) /\ c.op \in {"status", "commit", "getp"} =>
                Harmless(Append(s, [cmd |-> c, awaited |-> TRUE]))
<1> DEFINE e == [cmd |-> c, awaited |-> TRUE]
<1>1. e \in Sents /\ e.cmd = c
  BY DEF Sents
<1> HIDE DEF e
<1>2. Append(s, e) \in Seq(Sents) /\ (s = <<>> => Append(s, e) = <<e>>)
  BY <1>1, AppendIs
<1>3. \A i \in DOMAIN Append(s, e) : (i \in DOMAIN s /\ Append(s, e)[i] = s[i]) \/ Append(s, e)[i] = e
  BY <1>1, AppendIs
<1>4. Harmless(s) /\ c.op \in {"status", "commit", "getp"} => Harmless(Append(s, e))
  BY <1>1, <1>3 DEF Harmless
<1> QED BY <1>2, <1>4 DEF e

\* What send() leaves behind.
LEMMA SendIs ==
    ASSUME Types, NEW c \in Cmds, NEW ls, Send(c, ls)
    PROVE /\ queue' = <<>> /\ queue' \in Seq(Lines) /\ Len(queue') <= MaxQueued
          /\ output' \in Seq(Lines) /\ Len(output') <= MaxLines
          /\ commands' \in Seq(Sents)
          /\ call' \in Calls /\ call'.cmd = c /\ call'.text = <<>>
          /\ call'.clean => /\ Silent(output') /\ commands = <<>>
                            /\ commands' = <<[cmd |-> c, awaited |-> TRUE]>>
          /\ Harmless(commands) /\ c.op \in {"status", "commit", "getp"} => Harmless(commands')
<1>1. queue' = <<>> /\ commands' = Append(commands, [cmd |-> c, awaited |-> TRUE])
      /\ call' = [NoCall EXCEPT !.cmd = c, !.clean = Clean] /\ output' \in Torn(output)
  BY DEF Send, Drain
<1>2. Clean \in BOOLEAN
  BY DEF Clean
<1>3. call' \in Calls /\ call'.cmd = c /\ call'.text = <<>> /\ call'.clean = Clean
  BY <1>1, <1>2, NoCallTypes DEF Calls
<1>4. output' \in Seq(Lines) /\ Len(output') <= MaxLines
  BY <1>1, TornIs DEF Types
<1>5. Clean => Silent(output') /\ commands = <<>>
  BY <1>1, TornIs DEF Clean, Types
<1>6. /\ commands' \in Seq(Sents)
      /\ commands = <<>> => commands' = <<[cmd |-> c, awaited |-> TRUE]>>
      /\ Harmless(commands) /\ c.op \in {"status", "commit", "getp"} => Harmless(commands')
  BY <1>1, AppendSents DEF Types
<1>7. queue' \in Seq(Lines) /\ Len(queue') <= MaxQueued
  BY <1>1, LineAssumption
<1> QED BY <1>1, <1>3, <1>4, <1>5, <1>6, <1>7

\* A call just sent waits for its command to be read.
LEMMA SendOwns ==
    ASSUME Types, NEW c \in Cmds, NEW ls, Send(c, ls),
           trusted' /\ flow' \in {"setting", "changing"} /\ commands = <<>> => staged' = recorded'
    PROVE Own'
BY SendIs DEF Own, Waiting, Silent

-----------------------------------------------------------------------------
(***************************************************************************)
(* The buttons.                                                            *)
(***************************************************************************)
\* A command whose answer the page awaits from now on.
LEMMA AskKeeps ==
    ASSUME PageInv, NEW c \in Cmds, Send(c, queue), call = NoCall,
           UNCHANGED <<recorded, vals, todo, device, trusted>>,
           \/ /\ flow = "closed" /\ flow' = "loading" /\ c = Get
           \/ /\ flow = "ready" /\ flow' = "reloading" /\ c = Get
           \/ /\ flow = "ready" /\ flow' = "changing" /\ c \in {Cmd("revert"), Cmd("reset")}
           \/ /\ flow = "ready" /\ flow' = "asking" /\ c = Cmd("status")
    PROVE PageInv'
<1> USE DEF PageInv
<1>1. UNCHANGED <<recorded, vals, todo, staged, saved, rebooting, trusted>>
  BY DEF device
<1>2. Types'
  BY <1>1, SendIs DEF Types
<1>3. Matches'
  BY SendIs DEF Matches, Refreshes
<1>4. Remaining'
  BY <1>1 DEF Remaining
<1>5. Own'
  BY <1>1, SendOwns DEF Calm
<1>6. Calm'
  BY <1>1, SendIs, CmdTypes DEF Calm
<1> QED BY <1>2, <1>3, <1>4, <1>5, <1>6

LEMMA ConnectKeeps == ASSUME PageInv, Connect PROVE PageInv'
BY AskKeeps, CmdTypes DEF Connect, Free

LEMMA ReloadKeeps == ASSUME PageInv, Reload PROVE PageInv'
BY AskKeeps, CmdTypes DEF Reload, Free

LEMMA ChangeKeeps == ASSUME PageInv, NEW op \in {"revert", "reset"}, Change(op) PROVE PageInv'
BY AskKeeps, CmdTypes DEF Change, Free

LEMMA AsksKeeps == ASSUME PageInv, Ask PROVE PageInv'
BY AskKeeps, CmdTypes DEF Ask, Free

\* The next field, or the commit: with nothing else under way, what was staged
\* is what was recorded.
LEMMA PushKeeps ==
    ASSUME PageInv, NEW left, NEW ls, Push(left, ls),
           left \subseteq Fields, \A f \in left : vals'[f] \in Values,
           recorded' \in Shown, vals' \in Shown, trusted' \in BOOLEAN,
           UNCHANGED device,
           \A f \in Fields \ left : recorded'[f] = vals'[f],
           trusted' /\ commands = <<>> => staged = recorded',
           trusted' /\ left = {} => Harmless(commands) /\ staged = recorded'
    PROVE PageInv'
<1> USE DEF PageInv
<1>1. UNCHANGED <<staged, saved, rebooting>> /\ todo' = left
  BY DEF device, Push
<1>2. PICK c \in Cmds :
        /\ Send(c, ls)
        /\ \/ left = {} /\ flow' = "committing" /\ c = Cmd("commit")
           \/ left # {} /\ flow' = "setting" /\ \E f \in left : c = Set(f, vals'[f])
  <2>1. CASE left = {}
    BY <2>1, CmdTypes DEF Push
  <2>2. CASE left # {}
    <3>1. flow' = "setting" /\ \E f \in left : Send(Set(f, vals'[f]), ls)
      BY <2>2 DEF Push
    <3>2. PICK f \in left : Send(Set(f, vals'[f]), ls)
      BY <3>1
    <3>3. Set(f, vals'[f]) \in Cmds
      BY CmdTypes
    <3> QED BY <2>2, <3>1, <3>2, <3>3
  <2> QED BY <2>1, <2>2
<1>3. Types'
  BY <1>1, <1>2, SendIs DEF Types
<1>4. Matches'
  BY <1>1, <1>2, SendIs DEF Matches, Refreshes
<1>5. Remaining'
  BY <1>1, <1>2 DEF Remaining
<1>6. Own'
  BY <1>1, <1>2, SendOwns
<1>7. Calm'
  BY <1>1, <1>2, SendIs, CmdTypes DEF Calm
<1> QED BY <1>3, <1>4, <1>5, <1>6, <1>7

LEMMA CommitKeeps == ASSUME PageInv, Commit PROVE PageInv'
<1> USE DEF PageInv
<1>1. flow = "ready" /\ UNCHANGED <<recorded, device, trusted>> /\ vals' \in Shown
      /\ \A f \in Fields : vals'[f] \in Values \cup {recorded[f]}
  BY DEF Commit
<1> DEFINE left == {f \in Fields : vals'[f] # recorded[f]}
<1>2. Push(left, queue)
  BY DEF Commit
<1>3. left \subseteq Fields /\ (\A f \in left : vals'[f] \in Values)
      /\ \A f \in Fields \ left : recorded[f] = vals'[f]
  BY <1>1
<1>4. trusted => recorded = staged /\ Harmless(commands)
  BY <1>1 DEF Calm
<1> HIDE DEF left
<1> QED BY <1>1, <1>2, <1>3, <1>4, PushKeeps DEF Types

LEMMA CloseKeeps ==
    ASSUME PageInv, Close, commands' \in Seq(Sents), output' \in Seq(Lines),
           Len(output') <= MaxLines, staged' \in Configs, saved' \in Configs, rebooting' \in BOOLEAN
    PROVE PageInv'
<1> USE DEF PageInv
<1>1. /\ flow' = "closed" /\ call' = NoCall /\ queue' = <<>>
      /\ recorded' = Blank /\ vals' = Blank /\ todo' = {} /\ trusted' = FALSE
  BY DEF Close
<1>2. Types'
  <2>1. queue' \in Seq(Lines) /\ Len(queue') <= MaxQueued
    BY <1>1, LineAssumption
  <2> QED BY <1>1, <2>1, BlankTypes, NoCallTypes DEF Types
<1>3. Matches'
  BY <1>1 DEF Matches, Refreshes
<1>4. Remaining'
  BY <1>1 DEF Remaining
<1>5. Own'
  BY <1>1, NoCallTypes DEF Own
<1>6. Calm'
  BY <1>1 DEF Calm
<1> QED BY <1>2, <1>3, <1>4, <1>5, <1>6

LEMMA NoLines == <<>> \in Seq(Lines) /\ Len(<<>>) = 0 /\ <<>> \in Seq(Sents) /\ 0 <= MaxLines
                 /\ 0 <= MaxQueued
BY LineAssumption

LEMMA DisconnectKeeps == ASSUME PageInv, Disconnect PROVE PageInv'
<1>1. commands' = Orphan(commands) /\ output' \in {Orphan(output), <<>>} /\ UNCHANGED device /\ Close
  BY DEF Disconnect
<1>2. commands' \in Seq(Sents)
  BY <1>1, OrphanSents DEF PageInv, Types
<1>3. output' \in Seq(Lines) /\ Len(output') <= MaxLines
  BY <1>1, OrphanLines, NoLines DEF PageInv, Types
<1> QED BY <1>1, <1>2, <1>3, CloseKeeps DEF PageInv, Types, device

LEMMA RestartsKeeps == ASSUME PageInv, Restarts PROVE PageInv'
BY CloseKeeps, NoLines DEF Restarts, PageInv, Types

-----------------------------------------------------------------------------
(***************************************************************************)
(* The collector.                                                          *)
(***************************************************************************)
LEMMA TailIs ==
    ASSUME NEW S, NEW s \in Seq(S), s # <<>>
    PROVE /\ Tail(s) \in Seq(S) /\ Len(Tail(s)) = Len(s) - 1 /\ Len(s) \in Nat \ {0}
          /\ Head(s) \in S /\ 1 \in DOMAIN s /\ Head(s) = s[1]
          /\ \A i \in DOMAIN Tail(s) : i + 1 \in DOMAIN s /\ Tail(s)[i] = s[i + 1]
OBVIOUS

LEMMA ArriveKeeps == ASSUME PageInv, Arrive PROVE PageInv'
<1> USE DEF PageInv
<1>1. output # <<>> /\ output' = Tail(output) /\ UNCHANGED <<page, commands, device>>
  BY DEF Arrive
<1>2. UNCHANGED <<flow, call, recorded, vals, todo, trusted, commands, staged, saved, rebooting>>
  BY <1>1 DEF page, device
<1>3. PICK kept \in Seq(Lines) :
        /\ queue' = Append(kept, Head(output)) /\ Len(kept) < MaxQueued
        /\ \A i \in DOMAIN kept : \E j \in DOMAIN queue : kept[i] = queue[j]
  <2>1. CASE Len(queue) < MaxQueued
    BY <2>1 DEF Arrive, Types
  <2>2. CASE ~(Len(queue) < MaxQueued)
    <3>1. queue # <<>> /\ queue \in Seq(Lines) /\ Len(queue) <= MaxQueued /\ MaxQueued \in Nat \ {0}
      BY <2>2, LineAssumption DEF Types
    <3>2. Tail(queue) \in Seq(Lines) /\ Len(Tail(queue)) < MaxQueued
      BY <3>1, TailIs
    <3>3. \A i \in DOMAIN Tail(queue) : \E j \in DOMAIN queue : Tail(queue)[i] = queue[j]
      BY <3>1, TailIs
    <3>4. queue' = Append(Tail(queue), Head(output))
      BY <2>2 DEF Arrive
    <3> QED BY <3>2, <3>3, <3>4
  <2> QED BY <2>1, <2>2
<1>4. Head(output) \in Lines /\ Tail(output) \in Seq(Lines) /\ Len(Tail(output)) <= MaxLines
  BY <1>1, TailIs, LineAssumption DEF Types
<1>5. queue' \in Seq(Lines) /\ Len(queue') <= MaxQueued
  BY <1>3, <1>4, AppendIs, LineAssumption
<1>6. Types'
  BY <1>1, <1>2, <1>4, <1>5 DEF Types
<1>7. Matches' /\ Remaining' /\ Calm'
  BY <1>2 DEF Matches, Refreshes, Remaining, Calm
<1>8. \A i \in DOMAIN queue' : (\E j \in DOMAIN queue : queue'[i] = queue[j]) \/ queue'[i] = Head(output)
  BY <1>3, <1>4, AppendIs
<1>9. \A i \in DOMAIN output' : \E j \in DOMAIN output : output'[i] = output[j]
  BY <1>1, TailIs DEF Types
<1>10. \E j \in DOMAIN output : Head(output) = output[j]
  BY <1>1, TailIs DEF Types
<1>11. ASSUME call.clean, Waiting PROVE Waiting'
  BY <1>2, <1>8, <1>9, <1>10, <1>11 DEF Waiting, Silent
<1>12. ASSUME call.clean, Done PROVE Done'
  BY <1>2, <1>8, <1>9, <1>10, <1>12 DEF Done, Meant, Refreshes
<1>13. Own'
  BY <1>2, <1>11, <1>12 DEF Own
<1> QED BY <1>6, <1>7, <1>13

LEMMA TookIs ==
    ASSUME NEW c \in Calls, NEW x \in Lines
    PROVE /\ Took(c, x) \in Calls /\ Took(c, x).cmd = c.cmd /\ Took(c, x).clean = c.clean
          /\ x.kind # "data" => Took(c, x).text = c.text
          /\ x.kind = "data" => Took(c, x).text \in {c.text, Append(c.text, x.rec)}
<1>1. CASE x = Log
  BY <1>1, LineTypes DEF Took, Log, Line
<1>2. CASE x # Log /\ x.kind = "echo" /\ x.awaited /\ ~c.echoed
  BY <1>2 DEF Took, Calls
<1>3. CASE x # Log /\ x.kind = "data"
  <2>1. x.rec \in Configs /\ c.text \in Seq(Configs)
    BY <1>3, LineTypes DEF Calls
  <2>2. (IF Len(c.text) < 2 THEN Append(c.text, x.rec) ELSE c.text) \in Seq(Configs)
    BY <2>1
  <2>3. Took(c, x) = [c EXCEPT !.text = IF Len(c.text) < 2 THEN Append(c.text, x.rec) ELSE c.text]
    BY <1>3 DEF Took
  <2> QED BY <1>3, <2>2, <2>3 DEF Calls
<1>4. CASE x # Log /\ ~(x.kind = "echo" /\ x.awaited /\ ~c.echoed) /\ x.kind # "data"
  BY <1>4 DEF Took, Calls
<1> QED BY <1>1, <1>2, <1>3, <1>4

LEMMA CollectMoreKeeps == ASSUME PageInv, CollectMore PROVE PageInv'
<1> USE DEF PageInv
<1>1. /\ call # NoCall /\ queue # <<>> /\ Head(queue).kind \notin {"ok", "err"}
      /\ queue' = Tail(queue) /\ call' = Took(call, Head(queue))
      /\ UNCHANGED <<flow, recorded, vals, todo, trusted, commands, output, staged, saved, rebooting>>
  BY DEF CollectMore, device
<1>2. /\ call \in Calls /\ Head(queue) \in Lines /\ Tail(queue) \in Seq(Lines)
      /\ Len(Tail(queue)) <= MaxQueued
      /\ \A i \in DOMAIN Tail(queue) : \E j \in DOMAIN queue : Tail(queue)[i] = queue[j]
      /\ \E j \in DOMAIN queue : Head(queue) = queue[j]
  BY <1>1, TailIs, LineAssumption DEF Types
<1>3. call' \in Calls /\ call'.cmd = call.cmd /\ call'.clean = call.clean
  BY <1>1, <1>2, TookIs
<1>4. Types'
  BY <1>1, <1>2, <1>3 DEF Types
<1>5. Matches'
  <2>1. flow \notin {"closed", "stuck", "ready", "committed"}
    BY <1>1 DEF Matches
  <2> QED BY <1>1, <1>3, <2>1 DEF Matches, Refreshes
<1>6. Remaining' /\ Calm'
  BY <1>1 DEF Remaining, Calm
<1>7. ASSUME Waiting PROVE Waiting'
  <2>1. Head(queue).kind # "data"
    BY <1>2, <1>7 DEF Waiting, Silent
  <2>2. call'.text = <<>>
    BY <1>1, <1>2, <1>7, <2>1, TookIs DEF Waiting
  <2> QED BY <1>1, <1>2, <1>3, <1>7, <2>2 DEF Waiting, Silent
<1>8. ASSUME Done PROVE Done'
  <2>1. Refreshes => \A i \in DOMAIN call'.text : call'.text[i] = staged
    <3> SUFFICES ASSUME Refreshes PROVE \A i \in DOMAIN call'.text : call'.text[i] = staged
      OBVIOUS
    <3>1. \A i \in DOMAIN call.text : call.text[i] = staged
      BY <1>8 DEF Done
    <3>2. CASE Head(queue).kind # "data"
      BY <1>1, <1>2, <3>1, <3>2, TookIs
    <3>3. CASE Head(queue).kind = "data"
      <4>1. Head(queue).rec = staged /\ Head(queue).rec \in Configs /\ call.text \in Seq(Configs)
        BY <1>2, <1>8, <3>3, LineTypes DEF Done, Meant, Calls
      <4>2. call'.text \in {call.text, Append(call.text, Head(queue).rec)}
        BY <1>1, <1>2, <3>3, TookIs
      <4> QED BY <3>1, <4>1, <4>2, AppendIs
    <3> QED BY <3>2, <3>3
  <2>2. (\A i \in DOMAIN queue : Meant(queue[i]))'
    BY <1>1, <1>2, <1>3, <1>8 DEF Done, Meant, Refreshes
  <2>3. (\A i \in DOMAIN output : Meant(output[i]))'
    BY <1>1, <1>3, <1>8 DEF Done, Meant, Refreshes
  <2> QED BY <1>1, <1>8, <2>1, <2>2, <2>3 DEF Done, Refreshes
<1>9. Own'
  BY <1>3, <1>7, <1>8 DEF Own
<1> QED BY <1>4, <1>5, <1>6, <1>9

\* A call that returns: what its answer says is true if nothing else was under
\* way.
LEMMA AnswerIs ==
    ASSUME PageInv, Answered
    PROVE /\ call # NoCall /\ queue # <<>> /\ Tail(queue) \in Seq(Lines)
          /\ Len(Tail(queue)) <= MaxQueued
          /\ call.clean => Done /\ commands = <<>> /\ Harmless(commands) /\ Meant(Head(queue))
<1> USE DEF PageInv
<1>1. call # NoCall /\ queue # <<>> /\ Head(queue).kind \in {"ok", "err"}
  BY DEF Answered, Returns
<1>2. Tail(queue) \in Seq(Lines) /\ Len(Tail(queue)) <= MaxQueued
      /\ \E i \in DOMAIN queue : Head(queue) = queue[i]
  BY <1>1, TailIs, LineAssumption DEF Types
<1>3. call.clean => ~Waiting
  BY <1>1, <1>2 DEF Waiting, Silent
<1>4. call.clean => Done
  BY <1>3 DEF Own
<1>5. Done => commands = <<>> /\ Harmless(commands) /\ Meant(Head(queue))
  BY <1>2 DEF Done, Harmless
<1> QED BY <1>1, <1>2, <1>4, <1>5

\* At rest again.
LEMMA RestsKeeps ==
    ASSUME PageInv, call' = NoCall, queue' \in Seq(Lines), Len(queue') <= MaxQueued,
           commands' = Orphan(commands), output' = Orphan(output), UNCHANGED device,
           flow' \in {"ready", "stuck", "committed"},
           recorded' \in Shown, vals' \in Shown, todo' \subseteq Fields, trusted' \in BOOLEAN,
           \A f \in todo' : vals'[f] \in Values,
           flow' = "committed" => /\ todo' = {} /\ \A f \in Fields : recorded'[f] = vals'[f]
                                  /\ trusted' => saved = staged,
           trusted' => Harmless(commands),
           trusted' /\ flow' # "stuck" => recorded' = staged
    PROVE PageInv'
<1> USE DEF PageInv
<1>1. UNCHANGED <<staged, saved, rebooting>>
  BY DEF device
<1>2. /\ commands' \in Seq(Sents)
      /\ Harmless(commands) => Harmless(commands')
      /\ output' \in Seq(Lines) /\ Len(output') <= MaxLines
  BY OrphanSents, OrphanLines DEF Types
<1>3. Types'
  BY <1>1, <1>2, NoCallTypes DEF Types
<1>4. Matches'
  BY DEF Matches, Refreshes
<1>5. Remaining'
  BY DEF Remaining
<1>6. Own'
  BY NoCallTypes DEF Own
<1>7. Calm'
  BY <1>1, <1>2 DEF Calm
<1> QED BY <1>3, <1>4, <1>5, <1>6, <1>7

LEMMA Ended ==
    ASSUME PageInv, Answered, End
    PROVE /\ call' = NoCall /\ queue' \in Seq(Lines) /\ Len(queue') <= MaxQueued
          /\ commands' = Orphan(commands) /\ output' = Orphan(output)
BY AnswerIs DEF End, lines

LEMMA ToldKeeps == ASSUME PageInv, Told PROVE PageInv'
<1>1. Answered /\ End /\ flow = "asking" /\ flow' = "ready" /\ trusted' = Sure
      /\ UNCHANGED <<recorded, vals, todo, device>>
  BY DEF Told
<1>2. trusted' \in BOOLEAN /\ (trusted' => trusted /\ call.clean)
  BY <1>1 DEF Sure, PageInv, Types, Calls
<1>3. trusted' => recorded = staged /\ Harmless(commands)
  BY <1>1, <1>2, AnswerIs DEF PageInv, Calm
<1> QED BY <1>1, <1>2, <1>3, Ended, RestsKeeps DEF PageInv, Types, Remaining

LEMMA SureIs ==
    ASSUME PageInv, trusted' = Sure
    PROVE trusted' \in BOOLEAN /\ (trusted' => trusted /\ call.clean)
BY DEF Sure, PageInv, Types, Calls

\* A record with nothing run into it is what was staged.
LEMMA ParsedIs ==
    ASSUME PageInv, Len(call.text) = 1
    PROVE /\ Parsed(call) \in Shown
          /\ call.clean /\ Done /\ Refreshes /\ ~call.before /\ ~call.after => Parsed(call) = staged
<1>1. call.text \in Seq(Configs) /\ call.before \in BOOLEAN /\ call.after \in BOOLEAN
  BY DEF PageInv, Types, Calls
<1>2. Head(call.text) \in Configs /\ Head(call.text) = call.text[1] /\ 1 \in DOMAIN call.text
  BY <1>1
<1>3. Parsed(call) \in Shown
  <2>1. \A f \in Fields : (IF (f = Head1 /\ call.before) \/ (f = Last1 /\ call.after)
                           THEN Garbled ELSE Head(call.text)[f]) \in Values \cup {Garbled}
    BY <1>2 DEF Configs
  <2> QED BY <2>1 DEF Parsed, Shown
<1>4. ASSUME Done, Refreshes, ~call.before, ~call.after PROVE Parsed(call) = staged
  <2>1. Head(call.text) = staged
    BY <1>2, <1>4 DEF Done
  <2>2. Parsed(call) = [f \in Fields |-> staged[f]]
    BY <1>4, <2>1 DEF Parsed
  <2>3. staged \in Configs
    BY DEF PageInv, Types
  <2> QED BY <2>2, <2>3 DEF Configs
<1> QED BY <1>3, <1>4

LEMMA RefreshFailsIs ==
    ASSUME PageInv, Refreshes, RefreshFails
    PROVE /\ flow' \in {"ready", "stuck"} /\ recorded' = recorded /\ trusted' \in BOOLEAN
          /\ trusted' => trusted /\ Harmless(commands)
          /\ trusted' /\ flow' # "stuck" => recorded = staged
<1>1. flow' = (IF flow = "loading" THEN "stuck" ELSE "ready") /\ recorded' = recorded
      /\ trusted' = (trusted /\ flow # "refreshing")
  BY DEF RefreshFails
<1>2. flow \in {"loading", "reloading", "refreshing"} /\ trusted \in BOOLEAN
  BY DEF Refreshes, PageInv, Types
<1>3. trusted' => trusted /\ Harmless(commands)
  BY <1>1, <1>2 DEF PageInv, Calm
<1>4. trusted' /\ flow' # "stuck" => recorded = staged
  BY <1>1, <1>2 DEF PageInv, Calm
<1> QED BY <1>1, <1>2, <1>3, <1>4

LEMMA RefreshReturnsKeeps == ASSUME PageInv, RefreshReturns PROVE PageInv'
<1>1. Refreshes /\ Answered /\ End /\ UNCHANGED <<vals, todo, device>>
  BY DEF RefreshReturns
<1>2. CASE Returns("ok") /\ Len(call.text) = 1
  <2>1. /\ recorded' = Parsed(call) /\ flow' = "ready"
        /\ trusted' = (call.clean /\ ~call.before /\ ~call.after)
    BY <1>2 DEF RefreshReturns
  <2>2. trusted' \in BOOLEAN
    BY <2>1 DEF PageInv, Types, Calls
  <2>3. recorded' \in Shown /\ (trusted' => recorded' = staged /\ Harmless(commands))
    BY <1>1, <1>2, <2>1, AnswerIs, ParsedIs
  <2> QED BY <1>1, <2>1, <2>2, <2>3, Ended, RestsKeeps DEF PageInv, Types, Remaining
<1>3. CASE ~(Returns("ok") /\ Len(call.text) = 1)
  <2>1. RefreshFails
    BY <1>3 DEF RefreshReturns
  <2> QED BY <1>1, <2>1, RefreshFailsIs, Ended, RestsKeeps DEF PageInv, Types, Remaining
<1> QED BY <1>2, <1>3

LEMMA SetReturnsKeeps == ASSUME PageInv, SetReturns PROVE PageInv'
<1>1. /\ flow = "setting" /\ Answered /\ Head(queue).kind = "ok"
      /\ recorded' = [recorded EXCEPT ![call.cmd.field] = call.cmd.value]
      /\ trusted' = Sure /\ UNCHANGED <<vals, device>>
      /\ Push(todo \ {call.cmd.field}, lines)
  BY DEF SetReturns, Answered, Returns
<1>2. PICK f \in todo : call.cmd = Set(f, vals[f])
  BY <1>1 DEF PageInv, Matches
<1>3. f \in Fields /\ vals[f] \in Values /\ recorded \in Shown
  BY <1>2 DEF PageInv, Types, Remaining
<1>4. call.cmd.field = f /\ call.cmd.value = vals[f]
  BY <1>2, <1>3, CmdTypes
<1>5. recorded' = [recorded EXCEPT ![f] = vals[f]] /\ recorded' \in Shown
  BY <1>1, <1>3, <1>4 DEF Shown
<1>6. \A g \in Fields \ (todo \ {f}) : recorded'[g] = vals'[g]
  BY <1>1, <1>3, <1>5 DEF PageInv, Remaining, Shown
<1>7. trusted' \in BOOLEAN /\ (trusted' => trusted /\ call.clean)
  BY <1>1, SureIs
<1>8. trusted' => staged = recorded' /\ Harmless(commands)
  BY <1>1, <1>7, AnswerIs DEF Meant
<1>9. Push(todo \ {f}, lines) /\ todo \ {f} \subseteq Fields
      /\ \A g \in todo \ {f} : vals'[g] \in Values
  BY <1>1, <1>4 DEF PageInv, Types, Remaining
<1> QED BY <1>1, <1>5, <1>6, <1>7, <1>8, <1>9, PushKeeps DEF PageInv, Types

LEMMA CommitReturnsKeeps == ASSUME PageInv, CommitReturns PROVE PageInv'
<1>1. /\ flow = "committing" /\ Answered /\ End /\ Head(queue).kind = "ok"
      /\ flow' = "committed" /\ trusted' = Sure /\ UNCHANGED <<recorded, vals, todo, device>>
  BY DEF CommitReturns, Answered, Returns
<1>2. trusted' \in BOOLEAN /\ (trusted' => trusted /\ call.clean)
  BY <1>1, SureIs
<1>3. trusted' => recorded = staged /\ Harmless(commands) /\ saved = staged
  BY <1>1, <1>2, AnswerIs DEF PageInv, Calm, Meant
<1>4. todo' = {} /\ \A f \in Fields : recorded'[f] = vals'[f]
  BY <1>1 DEF PageInv, Matches, Remaining
<1> QED BY <1>1, <1>2, <1>3, <1>4, Ended, RestsKeeps DEF PageInv, Types

LEMMA ChangeReturnsKeeps == ASSUME PageInv, ChangeReturns PROVE PageInv'
<1> USE DEF PageInv
<1>1. /\ flow = "changing" /\ Answered /\ flow' = "refreshing" /\ trusted' = Sure
      /\ Send(Get, lines) /\ UNCHANGED <<recorded, vals, todo, staged, saved, rebooting>>
  BY DEF ChangeReturns, Answered, device
<1>2. trusted' \in BOOLEAN /\ (trusted' => trusted /\ call.clean)
  BY <1>1, SureIs
<1>3. trusted' => Harmless(commands)
  BY <1>2, <1>1, AnswerIs
<1>4. Get \in Cmds /\ Get.op = "getp"
  BY CmdTypes
<1>5. Types'
  BY <1>1, <1>2, <1>4, SendIs DEF Types
<1>6. Matches'
  BY <1>1, <1>4, SendIs DEF Matches, Refreshes
<1>7. Remaining'
  BY <1>1 DEF Remaining
<1>8. Own'
  BY <1>1, <1>4, SendOwns
<1>9. Calm'
  BY <1>1, <1>3, <1>4, SendIs DEF Calm
<1> QED BY <1>5, <1>6, <1>7, <1>8, <1>9

LEMMA JobRejectedKeeps == ASSUME PageInv, JobRejected PROVE PageInv'
<1>1. /\ flow \in {"setting", "committing", "changing"} /\ Answered /\ End
      /\ Head(queue).kind = "err" /\ flow' = "ready" /\ vals' = Blank /\ todo' = {}
      /\ trusted' = Sure /\ UNCHANGED <<recorded, device>>
  BY DEF JobRejected, Answered, Returns
<1>2. trusted' \in BOOLEAN /\ (trusted' => trusted /\ call.clean)
  BY <1>1, SureIs
<1>3. trusted' => recorded = staged /\ Harmless(commands)
  BY <1>1, <1>2, AnswerIs DEF PageInv, Calm, Meant
<1> QED BY <1>1, <1>2, <1>3, Ended, BlankTypes, RestsKeeps DEF PageInv, Types

LEMMA TimeOutKeeps == ASSUME PageInv, TimeOut PROVE PageInv'
<1>1. /\ call' = NoCall /\ queue' = <<>>
      /\ commands' = Orphan(commands) /\ output' = Orphan(output) /\ UNCHANGED device
      /\ queue' \in Seq(Lines) /\ Len(queue') <= MaxQueued
  BY NoLines DEF TimeOut
<1>2. CASE Refreshes /\ RefreshFails /\ UNCHANGED <<vals, todo>>
  BY <1>1, <1>2, RefreshFailsIs, RestsKeeps DEF PageInv, Types, Remaining
<1>3. CASE /\ flow' = "ready" /\ vals' = Blank /\ todo' = {}
           /\ trusted' = (trusted /\ flow \in {"committing", "asking"})
           /\ UNCHANGED recorded
  <2>1. trusted' \in BOOLEAN /\ (trusted' => recorded = staged /\ Harmless(commands))
    BY <1>3 DEF PageInv, Types, Calm
  <2> QED BY <1>1, <1>3, <2>1, BlankTypes, RestsKeeps DEF PageInv, Types
<1> QED BY <1>2, <1>3 DEF TimeOut

-----------------------------------------------------------------------------
(***************************************************************************)
(* The device.                                                             *)
(***************************************************************************)
LEMMA ConcatIs ==
    ASSUME NEW S, NEW s \in Seq(S), NEW t \in Seq(S)
    PROVE /\ s \o t \in Seq(S) /\ Len(s \o t) = Len(s) + Len(t)
          /\ \A i \in DOMAIN (s \o t) : (\E j \in DOMAIN s : (s \o t)[i] = s[j])
                                        \/ (\E j \in DOMAIN t : (s \o t)[i] = t[j])
<1>1. Len(s) \in Nat /\ Len(t) \in Nat /\ DOMAIN s = 1 .. Len(s) /\ DOMAIN t = 1 .. Len(t)
  OBVIOUS
<1>2. s \o t \in Seq(S) /\ Len(s \o t) = Len(s) + Len(t)
  OBVIOUS
<1>3. DOMAIN (s \o t) = 1 .. Len(s) + Len(t)
  BY <1>2
<1>4. \A i \in 1 .. Len(s) : (s \o t)[i] = s[i]
  OBVIOUS
<1>5. ASSUME NEW i \in 1 .. Len(s) + Len(t), i > Len(s)
      PROVE i - Len(s) \in 1 .. Len(t) /\ (s \o t)[i] = t[i - Len(s)]
  BY <1>1, <1>5
<1> QED BY <1>1, <1>2, <1>3, <1>4, <1>5

\* What a command prints: its echo, or half of it, its payload and its end.
LEMMA PrintsIs ==
    ASSUME Types, commands # <<>>, NEW payload \in Seq(Lines), NEW kind \in {"ok", "err"},
           Prints(payload, kind)
    PROVE /\ commands' = Tail(commands) /\ commands' \in Seq(Sents)
          /\ output' \in Seq(Lines) /\ Len(output') <= MaxLines
          /\ \A i \in DOMAIN output' :
                \/ \E j \in DOMAIN output : output'[i] = output[j]
                \/ \E j \in DOMAIN payload : output'[i] = payload[j]
                \/ output'[i].kind \in {"echo", "plain"}
                \/ output'[i] = Line(kind, Head(commands).awaited)
<1> DEFINE a == Head(commands).awaited
<1>1. a \in BOOLEAN /\ Tail(commands) \in Seq(Sents)
  <2>1. Head(commands) \in Sents /\ Tail(commands) \in Seq(Sents)
    BY TailIs DEF Types
  <2> QED BY <2>1 DEF Sents
<1>2. /\ commands' = Tail(commands) /\ Len(output) + (2 + Len(payload)) <= MaxLines
      /\ \E e \in {Line("echo", a), Plain} : output' = output \o <<e>> \o payload \o <<Line(kind, a)>>
  BY DEF Prints, Room
<1> HIDE DEF a
<1>3. PICK e \in {Line("echo", a), Plain} : output' = output \o <<e>> \o payload \o <<Line(kind, a)>>
  BY <1>2
<1>4. e \in Lines /\ e.kind \in {"echo", "plain"} /\ Line(kind, a) \in Lines
  BY <1>1, LineTypes
<1>5. <<e>> \in Seq(Lines) /\ Len(<<e>>) = 1 /\ \A i \in DOMAIN <<e>> : <<e>>[i] = e
  BY <1>4
<1>6. /\ <<Line(kind, a)>> \in Seq(Lines) /\ Len(<<Line(kind, a)>>) = 1
      /\ \A i \in DOMAIN <<Line(kind, a)>> : <<Line(kind, a)>>[i] = Line(kind, a)
  BY <1>4
<1> DEFINE b == output \o <<e>>
<1>7. /\ b \in Seq(Lines) /\ Len(b) = Len(output) + 1
      /\ \A i \in DOMAIN b : (\E j \in DOMAIN output : b[i] = output[j]) \/ b[i] = e
  BY <1>5, ConcatIs DEF Types
<1> HIDE DEF b
<1> DEFINE d == b \o payload
<1>8. /\ d \in Seq(Lines) /\ Len(d) = Len(output) + 1 + Len(payload)
      /\ \A i \in DOMAIN d : (\E j \in DOMAIN output : d[i] = output[j]) \/ d[i] = e
                             \/ (\E j \in DOMAIN payload : d[i] = payload[j])
  <2>1. d \in Seq(Lines) /\ Len(d) = Len(b) + Len(payload)
    BY <1>7, ConcatIs
  <2>2. \A i \in DOMAIN d : (\E j \in DOMAIN b : d[i] = b[j]) \/ (\E j \in DOMAIN payload : d[i] = payload[j])
    BY <1>7, ConcatIs
  <2> HIDE DEF d
  <2> QED BY <1>7, <2>1, <2>2
<1> HIDE DEF d
<1>9. output' = d \o <<Line(kind, a)>>
  BY <1>3 DEF b, d
<1>10. output' \in Seq(Lines) /\ Len(output') = Len(output) + 1 + Len(payload) + 1
  <2>1. output' \in Seq(Lines) /\ Len(output') = Len(d) + Len(<<Line(kind, a)>>)
    BY <1>6, <1>8, <1>9, ConcatIs
  <2> QED BY <1>6, <1>8, <2>1
<1>11. \A i \in DOMAIN output' : (\E j \in DOMAIN d : output'[i] = d[j]) \/ output'[i] = Line(kind, a)
  BY <1>6, <1>8, <1>9, ConcatIs
<1>12. Len(output') <= MaxLines
  <2>1. Len(output) \in Nat /\ Len(payload) \in Nat /\ MaxLines \in Nat
    BY LineAssumption DEF Types
  <2> QED BY <1>2, <1>10, <2>1
<1>13. \A i \in DOMAIN output' :
                \/ \E j \in DOMAIN output : output'[i] = output[j]
                \/ \E j \in DOMAIN payload : output'[i] = payload[j]
                \/ output'[i].kind \in {"echo", "plain"}
                \/ output'[i] = Line(kind, a)
  BY <1>4, <1>8, <1>11
<1> QED BY <1>1, <1>2, <1>10, <1>12, <1>13 DEF a

\* A command is read, and what it prints is true of what it did.
LEMMA RunKeeps ==
    ASSUME PageInv, commands # <<>>, NEW payload \in Seq(Lines), NEW kind \in {"ok", "err"},
           Prints(payload, kind), UNCHANGED Here,
           staged' \in Configs, saved' \in Configs, rebooting' \in BOOLEAN,
           \A i \in DOMAIN payload : payload[i].kind = "data" /\ payload[i].rec = staged',
           call.clean /\ Waiting /\ commands[1].cmd = call.cmd => Meant(Line(kind, TRUE))',
           trusted /\ flow \notin {"setting", "changing"} =>
                staged' = staged /\ (saved = staged => saved' = staged)
    PROVE PageInv'
<1> USE DEF PageInv
<1>1. UNCHANGED <<flow, call, recorded, vals, todo, trusted, queue>>
  BY DEF Here, page
<1>2. /\ commands' = Tail(commands) /\ commands' \in Seq(Sents)
      /\ output' \in Seq(Lines) /\ Len(output') <= MaxLines
      /\ \A i \in DOMAIN output' :
                \/ \E j \in DOMAIN output : output'[i] = output[j]
                \/ \E j \in DOMAIN payload : output'[i] = payload[j]
                \/ output'[i].kind \in {"echo", "plain"}
                \/ output'[i] = Line(kind, Head(commands).awaited)
  BY PrintsIs
<1>3. Types'
  BY <1>1, <1>2 DEF Types
<1>4. Matches' /\ Remaining'
  BY <1>1 DEF Matches, Refreshes, Remaining
<1>5. Harmless(commands) => Harmless(commands')
  BY <1>2, TailIs DEF Types, Harmless
<1>6. Calm'
  BY <1>1, <1>5 DEF Calm
<1>7. Own'
  <2> SUFFICES ASSUME call.clean PROVE Done'
    BY <1>1 DEF Own
  <2>1. Waiting
    BY DEF Own, Done
  <2>2. commands = <<[cmd |-> call.cmd, awaited |-> TRUE]>>
    BY <2>1 DEF Waiting
  <2>3. commands' = <<>> /\ Head(commands).awaited = TRUE /\ commands[1].cmd = call.cmd
    BY <1>2, <2>2
  <2>4. Meant(Line(kind, TRUE))'
    BY <2>1, <2>3
  <2>5. (\A i \in DOMAIN queue : Meant(queue[i]))'
    BY <1>1, <2>1 DEF Waiting, Silent, Meant
  <2>6. (\A i \in DOMAIN output : Meant(output[i]))'
    <3> SUFFICES ASSUME NEW i \in DOMAIN output' PROVE Meant(output[i])'
      OBVIOUS
    <3>1. CASE \E j \in DOMAIN output : output'[i] = output[j]
      BY <2>1, <3>1 DEF Waiting, Silent, Meant
    <3>2. CASE \E j \in DOMAIN payload : output'[i] = payload[j]
      BY <3>2 DEF Meant
    <3>3. CASE output'[i].kind \in {"echo", "plain"}
      BY <3>3 DEF Meant
    <3>4. CASE output'[i] = Line(kind, Head(commands).awaited)
      <4>1. output'[i] = Line(kind, TRUE)
        BY <2>3, <3>4
      <4> QED BY <2>4, <4>1
    <3> QED BY <1>2, <3>1, <3>2, <3>3, <3>4
  <2>7. call'.text = <<>>
    BY <1>1, <2>1 DEF Waiting
  <2> QED BY <2>3, <2>5, <2>6, <2>7 DEF Done
<1> QED BY <1>3, <1>4, <1>6, <1>7

\* The command that is read, and the call it belongs to.
LEMMA ReadsIs ==
    ASSUME PageInv, NEW op, Reads(op)
    PROVE /\ commands # <<>> /\ Head(commands) = commands[1] /\ 1 \in DOMAIN commands
          /\ Head(commands).cmd \in Cmds /\ Head(commands).cmd.op = op
          /\ Head(commands).awaited \in BOOLEAN
          /\ trusted /\ flow \notin {"setting", "changing"} => op \in {"status", "commit", "getp"}
<1>1. commands # <<>> /\ Head(commands).cmd.op = op
  BY DEF Reads
<1>2. Head(commands) \in Sents /\ Head(commands) = commands[1] /\ 1 \in DOMAIN commands
  BY <1>1, TailIs DEF PageInv, Types
<1>3. Head(commands).cmd \in Cmds /\ Head(commands).awaited \in BOOLEAN
  BY <1>2 DEF Sents
<1>4. trusted /\ flow \notin {"setting", "changing"} => op \in {"status", "commit", "getp"}
  BY <1>1, <1>2 DEF PageInv, Calm, Harmless
<1> QED BY <1>1, <1>2, <1>3, <1>4

\* The operation of a call tells what the page is doing.
LEMMA OpTells ==
    ASSUME PageInv
    PROVE /\ call.cmd.op = "getp" => flow \notin {"setting", "changing", "committing"}
          /\ call.cmd.op = "set" => flow \notin {"changing", "committing"} /\ ~Refreshes
          /\ call.cmd.op = "commit" => flow \notin {"changing", "setting"} /\ ~Refreshes
          /\ call.cmd.op \in {"revert", "reset"} =>
                flow \notin {"setting", "committing"} /\ ~Refreshes
          /\ call.cmd.op = "status" => flow \notin {"setting", "changing", "committing"}
<1>1. \A f \in todo : Set(f, vals[f]).op = "set"
  BY CmdTypes DEF PageInv, Types, Remaining
<1> QED BY <1>1, CmdTypes DEF PageInv, Matches, Refreshes

LEMMA LineSays ==
    \A k \in {"ok", "err"} : /\ Line(k, TRUE).kind = k /\ Line(k, TRUE).awaited = TRUE
BY DEF Line

LEMMA NoPayload == <<>> \in Seq(Lines) /\ DOMAIN <<>> = {}
OBVIOUS

LEMMA RunGetpKeeps == ASSUME PageInv, RunGetp PROVE PageInv'
<1>1. Reads("getp") /\ UNCHANGED Here /\ UNCHANGED <<staged, saved, rebooting>>
  BY DEF RunGetp, device
<1> DEFINE p == <<[kind |-> "data", awaited |-> Head(commands).awaited, rec |-> staged]>>
<1>2. Prints(p, "ok")
  BY DEF RunGetp
<1>3. [kind |-> "data", awaited |-> Head(commands).awaited, rec |-> staged] \in Lines
  BY <1>1, ReadsIs, LineTypes DEF PageInv, Types
<1>4. p \in Seq(Lines) /\ \A i \in DOMAIN p : p[i].kind = "data" /\ p[i].rec = staged'
  BY <1>1, <1>3
<1>5. call.clean /\ Waiting /\ commands[1].cmd = call.cmd => Meant(Line("ok", TRUE))'
  BY <1>1, ReadsIs, OpTells, LineSays DEF Meant, Here, page
<1> HIDE DEF p
<1> QED BY <1>1, <1>2, <1>4, <1>5, ReadsIs, RunKeeps DEF PageInv, Types

LEMMA RunSetKeeps == ASSUME PageInv, RunSet PROVE PageInv'
<1> DEFINE c == Head(commands).cmd
<1>1. Reads("set") /\ UNCHANGED Here /\ UNCHANGED <<saved, rebooting>>
  BY DEF RunSet
<1>2. c \in Cmds /\ c.op = "set"
  BY <1>1, ReadsIs
<1>3. c.field \in Fields /\ c.value \in Values
  BY <1>2 DEF Cmds
<1>4. ~(trusted /\ flow \notin {"setting", "changing"})
  BY <1>1, ReadsIs
<1>5. CASE staged' = [staged EXCEPT ![c.field] = c.value] /\ Prints(<<>>, "ok")
  <2>1. staged' \in Configs
    BY <1>3, <1>5 DEF PageInv, Types, Configs
  <2>2. call.clean /\ Waiting /\ commands[1].cmd = call.cmd => Meant(Line("ok", TRUE))'
    BY <1>1, <1>2, <1>5, ReadsIs, OpTells, LineSays DEF Meant, Here, page, Waiting
  <2> QED BY <1>1, <1>4, <1>5, <2>1, <2>2, ReadsIs, NoPayload, RunKeeps DEF PageInv, Types
<1>6. CASE staged' = staged /\ Prints(<<>>, "err")
  <2>1. call.clean /\ Waiting /\ commands[1].cmd = call.cmd => Meant(Line("err", TRUE))'
    BY <1>1, <1>6, LineSays DEF Meant, Here, page, Waiting
  <2> QED BY <1>1, <1>4, <1>6, <2>1, ReadsIs, NoPayload, RunKeeps DEF PageInv, Types
<1> QED BY <1>5, <1>6 DEF RunSet

LEMMA RunCommitKeeps == ASSUME PageInv, RunCommit PROVE PageInv'
<1>1. Reads("commit") /\ UNCHANGED Here /\ UNCHANGED staged
  BY DEF RunCommit
<1>2. CASE saved' = staged /\ rebooting' = TRUE /\ Prints(<<>>, "ok")
  <2>1. call.clean /\ Waiting /\ commands[1].cmd = call.cmd => Meant(Line("ok", TRUE))'
    BY <1>1, <1>2, ReadsIs, OpTells, LineSays DEF Meant, Here, page, Refreshes
  <2> QED BY <1>1, <1>2, <2>1, ReadsIs, NoPayload, RunKeeps DEF PageInv, Types
<1>3. CASE UNCHANGED <<saved, rebooting>> /\ Prints(<<>>, "err")
  <2>1. call.clean /\ Waiting /\ commands[1].cmd = call.cmd => Meant(Line("err", TRUE))'
    BY <1>1, <1>3, ReadsIs, OpTells, LineSays DEF Meant, Here, page, Refreshes
  <2> QED BY <1>1, <1>3, <2>1, ReadsIs, NoPayload, RunKeeps DEF PageInv, Types
<1> QED BY <1>2, <1>3 DEF RunCommit

LEMMA RunChangeKeeps ==
    ASSUME PageInv, NEW op \in {"revert", "reset"}, Reads(op), NEW c \in Configs, staged' = c,
           Prints(<<>>, "ok"), UNCHANGED Here, UNCHANGED <<saved, rebooting>>
    PROVE PageInv'
<1>1. ~(trusted /\ flow \notin {"setting", "changing"})
  BY ReadsIs
<1>2. call.clean /\ Waiting /\ commands[1].cmd = call.cmd => Meant(Line("ok", TRUE))'
  BY ReadsIs, OpTells, LineSays DEF Meant, Here, page, Refreshes
<1> QED BY <1>1, <1>2, ReadsIs, NoPayload, RunKeeps DEF PageInv, Types

LEMMA RunRevertKeeps == ASSUME PageInv, RunRevert PROVE PageInv'
BY RunChangeKeeps DEF RunRevert, PageInv, Types

LEMMA RunResetKeeps == ASSUME PageInv, RunReset PROVE PageInv'
BY RunChangeKeeps, BlankTypes DEF RunReset, PageInv, Types

LEMMA RunStatusKeeps == ASSUME PageInv, RunStatus PROVE PageInv'
<1>1. Reads("status") /\ Prints(<<>>, "ok") /\ UNCHANGED Here /\ UNCHANGED <<staged, saved, rebooting>>
  BY DEF RunStatus, device
<1>2. call.clean /\ Waiting /\ commands[1].cmd = call.cmd => Meant(Line("ok", TRUE))'
  BY <1>1, ReadsIs, OpTells, LineSays DEF Meant, Here, page, Refreshes
<1> QED BY <1>1, <1>2, ReadsIs, NoPayload, RunKeeps DEF PageInv, Types

LEMMA ChatterKeeps == ASSUME PageInv, NEW line \in Noise, Chatter(line) PROVE PageInv'
<1> USE DEF PageInv
<1>1. /\ output' = Append(output, line) /\ Len(output) + 1 <= MaxLines
      /\ UNCHANGED <<flow, call, recorded, vals, todo, trusted, queue, commands,
                     staged, saved, rebooting>>
  BY DEF Chatter, Room, Here, page, device
<1>2. line \in Lines /\ line.kind \in {"log", "plain"}
  BY LineTypes
<1>3. output' \in Seq(Lines) /\ Len(output') <= MaxLines
      /\ \A i \in DOMAIN output' : (\E j \in DOMAIN output : output'[i] = output[j]) \/ output'[i] = line
  BY <1>1, <1>2, AppendIs DEF Types
<1>4. Types'
  BY <1>1, <1>3 DEF Types
<1>5. Matches' /\ Remaining' /\ Calm'
  BY <1>1 DEF Matches, Refreshes, Remaining, Calm
<1>6. ASSUME Waiting PROVE Waiting'
  BY <1>1, <1>2, <1>3, <1>6 DEF Waiting, Silent
<1>7. ASSUME Done PROVE Done'
  BY <1>1, <1>2, <1>3, <1>7 DEF Done, Meant, Refreshes
<1>8. Own'
  BY <1>1, <1>6, <1>7 DEF Own
<1> QED BY <1>4, <1>5, <1>8

-----------------------------------------------------------------------------
LEMMA Starts == ConsoleInit => PageInv
<1> SUFFICES ASSUME ConsoleInit PROVE PageInv
  OBVIOUS
<1> USE DEF ConsoleInit
<1>1. Types
  BY NoLines, BlankTypes, NoCallTypes DEF Types
<1>2. Matches /\ Remaining
  BY DEF Matches, Refreshes, Remaining
<1>3. Own /\ Calm
  BY NoCallTypes DEF Own, Calm
<1> QED BY <1>1, <1>2, <1>3 DEF PageInv

LEMMA PageKeeps == ASSUME PageInv, Page PROVE PageInv'
BY ConnectKeeps, ReloadKeeps, ChangeKeeps, AsksKeeps, CommitKeeps, DisconnectKeeps,
   ArriveKeeps, CollectMoreKeeps, ToldKeeps, RefreshReturnsKeeps, SetReturnsKeeps,
   CommitReturnsKeeps, ChangeReturnsKeeps, JobRejectedKeeps, TimeOutKeeps
   DEF Page, Collect

LEMMA RunsKeep == ASSUME PageInv, Run PROVE PageInv'
BY RunGetpKeeps, RunSetKeeps, RunCommitKeeps, RunRevertKeeps, RunResetKeeps, RunStatusKeeps
   DEF Run

LEMMA StutterKeeps == ASSUME PageInv, UNCHANGED consoleVars PROVE PageInv'
<1> USE DEF PageInv, consoleVars
<1>1. Types' /\ Matches' /\ Remaining'
  BY DEF Types, Matches, Refreshes, Remaining
<1>2. Own'
  BY DEF Own, Waiting, Done, Silent, Meant, Refreshes
<1>3. Calm'
  BY DEF Calm, Harmless
<1> QED BY <1>1, <1>2, <1>3

LEMMA PageAlways == ConsoleSpec => []PageInv
<1>1. PageInv /\ [ConsoleNext]_consoleVars => PageInv'
  BY PageKeeps, RunsKeep, RestartsKeeps, ChatterKeeps, StutterKeeps DEF ConsoleNext, Console
<1> QED BY Starts, <1>1, PTL DEF ConsoleSpec

LEMMA PageIsTyped == PageInv => ConsoleTypeOK
<1> SUFFICES ASSUME PageInv PROVE ConsoleTypeOK
  OBVIOUS
<1>1. call = NoCall \/ call.cmd \in Cmds
  <2>1. flow \notin {"closed", "stuck", "ready", "committed"} => call.cmd # Cmd("none")
    <3>1. \A f \in todo : Set(f, vals[f]) \in Cmds
      BY CmdTypes DEF PageInv, Types, Remaining
    <3> QED BY <3>1, CmdTypes DEF PageInv, Types, Matches, Refreshes
  <2>2. call.cmd \in Cmds \cup {Cmd("none")}
    BY DEF PageInv, Types, Calls
  <2> QED BY <2>1, <2>2 DEF PageInv, Matches
<1>2. ASSUME NEW i \in DOMAIN commands PROVE commands[i].cmd \in Cmds
  <2>1. commands \in Seq(Sents)
    BY DEF PageInv, Types
  <2>2. commands[i] \in Sents
    BY <2>1
  <2> QED BY <2>2 DEF Sents
<1> QED BY <1>1, <1>2 DEF PageInv, Types, ConsoleTypeOK

\* The page's and the device's variables keep their types, and the queue of
\* lines its bound (console.js:117-131).
THEOREM ConsoleTypeCorrect == ConsoleSpec => []ConsoleTypeOK
BY PageAlways, PageIsTyped, PTL

LEMMA RecordIsRight == PageInv => OriginalIsStaged
BY DEF PageInv, Calm, OriginalIsStaged

\* Unless the page had reason to doubt, originalCfg is what the device has
\* staged whenever the page is at rest, whatever was pushed, rejected or timed
\* out before (console.js:721-739, 770-789).
THEOREM OriginalAlwaysStaged == ConsoleSpec => []OriginalIsStaged
BY PageAlways, RecordIsRight, PTL

LEMMA ReportIsRight == PageInv => CommitReported
<1> SUFFICES ASSUME PageInv, trusted, flow = "committed" PROVE saved = vals
  BY DEF CommitReported
<1>1. recorded \in [Fields -> Values \cup {Garbled}] /\ vals \in [Fields -> Values \cup {Garbled}]
  BY DEF PageInv, Types, Shown
<1>2. \A f \in Fields : recorded[f] = vals[f]
  BY DEF PageInv, Remaining
<1>3. recorded = vals
  BY <1>1, <1>2
<1> QED BY <1>3 DEF PageInv, Calm

\* "Committed" is shown only when the values of the form, all of them, are the
\* ones saved (console.js:728-742).
THEOREM CommitAlwaysReported == ConsoleSpec => []CommitReported
BY PageAlways, ReportIsRight, PTL

LEMMA OwnAnswers == PageInv => (Answered /\ call.clean => Head(queue).awaited)
<1> SUFFICES ASSUME PageInv, Answered, call.clean PROVE Head(queue).awaited
  OBVIOUS
<1>1. Head(queue).kind \in {"ok", "err"} /\ Meant(Head(queue))
  BY AnswerIs DEF Answered, Returns
<1> QED BY <1>1 DEF Meant

\* A call that began with nothing of an earlier one under way ends with the
\* terminator of its own answer (console.js:133-178).
THEOREM AnsweredAlwaysOwn == ConsoleSpec => AnsweredOwn
<1>1. PageInv /\ [ConsoleNext]_consoleVars =>
         [Answered /\ call.clean /\ call' # call => Head(queue).awaited]_consoleVars
  BY OwnAnswers
<1> QED BY <1>1, PageAlways, PTL DEF ConsoleSpec, AnsweredOwn
=============================================================================
