# A verification project for reticulum-lora-repeater

TLA+ models of the firmware in `src/src`, the TLC configurations that check
them, and TLAPS proofs of what matters most. File and line references are to
this repository.

## The system

The firmware turns an nRF52840 with an SX1262 into a Reticulum repeater. One
cooperative loop (`main.cpp:160`) runs every subsystem; Bluefruit's callback
task, of higher priority, runs the GATT handlers; the radio interrupt only sets
a flag.

| Component | State | Operations | Talks to |
|---|---|---|---|
| Configuration store (`Config.cpp`) | `/config.bin`, `/config.new`, `g_config` | load, migrate, default, save, set_field | flash; both consoles |
| Serial console (`SerialConsole.cpp`) | staging record, line buffer | CONFIG SET/GET/RESET/REVERT/COMMIT, CALIBRATE, REBOOT, DFU, ANNOUNCE | config store, senders |
| BLE service (`Ble.cpp`) | connection, secured, last activity | CONFIG, COMMIT and COMMAND characteristics, idle timeout | staging record (from another task); pauses the loop's radio work |
| Radio driver (`Radio.cpp`) | online, TX gate, buffered first half, rx flag | begin, start_rx, transmit, read_pending, chip recovery | SX1262 |
| LoRa interface (`Transport.cpp`) | packet counters | send_outgoing, tick | Reticulum, radio |
| LXMF inbox (`LxmfInbox.cpp`) | ring of message ids, sender slots, reply queue, links | Reticulum callbacks, tick | Reticulum, LXMF sender |
| LXMF command (`LxmfCommand.cpp`), message packing (`Msgpack.cpp`) | none | unpack, match, format; encode, decode | inbox, sender |
| LXMF sender (`Lxmf.cpp`) | learned clock | pack, send | Reticulum |
| Periodic senders (`Telemetry.cpp`, `LxmfPresence.cpp`, `Led.cpp`) | millis() stamps | tick, send now | LXMF sender |
| Web flasher (`docs/dfu.js`, `docs/flasher.js`, `docs/console.js`) | pending request, sequence number | DFU over HCI/SLIP; console over serial or BLE | bootloader, consoles |
| Build scripts (`scripts/pre_build.py`) | none | patch the library | library source |

What is hard in it: power can fail between any two flash operations; two tasks
share the staging record and a scratch file; frames are lost, garbled and
interleaved, and a half packet waits against a deadline; messages are retried
while their replies are held back; links come and go in any order; a BLE session
stops everything else for as long as it lasts. `PROJECT.json` lists each of these
hazards at its line, with the properties that cover it.

What makes each component correct:

* configuration store: what was acknowledged survives any failure, nothing half
  written is ever run, and nothing but the operator opens the TX gate;
* radio and LoRa interface: packets arrive whole, at most once, and counters tell
  the truth; `transmit()` returns; an orphan half goes away;
* LXMF inbox: one answer a message, replies and links within their bounds, every
  queued reply and idle link let go in the end;
* BLE: a session pauses the repeater for a bounded time, and only a secured peer
  changes anything;
* periodic senders: no interval is skipped or doubled at boot or when millis()
  wraps;
* web flasher: a response is matched to its own request, a failed flash leaves
  the bootloader able to start again.

## Modules

| Module | Models | Configurations |
|---|---|---|
| `AtomicConfig` | abstract: one configuration, replaced atomically | |
| `ConfigStore` | the configuration store, the two consoles' use of it, the boot order it needs | `MCConfigStore`, `MCTwoConsoles`, `MCMigration` |
| `ConfigStore_proofs` | proofs about `ConfigStore` | |
| `PacketLink` | abstract: packets arrive whole and at most once, or not at all | |
| `SplitLink` | radio driver and LoRa interface on several nodes, over a lossy medium | |
| `SplitLink_proofs` | proofs about `SplitLink`: that it implements `PacketLink`, and joins halves read in a row | |
| `MCSplitLink` | instances of it | `MCSplitLink`, `MCLinkLive`, `MCRxOnly`, `MCLongFrames` |
| `AnswerDesk` | abstract: every message answered, given up or refused, once and for a reason | |
| `LxmfInbox` | the LXMF inbox and the senders, links and mesh around it | |
| `LxmfInbox_proofs` | proofs about `LxmfInbox` and `LxmfTraffic`, and that the inbox implements `AnswerDesk` | |
| `LxmfWire` | MessagePack, LXMF messages, commands, telemetry and announces, byte for byte | |
| `LxmfWireCases` | inputs at the boundaries of the encodings, and what writer and reader promise each other | |
| `LxmfWire_proofs` | proofs about these two and `LxmfSkip`, for all numbers, texts, messages and bytes | |
| `LxmfSkip` | passing over a value unread, the measure of what the node writes | |
| `LxmfTraffic` | the inbox together with the bytes its messages are made of | |
| `MCLxmfInbox` | instances of the inbox, with the messages it is given and sends | `MCLxmfInbox`, `MCInboxLinks`, `MCInboxReplies` |
| `RepeaterLoop` | the main loop over a wrapping `millis()`, the periodic senders, and the BLE session that pauses the radio | `MCRepeaterLoop` |
| `RepeaterLoop_proofs`, `RepeaterSession_proofs` | proofs about `RepeaterLoop` | |
| `ConsoleClient` | the configuration page and the console it talks to | |
| `ConsoleClient_proofs` | proofs about `ConsoleClient` | |
| `DfuHost` | the web flasher and the bootloader it talks to | |
| `WebTools` | the two pages at one board | `MCWebTools` |
| `WebTools_proofs` | proofs about `DfuHost`; `WebTools` implements it, and keeps what the page promises | |

In each module the operators marked "Mutant" are altered copies of the operator
that follows them, each the way a plausible bug would alter it. They are not part
of the specification; every property is known to fail when one of them takes the
original's place.

### ConfigStore

`bin` and `new` are the two files: absent, torn, or a record of schema 1 to 3 with
a correct CRC. A configuration keeps the fields its readers tell apart: whether
the version is set, the radio settings, the battery multiplier and the TX and
Bluetooth flags. `live` is `g_config`, `staging` the console's `s_staging`.

`load()` is `Reconcile` (the scratch file), then `LoadRecord` or `LoadDefaults`,
then, for an old record, the three steps of `write_file()` in place
(`MigrateUnlink`, `MigrateOpen`, `MigrateWrite`). `save()` runs per task, one
action per file operation: `Commit` validates and takes the local copy,
`SaveUnlink`, `SaveOpen` and `SaveWrite` are `write_file()` on the scratch file
(microStore unlinks before it opens, as `Config.cpp:376-384` explains),
`SaveVerify` reads it back, `SaveRename` replaces the live record, `SaveCleanup`
is every failure path. `Acknowledge` is the console's "committed, rebooting...";
`SystemReset` the reset after it, REBOOT and DFU. `PowerLoss` happens anywhere.
Reconciling is one step although it is an existence test and one file operation:
nothing else runs then, and power lost between them changes nothing.

Tasks: the loop and the Bluefruit callback task. The callback task has the higher
priority and the file system a mutex, so the loop takes no step of its own while
the callback task is inside `save()` (`Runs`); the callback may preempt the loop
between any two of its file operations. BLE handlers run from `ble::init()` on,
before the console has copied the live record into the staging record.

History variables: `since` holds what the flash may legitimately hold (the last
acknowledged record and those offered since; "no configuration" from the moment
a migration unlinks the record), `optedIn` that a TX-enabled record was found or
committed, `before` what a commit started from.

Runs: `config_store` assumes one console at a time and lets every file operation
fail, the removals inside `write_file()` among them; `config_two_consoles` lets
commits overlap on a file system whose remove works, and no older schemas. With
both at once, a scratch file left behind by a failed removal can be taken for the
other console's, so the two assumptions are one disjunction (`Environment`) in the
proofs. `config_migration` shows the one place where the store falls short of its
comment: power lost during a migration leaves no record. Bounds: two commits, and
one power loss in `config_store`, where every other failure may come with it, two
in `config_two_consoles`; a third commit starts from a state the second has
already reached, since every commit ends with a reset or the cleanup of its own
scratch file.

Not covered: values `set_field()` rejects (they change nothing), the text
formats, and the migration of `log_level`: `Config.cpp:226-230` spares a v1 record
the quiet level that a v2 record's reserved byte, copied at line 297, would give.
Two comments disagree with each other rather than with the model: `Config.h:104`
says a failed load fills in defaults, `Config.cpp:156` that it leaves its argument
alone (it does); `Config.cpp:436` says defaults are persisted, and they are not,
as the message at line 460 tells the operator.

### SplitLink

Every node runs the firmware. `transmit()` is `Transmit` (up to the first frame on
the air), `FrameEnds`, and for a long packet `SecondHalf`; `Key` is
`_ensure_standby()` and the start of a frame, with the reset of a chip that does
not answer, which may fail. `Drop` is the paths of `send_outgoing()` on which
nothing is sent. `read_pending()` is `ReadPending` with one disjunct per outcome.
The chip: a receiver catches a frame in its first tick or not at all (`Tick`),
keeps to it unless the driver re-enters receive (`Take`), and holds one frame,
which the next overwrites (`Hand`). Loss is not being caught, or a CRC error.
`Fault` is the SX1262 that stops answering. `Pause` and `Resume` are a BLE session.

Time is counted in ticks: `Airtime` a full frame, as a first half always is, and
`LastAirtime` a packet's last or only frame, which is often shorter (`FrameTime`);
at most `MaxGap` between two halves and the deadline `Timeout`, which is the
code's two airtimes plus a second (`Slack`), cut down to its upper limit of 30 s
(`MaxTimeout`). In the passing runs a full frame is 2 ticks and the deadline 5,
below the limit of 8. `split_link` has last frames that are full, which is where
halves of different packets overlap longest and the deadline is closest;
`link_live` and `long_frames` have one that takes a single tick (`Brief`); the
theorems hold for any. `Prompt` is the assumption that an unpaused loop reads a
frame within the tick it arrived in; only `HalvesInTimeJoin` needs it, and the
liveness run drops it. `FreshSeq` is the assumption that the four random bits are
not in use by a half of another packet: without it two packets can be joined,
which is in the nature of RNode framing and listed among the hazards.

Properties: `ImplementsLink` is the refinement of `PacketLink` (whole, once, by
somebody else); `HalvesInTimeJoin` says a receiver that reads both halves in a row
hands them on, which fails under the flat 500 ms deadline `Radio.cpp:57-65` tells
of; `PacketsOutHonest` ties the counter to what went out; `TransmitReturns` and
`HalfReleased` hold under fairness of the loop (`FrameEnds`, `SecondHalf`,
`ReadPending`), of time, and of the end of BLE sessions, which `Ble.cpp:461-467`
times out. `long_frames` takes an airtime above the limit: a full frame is 37 s on the
air at SF12, 31.25 kHz and 4/5, all of them settings the console takes, and a full
second half is then thrown away as late, although `Radio.cpp:182-184` says that the
deadline is sized to two full frames and a second, and `Radio.cpp:57-65` why it has to
be. A second half short enough to be over before the 30 s still arrives; the run has
a packet with such a half beside one with a full half. `rx_only_recovery` shows that the automatic recovery the README
describes is out of reach of a node that never transmits.

Bounds: two senders and one receive-only node with two split packets, one fault,
one pause: enough for halves to interleave at a receiver in every order, and for
an orphan to meet the next packet. Two frames of the same sender never overlap, so
a third packet adds only repetition.

### LxmfInbox

Reticulum's callbacks and `tick()` run in the loop task, so each handler is one
action. `HandleMessage` is `handle_message()` with a disjunct per outcome: a
duplicate, a sender in its cooldown, a full queue, a place in the queue. Links
are `LinkRequest` (accepted when `accepts` says so), `OnLinkEstablished`,
`Identify`, `OnLinkClosed`; the mesh is `Announce` and `PathLost`. `TickInbox` is
all of `tick()`: reaping, then the first queued reply something can be
transmitted for (`First`), with the hopeless ones before it dropped. Ages stop at
the bound they are compared to; a sender slot whose cooldown has passed behaves
like a free one, so the order among those is left out. In the code an age is a
difference modulo 2^32 ms, so a sender that was let through 49 days earlier, in a slot
nobody took since, is young again for 15 s and refused; the model leaves this out, and
it is among the hazards. A message names its sender itself, over a link too: the one
who opened the link (`Owner`) need not be the one the message claims, and
`BackchannelReady` compares them as the code does. A link's idle time begins anew with
what comes over it and with a reply sent over it.

`AnswerDesk` is what this comes to for those who send commands. A message is taken on
or refused once; it is refused only when its sender was let through within the
cooldown or every place is taken; one taken on is answered once, or given up after
`REPLY_GIVE_UP_MS`; for each, a path is asked for at most once; and between two
transmissions lies `REPLY_SPACING_MS`. The ring, the slots, the links and the mesh do
not appear in it. `ImplementsDesk` maps the queue to a function from messages to
their ages; a message that a retry brings again is a stutter, and one pass of
`tick()` is one step, in which hopeless replies may go and one other be worked at.
`lxmf_inbox` checks this, that retries are answered once and that senders are
spaced, for no more messages than the ring holds and no more senders than slots:
beyond that the ring and the slots forget, by design. A message refused for the
cooldown or a full queue stays refused when it is retried, because `seen_before()`
records it first; the log line at `LxmfInbox.cpp:145` then says that it was answered. `inbox_links` checks the race of two links
for one slot and, under fairness of `tick()` and the clock, that replies and idle
links are let go. With endless new messages a reply in a later slot can wait for
ever behind refilled earlier ones; the run has as many messages as the ring
remembers. `inbox_reply_rate` uses the constants of the code, one tick being 5 s, and
shows that replies can follow each other sooner than `README.md:122` says.

Messages without a command, and those that do not unpack, change nothing but the
learned clock and are left out. Reticulum (links, paths, proofs) is external and
modelled as it is used.

### LxmfWire, LxmfWireCases, LxmfSkip, LxmfTraffic

`LxmfWire` has `Msgpack.cpp`'s writer and reader, `pack()`, `unpack()`, `match()`, the
telemeter and the announce's app data as operators on sequences of bytes. A number
is its eight bytes, since TLC's integers are too small for it. `match()` works on a C
string, so a text ends at its first zero byte (`Ended`).

`LxmfWireCases` says what writer and reader promise each other (`NumberIs`,
`TextIs`, `CountIs`, `ReadAsSent`) and chooses inputs at the boundaries of every
encoding; `ReadsBack` and `PackedIsUnpacked` say it of these. `LxmfSkip` is
`Reader::skip()`, which the node itself never calls, only its tests: that it takes
what the node writes for one value says that the writing is well-formed. No run uses
it; the theorems of `LxmfWire_proofs` say it of all that the node writes. The
recursion of `skip_depth()` is the function `SkipDepth`, whose argument is the depth
the code bounds; `SkipTagged` is its switch over the tag, and `SkipMany` its loop.

`LxmfTraffic` adds the bytes to the inbox: `QueuedAsSent` says that what is let in is
what its sender packed. The two promises behind it are constant formulas over the
cases, which TLC computes once. Byte for byte they serve the codec alone; the messages
of the inbox are model values. The lengths at which a 32-bit count wraps (`PlusOne`,
`Twice`) are modelled, and `SkipReadsNoFurther` holds for them too.

### RepeaterLoop

One pass of `loop()`: `LoopTop` (the decision at `main.cpp:165`), `TransportTick`,
`PeriodicTick` for telemetry and presence, `ConsoleTick`, and `ble::tick()` in four
steps (`IdleCheck`, `ReadMillis` and `ReadMark` in either order, `IdleCompare`)
because a callback may run between its two reads. `Tick` lets a millisecond pass;
`millis()` counts modulo `Wrap`, and a pass takes at most `Stall`.

The client and the SoftDevice (`Connect`, `Encrypt`, `PairingFails`, `Write`,
`WriteConfig`, `Leave`) act at once on the link and queue an event; the callback
task takes the events in order, one handler a step (`OnConnect` to
`OnCommandWrite`), at any time, also for a link that is gone or whose handle is
used again. An ANNOUNCE transmits from the callback task with delays in which the
loop runs, and so has two steps (`OnCommandWrite`, `Announced`). COMMIT and REBOOT
restart the node (`Restart`).

History variables: `quiet`, `age` and `waited` are true elapsed times, capped where
a property no longer tells them apart; `raced` that a callback ran during the two
reads; `touched` that something besides the client's own writes may have made
CONFIG differ from the staging record.

Run `ble_session`: a node without Bluetooth and both senders, one with a PIN, one
without a PIN and one sender; `Wrap` = 5 with an interval of 2, so that the clock
wraps within and between intervals and pauses last longer than a period; a queue of
two events, so that a link can end and be made again before the first event is
handled. The same handle is used for every link, the worst case for telling them
apart. What the bounds leave open is covered by the proofs, which hold for any
queue, any handles and any period.

`AnnouncesAlone` has its preconditions because the code needs them: without a PIN a
client that never pairs is not counted as connected, so its ANNOUNCE can transmit
during a pass; and a pass that began before the session goes on beside it. Both are
in the hazards.

### ConsoleClient, DfuHost, WebTools

`ConsoleClient` follows every line from the device to the collector that takes it.
`send()` is `Send` (drain, collector, write) and one step a line: `CollectMore`,
then the action for what the job does with the answer (`Told`, `RefreshReturns`,
`SetReturns`, `CommitReturns`, `ChangeReturns`, `JobRejected`), or `TimeOut`. The
device runs one command a pass (`RunGetp` to `RunStatus`), whose echo other output
may cut in two, and prints log lines at any time (`Chatter`). `awaited` marks lines
of the command the page now waits for; the code cannot see it, the properties can.
`trusted` says that since the last refresh nothing happened of which the page cannot
know what it did to the staging record: a SET that timed out, an answer that was
not clearly its own.

`DfuHost` follows the transfer of `dfuFlash()` packet by packet against a
bootloader that may read a frame (`BootloaderReads`), lose it (`Loses`), reset
(`Vanishes`), or be the running firmware, which echoes (`AppEchoes`).
Acknowledgements carry no number, and one may be left over from an earlier
transfer (`stale`) or be cut in two by a timeout. In that case the host is a
delimiter behind (`torn`): the next `readAck()` takes the closing delimiter for an
opening one, finds an empty frame and tries again (`Skipped`), so what arrives is
lost on it until it times out, too; that timeout may put it right (`TimesOut`) or
catch it within a frame once more. Behind by a delimiter it can still find a body
where the firmware prints between two echoes or printed before (`Arrives`).
`echoed` remembers that the firmware answered.

The comments of `dfu.js` say that a wrong port fails (356-358, 396-399). The model does
not bear them out: the firmware's console echoes every frame, the echo passes for an
acknowledgement, and the transfer ends in "flashed" with nothing flashed. So
`HeardSomething`, by which STOP is reached only if the bootloader read a DATA packet,
has to except transfers in which the firmware echoed, and `SilenceNoticed` speaks of
the board at the port, whichever program runs there; the case is among the hazards.

"Flashed" is not tied to the bootloader having all of it: the code accepts missing
acknowledgements by design, and the two properties say how many.

`WebTools` puts both at one board: the flasher's reboot loses what was staged, and
its frames, read by the firmware, end up in front of the page's next command
(`Misreads`).

Run `web_tools`: two fields of two values, one late answer, one line of noise, a
firmware of up to five packets of which one in two may go missing. A second late
answer or noise line finds the collector in a state the first has already led to.
The page gives one command at a time, and the operator turns from one page to the
other when nothing is on its way: `STATUS` and `ANNOUNCE` stay enabled during a
commit, which is listed as a hazard the model does not cover.

## Proofs

`ConfigStore_proofs` proves for every value of the constants, so for any number of
commits and power losses: the type invariant, `Durable`, `FailureLeavesLive`,
`TxNeedsConsent`, `CurrentNeverLost`, `BootsDurable`, and `Refinement`, that the
store implements `AtomicConfig` when the flash never held an older schema. The
inductive invariant `IInv` says what each place in `save()` knows: after the
read-back the scratch file is the task's own record; a scratch file found at boot
is harmless because either the live record outranks it or its content was
offered; a commit under way is among the offered. It is needed because `Durable`
speaks of what a reboot would find, which depends on both files and on who may
still write them. The assumption is `Environment`: one console at a time, or a
remove that works. TLC checks `IInv` as an invariant of both passing runs' bounds
before it is proved.

`SplitLink_proofs` proves, for any number of nodes, packets, sequence numbers, faults
and stalls:

* `TypeCorrect`, from `TInv`, which adds what `pc` says of the chip and of the frame
  in hand;
* `LinkImplemented`: under `FreshSeq` the link implements `PacketLink`. The
  refinement needs to know that a payload about to be handed over is one packet
  (frames with one number are of one packet, `SeqApart`; a second half never waits
  behind itself, `InOrder`) and that its stack does not have it yet (`InFlight`:
  nobody holds more of a packet than its sender has finished with; `Done`: what a
  stack has got is no longer on its way to it). Most steps only drop frames, which
  the lemma `Dropping` treats once; those that do not are `Keyed`, `FrameEndsClaims`,
  `Delivering` and `Holding`. `FreshSeq` is needed: with a number reused while
  an old first half waits, halves of two packets are joined, as the code cannot tell;
* `CounterHonest`, for any sequence numbers, from `Airing`: the parts of a packet
  that have gone out are those before the one in the air;
* `HalvesAlwaysJoin`: two halves a node reads in a row are joined, provided that the
  gap between them is at most a frame and the slack, and that the limit on the
  deadline is no less than a frame and the gap. Both are needed: `long_frames` breaks
  the second, and the first is what the flat deadline of `Radio.cpp:57-65` broke. The
  invariant `JInv` relates the age of the half a node has read to the time its
  sender has left (`Timely`): either the other half is still to come, and the age
  and what is left of gap and frame stay within gap and frame together, or the
  chance is over, and no frame of that packet is in the air or in the chip. It
  rests on a receiver that listens for as long as the sender is on the air
  (`Listening`) and on what was read last being a packet of somebody (`LastKnown`).

`LxmfInbox_proofs` proves, for any tables, times, senders and messages:

* `TypeCorrect`, which rests on the choices the loops over the arrays make
  (`FirstTrack`, `SlotChosen`);
* `LinksAllTracked` and `AdmissionAlwaysCurrent`, from `LinksTracked`: tracked links
  are exactly those that are up, so the count behind `accepts` is theirs, by a
  bijection;
* `AnsweredOnce`, from `RingFilled` and `QueuedOnce`: the ring fills from its first
  slot and, if it is as large as the set of messages, is full only when it holds
  them all (an injection between sets of one size), so it never overwrites one; a
  queued message is remembered and not answered yet;
* `CooldownKept`, from `SendersKnown`: a sender within its cooldown has a slot of the
  right age; evicting it would take a slot for each of the others as well as the
  new one, which is one sender too many (`EvictsCold`);
* `DeskImplemented`: with a ring for every message and a slot for every sender, the
  inbox implements `AnswerDesk`. `DInv` joins the two invariants above and adds that
  what became of a message agrees with the ring and the queue (`FateAgrees`), so that
  the ring's word for "seen" is the desk's for "taken on or refused"; and that a slot
  tells when its sender was let through (`SlotsTell`), so that nobody is refused for a
  cooldown that has passed. That the desk is full exactly when the queue is, is a
  bijection (`Crowd`); `Served` says what a pass does to each place of the queue;
* `AlwaysInTurn`, for any number of senders and slots, where `CooldownKept` needs a
  slot for each: who is let through again within its cooldown was crowded out, by as
  many others as there are slots, none of them let through earlier than it. The
  invariant is `SlotOrCrowd`: whoever is within its cooldown has a slot or was
  crowded out. When a slot is taken from a sender, the owners of the other slots and
  the new one are that crowd (an injection from the slots, `LetThroughCInv`), since
  the slot unused for longest is the one taken; later steps only add to it
  (`MoreCrowded`).

It also proves `LetInAsSent`, the property `QueuedAsSent` of `LxmfTraffic`, which
follows from the first part of:

`LxmfWire_proofs`, where nothing is taken from a table of cases:

* `UintsReadBack`, `IntegersReadBack`, `FloatsReadBack`, `TextsReadBack` and
  `CountsReadBack`: every number of eight bytes, and every text and count below 2^29,
  is read as it was written, whatever follows it, and no part of it cut short is
  accepted. A text's length is four bytes at most, and 2^29 keeps the count within
  them; a message has 320;
* `SentIsRead`: a message that `pack()` accepts comes out of `unpack()` with its hashes,
  its time, its fields, and its text without the blanks around it and cut to
  `MAX_CONTENT`; it is refused wherever it is cut short before its fields;
* `CommandIsMeant` and `CommandArrives`: `match()` answers with a command exactly if the
  text spells it, in any letters, with a slash or without; and it still does after the
  way through `pack()` and `unpack()` with any blanks around it (`TrimsPads`). The
  hypotheses are that the text has no zero byte and that the message was accepted;
* `RepliesFit` and `TelemetryFits`: a reply of `MAX_REPLY` bytes, and telemetry with
  everything in it and the longest line of information, are not refused by `pack()`;
  every part is at most so many bytes long (`Fits`);
* `CasesReadBack` and `CasesUnpack`: hence `ReadsBack` and `PackedIsUnpacked`;
* `SkipReadsNoFurther`: any bytes at all are refused by `skip()`, or begin with at least
  one byte that it passes over, the same whatever follows, and refuses when cut
  short (`OneValue`). So an array of any length and nesting cannot make it read behind
  its end, and its loop advances with every element. This holds for a length that
  wraps at 2^32, too: such a value is shorter than it says, but it is all there;
* `WordsAreValues`, `AnnouncesAreValues`, `TelemetersAreValues`, `FieldsAreValues` and
  `PayloadsAreValues`: what the writer writes, the app data of an announce under any
  name, a telemeter with anything in it, the field that carries one, and the payload of
  any message that is packed, reply or telemetry, are each exactly one value;
* `CasesSkipped`: hence `SkipsOneValue`, with the encodings only a client uses, and
  nine levels refused.

The argument about `skip()` goes up from the deepest level it accepts. `Local` says
of one level that it refuses its bytes or passes over the first of them and looks
at no others; `TaggedLocal` and `LevelLocal` carry it from the level below to the
one above, so that it holds for all ten (`SkipUnfolds`), and refusal of what is cut
short follows from it (`PartRefused`). Bytes that are one value with at most so many
levels in them (`Deep`) are built up by the same steps as the node writes them: a
header makes a value of a row of values (`HeldAll`). The loop over the elements is
a recursive function; that such functions exist, and what they are, is proved here
from a set form of induction over the naturals (`Inductive`, `Iterated`, `ManySteps`).

`RepeaterLoop_proofs` and `RepeaterSession_proofs` prove every property of the
run `ble_session`, for any period of `millis()`, any queue, handles, records and
settings:

* `LoopTypeCorrect`, `SessionAlwaysCurrent` and `IntervalAlwaysKept` from `LoopInv`.
  Its core is `Session`, which relates the queue of link changes to the handle the
  firmware holds and to the link there is: the last change in the queue led to that
  link (`Latest`), an end is the end of the link made last (`Paired`), a link
  reported as secure is (`Secure`), and the flag is that of a link secure enough or
  is about to be cleared (`Allowed`). Without it nothing relates `s_connected` to
  the link, since every handler acts on an event of the past. `Elapsed` says that
  unsigned subtraction never tells more time than has passed;
* `ReadAlwaysCurrent` from `ReadInv`: what CONFIG shows is the value of the last
  write still in the queue, or the staging record if there is none;
* `DroppedAlwaysIdle` from `IdleInv`, and `IdleSessionAlwaysEnds` from `Patient` on
  top of it: until its cap `quiet` is exactly what `millis()` and the stamp say, and
  the two reads show it, or a callback marked activity within this pass;
* `AnnouncesAlwaysAlone` from `OpenInv`: with a PIN a command lies in the queue
  behind the report that secured its link, and between two links lies an end;
* `SendsAlwaysInTime` from `SendInv`: a sender either has not been looked after since
  the pause ended, or was found not due, and then the elapsed time cannot wrap
  before it is looked after again.

`ClockAssumption` is what the constants of the code satisfy with 2^32 and passes of
seconds.

`WebTools_proofs` first proves of `DfuHost` `DfuTypeCorrect`, `SilenceAlwaysNoticed` and `AlwaysHeard`
from `DfuInv`: every acknowledgement used up since the board last read pays for at
most `MaxMisses` packets (`Paid`), and, unless the firmware echoed, until the bootloader
has read a DATA packet there is one acknowledgement or frame for START or INIT and none
besides (`Unheard`).

`ConsoleClient_proofs` proves `ConsoleTypeCorrect`, `OriginalAlwaysStaged`,
`CommitAlwaysReported` and `AnsweredAlwaysOwn` from `PageInv`. A call that began with
nothing under way is one whose command has not been read yet (`Waiting`), or has,
and then every line under way says of it what is true (`Done`, `Meant`); without
doubt nothing under way can change what is staged (`Calm`); and the fields not left
to SET are the recorded ones (`Remaining`).

`WebTools_proofs` then carries the flasher's two properties over to the flasher beside
the page, by the lemma `WebImplementsDfu`, and proves that, since the flasher changes
the device under the page and `WebTools` does not implement `ConsoleClient`,
`PageInv` survives it, hence the page's three properties.

The sets of nodes, packets, messages and senders are assumed finite. TLC checks each
inductive invariant of `ConfigStore`, `SplitLink`, `LxmfInbox` and `PageInv` on the
instances of the passing runs before it is proved.

Only model-checked: liveness (`TransmitReturns`, `HalfReleased`, `PendingSettled`,
`IdleLinkClosed`), which is out of the prover's reach. Every other property of a
passing run is a theorem.

## Not modelled

* Board support and storage: the file system is what `ConfigStore` assumes of it.
* The wording of replies and of STATUS, VERSION, HELP; `log_level`'s routing; the
  LED; the BLE log stream and its connection parameters.
* `observe_time()` and `now()`, the clock learned from messages: no property of
  the model depends on it, and its one hazard is listed.
* CALIBRATE, which stages one more field; the values `set_field()` rejects.
* In the pages: form validation, the BLE transport of the configuration page,
  SLIP framing and the package format, two commands at once.
* Build scripts, which patch the library before it is compiled.
* Reticulum itself, the SoftDevice, the bootloader and the SX1262: external, modelled
  as the code uses them.

## Plan

The core, the session, the senders, the pages and the encodings are modelled and,
but for the liveness properties, proved. What would add most from here:

1. The BLE transport of the configuration page: the same jobs over `RepeaterLoop`'s
   characteristics instead of lines.
2. The page with two commands at once (`console.js:804`).
3. `observe_time()` with a clock that wraps.
4. The battery percentage and `set_field()`'s parsers against reference definitions.
