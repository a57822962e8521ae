# New Horizons Hub: TLA+ models, checks and proofs

The New Horizons Hub is ESP32-S3 firmware (`src/newhorizons_hub/`) that stands
between ESP-NOW devices without Internet and the New Horizons Backend.  It
pairs devices, polls them for sensor frames, relays the Backend's commands to
them and their answers back, downloads firmware on their behalf, keeps time
for them, and updates itself.

This directory models the parts of that program whose correctness depends on
orderings: two tasks sharing state without locks, an unreliable radio, blocking
HTTPS calls, timeouts, retries, and resets between two writes.

To check a run: `tlc -config UpdatePolicy.cfg MCUpdatePolicy.tla`.
To check the proofs: `tlapm UpdatePolicyProofs.tla`.

## 1. The system

### Execution contexts

| context | what runs there |
|---|---|
| loop task (core 1) | `setup()`, `loop()`, and everything they call, in the order of `loop()`: `hubClock`, `hubManager`, `commandDispatcher`, `otaRelay`, `uplink`, update policy |
| Wi-Fi task (core 0) | `onEspNowRecv` -> `EspNowHubManager::handleEspNowRecv`, and from it `EspNowCommandDispatcher::handleControlAck` and `EspNowOtaRelay::handleChunkAck` |
| tcpip task | the SNTP callback of `HubClock` |

Only the time-request fields (`timeLock_`) and the SNTP mailbox are locked.
Everything else that tasks share is plain memory, and the chip has two cores: a
packet can be handled between any two statements of the loop task.

### Components

| component | state | operations | hard behaviour | what makes it correct |
|---|---|---|---|---|
| `EspNowHubManager` | `slots_[4]`, the driver's peer table, poll cursor and awaited slot, a scratch area for control fragments, one buffer each for data, control and hub-request frames | receive a packet (HELLO, acks, TIME_REQ, fragments), reap silent slots, answer time requests, poll | Wi-Fi task against loop task; slots reused; one scratch area and one buffer for all devices; `millis()` captured before it is compared | one slot per device; peers = registered slots, uid and poll target belong to the occupant, unless the two tasks meet on the slot being reaped; nobody is starved of polls; what is handed on is one well-formed answer per request (only silent slots reaped, and a frame the sender's own, do not hold: section 5) |
| `EspNowCommandDispatcher` | `pending_[4]`, one outbound burst | `sendCommand`, `service`, `handleControlAck`, `handleControlResponse` | acks and replies that name no request; resends, duplicates, late replies; pages pulled one by one; a shared outbound buffer | one answer per request, well formed, from the right device if replies are handed over whole; at most one resend past an ack, none after a page; no truncated burst; every command that fits answered (an answer that is the request's own, and a deadline counted from the ack, do not hold: section 5) |
| `EspNowOtaRelay` | the session, one HTTP connection, one chunk, `ackPendingAdvance_` | fetch a manifest, start a relay, `service`, `handleChunkAck` | blocking GETs during which requests arrive; repeated start requests; late acks; short reads | one relay at a time; chunks in the order read, none past the announced total; undisturbed by other devices' requests; always ends (served to the device that asked, and strict stop-and-wait, do not hold: section 5) |
| `HubUplinkClient` | WebSocket connection, `helloSent`, heartbeat timers | connect, hello, send, ping, receive commands | messages dropped while down | what depends on an answer survives its loss |
| `newhorizons_hub.ino`, update policy | `latestHubVersion`, `requiredUpdate`, idle timer, retry block, channel, `pendingApplyUpdate` | version replies, gateway commands, `serviceRequiredUpdate`, `serviceRequestedUpdate`, `serviceAutoOta` | replies for a channel no longer followed, derived flags, signed time comparison, resets | a wrong version is corrected; never a downgrade; a required update gets installed; the pairing lock is lifted |
| `newhorizons_hub.ino`, startup | quick-boot counter, portal mode | `setup`, `loop`, factory reset | resets at any point | a boot whose `loop()` outlived the grace time never counts towards a factory reset; one held up in `setup()` does, however long it lasted (section 5) |
| `HubClock` | mailbox, offset, source, last ping | SNTP callback, ping, pong, `service` | an unlocked test, a pong paired with another ping, a pong lost | no reading lost, a sample holds what it claims, a silent SNTP is replaced |
| `OtaManager` | update partition, phase | check, download, verify, apply | failure at each step | only a verified, newer image boots |
| `HubConfig`, `HubConfigPortal`, `WifiManager` | stored fields, access point and station | load, save, commit, reset | reset between two NVS writes | no half configuration that locks the Hub out |
| `PowerManager` | charger registers, profile | begin, apply profile, poll | writes that fail or have no effect | configured only when verified |
| `Storage`, `LedController` | NVS, files, log; LED signal | get, put; show | | |
| release scripts | a release directory | build, copy, write manifests | | |

The code of `nhos_core` (fragmentation, clock arithmetic, JSON) is a submodule
that is not in the repository; it appears in the models only through what its
callers rely on.

### Interactions

A Backend command enters at `HubUplinkClient::service` -> `sendCommand`, leaves
as a paced burst, is acked (Wi-Fi task), answered in a control frame that the
Wi-Fi task reassembles into the manager's one control buffer, and the loop task
hands it to `handleControlResponse`, which reports through `sendDeviceMessage`.
A device's hub request takes the same way through the hub-request buffer to
`EspNowOtaRelay`.  The manager's roster decides which device a command is for
(`macForDeviceUid`), the update policy whether a new device may have a slot
(`setAcceptNewDevices`).  The uplink carries the version questions of the update
policy and the pings of the clock, and loses both kinds of answers when it
closes.  The update policy calls `OtaManager`, which blocks the loop task.

## 2. Modules

| module | models | composes |
|---|---|---|
| `CommandService` | what the dispatcher promises the Backend (abstract) | |
| `CommandDispatcher` (`MCCommandDispatcher`) | `EspNowCommandDispatcher`, radio and devices as environment | implements `CommandService` |
| `HubCommandPath` (`MCHubCommandPath`) | what `EspNowHubManager` puts between dispatcher and radio: roster, reassembly, control buffer, blocking send | extends `CommandDispatcher`, implements `CommandService` |
| `HubRoster` (`MCHubRoster`) | roster, peers, reaping, time requests, polling of `EspNowHubManager` | |
| `OtaRelay` (`MCOtaRelay`) | `EspNowOtaRelay` with the hub-request buffer | |
| `OtaManager` | `OtaManager` and Arduino's `Update` | |
| `UpdatePolicy` (`MCUpdatePolicy`) | the update policy of `newhorizons_hub.ino` | extends `OtaManager` |
| `PowerManager` | `PowerManager` and the charger chip | |
| `HubStartup` (`MCHubStartup`) | `setup()` and `loop()`, quick boots, `HubConfig`, `HubConfigPortal`, `WifiManager`, NVS | extends `PowerManager` |
| `HubClock` (`MCHubClock`) | `HubClock` and its part of the uplink | |
| `CommandDispatcherProofs`, `HubRosterProofs`, `OtaRelayProofs`, `UpdatePolicyProofs`, `HubStartupProofs`, `HubClockProofs` | theorems | each extends its module |
| `HubCommandPathProofs` | theorems | extends `HubCommandPath` and `CommandDispatcherProofs` |

### CommandService and CommandDispatcher

`pending` is `pending_[]`; an entry's strings are reduced to the request it
stands for, and its two timestamps to `elapsed`: whether the wait it is in
(500 ms since `lastSentMs` while not acked, `responseTimeoutMs` since `ackedMs`
once acked) has run out.  `out` is the one outbound burst.  `uplink[r]` collects
what is reported for request `r`.

Two tasks work on `pending_[]` without a lock, and each is cut where the other
can come in between.  `service()` visits one entry after the other (`svc` is the
entry it is at), and an entry in two steps: the tests of `acked`, `attempts` and
the two ages (`LookAtEntry`, which leaves its decision in `choice`), and what
they lead to (`ActOnEntry`: fail, resend, or break off).  An ack handled between
the two does not take the decision back.  `handleControlAck()` is two steps as
well: it finds the entry (`FindAcked`), and writes it (`MarkAcked`), whatever has
become of the entry in between.  `acking` holds what is found and not yet
written.  An ack handled inside `service()` may be stamped after the `now`
`service()` uses (`afterNow`); the unsigned difference then counts as elapsed.
`sendCommand()` and `handleControlResponse()` run to their end.

The radio is the set `air`: messages wait there as long as they like, are taken
in any order, and a message never taken is lost.  A device may execute a command
again for each copy it receives.  One ordering is kept: a device sends its ack
before the reply, so when the reply is taken its ack has been handled or is lost
(`Taken`).

`CommandService` knows nothing of entries, acks or radio: a request is asked
and answered by one result, one error, or pages 0, 1, 2, ... of one single
reply, which a result or an error may cut short.  An answer is the request's own
(`RepliesTo`) or a late one that can be taken for it: a reply to another request
(`Confusable`) that has ended.  An error is always the request's own.
`ImplementsCommandService` is the refinement; `uplink` maps to `answers`, and the
confusable requests are those for the same device, since replies are matched by
MAC alone.  That the second kind of answer occurs is part of what
`dispatcher_by_mac_alone` shows.

### HubCommandPath

Replies come in fragments.  `partial[d]` is the reply that `d`'s reassembler is
in the middle of, `scratch` whose first fragment is in `sharedControlScratch_`.
Fragments of two devices may reach the Hub intermixed.
The control buffer is three variables, `buffer`, `bufferMac` and `ready`, because
both tasks access it piece by piece: the Wi-Fi task writes content (`Keep`), MAC
(`KeepMac`) and flag (`RaiseFlag`); the loop task clears the flag (`TakeFrame`),
compares the MAC (`MatchEntry`, `MatchNothing`), and copies and handles the
content (`CopyFrame`), after which it may sit in a blocking send (`sending`).
These steps take the place of `ControlResponse`; the rest of `CommandDispatcher`
is used as it is.  A page of another device may carry the very `rid` number the
entry waits for, since devices number their executions by themselves
(`Readings`).

`OneAnswerEach` is again `CommandService`, with every reply confusable with every
other: whatever the buffer hands over, each request gets one well-formed answer.
`slot` is the roster as far as commands see it; `HubRoster` has the rest.

### HubRoster

Each statement by which one task writes what the other reads is a step.  On the
Wi-Fi side (`rx`): finding the sender's slot, or marking a free one used and
copying the MAC into it afterwards; stamping `lastSeenMs`; adding the peer and
setting `registered`; learning the uid; choosing the next slot to poll and
recording it.  On the loop side (`lp`): testing a slot, deleting the peer,
clearing `used`, clearing the rest, then the time requests, and the poll in the
same two steps.  The two interleave at will.

`silent` and `afterNow` are the two ways the reaper's age test can be true: the
age is over 30 s, or `lastSeenMs` is later than the `now` it is subtracted from.
The uid is represented by the MAC of the device it was learned from.

`collided` is a history variable.  It remembers which kinds of work of the Wi-Fi
task -- a HELLO, a data frame, a poll about to be sent -- were under way in the
very slot that the loop task was reaping.  The roster's invariants are broken by
such meetings (section 5), and the properties that hold say that each needs its own kind of meeting:
`OnlyHelloPartsPeers`, `OnlyDataMisplacesUid`, `OnlyPollOutlivesTarget`.
Everything else the two tasks do at the same time, in other slots or with other
packets in the same slot, is covered by them.

### OtaRelay

`req` is the hub-request buffer with its flag and its MAC; `lp` says whether the
loop task is inside a blocking GET (`fetching`, `opening`) or between clearing
`ackPendingAdvance_` and moving the index on (`advancing`).  The MAC is read
from `req` when the GET returns, because the handler's parameter points there;
the url is the handler's own copy.  A file is measured in units.  `Size[f]` is
what the request states, and decides the number of chunks announced;
`Length[f]` is what the connection yields.  A read returns any number of units up
to a full chunk of what is left of `Length[f]`, which covers stalls and closed
connections; the stated size bounds no read, as in the code.  `heardAck`, `sent`
and `asked` only record what happened.

### OtaManager and UpdatePolicy

An operation of `OtaManager` blocks the loop task and is modelled step by step,
because releases, resets and closing connections go on meanwhile: the manifest's
request, what it decides, the firmware's request, `Update.begin()`, each unit
read (`ReadUnit(intact)`), and the five ways it ends.  `open` says that
`Update` was begun and neither aborted nor ended; `boot` is the image the boot
loader starts.

`UpdatePolicy` has `loop()`'s three calls in their order (`lp`), the gateway
commands, and every timer as the outcome of the code's comparison; `Tick` moves
time on.  `latest` remembers which channel the version was named for, which the
code does not.  `retry` has the value a wrapped signed comparison gives ("past"
becoming "blocked" again after 2^31 ms).

### PowerManager and HubStartup

What the code writes to NVS in a row is in `todo`, one key per step, and
`PowerCut` may come between any two; the next boot reads what is there.
`setup()` is a chain of steps (`pc`) with its early returns, `loop()` returns to
`pc = "loop"`.  `quick` counts, for the property only, boots in a row that did
not come through an iteration of `loop()` after the grace time.  A chip
register is "holds the profile's value" or not; a transfer may fail, or be
acknowledged and have no effect.

### HubClock

`service()` is cut where the tcpip task can come in between: the unlocked test,
the locked copy, the submission, the ping (`sendTXT` blocks, and its pong may
even come before it returns).  Pongs are under way in order; of the Backend's
reading only matters whether it was made after the stamp it is going to be
paired with.

## 3. Runs

| run | expects | what it shows | states |
|---|---|---|---|
| `dispatcher_same_device` | pass | one device, two commands in a row (plain, and paged in two pages): the dispatcher implements `CommandService`, at most one resend past an ack and none after the first page, every command that fits answered | 274,000 |
| `command_path` | pass | three devices for two slots and two entries, two paged commands and an oversized one, intermixed fragments, a buffer overwritten while it is read: one well-formed answer each, bursts whole, no reply thrown away by the blocking send, entries run out only behind a reaped device | 2,265,000 |
| `roster` | pass | both tasks interleaving: types, one slot per device, and which one kind of collision each of the other invariants needs to break | 7,122,000 |
| `roster_polling` | pass | every registered device polled for ever, in behaviours in which the tasks do not meet | 1,377,000 |
| `relay_session` | pass | one relay, one connection, pieces in order and none past the announced total, undisturbed, always over | 1,264,000 |
| `update_policy` | pass | a sound boot image, a corrected version, a required update installed, the pairing lock lifted | 78,000 |
| `hub_startup` | pass | settings whole, erased only when asked for or after quick boots that were quick, the counter forgotten, the charger's profile verified | 387,000 |
| `hub_clock` | pass | no reading lost, a lone ping's sample sound, the Backend asked when SNTP is silent | 32,000 |
| `dispatcher_oversized` | violation | an oversized command deferred behind a burst is retried for ever (`EspNowCommandDispatcher.cpp:224`) | |
| `dispatcher_by_mac_alone` | violation | matching by MAC alone: a late ack of the previous command marks the next one delivered (`:241`), a late reply is reported as its result (`:262`) | |
| `command_path_own_device` | violation | one device's reply is reported for another's request: mixed in the shared scratch area (`EspNowHubManager.h:195`), or overwritten between the MAC's comparison and the copy (`EspNowCommandDispatcher.cpp:262`, `:271`) | |
| `relay_as_announced` | violation | a request arriving during the GET takes over the session (`EspNowOtaRelay.cpp:135`); a pending ack survives a restart and skips a chunk (`:218`) | |

Every property of a passing run has a mutant in `PROJECT.json`: an operator,
marked `Mutant:` in the module, that changes one definition the way a slip in
the code would, and under which the run fails on that property.

### Bounds

* Two entries and two slots instead of four: the code treats all entries alike,
  and two are enough for "mine and another's", and, with the third device of
  `command_path`, for a full table with one device left over.
* Two send attempts before giving up instead of 30: a first and a last; one in
  `command_path`, where resends are not the question (a deferred command or page
  ask still has its one later attempt).  `HubCommandPathProofs` has any number.
* `MaxExecs` bounds how often a device executes one request: two for the
  dispatcher, which has every duplicate effect (a second ack, a second reply, a
  second page sequence); one for the command path, which is about devices and
  buffers.  `MaxReaps` is 1 in `command_path`: one slot is lost and taken again
  while an entry outlives it.
* Two devices and two slots for the roster: the invariants relate two slots, or
  a slot and the driver's table, and a slot's next occupant is another device or
  the same one.  Devices are alike (`SYMMETRY DevicesAlike`; no liveness is
  checked in that run), and `CONSTRAINT OneKindOfCollision` stops at states in
  which a second kind of meeting has been noted: each property is about the
  absence of one kind, so it is checked in every behaviour with the other kinds
  one at a time.  `HubRosterProofs` has any number of devices, slots and
  collisions.
* Each `request_id` is issued once, as the Backend does.
* Bursts of one and of two fragments: "not busy afterwards" and "busy".
  Replies of two pages: a first and a last.
* Relayed files: one longer than stated, one shorter, and one whose size is not
  stated; stated as two or three chunks; two fragments per chunk; two attempts.
* Two channels, of which one has a new release; a firmware file of one unit, so
  intact, spoilt and short all occur; one version answer under way.  With two
  answers the safety properties hold as well; `UpdatePolicyProofs` proves them
  for any number, as for any releases and any file length.
* A charger profile of two registers instead of five (all are treated alike:
  a first and a last), one Wi-Fi network, a threshold of three quick
  boots instead of five: a first, one in between, and the one that resets.
* Three pings and pongs under way; `HubClockProofs` has any number.

The runs of the dispatcher and the command path do not check for deadlock: once
every request is answered and the air is empty nothing need happen.

### Fairness

`CommandDispatcher`: `loop()` calls `service()` on every iteration (weak
fairness of `Service`), and time passes.  Nothing is assumed of the radio, the
devices or the Backend: every command that fits is answered even if no device
ever is.

`HubRoster`: a packet callback that has begun finishes, `loop()` calls
`service()` again and again, each on a core of its own, and a poll's 30 ms pass:
weak fairness of each.  Nothing is assumed of the devices.  `CalmSpec`, under
which `EveryDevicePolled` is checked, are the behaviours in which the tasks do
not meet in a slot being reaped nor both in `pollNext()`, whose steps on
`pollCursor_` are merged in the model.

`OtaRelay`: `loop()` keeps running, HTTPS calls return (they have timeouts), and
time passes.  `RelayEnds` assumes only that no more requests come: as long as
some do, a device restarting over and over may hold the relay.

`UpdatePolicy`: `loop()` keeps running; an answer that is under way again and
again is read at some point; time passes at each timer except the wrap of
2^31 ms.  Strong fairness is needed because each of these steps is only enabled
while the loop task is between two calls.  `RequiredUpdateInstalled` says in its
antecedent what else it needs: no device any more, downloads that succeed, no
`apply_update` (repeating it within 500 ms starts its timer anew).

`HubStartup`: the loop task runs, and time passes while it is in `loop()`.
`CounterForgotten` assumes that neither the power is cut nor the Hub restarted
any more.

`HubClock`: the loop task runs, time passes, the Backend answers what reaches
it; a connection does not fail every send, and not every round trip exceeds the
limit for a sample.

## 4. What is proved

Every invariant, action property and refinement a passing run checks is also a
theorem; what is left to TLC alone is liveness.  The only assumptions are those
on the constants, which say no more than their types, with two exceptions: no
network has the empty ssid (`StartupConstants`), because an empty ssid in NVS
means that there is none, and both setup pages refuse one
(`WifiManager.cpp:218`, `HubConfigPortal.cpp:85`); and `TableFullOnlyAfterReap`
has `MaxDevices <= MaxPending` (the code defines both as one constant).  No
theorem assumes anything of how the tasks interleave: where the code keeps a
property only as long as they do not meet on a slot, the property says so.

### CommandDispatcherProofs

For any devices, requests, fragment and page counts, table size and budgets:

* `DispatcherTyped`, `OneInFlight`, `NothingForgotten`, `AnswersWellFormed`,
  `AnswersFromOwnDevice`: `Spec => []` of `TypeOK`, `OneCommandPerDevice`,
  `NoRequestForgotten`, `AnswerWellFormed`, `AnswerFromOwnDevice`.
* `BurstsWhole`, `OneResendAtMost`: the action properties `NoTruncatedBurst`
  and `OneResendPastAck`.
* `DispatcherKeepsPromise`: `Spec => ImplementsCommandService`.

`AnswersFromOwnDevice` is about the dispatcher that is handed each reply whole,
with its sender's MAC.  It marks what the manager's buffers take away: on the
command path the same property does not hold (`command_path_own_device`).

None of these is inductive.  `DispatcherInv` is the part that assumes nothing of
where a reply comes from: types, `service()`'s place and what it has chosen
(`CursorInv`: the entry it is about to act on is still in use, since only the
loop task frees entries), `OneCommandPerDevice`, and the journals.  These tie each
entry to what the Backend has been sent: an entry that waits for page `n` has had
exactly the pages before `n`, of one reply, none of them its last
(`OpenJournals`); a request without an entry is resolved or was never submitted
(`ClosedResolved`, `NothingBeforeRequest`).  `OwnInv` adds whose messages are
under way: everything on the air, in the burst and in a paging entry concerns a
request its device was given.  It is what `AnswersFromOwnDevice` and
`DispatcherKeepsPromise` need, and what the command path does not have.

The proofs do not go through the thirty actions once per property.  `JournalMove`
says in a handful of disjuncts what a step can do to the entries and the reports,
`RadioMove` what it can do to the burst and the air; `StepMoves` proves both of
`Next`, action by action, and invariants, action properties and the refinement
follow from the summaries.  For `OneResendAtMost`, `CommandBegins` says which
steps can begin a burst of a command and `ResendChosen` that an entry is chosen
for a resend only while it is not acked.

### HubCommandPathProofs

For any devices, requests and sizes, fragments intermixed at will:

* `PathAnswersOnce`: `PathSpec => OneAnswerEach`.
* `PathBurstsWhole`, `RepliesHandled`: `NoTruncatedBurst`, `NoReplyThrownAway`.
* `TableFullOnlyAfterReap`: `PathSpec => FullOnlyAfterReap`, provided
  `MaxDevices <= MaxPending`.

What the dispatcher is handed here need not be what a device sent, so these rest
on `DispatcherInv` without `OwnInv`, and `PathMoves` reproves `JournalMove` and
`RadioMove` of the path's own steps.  `FrameInv` says that whatever waits in the
scratch area or the buffer is some reply; `TakeInv` that the entry that was
matched is still in use when the content is copied, since the loop task does
nothing else in between.  `RosterFits` bounds the roster; a full table, the
requested device and one slot per entry's device would put `MaxPending + 1`
devices into it, which is the pigeonhole argument behind "can't happen in
practice".

### OtaRelayProofs

For any devices, files, stated sizes and real lengths, chunk and fragment counts:

* `RelayTyped`, `OneRelay`, `ChunksInOrder`: `Spec => []` of `TypeOK`,
  `OneRelayAtATime`, `ChunkIsNextInStream`.
* `NotDisturbedByOthers`: the action property `UndisturbedByOthers`.

`RelayInv` adds that a request being answered came from some device, though not
always from the one that asked (`RequestFromDevice`: the buffer may have been
overwritten meanwhile, see `relay_as_announced`), that the handler's copy of the
file outlives the buffer, and that nothing ends a session between taking its ack
and moving the index on (`AdvancingActive`).  `FirstChunkExists` is where the
rounding-up division of the chunk count matters.

### HubRosterProofs

For every set of devices, every number of slots, and all interleavings of the
two tasks:

* `TypeCorrect`, `NoDuplicateSlots`: `Spec => []` of `TypeOK`, `UniqueMacs`.
* `PeersExact`, `UidsOwned`, `PollTargetKept`: `Spec => []` of
  `OnlyHelloPartsPeers`, `OnlyDataMisplacesUid`, `OnlyPollOutlivesTarget`.

`TypeOK` is not inductive: `AddPeer` adds `slots[rx.idx].mac`, which must not
be the empty one.  `SharedInv` adds `RxSlot`: the slot the Wi-Fi task works on
holds its packet's sender, which is true in spite of reaping because the reaper
never writes `mac`, and a slot just claimed is for a device that has no other.
That is enough for `UniqueMacs`, too.  `OnlyFindSlotOccupies` says that no other
step makes a slot used or changes its MAC.

Each of the last three theorems has an invariant of its own that is required
only while its kind is not in `collided`.  `PeersInv` says what is true in the
middle of the handlers: registered slots and peers correspond except for the slot
being reaped past `esp_now_del_peer` (`PastDel`) and the sender between
`esp_now_add_peer` and `registered = true`, and a HELLO at work is in a slot in
use (`RxHello`), which is what a meeting with the reaper would break.  Deleting a
peer is right only because no other registered slot has the same MAC, which is
where `UniqueMacs` is needed.  `UidInv` says that a known uid is its occupant's,
except in the slot being cleared; `PollInv` that the slot awaited, and the slot
either task is about to poll, are registered.  `NotInReapedSlot` is where
`collided` comes in: work whose kind is not on record is not in the slot being
reaped.  Steps that touch neither slots nor peers share `PeersQuiet` and
`UidsQuiet`.

### UpdatePolicyProofs

For any channels, releases, file length and number of answers under way:

* `PolicyTyped`: `PolicySpec => []PolicyTypeOK`.
* `BootSound`: `PolicySpec => []BootImageSound`.
* `LeftOpenByMismatch`: `PolicySpec => []OpenOnlyAfterMismatch`.
* `StaleVersionCorrected`: `PolicySpec => []CorrectionUnderWay`.

`BootImageSound` is not inductive: `Applied` makes the image being written the
one to boot.  `InstallInv` adds `NewerChosen` (from the manifest's decision to
the end of the download the image is newer than what runs) and
`OpenWhileWriting` (what keeps `Update` open).  The proof of a step goes through
two summaries of the policy's twenty-odd actions: `OtaMove`, what a step does to
`OtaManager` -- call it, let it work, be returned to, reset it -- which rests on
`Busyness` (`OtaManager` is at work exactly while `calling`), and `UplinkMove`,
what it does to the connection, the answers and `latest`.

`CorrectionUnderWay` needs `AnswersCorrected`: behind every answer for another
channel comes one for the present channel, or the question is due.  Otherwise
reading an answer could leave `latest` wrong with nothing behind it.  Its proof
is where the order of answers on one connection is used.

### HubStartupProofs

For any networks, any quick-boot threshold and any number of charger registers:

* `StartupInvariant`: `StartupSpec => [](SettingsInv /\ PowerInv)`.
* `StartupTyped`, `WifiNeverAlone`, `TargetsComplete`, `SetupOnlyWhenFresh`,
  `ConfiguredWasVerified`: `StartupSpec => []` of `StartupTypeOK`,
  `WifiImpliesIdentity`, `TargetComplete`, `SetupMeansFresh`,
  `ConfiguredIsVerified`.
* `SettingsNeverLost`: the action property `SettingsKept`.

The power may be cut between any two NVS writes, so `WifiImpliesIdentity` has to
be true after every prefix of every row.  `PlanInv` makes that inductive: what is
still in `todo` is the end of one of the code's rows -- a factory reset, the
portal's commit, `set_config`, the counter, the Wi-Fi page, the channel -- and
NVS holds what the row wrote before it.  Each row has a lemma that says which
keys it writes and in which order; a write then takes a plan to the rest of it,
and the last one ends the job.  `EmptyIsFresh` and `TargetStored` say what is
whole when no row of settings is in progress or was cut short (`torn`);
`JobPlace`, `BootingAlone` and `PortalAlone` say where the loop task is for each
job; `CountBehind` and `ClearedCount` that the counter in NVS never runs ahead of
the quick boots there were, which is what `SettingsKept` rests on.  `PowerInv`
adds `ReadBackHolds`: the registers verified so far hold the profile.

### HubClockProofs

For any number of pings and pongs under way: `ClockTyped`, `ReadingKept` and
`LoneSampleSound` (`ClockTypeOK`, `NewestReadingKept`, `SampleSound`).
`ClockInv` adds `HandInSubmit` (the loop task holds a reading only between the
copy and the submission), `SendingInSend` (a pong read "after the stamp of the
ping being sent" exists only while one is being sent; `PongsRestamped` says what
the end of a send makes of it) and `LoneNotBefore` (without an overlap no pong
under way was read before the stamp).

### Only model-checked

Liveness (`CommandsAnswered`, `EveryDevicePolled`, `RelayEnds`,
`RequiredUpdateInstalled`, `PairingLockLifted`, `CounterForgotten`,
`SyncedByBackend`) is out of the prover's reach: it has neither fairness nor
`ENABLED`.  The runs that expect a violation are TLC's by nature.

## 5. Findings

### Runs that expect a violation

* `dispatcher_oversized` (`EveryCommandAnswered`),
  `EspNowCommandDispatcher.cpp:224`: a deferred command that is too large is never
  answered and blocks its device, against the comment at `:87-89`.
* `dispatcher_by_mac_alone` (`NothingToDisambiguate`, after
  `EspNowHubManager.h:50-52`).  `:241`: an ack names no command, so one of the
  previous command marks the next as delivered (`AckedMeansDelivered`).  `:262`: a
  reply names no request either, so a late one to the previous command is the next
  one's result (`AnswersOwnRequest`); `:267` says that a late response has nothing
  to match.  The run's counterexample is of the first part; with the second part
  alone in the `.cfg` the same instance has one, too.
* `command_path_own_device` (`AnswerFromOwnDevice`).  `EspNowHubManager.h:195`:
  devices share one scratch area for control fragments; the comment at `:182-183`
  says at most one frame is reassembled at a time "by construction", which nothing
  ensures.  `EspNowHubManager.cpp:375`, `EspNowCommandDispatcher.cpp:271`: the
  buffer may be overwritten after its flag was cleared and its MAC compared, and
  one device's content is then reported for another's request without any
  fragments intermixed.
* `relay_as_announced` (`RelayAsAnnounced`).  `EspNowOtaRelay.cpp:135`: the `mac`
  parameter points into a buffer that the Wi-Fi task overwrites during the
  blocking GET (`RelayServesRequester`; the run's counterexample).
  `EspNowOtaRelay.cpp:218`: `ackPendingAdvance_` outlives its session
  (`StopAndWait`, which the same instance violates by itself, too).

### Properties that hold but for one thing

These are stated in the modules; the code breaks each of them in one way, and TLC
finds it within seconds when the property is added to the `.cfg` named.  Where the
last column names a property, the runs check, and the proofs show, that there is
no other way.

| property | `.cfg` | what breaks it | what holds |
|---|---|---|---|
| `NoResendOnceAcked` | `DispatcherSameDevice` | an ack handled between the test of `acked` and the send does not stop the resend (`EspNowCommandDispatcher.cpp:211`, `:224`), against "never resend the raw command again" (`:212`) | `OneResendPastAck` |
| `DeadlineAnchoredToAck` | `DispatcherSameDevice` | an ack stamped after `now` was read makes its age wrap, and the command fails at once (`:214`) | |
| `PeersMatchRoster` | `Roster` | a HELLO handled in the slot being reaped leaves a peer without its slot (`EspNowHubManager.cpp:285`), which the comment at `:273-278` warns of | `OnlyHelloPartsPeers` |
| `UidOfOccupant` | `Roster` | a data frame handled in the slot being reaped writes its uid into the free slot (`:226-228`), and the next occupant is sent its commands | `OnlyDataMisplacesUid` |
| `PollTargetPresent` | `Roster` | a slot reaped between `pollNext()`'s test, after a data frame, and the record of the poll (`:262`) stays the awaited one until the poll times out, against `:289-292` | `OnlyPollOutlivesTarget` |
| `OnlySilentSlotsReaped` | `Roster`, as a `PROPERTY` | a packet stamped after `now` was read makes the slot's age wrap, and a device just heard is reaped (`:270`) | |

### Seen while modelling


* Update policy.  After a switch from beta to stable a required update named by
  a late answer for beta persists as long as the uplink stays down, although the
  comment at `newhorizons_hub.ino:486-488` speaks of the switch as leaving it
  behind; `CorrectionUnderWay` holds while the uplink is up, and
  `RequiredUpdateInstalled` excludes the case.  A digest mismatch leaves
  `Update` open (`OtaManager.cpp:282`): every later update fails until a reset.
* Startup.  A boot that is held up in `setup()` for more than the grace time (a
  Wi-Fi that does not answer, a boot update, the restart after one) counts as a
  quick boot, although the comments at `newhorizons_hub.ino:65-79` measure time
  since boot.  A power cut during a factory reset may leave gateway id, token or
  channel behind (`:200`), and one during `set_config` a manual target without
  its URL, although `HubConfig.h:45` says all four fields are persisted
  together.  The setup page for Wi-Fi alone is only left by saving.
* Clock.  Two `clock_sync` within one round trip pair the first pong with the
  second ping's stamp (`HubClock.cpp:65`); the sample then claims too small an
  uncertainty.

## 6. Plan

1. The steps of `pollNext()` on `pollCursor_`, which are one step here, taken
   apart, with `EveryDevicePolled` for what then remains of it when both tasks
   poll at the same time.
2. `HubRoster` and `HubCommandPath` composed, so that a uid misplaced by a
   collision is followed to the command it misdirects.
3. The safety half of the liveness properties, such as a bound on the attempts
   of an entry between two events of its device.

## 7. What is not modelled

* Fragmentation and reassembly inside `nhos_core` (not in the repository), radio
  rates, pacing intervals as durations, JSON, logging, LED patterns, web pages.
* The sensor frame's way through the Hub: frames are opaque and may be lost, and
  what tearing one does is below what the models tell apart.
* `HubUplinkClient` as a module of its own: what it keeps is the connection and
  whether hello was sent, which each module that depends on it has; its
  heartbeat and route reports are built from present state and its message
  parsing keeps none.
* `LedController` and the release scripts: no state another part reads, and file
  handling in one process.
* What nothing in this program calls: the file functions of `Storage`, `suspend`,
  `resume`, `applyCredentials` and `clearCredentials` of `WifiManager`, and
  `applyBatteryChargeLimit` of `PowerManager`.
* The mount of SPIFFS, whose result the code ignores; target mode "local", which
  the Hub treats like production.
* Time as numbers: only the outcomes of comparisons.  Wrap-around of `millis()`
  is modelled where the code subtracts a later stamp from an earlier one and
  where it compares signed; elsewhere unsigned differences are immune to it.
* The order in which one core sees the other's writes: a step's writes appear at
  once and in program order.
* Steps that remain merged.
  * `sendCommand()`, and `handlePage()` or `completePending()` once the content is
    copied: of what the Wi-Fi task does, only an ack concerns them, and that is
    two steps itself (find, then write).  Finding before, and writing after, the
    loop task's step is among the modelled orders, and an ack in the middle has
    the effect of one of them: the entry's `used` and `mac` decide whether it is
    found, `acked` and `ackedMs` are all it writes.  An entry just marked used has
    a zero MAC until the right one is copied.
  * `acked` and `ackedMs` (`:242-243`): read between the two, the old `ackedMs` is
    long past, which is the outcome `afterNow` has.
  * The content of the control buffer and the copy of it: a copy torn by a write
    counts as the one reply or the other.  A MAC compared while it is written may
    match nothing; the length only affects which bytes of the data follow.
  * The scan for a slot, the scan of `pollNext()` with its cursor, and the
    writes after `used = false` in the reaper: what the other task does in their
    middle has the effect of its doing it before or after.  Two exceptions.  Both
    tasks in `pollNext()` may skip a slot or poll one twice: only the fairness of
    polling depends on it, and `CalmSpec` excludes it.  A time request noted while
    its slot is being cleared may outlive the slot until the next
    `serviceTimeRequests()`, about which no property says anything.
  * `awaitingIdx_` and `pollSentUs_` in `sendPollTo()`: seen between the two, the
    poll would be late at once and the next one sent early.
  * The start of a relay session after its GET: an ack of a chunk in the middle of
    it has the effect of one before or after.
