# logi-battery: a specification

TLA+ modules of logi-battery, the Rust library that finds Logitech devices and
talks HID++ to them, model-checked with TLC and, for the safety properties,
proved with TLAPS.  Paths below are relative to `src/`.

- [Inventory of the system](#inventory-of-the-system)
- [Plan](#plan)
- [The modules](#the-modules)
- [The runs](#the-runs)
- [What is proved](#what-is-proved)
- [What is not modelled](#what-is-not-modelled)

## Inventory of the system

| Component | State it keeps | Operations | What is hard | What makes it correct |
|---|---|---|---|---|
| HID++ channel (`crates/openlogi-hidpp/src/channel.rs`) | pending queue, listeners, close signal, read thread | `send_with_timeout`, `send_and_forget`, add/remove listener, `read_loop`, `Drop` | callers, their deadlines and their cancellation against the read thread; late and reordered answers; a parked read or write | the queue holds exactly the waiting calls; an answer goes to the call it belongs to as far as headers can tell; listeners miss nothing; calls and `Drop` end |
| Software-id leases (`crates/openlogi-hid/src/transport.rs`) | the process-wide mask `SW_ID_LEASES`, the lease of each channel | `open_hidpp_channel`, `try_lease_sw_id`, `free_sw_id` | a lock-free mask; several opens of a node that share one input stream; the order of a channel's teardown | ids are owned by one channel at a time and all come back; concurrent opens never take each other's answers |
| Native transport and device-I/O gate (`transport.rs`, `transport/native.rs`, `transport/windows.rs`, `crates/openlogi-device/src/device_io.rs`) | gate and its watchers, handle map, writer lock, the handles of a channel | list, open, write, read; `suspend`, `resume`, `wait_until_allowed` | the gate is looked at before an await and used after it; two handles with a fallback between them | after a suspend hardly anything is written; no waiter sleeps through a resume |
| Inventory enumerator (`crates/openlogi-device/src/inventory.rs`, `inventory/ledger.rs`) | channel cache (active or retiring per node), node ledger, probe cache, retry flag | one pass: list, open or reuse, probe, settle, publish; the one-shot scan | a channel replaced while sessions hold it, nodes that come and go, dead input delivery, partial failures, thresholds that interact | one open per node; publications are live; devices do not flap while a channel is replaced; every failure is repaired |
| Channel registry (`channel/registry.rs`, `channel/pool.rs`, `channel/route.rs`) | publications by node, with routes and sequence | `replace_node`, `remove_node`, `retain_nodes`, `lookup`, `is_current`, `subscribe` | the winner of a route changes between a look-up and its use | a replaced winner is noticed |
| Probing and probe cache (`inventory/probe.rs`, `cache.rs`, `features.rs`, `persist.rs`, `openlogi-hid/src/probe_cache.rs`) | features and identity by cache key, misses, the saved file | `probe_one`, `probe_or_reuse`, `apply_outcomes`, `evict_unseen`, load and save | stale entries, slots re-paired, devices asleep, lost replies, a death between a change and its save | what is known of a device stays known, and is never another device's |
| Hot-plug events (`inventory/events.rs`, `hotplug.rs`) | a channel of one place, snapshot depth | `notify`, `decode`, `begin_receiver_snapshot` | coalescing; events that a pass itself provokes | no change goes without a later pass, no pass provokes itself |
| Receivers (`crates/openlogi-hidpp/src/receiver`) | notification flags, pairing window, slots | register calls | two users of one notification register | |
| Pairing (`pairing.rs`) | phase, partial device frames | start, discover, pair, cancel, unpair | notifications against timeouts, commands and cancellation | the receiver is not left open; what is reported is true |
| Capture sessions (`session/gesture.rs`, `gesture/liveness.rs`, `capture_restore.rs`, `keyboard.rs`) | diverted controls, button and wheel state, liveness strikes, pending restore | arm, listen, re-arm on wake, stop, roll back, restore, retry | arming that fails half-way; a channel replaced during a restore; input during a wake | what was diverted is given back, by somebody, once; a press has its release |
| Host switch (`session/host_switch.rs`) | armed host controls | arm, listen, restore, switch targets and then the keyboard | partial failure across devices | controls are given back; the keyboard moves last |
| Write operations (`crates/openlogi-device/src/write/`) | a cached haptic feature index | read-modify-write sequences | answers lost or crossed, a second writer, a slot re-paired | what a success means, and what it does not tell; the rest of a setting is kept |
| HID++ 2.0 device and features (`crates/openlogi-hidpp/src/{device,protocol,feature}`) | feature table | walk, calls, events, tables and names read in parts | repeated requests with one header; fields that overlap or are laid out twice | the table has each feature at its index; what is set is what is told again |
| Configuration (`crates/openlogi-core/src/config`) | `config.toml`, its copies and backups; device entries and their links | load, save, migrate; adopt a route, fold entries | several processes and an editor on one file; devices that change routes | no edit and no original is lost; settings follow their device |
| Bindings, device model, registry, application support, C interface | | pure functions and tables | list indices across C calls | |

How they interact: the enumerator opens one channel per HID node through the
transport, which leases it a software id, and publishes it in the registry;
sessions and writes look channels up there and hold references, pairing opens
one of its own; a channel closes when the last reference goes.  All of them
send over the channel's calls and hear devices through its listeners.  A
receiver's notification register is shared by pairing and inventory.  The gate
is shared by everything that touches a device.

The hazards this leads to are in `PROJECT.json`, each with the properties that
would catch it.

## Plan

Everything rests on the channel, then on who owns channels, then on what is
done over them; the modules follow that order.

1. `RequestReply`, `HidppChannel`, `SwIdLeases`, `HidTransport`: channels and
   the transport below them.  *Done, with proofs.*
2. `Enumerator`, `OneShotScan`: channels over time, with the ledger and the
   registry's publications.  *Done; all safety of the enumerator proved.*
3. `CaptureSession`, `CapturedInput`: capture, its restoration, and its input.
   *Done, with proofs.*
4. `Receiver`, `Pairing`, `ReceiverSnapshot`, composed in `ReceiverUsers`;
   `ProbeCache`.  *Done, with proofs.*
5. `HostSwitch`, `Writes`, `Lighting`, `Haptics`: flows on an open channel.
   *Done, with proofs.*
6. `FeatureWalk`, `DeviceNames`, `DeviceTables`: the protocol.  *Done, with
   proofs.*  `Wire` with its wrappers: payloads.  *Done, model-checked.*
7. `ConfigFile`, `DeviceSettings`.  *Done, with proofs.*

Left: several nodes that publish one route and the winner among them; gesture
modes and maps per application; the wired and standalone listings.

## The modules

| Module | Models | Variables and what they are in the code |
|---|---|---|
| `RequestReply` | the promise to a channel's callers | `status`, `answer` of each call; `spent`, the device answers that have been read |
| `HidppChannel` | `channel.rs`, and the answer predicate of `protocol/v20.rs` | `pending` and `ahead`: the queue; `slot`: the oneshots; `pc`: where each call is; `reader`, `report`, `matched`, `toCall`: `read_loop`; `listeners`; `chan`: how far `Drop` is; `writing`, `device`, `events`: the environment |
| `SwIdLeases` | `transport.rs`, the drop order of `HidppChannel` | `mask`: `SW_ID_LEASES`; `seen`: the mask loaded by each attempt; `id`: the policy; `stage`: how far each open or drop is; `suspended`: the gate; `waiting`, `got`, `asked`, `inbox`: one call per channel and the shared input stream |
| `HidTransport` | `native.rs`, `windows.rs`, `windows_hid.rs`, `device_io.rs` | `allowed`, `turns`, `publisher`: the gate's watch channel; `awaited`, `seenTurn`: a `wait_until_allowed`; `writer`: each `write_report`; `listing`, `opening`, `handled`: the backend and its handle map; `composite`, `hasShort`: the kind of channel |
| `Enumerator` | `inventory.rs`, `ledger.rs`, the publications of `registry.rs` | `cache`: `ChannelCache`; `published`: the registry; `lastGood`, `failures`: `NodeLedger`; `phase`, `todo`, `seen`, `retiring`, `unopened`, `result`: the locals of a pass; `reported`, `retryNeeded`: its outcome; `home`, `pinned`: who refers to a channel; `listed`, `attached`, `dead`, `cut`: the OS and the devices |
| `OneShotScan` | `enumerate` for a single caller | `candidate`, `attempt`: its locals; `passes`: what the passes found |
| `CaptureSession` | `gesture.rs` without the input it decodes, `gesture/liveness.rs`, `capture_restore.rs`, the session of `keyboard.rs` | `pc`: where the session or the restore is; `owned`, `found`: `ArmedControls::reporting` and then the token's controls; `left`: the controls a loop has still to write; `policy`: `RetiredChannelPolicy`; `on`, `gone`: the session's channel and the token's weak reference to it; `via`, `ok`: locals of `restore_on`; `fresh`, `strikes`: `ChannelActivity` and `CaptureLiveness`; `stopAsked`, `wake`, `resumed`: what `select!` can take; `diverted`: the firmware; `published`, `allowed`, `lost`, `deaf`, `flaky`: registry, gate and transport |
| `CapturedInput` | the listener of `gesture.rs` and `keyboard.rs`, `swipe.rs`, the thumb wheel | `hold`, `gesturesDown`, `dpiDown`, `buttonsDown`: `CaptureAccum`; `wheel`: what arming learned of it; `told`, `settling`: the monitor's channel and whether it is in `rearm`; `fingers`, `rolling`, `diverting`, `events`: user, firmware and the events on their way |
| `Receiver` (mostly external), `Pairing`, `ReceiverSnapshot`, `ReceiverUsers` | `pairing.rs`; `events.rs` and the receiver part of `probe.rs`; the two on one receiver | `flags`, `window`, `occupant`, `online`: the receiver; `pc`, `phase`, `picked`, `partial`: the session; `scan`, `depth`, `pending`, `queued`, `drained`: the pass and the event channel |
| `ProbeCache` | `cache.rs`, `features.rs`, `persist.rs`, `probe_cache.rs`, the end of a pass | `cache`, `misses`, `dirty`: the enumerator's; `outcomes`: `CacheOutcomes`; `disk`: the saved file; `occupant`: which device is where |
| `HostSwitch` | `host_switch.rs` | `reporting`, `original`: the controls and what arming recorded; `step`, `rest`, `item`: where the session or its caller is; `at`, `slot`: where the devices are |
| `Writes`, `Lighting`, `Haptics` | `write/*.rs` | `setting`: the device; `stage`, `choices`, `feature`, `seen`, `tries`: a call; `unpainted`, `pending`, `shining`: zones; `location`: `CACHED_LOCATION` |
| `FeatureWalk`, `DeviceNames`, `DeviceTables` | `device.rs`, `protocol.rs`, names and tables of `feature/*.rs` | `entries`: the table read; `flight`: requests being answered; `reading`, `writing`, `stream`, `page`: loops over parts |
| `Wire`, `WirePointing`, `WireKeys`, `WireLights`, `WireDevice`; `WireRegisters` (external) | the payloads of 44 wrappers; where devices keep their bytes | `feature`, `calling`: the call; `held`: the bytes of the device's answers and events; `learned`: what the caller has set or was told; `meant`, `heard`: what of it the last payload should say, and what was made of it |
| `ConfigFile` | `config/file.rs` | `file`, `copy`, `backups`: on disk; `source`, `config`, `owed`, `saving`: each process |
| `DeviceSettings` | `config/identity.rs`, `config/settings.rs`, `device_order.rs` | `entries`, `selected`: `Config`; `on`: which device each route has |

The `MC*` modules give the constants values; `MCProtocol` and `MCFlows` put
modules side by side that share no state.

Notes on how the models correspond to the code:

- *Channel.*  An answer is named by the request it answers.  The code cannot see
  that, it compares headers (`HeaderOf`), and what that can and cannot
  distinguish is what the properties are about.  A device answers each request at
  most once, at any time, in any order, or never.  `Leave` is the drop of
  `PendingRequest`, the one way every call ends.  An entry in the queue implies
  its receiver exists, because that drop takes the entry off first; so a match
  always reaches a oneshot.  The match, under the queue's lock, is one step; copying the
  listeners is another; each listener call is one more.  Reports that are not
  HID++, and read errors, loop without a change.
- *Leases.*  Loading the mask and the compare-exchange are two steps.  All
  channels ask the same function of the same device, which is the worst case:
  the software id alone distinguishes them.  A channel has one call at a time.  The
  actions of `Drop` follow the join in `Drop` and then the declaration order of the fields.
- *Transport.*  Every question to the gate and every call to the OS is a step of
  its own.  A watch channel is its version: `turns`, and the one a receiver has seen.
- *Enumerator.*  One action per node in each of the loops of `prepare_nodes` and
  `enumerate_reporting_completeness`, with the OS, the devices and the users of
  channels free to act in between.  A channel closes when nobody refers to it
  (`CloseUnused`).  A probe's verdict is chosen: a dead channel only fails, any
  other may fail too, a failed probe may still have found some devices.
  `retryNeeded` is what a pass's probes ask for; the code also asks for a retry
  when the probe cache has misses, which is not modelled (the property is an
  implication, and holds for more reason).
- *Capture.*  One device, one session after another, and the restore between
  them, because the caller must redeem a token before it arms a successor.  A
  mouse session watches its channel (`Watched`), a keyboard session does not;
  otherwise their lives are the same, the order of two branches of `select!`
  apart that lead to the same `Stop`.  The branches are polled in order, so each
  has in its guard that those before it are not ready.  Every write to a control
  is a step, and ends answered, done without an answer, or refused, the last
  always while I/O is suspended.  A deaf channel answers nothing but still
  carries writes.  `quiet`, `awake`, `cause` and `touched` are ghosts: no guard
  reads them.
- *Captured input.*  Events are snapshots of the controls that are down, and
  motion, in the order the firmware sent them.  A broadcast of a reconnection is
  one of them, which the emitter's listener only passes on; the reset it leads to
  is a step of the monitor between any two others, and there may be several to
  come.  Re-arming may fail or find the gate closed.
- *Receiver.*  What a receiver does by itself is external; the module states what
  the code relies on.  A register write is answered, takes effect unanswered, or
  is refused.  The session's `select!` may take any ready branch.
- *Probe cache.*  Each part of a probe is written down with the device it was
  read from, so that a part of another device can be told.  A probe sees the
  cache as it was at the start of its pass, as the concurrent probes do.
- *Writes.*  One call at a time; whatever else changes a setting is `Meddle`.
  What a request may meet (answered, refused, lost, carried out unanswered, an
  answer to another request; a write also acknowledged and not carried out) is
  chosen at each request.
- *Haptics.*  A caller that is delayed may be answered late, after the slot was
  re-paired and another session has armed the engine; its play then stores the
  index it had looked up, as the code does.  The ghost `misled` marks a location
  that was stored this way.
- *Wire.*  A payload is the set of its bits that are one and a field says where
  a wrapper puts, or looks for, each bit of a value.  The two sides share no
  layout: the device keeps bytes, and `WireRegisters` says by offsets which
  bytes of a request become which bytes of an answer or an event.  A wrapper
  whose setter and getter disagree, or disagree with its event, reads another
  value than it has set.  Packed decimals are read digit by digit; a digit above
  nine, bytes that are no text and unknown codes make the call fail.
- *Configuration.*  The content of a file is its schema and a set of edits.
  `write_atomic` is one step; comparing, copying, each rotation of a backup and
  writing are others.  In `DeviceSettings` one field stands for each way of
  folding two entries.

## The runs

| Run | Instance | Shows |
|---|---|---|
| `channel` | three waiting calls, two of them with one header, and a `send_and_forget` call with it; long-only channel; the two are interchangeable (`SYMMETRY`) | `PendingExact`, `OwnAnswerOnly`, `MatchedMeansTaken`, `AnswerReachesItsCall`, and that the channel implements `RequestReply` |
| `channel_dispatch` | three calls, two listeners, an event; short-only channel, so the long call is refused | `NoListenerSkipped`; under fairness `EveryCallReturns` and `DropCompletes` |
| `enumerator` | one node, two channel names, one device, the code's thresholds (replay 3, eviction 2) | `OneOpenPerNode`, `PublishedIsActive`, `ReplacementUnnoticed`, `FailuresAskForRetry`; under fairness `NodesRecover` |
| `capture_session` | two controls, two channels, two strikes, watched | `RestoredMeansReleased`, `SilentMeansSilent` |
| `capture_session_live` | one control, two channels | under fairness `StopIsSeen`, `DeafnessNoticed`, `RestoredElsewhere` |
| `protocol` | `MCProtocol`: a receiver with two slots and its users; three opens and two ids; a table of four features, the feature set second, read twice; names of up to three parts; tables of up to five words or fields, read in three pages; 44 wrappers | `CancelClosesWindow`, `SessionTellsTheTruth`, `ChangesAreCovered`, `NoEcho`; `MaskExact`, `NoCrossMatch`; `TableIsRight`; `NamesReadWhole`; `TablesAreRight`; `ReadAsMeant` |
| `flows` | `MCFlows`: a keyboard, two targets, two hosts; a gesture source, the panel and two DPI buttons; two devices and two places; three writers; two processes and two edits; two devices, two cables and a slot; and more | `ControlsGivenBack`, `LinkedDevicesGoTogether`; `InputIsUnderstood`; `KnownStaysKnown`, `StoreIsCurrent`; `StopsOnEvidence`; `WritesAreHonest`, `PaintedWhole`, `PlaysAreFelt`; `NothingIsLost`, `SettingsFollowDevices`; `GateIsHeeded` |

Five runs show where the code does something else than a doc or a comment of
it says; `PROJECT.json` quotes both sides under "findings":

| Run | What does not hold |
|---|---|
| `channel_late_answer` | "reaches message listeners as an unmatched message", when another call with that header waits (`LateAnswerUnmatched`) |
| `capture_resume` | "clear any pre-sleep strike": without a report in between, a strike from before the sleep counts after it (`PreSleepStrikeCleared`) |
| `capture_retry` | "for the caller to retry on the current inventory channel": under fairness, a token whose channel was unpublished for a moment and is published again is never redeemed (`RetryReleases`) |
| `lost_capability` | "only an unanswered read is" an error: one unanswered read of the wheel's capabilities is remembered as no wheel (`WheelStaysKnown`) |
| `friendly_name` | "the new total length of the friendly device name" is added up as if it were the length of a part (`NameIsSet`) |

Why the bounds are enough.  Correlation concerns a call and its rivals: two of
one header with a third that can be confused with neither, and one that queues nothing, give every
order of registering, ending, answering and reading.  Two ids for three opens
make ids run out and be leased again while an older channel is still closing;
the third open only competes for an id, since answers are confused between two.
Nodes do not influence each other in a pass except by its phases; one node and
a second channel name for the replacement reach every state of a node's life.
`MaxFailures` stands for the saturation at 255 and lies above both thresholds.
One device makes an inventory full or empty, read whole or in part; recovery
does not look at devices, and the safety of the run is proved for any number.
Two controls make arming, re-arming and restoring fail between two writes; two
channels and none give every replacement, also the return of the old one.
Liveness does not depend on how many controls a loop has to write, so one is enough.

In `MCProtocol` and `MCFlows` a behaviour is of one part and the others rest:
the parts share no variable, so that interleaving them would add nothing.
A receiver's session and inventory each have an instance of their own
(`Company`): the session alone the whole of it, inventory alone two slots of which one at
least has a device and one is neither silent nor swallowed, which is what `ChangesAreCovered`
is about; together, where they meet in one register, the receiver has one device at most,
the session finds nothing nearby and ends by its deadline, and what inventory
counts and identifies is answered.  The third open of `leases` hears nothing, as it is
there to compete for an id, and the gate rests while it opens.  Two attempts at a feature entry are enough for an answer to
come late, also one that takes the place of the feature set itself, which is not the
first entry for that.  A DPI byte with eight values and pages of three bytes put a word at
every offset of a page break, as 256 and 13 do, and five words fill three pages.  A part of two bytes splits
a two-byte character at each end.  `Threshold`, `Deadzone` and `Bound` keep the
order that matters for a swipe, with motion that saturates; two
reconnections, the second before the monitor has dealt with the first, are the
fewest in which a contact is counted by a hold that another began.
In the host switch one device at most has a table that lacks a host, or a host it is
not paired to: devices are prepared one by one, each by its own table.  A miss allowance
(`Grace`) of one, two moves and a lost reply reach an entry that ages, is
evicted, comes back and belongs to another device.  Two processes and one
crash reach every overlap of two saves.  Samples of a number in `Wire` are zero, one, its
highest bit and all ones, which tell apart each shift, mask and byte order.  The device or
the call has one such value amid fields of few bits or of many; two calls (`MaxCalls`), with events
between and after them, set a value and read it in every place that tells it.

`CHECK_DEADLOCK FALSE` is set where the instance ends: all calls made and the
channel dropped, all opens closed, a flow that has returned.  The enumerator
and the capture sessions never stop.

Fairness.  In `HidppChannel`: a call's timer fires (`futures_timer`); the read
thread, once it has a report, works it off (listeners do not block); Drop's
steps run; and the close signal is taken in the end, strongly fair because
`select!` chooses at random among ready branches, so a signal that stays ready
loses only finitely often against reports.  Nothing is assumed of the device,
the OS, or the end of a write.  In `Enumerator`: passes go on (the watcher runs
them in a loop, and every probe has a budget), and users let go of a channel that is not
published any more (sessions watch the registry; writes are bounded by the
channel's timeouts).  In `CaptureSession`: the session's task goes on while one
of its branches is ready (a ping times out, an idle interval ends), and a
restore goes on and is retried; the latter is the caller's duty by the doc of
`CaptureSessionOutcome`.  Devices, transport, gate and inventory owe nothing;
`RestoredElsewhere` and `RetryReleases` are about what happens once they settle.

## What is proved

For every value of the constants, under the assumptions the modules state by
name.  They say that bounds are natural numbers, that `None` and its like
are none of the values whose absence they stand for, and what the code relies on:

| Module | Assumption beyond that |
|---|---|
| `HidppChannel` | a channel carries short or long reports, a call is of either width |
| `Enumerator` | thresholds lie below the counters' saturation, `EvictAfter` is not 0 |
| `ConfigFile`, `OneShotScan`, `CaptureSession`, `ProbeCache` | at least one backup, one attempt, one strike, one miss before an eviction |
| `ProbeCache` | a key of a device is no key of a place (`PlacesAreNoDevices`) |
| `HostSwitch` | the keyboard is no target of its own, a control names a host |
| `CapturedInput` | no control is armed twice: the sources are distinct, and neither plain buttons nor controls that dispatch as the DPI button (`SourcesAreDistinct`, `DispatchIsUnique`) |
| `Lighting` | keys are finitely many, a chunk is not empty |
| `Receiver` | slots are finitely many (`SlotsAreFinite`) |
| `FeatureWalk` | the table is a sequence and has the feature set (`TableHasSet`), as HID++ 2.0 demands |
| `DeviceSettings` | keys of different kinds differ, as they begin with different words (`KeysAreApart`); cables are listed once (`CablesAreDistinct`), and `KeyOrder` lists every key of the file (`OrderIsWhole`) |
| `DeviceNames` | parts are not empty (`SizesArePositive`), names are texts (`NamesAreText`) |
| `DeviceTables` | the words of a list are those of two bytes and not zero (`TablesAreTables`), a byte has a value, and a page a field (`SizesAreNatural`) |

`Writes` and `SwIdLeases` assume types only, `Pairing`, `ReceiverSnapshot` and
`HidTransport` nothing.

| Module | Theorem | Property |
|---|---|---|
| `HidppChannelProofs` | `ChannelInvariant`, `QueueHoldsTheWaiting`, `CorrelationSound`, `MatchedFlagTrue`, `ListenersHearAll` | `IInv`, `PendingExact`, `OwnAnswerOnly`, `MatchedMeansTaken`, `NoListenerSkipped` |
| | `CorrelationComplete` | the action property `AnswerReachesItsCall` |
| | `ChannelImplementsPromise` | `HidppChannel` refines `RequestReply` |
| `TransportProofs` | `LeaseInvariant`, `MaskStaysExact`, `ConcurrentOpensAreSeparate` | `IInv`, `MaskExact`, `NoCrossMatch` |
| | `TransportInvariant`, `GateStaysHeeded` | `TransportInv`, `GateIsHeeded` |
| | `WalkInvHolds`, `TablesAreTrue` | `WalkInv`, `TableIsRight` |
| | `NameInvHolds`, `NamesAreWhole` | `NameInv`, `NamesReadWhole` |
| | `TableInvHolds`, `TablesAreReadRight` | `TableInv`, `TablesAreRight` |
| `EnumeratorProofs` | `EnumeratorInvariant`, `NeverTwoOpens`, `OnlyActivePublished` | `IInv`, `OneOpenPerNode`, `PublishedIsActive` |
| | `FailingNodesAskForRetry`, `ReplacementsAreUnnoticed` | `FailuresAskForRetry`, and `ReplacementUnnoticed` for thresholds with `EvictAfter < ReplayGrace` |
| `InventoryProofs` | `ScanInvHolds`, `ScanStopsOnEvidence` | `ScanInv`, `StopsOnEvidence` |
| | `CacheInvHolds`, `KnownIsServed`, `StoreFollowsCache` | `CacheInv`, `KnownStaysKnown`, `StoreIsCurrent` |
| `CaptureSessionProofs` | `CaptureInvariant`, `RestoredIsReleased`, `SilenceIsUnbroken` | `IInv`, `RestoredMeansReleased`, `SilentMeansSilent` |
| | `InputInvHolds`, `HandsAreUnderstood` | `InputInv`, `InputIsUnderstood` |
| `SessionProofs` | `SwitchInvHolds`, `ControlsComeBack`, `TargetsGoWithKeyboard` | `SwitchInv`, `ControlsGivenBack`, `LinkedDevicesGoTogether` |
| | `HapticInvHolds`, `HoversAreFelt` | `HapticInv`, `PlaysAreFelt` |
| | `PaintInvHolds`, `ColourIsWhole` | `PaintInv`, `PaintedWhole` |
| | `WriteInvHolds`, `WritesTellTheTruth` | `WriteInv`, `WritesAreHonest` |
| `ProtocolProofs` | `SessionInvHolds`, `FailedSessionsClose`, `SessionsAreTruthful` | `SessionInv`, `CancelClosesWindow`, `SessionTellsTheTruth` |
| | `SnapshotInvHolds`, `RestIsCurrent` | `SnapshotInv`, `ChangesAreCovered` |
| | `PassesDoNotEcho` | the action property `NoEcho` |
| `ConfigFileProofs` | `ConfigInvariant`, `NothingSavedIsLost` | `FileInv`, `NothingIsLost` |
| | `SettingsInvHolds`, `SettingsStayWithDevices` | `SettingsInv`, `SettingsFollowDevices` (its invariant and its action properties) |

Where a property is about several processes (the receiver's two users, the
callers of a panel, the writers of a file), the theorem is about all of them
together.

The arguments:

- *Channel.*  That an answer goes to the right call is not inductive by itself.
  `HeaderExclusive` says that a waiting call not marked `exposed` has no rival
  with its header waiting, on the wire or at the device, and
  `AnswersFresh` that a request on its way to an answer has not been answered
  and an answer was put into one slot only.  `ReportHeld` and `OwedToCome` tie
  the read thread's locals to its position.
- *Leases.*  `NoCrossMatch` speaks of channels that may both be gone.
  `MetDiffer` keeps that two channels once leased together have different ids
  for good (ids do not change); `SameIdTaken`, that an answer was taken for its id.
  `MaskExact` is inductive with `LeasedFirst`, the order of a channel's stages.
- *Transport.*  That at most one report of a single handle goes out after a
  suspend rests on the writer lock (`OneAtATime`) and on the question asked under
  it (`LateInv`); that a waiter does not miss a resume, on the version it has seen
  (`WaiterInv`).
- *Enumerator.*  `OpenIsCached`, that an open channel is the one its node's
  cache entry holds, makes two opens of a node impossible; it needs
  `PinnedIsOpen`, `PublishedIsActive`, and, during a pass, `ProbedIsActive` and `ToSettle`,
  because the settling phase acts on what the preparing phase decided.
- *Replacement.*  A node with no trouble but one dead channel fails until its
  channel is evicted, once more in the pass that finds the channel retiring, and
  then not again: `FailuresBound` says so state by state, with
  `FreshlyOpened` for the channel that this pass has opened and not yet
  settled.  Hence the failures stay within the replay as long as `EvictAfter < ReplayGrace`,
  which 2 and 3 in the code satisfy.  `FailuresAreSeen` keeps that the ledger has
  failures only of nodes this pass has looked at and found unhealthy.
- *Capture.*  That nothing is diverted at the end says nothing of how it gets
  there: `OwedInv` says what is still diverted is owned, and in a restore without a
  failure so far is among the writes still to come; re-arming writes only what
  is owned.  `StrikeInv` bounds the strikes by the pings that stayed silent, unless a
  report is waiting that will clear them.  The proofs hold with and without
  the watchdog, so for keyboards too.
- *Captured input.*  The invariant is about the reports on their way.  The last snapshot among them
  is of what is held, unless a reconnection is behind it (`SnapshotsAreLast`,
  `HeldAreReported`); motion is of the sources in the snapshot before it
  (`MotionIsTheirs`); with none on its way, the same is so of what the listener
  keeps (`NothingLingers`).  A gesture is counted by the hold that fires or is
  dropped, of which there is one per press (`GesturesAreCounted`).  The panel's
  jump is skipped by a hold that begins with its contact (`JumpsAreExpected`).
  The proof showed an exception: if the device reconnects twice before
  the monitor has heard of the second, a contact made between the two is held
  by the listener when the panel is touched anew, and the jump of the second
  contact is counted for the first.  `GesturesMatchPresses` leaves that case out,
  for as long as the second reset is still to come.
- *Configuration file.*  `EditsSurvive` rests on `SourceInv`: what a process
  loaded is part of what it holds.  For the original, an old file is replaced
  at most once (`ReplacedOnce`), and every committed save that owes a copy owes
  one that serves all of them (`DebtInv`), so that it does not matter whose copy
  is written last (`CopyInv`).
- *Settings.*  `SettingsInv`: once the file is loaded nothing is keyed by a
  cable, a slot's entry has no links, and a route is in the links of one entry,
  that of the device last adopted for it.  The renaming of the keys is a recursion
  over the cables; `RenamingIsDefined` and `RenamingGoesOn` take the first cable at
  which it would not exist, or not have done its work, to a contradiction.  What an adoption
  does is stated once, entry by entry (`AdoptionFacts`), and what follows from it
  is read off.  The proof corrected the property: when the device has an
  override of its own for the adopted route and the slot's entry has another value, the
  slot's is kept only if the device's general value differs from it, so that either may
  be read afterwards; the run's file now has such an entry (`Override`).

- *One-shot scan.*  `ScanInv` ties the candidate the code keeps to the last of
  the passes it has made, so that an equal one in a row is one of two in a row.
- *Probe cache.*  What is known of a device is in what a pass has gathered of it
  (`OutcomesAreOwn`) before it is in the cache (`EntriesAreOwn`), and everything
  gathered is of one device, though the places have changed hands since.  For
  the updates of an entry this holds only because they change nothing but a
  battery reading; `StoreIsOwn` keeps the same of what is loaded again.
- *Host switch.*  A control that a restoration has taken off its list is as it
  was found or among those refused twice (`ControlsGoBack`), as any control whose
  write may have been carried out was recorded before it.  `TargetsGoFirst` says
  the same of the targets: one that has had its turn has gone or has an excuse,
  and the keyboard waits, unless it was taken away by its user.
- *Haptics.*  That the cached location is right when it is used rests on all
  callers at once: `CallersAreRight` says that one under whom slot, channel and
  power have not changed holds the right index over the channel of the day, so
  whatever it stores or clears does no harm to another.  A caller under whom
  they have changed does harm in one way only: its play is answered after a new
  session has armed the engine, and it stores its old index over the session's.
  The hovers of that session then miss the engine until a play fails, although
  the comment of `ensure_haptics_armed_on` (`haptic.rs:119-123`) has the location
  last for the session.  `PlaysAreFelt` names this case (`misled`), and only this.
- *Lighting.*  Everything to be painted is on the list, in the frame, or
  showing (`NothingMissed`); for 0x8081 nothing shows before the end of a frame.
- *Writes.*  What a call has read is what the device has while nobody
  meddles (`SeenIsNow`), at each stage of each operation, the second attempt and the check after
  it included; the writes that read nothing (`WritesBlind`) are apart.  What Ok is
  worth differs.  A wheel call reads back and returns it only with what was asked
  for.  DPI's read-back is only logged (`dpi.rs:300-304`), and a whole status, a toggle and fn-lock
  have none: a device that acknowledges a write and ignores it is left as it was
  (`Unmoved`), behind an Ok.  Calls that return a status return the device's.  A toggle
  whose first write was carried out, but answered by another request's answer,
  reads again and flips back (`smartshift.rs:326-333`): `BeforeWriting` keeps what the
  first attempt has left, and `Toggled` says when the mode has moved.
- *Pairing.*  What is open is what the cancel of this phase closes
  (`WindowIsOurs`), through inventory's writes and changes of hand.  That no
  pairing the session has read of ends as a failure: `NewsArrive` keeps for each
  announced slot a report that is still to be read, until one has been read.
- *Inventory's view of a receiver.*  The last report of a slot on its way says
  what is so (`WireIsFresh`), so does the last the pass has queued
  (`QueueIsFresh`), and a slot of which nothing is on its way is, at every stage
  of a pass, as that stage has it (`PassIsRight`).  A Bolt pass believes a
  slot's silence only if it has found as many as it counted;
  `FoundAreCounted` shows that none can be missing then: unless, and TLC found this
  when the invariant was tried beyond the reach of the runs, a slot is filled after
  the count.  The newcomer then stands in for a slot that could not be read,
  which stays off the list until a later pass.  The ghost `filled` marks such
  passes, and the property leaves out the slots one of them did not find (they become
  `silent`).
- *Feature walk.*  While no call has given up on an answer, what is
  under way is what is waited for (`FlightIsAwaited`), so that an entry that is
  read is the one asked for; what is bound was read where it is bound, and the
  other way round (`BoundWhereRead`, `ReadAreBound`).  An answer that comes late can only
  take the place of an entry; where that entry is the feature set's, which is
  bound before the walk, a feature is read that nobody binds, and the
  property leaves this out.
- *Names.*  `ReadSoFar`: the text so far is the beginning of the name.  The last
  part brings it to the name and zeroes after it, and trimming both gives the
  same, of whatever size the parts are (`PaddingIsTrimmed`).  A part that splits a character is
  refused, so that nothing has to be said of it.
- *Tables.*  `TableInv`: the stream is the first bytes of the list, however pages
  cut its words, so that a zero is among its words when the list has ended
  (`ListEnds`).  What the readers compute is a function on the places of a list,
  each from the places behind it; it exists (`ReadingIsDefined`), and is what the
  list supports from a place on (`WellFormedIsRead`), both by the last place
  where they are not.  A step that is broken puts the refusal before
  every place ahead of it (`MalformedIsRefused`).  The wheel's number adds up
  over pages, and is below the marks for "no wheel" as the table is bounded.
Only model-checked: `EveryCallReturns`, `DropCompletes`, `NodesRecover`, `StopIsSeen`,
`DeafnessNoticed` and `RestoredElsewhere`, as liveness under fairness is out of the
prover's reach; and `ReadAsMeant`: it is about 44 given layouts against the given bytes of
their devices, and would be proved by computing both for each of them, as TLC does.

## What is not modelled

- The winner among several nodes that publish one route, and the pool's open
  when none does: `Enumerator` has one publication per node, `CaptureSession` a
  publication that changes at will, which is what a user of a route sees.
- The standalone and wired listings, and how the collections of a Windows device
  are grouped: pure conversions of what the OS lists.
- The slot in which capture sessions keep a shared channel: a reference that
  nothing in a session reads.
- On a Unifying receiver, whether a device whose link is established is the new
  one or an old one that reconnects: the code has only that flag to go by, so that
  a reported slot is claimed to be news on Bolt only.
- Several control ids that stand for one button (`ButtonId`): `CapturedInput` has one
  control for each.
- The HID++ 1.0 register layouts, the decoding of error codes, the choice
  among the controls a device lists, and tables of known ids.
- Gesture modes, maps per application and binding tables: maps without a protocol.
- Diagnostics dumps and the Litra lights: single reads and writes without a sequence.
- The event emitter (a list of senders under one lock; what its users rely on is
  `NoListenerSkipped`, a layer below), the derive macros, host lifecycle and permissions
  (glue; the suspends they report turn the gate of `HidTransport`), the device
  registry's constant tables, application support, and the C interface, each
  call of which builds a runtime and enumerates once.
- `write_raw_report` writes outside the queue and changes none of the modelled
  state.  Files that do not parse, and the layout of TOML.
