# A TLA+ model of pigsydust

pigsydust is a Go library that controls SAL Pixie / Telink BLE mesh switches
through one mesh node (the gateway) over Bluetooth Low Energy. This directory
models the parts of it that keep state and run concurrently, and programs built
on the rest; it checks them with TLC on small instances, and proves their safety
with TLAPS for every value of their constants. Paths below are relative to the
repository (`src/` in `PROJECT.json`).

## The system

| Component | State | Operations | Hard behaviours | What makes it correct |
|---|---|---|---|---|
| **Session** (`client.go`, `session.go`, `crypto/login.go`, `crypto/crypto.go`) | key, 2-byte salt, sequence byte, `loggedIn`, under `session.mu` | `Login`, `Send`, `nextSNO` | concurrent Sends; two critical sections in one Send; a handshake of two transport calls that may fail half-way; the wrap of the sequence byte | client and node share the key; no nonce is used twice under a key before the counter wraps; every packet belongs to one session |
| **Heartbeat** (`client.go`, `options.go`) | `hbOnce`, `hbCancel`, `hbDone`, the ticker, the loop | `startHeartbeat`, `heartbeatLoop`, `Close` | Logins that race; `Close` reads its fields without a lock; a `select` with both cases ready; the 30 s timer of the node | one loop at most; none after Close; read errors do not end it; reads in time for the node |
| **Notification stream** (`client.go`, `notification.go`) | `notifyActive` under `notifyMu`, the captured key, the channel `out` | `Notifications`, its pump goroutine | error returns; a receiver that stops; cancellation while blocked; undecryptable packets in between | one owner of the subscription; nothing lost or reordered while the context lives; closed and released once cancelled |
| **Transport** (`ble/transport.go`) | `mu` | `WritePair`, `ReadPair`, `WriteCommand`, `SubscribeNotify` | the kick outside the mutex, failing after the path was started | the channel is what `charIO.subscribe` promises |
| **Notification path** (`ble/chario_linux.go`, `ble/chario_tinygo.go`) | raw HCI socket or callback, channel of 64 | `subscribe`, `readHCINotifications`, the callback | a full channel; cancellation at any point; order of the deferred calls; a callback during the close | never blocks the BLE stack, closes once cancelled, leaks no socket, delivers one handle |
| **Connect** (`ble/adapter_linux.go`, `ble/adapter_tinygo.go`) | the link, match rule, signal channel, timer | `connect`, `waitServicesResolved` | a property that changes between a Get and the subscription; a full signal channel; errors at each step | returns; disconnects on error, unless that fails; removes its rule; enumerates only resolved services |
| **Scan** (`ble/scanner_linux.go`, `ble/scanner_tinygo.go`) | accumulated properties, `sigCh` of 128, `out` of 16, discovery | `scan`, `stopScan` | properties in pieces; a receiver that stops; errors before and after the goroutine exists | reports what appears; closes once cancelled; leaves nothing behind |
| **Alarm times** (`schedule/timezone.go`) | none (pure) | `LocalToUTC`, `UTCToLocal` | midnight, end of the week, the unused bit | the alarm fires at the same hour of the week; the two are inverse |
| **Alarm records** (`schedule/alarm.go`, `command/schedule.go`) | the coordinator's slots and half-written record | the constructors, `SetActive`, `WriteAlarm`, `QueryAlarm`, `DeleteAlarm` | two fragments that are lost or interleaved with another program's | what is stored was written, or is a collision of the checksum; a clean write is stored |
| **Groups** (`command/group.go`, `command/command.go`) | the groups of a device | `QueryGroupMembership`, `ParseGroupMembership`, `SetGroupMembership`, `Encode` | read, change and write back; terminators; the cut | a rewrite changes no other group |
| **Statuses** (`notification.go`, `command/control.go`, `command/status.go`) | the program's map of statuses | `ParseDeviceStatus`, `ParseDeviceStatusBroadcast`, `OnOff`, `StatusPoll`, `StatusQuery` | reports lost, repeated, overtaken; a blind toggle before the look-up | the light is left as the look-up after the blind toggle found it |
| **Programs** (`ble/cmd/`) | the contexts, the deferred calls, the receiving goroutine | the three `main`s | errors that skip the deferred calls, an interrupt, a flood of notifications | they end; everything is stopped before the disconnect |
| Advertisements, addresses, NewAdapter, constants, other builders and parsers | none | pure | boundaries | see "Not modelled" |

How they interact: a program scans (`Adapter.Scan`), connects
(`Adapter.Connect`), wraps the connection in a `ble.Transport` and hands it to
`NewClient`. `Client.Login` calls `WritePair` and `ReadPair`, installs the
session and starts the heartbeat, which calls `ReadPair` for ever.
`Client.Send` calls `WriteCommand`. `Client.Notifications` calls
`SubscribeNotify`, which starts the notification path of the platform; the
path fills a raw channel without blocking, the pump empties it, decrypts and
fills the channel of the caller, blocking. All of them share nothing but the
session (under its mutex) and the Transport. Alarms, groups and statuses are
commands and notifications of the same client; what they act on is in the mesh.

## Modules

`Session` models each critical section of `session.mu` and each transport call
as one step, so goroutines interleave exactly where the code lets go of the
lock. Keys are symbolic: `DeriveSessionKey` is a pair of the random numbers,
each of which is fresh. A packet shows its key and what its nonce is made of
(`CommandNonce`); the fields `era` and `nth` are history, the session the
serial number was taken from and its issue number. Any goroutine may be in
`Login` while any other is in `Login` or `Send`: nothing in the code keeps them
apart. `split` is history too: it says that some Login has installed its session
while a Send was between its two critical sections.
**`CommandChannel`** is its abstract specification: a pairing replaces the
session at once, a command is sealed at once under the current key and the next
number. `Session!ImplementsCommandChannel` is the refinement: the steps of
Login map to a stutter but the install, which is `Pair`; `nextSNO` is `Seal`. It
is stated of the steps up to the first one that sets `split`
(`CC!Init /\ [][~split' => CC!Next]`), because after that the code does seal a
packet in two sessions.

`Heartbeat` models `sync.Once` (fresh, running, done: a second caller waits for
the body), the two field writes of its body, the loop with its one-place
ticker, and Close with its two reads. With `CloseRaces` the reads of Close may
return nil or what was written, as the Go memory model allows for a race.
`Keepalive` is the same loop against a clock: ticker, read latency and the
firmware's timer, in seconds.

`Notifications` models one call of `Client.Notifications` and its pump per
element of `Calls`, the channels as sequences, Logins that replace the session,
and packets known by the session they were encrypted under.
**`NotificationStream`** is what the caller is promised: one stream open at a
time, a queue for each that loses nothing before a cancellation, closed only if
it was cancelled or its source ended, and always once it is cancelled. A packet
enters the queue each time it comes off the air: decryption looks at the key and
at nothing it has seen before (`TagVerifies`), so a retransmit is one more entry. The
refinement (`Notifications!Stream`) maps the queue to the two channels with the
pump's hand in between, filtered by what decrypts, so skipping a packet is a
stutter.

**`RawChannel`** is what `charIO.subscribe` promises: a bounded channel that is
offered to the caller once, or an error instead. `HCIReader` (Linux) has a
step per system call of `readHCINotifications`; `TinygoNotify` has the callback
in several threads, which may run before `EnableNotifications` has returned, and
the closing goroutine. `BleTransport` composes the two
with the Transport: writers under the mutex, and `SubscribeNotify` with its
kick over the path of the `platform`. `BleTransport!ImplementsRawChannel` shows
that both are that channel. The mutex is there because it is in the code; no
property is about it, since the kick is written outside.

`Connect` has a step per D-Bus call of `connect` and `waitServicesResolved`
against BlueZ, which resolves the services at any time, and the shorter
sequence of the tinygo adapter. A `Disconnect` may return an error, which the
code ignores everywhere, and then the link stays; `kept` is history and records
that. `Program` runs it as a part of the three
programs under `ble/cmd`: `main` has a step per call, and its context is
`Connect`'s, so an interrupt may come anywhere. `log.Fatal` ends the process at
once; a return goes through the deferred calls in their order. The client is
reduced to what the other modules show of it: a heartbeat that runs from `Login`
until `Close` has stopped it, and a stream that is closed some time after its
context is cancelled, or by itself.

`ScanLinux` has a step per D-Bus call, per signal taken and per deferred call;
a device's properties are "wanted" or "unwanted" by the filter. The loop ends when
the context is cancelled or when the bus is lost and the library closes `sigCh`;
`StopDiscovery` may fail, and `leftOn` is history of that and of a
`StartDiscovery` that was given up and worked. `ScanTinygo` has the stack's
goroutine with its callbacks and the closing goroutine. `Scan` composes them
with the caller.

`Timezone` lets an editor load, edit and save an alarm any number of times; the
repeat byte is the set of its bits. `AlarmRecord` has the 16 bytes of a record,
each the set of its bits so that `^` is the symmetric difference, and the two
fragments `WriteAlarm` cuts it into. In `Alarms` the editor sets its alarm to
another time and writes what it converted, others write records of their own or
switch stored ones on and off, all at the same time, and a fragment may be lost. The coordinator is external:
it puts a fragment 1 to the last fragment 0 it got and stores the record if the
checksum fits; whether it then forgets the head is left open. `written`, `clean` and `saved` are
history: the records somebody began to write, the writes that nothing has
disturbed, and the local times the editor saved, without those that a later
save has surely replaced, because it arrived whole and nobody was writing the older one.

`Groups` has a program that reads a device's groups and writes the list back
with one added or removed, beside another one. `SetGroupMembership` carries the
count of the list, `Encoded` is the cut of `Encode`, and the answer to a query is
a payload of ten bytes in which a 0x00 or 0xFF ends the list.

`Statuses` has what smoke does with the lights: it switches the mudroom on and
off, looks it up in its map, switches it to the opposite and back. The map is
filled by the two status parsers from notifications that are lost, repeated and
overtaken; if the mudroom is not in it, smoke skips the rest. `latest`,
`current`, `before`, `sure` and `initially` are history: they tell whether the
status found was that of the latest report, what it was, and what it had been
before the blind toggle.

`Applications` puts the four programs (the converter, `Alarms`, `Groups`,
`Statuses`) side by side; they share nothing, and which runs is chosen once.

The eight modules whose names end in `Proofs` hold the theorems, one for each
component or composition; the `MC` modules give constants their values. Two of
them put two modules that share nothing into one run and choose one at the start:
`MCHeartbeat` has `Heartbeat` or `Keepalive`, `MCNotifications` has
`Notifications` or `BleTransport`. Operators marked
"Variant for the mutants" are plausible mistakes in the code, most of them for
one property; no specification uses them.

### Environment

The D-Bus library forwards a signal to a registered channel. When the channel
is full, the model puts it beside: it may enter later, behind signals that came
after it, or never. This covers libraries that spawn a sender and those that
drop. BlueZ does not undo a call that was given up because its context was
done, and keeps the connection of a process that is gone. A call to it may fail,
`Disconnect` and `StopDiscovery` too, whose errors the code ignores. The connection to
the bus may be lost during a scan. `select` with several
ready cases is a nondeterministic choice. A map that one goroutine reads while
another writes it either works or ends the process, which is what Go's runtime
does when it notices.

## Runs

Each passing run explores its instance completely.

| Run | Question | Bounds, and why they are enough |
|---|---|---|
| `MCSession` | Logins and Sends in any overlap, failing at every call: do keys agree, are nonces unique, is it a `CommandChannel`? | 3 goroutines, interchangeable: two Logins cross while a Send is under way, or a Login meets two Sends between their critical sections; counter modulo 2, so that it wraps within 4 Sends; 2 salts, which may repeat; 2 Logins |
| `MCSessionTorn` (violation) | Does a Send use one session if a Login overlaps? No. | 2 goroutines, 2 Logins, 2 Sends |
| `MCHeartbeat` | One loop; Close returns with it stopped; errors do not end it. Are 25 s enough for the 30 s timer? | 3 callers, 2 Logins, 2 Closes: two Logins race in the Once, two Closes wait on one channel. The clock has the real numbers; latency 2 s is the largest whole number that satisfies `Interval + 2 * Latency < Timeout`; one failure |
| `MCHeartbeatRelogin` (violation) | Does a Login after Close start a heartbeat? No. | `LoginAfterClose` |
| `MCNotifications` | Two calls compete for the subscription. Are both notification paths a `RawChannel`? | channels of 1, so that both fill; 2 packets and a repeat; 2 sessions, so that packets of the other one arrive. Paths: channel of 2, 1 frame in the socket, 2 handles, 2 callbacks at once, 2 writers |
| `MCNotificationsRetransmit` (violation) | Is a retransmit of what was consumed dropped? No. | one call, 2 packets and a repeat |
| `MCTinygoPanic` (violation) | Can a callback send on the closed channel? Yes. | the paths of `MCNotifications` |
| `MCProgram` | The three programs end and take everything down; connect cleans up on every path | signal channel of 2 and 3 other signals: it overflows; a stream of 2, so that it fills |
| `MCConnectLostSignal` (violation) | Is a timeout proof of unresolved services? No. | no other signals, no failing Get: only the order of Get and AddMatch matters |
| `MCScan` | Scan reports, closes, cleans up | 1 device (devices do not interact but through the channels, which one fills), `sigCh` of 2, `out` of 1, 3 changes in BlueZ, the loss of the bus being one: they overflow `sigCh`, and let a device vanish and return |
| `MCApplications` | Conversions for real offsets; alarms edited and written through a mesh that loses and interleaves; rewritten groups; a restored light | converter: all of -12 to 14, 24 hours, 256 repeat bytes. Alarms: an editor and two others, 3 writes, 2 slots; edits that go over midnight and the end of the week, two of which differ in hour and day and have the same fold for their offset, and one without a day; records of others whose heads collide in the checksum, so that a torn record is stored. Groups: lists of 0 to 11 (room for 8), both terminators. Statuses: 2 devices, 2 notifications on the way, 2 answers or changes by hand beside smoke's own: the report that smoke misses and the late one that replaces a newer both occur |
| `MCSmokeOriginal` (violation) | Does smoke restore the state the light had when it began? No. | the statuses of `MCApplications` |

Deadlock is not checked: the bounded instances end (all Logins and Sends spent,
scan over, program ended), and so does the system. Where a system must not get stuck a
liveness property says so.

### What the properties say

*Session.* `SnoReusedOnlyAfterWrap` and `NonceReusedOnlyAfterWrap` relate any two
packets on the air. `KeysAgree` relates client and node after any sequence of
failed and crossing handshakes, as long as the last request the node took is
that of the installed session; `NodeCanDecrypt` is about a packet that is
written while the node is paired with the Login the packet has its key from:
other Logins may have crossed that one, and some may have failed before they
reached the node since the packet was built. Where the node has gone on to another
pairing, by a Login that then failed or that crossed, what the client sends is lost;
neither property speaks of that case, which the findings describe. `SnoInv` is the inductive invariant of the proof, checked here
as well. `NonceReusedOnlyAfterWrap` and the refinement except what comes after a
`split`, which is `MCSessionTorn`.

*Heartbeat.* `AtMostOneLoop`, `ClosedMeansStopped`, `HeartbeatWhileOpen`,
`CloseReturns`; `KeepsReading`, that a loop that was started is in a read, or comes
to one, again and again, whatever its earlier reads returned, unless it is
cancelled; `DroppedOnlyAfterFailure` and `SilenceBounded` on the clock.

*Notifications.* `ActiveIffOwned`, and `ImplementsNotificationStream`, which
says that nothing is lost or reordered and that what is delivered came off the air
as often as it is delivered, that the channel closes only
when it may and always when it must, and that the next stream opens only once
the last is released.

*Transport and paths.* `ImplementsRawChannel`, which includes that only
notifications of the subscribed handle come through (of whichever connection:
HCI handles of connections are not in the model), and `NoSocketLeft`.

*Connect and programs.* `ConnectLeavesNothing` (no rule, and no link unless its
Disconnect failed), `EnumeratesResolved`;
`TakenDownInOrder` relates the heartbeat, the receiver and the link at every
disconnect; `ProgramEnds`.

*Scan.* `AccumulatedCurrent`, `NewDeviceReported`, `ClosedOnceCancelled`;
`NothingLeft`, that when the channel is closed rules and registration are gone and
discovery is off, however the loop ended, unless BlueZ failed to stop it or
carried out a start that was given up (`leftOn`).

*Alarms.* `FiresOnTime` and `NoDrift` of the conversion; `StoredFiresOnTime` of
what the coordinator holds, through edits, `Recurring`, `SetActive` and
fragments lost or mixed: the editor's alarm fires at a time the editor saved, and not
at one that a later save has replaced. A rewrite of which a fragment is lost leaves
the older time, and no property denies that; `TornOnlyOnCollision`, that a record put together from two writes has
heads that differ in two bytes and have one fold (such records are in the
instance, and are stored); `CleanWriteStored`, that an undisturbed write is
stored exactly.

*Groups and statuses.* `RewriteKeepsOthers` for a list that was read whole, is
still true and leaves room; `RestoresWhatItFound`, that the light is left as it was at the look-up, if the
report smoke went by was the latest and no later command was lost. Neither holds
without these conditions, which are the hazards the code leaves to its caller.
The look-up comes after the blind toggle, so this is not the state smoke began
with (`MCSmokeOriginal`).

### Fairness

Only goroutines that can run are assumed to run, and nothing of the
environment that the code cannot enforce.

* `Heartbeat`: weak fairness of the steps of Login and Close, of the ticker and
  of taking a tick; strong fairness of `LoopStop`, because Go's `select` picks
  among ready cases at random and will not pick the tick for ever. `ReadPair`
  is assumed to return only once its context is cancelled (`FairSpecCtx`):
  BlueZ calls use `CallWithContext`. The tinygo `charIO` ignores the context;
  there `CloseReturns` rests on the stack's own timeout.
* `Notifications`: weak fairness of the call and of its pump, and of `PumpStops`
  by itself: a case that stays ready is chosen in the end. Fairness of the call
  includes that `SubscribeNotify` returns, which the D-Bus calls below it do by the
  end of their context at the latest. Nothing of the receiver, the node or of
  what the Transport puts into the channel.
* `BleTransport` (`PathProceeds`): the reader goroutine and the closing goroutine
  run on; `poll` has a timeout of 200 ms. Nothing of writers, kernel, kick or receiver.
* `Program`: the scan times out, D-Bus calls and those of the tinygo stack
  return, the timers fire, `main` and its goroutine run on; a cancelled
  heartbeat stops and a cancelled stream is closed, as `CloseReturns` of
  `Heartbeat` and the liveness of `NotificationStream` have it. Nothing of the
  node, the mesh or the user. In listen's loop `WatchEnds` needs no fairness of
  its own: the check after each notification ends it.
* `Applications` has no liveness property: nothing in the code repeats a command
  that was lost.
* `Scan`: the goroutines run on, and `Receive` is fair for a caller that has
  not given the channel up (variable `gone`); a caller may give up at any time.

## Findings

Six runs end in a counterexample that contradicts what the code says of itself
(`findings` in `PROJECT.json` quotes the lines).

1. **A Send may mix two sessions** (`MCSessionTorn`). `client.go:113` captures the
   key, `nextSNO` takes the number later; a Login in between gives a packet
   under the old key with the salt and counter of the new session.
2. **No heartbeat after a re-Login** (`MCHeartbeatRelogin`). `hbOnce` has run, so
   a Login after Close starts none, and the node drops the link.
3. **A notification after cancellation panics** (`MCTinygoPanic`).
   `ble/chario_tinygo.go:58` closes the channel while the callback stays
   registered.
4. **A lost ServicesResolved** (`MCConnectLostSignal`). The property is read
   before the match rule exists and never again.
5. **A retransmit is delivered again** (`MCNotificationsRetransmit`).
   `client.go:127` says that mesh retransmits already consumed fail the CBC-MAC and
   are dropped; the check at `client.go:175` knows the key and nothing of what
   was consumed.
6. **smoke does not restore the original state** (`MCSmokeOriginal`). It sends ON
   and OFF (`ble/cmd/smoke/main.go:150`) before it looks the light up, so a light that
   was on is found off and left off.

Seen while modelling, without a run of their own:

* After a Login whose request reached the node and that then failed, the client
  keeps the old session and stays logged in, and every command is under a key
  the node no longer has. So it is when two Logins cross: the one that installs last
  need not be the one the node is paired with.
* `Notifications` keeps the key of the session it started in: after a re-Login
  it skips every new packet. Late packets of its own session still verify.
* The HCI reader compares attribute handles and not connections: a second
  connection to an equal device on one adapter is mixed in.
* If the kick of `SubscribeNotify` fails, the reader runs on until the context
  is cancelled, and nobody holds its channel.
* The kick is written outside the mutex, beside commands.
* `ErrTagMismatch` is never returned: `crypto.Decrypt` makes an error of its own.
* Linux scan: when the second `AddMatch` fails the first rule stays. The
  properties `GetManagedObjects` reports are not kept, so a cached device whose
  name is known but whose manufacturer data comes by a signal is not reported
  under a MeshName filter. `Adapter.StopScan` stops discovery but not the scan,
  whose goroutine and rules stay until the context is cancelled (the quick start
  of the repository's README calls `StopScan` alone).
* tinygo scan: a callback in progress may send on the closed channel; a
  cancellation before `bt.Scan` has begun stops nothing, and the scan goes on.
  Here `Adapter.StopScan` does end the scan.
* tinygo connect does not check that all three characteristics were found; one
  that is missing is used when `Login` first writes. Such a device is not in the model.
* `waitServicesResolved` does not look whether its signal channel was closed
  (`ble/adapter_linux.go:203`): if the bus is lost while it waits, it takes nil
  signals until its timer fires. The loss of the bus is modelled for the scan only.
* `Recurring(0x80)` passes the check for a weekday and builds a record with none.
  What `LocalToUTC` returned never has that bit.
* The checksum of `WriteAlarm` is one byte and travels in fragment 1: two
  programs that write at once can store a record that nobody wrote, if the heads
  have the same fold.
* `DeleteAlarm` names a slot; by the time it arrives another alarm may have it.
* `SetGroupMembership` sends a count that a truncated list does not have, and a
  group whose low byte is 0x00 or 0xFF ends the list when it is read back: a
  program that writes back what it read removes the device from the groups
  behind it. `AlarmFragment.Index` is never set.
* `ParseLEDState` and `ParseSlotAssignment` take any 0xD3 payload: neither looks
  at the header that tells the two apart.
* The programs: `log.Fatal` skips the deferred `conn.Close`, and on Linux the
  link stays up. smoke reads its map while the goroutine writes it. Its comment
  speaks of device 39; the address is 9. smoke and listen leave
  the scan running while they connect. On tinygo, `Connect` ignores an
  interrupt.

## Proofs

TLAPS proves these for every value of the constants that satisfies the named
assumptions of the modules (`SessionAssumption`, `HeartbeatAssumption`,
`KeepaliveAssumption` and `Comfortably`, `NotificationsAssumption`,
`BleTransportAssumption`, `ConnectAssumption` and `ProgramAssumption`,
`ScanAssumption`, `TimezoneAssumption`, `AlarmsAssumption`, `GroupsAssumption`,
`StatusesAssumption`). Every safety property and action property of a passing
run is the statement of a theorem. Each inductive invariant was first checked
with TLC on the run of its module. The invariants stand at the end of the module
they are about, under "Why ...", or in its proof module.

What four of the six counterexamples refute is true under a hypothesis that the
code does not keep, about its single steps or its lifecycle; a theorem
says so for each of these. (The other two, of retransmits and of smoke, are not about an
order of steps: the code has no step that would make the comment true.) The hypothesis rules out the order of steps that the
counterexample takes and leaves the other failures and interleavings in, so it
says what exactly is missing.

| Refuted | Theorem | Hypothesis |
|---|---|---|
| `SendUsesOneSession` | `OneSession` (`SessionProofs`) | `~split`: no Login has installed its session while a Send was between the key and `nextSNO`. One critical section for both would keep it. |
| `HeartbeatWhileOpen` | `BeatsWhileOpen` (`HeartbeatProofs`) | `CloseRaces` and `LoginAfterClose` FALSE: every Login comes before the first Close and races with none. |
| `NoSendOnClosed` | `PanicsOnlyOnLateCallback` (`BleTransportProofs`) | `CallbacksOver`: on tinygo no callback runs at the close, and none after. Nothing unregisters the callback, so the stack would have to keep it. On Linux nothing is asked. |
| `TimeoutMeansUnresolved` | `TimesOutOnlyUnheard` (`ProgramProofs`) | `ResolvedWhileHeard`: the services become resolved before the look at the property, which finds them so, or once the channel is registered. A second look after `RegisterSignal` would make it needless. |

* **`SessionProofs`**, all of it for Logins and Sends that overlap in any way.
  `TypeCorrect`, `SnoInvariant`
  (`SnoInv`), `SnoSafety` (`SnoReusedOnlyAfterWrap`). The property speaks of packets on
  the air only and is not inductive: it must be known of packets still in the
  hands of a goroutine, and that none of them will meet its number again.
  `SnoInv` says that a Login in progress has a randA of its own (`LoginsFresh`),
  that the sequence byte counts the numbers issued (`SnoCounted`), that a packet's
  byte is its issue number modulo the width and that number is spent
  (`PacketsSealed`), and that no number is spent twice (`IssuedOnce`). Two packets
  with one sequence byte then have different issue numbers that agree modulo the
  width, so they are a wrap apart.
  `HandshakeInvariant`, `KeyAgreement` (`KeysAgree`) and `DecryptableAtNode`
  (`NodeCanDecrypt`): `HandshakeInv` says that the answer a Login holds is the one to
  its own request if no other request came after it (`AnswersMatch`), and that the
  key a Send holds comes from a Login that is over, and is the node's if
  that Login's request is the last the node took (`CapturedKeys`). A Login that crosses
  another reads the other's answer, and then the node is no longer paired with it.
  `SealInvariant`, `OneSession` (`SendUsesOneSession`), `NonceSafety`
  (`NonceReusedOnlyAfterWrap`) and `ChannelRefinement` (`ImplementsCommandChannel`),
  as long as no Login has split a Send: `SealInv` says that a Send under way has
  found a session that a Login installed (`LoggedInByLogin`), and follows the key a
  Send holds up to its number (`SealedInOneSession`). So a packet's key names the
  session whose numbers it uses, and two equal nonces under one key are two equal serial
  numbers of one session, whatever the salt. In the refinement the install is
  `Pair`, `nextSNO` is `Seal`, a write is `Leave` or `Lose`, and every other step a
  stutter.
* **`HeartbeatProofs`**. With `CloseRaces` and `LoginAfterClose` in either value:
  `TypeCorrect`, `NeverTwoLoops` (`AtMostOneLoop`), `ClosedForGood`
  (`ClosedMeansStopped`). The invariant: one goroutine runs the body of the Once,
  and exactly while `once` is running (`BodyRunsAlone`); no loop is started before
  `once` is done, and never one but heartbeat 1's (`OnlyFirstLoop`); the Login
  inside startHeartbeat is counted (`LoginCounted`, which keeps the numbers in
  range); Close cancels a heartbeat that exists (`CancelHasTarget`); `hbDone` is
  closed by the loop as it exits (`ClosedByLoop`), and `stopped` follows a closed
  channel (`StoppedByLoop`).
  With both FALSE, as documented: `BeatsWhileOpen` (`HeartbeatWhileOpen`, which
  fails otherwise, see `MCHeartbeatRelogin`). `DocumentedInv` adds that until a
  Close begins nothing is cancelled and the one loop runs (`RunsUntilClose`), that
  afterwards no Login is in progress (`OverAfterClose`), and that a Login returns
  only after the body of the Once (`ReturnsAfterStart`).
  With `CloseRaces = FALSE`, Logins after a Close allowed: `CloseAwaitsCancelledLoop`,
  the safety half of `CloseReturns`. The channel a Close waits on is of a loop
  that was started and told to end, or is closed already; so no Close waits
  for what cannot come. `WaitInv` says that what the body of the Once wrote is
  seen whole by whoever reads it after (`FieldsPublished`) and which loop Close has
  found and cancelled at each of its steps (`CloseHasLoop`). A Close that races the
  body may wait for a loop that is not started yet.
* **`KeepaliveProofs`**: `TypeCorrect` (`ClockTypeOK`), `SilenceStaysBounded`, `KeptAlive`
  (`DroppedOnlyAfterFailure`), for every interval, latency and timeout with
  `Interval + 2 * Latency < Timeout`. The invariant bounds the node's silence by
  the age of the ticker and of the read, in each place of the loop.
* **`NotificationsProofs`**: `TypeCorrect`, `OneOwner` (`ActiveIffOwned`),
  `StreamInvariant` and `StreamRefinement`: `Notifications` implements
  `NotificationStream!SafeSpec`, the promise without its liveness, for any calls,
  packets and channel sizes. `PumpInStep` says what the two channels and the
  pump's hand may hold at each of its steps, and that it stops only for a
  reason. The queue of the abstract stream goes through `Decrypted`, a recursive
  function; that it exists, keeps its type, grows by what is appended and loses
  its first element with the sequence's is proved by induction on its length
  (below).
* **`BleTransportProofs`**: `PathInvariant`, `TypeCorrect` (`BleTypeOK`), `SocketClosed`
  (`NoSocketLeft`) and `ChannelRefinement`: either path implements
  `RawChannel!SafeSpec`. `PathInv` says, for Linux, that the reader reads what was
  announced and sends what passed the filter, and while which steps the socket is
  open (`ReaderInStep`); for tinygo, that the channel is closed only after the
  subscription (`CallbacksInStep`). `PanicsOnlyOnLateCallback` is in the table.
* **`ProgramProofs`**: `ConnectInvariant`, `ProgramInvariant`, `TypeCorrect`,
  `NothingLeft` (`ConnectLeavesNothing`), `ResolvedFirst` (`EnumeratesResolved`),
  `DownInTurn` (`TakenDownInOrder`). `ConnectInv`: where the match rule and the link
  are at each step of `connect` (the link wherever it was not `kept`), and that all news of resolved services, in the
  channel, beside it or in the variable of the loop, is BlueZ's. `ProgramInv`: how
  far the commands are at each call of `main` (`StepInPlace`), and which of heartbeat
  and receiver is at an end by each deferred call (`DownInOrder`).
  `WaitsOnlyForCancelled`, the safety half of `ProgramEnds`: whichever way main came
  there, it waits for `done` only if there is a receiver and its stream is told to
  end, and in Close only if there is a heartbeat. `TimesOutOnlyUnheard`: what is resolved
  while `connect` waits is on its way to it (`NewsNotMissed`), also past a channel
  that is full.
* **`ScanProofs`**: `ScanInvariant`, `TypeCorrect`, `ScanNothingLeft`
  (`NothingLeft`), `ScanAccumulatedCurrent` (`AccumulatedCurrent`), for any devices
  and sizes of the two channels. `TakenBack` ties rules, registration and
  discovery to the step of scan: up to the deferred `StopDiscovery`, discovery is
  on because of the start, and after it only if it was `leftOn`. `AccumulatedCurrent` speaks of an empty `sigCh`
  and is not inductive; `QueueCurrent` is: the last signal in `sigCh` about a
  property, or what was accumulated if there is none, is what BlueZ knows.
* **`ApplicationsProofs`**, for any offsets within a day, writers, records, groups,
  devices and bounds: `ApplicationsInvariant`, `ApplicationsTypeCorrect`;
  `AlarmsFireOnTime` (`FiresOnTime`) and `ConversionsInverse` (`NoDrift`) of the
  conversion; `StoredInTime` (`StoredFiresOnTime`),
  `ChecksumHolds` (`TornOnlyOnCollision`), `CleanWritesStored` (`CleanWriteStored`),
  `OtherGroupsKept` (`RewriteKeepsOthers`), `MudroomRestored` (`RestoresWhatItFound`).
  * Conversion: the lemma `HourOfWeek` shows that wrapped hour and moved day are one
    number modulo 168; `DayReturns` that the shift back undoes the shift. Every step
    of every program is one of `Timezone` or leaves the time alone.
  * Alarms: what is being written, what the coordinator keeps of a head and what it
    stores is, if it is the editor's alarm, for a time that no save has surely
    replaced (`WritingOnTime`, `HeadOnTime`, `StoredOnTime`), has a day and an hour
    (`WrittenTimes`), and is in one slot at most (`OneSlot`), so that a clean
    save replaces every older time (`ArrivalOnTime`). The
    coordinator's head is of a record that was written
    (`HeadWritten`), and of the writer's own if nothing disturbed it
    (`HeadUndisturbed`). `OneByteShows` counts, bit by bit, the bytes of a record
    modulo 2: records that differ in one byte differ in their fold, so what
    passes the checksum is what was written, or of two heads that differ twice
    (`ChecksumShows`) and have one fold (`HeadsFold`). `ByteInjective` shows that a byte is read back as the number
    it was.
  * Groups: a list that is fresh, has no terminator and leaves room has exactly
    the device's groups (`ReadWhole`). The ascending order of a set lists all of
    it because every rank is taken (`RankTaken`).
  * Statuses: a notification says one thing of a device (`EachSaysOnce`), the
    newest about a device is true wherever it is on its way (`LatestTrue`), so is
    the map for the devices in `current` (`MapCurrent`), and smoke remembers
    what it found (`RemembersOriginal`).

The library's induction theorems take an operator and cannot be instantiated
here. Two inductions over numbers are made without them: the set of the numbers
for which a statement holds contains all of `Nat`, because a least one outside it
would contradict that `<` is well-founded (`InductionOnNat`, from `WFMin`). One gives
the recursion of `Decrypted`, the other the ranks of the groups.

Only checked with TLC: every liveness property (`CloseReturns`, `KeepsReading`,
`ProgramEnds`, `NewDeviceReported`, `ClosedOnceCancelled`) and the liveness part of
`ImplementsNotificationStream` and `ImplementsRawChannel`, since liveness under
fairness and ENABLED are out of reach of the prover; and the six counterexamples
themselves. That every wait of `CloseReturns` and `ProgramEnds` is for something
already told to end is proved; that it then ends is what the runs check.

## Not modelled

* AES and the CCM bytes (`crypto/crypto.go`): symbolic. The repository's test
  vectors cover them.
* The command builders for LEDs, sunrise, find-me and the alternative group
  command, `ProbeGroup`, `SlotQuery` and `SetUTC`'s data, and the parsers
  `ParseLEDState` and `ParseSlotAssignment`: fixed layouts, and nothing in the
  repository keeps state by them. Advertisements, addresses, byte utilities:
  pure parsing; the filter of Scan is modelled by its verdict.
* Putting an alarm together from two 0xC2 notifications: the repository leaves
  it to the caller, so `LoadAlarm` reads a stored record in one step.
* What status parsers read besides address and on/off; what the programs print.
* `NewAdapter`, `findAdapter`: one look-up at start.
* `WithHeartbeatInterval` with a value that is not positive makes
  `time.NewTicker` panic; the model takes positive intervals.
* `protocol/` (tables) and `cmd/fixture` (prints test vectors).

## Plan

1. Core: `Session` over `CommandChannel`, `Heartbeat`, `Keepalive`,
   `Notifications`, the notification paths over `RawChannel`, `Connect`, `Scan`,
   `Timezone`, with the proofs above. *Done.*
2. `Alarms` over `Timezone`: records, fragments, checksum, several writers; the
   boundary of `Encode` in `Groups`; `Statuses`. *Done.*
3. The composition of connection, client and stream in the programs that use
   them (`Program`). *Done*; the client's own modules remain the detailed ones.
4. `NotificationStream`, implemented by `Notifications`. *Done.*
5. Proofs: the handshake, the seal and the refinement in `SessionProofs`,
   `NotificationsProofs`, `BleTransportProofs`, `ProgramProofs`, `ScanProofs`,
   `ApplicationsProofs`, and the step simulations of `CommandChannel`, `RawChannel`
   and `NotificationStream`. *Done.*
6. For the recorded counterexamples, the hypotheses under which the refuted
   statements are true; the safety halves of `CloseReturns` and `ProgramEnds`. *Done.*

## Running

    tlc -config MCSession.cfg MCSession
    tlapm SessionProofs.tla

`PROJECT.json` names the module of each run, the mutant that each property
catches, the source lines behind each definition, the hazards and the theorems.
