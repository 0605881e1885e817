# A TLA+ model of LibretroWebXR's shared rooms and saves

LibretroWebXR puts libretro consoles in a WebXR room that several people share. One of them,
the *host*, runs the emulators and streams the picture; the others watch, hold cartridges and
controllers, and send input. The program's own concurrent logic is in how those people agree:
who is in the room, who is host, and what the shared objects of the room hold, through sockets
that drop, come back and are refused; and, on each machine, in which cores run while boots,
roles and budgets move, and in how the consoles' battery saves reach the store while games are
swapped. This directory models that logic in TLA+, checks it with TLC on small instances and
proves nearly every safety property with TLAPS, for any number of peers, clients, consoles and
games.

## Running it

    tlc -config RoomElection.cfg MCRoomElection.tla
    tlc -config RoomState.cfg    MCRoomState.tla
    tlc -config RoomSync.cfg     MCRoomSync.tla
    tlc -config SaveRam.cfg      MCSaveRam.tla
    tlc -config FallbackElection.cfg MCFallbackElection.tla
    tlc -config CoreRack.cfg     MCCoreRack.tla
    tlc -config Admission.cfg    MCAdmission.tla
    tlapm SumTheorems.tla
    tlapm RoomElectionProofs.tla
    tlapm RoomStateProofs.tla
    tlapm RoomSyncProofs.tla
    tlapm RoomConnectionProofs.tla
    tlapm AdmissionProofs.tla
    tlapm CoreRackProofs.tla
    tlapm SaveRamProofs.tla

`PROJECT.json` lists every run, which definition models which lines, a mutation for every
checked property that TLC catches, the hazards and the theorems.

## Inventory of the system

Each component with the state it keeps, its operations, whom it talks to, what is hard
about it and what makes it correct.

**Hub** (`server/Hub.js`), the pure model of all rooms. *State*: `rooms` (members in join
order, with the session id each gave), `roomHosts`, `hostGrace` (the session a role is kept
for, and since when), `roomState` (key to value and last writer), and the running tallies
`peerOwn`, `roomCost`, `_totalCost` the limits read. *Operations*: `connect`, `disconnect`,
`expireHostGrace`, `sweepEmptyRooms`, `setState`; `identify`, `pose`, `signal`, `input` and
`wire` only stamp the sender on a message and relay it. *Correct when*: there is one host at
most and it is a member; a departed host's role is kept for it and for nobody else, and the
wait ends; the tallies equal what a scan would find; the budgets hold; host-owned keys
follow the role; nothing of a departed peer or an emptied room is left behind.

**Relay** (`server/room-server.mjs`), the WebSocket adapter. *State*: the sockets of each
room, the one reclaim timer per room, token buckets, the counters of admitted, refused and
closing sockets, the total of queued bytes. *Operations*: `verifyClient`, the `connection`,
`message` and `close` handlers, `scheduleHostGrace`, `evictSlow`, the heartbeat, the
sweeper, the drain. *Hard*: a socket being closed is a member until its `close` and hears
nothing meanwhile; the timer may run late; a frame over the rate is dropped silently;
refusing connections itself costs sockets. *Correct when*: every member whose socket is
open knows the host; every hostless room has its timer; the caps hold and refusals do not
starve the admitted.

**RoomConnection** (`src/net/RoomConnection.js`), the client's socket. *State*: `ws`,
`_hostId`, the retry counter, the soft-refusal flag, the fatal latch, the fallback
election. *Operations*: `open`, `close`, the socket's listeners, the retry timer, the
fallback deadline. *Hard*: the listeners of a replaced socket; a refusal looks like an
opening and then a bare 1006. *Correct when*: a disconnected client never believes itself
host; it retries with growing delays that only a HELLO resets; a fatal refusal is final.

**NetMgr, DesktopNet and RoomObjects** (`src/net`, `src/desktop`), the client's copy of the
room. *State*: key to value and writer. *Operations*: optimistic local writes, the STATE
frames applied as they come. *Hard*: local writes cross broadcasts on the wire; the copy
outlives a socket; a refused write has already been applied. *Correct when*: the copies
converge to the server's map.

**HostElection** (`src/net/HostElection.js`): claims ordered by time and id, used with
servers that do not elect. **PresenceState, AvatarMgr, LiveAvatars**: poses with a
time-to-live and the meshes that follow. **VideoMgr, VoiceMgr**: WebRTC meshes; connection
epochs tell the messages of a closed connection from its replacement's.

**AuthorityEpoch and the boot path** (`src/net/AuthorityEpoch.js`, `src/main.js`): a boot
that awaited a download gives up if the role moved meanwhile. **ConsoleRuntime, RackMgr,
RackBudget, PowerMgr**: consoles behind a run gate and a live budget, booted and disposed
of asynchronously. *Correct when*: one machine runs a core, a core that finishes booting
after the gate closed stays paused, a disposed console does not come back.

**WorkerEmulatorClient and its runtime** (`src/runtime`): requests with timeouts over a
Worker; `start`, `stop`, teardown. *Hard*: late answers, listeners of a terminated worker, a
start during a stop's await. *Correct when*: each request settles once, and a teardown only
touches its own worker.

**SaveRamGuard, SaveRamStore** (`src/`): battery saves flushed through a chain per console,
with a generation and a fingerprint. *State*: `tracked`, `written`, `chains`, `gen`; one
record per core and content in IndexedDB. *Operations*: `track`, `flush`, `flushAll`,
`retire`, called by a timer, by page events and by every boot path. *Hard*: the console gets
another game while a flush waits its turn, reads or writes; the worker asked may be torn
down. *Correct when*: no game's bytes are stored under another's name, the outgoing game is
stored before its core goes, a boot restores nothing older than what a live core has, and no
boot waits for ever.

**Input routing** (`GameInputMgr`, `Patchbay`, `Bindings`, ...), **held props and sync views**
(`HoldState`, `PropSync`, `GrabMgr`, ...), **rooms and content** (`RoomLoader`,
`RomResolver`, ...), **scene and audio** (`SceneMgr`, `TV`, ...), **shells**, **log server**:
sequential maps, parsing, drawing, or an independent service.

The components meet as follows. A client's socket carries JSON frames in order each way. The
relay hands every event to the Hub as a method call, and sends what it returns: HELLO and the
snapshot to a joiner, HOST when the role moved, STATE to everybody but the writer or, as a
correction, to the writer alone. `RoomConnection` keeps the host view and passes frames to
`NetMgr`, which applies STATE to `RoomObjects` and calls back into the page; the page's
boot path and rack act on who is host.

The hazards of all this, at the line where each bites, are in `PROJECT.json`.

## Modules

| module | what it is | code |
|---|---|---|
| `HostRole` | the promise about the host role: no clocks, no records, no timers | abstract |
| `RoomElection` | membership, election, reclaim timer, sweeper, who was told what | `Hub.js`, `room-server.mjs` |
| `RoomState` | extends it with the shared state, its limits, access rules and tallies | `Hub.js` |
| `RoomSync` | extends that with the clients: copies, host views, channels, reconnects | `NetMgr.js`, `RoomObjects.js`, `RoomConnection.js`, `room-server.mjs` |
| `RoomConnection` | a client's socket: opening, refusals, backoff, the fatal latch | `RoomConnection.js` |
| `FallbackElection` | extends it with who is host, against a relay that elects, one that does not and one of another protocol | `HostElection.js`, `RoomConnection.js`, `NetMgr.js` |
| `Admission` | upgrades, caps, scores per address, refusals, heartbeat, drain | `room-server.mjs` |
| `CoreRack` | the cores of one page: boots, roles, the live budget, power | `main.js`, `ConsoleRuntime.js`, `RackMgr.js`, `RackBudget.js`, `PowerMgr.js`, `AuthorityEpoch.js`, the two clients |
| `SaveRam` | flushes, cards and boots of the consoles of one machine | `SaveRamGuard.js`, `SaveRamStore.js`, `main.js`, `WorkerEmulatorClient.js` |
| `SharedRoom` | what `RoomSync` promises its clients: no sockets, frames, queues or corrections | abstract |
| `MC...` | constants for TLC | |
| `SumTheorems` | lemmas: least elements, totals over finite sets | |
| `RoomElectionProofs`, `RoomStateProofs`, `RoomSyncProofs`, `RoomConnectionProofs` (with `FallbackElection`), `AdmissionProofs`, `CoreRackProofs`, `SaveRamProofs` | theorems and proofs | |

Definitions whose comment says *mutant* are deliberately wrong variants of the definition
that follows; nothing refers to them, and each is there to show that some property fails
when it takes the place of the right one.

### RoomElection

One room is modelled: the Hub's maps are keyed by room and an election reads no other room.
`seq[p]` is the join number of a member (the room's insertion order and `_seq`), 0 for a
peer that is not one; `sid[p]` the session it gave; `roomHost` is `roomHosts.get(room)`;
`graceSid` and `graceAge` are `hostGrace`'s record, the second as an age because the code
only ever compares ages with constants; `timerAge` is the age of the room's one timer in
`hostTimers`. `closing` holds the members whose WebSocket the server has begun to close:
`sendTo` skips them, the Hub still counts them. `told[p]` is what the adapter last sent p
about the host, so that the four places that decide whom to tell can be checked against what
is true.

`Connect` is `Hub.connect` with the adapter's HELLO and HOST; `Disconnect` the `close`
handler with `Hub.disconnect` and `scheduleHostGrace`; `ExpireHostGrace` the timer's
callback; `Sweep` what `sweepEmptyRooms` does to a live room; `BeginClose` any close the
server starts; `Tick` a unit of time. The timer of an emptied room is not cancelled by the
code, and is not here; a new reservation replaces it.

`HostRole` says the same with four variables. `RoomElection` refines it with
`holder <- HostOf` and `reserved <-` the session of the record *while it counts*
(`_activeGrace`). What the mapping makes visible is a 50 ms interval: the record stops
counting at the end of the window and the timer comes a moment later, and a peer that joins
in between becomes host at once, ahead of those who waited. `HostRole` allows it as a
lapsed reservation filled by a newcomer.

### RoomState

`value` and `owner` are `roomState`'s entries; `ownKeys`, `ownCost`, `roomCost` the running
tallies; `elsewhere` is the rest of `_totalCost`, moved by `OtherRooms`. Every change goes
through `SetEntry`, `DelEntries` or `DropRoomState`, as in the code. `SetState` is
`setState`: limits (`Admitted`) before access rules (`Authorised`) before the write, and a
refusal changes nothing. A value is a model value with a cost; which structural limit an
oversized value breaks does not matter, as all of them refuse it. Malformed keys and values
that cannot be serialised are dropped before any state is read and are left out.
`HubDisconnect` clears the owner-scoped keys of the departed peer, or the whole room.

### RoomSync

A client *is* its session id. `conn[c]` is its socket, `hostView[c]` its `_hostId`, `copy[c]`
its `RoomObjects`; `up[p]` and `down[p]` are the frames in flight on socket p, in order. `Join`
is the server's `connection` handler (HELLO, then one STATE per held key), `HandleState` its
`message` handler with the broadcast or the correction, `SocketClosed` its `close` handler,
`DropOverBudget` the rate limiter. `LocalSet` is `setObjectState`, copy first; `Receive` the
routing of one frame; `LoseSocket` an unexpected close, after which the client joins again with
the copy it had; `LeaveRoom` a deliberate one, after which the next session starts from
nothing. Note that the client's side and the server's side of a socket end in separate steps:
between `LoseSocket` and `SocketClosed` the server has a member nobody reads for. `Restart`
ends the server's process: the room is forgotten at once, and each client finds out in its own
time, having read what had already been sent to it.

`past[c]` and `lost[c]` are history: whether the client wrote or came back since it entered the
room, and the keys of which it has written a value to nobody, the frame being over its rate,
with no STATE of the key since. The properties use them to say for whom, and for which keys,
they hold.

`SharedRoom` says what all this is for, with six variables: the room's values and host, who is
present, what each sees of both, and the keys each may see in its own way. There, a change is
seen at once by all who are present; a client that writes a key is `unsure` of it until the
room or the client is put right; who enters sees the room as it is. `RoomSync` implements it
under the mapping at the end of the module: what a client sees of a key is what its copy will
hold once the frames on their way to it have come (`InEffect`), it is unsure of the keys it
owns, has a write of on its way, or has lost a write of (`Unsure`), and it is present while it
has a socket and the server counts that socket as a member (`Inside`): from its HELLO until
either side gives the socket up, or the server restarts.

Three actions of `RoomState` are left out of this composition, as their effect is covered:
other rooms are idle (their part is checked in `RoomState`); the sweeper drops nothing under
a punctual timer (theorem `HostlessRoomIsRescued`); and a socket the server is closing,
which is sent nothing more, is indistinguishable for its client from one that receives
nothing more before it is lost.

### RoomConnection

`sock[c]` is what the client's one socket is doing, the other variables are the object's
fields: `connected`, `closing`, `fatal` (latched or not), `tries`, `retryLater` (the soft
refusal's flag) and `retryIn`, the delay of the pending `_reconnectTimer`. The relay is any
relay: it may accept, accept only to say "try again" (1013), refuse without an 'open' event, be of
another protocol, cut at any time. Close codes are told apart as far as the code does.

`Open`, `SocketOpened` and `SocketClosed` are `open()` and the listeners, `ScheduleReconnect` and
`NoteFatal` what they call, `SessionEstablished` and `HelloRefused` the two ends of the HELLO
gate, `RetryFires` the timer. `Leave` closes for good and the page drops the object, so a
late `close` of that socket meets an object that is closing and does nothing; this is why
one socket per client is enough. `waited` is the last delay since a HELLO, a history variable.

### FallbackElection

The same clients with what the owner of the connection keeps: roster (`peers`), `selfId`, the
host view, `_serverElects`, the pending deadline, the claims and the client's copy of
`'hostClaim'`. `Elect` is `_runFallbackElection` whole: claim, note what the copy says, take the
winner, announce oneself if the board names another. `relay` is what the clients have met, and
`Restart` replaces it: deployed apart from the page, a relay may come back older, newer or
incompatible. A modern relay's election is reduced to what `HostRole` promises. The relay
sends to each socket in order (`coming`), and forgets a dead socket in a later step (`Reap`).

`Prune` and `ReceivePose` are the roster's time to live: a peer whose page is in the background
sends no poses and is taken off the others' rosters, while its socket lives and it still
elects; so is the ghost of a dropped socket, which the relay still has in the room. It may
happen to any peer at any time, before and after closes and restarts. That takes five seconds
without a pose, and the deadline 1.2 from the HELLO, so that `Prune` waits for it. Both are
left out where no election can follow. Left out is a frame's way to the relay, on which nothing
of the sender still depends.

Five ways in which the code departs from what its comments promise. `PeersAgree` and
`NobodyWaitsInVain` name the first three as exceptions; `vote` is the history variable that
tells how a client's last election on its socket went. The deadline is not cleared by an
unexpected close (`RoomConnection.js:383` ff.), so it may fire on the next socket before the
HELLO and elect the client under its old id, which nobody has; the new HELLO then arms no
election that would replace it (`"early"`), against `HostElection.js:11-16`. `_serverElects` is
never reset by an unexpected close, so that a client of a modern relay that is replaced by a
legacy one elects nobody (`Stranded`). A client that elects while a peer is off its roster
ignores that peer's claim (`"blind"`); the peer's next pose puts it back on the roster, but
nobody elects again, so that the client may keep another host than the rest of the room,
against "every peer independently computes the same winner" (`HostElection.js:17-18`). This
takes three clients: one that is silent and has the best claim, one that announces itself, and
one that takes the second for host. With the two clients of the run, each one's own claim hides
it; it came up when `PeersAgree` was to be proved for any number of them. A peer that is silent
claims on while the others ignore its claim: each of the two then answers the other's
announcement with its own, at the speed of the network, until a pose comes ("simultaneous
claims are harmless", `HostElection.js:24`). The properties hold through it, as they are about
rooms at rest. And `desktop/main.js:556-558` makes a second `DesktopNet` without disconnecting
the first; that page then has two connections, which the model, one per client, does not have.

### Admission

`clients` is `wss.clients` with the fields the server stamps on each socket; `addrState` the
record of each address, with its two scores; `charged` is history, the upgrades charged per
address in each of the last `Window` ticks. A tick is `1/Window` of `UPGRADE_WINDOW_MS`, and
scores are kept in units of `1/Window` of an upgrade, so that a drain is a whole number.

An upgrade is one step with its 'connection' event. `Admit`, `RefuseSoftly` (a socket accepted
only to be closed with a reason) and `RefuseHard` (no socket) are the answers of
`verifyClient`; `AdmitTheDeparted` and `RefuseTheDeparted` are the two of them for a client
that left during the handshake, charged all the same. A socket that is closing is no longer
billed to its address, but still counts as a session and a member (`surveyClients`).
`Heartbeat`, `PingGracePasses` and `Pong` are the reaping of the silent, `Sweep` the sweeper of
the records, `Shutdown` and `Restart` the drain and a new process.

Left out: origins, the token bucket and the queues. Either closes a session
when it runs over, which `CloseSession` may do at any time; which socket
`enforceAggregateBudget` picks, and that it may evict several because the queues of the sockets it
has closed still count, is not modelled, nor that the closes with 4008 and 4010 have no terminate
timer of their own and rely on the peer or on the heartbeat.

Two things a reader of the comments would not expect. "Exactly more than MAX_UPGRADES_PER_IP
within the window" does not hold of a leaky score: up to twice as many fit in a window, and
`BudgetsHold` states that bound. And a pong that is late, but comes, bills a socket again
that its address has been given a place for, so that the address is over its cap of sockets:
`CapsHold` therefore says nothing of the cap per address.

### CoreRack

The console a page starts with (`Primary`) and one secondary that stands for all. `rack[c]` is
the console's runtime, `order` that of `RackMgr._runtimes`, `rt[r]` a runtime with its client:
the game it was given, the flag `paused`, and whether there is a core and it runs. A boot is a
record that goes from `fetching` to `starting` to `done` or `dropped`; its six kinds are the
paths of `main.js`: `load` (`loadCartridge`), `pick` (a file of this machine), `reboot` (with
other devices), `spawn`, `into` (`loadCartridgeIntoConsole`) and `swap` (`swapConsoleCore`).
They differ in what they check and when (`GiveWay`, `GiveUp`, `Cleared`), whether they make a
fresh runtime (`NeedsRuntime`) and what they commit (`Finish`). `epoch[c]` is the console's
boot transaction; `handoffs` the count a boot captures, `latch` the display-only latch, and
`MayRunLocalCore` the run gate.

`Starting`, `Started` and `StartThrows` are the two clients' `start`: on the page's thread the
pause flag is applied again once the core is up, in a worker it is not; a second start in a
worker while the first is pending loses both. `ApplyBudget` is `RackMgr.applyBudget` with
`planLive`. The roles are those `net` and its `hostId()` imply: alone, in a room whose role is
open, host, watcher; what moves them is chosen, as `RoomElection` and `FallbackElection` say
who does.

`raced` and `blind` are history: consoles where a boot began while another could not give way any
more, and runtimes a picked file was started in after the room was lost. They name what the code
really does, as exceptions of the properties:

- the file picker checks for the host role when it is opened and not again (`main.js:8108`);
- a boot makes its last check before `start`, so that an older one that is past it may overtake
  a newer one that began since;
- `swapConsoleCore` checks neither, and `loadCartridgeIntoConsole` captures the console's
  runtime before its fetch (`main.js:6937`) and may start a core in it after another boot has
  replaced it.

Facts of the code the model has and no property claims: a pick commits `currentMeta` though a
newer boot has superseded it; it does not set `_lastLoadedMeta` (`lastLoaded`), so that arming
or disarming a device after a pick boots the cartridge loaded before it (`main.js:6225`,
`6329`, `8211`); a console that was powered off is resumed by the next `applyBudget` that finds
room for it; a load given up for lost authority is queued again even when the page is host or
alone again by then; `RackMgr.remove` of the focused console leaves no focus until the next
gaze; the first load abandoned after its core started leaves a core and no current cartridge; a
second console whose spawn fails keeps no runtime, but its set stays.

Left out: that a cartridge of another core reloads the page (it starts again), unloading a
spawned console, the geometry of the gaze, what is drawn, and that a first `callMain` that
throws leaves `_coreLoaded` set.

### SaveRam

This module stands alone: it is about one machine. `worker` lists the workers started so
far, with what each core has in its save memory; `rack[c]` is the worker of console c's
installed client; `boot[c]` the boot under way there and how far it is. `tracked`, `written`,
`chain` and `gen` are the guard's variables; `card[g]` is the store's record of game g.

A save memory is a number that grows with play, 0 for none, so that older and newer bytes can
be told apart and a fingerprint is the number itself. A flush goes through three steps,
because two of them are awaited: `FlushStarts` (the generation check and the late look-up of
the client), `MemoryRead` (the worker's answer) and `Stored` (the store's transaction);
`FlushFails` ends it at either await, with the rejection a teardown sends, a timeout or an
aborted transaction. A flush whose predecessor has ended starts in a microtask, before the
page can do anything else: the guard `Settled` of every other action says so.

A boot is `BootBegins` (`buildStartOptions`, which flushes everything), `CardRead`, `HandOver`
(the flush of the outgoing game, which only the primary console's hot boot lacks),
`CoreStarts` (`client.start`; a hot boot stops the old worker first, and the new one is at
once what the console's client talks to), `CoreUp` and `Installed` (for a fresh boot the
runtime is replaced and the old one retired; `track` in the same turn). `BootAbandoned` is any
of the checks before the console is touched, `BootFails` a `start` that throws. Which path a
cartridge takes (`Path`) is the comparison of cores, execution and boot configuration.

`exposed`, and `by`, `ran`, `seen` and `outgoing` in the records, are history for the
properties. One boot at a time runs on a console; two that overlap there are not modelled.

## Runs

**election** (three connection ids, two sessions, four connections, a window of one tick, slack
of one, a timer up to three ticks late). Three peers are what a succession needs: the host that
left, a senior, a junior. Two sessions and "none" make the returning host, a stranger and a
peer that cannot be recognised. Four connections let the host leave, come back and leave again.
Three late ticks take a record past the sweeper's `4 * Window`. Checked: `RoleSound` (the host
is a member, and nobody holds a role that is reserved), `MembersKnowHost`,
`ReservationIsTimed`, the refinement `ImplementsHostRole` and, under fairness, `HostlessEnds`.

*Fairness.* The event loop runs a timer that is due (`ExpireHostGrace`), time passes (`Tick`),
and a socket being closed is closed: every close the server starts is followed by a
`terminate()` on a timer. No fairness is assumed of clients: nobody has to join, leave or
return. `HostlessEnds` has the premise that the timer is never so late that the sweeper
removes its record first; without it the room would really stay hostless.

**state** (three peers, three connections, a host-owned and two owner-scoped keys, values of
cost 1, 2 and too big; limits of one key per peer, two per room, costs of two, three and
four). Every limit can be reached with the others slack, and overwriting is the interesting
case at each. Peers are interchangeable. Checked: `KeyTalliesExact`, `CostTalliesExact`,
`WithinBudgets`, `NoOrphanGrip`, `EmptyRoomIsForgotten`, `HostKeysFollowRole`.

**sync** (two clients, three sockets and connections, a host-owned and an owner-scoped key, one
value, two events, each a local write or a restart, one key per peer so that refusals happen).
With one value and the absence of one, a copy is right or wrong about a key, which is all the
properties ask. Three sockets are two clients and one return; two writes are a race, a write
and a restart leave a copy of a room nobody else knows. The bound on connections is one of the
whole behaviour: a client may return after the restart to find the other in its place. Checked:
`BystandersAgree` (only a key's last writer can be out of step with the server, or whoever's
write of that key was dropped over the rate), `WalkInConverges` (a client that only ever
watched has the room's state exactly), `NoPretender` (a client in the room that believes itself
host is the server's host), `EveryoneKnowsTheHost` (a client in the room with nothing on its
way knows the host) and `HostlessIsRescued`. The refinement of `SharedRoom` is not a property
of this run, only because that takes about seven minutes: TLC checked `ImplementsSharedRoom`
over the whole state space of the run before it was proved.

**saves** (two consoles, the first of them the primary; two games of one worker core and one
of a main-thread core that has no card; three boots, two changes of memory, one timer, one
failure). Two worker games of one core make every hot swap, the third makes the fresh ones
and the console that is tracked no longer. Three boots put one game on both consoles and then
swap it, or swap twice. Two changes of memory are an older and a newer save. The two worker
games are interchangeable, hence the symmetry. Counters end, so the run does not look for
deadlocks; what must not get stuck is `NoBootStuck`. Checked: `CheckpointKept` (when the new
core starts, what the outgoing game had in memory is on its card), `RestoredIsCurrent` (a boot
never gets a record older than what a console running that game had when the boot flushed),
`ForeignOnlyBetweenGames` (only a flush during a hot swap can put one game's bytes on
another's card) and `NoBootStuck`. Nothing is assumed fair: no property of this module needs
it.

**connection** (two clients, two closes, three ids, two clock values, one restart, or one peer
that is pruned for its silence, alive or a ghost, whatever has closed by then, the first three
delays of each table). Two clients are a host and another; three ids let one of them come back;
two closes let a refusal follow a refusal, which is what the sticky flag is about, or both
clients lose their sockets. Two clock values put claims in either order. The restart meets
every pair of relays. Clients are interchangeable. Counters end, so no deadlock is looked for.
Checked: `ComesBack` (a client that wants in has a socket under way or one timer, and never
both; one refused for good has neither), `DelaysGrow` (no delay between two HELLOs is shorter
than the last), `PeersAgree` (clients of a relay that does not elect, at rest, agree on one of
them, and the board names it) and `NobodyWaitsInVain` (a client in a room with nothing on its
way has the relay's host, or one that is in the room).

**rack** (two boots, four changes of role, power and settings; a budget of two; a light core
with two sets of devices and a worker core that leaves no room beside it). Two boots are every
pair of kinds that may overlap, on one console or two. Four changes let a page join, become
host, lose the role and get it back or leave. Three boots with one change pass as well, in
twice the time; it takes three to reboot, with another device, a cartridge that a picked file
has replaced. A page may stop being asked, so deadlock is not looked for. Checked:
`WatcherRunsNothing`, `NewestWins`, `CardFollowsCore`, `FocusedRuns` and `NoOrphans`, each once
the boots concerned have ended.

**admission** (four sockets, one billed address and the unbillable one, three rooms; limits of
three sessions, two per address, two rooms, two peers, one refusal, two upgrades and one soft
refusal per window of two ticks). Every cap can be met with the others slack, and one more name
than each cap allows. A window of two ticks is the least in which a score can be half drained.
Sockets and rooms are interchangeable. Checked, deadlock included: `CapsHold`, `BudgetsHold`,
`EntitledGetIn` (whoever is within every limit is let in, whatever others and its own refusals
have done) and `RefusalsCostNothing`. With two soft refusals it passes as well.

No fairness is assumed in these three runs either.

Two things the model of the saves shows and no property claims: a console that re-boots its own
game reads the card before the outgoing core's last flush, so that what was played in between
is rolled back; and the flush `retire` asks for never writes, since the replacement is tracked
in the same turn and supersedes it. Two consoles on one game share its card, and the last to
write wins; the properties compare what one console wrote with what it had.

Five runs look for a violation of something the repository says, and find it:

- **ghost**, `ReturnedHostReclaims`. A host that comes back before the server has seen its old
  socket close joins as a plain member; the close then reserves the role for a session that
  is already in the room, and the timer gives it to the senior peer. `docs/MULTIPLAYER.md`
  says the returning host reclaims the role.
- **keys**, `PeerKeyLimit`. The per-peer key limit is checked for new keys only, and
  overwriting moves ownership.
- **race**, `QuietAgreement`. Two clients write one key at once; the one the server handles
  last receives the other's broadcast afterwards, and keeps it. `RoomObjects.js` calls the
  entries something "everyone in the room agrees on".
- **stale**, `ReplayRestores`. A key cleared while a client was away stays in its copy: the
  snapshot holds no clears and the copy is not emptied on a reconnect.
- **gap**, `CardsAreTheirOwn`. Between the start of a hot-swapped core and its `track`, the
  guard still holds the old game's identity and generation, and the client answers with the
  new game's memory; a flush that falls there stores it on the old game's card.
  `SaveRamGuard.js` promises saves "keyed by the identity that console actually booted".

## What is proved

For any sets of peers, sessions, keys and values, any limits and any lateness of the timer
(the assumptions are `ElectionConstants` and `StateConstants`):

- `ElectionIsTyped`, `TheRoleIsSound`, `ReservationHasItsTimer`,
  `EveryMemberKnowsTheHost`, from the inductive invariant `TypeInv /\ RoleInv`. The
  invariants do not stand alone: that everyone was told the host is preserved by a departure
  only because a recorded host is a member, that a reservation is hostless only because the
  record is removed wherever a host is made, and join numbers must be distinct for
  `Senior` to exist and be unique.
- `HostlessRoomIsRescued`: if `Slack + MaxLate <= 3 * Window`, a hostless room with members
  always has its record and its timer. The assumption is what keeps the record's age, equal to
  the timer's, within the sweeper's `4 * Window`. `HUB` values: 20 s window, 50 ms slack, so a
  timer may be almost a minute late.
- `HubImplementsHostRole`: the refinement, initial states and every step.
- `HubRunsTheElection`: `HubSpec => ElectionSpec`, so every theorem above holds of the server
  with its shared state.
- `KeyTalliesAreExact`, `RoomStaysWithinKeyLimit`, `GripsHaveHolders` from `EntryInv`, in which
  the entries' types and the exact key counts carry each other: the count of the previous owner
  is positive exactly because the entry being overwritten is one of its keys, so the
  subtraction and the deletion of a spent tally agree.
- `HostKeysFollowTheRole`, an action property, from the entries' invariant and the election's.

For any clients, any two tables of growing delays of the same length, the second nowhere quicker
(`ConnectionConstants`):

- `ConnectionIsTyped`, `ClientComesBack` and `DelaysOnlyGrow` of a client against a relay that
  does anything, from `ConnInv == ConnTypeOK /\ Consistent /\ WaitedIsEntry`. `Consistent` ties
  `connected`, `closing` and `fatal` to the socket, without which a close of a socket that was
  already closing could leave a timer; `WaitedIsEntry` says that the last delay is the entry of
  the table in force at the number of tries made, from which the next one cannot be shorter:
  the sticky flag may move from the quick table to the slow one and not back.
- `ElectorsAreConnections`: a behaviour of `FallbackElection` is one of `RoomConnection`, so
  both hold of its clients, whatever is elected meanwhile.

For any finite set of sockets and rooms, any addresses and limits (`AdmissionConstants`):

- `AdmissionTypeCorrect` and `CapsAreKept`, from `AdmTypeOK /\ CapsHold`: the lemmas say that
  an admission adds one session and at most one room where there was place for both, and that
  everything else adds none.
- `RefusalsAreFree`, an action property: a refusal leaves every session where it was and every
  score of upgrades as it was, so whoever would have been let in before it is let in after it.

For any values, costs, limits and finite sets of keys and peers, further:

- `CostTalliesAreExact`, `BudgetsAreKept`, `EmptyRoomsAreForgotten`, `StateTypes`, from
  `CostInv`. A tally of the code is changed by what one entry costs; the property says it is
  the sum over all of them. `SumTheorems` gives what that needs: the total of the empty set is
  nothing, and taking one element out of a finite set takes its weight off the total, whichever
  element the recursion of the definition would have taken first. It is proved by a least
  counterexample in a well-founded order, as the induction theorems of the library take an
  operator.

For any number of clients and sockets, finite set of keys, and frames in flight (`RoomSync`):

- `TheOthersAgree`, `WhoWalksInConverges`, `NobodyPretends`, `RescuedAcrossRestarts`,
  `SyncTypes`. The properties speak of a client at rest; the invariant, `ClientsInv`, of every
  client. `InEffect(c, k)` is what key k will be once the frames on their way have come: the
  last of them about k, or the copy. It equals the server's value unless the client itself owns
  the key, has a write of it on its way or has lost one; and a name on its way to a client is
  the host's if it is the client's own. Each step sends a frame, takes the first or ends a
  channel, and there is a lemma for each about what the frames that are left will do.
- `RoomIsShared`, the refinement: `SyncSpec => ImplementsSharedRoom`. `ClientsInv` makes it
  possible: that a frame changes nothing when it is read is the definition of `InEffect`, but
  that a client sees the room's value of a key the moment it is not unsure of it any more is
  the invariant. The steps map as their names say: `Join` to `Enter`; `LocalSet` to `Write`, or
  to nothing on a client outside; a frame read to nothing, or to `Settle` when it ends the
  doubt a dropped write left; a socket lost, left or closed, and a restart, to `Leave`, with
  the keys the server clears for it; an accepted write to `Change`, a refused one to `Settle`,
  as its correction is on its way; a write dropped to nothing, for the client stays as unsure
  as it was; the timer to `Appoint`.
- `SharedRoomAgrees`: in `SharedRoom` all who are present agree on the host, and on every key
  each of them is sure of. Three conjuncts that are inductive as they stand, which is what the
  abstract module is for.
- `TheHostIsKnown`, from the two: what a client will see of the host is the room's, and at rest
  it is what it sees.

For any sockets, rooms and addresses, whatever the limits and the window (`Admission`):

- `BudgetsAreHeld` and `TheEntitledAreAdmitted`, from `ScoresTrack`: what an address was charged
  in the last k + 1 ticks is still in its score, but for what k drains took; and the score is no
  more than that and what is left of an older full bucket. With k the whole window, the first is
  the bound of twice the budget and the second gives a place to whoever has used up less than
  its share. A record that is dropped is empty, so its score is the one it would get anew.

For any games with any weights, budget, number of boots and of changes (`CoreRack`; its two
consoles are the module's):

- `RackTypes`, `WatchersRunNothing`, `TheNewestWins`, `TheCardFollows`, `NobodyIsOrphaned`,
  `TheFocusedRuns`, from `BootInv`. On a console where boots have not raced, a boot that starts
  a core is the newest one there and the runtime it captured is still the console's
  (`Orderly`); what the results say of boots that have ended holds while others are under way
  (`NewestIsLoaded`, `CardIsOfCore`, `HasAHome`). That a page without the right to run a core
  runs none (`Watching`) is preserved because what a boot starts is resumed through the gate or
  put under the budget, which pauses all of the rack where no core may run, and losing the
  right pauses all of it. The other way round (`Looking`): a core that does not run is paused,
  and a console that is paused though it may run is loaded and not looked at, so the next
  glance, which applies the budget with it in focus, resumes it. `planLive` admits the focused
  runtime before it weighs the rest, whatever the fold over the rest computes; getting the role
  back resumes the primary console first, which the budget would pass over while it has no
  content.

For any consoles, games and numbers of boots, flushes and failures (`SaveRam`):

- `SaveTypes` and `CardsAreKeptApart`, from `SaveInv`: a generation is given out once, so a flush
  that finds its generation current is of the game the console has now; a tracked console runs
  the game it is tracked under, unless a hot boot is between its two games; a flush keeps the
  worker it found. Each of them is needed for the next, and none is visible in the property.
- `CheckpointsAreKept` and `RestoresAreCurrent`, from a second invariant, `SavesKept`. The two
  properties look at one step of a boot and compare a card with what a core had in memory some
  steps ago; the invariant follows that debt in between. A boot is owed what it replaces, and
  what it saw in the memory of each console that ran its game (`Owed`): a flush it awaits is
  still queued, or reads the worker that still has it, or has bytes at least as new under way,
  or, when it awaits none any more, the card has it. A flush that finds the bytes unchanged
  stores nothing, so the other half of the invariant says that whatever the guard may take for
  unchanged is on the card: in the core a console runs (`RunIsMarked`), in the core that boots
  (`BootIsMarked`), and in what the boot restores (`RestoredIsMarked`). For that no two consoles
  may have to do with one worker (`OwnWorkers`), a console that runs a game with a card must be
  tracked, whatever retires are still in its chain (`StaysTracked`), and what is played must be
  newer than all that is stored, so that fingerprints do not collide (`Played`). TLC checked
  `SavesKept` over the whole `saves` run before it was proved.
- `BootsGoOn`: the guards of the steps that `NoBootStuck` says are enabled. A boot may take a
  step of its own, or the first flush of a chain with a flush that it awaits may be answered,
  rejected or stored; the worker of a boot that starts is not stopped by anybody else.

For any clients, ids, clock values, restarts and silences (`FallbackElection`):

- `FallbackTypes`, `WaitersHaveAHost` and `TheRoomAgrees`, from `ElectInv`. Claims first: whatever
  claim is held, sent or on the board under the id of a socket is the one its client made
  (`Genuine`), and ids are given out once (`Distinct`). Then what is on its way: a client will
  have for a copy what is on the board, unless that is its own claim or that of a peer that has
  gone (`Mirrors`); a peer it knows of, or took for its host, is in the room, or its LEAVE is on
  its way (`Departures`); the last frame that names a host names the relay's (`HostNamed`). And
  what a fair election leaves behind (`FairVote`): the own claim and the copy's were considered,
  and no peer of the room has a better one than the host. At rest the peer with the best claim
  of those present took itself, so the board has its claim; every other one has the board's claim
  for a copy, considered it, and could not find a better. The run has two clients, the proof any
  number; it is the proof that showed the exception `"blind"` to be needed (above).

The invariants were checked by TLC before they were proved, `ElectInv` over the whole state
space of the run and by simulation with three clients, four closes and three upsets.

What stays with TLC, and why:

- `HostlessEnds` is liveness, and `NoBootStuck` speaks of `ENABLED`: what is proved about the
  second is that the guards hold (`BootsGoOn`), not that the steps they guard are enabled.

## What is not modelled, and the plan

Order of work, most important behaviour first:

1. `HostRole`, `RoomElection`, their runs and proofs. *Done.*
2. `RoomState` and its proofs. *Done.*
3. `RoomSync`, which composes both with the clients. *Done*, a restart of the server included.
4. `RoomConnection` and `FallbackElection`, with the proofs about the connection. *Done.*
5. `SaveRam`. *Done*, but for boots of one console that overlap (the superseded boot of the
   primary does not track what it installed) and the card UI. Which boot wins such a race, and
   that the card follows the core that won, is in `CoreRack`.
6. The request table of the worker client: timeouts that race an answer, an event of a dead
   worker. Not done: what a boot and a flush see of a worker is in `CoreRack` and `SaveRam`.
7. `CoreRack`. *Done.*
8. `Admission` and its proofs. *Done*, but for the send queues and the token bucket.
9. Proofs of the safety properties of every module. *Done*, but for `NoBootStuck` of `SaveRam`, of
   which the guards are proved.

Left out for good: the relays of poses, signals and input (no state), avatars, WebRTC
negotiation (mostly the browser's), rendering, audio, geometry, parsing and tables, what the
main-thread client asks of the Emscripten module beyond `start`, `pause` and `resume` (its states
are the library's), the log server. Reasons are with each component in `PROJECT.json`.
