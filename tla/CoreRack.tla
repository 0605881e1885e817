------------------------------ MODULE CoreRack ------------------------------
(***************************************************************************)
(* The cores of one page: src/main.js's boot paths and role changes over   *)
(* src/RackMgr.js, ConsoleRuntime.js, RackBudget.js, net/AuthorityEpoch.js *)
(* and the two clients a core runs in, EmulatorClient.js (on the page's    *)
(* thread) and runtime/WorkerEmulatorClient.js (in a worker).              *)
(*                                                                         *)
(* A boot fetches, starts a core and commits, and anything may happen      *)
(* between the three: another boot of the same console, the loss of the    *)
(* room, Leave.  Starting means one of two things: a fresh runtime that    *)
(* replaces the console's when its core is up, or new content for the      *)
(* runtime there is.  Pausing is a flag of the client and a fact about the *)
(* core; a core that starts in a worker does not know the flag.            *)
(*                                                                         *)
(* A game is a ROM with the core and the devices it boots with.  One       *)
(* secondary console stands for all; that a cartridge of another core      *)
(* reloads the page is left out (the page starts again from Init).         *)
(***************************************************************************)
EXTENDS Naturals, SequencesExt, FiniteSetsExt, Functions

CONSTANTS
  Games,           \* records [rom, core, devices]
  WorkerCores,     \* the cores that run in a worker
  Weight,          \* coreWeight: core -> Nat
  Budget, MaxLive, \* DEFAULT_RACK_BUDGET, DEFAULT_MAX_LIVE
  Primary, Second, \* the consoles
  MaxBoots,        \* bound: boots over a behaviour
  MaxChanges       \* bound: changes of role, power and settings over a behaviour

Consoles == {Primary, Second}
Boots    == 1 .. MaxBoots
Runtimes == 0 .. MaxBoots      \* 0 is adopted by the primary console; a boot may make one
NoRuntime == MaxBoots + 1
None     == "none"
NoGame   == [rom |-> None, core |-> None, devices |-> None]

ASSUME RackConstants ==
  /\ Primary # Second
  /\ Budget \in Nat /\ MaxLive \in Nat \ {0} /\ MaxBoots \in Nat \ {0} /\ MaxChanges \in Nat
  /\ NoGame \notin Games
  /\ \A g \in Games : DOMAIN g = {"rom", "core", "devices"} /\ Weight[g.core] \in Nat

VARIABLES
  role,      \* "solo", "undecided", "host" or "watcher": what net and its hostId() say
  latch,     \* _displayOnlyLatch
  handoffs,  \* _authorityHandoffs
  pending,   \* _pendingInsertMeta
  arming,    \* a device waits for the cartridge that is loading (awaitPrimaryLoad)
  meta,      \* currentMeta, currentCore
  lastLoaded, \* _lastLoadedMeta, with the devices of that boot
  rack,      \* the runtime of each console, NoRuntime if it has none
  order,     \* the consoles in the order of RackMgr._runtimes
  rt,        \* the runtimes, each with its client
  focus,     \* RackMgr._focusedId
  autoPause, \* RackMgr._budgetEnabled
  powered,   \* consolePowered
  epoch,     \* _bootEpochs: the boot that moved a console's epoch last, 0 before the first
  card,      \* the game SaveRamGuard files the console's SaveRAM under
  boot,      \* the boots
  begun,     \* boots so far
  changes,   \* role changes and settings so far
  raced,     \* history: consoles where a boot began while another could not give way any more
  blind      \* history: runtimes a file picked before the loss of the room was started in

roleVars == <<role, latch, handoffs>>
gameVars == <<meta, lastLoaded>>
rackVars == <<rack, order, rt, focus>>
vars == <<roleVars, pending, arming, gameVars, rackVars, autoPause, powered, epoch, card, boot,
          begun, changes, raced, blind>>

Mode(g)  == IF g.core \in WorkerCores THEN "worker" ELSE "main"
Setup(g) == <<g.core, g.devices>>

AmRoomHost == role \in {"solo", "host"}
MayRunLocalCore == ~latch /\ role # "watcher"

-----------------------------------------------------------------------------
(* Runtimes.  client is None until the first start; alive: it has a core;    *)
(* starter: the boot whose worker it runs, 0 if there is none to start.      *)

NewRuntime == [client |-> None, game |-> NoGame, alive |-> FALSE,
               paused |-> FALSE, running |-> FALSE, starter |-> 0]
Loaded(x) == x.game # NoGame
IsLive(x) == Loaded(x) /\ ~x.paused

\* pause() and resume() of the client: on the page's thread they do nothing when the flag
\* says so already.
Paused(x) ==
  IF x.client = None \/ (x.client = "main" /\ x.paused) THEN x
  ELSE [x EXCEPT !.paused = TRUE, !.running = FALSE]
Resumed(x) ==
  IF x.client = None \/ (x.client = "main" /\ ~x.paused) THEN x
  ELSE [x EXCEPT !.paused = FALSE, !.running = x.alive]

\* ConsoleRuntime.resume(): refused where no core may run (mutant: it asks nobody).
ResumesAnyway(x) == Resumed(x)
ResumeGated(x) == IF MayRunLocalCore THEN Resumed(x) ELSE Paused(x)

\* dispose(): a worker goes, with the start it is in; a core on the page's thread is paused
\* (mutant: forgotten).
Forgotten(x) == x
Disposed(x) == [Paused(x) EXCEPT !.alive = (x.client = "main" /\ x.alive), !.starter = 0]

\* clientNeedsFreshBoot(): a worker is started anew for every content.
NeedsFreshBoot(x, g) == x.client = "main" /\ x.alive /\ Setup(x.game) # Setup(g)

\* start() of a client that has been another kind of client, or has another core.
StartThrows(x, g) == x.client \notin {None, Mode(g)} \/ NeedsFreshBoot(x, g)

\* start() up to its await, for boot b.  A worker is stopped first; the start that waited for
\* it then fails, and in its catch block tears down the worker that has come since: both
\* starts are lost.  (That the first may be answered while its worker stops is left out.)
Starting(x, g, b, contested) ==
  IF Mode(g) = "main" THEN [x EXCEPT !.client = "main"]
  ELSE [x EXCEPT !.client = "worker", !.alive = FALSE, !.running = FALSE,
                 !.starter = IF contested THEN 0 ELSE b]

\* The core is up: on the page's thread the flag is applied again, in a worker a pause has
\* been in vain unless it met a core to stop.
Started(x, g, runs) ==
  [x EXCEPT !.client = Mode(g), !.game = g, !.alive = TRUE,
            !.running = IF Mode(g) = "main" THEN ~x.paused ELSE runs \/ ~x.paused]

\* planLive(): the focused runtime, whatever it weighs, then the rest in order while there is
\* room.
PlanLive(k, rs, focused) ==
  LET Weighs(r) == Weight[k[r].game.core]
      Admit(rest, r) ==
        LET more == focused \cup rest \cup {r} IN
        IF Loaded(k[r]) /\ Cardinality(more) <= MaxLive /\ MapThenSumSet(Weighs, more) <= Budget
        THEN rest \cup {r} ELSE rest
  IN focused \cup FoldLeft(Admit, {}, rs)

\* applyBudget() over the runtimes k, racked as rk in the order ord, with focus f.
ApplyBudget(k, rk, ord, f, may, enabled) ==
  LET racked  == [i \in DOMAIN ord |-> rk[ord[i]]]
      loaded  == {r \in Range(racked) : Loaded(k[r])}
      focused == {r \in loaded : f # None /\ r = rk[f]}
      live    == IF ~enabled \/ Cardinality(loaded) <= 1 THEN loaded
                 ELSE PlanLive(k, racked, focused)
  IN [r \in Runtimes |->
        IF r \notin Range(racked) THEN k[r]
        ELSE IF ~may \/ (r \in loaded \ live /\ IsLive(k[r])) THEN Paused(k[r])
        ELSE IF r \in live /\ ~IsLive(k[r]) THEN Resumed(k[r])
        ELSE k[r]]

-----------------------------------------------------------------------------
Init ==
  /\ role = "solo" /\ latch = FALSE /\ handoffs = 0
  /\ pending = NoGame /\ arming = FALSE /\ meta = NoGame /\ lastLoaded = NoGame
  /\ rack = [c \in Consoles |-> IF c = Primary THEN 0 ELSE NoRuntime]
  /\ order = <<Primary>>
  /\ rt = [r \in Runtimes |-> NewRuntime]
  /\ focus = Primary
  /\ autoPause = TRUE
  /\ powered = [c \in Consoles |-> TRUE]
  /\ epoch = [c \in Consoles |-> 0]
  /\ card = [c \in Consoles |-> NoGame]
  /\ boot = [b \in Boots |-> [kind |-> None, at |-> Primary, game |-> NoGame, phase |-> None,
                              handoffs |-> 0, target |-> NoRuntime]]
  /\ begun = 0 /\ changes = 0
  /\ raced = {} /\ blind = {}

InFlight(b) == boot[b].phase \in {"fetching", "starting"}
\* The load begun last is the one that is waited for.
Loading == \E b \in Boots : /\ boot[b].kind = "load" /\ InFlight(b)
                            /\ \A o \in Boots : boot[o].kind = "load" => o <= b
Settled(c) == \A b \in Boots : boot[b].at = c => ~InFlight(b)

\* beginBootTransaction() and captureBootAuthority(): may boot b still commit?  (Mutant: a
\* boot asks once the newer one has committed.)
SupersededTooLate(b) ==
  LET newest == epoch[boot[b].at] IN newest # b /\ newest # 0 /\ boot[newest].phase = "done"
Superseded(b) == epoch[boot[b].at] # b
AuthorityLost(b) == handoffs # boot[b].handoffs \/ ~MayRunLocalCore

\* A boot that passed its last check, or has none, can only be raced.
BeyondRecall(b, c) ==
  boot[b].at = c /\ (boot[b].phase = "starting" \/ (boot[b].phase = "fetching" /\ boot[b].kind = "swap"))

\* The boots already under way at c when another one opens its transaction.
OpenTransaction(b, c) ==
  /\ epoch' = [epoch EXCEPT ![c] = b]
  /\ raced' = IF \E o \in Boots : BeyondRecall(o, c) THEN raced \cup {c} ELSE raced

Begin(kind, c, g, target) ==
  /\ begun < MaxBoots
  /\ begun' = begun + 1
  /\ boot' = [boot EXCEPT ![begun + 1] =
       [kind |-> kind, at |-> c, game |-> g, phase |-> "fetching",
        handoffs |-> handoffs, target |-> target]]
  /\ IF kind = "pick" THEN UNCHANGED <<epoch, raced>> ELSE OpenTransaction(begun + 1, c)

-----------------------------------------------------------------------------
(* What the player asks for.                                                 *)

\* loadCartridge(), reached through handleCartridgeInserted(): for another core the page
\* would be reloaded.
KeepsPage(g) == meta = NoGame \/ meta.core = g.core

InsertCartridge(g) ==
  /\ AmRoomHost
  /\ KeepsPage(g)
  /\ Begin("load", Primary, g, NoRuntime)
  /\ UNCHANGED <<roleVars, pending, arming, gameVars, rackVars, autoPause, powered, card, changes, blind>>

\* ... while the role is open: queued, to be replayed.
QueueCartridge(g) ==
  /\ role = "undecided"
  /\ pending' = g
  /\ UNCHANGED <<roleVars, arming, gameVars, rackVars, autoPause, powered, epoch, card, boot,
                 begun, changes, raced, blind>>

\* A file picked on this machine; its transaction opens when the file has been read.
PickFile(g) ==
  /\ AmRoomHost
  /\ Begin("pick", Primary, g, NoRuntime)
  /\ UNCHANGED <<roleVars, pending, arming, gameVars, rackVars, autoPause, powered, card, changes, blind>>

\* armPeripheral(), disarmPeripheral(): the ROM of the last cartridge with other devices,
\* whatever was picked since.  A load is waited for, and what it boots may do.
ArmDevice ==
  /\ AmRoomHost
  /\ ~arming
  /\ Loading
  /\ arming' = TRUE
  /\ UNCHANGED <<roleVars, pending, gameVars, rackVars, autoPause, powered, epoch, card, boot,
                 begun, changes, raced, blind>>

RebootWith(g) ==
  /\ lastLoaded # NoGame /\ g.rom = lastLoaded.rom /\ g # lastLoaded
  /\ Begin("reboot", Primary, g, NoRuntime)

Reboot(g) ==
  /\ ~Loading
  /\ AmRoomHost \/ arming
  /\ arming' = FALSE
  /\ RebootWith(g)
  /\ UNCHANGED <<roleVars, pending, gameVars, rackVars, autoPause, powered, card, changes, blind>>

\* The load has booted with the device.
NothingToArm ==
  /\ arming
  /\ ~Loading
  /\ arming' = FALSE
  /\ UNCHANGED <<roleVars, pending, gameVars, rackVars, autoPause, powered, epoch, card, boot,
                 begun, changes, raced, blind>>

\* spawnConsole().
Spawn(g) ==
  /\ AmRoomHost
  /\ rack[Second] = NoRuntime /\ Settled(Second)
  /\ Begin("spawn", Second, g, NoRuntime)
  /\ UNCHANGED <<roleVars, pending, arming, gameVars, rackVars, autoPause, powered, card, changes, blind>>

\* loadCartridgeIntoConsole(); swapConsoleCore() when the core is another one.
InsertSecond(g) ==
  /\ AmRoomHost
  /\ rack[Second] # NoRuntime
  /\ Begin(IF rt[rack[Second]].game.core = g.core THEN "into" ELSE "swap", Second, g, rack[Second])
  /\ UNCHANGED <<roleVars, pending, arming, gameVars, rackVars, autoPause, powered, card, changes, blind>>

-----------------------------------------------------------------------------
(* What a boot does next.                                                    *)

\* A fresh runtime, or new content for the runtime there is?
NeedsRuntime(b) ==
  LET g == boot[b].game IN
  CASE boot[b].kind \in {"reboot", "swap", "spawn"} -> TRUE
    [] boot[b].kind = "into" -> NeedsFreshBoot(rt[boot[b].target], g)
    [] OTHER -> meta # NoGame /\ (meta.core # g.core \/ NeedsFreshBoot(rt[rack[Primary]], g))
Chosen(b) ==
  IF NeedsRuntime(b) THEN b
  ELSE IF boot[b].kind = "into" THEN boot[b].target ELSE rack[Primary]

Fetched(b) == boot[b].phase = "fetching"
Heeds(b, kinds) == boot[b].kind \in kinds
Moves(b, phase) == boot' = [boot EXCEPT ![b].phase = phase]

\* The checks before a core is touched: a pick, a swap and a spawn have none, a reboot
\* asks only whether it is the newest.
GiveWay(b) ==
  /\ Fetched(b) /\ Heeds(b, {"load", "into", "reboot"}) /\ Superseded(b)
  /\ Moves(b, "dropped")
  /\ UNCHANGED <<roleVars, pending, arming, gameVars, rackVars, autoPause, powered, epoch, card,
                 begun, changes, raced, blind>>

\* An abandoned load is queued again, unless something newer is.
Requeue(b) == pending' = IF pending = NoGame THEN boot[b].game ELSE pending

GiveUp(b) ==
  /\ Fetched(b) /\ Heeds(b, {"load", "into"}) /\ ~Superseded(b) /\ AuthorityLost(b)
  /\ Moves(b, "dropped")
  /\ IF boot[b].kind = "load" THEN Requeue(b) /\ UNCHANGED rt
     ELSE rt' = ApplyBudget(rt, rack, order, focus, MayRunLocalCore, autoPause) /\ UNCHANGED pending
  /\ UNCHANGED <<roleVars, arming, gameVars, rack, order, focus, autoPause, powered, epoch, card,
                 begun, changes, raced, blind>>

\* bootOnPrimary() opens the transaction of a pick.
OpensLate(b) ==
  IF boot[b].kind = "pick" THEN OpenTransaction(b, Primary) ELSE UNCHANGED <<epoch, raced>>

Cleared(b) ==
  /\ Fetched(b)
  /\ Heeds(b, {"load", "into", "reboot"}) => ~Superseded(b)
  /\ Heeds(b, {"load", "into"}) => ~AuthorityLost(b)

Launch(b) ==
  /\ Cleared(b)
  /\ Chosen(b) = b \/ ~StartThrows(rt[Chosen(b)], boot[b].game)
  /\ boot' = [boot EXCEPT ![b].phase = "starting", ![b].target = Chosen(b)]
  /\ rt' = [rt EXCEPT ![Chosen(b)] =
       Starting(@, boot[b].game, b,
                \E o \in Boots : boot[o].phase = "starting" /\ boot[o].target = Chosen(b))]
  /\ OpensLate(b)
  /\ UNCHANGED <<roleVars, pending, arming, gameVars, rack, order, focus, autoPause, powered, card,
                 begun, changes, blind>>

\* RuntimeModeSwitchError, BootConfigChangeError.
ThrowAtStart(b) ==
  /\ Cleared(b)
  /\ Chosen(b) # b /\ StartThrows(rt[Chosen(b)], boot[b].game)
  /\ Moves(b, "dropped")
  /\ OpensLate(b)
  /\ UNCHANGED <<roleVars, pending, arming, gameVars, rackVars, autoPause, powered, card,
                 begun, changes, blind>>

FailFetch(b) ==
  /\ Fetched(b)
  /\ Moves(b, "dropped")
  /\ UNCHANGED <<roleVars, pending, arming, gameVars, rackVars, autoPause, powered, epoch, card,
                 begun, changes, raced, blind>>

\* start() rejects: bootFreshRuntime() disposes the runtime it made, the console keeps its
\* own (in a worker, without a core).
FailStart(b) ==
  LET t == boot[b].target IN
  /\ boot[b].phase = "starting"
  /\ t # b => ~rt[t].alive
  /\ Moves(b, "dropped")
  /\ rt' = IF t = b /\ boot[b].kind # "spawn" THEN [rt EXCEPT ![b] = Disposed(@)] ELSE rt
  /\ UNCHANGED <<roleVars, pending, arming, gameVars, rack, order, focus, autoPause, powered, epoch,
                 card, begun, changes, raced, blind>>

\* The core is up.  What follows has no await in it: bootFreshRuntime() replaces the
\* console's runtime, then the boot's own path commits what it may.
Commits(b) == boot[b].kind = "load" /\ ~Superseded(b) /\ ~AuthorityLost(b)

\* remove() and add().  (Mutant: add() alone, on a list.)
AddedAgain(c) == Append(order, c)
MovedToEnd(c) == Append(RemoveFirst(order, c), c)
Resume(k, r) == [k EXCEPT ![r] = ResumeGated(@)]
Retire(k, c) == IF rack[c] = NoRuntime THEN k ELSE [k EXCEPT ![rack[c]] = Disposed(@)]

Switched(b) ==
  \/ boot[b].target = b /\ boot[b].kind # "spawn"
  \/ boot[b].kind = "into"
  \/ Commits(b)

\* trackConsoleSaveRam().  (Mutant: by the fresh runtime's path only.)
TracksFreshOnly(b) == boot[b].target = b
TracksCard(b) == boot[b].target = b \/ boot[b].kind = "into" \/ ~Superseded(b)

Finish(b, runs) ==
  LET c     == boot[b].at
      kind  == boot[b].kind
      t     == boot[b].target
      fresh == t = b
      rk    == IF fresh THEN [rack EXCEPT ![c] = b] ELSE rack
      ord   == IF fresh THEN MovedToEnd(c) ELSE order
      f     == IF fresh /\ focus = c /\ rack[c] # NoRuntime THEN None ELSE focus
      up    == [rt EXCEPT ![t] = Started(@, boot[b].game, runs)]
      alone == IF fresh THEN Retire(up, c) ELSE up
      on    == IF Switched(b) THEN Resume(alone, rk[c]) ELSE alone
      fit   == IF fresh \/ kind = "into" \/ (kind = "load" /\ ~Commits(b))
               THEN ApplyBudget(on, rk, ord, f, MayRunLocalCore, autoPause) ELSE on
  IN
  /\ boot[b].phase = "starting"
  /\ Mode(boot[b].game) = "worker" => rt[t].starter = b
  /\ Moves(b, "done")
  /\ rack' = rk /\ order' = ord /\ focus' = f
  /\ rt' = IF Commits(b) \/ kind = "reboot" \/ (kind = "pick" /\ fresh) THEN Resume(fit, rk[c]) ELSE fit
  /\ powered' = IF Switched(b) THEN [powered EXCEPT ![c] = TRUE] ELSE powered
  /\ card' = IF TracksCard(b) THEN [card EXCEPT ![c] = boot[b].game] ELSE card
  /\ meta' = IF Commits(b) \/ kind \in {"pick", "reboot"} THEN boot[b].game ELSE meta
  /\ lastLoaded' = IF Commits(b) \/ kind = "reboot" THEN boot[b].game ELSE lastLoaded
  /\ IF kind = "load" /\ ~Superseded(b) /\ AuthorityLost(b) THEN Requeue(b) ELSE UNCHANGED pending
  /\ blind' = IF kind = "pick" /\ ~fresh /\ ~MayRunLocalCore THEN blind \cup {t} ELSE blind
  /\ UNCHANGED <<roleVars, arming, autoPause, epoch, begun, changes, raced>>

-----------------------------------------------------------------------------
(* The room decides who hosts.                                               *)

Change == changes < MaxChanges /\ changes' = changes + 1

\* connectToRoom(): no role yet.
JoinRoom ==
  /\ Change
  /\ role = "solo"
  /\ role' = "undecided"
  /\ UNCHANGED <<latch, handoffs, pending, arming, gameVars, rackVars, autoPause, powered, epoch,
                 card, boot, begun, raced, blind>>

\* The socket drops, or the server waits for the host to come back: nothing changes.
Drop ==
  /\ Change
  /\ role \in {"host", "watcher"}
  /\ role' = "undecided"
  /\ UNCHANGED <<latch, handoffs, pending, arming, gameVars, rackVars, autoPause, powered, epoch,
                 card, boot, begun, raced, blind>>

\* The room's game shows on the TV while the role is open: the primary core stops.
TvArrives ==
  /\ Change
  /\ role = "undecided"
  /\ rt' = [rt EXCEPT ![rack[Primary]] = Paused(@)]
  /\ UNCHANGED <<roleVars, pending, arming, gameVars, rack, order, focus, autoPause, powered, epoch,
                 card, boot, begun, raced, blind>>

\* Every core may run again: the primary at once, the rest as the budget says (mutant: the
\* primary only).
PrimaryBack == [rt EXCEPT ![rack[Primary]] = Resumed(@)]
RackBack == ApplyBudget(PrimaryBack, rack, order, focus, TRUE, autoPause)

\* A replayed insert, or the room's game on this page's core.
BootsNext(g) ==
  IF pending # NoGame /\ (meta = NoGame \/ pending.rom # meta.rom)
  THEN g = pending
  ELSE g = NoGame \/ (pending = NoGame /\ meta = NoGame)

BecomeHost(g) ==
  /\ Change
  /\ role \in {"undecided", "watcher"}
  /\ role' = "host" /\ latch' = FALSE
  /\ rt' = RackBack
  /\ pending' = NoGame
  /\ BootsNext(g)
  /\ IF g = NoGame THEN UNCHANGED <<boot, begun, epoch, raced>>
     ELSE KeepsPage(g) /\ Begin("load", Primary, g, NoRuntime)
  /\ UNCHANGED <<handoffs, arming, gameVars, rack, order, focus, autoPause, powered, card, blind>>

\* pauseAll(): every console of the rack, loaded or not.
PauseAll == [r \in Runtimes |-> IF r \in Range(rack) THEN Paused(rt[r]) ELSE rt[r]]

BecomeWatcher ==
  /\ Change
  /\ role # "solo"
  /\ role' = "watcher" /\ latch' = TRUE /\ handoffs' = handoffs + 1
  /\ pending' = NoGame
  /\ rt' = PauseAll
  /\ UNCHANGED <<arming, gameVars, rack, order, focus, autoPause, powered, epoch, card, boot, begun,
                 raced, blind>>

\* disconnectFromRoom(): the machine is the player's own again, and no handoff.
LeaveRoom ==
  /\ Change
  /\ role # "solo"
  /\ role' = "solo" /\ latch' = FALSE
  /\ pending' = NoGame
  /\ rt' = RackBack
  /\ UNCHANGED <<handoffs, arming, gameVars, rack, order, focus, autoPause, powered, epoch, card,
                 boot, begun, raced, blind>>

-----------------------------------------------------------------------------
(* What the player looks at and switches.                                    *)

\* updateFocus().
Gaze(c) ==
  /\ Len(order) > 1 /\ c # focus
  /\ focus' = c
  /\ rt' = ApplyBudget(rt, rack, order, c, MayRunLocalCore, autoPause)
  /\ UNCHANGED <<roleVars, pending, arming, gameVars, rack, order, autoPause, powered, epoch, card,
                 boot, begun, changes, raced, blind>>

ToggleAutoPause ==
  /\ Change
  /\ autoPause' = ~autoPause
  /\ rt' = ApplyBudget(rt, rack, order, focus, MayRunLocalCore, ~autoPause)
  /\ UNCHANGED <<roleVars, pending, arming, gameVars, rack, order, focus, powered, epoch, card, boot,
                 begun, raced, blind>>

\* setConsolePower().
Power(c) ==
  /\ Change
  /\ rack[c] # NoRuntime
  /\ powered' = [powered EXCEPT ![c] = ~@]
  /\ rt' = [rt EXCEPT ![rack[c]] = IF powered[c] THEN Paused(@) ELSE ResumeGated(@)]
  /\ UNCHANGED <<roleVars, pending, arming, gameVars, rack, order, focus, autoPause, epoch, card, boot,
                 begun, raced, blind>>

-----------------------------------------------------------------------------
Ask ==
  \/ \E g \in Games : \/ InsertCartridge(g) \/ QueueCartridge(g) \/ PickFile(g)
                      \/ Reboot(g) \/ Spawn(g) \/ InsertSecond(g)
  \/ ArmDevice \/ NothingToArm

BootStep ==
  \E b \in Boots : \/ GiveWay(b) \/ GiveUp(b) \/ Launch(b) \/ ThrowAtStart(b)
                   \/ FailFetch(b) \/ FailStart(b)
                   \/ \E runs \in BOOLEAN : Finish(b, runs)

RoleStep ==
  \/ JoinRoom \/ Drop \/ TvArrives \/ BecomeWatcher \/ LeaveRoom
  \/ \E g \in Games \cup {NoGame} : BecomeHost(g)

Switch == (\E c \in Consoles : Gaze(c) \/ Power(c)) \/ ToggleAutoPause

Next == Ask \/ BootStep \/ RoleStep \/ Switch
Spec == Init /\ [][Next]_vars

-----------------------------------------------------------------------------
RackTypeOK ==
  /\ role \in {"solo", "undecided", "host", "watcher"} /\ latch \in BOOLEAN
  /\ {pending, meta, lastLoaded} \subseteq Games \cup {NoGame}
  /\ \A c \in Consoles : rack[c] \in Runtimes \cup {NoRuntime}
  /\ Range(order) = {c \in Consoles : rack[c] # NoRuntime} /\ IsInjective(order)
  /\ rack[Primary] # rack[Second]
  /\ rt \in [Runtimes -> [client : {None, "main", "worker"}, game : Games \cup {NoGame},
                          alive : BOOLEAN, paused : BOOLEAN, running : BOOLEAN, starter : 0 .. MaxBoots]]
  /\ \A r \in Runtimes : rt[r].running => rt[r].alive
  /\ focus \in Consoles \cup {None}

AtRest == \A c \in Consoles : Settled(c)

\* A display-only client runs zero cores (main.js:7632-7633): once the boots under way have
\* ended, one way or the other, no core of a page that watches runs, whichever of the boots,
\* the demotion, the budget, a power switch came in between.  But for a file picked before
\* the demotion and started in the console's own runtime after it.
WatcherRunsNothing ==
  AtRest /\ ~MayRunLocalCore => \A c \in Consoles :
    rack[c] # NoRuntime /\ rack[c] \notin blind => ~rt[rack[c]].running

\* The boot that was asked for last is what the console runs, if it succeeded; a boot that
\* could be stopped no more when the last one began is the exception (main.js:240-270).
NewestWins ==
  \A c \in Consoles :
    Settled(c) /\ c \notin raced /\ epoch[c] # 0 /\ boot[epoch[c]].phase = "done"
      => rt[rack[c]].game = boot[epoch[c]].game

\* A console's SaveRAM is filed under the game its core runs, however its last boots ended.
CardFollowsCore ==
  \A c \in Consoles :
    Settled(c) /\ c \notin raced /\ rack[c] # NoRuntime /\ rt[rack[c]].alive
      => card[c] = rt[rack[c]].game

\* The console one looks at runs, where cores may: whatever the budget, a demotion or a
\* Leave has paused comes back.
FocusedRuns ==
  AtRest /\ MayRunLocalCore /\ role # "undecided" /\ focus # None /\ rack[focus] # NoRuntime
    /\ powered[focus] /\ rt[rack[focus]].alive
      => rt[rack[focus]].running

\* A core that runs is on a console, or starts for one: whatever a boot replaces or fails to
\* start is let go of.  But for a console where boots raced: a cartridge may then be put into
\* the runtime its fetch began with, which another boot has disposed of since.
Home(r) == IF r = 0 THEN Primary ELSE boot[r].at
NoOrphans ==
  \A r \in Runtimes :
    rt[r].running => \/ rack[Home(r)] = r
                     \/ \E b \in Boots : boot[b].phase = "starting" /\ boot[b].target = r
                     \/ Home(r) \in raced
=============================================================================
