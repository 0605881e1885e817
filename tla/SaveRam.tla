------------------------------ MODULE SaveRam ------------------------------
(***************************************************************************)
(* Battery saves: src/SaveRamGuard.js, which writes the memory of every    *)
(* running console to the card of the game it runs, with the boot paths of *)
(* src/main.js that change what a console runs, the worker that hosts the  *)
(* core (src/runtime/WorkerEmulatorClient.js) and the store.               *)
(*                                                                         *)
(* A game is booted on a console either hot (the client stops its worker   *)
(* and starts another) or fresh (a new runtime boots beside the old one    *)
(* and replaces it).  A flush asks the worker for the memory and stores    *)
(* the answer; both are awaited, and anything may happen meanwhile.        *)
(*                                                                         *)
(* What a core has in its save memory is a number that grows with play, so *)
(* that what is older can be told; 0 is none.  One boot at a time runs on  *)
(* a console.                                                              *)
(***************************************************************************)
EXTENDS Integers, Sequences, FiniteSets

CONSTANTS Consoles,
          Primary,      \* the console whose hot boot makes no flush of its own
          Games,
          Core,         \* the core each game runs on
          Cards,        \* the games with a content id, and so with a card
          None,
          MaxBoots, MaxPlays, MaxTimers, MaxFailures   \* bounds

ASSUME SaveConstants ==
  /\ Primary \in Consoles /\ None \notin Consoles
  /\ Cards \subseteq Games
  /\ DOMAIN Core = Games
  /\ \A g \in Cards, h \in Games \ Cards : Core[g] # Core[h]
  /\ {MaxBoots, MaxPlays, MaxTimers, MaxFailures} \subseteq Nat

\* A worker and its core, what is on a card, a boot under way and a flush.
Hosted  == [game : Games, memory : 0 .. MaxPlays, state : {"booting", "up", "gone"}]
Records == [memory : 1 .. MaxPlays, by : Consoles, ran : Games]
Boots   == [game : Games, fresh : BOOLEAN, step : {"restoring", "ready", "flushed", "starting"},
            restored : Records \cup {None}, worker : Nat,
            outgoing : [game : Games, memory : Nat] \cup {None}, seen : [Consoles -> Nat]]
Flushes == [game : Cards, gen : Nat, step : {"queued", "reading", "saving"}, worker : Nat,
            memory : Nat, awaits : Consoles \cup {None}, retire : BOOLEAN]

ASSUME NoneIsApart ==
  None \notin Boots /\ None \notin Records /\ None \notin [game : Cards, gen : Nat]

VARIABLES
  worker,    \* the workers so far: the game of each, its memory and its state
  rack,      \* the worker of each console's installed client, 0 before the first
  boot,      \* the boot under way on each console, or None
  tracked,   \* SaveRamGuard.tracked: game and generation
  written,   \* SaveRamGuard.written: the memory last written, as its fingerprint
  chain,     \* SaveRamGuard.chains: the flushes of each console, the first under way
  gen,       \* SaveRamGuard.gen
  card,      \* the store: the memory on each card, with the console that wrote it and
             \* the game it was read from, as history
  boots, plays, timers, failures,
  exposed    \* history: the consoles flushed between two games

pageVars  == <<worker, rack, boot>>
guardVars == <<tracked, written, chain, gen>>
countVars == <<boots, plays, timers, failures>>
saveVars  == <<pageVars, guardVars, card, countVars, exposed>>

Workers == DOMAIN worker

Init ==
  /\ worker = <<>>
  /\ rack = [c \in Consoles |-> 0]
  /\ boot = [c \in Consoles |-> None]
  /\ tracked = [c \in Consoles |-> None]
  /\ written = [c \in Consoles |-> 0]
  /\ chain = [c \in Consoles |-> <<>>]
  /\ gen = 0
  /\ card = [g \in Cards |-> None]
  /\ boots = 0 /\ plays = 0 /\ timers = 0 /\ failures = 0
  /\ exposed = {}

Alive(w) == w # 0 /\ worker[w].state # "gone"

\* What the core installed on console c has in its save memory.
Memory(c) == IF Alive(rack[c]) THEN worker[rack[c]].memory ELSE 0

\* The game that core runs, or ran.
Running(c) == IF rack[c] = 0 THEN None ELSE worker[rack[c]].game

InBoot(c, step) == boot[c] # None /\ boot[c].step = step

\* The client of console c has its new worker and is still tracked under its old game.
BetweenGames(c) == InBoot(c, "starting") /\ ~boot[c].fresh

-----------------------------------------------------------------------------
(* The guard.                                                                *)

\* flush(): a tracked console gets a flush at the end of its chain, for the identity it
\* has now; the boot on console b awaits it, or nobody does.
Flush(c, b, retire) ==
  IF tracked[c] = None THEN <<>>
  ELSE << [game |-> tracked[c].game, gen |-> tracked[c].gen, step |-> "queued", worker |-> 0,
           memory |-> 0, awaits |-> b, retire |-> retire] >>

\* flushAll() (mutants: of the booting console only; without waiting for a turn).
FlushOwn(b) == [c \in Consoles |-> IF c = b THEN chain[c] \o Flush(c, b, FALSE) ELSE chain[c]]
FlushAhead(b) == [c \in Consoles |-> Flush(c, b, FALSE) \o chain[c]]
FlushAll(b) == [c \in Consoles |-> chain[c] \o Flush(c, b, FALSE)]

\* The boot on console b awaits a flush.
Awaiting(b) == \E c \in Consoles : \E i \in DOMAIN chain[c] : chain[c][i].awaits = b

\* track(): a fresh generation; another game's fingerprint says nothing of this one.
Track(c, g) ==
  IF g \in Cards
  THEN /\ gen' = gen + 1
       /\ tracked' = [tracked EXCEPT ![c] = [game |-> g, gen |-> gen + 1]]
       /\ written' = IF tracked[c] # None /\ tracked[c].game = g THEN written
                     ELSE [written EXCEPT ![c] = 0]
  ELSE /\ tracked' = [tracked EXCEPT ![c] = None]
       /\ written' = [written EXCEPT ![c] = 0]
       /\ UNCHANGED gen

\* The boot that awaits the first flush of c's chain gets nothing of it (history only).
Forgo(c) ==
  LET b == Head(chain[c]).awaits
  IN boot' = IF b = None THEN boot
             ELSE [boot EXCEPT ![b].seen[c] = 0, ![b].outgoing = IF b = c THEN None ELSE @]

\* retire() forgets the console when its flush is done, unless it has been tracked anew
\* (mutant: whatever it is tracked under).
ForgetsAny(c, f) == f.retire
Forgets(c, f) == f.retire /\ tracked[c] # None /\ tracked[c].gen = f.gen

\* The first flush of c's chain ends, with these fingerprints.
EndFlush(c, marks) ==
  LET forget == Forgets(c, Head(chain[c]))
  IN /\ chain' = [chain EXCEPT ![c] = Tail(@)]
     /\ tracked' = IF forget THEN [tracked EXCEPT ![c] = None] ELSE tracked
     /\ written' = IF forget THEN [marks EXCEPT ![c] = 0] ELSE marks

Under(c, step) == chain[c] # <<>> /\ Head(chain[c]).step = step
Advance(c, f) == chain' = [chain EXCEPT ![c] = <<f>> \o Tail(@)]

\* A flush whose turn has come is a microtask: it starts before anything else happens.
Settled == \A c \in Consoles : ~Under(c, "queued")

\* _flushOnce(), up to its first await: only the identity the flush was asked for is
\* flushed, and the client is looked up now (mutant: whatever identity is tracked).
AnyIdentity(c, f) == tracked[c] # None
StillCurrent(c, f) == tracked[c] # None /\ tracked[c].gen = f.gen

FlushStarts(c) ==
  /\ Under(c, "queued")
  /\ LET f == Head(chain[c])
     IN IF StillCurrent(c, f) /\ Alive(rack[c])
        THEN /\ Advance(c, [f EXCEPT !.step = "reading", !.worker = rack[c]])
             /\ exposed' = IF BetweenGames(c) THEN exposed \cup {c} ELSE exposed
             /\ UNCHANGED <<tracked, written, boot>>
        ELSE /\ EndFlush(c, written) /\ Forgo(c)   \* superseded; or no worker to ask
             /\ UNCHANGED exposed
  /\ UNCHANGED <<worker, rack, gen, card, countVars>>

\* The worker answers read-save-ram: with nothing, with what was written last, or with
\* memory to store (mutant: the fingerprint is recorded before the store has it).
MarkedEarly(c) ==
  /\ Settled
  /\ Under(c, "reading") /\ Alive(Head(chain[c]).worker)
  /\ LET f == Head(chain[c])
         memory == worker[f.worker].memory
         marks == [written EXCEPT ![c] = memory]
     IN IF memory \in {0, written[c]} THEN EndFlush(c, marks)
        ELSE /\ Advance(c, [f EXCEPT !.step = "saving", !.memory = memory])
             /\ written' = marks
             /\ UNCHANGED tracked
  /\ UNCHANGED <<pageVars, gen, card, countVars, exposed>>
MemoryRead(c) ==
  /\ Settled
  /\ Under(c, "reading") /\ Alive(Head(chain[c]).worker)
  /\ LET f == Head(chain[c])
         memory == worker[f.worker].memory
     IN IF memory \in {0, written[c]} THEN EndFlush(c, written)
        ELSE /\ Advance(c, [f EXCEPT !.step = "saving", !.memory = memory])
             /\ UNCHANGED <<tracked, written>>
  /\ UNCHANGED <<pageVars, gen, card, countVars, exposed>>

\* store.save() is one transaction; with its end the fingerprint is recorded.
Stored(c) ==
  /\ Settled
  /\ Under(c, "saving")
  /\ LET f == Head(chain[c])
     IN /\ card' = [card EXCEPT ![f.game] = [memory |-> f.memory, by |-> c,
                                             ran |-> worker[f.worker].game]]
        /\ EndFlush(c, [written EXCEPT ![c] = f.memory])
  /\ UNCHANGED <<pageVars, gen, countVars, exposed>>

\* The read is rejected because its worker is torn down (mutant: nobody rejects it) ...
NeverRejected(c) == FALSE
Rejected(c) == Under(c, "reading") /\ ~Alive(Head(chain[c]).worker)

\* ... or the answer is late, or the transaction is aborted.
FlushFails(c) ==
  /\ Settled
  /\ \/ Rejected(c) /\ UNCHANGED failures
     \/ /\ Under(c, "reading") \/ Under(c, "saving")
        /\ failures < MaxFailures
        /\ failures' = failures + 1
  /\ EndFlush(c, written) /\ Forgo(c)
  /\ UNCHANGED <<worker, rack, gen, card, boots, plays, timers, exposed>>

\* The 30 s timer, a hidden page, pagehide: everything is flushed, and nobody waits.
Timer ==
  /\ Settled
  /\ timers < MaxTimers
  /\ timers' = timers + 1
  /\ chain' = FlushAll(None)
  /\ UNCHANGED <<pageVars, tracked, written, gen, card, boots, plays, failures, exposed>>

-----------------------------------------------------------------------------
(* The boot paths.                                                           *)

\* A console whose client has a worker of the same core is booted hot, one that changes
\* cores or execution fresh; the primary console also re-boots its own game fresh.
Path(c, g, fresh) ==
  IF rack[c] # 0 /\ g \in Cards /\ Core[g] = Core[Running(c)]
  THEN fresh => c = Primary /\ g = Running(c)
  ELSE fresh

\* The memory, and the game, that the boot replaces.
Outgoing(c) == IF Memory(c) = 0 THEN None ELSE [game |-> Running(c), memory |-> Memory(c)]

\* What the consoles running game g have in memory.
InMemory(g) == [d \in Consoles |-> IF tracked[d] # None /\ tracked[d].game = g
                                      /\ ~BetweenGames(d) THEN Memory(d) ELSE 0]
Nothing == [d \in Consoles |-> 0]

\* A cartridge for console c: buildStartOptions() flushes everything before it reads the
\* card; a game without one reads none.
BootBegins(c, g, fresh) ==
  /\ Settled
  /\ boot[c] = None
  /\ boots < MaxBoots
  /\ Path(c, g, fresh)
  /\ boots' = boots + 1
  /\ boot' = [boot EXCEPT ![c] =
       [game |-> g, fresh |-> fresh, step |-> IF g \in Cards THEN "restoring" ELSE "ready",
        restored |-> None, worker |-> 0, outgoing |-> Outgoing(c), seen |-> InMemory(g)]]
  /\ chain' = IF g \in Cards THEN FlushAll(c) ELSE chain
  /\ UNCHANGED <<worker, rack, tracked, written, gen, card, plays, timers, failures, exposed>>

\* The card is read, or cannot be.
CardRead(c) ==
  /\ Settled
  /\ InBoot(c, "restoring") /\ ~Awaiting(c)
  /\ \/ /\ boot' = [boot EXCEPT ![c].step = "ready", ![c].restored = card[boot[c].game],
                                ![c].seen = Nothing]
        /\ UNCHANGED failures
     \/ /\ failures < MaxFailures
        /\ boot' = [boot EXCEPT ![c].step = "ready", ![c].seen = Nothing]
        /\ failures' = failures + 1
  /\ UNCHANGED <<worker, rack, guardVars, card, boots, plays, timers, exposed>>

\* A newer boot or another host: the console is left as it was.
BootAbandoned(c) ==
  /\ Settled
  /\ InBoot(c, "ready")
  /\ boot' = [boot EXCEPT ![c] = None]
  /\ UNCHANGED <<worker, rack, guardVars, card, countVars, exposed>>

\* The outgoing game is flushed, by every path but the primary console's hot boot
\* (mutant: and nobody waits for it).
HandOverUnawaited(c) ==
  /\ Settled
  /\ InBoot(c, "ready")
  /\ boot' = [boot EXCEPT ![c].step = "flushed", ![c].outgoing = Outgoing(c)]
  /\ chain' = [chain EXCEPT ![c] = @ \o Flush(c, None, FALSE)]
  /\ UNCHANGED <<worker, rack, tracked, written, gen, card, countVars, exposed>>
HandOver(c) ==
  /\ Settled
  /\ InBoot(c, "ready")
  /\ IF c = Primary /\ ~boot[c].fresh
     THEN /\ boot' = [boot EXCEPT ![c].step = "flushed"]
          /\ UNCHANGED chain
     ELSE /\ boot' = [boot EXCEPT ![c].step = "flushed", ![c].outgoing = Outgoing(c)]
          /\ chain' = [chain EXCEPT ![c] = @ \o Flush(c, c, FALSE)]
  /\ UNCHANGED <<worker, rack, tracked, written, gen, card, countVars, exposed>>

\* client.start(): a hot boot stops the client's worker first, and the new one belongs to
\* the installed client at once.
CoreStarts(c) ==
  /\ Settled
  /\ InBoot(c, "flushed") /\ ~Awaiting(c)
  /\ LET stopped == IF boot[c].fresh THEN worker
                    ELSE [worker EXCEPT ![rack[c]].state = "gone",
                                           ![rack[c]].memory = 0]
     IN worker' = Append(stopped, [game |-> boot[c].game, memory |-> 0, state |-> "booting"])
  /\ boot' = [boot EXCEPT ![c].step = "starting", ![c].worker = Len(worker'),
                          ![c].outgoing = None]
  /\ rack' = IF boot[c].fresh THEN rack ELSE [rack EXCEPT ![c] = Len(worker')]
  /\ UNCHANGED <<guardVars, card, countVars, exposed>>

\* The worker has restored the save and runs the core.
CoreUp(c) ==
  /\ Settled
  /\ InBoot(c, "starting")
  /\ worker[boot[c].worker].state = "booting"
  /\ worker' = [worker EXCEPT ![boot[c].worker].state = "up",
                              ![boot[c].worker].memory =
                                IF boot[c].restored = None THEN 0 ELSE boot[c].restored.memory]
  /\ UNCHANGED <<rack, boot, guardVars, card, countVars, exposed>>

\* start() throws, and its worker is torn down: a fresh boot leaves the old runtime in
\* place, a hot one leaves the console without a core, under the identity it had.
BootFails(c) ==
  /\ Settled
  /\ InBoot(c, "starting")
  /\ worker[boot[c].worker].state = "booting"
  /\ failures < MaxFailures
  /\ failures' = failures + 1
  /\ boot' = [boot EXCEPT ![c] = None]
  /\ worker' = [worker EXCEPT ![boot[c].worker].state = "gone"]
  /\ UNCHANGED <<rack, guardVars, card, boots, plays, timers, exposed>>

\* The old runtime is retired, which asks for a last flush, disposed of and replaced, all
\* in one turn of the event loop; the console is tracked under its new game.
Installed(c) ==
  /\ Settled
  /\ InBoot(c, "starting")
  /\ worker[boot[c].worker].state = "up"
  /\ chain' = IF boot[c].fresh THEN [chain EXCEPT ![c] = @ \o Flush(c, None, TRUE)] ELSE chain
  /\ rack' = [rack EXCEPT ![c] = boot[c].worker]
  /\ Track(c, boot[c].game)
  /\ boot' = [b \in Consoles |-> IF b = c \/ boot[b] = None THEN None
                                 ELSE [boot[b] EXCEPT !.seen[c] = 0]]
  /\ UNCHANGED <<worker, card, countVars, exposed>>

\* A core that is up, installed or about to be, changes its save memory.
Play(w) ==
  /\ Settled
  /\ worker[w].state = "up" /\ worker[w].game \in Cards
  /\ \E c \in Consoles : rack[c] = w \/ (boot[c] # None /\ boot[c].worker = w)
  /\ plays < MaxPlays
  /\ plays' = plays + 1
  /\ worker' = [worker EXCEPT ![w].memory = plays']
  /\ UNCHANGED <<rack, boot, guardVars, card, boots, timers, failures, exposed>>

FlushStep(c) == FlushStarts(c) \/ MemoryRead(c) \/ Stored(c) \/ FlushFails(c)

BootStep(c) == \/ CardRead(c) \/ BootAbandoned(c) \/ HandOver(c)
               \/ CoreStarts(c) \/ CoreUp(c) \/ BootFails(c) \/ Installed(c)

Next ==
  \/ \E c \in Consoles : FlushStep(c) \/ BootStep(c)
  \/ \E c \in Consoles, g \in Games, fresh \in BOOLEAN : BootBegins(c, g, fresh)
  \/ \E w \in Workers : Play(w)
  \/ Timer

Spec == Init /\ [][Next]_saveVars

-----------------------------------------------------------------------------
(* Properties.                                                               *)

\* Types; and of a console's flushes only the first is under way (the header of
\* SaveRamGuard.js: the writes for one id are serialised).
SaveTypeOK ==
  /\ worker \in Seq(Hosted)
  /\ rack \in [Consoles -> 0 .. Len(worker)]
  /\ boot \in [Consoles -> Boots \cup {None}]
  /\ gen \in Nat
  /\ tracked \in [Consoles -> [game : Cards, gen : 1 .. gen] \cup {None}]
  /\ written \in [Consoles -> 0 .. MaxPlays]
  /\ chain \in [Consoles -> Seq(Flushes)]
  /\ \A c \in Consoles : \A i \in DOMAIN chain[c] : i > 1 => chain[c][i].step = "queued"
  /\ card \in [Cards -> Records \cup {None}]
  /\ boots \in 0 .. MaxBoots /\ plays \in 0 .. MaxPlays
  /\ timers \in 0 .. MaxTimers /\ failures \in 0 .. MaxFailures
  /\ exposed \subseteq Consoles

\* No two games share a card: the bytes on it were read from a core that ran its game,
\* unless the flush began while a hot boot had changed the worker of the console and
\* track() had not yet changed its identity.  The generation check of _flushOnce() is
\* what keeps a flush that waited its turn from writing the next game's bytes.
ForeignOnlyBetweenGames ==
  \A g \in Cards : card[g] # None /\ card[g].ran # g => card[g].by \in exposed

\* When the new core starts, the flush of the outgoing game is done: what that game had
\* in memory when the flush was asked for is on its card, or something newer, or what
\* another console running the same game wrote.  A failed flush is made good by the next:
\* bytes that were never stored are not taken for unchanged ones.
CheckpointKept ==
  [][\A c \in Consoles : InBoot(c, "flushed") /\ InBoot(c, "starting")' /\ c \notin exposed =>
       LET m == boot[c].outgoing
       IN m = None \/ (/\ card[m.game] # None
                       /\ card[m.game].by = c => card[m.game].memory >= m.memory)]_saveVars

\* A boot never restores what a live core has moved on from (buildStartOptions(): never
\* read a restore record while a live core still owns unflushed bytes for it): of a
\* console that was running the game when the boot asked for the flush, it never gets a
\* record older than what that console then had in memory.
RestoredIsCurrent ==
  [][\A c \in Consoles : InBoot(c, "restoring") /\ InBoot(c, "ready")' /\ failures' = failures =>
       \A d \in Consoles \ exposed : boot[c].seen[d] # 0 =>
         LET r == boot'[c].restored
         IN r # None /\ (r.by = d => r.memory >= boot[c].seen[d])]_saveVars

\* No boot waits for ever: it can go on, or one of the flushes it awaits, of whichever
\* console, can, whatever has become of the workers asked (a torn-down worker answers
\* nothing, so that _teardown() must reject what is pending).
NoBootStuck ==
  \A c \in Consoles : boot[c] # None /\ Settled =>
    \/ ENABLED BootStep(c)
    \/ \E d \in Consoles : /\ \E i \in DOMAIN chain[d] : chain[d][i].awaits = c
                           /\ ENABLED FlushStep(d)

\* What the header of SaveRamGuard.js says without exception: the memory of a console is
\* kept under the identity that console actually booted.
CardsAreTheirOwn == \A g \in Cards : card[g] # None => card[g].ran = g
=============================================================================
