--------------------------- MODULE SaveRamProofs ---------------------------
(***************************************************************************)
(* Proofs about the battery saves.  A flush names the game it was asked    *)
(* for, and its generation; the bytes it stores come from the worker it    *)
(* found when its turn came.  That the two are of one game needs four      *)
(* facts: a generation is given out once, so that the identity a flush     *)
(* finds current is the one it was asked under; a console that is tracked  *)
(* runs the game it is tracked under, unless a hot boot is changing it; a  *)
(* boot that starts a core starts that of its own game; and a flush that   *)
(* is under way keeps the worker it found.                                 *)
(* That the bytes get to the card before a boot goes on is the second half *)
(* of the module, with an invariant of its own (SavesKept); that no boot   *)
(* waits for what cannot come is the third.                                *)
(***************************************************************************)
EXTENDS SaveRam, TLAPS

-----------------------------------------------------------------------------
(* The inductive invariant.                                                  *)

\* A boot that reads a card has a game with a card; one that starts a core has a worker that
\* runs its game, and if it is hot the console has that worker already.
BootsSound ==
  \A c \in Consoles : boot[c] # None =>
    /\ boot[c].worker \in 0 .. Len(worker)
    /\ boot[c].step = "restoring" => boot[c].game \in Cards
    /\ boot[c].step = "starting" =>
         /\ boot[c].worker # 0
         /\ worker[boot[c].worker].game = boot[c].game
         /\ boot[c].fresh \/ rack[c] = boot[c].worker

\* A flush of the generation its console has now is of the game it has now.
Identities ==
  \A c \in Consoles : \A i \in DOMAIN chain[c] :
    /\ chain[c][i].gen <= gen
    /\ tracked[c] # None /\ tracked[c].gen = chain[c][i].gen => chain[c][i].game = tracked[c].game

\* A tracked console runs the game it is tracked under, but between two games.
TrackedRuns ==
  \A c \in Consoles :
    tracked[c] # None /\ Alive(rack[c]) /\ ~BetweenGames(c)
      => worker[rack[c]].game = tracked[c].game

\* The worker a flush has found runs the flush's game, but on a console flushed between two.
OwnMemory ==
  \A c \in Consoles : \A i \in DOMAIN chain[c] :
    /\ chain[c][i].step # "queued" =>
         /\ chain[c][i].worker \in DOMAIN worker
         /\ worker[chain[c][i].worker].game = chain[c][i].game \/ c \in exposed
    /\ chain[c][i].step = "saving" => chain[c][i].memory \in 1 .. MaxPlays

\* A boot that awaits a flush is there, before it reads its card or starts its core.
Waits(b) == boot[b] # None /\ boot[b].step \in {"restoring", "flushed"}
Awaited ==
  \A c \in Consoles : \A i \in DOMAIN chain[c] :
    chain[c][i].awaits # None => Waits(chain[c][i].awaits)

SaveInv == SaveTypeOK /\ BootsSound /\ Identities /\ TrackedRuns /\ OwnMemory /\ Awaited

-----------------------------------------------------------------------------
(* Sequences.                                                                *)

LEMMA Appended ==
  ASSUME NEW F, NEW s \in Seq(F), NEW t \in Seq(F)
  PROVE  /\ s \o t \in Seq(F)
         /\ \A i \in DOMAIN (s \o t) :
              \/ i \in DOMAIN s /\ (s \o t)[i] = s[i]
              \/ \E j \in DOMAIN t : i = j + Len(s) /\ (s \o t)[i] = t[j]
<1>1. \A i \in DOMAIN (s \o t) : i > Len(s) => i - Len(s) \in DOMAIN t
  OBVIOUS
<1> QED
  BY <1>1

LEMMA Shortened ==
  ASSUME NEW F, NEW s \in Seq(F), s # <<>>
  PROVE  /\ Tail(s) \in Seq(F)
         /\ \A i \in DOMAIN Tail(s) : i + 1 \in DOMAIN s /\ Tail(s)[i] = s[i + 1]
OBVIOUS

LEMMA Replaced ==
  ASSUME NEW F, NEW s \in Seq(F), s # <<>>, NEW f \in F
  PROVE  /\ <<f>> \o Tail(s) \in Seq(F)
         /\ \A i \in DOMAIN (<<f>> \o Tail(s)) :
              i \in DOMAIN s /\ (<<f>> \o Tail(s))[i] = IF i = 1 THEN f ELSE s[i]
OBVIOUS

-----------------------------------------------------------------------------
(* The chains of flushes.                                                    *)

\* A flush that was there, no further back than it was.
Kept(c, i) == \E j \in DOMAIN chain[c] : j >= i /\ chain'[c][i] = chain[c][j]

\* The boot on console b is one that waits after the step.
WillWait(b) == boot'[b] # None /\ boot'[b].step \in {"restoring", "flushed"}

\* A flush asked for now.
Asked(c, f) ==
  /\ f \in Flushes
  /\ f.step = "queued"
  /\ tracked[c] # None
  /\ f.game = tracked[c].game /\ f.gen = tracked[c].gen
  /\ f.awaits # None => WillWait(f.awaits)

\* The first flush of c, under way as f.
UnderWay(c, f) ==
  /\ chain[c] # <<>>
  /\ f.game = chain[c][1].game /\ f.gen = chain[c][1].gen /\ f.awaits = chain[c][1].awaits
  /\ f.worker \in DOMAIN worker
  /\ worker[f.worker].game = f.game \/ c \in exposed'
  /\ f.step = "saving" => f.memory \in 1 .. MaxPlays

ChainsFollow ==
  \A c \in Consoles : \A i \in DOMAIN chain'[c] :
    \/ Kept(c, i)
    \/ Asked(c, chain'[c][i])
    \/ i = 1 /\ UnderWay(c, chain'[c][1])

\* No worker changes its game.
GamesStay == \A w \in DOMAIN worker : w \in DOMAIN worker' /\ worker'[w].game = worker[w].game

\* A console keeps its identity, loses it, or is given one that is new.
IdentitiesAreNew ==
  \A c \in Consoles : tracked'[c] # None => tracked'[c] = tracked[c] \/ tracked'[c].gen > gen

LEMMA FlushShape ==
  ASSUME SaveTypeOK, NEW c \in Consoles, NEW b \in Consoles \cup {None}, NEW retire \in BOOLEAN,
         b # None => WillWait(b)
  PROVE  /\ Flush(c, b, retire) \in Seq(Flushes)
         /\ \A i \in DOMAIN Flush(c, b, retire) : Asked(c, Flush(c, b, retire)[i])
<1>1. CASE tracked[c] = None
  BY <1>1 DEF Flush
<1>2. CASE tracked[c] # None
  <2>1. tracked[c] \in [game : Cards, gen : 1 .. gen]
    BY <1>2 DEF SaveTypeOK
  <2> DEFINE f == [game |-> tracked[c].game, gen |-> tracked[c].gen, step |-> "queued",
                   worker |-> 0, memory |-> 0, awaits |-> b, retire |-> retire]
  <2>2. f \in Flushes
    BY <2>1 DEF SaveTypeOK, Flushes
  <2>3. Asked(c, f)
    BY <1>2, <2>2 DEF Asked
  <2>4. Flush(c, b, retire) = <<f>>
    BY <1>2 DEF Flush
  <2> QED
    BY <2>2, <2>3, <2>4
<1> QED
  BY <1>1, <1>2

\* A flush asked for on console c goes to the end of its chain.
LEMMA ChainGrows ==
  ASSUME SaveTypeOK, NEW c \in Consoles, NEW b \in Consoles \cup {None}, NEW retire \in BOOLEAN,
         b # None => WillWait(b),
         chain'[c] = chain[c] \o Flush(c, b, retire)
  PROVE  /\ chain'[c] \in Seq(Flushes)
         /\ \A i \in DOMAIN chain'[c] : Kept(c, i) \/ Asked(c, chain'[c][i])
<1> DEFINE s == chain[c]
           t == Flush(c, b, retire)
<1>1. s \in Seq(Flushes) /\ t \in Seq(Flushes)
  BY FlushShape DEF SaveTypeOK
<1>2. /\ s \o t \in Seq(Flushes)
      /\ \A i \in DOMAIN (s \o t) :
           \/ i \in DOMAIN s /\ (s \o t)[i] = s[i]
           \/ \E j \in DOMAIN t : i = j + Len(s) /\ (s \o t)[i] = t[j]
  BY <1>1, Appended
<1>3. \A j \in DOMAIN t : Asked(c, t[j])
  BY FlushShape
<1> HIDE DEF s, t
<1>4. ASSUME NEW i \in DOMAIN (s \o t) PROVE Kept(c, i) \/ Asked(c, chain'[c][i])
  <2>1. chain'[c] = s \o t /\ chain[c] = s
    BY DEF s, t
  <2>2. CASE i \in DOMAIN s /\ (s \o t)[i] = s[i]
    <3>1. i \in Int
      BY <2>2, <1>1
    <3> QED
      BY <3>1, <2>1, <2>2 DEF Kept
  <2>3. CASE \E j \in DOMAIN t : (s \o t)[i] = t[j]
    BY <2>1, <2>3, <1>3
  <2> QED
    BY <1>2, <2>2, <2>3
<1> QED
  BY <1>2, <1>4 DEF s, t

LEMMA ChainStays ==
  ASSUME SaveTypeOK, NEW c \in Consoles, chain'[c] = chain[c]
  PROVE  chain'[c] \in Seq(Flushes) /\ \A i \in DOMAIN chain'[c] : Kept(c, i)
BY DEF SaveTypeOK, Kept

LEMMA ChainShrinks ==
  ASSUME SaveTypeOK, NEW c \in Consoles, chain[c] # <<>>, chain'[c] = Tail(chain[c])
  PROVE  chain'[c] \in Seq(Flushes) /\ \A i \in DOMAIN chain'[c] : Kept(c, i)
<1>1. chain[c] \in Seq(Flushes)
  BY DEF SaveTypeOK
<1>2. /\ chain'[c] \in Seq(Flushes)
      /\ \A i \in DOMAIN chain'[c] : i + 1 \in DOMAIN chain[c] /\ chain'[c][i] = chain[c][i + 1]
  BY <1>1, Shortened
<1> QED
  BY <1>1, <1>2 DEF Kept

LEMMA ChainAdvances ==
  ASSUME SaveTypeOK, NEW c \in Consoles, chain[c] # <<>>, NEW f \in Flushes, UnderWay(c, f),
         chain'[c] = <<f>> \o Tail(chain[c])
  PROVE  /\ chain'[c] \in Seq(Flushes)
         /\ \A i \in DOMAIN chain'[c] : Kept(c, i) \/ (i = 1 /\ UnderWay(c, chain'[c][1]))
<1>1. chain[c] \in Seq(Flushes)
  BY DEF SaveTypeOK
<1>2. /\ chain'[c] \in Seq(Flushes)
      /\ \A i \in DOMAIN chain'[c] :
           i \in DOMAIN chain[c] /\ chain'[c][i] = IF i = 1 THEN f ELSE chain[c][i]
  BY <1>1, Replaced
<1>3. ASSUME NEW i \in DOMAIN chain'[c], i # 1 PROVE Kept(c, i)
  <2>1. i \in DOMAIN chain[c] /\ chain'[c][i] = chain[c][i] /\ i \in Int
    BY <1>1, <1>2, <1>3
  <2> QED
    BY <2>1 DEF Kept
<1>4. chain'[c] # <<>> => chain'[c][1] = f
  BY <1>1, <1>2
<1> QED
  BY <1>1, <1>2, <1>3, <1>4

\* What the chains keep when they follow.
LEMMA ChainsKeepOrder ==
  ASSUME SaveTypeOK, ChainsFollow, chain' \in [Consoles -> Seq(Flushes)]
  PROVE  \A c \in Consoles : \A i \in DOMAIN chain'[c] : i > 1 => chain'[c][i].step = "queued"
<1> SUFFICES ASSUME NEW c \in Consoles, NEW i \in DOMAIN chain'[c], i > 1
             PROVE  chain'[c][i].step = "queued"
  OBVIOUS
<1>1. CASE Kept(c, i)
  <2>1. PICK j \in DOMAIN chain[c] : j >= i /\ chain'[c][i] = chain[c][j]
    BY <1>1 DEF Kept
  <2>2. i \in Int /\ j \in Int
    BY DEF SaveTypeOK
  <2> QED
    BY <2>1, <2>2 DEF SaveTypeOK
<1>2. CASE Asked(c, chain'[c][i])
  BY <1>2 DEF Asked
<1>3. ~ (i = 1)
  OBVIOUS
<1> QED
  BY <1>1, <1>2, <1>3 DEF ChainsFollow

LEMMA ChainsKeepIdentities ==
  ASSUME SaveInv, ChainsFollow, IdentitiesAreNew, gen' \in Nat, gen <= gen'
  PROVE  Identities'
<1> SUFFICES ASSUME NEW c \in Consoles, NEW i \in DOMAIN chain'[c]
             PROVE  /\ chain'[c][i].gen <= gen'
                    /\ tracked'[c] # None /\ tracked'[c].gen = chain'[c][i].gen
                         => chain'[c][i].game = tracked'[c].game
  BY DEF Identities
<1>1. /\ chain'[c][i].gen \in Nat
      /\ chain'[c][i].gen <= gen
      /\ tracked[c] # None /\ tracked[c].gen = chain'[c][i].gen
           => chain'[c][i].game = tracked[c].game
  <2>1. CASE Kept(c, i)
    <3>1. PICK j \in DOMAIN chain[c] : j >= i /\ chain'[c][i] = chain[c][j]
      BY <2>1 DEF Kept
    <3>2. chain[c][j] \in Flushes
      BY DEF SaveInv, SaveTypeOK
    <3> QED
      BY <3>1, <3>2 DEF SaveInv, Identities, Flushes
  <2>2. CASE Asked(c, chain'[c][i])
    <3>1. tracked[c] \in [game : Cards, gen : 1 .. gen]
      BY <2>2 DEF SaveInv, SaveTypeOK, Asked
    <3> QED
      BY <2>2, <3>1 DEF Asked, Flushes, SaveInv, SaveTypeOK
  <2>3. CASE i = 1 /\ UnderWay(c, chain'[c][1])
    <3>1. 1 \in DOMAIN chain[c] /\ chain[c][1] \in Flushes
      BY <2>3 DEF SaveInv, SaveTypeOK, UnderWay
    <3> QED
      BY <2>3, <3>1 DEF UnderWay, SaveInv, Identities, Flushes
  <2> QED
    BY <2>1, <2>2, <2>3 DEF ChainsFollow
<1>2. gen \in Nat
  BY DEF SaveInv, SaveTypeOK
<1>3. CASE tracked'[c] = None \/ tracked'[c] = tracked[c]
  BY <1>1, <1>2, <1>3
<1>4. CASE tracked'[c] # None /\ tracked'[c].gen > gen
  BY <1>1, <1>2, <1>4
<1> QED
  BY <1>3, <1>4 DEF IdentitiesAreNew

LEMMA ChainsKeepMemory ==
  ASSUME SaveInv, ChainsFollow, GamesStay, exposed \subseteq exposed'
  PROVE  OwnMemory'
<1> SUFFICES ASSUME NEW c \in Consoles, NEW i \in DOMAIN chain'[c]
             PROVE  /\ chain'[c][i].step # "queued" =>
                         /\ chain'[c][i].worker \in DOMAIN worker'
                         /\ \/ worker'[chain'[c][i].worker].game = chain'[c][i].game
                            \/ c \in exposed'
                    /\ chain'[c][i].step = "saving" => chain'[c][i].memory \in 1 .. MaxPlays
  BY DEF OwnMemory
<1>1. CASE Kept(c, i)
  <2>1. PICK j \in DOMAIN chain[c] : j >= i /\ chain'[c][i] = chain[c][j]
    BY <1>1 DEF Kept
  <2> QED
    BY <2>1 DEF SaveInv, OwnMemory, GamesStay
<1>2. CASE Asked(c, chain'[c][i])
  BY <1>2 DEF Asked
<1>3. CASE i = 1 /\ UnderWay(c, chain'[c][1])
  BY <1>3 DEF UnderWay, GamesStay
<1> QED
  BY <1>1, <1>2, <1>3 DEF ChainsFollow

-----------------------------------------------------------------------------
(* The boots and the workers.                                                *)

\* The boot on console b, if there is one, goes on as it was, but for its history.
SameBoot(b) ==
  /\ boot'[b] = None <=> boot[b] = None
  /\ boot[b] # None => /\ boot'[b].game = boot[b].game /\ boot'[b].fresh = boot[b].fresh
                       /\ boot'[b].step = boot[b].step /\ boot'[b].worker = boot[b].worker

\* Console c has the worker it had, which has not come alive.
Unrevived(c) == rack'[c] = rack[c] /\ (Alive(rack[c])' => Alive(rack[c]))

BootSound(b) ==
  boot[b] # None =>
    /\ boot[b].worker \in 0 .. Len(worker)
    /\ boot[b].step = "restoring" => boot[b].game \in Cards
    /\ boot[b].step = "starting" =>
         /\ boot[b].worker # 0
         /\ worker[boot[b].worker].game = boot[b].game
         /\ boot[b].fresh \/ rack[b] = boot[b].worker

TrackedRun(c) ==
  tracked[c] # None /\ Alive(rack[c]) /\ ~BetweenGames(c)
    => worker[rack[c]].game = tracked[c].game

\* The counters, and the bounds they are below.
LEMMA CountersTyped ==
  ASSUME SaveInv
  PROVE  /\ boots \in 0 .. MaxBoots /\ MaxBoots \in Nat
         /\ plays \in 0 .. MaxPlays /\ MaxPlays \in Nat
         /\ timers \in 0 .. MaxTimers /\ MaxTimers \in Nat
         /\ failures \in 0 .. MaxFailures /\ MaxFailures \in Nat
<1>1. /\ boots \in 0 .. MaxBoots /\ plays \in 0 .. MaxPlays
      /\ timers \in 0 .. MaxTimers /\ failures \in 0 .. MaxFailures
  BY DEF SaveInv, SaveTypeOK
<1> QED
  BY <1>1, SaveConstants

\* A boot that goes on stays sound while its console keeps its worker.
LEMMA SameBootIsSound ==
  ASSUME SaveInv, NEW b \in Consoles, SameBoot(b), rack'[b] = rack[b], GamesStay,
         Len(worker) <= Len(worker'), worker' \in Seq(Hosted)
  PROVE  BootSound(b)'
<1>1. worker \in Seq(Hosted)
  BY DEF SaveInv, SaveTypeOK
<1>2. ASSUME boot[b] # None PROVE boot[b].worker \in 0 .. Len(worker)
  BY <1>2 DEF SaveInv, BootsSound
<1>3. ASSUME boot'[b] # None PROVE boot'[b].worker \in 0 .. Len(worker')
  BY <1>1, <1>2, <1>3 DEF SameBoot
<1>4. ASSUME boot'[b] # None, boot'[b].step = "starting"
      PROVE  /\ boot'[b].worker # 0
             /\ worker'[boot'[b].worker].game = boot'[b].game
             /\ boot'[b].fresh \/ rack'[b] = boot'[b].worker
  <2>1. /\ boot[b] # None /\ boot[b].step = "starting"
        /\ boot[b].worker # 0
        /\ worker[boot[b].worker].game = boot[b].game
        /\ boot[b].fresh \/ rack[b] = boot[b].worker
    BY <1>4 DEF SameBoot, SaveInv, BootsSound
  <2>2. boot[b].worker \in DOMAIN worker
    BY <1>1, <1>2, <2>1
  <2>3. worker'[boot[b].worker].game = worker[boot[b].worker].game
    BY <2>2 DEF GamesStay
  <2> QED
    BY <2>1, <2>3 DEF SameBoot
<1>5. ASSUME boot'[b] # None, boot'[b].step = "restoring" PROVE boot'[b].game \in Cards
  BY <1>5 DEF SameBoot, SaveInv, BootsSound
<1> QED
  BY <1>3, <1>4, <1>5 DEF BootSound

\* So does its console's identity.
LEMMA SameBootIsTracked ==
  ASSUME SaveInv, NEW c \in Consoles, SameBoot(c), Unrevived(c), GamesStay,
         tracked'[c] = None \/ tracked'[c] = tracked[c]
  PROVE  TrackedRun(c)'
<1> SUFFICES ASSUME tracked'[c] # None, Alive(rack[c])', ~ BetweenGames(c)'
             PROVE  worker'[rack'[c]].game = tracked'[c].game
  BY DEF TrackedRun
<1>1. tracked'[c] = tracked[c] /\ rack'[c] = rack[c] /\ Alive(rack[c])
  BY DEF Unrevived
<1>2. ~ BetweenGames(c)
  BY DEF BetweenGames, InBoot, SameBoot
<1>3. worker[rack[c]].game = tracked[c].game
  BY <1>1, <1>2 DEF SaveInv, TrackedRuns
<1>4. rack[c] \in DOMAIN worker
  BY <1>1 DEF Alive, SaveInv, SaveTypeOK
<1> QED
  BY <1>1, <1>3, <1>4 DEF GamesStay

\* A flush that is given up is taken off its boot's history.
LEMMA ForgoKeepsBoots ==
  ASSUME SaveInv, NEW c \in Consoles, chain[c] # <<>>, Forgo(c)
  PROVE  boot' \in [Consoles -> Boots \cup {None}] /\ \A b \in Consoles : SameBoot(b)
<1>1. PICK a : a = chain[c][1].awaits
  OBVIOUS
<1>2. 1 \in DOMAIN chain[c] /\ chain[c][1] \in Flushes /\ Head(chain[c]) = chain[c][1]
  BY DEF SaveInv, SaveTypeOK
<1>3. a \in Consoles \cup {None}
  BY <1>1, <1>2 DEF Flushes
<1>4. CASE a = None
  BY <1>1, <1>2, <1>4 DEF Forgo, SaveInv, SaveTypeOK, SameBoot
<1>5. CASE a # None
  <2>1. boot' = [boot EXCEPT ![a].seen[c] = 0, ![a].outgoing = IF a = c THEN None ELSE @]
    BY <1>1, <1>2, <1>5 DEF Forgo
  <2>2. a \in Consoles
    BY <1>3, <1>5
  <2>3. boot \in [Consoles -> Boots \cup {None}] /\ boot[a] \in Boots
    BY <1>1, <1>2, <1>5, <2>2 DEF SaveInv, SaveTypeOK, Awaited, Waits
  <2>4. PICK r : r = [boot[a] EXCEPT !.seen[c] = 0,
                                     !.outgoing = IF a = c THEN None ELSE @]
    OBVIOUS
  <2>5. /\ r \in Boots
        /\ r.game = boot[a].game /\ r.fresh = boot[a].fresh
        /\ r.step = boot[a].step /\ r.worker = boot[a].worker
    BY <2>3, <2>4 DEF Boots
  <2>6. boot' = [boot EXCEPT ![a] = r]
    BY <2>1, <2>4
  <2>7. r # None /\ boot[a] # None
    BY <2>3, <2>5, NoneIsApart
  <2> HIDE DEF Boots
  <2> QED
    BY <2>2, <2>3, <2>5, <2>6, <2>7 DEF SameBoot
<1> QED
  BY <1>4, <1>5

\* Boots still wait for the flushes they await.
LEMMA ChainsKeepWaiting ==
  ASSUME SaveInv, ChainsFollow, \A b \in Consoles : SameBoot(b) \/ ~ Awaiting(b)
  PROVE  Awaited'
<1> SUFFICES ASSUME NEW c \in Consoles, NEW i \in DOMAIN chain'[c], chain'[c][i].awaits # None
             PROVE  WillWait(chain'[c][i].awaits)
  BY DEF Awaited, Waits, WillWait
<1>1. CASE Asked(c, chain'[c][i])
  BY <1>1 DEF Asked
<1>2. CASE \E j \in DOMAIN chain[c] : chain'[c][i].awaits = chain[c][j].awaits
  <2>1. PICK j \in DOMAIN chain[c] : chain'[c][i].awaits = chain[c][j].awaits
    BY <1>2
  <2>2. PICK b : b = chain[c][j].awaits
    OBVIOUS
  <2>3. chain[c][j] \in Flushes
    BY DEF SaveInv, SaveTypeOK
  <2>4. b \in Consoles /\ Awaiting(b)
    BY <2>1, <2>2, <2>3 DEF Flushes, Awaiting
  <2>5. Waits(b)
    BY <2>1, <2>2 DEF SaveInv, Awaited
  <2>6. WillWait(b)
    BY <2>4, <2>5 DEF SameBoot, Waits, WillWait
  <2> QED
    BY <2>1, <2>2, <2>6
<1>3. CASE i = 1 /\ UnderWay(c, chain'[c][1])
  <2>1. 1 \in DOMAIN chain[c]
    BY <1>3 DEF UnderWay, SaveInv, SaveTypeOK
  <2> QED
    BY <1>2, <1>3, <2>1 DEF UnderWay
<1> QED
  BY <1>1, <1>2, <1>3 DEF ChainsFollow, Kept

-----------------------------------------------------------------------------
(* Every step keeps the invariant.                                           *)

\* Console c goes on: its boot, its worker, and its identity unless it loses it.
GoesOn(c) ==
  /\ SameBoot(c)
  /\ Unrevived(c)
  /\ tracked'[c] = None \/ tracked'[c] = tracked[c]

\* Console c is sound after the step, and its boot awaited nothing.
TurnsOut(c) == BootSound(c)' /\ TrackedRun(c)' /\ ~ Awaiting(c)

Follows ==
  /\ ChainsFollow /\ IdentitiesAreNew /\ gen <= gen'
  /\ GamesStay /\ Len(worker) <= Len(worker')
  /\ exposed \subseteq exposed'
  /\ \A c \in Consoles : GoesOn(c) \/ TurnsOut(c)

LEMMA FollowingKeeps ==
  ASSUME SaveInv, SaveTypeOK', Follows
  PROVE  SaveInv'
<1>1. Identities'
  BY ChainsKeepIdentities DEF Follows, SaveTypeOK
<1>2. OwnMemory'
  BY ChainsKeepMemory DEF Follows
<1>3. Awaited'
  BY ChainsKeepWaiting DEF Follows, GoesOn, TurnsOut
<1>4. ASSUME NEW c \in Consoles PROVE BootSound(c)' /\ TrackedRun(c)'
  <2>1. CASE GoesOn(c)
    <3>1. worker' \in Seq(Hosted) /\ rack'[c] = rack[c]
      BY <2>1 DEF SaveTypeOK, GoesOn, Unrevived
    <3> QED
      BY <2>1, <3>1, SameBootIsSound, SameBootIsTracked DEF Follows, GoesOn
  <2>2. CASE TurnsOut(c)
    BY <2>2 DEF TurnsOut
  <2> QED
    BY <2>1, <2>2 DEF Follows
<1>5. BootsSound'
  BY <1>4 DEF BootSound, BootsSound
<1>6. TrackedRuns'
  BY <1>4 DEF TrackedRun, TrackedRuns
<1> QED
  BY <1>1, <1>2, <1>3, <1>5, <1>6 DEF SaveInv

\* The first flush of a chain ends.
LEMMA EndOfFlush ==
  ASSUME SaveInv, NEW c \in Consoles, chain[c] # <<>>,
         NEW marks \in [Consoles -> 0 .. MaxPlays], EndFlush(c, marks)
  PROVE  /\ chain' \in [Consoles -> Seq(Flushes)]
         /\ ChainsFollow
         /\ tracked' \in [Consoles -> [game : Cards, gen : 1 .. gen] \cup {None}]
         /\ \A d \in Consoles : tracked'[d] = None \/ tracked'[d] = tracked[d]
         /\ IdentitiesAreNew
         /\ written' \in [Consoles -> 0 .. MaxPlays]
<1>1. SaveTypeOK
  BY DEF SaveInv
<1>2. chain' = [chain EXCEPT ![c] = Tail(chain[c])]
  BY DEF EndFlush
<1>3. \A d \in Consoles : chain'[d] = IF d = c THEN Tail(chain[c]) ELSE chain[d]
  BY <1>1, <1>2 DEF SaveTypeOK
<1>4. ASSUME NEW d \in Consoles
      PROVE  chain'[d] \in Seq(Flushes) /\ \A i \in DOMAIN chain'[d] : Kept(d, i)
  BY <1>1, <1>3, ChainStays, ChainShrinks
<1>5. chain' \in [Consoles -> Seq(Flushes)] /\ ChainsFollow
  BY <1>1, <1>2, <1>4 DEF SaveTypeOK, ChainsFollow
<1>6. tracked' = tracked \/ tracked' = [tracked EXCEPT ![c] = None]
  BY DEF EndFlush
<1>7. /\ tracked' \in [Consoles -> [game : Cards, gen : 1 .. gen] \cup {None}]
      /\ \A d \in Consoles : tracked'[d] = None \/ tracked'[d] = tracked[d]
  BY <1>1, <1>6 DEF SaveTypeOK
<1>8. written' \in [Consoles -> 0 .. MaxPlays]
  BY SaveConstants DEF EndFlush
<1> QED
  BY <1>5, <1>7, <1>8 DEF IdentitiesAreNew

\* The first flush of a chain goes on.
LEMMA FlushGoesOn ==
  ASSUME SaveInv, NEW c \in Consoles, chain[c] # <<>>, NEW f \in Flushes, UnderWay(c, f),
         Advance(c, f)
  PROVE  chain' \in [Consoles -> Seq(Flushes)] /\ ChainsFollow
<1>1. SaveTypeOK
  BY DEF SaveInv
<1>2. chain' = [chain EXCEPT ![c] = <<f>> \o Tail(chain[c])]
  BY DEF Advance
<1>3. \A d \in Consoles : chain'[d] = IF d = c THEN <<f>> \o Tail(chain[c]) ELSE chain[d]
  BY <1>1, <1>2 DEF SaveTypeOK
<1>4. ASSUME NEW d \in Consoles
      PROVE  /\ chain'[d] \in Seq(Flushes)
             /\ \A i \in DOMAIN chain'[d] : Kept(d, i) \/ (i = 1 /\ UnderWay(d, chain'[d][1]))
  <2>1. CASE d = c
    BY <1>1, <1>3, <2>1, ChainAdvances
  <2>2. CASE d # c
    BY <1>1, <1>3, <2>2, ChainStays
  <2> QED
    BY <2>1, <2>2
<1> QED
  BY <1>1, <1>2, <1>4 DEF SaveTypeOK, ChainsFollow

\* The chains stay.
LEMMA ChainsStay ==
  ASSUME SaveInv, chain' = chain
  PROVE  chain' \in [Consoles -> Seq(Flushes)] /\ ChainsFollow
BY ChainStays DEF SaveInv, SaveTypeOK, ChainsFollow

LEMMA IdentitiesStay ==
  ASSUME tracked' = tracked PROVE IdentitiesAreNew
BY DEF IdentitiesAreNew

LEMMA WorkersStay ==
  ASSUME SaveInv, worker' = worker, rack' = rack
  PROVE  GamesStay /\ Len(worker) <= Len(worker') /\ \A c \in Consoles : Unrevived(c)
BY DEF SaveInv, SaveTypeOK, GamesStay, Unrevived, Alive

LEMMA BootsStay ==
  ASSUME boot' = boot PROVE \A c \in Consoles : SameBoot(c)
BY DEF SameBoot

LEMMA FlushStartsKeeps ==
  ASSUME SaveInv, NEW c \in Consoles, FlushStarts(c)
  PROVE  SaveInv'
<1> USE DEF SaveInv
<1>1. chain[c] # <<>> /\ Head(chain[c]) = chain[c][1] /\ 1 \in DOMAIN chain[c]
  BY DEF FlushStarts, Under, SaveTypeOK
<1>2. PICK f : f = chain[c][1]
  OBVIOUS
<1>3. f \in Flushes
  BY <1>1, <1>2 DEF SaveTypeOK
<1>4. GamesStay /\ Len(worker) <= Len(worker') /\ \A d \in Consoles : Unrevived(d)
  BY WorkersStay DEF FlushStarts
<1>5. CASE StillCurrent(c, f) /\ Alive(rack[c])
  <2> DEFINE g == [f EXCEPT !.step = "reading", !.worker = rack[c]]
  <2>1. /\ Advance(c, g)
        /\ exposed' = IF BetweenGames(c) THEN exposed \cup {c} ELSE exposed
        /\ tracked' = tracked /\ written' = written /\ boot' = boot
    BY <1>1, <1>2, <1>5 DEF FlushStarts
  <2>2. rack[c] \in Nat /\ rack[c] \in DOMAIN worker
    BY <1>5 DEF Alive, SaveTypeOK
  <2>3. g \in Flushes /\ g.game = f.game /\ g.gen = f.gen /\ g.worker = rack[c]
        /\ g.step = "reading" /\ g.awaits = f.awaits
    BY <1>3, <2>2 DEF Flushes
  <2>4. worker[rack[c]].game = f.game \/ c \in exposed'
    <3>1. CASE BetweenGames(c)
      BY <2>1, <3>1
    <3>2. CASE ~ BetweenGames(c)
      <4>1. tracked[c] # None /\ f.game = tracked[c].game
        BY <1>1, <1>2, <1>5 DEF StillCurrent, Identities
      <4> QED
        BY <1>5, <3>2, <4>1 DEF TrackedRuns
    <3> QED
      BY <3>1, <3>2
  <2>5. UnderWay(c, g)
    BY <1>1, <1>2, <2>2, <2>3, <2>4 DEF UnderWay
  <2>6. chain' \in [Consoles -> Seq(Flushes)] /\ ChainsFollow
    <3> HIDE DEF g
    <3> QED
      BY <1>1, <2>1, <2>3, <2>5, FlushGoesOn
  <2>7. Follows
    BY <1>4, <2>1, <2>6, IdentitiesStay, BootsStay DEF FlushStarts, Follows, GoesOn, SaveTypeOK
  <2>8. SaveTypeOK'
    BY <2>1, <2>6, ChainsKeepOrder DEF FlushStarts, SaveTypeOK, countVars
  <2> QED
    BY <2>7, <2>8, FollowingKeeps
<1>6. CASE ~ (StillCurrent(c, f) /\ Alive(rack[c]))
  <2>1. EndFlush(c, written) /\ Forgo(c) /\ exposed' = exposed
    BY <1>1, <1>2, <1>6 DEF FlushStarts
  <2>2. written \in [Consoles -> 0 .. MaxPlays]
    BY DEF SaveTypeOK
  <2>3. boot' \in [Consoles -> Boots \cup {None}] /\ \A b \in Consoles : SameBoot(b)
    BY <1>1, <2>1, ForgoKeepsBoots
  <2>4. /\ chain' \in [Consoles -> Seq(Flushes)]
        /\ ChainsFollow
        /\ tracked' \in [Consoles -> [game : Cards, gen : 1 .. gen] \cup {None}]
        /\ \A d \in Consoles : tracked'[d] = None \/ tracked'[d] = tracked[d]
        /\ IdentitiesAreNew
        /\ written' \in [Consoles -> 0 .. MaxPlays]
    BY <1>1, <2>1, <2>2, EndOfFlush
  <2>5. Follows
    BY <1>4, <2>1, <2>3, <2>4 DEF FlushStarts, Follows, GoesOn, SaveTypeOK
  <2>6. SaveTypeOK'
    BY <2>1, <2>3, <2>4, ChainsKeepOrder DEF FlushStarts, SaveTypeOK, countVars
  <2> QED
    BY <2>5, <2>6, FollowingKeeps
<1> QED
  BY <1>5, <1>6

LEMMA MemoryReadKeeps ==
  ASSUME SaveInv, NEW c \in Consoles, MemoryRead(c)
  PROVE  SaveInv'
<1> USE DEF SaveInv
<1>1. /\ chain[c] # <<>> /\ Head(chain[c]) = chain[c][1] /\ 1 \in DOMAIN chain[c]
      /\ chain[c][1].step = "reading"
  BY DEF MemoryRead, Under, SaveTypeOK
<1>2. PICK f : f = chain[c][1]
  OBVIOUS
<1>3. f \in Flushes
  BY <1>1, <1>2 DEF SaveTypeOK
<1>4. /\ f.worker \in DOMAIN worker
      /\ worker[f.worker].game = f.game \/ c \in exposed
      /\ worker[f.worker] \in Hosted
  BY <1>1, <1>2 DEF OwnMemory, SaveTypeOK
<1>5. PICK memory : memory = worker[f.worker].memory
  OBVIOUS
<1>6. memory \in 0 .. MaxPlays
  BY <1>4, <1>5 DEF Hosted
<1>7. /\ worker' = worker /\ rack' = rack /\ boot' = boot /\ gen' = gen /\ card' = card
      /\ exposed' = exposed /\ UNCHANGED countVars
  BY DEF MemoryRead, pageVars
<1>8. /\ GamesStay /\ Len(worker) <= Len(worker')
      /\ \A d \in Consoles : Unrevived(d) /\ SameBoot(d)
  BY <1>7, WorkersStay, BootsStay
<1>9. CASE memory \in {0, written[c]}
  <2>1. EndFlush(c, written)
    BY <1>1, <1>2, <1>5, <1>9 DEF MemoryRead
  <2>2. written \in [Consoles -> 0 .. MaxPlays]
    BY DEF SaveTypeOK
  <2>3. /\ chain' \in [Consoles -> Seq(Flushes)]
        /\ ChainsFollow
        /\ tracked' \in [Consoles -> [game : Cards, gen : 1 .. gen] \cup {None}]
        /\ \A d \in Consoles : tracked'[d] = None \/ tracked'[d] = tracked[d]
        /\ IdentitiesAreNew
        /\ written' \in [Consoles -> 0 .. MaxPlays]
    BY <1>1, <2>1, <2>2, EndOfFlush
  <2>4. Follows
    BY <1>7, <1>8, <2>3 DEF Follows, GoesOn, SaveTypeOK
  <2>5. SaveTypeOK'
    BY <1>7, <2>3, ChainsKeepOrder DEF SaveTypeOK, countVars
  <2> QED
    BY <2>4, <2>5, FollowingKeeps
<1>10. CASE memory \notin {0, written[c]}
  <2> DEFINE g == [f EXCEPT !.step = "saving", !.memory = memory]
  <2>1. Advance(c, g) /\ tracked' = tracked /\ written' = written
    BY <1>1, <1>2, <1>5, <1>10 DEF MemoryRead
  <2>2. /\ g \in Flushes /\ g.game = f.game /\ g.gen = f.gen /\ g.worker = f.worker
        /\ g.step = "saving" /\ g.memory = memory /\ g.awaits = f.awaits
    <3>1. memory \in Nat
      BY <1>6
    <3> QED
      BY <1>3, <3>1 DEF Flushes
  <2>3. memory \in 1 .. MaxPlays
    BY <1>6, <1>10, SaveConstants
  <2>4. UnderWay(c, g)
    BY <1>1, <1>2, <1>4, <1>7, <2>2, <2>3 DEF UnderWay
  <2>5. chain' \in [Consoles -> Seq(Flushes)] /\ ChainsFollow
    <3> HIDE DEF g
    <3> QED
      BY <1>1, <2>1, <2>2, <2>4, FlushGoesOn
  <2>6. Follows
    BY <1>7, <1>8, <2>1, <2>5, IdentitiesStay DEF Follows, GoesOn, SaveTypeOK
  <2>7. SaveTypeOK'
    BY <1>7, <2>1, <2>5, ChainsKeepOrder DEF SaveTypeOK, countVars
  <2> QED
    BY <2>6, <2>7, FollowingKeeps
<1> QED
  BY <1>9, <1>10

\* What a flush stores comes from a worker of its game, but on a console flushed between two.
LEMMA StoredOwn ==
  ASSUME SaveInv, NEW c \in Consoles, Stored(c)
  PROVE  \E f \in Flushes :
           /\ f = Head(chain[c]) /\ chain[c] # <<>>
           /\ f.memory \in 1 .. MaxPlays
           /\ worker[f.worker].game \in Games
           /\ worker[f.worker].game = f.game \/ c \in exposed
           /\ card' = [card EXCEPT ![f.game] = [memory |-> f.memory, by |-> c,
                                                ran |-> worker[f.worker].game]]
           /\ EndFlush(c, [written EXCEPT ![c] = f.memory])
<1>1. /\ chain[c] # <<>> /\ Head(chain[c]) = chain[c][1] /\ 1 \in DOMAIN chain[c]
      /\ chain[c][1].step = "saving"
  BY DEF Stored, Under, SaveInv, SaveTypeOK
<1>2. PICK f : f = chain[c][1]
  OBVIOUS
<1>3. /\ f \in Flushes
      /\ f.memory \in 1 .. MaxPlays
      /\ f.worker \in DOMAIN worker
      /\ worker[f.worker].game = f.game \/ c \in exposed
  BY <1>1, <1>2 DEF SaveInv, SaveTypeOK, OwnMemory
<1>4. worker[f.worker].game \in Games
  <2>1. worker[f.worker] \in Hosted
    BY <1>3 DEF SaveInv, SaveTypeOK
  <2> QED
    BY <2>1 DEF Hosted
<1> QED
  BY <1>1, <1>2, <1>3, <1>4 DEF Stored

LEMMA StoredKeeps ==
  ASSUME SaveInv, NEW c \in Consoles, Stored(c)
  PROVE  SaveInv'
<1> USE DEF SaveInv
<1>1. PICK f \in Flushes :
           /\ f = Head(chain[c]) /\ chain[c] # <<>>
           /\ f.memory \in 1 .. MaxPlays
           /\ worker[f.worker].game \in Games
           /\ worker[f.worker].game = f.game \/ c \in exposed
           /\ card' = [card EXCEPT ![f.game] = [memory |-> f.memory, by |-> c,
                                                ran |-> worker[f.worker].game]]
           /\ EndFlush(c, [written EXCEPT ![c] = f.memory])
  BY StoredOwn
<1>2. PICK marks : marks = [written EXCEPT ![c] = f.memory]
  OBVIOUS
<1>3. marks \in [Consoles -> 0 .. MaxPlays]
  BY <1>1, <1>2 DEF SaveTypeOK
<1>4. /\ worker' = worker /\ rack' = rack /\ boot' = boot /\ gen' = gen
      /\ exposed' = exposed /\ UNCHANGED countVars
  BY DEF Stored, pageVars
<1>5. card' \in [Cards -> Records \cup {None}]
  <2>1. PICK r : r = [memory |-> f.memory, by |-> c, ran |-> worker[f.worker].game]
    OBVIOUS
  <2>2. r \in Records
    BY <1>1, <2>1 DEF Records
  <2> QED
    BY <1>1, <2>1, <2>2 DEF SaveTypeOK
<1>6. /\ chain' \in [Consoles -> Seq(Flushes)]
      /\ ChainsFollow
      /\ tracked' \in [Consoles -> [game : Cards, gen : 1 .. gen] \cup {None}]
      /\ \A d \in Consoles : tracked'[d] = None \/ tracked'[d] = tracked[d]
      /\ IdentitiesAreNew
      /\ written' \in [Consoles -> 0 .. MaxPlays]
  BY <1>1, <1>2, <1>3, EndOfFlush
<1>7. Follows
  <2>1. /\ GamesStay /\ Len(worker) <= Len(worker')
        /\ \A d \in Consoles : Unrevived(d) /\ SameBoot(d)
    BY <1>4, WorkersStay, BootsStay
  <2> QED
    BY <1>4, <1>6, <2>1 DEF Follows, GoesOn, SaveTypeOK
<1>8. SaveTypeOK'
  BY <1>4, <1>5, <1>6, ChainsKeepOrder DEF SaveTypeOK, countVars
<1> QED
  BY <1>7, <1>8, FollowingKeeps

LEMMA FlushFailsKeeps ==
  ASSUME SaveInv, NEW c \in Consoles, FlushFails(c)
  PROVE  SaveInv'
<1> USE DEF SaveInv
<1>1. /\ chain[c] # <<>> /\ EndFlush(c, written) /\ Forgo(c)
      /\ worker' = worker /\ rack' = rack /\ gen' = gen /\ card' = card
      /\ boots' = boots /\ plays' = plays /\ timers' = timers /\ exposed' = exposed
  BY DEF FlushFails, Rejected, Under
<1>2. failures' \in 0 .. MaxFailures
  <2>1. failures' = failures \/ (failures < MaxFailures /\ failures' = failures + 1)
    BY DEF FlushFails
  <2> QED
    BY <2>1, CountersTyped
<1>3. written \in [Consoles -> 0 .. MaxPlays]
  BY DEF SaveTypeOK
<1>4. boot' \in [Consoles -> Boots \cup {None}] /\ \A b \in Consoles : SameBoot(b)
  BY <1>1, ForgoKeepsBoots
<1>5. /\ chain' \in [Consoles -> Seq(Flushes)]
      /\ ChainsFollow
      /\ tracked' \in [Consoles -> [game : Cards, gen : 1 .. gen] \cup {None}]
      /\ \A d \in Consoles : tracked'[d] = None \/ tracked'[d] = tracked[d]
      /\ IdentitiesAreNew
      /\ written' \in [Consoles -> 0 .. MaxPlays]
  BY <1>1, <1>3, EndOfFlush
<1>6. Follows
  BY <1>1, <1>4, <1>5, WorkersStay DEF Follows, GoesOn, SaveTypeOK
<1>7. SaveTypeOK'
  BY <1>1, <1>2, <1>4, <1>5, ChainsKeepOrder DEF SaveTypeOK
<1> QED
  BY <1>6, <1>7, FollowingKeeps

\* Everything is flushed, for a boot or for nobody.
LEMMA AllAreAsked ==
  ASSUME SaveInv, NEW b \in Consoles \cup {None}, b # None => WillWait(b), chain' = FlushAll(b)
  PROVE  chain' \in [Consoles -> Seq(Flushes)] /\ ChainsFollow
<1>1. ASSUME NEW d \in Consoles
      PROVE  /\ chain'[d] \in Seq(Flushes)
             /\ \A i \in DOMAIN chain'[d] : Kept(d, i) \/ Asked(d, chain'[d][i])
  <2>1. chain'[d] = chain[d] \o Flush(d, b, FALSE)
    BY DEF FlushAll
  <2> QED
    BY <2>1, ChainGrows DEF SaveInv
<1> QED
  BY <1>1 DEF FlushAll, ChainsFollow

\* One console is flushed.
LEMMA OneIsAsked ==
  ASSUME SaveInv, NEW c \in Consoles, NEW b \in Consoles \cup {None}, b # None => WillWait(b),
         NEW retire \in BOOLEAN, chain' = [chain EXCEPT ![c] = @ \o Flush(c, b, retire)]
  PROVE  chain' \in [Consoles -> Seq(Flushes)] /\ ChainsFollow
<1>1. \A d \in Consoles : chain'[d] = IF d = c THEN chain[c] \o Flush(c, b, retire) ELSE chain[d]
  BY DEF SaveInv, SaveTypeOK
<1>2. ASSUME NEW d \in Consoles
      PROVE  /\ chain'[d] \in Seq(Flushes)
             /\ \A i \in DOMAIN chain'[d] : Kept(d, i) \/ Asked(d, chain'[d][i])
  <2>1. CASE d = c
    BY <1>1, <2>1, ChainGrows DEF SaveInv
  <2>2. CASE d # c
    BY <1>1, <2>2, ChainStays DEF SaveInv
  <2> QED
    BY <2>1, <2>2
<1> QED
  BY <1>2 DEF ChainsFollow, SaveInv, SaveTypeOK

LEMMA TimerKeeps ==
  ASSUME SaveInv, Timer
  PROVE  SaveInv'
<1> USE DEF SaveInv
<1>1. /\ worker' = worker /\ rack' = rack /\ boot' = boot /\ gen' = gen /\ card' = card
      /\ tracked' = tracked /\ written' = written /\ exposed' = exposed
      /\ boots' = boots /\ plays' = plays /\ failures' = failures
  BY DEF Timer, pageVars
<1>2. timers' \in 0 .. MaxTimers
  <2>1. timers < MaxTimers /\ timers' = timers + 1
    BY DEF Timer
  <2> QED
    BY <2>1, CountersTyped
<1>3. chain' \in [Consoles -> Seq(Flushes)] /\ ChainsFollow
  BY AllAreAsked DEF Timer
<1>4. Follows
  BY <1>1, <1>3, WorkersStay, BootsStay, IdentitiesStay DEF Follows, GoesOn, SaveTypeOK
<1>5. SaveTypeOK'
  BY <1>1, <1>2, <1>3, ChainsKeepOrder DEF SaveTypeOK
<1> QED
  BY <1>4, <1>5, FollowingKeeps

LEMMA PlayKeeps ==
  ASSUME SaveInv, NEW w \in Workers, Play(w)
  PROVE  SaveInv'
<1> USE DEF SaveInv
<1>1. /\ rack' = rack /\ boot' = boot /\ gen' = gen /\ card' = card
      /\ tracked' = tracked /\ written' = written /\ chain' = chain /\ exposed' = exposed
      /\ boots' = boots /\ timers' = timers /\ failures' = failures
  BY DEF Play, guardVars
<1>2. plays' \in 0 .. MaxPlays
  <2>1. plays < MaxPlays /\ plays' = plays + 1
    BY DEF Play
  <2> QED
    BY <2>1, CountersTyped
<1>3. worker' = [worker EXCEPT ![w].memory = plays']
  BY DEF Play
<1>4. worker[w] \in Hosted /\ worker \in Seq(Hosted) /\ w \in DOMAIN worker
  BY DEF Workers, SaveTypeOK
<1>5. PICK h : h = [worker[w] EXCEPT !.memory = plays']
  OBVIOUS
<1>6. h \in Hosted /\ h.game = worker[w].game /\ h.state = worker[w].state
  BY <1>2, <1>4, <1>5 DEF Hosted
<1>7. worker' = [worker EXCEPT ![w] = h]
  BY <1>3, <1>5
<1>8. /\ worker' \in Seq(Hosted) /\ Len(worker') = Len(worker)
      /\ \A v \in DOMAIN worker : /\ v \in DOMAIN worker'
                                  /\ worker'[v].game = worker[v].game
                                  /\ worker'[v].state = worker[v].state
  <2> HIDE DEF Hosted
  <2> QED
    BY <1>4, <1>6, <1>7
<1>9. ASSUME NEW c \in Consoles PROVE Unrevived(c)
  BY <1>1, <1>8 DEF Unrevived, Alive, SaveTypeOK
<1>10. chain' \in [Consoles -> Seq(Flushes)] /\ ChainsFollow
  BY <1>1, ChainsStay
<1>11. Follows
  BY <1>1, <1>8, <1>9, <1>10, BootsStay, IdentitiesStay DEF Follows, GoesOn, GamesStay, SaveTypeOK
<1>12. SaveTypeOK'
  BY <1>1, <1>2, <1>8, <1>10, ChainsKeepOrder DEF SaveTypeOK
<1> QED
  BY <1>11, <1>12, FollowingKeeps

-----------------------------------------------------------------------------
(* The boots.                                                                *)

\* The boot on console c becomes r; the others go on.
LEMMA BootBecomes ==
  ASSUME SaveInv, NEW c \in Consoles, NEW r \in Boots \cup {None}, boot' = [boot EXCEPT ![c] = r]
  PROVE  /\ boot' \in [Consoles -> Boots \cup {None}]
         /\ boot'[c] = r
         /\ \A b \in Consoles \ {c} : SameBoot(b)
<1>1. boot \in [Consoles -> Boots \cup {None}]
  BY DEF SaveInv, SaveTypeOK
<1> HIDE DEF Boots
<1> QED
  BY <1>1 DEF SameBoot

\* A boot that is on its way, as a record.
LEMMA BootIsRecord ==
  ASSUME SaveInv, NEW c \in Consoles, NEW step, InBoot(c, step)
  PROVE  boot[c] \in Boots /\ boot[c] # None /\ boot[c].step = step
BY DEF SaveInv, SaveTypeOK, InBoot

\* Only a boot that reads its card or hands over waits.
LEMMA NobodyAwaited ==
  ASSUME SaveInv, NEW c \in Consoles, ~ Waits(c)
  PROVE  ~ Awaiting(c)
<1> SUFFICES ASSUME NEW d \in Consoles, NEW i \in DOMAIN chain[d], chain[d][i].awaits = c
             PROVE  FALSE
  BY DEF Awaiting
<1> QED
  BY SaveConstants DEF SaveInv, Awaited

LEMMA MemoryTyped ==
  ASSUME SaveInv, NEW c \in Consoles
  PROVE  /\ Memory(c) \in 0 .. MaxPlays
         /\ Outgoing(c) \in [game : Games, memory : Nat] \cup {None}
<1>1. ASSUME Alive(rack[c]) PROVE rack[c] # 0 /\ worker[rack[c]] \in Hosted
  BY <1>1 DEF Alive, SaveInv, SaveTypeOK
<1>2. Memory(c) \in 0 .. MaxPlays
  BY <1>1, SaveConstants DEF Memory, Hosted
<1>3. ASSUME Memory(c) # 0 PROVE Running(c) \in Games /\ Memory(c) \in Nat
  BY <1>1, <1>2, <1>3 DEF Memory, Running, Hosted
<1> QED
  BY <1>2, <1>3 DEF Outgoing

LEMMA InMemoryTyped ==
  ASSUME SaveInv, NEW g PROVE InMemory(g) \in [Consoles -> Nat]
BY MemoryTyped DEF InMemory

LEMMA BootBeginsKeeps ==
  ASSUME SaveInv, NEW c \in Consoles, NEW g \in Games, NEW fresh \in BOOLEAN,
         BootBegins(c, g, fresh)
  PROVE  SaveInv'
<1> USE DEF SaveInv
<1>1. /\ worker' = worker /\ rack' = rack /\ gen' = gen /\ card' = card
      /\ tracked' = tracked /\ written' = written /\ exposed' = exposed
      /\ plays' = plays /\ timers' = timers /\ failures' = failures /\ boot[c] = None
  BY DEF BootBegins
<1>2. boots' \in 0 .. MaxBoots
  <2>1. boots < MaxBoots /\ boots' = boots + 1
    BY DEF BootBegins
  <2> QED
    BY <2>1, CountersTyped
<1>3. PICK r : r = [game |-> g, fresh |-> fresh,
                    step |-> IF g \in Cards THEN "restoring" ELSE "ready",
                    restored |-> None, worker |-> 0, outgoing |-> Outgoing(c), seen |-> InMemory(g)]
  OBVIOUS
<1>4. r \in Boots /\ r.worker = 0 /\ r.game = g /\ r.step = IF g \in Cards THEN "restoring" ELSE "ready"
  BY <1>3, MemoryTyped, InMemoryTyped DEF Boots
<1>5. /\ boot' \in [Consoles -> Boots \cup {None}] /\ boot'[c] = r
      /\ \A b \in Consoles \ {c} : SameBoot(b)
  BY <1>3, <1>4, BootBecomes DEF BootBegins
<1>6. r # None
  BY <1>4, NoneIsApart
<1>7. chain' \in [Consoles -> Seq(Flushes)] /\ ChainsFollow
  <2>1. CASE g \in Cards
    <3>1. WillWait(c)
      BY <1>4, <1>5, <1>6, <2>1 DEF WillWait
    <3>2. chain' = FlushAll(c)
      BY <2>1 DEF BootBegins
    <3> QED
      BY <3>1, <3>2, AllAreAsked
  <2>2. CASE g \notin Cards
    BY <2>2, ChainsStay DEF BootBegins
  <2> QED
    BY <2>1, <2>2
<1>8. GamesStay /\ Len(worker) <= Len(worker') /\ \A d \in Consoles : Unrevived(d)
  BY <1>1, WorkersStay
<1>9. SameBoot(c) \/ TurnsOut(c)
  <2>1. BootSound(c)'
    BY <1>1, <1>4, <1>5 DEF BootSound, SaveTypeOK
  <2>2. TrackedRun(c)'
    BY <1>1 DEF TrackedRun, TrackedRuns, BetweenGames, InBoot, Alive
  <2>3. ~ Awaiting(c)
    BY <1>1, NobodyAwaited DEF Waits
  <2> QED
    BY <2>1, <2>2, <2>3 DEF TurnsOut
<1>10. Follows
  BY <1>1, <1>5, <1>7, <1>8, <1>9, IdentitiesStay DEF Follows, GoesOn, SaveTypeOK
<1>11. SaveTypeOK'
  BY <1>1, <1>2, <1>5, <1>7, ChainsKeepOrder DEF SaveTypeOK
<1> QED
  BY <1>10, <1>11, FollowingKeeps

LEMMA CardReadKeeps ==
  ASSUME SaveInv, NEW c \in Consoles, CardRead(c)
  PROVE  SaveInv'
<1> USE DEF SaveInv
<1>1. /\ worker' = worker /\ rack' = rack /\ gen' = gen /\ card' = card /\ chain' = chain
      /\ tracked' = tracked /\ written' = written /\ exposed' = exposed
      /\ boots' = boots /\ plays' = plays /\ timers' = timers
      /\ InBoot(c, "restoring") /\ ~ Awaiting(c)
  BY DEF CardRead, guardVars
<1>2. failures' \in 0 .. MaxFailures
  <2>1. failures' = failures \/ (failures < MaxFailures /\ failures' = failures + 1)
    BY DEF CardRead
  <2> QED
    BY <2>1, CountersTyped
<1>3. boot[c] \in Boots /\ boot[c] # None /\ boot[c].step = "restoring"
  BY <1>1, BootIsRecord
<1>4. PICK r : /\ boot' = [boot EXCEPT ![c] = r]
               /\ \/ r = [boot[c] EXCEPT !.step = "ready", !.restored = card[boot[c].game],
                                         !.seen = Nothing] /\ boot[c].game \in Cards
                  \/ r = [boot[c] EXCEPT !.step = "ready", !.seen = Nothing]
  BY <1>3 DEF CardRead, BootsSound
<1>5. r \in Boots /\ r.step = "ready" /\ r.worker = boot[c].worker
  <2>1. Nothing \in [Consoles -> Nat]
    BY DEF Nothing
  <2>2. boot[c].game \in Cards => card[boot[c].game] \in Records \cup {None}
    BY DEF SaveTypeOK
  <2> HIDE DEF Records, Nothing
  <2> QED
    BY <1>3, <1>4, <2>1, <2>2 DEF Boots
<1>6. /\ boot' \in [Consoles -> Boots \cup {None}] /\ boot'[c] = r
      /\ \A b \in Consoles \ {c} : SameBoot(b)
  BY <1>4, <1>5, BootBecomes
<1>7. GamesStay /\ Len(worker) <= Len(worker') /\ \A d \in Consoles : Unrevived(d)
  BY <1>1, WorkersStay
<1>8. TurnsOut(c)
  <2>1. BootSound(c)'
    BY <1>1, <1>3, <1>5, <1>6 DEF BootSound, BootsSound
  <2>2. TrackedRun(c)'
    BY <1>1, <1>3 DEF TrackedRun, TrackedRuns, BetweenGames, InBoot, Alive
  <2> QED
    BY <1>1, <2>1, <2>2 DEF TurnsOut
<1>9. chain' \in [Consoles -> Seq(Flushes)] /\ ChainsFollow
  BY <1>1, ChainsStay
<1>10. Follows
  BY <1>1, <1>6, <1>7, <1>8, <1>9, IdentitiesStay DEF Follows, GoesOn, SaveTypeOK
<1>11. SaveTypeOK'
  BY <1>1, <1>2, <1>6, <1>9, ChainsKeepOrder DEF SaveTypeOK
<1> QED
  BY <1>10, <1>11, FollowingKeeps

LEMMA BootAbandonedKeeps ==
  ASSUME SaveInv, NEW c \in Consoles, BootAbandoned(c)
  PROVE  SaveInv'
<1> USE DEF SaveInv
<1>1. /\ worker' = worker /\ rack' = rack /\ gen' = gen /\ card' = card /\ chain' = chain
      /\ tracked' = tracked /\ written' = written /\ exposed' = exposed
      /\ UNCHANGED countVars
      /\ InBoot(c, "ready") /\ boot' = [boot EXCEPT ![c] = None]
  BY DEF BootAbandoned, guardVars
<1>2. boot[c].step = "ready"
  BY <1>1, BootIsRecord
<1>3. /\ boot' \in [Consoles -> Boots \cup {None}] /\ boot'[c] = None
      /\ \A b \in Consoles \ {c} : SameBoot(b)
  BY <1>1, BootBecomes
<1>4. GamesStay /\ Len(worker) <= Len(worker') /\ \A d \in Consoles : Unrevived(d)
  BY <1>1, WorkersStay
<1>5. TurnsOut(c)
  <2>1. BootSound(c)'
    BY <1>3 DEF BootSound
  <2>2. TrackedRun(c)'
    BY <1>1, <1>2 DEF TrackedRun, TrackedRuns, BetweenGames, InBoot, Alive
  <2>3. ~ Awaiting(c)
    BY <1>2, NobodyAwaited DEF Waits
  <2> QED
    BY <2>1, <2>2, <2>3 DEF TurnsOut
<1>6. chain' \in [Consoles -> Seq(Flushes)] /\ ChainsFollow
  BY <1>1, ChainsStay
<1>7. Follows
  BY <1>1, <1>3, <1>4, <1>5, <1>6, IdentitiesStay DEF Follows, GoesOn, SaveTypeOK
<1>8. SaveTypeOK'
  BY <1>1, <1>3, <1>6, ChainsKeepOrder DEF SaveTypeOK, countVars
<1> QED
  BY <1>7, <1>8, FollowingKeeps

LEMMA HandOverKeeps ==
  ASSUME SaveInv, NEW c \in Consoles, HandOver(c)
  PROVE  SaveInv'
<1> USE DEF SaveInv
<1>1. /\ worker' = worker /\ rack' = rack /\ gen' = gen /\ card' = card
      /\ tracked' = tracked /\ written' = written /\ exposed' = exposed
      /\ UNCHANGED countVars
      /\ InBoot(c, "ready")
  BY DEF HandOver
<1>2. boot[c] \in Boots /\ boot[c].step = "ready"
  BY <1>1, BootIsRecord
<1>3. PICK r : /\ boot' = [boot EXCEPT ![c] = r]
               /\ \/ r = [boot[c] EXCEPT !.step = "flushed"]
                  \/ r = [boot[c] EXCEPT !.step = "flushed", !.outgoing = Outgoing(c)]
  BY DEF HandOver
<1>4. r \in Boots /\ r.step = "flushed" /\ r.worker = boot[c].worker
  BY <1>2, <1>3, MemoryTyped DEF Boots
<1>5. /\ boot' \in [Consoles -> Boots \cup {None}] /\ boot'[c] = r
      /\ \A b \in Consoles \ {c} : SameBoot(b)
  BY <1>3, <1>4, BootBecomes
<1>6. WillWait(c)
  BY <1>4, <1>5, NoneIsApart DEF WillWait
<1>7. GamesStay /\ Len(worker) <= Len(worker') /\ \A d \in Consoles : Unrevived(d)
  BY <1>1, WorkersStay
<1>8. TurnsOut(c)
  <2>1. BootSound(c)'
    BY <1>1, <1>2, <1>4, <1>5, BootIsRecord DEF BootSound, BootsSound
  <2>2. TrackedRun(c)'
    BY <1>1, <1>2 DEF TrackedRun, TrackedRuns, BetweenGames, InBoot, Alive
  <2>3. ~ Awaiting(c)
    BY <1>2, NobodyAwaited DEF Waits
  <2> QED
    BY <2>1, <2>2, <2>3 DEF TurnsOut
<1>9. chain' \in [Consoles -> Seq(Flushes)] /\ ChainsFollow
  <2>1. CASE chain' = chain
    BY <2>1, ChainsStay
  <2>2. CASE chain' = [chain EXCEPT ![c] = @ \o Flush(c, c, FALSE)]
    BY <1>6, <2>2, OneIsAsked
  <2> QED
    BY <2>1, <2>2 DEF HandOver
<1>10. Follows
  BY <1>1, <1>5, <1>7, <1>8, <1>9, IdentitiesStay DEF Follows, GoesOn, SaveTypeOK
<1>11. SaveTypeOK'
  BY <1>1, <1>5, <1>9, ChainsKeepOrder DEF SaveTypeOK, countVars
<1> QED
  BY <1>10, <1>11, FollowingKeeps

LEMMA CoreStartsKeeps ==
  ASSUME SaveInv, NEW c \in Consoles, CoreStarts(c)
  PROVE  SaveInv'
<1> USE DEF SaveInv
<1>1. /\ gen' = gen /\ card' = card /\ chain' = chain
      /\ tracked' = tracked /\ written' = written /\ exposed' = exposed
      /\ UNCHANGED countVars
      /\ InBoot(c, "flushed") /\ ~ Awaiting(c)
      /\ rack' = IF boot[c].fresh THEN rack ELSE [rack EXCEPT ![c] = Len(worker')]
  BY DEF CoreStarts, guardVars
<1>2. boot[c] \in Boots /\ boot[c] # None /\ boot[c].step = "flushed"
  BY <1>1, BootIsRecord
<1>3. PICK h : h = [game |-> boot[c].game, memory |-> 0, state |-> "booting"]
  OBVIOUS
<1>4. h \in Hosted /\ h.game = boot[c].game
  BY <1>2, <1>3, SaveConstants DEF Hosted, Boots
<1>5. PICK stopped : /\ worker' = Append(stopped, h)
                     /\ stopped = IF boot[c].fresh THEN worker
                                  ELSE [worker EXCEPT ![rack[c]].state = "gone",
                                                      ![rack[c]].memory = 0]
  BY <1>3 DEF CoreStarts
<1>6. /\ stopped \in Seq(Hosted) /\ Len(stopped) = Len(worker)
      /\ \A w \in DOMAIN worker :
           /\ w \in DOMAIN stopped /\ stopped[w].game = worker[w].game
           /\ stopped[w].state # "gone" => worker[w].state # "gone"
  <2>1. worker \in Seq(Hosted)
    BY DEF SaveTypeOK
  <2>2. CASE boot[c].fresh
    BY <1>5, <2>1, <2>2
  <2>3. CASE ~ boot[c].fresh
    <3>1. CASE rack[c] \in DOMAIN worker
      <4>1. PICK g : g = [worker[rack[c]] EXCEPT !.state = "gone", !.memory = 0]
        OBVIOUS
      <4>2. worker[rack[c]] \in Hosted
        BY <2>1, <3>1
      <4>3. g \in Hosted /\ g.game = worker[rack[c]].game /\ g.state = "gone"
        <5>1. 0 \in 0 .. MaxPlays
          BY SaveConstants
        <5>2. PICK q : q = worker[rack[c]]
          OBVIOUS
        <5> QED
          BY <4>1, <4>2, <5>1, <5>2 DEF Hosted
      <4>4. stopped = [worker EXCEPT ![rack[c]] = g]
        BY <1>5, <2>3, <4>1
      <4> HIDE DEF Hosted
      <4> QED
        BY <2>1, <3>1, <4>3, <4>4
    <3>2. CASE rack[c] \notin DOMAIN worker
      <4>1. stopped = worker
        BY <1>5, <2>1, <2>3, <3>2
      <4> QED
        BY <2>1, <4>1
    <3> QED
      BY <3>1, <3>2
  <2> QED
    BY <2>2, <2>3
<1>7. /\ worker' \in Seq(Hosted) /\ Len(worker') = Len(worker) + 1
      /\ worker'[Len(worker')] = h
      /\ \A w \in DOMAIN worker :
           /\ w \in DOMAIN worker' /\ worker'[w].game = worker[w].game
           /\ worker'[w].state # "gone" => worker[w].state # "gone"
  <2>1. worker \in Seq(Hosted)
    BY DEF SaveTypeOK
  <2>2. worker' = Append(stopped, h)
    BY <1>5
  <2> HIDE DEF Hosted
  <2>3. /\ worker' \in Seq(Hosted) /\ Len(worker') = Len(worker) + 1
        /\ worker'[Len(worker) + 1] = h
        /\ \A w \in DOMAIN stopped : w \in DOMAIN worker' /\ worker'[w] = stopped[w]
    BY <1>4, <1>6, <2>1, <2>2
  <2> QED
    BY <1>6, <2>1, <2>3
<1>8. PICK n \in Nat : n = Len(worker') /\ n # 0
  BY <1>7 DEF SaveTypeOK
<1>9. PICK r : /\ r = [boot[c] EXCEPT !.step = "starting", !.worker = Len(worker'),
                                       !.outgoing = None]
               /\ boot' = [boot EXCEPT ![c] = r]
  <2>1. boot' = [boot EXCEPT ![c].step = "starting", ![c].worker = Len(worker'),
                             ![c].outgoing = None]
    BY DEF CoreStarts
  <2>2. boot' = [boot EXCEPT ![c] = [boot[c] EXCEPT !.step = "starting",
                                                    !.worker = Len(worker'), !.outgoing = None]]
    BY <2>1
  <2> QED
    BY <2>2
<1>10. /\ r \in Boots /\ r.step = "starting" /\ r.worker = n /\ r.game = boot[c].game
       /\ r.fresh = boot[c].fresh
  BY <1>2, <1>8, <1>9 DEF Boots
<1>11. /\ boot' \in [Consoles -> Boots \cup {None}] /\ boot'[c] = r
       /\ \A b \in Consoles \ {c} : SameBoot(b)
  BY <1>9, <1>10, BootBecomes
<1>12. r # None
  BY <1>10, NoneIsApart
<1>13. rack' \in [Consoles -> 0 .. Len(worker')] /\ \A d \in Consoles \ {c} : rack'[d] = rack[d]
  BY <1>1, <1>7, <1>8 DEF SaveTypeOK
<1>14. ASSUME NEW d \in Consoles, rack'[d] = rack[d] PROVE Unrevived(d)
  BY <1>7, <1>14 DEF Unrevived, Alive, SaveTypeOK
<1>15. TurnsOut(c)
  <2>1. BootSound(c)'
    <3>1. ~ boot[c].fresh => rack'[c] = n
      BY <1>1, <1>8 DEF SaveTypeOK
    <3>2. n \in 0 .. Len(worker') /\ worker'[n].game = r.game
      BY <1>4, <1>7, <1>8, <1>10
    <3> QED
      BY <1>8, <1>10, <1>11, <3>1, <3>2 DEF BootSound
  <2>2. TrackedRun(c)'
    <3>1. CASE boot[c].fresh
      <4>1. Unrevived(c) /\ rack'[c] = rack[c]
        BY <1>1, <1>14, <3>1
      <4>2. ~ BetweenGames(c)
        BY <1>2 DEF BetweenGames, InBoot
      <4>3. rack[c] # 0 => rack[c] \in DOMAIN worker
        BY DEF SaveTypeOK
      <4> QED
        BY <1>1, <1>7, <4>1, <4>2, <4>3 DEF TrackedRun, TrackedRuns, Unrevived, Alive
    <3>2. CASE ~ boot[c].fresh
      BY <1>10, <1>11, <1>12, <3>2 DEF TrackedRun, BetweenGames, InBoot
    <3> QED
      BY <3>1, <3>2
  <2> QED
    BY <1>1, <2>1, <2>2 DEF TurnsOut
<1>16. chain' \in [Consoles -> Seq(Flushes)] /\ ChainsFollow
  BY <1>1, ChainsStay
<1>17. GamesStay /\ Len(worker) <= Len(worker')
  BY <1>7 DEF GamesStay, SaveTypeOK
<1>18. \A d \in Consoles : GoesOn(d) \/ TurnsOut(d)
  BY <1>1, <1>11, <1>13, <1>14, <1>15 DEF GoesOn
<1>19. Follows
  BY <1>1, <1>16, <1>17, <1>18, IdentitiesStay DEF Follows, SaveTypeOK
<1>20. SaveTypeOK'
  BY <1>1, <1>7, <1>11, <1>13, <1>16, ChainsKeepOrder DEF SaveTypeOK, countVars
<1> QED
  BY <1>19, <1>20, FollowingKeeps

\* The worker of a boot that starts becomes h.
LEMMA WorkerBecomes ==
  ASSUME SaveInv, NEW c \in Consoles, boot[c] # None, boot[c].step = "starting",
         NEW h \in Hosted, h.game = worker[boot[c].worker].game,
         h.state # "gone" => worker[boot[c].worker].state # "gone",
         worker' = [worker EXCEPT ![boot[c].worker] = h], rack' = rack
  PROVE  /\ worker' \in Seq(Hosted) /\ Len(worker') = Len(worker)
         /\ worker'[boot[c].worker] = h
         /\ GamesStay
         /\ \A d \in Consoles : Unrevived(d)
<1>1. worker \in Seq(Hosted) /\ boot[c].worker \in DOMAIN worker
  BY DEF SaveInv, SaveTypeOK, BootsSound
<1>2. /\ worker' \in Seq(Hosted) /\ Len(worker') = Len(worker)
      /\ worker'[boot[c].worker] = h
      /\ \A w \in DOMAIN worker :
           /\ w \in DOMAIN worker' /\ worker'[w].game = worker[w].game
           /\ worker'[w].state # "gone" => worker[w].state # "gone"
  <2> HIDE DEF Hosted
  <2> QED
    BY <1>1
<1>3. \A d \in Consoles : Unrevived(d)
  BY <1>2 DEF Unrevived, Alive, SaveInv, SaveTypeOK
<1> QED
  BY <1>2, <1>3 DEF GamesStay

LEMMA CoreUpKeeps ==
  ASSUME SaveInv, NEW c \in Consoles, CoreUp(c)
  PROVE  SaveInv'
<1> USE DEF SaveInv
<1>1. /\ rack' = rack /\ gen' = gen /\ card' = card /\ chain' = chain /\ boot' = boot
      /\ tracked' = tracked /\ written' = written /\ exposed' = exposed
      /\ UNCHANGED countVars
      /\ InBoot(c, "starting") /\ worker[boot[c].worker].state = "booting"
  BY DEF CoreUp, guardVars
<1>2. boot[c] \in Boots /\ boot[c] # None /\ boot[c].step = "starting"
  BY <1>1, BootIsRecord
<1>3. worker[boot[c].worker] \in Hosted
  BY <1>2 DEF SaveTypeOK, BootsSound
<1>4. PICK memory : memory = IF boot[c].restored = None THEN 0 ELSE boot[c].restored.memory
  OBVIOUS
<1>5. memory \in 0 .. MaxPlays
  BY <1>2, <1>4, SaveConstants DEF Boots, Records
<1>6. PICK h : h = [worker[boot[c].worker] EXCEPT !.state = "up", !.memory = memory]
  OBVIOUS
<1>7. h \in Hosted /\ h.game = worker[boot[c].worker].game
  BY <1>3, <1>5, <1>6 DEF Hosted
<1>8. worker' = [worker EXCEPT ![boot[c].worker] = h]
  BY <1>4, <1>6 DEF CoreUp
<1>9. /\ worker' \in Seq(Hosted) /\ Len(worker') = Len(worker) /\ GamesStay
      /\ \A d \in Consoles : Unrevived(d)
  BY <1>1, <1>2, <1>7, <1>8, WorkerBecomes
<1>10. chain' \in [Consoles -> Seq(Flushes)] /\ ChainsFollow
  BY <1>1, ChainsStay
<1>11. Follows
  BY <1>1, <1>9, <1>10, BootsStay, IdentitiesStay DEF Follows, GoesOn, SaveTypeOK
<1>12. SaveTypeOK'
  BY <1>1, <1>9, <1>10, ChainsKeepOrder DEF SaveTypeOK, countVars
<1> QED
  BY <1>11, <1>12, FollowingKeeps

LEMMA BootFailsKeeps ==
  ASSUME SaveInv, NEW c \in Consoles, BootFails(c)
  PROVE  SaveInv'
<1> USE DEF SaveInv
<1>1. /\ rack' = rack /\ gen' = gen /\ card' = card /\ chain' = chain
      /\ tracked' = tracked /\ written' = written /\ exposed' = exposed
      /\ boots' = boots /\ plays' = plays /\ timers' = timers
      /\ InBoot(c, "starting") /\ boot' = [boot EXCEPT ![c] = None]
  BY DEF BootFails, guardVars
<1>2. failures' \in 0 .. MaxFailures
  <2>1. failures < MaxFailures /\ failures' = failures + 1
    BY DEF BootFails
  <2> QED
    BY <2>1, CountersTyped
<1>3. boot[c] # None /\ boot[c].step = "starting"
  BY <1>1, BootIsRecord
<1>4. worker[boot[c].worker] \in Hosted
  BY <1>3 DEF SaveTypeOK, BootsSound
<1>5. PICK h : h = [worker[boot[c].worker] EXCEPT !.state = "gone"]
  OBVIOUS
<1>6. h \in Hosted /\ h.game = worker[boot[c].worker].game /\ h.state = "gone"
  BY <1>4, <1>5 DEF Hosted
<1>7. worker' = [worker EXCEPT ![boot[c].worker] = h]
  BY <1>5 DEF BootFails
<1>8. /\ worker' \in Seq(Hosted) /\ Len(worker') = Len(worker)
      /\ worker'[boot[c].worker] = h
      /\ GamesStay
      /\ \A d \in Consoles : Unrevived(d)
  BY <1>1, <1>3, <1>6, <1>7, WorkerBecomes
<1>9. /\ boot' \in [Consoles -> Boots \cup {None}] /\ boot'[c] = None
      /\ \A b \in Consoles \ {c} : SameBoot(b)
  BY <1>1, BootBecomes
<1>10. TurnsOut(c)
  <2>1. BootSound(c)'
    BY <1>9 DEF BootSound
  <2>2. TrackedRun(c)'
    <3>1. CASE boot[c].fresh
      <4>1. ~ BetweenGames(c)
        BY <3>1 DEF BetweenGames
      <4>2. rack[c] # 0 => rack[c] \in DOMAIN worker
        BY DEF SaveTypeOK
      <4> QED
        BY <1>1, <1>8, <4>1, <4>2
           DEF TrackedRun, TrackedRuns, Unrevived, GamesStay, Alive
    <3>2. CASE ~ boot[c].fresh
      <4>1. rack'[c] = boot[c].worker
        BY <1>1, <1>3, <3>2 DEF BootsSound
      <4> QED
        BY <1>6, <1>8, <4>1 DEF TrackedRun, Alive
    <3> QED
      BY <3>1, <3>2
  <2>3. ~ Awaiting(c)
    BY <1>3, NobodyAwaited DEF Waits
  <2> QED
    BY <2>1, <2>2, <2>3 DEF TurnsOut
<1>11. chain' \in [Consoles -> Seq(Flushes)] /\ ChainsFollow
  BY <1>1, ChainsStay
<1>12. Follows
  BY <1>1, <1>8, <1>9, <1>10, <1>11, IdentitiesStay DEF Follows, GoesOn, SaveTypeOK
<1>13. SaveTypeOK'
  BY <1>1, <1>2, <1>8, <1>9, <1>11, ChainsKeepOrder DEF SaveTypeOK
<1> QED
  BY <1>12, <1>13, FollowingKeeps

\* A console is tracked under its new game, by a generation that is new, or not at all.
LEMMA TrackingIsNew ==
  ASSUME SaveInv, NEW c \in Consoles, NEW g \in Games, Track(c, g)
  PROVE  /\ gen' \in Nat /\ gen <= gen'
         /\ tracked' \in [Consoles -> [game : Cards, gen : 1 .. gen'] \cup {None}]
         /\ \A d \in Consoles \ {c} : tracked'[d] = tracked[d]
         /\ tracked'[c] # None => tracked'[c].game = g
         /\ IdentitiesAreNew
         /\ written' \in [Consoles -> 0 .. MaxPlays]
<1>1. /\ gen \in Nat /\ tracked \in [Consoles -> [game : Cards, gen : 1 .. gen] \cup {None}]
      /\ written \in [Consoles -> 0 .. MaxPlays]
  BY DEF SaveInv, SaveTypeOK
<1>2. written' \in [Consoles -> 0 .. MaxPlays]
  <2>1. 0 \in 0 .. MaxPlays
    BY SaveConstants
  <2>2. written' = written \/ written' = [written EXCEPT ![c] = 0]
    BY DEF Track
  <2> QED
    BY <1>1, <2>1, <2>2
<1>3. CASE g \in Cards
  <2>1. PICK t : t = [game |-> g, gen |-> gen + 1]
    OBVIOUS
  <2>2. gen' = gen + 1 /\ tracked' = [tracked EXCEPT ![c] = t]
    BY <1>3, <2>1 DEF Track
  <2>3. /\ t \in [game : Cards, gen : 1 .. gen'] /\ t.game = g /\ t.gen > gen
        /\ [game : Cards, gen : 1 .. gen] \subseteq [game : Cards, gen : 1 .. gen']
    BY <1>1, <1>3, <2>1, <2>2
  <2>4. tracked'[c] = t /\ \A d \in Consoles \ {c} : tracked'[d] = tracked[d]
    BY <1>1, <2>2
  <2>5. tracked' \in [Consoles -> [game : Cards, gen : 1 .. gen'] \cup {None}]
    BY <1>1, <2>2, <2>3
  <2> QED
    BY <1>1, <1>2, <2>2, <2>3, <2>4, <2>5 DEF IdentitiesAreNew
<1>4. CASE g \notin Cards
  <2>1. gen' = gen /\ tracked' = [tracked EXCEPT ![c] = None]
    BY <1>4 DEF Track
  <2> QED
    BY <1>1, <1>2, <2>1 DEF IdentitiesAreNew
<1> QED
  BY <1>3, <1>4

LEMMA InstalledKeeps ==
  ASSUME SaveInv, NEW c \in Consoles, Installed(c)
  PROVE  SaveInv'
<1> USE DEF SaveInv
<1>1. /\ worker' = worker /\ card' = card /\ exposed' = exposed
      /\ UNCHANGED countVars
      /\ InBoot(c, "starting")
      /\ rack' = [rack EXCEPT ![c] = boot[c].worker]
  BY DEF Installed
<1>2. boot[c] \in Boots /\ boot[c] # None /\ boot[c].step = "starting"
  BY <1>1, BootIsRecord
<1>3. /\ boot[c].worker \in DOMAIN worker /\ boot[c].worker \in 0 .. Len(worker)
      /\ worker[boot[c].worker].game = boot[c].game
      /\ boot[c].game \in Games
  <2>1. boot[c].game \in Games
    BY <1>2 DEF Boots
  <2> QED
    BY <1>2, <2>1 DEF SaveTypeOK, BootsSound
<1>4. Track(c, boot[c].game)
  BY DEF Installed
<1>5. /\ gen' \in Nat /\ gen <= gen'
      /\ tracked' \in [Consoles -> [game : Cards, gen : 1 .. gen'] \cup {None}]
      /\ \A d \in Consoles \ {c} : tracked'[d] = tracked[d]
      /\ tracked'[c] # None => tracked'[c].game = boot[c].game
      /\ IdentitiesAreNew
      /\ written' \in [Consoles -> 0 .. MaxPlays]
  BY <1>3, <1>4, TrackingIsNew
<1>6. /\ rack' \in [Consoles -> 0 .. Len(worker')] /\ rack'[c] = boot[c].worker
      /\ \A d \in Consoles \ {c} : rack'[d] = rack[d]
  BY <1>1, <1>3 DEF SaveTypeOK
<1>7. /\ boot' \in [Consoles -> Boots \cup {None}] /\ boot'[c] = None
      /\ \A b \in Consoles \ {c} : SameBoot(b)
  <2>1. boot' = [b \in Consoles |-> IF b = c \/ boot[b] = None THEN None
                                    ELSE [boot[b] EXCEPT !.seen[c] = 0]]
    BY DEF Installed
  <2>2. boot'[c] = None
    BY <2>1
  <2>3. ASSUME NEW b \in Consoles, b # c PROVE boot'[b] \in Boots \cup {None} /\ SameBoot(b)
    <3>1. CASE boot[b] = None
      BY <2>1, <2>3, <3>1 DEF SameBoot
    <3>2. CASE boot[b] # None
      <4>1. PICK r : r = [boot[b] EXCEPT !.seen[c] = 0]
        OBVIOUS
      <4>2. boot[b] \in Boots
        BY <3>2 DEF SaveTypeOK
      <4>3. /\ r \in Boots /\ r.game = boot[b].game /\ r.fresh = boot[b].fresh
            /\ r.step = boot[b].step /\ r.worker = boot[b].worker
        BY <4>1, <4>2 DEF Boots
      <4>4. boot'[b] = r
        BY <2>1, <2>3, <3>2, <4>1
      <4> HIDE DEF Boots
      <4> QED
        BY <3>2, <4>3, <4>4, NoneIsApart DEF SameBoot
    <3> QED
      BY <3>1, <3>2
  <2>4. \A b \in Consoles : boot'[b] \in Boots \cup {None}
    BY <2>2, <2>3
  <2>5. boot' \in [Consoles -> Boots \cup {None}]
    <3> HIDE DEF Boots
    <3> QED
      BY <2>1, <2>4, Zenon
  <2> QED
    BY <2>2, <2>3, <2>5
<1>8. GamesStay /\ Len(worker) <= Len(worker')
  BY <1>1 DEF GamesStay, SaveTypeOK
<1>9. ASSUME NEW d \in Consoles, d # c PROVE GoesOn(d)
  BY <1>1, <1>5, <1>6, <1>7, <1>9 DEF GoesOn, Unrevived, Alive
<1>10. TurnsOut(c)
  <2>1. BootSound(c)'
    BY <1>7 DEF BootSound
  <2>2. TrackedRun(c)'
    BY <1>1, <1>3, <1>5, <1>6 DEF TrackedRun
  <2>3. ~ Awaiting(c)
    BY <1>2, NobodyAwaited DEF Waits
  <2> QED
    BY <2>1, <2>2, <2>3 DEF TurnsOut
<1>11. chain' \in [Consoles -> Seq(Flushes)] /\ ChainsFollow
  <2>1. CASE boot[c].fresh
    BY <2>1, OneIsAsked DEF Installed
  <2>2. CASE ~ boot[c].fresh
    BY <2>2, ChainsStay DEF Installed
  <2> QED
    BY <2>1, <2>2
<1>12. Follows
  BY <1>1, <1>5, <1>8, <1>9, <1>10, <1>11 DEF Follows
<1>13. SaveTypeOK'
  BY <1>1, <1>5, <1>6, <1>7, <1>11, ChainsKeepOrder DEF SaveTypeOK, countVars
<1> QED
  BY <1>12, <1>13, FollowingKeeps

-----------------------------------------------------------------------------
(* What holds.                                                               *)

LEMMA SaveInit == Init => SaveInv
<1> SUFFICES ASSUME Init PROVE SaveInv
  OBVIOUS
<1>1. SaveTypeOK
  BY SaveConstants DEF Init, SaveTypeOK
<1>2. BootsSound /\ TrackedRuns
  BY DEF Init, BootsSound, TrackedRuns
<1>3. Identities /\ OwnMemory /\ Awaited
  BY DEF Init, Identities, OwnMemory, Awaited
<1> QED
  BY <1>1, <1>2, <1>3 DEF SaveInv

LEMMA SaveStutters ==
  ASSUME SaveInv, UNCHANGED saveVars PROVE SaveInv'
BY DEF saveVars, pageVars, guardVars, countVars, SaveInv, SaveTypeOK, BootsSound, Identities,
       TrackedRuns, OwnMemory, Awaited, Waits, BetweenGames, InBoot, Alive

LEMMA SaveStep == SaveInv /\ [Next]_saveVars => SaveInv'
<1> SUFFICES ASSUME SaveInv, Next PROVE SaveInv'
  BY SaveStutters
<1>1. ASSUME NEW c \in Consoles, FlushStep(c) PROVE SaveInv'
  BY <1>1, FlushStartsKeeps, MemoryReadKeeps, StoredKeeps, FlushFailsKeeps DEF FlushStep
<1>2. ASSUME NEW c \in Consoles, BootStep(c) PROVE SaveInv'
  BY <1>2, CardReadKeeps, BootAbandonedKeeps, HandOverKeeps, CoreStartsKeeps, CoreUpKeeps,
     BootFailsKeeps, InstalledKeeps DEF BootStep
<1>3. ASSUME NEW c \in Consoles, NEW g \in Games, NEW fresh \in BOOLEAN, BootBegins(c, g, fresh)
      PROVE  SaveInv'
  BY <1>3, BootBeginsKeeps
<1>4. ASSUME NEW w \in Workers, Play(w) PROVE SaveInv'
  BY <1>4, PlayKeeps
<1>5. ASSUME Timer PROVE SaveInv'
  BY <1>5, TimerKeeps
<1> QED
  BY <1>1, <1>2, <1>3, <1>4, <1>5 DEF Next

LEMMA SaveInvariant == Spec => []SaveInv
BY SaveInit, SaveStep, PTL DEF Spec

\* Workers, boots, identities and cards have their types, and the flushes of a console are
\* serialised, for any consoles and games and however boots, timers and failures interleave.
THEOREM SaveTypes == Spec => []SaveTypeOK
<1>1. SaveInv => SaveTypeOK
  BY DEF SaveInv
<1> QED
  BY <1>1, SaveInvariant, PTL

\* What a step writes to a card is of the card's game, but from a console flushed between two.
LEMMA CardStep ==
  ASSUME SaveInv, ForeignOnlyBetweenGames, [Next]_saveVars
  PROVE  ForeignOnlyBetweenGames'
<1>1. CASE \E c \in Consoles : Stored(c)
  <2>1. PICK c \in Consoles : Stored(c)
    BY <1>1
  <2>2. PICK f \in Flushes :
           /\ worker[f.worker].game = f.game \/ c \in exposed
           /\ card' = [card EXCEPT ![f.game] = [memory |-> f.memory, by |-> c,
                                                ran |-> worker[f.worker].game]]
    BY <2>1, StoredOwn
  <2>3. exposed' = exposed
    BY <2>1 DEF Stored
  <2>4. PICK ran : ran = worker[f.worker].game
    OBVIOUS
  <2>5. PICK r : r = [memory |-> f.memory, by |-> c, ran |-> ran]
    OBVIOUS
  <2>6. card' = [card EXCEPT ![f.game] = r] /\ r.by = c /\ r.ran = ran
    BY <2>2, <2>4, <2>5
  <2>7. DOMAIN card = Cards /\ f.game \in Cards
    BY DEF SaveInv, SaveTypeOK, Flushes
  <2>8. \A g \in Cards : card'[g] = IF g = f.game THEN r ELSE card[g]
    BY <2>6, <2>7
  <2> QED
    BY <2>2, <2>3, <2>4, <2>6, <2>8 DEF ForeignOnlyBetweenGames
<1>2. CASE card' = card /\ exposed \subseteq exposed'
  BY <1>2 DEF ForeignOnlyBetweenGames
<1>3. \/ \E c \in Consoles : Stored(c)
      \/ card' = card /\ exposed \subseteq exposed'
  <2>1. ASSUME NEW c \in Consoles, FlushStep(c), ~ Stored(c)
        PROVE  card' = card /\ exposed \subseteq exposed'
    BY <2>1 DEF FlushStep, FlushStarts, MemoryRead, FlushFails
  <2>2. ASSUME NEW c \in Consoles, BootStep(c) PROVE card' = card /\ exposed' = exposed
    BY <2>2 DEF BootStep, CardRead, BootAbandoned, HandOver, CoreStarts, CoreUp, BootFails,
                Installed
  <2>3. ASSUME NEW c \in Consoles, NEW g \in Games, NEW fresh \in BOOLEAN,
               BootBegins(c, g, fresh)
        PROVE  card' = card /\ exposed' = exposed
    BY <2>3 DEF BootBegins
  <2>4. ASSUME NEW w \in Workers, Play(w) PROVE card' = card /\ exposed' = exposed
    BY <2>4 DEF Play
  <2>5. ASSUME Timer PROVE card' = card /\ exposed' = exposed
    BY <2>5 DEF Timer
  <2>6. ASSUME UNCHANGED saveVars PROVE card' = card /\ exposed' = exposed
    BY <2>6 DEF saveVars
  <2> QED
    BY <2>1, <2>2, <2>3, <2>4, <2>5, <2>6 DEF Next
<1> QED
  BY <1>1, <1>2, <1>3

\* No two games share a card: bytes of another game are only ever written by a console that
\* was flushed while a hot boot was changing its game, for any consoles, games and bounds.
THEOREM CardsAreKeptApart == Spec => []ForeignOnlyBetweenGames
<1>1. Init => ForeignOnlyBetweenGames
  BY DEF Init, ForeignOnlyBetweenGames
<1>2. SaveInv /\ ForeignOnlyBetweenGames /\ [Next]_saveVars => ForeignOnlyBetweenGames'
  BY CardStep
<1> QED
  BY <1>1, <1>2, SaveInvariant, PTL DEF Spec

-----------------------------------------------------------------------------
(* The saves are kept: a second invariant, about what is in memory, on its   *)
(* way and on a card.  A console whose core has what was written last is     *)
(* taken for unchanged, so whatever may be taken for unchanged must be on    *)
(* the card (the parts named ...IsMarked); and a boot that awaits a flush    *)
(* is owed what the flush was asked for until it awaits none (Owed): the     *)
(* flush is waiting, or reads the worker that still has it, or saves it, or  *)
(* has saved it.                                                             *)

\* A flush of console c is under way.
HeadOn(c) == chain[c] # <<>> /\ chain[c][1].step # "queued"

\* A flush has bytes to store, or may get them; and which.
CanStore(f) == f.step = "saving" \/ (f.step = "reading" /\ Alive(f.worker))
Bytes(f) == IF f.step = "saving" THEN f.memory ELSE worker[f.worker].memory

\* The boot on console b awaits a flush of console c.
AwaitedOn(b, c) == \E i \in DOMAIN chain[c] : chain[c][i].awaits = b

\* What console c wrote to the card of g, if it was the last to write it, is no older than v.
Current(c, g, v) == card[g] # None /\ (card[g].by = c => card[g].memory >= v)

\* Console c runs a core under its identity.
InSession(c) == tracked[c] # None /\ Alive(rack[c]) /\ ~BetweenGames(c)

\* The boot on c has read its card; and its core is up.
HasRead(c) == boot[c] # None /\ boot[c].step # "restoring"
CoreIsUp(c) == InBoot(c, "starting") /\ worker[boot[c].worker].state = "up"

\* What a core, a card, a fingerprint or a flush has was played at some time, by a game with
\* a card; so what is played next is like none of it.
PlayedMemory ==
  /\ \A w \in DOMAIN worker :
       worker[w].memory <= plays /\ (worker[w].memory # 0 => worker[w].game \in Cards)
  /\ \A g \in Cards : card[g] # None => card[g].memory <= plays
Played(c) ==
  /\ written[c] <= plays
  /\ HeadOn(c) /\ chain[c][1].step = "saving" => chain[c][1].memory <= plays
  /\ boot[c] # None /\ boot[c].restored # None =>
       HasRead(c) /\ boot[c].restored.memory <= plays /\ boot[c].game \in Cards

\* No two consoles have to do with one worker.
Uses(c, w) ==
  w # 0 /\ \/ rack[c] = w
           \/ InBoot(c, "starting") /\ boot[c].worker = w
           \/ HeadOn(c) /\ chain[c][1].worker = w
OwnWorkers == \A c, d \in Consoles : \A w \in DOMAIN worker : Uses(c, w) /\ Uses(d, w) => c = d

\* A fresh boot has a worker of its own; one that boots is installed only between two games,
\* and is not flushed but then.
BootsApart(c) ==
  /\ InBoot(c, "starting") /\ rack[c] = boot[c].worker => ~boot[c].fresh
  /\ Alive(rack[c]) /\ worker[rack[c]].state = "booting" => BetweenGames(c)
  /\ c \notin exposed /\ HeadOn(c) => worker[chain[c][1].worker].state # "booting"

\* A console that runs a game with a card is tracked, and no flush that retires a console
\* finds it under the identity to forget.
StaysTracked(c) ==
  /\ Alive(rack[c]) /\ ~BetweenGames(c) /\ worker[rack[c]].game \in Cards => tracked[c] # None
  /\ \A i \in DOMAIN chain[c] :
       chain[c][i].retire /\ tracked[c] # None => chain[c][i].gen < tracked[c].gen

\* Once the boot on c has read its card, the flushes asked for before it began have ended.
HeadIsCurrent(c) ==
  /\ boot[c] # None /\ boot[c].game \in Cards /\ tracked[c] # None /\ HeadOn(c)
  /\ HasRead(c) \/ ~AwaitedOn(c, c)
  => chain[c][1].gen = tracked[c].gen

\* A flush under way has these bytes for the card of another game than g.
Elsewhere(c, g, m) ==
  HeadOn(c) /\ chain[c][1].game # g /\ CanStore(chain[c][1]) /\ Bytes(chain[c][1]) = m

\* What the guard would take for unchanged in the core that boots on c is on the card: what
\* the boot restores, and what the core has once it is up.
RestoredIsMarked(c) ==
  HasRead(c) /\ boot[c].restored # None =>
    LET g == boot[c].game
        m == boot[c].restored.memory
    IN \/ tracked[c] # None /\ tracked[c].game # g
       \/ HeadOn(c) /\ chain[c][1].game # g
       \/ tracked[c] # None /\ tracked[c].game = g /\ written[c] = m
       => Current(c, g, m)
BootIsMarked(c) ==
  CoreIsUp(c) /\ worker[boot[c].worker].memory # 0 =>
    LET g == boot[c].game
        m == worker[boot[c].worker].memory
    IN /\ \/ Elsewhere(c, g, m)
          \/ tracked[c] # None /\ tracked[c].game = g /\ written[c] = m
          => Current(c, g, m)
       /\ boot[c].fresh /\ Memory(c) = m =>
            boot[c].restored # None /\ boot[c].restored.memory = m

\* So is what it would take for unchanged in the core that console c runs.
RunIsMarked(c) ==
  InSession(c) /\ Memory(c) # 0
    /\ (written[c] = Memory(c) \/ Elsewhere(c, tracked[c].game, Memory(c)))
    => Current(c, tracked[c].game, Memory(c))

\* The boot on b will have, when it awaits no flush of console c any more, what c had in
\* memory of game g, which was v, on its card.
Owed(b, c, g, v) ==
  /\ v # 0
  /\ tracked[c] # None /\ tracked[c].game = g
  /\ InSession(c) => Memory(c) >= v
  /\ \A i \in DOMAIN chain[c] : chain[c][i].awaits = b => chain[c][i].game = g
  /\ HeadOn(c) /\ chain[c][1].game = g /\ (chain[c][1].awaits = b \/ ~AwaitedOn(b, c)) =>
       /\ chain[c][1].step = "reading" /\ Alive(chain[c][1].worker)
            => chain[c][1].worker = rack[c] /\ ~BetweenGames(c)
       /\ chain[c][1].step = "saving" => chain[c][1].memory >= v
  /\ ~AwaitedOn(b, c) => Current(c, g, v)

\* The boot on b is owed what it saw in the memory of c when it began ...
SeenOwed(b, c) ==
  boot[b] # None /\ boot[b].seen[c] # 0 => Owed(b, c, boot[b].game, boot[b].seen[c])

\* ... and what it replaces, once it has asked for its flush.
OutgoingOwed(c) ==
  boot[c] # None /\ boot[c].outgoing # None
    /\ (boot[c].step = "flushed" \/ (c = Primary /\ ~boot[c].fresh))
    => Owed(c, c, boot[c].outgoing.game, boot[c].outgoing.memory)

\* What holds of every console, and of one that was not flushed between two games.
ConsoleKept(c) ==
  /\ Played(c) /\ BootsApart(c) /\ StaysTracked(c) /\ HeadIsCurrent(c)
  /\ c \notin exposed => RestoredIsMarked(c) /\ BootIsMarked(c) /\ RunIsMarked(c)
DebtsKept(c) ==
  c \notin exposed => OutgoingOwed(c) /\ \A b \in Consoles : SeenOwed(b, c)

SavesKept ==
  /\ PlayedMemory /\ OwnWorkers
  /\ \A c \in Consoles : ConsoleKept(c) /\ DebtsKept(c)

-----------------------------------------------------------------------------
(* What a step may do to a console.                                          *)

\* The flush under way on c, if there is one, is the one that was, for the same bytes.
HeadFollows(c) ==
  HeadOn(c)' =>
    /\ HeadOn(c)
    /\ chain'[c][1].game = chain[c][1].game
    /\ chain'[c][1].gen = chain[c][1].gen
    /\ CanStore(chain[c][1])' =>
         CanStore(chain[c][1]) /\ Bytes(chain[c][1])' = Bytes(chain[c][1])

\* The flushes of c are flushes it had, at the same place or further ahead, or are asked for
\* now; the one under way has not moved.
ChainFollows(c) ==
  /\ HeadOn(c)' => HeadOn(c) /\ chain'[c][1] = chain[c][1]
  /\ \A i \in DOMAIN chain'[c] :
       \/ \E j \in DOMAIN chain[c] : chain'[c][i] = chain[c][j]
       \/ tracked[c] # None /\ chain'[c][i].game = tracked[c].game /\ ~chain'[c][i].retire

\* Console c is in a session only if it was, with the same worker.
SessionFollows(c) ==
  Alive(rack[c])' /\ ~BetweenGames(c)' =>
    Alive(rack[c]) /\ ~BetweenGames(c) /\ rack'[c] = rack[c]

\* What c wrote last is no older than it was.
CurrentsStay(c) == \A g \in Cards : \A v \in Nat : Current(c, g, v) => Current(c, g, v)'

\* The identity of c stays; and so does its fingerprint.
IdentityStays(c) == tracked'[c] = tracked[c] /\ written'[c] = written[c]

LEMMA HeadTyped ==
  ASSUME SaveInv, NEW c \in Consoles, HeadOn(c)
  PROVE  /\ 1 \in DOMAIN chain[c] /\ chain[c][1] \in Flushes
         /\ chain[c][1].worker \in DOMAIN worker /\ chain[c][1].worker # 0
         /\ Bytes(chain[c][1]) \in Nat
<1>1. 1 \in DOMAIN chain[c] /\ chain[c][1] \in Flushes
  BY DEF HeadOn, SaveInv, SaveTypeOK
<1>2. chain[c][1].worker \in DOMAIN worker
  BY <1>1 DEF HeadOn, SaveInv, OwnMemory
<1>3. worker[chain[c][1].worker] \in Hosted /\ chain[c][1].worker # 0
  BY <1>2 DEF SaveInv, SaveTypeOK
<1> QED
  BY <1>1, <1>2, <1>3, SaveConstants DEF Bytes, Hosted, Flushes

LEMMA IdentityTyped ==
  ASSUME SaveInv, NEW c \in Consoles, tracked[c] # None
  PROVE  tracked[c].game \in Cards /\ tracked[c].gen \in 1 .. gen /\ gen \in Nat
BY DEF SaveInv, SaveTypeOK

LEMMA StartingTyped ==
  ASSUME SaveInv, NEW c \in Consoles, InBoot(c, "starting")
  PROVE  /\ boot[c] # None /\ boot[c].worker \in DOMAIN worker /\ boot[c].worker # 0
         /\ worker[boot[c].worker].game = boot[c].game
         /\ worker[boot[c].worker].memory \in Nat
         /\ ~boot[c].fresh => rack[c] = boot[c].worker
<1>1. boot[c] # None /\ boot[c].step = "starting"
  BY BootIsRecord
<1>2. /\ boot[c].worker \in DOMAIN worker /\ boot[c].worker # 0
      /\ worker[boot[c].worker].game = boot[c].game
      /\ ~boot[c].fresh => rack[c] = boot[c].worker
  BY <1>1 DEF SaveInv, SaveTypeOK, BootsSound
<1>3. worker[boot[c].worker] \in Hosted
  BY <1>2 DEF SaveInv, SaveTypeOK
<1> QED
  BY <1>1, <1>2, <1>3, SaveConstants DEF Hosted

LEMMA CardTyped ==
  ASSUME SaveInv, NEW g \in Cards, card[g] # None
  PROVE  card[g] \in Records /\ card[g].memory \in Nat
<1>1. card[g] \in Records
  BY DEF SaveInv, SaveTypeOK
<1> QED
  BY <1>1, SaveConstants DEF Records

LEMMA UsedIsWorker ==
  ASSUME SaveInv, NEW c \in Consoles, NEW w, Uses(c, w)
  PROVE  w \in DOMAIN worker
<1>1. CASE rack[c] = w
  BY <1>1 DEF Uses, SaveInv, SaveTypeOK
<1>2. CASE InBoot(c, "starting") /\ boot[c].worker = w
  BY <1>2, StartingTyped
<1>3. CASE HeadOn(c) /\ chain[c][1].worker = w
  BY <1>3, HeadTyped
<1> QED
  BY <1>1, <1>2, <1>3 DEF Uses

-----------------------------------------------------------------------------
(* What a console keeps.                                                     *)

LEMMA HeadStaysCurrent ==
  ASSUME NEW c \in Consoles, HeadIsCurrent(c), HeadFollows(c), tracked'[c] = tracked[c],
         boot'[c] # None => /\ boot[c] # None /\ boot'[c].game = boot[c].game
                            /\ HasRead(c)' => HasRead(c) \/ ~AwaitedOn(c, c),
         HeadOn(c)' /\ AwaitedOn(c, c) => AwaitedOn(c, c)'
  PROVE  HeadIsCurrent(c)'
BY DEF HeadIsCurrent, HeadFollows

LEMMA RestoredStaysMarked ==
  ASSUME NEW c \in Consoles, RestoredIsMarked(c), Played(c), SaveTypeOK,
         HeadFollows(c), IdentityStays(c), CurrentsStay(c),
         HasRead(c)' => /\ HasRead(c) /\ boot'[c].game = boot[c].game
                        /\ boot'[c].restored = boot[c].restored
  PROVE  RestoredIsMarked(c)'
<1> SUFFICES ASSUME HasRead(c)', boot'[c].restored # None PROVE RestoredIsMarked(c)'
  BY DEF RestoredIsMarked
<1>1. PICK g : g = boot[c].game
  OBVIOUS
<1>2. PICK m : m = boot[c].restored.memory
  OBVIOUS
<1>3. HasRead(c) /\ boot[c].restored # None /\ boot'[c].game = g /\ boot'[c].restored.memory = m
  BY <1>1, <1>2
<1>4. boot[c].restored \in Records /\ g \in Cards
  BY <1>1, <1>3 DEF HasRead, Played, SaveTypeOK, Boots
<1>5. m \in Nat
  BY <1>2, <1>4, SaveConstants DEF Records
<1>6. \/ tracked[c] # None /\ tracked[c].game # g
      \/ HeadOn(c) /\ chain[c][1].game # g
      \/ tracked[c] # None /\ tracked[c].game = g /\ written[c] = m
      => Current(c, g, m)
  BY <1>1, <1>2, <1>3 DEF RestoredIsMarked
<1>7. \/ tracked'[c] # None /\ tracked'[c].game # g
      \/ HeadOn(c)' /\ chain'[c][1].game # g
      \/ tracked'[c] # None /\ tracked'[c].game = g /\ written'[c] = m
      => Current(c, g, m)
  BY <1>6 DEF HeadFollows, IdentityStays
<1>8. Current(c, g, m) => Current(c, g, m)'
  BY <1>4, <1>5 DEF CurrentsStay
<1> QED
  BY <1>3, <1>7, <1>8 DEF RestoredIsMarked

LEMMA BootStaysMarked ==
  ASSUME NEW c \in Consoles, SaveInv, BootIsMarked(c), PlayedMemory,
         HeadFollows(c), IdentityStays(c), CurrentsStay(c),
         CoreIsUp(c)' => /\ CoreIsUp(c) /\ boot'[c].game = boot[c].game
                         /\ boot'[c].restored = boot[c].restored
                         /\ boot'[c].fresh = boot[c].fresh
                         /\ worker'[boot'[c].worker].memory = worker[boot[c].worker].memory
                         /\ boot[c].fresh => Memory(c)' = Memory(c)
  PROVE  BootIsMarked(c)'
<1> SUFFICES ASSUME CoreIsUp(c)', worker'[boot'[c].worker].memory # 0 PROVE BootIsMarked(c)'
  BY DEF BootIsMarked
<1>1. PICK g : g = boot[c].game
  OBVIOUS
<1>2. PICK m : m = worker[boot[c].worker].memory
  OBVIOUS
<1>3. /\ CoreIsUp(c) /\ m # 0 /\ boot'[c].game = g
      /\ worker'[boot'[c].worker].memory = m
  BY <1>1, <1>2
<1>4. g \in Cards /\ m \in Nat
  BY <1>1, <1>2, <1>3, StartingTyped DEF CoreIsUp, PlayedMemory
<1>5. /\ \/ Elsewhere(c, g, m)
         \/ tracked[c] # None /\ tracked[c].game = g /\ written[c] = m
         => Current(c, g, m)
      /\ boot[c].fresh /\ Memory(c) = m =>
           boot[c].restored # None /\ boot[c].restored.memory = m
  BY <1>1, <1>2, <1>3 DEF BootIsMarked
<1>6. HeadOn(c)' /\ chain'[c][1].game # g /\ CanStore(chain[c][1])' /\ Bytes(chain[c][1])' = m
        => Elsewhere(c, g, m)
  BY DEF HeadFollows, Elsewhere
<1>7. tracked'[c] # None /\ tracked'[c].game = g /\ written'[c] = m => Current(c, g, m)
  BY <1>5 DEF IdentityStays
<1>8. Current(c, g, m) => Current(c, g, m)'
  BY <1>4 DEF CurrentsStay
<1> QED
  BY <1>3, <1>5, <1>6, <1>7, <1>8 DEF BootIsMarked, Elsewhere

LEMMA RunStaysMarked ==
  ASSUME NEW c \in Consoles, SaveInv, RunIsMarked(c),
         HeadFollows(c), IdentityStays(c), CurrentsStay(c), SessionFollows(c),
         InSession(c)' => Memory(c)' = Memory(c)
  PROVE  RunIsMarked(c)'
<1> SUFFICES ASSUME InSession(c)', Memory(c)' # 0 PROVE RunIsMarked(c)'
  BY DEF RunIsMarked
<1>1. InSession(c) /\ tracked[c] # None
  BY DEF InSession, SessionFollows, IdentityStays
<1>2. PICK g : g = tracked[c].game
  OBVIOUS
<1>3. PICK m : m = Memory(c)
  OBVIOUS
<1>4. g \in Cards /\ m \in Nat /\ m # 0 /\ Memory(c)' = m /\ tracked'[c].game = g
  BY <1>1, <1>2, <1>3, IdentityTyped, MemoryTyped DEF IdentityStays
<1>5. written[c] = m \/ Elsewhere(c, g, m) => Current(c, g, m)
  BY <1>1, <1>2, <1>3, <1>4 DEF RunIsMarked
<1>6. HeadOn(c)' /\ chain'[c][1].game # g /\ CanStore(chain[c][1])' /\ Bytes(chain[c][1])' = m
        => Elsewhere(c, g, m)
  BY DEF HeadFollows, Elsewhere
<1>7. Current(c, g, m) => Current(c, g, m)'
  BY <1>4 DEF CurrentsStay
<1> QED
  BY <1>4, <1>5, <1>6, <1>7 DEF RunIsMarked, Elsewhere, IdentityStays

LEMMA StillTracked ==
  ASSUME NEW c \in Consoles, SaveInv, StaysTracked(c), ChainFollows(c), SessionFollows(c),
         tracked'[c] = tracked[c], GamesStay
  PROVE  StaysTracked(c)'
<1>1. ASSUME Alive(rack[c])', ~BetweenGames(c)', worker'[rack'[c]].game \in Cards
      PROVE  tracked'[c] # None
  <2>1. Alive(rack[c]) /\ ~BetweenGames(c) /\ rack'[c] = rack[c]
    BY <1>1 DEF SessionFollows
  <2>2. rack[c] \in DOMAIN worker
    BY <2>1 DEF Alive, SaveInv, SaveTypeOK
  <2>3. worker'[rack'[c]].game = worker[rack[c]].game
    BY <2>1, <2>2 DEF GamesStay
  <2> QED
    BY <1>1, <2>1, <2>3 DEF StaysTracked
<1>2. ASSUME NEW i \in DOMAIN chain'[c], chain'[c][i].retire, tracked'[c] # None
      PROVE  chain'[c][i].gen < tracked'[c].gen
  BY <1>2 DEF ChainFollows, StaysTracked
<1> QED
  BY <1>1, <1>2 DEF StaysTracked

\* A flush under way on c is where it was, and so is the worker it reads, if that is c's.
HeadStays(c) ==
  HeadOn(c)' =>
    /\ Alive(chain[c][1].worker)' => Alive(chain[c][1].worker)
    /\ Alive(chain[c][1].worker)' /\ chain[c][1].worker = rack[c] /\ ~BetweenGames(c)
         => rack'[c] = rack[c] /\ ~BetweenGames(c)'

LEMMA DebtGoesOn ==
  ASSUME NEW b \in Consoles, NEW c \in Consoles, NEW g, NEW v \in Nat, SaveInv, Owed(b, c, g, v),
         tracked'[c] = tracked[c], ChainFollows(c), SessionFollows(c), HeadStays(c),
         InSession(c)' => Memory(c)' >= Memory(c) /\ Memory(c)' \in Nat,
         HeadOn(c)' /\ AwaitedOn(b, c) => AwaitedOn(b, c)',
         ~AwaitedOn(b, c)' => Current(c, g, v)'
  PROVE  Owed(b, c, g, v)'
<1>1. v # 0 /\ tracked'[c] # None /\ tracked'[c].game = g
  BY DEF Owed
<1>2. InSession(c)' => Memory(c)' >= v
  <2>1. InSession(c)' => InSession(c)
    BY DEF InSession, SessionFollows
  <2> QED
    BY <2>1, MemoryTyped, SaveConstants DEF Owed
<1>3. \A i \in DOMAIN chain'[c] : chain'[c][i].awaits = b => chain'[c][i].game = g
  BY DEF ChainFollows, Owed
<1>4. ASSUME HeadOn(c)', chain'[c][1].game = g, chain'[c][1].awaits = b \/ ~AwaitedOn(b, c)'
      PROVE  /\ chain'[c][1].step = "reading" /\ Alive(chain[c][1].worker)'
                  => chain'[c][1].worker = rack'[c] /\ ~BetweenGames(c)'
             /\ chain'[c][1].step = "saving" => chain'[c][1].memory >= v
  <2>1. HeadOn(c) /\ chain'[c][1] = chain[c][1]
    BY <1>4 DEF ChainFollows
  <2>2. /\ chain[c][1].step = "reading" /\ Alive(chain[c][1].worker)
             => chain[c][1].worker = rack[c] /\ ~BetweenGames(c)
        /\ chain[c][1].step = "saving" => chain[c][1].memory >= v
    BY <1>4, <2>1 DEF Owed
  <2> QED
    BY <1>4, <2>1, <2>2 DEF HeadStays
<1> QED
  BY <1>1, <1>2, <1>3, <1>4 DEF Owed

LEMMA DebtsStay ==
  ASSUME NEW b \in Consoles, NEW c \in Consoles, NEW g, NEW v \in Nat, SaveInv, Owed(b, c, g, v),
         tracked'[c] = tracked[c], ChainFollows(c), SessionFollows(c), HeadStays(c),
         CurrentsStay(c),
         InSession(c)' => Memory(c)' >= Memory(c) /\ Memory(c)' \in Nat,
         AwaitedOn(b, c) => AwaitedOn(b, c)'
  PROVE  Owed(b, c, g, v)'
<1>1. g \in Cards
  BY IdentityTyped DEF Owed
<1>2. ~AwaitedOn(b, c)' => Current(c, g, v)'
  BY <1>1 DEF Owed, CurrentsStay
<1> QED
  BY <1>2, DebtGoesOn

\* What the boot on b is owed of console c it was owed before, and it still awaits it if it did.
SeenFollows(b, c) ==
  boot'[b] # None /\ boot'[b].seen[c] # 0 =>
    /\ boot[b] # None /\ boot'[b].game = boot[b].game /\ boot'[b].seen[c] = boot[b].seen[c]
    /\ AwaitedOn(b, c) => AwaitedOn(b, c)'
Expects(c) == boot[c].step = "flushed" \/ (c = Primary /\ ~boot[c].fresh)
OutgoingFollows(c) ==
  boot'[c] # None /\ boot'[c].outgoing # None /\ Expects(c)' =>
    /\ boot[c] # None /\ boot'[c].outgoing = boot[c].outgoing /\ Expects(c)
    /\ AwaitedOn(c, c) => AwaitedOn(c, c)'

LEMMA DebtTyped ==
  ASSUME SaveInv, NEW b \in Consoles, boot[b] # None
  PROVE  /\ \A c \in Consoles : boot[b].seen[c] \in Nat
         /\ boot[b].outgoing # None => boot[b].outgoing.memory \in Nat
<1>1. boot[b] \in Boots
  BY DEF SaveInv, SaveTypeOK
<1>2. /\ boot[b].seen \in [Consoles -> Nat]
      /\ boot[b].outgoing \in [game : Games, memory : Nat] \cup {None}
  BY <1>1 DEF Boots
<1> QED
  BY <1>2

\* What the boot on b is owed of console c it is owed still.
Carried(b, c) == \A g : \A v \in Nat : Owed(b, c, g, v) => Owed(b, c, g, v)'

LEMMA DebtsCarried ==
  ASSUME NEW c \in Consoles, SaveInv, DebtsKept(c), exposed \subseteq exposed',
         c \notin exposed' => \A b \in Consoles :
           \/ SeenOwed(b, c)'
           \/ boot'[b] # None /\ boot'[b].seen[c] # 0 =>
                /\ boot[b] # None /\ boot'[b].game = boot[b].game
                /\ boot'[b].seen[c] = boot[b].seen[c]
                /\ Carried(b, c),
         c \notin exposed' =>
           \/ OutgoingOwed(c)'
           \/ boot'[c] # None /\ boot'[c].outgoing # None /\ Expects(c)' =>
                /\ boot[c] # None /\ boot'[c].outgoing = boot[c].outgoing /\ Expects(c)
                /\ Carried(c, c)
  PROVE  DebtsKept(c)'
<1> SUFFICES ASSUME c \notin exposed' PROVE OutgoingOwed(c)' /\ \A b \in Consoles : SeenOwed(b, c)'
  BY DEF DebtsKept
<1>1. OutgoingOwed(c) /\ \A b \in Consoles : SeenOwed(b, c)
  BY DEF DebtsKept
<1>2. ASSUME NEW b \in Consoles PROVE SeenOwed(b, c)'
  <2> SUFFICES ASSUME boot'[b] # None, boot'[b].seen[c] # 0, ~SeenOwed(b, c)'
               PROVE  SeenOwed(b, c)'
    BY DEF SeenOwed
  <2>1. PICK g : g = boot[b].game
    OBVIOUS
  <2>2. PICK v : v = boot[b].seen[c]
    OBVIOUS
  <2>3. boot[b] # None /\ boot'[b].game = g /\ boot'[b].seen[c] = v /\ v # 0 /\ Carried(b, c)
    BY <2>1, <2>2
  <2>4. v \in Nat /\ Owed(b, c, g, v)
    BY <1>1, <2>1, <2>2, <2>3, DebtTyped DEF SeenOwed
  <2>5. Owed(b, c, g, v)'
    BY <2>3, <2>4 DEF Carried
  <2> QED
    BY <2>3, <2>5 DEF SeenOwed, Owed
<1>3. OutgoingOwed(c)'
  <2> SUFFICES ASSUME boot'[c] # None, boot'[c].outgoing # None, Expects(c)',
                      ~OutgoingOwed(c)'
               PROVE  OutgoingOwed(c)'
    BY DEF OutgoingOwed, Expects
  <2>1. PICK g : g = boot[c].outgoing.game
    OBVIOUS
  <2>2. PICK v : v = boot[c].outgoing.memory
    OBVIOUS
  <2>3. boot[c] # None /\ boot'[c].outgoing = boot[c].outgoing /\ Expects(c) /\ Carried(c, c)
    OBVIOUS
  <2>4. v \in Nat /\ Owed(c, c, g, v)
    BY <1>1, <2>1, <2>2, <2>3, DebtTyped DEF OutgoingOwed, Expects
  <2>5. Owed(c, c, g, v)'
    BY <2>3, <2>4 DEF Carried
  <2> QED
    BY <2>1, <2>2, <2>3, <2>5 DEF OutgoingOwed, Owed
<1> QED
  BY <1>2, <1>3

\* Debts are carried while the flushes go on ...
LEMMA AllDebtsStay ==
  ASSUME NEW c \in Consoles, SaveInv, DebtsKept(c), exposed \subseteq exposed',
         tracked'[c] = tracked[c], ChainFollows(c), SessionFollows(c), HeadStays(c),
         CurrentsStay(c),
         InSession(c)' => Memory(c)' >= Memory(c) /\ Memory(c)' \in Nat,
         \A b \in Consoles : SeenFollows(b, c), OutgoingFollows(c)
  PROVE  DebtsKept(c)'
<1>1. ASSUME NEW b \in Consoles, AwaitedOn(b, c) => AwaitedOn(b, c)' PROVE Carried(b, c)
  <2> SUFFICES ASSUME NEW g, NEW v \in Nat, Owed(b, c, g, v) PROVE Owed(b, c, g, v)'
    BY DEF Carried
  <2> QED
    BY <1>1, DebtsStay
<1> QED
  BY <1>1, DebtsCarried DEF SeenFollows, OutgoingFollows

\* ... and when one has ended that leaves the card as it is owed.
LEMMA AllDebtsPaid ==
  ASSUME NEW c \in Consoles, SaveInv, DebtsKept(c), exposed' = exposed, boot' = boot,
         tracked'[c] = tracked[c], ChainFollows(c), SessionFollows(c), ~HeadOn(c)',
         InSession(c)' => Memory(c)' >= Memory(c) /\ Memory(c)' \in Nat,
         c \notin exposed => \A b \in Consoles : \A g : \A v \in Nat :
           Owed(b, c, g, v) /\ ~AwaitedOn(b, c)' => Current(c, g, v)'
  PROVE  DebtsKept(c)'
<1>1. ASSUME NEW b \in Consoles, c \notin exposed PROVE Carried(b, c)
  <2> SUFFICES ASSUME NEW g, NEW v \in Nat, Owed(b, c, g, v) PROVE Owed(b, c, g, v)'
    BY DEF Carried
  <2>1. HeadStays(c)
    BY DEF HeadStays
  <2>2. ~AwaitedOn(b, c)' => Current(c, g, v)'
    BY <1>1
  <2> QED
    BY <2>1, <2>2, DebtGoesOn
<1> QED
  BY <1>1, DebtsCarried DEF Expects

\* The workers that c has to do with are as they were.
WorkersRest(c) ==
  \A w \in DOMAIN worker : Uses(c, w) =>
    worker'[w].memory = worker[w].memory /\ worker'[w].state = worker[w].state

\* Console c only has its flushes taken off, or more of them asked for.
StandsBy(c) ==
  /\ IdentityStays(c) /\ rack'[c] = rack[c]
  /\ SameBoot(c) /\ (boot[c] # None => boot'[c].restored = boot[c].restored)
  /\ WorkersRest(c)
  /\ ChainFollows(c)
  /\ HeadOn(c)' /\ AwaitedOn(c, c) => AwaitedOn(c, c)'

LEMMA RackRests ==
  ASSUME SaveInv, NEW c \in Consoles, rack'[c] = rack[c], WorkersRest(c)
  PROVE  /\ Alive(rack[c])' = Alive(rack[c]) /\ Memory(c)' = Memory(c)
         /\ rack[c] # 0 => worker'[rack[c]].state = worker[rack[c]].state
<1>1. ASSUME rack[c] # 0 PROVE rack[c] \in DOMAIN worker /\ Uses(c, rack[c])
  BY <1>1 DEF Uses, SaveInv, SaveTypeOK
<1> QED
  BY <1>1 DEF Alive, Memory, WorkersRest

LEMMA HeadRests ==
  ASSUME SaveInv, NEW c \in Consoles, ChainFollows(c), WorkersRest(c)
  PROVE  /\ HeadFollows(c)
         /\ HeadOn(c)' => /\ Alive(chain[c][1].worker)' = Alive(chain[c][1].worker)
                          /\ worker'[chain[c][1].worker].state = worker[chain[c][1].worker].state
<1> SUFFICES ASSUME HeadOn(c)' PROVE /\ HeadFollows(c)
                                     /\ Alive(chain[c][1].worker)' = Alive(chain[c][1].worker)
                                     /\ worker'[chain[c][1].worker].state
                                          = worker[chain[c][1].worker].state
  BY DEF HeadFollows
<1>1. HeadOn(c) /\ chain'[c][1] = chain[c][1]
  BY DEF ChainFollows
<1>2. chain[c][1].worker \in DOMAIN worker /\ Uses(c, chain[c][1].worker)
  BY <1>1, HeadTyped DEF Uses
<1>3. /\ worker'[chain[c][1].worker].memory = worker[chain[c][1].worker].memory
      /\ worker'[chain[c][1].worker].state = worker[chain[c][1].worker].state
  BY <1>2 DEF WorkersRest
<1> QED
  BY <1>1, <1>3 DEF HeadFollows, CanStore, Bytes, Alive

LEMMA StandingByKept ==
  ASSUME SaveInv, PlayedMemory, NEW c \in Consoles, ConsoleKept(c), StandsBy(c),
         GamesStay, CurrentsStay(c), plays \in Nat, plays' \in Nat, plays <= plays',
         exposed \subseteq exposed'
  PROVE  ConsoleKept(c)' /\ SessionFollows(c) /\ HeadStays(c) /\ Memory(c)' = Memory(c)
<1> USE DEF StandsBy
<1>1. /\ Alive(rack[c])' = Alive(rack[c]) /\ Memory(c)' = Memory(c)
      /\ rack[c] # 0 => worker'[rack[c]].state = worker[rack[c]].state
  BY RackRests
<1>2. /\ HeadFollows(c)
      /\ HeadOn(c)' => /\ Alive(chain[c][1].worker)' = Alive(chain[c][1].worker)
                       /\ worker'[chain[c][1].worker].state = worker[chain[c][1].worker].state
  BY HeadRests
<1>3. /\ BetweenGames(c)' = BetweenGames(c) /\ HasRead(c)' = HasRead(c)
      /\ InBoot(c, "starting")' = InBoot(c, "starting")
  BY DEF SameBoot, BetweenGames, HasRead, InBoot
<1>4. SessionFollows(c) /\ HeadStays(c)
  BY <1>1, <1>2, <1>3 DEF SessionFollows, HeadStays
<1>5. Played(c)'
  <2>1. written'[c] <= plays'
    BY DEF ConsoleKept, Played, IdentityStays, SaveInv, SaveTypeOK
  <2>2. ASSUME HeadOn(c)', chain'[c][1].step = "saving" PROVE chain'[c][1].memory <= plays'
    <3>1. HeadOn(c) /\ chain'[c][1] = chain[c][1]
      BY <2>2 DEF ChainFollows
    <3>2. chain[c][1].memory \in Nat /\ chain[c][1].memory <= plays
      BY <2>2, <3>1, HeadTyped DEF ConsoleKept, Played, Flushes
    <3> QED
      BY <3>1, <3>2
  <2>3. ASSUME boot'[c] # None, boot'[c].restored # None
        PROVE  HasRead(c)' /\ boot'[c].restored.memory <= plays' /\ boot'[c].game \in Cards
    <3>1. boot[c] # None /\ boot'[c].restored = boot[c].restored /\ boot'[c].game = boot[c].game
      BY <2>3 DEF SameBoot
    <3>2. boot[c].restored \in Records
      BY <2>3, <3>1 DEF SaveInv, SaveTypeOK, Boots
    <3>3. boot[c].restored.memory \in Nat
      BY <3>2, SaveConstants DEF Records
    <3> QED
      BY <1>3, <2>3, <3>1, <3>3 DEF ConsoleKept, Played
  <2> QED
    BY <2>1, <2>2, <2>3 DEF Played
<1>6. BootsApart(c)'
  <2>1. ASSUME InBoot(c, "starting")', rack'[c] = boot'[c].worker PROVE ~boot'[c].fresh
    BY <1>3, <2>1 DEF ConsoleKept, BootsApart, SameBoot, InBoot
  <2>2. ASSUME Alive(rack[c])', worker'[rack'[c]].state = "booting" PROVE BetweenGames(c)'
    BY <1>1, <1>3, <2>2 DEF ConsoleKept, BootsApart, Alive
  <2>3. ASSUME c \notin exposed', HeadOn(c)' PROVE worker'[chain'[c][1].worker].state # "booting"
    BY <1>2, <2>3 DEF ConsoleKept, BootsApart, ChainFollows
  <2> QED
    BY <2>1, <2>2, <2>3 DEF BootsApart
<1>7. StaysTracked(c)'
  BY <1>4, StillTracked DEF ConsoleKept, IdentityStays
<1>8. HeadIsCurrent(c)'
  BY <1>2, <1>3, HeadStaysCurrent DEF ConsoleKept, IdentityStays, SameBoot
<1>9. ASSUME c \notin exposed PROVE RestoredIsMarked(c)' /\ BootIsMarked(c)' /\ RunIsMarked(c)'
  <2>1. RestoredIsMarked(c) /\ BootIsMarked(c) /\ RunIsMarked(c) /\ Played(c)
    BY <1>9 DEF ConsoleKept
  <2>2. RestoredIsMarked(c)'
    BY <1>2, <1>3, <2>1, RestoredStaysMarked DEF SaveInv, SameBoot, HasRead
  <2>3. CoreIsUp(c)' =>
           /\ CoreIsUp(c) /\ boot'[c].game = boot[c].game
           /\ boot'[c].restored = boot[c].restored
           /\ boot'[c].fresh = boot[c].fresh
           /\ worker'[boot'[c].worker].memory = worker[boot[c].worker].memory
    <3> SUFFICES ASSUME CoreIsUp(c)'
                 PROVE  /\ CoreIsUp(c) /\ boot'[c].game = boot[c].game
                        /\ boot'[c].restored = boot[c].restored
                        /\ boot'[c].fresh = boot[c].fresh
                        /\ worker'[boot'[c].worker].memory = worker[boot[c].worker].memory
      OBVIOUS
    <3>1. InBoot(c, "starting")
      BY <1>3 DEF CoreIsUp
    <3>2. boot[c].worker \in DOMAIN worker /\ boot[c].worker # 0 /\ boot[c] # None
      BY <3>1, StartingTyped
    <3>3. /\ worker'[boot[c].worker].memory = worker[boot[c].worker].memory
          /\ worker'[boot[c].worker].state = worker[boot[c].worker].state
      BY <3>1, <3>2 DEF Uses, WorkersRest
    <3> QED
      BY <3>1, <3>2, <3>3 DEF CoreIsUp, SameBoot
  <2>4. BootIsMarked(c)'
    BY <1>1, <1>2, <2>1, <2>3, BootStaysMarked
  <2>5. RunIsMarked(c)'
    BY <1>1, <1>2, <1>4, <2>1, RunStaysMarked
  <2> QED
    BY <2>2, <2>4, <2>5
<1> QED
  BY <1>1, <1>4, <1>5, <1>6, <1>7, <1>8, <1>9 DEF ConsoleKept

-----------------------------------------------------------------------------
(* The chains, flush by flush.                                               *)

LEMMA ChainRests ==
  ASSUME NEW c \in Consoles, chain'[c] = chain[c]
  PROVE  /\ ChainFollows(c) /\ HeadOn(c)' = HeadOn(c)
         /\ \A b : AwaitedOn(b, c)' = AwaitedOn(b, c)
BY DEF ChainFollows, HeadOn, AwaitedOn

\* A flush of console c for the boot on b, or for nobody, was asked for at the end of its chain.
AtTheEnd(c, b, retire) ==
  /\ HeadOn(c)' => HeadOn(c) /\ chain'[c][1] = chain[c][1]
  /\ HeadOn(c) => HeadOn(c)'
  /\ \A i \in DOMAIN chain'[c] :
       \/ \E j \in DOMAIN chain[c] : chain'[c][i] = chain[c][j]
       \/ /\ tracked[c] # None /\ chain'[c][i].game = tracked[c].game
          /\ chain'[c][i].gen = tracked[c].gen
          /\ chain'[c][i].retire = retire /\ chain'[c][i].awaits = b
  /\ \A a : AwaitedOn(a, c) => AwaitedOn(a, c)'
  /\ tracked[c] # None => AwaitedOn(b, c)'

LEMMA ChainIsAsked ==
  ASSUME SaveInv, NEW c \in Consoles, NEW b, NEW retire,
         chain'[c] = chain[c] \o Flush(c, b, retire)
  PROVE  AtTheEnd(c, b, retire)
<1>1. chain[c] \in Seq(Flushes)
  BY DEF SaveInv, SaveTypeOK
<1>2. CASE tracked[c] = None
  <2>1. chain'[c] = chain[c]
    BY <1>1, <1>2 DEF Flush
  <2> QED
    BY <1>2, <2>1 DEF AtTheEnd, HeadOn, AwaitedOn
<1>3. CASE tracked[c] # None
  <2> DEFINE f == [game |-> tracked[c].game, gen |-> tracked[c].gen, step |-> "queued",
                   worker |-> 0, memory |-> 0, awaits |-> b, retire |-> retire]
  <2>1. chain'[c] = chain[c] \o <<f>>
    BY <1>3 DEF Flush
  <2>2. /\ f.game = tracked[c].game /\ f.gen = tracked[c].gen /\ f.step = "queued"
        /\ f.retire = retire /\ f.awaits = b
    OBVIOUS
  <2> HIDE DEF f
  <2>3. /\ Len(chain[c]) \in Nat /\ DOMAIN chain[c] = 1 .. Len(chain[c])
        /\ DOMAIN chain'[c] = 1 .. (Len(chain[c]) + 1)
        /\ \A i \in DOMAIN chain[c] : chain'[c][i] = chain[c][i]
        /\ chain'[c][Len(chain[c]) + 1] = f
        /\ chain'[c] # <<>> /\ (chain[c] = <<>> <=> Len(chain[c]) = 0)
    BY <1>1, <2>1
  <2>4. \A i \in DOMAIN chain'[c] : i \in DOMAIN chain[c] \/ chain'[c][i] = f
    BY <2>3
  <2>5. /\ HeadOn(c)' => HeadOn(c) /\ chain'[c][1] = chain[c][1]
        /\ HeadOn(c) => HeadOn(c)'
    BY <2>2, <2>3 DEF HeadOn
  <2>6. \A a : AwaitedOn(a, c) => AwaitedOn(a, c)'
    BY <2>3 DEF AwaitedOn
  <2>7. AwaitedOn(b, c)'
    <3>1. Len(chain[c]) + 1 \in DOMAIN chain'[c]
      BY <2>3
    <3> QED
      BY <2>2, <2>3, <3>1 DEF AwaitedOn
  <2> QED
    BY <1>3, <2>2, <2>3, <2>4, <2>5, <2>6, <2>7 DEF AtTheEnd
<1> QED
  BY <1>2, <1>3

LEMMA ChainIsFlushed ==
  ASSUME SaveInv, NEW c \in Consoles, NEW b, chain'[c] = chain[c] \o Flush(c, b, FALSE)
  PROVE  ChainFollows(c) /\ \A a : AwaitedOn(a, c) => AwaitedOn(a, c)'
<1>1. PICK retire : retire = FALSE
  OBVIOUS
<1>2. chain'[c] = chain[c] \o Flush(c, b, retire)
  BY <1>1
<1>3. AtTheEnd(c, b, retire)
  BY <1>2, ChainIsAsked
<1> QED
  BY <1>1, <1>3 DEF ChainFollows, AtTheEnd

\* The first flush of the chain of c ends: nobody is forgotten, and only who awaited it waits
\* for one flush less.
LEMMA FlushEnds ==
  ASSUME SaveInv, NEW c \in Consoles, StaysTracked(c), chain[c] # <<>>, NEW marks,
         EndFlush(c, marks)
  PROVE  /\ tracked' = tracked /\ written' = marks
         /\ ~HeadOn(c)'
         /\ \A d \in Consoles : ChainFollows(d)
         /\ \A d \in Consoles \ {c} : chain'[d] = chain[d]
         /\ \A a : a # chain[c][1].awaits => (AwaitedOn(a, c) => AwaitedOn(a, c)')
<1>1. /\ chain[c] \in Seq(Flushes) /\ 1 \in DOMAIN chain[c] /\ Head(chain[c]) = chain[c][1]
  BY DEF SaveInv, SaveTypeOK
<1>2. ~Forgets(c, Head(chain[c]))
  <2>1. ASSUME chain[c][1].retire, tracked[c] # None PROVE tracked[c].gen # chain[c][1].gen
    <3>1. chain[c][1].gen < tracked[c].gen
      BY <1>1, <2>1 DEF StaysTracked
    <3>2. tracked[c].gen \in Nat
      BY <2>1, IdentityTyped
    <3>3. chain[c][1] \in Flushes
      BY <1>1
    <3>4. chain[c][1].gen \in Nat
      BY <3>3 DEF Flushes
    <3> QED
      BY <3>1, <3>2, <3>4
  <2> QED
    BY <1>1, <2>1 DEF Forgets
<1>3. tracked' = tracked /\ written' = marks
  BY <1>2 DEF EndFlush
<1>4. /\ chain'[c] = Tail(chain[c])
      /\ \A d \in Consoles \ {c} : chain'[d] = chain[d]
  BY DEF EndFlush, SaveInv, SaveTypeOK
<1>5. /\ chain'[c] \in Seq(Flushes)
      /\ \A i \in DOMAIN chain'[c] : i + 1 \in DOMAIN chain[c] /\ chain'[c][i] = chain[c][i + 1]
  BY <1>1, <1>4, Shortened
<1>6. ~HeadOn(c)'
  <2> SUFFICES ASSUME chain'[c] # <<>> PROVE chain'[c][1].step = "queued"
    BY DEF HeadOn
  <2>1. 1 \in DOMAIN chain'[c] /\ 2 \in DOMAIN chain[c] /\ chain'[c][1] = chain[c][2]
    BY <1>5
  <2> QED
    BY <2>1 DEF SaveInv, SaveTypeOK
<1>7. ChainFollows(c)
  BY <1>5, <1>6 DEF ChainFollows
<1>8. \A d \in Consoles \ {c} : ChainFollows(d)
  BY <1>4, ChainRests
<1>9. ASSUME NEW a, a # chain[c][1].awaits, AwaitedOn(a, c) PROVE AwaitedOn(a, c)'
  <2>1. PICK i \in DOMAIN chain[c] : chain[c][i].awaits = a
    BY <1>9 DEF AwaitedOn
  <2>2. i # 1
    BY <1>9, <2>1
  <2>3. i - 1 \in DOMAIN chain'[c] /\ chain'[c][i - 1] = chain[c][i]
    BY <1>1, <1>4, <2>1, <2>2
  <2> QED
    BY <2>1, <2>3 DEF AwaitedOn
<1> QED
  BY <1>3, <1>4, <1>6, <1>7, <1>8, <1>9

\* The flush that awaited the boot on b is given up: b is owed nothing of c any more.
LEMMA Forgone ==
  ASSUME SaveInv, NEW c \in Consoles, chain[c] # <<>>, Forgo(c)
  PROVE  \A b \in Consoles :
           /\ SameBoot(b)
           /\ boot[b] # None =>
                /\ boot'[b].restored = boot[b].restored
                /\ \A d \in Consoles : boot'[b].seen[d] # 0 =>
                     boot'[b].seen[d] = boot[b].seen[d] /\ ~(d = c /\ b = chain[c][1].awaits)
                /\ boot'[b].outgoing # None =>
                     boot'[b].outgoing = boot[b].outgoing /\ ~(b = c /\ b = chain[c][1].awaits)
<1>1. PICK a : a = chain[c][1].awaits
  OBVIOUS
<1>2. 1 \in DOMAIN chain[c] /\ chain[c][1] \in Flushes /\ Head(chain[c]) = chain[c][1]
  BY DEF SaveInv, SaveTypeOK
<1>3. a \in Consoles \cup {None}
  BY <1>1, <1>2 DEF Flushes
<1>4. \A b \in Consoles : SameBoot(b)
  BY ForgoKeepsBoots
<1>5. CASE a = None
  <2>1. boot' = boot
    BY <1>1, <1>2, <1>5 DEF Forgo
  <2> QED
    BY <1>1, <1>4, <1>5, <2>1, SaveConstants
<1>6. CASE a # None
  <2>1. boot' = [boot EXCEPT ![a].seen[c] = 0, ![a].outgoing = IF a = c THEN None ELSE @]
    BY <1>1, <1>2, <1>6 DEF Forgo
  <2>2. a \in Consoles
    BY <1>3, <1>6
  <2>3. boot \in [Consoles -> Boots \cup {None}] /\ boot[a] \in Boots
    BY <1>1, <1>2, <1>6, <2>2 DEF SaveInv, SaveTypeOK, Awaited, Waits
  <2>4. PICK r : r = [boot[a] EXCEPT !.seen[c] = 0,
                                     !.outgoing = IF a = c THEN None ELSE @]
    OBVIOUS
  <2>5. /\ r.restored = boot[a].restored
        /\ \A d \in Consoles : r.seen[d] = IF d = c THEN 0 ELSE boot[a].seen[d]
        /\ r.outgoing = IF a = c THEN None ELSE boot[a].outgoing
    BY <2>3, <2>4 DEF Boots
  <2>6. boot' = [boot EXCEPT ![a] = r]
    BY <2>1, <2>4
  <2> HIDE DEF Boots
  <2>7. \A b \in Consoles : boot'[b] = IF b = a THEN r ELSE boot[b]
    BY <2>2, <2>3, <2>6
  <2> QED
    BY <1>1, <1>4, <2>5, <2>7
<1> QED
  BY <1>5, <1>6

-----------------------------------------------------------------------------
(* The flushes.                                                              *)

\* Nothing but chains, fingerprints and boots changes.
QuietStep == /\ worker' = worker /\ rack' = rack /\ card' = card /\ plays' = plays
             /\ exposed \subseteq exposed'

LEMMA QuietConsole ==
  ASSUME SaveInv, QuietStep, NEW c \in Consoles
  PROVE  /\ WorkersRest(c) /\ CurrentsStay(c) /\ GamesStay
         /\ plays \in Nat /\ plays' \in Nat /\ plays <= plays' /\ exposed \subseteq exposed'
BY CountersTyped DEF QuietStep, WorkersRest, CurrentsStay, Current, GamesStay

LEMMA OwnersStay ==
  ASSUME SaveInv, OwnWorkers, NEW n, \A c \in Consoles : \A w : Uses(c, w)' => Uses(c, w) \/ w = n,
         n \in DOMAIN worker => \A c \in Consoles : Uses(c, n)' => Uses(c, n),
         n \notin DOMAIN worker =>
           \A c, d \in Consoles : Uses(c, n)' /\ Uses(d, n)' => c = d
  PROVE  OwnWorkers'
<1> SUFFICES ASSUME NEW c \in Consoles, NEW d \in Consoles, NEW w, Uses(c, w)', Uses(d, w)'
             PROVE  c = d
  BY DEF OwnWorkers
<1>1. CASE w = n /\ n \notin DOMAIN worker
  BY <1>1
<1>2. CASE w # n \/ n \in DOMAIN worker
  <2>1. Uses(c, w) /\ Uses(d, w)
    BY <1>2
  <2> QED
    BY <2>1, UsedIsWorker DEF OwnWorkers
<1> QED
  BY <1>1, <1>2

\* What is used was used, while no core starts and no flush does.
LEMMA UsesStay ==
  ASSUME NEW c \in Consoles, rack'[c] = rack[c],
         HeadOn(c)' => HeadOn(c) /\ chain'[c][1].worker = chain[c][1].worker,
         InBoot(c, "starting")' => InBoot(c, "starting") /\ boot'[c].worker = boot[c].worker
  PROVE  \A w : Uses(c, w)' => Uses(c, w)
BY DEF Uses

LEMMA QuietWorld ==
  ASSUME SaveInv, PlayedMemory, OwnWorkers, QuietStep,
         \A c \in Consoles :
           /\ HeadOn(c)' => HeadOn(c) /\ chain'[c][1].worker = chain[c][1].worker
           /\ InBoot(c, "starting")' => InBoot(c, "starting") /\ boot'[c].worker = boot[c].worker
  PROVE  PlayedMemory' /\ OwnWorkers'
<1>1. PlayedMemory'
  BY DEF PlayedMemory, QuietStep
<1>2. \A c \in Consoles : \A w : Uses(c, w)' => Uses(c, w)
  BY UsesStay DEF QuietStep
<1>3. OwnWorkers'
  BY <1>2, UsedIsWorker DEF OwnWorkers
<1> QED
  BY <1>1, <1>3

\* A quiet step by which every console stands keeps the invariant, if the debts are kept.
LEMMA QuietKept ==
  ASSUME SaveInv, SavesKept, QuietStep, \A c \in Consoles : StandsBy(c)
  PROVE  /\ PlayedMemory' /\ OwnWorkers'
         /\ \A c \in Consoles : ConsoleKept(c)'
         /\ \A c \in Consoles : (\A b \in Consoles : SeenFollows(b, c)) /\ OutgoingFollows(c)
                                  => DebtsKept(c)'
<1>1. PlayedMemory' /\ OwnWorkers'
  <2>1. ASSUME NEW c \in Consoles
        PROVE  /\ HeadOn(c)' => HeadOn(c) /\ chain'[c][1].worker = chain[c][1].worker
               /\ InBoot(c, "starting")' =>
                    InBoot(c, "starting") /\ boot'[c].worker = boot[c].worker
    BY DEF StandsBy, ChainFollows, SameBoot, InBoot
  <2> QED
    BY <2>1, QuietWorld DEF SavesKept
<1>2. ASSUME NEW c \in Consoles
      PROVE  ConsoleKept(c)' /\ SessionFollows(c) /\ HeadStays(c) /\ Memory(c)' = Memory(c)
  <2>1. /\ CurrentsStay(c) /\ GamesStay
        /\ plays \in Nat /\ plays' \in Nat /\ plays <= plays' /\ exposed \subseteq exposed'
    BY QuietConsole
  <2>2. PlayedMemory /\ ConsoleKept(c) /\ StandsBy(c)
    BY DEF SavesKept
  <2> QED
    BY <2>1, <2>2, StandingByKept
<1>3. ASSUME NEW c \in Consoles, \A b \in Consoles : SeenFollows(b, c), OutgoingFollows(c)
      PROVE  DebtsKept(c)'
  <2>1. tracked'[c] = tracked[c] /\ ChainFollows(c) /\ DebtsKept(c) /\ exposed \subseteq exposed'
    BY DEF StandsBy, IdentityStays, SavesKept, QuietStep
  <2>2. InSession(c)' => Memory(c)' >= Memory(c) /\ Memory(c)' \in Nat
    BY <1>2, MemoryTyped, SaveConstants
  <2>3. CurrentsStay(c)
    BY QuietConsole
  <2> QED
    BY <1>2, <1>3, <2>1, <2>2, <2>3, AllDebtsStay
<1> QED
  BY <1>1, <1>2, <1>3

\* A flush that is given up.
LEMMA GivenUpKept ==
  ASSUME SaveInv, SavesKept, QuietStep, NEW c \in Consoles, chain[c] # <<>>, EndFlush(c, written),
         Forgo(c)
  PROVE  SavesKept'
<1>1. StaysTracked(c)
  BY DEF SavesKept, ConsoleKept
<1>2. /\ tracked' = tracked /\ written' = written
      /\ ~HeadOn(c)'
      /\ \A d \in Consoles : ChainFollows(d)
      /\ \A d \in Consoles \ {c} : chain'[d] = chain[d]
      /\ \A a : a # chain[c][1].awaits => (AwaitedOn(a, c) => AwaitedOn(a, c)')
  BY <1>1, FlushEnds
<1>3. \A b \in Consoles :
        /\ SameBoot(b)
        /\ boot[b] # None =>
             /\ boot'[b].restored = boot[b].restored
             /\ \A d \in Consoles : boot'[b].seen[d] # 0 =>
                  boot'[b].seen[d] = boot[b].seen[d] /\ ~(d = c /\ b = chain[c][1].awaits)
             /\ boot'[b].outgoing # None =>
                  boot'[b].outgoing = boot[b].outgoing /\ ~(b = c /\ b = chain[c][1].awaits)
  BY Forgone
<1>4. \A d \in Consoles \ {c} : \A a : AwaitedOn(a, d)' = AwaitedOn(a, d)
  BY <1>2, ChainRests
<1>5. ASSUME NEW d \in Consoles PROVE StandsBy(d)
  <2>1. WorkersRest(d)
    BY QuietConsole
  <2>2. HeadOn(d)' /\ AwaitedOn(d, d) => AwaitedOn(d, d)'
    BY <1>2, <1>4
  <2> QED
    BY <1>2, <1>3, <2>1, <2>2 DEF StandsBy, IdentityStays, QuietStep
<1>6. ASSUME NEW d \in Consoles
      PROVE  (\A b \in Consoles : SeenFollows(b, d)) /\ OutgoingFollows(d)
  <2>1. ASSUME NEW b \in Consoles PROVE SeenFollows(b, d)
    BY <1>2, <1>3, <1>4 DEF SeenFollows, SameBoot
  <2>2. OutgoingFollows(d)
    BY <1>2, <1>3, <1>4 DEF OutgoingFollows, SameBoot, Expects
  <2> QED
    BY <2>1, <2>2
<1> QED
  BY <1>5, <1>6, QuietKept DEF SavesKept

LEMMA FlushFailsKept ==
  ASSUME SaveInv, SavesKept, NEW c \in Consoles, FlushFails(c) PROVE SavesKept'
<1>1. chain[c] # <<>> /\ EndFlush(c, written) /\ Forgo(c) /\ QuietStep
  BY DEF FlushFails, Rejected, Under, QuietStep
<1> QED
  BY <1>1, GivenUpKept

LEMMA TimerKept ==
  ASSUME SaveInv, SavesKept, Timer PROVE SavesKept'
<1>1. /\ QuietStep /\ boot' = boot /\ tracked' = tracked /\ written' = written
      /\ chain' = FlushAll(None)
  BY DEF Timer, pageVars, QuietStep
<1>2. ASSUME NEW d \in Consoles
      PROVE  ChainFollows(d) /\ \A a : AwaitedOn(a, d) => AwaitedOn(a, d)'
  <2>1. chain'[d] = chain[d] \o Flush(d, None, FALSE)
    BY <1>1 DEF FlushAll
  <2> QED
    BY <2>1, ChainIsFlushed
<1>3. ASSUME NEW d \in Consoles PROVE StandsBy(d)
  <2>1. WorkersRest(d)
    BY <1>1, QuietConsole
  <2> QED
    BY <1>1, <1>2, <2>1 DEF StandsBy, IdentityStays, QuietStep, SameBoot
<1>4. ASSUME NEW d \in Consoles
      PROVE  (\A b \in Consoles : SeenFollows(b, d)) /\ OutgoingFollows(d)
  BY <1>1, <1>2 DEF SeenFollows, OutgoingFollows, Expects
<1> QED
  BY <1>1, <1>3, <1>4, QuietKept DEF SavesKept

\* What the first flush of c, under way, has to say of its identity.
HeadAdvances(c, f) ==
  /\ chain[c] # <<>> /\ Advance(c, f)
  /\ f.game = chain[c][1].game /\ f.gen = chain[c][1].gen
  /\ f.awaits = chain[c][1].awaits /\ f.retire = chain[c][1].retire
  /\ f.step # "queued"
  /\ boot' = boot /\ tracked' = tracked /\ written' = written

LEMMA HeadAdvanced ==
  ASSUME SaveInv, NEW c \in Consoles, NEW f, HeadAdvances(c, f)
  PROVE  /\ HeadOn(c)' /\ chain'[c][1] = f
         /\ DOMAIN chain'[c] = DOMAIN chain[c]
         /\ \A i \in DOMAIN chain[c] : i # 1 => chain'[c][i] = chain[c][i]
         /\ \A d \in Consoles \ {c} : chain'[d] = chain[d]
         /\ \A a : AwaitedOn(a, c)' = AwaitedOn(a, c)
<1> USE DEF HeadAdvances
<1>1. /\ chain[c] \in Seq(Flushes) /\ 1 \in DOMAIN chain[c]
      /\ chain'[c] = <<f>> \o Tail(chain[c])
      /\ \A d \in Consoles \ {c} : chain'[d] = chain[d]
  BY DEF Advance, SaveInv, SaveTypeOK
<1>2. /\ DOMAIN chain'[c] = DOMAIN chain[c] /\ chain'[c][1] = f /\ chain'[c] # <<>>
      /\ \A i \in DOMAIN chain[c] : i # 1 => chain'[c][i] = chain[c][i]
  <2> HIDE DEF HeadAdvances
  <2> QED
    BY <1>1
<1>3. HeadOn(c)'
  BY <1>2 DEF HeadOn
<1>4. \A a : AwaitedOn(a, c)' = AwaitedOn(a, c)
  <2>1. \A i \in DOMAIN chain[c] : chain'[c][i].awaits = chain[c][i].awaits
    BY <1>2
  <2> QED
    BY <1>2, <2>1 DEF AwaitedOn
<1> QED
  BY <1>1, <1>2, <1>3, <1>4

LEMMA AdvancedKept ==
  ASSUME SaveInv, SavesKept, QuietStep, NEW c \in Consoles, NEW f, HeadAdvances(c, f),
         Uses(c, f.worker),
         f.step = "saving" => f.memory <= plays,
         c \notin exposed' => worker[f.worker].state # "booting",
         HeadIsCurrent(c)',
         c \notin exposed' => RestoredIsMarked(c)' /\ BootIsMarked(c)' /\ RunIsMarked(c)',
         c \notin exposed' => \A b \in Consoles : \A g : \A v \in Nat :
           Owed(b, c, g, v) /\ f.game = g /\ (f.awaits = b \/ ~AwaitedOn(b, c)) =>
             /\ f.step = "reading" /\ Alive(f.worker) => f.worker = rack[c] /\ ~BetweenGames(c)
             /\ f.step = "saving" => f.memory >= v
  PROVE  SavesKept'
<1>1. /\ HeadOn(c)' /\ chain'[c][1] = f
      /\ DOMAIN chain'[c] = DOMAIN chain[c]
      /\ \A i \in DOMAIN chain[c] : i # 1 => chain'[c][i] = chain[c][i]
      /\ \A d \in Consoles \ {c} : chain'[d] = chain[d]
      /\ \A a : AwaitedOn(a, c)' = AwaitedOn(a, c)
  BY HeadAdvanced
<1>2. /\ worker' = worker /\ rack' = rack /\ card' = card /\ plays' = plays
      /\ exposed \subseteq exposed' /\ boot' = boot /\ tracked' = tracked /\ written' = written
  BY DEF QuietStep, HeadAdvances
<1>3. \A i \in DOMAIN chain[c] : chain'[c][i].game = chain[c][i].game
                                 /\ chain'[c][i].gen = chain[c][i].gen
                                 /\ chain'[c][i].awaits = chain[c][i].awaits
                                 /\ chain'[c][i].retire = chain[c][i].retire
  BY <1>1 DEF HeadAdvances
<1>4. ASSUME NEW d \in Consoles, d # c
      PROVE  /\ StandsBy(d) /\ (\A b \in Consoles : SeenFollows(b, d)) /\ OutgoingFollows(d)
  <2>1. WorkersRest(d)
    BY QuietConsole
  <2>2. ChainFollows(d) /\ \A b : AwaitedOn(b, d)' = AwaitedOn(b, d)
    BY <1>1, <1>4, ChainRests
  <2> QED
    BY <1>2, <2>1, <2>2
       DEF StandsBy, IdentityStays, SameBoot, SeenFollows, OutgoingFollows, Expects
<1>5. ASSUME NEW d \in Consoles, d # c PROVE ConsoleKept(d)' /\ DebtsKept(d)'
  <2>1. /\ CurrentsStay(d) /\ GamesStay
        /\ plays \in Nat /\ plays' \in Nat /\ plays <= plays' /\ exposed \subseteq exposed'
    BY QuietConsole
  <2>2. PlayedMemory /\ ConsoleKept(d) /\ StandsBy(d) /\ DebtsKept(d)
    BY <1>4, <1>5 DEF SavesKept
  <2>3. ConsoleKept(d)' /\ SessionFollows(d) /\ HeadStays(d) /\ Memory(d)' = Memory(d)
    BY <2>1, <2>2, StandingByKept
  <2>4. InSession(d)' => Memory(d)' >= Memory(d) /\ Memory(d)' \in Nat
    BY <2>3, MemoryTyped, SaveConstants
  <2>5. tracked'[d] = tracked[d] /\ ChainFollows(d)
    BY <2>2 DEF StandsBy, IdentityStays
  <2> QED
    BY <1>4, <1>5, <2>1, <2>2, <2>3, <2>4, <2>5, AllDebtsStay
<1>6. PlayedMemory'
  BY <1>2 DEF PlayedMemory, SavesKept
<1>7. OwnWorkers'
  <2>1. ASSUME NEW d \in Consoles, NEW w, Uses(d, w)' PROVE Uses(d, w)
    <3>1. CASE d = c
      BY <1>1, <1>2, <2>1, <3>1 DEF Uses, InBoot
    <3>2. CASE d # c
      BY <1>1, <1>2, <2>1, <3>2 DEF Uses, InBoot, HeadOn
    <3> QED
      BY <3>1, <3>2
  <2> QED
    BY <2>1, UsedIsWorker DEF OwnWorkers, SavesKept
<1>8. ConsoleKept(c)'
  <2>1. ConsoleKept(c)
    BY DEF SavesKept
  <2>2. Played(c)'
    BY <1>1, <1>2, <2>1 DEF ConsoleKept, Played, HasRead
  <2>3. BootsApart(c)'
    BY <1>1, <1>2, <2>1 DEF ConsoleKept, BootsApart, InBoot, BetweenGames, Alive
  <2>4. StaysTracked(c)'
    BY <1>1, <1>2, <1>3, <2>1 DEF ConsoleKept, StaysTracked, InBoot, BetweenGames, Alive
  <2> QED
    BY <2>2, <2>3, <2>4 DEF ConsoleKept
<1>9. DebtsKept(c)'
  <2>1. ASSUME c \notin exposed', NEW b \in Consoles PROVE Carried(b, c)
    <3> SUFFICES ASSUME NEW g, NEW v \in Nat, Owed(b, c, g, v) PROVE Owed(b, c, g, v)'
      BY DEF Carried
    <3>1. v # 0 /\ tracked'[c] # None /\ tracked'[c].game = g
      BY <1>2 DEF Owed
    <3>2. InSession(c)' => Memory(c)' >= v
      BY <1>2 DEF Owed, InSession, Memory, Alive, BetweenGames, InBoot
    <3>3. \A i \in DOMAIN chain'[c] : chain'[c][i].awaits = b => chain'[c][i].game = g
      BY <1>1, <1>3 DEF Owed
    <3>4. ~AwaitedOn(b, c)' => Current(c, g, v)'
      BY <1>1, <1>2 DEF Owed, Current
    <3>5. f.game = g /\ (f.awaits = b \/ ~AwaitedOn(b, c)) =>
             /\ f.step = "reading" /\ Alive(f.worker) => f.worker = rack[c] /\ ~BetweenGames(c)
             /\ f.step = "saving" => f.memory >= v
      BY <2>1
    <3>6. chain'[c][1].game = g /\ (chain'[c][1].awaits = b \/ ~AwaitedOn(b, c)') =>
             /\ chain'[c][1].step = "reading" /\ Alive(chain[c][1].worker)'
                  => chain'[c][1].worker = rack'[c] /\ ~BetweenGames(c)'
             /\ chain'[c][1].step = "saving" => chain'[c][1].memory >= v
      BY <1>1, <1>2, <3>5 DEF Alive, BetweenGames, InBoot
    <3> QED
      BY <3>1, <3>2, <3>3, <3>4, <3>6 DEF Owed
  <2> QED
    BY <1>2, <2>1, DebtsCarried DEF Expects, SavesKept
<1> QED
  BY <1>5, <1>6, <1>7, <1>8, <1>9 DEF SavesKept

\* The turn of a flush comes: it finds the worker of the console, and its own identity.
LEMMA FlushStartsKept ==
  ASSUME SaveInv, SavesKept, NEW c \in Consoles, FlushStarts(c) PROVE SavesKept'
<1>1. /\ chain[c] # <<>> /\ Head(chain[c]) = chain[c][1] /\ 1 \in DOMAIN chain[c]
      /\ chain[c][1].step = "queued" /\ chain[c][1] \in Flushes
  BY DEF FlushStarts, Under, SaveInv, SaveTypeOK
<1>2. PICK f : f = chain[c][1]
  OBVIOUS
<1>3. QuietStep
  BY DEF FlushStarts, QuietStep, countVars
<1>4. CASE ~(StillCurrent(c, f) /\ Alive(rack[c]))
  <2>1. EndFlush(c, written) /\ Forgo(c)
    BY <1>1, <1>2, <1>4 DEF FlushStarts
  <2> QED
    BY <1>1, <1>3, <2>1, GivenUpKept
<1>5. CASE StillCurrent(c, f) /\ Alive(rack[c])
  <2>1. PICK h : h = [f EXCEPT !.step = "reading", !.worker = rack[c]]
    OBVIOUS
  <2>2. /\ Advance(c, h) /\ tracked' = tracked /\ written' = written /\ boot' = boot
        /\ exposed' = IF BetweenGames(c) THEN exposed \cup {c} ELSE exposed
    BY <1>1, <1>2, <1>5, <2>1 DEF FlushStarts
  <2>3. /\ h.game = f.game /\ h.gen = f.gen /\ h.awaits = f.awaits /\ h.retire = f.retire
        /\ h.step = "reading" /\ h.worker = rack[c]
    BY <1>1, <1>2, <2>1 DEF Flushes
  <2>4. HeadAdvances(c, h)
    BY <1>1, <1>2, <2>2, <2>3 DEF HeadAdvances
  <2>5. HeadOn(c)' /\ chain'[c][1] = h
    BY <2>4, HeadAdvanced
  <2>6. /\ tracked[c] # None /\ tracked[c].gen = f.gen /\ tracked[c].game = f.game
        /\ rack[c] # 0 /\ worker' = worker /\ rack' = rack /\ card' = card
    BY <1>1, <1>2, <1>3, <1>5 DEF StillCurrent, Alive, SaveInv, Identities, QuietStep
  <2>7. c \notin exposed' => ~BetweenGames(c) /\ InSession(c) /\ c \notin exposed
    BY <1>5, <2>2, <2>6 DEF InSession
  <2>8. ConsoleKept(c)
    BY DEF SavesKept
  <2>9. HeadIsCurrent(c)'
    BY <2>2, <2>3, <2>5, <2>6 DEF HeadIsCurrent
  <2>10. Uses(c, h.worker)
    BY <2>3, <2>6 DEF Uses
  <2>11. c \notin exposed' => worker[h.worker].state # "booting"
    BY <1>5, <2>3, <2>7, <2>8 DEF ConsoleKept, BootsApart
  <2>12. ASSUME c \notin exposed'
         PROVE  RestoredIsMarked(c)' /\ BootIsMarked(c)' /\ RunIsMarked(c)'
    <3>1. RestoredIsMarked(c) /\ BootIsMarked(c) /\ RunIsMarked(c)
      BY <2>7, <2>8, <2>12 DEF ConsoleKept
    <3>2. CanStore(h) /\ Bytes(h) = Memory(c)
      BY <1>5, <2>3 DEF CanStore, Bytes, Memory
    <3>3. RestoredIsMarked(c)'
      BY <2>2, <2>3, <2>5, <2>6, <3>1 DEF RestoredIsMarked, HasRead, Current
    <3>4. BootIsMarked(c)'
      <4> SUFFICES ASSUME CoreIsUp(c), worker[boot[c].worker].memory # 0 PROVE BootIsMarked(c)'
        BY <2>2, <2>6 DEF BootIsMarked, CoreIsUp, InBoot
      <4>1. PICK g : g = boot[c].game
        OBVIOUS
      <4>2. PICK m : m = worker[boot[c].worker].memory
        OBVIOUS
      <4>3. boot[c] # None /\ boot[c].step = "starting" /\ boot[c].fresh
        BY <2>7, <2>12, BootIsRecord DEF CoreIsUp, BetweenGames
      <4>4. ASSUME f.game # g, Memory(c) = m PROVE Current(c, g, m)
        <5>1. boot[c].restored # None /\ boot[c].restored.memory = m
          BY <3>1, <4>2, <4>3, <4>4 DEF BootIsMarked
        <5>2. HasRead(c)
          BY <4>3 DEF HasRead
        <5> QED
          BY <2>6, <3>1, <4>1, <4>4, <5>1, <5>2 DEF RestoredIsMarked
      <4>5. tracked[c].game = g /\ written[c] = m => Current(c, g, m)
        BY <2>6, <3>1, <4>1, <4>2 DEF BootIsMarked
      <4>6. boot[c].fresh /\ Memory(c) = m =>
               boot[c].restored # None /\ boot[c].restored.memory = m
        BY <3>1, <4>2 DEF BootIsMarked
      <4>7. CanStore(chain[c][1])' /\ Bytes(chain[c][1])' = Memory(c)
        BY <2>5, <2>6, <3>2 DEF CanStore, Bytes, Alive
      <4> QED
        BY <2>2, <2>3, <2>5, <2>6, <4>1, <4>2, <4>4, <4>5, <4>6, <4>7
           DEF BootIsMarked, Elsewhere, Current, Memory, Alive
    <3>5. RunIsMarked(c)'
      <4>1. InSession(c)' = InSession(c) /\ Memory(c)' = Memory(c)
        BY <2>2, <2>6 DEF InSession, Memory, Alive, BetweenGames, InBoot
      <4> QED
        BY <2>2, <2>3, <2>5, <2>6, <3>1, <4>1 DEF RunIsMarked, Elsewhere, Current
    <3> QED
      BY <3>3, <3>4, <3>5
  <2>13. c \notin exposed' => \A b \in Consoles : \A g : \A v \in Nat :
           Owed(b, c, g, v) /\ h.game = g /\ (h.awaits = b \/ ~AwaitedOn(b, c)) =>
             /\ h.step = "reading" /\ Alive(h.worker) => h.worker = rack[c] /\ ~BetweenGames(c)
             /\ h.step = "saving" => h.memory >= v
    BY <2>3, <2>7
  <2>14. ~(h.step = "saving")
    BY <2>3
  <2> QED
    BY <1>3, <2>4, <2>9, <2>10, <2>11, <2>12, <2>13, <2>14, AdvancedKept
<1> QED
  BY <1>4, <1>5

\* A flush finds what its console wrote last, and stores nothing: the card has it.
LEMMA UnchangedIsStored ==
  ASSUME SaveInv, NEW c \in Consoles, RunIsMarked(c), HeadOn(c), chain[c][1].step = "reading",
         Alive(chain[c][1].worker), worker[chain[c][1].worker].memory \in {0, written[c]},
         NEW b, NEW g, NEW v \in Nat, Owed(b, c, g, v), chain[c][1].awaits = b
  PROVE  Current(c, g, v)
<1>1. 1 \in DOMAIN chain[c]
  BY HeadTyped
<1>2. chain[c][1].game = g /\ tracked[c] # None /\ tracked[c].game = g /\ v # 0
  BY <1>1 DEF Owed
<1>3. chain[c][1].worker = rack[c] /\ ~BetweenGames(c)
  BY <1>2 DEF Owed
<1>4. InSession(c) /\ Memory(c) = worker[chain[c][1].worker].memory
  BY <1>2, <1>3 DEF InSession, Memory
<1>5. Memory(c) >= v /\ Memory(c) \in Nat
  BY <1>4, MemoryTyped, SaveConstants DEF Owed
<1>6. Current(c, g, Memory(c))
  BY <1>2, <1>4, <1>5 DEF RunIsMarked
<1>7. card[g] # None /\ card[g].by = c => card[g].memory \in Nat
  BY <1>2, IdentityTyped, CardTyped
<1> QED
  BY <1>5, <1>6, <1>7 DEF Current

LEMMA MemoryReadKept ==
  ASSUME SaveInv, SavesKept, NEW c \in Consoles, MemoryRead(c) PROVE SavesKept'
<1>1. /\ chain[c] # <<>> /\ Head(chain[c]) = chain[c][1] /\ 1 \in DOMAIN chain[c]
      /\ chain[c][1].step = "reading" /\ chain[c][1] \in Flushes /\ Alive(chain[c][1].worker)
  BY DEF MemoryRead, Under, SaveInv, SaveTypeOK
<1>2. PICK f : f = chain[c][1]
  OBVIOUS
<1>3. PICK memory : memory = worker[f.worker].memory
  OBVIOUS
<1>4. QuietStep /\ boot' = boot /\ exposed' = exposed
  BY DEF MemoryRead, QuietStep, countVars, pageVars
<1>5. ConsoleKept(c) /\ StaysTracked(c) /\ HeadOn(c) /\ DebtsKept(c)
  BY <1>1 DEF SavesKept, ConsoleKept, HeadOn
<1>6. CASE memory \in {0, written[c]}
  <2>1. EndFlush(c, written)
    BY <1>1, <1>2, <1>3, <1>6 DEF MemoryRead
  <2>2. /\ tracked' = tracked /\ written' = written
        /\ ~HeadOn(c)'
        /\ \A d \in Consoles : ChainFollows(d)
        /\ \A d \in Consoles \ {c} : chain'[d] = chain[d]
        /\ \A a : a # chain[c][1].awaits => (AwaitedOn(a, c) => AwaitedOn(a, c)')
    BY <1>1, <1>5, <2>1, FlushEnds
  <2>3. \A d \in Consoles \ {c} : \A a : AwaitedOn(a, d)' = AwaitedOn(a, d)
    BY <2>2, ChainRests
  <2>4. ASSUME NEW d \in Consoles PROVE StandsBy(d)
    <3>1. WorkersRest(d)
      BY <1>4, QuietConsole
    <3>2. HeadOn(d)' /\ AwaitedOn(d, d) => AwaitedOn(d, d)'
      BY <2>2, <2>3
    <3> QED
      BY <1>4, <2>2, <3>1, <3>2 DEF StandsBy, IdentityStays, QuietStep, SameBoot
  <2>5. ASSUME NEW d \in Consoles, d # c
        PROVE  (\A b \in Consoles : SeenFollows(b, d)) /\ OutgoingFollows(d)
    BY <1>4, <2>3, <2>5 DEF SeenFollows, OutgoingFollows, Expects
  <2>6. DebtsKept(c)'
    <3>1. SessionFollows(c) /\ Memory(c)' = Memory(c)
      BY <1>4 DEF QuietStep, SessionFollows, Memory, Alive, BetweenGames, InBoot
    <3>2. InSession(c)' => Memory(c)' >= Memory(c) /\ Memory(c)' \in Nat
      BY <3>1, MemoryTyped, SaveConstants
    <3>3. ASSUME c \notin exposed, NEW b \in Consoles, NEW g, NEW v \in Nat, Owed(b, c, g, v),
                 ~AwaitedOn(b, c)'
          PROVE  Current(c, g, v)'
      <4>1. CASE AwaitedOn(b, c)
        <5>1. chain[c][1].awaits = b
          BY <2>2, <3>3, <4>1
        <5>2. RunIsMarked(c)
          BY <1>5, <3>3 DEF ConsoleKept
        <5>3. Current(c, g, v)
          BY <1>1, <1>2, <1>3, <1>5, <1>6, <3>3, <5>1, <5>2, UnchangedIsStored
        <5> QED
          BY <1>4, <5>3 DEF Current, QuietStep
      <4>2. CASE ~AwaitedOn(b, c)
        BY <1>4, <3>3, <4>2 DEF Owed, Current, QuietStep
      <4> QED
        BY <4>1, <4>2
    <3> QED
      BY <1>4, <1>5, <2>2, <3>1, <3>2, <3>3, AllDebtsPaid
  <2> QED
    BY <1>4, <2>4, <2>5, <2>6, QuietKept DEF SavesKept
<1>7. CASE memory \notin {0, written[c]}
  <2>1. PICK h : h = [f EXCEPT !.step = "saving", !.memory = memory]
    OBVIOUS
  <2>2. Advance(c, h) /\ tracked' = tracked /\ written' = written
    BY <1>1, <1>2, <1>3, <1>7, <2>1 DEF MemoryRead
  <2>3. /\ h.game = f.game /\ h.gen = f.gen /\ h.awaits = f.awaits /\ h.retire = f.retire
        /\ h.step = "saving" /\ h.worker = f.worker /\ h.memory = memory
    BY <1>1, <1>2, <2>1 DEF Flushes
  <2>4. HeadAdvances(c, h)
    BY <1>1, <1>2, <1>4, <2>2, <2>3 DEF HeadAdvances
  <2>5. HeadOn(c)' /\ chain'[c][1] = h /\ \A a : AwaitedOn(a, c)' = AwaitedOn(a, c)
    BY <2>4, HeadAdvanced
  <2>6. CanStore(f) /\ Bytes(f) = memory /\ CanStore(h)' /\ Bytes(h)' = memory
    BY <1>1, <1>2, <1>3, <2>3 DEF CanStore, Bytes
  <2>7. HeadFollows(c)
    BY <1>2, <1>5, <2>3, <2>5, <2>6 DEF HeadFollows, CanStore, Bytes
  <2>8. /\ worker' = worker /\ rack' = rack /\ card' = card
        /\ IdentityStays(c) /\ CurrentsStay(c)
    BY <1>4, <2>2, QuietConsole DEF QuietStep, IdentityStays
  <2>9. /\ InSession(c)' = InSession(c) /\ Memory(c)' = Memory(c) /\ SessionFollows(c)
        /\ HasRead(c)' = HasRead(c) /\ CoreIsUp(c)' = CoreIsUp(c)
    BY <1>4, <2>2, <2>8
       DEF InSession, Memory, Alive, BetweenGames, InBoot, SessionFollows, HasRead, CoreIsUp
  <2>10. HeadIsCurrent(c)'
    BY <1>4, <1>5, <2>2, <2>5, <2>7, <2>9, HeadStaysCurrent DEF ConsoleKept
  <2>11. ASSUME c \notin exposed
         PROVE  RestoredIsMarked(c)' /\ BootIsMarked(c)' /\ RunIsMarked(c)'
    <3>1. RestoredIsMarked(c) /\ BootIsMarked(c) /\ RunIsMarked(c) /\ Played(c)
      BY <1>5, <2>11 DEF ConsoleKept
    <3>2. RestoredIsMarked(c)'
      BY <1>4, <2>7, <2>8, <2>9, <3>1, RestoredStaysMarked DEF SaveInv
    <3>3. BootIsMarked(c)'
      BY <1>4, <2>7, <2>8, <2>9, <3>1, BootStaysMarked DEF SavesKept
    <3>4. RunIsMarked(c)'
      BY <2>7, <2>8, <2>9, <3>1, RunStaysMarked
    <3> QED
      BY <3>2, <3>3, <3>4
  <2>12. Uses(c, h.worker) /\ f.worker \in DOMAIN worker
    BY <1>2, <1>5, <2>3, HeadTyped DEF Uses
  <2>13. h.memory <= plays
    BY <1>3, <2>3, <2>12 DEF SavesKept, PlayedMemory
  <2>14. c \notin exposed' => worker[h.worker].state # "booting"
    BY <1>2, <1>4, <1>5, <2>3 DEF ConsoleKept, BootsApart
  <2>15. ASSUME NEW b \in Consoles, NEW g, NEW v \in Nat, Owed(b, c, g, v), h.game = g,
                h.awaits = b \/ ~AwaitedOn(b, c)
         PROVE  h.memory >= v
    <3>1. f.worker = rack[c] /\ ~BetweenGames(c) /\ tracked[c] # None
      BY <1>1, <1>2, <1>5, <2>3, <2>15 DEF Owed
    <3>2. InSession(c) /\ Memory(c) = memory
      BY <1>1, <1>2, <1>3, <3>1 DEF InSession, Memory
    <3> QED
      BY <2>3, <2>15, <3>2 DEF Owed
  <2>16. ~(h.step = "reading")
    BY <2>3
  <2> QED
    BY <1>4, <2>4, <2>10, <2>11, <2>12, <2>13, <2>14, <2>15, <2>16, AdvancedKept
<1> QED
  BY <1>6, <1>7

\* The memory is on the card, and is what the console wrote last.
LEMMA StoredKept ==
  ASSUME SaveInv, SavesKept, NEW c \in Consoles, Stored(c) PROVE SavesKept'
<1>1. /\ chain[c] # <<>> /\ Head(chain[c]) = chain[c][1] /\ 1 \in DOMAIN chain[c]
      /\ chain[c][1].step = "saving" /\ chain[c][1] \in Flushes
  BY DEF Stored, Under, SaveInv, SaveTypeOK
<1>2. PICK f : f = chain[c][1]
  OBVIOUS
<1>3. f.game \in Cards /\ f.memory \in Nat /\ f.step = "saving"
  BY <1>1, <1>2 DEF Flushes
<1>4. PICK r : r = [memory |-> f.memory, by |-> c, ran |-> worker[f.worker].game]
  OBVIOUS
<1>5. PICK marks : marks = [written EXCEPT ![c] = f.memory]
  OBVIOUS
<1>6. /\ EndFlush(c, marks) /\ card' = [card EXCEPT ![f.game] = r]
      /\ worker' = worker /\ rack' = rack /\ boot' = boot /\ exposed' = exposed /\ plays' = plays
  BY <1>1, <1>2, <1>4, <1>5 DEF Stored, pageVars, countVars
<1>7. r.memory = f.memory /\ r.by = c /\ r # None
  <2>1. \E q \in Flushes : q = f /\ worker[q.worker].game \in Games /\ q.memory \in 1 .. MaxPlays
    BY <1>1, <1>2, StoredOwn
  <2>2. r \in Records
    BY <1>4, <2>1 DEF Records
  <2> QED
    BY <1>4, <2>2, NoneIsApart
<1>8. /\ \A d \in Consoles \ {c} : marks[d] = written[d]
      /\ marks[c] = f.memory
      /\ \A g \in Cards : card'[g] = IF g = f.game THEN r ELSE card[g]
  BY <1>5, <1>6 DEF SaveInv, SaveTypeOK
<1>9. ConsoleKept(c) /\ StaysTracked(c) /\ HeadOn(c) /\ DebtsKept(c) /\ f.memory <= plays
  BY <1>1, <1>2, <1>3 DEF SavesKept, ConsoleKept, Played, HeadOn
<1>10. /\ tracked' = tracked /\ written' = marks
       /\ ~HeadOn(c)'
       /\ \A d \in Consoles : ChainFollows(d)
       /\ \A d \in Consoles \ {c} : chain'[d] = chain[d]
       /\ \A a : a # chain[c][1].awaits => (AwaitedOn(a, c) => AwaitedOn(a, c)')
  BY <1>1, <1>6, <1>9, FlushEnds
<1>11. GamesStay /\ plays \in Nat /\ \A d \in Consoles : WorkersRest(d)
  BY <1>6, CountersTyped DEF GamesStay, WorkersRest
<1>12. PlayedMemory' /\ OwnWorkers'
  <2>1. PlayedMemory'
    BY <1>6, <1>7, <1>8, <1>9 DEF SavesKept, PlayedMemory
  <2>2. ASSUME NEW d \in Consoles PROVE \A w : Uses(d, w)' => Uses(d, w)
    BY <1>6, <1>10, UsesStay DEF ChainFollows, InBoot
  <2> QED
    BY <2>1, <2>2, UsedIsWorker DEF SavesKept, OwnWorkers
<1>13. ASSUME NEW d \in Consoles, d # c PROVE ConsoleKept(d)' /\ DebtsKept(d)'
  <2>1. CurrentsStay(d)
    BY <1>7, <1>8, <1>13 DEF CurrentsStay, Current
  <2>2. StandsBy(d) /\ \A a : AwaitedOn(a, d)' = AwaitedOn(a, d)
    BY <1>6, <1>8, <1>10, <1>11, <1>13, ChainRests DEF StandsBy, IdentityStays, SameBoot
  <2>3. PlayedMemory /\ ConsoleKept(d) /\ DebtsKept(d)
    BY DEF SavesKept
  <2>4. ConsoleKept(d)' /\ SessionFollows(d) /\ HeadStays(d) /\ Memory(d)' = Memory(d)
    BY <1>6, <1>11, <2>1, <2>2, <2>3, StandingByKept
  <2>5. InSession(d)' => Memory(d)' >= Memory(d) /\ Memory(d)' \in Nat
    BY <2>4, MemoryTyped, SaveConstants
  <2>6. (\A b \in Consoles : SeenFollows(b, d)) /\ OutgoingFollows(d)
    BY <1>6, <2>2 DEF SeenFollows, OutgoingFollows, Expects
  <2> QED
    BY <1>6, <1>10, <2>1, <2>3, <2>4, <2>5, <2>6, AllDebtsStay
<1>14. /\ SessionFollows(c) /\ Memory(c)' = Memory(c) /\ InSession(c)' = InSession(c)
       /\ HasRead(c)' = HasRead(c) /\ CoreIsUp(c)' = CoreIsUp(c)
  BY <1>6, <1>10
     DEF SessionFollows, Memory, Alive, BetweenGames, InBoot, InSession, HasRead, CoreIsUp
<1>15. \A g \in Cards : \A v : g # f.game => (Current(c, g, v)' <=> Current(c, g, v))
  BY <1>8 DEF Current
<1>16. \A v \in Nat : v <= f.memory => Current(c, f.game, v)'
  BY <1>3, <1>7, <1>8 DEF Current
<1>17. c \notin exposed => RestoredIsMarked(c)' /\ BootIsMarked(c)' /\ RunIsMarked(c)'
  <2> SUFFICES ASSUME c \notin exposed
               PROVE  RestoredIsMarked(c)' /\ BootIsMarked(c)' /\ RunIsMarked(c)'
    OBVIOUS
  <2>1. RestoredIsMarked(c) /\ BootIsMarked(c) /\ RunIsMarked(c) /\ Played(c) /\ HeadIsCurrent(c)
    BY <1>9 DEF ConsoleKept
  <2>2. RestoredIsMarked(c)'
    <3> SUFFICES ASSUME HasRead(c), boot[c].restored # None PROVE RestoredIsMarked(c)'
      BY <1>6, <1>14 DEF RestoredIsMarked
    <3>1. PICK g : g = boot[c].game
      OBVIOUS
    <3>2. PICK m : m = boot[c].restored.memory
      OBVIOUS
    <3>3. boot[c].restored \in Records /\ g \in Cards /\ boot[c] # None
      BY <2>1, <3>1 DEF HasRead, Played, SaveInv, SaveTypeOK, Boots
    <3>4. m \in Nat
      BY <3>2, <3>3, SaveConstants DEF Records
    <3>5. \/ tracked[c] # None /\ tracked[c].game # g
          \/ HeadOn(c) /\ chain[c][1].game # g
          \/ tracked[c] # None /\ tracked[c].game = g /\ written[c] = m
          => Current(c, g, m)
      BY <2>1, <3>1, <3>2 DEF RestoredIsMarked
    <3>6. ASSUME tracked[c] # None, tracked[c].game # g PROVE Current(c, g, m)'
      <4>1. f.gen = tracked[c].gen
        BY <1>2, <1>9, <2>1, <3>1, <3>3, <3>6 DEF HeadIsCurrent
      <4>2. f.game = tracked[c].game
        BY <1>1, <1>2, <3>6, <4>1 DEF SaveInv, Identities
      <4> QED
        BY <1>15, <3>3, <3>5, <3>6, <4>2
    <3>7. ASSUME tracked[c] # None, tracked[c].game = g, marks[c] = m PROVE Current(c, g, m)'
      <4>1. CASE f.game = g
        BY <1>8, <1>16, <3>4, <3>7, <4>1
      <4>2. CASE f.game # g
        BY <1>2, <1>9, <1>15, <3>3, <3>5, <4>2
      <4> QED
        BY <4>1, <4>2
    <3> QED
      BY <1>6, <1>10, <3>1, <3>2, <3>6, <3>7 DEF RestoredIsMarked
  <2>3. BootIsMarked(c)'
    <3> SUFFICES ASSUME CoreIsUp(c), worker[boot[c].worker].memory # 0 PROVE BootIsMarked(c)'
      BY <1>6, <1>14 DEF BootIsMarked
    <3>1. PICK g : g = boot[c].game
      OBVIOUS
    <3>2. PICK m : m = worker[boot[c].worker].memory
      OBVIOUS
    <3>3. g \in Cards /\ m \in Nat
      BY <3>1, <3>2, StartingTyped DEF CoreIsUp, SavesKept, PlayedMemory
    <3>4. /\ \/ Elsewhere(c, g, m)
             \/ tracked[c] # None /\ tracked[c].game = g /\ written[c] = m
             => Current(c, g, m)
          /\ boot[c].fresh /\ Memory(c) = m =>
               boot[c].restored # None /\ boot[c].restored.memory = m
      BY <2>1, <3>1, <3>2 DEF BootIsMarked
    <3>5. ASSUME tracked[c] # None, tracked[c].game = g, marks[c] = m PROVE Current(c, g, m)'
      <4>1. CASE f.game = g
        BY <1>8, <1>16, <3>3, <3>5, <4>1
      <4>2. CASE f.game # g
        <5>1. Elsewhere(c, g, m)
          BY <1>2, <1>3, <1>8, <1>9, <3>5, <4>2 DEF Elsewhere, CanStore, Bytes
        <5> QED
          BY <1>15, <3>3, <3>4, <4>2, <5>1
      <4> QED
        BY <4>1, <4>2
    <3>6. ~Elsewhere(c, g, m)'
      BY <1>10 DEF Elsewhere
    <3> QED
      BY <1>6, <1>10, <1>14, <3>1, <3>2, <3>4, <3>5 DEF BootIsMarked, Elsewhere
  <2>4. RunIsMarked(c)'
    <3> SUFFICES ASSUME InSession(c), Memory(c) # 0, marks[c] = Memory(c)
                 PROVE  Current(c, tracked[c].game, Memory(c))'
      BY <1>10, <1>14 DEF RunIsMarked, Elsewhere, Current
    <3>1. PICK g : g = tracked[c].game
      OBVIOUS
    <3>2. PICK m : m = Memory(c)
      OBVIOUS
    <3>3. g \in Cards /\ m \in Nat /\ m = f.memory
      <4>1. g \in Cards
        BY <3>1, IdentityTyped DEF InSession
      <4>2. m = f.memory
        BY <1>8, <3>2
      <4> QED
        BY <1>3, <4>1, <4>2
    <3>4. Current(c, g, m)'
      <4>1. CASE f.game = g
        BY <1>16, <3>3, <4>1
      <4>2. CASE f.game # g
        <5>1. Elsewhere(c, g, m)
          BY <1>2, <1>3, <1>9, <3>3, <4>2 DEF Elsewhere, CanStore, Bytes
        <5>2. Current(c, g, m)
          BY <2>1, <3>1, <3>2, <5>1 DEF RunIsMarked
        <5> QED
          BY <1>15, <3>3, <4>2, <5>2
      <4> QED
        BY <4>1, <4>2
    <3> QED
      BY <1>10, <1>14, <3>1, <3>2, <3>4 DEF Current
  <2> QED
    BY <2>2, <2>3, <2>4
<1>18. ConsoleKept(c)'
  <2>1. Played(c)'
    BY <1>6, <1>8, <1>9, <1>10, <1>14 DEF ConsoleKept, Played
  <2>2. BootsApart(c)'
    BY <1>6, <1>9, <1>10 DEF ConsoleKept, BootsApart, InBoot, BetweenGames, Alive
  <2>3. StaysTracked(c)'
    BY <1>9, <1>10, <1>11, <1>14, StillTracked
  <2>4. HeadIsCurrent(c)'
    BY <1>10 DEF HeadIsCurrent
  <2> QED
    BY <1>6, <1>17, <2>1, <2>2, <2>3, <2>4 DEF ConsoleKept
<1>19. DebtsKept(c)'
  <2>1. InSession(c)' => Memory(c)' >= Memory(c) /\ Memory(c)' \in Nat
    BY <1>14, MemoryTyped, SaveConstants
  <2>2. ASSUME NEW b \in Consoles, NEW g, NEW v \in Nat, Owed(b, c, g, v), ~AwaitedOn(b, c)'
        PROVE  Current(c, g, v)'
    <3>1. f.awaits = b \/ ~AwaitedOn(b, c)
      BY <1>2, <1>10, <2>2
    <3>2. f.awaits = b => f.game = g
      BY <1>1, <1>2, <2>2 DEF Owed
    <3>3. f.game = g => f.memory >= v
      BY <1>2, <1>3, <1>9, <2>2, <3>1 DEF Owed
    <3>4. g \in Cards
      BY <2>2, IdentityTyped DEF Owed
    <3>5. CASE f.game = g
      BY <1>3, <1>16, <3>3, <3>5
    <3>6. CASE f.game # g
      <4>1. Current(c, g, v)
        BY <2>2, <3>1, <3>2, <3>6 DEF Owed
      <4> QED
        BY <1>15, <3>4, <3>6, <4>1
    <3> QED
      BY <3>5, <3>6
  <2> QED
    BY <1>6, <1>9, <1>10, <1>14, <2>1, <2>2, AllDebtsPaid
<1> QED
  BY <1>12, <1>13, <1>18, <1>19 DEF SavesKept

-----------------------------------------------------------------------------
(* The boots and the cores.                                                  *)

\* What is played is newer than all there is.
LEMMA PlayKept ==
  ASSUME SaveInv, SavesKept, NEW w \in Workers, Play(w) PROVE SavesKept'
<1>1. /\ rack' = rack /\ boot' = boot /\ card' = card /\ tracked' = tracked
      /\ written' = written /\ chain' = chain /\ exposed' = exposed
      /\ w \in DOMAIN worker /\ worker[w].state = "up" /\ worker[w].game \in Cards
      /\ plays' = plays + 1
  BY DEF Play, guardVars, Workers
<1>2. plays \in Nat
  BY CountersTyped
<1>3. PICK n : n = plays + 1
  OBVIOUS
<1>4. worker \in Seq(Hosted) /\ worker[w] \in Hosted
  BY <1>1 DEF SaveInv, SaveTypeOK
<1>5. PICK h : h = [worker[w] EXCEPT !.memory = plays']
  OBVIOUS
<1>6. worker' = [worker EXCEPT ![w] = h]
  BY <1>5 DEF Play
<1>7. h.memory = plays + 1 /\ h.game = worker[w].game /\ h.state = worker[w].state
  BY <1>1, <1>4, <1>5 DEF Hosted
<1>8. /\ DOMAIN worker' = DOMAIN worker
      /\ \A x \in DOMAIN worker :
           /\ worker'[x].game = worker[x].game /\ worker'[x].state = worker[x].state
           /\ worker'[x].memory = IF x = w THEN plays + 1 ELSE worker[x].memory
           /\ worker[x].memory <= plays /\ worker[x].memory \in Nat
  <2>1. ASSUME NEW x \in DOMAIN worker PROVE worker[x].memory \in Nat
    <3>1. worker[x] \in Hosted
      BY <1>4
    <3> QED
      BY <3>1, SaveConstants DEF Hosted
  <2> HIDE DEF Hosted
  <2>2. /\ DOMAIN worker' = DOMAIN worker
        /\ \A x \in DOMAIN worker : worker'[x] = IF x = w THEN h ELSE worker[x]
    BY <1>1, <1>4, <1>6
  <2> QED
    BY <1>7, <2>1, <2>2 DEF SavesKept, PlayedMemory
<1>9. GamesStay /\ \A d \in Consoles : ChainFollows(d) /\ CurrentsStay(d)
  BY <1>1, <1>8, ChainRests DEF GamesStay, CurrentsStay, Current
<1>10. PlayedMemory'
  <2>1. \A g \in Cards : card[g] # None => card[g].memory <= plays + 1
    BY <1>2, CardTyped DEF SavesKept, PlayedMemory
  <2> QED
    BY <1>1, <1>2, <1>8, <2>1 DEF SavesKept, PlayedMemory
<1>11. OwnWorkers'
  BY <1>1, <1>8 DEF SavesKept, OwnWorkers, Uses, InBoot, HeadOn
<1>12. ASSUME NEW c \in Consoles PROVE ConsoleKept(c)' /\ DebtsKept(c)'
  <2>1. /\ PlayedMemory /\ ConsoleKept(c) /\ DebtsKept(c)
        /\ Played(c) /\ BootsApart(c) /\ StaysTracked(c) /\ HeadIsCurrent(c)
    BY DEF SavesKept, ConsoleKept
  <2>2. ASSUME rack[c] # 0
        PROVE  rack[c] \in DOMAIN worker
    BY <2>2 DEF SaveInv, SaveTypeOK
  <2>3. /\ Alive(rack[c])' = Alive(rack[c]) /\ BetweenGames(c)' = BetweenGames(c)
        /\ InSession(c)' = InSession(c)
        /\ Memory(c)' = IF Alive(rack[c]) /\ rack[c] = w THEN n ELSE Memory(c)
        /\ Memory(c) <= plays /\ Memory(c) \in Nat
    BY <1>1, <1>2, <1>8, <1>3, <2>2 DEF Alive, BetweenGames, InBoot, InSession, Memory
  <2>4. ASSUME HeadOn(c)
        PROVE  /\ chain[c][1].worker \in DOMAIN worker
               /\ CanStore(chain[c][1])' = CanStore(chain[c][1])
               /\ Bytes(chain[c][1])' = IF chain[c][1].step # "saving" /\ chain[c][1].worker = w
                                        THEN n ELSE Bytes(chain[c][1])
               /\ Bytes(chain[c][1]) <= plays
    <3>1. chain[c][1].worker \in DOMAIN worker
      BY <2>4, HeadTyped
    <3>2. Bytes(chain[c][1]) <= plays
      BY <1>8, <2>1, <2>4, <3>1 DEF Bytes, Played
    <3> QED
      BY <1>1, <1>8, <1>3, <3>1, <3>2 DEF CanStore, Bytes, Alive
  <2>5. Played(c)'
    <3>1. written[c] \in Nat /\ written[c] <= plays
      BY <2>1, SaveConstants DEF SaveInv, SaveTypeOK, Played
    <3>2. ASSUME HeadOn(c), chain[c][1].step = "saving" PROVE chain[c][1].memory <= n
      <4>1. chain[c][1].memory \in Nat
        BY <3>2, HeadTyped DEF Flushes
      <4> QED
        BY <1>2, <1>3, <2>1, <3>2, <4>1 DEF Played
    <3>3. ASSUME boot[c] # None, boot[c].restored # None
          PROVE  HasRead(c) /\ boot[c].restored.memory <= n /\ boot[c].game \in Cards
      <4>1. boot[c].restored \in Records
        BY <3>3 DEF SaveInv, SaveTypeOK, Boots
      <4>2. boot[c].restored.memory \in Nat
        BY <4>1, SaveConstants DEF Records
      <4> QED
        BY <1>2, <1>3, <2>1, <3>3, <4>2 DEF Played
    <3> QED
      BY <1>1, <1>2, <1>3, <3>1, <3>2, <3>3 DEF Played, HeadOn, HasRead
  <2>6. BootsApart(c)'
    <3>1. HeadOn(c) => worker'[chain[c][1].worker].state = worker[chain[c][1].worker].state
      BY <1>8, <2>4
    <3>2. Alive(rack[c]) => worker'[rack[c]].state = worker[rack[c]].state
      BY <1>8, <2>2 DEF Alive
    <3> QED
      BY <1>1, <2>1, <2>3, <3>1, <3>2 DEF BootsApart, InBoot, HeadOn
  <2>7. SessionFollows(c) /\ HeadStays(c)
    BY <1>1, <1>8, <2>3, <2>4 DEF SessionFollows, HeadStays, HeadOn, Alive
  <2>8. StaysTracked(c)'
    BY <1>1, <1>9, <2>1, <2>7, StillTracked
  <2>9. HeadIsCurrent(c)'
    BY <1>1, <2>1 DEF HeadIsCurrent, HasRead, AwaitedOn, HeadOn
  <2>10. ASSUME c \notin exposed
         PROVE  RestoredIsMarked(c)' /\ BootIsMarked(c)' /\ RunIsMarked(c)'
    <3>1. RestoredIsMarked(c) /\ BootIsMarked(c) /\ RunIsMarked(c)
      BY <2>1, <2>10 DEF ConsoleKept
    <3>2. RestoredIsMarked(c)'
      BY <1>1, <3>1 DEF RestoredIsMarked, HasRead, HeadOn, Current
    <3>3. ASSUME NEW g, NEW m \in Nat, m <= plays, Elsewhere(c, g, m)' PROVE Elsewhere(c, g, m)
      <4>1. /\ HeadOn(c) /\ chain[c][1].game # g
            /\ CanStore(chain[c][1])' /\ Bytes(chain[c][1])' = m
        BY <1>1, <3>3 DEF Elsewhere, HeadOn
      <4>2. m # n
        BY <1>2, <1>3, <3>3
      <4>3. CanStore(chain[c][1])
        BY <2>4, <4>1
      <4>4. Bytes(chain[c][1]) = m
        BY <2>4, <4>1, <4>2
      <4> QED
        BY <4>1, <4>3, <4>4 DEF Elsewhere
    <3>4. ASSUME NEW g, Elsewhere(c, g, n)'
          PROVE  worker[w].game # g
      <4>1. HeadOn(c) /\ chain[c][1].game # g
        BY <1>1, <3>4 DEF Elsewhere, HeadOn
      <4>2. chain[c][1].worker = w
        BY <1>1, <1>2, <1>3, <2>4, <3>4, <4>1, HeadTyped DEF Elsewhere
      <4>3. 1 \in DOMAIN chain[c] /\ chain[c][1].step # "queued"
        BY <4>1, HeadTyped DEF HeadOn
      <4> QED
        BY <2>10, <4>1, <4>2, <4>3 DEF SaveInv, OwnMemory
    <3>5. written[c] \in Nat /\ written[c] <= plays
      BY <2>1, SaveConstants DEF SaveInv, SaveTypeOK, Played
    <3>6. BootIsMarked(c)'
      <4> SUFFICES ASSUME CoreIsUp(c)', worker'[boot'[c].worker].memory # 0 PROVE BootIsMarked(c)'
        BY DEF BootIsMarked
      <4>1. InBoot(c, "starting")
        BY <1>1 DEF CoreIsUp, InBoot
      <4>2. /\ boot[c].worker \in DOMAIN worker /\ boot[c].worker # 0
            /\ worker[boot[c].worker].game = boot[c].game
        BY <4>1, StartingTyped
      <4>3. CoreIsUp(c)
        BY <1>1, <1>8, <4>1, <4>2 DEF CoreIsUp
      <4>4. CASE boot[c].worker = w
        <5>1. worker'[boot'[c].worker].memory = n
          BY <1>1, <1>8, <1>3, <4>2, <4>4
        <5>2. ~Elsewhere(c, boot[c].game, n)'
          BY <1>1, <3>4, <4>2, <4>4
        <5>3. written[c] # n
          BY <1>2, <1>3, <3>5
        <5>4. boot[c].fresh => Memory(c)' # n
          BY <1>2, <1>3, <2>1, <2>3, <4>1, <4>4 DEF BootsApart
        <5> QED
          BY <1>1, <5>1, <5>2, <5>3, <5>4 DEF BootIsMarked, Elsewhere
      <4>5. CASE boot[c].worker # w
        <5>1. PICK g : g = boot[c].game
          OBVIOUS
        <5>2. PICK m : m = worker[boot[c].worker].memory
          OBVIOUS
        <5>3. worker'[boot'[c].worker].memory = m /\ m \in Nat /\ m <= plays /\ m # 0
          BY <1>1, <1>8, <4>2, <4>5, <5>2
        <5>4. /\ \/ Elsewhere(c, g, m)
                 \/ tracked[c] # None /\ tracked[c].game = g /\ written[c] = m
                 => Current(c, g, m)
              /\ boot[c].fresh /\ Memory(c) = m =>
                   boot[c].restored # None /\ boot[c].restored.memory = m
          BY <3>1, <4>3, <5>1, <5>2, <5>3 DEF BootIsMarked
        <5>5. Elsewhere(c, g, m)' => Elsewhere(c, g, m)
          BY <3>3, <5>3
        <5>6. Memory(c)' = m => Memory(c) = m
          BY <1>2, <1>3, <2>3, <5>3
        <5> QED
          BY <1>1, <5>1, <5>3, <5>4, <5>5, <5>6 DEF BootIsMarked, Elsewhere, Current
      <4> QED
        BY <4>4, <4>5
    <3>7. RunIsMarked(c)'
      <4> SUFFICES ASSUME InSession(c), Memory(c)' # 0 PROVE RunIsMarked(c)'
        BY <2>3 DEF RunIsMarked
      <4>1. PICK g : g = tracked[c].game
        OBVIOUS
      <4>2. CASE rack[c] = w
        <5>1. Memory(c)' = n /\ worker[w].game = g
          BY <2>3, <4>1, <4>2 DEF InSession, SaveInv, TrackedRuns
        <5>2. ~Elsewhere(c, g, n)'
          BY <3>4, <5>1
        <5>3. written[c] # n
          BY <1>2, <1>3, <3>5
        <5> QED
          BY <1>1, <4>1, <5>1, <5>2, <5>3 DEF RunIsMarked, Elsewhere
      <4>3. CASE rack[c] # w
        <5>1. PICK m : m = Memory(c)
          OBVIOUS
        <5>2. Memory(c)' = m /\ m \in Nat /\ m <= plays /\ m # 0
          BY <2>3, <4>3, <5>1
        <5>3. written[c] = m \/ Elsewhere(c, g, m) => Current(c, g, m)
          BY <3>1, <4>1, <5>1, <5>2 DEF RunIsMarked
        <5>4. Elsewhere(c, g, m)' => Elsewhere(c, g, m)
          BY <3>3, <5>2
        <5> QED
          BY <1>1, <4>1, <5>2, <5>3, <5>4 DEF RunIsMarked, Elsewhere, Current
      <4> QED
        BY <4>2, <4>3
    <3> QED
      BY <3>2, <3>6, <3>7
  <2>11. DebtsKept(c)'
    <3>1. InSession(c)' => Memory(c)' >= Memory(c) /\ Memory(c)' \in Nat
      BY <1>2, <1>3, <2>3
    <3>2. (\A b \in Consoles : SeenFollows(b, c)) /\ OutgoingFollows(c)
      BY <1>1, ChainRests DEF SeenFollows, OutgoingFollows, Expects
    <3> QED
      BY <1>1, <1>9, <2>1, <2>7, <3>1, <3>2, AllDebtsStay
  <2> QED
    BY <1>1, <2>5, <2>6, <2>8, <2>9, <2>10, <2>11 DEF ConsoleKept
<1> QED
  BY <1>10, <1>11, <1>12 DEF SavesKept

\* A flush that is asked for now pays for what the console has in memory now.
LEMMA FlushOwed ==
  ASSUME SaveInv, NEW b \in Consoles, NEW c \in Consoles, AtTheEnd(c, b, FALSE),
         ~AwaitedOn(b, c), tracked[c] # None, tracked'[c] = tracked[c],
         Memory(c) # 0, Memory(c)' = Memory(c),
         NEW g, g = tracked[c].game, NEW v, v = Memory(c)
  PROVE  Owed(b, c, g, v)'
<1>1. v \in Nat
  <2>1. Memory(c) \in 0 .. MaxPlays
    BY MemoryTyped
  <2> QED
    BY <2>1
<1>2. InSession(c)' => Memory(c)' >= v
  BY <1>1
<1>3. \A i \in DOMAIN chain'[c] : chain'[c][i].awaits = b => chain'[c][i].game = g
  BY DEF AtTheEnd, AwaitedOn
<1>4. AwaitedOn(b, c)'
  BY DEF AtTheEnd
<1>5. HeadOn(c)' => chain'[c][1].awaits # b
  BY HeadTyped DEF AtTheEnd, AwaitedOn
<1> QED
  BY <1>2, <1>3, <1>4, <1>5 DEF Owed

\* What a boot replaces is in the memory of a tracked console.
LEMMA OutgoingTracked ==
  ASSUME SaveInv, SavesKept, NEW c \in Consoles, ~InBoot(c, "starting"), Outgoing(c) # None
  PROVE  /\ tracked[c] # None /\ Outgoing(c).game = tracked[c].game
         /\ Outgoing(c).memory = Memory(c) /\ Memory(c) # 0
<1>1. Memory(c) # 0 /\ Outgoing(c) = [game |-> Running(c), memory |-> Memory(c)]
  BY DEF Outgoing
<1>2. Alive(rack[c]) /\ rack[c] # 0 /\ Memory(c) = worker[rack[c]].memory
  BY <1>1 DEF Memory, Alive
<1>3. rack[c] \in DOMAIN worker /\ Running(c) = worker[rack[c]].game
  BY <1>2 DEF Running, SaveInv, SaveTypeOK
<1>4. worker[rack[c]].game \in Cards /\ ~BetweenGames(c)
  BY <1>1, <1>2, <1>3 DEF SavesKept, PlayedMemory, BetweenGames
<1>5. tracked[c] # None
  BY <1>2, <1>4 DEF SavesKept, ConsoleKept, StaysTracked
<1>6. worker[rack[c]].game = tracked[c].game
  BY <1>2, <1>4, <1>5 DEF SaveInv, TrackedRuns
<1> QED
  BY <1>1, <1>3, <1>5, <1>6

\* A quiet step of the boot on c, while it starts no core.
LEMMA AshoreKept ==
  ASSUME SaveInv, SavesKept, QuietStep, NEW c \in Consoles, IdentityStays(c), ChainFollows(c),
         ~InBoot(c, "starting"), ~InBoot(c, "starting")',
         boot'[c] # None /\ boot'[c].restored # None =>
           HasRead(c)' /\ boot'[c].restored.memory <= plays /\ boot'[c].game \in Cards,
         HeadIsCurrent(c)', c \notin exposed' => RestoredIsMarked(c)'
  PROVE  ConsoleKept(c)' /\ SessionFollows(c) /\ HeadStays(c) /\ Memory(c)' = Memory(c)
<1>1. /\ worker' = worker /\ rack' = rack /\ card' = card /\ plays' = plays
      /\ exposed \subseteq exposed'
  BY DEF QuietStep
<1>2. /\ CurrentsStay(c) /\ GamesStay
      /\ ConsoleKept(c) /\ Played(c) /\ BootsApart(c) /\ StaysTracked(c)
  BY QuietConsole DEF SavesKept, ConsoleKept
<1>3. ~BetweenGames(c) /\ ~BetweenGames(c)'
  BY DEF BetweenGames
<1>4. Alive(rack[c])' = Alive(rack[c]) /\ Memory(c)' = Memory(c)
  BY <1>1 DEF Alive, Memory
<1>5. SessionFollows(c) /\ HeadStays(c) /\ HeadFollows(c)
  BY <1>1, <1>3, <1>4
     DEF SessionFollows, HeadStays, HeadFollows, ChainFollows, Alive, CanStore, Bytes
<1>6. Played(c)'
  BY <1>1, <1>2 DEF Played, IdentityStays, ChainFollows
<1>7. BootsApart(c)'
  BY <1>1, <1>2, <1>3, <1>4 DEF BootsApart, ChainFollows
<1>8. StaysTracked(c)'
  BY <1>2, <1>5, StillTracked DEF IdentityStays
<1>9. BootIsMarked(c)'
  BY DEF BootIsMarked, CoreIsUp
<1>10. c \notin exposed' => RunIsMarked(c)'
  BY <1>1, <1>2, <1>4, <1>5, RunStaysMarked DEF ConsoleKept
<1> QED
  BY <1>4, <1>5, <1>6, <1>7, <1>8, <1>9, <1>10 DEF ConsoleKept

\* So the other consoles stand by, and only the debts to the boot on c are new.
LEMMA BootQuietly ==
  ASSUME SaveInv, SavesKept, QuietStep, NEW c \in Consoles, tracked' = tracked, written' = written,
         \A d \in Consoles : ChainFollows(d) /\ \A a : AwaitedOn(a, d) => AwaitedOn(a, d)',
         \A b \in Consoles \ {c} : boot'[b] = boot[b],
         ~InBoot(c, "starting"), ~InBoot(c, "starting")',
         boot'[c] # None /\ boot'[c].restored # None =>
           HasRead(c)' /\ boot'[c].restored.memory <= plays /\ boot'[c].game \in Cards,
         HeadIsCurrent(c)', c \notin exposed' => RestoredIsMarked(c)',
         \A d \in Consoles : SeenOwed(c, d)' \/ SeenFollows(c, d),
         OutgoingOwed(c)' \/ OutgoingFollows(c)
  PROVE  SavesKept'
<1>1. PlayedMemory' /\ OwnWorkers'
  <2>1. ASSUME NEW d \in Consoles
        PROVE  /\ HeadOn(d)' => HeadOn(d) /\ chain'[d][1].worker = chain[d][1].worker
               /\ InBoot(d, "starting")' =>
                    InBoot(d, "starting") /\ boot'[d].worker = boot[d].worker
    BY DEF ChainFollows, InBoot
  <2> QED
    BY <2>1, QuietWorld DEF SavesKept
<1>2. ASSUME NEW d \in Consoles
      PROVE  ConsoleKept(d)' /\ SessionFollows(d) /\ HeadStays(d) /\ Memory(d)' = Memory(d)
  <2>1. IdentityStays(d)
    BY DEF IdentityStays
  <2>2. CASE d = c
    BY <2>1, <2>2, AshoreKept
  <2>3. CASE d # c
    <3>1. /\ CurrentsStay(d) /\ GamesStay /\ WorkersRest(d)
          /\ plays \in Nat /\ plays' \in Nat /\ plays <= plays' /\ exposed \subseteq exposed'
      BY QuietConsole
    <3>2. StandsBy(d)
      BY <2>1, <2>3, <3>1 DEF StandsBy, SameBoot, QuietStep
    <3> QED
      BY <3>1, <3>2, StandingByKept DEF SavesKept
  <2> QED
    BY <2>2, <2>3
<1>3. ASSUME NEW d \in Consoles PROVE DebtsKept(d)'
  <2>1. /\ CurrentsStay(d) /\ exposed \subseteq exposed' /\ DebtsKept(d)
        /\ SessionFollows(d) /\ HeadStays(d)
    BY <1>2, QuietConsole DEF SavesKept
  <2>2. InSession(d)' => Memory(d)' >= Memory(d) /\ Memory(d)' \in Nat
    BY <1>2, MemoryTyped, SaveConstants
  <2>3. ASSUME NEW b \in Consoles PROVE Carried(b, d)
    <3> SUFFICES ASSUME NEW g, NEW v \in Nat, Owed(b, d, g, v) PROVE Owed(b, d, g, v)'
      BY DEF Carried
    <3> QED
      BY <2>1, <2>2, DebtsStay
  <2>4. ASSUME NEW b \in Consoles PROVE SeenOwed(b, d)' \/ SeenFollows(b, d)
    BY <2>4 DEF SeenFollows
  <2>5. OutgoingOwed(d)' \/ OutgoingFollows(d)
    BY DEF OutgoingFollows, Expects
  <2> QED
    BY <2>1, <2>3, <2>4, <2>5, DebtsCarried DEF SeenFollows, OutgoingFollows
<1> QED
  BY <1>1, <1>2, <1>3 DEF SavesKept

LEMMA BootAbandonedKept ==
  ASSUME SaveInv, SavesKept, NEW c \in Consoles, BootAbandoned(c) PROVE SavesKept'
<1>1. /\ QuietStep /\ tracked' = tracked /\ written' = written /\ chain' = chain
      /\ boot' = [boot EXCEPT ![c] = None] /\ InBoot(c, "ready")
  BY DEF BootAbandoned, QuietStep, guardVars, countVars
<1>2. boot'[c] = None /\ \A b \in Consoles \ {c} : boot'[b] = boot[b]
  BY <1>1 DEF SaveInv, SaveTypeOK
<1>3. ~InBoot(c, "starting") /\ ~InBoot(c, "starting")'
  BY <1>1, <1>2 DEF InBoot
<1>4. HeadIsCurrent(c)' /\ RestoredIsMarked(c)'
  BY <1>2 DEF HeadIsCurrent, RestoredIsMarked, HasRead
<1>5. (\A d \in Consoles : SeenOwed(c, d)') /\ OutgoingOwed(c)'
  BY <1>2 DEF SeenOwed, OutgoingOwed
<1>6. \A d \in Consoles : ChainFollows(d) /\ \A a : AwaitedOn(a, d) => AwaitedOn(a, d)'
  BY <1>1, ChainRests
<1> QED
  BY <1>1, <1>2, <1>3, <1>4, <1>5, <1>6, BootQuietly

\* The card is as new as what the boot saw, for it awaits no flush any more.
LEMMA CardReadKept ==
  ASSUME SaveInv, SavesKept, NEW c \in Consoles, CardRead(c) PROVE SavesKept'
<1>1. /\ QuietStep /\ tracked' = tracked /\ written' = written /\ chain' = chain
      /\ exposed' = exposed
      /\ InBoot(c, "restoring") /\ ~Awaiting(c)
  BY DEF CardRead, QuietStep, guardVars
<1>2. /\ boot[c] \in Boots /\ boot[c] # None /\ boot[c].step = "restoring"
      /\ boot[c].game \in Cards
  BY <1>1, BootIsRecord DEF SaveInv, BootsSound
<1>3. PICK g : g = boot[c].game
  OBVIOUS
<1>4. PICK r : /\ boot' = [boot EXCEPT ![c] = r]
               /\ r.game = g /\ r.step = "ready" /\ r.fresh = boot[c].fresh
               /\ r.outgoing = boot[c].outgoing /\ r.seen = Nothing
               /\ r.restored = card[g] \/ r.restored = boot[c].restored
  <2>1. CASE boot' = [boot EXCEPT ![c].step = "ready", ![c].restored = card[boot[c].game],
                                  ![c].seen = Nothing]
    <3>1. PICK r : r = [boot[c] EXCEPT !.step = "ready", !.restored = card[boot[c].game],
                                       !.seen = Nothing]
      OBVIOUS
    <3>2. /\ r.game = boot[c].game /\ r.step = "ready" /\ r.fresh = boot[c].fresh
          /\ r.outgoing = boot[c].outgoing /\ r.seen = Nothing /\ r.restored = card[boot[c].game]
      BY <1>2, <3>1 DEF Boots
    <3>3. boot' = [boot EXCEPT ![c] = r]
      BY <2>1, <3>1
    <3> QED
      BY <1>3, <3>2, <3>3
  <2>2. CASE boot' = [boot EXCEPT ![c].step = "ready", ![c].seen = Nothing]
    <3>1. PICK r : r = [boot[c] EXCEPT !.step = "ready", !.seen = Nothing]
      OBVIOUS
    <3>2. /\ r.game = boot[c].game /\ r.step = "ready" /\ r.fresh = boot[c].fresh
          /\ r.outgoing = boot[c].outgoing /\ r.seen = Nothing
          /\ r.restored = boot[c].restored
      BY <1>2, <3>1 DEF Boots
    <3>3. boot' = [boot EXCEPT ![c] = r]
      BY <2>2, <3>1
    <3> QED
      BY <1>3, <3>2, <3>3
  <2> QED
    BY <2>1, <2>2 DEF CardRead
<1>5. boot'[c] = r /\ \A b \in Consoles \ {c} : boot'[b] = boot[b]
  BY <1>4 DEF SaveInv, SaveTypeOK
<1>6. ~InBoot(c, "starting") /\ ~InBoot(c, "starting")'
  BY <1>2, <1>4, <1>5 DEF InBoot
<1>7. ConsoleKept(c) /\ ~HasRead(c) /\ ~AwaitedOn(c, c)
  BY <1>1, <1>2 DEF SavesKept, HasRead, Awaiting, AwaitedOn
<1>8. boot[c].restored = None
  BY <1>2, <1>7 DEF ConsoleKept, Played
<1>9. ASSUME r.restored # None
      PROVE  r.restored = card[g] /\ r.restored \in Records /\ r.restored.memory <= plays
  <2>1. r.restored = card[g] /\ card[g] # None
    BY <1>4, <1>8, <1>9
  <2> QED
    BY <1>2, <1>3, <2>1, CardTyped DEF SavesKept, PlayedMemory
<1>10. boot'[c] # None /\ boot'[c].restored # None =>
         HasRead(c)' /\ boot'[c].restored.memory <= plays /\ boot'[c].game \in Cards
  BY <1>2, <1>3, <1>4, <1>5, <1>9 DEF HasRead
<1>11. HeadIsCurrent(c)'
  BY <1>1, <1>2, <1>3, <1>4, <1>5, <1>7 DEF HeadIsCurrent, HeadOn, ConsoleKept
<1>12. RestoredIsMarked(c)'
  <2> SUFFICES ASSUME r.restored # None PROVE RestoredIsMarked(c)'
    BY <1>5 DEF RestoredIsMarked
  <2>1. PICK m : m = r.restored.memory
    OBVIOUS
  <2>2. Current(c, g, m)'
    <3>1. card'[g] # None /\ card'[g].memory = m /\ m \in Nat
      BY <1>1, <1>2, <1>3, <1>9, <2>1, CardTyped DEF QuietStep
    <3> QED
      BY <3>1 DEF Current
  <2> QED
    BY <1>4, <1>5, <2>1, <2>2 DEF RestoredIsMarked
<1>13. \A d \in Consoles : SeenOwed(c, d)'
  BY <1>4, <1>5 DEF SeenOwed, Nothing
<1>14. OutgoingFollows(c)
  BY <1>1, <1>2, <1>4, <1>5 DEF OutgoingFollows, Expects, AwaitedOn
<1>15. \A d \in Consoles : ChainFollows(d) /\ \A a : AwaitedOn(a, d) => AwaitedOn(a, d)'
  BY <1>1, ChainRests
<1> QED
  BY <1>1, <1>5, <1>6, <1>10, <1>11, <1>12, <1>13, <1>14, <1>15, BootQuietly

\* What the boot replaces is paid for by the flush it asks for.
LEMMA HandOverKept ==
  ASSUME SaveInv, SavesKept, NEW c \in Consoles, HandOver(c) PROVE SavesKept'
<1>1. /\ QuietStep /\ tracked' = tracked /\ written' = written /\ exposed' = exposed
      /\ InBoot(c, "ready") /\ worker' = worker /\ rack' = rack
  BY DEF HandOver, QuietStep, countVars
<1>2. boot[c] \in Boots /\ boot[c] # None /\ boot[c].step = "ready"
  BY <1>1, BootIsRecord
<1>3. ~AwaitedOn(c, c)
  BY <1>2, NobodyAwaited DEF Waits, Awaiting, AwaitedOn
<1>4. PICK r : /\ boot' = [boot EXCEPT ![c] = r]
               /\ r.game = boot[c].game /\ r.step = "flushed" /\ r.fresh = boot[c].fresh
               /\ r.restored = boot[c].restored /\ r.seen = boot[c].seen
               /\ IF c = Primary /\ ~boot[c].fresh
                  THEN r.outgoing = boot[c].outgoing /\ chain' = chain
                  ELSE /\ r.outgoing = Outgoing(c)
                       /\ chain' = [chain EXCEPT ![c] = chain[c] \o Flush(c, c, FALSE)]
  <2>1. CASE c = Primary /\ ~boot[c].fresh
    <3>1. PICK r : r = [boot[c] EXCEPT !.step = "flushed"]
      OBVIOUS
    <3>2. /\ r.game = boot[c].game /\ r.step = "flushed" /\ r.fresh = boot[c].fresh
          /\ r.restored = boot[c].restored /\ r.seen = boot[c].seen
          /\ r.outgoing = boot[c].outgoing
      BY <1>2, <3>1 DEF Boots
    <3>3. boot' = [boot EXCEPT ![c] = r] /\ chain' = chain
      BY <2>1, <3>1 DEF HandOver
    <3> QED
      BY <2>1, <3>2, <3>3
  <2>2. CASE ~(c = Primary /\ ~boot[c].fresh)
    <3>1. PICK r : r = [boot[c] EXCEPT !.step = "flushed", !.outgoing = Outgoing(c)]
      OBVIOUS
    <3>2. /\ r.game = boot[c].game /\ r.step = "flushed" /\ r.fresh = boot[c].fresh
          /\ r.restored = boot[c].restored /\ r.seen = boot[c].seen
          /\ r.outgoing = Outgoing(c)
      BY <1>2, <3>1 DEF Boots
    <3>3. /\ boot' = [boot EXCEPT ![c] = r]
          /\ chain' = [chain EXCEPT ![c] = chain[c] \o Flush(c, c, FALSE)]
      BY <2>2, <3>1 DEF HandOver
    <3> QED
      BY <2>2, <3>2, <3>3
  <2> QED
    BY <2>1, <2>2
<1>5. boot'[c] = r /\ \A b \in Consoles \ {c} : boot'[b] = boot[b]
  BY <1>4 DEF SaveInv, SaveTypeOK
<1>6. ~InBoot(c, "starting") /\ ~InBoot(c, "starting")'
  BY <1>2, <1>4, <1>5 DEF InBoot
<1>7. \A d \in Consoles : ChainFollows(d) /\ \A a : AwaitedOn(a, d) => AwaitedOn(a, d)'
  <2> SUFFICES ASSUME NEW d \in Consoles
               PROVE  ChainFollows(d) /\ \A a : AwaitedOn(a, d) => AwaitedOn(a, d)'
    OBVIOUS
  <2>1. chain'[d] = chain[d] \/ (d = c /\ chain'[d] = chain[d] \o Flush(d, c, FALSE))
    BY <1>4 DEF SaveInv, SaveTypeOK
  <2> QED
    BY <2>1, ChainRests, ChainIsFlushed
<1>8. boot'[c] # None /\ boot'[c].restored # None =>
         HasRead(c)' /\ boot'[c].restored.memory <= plays /\ boot'[c].game \in Cards
  <2>1. boot[c].restored # None =>
           boot[c].restored.memory <= plays /\ boot[c].game \in Cards
    BY <1>2 DEF SavesKept, ConsoleKept, Played
  <2> QED
    BY <1>4, <1>5, <2>1 DEF HasRead
<1>9. HeadFollows(c) /\ HasRead(c) /\ HeadIsCurrent(c) /\ IdentityStays(c)
      /\ CurrentsStay(c) /\ Played(c)
  <2>1. HeadFollows(c)
    BY <1>1, <1>7 DEF HeadFollows, ChainFollows, CanStore, Bytes, Alive
  <2> QED
    BY <1>1, <1>2, <2>1, QuietConsole DEF HasRead, SavesKept, ConsoleKept, IdentityStays
<1>10. HeadIsCurrent(c)'
  BY <1>1, <1>2, <1>4, <1>5, <1>7, <1>9, HeadStaysCurrent
<1>11. ASSUME c \notin exposed' PROVE RestoredIsMarked(c)'
  <2>1. RestoredIsMarked(c)
    BY <1>1, <1>11 DEF SavesKept, ConsoleKept
  <2> QED
    BY <1>4, <1>5, <1>9, <2>1, RestoredStaysMarked DEF SaveInv
<1>12. \A d \in Consoles : SeenFollows(c, d)
  BY <1>2, <1>4, <1>5, <1>7 DEF SeenFollows
<1>13. OutgoingOwed(c)' \/ OutgoingFollows(c)
  <2>1. CASE c = Primary /\ ~boot[c].fresh
    BY <1>2, <1>4, <1>5, <1>7, <2>1 DEF OutgoingFollows, Expects
  <2>2. CASE ~(c = Primary /\ ~boot[c].fresh)
    <3> SUFFICES ASSUME Outgoing(c) # None PROVE OutgoingOwed(c)'
      BY <1>4, <1>5, <2>2 DEF OutgoingOwed
    <3>1. PICK g : g = Outgoing(c).game
      OBVIOUS
    <3>2. PICK v : v = Outgoing(c).memory
      OBVIOUS
    <3>3. /\ tracked[c] # None /\ g = tracked[c].game
          /\ v = Memory(c) /\ Memory(c) # 0
      BY <1>6, <3>1, <3>2, OutgoingTracked
    <3>4. PICK retire : retire = FALSE
      OBVIOUS
    <3>5. chain'[c] = chain[c] \o Flush(c, c, retire)
      BY <1>4, <2>2, <3>4 DEF SaveInv, SaveTypeOK
    <3>6. AtTheEnd(c, c, FALSE)
      BY <3>4, <3>5, ChainIsAsked
    <3>7. Memory(c)' = Memory(c) /\ tracked'[c] = tracked[c]
      BY <1>1 DEF Memory, Alive
    <3>8. Owed(c, c, g, v)'
      BY <1>3, <3>3, <3>6, <3>7, FlushOwed
    <3> QED
      BY <1>4, <1>5, <2>2, <3>1, <3>2, <3>8 DEF OutgoingOwed, Owed
  <2> QED
    BY <2>1, <2>2
<1> QED
  BY <1>1, <1>5, <1>6, <1>7, <1>8, <1>10, <1>11, <1>12, <1>13, BootQuietly

\* A boot that reads a card asks for a flush of all there is in memory.
LEMMA BootBeginsKept ==
  ASSUME SaveInv, SavesKept, NEW c \in Consoles, NEW g \in Games, NEW fresh \in BOOLEAN,
         BootBegins(c, g, fresh)
  PROVE  SavesKept'
<1>1. /\ QuietStep /\ tracked' = tracked /\ written' = written /\ exposed' = exposed
      /\ worker' = worker /\ rack' = rack /\ boot[c] = None
      /\ Path(c, g, fresh)
      /\ chain' = IF g \in Cards THEN FlushAll(c) ELSE chain
  BY DEF BootBegins, QuietStep
<1>2. PICK r : /\ boot' = [boot EXCEPT ![c] = r]
               /\ r.game = g /\ r.fresh = fresh /\ r.restored = None
               /\ r.step = IF g \in Cards THEN "restoring" ELSE "ready"
               /\ r.outgoing = Outgoing(c) /\ r.seen = InMemory(g)
  <2>1. PICK r : r = [game |-> g, fresh |-> fresh,
                      step |-> IF g \in Cards THEN "restoring" ELSE "ready",
                      restored |-> None, worker |-> 0, outgoing |-> Outgoing(c),
                      seen |-> InMemory(g)]
    OBVIOUS
  <2>2. boot' = [boot EXCEPT ![c] = r]
    BY <2>1 DEF BootBegins
  <2>3. /\ r.game = g /\ r.fresh = fresh /\ r.restored = None
        /\ r.step = IF g \in Cards THEN "restoring" ELSE "ready"
        /\ r.outgoing = Outgoing(c) /\ r.seen = InMemory(g)
    BY <2>1
  <2> QED
    BY <2>2, <2>3
<1>3. boot'[c] = r /\ \A b \in Consoles \ {c} : boot'[b] = boot[b]
  BY <1>2 DEF SaveInv, SaveTypeOK
<1>4. \A d \in Consoles : ~AwaitedOn(c, d)
  BY <1>1, NobodyAwaited DEF Waits, Awaiting, AwaitedOn
<1>5. ~InBoot(c, "starting") /\ ~InBoot(c, "starting")'
  BY <1>1, <1>2, <1>3 DEF InBoot
<1>6. ASSUME NEW d \in Consoles, g \in Cards PROVE AtTheEnd(d, c, FALSE)
  <2>1. PICK retire : retire = FALSE
    OBVIOUS
  <2>2. chain'[d] = chain[d] \o Flush(d, c, retire)
    BY <1>1, <1>6, <2>1 DEF FlushAll
  <2> QED
    BY <2>1, <2>2, ChainIsAsked
<1>7. ASSUME NEW d \in Consoles
      PROVE  ChainFollows(d) /\ \A a : AwaitedOn(a, d) => AwaitedOn(a, d)'
  <2>1. CASE g \in Cards
    BY <1>6, <2>1 DEF ChainFollows, AtTheEnd
  <2>2. CASE g \notin Cards
    <3>1. chain'[d] = chain[d]
      BY <1>1, <2>2
    <3> QED
      BY <3>1, ChainRests
  <2> QED
    BY <2>1, <2>2
<1>8. boot'[c].restored = None /\ RestoredIsMarked(c)'
  BY <1>2, <1>3 DEF RestoredIsMarked
<1>9. HeadIsCurrent(c)'
  <2> SUFFICES ASSUME g \in Cards, tracked'[c] # None, HasRead(c)' \/ ~AwaitedOn(c, c)'
               PROVE  FALSE
    BY <1>2, <1>3 DEF HeadIsCurrent
  <2>1. ~HasRead(c)'
    BY <1>2, <1>3 DEF HasRead
  <2>2. AwaitedOn(c, c)'
    BY <1>1, <1>6 DEF AtTheEnd
  <2> QED
    BY <2>1, <2>2
<1>10. ASSUME NEW d \in Consoles, g \in Cards, tracked[d] # None, Memory(d) # 0,
              NEW h, h = tracked[d].game, NEW v, v = Memory(d)
       PROVE  Owed(c, d, h, v)'
  <2>1. Memory(d)' = Memory(d) /\ tracked'[d] = tracked[d]
    BY <1>1 DEF Memory, Alive
  <2>2. AtTheEnd(d, c, FALSE) /\ ~AwaitedOn(c, d)
    BY <1>4, <1>6, <1>10
  <2> QED
    BY <1>10, <2>1, <2>2, FlushOwed
<1>11. ASSUME NEW d \in Consoles PROVE SeenOwed(c, d)'
  <2> SUFFICES ASSUME r.seen[d] # 0 PROVE SeenOwed(c, d)'
    BY <1>3 DEF SeenOwed
  <2>1. PICK v : v = r.seen[d]
    OBVIOUS
  <2>2. /\ tracked[d] # None /\ tracked[d].game = g /\ Memory(d) # 0 /\ v = Memory(d)
        /\ g \in Cards
    BY <1>2, <2>1, IdentityTyped DEF InMemory
  <2>3. Owed(c, d, g, v)'
    BY <1>10, <2>2
  <2> QED
    BY <1>2, <1>3, <2>1, <2>3 DEF SeenOwed
<1>12. OutgoingOwed(c)'
  <2> SUFFICES ASSUME Outgoing(c) # None, ~fresh PROVE OutgoingOwed(c)'
    BY <1>2, <1>3 DEF OutgoingOwed
  <2>1. g \in Cards
    BY <1>1 DEF Path
  <2>2. PICK h : h = Outgoing(c).game
    OBVIOUS
  <2>3. PICK v : v = Outgoing(c).memory
    OBVIOUS
  <2>4. /\ tracked[c] # None /\ h = tracked[c].game
        /\ v = Memory(c) /\ Memory(c) # 0
    BY <1>5, <2>2, <2>3, OutgoingTracked
  <2>5. Owed(c, c, h, v)'
    BY <1>10, <2>1, <2>4
  <2> QED
    BY <1>2, <1>3, <2>2, <2>3, <2>5 DEF OutgoingOwed
<1> QED
  BY <1>1, <1>3, <1>5, <1>7, <1>8, <1>9, <1>11, <1>12, BootQuietly

\* Of the boots and the workers only those of c change, and nobody is owed more of the others.
OnlyBoots(c) ==
  /\ card' = card /\ plays' = plays /\ exposed' = exposed
  /\ \A d \in Consoles \ {c} :
       /\ IdentityStays(d) /\ rack'[d] = rack[d] /\ chain'[d] = chain[d]
       /\ SameBoot(d)
       /\ boot[d] # None => /\ boot'[d].restored = boot[d].restored
                            /\ boot'[d].outgoing = boot[d].outgoing
  /\ \A b \in Consoles : boot'[b] # None =>
       /\ boot[b] # None /\ boot'[b].game = boot[b].game
       /\ \A d \in Consoles \ {c} : boot'[b].seen[d] = boot[b].seen[d]
  /\ \A w \in DOMAIN worker : Uses(c, w) \/ worker'[w] = worker[w]
  /\ GamesStay

LEMMA OthersKept ==
  ASSUME SaveInv, SavesKept, NEW c \in Consoles, OnlyBoots(c)
  PROVE  /\ \A d \in Consoles \ {c} : ConsoleKept(d)' /\ DebtsKept(d)'
         /\ CurrentsStay(c) /\ GamesStay /\ plays \in Nat /\ plays' = plays
         /\ exposed' = exposed
<1> USE DEF OnlyBoots
<1>1. GamesStay /\ plays \in Nat /\ plays' = plays /\ exposed' = exposed
  BY CountersTyped
<1>2. \A d \in Consoles : CurrentsStay(d)
  BY DEF CurrentsStay, Current
<1>3. ASSUME NEW d \in Consoles \ {c} PROVE ConsoleKept(d)' /\ DebtsKept(d)'
  <2>1. WorkersRest(d)
    BY DEF WorkersRest, SavesKept, OwnWorkers
  <2>2. ChainFollows(d) /\ HeadOn(d)' = HeadOn(d) /\ \A a : AwaitedOn(a, d)' = AwaitedOn(a, d)
    BY ChainRests
  <2>3. StandsBy(d)
    BY <2>1, <2>2 DEF StandsBy
  <2>4. PlayedMemory /\ ConsoleKept(d) /\ DebtsKept(d)
    BY DEF SavesKept
  <2>5. ConsoleKept(d)' /\ SessionFollows(d) /\ HeadStays(d) /\ Memory(d)' = Memory(d)
    BY <1>1, <1>2, <2>3, <2>4, StandingByKept
  <2>6. InSession(d)' => Memory(d)' >= Memory(d) /\ Memory(d)' \in Nat
    BY <2>5, MemoryTyped, SaveConstants
  <2>7. (\A b \in Consoles : SeenFollows(b, d)) /\ OutgoingFollows(d)
    BY <2>2 DEF SeenFollows, OutgoingFollows, Expects, SameBoot
  <2>8. tracked'[d] = tracked[d]
    BY DEF IdentityStays
  <2> QED
    BY <1>1, <1>2, <2>2, <2>4, <2>5, <2>6, <2>7, <2>8, AllDebtsStay
<1> QED
  BY <1>1, <1>2, <1>3

\* The core that comes up has what the boot restores.
LEMMA CoreUpKept ==
  ASSUME SaveInv, SavesKept, NEW c \in Consoles, CoreUp(c) PROVE SavesKept'
<1>1. /\ rack' = rack /\ boot' = boot /\ card' = card /\ tracked' = tracked
      /\ written' = written /\ chain' = chain /\ exposed' = exposed /\ plays' = plays
      /\ InBoot(c, "starting") /\ worker[boot[c].worker].state = "booting"
  BY DEF CoreUp, guardVars, countVars
<1>2. PICK w : w = boot[c].worker
  OBVIOUS
<1>3. /\ boot[c] # None /\ boot[c].step = "starting" /\ boot[c] \in Boots
      /\ w \in DOMAIN worker /\ w # 0 /\ worker[w].state = "booting"
      /\ worker[w].game = boot[c].game
      /\ ~boot[c].fresh => rack[c] = w
  BY <1>1, <1>2, StartingTyped, BootIsRecord
<1>4. PICK m : m = IF boot[c].restored = None THEN 0 ELSE boot[c].restored.memory
  OBVIOUS
<1>5. PICK h : h = [worker[w] EXCEPT !.state = "up", !.memory = m]
  OBVIOUS
<1>6. worker' = [worker EXCEPT ![w] = h]
  <2>1. worker' = [worker EXCEPT ![w].state = "up", ![w].memory = m]
    BY <1>2, <1>4 DEF CoreUp
  <2> QED
    BY <1>5, <2>1
<1>7. worker \in Seq(Hosted) /\ worker[w] \in Hosted
  BY <1>3 DEF SaveInv, SaveTypeOK
<1>8. h.state = "up" /\ h.memory = m /\ h.game = worker[w].game
  BY <1>5, <1>7 DEF Hosted
<1>9. /\ DOMAIN worker' = DOMAIN worker
      /\ \A x \in DOMAIN worker : worker'[x] = IF x = w THEN h ELSE worker[x]
  <2> HIDE DEF Hosted
  <2> QED
    BY <1>3, <1>6, <1>7
<1>10. ConsoleKept(c) /\ Played(c) /\ BootsApart(c) /\ StaysTracked(c) /\ HeadIsCurrent(c)
  BY DEF SavesKept, ConsoleKept
<1>11. HasRead(c)
  BY <1>3 DEF HasRead
<1>12. m <= plays /\ (m # 0 => boot[c].restored # None /\ m = boot[c].restored.memory
                               /\ boot[c].game \in Cards)
  BY <1>3, <1>4, <1>10, CountersTyped DEF Played
<1>13. Uses(c, w)
  BY <1>1, <1>2, <1>3 DEF Uses
<1>14. OnlyBoots(c)
  BY <1>1, <1>8, <1>9, <1>13 DEF OnlyBoots, IdentityStays, SameBoot, GamesStay
<1>15. /\ \A d \in Consoles \ {c} : ConsoleKept(d)' /\ DebtsKept(d)'
       /\ CurrentsStay(c) /\ GamesStay /\ plays \in Nat
  BY <1>14, OthersKept
<1>16. PlayedMemory'
  BY <1>1, <1>3, <1>8, <1>9, <1>12 DEF SavesKept, PlayedMemory
<1>17. OwnWorkers'
  BY <1>1, <1>9 DEF SavesKept, OwnWorkers, Uses, InBoot, HeadOn
<1>18. /\ BetweenGames(c)' = BetweenGames(c) /\ Alive(rack[c])' = Alive(rack[c])
       /\ ~BetweenGames(c) => rack[c] # w /\ Memory(c)' = Memory(c)
  <2>1. BetweenGames(c)' = BetweenGames(c)
    BY <1>1 DEF BetweenGames, InBoot
  <2>2. rack[c] # 0 => rack[c] \in DOMAIN worker
    BY DEF SaveInv, SaveTypeOK
  <2>3. ~BetweenGames(c) => rack[c] # w
    BY <1>1, <1>2, <1>10 DEF BetweenGames, BootsApart
  <2>4. Alive(rack[c])' = Alive(rack[c])
    BY <1>1, <1>3, <1>8, <1>9, <2>2 DEF Alive
  <2> QED
    BY <1>1, <1>9, <2>1, <2>2, <2>3, <2>4 DEF Memory, Alive
<1>19. ChainFollows(c) /\ HeadOn(c)' = HeadOn(c) /\ \A a : AwaitedOn(a, c)' = AwaitedOn(a, c)
  BY <1>1, ChainRests
<1>20. ASSUME HeadOn(c)
       PROVE  /\ chain[c][1].worker \in DOMAIN worker
              /\ Alive(chain[c][1].worker)' = Alive(chain[c][1].worker)
  <2>1. chain[c][1].worker \in DOMAIN worker
    BY <1>20, HeadTyped
  <2> QED
    BY <1>1, <1>3, <1>8, <1>9, <2>1 DEF Alive
<1>21. SessionFollows(c) /\ HeadStays(c)
  BY <1>1, <1>18, <1>19, <1>20 DEF SessionFollows, HeadStays
<1>22. ConsoleKept(c)'
  <2>1. Played(c)'
    BY <1>1, <1>10 DEF Played, HeadOn, HasRead
  <2>2. BootsApart(c)'
    <3>1. Alive(rack[c]) => rack[c] \in DOMAIN worker
      BY DEF Alive, SaveInv, SaveTypeOK
    <3> QED
      BY <1>1, <1>8, <1>9, <1>10, <1>18, <1>19, <1>20, <3>1 DEF BootsApart, InBoot
  <2>3. StaysTracked(c)'
    BY <1>1, <1>10, <1>15, <1>19, <1>21, StillTracked
  <2>4. HeadIsCurrent(c)'
    BY <1>1, <1>10 DEF HeadIsCurrent, HeadOn, HasRead, AwaitedOn
  <2>5. ASSUME c \notin exposed
        PROVE  RestoredIsMarked(c)' /\ BootIsMarked(c)' /\ RunIsMarked(c)'
    <3>1. RestoredIsMarked(c) /\ BootIsMarked(c) /\ RunIsMarked(c)
      BY <1>10, <2>5 DEF ConsoleKept
    <3>2. RestoredIsMarked(c)'
      BY <1>1, <3>1 DEF RestoredIsMarked, HasRead, HeadOn, Current
    <3>3. BootIsMarked(c)'
      <4> SUFFICES ASSUME m # 0 PROVE BootIsMarked(c)'
        BY <1>1, <1>2, <1>3, <1>8, <1>9 DEF BootIsMarked
      <4>1. PICK g : g = boot[c].game
        OBVIOUS
      <4>2. boot[c].restored # None /\ m = boot[c].restored.memory
        BY <1>12
      <4>3. \/ tracked[c] # None /\ tracked[c].game # g
            \/ HeadOn(c) /\ chain[c][1].game # g
            \/ tracked[c] # None /\ tracked[c].game = g /\ written[c] = m
            => Current(c, g, m)
        BY <1>11, <3>1, <4>1, <4>2 DEF RestoredIsMarked
      <4>4. worker'[boot[c].worker].memory = m
        BY <1>2, <1>3, <1>8, <1>9
      <4> QED
        BY <1>1, <1>19, <4>1, <4>2, <4>3, <4>4 DEF BootIsMarked, Elsewhere, Current
    <3>4. HeadFollows(c)
      <4> SUFFICES ASSUME HeadOn(c) PROVE HeadFollows(c)
        BY <1>19 DEF HeadFollows
      <4>1. chain[c][1].worker # w
        BY <1>3, <1>10, <2>5 DEF BootsApart
      <4>2. worker'[chain[c][1].worker] = worker[chain[c][1].worker]
        BY <1>9, <1>20, <4>1
      <4> QED
        BY <1>1, <4>2 DEF HeadFollows, CanStore, Bytes, Alive
    <3>5. RunIsMarked(c)'
      <4>1. InSession(c)' => Memory(c)' = Memory(c)
        BY <1>18 DEF InSession
      <4>2. IdentityStays(c)
        BY <1>1 DEF IdentityStays
      <4> QED
        BY <1>15, <1>21, <3>1, <3>4, <4>1, <4>2, RunStaysMarked
    <3> QED
      BY <3>2, <3>3, <3>5
  <2> QED
    BY <1>1, <2>1, <2>2, <2>3, <2>4, <2>5 DEF ConsoleKept
<1>23. DebtsKept(c)'
  <2>1. InSession(c)' => Memory(c)' >= Memory(c) /\ Memory(c)' \in Nat
    BY <1>18, MemoryTyped, SaveConstants DEF InSession
  <2>2. (\A b \in Consoles : SeenFollows(b, c)) /\ OutgoingFollows(c)
    BY <1>1, <1>19 DEF SeenFollows, OutgoingFollows, Expects
  <2> QED
    BY <1>1, <1>15, <1>19, <1>21, <2>1, <2>2, AllDebtsStay DEF SavesKept
<1> QED
  BY <1>15, <1>16, <1>17, <1>22, <1>23 DEF SavesKept

\* A boot that fails leaves a fresh console as it was, and a hot one without a core.
LEMMA BootFailsKept ==
  ASSUME SaveInv, SavesKept, NEW c \in Consoles, BootFails(c) PROVE SavesKept'
<1>1. /\ rack' = rack /\ card' = card /\ tracked' = tracked
      /\ written' = written /\ chain' = chain /\ exposed' = exposed /\ plays' = plays
      /\ InBoot(c, "starting") /\ worker[boot[c].worker].state = "booting"
      /\ boot' = [boot EXCEPT ![c] = None]
  BY DEF BootFails, guardVars
<1>2. PICK w : w = boot[c].worker
  OBVIOUS
<1>3. /\ boot[c] # None /\ w \in DOMAIN worker /\ w # 0 /\ worker[w].state = "booting"
      /\ ~boot[c].fresh => rack[c] = w
  BY <1>1, <1>2, StartingTyped
<1>4. boot'[c] = None /\ \A b \in Consoles \ {c} : boot'[b] = boot[b]
  BY <1>1 DEF SaveInv, SaveTypeOK
<1>5. PICK h : h = [worker[w] EXCEPT !.state = "gone"]
  OBVIOUS
<1>6. worker' = [worker EXCEPT ![w] = h]
  <2>1. worker' = [worker EXCEPT ![w].state = "gone"]
    BY <1>2 DEF BootFails
  <2> QED
    BY <1>5, <2>1
<1>7. worker \in Seq(Hosted) /\ worker[w] \in Hosted
  BY <1>3 DEF SaveInv, SaveTypeOK
<1>8. h.state = "gone" /\ h.memory = worker[w].memory /\ h.game = worker[w].game
  BY <1>5, <1>7 DEF Hosted
<1>9. /\ DOMAIN worker' = DOMAIN worker
      /\ \A x \in DOMAIN worker : worker'[x] = IF x = w THEN h ELSE worker[x]
  <2> HIDE DEF Hosted
  <2> QED
    BY <1>3, <1>6, <1>7
<1>10. ConsoleKept(c) /\ Played(c) /\ BootsApart(c) /\ StaysTracked(c) /\ HeadIsCurrent(c)
  BY DEF SavesKept, ConsoleKept
<1>11. Uses(c, w)
  BY <1>1, <1>2, <1>3 DEF Uses
<1>12. OnlyBoots(c)
  <2>1. GamesStay
    BY <1>8, <1>9 DEF GamesStay
  <2> QED
    BY <1>1, <1>4, <1>9, <1>11, <2>1 DEF OnlyBoots, IdentityStays, SameBoot
<1>13. /\ \A d \in Consoles \ {c} : ConsoleKept(d)' /\ DebtsKept(d)'
       /\ CurrentsStay(c) /\ GamesStay /\ plays \in Nat
  BY <1>12, OthersKept
<1>14. PlayedMemory'
  BY <1>1, <1>8, <1>9 DEF SavesKept, PlayedMemory
<1>15. OwnWorkers'
  <2>1. \A d \in Consoles : \A x : Uses(d, x)' => Uses(d, x)
    BY <1>1, <1>4 DEF Uses, InBoot, HeadOn
  <2> QED
    BY <2>1, UsedIsWorker DEF SavesKept, OwnWorkers
<1>16. ~BetweenGames(c)' /\ ~HasRead(c)' /\ ~CoreIsUp(c)' /\ ~InBoot(c, "starting")'
  BY <1>4 DEF BetweenGames, InBoot, HasRead, CoreIsUp
<1>17. Alive(rack[c])' =>
         Alive(rack[c]) /\ rack[c] # w /\ ~BetweenGames(c) /\ Memory(c)' = Memory(c)
         /\ rack[c] \in DOMAIN worker
  <2> SUFFICES ASSUME Alive(rack[c])'
               PROVE  Alive(rack[c]) /\ rack[c] # w /\ ~BetweenGames(c)
                      /\ Memory(c)' = Memory(c) /\ rack[c] \in DOMAIN worker
    OBVIOUS
  <2>1. rack[c] # 0 /\ rack[c] \in DOMAIN worker
    BY <1>1 DEF Alive, SaveInv, SaveTypeOK
  <2>2. rack[c] # w
    BY <1>1, <1>8, <1>9, <2>1 DEF Alive
  <2>3. worker'[rack[c]] = worker[rack[c]]
    BY <1>9, <2>1, <2>2
  <2> QED
    BY <1>1, <1>3, <2>1, <2>2, <2>3 DEF Alive, Memory, BetweenGames
<1>18. ChainFollows(c) /\ HeadOn(c)' = HeadOn(c) /\ \A a : AwaitedOn(a, c)' = AwaitedOn(a, c)
  BY <1>1, ChainRests
<1>19. ASSUME HeadOn(c)
       PROVE  /\ chain[c][1].worker \in DOMAIN worker
              /\ Alive(chain[c][1].worker)' => Alive(chain[c][1].worker)
  <2>1. chain[c][1].worker \in DOMAIN worker
    BY <1>19, HeadTyped
  <2> QED
    BY <1>1, <1>3, <1>8, <1>9, <2>1 DEF Alive
<1>20. SessionFollows(c) /\ HeadStays(c)
  BY <1>1, <1>16, <1>17, <1>18, <1>19 DEF SessionFollows, HeadStays
<1>21. ConsoleKept(c)'
  <2>1. Played(c)'
    BY <1>1, <1>4, <1>10 DEF Played, HeadOn
  <2>2. BootsApart(c)'
    <3>1. ~(Alive(rack[c])' /\ worker'[rack[c]].state = "booting")
      BY <1>9, <1>10, <1>17 DEF BootsApart
    <3>2. c \notin exposed /\ HeadOn(c) => worker'[chain[c][1].worker].state # "booting"
      BY <1>8, <1>9, <1>10, <1>19 DEF BootsApart
    <3> QED
      BY <1>1, <1>16, <1>18, <3>1, <3>2 DEF BootsApart
  <2>3. StaysTracked(c)'
    BY <1>1, <1>10, <1>13, <1>18, <1>20, StillTracked
  <2>4. HeadIsCurrent(c)' /\ RestoredIsMarked(c)' /\ BootIsMarked(c)'
    BY <1>4, <1>16 DEF HeadIsCurrent, RestoredIsMarked, BootIsMarked
  <2>5. ASSUME c \notin exposed PROVE RunIsMarked(c)'
    <3>1. RunIsMarked(c)
      BY <1>10, <2>5 DEF ConsoleKept
    <3>2. HeadFollows(c)
      <4> SUFFICES ASSUME HeadOn(c) PROVE HeadFollows(c)
        BY <1>18 DEF HeadFollows
      <4>1. chain[c][1].worker # w
        BY <1>3, <1>10, <2>5 DEF BootsApart
      <4>2. worker'[chain[c][1].worker] = worker[chain[c][1].worker]
        BY <1>9, <1>19, <4>1
      <4> QED
        BY <1>1, <4>2 DEF HeadFollows, CanStore, Bytes, Alive
    <3>3. InSession(c)' => Memory(c)' = Memory(c)
      BY <1>1, <1>17 DEF InSession
    <3>4. IdentityStays(c)
      BY <1>1 DEF IdentityStays
    <3> QED
      BY <1>13, <1>20, <3>1, <3>2, <3>3, <3>4, RunStaysMarked
  <2> QED
    BY <1>1, <2>1, <2>2, <2>3, <2>4, <2>5 DEF ConsoleKept
<1>22. DebtsKept(c)'
  <2>1. InSession(c)' => Memory(c)' >= Memory(c) /\ Memory(c)' \in Nat
    BY <1>1, <1>17, MemoryTyped, SaveConstants DEF InSession
  <2>2. (\A b \in Consoles : SeenFollows(b, c)) /\ OutgoingFollows(c)
    BY <1>4, <1>18 DEF SeenFollows, OutgoingFollows
  <2> QED
    BY <1>1, <1>13, <1>18, <1>20, <2>1, <2>2, AllDebtsStay DEF SavesKept
<1> QED
  BY <1>13, <1>14, <1>15, <1>21, <1>22 DEF SavesKept

\* A core starts with nothing in its memory, in a worker that nobody has to do with; a hot
\* boot has stopped the one before it.
LEMMA CoreStartsKept ==
  ASSUME SaveInv, SavesKept, NEW c \in Consoles, CoreStarts(c) PROVE SavesKept'
<1>1. /\ card' = card /\ tracked' = tracked /\ plays' = plays
      /\ written' = written /\ chain' = chain /\ exposed' = exposed
      /\ InBoot(c, "flushed") /\ ~Awaiting(c)
      /\ rack' = IF boot[c].fresh THEN rack ELSE [rack EXCEPT ![c] = Len(worker')]
  BY DEF CoreStarts, guardVars, countVars
<1>2. boot[c] \in Boots /\ boot[c] # None /\ boot[c].step = "flushed"
  BY <1>1, BootIsRecord
<1>3. PICK h : h = [game |-> boot[c].game, memory |-> 0, state |-> "booting"]
  OBVIOUS
<1>4. h.game = boot[c].game /\ h.memory = 0 /\ h.state = "booting"
  BY <1>3
<1>5. PICK stopped : /\ worker' = Append(stopped, h)
                     /\ stopped = IF boot[c].fresh THEN worker
                                  ELSE [worker EXCEPT ![rack[c]].state = "gone",
                                                      ![rack[c]].memory = 0]
  BY <1>3 DEF CoreStarts
<1>6. worker \in Seq(Hosted) /\ DOMAIN worker = 1 .. Len(worker) /\ Len(worker) \in Nat
  BY DEF SaveInv, SaveTypeOK
<1>7. /\ stopped \in Seq(Hosted) /\ Len(stopped) = Len(worker)
      /\ \A w \in DOMAIN worker :
           /\ stopped[w].game = worker[w].game
           /\ \/ stopped[w] = worker[w]
              \/ ~boot[c].fresh /\ w = rack[c]
                 /\ stopped[w].state = "gone" /\ stopped[w].memory = 0
           /\ w = rack[c] /\ ~boot[c].fresh => stopped[w].state = "gone"
  <2>1. CASE boot[c].fresh
    BY <1>5, <1>6, <2>1
  <2>2. CASE ~boot[c].fresh /\ rack[c] \in DOMAIN worker
    <3>1. PICK q : q = [worker[rack[c]] EXCEPT !.state = "gone", !.memory = 0]
      OBVIOUS
    <3>2. worker[rack[c]] \in Hosted
      BY <1>6, <2>2
    <3>3. q.game = worker[rack[c]].game /\ q.state = "gone" /\ q.memory = 0 /\ q \in Hosted
      <4>1. 0 \in 0 .. MaxPlays
        BY SaveConstants
      <4>2. PICK p : p = worker[rack[c]]
        OBVIOUS
      <4> QED
        BY <3>1, <3>2, <4>1, <4>2 DEF Hosted
    <3>4. stopped = [worker EXCEPT ![rack[c]] = q]
      BY <1>5, <2>2, <3>1
    <3> HIDE DEF Hosted
    <3> QED
      BY <1>6, <2>2, <3>3, <3>4
  <2>3. CASE ~boot[c].fresh /\ rack[c] \notin DOMAIN worker
    <3>1. stopped = worker
      BY <1>5, <1>6, <2>3
    <3> QED
      BY <1>6, <2>3, <3>1
  <2> QED
    BY <2>1, <2>2, <2>3
<1>8. /\ Len(worker') = Len(worker) + 1 /\ worker'[Len(worker) + 1] = h
      /\ DOMAIN worker' = 1 .. (Len(worker) + 1)
      /\ \A w \in DOMAIN worker : w \in DOMAIN worker' /\ worker'[w] = stopped[w]
  <2> HIDE DEF Hosted
  <2> QED
    BY <1>5, <1>6, <1>7
<1>9. PICK n \in Nat : n = Len(worker') /\ n # 0 /\ n \notin DOMAIN worker
                       /\ worker'[n] = h /\ \A x \in DOMAIN worker' : x \in DOMAIN worker \/ x = n
  BY <1>6, <1>8
<1>10. PICK r : /\ boot' = [boot EXCEPT ![c] = r]
                /\ r.step = "starting" /\ r.worker = n /\ r.outgoing = None
                /\ r.game = boot[c].game /\ r.fresh = boot[c].fresh
                /\ r.restored = boot[c].restored /\ r.seen = boot[c].seen
                /\ r # None
  <2>1. PICK r : r = [boot[c] EXCEPT !.step = "starting", !.worker = n, !.outgoing = None]
    OBVIOUS
  <2>2. /\ r.step = "starting" /\ r.worker = n /\ r.outgoing = None
        /\ r.game = boot[c].game /\ r.fresh = boot[c].fresh
        /\ r.restored = boot[c].restored /\ r.seen = boot[c].seen /\ r \in Boots
    BY <1>2, <1>9, <2>1 DEF Boots
  <2>3. boot' = [boot EXCEPT ![c].step = "starting", ![c].worker = n, ![c].outgoing = None]
    BY <1>9 DEF CoreStarts
  <2>4. boot' = [boot EXCEPT ![c] = r]
    BY <2>1, <2>3
  <2> QED
    BY <2>2, <2>4, NoneIsApart
<1>11. boot'[c] = r /\ \A b \in Consoles \ {c} : boot'[b] = boot[b]
  BY <1>10 DEF SaveInv, SaveTypeOK
<1>12. /\ \A d \in Consoles \ {c} : rack'[d] = rack[d]
       /\ rack'[c] = IF boot[c].fresh THEN rack[c] ELSE n
       /\ rack[c] # 0 => rack[c] \in DOMAIN worker
  BY <1>1, <1>9 DEF SaveInv, SaveTypeOK
<1>13. ConsoleKept(c) /\ Played(c) /\ BootsApart(c) /\ StaysTracked(c) /\ HeadIsCurrent(c)
  BY DEF SavesKept, ConsoleKept
<1>14. ~BetweenGames(c) /\ HasRead(c) /\ BetweenGames(c)' = ~boot[c].fresh
  BY <1>2, <1>10, <1>11 DEF BetweenGames, InBoot, HasRead
<1>15. OnlyBoots(c)
  <2>1. \A w \in DOMAIN worker : Uses(c, w) \/ worker'[w] = worker[w]
    <3> SUFFICES ASSUME NEW w \in DOMAIN worker, w = rack[c] PROVE Uses(c, w)
      BY <1>7, <1>8
    <3> QED
      BY <1>6 DEF Uses
  <2>2. GamesStay
    BY <1>7, <1>8 DEF GamesStay
  <2> QED
    BY <1>1, <1>2, <1>10, <1>11, <1>12, <2>1, <2>2 DEF OnlyBoots, IdentityStays, SameBoot
<1>16. /\ \A d \in Consoles \ {c} : ConsoleKept(d)' /\ DebtsKept(d)'
       /\ CurrentsStay(c) /\ GamesStay /\ plays \in Nat
  BY <1>15, OthersKept
<1>17. PlayedMemory'
  <2>1. \A w \in DOMAIN worker' :
           worker'[w].memory <= plays /\ (worker'[w].memory # 0 => worker'[w].game \in Cards)
    BY <1>4, <1>7, <1>8, <1>9, <1>16 DEF SavesKept, PlayedMemory
  <2> QED
    BY <1>1, <2>1 DEF SavesKept, PlayedMemory
<1>18. OwnWorkers'
  <2>1. ASSUME NEW d \in Consoles, NEW w, Uses(d, w)' PROVE Uses(d, w) \/ (d = c /\ w = n)
    <3>1. CASE d = c
      BY <1>1, <1>10, <1>11, <1>12, <2>1, <3>1 DEF Uses, InBoot, HeadOn
    <3>2. CASE d # c
      BY <1>1, <1>11, <1>12, <2>1, <3>2 DEF Uses, InBoot, HeadOn
    <3> QED
      BY <3>1, <3>2
  <2>2. \A d \in Consoles : \A w : Uses(d, w)' => Uses(d, w) \/ w = n
    BY <2>1
  <2>3. \A d, e \in Consoles : Uses(d, n)' /\ Uses(e, n)' => d = e
    <3>1. \A d \in Consoles : ~Uses(d, n)
      BY <1>9, UsedIsWorker
    <3>2. \A d \in Consoles : Uses(d, n)' => d = c
      <4> SUFFICES ASSUME NEW d \in Consoles, Uses(d, n)', d # c PROVE FALSE
        OBVIOUS
      <4>1. Uses(d, n)
        BY <1>1, <1>11, <1>12 DEF Uses, InBoot, HeadOn
      <4> QED
        BY <3>1, <4>1
    <3> QED
      BY <3>2
  <2> QED
    BY <1>9, <2>2, <2>3, OwnersStay DEF SavesKept
<1>19. ChainFollows(c) /\ HeadOn(c)' = HeadOn(c) /\ \A a : AwaitedOn(a, c)' = AwaitedOn(a, c)
  BY <1>1, ChainRests
<1>20. ASSUME HeadOn(c)
       PROVE  /\ chain[c][1].worker \in DOMAIN worker
              /\ Alive(chain[c][1].worker)' =>
                   /\ Alive(chain[c][1].worker)
                   /\ worker'[chain[c][1].worker] = worker[chain[c][1].worker]
                   /\ chain[c][1].worker # rack[c] \/ boot[c].fresh
              /\ \/ worker'[chain[c][1].worker] = worker[chain[c][1].worker]
                 \/ worker'[chain[c][1].worker].state = "gone"
  <2>1. PICK w : w = chain[c][1].worker
    OBVIOUS
  <2>2. w \in DOMAIN worker /\ w # 0
    BY <1>20, <2>1, HeadTyped
  <2>3. \/ worker'[w] = worker[w] /\ (w # rack[c] \/ boot[c].fresh)
        \/ worker'[w].state = "gone"
    BY <1>7, <1>8, <2>2
  <2> QED
    BY <1>1, <2>1, <2>2, <2>3 DEF Alive
<1>21. boot[c].fresh => Alive(rack[c])' = Alive(rack[c]) /\ Memory(c)' = Memory(c)
                        /\ (rack[c] # 0 => worker'[rack[c]] = worker[rack[c]])
  <2> SUFFICES ASSUME boot[c].fresh
               PROVE  Alive(rack[c])' = Alive(rack[c]) /\ Memory(c)' = Memory(c)
                      /\ (rack[c] # 0 => worker'[rack[c]] = worker[rack[c]])
    OBVIOUS
  <2>1. rack' = rack /\ (rack[c] # 0 => worker'[rack[c]] = worker[rack[c]])
    BY <1>1, <1>7, <1>8, <1>12
  <2> QED
    BY <2>1 DEF Alive, Memory
<1>22. SessionFollows(c)
  BY <1>12, <1>14, <1>21 DEF SessionFollows
<1>23. HeadStays(c)
  BY <1>12, <1>14, <1>19, <1>20 DEF HeadStays
<1>24. ConsoleKept(c)'
  <2>1. Played(c)'
    BY <1>1, <1>2, <1>10, <1>11, <1>13 DEF Played, HeadOn, HasRead
  <2>2. BootsApart(c)'
    <3>1. ASSUME InBoot(c, "starting")', rack'[c] = boot'[c].worker PROVE ~boot'[c].fresh
      BY <1>9, <1>10, <1>11, <1>12, <3>1
    <3>2. ASSUME Alive(rack[c])', worker'[rack'[c]].state = "booting" PROVE BetweenGames(c)'
      <4> SUFFICES ASSUME boot[c].fresh PROVE FALSE
        BY <1>14
      <4>1. Alive(rack[c]) /\ worker[rack[c]].state = "booting"
        BY <1>12, <1>21, <3>2 DEF Alive
      <4> QED
        BY <1>13, <1>14, <4>1 DEF BootsApart
    <3>3. ASSUME c \notin exposed', HeadOn(c)'
          PROVE  worker'[chain'[c][1].worker].state # "booting"
      BY <1>1, <1>13, <1>19, <1>20, <3>3 DEF BootsApart
    <3> QED
      BY <3>1, <3>2, <3>3 DEF BootsApart
  <2>3. StaysTracked(c)'
    BY <1>1, <1>13, <1>16, <1>19, <1>22, StillTracked
  <2>4. HeadFollows(c)
    BY <1>1, <1>19, <1>20 DEF HeadFollows, CanStore, Bytes, HeadOn
  <2>5. HeadIsCurrent(c)'
    BY <1>1, <1>2, <1>10, <1>11, <1>13, <1>14, <1>19, <2>4, HeadStaysCurrent
  <2>6. BootIsMarked(c)'
    BY <1>4, <1>9, <1>10, <1>11 DEF BootIsMarked
  <2>7. ASSUME c \notin exposed PROVE RestoredIsMarked(c)' /\ RunIsMarked(c)'
    <3>1. RestoredIsMarked(c) /\ RunIsMarked(c)
      BY <1>13, <2>7 DEF ConsoleKept
    <3>2. IdentityStays(c)
      BY <1>1 DEF IdentityStays
    <3>3. RestoredIsMarked(c)'
      BY <1>2, <1>10, <1>11, <1>13, <1>14, <1>16, <2>4, <3>1, <3>2, RestoredStaysMarked
         DEF SaveInv
    <3>4. InSession(c)' => Memory(c)' = Memory(c)
      BY <1>14, <1>21 DEF InSession
    <3>5. RunIsMarked(c)'
      BY <1>16, <1>22, <2>4, <3>1, <3>2, <3>4, RunStaysMarked
    <3> QED
      BY <3>3, <3>5
  <2> QED
    BY <1>1, <2>1, <2>2, <2>3, <2>5, <2>6, <2>7 DEF ConsoleKept
<1>25. DebtsKept(c)'
  <2>1. InSession(c)' => Memory(c)' >= Memory(c) /\ Memory(c)' \in Nat
    <3>1. InSession(c)' => Memory(c)' = Memory(c)
      BY <1>14, <1>21 DEF InSession
    <3>2. Memory(c) \in Nat
      BY MemoryTyped, SaveConstants
    <3> QED
      BY <3>1, <3>2
  <2>2. \A b \in Consoles : SeenFollows(b, c)
    BY <1>2, <1>10, <1>11, <1>19 DEF SeenFollows
  <2>3. OutgoingFollows(c)
    BY <1>10, <1>11 DEF OutgoingFollows
  <2> QED
    BY <1>1, <1>16, <1>19, <1>22, <1>23, <2>1, <2>2, <2>3, AllDebtsStay DEF SavesKept
<1> QED
  BY <1>16, <1>17, <1>18, <1>24, <1>25 DEF SavesKept

\* The console is tracked anew: what counts as written of its game is what did, and the
\* flush that retires the old runtime is of an older generation.
LEMMA InstalledKept ==
  ASSUME SaveInv, SavesKept, NEW c \in Consoles, Installed(c) PROVE SavesKept'
<1>1. /\ worker' = worker /\ card' = card /\ plays' = plays /\ exposed' = exposed
      /\ InBoot(c, "starting") /\ worker[boot[c].worker].state = "up"
      /\ rack' = [rack EXCEPT ![c] = boot[c].worker]
      /\ Track(c, boot[c].game)
  BY DEF Installed, countVars
<1>2. PICK w : w = boot[c].worker
  OBVIOUS
<1>3. PICK g : g = boot[c].game
  OBVIOUS
<1>4. /\ boot[c] # None /\ w \in DOMAIN worker /\ w # 0 /\ worker[w].state = "up"
      /\ worker[w].game = g /\ g \in Games
  <2>1. g \in Games
    BY <1>1, <1>3, BootIsRecord DEF Boots
  <2> QED
    BY <1>1, <1>2, <1>3, <2>1, StartingTyped
<1>5. /\ rack'[c] = w /\ \A d \in Consoles \ {c} : rack'[d] = rack[d]
  BY <1>1, <1>2 DEF SaveInv, SaveTypeOK
<1>6. /\ boot'[c] = None
      /\ \A b \in Consoles \ {c} :
           /\ SameBoot(b)
           /\ boot[b] # None => /\ boot'[b].restored = boot[b].restored
                                /\ boot'[b].outgoing = boot[b].outgoing
           /\ boot'[b] # None =>
                /\ boot[b] # None /\ boot'[b].seen[c] = 0
                /\ \A d \in Consoles \ {c} : boot'[b].seen[d] = boot[b].seen[d]
  <2>1. boot' = [b \in Consoles |-> IF b = c \/ boot[b] = None THEN None
                                    ELSE [boot[b] EXCEPT !.seen[c] = 0]]
    BY DEF Installed
  <2>2. boot'[c] = None
    BY <2>1
  <2>3. ASSUME NEW b \in Consoles \ {c}, boot[b] # None
        PROVE  /\ boot'[b] # None
               /\ boot'[b].game = boot[b].game /\ boot'[b].fresh = boot[b].fresh
               /\ boot'[b].step = boot[b].step /\ boot'[b].worker = boot[b].worker
               /\ boot'[b].restored = boot[b].restored
               /\ boot'[b].outgoing = boot[b].outgoing
               /\ boot'[b].seen[c] = 0
               /\ \A d \in Consoles \ {c} : boot'[b].seen[d] = boot[b].seen[d]
    <3>1. boot[b] \in Boots
      BY <2>3 DEF SaveInv, SaveTypeOK
    <3>2. PICK r : r = [boot[b] EXCEPT !.seen[c] = 0]
      OBVIOUS
    <3>3. boot'[b] = r
      BY <2>1, <2>3, <3>2
    <3>4. /\ r.game = boot[b].game /\ r.fresh = boot[b].fresh
          /\ r.step = boot[b].step /\ r.worker = boot[b].worker
          /\ r.restored = boot[b].restored /\ r.outgoing = boot[b].outgoing
          /\ r.seen = [boot[b].seen EXCEPT ![c] = 0]
      BY <3>1, <3>2 DEF Boots
    <3>5. boot[b].seen \in [Consoles -> Nat]
      BY <3>1 DEF Boots
    <3>6. r.seen[c] = 0 /\ \A d \in Consoles \ {c} : r.seen[d] = boot[b].seen[d]
      BY <3>4, <3>5
    <3>7. r \in Boots
      <4>1. r.seen \in [Consoles -> Nat]
        BY <3>4, <3>5
      <4> QED
        BY <3>1, <3>2, <4>1 DEF Boots
    <3> QED
      BY <3>3, <3>4, <3>6, <3>7, NoneIsApart
  <2>4. ASSUME NEW b \in Consoles \ {c}, boot[b] = None PROVE boot'[b] = None
    BY <2>1, <2>4
  <2> QED
    BY <2>2, <2>3, <2>4 DEF SameBoot
<1>7. /\ \A d \in Consoles \ {c} : chain'[d] = chain[d]
      /\ HeadOn(c)' => HeadOn(c) /\ chain'[c][1] = chain[c][1]
      /\ \A i \in DOMAIN chain'[c] :
           \/ \E j \in DOMAIN chain[c] : chain'[c][i] = chain[c][j]
           \/ tracked[c] # None /\ chain'[c][i].gen = tracked[c].gen
  <2>1. CASE boot[c].fresh
    <3>1. PICK retire : retire = TRUE
      OBVIOUS
    <3>2. PICK b : b = None
      OBVIOUS
    <3>3. /\ chain'[c] = chain[c] \o Flush(c, b, retire)
          /\ \A d \in Consoles \ {c} : chain'[d] = chain[d]
      BY <2>1, <3>1, <3>2 DEF Installed, SaveInv, SaveTypeOK
    <3>4. AtTheEnd(c, b, retire)
      BY <3>3, ChainIsAsked
    <3> QED
      BY <3>3, <3>4 DEF AtTheEnd
  <2>2. CASE ~boot[c].fresh
    <3>1. chain' = chain
      BY <2>2 DEF Installed
    <3> QED
      BY <3>1 DEF HeadOn
  <2> QED
    BY <2>1, <2>2
<1>8. /\ \A d \in Consoles \ {c} : IdentityStays(d)
      /\ g \in Cards => /\ tracked'[c] # None /\ tracked'[c].gen = gen + 1
                        /\ tracked'[c].game = g
                        /\ \/ written'[c] = 0
                           \/ /\ tracked[c] # None /\ tracked[c].game = g
                              /\ written'[c] = written[c]
      /\ g \notin Cards => tracked'[c] = None /\ written'[c] = 0
  <2>1. /\ tracked \in [Consoles -> [game : Cards, gen : 1 .. gen] \cup {None}]
        /\ written \in [Consoles -> 0 .. MaxPlays] /\ gen \in Nat
    BY DEF SaveInv, SaveTypeOK
  <2>2. CASE g \in Cards
    <3>1. PICK t : t = [game |-> g, gen |-> gen + 1]
      OBVIOUS
    <3>2. /\ tracked' = [tracked EXCEPT ![c] = t]
          /\ written' = IF tracked[c] # None /\ tracked[c].game = g THEN written
                        ELSE [written EXCEPT ![c] = 0]
      BY <1>1, <1>3, <2>2, <3>1 DEF Track
    <3>3. t.gen = gen + 1 /\ t.game = g /\ t # None
      <4>1. t \in [game : Cards, gen : Nat]
        BY <2>1, <2>2, <3>1
      <4> QED
        BY <3>1, <4>1, NoneIsApart
    <3> QED
      BY <2>1, <2>2, <3>2, <3>3 DEF IdentityStays
  <2>3. CASE g \notin Cards
    <3>1. tracked' = [tracked EXCEPT ![c] = None] /\ written' = [written EXCEPT ![c] = 0]
      BY <1>1, <1>3, <2>3 DEF Track
    <3> QED
      BY <2>1, <2>3, <3>1 DEF IdentityStays
  <2> QED
    BY <2>2, <2>3
<1>9. OnlyBoots(c)
  <2>1. GamesStay
    BY <1>1 DEF GamesStay
  <2> QED
    BY <1>1, <1>5, <1>6, <1>7, <1>8, <2>1 DEF OnlyBoots, SameBoot
<1>10. /\ \A d \in Consoles \ {c} : ConsoleKept(d)' /\ DebtsKept(d)'
       /\ CurrentsStay(c) /\ GamesStay /\ plays \in Nat
  BY <1>9, OthersKept
<1>11. ConsoleKept(c) /\ Played(c) /\ BootsApart(c) /\ StaysTracked(c)
  BY DEF SavesKept, ConsoleKept
<1>12. PlayedMemory'
  BY <1>1 DEF SavesKept, PlayedMemory
<1>13. OwnWorkers'
  <2>1. ASSUME NEW d \in Consoles, NEW x, Uses(d, x)' PROVE Uses(d, x)
    <3>1. CASE d = c
      BY <1>1, <1>2, <1>5, <1>6, <1>7, <2>1, <3>1 DEF Uses, InBoot
    <3>2. CASE d # c
      BY <1>5, <1>6, <1>7, <2>1, <3>2 DEF Uses, InBoot, HeadOn, SameBoot
    <3> QED
      BY <3>1, <3>2
  <2> QED
    BY <2>1, UsedIsWorker DEF SavesKept, OwnWorkers
<1>14. ~HasRead(c)' /\ ~CoreIsUp(c)' /\ ~InBoot(c, "starting")'
  BY <1>6 DEF InBoot, HasRead, CoreIsUp
<1>15. ConsoleKept(c)'
  <2>1. Played(c)'
    BY <1>1, <1>6, <1>7, <1>8, <1>10, <1>11 DEF Played
  <2>2. BootsApart(c)'
    BY <1>1, <1>4, <1>5, <1>7, <1>11, <1>14 DEF BootsApart
  <2>3. StaysTracked(c)'
    <3>1. worker'[rack'[c]].game \in Cards => tracked'[c] # None
      BY <1>1, <1>4, <1>5, <1>8
    <3>2. ASSUME NEW i \in DOMAIN chain'[c], tracked'[c] # None
          PROVE  chain'[c][i].gen < tracked'[c].gen
      <4>1. tracked'[c].gen = gen + 1 /\ gen \in Nat
        BY <1>8, <3>2 DEF SaveInv, SaveTypeOK
      <4>2. CASE \E j \in DOMAIN chain[c] : chain'[c][i] = chain[c][j]
        <5>1. PICK j \in DOMAIN chain[c] : chain'[c][i] = chain[c][j]
          BY <4>2
        <5>2. chain[c] \in Seq(Flushes)
          BY DEF SaveInv, SaveTypeOK
        <5>3. chain[c][j] \in Flushes
          BY <5>2
        <5>4. chain[c][j].gen \in Nat /\ chain[c][j].gen <= gen
          BY <5>3 DEF Flushes, SaveInv, Identities
        <5> QED
          BY <4>1, <5>1, <5>4
      <4>3. CASE tracked[c] # None /\ chain'[c][i].gen = tracked[c].gen
        BY <4>1, <4>3, IdentityTyped
      <4> QED
        BY <1>7, <4>2, <4>3
    <3> QED
      BY <3>1, <3>2 DEF StaysTracked
  <2>4. HeadIsCurrent(c)' /\ RestoredIsMarked(c)' /\ BootIsMarked(c)'
    BY <1>6, <1>14 DEF HeadIsCurrent, RestoredIsMarked, BootIsMarked
  <2>5. ASSUME c \notin exposed PROVE RunIsMarked(c)'
    <3> SUFFICES ASSUME InSession(c)', Memory(c)' # 0 PROVE RunIsMarked(c)'
      BY DEF RunIsMarked
    <3>1. BootIsMarked(c) /\ CoreIsUp(c)
      BY <1>1, <1>11, <2>5 DEF ConsoleKept, CoreIsUp
    <3>2. PICK m : m = worker[w].memory
      OBVIOUS
    <3>3. Memory(c)' = m /\ m # 0
      BY <1>1, <1>5, <3>2 DEF InSession, Memory
    <3>4. g \in Cards /\ tracked'[c].game = g
      BY <1>8 DEF InSession
    <3>5. Elsewhere(c, g, m) \/ (tracked[c] # None /\ tracked[c].game = g /\ written[c] = m)
            => Current(c, g, m)
      BY <1>2, <1>3, <3>1, <3>2, <3>3 DEF BootIsMarked
    <3>6. Elsewhere(c, g, m)' => Elsewhere(c, g, m)
      BY <1>1, <1>7 DEF Elsewhere, CanStore, Bytes, Alive
    <3>7. written'[c] = m => tracked[c] # None /\ tracked[c].game = g /\ written[c] = m
      BY <1>8, <3>3, <3>4
    <3> QED
      BY <1>1, <3>3, <3>4, <3>5, <3>6, <3>7 DEF RunIsMarked, Elsewhere, Current
  <2> QED
    BY <1>1, <2>1, <2>2, <2>3, <2>4, <2>5 DEF ConsoleKept
<1>16. DebtsKept(c)'
  BY <1>6 DEF DebtsKept, OutgoingOwed, SeenOwed
<1> QED
  BY <1>10, <1>12, <1>13, <1>15, <1>16 DEF SavesKept

-----------------------------------------------------------------------------
(* The invariant, and what a boot finds.                                     *)

LEMMA StutterKept ==
  ASSUME SaveInv, SavesKept, UNCHANGED saveVars PROVE SavesKept'
<1>1. /\ QuietStep /\ boot' = boot /\ tracked' = tracked /\ written' = written /\ chain' = chain
  BY DEF saveVars, pageVars, guardVars, countVars, QuietStep
<1>2. \A d \in Consoles : ChainFollows(d) /\ \A a : AwaitedOn(a, d)' = AwaitedOn(a, d)
  BY <1>1, ChainRests
<1>3. ASSUME NEW d \in Consoles PROVE StandsBy(d)
  <2>1. WorkersRest(d)
    BY <1>1, QuietConsole
  <2> QED
    BY <1>1, <1>2, <2>1 DEF StandsBy, IdentityStays, QuietStep, SameBoot
<1>4. ASSUME NEW d \in Consoles
      PROVE  (\A b \in Consoles : SeenFollows(b, d)) /\ OutgoingFollows(d)
  BY <1>1, <1>2 DEF SeenFollows, OutgoingFollows, Expects
<1> QED
  BY <1>1, <1>3, <1>4, QuietKept DEF SavesKept

LEMMA SavesStep == SaveInv /\ SavesKept /\ [Next]_saveVars => SavesKept'
<1> SUFFICES ASSUME SaveInv, SavesKept, Next PROVE SavesKept'
  BY StutterKept
<1>1. ASSUME NEW c \in Consoles, FlushStep(c) PROVE SavesKept'
  BY <1>1, FlushStartsKept, MemoryReadKept, StoredKept, FlushFailsKept DEF FlushStep
<1>2. ASSUME NEW c \in Consoles, BootStep(c) PROVE SavesKept'
  BY <1>2, CardReadKept, BootAbandonedKept, HandOverKept, CoreStartsKept, CoreUpKept,
     BootFailsKept, InstalledKept DEF BootStep
<1>3. ASSUME NEW c \in Consoles, NEW g \in Games, NEW fresh \in BOOLEAN, BootBegins(c, g, fresh)
      PROVE  SavesKept'
  BY <1>3, BootBeginsKept
<1>4. ASSUME NEW w \in Workers, Play(w) PROVE SavesKept'
  BY <1>4, PlayKept
<1>5. ASSUME Timer PROVE SavesKept'
  BY <1>5, TimerKept
<1> QED
  BY <1>1, <1>2, <1>3, <1>4, <1>5 DEF Next

LEMMA SavesInit == Init => SavesKept
<1> SUFFICES ASSUME Init PROVE SavesKept
  OBVIOUS
<1>1. PlayedMemory /\ OwnWorkers
  BY DEF Init, PlayedMemory, OwnWorkers
<1>2. ASSUME NEW c \in Consoles PROVE ConsoleKept(c) /\ DebtsKept(c)
  <2>1. /\ boot[c] = None /\ chain[c] = <<>> /\ tracked[c] = None /\ written[c] = 0
        /\ rack[c] = 0 /\ plays = 0
    BY DEF Init
  <2>2. ~HeadOn(c) /\ ~HasRead(c) /\ ~CoreIsUp(c) /\ ~InSession(c) /\ ~Alive(rack[c])
        /\ ~InBoot(c, "starting")
    BY <2>1 DEF HeadOn, HasRead, CoreIsUp, InBoot, InSession, Alive
  <2>3. Played(c) /\ BootsApart(c) /\ StaysTracked(c) /\ HeadIsCurrent(c)
    BY <2>1, <2>2 DEF Played, BootsApart, StaysTracked, HeadIsCurrent
  <2>4. RestoredIsMarked(c) /\ BootIsMarked(c) /\ RunIsMarked(c)
    BY <2>2 DEF RestoredIsMarked, BootIsMarked, RunIsMarked
  <2>5. OutgoingOwed(c) /\ \A b \in Consoles : SeenOwed(b, c)
    BY DEF Init, OutgoingOwed, SeenOwed
  <2> QED
    BY <2>3, <2>4, <2>5 DEF ConsoleKept, DebtsKept
<1> QED
  BY <1>1, <1>2 DEF SavesKept

LEMMA SavesAreKept == Spec => [](SaveInv /\ SavesKept)
<1>1. Init => SaveInv /\ SavesKept
  BY SaveInit, SavesInit
<1>2. (SaveInv /\ SavesKept) /\ [Next]_saveVars => (SaveInv /\ SavesKept)'
  BY SaveStep, SavesStep
<1> QED
  BY <1>1, <1>2, PTL DEF Spec

\* A boot goes on by its own steps only.
LEMMA BootGoesOn ==
  ASSUME SaveInv, [Next]_saveVars, NEW c \in Consoles, boot[c] # None, boot'[c] # None,
         boot'[c].step # boot[c].step
  PROVE  BootStep(c)
<1> SUFFICES ASSUME ~BootStep(c) PROVE SameBoot(c) \/ boot'[c] = None
  BY DEF SameBoot
<1>1. boot \in [Consoles -> Boots \cup {None}]
  BY DEF SaveInv, SaveTypeOK
<1>2. CASE boot' = boot
  BY <1>2 DEF SameBoot
<1>3. ASSUME NEW d \in Consoles, FlushStep(d) PROVE SameBoot(c)
  <2>1. boot' = boot \/ (chain[d] # <<>> /\ Forgo(d))
    BY <1>3 DEF FlushStep, FlushStarts, MemoryRead, Stored, FlushFails, Rejected, Under, pageVars
  <2> QED
    BY <1>2, <2>1, ForgoKeepsBoots
<1>4. ASSUME NEW d \in Consoles, BootStep(d) PROVE SameBoot(c) \/ boot'[c] = None
  <2>1. d # c
    BY <1>4
  <2>2. CASE Installed(d)
    <3>1. boot' = [b \in Consoles |-> IF b = d \/ boot[b] = None THEN None
                                      ELSE [boot[b] EXCEPT !.seen[d] = 0]]
      BY <2>2 DEF Installed
    <3>2. boot'[c] = [boot[c] EXCEPT !.seen[d] = 0]
      BY <2>1, <3>1
    <3>3. boot[c] \in Boots
      BY <1>1
    <3> QED
      BY <3>2, <3>3 DEF SameBoot, Boots
  <2>3. CASE ~Installed(d)
    <3>1. boot'[c] = boot[c]
      BY <1>1, <1>4, <2>1, <2>3
         DEF BootStep, CardRead, BootAbandoned, HandOver, CoreStarts, CoreUp, BootFails
    <3> QED
      BY <3>1 DEF SameBoot
  <2> QED
    BY <2>2, <2>3
<1>5. ASSUME NEW d \in Consoles, NEW g \in Games, NEW fresh \in BOOLEAN, BootBegins(d, g, fresh)
      PROVE  SameBoot(c)
  <2>1. d # c
    BY <1>5 DEF BootBegins
  <2>2. boot'[c] = boot[c]
    BY <1>1, <1>5, <2>1 DEF BootBegins
  <2> QED
    BY <2>2 DEF SameBoot
<1>6. ASSUME NEW w \in Workers, Play(w) PROVE boot' = boot
  BY <1>6 DEF Play
<1>7. ASSUME Timer PROVE boot' = boot
  BY <1>7 DEF Timer, pageVars
<1>8. ASSUME UNCHANGED saveVars PROVE boot' = boot
  BY <1>8 DEF saveVars, pageVars
<1> QED
  BY <1>2, <1>3, <1>4, <1>5, <1>6, <1>7, <1>8 DEF Next

\* No core starts before what the game it replaces had in memory is on its card: for any
\* consoles and games, and however boots, flushes, timers and failures interleave.
THEOREM CheckpointsAreKept == Spec => CheckpointKept
<1>1. ASSUME SaveInv, SavesKept, [Next]_saveVars, NEW c \in Consoles,
             InBoot(c, "flushed"), InBoot(c, "starting")', c \notin exposed,
             boot[c].outgoing # None
      PROVE  Current(c, boot[c].outgoing.game, boot[c].outgoing.memory)
  <2>1. boot[c] # None /\ boot[c].step = "flushed" /\ boot'[c] # None /\ boot'[c].step = "starting"
    BY <1>1 DEF InBoot
  <2>2. BootStep(c)
    BY <1>1, <2>1, BootGoesOn
  <2>3. ~Awaiting(c)
    BY <2>1, <2>2 DEF BootStep, CardRead, BootAbandoned, HandOver, CoreStarts, CoreUp, BootFails,
                      Installed, InBoot
  <2>4. ~AwaitedOn(c, c)
    BY <2>3 DEF Awaiting, AwaitedOn
  <2>5. Owed(c, c, boot[c].outgoing.game, boot[c].outgoing.memory)
    BY <1>1, <2>1 DEF SavesKept, DebtsKept, OutgoingOwed
  <2> QED
    BY <2>4, <2>5 DEF Owed
<1>2. SaveInv /\ SavesKept /\ [Next]_saveVars =>
        [\A c \in Consoles : InBoot(c, "flushed") /\ InBoot(c, "starting")' /\ c \notin exposed =>
           LET m == boot[c].outgoing
           IN m = None \/ (/\ card[m.game] # None
                           /\ card[m.game].by = c => card[m.game].memory >= m.memory)]_saveVars
  BY <1>1 DEF Current
<1> QED
  BY <1>2, SavesAreKept, PTL DEF Spec, CheckpointKept

\* No boot restores a record older than what a live core of its game had when the boot asked
\* for the flushes, whichever console runs that core.
THEOREM RestoresAreCurrent == Spec => RestoredIsCurrent
<1>1. ASSUME SaveInv, SavesKept, [Next]_saveVars, NEW c \in Consoles,
             InBoot(c, "restoring"), InBoot(c, "ready")', failures' = failures,
             NEW d \in Consoles \ exposed, boot[c].seen[d] # 0
      PROVE  /\ boot'[c].restored # None
             /\ boot'[c].restored.by = d => boot'[c].restored.memory >= boot[c].seen[d]
  <2>1. /\ boot[c] # None /\ boot[c].step = "restoring" /\ boot[c] \in Boots
        /\ boot'[c] # None /\ boot'[c].step = "ready"
    BY <1>1, BootIsRecord DEF InBoot
  <2>2. BootStep(c)
    BY <1>1, <2>1, BootGoesOn
  <2>3. CardRead(c)
    BY <2>1, <2>2 DEF BootStep, BootAbandoned, HandOver, CoreStarts, CoreUp, BootFails,
                      Installed, InBoot
  <2>4. ~AwaitedOn(c, d)
    BY <2>3 DEF CardRead, Awaiting, AwaitedOn
  <2>5. PICK g : g = boot[c].game
    OBVIOUS
  <2>6. PICK v : v = boot[c].seen[d]
    OBVIOUS
  <2>7. Current(d, g, v)
    BY <1>1, <2>1, <2>4, <2>5, <2>6 DEF SavesKept, DebtsKept, SeenOwed, Owed
  <2>8. boot'[c].restored = card[g]
    <3>1. failures \in Nat
      BY <1>1, CountersTyped
    <3>2. boot' = [boot EXCEPT ![c].step = "ready", ![c].restored = card[boot[c].game],
                               ![c].seen = Nothing]
      BY <1>1, <2>3, <3>1 DEF CardRead
    <3>3. PICK r : r = [boot[c] EXCEPT !.step = "ready", !.restored = card[boot[c].game],
                                       !.seen = Nothing]
      OBVIOUS
    <3>4. r.restored = card[g]
      BY <2>1, <2>5, <3>3 DEF Boots
    <3>5. boot' = [boot EXCEPT ![c] = r]
      BY <3>2, <3>3
    <3> QED
      BY <1>1, <3>4, <3>5 DEF SaveInv, SaveTypeOK
  <2> QED
    BY <2>6, <2>7, <2>8 DEF Current
<1>2. SaveInv /\ SavesKept /\ [Next]_saveVars =>
        [\A c \in Consoles :
           InBoot(c, "restoring") /\ InBoot(c, "ready")' /\ failures' = failures =>
           \A d \in Consoles \ exposed : boot[c].seen[d] # 0 =>
             LET r == boot'[c].restored
             IN r # None /\ (r.by = d => r.memory >= boot[c].seen[d])]_saveVars
  BY <1>1
<1> QED
  BY <1>2, SavesAreKept, PTL DEF Spec, RestoredIsCurrent

-----------------------------------------------------------------------------
(* No boot is stuck.                                                         *)

\* The worker of a boot that starts is there: nobody else has to do with it.
BootsAlive ==
  \A c \in Consoles : InBoot(c, "starting") => worker[boot[c].worker].state # "gone"

LEMMA WorkersAnswer ==
  ASSUME SaveInv, OwnWorkers, BootsAlive, [Next]_saveVars
  PROVE  BootsAlive'
<1> SUFFICES ASSUME NEW c \in Consoles, InBoot(c, "starting")'
             PROVE  worker'[boot'[c].worker].state # "gone"
  BY DEF BootsAlive
<1>1. boot \in [Consoles -> Boots \cup {None}] /\ worker \in Seq(Hosted)
  BY DEF SaveInv, SaveTypeOK
<1>2. PICK w : w = boot[c].worker
  OBVIOUS
<1>3. ASSUME InBoot(c, "starting")
      PROVE  w \in DOMAIN worker /\ worker[w].state # "gone" /\ Uses(c, w)
  BY <1>2, <1>3, StartingTyped DEF BootsAlive, Uses
<1>4. CASE SameBoot(c) /\ worker' = worker
  <2>1. InBoot(c, "starting") /\ boot'[c].worker = w
    BY <1>2, <1>4 DEF SameBoot, InBoot
  <2> QED
    BY <1>3, <1>4, <2>1
<1>5. ASSUME NEW d \in Consoles, FlushStep(d) PROVE SameBoot(c) /\ worker' = worker
  <2>1. worker' = worker /\ (boot' = boot \/ (chain[d] # <<>> /\ Forgo(d)))
    BY <1>5 DEF FlushStep, FlushStarts, MemoryRead, Stored, FlushFails, Rejected, Under, pageVars
  <2> QED
    BY <2>1, ForgoKeepsBoots DEF SameBoot
<1>6. ASSUME NEW d \in Consoles, NEW g \in Games, NEW fresh \in BOOLEAN, BootBegins(d, g, fresh)
      PROVE  SameBoot(c) /\ worker' = worker
  <2>1. worker' = worker /\ (d # c => boot'[c] = boot[c])
    BY <1>1, <1>6 DEF BootBegins
  <2>2. ASSUME d = c PROVE FALSE
    <3>1. PICK step : step = IF g \in Cards THEN "restoring" ELSE "ready"
      OBVIOUS
    <3>2. boot'[c].step = step
      BY <1>1, <1>6, <2>2, <3>1 DEF BootBegins
    <3> QED
      BY <3>1, <3>2 DEF InBoot
  <2> QED
    BY <2>1, <2>2 DEF SameBoot
<1>7. ASSUME NEW x \in Workers, Play(x) PROVE worker'[boot'[c].worker].state # "gone"
  <2>1. boot' = boot /\ worker' = [worker EXCEPT ![x].memory = plays']
    BY <1>7 DEF Play
  <2>2. InBoot(c, "starting") /\ boot'[c].worker = w
    BY <1>2, <2>1 DEF InBoot
  <2>3. w \in DOMAIN worker /\ worker[w].state # "gone"
    BY <1>3, <2>2
  <2>4. worker[w] \in Hosted
    BY <1>1, <2>3
  <2>5. worker'[w] = worker[w] \/ worker'[w] = [worker[w] EXCEPT !.memory = plays']
    BY <1>1, <2>1, <2>3
  <2>6. worker'[w].state = worker[w].state
    BY <2>4, <2>5 DEF Hosted
  <2> QED
    BY <2>2, <2>3, <2>6
<1>8. ASSUME Timer \/ UNCHANGED saveVars PROVE SameBoot(c) /\ worker' = worker
  BY <1>8 DEF Timer, saveVars, pageVars, SameBoot
<1>9. ASSUME NEW d \in Consoles, CardRead(d) \/ BootAbandoned(d) \/ HandOver(d)
      PROVE  SameBoot(c) /\ worker' = worker
  <2>1. worker' = worker /\ boot[d] \in Boots /\ (d # c => boot'[c] = boot[c])
    BY <1>1, <1>9, BootIsRecord DEF CardRead, BootAbandoned, HandOver
  <2>2. ASSUME d = c PROVE FALSE
    <3>1. CASE CardRead(c)
      <4>1. boot'[c].step = "ready"
        BY <1>1, <2>1, <2>2, <3>1 DEF CardRead, Boots
      <4> QED
        BY <4>1 DEF InBoot
    <3>2. CASE BootAbandoned(c)
      BY <1>1, <3>2 DEF BootAbandoned, InBoot
    <3>3. CASE HandOver(c)
      <4>1. boot[c] \in Boots
        BY <2>1, <2>2
      <4>2. PICK r : /\ boot' = [boot EXCEPT ![c] = r]
                     /\ r \in {[boot[c] EXCEPT !.step = "flushed"],
                              [boot[c] EXCEPT !.step = "flushed", !.outgoing = Outgoing(c)]}
        BY <3>3 DEF HandOver
      <4>3. r.step = "flushed"
        BY <4>1, <4>2 DEF Boots
      <4>4. boot'[c] = r
        BY <1>1, <4>2
      <4> QED
        BY <4>3, <4>4 DEF InBoot
    <3> QED
      BY <1>9, <2>2, <3>1, <3>2, <3>3
  <2> QED
    BY <2>1, <2>2 DEF SameBoot
<1>10. ASSUME NEW d \in Consoles, CoreStarts(d) PROVE worker'[boot'[c].worker].state # "gone"
  <2>1. PICK h : h = [game |-> boot[d].game, memory |-> 0, state |-> "booting"]
    OBVIOUS
  <2>2. PICK stopped : /\ worker' = Append(stopped, h)
                       /\ stopped = IF boot[d].fresh THEN worker
                                    ELSE [worker EXCEPT ![rack[d]].state = "gone",
                                                        ![rack[d]].memory = 0]
    BY <1>10, <2>1 DEF CoreStarts
  <2>3. /\ InBoot(d, "flushed") /\ boot[d] \in Boots /\ boot[d] # None
        /\ boot' = [boot EXCEPT ![d].step = "starting", ![d].worker = Len(worker'),
                                ![d].outgoing = None]
    BY <1>10, BootIsRecord DEF CoreStarts
  <2>4. worker' \in Seq(Hosted)
    BY <1>10, CoreStartsKeeps DEF SaveInv, SaveTypeOK
  <2>5. CASE d = c
    <3>1. boot'[c].worker = Len(worker')
      BY <1>1, <2>3, <2>5 DEF Boots
    <3>2. Len(stopped) \in Nat /\ worker'[Len(worker')] = h
      BY <1>1, <2>2
    <3> QED
      BY <2>1, <3>1, <3>2
  <2>6. CASE d # c
    <3>1. boot'[c] = boot[c]
      BY <1>1, <2>3, <2>6
    <3>2. InBoot(c, "starting") /\ boot'[c].worker = w
      BY <1>2, <3>1 DEF InBoot
    <3>3. w # rack[d]
      BY <1>3, <2>6, <3>2, StartingTyped, <1>2 DEF OwnWorkers, Uses
    <3>4. w \in DOMAIN stopped /\ stopped[w] = worker[w]
      BY <1>1, <1>3, <2>2, <3>2, <3>3
    <3>5. worker'[w] = stopped[w]
      BY <1>1, <2>2, <3>4
    <3> QED
      BY <1>3, <3>2, <3>4, <3>5
  <2> QED
    BY <2>5, <2>6
<1>11. ASSUME NEW d \in Consoles, CoreUp(d) \/ BootFails(d)
       PROVE  worker'[boot'[c].worker].state # "gone"
  <2>1. InBoot(d, "starting")
    BY <1>11 DEF CoreUp, BootFails
  <2>2. PICK x : x = boot[d].worker
    OBVIOUS
  <2>3. x \in DOMAIN worker /\ Uses(d, x)
    BY <2>1, <2>2, StartingTyped DEF Uses
  <2>4. InBoot(c, "starting") /\ boot'[c].worker = w
    BY <1>1, <1>2, <1>11 DEF CoreUp, BootFails, InBoot
  <2>5. CASE c = d
    <3>1. CoreUp(d)
      BY <1>1, <1>11, <2>5 DEF BootFails, InBoot
    <3>2. worker'[w].state = "up"
      <4>1. worker[w] \in Hosted
        BY <1>1, <1>3, <2>4
      <4>2. PICK m : worker' = [worker EXCEPT ![w].state = "up", ![w].memory = m]
        BY <1>2, <2>5, <3>1 DEF CoreUp
      <4>3. worker'[w] = [worker[w] EXCEPT !.state = "up", !.memory = m]
        BY <1>1, <1>3, <2>4, <4>2
      <4> QED
        BY <4>1, <4>3 DEF Hosted
    <3> QED
      BY <2>4, <3>2
  <2>6. CASE c # d
    <3>1. w # x
      BY <1>3, <2>3, <2>4, <2>6 DEF OwnWorkers
    <3>2. worker'[w] = worker[w]
      BY <1>1, <1>3, <1>11, <2>2, <2>4, <3>1 DEF CoreUp, BootFails
    <3> QED
      BY <1>3, <2>4, <3>2
  <2> QED
    BY <2>5, <2>6
<1>12. ASSUME NEW d \in Consoles, Installed(d) PROVE SameBoot(c) /\ worker' = worker
  <2>1. boot'[c] # None
    BY DEF InBoot
  <2>2. boot[c] # None /\ boot'[c] = [boot[c] EXCEPT !.seen[d] = 0]
    BY <1>12, <2>1 DEF Installed
  <2>3. boot[c] \in Boots
    BY <1>1, <2>2
  <2> QED
    BY <1>12, <2>1, <2>2, <2>3 DEF SameBoot, Boots, Installed
<1>13. ASSUME NEW d \in Consoles, BootStep(d) PROVE worker'[boot'[c].worker].state # "gone"
  BY <1>4, <1>9, <1>10, <1>11, <1>12, <1>13 DEF BootStep
<1> QED
  BY <1>4, <1>5, <1>6, <1>7, <1>8, <1>13 DEF Next

\* What keeps the guards of a boot's next step: the flushes it awaits, or nothing.
MayGoOn(c) ==
  \/ InBoot(c, "restoring") /\ ~Awaiting(c)
  \/ InBoot(c, "ready")
  \/ InBoot(c, "flushed") /\ ~Awaiting(c)
  \/ InBoot(c, "starting") /\ worker[boot[c].worker].state \in {"booting", "up"}

\* A flush is answered, is rejected, or is being stored.
MayEnd(d) ==
  \/ Under(d, "reading") /\ Alive(Head(chain[d]).worker)
  \/ Rejected(d)
  \/ Under(d, "saving")

\* One of a boot's own steps may be taken, or the first flush of a chain with a flush that
\* the boot awaits may end.
NobodyIsBlocked ==
  \A c \in Consoles : boot[c] # None /\ Settled =>
    \/ MayGoOn(c)
    \/ \E d \in Consoles : AwaitedOn(c, d) /\ MayEnd(d)

\* No boot waits for what cannot come, for any consoles and games, and whatever becomes of the
\* workers: the guards of the steps that NoBootStuck speaks of.
THEOREM BootsGoOn == Spec => []NobodyIsBlocked
<1>1. Init => BootsAlive
  BY DEF Init, BootsAlive, InBoot
<1>2. SaveInv /\ SavesKept /\ BootsAlive /\ [Next]_saveVars => BootsAlive'
  BY WorkersAnswer DEF SavesKept
<1>3. ASSUME SaveInv, BootsAlive, Settled, NEW c \in Consoles, boot[c] # None
      PROVE  MayGoOn(c) \/ \E d \in Consoles : AwaitedOn(c, d) /\ MayEnd(d)
  <2>1. /\ boot[c] \in Boots
        /\ boot[c].step \in {"restoring", "ready", "flushed", "starting"}
    BY <1>3 DEF SaveInv, SaveTypeOK, Boots
  <2>2. CASE boot[c].step = "starting"
    <3>1. InBoot(c, "starting")
      BY <1>3, <2>2 DEF InBoot
    <3>2. worker[boot[c].worker] \in Hosted /\ worker[boot[c].worker].state # "gone"
      BY <1>3, <3>1, StartingTyped DEF BootsAlive, SaveInv, SaveTypeOK
    <3> QED
      BY <3>1, <3>2 DEF MayGoOn, Hosted
  <2>3. CASE Awaiting(c)
    <3>1. PICK d \in Consoles : AwaitedOn(c, d)
      BY <2>3 DEF Awaiting, AwaitedOn
    <3>2. chain[d] \in Seq(Flushes) /\ chain[d] # <<>>
      BY <1>3, <3>1 DEF AwaitedOn, SaveInv, SaveTypeOK
    <3>3. Head(chain[d]) \in Flushes
      BY <3>2
    <3>4. Head(chain[d]).step \in {"reading", "saving"}
      BY <1>3, <3>2, <3>3 DEF Settled, Under, Flushes
    <3>5. MayEnd(d)
      BY <3>2, <3>4 DEF MayEnd, Under, Rejected
    <3> QED
      BY <3>1, <3>5
  <2>4. CASE ~Awaiting(c) /\ boot[c].step # "starting"
    BY <1>3, <2>1, <2>4 DEF MayGoOn, InBoot
  <2> QED
    BY <2>2, <2>3, <2>4
<1>4. SaveInv /\ BootsAlive => NobodyIsBlocked
  BY <1>3 DEF NobodyIsBlocked
<1> QED
  BY <1>1, <1>2, <1>4, SavesAreKept, PTL DEF Spec
=============================================================================
