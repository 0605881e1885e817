--------------------------- MODULE CoreRackProofs ---------------------------
(***************************************************************************)
(* Proofs about CoreRack, for any games, any number of boots and changes   *)
(* of role, and any budget: what a page that watches runs, which of        *)
(* several boots wins, what the SaveRAM is filed under, that nothing runs  *)
(* that no console has, and that the console one looks at does.            *)
(***************************************************************************)
EXTENDS CoreRack, TLAPS

-----------------------------------------------------------------------------
(* One runtime.                                                              *)

RuntimeType ==
  [client : {None, "main", "worker"}, game : Games \cup {NoGame},
   alive : BOOLEAN, paused : BOOLEAN, running : BOOLEAN, starter : 0 .. MaxBoots]

\* Only a core runs, only a client has one, and a pause on the page's thread holds.
Sound(x) ==
  /\ x \in RuntimeType
  /\ x.running => x.alive
  /\ x.alive => x.client # None
  /\ x.client = "main" /\ x.paused => ~x.running

\* y is x, paused or resumed perhaps.
Kept(x, y) == Sound(y) /\ y.game = x.game /\ y.alive = x.alive /\ y.client = x.client

LEMMA Modes == \A g : Mode(g) \in {"main", "worker"} /\ Mode(g) # None
  BY DEF Mode, None

LEMMA NewIsSound == Sound(NewRuntime) /\ ~NewRuntime.running
  BY RackConstants DEF Sound, NewRuntime, RuntimeType, NoGame, None

LEMMA PausedIsKept ==
  ASSUME NEW x, Sound(x)
  PROVE  Kept(x, Paused(x)) /\ ~Paused(x).running
  BY DEF Paused, Sound, Kept, RuntimeType

LEMMA ResumedIsKept ==
  ASSUME NEW x, Sound(x)
  PROVE  Kept(x, Resumed(x)) /\ Kept(x, x)
  BY DEF Resumed, Sound, Kept, RuntimeType, None

LEMMA ResumeGatedIsKept ==
  ASSUME NEW x, Sound(x)
  PROVE  /\ Kept(x, ResumeGated(x))
         /\ ~MayRunLocalCore => ~ResumeGated(x).running
  BY PausedIsKept, ResumedIsKept DEF ResumeGated

LEMMA DisposedIsSound ==
  ASSUME NEW x, Sound(x)
  PROVE  /\ Sound(Disposed(x)) /\ ~Disposed(x).running /\ Disposed(x).game = x.game
         /\ Disposed(x).alive => x.alive
<1> DEFINE p == Paused(x)
           a == x.client = "main" /\ x.alive
           y == [p EXCEPT !.alive = a, !.starter = 0]
<1>1. Kept(x, p) /\ ~p.running
  BY PausedIsKept
<1>2. Disposed(x) = y
  BY DEF Disposed
<1>3. a \in BOOLEAN /\ (a => x.client = "main" /\ x.alive)
  OBVIOUS
<1> HIDE DEF p, a
<1>4. p \in RuntimeType
  BY <1>1 DEF Kept, Sound
<1>5. /\ y.client = p.client /\ y.game = p.game /\ y.alive = a
      /\ y.paused = p.paused /\ y.running = p.running /\ y.starter = 0
  BY <1>4 DEF RuntimeType
<1>6. y \in RuntimeType
  <2>1. a \in BOOLEAN /\ 0 \in 0 .. MaxBoots
    BY <1>3, RackConstants
  <2>2. CASE a = TRUE
    BY <1>4, <2>1, <2>2 DEF RuntimeType
  <2>3. CASE a = FALSE
    BY <1>4, <2>1, <2>3 DEF RuntimeType
  <2> QED
    BY <2>1, <2>2, <2>3
<1> QED
  BY <1>1, <1>2, <1>3, <1>5, <1>6 DEF Kept, Sound, None

LEMMA StartingIsSound ==
  ASSUME NEW x, Sound(x), NEW g, NEW b \in Boots, NEW contested \in BOOLEAN,
         x.client \in {None, Mode(g)}
  PROVE  LET y == Starting(x, g, b, contested)
         IN  /\ Sound(y) /\ y.game = x.game
             /\ y.alive => x.alive
             /\ y.running => x.running
<1>1. x \in RuntimeType /\ 0 \in 0 .. MaxBoots /\ b \in 0 .. MaxBoots
  BY RackConstants DEF Sound, Boots
<1>2. CASE Mode(g) = "main"
  BY <1>1, <1>2 DEF Starting, Sound, RuntimeType, None
<1>3. CASE Mode(g) = "worker"
  <2> DEFINE s == IF contested THEN 0 ELSE b
  <2>1. s \in 0 .. MaxBoots
    BY <1>1
  <2>2. Starting(x, g, b, contested) =
          [x EXCEPT !.client = "worker", !.alive = FALSE, !.running = FALSE, !.starter = s]
    BY <1>3 DEF Starting
  <2> HIDE DEF s
  <2> QED
    BY <1>1, <2>1, <2>2 DEF Sound, RuntimeType, None
<1> QED
  BY <1>2, <1>3, Modes

LEMMA StartedIsSound ==
  ASSUME NEW x, Sound(x), NEW g \in Games, NEW runs \in BOOLEAN
  PROVE  /\ Sound(Started(x, g, runs)) /\ Started(x, g, runs).game = g
  BY RackConstants DEF Started, Sound, RuntimeType, None, Mode

\* The budget pauses and resumes what is racked and nothing else, and pauses all of it where
\* no core may run.
AllSound(k) == \A r \in Runtimes : Sound(k[r])
Budgeted(k, k2, rk, ord, may) ==
  /\ k2 = [r \in Runtimes |-> k2[r]]
  /\ \A r \in Runtimes :
       /\ Kept(k[r], k2[r])
       /\ (\A i \in DOMAIN ord : rk[ord[i]] # r) => k2[r] = k[r]
       /\ may = FALSE /\ (\E i \in DOMAIN ord : rk[ord[i]] = r) => ~k2[r].running

LEMMA BudgetOnlyPausesAndResumes ==
  ASSUME NEW k, AllSound(k),
         NEW rk, NEW ord, NEW f, NEW may \in BOOLEAN, NEW enabled,
         NEW k2, k2 = ApplyBudget(k, rk, ord, f, may, enabled)
  PROVE  Budgeted(k, k2, rk, ord, may)
<1> DEFINE racked == [i \in DOMAIN ord |-> rk[ord[i]]]
           loaded == {r \in Range(racked) : Loaded(k[r])}
           focused == {r \in loaded : f # None /\ r = rk[f]}
           live == IF ~enabled \/ Cardinality(loaded) <= 1 THEN loaded
                   ELSE PlanLive(k, racked, focused)
<1>1. k2 = [r \in Runtimes |->
              IF r \notin Range(racked) THEN k[r]
              ELSE IF ~may \/ (r \in loaded \ live /\ IsLive(k[r])) THEN Paused(k[r])
              ELSE IF r \in live /\ ~IsLive(k[r]) THEN Resumed(k[r])
              ELSE k[r]]
  BY DEF ApplyBudget
<1>2. \A r : r \in Range(racked) <=> \E i \in DOMAIN ord : rk[ord[i]] = r
  BY DEF Range
<1> HIDE DEF racked, loaded, focused, live
<1>3. ASSUME NEW r \in Runtimes
      PROVE  /\ Kept(k[r], k2[r])
             /\ r \notin Range(racked) => k2[r] = k[r]
             /\ r \in Range(racked) /\ ~may => ~k2[r].running
  BY <1>1, PausedIsKept, ResumedIsKept DEF AllSound
<1>4. k2 = [r \in Runtimes |-> k2[r]]
  BY <1>1
<1> QED
  BY <1>2, <1>3, <1>4 DEF Budgeted

-----------------------------------------------------------------------------
(* The inductive invariant: the boots, the rack, and what ties them together.  *)

Kinds  == {"load", "pick", "reboot", "spawn", "into", "swap"}
Phases == {None, "fetching", "starting", "done", "dropped"}
Orders == {<<Primary>>, <<Primary, Second>>, <<Second, Primary>>}

BootType ==
  [kind : Kinds \cup {None}, at : Consoles, game : Games \cup {NoGame}, phase : Phases,
   handoffs : Nat, target : Runtimes \cup {NoRuntime}]

\* The boot whose runtime r is has made it.
Made(r) == boot[r].target = r /\ boot[r].phase \in {"starting", "done", "dropped"}

\* Boot b is of a kind, for a console and a runtime that fit.
BootFits(b) ==
  /\ boot[b].kind \in Kinds /\ boot[b].game \in Games /\ boot[b].phase # None
  /\ boot[b].at = IF boot[b].kind \in {"load", "pick", "reboot"} THEN Primary ELSE Second
  /\ boot[b].kind \in {"into", "swap"} => boot[b].target # NoRuntime
  /\ boot[b].phase = "starting" =>
       /\ boot[b].target # NoRuntime
       /\ boot[b].kind \in {"reboot", "swap", "spawn"} => boot[b].target = b
  /\ boot[b].target # NoRuntime => Home(boot[b].target) = boot[b].at
  /\ boot[b].target \in Boots => Made(boot[b].target)

BootsTyped ==
  /\ begun \in 0 .. MaxBoots
  /\ handoffs \in Nat
  /\ boot \in [Boots -> BootType]
  /\ \A b \in Boots : IF b <= begun THEN BootFits(b) ELSE boot[b].phase = None
  /\ epoch \in [Consoles -> 0 .. begun]
  /\ \A c \in Consoles : epoch[c] # 0 => boot[epoch[c]].at = c
  /\ raced \subseteq Consoles

\* A console's runtime is its own, and the boot that made it is done.
RackTyped ==
  /\ rack \in [Consoles -> Runtimes \cup {NoRuntime}]
  /\ rack[Primary] # NoRuntime
  /\ order \in Orders
  /\ order = <<Primary>> <=> rack[Second] = NoRuntime
  /\ card \in [Consoles -> Games \cup {NoGame}]
  /\ \A c \in Consoles : rack[c] # NoRuntime =>
       /\ Home(rack[c]) = c
       /\ rack[c] # 0 => boot[rack[c]].phase = "done" /\ boot[rack[c]].target = rack[c]

RuntimesSound ==
  /\ DOMAIN rt = Runtimes /\ rt = [r \in Runtimes |-> rt[r]]
  /\ \A r \in Runtimes : Sound(rt[r])
  /\ \A r \in Boots : ~Made(r) => rt[r] = NewRuntime

\* Where boots have not raced, a boot that starts a core is the newest, and the runtime it
\* found is still the console's.
Orderly(c) ==
  \A b \in Boots : boot[b].at = c =>
    /\ boot[b].phase = "starting" =>
         /\ epoch[c] = b
         /\ boot[b].target # b => boot[b].target = rack[c]
    /\ boot[b].phase = "fetching" /\ boot[b].kind = "swap" => epoch[c] = b
    /\ boot[b].phase = "fetching" /\ boot[b].kind \in {"into", "swap"} /\ epoch[c] = b
         => boot[b].target = rack[c]

\* A console that is being spawned has no other boot, and no runtime yet.
SpawnAlone(b) ==
  boot[b].kind = "spawn" /\ InFlight(b) =>
    /\ rack[Second] = NoRuntime /\ epoch[Second] = b
    /\ \A o \in Boots : boot[o].at = Second /\ InFlight(o) => o = b

\* What the results say, at every step and not only once the boots have ended.
NewestIsLoaded(c) ==
  epoch[c] # 0 /\ boot[epoch[c]].phase = "done"
    => rack[c] # NoRuntime /\ rt[rack[c]].game = boot[epoch[c]].game
CardIsOfCore(c) ==
  rack[c] # NoRuntime /\ rt[rack[c]].alive => card[c] = rt[rack[c]].game
HasAHome(r) == rt[r].running => rack[Home(r)] = r \/ Home(r) \in raced

BootInv ==
  /\ BootsTyped /\ RackTyped /\ RuntimesSound
  /\ \A b \in Boots : SpawnAlone(b)
  /\ \A c \in Consoles \ raced : Orderly(c) /\ NewestIsLoaded(c) /\ CardIsOfCore(c)
  /\ \A r \in Runtimes : HasAHome(r)

\* A page that watches, boots under way or not.
Watching ==
  /\ role = "solo" => ~latch
  /\ ~MayRunLocalCore => \A c \in Consoles :
       rack[c] # NoRuntime /\ rack[c] \notin blind => ~rt[rack[c]].running

\* What a step may do to the runtimes besides starting a core: pause and resume on the rack.
Racked == {rack[c] : c \in Consoles}
OnlyPausesOrResumes ==
  /\ rt' = [r \in Runtimes |-> rt'[r]]
  /\ \A r \in Runtimes : /\ Kept(rt[r], rt'[r])
                         /\ r \notin Racked => rt'[r] = rt[r]

LEMMA ConsolesAreTwo ==
  /\ Primary \in Consoles /\ Second \in Consoles /\ Primary # Second
  /\ \A c \in Consoles : c = Primary \/ c = Second
  /\ NoRuntime \notin Runtimes /\ Boots \subseteq Runtimes /\ 0 \in Runtimes /\ 0 \notin Boots
  /\ \A r \in Runtimes : r = 0 \/ r \in Boots
  /\ \A n : n \in 0 .. begun /\ begun \in 0 .. MaxBoots /\ n # 0 => n \in Boots /\ n <= begun
  BY RackConstants DEF Consoles, NoRuntime, Runtimes, Boots

\* The rack is a runtime of each console's own.
LEMMA RackIsOwn ==
  ASSUME RackTyped
  PROVE  /\ Primary \in Consoles /\ rack[Primary] \in Runtimes
         /\ \A c, d \in Consoles : rack[c] = rack[d] /\ rack[c] # NoRuntime => c = d
         /\ \A c \in Consoles : rack[c] \in Boots => Made(rack[c])
         /\ \A r \in Racked : r # NoRuntime => r \in Runtimes /\ rack[Home(r)] = r
  BY ConsolesAreTwo DEF RackTyped, Made, Racked

LEMMA NothingMoved ==
  ASSUME RuntimesSound, rt' = rt
  PROVE  OnlyPausesOrResumes
  BY ResumedIsKept DEF RuntimesSound, OnlyPausesOrResumes

LEMMA SoundAfterPauses ==
  ASSUME RackTyped, RuntimesSound, OnlyPausesOrResumes,
         \A r \in Boots : Made(r) => Made(r)'
  PROVE  RuntimesSound'
<1>1. \A r \in Boots : ~Made(r) => r \notin Racked
  BY RackIsOwn, ConsolesAreTwo DEF Racked
<1>2. ASSUME NEW r \in Boots, ~Made(r)' PROVE rt'[r] = NewRuntime
  BY <1>1, <1>2, ConsolesAreTwo DEF OnlyPausesOrResumes, RuntimesSound
<1>3. \A r \in Runtimes : Sound(rt'[r])
  BY DEF OnlyPausesOrResumes, Kept
<1> QED
  BY <1>2, <1>3 DEF OnlyPausesOrResumes, RuntimesSound

\* Pausing and resuming touches nothing else of the invariant.
LEMMA InvAfterPauses ==
  ASSUME BootInv, OnlyPausesOrResumes, handoffs' \in Nat,
         UNCHANGED <<boot, begun, epoch, raced, rack, order, card>>
  PROVE  BootInv'
<1>1. BootsTyped' /\ RackTyped'
  BY DEF BootInv, BootsTyped, BootFits, RackTyped, Home, Made
<1>2. RuntimesSound'
  BY SoundAfterPauses DEF BootInv, Made
<1>3. \A b \in Boots : SpawnAlone(b)'
  BY DEF BootInv, SpawnAlone, InFlight
<1>4. ASSUME NEW c \in Consoles \ raced'
      PROVE  Orderly(c)' /\ NewestIsLoaded(c)' /\ CardIsOfCore(c)'
  <2>1. Orderly(c) /\ NewestIsLoaded(c) /\ CardIsOfCore(c) /\ c \in Consoles
    BY <1>4 DEF BootInv
  <2>2. rack[c] # NoRuntime =>
          rt'[rack[c]].game = rt[rack[c]].game /\ rt'[rack[c]].alive = rt[rack[c]].alive
    BY <2>1, ConsolesAreTwo DEF BootInv, RackTyped, OnlyPausesOrResumes, Kept
  <2> QED
    BY <2>1, <2>2 DEF Orderly, NewestIsLoaded, CardIsOfCore
<1>5. ASSUME NEW r \in Runtimes PROVE HasAHome(r)'
  <2>1. HasAHome(r)
    BY DEF BootInv
  <2>2. r \in Racked => rack[Home(r)] = r
    BY RackIsOwn, ConsolesAreTwo DEF BootInv
  <2>3. r \notin Racked => rt'[r] = rt[r]
    BY DEF OnlyPausesOrResumes
  <2> QED
    BY <2>1, <2>2, <2>3 DEF HasAHome, Home
<1> QED
  BY <1>1, <1>2, <1>3, <1>4, <1>5 DEF BootInv

-----------------------------------------------------------------------------
(* A boot begins.                                                              *)

Beginning(kind, c, g, t) ==
  /\ c = IF kind \in {"load", "pick", "reboot"} THEN Primary ELSE Second
  /\ IF kind \in {"into", "swap"} THEN t = rack[Second] /\ t # NoRuntime ELSE t = NoRuntime
  /\ kind = "spawn" => rack[Second] = NoRuntime /\ Settled(Second)
  /\ Begin(kind, c, g, t)

LEMMA InvAfterBegin ==
  ASSUME BootInv, NEW kind \in Kinds, NEW c, NEW g \in Games, NEW t,
         Beginning(kind, c, g, t), OnlyPausesOrResumes, handoffs' = handoffs,
         UNCHANGED <<rack, order, card>>
  PROVE  BootInv'
<1>0. PICK n : n = begun + 1
  OBVIOUS
<1> USE ConsolesAreTwo
<1>1. BootsTyped /\ RackTyped /\ RuntimesSound
  BY DEF BootInv
<1>2. /\ n \in Boots /\ begun' = n /\ begun \in Nat /\ c \in Consoles
      /\ begun' \in 0 .. MaxBoots
      /\ \A b \in Boots : (b <= begun' <=> b <= begun \/ b = n) /\ (b <= begun => b # n)
      /\ \A e \in 0 .. begun : e \in 0 .. begun' /\ e # n
  BY <1>0, <1>1, RackConstants DEF Beginning, Begin, BootsTyped, Boots
<1>3. /\ boot'[n].kind = kind /\ boot'[n].at = c /\ boot'[n].game = g
      /\ boot'[n].phase = "fetching" /\ boot'[n].target = t
      /\ boot' \in [Boots -> BootType]
      /\ \A b \in Boots : b # n => boot'[b] = boot[b]
      /\ t \in Runtimes \cup {NoRuntime} /\ (t # NoRuntime => t = rack[Second])
  <2>1. t \in Runtimes \cup {NoRuntime} /\ (t # NoRuntime => t = rack[Second])
    BY <1>1 DEF Beginning, RackTyped
  <2> DEFINE new == [kind |-> kind, at |-> c, game |-> g, phase |-> "fetching",
                     handoffs |-> handoffs, target |-> t]
  <2>2. boot' = [boot EXCEPT ![n] = new] /\ boot \in [Boots -> BootType]
    BY <1>0, <1>1 DEF Beginning, Begin, BootsTyped
  <2>3. new \in BootType
    BY <1>1, <1>2, <2>1 DEF BootType, Phases, BootsTyped
  <2>4. new.kind = kind /\ new.at = c /\ new.game = g /\ new.phase = "fetching" /\ new.target = t
    OBVIOUS
  <2> HIDE DEF new
  <2> QED
    BY <1>2, <2>1, <2>2, <2>3, <2>4
<1>4. boot[n].phase = None
  BY <1>1, <1>2 DEF BootsTyped
<1>5. /\ \A r \in Boots : Made(r) => r # n
      /\ \A r \in Boots : Made(r)' <=> Made(r)
      /\ \A r \in Runtimes : r # n => Home(r)' = Home(r)
  BY <1>2, <1>3, <1>4 DEF Made, Home, None
<1>6. \/ kind = "pick" /\ epoch' = epoch /\ raced' = raced
      \/ /\ kind # "pick" /\ epoch' = [epoch EXCEPT ![c] = n]
         /\ raced' = IF \E o \in Boots : BeyondRecall(o, c) THEN raced \cup {c} ELSE raced
  BY <1>0 DEF Beginning, Begin, OpenTransaction
<1>7. epoch \in [Consoles -> 0 .. begun]
  BY <1>1 DEF BootsTyped
<1>8. \A r \in Racked : r # n
  BY <1>1, <1>2, <1>5, RackIsOwn DEF Racked
<1>9. BootsTyped'
  <2>1. BootFits(n)'
    <3>1. t # NoRuntime => Home(t) = Second /\ (t \in Boots => t # n /\ Made(t))
      BY <1>1, <1>3, <1>5, <1>8, RackIsOwn DEF RackTyped, Racked
    <3>2. t # NoRuntime => kind \in {"into", "swap"} /\ c = Second
      BY DEF Beginning
    <3>3. kind \in {"into", "swap"} => t # NoRuntime
      BY DEF Beginning
    <3>4. c = IF kind \in {"load", "pick", "reboot"} THEN Primary ELSE Second
      BY DEF Beginning
    <3>5. t # NoRuntime => (IF t = 0 THEN Primary ELSE boot'[t].at) = Second
      BY <1>3, <3>1 DEF Home
    <3>6. t \in Boots => boot'[t] = boot[t]
      BY <1>3, <3>1
    <3> QED
      BY <1>3, <3>1, <3>2, <3>3, <3>4, <3>5, <3>6 DEF BootFits, Made, Home, None
  <2>2. ASSUME NEW b \in Boots, b <= begun PROVE BootFits(b)'
    <3>1. BootFits(b) /\ boot'[b] = boot[b] /\ b # n
      BY <1>1, <1>2, <1>3, <2>2 DEF BootsTyped
    <3>2. boot[b].target \in Runtimes \cup {NoRuntime}
      BY <1>1 DEF BootsTyped, BootType
    <3>3. boot[b].target \in Boots => boot[b].target # n
      BY <1>4, <3>1 DEF BootFits, Made, None
    <3> DEFINE q == boot[b].target
    <3>4. q \in Boots => boot'[q] = boot[q]
      BY <1>3, <3>3
    <3>5. q # NoRuntime => (IF q = 0 THEN Primary ELSE boot'[q].at) = boot[b].at
      BY <3>1, <3>2, <3>4 DEF BootFits, Home
    <3> QED
      BY <3>1, <3>2, <3>4, <3>5 DEF BootFits, Made, Home
  <2>3. \A b \in Boots : ~(b <= begun') => boot'[b].phase = None
    BY <1>1, <1>2, <1>3 DEF BootsTyped
  <2>4. epoch' \in [Consoles -> 0 .. begun']
    BY <1>2, <1>6, <1>7
  <2>5. \A d \in Consoles : epoch'[d] # 0 => boot'[epoch'[d]].at = d
    <3> SUFFICES ASSUME NEW d \in Consoles, epoch'[d] # 0 PROVE boot'[epoch'[d]].at = d
      OBVIOUS
    <3>1. (epoch'[d] = n /\ d = c) \/ epoch'[d] = epoch[d]
      BY <1>6, <1>7
    <3>2. epoch[d] # 0 => epoch[d] \in Boots /\ epoch[d] # n /\ boot[epoch[d]].at = d
      BY <1>1, <1>2, <1>7 DEF BootsTyped
    <3> QED
      BY <1>3, <3>1, <3>2
  <2>6. raced' \subseteq Consoles
    BY <1>1, <1>2, <1>6 DEF BootsTyped
  <2>7. handoffs' \in Nat
    BY <1>1 DEF BootsTyped
  <2>8. \A b \in Boots : IF b <= begun' THEN BootFits(b)' ELSE boot'[b].phase = None
    BY <1>2, <2>1, <2>2, <2>3
  <2> QED
    BY <1>2, <1>3, <2>4, <2>5, <2>6, <2>7, <2>8 DEF BootsTyped
<1>10. RackTyped'
  <2> SUFFICES ASSUME NEW d \in Consoles, rack[d] # NoRuntime
               PROVE  /\ Home(rack[d])' = d
                      /\ rack[d] # 0 => boot'[rack[d]].phase = "done" /\ boot'[rack[d]].target = rack[d]
    BY <1>1 DEF RackTyped, Home
  <2>1. rack[d] \in Runtimes /\ rack[d] # n
    BY <1>1, <1>8 DEF RackTyped, Racked
  <2> QED
    BY <1>1, <1>3, <1>5, <2>1 DEF RackTyped, Home
<1>11. RuntimesSound'
  BY <1>1, <1>5, SoundAfterPauses
<1>12. ASSUME NEW b \in Boots PROVE SpawnAlone(b)'
  <2>1. SpawnAlone(b)
    BY DEF BootInv
  <2>2. CASE b = n
    <3> SUFFICES ASSUME kind = "spawn"
                 PROVE  /\ rack[Second] = NoRuntime /\ epoch'[Second] = n
                        /\ \A o \in Boots : boot'[o].at = Second /\ InFlight(o)' => o = n
      BY <1>3, <2>2 DEF SpawnAlone
    <3>1. c = Second /\ rack[Second] = NoRuntime /\ Settled(Second)
      BY DEF Beginning
    <3>2. epoch'[Second] = n
      BY <1>6, <1>7, <3>1
    <3> QED
      BY <1>3, <3>1, <3>2 DEF Settled, InFlight
  <2>3. CASE b # n /\ kind \notin {"load", "pick", "reboot"}
    <3>1. boot[b].kind = "spawn" => ~InFlight(b)
      <4>1. boot[b].kind = "spawn" => boot[b].at = Second \/ ~InFlight(b)
        BY <1>1 DEF BootsTyped, BootFits, InFlight, None
      <4> QED
        BY <2>1, <2>3, <4>1 DEF SpawnAlone, Beginning, Settled, Kinds
    <3> QED
      BY <1>3, <2>3, <3>1 DEF SpawnAlone, InFlight
  <2>4. CASE b # n /\ kind \in {"load", "pick", "reboot"}
    <3>1. c = Primary /\ epoch'[Second] = epoch[Second]
      BY <1>6, <1>7, <2>4 DEF Beginning
    <3> QED
      BY <1>3, <2>1, <2>4, <3>1 DEF SpawnAlone, InFlight
  <2> QED
    BY <2>2, <2>3, <2>4
<1>13. ASSUME NEW d \in Consoles \ raced'
       PROVE  Orderly(d)' /\ NewestIsLoaded(d)' /\ CardIsOfCore(d)'
  <2>1. Orderly(d) /\ NewestIsLoaded(d) /\ CardIsOfCore(d) /\ d \in Consoles /\ d \notin raced
    BY <1>6, <1>13 DEF BootInv
  <2>2. rack[d] # NoRuntime =>
          rt'[rack[d]].game = rt[rack[d]].game /\ rt'[rack[d]].alive = rt[rack[d]].alive
    BY <1>1, <2>1 DEF RackTyped, OnlyPausesOrResumes, Kept
  <2>3. CardIsOfCore(d)'
    BY <2>1, <2>2 DEF CardIsOfCore
  <2>4. CASE d # c \/ kind = "pick"
    <3>1. epoch'[d] = epoch[d] /\ epoch[d] # n
      BY <1>2, <1>6, <1>7, <2>1, <2>4
    <3>2. epoch[d] # 0 => epoch[d] \in Boots /\ boot'[epoch[d]] = boot[epoch[d]]
      <4>1. epoch[d] \in 0 .. begun
        BY <1>7, <2>1
      <4>2. epoch[d] # 0 => epoch[d] \in Boots
        BY <1>1, <4>1 DEF BootsTyped
      <4> QED
        BY <1>3, <3>1, <4>2
    <3>3. NewestIsLoaded(d)'
      BY <2>1, <2>2, <3>1, <3>2 DEF NewestIsLoaded
    <3>4. Orderly(d)'
      BY <1>3, <2>1, <2>4, <3>1 DEF Orderly
    <3> QED
      BY <2>3, <3>3, <3>4
  <2>5. CASE d = c /\ kind # "pick"
    <3>1. epoch'[d] = n /\ \A o \in Boots : ~BeyondRecall(o, d)
      BY <1>6, <1>7, <1>13, <2>1, <2>5
    <3>2. NewestIsLoaded(d)'
      BY <1>3, <3>1 DEF NewestIsLoaded
    <3>3. Orderly(d)'
      BY <1>3, <2>5, <3>1 DEF Orderly, BeyondRecall, Beginning
    <3> QED
      BY <2>3, <3>2, <3>3
  <2> QED
    BY <2>4, <2>5
<1>14. ASSUME NEW r \in Runtimes PROVE HasAHome(r)'
  <2>1. HasAHome(r)
    BY DEF BootInv
  <2>2. raced \subseteq raced'
    BY <1>6
  <2>3. CASE r \in Racked
    <3>1. rack[Home(r)] = r /\ Home(r)' = Home(r)
      BY <1>1, <1>5, <1>8, <2>3, RackIsOwn
    <3> QED
      BY <3>1 DEF HasAHome
  <2>4. CASE r \notin Racked
    <3>1. rt'[r] = rt[r]
      BY <2>4 DEF OnlyPausesOrResumes
    <3>2. ~rt[n].running
      BY <1>1, <1>2, <1>5, NewIsSound DEF RuntimesSound
    <3>3. r # n => Home(r)' = Home(r)
      BY <1>5
    <3> QED
      BY <2>1, <2>2, <3>1, <3>2, <3>3 DEF HasAHome
  <2> QED
    BY <2>3, <2>4
<1> QED
  BY <1>9, <1>10, <1>11, <1>12, <1>13, <1>14 DEF BootInv

-----------------------------------------------------------------------------
(* A boot ends without a core.                                                 *)

\* A pick that cannot start has opened its transaction all the same.
Dropping(b) ==
  /\ InFlight(b) /\ Moves(b, "dropped")
  /\ \/ UNCHANGED <<epoch, raced>>
     \/ boot[b].kind = "pick" /\ Fetched(b) /\ OpenTransaction(b, Primary)
  /\ \/ OnlyPausesOrResumes
     \/ boot[b].phase = "starting" /\ boot[b].target = b /\ rt' = [rt EXCEPT ![b] = Disposed(@)]

LEMMA InvAfterDrop ==
  ASSUME BootInv, NEW b \in Boots, Dropping(b), UNCHANGED <<handoffs, begun, rack, order, card>>
  PROVE  BootInv'
<1> USE ConsolesAreTwo
<1>1. BootsTyped /\ RackTyped /\ RuntimesSound
  BY DEF BootInv
<1>2. /\ boot[b] \in BootType /\ boot[b].phase \in {"fetching", "starting"} /\ BootFits(b)
      /\ b <= begun
  BY <1>1 DEF Dropping, BootsTyped, InFlight, None
<1>3. /\ boot' \in [Boots -> BootType]
      /\ \A o \in Boots : o # b => boot'[o] = boot[o]
      /\ boot'[b].phase = "dropped" /\ boot'[b].kind = boot[b].kind /\ boot'[b].at = boot[b].at
      /\ boot'[b].game = boot[b].game /\ boot'[b].target = boot[b].target
  <2> DEFINE new == [boot[b] EXCEPT !.phase = "dropped"]
  <2>1. new \in BootType /\ new.phase = "dropped" /\ new.kind = boot[b].kind
        /\ new.at = boot[b].at /\ new.game = boot[b].game /\ new.target = boot[b].target
    BY <1>2 DEF BootType, Phases
  <2>2. boot' = [boot EXCEPT ![b] = new] /\ boot \in [Boots -> BootType]
    BY <1>1 DEF Dropping, Moves, BootsTyped
  <2> HIDE DEF new
  <2> QED
    BY <2>1, <2>2
<1>4. boot[b].phase = "fetching" => boot[b].target # b
  BY <1>2 DEF BootFits, Made
<1>5. /\ \A r \in Boots : Made(r)' <=> Made(r)
      /\ \A r \in Runtimes : Home(r)' = Home(r)
  BY <1>2, <1>3, <1>4 DEF Made, Home
<1>6. \A r \in Racked : r # b
  BY <1>1, <1>2 DEF RackTyped, Racked
<1>7. /\ \A r \in Runtimes : r # b => Kept(rt[r], rt'[r]) /\ (r \notin Racked => rt'[r] = rt[r])
      /\ Sound(rt'[b]) /\ (rt'[b].running => rt'[b] = rt[b])
      /\ rt' = [r \in Runtimes |-> rt'[r]]
      /\ Made(b) \/ rt'[b] = rt[b]
  <2>1. CASE OnlyPausesOrResumes
    BY <1>6, <2>1 DEF OnlyPausesOrResumes, Kept
  <2>2. CASE boot[b].target = b /\ rt' = [rt EXCEPT ![b] = Disposed(@)]
            /\ boot[b].phase = "starting"
    <3>1. rt'[b] = Disposed(rt[b]) /\ (\A r \in Runtimes : r # b => rt'[r] = rt[r]) /\ Made(b)
          /\ rt' = [r \in Runtimes |-> rt'[r]]
      BY <1>1, <2>2 DEF RuntimesSound, Made
    <3> QED
      BY <1>1, <3>1, DisposedIsSound, ResumedIsKept DEF RuntimesSound
  <2> QED
    BY <2>1, <2>2 DEF Dropping
<1>8. \/ epoch' = epoch /\ raced' = raced
      \/ /\ boot[b].kind = "pick" /\ boot[b].phase = "fetching" /\ boot[b].at = Primary
         /\ epoch' = [epoch EXCEPT ![Primary] = b]
         /\ raced' = IF \E o \in Boots : BeyondRecall(o, Primary) THEN raced \cup {Primary}
                     ELSE raced
  BY <1>2 DEF Dropping, OpenTransaction, Fetched, BootFits
<1>9. BootsTyped'
  <2>1. ASSUME NEW o \in Boots, o <= begun PROVE BootFits(o)'
    <3>1. BootFits(o)
      BY <1>1, <2>1 DEF BootsTyped
    <3> DEFINE q == boot[o].target
    <3>2. boot'[o].target = q /\ boot'[o].kind = boot[o].kind /\ boot'[o].at = boot[o].at
          /\ boot'[o].game = boot[o].game /\ (boot'[o].phase # boot[o].phase => o = b)
      BY <1>3
    <3>3. q \in Runtimes \cup {NoRuntime}
      BY <1>1 DEF BootsTyped, BootType
    <3>4. q # NoRuntime => (IF q = 0 THEN Primary ELSE boot'[q].at) = boot[o].at
      BY <1>3, <3>1, <3>3 DEF BootFits, Home
    <3>5. q \in Boots => boot'[q].target = q /\ boot'[q].phase \in {"starting", "done", "dropped"}
      BY <1>3, <3>1 DEF BootFits, Made
    <3>6. boot'[o].phase # None /\ (boot'[o].phase = "starting" => boot[o].phase = "starting")
      BY <1>3, <3>1 DEF BootFits, None
    <3> HIDE DEF q
    <3> QED
      BY <3>1, <3>2, <3>3, <3>4, <3>5, <3>6 DEF BootFits, Made, Home, q
  <2>2. \A o \in Boots : ~(o <= begun) => boot'[o].phase = None
    BY <1>1, <1>2, <1>3 DEF BootsTyped
  <2>3. epoch' \in [Consoles -> 0 .. begun] /\ raced' \subseteq Consoles
    BY <1>1, <1>2, <1>8 DEF BootsTyped, Boots
  <2>4. ASSUME NEW d \in Consoles, epoch'[d] # 0 PROVE boot'[epoch'[d]].at = d
    <3>1. epoch[d] \in 0 .. begun /\ (epoch[d] # 0 => epoch[d] \in Boots /\ boot[epoch[d]].at = d)
      BY <1>1 DEF BootsTyped
    <3>2. epoch'[d] = epoch[d] \/ (epoch'[d] = b /\ d = boot[b].at)
      BY <1>1, <1>8 DEF BootsTyped
    <3> QED
      BY <1>3, <2>4, <3>1, <3>2
  <2>5. begun' = begun /\ handoffs' = handoffs /\ begun \in 0 .. MaxBoots /\ handoffs \in Nat
    BY <1>1 DEF BootsTyped
  <2> QED
    BY <1>3, <2>1, <2>2, <2>3, <2>4, <2>5 DEF BootsTyped
<1>10. RackTyped'
  <2> SUFFICES ASSUME NEW d \in Consoles, rack[d] # NoRuntime
               PROVE  /\ Home(rack[d])' = d
                      /\ rack[d] # 0 => boot'[rack[d]].phase = "done" /\ boot'[rack[d]].target = rack[d]
    BY <1>1 DEF RackTyped, Home
  <2>1. rack[d] \in Runtimes /\ rack[d] # b
    BY <1>1, <1>6 DEF RackTyped, Racked
  <2> QED
    BY <1>1, <1>3, <2>1 DEF RackTyped, Home
<1>11. RuntimesSound'
  <2>1. ASSUME NEW r \in Boots, ~Made(r)' PROVE rt'[r] = NewRuntime
    <3>1. ~Made(r) /\ rt[r] = NewRuntime /\ r \notin Racked
      BY <1>1, <1>5, <2>1, RackIsOwn DEF RuntimesSound, Racked
    <3> QED
      BY <1>7, <3>1
  <2> QED
    BY <1>7, <2>1 DEF RuntimesSound, Kept
<1>12. ASSUME NEW o \in Boots PROVE SpawnAlone(o)'
  <2>1. SpawnAlone(o) /\ epoch'[Second] = epoch[Second]
    BY <1>1, <1>8 DEF BootInv, BootsTyped
  <2>2. \A p \in Boots : /\ InFlight(p)' => InFlight(p)
                         /\ boot'[p].kind = boot[p].kind /\ boot'[p].at = boot[p].at
    BY <1>3 DEF InFlight
  <2> QED
    BY <2>1, <2>2 DEF SpawnAlone
<1>13. ASSUME NEW d \in Consoles \ raced'
       PROVE  Orderly(d)' /\ NewestIsLoaded(d)' /\ CardIsOfCore(d)'
  <2>1. Orderly(d) /\ NewestIsLoaded(d) /\ CardIsOfCore(d) /\ d \in Consoles /\ d \notin raced
    BY <1>8, <1>13 DEF BootInv
  <2>2. rack[d] # NoRuntime =>
          rt'[rack[d]].game = rt[rack[d]].game /\ rt'[rack[d]].alive = rt[rack[d]].alive
    BY <1>1, <1>6, <1>7, <2>1 DEF RackTyped, Racked, Kept
  <2>3. CardIsOfCore(d)'
    BY <2>1, <2>2 DEF CardIsOfCore
  <2>4. epoch[d] \in 0 .. begun /\ begun \in 0 .. MaxBoots
    BY <1>1, <2>1 DEF BootsTyped
  <2>5. epoch[d] # 0 => epoch[d] \in Boots
    BY <2>4
  <2>6. CASE epoch'[d] = epoch[d]
    <3>1. NewestIsLoaded(d)'
      BY <1>3, <2>1, <2>2, <2>5, <2>6 DEF NewestIsLoaded
    <3>2. Orderly(d)'
      BY <1>3, <2>1, <2>6 DEF Orderly
    <3> QED
      BY <2>3, <3>1, <3>2
  <2>7. CASE epoch'[d] # epoch[d]
    <3>1. epoch'[d] = b /\ d = Primary /\ \A o \in Boots : ~BeyondRecall(o, d)
      BY <1>1, <1>8, <1>13, <2>1, <2>7 DEF BootsTyped
    <3>2. NewestIsLoaded(d)'
      BY <1>3, <3>1 DEF NewestIsLoaded
    <3>3. \A o \in Boots : boot[o].at = Primary => ~(boot[o].kind \in {"into", "swap"}) \/ boot[o].phase = None
      BY <1>1 DEF BootsTyped, BootFits
    <3>4. Orderly(d)'
      BY <1>3, <3>1, <3>3 DEF Orderly, BeyondRecall, None
    <3> QED
      BY <2>3, <3>2, <3>4
  <2> QED
    BY <2>6, <2>7
<1>14. ASSUME NEW r \in Runtimes PROVE HasAHome(r)'
  <2>1. HasAHome(r) /\ raced \subseteq raced' /\ Home(r)' = Home(r)
    BY <1>5, <1>8 DEF BootInv
  <2>2. CASE r \in Racked
    BY <1>1, <2>1, <2>2, RackIsOwn DEF HasAHome
  <2>3. CASE r \notin Racked
    <3>1. rt'[r].running => rt'[r] = rt[r]
      BY <1>7, <2>3
    <3> QED
      BY <2>1, <3>1 DEF HasAHome
  <2> QED
    BY <2>2, <2>3
<1> QED
  BY <1>9, <1>10, <1>11, <1>12, <1>13, <1>14 DEF BootInv

-----------------------------------------------------------------------------
(* A boot starts a core.                                                       *)

\* What Launch does to the state the invariant is about.
Launching(b) ==
  /\ Cleared(b)
  /\ Chosen(b) = b \/ ~StartThrows(rt[Chosen(b)], boot[b].game)
  /\ boot' = [boot EXCEPT ![b].phase = "starting", ![b].target = Chosen(b)]
  /\ \E contested \in BOOLEAN :
       rt' = [rt EXCEPT ![Chosen(b)] = Starting(@, boot[b].game, b, contested)]
  /\ OpensLate(b)

\* The runtime a boot starts: its own, or the console's that fits.
LEMMA ChosenFits ==
  ASSUME BootInv, NEW b \in Boots, Fetched(b)
  PROVE  /\ boot[b] \in BootType /\ BootFits(b) /\ b <= begun /\ ~Made(b)
         /\ Chosen(b) \in Runtimes
         /\ Chosen(b) \in Boots /\ Chosen(b) # b => Made(Chosen(b))
         /\ Chosen(b) # b => /\ Home(Chosen(b)) = boot[b].at
                             /\ boot[b].kind \in {"load", "pick", "into"}
                             /\ boot[b].kind = "into" => Chosen(b) = boot[b].target
                             /\ boot[b].kind # "into" => Chosen(b) = rack[Primary]
<1> USE ConsolesAreTwo
<1>1. BootsTyped /\ RackTyped
  BY DEF BootInv
<1>2. boot[b] \in BootType /\ BootFits(b) /\ b <= begun /\ ~Made(b)
  BY <1>1 DEF Fetched, BootsTyped, None, Made
<1>3. boot[b].kind \in Kinds /\ boot[b].target \in Runtimes \cup {NoRuntime}
  BY <1>2 DEF BootType, BootFits
<1>4. rack[Primary] \in Runtimes /\ Home(rack[Primary]) = Primary
      /\ (rack[Primary] \in Boots => Made(rack[Primary]))
  BY <1>1, RackIsOwn DEF RackTyped
<1>5. CASE NeedsRuntime(b)
  BY <1>2, <1>5 DEF Chosen
<1>6. CASE ~NeedsRuntime(b) /\ boot[b].kind = "into"
  BY <1>2, <1>3, <1>6 DEF Chosen, BootFits
<1>7. CASE ~NeedsRuntime(b) /\ boot[b].kind # "into"
  <2>1. boot[b].kind \in {"load", "pick"}
    BY <1>3, <1>7 DEF NeedsRuntime, Kinds
  <2>2. Chosen(b) = rack[Primary]
    BY <1>7 DEF Chosen
  <2> QED
    BY <1>2, <1>4, <2>1, <2>2 DEF BootFits
<1> QED
  BY <1>5, <1>6, <1>7

\* A core that starts is not up yet: nothing runs that did not run before.
LEMMA RuntimesAfterLaunch ==
  ASSUME BootInv, NEW b \in Boots, Launching(b)
  PROVE  /\ rt' = [r \in Runtimes |-> rt'[r]]
         /\ \A r \in Runtimes : /\ Sound(rt'[r]) /\ rt'[r].game = rt[r].game
                                /\ rt'[r].alive => rt[r].alive
                                /\ rt'[r].running => rt[r].running
                                /\ r # Chosen(b) => rt'[r] = rt[r]
<1>1. PICK t : t = Chosen(b)
  OBVIOUS
<1>2. t \in Runtimes /\ ~Made(b) /\ BootFits(b)
  BY <1>1, ChosenFits DEF Launching, Cleared
<1>3. RuntimesSound
  BY DEF BootInv
<1>4. PICK contested \in BOOLEAN :
        rt' = [rt EXCEPT ![t] = Starting(rt[t], boot[b].game, b, contested)]
  BY <1>1 DEF Launching
<1>5. rt[t].client \in {None, Mode(boot[b].game)}
  <2>1. CASE t = b
    BY <1>2, <1>3, <2>1 DEF RuntimesSound, NewRuntime
  <2>2. CASE t # b
    BY <1>1, <2>2 DEF Launching, StartThrows
  <2> QED
    BY <2>1, <2>2
<1>6. Sound(rt[t])
  BY <1>2, <1>3 DEF RuntimesSound
<1>7. PICK y : y = Starting(rt[t], boot[b].game, b, contested)
  OBVIOUS
<1>8. Sound(y) /\ y.game = rt[t].game /\ (y.alive => rt[t].alive) /\ (y.running => rt[t].running)
  BY <1>5, <1>6, <1>7, StartingIsSound
<1>9. rt' = [rt EXCEPT ![t] = y]
  BY <1>4, <1>7
<1> QED
  BY <1>1, <1>2, <1>3, <1>8, <1>9 DEF RuntimesSound

LEMMA InvAfterLaunch ==
  ASSUME BootInv, NEW b \in Boots, Launching(b), UNCHANGED <<handoffs, begun, rack, order, card>>
  PROVE  BootInv'
<1> USE ConsolesAreTwo
<1>1. BootsTyped /\ RackTyped /\ RuntimesSound
  BY DEF BootInv
<1>2. PICK t : t = Chosen(b)
  OBVIOUS
<1>3. /\ boot[b] \in BootType /\ BootFits(b) /\ b <= begun /\ ~Made(b)
      /\ t \in Runtimes /\ (t \in Boots /\ t # b => Made(t))
      /\ t # b => /\ Home(t) = boot[b].at
                  /\ boot[b].kind \in {"load", "pick", "into"}
                  /\ boot[b].kind = "into" => t = boot[b].target
                  /\ boot[b].kind # "into" => t = rack[Primary]
      /\ boot[b].phase = "fetching"
  BY <1>2, ChosenFits DEF Launching, Cleared, Fetched
<1>4. /\ boot' \in [Boots -> BootType]
      /\ \A o \in Boots : o # b => boot'[o] = boot[o]
      /\ boot'[b].phase = "starting" /\ boot'[b].kind = boot[b].kind /\ boot'[b].at = boot[b].at
      /\ boot'[b].game = boot[b].game /\ boot'[b].target = t
  <2> DEFINE new == [boot[b] EXCEPT !.phase = "starting", !.target = t]
  <2>1. new \in BootType /\ new.phase = "starting" /\ new.kind = boot[b].kind
        /\ new.at = boot[b].at /\ new.game = boot[b].game /\ new.target = t
    BY <1>3 DEF BootType, Phases
  <2>2. boot' = [boot EXCEPT ![b] = new] /\ boot \in [Boots -> BootType]
    BY <1>1, <1>2 DEF Launching, BootsTyped
  <2> HIDE DEF new
  <2> QED
    BY <2>1, <2>2
<1>5. /\ \A r \in Boots : r # b => (Made(r)' <=> Made(r))
      /\ Made(b)' <=> t = b
      /\ \A r \in Runtimes : Home(r)' = Home(r)
  BY <1>4 DEF Made, Home
<1>6. \A r \in Racked : r # b
  BY <1>1, <1>3 DEF RackTyped, Racked
<1>7. /\ \A r \in Runtimes : /\ Sound(rt'[r]) /\ rt'[r].game = rt[r].game
                             /\ rt'[r].alive => rt[r].alive
                             /\ rt'[r].running => rt[r].running
                             /\ r # t => rt'[r] = rt[r]
      /\ rt' = [r \in Runtimes |-> rt'[r]]
  BY <1>2, RuntimesAfterLaunch
<1>8. \/ epoch' = epoch /\ raced' = raced /\ boot[b].kind # "pick"
      \/ /\ boot[b].kind = "pick" /\ boot[b].at = Primary
         /\ epoch' = [epoch EXCEPT ![Primary] = b]
         /\ raced' = IF \E o \in Boots : BeyondRecall(o, Primary) THEN raced \cup {Primary}
                     ELSE raced
  BY <1>3 DEF Launching, OpensLate, OpenTransaction, BootFits
<1>9. BootsTyped'
  <2>1. ASSUME NEW o \in Boots, o # b, o <= begun PROVE BootFits(o)'
    <3>1. BootFits(o) /\ boot'[o] = boot[o]
      BY <1>1, <1>4, <2>1 DEF BootsTyped
    <3> DEFINE q == boot[o].target
    <3>2. q \in Runtimes \cup {NoRuntime}
      BY <1>1 DEF BootsTyped, BootType
    <3>3. q \in Boots => q # b /\ boot'[q] = boot[q]
      BY <1>3, <1>4, <3>1 DEF BootFits
    <3>4. q # NoRuntime => (IF q = 0 THEN Primary ELSE boot'[q].at) = boot[o].at
      BY <3>1, <3>2, <3>3 DEF BootFits, Home
    <3> QED
      BY <3>1, <3>2, <3>3, <3>4 DEF BootFits, Made, Home
  <2>2. BootFits(b)'
    <3>1. (IF t = 0 THEN Primary ELSE boot'[t].at) = boot[b].at
      BY <1>3, <1>4, <1>5 DEF Home
    <3>2. t \in Boots => boot'[t].target = t /\ boot'[t].phase \in {"starting", "done", "dropped"}
      BY <1>3, <1>4 DEF Made
    <3>3. t # NoRuntime /\ (boot[b].kind \in {"reboot", "swap", "spawn"} => t = b)
      BY <1>3
    <3> QED
      BY <1>3, <1>4, <3>1, <3>2, <3>3 DEF BootFits, Made, Home, None
  <2>3. \A o \in Boots : IF o <= begun' THEN BootFits(o)' ELSE boot'[o].phase = None
    BY <1>1, <1>3, <1>4, <2>1, <2>2 DEF BootsTyped
  <2>4. epoch' \in [Consoles -> 0 .. begun] /\ raced' \subseteq Consoles
    BY <1>1, <1>3, <1>8 DEF BootsTyped, Boots
  <2>5. ASSUME NEW d \in Consoles, epoch'[d] # 0 PROVE boot'[epoch'[d]].at = d
    <3>1. epoch[d] \in 0 .. begun /\ (epoch[d] # 0 => epoch[d] \in Boots /\ boot[epoch[d]].at = d)
      BY <1>1 DEF BootsTyped
    <3>2. epoch'[d] = epoch[d] \/ (epoch'[d] = b /\ d = boot[b].at)
      BY <1>1, <1>8 DEF BootsTyped
    <3> QED
      BY <1>4, <2>5, <3>1, <3>2
  <2>6. begun' = begun /\ handoffs' = handoffs /\ begun \in 0 .. MaxBoots /\ handoffs \in Nat
    BY <1>1 DEF BootsTyped
  <2> QED
    BY <1>4, <2>3, <2>4, <2>5, <2>6 DEF BootsTyped
<1>10. RackTyped'
  <2> SUFFICES ASSUME NEW d \in Consoles, rack[d] # NoRuntime
               PROVE  /\ Home(rack[d])' = d
                      /\ rack[d] # 0 => boot'[rack[d]].phase = "done" /\ boot'[rack[d]].target = rack[d]
    BY <1>1 DEF RackTyped, Home
  <2>1. rack[d] \in Runtimes /\ rack[d] # b
    BY <1>1, <1>6 DEF RackTyped, Racked
  <2> QED
    BY <1>1, <1>4, <2>1 DEF RackTyped, Home
<1>11. RuntimesSound'
  <2>1. ASSUME NEW r \in Boots, ~Made(r)' PROVE rt'[r] = NewRuntime
    <3>1. ~Made(r)
      BY <1>3, <1>5, <2>1
    <3>2. r # t
      BY <1>3, <1>5, <2>1, <3>1
    <3> QED
      BY <1>1, <1>7, <3>1, <3>2 DEF RuntimesSound
  <2> QED
    BY <1>7, <2>1 DEF RuntimesSound
<1>12. ASSUME NEW o \in Boots PROVE SpawnAlone(o)'
  <2>1. SpawnAlone(o) /\ epoch'[Second] = epoch[Second]
    BY <1>1, <1>8 DEF BootInv, BootsTyped
  <2>2. \A p \in Boots : /\ InFlight(p)' <=> InFlight(p)
                         /\ boot'[p].kind = boot[p].kind /\ boot'[p].at = boot[p].at
    BY <1>3, <1>4 DEF InFlight
  <2> QED
    BY <2>1, <2>2 DEF SpawnAlone
<1>13. ASSUME NEW d \in Consoles \ raced'
       PROVE  Orderly(d)' /\ NewestIsLoaded(d)' /\ CardIsOfCore(d)'
  <2>1. Orderly(d) /\ NewestIsLoaded(d) /\ CardIsOfCore(d) /\ d \in Consoles /\ d \notin raced
    BY <1>8, <1>13 DEF BootInv
  <2>2. rack[d] # NoRuntime =>
          rt'[rack[d]].game = rt[rack[d]].game /\ (rt'[rack[d]].alive => rt[rack[d]].alive)
    BY <1>1, <1>7, <2>1 DEF RackTyped
  <2>3. CardIsOfCore(d)'
    BY <2>1, <2>2 DEF CardIsOfCore
  <2>4. epoch[d] \in 0 .. begun /\ begun \in 0 .. MaxBoots /\ (epoch[d] # 0 => epoch[d] \in Boots)
    BY <1>1, <2>1 DEF BootsTyped
  <2>5. epoch'[d] = epoch[d] \/ epoch'[d] = b
    BY <1>1, <1>8, <2>1 DEF BootsTyped
  <2>6. NewestIsLoaded(d)'
    BY <1>4, <2>1, <2>2, <2>4, <2>5 DEF NewestIsLoaded
  <2>7. CASE d # boot[b].at
    <3>1. epoch'[d] = epoch[d]
      BY <1>1, <1>8, <2>1, <2>7 DEF BootsTyped
    <3>2. Orderly(d)'
      BY <1>3, <1>4, <2>1, <2>7, <3>1 DEF Orderly
    <3> QED
      BY <2>3, <2>6, <3>2
  <2>8. CASE d = boot[b].at /\ boot[b].kind = "pick"
    <3>1. epoch'[d] = b /\ d = Primary /\ \A o \in Boots : ~BeyondRecall(o, d)
      BY <1>1, <1>8, <1>13, <2>1, <2>8 DEF BootsTyped
    <3>2. \A o \in Boots : boot[o].at = Primary => ~(boot[o].kind \in {"into", "swap"}) \/ boot[o].phase = None
      BY <1>1 DEF BootsTyped, BootFits
    <3>3. t # b => t = rack[d]
      BY <1>3, <2>8, <3>1
    <3>4. Orderly(d)'
      BY <1>4, <3>1, <3>2, <3>3 DEF Orderly, BeyondRecall, None
    <3> QED
      BY <2>3, <2>6, <3>4
  <2>9. CASE d = boot[b].at /\ boot[b].kind # "pick"
    <3>1. epoch'[d] = b /\ epoch[d] = b
      <4>1. CASE boot[b].kind \in {"load", "into", "reboot"}
        BY <1>8, <2>9, <4>1 DEF Launching, Cleared, Heeds, Superseded
      <4>2. CASE boot[b].kind = "swap"
        BY <1>3, <1>8, <2>1, <2>9, <4>2 DEF Orderly
      <4>3. CASE boot[b].kind = "spawn"
        <5>1. SpawnAlone(b)
          BY DEF BootInv
        <5> QED
          BY <1>3, <1>8, <2>9, <4>3, <5>1 DEF SpawnAlone, InFlight, BootFits
      <4> QED
        BY <1>3, <2>9, <4>1, <4>2, <4>3 DEF BootFits, Kinds
    <3>2. t # b => t = rack[d]
      BY <1>3, <2>1, <2>9, <3>1 DEF Orderly, BootFits
    <3>3. Orderly(d)'
      BY <1>4, <2>1, <2>9, <3>1, <3>2 DEF Orderly
    <3> QED
      BY <2>3, <2>6, <3>3
  <2> QED
    BY <2>7, <2>8, <2>9
<1>14. ASSUME NEW r \in Runtimes PROVE HasAHome(r)'
  <2>1. HasAHome(r) /\ raced \subseteq raced' /\ Home(r)' = Home(r)
    BY <1>5, <1>8 DEF BootInv
  <2> QED
    BY <1>7, <2>1 DEF HasAHome
<1> QED
  BY <1>9, <1>10, <1>11, <1>12, <1>13, <1>14 DEF BootInv

-----------------------------------------------------------------------------
(* A core is up.                                                               *)

\* Sequences of one and of two.
LEMMA One == ASSUME NEW S, NEW s \in Seq(S), Len(s) = 1 PROVE s = <<s[1]>>
  OBVIOUS

LEMMA Two == ASSUME NEW S, NEW s \in Seq(S), Len(s) = 2 PROVE s = <<s[1], s[2]>>
<1> DEFINE u == <<s[1], s[2]>>
<1>1. s[1] \in S /\ s[2] \in S
  <2>1. 1 \in 1 .. Len(s) /\ 2 \in 1 .. Len(s)
    OBVIOUS
  <2>2. \A i \in 1 .. Len(s) : s[i] \in S
    OBVIOUS
  <2> QED
    BY <2>1, <2>2
<1>2. u \in Seq(S) /\ Len(u) = 2 /\ u[1] = s[1] /\ u[2] = s[2]
  BY <1>1
<1>3. DOMAIN s = 1 .. 2 /\ DOMAIN u = 1 .. 2 /\ \A i \in 1 .. 2 : s[i] = u[i]
  BY <1>2
<1> HIDE DEF u
<1>4. s = u
  BY <1>2, <1>3
<1> QED
  BY <1>4 DEF u

LEMMA AppendedToOne == \A x, y : Append(<<x>>, y) = <<x, y>>
<1> SUFFICES ASSUME NEW x, NEW y PROVE Append(<<x>>, y) = <<x, y>>
  OBVIOUS
<1> DEFINE s == Append(<<x>>, y)
<1>1. s \in Seq({x, y}) /\ Len(s) = 2 /\ s[1] = x /\ s[2] = y
  OBVIOUS
<1> HIDE DEF s
<1>2. s = <<x, y>>
  BY <1>1, Two
<1> QED
  BY <1>2 DEF s

LEMMA RemovedFromOne ==
  ASSUME NEW x
  PROVE  RemoveFirst(<<x>>, x) = <<>> /\ \A y : y # x => RemoveFirst(<<x>>, y) = <<x>>
<1> DEFINE I == {j \in 1 .. Len(<<x>>) : <<x>>[j] = x}
<1>1. I = {1} /\ Min({1}) = 1
  BY DEF Min
<1>2. RemoveFirst(<<x>>, x) = RemoveAt(<<x>>, 1)
  BY <1>1 DEF SelectInSeq, RemoveFirst
<1>3. RemoveAt(<<x>>, 1) = <<>>
  BY DEF RemoveAt
<1>4. \A y : y # x => RemoveFirst(<<x>>, y) = <<x>>
  BY DEF SelectInSeq, RemoveFirst
<1> QED
  BY <1>2, <1>3, <1>4

LEMMA RemovedFromTwo ==
  ASSUME NEW x, NEW y, x # y
  PROVE  RemoveFirst(<<x, y>>, x) = <<y>> /\ RemoveFirst(<<x, y>>, y) = <<x>>
<1> DEFINE I == {j \in 1 .. Len(<<x, y>>) : <<x, y>>[j] = x}
           J == {j \in 1 .. Len(<<x, y>>) : <<x, y>>[j] = y}
<1>1. I = {1} /\ J = {2} /\ Min({1}) = 1 /\ Min({2}) = 2
  BY DEF Min
<1>2. RemoveFirst(<<x, y>>, x) = RemoveAt(<<x, y>>, 1)
  BY <1>1 DEF SelectInSeq, RemoveFirst
<1>3. RemoveFirst(<<x, y>>, y) = RemoveAt(<<x, y>>, 2)
  BY <1>1 DEF SelectInSeq, RemoveFirst
<1> DEFINE s == SubSeq(<<x, y>>, 1, 0) \o SubSeq(<<x, y>>, 2, 2)
           t == SubSeq(<<x, y>>, 1, 1) \o SubSeq(<<x, y>>, 3, 2)
<1>4. /\ SubSeq(<<x, y>>, 1, 0) \in Seq({x, y}) /\ Len(SubSeq(<<x, y>>, 1, 0)) = 0
      /\ SubSeq(<<x, y>>, 2, 2) \in Seq({x, y}) /\ Len(SubSeq(<<x, y>>, 2, 2)) = 1
      /\ SubSeq(<<x, y>>, 2, 2)[1] = y
  OBVIOUS
<1>5. /\ SubSeq(<<x, y>>, 3, 2) \in Seq({x, y}) /\ Len(SubSeq(<<x, y>>, 3, 2)) = 0
      /\ SubSeq(<<x, y>>, 1, 1) \in Seq({x, y}) /\ Len(SubSeq(<<x, y>>, 1, 1)) = 1
      /\ SubSeq(<<x, y>>, 1, 1)[1] = x
  OBVIOUS
<1>6. s \in Seq({x, y}) /\ Len(s) = 1 /\ s[1] = y
  BY <1>4
<1>7. t \in Seq({x, y}) /\ Len(t) = 1 /\ t[1] = x
  BY <1>5
<1>8. RemoveAt(<<x, y>>, 1) = s /\ RemoveAt(<<x, y>>, 2) = t
  BY DEF RemoveAt
<1> HIDE DEF s, t
<1>9. s = <<y>> /\ t = <<x>>
  BY <1>6, <1>7, One
<1> QED
  BY <1>2, <1>3, <1>8, <1>9

LEMMA OrderAfterMove ==
  ASSUME order \in Orders, NEW c \in Consoles
  PROVE  /\ MovedToEnd(c) \in Orders
         /\ c = Second => MovedToEnd(c) # <<Primary>>
         /\ c = Primary => (MovedToEnd(c) = <<Primary>> <=> order = <<Primary>>)
<1>1. Primary # Second /\ (c = Primary \/ c = Second) /\ \A x, y, z : <<x, y>> # <<z>>
  BY ConsolesAreTwo
<1>2. \A x : Append(<<>>, x) = <<x>>
  OBVIOUS
<1>3. CASE order = <<Primary>>
  <2>1. RemoveFirst(order, Primary) = <<>> /\ RemoveFirst(order, Second) = <<Primary>>
    BY <1>1, <1>3, RemovedFromOne
  <2>2. MovedToEnd(Primary) = <<Primary>> /\ MovedToEnd(Second) = <<Primary, Second>>
    BY <1>2, <2>1, AppendedToOne DEF MovedToEnd
  <2> QED
    BY <1>1, <1>3, <2>2 DEF Orders
<1>4. CASE order = <<Primary, Second>>
  <2>1. MovedToEnd(Primary) = <<Second, Primary>> /\ MovedToEnd(Second) = <<Primary, Second>>
    BY <1>1, <1>4, AppendedToOne, RemovedFromTwo DEF MovedToEnd
  <2> QED
    BY <1>1, <1>4, <2>1 DEF Orders
<1>5. CASE order = <<Second, Primary>>
  <2>1. MovedToEnd(Primary) = <<Second, Primary>> /\ MovedToEnd(Second) = <<Primary, Second>>
    <3>1. RemoveFirst(order, Primary) = <<Second>> /\ RemoveFirst(order, Second) = <<Primary>>
      BY <1>1, <1>5, RemovedFromTwo
    <3> QED
      BY <3>1, AppendedToOne DEF MovedToEnd
  <2> QED
    BY <1>1, <1>5, <2>1 DEF Orders
<1> QED
  BY <1>3, <1>4, <1>5 DEF Orders

\* The budget reaches every console that has a runtime, and no other runtime.
LEMMA OrderCoversRack ==
  ASSUME NEW ord \in Orders, NEW rk, ord = <<Primary>> <=> rk[Second] = NoRuntime
  PROVE  /\ \A i \in DOMAIN ord : ord[i] \in Consoles
         /\ \A d \in Consoles : rk[d] # NoRuntime => \E i \in DOMAIN ord : ord[i] = d
<1>1. /\ \A d \in Consoles : d = Primary \/ d = Second
      /\ Primary \in Consoles /\ Second \in Consoles
  BY ConsolesAreTwo
<1>2. CASE ord = <<Primary>>
  <2>1. DOMAIN ord = 1 .. 1 /\ ord[1] = Primary
    BY <1>2
  <2> QED
    BY <1>1, <1>2, <2>1
<1>3. CASE ord = <<Primary, Second>>
  <2>1. DOMAIN ord = 1 .. 2 /\ ord[1] = Primary /\ ord[2] = Second
    BY <1>3
  <2> QED
    BY <1>1, <2>1
<1>4. CASE ord = <<Second, Primary>>
  <2>1. DOMAIN ord = 1 .. 2 /\ ord[1] = Second /\ ord[2] = Primary
    BY <1>4
  <2> QED
    BY <1>1, <2>1
<1> QED
  BY <1>2, <1>3, <1>4 DEF Orders

\* Boot b's core is up, for a console and in a runtime that fit.
LEMMA StartedFits ==
  ASSUME BootInv, NEW b \in Boots, boot[b].phase = "starting"
  PROVE  /\ boot[b] \in BootType /\ BootFits(b) /\ b <= begun /\ boot[b].game \in Games
         /\ boot[b].at \in Consoles /\ boot[b].kind \in Kinds
         /\ boot[b].target \in Runtimes /\ Home(boot[b].target) = boot[b].at
         /\ boot[b].target \in Boots => Made(boot[b].target)
         /\ boot[b].kind \in {"reboot", "swap", "spawn"} => boot[b].target = b
         /\ \A d \in Consoles : rack[d] # b
  BY ConsolesAreTwo DEF BootInv, BootsTyped, BootFits, BootType, RackTyped, None

\* The rack and its order with the boot's runtime, where it has one of its own.
RackWith(b) ==
  IF boot[b].target = b THEN [rack EXCEPT ![boot[b].at] = b] ELSE rack
OrderWith(b) == IF boot[b].target = b THEN MovedToEnd(boot[b].at) ELSE order

LEMMA RackAfterFinish ==
  ASSUME BootInv, NEW b \in Boots, boot[b].phase = "starting"
  PROVE  /\ RackWith(b) \in [Consoles -> Runtimes \cup {NoRuntime}]
         /\ OrderWith(b) \in Orders
         /\ OrderWith(b) = <<Primary>> <=> RackWith(b)[Second] = NoRuntime
         /\ \A d \in Consoles : RackWith(b)[d] =
              IF d = boot[b].at /\ boot[b].target = b THEN b ELSE rack[d]
<1> USE ConsolesAreTwo
<1>1. boot[b].at \in Consoles /\ RackTyped
  BY StartedFits DEF BootInv
<1>2. CASE boot[b].target = b
  <2>1. RackWith(b) = [rack EXCEPT ![boot[b].at] = b] /\ OrderWith(b) = MovedToEnd(boot[b].at)
    BY <1>2 DEF RackWith, OrderWith
  <2>2. rack \in [Consoles -> Runtimes \cup {NoRuntime}] /\ order \in Orders
        /\ (order = <<Primary>> <=> rack[Second] = NoRuntime)
    BY <1>1 DEF RackTyped
  <2>3. /\ MovedToEnd(boot[b].at) \in Orders
        /\ boot[b].at = Second => MovedToEnd(boot[b].at) # <<Primary>>
        /\ boot[b].at = Primary => (MovedToEnd(boot[b].at) = <<Primary>> <=> order = <<Primary>>)
    BY <1>1, <2>2, OrderAfterMove
  <2> QED
    BY <1>1, <1>2, <2>1, <2>2, <2>3
<1>3. CASE boot[b].target # b
  BY <1>1, <1>3 DEF RackWith, OrderWith, RackTyped
<1> QED
  BY <1>2, <1>3

\* What Finish does to the runtimes: the boot's core is up; the runtime it replaces has been
\* let go of; the others of the rack are paused or resumed.
LEMMA RuntimesAfterFinish ==
  ASSUME BootInv, NEW b \in Boots, NEW runs \in BOOLEAN, Finish(b, runs)
  PROVE  /\ rack' = RackWith(b) /\ order' = OrderWith(b)
         /\ rt' = [r \in Runtimes |-> rt'[r]]
         /\ \A r \in Runtimes : Sound(rt'[r])
         /\ rt'[boot[b].target].game = boot[b].game
         /\ \A r \in Runtimes : r # boot[b].target =>
              IF boot[b].target = b /\ r = rack[boot[b].at] THEN ~rt'[r].running
              ELSE /\ rt'[r].game = rt[r].game /\ rt'[r].alive = rt[r].alive
                   /\ (\A d \in Consoles : RackWith(b)[d] # r) => rt'[r] = rt[r]
         /\ ~MayRunLocalCore =>
              \/ \A d \in Consoles : RackWith(b)[d] # NoRuntime => ~rt'[RackWith(b)[d]].running
              \/ /\ boot[b].kind = "pick" /\ boot[b].target # b
                 /\ \A r \in Runtimes : r # boot[b].target => rt'[r] = rt[r]
<1> USE ConsolesAreTwo
<1>0. boot[b].phase = "starting"
  BY DEF Finish
<1>1. PICK c, t, g : c = boot[b].at /\ t = boot[b].target /\ g = boot[b].game
  OBVIOUS
<1>2. PICK rk, ord, f :
        /\ rk = IF boot[b].target = b THEN [rack EXCEPT ![boot[b].at] = b] ELSE rack
        /\ ord = IF t = b THEN MovedToEnd(c) ELSE order
        /\ f = IF t = b /\ focus = c /\ rack[c] # NoRuntime THEN None ELSE focus
  OBVIOUS
<1>3. PICK up : up = [rt EXCEPT ![boot[b].target] = Started(@, boot[b].game, runs)]
  OBVIOUS
<1>4. PICK alone : alone = IF t = b THEN Retire(up, c) ELSE up
  OBVIOUS
<1>5. PICK on : on = IF Switched(b) THEN Resume(alone, rk[c]) ELSE alone
  OBVIOUS
<1> DEFINE budgeted == t = b \/ boot[b].kind = "into" \/ (boot[b].kind = "load" /\ ~Commits(b))
           last == Commits(b) \/ boot[b].kind = "reboot" \/ (boot[b].kind = "pick" /\ t = b)
<1>6. PICK fit : fit = IF budgeted THEN ApplyBudget(on, rk, ord, f, MayRunLocalCore, autoPause) ELSE on
  OBVIOUS
<1>7. rt' = IF last THEN Resume(fit, rk[c]) ELSE fit
  BY <1>1, <1>2, <1>3, <1>4, <1>5, <1>6 DEF Finish
<1>8. rk = RackWith(b) /\ ord = OrderWith(b)
  BY <1>1, <1>2 DEF RackWith, OrderWith
<1>9. rack' = rk /\ order' = ord
  BY <1>1, <1>2 DEF Finish
<1>10. /\ c \in Consoles /\ t \in Runtimes /\ g \in Games /\ boot[b].kind \in Kinds
       /\ boot[b].kind \in {"reboot", "swap", "spawn"} => t = b
       /\ \A d \in Consoles : rack[d] # b
  BY <1>0, <1>1, StartedFits
<1>11. /\ rt = [r \in Runtimes |-> rt[r]] /\ \A r \in Runtimes : Sound(rt[r])
  BY DEF BootInv, RuntimesSound
<1>12. PICK may \in BOOLEAN : may = MayRunLocalCore
  BY DEF MayRunLocalCore
<1>13. /\ rk \in [Consoles -> Runtimes \cup {NoRuntime}]
       /\ \A d \in Consoles : rk[d] = IF d = c /\ t = b THEN b ELSE rack[d]
       /\ ord \in Orders /\ (ord = <<Primary>> <=> rk[Second] = NoRuntime)
  BY <1>0, <1>1, <1>8, RackAfterFinish
<1>14. /\ up = [r \in Runtimes |-> up[r]]
       /\ \A r \in Runtimes : up[r] = IF r = t THEN Started(rt[r], g, runs) ELSE rt[r]
       /\ \A r \in Runtimes : Sound(up[r])
       /\ up[t].game = g
  <2>1. Sound(Started(rt[t], g, runs)) /\ Started(rt[t], g, runs).game = g
    BY <1>10, <1>11, StartedIsSound
  <2>2. /\ up = [r \in Runtimes |-> up[r]]
        /\ \A r \in Runtimes : up[r] = IF r = t THEN Started(rt[r], g, runs) ELSE rt[r]
    BY <1>1, <1>3, <1>10, <1>11
  <2> QED
    BY <1>10, <1>11, <2>1, <2>2
<1>15. /\ alone = [r \in Runtimes |-> alone[r]]
       /\ \A r \in Runtimes : alone[r] = IF t = b /\ r = rack[c] THEN Disposed(up[r]) ELSE up[r]
       /\ \A r \in Runtimes : Sound(alone[r])
       /\ alone[t].game = g
  <2>1. CASE t = b /\ rack[c] # NoRuntime
    <3>1. alone = [up EXCEPT ![rack[c]] = Disposed(@)]
      BY <1>4, <2>1 DEF Retire
    <3> QED
      BY <1>14, <2>1, <3>1, <1>10, DisposedIsSound
  <2>2. CASE ~(t = b /\ rack[c] # NoRuntime)
    BY <1>4, <1>10, <1>14, <2>2 DEF Retire
  <2> QED
    BY <2>1, <2>2
<1>16. ASSUME NEW k, k = [r \in Runtimes |-> k[r]], \A r \in Runtimes : Sound(k[r]),
              NEW j, j = k \/ j = Resume(k, rk[c])
       PROVE  /\ j = [r \in Runtimes |-> j[r]]
              /\ \A r \in Runtimes : /\ Kept(k[r], j[r])
                                     /\ r # rk[c] => j[r] = k[r]
                                     /\ ~may /\ ~k[r].running => ~j[r].running
  <2>1. j = [r \in Runtimes |-> j[r]]
        /\ \A r \in Runtimes : j[r] = k[r] \/ (r = rk[c] /\ j[r] = ResumeGated(k[r]))
    BY <1>16 DEF Resume
  <2> QED
    BY <1>12, <1>16, <2>1, ResumeGatedIsKept, ResumedIsKept
<1>17. /\ on = [r \in Runtimes |-> on[r]]
       /\ \A r \in Runtimes : Kept(alone[r], on[r]) /\ (r # rk[c] => on[r] = alone[r])
  BY <1>5, <1>15, <1>16
<1>18. \A r \in Runtimes : Sound(on[r])
  BY <1>17 DEF Kept
<1>19. /\ fit = [r \in Runtimes |-> fit[r]]
       /\ \A r \in Runtimes : /\ Kept(on[r], fit[r])
                              /\ (\A d \in Consoles : rk[d] # r) => fit[r] = on[r]
       /\ budgeted /\ ~may => \A d \in Consoles : rk[d] # NoRuntime => ~fit[rk[d]].running
  <2>1. /\ \A i \in DOMAIN ord : ord[i] \in Consoles
        /\ \A d \in Consoles : rk[d] # NoRuntime => \E i \in DOMAIN ord : ord[i] = d
    BY <1>13, OrderCoversRack
  <2>2. CASE budgeted
    <3>1. fit = ApplyBudget(on, rk, ord, f, may, autoPause)
      BY <1>6, <1>12, <2>2
    <3>2. /\ fit = [r \in Runtimes |-> fit[r]]
          /\ \A r \in Runtimes :
               /\ Kept(on[r], fit[r])
               /\ (\A i \in DOMAIN ord : rk[ord[i]] # r) => fit[r] = on[r]
               /\ may = FALSE /\ (\E i \in DOMAIN ord : rk[ord[i]] = r) => ~fit[r].running
      <4>1. AllSound(on)
        BY <1>18 DEF AllSound
      <4>2. Budgeted(on, fit, rk, ord, may)
        BY <3>1, <4>1, BudgetOnlyPausesAndResumes
      <4> QED
        BY <4>2 DEF Budgeted
    <3>3. \A d \in Consoles : rk[d] # NoRuntime =>
            rk[d] \in Runtimes /\ \E i \in DOMAIN ord : rk[ord[i]] = rk[d]
      BY <1>13, <2>1
    <3> QED
      BY <2>1, <3>2, <3>3
  <2>3. CASE ~budgeted
    BY <1>6, <1>17, <1>18, <2>3, ResumedIsKept
  <2> QED
    BY <2>2, <2>3
<1>20. \A r \in Runtimes : Sound(fit[r])
  BY <1>19 DEF Kept
<1>21. /\ rt' = [r \in Runtimes |-> rt'[r]]
       /\ \A r \in Runtimes : /\ Kept(fit[r], rt'[r])
                              /\ r # rk[c] => rt'[r] = fit[r]
                              /\ ~may /\ ~fit[r].running => ~rt'[r].running
  <2>1. PICK j : j = rt'
    OBVIOUS
  <2>2. j = fit \/ j = Resume(fit, rk[c])
    BY <1>7, <2>1
  <2> QED
    BY <1>16, <1>19, <1>20, <2>1, <2>2
<1> HIDE DEF budgeted, last
<1>22. /\ \A r \in Runtimes : Sound(rt'[r])
       /\ rt'[t].game = g
  BY <1>10, <1>15, <1>17, <1>19, <1>21 DEF Kept
<1>23. ASSUME NEW r \in Runtimes, r # t
       PROVE  IF t = b /\ r = rack[c] THEN ~rt'[r].running
              ELSE /\ rt'[r].game = rt[r].game /\ rt'[r].alive = rt[r].alive
                   /\ (\A d \in Consoles : rk[d] # r) => rt'[r] = rt[r]
  <2>1. up[r] = rt[r]
    BY <1>14, <1>23
  <2>2. CASE t = b /\ r = rack[c]
    <3>1. alone[r] = Disposed(rt[r]) /\ ~alone[r].running
      BY <1>11, <1>15, <2>1, <2>2, DisposedIsSound
    <3>2. \A d \in Consoles : rk[d] # r
      BY <1>10, <1>13, <2>2, RackIsOwn, ConsolesAreTwo DEF BootInv
    <3> QED
      BY <1>10, <1>17, <1>19, <1>21, <2>2, <3>1, <3>2
  <2>3. CASE ~(t = b /\ r = rack[c])
    <3>1. alone[r] = rt[r]
      BY <1>15, <2>1, <2>3
    <3>2. rt'[r].game = rt[r].game /\ rt'[r].alive = rt[r].alive
      BY <1>17, <1>19, <1>21, <3>1 DEF Kept
    <3>3. (\A d \in Consoles : rk[d] # r) => rt'[r] = rt[r]
      BY <1>10, <1>17, <1>19, <1>21, <3>1
    <3> QED
      BY <2>3, <3>2, <3>3
  <2> QED
    BY <2>2, <2>3
<1>24. ASSUME ~may
       PROVE  \/ \A d \in Consoles : rk[d] # NoRuntime => ~rt'[rk[d]].running
              \/ /\ boot[b].kind = "pick" /\ t # b
                 /\ \A r \in Runtimes : r # t => rt'[r] = rt[r]
  <2>1. ~Commits(b)
    BY <1>12, <1>24 DEF Commits, AuthorityLost
  <2>2. CASE budgeted
    <3>1. \A d \in Consoles : rk[d] # NoRuntime => rk[d] \in Runtimes /\ ~fit[rk[d]].running
      BY <1>13, <1>19, <1>24, <2>2
    <3> QED
      BY <1>21, <1>24, <3>1
  <2>3. CASE ~budgeted
    <3>1. boot[b].kind = "pick" /\ ~Switched(b) /\ t # b
      BY <1>1, <1>10, <2>1, <2>3 DEF Kinds, Switched, budgeted
    <3>2. rt' = fit /\ fit = on /\ on = alone
      BY <1>5, <1>6, <1>7, <2>1, <2>3, <3>1 DEF last
    <3> QED
      BY <1>14, <1>15, <3>1, <3>2
  <2> QED
    BY <2>2, <2>3
<1> QED
  BY <1>1, <1>8, <1>9, <1>12, <1>21, <1>22, <1>23, <1>24

LEMMA InvAfterFinish ==
  ASSUME BootInv, NEW b \in Boots, NEW runs \in BOOLEAN, Finish(b, runs)
  PROVE  BootInv'
<1> USE ConsolesAreTwo
<1>1. BootsTyped /\ RackTyped /\ RuntimesSound
  BY DEF BootInv
<1>2. PICK c, t, g : c = boot[b].at /\ t = boot[b].target /\ g = boot[b].game
  OBVIOUS
<1>3. boot[b].phase = "starting"
  BY DEF Finish
<1>4. /\ boot[b] \in BootType /\ BootFits(b) /\ b <= begun
      /\ c \in Consoles /\ t \in Runtimes /\ Home(t) = c /\ g \in Games
      /\ t \in Boots => Made(t)
      /\ boot[b].kind = "spawn" => t = b
      /\ \A d \in Consoles : rack[d] # b
  BY <1>2, <1>3, StartedFits
<1>5. /\ boot' \in [Boots -> BootType]
      /\ \A o \in Boots : o # b => boot'[o] = boot[o]
      /\ boot'[b].phase = "done" /\ boot'[b].kind = boot[b].kind /\ boot'[b].at = c
      /\ boot'[b].game = g /\ boot'[b].target = t
  <2> DEFINE new == [boot[b] EXCEPT !.phase = "done"]
  <2>1. new \in BootType /\ new.phase = "done" /\ new.kind = boot[b].kind
        /\ new.at = c /\ new.game = g /\ new.target = t
    BY <1>2, <1>4 DEF BootType, Phases
  <2>2. boot' = [boot EXCEPT ![b] = new] /\ boot \in [Boots -> BootType]
    BY <1>1 DEF Finish, Moves, BootsTyped
  <2> HIDE DEF new
  <2> QED
    BY <2>1, <2>2
<1>6. /\ \A r \in Boots : Made(r)' <=> Made(r)
      /\ \A r \in Runtimes : Home(r)' = Home(r)
  BY <1>2, <1>3, <1>5 DEF Made, Home
<1>7. /\ begun' = begun /\ handoffs' = handoffs /\ epoch' = epoch /\ raced' = raced
      /\ card' = IF TracksCard(b) THEN [card EXCEPT ![c] = g] ELSE card
  BY <1>2 DEF Finish, roleVars
<1>8. /\ rack' \in [Consoles -> Runtimes \cup {NoRuntime}]
      /\ order' \in Orders /\ (order' = <<Primary>> <=> rack'[Second] = NoRuntime)
      /\ \A d \in Consoles : rack'[d] = IF d = c /\ t = b THEN b ELSE rack[d]
  BY <1>2, <1>3, RackAfterFinish, RuntimesAfterFinish
<1>9. /\ rt' = [r \in Runtimes |-> rt'[r]]
      /\ \A r \in Runtimes : Sound(rt'[r])
      /\ rt'[t].game = g
      /\ \A r \in Runtimes : r # t =>
           IF t = b /\ r = rack[c] THEN ~rt'[r].running
           ELSE /\ rt'[r].game = rt[r].game /\ rt'[r].alive = rt[r].alive
                /\ (\A d \in Consoles : rack'[d] # r) => rt'[r] = rt[r]
  BY <1>2, RuntimesAfterFinish
<1>10. BootsTyped'
  <2>1. ASSUME NEW o \in Boots, o <= begun PROVE BootFits(o)'
    <3>1. BootFits(o)
      BY <1>1, <2>1 DEF BootsTyped
    <3> DEFINE q == boot[o].target
    <3>2. boot'[o].target = q /\ boot'[o].kind = boot[o].kind /\ boot'[o].at = boot[o].at
          /\ boot'[o].game = boot[o].game /\ (boot'[o].phase # boot[o].phase => o = b)
      BY <1>2, <1>5
    <3>3. q \in Runtimes \cup {NoRuntime}
      BY <1>1 DEF BootsTyped, BootType
    <3>4. q # NoRuntime => (IF q = 0 THEN Primary ELSE boot'[q].at) = boot[o].at
      BY <1>2, <1>5, <3>1, <3>3 DEF BootFits, Home
    <3>5. q \in Boots => boot'[q].target = q /\ boot'[q].phase \in {"starting", "done", "dropped"}
      BY <1>2, <1>5, <3>1 DEF BootFits, Made
    <3>6. boot'[o].phase # None /\ (boot'[o].phase = "starting" => boot[o].phase = "starting")
      BY <1>5, <3>1 DEF BootFits, None
    <3> HIDE DEF q
    <3> QED
      BY <3>1, <3>2, <3>3, <3>4, <3>5, <3>6 DEF BootFits, Made, Home, q
  <2>2. \A o \in Boots : IF o <= begun' THEN BootFits(o)' ELSE boot'[o].phase = None
    BY <1>1, <1>4, <1>5, <1>7, <2>1 DEF BootsTyped
  <2>3. ASSUME NEW d \in Consoles, epoch'[d] # 0 PROVE boot'[epoch'[d]].at = d
    <3>1. epoch[d] \in 0 .. begun /\ (epoch[d] # 0 => epoch[d] \in Boots /\ boot[epoch[d]].at = d)
      BY <1>1 DEF BootsTyped
    <3> QED
      BY <1>2, <1>5, <1>7, <2>3, <3>1
  <2>4. /\ begun' \in 0 .. MaxBoots /\ handoffs' \in Nat /\ raced' \subseteq Consoles
        /\ epoch' \in [Consoles -> 0 .. begun']
    BY <1>1, <1>7 DEF BootsTyped
  <2> QED
    BY <1>5, <2>2, <2>3, <2>4 DEF BootsTyped
<1>11. RackTyped'
  <2>1. rack'[Primary] # NoRuntime
    BY <1>1, <1>8 DEF RackTyped
  <2>2. card' \in [Consoles -> Games \cup {NoGame}]
    BY <1>1, <1>4, <1>7 DEF RackTyped
  <2>3. ASSUME NEW d \in Consoles, rack'[d] # NoRuntime
        PROVE  /\ (IF rack'[d] = 0 THEN Primary ELSE boot'[rack'[d]].at) = d
               /\ rack'[d] # 0 => boot'[rack'[d]].phase = "done" /\ boot'[rack'[d]].target = rack'[d]
    <3>1. CASE d = c /\ t = b
      BY <1>5, <1>8, <3>1
    <3>2. CASE ~(d = c /\ t = b)
      <4>1. rack'[d] = rack[d] /\ rack[d] # NoRuntime /\ rack[d] # b /\ rack[d] \in Runtimes
        BY <1>1, <1>4, <1>8, <2>3, <3>2 DEF RackTyped
      <4> QED
        BY <1>1, <1>5, <4>1 DEF RackTyped, Home
    <3> QED
      BY <3>1, <3>2
  <2> QED
    BY <1>8, <2>1, <2>2, <2>3 DEF RackTyped, Home
<1>12. RuntimesSound'
  <2>1. ASSUME NEW r \in Boots, ~Made(r)' PROVE rt'[r] = NewRuntime
    <3>1. ~Made(r) /\ rt[r] = NewRuntime /\ r # t
      BY <1>1, <1>4, <1>6, <2>1 DEF RuntimesSound
    <3>2. \A d \in Consoles : rack[d] # r
      BY <1>1, <3>1, RackIsOwn
    <3>3. \A d \in Consoles : rack'[d] # r
      BY <1>8, <3>1, <3>2
    <3> QED
      BY <1>4, <1>9, <3>1, <3>2, <3>3
  <2> QED
    BY <1>9, <2>1 DEF RuntimesSound
<1>13. ASSUME NEW o \in Boots PROVE SpawnAlone(o)'
  <2>1. SpawnAlone(o)
    BY DEF BootInv
  <2>2. \A p \in Boots : /\ InFlight(p)' => InFlight(p) /\ p # b
                         /\ boot'[p].kind = boot[p].kind /\ boot'[p].at = boot[p].at
    BY <1>2, <1>5 DEF InFlight
  <2>3. boot[o].kind = "spawn" /\ InFlight(o)' => rack'[Second] = rack[Second]
    BY <1>2, <1>3, <1>8, <2>1, <2>2 DEF SpawnAlone, InFlight
  <2> QED
    BY <1>7, <2>1, <2>2, <2>3 DEF SpawnAlone
<1>14. ASSUME c \notin raced
       PROVE  /\ epoch[c] = b
              /\ t # b => t = rack[c]
              /\ rack'[c] = t
  <2>1. Orderly(c)
    BY <1>4, <1>14 DEF BootInv
  <2>2. epoch[c] = b /\ (t # b => t = rack[c])
    BY <1>2, <1>3, <2>1 DEF Orderly
  <2> QED
    BY <1>4, <1>8, <2>2
<1>15. ASSUME NEW d \in Consoles \ raced'
       PROVE  Orderly(d)' /\ NewestIsLoaded(d)' /\ CardIsOfCore(d)'
  <2>1. Orderly(d) /\ NewestIsLoaded(d) /\ CardIsOfCore(d) /\ d \in Consoles /\ d \notin raced
    BY <1>7, <1>15 DEF BootInv
  <2>2. epoch[d] \in 0 .. begun /\ (epoch[d] # 0 => epoch[d] \in Boots /\ boot[epoch[d]].at = d)
    BY <1>1, <2>1 DEF BootsTyped
  <2>3. CASE d = c
    <3>1. Orderly(d)'
      BY <1>5, <1>7, <1>14, <2>1, <2>3 DEF Orderly
    <3>2. NewestIsLoaded(d)'
      BY <1>4, <1>5, <1>7, <1>9, <1>14, <2>1, <2>3 DEF NewestIsLoaded
    <3>3. TracksCard(b)
      BY <1>2, <1>14, <2>1, <2>3 DEF TracksCard, Superseded
    <3>4. CardIsOfCore(d)'
      BY <1>1, <1>4, <1>7, <1>9, <1>14, <2>1, <2>3, <3>3 DEF CardIsOfCore, RackTyped
    <3> QED
      BY <3>1, <3>2, <3>4
  <2>4. CASE d # c
    <3>1. rack'[d] = rack[d]
      BY <1>8, <2>1, <2>4
    <3>2. rack[d] # NoRuntime =>
            rt'[rack[d]].game = rt[rack[d]].game /\ rt'[rack[d]].alive = rt[rack[d]].alive
      <4>1. rack[d] # NoRuntime => rack[d] \in Runtimes /\ rack[d] # t /\ rack[d] # rack[c]
        BY <1>1, <1>4, <2>1, <2>4 DEF RackTyped
      <4> QED
        BY <1>9, <4>1
    <3>3. card'[d] = card[d]
      BY <1>1, <1>7, <2>1, <2>4 DEF RackTyped
    <3>4. CardIsOfCore(d)'
      BY <2>1, <3>1, <3>2, <3>3 DEF CardIsOfCore
    <3>5. epoch[d] # 0 => boot'[epoch[d]] = boot[epoch[d]]
      BY <1>2, <1>5, <2>2, <2>4
    <3>6. NewestIsLoaded(d)'
      BY <1>7, <2>1, <3>1, <3>2, <3>5 DEF NewestIsLoaded
    <3>7. Orderly(d)'
      BY <1>2, <1>5, <1>7, <2>1, <2>4, <3>1 DEF Orderly
    <3> QED
      BY <3>4, <3>6, <3>7
  <2> QED
    BY <2>3, <2>4
<1>16. ASSUME NEW r \in Runtimes PROVE HasAHome(r)'
  <2>1. HasAHome(r) /\ Home(r)' = Home(r)
    BY <1>6 DEF BootInv
  <2>2. CASE r = t
    <3>1. c \in raced' \/ rack'[c] = r
      BY <1>7, <1>14, <2>2
    <3> QED
      BY <1>4, <2>1, <2>2, <3>1 DEF HasAHome
  <2>3. CASE r # t /\ \E d \in Consoles : rack'[d] = r
    <3>1. PICK d \in Consoles : rack'[d] = r
      BY <2>3
    <3>2. rack[d] = r
      BY <1>8, <2>3, <3>1
    <3>3. Home(r) = d
      BY <1>1, <3>2 DEF RackTyped
    <3> QED
      BY <2>1, <3>1, <3>3 DEF HasAHome
  <2>4. CASE r # t /\ \A d \in Consoles : rack'[d] # r
    <3>1. rt'[r].running => rt'[r] = rt[r] /\ ~(t = b /\ r = rack[c])
      BY <1>9, <2>4
    <3>2. ~(t = b /\ r = rack[c]) => \A d \in Consoles : rack[d] # r
      BY <1>8, <2>4
    <3>3. Home(r) \in Consoles
      BY <1>1 DEF Home, BootsTyped, BootType
    <3> QED
      BY <1>7, <2>1, <3>1, <3>2, <3>3 DEF HasAHome
  <2> QED
    BY <2>2, <2>3, <2>4
<1> QED
  BY <1>10, <1>11, <1>12, <1>13, <1>15, <1>16 DEF BootInv

-----------------------------------------------------------------------------
(* Every step.                                                                 *)

\* The runtimes k are those of the page, paused and resumed on the rack.
Moved(k) ==
  /\ k = [r \in Runtimes |-> k[r]]
  /\ \A r \in Runtimes : Kept(rt[r], k[r]) /\ (r \notin Racked => k[r] = rt[r])

\* No console of the rack runs.
AllStill(k) == \A c \in Consoles : rack[c] # NoRuntime => ~k[rack[c]].running

LEMMA UnmovedIsMoved ==
  ASSUME RuntimesSound
  PROVE  Moved(rt)
  BY ResumedIsKept DEF RuntimesSound, Moved

LEMMA OneMoves ==
  ASSUME RackTyped, RuntimesSound, NEW c \in Consoles, rack[c] # NoRuntime,
         NEW x, Kept(rt[rack[c]], x), NEW k, k = [rt EXCEPT ![rack[c]] = x]
  PROVE  Moved(k) /\ k[rack[c]] = x /\ \A d \in Consoles : d = c \/ k[rack[d]] = rt[rack[d]]
<1>1. rack[c] \in Runtimes /\ rack[c] \in Racked
  BY DEF RackTyped, Racked
<1>2. Moved(k) /\ k[rack[c]] = x
  BY <1>1, ResumedIsKept DEF RuntimesSound, Moved
<1>3. ASSUME NEW d \in Consoles, d # c PROVE k[rack[d]] = rt[rack[d]]
  <2>1. rack[d] # rack[c]
    BY <1>3, RackIsOwn
  <2>2. CASE rack[d] \in Runtimes
    BY <2>1, <2>2 DEF RuntimesSound
  <2>3. CASE rack[d] \notin Runtimes
    BY <1>1, <2>1, <2>3 DEF RuntimesSound
  <2> QED
    BY <2>2, <2>3
<1> QED
  BY <1>2, <1>3

LEMMA BudgetMoves ==
  ASSUME RackTyped, RuntimesSound, NEW k, Moved(k), NEW f, NEW may \in BOOLEAN, NEW enabled,
         NEW k2, k2 = ApplyBudget(k, rack, order, f, may, enabled)
  PROVE  Moved(k2) /\ (may = FALSE => AllStill(k2))
<1>1. AllSound(k)
  BY DEF Moved, Kept, AllSound
<1>2. Budgeted(k, k2, rack, order, may)
  BY <1>1, BudgetOnlyPausesAndResumes
<1>3. /\ \A i \in DOMAIN order : order[i] \in Consoles
      /\ \A d \in Consoles : rack[d] # NoRuntime => \E i \in DOMAIN order : order[i] = d
  BY OrderCoversRack DEF RackTyped
<1>4. ASSUME NEW r \in Runtimes PROVE Kept(rt[r], k2[r]) /\ (r \notin Racked => k2[r] = rt[r])
  <2>1. Kept(rt[r], k[r]) /\ Kept(k[r], k2[r])
    BY <1>2 DEF Moved, Budgeted
  <2>2. r \notin Racked => k[r] = rt[r] /\ k2[r] = k[r]
    BY <1>2, <1>3 DEF Moved, Budgeted, Racked
  <2> QED
    BY <2>1, <2>2 DEF Kept
<1>5. may = FALSE => AllStill(k2)
  <2> SUFFICES ASSUME may = FALSE, NEW c \in Consoles, rack[c] # NoRuntime
               PROVE  ~k2[rack[c]].running
    BY DEF AllStill
  <2>1. rack[c] \in Runtimes /\ \E i \in DOMAIN order : rack[order[i]] = rack[c]
    BY <1>3 DEF RackTyped
  <2> QED
    BY <1>2, <2>1 DEF Budgeted
<1> QED
  BY <1>2, <1>4, <1>5 DEF Moved, Budgeted

\* Everything paused, everything back.
LEMMA AllPausedMoves ==
  ASSUME RackTyped, RuntimesSound
  PROVE  Moved(PauseAll) /\ AllStill(PauseAll)
<1>1. PICK k : k = PauseAll
  OBVIOUS
<1>2. \A r : r \in Range(rack) <=> \E c \in Consoles : rack[c] = r
  BY DEF Range, RackTyped
<1>3. /\ k = [r \in Runtimes |-> k[r]]
      /\ \A r \in Runtimes :
           k[r] = IF \E c \in Consoles : rack[c] = r THEN Paused(rt[r]) ELSE rt[r]
  BY <1>1, <1>2 DEF PauseAll
<1>4. ASSUME NEW r \in Runtimes
      PROVE  Kept(rt[r], k[r]) /\ (r \notin Racked => k[r] = rt[r])
             /\ (r \in Racked => ~k[r].running)
  BY <1>3, PausedIsKept, ResumedIsKept DEF RuntimesSound, Racked
<1>5. \A c \in Consoles : rack[c] # NoRuntime => rack[c] \in Runtimes /\ rack[c] \in Racked
  BY DEF RackTyped, Racked
<1> QED
  BY <1>1, <1>3, <1>4, <1>5 DEF Moved, AllStill

LEMMA RackBackMoves ==
  ASSUME RackTyped, RuntimesSound
  PROVE  Moved(RackBack)
<1>1. PICK k : k = PrimaryBack
  OBVIOUS
<1>2. Kept(rt[rack[Primary]], Resumed(rt[rack[Primary]])) /\ Primary \in Consoles
      /\ rack[Primary] # NoRuntime
  BY ResumedIsKept, RackIsOwn, ConsolesAreTwo DEF RackTyped, RuntimesSound
<1>3. Moved(k)
  BY <1>1, <1>2, OneMoves DEF PrimaryBack
<1>4. PICK k2, may : k2 = RackBack /\ may \in BOOLEAN /\ k2 = ApplyBudget(k, rack, order, focus, may, autoPause)
  BY <1>1 DEF RackBack
<1>5. Moved(k2)
  BY <1>3, <1>4, BudgetMoves
<1> QED
  BY <1>4, <1>5

LEMMA MovedIsEnough ==
  ASSUME NEW k, Moved(k), rt' = k
  PROVE  OnlyPausesOrResumes
  BY DEF Moved, OnlyPausesOrResumes

LEMMA AskKeepsInv ==
  ASSUME BootInv, Ask
  PROVE  BootInv'
<1>1. RackTyped /\ RuntimesSound /\ handoffs \in Nat
  BY DEF BootInv, BootsTyped
<1>2. \A g \in Games : InsertCartridge(g) => BootInv'
  <2> SUFFICES ASSUME NEW g \in Games, InsertCartridge(g) PROVE BootInv'
    OBVIOUS
  <2>1. Beginning("load", Primary, g, NoRuntime) /\ "load" \in Kinds
    BY DEF InsertCartridge, Beginning, Kinds
  <2>2. OnlyPausesOrResumes
    BY <1>1, NothingMoved DEF InsertCartridge, rackVars
  <2> QED
    BY <2>1, <2>2, InvAfterBegin DEF InsertCartridge, rackVars, roleVars
<1>3. \A g \in Games : QueueCartridge(g) => BootInv'
  BY <1>1, NothingMoved, InvAfterPauses DEF QueueCartridge, rackVars, roleVars
<1>4. \A g \in Games : PickFile(g) => BootInv'
  <2> SUFFICES ASSUME NEW g \in Games, PickFile(g) PROVE BootInv'
    OBVIOUS
  <2>1. Beginning("pick", Primary, g, NoRuntime) /\ "pick" \in Kinds
    BY DEF PickFile, Beginning, Kinds
  <2>2. OnlyPausesOrResumes
    BY <1>1, NothingMoved DEF PickFile, rackVars
  <2> QED
    BY <2>1, <2>2, InvAfterBegin DEF PickFile, rackVars, roleVars
<1>5. \A g \in Games : Reboot(g) => BootInv'
  <2> SUFFICES ASSUME NEW g \in Games, Reboot(g) PROVE BootInv'
    OBVIOUS
  <2>1. Beginning("reboot", Primary, g, NoRuntime) /\ "reboot" \in Kinds
    BY DEF Reboot, RebootWith, Beginning, Kinds
  <2>2. OnlyPausesOrResumes
    BY <1>1, NothingMoved DEF Reboot, rackVars
  <2> QED
    BY <2>1, <2>2, InvAfterBegin DEF Reboot, rackVars, roleVars
<1>6. \A g \in Games : Spawn(g) => BootInv'
  <2> SUFFICES ASSUME NEW g \in Games, Spawn(g) PROVE BootInv'
    OBVIOUS
  <2>1. Beginning("spawn", Second, g, NoRuntime) /\ "spawn" \in Kinds
    BY DEF Spawn, Beginning, Kinds
  <2>2. OnlyPausesOrResumes
    BY <1>1, NothingMoved DEF Spawn, rackVars
  <2> QED
    BY <2>1, <2>2, InvAfterBegin DEF Spawn, rackVars, roleVars
<1>7. \A g \in Games : InsertSecond(g) => BootInv'
  <2> SUFFICES ASSUME NEW g \in Games, InsertSecond(g) PROVE BootInv'
    OBVIOUS
  <2>1. PICK kind \in {"into", "swap"} : Begin(kind, Second, g, rack[Second])
    BY DEF InsertSecond
  <2>2. Beginning(kind, Second, g, rack[Second]) /\ kind \in Kinds
    BY <2>1 DEF InsertSecond, Beginning, Kinds
  <2>3. OnlyPausesOrResumes
    BY <1>1, NothingMoved DEF InsertSecond, rackVars
  <2> QED
    BY <2>2, <2>3, InvAfterBegin DEF InsertSecond, rackVars, roleVars
<1>8. ArmDevice => BootInv'
  BY <1>1, NothingMoved, InvAfterPauses DEF ArmDevice, rackVars, roleVars
<1>9. NothingToArm => BootInv'
  BY <1>1, NothingMoved, InvAfterPauses DEF NothingToArm, rackVars, roleVars
<1> QED
  BY <1>2, <1>3, <1>4, <1>5, <1>6, <1>7, <1>8, <1>9 DEF Ask

LEMMA BootStepKeepsInv ==
  ASSUME BootInv, BootStep
  PROVE  BootInv'
<1> SUFFICES ASSUME NEW b \in Boots,
                    \/ GiveWay(b) \/ GiveUp(b) \/ Launch(b) \/ ThrowAtStart(b)
                    \/ FailFetch(b) \/ FailStart(b)
                    \/ \E runs \in BOOLEAN : Finish(b, runs)
             PROVE  BootInv'
  BY DEF BootStep
<1>1. RackTyped /\ RuntimesSound /\ MayRunLocalCore \in BOOLEAN
  BY DEF BootInv, MayRunLocalCore
<1>2. CASE GiveWay(b)
  <2>1. Dropping(b)
    BY <1>1, <1>2, NothingMoved DEF GiveWay, Dropping, Fetched, InFlight, rackVars
  <2> QED
    BY <1>2, <2>1, InvAfterDrop DEF GiveWay, roleVars, rackVars
<1>3. CASE GiveUp(b)
  <2>1. rt' = rt \/ rt' = ApplyBudget(rt, rack, order, focus, MayRunLocalCore, autoPause)
    BY <1>3 DEF GiveUp
  <2>2. PICK k, may : k = rt' /\ may = MayRunLocalCore
    OBVIOUS
  <2>3. k = rt \/ Moved(k)
    BY <1>1, <2>1, <2>2, UnmovedIsMoved, BudgetMoves
  <2>4. OnlyPausesOrResumes
    BY <1>1, <2>2, <2>3, NothingMoved, MovedIsEnough
  <2>5. Dropping(b)
    BY <1>3, <2>4 DEF GiveUp, Dropping, Fetched, InFlight
  <2> QED
    BY <1>3, <2>5, InvAfterDrop DEF GiveUp, roleVars
<1>4. CASE Launch(b)
  <2>1. Launching(b)
    BY <1>4 DEF Launch, Launching
  <2> QED
    BY <1>4, <2>1, InvAfterLaunch DEF Launch, roleVars
<1>5. CASE ThrowAtStart(b)
  <2>1. Dropping(b)
    BY <1>1, <1>5, NothingMoved
       DEF ThrowAtStart, Cleared, OpensLate, Dropping, Fetched, InFlight, rackVars
  <2> QED
    BY <1>5, <2>1, InvAfterDrop DEF ThrowAtStart, roleVars, rackVars
<1>6. CASE FailFetch(b)
  <2>1. Dropping(b)
    BY <1>1, <1>6, NothingMoved DEF FailFetch, Dropping, Fetched, InFlight, rackVars
  <2> QED
    BY <1>6, <2>1, InvAfterDrop DEF FailFetch, roleVars, rackVars
<1>7. CASE FailStart(b)
  <2>1. Dropping(b)
    BY <1>1, <1>7, NothingMoved DEF FailStart, Dropping, InFlight
  <2> QED
    BY <1>7, <2>1, InvAfterDrop DEF FailStart, roleVars
<1>8. CASE \E runs \in BOOLEAN : Finish(b, runs)
  BY <1>8, InvAfterFinish
<1> QED
  BY <1>2, <1>3, <1>4, <1>5, <1>6, <1>7, <1>8

LEMMA RoleStepKeepsInv ==
  ASSUME BootInv, RoleStep
  PROVE  BootInv'
<1>1. RackTyped /\ RuntimesSound /\ handoffs \in Nat
  BY DEF BootInv, BootsTyped
<1>2. CASE JoinRoom \/ Drop
  BY <1>1, <1>2, NothingMoved, InvAfterPauses DEF JoinRoom, Drop, rackVars
<1>3. CASE TvArrives
  <2>1. Kept(rt[rack[Primary]], Paused(rt[rack[Primary]])) /\ Primary \in Consoles
        /\ rack[Primary] # NoRuntime
    BY <1>1, PausedIsKept, RackIsOwn, ConsolesAreTwo DEF RackTyped, RuntimesSound
  <2>2. PICK k : k = rt' /\ k = [rt EXCEPT ![rack[Primary]] = Paused(rt[rack[Primary]])]
    BY <1>3 DEF TvArrives
  <2>3. Moved(k)
    BY <1>1, <2>1, <2>2, OneMoves
  <2>4. OnlyPausesOrResumes
    BY <2>2, <2>3, MovedIsEnough
  <2> QED
    BY <1>1, <1>3, <2>4, InvAfterPauses DEF TvArrives, roleVars
<1>4. CASE BecomeWatcher
  <2>1. OnlyPausesOrResumes
    BY <1>1, <1>4, AllPausedMoves, MovedIsEnough DEF BecomeWatcher
  <2> QED
    BY <1>1, <1>4, <2>1, InvAfterPauses DEF BecomeWatcher
<1>5. CASE LeaveRoom
  <2>1. OnlyPausesOrResumes
    BY <1>1, <1>5, RackBackMoves, MovedIsEnough DEF LeaveRoom
  <2> QED
    BY <1>1, <1>5, <2>1, InvAfterPauses DEF LeaveRoom
<1>6. ASSUME NEW g \in Games \cup {NoGame}, BecomeHost(g) PROVE BootInv'
  <2>1. OnlyPausesOrResumes
    BY <1>1, <1>6, RackBackMoves, MovedIsEnough DEF BecomeHost
  <2>2. CASE g = NoGame
    BY <1>1, <1>6, <2>1, <2>2, InvAfterPauses DEF BecomeHost
  <2>3. CASE g # NoGame
    <3>1. g \in Games /\ Beginning("load", Primary, g, NoRuntime) /\ "load" \in Kinds
      BY <1>6, <2>3 DEF BecomeHost, Beginning, Kinds
    <3> QED
      BY <1>6, <2>1, <3>1, InvAfterBegin DEF BecomeHost
  <2> QED
    BY <2>2, <2>3
<1> QED
  BY <1>2, <1>3, <1>4, <1>5, <1>6 DEF RoleStep

\* A switch of the player's pauses and resumes, and resumes nothing where no core may run.
LEMMA SwitchMoves ==
  ASSUME RackTyped, RuntimesSound, Switch
  PROVE  /\ OnlyPausesOrResumes
         /\ ~MayRunLocalCore => \A c \in Consoles : rack[c] # NoRuntime =>
              (rt'[rack[c]].running => rt[rack[c]].running)
         /\ UNCHANGED <<boot, begun, epoch, raced, rack, order, card, blind, roleVars>>
<1>1. PICK may \in BOOLEAN : may = MayRunLocalCore
  BY DEF MayRunLocalCore
<1>2. PICK k : k = rt'
  OBVIOUS
<1>3. Moved(rt)
  BY UnmovedIsMoved
<1>4. ASSUME NEW f, NEW enabled, k = ApplyBudget(rt, rack, order, f, may, enabled)
      PROVE  Moved(k) /\ (~may => AllStill(k))
  BY <1>3, <1>4, BudgetMoves
<1>5. ASSUME NEW c \in Consoles, Gaze(c) PROVE Moved(k) /\ (~may => AllStill(k))
  <2>1. k = ApplyBudget(rt, rack, order, c, may, autoPause)
    BY <1>1, <1>2, <1>5 DEF Gaze
  <2> QED
    BY <1>4, <2>1
<1>6. ASSUME ToggleAutoPause PROVE Moved(k) /\ (~may => AllStill(k))
  <2>1. k = ApplyBudget(rt, rack, order, focus, may, ~autoPause)
    BY <1>1, <1>2, <1>6 DEF ToggleAutoPause
  <2>2. PICK enabled : enabled = ~autoPause
    OBVIOUS
  <2> QED
    BY <1>4, <2>1, <2>2
<1>7. ASSUME NEW c \in Consoles, Power(c)
      PROVE  /\ Moved(k)
             /\ ~may => \A d \in Consoles : rack[d] # NoRuntime =>
                          (k[rack[d]].running => rt[rack[d]].running)
  <2>1. rack[c] # NoRuntime /\ rack[c] \in Runtimes /\ Sound(rt[rack[c]])
    BY <1>7 DEF Power, RackTyped, RuntimesSound
  <2>2. PICK x : x = IF powered[c] THEN Paused(rt[rack[c]]) ELSE ResumeGated(rt[rack[c]])
    OBVIOUS
  <2>3. k = [rt EXCEPT ![rack[c]] = x]
    BY <1>2, <1>7, <2>2 DEF Power
  <2>4. Kept(rt[rack[c]], x) /\ (~may => ~x.running)
    BY <1>1, <2>1, <2>2, PausedIsKept, ResumeGatedIsKept
  <2>5. Moved(k)
    BY <2>1, <2>3, <2>4, OneMoves
  <2>6. k[rack[c]] = x
    BY <2>1, <2>3 DEF RuntimesSound
  <2>7. \A d \in Consoles : d = c \/ k[rack[d]] = rt[rack[d]]
    BY <2>1, <2>3, <2>4, OneMoves
  <2> QED
    BY <2>4, <2>5, <2>6, <2>7
<1>8. Moved(k) /\ (~may => \A d \in Consoles : rack[d] # NoRuntime =>
                              (k[rack[d]].running => rt[rack[d]].running))
  BY <1>5, <1>6, <1>7 DEF Switch, AllStill
<1>9. UNCHANGED <<boot, begun, epoch, raced, rack, order, card, blind, roleVars>>
  BY DEF Switch, Gaze, ToggleAutoPause, Power
<1> QED
  BY <1>1, <1>2, <1>8, <1>9, MovedIsEnough

LEMMA StepKeepsInv ==
  ASSUME BootInv, [Next]_vars
  PROVE  BootInv'
<1>1. RackTyped /\ RuntimesSound /\ handoffs \in Nat
  BY DEF BootInv, BootsTyped
<1>2. CASE Switch
  BY <1>1, <1>2, SwitchMoves, InvAfterPauses DEF roleVars
<1>3. CASE UNCHANGED vars
  BY <1>1, <1>3, NothingMoved, InvAfterPauses DEF vars, roleVars, rackVars
<1> QED
  BY <1>2, <1>3, AskKeepsInv, BootStepKeepsInv, RoleStepKeepsInv DEF Next

LEMMA InvAtFirst == Init => BootInv
<1> SUFFICES ASSUME Init PROVE BootInv
  OBVIOUS
<1> USE ConsolesAreTwo
<1>1. \A b \in Boots : boot[b].phase = None /\ boot[b].target = NoRuntime
      /\ boot[b].kind = None
  BY DEF Init
<1>2. BootsTyped
  <2>1. boot \in [Boots -> BootType]
    BY DEF Init, BootType, Phases
  <2>2. \A b \in Boots : ~(b <= begun)
    BY RackConstants DEF Init, Boots
  <2>3. epoch \in [Consoles -> 0 .. begun] /\ begun \in 0 .. MaxBoots
    BY RackConstants DEF Init
  <2> QED
    BY <1>1, <2>1, <2>2, <2>3 DEF Init, BootsTyped
<1>3. RackTyped
  BY DEF Init, RackTyped, Orders, Home
<1>4. RuntimesSound
  BY NewIsSound DEF Init, RuntimesSound
<1>5. \A b \in Boots : SpawnAlone(b)
  BY <1>1 DEF SpawnAlone, InFlight, None
<1>6. \A c \in Consoles : Orderly(c) /\ NewestIsLoaded(c) /\ CardIsOfCore(c)
  <2>1. \A c \in Consoles : epoch[c] = 0 /\ (rack[c] # NoRuntime => rack[c] = 0)
    BY DEF Init
  <2>2. ~rt[0].alive
    BY DEF Init, NewRuntime
  <2> QED
    BY <1>1, <2>1, <2>2 DEF Orderly, NewestIsLoaded, CardIsOfCore, None
<1>7. \A r \in Runtimes : HasAHome(r)
  BY DEF Init, NewRuntime, HasAHome
<1> QED
  BY <1>2, <1>3, <1>4, <1>5, <1>6, <1>7 DEF BootInv

LEMMA AlwaysBootInv == Spec => []BootInv
  BY InvAtFirst, StepKeepsInv, PTL DEF Spec

-----------------------------------------------------------------------------
(* A page that watches.                                                        *)

LEMMA BootStepKeepsWatching ==
  ASSUME BootInv, Watching, BootStep
  PROVE  Watching'
<1> SUFFICES ASSUME NEW b \in Boots,
                    \/ GiveWay(b) \/ GiveUp(b) \/ Launch(b) \/ ThrowAtStart(b)
                    \/ FailFetch(b) \/ FailStart(b)
                    \/ \E runs \in BOOLEAN : Finish(b, runs)
             PROVE  Watching'
  BY DEF BootStep
<1>1. RackTyped /\ RuntimesSound
  BY DEF BootInv
<1>2. role' = role /\ latch' = latch /\ MayRunLocalCore' = MayRunLocalCore
  <2>1. ASSUME GiveWay(b) \/ GiveUp(b) \/ Launch(b) \/ ThrowAtStart(b) \/ FailFetch(b) \/ FailStart(b)
        PROVE  role' = role /\ latch' = latch
    <3>1. UNCHANGED roleVars
      BY <2>1, Zenon DEF GiveWay, GiveUp, Launch, ThrowAtStart, FailFetch, FailStart
    <3> QED
      BY <3>1 DEF roleVars
  <2>2. ASSUME NEW runs \in BOOLEAN, Finish(b, runs) PROVE role' = role /\ latch' = latch
    BY <2>2 DEF Finish, roleVars
  <2> QED
    BY <2>1, <2>2 DEF MayRunLocalCore
<1> SUFFICES ASSUME ~MayRunLocalCore, NEW c \in Consoles, rack'[c] # NoRuntime,
                    rack'[c] \notin blind'
             PROVE  ~rt'[rack'[c]].running
  BY <1>2 DEF Watching
<1>3. CASE GiveWay(b) \/ ThrowAtStart(b) \/ FailFetch(b)
  BY <1>3 DEF Watching, GiveWay, ThrowAtStart, FailFetch, rackVars
<1>4. CASE GiveUp(b)
  <2>1. rt' = rt \/ rt' = ApplyBudget(rt, rack, order, focus, MayRunLocalCore, autoPause)
    BY <1>4 DEF GiveUp
  <2>2. PICK k, may : k = rt' /\ may = MayRunLocalCore /\ may \in BOOLEAN /\ may = FALSE
    BY DEF MayRunLocalCore
  <2>3. k = rt \/ AllStill(k)
    BY <1>1, <2>1, <2>2, UnmovedIsMoved, BudgetMoves
  <2> QED
    BY <1>4, <2>2, <2>3 DEF GiveUp, AllStill, Watching
<1>5. CASE Launch(b)
  <2>1. Launching(b)
    BY <1>5 DEF Launch, Launching
  <2>2. rack' = rack /\ blind' = blind /\ rack[c] \in Runtimes
    BY <1>1, <1>5 DEF Launch, RackTyped
  <2> QED
    BY <2>1, <2>2, RuntimesAfterLaunch DEF Watching
<1>6. CASE FailStart(b)
  <2>1. rack' = rack /\ blind' = blind /\ rack[c] \in Runtimes
    BY <1>1, <1>6 DEF FailStart, RackTyped
  <2>2. rt'[rack[c]] = rt[rack[c]] \/ (rack[c] = b /\ rt'[b] = Disposed(rt[b]))
    BY <1>1, <1>6, <2>1 DEF FailStart, RuntimesSound
  <2>3. ~Disposed(rt[rack[c]]).running
    BY <1>1, <2>1, DisposedIsSound DEF RuntimesSound
  <2> QED
    BY <2>1, <2>2, <2>3 DEF Watching
<1>7. ASSUME NEW runs \in BOOLEAN, Finish(b, runs) PROVE ~rt'[rack'[c]].running
  <2>1. rack' = RackWith(b)
    BY <1>7, RuntimesAfterFinish
  <2>2. CASE \A d \in Consoles : rack'[d] # NoRuntime => ~rt'[rack'[d]].running
    BY <2>2
  <2>3. CASE /\ boot[b].kind = "pick" /\ boot[b].target # b
             /\ \A r \in Runtimes : r # boot[b].target => rt'[r] = rt[r]
    <3>1. rack' = rack /\ blind' = blind \cup {boot[b].target}
      BY <1>7, <2>1, <2>3 DEF RackWith, Finish
    <3>2. rack[c] \in Runtimes /\ rack[c] # boot[b].target /\ rack[c] \notin blind
      BY <1>1, <3>1 DEF RackTyped
    <3> QED
      BY <2>3, <3>1, <3>2 DEF Watching
  <2> QED
    BY <1>7, <2>1, <2>2, <2>3, RuntimesAfterFinish
<1> QED
  BY <1>3, <1>4, <1>5, <1>6, <1>7

LEMMA StepKeepsWatching ==
  ASSUME BootInv, Watching, [Next]_vars
  PROVE  Watching'
<1>1. RackTyped /\ RuntimesSound
  BY DEF BootInv
<1>2. CASE Ask
  BY <1>2 DEF Watching, MayRunLocalCore, Ask, InsertCartridge, QueueCartridge, PickFile, Reboot,
              Spawn, InsertSecond, ArmDevice, NothingToArm, roleVars, rackVars
<1>3. CASE Switch
  BY <1>1, <1>3, SwitchMoves DEF Watching, MayRunLocalCore, roleVars
<1>4. CASE UNCHANGED vars
  BY <1>4 DEF Watching, MayRunLocalCore, vars, roleVars, rackVars
<1>5. CASE RoleStep
  <2>1. CASE JoinRoom \/ Drop
    BY <2>1 DEF JoinRoom, Drop, Watching, MayRunLocalCore, rackVars
  <2>2. CASE TvArrives
    <3>1. rack' = rack /\ blind' = blind /\ role' = role /\ latch' = latch
          /\ rt' = [rt EXCEPT ![rack[Primary]] = Paused(@)]
      BY <2>2 DEF TvArrives, roleVars
    <3>2. ASSUME NEW c \in Consoles, rack[c] # NoRuntime
          PROVE  rt'[rack[c]].running => rt[rack[c]].running
      <4>1. rack[c] \in Runtimes /\ Sound(rt[rack[c]])
        BY <1>1, <3>2 DEF RackTyped, RuntimesSound
      <4>2. rt'[rack[c]] = rt[rack[c]] \/ rt'[rack[c]] = Paused(rt[rack[c]])
        BY <1>1, <3>1, <4>1 DEF RuntimesSound
      <4> QED
        BY <4>1, <4>2, PausedIsKept
    <3> QED
      BY <3>1, <3>2 DEF Watching, MayRunLocalCore
  <2>3. CASE BecomeWatcher
    BY <1>1, <2>3, AllPausedMoves DEF BecomeWatcher, AllStill, Watching
  <2>4. CASE LeaveRoom
    BY <2>4 DEF LeaveRoom, Watching, MayRunLocalCore
  <2>5. ASSUME NEW g \in Games \cup {NoGame}, BecomeHost(g) PROVE Watching'
    BY <2>5 DEF BecomeHost, Watching, MayRunLocalCore
  <2> QED
    BY <1>5, <2>1, <2>2, <2>3, <2>4, <2>5 DEF RoleStep
<1> QED
  BY <1>2, <1>3, <1>4, <1>5, BootStepKeepsWatching DEF Next

LEMMA AlwaysWatching == Spec => []Watching
<1>1. Init => Watching
  BY DEF Init, Watching, MayRunLocalCore
<1> QED
  BY <1>1, AlwaysBootInv, StepKeepsWatching, PTL DEF Spec

-----------------------------------------------------------------------------
(* The rest of the state.                                                      *)

MiscTyped ==
  /\ role \in {"solo", "undecided", "host", "watcher"} /\ latch \in BOOLEAN
  /\ {pending, meta, lastLoaded} \subseteq Games \cup {NoGame}
  /\ focus \in Consoles \cup {None}

LEMMA BootedGames ==
  ASSUME BootInv, NEW b \in Boots, boot[b].phase \in {"fetching", "starting"}
  PROVE  boot[b].game \in Games
  BY DEF BootInv, BootsTyped, BootFits, None

LEMMA StepKeepsTypes ==
  ASSUME BootInv, MiscTyped, [Next]_vars
  PROVE  MiscTyped'
<1>1. CASE Ask
  BY <1>1 DEF MiscTyped, Ask, InsertCartridge, QueueCartridge, PickFile, Reboot, Spawn,
              InsertSecond, ArmDevice, NothingToArm, roleVars, gameVars, rackVars
<1>2. CASE Switch
  BY <1>2 DEF MiscTyped, Switch, Gaze, ToggleAutoPause, Power, roleVars, gameVars
<1>3. CASE UNCHANGED vars
  BY <1>3 DEF MiscTyped, vars, roleVars, gameVars, rackVars
<1>4. CASE RoleStep
  BY <1>4 DEF MiscTyped, RoleStep, JoinRoom, Drop, TvArrives, BecomeWatcher, LeaveRoom,
              BecomeHost, roleVars, gameVars, rackVars
<1>5. CASE BootStep
  <2> SUFFICES ASSUME NEW b \in Boots,
                      \/ GiveWay(b) \/ GiveUp(b) \/ Launch(b) \/ ThrowAtStart(b)
                      \/ FailFetch(b) \/ FailStart(b)
                      \/ \E runs \in BOOLEAN : Finish(b, runs)
               PROVE  MiscTyped'
    BY <1>5 DEF BootStep
  <2>1. CASE GiveWay(b) \/ Launch(b) \/ ThrowAtStart(b) \/ FailFetch(b) \/ FailStart(b)
    BY <2>1 DEF MiscTyped, GiveWay, Launch, ThrowAtStart, FailFetch, FailStart, roleVars, gameVars, rackVars
  <2>2. CASE GiveUp(b)
    <3>1. boot[b].game \in Games
      BY <2>2, BootedGames DEF GiveUp, Fetched
    <3> QED
      BY <2>2, <3>1 DEF MiscTyped, GiveUp, Requeue, roleVars, gameVars
  <2>3. ASSUME NEW runs \in BOOLEAN, Finish(b, runs) PROVE MiscTyped'
    <3>1. boot[b].game \in Games
      BY <2>3, BootedGames DEF Finish
    <3>2. focus' = None \/ focus' = focus
      BY <2>3 DEF Finish
    <3>3. /\ meta' = boot[b].game \/ meta' = meta
          /\ lastLoaded' = boot[b].game \/ lastLoaded' = lastLoaded
      BY <2>3 DEF Finish
    <3>4. pending' = boot[b].game \/ pending' = pending
      BY <2>3 DEF Finish, Requeue
    <3>5. role' = role /\ latch' = latch
      BY <2>3 DEF Finish, roleVars
    <3> QED
      BY <3>1, <3>2, <3>3, <3>4, <3>5 DEF MiscTyped
  <2> QED
    BY <2>1, <2>2, <2>3
<1> QED
  BY <1>1, <1>2, <1>3, <1>4, <1>5 DEF Next

-----------------------------------------------------------------------------
(* The console one looks at.                                                   *)

\* A core rests only where it is paused; what is loaded has a client, and what has none is
\* not paused.
Steady(x) ==
  /\ x.alive /\ ~x.running => x.paused
  /\ x.alive => Loaded(x)
  /\ Loaded(x) => x.client # None
  /\ x.client = None => ~x.paused
AllSteady(k) == \A r \in Runtimes : Sound(k[r]) /\ Steady(k[r])

\* A console that is paused though it may run is one that the budget paused.
PausedByBudget(c) ==
  rack[c] # NoRuntime /\ rt[rack[c]].paused
    => Loaded(rt[rack[c]]) /\ (focus = None \/ focus # c)

Looking ==
  /\ powered \in [Consoles -> BOOLEAN]
  /\ \A r \in Runtimes : Steady(rt[r])
  /\ rack[Second] # NoRuntime => Loaded(rt[rack[Second]])
  /\ MayRunLocalCore /\ role # "undecided"
       => \A c \in Consoles : powered[c] => PausedByBudget(c)

LEMMA PausedIsSteady ==
  ASSUME NEW x, Sound(x), Steady(x)
  PROVE  Steady(Paused(x))
  BY DEF Paused, Sound, Steady, RuntimeType, Loaded

LEMMA ResumedIsSteady ==
  ASSUME NEW x, Sound(x), Steady(x)
  PROVE  Steady(Resumed(x)) /\ ~Resumed(x).paused
  BY DEF Resumed, Sound, Steady, RuntimeType, Loaded

LEMMA ResumeGatedIsSteady ==
  ASSUME NEW x, Sound(x), Steady(x)
  PROVE  Steady(ResumeGated(x)) /\ (MayRunLocalCore => ~ResumeGated(x).paused)
  BY PausedIsSteady, ResumedIsSteady DEF ResumeGated

LEMMA DisposedIsSteady ==
  ASSUME NEW x, Sound(x), Steady(x)
  PROVE  Steady(Disposed(x))
<1> DEFINE p == Paused(x)
           a == x.client = "main" /\ x.alive
           y == [p EXCEPT !.alive = a, !.starter = 0]
<1>1. Sound(p) /\ Steady(p) /\ ~p.running /\ p.client = x.client /\ p.alive = x.alive
  BY PausedIsKept, PausedIsSteady DEF Kept
<1>2. Disposed(x) = y
  BY DEF Disposed
<1>3. p \in RuntimeType /\ (a => p.alive)
  BY <1>1 DEF Sound
<1> HIDE DEF p, a
<1>4. /\ y.client = p.client /\ y.game = p.game /\ y.alive = a
      /\ y.paused = p.paused /\ y.running = p.running
  BY <1>3 DEF RuntimeType
<1> QED
  BY <1>1, <1>2, <1>3, <1>4 DEF Steady, Loaded

LEMMA StartingIsSteady ==
  ASSUME NEW x, Sound(x), Steady(x), NEW g, NEW b, NEW contested \in BOOLEAN
  PROVE  LET y == Starting(x, g, b, contested) IN Steady(y) /\ y.paused = x.paused
<1>1. x \in RuntimeType
  BY DEF Sound
<1>2. CASE Mode(g) = "main"
  BY <1>1, <1>2 DEF Starting, Steady, RuntimeType, None, Loaded
<1>3. CASE Mode(g) = "worker"
  BY <1>1, <1>3 DEF Starting, Steady, RuntimeType, None, Loaded
<1> QED
  BY <1>2, <1>3, Modes

LEMMA StartedIsSteady ==
  ASSUME NEW x, Sound(x), Steady(x), NEW g \in Games, NEW runs \in BOOLEAN
  PROVE  LET y == Started(x, g, runs)
         IN  Steady(y) /\ Loaded(y) /\ y.paused = x.paused
  BY Modes, RackConstants DEF Started, Sound, Steady, RuntimeType, Loaded

\* The budget pauses no console that is looked at, and resumes it.
FocusKept(k, k2, rk, ord, f, may) ==
  /\ AllSteady(k2)
  /\ \A r \in Runtimes : k2[r].game = k[r].game
  /\ may = TRUE =>
       \A c \in Consoles :
         rk[c] \in Runtimes /\ (\E i \in DOMAIN ord : ord[i] = c) /\ k2[rk[c]].paused
           => IF Loaded(k[rk[c]]) THEN f = None \/ f # c ELSE k[rk[c]].paused

LEMMA BudgetKeepsFocus ==
  ASSUME NEW k, AllSteady(k),
         NEW rk, NEW ord, NEW f, NEW may \in BOOLEAN, NEW enabled,
         NEW k2, k2 = ApplyBudget(k, rk, ord, f, may, enabled)
  PROVE  FocusKept(k, k2, rk, ord, f, may)
<1> DEFINE racked == [i \in DOMAIN ord |-> rk[ord[i]]]
           loaded == {r \in Range(racked) : Loaded(k[r])}
           focused == {r \in loaded : f # None /\ r = rk[f]}
           live == IF ~enabled \/ Cardinality(loaded) <= 1 THEN loaded
                   ELSE PlanLive(k, racked, focused)
<1>1. k2 = [r \in Runtimes |->
              IF r \notin Range(racked) THEN k[r]
              ELSE IF ~may \/ (r \in loaded \ live /\ IsLive(k[r])) THEN Paused(k[r])
              ELSE IF r \in live /\ ~IsLive(k[r]) THEN Resumed(k[r])
              ELSE k[r]]
  BY DEF ApplyBudget
<1>2. \A c : (\E i \in DOMAIN ord : ord[i] = c) => rk[c] \in Range(racked)
  BY DEF Range
<1>3. focused \subseteq live
  <2>1. focused \subseteq PlanLive(k, racked, focused)
    BY DEF PlanLive
  <2> QED
    BY <2>1
<1>4. \A r \in Range(racked) : r \in loaded <=> Loaded(k[r])
  OBVIOUS
<1>5. \A c \in Consoles : rk[c] \in loaded /\ f # None /\ f = c => rk[c] \in focused
  OBVIOUS
<1> HIDE DEF racked, loaded, focused, live
<1>6. ASSUME NEW r \in Runtimes
      PROVE  /\ Kept(k[r], k2[r]) /\ Steady(k2[r])
             /\ r \in Range(racked) /\ may /\ k2[r].paused =>
                  IF Loaded(k[r]) THEN r \notin live ELSE k[r].paused
  <2>1. Sound(k[r]) /\ Steady(k[r])
    BY DEF AllSteady
  <2>2. k2[r] = k[r] \/ k2[r] = Paused(k[r]) \/ k2[r] = Resumed(k[r])
    BY <1>1
  <2>3. Kept(k[r], k2[r]) /\ Steady(k2[r])
    BY <2>1, <2>2, PausedIsKept, ResumedIsKept, PausedIsSteady, ResumedIsSteady
  <2>4. ASSUME r \in Range(racked), may, k2[r].paused
        PROVE  IF Loaded(k[r]) THEN r \notin live ELSE k[r].paused
    <3>1. k2[r] # Resumed(k[r])
      BY <2>1, <2>4, ResumedIsSteady
    <3>2. k2[r] = IF r \in loaded \ live /\ IsLive(k[r]) THEN Paused(k[r])
                  ELSE IF r \in live /\ ~IsLive(k[r]) THEN Resumed(k[r])
                  ELSE k[r]
      BY <1>1, <2>4
    <3>3. CASE r \in loaded \ live
      BY <1>4, <2>4, <3>3
    <3>4. CASE r \notin loaded \ live
      <4>1. k2[r] = k[r] /\ (r \notin live \/ IsLive(k[r]))
        BY <3>1, <3>2, <3>4
      <4> QED
        BY <1>4, <2>4, <3>4, <4>1 DEF IsLive
    <3> QED
      BY <3>3, <3>4
  <2> QED
    BY <2>3, <2>4
<1>7. AllSteady(k2) /\ \A r \in Runtimes : k2[r].game = k[r].game
  BY <1>6 DEF AllSteady, Kept
<1>8. ASSUME may = TRUE, NEW c \in Consoles,
             rk[c] \in Runtimes, \E i \in DOMAIN ord : ord[i] = c, k2[rk[c]].paused
      PROVE  IF Loaded(k[rk[c]]) THEN f = None \/ f # c ELSE k[rk[c]].paused
  <2>1. rk[c] \in Range(racked)
    BY <1>2, <1>8
  <2>2. IF Loaded(k[rk[c]]) THEN rk[c] \notin live ELSE k[rk[c]].paused
    BY <1>6, <1>8, <2>1
  <2> QED
    BY <1>3, <1>4, <1>5, <2>1, <2>2
<1> QED
  BY <1>7, <1>8 DEF FocusKept

\* What the budget is applied to, so that every console that may run and does not is one that
\* the budget paused.
LEMMA LookingAfterBudget ==
  ASSUME RackTyped, RuntimesSound, Looking, NEW k, Moved(k), AllSteady(k),
         NEW f, NEW may \in BOOLEAN, NEW enabled,
         UNCHANGED rack, focus' = f, powered' \in [Consoles -> BOOLEAN],
         rt' = ApplyBudget(k, rack, order, f, may, enabled),
         MayRunLocalCore' /\ role' # "undecided" =>
           /\ may = TRUE
           /\ \A c \in Consoles :
                powered'[c] /\ rack[c] # NoRuntime /\ k[rack[c]].paused => Loaded(k[rack[c]])
  PROVE  Looking'
<1>1. PICK k2 : k2 = rt' /\ k2 = ApplyBudget(k, rack, order, f, may, enabled)
  OBVIOUS
<1>2. FocusKept(k, k2, rack, order, f, may)
  BY <1>1, BudgetKeepsFocus
<1>3. \A d \in Consoles : rack[d] # NoRuntime =>
        rack[d] \in Runtimes /\ \E i \in DOMAIN order : order[i] = d
  BY OrderCoversRack DEF RackTyped
<1>4. \A r \in Runtimes : Steady(rt[r])'
  BY <1>1, <1>2 DEF FocusKept, AllSteady, Steady, Loaded
<1>5. \A r \in Runtimes : Loaded(k2[r]) <=> Loaded(k[r])
  BY <1>2 DEF FocusKept, Loaded
<1>6. rack'[Second] # NoRuntime => Loaded(rt[rack[Second]])'
  <2>1. ASSUME rack[Second] # NoRuntime PROVE k2[rack[Second]].game # NoGame
    <3>1. rack[Second] \in Runtimes /\ rt[rack[Second]].game # NoGame
      BY <1>3, <2>1, ConsolesAreTwo DEF Looking, Loaded
    <3> QED
      BY <1>2, <3>1 DEF FocusKept, Moved, Kept
  <2> QED
    BY <1>1, <2>1 DEF Loaded
<1>7. ASSUME MayRunLocalCore', role' # "undecided", NEW c \in Consoles, powered'[c]
      PROVE  PausedByBudget(c)'
  <2>1. ASSUME rack[c] # NoRuntime, k2[rack[c]].paused
        PROVE  Loaded(k2[rack[c]]) /\ (f = None \/ f # c)
    <3>1. rack[c] \in Runtimes
      BY <1>3, <2>1
    <3>2. IF Loaded(k[rack[c]]) THEN f = None \/ f # c ELSE k[rack[c]].paused
      BY <1>2, <1>3, <1>7, <2>1 DEF FocusKept
    <3>3. k[rack[c]].paused => Loaded(k[rack[c]])
      BY <1>7, <2>1
    <3> QED
      BY <1>5, <3>1, <3>2, <3>3
  <2> QED
    BY <1>1, <2>1 DEF PausedByBudget, Loaded
<1> QED
  BY <1>4, <1>6, <1>7 DEF Looking

LEMMA LookingIsSteady ==
  ASSUME RuntimesSound, Looking
  PROVE  AllSteady(rt)
  BY DEF RuntimesSound, Looking, AllSteady

\* Nothing moves.
LEMMA LookingStays ==
  ASSUME Looking, UNCHANGED <<rt, rack, focus, powered>>,
         MayRunLocalCore' /\ role' # "undecided" => MayRunLocalCore /\ role # "undecided"
  PROVE  Looking'
  BY DEF Looking, PausedByBudget

\* Every core comes back with the role.
LEMMA LookingAfterReturn ==
  ASSUME RackTyped, RuntimesSound, Looking, UNCHANGED <<rack, focus, powered>>, rt' = RackBack
  PROVE  Looking'
<1>1. PICK k : k = PrimaryBack
  OBVIOUS
<1>2. Primary \in Consoles /\ rack[Primary] # NoRuntime /\ rack[Primary] \in Runtimes
      /\ Second \in Consoles /\ Primary # Second
  BY RackIsOwn, ConsolesAreTwo DEF RackTyped
<1>3. PICK x : x = Resumed(rt[rack[Primary]])
  OBVIOUS
<1>4. Kept(rt[rack[Primary]], x) /\ Steady(x) /\ ~x.paused
  BY <1>2, <1>3, ResumedIsKept, ResumedIsSteady DEF RuntimesSound, Looking
<1>5. k = [rt EXCEPT ![rack[Primary]] = x]
  BY <1>1, <1>3 DEF PrimaryBack
<1>6. Moved(k) /\ k[rack[Primary]] = x /\ k[rack[Second]] = rt[rack[Second]]
  <2>1. Moved(k)
    BY <1>2, <1>4, <1>5, OneMoves
  <2>2. k[rack[Primary]] = x
    BY <1>2, <1>5 DEF RuntimesSound
  <2>3. \A d \in Consoles : d = Primary \/ k[rack[d]] = rt[rack[d]]
    BY <1>2, <1>4, <1>5, OneMoves
  <2> QED
    BY <1>2, <2>1, <2>2, <2>3
<1>7. AllSteady(k)
  BY <1>2, <1>4, <1>5, LookingIsSteady DEF AllSteady, RuntimesSound, Kept
<1>8. \A c \in Consoles : rack[c] # NoRuntime /\ k[rack[c]].paused => Loaded(k[rack[c]])
  BY <1>4, <1>6, ConsolesAreTwo DEF Looking
<1>9. rt' = ApplyBudget(k, rack, order, focus, TRUE, autoPause)
  BY <1>1 DEF RackBack
<1>10. powered' \in [Consoles -> BOOLEAN]
  BY DEF Looking
<1>11. PICK may \in BOOLEAN : may = TRUE
  OBVIOUS
<1> QED
  BY <1>6, <1>7, <1>8, <1>9, <1>10, <1>11, LookingAfterBudget

\* The budget is applied anew, where cores may run or not.
LEMMA LookingAfterPlan ==
  ASSUME RackTyped, RuntimesSound, Looking, NEW f, NEW enabled,
         UNCHANGED <<rack, powered, role, latch>>, focus' = f,
         rt' = ApplyBudget(rt, rack, order, f, MayRunLocalCore, enabled)
  PROVE  Looking'
<1>1. PICK may \in BOOLEAN : may = MayRunLocalCore /\ MayRunLocalCore' = MayRunLocalCore
  BY DEF MayRunLocalCore
<1>2. Moved(rt) /\ AllSteady(rt)
  BY UnmovedIsMoved, LookingIsSteady
<1>3. powered' \in [Consoles -> BOOLEAN]
  BY DEF Looking
<1>4. MayRunLocalCore' /\ role' # "undecided" =>
           /\ may = TRUE
           /\ \A c \in Consoles :
                powered'[c] /\ rack[c] # NoRuntime /\ rt[rack[c]].paused => Loaded(rt[rack[c]])
  BY <1>1 DEF Looking, PausedByBudget
<1>5. rt' = ApplyBudget(rt, rack, order, f, may, enabled)
  BY <1>1
<1> QED
  BY <1>2, <1>3, <1>4, <1>5, LookingAfterBudget

LEMMA SwitchKeepsLooking ==
  ASSUME RackTyped, RuntimesSound, Looking, Switch
  PROVE  Looking'
<1>1. ASSUME NEW c \in Consoles, Gaze(c) PROVE Looking'
  BY <1>1, LookingAfterPlan DEF Gaze, roleVars
<1>2. ASSUME ToggleAutoPause PROVE Looking'
  <2>1. PICK enabled : enabled = ~autoPause
    OBVIOUS
  <2> QED
    BY <1>2, <2>1, LookingAfterPlan DEF ToggleAutoPause, roleVars
<1>3. ASSUME NEW c \in Consoles, Power(c) PROVE Looking'
  <2>1. rack[c] # NoRuntime /\ rack[c] \in Runtimes /\ Sound(rt[rack[c]]) /\ Steady(rt[rack[c]])
    BY <1>3 DEF Power, RackTyped, RuntimesSound, Looking
  <2>2. PICK x : x = IF powered[c] THEN Paused(rt[rack[c]]) ELSE ResumeGated(rt[rack[c]])
    OBVIOUS
  <2>3. rt' = [rt EXCEPT ![rack[c]] = x]
    BY <1>3, <2>2 DEF Power
  <2>4. /\ Steady(x) /\ Kept(rt[rack[c]], x)
        /\ ~powered[c] /\ MayRunLocalCore => ~x.paused
    BY <2>1, <2>2, PausedIsSteady, ResumeGatedIsSteady, PausedIsKept, ResumeGatedIsKept
  <2>5. UNCHANGED <<rack, focus, role, latch>> /\ powered' = [powered EXCEPT ![c] = ~@]
        /\ MayRunLocalCore' = MayRunLocalCore
    BY <1>3 DEF Power, roleVars, MayRunLocalCore
  <2>6. /\ \A d \in Consoles : d = c \/ rt'[rack[d]] = rt[rack[d]]
        /\ rt'[rack[c]] = x
    <3>1. PICK k : k = rt'
      OBVIOUS
    <3>2. \A d \in Consoles : d = c \/ k[rack[d]] = rt[rack[d]]
      BY <2>1, <2>3, <2>4, <3>1, OneMoves
    <3>3. k[rack[c]] = x
      BY <2>1, <2>3, <3>1 DEF RuntimesSound
    <3> QED
      BY <3>1, <3>2, <3>3
  <2>7. powered' \in [Consoles -> BOOLEAN] /\ powered'[c] = ~powered[c]
        /\ \A d \in Consoles : d = c \/ powered'[d] = powered[d]
    BY <2>5 DEF Looking
  <2>8. \A r \in Runtimes : Steady(rt'[r])
    BY <2>1, <2>3, <2>4 DEF RuntimesSound, Looking
  <2>9. Loaded(x) <=> Loaded(rt[rack[c]])
    BY <2>4 DEF Kept, Loaded
  <2>10. rack[Second] # NoRuntime => Loaded(rt'[rack[Second]])
    BY <2>6, <2>9, ConsolesAreTwo DEF Looking
  <2>11. ASSUME MayRunLocalCore, role # "undecided", NEW d \in Consoles, powered'[d]
         PROVE  rack[d] # NoRuntime /\ rt'[rack[d]].paused
                  => Loaded(rt'[rack[d]]) /\ (focus = None \/ focus # d)
    <3>1. CASE d = c
      BY <2>4, <2>6, <2>7, <2>11, <3>1
    <3>2. CASE d # c
      BY <2>6, <2>7, <2>11, <3>2 DEF Looking, PausedByBudget
    <3> QED
      BY <3>1, <3>2
  <2> QED
    BY <2>5, <2>7, <2>8, <2>10, <2>11 DEF Looking, PausedByBudget, Steady, Loaded
<1> QED
  BY <1>1, <1>2, <1>3 DEF Switch

LEMMA RoleStepKeepsLooking ==
  ASSUME RackTyped, RuntimesSound, Looking, RoleStep
  PROVE  Looking'
<1>1. CASE JoinRoom \/ Drop
  BY <1>1, LookingStays DEF JoinRoom, Drop, rackVars
<1>2. CASE LeaveRoom
  BY <1>2, LookingAfterReturn DEF LeaveRoom
<1>3. ASSUME NEW g \in Games \cup {NoGame}, BecomeHost(g) PROVE Looking'
  BY <1>3, LookingAfterReturn DEF BecomeHost
<1>4. ASSUME NEW S \in SUBSET Runtimes,
             rt' = [r \in Runtimes |-> IF r \in S THEN Paused(rt[r]) ELSE rt[r]],
             UNCHANGED <<rack, focus, powered>>, ~MayRunLocalCore' \/ role' = "undecided"
      PROVE  Looking'
  <2>1. \A r \in Runtimes : Steady(rt'[r]) /\ rt'[r].game = rt[r].game
    BY <1>4, PausedIsSteady, PausedIsKept DEF RuntimesSound, Looking, Kept
  <2>2. rack[Second] # NoRuntime => rack[Second] \in Runtimes
    BY ConsolesAreTwo DEF RackTyped
  <2>3. rack[Second] # NoRuntime => rt'[rack[Second]].game # NoGame
    BY <2>1, <2>2 DEF Looking, Loaded
  <2> QED
    BY <1>4, <2>1, <2>3 DEF Looking, Steady, Loaded
<1>5. CASE TvArrives
  <2>1. rack[Primary] \in Runtimes /\ rt = [r \in Runtimes |-> rt[r]]
    BY ConsolesAreTwo DEF RackTyped, RuntimesSound
  <2>2. rt' = [r \in Runtimes |-> IF r \in {rack[Primary]} THEN Paused(rt[r]) ELSE rt[r]]
    BY <1>5, <2>1 DEF TvArrives
  <2>3. {rack[Primary]} \in SUBSET Runtimes
    BY <2>1
  <2> QED
    BY <1>4, <1>5, <2>2, <2>3 DEF TvArrives, roleVars
<1>6. CASE BecomeWatcher
  <2>1. PICK S : S = Range(rack) \cap Runtimes
    OBVIOUS
  <2>2. rt' = [r \in Runtimes |-> IF r \in S THEN Paused(rt[r]) ELSE rt[r]]
    BY <1>6, <2>1 DEF BecomeWatcher, PauseAll
  <2>3. S \in SUBSET Runtimes
    BY <2>1
  <2>4. ~MayRunLocalCore'
    BY <1>6 DEF BecomeWatcher, MayRunLocalCore
  <2> QED
    BY <1>4, <1>6, <2>2, <2>3, <2>4 DEF BecomeWatcher
<1> QED
  BY <1>1, <1>2, <1>3, <1>5, <1>6 DEF RoleStep

\* A core that starts keeps its flag, and has none while it starts.
LEMMA LookingAfterLaunch ==
  ASSUME BootInv, Looking, NEW b \in Boots, Launch(b)
  PROVE  Looking'
<1>1. Launching(b)
  BY DEF Launch, Launching
<1>2. PICK t : t = Chosen(b)
  OBVIOUS
<1>3. t \in Runtimes
  BY <1>1, <1>2, ChosenFits DEF Launching, Cleared
<1>4. PICK contested \in BOOLEAN :
        rt' = [rt EXCEPT ![t] = Starting(rt[t], boot[b].game, b, contested)]
  BY <1>1, <1>2 DEF Launching
<1>5. PICK y : y = Starting(rt[t], boot[b].game, b, contested)
  OBVIOUS
<1>6. Sound(rt[t]) /\ Steady(rt[t])
  BY <1>3 DEF BootInv, RuntimesSound, Looking
<1>7. Steady(y) /\ y.paused = rt[t].paused
  BY <1>5, <1>6, StartingIsSteady
<1>8. rt' = [rt EXCEPT ![t] = y]
  BY <1>4, <1>5
<1>9. \A r \in Runtimes : Steady(rt'[r]) /\ rt'[r].paused = rt[r].paused
  BY <1>3, <1>7, <1>8 DEF BootInv, RuntimesSound, Looking
<1>10. \A r \in Runtimes : rt'[r].game = rt[r].game
  BY <1>1, RuntimesAfterLaunch
<1>11. UNCHANGED <<rack, focus, powered, role, latch>> /\ MayRunLocalCore' = MayRunLocalCore
  BY DEF Launch, roleVars, MayRunLocalCore
<1>12. \A c \in Consoles : rack[c] # NoRuntime => rack[c] \in Runtimes
  BY DEF BootInv, RackTyped
<1>13. rack'[Second] # NoRuntime => rt'[rack'[Second]].game # NoGame
  BY <1>10, <1>11, <1>12, ConsolesAreTwo DEF Looking, Loaded
<1>14. \A c \in Consoles : PausedByBudget(c) => PausedByBudget(c)'
  BY <1>9, <1>10, <1>11, <1>12 DEF PausedByBudget, Loaded
<1> QED
  BY <1>9, <1>11, <1>13, <1>14 DEF Looking, Steady, Loaded

LEMMA LookingAfterFailure ==
  ASSUME BootInv, Looking, NEW b \in Boots, FailStart(b)
  PROVE  Looking'
<1>1. RackTyped /\ RuntimesSound /\ \A d \in Consoles : rack[d] # b
  BY StartedFits DEF BootInv, FailStart
<1>2. UNCHANGED <<rack, focus, powered, role, latch>> /\ MayRunLocalCore' = MayRunLocalCore
  BY DEF FailStart, roleVars, MayRunLocalCore
<1>3. b \in Runtimes
  BY ConsolesAreTwo
<1>4. CASE rt' = rt
  BY <1>2, <1>4, LookingStays
<1>5. CASE rt' # rt
  <2>1. rt' = [rt EXCEPT ![b] = Disposed(rt[b])]
    BY <1>5 DEF FailStart
  <2>2. Steady(Disposed(rt[b]))
    BY <1>1, <1>3, DisposedIsSteady DEF RuntimesSound, Looking
  <2>3. /\ \A r \in Runtimes : Steady(rt'[r])
        /\ \A r \in Runtimes : r # b => rt'[r] = rt[r]
    BY <1>1, <1>3, <2>1, <2>2 DEF RuntimesSound, Looking
  <2>4. \A d \in Consoles : rack[d] # NoRuntime => rt'[rack[d]] = rt[rack[d]]
    BY <1>1, <2>3 DEF RackTyped
  <2>5. rack[Second] # NoRuntime => rt'[rack[Second]].game # NoGame
    BY <2>4, ConsolesAreTwo DEF Looking, Loaded
  <2>6. \A c \in Consoles : PausedByBudget(c) => PausedByBudget(c)'
    BY <1>2, <2>4 DEF PausedByBudget, Loaded
  <2> QED
    BY <1>2, <2>3, <2>5, <2>6 DEF Looking, Steady, Loaded
<1> QED
  BY <1>4, <1>5

\* A core that has started: whatever its boot commits, the console it is on runs it, unless
\* the budget says otherwise, or the file was picked for a console that may not run.
LEMMA LookingAfterFinish ==
  ASSUME BootInv, Looking, NEW b \in Boots, NEW runs \in BOOLEAN, Finish(b, runs)
  PROVE  Looking'
<1> USE ConsolesAreTwo
<1>0. boot[b].phase = "starting"
  BY DEF Finish
<1>1. PICK c, t, g : c = boot[b].at /\ t = boot[b].target /\ g = boot[b].game
  OBVIOUS
<1>2. PICK rk, ord, f :
        /\ rk = IF boot[b].target = b THEN [rack EXCEPT ![boot[b].at] = b] ELSE rack
        /\ ord = IF t = b THEN MovedToEnd(c) ELSE order
        /\ f = IF t = b /\ focus = c /\ rack[c] # NoRuntime THEN None ELSE focus
  OBVIOUS
<1>3. PICK up : up = [rt EXCEPT ![boot[b].target] = Started(@, boot[b].game, runs)]
  OBVIOUS
<1>4. PICK alone : alone = IF t = b THEN Retire(up, c) ELSE up
  OBVIOUS
<1>5. PICK on : on = IF Switched(b) THEN Resume(alone, rk[c]) ELSE alone
  OBVIOUS
<1> DEFINE budgeted == t = b \/ boot[b].kind = "into" \/ (boot[b].kind = "load" /\ ~Commits(b))
           last == Commits(b) \/ boot[b].kind = "reboot" \/ (boot[b].kind = "pick" /\ t = b)
<1>6. PICK fit : fit = IF budgeted THEN ApplyBudget(on, rk, ord, f, MayRunLocalCore, autoPause) ELSE on
  OBVIOUS
<1>7. rt' = IF last THEN Resume(fit, rk[c]) ELSE fit
  BY <1>1, <1>2, <1>3, <1>4, <1>5, <1>6 DEF Finish
<1>8. rk = RackWith(b) /\ ord = OrderWith(b)
  BY <1>1, <1>2 DEF RackWith, OrderWith
<1>9. /\ rack' = rk /\ order' = ord /\ focus' = f /\ role' = role
      /\ MayRunLocalCore' = MayRunLocalCore
      /\ powered' = IF Switched(b) THEN [powered EXCEPT ![c] = TRUE] ELSE powered
  BY <1>1, <1>2 DEF Finish, roleVars, MayRunLocalCore
<1>10. /\ c \in Consoles /\ t \in Runtimes /\ g \in Games /\ boot[b].kind \in Kinds
       /\ boot[b].kind \in {"reboot", "swap", "spawn"} => t = b
       /\ \A d \in Consoles : rack[d] # b
       /\ Home(t) = c
  BY <1>0, <1>1, StartedFits
<1>11. AllSteady(rt) /\ rt = [r \in Runtimes |-> rt[r]] /\ RackTyped
  BY LookingIsSteady DEF BootInv, RuntimesSound
<1>12. PICK may \in BOOLEAN : may = MayRunLocalCore
  BY DEF MayRunLocalCore
<1>13. /\ rk \in [Consoles -> Runtimes \cup {NoRuntime}]
       /\ \A d \in Consoles : rk[d] = IF d = c /\ t = b THEN b ELSE rack[d]
       /\ ord \in Orders /\ (ord = <<Primary>> <=> rk[Second] = NoRuntime)
  BY <1>0, <1>1, <1>8, RackAfterFinish
<1>14. /\ up = [r \in Runtimes |-> up[r]] /\ AllSteady(up)
       /\ \A r \in Runtimes : r # t => up[r] = rt[r]
       /\ Loaded(up[t]) /\ up[t].paused = rt[t].paused
  <2>1. PICK y : y = Started(rt[t], g, runs)
    OBVIOUS
  <2>2. Sound(y) /\ Steady(y) /\ Loaded(y) /\ y.paused = rt[t].paused
    BY <1>10, <1>11, <2>1, StartedIsSound, StartedIsSteady DEF AllSteady
  <2>3. up = [rt EXCEPT ![t] = y]
    BY <1>1, <1>3, <2>1
  <2> QED
    BY <1>10, <1>11, <2>2, <2>3 DEF AllSteady
<1>15. /\ alone = [r \in Runtimes |-> alone[r]] /\ AllSteady(alone)
       /\ \A r \in Runtimes : ~(t = b /\ r = rack[c]) => alone[r] = up[r]
  <2>1. CASE t = b /\ rack[c] # NoRuntime
    <3>1. alone = [up EXCEPT ![rack[c]] = Disposed(up[rack[c]])]
      BY <1>4, <2>1 DEF Retire
    <3>2. rack[c] \in Runtimes
      BY <1>10, <1>11, <2>1 DEF RackTyped
    <3>3. Sound(Disposed(up[rack[c]])) /\ Steady(Disposed(up[rack[c]]))
      BY <1>14, <3>2, DisposedIsSound, DisposedIsSteady DEF AllSteady
    <3>4. PICK y : y = Disposed(up[rack[c]])
      OBVIOUS
    <3>5. /\ alone = [r \in Runtimes |-> alone[r]]
          /\ \A r \in Runtimes : alone[r] = IF r = rack[c] THEN y ELSE up[r]
      BY <1>14, <3>1, <3>2, <3>4
    <3> QED
      BY <1>14, <2>1, <3>3, <3>4, <3>5 DEF AllSteady
  <2>2. CASE ~(t = b /\ rack[c] # NoRuntime)
    BY <1>4, <1>14, <2>2 DEF Retire
  <2> QED
    BY <2>1, <2>2
<1>16. ASSUME NEW k, k = [r \in Runtimes |-> k[r]], AllSteady(k), NEW j, j = Resume(k, rk[c])
       PROVE  /\ j = [r \in Runtimes |-> j[r]] /\ AllSteady(j)
              /\ \A r \in Runtimes : /\ r # rk[c] => j[r] = k[r]
                                     /\ j[r].game = k[r].game
                                     /\ may /\ r = rk[c] => ~j[r].paused
  <2>1. j = [r \in Runtimes |-> j[r]]
        /\ \A r \in Runtimes : j[r] = IF r = rk[c] THEN ResumeGated(k[r]) ELSE k[r]
    BY <1>16 DEF Resume
  <2>2. \A r \in Runtimes : Sound(k[r]) /\ Steady(k[r])
    BY <1>16 DEF AllSteady
  <2>3. \A r \in Runtimes : /\ Sound(ResumeGated(k[r])) /\ Steady(ResumeGated(k[r]))
                            /\ ResumeGated(k[r]).game = k[r].game
                            /\ may => ~ResumeGated(k[r]).paused
    BY <1>12, <2>2, ResumeGatedIsKept, ResumeGatedIsSteady DEF Kept
  <2> QED
    BY <2>1, <2>2, <2>3 DEF AllSteady
<1>17. /\ on = [r \in Runtimes |-> on[r]] /\ AllSteady(on)
       /\ \A r \in Runtimes : /\ on[r].game = alone[r].game
                              /\ r # rk[c] \/ ~Switched(b) => on[r] = alone[r]
                              /\ Switched(b) /\ may /\ r = rk[c] => ~on[r].paused
  <2>1. CASE Switched(b)
    <3>1. on = Resume(alone, rk[c])
      BY <1>5, <2>1
    <3> QED
      BY <1>15, <1>16, <2>1, <3>1
  <2>2. CASE ~Switched(b)
    BY <1>5, <1>15, <2>2
  <2> QED
    BY <2>1, <2>2
<1>18. FocusKept(on, fit, rk, ord, f, may) \/ (~budgeted /\ fit = on)
  <2>1. ASSUME budgeted PROVE FocusKept(on, fit, rk, ord, f, may)
    <3>1. fit = ApplyBudget(on, rk, ord, f, may, autoPause)
      BY <1>6, <1>12, <2>1
    <3> QED
      BY <1>17, <3>1, BudgetKeepsFocus
  <2> QED
    BY <1>6, <2>1
<1>19. fit = [r \in Runtimes |-> fit[r]] /\ AllSteady(fit) /\ \A r \in Runtimes : fit[r].game = on[r].game
  <2>1. fit = [r \in Runtimes |-> fit[r]]
    BY <1>6, <1>17 DEF ApplyBudget
  <2> QED
    BY <1>17, <1>18, <2>1 DEF FocusKept
<1>20. PICK now : now = rt'
  OBVIOUS
<1>21. /\ AllSteady(now)
       /\ \A r \in Runtimes : /\ now[r].game = fit[r].game
                              /\ r # rk[c] \/ ~last => now[r] = fit[r]
                              /\ last /\ may /\ r = rk[c] => ~now[r].paused
  <2>1. CASE last
    <3>1. now = Resume(fit, rk[c])
      BY <1>7, <1>20, <2>1
    <3> QED
      BY <1>16, <1>19, <2>1, <3>1
  <2>2. CASE ~last
    BY <1>7, <1>19, <1>20, <2>2
  <2> QED
    BY <2>1, <2>2
<1> HIDE DEF budgeted, last
<1>22. powered' \in [Consoles -> BOOLEAN] /\ \A d \in Consoles : powered'[d] => powered[d] \/ (d = c /\ Switched(b))
  BY <1>9, <1>10 DEF Looking
<1>23. rk[Second] # NoRuntime => Loaded(now[rk[Second]])
  <2> SUFFICES ASSUME rk[Second] # NoRuntime PROVE now[rk[Second]].game # NoGame
    BY DEF Loaded
  <2>1. rk[Second] \in Runtimes
    BY <1>13
  <2>2. now[rk[Second]].game = alone[rk[Second]].game
    BY <1>17, <1>19, <1>21, <2>1
  <2>3. CASE rk[Second] = t
    <3>1. ~(t = b /\ rk[Second] = rack[c])
      BY <1>10, <2>3
    <3> QED
      BY <1>14, <1>15, <2>1, <2>2, <2>3, <3>1 DEF Loaded
  <2>4. CASE rk[Second] # t
    <3>1. rk[Second] = rack[Second] /\ rack[Second] # NoRuntime /\ ~(t = b /\ c = Second)
      BY <1>13, <2>4
    <3>2. ~(t = b /\ rk[Second] = rack[c])
      BY <1>10, <1>11, <3>1, RackIsOwn
    <3> QED
      BY <1>14, <1>15, <2>1, <2>2, <2>4, <3>1, <3>2 DEF Looking, Loaded
  <2> QED
    BY <2>3, <2>4
\* Where a console is not loaded, it is because it was not, and is not paused.
<1>24. ASSUME may, role # "undecided", NEW d \in Consoles, powered'[d], rk[d] # NoRuntime,
              on[rk[d]].paused
       PROVE  /\ Loaded(on[rk[d]])
              /\ ~budgeted => f = None \/ f # d
  <2>1. rk[d] \in Runtimes
    BY <1>13, <1>24
  <2>2. ~(Switched(b) /\ d = c)
    BY <1>17, <1>24, <2>1
  <2>3. powered[d] /\ PausedByBudget(d)
    BY <1>12, <1>22, <1>24, <2>2 DEF Looking
  <2>4. rk[d] # rk[c] \/ ~Switched(b)
    <3>1. CASE d # c
      <4>1. rk[d] = rack[d] /\ rack[d] # NoRuntime
        BY <1>13, <1>24, <3>1
      <4>2. rk[c] = b \/ rk[c] = rack[c]
        BY <1>10, <1>13
      <4> QED
        BY <1>10, <1>11, <3>1, <4>1, <4>2, RackIsOwn
    <3> QED
      BY <2>2, <3>1
  <2>5. on[rk[d]] = alone[rk[d]]
    BY <1>17, <2>1, <2>4
  <2>6. CASE t = b /\ d = c
    <3>1. rk[d] = t /\ rk[d] # rack[c]
      BY <1>10, <1>13, <2>6
    <3>2. Loaded(alone[rk[d]])
      BY <1>14, <1>15, <2>1, <3>1
    <3> QED
      BY <2>5, <2>6, <3>2 DEF budgeted
  <2>7. CASE ~(t = b /\ d = c)
    <3>1. rk[d] = rack[d] /\ rack[d] # NoRuntime
      BY <1>13, <1>24, <2>7
    <3>2. ~(t = b /\ rk[d] = rack[c])
      BY <1>10, <1>11, <2>7, <3>1, RackIsOwn
    <3>3. alone[rk[d]] = up[rk[d]] /\ up[rk[d]].paused = rt[rk[d]].paused
          /\ (Loaded(rt[rk[d]]) => Loaded(up[rk[d]]))
      BY <1>14, <1>15, <2>1, <3>2
    <3>4. Loaded(rt[rk[d]]) /\ (focus = None \/ focus # d)
      BY <1>24, <2>3, <2>5, <3>1, <3>3 DEF PausedByBudget
    <3>5. f = None \/ f = focus
      BY <1>2
    <3> QED
      BY <2>5, <3>3, <3>4, <3>5
  <2> QED
    BY <2>6, <2>7
<1>25. ASSUME may, role # "undecided", NEW d \in Consoles, powered'[d], rk[d] # NoRuntime,
              now[rk[d]].paused
       PROVE  Loaded(now[rk[d]]) /\ (f = None \/ f # d)
  <2>1. rk[d] \in Runtimes
    BY <1>13, <1>25
  <2>2. now[rk[d]] = fit[rk[d]]
    BY <1>21, <1>25, <2>1
  <2>3. Loaded(now[rk[d]]) <=> Loaded(on[rk[d]])
    BY <1>19, <1>21, <2>1 DEF Loaded
  <2>4. CASE ~budgeted /\ fit = on
    BY <1>24, <1>25, <2>2, <2>3, <2>4
  <2>5. CASE FocusKept(on, fit, rk, ord, f, may)
    <3>1. \E i \in DOMAIN ord : ord[i] = d
      BY <1>13, <1>25, OrderCoversRack
    <3>2. IF Loaded(on[rk[d]]) THEN f = None \/ f # d ELSE on[rk[d]].paused
      BY <1>25, <2>1, <2>2, <2>5, <3>1 DEF FocusKept
    <3>3. Loaded(on[rk[d]])
      BY <1>24, <1>25, <3>2
    <3> QED
      BY <2>3, <3>2, <3>3
  <2> QED
    BY <1>18, <2>4, <2>5
<1>26. \A r \in Runtimes : Steady(now[r])
  BY <1>21 DEF AllSteady
<1>27. MayRunLocalCore' /\ role' # "undecided"
         => \A d \in Consoles : powered'[d] => PausedByBudget(d)'
  BY <1>9, <1>12, <1>20, <1>25 DEF PausedByBudget, Loaded
<1> QED
  BY <1>9, <1>20, <1>22, <1>23, <1>26, <1>27 DEF Looking, Steady, Loaded

LEMMA StepKeepsLooking ==
  ASSUME BootInv, Looking, [Next]_vars
  PROVE  Looking'
<1>1. RackTyped /\ RuntimesSound
  BY DEF BootInv
<1>2. CASE Ask
  <2>1. UNCHANGED <<rt, rack, focus, powered, role, latch>>
    BY <1>2 DEF Ask, InsertCartridge, QueueCartridge, PickFile, Reboot, Spawn, InsertSecond,
                ArmDevice, NothingToArm, roleVars, rackVars
  <2> QED
    BY <2>1, LookingStays DEF MayRunLocalCore
<1>3. CASE UNCHANGED vars
  BY <1>3, LookingStays DEF vars, roleVars, rackVars, MayRunLocalCore
<1>4. CASE BootStep
  <2> SUFFICES ASSUME NEW b \in Boots,
                      \/ GiveWay(b) \/ GiveUp(b) \/ Launch(b) \/ ThrowAtStart(b)
                      \/ FailFetch(b) \/ FailStart(b)
                      \/ \E runs \in BOOLEAN : Finish(b, runs)
               PROVE  Looking'
    BY <1>4 DEF BootStep
  <2>1. CASE GiveWay(b) \/ ThrowAtStart(b) \/ FailFetch(b)
    <3>1. UNCHANGED <<rt, rack, focus, powered, role, latch>>
      BY <2>1 DEF GiveWay, ThrowAtStart, FailFetch, roleVars, rackVars
    <3> QED
      BY <3>1, LookingStays DEF MayRunLocalCore
  <2>2. CASE GiveUp(b)
    <3>1. UNCHANGED <<rack, focus, powered, role, latch>> /\ MayRunLocalCore' = MayRunLocalCore
      BY <2>2 DEF GiveUp, roleVars, MayRunLocalCore
    <3>2. CASE rt' = rt
      BY <3>1, <3>2, LookingStays
    <3>3. CASE rt' = ApplyBudget(rt, rack, order, focus, MayRunLocalCore, autoPause)
      BY <1>1, <3>1, <3>3, LookingAfterPlan
    <3> QED
      BY <2>2, <3>2, <3>3 DEF GiveUp
  <2> QED
    BY <2>1, <2>2, LookingAfterLaunch, LookingAfterFailure, LookingAfterFinish
<1> QED
  BY <1>1, <1>2, <1>3, <1>4, SwitchKeepsLooking, RoleStepKeepsLooking DEF Next

LEMMA AlwaysLooking == Spec => []Looking
<1>1. Init => Looking
  <2> SUFFICES ASSUME Init PROVE Looking
    OBVIOUS
  <2>1. /\ powered \in [Consoles -> BOOLEAN] /\ rack[Second] = NoRuntime
        /\ \A r \in Runtimes : rt[r] = NewRuntime
        /\ \A c \in Consoles : rack[c] # NoRuntime => rack[c] \in Runtimes
    BY ConsolesAreTwo DEF Init
  <2>2. Steady(NewRuntime) /\ ~NewRuntime.paused
    BY DEF Steady, NewRuntime, Loaded
  <2> QED
    BY <2>1, <2>2 DEF Looking, PausedByBudget
<1> QED
  BY <1>1, AlwaysBootInv, StepKeepsLooking, PTL DEF Spec

-----------------------------------------------------------------------------
(* What holds.                                                                 *)

\* Every variable has its type, the order and the rack name the same consoles, and no
\* runtime is on two of them.
THEOREM RackTypes == Spec => []RackTypeOK
<1>1. Init => MiscTyped
  BY DEF Init, MiscTyped, Consoles
<1>2. BootInv /\ MiscTyped => RackTypeOK
  <2> SUFFICES ASSUME BootInv, MiscTyped PROVE RackTypeOK
    OBVIOUS
  <2> USE ConsolesAreTwo
  <2>1. RackTyped /\ RuntimesSound
    BY DEF BootInv
  <2>2. rack[Primary] # rack[Second]
    BY <2>1, RackIsOwn DEF RackTyped
  <2>3. Range(order) = {c \in Consoles : rack[c] # NoRuntime} /\ IsInjective(order)
    <3>1. CASE order = <<Primary>>
      <4>1. DOMAIN order = 1 .. 1 /\ order[1] = Primary /\ rack[Second] = NoRuntime
            /\ rack[Primary] # NoRuntime
        BY <2>1, <3>1 DEF RackTyped
      <4> QED
        BY <4>1 DEF Range, IsInjective
    <3>2. CASE order = <<Primary, Second>>
      <4>1. DOMAIN order = 1 .. 2 /\ order[1] = Primary /\ order[2] = Second
            /\ order # <<Primary>>
        BY <3>2
      <4>2. rack[Second] # NoRuntime /\ rack[Primary] # NoRuntime
        BY <2>1, <4>1 DEF RackTyped
      <4> QED
        BY <4>1, <4>2 DEF Range, IsInjective
    <3>3. CASE order = <<Second, Primary>>
      <4>1. DOMAIN order = 1 .. 2 /\ order[1] = Second /\ order[2] = Primary
            /\ order # <<Primary>>
        BY <3>3
      <4>2. rack[Second] # NoRuntime /\ rack[Primary] # NoRuntime
        BY <2>1, <4>1 DEF RackTyped
      <4> QED
        BY <4>1, <4>2 DEF Range, IsInjective
    <3> QED
      BY <2>1, <3>1, <3>2, <3>3 DEF RackTyped, Orders
  <2>4. /\ rt \in [Runtimes -> RuntimeType]
        /\ \A r \in Runtimes : rt[r].running => rt[r].alive
    BY <2>1 DEF RuntimesSound, Sound
  <2> QED
    BY <2>1, <2>2, <2>3, <2>4 DEF RackTypeOK, RackTyped, MiscTyped, RuntimeType
<1>3. BootInv /\ MiscTyped /\ [Next]_vars => MiscTyped'
  BY StepKeepsTypes
<1> QED
  BY <1>1, <1>2, <1>3, AlwaysBootInv, PTL DEF Spec

\* Once the boots under way have ended, no core of a page that watches runs, but for a file
\* picked before the demotion and started in the console's own runtime after it.
THEOREM WatchersRunNothing == Spec => []WatcherRunsNothing
<1>1. Watching => WatcherRunsNothing
  BY DEF Watching, WatcherRunsNothing
<1> QED
  BY <1>1, AlwaysWatching, PTL

\* The boot asked for last is what its console runs, if it succeeded and none raced it.
THEOREM TheNewestWins == Spec => []NewestWins
<1>1. BootInv => NewestWins
  BY DEF BootInv, NewestIsLoaded, NewestWins
<1> QED
  BY <1>1, AlwaysBootInv, PTL

\* A console's SaveRAM is filed under the game its core runs.
THEOREM TheCardFollows == Spec => []CardFollowsCore
<1>1. BootInv => CardFollowsCore
  BY DEF BootInv, CardIsOfCore, CardFollowsCore
<1> QED
  BY <1>1, AlwaysBootInv, PTL

\* Whatever a boot replaces or fails to start is let go of: a core that runs has a console,
\* unless boots of that console raced.
THEOREM NobodyIsOrphaned == Spec => []NoOrphans
<1>1. BootInv => NoOrphans
  BY DEF BootInv, HasAHome, NoOrphans
<1> QED
  BY <1>1, AlwaysBootInv, PTL

\* The console one looks at runs where cores may: what the budget, a demotion, the room's game
\* on the TV or the power switch has paused comes back, whatever boots end meanwhile.
THEOREM TheFocusedRuns == Spec => []FocusedRuns
<1>1. RackTypeOK /\ BootInv /\ Looking => FocusedRuns
  <2> SUFFICES ASSUME RackTypeOK, BootInv, Looking, MayRunLocalCore, role # "undecided", focus # None,
                      rack[focus] # NoRuntime, powered[focus], rt[rack[focus]].alive,
                      focus \in Consoles
               PROVE  rt[rack[focus]].running
    BY DEF FocusedRuns, RackTypeOK
  <2>1. rack[focus] \in Runtimes
    BY DEF BootInv, RackTyped
  <2>2. ~rt[rack[focus]].paused
    BY DEF Looking, PausedByBudget
  <2> QED
    BY <2>1, <2>2 DEF Looking, Steady
<1> QED
  BY <1>1, RackTypes, AlwaysBootInv, AlwaysLooking, PTL
=============================================================================
