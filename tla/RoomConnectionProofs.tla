------------------------ MODULE RoomConnectionProofs ------------------------
(***************************************************************************)
(* Proofs about RoomConnection, for any number of clients, any two tables  *)
(* of delays and any number of troubles: a client that wants to be in a    *)
(* room always comes back, and never faster than the time before.          *)
(*                                                                         *)
(* The clients of FallbackElection are such connections.  For any number   *)
(* of them, of ids, of clock values, of restarts and of silences: whoever  *)
(* got into a room comes to a host, and a room whose relay does not elect  *)
(* comes to one host.  The invariant, ElectInv, says what each client will *)
(* have for a copy of the board, for a host and for a roster once the      *)
(* frames on their way to it have come, and which claims there can be.     *)
(***************************************************************************)
EXTENDS FallbackElection, SumTheorems, TLAPS

Table(slow) == IF slow THEN SlowDelays ELSE FastDelays
At(n) == IF n < Len(FastDelays) THEN n ELSE Len(FastDelays)

\* What the last delay was: the entry of the table in force, at the number of tries.
\* A HELLO forgets both.
WaitedIsEntry(c) ==
  IF tries[c] = 0 THEN waited[c] = 0 ELSE waited[c] = Table(retryLater[c])[At(tries[c])]

\* The socket and the flags of a client, as ComesBack needs them.
Consistent(c) ==
  /\ fatal[c] => closing[c] /\ sock[c] \in {"closing", "closed"} /\ retryIn[c] = 0
  /\ closing[c] => fatal[c]
  /\ sock[c] = "none" => retryIn[c] = 0 /\ ~fatal[c]
  /\ sock[c] = "closing" => fatal[c]
  /\ ~fatal[c] => (sock[c] = "closed" <=> retryIn[c] # 0)

ConnInv == ConnTypeOK /\ \A c \in Clients : Consistent(c) /\ WaitedIsEntry(c)

-----------------------------------------------------------------------------
\* The two tables have entries at every number of tries, and waiting on in one of
\* them, or changing to the slower one, is never quicker.
LEMMA TablesGrow ==
  ASSUME NEW n \in Nat, n # 0, NEW slow \in BOOLEAN
  PROVE  /\ At(n) \in DOMAIN FastDelays
         /\ Table(slow)[At(n)] \in Nat \ {0}
         /\ Table(slow)[At(n)] <= Table(slow)[At(n + 1)]
         /\ Table(FALSE)[At(n)] <= Table(TRUE)[At(n + 1)]
<1>1. Len(FastDelays) \in Nat \ {0}
  BY ConnectionConstants
<1>2. DOMAIN FastDelays = 1 .. Len(FastDelays) /\ DOMAIN SlowDelays = 1 .. Len(FastDelays)
  BY ConnectionConstants
<1>3. /\ At(n) \in 1 .. Len(FastDelays) /\ At(n + 1) \in 1 .. Len(FastDelays)
      /\ At(n) <= At(n + 1)
  BY <1>1 DEF At
<1>4. \A i \in 1 .. Len(FastDelays) : FastDelays[i] \in Nat \ {0} /\ SlowDelays[i] \in Nat \ {0}
  BY <1>2, ConnectionConstants
<1>5. /\ FastDelays[At(n)] <= FastDelays[At(n + 1)]
      /\ SlowDelays[At(n)] <= SlowDelays[At(n + 1)]
      /\ FastDelays[At(n + 1)] <= SlowDelays[At(n + 1)]
  BY <1>2, <1>3, ConnectionConstants
<1> QED
  BY <1>2, <1>3, <1>4, <1>5 DEF Table

LEMMA ConnInitially == ConnInit => ConnInv
  BY DEF ConnInit, ConnInv, ConnTypeOK, Consistent, WaitedIsEntry

\* ScheduleReconnect takes the entry that the new number of tries stands for.
LEMMA TakesTheNextEntry ==
  ASSUME ConnInv, NEW c \in Clients, NEW code, ScheduleReconnect(c, code),
         ~closing[c], ~fatal[c], retryIn[c] = 0
  PROVE  LET slow == SlowFromNow(c, code)
             d    == Table(slow)[At(tries[c] + 1)]
         IN /\ slow \in BOOLEAN
            /\ retryLater' = [retryLater EXCEPT ![c] = slow]
            /\ tries' = [tries EXCEPT ![c] = @ + 1]
            /\ retryIn' = [retryIn EXCEPT ![c] = d]
            /\ waited' = [waited EXCEPT ![c] = d]
<1> DEFINE slow == SlowFromNow(c, code)
<1>1. slow \in BOOLEAN
  BY DEF SlowFromNow, ConnInv, ConnTypeOK
<1>2. Len(Table(slow)) = Len(FastDelays) /\ Len(FastDelays) \in Nat \ {0} /\ tries[c] \in Nat
  BY ConnectionConstants DEF Table, ConnInv, ConnTypeOK
<1>3. (IF tries[c] < Len(Table(slow)) THEN tries[c] + 1 ELSE Len(Table(slow))) = At(tries[c] + 1)
  BY <1>2 DEF At
<1> QED
  BY <1>1, <1>3 DEF ScheduleReconnect, Table

LEMMA ConnStepKeeps ==
  ASSUME ConnInv, NEW c \in Clients, ConnStep(c)
  PROVE  ConnInv' /\ \A d \in Clients : waited'[d] >= waited[d] \/ waited'[d] = 0
<1> DEFINE Goal == /\ ConnTypeOK' /\ (\A d \in Clients : Consistent(d)' /\ WaitedIsEntry(d)')
                   /\ \A d \in Clients : waited'[d] >= waited[d] \/ waited'[d] = 0
<1>0. ConnTypeOK /\ \A d \in Clients : Consistent(d) /\ WaitedIsEntry(d)
  BY DEF ConnInv
<1> USE DEF ConnTypeOK, Consistent, WaitedIsEntry
<1>1. ASSUME Open(c) PROVE Goal
  BY <1>0, <1>1 DEF Open
<1>2. ASSUME SocketOpened(c) PROVE Goal
  BY <1>0, <1>2 DEF SocketOpened
<1>3. ASSUME SessionEstablished(c) PROVE Goal
  <2>1. ConnTypeOK' /\ \A d \in Clients : Consistent(d)'
    BY <1>0, <1>3 DEF SessionEstablished
  <2>2. tries'[c] = 0 /\ waited'[c] = 0
    BY <1>0, <1>3 DEF SessionEstablished
  <2>3. \A d \in Clients \ {c} :
          /\ tries'[d] = tries[d] /\ retryLater'[d] = retryLater[d]
          /\ waited'[d] = waited[d] /\ waited[d] \in Nat
    BY <1>0, <1>3 DEF SessionEstablished
  <2>4. \A d \in Clients : WaitedIsEntry(d)' /\ (waited'[d] >= waited[d] \/ waited'[d] = 0)
    BY <1>0, <2>2, <2>3
  <2> QED
    BY <2>1, <2>4
<1>4. ASSUME HelloRefused(c) PROVE Goal
  BY <1>0, <1>4 DEF HelloRefused, NoteFatal
<1>5. ASSUME RetryFires(c) PROVE Goal
  BY <1>0, <1>5 DEF RetryFires
<1>6. ASSUME Leave(c) PROVE Goal
  <2>1. ConnTypeOK' /\ \A d \in Clients : Consistent(d)'
    BY <1>0, <1>6 DEF Leave, Reset
  <2>2. tries'[c] = 0 /\ waited'[c] = 0
    BY <1>0, <1>6 DEF Leave, Reset
  <2>3. \A d \in Clients \ {c} :
          /\ tries'[d] = tries[d] /\ retryLater'[d] = retryLater[d]
          /\ waited'[d] = waited[d] /\ waited[d] \in Nat
    BY <1>0, <1>6 DEF Leave, Reset
  <2>4. \A d \in Clients : WaitedIsEntry(d)' /\ (waited'[d] >= waited[d] \/ waited'[d] = 0)
    BY <1>0, <2>2, <2>3
  <2> QED
    BY <2>1, <2>4
<1>7. ASSUME NEW code \in {TryAgain, Permanent, Dropped}, SocketClosed(c, code)
      PROVE  Goal
  <2>1. CASE code = Permanent
    <3>1. /\ sock' = [sock EXCEPT ![c] = "closed"]
          /\ connected' = [connected EXCEPT ![c] = FALSE]
          /\ fatal' = [fatal EXCEPT ![c] = TRUE]
          /\ closing' = [closing EXCEPT ![c] = TRUE]
          /\ retryIn' = [retryIn EXCEPT ![c] = 0]
          /\ UNCHANGED <<tries, retryLater, waited>>
          /\ troubles' \in Nat
      BY <1>0, <1>7, <2>1 DEF SocketClosed, NoteFatal
    <3>2. ConnTypeOK' /\ \A d \in Clients : Consistent(d)'
      BY <1>0, <3>1
    <3>3. \A d \in Clients : WaitedIsEntry(d)'
      BY <1>0, <3>1
    <3> QED
      BY <1>0, <3>1, <3>2, <3>3
  <2>2. CASE code # Permanent /\ (closing[c] \/ fatal[c] \/ retryIn[c] # 0)
    BY <1>0, <1>7, <2>2 DEF SocketClosed, ScheduleReconnect
  <2>3. CASE code # Permanent /\ ~closing[c] /\ ~fatal[c] /\ retryIn[c] = 0
    <3> DEFINE slow == SlowFromNow(c, code)
               wait == Table(slow)[At(tries[c] + 1)]
    <3>1. ScheduleReconnect(c, code) /\ UNCHANGED <<closing, fatal>>
      BY <1>7, <2>3 DEF SocketClosed
    <3>2. /\ slow \in BOOLEAN
          /\ retryLater' = [retryLater EXCEPT ![c] = slow]
          /\ tries' = [tries EXCEPT ![c] = @ + 1]
          /\ retryIn' = [retryIn EXCEPT ![c] = wait]
          /\ waited' = [waited EXCEPT ![c] = wait]
      BY <2>3, <3>1, TakesTheNextEntry
    <3>3. tries[c] \in Nat /\ wait \in Nat \ {0}
      <4>1. tries[c] \in Nat
        BY <1>0
      <4>2. tries[c] + 1 \in Nat /\ tries[c] + 1 # 0
        BY <4>1
      <4> QED
        BY <4>1, <4>2, <3>2, TablesGrow
    <3>4. ConnTypeOK' /\ \A d \in Clients : Consistent(d)' /\ WaitedIsEntry(d)'
      BY <1>0, <1>7, <2>3, <3>1, <3>2, <3>3 DEF SocketClosed
    <3>5. waited'[c] >= waited[c]
      <4>1. CASE tries[c] = 0
        BY <1>0, <3>2, <3>3, <4>1
      <4>2. CASE tries[c] # 0
        <5>1. waited[c] = Table(retryLater[c])[At(tries[c])] /\ (retryLater[c] => slow)
          BY <1>0, <4>2 DEF SlowFromNow
        <5>2. waited[c] <= wait
          BY <1>0, <3>2, <4>2, <5>1, TablesGrow
        <5> QED
          BY <1>0, <3>2, <3>3, <5>2
      <4> QED
        BY <4>1, <4>2
    <3>6. \A d \in Clients : waited'[d] >= waited[d]
      BY <1>0, <3>2, <3>5
    <3> QED
      BY <3>4, <3>6
  <2> QED
    BY <1>0, <2>1, <2>2, <2>3
<1> QED
  BY <1>1, <1>2, <1>3, <1>4, <1>5, <1>6, <1>7 DEF ConnStep, ConnInv
LEMMA ConnNextKeeps ==
  ConnInv /\ [\E c \in Clients : ConnStep(c)]_connVars => ConnInv'
<1>1. ConnInv /\ UNCHANGED connVars => ConnInv'
  BY DEF ConnInv, ConnTypeOK, Consistent, WaitedIsEntry, connVars
<1> QED
  BY <1>1, ConnStepKeeps

\* The connection keeps its types, whatever the relay does.
THEOREM ConnectionIsTyped == ConnSpec => []ConnTypeOK
<1>1. ConnInv => ConnTypeOK
  BY DEF ConnInv
<1> QED
  BY <1>1, ConnInitially, ConnNextKeeps, PTL DEF ConnSpec

\* RoomConnection.js:473-482: for any tables and any closes, a client that wants to be in a
\* room has a socket under way or a timer that will open one, and one that was refused for
\* good has neither.
THEOREM ClientComesBack == ConnSpec => []ComesBack
<1>1. ConnInv => ComesBack
  BY DEF ConnInv, ConnTypeOK, Consistent, ComesBack
<1> QED
  BY <1>1, ConnInitially, ConnNextKeeps, PTL DEF ConnSpec

\* RoomConnection.js:525-540: between two HELLOs no delay is shorter than the one before.
THEOREM DelaysOnlyGrow == ConnSpec => DelaysGrow
<1>1. ConnInv /\ [\E c \in Clients : ConnStep(c)]_connVars
        => [\A c \in Clients : waited'[c] >= waited[c] \/ waited'[c] = 0]_connVars
  BY ConnStepKeeps
<1> QED
  BY <1>1, ConnInitially, ConnNextKeeps, PTL DEF ConnSpec, DelaysGrow

-----------------------------------------------------------------------------
\* Every step of a fallback election is a step of one connection, or of none.
LEMMA ElectionIsConnStep == Next => (\E c \in Clients : ConnStep(c)) \/ UNCHANGED connVars
<1>1. ASSUME NEW c \in Clients, Join(c) \/ Retry(c) \/ LeaveRoom(c)
      PROVE  ConnStep(c)
  BY <1>1 DEF Join, Retry, LeaveRoom, ConnStep
<1>2. ASSUME NEW c \in Clients, Receive(c)
      PROVE  ConnStep(c) \/ UNCHANGED connVars
  <2>1. PICK m : \/ ReceiveHello(c, m) \/ ReceiveHost(c, m) \/ ReceiveJoin(c, m)
                 \/ ReceiveLeave(c, m) \/ ReceiveClaim(c, m)
    BY <1>2 DEF Receive
  <2> QED
    BY <2>1 DEF ReceiveHello, ReceiveHost, ReceiveJoin, ReceiveLeave, ReceiveClaim, ConnStep
<1>3. ASSUME NEW c \in Clients, DeadlineFires(c)
      PROVE  UNCHANGED connVars
  BY <1>3 DEF DeadlineFires
<1>4. ASSUME NEW c \in Clients, NEW t \in 1 .. MaxClock, Opened(c, t)
      PROVE  ConnStep(c)
  BY <1>4 DEF Opened, ConnStep
<1>5. ASSUME NEW c \in Clients, NEW code \in {TryAgain, Permanent, Dropped}, Closed(c, code)
      PROVE  ConnStep(c)
  BY <1>5 DEF Closed, ConnStep
<1>6. ASSUME NEW id \in Ids, Reap(id) \/ Promote(id)
      PROVE  UNCHANGED connVars
  BY <1>6 DEF Reap, Promote
<1>7. ASSUME NEW kind \in Kinds, Restart(kind)
      PROVE  UNCHANGED connVars
  BY <1>7 DEF Restart
<1>8. ASSUME NEW c \in Clients, NEW id \in Ids, Prune(c, id) \/ ReceivePose(c, id)
      PROVE  UNCHANGED connVars
  BY <1>8 DEF Prune, ReceivePose
<1> QED
  BY <1>1, <1>2, <1>3, <1>4, <1>5, <1>6, <1>7, <1>8 DEF Next

\* The theorems above hold of the clients that elect, too.
THEOREM ElectorsAreConnections == Spec => ConnSpec
<1>1. Init => ConnInit
  BY DEF Init
<1>2. UNCHANGED vars => UNCHANGED connVars
  BY DEF vars
<1> QED
  BY <1>1, <1>2, ElectionIsConnStep, PTL DEF Spec, ConnSpec

-----------------------------------------------------------------------------
(* Queues of frames.                                                         *)

\* The LEAVE of id is behind place i; there is no STATE, or no frame that names a host,
\* behind it.
Leaves(q, i, id) == \E j \in DOMAIN q : j > i /\ q[j] = LeaveMsg(id)
Silent(q, i)     == \A j \in DOMAIN q : j > i => q[j].type # "STATE"
Naming(m)  == m.type \in {"HELLO", "HOST"}
Named(m)   == IF m.type = "HELLO" THEN m.host ELSE m.id
Nameless(q, i) == \A j \in DOMAIN q : j > i => ~Naming(q[j])

\* Once the frames q have come, a client that has the copy held has the copy cl; one that
\* knows the host known knows host.
Brings(m, id) == (m.type = "HELLO" /\ id \in m.peers) \/ (m.type = "JOIN" /\ id = m.id)
WillHold(q, held, cl) ==
  \/ Silent(q, 0) /\ held = cl
  \/ \E i \in DOMAIN q : q[i] = ClaimMsg(cl) /\ Silent(q, i)
WillKnow(q, known, host) ==
  \/ Nameless(q, 0) /\ known = host
  \/ \E i \in DOMAIN q : Naming(q[i]) /\ Named(q[i]) = host /\ Nameless(q, i)

-----------------------------------------------------------------------------
(* The inductive invariant of the fallback election.                         *)

\* The claim of the client's present socket.
Own(c) == [id |-> peerOf[c], at |-> joinedAt[c]]

\* The claims there can be: under the id of a socket only the one its client makes, once it
\* has been greeted.
Genuine ==
  {cl \in Claims \cup {NoClaim} :
     /\ cl.id \in 0 .. lastId
     /\ \A c \in Clients :
          peerOf[c] # NoId /\ cl.id = peerOf[c] => cl = Own(c) /\ selfId[c] = peerOf[c]}

\* The id of a socket is one client's alone.
Distinct ==
  \A c, d \in Clients :
    c # d /\ peerOf[c] # NoId => peerOf[d] # peerOf[c] /\ selfId[d] # peerOf[c]

\* Until its socket is open the relay knows nothing of a client, which has not elected.
SocketSound(c) ==
  /\ connected[c] <=> sock[c] \in {"open", "closing"}
  /\ connected[c] => joinedAt[c] # 0
  /\ ~connected[c] => peerOf[c] = NoId /\ vote[c] = "none"
  /\ sock[c] \in {"none", "connecting"} => peers[c] = {}
  /\ peerOf[c] = NoId => coming[c] = <<>>
  /\ peerOf[c] # NoId /\ selfId[c] = peerOf[c] => sock[c] = "open"

\* HELLO is the first frame of a socket, says who sent it and gives the id.
Greets(c, m) == m.type = "HELLO" /\ m.from = relay /\ m.id = peerOf[c]
Greeting(c) ==
  Live(c) =>
    /\ \A i \in DOMAIN coming[c] : coming[c][i].type = "HELLO" => i = 1 /\ ~InRoom(c)
    /\ InRoom(c) =>
         /\ relay # "incompatible"
         /\ relay = "modern" => serverElects[c]
         /\ vote[c] = "none" /\ ~serverElects[c] => deadline[c]
    /\ ~InRoom(c) =>
         /\ coming[c] # <<>> /\ Greets(c, coming[c][1])
         /\ peers[c] = {} /\ vote[c] \in {"none", "early"}

\* Without an electing relay a client that has not elected has no host.
NoVoteNoHost(c) == vote[c] = "none" /\ ~serverElects[c] /\ ~closing[c] => hostId[c] = NoId

\* The last frame that names a host names the one a modern relay has.
HostNamed(c) ==
  relay = "modern" /\ role # NoId /\ Live(c) => WillKnow(coming[c], hostId[c], role)

\* A LEAVE is about a peer that is gone for good; a peer that a client knows of, will know of
\* or took for its host is in the room, or its LEAVE is on its way.
Departures(c) ==
  /\ \A i \in DOMAIN coming[c] : coming[c][i].type = "LEAVE" => coming[c][i].id \notin room
  /\ Live(c) =>
       /\ \A i \in DOMAIN coming[c] : \A id \in Given :
            Brings(coming[c][i], id) => id \in room \/ Leaves(coming[c], i, id)
       /\ \A id \in peers[c] : id \in room \/ Leaves(coming[c], 0, id)
       /\ vote[c] \in {"fair", "blind"} /\ ~serverElects[c]
            => hostId[c] \in room \/ Leaves(coming[c], 0, hostId[c])

\* Nobody holds a false claim, and a client's own is not sent to it.
ClaimsSound(c) ==
  /\ copy[c] \in Genuine
  /\ claims[c] \subseteq Genuine
  /\ \A i \in DOMAIN coming[c] : coming[c][i].type = "STATE" =>
       coming[c][i].claim \in Genuine /\ coming[c][i].claim.id # peerOf[c]

\* What a client will have for a copy is what the board holds, but for a claim of its own or
\* of a peer that is gone; and its own claim is its copy only while the board holds it.
OthersClaim(c) == \E d \in Clients \ {c} : peerOf[d] # NoId /\ board.id = peerOf[d]
Mirrors(c) ==
  Live(c) =>
    /\ OthersClaim(c) => WillHold(coming[c], copy[c], board)
    /\ Silent(coming[c], 0) /\ copy[c] = Own(c) => board = Own(c)

\* What a fair election leaves behind: the own claim and the one on the copy were considered,
\* and none of a peer in the room is better than the host's.
Chosen(c, best) ==
  /\ best.id = hostId[c]
  /\ best.id = selfId[c] => copy[c] = best
  /\ \A cl \in claims[c] : cl.id \in room => ~ClaimWins(cl, best)
FairVote(c) ==
  Live(c) /\ ~serverElects[c] /\ vote[c] = "fair" =>
    /\ Own(c) \in claims[c]
    /\ copy[c] # NoClaim => \E cl \in claims[c] : cl.id = copy[c].id
    /\ \E best \in claims[c] : Chosen(c, best)

Sound(c) ==
  /\ SocketSound(c) /\ Greeting(c) /\ NoVoteNoHost(c) /\ HostNamed(c) /\ Departures(c)
  /\ ClaimsSound(c) /\ Mirrors(c) /\ FairVote(c)

ElectInv ==
  TypeOK /\ ConnInv /\ Distinct /\ board \in Genuine /\ \A c \in Clients : Sound(c)

-----------------------------------------------------------------------------
(* Lemmas about queues: frames sent, and the first one taken.                *)

LEMMA Sending ==
  ASSUME NEW F, NEW q \in Seq(F), NEW t \in Seq(F)
  PROVE  /\ q \o t \in Seq(F)
         /\ \A i \in DOMAIN q : i \in DOMAIN (q \o t) /\ (q \o t)[i] = q[i]
         /\ \A k \in DOMAIN t : k + Len(q) \in DOMAIN (q \o t) /\ (q \o t)[k + Len(q)] = t[k]
         /\ \A i \in DOMAIN (q \o t) :
              i \in DOMAIN q \/ \E k \in DOMAIN t : i = k + Len(q)
<1>1. \A i \in DOMAIN (q \o t) : i > Len(q) => i - Len(q) \in DOMAIN t
  OBVIOUS
<1> QED
  BY <1>1

LEMMA Taking ==
  ASSUME NEW F, NEW q \in Seq(F), q # <<>>
  PROVE  /\ Tail(q) \in Seq(F) /\ Head(q) \in F /\ Head(q) = q[1]
         /\ 1 \in DOMAIN q
         /\ \A i \in DOMAIN Tail(q) : i + 1 \in DOMAIN q /\ Tail(q)[i] = q[i + 1]
         /\ \A i \in DOMAIN q : i = 1 \/ (i - 1 \in DOMAIN Tail(q) /\ i > 1)
OBVIOUS

LEMMA SendingKeepsLeaves ==
  ASSUME NEW F, NEW q \in Seq(F), NEW t \in Seq(F)
  PROVE  /\ \A i, id : Leaves(q, i, id) => Leaves(q \o t, i, id)
         /\ \A i \in DOMAIN q \cup {0} : \A id : Leaves(t, 0, id) => Leaves(q \o t, i, id)
<1>1. \A i \in DOMAIN q \cup {0}, k \in DOMAIN t : k + Len(q) > i
  OBVIOUS
<1>2. \A i, id : Leaves(q, i, id) => Leaves(q \o t, i, id)
  BY Sending DEF Leaves
<1>3. \A i \in DOMAIN q \cup {0} : \A id : Leaves(t, 0, id) => Leaves(q \o t, i, id)
  BY <1>1, Sending DEF Leaves
<1> QED
  BY <1>2, <1>3

LEMMA SendingHolds ==
  ASSUME NEW F, NEW q \in Seq(F), NEW t \in Seq(F), NEW held, NEW cl
  PROVE  /\ WillHold(q, held, cl) /\ Silent(t, 0) => WillHold(q \o t, held, cl)
         /\ \A k \in DOMAIN t : t[k] = ClaimMsg(cl) /\ Silent(t, k) => WillHold(q \o t, held, cl)
         /\ Silent(q \o t, 0) => Silent(q, 0) /\ Silent(t, 0)
<1> DEFINE r == q \o t
<1>1. r \in Seq(F) /\ \A i \in DOMAIN r : (i \in DOMAIN q /\ r[i] = q[i])
                                       \/ \E k \in DOMAIN t : i = k + Len(q) /\ r[i] = t[k]
  BY Sending
<1>2. /\ \A i \in DOMAIN q : i \in DOMAIN r /\ r[i] = q[i] /\ i \in Nat /\ i > 0 /\ i <= Len(q)
      /\ \A k \in DOMAIN t : k + Len(q) \in DOMAIN r /\ r[k + Len(q)] = t[k] /\ k \in Nat /\ k > 0
      /\ Len(q) \in Nat
  BY Sending
<1>3. ASSUME Silent(t, 0), NEW i \in Nat, Silent(q, i) PROVE Silent(r, i)
  BY <1>1, <1>2, <1>3 DEF Silent
<1>4. ASSUME NEW k \in DOMAIN t, Silent(t, k) PROVE Silent(r, k + Len(q))
  <2> SUFFICES ASSUME NEW j \in DOMAIN r, j > k + Len(q) PROVE r[j].type # "STATE"
    BY DEF Silent
  <2>1. PICK n \in DOMAIN t : j = n + Len(q) /\ r[j] = t[n]
    BY <1>1, <1>2
  <2>2. n > k
    BY <1>2, <2>1
  <2> QED
    BY <1>4, <2>1, <2>2 DEF Silent
<1>5. Silent(r, 0) => Silent(q, 0) /\ Silent(t, 0)
  BY <1>2 DEF Silent
<1>6. WillHold(q, held, cl) /\ Silent(t, 0) => WillHold(r, held, cl)
  BY <1>2, <1>3 DEF WillHold
<1>7. ASSUME NEW k \in DOMAIN t, t[k] = ClaimMsg(cl), Silent(t, k) PROVE WillHold(r, held, cl)
  BY <1>2, <1>4, <1>7 DEF WillHold
<1> QED
  BY <1>5, <1>6, <1>7

LEMMA SendingKnows ==
  ASSUME NEW F, NEW q \in Seq(F), NEW t \in Seq(F), NEW known, NEW host
  PROVE  /\ WillKnow(q, known, host) /\ Nameless(t, 0) => WillKnow(q \o t, known, host)
         /\ \A k \in DOMAIN t : Naming(t[k]) /\ Named(t[k]) = host /\ Nameless(t, k)
              => WillKnow(q \o t, known, host)
<1> DEFINE r == q \o t
<1>1. r \in Seq(F) /\ \A i \in DOMAIN r : (i \in DOMAIN q /\ r[i] = q[i])
                                       \/ \E k \in DOMAIN t : i = k + Len(q) /\ r[i] = t[k]
  BY Sending
<1>2. /\ \A i \in DOMAIN q : i \in DOMAIN r /\ r[i] = q[i] /\ i \in Nat /\ i > 0 /\ i <= Len(q)
      /\ \A k \in DOMAIN t : k + Len(q) \in DOMAIN r /\ r[k + Len(q)] = t[k] /\ k \in Nat /\ k > 0
      /\ Len(q) \in Nat
  BY Sending
<1>3. ASSUME Nameless(t, 0), NEW i \in Nat, Nameless(q, i) PROVE Nameless(r, i)
  BY <1>1, <1>2, <1>3 DEF Nameless
<1>4. ASSUME NEW k \in DOMAIN t, Nameless(t, k) PROVE Nameless(r, k + Len(q))
  <2> SUFFICES ASSUME NEW j \in DOMAIN r, j > k + Len(q) PROVE ~Naming(r[j])
    BY DEF Nameless
  <2>1. PICK n \in DOMAIN t : j = n + Len(q) /\ r[j] = t[n]
    BY <1>1, <1>2
  <2>2. n > k
    BY <1>2, <2>1
  <2> QED
    BY <1>4, <2>1, <2>2 DEF Nameless
<1>6. WillKnow(q, known, host) /\ Nameless(t, 0) => WillKnow(r, known, host)
  BY <1>2, <1>3 DEF WillKnow
<1>7. ASSUME NEW k \in DOMAIN t, Naming(t[k]), Named(t[k]) = host, Nameless(t, k)
      PROVE WillKnow(r, known, host)
  BY <1>2, <1>4, <1>7 DEF WillKnow
<1> QED
  BY <1>6, <1>7

\* The first frame taken: what was behind it is nearer by one, and what it said is known.
LEMMA TakingKeeps ==
  ASSUME NEW F, NEW q \in Seq(F), q # <<>>
  PROVE  /\ \A i \in Nat : \A id : Leaves(q, i + 1, id) => Leaves(Tail(q), i, id)
         /\ \A id : Leaves(q, 0, id) => Head(q) = LeaveMsg(id) \/ Leaves(Tail(q), 0, id)
         /\ \A held, cl : WillHold(q, held, cl) =>
              WillHold(Tail(q), IF Head(q).type = "STATE" THEN Head(q).claim ELSE held, cl)
         /\ \A known, host : WillKnow(q, known, host) =>
              WillKnow(Tail(q), IF Naming(Head(q)) THEN Named(Head(q)) ELSE known, host)
         /\ Silent(Tail(q), 0) /\ Head(q).type # "STATE" => Silent(q, 0)
<1> DEFINE r == Tail(q)
<1>1. /\ r \in Seq(F) /\ Head(q) = q[1] /\ 1 \in DOMAIN q
      /\ \A i \in DOMAIN r : i + 1 \in DOMAIN q /\ r[i] = q[i + 1] /\ i \in Nat /\ i > 0
      /\ \A i \in DOMAIN q : i \in Nat /\ (i = 1 \/ (i - 1 \in DOMAIN r /\ i > 1 /\ r[i - 1] = q[i]))
  BY Taking
<1> HIDE DEF r
<1>2. ASSUME NEW i \in Nat, NEW id, Leaves(q, i + 1, id) PROVE Leaves(r, i, id)
  BY <1>1, <1>2 DEF Leaves
<1>3. ASSUME NEW id, Leaves(q, 0, id), Head(q) # LeaveMsg(id) PROVE Leaves(r, 0, id)
  BY <1>1, <1>3 DEF Leaves
<1>4. ASSUME NEW i \in DOMAIN q, Silent(q, i) PROVE Silent(r, i - 1)
  BY <1>1, <1>4 DEF Silent
<1>5. ASSUME NEW i \in DOMAIN q, Nameless(q, i) PROVE Nameless(r, i - 1)
  BY <1>1, <1>5 DEF Nameless
<1>6. /\ Silent(q, 0) => Silent(r, 0) /\ q[1].type # "STATE"
      /\ Nameless(q, 0) => Nameless(r, 0) /\ ~Naming(q[1])
      /\ Silent(r, 0) /\ q[1].type # "STATE" => Silent(q, 0)
  BY <1>1 DEF Silent, Nameless
<1>7. ASSUME NEW held, NEW cl, WillHold(q, held, cl)
      PROVE  WillHold(r, IF Head(q).type = "STATE" THEN Head(q).claim ELSE held, cl)
  <2>1. CASE Silent(q, 0) /\ held = cl
    BY <1>1, <1>6, <2>1 DEF WillHold
  <2>2. ASSUME NEW i \in DOMAIN q, q[i] = ClaimMsg(cl), Silent(q, i)
        PROVE  WillHold(r, IF Head(q).type = "STATE" THEN Head(q).claim ELSE held, cl)
    <3>1. CASE i = 1
      <4>1. Silent(r, 0)
        BY <1>4, <2>2, <3>1
      <4>2. q[1].type = "STATE" /\ q[1].claim = cl
        BY <2>2, <3>1 DEF ClaimMsg
      <4> QED
        BY <1>1, <4>1, <4>2 DEF WillHold
    <3>2. CASE i # 1
      BY <1>1, <1>4, <2>2, <3>2 DEF WillHold
    <3> QED
      BY <3>1, <3>2
  <2> QED
    BY <1>7, <2>1, <2>2 DEF WillHold
<1>8. ASSUME NEW known, NEW host, WillKnow(q, known, host)
      PROVE  WillKnow(r, IF Naming(Head(q)) THEN Named(Head(q)) ELSE known, host)
  <2>1. CASE Nameless(q, 0) /\ known = host
    BY <1>1, <1>6, <2>1 DEF WillKnow
  <2>2. ASSUME NEW i \in DOMAIN q, Naming(q[i]), Named(q[i]) = host, Nameless(q, i)
        PROVE  WillKnow(r, IF Naming(Head(q)) THEN Named(Head(q)) ELSE known, host)
    <3>1. CASE i = 1
      <4>1. Nameless(r, 0)
        BY <1>5, <2>2, <3>1
      <4> QED
        BY <1>1, <2>2, <3>1, <4>1 DEF WillKnow
    <3>2. CASE i # 1
      BY <1>1, <1>5, <2>2, <3>2 DEF WillKnow
    <3> QED
      BY <3>1, <3>2
  <2> QED
    BY <1>8, <2>1, <2>2 DEF WillKnow
<1> QED
  BY <1>1, <1>2, <1>3, <1>6, <1>7, <1>8 DEF r

-----------------------------------------------------------------------------
(* What a step may do to the ids and the claims.                             *)

\* Ids are given out once; a socket's id is the client's until the socket is gone, with the
\* time it joined, and is its page's id at most.
Fresh(id) == lastId' = lastId + 1 /\ id = lastId + 1
WorldFollows ==
  /\ relay' = relay
  /\ lastId' \in {lastId, lastId + 1}
  /\ \A id \in room' : id \in room \/ Fresh(id)
  /\ \A c, d \in Clients : Fresh(peerOf'[c]) /\ Fresh(peerOf'[d]) => c = d
  /\ \A c \in Clients :
       /\ peerOf'[c] = peerOf[c] \/ peerOf'[c] = NoId \/ Fresh(peerOf'[c])
       /\ selfId'[c] \in {selfId[c], peerOf[c], NoId}
       /\ peerOf'[c] = peerOf[c] /\ peerOf[c] # NoId =>
            joinedAt'[c] = joinedAt[c] /\ (selfId[c] = peerOf[c] => selfId'[c] = peerOf[c])

LEMMA IdsStayDistinct ==
  ASSUME TypeOK, Distinct, WorldFollows
  PROVE  Distinct'
<1> SUFFICES ASSUME NEW c \in Clients, NEW d \in Clients, c # d, peerOf'[c] # NoId
             PROVE  peerOf'[d] # peerOf'[c] /\ selfId'[d] # peerOf'[c]
  BY DEF Distinct
<1>1. lastId \in Nat /\ room \subseteq 1 .. lastId
  BY FallbackConstants DEF TypeOK, Given
<1>2. \A e \in Clients : peerOf[e] \in 0 .. lastId /\ selfId[e] \in 0 .. lastId
  <2>1. room \cup {NoId} \subseteq 0 .. lastId
    BY <1>1 DEF NoId
  <2>2. \A e \in Clients : peerOf[e] \in room \cup {NoId} /\ selfId[e] \in 0 .. lastId
    BY DEF TypeOK
  <2> QED
    BY <2>1, <2>2
<1>3. CASE peerOf'[c] = peerOf[c]
  <2>1. peerOf[d] # peerOf[c] /\ selfId[d] # peerOf[c]
    BY <1>3 DEF Distinct
  <2>2. peerOf'[d] # peerOf[c]
    BY <1>1, <1>2, <1>3, <2>1 DEF WorldFollows, Fresh
  <2> QED
    BY <1>3, <2>1, <2>2 DEF WorldFollows
<1>4. CASE Fresh(peerOf'[c])
  <2>1. peerOf'[c] \notin 0 .. lastId
    BY <1>1, <1>4 DEF Fresh
  <2>2. selfId'[d] # peerOf'[c]
    BY <1>1, <1>2, <2>1 DEF WorldFollows, NoId
  <2>3. peerOf'[d] # peerOf'[c]
    BY <1>2, <1>4, <2>1 DEF WorldFollows, Fresh
  <2> QED
    BY <2>2, <2>3
<1> QED
  BY <1>3, <1>4 DEF WorldFollows

LEMMA GenuineStays ==
  ASSUME TypeOK, WorldFollows
  PROVE  Genuine \subseteq Genuine'
<1> SUFFICES ASSUME NEW cl \in Genuine PROVE cl \in Genuine'
  OBVIOUS
<1>1. lastId \in Nat /\ cl.id \in 0 .. lastId /\ cl.id \in 0 .. lastId'
  BY FallbackConstants DEF TypeOK, Genuine, WorldFollows
<1>2. ASSUME NEW c \in Clients, peerOf'[c] # NoId, cl.id = peerOf'[c]
      PROVE  cl = Own(c)' /\ selfId'[c] = peerOf'[c]
  <2>1. peerOf'[c] = peerOf[c]
    BY <1>1, <1>2 DEF WorldFollows, Fresh
  <2>2. cl = Own(c) /\ selfId[c] = peerOf[c]
    BY <1>2, <2>1 DEF Genuine
  <2>3. joinedAt'[c] = joinedAt[c] /\ selfId'[c] = peerOf[c]
    BY <1>2, <2>1, <2>2 DEF WorldFollows
  <2> QED
    BY <2>1, <2>2, <2>3 DEF Own
<1> QED
  BY <1>1, <1>2 DEF Genuine

LEMMA FramesGrow ==
  ASSUME TypeOK, lastId' \in {lastId, lastId + 1}
  PROVE  /\ Given \subseteq Given' /\ Frames \subseteq Frames' /\ Seq(Frames) \subseteq Seq(Frames')
         /\ \A q \in Seq(Frames), m \in Frames' : q \in Seq(Frames') /\ <<m>> \in Seq(Frames')
<1>1. Given \subseteq Given'
  BY FallbackConstants DEF TypeOK, Given
<1>2. Frames \subseteq Frames'
  BY <1>1 DEF Frames
<1>3. \A q \in Seq(Frames) : q \in Seq(Frames')
  <2> HIDE DEF Frames
  <2> DEFINE F == Frames  G == Frames'
  <2>1. F \subseteq G
    BY <1>2
  <2> HIDE DEF F, G
  <2>2. \A q \in Seq(F) : q \in Seq(G)
    BY <2>1
  <2> QED
    BY <2>2 DEF F, G
<1> QED
  BY <1>1, <1>2, <1>3

\* A claim of the client's own making.
Mine(c) == [id |-> selfId[c], at |-> joinedAt[c]]

LEMMA MineIsGenuine ==
  ASSUME ElectInv, NEW c \in Clients, connected[c], selfId[c] # NoId
  PROVE  Mine(c) \in Genuine /\ Mine(c) \in Claims /\ (selfId[c] = peerOf[c] => Mine(c) = Own(c))
<1>1. joinedAt[c] \in 0 .. MaxClock /\ joinedAt[c] # 0 /\ selfId[c] \in 0 .. lastId /\ lastId \in 0 .. MaxId
  BY DEF ElectInv, TypeOK, Sound, SocketSound
<1>2. Mine(c) \in Claims
  BY <1>1, FallbackConstants DEF Mine, Claims, Ids, NoId
<1>3. ASSUME NEW d \in Clients, peerOf[d] # NoId, selfId[c] = peerOf[d]
      PROVE  d = c
  BY <1>3 DEF ElectInv, Distinct
<1>4. selfId[c] = peerOf[c] => Mine(c) = Own(c)
  BY DEF Mine, Own
<1>5. Mine(c).id = selfId[c]
  BY DEF Mine
<1> QED
  BY <1>1, <1>2, <1>3, <1>4, <1>5 DEF Genuine

-----------------------------------------------------------------------------
(* What a step does to a client that it only sends to.                       *)

\* Nothing of client d changes, but the frames t are sent to it.
Untouched(d) ==
  /\ sock'[d] = sock[d] /\ connected'[d] = connected[d] /\ closing'[d] = closing[d]
  /\ peerOf'[d] = peerOf[d] /\ selfId'[d] = selfId[d] /\ peers'[d] = peers[d]
  /\ hostId'[d] = hostId[d] /\ serverElects'[d] = serverElects[d] /\ deadline'[d] = deadline[d]
  /\ joinedAt'[d] = joinedAt[d] /\ claims'[d] = claims[d] /\ copy'[d] = copy[d] /\ vote'[d] = vote[d]

\* Each of them is true of the room and the board after the step.
TrueFrame(d, m) ==
  /\ m.type # "HELLO"
  /\ m.type = "LEAVE" => m.id \notin room'
  /\ m.type = "JOIN" => m.id \in room'
  /\ m.type = "STATE" => m.claim \in Genuine' /\ m.claim.id # peerOf[d]

\* A client in the room is told who left it, who has the role and what is on the board.
Told(d, t) ==
  /\ \A id \in room : id \in room' \/ Leaves(t, 0, id)
  /\ \/ role' \in {role, NoId} /\ Nameless(t, 0)
     \/ \E k \in DOMAIN t : Naming(t[k]) /\ Named(t[k]) = role' /\ Nameless(t, k)
  /\ \/ board' = board /\ Silent(t, 0)
     \/ \E k \in DOMAIN t : t[k] = ClaimMsg(board') /\ Silent(t, k)

Bystander(d, t) ==
  /\ Untouched(d)
  /\ t \in Seq(Frames') /\ coming'[d] = coming[d] \o t
  /\ peerOf[d] = NoId => t = <<>>
  /\ peerOf[d] \in room => peerOf[d] \in room'
  /\ \A k \in DOMAIN t : TrueFrame(d, t[k])
  /\ Live(d) => Told(d, t)

LEMMA BystanderKeeps ==
  ASSUME ElectInv, TypeOK', WorldFollows, NEW d \in Clients, NEW t, Bystander(d, t)
  PROVE  Sound(d)'
<1> DEFINE q == coming[d]
           r == coming'[d]
<1>1. /\ Untouched(d) /\ r = q \o t
      /\ q \in Seq(Frames') /\ t \in Seq(Frames')
  BY FramesGrow DEF Bystander, ElectInv, TypeOK, WorldFollows
<1>2. /\ \A i \in DOMAIN q : i \in DOMAIN r /\ r[i] = q[i]
      /\ \A k \in DOMAIN t : k + Len(q) \in DOMAIN r /\ r[k + Len(q)] = t[k]
      /\ \A i \in DOMAIN r : i \in DOMAIN q \/ \E k \in DOMAIN t : i = k + Len(q)
  BY <1>1, Sending
<1>3. /\ SocketSound(d) /\ Greeting(d) /\ NoVoteNoHost(d) /\ HostNamed(d) /\ Departures(d)
      /\ ClaimsSound(d) /\ Mirrors(d) /\ FairVote(d)
  BY DEF ElectInv, Sound
<1>4. \A k \in DOMAIN t : TrueFrame(d, t[k])
  BY DEF Bystander
<1>5. /\ peerOf[d] \in room \cup {NoId} /\ room \subseteq 1 .. lastId
      /\ relay' = relay
      /\ \A id \in room' : id \in 1 .. lastId => id \in room
      /\ lastId \in Nat /\ NoId \notin room /\ NoId \notin room'
  BY FallbackConstants DEF ElectInv, TypeOK, WorldFollows, Fresh, Given, NoId
<1>6. /\ Live(d)' <=> Live(d)
      /\ Live(d)' => (InRoom(d)' <=> InRoom(d))
  BY <1>1, <1>5 DEF Live, InRoom, Untouched, Bystander
<1>7. Live(d) => Told(d, t)
  BY DEF Bystander
<1> HIDE DEF q, r
<1>8. SocketSound(d)'
  <2>1. peerOf[d] = NoId => r = <<>>
    BY <1>1, <1>3 DEF Bystander, SocketSound, q
  <2> QED
    BY <1>1, <1>3, <2>1 DEF SocketSound, Untouched, r
<1>9. Greeting(d)'
  <2> SUFFICES ASSUME Live(d) PROVE Greeting(d)'
    BY <1>6 DEF Greeting
  <2>1. \A i \in DOMAIN r : r[i].type = "HELLO" => i = 1 /\ ~InRoom(d)
    BY <1>2, <1>3, <1>4 DEF Greeting, TrueFrame, q
  <2>2. q # <<>> => r # <<>> /\ r[1] = q[1]
    BY <1>1, <1>2
  <2> QED
    BY <1>1, <1>3, <1>5, <1>6, <2>1, <2>2 DEF Greeting, Greets, Untouched, q, r
<1>10. NoVoteNoHost(d)'
  BY <1>1, <1>3 DEF NoVoteNoHost, Untouched
<1>11. HostNamed(d)'
  <2> SUFFICES ASSUME Live(d), relay = "modern", role' # NoId
               PROVE  WillKnow(r, hostId[d], role')
    BY <1>1, <1>5, <1>6 DEF HostNamed, Untouched, r
  <2>1. CASE role' = role /\ Nameless(t, 0)
    <3>1. WillKnow(q, hostId[d], role')
      BY <1>3, <2>1 DEF HostNamed, q
    <3> QED
      BY <1>1, <2>1, <3>1, SendingKnows
  <2>2. CASE \E k \in DOMAIN t : Naming(t[k]) /\ Named(t[k]) = role' /\ Nameless(t, k)
    BY <1>1, <2>2, SendingKnows
  <2> QED
    BY <1>7, <2>1, <2>2 DEF Told
<1>12. Departures(d)'
  <2>1. \A i \in DOMAIN r : r[i].type = "LEAVE" => r[i].id \notin room'
    <3>1. \A i \in DOMAIN q : q[i] \in Frames
      BY DEF ElectInv, TypeOK, q
    <3>2. \A i \in DOMAIN q : q[i].type = "LEAVE" => q[i].id \notin room /\ q[i].id \in 1 .. lastId
      BY <1>3, <3>1 DEF Departures, Frames, Given, q
    <3> QED
      BY <1>2, <1>4, <1>5, <3>2 DEF TrueFrame
  <2> SUFFICES ASSUME Live(d)
               PROVE  /\ \A i \in DOMAIN r : \A id \in Given' :
                           Brings(r[i], id) => id \in room' \/ Leaves(r, i, id)
                      /\ \A id \in peers[d] : id \in room' \/ Leaves(r, 0, id)
                      /\ vote[d] \in {"fair", "blind"} /\ ~serverElects[d]
                           => hostId[d] \in room' \/ Leaves(r, 0, hostId[d])
    BY <1>1, <1>6, <2>1 DEF Departures, Untouched, r
  <2>2. ASSUME NEW i \in DOMAIN q \cup {0}, NEW id, id \in room \/ Leaves(q, i, id)
        PROVE  id \in room' \/ Leaves(r, i, id)
    BY <1>1, <1>7, <2>2, SendingKeepsLeaves DEF Told
  <2>3. ASSUME NEW i \in DOMAIN r, NEW id, Brings(r[i], id)
        PROVE  id \in room' \/ Leaves(r, i, id)
    <3>1. CASE i \in DOMAIN q
      <4>1. q[i] \in Frames /\ r[i] = q[i]
        BY <1>2, <3>1 DEF ElectInv, TypeOK, q
      <4>2. id \in Given
        BY <2>3, <4>1 DEF Brings, Frames
      <4> QED
        BY <1>3, <2>2, <2>3, <3>1, <4>1, <4>2 DEF Departures, q
    <3>2. CASE \E k \in DOMAIN t : i = k + Len(q)
      BY <1>2, <1>4, <2>3, <3>2 DEF Brings, TrueFrame
    <3> QED
      BY <1>2, <3>1, <3>2
  <2>4. 0 \in DOMAIN q \cup {0}
    OBVIOUS
  <2> QED
    BY <1>3, <2>2, <2>3, <2>4 DEF Departures, q
<1>13. ClaimsSound(d)'
  <2>1. Genuine \subseteq Genuine'
    BY GenuineStays DEF ElectInv
  <2>2. \A i \in DOMAIN r : r[i].type = "STATE" =>
          r[i].claim \in Genuine' /\ r[i].claim.id # peerOf[d]
    BY <1>2, <1>3, <1>4, <2>1 DEF ClaimsSound, TrueFrame, q
  <2> QED
    BY <1>1, <1>3, <2>1, <2>2 DEF ClaimsSound, Untouched, r
<1>14. Mirrors(d)'
  <2> SUFFICES ASSUME Live(d)
               PROVE  /\ OthersClaim(d)' => WillHold(r, copy[d], board')
                      /\ Silent(r, 0) /\ copy[d] = Own(d) => board' = Own(d)
    BY <1>1, <1>6 DEF Mirrors, Own, Untouched, r
  <2>1. CASE board' = board /\ Silent(t, 0)
    <3>1. board \in Genuine /\ board.id \in 0 .. lastId
      BY DEF ElectInv, Genuine
    <3>2. OthersClaim(d)' => OthersClaim(d)
      BY <1>5, <2>1, <3>1 DEF OthersClaim, WorldFollows, Fresh
    <3>3. WillHold(q, copy[d], board) => WillHold(r, copy[d], board)
      BY <1>1, <2>1, SendingHolds
    <3>4. Silent(r, 0) => Silent(q, 0)
      BY <1>1, SendingHolds
    <3> QED
      BY <1>3, <2>1, <3>2, <3>3, <3>4 DEF Mirrors, q
  <2>2. ASSUME NEW k \in DOMAIN t, t[k] = ClaimMsg(board'), Silent(t, k)
        PROVE  WillHold(r, copy[d], board') /\ ~Silent(r, 0)
    <3>1. WillHold(r, copy[d], board')
      BY <1>1, <2>2, SendingHolds
    <3>2. ~Silent(t, 0)
      BY <1>1, <2>2 DEF Silent, ClaimMsg
    <3>3. ~Silent(r, 0)
      BY <1>1, <3>2, SendingHolds
    <3> QED
      BY <3>1, <3>3
  <2> QED
    BY <1>7, <2>1, <2>2 DEF Told
<1>15. FairVote(d)'
  <2> SUFFICES ASSUME Live(d), ~serverElects[d], vote[d] = "fair"
               PROVE  /\ Own(d) \in claims[d]
                      /\ copy[d] # NoClaim => \E cl \in claims[d] : cl.id = copy[d].id
                      /\ \E best \in claims[d] : Chosen(d, best)'
    BY <1>1, <1>6 DEF FairVote, Own, Untouched
  <2>1. PICK best \in claims[d] : Chosen(d, best)
    BY <1>3 DEF FairVote
  <2>2. \A cl \in claims[d] : cl.id \in room' => cl.id \in room
    <3>1. \A cl \in claims[d] : cl.id \in 0 .. lastId
      BY <1>3 DEF ClaimsSound, Genuine
    <3> QED
      BY <1>5, <3>1 DEF NoId
  <2>3. Chosen(d, best)'
    BY <1>1, <2>1, <2>2 DEF Chosen, Untouched
  <2> QED
    BY <1>3, <2>1, <2>3 DEF FairVote
<1> QED
  BY <1>8, <1>9, <1>10, <1>11, <1>12, <1>13, <1>14, <1>15 DEF Sound

-----------------------------------------------------------------------------
(* An election.                                                              *)

\* Among claims that are not none there is one that no other beats.
LEMMA BestExists ==
  ASSUME NEW S, S \subseteq Claims, S # {}
  PROVE  \E cl \in S : \A other \in S \ {cl} : ~ClaimWins(other, cl)
<1> DEFINE Times == {cl.at : cl \in S}
<1>1. \A cl \in S : cl.at \in Nat /\ cl.id \in Nat /\ cl = [id |-> cl.id, at |-> cl.at]
  BY FallbackConstants DEF Claims, Ids
<1>2. PICK t \in Times : \A u \in Times : ~ (u < t)
  <2>1. Times \subseteq Nat /\ Times # {}
    BY <1>1
  <2> HIDE DEF Times
  <2> QED
    BY <2>1, LeastNumber
<1> DEFINE Early == {cl \in S : cl.at = t}
           Numbers == {cl.id : cl \in Early}
<1>3. PICK n \in Numbers : \A m \in Numbers : ~ (m < n)
  <2>1. Numbers \subseteq Nat /\ Numbers # {}
    BY <1>1, <1>2
  <2> HIDE DEF Numbers
  <2> QED
    BY <2>1, LeastNumber
<1>4. PICK cl \in Early : cl.id = n
  BY <1>3
<1>5. \A other \in S \ {cl} : ~ClaimWins(other, cl)
  BY <1>1, <1>2, <1>3, <1>4 DEF ClaimWins
<1> QED
  BY <1>4, <1>5

LEMMA ClaimsAreOrdered ==
  ASSUME NEW a \in Claims, NEW b \in Claims
  PROVE  a = b \/ ClaimWins(a, b) \/ ClaimWins(b, a)
<1>1. /\ a.at \in Nat /\ b.at \in Nat /\ a.id \in Nat /\ b.id \in Nat
      /\ a = [id |-> a.id, at |-> a.at] /\ b = [id |-> b.id, at |-> b.at]
  BY FallbackConstants DEF Claims, Ids
<1> QED
  BY <1>1 DEF ClaimWins

LEMMA NoClaimBeatsItself ==
  ASSUME NEW a \in Claims
  PROVE  ~ClaimWins(a, a)
<1>1. a.at \in Nat /\ a.id \in Nat
  BY FallbackConstants DEF Claims, Ids
<1> QED
  BY <1>1 DEF ClaimWins

\* What an election considers and whom it takes.
Outcome(c, all, best, cls, ps, stored) ==
  /\ all \subseteq Claims
  /\ \A cl \in all : cl \in cls \/ cl = Mine(c) \/ cl = stored
  /\ \E cl \in all : cl.id = selfId[c]
  /\ stored # NoClaim => \E cl \in all : cl.id = stored.id
  /\ best \in all /\ best.id \in ps \cup {selfId[c]}
  /\ \A cl \in all : cl.id \in ps \cup {selfId[c]} => ~ClaimWins(cl, best)

\* It speaks, and the relay hears it.
Speaks(c, best, stored) == Announces(c, best, stored) /\ peerOf[c] \in room

\* An election that is held, and one that is not.
Votes(c, cls, ps, stored, queue, all, best) ==
  /\ ~serverElects[c] /\ connected[c] /\ selfId[c] # NoId
  /\ Outcome(c, all, best, cls, ps, stored)
  /\ claims' = [claims EXCEPT ![c] = all]
  /\ hostId' = [hostId EXCEPT ![c] = best.id]
  /\ vote' = [vote EXCEPT ![c] = Manner(c, all, ps)]
  /\ copy' = [copy EXCEPT ![c] = IF Announces(c, best, stored) THEN best ELSE stored]
  /\ board' = IF Speaks(c, best, stored) THEN best ELSE board
  /\ coming' = [d \in Clients |->
       IF Speaks(c, best, stored) /\ d # c /\ peerOf[d] \in room
       THEN Append(queue[d], ClaimMsg(best)) ELSE queue[d]]
Abstains(c, cls, h, stored, queue) ==
  /\ serverElects[c] \/ ~connected[c] \/ selfId[c] = NoId
  /\ claims' = [claims EXCEPT ![c] = cls]
  /\ hostId' = [hostId EXCEPT ![c] = h]
  /\ copy' = [copy EXCEPT ![c] = stored]
  /\ coming' = queue
  /\ UNCHANGED <<board, vote>>

LEMMA NotedKeeps ==
  ASSUME NEW S, NEW cl, S \subseteq Claims, cl \in Claims \cup {NoClaim}
  PROVE  /\ Noted(S, cl) \subseteq Claims
         /\ \A n \in Noted(S, cl) : n \in S \/ n = cl
         /\ cl # NoClaim => \E n \in Noted(S, cl) : n.id = cl.id
         /\ \A o \in S : \E n \in Noted(S, cl) : n.id = o.id
BY DEF Noted

LEMMA ElectionHeld ==
  ASSUME ElectInv, NEW c \in Clients, NEW cls, NEW ps, NEW h, NEW stored, NEW queue,
         cls \subseteq Claims, stored \in Claims \cup {NoClaim},
         Elect(c, cls, ps, h, stored, queue)
  PROVE  \/ Abstains(c, cls, h, stored, queue)
         \/ \E all, best : Votes(c, cls, ps, stored, queue, all, best)
<1> DEFINE own == IF \E cl \in cls : cl.id = selfId[c] THEN cls
                  ELSE cls \cup {[id |-> selfId[c], at |-> joinedAt[c]]}
           all  == Noted(own, stored)
           best == BestClaim(all, ps \cup {selfId[c]})
<1>1. CASE serverElects[c] \/ ~connected[c] \/ selfId[c] = NoId
  BY <1>1 DEF Elect, Abstains
<1>2. CASE ~serverElects[c] /\ connected[c] /\ selfId[c] # NoId
  <2>1. Mine(c) \in Claims
    BY <1>2, MineIsGenuine
  <2>2. /\ own \subseteq Claims /\ \A cl \in own : cl \in cls \/ cl = Mine(c)
        /\ \E cl \in own : cl.id = selfId[c]
    BY <2>1 DEF Mine
  <2> HIDE DEF own
  <2>3. /\ all \subseteq Claims
        /\ \A cl \in all : cl \in cls \/ cl = Mine(c) \/ cl = stored
        /\ \E cl \in all : cl.id = selfId[c]
        /\ stored # NoClaim => \E cl \in all : cl.id = stored.id
    <3>1. PICK mine \in own : mine.id = selfId[c]
      BY <2>2
    <3>2. PICK n \in all : n.id = mine.id
      BY <2>2, <3>1, NotedKeeps
    <3> QED
      BY <2>2, <3>1, <3>2, NotedKeeps
  <2> HIDE DEF all
  <2>4. /\ best \in all /\ best.id \in ps \cup {selfId[c]}
        /\ \A cl \in all : cl.id \in ps \cup {selfId[c]} => ~ClaimWins(cl, best)
    <3> DEFINE valid == {cl \in all : cl.id \in ps \cup {selfId[c]}}
    <3>1. valid \subseteq Claims /\ valid # {}
      BY <2>3
    <3>2. best \in valid /\ \A other \in valid \ {best} : ~ClaimWins(other, best)
      BY <3>1, BestExists DEF BestClaim
    <3> HIDE DEF best
    <3>3. best \in Claims
      BY <3>1, <3>2
    <3>4. ~ClaimWins(best, best)
      BY <3>3, NoClaimBeatsItself
    <3> QED
      BY <3>2, <3>4
  <2>5. Outcome(c, all, best, cls, ps, stored)
    BY <2>3, <2>4 DEF Outcome
  <2>6. Votes(c, cls, ps, stored, queue, all, best)
    BY <1>2, <2>5 DEF Elect, Votes, Speaks, own, all
  <2> QED
    BY <2>6
<1> QED
  BY <1>1, <1>2

-----------------------------------------------------------------------------
(* Types.                                                                    *)

\* The types of what an election may change; ConnInv has those of the connections, and those
\* of the relay are few.
ElectionTypes ==
  /\ board \in Claims \cup {NoClaim}
  /\ coming \in [Clients -> Seq(Frames)]
  /\ hostId \in [Clients -> 0 .. lastId]
  /\ claims \in [Clients -> SUBSET Claims]
  /\ copy \in [Clients -> Claims \cup {NoClaim}]
  /\ vote \in [Clients -> {"none", "early", "blind", "fair"}]
PageTypes ==
  /\ selfId \in [Clients -> 0 .. lastId]
  /\ peers \in [Clients -> SUBSET Given]
  /\ serverElects \in [Clients -> BOOLEAN]
  /\ deadline \in [Clients -> BOOLEAN]
  /\ joinedAt \in [Clients -> 0 .. MaxClock]
RelayTypes ==
  /\ relay \in Kinds
  /\ lastId \in 0 .. MaxId /\ room \subseteq Given
  /\ role \in room \cup {NoId}
  /\ upsets \in 0 .. MaxUpsets
  /\ peerOf \in [Clients -> room \cup {NoId}]

LEMMA TypesAre == TypeOK <=> ConnTypeOK /\ RelayTypes /\ PageTypes /\ ElectionTypes
BY DEF TypeOK, RelayTypes, PageTypes, ElectionTypes

LEMMA AbstainingTyped ==
  ASSUME ElectInv, NEW c \in Clients, NEW cls, NEW h, NEW stored, NEW queue,
         cls \subseteq Claims, h \in 0 .. lastId, stored \in Claims \cup {NoClaim},
         queue \in [Clients -> Seq(Frames)], lastId' = lastId,
         Abstains(c, cls, h, stored, queue)
  PROVE  ElectionTypes'
<1>1. ElectionTypes
  BY TypesAre DEF ElectInv
<1>2. Frames' = Frames
  BY DEF Frames, Given
<1> HIDE DEF Frames
<1> QED
  BY <1>1, <1>2 DEF ElectionTypes, Abstains

LEMMA VotingTyped ==
  ASSUME ElectInv, NEW c \in Clients, NEW cls, NEW ps, NEW stored, NEW queue, NEW all, NEW best,
         ps \subseteq Given, stored \in Claims \cup {NoClaim},
         queue \in [Clients -> Seq(Frames)], lastId' = lastId,
         Votes(c, cls, ps, stored, queue, all, best)
  PROVE  ElectionTypes'
<1>1. ElectionTypes /\ PageTypes
  BY TypesAre DEF ElectInv
<1>2. /\ all \subseteq Claims /\ best \in Claims
      /\ best.id \in 0 .. lastId
  <2>1. best \in all /\ best.id \in ps \cup {selfId[c]} /\ all \subseteq Claims
    BY DEF Votes, Outcome
  <2>2. lastId \in Nat /\ selfId[c] \in 0 .. lastId
    BY <1>1, TypesAre, FallbackConstants DEF PageTypes, ElectInv, RelayTypes
  <2>3. Given \subseteq 0 .. lastId
    BY <2>2 DEF Given
  <2> QED
    BY <2>1, <2>2, <2>3
<1>3. ClaimMsg(best) \in Frames
  BY <1>2 DEF ClaimMsg, Frames
<1>4. Frames' = Frames
  BY DEF Frames, Given
<1> HIDE DEF Frames
<1>5. \A d \in Clients : queue[d] \in Seq(Frames) /\ Append(queue[d], ClaimMsg(best)) \in Seq(Frames)
  BY <1>3
<1>6. coming' \in [Clients -> Seq(Frames')]
  BY <1>4, <1>5 DEF Votes
<1>7. Manner(c, all, ps) \in {"none", "early", "blind", "fair"}
  BY DEF Manner
<1> QED
  BY <1>1, <1>2, <1>6, <1>7 DEF ElectionTypes, Votes

\* What the clients' actions with an election take for its arguments.
LEMMA Shorter ==
  ASSUME TypeOK, NEW c \in Clients, coming[c] # <<>>
  PROVE  /\ [coming EXCEPT ![c] = Tail(@)] \in [Clients -> Seq(Frames)]
         /\ [coming EXCEPT ![c] = Tail(@)][c] = Tail(coming[c])
         /\ \A d \in Clients \ {c} : [coming EXCEPT ![c] = Tail(@)][d] = coming[d]
         /\ Head(coming[c]) \in Frames
BY DEF TypeOK

LEMMA ConnectionKept == ElectInv /\ [Next]_vars => ConnInv'
<1>1. UNCHANGED vars => UNCHANGED connVars
  BY DEF vars
<1> QED
  BY <1>1, ElectionIsConnStep, ConnNextKeeps DEF ElectInv

\* Frames of the relay, to some clients.
LEMMA SentTyped ==
  ASSUME TypeOK, lastId' = lastId, NEW S, NEW t \in Seq(Frames)
  PROVE  /\ Sent(S, t) \in [Clients -> Seq(Frames')]
         /\ \A d \in Clients : \/ d \in S /\ Sent(S, t)[d] = coming[d] \o t
                               \/ d \notin S /\ Sent(S, t)[d] = coming[d]
<1>1. Frames' = Frames /\ coming \in [Clients -> Seq(Frames)]
  BY DEF Frames, Given, TypeOK
<1> HIDE DEF Frames
<1> QED
  BY <1>1 DEF Sent

LEMMA JoinTyped ==
  ASSUME ElectInv, NEW c \in Clients, Join(c)
  PROVE  RelayTypes' /\ PageTypes' /\ ElectionTypes'
<1>1. RelayTypes /\ PageTypes /\ ElectionTypes
  BY TypesAre DEF ElectInv
<1> QED
  BY <1>1 DEF Join, relayVars, clientVars, RelayTypes, PageTypes, ElectionTypes, Given, Frames

LEMMA RetryTyped ==
  ASSUME ElectInv, NEW c \in Clients, Retry(c)
  PROVE  RelayTypes' /\ PageTypes' /\ ElectionTypes'
<1>1. RelayTypes /\ PageTypes /\ ElectionTypes
  BY TypesAre DEF ElectInv
<1>2. Frames' = Frames /\ Given' = Given
  BY DEF Retry, relayVars, Given, Frames
<1> HIDE DEF Frames, Given
<1> QED
  BY <1>1, <1>2 DEF Retry, relayVars, RelayTypes, PageTypes, ElectionTypes

LEMMA LeaveRoomTyped ==
  ASSUME ElectInv, NEW c \in Clients, LeaveRoom(c)
  PROVE  RelayTypes' /\ PageTypes' /\ ElectionTypes'
<1>1. RelayTypes /\ PageTypes /\ ElectionTypes
  BY TypesAre DEF ElectInv
<1>2. Frames' = Frames /\ Given' = Given
  BY DEF LeaveRoom, relayVars, Given, Frames
<1>3. NoId \in 0 .. lastId /\ 0 \in 0 .. MaxClock
  BY <1>1, FallbackConstants DEF RelayTypes, NoId
<1> HIDE DEF Frames, Given
<1>4. RelayTypes'
  BY <1>1, <1>2 DEF LeaveRoom, relayVars, RelayTypes
<1>5. PageTypes'
  BY <1>1, <1>2, <1>3 DEF LeaveRoom, relayVars, PageTypes
<1>6. ElectionTypes'
  BY <1>1, <1>2, <1>3 DEF LeaveRoom, relayVars, ElectionTypes
<1> QED
  BY <1>4, <1>5, <1>6

LEMMA ClosedTyped ==
  ASSUME ElectInv, NEW c \in Clients, NEW code, Closed(c, code)
  PROVE  RelayTypes' /\ PageTypes' /\ ElectionTypes'
<1>1. RelayTypes /\ PageTypes /\ ElectionTypes
  BY TypesAre DEF ElectInv
<1>2. Frames' = Frames /\ Given' = Given
  BY DEF Closed, relayVars, Given, Frames
<1>3. NoId \in 0 .. lastId /\ 0 \in 0 .. MaxClock
  BY <1>1, FallbackConstants DEF RelayTypes, NoId
<1> HIDE DEF Frames, Given
<1>4. RelayTypes'
  BY <1>1, <1>2 DEF Closed, relayVars, RelayTypes
<1>5. PageTypes'
  BY <1>1, <1>2, <1>3 DEF Closed, relayVars, PageTypes
<1>6. ElectionTypes'
  BY <1>1, <1>2, <1>3 DEF Closed, relayVars, ElectionTypes
<1> QED
  BY <1>4, <1>5, <1>6

LEMMA SilenceTyped ==
  ASSUME ElectInv, NEW c \in Clients, NEW id \in Ids, Prune(c, id) \/ ReceivePose(c, id)
  PROVE  RelayTypes' /\ PageTypes' /\ ElectionTypes'
<1>1. RelayTypes /\ PageTypes /\ ElectionTypes
  BY TypesAre DEF ElectInv
<1>2. CASE Prune(c, id)
  <2>1. upsets' \in 0 .. MaxUpsets
    BY <1>1, <1>2, FallbackConstants DEF Prune, RelayTypes
  <2>2. Frames' = Frames /\ Given' = Given
    BY <1>2 DEF Prune, Given, Frames
  <2> HIDE DEF Frames, Given
  <2> QED
    BY <1>1, <1>2, <2>1, <2>2 DEF Prune, RelayTypes, PageTypes, ElectionTypes
<1>3. CASE ReceivePose(c, id)
  <2>1. id \in Given
    BY <1>1, <1>3, FallbackConstants DEF ReceivePose, Live, RelayTypes, NoId, Ids
  <2>2. Frames' = Frames /\ Given' = Given
    BY <1>3 DEF ReceivePose, relayVars, Given, Frames
  <2> HIDE DEF Frames, Given
  <2> QED
    BY <1>1, <1>3, <2>1, <2>2 DEF ReceivePose, relayVars, RelayTypes, PageTypes, ElectionTypes
<1> QED
  BY <1>2, <1>3

LEMMA OpenedTyped ==
  ASSUME ElectInv, NEW c \in Clients, NEW t \in 1 .. MaxClock, Opened(c, t)
  PROVE  RelayTypes' /\ PageTypes' /\ ElectionTypes'
<1>1. RelayTypes /\ PageTypes /\ ElectionTypes
  BY TypesAre DEF ElectInv
<1>2. t \in 0 .. MaxClock
  OBVIOUS
<1>3. CASE UNCHANGED <<relayVars, peerOf, coming>>
  <2>1. Frames' = Frames /\ Given' = Given
    BY <1>3 DEF relayVars, Given, Frames
  <2> HIDE DEF Frames, Given
  <2> QED
    BY <1>1, <1>2, <1>3, <2>1 DEF Opened, relayVars, RelayTypes, PageTypes, ElectionTypes
<1>4. ASSUME NEW id \in Ids, Admitted(c, id)
      PROVE  RelayTypes' /\ PageTypes' /\ ElectionTypes'
  <2>1. /\ lastId \in Nat /\ lastId' = lastId + 1 /\ id = lastId + 1 /\ lastId' \in 0 .. MaxId
        /\ id \in 1 .. lastId'
    BY <1>1, <1>4, FallbackConstants DEF Admitted, RelayTypes, Ids
  <2>2. Given \subseteq Given' /\ Seq(Frames) \subseteq Seq(Frames') /\ id \in Given'
    BY <2>1, FramesGrow DEF ElectInv, Given
  <2>3. 0 .. lastId \subseteq 0 .. lastId'
    BY <2>1
  <2>4. RelayTypes'
    BY <1>1, <1>4, <2>1, <2>2 DEF Admitted, RelayTypes
  <2>5. PageTypes'
    BY <1>1, <1>2, <2>2, <2>3 DEF Opened, PageTypes
  <2>6. coming' \in [Clients -> Seq(Frames')]
    <3> DEFINE others   == {d \in Clients : peerOf[d] \in room}
               news     == IF role' # role THEN <<HostMsg(id), JoinMsg(id)>> ELSE <<JoinMsg(id)>>
               snapshot == IF board = NoClaim THEN <<>> ELSE <<ClaimMsg(board)>>
    <3>1. coming' = [Sent(others, news) EXCEPT ![c] = <<Hello(relay, id, room, role')>> \o snapshot]
      BY <1>4 DEF Admitted
    <3>2. HostMsg(id) \in Frames' /\ JoinMsg(id) \in Frames'
      BY <2>2 DEF HostMsg, JoinMsg, Frames
    <3>3. Hello(relay, id, room, role') \in Frames'
      BY <1>1, <1>4, <2>2, <2>4 DEF Hello, Frames, RelayTypes, Admitted
    <3>4. board # NoClaim => ClaimMsg(board) \in Frames'
      BY <1>1 DEF ClaimMsg, Frames, ElectionTypes
    <3>5. \A d \in Clients : coming[d] \in Seq(Frames')
      BY <1>1, <2>2 DEF ElectionTypes
    <3> DEFINE F == Frames'
    <3> HIDE DEF F
    <3>6. news \in Seq(F) /\ snapshot \in Seq(F)
      BY <3>2, <3>4 DEF F
    <3>7. <<Hello(relay, id, room, role')>> \o snapshot \in Seq(F)
      BY <3>3, <3>6 DEF F
    <3>8. \A d \in Clients : coming[d] \o news \in Seq(F) /\ coming[d] \in Seq(F)
      BY <3>5, <3>6 DEF F
    <3> HIDE DEF news, snapshot, others
    <3>9. coming' \in [Clients -> Seq(F)]
      BY <3>1, <3>7, <3>8 DEF Sent
    <3> QED
      BY <3>9 DEF F
  <2>7. ElectionTypes'
    BY <1>1, <2>3, <2>6, <1>4 DEF Opened, Admitted, ElectionTypes
  <2> QED
    BY <2>4, <2>5, <2>7
<1> QED
  BY <1>3, <1>4 DEF Opened

LEMMA RelayTyped ==
  ASSUME ElectInv, NEW id \in Ids, Reap(id) \/ Promote(id)
  PROVE  RelayTypes' /\ PageTypes' /\ ElectionTypes'
<1>1. RelayTypes /\ PageTypes /\ ElectionTypes
  BY TypesAre DEF ElectInv
<1>2. lastId' = lastId /\ Frames' = Frames /\ Given' = Given
  BY DEF Reap, Promote, Frames, Given
<1>3. id \in Given
  BY <1>1 DEF Reap, Promote, RelayTypes
<1>4. <<LeaveMsg(id)>> \in Seq(Frames) /\ <<HostMsg(id)>> \in Seq(Frames)
  <2>1. LeaveMsg(id) \in Frames /\ HostMsg(id) \in Frames
    BY <1>3 DEF LeaveMsg, HostMsg, Frames
  <2> HIDE DEF Frames
  <2> QED
    BY <2>1
<1> HIDE DEF Frames, Given
<1>5. coming' \in [Clients -> Seq(Frames')]
  <2> DEFINE S == {c \in Clients : peerOf[c] \in room}
  <2>1. coming' = Sent(S, <<LeaveMsg(id)>>) \/ coming' = Sent(S, <<HostMsg(id)>>)
    BY DEF Reap, Promote
  <2> HIDE DEF S
  <2>2. \A t \in Seq(Frames) : Sent(S, t) \in [Clients -> Seq(Frames')]
    BY <1>2, SentTyped DEF ElectInv
  <2> QED
    BY <1>4, <2>1, <2>2
<1>6. UNCHANGED clientVars
  BY DEF Reap, Promote
<1>7. PageTypes' /\ ElectionTypes'
  BY <1>1, <1>2, <1>5, <1>6 DEF PageTypes, ElectionTypes, clientVars, Reap, Promote
<1>8. RelayTypes'
  <2>1. CASE Reap(id)
    <3>1. \A c \in Clients : peerOf[c] # id
      BY <2>1 DEF Reap
    <3> QED
      BY <1>1, <1>2, <2>1, <3>1 DEF RelayTypes, Reap
  <2>2. CASE Promote(id)
    BY <1>1, <1>2, <2>2 DEF RelayTypes, Promote
  <2> QED
    BY <2>1, <2>2
<1> QED
  BY <1>7, <1>8

LEMMA RestartTyped ==
  ASSUME ElectInv, NEW kind \in Kinds, Restart(kind)
  PROVE  RelayTypes' /\ PageTypes' /\ ElectionTypes'
<1>1. RelayTypes /\ PageTypes /\ ElectionTypes
  BY TypesAre DEF ElectInv
<1>2. lastId' = lastId /\ Frames' = Frames /\ Given' = Given /\ UNCHANGED clientVars
  BY DEF Restart, Frames, Given
<1>3. upsets' \in 0 .. MaxUpsets
  BY <1>1, FallbackConstants DEF Restart, RelayTypes
<1> HIDE DEF Frames, Given
<1>4. RelayTypes'
  BY <1>1, <1>2, <1>3 DEF Restart, RelayTypes
<1>5. PageTypes' /\ ElectionTypes'
  BY <1>1, <1>2 DEF Restart, PageTypes, ElectionTypes, clientVars
<1> QED
  BY <1>4, <1>5

LEMMA ReceivedFrame ==
  ASSUME ElectInv, NEW c \in Clients, Receive(c)
  PROVE  /\ Live(c) /\ sock[c] = "open" /\ connected[c] /\ coming[c] # <<>>
         /\ Head(coming[c]) \in Frames /\ Head(coming[c]) = coming[c][1] /\ 1 \in DOMAIN coming[c]
         /\ UNCHANGED <<relay, room, lastId, role, upsets, peerOf, joinedAt>>
         /\ Head(coming[c]).type = "HELLO" <=> ~InRoom(c)
<1>1. sock[c] = "open" /\ coming[c] # <<>> /\ coming \in [Clients -> Seq(Frames)] /\ SocketSound(c)
      /\ Greeting(c)
  BY DEF Receive, ElectInv, TypeOK, Sound
<1>2. Head(coming[c]) \in Frames /\ Head(coming[c]) = coming[c][1] /\ 1 \in DOMAIN coming[c]
  BY <1>1
<1>3. Live(c) /\ connected[c]
  BY <1>1 DEF SocketSound, Live, ElectInv, TypeOK
<1>4. Head(coming[c]).type = "HELLO" <=> ~InRoom(c)
  BY <1>1, <1>2, <1>3 DEF Greeting, Greets
<1> QED
  BY <1>1, <1>2, <1>3, <1>4 DEF Receive

\* The arguments of the elections that a LEAVE, a claim and the deadline call for.
LEMMA LeaveElects ==
  ASSUME ElectInv, NEW c \in Clients, Receive(c), ReceiveLeave(c, Head(coming[c]))
  PROVE  LET m == Head(coming[c])
             q == [coming EXCEPT ![c] = Tail(@)]
         IN /\ m.id \in Given /\ m = LeaveMsg(m.id)
            /\ peers' = [peers EXCEPT ![c] = @ \ {m.id}]
            /\ UNCHANGED <<connVars, selfId, serverElects, deadline>>
            /\ \/ /\ serverElects[c]
                  /\ coming' = q
                  /\ UNCHANGED <<board, hostId, claims, copy, vote>>
               \/ /\ ~serverElects[c]
                  /\ \E all, best : Votes(c, {cl \in claims[c] : cl.id # m.id}, peers[c] \ {m.id},
                                          copy[c], q, all, best)
<1> DEFINE m == Head(coming[c])
           q == [coming EXCEPT ![c] = Tail(@)]
           cls == {cl \in claims[c] : cl.id # m.id}
           h == IF hostId[c] = m.id THEN NoId ELSE hostId[c]
<1>1. m \in Frames /\ m.type = "LEAVE" /\ InRoom(c) /\ connected[c]
  BY ReceivedFrame DEF ReceiveLeave
<1>2. m.id \in Given /\ m = LeaveMsg(m.id)
  BY <1>1 DEF Frames, LeaveMsg
<1>3. peers' = [peers EXCEPT ![c] = @ \ {m.id}] /\ UNCHANGED <<connVars, selfId, serverElects, deadline>>
  BY DEF ReceiveLeave
<1>4. peers'[c] = peers[c] \ {m.id}
  BY <1>3 DEF ElectInv, TypeOK
<1>5. selfId[c] # NoId
  BY <1>1 DEF InRoom, Live, ElectInv, TypeOK, NoId, Given
<1>6. CASE serverElects[c]
  BY <1>2, <1>3, <1>6 DEF ReceiveLeave
<1>7. CASE ~serverElects[c]
  <2>1. Elect(c, cls, peers[c] \ {m.id}, h, copy[c], q)
    BY <1>4, <1>7 DEF ReceiveLeave
  <2>2. cls \subseteq Claims /\ copy[c] \in Claims \cup {NoClaim}
    BY DEF ElectInv, TypeOK
  <2>3. \E all, best : Votes(c, cls, peers[c] \ {m.id}, copy[c], q, all, best)
    <3> HIDE DEF cls, h, q
    <3> QED
      BY <1>1, <1>5, <1>7, <2>1, <2>2, ElectionHeld DEF Abstains
  <2> QED
    BY <1>2, <1>3, <1>7, <2>3
<1> QED
  BY <1>6, <1>7

LEMMA ClaimElects ==
  ASSUME ElectInv, NEW c \in Clients, Receive(c), ReceiveClaim(c, Head(coming[c]))
  PROVE  LET m == Head(coming[c])
             q == [coming EXCEPT ![c] = Tail(@)]
         IN /\ m.claim \in Claims /\ m = ClaimMsg(m.claim)
            /\ UNCHANGED <<connVars, selfId, peers, serverElects, deadline>>
            /\ Noted(claims[c], m.claim) \subseteq Claims
            /\ \A cl \in Noted(claims[c], m.claim) : cl \in claims[c] \/ cl = m.claim
            /\ \/ /\ serverElects[c]
                  /\ Abstains(c, Noted(claims[c], m.claim), hostId[c], m.claim, q)
               \/ /\ ~serverElects[c]
                  /\ \E all, best : Votes(c, Noted(claims[c], m.claim), peers[c], m.claim, q, all, best)
<1> DEFINE m == Head(coming[c])
           q == [coming EXCEPT ![c] = Tail(@)]
           cls == Noted(claims[c], m.claim)
<1>1. m \in Frames /\ m.type = "STATE" /\ InRoom(c) /\ connected[c]
  BY ReceivedFrame DEF ReceiveClaim
<1>2. m.claim \in Claims /\ m = ClaimMsg(m.claim)
  BY <1>1 DEF Frames, ClaimMsg
<1>3. UNCHANGED <<connVars, selfId, peers, serverElects, deadline>>
  BY DEF ReceiveClaim
<1>4. selfId[c] # NoId
  BY <1>1 DEF InRoom, Live, ElectInv, TypeOK, NoId, Given
<1>5. cls \subseteq Claims /\ \A cl \in cls : cl \in claims[c] \/ cl = m.claim
  BY <1>2, NotedKeeps DEF ElectInv, TypeOK
<1>6. Elect(c, cls, peers[c], hostId[c], m.claim, q)
  BY DEF ReceiveClaim
<1>7. \/ Abstains(c, cls, hostId[c], m.claim, q)
      \/ \E all, best : Votes(c, cls, peers[c], m.claim, q, all, best)
  <2> HIDE DEF cls, q
  <2> QED
    BY <1>2, <1>5, <1>6, ElectionHeld
<1>8. Abstains(c, cls, hostId[c], m.claim, q) => serverElects[c]
  BY <1>1, <1>4 DEF Abstains
<1>9. (\E all, best : Votes(c, cls, peers[c], m.claim, q, all, best)) => ~serverElects[c]
  BY DEF Votes
<1> QED
  BY <1>2, <1>3, <1>5, <1>7, <1>8, <1>9

LEMMA DeadlineElects ==
  ASSUME ElectInv, NEW c \in Clients, DeadlineFires(c)
  PROVE  /\ deadline' = [deadline EXCEPT ![c] = FALSE]
         /\ UNCHANGED <<connVars, relay, room, lastId, role, upsets, peerOf,
                        selfId, peers, serverElects, joinedAt>>
         /\ \/ /\ serverElects[c] \/ hostId[c] # NoId \/ ~connected[c] \/ selfId[c] = NoId
               /\ UNCHANGED <<board, coming, hostId, claims, copy, vote>>
            \/ \E all, best : Votes(c, claims[c], peers[c], copy[c], coming, all, best)
<1>1. CASE serverElects[c] \/ hostId[c] # NoId
  BY <1>1 DEF DeadlineFires
<1>2. CASE ~serverElects[c] /\ hostId[c] = NoId
  <2>1. Elect(c, claims[c], peers[c], NoId, copy[c], coming)
    BY <1>2 DEF DeadlineFires
  <2>2. claims[c] \subseteq Claims /\ copy[c] \in Claims \cup {NoClaim}
    BY DEF ElectInv, TypeOK
  <2>3. CASE Abstains(c, claims[c], NoId, copy[c], coming)
    <3>1. UNCHANGED <<board, coming, hostId, claims, copy, vote>>
      BY <1>2, <2>3 DEF Abstains, ElectInv, TypeOK
    <3> QED
      BY <2>3, <3>1 DEF Abstains, DeadlineFires
  <2>4. CASE \E all, best : Votes(c, claims[c], peers[c], copy[c], coming, all, best)
    BY <2>4 DEF DeadlineFires
  <2> QED
    BY <2>1, <2>2, <2>3, <2>4, ElectionHeld
<1> QED
  BY <1>1, <1>2

LEMMA ReceivedTyped ==
  ASSUME ElectInv, NEW c \in Clients, Receive(c)
  PROVE  RelayTypes' /\ PageTypes' /\ ElectionTypes'
<1> DEFINE m == Head(coming[c])
           q == [coming EXCEPT ![c] = Tail(@)]
<1>1. RelayTypes /\ PageTypes /\ ElectionTypes
  BY TypesAre DEF ElectInv
<1>2. lastId' = lastId /\ Frames' = Frames /\ Given' = Given /\ joinedAt' = joinedAt
  BY DEF Receive, Frames, Given
<1>3. RelayTypes'
  BY <1>1, <1>2 DEF Receive, RelayTypes
<1>4. m \in Frames /\ q \in [Clients -> Seq(Frames)]
  BY ReceivedFrame, Shorter DEF ElectInv
<1>5. coming' = q => coming' \in [Clients -> Seq(Frames')]
  BY <1>2, <1>4
<1>6. 0 .. lastId = Given \cup {NoId}
  BY <1>1, FallbackConstants DEF RelayTypes, Given, NoId
<1> HIDE DEF q
<1>7. CASE ReceiveHello(c, m)
  <2>1. m.id \in Given /\ m.peers \subseteq Given /\ m.host \in Given \cup {NoId}
    BY <1>4, <1>7 DEF ReceiveHello, Frames
  <2>2. coming' = q /\ UNCHANGED <<board, claims, copy, vote>>
    BY <1>7 DEF ReceiveHello, q
  <2> HIDE DEF Frames, Given, m
  <2>3. PageTypes' /\ hostId' \in [Clients -> 0 .. lastId']
    <3>1. CASE m.from = "incompatible"
      BY <1>1, <1>2, <1>7, <3>1 DEF ReceiveHello, PageTypes, ElectionTypes
    <3>2. CASE m.from # "incompatible"
      <4>1. /\ selfId' = [selfId EXCEPT ![c] = m.id]
            /\ peers' = [peers EXCEPT ![c] = @ \cup m.peers]
        BY <1>7, <3>2 DEF ReceiveHello
      <4>2. CASE HostKnown(c, m.host)
        BY <1>1, <1>2, <1>6, <2>1, <4>1, <4>2 DEF HostKnown, PageTypes, ElectionTypes
      <4>3. CASE deadline' = [deadline EXCEPT ![c] = ArmsDeadline(c)] /\ UNCHANGED <<serverElects, hostId>>
        BY <1>1, <1>2, <1>6, <2>1, <4>1, <4>3 DEF ArmsDeadline, PageTypes, ElectionTypes
      <4> QED
        BY <1>7, <3>2, <4>2, <4>3 DEF ReceiveHello
    <3> QED
      BY <3>1, <3>2
  <2> QED
    BY <1>1, <1>3, <1>5, <2>2, <2>3 DEF ElectionTypes
<1>8. CASE ReceiveHost(c, m)
  <2>1. m.id \in Given
    BY <1>4, <1>8 DEF ReceiveHost, Frames
  <2>2. coming' = q
    BY <1>8 DEF ReceiveHost, q
  <2> HIDE DEF Frames, Given, m
  <2> QED
    BY <1>1, <1>2, <1>3, <1>5, <1>6, <1>8, <2>1, <2>2
    DEF ReceiveHost, HostKnown, PageTypes, ElectionTypes
<1>9. CASE ReceiveJoin(c, m)
  <2>1. m.id \in Given
    BY <1>4, <1>9 DEF ReceiveJoin, Frames
  <2>2. coming' = q
    BY <1>9 DEF ReceiveJoin, q
  <2> HIDE DEF Frames, Given, m
  <2> QED
    BY <1>1, <1>2, <1>3, <1>5, <1>9, <2>1, <2>2 DEF ReceiveJoin, PageTypes, ElectionTypes
<1>10. CASE ReceiveLeave(c, m)
  <2>1. PageTypes'
    <3>1. /\ peers' = [peers EXCEPT ![c] = @ \ {m.id}]
          /\ UNCHANGED <<selfId, serverElects, deadline>>
      BY <1>10, LeaveElects
    <3> HIDE DEF Given
    <3> QED
      BY <1>1, <1>2, <3>1 DEF PageTypes
  <2>2. CASE coming' = q /\ UNCHANGED <<board, hostId, claims, copy, vote>>
    BY <1>1, <1>2, <1>3, <1>5, <2>1, <2>2 DEF ElectionTypes
  <2>3. ASSUME NEW all, NEW best,
               Votes(c, {cl \in claims[c] : cl.id # m.id}, peers[c] \ {m.id}, copy[c], q, all, best)
        PROVE  ElectionTypes'
    <3>1. copy[c] \in Claims \cup {NoClaim} /\ peers[c] \ {m.id} \subseteq Given
      BY <1>1 DEF ElectionTypes, PageTypes
    <3> QED
      BY <1>2, <1>4, <2>3, <3>1, VotingTyped
  <2> QED
    BY <1>3, <1>10, <2>1, <2>2, <2>3, LeaveElects DEF q
<1>11. CASE ReceiveClaim(c, m)
  <2> DEFINE cls == Noted(claims[c], m.claim)
  <2>1. m.claim \in Claims /\ cls \subseteq Claims /\ UNCHANGED <<connVars, selfId, peers, serverElects, deadline>>
    BY <1>11, ClaimElects
  <2>2. hostId[c] \in 0 .. lastId /\ peers[c] \subseteq Given
    BY <1>1 DEF PageTypes, ElectionTypes
  <2> HIDE DEF cls
  <2>3. PageTypes'
    BY <1>1, <1>2, <2>1 DEF PageTypes
  <2>4. ASSUME Abstains(c, cls, hostId[c], m.claim, q) PROVE ElectionTypes'
    BY <1>2, <1>4, <2>1, <2>2, <2>4, AbstainingTyped
  <2>5. ASSUME NEW all, NEW best, Votes(c, cls, peers[c], m.claim, q, all, best) PROVE ElectionTypes'
    BY <1>2, <1>4, <2>1, <2>2, <2>5, VotingTyped
  <2> QED
    BY <1>3, <1>11, <2>3, <2>4, <2>5, ClaimElects DEF q, cls
<1> QED
  BY <1>7, <1>8, <1>9, <1>10, <1>11 DEF Receive

LEMMA DeadlineTyped ==
  ASSUME ElectInv, NEW c \in Clients, DeadlineFires(c)
  PROVE  RelayTypes' /\ PageTypes' /\ ElectionTypes'
<1>1. RelayTypes /\ PageTypes /\ ElectionTypes
  BY TypesAre DEF ElectInv
<1>2. lastId' = lastId /\ Frames' = Frames /\ Given' = Given
  BY DEF DeadlineFires, Frames, Given
<1> HIDE DEF Frames, Given
<1>3. RelayTypes' /\ PageTypes'
  BY <1>1, <1>2, DeadlineElects DEF RelayTypes, PageTypes
<1>4. CASE UNCHANGED <<board, coming, hostId, claims, copy, vote>>
  BY <1>1, <1>2, <1>3, <1>4 DEF ElectionTypes
<1>5. ASSUME NEW all, NEW best, Votes(c, claims[c], peers[c], copy[c], coming, all, best)
      PROVE  ElectionTypes'
  <2>1. copy[c] \in Claims \cup {NoClaim} /\ peers[c] \subseteq Given
    BY <1>1 DEF ElectionTypes, PageTypes
  <2> QED
    BY <1>1, <1>2, <1>5, <2>1, VotingTyped DEF ElectionTypes
<1> QED
  BY <1>3, <1>4, <1>5, DeadlineElects

LEMMA TypesKept == ElectInv /\ [Next]_vars => TypeOK'
<1> SUFFICES ASSUME ElectInv, [Next]_vars PROVE TypeOK'
  OBVIOUS
<1>1. ConnTypeOK'
  BY ConnectionKept DEF ConnInv
<1>2. RelayTypes /\ PageTypes /\ ElectionTypes
  BY TypesAre DEF ElectInv
<1>3. UNCHANGED vars => RelayTypes' /\ PageTypes' /\ ElectionTypes'
  BY <1>2 DEF vars, relayVars, clientVars, RelayTypes, PageTypes, ElectionTypes, Frames, Given
<1>4. Next => RelayTypes' /\ PageTypes' /\ ElectionTypes'
  BY JoinTyped, OpenedTyped, ReceivedTyped, DeadlineTyped, RetryTyped, LeaveRoomTyped, SilenceTyped,
     ClosedTyped, RelayTyped, RestartTyped DEF Next
<1>5. (ConnTypeOK /\ RelayTypes /\ PageTypes /\ ElectionTypes)' => TypeOK'
  BY TypesAre, PTL
<1> QED
  BY <1>1, <1>3, <1>4, <1>5

-----------------------------------------------------------------------------
(* What a step does to the client that takes it.                             *)

\* What is left to come once the first frame is taken.
LEMMA TakenSound ==
  ASSUME ElectInv, NEW c \in Clients, Live(c), coming[c] # <<>>
  PROVE  LET m == Head(coming[c])
             q == Tail(coming[c])
         IN /\ q \in Seq(Frames) /\ m \in Frames
            /\ \A i \in DOMAIN q : q[i].type # "HELLO"
            /\ \A i \in DOMAIN q : q[i].type = "LEAVE" => q[i].id \notin room
            /\ \A i \in DOMAIN q : q[i].type = "STATE" =>
                 q[i].claim \in Genuine /\ q[i].claim.id # peerOf[c]
            /\ m.type = "LEAVE" => m.id \notin room
            /\ m.type = "STATE" => m.claim \in Genuine /\ m.claim.id # peerOf[c]
            /\ \A i \in DOMAIN q : \A id \in Given :
                 Brings(q[i], id) => id \in room \/ Leaves(q, i, id)
            /\ \A id \in Given : Brings(m, id) => id \in room \/ Leaves(q, 0, id)
            /\ \A id : id \in room \/ Leaves(coming[c], 0, id) =>
                 id \in room \/ Leaves(q, 0, id) \/ m = LeaveMsg(id)
            /\ OthersClaim(c) => WillHold(q, IF m.type = "STATE" THEN m.claim ELSE copy[c], board)
            /\ relay = "modern" /\ role # NoId =>
                 WillKnow(q, IF Naming(m) THEN Named(m) ELSE hostId[c], role)
            /\ Silent(q, 0) /\ m.type # "STATE" => Silent(coming[c], 0)
<1> DEFINE f == coming[c]
           q == Tail(f)
           m == Head(f)
<1>1. f \in Seq(Frames) /\ f # <<>>
  BY DEF ElectInv, TypeOK
<1>2. Greeting(c) /\ HostNamed(c) /\ Departures(c) /\ ClaimsSound(c) /\ Mirrors(c)
  BY DEF ElectInv, Sound
<1> HIDE DEF f
<1>3. /\ q \in Seq(Frames) /\ m \in Frames /\ m = f[1] /\ 1 \in DOMAIN f
      /\ \A i \in DOMAIN q : i + 1 \in DOMAIN f /\ q[i] = f[i + 1] /\ i \in Nat /\ i > 0 /\ i + 1 # 1
  BY <1>1, Taking
<1>4. /\ \A i \in Nat : \A id : Leaves(f, i + 1, id) => Leaves(q, i, id)
      /\ \A id : Leaves(f, 0, id) => m = LeaveMsg(id) \/ Leaves(q, 0, id)
      /\ \A held, cl : WillHold(f, held, cl) =>
              WillHold(q, IF m.type = "STATE" THEN m.claim ELSE held, cl)
      /\ \A known, host : WillKnow(f, known, host) =>
              WillKnow(q, IF Naming(m) THEN Named(m) ELSE known, host)
      /\ Silent(q, 0) /\ m.type # "STATE" => Silent(f, 0)
  BY <1>1, TakingKeeps
<1> HIDE DEF q, m
<1>5. \A i \in DOMAIN q : q[i].type # "HELLO"
  BY <1>2, <1>3 DEF Greeting, f
<1>6. /\ \A i \in DOMAIN q : q[i].type = "LEAVE" => q[i].id \notin room
      /\ m.type = "LEAVE" => m.id \notin room
  BY <1>2, <1>3 DEF Departures, f
<1>7. /\ \A i \in DOMAIN q : q[i].type = "STATE" => q[i].claim \in Genuine /\ q[i].claim.id # peerOf[c]
      /\ m.type = "STATE" => m.claim \in Genuine /\ m.claim.id # peerOf[c]
  BY <1>2, <1>3 DEF ClaimsSound, f
<1>8. ASSUME NEW i \in DOMAIN q, NEW id \in Given, Brings(q[i], id)
      PROVE  id \in room \/ Leaves(q, i, id)
  <2>1. id \in room \/ Leaves(f, i + 1, id)
    BY <1>2, <1>3, <1>8 DEF Departures, f
  <2> QED
    BY <1>3, <1>4, <2>1
<1>9. ASSUME NEW id \in Given, Brings(m, id)
      PROVE  id \in room \/ Leaves(q, 0, id)
  <2>1. id \in room \/ Leaves(f, 0 + 1, id)
    BY <1>2, <1>3, <1>9 DEF Departures, f
  <2> QED
    BY <1>4, <2>1
<1>10. OthersClaim(c) => WillHold(q, IF m.type = "STATE" THEN m.claim ELSE copy[c], board)
  BY <1>2, <1>4 DEF Mirrors, f
<1>11. relay = "modern" /\ role # NoId =>
         WillKnow(q, IF Naming(m) THEN Named(m) ELSE hostId[c], role)
  BY <1>2, <1>4 DEF HostNamed, f
<1> QED
  BY <1>3, <1>4, <1>5, <1>6, <1>7, <1>8, <1>9, <1>10, <1>11 DEF q, m, f

\* The step changes nothing of the relay but the board, and ids only as a HELLO does.
QuietRelay(c) ==
  /\ UNCHANGED <<relay, room, lastId, role, peerOf, joinedAt>>
  /\ \A d \in Clients : selfId'[d] = selfId[d] \/ (d = c /\ selfId'[d] = peerOf[d])

LEMMA QuietFollows ==
  ASSUME ElectInv, NEW c \in Clients, QuietRelay(c)
  PROVE  WorldFollows /\ Genuine \subseteq Genuine' /\ Distinct'
<1>1. lastId \in Nat /\ \A d \in Clients : peerOf[d] \in room \cup {NoId} /\ room \subseteq 1 .. lastId
  BY FallbackConstants DEF ElectInv, TypeOK, Given
<1>2. \A d \in Clients : ~Fresh(peerOf'[d])
  BY <1>1 DEF Fresh, QuietRelay
<1>3. WorldFollows
  BY <1>2 DEF WorldFollows, QuietRelay
<1> QED
  BY <1>3, GenuineStays, IdsStayDistinct DEF ElectInv

\* A client that nothing is sent to.
LEMMA UnheardKeeps ==
  ASSUME ElectInv, TypeOK', WorldFollows, UNCHANGED <<room, role, board>>,
         NEW d \in Clients, Untouched(d), coming'[d] = coming[d]
  PROVE  Sound(d)'
<1>1. coming[d] \o <<>> = coming[d] /\ <<>> \in Seq(Frames')
  <2>1. coming[d] \in Seq(Frames)
    BY DEF ElectInv, TypeOK
  <2> HIDE DEF Frames
  <2> QED
    BY <2>1
<1>2. Told(d, <<>>)
  BY DEF Told, Nameless, Silent
<1>3. Bystander(d, <<>>)
  BY <1>1, <1>2 DEF Bystander
<1> QED
  BY <1>3, BystanderKeeps

LEMMA IdleKeeps ==
  ASSUME ElectInv, TypeOK', NEW c \in Clients, QuietRelay(c), board' = board,
         NEW d \in Clients, Untouched(d), coming'[d] = coming[d]
  PROVE  Sound(d)'
BY QuietFollows, UnheardKeeps DEF QuietRelay

\* A client while another votes.
LEMMA HearerKeeps ==
  ASSUME ElectInv, TypeOK', NEW c \in Clients, QuietRelay(c), selfId' = selfId,
         NEW cls, NEW ps, NEW stored, NEW queue, NEW all, NEW best,
         Votes(c, cls, ps, stored, queue, all, best), best \in Genuine,
         NEW d \in Clients, d # c, Untouched(d), queue[d] = coming[d]
  PROVE  Sound(d)'
<1>1. CASE Speaks(c, best, stored) /\ peerOf[d] \in room
  <2> DEFINE t == <<ClaimMsg(best)>>
  <2>1. coming[d] \in Seq(Frames) /\ best \in Claims
    BY DEF ElectInv, TypeOK, Votes, Outcome
  <2>2. ClaimMsg(best) \in Frames'
    BY <2>1 DEF Frames, ClaimMsg
  <2>3. coming'[d] = coming[d] \o t /\ t \in Seq(Frames')
    <3>1. coming'[d] = Append(coming[d], ClaimMsg(best))
      BY <1>1 DEF Votes
    <3> HIDE DEF Frames
    <3> QED
      BY <2>1, <2>2, <3>1
  <2>4. board' = best
    BY <1>1 DEF Votes
  <2>5. best.id # peerOf[d]
    <3>1. best.id = selfId[c] /\ peerOf[d] # NoId
      BY <1>1, FallbackConstants DEF Speaks, Announces, ElectInv, TypeOK, Given, NoId
    <3> QED
      BY <3>1 DEF ElectInv, Distinct
  <2>6. TrueFrame(d, t[1])
    BY <2>5, QuietFollows DEF TrueFrame, ClaimMsg
  <2>7. Told(d, t)
    <3>1. t[1] = ClaimMsg(board') /\ 1 \in DOMAIN t /\ Silent(t, 1)
      BY <2>4 DEF Silent
    <3>2. Nameless(t, 0)
      BY DEF Nameless, Naming, ClaimMsg
    <3> QED
      BY <3>1, <3>2 DEF Told, QuietRelay
  <2>8. Bystander(d, t)
    <3>1. peerOf[d] # NoId /\ room' = room
      BY <1>1, FallbackConstants DEF QuietRelay, ElectInv, TypeOK, Given, NoId
    <3>2. \A k \in DOMAIN t : k = 1
      OBVIOUS
    <3> QED
      BY <2>3, <2>6, <2>7, <3>1, <3>2 DEF Bystander
  <2> QED
    BY <2>8, QuietFollows, BystanderKeeps
<1>2. CASE ~Speaks(c, best, stored)
  BY <1>2, IdleKeeps DEF Votes
<1>3. CASE Speaks(c, best, stored) /\ peerOf[d] \notin room
  <2>1. coming[d] \o <<>> = coming[d] /\ <<>> \in Seq(Frames')
    <3>1. coming[d] \in Seq(Frames)
      BY DEF ElectInv, TypeOK
    <3> HIDE DEF Frames
    <3> QED
      BY <3>1
  <2>2. ~Live(d)
    BY <1>3 DEF Live
  <2>3. Bystander(d, <<>>)
    BY <1>3, <2>1, <2>2 DEF Bystander, Votes
  <2> QED
    BY <2>3, QuietFollows, BystanderKeeps
<1> QED
  BY <1>1, <1>2, <1>3

\* What an election finds: claims and a copy that are genuine, and frames to come, a roster and
\* a copy that are as the invariant wants them.
Found(c, cls, ps, stored, q) ==
  /\ cls \subseteq Genuine /\ stored \in Genuine
  /\ q \in Seq(Frames) /\ (peerOf[c] = NoId => q = <<>>)
  /\ \A i \in DOMAIN q : q[i].type = "LEAVE" => q[i].id \notin room
  /\ \A i \in DOMAIN q : q[i].type = "STATE" =>
       q[i].claim \in Genuine /\ q[i].claim.id # peerOf[c]
  /\ Live(c) =>
       /\ \A i \in DOMAIN q : q[i].type = "HELLO" => i = 1 /\ ~InRoom(c)
       /\ ~InRoom(c) => q = coming[c] /\ ps = {}
       /\ \A i \in DOMAIN q : \A id \in Given : Brings(q[i], id) => id \in room \/ Leaves(q, i, id)
       /\ \A id \in ps : id \in room \/ Leaves(q, 0, id)
       /\ OthersClaim(c) => WillHold(q, stored, board)
       /\ Silent(q, 0) /\ stored = Own(c) => board = Own(c)

LEMMA VoterKeeps ==
  ASSUME ElectInv, TypeOK', NEW c \in Clients, QuietRelay(c), selfId' = selfId,
         NEW cls, NEW ps, NEW stored, NEW queue, NEW all, NEW best,
         Votes(c, cls, ps, stored, queue, all, best), Found(c, cls, ps, stored, queue[c]),
         UNCHANGED <<connVars, serverElects>>, peers'[c] = ps
  PROVE  Sound(c)' /\ best \in Genuine /\ board' \in Genuine'
<1> DEFINE q == queue[c]
           held == IF Announces(c, best, stored) THEN best ELSE stored
<1>1. /\ SocketSound(c) /\ Greeting(c) /\ HostNamed(c)
      /\ connected[c] /\ ~serverElects[c] /\ selfId[c] # NoId
  BY DEF ElectInv, Sound, Votes
<1>2. /\ all \subseteq Genuine /\ best \in Genuine /\ held \in Genuine
      /\ Genuine \subseteq Genuine'
  <2>1. Mine(c) \in Genuine
    BY <1>1, MineIsGenuine
  <2>2. all \subseteq Genuine
    BY <2>1 DEF Votes, Outcome, Found
  <2> QED
    BY <2>2, QuietFollows DEF Votes, Outcome, Found
<1>3. /\ coming'[c] = q /\ claims'[c] = all /\ hostId'[c] = best.id /\ vote'[c] = Manner(c, all, ps)
      /\ copy'[c] = held /\ board' = IF Speaks(c, best, stored) THEN best ELSE board
      /\ selfId'[c] = selfId[c] /\ serverElects'[c] = serverElects[c] /\ joinedAt'[c] = joinedAt[c]
      /\ peerOf'[c] = peerOf[c] /\ room' = room /\ relay' = relay /\ role' = role /\ lastId' = lastId
      /\ sock'[c] = sock[c] /\ connected'[c] = connected[c] /\ closing'[c] = closing[c]
  BY DEF Votes, QuietRelay, connVars, ElectInv, TypeOK
<1>4. /\ Live(c)' <=> Live(c)
      /\ InRoom(c)' <=> InRoom(c)
      /\ Own(c)' = Own(c) /\ Given' = Given
  BY <1>3 DEF Live, InRoom, Own, Given
<1>5. board' \in Genuine'
  BY <1>2, <1>3 DEF ElectInv
<1>6. /\ vote'[c] # "none"
      /\ InRoom(c) => vote'[c] # "early"
      /\ ~InRoom(c) => vote'[c] = "early"
  BY <1>3 DEF Manner
<1> HIDE DEF q, held
<1>7. SocketSound(c)'
  BY <1>1, <1>3 DEF SocketSound, Found, q, ElectInv, Sound, InRoom, Live
<1>8. Greeting(c)'
  <2> SUFFICES ASSUME Live(c) PROVE Greeting(c)'
    BY <1>4 DEF Greeting
  <2>1. \A i \in DOMAIN q : q[i].type = "HELLO" => i = 1 /\ ~InRoom(c)
    BY DEF Found, q
  <2>2. CASE InRoom(c)
    BY <1>1, <1>3, <1>4, <1>6, <2>1, <2>2 DEF Greeting
  <2>3. CASE ~InRoom(c)
    <3>1. q = coming[c] /\ ps = {}
      BY <2>3 DEF Found, q
    <3>2. coming[c] # <<>> /\ Greets(c, coming[c][1])
      BY <1>1, <2>3 DEF Greeting
    <3> QED
      BY <1>3, <1>4, <1>6, <2>1, <2>3, <3>1, <3>2 DEF Greeting, Greets
  <2> QED
    BY <2>2, <2>3
<1>9. NoVoteNoHost(c)'
  BY <1>6 DEF NoVoteNoHost
<1>10. HostNamed(c)'
  <2> SUFFICES ASSUME Live(c), relay = "modern", role # NoId
               PROVE  WillKnow(q, best.id, role)
    BY <1>3, <1>4 DEF HostNamed
  <2>1. ~InRoom(c)
    BY <1>1 DEF Greeting
  <2>2. q = coming[c] /\ coming[c] # <<>> /\ Naming(coming[c][1])
    BY <1>1, <2>1 DEF Found, Greeting, Greets, Naming, q
  <2>3. WillKnow(q, hostId[c], role)
    BY <1>1, <2>2 DEF HostNamed
  <2>4. 1 \in DOMAIN q
    BY <2>2 DEF Found, q
  <2> QED
    BY <2>2, <2>3, <2>4 DEF WillKnow, Nameless
<1>11. Departures(c)'
  <2>1. \A i \in DOMAIN q : q[i].type = "LEAVE" => q[i].id \notin room
    BY DEF Found, q
  <2> SUFFICES ASSUME Live(c)
               PROVE  /\ \A i \in DOMAIN q : \A id \in Given :
                           Brings(q[i], id) => id \in room \/ Leaves(q, i, id)
                      /\ \A id \in ps : id \in room \/ Leaves(q, 0, id)
                      /\ InRoom(c) => best.id \in room \/ Leaves(q, 0, best.id)
    BY <1>3, <1>4, <1>6, <2>1 DEF Departures
  <2>2. \A id \in ps : id \in room \/ Leaves(q, 0, id)
    BY DEF Found, q
  <2>3. best.id \in ps \cup {selfId[c]}
    BY DEF Votes, Outcome
  <2>4. InRoom(c) => selfId[c] \in room
    BY DEF InRoom, Live
  <2> QED
    BY <2>2, <2>3, <2>4 DEF Found, q
<1>12. ClaimsSound(c)'
  <2>1. \A i \in DOMAIN q : q[i].type = "STATE" => q[i].claim \in Genuine' /\ q[i].claim.id # peerOf[c]
    BY <1>2 DEF Found, q
  <2> QED
    BY <1>2, <1>3, <2>1 DEF ClaimsSound
<1>13. Mirrors(c)'
  <2> SUFFICES ASSUME Live(c)
               PROVE  /\ OthersClaim(c)' => WillHold(q, held, board')
                      /\ Silent(q, 0) /\ held = Own(c) => board' = Own(c)
    BY <1>3, <1>4 DEF Mirrors
  <2>1. peerOf[c] \in room
    BY DEF Live
  <2>2. CASE Announces(c, best, stored)
    <3>1. board' = best /\ held = best /\ best.id = selfId[c]
      BY <1>3, <2>1, <2>2 DEF Speaks, Announces, held
    <3>2. \A d \in Clients \ {c} : peerOf[d] # NoId => selfId[c] # peerOf[d]
      BY DEF ElectInv, Distinct
    <3>3. ~OthersClaim(c)'
      BY <3>1, <3>2 DEF OthersClaim, QuietRelay
    <3> QED
      BY <3>1, <3>3
  <2>3. CASE ~Announces(c, best, stored)
    <3>1. board' = board /\ held = stored
      BY <1>3, <2>3 DEF Speaks, held
    <3>2. OthersClaim(c)' <=> OthersClaim(c)
      BY <3>1 DEF OthersClaim, QuietRelay
    <3> QED
      BY <3>1, <3>2 DEF Found, q
  <2> QED
    BY <2>2, <2>3
<1>14. FairVote(c)'
  <2> SUFFICES ASSUME Live(c), vote'[c] = "fair"
               PROVE  /\ Own(c) \in all
                      /\ held # NoClaim => \E cl \in all : cl.id = held.id
                      /\ \E b \in all : Chosen(c, b)'
    BY <1>3, <1>4 DEF FairVote
  <2>1. InRoom(c) /\ ~ \E cl \in all : cl.id \in room \ (ps \cup {selfId[c]})
    BY <1>3 DEF Manner
  <2>2. PICK mine \in all : mine.id = selfId[c]
    BY DEF Votes, Outcome
  <2>3. mine = Own(c)
    BY <1>1, <1>2, <2>1, <2>2 DEF Genuine, InRoom
  <2>4. held # NoClaim => \E cl \in all : cl.id = held.id
    BY DEF Votes, Outcome, held
  <2>5. best \in all /\ \A cl \in all : cl.id \in ps \cup {selfId[c]} => ~ClaimWins(cl, best)
    BY DEF Votes, Outcome
  <2>6. best.id = selfId[c] => held = best
    BY DEF held, Announces
  <2>7. Chosen(c, best)'
    BY <1>3, <2>1, <2>5, <2>6 DEF Chosen
  <2> QED
    BY <2>2, <2>3, <2>4, <2>5, <2>7
<1> QED
  BY <1>2, <1>5, <1>7, <1>8, <1>9, <1>10, <1>11, <1>12, <1>13, <1>14 DEF Sound

\* The rest of the invariant, after a step.
Keeps == Distinct' /\ board' \in Genuine' /\ \A d \in Clients : Sound(d)'

\* The frames to come are as they must be, the first one taken or not.
LEMMA FoundAtLeave ==
  ASSUME ElectInv, NEW c \in Clients, Receive(c), Head(coming[c]).type = "LEAVE",
         NEW cls, cls \subseteq claims[c]
  PROVE  Found(c, cls, peers[c] \ {Head(coming[c]).id}, copy[c], Tail(coming[c]))
<1>1. Live(c) /\ coming[c] # <<>> /\ InRoom(c) /\ Head(coming[c]) \in Frames
  BY ReceivedFrame
<1>2. Departures(c) /\ ClaimsSound(c) /\ Mirrors(c) /\ peerOf[c] # NoId
  BY <1>1, FallbackConstants DEF ElectInv, Sound, Live, TypeOK, Given, NoId
<1>3. \A id : Head(coming[c]) = LeaveMsg(id) => id = Head(coming[c]).id
  BY DEF LeaveMsg
<1>4. ~Naming(Head(coming[c]))
  BY DEF Naming
<1>5. \A id \in peers[c] \ {Head(coming[c]).id} : id \in room \/ Leaves(Tail(coming[c]), 0, id)
  BY <1>1, <1>2, <1>3, TakenSound DEF Departures
<1> QED
  BY <1>1, <1>2, <1>5, TakenSound DEF Found, ClaimsSound, Mirrors

LEMMA FoundAtClaim ==
  ASSUME ElectInv, NEW c \in Clients, Receive(c), Head(coming[c]).type = "STATE",
         NEW cls, \A cl \in cls : cl \in claims[c] \/ cl = Head(coming[c]).claim
  PROVE  Found(c, cls, peers[c], Head(coming[c]).claim, Tail(coming[c]))
<1>1. Live(c) /\ coming[c] # <<>> /\ InRoom(c) /\ Head(coming[c]) \in Frames
  BY ReceivedFrame
<1>2. Departures(c) /\ ClaimsSound(c) /\ peerOf[c] # NoId
  BY <1>1, FallbackConstants DEF ElectInv, Sound, Live, TypeOK, Given, NoId
<1>3. \A id \in peers[c] : id \in room \/ Leaves(Tail(coming[c]), 0, id)
  <2>1. \A id : Head(coming[c]) # LeaveMsg(id)
    BY DEF LeaveMsg
  <2> QED
    BY <1>1, <1>2, <2>1, TakenSound DEF Departures
<1>4. Head(coming[c]).claim # Own(c)
  BY <1>1, TakenSound DEF Own
<1>5. /\ Head(coming[c]).claim \in Genuine
      /\ OthersClaim(c) => WillHold(Tail(coming[c]), Head(coming[c]).claim, board)
  BY <1>1, TakenSound
<1> QED
  BY <1>1, <1>2, <1>3, <1>4, <1>5, TakenSound DEF Found, ClaimsSound

LEMMA FoundAtDeadline ==
  ASSUME ElectInv, NEW c \in Clients
  PROVE  Found(c, claims[c], peers[c], copy[c], coming[c])
<1>1. SocketSound(c) /\ Greeting(c) /\ Departures(c) /\ ClaimsSound(c) /\ Mirrors(c)
  BY DEF ElectInv, Sound
<1>2. coming[c] \in Seq(Frames)
  BY DEF ElectInv, TypeOK
<1> QED
  BY <1>1, <1>2 DEF Found, SocketSound, Greeting, Departures, ClaimsSound, Mirrors

\* Who votes keeps the invariant for all.
LEMMA VoteKeeps ==
  ASSUME ElectInv, TypeOK', NEW c \in Clients, QuietRelay(c), selfId' = selfId,
         NEW cls, NEW ps, NEW stored, NEW queue, NEW all, NEW best,
         Votes(c, cls, ps, stored, queue, all, best), Found(c, cls, ps, stored, queue[c]),
         UNCHANGED <<connVars, serverElects>>, peers' = [peers EXCEPT ![c] = ps],
         \A d \in Clients \ {c} : queue[d] = coming[d] /\ deadline'[d] = deadline[d]
  PROVE  Keeps
<1>1. peers'[c] = ps
  BY DEF ElectInv, TypeOK
<1>2. Sound(c)' /\ best \in Genuine /\ board' \in Genuine'
  BY <1>1, VoterKeeps
<1>3. ASSUME NEW d \in Clients, d # c PROVE Sound(d)'
  <2>1. Untouched(d)
    BY <1>3 DEF Untouched, Votes, QuietRelay, connVars, ElectInv, TypeOK
  <2> QED
    BY <1>2, <1>3, <2>1, HearerKeeps
<1> QED
  BY <1>2, <1>3, QuietFollows DEF Keeps

LEMMA DeadlineKeeps ==
  ASSUME ElectInv, TypeOK', NEW c \in Clients, DeadlineFires(c)
  PROVE  Keeps
<1>1. QuietRelay(c) /\ UNCHANGED <<connVars, selfId, peers, serverElects>>
  BY DEF DeadlineFires, QuietRelay
<1>2. ASSUME NEW all, NEW best, Votes(c, claims[c], peers[c], copy[c], coming, all, best)
      PROVE  Keeps
  <2>1. peers' = [peers EXCEPT ![c] = peers[c]]
    BY <1>1 DEF ElectInv, TypeOK
  <2>2. \A d \in Clients \ {c} : deadline'[d] = deadline[d]
    BY DEF DeadlineFires, ElectInv, TypeOK
  <2>3. Found(c, claims[c], peers[c], copy[c], coming[c])
    BY FoundAtDeadline
  <2> QED
    BY <1>1, <1>2, <2>1, <2>2, <2>3, VoteKeeps
<1>3. ASSUME serverElects[c] \/ hostId[c] # NoId \/ ~connected[c] \/ selfId[c] = NoId,
             UNCHANGED <<board, coming, hostId, claims, copy, vote>>
      PROVE  Keeps
  <2>1. board' \in Genuine'
    BY <1>1, <1>3, QuietFollows DEF ElectInv
  <2>2. ASSUME NEW d \in Clients, d # c PROVE Sound(d)'
    <3>1. Untouched(d)
      BY <1>1, <1>3, <2>2 DEF Untouched, QuietRelay, connVars, DeadlineFires, ElectInv, TypeOK
    <3> QED
      BY <1>1, <1>3, <3>1, IdleKeeps
  <2>3. Sound(c)'
    <3>1. Sound(c)
      BY DEF ElectInv
    <3>2. /\ Live(c)' <=> Live(c)
          /\ InRoom(c)' <=> InRoom(c)
          /\ Own(c)' = Own(c) /\ Given' = Given /\ Genuine' = Genuine
          /\ OthersClaim(c)' <=> OthersClaim(c)
      BY <1>1, <1>3 DEF Live, InRoom, Own, Given, Genuine, OthersClaim, QuietRelay, connVars,
                        DeadlineFires
    <3>3. InRoom(c) => ~(vote[c] = "none" /\ ~serverElects[c])
      <4>1. InRoom(c) => selfId[c] # NoId /\ connected[c] /\ ~closing[c]
        <5>1. InRoom(c) => selfId[c] # NoId
          BY FallbackConstants DEF InRoom, Live, ElectInv, TypeOK, Given, NoId
        <5>2. InRoom(c) => connected[c]
          BY <3>1 DEF InRoom, Live, Sound, SocketSound
        <5>3. InRoom(c) => ~closing[c]
          BY DEF InRoom, Live, ElectInv, ConnInv, Consistent
        <5> QED
          BY <5>1, <5>2, <5>3
      <4> QED
        BY <1>3, <3>1, <4>1 DEF Sound, NoVoteNoHost
    <3>4. Greeting(c)'
      BY <1>1, <1>3, <3>1, <3>2, <3>3 DEF Sound, Greeting, Greets, QuietRelay
    <3>5. SocketSound(c)' /\ NoVoteNoHost(c)' /\ HostNamed(c)' /\ Departures(c)'
      BY <1>1, <1>3, <3>1, <3>2
      DEF Sound, SocketSound, NoVoteNoHost, HostNamed, Departures, QuietRelay, connVars
    <3>6. ClaimsSound(c)' /\ Mirrors(c)' /\ FairVote(c)'
      BY <1>1, <1>3, <3>1, <3>2
      DEF Sound, ClaimsSound, Mirrors, FairVote, Chosen, QuietRelay, connVars
    <3> QED
      BY <3>4, <3>5, <3>6 DEF Sound
  <2> QED
    BY <1>1, <2>1, <2>2, <2>3, QuietFollows DEF Keeps
<1> QED
  BY <1>2, <1>3, DeadlineElects

LEMMA ReceivedLeaveKeeps ==
  ASSUME ElectInv, TypeOK', NEW c \in Clients, Receive(c), ReceiveLeave(c, Head(coming[c]))
  PROVE  Keeps
<1> DEFINE m == Head(coming[c])
           q == [coming EXCEPT ![c] = Tail(@)]
<1>1. QuietRelay(c) /\ UNCHANGED <<connVars, selfId, serverElects, deadline>> /\ m.type = "LEAVE"
  BY DEF Receive, ReceiveLeave, QuietRelay
<1>2. peers' = [peers EXCEPT ![c] = @ \ {m.id}] /\ peers[c] = peers[c]
  BY LeaveElects
<1>3. q[c] = Tail(coming[c]) /\ \A d \in Clients \ {c} : q[d] = coming[d]
  BY ReceivedFrame, Shorter DEF ElectInv
<1>4. peers' = [peers EXCEPT ![c] = peers[c] \ {m.id}]
  BY <1>2
<1> HIDE DEF q
<1>5. ASSUME NEW all, NEW best, NEW cls, cls \subseteq claims[c],
             Votes(c, cls, peers[c] \ {m.id}, copy[c], q, all, best)
      PROVE  Keeps
  <2>1. Found(c, cls, peers[c] \ {m.id}, copy[c], q[c])
    BY <1>1, <1>3, <1>5, FoundAtLeave
  <2>2. \A d \in Clients \ {c} : q[d] = coming[d] /\ deadline'[d] = deadline[d]
    BY <1>1, <1>3
  <2> QED
    BY <1>1, <1>4, <1>5, <2>1, <2>2, VoteKeeps
<1>6. ASSUME serverElects[c], coming' = q, UNCHANGED <<board, hostId, claims, copy, vote>>
      PROVE  Keeps
  <2>1. board' \in Genuine'
    BY <1>1, <1>6, QuietFollows DEF ElectInv
  <2>2. ASSUME NEW d \in Clients, d # c PROVE Sound(d)'
    <3>1. Untouched(d)
      BY <1>1, <1>4, <1>6, <2>2 DEF Untouched, QuietRelay, connVars, ElectInv, TypeOK
    <3> QED
      BY <1>1, <1>3, <1>6, <2>2, <3>1, IdleKeeps
  <2>3. Sound(c)'
    <3>1. Live(c) /\ InRoom(c) /\ coming[c] # <<>> /\ peerOf[c] # NoId
      <4>1. Live(c) /\ InRoom(c) /\ coming[c] # <<>>
        BY <1>1, ReceivedFrame
      <4>2. peerOf[c] # NoId
        BY <4>1, FallbackConstants DEF Live, ElectInv, TypeOK, Given, NoId
      <4> QED
        BY <4>1, <4>2
    <3>2. /\ Live(c)' /\ InRoom(c)' /\ Own(c)' = Own(c) /\ Given' = Given /\ Genuine' = Genuine
          /\ OthersClaim(c)' <=> OthersClaim(c)
      BY <1>1, <1>6, <3>1 DEF Live, InRoom, Own, Given, Genuine, OthersClaim, QuietRelay, connVars
    <3>3. /\ Sound(c) /\ coming'[c] = Tail(coming[c]) /\ peers'[c] = peers[c] \ {m.id}
          /\ hostId'[c] = hostId[c] /\ serverElects'[c]
      BY <1>1, <1>3, <1>4, <1>6 DEF ElectInv, TypeOK
    <3>4. Found(c, claims[c], peers[c] \ {m.id}, copy[c], Tail(coming[c]))
      BY <1>1, FoundAtLeave
    <3>5. WillKnow(Tail(coming[c]), hostId[c], role) \/ relay # "modern" \/ role = NoId
      BY <1>1, <3>1, TakenSound DEF Naming
    <3>6. SocketSound(c)' /\ Greeting(c)' /\ NoVoteNoHost(c)' /\ HostNamed(c)'
      BY <1>1, <1>6, <3>1, <3>2, <3>3, <3>4, <3>5
      DEF Sound, SocketSound, Greeting, NoVoteNoHost, HostNamed, Found, QuietRelay, connVars
    <3>7. Departures(c)'
      BY <1>1, <3>2, <3>3, <3>4, <3>1 DEF Departures, Found, QuietRelay
    <3>8. ClaimsSound(c)' /\ Mirrors(c)' /\ FairVote(c)'
      BY <1>1, <1>6, <3>1, <3>2, <3>3, <3>4
      DEF Sound, ClaimsSound, Mirrors, FairVote, Found, QuietRelay
    <3> QED
      BY <3>6, <3>7, <3>8 DEF Sound
  <2> QED
    BY <1>1, <2>1, <2>2, <2>3, QuietFollows DEF Keeps
<1>7. {cl \in claims[c] : cl.id # m.id} \subseteq claims[c]
  OBVIOUS
<1> QED
  BY <1>5, <1>6, <1>7, LeaveElects DEF q

LEMMA ReceivedClaimKeeps ==
  ASSUME ElectInv, TypeOK', NEW c \in Clients, Receive(c), ReceiveClaim(c, Head(coming[c]))
  PROVE  Keeps
<1> DEFINE m == Head(coming[c])
           q == [coming EXCEPT ![c] = Tail(@)]
           cls == Noted(claims[c], m.claim)
<1>1. /\ QuietRelay(c) /\ UNCHANGED <<connVars, selfId, serverElects, deadline, peers>>
      /\ m.type = "STATE"
  BY DEF Receive, ReceiveClaim, QuietRelay, ClaimMsg
<1>2. \A cl \in cls : cl \in claims[c] \/ cl = m.claim
  BY ClaimElects
<1>3. q[c] = Tail(coming[c]) /\ \A d \in Clients \ {c} : q[d] = coming[d]
  BY ReceivedFrame, Shorter DEF ElectInv
<1>4. peers' = [peers EXCEPT ![c] = peers[c]]
  BY <1>1 DEF ElectInv, TypeOK
<1> HIDE DEF q, cls
<1>5. Found(c, cls, peers[c], m.claim, q[c])
  BY <1>1, <1>2, <1>3, FoundAtClaim
<1>6. ASSUME NEW all, NEW best, Votes(c, cls, peers[c], m.claim, q, all, best)
      PROVE  Keeps
  <2>1. \A d \in Clients \ {c} : q[d] = coming[d] /\ deadline'[d] = deadline[d]
    BY <1>1, <1>3
  <2>2. PICK ps, stored : ps = peers[c] /\ stored = m.claim
    OBVIOUS
  <2> HIDE DEF m
  <2>3. /\ Votes(c, cls, ps, stored, q, all, best)
        /\ Found(c, cls, ps, stored, q[c])
        /\ peers' = [peers EXCEPT ![c] = ps]
    BY <1>4, <1>5, <1>6, <2>2
  <2>4. QuietRelay(c) /\ selfId' = selfId /\ UNCHANGED <<connVars, serverElects>>
    BY <1>1
  <2> QED
    BY <2>1, <2>3, <2>4, VoteKeeps
<1>7. ASSUME serverElects[c], Abstains(c, cls, hostId[c], m.claim, q)
      PROVE  Keeps
  <2>1. board' \in Genuine'
    BY <1>1, <1>7, QuietFollows DEF ElectInv, Abstains
  <2>2. ASSUME NEW d \in Clients, d # c PROVE Sound(d)'
    <3>1. Untouched(d)
      BY <1>1, <1>7, <2>2 DEF Untouched, QuietRelay, connVars, Abstains, ElectInv, TypeOK
    <3> QED
      BY <1>1, <1>3, <1>7, <2>2, <3>1, IdleKeeps DEF Abstains
  <2>3. Sound(c)'
    <3>1. Live(c) /\ InRoom(c) /\ coming[c] # <<>> /\ peerOf[c] # NoId
      <4>1. Live(c) /\ InRoom(c) /\ coming[c] # <<>>
        BY <1>1, ReceivedFrame
      <4>2. peerOf[c] # NoId
        BY <4>1, FallbackConstants DEF Live, ElectInv, TypeOK, Given, NoId
      <4> QED
        BY <4>1, <4>2
    <3>2. /\ Live(c)' /\ InRoom(c)' /\ Own(c)' = Own(c) /\ Given' = Given /\ Genuine' = Genuine
          /\ OthersClaim(c)' <=> OthersClaim(c)
      BY <1>1, <1>7, <3>1
      DEF Live, InRoom, Own, Given, Genuine, OthersClaim, QuietRelay, connVars, Abstains
    <3>3. /\ Sound(c) /\ coming'[c] = q[c] /\ peers'[c] = peers[c] /\ board' = board
          /\ hostId'[c] = hostId[c] /\ serverElects'[c] /\ claims'[c] = cls /\ copy'[c] = m.claim
          /\ vote'[c] = vote[c]
      BY <1>1, <1>7 DEF ElectInv, TypeOK, Abstains
    <3>4. WillKnow(q[c], hostId[c], role) \/ relay # "modern" \/ role = NoId
      BY <1>1, <1>3, <3>1, TakenSound DEF Naming
    <3>5. SocketSound(c)' /\ Greeting(c)' /\ NoVoteNoHost(c)' /\ HostNamed(c)'
      BY <1>1, <1>5, <3>1, <3>2, <3>3, <3>4
      DEF Sound, SocketSound, Greeting, NoVoteNoHost, HostNamed, Found, QuietRelay, connVars
    <3>6. Departures(c)'
      BY <1>1, <1>5, <3>1, <3>2, <3>3 DEF Departures, Found, QuietRelay
    <3>7. ClaimsSound(c)' /\ Mirrors(c)' /\ FairVote(c)'
      BY <1>1, <1>5, <3>1, <3>2, <3>3 DEF ClaimsSound, Mirrors, FairVote, Found, QuietRelay
    <3> QED
      BY <3>5, <3>6, <3>7 DEF Sound
  <2> QED
    BY <1>1, <2>1, <2>2, <2>3, QuietFollows DEF Keeps
<1> QED
  BY <1>6, <1>7, ClaimElects DEF q, cls

LEMMA ReceivedHelloKeeps ==
  ASSUME ElectInv, TypeOK', NEW c \in Clients, Receive(c), ReceiveHello(c, Head(coming[c]))
  PROVE  Keeps
<1> DEFINE m == Head(coming[c])
           q == Tail(coming[c])
<1>1. /\ Live(c) /\ ~InRoom(c) /\ coming[c] # <<>> /\ m \in Frames /\ m = coming[c][1]
      /\ sock[c] = "open" /\ connected[c] /\ m.type = "HELLO" /\ 1 \in DOMAIN coming[c]
  <2>1. m.type = "HELLO"
    BY DEF ReceiveHello
  <2> QED
    BY <2>1, ReceivedFrame
<1>2. Sound(c) /\ peerOf[c] # NoId /\ selfId[c] # peerOf[c]
  BY <1>1, FallbackConstants DEF InRoom, Live, ElectInv, TypeOK, Given, NoId
<1>3. m.from = relay /\ m.id = peerOf[c] /\ peers[c] = {} /\ vote[c] \in {"none", "early"}
  BY <1>1, <1>2 DEF Sound, Greeting, Greets
<1>4. /\ UNCHANGED <<relay, room, lastId, role, peerOf, joinedAt, board, claims, copy, vote>>
      /\ coming' = [coming EXCEPT ![c] = Tail(@)]
  BY DEF Receive, ReceiveHello
<1>5. coming'[c] = q /\ \A d \in Clients \ {c} : coming'[d] = coming[d]
  BY <1>4 DEF ElectInv, TypeOK
<1>6. /\ \A i \in DOMAIN q : q[i].type # "HELLO"
      /\ \A i \in DOMAIN q : q[i].type = "LEAVE" => q[i].id \notin room
      /\ \A i \in DOMAIN q : q[i].type = "STATE" => q[i].claim \in Genuine /\ q[i].claim.id # peerOf[c]
      /\ \A i \in DOMAIN q : \A id \in Given : Brings(q[i], id) => id \in room \/ Leaves(q, i, id)
      /\ \A id \in Given : Brings(m, id) => id \in room \/ Leaves(q, 0, id)
      /\ OthersClaim(c) => WillHold(q, copy[c], board)
      /\ relay = "modern" /\ role # NoId => WillKnow(q, m.host, role)
      /\ Silent(q, 0) => Silent(coming[c], 0)
  BY <1>1, TakenSound DEF Naming, Named
<1>7. \/ /\ HelloRefused(c)
         /\ UNCHANGED <<selfId, peers, serverElects, deadline, hostId>>
      \/ /\ m.from # "incompatible"
         /\ SessionEstablished(c)
         /\ selfId' = [selfId EXCEPT ![c] = m.id]
         /\ peers' = [peers EXCEPT ![c] = @ \cup m.peers]
         /\ \/ m.from = "modern" /\ HostKnown(c, m.host)
            \/ /\ m.from = "legacy"
               /\ deadline' = [deadline EXCEPT ![c] = ArmsDeadline(c)]
               /\ UNCHANGED <<serverElects, hostId>>
  BY DEF ReceiveHello
<1> HIDE DEF m, q
<1>8. CASE HelloRefused(c) /\ UNCHANGED <<selfId, peers, serverElects, deadline, hostId>>
  <2>1. QuietRelay(c)
    BY <1>4, <1>8 DEF QuietRelay
  <2>2. ASSUME NEW d \in Clients, d # c PROVE Sound(d)'
    <3>1. Untouched(d)
      BY <1>4, <1>8, <2>2 DEF Untouched, HelloRefused, NoteFatal, ElectInv, TypeOK, ConnTypeOK
    <3> QED
      BY <1>4, <1>5, <2>1, <2>2, <3>1, IdleKeeps
  <2>3. Sound(c)'
    <3>1. sock'[c] = "closing" /\ closing'[c] /\ connected'[c]
      BY <1>1, <1>8 DEF HelloRefused, NoteFatal, ElectInv, TypeOK, ConnTypeOK
    <3>2. ~Live(c)'
      BY <3>1 DEF Live
    <3>3. SocketSound(c)'
      BY <1>1, <1>2, <1>4, <1>8, <3>1 DEF Sound, SocketSound
    <3>4. Departures(c)' /\ ClaimsSound(c)'
      BY <1>2, <1>4, <1>5, <1>6, <2>1, <3>2, QuietFollows DEF Sound, Departures, ClaimsSound
    <3> QED
      BY <3>1, <3>2, <3>3, <3>4 DEF Sound, Greeting, NoVoteNoHost, HostNamed, Mirrors, FairVote
  <2> QED
    BY <1>4, <2>1, <2>2, <2>3, QuietFollows DEF Keeps, ElectInv
<1>9. ASSUME m.from # "incompatible",
             SessionEstablished(c),
             selfId' = [selfId EXCEPT ![c] = m.id],
             peers' = [peers EXCEPT ![c] = @ \cup m.peers],
             \/ m.from = "modern" /\ HostKnown(c, m.host)
             \/ /\ m.from = "legacy"
                /\ deadline' = [deadline EXCEPT ![c] = ArmsDeadline(c)]
                /\ UNCHANGED <<serverElects, hostId>>
      PROVE  Keeps
  <2>1. selfId'[c] = peerOf[c] /\ peers'[c] = m.peers /\ \A d \in Clients \ {c} : selfId'[d] = selfId[d]
    BY <1>3, <1>9 DEF ElectInv, TypeOK
  <2>2. QuietRelay(c)
    BY <1>4, <2>1 DEF QuietRelay
  <2>3. ASSUME NEW d \in Clients, d # c PROVE Sound(d)'
    <3>1. hostId'[d] = hostId[d] /\ serverElects'[d] = serverElects[d] /\ deadline'[d] = deadline[d]
      BY <1>9, <2>3 DEF HostKnown, ElectInv, TypeOK
    <3>2. Untouched(d)
      BY <1>4, <1>9, <2>3, <3>1 DEF Untouched, SessionEstablished, ElectInv, TypeOK
    <3> QED
      BY <1>4, <1>5, <2>2, <2>3, <3>2, IdleKeeps
  <2>4. Sound(c)'
    <3>1. /\ sock'[c] = "open" /\ connected'[c] /\ closing'[c] = closing[c] /\ peerOf'[c] = peerOf[c]
          /\ Live(c)' /\ InRoom(c)'
      BY <1>1, <1>4, <1>9, <2>1 DEF SessionEstablished, Live, InRoom
    <3>2. relay = "modern" => serverElects'[c] /\ hostId'[c] = m.host
      BY <1>3, <1>9 DEF HostKnown, ElectInv, TypeOK
    <3>3. relay # "modern" =>
            /\ serverElects'[c] = serverElects[c] /\ hostId'[c] = hostId[c]
            /\ ~serverElects[c] => deadline'[c]
      BY <1>3, <1>9 DEF ArmsDeadline, ElectInv, TypeOK
    <3>4. SocketSound(c)'
      BY <1>1, <1>2, <1>4, <3>1 DEF Sound, SocketSound
    <3>5. Greeting(c)'
      BY <1>3, <1>4, <1>5, <1>6, <1>9, <3>1, <3>2, <3>3 DEF Greeting
    <3>6. NoVoteNoHost(c)' /\ HostNamed(c)'
      BY <1>2, <1>4, <1>5, <1>6, <3>1, <3>2, <3>3 DEF Sound, NoVoteNoHost, HostNamed
    <3>7. Departures(c)'
      <4>1. m.peers \subseteq Given /\ \A id \in m.peers : Brings(m, id)
        BY <1>1 DEF Frames, Brings
      <4>2. \A id \in m.peers : id \in room \/ Leaves(q, 0, id)
        BY <1>6, <4>1
      <4>3. vote'[c] \notin {"fair", "blind"} /\ Given' = Given
        BY <1>3, <1>4 DEF Given
      <4> QED
        BY <1>4, <1>5, <1>6, <2>1, <4>2, <4>3 DEF Departures
    <3>8. ClaimsSound(c)'
      BY <1>2, <1>4, <1>5, <1>6, <2>2, QuietFollows DEF Sound, ClaimsSound
    <3>9. Mirrors(c)'
      <4>1. (OthersClaim(c)' <=> OthersClaim(c)) /\ Own(c)' = Own(c)
        BY <1>4 DEF OthersClaim, Own
      <4> QED
        BY <1>1, <1>2, <1>4, <1>5, <1>6, <4>1 DEF Sound, Mirrors
    <3>10. FairVote(c)'
      BY <1>3, <1>4 DEF FairVote
    <3> QED
      BY <3>4, <3>5, <3>6, <3>7, <3>8, <3>9, <3>10 DEF Sound
  <2> QED
    BY <1>4, <2>2, <2>3, <2>4, QuietFollows DEF Keeps, ElectInv
<1> QED
  BY <1>7, <1>8, <1>9

LEMMA ReceivedHostKeeps ==
  ASSUME ElectInv, TypeOK', NEW c \in Clients, Receive(c),
         ReceiveHost(c, Head(coming[c])) \/ ReceiveJoin(c, Head(coming[c]))
  PROVE  Keeps
<1> DEFINE m == Head(coming[c])
           q == Tail(coming[c])
<1>1. /\ Live(c) /\ InRoom(c) /\ coming[c] # <<>> /\ m \in Frames
      /\ sock[c] = "open" /\ connected[c] /\ m.type \in {"HOST", "JOIN"}
  <2>1. m.type \in {"HOST", "JOIN"}
    BY DEF ReceiveHost, ReceiveJoin
  <2> QED
    BY <2>1, ReceivedFrame
<1>2. Sound(c) /\ peerOf[c] # NoId
  BY <1>1, FallbackConstants DEF Live, ElectInv, TypeOK, Given, NoId
<1>3. /\ UNCHANGED <<relay, room, lastId, role, peerOf, joinedAt, connVars, board, selfId, claims, copy, vote>>
      /\ coming' = [coming EXCEPT ![c] = Tail(@)]
  BY DEF Receive, ReceiveHost, ReceiveJoin
<1>4. coming'[c] = q /\ \A d \in Clients \ {c} : coming'[d] = coming[d]
  BY <1>3 DEF ElectInv, TypeOK
<1>5. /\ \A i \in DOMAIN q : q[i].type # "HELLO"
      /\ \A i \in DOMAIN q : q[i].type = "LEAVE" => q[i].id \notin room
      /\ \A i \in DOMAIN q : q[i].type = "STATE" => q[i].claim \in Genuine /\ q[i].claim.id # peerOf[c]
      /\ \A i \in DOMAIN q : \A id \in Given : Brings(q[i], id) => id \in room \/ Leaves(q, i, id)
      /\ \A id \in Given : Brings(m, id) => id \in room \/ Leaves(q, 0, id)
      /\ \A id : id \in room \/ Leaves(coming[c], 0, id) => id \in room \/ Leaves(q, 0, id)
      /\ OthersClaim(c) => WillHold(q, copy[c], board)
      /\ Silent(q, 0) => Silent(coming[c], 0)
  <2>1. \A id : m # LeaveMsg(id)
    BY <1>1 DEF LeaveMsg
  <2>2. m.type # "STATE"
    BY <1>1
  <2> QED
    BY <1>1, <2>1, <2>2, TakenSound
<1>6. relay = "modern" /\ role # NoId =>
        WillKnow(q, IF m.type = "HOST" THEN m.id ELSE hostId[c], role)
  BY <1>1, TakenSound DEF Naming, Named
<1>7. QuietRelay(c)
  BY <1>3 DEF QuietRelay
<1>8. /\ m.type = "HOST" => /\ serverElects'[c] /\ hostId'[c] = m.id /\ peers'[c] = peers[c]
      /\ m.type = "JOIN" => /\ serverElects'[c] = serverElects[c] /\ hostId'[c] = hostId[c]
                            /\ deadline'[c] = deadline[c] /\ peers'[c] = peers[c] \cup {m.id}
      /\ \A d \in Clients \ {c} : /\ hostId'[d] = hostId[d] /\ serverElects'[d] = serverElects[d]
                                  /\ deadline'[d] = deadline[d] /\ peers'[d] = peers[d]
  <2>1. CASE ReceiveHost(c, m)
    <3>1. m.type = "HOST" /\ HostKnown(c, m.id) /\ UNCHANGED peers
      BY <2>1 DEF ReceiveHost
    <3> HIDE DEF m
    <3> QED
      BY <3>1 DEF HostKnown, ElectInv, TypeOK
  <2>2. CASE ReceiveJoin(c, m)
    <3>1. /\ m.type = "JOIN" /\ peers' = [peers EXCEPT ![c] = @ \cup {m.id}]
          /\ UNCHANGED <<serverElects, deadline, hostId>>
      BY <2>2 DEF ReceiveJoin
    <3> HIDE DEF m
    <3> QED
      BY <3>1 DEF ElectInv, TypeOK
  <2> QED
    BY <2>1, <2>2
<1> HIDE DEF m, q
<1>9. ASSUME NEW d \in Clients, d # c PROVE Sound(d)'
  <2>1. Untouched(d)
    BY <1>3, <1>8, <1>9 DEF Untouched, connVars
  <2> QED
    BY <1>3, <1>4, <1>7, <1>9, <2>1, IdleKeeps
<1>10. Sound(c)'
  <2>1. /\ Live(c)' /\ InRoom(c)' /\ Own(c)' = Own(c) /\ Given' = Given /\ Genuine' = Genuine
        /\ OthersClaim(c)' <=> OthersClaim(c)
    BY <1>1, <1>3 DEF Live, InRoom, Own, Given, Genuine, OthersClaim, connVars
  <2>2. SocketSound(c)'
    BY <1>1, <1>2, <1>3 DEF Sound, SocketSound, connVars
  <2>3. Greeting(c)' /\ NoVoteNoHost(c)' /\ HostNamed(c)'
    BY <1>1, <1>2, <1>3, <1>4, <1>5, <1>6, <1>8, <2>1
    DEF Sound, Greeting, NoVoteNoHost, HostNamed, connVars
  <2>4. Departures(c)'
    <3>1. \A id \in peers'[c] : id \in room \/ Leaves(q, 0, id)
      <4>1. m.type = "JOIN" => m.id \in Given /\ Brings(m, m.id)
        BY <1>1 DEF Frames, Brings
      <4> QED
        BY <1>1, <1>2, <1>5, <1>8, <4>1 DEF Sound, Departures
    <3>2. vote[c] \in {"fair", "blind"} /\ ~serverElects'[c] => hostId'[c] \in room \/ Leaves(q, 0, hostId'[c])
      BY <1>1, <1>2, <1>5, <1>8 DEF Sound, Departures
    <3> QED
      BY <1>3, <1>4, <1>5, <2>1, <3>1, <3>2 DEF Departures
  <2>5. ClaimsSound(c)' /\ Mirrors(c)'
    BY <1>1, <1>2, <1>3, <1>4, <1>5, <2>1 DEF Sound, ClaimsSound, Mirrors
  <2>6. FairVote(c)'
    BY <1>1, <1>2, <1>3, <1>8, <2>1 DEF Sound, FairVote, Chosen
  <2> QED
    BY <2>2, <2>3, <2>4, <2>5, <2>6 DEF Sound
<1> QED
  BY <1>3, <1>7, <1>9, <1>10, QuietFollows DEF Keeps, ElectInv

\* A client that the relay does not know, or no longer, owes it nothing.
LEMMA OutsideSound ==
  ASSUME ElectInv, TypeOK', Genuine \subseteq Genuine', NEW c \in Clients,
         peerOf'[c] = NoId, coming'[c] = <<>>,
         connected'[c] <=> sock'[c] \in {"open", "closing"},
         connected'[c] => joinedAt'[c] # 0, ~connected'[c] => vote'[c] = "none",
         sock'[c] \in {"none", "connecting"} => peers'[c] = {},
         NoVoteNoHost(c)', copy'[c] \in Genuine', claims'[c] \subseteq Genuine'
  PROVE  Sound(c)'
<1>1. ~Live(c)'
  BY FallbackConstants DEF Live, TypeOK, Given, NoId
<1> QED
  BY <1>1 DEF Sound, SocketSound, Greeting, HostNamed, Departures, ClaimsSound, Mirrors, FairVote

\* A client that is not connected is unknown to the relay.
LEMMA Unconnected ==
  ASSUME ElectInv, NEW c \in Clients, sock[c] \notin {"open", "closing"}
  PROVE  /\ peerOf[c] = NoId /\ coming[c] = <<>> /\ vote[c] = "none" /\ ~connected[c]
         /\ NoVoteNoHost(c) /\ copy[c] \in Genuine /\ claims[c] \subseteq Genuine
         /\ sock[c] \in {"none", "connecting"} => peers[c] = {}
BY DEF ElectInv, Sound, SocketSound, ClaimsSound

LEMMA ReconnectKeeps ==
  ASSUME ElectInv, TypeOK', NEW c \in Clients, Join(c) \/ Retry(c)
  PROVE  Keeps
<1>1. QuietRelay(c) /\ UNCHANGED <<board, coming, selfId>>
  BY DEF Join, Retry, QuietRelay, relayVars, clientVars
<1>2. sock[c] \notin {"open", "closing"} /\ sock'[c] = "connecting"
  BY DEF Join, Retry, Open, RetryFires, ElectInv, TypeOK, ConnTypeOK, ConnInv, Consistent
<1>3. ASSUME NEW d \in Clients, d # c PROVE Sound(d)'
  <2>1. sock'[d] = sock[d] /\ peers'[d] = peers[d] /\ claims'[d] = claims[d]
    <3>1. sock' = [sock EXCEPT ![c] = "connecting"]
      BY DEF Join, Retry, Open, RetryFires
    <3>2. \/ peers' = peers /\ claims' = claims
          \/ peers' = [peers EXCEPT ![c] = {}] /\ claims' = [claims EXCEPT ![c] = {}]
      BY DEF Join, Retry, clientVars
    <3>3. /\ DOMAIN sock = Clients /\ DOMAIN peers = Clients /\ DOMAIN claims = Clients
      BY DEF ElectInv, TypeOK, ConnTypeOK
    <3>4. sock'[d] = sock[d]
      BY <1>3, <3>1, <3>3
    <3>5. peers'[d] = peers[d] /\ claims'[d] = claims[d]
      BY <1>3, <3>2, <3>3
    <3> QED
      BY <3>4, <3>5
  <2>2. UNCHANGED <<connected, closing, peerOf, hostId, serverElects, deadline, joinedAt, copy, vote>>
    BY DEF Join, Retry, Open, RetryFires, clientVars
  <2>3. Untouched(d)
    BY <1>1, <2>1, <2>2 DEF Untouched
  <2> QED
    BY <1>1, <2>3, IdleKeeps
<1>4. Sound(c)'
  <2>1. peers'[c] = {}
    BY Unconnected DEF Join, Retry, Open, clientVars, ElectInv, TypeOK
  <2>2. UNCHANGED <<connected, closing, peerOf, hostId, serverElects, joinedAt, copy, vote>>
    BY DEF Join, Retry, Open, RetryFires, clientVars
  <2>3. claims'[c] = claims[c] \/ claims'[c] = {}
    BY DEF Join, Retry, clientVars, ElectInv, TypeOK
  <2>4. Genuine \subseteq Genuine'
    BY <1>1, QuietFollows
  <2> QED
    BY <1>1, <1>2, <2>1, <2>2, <2>3, <2>4, Unconnected, OutsideSound DEF NoVoteNoHost
<1> QED
  BY <1>1, <1>3, <1>4, QuietFollows DEF Keeps, ElectInv

\* The relay is told nothing, and the client's socket is gone.
LEMMA GoneFollows ==
  ASSUME ElectInv, NEW c \in Clients, UNCHANGED <<relay, room, lastId>>,
         peerOf' = [peerOf EXCEPT ![c] = NoId], joinedAt' = [joinedAt EXCEPT ![c] = 0],
         selfId' = selfId \/ selfId' = [selfId EXCEPT ![c] = NoId]
  PROVE  WorldFollows /\ Genuine \subseteq Genuine' /\ Distinct'
<1>1. lastId \in Nat /\ \A d \in Clients : peerOf[d] \in room \cup {NoId} /\ room \subseteq 1 .. lastId
  BY FallbackConstants DEF ElectInv, TypeOK, Given
<1>2. /\ peerOf'[c] = NoId /\ \A d \in Clients \ {c} : peerOf'[d] = peerOf[d] /\ joinedAt'[d] = joinedAt[d]
      /\ \A d \in Clients \ {c} : selfId'[d] = selfId[d]
      /\ selfId'[c] \in {selfId[c], NoId}
  BY DEF ElectInv, TypeOK
<1>3. \A d \in Clients : ~Fresh(peerOf'[d])
  BY <1>1, <1>2 DEF Fresh
<1>4. WorldFollows
  BY <1>2, <1>3 DEF WorldFollows
<1> QED
  BY <1>4, GenuineStays, IdsStayDistinct DEF ElectInv

LEMMA GoneKeeps ==
  ASSUME ElectInv, TypeOK', NEW c \in Clients,
         LeaveRoom(c) \/ \E code \in {TryAgain, Permanent, Dropped} : Closed(c, code)
  PROVE  Keeps
<1>1. /\ UNCHANGED relayVars
      /\ peerOf' = [peerOf EXCEPT ![c] = NoId] /\ joinedAt' = [joinedAt EXCEPT ![c] = 0]
      /\ coming' = [coming EXCEPT ![c] = <<>>] /\ vote' = [vote EXCEPT ![c] = "none"]
      /\ selfId' = selfId \/ selfId' = [selfId EXCEPT ![c] = NoId]
  BY DEF LeaveRoom, Closed
<1>2. WorldFollows /\ Genuine \subseteq Genuine' /\ Distinct'
  BY <1>1, GoneFollows DEF relayVars
<1>3. UNCHANGED <<relay, room, lastId, board, role>>
  BY <1>1 DEF relayVars
<1>4. ASSUME NEW d \in Clients, d # c PROVE Sound(d)'
  <2>1. sock'[d] = sock[d] /\ connected'[d] = connected[d] /\ closing'[d] = closing[d]
    <3>0. ConnTypeOK
      BY DEF ElectInv, TypeOK
    <3>1. CASE LeaveRoom(c)
      BY <1>4, <3>0, <3>1 DEF LeaveRoom, Leave, Reset, ConnTypeOK
    <3>2. ASSUME NEW code, Closed(c, code)
          PROVE  sock'[d] = sock[d] /\ connected'[d] = connected[d] /\ closing'[d] = closing[d]
      <4>1. /\ sock' = [sock EXCEPT ![c] = "closed"] /\ connected' = [connected EXCEPT ![c] = FALSE]
            /\ closing' = closing \/ closing' = [closing EXCEPT ![c] = TRUE]
        BY <3>2 DEF Closed, SocketClosed, NoteFatal
      <4> QED
        BY <1>4, <3>0, <4>1 DEF ConnTypeOK
    <3> QED
      BY <3>1, <3>2
  <2>2. /\ peers'[d] = peers[d] /\ hostId'[d] = hostId[d] /\ serverElects'[d] = serverElects[d]
        /\ deadline'[d] = deadline[d] /\ claims'[d] = claims[d] /\ copy'[d] = copy[d]
    <3>1. CASE LeaveRoom(c)
      BY <1>4, <3>1 DEF LeaveRoom, ElectInv, TypeOK
    <3>2. CASE \E code \in {TryAgain, Permanent, Dropped} : Closed(c, code)
      BY <1>4, <3>2 DEF Closed, ElectInv, TypeOK
    <3> QED
      BY <3>1, <3>2
  <2>3. /\ peerOf'[d] = peerOf[d] /\ selfId'[d] = selfId[d] /\ joinedAt'[d] = joinedAt[d]
        /\ vote'[d] = vote[d] /\ coming'[d] = coming[d]
    BY <1>1, <1>4 DEF ElectInv, TypeOK
  <2> QED
    BY <1>2, <1>3, <2>1, <2>2, <2>3, UnheardKeeps DEF Untouched
<1>5. Sound(c)'
  <2>1. peerOf'[c] = NoId /\ coming'[c] = <<>> /\ vote'[c] = "none"
    BY <1>1 DEF ElectInv, TypeOK
  <2>2. copy[c] \in Genuine /\ claims[c] \subseteq Genuine /\ NoVoteNoHost(c)
    BY DEF ElectInv, Sound, ClaimsSound
  <2>3. CASE LeaveRoom(c)
    <3>1. /\ sock'[c] = "none" /\ ~connected'[c] /\ peers'[c] = {} /\ hostId'[c] = NoId
          /\ claims'[c] = {} /\ copy'[c] = NoClaim
      BY <2>3 DEF LeaveRoom, Leave, Reset, ElectInv, TypeOK, ConnTypeOK
    <3>2. NoClaim \in Genuine'
      BY FallbackConstants DEF Genuine, NoClaim, NoId, TypeOK
    <3> QED
      BY <1>2, <2>1, <3>1, <3>2, OutsideSound DEF NoVoteNoHost
  <2>4. ASSUME NEW code, Closed(c, code) PROVE Sound(c)'
    <3>1. sock'[c] = "closed" /\ ~connected'[c] /\ copy'[c] = copy[c] /\ claims'[c] = claims[c]
      BY <2>4 DEF Closed, SocketClosed, ElectInv, TypeOK, ConnTypeOK
    <3>2. NoVoteNoHost(c)'
      <4>1. CASE LosesHost(c, code)
        BY <2>4, <4>1 DEF Closed, NoVoteNoHost, ElectInv, TypeOK
      <4>2. CASE ~LosesHost(c, code)
        <5>1. closing'[c]
          BY <2>4, <4>2 DEF Closed, LosesHost, SocketClosed, NoteFatal
        <5> QED
          BY <5>1 DEF NoVoteNoHost
      <4> QED
        BY <4>1, <4>2
    <3> QED
      BY <1>2, <2>1, <2>2, <3>1, <3>2, OutsideSound
  <2> QED
    BY <2>3, <2>4
<1> QED
  BY <1>2, <1>3, <1>4, <1>5 DEF Keeps, ElectInv

-----------------------------------------------------------------------------
(* Silences, and what the relay does on its own.                             *)

\* Nothing changes but the roster of a client: it loses a peer, or gains one in the room.
LEMMA RosterKeeps ==
  ASSUME ElectInv, TypeOK', NEW c \in Clients, NEW id \in Ids, Prune(c, id) \/ ReceivePose(c, id)
  PROVE  Keeps
<1>1. /\ UNCHANGED <<connVars, relay, room, lastId, board, role, peerOf, coming, selfId, hostId,
                     serverElects, deadline, joinedAt, claims, copy, vote>>
      /\ \A d \in Clients \ {c} : peers'[d] = peers[d]
      /\ \A i \in peers'[c] : i \in peers[c] \/ i \in room
      /\ connected[c] /\ (Live(c) /\ ~InRoom(c) => peers'[c] \subseteq peers[c])
  <2>0. Sound(c) /\ peers \in [Clients -> SUBSET Given]
    BY DEF ElectInv, TypeOK
  <2>1. CASE Prune(c, id)
    BY <2>0, <2>1 DEF Prune
  <2>2. CASE ReceivePose(c, id)
    <3>1. connected[c] /\ id \in room /\ InRoom(c)
      BY <2>0, <2>2 DEF ReceivePose, InRoom, Live, Sound, SocketSound
    <3> QED
      BY <2>0, <2>2, <3>1 DEF ReceivePose, relayVars
  <2> QED
    BY <2>1, <2>2
<1>2. QuietRelay(c) /\ Sound(c)
  BY <1>1 DEF QuietRelay, ElectInv
<1>3. ASSUME NEW d \in Clients, d # c PROVE Sound(d)'
  BY <1>1, <1>2, <1>3, IdleKeeps DEF Untouched, connVars
<1>4. Sound(c)'
  <2>1. /\ (Live(c)' <=> Live(c)) /\ (InRoom(c)' <=> InRoom(c)) /\ Own(c)' = Own(c)
        /\ Given' = Given /\ Genuine' = Genuine /\ (OthersClaim(c)' <=> OthersClaim(c))
    BY <1>1 DEF Live, InRoom, Own, Given, Genuine, OthersClaim, connVars
  <2>2. SocketSound(c)'
    BY <1>1, <1>2 DEF Sound, SocketSound, connVars
  <2>3. Greeting(c)' /\ NoVoteNoHost(c)' /\ HostNamed(c)'
    BY <1>1, <1>2, <2>1 DEF Sound, Greeting, Greets, NoVoteNoHost, HostNamed, connVars
  <2>4. Departures(c)'
    BY <1>1, <1>2, <2>1 DEF Sound, Departures
  <2>5. ClaimsSound(c)' /\ Mirrors(c)'
    BY <1>1, <1>2, <2>1 DEF Sound, ClaimsSound, Mirrors
  <2>6. FairVote(c)'
    BY <1>1, <1>2, <2>1 DEF Sound, FairVote, Chosen
  <2> QED
    BY <2>2, <2>3, <2>4, <2>5, <2>6 DEF Sound
<1> QED
  BY <1>1, <1>2, <1>3, <1>4, QuietFollows DEF Keeps, ElectInv

LEMMA NoClaimIsGenuine == ASSUME TypeOK' PROVE NoClaim \in Genuine'
BY FallbackConstants DEF Genuine, NoClaim, NoId, TypeOK

\* The relay takes a dead socket's peer out of the room, or gives the role away.
LEMMA RelayKeeps ==
  ASSUME ElectInv, TypeOK', NEW id \in Ids, Reap(id) \/ Promote(id)
  PROVE  Keeps
<1> DEFINE m == IF Reap(id) THEN LeaveMsg(id) ELSE HostMsg(id)
<1>1. /\ UNCHANGED <<connVars, relay, lastId, peerOf, clientVars>> /\ room' \subseteq room /\ id \in room
      /\ \A d \in Clients : peerOf[d] \in room => peerOf[d] \in room'
  BY DEF Reap, Promote
<1>2. lastId \in Nat /\ room \subseteq 1 .. lastId /\ \A d \in Clients : peerOf[d] \in room \cup {NoId}
  BY FallbackConstants DEF ElectInv, TypeOK, Given
<1>3. WorldFollows
  <2>1. \A d \in Clients : ~Fresh(peerOf'[d])
    BY <1>1, <1>2 DEF Fresh
  <2> QED
    BY <1>1, <2>1 DEF WorldFollows, clientVars
<1>4. Genuine \subseteq Genuine' /\ Distinct'
  BY <1>3, GenuineStays, IdsStayDistinct DEF ElectInv
<1>5. board' = NoClaim \/ board' = board
  BY DEF Reap, Promote
<1>6. ASSUME NEW d \in Clients PROVE Sound(d)'
  <2>1. Untouched(d)
    BY <1>1 DEF Untouched, connVars, clientVars
  <2>2. CASE peerOf[d] \notin room
    <3>1. coming'[d] = coming[d]
      BY <2>2, SentTyped DEF Reap, Promote, Sent
    <3>2. coming[d] \o <<>> = coming[d] /\ <<>> \in Seq(Frames')
      <4>1. coming[d] \in Seq(Frames)
        BY DEF ElectInv, TypeOK
      <4> HIDE DEF Frames
      <4> QED
        BY <4>1
    <3>3. Bystander(d, <<>>)
      BY <2>1, <2>2, <3>1, <3>2 DEF Bystander, Live
    <3> QED
      BY <1>3, <3>3, BystanderKeeps
  <2>3. CASE peerOf[d] \in room
    <3>1. m \in Frames'
      BY <1>1, <1>2 DEF LeaveMsg, HostMsg, Frames, Given
    <3>2. coming' = Sent({c \in Clients : peerOf[c] \in room}, <<m>>)
      BY DEF Reap, Promote
    <3>3. coming'[d] = coming[d] \o <<m>>
      BY <2>3, <3>2 DEF Sent
    <3>4. <<m>> \in Seq(Frames') /\ DOMAIN <<m>> = {1} /\ <<m>>[1] = m
      <4> HIDE DEF Frames, m
      <4> QED
        BY <3>1
    <3>5. TrueFrame(d, m) /\ peerOf[d] # NoId
      BY <1>2, <2>3 DEF TrueFrame, Reap, Promote, LeaveMsg, HostMsg, NoId
    <3>6. Told(d, <<m>>)
      <4>1. CASE Reap(id)
        <5>1. m = LeaveMsg(id) /\ board' = board /\ role' \in {role, NoId} /\ room' = room \ {id}
          BY <1>1, <2>3, <4>1 DEF Reap
        <5>2. Leaves(<<m>>, 0, id) /\ Nameless(<<m>>, 0) /\ Silent(<<m>>, 0)
          BY <3>4, <5>1 DEF Leaves, Nameless, Silent, Naming, LeaveMsg
        <5> QED
          BY <5>1, <5>2 DEF Told
      <4>2. CASE ~Reap(id)
        <5>1. m = HostMsg(id) /\ board' = board /\ role' = id /\ room' = room
          BY <4>2 DEF Promote
        <5>2. /\ Naming(<<m>>[1]) /\ Named(<<m>>[1]) = id /\ Nameless(<<m>>, 1) /\ Silent(<<m>>, 0)
          BY <3>4, <5>1 DEF Nameless, Silent, Naming, Named, HostMsg
        <5> QED
          BY <3>4, <5>1, <5>2 DEF Told
      <4> QED
        BY <4>1, <4>2
    <3>7. Bystander(d, <<m>>)
      <4> HIDE DEF m
      <4> QED
        BY <1>1, <2>1, <2>3, <3>3, <3>4, <3>5, <3>6 DEF Bystander
    <3> QED
      BY <1>3, <3>7, BystanderKeeps
  <2> QED
    BY <2>2, <2>3
<1> QED
  BY <1>4, <1>5, <1>6, NoClaimIsGenuine DEF Keeps, ElectInv

LEMMA RestartKeeps ==
  ASSUME ElectInv, TypeOK', NEW kind \in Kinds, Restart(kind)
  PROVE  Keeps
<1>1. /\ UNCHANGED <<connVars, clientVars, lastId>> /\ board' = NoClaim
      /\ \A c \in Clients : peerOf'[c] = NoId /\ coming'[c] = <<>>
  BY DEF Restart
<1>2. Genuine \subseteq Genuine' /\ Distinct'
  BY <1>1 DEF Genuine, Distinct
<1>3. ASSUME NEW c \in Clients PROVE Sound(c)'
  <2>1. SocketSound(c) /\ NoVoteNoHost(c) /\ copy[c] \in Genuine /\ claims[c] \subseteq Genuine
    BY DEF ElectInv, Sound, ClaimsSound
  <2>2. NoVoteNoHost(c)'
    BY <1>1, <2>1 DEF NoVoteNoHost, connVars, clientVars
  <2> QED
    BY <1>1, <1>2, <2>1, <2>2, OutsideSound DEF SocketSound, connVars, clientVars
<1> QED
  BY <1>1, <1>2, <1>3, NoClaimIsGenuine DEF Keeps

-----------------------------------------------------------------------------
(* The 'open' event.                                                         *)

LEMMA KnownIds ==
  ASSUME ElectInv
  PROVE  lastId \in Nat /\ room \subseteq 1 .. lastId /\ \A d \in Clients : peerOf[d] \in 0 .. lastId
<1>1. lastId \in Nat /\ room \subseteq 1 .. lastId
  BY FallbackConstants DEF ElectInv, TypeOK, Given
<1>2. \A d \in Clients : peerOf[d] \in room \cup {NoId}
  BY DEF ElectInv, TypeOK
<1>3. room \cup {NoId} \subseteq 0 .. lastId
  BY <1>1 DEF NoId
<1> QED
  BY <1>1, <1>2, <1>3

LEMMA LiveHasId ==
  ASSUME ElectInv, NEW c \in Clients, Live(c)
  PROVE  peerOf[c] # NoId
BY KnownIds DEF Live, NoId

\* What it does to the client, whatever the relay does.
LEMMA OpenedClient ==
  ASSUME ElectInv, NEW c \in Clients, NEW t \in 1 .. MaxClock, Opened(c, t)
  PROVE  /\ UNCHANGED <<selfId, peers, hostId, serverElects, deadline, claims, copy, vote>>
         /\ sock[c] = "connecting" /\ sock'[c] = "open" /\ connected'[c] /\ ~closing'[c]
         /\ joinedAt'[c] # 0 /\ joinedAt'[c] = t
         /\ \A d \in Clients \ {c} : /\ sock'[d] = sock[d] /\ connected'[d] = connected[d]
                                     /\ closing'[d] = closing[d] /\ joinedAt'[d] = joinedAt[d]
         /\ peerOf[c] = NoId /\ coming[c] = <<>> /\ vote[c] = "none" /\ peers[c] = {}
         /\ copy[c] \in Genuine /\ claims[c] \subseteq Genuine
         /\ NoVoteNoHost(c)' /\ (serverElects[c] \/ hostId[c] = NoId)
<1>1. /\ sock[c] = "connecting" /\ sock' = [sock EXCEPT ![c] = "open"]
      /\ connected' = [connected EXCEPT ![c] = TRUE] /\ closing' = [closing EXCEPT ![c] = FALSE]
      /\ joinedAt' = [joinedAt EXCEPT ![c] = t]
      /\ UNCHANGED <<selfId, peers, hostId, serverElects, deadline, claims, copy, vote>>
  BY DEF Opened, SocketOpened
<1>2. /\ DOMAIN sock = Clients /\ DOMAIN connected = Clients /\ DOMAIN closing = Clients
      /\ DOMAIN joinedAt = Clients
  BY DEF ElectInv, TypeOK, ConnTypeOK
<1>3. ~closing[c]
  BY <1>1 DEF ElectInv, ConnInv, Consistent
<1>4. /\ peerOf[c] = NoId /\ coming[c] = <<>> /\ vote[c] = "none" /\ peers[c] = {}
      /\ NoVoteNoHost(c) /\ copy[c] \in Genuine /\ claims[c] \subseteq Genuine
  BY <1>1, Unconnected
<1>5. /\ sock'[c] = "open" /\ connected'[c] /\ ~closing'[c] /\ joinedAt'[c] = t /\ t # 0
      /\ \A d \in Clients \ {c} : /\ sock'[d] = sock[d] /\ connected'[d] = connected[d]
                                  /\ closing'[d] = closing[d] /\ joinedAt'[d] = joinedAt[d]
  BY <1>1, <1>2
<1>6. serverElects[c] \/ hostId[c] = NoId
  BY <1>3, <1>4 DEF NoVoteNoHost
<1> QED
  BY <1>1, <1>4, <1>5, <1>6 DEF NoVoteNoHost

LEMMA RefusedKeeps ==
  ASSUME ElectInv, TypeOK', NEW c \in Clients, NEW t \in 1 .. MaxClock, Opened(c, t),
         UNCHANGED <<relayVars, peerOf, coming>>
  PROVE  Keeps
<1>1. UNCHANGED <<relay, room, lastId, board, role, peerOf, coming>>
  BY DEF relayVars
<1>2. lastId \in Nat /\ \A d \in Clients : peerOf[d] \in 0 .. lastId
  BY KnownIds
<1>3. \A d \in Clients : ~Fresh(peerOf'[d])
  BY <1>1, <1>2 DEF Fresh
<1>4. WorldFollows
  BY <1>1, <1>3, OpenedClient DEF WorldFollows
<1>5. Genuine \subseteq Genuine' /\ Distinct'
  BY <1>4, GenuineStays, IdsStayDistinct DEF ElectInv
<1>6. ASSUME NEW d \in Clients, d # c PROVE Sound(d)'
  BY <1>1, <1>4, <1>6, OpenedClient, UnheardKeeps DEF Untouched
<1>7. Sound(c)'
  BY <1>1, <1>5, OpenedClient, OutsideSound
<1> QED
  BY <1>1, <1>5, <1>6, <1>7 DEF Keeps, ElectInv

\* A newcomer's id is nobody's yet.
LEMMA AdmittedFollows ==
  ASSUME ElectInv, NEW c \in Clients, NEW t \in 1 .. MaxClock, Opened(c, t),
         NEW id \in Ids, Admitted(c, id)
  PROVE  /\ WorldFollows /\ Genuine \subseteq Genuine' /\ Distinct'
         /\ peerOf'[c] = id /\ \A d \in Clients \ {c} : peerOf'[d] = peerOf[d]
         /\ id # NoId /\ id \in room' /\ room \subseteq room' /\ id \notin 0 .. lastId
<1>1. lastId \in Nat /\ \A d \in Clients : peerOf[d] \in 0 .. lastId
  BY KnownIds
<1>2. /\ id = lastId + 1 /\ lastId' = id /\ room' = room \cup {id} /\ relay' = relay
      /\ peerOf'[c] = id /\ \A d \in Clients \ {c} : peerOf'[d] = peerOf[d]
  BY DEF Admitted, ElectInv, TypeOK
<1>3. \A d \in Clients \ {c} : ~Fresh(peerOf'[d])
  BY <1>1, <1>2 DEF Fresh
<1>4. Fresh(id) /\ id # NoId /\ id \notin 0 .. lastId
  BY <1>1, <1>2 DEF Fresh, NoId
<1>5. peerOf[c] = NoId
  BY OpenedClient
<1>6. WorldFollows
  <2>1. \A d, e \in Clients : Fresh(peerOf'[d]) /\ Fresh(peerOf'[e]) => d = e
    BY <1>3
  <2>2. \A d \in Clients \ {c} : joinedAt'[d] = joinedAt[d]
    BY OpenedClient
  <2>3. selfId' = selfId
    BY OpenedClient
  <2> QED
    BY <1>2, <1>4, <1>5, <2>1, <2>2, <2>3 DEF WorldFollows
<1> QED
  BY <1>2, <1>4, <1>6, GenuineStays, IdsStayDistinct DEF ElectInv

\* The others hear that it came, and that it has the role if it was given to it.
LEMMA AdmittedOthers ==
  ASSUME ElectInv, TypeOK', NEW c \in Clients, NEW t \in 1 .. MaxClock, Opened(c, t),
         NEW id \in Ids, Admitted(c, id), NEW d \in Clients, d # c
  PROVE  Sound(d)'
<1> DEFINE news == IF role' # role THEN <<HostMsg(id), JoinMsg(id)>> ELSE <<JoinMsg(id)>>
<1>1. Untouched(d)
  BY OpenedClient, AdmittedFollows DEF Untouched
<1>2. board' = board /\ (role' = role \/ role' = id)
  BY DEF Admitted
<1>3. coming'[d] = Sent({e \in Clients : peerOf[e] \in room}, news)[d]
  <2> HIDE DEF news
  <2> QED
    BY DEF Admitted, Sent, news
<1>4. CASE peerOf[d] \notin room
  <2>1. coming'[d] = coming[d]
    BY <1>3, <1>4 DEF Sent
  <2>2. coming[d] \o <<>> = coming[d] /\ <<>> \in Seq(Frames')
    <3>1. coming[d] \in Seq(Frames)
      BY DEF ElectInv, TypeOK
    <3> HIDE DEF Frames
    <3> QED
      BY <3>1
  <2>3. Bystander(d, <<>>)
    BY <1>1, <1>4, <2>1, <2>2 DEF Bystander, Live
  <2> QED
    BY <2>3, AdmittedFollows, BystanderKeeps
<1>5. CASE peerOf[d] \in room
  <2>1. coming'[d] = coming[d] \o news
    BY <1>3, <1>5 DEF Sent
  <2>2. HostMsg(id) \in Frames' /\ JoinMsg(id) \in Frames'
    <3>1. id \in Given'
      BY AdmittedFollows DEF TypeOK
    <3> QED
      BY <3>1 DEF HostMsg, JoinMsg, Frames
  <2>3. /\ news \in Seq(Frames')
        /\ \A k \in DOMAIN news : k \in Nat /\ news[k] \in {JoinMsg(id), HostMsg(id)}
        /\ role' # role => 1 \in DOMAIN news /\ news[1] = HostMsg(id)
        /\ \A k \in DOMAIN news : role' = role => news[k] = JoinMsg(id)
        /\ \A k \in DOMAIN news : k > 1 => news[k] = JoinMsg(id)
    <3>1. CASE role' # role
      <4> HIDE DEF Frames
      <4> QED
        BY <1>2, <2>2, <3>1
    <3>2. CASE role' = role
      <4> HIDE DEF Frames
      <4> QED
        BY <2>2, <3>2
    <3> QED
      BY <3>1, <3>2
  <2> HIDE DEF news
  <2>4. \A k \in DOMAIN news : TrueFrame(d, news[k])
    BY <2>3, AdmittedFollows DEF TrueFrame, HostMsg, JoinMsg
  <2>5. Told(d, news)
    <3>1. Silent(news, 0)
      BY <2>3 DEF Silent, HostMsg, JoinMsg
    <3>2. role' = role => Nameless(news, 0)
      BY <2>3 DEF Nameless, Naming, JoinMsg
    <3>3. role' # role => 1 \in DOMAIN news /\ Naming(news[1]) /\ Named(news[1]) = role' /\ Nameless(news, 1)
      BY <1>2, <2>3 DEF Nameless, Naming, Named, JoinMsg, HostMsg
    <3> QED
      BY <1>2, <3>1, <3>2, <3>3, AdmittedFollows DEF Told
  <2>6. peerOf[d] # NoId
    BY <1>5, FallbackConstants DEF ElectInv, TypeOK, Given, NoId
  <2>7. Bystander(d, news)
    BY <1>1, <1>5, <2>1, <2>3, <2>4, <2>5, <2>6, AdmittedFollows DEF Bystander
  <2> QED
    BY <2>7, AdmittedFollows, BystanderKeeps
<1> QED
  BY <1>4, <1>5

LEMMA OneAndOne ==
  ASSUME NEW a, NEW b
  PROVE  LET q == <<a>> \o <<b>>
         IN /\ 1 \in DOMAIN q /\ q[1] = a /\ 2 \in DOMAIN q /\ q[2] = b
            /\ \A i \in DOMAIN q : i = 1 \/ i = 2
<1>1. <<a>> \o <<b>> = Append(<<a>>, b)
  OBVIOUS
<1> QED
  BY <1>1

\* The newcomer: its HELLO first, and the board behind it if there is a claim.
LEMMA AdmittedNewcomer ==
  ASSUME ElectInv, TypeOK', NEW c \in Clients, NEW t \in 1 .. MaxClock, Opened(c, t),
         NEW id \in Ids, Admitted(c, id)
  PROVE  Sound(c)'
<1> DEFINE h == Hello(relay, id, room, role')
           q == coming'[c]
<1>1. /\ peerOf'[c] = id /\ id \in room' /\ id # NoId /\ room \subseteq room' /\ id \notin 0 .. lastId
      /\ Genuine \subseteq Genuine'
  BY AdmittedFollows
<1>2. /\ UNCHANGED <<selfId, peers, hostId, serverElects, deadline, claims, copy, vote>>
      /\ sock'[c] = "open" /\ connected'[c] /\ joinedAt'[c] # 0
      /\ vote[c] = "none" /\ peers[c] = {} /\ copy[c] \in Genuine /\ claims[c] \subseteq Genuine
      /\ NoVoteNoHost(c)'
  BY OpenedClient
<1>3. selfId[c] \in 0 .. lastId /\ copy[c].id \in 0 .. lastId /\ board \in Genuine /\ board.id \in 0 .. lastId
  BY <1>2 DEF ElectInv, TypeOK, Genuine
<1>4. relay' = relay /\ board' = board
  BY DEF Admitted
<1>5. /\ 1 \in DOMAIN q /\ q[1] = h
      /\ board # NoClaim => 2 \in DOMAIN q /\ q[2] = ClaimMsg(board)
      /\ \A i \in DOMAIN q : i = 1 \/ (i = 2 /\ board # NoClaim)
  <2> HIDE DEF h
  <2>1. q = <<h>> \o (IF board = NoClaim THEN <<>> ELSE <<ClaimMsg(board)>>)
    BY DEF Admitted, ElectInv, TypeOK, Sent, h
  <2>2. CASE board = NoClaim
    <3>1. q = <<h>>
      BY <2>1, <2>2
    <3> HIDE DEF q
    <3> QED
      BY <2>2, <3>1
  <2>3. CASE board # NoClaim
    <3> DEFINE s == ClaimMsg(board)
    <3>0. q = <<h>> \o <<s>>
      BY <2>1, <2>3
    <3> HIDE DEF s
    <3>1. /\ 1 \in DOMAIN q /\ q[1] = h /\ 2 \in DOMAIN q /\ q[2] = s
          /\ \A i \in DOMAIN q : i = 1 \/ i = 2
      BY <3>0, OneAndOne
    <3> QED
      BY <2>3, <3>1 DEF s
  <2> QED
    BY <2>2, <2>3
<1>6. /\ h.type = "HELLO" /\ h.from = relay /\ h.id = id /\ h.peers = room /\ h.host = role'
      /\ ClaimMsg(board).type = "STATE" /\ ClaimMsg(board).claim = board
  BY DEF Hello, ClaimMsg
<1>7. Live(c)' /\ ~InRoom(c)' /\ Own(c)'.id = id
  BY <1>1, <1>2, <1>3 DEF Live, InRoom, Own
<1> HIDE DEF h
<1>8. SocketSound(c)'
  BY <1>1, <1>2, <1>3 DEF SocketSound
<1>9. Greeting(c)'
  <2>1. q # <<>>
    BY <1>5
  <2> QED
    BY <1>1, <1>2, <1>4, <1>5, <1>6, <1>7, <2>1 DEF Greeting, Greets
<1>10. HostNamed(c)'
  <2>1. Nameless(q, 1) /\ Naming(q[1]) /\ Named(q[1]) = role'
    BY <1>5, <1>6 DEF Nameless, Naming, Named
  <2> QED
    BY <1>5, <2>1 DEF HostNamed, WillKnow
<1>11. Departures(c)'
  <2>1. \A i \in DOMAIN q : q[i].type # "LEAVE"
    BY <1>5, <1>6
  <2>2. \A i \in DOMAIN q : \A n : Brings(q[i], n) => n \in room'
    BY <1>1, <1>5, <1>6 DEF Brings
  <2> QED
    BY <1>2, <2>1, <2>2 DEF Departures
<1>12. ClaimsSound(c)'
  <2>1. \A i \in DOMAIN q : q[i].type = "STATE" => q[i].claim \in Genuine' /\ q[i].claim.id # id
    BY <1>1, <1>3, <1>5, <1>6
  <2> QED
    BY <1>1, <1>2, <2>1 DEF ClaimsSound
<1>13. Mirrors(c)'
  <2>1. board # NoClaim => WillHold(q, copy'[c], board)
    <3> SUFFICES ASSUME board # NoClaim PROVE WillHold(q, copy'[c], board)
      OBVIOUS
    <3>1. Silent(q, 2)
      BY <1>5 DEF Silent
    <3> QED
      BY <1>5, <3>1 DEF WillHold
  <2>2. OthersClaim(c)' => board # NoClaim
    BY <1>4 DEF OthersClaim, NoClaim
  <2>3. copy'[c] # Own(c)'
    BY <1>1, <1>2, <1>3, <1>7
  <2> QED
    BY <1>4, <2>1, <2>2, <2>3 DEF Mirrors
<1>14. FairVote(c)'
  BY <1>2 DEF FairVote
<1> QED
  BY <1>2, <1>8, <1>9, <1>10, <1>11, <1>12, <1>13, <1>14 DEF Sound

LEMMA OpenedKeeps ==
  ASSUME ElectInv, TypeOK', NEW c \in Clients, NEW t \in 1 .. MaxClock, Opened(c, t)
  PROVE  Keeps
<1>1. ASSUME NEW id \in Ids, Admitted(c, id) PROVE Keeps
  <2>1. \A d \in Clients : Sound(d)'
    BY <1>1, AdmittedNewcomer, AdmittedOthers
  <2>2. board' = board
    BY <1>1 DEF Admitted
  <2> QED
    BY <1>1, <2>1, <2>2, AdmittedFollows DEF Keeps, ElectInv
<1> QED
  BY <1>1, RefusedKeeps DEF Opened

-----------------------------------------------------------------------------
(* The invariant holds.                                                      *)

LEMMA ElectInitially == Init => ElectInv
<1> SUFFICES ASSUME Init PROVE ElectInv
  OBVIOUS
<1>1. ConnInv
  BY ConnInitially DEF Init
<1>2. lastId = 0 /\ 0 \in 0 .. MaxId /\ 0 \in 0 .. MaxUpsets /\ 0 \in 0 .. MaxClock
  BY FallbackConstants DEF Init
<1>3. RelayTypes
  BY <1>2 DEF RelayTypes, Init
<1>4. PageTypes
  BY <1>2 DEF PageTypes, Init, NoId
<1>5. ElectionTypes
  <2>1. <<>> \in Seq(Frames)
    <3> HIDE DEF Frames
    <3> QED
      OBVIOUS
  <2> HIDE DEF Frames
  <2> QED
    BY <1>2, <2>1 DEF ElectionTypes, Init, NoId
<1>6. TypeOK
  BY <1>1, <1>3, <1>4, <1>5, TypesAre DEF ConnInv
<1>7. NoClaim \in Genuine /\ Distinct
  BY <1>2 DEF Genuine, Distinct, Init, NoClaim, NoId
<1>8. ASSUME NEW c \in Clients PROVE Sound(c)
  <2>1. /\ sock[c] = "none" /\ ~connected[c] /\ ~closing[c] /\ peerOf[c] = NoId /\ coming[c] = <<>>
        /\ peers[c] = {} /\ hostId[c] = NoId /\ vote[c] = "none" /\ copy[c] = NoClaim /\ claims[c] = {}
        /\ ~Live(c)
    BY DEF Init, ConnInit, Live
  <2> QED
    BY <1>7, <2>1 DEF Sound, SocketSound, Greeting, NoVoteNoHost, HostNamed, Departures, ClaimsSound,
                      Mirrors, FairVote
<1> QED
  BY <1>1, <1>6, <1>7, <1>8 DEF ElectInv, Init

LEMMA StutterKeeps == ASSUME ElectInv, UNCHANGED vars PROVE Keeps
<1>1. UNCHANGED <<connVars, relayVars, peerOf, coming, clientVars>>
  BY DEF vars
<1>2. /\ UNCHANGED <<relay, room, lastId, board, role, peerOf, coming>>
      /\ UNCHANGED <<selfId, joinedAt>>
  BY <1>1 DEF relayVars, clientVars
<1>3. WorldFollows
  <2>1. \A d \in Clients : ~Fresh(peerOf'[d])
    BY <1>2, KnownIds DEF Fresh
  <2> QED
    BY <1>2, <2>1 DEF WorldFollows
<1>4. TypeOK'
  BY TypesKept
<1>5. ASSUME NEW d \in Clients PROVE Sound(d)'
  <2>1. Untouched(d)
    BY <1>1 DEF Untouched, connVars, clientVars
  <2> QED
    BY <1>2, <1>3, <1>4, <2>1, UnheardKeeps
<1> QED
  BY <1>2, <1>3, <1>5, GenuineStays, IdsStayDistinct DEF Keeps, ElectInv

LEMMA ReceivedKeeps ==
  ASSUME ElectInv, TypeOK', NEW c \in Clients, Receive(c)
  PROVE  Keeps
<1>1. LET m == Head(coming[c])
      IN \/ ReceiveHello(c, m) \/ ReceiveHost(c, m) \/ ReceiveJoin(c, m)
         \/ ReceiveLeave(c, m) \/ ReceiveClaim(c, m)
  BY DEF Receive
<1> QED
  BY <1>1, ReceivedHelloKeeps, ReceivedHostKeeps, ReceivedLeaveKeeps, ReceivedClaimKeeps

LEMMA ElectNextKeeps == ElectInv /\ [Next]_vars => ElectInv'
<1> SUFFICES ASSUME ElectInv, [Next]_vars PROVE ElectInv'
  OBVIOUS
<1>1. TypeOK' /\ ConnInv'
  BY TypesKept, ConnectionKept
<1>2. Next => Keeps
  BY <1>1, ReconnectKeeps, ReceivedKeeps, DeadlineKeeps, GoneKeeps, OpenedKeeps, RosterKeeps, RelayKeeps,
     RestartKeeps DEF Next
<1> QED
  BY <1>1, <1>2, StutterKeeps DEF Keeps, ElectInv

LEMMA ElectAlways == Spec => []ElectInv
BY ElectInitially, ElectNextKeeps, PTL DEF Spec

\* RoomConnection.js, HostElection.js: the clients and the relay keep their types; above all,
\* whatever is on its way or on the board names ids that were given out and claims that can
\* have been made.
THEOREM FallbackTypes == Spec => []TypeOK
<1>1. ElectInv => TypeOK
  BY DEF ElectInv
<1> QED
  BY <1>1, ElectAlways, PTL

\* RoomConnection.js:51-60: a client in a room with nothing on its way to it, neither frame nor
\* deadline, has a host.
THEOREM WaitersHaveAHost == Spec => []NobodyWaitsInVain
<1>1. ElectInv => NobodyWaitsInVain
  <2> SUFFICES ASSUME ElectInv, NEW c \in Clients, InRoom(c), coming[c] = <<>>, ~deadline[c],
                      ~Stranded(c), vote[c] # "early"
               PROVE  IF relay = "modern" THEN role # NoId => hostId[c] = role
                      ELSE hostId[c] \in room
    BY DEF NobodyWaitsInVain
  <2>1. Sound(c) /\ Live(c) /\ relay \in Kinds /\ vote[c] \in {"none", "early", "blind", "fair"}
    BY DEF ElectInv, TypeOK, InRoom
  <2>2. DOMAIN coming[c] = {}
    OBVIOUS
  <2>3. CASE relay = "modern"
    BY <2>1, <2>2, <2>3 DEF Sound, HostNamed, WillKnow
  <2>4. CASE relay # "modern"
    <3>1. relay = "legacy"
      BY <2>1, <2>4 DEF Sound, Greeting, Kinds
    <3>2. ~serverElects[c]
      BY <3>1 DEF Stranded
    <3>3. vote[c] \in {"fair", "blind"}
      BY <2>1, <3>2 DEF Sound, Greeting
    <3> QED
      BY <2>1, <2>2, <2>4, <3>2, <3>3 DEF Sound, Departures, Leaves
  <2> QED
    BY <2>3, <2>4
<1> QED
  BY <1>1, ElectAlways, PTL

LEMMA RoomAgrees == ElectInv => PeersAgree
<1> DEFINE inside == {c \in Clients : Live(c)}
<1> SUFFICES ASSUME ElectInv, relay = "legacy", inside # {}, room = {peerOf[c] : c \in inside},
                    \A c \in inside : /\ InRoom(c) /\ coming[c] = <<>>
                                      /\ ~deadline[c] /\ vote[c] \notin {"early", "blind"} /\ ~serverElects[c]
             PROVE  board.id \in room /\ \A c \in inside : hostId[c] = board.id
  BY DEF PeersAgree
\* Each of them has elected fairly, and took a peer of the room by the claim of its own.
<1>1. ASSUME NEW c \in inside
      PROVE  /\ Sound(c) /\ Live(c) /\ selfId[c] = peerOf[c] /\ peerOf[c] # NoId
             /\ DOMAIN coming[c] = {} /\ Silent(coming[c], 0)
             /\ Own(c) \in claims[c] /\ hostId[c] \in room /\ ~serverElects[c]
             /\ claims[c] \subseteq Genuine /\ claims[c] \subseteq Claims
             /\ copy[c] # NoClaim => \E cl \in claims[c] : cl.id = copy[c].id
             /\ \E best \in claims[c] : Chosen(c, best)
  <2>1. Sound(c) /\ InRoom(c) /\ Live(c) /\ vote[c] \in {"none", "early", "blind", "fair"}
    BY DEF ElectInv, TypeOK
  <2>2. DOMAIN coming[c] = {} /\ Silent(coming[c], 0)
    <3>1. coming[c] = <<>>
      OBVIOUS
    <3> QED
      BY <3>1 DEF Silent
  <2>3. vote[c] = "fair" /\ ~serverElects[c]
    BY <2>1 DEF Sound, Greeting
  <2>4. hostId[c] \in room
    BY <2>1, <2>2, <2>3 DEF Sound, Departures, Leaves
  <2>5. peerOf[c] # NoId
    BY <2>1, LiveHasId
  <2>6. claims[c] \subseteq Claims /\ claims[c] \subseteq Genuine
    BY <2>1 DEF ElectInv, TypeOK, Sound, ClaimsSound
  <2> QED
    BY <2>1, <2>2, <2>3, <2>4, <2>5, <2>6 DEF Sound, FairVote, InRoom
\* m's claim is the best of all.
<1>2. PICK m \in inside : \A c \in inside : Own(c) # Own(m) => ~ClaimWins(Own(c), Own(m))
  <2> DEFINE all == {Own(c) : c \in inside}
  <2>1. all \subseteq Claims /\ all # {}
    <3>1. \A c \in inside : Own(c) \in Claims
      BY <1>1
    <3> QED
      BY <3>1
  <2>2. PICK cl \in all : \A other \in all \ {cl} : ~ClaimWins(other, cl)
    <3> HIDE DEF all
    <3> QED
      BY <2>1, BestExists
  <2> QED
    BY <2>2
\* Whom a client took, it took by the claim of a peer in the room.
<1>3. ASSUME NEW c \in inside, NEW cl \in claims[c], cl.id \in room
      PROVE  \E d \in inside : cl = Own(d) /\ peerOf[d] = cl.id
  <2>1. PICK d \in inside : peerOf[d] = cl.id
    BY <1>3
  <2>2. peerOf[d] # NoId /\ cl \in Genuine
    BY <1>1, <1>3
  <2>3. cl = Own(d)
    BY <2>1, <2>2 DEF Genuine
  <2> QED
    BY <2>1, <2>3
<1>4. ASSUME NEW c \in inside, NEW best \in claims[c], Chosen(c, best), Own(m) \in claims[c]
      PROVE  best = Own(m)
  <2>1. best.id \in room /\ Own(m).id \in room
    BY <1>1, <1>4 DEF Chosen, Own, Live
  <2>2. PICK d \in inside : best = Own(d)
    BY <1>3, <2>1
  <2>3. ~ClaimWins(Own(m), best)
    BY <1>4, <2>1 DEF Chosen
  <2>4. best # Own(m) => ~ClaimWins(best, Own(m))
    BY <1>2, <2>2
  <2>5. best \in Claims /\ Own(m) \in Claims
    BY <1>1, <1>4
  <2> QED
    BY <2>3, <2>4, <2>5, ClaimsAreOrdered
\* So it is the host of itself, and the board names it.
<1>5. board = Own(m) /\ hostId[m] = peerOf[m]
  <2>1. PICK best \in claims[m] : Chosen(m, best)
    BY <1>1
  <2>2. best = Own(m)
    BY <1>1, <1>4, <2>1
  <2>3. copy[m] = Own(m) /\ hostId[m] = peerOf[m]
    BY <1>1, <2>1, <2>2 DEF Chosen, Own
  <2> QED
    BY <1>1, <2>3 DEF Sound, Mirrors
<1>6. ASSUME NEW c \in inside, c # m PROVE hostId[c] = peerOf[m]
  <2>1. OthersClaim(c)
    BY <1>1, <1>5, <1>6 DEF OthersClaim, Own
  <2>2. copy[c] = board
    BY <1>1, <2>1 DEF Sound, Mirrors, WillHold
  <2>3. copy[c] # NoClaim
    BY <1>1, <1>5, <2>2 DEF Own, NoClaim
  <2>4. PICK cl \in claims[c] : cl.id = peerOf[m]
    <3>1. \E cl \in claims[c] : cl.id = copy[c].id
      BY <1>1, <2>3
    <3>2. copy[c].id = peerOf[m]
      BY <1>5, <2>2 DEF Own
    <3> QED
      BY <3>1, <3>2
  <2>5. cl = Own(m)
    BY <1>1, <2>4 DEF Genuine
  <2>6. PICK best \in claims[c] : Chosen(c, best)
    BY <1>1
  <2> QED
    BY <1>4, <2>4, <2>5, <2>6 DEF Chosen, Own
<1>7. board.id = peerOf[m] /\ peerOf[m] \in room
  BY <1>1, <1>5 DEF Own, Live
<1> QED
  BY <1>5, <1>6, <1>7

\* HostElection.js:17-30: however many clients elect among themselves, with whatever clocks,
\* they come to one host, and the board names it.
THEOREM TheRoomAgrees == Spec => []PeersAgree
BY RoomAgrees, ElectAlways, PTL
=============================================================================
