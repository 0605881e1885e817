------------------------------ MODULE RoomSync ------------------------------
(***************************************************************************)
(* The room as its clients see it: server/Hub.js and room-server.mjs       *)
(* composed with the client's copy of the shared state (src/net/           *)
(* RoomObjects.js, NetMgr.js) and its view of the host role (src/net/      *)
(* RoomConnection.js), over one FIFO channel each way per socket.          *)
(*                                                                         *)
(* A client writes optimistically: its own copy first, then the frame.     *)
(* The server answers a refused write with a correction and an accepted    *)
(* one with a broadcast to everybody else.  After an unexpected close the  *)
(* client comes back on a new socket with the copy it had.                 *)
(*                                                                         *)
(* The session id of a client's tab is the client itself.  Left out are    *)
(* three actions of RoomState: the other rooms are idle; the reclaim timer *)
(* is punctual, so the sweeper drops nothing (HostlessRoomIsRescued); and  *)
(* a socket the server has begun to close, which is sent nothing more, is  *)
(* one whose client receives nothing more before it loses it.              *)
(***************************************************************************)
EXTENDS RoomState, SequencesExt

CONSTANTS Restarts,     \* whether the server may restart
          MaxEvents     \* bound on local writes and restarts over a behaviour

ASSUME SyncConstants == Restarts \in BOOLEAN /\ MaxEvents \in Nat

Clients == Sids

VARIABLES conn,       \* RoomConnection.ws: the socket of each client, or NoPeer
          hostView,   \* RoomConnection._hostId of each client
          copy,       \* RoomObjects._state of each client
          up, down,   \* the frames in flight on each socket
          events,     \* local writes and restarts so far
          past,       \* history: what happened to each client since it entered the room
          lost        \* history: the keys each client has, over its rate, written to nobody

clientVars == <<conn, hostView, copy, up, down, events, past, lost>>
syncVars   == <<hubVars, clientVars>>

Empty == [k \in Keys |-> NoValue]

Hello(host)     == [type |-> "HELLO", host |-> host]
HostMsg(host)   == [type |-> "HOST", host |-> host]
StateMsg(k, v)  == [type |-> "STATE", key |-> k, value |-> v]

\* The sockets of S the server can still write to and somebody reads from.
Heard(S) == {p \in S \ closing : \E c \in Clients : conn[c] = p}

\* broadcast(): the frames msgs go to every socket of S.
Send(msgs, S) == down' = [p \in Peers |-> IF p \in S THEN down[p] \o msgs ELSE down[p]]

\* Who hosts now, if that is news (mutant: a vacancy that ends is not).
HandoverNews == IF NoPeer \in {roomHost, roomHost'} \/ roomHost' = roomHost
                THEN <<>> ELSE <<HostMsg(roomHost')>>
HostNews == IF roomHost' \in {roomHost, NoPeer} THEN <<>> ELSE <<HostMsg(roomHost')>>

\* connect()'s snapshot: one STATE frame per held key.
Snapshot == LET keys == SetToSeq(Held)
            IN [i \in DOMAIN keys |-> StateMsg(keys[i], value[keys[i]])]

SyncInit ==
  /\ HubInit
  /\ conn = [c \in Clients |-> NoPeer]
  /\ hostView = [c \in Clients |-> NoPeer]
  /\ copy = [c \in Clients |-> Empty]
  /\ up = [p \in Peers |-> <<>>]
  /\ down = [p \in Peers |-> <<>>]
  /\ events = 0
  /\ past = [c \in Clients |-> {}]
  /\ lost = [c \in Clients |-> {}]

-----------------------------------------------------------------------------
(* The client's half.                                                        *)

\* open(), and the server's 'connection' handler: HELLO, then the snapshot; the others
\* hear of a reclaimed role.  The copy the client had is not cleared.
Join(c, p) ==
  /\ conn[c] = NoPeer
  /\ \A d \in Clients : conn[d] # p
  /\ HubConnect(p, c)
  /\ conn' = [conn EXCEPT ![c] = p]
  /\ down' = [q \in Peers |->
       IF q = p THEN <<Hello(roomHost')>> \o Snapshot
       ELSE IF q \in Heard(Members) /\ HostMoved(roomHost')
            THEN Append(down[q], HostMsg(roomHost')) ELSE down[q]]
  /\ up' = [up EXCEPT ![p] = <<>>]
  /\ UNCHANGED <<hostView, copy, events, past, lost>>

\* setObjectState(): an unchanged value is a no-op; the copy first, then the frame if
\* there is a socket.
LocalSet(c, k, v) ==
  /\ events < MaxEvents
  /\ copy[c][k] # v
  /\ copy' = [copy EXCEPT ![c][k] = v]
  /\ up' = IF conn[c] \in Members THEN [up EXCEPT ![conn[c]] = Append(@, StateMsg(k, v))] ELSE up
  /\ events' = events + 1
  /\ past' = [past EXCEPT ![c] = @ \cup {"wrote"}]
  /\ UNCHANGED <<hubVars, conn, hostView, down, lost>>

\* A frame from the server: STATE is applied to the copy, HELLO and HOST to the host view.
Receive(c) ==
  /\ conn[c] # NoPeer
  /\ down[conn[c]] # <<>>
  /\ LET m == Head(down[conn[c]])
     IN \/ /\ m.type = "STATE"
           /\ copy' = [copy EXCEPT ![c][m.key] = m.value]
           /\ lost' = [lost EXCEPT ![c] = @ \ {m.key}]
           /\ UNCHANGED hostView
        \/ /\ m.type \in {"HELLO", "HOST"}
           /\ hostView' = [hostView EXCEPT ![c] = m.host]
           /\ UNCHANGED <<copy, lost>>
  /\ down' = [down EXCEPT ![conn[c]] = Tail(@)]
  /\ UNCHANGED <<hubVars, conn, up, events, past>>

\* Mutant: the host view survives the socket.
StillInRole(c) ==
  /\ conn[c] # NoPeer
  /\ conn' = [conn EXCEPT ![c] = NoPeer]
  /\ down' = [down EXCEPT ![conn[c]] = <<>>]
  /\ lost' = [lost EXCEPT ![c] = {}]
  /\ UNCHANGED <<hubVars, hostView, up, events>>
Unplugged(c) ==
  /\ conn[c] # NoPeer
  /\ conn' = [conn EXCEPT ![c] = NoPeer]
  /\ hostView' = [hostView EXCEPT ![c] = NoPeer]
  /\ down' = [down EXCEPT ![conn[c]] = <<>>]
  /\ lost' = [lost EXCEPT ![c] = {}]
  /\ UNCHANGED <<hubVars, up, events>>

\* The 'close' listener after an unexpected close: the client gives up the role, keeps its
\* copy and will join again.
LoseSocket(c) ==
  /\ Unplugged(c)
  /\ past' = [past EXCEPT ![c] = @ \cup {"rejoined"}]
  /\ UNCHANGED copy

\* disconnect(): the next session starts from an empty copy.
LeaveRoom(c) ==
  /\ Unplugged(c)
  /\ copy' = [copy EXCEPT ![c] = Empty]
  /\ past' = [past EXCEPT ![c] = {}]

-----------------------------------------------------------------------------
(* The server's half.                                                        *)

Refused(p, k, v) == ~(Admitted(p, k, v) /\ Authorised(p, k, v))

\* A refused write is answered with the present value (mutant: it is not answered).
NoCorrection(p, k) == UNCHANGED down
Correction(p, k) == Send(<<StateMsg(k, value[k])>>, Heard({p}))

\* The 'message' handler of a STATE frame.
HandleState(p) ==
  /\ p \in Members
  /\ up[p] # <<>>
  /\ LET m == Head(up[p])
     IN \/ /\ SetState(p, m.key, m.value)
           /\ Send(<<m>>, Heard(Members \ {p}))
        \/ /\ Refused(p, m.key, m.value)
           /\ Correction(p, m.key)
           /\ UNCHANGED hubVars
  /\ up' = [up EXCEPT ![p] = Tail(@)]
  /\ UNCHANGED <<conn, hostView, copy, events, past, lost>>

\* takeToken() found the bucket empty: the frame is dropped, and nobody is told.
DropOverBudget(p) ==
  /\ p \in Members
  /\ up[p] # <<>>
  /\ up' = [up EXCEPT ![p] = Tail(@)]
  /\ lost' = [c \in Clients |-> IF conn[c] = p THEN lost[c] \cup {Head(up[p]).key} ELSE lost[c]]
  /\ UNCHANGED <<hubVars, conn, hostView, copy, down, events, past>>

\* The 'close' handler's broadcasts: the grips the peer left, then the new host if the
\* role moved at once (mutant: the new host only).
HostNewsOnly(p) == HostNews
CloseNews(p) == LET grips == SetToSeq(Gripped(p))
                IN [i \in DOMAIN grips |-> StateMsg(grips[i], NoValue)] \o HostNews

SocketClosed(p) ==
  /\ HubDisconnect(p)
  /\ Send(CloseNews(p), Heard(Members \ {p}))
  /\ up' = [up EXCEPT ![p] = <<>>]
  /\ UNCHANGED <<conn, hostView, copy, events, past, lost>>

ReclaimTimer ==
  /\ HubExpireHostGrace
  /\ Send(HostNews, Heard(Members))
  /\ UNCHANGED <<conn, hostView, copy, up, events, past, lost>>

\* The process ends, by shutdown() without a grace period or by force after one, and
\* another starts, which knows no room.  What was on its way to the server is lost; what
\* the server had sent may still arrive, and each client sees its socket go in its own
\* time.  (_seq starts anew too; only the order of a room's members is ever read of it, and
\* as it goes on here MaxJoins bounds the whole behaviour.)
Restart ==
  /\ Restarts
  /\ events < MaxEvents
  /\ events' = events + 1
  /\ seq' = [p \in Peers |-> 0]
  /\ sid' = [p \in Peers |-> NoSid]
  /\ roomHost' = NoPeer
  /\ graceSid' = NoSid /\ graceAge' = 0 /\ timerAge' = Unarmed
  /\ closing' = {}
  /\ told' = [p \in Peers |-> NoPeer]
  /\ DropRoomState
  /\ up' = [p \in Peers |-> <<>>]
  /\ UNCHANGED <<joins, elsewhere, conn, hostView, copy, down, past, lost>>

TimePasses == HubTick /\ UNCHANGED clientVars

SyncNext ==
  \/ \E c \in Clients, p \in Peers : Join(c, p)
  \/ \E c \in Clients, k \in Keys, v \in Values \cup {NoValue} : LocalSet(c, k, v)
  \/ \E c \in Clients : Receive(c) \/ LoseSocket(c) \/ LeaveRoom(c)
  \/ \E p \in Peers : HandleState(p) \/ DropOverBudget(p) \/ SocketClosed(p)
  \/ ReclaimTimer
  \/ Restart
  \/ TimePasses

SyncSpec == SyncInit /\ [][SyncNext]_syncVars

-----------------------------------------------------------------------------
Frames ==
  [type : {"HELLO", "HOST"}, host : Peers \cup {NoPeer}]
    \cup [type : {"STATE"}, key : Keys, value : Values \cup {NoValue}]

SyncTypeOK ==
  /\ conn \in [Clients -> Peers \cup {NoPeer}]
  /\ hostView \in [Clients -> Peers \cup {NoPeer}]
  /\ \A c \in Clients : conn[c] = NoPeer => hostView[c] = NoPeer
  /\ copy \in [Clients -> [Keys -> Values \cup {NoValue}]]
  /\ \A p \in Peers : Range(up[p]) \cup Range(down[p]) \subseteq Frames
  /\ events \in 0..MaxEvents
  /\ past \in [Clients -> SUBSET {"wrote", "rejoined"}]
  /\ lost \in [Clients -> SUBSET Keys]

\* The client is in the room and nothing is in flight on its socket either way.
Settled(c) ==
  /\ conn[c] \in Members \ closing
  /\ up[conn[c]] = <<>> /\ down[conn[c]] = <<>>

\* Through refusals and their corrections, takeovers, reconnects with an old copy, writes
\* made offline and writes dropped over the rate, the only clients that can be out of step
\* with the server on a key the room holds are the key's last writer and one whose dropped
\* write of that very key nothing has overwritten since.
BystandersAgree ==
  \A c \in Clients : Settled(c) =>
    \A k \in Held \ lost[c] : owner[k] # conn[c] => copy[c][k] = value[k]

\* RoomObjects.js: "a peer that walks in mid-session converges to the same state", keys
\* cleared by their owners or by the server on a departure included.
WalkInConverges ==
  \A c \in Clients : Settled(c) /\ past[c] = {} => copy[c] = value

\* A client that holds itself for the host while its socket is a member is the host the
\* server recognises, however late the news it acts on is.
NoPretender ==
  \A c \in Clients : conn[c] \in Members /\ hostView[c] = conn[c] => HostOf = conn[c]

\* RoomObjects.js describes "entries that everyone in the room agrees on", last writer
\* wins: once nothing is in flight, everyone agrees on every key the room holds.
QuietAgreement ==
  (\A c \in Clients : conn[c] # NoPeer => Settled(c))
    => \A c \in Clients : conn[c] # NoPeer => \A k \in Held \ lost[c] : copy[c][k] = value[k]

\* RoomConnection.js says of a reconnect that "the shared object state is replayed by the
\* server": a client that never wrote has, once it is back and settled, the room's state.
ReplayRestores ==
  \A c \in Clients : Settled(c) /\ "wrote" \notin past[c] => copy[c] = value

\* Through takeovers, reservations, reclaims and promotions by the timer, everybody in the
\* room takes for the host whoever the server does, once nothing is in flight: a vacancy
\* is never announced, but its end always is.
EveryoneKnowsTheHost ==
  \A c \in Clients : Settled(c) /\ HostOf # NoPeer => hostView[c] = HostOf

-----------------------------------------------------------------------------
(* The room the clients share, with whatever is on its way to them arrived.  *)

\* What a sequence of frames, the oldest first, leaves of an old value: the last frame
\* about a key, or about the host, decides.
Topic(m) == IF m.type = "STATE" THEN <<m.key>> ELSE <<>>
Told(m) == IF m.type = "STATE" THEN m.value ELSE m.host
At(s, t) == {i \in 1..Len(s) : Topic(s[i]) = t}
Latest(s, t, old) == LET news == At(s, t) IN IF news = {} THEN old ELSE Told(s[Max(news)])
Applied(s, k, old) == Latest(s, <<k>>, old)

\* The value of a key, and the host, as a client will see them.
InEffect(c, k) == Applied(down[conn[c]], k, copy[c][k])
HostInEffect(c) == Latest(down[conn[c]], <<>>, hostView[c])

\* A write of this key is on its way to the server.
Pending(p, k) == \E i \in 1..Len(up[p]) : up[p][i].key = k

\* The keys a client wrote last, is about to write, or has written to nobody.
Unsure(c) == {k \in Keys : owner[k] = conn[c] \/ Pending(conn[c], k) \/ k \in lost[c]}

\* A client whose socket the server has forgotten, or never knew, shares nothing.
Inside == {c \in Clients : conn[c] \in Members}
Seen == [c \in Clients |-> IF c \in Inside THEN [k \in Keys |-> InEffect(c, k)] ELSE Empty]
SeenHost == [c \in Clients |-> IF c \in Inside THEN HostInEffect(c) ELSE NoPeer]
Doubts == [c \in Clients |-> IF c \in Inside THEN Unsure(c) ELSE {}]

Shared == INSTANCE SharedRoom WITH
  Hosts <- Peers, NoHost <- NoPeer, room <- value, host <- roomHost,
  present <- Inside, seen <- Seen, seenHost <- SeenHost, unsure <- Doubts

ImplementsSharedRoom == Shared!Spec
=============================================================================
