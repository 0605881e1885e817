-------------------------- MODULE FallbackElection --------------------------
(***************************************************************************)
(* Who is host, as a client sees it, when page and relay are deployed      *)
(* apart: src/net/RoomConnection.js and HostElection.js, with the routing  *)
(* of NetMgr.js and DesktopNet.js, against a relay that elects ("modern"), *)
(* one that does not know the role ("legacy": HELLO has no host key) or    *)
(* one of an incompatible protocol.  A restart may change one for another. *)
(*                                                                         *)
(* Against a legacy relay the clients elect among themselves: each claims  *)
(* the room under the shared key 'hostClaim', the earliest claim of a      *)
(* peer that is present wins, ties go to the smaller id.  The clients'     *)
(* clocks are not synchronised: a claim's time is any clock value, so that *)
(* claims come in any order although ids are given out in theirs.          *)
(*                                                                         *)
(* The relay sends to each socket in order.  It handles what it is sent at *)
(* once: a frame on its way changes nothing the sender still depends on.   *)
(* The election of a modern relay is RoomElection's and reduced here to    *)
(* what HostRole promises.                                                 *)
(***************************************************************************)
EXTENDS RoomConnection

CONSTANTS
  MaxId,        \* bound: peer ids 1 .. MaxId, given out in order
  MaxClock,     \* clock values 1 .. MaxClock
  MaxUpsets     \* bound: restarts of the relay and peers that fall silent, together

ASSUME FallbackConstants == MaxId \in Nat /\ MaxClock \in Nat /\ MaxUpsets \in Nat

Ids    == 1 .. MaxId
NoId   == 0
Claims == [id : Ids, at : 1 .. MaxClock]
NoClaim == [id |-> NoId, at |-> 0]
Kinds  == {"modern", "legacy", "incompatible"}

VARIABLES
  relay,         \* the kind of the relay
  room,          \* the peers the relay counts as present, dead sockets included
  lastId,        \* the id given out last
  board,         \* the relay's value of 'hostClaim'
  role,          \* a modern relay's host
  upsets,        \* restarts of the relay and silences so far
  peerOf,        \* the id the relay knows the client's socket by, NoId if it has none
  coming,        \* the frames on their way to the client
  selfId,        \* PresenceState.selfId: outlives the socket
  peers,         \* PresenceState._peers
  hostId,        \* RoomConnection._hostId
  serverElects,  \* _serverElects
  deadline,      \* _fallbackTimer is set
  joinedAt,      \* _joinedAt
  claims,        \* _fallbackClaims
  copy,          \* the client's copy of 'hostClaim'
  vote           \* history: how the last election on this socket went, or "none"

relayVars  == <<relay, room, lastId, board, role, upsets>>
clientVars == <<selfId, peers, hostId, serverElects, deadline, joinedAt, claims, copy, vote>>
vars == <<connVars, relayVars, peerOf, coming, clientVars>>

Hello(kind, id, others, host) ==
  [type |-> "HELLO", from |-> kind, id |-> id, peers |-> others, host |-> host]
JoinMsg(id)  == [type |-> "JOIN", id |-> id]
LeaveMsg(id) == [type |-> "LEAVE", id |-> id]
HostMsg(id)  == [type |-> "HOST", id |-> id]
ClaimMsg(cl) == [type |-> "STATE", claim |-> cl]

Live(c) == peerOf[c] \in room /\ sock[c] = "open"

\* HELLO was handled on this socket, and the page is in the room.
InRoom(c) == Live(c) /\ selfId[c] = peerOf[c]

\* What is on its way once the frames msgs went to every client of S.
Sent(S, msgs) == [c \in Clients |-> IF c \in S THEN coming[c] \o msgs ELSE coming[c]]

-----------------------------------------------------------------------------
(* HostElection.js                                                           *)

\* claimWins().
ClaimWins(a, b) == a.at < b.at \/ (a.at = b.at /\ a.id < b.id)

\* resolveFallbackHost(): the best claim of a peer that is present.  The own claim is among
\* them, so there is one.
BestClaim(cls, present) ==
  LET valid == {cl \in cls : cl.id \in present}
  IN CHOOSE cl \in valid : \A other \in valid \ {cl} : ~ClaimWins(other, cl)

\* The winner puts its claim on the board when another one is there (mutant: only when
\* the board is empty).
AnnouncesOnce(c, best, stored) == best.id = selfId[c] /\ stored = NoClaim
Announces(c, best, stored) == best.id = selfId[c] /\ stored # best

\* A claim by a peer replaces its later one.
Noted(cls, cl) ==
  IF cl = NoClaim \/ \E old \in cls : old.id = cl.id /\ old.at <= cl.at THEN cls
  ELSE {old \in cls : old.id # cl.id} \cup {cl}

\* How an election goes (history): before the HELLO of this socket; blind to the claim of a
\* peer that is in the room, but not on the roster; or neither.
Manner(c, cls, ps) ==
  IF ~InRoom(c) THEN "early"
  ELSE IF \E cl \in cls : cl.id \in room \ (ps \cup {selfId[c]}) THEN "blind"
  ELSE "fair"

\* _runFallbackElection() with claims cls, roster ps, host view h and copy stored: claims
\* oneself if one has not yet, notes what the copy says, takes the winner for host and
\* announces oneself if need be.  queue is what is on its way once the caller's own frame
\* is taken.
Elect(c, cls, ps, h, stored, queue) ==
  LET own  == IF \E cl \in cls : cl.id = selfId[c] THEN cls
              ELSE cls \cup {[id |-> selfId[c], at |-> joinedAt[c]]}
      all  == Noted(own, stored)
      best == BestClaim(all, ps \cup {selfId[c]})
      speaks == Announces(c, best, stored)
  IN IF serverElects[c] \/ ~connected[c] \/ selfId[c] = NoId
     THEN /\ claims' = [claims EXCEPT ![c] = cls]
          /\ hostId' = [hostId EXCEPT ![c] = h]
          /\ copy' = [copy EXCEPT ![c] = stored]
          /\ coming' = queue
          /\ UNCHANGED <<board, vote>>
     ELSE /\ claims' = [claims EXCEPT ![c] = all]
          /\ hostId' = [hostId EXCEPT ![c] = best.id]
          /\ vote' = [vote EXCEPT ![c] = Manner(c, all, ps)]
          /\ copy' = [copy EXCEPT ![c] = IF speaks THEN best ELSE stored]
          /\ board' = IF speaks /\ peerOf[c] \in room THEN best ELSE board
          /\ coming' = [d \in Clients |->
               IF speaks /\ peerOf[c] \in room /\ d # c /\ peerOf[d] \in room
               THEN Append(queue[d], ClaimMsg(best)) ELSE queue[d]]

-----------------------------------------------------------------------------
Init ==
  /\ ConnInit
  /\ relay \in Kinds
  /\ room = {}
  /\ lastId = 0
  /\ board = NoClaim
  /\ role = NoId
  /\ upsets = 0
  /\ peerOf = [c \in Clients |-> NoId]
  /\ coming = [c \in Clients |-> <<>>]
  /\ selfId = [c \in Clients |-> NoId]
  /\ peers = [c \in Clients |-> {}]
  /\ hostId = [c \in Clients |-> NoId]
  /\ serverElects = [c \in Clients |-> FALSE]
  /\ deadline = [c \in Clients |-> FALSE]
  /\ joinedAt = [c \in Clients |-> 0]
  /\ claims = [c \in Clients |-> {}]
  /\ copy = [c \in Clients |-> NoClaim]
  /\ vote = [c \in Clients |-> "none"]

\* The page joins the room.
Join(c) ==
  /\ Open(c)
  /\ UNCHANGED <<relayVars, peerOf, coming, clientVars>>

\* The relay takes the socket in: HELLO and the board for it, its JOIN for the others.  A
\* modern relay gives the role to the first of a room, and back to a host that returns;
\* the others hear of that.
Admitted(c, id) ==
  /\ id = lastId + 1
  /\ lastId' = id
  /\ room' = room \cup {id}
  /\ peerOf' = [peerOf EXCEPT ![c] = id]
  /\ \/ role' = role
     \/ relay = "modern" /\ role = NoId /\ role' = id
  /\ relay = "modern" /\ room = {} => role' = id
  /\ LET others   == {d \in Clients : peerOf[d] \in room}
         news     == IF role' # role THEN <<HostMsg(id), JoinMsg(id)>> ELSE <<JoinMsg(id)>>
         snapshot == IF board = NoClaim THEN <<>> ELSE <<ClaimMsg(board)>>
     IN coming' = [Sent(others, news) EXCEPT ![c] = <<Hello(relay, id, room, role')>> \o snapshot]
  /\ UNCHANGED <<relay, board, upsets>>

\* The 'open' event, of a socket the relay took in or of one it is about to close again;
\* the client's clock reads t.
Opened(c, t) ==
  /\ SocketOpened(c)
  /\ joinedAt' = [joinedAt EXCEPT ![c] = t]
  /\ \/ \E id \in Ids : Admitted(c, id)
     \/ UNCHANGED <<relayVars, peerOf, coming>>
  /\ UNCHANGED <<selfId, peers, hostId, serverElects, deadline, claims, copy, vote>>

-----------------------------------------------------------------------------
(* The frames a client receives.                                             *)

\* The relay named the host: no election of our own.
HostKnown(c, id) ==
  /\ serverElects' = [serverElects EXCEPT ![c] = TRUE]
  /\ deadline' = [deadline EXCEPT ![c] = FALSE]
  /\ hostId' = [hostId EXCEPT ![c] = id]

\* _armFallbackElection() (mutant: a relay without a host is waited for without end).
WaitForHost(c) == FALSE
ArmsDeadline(c) == deadline[c] \/ ~serverElects[c]

ReceiveHello(c, m) ==
  /\ m.type = "HELLO"
  /\ \/ /\ m.from = "incompatible"
        /\ HelloRefused(c)
        /\ UNCHANGED <<selfId, peers, serverElects, deadline, hostId>>
     \/ /\ m.from # "incompatible"
        /\ SessionEstablished(c)
        /\ selfId' = [selfId EXCEPT ![c] = m.id]
        /\ peers' = [peers EXCEPT ![c] = @ \cup m.peers]
        /\ \/ /\ m.from = "modern"
              /\ HostKnown(c, m.host)
           \/ /\ m.from = "legacy"
              /\ deadline' = [deadline EXCEPT ![c] = ArmsDeadline(c)]
              /\ UNCHANGED <<serverElects, hostId>>
  /\ coming' = [coming EXCEPT ![c] = Tail(@)]
  /\ UNCHANGED <<board, claims, copy, vote>>

ReceiveHost(c, m) ==
  /\ m.type = "HOST"
  /\ HostKnown(c, m.id)
  /\ coming' = [coming EXCEPT ![c] = Tail(@)]
  /\ UNCHANGED <<connVars, board, selfId, peers, claims, copy, vote>>

ReceiveJoin(c, m) ==
  /\ m.type = "JOIN"
  /\ peers' = [peers EXCEPT ![c] = @ \cup {m.id}]
  /\ coming' = [coming EXCEPT ![c] = Tail(@)]
  /\ UNCHANGED <<connVars, board, selfId, serverElects, deadline, hostId, claims, copy, vote>>

\* LEAVE: without an electing server the departed peer's claim goes, and if it was host
\* the others elect again.
ReceiveLeave(c, m) ==
  /\ m.type = "LEAVE"
  /\ peers' = [peers EXCEPT ![c] = @ \ {m.id}]
  /\ \/ /\ serverElects[c]
        /\ coming' = [coming EXCEPT ![c] = Tail(@)]
        /\ UNCHANGED <<board, hostId, claims, copy, vote>>
     \/ /\ ~serverElects[c]
        /\ Elect(c, {cl \in claims[c] : cl.id # m.id}, peers'[c],
                 IF hostId[c] = m.id THEN NoId ELSE hostId[c],
                 copy[c], [coming EXCEPT ![c] = Tail(@)])
  /\ UNCHANGED <<connVars, selfId, serverElects, deadline>>

\* STATE of 'hostClaim': applied to the copy, then a claim to be noted.
ReceiveClaim(c, m) ==
  /\ m.type = "STATE"
  /\ Elect(c, Noted(claims[c], m.claim), peers[c], hostId[c], m.claim,
           [coming EXCEPT ![c] = Tail(@)])
  /\ UNCHANGED <<connVars, selfId, peers, serverElects, deadline>>

Receive(c) ==
  /\ sock[c] = "open"
  /\ coming[c] # <<>>
  /\ LET m == Head(coming[c])
     IN \/ ReceiveHello(c, m)
        \/ ReceiveHost(c, m)
        \/ ReceiveJoin(c, m)
        \/ ReceiveLeave(c, m)
        \/ ReceiveClaim(c, m)
  /\ UNCHANGED <<relay, room, lastId, role, upsets, peerOf, joinedAt>>

\* The election deadline.  Nothing stops it when the socket closes, so that it may fire on
\* the next one, before the HELLO that brings the new id.
DeadlineFires(c) ==
  /\ deadline[c]
  /\ deadline' = [deadline EXCEPT ![c] = FALSE]
  /\ \/ /\ serverElects[c] \/ hostId[c] # NoId
        /\ UNCHANGED <<board, coming, hostId, claims, copy, vote>>
     \/ /\ ~serverElects[c] /\ hostId[c] = NoId
        /\ Elect(c, claims[c], peers[c], NoId, copy[c], coming)
  /\ UNCHANGED <<connVars, relay, room, lastId, role, upsets, peerOf,
                 selfId, peers, serverElects, joinedAt>>

\* prune(), every frame: a peer whose poses have not come for five seconds, its page in the
\* background or its socket dead, is taken off the roster, and a pose brings it back.  Neither
\* elects anybody.
\* The election's deadline is shorter and armed no later than the peer is heard of, so that it
\* has fired by then.  A pose is handled when no other frame is ahead of it.  Only an
\* election reads the roster, and both are left out where none can follow.
Prune(c, id) ==
  /\ connected[c] /\ ~serverElects[c] /\ ~deadline[c]
  /\ id \in peers[c]
  /\ upsets < MaxUpsets
  /\ upsets' = upsets + 1
  /\ peers' = [peers EXCEPT ![c] = @ \ {id}]
  /\ UNCHANGED <<connVars, relay, room, lastId, board, role, peerOf, coming, selfId, hostId, serverElects, deadline,
                 joinedAt, claims, copy, vote>>

ReceivePose(c, id) ==
  /\ InRoom(c) /\ coming[c] = <<>> /\ ~serverElects[c]
  /\ \E d \in Clients \ {c} : Live(d) /\ peerOf[d] = id
  /\ id \notin peers[c]
  /\ peers' = [peers EXCEPT ![c] = @ \cup {id}]
  /\ UNCHANGED <<connVars, relayVars, peerOf, coming, selfId, hostId, serverElects, deadline,
                 joinedAt, claims, copy, vote>>

-----------------------------------------------------------------------------
(* Sockets come to an end.                                                   *)

\* The codes this client's socket can close with: a refusal says "try again" on a socket
\* that was never admitted, an incompatible relay closes for good.
Codes(c) ==
  {Dropped} \cup (IF sock[c] = "open" /\ peerOf[c] = NoId THEN {TryAgain} ELSE {})
            \cup (IF sock[c] = "closing" \/ (sock[c] = "open" /\ relay = "incompatible")
                  THEN {Permanent} ELSE {})

\* The 'close' event.  The relay may see its end of the socket go much later.
Closed(c, code) ==
  /\ code \in Codes(c)
  /\ SocketClosed(c, code)
  /\ hostId' = [hostId EXCEPT ![c] = IF LosesHost(c, code) THEN NoId ELSE @]
  /\ peerOf' = [peerOf EXCEPT ![c] = NoId]
  /\ coming' = [coming EXCEPT ![c] = <<>>]
  /\ vote' = [vote EXCEPT ![c] = "none"]
  /\ joinedAt' = [joinedAt EXCEPT ![c] = 0]
  /\ UNCHANGED <<relayVars, selfId, peers, serverElects, deadline, claims, copy>>

\* The retry: the roster and the claims go, the own id and the copy stay.
Retry(c) ==
  /\ RetryFires(c)
  /\ peers' = [peers EXCEPT ![c] = {}]
  /\ claims' = [claims EXCEPT ![c] = {}]
  /\ UNCHANGED <<relayVars, peerOf, coming, selfId, hostId, serverElects, deadline,
                 joinedAt, copy, vote>>

LeaveRoom(c) ==
  /\ Leave(c)
  /\ peerOf' = [peerOf EXCEPT ![c] = NoId]
  /\ coming' = [coming EXCEPT ![c] = <<>>]
  /\ selfId' = [selfId EXCEPT ![c] = NoId]
  /\ peers' = [peers EXCEPT ![c] = {}]
  /\ hostId' = [hostId EXCEPT ![c] = NoId]
  /\ serverElects' = [serverElects EXCEPT ![c] = FALSE]
  /\ deadline' = [deadline EXCEPT ![c] = FALSE]
  /\ joinedAt' = [joinedAt EXCEPT ![c] = 0]
  /\ claims' = [claims EXCEPT ![c] = {}]
  /\ copy' = [copy EXCEPT ![c] = NoClaim]
  /\ vote' = [vote EXCEPT ![c] = "none"]
  /\ UNCHANGED relayVars

\* The relay sees the end of a socket nobody holds any more (mutant: the role stays).
ReapButNotTheRole(id) ==
  /\ id \in room
  /\ \A c \in Clients : peerOf[c] # id
  /\ room' = room \ {id}
  /\ coming' = Sent({c \in Clients : peerOf[c] \in room}, <<LeaveMsg(id)>>)
  /\ UNCHANGED <<connVars, relay, lastId, board, role, upsets, peerOf, clientVars>>
Reap(id) ==
  /\ id \in room
  /\ \A c \in Clients : peerOf[c] # id
  /\ room' = room \ {id}
  /\ board' = IF room' = {} THEN NoClaim ELSE board
  /\ role' = IF role = id THEN NoId ELSE role
  /\ coming' = Sent({c \in Clients : peerOf[c] \in room}, <<LeaveMsg(id)>>)
  /\ UNCHANGED <<connVars, relay, lastId, upsets, peerOf, clientVars>>

\* A modern relay ends a hostless room.
Promote(id) ==
  /\ relay = "modern"
  /\ role = NoId
  /\ id \in room
  /\ role' = id
  /\ coming' = Sent({c \in Clients : peerOf[c] \in room}, <<HostMsg(id)>>)
  /\ UNCHANGED <<connVars, relay, room, lastId, board, upsets, peerOf, clientVars>>

\* The relay is deployed anew: it has forgotten every room, and its sockets are cut.
Restart(kind) ==
  /\ upsets < MaxUpsets
  /\ troubles < MaxTroubles
  /\ relay' = kind
  /\ room' = {}
  /\ board' = NoClaim
  /\ role' = NoId
  /\ upsets' = upsets + 1
  /\ peerOf' = [c \in Clients |-> NoId]
  /\ coming' = [c \in Clients |-> <<>>]
  /\ UNCHANGED <<connVars, lastId, clientVars>>

Next ==
  \/ \E c \in Clients : Join(c) \/ Receive(c) \/ DeadlineFires(c) \/ Retry(c) \/ LeaveRoom(c)
  \/ \E c \in Clients, t \in 1 .. MaxClock : Opened(c, t)
  \/ \E c \in Clients, id \in Ids : Prune(c, id) \/ ReceivePose(c, id)
  \/ \E c \in Clients, code \in {TryAgain, Permanent, Dropped} : Closed(c, code)
  \/ \E id \in Ids : Reap(id) \/ Promote(id)
  \/ \E kind \in Kinds : Restart(kind)

Spec == Init /\ [][Next]_vars

-----------------------------------------------------------------------------
Given == 1 .. lastId
Frames ==
  [type : {"HELLO"}, from : Kinds, id : Given, peers : SUBSET Given, host : Given \cup {NoId}]
    \cup [type : {"JOIN", "LEAVE", "HOST"}, id : Given]
    \cup [type : {"STATE"}, claim : Claims]

TypeOK ==
  /\ ConnTypeOK
  /\ relay \in Kinds
  /\ lastId \in 0 .. MaxId /\ room \subseteq Given
  /\ board \in Claims \cup {NoClaim}
  /\ role \in room \cup {NoId}
  /\ upsets \in 0 .. MaxUpsets
  /\ peerOf \in [Clients -> room \cup {NoId}]
  /\ coming \in [Clients -> Seq(Frames)]
  /\ selfId \in [Clients -> 0 .. lastId]
  /\ peers \in [Clients -> SUBSET Given]
  /\ hostId \in [Clients -> 0 .. lastId]
  /\ serverElects \in [Clients -> BOOLEAN]
  /\ deadline \in [Clients -> BOOLEAN]
  /\ joinedAt \in [Clients -> 0 .. MaxClock]
  /\ claims \in [Clients -> SUBSET Claims]
  /\ copy \in [Clients -> Claims \cup {NoClaim}]
  /\ vote \in [Clients -> {"none", "early", "blind", "fair"}]

\* A client whose relay elected once does not elect against a relay that replaces it and
\* cannot: _serverElects is cleared by leaving only.
Stranded(c) == relay = "legacy" /\ serverElects[c]

\* HostElection.js:17-30.  In a room of a relay that does not elect, once every frame has
\* arrived, every deadline has fired and the dead sockets are gone, the clients have one
\* host, one of them, and the board names it to whoever comes next.  But for elections that
\* ignored the claim of a peer in the room, which a silence took off the roster: the peer
\* comes back with its next pose, and nobody elects again.
PeersAgree ==
  LET inside == {c \in Clients : Live(c)}
  IN /\ relay = "legacy"
     /\ inside # {}
     /\ room = {peerOf[c] : c \in inside}
     /\ \A c \in inside : /\ InRoom(c) /\ coming[c] = <<>>
                          /\ ~deadline[c] /\ vote[c] \notin {"early", "blind"} /\ ~serverElects[c]
     => /\ board.id \in room
        /\ \A c \in inside : hostId[c] = board.id

\* RoomConnection.js:51-60.  A client that got into a room and for which nothing is on its
\* way, neither frame nor deadline, has a host: the relay's, or a peer that is in the room,
\* be it silent.  But for a client that is stranded, or that last elected on this socket
\* before its HELLO, when a deadline of the socket before fired, and took its own old id.
NobodyWaitsInVain ==
  \A c \in Clients :
    InRoom(c) /\ coming[c] = <<>> /\ ~deadline[c] /\ ~Stranded(c) /\ vote[c] # "early"
      => IF relay = "modern" THEN role # NoId => hostId[c] = role
         ELSE hostId[c] \in room
=============================================================================
