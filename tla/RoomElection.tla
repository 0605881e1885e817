---------------------------- MODULE RoomElection ----------------------------
(***************************************************************************)
(* Who is in a room and who hosts it: the membership and host-election     *)
(* half of server/Hub.js, with the parts of server/room-server.mjs that    *)
(* drive it (the socket's 'connection' and 'close' events, the reclaim     *)
(* timer, the sweeper) and what the adapter has told each socket.          *)
(*                                                                         *)
(* One room; the Hub's maps are keyed by room and a room's election reads  *)
(* no other room.  A connection id is drawn afresh for every socket        *)
(* (randomUUID), so a peer that left may come back only under another id;  *)
(* what a returning client keeps is its session id.                        *)
(*                                                                         *)
(* Time is counted in ticks.  The code compares two ages with constants,   *)
(* so the state holds the ages, not the clock.                             *)
(***************************************************************************)
EXTENDS Integers, FiniteSets

CONSTANTS Peers,      \* connection ids
          Sids,       \* session ids a client may present (?sid=)
          NoSid,      \* ... or none
          NoPeer,     \* the absence of a host
          Window,     \* HOST_RECLAIM_MS, in ticks
          Slack,      \* the 50 ms the adapter adds to it
          MaxLate,    \* how far past its due time the timer may run, in ticks
          MaxJoins    \* bound on connections over a behaviour

ASSUME ElectionConstants ==
  /\ NoPeer \notin Peers
  /\ NoSid \notin Sids
  /\ Window \in Nat \ {0}
  /\ Slack \in Nat \ {0}
  /\ MaxLate \in Nat
  /\ MaxJoins \in Nat

VARIABLES seq,        \* rooms: join number of each member, 0 when not a member
          sid,        \* rooms: the session id a member joined with
          joins,      \* _seq
          roomHost,   \* roomHosts
          graceSid,   \* hostGrace.sid, NoSid when the room has no record
          graceAge,   \* now - hostGrace.at
          timerAge,   \* time since the armed reclaim timer was set, or Unarmed
          closing,    \* members whose socket is CLOSING: nothing is sent to them
          told        \* the host each member was last sent (HELLO or HOST)

memberVars == <<seq, sid, joins, closing>>
roleVars   == <<roomHost, graceSid, graceAge, timerAge, told>>
electionVars == <<memberVars, roleVars>>

Unarmed == -1

\* sweepEmptyRooms forgets a record older than this.
SweepAge == 4 * Window

Members == {p \in Peers : seq[p] # 0}

\* hostOf: the recorded host, if it is still a member.
HostOf == IF roomHost \in Members THEN roomHost ELSE NoPeer

\* _activeGrace: the record counts until the window has elapsed, and is kept after.
ActiveGrace == graceSid # NoSid /\ graceAge <= Window

\* _senior: the longest-present peer among S (mutant: the latest to join).
Junior(S) == CHOOSE p \in S : \A q \in S : seq[p] >= seq[q]
Senior(S) == CHOOSE p \in S : \A q \in S : seq[p] <= seq[q]

\* sendTo skips a socket that is not OPEN, so only these hear a broadcast.
Reached(S) == S \ closing

Telling(host, S) == [p \in Peers |-> IF p \in Reached(S) THEN host ELSE told[p]]

-----------------------------------------------------------------------------
Init ==
  /\ seq = [p \in Peers |-> 0]
  /\ sid = [p \in Peers |-> NoSid]
  /\ joins = 0
  /\ roomHost = NoPeer
  /\ graceSid = NoSid
  /\ graceAge = 0
  /\ timerAge = Unarmed
  /\ closing = {}
  /\ told = [p \in Peers |-> NoPeer]

\* The joiner is the departed host, back inside its window (mutant: anyone is).
AnySessionReclaims(s) == ActiveGrace
Reclaims(s) == ActiveGrace /\ s # NoSid /\ s = graceSid

\* What connect() makes of the role when p joins with session id s (mutant: the joiner
\* of a hostless room takes the role, reserved or not).
JoinerFillsVacancy(p, s) == IF HostOf = NoPeer THEN p ELSE HostOf
HostAfterConnect(p, s) ==
  IF ActiveGrace THEN (IF Reclaims(s) THEN p ELSE NoPeer)
                 ELSE (IF HostOf = NoPeer THEN p ELSE HostOf)

\* connect() broadcasts HOST to the others only when the role moved to the joiner
\* (mutant: only when it moved from another peer).
MovedFromAnother(host) == host # NoPeer /\ HostOf # NoPeer /\ host # HostOf
HostMoved(host) == host # NoPeer /\ host # HostOf

\* A socket joined: HELLO names the host, and the others hear of it only if it changed.
Connect(p, s) ==
  /\ p \notin Members
  /\ joins < MaxJoins
  /\ joins' = joins + 1
  /\ seq' = [seq EXCEPT ![p] = joins + 1]
  /\ sid' = [sid EXCEPT ![p] = s]
  /\ LET host == HostAfterConnect(p, s)
     IN /\ roomHost' = host
        /\ told' = Telling(host, {p} \cup (IF HostMoved(host) THEN Members ELSE {}))
  /\ graceSid' = IF Reclaims(s) THEN NoSid ELSE graceSid
  /\ graceAge' = IF Reclaims(s) THEN 0 ELSE graceAge
  /\ UNCHANGED <<timerAge, closing>>

\* The server starts closing a socket (4008, 4009, 4010, 1001): it stays a member
\* until 'close', but is sent nothing any more.
BeginClose(p) ==
  /\ p \in Members \ closing
  /\ closing' = closing \cup {p}
  /\ UNCHANGED <<seq, sid, joins, roleVars>>

\* Mutants: the role is kept for the connection and not for the session; the timer is
\* left running instead of being set anew; the host entry is not deleted; a stand-in is
\* promoted while the role is kept.
HostLeftForPeer(p, rest) ==
  /\ roomHost' = NoPeer
  /\ graceSid' = p
  /\ graceAge' = 0
  /\ timerAge' = 0
  /\ told' = [told EXCEPT ![p] = NoPeer]
HostLeftTimerKept(p, rest) ==
  /\ roomHost' = NoPeer
  /\ graceSid' = sid[p]
  /\ graceAge' = 0
  /\ timerAge' = IF timerAge = Unarmed THEN 0 ELSE timerAge
  /\ told' = [told EXCEPT ![p] = NoPeer]
HostLeftEntryKept(p, rest) ==
  /\ graceSid' = sid[p]
  /\ graceAge' = 0
  /\ timerAge' = 0
  /\ told' = [told EXCEPT ![p] = NoPeer]
  /\ UNCHANGED roomHost

HostLeftStandIn(p, rest) ==
  /\ roomHost' = Senior(rest)
  /\ graceSid' = sid[p]
  /\ graceAge' = 0
  /\ timerAge' = 0
  /\ told' = [Telling(Senior(rest), rest) EXCEPT ![p] = NoPeer]

\* The host left and others remain: reserve the role for its session, or migrate.
HostLeft(p, rest) ==
  IF sid[p] # NoSid
  THEN /\ roomHost' = NoPeer
       /\ graceSid' = sid[p]
       /\ graceAge' = 0
       /\ timerAge' = 0
       /\ told' = [told EXCEPT ![p] = NoPeer]
  ELSE /\ roomHost' = Senior(rest)
       /\ graceSid' = NoSid
       /\ graceAge' = 0
       /\ told' = [Telling(Senior(rest), rest) EXCEPT ![p] = NoPeer]
       /\ UNCHANGED timerAge

\* A socket's 'close' event.  An emptied room is forgotten, all but its armed timer.
Disconnect(p) ==
  /\ p \in Members
  /\ seq' = [seq EXCEPT ![p] = 0]
  /\ sid' = [sid EXCEPT ![p] = NoSid]
  /\ closing' = closing \ {p}
  /\ LET rest == Members \ {p}
     IN \/ /\ rest = {}
           /\ roomHost' = NoPeer
           /\ graceSid' = NoSid
           /\ graceAge' = 0
           /\ told' = [told EXCEPT ![p] = NoPeer]
           /\ UNCHANGED timerAge
        \/ /\ rest # {}
           /\ p = HostOf
           /\ HostLeft(p, rest)
        \/ /\ rest # {}
           /\ p # HostOf
           /\ told' = [told EXCEPT ![p] = NoPeer]
           /\ UNCHANGED <<roomHost, graceSid, graceAge, timerAge>>
  /\ UNCHANGED joins

\* expireHostGrace, run by the reclaim timer, which disarms itself.
ExpireHostGrace ==
  /\ timerAge >= Window + Slack
  /\ timerAge' = Unarmed
  /\ IF graceSid # NoSid /\ graceAge >= Window
     THEN /\ graceSid' = NoSid
          /\ graceAge' = 0
          /\ IF HostOf = NoPeer /\ Members # {}
             THEN roomHost' = Senior(Members) /\ told' = Telling(Senior(Members), Members)
             ELSE UNCHANGED <<roomHost, told>>
     ELSE UNCHANGED <<graceSid, graceAge, roomHost, told>>
  /\ UNCHANGED memberVars

\* The sweeper finds no empty room here (Disconnect forgot it); of a live room it
\* drops a reclaim record four windows old, and decides nothing about the role.
Sweep ==
  /\ graceSid # NoSid /\ graceAge > SweepAge
  /\ graceSid' = NoSid
  /\ graceAge' = 0
  /\ UNCHANGED <<memberVars, roomHost, timerAge, told>>

\* Time passes while the timer is armed, which runs late by MaxLate ticks at most.
Tick ==
  /\ timerAge # Unarmed
  /\ timerAge < Window + Slack + MaxLate
  /\ graceAge' = IF graceSid # NoSid THEN graceAge + 1 ELSE 0
  /\ timerAge' = timerAge + 1
  /\ UNCHANGED <<memberVars, roomHost, graceSid, told>>

ElectionNext ==
  \/ \E p \in Peers, s \in Sids \cup {NoSid} : Connect(p, s)
  \/ \E p \in Peers : BeginClose(p)
  \/ \E p \in Peers : Disconnect(p)
  \/ ExpireHostGrace
  \/ Sweep
  \/ Tick

ElectionSpec == Init /\ [][ElectionNext]_electionVars

\* The event loop runs an armed timer, time passes, and a socket being closed is
\* closed: ws.terminate() is on a timer for every close the server starts.
ElectionFairness ==
  /\ WF_electionVars(ExpireHostGrace)
  /\ WF_electionVars(Tick)
  /\ \A p \in Peers : WF_electionVars(p \in closing /\ Disconnect(p))

FairElectionSpec == ElectionSpec /\ ElectionFairness

-----------------------------------------------------------------------------
ElectionTypeOK ==
  /\ seq \in [Peers -> 0..MaxJoins]
  /\ sid \in [Peers -> Sids \cup {NoSid}]
  /\ joins \in 0..MaxJoins
  /\ roomHost \in Peers \cup {NoPeer}
  /\ graceSid \in Sids \cup {NoSid}
  /\ graceAge \in Nat
  /\ timerAge \in Nat \cup {Unarmed}
  /\ closing \subseteq Members
  /\ told \in [Peers -> Peers \cup {NoPeer}]

\* The recorded host is always a member, so hostOf()'s second look-up never hides
\* a stale entry: every path that removes a member also moves or drops the role.
HostIsMember == roomHost # NoPeer => roomHost \in Members

\* While the role is kept for a departed host nobody holds it (Hub.js, HOST_RECLAIM_MS:
\* "during the window nobody has it").
ReservedIsHostless == ActiveGrace => HostOf = NoPeer

\* Through departures, reservations, returns and promotions, the role is never left with
\* somebody who has gone, nor held by anybody while it is kept for its old holder.
RoleSound == HostIsMember /\ ReservedIsHostless

\* A member whose socket is open has been told the present host, through all the
\* HELLOs and HOST broadcasts that leave someone out.
MembersKnowHost == HostOf # NoPeer => \A p \in Members \ closing : told[p] = HostOf

\* A reservation and the timer that ends it are always the same age, whoever left, came
\* back, emptied the room or was swept meanwhile: the timer that fires never finds a
\* younger record, which it would leave behind with nothing to end it.
ReservationIsTimed == graceSid # NoSid => timerAge = graceAge

\* A room waiting for its host has the record and the running timer that end the wait,
\* if the timer is punctual enough for the sweeper not to drop the record first.
HostlessIsRescued ==
  Members # {} /\ HostOf = NoPeer => graceSid # NoSid /\ timerAge # Unarmed

\* A hostless room gets a host again or empties, provided the reclaim timer never runs
\* so late that the sweeper drops its record first.
HostlessEnds ==
  [](graceAge <= SweepAge)
    => ((Members # {} /\ HostOf = NoPeer) ~> (Members = {} \/ HostOf # NoPeer))

\* The clocks, the timer and the stored record implement the abstract role.
Role == INSTANCE HostRole WITH
  rank <- seq, session <- sid, holder <- HostOf,
  reserved <- IF ActiveGrace THEN graceSid ELSE NoSid

ImplementsHostRole == Role!Spec

\* MULTIPLAYER.md says a host that came back reclaims the role, and the timer promotes
\* the senior peer only "if it never comes back": the timer gives a role kept for a
\* session that is in the room to that session.
ReturnedHostReclaims ==
  [][ \A p \in Members :
        (/\ HostOf = NoPeer /\ sid[p] # NoSid /\ sid[p] = graceSid
         /\ HostOf' # NoPeer /\ Members' = Members)
          => sid[HostOf'] = graceSid ]_electionVars
=============================================================================
