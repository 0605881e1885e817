------------------------------ MODULE HostRole ------------------------------
(***************************************************************************)
(* What the room server promises about the host role (docs/MULTIPLAYER.md, *)
(* "Who is the host"), with no clocks, timers or stored records: one peer  *)
(* at most holds the role; it loses it only by leaving; while the role is  *)
(* reserved for the session of a host that left, only that session may     *)
(* take it; a lapsed reservation is filled by the longest-present peer, or *)
(* by whoever joins first.                                                 *)
(***************************************************************************)
EXTENDS Integers

CONSTANTS Peers, Sids, NoSid, NoPeer

VARIABLES rank,      \* seniority of each peer present (smaller is longer present), else 0
          session,   \* the session of each peer present
          holder,    \* the host, or NoPeer
          reserved   \* the session the role is kept for, or NoSid

roleVars == <<rank, session, holder, reserved>>

Present == {p \in Peers : rank[p] # 0}

LongestPresent(p, S) == p \in S /\ \A q \in S : rank[p] <= rank[q]

Init ==
  /\ rank = [p \in Peers |-> 0]
  /\ session = [p \in Peers |-> NoSid]
  /\ holder = NoPeer
  /\ reserved = NoSid

Arrive(p, s) ==
  /\ p \notin Present
  /\ rank' = [rank EXCEPT ![p] = rank'[p]]
  /\ \A q \in Present : rank'[p] > rank[q]
  /\ rank'[p] > 0
  /\ session' = [session EXCEPT ![p] = s]

\* A peer joins, and takes the role if it is free or kept for its own session.
Join(p, s) ==
  /\ Arrive(p, s)
  /\ \/ /\ reserved # NoSid /\ s = reserved
        /\ holder' = p /\ reserved' = NoSid
     \/ /\ reserved = NoSid /\ holder = NoPeer
        /\ holder' = p /\ UNCHANGED reserved
     \/ /\ holder # NoPeer \/ (reserved # NoSid /\ s # reserved)
        /\ UNCHANGED <<holder, reserved>>

Depart(p) ==
  /\ p \in Present
  /\ rank' = [rank EXCEPT ![p] = 0]
  /\ session' = [session EXCEPT ![p] = NoSid]

\* A peer leaves.  A host with a session leaves the role reserved; one without hands it on.
Leave(p) ==
  /\ Depart(p)
  /\ \/ /\ Present = {p}
        /\ holder' = NoPeer /\ reserved' = NoSid
     \/ /\ Present # {p} /\ holder # p
        /\ UNCHANGED <<holder, reserved>>
     \/ /\ Present # {p} /\ holder = p /\ session[p] # NoSid
        /\ holder' = NoPeer /\ reserved' = session[p]
     \/ /\ Present # {p} /\ holder = p /\ session[p] = NoSid
        /\ LongestPresent(holder', Present \ {p})
        /\ UNCHANGED reserved

Lapse ==
  /\ reserved # NoSid
  /\ reserved' = NoSid
  /\ UNCHANGED <<rank, session, holder>>

Succeed ==
  /\ holder = NoPeer /\ reserved = NoSid
  /\ LongestPresent(holder', Present)
  /\ UNCHANGED <<rank, session, reserved>>

Next ==
  \/ \E p \in Peers, s \in Sids \cup {NoSid} : Join(p, s)
  \/ \E p \in Peers : Leave(p)
  \/ Lapse
  \/ Succeed

Spec == Init /\ [][Next]_roleVars
=============================================================================
