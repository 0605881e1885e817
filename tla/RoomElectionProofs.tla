------------------------- MODULE RoomElectionProofs -------------------------
(***************************************************************************)
(* Proofs about RoomElection, for every number of peers, every session     *)
(* set, every window, slack and lateness.                                  *)
(***************************************************************************)
EXTENDS RoomElection, TLAPS, WellFoundedInduction

\* Among peers that have join numbers there is a longest-present one, and _senior() finds it.
LEMMA SeniorIsSenior ==
  ASSUME NEW S, S # {}, S \subseteq Peers, seq \in [Peers -> Nat]
  PROVE  Senior(S) \in S /\ \A q \in S : seq[Senior(S)] <= seq[q]
<1> DEFINE R == OpToRel(<, Nat)
           T == {seq[p] : p \in S}
<1>1. IsWellFoundedOn(R, Nat)
  BY NatLessThanWellFounded
<1>2. T \subseteq Nat /\ T # {}
  OBVIOUS
<1>3. \E x \in T : \A y \in T : ~ (<<y, x>> \in R)
  <2> HIDE DEF R, T
  <2> QED BY <1>1, <1>2, WFMin
<1>4. PICK x \in T : \A y \in T : ~ (<<y, x>> \in R)
  BY <1>3
<1>5. \A y \in T : x <= y
  <2>1. \A a, b \in Nat : a < b => <<a, b>> \in R
    BY DEF OpToRel
  <2> SUFFICES ASSUME NEW y \in T PROVE x <= y
    OBVIOUS
  <2>2. x \in Nat /\ y \in Nat
    BY <1>2
  <2>3. ~ (<<y, x>> \in R)
    BY <1>4
  <2> HIDE DEF R, T
  <2>4. ~ (y < x)
    BY <2>1, <2>2, <2>3
  <2> QED BY <2>2, <2>4
<1>6. \E p \in S : \A q \in S : seq[p] <= seq[q]
  BY <1>5
<1> QED
  BY <1>6 DEF Senior

-----------------------------------------------------------------------------
(* Types.  Numbers drawn at a join never pass the counter they come from, and  *)
(* an age belongs to a record.                                                 *)

TypeInv ==
  /\ ElectionTypeOK
  /\ \A p \in Peers : seq[p] <= joins
  /\ graceSid = NoSid => graceAge = 0

LEMMA MembersArePeers ==
  ASSUME TypeInv
  PROVE  /\ Members \subseteq Peers
         /\ HostOf \in Peers \cup {NoPeer}
         /\ HostOf # NoPeer => HostOf \in Members /\ HostOf = roomHost
         /\ seq \in [Peers -> Nat]
         /\ joins \in Nat
  BY ElectionConstants DEF TypeInv, ElectionTypeOK, Members, HostOf

LEMMA ToldIsTyped ==
  ASSUME TypeInv, NEW host \in Peers \cup {NoPeer}, NEW S
  PROVE  Telling(host, S) \in [Peers -> Peers \cup {NoPeer}]
  BY DEF TypeInv, ElectionTypeOK, Telling

LEMMA TypeInit == Init => TypeInv
  BY ElectionConstants DEF Init, TypeInv, ElectionTypeOK, Members, Unarmed

LEMMA TypeStep == TypeInv /\ [ElectionNext]_electionVars => TypeInv'
<1> SUFFICES ASSUME TypeInv, [ElectionNext]_electionVars
             PROVE  TypeInv'
  OBVIOUS
<1> USE ElectionConstants, MembersArePeers
<1>1. ASSUME NEW p \in Peers, NEW s \in Sids \cup {NoSid}, Connect(p, s)
      PROVE  TypeInv'
  <2> DEFINE host == HostAfterConnect(p, s)
             heard == {p} \cup (IF HostMoved(host) THEN Members ELSE {})
  <2>1. host \in Peers \cup {NoPeer}
    BY DEF HostAfterConnect
  <2>2. told' = Telling(host, heard) /\ roomHost' = host
    BY <1>1 DEF Connect
  <2>3. told' \in [Peers -> Peers \cup {NoPeer}]
    <3> HIDE DEF host, heard
    <3> QED BY <2>1, <2>2, ToldIsTyped
  <2>4. /\ seq' \in [Peers -> 0..MaxJoins] /\ joins' \in 0..MaxJoins
        /\ \A q \in Peers : seq'[q] <= joins'
    BY <1>1 DEF Connect, TypeInv, ElectionTypeOK
  <2>5. closing' \subseteq Members'
    BY <1>1 DEF Connect, TypeInv, ElectionTypeOK, Members
  <2> QED
    BY <1>1, <2>1, <2>2, <2>3, <2>4, <2>5 DEF Connect, TypeInv, ElectionTypeOK
<1>2. ASSUME NEW p \in Peers, BeginClose(p)
      PROVE  TypeInv'
  BY <1>2 DEF BeginClose, TypeInv, ElectionTypeOK, Members, roleVars
<1>3. ASSUME NEW p \in Peers, Disconnect(p)
      PROVE  TypeInv'
  <2> DEFINE rest == Members \ {p}
  <2>1. /\ seq' \in [Peers -> 0..MaxJoins] /\ joins' \in 0..MaxJoins
        /\ \A q \in Peers : seq'[q] <= joins'
        /\ sid' \in [Peers -> Sids \cup {NoSid}]
        /\ closing' \subseteq Members'
    BY <1>3 DEF Disconnect, TypeInv, ElectionTypeOK, Members
  <2>2. rest # {} => Senior(rest) \in rest
    BY SeniorIsSenior
  <2>3. rest # {} => [Telling(Senior(rest), rest) EXCEPT ![p] = NoPeer]
                       \in [Peers -> Peers \cup {NoPeer}]
    BY <2>2, ToldIsTyped
  <2>4. [told EXCEPT ![p] = NoPeer] \in [Peers -> Peers \cup {NoPeer}]
    BY DEF TypeInv, ElectionTypeOK
  <2>5. /\ roomHost' \in Peers \cup {NoPeer}
        /\ graceSid' \in Sids \cup {NoSid}
        /\ graceAge' \in Nat
        /\ timerAge' \in Nat \cup {Unarmed}
        /\ told' \in [Peers -> Peers \cup {NoPeer}]
        /\ graceSid' = NoSid => graceAge' = 0
    <3>1. CASE rest = {}
      BY <1>3, <2>4, <3>1 DEF Disconnect, TypeInv, ElectionTypeOK
    <3>2. CASE rest # {} /\ p = HostOf
      <4>1. HostLeft(p, rest)
        BY <1>3, <3>2 DEF Disconnect
      <4> HIDE DEF rest
      <4> QED
        BY <2>2, <2>3, <2>4, <3>2, <4>1 DEF HostLeft, TypeInv, ElectionTypeOK, rest
    <3>3. CASE rest # {} /\ p # HostOf
      BY <1>3, <2>4, <3>3 DEF Disconnect, TypeInv, ElectionTypeOK
    <3> QED BY <3>1, <3>2, <3>3
  <2> QED
    BY <2>1, <2>5 DEF TypeInv, ElectionTypeOK
<1>4. CASE ExpireHostGrace
  <2>1. Members # {} => /\ Senior(Members) \in Peers
                        /\ Telling(Senior(Members), Members)
                             \in [Peers -> Peers \cup {NoPeer}]
    BY SeniorIsSenior, ToldIsTyped
  <2> QED
    BY <1>4, <2>1 DEF ExpireHostGrace, memberVars, TypeInv, ElectionTypeOK, Members
<1>5. CASE Sweep
  BY <1>5 DEF Sweep, memberVars, TypeInv, ElectionTypeOK, Members
<1>6. CASE Tick
  BY <1>6 DEF Tick, memberVars, TypeInv, ElectionTypeOK, Members, Unarmed
<1>7. CASE UNCHANGED electionVars
  BY <1>7 DEF electionVars, memberVars, roleVars, TypeInv, ElectionTypeOK, Members
<1> QED
  BY <1>1, <1>2, <1>3, <1>4, <1>5, <1>6, <1>7 DEF ElectionNext

\* Join numbers, session ids, host, record, timer and what was told are always of their
\* types: the host is a peer, and a socket being closed belongs to a member.
THEOREM ElectionIsTyped == ElectionSpec => []ElectionTypeOK
<1>1. TypeInv => ElectionTypeOK
  BY DEF TypeInv
<1> QED
  BY <1>1, TypeInit, TypeStep, PTL DEF ElectionSpec

-----------------------------------------------------------------------------
(* The role.  None of these is inductive without the others: a reservation is  *)
(* hostless because every path to the role looks at the record, and what the   *)
(* members know is right because a stale host entry cannot survive.            *)

RoleInv ==
  /\ HostIsMember
  /\ ReservedIsHostless
  /\ ReservationIsTimed
  /\ MembersKnowHost

LEMMA RoleInit == Init => RoleInv
  BY DEF Init, RoleInv, HostIsMember, ReservedIsHostless, ActiveGrace, ReservationIsTimed,
         MembersKnowHost, HostOf

\* Everyone on the list whose socket is open has been told.
LEMMA TellingTells ==
  ASSUME NEW host, NEW S, NEW p \in Peers, p \in S, p \notin closing
  PROVE  Telling(host, S)[p] = host
  BY DEF Telling, Reached

LEMMA RoleConnect ==
  ASSUME TypeInv, RoleInv, NEW p \in Peers, NEW s \in Sids \cup {NoSid}, Connect(p, s)
  PROVE  RoleInv'
<1> USE ElectionConstants
<1> DEFINE host == HostAfterConnect(p, s)
           heard == {p} \cup (IF HostMoved(host) THEN Members ELSE {})
<1>1. /\ p \notin Members /\ p \notin closing
      /\ Members' = Members \cup {p}
      /\ closing' = closing
      /\ roomHost' = host
      /\ told' = Telling(host, heard)
  BY DEF Connect, TypeInv, ElectionTypeOK, Members
<1>2. host \in Members \cup {p, NoPeer}
  BY MembersArePeers DEF HostAfterConnect
<1>3. HostIsMember'
  BY <1>1, <1>2 DEF HostIsMember
<1>4. HostOf' = host
  BY <1>1, <1>2 DEF HostOf, TypeInv, ElectionTypeOK, Members
<1>5. ReservedIsHostless'
  BY <1>4 DEF ReservedIsHostless, Connect, HostAfterConnect, ActiveGrace, Reclaims
<1>6. ReservationIsTimed'
  BY DEF Connect, RoleInv, ReservationIsTimed
<1>7. MembersKnowHost'
  <2> SUFFICES ASSUME host # NoPeer, NEW q \in Members', q \notin closing
               PROVE  told'[q] = host
    BY <1>1, <1>4 DEF MembersKnowHost
  <2>1. q \in Peers
    BY DEF Members
  <2>2. CASE q \in heard
    <3> HIDE DEF host, heard
    <3> QED BY <1>1, <2>1, <2>2, TellingTells
  <2>3. CASE q \notin heard
    <3>1. q \in Members /\ host = HostOf
      BY <1>1, <2>3 DEF HostMoved
    <3>2. told[q] = HostOf
      BY <3>1 DEF RoleInv, MembersKnowHost
    <3>3. told'[q] = told[q]
      BY <1>1, <2>1, <2>3 DEF Telling, Reached
    <3> QED BY <3>1, <3>2, <3>3
  <2> QED BY <2>2, <2>3
<1> QED
  BY <1>3, <1>5, <1>6, <1>7 DEF RoleInv

LEMMA RoleDisconnect ==
  ASSUME TypeInv, RoleInv, NEW p \in Peers, Disconnect(p)
  PROVE  RoleInv'
<1> USE ElectionConstants
<1> DEFINE rest == Members \ {p}
<1>1. Members' = rest /\ closing' = closing \ {p}
  BY DEF Disconnect, TypeInv, ElectionTypeOK, Members
<1>2. p \in Members
  BY DEF Disconnect
<1>3. CASE rest = {}
  <2>1. roomHost' = NoPeer /\ graceSid' = NoSid
    BY <1>3 DEF Disconnect
  <2> QED
    BY <1>1, <2>1 DEF RoleInv, HostIsMember, ReservedIsHostless, ReservationIsTimed,
                      MembersKnowHost, HostOf, ActiveGrace
<1>4. CASE rest # {} /\ p = HostOf /\ sid[p] # NoSid
  <2>1. roomHost' = NoPeer /\ graceAge' = 0 /\ timerAge' = 0
    BY <1>4 DEF Disconnect, HostLeft
  <2> QED
    BY <1>1, <2>1 DEF RoleInv, HostIsMember, ReservedIsHostless, ReservationIsTimed,
                      MembersKnowHost, HostOf, ActiveGrace
<1>5. CASE rest # {} /\ p = HostOf /\ sid[p] = NoSid
  <2> DEFINE heir == Senior(rest)
  <2>1. /\ roomHost' = heir /\ graceSid' = NoSid
        /\ told' = [Telling(heir, rest) EXCEPT ![p] = NoPeer]
    BY <1>5 DEF Disconnect, HostLeft
  <2>2. heir \in rest /\ rest \subseteq Peers
    BY <1>5, SeniorIsSenior, MembersArePeers
  <2>3. HostOf' = heir
    BY <1>1, <2>1, <2>2 DEF HostOf
  <2>4. ASSUME NEW q \in rest, q \notin closing
        PROVE  told'[q] = heir
    <3>1. Telling(heir, rest)[q] = heir
      BY <2>2, <2>4, TellingTells
    <3>2. Telling(heir, rest) = [r \in Peers |-> Telling(heir, rest)[r]]
      BY DEF Telling
    <3> HIDE DEF heir
    <3> QED BY <2>1, <2>2, <2>4, <3>1, <3>2
  <2>5. HostIsMember' /\ ReservedIsHostless' /\ ReservationIsTimed'
    BY <1>1, <2>1, <2>2 DEF HostIsMember, ReservedIsHostless, ReservationIsTimed, ActiveGrace
  <2>6. MembersKnowHost'
    BY <1>1, <2>3, <2>4 DEF MembersKnowHost
  <2> QED BY <2>5, <2>6 DEF RoleInv
<1>6. CASE rest # {} /\ p # HostOf
  <2>1. /\ UNCHANGED <<roomHost, graceSid, graceAge, timerAge>>
        /\ told' = [told EXCEPT ![p] = NoPeer]
    BY <1>6 DEF Disconnect
  <2>2. HostOf' = HostOf
    BY <1>1, <1>6, <2>1 DEF HostOf
  <2>3. HostIsMember' /\ ReservedIsHostless' /\ ReservationIsTimed'
    BY <1>1, <1>2, <1>6, <2>1, <2>2
       DEF RoleInv, HostIsMember, ReservedIsHostless, ReservationIsTimed, ActiveGrace, HostOf
  <2>4. \A q \in rest : told'[q] = told[q]
    BY <2>1, MembersArePeers DEF TypeInv, ElectionTypeOK
  <2>5. MembersKnowHost'
    BY <1>1, <2>2, <2>4 DEF RoleInv, MembersKnowHost
  <2> QED BY <2>3, <2>5 DEF RoleInv
<1> QED
  BY <1>3, <1>4, <1>5, <1>6

LEMMA RoleExpire ==
  ASSUME TypeInv, RoleInv, ExpireHostGrace
  PROVE  RoleInv'
<1> USE ElectionConstants
<1>1. Members' = Members /\ closing' = closing
  BY DEF ExpireHostGrace, memberVars, Members
\* The record is as old as the timer, so the timer that fires always ends it.
<1>2. graceSid' = NoSid
  BY DEF ExpireHostGrace, TypeInv, ElectionTypeOK, RoleInv, ReservationIsTimed
<1>3. CASE UNCHANGED <<roomHost, told>>
  BY <1>1, <1>2, <1>3 DEF RoleInv, HostIsMember, ReservedIsHostless, ReservationIsTimed,
                          MembersKnowHost, HostOf, ActiveGrace
<1>4. CASE /\ Members # {}
           /\ roomHost' = Senior(Members)
           /\ told' = Telling(Senior(Members), Members)
  <2>1. Senior(Members) \in Members
    BY <1>4, SeniorIsSenior, MembersArePeers
  <2>2. HostOf' = Senior(Members)
    BY <1>1, <1>4, <2>1 DEF HostOf
  <2>3. \A q \in Members : q \notin closing => told'[q] = Senior(Members)
    BY <1>4, MembersArePeers, TellingTells
  <2> QED
    BY <1>1, <1>2, <1>4, <2>1, <2>2, <2>3
       DEF RoleInv, HostIsMember, ReservedIsHostless, ReservationIsTimed, MembersKnowHost,
           ActiveGrace
<1> QED
  BY <1>3, <1>4 DEF ExpireHostGrace

LEMMA RoleStep == TypeInv /\ RoleInv /\ [ElectionNext]_electionVars => RoleInv'
<1> SUFFICES ASSUME TypeInv, RoleInv, [ElectionNext]_electionVars
             PROVE  RoleInv'
  OBVIOUS
<1> USE DEF RoleInv, HostIsMember, ReservedIsHostless, ReservationIsTimed, MembersKnowHost,
            HostOf, ActiveGrace, Members
<1>1. ASSUME NEW p \in Peers, BeginClose(p)
      PROVE  RoleInv'
  BY <1>1 DEF BeginClose, roleVars
<1>2. CASE Sweep
  BY <1>2 DEF Sweep, memberVars
<1>3. CASE Tick
  <2>1. ActiveGrace' => ActiveGrace
    BY <1>3, ElectionConstants DEF Tick, TypeInv, ElectionTypeOK
  <2>2. ReservationIsTimed'
    BY <1>3 DEF Tick, TypeInv, ElectionTypeOK
  <2>3. Members' = Members /\ closing' = closing /\ HostOf' = HostOf /\ told' = told
    BY <1>3 DEF Tick, memberVars
  <2> QED
    BY <1>3, <2>1, <2>2, <2>3 DEF Tick
<1>4. CASE UNCHANGED electionVars
  BY <1>4 DEF electionVars, memberVars, roleVars
<1> QED
  BY RoleConnect, RoleDisconnect, RoleExpire, <1>1, <1>2, <1>3, <1>4 DEF ElectionNext

LEMMA ElectionInvariant == ElectionSpec => [](TypeInv /\ RoleInv)
  BY TypeInit, TypeStep, RoleInit, RoleStep, PTL DEF ElectionSpec

\* No stale host entry: a recorded host is a member of the room.  And while the role is
\* kept for a departed host, nobody holds it.
THEOREM TheRoleIsSound == ElectionSpec => []RoleSound
  BY ElectionInvariant, PTL DEF RoleInv, RoleSound

\* The reservation in force always has its own timer, armed, of its own age.
THEOREM ReservationHasItsTimer == ElectionSpec => []ReservationIsTimed
  BY ElectionInvariant, PTL DEF RoleInv

\* Every member with an open socket has been told who the host is.
THEOREM EveryMemberKnowsTheHost == ElectionSpec => []MembersKnowHost
  BY ElectionInvariant, PTL DEF RoleInv

-----------------------------------------------------------------------------
(* A punctual timer rescues every hostless room: the sweeper, which would drop *)
(* a record without electing anyone, never finds one old enough.               *)

Punctual == Slack + MaxLate <= 3 * Window

RescueInv ==
  /\ timerAge <= Window + Slack + MaxLate
  /\ HostlessIsRescued

LEMMA NothingToSweep ==
  ASSUME Punctual, TypeInv, RoleInv, RescueInv
  PROVE  ~ Sweep
<1> SUFFICES ASSUME Sweep PROVE FALSE
  OBVIOUS
<1>1. graceAge <= Window + Slack + MaxLate
  BY DEF Sweep, RoleInv, ReservationIsTimed, RescueInv
<1>2. graceAge \in Nat /\ graceAge > 4 * Window
  BY DEF Sweep, SweepAge, TypeInv, ElectionTypeOK
<1> QED
  BY <1>1, <1>2, ElectionConstants DEF Punctual

LEMMA RescueInit == Init => RescueInv
  BY ElectionConstants DEF Init, RescueInv, HostlessIsRescued, Members, Unarmed

LEMMA RescueStep ==
  ASSUME Punctual, TypeInv, RoleInv, RescueInv, [ElectionNext]_electionVars
  PROVE  RescueInv'
<1> USE ElectionConstants DEF RescueInv
\* A record in place has its timer armed, so only the first half has to be preserved.
<1>1. ASSUME Members' # {} /\ HostOf' = NoPeer => graceSid' # NoSid,
             timerAge' <= Window + Slack + MaxLate
      PROVE  RescueInv'
  <2>1. TypeInv' /\ RoleInv'
    BY TypeStep, RoleStep
  <2>2. graceSid' # NoSid => timerAge' # Unarmed
    BY <2>1 DEF TypeInv, ElectionTypeOK, RoleInv, ReservationIsTimed, Unarmed
  <2> QED BY <1>1, <2>2 DEF HostlessIsRescued
<1>2. ASSUME NEW p \in Peers, NEW s \in Sids \cup {NoSid}, Connect(p, s)
      PROVE  RescueInv'
  <2> DEFINE host == HostAfterConnect(p, s)
  <2>1. /\ roomHost' = host /\ timerAge' = timerAge
        /\ graceSid' = IF Reclaims(s) THEN NoSid ELSE graceSid
        /\ p \in Members'
    BY <1>2 DEF Connect, TypeInv, ElectionTypeOK, Members
  <2>2. Members \subseteq Members'
    BY <1>2 DEF Connect, TypeInv, ElectionTypeOK, Members
  <2>3. CASE ActiveGrace
    <3>1. CASE Reclaims(s)
      BY <1>1, <2>1, <2>3, <3>1 DEF HostAfterConnect, HostOf
    <3>2. CASE ~ Reclaims(s)
      BY <1>1, <2>1, <2>3, <3>2 DEF ActiveGrace
    <3> QED BY <3>1, <3>2
  <2>4. CASE ~ ActiveGrace
    <3>1. host \in Members'
      BY <2>1, <2>2, <2>4, MembersArePeers DEF HostAfterConnect
    <3>2. HostOf' # NoPeer
      BY <2>1, <3>1 DEF HostOf, Members
    <3> QED BY <1>1, <2>1, <3>2
  <2> QED BY <2>3, <2>4
<1>3. ASSUME NEW p \in Peers, BeginClose(p)
      PROVE  RescueInv'
  BY <1>3 DEF BeginClose, roleVars, HostlessIsRescued, Members, HostOf
<1>4. ASSUME NEW p \in Peers, Disconnect(p)
      PROVE  RescueInv'
  <2> DEFINE rest == Members \ {p}
  <2>1. Members' = rest /\ p \in Members
    BY <1>4 DEF Disconnect, TypeInv, ElectionTypeOK, Members
  <2>2. timerAge' <= Window + Slack + MaxLate
    BY <1>4 DEF Disconnect, HostLeft
  <2>3. CASE rest = {}
    BY <1>1, <2>1, <2>2, <2>3
  <2>4. CASE rest # {} /\ p = HostOf /\ sid[p] # NoSid
    BY <1>1, <1>4, <2>2, <2>4 DEF Disconnect, HostLeft
  <2>5. CASE rest # {} /\ p = HostOf /\ sid[p] = NoSid
    <3>1. Senior(rest) \in rest /\ rest \subseteq Peers
      BY <2>5, SeniorIsSenior, MembersArePeers
    <3>2. roomHost' = Senior(rest)
      BY <1>4, <2>5 DEF Disconnect, HostLeft
    <3>3. HostOf' # NoPeer
      BY <2>1, <3>1, <3>2 DEF HostOf
    <3> QED BY <1>1, <2>2, <3>3
  <2>6. CASE rest # {} /\ p # HostOf
    <3>1. HostOf' = HostOf /\ graceSid' = graceSid
      BY <1>4, <2>1, <2>6 DEF Disconnect, HostOf
    <3> QED BY <1>1, <2>1, <2>2, <3>1 DEF HostlessIsRescued
  <2> QED BY <2>3, <2>4, <2>5, <2>6
<1>5. CASE ExpireHostGrace
  <2>1. timerAge' = Unarmed /\ Members' = Members
    BY <1>5 DEF ExpireHostGrace, memberVars, Members
  <2>2. timerAge' <= Window + Slack + MaxLate
    BY <2>1 DEF Unarmed
  <2>3. CASE HostOf # NoPeer
    <3>1. HostOf' = HostOf
      BY <1>5, <2>1, <2>3 DEF ExpireHostGrace, HostOf
    <3> QED BY <1>1, <2>2, <2>3, <3>1
  <2>4. CASE Members # {} /\ HostOf = NoPeer
    <3>1. Senior(Members) \in Members
      BY <2>4, SeniorIsSenior, MembersArePeers
    <3>2. graceSid # NoSid /\ graceAge >= Window
      BY <1>5, <2>4 DEF ExpireHostGrace, HostlessIsRescued, RoleInv, ReservationIsTimed,
                        TypeInv, ElectionTypeOK
    <3>3. roomHost' = Senior(Members)
      BY <1>5, <2>4, <3>2 DEF ExpireHostGrace
    <3>4. HostOf' # NoPeer
      BY <2>1, <3>1, <3>3, MembersArePeers DEF HostOf
    <3> QED BY <1>1, <2>2, <3>4
  <2> QED BY <1>1, <2>1, <2>2, <2>3, <2>4
<1>6. CASE Tick
  <2>1. timerAge' <= Window + Slack + MaxLate /\ timerAge' # Unarmed
    BY <1>6 DEF Tick, TypeInv, ElectionTypeOK, Unarmed
  <2> QED
    BY <1>6, <2>1 DEF Tick, memberVars, HostlessIsRescued, Members, HostOf
<1>7. CASE UNCHANGED electionVars
  BY <1>7 DEF electionVars, memberVars, roleVars, HostlessIsRescued, Members, HostOf
<1> QED
  BY NothingToSweep, <1>2, <1>3, <1>4, <1>5, <1>6, <1>7 DEF ElectionNext

\* With a reclaim timer at most three windows late, a room with members and no host always
\* has a reservation and an armed timer, which ends it by electing someone.
THEOREM HostlessRoomIsRescued ==
  ASSUME Punctual
  PROVE  ElectionSpec => []HostlessIsRescued
<1>1. TypeInv /\ RoleInv /\ RescueInv /\ [ElectionNext]_electionVars => RescueInv'
  BY RescueStep
<1>2. RescueInv => HostlessIsRescued
  BY DEF RescueInv
<1> QED
  BY <1>1, <1>2, RescueInit, ElectionInvariant, PTL DEF ElectionSpec

-----------------------------------------------------------------------------
(* The Hub implements the abstract role: what the clocks, the kept record, the *)
(* timer and the sweeper do is a step of HostRole or changes nothing it shows. *)

Reserved == IF ActiveGrace THEN graceSid ELSE NoSid

LEMMA RefinementInit == Init => Role!Init
  BY DEF Init, Role!Init, HostOf, ActiveGrace, Members

LEMMA RefineConnect ==
  ASSUME TypeInv, RoleInv, NEW p \in Peers, NEW s \in Sids \cup {NoSid}, Connect(p, s)
  PROVE  Role!Join(p, s)
<1> USE ElectionConstants
<1> DEFINE host == HostAfterConnect(p, s)
<1>1. /\ p \notin Members
      /\ seq' = [seq EXCEPT ![p] = joins + 1]
      /\ sid' = [sid EXCEPT ![p] = s]
      /\ roomHost' = host
      /\ graceSid' = IF Reclaims(s) THEN NoSid ELSE graceSid
      /\ graceAge' = IF Reclaims(s) THEN 0 ELSE graceAge
  BY DEF Connect
<1>2. seq'[p] = joins + 1 /\ joins \in Nat /\ \A q \in Members : seq[q] <= joins
  BY <1>1, MembersArePeers DEF TypeInv, Members
<1>3. Role!Arrive(p, s)
  <2>1. seq' = [seq EXCEPT ![p] = seq'[p]]
    BY <1>1, <1>2
  <2>2. \A q \in Members : seq'[p] > seq[q]
    BY <1>2, MembersArePeers
  <2>3. Role!Present = Members
    BY DEF Role!Present, Members
  <2> QED
    BY <1>1, <1>2, <2>1, <2>2, <2>3 DEF Role!Arrive
<1>4. HostOf' = host
  <2>1. Members' = Members \cup {p}
    BY <1>1, <1>2 DEF Members, TypeInv, ElectionTypeOK
  <2>2. host \in Members \cup {p, NoPeer}
    BY MembersArePeers DEF HostAfterConnect
  <2> QED BY <1>1, <2>1, <2>2 DEF HostOf
<1>5. CASE Reclaims(s)
  BY <1>1, <1>3, <1>4, <1>5 DEF Role!Join, Reclaims, ActiveGrace, HostAfterConnect
<1>6. CASE ~ Reclaims(s) /\ ActiveGrace
  <2>1. HostOf = NoPeer /\ HostOf' = NoPeer
    BY <1>4, <1>6 DEF HostAfterConnect, RoleInv, ReservedIsHostless
  <2> QED
    BY <1>1, <1>3, <1>6, <2>1 DEF Role!Join, Reclaims, ActiveGrace
<1>7. CASE ~ Reclaims(s) /\ ~ ActiveGrace
  <2>1. HostOf' = IF HostOf = NoPeer THEN p ELSE HostOf
    BY <1>4, <1>7 DEF HostAfterConnect
  <2>2. ~ ActiveGrace'
    BY <1>1, <1>7 DEF ActiveGrace
  <2> QED
    BY <1>3, <1>7, <2>1, <2>2 DEF Role!Join
<1> QED
  BY <1>5, <1>6, <1>7

LEMMA RefineDisconnect ==
  ASSUME TypeInv, RoleInv, NEW p \in Peers, Disconnect(p)
  PROVE  Role!Leave(p)
<1> USE ElectionConstants
<1> DEFINE rest == Members \ {p}
<1>1. Role!Depart(p)
  BY DEF Disconnect, Role!Depart, Role!Present, Members
<1>2. Members' = rest /\ p \in Members /\ Role!Present = Members
  BY DEF Disconnect, TypeInv, ElectionTypeOK, Members, Role!Present
<1>3. CASE rest = {}
  <2>1. HostOf' = NoPeer /\ ~ ActiveGrace'
    BY <1>3 DEF Disconnect, HostOf, ActiveGrace
  <2>2. Role!Present = {p}
    BY <1>2, <1>3
  <2> QED
    BY <1>1, <2>1, <2>2 DEF Role!Leave
<1>4. CASE rest # {} /\ p # HostOf
  <2>1. UNCHANGED <<roomHost, graceSid, graceAge>>
    BY <1>4 DEF Disconnect
  <2>2. HostOf' = HostOf /\ ActiveGrace' = ActiveGrace
    BY <1>2, <1>4, <2>1 DEF HostOf, ActiveGrace
  <2>3. Role!Present # {p}
    BY <1>2, <1>4
  <2> QED
    BY <1>1, <1>4, <2>1, <2>2, <2>3 DEF Role!Leave
<1>5. CASE rest # {} /\ p = HostOf /\ sid[p] # NoSid
  <2>1. roomHost' = NoPeer /\ graceSid' = sid[p] /\ graceAge' = 0
    BY <1>5 DEF Disconnect, HostLeft
  <2>2. HostOf' = NoPeer /\ ActiveGrace'
    BY <1>5, <2>1 DEF HostOf, ActiveGrace
  <2>3. Role!Present # {p}
    BY <1>2, <1>5
  <2> QED
    BY <1>1, <1>5, <2>1, <2>2, <2>3 DEF Role!Leave
<1>6. CASE rest # {} /\ p = HostOf /\ sid[p] = NoSid
  <2> DEFINE heir == Senior(rest)
  <2>1. roomHost' = heir /\ graceSid' = NoSid
    BY <1>6 DEF Disconnect, HostLeft
  <2>2. heir \in rest /\ \A q \in rest : seq[heir] <= seq[q]
    BY <1>6, SeniorIsSenior, MembersArePeers
  <2>3. HostOf' = heir /\ ~ ActiveGrace'
    BY <1>2, <2>1, <2>2 DEF HostOf, ActiveGrace
  <2>4. ~ ActiveGrace
    BY <1>2, <1>6, MembersArePeers DEF RoleInv, ReservedIsHostless
  <2>5. Role!LongestPresent(heir, rest)
    <3> HIDE DEF heir
    <3> QED BY <2>2 DEF Role!LongestPresent
  <2>6. Role!Present # {p}
    BY <1>2, <1>6
  <2> HIDE DEF heir
  <2> QED
    BY <1>1, <1>2, <1>6, <2>3, <2>4, <2>5, <2>6 DEF Role!Leave
<1> QED
  BY <1>3, <1>4, <1>5, <1>6

LEMMA RefineExpire ==
  ASSUME TypeInv, RoleInv, ExpireHostGrace
  PROVE  Role!Succeed \/ UNCHANGED <<seq, sid, HostOf, Reserved>>
<1> USE ElectionConstants
<1>1. Members' = Members /\ UNCHANGED <<seq, sid>>
  BY DEF ExpireHostGrace, memberVars, Members
\* The slack the adapter adds is what makes the window over when the timer fires.
<1>2. ~ ActiveGrace
  <2> SUFFICES ASSUME graceSid # NoSid PROVE graceAge > Window
    BY DEF ActiveGrace, TypeInv, ElectionTypeOK
  <2>1. graceAge >= Window + Slack
    BY DEF ExpireHostGrace, RoleInv, ReservationIsTimed
  <2> QED BY <2>1 DEF TypeInv, ElectionTypeOK
<1>3. ~ ActiveGrace'
  BY <1>2 DEF ExpireHostGrace, ActiveGrace
<1>4. CASE UNCHANGED <<roomHost, told>>
  BY <1>1, <1>2, <1>3, <1>4 DEF HostOf, Reserved
<1>5. CASE /\ HostOf = NoPeer /\ Members # {}
           /\ roomHost' = Senior(Members)
  <2>1. /\ Senior(Members) \in Members
        /\ \A q \in Members : seq[Senior(Members)] <= seq[q]
    BY <1>5, SeniorIsSenior, MembersArePeers
  <2>2. HostOf' = Senior(Members)
    BY <1>1, <1>5, <2>1 DEF HostOf
  <2>3. Role!LongestPresent(HostOf', Role!Present)
    BY <2>1, <2>2 DEF Role!LongestPresent, Role!Present, Members
  <2> QED
    BY <1>1, <1>2, <1>3, <1>5, <2>3 DEF Role!Succeed
<1> QED
  BY <1>4, <1>5 DEF ExpireHostGrace

LEMMA RefinementStep ==
  ASSUME TypeInv, RoleInv, [ElectionNext]_electionVars
  PROVE  [Role!Next]_(Role!roleVars)
<1> USE ElectionConstants
<1>1. ASSUME UNCHANGED <<seq, sid, HostOf, Reserved>>
      PROVE  UNCHANGED Role!roleVars
  BY <1>1 DEF Role!roleVars, Reserved
<1>2. ASSUME NEW p \in Peers, NEW s \in Sids \cup {NoSid}, Connect(p, s)
      PROVE  Role!Next
  BY <1>2, RefineConnect DEF Role!Next
<1>3. ASSUME NEW p \in Peers, BeginClose(p)
      PROVE  UNCHANGED Role!roleVars
  BY <1>1, <1>3 DEF BeginClose, roleVars, HostOf, Members, Reserved, ActiveGrace
<1>4. ASSUME NEW p \in Peers, Disconnect(p)
      PROVE  Role!Next
  BY <1>4, RefineDisconnect DEF Role!Next
<1>5. CASE ExpireHostGrace
  BY <1>1, <1>5, RefineExpire DEF Role!Next
\* The sweeper drops a record whose window was over long ago.
<1>6. CASE Sweep
  <2>1. ~ ActiveGrace /\ ~ ActiveGrace'
    BY <1>6 DEF Sweep, SweepAge, ActiveGrace, TypeInv, ElectionTypeOK
  <2> QED
    BY <1>1, <1>6, <2>1 DEF Sweep, memberVars, HostOf, Members, Reserved
<1>7. CASE Tick
  <2>1. UNCHANGED <<seq, sid, HostOf, graceSid>>
    BY <1>7 DEF Tick, memberVars, HostOf, Members
  <2>2. ActiveGrace' => ActiveGrace
    BY <1>7 DEF Tick, ActiveGrace, TypeInv, ElectionTypeOK
  <2>3. CASE ActiveGrace'
    BY <1>1, <2>1, <2>2, <2>3 DEF Reserved
  <2>4. CASE ActiveGrace /\ ~ ActiveGrace'
    BY <2>1, <2>4 DEF Role!Next, Role!Lapse, ActiveGrace
  <2>5. CASE ~ ActiveGrace
    BY <1>1, <2>1, <2>2, <2>5 DEF Reserved
  <2> QED BY <2>3, <2>4, <2>5
<1>8. CASE UNCHANGED electionVars
  BY <1>1, <1>8 DEF electionVars, memberVars, roleVars, HostOf, Members, Reserved, ActiveGrace
<1> QED
  BY <1>2, <1>3, <1>4, <1>5, <1>6, <1>7, <1>8 DEF ElectionNext

\* The room server keeps the promise of HostRole: one host at most, chosen by longest
\* presence, the role withheld from everyone but the departed host's session.
THEOREM HubImplementsHostRole == ElectionSpec => ImplementsHostRole
<1>1. Init => Role!Init
  BY RefinementInit
<1>2. TypeInv /\ RoleInv /\ [ElectionNext]_electionVars => [Role!Next]_(Role!roleVars)
  BY RefinementStep
<1> QED
  BY <1>1, <1>2, ElectionInvariant, PTL DEF ElectionSpec, ImplementsHostRole, Role!Spec

=============================================================================
