-------------------------- MODULE AdmissionProofs --------------------------
(***************************************************************************)
(* Proofs about Admission, for every number of sockets, rooms and          *)
(* addresses and all limits: its types, the caps, the promise that a       *)
(* refusal costs nobody an admission, and the budgets per window.          *)
(***************************************************************************)
EXTENDS Admission, SumTheorems

Socket == Session \cup {Gone, RefusedSocket}
Callers == Addresses \cup {Unbillable}

ClientsTyped == clients \in [Sockets -> Socket]
RecordsTyped ==
  /\ DOMAIN addrState \subseteq Addresses
  /\ \A a \in DOMAIN addrState : addrState[a] \in Scores
HistoryTyped ==
  charged \in [Addresses -> [churn : [Ages -> Nat], soft : [Ages -> Nat]]]

\* A step in which no socket is added: each one goes, or keeps its class and room.
NoneAdded ==
  \A s \in Sockets :
    /\ s \in Sessions' => s \in Sessions /\ clients'[s].room = clients[s].room
    /\ s \in Refused' => s \in Refused

-----------------------------------------------------------------------------
(* Sockets.                                                                *)

LEMMA ClassesApart ==
  ASSUME NEW c \in Socket
  PROVE  /\ c.state \in {"open", "closing", "refused", "gone"}
         /\ c.state = "gone" <=> c = Gone
         /\ c.state = "refused" <=> c = RefusedSocket
         /\ c.state \in {"open", "closing"} <=> c \in Session
  BY DEF Socket, Session, Gone, RefusedSocket

LEMMA ClosingIsASession ==
  ASSUME NEW c \in Session
  PROVE  /\ Closing(c) \in Session
         /\ Closing(c).state = "closing" /\ Closing(c).room = c.room
  BY DEF Closing, Session

LEMMA HeardKeepsTheClass ==
  ASSUME NEW c \in Socket
  PROVE  /\ Heard(c) \in Socket
         /\ Heard(c).state \in {"open", "closing"}
              => c.state \in {"open", "closing"} /\ Heard(c).room = c.room
         /\ Heard(c).state = "refused" => c.state = "refused"
<1>1. CASE c.state = "open" /\ c.hears = "alive"
  <2>1. c \in Session
    BY <1>1, ClassesApart
  <2>2. Heard(c) = [c EXCEPT !.hears = "pinged"]
    BY <1>1 DEF Heard
  <2> QED
    BY <1>1, <2>1, <2>2 DEF Session, Socket
<1>2. CASE c.state = "open" /\ c.hears # "alive"
  <2>1. c \in Session
    BY <1>2, ClassesApart
  <2>2. Heard(c) = Closing(c)
    BY <1>2 DEF Heard
  <2> QED
    BY <1>2, <2>1, <2>2, ClosingIsASession DEF Socket
<1>3. CASE c.state # "open"
  <2>1. Heard(c) = c
    BY <1>3 DEF Heard
  <2> QED
    BY <2>1
<1> QED
  BY <1>1, <1>2, <1>3

\* The steps that only move sockets towards their end.
LEMMA LeavingAddsNone ==
  ASSUME ClientsTyped,
         \/ Heartbeat \/ Tick \/ Sweep \/ Shutdown \/ Restart
         \/ \E s \in Sockets : \/ PingGracePasses(s) \/ Pong(s)
                               \/ CloseSession(s) \/ SocketCloses(s)
         \/ UNCHANGED vars
  PROVE  ClientsTyped' /\ NoneAdded
<1> USE DEF ClientsTyped, NoneAdded, Sessions, Refused
<1>1. CASE UNCHANGED clients
  BY <1>1
<1>2. CASE Heartbeat
  <2>1. \A s \in Sockets : clients'[s] = Heard(clients[s])
    BY <1>2 DEF Heartbeat
  <2> QED
    BY <1>2, <2>1, HeardKeepsTheClass DEF Heartbeat
<1>3. CASE Shutdown
  <2>1. \A s \in Sockets : clients[s].state = "open" =>
          Closing(clients[s]) \in Socket
          /\ Closing(clients[s]).state = "closing"
          /\ Closing(clients[s]).room = clients[s].room
    BY ClassesApart, ClosingIsASession DEF Socket
  <2> QED
    BY <1>3, <2>1 DEF Shutdown
<1>4. CASE Restart
  BY <1>4 DEF Restart, Gone, Socket
<1>5. ASSUME NEW s \in Sockets, SocketCloses(s) PROVE ClientsTyped' /\ NoneAdded
  BY <1>5 DEF SocketCloses, Gone, Socket
<1>6. ASSUME NEW s \in Sockets, CloseSession(s) PROVE ClientsTyped' /\ NoneAdded
  <2>1. Closing(clients[s]) \in Socket /\ Closing(clients[s]).state = "closing"
        /\ Closing(clients[s]).room = clients[s].room
    BY <1>6, ClassesApart, ClosingIsASession DEF CloseSession, Socket
  <2> QED
    BY <1>6, <2>1 DEF CloseSession
<1>7. ASSUME NEW s \in Sockets, PingGracePasses(s) \/ Pong(s)
      PROVE  ClientsTyped' /\ NoneAdded
  <2>1. clients[s] \in Session /\ clients[s].state = "open"
    BY <1>7, ClassesApart DEF PingGracePasses, Pong
  <2>2. PICK h \in {"alive", "quiet"} : clients' = [clients EXCEPT ![s].hears = h]
    BY <1>7 DEF PingGracePasses, Pong
  <2> QED
    BY <2>1, <2>2 DEF Session, Socket
<1> QED
  BY <1>1, <1>2, <1>3, <1>4, <1>5, <1>6, <1>7 DEF Tick, Sweep, vars

\* The steps that answer an upgrade.
LEMMA AnAdmissionAddsOne ==
  ASSUME ClientsTyped, NEW s \in Sockets, NEW a \in Callers, NEW r \in RoomIds,
         Admit(s, a, r)
  PROVE  /\ ClientsTyped'
         /\ Sessions' = Sessions \cup {s}
         /\ Refused' = Refused
         /\ Rooms' \subseteq Rooms \cup {r}
         /\ Members(r)' \subseteq Members(r) \cup {s}
         /\ \A q \in RoomIds \ {r} : Members(q)' = Members(q)
<1> DEFINE new == [state |-> "open", ipKey |-> a, room |-> r, hears |-> "alive"]
<1>1. clients' = [clients EXCEPT ![s] = new] /\ clients[s].state = "gone"
  BY DEF Admit, Gone
<1>2. new \in Session
  BY DEF Session, Callers
<1>3. ClientsTyped'
  BY <1>1, <1>2 DEF ClientsTyped, Socket
<1>4. Sessions' = Sessions \cup {s} /\ Refused' = Refused
  BY <1>1 DEF Sessions, Refused, ClientsTyped
<1>5. \A q \in RoomIds : Members(q)' \subseteq Members(q) \cup {s}
  BY <1>1, <1>4 DEF Members, ClientsTyped
<1>6. \A q \in RoomIds \ {r} : Members(q)' = Members(q)
  BY <1>1, <1>4 DEF Members, Sessions, ClientsTyped
<1>7. Rooms' \subseteq Rooms \cup {r}
  BY <1>6 DEF Rooms
<1> QED
  BY <1>3, <1>4, <1>5, <1>6, <1>7

LEMMA ARefusalAddsNoSession ==
  ASSUME ClientsTyped, NEW s \in Sockets, NEW a \in Callers, NEW r \in RoomIds,
         RefuseSoftly(s, a, r)
  PROVE  /\ ClientsTyped'
         /\ Sessions' = Sessions
         /\ Refused' = Refused \cup {s}
         /\ \A q \in Sessions : clients'[q] = clients[q]
  BY DEF RefuseSoftly, ClientsTyped, Sessions, Refused, Gone, RefusedSocket, Socket

-----------------------------------------------------------------------------
(* The caps.                                                               *)

LEMMA CountsAreNumbers ==
  /\ IsFiniteSet(Sessions) /\ Cardinality(Sessions) \in Nat
  /\ IsFiniteSet(Refused) /\ Cardinality(Refused) \in Nat
  /\ IsFiniteSet(Rooms) /\ Cardinality(Rooms) \in Nat
  /\ \A r \in RoomIds : IsFiniteSet(Members(r)) /\ Cardinality(Members(r)) \in Nat
<1>1. /\ Sessions \in SUBSET Sockets /\ Refused \in SUBSET Sockets
      /\ Rooms \in SUBSET RoomIds
      /\ \A r \in RoomIds : Members(r) \in SUBSET Sockets
  BY DEF Sessions, Refused, Rooms, Members
<1> QED
  BY <1>1, AdmissionConstants, FS_Subset, FS_CardinalityType

LEMMA FewerKeepTheCaps ==
  ASSUME CapsHold, NoneAdded
  PROVE  CapsHold'
<1>1. /\ Sessions' \in SUBSET Sessions /\ Refused' \in SUBSET Refused
      /\ \A r \in RoomIds : Members(r)' \in SUBSET Members(r)
  BY DEF NoneAdded, Sessions, Refused, Members
<1>2. Rooms' \in SUBSET Rooms
  BY <1>1 DEF Rooms
<1>3. /\ Cardinality(Sessions') <= Cardinality(Sessions)
      /\ Cardinality(Refused') <= Cardinality(Refused)
      /\ Cardinality(Rooms') <= Cardinality(Rooms)
      /\ \A r \in RoomIds : Cardinality(Members(r)') <= Cardinality(Members(r))
  BY <1>1, <1>2, CountsAreNumbers, FS_Subset
<1>4. /\ Cardinality(Sessions') \in Nat /\ Cardinality(Refused') \in Nat
      /\ Cardinality(Rooms') \in Nat
      /\ \A r \in RoomIds : Cardinality(Members(r)') \in Nat
  BY <1>1, <1>2, CountsAreNumbers, FS_Subset, FS_CardinalityType
<1> QED
  BY <1>3, <1>4, CountsAreNumbers, AdmissionConstants DEF CapsHold

\* One more element under a limit keeps a count within it.
LEMMA OneMore ==
  ASSUME NEW S, NEW x, NEW T \in SUBSET (S \cup {x}), NEW n \in Nat,
         IsFiniteSet(S), Cardinality(S) < n
  PROVE  Cardinality(T) <= n
<1>0. Cardinality(S) \in Nat
  BY FS_CardinalityType
<1>1. IsFiniteSet(S \cup {x}) /\ Cardinality(S \cup {x}) <= Cardinality(S) + 1
  <2>1. /\ IsFiniteSet(S \cup {x})
        /\ Cardinality(S \cup {x}) =
             IF x \in S THEN Cardinality(S) ELSE Cardinality(S) + 1
    BY FS_AddElement, Zenon
  <2> QED
    BY <1>0, <2>1
<1>2. Cardinality(T) <= Cardinality(S \cup {x})
  BY <1>1, FS_Subset
<1>3. Cardinality(T) \in Nat /\ Cardinality(S) \in Nat /\ Cardinality(S \cup {x}) \in Nat
  BY <1>1, FS_Subset, FS_CardinalityType
<1> QED
  BY <1>1, <1>2, <1>3

LEMMA AdmittingKeepsTheCaps ==
  ASSUME CapsHold, ClientsTyped,
         NEW s \in Sockets, NEW a \in Callers, NEW r \in RoomIds, Admit(s, a, r)
  PROVE  CapsHold'
<1>1. HasPlace(a, r)
  BY DEF Admit, Admits
<1>2. Cardinality(Sessions') <= MaxSockets
  BY <1>1, AnAdmissionAddsOne, CountsAreNumbers, AdmissionConstants, OneMore
     DEF HasPlace, Live
<1>3. Cardinality(Refused') <= MaxRefusals
  BY AnAdmissionAddsOne DEF CapsHold
<1>4. Cardinality(Rooms') <= MaxRooms
  <2>1. CASE r \in Rooms
    <3>1. Rooms' \in SUBSET Rooms
      BY <2>1, AnAdmissionAddsOne
    <3>2. Cardinality(Rooms') <= Cardinality(Rooms) /\ Cardinality(Rooms') \in Nat
      BY <3>1, CountsAreNumbers, FS_Subset, FS_CardinalityType
    <3> QED
      BY <3>2, CountsAreNumbers, AdmissionConstants DEF CapsHold
  <2>2. CASE r \notin Rooms
    BY <1>1, <2>2, AnAdmissionAddsOne, CountsAreNumbers, AdmissionConstants, OneMore
       DEF HasPlace
  <2> QED
    BY <2>1, <2>2
<1>5. Cardinality(Members(r)') <= MaxPeers
  BY <1>1, AnAdmissionAddsOne, CountsAreNumbers, AdmissionConstants, OneMore
     DEF HasPlace
<1>6. \A q \in RoomIds \ {r} : Cardinality(Members(q)') <= MaxPeers
  BY AnAdmissionAddsOne DEF CapsHold
<1> QED
  BY <1>2, <1>3, <1>4, <1>5, <1>6 DEF CapsHold

LEMMA RefusingKeepsTheCaps ==
  ASSUME CapsHold, ClientsTyped,
         NEW s \in Sockets, NEW a \in Callers, NEW r \in RoomIds, RefuseSoftly(s, a, r)
  PROVE  CapsHold'
<1>1. /\ Sessions' = Sessions /\ Rooms' = Rooms
      /\ \A q \in RoomIds : Members(q)' = Members(q)
  BY ARefusalAddsNoSession DEF Members, Rooms
<1>2. Cardinality(Refused) < MaxRefusals
  BY CountsAreNumbers, AdmissionConstants DEF RefuseSoftly, FloodOfRefusals
<1>3. Cardinality(Refused') <= MaxRefusals
  BY <1>2, ARefusalAddsNoSession, CountsAreNumbers, AdmissionConstants, OneMore
<1> QED
  BY <1>1, <1>3 DEF CapsHold

-----------------------------------------------------------------------------
(* The records and the history.                                            *)

LEMMA Products ==
  /\ MaxUpgrades \in Nat /\ MaxSoft \in Nat /\ Window \in Nat \ {0}
  /\ MaxUpgrades * Window \in Nat /\ MaxSoft * Window \in Nat
<1>1. MaxUpgrades \in Nat /\ MaxSoft \in Nat /\ Window \in Nat \ {0}
  BY AdmissionConstants
<1>2. \A m, n \in Nat : m * n \in Nat
  OBVIOUS
<1> QED
  BY <1>1, <1>2

LEMMA RecIsScored ==
  ASSUME RecordsTyped, NEW a \in Addresses
  PROVE  AddrRec(a) \in Scores
  BY Products DEF RecordsTyped, AddrRec, Scores

LEMMA WithRecTyped ==
  ASSUME RecordsTyped, NEW a \in Addresses, NEW rec \in Scores,
         addrState' = WithRec(a, rec)
  PROVE  RecordsTyped'
  BY DEF RecordsTyped, WithRec

LEMMA ChargingKeepsTypes ==
  ASSUME RecordsTyped, HistoryTyped, NEW a \in Callers,
         NEW what \in {"churn", "soft"}, Charge(a, what),
         a \in Addresses => AddrRec(a)[what] + Window
                            <= (IF what = "churn" THEN MaxUpgrades ELSE MaxSoft) * Window
  PROVE  RecordsTyped' /\ HistoryTyped'
<1>1. CASE a \notin Addresses
  BY <1>1 DEF Charge, RecordsTyped, HistoryTyped
<1>2. CASE a \in Addresses
  <2> DEFINE rec == [AddrRec(a) EXCEPT ![what] = @ + Window]
  <2>1. AddrRec(a) \in Scores
    BY <1>2, RecIsScored
  <2>2. rec \in Scores
    <3>1. CASE what = "churn"
      BY <1>2, <2>1, <3>1, Products DEF Scores
    <3>2. CASE what = "soft"
      BY <1>2, <2>1, <3>2, Products DEF Scores
    <3> QED
      BY <3>1, <3>2
  <2>3. RecordsTyped'
    BY <1>2, <2>2, WithRecTyped DEF Charge
  <2> DEFINE Bump(h) == [h EXCEPT ![0] = @ + 1]
             Counts == [churn : [Ages -> Nat], soft : [Ages -> Nat]]
  <2>4. charged' = [charged EXCEPT ![a] =
                      [charged[a] EXCEPT ![what] = Bump(charged[a][what])]]
    BY <1>2 DEF Charge
  <2>5. \A h \in [Ages -> Nat] : Bump(h) \in [Ages -> Nat]
    BY Products DEF Ages
  <2> HIDE DEF Bump
  <2>6. \A c \in Counts : [c EXCEPT ![what] = Bump(c[what])] \in Counts
    <3>1. CASE what = "churn"
      BY <2>5, <3>1
    <3>2. CASE what = "soft"
      BY <2>5, <3>2
    <3> QED
      BY <3>1, <3>2
  <2> HIDE DEF Counts
  <2>7. charged \in [Addresses -> Counts]
    BY DEF HistoryTyped, Counts
  <2>8. charged' \in [Addresses -> Counts]
    BY <1>2, <2>4, <2>6, <2>7
  <2>9. HistoryTyped'
    BY <2>8 DEF HistoryTyped, Counts
  <2> QED
    BY <2>3, <2>9
<1> QED
  BY <1>1, <1>2

LEMMA TimeKeepsTypes ==
  ASSUME RecordsTyped, HistoryTyped, Tick
  PROVE  RecordsTyped' /\ HistoryTyped'
<1>1. \A rec \in Scores : Drained(rec) \in Scores
  <2> SUFFICES ASSUME NEW rec \in Scores PROVE Drained(rec) \in Scores
    OBVIOUS
  <2>1. rec.churn \in 0..(MaxUpgrades * Window) /\ rec.soft \in 0..(MaxSoft * Window)
    BY DEF Scores
  <2>2. Monus(rec.churn, MaxUpgrades) \in 0..(MaxUpgrades * Window)
    BY <2>1, Products DEF Monus
  <2>3. Monus(rec.soft, MaxSoft) \in 0..(MaxSoft * Window)
    BY <2>1, Products DEF Monus
  <2> QED
    BY <2>2, <2>3 DEF Drained, Scores
<1>2. RecordsTyped'
  BY <1>1 DEF Tick, RecordsTyped
<1>3. \A h \in [Ages -> Nat] : Aged(h) \in [Ages -> Nat]
  BY Products DEF Aged, Ages
<1>4. HistoryTyped'
  BY <1>3 DEF Tick, HistoryTyped
<1> QED
  BY <1>2, <1>4

LEMMA SweepingKeepsTypes ==
  ASSUME RecordsTyped, Sweep
  PROVE  RecordsTyped'
  BY DEF RecordsTyped, Sweep, Restrict

LEMMA RecordsInit ==
  ASSUME addrState = <<>>, charged = Nothing
  PROVE  RecordsTyped /\ HistoryTyped
  BY DEF RecordsTyped, HistoryTyped, Nothing

-----------------------------------------------------------------------------
(* The theorems.                                                           *)

LEMMA TypesAreParts ==
  AdmTypeOK <=> ClientsTyped /\ RecordsTyped /\ HistoryTyped /\ serving \in BOOLEAN
  BY DEF AdmTypeOK, ClientsTyped, RecordsTyped, HistoryTyped, Socket

AdmInv == AdmTypeOK /\ CapsHold

LEMMA AdmInit == Init => AdmInv
<1> SUFFICES ASSUME Init PROVE AdmInv
  OBVIOUS
<1>1. ClientsTyped
  BY DEF Init, ClientsTyped, Socket
<1>2. RecordsTyped /\ HistoryTyped
  BY RecordsInit DEF Init
<1>3. Sessions = {} /\ Refused = {}
  BY DEF Init, Sessions, Refused, Gone
<1>4. Rooms = {} /\ \A r \in RoomIds : Members(r) = {}
  BY <1>3 DEF Rooms, Members
<1>5. CapsHold
  BY <1>3, <1>4, FS_EmptySet, AdmissionConstants DEF CapsHold
<1> QED
  BY <1>1, <1>2, <1>5, TypesAreParts DEF AdmInv, Init

LEMMA AdmStep == AdmInv /\ [Next]_vars => AdmInv'
<1> SUFFICES ASSUME AdmInv, [Next]_vars PROVE AdmInv'
  OBVIOUS
<1>0. ClientsTyped /\ RecordsTyped /\ HistoryTyped /\ serving \in BOOLEAN /\ CapsHold
  BY TypesAreParts DEF AdmInv
<1> DEFINE Goal == ClientsTyped' /\ RecordsTyped' /\ HistoryTyped'
                   /\ serving' \in BOOLEAN /\ CapsHold'
<1>1. ASSUME NEW s \in Sockets, NEW a \in Callers, NEW r \in RoomIds, Admit(s, a, r)
      PROVE  Goal
  <2>1. a \in Addresses => AddrRec(a).churn + Window <= MaxUpgrades * Window
    BY <1>0, <1>1, RecIsScored, Products DEF Admit, Admits, OverChurnBudget, Scores
  <2>2. RecordsTyped' /\ HistoryTyped'
    BY <1>0, <1>1, <2>1, ChargingKeepsTypes DEF Admit
  <2> QED
    BY <1>0, <1>1, <2>2, AnAdmissionAddsOne, AdmittingKeepsTheCaps DEF Admit
<1>2. ASSUME NEW a \in Callers, NEW r \in RoomIds, AdmitTheDeparted(a, r)
      PROVE  Goal
  <2>1. AddrRec(a).churn + Window <= MaxUpgrades * Window
    BY <1>0, <1>2, RecIsScored, Products
       DEF AdmitTheDeparted, Admits, OverChurnBudget, Scores
  <2>2. RecordsTyped' /\ HistoryTyped'
    BY <1>0, <1>2, <2>1, ChargingKeepsTypes DEF AdmitTheDeparted
  <2> QED
    BY <1>0, <1>2, <2>2, FewerKeepTheCaps
       DEF AdmitTheDeparted, ClientsTyped, NoneAdded, Sessions, Refused
<1>3. ASSUME NEW s \in Sockets, NEW a \in Callers, NEW r \in RoomIds,
             RefuseSoftly(s, a, r)
      PROVE  Goal
  <2>1. a \in Addresses => AddrRec(a).soft + Window <= MaxSoft * Window
    BY <1>3 DEF RefuseSoftly, SoftRefusalAllowed
  <2>2. RecordsTyped' /\ HistoryTyped'
    BY <1>0, <1>3, <2>1, ChargingKeepsTypes DEF RefuseSoftly
  <2> QED
    BY <1>0, <1>3, <2>2, ARefusalAddsNoSession, RefusingKeepsTheCaps DEF RefuseSoftly
<1>4. ASSUME NEW a \in Callers, NEW r \in RoomIds, RefuseHard(a, r)
      PROVE  Goal
  <2>1. RecordsTyped' /\ HistoryTyped'
    BY <1>0, <1>4, RecIsScored, WithRecTyped
       DEF RefuseHard, Uncharged, RecordsTyped, HistoryTyped
  <2> QED
    BY <1>0, <1>4, <2>1, FewerKeepTheCaps
       DEF RefuseHard, ClientsTyped, NoneAdded, Sessions, Refused
<1>5. ASSUME NEW a \in Callers, NEW r \in RoomIds, RefuseTheDeparted(a, r)
      PROVE  Goal
  <2>1. AddrRec(a).soft + Window <= MaxSoft * Window
    BY <1>5 DEF RefuseTheDeparted, SoftRefusalAllowed
  <2>2. RecordsTyped' /\ HistoryTyped'
    BY <1>0, <1>5, <2>1, ChargingKeepsTypes DEF RefuseTheDeparted
  <2> QED
    BY <1>0, <1>5, <2>2, FewerKeepTheCaps
       DEF RefuseTheDeparted, ClientsTyped, NoneAdded, Sessions, Refused
<1>6. ASSUME \/ Heartbeat \/ Tick \/ Sweep \/ Shutdown \/ Restart
             \/ \E s \in Sockets : \/ PingGracePasses(s) \/ Pong(s)
                                   \/ CloseSession(s) \/ SocketCloses(s)
             \/ UNCHANGED vars
      PROVE  Goal
  <2>1. ClientsTyped' /\ CapsHold'
    BY <1>0, <1>6, LeavingAddsNone, FewerKeepTheCaps
  <2>2. RecordsTyped' /\ HistoryTyped' /\ serving' \in BOOLEAN
    <3>1. CASE Tick
      BY <1>0, <3>1, TimeKeepsTypes DEF Tick
    <3>2. CASE Sweep
      BY <1>0, <3>2, SweepingKeepsTypes DEF Sweep, HistoryTyped
    <3>3. CASE Restart
      BY <3>3 DEF Restart, RecordsTyped, HistoryTyped, Nothing
    <3>4. CASE UNCHANGED <<addrState, charged>> /\ serving' \in BOOLEAN
      BY <1>0, <3>4 DEF RecordsTyped, HistoryTyped
    <3> QED
      BY <1>0, <1>6, <3>1, <3>2, <3>3, <3>4
         DEF Heartbeat, Shutdown, PingGracePasses, Pong, CloseSession, SocketCloses, vars
  <2> QED
    BY <2>1, <2>2
<1>7. Goal
  BY <1>1, <1>2, <1>3, <1>4, <1>5, <1>6 DEF Next, Knock, Callers
<1>8. AdmTypeOK' <=> ClientsTyped' /\ RecordsTyped' /\ HistoryTyped'
                     /\ serving' \in BOOLEAN
  BY DEF AdmTypeOK, ClientsTyped, RecordsTyped, HistoryTyped, Socket
<1> QED
  BY <1>7, <1>8 DEF AdmInv

\* Whatever the limits, the sockets, scores and records of the relay keep
\* their types: no score passes its budget (overChurnBudget, softRefusalAllowed).
THEOREM AdmissionTypeCorrect == Spec => []AdmTypeOK
<1>1. AdmInv => AdmTypeOK
  BY DEF AdmInv
<1> QED
  BY <1>1, AdmInit, AdmStep, PTL DEF Spec

\* Whatever the limits, no room, address book of rooms or set of sockets goes
\* over its cap, sockets that are leaving included (verifyClient).
THEOREM CapsAreKept == Spec => []CapsHold
<1>1. AdmInv => CapsHold
  BY DEF AdmInv
<1> QED
  BY <1>1, AdmInit, AdmStep, PTL DEF Spec

-----------------------------------------------------------------------------
(* Refusals.                                                               *)

\* What a refusal leaves as it was: all that verifyClient asks of the others.
LEMMA RefusalsMoveNothing ==
  ASSUME AdmTypeOK, NEW a \in Callers, NEW r \in RoomIds,
         ~Admits(a, r), Knock(a, r)
  PROVE  /\ Sessions' = Sessions
         /\ \A s \in Sessions : clients'[s] = clients[s]
         /\ \A b \in Addresses : AddrRec(b)'.churn = AddrRec(b).churn
<1>1. ClientsTyped /\ RecordsTyped
  BY TypesAreParts
<1>2. \A rec : \A b \in Addresses :
        rec.churn = AddrRec(a).churn /\ a \in Addresses /\ addrState' = WithRec(a, rec)
          => AddrRec(b)'.churn = AddrRec(b).churn
  BY DEF AddrRec, WithRec
<1>3. ASSUME Charge(a, "soft")
      PROVE  \A b \in Addresses : AddrRec(b)'.churn = AddrRec(b).churn
  <2>1. CASE a \in Addresses
    <3>1. AddrRec(a) \in Scores
      BY <1>1, <2>1, RecIsScored
    <3>2. [AddrRec(a) EXCEPT !["soft"] = @ + Window].churn = AddrRec(a).churn
      BY <3>1 DEF Scores
    <3>3. addrState' = WithRec(a, [AddrRec(a) EXCEPT !["soft"] = @ + Window])
      BY <1>3, <2>1 DEF Charge
    <3> QED
      BY <1>2, <2>1, <3>2, <3>3
  <2>2. CASE a \notin Addresses
    BY <1>3, <2>2 DEF Charge, AddrRec
  <2> QED
    BY <2>1, <2>2
<1>4. ASSUME RefuseHard(a, r)
      PROVE  \A b \in Addresses : AddrRec(b)'.churn = AddrRec(b).churn
  <2>1. CASE a \in Addresses
    <3>1. addrState' = WithRec(a, AddrRec(a))
      BY <1>4, <2>1 DEF RefuseHard, Uncharged
    <3> QED
      BY <1>2, <2>1, <3>1
  <2>2. CASE a \notin Addresses
    BY <1>4, <2>2 DEF RefuseHard, Uncharged, AddrRec
  <2> QED
    BY <2>1, <2>2
<1>5. ASSUME NEW s \in Sockets, RefuseSoftly(s, a, r)
      PROVE  Sessions' = Sessions /\ \A q \in Sessions : clients'[q] = clients[q]
  BY <1>1, <1>5, ARefusalAddsNoSession
<1>6. ASSUME RefuseTheDeparted(a, r) \/ RefuseHard(a, r)
      PROVE  Sessions' = Sessions /\ \A q \in Sessions : clients'[q] = clients[q]
  BY <1>6 DEF RefuseTheDeparted, RefuseHard, Sessions
<1> QED
  BY <1>3, <1>4, <1>5, <1>6
     DEF Knock, Admit, AdmitTheDeparted, RefuseSoftly, RefuseTheDeparted

LEMMA TheUnmovedAreAdmitted ==
  ASSUME Sessions' = Sessions,
         \A s \in Sessions : clients'[s] = clients[s],
         \A b \in Addresses : AddrRec(b)'.churn = AddrRec(b).churn,
         NEW a \in Callers, NEW r \in RoomIds, Admits(a, r)
  PROVE  Admits(a, r)'
<1>1. \A q \in RoomIds : Members(q)' = Members(q)
  BY DEF Members
<1>2. Rooms' = Rooms
  BY <1>1 DEF Rooms
<1>3. FromKey(a)' = FromKey(a)
  BY DEF FromKey, Live, Billable
<1>4. HasPlace(a, r)'
  BY <1>1, <1>2, <1>3 DEF Admits, HasPlace, Live
<1>5. ~OverChurnBudget(a)'
  BY DEF Admits, OverChurnBudget
<1> QED
  BY <1>4, <1>5 DEF Admits

\* Whatever the limits, a refused attempt never makes the next one, at any
\* address and for any room, likelier to be refused (addrState, lines 405-408).
THEOREM RefusalsAreFree == Spec => RefusalsCostNothing
<1>1. AdmInv /\ [Next]_vars =>
        [ (\E a \in Addresses \cup {Unbillable}, r \in RoomIds :
             ~Admits(a, r) /\ Knock(a, r))
          => \A a \in Addresses \cup {Unbillable}, r \in RoomIds :
               Admits(a, r) => Admits(a, r)' ]_vars
  BY RefusalsMoveNothing, TheUnmovedAreAdmitted DEF AdmInv, Callers
<1> QED
  BY <1>1, AdmInit, AdmStep, PTL DEF Spec, RefusalsCostNothing

-----------------------------------------------------------------------------
(* The upgrades of the last k+1 ticks.                                     *)

Counts == [Ages -> Nat]
UpTo(counts, k) == Total(counts, 0..k)

LEMMA AgesAreCounted ==
  /\ 0 \in Ages /\ Window - 1 \in Ages /\ Ages \subseteq Nat
  /\ \A k \in Ages : IsFiniteSet(0..k) /\ 0..k \subseteq Ages
  /\ \A k \in Ages : k # 0 => k - 1 \in Ages
  BY Products, FS_Interval DEF Ages

LEMMA UpToRules ==
  ASSUME NEW counts \in Counts
  PROVE  /\ \A k \in Ages : UpTo(counts, k) \in Nat
         /\ UpTo(counts, 0) = counts[0]
         /\ \A k \in Ages : k # 0 => UpTo(counts, k) = UpTo(counts, k - 1) + counts[k]
<1>1. \A t \in Ages : counts[t] \in Nat
  BY DEF Counts
<1>2. ASSUME NEW k \in Ages
      PROVE  /\ Total(counts, 0..k) \in Nat
             /\ Total(counts, {}) = 0
             /\ \A t \in 0..k : Total(counts, 0..k) = counts[t] + Total(counts, (0..k) \ {t})
  BY <1>1, AgesAreCounted, TotalRules
<1>3. UpTo(counts, 0) = counts[0]
  <2>1. (0..0) \ {0} = {} /\ 0 \in 0..0
    OBVIOUS
  <2>2. Total(counts, 0..0) = counts[0] + Total(counts, (0..0) \ {0})
    BY <1>2, <2>1, AgesAreCounted
  <2> QED
    BY <1>1, <1>2, <2>1, <2>2, AgesAreCounted DEF UpTo
<1>4. ASSUME NEW k \in Ages, k # 0
      PROVE  UpTo(counts, k) = UpTo(counts, k - 1) + counts[k]
  <2>1. k - 1 \in Ages /\ k \in Nat /\ k \in 0..k /\ (0..k) \ {k} = 0..(k - 1)
    BY <1>4, AgesAreCounted
  <2>2. Total(counts, 0..k) = counts[k] + Total(counts, (0..k) \ {k})
    BY <1>2, <2>1
  <2>3. Total(counts, 0..(k - 1)) \in Nat /\ counts[k] \in Nat
    BY <1>1, <1>2, <2>1
  <2> QED
    <3>1. Total(counts, 0..k) = counts[k] + Total(counts, 0..(k - 1))
      BY <2>1, <2>2
    <3> HIDE DEF Counts
    <3> QED
      BY <2>3, <3>1 DEF UpTo
<1> QED
  BY <1>2, <1>3, <1>4 DEF UpTo

\* The fold of the run's property is the sum of every age.
LEMMA WindowIsUpToItsEnd ==
  ASSUME NEW counts \in Counts
  PROVE  InWindow(counts) = UpTo(counts, Window - 1)
  BY DEF InWindow, UpTo, Counts, Ages, SumFunction, SumFunctionOnSet,
         FoldFunctionOnSet, MapThenFoldSet, Total, IsTotal, Unfold, First

\* A property of the first age and of each next one is one of every age.
LEMMA FromAgeToAge ==
  ASSUME NEW bad \in SUBSET Ages, 0 \notin bad,
         \A k \in Ages : k # 0 /\ k \in bad => k - 1 \in bad
  PROVE  bad = {}
<1>1. CASE bad # {}
  <2>1. PICK k \in bad : \A m \in bad : ~ (m < k)
    BY <1>1, LeastNumber, AgesAreCounted
  <2> QED
    BY <2>1, AgesAreCounted
<1> QED
  BY <1>1

LEMMA AgingShifts ==
  ASSUME NEW counts \in Counts
  PROVE  /\ Aged(counts) \in Counts
         /\ UpTo(Aged(counts), 0) = 0
         /\ \A k \in Ages : k # 0 => UpTo(Aged(counts), k) = UpTo(counts, k - 1)
<1> DEFINE old == Aged(counts)
           bad == {k \in Ages : k # 0 /\ UpTo(old, k) # UpTo(counts, k - 1)}
<1>1. old \in Counts /\ old[0] = 0 /\ \A k \in Ages : k # 0 => old[k] = counts[k - 1]
  BY AgesAreCounted DEF Aged, Counts
<1> HIDE DEF old
<1>2. /\ UpTo(old, 0) = 0
      /\ \A k \in Ages : k # 0 => UpTo(old, k) = UpTo(old, k - 1) + counts[k - 1]
  BY <1>1, UpToRules
<1>3. /\ UpTo(counts, 0) = counts[0] /\ counts[0] \in Nat
      /\ \A k \in Ages : k # 0 => UpTo(counts, k) = UpTo(counts, k - 1) + counts[k]
  BY UpToRules, AgesAreCounted DEF Counts
<1>4. ASSUME NEW k \in bad PROVE k - 1 \in bad
  <2>1. k - 1 \in Ages /\ k # 0 /\ k \in Ages
    BY AgesAreCounted
  <2>2. k - 1 # 0
    <3> SUFFICES ASSUME k - 1 = 0 PROVE FALSE
      OBVIOUS
    <3>1. k = 1 /\ UpTo(old, k) = UpTo(old, 0) + counts[0]
      BY <1>2, <2>1, AgesAreCounted
    <3> QED
      BY <1>2, <1>3, <3>1
  <2> QED
    BY <1>2, <1>3, <2>1, <2>2
<1>5. bad = {}
  <2> HIDE DEF bad
  <2>1. bad \in SUBSET Ages /\ 0 \notin bad
    BY DEF bad
  <2> QED
    BY <1>4, <2>1, FromAgeToAge
<1> QED
  BY <1>1, <1>2, <1>5 DEF old

LEMMA ChargingAddsOne ==
  ASSUME NEW counts \in Counts, NEW more, more = [counts EXCEPT ![0] = @ + 1]
  PROVE  more \in Counts /\ \A k \in Ages : UpTo(more, k) = UpTo(counts, k) + 1
<1>1. /\ more \in Counts /\ more[0] = counts[0] + 1 /\ counts[0] \in Nat
      /\ \A k \in Ages : k # 0 => more[k] = counts[k]
  BY AgesAreCounted DEF Counts
<1> DEFINE bad == {k \in Ages : UpTo(more, k) # UpTo(counts, k) + 1}
<1>2. \A k \in Ages : k # 0 => /\ UpTo(counts, k) = UpTo(counts, k - 1) + counts[k]
                               /\ UpTo(more, k) = UpTo(more, k - 1) + counts[k]
  BY <1>1, UpToRules
<1>3. \A k \in Ages : UpTo(counts, k) \in Nat /\ counts[k] \in Nat
                     /\ UpTo(more, k) \in Nat
  BY <1>1, UpToRules DEF Counts
<1>4. UpTo(more, 0) = UpTo(counts, 0) + 1
  BY <1>1, UpToRules
<1>5. ASSUME NEW k \in bad, k # 0 PROVE k - 1 \in bad
  <2>1. k \in Ages /\ k - 1 \in Ages
    BY <1>5, AgesAreCounted
  <2>2. UpTo(counts, k - 1) \in Nat /\ counts[k] \in Nat /\ UpTo(more, k - 1) \in Nat
    BY <1>3, <2>1
  <2>3. /\ UpTo(counts, k) = UpTo(counts, k - 1) + counts[k]
        /\ UpTo(more, k) = UpTo(more, k - 1) + counts[k]
    BY <1>2, <1>5, <2>1
  <2>4. UpTo(more, k) # UpTo(counts, k) + 1
    OBVIOUS
  <2>5. UpTo(more, k - 1) # UpTo(counts, k - 1) + 1
    BY <2>2, <2>3, <2>4
  <2> QED
    BY <2>1, <2>5
<1>6. bad = {}
  <2> HIDE DEF bad
  <2>1. bad \in SUBSET Ages /\ 0 \notin bad
    BY <1>4 DEF bad
  <2> QED
    BY <1>5, <2>1, FromAgeToAge
<1> QED
  BY <1>1, <1>6

LEMMA NoChargesSumToNothing ==
  ASSUME NEW none, none = [t \in Ages |-> 0]
  PROVE  none \in Counts /\ \A k \in Ages : UpTo(none, k) = 0
<1> DEFINE bad == {k \in Ages : UpTo(none, k) # 0}
<1>1. none \in Counts /\ \A k \in Ages : none[k] = 0
  BY DEF Counts
<1>2. UpTo(none, 0) = 0 /\ \A k \in Ages : k # 0 => UpTo(none, k) = UpTo(none, k - 1) + 0
  BY <1>1, UpToRules, AgesAreCounted
<1>3. ASSUME NEW k \in bad, k # 0 PROVE k - 1 \in bad
  <2>1. k \in Ages /\ k - 1 \in Ages
    BY <1>3, AgesAreCounted
  <2>2. UpTo(none, k) = UpTo(none, k - 1) + 0 /\ UpTo(none, k) # 0
    BY <1>2, <1>3, <2>1
  <2> QED
    BY <2>1, <2>2
<1>4. bad = {}
  <2> HIDE DEF bad
  <2>1. bad \in SUBSET Ages /\ 0 \notin bad
    BY <1>2 DEF bad
  <2> QED
    BY <1>3, <2>1, FromAgeToAge
<1> QED
  BY <1>1, <1>4

-----------------------------------------------------------------------------
(* A leaky score against the history it forgets.  What was charged in the  *)
(* last k+1 ticks is still in the score, less what k drains took; and the  *)
(* score holds no more than that and what is left of an older full bucket. *)

Tracks(score, counts, max) ==
  \A k \in Ages :
    /\ Window * UpTo(counts, k) <= score + k * max
    /\ score <= Window * UpTo(counts, k) + (Window - 1 - k) * max

ScoresTrack ==
  \A a \in Addresses :
    /\ Tracks(AddrRec(a).churn, charged[a].churn, MaxUpgrades)
    /\ Tracks(AddrRec(a).soft, charged[a].soft, MaxSoft)

LEMMA TracksWhenCharged ==
  ASSUME NEW score \in Nat, NEW counts \in Counts, NEW max \in Nat,
         Tracks(score, counts, max)
  PROVE  Tracks(score + Window, [counts EXCEPT ![0] = @ + 1], max)
<1> DEFINE more == [counts EXCEPT ![0] = @ + 1]
<1> SUFFICES ASSUME NEW k \in Ages
             PROVE  /\ Window * UpTo(more, k) <= score + Window + k * max
                    /\ score + Window <= Window * UpTo(more, k) + (Window - 1 - k) * max
  BY DEF Tracks
<1>1. UpTo(more, k) = UpTo(counts, k) + 1 /\ UpTo(counts, k) \in Nat
  BY ChargingAddsOne, UpToRules
<1>2. \A u, n \in Nat : n * (u + 1) = n * u + n /\ n * u \in Nat
  OBVIOUS
<1>3. Window * UpTo(more, k) = Window * UpTo(counts, k) + Window
  BY <1>1, <1>2, Products
<1>4. k * max \in Int /\ (Window - 1 - k) * max \in Int
      /\ Window * UpTo(counts, k) \in Int /\ Window \in Int
  BY <1>1, Products, AgesAreCounted
<1> QED
  BY <1>3, <1>4 DEF Tracks

LEMMA TracksWhenDrained ==
  ASSUME NEW score \in Nat, NEW counts \in Counts, NEW max \in Nat,
         score <= max * Window, Tracks(score, counts, max)
  PROVE  Tracks(Monus(score, max), Aged(counts), max)
<1> SUFFICES ASSUME NEW k \in Ages
             PROVE  /\ Window * UpTo(Aged(counts), k) <= Monus(score, max) + k * max
                    /\ Monus(score, max) <= Window * UpTo(Aged(counts), k)
                                              + (Window - 1 - k) * max
  BY DEF Tracks
<1>1. Monus(score, max) \in Nat /\ Monus(score, max) >= score - max
      /\ (Monus(score, max) = 0 \/ Monus(score, max) = score - max)
  BY DEF Monus
<1>2. k \in Nat /\ Window \in Nat /\ k <= Window - 1
  BY Products DEF Ages
<1>3. \A m, n \in Nat : m * n \in Nat
  OBVIOUS
<1>4. (Window - 1 - k) * max \in Nat /\ k * max \in Nat
  <2>1. Window - 1 - k \in Nat
    BY <1>2
  <2> QED
    BY <1>2, <1>3, <2>1
<1>5. CASE k = 0
  <2>1. UpTo(Aged(counts), k) = 0
    BY <1>5, AgingShifts
  <2>2. Window * 0 = 0 /\ 0 * max = 0
    BY <1>2
  <2>3. (Window - 1 - k) * max = max * Window - max
    <3>1. \A n, m \in Nat : (n - 1 - 0) * m = m * n - m
      OBVIOUS
    <3> QED
      BY <1>2, <1>5, <3>1
  <2>4. max * Window \in Nat
    BY <1>2, <1>3
  <2> QED
    BY <1>1, <1>4, <1>5, <2>1, <2>2, <2>3, <2>4
<1>6. CASE k # 0
  <2> DEFINE j == k - 1
  <2>1. UpTo(Aged(counts), k) = UpTo(counts, j) /\ j \in Ages
        /\ UpTo(counts, j) \in Nat /\ j \in Nat
    BY <1>6, AgingShifts, AgesAreCounted, UpToRules
  <2>2. /\ Window * UpTo(counts, j) <= score + j * max
        /\ score <= Window * UpTo(counts, j) + (Window - 1 - j) * max
    BY <2>1 DEF Tracks
  <2>3. k * max = j * max + max /\ (Window - 1 - j) * max = (Window - 1 - k) * max + max
    <3>1. \A i, n, m \in Int : /\ i * m = (i - 1) * m + m
                               /\ (n - 1 - (i - 1)) * m = (n - 1 - i) * m + m
      OBVIOUS
    <3> QED
      BY <1>2, <3>1
  <2>4. Window * UpTo(counts, j) \in Nat /\ j * max \in Nat
    BY <1>2, <1>3, <2>1
  <2> HIDE DEF j
  <2> QED
    BY <1>1, <1>4, <2>1, <2>2, <2>3, <2>4
<1> QED
  BY <1>5, <1>6

LEMMA TracksFromNothing ==
  ASSUME NEW max \in Nat
  PROVE  Tracks(0, [t \in Ages |-> 0], max)
<1> SUFFICES ASSUME NEW k \in Ages
             PROVE  /\ Window * UpTo([t \in Ages |-> 0], k) <= 0 + k * max
                    /\ 0 <= Window * UpTo([t \in Ages |-> 0], k) + (Window - 1 - k) * max
  BY DEF Tracks
<1>1. UpTo([t \in Ages |-> 0], k) = 0
  BY NoChargesSumToNothing
<1>2. k \in Nat /\ Window - 1 - k \in Nat /\ Window \in Nat
  BY Products DEF Ages
<1>3. \A m, n \in Nat : m * n \in Nat /\ m * 0 = 0
  OBVIOUS
<1>4. k * max \in Nat /\ (Window - 1 - k) * max \in Nat /\ Window * 0 = 0
  BY <1>2, <1>3
<1> QED
  BY <1>1, <1>4

-----------------------------------------------------------------------------
(* Every score tracks its history, in every state.                         *)

LEMMA HistoryCounts ==
  ASSUME HistoryTyped, NEW a \in Addresses
  PROVE  charged[a].churn \in Counts /\ charged[a].soft \in Counts
  BY DEF HistoryTyped, Counts

\* A step that leaves the scores and the history leaves what they say of each other.
LEMMA TrackingUntouched ==
  ASSUME ScoresTrack, charged' = charged,
         \A a \in Addresses : AddrRec(a)' = AddrRec(a)
  PROVE  ScoresTrack'
<1> SUFFICES ASSUME NEW a \in Addresses
             PROVE  /\ Tracks(AddrRec(a)'.churn, charged'[a].churn, MaxUpgrades)
                    /\ Tracks(AddrRec(a)'.soft, charged'[a].soft, MaxSoft)
  BY DEF ScoresTrack, Tracks, UpTo
<1> QED
  BY DEF ScoresTrack

LEMMA ChargingIsTracked ==
  ASSUME RecordsTyped, HistoryTyped, ScoresTrack,
         NEW a \in Callers, NEW what \in {"churn", "soft"}, Charge(a, what)
  PROVE  ScoresTrack'
<1>1. CASE a \notin Addresses
  BY <1>1, TrackingUntouched DEF Charge, AddrRec
<1>2. CASE a \in Addresses
  <2> DEFINE rec == [AddrRec(a) EXCEPT ![what] = @ + Window]
             more == [charged[a][what] EXCEPT ![0] = @ + 1]
  <2>1. AddrRec(a) \in Scores /\ charged[a].churn \in Counts /\ charged[a].soft \in Counts
    BY <1>2, RecIsScored, HistoryCounts
  <2>2. \A b \in Addresses : AddrRec(b)' = IF b = a THEN rec ELSE AddrRec(b)
    BY <1>2 DEF Charge, AddrRec, WithRec
  <2>3. /\ \A b \in Addresses \ {a} : charged'[b] = charged[b]
        /\ charged'[a] = [charged[a] EXCEPT ![what] = more]
    BY <1>2 DEF Charge, HistoryTyped
  <2>4. /\ Tracks(AddrRec(a).churn, charged[a].churn, MaxUpgrades)
        /\ Tracks(AddrRec(a).soft, charged[a].soft, MaxSoft)
    BY <1>2 DEF ScoresTrack
  <2>5. AddrRec(a).churn \in Nat /\ AddrRec(a).soft \in Nat
    BY <2>1, Products DEF Scores
  <2>6. /\ Tracks(rec.churn, [charged[a] EXCEPT ![what] = more].churn, MaxUpgrades)
        /\ Tracks(rec.soft, [charged[a] EXCEPT ![what] = more].soft, MaxSoft)
    <3>1. CASE what = "churn"
      <4>1. rec.churn = AddrRec(a).churn + Window /\ rec.soft = AddrRec(a).soft
        BY <2>1, <3>1 DEF Scores
      <4>2. /\ [charged[a] EXCEPT ![what] = more].churn
                 = [charged[a].churn EXCEPT ![0] = @ + 1]
            /\ [charged[a] EXCEPT ![what] = more].soft = charged[a].soft
        BY <1>2, <3>1 DEF HistoryTyped
      <4>3. Tracks(AddrRec(a).churn + Window, [charged[a].churn EXCEPT ![0] = @ + 1],
                   MaxUpgrades)
        BY <2>1, <2>4, <2>5, Products, TracksWhenCharged
      <4> QED
        BY <2>4, <4>1, <4>2, <4>3
    <3>2. CASE what = "soft"
      <4>1. rec.soft = AddrRec(a).soft + Window /\ rec.churn = AddrRec(a).churn
        BY <2>1, <3>2 DEF Scores
      <4>2. /\ [charged[a] EXCEPT ![what] = more].soft
                 = [charged[a].soft EXCEPT ![0] = @ + 1]
            /\ [charged[a] EXCEPT ![what] = more].churn = charged[a].churn
        BY <1>2, <3>2 DEF HistoryTyped
      <4>3. Tracks(AddrRec(a).soft + Window, [charged[a].soft EXCEPT ![0] = @ + 1],
                   MaxSoft)
        BY <2>1, <2>4, <2>5, Products, TracksWhenCharged
      <4> QED
        BY <2>4, <4>1, <4>2, <4>3
    <3> QED
      BY <3>1, <3>2
  <2> HIDE DEF rec, more
  <2> SUFFICES ASSUME NEW b \in Addresses
               PROVE  /\ Tracks(AddrRec(b)'.churn, charged'[b].churn, MaxUpgrades)
                      /\ Tracks(AddrRec(b)'.soft, charged'[b].soft, MaxSoft)
    BY DEF ScoresTrack, Tracks, UpTo
  <2> QED
    BY <2>2, <2>3, <2>6 DEF ScoresTrack
<1> QED
  BY <1>1, <1>2

LEMMA TimeIsTracked ==
  ASSUME RecordsTyped, HistoryTyped, ScoresTrack, Tick
  PROVE  ScoresTrack'
<1> SUFFICES ASSUME NEW a \in Addresses
             PROVE  /\ Tracks(AddrRec(a)'.churn, charged'[a].churn, MaxUpgrades)
                    /\ Tracks(AddrRec(a)'.soft, charged'[a].soft, MaxSoft)
  BY DEF ScoresTrack, Tracks, UpTo
<1>1. AddrRec(a)' = Drained(AddrRec(a))
  <2>1. a \notin DOMAIN addrState => Drained(AddrRec(a)) = AddrRec(a)
    BY Products DEF AddrRec, Drained, Monus
  <2> QED
    BY <2>1 DEF Tick, AddrRec
<1>2. /\ AddrRec(a)'.churn = Monus(AddrRec(a).churn, MaxUpgrades)
      /\ AddrRec(a)'.soft = Monus(AddrRec(a).soft, MaxSoft)
  BY <1>1 DEF Drained
<1>3. /\ charged'[a].churn = Aged(charged[a].churn)
      /\ charged'[a].soft = Aged(charged[a].soft)
  BY DEF Tick
<1>4. /\ AddrRec(a).churn \in Nat /\ AddrRec(a).churn <= MaxUpgrades * Window
      /\ AddrRec(a).soft \in Nat /\ AddrRec(a).soft <= MaxSoft * Window
  BY RecIsScored, Products DEF Scores
<1> QED
  BY <1>2, <1>3, <1>4, TracksWhenDrained, HistoryCounts, Products DEF ScoresTrack

\* A record is dropped when it says what no record says.
LEMMA SweepingIsTracked ==
  ASSUME RecordsTyped, ScoresTrack, Sweep
  PROVE  ScoresTrack'
<1>1. \A a \in Addresses : AddrRec(a)' = AddrRec(a)
  <2> SUFFICES ASSUME NEW a \in Addresses PROVE AddrRec(a)' = AddrRec(a)
    OBVIOUS
  <2>1. CASE a \in DOMAIN addrState /\ Spent(addrState[a])
    <3>1. addrState[a] = [churn |-> 0, soft |-> 0]
      BY <2>1 DEF RecordsTyped, Scores, Spent
    <3> QED
      BY <2>1, <3>1 DEF Sweep, Restrict, AddrRec
  <2>2. CASE ~ (a \in DOMAIN addrState /\ Spent(addrState[a]))
    BY <2>2 DEF Sweep, Restrict, AddrRec
  <2> QED
    BY <2>1, <2>2
<1> QED
  BY <1>1, TrackingUntouched DEF Sweep

LEMMA TrackedFromTheStart ==
  ASSUME addrState = <<>>, charged = Nothing
  PROVE  ScoresTrack
<1> SUFFICES ASSUME NEW a \in Addresses
             PROVE  /\ Tracks(AddrRec(a).churn, charged[a].churn, MaxUpgrades)
                    /\ Tracks(AddrRec(a).soft, charged[a].soft, MaxSoft)
  BY DEF ScoresTrack
<1>1. AddrRec(a) = [churn |-> 0, soft |-> 0]
  BY DEF AddrRec
<1>2. charged[a].churn = [t \in Ages |-> 0] /\ charged[a].soft = [t \in Ages |-> 0]
  BY DEF Nothing
<1> QED
  BY <1>1, <1>2, TracksFromNothing, Products

LEMMA RestartIsTracked ==
  ASSUME Restart
  PROVE  ScoresTrack'
<1> SUFFICES ASSUME NEW a \in Addresses
             PROVE  /\ Tracks(AddrRec(a)'.churn, charged'[a].churn, MaxUpgrades)
                    /\ Tracks(AddrRec(a)'.soft, charged'[a].soft, MaxSoft)
  BY DEF ScoresTrack, Tracks, UpTo
<1>1. AddrRec(a)' = [churn |-> 0, soft |-> 0]
  BY DEF Restart, AddrRec
<1>2. charged'[a].churn = [t \in Ages |-> 0] /\ charged'[a].soft = [t \in Ages |-> 0]
  BY DEF Restart, Nothing
<1> QED
  BY <1>1, <1>2, TracksFromNothing, Products

BudgetInv == AdmInv /\ ScoresTrack

LEMMA BudgetStep == BudgetInv /\ [Next]_vars => BudgetInv'
<1> SUFFICES ASSUME BudgetInv, [Next]_vars PROVE ScoresTrack'
  BY AdmStep DEF BudgetInv
<1>0. RecordsTyped /\ HistoryTyped /\ ScoresTrack
  BY TypesAreParts DEF BudgetInv, AdmInv
<1>1. ASSUME NEW a \in Callers, NEW r \in RoomIds, Knock(a, r)
      PROVE  ScoresTrack'
  <2>1. CASE Charge(a, "churn") \/ Charge(a, "soft")
    BY <1>0, <2>1, ChargingIsTracked
  <2>2. CASE RefuseHard(a, r)
    BY <1>0, <2>2, TrackingUntouched DEF RefuseHard, Uncharged, AddrRec, WithRec
  <2> QED
    BY <1>1, <2>1, <2>2
       DEF Knock, Admit, AdmitTheDeparted, RefuseSoftly, RefuseTheDeparted
<1>2. CASE Tick
  BY <1>0, <1>2, TimeIsTracked
<1>3. CASE Sweep
  BY <1>0, <1>3, SweepingIsTracked
<1>4. CASE Restart
  BY <1>4, RestartIsTracked
<1>5. CASE UNCHANGED <<addrState, charged>>
  BY <1>0, <1>5, TrackingUntouched DEF AddrRec
<1> QED
  BY <1>1, <1>2, <1>3, <1>4, <1>5
     DEF Next, Callers, Heartbeat, Shutdown, PingGracePasses, Pong, CloseSession,
         SocketCloses, vars

LEMMA BudgetInit == Init => BudgetInv
  BY AdmInit, TrackedFromTheStart DEF BudgetInv, Init

LEMMA TheScoreBoundsTheWindow ==
  ASSUME NEW max \in Nat \ {0}, NEW score \in Nat, NEW counts \in Counts,
         score <= max * Window, Tracks(score, counts, max)
  PROVE  /\ InWindow(counts) \in Nat
         /\ InWindow(counts) < 2 * max
         /\ InWindow(counts) < max => score + Window <= max * Window
<1> DEFINE n == InWindow(counts)
<1>1. /\ n \in Nat /\ Window * n <= score + (Window - 1) * max
      /\ score <= Window * n + (Window - 1 - (Window - 1)) * max
  BY WindowIsUpToItsEnd, UpToRules, AgesAreCounted DEF Tracks
<1>2. Window \in Nat /\ Window > 0 /\ max \in Nat /\ max > 0
  BY Products
<1> HIDE DEF n
<1>3. (Window - 1 - (Window - 1)) * max = 0 /\ (Window - 1) * max = max * Window - max
      /\ max * Window \in Nat /\ Window * n \in Nat
  <2>1. \A w, m \in Nat : /\ (w - 1 - (w - 1)) * m = 0 /\ m * w \in Nat
                          /\ (w - 1) * m = m * w - m
    OBVIOUS
  <2> QED
    BY <1>1, <1>2, <2>1
<1>4. n < 2 * max
  <2> SUFFICES ASSUME n >= 2 * max PROVE FALSE
    BY <1>1, <1>2
  <2>1. \A w, m, k \in Nat : k >= 2 * m => w * k >= 2 * (m * w)
    OBVIOUS
  <2>2. Window * n >= 2 * (max * Window)
    BY <1>1, <1>2, <2>1
  <2> QED
    BY <1>1, <1>2, <1>3, <2>2
<1>5. ASSUME n < max PROVE score + Window <= max * Window
  <2>1. \A w, m, k \in Nat : k + 1 <= m => w * k + w <= m * w
    OBVIOUS
  <2>2. Window * n + Window <= max * Window
    BY <1>1, <1>2, <1>5, <2>1
  <2> QED
    BY <1>1, <1>2, <1>3, <2>2
<1> QED
  BY <1>1, <1>4, <1>5 DEF n

LEMMA TrackedScoresKeepBudgets == BudgetInv => BudgetsHold /\ EntitledGetIn
<1> SUFFICES ASSUME BudgetInv PROVE BudgetsHold /\ EntitledGetIn
  OBVIOUS
<1>1. /\ ClientsTyped /\ RecordsTyped /\ HistoryTyped /\ ScoresTrack
      /\ MaxUpgrades \in Nat \ {0} /\ MaxSoft \in Nat \ {0}
  BY TypesAreParts, AdmissionConstants DEF BudgetInv, AdmInv
<1>2. ASSUME NEW a \in Addresses
      PROVE  /\ AddrRec(a).churn \in Nat /\ AddrRec(a).churn <= MaxUpgrades * Window
             /\ AddrRec(a).soft \in Nat /\ AddrRec(a).soft <= MaxSoft * Window
  BY <1>1, RecIsScored, Products DEF Scores
<1>3. ASSUME NEW a \in Addresses
      PROVE  /\ InWindow(charged[a].churn) < 2 * MaxUpgrades
             /\ InWindow(charged[a].soft) < 2 * MaxSoft
             /\ InWindow(charged[a].churn) < MaxUpgrades => ~OverChurnBudget(a)
  <2>1. charged[a].churn \in Counts /\ charged[a].soft \in Counts
        /\ Tracks(AddrRec(a).churn, charged[a].churn, MaxUpgrades)
        /\ Tracks(AddrRec(a).soft, charged[a].soft, MaxSoft)
    BY <1>1, HistoryCounts DEF ScoresTrack
  <2>2. /\ InWindow(charged[a].churn) < 2 * MaxUpgrades
        /\ InWindow(charged[a].churn) < MaxUpgrades
             => AddrRec(a).churn + Window <= MaxUpgrades * Window
    BY <1>1, <1>2, <2>1, TheScoreBoundsTheWindow
  <2>3. InWindow(charged[a].soft) < 2 * MaxSoft
    BY <1>1, <1>2, <2>1, TheScoreBoundsTheWindow
  <2> QED
    BY <1>2, <2>2, <2>3, Products DEF OverChurnBudget
<1>4. ASSUME NEW a \in Addresses, NEW r \in RoomIds,
             Cardinality(Sessions) < MaxSockets,
             Cardinality({s \in Sessions : clients[s].ipKey = a}) < MaxPerAddress,
             Cardinality(Members(r)) < MaxPeers,
             Members(r) # {} \/ Cardinality(Rooms) < MaxRooms
      PROVE  HasPlace(a, r)
  <2> DEFINE mine == {s \in Sessions : clients[s].ipKey = a}
  <2>1. mine \in SUBSET Sessions /\ FromKey(a) \in SUBSET mine
    BY DEF FromKey, Live
  <2>2. IsFiniteSet(mine) /\ Cardinality(mine) \in Nat
    BY <2>1, CountsAreNumbers, FS_Subset, FS_CardinalityType
  <2>3. Cardinality(FromKey(a)) <= Cardinality(mine) /\ Cardinality(FromKey(a)) \in Nat
    BY <2>1, <2>2, FS_Subset, FS_CardinalityType
  <2>4. Cardinality(FromKey(a)) < MaxPerAddress
    BY <1>4, <2>2, <2>3, AdmissionConstants
  <2> QED
    BY <1>4, <2>4 DEF HasPlace, Live, Rooms
<1> QED
  BY <1>3, <1>4 DEF BudgetsHold, EntitledGetIn, Admits

\* Whatever the limits and the window, no window holds twice the upgrades or
\* twice the soft refusals of an address, though its record is dropped and
\* made again within it (overChurnBudget, softRefusalAllowed, the sweeper).
THEOREM BudgetsAreHeld == Spec => []BudgetsHold
<1>1. BudgetInv => BudgetsHold
  BY TrackedScoresKeepBudgets
<1> QED
  BY <1>1, BudgetInit, BudgetStep, PTL DEF Spec

\* Whatever the limits and the window, an address within its own share that
\* finds a place in the process and in its room is let in (verifyClient).
THEOREM TheEntitledAreAdmitted == Spec => []EntitledGetIn
<1>1. BudgetInv => EntitledGetIn
  BY TrackedScoresKeepBudgets
<1> QED
  BY <1>1, BudgetInit, BudgetStep, PTL DEF Spec
=============================================================================
