------------------------------ MODULE Admission ------------------------------
(***************************************************************************)
(* Who gets a socket at the relay: server/room-server.mjs.  verifyClient   *)
(* decides every upgrade from a survey of the sockets that exist and from  *)
(* two leaky scores per address; a refusal is soft (a socket accepted to   *)
(* be closed at once) or hard (no socket); the heartbeat reaps the silent. *)
(*                                                                         *)
(* A clock tick is 1/Window of UPGRADE_WINDOW_MS, and the scores are kept  *)
(* in units of 1/Window of an upgrade, so that both are whole numbers.     *)
(* An upgrade and its 'connection' event are one step, as they are one     *)
(* turn of the event loop.  Origins, queue sizes and frames are left out:  *)
(* whatever makes the relay close a session is one choice.                 *)
(***************************************************************************)
EXTENDS Integers, FiniteSets, Functions

CONSTANTS Sockets,      \* names for the entries of wss.clients
          Addresses,    \* the addresses clientKey() bills
          Unbillable,   \* its null: no address, no per-address cap
          RoomIds,
          MaxSockets, MaxPerAddress, MaxRooms, MaxPeers, MaxRefusals,
          MaxUpgrades, MaxSoft, Window

ASSUME AdmissionConstants ==
  /\ IsFiniteSet(Sockets) /\ IsFiniteSet(RoomIds)
  /\ Unbillable \notin Addresses
  /\ {MaxSockets, MaxPerAddress, MaxRooms, MaxPeers, MaxRefusals,
      MaxUpgrades, MaxSoft, Window} \subseteq Nat \ {0}

VARIABLES clients,     \* wss.clients with the fields stamped on each socket
          addrState,   \* the scores of the addresses that have a record
          serving,     \* FALSE once shutdown() has begun
          charged      \* history: upgrades charged per address, by age in ticks

vars == <<clients, addrState, serving, charged>>

Ages == 0..(Window - 1)
Scores == [churn : 0..(MaxUpgrades * Window), soft : 0..(MaxSoft * Window)]
Gone == [state |-> "gone"]
RefusedSocket == [state |-> "refused"]
Session == [state : {"open", "closing"}, ipKey : Addresses \cup {Unbillable},
            room : RoomIds, hears : {"alive", "pinged", "quiet"}]
Nothing == [a \in Addresses |-> [churn |-> [t \in Ages |-> 0],
                                 soft  |-> [t \in Ages |-> 0]]]

Init ==
  /\ clients = [s \in Sockets |-> Gone]
  /\ addrState = <<>>
  /\ serving = TRUE
  /\ charged = Nothing

-----------------------------------------------------------------------------
(* What verifyClient knows.                                                *)

\* A session is a member of its room from 'connection' until 'close'.
Sessions == {s \in Sockets : clients[s].state \in {"open", "closing"}}
Members(r) == {s \in Sessions : clients[s].room = r}
Rooms == {r \in RoomIds : Members(r) # {}}

Billable(s) == clients[s].state = "open" /\ clients[s].hears # "quiet"
OnlyTheOpen == {s \in Sockets : clients[s].state = "open"}
EverySocket == {s \in Sockets : clients[s] # Gone}
Live == Sessions
Refused == {s \in Sockets : clients[s].state = "refused"}
FromKey(a) == {s \in Live : clients[s].ipKey = a /\ Billable(s)}

AddrRec(a) ==
  IF a \in DOMAIN addrState THEN addrState[a] ELSE [churn |-> 0, soft |-> 0]
WithRec(a, rec) ==
  [b \in DOMAIN addrState \cup {a} |-> IF b = a THEN rec ELSE addrState[b]]

HasPlace(a, r) ==
  /\ Cardinality(Live) < MaxSockets
  /\ a \in Addresses => Cardinality(FromKey(a)) < MaxPerAddress
  /\ r \in Rooms \/ Cardinality(Rooms) < MaxRooms
  /\ Cardinality(Members(r)) < MaxPeers

OverOnceOver(a) ==
  a \in Addresses /\ AddrRec(a).churn > MaxUpgrades * Window

OverChurnBudget(a) ==
  a \in Addresses /\ AddrRec(a).churn + Window > MaxUpgrades * Window

Admits(a, r) == HasPlace(a, r) /\ ~OverChurnBudget(a)

FloodOfRefusals == Cardinality(Refused) >= MaxRefusals
SoftRefusalAllowed(a) ==
  a \in Addresses => AddrRec(a).soft + Window <= MaxSoft * Window

-----------------------------------------------------------------------------
(* The four answers to an upgrade.                                         *)

\* The record an answer leaves: it may be created without being charged.
Charge(a, what) ==
  IF a \in Addresses
  THEN /\ addrState' = WithRec(a, [AddrRec(a) EXCEPT ![what] = @ + Window])
       /\ charged' = [charged EXCEPT ![a][what][0] = @ + 1]
  ELSE UNCHANGED <<addrState, charged>>

ChargedAnyway(a) ==
  /\ addrState' = IF a \in Addresses
                  THEN WithRec(a, [AddrRec(a) EXCEPT !.churn = @ + Window])
                  ELSE addrState
  /\ UNCHANGED charged

Uncharged(a) ==
  /\ addrState' = IF a \in Addresses THEN WithRec(a, AddrRec(a)) ELSE addrState
  /\ UNCHANGED charged

Admit(s, a, r) ==
  /\ serving /\ clients[s] = Gone /\ Admits(a, r)
  /\ Charge(a, "churn")
  /\ clients' = [clients EXCEPT ![s] = [state |-> "open", ipKey |-> a,
                                        room |-> r, hears |-> "alive"]]
  /\ UNCHANGED serving

\* Accepted, to be served or to be told no, but the client left during the
\* handshake: charged all the same.
AdmitTheDeparted(a, r) ==
  /\ serving /\ Admits(a, r) /\ a \in Addresses
  /\ Charge(a, "churn")
  /\ UNCHANGED <<clients, serving>>

RefuseSoftly(s, a, r) ==
  /\ serving /\ clients[s] = Gone /\ ~Admits(a, r)
  /\ ~FloodOfRefusals /\ SoftRefusalAllowed(a)
  /\ Charge(a, "soft")
  /\ clients' = [clients EXCEPT ![s] = RefusedSocket]
  /\ UNCHANGED serving

RefuseTheDeparted(a, r) ==
  /\ serving /\ ~Admits(a, r) /\ a \in Addresses
  /\ ~FloodOfRefusals /\ SoftRefusalAllowed(a)
  /\ Charge(a, "soft")
  /\ UNCHANGED <<clients, serving>>

RefuseHard(a, r) ==
  /\ serving /\ ~Admits(a, r)
  /\ FloodOfRefusals \/ ~SoftRefusalAllowed(a)
  /\ Uncharged(a)
  /\ UNCHANGED <<clients, serving>>

-----------------------------------------------------------------------------
(* The life of a socket after that.                                        *)

Closing(c) == [c EXCEPT !.state = "closing", !.hears = "alive"]

\* terminate() of a socket that answers nothing, of one already closing or
\* refused: each is gone at its 'close' event, which is a later step.
Heard(c) ==
  CASE c.state = "open" /\ c.hears = "alive" -> [c EXCEPT !.hears = "pinged"]
    [] c.state = "open" /\ c.hears # "alive" -> Closing(c)
    [] OTHER -> c

Heartbeat ==
  /\ serving
  /\ clients' = [s \in Sockets |-> Heard(clients[s])]
  /\ UNCHANGED <<addrState, serving, charged>>

PingGracePasses(s) ==
  /\ clients[s].state = "open" /\ clients[s].hears = "pinged"
  /\ clients' = [clients EXCEPT ![s].hears = "quiet"]
  /\ UNCHANGED <<addrState, serving, charged>>

Pong(s) ==
  /\ clients[s].state = "open" /\ clients[s].hears # "alive"
  /\ clients' = [clients EXCEPT ![s].hears = "alive"]
  /\ UNCHANGED <<addrState, serving, charged>>

\* evictSlow, the rate limit, the protocol gate.
CloseSession(s) ==
  /\ clients[s].state = "open"
  /\ clients' = [clients EXCEPT ![s] = Closing(@)]
  /\ UNCHANGED <<addrState, serving, charged>>

\* 'close': the peer went, answered the close frame, or was terminated.
SocketCloses(s) ==
  /\ clients[s] # Gone
  /\ clients' = [clients EXCEPT ![s] = Gone]
  /\ UNCHANGED <<addrState, serving, charged>>

-----------------------------------------------------------------------------
(* Time, the sweeper, and the end of the process.                          *)

Monus(m, n) == IF m > n THEN m - n ELSE 0

Drained(rec) == [churn |-> Monus(rec.churn, MaxUpgrades),
                 soft  |-> Monus(rec.soft, MaxSoft)]

Aged(counts) == [t \in Ages |-> IF t = 0 THEN 0 ELSE counts[t - 1]]

Tick ==
  /\ addrState' = [a \in DOMAIN addrState |-> Drained(addrState[a])]
  /\ charged' = [a \in Addresses |-> [churn |-> Aged(charged[a].churn),
                                      soft  |-> Aged(charged[a].soft)]]
  /\ UNCHANGED <<clients, serving>>

ChurnSpent(rec) == rec.churn = 0
Spent(rec) == rec.churn = 0 /\ rec.soft = 0

Sweep ==
  /\ serving /\ \E a \in DOMAIN addrState : Spent(addrState[a])
  /\ addrState' = Restrict(addrState, {a \in DOMAIN addrState : ~Spent(addrState[a])})
  /\ UNCHANGED <<clients, serving, charged>>

Shutdown ==
  /\ serving
  /\ serving' = FALSE
  /\ clients' = [s \in Sockets |-> IF clients[s].state = "open"
                                   THEN Closing(clients[s]) ELSE clients[s]]
  /\ UNCHANGED <<addrState, charged>>

\* The process ends, when its last socket has or by force, and another starts.
Restart ==
  /\ ~serving
  /\ clients' = [s \in Sockets |-> Gone]
  /\ addrState' = <<>>
  /\ serving' = TRUE
  /\ charged' = Nothing

Knock(a, r) ==
  \/ \E s \in Sockets : Admit(s, a, r) \/ RefuseSoftly(s, a, r)
  \/ AdmitTheDeparted(a, r) \/ RefuseTheDeparted(a, r)
  \/ RefuseHard(a, r)

Next ==
  \/ \E a \in Addresses \cup {Unbillable}, r \in RoomIds : Knock(a, r)
  \/ \E s \in Sockets : \/ PingGracePasses(s) \/ Pong(s)
                        \/ CloseSession(s) \/ SocketCloses(s)
  \/ Heartbeat \/ Tick \/ Sweep \/ Shutdown \/ Restart

Spec == Init /\ [][Next]_vars

-----------------------------------------------------------------------------

(* Type invariant: every socket is a session, a refusal or no socket; only *)
(* billed addresses have a record, and a score never passes its budget.    *)
AdmTypeOK ==
  /\ clients \in [Sockets -> Session \cup {Gone, RefusedSocket}]
  /\ DOMAIN addrState \subseteq Addresses
  /\ \A a \in DOMAIN addrState : addrState[a] \in Scores
  /\ serving \in BOOLEAN
  /\ charged \in [Addresses -> [churn : [Ages -> Nat], soft : [Ages -> Nat]]]

(* The caps are about what the process holds, not about what it likes to   *)
(* count: with sockets that are leaving still in memory and still members, *)
(* no room, no set of rooms and no set of sockets is over its limit, and   *)
(* refusals cost a bounded number of sockets more (verifyClient, lines     *)
(* 638-680, and the comment of surveyClients).                             *)
CapsHold ==
  /\ Cardinality(Sessions) <= MaxSockets
  /\ Cardinality(Refused) <= MaxRefusals
  /\ Cardinality(Rooms) <= MaxRooms
  /\ \A r \in RoomIds : Cardinality(Members(r)) <= MaxPeers

InWindow(counts) == SumFunction(counts)

(* No window of time holds twice the budget of an address, in upgrades or  *)
(* in soft refusals, however the sweeper drops its record in between       *)
(* (overChurnBudget, softRefusalAllowed, and the sweeper, 1065-1082).      *)
BudgetsHold ==
  \A a \in Addresses :
    /\ InWindow(charged[a].churn) < 2 * MaxUpgrades
    /\ InWindow(charged[a].soft) < 2 * MaxSoft

(* Nobody is refused for what others, or its own refusals, have done: with *)
(* room for one more session, in its room and at its address, an address   *)
(* charged fewer upgrades than its budget in the last window gets in.      *)
EntitledGetIn ==
  \A a \in Addresses, r \in RoomIds :
    ( /\ Cardinality(Sessions) < MaxSockets
      /\ Cardinality({s \in Sessions : clients[s].ipKey = a}) < MaxPerAddress
      /\ Cardinality(Members(r)) < MaxPeers
      /\ Members(r) # {} \/ Cardinality(Rooms) < MaxRooms
      /\ InWindow(charged[a].churn) < MaxUpgrades )
    => Admits(a, r)

(* A refusal, soft or hard, never makes another attempt likelier to be     *)
(* refused, at its own address or at any other (the comment of addrState,  *)
(* lines 405-408, and of refuseSoftly, line 759).                          *)
RefusalsCostNothing ==
  [][ (\E a \in Addresses \cup {Unbillable}, r \in RoomIds :
         ~Admits(a, r) /\ Knock(a, r))
      => \A a \in Addresses \cup {Unbillable}, r \in RoomIds :
           Admits(a, r) => Admits(a, r)' ]_vars
=============================================================================
