------------------------------ MODULE RoomState ------------------------------
(***************************************************************************)
(* The shared room state of server/Hub.js: setState() with its admission   *)
(* limits and its access rules, the incremental accounting behind those    *)
(* limits, and what connect() and disconnect() do to both.  It extends the *)
(* room's membership and election, which decide who may write what.        *)
(*                                                                         *)
(* A value is a model value: its accounted cost and the structural cap it  *)
(* breaks, if any, are constants.  The cost all other rooms hold is one    *)
(* number, since totalStateCost() is all setState reads of them.           *)
(***************************************************************************)
EXTENDS RoomElection, FiniteSetsExt

CONSTANTS Keys,
          HostOwned,         \* isHostOwnedKey: tv, room, shelf:*
          OwnerScoped,       \* isOwnerScopedKey: hold:*, gamepad:*
          Values, NoValue,   \* what a key may hold; null
          Cost,              \* bytes + nodes * stateNodeCostBytes of each value
          TooBig,            \* the values over stateValueBytes, Nodes or Depth
          KeysPerPeer, KeysPerRoom, CostPerPeer, CostPerRoom, CostTotal

ASSUME StateConstants ==
  /\ HostOwned \subseteq Keys /\ OwnerScoped \subseteq Keys
  /\ HostOwned \cap OwnerScoped = {}
  /\ IsFiniteSet(Keys)
  /\ NoValue \notin Values
  /\ Cost \in [Values -> Nat \ {0}]
  /\ TooBig \subseteq Values
  /\ {KeysPerPeer, KeysPerRoom, CostPerPeer, CostPerRoom, CostTotal} \subseteq Nat

VARIABLES value,      \* roomState: the value of each key, NoValue when absent
          owner,      \* roomState: the peer that wrote it
          ownKeys,    \* peerOwn.keys: the running count of each peer's keys
          ownCost,    \* peerOwn.cost: the running cost of each peer's keys
          roomCost,   \* roomCost: the running cost of the room
          elsewhere   \* the running cost of every other room

entryVars == <<value, owner>>
tallyVars == <<ownKeys, ownCost, roomCost>>
stateVars == <<entryVars, tallyVars, elsewhere>>
hubVars   == <<electionVars, stateVars>>

Held == {k \in Keys : value[k] # NoValue}
CostAt(k) == IF k \in Held THEN Cost[value[k]] ELSE 0
NonNegative(n) == IF n < 0 THEN 0 ELSE n

StateInit ==
  /\ value = [k \in Keys |-> NoValue]
  /\ owner = [k \in Keys |-> NoPeer]
  /\ ownKeys = [p \in Peers |-> 0]
  /\ ownCost = [p \in Peers |-> 0]
  /\ roomCost = 0
  /\ elsewhere = 0

-----------------------------------------------------------------------------
(* The accounting.  Every change of the map goes through SetEntry, DelEntry  *)
(* or DropRoomState.                                                         *)

\* What a peer's tallies become when n keys of total cost c leave them.  A tally of no
\* keys and no cost is deleted, and reads as zero.
Spent(p, n, c) == ownKeys[p] <= n /\ ownCost[p] <= c
KeysAfter(p, n, c) == IF Spent(p, n, c) THEN 0 ELSE ownKeys[p] - n
CostAfter(p, n, c) == IF Spent(p, n, c) THEN 0 ELSE ownCost[p] - c

\* _setEntry: the previous owner is credited, then p is charged (mutant: the previous
\* owner is not credited).
ChargedOnly(k, p, v) ==
  /\ value' = [value EXCEPT ![k] = v]
  /\ owner' = [owner EXCEPT ![k] = p]
  /\ ownKeys' = [ownKeys EXCEPT ![p] = @ + 1]
  /\ ownCost' = [ownCost EXCEPT ![p] = @ + Cost[v]]
  /\ roomCost' = NonNegative(roomCost - CostAt(k) + Cost[v])
SetEntry(k, p, v) ==
  LET keys == IF k \in Held THEN [ownKeys EXCEPT ![owner[k]] = KeysAfter(owner[k], 1, CostAt(k))]
                            ELSE ownKeys
      cost == IF k \in Held THEN [ownCost EXCEPT ![owner[k]] = CostAfter(owner[k], 1, CostAt(k))]
                            ELSE ownCost
  IN /\ value' = [value EXCEPT ![k] = v]
     /\ owner' = [owner EXCEPT ![k] = p]
     /\ ownKeys' = [keys EXCEPT ![p] = @ + 1]
     /\ ownCost' = [cost EXCEPT ![p] = @ + Cost[v]]
     /\ roomCost' = NonNegative(roomCost - CostAt(k) + Cost[v])

\* _delEntry of every key of S, which one peer p owns.
DelEntries(p, S) ==
  LET n == Cardinality(S)
      c == MapThenSumSet(CostAt, S)
  IN /\ value' = [k \in Keys |-> IF k \in S THEN NoValue ELSE value[k]]
     /\ owner' = [k \in Keys |-> IF k \in S THEN NoPeer ELSE owner[k]]
     /\ ownKeys' = [ownKeys EXCEPT ![p] = KeysAfter(p, n, c)]
     /\ ownCost' = [ownCost EXCEPT ![p] = CostAfter(p, n, c)]
     /\ roomCost' = NonNegative(roomCost - c)

\* _delEntry: a key that is not held is left alone.
DelEntry(k) == IF k \in Held THEN DelEntries(owner[k], {k}) ELSE UNCHANGED <<entryVars, tallyVars>>

DropRoomState ==
  /\ value' = [k \in Keys |-> NoValue]
  /\ owner' = [k \in Keys |-> NoPeer]
  /\ ownKeys' = [p \in Peers |-> 0]
  /\ ownCost' = [p \in Peers |-> 0]
  /\ roomCost' = 0

-----------------------------------------------------------------------------
(* setState(): the limits, then the access rules, then the write.            *)

\* Only a new key can grow the room, so only a new key is counted.
WithinKeyLimits(p, k) ==
  k \notin Held => Cardinality(Held) < KeysPerRoom /\ ownKeys[p] < KeysPerPeer

\* The totals as they would be after the write: the value it replaces is released first
\* (mutant: the room itself is left out of the process-wide total).
RoomForgottenInTotal(p, k, v) ==
  /\ ownCost[p] - (IF owner[k] = p THEN CostAt(k) ELSE 0) + Cost[v] <= CostPerPeer
  /\ roomCost - CostAt(k) + Cost[v] <= CostPerRoom
  /\ elsewhere - CostAt(k) + Cost[v] <= CostTotal
WithinCostLimits(p, k, v) ==
  /\ ownCost[p] - (IF owner[k] = p THEN CostAt(k) ELSE 0) + Cost[v] <= CostPerPeer
  /\ roomCost - CostAt(k) + Cost[v] <= CostPerRoom
  /\ roomCost + elsewhere - CostAt(k) + Cost[v] <= CostTotal

\* A clear is always within the limits: it frees memory.
Admitted(p, k, v) ==
  v # NoValue => v \notin TooBig /\ WithinKeyLimits(p, k) /\ WithinCostLimits(p, k, v)

\* Host-owned keys are the host's, and nobody's while the host's return is awaited
\* (mutant: anybody's).
AnyoneWhileHostless(p) == HostOf = NoPeer \/ HostOf = p
MayWriteHostOwned(p) == IF HostOf = NoPeer THEN ~ActiveGrace ELSE HostOf = p

\* An owner-scoped key is cleared by its owner or the host only; anyone may overwrite it.
MayClear(p, k) == k \in Held => owner[k] = p \/ HostOf = p

Authorised(p, k, v) ==
  /\ k \in HostOwned => MayWriteHostOwned(p)
  /\ v = NoValue /\ k \in OwnerScoped => MayClear(p, k)

\* STATE from a member.  A refused write changes nothing here (mutant: null is stored
\* like any value, instead of deleting the entry).
ClearIsStored(p, k, v) ==
  /\ p \in Members
  /\ Admitted(p, k, v) /\ Authorised(p, k, v)
  /\ IF v = NoValue
     THEN /\ value' = [value EXCEPT ![k] = NoValue]
          /\ owner' = [owner EXCEPT ![k] = p]
          /\ UNCHANGED tallyVars
     ELSE SetEntry(k, p, v)
  /\ UNCHANGED <<electionVars, elsewhere>>
SetState(p, k, v) ==
  /\ p \in Members
  /\ Admitted(p, k, v) /\ Authorised(p, k, v)
  /\ IF v = NoValue THEN DelEntry(k) ELSE SetEntry(k, p, v)
  /\ UNCHANGED <<electionVars, elsewhere>>

-----------------------------------------------------------------------------
(* The election's actions, with what they do to the shared state.            *)

\* A fresh id owns nothing: an id that left its name on a key cannot be drawn again.
HubConnect(p, s) ==
  /\ \A k \in Keys : owner[k] # p
  /\ Connect(p, s)
  /\ UNCHANGED stateVars

HubBeginClose(p) == BeginClose(p) /\ UNCHANGED stateVars

\* The owner-scoped keys p leaves behind, which disconnect() clears (mutant: the
\* host-owned ones).
HeldByHost(p) == {k \in HostOwned \cap Held : owner[k] = p}
Gripped(p) == {k \in OwnerScoped \cap Held : owner[k] = p}

\* An emptied room drops its state whole (mutant: it is treated like any other room).
DisconnectKeepsState(p) ==
  /\ Disconnect(p)
  /\ IF Gripped(p) # {} THEN DelEntries(p, Gripped(p)) ELSE UNCHANGED <<entryVars, tallyVars>>
  /\ UNCHANGED elsewhere
HubDisconnect(p) ==
  /\ Disconnect(p)
  /\ IF Members = {p} THEN DropRoomState
     ELSE IF Gripped(p) # {} THEN DelEntries(p, Gripped(p))
     ELSE UNCHANGED <<entryVars, tallyVars>>
  /\ UNCHANGED elsewhere

HubExpireHostGrace == ExpireHostGrace /\ UNCHANGED stateVars
HubSweep == Sweep /\ UNCHANGED stateVars
HubTick == Tick /\ UNCHANGED stateVars

\* The other rooms write and empty under the same process-wide budget.
OtherRooms ==
  /\ elsewhere' \in 0..NonNegative(CostTotal - roomCost)
  /\ UNCHANGED <<electionVars, entryVars, tallyVars>>

HubInit == Init /\ StateInit

HubNext ==
  \/ \E p \in Peers, s \in Sids \cup {NoSid} : HubConnect(p, s)
  \/ \E p \in Peers : HubBeginClose(p)
  \/ \E p \in Peers : HubDisconnect(p)
  \/ \E p \in Peers, k \in Keys, v \in Values \cup {NoValue} : SetState(p, k, v)
  \/ HubExpireHostGrace
  \/ HubSweep
  \/ HubTick
  \/ OtherRooms

HubSpec == HubInit /\ [][HubNext]_hubVars

-----------------------------------------------------------------------------
StateTypeOK ==
  /\ value \in [Keys -> Values \cup {NoValue}]
  /\ owner \in [Keys -> Peers \cup {NoPeer}]
  /\ \A k \in Keys : k \in Held <=> owner[k] # NoPeer
  /\ ownKeys \in [Peers -> Nat]
  /\ ownCost \in [Peers -> Nat]
  /\ roomCost \in Nat
  /\ elsewhere \in Nat

Owned(p) == {k \in Held : owner[k] = p}

\* The running counts of keys, which the key limit reads instead of scanning the room,
\* equal what a scan would find.
KeyTalliesExact == \A p \in Peers : ownKeys[p] = Cardinality(Owned(p))

\* So do the running costs of each peer and of the room.
CostTalliesExact ==
  /\ \A p \in Peers : ownCost[p] = MapThenSumSet(CostAt, Owned(p))
  /\ roomCost = MapThenSumSet(CostAt, Held)

\* No sequence of writes, overwrites of other peers' keys, clears and departures takes
\* the room, a peer or the process over its budget.
RoomWithinKeyLimit == Cardinality(Held) <= KeysPerRoom
WithinBudgets ==
  /\ RoomWithinKeyLimit
  /\ \A p \in Peers : ownCost[p] <= CostPerPeer
  /\ roomCost <= CostPerRoom
  /\ roomCost + elsewhere <= CostTotal

\* A grip never outlives its holder: whoever is written on an owner-scoped key is in the room.
NoOrphanGrip == \A k \in OwnerScoped : owner[k] # NoPeer => owner[k] \in Members

\* An empty room leaves nothing for the next joiner to be sent, nor a charge on the budgets.
EmptyRoomIsForgotten ==
  Members = {} => Held = {} /\ roomCost = 0 /\ \A p \in Peers : ownKeys[p] = 0 /\ ownCost[p] = 0

\* What the room plays, its layout and its shelf cannot change while the role is kept for
\* an absent host, and while there is a host only that host's writes land there.
HostKeysFollowRole ==
  [][ \A k \in HostOwned :
        (<<value[k], owner[k]>>' # <<value[k], owner[k]>> /\ Members' # {})
          => /\ ~ActiveGrace
             /\ HostOf # NoPeer => owner'[k] \in {HostOf, NoPeer} ]_hubVars

\* HUB_LIMITS.stateKeysPerPeer is documented as the "max distinct STATE keys one peer may
\* own in one room".
PeerKeyLimit == \A p \in Peers : ownKeys[p] <= KeysPerPeer
=============================================================================
