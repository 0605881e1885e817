--------------------------- MODULE RoomStateProofs ---------------------------
(***************************************************************************)
(* Proofs about RoomState, for every set of keys and peers, all values,    *)
(* all costs and all limits.                                               *)
(***************************************************************************)
EXTENDS RoomState, RoomElectionProofs, SumTheorems

-----------------------------------------------------------------------------
(* Writing the shared state never disturbs the election.                       *)

LEMMA HubRefinesElection == [HubNext]_hubVars => [ElectionNext]_electionVars
  BY DEF HubNext, hubVars, HubConnect, HubBeginClose, HubDisconnect, SetState,
         HubExpireHostGrace, HubSweep, HubTick, OtherRooms, ElectionNext

\* The room with its shared state still elects its host as RoomElection does, so all that
\* is proved of the election holds of it.
THEOREM HubRunsTheElection == HubSpec => ElectionSpec
  BY HubRefinesElection, PTL DEF HubSpec, HubInit, ElectionSpec

LEMMA HubElectionInvariant == HubSpec => [](TypeInv /\ RoleInv)
  BY HubRunsTheElection, ElectionInvariant, PTL

-----------------------------------------------------------------------------
(* The map of entries.                                                         *)

EntriesTyped ==
  /\ value \in [Keys -> Values \cup {NoValue}]
  /\ owner \in [Keys -> Peers \cup {NoPeer}]
  /\ \A k \in Keys : k \in Held <=> owner[k] # NoPeer

TalliesTyped ==
  /\ ownKeys \in [Peers -> Nat]
  /\ KeyTalliesExact

LEMMA OwnedIsFinite ==
  ASSUME NEW p
  PROVE  IsFiniteSet(Owned(p)) /\ Cardinality(Owned(p)) \in Nat
<1>1. Owned(p) \subseteq Keys
  BY DEF Owned, Held
<1> QED
  BY <1>1, StateConstants, FS_Subset, FS_CardinalityType

LEMMA HeldIsFinite == IsFiniteSet(Held) /\ Cardinality(Held) \in Nat
<1>1. Held \subseteq Keys
  BY DEF Held
<1>2. IsFiniteSet(Held)
  BY <1>1, StateConstants, FS_Subset
<1> QED
  BY <1>2, FS_CardinalityType

LEMMA EntriesInit == HubInit => EntriesTyped /\ TalliesTyped
<1> SUFFICES ASSUME HubInit PROVE EntriesTyped /\ TalliesTyped
  OBVIOUS
<1>1. EntriesTyped
  BY StateConstants DEF HubInit, StateInit, EntriesTyped, Held
<1>2. \A p \in Peers : Owned(p) = {}
  BY ElectionConstants DEF HubInit, StateInit, Owned, Held
<1> QED
  BY <1>1, <1>2, FS_EmptySet DEF HubInit, StateInit, TalliesTyped, KeyTalliesExact

LEMMA SetEntryEntries ==
  ASSUME EntriesTyped, NEW k \in Keys, NEW p \in Peers, NEW v \in Values, SetEntry(k, p, v)
  PROVE  /\ EntriesTyped'
         /\ Held' = Held \cup {k}
         /\ \A q \in Peers : Owned(q)' = IF q = p THEN Owned(q) \cup {k} ELSE Owned(q) \ {k}
<1> USE StateConstants, ElectionConstants
<1>1. /\ value' = [value EXCEPT ![k] = v]
      /\ owner' = [owner EXCEPT ![k] = p]
  BY DEF SetEntry
<1>2. Held' = Held \cup {k}
  BY <1>1 DEF EntriesTyped, Held
<1>3. EntriesTyped'
  BY <1>1, <1>2 DEF EntriesTyped
<1>4. ASSUME NEW q \in Peers
      PROVE  Owned(q)' = IF q = p THEN Owned(q) \cup {k} ELSE Owned(q) \ {k}
  BY <1>1, <1>2 DEF EntriesTyped, Owned, Held
<1> QED
  BY <1>2, <1>3, <1>4

LEMMA DelEntriesEntries ==
  ASSUME EntriesTyped, NEW p \in Peers, NEW S, S \subseteq Owned(p), DelEntries(p, S)
  PROVE  /\ EntriesTyped'
         /\ Held' = Held \ S
         /\ \A q \in Peers : Owned(q)' = IF q = p THEN Owned(q) \ S ELSE Owned(q)
<1> USE StateConstants, ElectionConstants
<1>1. /\ value' = [k \in Keys |-> IF k \in S THEN NoValue ELSE value[k]]
      /\ owner' = [k \in Keys |-> IF k \in S THEN NoPeer ELSE owner[k]]
  BY DEF DelEntries
<1>2. Held' = Held \ S
  BY <1>1 DEF Held
<1>3. EntriesTyped'
  BY <1>1, <1>2 DEF EntriesTyped
<1>4. ASSUME NEW q \in Peers
      PROVE  Owned(q)' = IF q = p THEN Owned(q) \ S ELSE Owned(q)
  BY <1>1, <1>2 DEF EntriesTyped, Owned, Held
<1> QED
  BY <1>2, <1>3, <1>4

LEMMA DropEntries ==
  ASSUME DropRoomState
  PROVE  EntriesTyped' /\ TalliesTyped' /\ Held' = {}
<1> USE StateConstants, ElectionConstants
<1>1. Held' = {}
  BY DEF DropRoomState, Held
<1>2. \A p \in Peers : Owned(p)' = {}
  BY <1>1 DEF Owned
<1>3. TalliesTyped'
  BY <1>2, FS_EmptySet DEF DropRoomState, TalliesTyped, KeyTalliesExact
<1> QED
  BY <1>1, <1>3 DEF DropRoomState, EntriesTyped

-----------------------------------------------------------------------------
(* The running counts.                                                         *)

\* A peer that gives up n of the keys it owns is left with the rest, whether or not its
\* tally is deleted with the last of them.
LEMMA KeysAfterIsExact ==
  ASSUME TalliesTyped, NEW p \in Peers, NEW S, S \subseteq Owned(p), S # {}, NEW c
  PROVE  /\ KeysAfter(p, Cardinality(S), c) = Cardinality(Owned(p) \ S)
         /\ KeysAfter(p, Cardinality(S), c) \in Nat
<1>1. /\ Cardinality(Owned(p) \ S) = ownKeys[p] - Cardinality(S)
      /\ Cardinality(S) \in Nat /\ ownKeys[p] \in Nat
      /\ Cardinality(Owned(p) \ S) \in Nat
  <2>1. Owned(p) \cap S = S
    OBVIOUS
  <2>2. IsFiniteSet(S)
    BY OwnedIsFinite, FS_Subset
  <2>3. Cardinality(Owned(p) \ S) = Cardinality(Owned(p)) - Cardinality(S)
    BY <2>1, OwnedIsFinite, FS_Difference
  <2>4. IsFiniteSet(Owned(p) \ S)
    BY OwnedIsFinite, FS_Difference
  <2> QED
    BY <2>2, <2>3, <2>4, FS_CardinalityType DEF TalliesTyped, KeyTalliesExact
<1> QED
  BY <1>1 DEF KeysAfter, Spent

LEMMA DelEntriesTallies ==
  ASSUME EntriesTyped, TalliesTyped, NEW p \in Peers, NEW S, S \subseteq Owned(p), S # {},
         DelEntries(p, S)
  PROVE  TalliesTyped'
<1> DEFINE c == MapThenSumSet(CostAt, S)
           left == KeysAfter(p, Cardinality(S), c)
<1>1. ownKeys' = [ownKeys EXCEPT ![p] = left]
  BY DEF DelEntries
<1>2. left = Cardinality(Owned(p) \ S) /\ left \in Nat
  <2> HIDE DEF c
  <2> QED BY KeysAfterIsExact
<1> HIDE DEF left
<1> QED
  BY <1>1, <1>2, DelEntriesEntries DEF TalliesTyped, KeyTalliesExact

LEMMA SetEntryTallies ==
  ASSUME EntriesTyped, TalliesTyped, NEW k \in Keys, NEW p \in Peers, NEW v \in Values,
         SetEntry(k, p, v)
  PROVE  TalliesTyped'
<1> USE StateConstants, ElectionConstants
<1>1. \A q \in Peers : Owned(q)' = IF q = p THEN Owned(q) \cup {k} ELSE Owned(q) \ {k}
  BY SetEntryEntries
<1>2. ASSUME NEW q \in Peers
      PROVE  /\ ownKeys[q] \in Nat
             /\ k \in Owned(q) => /\ Cardinality(Owned(q) \cup {k}) = ownKeys[q]
                                  /\ Cardinality(Owned(q) \ {k}) = ownKeys[q] - 1
                                  /\ ownKeys[q] - 1 \in Nat
             /\ k \notin Owned(q) => /\ Cardinality(Owned(q) \cup {k}) = ownKeys[q] + 1
                                     /\ Cardinality(Owned(q) \ {k}) = ownKeys[q]
  <2>1. IsFiniteSet(Owned(q)) /\ ownKeys[q] = Cardinality(Owned(q)) /\ ownKeys[q] \in Nat
    BY OwnedIsFinite DEF TalliesTyped, KeyTalliesExact
  <2>2. Cardinality(Owned(q) \cup {k})
          = IF k \in Owned(q) THEN Cardinality(Owned(q)) ELSE Cardinality(Owned(q)) + 1
    BY <2>1, FS_AddElement
  <2>3. /\ IsFiniteSet(Owned(q) \ {k})
        /\ Cardinality(Owned(q) \ {k})
             = IF k \in Owned(q) THEN Cardinality(Owned(q)) - 1 ELSE Cardinality(Owned(q))
    BY <2>1, FS_RemoveElement
  <2>4. Cardinality(Owned(q) \ {k}) \in Nat
    BY <2>3, FS_CardinalityType
  <2> QED
    BY <2>1, <2>2, <2>3, <2>4
<1>3. CASE k \notin Held
  <2>1. ownKeys' = [ownKeys EXCEPT ![p] = ownKeys[p] + 1]
    BY <1>3 DEF SetEntry, TalliesTyped
  <2>2. \A q \in Peers : k \notin Owned(q)
    BY <1>3 DEF Owned
  <2>3. ownKeys' \in [Peers -> Nat]
    BY <1>2, <2>1 DEF TalliesTyped
  <2>4. ASSUME NEW q \in Peers
        PROVE  ownKeys'[q] = Cardinality(Owned(q)')
    <3>1. CASE q = p
      BY <1>1, <1>2, <2>1, <2>2, <3>1 DEF TalliesTyped
    <3>2. CASE q # p
      BY <1>1, <1>2, <2>1, <2>2, <3>2 DEF TalliesTyped
    <3> QED BY <3>1, <3>2
  <2> QED
    BY <2>3, <2>4 DEF TalliesTyped, KeyTalliesExact
<1>4. CASE k \in Held
  <2> DEFINE o == owner[k]
             left == KeysAfter(o, 1, CostAt(k))
             credited == [ownKeys EXCEPT ![o] = left]
  <2>1. o \in Peers /\ k \in Owned(o) /\ \A q \in Peers : k \in Owned(q) => q = o
    BY <1>4 DEF EntriesTyped, Owned
  <2>2. ownKeys' = [credited EXCEPT ![p] = @ + 1]
    BY <1>4 DEF SetEntry
  <2>3. left = ownKeys[o] - 1 /\ left \in Nat
    <3>1. Cardinality({k}) = 1
      BY FS_Singleton
    <3>2. left = Cardinality(Owned(o) \ {k})
      <4>1. {k} \subseteq Owned(o) /\ {k} # {}
        BY <2>1
      <4> DEFINE c == CostAt(k)
      <4>2. KeysAfter(o, Cardinality({k}), c) = Cardinality(Owned(o) \ {k})
        <5> HIDE DEF o, c
        <5> QED BY <2>1, <4>1, KeysAfterIsExact
      <4> QED BY <3>1, <4>2
    <3> HIDE DEF left, o
    <3> QED BY <1>2, <2>1, <3>2
  <2> HIDE DEF left, o
  <2>4. /\ credited \in [Peers -> Nat]
        /\ \A q \in Peers : credited[q] = IF q = o THEN left ELSE ownKeys[q]
    BY <1>2, <2>1, <2>3 DEF TalliesTyped
  <2> HIDE DEF credited
  <2>5. /\ ownKeys' \in [Peers -> Nat]
        /\ \A q \in Peers : ownKeys'[q] = IF q = p THEN credited[q] + 1 ELSE credited[q]
    BY <2>2, <2>4
  <2>6. ASSUME NEW q \in Peers
        PROVE  ownKeys'[q] = Cardinality(Owned(q)')
    <3>1. CASE q = p /\ q = o
      <4>1. Cardinality(Owned(q)') = ownKeys[q] /\ ownKeys[q] \in Nat
        BY <1>1, <1>2, <2>1, <3>1
      <4>2. ownKeys'[q] = (ownKeys[q] - 1) + 1
        BY <2>3, <2>4, <2>5, <3>1
      <4> QED BY <4>1, <4>2
    <3>2. CASE q = p /\ q # o
      BY <1>1, <1>2, <2>1, <2>4, <2>5, <3>2
    <3>3. CASE q # p /\ q = o
      BY <1>1, <1>2, <2>1, <2>3, <2>4, <2>5, <3>3
    <3>4. CASE q # p /\ q # o
      BY <1>1, <1>2, <2>1, <2>4, <2>5, <3>4
    <3> QED BY <3>1, <3>2, <3>3, <3>4
  <2> QED
    BY <2>5, <2>6 DEF TalliesTyped, KeyTalliesExact
<1> QED
  BY <1>3, <1>4

-----------------------------------------------------------------------------
(* The invariant of the entries and their counts, and what it gives.           *)

EntryInv == EntriesTyped /\ TalliesTyped /\ RoomWithinKeyLimit

LEMMA EntriesUntouched ==
  ASSUME EntryInv, UNCHANGED <<value, owner, ownKeys>>
  PROVE  EntryInv'
  BY DEF EntryInv, EntriesTyped, TalliesTyped, KeyTalliesExact, RoomWithinKeyLimit, Held, Owned

LEMMA SetStateEntries ==
  ASSUME EntryInv, NEW p \in Peers, NEW k \in Keys, NEW v \in Values \cup {NoValue},
         SetState(p, k, v)
  PROVE  EntryInv'
<1>1. CASE v = NoValue
  <2>1. CASE k \in Held
    <3>1. /\ owner[k] \in Peers
          /\ {k} \subseteq Owned(owner[k]) /\ {k} # {}
          /\ DelEntries(owner[k], {k})
      BY <1>1, <2>1 DEF SetState, DelEntry, EntryInv, EntriesTyped, Owned
    <3>2. EntriesTyped' /\ TalliesTyped' /\ Held' = Held \ {k}
      BY <3>1, DelEntriesEntries, DelEntriesTallies DEF EntryInv
    <3>3. Cardinality(Held \ {k}) <= Cardinality(Held) /\ Cardinality(Held \ {k}) \in Nat
      BY HeldIsFinite, FS_Subset, FS_CardinalityType
    <3> QED
      BY <3>2, <3>3, HeldIsFinite, StateConstants DEF EntryInv, RoomWithinKeyLimit
  <2>2. CASE k \notin Held
    <3>1. UNCHANGED <<value, owner, ownKeys>>
      BY <1>1, <2>2 DEF SetState, DelEntry, entryVars, tallyVars
    <3> QED BY <3>1, EntriesUntouched
  <2> QED BY <2>1, <2>2
<1>2. CASE v # NoValue
  <2>1. v \in Values /\ SetEntry(k, p, v) /\ WithinKeyLimits(p, k)
    BY <1>2 DEF SetState, Admitted
  <2>2. EntriesTyped' /\ TalliesTyped' /\ Held' = Held \cup {k}
    BY <2>1, SetEntryEntries, SetEntryTallies DEF EntryInv
  <2>3. Cardinality(Held \cup {k}) = IF k \in Held THEN Cardinality(Held)
                                                   ELSE Cardinality(Held) + 1
    BY HeldIsFinite, FS_AddElement
  <2>4. Cardinality(Held \cup {k}) <= KeysPerRoom
    BY <2>1, <2>3, HeldIsFinite, StateConstants DEF WithinKeyLimits, EntryInv, RoomWithinKeyLimit
  <2> QED
    BY <2>2, <2>4 DEF EntryInv, RoomWithinKeyLimit
<1> QED
  BY <1>1, <1>2

LEMMA DisconnectEntries ==
  ASSUME EntryInv, NEW p \in Peers, HubDisconnect(p)
  PROVE  EntryInv'
<1>1. CASE Members = {p}
  <2>1. EntriesTyped' /\ TalliesTyped' /\ Held' = {}
    BY <1>1, DropEntries DEF HubDisconnect
  <2> QED
    BY <2>1, FS_EmptySet, StateConstants DEF EntryInv, RoomWithinKeyLimit
<1>2. CASE Members # {p} /\ Gripped(p) # {}
  <2>1. DelEntries(p, Gripped(p)) /\ Gripped(p) \subseteq Owned(p)
    BY <1>2 DEF HubDisconnect, Gripped, Owned
  <2>2. EntriesTyped' /\ TalliesTyped' /\ Held' = Held \ Gripped(p)
    <3> DEFINE S == Gripped(p)
    <3>1. DelEntries(p, S) /\ S \subseteq Owned(p) /\ S # {}
      BY <1>2, <2>1
    <3> HIDE DEF S
    <3>2. EntriesTyped' /\ TalliesTyped' /\ Held' = Held \ S
      BY <3>1, DelEntriesEntries, DelEntriesTallies DEF EntryInv
    <3> QED BY <3>2 DEF S
  <2>3. IsFiniteSet(Held \ Gripped(p)) /\ Cardinality(Held \ Gripped(p)) <= Cardinality(Held)
    BY HeldIsFinite, FS_Subset
  <2>4. Cardinality(Held \ Gripped(p)) \in Nat
    BY <2>3, FS_CardinalityType
  <2> QED
    BY <2>2, <2>3, <2>4, HeldIsFinite, StateConstants DEF EntryInv, RoomWithinKeyLimit
<1>3. CASE Members # {p} /\ Gripped(p) = {}
  BY <1>3, EntriesUntouched DEF HubDisconnect, entryVars, tallyVars
<1> QED
  BY <1>1, <1>2, <1>3

LEMMA EntryStep == EntryInv /\ [HubNext]_hubVars => EntryInv'
<1> SUFFICES ASSUME EntryInv, [HubNext]_hubVars PROVE EntryInv'
  OBVIOUS
<1>1. ASSUME NEW p \in Peers, NEW s \in Sids \cup {NoSid}, HubConnect(p, s)
      PROVE  EntryInv'
  BY <1>1, EntriesUntouched DEF HubConnect, stateVars, entryVars, tallyVars
<1>2. CASE \/ \E p \in Peers : HubBeginClose(p)
           \/ HubExpireHostGrace \/ HubSweep \/ HubTick \/ OtherRooms
           \/ UNCHANGED hubVars
  BY <1>2, EntriesUntouched
     DEF HubBeginClose, HubExpireHostGrace, HubSweep, HubTick, OtherRooms, hubVars, stateVars,
         entryVars, tallyVars
<1> QED
  BY <1>1, <1>2, SetStateEntries, DisconnectEntries DEF HubNext

LEMMA EntryInvariant == HubSpec => []EntryInv
<1>1. HubInit => EntryInv
  <2>1. HubInit => Held = {}
    BY DEF HubInit, StateInit, Held
  <2> QED
    BY <2>1, EntriesInit, FS_EmptySet, StateConstants DEF EntryInv, RoomWithinKeyLimit
<1> QED
  BY <1>1, EntryStep, PTL DEF HubSpec

\* The running count of each peer's keys, on which the key limit decides, is the number of
\* keys it owns, through overwrites of others' keys, clears, departures and emptied rooms.
THEOREM KeyTalliesAreExact == HubSpec => []KeyTalliesExact
<1>1. EntryInv => KeyTalliesExact
  BY DEF EntryInv, TalliesTyped
<1> QED
  BY <1>1, EntryInvariant, PTL

\* A room never holds more keys than its limit.
THEOREM RoomStaysWithinKeyLimit == HubSpec => []RoomWithinKeyLimit
<1>1. EntryInv => RoomWithinKeyLimit
  BY DEF EntryInv
<1> QED
  BY <1>1, EntryInvariant, PTL

-----------------------------------------------------------------------------
(* Grips.                                                                      *)

LEMMA GripStep ==
  ASSUME TypeInv, EntryInv, NoOrphanGrip, [HubNext]_hubVars
  PROVE  NoOrphanGrip'
<1> USE StateConstants, ElectionConstants
<1>1. ASSUME NEW p \in Peers, NEW s \in Sids \cup {NoSid}, HubConnect(p, s)
      PROVE  NoOrphanGrip'
  <2>1. Members \subseteq Members'
    BY <1>1 DEF HubConnect, Connect, TypeInv, ElectionTypeOK, Members
  <2> QED
    BY <1>1, <2>1 DEF HubConnect, stateVars, entryVars, NoOrphanGrip
<1>2. ASSUME NEW p \in Peers, HubDisconnect(p)
      PROVE  NoOrphanGrip'
  <2>1. Members' = Members \ {p}
    BY <1>2 DEF HubDisconnect, Disconnect, TypeInv, ElectionTypeOK, Members
  <2>2. CASE Members = {p}
    BY <1>2, <2>2 DEF HubDisconnect, DropRoomState, NoOrphanGrip
  <2>3. CASE Members # {p} /\ Gripped(p) # {}
    <3>1. owner' = [k \in Keys |-> IF k \in Gripped(p) THEN NoPeer ELSE owner[k]]
      BY <1>2, <2>3 DEF HubDisconnect, DelEntries
    <3>2. \A k \in OwnerScoped : owner[k] = p => k \in Gripped(p)
      BY DEF Gripped, EntryInv, EntriesTyped
    <3> QED BY <2>1, <3>1, <3>2 DEF NoOrphanGrip
  <2>4. CASE Members # {p} /\ Gripped(p) = {}
    <3>1. \A k \in OwnerScoped : owner[k] # p
      BY <2>4 DEF Gripped, EntryInv, EntriesTyped
    <3> QED BY <1>2, <2>1, <2>4, <3>1 DEF HubDisconnect, entryVars, NoOrphanGrip
  <2> QED BY <2>2, <2>3, <2>4
<1>3. ASSUME NEW p \in Peers, NEW k \in Keys, NEW v \in Values \cup {NoValue}, SetState(p, k, v)
      PROVE  NoOrphanGrip'
  <2>1. p \in Members /\ Members' = Members
    BY <1>3 DEF SetState, electionVars, memberVars, Members
  <2>2. CASE v = NoValue
    BY <1>3, <2>1, <2>2 DEF SetState, DelEntry, DelEntries, entryVars, NoOrphanGrip
  <2>3. CASE v # NoValue
    <3>1. owner' = [owner EXCEPT ![k] = p]
      BY <1>3, <2>3 DEF SetState, SetEntry
    <3>2. owner \in [Keys -> Peers \cup {NoPeer}]
      BY DEF EntryInv, EntriesTyped
    <3> QED BY <2>1, <3>1, <3>2 DEF NoOrphanGrip
  <2> QED BY <2>2, <2>3
<1>4. CASE \/ \E p \in Peers : HubBeginClose(p)
           \/ HubExpireHostGrace \/ HubSweep \/ HubTick \/ OtherRooms
           \/ UNCHANGED hubVars
  BY <1>4 DEF HubBeginClose, BeginClose, HubExpireHostGrace, ExpireHostGrace, HubSweep, Sweep,
              HubTick, Tick, OtherRooms, hubVars, electionVars, memberVars, stateVars, entryVars,
              NoOrphanGrip, Members
<1> QED
  BY <1>1, <1>2, <1>3, <1>4 DEF HubNext

\* The peer written on a hold:* or gamepad:* key is a member: nothing stays gripped by a
\* peer that is gone.
THEOREM GripsHaveHolders == HubSpec => []NoOrphanGrip
<1>1. HubInit => NoOrphanGrip
  BY StateConstants DEF HubInit, StateInit, NoOrphanGrip
<1>2. TypeInv /\ EntryInv /\ NoOrphanGrip /\ [HubNext]_hubVars => NoOrphanGrip'
  BY GripStep
<1> QED
  BY <1>1, <1>2, HubElectionInvariant, EntryInvariant, PTL DEF HubSpec

-----------------------------------------------------------------------------
(* The host's keys.                                                            *)

HostKeyStep ==
  \A k \in HostOwned :
    (<<value[k], owner[k]>>' # <<value[k], owner[k]>> /\ Members' # {})
      => /\ ~ActiveGrace
         /\ HostOf # NoPeer => owner'[k] \in {HostOf, NoPeer}

LEMMA OnlyWritesReachHostKeys ==
  ASSUME TypeInv, RoleInv, EntryInv, [HubNext]_hubVars
  PROVE  HostKeyStep
<1> USE StateConstants, ElectionConstants
<1>1. ASSUME NEW p \in Peers, HubDisconnect(p)
      PROVE  HostKeyStep
  <2>1. Members' = Members \ {p}
    BY <1>1 DEF HubDisconnect, Disconnect, TypeInv, ElectionTypeOK, Members
  <2>2. CASE Members = {p}
    BY <2>1, <2>2 DEF HostKeyStep
  <2>3. CASE Members # {p} /\ Gripped(p) # {}
    <3>1. DelEntries(p, Gripped(p))
      BY <1>1, <2>3 DEF HubDisconnect
    <3>2. \A k \in HostOwned : value'[k] = value[k] /\ owner'[k] = owner[k]
      BY <3>1 DEF DelEntries, Gripped
    <3> QED BY <3>2 DEF HostKeyStep
  <2>4. CASE Members # {p} /\ Gripped(p) = {}
    BY <1>1, <2>4 DEF HubDisconnect, entryVars, HostKeyStep
  <2> QED BY <2>2, <2>3, <2>4
<1>2. ASSUME NEW p \in Peers, NEW k \in Keys, NEW v \in Values \cup {NoValue}, SetState(p, k, v)
      PROVE  HostKeyStep
  <2>1. \A j \in Keys \ {k} : value'[j] = value[j] /\ owner'[j] = owner[j]
    BY <1>2 DEF SetState, DelEntry, DelEntries, SetEntry, entryVars, EntryInv, EntriesTyped
  <2>2. k \in HostOwned => MayWriteHostOwned(p)
    BY <1>2 DEF SetState, Authorised
  <2>3. owner'[k] \in {p, NoPeer}
    BY <1>2 DEF SetState, DelEntry, DelEntries, SetEntry, entryVars, EntryInv, EntriesTyped
  <2>4. MayWriteHostOwned(p) => ~ ActiveGrace /\ (HostOf # NoPeer => p = HostOf)
    BY DEF MayWriteHostOwned, RoleInv, ReservedIsHostless
  <2> QED
    BY <2>1, <2>2, <2>3, <2>4 DEF HostKeyStep
<1>3. CASE \/ \E p \in Peers, s \in Sids \cup {NoSid} : HubConnect(p, s)
           \/ \E p \in Peers : HubBeginClose(p)
           \/ HubExpireHostGrace \/ HubSweep \/ HubTick \/ OtherRooms
           \/ UNCHANGED hubVars
  BY <1>3 DEF HubConnect, HubBeginClose, HubExpireHostGrace, HubSweep, HubTick, OtherRooms,
              hubVars, stateVars, entryVars, HostKeyStep
<1> QED
  BY <1>1, <1>2, <1>3 DEF HubNext

\* The room's television, layout and shelf change only by the host's writes while there is
\* a host, and not at all while the role is kept for one.
THEOREM HostKeysFollowTheRole == HubSpec => HostKeysFollowRole
<1>1. TypeInv /\ RoleInv /\ EntryInv /\ [HubNext]_hubVars => [HostKeyStep]_hubVars
  BY OnlyWritesReachHostKeys
<1>2. HubSpec => [][HostKeyStep]_hubVars
  BY <1>1, HubElectionInvariant, EntryInvariant, PTL DEF HubSpec
<1> QED
  BY <1>2 DEF HostKeysFollowRole, HostKeyStep

-----------------------------------------------------------------------------
(* The running costs.  Both sides of CostTalliesExact are sums over sets; what *)
(* is needed of a sum is in SumTheorems.                                       *)

Costs == [k \in Keys |-> CostAt(k)]

CostTotals ==
  /\ \A p \in Peers : ownCost[p] = Total(Costs, Owned(p))
  /\ roomCost = Total(Costs, Held)

CostsTyped == \A k \in Keys : Costs[k] = CostAt(k) /\ CostAt(k) \in Nat

LEMMA CostsAreNumbers == EntriesTyped => CostsTyped
  BY StateConstants DEF EntriesTyped, CostsTyped, Costs, CostAt, Held

\* Of a set of keys of the room: finite, and what their costs add up to.
SumRules ==
  \A S \in SUBSET Keys :
    /\ IsFiniteSet(S)
    /\ MapThenSumSet(CostAt, S) = Total(Costs, S)
    /\ Total(Costs, S) \in Nat
    /\ \A x \in S : Total(Costs, S) = CostAt(x) + Total(Costs, S \ {x})
    /\ \A R \in SUBSET S : Total(Costs, S) = Total(Costs, R) + Total(Costs, S \ R)

LEMMA SumOfCosts == EntriesTyped => SumRules
<1> SUFFICES ASSUME EntriesTyped, NEW S \in SUBSET Keys
             PROVE  /\ IsFiniteSet(S)
                    /\ MapThenSumSet(CostAt, S) = Total(Costs, S)
                    /\ Total(Costs, S) \in Nat
                    /\ \A x \in S : Total(Costs, S) = CostAt(x) + Total(Costs, S \ {x})
                    /\ \A R \in SUBSET S : Total(Costs, S) = Total(Costs, R) + Total(Costs, S \ R)
  BY DEF SumRules
<1> DEFINE w == [k \in S |-> CostAt(k)]
<1>1. IsFiniteSet(S)
  BY StateConstants, FS_Subset
<1>2. /\ \A k \in S : w[k] = CostAt(k) /\ w[k] \in Nat
      /\ \A k \in S : Costs[k] = CostAt(k) /\ Costs[k] \in Nat /\ w[k] = Costs[k]
  BY CostsAreNumbers DEF CostsTyped
<1>3. MapThenSumSet(CostAt, S) = Total(Costs, S)
  <2>1. \A s \in SUBSET S : s # {} => (CHOOSE x \in s : TRUE) \in s
    OBVIOUS
  <2> DEFINE Step(t, s) == IF s = {} THEN 0 ELSE CostAt(First(s)) + t[s \ {First(s)}]
             iter == CHOOSE t : t = [s \in SUBSET S |-> Step(t, s)]
  <2>2. \A t, s : s \in SUBSET S => Step(t, s) = Unfold(t, w, s)
    BY <2>1 DEF Unfold, First
  <2>3. \A t : t = [s \in SUBSET S |-> Step(t, s)] <=> IsTotal(t, w, S)
    BY <2>2 DEF IsTotal
  <2>4. PICK t : IsTotal(t, w, S)
    <3> HIDE DEF w
    <3> QED BY <1>1, TotalExists
  <2>5. iter = [s \in SUBSET S |-> Step(iter, s)]
    BY <2>3, <2>4
  <2>6. MapThenSumSet(CostAt, S) = iter[S]
    BY DEF MapThenSumSet, MapThenFoldSet, First
  <2>7. PICK u : IsTotal(u, Costs, S) /\ Total(Costs, S) = u[S]
    BY <1>1, TotalIsTotal
  <2>8. IsTotal(iter, w, S)
    BY <2>3, <2>5
  <2> HIDE DEF iter, w
  <2>9. iter[S] = u[S]
    BY <1>1, <1>2, <2>7, <2>8, TotalsAgree
  <2> QED BY <2>6, <2>7, <2>9
<1>4. Total(Costs, S) \in Nat /\ \A x \in S : Total(Costs, S) = Costs[x] + Total(Costs, S \ {x})
  BY <1>1, <1>2, TotalRules
<1>5. \A R \in SUBSET S : Total(Costs, S) = Total(Costs, R) + Total(Costs, S \ R)
  BY <1>1, <1>2, TotalSplits
<1> QED
  BY <1>1, <1>2, <1>3, <1>4, <1>5

LEMMA TalliesAreTotals == EntriesTyped => (CostTalliesExact <=> CostTotals)
<1>1. Held \subseteq Keys /\ \A p : Owned(p) \subseteq Keys
  BY DEF Owned, Held
<1> QED
  BY <1>1, SumOfCosts DEF SumRules, CostTalliesExact, CostTotals

\* The costs of keys that an action leaves alone are what they were.
LEMMA SameCosts ==
  ASSUME EntriesTyped, EntriesTyped', NEW S \in SUBSET Keys, \A k \in S : value'[k] = value[k]
  PROVE  Total(Costs, S)' = Total(Costs, S)
<1>1. \A k \in S : Costs'[k] = Costs[k] /\ Costs[k] \in Nat
  <2>1. \A k \in S : Costs[k] = CostAt(k) /\ CostAt(k) \in Nat
    BY CostsAreNumbers DEF CostsTyped
  <2>2. \A k \in S : Costs'[k] = CostAt(k)'
    BY DEF Costs
  <2>3. \A k \in S : CostAt(k)' = CostAt(k)
    BY DEF CostAt, Held
  <2> QED BY <2>1, <2>2, <2>3
<1>2. IsFiniteSet(S)
  BY StateConstants, FS_Subset
<1>3. Total(Costs, S) = Total(Costs', S)
  <2> HIDE DEF Costs
  <2> QED BY <1>1, <1>2, TotalExtensional
<1> QED
  BY <1>3

\* A peer that gives up some of its keys is left with the cost of the rest.
LEMMA CostAfterIsExact ==
  ASSUME EntriesTyped, TalliesTyped, CostTotals, NEW p \in Peers,
         NEW S \in SUBSET Owned(p), NEW c, c = Total(Costs, S)
  PROVE  /\ CostAfter(p, Cardinality(S), c) = Total(Costs, Owned(p) \ S)
         /\ Total(Costs, Owned(p) \ S) \in Nat
         /\ c \in Nat
         /\ ownCost[p] = c + Total(Costs, Owned(p) \ S)
<1>1. S \subseteq Keys /\ Owned(p) \in SUBSET Keys /\ Owned(p) \ S \in SUBSET Keys
  BY DEF Owned, Held
<1>2. /\ Total(Costs, Owned(p)) = Total(Costs, S) + Total(Costs, Owned(p) \ S)
      /\ Total(Costs, Owned(p) \ S) \in Nat
      /\ Total(Costs, S) \in Nat
  BY <1>1, SumOfCosts DEF SumRules
<1>3. ownCost[p] = c + Total(Costs, Owned(p) \ S)
  BY <1>2 DEF CostTotals
<1>4. ASSUME Spent(p, Cardinality(S), c)
      PROVE  Total(Costs, Owned(p) \ S) = 0
  BY <1>2, <1>3, <1>4 DEF Spent
<1> QED
  BY <1>2, <1>3, <1>4 DEF CostAfter

CostsNotRaised ==
  /\ \A q \in Peers : ownCost'[q] <= ownCost[q]
  /\ roomCost' <= roomCost
  /\ ownCost' \in [Peers -> Nat] /\ roomCost' \in Nat

CostsTallied == ownCost \in [Peers -> Nat] /\ roomCost \in Nat /\ CostTotals

LEMMA DelEntriesCosts ==
  ASSUME EntriesTyped, TalliesTyped, CostsTallied, NEW p \in Peers,
         NEW S \in SUBSET Owned(p), DelEntries(p, S)
  PROVE  CostsTallied' /\ CostsNotRaised
<1> DEFINE c == MapThenSumSet(CostAt, S)
           left == Total(Costs, Owned(p) \ S)
<1>1. S \in SUBSET Keys /\ S \in SUBSET Held /\ Held \in SUBSET Keys /\ \A q : Owned(q) \in SUBSET Keys
  BY DEF Owned, Held
<1>2. c = Total(Costs, S)
  BY <1>1, SumOfCosts DEF SumRules
<1>3. /\ CostAfter(p, Cardinality(S), c) = left
      /\ left \in Nat /\ c \in Nat
      /\ ownCost[p] = c + left
  <2> HIDE DEF c, left
  <2> QED BY <1>2, CostAfterIsExact DEF CostsTallied, left
<1>4. /\ ownCost' = [ownCost EXCEPT ![p] = left]
      /\ roomCost' = NonNegative(roomCost - c)
  <2>1. /\ ownCost' = [ownCost EXCEPT ![p] = CostAfter(p, Cardinality(S), c)]
        /\ roomCost' = NonNegative(roomCost - c)
    BY DEF DelEntries
  <2> HIDE DEF c, left
  <2> QED BY <1>3, <2>1
<1>5. /\ EntriesTyped'
      /\ Held' = Held \ S
      /\ \A q \in Peers : Owned(q)' = IF q = p THEN Owned(q) \ S ELSE Owned(q)
  BY DelEntriesEntries
<1>6. \A k \in Keys \ S : value'[k] = value[k]
  BY DEF DelEntries
<1>7. /\ roomCost = c + Total(Costs, Held \ S)
      /\ Total(Costs, Held \ S) \in Nat
  <2> HIDE DEF c
  <2> QED BY <1>1, <1>2, SumOfCosts DEF SumRules, CostsTallied, CostTotals
<1> DEFINE rest(q) == IF q = p THEN Owned(q) \ S ELSE Owned(q)
<1>8. /\ Total(Costs', Held \ S) = Total(Costs, Held \ S)
      /\ \A q \in Peers : Total(Costs', rest(q)) = Total(Costs, rest(q))
  <2>1. \A q \in Peers : rest(q) \in SUBSET Keys /\ \A k \in rest(q) : value'[k] = value[k]
    <3>1. \A q \in Peers : \A k \in rest(q) : k \in Owned(q) /\ k \notin S
      BY DEF Owned
    <3> QED BY <1>1, <1>6, <3>1
  <2> HIDE DEF rest
  <2> QED BY <1>1, <1>5, <1>6, <2>1, SameCosts
<1>9. roomCost' = Total(Costs, Held \ S) /\ roomCost' <= roomCost /\ roomCost' \in Nat
  <2> HIDE DEF c
  <2> QED BY <1>3, <1>4, <1>7 DEF NonNegative
<1>10. ASSUME NEW q \in Peers
       PROVE  /\ ownCost'[q] = Total(Costs, rest(q))
              /\ ownCost'[q] <= ownCost[q] /\ ownCost'[q] \in Nat
  <2>1. ownCost[q] \in Nat /\ ownCost[q] = Total(Costs, Owned(q))
    BY DEF CostsTallied, CostTotals
  <2>2. CASE q = p
    <3> HIDE DEF c
    <3>1. ownCost'[q] = left
      BY <1>4, <2>2 DEF CostsTallied
    <3> QED BY <1>3, <2>1, <2>2, <3>1
  <2>3. CASE q # p
    <3>1. ownCost'[q] = ownCost[q]
      BY <1>4, <2>3 DEF CostsTallied
    <3> QED BY <2>1, <2>3, <3>1
  <2> QED BY <2>2, <2>3
<1>11. ownCost' \in [Peers -> Nat]
  <2> HIDE DEF left, c
  <2> QED BY <1>3, <1>4 DEF CostsTallied
<1>12. CostTotals'
  <2> HIDE DEF rest
  <2>1. \A q \in Peers : Owned(q)' = rest(q)
    BY <1>5 DEF rest
  <2> QED BY <1>5, <1>8, <1>9, <1>10, <2>1 DEF CostTotals
<1> QED
  BY <1>9, <1>10, <1>11, <1>12 DEF CostsTallied, CostsNotRaised

\* What a write leaves of the peers' costs: the writer bears the new value, the previous
\* owner's is released.
LEMMA SetEntryCosts ==
  ASSUME EntriesTyped, TalliesTyped, CostsTallied,
         NEW k \in Keys, NEW p \in Peers, NEW v \in Values, SetEntry(k, p, v)
  PROVE  /\ CostsTallied'
         /\ ownCost'[p] = ownCost[p] - (IF owner[k] = p THEN CostAt(k) ELSE 0) + Cost[v]
         /\ \A q \in Peers \ {p} : ownCost'[q] <= ownCost[q]
         /\ roomCost' = roomCost - CostAt(k) + Cost[v]
<1> USE StateConstants, ElectionConstants
<1>1. /\ EntriesTyped'
      /\ Held' = Held \cup {k}
      /\ \A q \in Peers : Owned(q)' = IF q = p THEN Owned(q) \cup {k} ELSE Owned(q) \ {k}
  BY SetEntryEntries
<1>2. /\ value' = [value EXCEPT ![k] = v]
      /\ \A j \in Keys \ {k} : value'[j] = value[j]
  BY DEF SetEntry, EntriesTyped
<1>3. /\ Held \in SUBSET Keys /\ \A q : Owned(q) \in SUBSET Keys
      /\ Held \ {k} \in SUBSET Keys /\ \A q : Owned(q) \ {k} \in SUBSET Keys
      /\ Held \cup {k} \in SUBSET Keys /\ \A q : Owned(q) \cup {k} \in SUBSET Keys
  BY DEF Owned, Held
<1>4. CostAt(k) \in Nat /\ Cost[v] \in Nat /\ CostAt(k)' = Cost[v]
  <2>1. k \in Held'
    BY <1>1
  <2>2. value'[k] = v
    BY <1>2 DEF EntriesTyped
  <2> QED BY <2>1, <2>2, CostsAreNumbers DEF CostAt, CostsTyped
\* A set of keys, without k, weighs the same before and after; with k, it weighs k's cost more.
<1>5. ASSUME NEW S \in SUBSET Keys
      PROVE  /\ Total(Costs', S \ {k}) = Total(Costs, S \ {k})
             /\ Total(Costs, S \ {k}) \in Nat
             /\ k \in S => Total(Costs, S) = CostAt(k) + Total(Costs, S \ {k})
             /\ Total(Costs', S \cup {k}) = Cost[v] + Total(Costs, S \ {k})
  <2>1. /\ S \ {k} \in SUBSET Keys /\ S \cup {k} \in SUBSET Keys
        /\ (S \cup {k}) \ {k} = S \ {k} /\ k \in S \cup {k}
    OBVIOUS
  <2>2. Total(Costs', S \ {k}) = Total(Costs, S \ {k})
    BY <1>1, <1>2, <2>1, SameCosts
  <2>3. EntriesTyped' => SumRules'
    BY SumOfCosts, PTL
  <2>4. Total(Costs', S \cup {k}) = CostAt(k)' + Total(Costs', S \ {k})
    BY <1>1, <2>1, <2>3 DEF SumRules
  <2>5. /\ Total(Costs, S \ {k}) \in Nat
        /\ k \in S => Total(Costs, S) = CostAt(k) + Total(Costs, S \ {k})
    BY <2>1, SumOfCosts DEF SumRules
  <2> QED BY <1>4, <2>2, <2>4, <2>5
<1>6. roomCost' = roomCost - CostAt(k) + Cost[v] /\ roomCost' = Total(Costs', Held \cup {k})
      /\ roomCost' \in Nat
  <2>1. /\ roomCost = Total(Costs, Held) /\ roomCost \in Nat
        /\ roomCost' = NonNegative(roomCost - CostAt(k) + Cost[v])
    BY DEF CostsTallied, CostTotals, SetEntry
  <2>2. /\ Total(Costs, Held \ {k}) \in Nat
        /\ k \in Held => Total(Costs, Held) = CostAt(k) + Total(Costs, Held \ {k})
        /\ Total(Costs', Held \cup {k}) = Cost[v] + Total(Costs, Held \ {k})
    BY <1>3, <1>5
  <2>3. k \notin Held => CostAt(k) = 0 /\ Held \ {k} = Held
    BY DEF CostAt
  <2>4. roomCost - CostAt(k) = Total(Costs, Held \ {k})
    <3>1. CASE k \in Held
      BY <1>4, <2>1, <2>2, <3>1
    <3>2. CASE k \notin Held
      <4>1. CostAt(k) = 0 /\ roomCost = Total(Costs, Held \ {k})
        BY <2>1, <2>3, <3>2
      <4> QED BY <2>1, <4>1
    <3> QED BY <3>1, <3>2
  <2>5. roomCost - CostAt(k) + Cost[v] \in Nat
    BY <1>4, <2>2, <2>4
  <2>6. roomCost' = roomCost - CostAt(k) + Cost[v]
    BY <2>1, <2>5 DEF NonNegative
  <2> QED BY <1>4, <2>2, <2>4, <2>5, <2>6
<1> DEFINE released(q) == IF owner[k] = q THEN ownCost[q] - CostAt(k) ELSE ownCost[q]
<1>7. \A q \in Peers : /\ released(q) = Total(Costs, Owned(q) \ {k})
                       /\ released(q) \in Nat /\ released(q) <= ownCost[q]
  <2> SUFFICES ASSUME NEW q \in Peers
               PROVE  /\ released(q) = Total(Costs, Owned(q) \ {k})
                      /\ released(q) \in Nat /\ released(q) <= ownCost[q]
    OBVIOUS
  <2>1. ownCost[q] = Total(Costs, Owned(q)) /\ ownCost[q] \in Nat
    BY DEF CostsTallied, CostTotals
  <2>2. /\ Total(Costs, Owned(q) \ {k}) \in Nat
        /\ k \in Owned(q) => Total(Costs, Owned(q)) = CostAt(k) + Total(Costs, Owned(q) \ {k})
    BY <1>3, <1>5
  <2>3. k \in Owned(q) <=> owner[k] = q
    BY DEF Owned, EntriesTyped
  <2>4. k \notin Owned(q) => Owned(q) \ {k} = Owned(q)
    OBVIOUS
  <2> QED BY <1>4, <2>1, <2>2, <2>3, <2>4
<1> DEFINE credited == IF k \in Held
                       THEN [ownCost EXCEPT ![owner[k]] = CostAfter(owner[k], 1, CostAt(k))]
                       ELSE ownCost
<1>8. credited \in [Peers -> Nat] /\ \A q \in Peers : credited[q] = released(q)
  <2>1. CASE k \notin Held
    BY <1>4, <2>1 DEF CostsTallied, EntriesTyped
  <2>2. CASE k \in Held
    <3> DEFINE o == owner[k]
    <3>1. o \in Peers /\ k \in Owned(o)
      BY <2>2 DEF EntriesTyped, Owned
    <3>2. CostAfter(o, Cardinality({k}), CostAt(k)) = Total(Costs, Owned(o) \ {k})
      <4>1. CostAt(k) = Total(Costs, {k})
        <5>1. {k} \in SUBSET Keys /\ {k} \ {k} = {} /\ {} \in SUBSET Keys
          OBVIOUS
        <5>2. Total(Costs, {k}) = CostAt(k) + Total(Costs, {})
          BY <5>1, SumOfCosts DEF SumRules
        <5>3. Total(Costs, {}) = 0
          <6>1. \A x \in {} : Costs[x] \in Nat
            OBVIOUS
          <6> HIDE DEF Costs
          <6> QED BY <6>1, FS_EmptySet, TotalRules
        <5> QED BY <1>4, <5>2, <5>3
      <4>2. {k} \in SUBSET Owned(o)
        BY <3>1
      <4> DEFINE c == CostAt(k)
      <4> HIDE DEF c, o
      <4> QED BY <3>1, <4>1, <4>2, CostAfterIsExact DEF c, CostsTallied
    <3>3. CostAfter(o, 1, CostAt(k)) = released(o) /\ released(o) \in Nat
      <4>1. Cardinality({k}) = 1
        BY FS_Singleton
      <4> HIDE DEF o, released
      <4> QED BY <1>7, <3>1, <3>2, <4>1
    <3>4. credited = [ownCost EXCEPT ![o] = released(o)]
      BY <2>2, <3>3
    <3> QED BY <1>4, <3>1, <3>3, <3>4 DEF CostsTallied
  <2> QED BY <2>1, <2>2
<1>9. ownCost' = [credited EXCEPT ![p] = @ + Cost[v]]
  BY DEF SetEntry
<1> HIDE DEF credited
<1>10. /\ ownCost' \in [Peers -> Nat]
       /\ \A q \in Peers : ownCost'[q] = IF q = p THEN released(p) + Cost[v] ELSE released(q)
  BY <1>4, <1>8, <1>9
<1>11. \A q \in Peers : ownCost'[q] = Total(Costs, Owned(q))'
  <2> SUFFICES ASSUME NEW q \in Peers PROVE ownCost'[q] = Total(Costs', Owned(q)')
    OBVIOUS
  <2>1. CASE q = p
    <3>1. Total(Costs', Owned(q) \cup {k}) = Cost[v] + Total(Costs, Owned(q) \ {k})
      BY <1>3, <1>5
    <3>2. Owned(q)' = Owned(q) \cup {k}
      BY <1>1, <2>1
    <3> HIDE DEF released
    <3>3. ownCost'[q] = released(p) + Cost[v] /\ released(p) = Total(Costs, Owned(p) \ {k})
          /\ released(p) \in Nat
      BY <1>7, <1>10, <2>1
    <3> QED BY <1>4, <2>1, <3>1, <3>2, <3>3
  <2>2. CASE q # p
    <3>1. Total(Costs', Owned(q) \ {k}) = Total(Costs, Owned(q) \ {k})
      BY <1>3, <1>5
    <3>2. Owned(q)' = Owned(q) \ {k}
      BY <1>1, <2>2
    <3> HIDE DEF released
    <3> QED BY <1>7, <1>10, <2>2, <3>1, <3>2
  <2> QED BY <2>1, <2>2
<1>12. CostsTallied'
  BY <1>1, <1>6, <1>10, <1>11 DEF CostsTallied, CostTotals
<1>13. ownCost'[p] = ownCost[p] - (IF owner[k] = p THEN CostAt(k) ELSE 0) + Cost[v]
  <2>1. ownCost[p] \in Nat
    BY DEF CostsTallied
  <2> QED BY <1>4, <1>10, <2>1
<1>14. \A q \in Peers \ {p} : ownCost'[q] <= ownCost[q]
  <2> HIDE DEF released
  <2> QED BY <1>7, <1>10
<1> QED
  BY <1>6, <1>12, <1>13, <1>14

LEMMA DropCosts ==
  ASSUME DropRoomState, EntriesTyped'
  PROVE  CostsTallied' /\ \A p \in Peers : ownCost'[p] = 0
<1>1. Held' = {} /\ \A p \in Peers : Owned(p)' = {}
  BY DropEntries DEF Owned
<1>2. Total(Costs', {}) = 0
  <2>1. \A x \in {} : Costs'[x] \in Nat
    OBVIOUS
  <2> HIDE DEF Costs
  <2> QED BY <2>1, FS_EmptySet, TotalRules
<1>3. ownCost' = [p \in Peers |-> 0] /\ roomCost' = 0
  BY DEF DropRoomState
<1> QED
  BY <1>1, <1>2, <1>3 DEF CostsTallied, CostTotals

-----------------------------------------------------------------------------
(* The invariant of the costs and their budgets.                               *)

Budgets ==
  /\ \A p \in Peers : ownCost[p] <= CostPerPeer
  /\ roomCost <= CostPerRoom
  /\ roomCost + elsewhere <= CostTotal
  /\ elsewhere \in Nat

NothingWithoutMembers == Members = {} => Held = {}

CostInv == CostsTallied /\ Budgets /\ NothingWithoutMembers

LEMMA CostsUntouched ==
  ASSUME EntriesTyped, EntriesTyped', CostsTallied, UNCHANGED <<value, owner, ownCost, roomCost>>
  PROVE  CostsTallied'
<1>1. Held' = Held /\ \A p : Owned(p)' = Owned(p)
  BY DEF Held, Owned
<1>2. Held \in SUBSET Keys /\ \A p : Owned(p) \in SUBSET Keys
  BY DEF Held, Owned
<1>3. \A S \in SUBSET Keys : Total(Costs', S) = Total(Costs, S)
  BY SameCosts
<1> QED
  BY <1>1, <1>2, <1>3 DEF CostsTallied, CostTotals

LEMMA SetStateCosts ==
  ASSUME TypeInv, EntryInv, CostInv,
         NEW p \in Peers, NEW k \in Keys, NEW v \in Values \cup {NoValue}, SetState(p, k, v)
  PROVE  CostInv'
<1> USE StateConstants
<1>1. /\ elsewhere' = elsewhere
      /\ p \in Members /\ Members' = Members
  BY DEF SetState, electionVars, memberVars, Members
<1>2. NothingWithoutMembers'
  BY <1>1 DEF NothingWithoutMembers
<1>3. CASE v = NoValue /\ k \in Held
  <2>1. owner[k] \in Peers /\ {k} \in SUBSET Owned(owner[k]) /\ DelEntries(owner[k], {k})
    BY <1>3 DEF SetState, DelEntry, EntryInv, EntriesTyped, Owned
  <2>2. CostsTallied' /\ CostsNotRaised
    BY <2>1, DelEntriesCosts DEF EntryInv, CostInv
  <2> QED BY <1>1, <1>2, <2>2 DEF CostInv, CostsTallied, CostsNotRaised, Budgets
<1>4. CASE v = NoValue /\ k \notin Held
  <2>1. UNCHANGED <<value, owner, ownKeys, ownCost, roomCost>>
    BY <1>4 DEF SetState, DelEntry, entryVars, tallyVars
  <2>2. EntryInv'
    BY <2>1, EntriesUntouched
  <2>3. CostsTallied'
    BY <2>1, <2>2, CostsUntouched DEF EntryInv, CostInv
  <2> QED BY <1>1, <1>2, <2>1, <2>3 DEF CostInv, Budgets
<1>5. CASE v # NoValue
  <2>1. v \in Values /\ SetEntry(k, p, v) /\ WithinCostLimits(p, k, v)
    BY <1>5 DEF SetState, Admitted
  <2>2. /\ CostsTallied'
        /\ ownCost'[p] = ownCost[p] - (IF owner[k] = p THEN CostAt(k) ELSE 0) + Cost[v]
        /\ \A q \in Peers \ {p} : ownCost'[q] <= ownCost[q]
        /\ roomCost' = roomCost - CostAt(k) + Cost[v]
    BY <2>1, SetEntryCosts DEF EntryInv, CostInv
  <2>3. CostAt(k) \in Nat /\ Cost[v] \in Nat
    BY <2>1, CostsAreNumbers DEF CostsTyped, EntryInv
  <2>4. \A q \in Peers : ownCost'[q] <= CostPerPeer
    <3>1. ownCost'[p] <= CostPerPeer
      BY <2>1, <2>2 DEF WithinCostLimits
    <3>2. \A q \in Peers \ {p} : ownCost'[q] <= CostPerPeer
      BY <2>2 DEF CostInv, CostsTallied, Budgets
    <3> QED BY <3>1, <3>2
  <2>5. roomCost' <= CostPerRoom /\ roomCost' + elsewhere <= CostTotal
    <3>1. roomCost \in Nat /\ elsewhere \in Nat
      BY DEF CostInv, CostsTallied, Budgets
    <3>2. roomCost' + elsewhere = roomCost + elsewhere - CostAt(k) + Cost[v]
      BY <2>2, <2>3, <3>1
    <3> QED BY <2>1, <2>2, <3>2 DEF WithinCostLimits
  <2> QED BY <1>1, <1>2, <2>2, <2>4, <2>5 DEF CostInv, Budgets
<1> QED
  BY <1>3, <1>4, <1>5

LEMMA DisconnectCosts ==
  ASSUME TypeInv, EntryInv, EntryInv', CostInv, NEW p \in Peers, HubDisconnect(p)
  PROVE  CostInv'
<1> USE StateConstants
<1>1. Members' = Members \ {p} /\ p \in Members /\ elsewhere' = elsewhere
  BY DEF HubDisconnect, Disconnect, TypeInv, ElectionTypeOK, Members
<1>2. CASE Members = {p}
  <2>1. DropRoomState
    BY <1>2 DEF HubDisconnect
  <2>2. CostsTallied' /\ roomCost' = 0 /\ Held' = {} /\ \A q \in Peers : ownCost'[q] = 0
    BY <2>1, DropCosts, DropEntries DEF EntryInv, DropRoomState
  <2>3. elsewhere \in Nat /\ elsewhere <= CostTotal
    BY DEF CostInv, CostsTallied, Budgets
  <2>4. Budgets'
    BY <1>1, <2>2, <2>3 DEF Budgets
  <2> QED BY <2>2, <2>4 DEF CostInv, NothingWithoutMembers
<1>3. CASE Members # {p} /\ Gripped(p) # {}
  <2>1. DelEntries(p, Gripped(p)) /\ Gripped(p) \in SUBSET Owned(p)
    BY <1>3 DEF HubDisconnect, Gripped, Owned
  <2>2. CostsTallied' /\ CostsNotRaised
    <3> DEFINE S == Gripped(p)
    <3>1. DelEntries(p, S) /\ S \in SUBSET Owned(p)
      BY <2>1
    <3> HIDE DEF S
    <3> QED BY <3>1, DelEntriesCosts DEF EntryInv, CostInv
  <2>3. Members' # {}
    BY <1>1, <1>3
  <2> QED BY <1>1, <2>2, <2>3 DEF CostInv, CostsTallied, CostsNotRaised, Budgets, NothingWithoutMembers
<1>4. CASE Members # {p} /\ Gripped(p) = {}
  <2>1. UNCHANGED <<value, owner, ownCost, roomCost, elsewhere>>
    BY <1>4 DEF HubDisconnect, entryVars, tallyVars
  <2>2. CostsTallied'
    BY <2>1, CostsUntouched DEF EntryInv, CostInv
  <2>3. Members' # {}
    BY <1>1, <1>4
  <2> QED BY <2>1, <2>2, <2>3 DEF CostInv, Budgets, NothingWithoutMembers
<1> QED
  BY <1>2, <1>3, <1>4

LEMMA CostStep == TypeInv /\ EntryInv /\ EntryInv' /\ CostInv /\ [HubNext]_hubVars => CostInv'
<1> SUFFICES ASSUME TypeInv, EntryInv, EntryInv', CostInv, [HubNext]_hubVars PROVE CostInv'
  OBVIOUS
<1> USE StateConstants, ElectionConstants
<1>1. ASSUME NEW p \in Peers, NEW s \in Sids \cup {NoSid}, HubConnect(p, s)
      PROVE  CostInv'
  <2>1. UNCHANGED <<value, owner, ownCost, roomCost, elsewhere>>
    BY <1>1 DEF HubConnect, stateVars, entryVars, tallyVars
  <2>2. Members' # {}
    BY <1>1 DEF HubConnect, Connect, TypeInv, ElectionTypeOK, Members
  <2>3. CostsTallied'
    BY <2>1, CostsUntouched DEF EntryInv, CostInv
  <2> QED BY <2>1, <2>2, <2>3 DEF CostInv, Budgets, NothingWithoutMembers
<1>2. CASE \/ \E p \in Peers : HubBeginClose(p)
           \/ HubExpireHostGrace \/ HubSweep \/ HubTick \/ UNCHANGED hubVars
  <2>1. UNCHANGED <<value, owner, ownCost, roomCost, elsewhere>>
    BY <1>2 DEF HubBeginClose, HubExpireHostGrace, HubSweep, HubTick, hubVars, stateVars,
                entryVars, tallyVars
  <2>2. Members' = Members
    BY <1>2 DEF HubBeginClose, BeginClose, HubExpireHostGrace, ExpireHostGrace, HubSweep, Sweep,
                HubTick, Tick, hubVars, electionVars, memberVars, Members
  <2>3. CostsTallied'
    BY <2>1, CostsUntouched DEF EntryInv, CostInv
  <2>4. Held' = Held
    BY <2>1 DEF Held
  <2> QED BY <2>1, <2>2, <2>3, <2>4 DEF CostInv, Budgets, NothingWithoutMembers
<1>3. CASE OtherRooms
  <2>1. /\ UNCHANGED <<value, owner, ownCost, roomCost>> /\ Members' = Members
        /\ elsewhere' \in 0 .. NonNegative(CostTotal - roomCost)
    BY <1>3 DEF OtherRooms, electionVars, memberVars, entryVars, tallyVars, Members
  <2>2. roomCost \in Nat /\ elsewhere \in Nat /\ roomCost + elsewhere <= CostTotal
    BY DEF CostInv, CostsTallied, Budgets
  <2>3. elsewhere' \in Nat /\ roomCost' + elsewhere' <= CostTotal
    BY <2>1, <2>2 DEF NonNegative
  <2>4. CostsTallied'
    BY <2>1, CostsUntouched DEF EntryInv, CostInv
  <2>5. Held' = Held
    BY <2>1 DEF Held
  <2> QED BY <2>1, <2>3, <2>4, <2>5 DEF CostInv, Budgets, NothingWithoutMembers
<1> QED
  BY <1>1, <1>2, <1>3, SetStateCosts, DisconnectCosts DEF HubNext

LEMMA CostInvariant == HubSpec => []CostInv
<1>1. HubInit => CostInv
  <2> SUFFICES ASSUME HubInit PROVE CostInv
    OBVIOUS
  <2>1. Held = {} /\ \A p \in Peers : Owned(p) = {}
    BY DEF HubInit, StateInit, Held, Owned
  <2>2. Total(Costs, {}) = 0
    <3>1. \A x \in {} : Costs[x] \in Nat
      OBVIOUS
    <3> HIDE DEF Costs
    <3> QED BY <3>1, FS_EmptySet, TotalRules
  <2>3. ownCost = [p \in Peers |-> 0] /\ roomCost = 0 /\ elsewhere = 0
    BY DEF HubInit, StateInit
  <2>4. CostsTallied
    BY <2>1, <2>2, <2>3 DEF CostsTallied, CostTotals
  <2> QED BY <2>1, <2>3, <2>4, StateConstants DEF CostInv, Budgets, NothingWithoutMembers
<1> QED
  BY <1>1, CostStep, EntryInvariant, HubElectionInvariant, PTL DEF HubSpec

\* The running costs of each peer and of the room, on which the byte budgets decide, are the
\* sums of what the peer and the room hold, through overwrites of others' keys, clears,
\* departures and emptied rooms, and whatever a value costs.
THEOREM CostTalliesAreExact == HubSpec => []CostTalliesExact
<1>1. EntryInv /\ CostInv => CostTalliesExact
  BY TalliesAreTotals DEF EntryInv, CostInv, CostsTallied
<1> QED
  BY <1>1, EntryInvariant, CostInvariant, PTL

\* No sequence of writes, clears and departures takes a room's keys, a peer's, a room's or
\* the process's cost over its budget, whatever the budgets are.
THEOREM BudgetsAreKept == HubSpec => []WithinBudgets
<1>1. EntryInv /\ CostInv => WithinBudgets
  BY DEF EntryInv, CostInv, Budgets, WithinBudgets
<1> QED
  BY <1>1, EntryInvariant, CostInvariant, PTL

\* The state of a room that has become empty is gone, with every charge for it.
THEOREM EmptyRoomsAreForgotten == HubSpec => []EmptyRoomIsForgotten
<1>1. EntryInv /\ CostInv => EmptyRoomIsForgotten
  <2> SUFFICES ASSUME EntryInv, CostInv, Members = {}
               PROVE  Held = {} /\ roomCost = 0 /\ \A p \in Peers : ownKeys[p] = 0 /\ ownCost[p] = 0
    BY DEF EmptyRoomIsForgotten
  <2>1. Held = {} /\ \A p \in Peers : Owned(p) = {}
    BY DEF CostInv, NothingWithoutMembers, Owned
  <2>2. Total(Costs, {}) = 0
    <3>1. \A x \in {} : Costs[x] \in Nat
      OBVIOUS
    <3> HIDE DEF Costs
    <3> QED BY <3>1, FS_EmptySet, TotalRules
  <2> QED
    BY <2>1, <2>2, FS_EmptySet
       DEF CostInv, CostsTallied, CostTotals, EntryInv, TalliesTyped, KeyTalliesExact
<1> QED
  BY <1>1, EntryInvariant, CostInvariant, PTL

\* The map of entries and its tallies keep their types; a key has an owner just when it has
\* a value.
THEOREM StateTypes == HubSpec => []StateTypeOK
<1>1. EntryInv /\ CostInv => StateTypeOK
  BY DEF EntryInv, EntriesTyped, TalliesTyped, CostInv, CostsTallied, Budgets, StateTypeOK
<1> QED
  BY <1>1, EntryInvariant, CostInvariant, PTL

=============================================================================
