--------------------------- MODULE RoomSyncProofs ---------------------------
(***************************************************************************)
(* Proofs about RoomSync, for any number of clients, sockets, keys and     *)
(* values, any limits and any number of frames in flight: what a client    *)
(* will have once the frames on their way to it have arrived is what the   *)
(* server has, but for what the client itself wrote last; nobody takes     *)
(* itself for a host the server does not recognise; and the server, its    *)
(* clients and the frames between them implement the shared room of        *)
(* SharedRoom.                                                             *)
(***************************************************************************)
EXTENDS RoomSync, RoomStateProofs, SequenceTheorems

Content == Values \cup {NoValue}
StateFrames == [type : {"STATE"}, key : Keys, value : Content]
HostFrames == [type : {"HELLO", "HOST"}, host : Peers \cup {NoPeer}]

LEMMA FramesAreTwoKinds ==
  /\ Frames = HostFrames \cup StateFrames
  /\ \A m \in Frames : /\ m.type = "STATE" => m \in StateFrames
                       /\ m.type # "STATE" => m \in HostFrames
                       /\ m.type = "STATE" => m.type \notin {"HELLO", "HOST"}
  BY DEF Frames, HostFrames, StateFrames, Content

-----------------------------------------------------------------------------
(* What a sequence of frames makes of a copy, or of the view of the host: the  *)
(* last frame on a topic decides.                                              *)

LastAt(s, x) == Max(At(s, x))

\* The host that a sequence of frames names to its reader.
Names(s, p) == \E i \in 1..Len(s) : s[i].type \in {"HELLO", "HOST"} /\ s[i].host = p

LEMMA LatestIsLast ==
  ASSUME NEW s, NEW x, NEW old
  PROVE  Latest(s, x, old) = IF At(s, x) = {} THEN old ELSE Told(s[LastAt(s, x)])
  BY DEF Latest, LastAt

LEMMA LastIsLast ==
  ASSUME NEW s \in Seq(Frames), NEW x, At(s, x) # {}
  PROVE  LastAt(s, x) \in At(s, x) /\ \A j \in At(s, x) : j <= LastAt(s, x)
<1> DEFINE I == At(s, x)
           N == {Len(s) - i : i \in I}
<1>1. Len(s) \in Nat /\ \A i \in I : i \in Nat /\ i <= Len(s)
  BY LenProperties DEF At
<1>2. PICK n \in N : \A m \in N : ~ (m < n)
  <2>1. N \subseteq Nat /\ N # {}
    BY <1>1
  <2> HIDE DEF N
  <2> QED
    BY <2>1, LeastNumber
<1>3. PICK i \in I : n = Len(s) - i
  OBVIOUS
<1>4. \A j \in I : j <= i
  <2> SUFFICES ASSUME NEW j \in I PROVE j <= i
    OBVIOUS
  <2>1. ~ (Len(s) - j < Len(s) - i)
    BY <1>2, <1>3
  <2> HIDE DEF I
  <2> QED
    BY <1>1, <2>1
<1>5. \A j \in I : i >= j
  BY <1>1, <1>4
<1>6. LastAt(s, x) \in I /\ \A j \in I : LastAt(s, x) >= j
  <2> HIDE DEF I
  <2>1. Max(I) \in I /\ \A j \in I : Max(I) >= j
    BY <1>5 DEF Max
  <2> QED
    BY <2>1 DEF LastAt, I
<1> QED
  BY <1>1, <1>6

\* Where a concatenation has its frames on a topic.
LEMMA AtConcat ==
  ASSUME NEW s \in Seq(Frames), NEW t \in Seq(Frames), NEW x
  PROVE  /\ s \o t \in Seq(Frames)
         /\ \A i \in At(s, x) : i \in At(s \o t, x) /\ (s \o t)[i] = s[i]
         /\ \A i \in At(t, x) : i + Len(s) \in At(s \o t, x) /\ (s \o t)[i + Len(s)] = t[i]
         /\ \A i \in At(s \o t, x) : i \in At(s, x) \/ i - Len(s) \in At(t, x)
<1>1. /\ s \o t \in Seq(Frames)
      /\ Len(s \o t) = Len(s) + Len(t)
      /\ \A i \in 1 .. Len(s) + Len(t) : (s \o t)[i] =
           IF i <= Len(s) THEN s[i] ELSE t[i - Len(s)]
  BY ConcatProperties
<1>2. Len(s) \in Nat /\ Len(t) \in Nat
  BY LenProperties
<1>3. \A i \in 1..Len(s) : i \in 1..Len(s \o t) /\ (s \o t)[i] = s[i]
  BY <1>1, <1>2
<1>4. \A i \in 1..Len(t) : i + Len(s) \in 1..Len(s \o t) /\ (s \o t)[i + Len(s)] = t[i]
  BY <1>1, <1>2
<1>5. \A i \in 1..Len(s \o t) : \/ i \in 1..Len(s)
                                \/ i - Len(s) \in 1..Len(t) /\ (s \o t)[i] = t[i - Len(s)]
  BY <1>1, <1>2
<1> QED
  BY <1>1, <1>3, <1>4, <1>5 DEF At

LEMMA LatestConcat ==
  ASSUME NEW s \in Seq(Frames), NEW t \in Seq(Frames), NEW x, NEW old
  PROVE  Latest(s \o t, x, old) = Latest(t, x, Latest(s, x, old))
<1> DEFINE u == s \o t
<1>1. /\ u \in Seq(Frames) /\ Len(s) \in Nat
      /\ \A i \in At(s, x) : i \in At(u, x) /\ u[i] = s[i]
      /\ \A i \in At(t, x) : i + Len(s) \in At(u, x) /\ u[i + Len(s)] = t[i]
      /\ \A i \in At(u, x) : i \in At(s, x) \/ i - Len(s) \in At(t, x)
  <2>1. Len(s) \in Nat
    OBVIOUS
  <2>2. /\ s \o t \in Seq(Frames)
        /\ \A i \in At(s, x) : i \in At(s \o t, x) /\ (s \o t)[i] = s[i]
        /\ \A i \in At(t, x) : i + Len(s) \in At(s \o t, x) /\ (s \o t)[i + Len(s)] = t[i]
        /\ \A i \in At(s \o t, x) : i \in At(s, x) \/ i - Len(s) \in At(t, x)
    BY AtConcat, Zenon
  <2> QED
    BY <2>1, <2>2, Zenon
<1>2. /\ \A i \in At(s, x) : i \in Nat /\ 1 <= i /\ i <= Len(s)
      /\ \A i \in At(t, x) : i \in Nat /\ 1 <= i
      /\ \A i \in At(u, x) : i \in Nat
  BY DEF At
<1> HIDE DEF u
<1>3. CASE At(t, x) # {}
  <2> DEFINE i == LastAt(t, x)
             j == LastAt(u, x)
  <2>1. i \in At(t, x) /\ \A n \in At(t, x) : n <= i
    BY <1>3, LastIsLast
  <2>2. At(u, x) # {} /\ i + Len(s) \in At(u, x) /\ u[i + Len(s)] = t[i]
    BY <1>1, <2>1
  <2>3. j \in At(u, x) /\ \A n \in At(u, x) : n <= j
    BY <1>1, <2>2, LastIsLast
  <2> HIDE DEF i, j
  <2>4. i + Len(s) <= j
    BY <2>2, <2>3
  <2>5. j \notin At(s, x)
    BY <1>1, <1>2, <2>1, <2>4
  <2>6. j - Len(s) \in At(t, x)
    BY <1>1, <2>3, <2>5
  <2>7. j - Len(s) <= i
    BY <2>1, <2>6
  <2>8. j = i + Len(s)
    BY <1>1, <1>2, <2>1, <2>3, <2>4, <2>7
  <2> QED
    BY <1>3, <2>2, <2>8, LatestIsLast DEF i, j, u
<1>4. CASE At(t, x) = {} /\ At(s, x) # {}
  <2> DEFINE i == LastAt(s, x)
             j == LastAt(u, x)
  <2>1. i \in At(s, x) /\ \A n \in At(s, x) : n <= i
    BY <1>4, LastIsLast
  <2>2. At(u, x) # {} /\ i \in At(u, x)
    BY <1>1, <2>1
  <2>3. j \in At(u, x) /\ \A n \in At(u, x) : n <= j
    BY <1>1, <2>2, LastIsLast
  <2> HIDE DEF i, j
  <2>4. j \in At(s, x) /\ u[j] = s[j]
    BY <1>1, <1>4, <2>3
  <2>5. j = i
    BY <1>2, <2>1, <2>2, <2>3, <2>4
  <2> QED
    BY <1>4, <2>2, <2>4, <2>5, LatestIsLast DEF i, j, u
<1>5. CASE At(t, x) = {} /\ At(s, x) = {}
  <2>1. At(u, x) = {}
    BY <1>1, <1>5
  <2> QED
    BY <1>5, <2>1, LatestIsLast DEF u
<1> QED
  BY <1>3, <1>4, <1>5

LEMMA AppliedConcat ==
  ASSUME NEW s \in Seq(Frames), NEW t \in Seq(Frames), NEW k, NEW old
  PROVE  Applied(s \o t, k, old) = Applied(t, k, Applied(s, k, old))
  BY LatestConcat DEF Applied

\* A concatenation speaks on a topic if one of its halves does.
LEMMA AtConcatEmpty ==
  ASSUME NEW s \in Seq(Frames), NEW t \in Seq(Frames), NEW x
  PROVE  At(s \o t, x) = {} <=> At(s, x) = {} /\ At(t, x) = {}
<1>1. /\ \A i \in At(s, x) : i \in At(s \o t, x)
      /\ \A i \in At(t, x) : i + Len(s) \in At(s \o t, x)
      /\ \A i \in At(s \o t, x) : i \in At(s, x) \/ i - Len(s) \in At(t, x)
  BY AtConcat, Zenon
<1> QED
  BY <1>1

\* A sequence that speaks of a key leaves nothing of the old value.
LEMMA AppliedForgets ==
  ASSUME NEW s, NEW k, At(s, <<k>>) # {}
  PROVE  \A a, b : Applied(s, k, a) = Applied(s, k, b)
  BY LatestIsLast DEF Applied

LEMMA AppliedNothing ==
  ASSUME NEW k, NEW old
  PROVE  /\ Applied(<<>>, k, old) = old /\ Latest(<<>>, <<>>, old) = old
         /\ At(<<>>, <<k>>) = {}
         /\ \A p : ~ Names(<<>>, p)
<1>1. Len(<<>>) = 0
  BY EmptySeq
<1>2. \A x : At(<<>>, x) = {}
  BY <1>1 DEF At
<1>3. \A p : ~ Names(<<>>, p)
  BY <1>1 DEF Names
<1> QED
  BY <1>2, <1>3, LatestIsLast DEF Applied

\* A single frame decides on its topic.
LEMMA LatestOne ==
  ASSUME NEW m \in Frames, NEW x, NEW old
  PROVE  /\ <<m>> \in Seq(Frames)
         /\ At(<<m>>, x) = {} <=> Topic(m) # x
         /\ Latest(<<m>>, x, old) = IF Topic(m) = x THEN Told(m) ELSE old
<1>1. <<m>> \in Seq(Frames) /\ Len(<<m>>) = 1 /\ <<m>>[1] = m
  OBVIOUS
<1> DEFINE s == <<m>>
<1>2. s \in Seq(Frames) /\ Len(s) = 1 /\ s[1] = m
  BY <1>1
<1> HIDE DEF s
<1>3. At(s, x) = IF Topic(m) = x THEN {1} ELSE {}
  BY <1>2 DEF At
<1>4. /\ At(s, x) = {} => Latest(s, x, old) = old
      /\ At(s, x) = {1} => Latest(s, x, old) = Told(s[1])
  <2>1. ASSUME At(s, x) = {1} PROVE LastAt(s, x) = 1
    <3>1. LastAt(s, x) \in At(s, x)
      BY <1>2, <2>1, LastIsLast
    <3> QED
      BY <2>1, <3>1
  <2> QED
    BY <2>1, LatestIsLast
<1>5. /\ At(s, x) = {} <=> Topic(m) # x
      /\ Latest(s, x, old) = IF Topic(m) = x THEN Told(m) ELSE old
  BY <1>2, <1>3, <1>4
<1> QED
  BY <1>2, <1>5 DEF s

LEMMA AppliedOne ==
  ASSUME NEW m \in Frames, NEW k, NEW old
  PROVE  /\ <<m>> \in Seq(Frames)
         /\ Applied(<<m>>, k, old) = IF m.type = "STATE" /\ m.key = k THEN m.value ELSE old
         /\ At(<<m>>, <<k>>) = {} <=> ~ (m.type = "STATE" /\ m.key = k)
         /\ Latest(<<m>>, <<>>, old) = IF m.type = "STATE" THEN old ELSE m.host
<1>1. \A a, b : <<a>> = <<b>> <=> a = b
  OBVIOUS
<1>2. \A a : <<a>> # <<>>
  OBVIOUS
<1>3. Topic(m) = <<k>> <=> m.type = "STATE" /\ m.key = k
  BY <1>1, <1>2 DEF Topic
<1>4. Topic(m) = <<>> <=> m.type # "STATE"
  BY <1>2 DEF Topic
<1> QED
  BY <1>3, <1>4, LatestOne DEF Applied, Told

\* A single STATE frame says something of its key only.
LEMMA OneStateFrame ==
  ASSUME NEW m \in Frames, m.type = "STATE"
  PROVE  /\ <<m>> \in Seq(Frames)
         /\ \A j, old : Applied(<<m>>, j, old) = IF m.key = j THEN m.value ELSE old
         /\ \A old : Latest(<<m>>, <<>>, old) = old
<1>1. ASSUME NEW j, NEW old
      PROVE  /\ Applied(<<m>>, j, old) = IF m.type = "STATE" /\ m.key = j THEN m.value ELSE old
             /\ Latest(<<m>>, <<>>, old) = IF m.type = "STATE" THEN old ELSE m.host
  BY AppliedOne
<1> QED
  BY <1>1

LEMMA HeadThenTail ==
  ASSUME NEW S, NEW s \in Seq(S), s # <<>>
  PROVE  /\ Head(s) \in S /\ Tail(s) \in Seq(S)
         /\ s = <<Head(s)>> \o Tail(s)
  OBVIOUS

LEMMA LatestTail ==
  ASSUME NEW s \in Seq(Frames), s # <<>>, NEW x, NEW old
  PROVE  /\ Latest(s, x, old) = Latest(Tail(s), x, Latest(<<Head(s)>>, x, old))
         /\ At(s, x) = {} <=> At(<<Head(s)>>, x) = {} /\ At(Tail(s), x) = {}
<1>1. /\ Head(s) \in Frames /\ Tail(s) \in Seq(Frames)
      /\ s = <<Head(s)>> \o Tail(s)
  BY HeadThenTail
<1> DEFINE h == <<Head(s)>>
           t == Tail(s)
<1>2. h \in Seq(Frames) /\ t \in Seq(Frames) /\ s = h \o t
  BY <1>1
<1> HIDE DEF h, t
<1>3. /\ Latest(h \o t, x, old) = Latest(t, x, Latest(h, x, old))
      /\ At(h \o t, x) = {} <=> At(h, x) = {} /\ At(t, x) = {}
  <2>1. Latest(h \o t, x, old) = Latest(t, x, Latest(h, x, old))
    BY <1>2, LatestConcat
  <2>2. At(h \o t, x) = {} <=> At(h, x) = {} /\ At(t, x) = {}
    BY <1>2, AtConcatEmpty
  <2> QED
    BY <2>1, <2>2
<1>4. /\ Latest(s, x, old) = Latest(t, x, Latest(h, x, old))
      /\ At(s, x) = {} <=> At(h, x) = {} /\ At(t, x) = {}
  BY <1>2, <1>3, Zenon
<1> QED
  BY <1>4 DEF h, t

LEMMA NamesConcat ==
  ASSUME NEW s \in Seq(Frames), NEW t \in Seq(Frames), NEW p
  PROVE  Names(s \o t, p) <=> Names(s, p) \/ Names(t, p)
<1>1. /\ Len(s \o t) = Len(s) + Len(t) /\ Len(s) \in Nat /\ Len(t) \in Nat
      /\ \A i \in 1 .. Len(s) + Len(t) : (s \o t)[i] =
           IF i <= Len(s) THEN s[i] ELSE t[i - Len(s)]
  BY ConcatProperties, LenProperties
<1>2. \A i \in 1..Len(s) : i \in 1..Len(s \o t) /\ (s \o t)[i] = s[i]
  BY <1>1
<1>3. \A i \in 1..Len(t) : i + Len(s) \in 1..Len(s \o t) /\ (s \o t)[i + Len(s)] = t[i]
  BY <1>1
<1>4. \A i \in 1..Len(s \o t) : \/ i \in 1..Len(s) /\ (s \o t)[i] = s[i]
                                \/ i - Len(s) \in 1..Len(t) /\ (s \o t)[i] = t[i - Len(s)]
  BY <1>1
<1> DEFINE u == s \o t
           Host(m) == m.type \in {"HELLO", "HOST"} /\ m.host = p
<1>5. Names(u, p) <=> \E i \in 1..Len(u) : Host(u[i])
  BY DEF Names
<1>6. Names(s, p) <=> \E i \in 1..Len(s) : Host(s[i])
  BY DEF Names
<1>7. Names(t, p) <=> \E i \in 1..Len(t) : Host(t[i])
  BY DEF Names
<1> HIDE DEF u, Host
<1>8. ASSUME NEW i \in 1..Len(u), Host(u[i]) PROVE Names(s, p) \/ Names(t, p)
  BY <1>4, <1>6, <1>7, <1>8 DEF u
<1>9. ASSUME NEW i \in 1..Len(s), Host(s[i]) PROVE Names(u, p)
  BY <1>2, <1>5, <1>9 DEF u
<1>10. ASSUME NEW i \in 1..Len(t), Host(t[i]) PROVE Names(u, p)
  BY <1>3, <1>5, <1>10 DEF u
<1> QED
  BY <1>5, <1>6, <1>7, <1>8, <1>9, <1>10 DEF u

LEMMA NamesOne ==
  ASSUME NEW m, NEW p
  PROVE  Names(<<m>>, p) <=> m.type \in {"HELLO", "HOST"} /\ m.host = p
<1>1. Len(<<m>>) = 1 /\ <<m>>[1] = m
  OBVIOUS
<1> QED
  BY <1>1 DEF Names

-----------------------------------------------------------------------------
(* The sequences that stand for sets.                                          *)

LEMMA SetToSeqEnumerates ==
  ASSUME NEW S, IsFiniteSet(S)
  PROVE  /\ SetToSeq(S) \in Seq(S)
         /\ \A x \in S : \E i \in 1..Len(SetToSeq(S)) : SetToSeq(S)[i] = x
<1> DEFINE n == Cardinality(S)
           f == SetToSeq(S)
<1>1. n \in Nat /\ ExistsBijection(1..n, S)
  BY FS_CardinalityType
<1>2. \E g \in [1..n -> S] : IsInjective(g)
  BY <1>1 DEF ExistsBijection, Bijection, Injection
<1>3. f \in [1..n -> S] /\ IsInjective(f)
  BY <1>2 DEF SetToSeq
<1>4. f \in Injection(1..n, S)
  BY <1>3 DEF Injection
<1>5. Cardinality(1..n) = n
  BY <1>1, FS_Interval
<1>6. f \in Surjection(1..n, S)
  BY <1>4, <1>5, FS_Injection
<1>7. f \in Seq(S) /\ Len(f) = n
  BY <1>1, <1>3
<1> QED
  BY <1>6, <1>7 DEF Surjection

-----------------------------------------------------------------------------
(* The inductive invariant.                                                    *)

\* The server's part of it is RoomState's; the client's copy, sockets and frames are typed,
\* and a socket is one client's.
HubInv == TypeInv /\ RoleInv /\ EntryInv

ChannelsTyped ==
  /\ up \in [Peers -> Seq(StateFrames)]
  /\ down \in [Peers -> Seq(Frames)]
  /\ closing = {}

ClientsTyped ==
  /\ conn \in [Clients -> Peers \cup {NoPeer}]
  /\ hostView \in [Clients -> Peers \cup {NoPeer}]
  /\ copy \in [Clients -> [Keys -> Content]]
  /\ events \in 0..MaxEvents
  /\ past \in [Clients -> SUBSET {"wrote", "rejoined"}]
  /\ lost \in [Clients -> SUBSET Keys]

OneClientEach ==
  \A c, d \in Clients : conn[c] = conn[d] /\ conn[c] # NoPeer => c = d

\* Without a socket, a client has no host and no write over its rate.
HostlessOffline == \A c \in Clients : conn[c] = NoPeer => hostView[c] = NoPeer /\ lost[c] = {}

\* The server has the last word on a key: it is on its way to the client, or the client has
\* written nothing since.
Informed(c, k) ==
  At(down[conn[c]], <<k>>) # {} \/ ~ (Pending(conn[c], k) \/ k \in lost[c])

Agrees(c) ==
  conn[c] \in Members =>
    \A k \in Held : owner[k] # conn[c] /\ Informed(c, k) => InEffect(c, k) = value[k]

\* A client to which nothing has happened since it entered the room.
Untouched(c) ==
  past[c] = {} =>
    /\ conn[c] = NoPeer => copy[c] = Empty
    /\ conn[c] \in Members =>
         /\ up[conn[c]] = <<>>
         /\ \A k \in Keys : owner[k] # conn[c] /\ InEffect(c, k) = value[k]

\* No frame on its way to a client names it the host unless it is.
NotPretending(c) ==
  conn[c] \in Members /\ (hostView[c] = conn[c] \/ Names(down[conn[c]], conn[c]))
    => roomHost = conn[c]

ClientInv(c) == Agrees(c) /\ Untouched(c) /\ NotPretending(c)

SyncTyped == HubInv /\ ChannelsTyped /\ ClientsTyped /\ OneClientEach /\ HostlessOffline
ClientsInv == \A c \in Clients : ClientInv(c)

-----------------------------------------------------------------------------
(* What the server sends.                                                      *)

\* One frame for each key of a set: the key's value, whatever the reader had before.
LEMMA FramesOfASet ==
  ASSUME NEW S \in SUBSET Keys, NEW f, \A k \in S : f[k] \in Content, NEW s,
         s = [i \in DOMAIN SetToSeq(S) |-> StateMsg(SetToSeq(S)[i], f[SetToSeq(S)[i]])]
  PROVE  /\ s \in Seq(StateFrames)
         /\ \A k \in Keys : \A old : Applied(s, k, old) = IF k \in S THEN f[k] ELSE old
         /\ \A p : ~ Names(s, p)
         /\ \A old : Latest(s, <<>>, old) = old
<1> DEFINE keys == SetToSeq(S)
<1>1. keys \in Seq(S) /\ \A k \in S : \E i \in 1..Len(keys) : keys[i] = k
  <2>1. IsFiniteSet(S)
    BY StateConstants, FS_Subset
  <2> QED
    BY <2>1, SetToSeqEnumerates
<1>2. /\ Len(keys) \in Nat /\ DOMAIN keys = 1..Len(keys)
      /\ \A i \in 1..Len(keys) : keys[i] \in S
  BY <1>1
<1>3. s = [i \in 1..Len(keys) |-> StateMsg(keys[i], f[keys[i]])]
  BY <1>2
<1> HIDE DEF keys
<1>4. \A i \in 1..Len(keys) : StateMsg(keys[i], f[keys[i]]) \in StateFrames
  BY <1>2 DEF StateMsg, StateFrames
<1>5. s \in Seq(StateFrames) /\ Len(s) = Len(keys)
  BY <1>2, <1>3, <1>4
<1>6. \A i \in 1..Len(s) : /\ s[i].type = "STATE" /\ s[i].key = keys[i]
                           /\ s[i].value = f[keys[i]]
  BY <1>3, <1>5 DEF StateMsg
<1>7. ASSUME NEW k \in Keys, NEW old
      PROVE  Applied(s, k, old) = IF k \in S THEN f[k] ELSE old
  <2>1. s \in Seq(Frames)
    BY <1>5, FramesAreTwoKinds
  <2>2. \A i \in 1..Len(s) : Topic(s[i]) = <<keys[i]>> /\ Told(s[i]) = f[keys[i]]
    BY <1>6 DEF Topic, Told
  <2>3. \A a, b : <<a>> = <<b>> <=> a = b
    OBVIOUS
  <2>4. At(s, <<k>>) = {i \in 1..Len(s) : keys[i] = k}
    BY <2>2, <2>3 DEF At
  <2>5. At(s, <<k>>) = {} <=> k \notin S
    BY <1>1, <1>2, <1>5, <2>4
  <2>6. \A i \in At(s, <<k>>) : Told(s[i]) = f[k]
    BY <2>2, <2>4
  <2>7. At(s, <<k>>) # {} => LastAt(s, <<k>>) \in At(s, <<k>>)
    BY <2>1, LastIsLast
  <2> QED
    BY <2>5, <2>6, <2>7, LatestIsLast DEF Applied
<1>8. \A p : ~ Names(s, p)
  BY <1>6 DEF Names
<1>9. \A old : Latest(s, <<>>, old) = old
  <2>1. \A a : <<a>> # <<>>
    OBVIOUS
  <2>2. At(s, <<>>) = {}
    BY <1>6, <2>1 DEF At, Topic
  <2> QED
    BY <2>2, LatestIsLast
<1> QED
  BY <1>5, <1>7, <1>8, <1>9

LEMMA SnapshotIsTheRoom ==
  ASSUME EntriesTyped
  PROVE  /\ Snapshot \in Seq(StateFrames)
         /\ \A k \in Keys : \A old : Applied(Snapshot, k, old) = IF k \in Held THEN value[k] ELSE old
         /\ \A p : ~ Names(Snapshot, p)
         /\ \A old : Latest(Snapshot, <<>>, old) = old
<1>1. Held \in SUBSET Keys /\ \A k \in Held : value[k] \in Content
  BY DEF EntriesTyped, Held, Content
<1>2. Snapshot = [i \in DOMAIN SetToSeq(Held) |->
                    StateMsg(SetToSeq(Held)[i], value[SetToSeq(Held)[i]])]
  BY DEF Snapshot
<1> QED
  BY <1>1, <1>2, FramesOfASet

\* A frame about the host says nothing of the keys, and names the host there is.
OnlyNames(s, host) ==
  /\ s \in Seq(Frames)
  /\ \A k, old : Applied(s, k, old) = old
  /\ \A p : Names(s, p) <=> p = host
  /\ \A old : Latest(s, <<>>, old) = host

LEMMA HostMsgNamesTheHost ==
  ASSUME NEW host \in Peers \cup {NoPeer}
  PROVE  OnlyNames(<<Hello(host)>>, host) /\ OnlyNames(<<HostMsg(host)>>, host)
<1>1. ASSUME NEW m \in Frames, m.type \in {"HELLO", "HOST"}, m.host = host
      PROVE  OnlyNames(<<m>>, host)
  <2>1. m.type # "STATE"
    BY <1>1
  <2>2. <<m>> \in Seq(Frames)
    BY <1>1
  <2>3. /\ \A k, old : Applied(<<m>>, k, old) = old
        /\ \A old : Latest(<<m>>, <<>>, old) = host
    BY <1>1, <2>1, AppliedOne
  <2>4. \A p : Names(<<m>>, p) <=> p = host
    BY <1>1, NamesOne
  <2> QED
    BY <2>2, <2>3, <2>4 DEF OnlyNames
<1>2. /\ Hello(host) \in Frames /\ HostMsg(host) \in Frames
      /\ Hello(host).type \in {"HELLO", "HOST"} /\ Hello(host).host = host
      /\ HostMsg(host).type \in {"HELLO", "HOST"} /\ HostMsg(host).host = host
  BY DEF Hello, HostMsg, Frames
<1> QED
  BY <1>1, <1>2

LEMMA HostNewsIsTrue ==
  ASSUME roomHost' \in Peers \cup {NoPeer}
  PROVE  /\ HostNews \in Seq(Frames)
         /\ \A k, old : Applied(HostNews, k, old) = old
         /\ \A p \in Peers : Names(HostNews, p) => p = roomHost'
         /\ \A old : Latest(HostNews, <<>>, old) =
              IF roomHost' \in {roomHost, NoPeer} THEN old ELSE roomHost'
<1>1. CASE roomHost' \in {roomHost, NoPeer}
  BY <1>1, AppliedNothing, EmptySeq DEF HostNews
<1>2. CASE roomHost' \notin {roomHost, NoPeer}
  BY <1>2, HostMsgNamesTheHost DEF HostNews, OnlyNames
<1> QED
  BY <1>1, <1>2

LEMMA CloseNewsIsTrue ==
  ASSUME roomHost' \in Peers \cup {NoPeer}, NEW p \in Peers
  PROVE  /\ CloseNews(p) \in Seq(Frames)
         /\ \A k \in Keys : \A old :
              Applied(CloseNews(p), k, old) = IF k \in Gripped(p) THEN NoValue ELSE old
         /\ \A q \in Peers : Names(CloseNews(p), q) => q = roomHost'
         /\ \A old : Latest(CloseNews(p), <<>>, old) =
              IF roomHost' \in {roomHost, NoPeer} THEN old ELSE roomHost'
<1> DEFINE grips == SetToSeq(Gripped(p))
           s == [i \in DOMAIN grips |-> StateMsg(grips[i], Empty[grips[i]])]
           t == [i \in DOMAIN grips |-> StateMsg(grips[i], NoValue)]
<1>1. Gripped(p) \in SUBSET Keys /\ IsFiniteSet(Gripped(p))
  <2>1. Gripped(p) \in SUBSET Keys
    BY StateConstants DEF Gripped
  <2> QED
    BY <2>1, StateConstants, FS_Subset
<1>2. \A k \in Keys : Empty[k] = NoValue /\ NoValue \in Content
  BY DEF Empty, Content
<1>3. grips \in Seq(Gripped(p))
  BY <1>1, SetToSeqEnumerates
<1>4. \A i \in DOMAIN grips : grips[i] \in Keys
  BY <1>1, <1>3
<1>5. s = t
  BY <1>2, <1>4
<1>6. /\ t \in Seq(StateFrames)
      /\ \A k \in Keys : \A old : Applied(t, k, old) = IF k \in Gripped(p) THEN Empty[k] ELSE old
      /\ \A q : ~ Names(t, q)
      /\ \A old : Latest(t, <<>>, old) = old
  <2>1. \A k \in Gripped(p) : Empty[k] \in Content
    BY <1>1, <1>2
  <2> QED
    BY <1>1, <1>5, <2>1, FramesOfASet
<1>7. t \in Seq(Frames) /\ CloseNews(p) = t \o HostNews
  BY <1>6, FramesAreTwoKinds DEF CloseNews
<1> HIDE DEF t
<1>8. /\ HostNews \in Seq(Frames)
      /\ \A k, old : Applied(HostNews, k, old) = old
      /\ \A q \in Peers : Names(HostNews, q) => q = roomHost'
      /\ \A old : Latest(HostNews, <<>>, old) =
           IF roomHost' \in {roomHost, NoPeer} THEN old ELSE roomHost'
  BY HostNewsIsTrue
<1>9. t \o HostNews \in Seq(Frames)
  BY <1>7, <1>8
<1>10. ASSUME NEW k \in Keys, NEW old
       PROVE  Applied(t \o HostNews, k, old) = IF k \in Gripped(p) THEN NoValue ELSE old
  <2>1. Applied(t \o HostNews, k, old) = Applied(HostNews, k, Applied(t, k, old))
    BY <1>7, <1>8, AppliedConcat
  <2> QED
    BY <1>2, <1>6, <1>8, <2>1
<1>11. \A q \in Peers : Names(t \o HostNews, q) => q = roomHost'
  BY <1>6, <1>7, <1>8, NamesConcat
<1>12. \A old : Latest(t \o HostNews, <<>>, old) =
         IF roomHost' \in {roomHost, NoPeer} THEN old ELSE roomHost'
  BY <1>6, <1>7, <1>8, LatestConcat
<1> QED
  BY <1>7, <1>9, <1>10, <1>11, <1>12, Zenon

-----------------------------------------------------------------------------
(* The server's half of a step is a step of RoomState, or the process starts   *)
(* anew.                                                                       *)

LEMMA OldestFrame ==
  ASSUME ChannelsTyped, NEW p \in Peers, up[p] # <<>>
  PROVE  /\ Head(up[p]) \in StateFrames /\ Tail(up[p]) \in Seq(StateFrames)
         /\ Head(up[p]).key \in Keys /\ Head(up[p]).value \in Values \cup {NoValue}
         /\ up[p] = <<Head(up[p])>> \o Tail(up[p])
<1>1. up[p] \in Seq(StateFrames)
  BY DEF ChannelsTyped
<1>2. /\ Head(up[p]) \in StateFrames /\ Tail(up[p]) \in Seq(StateFrames)
      /\ up[p] = <<Head(up[p])>> \o Tail(up[p])
  BY <1>1, HeadThenTail
<1> QED
  BY <1>2 DEF StateFrames, Content

LEMMA ClientsRunTheHub ==
  ASSUME ChannelsTyped, [SyncNext]_syncVars
  PROVE  [HubNext]_hubVars \/ Restart
<1>1. CASE UNCHANGED syncVars
  BY <1>1 DEF syncVars
<1>2. ASSUME NEW c \in Clients, NEW p \in Peers, Join(c, p)
      PROVE  HubNext
  <2>1. c \in Sids \cup {NoSid}
    BY DEF Clients
  <2> QED
    BY <1>2, <2>1 DEF Join, HubNext
<1>3. ASSUME NEW c \in Clients,
             \/ \E k \in Keys, v \in Values \cup {NoValue} : LocalSet(c, k, v)
             \/ Receive(c) \/ LoseSocket(c) \/ LeaveRoom(c)
      PROVE  UNCHANGED hubVars
  BY <1>3 DEF LocalSet, Receive, LoseSocket, LeaveRoom, Unplugged
<1>4. ASSUME NEW p \in Peers, HandleState(p) \/ DropOverBudget(p) \/ SocketClosed(p)
      PROVE  [HubNext]_hubVars
  <2>1. CASE HandleState(p)
    <3>1. Head(up[p]).key \in Keys /\ Head(up[p]).value \in Values \cup {NoValue}
      BY <2>1, OldestFrame DEF HandleState
    <3> QED
      BY <2>1, <3>1 DEF HandleState, HubNext
  <2>2. CASE DropOverBudget(p)
    BY <2>2 DEF DropOverBudget
  <2>3. CASE SocketClosed(p)
    BY <2>3 DEF SocketClosed, HubNext
  <2> QED
    BY <1>4, <2>1, <2>2, <2>3
<1>5. ReclaimTimer \/ TimePasses => HubNext
  BY DEF ReclaimTimer, TimePasses, HubNext
<1> QED
  BY <1>1, <1>2, <1>3, <1>4, <1>5 DEF SyncNext

\* A process that starts anew knows no room, whatever the last one knew.
LEMMA RestartForgetsTheRoom ==
  ASSUME HubInv, Restart
  PROVE  HubInv' /\ Members' = {} /\ Held' = {}
<1>1. /\ \A p \in Peers : seq'[p] = 0
      /\ seq' = [p \in Peers |-> 0] /\ sid' = [p \in Peers |-> NoSid]
      /\ roomHost' = NoPeer /\ graceSid' = NoSid /\ graceAge' = 0 /\ timerAge' = Unarmed
      /\ closing' = {} /\ told' = [p \in Peers |-> NoPeer] /\ joins' = joins
  BY DEF Restart
<1>2. Members' = {}
  BY <1>1 DEF Members
<1>3. TypeInv'
  <2>1. joins \in 0..MaxJoins
    BY DEF HubInv, TypeInv, ElectionTypeOK
  <2> QED
    BY <1>1, <1>2, <2>1, ElectionConstants DEF TypeInv, ElectionTypeOK
<1>4. RoleInv'
  BY <1>1, <1>2 DEF RoleInv, HostIsMember, ReservedIsHostless, ReservationIsTimed,
                    MembersKnowHost, ActiveGrace, HostOf
<1>5. DropRoomState
  BY DEF Restart
<1>6. EntriesTyped' /\ TalliesTyped' /\ Held' = {}
  BY <1>5, DropEntries
<1>7. RoomWithinKeyLimit'
  BY <1>6, FS_EmptySet, StateConstants DEF RoomWithinKeyLimit
<1> QED
  BY <1>2, <1>3, <1>4, <1>6, <1>7 DEF HubInv, EntryInv

LEMMA HubInvStep == HubInv /\ ChannelsTyped /\ [SyncNext]_syncVars => HubInv'
<1> SUFFICES ASSUME HubInv, ChannelsTyped, [SyncNext]_syncVars PROVE HubInv'
  OBVIOUS
<1>1. CASE [HubNext]_hubVars
  <2>1. [ElectionNext]_electionVars
    BY <1>1, HubRefinesElection
  <2> QED
    BY <1>1, <2>1, TypeStep, RoleStep, EntryStep DEF HubInv
<1>2. CASE Restart
  BY <1>2, RestartForgetsTheRoom
<1> QED
  BY <1>1, <1>2, ClientsRunTheHub

\* A host keeps the role for as long as it is a member.
LEMMA HostKeepsTheRole ==
  ASSUME HubInv, [HubNext]_hubVars, NEW p \in Members, roomHost = p, p \in Members'
  PROVE  roomHost' = p
<1> USE ElectionConstants
<1>1. [ElectionNext]_electionVars
  BY HubRefinesElection
<1>2. HostOf = p /\ p # NoPeer /\ ~ ActiveGrace
  BY DEF HubInv, RoleInv, ReservedIsHostless, HostOf, Members
<1>3. ASSUME NEW q \in Peers, NEW s \in Sids \cup {NoSid}, Connect(q, s)
      PROVE  roomHost' = p
  BY <1>2, <1>3 DEF Connect, HostAfterConnect
<1>4. ASSUME NEW q \in Peers, Disconnect(q)
      PROVE  roomHost' = p
  <2>1. seq \in [Peers -> Nat] /\ q \notin Members'
    BY <1>4, MembersArePeers DEF HubInv, Disconnect, Members
  <2>2. p # q
    BY <2>1
  <2> QED
    BY <1>2, <1>4, <2>2 DEF Disconnect
<1>5. ASSUME ExpireHostGrace
      PROVE  roomHost' = p
  BY <1>2, <1>5 DEF ExpireHostGrace
<1>6. ASSUME \/ \E q \in Peers : BeginClose(q)
             \/ Sweep \/ Tick \/ UNCHANGED electionVars
      PROVE  roomHost' = p
  BY <1>6 DEF BeginClose, Sweep, Tick, roleVars, electionVars
<1> QED
  BY <1>1, <1>3, <1>4, <1>5, <1>6 DEF ElectionNext

-----------------------------------------------------------------------------
(* Types.                                                                      *)

\* What a broadcast of msgs leaves on each socket.
LEMMA SendingIsTyped ==
  ASSUME ChannelsTyped, NEW msgs \in Seq(Frames), NEW S, Send(msgs, S)
  PROVE  down' \in [Peers -> Seq(Frames)]
<1>1. \A p \in Peers : down[p] \in Seq(Frames) /\ down[p] \o msgs \in Seq(Frames)
  BY DEF ChannelsTyped
<1> QED
  BY <1>1 DEF Send

LEMMA SyncTypesInit == SyncInit => SyncTyped
<1> SUFFICES ASSUME SyncInit PROVE SyncTyped
  OBVIOUS
<1>1. HubInv
  <2>1. HubInit /\ Init
    BY DEF SyncInit, HubInit
  <2>2. EntriesTyped /\ TalliesTyped
    BY <2>1, EntriesInit
  <2>3. Held = {}
    BY <2>1 DEF HubInit, StateInit, Held
  <2>4. RoomWithinKeyLimit
    BY <2>3, FS_EmptySet, StateConstants DEF RoomWithinKeyLimit
  <2> QED
    BY <2>1, <2>2, <2>4, TypeInit, RoleInit DEF HubInv, EntryInv
<1>2. ChannelsTyped
  BY EmptySeq DEF SyncInit, HubInit, Init, ChannelsTyped
<1>3. ClientsTyped
  BY SyncConstants DEF SyncInit, ClientsTyped, Empty, Content
<1> QED
  BY <1>1, <1>2, <1>3 DEF SyncTyped, SyncInit, OneClientEach, HostlessOffline

LEMMA JoinTypes ==
  ASSUME SyncTyped, HubInv', NEW c \in Clients, NEW p \in Peers, Join(c, p)
  PROVE  SyncTyped'
<1> USE DEF SyncTyped
<1>1. /\ roomHost' \in Peers \cup {NoPeer}
      /\ Snapshot \in Seq(Frames)
  BY SnapshotIsTheRoom, FramesAreTwoKinds
     DEF HubInv, EntryInv, TypeInv, ElectionTypeOK
<1>2. \A q \in Peers : /\ Append(down[q], HostMsg(roomHost')) \in Seq(Frames)
                       /\ down[q] \in Seq(Frames)
  <2>1. HostMsg(roomHost') \in Frames
    BY <1>1 DEF HostMsg, Frames
  <2> QED
    BY <2>1 DEF ChannelsTyped
<1>3. <<Hello(roomHost')>> \o Snapshot \in Seq(Frames)
  <2>1. Hello(roomHost') \in Frames
    BY <1>1 DEF Hello, Frames
  <2> QED
    BY <1>1, <2>1
<1>4. down' \in [Peers -> Seq(Frames)]
  BY <1>2, <1>3 DEF Join
<1>5. ChannelsTyped'
  BY <1>4, EmptySeq DEF Join, ChannelsTyped, HubConnect, Connect
<1>6. ClientsTyped'
  BY DEF Join, ClientsTyped
<1>7. OneClientEach' /\ HostlessOffline'
  BY ElectionConstants DEF Join, ClientsTyped, OneClientEach, HostlessOffline
<1> QED
  BY <1>5, <1>6, <1>7

LEMMA LocalSetTypes ==
  ASSUME SyncTyped, HubInv', NEW c \in Clients, NEW k \in Keys, NEW v \in Values \cup {NoValue},
         LocalSet(c, k, v)
  PROVE  SyncTyped'
<1> USE DEF SyncTyped
<1>1. ChannelsTyped'
  <2>1. StateMsg(k, v) \in StateFrames
    BY DEF StateMsg, StateFrames, Content
  <2>2. \A p \in Peers : Append(up[p], StateMsg(k, v)) \in Seq(StateFrames)
    BY <2>1 DEF ChannelsTyped
  <2>3. conn[c] \in Members => conn[c] \in Peers
    BY DEF Members
  <2>4. up' \in [Peers -> Seq(StateFrames)]
    BY <2>2, <2>3 DEF LocalSet, ChannelsTyped
  <2> QED
    BY <2>4 DEF LocalSet, ChannelsTyped, hubVars, electionVars, memberVars
<1>2. ClientsTyped'
  BY SyncConstants DEF LocalSet, ClientsTyped, Content
<1> QED
  BY <1>1, <1>2 DEF LocalSet, OneClientEach, HostlessOffline

LEMMA ReceiveTypes ==
  ASSUME SyncTyped, HubInv', NEW c \in Clients, Receive(c)
  PROVE  SyncTyped'
<1> USE DEF SyncTyped
<1> DEFINE p == conn[c]
           m == Head(down[p])
<1>1. p \in Peers /\ p # NoPeer
  BY DEF ClientsTyped, Receive
<1>2. m \in Frames /\ Tail(down[p]) \in Seq(Frames)
  BY <1>1, HeadThenTail DEF ChannelsTyped, Receive
<1>3. ChannelsTyped'
  BY <1>1, <1>2 DEF Receive, ChannelsTyped, hubVars, electionVars, memberVars
<1>4. /\ m.type = "STATE" => m.key \in Keys /\ m.value \in Content
      /\ m.type # "STATE" => m.host \in Peers \cup {NoPeer}
  BY <1>2, FramesAreTwoKinds DEF StateFrames, HostFrames
<1>5. /\ copy' \in [Clients -> [Keys -> Content]]
      /\ hostView' \in [Clients -> Peers \cup {NoPeer}]
      /\ lost' \in [Clients -> SUBSET Keys]
      /\ \A d \in Clients : lost'[d] \subseteq lost[d]
  <2>1. \/ /\ m.type = "STATE"
           /\ copy' = [copy EXCEPT ![c][m.key] = m.value] /\ hostView' = hostView
           /\ lost' = [lost EXCEPT ![c] = lost[c] \ {m.key}]
        \/ /\ m.type # "STATE"
           /\ hostView' = [hostView EXCEPT ![c] = m.host] /\ copy' = copy /\ lost' = lost
    BY DEF Receive
  <2>2. /\ copy \in [Clients -> [Keys -> Content]]
        /\ hostView \in [Clients -> Peers \cup {NoPeer}]
        /\ lost \in [Clients -> SUBSET Keys]
    BY DEF ClientsTyped
  <2> HIDE DEF m
  <2>3. copy' \in [Clients -> [Keys -> Content]]
    <3>1. CASE m.type = "STATE" /\ copy' = [copy EXCEPT ![c][m.key] = m.value]
      <4>1. \A d \in Clients : copy[d] \in [Keys -> Content]
        BY <2>2
      <4>2. [copy[c] EXCEPT ![m.key] = m.value] \in [Keys -> Content]
        BY <1>4, <3>1, <4>1
      <4> QED
        BY <2>2, <3>1, <4>2
    <3>2. CASE copy' = copy
      BY <2>2, <3>2
    <3> QED
      BY <2>1, <3>1, <3>2
  <2>4. hostView' \in [Clients -> Peers \cup {NoPeer}]
    BY <1>4, <2>1, <2>2
  <2>5. lost' \in [Clients -> SUBSET Keys]
    BY <2>1, <2>2
  <2>6. \A d \in Clients : lost'[d] \subseteq lost[d]
    BY <2>1, <2>2
  <2> QED
    BY <2>3, <2>4, <2>5, <2>6
<1>6. ClientsTyped'
  BY <1>5 DEF Receive, ClientsTyped
<1>7. HostlessOffline'
  BY <1>1, <1>5 DEF Receive, ClientsTyped, HostlessOffline
<1> QED
  BY <1>3, <1>6, <1>7 DEF Receive, OneClientEach

LEMMA UnpluggedTypes ==
  ASSUME SyncTyped, HubInv', NEW c \in Clients, LoseSocket(c) \/ LeaveRoom(c)
  PROVE  SyncTyped'
<1> USE DEF SyncTyped
<1>1. Unplugged(c) /\ conn[c] \in Peers
  BY DEF LoseSocket, LeaveRoom, Unplugged, ClientsTyped
<1>2. ChannelsTyped'
  BY <1>1, EmptySeq DEF Unplugged, ChannelsTyped, hubVars, electionVars, memberVars
<1>3. ClientsTyped'
  <2>1. /\ copy' = copy \/ copy' = [copy EXCEPT ![c] = Empty]
        /\ past' = [past EXCEPT ![c] = @ \cup {"rejoined"}] \/ past' = [past EXCEPT ![c] = {}]
    BY DEF LoseSocket, LeaveRoom
  <2>2. Empty \in [Keys -> Content]
    BY DEF Empty, Content
  <2>3. copy' \in [Clients -> [Keys -> Content]]
    BY <2>1, <2>2 DEF ClientsTyped
  <2>4. /\ past' \in [Clients -> SUBSET {"wrote", "rejoined"}]
        /\ lost' \in [Clients -> SUBSET Keys]
    BY <1>1, <2>1 DEF Unplugged, ClientsTyped
  <2> QED
    BY <1>1, <2>3, <2>4 DEF Unplugged, ClientsTyped
<1>4. OneClientEach' /\ HostlessOffline'
  BY <1>1 DEF Unplugged, ClientsTyped, OneClientEach, HostlessOffline
<1> QED
  BY <1>2, <1>3, <1>4

LEMMA ServerTypes ==
  ASSUME SyncTyped, HubInv',
         \/ \E p \in Peers : HandleState(p) \/ DropOverBudget(p) \/ SocketClosed(p)
         \/ ReclaimTimer \/ Restart \/ TimePasses
  PROVE  SyncTyped'
<1> USE DEF SyncTyped
<1>1. closing' = {}
  BY DEF HandleState, DropOverBudget, SocketClosed, ReclaimTimer, Restart, TimePasses, SetState,
         HubDisconnect, Disconnect, HubExpireHostGrace, ExpireHostGrace, HubTick, Tick,
         hubVars, electionVars, memberVars, ChannelsTyped
<1>2. /\ conn' = conn /\ hostView' = hostView /\ copy' = copy
      /\ past' = past /\ events' \in 0..MaxEvents
      /\ lost' \in [Clients -> SUBSET Keys]
      /\ \A c \in Clients : conn[c] = NoPeer => lost'[c] = lost[c]
  <2>1. events \in 0..MaxEvents /\ lost \in [Clients -> SUBSET Keys]
    BY DEF ClientsTyped
  <2>2. ASSUME NEW p \in Peers, DropOverBudget(p)
        PROVE  /\ conn' = conn /\ hostView' = hostView /\ copy' = copy
               /\ past' = past /\ events' \in 0..MaxEvents
               /\ lost' \in [Clients -> SUBSET Keys]
               /\ \A c \in Clients : conn[c] = NoPeer => lost'[c] = lost[c]
    <3>1. Head(up[p]).key \in Keys
      BY <2>2, OldestFrame DEF DropOverBudget
    <3> QED
      BY <2>1, <2>2, <3>1, ElectionConstants DEF DropOverBudget
  <2>3. CASE Restart
    BY <2>1, <2>3, SyncConstants DEF Restart
  <2> QED
    BY <2>1, <2>2, <2>3 DEF HandleState, SocketClosed, ReclaimTimer, TimePasses, clientVars
<1>3. roomHost' \in Peers \cup {NoPeer}
  BY DEF HubInv, TypeInv, ElectionTypeOK
<1>4. up' \in [Peers -> Seq(StateFrames)] /\ down' \in [Peers -> Seq(Frames)]
  <2>1. up \in [Peers -> Seq(StateFrames)] /\ down \in [Peers -> Seq(Frames)]
    BY DEF ChannelsTyped
  <2>2. ASSUME NEW p \in Peers, HandleState(p)
        PROVE  up' \in [Peers -> Seq(StateFrames)] /\ down' \in [Peers -> Seq(Frames)]
    <3>1. /\ Head(up[p]) \in StateFrames /\ Tail(up[p]) \in Seq(StateFrames)
          /\ Head(up[p]).key \in Keys
      BY <2>2, OldestFrame DEF HandleState
    <3>2. <<Head(up[p])>> \in Seq(Frames)
      BY <3>1, FramesAreTwoKinds
    <3>3. <<StateMsg(Head(up[p]).key, value[Head(up[p]).key])>> \in Seq(Frames)
      BY <3>1, FramesAreTwoKinds DEF StateMsg, StateFrames, Content, HubInv, EntryInv, EntriesTyped
    <3>4. down' \in [Peers -> Seq(Frames)]
      BY <2>2, <3>2, <3>3, SendingIsTyped DEF HandleState, Correction
    <3> QED
      BY <2>1, <2>2, <3>1, <3>4 DEF HandleState
  <2>3. ASSUME NEW p \in Peers, DropOverBudget(p)
        PROVE  up' \in [Peers -> Seq(StateFrames)] /\ down' \in [Peers -> Seq(Frames)]
    BY <2>1, <2>3, OldestFrame DEF DropOverBudget
  <2>4. ASSUME NEW p \in Peers, SocketClosed(p)
        PROVE  up' \in [Peers -> Seq(StateFrames)] /\ down' \in [Peers -> Seq(Frames)]
    <3>1. down' \in [Peers -> Seq(Frames)]
      BY <1>3, <2>4, CloseNewsIsTrue, SendingIsTyped DEF SocketClosed
    <3> QED
      BY <2>1, <2>4, <3>1, EmptySeq DEF SocketClosed
  <2>5. ASSUME ReclaimTimer
        PROVE  up' \in [Peers -> Seq(StateFrames)] /\ down' \in [Peers -> Seq(Frames)]
    <3>1. down' \in [Peers -> Seq(Frames)]
      BY <1>3, <2>5, HostNewsIsTrue, SendingIsTyped DEF ReclaimTimer
    <3> QED
      BY <2>1, <2>5, <3>1 DEF ReclaimTimer
  <2>6. ASSUME Restart \/ TimePasses
        PROVE  up' \in [Peers -> Seq(StateFrames)] /\ down' \in [Peers -> Seq(Frames)]
    BY <2>1, <2>6, EmptySeq DEF Restart, TimePasses, clientVars
  <2> QED
    BY <2>2, <2>3, <2>4, <2>5, <2>6
<1> QED
  BY <1>1, <1>2, <1>4 DEF ChannelsTyped, ClientsTyped, OneClientEach, HostlessOffline

LEMMA SyncTypesStep == SyncTyped /\ [SyncNext]_syncVars => SyncTyped'
<1> SUFFICES ASSUME SyncTyped, [SyncNext]_syncVars PROVE SyncTyped'
  OBVIOUS
<1>1. HubInv'
  BY HubInvStep DEF SyncTyped
<1>2. CASE UNCHANGED syncVars
  BY <1>1, <1>2 DEF syncVars, hubVars, electionVars, memberVars, clientVars, SyncTyped,
        ChannelsTyped, ClientsTyped, OneClientEach, HostlessOffline
<1> QED
  BY <1>1, <1>2, JoinTypes, LocalSetTypes, ReceiveTypes, UnpluggedTypes, ServerTypes DEF SyncNext

-----------------------------------------------------------------------------
(* A client that only looks on.                                                *)

\* The frames msgs tell their reader at q all that the step changed: the keys whose entry
\* it touched have their new value, a host they name is the host, and a new one is named.
Tells(msgs, q) ==
  /\ Names(msgs, q) => q = roomHost'
  /\ \A old : Latest(msgs, <<>>, old) = IF roomHost' \in {roomHost, NoPeer} THEN old ELSE roomHost'
  /\ \A k \in Keys :
       /\ \/ \A old : Applied(msgs, k, old) = value'[k]
          \/ /\ \A old : Applied(msgs, k, old) = old
             /\ value'[k] = value[k] /\ owner'[k] = owner[k]
       /\ owner'[k] = q => owner[k] = q

LEMMA OnlookersKeepUp ==
  ASSUME SyncTyped, SyncTyped', [HubNext]_hubVars, NEW c \in Clients, ClientInv(c),
         NEW msgs \in Seq(Frames),
         conn'[c] = conn[c], hostView'[c] = hostView[c], copy'[c] = copy[c], past'[c] = past[c],
         lost'[c] = lost[c],
         conn[c] \in Members' =>
           /\ conn[c] \in Members
           /\ up'[conn[c]] = up[conn[c]]
           /\ down'[conn[c]] = down[conn[c]] \o msgs
           /\ Tells(msgs, conn[c])
  PROVE  ClientInv(c)'
<1> DEFINE q == conn[c]
<1>1. CASE q \notin Members'
  BY <1>1 DEF ClientInv, Agrees, Untouched, NotPretending
<1>2. CASE q \in Members'
  <2>1. /\ q \in Members /\ q \in Peers /\ q # NoPeer
        /\ up'[q] = up[q] /\ down'[q] = down[q] \o msgs /\ Tells(msgs, q)
    BY <1>2, ElectionConstants DEF Members
  <2>2. down[q] \in Seq(Frames)
    BY <2>1 DEF SyncTyped, ChannelsTyped
  <2>3. \A k \in Keys : InEffect(c, k)' = Applied(msgs, k, InEffect(c, k))
    BY <2>1, <2>2, AppliedConcat DEF InEffect
  <2>4. Names(down'[q], q) => Names(down[q], q) \/ q = roomHost'
    BY <2>1, <2>2, NamesConcat DEF Tells
  <2>5. \A k \in Keys : Pending(q, k)' <=> Pending(q, k)
    BY <2>1 DEF Pending
  <2>6. \A k \in Keys :
          /\ \/ InEffect(c, k)' = value'[k]
             \/ InEffect(c, k)' = InEffect(c, k) /\ value'[k] = value[k] /\ owner'[k] = owner[k]
          /\ owner'[k] = q => owner[k] = q
    BY <2>1, <2>3 DEF Tells
  <2>7. Agrees(c)'
    <3> SUFFICES ASSUME NEW k \in Keys, k \in Held', owner'[k] # q, Informed(c, k)'
                 PROVE  InEffect(c, k)' = value'[k]
      BY DEF Agrees, Held
    <3>1. CASE \A old : Applied(msgs, k, old) = value'[k]
      BY <2>3, <3>1
    <3>2. CASE /\ \A old : Applied(msgs, k, old) = old
               /\ value'[k] = value[k] /\ owner'[k] = owner[k]
      <4>1. CASE At(msgs, <<k>>) # {}
        <5>1. Applied(msgs, k, InEffect(c, k)) = Applied(msgs, k, value[k])
          BY <4>1, AppliedForgets
        <5> QED
          BY <2>3, <3>2, <5>1
      <4>2. CASE At(msgs, <<k>>) = {}
        <5>1. At(down'[q], <<k>>) = {} <=> At(down[q], <<k>>) = {}
          BY <2>1, <2>2, <4>2, AtConcatEmpty
        <5>2. Informed(c, k)
          BY <2>5, <5>1 DEF Informed
        <5>3. InEffect(c, k) = value[k]
          BY <2>1, <3>2, <5>2 DEF ClientInv, Agrees, Held
        <5> QED
          BY <2>3, <3>2, <5>3
      <4> QED
        BY <4>1, <4>2
    <3> QED
      BY <2>1, <3>1, <3>2 DEF Tells
  <2>8. Untouched(c)'
    <3> SUFFICES ASSUME past[c] = {}
                 PROVE  /\ up'[q] = <<>>
                        /\ \A k \in Keys : owner'[k] # q /\ InEffect(c, k)' = value'[k]
      BY <2>1 DEF Untouched
    <3> QED
      BY <2>1, <2>6 DEF ClientInv, Untouched
  <2>9. NotPretending(c)'
    <3>1. roomHost = q => roomHost' = q
      BY <1>2, <2>1, HostKeepsTheRole DEF SyncTyped
    <3> QED
      BY <2>1, <2>4, <3>1 DEF ClientInv, NotPretending
  <2> QED
    BY <2>7, <2>8, <2>9 DEF ClientInv
<1> QED
  BY <1>1, <1>2

\* Nothing is sent to it and nothing happens to the room.
LEMMA NothingIsNews ==
  ASSUME value' = value, owner' = owner, roomHost' \in {roomHost, NoPeer}, NEW q
  PROVE  Tells(<<>>, q)
  BY AppliedNothing DEF Tells

LEMMA OnlookersOfNothing ==
  ASSUME SyncTyped, SyncTyped', [HubNext]_hubVars, NEW c \in Clients, ClientInv(c),
         conn'[c] = conn[c], hostView'[c] = hostView[c], copy'[c] = copy[c], past'[c] = past[c],
         lost'[c] = lost[c],
         value' = value, owner' = owner, Members' = Members, roomHost' = roomHost,
         conn[c] \in Members => up'[conn[c]] = up[conn[c]] /\ down'[conn[c]] = down[conn[c]]
  PROVE  ClientInv(c)'
<1>1. <<>> \in Seq(Frames)
  BY EmptySeq
<1>2. conn[c] \in Members => down[conn[c]] \o <<>> = down[conn[c]]
  BY DEF SyncTyped, ChannelsTyped, Members
<1> QED
  BY <1>1, <1>2, NothingIsNews, OnlookersKeepUp

-----------------------------------------------------------------------------
(* The steps of one client: what becomes of it, while the others look on.      *)

\* A joiner is sent everything the room holds, and the host there is.
LEMMA JoinerIsSentTheRoom ==
  ASSUME SyncTyped, SyncTyped', NEW c \in Clients, NEW p \in Peers, Join(c, p)
  PROVE  /\ conn[c] = NoPeer /\ conn'[c] = p /\ p # NoPeer
         /\ hostView'[c] = NoPeer /\ copy'[c] = copy[c] /\ past'[c] = past[c] /\ lost'[c] = {}
         /\ value' = value /\ owner' = owner /\ up'[p] = <<>>
         /\ \A k \in Keys : owner'[k] # p
         /\ \A k \in Keys : InEffect(c, k)' = IF k \in Held THEN value[k] ELSE copy[c][k]
         /\ HostInEffect(c)' = roomHost'
         /\ Names(down'[p], p) => p = roomHost'
<1> DEFINE hello == <<Hello(roomHost')>>
<1>1. /\ conn[c] = NoPeer /\ conn'[c] = p /\ p # NoPeer
      /\ hostView'[c] = NoPeer /\ copy'[c] = copy[c] /\ past'[c] = past[c] /\ lost'[c] = {}
      /\ up'[p] = <<>> /\ down'[p] = hello \o Snapshot
  BY ElectionConstants DEF Join, SyncTyped, ClientsTyped, ChannelsTyped, HostlessOffline
<1>2. value' = value /\ owner' = owner /\ \A k \in Keys : owner'[k] # p
  BY DEF Join, HubConnect, stateVars, entryVars
<1>3. /\ roomHost' \in Peers \cup {NoPeer} /\ EntriesTyped
      /\ hello \in Seq(Frames) /\ Snapshot \in Seq(Frames)
      /\ OnlyNames(hello, roomHost')
  <2>1. roomHost' \in Peers \cup {NoPeer} /\ EntriesTyped
    BY DEF SyncTyped, HubInv, TypeInv, ElectionTypeOK, EntryInv
  <2> QED
    <3>1. OnlyNames(hello, roomHost')
      BY <2>1, HostMsgNamesTheHost
    <3>2. Snapshot \in Seq(Frames)
      BY <2>1, SnapshotIsTheRoom, FramesAreTwoKinds
    <3> QED
      BY <2>1, <3>1, <3>2 DEF OnlyNames
<1> HIDE DEF hello
<1>4. \A k \in Keys : InEffect(c, k)' = IF k \in Held THEN value[k] ELSE copy[c][k]
  <2> SUFFICES ASSUME NEW k \in Keys
               PROVE  Applied(hello \o Snapshot, k, copy[c][k]) = IF k \in Held THEN value[k] ELSE copy[c][k]
    BY <1>1 DEF InEffect
  <2>1. Applied(hello \o Snapshot, k, copy[c][k]) = Applied(Snapshot, k, Applied(hello, k, copy[c][k]))
    BY <1>3, AppliedConcat
  <2>2. Applied(hello, k, copy[c][k]) = copy[c][k]
    BY <1>3 DEF OnlyNames
  <2> QED
    BY <1>3, <2>1, <2>2, SnapshotIsTheRoom
<1>5. HostInEffect(c)' = roomHost'
  <2>1. HostInEffect(c)' = Latest(hello \o Snapshot, <<>>, NoPeer)
    BY <1>1 DEF HostInEffect
  <2>2. Latest(hello \o Snapshot, <<>>, NoPeer) = Latest(Snapshot, <<>>, Latest(hello, <<>>, NoPeer))
    BY <1>3, LatestConcat
  <2>3. Latest(hello, <<>>, NoPeer) = roomHost'
    BY <1>3 DEF OnlyNames
  <2> QED
    BY <1>3, <2>1, <2>2, <2>3, SnapshotIsTheRoom
<1>6. Names(hello \o Snapshot, p) => p = roomHost'
  BY <1>3, NamesConcat, SnapshotIsTheRoom DEF OnlyNames
<1> QED
  BY <1>1, <1>2, <1>4, <1>5, <1>6

LEMMA JoinerIsBroughtUp ==
  ASSUME SyncTyped, SyncTyped', NEW c \in Clients, NEW p \in Peers, Join(c, p), ClientInv(c)
  PROVE  ClientInv(c)'
<1>1. Agrees(c)'
  BY JoinerIsSentTheRoom DEF Agrees, Held
<1>2. Untouched(c)'
  <2> SUFFICES ASSUME past'[c] = {}
               PROVE  \A k \in Keys : owner'[k] # p /\ InEffect(c, k)' = value'[k]
    BY JoinerIsSentTheRoom DEF Untouched
  <2>1. copy[c] = Empty
    BY JoinerIsSentTheRoom DEF ClientInv, Untouched
  <2> QED
    BY <2>1, JoinerIsSentTheRoom DEF Empty, Held
<1>3. NotPretending(c)'
  BY JoinerIsSentTheRoom DEF NotPretending
<1> QED
  BY <1>1, <1>2, <1>3 DEF ClientInv

\* The others hear of the host if that is news, and of nothing else.
JoinNews == IF HostMoved(roomHost') THEN <<HostMsg(roomHost')>> ELSE <<>>

LEMMA OthersHearOfTheHost ==
  ASSUME SyncTyped, SyncTyped', NEW c \in Clients, NEW p \in Peers, Join(c, p),
         NEW d \in Clients, d # c
  PROVE  /\ conn'[d] = conn[d] /\ hostView'[d] = hostView[d] /\ copy'[d] = copy[d]
         /\ past'[d] = past[d] /\ lost'[d] = lost[d] /\ value' = value /\ owner' = owner
         /\ Members' = Members \cup {p} /\ JoinNews \in Seq(Frames)
         /\ \A k, old : Applied(JoinNews, k, old) = old
         /\ Tells(JoinNews, conn[d])
         /\ conn[d] \in Members' => /\ conn[d] \in Members /\ up'[conn[d]] = up[conn[d]]
                                    /\ down'[conn[d]] = down[conn[d]] \o JoinNews
<1> DEFINE q == conn[d]
<1>1. /\ conn'[d] = q /\ hostView'[d] = hostView[d] /\ copy'[d] = copy[d] /\ past'[d] = past[d]
      /\ q # p /\ value' = value /\ owner' = owner /\ lost'[d] = lost[d]
  BY DEF Join, SyncTyped, ClientsTyped, HubConnect, stateVars, entryVars
<1>2. Members' = Members \cup {p}
  BY DEF Join, HubConnect, Connect, SyncTyped, HubInv, TypeInv, ElectionTypeOK, Members
<1>3. roomHost' \in Peers \cup {NoPeer} /\ HostOf = roomHost
  BY DEF SyncTyped, HubInv, TypeInv, ElectionTypeOK, RoleInv, HostIsMember, HostOf
<1>4. /\ JoinNews \in Seq(Frames) /\ \A k, old : Applied(JoinNews, k, old) = old
      /\ Tells(JoinNews, q)
  <2>1. CASE HostMoved(roomHost')
    <3>1. OnlyNames(JoinNews, roomHost')
      BY <1>3, <2>1, HostMsgNamesTheHost DEF JoinNews
    <3>2. roomHost' \notin {roomHost, NoPeer}
      BY <1>3, <2>1 DEF HostMoved
    <3> QED
      BY <1>1, <3>1, <3>2 DEF Tells, OnlyNames
  <2>2. CASE ~ HostMoved(roomHost')
    <3>1. roomHost' \in {roomHost, NoPeer} /\ JoinNews = <<>>
      BY <1>3, <2>2 DEF HostMoved, JoinNews
    <3> QED
      BY <1>1, <3>1, NothingIsNews, AppliedNothing, EmptySeq
  <2> QED
    BY <2>1, <2>2
<1>5. ASSUME q \in Members'
      PROVE  q \in Members /\ up'[q] = up[q] /\ down'[q] = down[q] \o JoinNews
  <2>1. q \in Members /\ q \in Peers
    BY <1>1, <1>2, <1>5 DEF Members
  <2>2. q \in Heard(Members) /\ down[q] \in Seq(Frames)
    BY <2>1 DEF Heard, SyncTyped, ChannelsTyped
  <2>3. up'[q] = up[q]
    BY <1>1, <2>1 DEF Join, SyncTyped, ChannelsTyped
  <2>4. CASE HostMoved(roomHost')
    <3>1. down'[q] = Append(down[q], HostMsg(roomHost'))
      BY <1>1, <2>1, <2>2, <2>4 DEF Join
    <3>2. HostMsg(roomHost') \in Frames
      BY <1>3 DEF HostMsg, Frames
    <3>3. Append(down[q], HostMsg(roomHost')) = down[q] \o <<HostMsg(roomHost')>>
      BY <2>2, <3>2
    <3> QED
      BY <2>1, <2>3, <2>4, <3>1, <3>3 DEF JoinNews
  <2>5. CASE ~ HostMoved(roomHost')
    BY <1>1, <2>1, <2>2, <2>3, <2>5 DEF Join, JoinNews
  <2> QED
    BY <2>4, <2>5
<1> QED
  BY <1>1, <1>2, <1>4, <1>5

LEMMA ClientsAfterJoin ==
  ASSUME SyncTyped, SyncTyped', [HubNext]_hubVars, ClientsInv,
         NEW c \in Clients, NEW p \in Peers, Join(c, p)
  PROVE  ClientsInv'
<1> SUFFICES ASSUME NEW d \in Clients, d # c PROVE ClientInv(d)'
  BY JoinerIsBroughtUp DEF ClientsInv
<1>1. ClientInv(d)
  BY DEF ClientsInv
<1>2. JoinNews \in Seq(Frames)
  BY OthersHearOfTheHost
<1> QED
  BY <1>1, <1>2, OthersHearOfTheHost, OnlookersKeepUp

LEMMA ClientsAfterLocalSet ==
  ASSUME SyncTyped, SyncTyped', [HubNext]_hubVars, ClientsInv,
         NEW c \in Clients, NEW k \in Keys, NEW v \in Values \cup {NoValue}, LocalSet(c, k, v)
  PROVE  ClientsInv'
<1> SUFFICES ASSUME NEW d \in Clients PROVE ClientInv(d)'
  BY DEF ClientsInv
<1>1. /\ conn' = conn /\ hostView' = hostView /\ down' = down
      /\ value' = value /\ owner' = owner /\ Members' = Members /\ roomHost' = roomHost
  BY DEF LocalSet, hubVars, electionVars, memberVars, roleVars, stateVars, entryVars, Members
<1>2. ClientInv(d) /\ (conn[d] \in Members => conn[d] \in Peers /\ conn[d] # NoPeer)
  BY ElectionConstants DEF ClientsInv, Members
<1>3. CASE d # c
  <2>1. copy'[d] = copy[d] /\ past'[d] = past[d] /\ lost'[d] = lost[d]
    BY <1>3 DEF LocalSet, SyncTyped, ClientsTyped
  <2>2. conn[d] \in Members => up'[conn[d]] = up[conn[d]]
    BY <1>2, <1>3 DEF LocalSet, SyncTyped, OneClientEach, ChannelsTyped
  <2> QED
    BY <1>1, <1>2, <2>1, <2>2, OnlookersOfNothing
<1>4. CASE d = c
  <2> DEFINE q == conn[c]
  <2>1. /\ past'[c] = past[c] \cup {"wrote"} /\ lost' = lost
        /\ \A j \in Keys \ {k} : copy'[c][j] = copy[c][j]
    BY DEF LocalSet, SyncTyped, ClientsTyped
  <2>2. Agrees(c)'
    <3> SUFFICES ASSUME q \in Members, NEW j \in Keys, j \in Held', owner'[j] # q, Informed(c, j)'
                 PROVE  InEffect(c, j)' = value'[j]
      BY <1>1 DEF Agrees, Held
    <3>1. up'[q] = Append(up[q], StateMsg(k, v)) /\ up[q] \in Seq(StateFrames)
      BY <1>2, <1>4 DEF LocalSet, SyncTyped, ChannelsTyped
    <3>2. /\ Len(up'[q]) = Len(up[q]) + 1 /\ Len(up[q]) \in Nat
          /\ up'[q][Len(up[q]) + 1] = StateMsg(k, v)
          /\ \A i \in 1..Len(up[q]) : up'[q][i] = up[q][i]
      BY <3>1
    <3>3. /\ \A i \in 1..Len(up[q]) : i \in 1..Len(up'[q])
          /\ Len(up[q]) + 1 \in 1..Len(up'[q])
      BY <3>2
    <3>4. /\ Pending(q, j) => Pending(q, j)'
          /\ Pending(q, k)'
      <4>1. StateMsg(k, v).key = k
        BY DEF StateMsg
      <4>2. Pending(q, k)'
        BY <1>1, <3>2, <3>3, <4>1 DEF Pending
      <4>3. Pending(q, j) => Pending(q, j)'
        BY <1>1, <3>2, <3>3 DEF Pending
      <4> QED
        BY <4>2, <4>3
    <3>5. Informed(c, j) /\ (j = k => At(down[q], <<j>>) # {})
      BY <1>1, <2>1, <3>4 DEF Informed
    <3>6. InEffect(c, j) = value[j]
      BY <1>1, <1>2, <1>4, <3>5 DEF ClientInv, Agrees, Held
    <3>7. InEffect(c, j)' = InEffect(c, j)
      <4>1. CASE j = k
        BY <1>1, <3>5, <4>1, AppliedForgets DEF InEffect
      <4>2. CASE j # k
        BY <1>1, <2>1, <4>2 DEF InEffect
      <4> QED
        BY <4>1, <4>2
    <3> QED
      BY <1>1, <3>6, <3>7
  <2>3. Untouched(c)'
    BY <2>1 DEF Untouched
  <2>4. NotPretending(c)'
    BY <1>1, <1>2, <1>4 DEF NotPretending, ClientInv
  <2> QED
    BY <1>4, <2>2, <2>3, <2>4 DEF ClientInv
<1> QED
  BY <1>3, <1>4

\* Reading a frame changes nothing of what will be in effect.
LEMMA ReadingAFrame ==
  ASSUME SyncTyped, NEW c \in Clients, Receive(c)
  PROVE  /\ \A k \in Keys : InEffect(c, k)' = InEffect(c, k) /\ (Informed(c, k)' => Informed(c, k))
         /\ HostInEffect(c)' = HostInEffect(c)
         /\ hostView'[c] = conn[c] \/ Names(down'[conn[c]], conn[c])
              => hostView[c] = conn[c] \/ Names(down[conn[c]], conn[c])
<1> DEFINE q == conn[c]
           s == down[q]
           m == Head(s)
<1>1. q \in Peers /\ s \in Seq(Frames) /\ s # <<>>
  BY DEF Receive, SyncTyped, ClientsTyped, ChannelsTyped
<1>2. conn' = conn /\ up' = up /\ down'[q] = Tail(s)
  BY <1>1 DEF Receive, SyncTyped, ChannelsTyped
<1>3. /\ m \in Frames /\ Tail(s) \in Seq(Frames) /\ s = <<m>> \o Tail(s)
  BY <1>1, HeadThenTail
<1>4. /\ \A k \in Keys : copy'[c][k] = Applied(<<m>>, k, copy[c][k])
      /\ hostView'[c] = Latest(<<m>>, <<>>, hostView[c])
      /\ hostView'[c] = q => hostView[c] = q \/ Names(<<m>>, q)
      /\ \A k \in Keys : k \in lost[c] => k \in lost'[c] \/ At(<<m>>, <<k>>) # {}
  <2>1. \/ /\ m.type = "STATE"
           /\ copy' = [copy EXCEPT ![c][m.key] = m.value] /\ hostView' = hostView
           /\ lost' = [lost EXCEPT ![c] = lost[c] \ {m.key}]
        \/ /\ m.type \in {"HELLO", "HOST"}
           /\ hostView' = [hostView EXCEPT ![c] = m.host] /\ copy' = copy /\ lost' = lost
    BY DEF Receive
  <2>2. /\ copy \in [Clients -> [Keys -> Content]]
        /\ hostView \in [Clients -> Peers \cup {NoPeer}]
        /\ lost \in [Clients -> SUBSET Keys]
    BY DEF SyncTyped, ClientsTyped
  <2>3. /\ \A k \in Keys :
             /\ Applied(<<m>>, k, copy[c][k]) =
                  IF m.type = "STATE" /\ m.key = k THEN m.value ELSE copy[c][k]
             /\ At(<<m>>, <<k>>) = {} <=> ~ (m.type = "STATE" /\ m.key = k)
        /\ Latest(<<m>>, <<>>, hostView[c]) = IF m.type = "STATE" THEN hostView[c] ELSE m.host
    <3> HIDE DEF m
    <3>1. m \in Frames
      BY <1>3
    <3>2. ASSUME NEW k, NEW old
          PROVE  /\ Applied(<<m>>, k, old) = IF m.type = "STATE" /\ m.key = k THEN m.value ELSE old
                 /\ At(<<m>>, <<k>>) = {} <=> ~ (m.type = "STATE" /\ m.key = k)
                 /\ Latest(<<m>>, <<>>, old) = IF m.type = "STATE" THEN old ELSE m.host
      BY <3>1, AppliedOne
    <3> QED
      BY <3>2
  <2>4. Names(<<m>>, q) <=> m.type \in {"HELLO", "HOST"} /\ m.host = q
    BY NamesOne
  <2>5. m.type = "STATE" => m.key \in Keys
    BY <1>3, FramesAreTwoKinds DEF StateFrames
  <2>6. m.type = "STATE" => m.type \notin {"HELLO", "HOST"}
    BY <1>3, FramesAreTwoKinds
  <2> HIDE DEF m
  <2>7. CASE m.type = "STATE"
    <3>1. /\ copy' = [copy EXCEPT ![c][m.key] = m.value] /\ hostView' = hostView
          /\ lost' = [lost EXCEPT ![c] = lost[c] \ {m.key}] /\ m.key \in Keys
      BY <2>1, <2>5, <2>6, <2>7
    <3>2. \A k \in Keys : copy'[c][k] = Applied(<<m>>, k, copy[c][k])
      BY <2>2, <2>3, <2>7, <3>1
    <3>3. \A k \in Keys : k \in lost[c] => k \in lost'[c] \/ At(<<m>>, <<k>>) # {}
      BY <2>2, <2>3, <2>7, <3>1
    <3>4. hostView'[c] = Latest(<<m>>, <<>>, hostView[c])
      BY <2>3, <2>7, <3>1
    <3> QED
      BY <3>1, <3>2, <3>3, <3>4
  <2>8. CASE m.type # "STATE"
    BY <2>1, <2>2, <2>3, <2>4, <2>8
  <2> QED
    BY <2>7, <2>8
<1>5. /\ \A k \in Keys : InEffect(c, k)' = InEffect(c, k)
      /\ HostInEffect(c)' = HostInEffect(c)
  BY <1>1, <1>2, <1>4, LatestTail DEF InEffect, HostInEffect, Applied
<1>6. hostView'[c] = q \/ Names(Tail(s), q) => hostView[c] = q \/ Names(s, q)
  <2>1. <<m>> \in Seq(Frames)
    BY <1>3
  <2>2. Names(<<m>> \o Tail(s), q) <=> Names(<<m>>, q) \/ Names(Tail(s), q)
    BY <1>3, <2>1, NamesConcat
  <2>3. Names(s, q) <=> Names(<<m>>, q) \/ Names(Tail(s), q)
    BY <1>3, <2>2, Zenon
  <2> QED
    BY <1>4, <2>3
<1> HIDE DEF m
<1>7. ASSUME NEW k \in Keys, Informed(c, k)'
      PROVE  Informed(c, k)
  <2>1. At(s, <<k>>) = {} <=> At(<<m>>, <<k>>) = {} /\ At(Tail(s), <<k>>) = {}
    BY <1>1, LatestTail DEF m
  <2>2. Pending(q, k)' <=> Pending(q, k)
    BY <1>2 DEF Pending
  <2>3. k \in lost[c] => k \in lost'[c] \/ At(<<m>>, <<k>>) # {}
    BY <1>4
  <2> QED
    BY <1>2, <1>7, <2>1, <2>2, <2>3 DEF Informed
<1> QED
  BY <1>2, <1>5, <1>6, <1>7

LEMMA ReaderStaysInStep ==
  ASSUME SyncTyped, NEW c \in Clients, ClientInv(c), Receive(c)
  PROVE  ClientInv(c)'
<1>1. /\ conn' = conn /\ up' = up /\ past' = past /\ value' = value /\ owner' = owner
      /\ Members' = Members /\ roomHost' = roomHost /\ conn[c] # NoPeer
  BY DEF Receive, hubVars, electionVars, memberVars, roleVars, stateVars, entryVars, Members
<1>2. Agrees(c)'
  BY <1>1, ReadingAFrame DEF ClientInv, Agrees, Held
<1>3. Untouched(c)'
  BY <1>1, ReadingAFrame DEF ClientInv, Untouched
<1>4. NotPretending(c)'
  BY <1>1, ReadingAFrame DEF ClientInv, NotPretending
<1> QED
  BY <1>2, <1>3, <1>4 DEF ClientInv

LEMMA ClientsAfterReceive ==
  ASSUME SyncTyped, SyncTyped', [HubNext]_hubVars, ClientsInv, NEW c \in Clients, Receive(c)
  PROVE  ClientsInv'
<1> SUFFICES ASSUME NEW d \in Clients, d # c PROVE ClientInv(d)'
  BY ReaderStaysInStep DEF ClientsInv
<1>1. /\ conn' = conn /\ past' = past /\ up' = up
      /\ value' = value /\ owner' = owner /\ Members' = Members
      /\ copy'[d] = copy[d] /\ hostView'[d] = hostView[d] /\ lost'[d] = lost[d]
      /\ roomHost' = roomHost
  BY DEF Receive, hubVars, electionVars, memberVars, roleVars, stateVars, entryVars, Members,
         SyncTyped, ClientsTyped
<1>2. conn[d] \in Members => down'[conn[d]] = down[conn[d]]
  BY ElectionConstants DEF Receive, SyncTyped, OneClientEach, ChannelsTyped, Members
<1> QED
  BY <1>1, <1>2, OnlookersOfNothing DEF ClientsInv

LEMMA ClientsAfterUnplugged ==
  ASSUME SyncTyped, SyncTyped', [HubNext]_hubVars, ClientsInv,
         NEW c \in Clients, LoseSocket(c) \/ LeaveRoom(c)
  PROVE  ClientsInv'
<1> SUFFICES ASSUME NEW d \in Clients PROVE ClientInv(d)'
  BY DEF ClientsInv
<1>1. /\ Unplugged(c) /\ up' = up
      /\ value' = value /\ owner' = owner /\ Members' = Members /\ roomHost' = roomHost
  BY DEF LoseSocket, LeaveRoom, Unplugged, hubVars, electionVars, memberVars, roleVars, stateVars,
         entryVars, Members
<1>2. CASE d # c
  <2>1. /\ conn'[d] = conn[d] /\ hostView'[d] = hostView[d]
        /\ copy'[d] = copy[d] /\ past'[d] = past[d] /\ lost'[d] = lost[d]
    BY <1>2 DEF LoseSocket, LeaveRoom, Unplugged, SyncTyped, ClientsTyped
  <2>2. conn[d] \in Members => down'[conn[d]] = down[conn[d]]
    BY <1>1, <1>2, ElectionConstants
       DEF Unplugged, SyncTyped, OneClientEach, ChannelsTyped, Members
  <2> QED
    BY <1>1, <2>1, <2>2, OnlookersOfNothing DEF ClientsInv
<1>3. CASE d = c
  <2>1. conn'[c] = NoPeer /\ NoPeer \notin Members'
    BY <1>1, ElectionConstants DEF Unplugged, SyncTyped, ClientsTyped, Members
  <2>2. CASE LoseSocket(c)
    <3>1. "rejoined" \in past'[c]
      BY <2>2 DEF LoseSocket, SyncTyped, ClientsTyped
    <3> QED
      BY <1>3, <2>1, <3>1
         DEF ClientInv, Agrees, Untouched, NotPretending
  <2>3. CASE LeaveRoom(c)
    <3>1. past'[c] = {} /\ copy'[c] = Empty
      BY <2>3 DEF LeaveRoom, SyncTyped, ClientsTyped
    <3> QED
      BY <1>3, <2>1, <3>1
         DEF ClientInv, Agrees, Untouched, NotPretending
  <2> QED
    BY <2>2, <2>3
<1> QED
  BY <1>2, <1>3

-----------------------------------------------------------------------------
(* The steps of the server.                                                    *)

\* What a write does to the room: its key, and no other, is the writer's or nobody's.
LEMMA WriteReachesOneKey ==
  ASSUME EntriesTyped, NEW p \in Peers, NEW k \in Keys, NEW v \in Values \cup {NoValue},
         SetState(p, k, v)
  PROVE  /\ value'[k] = v /\ owner'[k] \in {p, NoPeer} /\ (v # NoValue => owner'[k] = p)
         /\ \A j \in Keys \ {k} : value'[j] = value[j] /\ owner'[j] = owner[j]
<1>1. CASE v # NoValue
  BY <1>1 DEF SetState, SetEntry, EntriesTyped
<1>2. CASE v = NoValue /\ k \in Held
  BY <1>2 DEF SetState, DelEntry, DelEntries
<1>3. CASE v = NoValue /\ k \notin Held
  BY <1>3 DEF SetState, DelEntry, EntriesTyped, Held, entryVars
<1> QED
  BY <1>1, <1>2, <1>3

\* Of the frames a writer has on their way, the ones after the first are still pending.
LEMMA PendingTail ==
  ASSUME NEW s \in Seq(StateFrames), s # <<>>, NEW k, Head(s).key # k,
         NEW i \in 1..Len(s), s[i].key = k
  PROVE  \E j \in 1..Len(Tail(s)) : Tail(s)[j].key = k
<1>1. /\ Len(Tail(s)) = Len(s) - 1 /\ Len(s) \in Nat
      /\ \A j \in 1..Len(Tail(s)) : Tail(s)[j] = s[j + 1]
      /\ Head(s) = s[1]
  OBVIOUS
<1>2. i # 1 /\ i - 1 \in 1..Len(Tail(s)) /\ s[(i - 1) + 1] = s[i]
  BY <1>1
<1> QED
  BY <1>1, <1>2

\* The rest of the writer's frames are pending as before; nothing of what the server does
\* with the first one concerns another key.
LEMMA WriterAfterHandleState ==
  ASSUME SyncTyped, SyncTyped', NEW p \in Peers, HandleState(p),
         NEW c \in Clients, conn[c] = p, ClientInv(c)
  PROVE  ClientInv(c)'
<1> DEFINE k == Head(up[p]).key
           v == Head(up[p]).value
<1>1. /\ conn' = conn /\ hostView' = hostView /\ copy' = copy /\ past' = past /\ lost' = lost
      /\ roomHost' = roomHost /\ Members' = Members /\ p \in Members
      /\ up[p] # <<>> /\ up'[p] = Tail(up[p])
  BY DEF HandleState, SetState, hubVars, electionVars, memberVars, roleVars, Members,
         SyncTyped, ChannelsTyped
<1>2. k \in Keys /\ v \in Values \cup {NoValue} /\ up[p] \in Seq(StateFrames)
  BY <1>1, OldestFrame DEF SyncTyped, ChannelsTyped
<1>3. \A j \in Keys : j # k /\ ~ Pending(p, j)' => ~ Pending(p, j)
  <2> SUFFICES ASSUME NEW j \in Keys, j # k, NEW i \in 1..Len(up[p]), up[p][i].key = j
               PROVE  \E n \in 1..Len(up'[p]) : up'[p][n].key = j
    BY DEF Pending
  <2>1. up'[p] = Tail(up[p]) /\ Head(up[p]).key # j
    BY <1>1
  <2>2. \E n \in 1..Len(Tail(up[p])) : Tail(up[p])[n].key = j
    BY <1>1, <1>2, <2>1, PendingTail
  <2> QED
    BY <2>1, <2>2
<1>4. down[p] \in Seq(Frames) /\ EntriesTyped /\ EntriesTyped'
  BY DEF SyncTyped, ChannelsTyped, HubInv, EntryInv
<1>5. past[c] # {}
  BY <1>1 DEF ClientInv, Untouched
<1> HIDE DEF k, v
\* The effect, for the writer itself, is that of nothing or of the correction.
<1>6. /\ \A j \in Keys \ {k} :
           /\ value'[j] = value[j] /\ owner'[j] = owner[j]
           /\ InEffect(c, j)' = InEffect(c, j)
           /\ At(down'[p], <<j>>) = {} <=> At(down[p], <<j>>) = {}
      /\ \A j \in Keys : j = k /\ j \in Held' /\ owner'[j] # p => InEffect(c, j)' = value'[j]
      /\ Names(down'[p], p) => Names(down[p], p)
  <2>1. CASE SetState(p, k, v) /\ Send(<<Head(up[p])>>, Heard(Members \ {p}))
    <3>1. down'[p] = down[p]
      <4>1. p \notin Heard(Members \ {p})
        BY DEF Heard
      <4> QED
        BY <2>1, <4>1 DEF Send
    <3>2. /\ owner'[k] \in {p, NoPeer}
          /\ \A j \in Keys \ {k} : value'[j] = value[j] /\ owner'[j] = owner[j]
      BY <1>2, <1>4, <2>1, WriteReachesOneKey
    <3>3. k \in Held' => owner'[k] # NoPeer
      BY <1>2, <1>4 DEF EntriesTyped
    <3> QED
      BY <1>1, <3>1, <3>2, <3>3 DEF InEffect
  <2>2. CASE Correction(p, k) /\ UNCHANGED hubVars
    <3> DEFINE m == StateMsg(k, value[k])
               s == <<m>>
    <3>1. down'[p] = down[p] \o s
      <4>1. p \in Heard({p})
        BY DEF Heard, SyncTyped, ChannelsTyped
      <4> QED
        BY <2>2, <4>1 DEF Correction, Send
    <3>2. m \in Frames /\ m.type = "STATE" /\ m.key = k /\ m.value = value[k]
      BY <1>2, <1>4 DEF StateMsg, Frames, EntriesTyped
    <3> HIDE DEF m
    <3>3. /\ s \in Seq(Frames)
          /\ \A j, old : Applied(s, j, old) = IF j = k THEN value[k] ELSE old
          /\ \A j : At(s, <<j>>) = {} <=> j # k
          /\ ~ Names(s, p)
      <4>1. s \in Seq(Frames)
        BY <3>2
      <4>2. ASSUME NEW j, NEW old
            PROVE  /\ Applied(s, j, old) = IF j = k THEN value[k] ELSE old
                   /\ At(s, <<j>>) = {} <=> j # k
        BY <3>2, AppliedOne
      <4>3. ~ Names(s, p)
        BY <3>2, NamesOne
      <4> QED
        BY <4>1, <4>2, <4>3
    <3> HIDE DEF s
    <3>4. \A j \in Keys : InEffect(c, j)' = IF j = k THEN value[k] ELSE InEffect(c, j)
      <4> SUFFICES ASSUME NEW j \in Keys
                   PROVE  Applied(down[p] \o s, j, copy[c][j]) =
                            IF j = k THEN value[k] ELSE Applied(down[p], j, copy[c][j])
        BY <1>1, <3>1 DEF InEffect
      <4>1. Applied(down[p] \o s, j, copy[c][j]) =
              Applied(s, j, Applied(down[p], j, copy[c][j]))
        BY <1>4, <3>3, AppliedConcat
      <4> QED
        BY <3>3, <4>1
    <3>5. Names(down[p] \o s, p) => Names(down[p], p)
      BY <1>4, <3>3, NamesConcat
    <3>6. value' = value /\ owner' = owner
      BY <2>2 DEF hubVars, stateVars, entryVars
    <3>7. \A j \in Keys \ {k} : /\ InEffect(c, j)' = InEffect(c, j)
                                /\ At(down'[p], <<j>>) = {} <=> At(down[p], <<j>>) = {}
      <4>1. \A j : At(down[p] \o s, <<j>>) = {} <=> At(down[p], <<j>>) = {} /\ At(s, <<j>>) = {}
        BY <1>4, <3>3, AtConcatEmpty
      <4>2. \A j : j # k => (At(down'[p], <<j>>) = {} <=> At(down[p], <<j>>) = {})
        BY <3>1, <3>3, <4>1
      <4>3. \A j \in Keys \ {k} : InEffect(c, j)' = InEffect(c, j)
        BY <3>4
      <4> QED
        BY <4>2, <4>3
    <3>8. \A j \in Keys : j = k => InEffect(c, j)' = value[j]
      BY <3>4
    <3>9. Names(down'[p], p) => Names(down[p], p)
      BY <3>1, <3>5
    <3>10. \A j \in Keys \ {k} :
             /\ value'[j] = value[j] /\ owner'[j] = owner[j]
             /\ InEffect(c, j)' = InEffect(c, j)
             /\ At(down'[p], <<j>>) = {} <=> At(down[p], <<j>>) = {}
      BY <3>6, <3>7
    <3>11. \A j \in Keys : j = k => InEffect(c, j)' = value'[j]
      BY <3>6, <3>8
    <3> QED
      BY <3>9, <3>10, <3>11
  <2> QED
    BY <2>1, <2>2 DEF HandleState, k, v
<1>7. Agrees(c)'
  <2> SUFFICES ASSUME NEW j \in Keys, j \in Held', owner'[j] # p, Informed(c, j)'
               PROVE  InEffect(c, j)' = value'[j]
    BY <1>1 DEF Agrees, Held
  <2>1. CASE j = k
    BY <1>6, <2>1
  <2>2. CASE j # k
    <3>1. /\ value'[j] = value[j] /\ owner'[j] = owner[j]
          /\ InEffect(c, j)' = InEffect(c, j)
          /\ At(down'[p], <<j>>) = {} <=> At(down[p], <<j>>) = {}
      BY <1>6, <2>2
    <3>2. Informed(c, j)
      BY <1>1, <1>3, <2>2, <3>1 DEF Informed
    <3>3. j \in Held /\ owner[j] # p
      BY <3>1 DEF Held
    <3>4. InEffect(c, j) = value[j]
      BY <1>1, <3>2, <3>3 DEF ClientInv, Agrees
    <3> QED
      BY <3>1, <3>4
  <2> QED
    BY <2>1, <2>2
<1>8. Untouched(c)'
  BY <1>1, <1>5 DEF Untouched
<1>9. NotPretending(c)'
  BY <1>1, <1>6 DEF ClientInv, NotPretending
<1> QED
  BY <1>7, <1>8, <1>9 DEF ClientInv

LEMMA ClientsAfterHandleState ==
  ASSUME SyncTyped, SyncTyped', [HubNext]_hubVars, ClientsInv, NEW p \in Peers, HandleState(p)
  PROVE  ClientsInv'
<1> SUFFICES ASSUME NEW d \in Clients, conn[d] # p PROVE ClientInv(d)'
  BY WriterAfterHandleState DEF ClientsInv
<1> DEFINE q == conn[d]
           m == Head(up[p])
<1>1. /\ conn' = conn /\ hostView' = hostView /\ copy' = copy /\ past' = past /\ lost' = lost
      /\ Members' = Members /\ roomHost' = roomHost /\ p \in Peers /\ up[p] # <<>>
      /\ q \in Members => up'[q] = up[q]
  BY DEF HandleState, SetState, hubVars, electionVars, memberVars, roleVars, Members,
         SyncTyped, ChannelsTyped
<1>2. m \in Frames /\ m.type = "STATE" /\ m.key \in Keys /\ m.value \in Values \cup {NoValue}
  <2>1. m \in StateFrames /\ m.key \in Keys /\ m.value \in Values \cup {NoValue}
    BY <1>1, OldestFrame DEF SyncTyped
  <2> QED
    BY <2>1, FramesAreTwoKinds DEF StateFrames
<1> HIDE DEF m
<1>3. CASE SetState(p, m.key, m.value) /\ Send(<<m>>, Heard(Members \ {p}))
  <2>1. /\ value'[m.key] = m.value /\ owner'[m.key] \in {p, NoPeer}
        /\ \A j \in Keys \ {m.key} : value'[j] = value[j] /\ owner'[j] = owner[j]
    BY <1>2, <1>3, WriteReachesOneKey DEF SyncTyped, HubInv, EntryInv
  <2>2. ASSUME q \in Members
        PROVE  Tells(<<m>>, q)
    <3>1. ~ Names(<<m>>, q)
      BY <1>2, NamesOne
    <3>2. /\ \A j, old : Applied(<<m>>, j, old) = IF m.key = j THEN m.value ELSE old
          /\ \A old : Latest(<<m>>, <<>>, old) = old
      BY <1>2, AppliedOne
    <3>3. q # NoPeer
      BY <2>2, ElectionConstants DEF Members
    <3> QED
      BY <1>1, <2>1, <3>1, <3>2, <3>3 DEF Tells
  <2>3. q \in Members => down'[q] = down[q] \o <<m>>
    BY <1>3 DEF Send, Heard, Members, SyncTyped, ChannelsTyped
  <2>4. <<m>> \in Seq(Frames)
    BY <1>2
  <2> QED
    BY <1>1, <2>2, <2>3, <2>4, OnlookersKeepUp DEF ClientsInv
<1>4. CASE Correction(p, m.key) /\ UNCHANGED hubVars
  <2>1. value' = value /\ owner' = owner
    BY <1>4 DEF hubVars, stateVars, entryVars
  <2>2. q \in Members => down'[q] = down[q]
    BY <1>4 DEF Correction, Send, Heard, Members, SyncTyped, ChannelsTyped
  <2> QED
    BY <1>1, <2>1, <2>2, OnlookersOfNothing DEF ClientsInv
<1> QED
  BY <1>3, <1>4 DEF HandleState, m

LEMMA ClientsAfterDrop ==
  ASSUME SyncTyped, SyncTyped', [HubNext]_hubVars, ClientsInv, NEW p \in Peers, DropOverBudget(p)
  PROVE  ClientsInv'
<1> SUFFICES ASSUME NEW d \in Clients PROVE ClientInv(d)'
  BY DEF ClientsInv
<1>1. /\ conn' = conn /\ hostView' = hostView /\ copy' = copy /\ down' = down
      /\ value' = value /\ owner' = owner /\ Members' = Members /\ roomHost' = roomHost
      /\ past' = past
      /\ lost'[d] = IF conn[d] = p THEN lost[d] \cup {Head(up[p]).key} ELSE lost[d]
      /\ up[p] # <<>> /\ up'[p] = Tail(up[p]) /\ up[p] \in Seq(StateFrames) /\ p \in Members
  BY DEF DropOverBudget, hubVars, electionVars, memberVars, roleVars, stateVars, entryVars, Members,
         SyncTyped, ChannelsTyped
<1>2. CASE conn[d] # p
  <2>1. conn[d] \in Members => up'[conn[d]] = up[conn[d]]
    BY <1>2 DEF DropOverBudget, SyncTyped, ChannelsTyped, Members
  <2> QED
    BY <1>1, <1>2, <2>1, OnlookersOfNothing DEF ClientsInv
<1>3. CASE conn[d] = p
  <2>1. past[d] # {} /\ p # NoPeer /\ ClientInv(d)
    BY <1>1, <1>3, ElectionConstants DEF ClientsInv, ClientInv, Untouched, Members
  <2>2. ASSUME NEW k \in Keys, Pending(p, k) \/ k \in lost[d]
        PROVE  Pending(p, k)' \/ k \in lost'[d]
    <3>1. CASE k \in lost[d] \/ k = Head(up[p]).key
      BY <1>1, <1>3, <3>1
    <3>2. CASE Pending(p, k) /\ Head(up[p]).key # k
      BY <1>1, <3>2, PendingTail DEF Pending
    <3> QED
      BY <2>2, <3>1, <3>2
  <2>3. \A k \in Keys : Informed(d, k)' => Informed(d, k)
    BY <1>1, <1>3, <2>2 DEF Informed
  <2>4. Agrees(d)'
    BY <1>1, <2>1, <2>3 DEF ClientInv, Agrees, InEffect, Held
  <2> QED
    BY <1>1, <2>1, <2>4 DEF ClientInv, Untouched, NotPretending
<1> QED
  BY <1>2, <1>3

LEMMA ClientsAfterClose ==
  ASSUME SyncTyped, SyncTyped', [HubNext]_hubVars, ClientsInv, NEW p \in Peers, SocketClosed(p)
  PROVE  ClientsInv'
<1> SUFFICES ASSUME NEW d \in Clients PROVE ClientInv(d)'
  BY DEF ClientsInv
<1> DEFINE q == conn[d]
<1>1. /\ conn' = conn /\ hostView' = hostView /\ copy' = copy /\ past' = past /\ lost' = lost
      /\ Members' = Members \ {p} /\ p \in Members
  BY DEF SocketClosed, HubDisconnect, Disconnect, Members, SyncTyped, HubInv, TypeInv, ElectionTypeOK
<1>2. roomHost' \in Peers \cup {NoPeer}
  BY DEF SyncTyped, HubInv, TypeInv, ElectionTypeOK
<1>3. /\ CloseNews(p) \in Seq(Frames)
      /\ \A k \in Keys : \A old :
           Applied(CloseNews(p), k, old) = IF k \in Gripped(p) THEN NoValue ELSE old
      /\ \A r \in Peers : Names(CloseNews(p), r) => r = roomHost'
      /\ \A old : Latest(CloseNews(p), <<>>, old) =
           IF roomHost' \in {roomHost, NoPeer} THEN old ELSE roomHost'
  BY <1>2, CloseNewsIsTrue
<1>4. ASSUME q \in Members'
      PROVE  /\ q \in Members /\ up'[q] = up[q] /\ down'[q] = down[q] \o CloseNews(p)
             /\ Tells(CloseNews(p), q)
  <2>1. q \in Members /\ q # p /\ q \in Peers /\ q # NoPeer /\ Members # {p}
    BY <1>1, <1>4, ElectionConstants DEF Members
  <2>2. up'[q] = up[q]
    BY <2>1 DEF SocketClosed, SyncTyped, ChannelsTyped
  <2>3. down'[q] = down[q] \o CloseNews(p)
    BY <2>1 DEF SocketClosed, Send, Heard, SyncTyped, ChannelsTyped
  <2>4. \A k \in Keys : IF k \in Gripped(p) THEN value'[k] = NoValue /\ owner'[k] = NoPeer
                        ELSE value'[k] = value[k] /\ owner'[k] = owner[k]
    <3>1. CASE Gripped(p) # {}
      BY <2>1, <3>1 DEF SocketClosed, HubDisconnect, DelEntries
    <3>2. CASE Gripped(p) = {}
      BY <2>1, <3>2 DEF SocketClosed, HubDisconnect, entryVars
    <3> QED
      BY <3>1, <3>2
  <2>5. Tells(CloseNews(p), q)
    BY <1>3, <2>1, <2>4 DEF Tells
  <2> QED
    BY <2>1, <2>2, <2>3, <2>5
<1> QED
  BY <1>1, <1>3, <1>4, OnlookersKeepUp DEF ClientsInv

LEMMA ClientsAfterTimer ==
  ASSUME SyncTyped, SyncTyped', [HubNext]_hubVars, ClientsInv, ReclaimTimer
  PROVE  ClientsInv'
<1> SUFFICES ASSUME NEW d \in Clients PROVE ClientInv(d)'
  BY DEF ClientsInv
<1> DEFINE q == conn[d]
<1>1. /\ conn' = conn /\ hostView' = hostView /\ copy' = copy /\ past' = past /\ up' = up
      /\ Members' = Members /\ value' = value /\ owner' = owner /\ lost' = lost
  BY DEF ReclaimTimer, HubExpireHostGrace, ExpireHostGrace, memberVars, stateVars, entryVars, Members
<1>2. /\ HostNews \in Seq(Frames)
      /\ \A k, old : Applied(HostNews, k, old) = old
      /\ \A r \in Peers : Names(HostNews, r) => r = roomHost'
      /\ \A old : Latest(HostNews, <<>>, old) =
           IF roomHost' \in {roomHost, NoPeer} THEN old ELSE roomHost'
  BY HostNewsIsTrue DEF SyncTyped, HubInv, TypeInv, ElectionTypeOK
<1>3. q \in Members => Tells(HostNews, q) /\ down'[q] = down[q] \o HostNews
  BY <1>1, <1>2 DEF Tells, ReclaimTimer, Send, Heard, Members, SyncTyped, ChannelsTyped
<1> QED
  BY <1>1, <1>2, <1>3, OnlookersKeepUp DEF ClientsInv

LEMMA ClientsAfterRestart ==
  ASSUME SyncTyped, ClientsInv, Restart
  PROVE  ClientsInv'
<1>1. conn' = conn /\ copy' = copy /\ past' = past /\ Members' = {}
  BY RestartForgetsTheRoom DEF Restart, SyncTyped
<1> QED
  BY <1>1 DEF ClientsInv, ClientInv, Agrees, Untouched, NotPretending

LEMMA ClientsStep == SyncTyped /\ SyncTyped' /\ ClientsInv /\ [SyncNext]_syncVars => ClientsInv'
<1> SUFFICES ASSUME SyncTyped, SyncTyped', ClientsInv, [SyncNext]_syncVars PROVE ClientsInv'
  OBVIOUS
<1>1. CASE Restart
  BY <1>1, ClientsAfterRestart
<1>2. CASE [HubNext]_hubVars
  <2>1. ASSUME TimePasses \/ UNCHANGED syncVars PROVE ClientsInv'
    <3>1. /\ conn' = conn /\ hostView' = hostView /\ copy' = copy /\ past' = past
          /\ up' = up /\ down' = down /\ lost' = lost
          /\ value' = value /\ owner' = owner /\ Members' = Members /\ roomHost' = roomHost
      BY <2>1 DEF TimePasses, HubTick, Tick, syncVars, clientVars, hubVars, electionVars, memberVars,
                  roleVars, stateVars, entryVars, Members
    <3> QED
      BY <1>2, <3>1, OnlookersOfNothing DEF ClientsInv
  <2> QED
    BY <1>2, <2>1, ClientsAfterJoin, ClientsAfterLocalSet, ClientsAfterReceive, ClientsAfterUnplugged,
       ClientsAfterHandleState, ClientsAfterDrop, ClientsAfterClose, ClientsAfterTimer,
       ClientsAfterRestart DEF SyncNext
<1> QED
  BY <1>1, <1>2, ClientsRunTheHub DEF SyncTyped

-----------------------------------------------------------------------------
(* The results.                                                                *)

LEMMA ClientsInit == SyncInit => ClientsInv
<1> SUFFICES ASSUME SyncInit, NEW c \in Clients PROVE ClientInv(c)
  BY DEF ClientsInv
<1>1. conn[c] = NoPeer /\ copy[c] = Empty /\ past[c] = {} /\ NoPeer \notin Members
  BY ElectionConstants DEF SyncInit, Members
<1> QED
  BY <1>1 DEF ClientInv, Agrees, Untouched, NotPretending

LEMMA SyncInvariant == SyncSpec => [](SyncTyped /\ ClientsInv)
  BY SyncTypesInit, SyncTypesStep, ClientsInit, ClientsStep, PTL DEF SyncSpec

\* The room, its clients and the frames between them have their types, and a client without
\* a socket takes nobody for the host (the 'close' listener of RoomConnection).
THEOREM SyncTypes == SyncSpec => []SyncTypeOK
<1>1. SyncTyped => SyncTypeOK
  <2> SUFFICES ASSUME SyncTyped PROVE SyncTypeOK
    OBVIOUS
  <2>1. \A p \in Peers : Range(up[p]) \cup Range(down[p]) \subseteq Frames
    <3> SUFFICES ASSUME NEW p \in Peers
                 PROVE  Range(up[p]) \subseteq Frames /\ Range(down[p]) \subseteq Frames
      OBVIOUS
    <3>1. up[p] \in Seq(StateFrames) /\ down[p] \in Seq(Frames)
      BY DEF SyncTyped, ChannelsTyped
    <3>2. StateFrames \subseteq Frames
      BY FramesAreTwoKinds
    <3> QED
      BY <3>1, <3>2 DEF Range
  <2> QED
    BY <2>1 DEF SyncTyped, ClientsTyped, HostlessOffline, SyncTypeOK, Content
<1> QED
  BY <1>1, SyncInvariant, PTL

LEMMA SettledIsInStep ==
  ASSUME SyncTyped, NEW c \in Clients, Settled(c)
  PROVE  /\ conn[c] \in Members /\ conn[c] # NoPeer
         /\ \A k \in Keys : InEffect(c, k) = copy[c][k] /\ ~ Pending(conn[c], k)
         /\ HostInEffect(c) = hostView[c]
<1>1. conn[c] \in Members /\ up[conn[c]] = <<>> /\ down[conn[c]] = <<>>
  BY DEF Settled
<1>2. conn[c] # NoPeer
  BY <1>1, ElectionConstants DEF Members
<1>3. \A k \in Keys : ~ Pending(conn[c], k)
  BY <1>1, EmptySeq DEF Pending
<1>4. \A k \in Keys : InEffect(c, k) = copy[c][k]
  BY <1>1, AppliedNothing DEF InEffect
<1>5. HostInEffect(c) = hostView[c]
  BY <1>1, AppliedNothing DEF HostInEffect
<1> QED
  BY <1>1, <1>2, <1>3, <1>4, <1>5

\* Once nothing is in flight on its socket, a client can differ from the server on a key
\* only if it was the last to write it, or a write of its own of that key was dropped and
\* nothing has overwritten it since.
THEOREM TheOthersAgree == SyncSpec => []BystandersAgree
<1>1. SyncTyped /\ ClientsInv => BystandersAgree
  <2> SUFFICES ASSUME SyncTyped, ClientsInv, NEW c \in Clients, Settled(c),
                      NEW k \in Held \ lost[c], owner[k] # conn[c]
               PROVE  copy[c][k] = value[k]
    BY DEF BystandersAgree
  <2>1. Agrees(c) /\ k \in Keys
    BY DEF ClientsInv, ClientInv, Held
  <2>2. conn[c] \in Members /\ InEffect(c, k) = copy[c][k] /\ ~ Pending(conn[c], k)
    BY <2>1, SettledIsInStep
  <2> QED
    BY <2>1, <2>2 DEF Agrees, Informed
<1> QED
  BY <1>1, SyncInvariant, PTL

\* A peer that walks in and writes nothing has, once settled, exactly the room's state.
THEOREM WhoWalksInConverges == SyncSpec => []WalkInConverges
<1>1. SyncTyped /\ ClientsInv => WalkInConverges
  <2> SUFFICES ASSUME SyncTyped, ClientsInv, NEW c \in Clients, Settled(c), past[c] = {}
               PROVE  copy[c] = value
    BY DEF WalkInConverges
  <2>1. \A k \in Keys : copy[c][k] = value[k]
    BY SettledIsInStep DEF ClientsInv, ClientInv, Untouched
  <2>2. copy[c] \in [Keys -> Content] /\ value \in [Keys -> Content]
    BY DEF SyncTyped, ClientsTyped, HubInv, EntryInv, EntriesTyped, Content
  <2> QED
    BY <2>1, <2>2
<1> QED
  BY <1>1, SyncInvariant, PTL

\* A member that takes itself for the host is the host.
THEOREM NobodyPretends == SyncSpec => []NoPretender
<1>1. SyncTyped /\ ClientsInv => NoPretender
  BY DEF ClientsInv, ClientInv, NotPretending, NoPretender, HostOf
<1> QED
  BY <1>1, SyncInvariant, PTL

\* Restarts of the server included, a room with members and no host has the record and the
\* timer that will give it one, if the timer is never later than the sweeper's patience.
THEOREM RescuedAcrossRestarts ==
  ASSUME Punctual
  PROVE  SyncSpec => []HostlessIsRescued
<1>1. SyncInit => RescueInv
  BY RescueInit DEF SyncInit, HubInit
<1>2. SyncTyped /\ RescueInv /\ [SyncNext]_syncVars => RescueInv'
  <2> SUFFICES ASSUME SyncTyped, RescueInv, [SyncNext]_syncVars PROVE RescueInv'
    OBVIOUS
  <2>1. CASE [HubNext]_hubVars
    BY <2>1, HubRefinesElection, RescueStep DEF SyncTyped, HubInv
  <2>2. CASE Restart
    <3>1. Members' = {} /\ timerAge' = -1
      BY <2>2, RestartForgetsTheRoom DEF SyncTyped, Restart, Unarmed
    <3> QED
      BY <3>1, ElectionConstants DEF RescueInv, HostlessIsRescued
  <2> QED
    BY <2>1, <2>2, ClientsRunTheHub DEF SyncTyped
<1>3. RescueInv => HostlessIsRescued
  BY DEF RescueInv
<1> QED
  BY <1>1, <1>2, <1>3, SyncInvariant, PTL DEF SyncSpec

-----------------------------------------------------------------------------
(* The shared room: every step of the server, its clients and the frames       *)
(* between them is a step of SharedRoom or changes nothing it shows.           *)

LEMMA Views ==
  /\ \A c \in Clients : c \in Inside <=> conn[c] \in Members
  /\ \A c \in Clients : c \in Inside' <=> conn'[c] \in Members'
  /\ \A c \in Inside : /\ Seen[c] = [k \in Keys |-> InEffect(c, k)]
                       /\ SeenHost[c] = HostInEffect(c) /\ Doubts[c] = Unsure(c)
  /\ \A c \in Inside' : /\ Seen'[c] = [k \in Keys |-> InEffect(c, k)']
                        /\ SeenHost'[c] = HostInEffect(c)' /\ Doubts'[c] = Unsure(c)'
  /\ \A c \in Clients \ Inside : Seen[c] = Empty /\ SeenHost[c] = NoPeer /\ Doubts[c] = {}
  /\ \A c \in Clients \ Inside' : Seen'[c] = Empty /\ SeenHost'[c] = NoPeer /\ Doubts'[c] = {}
<1>1. /\ \A c \in Clients : c \in Inside <=> conn[c] \in Members
      /\ \A c \in Clients : c \in Inside' <=> conn'[c] \in Members'
      /\ Inside \subseteq Clients /\ Inside' \subseteq Clients
  BY DEF Inside
<1>2. ASSUME NEW c \in Inside
      PROVE  /\ Seen[c] = [k \in Keys |-> InEffect(c, k)]
             /\ SeenHost[c] = HostInEffect(c) /\ Doubts[c] = Unsure(c)
  BY <1>1 DEF Seen, SeenHost, Doubts
<1>3. ASSUME NEW c \in Inside'
      PROVE  /\ Seen'[c] = [k \in Keys |-> InEffect(c, k)']
             /\ SeenHost'[c] = HostInEffect(c)' /\ Doubts'[c] = Unsure(c)'
  BY <1>1 DEF Seen, SeenHost, Doubts
<1>4. /\ \A c \in Clients \ Inside : Seen[c] = Empty /\ SeenHost[c] = NoPeer /\ Doubts[c] = {}
      /\ \A c \in Clients \ Inside' : Seen'[c] = Empty /\ SeenHost'[c] = NoPeer /\ Doubts'[c] = {}
  BY DEF Seen, SeenHost, Doubts
<1> QED
  BY <1>1, <1>2, <1>3, <1>4

\* The views are functions of the clients, before a step and after it.
LEMMA ViewsAreFunctions ==
  /\ Seen = [c \in Clients |-> Seen[c]] /\ Seen' = [c \in Clients |-> Seen'[c]]
  /\ SeenHost = [c \in Clients |-> SeenHost[c]] /\ SeenHost' = [c \in Clients |-> SeenHost'[c]]
  /\ Doubts = [c \in Clients |-> Doubts[c]] /\ Doubts' = [c \in Clients |-> Doubts'[c]]
  /\ Inside \subseteq Clients /\ Inside' \subseteq Clients
  BY DEF Seen, SeenHost, Doubts, Inside

\* What the frames msgs make of what a client was to see.
LEMMA EffectOfMessages ==
  ASSUME SyncTyped, NEW c \in Clients, conn[c] \in Members, NEW msgs \in Seq(Frames),
         conn'[c] = conn[c], hostView'[c] = hostView[c], copy'[c] = copy[c],
         down'[conn[c]] = down[conn[c]] \o msgs
  PROVE  /\ \A k \in Keys : InEffect(c, k)' = Applied(msgs, k, InEffect(c, k))
         /\ HostInEffect(c)' = Latest(msgs, <<>>, HostInEffect(c))
<1>1. down[conn[c]] \in Seq(Frames)
  BY DEF SyncTyped, ChannelsTyped, Members
<1>2. ASSUME NEW k \in Keys
      PROVE  InEffect(c, k)' = Applied(msgs, k, InEffect(c, k))
  BY <1>1, AppliedConcat DEF InEffect
<1>3. HostInEffect(c)' = Latest(msgs, <<>>, HostInEffect(c))
  BY <1>1, LatestConcat DEF HostInEffect
<1> QED
  BY <1>2, <1>3

\* A key in no doubt is seen as it is.
LEMMA SureIsRight ==
  ASSUME NEW c \in Clients, ClientInv(c)', conn'[c] \in Members', NEW k \in Held',
         k \notin Unsure(c)'
  PROVE  InEffect(c, k)' = value'[k]
  BY DEF ClientInv, Agrees, Informed, Unsure, Held

\* A client sees after the step what it saw before.
SeesTheSame(c) ==
  /\ c \in Inside' <=> c \in Inside
  /\ Seen'[c] = Seen[c] /\ SeenHost'[c] = SeenHost[c] /\ Doubts'[c] = Doubts[c]

LEMMA SameView ==
  ASSUME NEW c \in Clients, conn'[c] \in Members' <=> conn[c] \in Members,
         conn[c] \in Members =>
           /\ \A k \in Keys : InEffect(c, k)' = InEffect(c, k)
           /\ HostInEffect(c)' = HostInEffect(c) /\ Unsure(c)' = Unsure(c)
  PROVE  SeesTheSame(c)
<1>1. CASE c \in Inside
  <2>1. [k \in Keys |-> InEffect(c, k)'] = [k \in Keys |-> InEffect(c, k)]
    BY <1>1, Views
  <2> QED
    BY <1>1, <2>1, Views DEF SeesTheSame
<1>2. CASE c \notin Inside
  BY <1>2, Views DEF SeesTheSame
<1> QED
  BY <1>1, <1>2

\* Nothing the client's view is made of has changed.
LEMMA NothingHappens ==
  ASSUME NEW c \in Clients, conn'[c] = conn[c], conn[c] \in Members' <=> conn[c] \in Members,
         owner' = owner,
         conn[c] \in Members =>
           /\ hostView'[c] = hostView[c] /\ copy'[c] = copy[c] /\ lost'[c] = lost[c]
           /\ up'[conn[c]] = up[conn[c]] /\ down'[conn[c]] = down[conn[c]]
  PROVE  SeesTheSame(c)
<1>1. ASSUME conn[c] \in Members
      PROVE  /\ \A k \in Keys : InEffect(c, k)' = InEffect(c, k)
             /\ HostInEffect(c)' = HostInEffect(c) /\ Unsure(c)' = Unsure(c)
  BY <1>1 DEF InEffect, HostInEffect, Unsure, Pending
<1> QED
  BY <1>1, SameView

\* If all clients see the same and the room has not changed, the step is a stutter.
LEMMA Stutters ==
  ASSUME \A c \in Clients : SeesTheSame(c), value' = value, roomHost' = roomHost
  PROVE  UNCHANGED Shared!sharedVars
<1>1. Inside' = Inside
  BY ViewsAreFunctions DEF SeesTheSame
<1>2. Seen' = Seen
  BY ViewsAreFunctions, Zenon DEF SeesTheSame
<1>3. SeenHost' = SeenHost
  BY ViewsAreFunctions, Zenon DEF SeesTheSame
<1>4. Doubts' = Doubts
  BY ViewsAreFunctions, Zenon DEF SeesTheSame
<1> QED
  BY <1>1, <1>2, <1>3, <1>4 DEF Shared!sharedVars

\* The host news of a step: each client in the room afterwards sees the host there is if it
\* is new to the room or the host is new, and what it saw if not.
LEMMA HostIsSeen ==
  ASSUME roomHost' \in Peers \cup {NoPeer},
         \A c \in Inside' : SeenHost'[c] =
           IF c \notin Inside \/ roomHost' \notin {roomHost, NoPeer} THEN roomHost' ELSE SeenHost[c]
  PROVE  Shared!HostSeen
<1>1. SeenHost' = [c \in Clients |-> SeenHost'[c]]
  BY ViewsAreFunctions
<1>2. \A c \in Clients : SeenHost'[c] =
        IF c \notin Inside' THEN NoPeer
        ELSE IF c \notin Inside \/ roomHost' \notin {roomHost, NoPeer} THEN roomHost'
        ELSE SeenHost[c]
  BY Views
<1>3. SeenHost' = [c \in Clients |->
        IF c \notin Inside' THEN NoPeer
        ELSE IF c \notin Inside \/ roomHost' \notin {roomHost, NoPeer} THEN roomHost'
        ELSE SeenHost[c]]
  BY <1>1, <1>2, Zenon
<1> QED
  BY <1>3 DEF Shared!HostSeen

\* What becomes of the keys written in a client's frames when the oldest frame goes.
LEMMA PendingAfterFirst ==
  ASSUME ChannelsTyped, NEW p \in Peers, up[p] # <<>>, up'[p] = Tail(up[p])
  PROVE  /\ Pending(p, Head(up[p]).key)
         /\ \A k \in Keys : Pending(p, k)' => Pending(p, k)
         /\ \A k \in Keys : k # Head(up[p]).key => (Pending(p, k) => Pending(p, k)')
<1> DEFINE s == up[p]
<1>1. s \in Seq(StateFrames) /\ s # <<>>
  BY DEF ChannelsTyped
<1>2. /\ Len(Tail(s)) = Len(s) - 1 /\ Len(s) \in Nat /\ Len(s) # 0
      /\ \A i \in 1..Len(Tail(s)) : Tail(s)[i] = s[i + 1]
      /\ Head(s) = s[1]
  BY <1>1
<1>3. 1 \in 1..Len(s) /\ \A i \in 1..Len(Tail(s)) : i + 1 \in 1..Len(s)
  BY <1>2
<1>4. Pending(p, Head(s).key)
  BY <1>2, <1>3 DEF Pending
<1>5. ASSUME NEW k \in Keys, Pending(p, k)' PROVE Pending(p, k)
  BY <1>2, <1>3, <1>5 DEF Pending
<1>6. ASSUME NEW k \in Keys, k # Head(s).key, Pending(p, k) PROVE Pending(p, k)'
  <2>1. PICK i \in 1..Len(s) : s[i].key = k
    BY <1>6 DEF Pending
  <2>2. \E j \in 1..Len(Tail(s)) : Tail(s)[j].key = k
    BY <1>1, <1>6, <2>1, PendingTail
  <2> QED
    BY <2>2 DEF Pending
<1> QED
  BY <1>4, <1>5, <1>6

LEMMA WritingIsShared ==
  ASSUME SyncTyped, NEW c \in Clients, NEW k \in Keys, NEW v \in Values \cup {NoValue},
         LocalSet(c, k, v)
  PROVE  [Shared!Next]_(Shared!sharedVars)
<1> DEFINE q == conn[c]
<1>1. /\ conn' = conn /\ hostView' = hostView /\ down' = down /\ lost' = lost
      /\ value' = value /\ owner' = owner /\ Members' = Members /\ roomHost' = roomHost
  BY DEF LocalSet, hubVars, electionVars, memberVars, roleVars, stateVars, entryVars, Members
<1>2. ASSUME NEW d \in Clients, d # c \/ q \notin Members
      PROVE  SeesTheSame(d)
  <2>1. CASE conn[d] \notin Members
    BY <1>1, <2>1, NothingHappens
  <2>2. CASE conn[d] \in Members
    <3>1. d # c /\ conn[d] # NoPeer
      BY <1>2, <2>2, ElectionConstants DEF Members
    <3>2. conn[d] # q
      BY <3>1 DEF SyncTyped, OneClientEach
    <3>3. copy'[d] = copy[d]
      BY <3>1 DEF LocalSet, SyncTyped, ClientsTyped
    <3>4. up'[conn[d]] = up[conn[d]]
      BY <2>2, <3>2 DEF LocalSet, SyncTyped, ChannelsTyped, Members
    <3> QED
      BY <1>1, <3>3, <3>4, NothingHappens
  <2> QED
    BY <2>1, <2>2
<1>3. CASE q \notin Members
  BY <1>1, <1>2, <1>3, Stutters
<1>4. CASE q \in Members
  <2>1. c \in Inside /\ c \in Inside' /\ Inside' = Inside /\ q \in Peers
    BY <1>1, <1>4 DEF Inside, Members
  <2>2. /\ up[q] \in Seq(StateFrames) /\ up'[q] = Append(up[q], StateMsg(k, v))
        /\ copy'[c][k] = v /\ \A j \in Keys \ {k} : copy'[c][j] = copy[c][j]
    BY <1>4, <2>1 DEF LocalSet, SyncTyped, ClientsTyped, ChannelsTyped
  <2>3. \A j \in Keys : Pending(q, j)' <=> Pending(q, j) \/ j = k
    <3>1. /\ Len(up'[q]) = Len(up[q]) + 1 /\ Len(up[q]) \in Nat
          /\ up'[q][Len(up[q]) + 1] = StateMsg(k, v)
          /\ \A i \in 1..Len(up[q]) : up'[q][i] = up[q][i]
      BY <2>2
    <3>2. /\ \A i \in 1..Len(up[q]) : i \in 1..Len(up'[q])
          /\ Len(up[q]) + 1 \in 1..Len(up'[q])
          /\ \A i \in 1..Len(up'[q]) : i \in 1..Len(up[q]) \/ i = Len(up[q]) + 1
      BY <3>1
    <3>3. StateMsg(k, v).key = k
      BY DEF StateMsg
    <3>4. Pending(q, k)'
      BY <1>1, <3>1, <3>2, <3>3 DEF Pending
    <3>5. \A j \in Keys : Pending(q, j) => Pending(q, j)'
      BY <1>1, <3>1, <3>2 DEF Pending
    <3>6. \A j \in Keys : Pending(q, j)' => Pending(q, j) \/ j = k
      BY <1>1, <3>1, <3>2, <3>3 DEF Pending
    <3> QED
      BY <3>4, <3>5, <3>6
  <2>4. Doubts'[c] = Doubts[c] \cup {k}
    <3>1. Unsure(c)' = Unsure(c) \cup {k}
      BY <1>1, <2>3 DEF Unsure
    <3> QED
      BY <2>1, <3>1, Views
  <2>5. SeenHost'[c] = SeenHost[c]
    BY <1>1, <2>1, Views DEF HostInEffect
  <2>6. \A j \in Keys \ {k} : InEffect(c, j)' = InEffect(c, j)
    BY <1>1, <2>2 DEF InEffect
  <2>7. InEffect(c, k)' \in {InEffect(c, k), v}
    <3>1. CASE At(down[q], <<k>>) = {}
      BY <1>1, <2>2, <3>1, LatestIsLast DEF InEffect, Applied
    <3>2. CASE At(down[q], <<k>>) # {}
      BY <1>1, <3>2, AppliedForgets DEF InEffect
    <3> QED
      BY <3>1, <3>2
  <2>8. /\ Seen[c] = [j \in Keys |-> InEffect(c, j)]
        /\ Seen'[c] = [j \in Keys |-> InEffect(c, j)']
    BY <2>1, Views
  <2>9. Seen'[c] \in {Seen[c], [Seen[c] EXCEPT ![k] = v]}
    <3>1. CASE InEffect(c, k)' = InEffect(c, k)
      <4>1. \A j \in Keys : InEffect(c, j)' = InEffect(c, j)
        BY <2>6, <3>1
      <4> QED
        BY <2>8, <4>1, Zenon
    <3>2. CASE InEffect(c, k)' = v
      <4>1. \A j \in Keys : InEffect(c, j)' = IF j = k THEN v ELSE InEffect(c, j)
        BY <2>6, <3>2
      <4> QED
        BY <2>8, <4>1
    <3> QED
      BY <2>7, <3>1, <3>2
  <2>10. \A d \in Clients : d # c => /\ Seen'[d] = Seen[d] /\ SeenHost'[d] = SeenHost[d]
                                     /\ Doubts'[d] = Doubts[d]
    BY <1>2 DEF SeesTheSame
  <2>11. SeenHost' = SeenHost
    <3>1. \A d \in Clients : SeenHost'[d] = SeenHost[d]
      BY <2>5, <2>10
    <3> QED
      BY <3>1, ViewsAreFunctions, Zenon
  <2>12. Doubts' = [Doubts EXCEPT ![c] = @ \cup {k}]
    BY <2>4, <2>10, ViewsAreFunctions
  <2>13. Seen' \in {Seen, [Seen EXCEPT ![c][k] = v]}
    <3>1. Seen' = [Seen EXCEPT ![c] = Seen'[c]]
      BY <2>10, ViewsAreFunctions
    <3>2. Seen = [Seen EXCEPT ![c] = Seen[c]]
      BY ViewsAreFunctions
    <3>3. [Seen EXCEPT ![c][k] = v] = [Seen EXCEPT ![c] = [Seen[c] EXCEPT ![k] = v]]
      OBVIOUS
    <3> QED
      BY <2>9, <3>1, <3>2, <3>3, Zenon
  <2>14. Shared!Write(c, k, v)
    BY <1>1, <2>1, <2>11, <2>12, <2>13 DEF Shared!Write
  <2> QED
    BY <2>1, <2>14 DEF Shared!Next, Shared!Content
<1> QED
  BY <1>3, <1>4

LEMMA ReadingIsShared ==
  ASSUME SyncTyped, SyncTyped', ClientsInv', NEW c \in Clients, Receive(c)
  PROVE  [Shared!Next]_(Shared!sharedVars)
<1>1. /\ conn' = conn /\ up' = up /\ value' = value /\ owner' = owner /\ Members' = Members
      /\ roomHost' = roomHost
  BY DEF Receive, hubVars, electionVars, memberVars, roleVars, stateVars, entryVars, Members
<1>2. ASSUME NEW d \in Clients, d # c
      PROVE  SeesTheSame(d)
  <2>1. hostView'[d] = hostView[d] /\ copy'[d] = copy[d] /\ lost'[d] = lost[d]
    BY <1>2 DEF Receive, SyncTyped, ClientsTyped
  <2>2. conn[d] \in Members => down'[conn[d]] = down[conn[d]]
    BY <1>2, ElectionConstants DEF Receive, SyncTyped, OneClientEach, ChannelsTyped, Members
  <2> QED
    BY <1>1, <2>1, <2>2, NothingHappens
<1>3. /\ \A j \in Keys : InEffect(c, j)' = InEffect(c, j)
      /\ HostInEffect(c)' = HostInEffect(c)
  BY ReadingAFrame
<1>4. lost'[c] = lost[c] \/ \E k \in Keys : lost'[c] = lost[c] \ {k}
  <2>1. Head(down[conn[c]]) \in Frames
    BY HeadThenTail DEF Receive, SyncTyped, ClientsTyped, ChannelsTyped
  <2>2. PICK m : m = Head(down[conn[c]])
    OBVIOUS
  <2>3. m.type = "STATE" => m.key \in Keys
    BY <2>1, <2>2, FramesAreTwoKinds DEF StateFrames
  <2>4. \/ lost' = lost
        \/ m.key \in Keys /\ lost' = [lost EXCEPT ![c] = lost[c] \ {m.key}]
    BY <2>2, <2>3 DEF Receive
  <2> QED
    BY <2>4 DEF SyncTyped, ClientsTyped
<1>5. CASE conn[c] \notin Members \/ Unsure(c)' = Unsure(c)
  <2>1. SeesTheSame(c)
    BY <1>1, <1>3, <1>5, SameView
  <2> QED
    BY <1>1, <1>2, <2>1, Stutters
<1>6. CASE conn[c] \in Members /\ Unsure(c)' # Unsure(c)
  <2>1. c \in Inside /\ c \in Inside' /\ Inside' = Inside
    BY <1>1, <1>6 DEF Inside
  <2>2. \A j \in Keys : j \in Unsure(c)' <=> owner[j] = conn[c] \/ Pending(conn[c], j) \/ j \in lost'[c]
    BY <1>1 DEF Unsure, Pending
  <2>3. PICK k \in Keys : lost'[c] = lost[c] \ {k}
    BY <1>4, <1>6, <2>2 DEF Unsure
  <2>4. k \in Unsure(c) /\ Unsure(c)' = Unsure(c) \ {k}
    BY <1>6, <2>3, <2>2 DEF Unsure
  <2>5. /\ Doubts'[c] = Doubts[c] \ {k} /\ k \in Doubts[c] /\ k \notin Doubts'[c]
        /\ Seen[c] = [j \in Keys |-> InEffect(c, j)]
        /\ Seen'[c] = [j \in Keys |-> InEffect(c, j)']
        /\ SeenHost'[c] = SeenHost[c]
    BY <1>3, <2>1, <2>4, Views
  <2>6. Seen'[c] = Seen[c]
    BY <1>3, <2>5, Zenon
  <2>7. \A d \in Clients : d # c => /\ Seen'[d] = Seen[d] /\ SeenHost'[d] = SeenHost[d]
                                    /\ Doubts'[d] = Doubts[d]
    BY <1>2 DEF SeesTheSame
  <2>8. Seen' = Seen
    <3>1. \A d \in Clients : Seen'[d] = Seen[d]
      BY <2>6, <2>7
    <3> QED
      BY <3>1, ViewsAreFunctions, Zenon
  <2>9. SeenHost' = SeenHost
    <3>1. \A d \in Clients : SeenHost'[d] = SeenHost[d]
      BY <2>5, <2>7
    <3> QED
      BY <3>1, ViewsAreFunctions, Zenon
  <2>10. Doubts' = [Doubts EXCEPT ![c] = @ \ {k}]
    BY <2>5, <2>7, ViewsAreFunctions
  <2>11. k \in Held => Seen'[c][k] = value[k]
    <3>1. ASSUME k \in Held PROVE InEffect(c, k)' = value'[k]
      <4>1. k \in Held' /\ k \notin Unsure(c)' /\ ClientInv(c)' /\ conn'[c] \in Members'
        BY <1>1, <1>6, <2>4, <3>1 DEF Held, ClientsInv
      <4> QED
        BY <4>1, SureIsRight
    <3> QED
      BY <1>1, <2>4, <2>5, <3>1
  <2>12. Shared!Settle(c, k)
    <3>1. Shared!Held = Held
      BY DEF Shared!Held, Held
    <3> QED
      BY <1>1, <2>1, <2>5, <2>8, <2>9, <2>10, <2>11, <3>1 DEF Shared!Settle
  <2> QED
    BY <2>1, <2>12 DEF Shared!Next
<1> QED
  BY <1>5, <1>6

LEMMA LeavingIsShared ==
  ASSUME SyncTyped, SyncTyped', NEW c \in Clients, LoseSocket(c) \/ LeaveRoom(c)
  PROVE  [Shared!Next]_(Shared!sharedVars)
<1>1. /\ Unplugged(c) /\ up' = up /\ value' = value /\ owner' = owner /\ Members' = Members
      /\ roomHost' = roomHost
  BY DEF LoseSocket, LeaveRoom, Unplugged, hubVars, electionVars, memberVars, roleVars, stateVars,
         entryVars, Members
<1>2. ASSUME NEW d \in Clients, d # c
      PROVE  SeesTheSame(d)
  <2>1. /\ conn'[d] = conn[d] /\ hostView'[d] = hostView[d]
        /\ copy'[d] = copy[d] /\ lost'[d] = lost[d]
    BY <1>2 DEF LoseSocket, LeaveRoom, Unplugged, SyncTyped, ClientsTyped
  <2>2. conn[d] \in Members => down'[conn[d]] = down[conn[d]]
    BY <1>1, <1>2, ElectionConstants
       DEF Unplugged, SyncTyped, OneClientEach, ChannelsTyped, Members
  <2> QED
    BY <1>1, <2>1, <2>2, NothingHappens
<1>3. conn'[c] = NoPeer /\ NoPeer \notin Members'
  BY <1>1, ElectionConstants DEF Unplugged, SyncTyped, ClientsTyped, Members
<1>4. CASE conn[c] \notin Members
  <2>1. SeesTheSame(c)
    BY <1>1, <1>3, <1>4, SameView
  <2> QED
    BY <1>1, <1>2, <2>1, Stutters
<1>5. CASE conn[c] \in Members
  <2>1. c \in Inside /\ c \notin Inside' /\ Inside' = Inside \ {c} /\ {c} \in SUBSET Inside
    BY <1>2, <1>3, <1>5 DEF Inside, SeesTheSame
  <2>2. \A d \in Inside' : Seen'[d] = Seen[d] /\ SeenHost'[d] = SeenHost[d] /\ Doubts'[d] = Doubts[d]
    BY <1>2, <2>1, ViewsAreFunctions DEF SeesTheSame
  <2>3. /\ Seen' = [d \in Clients |-> IF d \in Inside' THEN Seen[d] ELSE Empty]
        /\ Doubts' = [d \in Clients |-> IF d \in Inside' THEN Doubts[d] ELSE {}]
    BY <2>2, Views, ViewsAreFunctions
  <2>4. \A d \in Inside' : Seen[d] = [k \in Keys |-> Seen[d][k]]
    BY <2>1, Views
  <2>5. \A d \in Inside' : [k \in Keys |-> IF k \in {} THEN NoValue ELSE Seen[d][k]] = Seen[d]
    BY <2>4
  <2>6. Shared!HostSeen
    <3>1. roomHost' \in Peers \cup {NoPeer}
      BY DEF SyncTyped, HubInv, TypeInv, ElectionTypeOK
    <3>2. \A d \in Inside' : d \in Inside
      BY <2>1
    <3> QED
      BY <1>1, <2>2, <3>1, <3>2, HostIsSeen
  <2>7. value' = [k \in Keys |-> IF k \in {} THEN NoValue ELSE value[k]]
    BY <1>1 DEF SyncTyped, HubInv, EntryInv, EntriesTyped
  <2>8. Shared!Leave({c}, {})
    <3>1. Shared!Nothing = Empty
      BY DEF Shared!Nothing, Empty
    <3>2. Seen' = [d \in Clients |->
            IF d \in Inside' THEN [k \in Keys |-> IF k \in {} THEN NoValue ELSE Seen[d][k]]
            ELSE Empty]
      BY <2>3, <2>5
    <3> QED
      BY <2>1, <2>3, <2>6, <2>7, <3>1, <3>2 DEF Shared!Leave
  <2> QED
    BY <2>1, <2>8 DEF Shared!Next
<1> QED
  BY <1>4, <1>5

\* The clients that hold a socket: one at most.
Holders(p) == {c \in Clients : conn[c] = p}

LEMMA OneHolder ==
  ASSUME SyncTyped, NEW p \in Members
  PROVE  /\ Holders(p) \in SUBSET Inside
         /\ \A c, d \in Holders(p) : c = d
         /\ p \in Peers /\ p # NoPeer
  BY ElectionConstants DEF Holders, Inside, Members, SyncTyped, OneClientEach

\* A write that is dealt with is a doubt about its key no more, or still; it is nobody
\* else's, and about no other key.
LEMMA DoubtsAfterHandleState ==
  ASSUME SyncTyped, NEW p \in Peers, HandleState(p), NEW k, k = Head(up[p]).key
  PROVE  /\ Inside' = Inside
         /\ \A c \in Holders(p) : k \in Unsure(c)
         /\ \A c \in Inside : \A j \in Keys \ {k} :
              owner'[j] = owner[j] => (j \in Unsure(c)' <=> j \in Unsure(c))
         /\ \A c \in Inside :
              owner'[k] \in {owner[k], p, NoPeer} => (k \in Unsure(c)' => k \in Unsure(c))
         /\ \A c \in Holders(p) : owner'[k] = p => k \in Unsure(c)'
         /\ \A c \in Inside \ Holders(p) :
              owner'[k] = owner[k] => (k \in Unsure(c)' <=> k \in Unsure(c))
<1>1. /\ conn' = conn /\ lost' = lost /\ Members' = Members /\ p \in Members /\ up[p] # <<>>
      /\ up'[p] = Tail(up[p]) /\ \A q \in Peers \ {p} : up'[q] = up[q]
  BY DEF HandleState, SetState, hubVars, electionVars, memberVars, Members, SyncTyped, ChannelsTyped
<1>2. k \in Keys
  BY <1>1, OldestFrame DEF SyncTyped
<1>3. /\ Pending(p, k)
      /\ \A j \in Keys : Pending(p, j)' => Pending(p, j)
      /\ \A j \in Keys \ {k} : Pending(p, j) => Pending(p, j)'
  BY <1>1, PendingAfterFirst DEF SyncTyped
<1>4. \A c \in Inside : c \in Clients /\ conn[c] \in Peers /\ conn[c] # NoPeer
  BY ElectionConstants DEF Inside, Members
<1>5. \A c \in Inside \ Holders(p) : \A j \in Keys : Pending(conn[c], j)' <=> Pending(conn[c], j)
  BY <1>1, <1>4 DEF Pending, Holders
<1>6. Inside' = Inside
  BY <1>1 DEF Inside
<1>7. \A c \in Clients : \A j \in Keys :
        /\ j \in Unsure(c) <=> owner[j] = conn[c] \/ Pending(conn[c], j) \/ j \in lost[c]
        /\ j \in Unsure(c)' <=> owner'[j] = conn[c] \/ Pending(conn[c], j)' \/ j \in lost[c]
  BY <1>1 DEF Unsure, Pending
<1>8. \A c \in Holders(p) : c \in Clients /\ conn[c] = p
  BY DEF Holders
<1>9. \A c \in Inside \ Holders(p) : conn[c] # p
  BY <1>4 DEF Holders
<1>10. \A c \in Inside : \A j \in Keys \ {k} : Pending(conn[c], j)' <=> Pending(conn[c], j)
  BY <1>1, <1>3, <1>5, <1>8
<1>11. \A c \in Inside : Pending(conn[c], k)' => Pending(conn[c], k)
  BY <1>1, <1>2, <1>3, <1>5, <1>8
<1>12. \A c \in Holders(p) : k \in Unsure(c) /\ (owner'[k] = p => k \in Unsure(c)')
  BY <1>2, <1>3, <1>7, <1>8
<1>13. ASSUME NEW c \in Inside, owner'[k] \in {owner[k], p, NoPeer}, k \in Unsure(c)'
       PROVE  k \in Unsure(c)
  BY <1>2, <1>4, <1>7, <1>9, <1>11, <1>12, <1>13
<1>14. \A c \in Inside : \A j \in Keys \ {k} :
         owner'[j] = owner[j] => (j \in Unsure(c)' <=> j \in Unsure(c))
  BY <1>4, <1>7, <1>10
<1>15. \A c \in Inside \ Holders(p) :
         owner'[k] = owner[k] => (k \in Unsure(c)' <=> k \in Unsure(c))
  BY <1>2, <1>4, <1>5, <1>7
<1> QED
  BY <1>6, <1>12, <1>13, <1>14, <1>15

LEMMA AcceptingIsShared ==
  ASSUME SyncTyped, SyncTyped', NEW p \in Peers, HandleState(p), NEW m, m = Head(up[p]),
         SetState(p, m.key, m.value), Send(<<m>>, Heard(Members \ {p}))
  PROVE  [Shared!Next]_(Shared!sharedVars)
<1> DEFINE by == Holders(p)
           k == m.key
           v == m.value
<1>1. /\ conn' = conn /\ hostView' = hostView /\ copy' = copy /\ lost' = lost
      /\ Members' = Members /\ roomHost' = roomHost /\ p \in Members /\ up[p] # <<>>
  BY DEF HandleState, SetState, hubVars, electionVars, memberVars, roleVars, Members
<1>2. k \in Keys /\ v \in Values \cup {NoValue} /\ m \in Frames /\ m.type = "STATE"
  <2>1. m \in StateFrames /\ k \in Keys /\ v \in Values \cup {NoValue}
    BY <1>1, OldestFrame DEF SyncTyped
  <2> QED
    BY <2>1, FramesAreTwoKinds DEF StateFrames
<1> HIDE DEF k, v
<1>3. /\ value'[k] = v /\ owner'[k] \in {p, NoPeer} /\ (v # NoValue => owner'[k] = p)
      /\ \A j \in Keys \ {k} : value'[j] = value[j] /\ owner'[j] = owner[j]
  BY <1>2, WriteReachesOneKey DEF SyncTyped, HubInv, EntryInv, k, v
<1>4. value' = [value EXCEPT ![k] = v]
  BY <1>2, <1>3 DEF SyncTyped, HubInv, EntryInv, EntriesTyped
<1>5. /\ Inside' = Inside /\ by \in SUBSET Inside /\ \A c, d \in by : c = d
      /\ \A c \in by : k \in Unsure(c)
      /\ \A c \in Inside : \A j \in Keys \ {k} : j \in Unsure(c)' <=> j \in Unsure(c)
      /\ \A c \in Inside : k \in Unsure(c)' => k \in Unsure(c)
      /\ v # NoValue => \A c \in by : k \in Unsure(c)'
  BY <1>1, <1>3, OneHolder, DoubtsAfterHandleState DEF k
<1>6. ASSUME NEW c \in Inside \ by
      PROVE  /\ \A j \in Keys : InEffect(c, j)' = IF j = k THEN v ELSE InEffect(c, j)
             /\ HostInEffect(c)' = HostInEffect(c)
  <2>1. c \in Clients /\ conn[c] \in Members /\ conn[c] # p
    BY DEF Inside, Holders
  <2>2. down'[conn[c]] = down[conn[c]] \o <<m>>
    BY <2>1 DEF Send, Heard, Members, SyncTyped, ChannelsTyped
  <2>3. /\ <<m>> \in Seq(Frames)
        /\ \A j, old : Applied(<<m>>, j, old) = IF j = k THEN v ELSE old
        /\ \A old : Latest(<<m>>, <<>>, old) = old
    BY <1>2, OneStateFrame DEF k, v
  <2>4. /\ \A j \in Keys : InEffect(c, j)' = Applied(<<m>>, j, InEffect(c, j))
        /\ HostInEffect(c)' = Latest(<<m>>, <<>>, HostInEffect(c))
    BY <1>1, <2>1, <2>2, <2>3, EffectOfMessages
  <2> QED
    BY <2>3, <2>4
<1>7. ASSUME NEW c \in by
      PROVE  /\ \A j \in Keys : InEffect(c, j)' = InEffect(c, j)
             /\ HostInEffect(c)' = HostInEffect(c)
  <2>1. conn[c] = p /\ p \notin Heard(Members \ {p})
    BY DEF Holders, Heard
  <2>2. down'[p] = down[p]
    BY <2>1 DEF Send, SyncTyped, ChannelsTyped
  <2> QED
    BY <1>1, <2>1, <2>2 DEF InEffect, HostInEffect
<1> HIDE DEF by
<1>8. Seen' = [c \in Clients |->
        IF c \in Inside \ by THEN [Seen[c] EXCEPT ![k] = v] ELSE Seen[c]]
  <2>1. ASSUME NEW c \in Clients
        PROVE  Seen'[c] = IF c \in Inside \ by THEN [Seen[c] EXCEPT ![k] = v] ELSE Seen[c]
    <3>1. CASE c \in Inside \ by
      <4>1. /\ Seen[c] = [j \in Keys |-> InEffect(c, j)]
            /\ Seen'[c] = [j \in Keys |-> InEffect(c, j)']
        BY <1>5, <3>1, Views
      <4> QED
        BY <1>6, <3>1, <4>1
    <3>2. CASE c \in by
      <4>1. /\ Seen[c] = [j \in Keys |-> InEffect(c, j)]
            /\ Seen'[c] = [j \in Keys |-> InEffect(c, j)']
        BY <1>5, <3>2, Views
      <4> QED
        BY <1>7, <3>2, <4>1, Zenon
    <3>3. CASE c \notin Inside
      BY <1>5, <3>3, Views
    <3> QED
      BY <3>1, <3>2, <3>3
  <2> QED
    BY <2>1, ViewsAreFunctions, Zenon
<1>9. SeenHost' = SeenHost
  <2>1. ASSUME NEW c \in Clients PROVE SeenHost'[c] = SeenHost[c]
    <3>1. CASE c \in Inside
      <4>1. SeenHost[c] = HostInEffect(c) /\ SeenHost'[c] = HostInEffect(c)'
        BY <1>5, <3>1, Views
      <4> QED
        BY <1>6, <1>7, <3>1, <4>1
    <3>2. CASE c \notin Inside
      BY <1>5, <3>2, Views
    <3> QED
      BY <3>1, <3>2
  <2> QED
    BY <2>1, ViewsAreFunctions, Zenon
<1>10. \E sure \in [Clients -> SUBSET {k}] :
         /\ v # NoValue => \A c \in by : sure[c] = {}
         /\ Doubts' = [c \in Clients |-> Doubts[c] \ sure[c]]
  <2> DEFINE sure == [c \in Clients |-> Doubts[c] \ Doubts'[c]]
  <2>1. /\ \A c \in Inside : Doubts[c] = Unsure(c) /\ Doubts'[c] = Unsure(c)'
        /\ \A c \in Clients \ Inside : Doubts[c] = {} /\ Doubts'[c] = {}
        /\ \A c \in Inside : Unsure(c) \subseteq Keys /\ Unsure(c)' \subseteq Keys
    BY <1>5, Views DEF Unsure
  <2>2. \A c \in Inside : Unsure(c) \ Unsure(c)' \subseteq {k} /\ Unsure(c)' \subseteq Unsure(c)
    BY <1>5, <2>1
  <2>3. \A c \in Clients : Doubts[c] \ Doubts'[c] \subseteq {k} /\ Doubts'[c] \subseteq Doubts[c]
    BY <2>1, <2>2
  <2>4. sure \in [Clients -> SUBSET {k}]
    BY <2>3
  <2>5. v # NoValue => \A c \in by : sure[c] = {}
    <3> SUFFICES ASSUME v # NoValue, NEW c \in by PROVE Doubts[c] \ Doubts'[c] = {}
      BY <1>5, ViewsAreFunctions
    <3>1. k \in Unsure(c)' /\ c \in Inside
      BY <1>5
    <3> QED
      BY <2>1, <2>2, <3>1
  <2>6. Doubts' = [c \in Clients |-> Doubts[c] \ sure[c]]
    <3>1. \A c \in Clients : Doubts'[c] = Doubts[c] \ sure[c]
      BY <2>3
    <3> QED
      BY <3>1, ViewsAreFunctions, Zenon
  <2> HIDE DEF sure
  <2> QED
    BY <2>4, <2>5, <2>6
<1>11. \A c \in by : k \in Doubts[c]
  BY <1>5, Views
<1>12. Shared!Change(k, v, by)
  BY <1>1, <1>4, <1>5, <1>8, <1>9, <1>10, <1>11 DEF Shared!Change
<1> QED
  BY <1>2, <1>5, <1>12 DEF Shared!Next, Shared!Content

LEMMA RefusingIsShared ==
  ASSUME SyncTyped, NEW p \in Peers, HandleState(p), NEW k, k = Head(up[p]).key,
         Correction(p, k), UNCHANGED hubVars
  PROVE  [Shared!Next]_(Shared!sharedVars)
<1>1. /\ conn' = conn /\ hostView' = hostView /\ copy' = copy /\ lost' = lost
      /\ Members' = Members /\ roomHost' = roomHost /\ value' = value /\ owner' = owner
      /\ p \in Members /\ up[p] # <<>> /\ \A q \in Peers \ {p} : up'[q] = up[q]
  BY DEF HandleState, hubVars, electionVars, memberVars, roleVars, stateVars, entryVars, Members,
         SyncTyped, ChannelsTyped
<1>2. k \in Keys
  BY <1>1, OldestFrame DEF SyncTyped
<1>3. ASSUME NEW d \in Clients, conn[d] # p
      PROVE  SeesTheSame(d)
  <2>1. conn[d] \in Members => up'[conn[d]] = up[conn[d]] /\ down'[conn[d]] = down[conn[d]]
    BY <1>1, <1>3 DEF Correction, Send, Heard, Members, SyncTyped, ChannelsTyped
  <2> QED
    BY <1>1, <2>1, NothingHappens
<1>4. CASE \A c \in Clients : conn[c] # p
  BY <1>1, <1>3, <1>4, Stutters
<1>5. ASSUME NEW c \in Clients, conn[c] = p
      PROVE  Shared!Settle(c, k) /\ c \in Inside
  <2>1. c \in Inside /\ c \in Holders(p) /\ Inside' = Inside /\ c \in Inside'
    BY <1>1, <1>5 DEF Inside, Holders
  <2>2. k \in Unsure(c) /\ \A j \in Keys \ {k} : j \in Unsure(c)' <=> j \in Unsure(c)
    BY <1>1, <2>1, DoubtsAfterHandleState
  <2>3. /\ \A j \in Keys : InEffect(c, j)' = IF j = k THEN value[k] ELSE InEffect(c, j)
        /\ HostInEffect(c)' = HostInEffect(c)
    <3> DEFINE m == StateMsg(k, value[k])
    <3>1. down'[p] = down[p] \o <<m>>
      <4>1. p \in Heard({p})
        BY <1>5 DEF Heard, SyncTyped, ChannelsTyped
      <4> QED
        BY <4>1 DEF Correction, Send
    <3>2. m \in Frames /\ m.type = "STATE" /\ m.key = k /\ m.value = value[k]
      BY <1>2 DEF StateMsg, Frames, SyncTyped, HubInv, EntryInv, EntriesTyped
    <3> HIDE DEF m
    <3>3. /\ <<m>> \in Seq(Frames)
          /\ \A j, old : Applied(<<m>>, j, old) = IF k = j THEN value[k] ELSE old
          /\ \A old : Latest(<<m>>, <<>>, old) = old
      BY <3>2, OneStateFrame
    <3>4. /\ \A j \in Keys : InEffect(c, j)' = Applied(<<m>>, j, InEffect(c, j))
          /\ HostInEffect(c)' = Latest(<<m>>, <<>>, HostInEffect(c))
      BY <1>1, <1>5, <3>1, <3>3, EffectOfMessages
    <3> QED
      BY <3>3, <3>4
  <2>4. /\ Seen[c] = [j \in Keys |-> InEffect(c, j)]
        /\ Seen'[c] = [j \in Keys |-> InEffect(c, j)']
        /\ SeenHost[c] = HostInEffect(c) /\ SeenHost'[c] = HostInEffect(c)'
        /\ Doubts[c] = Unsure(c) /\ Doubts'[c] = Unsure(c)'
    BY <2>1, Views
  <2>5. Seen'[c] = [Seen[c] EXCEPT ![k] = value[k]]
    BY <2>3, <2>4
  <2>6. \A d \in Clients : d # c => /\ Seen'[d] = Seen[d] /\ SeenHost'[d] = SeenHost[d]
                                    /\ Doubts'[d] = Doubts[d]
    BY <1>1, <1>3, <1>5, ElectionConstants DEF SeesTheSame, SyncTyped, OneClientEach, Members
  <2>7. SeenHost' = SeenHost
    <3>1. \A d \in Clients : SeenHost'[d] = SeenHost[d]
      BY <2>3, <2>4, <2>6
    <3> QED
      BY <3>1, ViewsAreFunctions, Zenon
  <2>8. Seen' = [Seen EXCEPT ![c][k] = value[k]]
    <3>1. Seen' = [Seen EXCEPT ![c] = Seen'[c]]
      BY <2>6, ViewsAreFunctions
    <3> QED
      BY <2>5, <3>1
  <2>9. \E sure \in SUBSET {k} : Doubts' = [Doubts EXCEPT ![c] = @ \ sure]
    <3> DEFINE sure == {k} \ Unsure(c)'
    <3>1. Unsure(c)' = Unsure(c) \ sure
      BY <2>2 DEF Unsure
    <3>2. Doubts'[c] = Doubts[c] \ sure
      BY <2>4, <3>1
    <3> HIDE DEF sure
    <3>3. Doubts' = [Doubts EXCEPT ![c] = @ \ sure]
      BY <2>6, <3>2, ViewsAreFunctions
    <3>4. sure \in SUBSET {k}
      BY DEF sure
    <3> QED
      BY <3>3, <3>4
  <2>10. Seen'[c][k] = value[k]
    BY <1>2, <2>3, <2>4
  <2>11. k \in Doubts[c]
    BY <2>2, <2>4
  <2> QED
    BY <1>1, <2>1, <2>7, <2>8, <2>9, <2>10, <2>11 DEF Shared!Settle
<1>6. CASE \E c \in Clients : conn[c] = p
  BY <1>2, <1>5, <1>6 DEF Shared!Next
<1> QED
  BY <1>4, <1>6

LEMMA DroppingIsShared ==
  ASSUME SyncTyped, NEW p \in Peers, DropOverBudget(p)
  PROVE  [Shared!Next]_(Shared!sharedVars)
<1>1. /\ conn' = conn /\ hostView' = hostView /\ copy' = copy /\ down' = down
      /\ value' = value /\ owner' = owner /\ Members' = Members /\ roomHost' = roomHost
      /\ \A d \in Clients :
           lost'[d] = IF conn[d] = p THEN lost[d] \cup {Head(up[p]).key} ELSE lost[d]
      /\ up[p] # <<>> /\ up'[p] = Tail(up[p])
  BY DEF DropOverBudget, hubVars, electionVars, memberVars, roleVars, stateVars, entryVars, Members,
         SyncTyped, ChannelsTyped
<1>2. ASSUME NEW d \in Clients, conn[d] # p
      PROVE  SeesTheSame(d)
  <2>1. conn[d] \in Members => up'[conn[d]] = up[conn[d]]
    BY <1>2 DEF DropOverBudget, SyncTyped, ChannelsTyped, Members
  <2> QED
    BY <1>1, <1>2, <2>1, NothingHappens
<1>3. ASSUME NEW d \in Clients, conn[d] = p
      PROVE  SeesTheSame(d)
  <2>1. /\ Pending(p, Head(up[p]).key)
        /\ \A k \in Keys : Pending(p, k)' => Pending(p, k)
        /\ \A k \in Keys : k # Head(up[p]).key => (Pending(p, k) => Pending(p, k)')
    BY <1>1, PendingAfterFirst DEF SyncTyped
  <2>2. Unsure(d)' = Unsure(d)
    <3>1. \A k \in Keys : /\ k \in Unsure(d) <=> owner[k] = p \/ Pending(p, k) \/ k \in lost[d]
                          /\ k \in Unsure(d)' <=> owner[k] = p \/ Pending(p, k)' \/ k \in lost'[d]
      BY <1>1, <1>3 DEF Unsure, Pending
    <3>2. \A k \in Keys : k \in Unsure(d)' <=> k \in Unsure(d)
      BY <1>1, <1>3, <2>1, <3>1
    <3> QED
      BY <3>2 DEF Unsure
  <2>3. (\A k \in Keys : InEffect(d, k)' = InEffect(d, k)) /\ HostInEffect(d)' = HostInEffect(d)
    BY <1>1 DEF InEffect, HostInEffect
  <2> QED
    BY <1>1, <2>2, <2>3, SameView
<1> QED
  BY <1>1, <1>2, <1>3, Stutters

LEMMA ClosingIsShared ==
  ASSUME SyncTyped, SyncTyped', NEW p \in Peers, SocketClosed(p)
  PROVE  [Shared!Next]_(Shared!sharedVars)
<1> DEFINE S == IF Members = {p} THEN Held ELSE Gripped(p)
<1>1. /\ conn' = conn /\ hostView' = hostView /\ copy' = copy /\ lost' = lost
      /\ Members' = Members \ {p} /\ p \in Members
  BY DEF SocketClosed, HubDisconnect, Disconnect, Members, SyncTyped, HubInv, TypeInv, ElectionTypeOK
<1>2. roomHost' \in Peers \cup {NoPeer}
  BY DEF SyncTyped, HubInv, TypeInv, ElectionTypeOK
<1>3. Inside' = Inside \ Holders(p) /\ Holders(p) \in SUBSET Inside /\ S \in SUBSET Held
  BY <1>1 DEF Inside, Holders, Gripped
<1>4. /\ \A k \in Keys : value'[k] = IF k \in S THEN NoValue ELSE value[k]
      /\ Members # {p} => \A k \in Keys : owner'[k] = IF k \in S THEN NoPeer ELSE owner[k]
  <2>1. CASE Members = {p}
    BY <2>1 DEF SocketClosed, HubDisconnect, DropRoomState, Held
  <2>2. CASE Members # {p} /\ Gripped(p) # {}
    BY <2>2 DEF SocketClosed, HubDisconnect, DelEntries
  <2>3. CASE Members # {p} /\ Gripped(p) = {}
    BY <2>3 DEF SocketClosed, HubDisconnect, entryVars
  <2> QED
    BY <2>1, <2>2, <2>3
<1>5. value' = [k \in Keys |-> IF k \in S THEN NoValue ELSE value[k]]
  BY <1>4 DEF SyncTyped, HubInv, EntryInv, EntriesTyped
<1>6. ASSUME NEW c \in Inside'
      PROVE  /\ c \in Inside /\ Members # {p} /\ S = Gripped(p)
             /\ \A k \in Keys : InEffect(c, k)' = IF k \in S THEN NoValue ELSE InEffect(c, k)
             /\ HostInEffect(c)' =
                  IF roomHost' \in {roomHost, NoPeer} THEN HostInEffect(c) ELSE roomHost'
             /\ Unsure(c)' = Unsure(c)
  <2>1. /\ c \in Clients /\ c \in Inside /\ conn[c] \in Members /\ conn[c] # p
        /\ conn[c] \in Peers /\ conn[c] # NoPeer
    BY <1>1, <1>3, ElectionConstants DEF Inside, Holders, Members
  <2>2. Members # {p} /\ S = Gripped(p)
    BY <2>1
  <2>3. down'[conn[c]] = down[conn[c]] \o CloseNews(p) /\ up'[conn[c]] = up[conn[c]]
    BY <2>1 DEF SocketClosed, Send, Heard, SyncTyped, ChannelsTyped
  <2>4. /\ CloseNews(p) \in Seq(Frames)
        /\ \A k \in Keys : \A old :
             Applied(CloseNews(p), k, old) = IF k \in Gripped(p) THEN NoValue ELSE old
        /\ \A old : Latest(CloseNews(p), <<>>, old) =
             IF roomHost' \in {roomHost, NoPeer} THEN old ELSE roomHost'
    BY <1>2, CloseNewsIsTrue
  <2>5. /\ \A k \in Keys : InEffect(c, k)' = Applied(CloseNews(p), k, InEffect(c, k))
        /\ HostInEffect(c)' = Latest(CloseNews(p), <<>>, HostInEffect(c))
    BY <1>1, <2>1, <2>3, <2>4, EffectOfMessages
  <2>6. \A k \in Keys : owner'[k] = conn[c] <=> owner[k] = conn[c]
    BY <1>4, <2>1, <2>2 DEF Gripped
  <2>7. Unsure(c)' = Unsure(c)
    BY <1>1, <2>3, <2>6 DEF Unsure, Pending
  <2> QED
    BY <2>1, <2>2, <2>4, <2>5, <2>7
<1> HIDE DEF S
<1>7. ASSUME NEW c \in Inside'
      PROVE  /\ Seen'[c] = [k \in Keys |-> IF k \in S THEN NoValue ELSE Seen[c][k]]
             /\ Doubts'[c] = Doubts[c]
             /\ SeenHost'[c] = IF roomHost' \in {roomHost, NoPeer} THEN SeenHost[c] ELSE roomHost'
  <2>1. /\ Seen[c] = [k \in Keys |-> InEffect(c, k)]
        /\ Seen'[c] = [k \in Keys |-> InEffect(c, k)']
        /\ SeenHost[c] = HostInEffect(c) /\ SeenHost'[c] = HostInEffect(c)'
        /\ Doubts[c] = Unsure(c) /\ Doubts'[c] = Unsure(c)'
    BY <1>6, Views
  <2>2. \A k \in Keys : InEffect(c, k)' = IF k \in S THEN NoValue ELSE Seen[c][k]
    BY <1>6, <2>1
  <2> QED
    BY <1>6, <2>1, <2>2
<1>8. Shared!HostSeen
  <2>1. \A c \in Inside' : SeenHost'[c] =
          IF c \notin Inside \/ roomHost' \notin {roomHost, NoPeer} THEN roomHost' ELSE SeenHost[c]
    BY <1>6, <1>7
  <2> QED
    BY <1>2, <2>1, HostIsSeen
<1>9. Seen' = [c \in Clients |->
        IF c \in Inside' THEN [k \in Keys |-> IF k \in S THEN NoValue ELSE Seen[c][k]] ELSE Empty]
  <2>1. \A c \in Clients : Seen'[c] =
          IF c \in Inside' THEN [k \in Keys |-> IF k \in S THEN NoValue ELSE Seen[c][k]] ELSE Empty
    BY <1>7, Views
  <2> QED
    BY <2>1, ViewsAreFunctions, Zenon
<1>10. Doubts' = [c \in Clients |-> IF c \in Inside' THEN Doubts[c] ELSE {}]
  <2>1. \A c \in Clients : Doubts'[c] = IF c \in Inside' THEN Doubts[c] ELSE {}
    BY <1>7, Views
  <2> QED
    BY <2>1, ViewsAreFunctions, Zenon
<1>11. /\ Shared!Nothing = Empty /\ Shared!Held = Held
  BY DEF Shared!Nothing, Shared!Held, Empty, Held
<1>12. Shared!Leave(Holders(p), S)
  BY <1>3, <1>5, <1>8, <1>9, <1>10, <1>11 DEF Shared!Leave
<1> QED
  BY <1>3, <1>11, <1>12 DEF Shared!Next

LEMMA AppointingIsShared ==
  ASSUME SyncTyped, SyncTyped', ReclaimTimer
  PROVE  [Shared!Next]_(Shared!sharedVars)
<1>1. /\ conn' = conn /\ hostView' = hostView /\ copy' = copy /\ up' = up /\ lost' = lost
      /\ Members' = Members /\ value' = value /\ owner' = owner
  BY DEF ReclaimTimer, HubExpireHostGrace, ExpireHostGrace, memberVars, stateVars, entryVars, Members
<1>2. /\ roomHost' \in Peers \cup {NoPeer} /\ HostNews \in Seq(Frames)
      /\ \A k, old : Applied(HostNews, k, old) = old
      /\ \A old : Latest(HostNews, <<>>, old) =
           IF roomHost' \in {roomHost, NoPeer} THEN old ELSE roomHost'
  BY HostNewsIsTrue DEF SyncTyped, HubInv, TypeInv, ElectionTypeOK
<1>3. Inside' = Inside
  BY <1>1 DEF Inside
<1>4. ASSUME NEW c \in Inside
      PROVE  /\ Seen'[c] = Seen[c] /\ Doubts'[c] = Doubts[c]
             /\ SeenHost'[c] = IF roomHost' \in {roomHost, NoPeer} THEN SeenHost[c] ELSE roomHost'
  <2>1. c \in Clients /\ conn[c] \in Members
    BY DEF Inside
  <2>2. down'[conn[c]] = down[conn[c]] \o HostNews
    BY <2>1 DEF ReclaimTimer, Send, Heard, Members, SyncTyped, ChannelsTyped
  <2>3. /\ \A k \in Keys : InEffect(c, k)' = Applied(HostNews, k, InEffect(c, k))
        /\ HostInEffect(c)' = Latest(HostNews, <<>>, HostInEffect(c))
    BY <1>1, <1>2, <2>1, <2>2, EffectOfMessages
  <2>4. Unsure(c)' = Unsure(c)
    BY <1>1 DEF Unsure, Pending
  <2>5. \A k \in Keys : InEffect(c, k)' = InEffect(c, k)
    BY <1>2, <2>3
  <2>6. /\ Seen[c] = [k \in Keys |-> InEffect(c, k)]
        /\ Seen'[c] = [k \in Keys |-> InEffect(c, k)']
        /\ SeenHost[c] = HostInEffect(c) /\ SeenHost'[c] = HostInEffect(c)'
        /\ Doubts[c] = Unsure(c) /\ Doubts'[c] = Unsure(c)'
    BY <1>3, Views
  <2>7. Seen'[c] = Seen[c]
    BY <2>5, <2>6, Zenon
  <2> QED
    BY <1>2, <2>3, <2>4, <2>6, <2>7
<1>5. Seen' = Seen
  <2>1. \A c \in Clients : Seen'[c] = Seen[c]
    BY <1>3, <1>4, Views
  <2> QED
    BY <2>1, ViewsAreFunctions, Zenon
<1>6. Doubts' = Doubts
  <2>1. \A c \in Clients : Doubts'[c] = Doubts[c]
    BY <1>3, <1>4, Views
  <2> QED
    BY <2>1, ViewsAreFunctions, Zenon
<1>7. Shared!HostSeen
  <2>1. \A c \in Inside' : SeenHost'[c] =
          IF c \notin Inside \/ roomHost' \notin {roomHost, NoPeer} THEN roomHost' ELSE SeenHost[c]
    BY <1>3, <1>4
  <2> QED
    BY <1>2, <2>1, HostIsSeen
<1> QED
  BY <1>1, <1>3, <1>5, <1>6, <1>7 DEF Shared!Appoint, Shared!Next

LEMMA RestartingIsShared ==
  ASSUME SyncTyped, Restart
  PROVE  [Shared!Next]_(Shared!sharedVars)
<1>1. Members' = {} /\ roomHost' = NoPeer /\ value' = Empty
  BY RestartForgetsTheRoom DEF Restart, DropRoomState, Empty, SyncTyped
<1>2. Inside' = {} /\ Inside' = Inside \ Inside
  BY <1>1 DEF Inside
<1>3. Shared!HostSeen
  BY <1>1, <1>2, HostIsSeen
<1>4. Seen' = [c \in Clients |->
        IF c \in Inside' THEN [k \in Keys |-> IF k \in Held THEN NoValue ELSE Seen[c][k]] ELSE Empty]
  <2>1. \A c \in Clients : Seen'[c] =
          IF c \in Inside' THEN [k \in Keys |-> IF k \in Held THEN NoValue ELSE Seen[c][k]] ELSE Empty
    BY <1>2, Views
  <2> QED
    BY <2>1, ViewsAreFunctions, Zenon
<1>5. Doubts' = [c \in Clients |-> IF c \in Inside' THEN Doubts[c] ELSE {}]
  <2>1. \A c \in Clients : Doubts'[c] = IF c \in Inside' THEN Doubts[c] ELSE {}
    BY <1>2, Views
  <2> QED
    BY <2>1, ViewsAreFunctions, Zenon
<1>6. value' = [k \in Keys |-> IF k \in Held THEN NoValue ELSE value[k]]
  BY <1>1 DEF Empty, Held
<1>7. Shared!Nothing = Empty /\ Shared!Held = Held
  BY DEF Shared!Nothing, Shared!Held, Empty, Held
<1>8. Shared!Leave(Inside, Held)
  BY <1>2, <1>3, <1>4, <1>5, <1>6, <1>7 DEF Shared!Leave
<1> QED
  BY <1>7, <1>8 DEF Shared!Next

LEMMA JoiningIsShared ==
  ASSUME SyncTyped, SyncTyped', NEW c \in Clients, NEW p \in Peers, Join(c, p)
  PROVE  [Shared!Next]_(Shared!sharedVars)
<1>1. /\ value' = value /\ owner' = owner /\ conn[c] = NoPeer /\ conn'[c] = p
      /\ up'[p] = <<>> /\ lost'[c] = {} /\ \A k \in Keys : owner'[k] # p
      /\ \A k \in Keys : InEffect(c, k)' = IF k \in Held THEN value[k] ELSE copy[c][k]
      /\ HostInEffect(c)' = roomHost'
  BY JoinerIsSentTheRoom
<1>2. roomHost' \in Peers \cup {NoPeer} /\ copy[c] \in [Keys -> Values \cup {NoValue}]
  BY DEF SyncTyped, HubInv, TypeInv, ElectionTypeOK, ClientsTyped, Content
<1>3. Members' = Members \cup {p}
  BY DEF Join, HubConnect, Connect, SyncTyped, HubInv, TypeInv, ElectionTypeOK, Members
<1>4. ASSUME NEW d \in Clients, d # c
      PROVE  /\ d \in Inside' <=> d \in Inside
             /\ Seen'[d] = Seen[d] /\ Doubts'[d] = Doubts[d]
             /\ d \in Inside' => SeenHost'[d] =
                  IF roomHost' \in {roomHost, NoPeer} THEN SeenHost[d] ELSE roomHost'
  <2>1. /\ conn'[d] = conn[d] /\ hostView'[d] = hostView[d] /\ copy'[d] = copy[d]
        /\ lost'[d] = lost[d] /\ JoinNews \in Seq(Frames)
        /\ \A k, old : Applied(JoinNews, k, old) = old
        /\ \A old : Latest(JoinNews, <<>>, old) =
             IF roomHost' \in {roomHost, NoPeer} THEN old ELSE roomHost'
        /\ conn[d] \in Members' => /\ conn[d] \in Members /\ up'[conn[d]] = up[conn[d]]
                                   /\ down'[conn[d]] = down[conn[d]] \o JoinNews
    BY <1>4, OthersHearOfTheHost DEF Tells
  <2>2. d \in Inside' <=> d \in Inside
    BY <1>3, <2>1, Views
  <2>3. CASE d \in Inside
    <3>1. conn[d] \in Members /\ conn[d] \in Members'
      BY <1>3, <2>3, Views
    <3>2. /\ \A k \in Keys : InEffect(d, k)' = Applied(JoinNews, k, InEffect(d, k))
          /\ HostInEffect(d)' = Latest(JoinNews, <<>>, HostInEffect(d))
      BY <2>1, <3>1, EffectOfMessages
    <3>3. \A k \in Keys : InEffect(d, k)' = InEffect(d, k)
      BY <2>1, <3>2
    <3>4. Unsure(d)' = Unsure(d)
      BY <1>1, <2>1, <3>1 DEF Unsure, Pending
    <3>5. /\ Seen[d] = [k \in Keys |-> InEffect(d, k)]
          /\ Seen'[d] = [k \in Keys |-> InEffect(d, k)']
          /\ SeenHost[d] = HostInEffect(d) /\ SeenHost'[d] = HostInEffect(d)'
          /\ Doubts[d] = Unsure(d) /\ Doubts'[d] = Unsure(d)'
      BY <2>2, <2>3, Views
    <3>6. Seen'[d] = Seen[d]
      BY <3>3, <3>5, Zenon
    <3> QED
      BY <2>1, <2>2, <3>2, <3>4, <3>5, <3>6
  <2>4. CASE d \notin Inside
    BY <2>2, <2>4, Views
  <2> QED
    BY <2>3, <2>4
<1>5. c \notin Inside /\ c \in Inside'
  BY <1>1, <1>3, ElectionConstants, Views DEF Members
<1>6. Inside' = Inside \cup {c}
  BY <1>4, <1>5, ViewsAreFunctions
<1>7. Doubts' = Doubts
  <2>1. Unsure(c)' = {}
    BY <1>1, EmptySeq DEF Unsure, Pending
  <2>2. Doubts'[c] = Doubts[c]
    BY <1>5, <2>1, Views
  <2>3. \A d \in Clients : Doubts'[d] = Doubts[d]
    BY <1>4, <2>2
  <2> QED
    BY <2>3, ViewsAreFunctions, Zenon
<1>8. Seen' = [Seen EXCEPT ![c] = [k \in Keys |-> IF k \in Held THEN value[k] ELSE copy[c][k]]]
  <2>1. Seen'[c] = [k \in Keys |-> InEffect(c, k)']
    BY <1>5, Views
  <2>2. Seen'[c] = [k \in Keys |-> IF k \in Held THEN value[k] ELSE copy[c][k]]
    BY <1>1, <2>1
  <2>3. Seen' = [Seen EXCEPT ![c] = Seen'[c]]
    BY <1>4, ViewsAreFunctions
  <2> QED
    BY <2>2, <2>3
<1>9. Shared!HostSeen
  <2>1. SeenHost'[c] = roomHost'
    BY <1>1, <1>5, Views
  <2>2. \A d \in Inside' : SeenHost'[d] =
          IF d \notin Inside \/ roomHost' \notin {roomHost, NoPeer} THEN roomHost' ELSE SeenHost[d]
    BY <1>4, <1>5, <1>6, <2>1, ViewsAreFunctions
  <2> QED
    BY <1>2, <2>2, HostIsSeen
<1>10. Shared!Content = Values \cup {NoValue} /\ Shared!Held = Held
  BY DEF Shared!Content, Shared!Held, Held
<1>11. Shared!Enter(c)
  BY <1>1, <1>2, <1>5, <1>6, <1>7, <1>8, <1>9, <1>10 DEF Shared!Enter
<1> QED
  BY <1>11 DEF Shared!Next

LEMMA SharedInit == SyncInit => Shared!Init
<1> SUFFICES ASSUME SyncInit PROVE Shared!Init
  OBVIOUS
<1>1. /\ value = Empty /\ roomHost = NoPeer /\ Members = {}
  BY ElectionConstants DEF SyncInit, HubInit, Init, StateInit, Empty, Members
<1>2. Inside = {}
  BY <1>1 DEF Inside
<1>3. /\ Seen = [c \in Clients |-> Empty] /\ Doubts = [c \in Clients |-> {}]
      /\ SeenHost = [c \in Clients |-> NoPeer]
  BY <1>2 DEF Seen, SeenHost, Doubts
<1>4. Shared!Nothing = Empty /\ Shared!Nobody = [c \in Clients |-> NoPeer]
  BY DEF Shared!Nothing, Shared!Nobody, Empty
<1> QED
  BY <1>1, <1>2, <1>3, <1>4 DEF Shared!Init

LEMMA StepsAreShared ==
  ASSUME SyncTyped, SyncTyped', ClientsInv', [SyncNext]_syncVars
  PROVE  [Shared!Next]_(Shared!sharedVars)
<1>1. CASE TimePasses \/ UNCHANGED syncVars
  <2>1. /\ conn' = conn /\ hostView' = hostView /\ copy' = copy /\ lost' = lost
        /\ up' = up /\ down' = down
        /\ value' = value /\ owner' = owner /\ Members' = Members /\ roomHost' = roomHost
    BY <1>1 DEF TimePasses, HubTick, Tick, syncVars, clientVars, hubVars, electionVars, memberVars,
                roleVars, stateVars, entryVars, Members
  <2>2. \A c \in Clients : SeesTheSame(c)
    BY <2>1, NothingHappens
  <2> QED
    BY <2>1, <2>2, Stutters
<1>2. ASSUME NEW p \in Peers, HandleState(p)
      PROVE  [Shared!Next]_(Shared!sharedVars)
  <2>1. PICK m : m = Head(up[p])
    OBVIOUS
  <2>2. \/ SetState(p, m.key, m.value) /\ Send(<<m>>, Heard(Members \ {p}))
        \/ Correction(p, m.key) /\ UNCHANGED hubVars
    BY <1>2, <2>1 DEF HandleState
  <2>3. CASE SetState(p, m.key, m.value) /\ Send(<<m>>, Heard(Members \ {p}))
    BY <1>2, <2>1, <2>3, AcceptingIsShared
  <2>4. CASE Correction(p, m.key) /\ UNCHANGED hubVars
    <3>1. PICK k : k = m.key
      OBVIOUS
    <3> QED
      BY <1>2, <2>1, <2>4, <3>1, RefusingIsShared
  <2> QED
    BY <2>2, <2>3, <2>4
<1> QED
  BY <1>1, <1>2, JoiningIsShared, WritingIsShared, ReadingIsShared, LeavingIsShared,
     DroppingIsShared, ClosingIsShared, AppointingIsShared, RestartingIsShared DEF SyncNext

\* The server, its clients, their copies and the frames between them keep the promise of
\* SharedRoom, through refusals, reconnects, dropped frames and restarts: what changes in
\* the room reaches everybody in the same order, and nobody sees anything else but of its
\* own making, on the keys it wrote itself.
THEOREM RoomIsShared == SyncSpec => ImplementsSharedRoom
<1>1. SyncTyped /\ (SyncTyped /\ ClientsInv)' /\ [SyncNext]_syncVars => [Shared!Next]_(Shared!sharedVars)
  BY StepsAreShared
<1> QED
  BY <1>1, SharedInit, SyncInvariant, PTL DEF SyncSpec, ImplementsSharedRoom, Shared!Spec

-----------------------------------------------------------------------------
(* What the promise of SharedRoom amounts to.                                  *)

LEMMA HostSeenIsKnown ==
  ASSUME Shared!TypeOK, Shared!HostKnown, Shared!HostSeen, Inside' \subseteq Clients
  PROVE  /\ Shared!HostKnown'
         /\ roomHost' \in Peers \cup {NoPeer} /\ SeenHost' \in [Clients -> Peers \cup {NoPeer}]
<1>1. /\ roomHost' \in Peers \cup {NoPeer}
      /\ SeenHost' = [c \in Clients |->
           IF c \notin Inside' THEN NoPeer
           ELSE IF c \notin Inside \/ roomHost' \notin {roomHost, NoPeer} THEN roomHost'
           ELSE SeenHost[c]]
  BY DEF Shared!HostSeen
<1>2. SeenHost \in [Clients -> Peers \cup {NoPeer}]
  BY DEF Shared!TypeOK
<1>3. SeenHost' \in [Clients -> Peers \cup {NoPeer}]
  BY <1>1, <1>2
<1>4. ASSUME NEW c \in Inside', roomHost' # NoPeer
      PROVE  SeenHost'[c] = roomHost'
  <2>1. CASE c \notin Inside \/ roomHost' \notin {roomHost, NoPeer}
    BY <1>1, <2>1
  <2>2. CASE c \in Inside /\ roomHost' = roomHost
    <3>1. SeenHost[c] = roomHost
      BY <1>4, <2>2 DEF Shared!HostKnown
    <3> QED
      BY <1>1, <1>4, <2>2, <3>1
  <2> QED
    BY <1>4, <2>1, <2>2
<1> QED
  BY <1>1, <1>3, <1>4 DEF Shared!HostKnown

LEMMA SharedStep ==
  ASSUME Shared!TypeOK, Shared!HostKnown, Shared!RoomKnown, Shared!Next
  PROVE  Shared!TypeOK' /\ Shared!HostKnown' /\ Shared!RoomKnown'
<1> USE DEF Shared!TypeOK
<1>1. ASSUME Shared!Appoint
      PROVE  Shared!TypeOK' /\ Shared!HostKnown' /\ Shared!RoomKnown'
  <2>1. Shared!HostSeen /\ UNCHANGED <<value, Inside, Seen, Doubts>>
    BY <1>1 DEF Shared!Appoint
  <2>2. Shared!RoomKnown'
    BY <2>1 DEF Shared!RoomKnown, Shared!Held
  <2> QED
    BY <2>1, <2>2, HostSeenIsKnown
<1>2. ASSUME NEW c \in Clients, Shared!Enter(c)
      PROVE  Shared!TypeOK' /\ Shared!HostKnown' /\ Shared!RoomKnown'
  <2>1. PICK own \in [Keys -> Shared!Content] :
          Seen' = [Seen EXCEPT ![c] =
                     [k \in Keys |-> IF k \in Shared!Held THEN value[k] ELSE own[k]]]
    BY <1>2 DEF Shared!Enter
  <2>2. /\ Inside' = Inside \cup {c} /\ Shared!HostSeen /\ value' = value /\ Doubts' = Doubts
    BY <1>2 DEF Shared!Enter
  <2>3. \A k \in Keys : (IF k \in Shared!Held THEN value[k] ELSE own[k]) \in Shared!Content
    BY DEF Shared!Content
  <2>4. Seen' \in [Clients -> [Keys -> Shared!Content]]
    BY <2>1, <2>3
  <2>5. Shared!RoomKnown'
    <3> SUFFICES ASSUME NEW d \in Inside', NEW k \in Keys, value'[k] # NoValue, k \notin Doubts'[d]
                 PROVE  Seen'[d][k] = value'[k]
      BY DEF Shared!RoomKnown, Shared!Held
    <3>1. CASE d = c
      BY <2>1, <2>2, <3>1 DEF Shared!Held
    <3>2. CASE d # c
      BY <2>1, <2>2, <3>2 DEF Shared!RoomKnown, Shared!Held
    <3> QED
      BY <3>1, <3>2
  <2> QED
    BY <2>2, <2>4, <2>5, HostSeenIsKnown
<1>3. ASSUME NEW C \in SUBSET Inside, NEW S \in SUBSET Shared!Held, Shared!Leave(C, S)
      PROVE  Shared!TypeOK' /\ Shared!HostKnown' /\ Shared!RoomKnown'
  <2>1. /\ Inside' = Inside \ C /\ Shared!HostSeen
        /\ value' = [k \in Keys |-> IF k \in S THEN NoValue ELSE value[k]]
        /\ Seen' = [c \in Clients |->
             IF c \in Inside' THEN [k \in Keys |-> IF k \in S THEN NoValue ELSE Seen[c][k]]
             ELSE Shared!Nothing]
        /\ Doubts' = [c \in Clients |-> IF c \in Inside' THEN Doubts[c] ELSE {}]
    BY <1>3 DEF Shared!Leave
  <2>2. NoValue \in Shared!Content /\ Shared!Nothing \in [Keys -> Shared!Content]
    BY DEF Shared!Content, Shared!Nothing
  <2>3. \A c \in Clients :
          [k \in Keys |-> IF k \in S THEN NoValue ELSE Seen[c][k]] \in [Keys -> Shared!Content]
    BY <2>2
  <2>4. /\ value' \in [Keys -> Shared!Content]
        /\ Seen' \in [Clients -> [Keys -> Shared!Content]]
    BY <2>1, <2>2, <2>3
  <2>5. Shared!RoomKnown'
    <3> SUFFICES ASSUME NEW d \in Inside', NEW k \in Keys, value'[k] # NoValue, k \notin Doubts'[d]
                 PROVE  Seen'[d][k] = value'[k]
      BY DEF Shared!RoomKnown, Shared!Held
    <3>1. k \notin S /\ value'[k] = value[k] /\ d \in Inside /\ d \in Clients
      BY <2>1
    <3>2. Seen'[d][k] = Seen[d][k] /\ k \notin Doubts[d]
      BY <2>1, <3>1
    <3> QED
      BY <3>1, <3>2 DEF Shared!RoomKnown, Shared!Held
  <2>6. Doubts' \in [Clients -> SUBSET Keys]
    BY <2>1
  <2> QED
    BY <2>1, <2>4, <2>5, <2>6, HostSeenIsKnown
<1>4. ASSUME NEW c \in Inside, NEW k \in Keys, NEW v \in Shared!Content, Shared!Write(c, k, v)
      PROVE  Shared!TypeOK' /\ Shared!HostKnown' /\ Shared!RoomKnown'
  <2>1. /\ UNCHANGED <<value, roomHost, Inside, SeenHost>>
        /\ Doubts' = [Doubts EXCEPT ![c] = Doubts[c] \cup {k}]
        /\ Seen' = Seen \/ Seen' = [Seen EXCEPT ![c] = [Seen[c] EXCEPT ![k] = v]]
    BY <1>4 DEF Shared!Write
  <2>2. Seen' \in [Clients -> [Keys -> Shared!Content]]
    <3>1. [Seen[c] EXCEPT ![k] = v] \in [Keys -> Shared!Content]
      OBVIOUS
    <3> QED
      BY <2>1, <3>1
  <2>3. Shared!RoomKnown'
    <3> SUFFICES ASSUME NEW d \in Inside', NEW j \in Keys, value'[j] # NoValue, j \notin Doubts'[d]
                 PROVE  Seen'[d][j] = value'[j]
      BY DEF Shared!RoomKnown, Shared!Held
    <3>1. d \in Inside /\ d \in Clients /\ j \notin Doubts[d] /\ (d = c => j # k)
      BY <2>1
    <3>2. Seen'[d][j] = Seen[d][j]
      BY <2>1, <3>1
    <3> QED
      BY <2>1, <3>1, <3>2 DEF Shared!RoomKnown, Shared!Held
  <2>4. Doubts' \in [Clients -> SUBSET Keys]
    BY <2>1
  <2> QED
    BY <2>1, <2>2, <2>3, <2>4 DEF Shared!HostKnown
<1>5. ASSUME NEW c \in Inside, NEW k \in Keys, Shared!Settle(c, k)
      PROVE  Shared!TypeOK' /\ Shared!HostKnown' /\ Shared!RoomKnown'
  <2>1. PICK sure \in SUBSET {k} : Doubts' = [Doubts EXCEPT ![c] = Doubts[c] \ sure]
    BY <1>5 DEF Shared!Settle
  <2>2. /\ UNCHANGED <<value, roomHost, Inside, SeenHost>>
        /\ Seen' = Seen \/ Seen' = [Seen EXCEPT ![c] = [Seen[c] EXCEPT ![k] = value[k]]]
        /\ k \in Shared!Held /\ k \notin Doubts'[c] => Seen'[c][k] = value[k]
    BY <1>5 DEF Shared!Settle
  <2>3. Seen' \in [Clients -> [Keys -> Shared!Content]]
    <3>1. [Seen[c] EXCEPT ![k] = value[k]] \in [Keys -> Shared!Content]
      OBVIOUS
    <3> QED
      BY <2>2, <3>1
  <2>4. Shared!RoomKnown'
    <3> SUFFICES ASSUME NEW d \in Inside', NEW j \in Keys, value'[j] # NoValue, j \notin Doubts'[d]
                 PROVE  Seen'[d][j] = value'[j]
      BY DEF Shared!RoomKnown, Shared!Held
    <3>1. CASE d = c /\ j = k
      BY <2>2, <3>1 DEF Shared!Held
    <3>2. CASE ~ (d = c /\ j = k)
      <4>1. d \in Inside /\ d \in Clients /\ j \notin Doubts[d]
        BY <2>1, <2>2, <3>2
      <4>2. Seen'[d][j] = Seen[d][j]
        BY <2>2, <3>2, <4>1
      <4> QED
        BY <2>2, <4>1, <4>2 DEF Shared!RoomKnown, Shared!Held
    <3> QED
      BY <3>1, <3>2
  <2>5. Doubts' \in [Clients -> SUBSET Keys]
    BY <2>1
  <2> QED
    BY <2>2, <2>3, <2>4, <2>5 DEF Shared!HostKnown
<1>6. ASSUME NEW k \in Keys, NEW v \in Shared!Content, NEW by \in SUBSET Inside,
             Shared!Change(k, v, by)
      PROVE  Shared!TypeOK' /\ Shared!HostKnown' /\ Shared!RoomKnown'
  <2>1. PICK sure \in [Clients -> SUBSET {k}] :
          /\ v # NoValue => \A c \in by : sure[c] = {}
          /\ Doubts' = [c \in Clients |-> Doubts[c] \ sure[c]]
    BY <1>6 DEF Shared!Change
  <2>2. /\ UNCHANGED <<roomHost, Inside, SeenHost>> /\ value' = [value EXCEPT ![k] = v]
        /\ \A c \in by : k \in Doubts[c]
        /\ Seen' = [c \in Clients |->
             IF c \in Inside \ by THEN [Seen[c] EXCEPT ![k] = v] ELSE Seen[c]]
    BY <1>6 DEF Shared!Change
  <2>3. Seen' \in [Clients -> [Keys -> Shared!Content]]
    <3>1. \A c \in Clients : [Seen[c] EXCEPT ![k] = v] \in [Keys -> Shared!Content]
      OBVIOUS
    <3> QED
      BY <2>2, <3>1
  <2>4. Shared!RoomKnown'
    <3> SUFFICES ASSUME NEW d \in Inside', NEW j \in Keys, value'[j] # NoValue, j \notin Doubts'[d]
                 PROVE  Seen'[d][j] = value'[j]
      BY DEF Shared!RoomKnown, Shared!Held
    <3>1. d \in Inside /\ d \in Clients
      BY <2>2
    <3>2. CASE j = k /\ d \in by
      <4>1. v # NoValue
        BY <2>2, <3>2
      <4>2. k \in Doubts'[d]
        BY <2>1, <2>2, <3>1, <3>2, <4>1
      <4> QED
        BY <3>2, <4>2
    <3>3. CASE j = k /\ d \notin by
      BY <2>2, <3>1, <3>3
    <3>4. CASE j # k
      <4>1. j \notin Doubts[d]
        BY <2>1, <3>1, <3>4
      <4>2. Seen'[d][j] = Seen[d][j] /\ value'[j] = value[j]
        BY <2>2, <3>1, <3>4
      <4> QED
        BY <3>1, <4>1, <4>2 DEF Shared!RoomKnown, Shared!Held
    <3> QED
      BY <3>2, <3>3, <3>4
  <2>5. Doubts' \in [Clients -> SUBSET Keys] /\ value' \in [Keys -> Shared!Content]
    BY <2>1, <2>2
  <2> QED
    BY <2>2, <2>3, <2>4, <2>5 DEF Shared!HostKnown
<1> QED
  BY <1>1, <1>2, <1>3, <1>4, <1>5, <1>6 DEF Shared!Next

LEMMA SharedInvInit == Shared!Init => Shared!TypeOK /\ Shared!HostKnown /\ Shared!RoomKnown
  BY DEF Shared!Init, Shared!TypeOK, Shared!HostKnown, Shared!RoomKnown, Shared!Nothing,
         Shared!Nobody, Shared!Content

\* In the abstract room of SharedRoom, all who are present agree on the host there is and,
\* but for what each of them wrote itself, on every key the room holds.
THEOREM SharedRoomAgrees ==
  Shared!Spec => [](Shared!TypeOK /\ Shared!HostKnown /\ Shared!RoomKnown)
<1> DEFINE I == Shared!TypeOK /\ Shared!HostKnown /\ Shared!RoomKnown
<1>1. I /\ [Shared!Next]_(Shared!sharedVars) => I'
  <2> SUFFICES ASSUME I, [Shared!Next]_(Shared!sharedVars) PROVE I'
    OBVIOUS
  <2>1. CASE Shared!Next
    BY <2>1, SharedStep
  <2>2. CASE UNCHANGED Shared!sharedVars
    BY <2>2 DEF Shared!sharedVars, Shared!TypeOK, Shared!HostKnown, Shared!RoomKnown, Shared!Held
  <2> QED
    BY <2>1, <2>2
<1> HIDE DEF I
<1>2. Shared!Init => I
  BY SharedInvInit DEF I
<1>3. Shared!Spec => []I
  BY <1>1, <1>2, PTL DEF Shared!Spec
<1> QED
  BY <1>3 DEF I

\* Through takeovers, reservations, reclaims, promotions and restarts, a client with nothing
\* in flight takes for the host whoever the server does, if it has one: it follows from the
\* promise of SharedRoom, which the server and its clients keep.
THEOREM TheHostIsKnown == SyncSpec => []EveryoneKnowsTheHost
<1>1. SyncTyped /\ Shared!HostKnown => EveryoneKnowsTheHost
  <2> SUFFICES ASSUME SyncTyped, Shared!HostKnown, NEW c \in Clients, Settled(c), HostOf # NoPeer
               PROVE  hostView[c] = HostOf
    BY DEF EveryoneKnowsTheHost
  <2>1. HostOf = roomHost
    BY DEF HostOf
  <2>2. conn[c] \in Members /\ HostInEffect(c) = hostView[c]
    BY SettledIsInStep
  <2>3. c \in Inside /\ SeenHost[c] = HostInEffect(c)
    BY <2>2, Views
  <2> QED
    BY <2>1, <2>2, <2>3 DEF Shared!HostKnown
<1> QED
  BY <1>1, RoomIsShared, SharedRoomAgrees, SyncInvariant, PTL DEF ImplementsSharedRoom
=============================================================================
