----------------------------- MODULE SharedRoom -----------------------------
(***************************************************************************)
(* What the shared room promises its clients (src/net/RoomObjects.js), with *)
(* no sockets, frames, queues or corrections: what changes in the room is   *)
(* seen at once, and so by everybody in the same order; a client sees       *)
(* anything else only of its own making, on the keys it wrote itself; and   *)
(* whoever enters sees the room as it is.                                   *)
(***************************************************************************)
CONSTANTS Clients, Keys, Values, NoValue, Hosts, NoHost

VARIABLES room,       \* the value of each key, NoValue when it has none
          host,       \* the host of the room, or NoHost
          present,    \* the clients in the room
          seen,       \* the value of each key as each client sees it
          seenHost,   \* the host as each client sees it
          unsure      \* the keys each client wrote and may see in its own way

sharedVars == <<room, host, present, seen, seenHost, unsure>>

Content == Values \cup {NoValue}
Held == {k \in Keys : room[k] # NoValue}
Nothing == [k \in Keys |-> NoValue]
Nobody  == [c \in Clients |-> NoHost]

Init ==
  /\ room = Nothing
  /\ host = NoHost
  /\ present = {}
  /\ seen = [c \in Clients |-> Nothing]
  /\ seenHost = Nobody
  /\ unsure = [c \in Clients |-> {}]

\* A new host is announced to all who are in the room, the host there is to who enters it;
\* that the role is vacant is news to nobody else.
HostSeen ==
  /\ host' \in Hosts \cup {NoHost}
  /\ seenHost' = [c \in Clients |->
       IF c \notin present' THEN NoHost
       ELSE IF c \notin present \/ host' \notin {host, NoHost} THEN host'
       ELSE seenHost[c]]

\* A client enters, and sees every key the room holds; on the others it may keep what it had.
Enter(c) ==
  /\ c \notin present
  /\ present' = present \cup {c}
  /\ \E own \in [Keys -> Content] :
       seen' = [seen EXCEPT ![c] = [k \in Keys |-> IF k \in Held THEN room[k] ELSE own[k]]]
  /\ HostSeen
  /\ UNCHANGED <<room, unsure>>

\* The clients of C leave, or the keys of S are cleared, or both.
Leave(C, S) ==
  /\ present' = present \ C
  /\ room' = [k \in Keys |-> IF k \in S THEN NoValue ELSE room[k]]
  /\ HostSeen
  /\ seen' = [c \in Clients |->
       IF c \in present' THEN [k \in Keys |-> IF k \in S THEN NoValue ELSE seen[c][k]]
       ELSE Nothing]
  /\ unsure' = [c \in Clients |-> IF c \in present' THEN unsure[c] ELSE {}]

\* A client writes, and sees its own write unless news under way to it overwrites that.
Write(c, k, v) ==
  /\ c \in present
  /\ UNCHANGED <<room, host, present, seenHost>>
  /\ unsure' = [unsure EXCEPT ![c] = @ \cup {k}]
  /\ seen' \in {seen, [seen EXCEPT ![c][k] = v]}

\* A key changes by the hand of a client that wrote it, which may have left since: all the
\* others in the room see the new value.
Change(k, v, by) ==
  /\ room' = [room EXCEPT ![k] = v]
  /\ UNCHANGED <<host, present, seenHost>>
  /\ \A c, d \in by : c = d
  /\ \A c \in by : k \in unsure[c]
  /\ seen' = [c \in Clients |-> IF c \in present \ by THEN [seen[c] EXCEPT ![k] = v] ELSE seen[c]]
  /\ \E sure \in [Clients -> SUBSET {k}] :
       /\ v # NoValue => \A c \in by : sure[c] = {}
       /\ unsure' = [c \in Clients |-> unsure[c] \ sure[c]]

\* A client that may see a key in its own way is put right about it, or the room is.
Settle(c, k) ==
  /\ c \in present /\ k \in unsure[c]
  /\ UNCHANGED <<room, host, present, seenHost>>
  /\ \E sure \in SUBSET {k} : unsure' = [unsure EXCEPT ![c] = @ \ sure]
  /\ seen' \in {seen, [seen EXCEPT ![c][k] = room[k]]}
  /\ k \in Held /\ k \notin unsure'[c] => seen'[c][k] = room[k]

\* The role goes to somebody.
Appoint ==
  /\ UNCHANGED <<room, present>>
  /\ HostSeen
  /\ UNCHANGED <<seen, unsure>>

Next ==
  \/ Appoint
  \/ \E c \in Clients : Enter(c)
  \/ \E C \in SUBSET present, S \in SUBSET Held : Leave(C, S)
  \/ \E c \in present, k \in Keys, v \in Content : Write(c, k, v)
  \/ \E c \in present, k \in Keys : Settle(c, k)
  \/ \E k \in Keys, v \in Content, by \in SUBSET present : Change(k, v, by)

Spec == Init /\ [][Next]_sharedVars

-----------------------------------------------------------------------------
TypeOK ==
  /\ room \in [Keys -> Content]
  /\ host \in Hosts \cup {NoHost}
  /\ present \subseteq Clients
  /\ seen \in [Clients -> [Keys -> Content]]
  /\ seenHost \in [Clients -> Hosts \cup {NoHost}]
  /\ unsure \in [Clients -> SUBSET Keys]

\* So all who are present agree on the host there is, and on every key the room holds but
\* for what each of them wrote itself.
HostKnown == \A c \in present : host # NoHost => seenHost[c] = host
RoomKnown == \A c \in present : \A k \in Held \ unsure[c] : seen[c][k] = room[k]
=============================================================================
