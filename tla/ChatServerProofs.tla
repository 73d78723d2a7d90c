--------------------------- MODULE ChatServerProofs ---------------------------
(***************************************************************************)
(* ChatServer for every number of clients and descriptors, however long    *)
(* the table of those who ever came has become.                            *)
(***************************************************************************)
EXTENDS ChatServer, FiniteSetTheorems, TLAPS

Entry == [fd : Fds, connected : BOOLEAN, quiet : BOOLEAN]
Person == [at : {"away", "pending", "joined", "closed", "reset", "broken", "gone"}, unread : BOOLEAN]
Event == [fd : Fds \cup {Listener}, client : Clients \cup {NoClient}]

Types ==
  /\ table \in Seq(Entry) /\ batch \subseteq Event
  /\ opened \in [Fds -> Clients \cup {NoClient}]
  /\ member \in [Clients -> Person]

\* Nobody has two descriptors, and who has one is in the room.
Seated ==
  /\ \A f, g \in Fds : opened[f] = opened[g] /\ opened[f] # NoClient => f = g
  /\ \A c \in Clients : c \in Joined <=> \E f \in Fds : opened[f] = c
  /\ \A c \in Clients : member[c].unread => c \in Joined

\* The connected entries are one for each descriptor that is open.
Listed ==
  /\ \A j \in DOMAIN table : table[j].connected => opened[table[j].fd] # NoClient
  /\ \A i, j \in DOMAIN table :
       table[i].connected /\ table[j].connected /\ table[i].fd = table[j].fd => i = j
  /\ \A f \in Fds : opened[f] # NoClient => \E j \in DOMAIN table : table[j].connected /\ table[j].fd = f

\* What is left of a round are events of descriptors that are open.
Pending ==
  \A event \in batch : event.fd # Listener => event.client # NoClient /\ opened[event.fd] = event.client

Room == Types /\ Seated /\ Listed /\ Pending

\* The listening socket is no client's, and nobody is not a client.
Distinct == Listener \notin Fds /\ NoClient \notin Clients

SameEntries == /\ table' \in Seq(Entry) /\ DOMAIN table' = DOMAIN table
               /\ \A j \in DOMAIN table : table'[j].fd = table[j].fd
                                          /\ table'[j].connected = table[j].connected

-----------------------------------------------------------------------------
(* What keeps the room in order.                                           *)

LEMMA EntryIs ==
  ASSUME Room
  PROVE  /\ table \in Seq(Entry) /\ DOMAIN table = 1..Len(table) /\ Len(table) \in Nat
         /\ \A j \in DOMAIN table : table[j] \in Entry /\ table[j].fd \in Fds
<1>1. table \in Seq(Entry)
  BY DEF Room, Types
<1>2. \A j \in DOMAIN table : table[j] \in Entry
  BY <1>1
<1> QED  BY <1>1, <1>2 DEF Entry

LEMMA JoinedIs ==
  \A c \in Clients : c \in Joined <=> member[c].at \in {"joined", "closed", "reset", "broken"}
  BY DEF Joined, In

\* Clients stay in the room or out of it, whatever else they do.
LEMMA RoomStays ==
  ASSUME Room, opened' = opened, batch' \subseteq batch, SameEntries, member' \in [Clients -> Person],
         \A c \in Clients :
           /\ member'[c].at \in {"joined", "closed", "reset", "broken"} <=> c \in Joined
           /\ member'[c].unread => c \in Joined
  PROVE  Room'
<1>1. Types'
  BY DEF Room, Types, SameEntries
<1>2. Listed' /\ Pending'
  BY DEF Room, Listed, Pending, SameEntries
<1>3. \A c \in Clients : (c \in Joined)' <=> c \in Joined
  BY DEF Joined, In
<1>4. Seated'
  BY <1>3 DEF Room, Seated
<1> QED  BY <1>1, <1>2, <1>4 DEF Room

\* A client changes alone.
LEMMA OneClient ==
  ASSUME Room, NEW c \in Clients, NEW r \in Person, member' = [member EXCEPT ![c] = r],
         r.at \in {"joined", "closed", "reset", "broken"} <=> c \in Joined,
         r.unread => c \in Joined, UNCHANGED <<table, opened, batch>>
  PROVE  Room'
<1>1. member' \in [Clients -> Person]
  BY DEF Room, Types
<1>2. SameEntries
  BY DEF SameEntries, Room, Types
<1>3. \A d \in Clients :
        /\ member'[d].at \in {"joined", "closed", "reset", "broken"} <=> d \in Joined
        /\ member'[d].unread => d \in Joined
  BY JoinedIs DEF Room, Types, Seated
<1> QED  BY <1>1, <1>2, <1>3, RoomStays

\* The descriptors of a set are closed, and their entries are no longer connected.
LEMMA RoomEmpties ==
  ASSUME Room, Distinct, NEW fds \in SUBSET Fds, Close(fds), batch' \subseteq batch,
         \A event \in batch' : event.fd \notin fds,
         table' \in Seq(Entry), DOMAIN table' = DOMAIN table,
         \A j \in DOMAIN table :
           /\ table'[j].fd = table[j].fd
           /\ table'[j].connected <=> table[j].connected /\ table[j].fd \notin fds
  PROVE  Room'
<1>1. /\ table \in Seq(Entry) /\ batch \subseteq Event /\ opened \in [Fds -> Clients \cup {NoClient}]
      /\ member \in [Clients -> Person] /\ \A j \in DOMAIN table : table[j].fd \in Fds
  BY EntryIs DEF Room, Types
<1>2. opened' = [fd \in Fds |-> IF fd \in fds THEN NoClient ELSE opened[fd]]
  BY DEF Close
<1>3. member' = [c \in Clients |-> IF \E fd \in fds : opened[fd] = c
                                   THEN [at |-> "gone", unread |-> FALSE] ELSE member[c]]
  BY <1>1 DEF Close
<1>4. Types'
  BY <1>1, <1>2, <1>3 DEF Types, Person
<1>5. Listed'
  <2>1. \A f \in Fds : opened'[f] = IF f \in fds THEN NoClient ELSE opened[f]
    BY <1>2
  <2>2. \A j \in DOMAIN table' : table'[j].connected => opened'[table'[j].fd] # NoClient
    BY <1>1, <2>1 DEF Room, Listed
  <2>3. \A i, j \in DOMAIN table' :
          table'[i].connected /\ table'[j].connected /\ table'[i].fd = table'[j].fd => i = j
    BY DEF Room, Listed
  <2>4. \A f \in Fds : opened'[f] # NoClient => \E j \in DOMAIN table' : table'[j].connected /\ table'[j].fd = f
    BY <2>1 DEF Room, Listed
  <2> QED  BY <2>2, <2>3, <2>4 DEF Listed
<1>6. Pending'
  BY <1>1, <1>2 DEF Room, Pending, Event
<1>7. \A c \in Clients : (c \in Joined)' <=> c \in Joined /\ ~ \E fd \in fds : opened[fd] = c
  BY <1>1, <1>3 DEF Joined, In
<1>8. Seated'
  <2>1. \A f, g \in Fds : opened'[f] = opened'[g] /\ opened'[f] # NoClient => f = g
    BY <1>2 DEF Room, Seated
  <2>2. ASSUME NEW c \in Clients  PROVE (c \in Joined)' <=> \E f \in Fds : opened'[f] = c
    <3>1. c # NoClient
      BY DEF Distinct
    <3>2. \A f \in Fds : opened'[f] = c <=> opened[f] = c /\ f \notin fds
      BY <1>2, <3>1
    <3>3. c \in Joined <=> \E f \in Fds : opened[f] = c
      BY DEF Room, Seated
    <3>4. \A f, g \in Fds : opened[f] = c /\ opened[g] = c => f = g
      BY <3>1 DEF Room, Seated
    <3> QED  BY <1>7, <3>2, <3>3, <3>4
  <2>3. \A c \in Clients : member'[c].unread => (c \in Joined)'
    BY <1>3, <1>7 DEF Room, Seated
  <2> QED  BY <2>1, <2>2, <2>3 DEF Seated
<1> QED  BY <1>4, <1>5, <1>6, <1>8 DEF Room

-----------------------------------------------------------------------------
(* The steps.                                                              *)

LEMMA OutsideRoom ==
  ASSUME Room, \/ \E c \in Clients : Connect(c) \/ Speak(c) \/ Depart(c)
               \/ \E j \in DOMAIN table : GrowQuiet(j)
  PROVE  Room'
<1>1. member \in [Clients -> Person] /\ table \in Seq(Entry)
  BY DEF Room, Types
<1>2. ASSUME NEW c \in Clients, Connect(c)  PROVE Room'
  <2> DEFINE r == [member[c] EXCEPT !.at = "pending"]
  <2>1. member' = [member EXCEPT ![c] = r] /\ member[c].at = "away" /\ UNCHANGED <<table, opened, batch>>
    BY <1>1, <1>2 DEF Connect
  <2>2. r \in Person /\ r.at = "pending" /\ r.unread = member[c].unread
    BY <1>1 DEF Person
  <2>3. c \notin Joined /\ ~ member[c].unread
    BY <2>1, JoinedIs DEF Room, Seated
  <2> HIDE DEF r
  <2> QED  BY <2>1, <2>2, <2>3, OneClient
<1>3. ASSUME NEW c \in Clients, Speak(c)  PROVE Room'
  <2> DEFINE r == [member[c] EXCEPT !.unread = TRUE]
  <2>1. member' = [member EXCEPT ![c] = r] /\ member[c].at = "joined" /\ UNCHANGED <<table, opened, batch>>
    BY <1>1, <1>3 DEF Speak
  <2>2. r \in Person /\ r.at = member[c].at
    BY <1>1 DEF Person
  <2>3. c \in Joined
    BY <2>1, JoinedIs
  <2> HIDE DEF r
  <2> QED  BY <2>1, <2>2, <2>3, OneClient
<1>4. ASSUME NEW c \in Clients, Depart(c)  PROVE Room'
  <2>1. PICK how \in {"closed", "reset"} : member' = [member EXCEPT ![c].at = how]
    BY <1>4 DEF Depart
  <2> DEFINE r == [member[c] EXCEPT !.at = how]
  <2>2. member' = [member EXCEPT ![c] = r] /\ member[c].at = "joined" /\ UNCHANGED <<table, opened, batch>>
    BY <1>1, <1>4, <2>1 DEF Depart
  <2>3. r \in Person /\ r.at = how
    BY <1>1 DEF Person
  <2>4. c \in Joined
    BY <2>2, JoinedIs
  <2> HIDE DEF r
  <2> QED  BY <2>2, <2>3, <2>4, OneClient
<1>5. ASSUME NEW j \in DOMAIN table, GrowQuiet(j)  PROVE Room'
  <2>1. SameEntries /\ UNCHANGED <<opened, member, batch>>
    <3>1. table' = [table EXCEPT ![j].quiet = TRUE] /\ UNCHANGED <<opened, member, batch>>
      BY <1>5 DEF GrowQuiet
    <3>2. DOMAIN table' = DOMAIN table /\ \A i \in DOMAIN table :
            table'[i] = IF i = j THEN [table[j] EXCEPT !.quiet = TRUE] ELSE table[i]
      BY <1>1, <3>1
    <3>3. \A i \in DOMAIN table : /\ table'[i] \in Entry /\ table'[i].fd = table[i].fd
                                  /\ table'[i].connected = table[i].connected
      <4>1. PICK e : e = [table[j] EXCEPT !.quiet = TRUE]
        OBVIOUS
      <4>2. e \in Entry /\ e.fd = table[j].fd /\ e.connected = table[j].connected
        BY <4>1, EntryIs DEF Entry
      <4>3. \A i \in DOMAIN table : table'[i] = IF i = j THEN e ELSE table[i]
        BY <3>2, <4>1
      <4> QED  BY <4>2, <4>3, EntryIs
    <3>4. table' \in [1..Len(table) -> Entry]
      BY <3>1, <3>2, <3>3, EntryIs
    <3> QED  BY <3>1, <3>2, <3>3, <3>4, EntryIs DEF SameEntries
  <2> QED  BY <1>1, <2>1, JoinedIs, RoomStays DEF Room, Seated
<1> QED  BY <1>2, <1>3, <1>4, <1>5

LEMMA PollRoom ==
  ASSUME Room, Distinct, Poll  PROVE Room'
<1>1. /\ UNCHANGED <<table, opened, member>>
      /\ batch' = {[fd |-> fd, client |-> opened[fd]] : fd \in {f \in Fds : Readable(f)}} \cup
                  (IF In({"pending"}) = {} THEN {} ELSE {[fd |-> Listener, client |-> NoClient]})
  BY DEF Poll
<1>2. \A f \in Fds : Readable(f) => opened[f] # NoClient
  BY DEF Readable
<1>3. Types' /\ Pending'
  BY <1>1, <1>2 DEF Room, Types, Event, Pending
<1>4. Seated' /\ Listed'
  BY <1>1 DEF Room, Seated, Listed, Joined, In
<1> QED  BY <1>3, <1>4 DEF Room

\* Who is taken from the backlog had no descriptor, and the descriptor was free.
LEMMA AcceptRoom ==
  ASSUME Room, Distinct, NEW event \in batch, batch' = batch \ {event}, Accept(event)
  PROVE  Room'
<1>1. PICK c \in In({"pending"}), fd \in {f \in Fds : opened[f] = NoClient} :
        /\ table' = Append(table, [fd |-> fd, connected |-> TRUE, quiet |-> FALSE])
        /\ opened' = [opened EXCEPT ![fd] = c]
        /\ member' = [member EXCEPT ![c].at = "joined"]
  BY DEF Accept
<1>2. /\ c \in Clients /\ member[c].at = "pending" /\ c # NoClient /\ fd \in Fds /\ opened[fd] = NoClient
      /\ c \notin Joined /\ ~ member[c].unread
  BY JoinedIs DEF In, Distinct, Room, Seated
<1>3. /\ table \in Seq(Entry) /\ batch \subseteq Event /\ opened \in [Fds -> Clients \cup {NoClient}]
      /\ member \in [Clients -> Person]
  BY DEF Room, Types
<1>4. PICK x \in Entry : x = [fd |-> fd, connected |-> TRUE, quiet |-> FALSE]
  BY <1>2 DEF Entry
<1>5. /\ x.fd = fd /\ x.connected
      /\ table' \in Seq(Entry) /\ DOMAIN table' = 1..(Len(table) + 1) /\ DOMAIN table = 1..Len(table)
      /\ Len(table) \in Nat /\ table'[Len(table) + 1] = x
      /\ \A j \in 1..Len(table) : table'[j] = table[j]
  BY <1>1, <1>3, <1>4
<1>6. \A j \in DOMAIN table' : j \in DOMAIN table \/ j = Len(table) + 1
  BY <1>5
<1>7. \A j \in DOMAIN table : table[j].connected => table[j].fd # fd /\ table[j].fd \in Fds
  BY <1>2, EntryIs DEF Room, Listed
<1>8. \A f \in Fds : opened'[f] = IF f = fd THEN c ELSE opened[f]
  BY <1>1, <1>3
<1>9. Listed'
  <2>1. \A j \in DOMAIN table' : table'[j].connected => opened'[table'[j].fd] # NoClient
    BY <1>2, <1>5, <1>6, <1>7, <1>8 DEF Room, Listed
  <2>2. \A i, j \in DOMAIN table' :
          table'[i].connected /\ table'[j].connected /\ table'[i].fd = table'[j].fd => i = j
    BY <1>5, <1>6, <1>7 DEF Room, Listed
  <2>3. ASSUME NEW f \in Fds, opened'[f] # NoClient
        PROVE  \E j \in DOMAIN table' : table'[j].connected /\ table'[j].fd = f
    <3>1. CASE f = fd
      <4>1. Len(table) + 1 \in DOMAIN table'
        BY <1>5
      <4> QED  BY <1>5, <3>1, <4>1
    <3>2. CASE f # fd
      <4>1. \A j \in DOMAIN table : j \in DOMAIN table'
        BY <1>5
      <4> QED  BY <1>5, <1>8, <2>3, <3>2, <4>1 DEF Room, Listed
    <3> QED  BY <3>1, <3>2
  <2> QED  BY <2>1, <2>2, <2>3 DEF Listed
<1>10. Types'
  BY <1>1, <1>2, <1>3, <1>5 DEF Types, Person
<1>11. Pending'
  BY <1>2, <1>3, <1>8 DEF Room, Pending, Event
<1>12. \A d \in Clients : member'[d].unread = member[d].unread
                          /\ member'[d].at = IF d = c THEN "joined" ELSE member[d].at
  BY <1>1, <1>3 DEF Person
<1>13. \A d \in Clients : (d \in Joined)' <=> d \in Joined \/ d = c
  BY <1>12 DEF Joined, In
<1>14. Seated'
  <2>1. \A f \in Fds : opened[f] # c
    BY <1>2 DEF Room, Seated
  <2>2. \A f, g \in Fds : opened'[f] = opened'[g] /\ opened'[f] # NoClient => f = g
    BY <1>8, <2>1 DEF Room, Seated
  <2>3. \A d \in Clients : (d \in Joined)' <=> \E f \in Fds : opened'[f] = d
    BY <1>2, <1>8, <1>13 DEF Room, Seated, Distinct
  <2> QED  BY <1>12, <1>13, <2>2, <2>3 DEF Room, Seated
<1> QED  BY <1>9, <1>10, <1>11, <1>14 DEF Room

LEMMA EventIs ==
  ASSUME Room, Distinct, NEW event \in batch, event.fd # Listener
  PROVE  /\ event.fd \in Fds /\ event.client \in Clients /\ opened[event.fd] = event.client
         /\ event.client \in Joined
         /\ \A other \in batch : other.fd = event.fd => other = event
  BY DEF Room, Types, Event, Pending, Seated

LEMMA BroadcastRoom ==
  ASSUME Room, Distinct, NEW event \in batch, batch' = batch \ {event}, event.fd # Listener,
         Broadcast(event.fd)
  PROVE  Room'
<1>1. /\ event.fd \in Fds /\ event.client \in Clients /\ opened[event.fd] = event.client
      /\ event.client \in Joined
  BY EventIs
<1>2. table \in Seq(Entry) /\ member \in [Clients -> Person]
  BY DEF Room, Types
<1>3. SameEntries
  <2>1. table' = [j \in DOMAIN table |-> IF table[j].fd = event.fd THEN [table[j] EXCEPT !.quiet = FALSE]
                                         ELSE table[j]]
    BY DEF Broadcast
  <2>2. DOMAIN table = 1..Len(table) /\ Len(table) \in Nat /\ \A j \in DOMAIN table : table[j] \in Entry
    BY <1>2
  <2>3. \A j \in DOMAIN table : /\ table'[j] \in Entry /\ table'[j].fd = table[j].fd
                                /\ table'[j].connected = table[j].connected
    BY <2>1, <2>2 DEF Entry
  <2>4. table' \in [1..Len(table) -> Entry]
    BY <2>1, <2>2, <2>3
  <2> QED  BY <2>1, <2>2, <2>3, <2>4 DEF SameEntries
<1>4. ASSUME NEW c \in Clients
      PROVE  /\ member'[c] \in Person
             /\ member'[c].at \in {"joined", "closed", "reset", "broken"} <=> c \in Joined
             /\ member'[c].unread => c \in Joined
  <2>1. \E at \in {"broken", member[c].at} :
          /\ member'[c] = [at |-> at, unread |-> member[c].unread /\ c # opened[event.fd]]
          /\ at # member[c].at => c = opened[event.fd] \/ member[c].at \in {"closed", "reset"}
    BY DEF Broadcast
  <2>2. member[c] \in Person
    BY <1>2
  <2> QED  BY <1>1, <2>1, <2>2, JoinedIs DEF Person, Room, Seated
<1>5. member' \in [Clients -> Person]
  BY <1>4 DEF Broadcast
<1> QED  BY <1>3, <1>4, <1>5, RoomStays DEF Broadcast

LEMMA HangupRoom ==
  ASSUME Room, Distinct, NEW event \in batch, batch' = batch \ {event}, event.fd # Listener,
         Hangup(event.fd)
  PROVE  Room'
<1>1. event.fd \in Fds /\ \A other \in batch' : other.fd \notin {event.fd}
  BY EventIs
<1>2. table \in Seq(Entry)
  BY DEF Room, Types
<1>3. table' = [j \in DOMAIN table |-> IF table[j].fd = event.fd
                                       THEN [table[j] EXCEPT !.connected = FALSE] ELSE table[j]]
  BY DEF Hangup
<1>4. DOMAIN table = 1..Len(table) /\ Len(table) \in Nat /\ \A j \in DOMAIN table : table[j] \in Entry
  BY <1>2
<1>5. \A j \in DOMAIN table :
        /\ table'[j] \in Entry /\ table'[j].fd = table[j].fd
        /\ table'[j].connected <=> table[j].connected /\ table[j].fd \notin {event.fd}
  BY <1>3, <1>4 DEF Entry
<1>6. table' \in [1..Len(table) -> Entry]
  BY <1>3, <1>4, <1>5
<1>7. Close({event.fd})
  BY DEF Hangup
<1> QED  BY <1>1, <1>3, <1>4, <1>5, <1>6, <1>7, RoomEmpties

LEMMA EvictRoom ==
  ASSUME Room, Distinct, Evict  PROVE Room'
<1> DEFINE fds == {table[j].fd : j \in Quiet}
<1>1. table \in Seq(Entry)
  BY EntryIs
<1>2. table' = [j \in DOMAIN table |-> IF j \in Quiet THEN [table[j] EXCEPT !.connected = FALSE]
                                       ELSE table[j]]
  BY DEF Evict
<1>3. DOMAIN table = 1..Len(table) /\ Len(table) \in Nat /\ \A j \in DOMAIN table : table[j] \in Entry
  BY <1>1
<1>4. \A j \in DOMAIN table : table[j].connected => (j \in Quiet <=> table[j].fd \in fds)
  BY DEF Quiet, Room, Listed
<1>5. \A j \in DOMAIN table : j \in Quiet => table[j].connected
  BY DEF Quiet
<1>6. \A j \in DOMAIN table :
        /\ table'[j] \in Entry /\ table'[j].fd = table[j].fd
        /\ table'[j].connected <=> table[j].connected /\ j \notin Quiet
  BY <1>2, <1>3, <1>5 DEF Entry
<1>7. table' \in [1..Len(table) -> Entry] /\ fds \in SUBSET Fds /\ Close(fds) /\ batch' = {} /\ batch = {}
  BY <1>2, <1>3, <1>6 DEF Evict, Quiet, Entry
<1> HIDE DEF fds
<1>8. \A j \in DOMAIN table :
        /\ table'[j].fd = table[j].fd
        /\ table'[j].connected <=> table[j].connected /\ table[j].fd \notin fds
  BY <1>4, <1>6
<1> QED  BY <1>2, <1>3, <1>7, <1>8, RoomEmpties

LEMMA RoomAlways == ASSUME Distinct  PROVE RoomSpec => []Room
<1>1. RoomInit => Room
  BY DEF Distinct, RoomInit, Room, Types, Seated, Listed, Pending, Joined, In, Person, Entry, Event
<1>2. ASSUME Room, [RoomNext]_room  PROVE Room'
  <2>1. CASE UNCHANGED room
    BY <1>2, <2>1 DEF room, Room, Types, Seated, Listed, Pending, Joined, In
  <2>2. CASE Handle
    BY <1>2, <2>2, AcceptRoom, BroadcastRoom, HangupRoom DEF Handle
  <2> QED  BY <1>2, <2>1, <2>2, OutsideRoom, PollRoom, EvictRoom DEF RoomNext, Serve
<1> QED  BY <1>1, <1>2, PTL DEF RoomSpec

-----------------------------------------------------------------------------
(* Properties.                                                             *)

\* However long the room has been open and however often descriptors were used
\* again, exactly one connected entry of the table stands for each client that
\* is there, and an event is handled for the client it was reported of
\* (server.c:44-105).
THEOREM TableConsistentAlways == ASSUME Distinct  PROVE RoomSpec => []TableConsistent
<1>1. Room => TableConsistent
  <2> SUFFICES ASSUME Room  PROVE TableConsistent
    OBVIOUS
  <2>1. EventsAreCurrent
    BY DEF EventsAreCurrent, Room, Pending
  <2>2. ASSUME NEW f \in Fds
        PROVE  Cardinality({j \in DOMAIN table : table[j].connected /\ table[j].fd = f})
                 = IF opened[f] = NoClient THEN 0 ELSE 1
    <3> DEFINE J == {j \in DOMAIN table : table[j].connected /\ table[j].fd = f}
    <3>1. CASE opened[f] = NoClient
      <4>1. J = {}
        BY <3>1 DEF Room, Listed
      <4> QED  BY <3>1, <4>1, FS_EmptySet
    <3>2. CASE opened[f] # NoClient
      <4>1. PICK j \in J : TRUE
        BY <3>2 DEF Room, Listed
      <4>2. J = {j}
        BY <4>1 DEF Room, Listed
      <4> QED  BY <3>2, <4>2, FS_Singleton
    <3> QED  BY <3>1, <3>2
  <2> QED  BY <2>1, <2>2 DEF TableConsistent, OneEntryEach
<1> QED  BY <1>1, RoomAlways, PTL

\* Whom the loop over the table sends to: everybody in the room but the speaker, once.
LEMMA Hearers ==
  ASSUME Room, Distinct, NEW fd \in Fds, opened[fd] \in Clients, NEW d \in Clients
  PROVE  Cardinality({j \in Audience(fd) : opened[table[j].fd] = d})
           = IF d # opened[fd] /\ d \in Joined THEN 1 ELSE 0
<1> DEFINE J == {j \in Audience(fd) : opened[table[j].fd] = d}
<1>1. \A j \in DOMAIN table : table[j].fd \in Fds
  BY EntryIs
<1>2. d # NoClient
  BY DEF Distinct
<1>3. CASE d = opened[fd]
  <2>1. J = {}
    BY <1>1, <1>2, <1>3 DEF Audience, Room, Seated
  <2> QED  BY <1>3, <2>1, FS_EmptySet
<1>4. CASE d \notin Joined
  <2>1. J = {}
    BY <1>1, <1>4 DEF Audience, Room, Seated
  <2> QED  BY <1>4, <2>1, FS_EmptySet
<1>5. CASE d # opened[fd] /\ d \in Joined
  <2>1. PICK f \in Fds : opened[f] = d
    BY <1>5 DEF Room, Seated
  <2>2. PICK j \in DOMAIN table : table[j].connected /\ table[j].fd = f
    BY <1>2, <2>1 DEF Room, Listed
  <2>3. f # fd /\ \A g \in Fds : opened[g] = d => g = f
    BY <1>2, <1>5, <2>1 DEF Room, Seated
  <2>4. J = {j}
    BY <1>1, <2>1, <2>2, <2>3 DEF Audience, Room, Listed
  <2> QED  BY <1>5, <2>4, FS_Singleton
<1> QED  BY <1>3, <1>4, <1>5

\* A message is sent to everybody else in the room and to nobody twice, although
\* the table names every descriptor as often as it was used (server.c:79-88).
THEOREM HeardOnceAlways == ASSUME Distinct  PROVE RoomSpec => HeardOnce
<1>1. ASSUME Room, [RoomNext]_room  PROVE [Heard]_room
  <2> SUFFICES ASSUME RoomNext, NEW c \in Clients, member[c].unread, ~ member'[c].unread,
                      member'[c].at # "gone"
               PROVE  copies' = [d \in Clients |-> IF d # c /\ d \in Joined THEN 1 ELSE 0]
    BY <1>1 DEF Heard
  <2>1. member \in [Clients -> Person]
    BY <1>1 DEF Room, Types
  <2>2. ~ \E d \in Clients : Connect(d) \/ Speak(d) \/ Depart(d)
    BY <2>1 DEF Connect, Speak, Depart, Person
  <2>3. ~ Poll /\ ~ \E j \in DOMAIN table : GrowQuiet(j)
    BY DEF Poll, GrowQuiet
  <2>4. ~ \E fds \in SUBSET Fds : Close(fds)
    BY <2>1 DEF Close
  <2>5. ~ Evict
    BY <1>1, <2>4, EntryIs DEF Evict, Quiet
  <2>6. PICK event \in batch : \/ Accept(event)
                               \/ event.fd # Listener /\ Broadcast(event.fd)
                               \/ event.fd # Listener /\ Hangup(event.fd)
    BY <2>2, <2>3, <2>5 DEF RoomNext, Serve, Handle
  <2>7. ~ Accept(event)
    BY <2>1 DEF Accept, In, Person
  <2>8. ~ (event.fd # Listener /\ Hangup(event.fd))
    BY <1>1, <2>4, EventIs DEF Hangup
  <2>9. /\ event.fd # Listener /\ Broadcast(event.fd) /\ event.fd \in Fds
        /\ opened[event.fd] \in Clients
    BY <1>1, <2>6, <2>7, <2>8, EventIs
  <2>10. c = opened[event.fd]
    BY <2>9 DEF Broadcast
  <2>11. copies' = [d \in Clients |-> Cardinality({j \in Audience(event.fd) : opened[table[j].fd] = d})]
    BY <2>9 DEF Broadcast
  <2> QED  BY <1>1, <2>9, <2>10, <2>11, Hearers
<1> QED  BY <1>1, RoomAlways, PTL DEF RoomSpec, HeardOnce
==============================================================================
