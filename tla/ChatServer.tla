----------------------------- MODULE ChatServer -----------------------------
(***************************************************************************)
(* The chat room 0008 in its second form (2.epoll/server.c).  The table    *)
(* client_list keeps an entry for every connection ever made; clients are  *)
(* found in it by descriptor, and descriptors are used again.  Time is a   *)
(* choice: an entry grows quiet when nothing was read from it for longer   *)
(* than ten seconds.                                                       *)
(***************************************************************************)
EXTENDS Naturals, Sequences, FiniteSets

CONSTANTS Clients, Fds, Listener, NoClient

VARIABLES table,    \* client_list: descriptor, is_connect, and whether it is quiet
          opened,   \* the client behind each open descriptor of the server
          member,   \* of each client: where it is, and whether it has a message unread
          batch,    \* events not yet handled: descriptors, with the client each was of
          polled,   \* epoll_wait has returned and clients were not yet evicted
          alive,    \* no SIGPIPE yet
          copies    \* history: how often the last step sent a message to each client

room == <<table, opened, member, batch, polled, alive, copies>>

RoomInit ==
  /\ table = <<>> /\ opened = [fd \in Fds |-> NoClient]
  /\ member = [c \in Clients |-> [at |-> "away", unread |-> FALSE]]
  /\ batch = {} /\ polled = FALSE /\ alive = TRUE
  /\ copies = [c \in Clients |-> 0]

NoMessage == copies' = [c \in Clients |-> 0]

-----------------------------------------------------------------------------
(* Clients and time.                                                       *)

In(states) == {c \in Clients : member[c].at \in states}
Joined == In({"joined", "closed", "reset", "broken"})

\* Bound: no more clients at a time than the server has descriptors.
Connect(c) ==
  /\ member[c].at = "away" /\ Cardinality(In({"pending"}) \cup Joined) < Cardinality(Fds)
  /\ member' = [member EXCEPT ![c].at = "pending"]
  /\ UNCHANGED <<table, opened, batch, polled, alive>> /\ NoMessage

Speak(c) ==
  /\ member[c].at = "joined" /\ member' = [member EXCEPT ![c].unread = TRUE]
  /\ UNCHANGED <<table, opened, batch, polled, alive>> /\ NoMessage

\* The connection is reset when the client has not read everything.
Depart(c) ==
  /\ member[c].at = "joined"
  /\ \E how \in {"closed", "reset"} : member' = [member EXCEPT ![c].at = how]
  /\ UNCHANGED <<table, opened, batch, polled, alive>> /\ NoMessage

GrowQuiet(j) ==
  /\ table[j].connected /\ table' = [table EXCEPT ![j].quiet = TRUE]
  /\ UNCHANGED <<opened, member, batch, polled, alive>> /\ NoMessage

-----------------------------------------------------------------------------
(* The server.                                                             *)

Readable(fd) == /\ opened[fd] # NoClient
                /\ member[opened[fd]].unread \/ member[opened[fd]].at \in {"closed", "reset", "broken"}

\* epoll_wait with a timeout of zero: what is ready, in any order.
Poll ==
  /\ alive /\ ~polled /\ polled' = TRUE
  /\ batch' = {[fd |-> fd, client |-> opened[fd]] : fd \in {f \in Fds : Readable(f)}} \cup
              (IF In({"pending"}) = {} THEN {} ELSE {[fd |-> Listener, client |-> NoClient]})
  /\ UNCHANGED <<table, opened, member, alive>> /\ NoMessage

Accept(event) ==
  /\ event.fd = Listener
  /\ \E c \in In({"pending"}), fd \in {f \in Fds : opened[f] = NoClient} :
       /\ table' = Append(table, [fd |-> fd, connected |-> TRUE, quiet |-> FALSE])
       /\ opened' = [opened EXCEPT ![fd] = c]
       /\ member' = [member EXCEPT ![c].at = "joined"]
  /\ NoMessage

\* Mutant: entries of clients that have left are not passed over.
AudienceOfAll(fd) == {j \in DOMAIN table : table[j].fd # fd}

\* The entries the loop over client_list sends to.
Audience(fd) == {j \in DOMAIN table : table[j].connected /\ table[j].fd # fd}

\* What recv returns above or below zero is taken for a message and sent to the
\* others.  Sending to a client that has closed resets the connection, sending to
\* one that is reset returns an error once and kills the server after that.
Broadcast(fd) ==
  LET sender == opened[fd]
      Sent(c) == Cardinality({j \in Audience(fd) : opened[table[j].fd] = c})
      After(c) == CASE c = sender /\ ~member[c].unread -> "broken"
                    [] c # sender /\ Sent(c) > 0 /\ member[c].at \in {"closed", "reset"} -> "broken"
                    [] OTHER -> member[c].at
  IN /\ member[sender].unread \/ member[sender].at = "reset"
     /\ alive' = \A c \in Clients : Sent(c) > 0 => member[c].at # "broken"
     /\ copies' = [c \in Clients |-> Sent(c)]
     /\ member' = [c \in Clients |-> [at |-> After(c), unread |-> member[c].unread /\ c # sender]]
     /\ table' = [j \in DOMAIN table |->
                    IF table[j].fd = fd THEN [table[j] EXCEPT !.quiet = FALSE] ELSE table[j]]
     /\ UNCHANGED opened

Gone(c) == c \in Clients /\ ~member[c].unread /\ member[c].at \in {"closed", "broken"}

Close(fds) ==
  /\ opened' = [fd \in Fds |-> IF fd \in fds THEN NoClient ELSE opened[fd]]
  /\ member' = [c \in Clients |-> IF \E fd \in fds : opened[fd] = c
                                  THEN [at |-> "gone", unread |-> FALSE] ELSE member[c]]

\* Mutant: the end of the connection is not noticed.
HangupIgnored(fd) ==
  Gone(opened[fd]) /\ UNCHANGED <<table, opened, member, alive>> /\ NoMessage

\* recv returns 0.
Hangup(fd) ==
  /\ Gone(opened[fd])
  /\ table' = [j \in DOMAIN table |->
                 IF table[j].fd = fd THEN [table[j] EXCEPT !.connected = FALSE] ELSE table[j]]
  /\ Close({fd})
  /\ UNCHANGED <<alive>> /\ NoMessage

Handle ==
  /\ alive /\ polled
  /\ \E event \in batch :
       /\ batch' = batch \ {event}
       /\ \/ Accept(event) /\ UNCHANGED alive
          \/ event.fd # Listener /\ Broadcast(event.fd)
          \/ event.fd # Listener /\ Hangup(event.fd)
  /\ UNCHANGED polled

\* Who was quiet for too long.
Quiet == {j \in DOMAIN table : table[j].connected /\ table[j].quiet}

\* Mutant: clients are evicted between two events.
EvictInBetween ==
  /\ alive /\ polled /\ polled' = (batch # {})
  /\ table' = [j \in DOMAIN table |->
                 IF j \in Quiet THEN [table[j] EXCEPT !.connected = FALSE] ELSE table[j]]
  /\ Close({table[j].fd : j \in Quiet})
  /\ UNCHANGED <<batch, alive>> /\ NoMessage

\* Behind the events of a round.
Evict ==
  /\ alive /\ polled /\ batch = {} /\ polled' = FALSE
  /\ table' = [j \in DOMAIN table |->
                 IF j \in Quiet THEN [table[j] EXCEPT !.connected = FALSE] ELSE table[j]]
  /\ Close({table[j].fd : j \in Quiet})
  /\ UNCHANGED <<batch, alive>> /\ NoMessage

Serve == Poll \/ Handle \/ Evict

RoomNext ==
  \/ Serve
  \/ \E c \in Clients : Connect(c) \/ Speak(c) \/ Depart(c)
  \/ \E j \in DOMAIN table : GrowQuiet(j)

RoomSpec == RoomInit /\ [][RoomNext]_room /\ WF_room(Serve)

-----------------------------------------------------------------------------

\* However often a descriptor was used, exactly one connected entry of the table
\* stands for each client that is there, and none for a closed descriptor
\* (server.c:54-60, 68-74, 98-105).
OneEntryEach ==
  \A fd \in Fds : Cardinality({j \in DOMAIN table : table[j].connected /\ table[j].fd = fd})
                  = IF opened[fd] = NoClient THEN 0 ELSE 1

\* An event is handled for the client it was reported of: its descriptor was
\* neither closed nor used again in between (server.c:44-96).
EventsAreCurrent == \A event \in batch : event.fd # Listener => opened[event.fd] = event.client

\* Table, events and descriptors speak of the same clients.
TableConsistent == OneEntryEach /\ EventsAreCurrent

\* A message reaches everybody else in the room once (server.c:79-88), unless the
\* server dies of it.
Heard ==
  \A c \in Clients : member[c].unread /\ ~member'[c].unread /\ member'[c].at # "gone" /\ alive' =>
    copies' = [d \in Clients |-> IF d # c /\ d \in Joined THEN 1 ELSE 0]
HeardOnce == [][Heard]_room

\* Whoever has left is let go of, unless the server dies (server.c:63-76).
Left(c) == member[c].at \in {"closed", "reset", "broken"}
LetGo(c) == member[c].at = "gone" \/ ~alive
LeaversAreLetGo == \A c \in Clients : Left(c) ~> LetGo(c)
=============================================================================
