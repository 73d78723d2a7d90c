------------------------------- MODULE MCSockets -------------------------------
(***************************************************************************)
(* Two programs that talk over sockets: the protocol of NetDisk, where one *)
(* of the three commands that are answered by a single sentence stands for *)
(* the others, and the chat room 0008 with three clients, two at a time.   *)
(* A behaviour is of one of them; the variables of the other stay as they  *)
(* are.                                                                    *)
(***************************************************************************)
EXTENDS Protocol, ChatServer

CONSTANT c1
VARIABLE program

SomeCommands == {"cd", "ls", "pwd", "mkdir", "puts", "gets"}

all == <<program, vars, room>>

MCInit == Init /\ RoomInit /\ program \in {"netdisk", "chat"}

NetDisk(A) == program = "netdisk" /\ A /\ UNCHANGED <<program, room>>
Chat(A) == program = "chat" /\ A /\ UNCHANGED <<program, vars>>

MCNext == NetDisk(Next) \/ Chat(RoomNext)

\* The fairness of each program, as its module states it.
MCFairness ==
  /\ WF_all(NetDisk(Ping)) /\ WF_all(NetDisk(Inside)) /\ WF_all(NetDisk(ServerStep))
  /\ WF_all(Chat(Serve))

MCSpec == MCInit /\ [][MCNext]_all /\ MCFairness

\* Whoever leaves the room is let go of, one client as good as another (0008,
\* server.c:63-76).
LeaverIsLetGo == Left(c1) ~> LetGo(c1)
================================================================================
