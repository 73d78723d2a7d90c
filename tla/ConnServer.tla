----------------------------- MODULE ConnServer ------------------------------
(***************************************************************************)
(* The life of a connection in the NetDisk server: the main thread accepts *)
(* it, enters its descriptor in the timing wheel and queues it; a worker   *)
(* of the pool runs a session on it; the wheel, from the main thread, may  *)
(* close it at any time (server/main.c, server/worker.c).                  *)
(*                                                                         *)
(* Everything in the server names a connection by its descriptor, and the  *)
(* kernel gives a descriptor that was closed to the next connection.  So   *)
(* conn says what each descriptor denotes at the moment, and a call of     *)
(* recv holds on to the connection it began on (sock), as Linux does when  *)
(* another thread closes the descriptor meanwhile.                         *)
(*                                                                         *)
(* The wheel is IdleTimer; the pool is refined: see Pool at the end.  What *)
(* a handler does with a command is left out, but for its answer.          *)
(***************************************************************************)
EXTENDS Naturals, Sequences, FiniteSets

CONSTANTS Conn,     \* the connections clients make, one after the other
          Worker, Fd,
          Budget,   \* steps of the wheel an idle connection is allowed
          Steps,    \* the numbers of steps a tick may make
          MaxSent,  \* messages a client may send: a bound
          None      \* no connection, no descriptor

ASSUME NoneAssumption == None \notin Conn \cup Fd
ASSUME BudgetAssumption == Budget \in Nat \ {0}
ASSUME StepsAssumption == Steps \subseteq 0..(Budget + 1)
ASSUME MaxSentAssumption == MaxSent \in Nat

NoHand == [fd |-> None, conn |-> None]

VARIABLES
  \* clients and kernel
  link,       \* "new", "backlog" (waiting for accept) or "accepted"
  inbox,      \* messages sent to the server and not read
  sent,       \* messages sent
  gone,       \* clients that have closed their end
  conn,       \* the connection each descriptor denotes, None if it is free
  \* main thread
  main,       \* where it is
  ready,      \* the events epoll_wait reported that are not handled yet
  hand,       \* the connection being accepted: descriptor and connection
  signalled,  \* the parent has written into the pipe
  remaining,  \* g_tw
  \* pool
  queue,      \* pool.queue: descriptors; the connection beside each is the
              \* one it was accepted for, which no code can see
  exit_flag,
  \* workers
  pc,
  fd,         \* client_fd
  owner,      \* the connection the session was opened for (not seen by code)
  stage,      \* what the next recv is to read: "type" or "path"
  sock,       \* the connection a recv in progress reads from
  reading     \* the connection the command in hand was read from

clientVars == <<link, inbox, sent, gone>>
mainVars   == <<main, ready, hand, signalled>>
workerVars == <<fd, owner, stage, sock, reading>>
vars == <<clientVars, conn, mainVars, remaining, queue, exit_flag, pc, workerVars>>

Wheel == INSTANCE IdleTimer

At(l) == {w \in Worker : pc[w] = l}
Free == {d \in Fd : conn[d] = None}
Backlog == {c \in Conn : link[c] = "backlog"}

\* A connection exists on the server's side until the last reference is gone.
Alive(c) == \/ link[c] = "backlog"
            \/ \E d \in Fd : conn[d] = c
            \/ \E w \in Worker : sock[w] = c

InSession == {"recv", "blocked", "refresh", "handle", "forget", "close"}

TypeOK ==
  /\ link \in [Conn -> {"new", "backlog", "accepted"}]
  /\ inbox \in [Conn -> 0..MaxSent] /\ sent \in [Conn -> 0..MaxSent]
  /\ gone \subseteq Conn
  /\ conn \in [Fd -> Conn \cup {None}]
  /\ main \in {"poll", "events", "readd", "enqueue", "joining", "joined"}
  /\ ready \subseteq {"listen", "pipe"}
  /\ hand \in [fd : Fd, conn : Conn] \cup {NoHand}
  /\ signalled \in BOOLEAN /\ exit_flag \in BOOLEAN
  /\ Wheel!TypeOK
  /\ queue \in Seq([fd : Fd, conn : Conn])
  /\ pc \in [Worker -> {"ready", "waiting", "exited"} \cup InSession]
  /\ fd \in [Worker -> Fd \cup {None}]
  /\ owner \in [Worker -> Conn \cup {None}]
  /\ stage \in [Worker -> {"type", "path"}]
  /\ sock \in [Worker -> Conn \cup {None}]
  /\ reading \in [Worker -> Conn \cup {None}]

Init ==
  /\ link = [c \in Conn |-> "new"]
  /\ inbox = [c \in Conn |-> 0] /\ sent = [c \in Conn |-> 0]
  /\ gone = {}
  /\ conn = [d \in Fd |-> None]
  /\ main = "poll" /\ ready = {} /\ hand = NoHand
  /\ signalled = FALSE /\ exit_flag = FALSE
  /\ Wheel!Init
  /\ queue = <<>>
  /\ pc = [w \in Worker |-> "ready"]
  /\ fd = [w \in Worker |-> None]
  /\ owner = [w \in Worker |-> None]
  /\ stage = [w \in Worker |-> "type"]
  /\ sock = [w \in Worker |-> None]
  /\ reading = [w \in Worker |-> None]

------------------------------------------------------------------------------
(* Clients, and the user of the server.                                    *)

Connect(c) ==
  /\ link[c] = "new"
  /\ link' = [link EXCEPT ![c] = "backlog"]
  /\ UNCHANGED <<inbox, sent, gone, conn, mainVars, remaining, queue, exit_flag,
                 pc, workerVars>>

Send(c) ==
  /\ Alive(c) /\ c \notin gone
  /\ sent[c] < MaxSent
  /\ sent' = [sent EXCEPT ![c] = @ + 1]
  /\ inbox' = [inbox EXCEPT ![c] = @ + 1]
  /\ UNCHANGED <<link, gone, conn, mainVars, remaining, queue, exit_flag, pc,
                 workerVars>>

\* The client exits, or breaks off.
Hangup(c) ==
  /\ link[c] # "new" /\ c \notin gone
  /\ gone' = gone \cup {c}
  /\ UNCHANGED <<link, inbox, sent, conn, mainVars, remaining, queue, exit_flag,
                 pc, workerVars>>

\* SIGINT: the parent process writes into the pipe.
Interrupt ==
  /\ ~signalled
  /\ signalled' = TRUE
  /\ UNCHANGED <<clientVars, conn, main, ready, hand, remaining, queue,
                 exit_flag, pc, workerVars>>

------------------------------------------------------------------------------
(* The main thread.                                                        *)

\* epoll_wait returns, and the wheel is brought up to date before anything
\* else: the connections that have expired are told so and closed.
Poll ==
  /\ main = "poll"
  /\ ready' = (IF Backlog # {} /\ Free # {} THEN {"listen"} ELSE {})
                \cup (IF signalled THEN {"pipe"} ELSE {})
  /\ main' = "events"
  /\ \E k \in Steps :
       /\ Wheel!Elapse(k)
       /\ conn' = [d \in Fd |-> IF d \in Wheel!Expiring(k) THEN None ELSE conn[d]]
  /\ UNCHANGED <<clientVars, hand, signalled, queue, exit_flag, pc, workerVars>>

\* Mutant: the accepted descriptor is not entered in the wheel.
AcceptUntracked ==
  /\ main = "events" /\ "listen" \in ready
  /\ \E c \in Backlog, d \in Free :
       /\ link' = [link EXCEPT ![c] = "accepted"]
       /\ conn' = [conn EXCEPT ![d] = c]
       /\ hand' = [fd |-> d, conn |-> c]
  /\ main' = "enqueue"
  /\ ready' = ready \ {"listen"}
  /\ UNCHANGED <<inbox, sent, gone, signalled, remaining, queue, exit_flag, pc, workerVars>>

\* accept gives any free descriptor; time_wheel_add enters it if it is new.
\* The descriptor may still be in the wheel: then its entry is refreshed, but
\* after the wheel's mutex was given up once (see AddKnown in TimeWheel).
Accept ==
  /\ main = "events" /\ "listen" \in ready
  /\ \E c \in Backlog, d \in Free :
       /\ link' = [link EXCEPT ![c] = "accepted"]
       /\ conn' = [conn EXCEPT ![d] = c]
       /\ hand' = [fd |-> d, conn |-> c]
       /\ IF d \in Wheel!tracked
          THEN main' = "readd" /\ UNCHANGED remaining
          ELSE main' = "enqueue" /\ Wheel!Arm(d)
  /\ ready' = ready \ {"listen"}
  /\ UNCHANGED <<inbox, sent, gone, signalled, queue, exit_flag, pc, workerVars>>

ReAdd ==
  /\ main = "readd"
  /\ main' = "enqueue"
  /\ IF hand.fd \in Wheel!tracked THEN Wheel!Rearm(hand.fd) ELSE UNCHANGED remaining
  /\ UNCHANGED <<clientVars, conn, ready, hand, signalled, queue, exit_flag,
                 pc, workerVars>>

\* Mutant: no wake-up at all.
SignalNobody == UNCHANGED pc

\* pthread_cond_signal.
Signal == IF At("waiting") = {}
          THEN UNCHANGED pc
          ELSE \E w \in At("waiting") : pc' = [pc EXCEPT ![w] = "ready"]

\* Mutant: the descriptor is queued and nobody told.
EnqueueSilently ==
  /\ main = "enqueue"
  /\ queue' = Append(queue, hand)
  /\ UNCHANGED pc
  /\ hand' = NoHand
  /\ main' = "events"
  /\ UNCHANGED <<clientVars, conn, ready, signalled, remaining, exit_flag,
                 workerVars>>

Enqueue ==
  /\ main = "enqueue"
  /\ queue' = Append(queue, hand)
  /\ Signal
  /\ hand' = NoHand
  /\ main' = "events"
  /\ UNCHANGED <<clientVars, conn, ready, signalled, remaining, exit_flag,
                 workerVars>>

\* The pipe is readable: tell the pool to stop, and join it.
Stop ==
  /\ main = "events" /\ "pipe" \in ready
  /\ exit_flag' = TRUE
  /\ pc' = [w \in Worker |-> IF pc[w] = "waiting" THEN "ready" ELSE pc[w]]
  /\ main' = "joining"
  /\ UNCHANGED <<clientVars, conn, ready, hand, signalled, remaining, queue,
                 workerVars>>

NextPoll ==
  /\ main = "events" /\ ready = {}
  /\ main' = "poll"
  /\ UNCHANGED <<clientVars, conn, ready, hand, signalled, remaining, queue,
                 exit_flag, pc, workerVars>>

\* The last worker is joined; time_wheel_destroy closes what it tracks.
Join ==
  /\ main = "joining"
  /\ At("exited") = Worker
  /\ conn' = [d \in Fd |-> IF d \in Wheel!tracked THEN None ELSE conn[d]]
  /\ remaining' = [d \in Fd |-> 0]
  /\ main' = "joined"
  /\ UNCHANGED <<clientVars, ready, hand, signalled, queue, exit_flag, pc,
                 workerVars>>

MainStep == Poll \/ Accept \/ ReAdd \/ Enqueue \/ Stop \/ NextPoll \/ Join

------------------------------------------------------------------------------
(* A worker.                                                               *)

Goto(w, l) == pc' = [pc EXCEPT ![w] = l]

Wait(w) ==
  /\ pc[w] = "ready"
  /\ queue = <<>> /\ ~exit_flag
  /\ Goto(w, "waiting")
  /\ UNCHANGED <<clientVars, conn, mainVars, remaining, queue, exit_flag, workerVars>>

SpuriousWakeup(w) ==
  /\ pc[w] = "waiting"
  /\ Goto(w, "ready")
  /\ UNCHANGED <<clientVars, conn, mainVars, remaining, queue, exit_flag, workerVars>>

Leave(w) ==
  /\ pc[w] = "ready"
  /\ exit_flag
  /\ Goto(w, "exited")
  /\ UNCHANGED <<clientVars, conn, mainVars, remaining, queue, exit_flag, workerVars>>

\* deTask, and the new session.
Take(w) ==
  /\ pc[w] = "ready"
  /\ queue # <<>> /\ ~exit_flag
  /\ queue' = Tail(queue)
  /\ fd' = [fd EXCEPT ![w] = Head(queue).fd]
  /\ owner' = [owner EXCEPT ![w] = Head(queue).conn]
  /\ stage' = [stage EXCEPT ![w] = "type"]
  /\ Goto(w, "recv")
  /\ UNCHANGED <<clientVars, conn, mainVars, remaining, exit_flag, sock, reading>>

\* A call of recv resolves the descriptor; a closed one fails at once.
CallRecv(w) ==
  /\ pc[w] = "recv"
  /\ sock' = [sock EXCEPT ![w] = conn[fd[w]]]
  /\ Goto(w, IF conn[fd[w]] = None THEN "forget" ELSE "blocked")
  /\ UNCHANGED <<clientVars, conn, mainVars, remaining, queue, exit_flag, fd, owner,
                 stage, reading>>

\* recv returns a message: the type of a command, or the path that belongs to it.
Receive(w) ==
  /\ pc[w] = "blocked" /\ inbox[sock[w]] > 0
  /\ inbox' = [inbox EXCEPT ![sock[w]] = @ - 1]
  /\ sock' = [sock EXCEPT ![w] = None]
  /\ reading' = [reading EXCEPT ![w] = sock[w]]
  /\ Goto(w, IF stage[w] = "type" THEN "refresh" ELSE "handle")
  /\ UNCHANGED <<link, sent, gone, conn, mainVars, remaining, queue, exit_flag, fd,
                 owner, stage>>

\* Mutant: end of file taken for an empty message.
EndOfFileIgnored(w) ==
  /\ pc[w] = "blocked" /\ inbox[sock[w]] = 0 /\ sock[w] \in gone
  /\ sock' = [sock EXCEPT ![w] = None]
  /\ Goto(w, "recv")
  /\ UNCHANGED <<clientVars, conn, mainVars, remaining, queue, exit_flag, fd, owner,
                 stage, reading>>

\* recv returns 0.
EndOfFile(w) ==
  /\ pc[w] = "blocked" /\ inbox[sock[w]] = 0 /\ sock[w] \in gone
  /\ sock' = [sock EXCEPT ![w] = None]
  /\ Goto(w, "forget")
  /\ UNCHANGED <<clientVars, conn, mainVars, remaining, queue, exit_flag, fd, owner,
                 stage, reading>>

\* time_wheel_refresh; a ping ends there, ls and pwd have no path to wait for.
Refresh(w) ==
  /\ pc[w] = "refresh"
  /\ IF fd[w] \in Wheel!tracked THEN Wheel!Rearm(fd[w]) ELSE UNCHANGED remaining
  /\ \/ Goto(w, "recv") /\ reading' = [reading EXCEPT ![w] = None] /\ UNCHANGED stage
     \/ Goto(w, "recv") /\ stage' = [stage EXCEPT ![w] = "path"] /\ UNCHANGED reading
     \/ Goto(w, "handle") /\ UNCHANGED <<stage, reading>>
  /\ UNCHANGED <<clientVars, conn, mainVars, queue, exit_flag, fd, owner, sock>>

\* The handler runs and answers, to whatever the descriptor denotes now.
Handle(w) ==
  /\ pc[w] = "handle"
  /\ stage' = [stage EXCEPT ![w] = "type"]
  /\ reading' = [reading EXCEPT ![w] = None]
  /\ Goto(w, "recv")
  /\ UNCHANGED <<clientVars, conn, mainVars, remaining, queue, exit_flag, fd, owner, sock>>

\* Mutant: closed first, deleted from the wheel afterwards.
ForgetAfterClose(w) ==
  \/ /\ pc[w] = "forget"
     /\ conn' = [conn EXCEPT ![fd[w]] = None]
     /\ Goto(w, "forgotten")
     /\ UNCHANGED <<clientVars, mainVars, remaining, queue, exit_flag, workerVars>>
  \/ /\ pc[w] = "forgotten"
     /\ Wheel!Disarm(fd[w])
     /\ Goto(w, "close")
     /\ UNCHANGED <<clientVars, conn, mainVars, queue, exit_flag, workerVars>>

\* time_wheel_del.
Forget(w) ==
  /\ pc[w] = "forget"
  /\ Wheel!Disarm(fd[w])
  /\ Goto(w, "close")
  /\ UNCHANGED <<clientVars, conn, mainVars, queue, exit_flag, workerVars>>

\* Mutant: the descriptor is not closed.
CloseNothing(w) ==
  /\ pc[w] = "close"
  /\ Goto(w, "ready")
  /\ fd' = [fd EXCEPT ![w] = None]
  /\ owner' = [owner EXCEPT ![w] = None]
  /\ reading' = [reading EXCEPT ![w] = None]
  /\ UNCHANGED <<clientVars, conn, mainVars, remaining, queue, exit_flag, stage, sock>>

\* Mutant: the next session starts without a look at the queue, on the
\* descriptor just closed.
CloseKeepingSession(w) ==
  /\ pc[w] = "close"
  /\ conn' = [conn EXCEPT ![fd[w]] = None]
  /\ Goto(w, "recv")
  /\ UNCHANGED <<clientVars, mainVars, remaining, queue, exit_flag, workerVars>>

\* close, whatever the descriptor denotes now; the session is over.
Close(w) ==
  /\ pc[w] = "close"
  /\ conn' = [conn EXCEPT ![fd[w]] = None]
  /\ Goto(w, "ready")
  /\ fd' = [fd EXCEPT ![w] = None]
  /\ owner' = [owner EXCEPT ![w] = None]
  /\ reading' = [reading EXCEPT ![w] = None]
  /\ UNCHANGED <<clientVars, mainVars, remaining, queue, exit_flag, stage, sock>>

WorkerStep(w) == \/ Wait(w) \/ Leave(w) \/ Take(w) \/ CallRecv(w) \/ Receive(w)
                 \/ EndOfFile(w) \/ Refresh(w) \/ Handle(w) \/ Forget(w) \/ Close(w)

AllOver == main = "joined" /\ UNCHANGED vars

Next == \/ \E c \in Conn : Connect(c) \/ Send(c) \/ Hangup(c)
        \/ Interrupt
        \/ MainStep
        \/ \E w \in Worker : WorkerStep(w) \/ SpuriousWakeup(w)
        \/ AllOver

Spec == Init /\ [][Next]_vars

\* The threads are scheduled; nothing is assumed of the clients.
FairSpec == Spec /\ WF_vars(MainStep) /\ \A w \in Worker : WF_vars(WorkerStep(w))

\* Besides, clients that connect leave in the end.
PoliteSpec == FairSpec /\ \A c \in Conn : WF_vars(Hangup(c))

------------------------------------------------------------------------------
(* Properties that hold.                                                   *)

Queued(c) == \E i \in DOMAIN queue : queue[i].conn = c

\* No descriptor is forgotten open: whatever is accepted is in the hand of the
\* main thread, in the queue or in the hands of the worker that will close it,
\* also when the wheel has closed its number under another connection before
\* (main.c:96-110, worker.c:71-78, timewheel.c:253-255).
NoDescriptorLeak ==
  main # "joined" =>
    \A d \in Fd : conn[d] # None =>
      \/ hand = [fd |-> d, conn |-> conn[d]]
      \/ \E i \in DOMAIN queue : queue[i] = [fd |-> d, conn |-> conn[d]]
      \/ \E w \in Worker : fd[w] = d /\ owner[w] = conn[d]

\* Every descriptor and session is accounted for.
Accounted == TypeOK /\ NoDescriptorLeak

\* As long as the wheel does not expire anybody, a session only ever gets the
\* commands of the client it was opened for (worker.c:25-69).
SessionOfOneClient ==
  \A w \in Worker : pc[w] \in {"refresh", "handle"} => reading[w] = owner[w]

\* ... the wheel only ever loses an entry on behalf of the client that left
\* (worker.c:75-77) ...
ForgetsOwnClient ==
  [][\A w \in Worker : Forget(w) => conn[fd[w]] \in {owner[w], None}]_vars

\* ... and every open connection can be expired: it is in the wheel, except
\* while it is being entered or left (main.c:101-103, worker.c:75-78).
OpenIsTracked ==
  main # "joined" =>
    \A d \in Fd : conn[d] # None =>
      \/ d \in Wheel!tracked
      \/ \E w \in At("close") : fd[w] = d

\* The pool at work here is ThreadPool: its tasks are the connections, in the
\* order accepted, and a worker serves one from deTask to close.
Pool == INSTANCE ThreadPool WITH
  Task   <- Conn,
  queue  <- [i \in DOMAIN queue |-> queue[i].conn],
  pc     <- [w \in Worker |-> IF pc[w] \in InSession THEN "serving" ELSE pc[w]],
  task   <- owner,
  status <- [c \in Conn |->
               IF Queued(c) THEN "queued"
               ELSE IF \E w \in Worker : owner[w] = c THEN "running"
               ELSE IF link[c] = "accepted" /\ hand.conn # c
               THEN "done" ELSE "new"],
  main   <- IF main \in {"joining", "joined"} THEN main ELSE "feeding"
ImplementsPool == Pool!Spec

\* If clients leave in the end, whoever connects gets a worker unless the server
\* is stopped (main.c:95-110, worker.c:11-26) ...
EveryClientServed ==
  \A c \in Conn : (link[c] = "backlog") ~> (exit_flag \/ \E w \in Worker : owner[w] = c)

\* ... and an interrupted server comes to its end (main.c:75-94).
ShutdownCompletes == signalled ~> (main = "joined")

------------------------------------------------------------------------------
(* What the comments of the code say and the code does not do.             *)

\* timewheel.c:252-255 tells an idle client that it is disconnected, and closes
\* its descriptor: then no worker goes on waiting for its commands.
DisconnectedIsLetGo ==
  \A w \in Worker, c \in Conn :
    (sock[w] = c /\ \A d \in Fd : conn[d] # c) ~> (sock[w] # c)
==============================================================================
