----------------------------- MODULE FileServer -----------------------------
(***************************************************************************)
(* The server 0009: the main thread accepts clients and queues them, a     *)
(* worker takes one, reads the type of the file it wants and sends the     *)
(* file.  A request of an unknown type ends the worker, which returns from *)
(* send_file by pthread_exit.  Ctrl-C makes the main thread set exit_flag, *)
(* wake and join the workers.  Nobody sets exit_flag before that: the pool *)
(* is a variable on the stack of main (main.c:29), and init_thread_pool    *)
(* leaves the flag as it finds it.  The linked queue is a sequence here.   *)
(***************************************************************************)
EXTENDS Naturals, Sequences, FiniteSets

CONSTANTS Clients, Workers, NoClient

VARIABLES queue,    \* the queue of the pool
          exit_flag,  \* 1 ends the workers, 0 lets them wait; 2 stands for the others
          main,     \* serving, joining or ended
          worker,   \* at the lock (ready), waiting, serving or gone
          client,   \* the client a worker serves
          state     \* of each client: where it is (away, queued, answered,
                    \* refused) and what it did (nothing, asked for a file or for
                    \* something unknown, closed without asking)

vars == <<queue, exit_flag, main, worker, client, state>>

Init ==
  /\ queue = <<>> /\ exit_flag \in {0, 1, 2} /\ main = "serving"
  /\ worker = [w \in Workers |-> "ready"] /\ client = [w \in Workers |-> NoClient]
  /\ state = [c \in Clients |-> [at |-> "away", asks |-> "nothing"]]

\* The client sends the type of a file or closes; before it is accepted that is not
\* to be told from later.
Ask(c) ==
  /\ state[c].at = "queued" /\ state[c].asks = "nothing"
  /\ \E asks \in {"file", "unknown", "closed"} : state' = [state EXCEPT ![c].asks = asks]
  /\ UNCHANGED <<queue, exit_flag, main, worker, client>>

-----------------------------------------------------------------------------
(* The main thread.                                                        *)

\* pthread_cond_signal: one of those who wait, if any does.
Signal == IF \E w \in Workers : worker[w] = "waiting"
          THEN \E w \in Workers : worker[w] = "waiting" /\ worker' = [worker EXCEPT ![w] = "ready"]
          ELSE UNCHANGED worker

\* A client that has connected is accepted; it counts as queued until it is done.
Accept(c) ==
  /\ main = "serving" /\ state[c].at = "away"
  /\ queue' = Append(queue, c)
  /\ state' = [state EXCEPT ![c].at = "queued"]
  /\ Signal
  /\ UNCHANGED <<exit_flag, main, client>>

\* Mutant: one worker is woken.
InterruptSignal ==
  /\ main = "serving" /\ main' = "joining" /\ exit_flag' = 1
  /\ Signal
  /\ UNCHANGED <<queue, client, state>>

\* exit_flag under the mutex, and a broadcast.
Interrupt ==
  /\ main = "serving" /\ main' = "joining" /\ exit_flag' = 1
  /\ worker' = [w \in Workers |-> IF worker[w] = "waiting" THEN "ready" ELSE worker[w]]
  /\ UNCHANGED <<queue, client, state>>

Join ==
  /\ main = "joining" /\ \A w \in Workers : worker[w] = "gone"
  /\ main' = "ended"
  /\ UNCHANGED <<queue, exit_flag, worker, client, state>>

-----------------------------------------------------------------------------
(* The workers.                                                            *)

Wait(w) ==
  /\ worker[w] = "ready" /\ queue = <<>> /\ exit_flag = 0
  /\ worker' = [worker EXCEPT ![w] = "waiting"]
  /\ UNCHANGED <<queue, exit_flag, main, client, state>>

SpuriousWakeup(w) ==
  /\ worker[w] = "waiting" /\ worker' = [worker EXCEPT ![w] = "ready"]
  /\ UNCHANGED <<queue, exit_flag, main, client, state>>

Leave(w) ==
  /\ worker[w] = "ready" /\ exit_flag = 1
  /\ worker' = [worker EXCEPT ![w] = "gone"]
  /\ UNCHANGED <<queue, exit_flag, main, client, state>>

\* deQueue returns -1 for an empty queue, which only a flag that is neither 0 nor
\* 1 lets a worker come to.
Take(w) ==
  /\ worker[w] = "ready" /\ exit_flag # 1 /\ (queue # <<>> \/ exit_flag # 0)
  /\ worker' = [worker EXCEPT ![w] = "serving"]
  /\ client' = [client EXCEPT ![w] = IF queue = <<>> THEN NoClient ELSE Head(queue)]
  /\ queue' = IF queue = <<>> THEN queue ELSE Tail(queue)
  /\ UNCHANGED <<exit_flag, main, state>>

\* What the type of the file may be: when the client closed or there is none,
\* recv fails, the type is not read and may be anything.
Asks(w, what) == client[w] # NoClient => state[client[w]].asks \in {what, "closed"}

Over(w, how) == state' = [c \in Clients |-> IF c = client[w] THEN [state[c] EXCEPT !.at = how] ELSE state[c]]

\* The file is sent and the descriptor closed.
SendFile(w) ==
  /\ worker[w] = "serving" /\ Asks(w, "file") /\ Over(w, "answered")
  /\ worker' = [worker EXCEPT ![w] = "ready"]
  /\ client' = [client EXCEPT ![w] = NoClient]
  /\ UNCHANGED <<queue, exit_flag, main>>

\* The unknown type: the worker itself is gone.
Refuse(w) ==
  /\ worker[w] = "serving" /\ Asks(w, "unknown") /\ Over(w, "refused")
  /\ worker' = [worker EXCEPT ![w] = "gone"]
  /\ client' = [client EXCEPT ![w] = NoClient]
  /\ UNCHANGED <<queue, exit_flag, main>>

\* What a worker does with the mutex, and with the client it took.
AtLock(w) == Wait(w) \/ Leave(w) \/ Take(w)
Session(w) == SendFile(w) \/ Refuse(w)
Step(w) == AtLock(w) \/ Session(w)

Next ==
  \/ Interrupt \/ Join
  \/ \E c \in Clients : Ask(c) \/ Accept(c)
  \/ \E w \in Workers : Step(w) \/ SpuriousWakeup(w)

\* Of the workers at the mutex some one gets it, no matter which; clients send or
\* close, so that what waits for them goes on, and so does the join.
Spec ==
  /\ Init /\ [][Next]_vars
  /\ WF_vars(\E w \in Workers : AtLock(w)) /\ (\A w \in Workers : WF_vars(Session(w)))
  /\ WF_vars(Join) /\ (\A c \in Clients : WF_vars(Ask(c)))

-----------------------------------------------------------------------------

\* While a worker waits, every client of the queue has a worker of its own on its
\* way to the queue (main.c:68-73, worker.c:10-18), whatever exit_flag was.
NoneWaitsBesideClients ==
  (\E w \in Workers : worker[w] = "waiting") =>
     Len(queue) <= Cardinality({w \in Workers : worker[w] = "ready"})

\* A client in the queue is served, unless the server is told to end or all
\* workers are gone: for as many clients asked for what is not there
\* (send_file.c:13-18), or exit_flag happened to be 1 from the start.
Queued(c) == state[c].at = "queued"
Served(c) == \/ state[c].at \in {"answered", "refused"} \/ main # "serving"
             \/ \A w \in Workers : worker[w] = "gone"
QueuedIsServed == \A c \in Clients : Queued(c) ~> Served(c)

\* If clients that are served send or close, the server told to end does end
\* (main.c:56-63).
ServerEnds == main = "joining" ~> main = "ended"

\* Neither the clients nor the main thread wait for workers that never come.
NobodyIsLeftWaiting == QueuedIsServed /\ ServerEnds
=============================================================================
