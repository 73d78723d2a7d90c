------------------------------- MODULE MCThreads -------------------------------
(***************************************************************************)
(* Three programs whose threads share a mutex: the pool of NetDisk with    *)
(* its four workers and five tasks, so that tasks wait while all are busy, *)
(* the ticket sellers 0005 and the file server 0009.  A behaviour is of    *)
(* one of them; the variables of the others stay as they are.              *)
(***************************************************************************)
EXTENDS ThreadPool
CONSTANTS Clients, NoClient, w1, w2, c1
VARIABLES program, v1, v2, v3, v4, v5, v6    \* the last six of Tickets or FileServer

T == INSTANCE Tickets WITH
       Initial <- 20, Low <- 5, Supplied <- 10,
       world <- v1, tickets <- v2, flag <- v3, seller <- v4, supplier <- v5, sold <- v6
F == INSTANCE FileServer WITH
       Workers <- {w1, w2},
       queue <- v1, exit_flag <- v2, main <- v3, worker <- v4, client <- v5, state <- v6

others == <<v1, v2, v3, v4, v5, v6>>
all == <<program, vars, others>>

MCInit ==
  /\ Init   \* of the pool
  /\ \/ program = "pool" /\ v1 = 0 /\ v2 = 0 /\ v3 = 0 /\ v4 = 0 /\ v5 = 0 /\ v6 = 0
     \/ program = "tickets" /\ T!Init
     \/ program = "files" /\ F!Init

\* A step of one program leaves the variables of the others alone.
Pool(A) == program = "pool" /\ A /\ UNCHANGED <<program, others>>
Other(p, A) == program = p /\ A /\ UNCHANGED <<program, vars>>

MCNext == Pool(Next) \/ Other("tickets", T!Next) \/ Other("files", F!Next)

\* The fairness of each program, as its module states it.
MCFairness ==
  /\ \A w \in Worker : WF_all(Pool(Wait(w) \/ Take(w) \/ Leave(w))) /\ WF_all(Pool(Finish(w)))
  /\ WF_all(Pool(Join))
  /\ WF_all(Other("tickets", T!Waits /\ (T!SellerEnds \/ T!Sell \/ T!Supplier)))
  /\ SF_all(Other("tickets", T!Waits /\ T!Buy))
  /\ WF_all(Other("files", \E w \in {w1, w2} : F!AtLock(w))) /\ WF_all(Other("files", F!Join))
  /\ \A w \in {w1, w2} : WF_all(Other("files", F!Session(w)))
  /\ \A c \in Clients : WF_all(Other("files", F!Ask(c)))

MCSpec == MCInit /\ [][MCNext]_all /\ MCFairness

\* Seller and supplier with the condition variable end, with everything sold (0005,
\* 2.条件变量/main.c:34-37, 77-78) ...
BothEnd ==
  \/ (program = "tickets" /\ T!NotYet) ~> (program = "tickets" => ~T!NotYet)
  \/ []<><<Other("tickets", T!SpuriousWakeup)>>_all
\* ... and a queued client, one as good as another, is served unless all workers
\* are gone, and the server told to end does (0009, main.c:56-74, worker.c:8-19).
NobodyIsLeftWaiting ==
  /\ (program = "files" /\ F!Queued(c1)) ~> (program = "files" => F!Served(c1))
  /\ (program = "files" /\ v3 = "joining") ~> (program = "files" => v3 = "ended")
================================================================================
