----------------------------- MODULE ThreadPool ------------------------------
(***************************************************************************)
(* The pool of worker threads of the NetDisk server: server/thread_pool.c, *)
(* the head of the loop of server/worker.c and the part of server/main.c   *)
(* that feeds the pool and stops it.  A task is one accepted connection.   *)
(*                                                                         *)
(* Each critical section of pool->mutex neither blocks nor calls out, so   *)
(* it is one action.  The condition variable is the set of the workers     *)
(* inside pthread_cond_wait (pc = "waiting"): a signal moves one of them   *)
(* back to the mutex, a broadcast all, and any of them may wake for no     *)
(* reason.  What a worker does with its task is ConnServer.                *)
(***************************************************************************)
EXTENDS Integers, Sequences, FiniteSets

CONSTANTS Worker, Task,
          None    \* no task

ASSUME WorkerAssumption == IsFiniteSet(Worker)
ASSUME TaskAssumption == None \notin Task

VARIABLES
  queue,      \* pool->queue
  exit_flag,  \* pool->exit_flag
  pc,         \* where each worker is: at the mutex ("ready"), in
              \* pthread_cond_wait ("waiting"), with a task, or gone
  task,       \* the task a worker has
  status,     \* where each task has got to
  main        \* the main thread: feeding the pool, joining it, finished

vars == <<queue, exit_flag, pc, task, status, main>>

At(l) == {w \in Worker : pc[w] = l}

TypeOK == /\ queue \in Seq(Task)
          /\ exit_flag \in BOOLEAN
          /\ pc \in [Worker -> {"ready", "waiting", "serving", "exited"}]
          /\ task \in [Worker -> Task \cup {None}]
          /\ status \in [Task -> {"new", "queued", "running", "done"}]
          /\ main \in {"feeding", "joining", "joined"}

\* init_thread_pool.
Init == /\ queue = <<>>
        /\ exit_flag = FALSE
        /\ pc = [w \in Worker |-> "ready"]
        /\ task = [w \in Worker |-> None]
        /\ status = [t \in Task |-> "new"]
        /\ main = "feeding"

\* Mutant: the wake-up saved when the queue is not empty.
SignalIfFirst ==
  IF queue # <<>> \/ At("waiting") = {}
  THEN UNCHANGED pc
  ELSE \E w \in At("waiting") : pc' = [pc EXCEPT ![w] = "ready"]

\* Mutant: no wake-up at all.
SignalNobody == UNCHANGED pc

\* pthread_cond_signal: one of those waiting, if there are any.
Signal == IF At("waiting") = {}
          THEN UNCHANGED pc
          ELSE \E w \in At("waiting") : pc' = [pc EXCEPT ![w] = "ready"]

\* pthread_cond_broadcast.
Broadcast == pc' = [w \in Worker |-> IF pc[w] = "waiting" THEN "ready" ELSE pc[w]]

\* The main thread queues a connection.
Submit(t) ==
  /\ main = "feeding"
  /\ status[t] = "new"
  /\ queue' = Append(queue, t)
  /\ status' = [status EXCEPT ![t] = "queued"]
  /\ Signal
  /\ UNCHANGED <<exit_flag, task, main>>

\* A worker finds nothing to do and no reason to leave.
Wait(w) ==
  /\ pc[w] = "ready"
  /\ queue = <<>> /\ ~exit_flag
  /\ pc' = [pc EXCEPT ![w] = "waiting"]
  /\ UNCHANGED <<queue, exit_flag, task, status, main>>

\* pthread_cond_wait may return unasked.
SpuriousWakeup(w) ==
  /\ pc[w] = "waiting"
  /\ pc' = [pc EXCEPT ![w] = "ready"]
  /\ UNCHANGED <<queue, exit_flag, task, status, main>>

\* Mutant: the task is read but stays in the queue.
TakeWithoutDequeue(w) ==
  /\ pc[w] = "ready"
  /\ queue # <<>> /\ ~exit_flag
  /\ task' = [task EXCEPT ![w] = Head(queue)]
  /\ status' = [status EXCEPT ![Head(queue)] = "running"]
  /\ pc' = [pc EXCEPT ![w] = "serving"]
  /\ UNCHANGED <<queue, exit_flag, main>>

\* deTask.
Take(w) ==
  /\ pc[w] = "ready"
  /\ queue # <<>> /\ ~exit_flag
  /\ task' = [task EXCEPT ![w] = Head(queue)]
  /\ queue' = Tail(queue)
  /\ status' = [status EXCEPT ![Head(queue)] = "running"]
  /\ pc' = [pc EXCEPT ![w] = "serving"]
  /\ UNCHANGED <<exit_flag, main>>

\* The session with the client is over.
Finish(w) ==
  /\ pc[w] = "serving"
  /\ pc' = [pc EXCEPT ![w] = "ready"]
  /\ task' = [task EXCEPT ![w] = None]
  /\ status' = [status EXCEPT ![task[w]] = "done"]
  /\ UNCHANGED <<queue, exit_flag, main>>

\* The flag is looked at before the queue: what is queued stays there.
Leave(w) ==
  /\ pc[w] = "ready"
  /\ exit_flag
  /\ pc' = [pc EXCEPT ![w] = "exited"]
  /\ UNCHANGED <<queue, exit_flag, task, status, main>>

\* Mutant: one worker is told instead of all.
ShutdownWithSignal ==
  /\ main = "feeding"
  /\ exit_flag' = TRUE
  /\ Signal
  /\ main' = "joining"
  /\ UNCHANGED <<queue, task, status>>

\* The main thread sets the flag and tells everybody ...
Shutdown ==
  /\ main = "feeding"
  /\ exit_flag' = TRUE
  /\ Broadcast
  /\ main' = "joining"
  /\ UNCHANGED <<queue, task, status>>

\* ... and waits for all of them.
Join ==
  /\ main = "joining"
  /\ At("exited") = Worker
  /\ main' = "joined"
  /\ UNCHANGED <<queue, exit_flag, pc, task, status>>

\* The only place where the pool may come to rest.
AllOver == main = "joined" /\ UNCHANGED vars

Next == \/ \E t \in Task : Submit(t)
        \/ \E w \in Worker : \/ Wait(w) \/ SpuriousWakeup(w)
                             \/ Take(w) \/ Finish(w) \/ Leave(w)
        \/ Shutdown
        \/ Join
        \/ AllOver

Spec == Init /\ [][Next]_vars

\* A worker at the mutex gets it in the end, sessions end, and so does Join.
Fairness == /\ \A w \in Worker : WF_vars(Wait(w) \/ Take(w) \/ Leave(w))
            /\ \A w \in Worker : WF_vars(Finish(w))
            /\ WF_vars(Join)

FairSpec == Spec /\ Fairness

------------------------------------------------------------------------------
(* Properties.                                                             *)

\* While anybody sleeps there are at least as many workers on their way to the
\* mutex as tasks in the queue: no wake-up is lost, though each submission only
\* wakes one worker and another may take the task first (main.c:105-110 against
\* worker.c:11-21).
NoLostWakeup ==
  At("waiting") # {} => Len(queue) <= Cardinality(At("ready"))

\* Nobody sleeps once the pool is told to stop, so nobody can miss it
\* (main.c:81-84, worker.c:13-19).
NobodySleepsAtExit == exit_flag => At("waiting") = {}

\* A task is in the queue or with a worker, once, exactly as long as it should
\* be; nobody else works on it and it is not forgotten (task.c:5-38).
TaskInOnePlace ==
  /\ \A i, j \in DOMAIN queue : queue[i] = queue[j] => i = j
  /\ \A v, w \in Worker : task[v] = task[w] /\ task[v] # None => v = w
  /\ \A t \in Task :
       /\ status[t] = "queued"  <=> \E i \in DOMAIN queue : queue[i] = t
       /\ status[t] = "running" <=> \E w \in Worker : task[w] = t

\* No task is lost or doubled on its way, and nobody misses the end of the pool.
PoolConsistent == /\ TypeOK
                  /\ TaskInOnePlace
                  /\ NobodySleepsAtExit

\* A queued connection gets a worker, unless the pool is stopped first.
QueuedIsServed ==
  \A t \in Task : (status[t] = "queued") ~> (status[t] # "queued" \/ exit_flag)

\* A pool told to stop does stop, if sessions end.
StopsWhenTold == exit_flag ~> (main = "joined")
==============================================================================
