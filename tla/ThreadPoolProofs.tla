-------------------------- MODULE ThreadPoolProofs ---------------------------
(***************************************************************************)
(* ThreadPool for every number of workers and tasks.                       *)
(***************************************************************************)
EXTENDS ThreadPool, FiniteSetTheorems, TLAPS

\* A worker has a task exactly while it serves it, and the flag is set exactly
\* when the main thread has stopped feeding the pool.
PhasesAgree ==
  /\ \A w \in Worker : pc[w] = "serving" <=> task[w] # None
  /\ exit_flag <=> main # "feeding"

IInv == /\ TypeOK
        /\ PhasesAgree
        /\ NoLostWakeup
        /\ NobodySleepsAtExit
        /\ TaskInOnePlace

LEMMA InitIInv == Init => IInv
<1> SUFFICES ASSUME Init  PROVE IInv
  OBVIOUS
<1> USE DEF Init
<1>1. TypeOK
  <2>1. queue \in Seq(Task)
    OBVIOUS
  <2>2. pc \in [Worker -> {"ready", "waiting", "serving", "exited"}]
    OBVIOUS
  <2>3. /\ task \in [Worker -> Task \cup {None}]
        /\ status \in [Task -> {"new", "queued", "running", "done"}]
    OBVIOUS
  <2>4. exit_flag \in BOOLEAN /\ main \in {"feeding", "joining", "joined"}
    OBVIOUS
  <2> QED
    BY <2>1, <2>2, <2>3, <2>4 DEF TypeOK
<1>2. PhasesAgree
  BY DEF PhasesAgree
<1>3. At("waiting") = {}
  BY DEF At
<1>4. TaskInOnePlace
  BY TaskAssumption DEF TaskInOnePlace
<1> QED
  BY <1>1, <1>2, <1>3, <1>4 DEF IInv, NoLostWakeup, NobodySleepsAtExit

\* The workers at the mutex are finitely many.
LEMMA ReadyCounted ==
  /\ IsFiniteSet(At("ready"))
  /\ Cardinality(At("ready")) \in Nat
<1>1. IsFiniteSet(At("ready"))
  BY WorkerAssumption, FS_Subset DEF At
<1> QED
  BY <1>1, FS_CardinalityType

\* One that comes to the mutex is counted.
LEMMA Arriving ==
  ASSUME pc \in [Worker -> {"ready", "waiting", "serving", "exited"}],
         NEW w \in Worker, pc[w] # "ready", pc' = [pc EXCEPT ![w] = "ready"]
  PROVE  /\ Cardinality(At("ready")') = Cardinality(At("ready")) + 1
         /\ At("waiting")' \subseteq At("waiting")
<1>1. At("ready")' = At("ready") \cup {w} /\ w \notin At("ready")
  BY DEF At
<1>2. At("waiting")' \subseteq At("waiting")
  BY DEF At
<1> QED
  BY <1>1, <1>2, ReadyCounted, FS_AddElement

\* One that goes on to serve is not.
LEMMA Departing ==
  ASSUME pc \in [Worker -> {"ready", "waiting", "serving", "exited"}],
         NEW w \in Worker, pc[w] = "ready", pc' = [pc EXCEPT ![w] = "serving"]
  PROVE  /\ Cardinality(At("ready")') = Cardinality(At("ready")) - 1
         /\ At("waiting")' \subseteq At("waiting")
<1>1. At("ready")' = At("ready") \ {w} /\ w \in At("ready")
  BY DEF At
<1>2. At("waiting")' \subseteq At("waiting")
  BY DEF At
<1> QED
  BY <1>1, <1>2, ReadyCounted, FS_RemoveElement

LEMMA SubmitIInv == ASSUME IInv, NEW t \in Task, Submit(t)  PROVE IInv'
<1> USE DEF IInv, TypeOK, Submit
<1>1. \/ At("waiting") = {} /\ UNCHANGED pc
      \/ \E w \in At("waiting") : pc' = [pc EXCEPT ![w] = "ready"]
  BY DEF Signal
<1>2. TypeOK'
  BY <1>1 DEF At
<1>3. PhasesAgree'
  BY <1>1 DEF PhasesAgree, At
<1>4. NoLostWakeup'
  <2>1. CASE At("waiting") = {} /\ UNCHANGED pc
    BY <2>1 DEF NoLostWakeup, At
  <2>2. CASE \E w \in At("waiting") : pc' = [pc EXCEPT ![w] = "ready"]
    <3>1. PICK w \in At("waiting") : pc' = [pc EXCEPT ![w] = "ready"]
      BY <2>2
    <3>2. w \in Worker /\ pc[w] = "waiting"
      BY DEF At
    <3>3. /\ Cardinality(At("ready")) \in Nat
          /\ Cardinality(At("ready")') = Cardinality(At("ready")) + 1
      BY <3>1, <3>2, Arriving, ReadyCounted
    <3>4. Len(queue) <= Cardinality(At("ready")) /\ Len(queue') = Len(queue) + 1
      BY <3>1 DEF NoLostWakeup
    <3> QED
      BY <3>3, <3>4 DEF NoLostWakeup
  <2> QED
    BY <1>1, <2>1, <2>2
<1>5. NobodySleepsAtExit'
  BY DEF NobodySleepsAtExit, PhasesAgree
<1>6. TaskInOnePlace'
  <2>1. \A i \in DOMAIN queue : queue[i] # t
    BY DEF TaskInOnePlace
  <2>2. /\ DOMAIN queue' = 1..(Len(queue) + 1) /\ DOMAIN queue = 1..Len(queue)
        /\ \A i \in DOMAIN queue : queue'[i] = queue[i]
        /\ queue'[Len(queue) + 1] = t
        /\ Len(queue) \in Nat
    OBVIOUS
  <2>3. \A i, j \in DOMAIN queue' : queue'[i] = queue'[j] => i = j
    BY <2>1, <2>2 DEF TaskInOnePlace
  <2>4. ASSUME NEW u \in Task
        PROVE  status'[u] = "queued" <=> \E i \in DOMAIN queue' : queue'[i] = u
    <3>1. CASE u = t
      <4>1. status'[u] = "queued"
        BY <3>1
      <4>2. Len(queue) + 1 \in DOMAIN queue' /\ queue'[Len(queue) + 1] = u
        BY <2>2, <3>1
      <4> QED
        BY <4>1, <4>2
    <3>2. CASE u # t
      <4>1. status'[u] = status[u]
        BY <3>2
      <4>2. (\E i \in DOMAIN queue' : queue'[i] = u) <=> \E i \in DOMAIN queue : queue[i] = u
        BY <2>2, <3>2
      <4>3. status[u] = "queued" <=> \E i \in DOMAIN queue : queue[i] = u
        BY DEF TaskInOnePlace
      <4> QED
        BY <4>1, <4>2, <4>3
    <3> QED
      BY <3>1, <3>2
  <2>5. \A u \in Task : status'[u] = "running" <=> \E w \in Worker : task'[w] = u
    BY DEF TaskInOnePlace
  <2> QED
    BY <2>3, <2>4, <2>5 DEF TaskInOnePlace
<1> QED
  BY <1>2, <1>3, <1>4, <1>5, <1>6

LEMMA WaitIInv == ASSUME IInv, NEW w \in Worker, Wait(w)  PROVE IInv'
<1> USE DEF IInv, TypeOK, Wait
<1>1. TypeOK' /\ PhasesAgree' /\ NobodySleepsAtExit' /\ TaskInOnePlace'
  BY DEF PhasesAgree, NobodySleepsAtExit, TaskInOnePlace
<1>2. NoLostWakeup'
  <2>1. IsFiniteSet(At("ready")')
    BY WorkerAssumption, FS_Subset DEF At
  <2>2. Cardinality(At("ready")') \in Nat
    BY <2>1, FS_CardinalityType
  <2> QED
    BY <2>2 DEF NoLostWakeup
<1> QED
  BY <1>1, <1>2

LEMMA WakeupIInv == ASSUME IInv, NEW w \in Worker, SpuriousWakeup(w)  PROVE IInv'
<1> USE DEF IInv, TypeOK, SpuriousWakeup
<1>1. TypeOK' /\ PhasesAgree' /\ TaskInOnePlace'
  BY DEF PhasesAgree, TaskInOnePlace
<1>2. /\ Cardinality(At("ready")) \in Nat
      /\ Cardinality(At("ready")') = Cardinality(At("ready")) + 1
      /\ At("waiting")' \subseteq At("waiting")
  BY Arriving, ReadyCounted
<1>3. NoLostWakeup'
  BY <1>2 DEF NoLostWakeup
<1>4. NobodySleepsAtExit'
  BY <1>2 DEF NobodySleepsAtExit
<1> QED
  BY <1>1, <1>3, <1>4

LEMMA TakeIInv == ASSUME IInv, NEW w \in Worker, Take(w)  PROVE IInv'
<1> USE DEF IInv, TypeOK, Take
<1> DEFINE t == Head(queue)
<1>1. /\ t \in Task /\ Tail(queue) \in Seq(Task) /\ Len(queue) \in Nat \ {0}
      /\ Len(Tail(queue)) = Len(queue) - 1
      /\ DOMAIN queue = 1..Len(queue)
      /\ DOMAIN Tail(queue) = 1..(Len(queue) - 1)
      /\ \A i \in 1..(Len(queue) - 1) : Tail(queue)[i] = queue[i + 1]
      /\ t = queue[1]
  OBVIOUS
<1> HIDE DEF t
<1>2. TypeOK'
  BY <1>1 DEF t
<1>3. PhasesAgree'
  BY <1>1, TaskAssumption DEF PhasesAgree, t
<1>4. /\ Cardinality(At("ready")) \in Nat
      /\ Cardinality(At("ready")') = Cardinality(At("ready")) - 1
      /\ At("waiting")' \subseteq At("waiting")
  BY Departing, ReadyCounted
<1>5. NoLostWakeup'
  BY <1>1, <1>4 DEF NoLostWakeup
<1>6. NobodySleepsAtExit'
  BY <1>4 DEF NobodySleepsAtExit
<1>7. TaskInOnePlace'
  <2>1. \A i, j \in DOMAIN queue' : queue'[i] = queue'[j] => i = j
    BY <1>1 DEF TaskInOnePlace
  <2>2. status[t] = "queued" /\ \A v \in Worker : task[v] # t
    BY <1>1 DEF TaskInOnePlace
  <2>3. \A i \in DOMAIN queue' : queue'[i] # t
    BY <1>1 DEF TaskInOnePlace
  <2>4. task' = [task EXCEPT ![w] = t] /\ status' = [status EXCEPT ![t] = "running"]
    BY DEF t
  <2>5. \A u, v \in Worker : task'[u] = task'[v] /\ task'[u] # None => u = v
    BY <2>2, <2>4 DEF TaskInOnePlace
  <2>6. ASSUME NEW u \in Task
        PROVE  status'[u] = "queued" <=> \E i \in DOMAIN queue' : queue'[i] = u
    <3>1. CASE u = t
      BY <1>1, <2>3, <2>4, <3>1
    <3>2. CASE u # t
      <4>1. (\E i \in DOMAIN queue : queue[i] = u)
               <=> \E i \in DOMAIN Tail(queue) : Tail(queue)[i] = u
        <5>1. ASSUME NEW i \in DOMAIN queue, queue[i] = u
              PROVE  \E j \in DOMAIN Tail(queue) : Tail(queue)[j] = u
          <6>1. i # 1
            BY <1>1, <3>2, <5>1
          <6>2. i - 1 \in 1..(Len(queue) - 1) /\ (i - 1) + 1 = i
            BY <1>1, <6>1
          <6> QED
            BY <1>1, <5>1, <6>2
        <5>2. ASSUME NEW i \in DOMAIN Tail(queue), Tail(queue)[i] = u
              PROVE  \E j \in DOMAIN queue : queue[j] = u
          <6>1. i + 1 \in 1..Len(queue)
            BY <1>1
          <6> QED
            BY <1>1, <5>2, <6>1
        <5> QED
          BY <5>1, <5>2
      <4>2. status'[u] = status[u]
        BY <2>4, <3>2
      <4> QED
        BY <4>1, <4>2 DEF TaskInOnePlace
    <3> QED
      BY <3>1, <3>2
  <2>7. ASSUME NEW u \in Task
        PROVE  status'[u] = "running" <=> \E v \in Worker : task'[v] = u
    <3>1. task[w] = None
      BY DEF PhasesAgree
    <3>2. CASE u = t
      BY <1>1, <2>4, <3>2
    <3>3. CASE u # t
      BY <2>4, <3>1, <3>3, TaskAssumption DEF TaskInOnePlace
    <3> QED
      BY <3>2, <3>3
  <2> QED
    BY <2>1, <2>5, <2>6, <2>7 DEF TaskInOnePlace
<1> QED
  BY <1>2, <1>3, <1>5, <1>6, <1>7

LEMMA FinishIInv == ASSUME IInv, NEW w \in Worker, Finish(w)  PROVE IInv'
<1> USE DEF IInv, TypeOK, Finish
<1>1. task[w] \in Task
  BY DEF PhasesAgree
<1>2. TypeOK' /\ PhasesAgree'
  BY <1>1 DEF PhasesAgree
<1>3. /\ Cardinality(At("ready")) \in Nat
      /\ Cardinality(At("ready")') = Cardinality(At("ready")) + 1
      /\ At("waiting")' \subseteq At("waiting")
  BY Arriving, ReadyCounted
<1>4. NoLostWakeup'
  BY <1>3 DEF NoLostWakeup
<1>5. NobodySleepsAtExit'
  BY <1>3 DEF NobodySleepsAtExit
<1>6. TaskInOnePlace'
  <2>1. status[task[w]] = "running"
    BY <1>1 DEF TaskInOnePlace
  <2>2. \A t \in Task : status'[t] = IF t = task[w] THEN "done" ELSE status[t]
    BY <1>1
  <2>3. \A v \in Worker : task'[v] = IF v = w THEN None ELSE task[v]
    OBVIOUS
  <2>4. \A t \in Task : status'[t] = "queued" <=> \E i \in DOMAIN queue' : queue'[i] = t
    BY <2>1, <2>2 DEF TaskInOnePlace
  <2>5. \A t \in Task : status'[t] = "running" <=> \E v \in Worker : task'[v] = t
    BY <1>1, <2>2, <2>3, TaskAssumption DEF TaskInOnePlace
  <2>6. \A u, v \in Worker : task'[u] = task'[v] /\ task'[u] # None => u = v
    BY <2>3 DEF TaskInOnePlace
  <2> QED
    BY <2>4, <2>5, <2>6 DEF TaskInOnePlace
<1> QED
  BY <1>2, <1>4, <1>5, <1>6

LEMMA LeaveIInv == ASSUME IInv, NEW w \in Worker, Leave(w)  PROVE IInv'
<1> USE DEF IInv, TypeOK, Leave
<1>1. TypeOK' /\ PhasesAgree' /\ TaskInOnePlace'
  BY DEF PhasesAgree, TaskInOnePlace
<1>2. At("waiting")' = {}
  BY DEF NobodySleepsAtExit, At
<1> QED
  BY <1>1, <1>2 DEF NoLostWakeup, NobodySleepsAtExit

LEMMA ShutdownIInv == ASSUME IInv, Shutdown  PROVE IInv'
<1> USE DEF IInv, TypeOK, Shutdown, Broadcast
<1>1. TypeOK' /\ PhasesAgree' /\ TaskInOnePlace'
  BY DEF PhasesAgree, TaskInOnePlace
<1>2. At("waiting")' = {}
  BY DEF At
<1> QED
  BY <1>1, <1>2 DEF NoLostWakeup, NobodySleepsAtExit

LEMMA NextIInv == IInv /\ [Next]_vars => IInv'
<1> SUFFICES ASSUME IInv, [Next]_vars  PROVE IInv'
  OBVIOUS
<1>1. ASSUME NEW t \in Task, Submit(t)  PROVE IInv'
  BY <1>1, SubmitIInv
<1>2. ASSUME NEW w \in Worker, Wait(w)  PROVE IInv'
  BY <1>2, WaitIInv
<1>3. ASSUME NEW w \in Worker, SpuriousWakeup(w)  PROVE IInv'
  BY <1>3, WakeupIInv
<1>4. ASSUME NEW w \in Worker, Take(w)  PROVE IInv'
  BY <1>4, TakeIInv
<1>5. ASSUME NEW w \in Worker, Finish(w)  PROVE IInv'
  BY <1>5, FinishIInv
<1>6. ASSUME NEW w \in Worker, Leave(w)  PROVE IInv'
  BY <1>6, LeaveIInv
<1>7. CASE Shutdown
  BY <1>7, ShutdownIInv
<1>8. CASE Join
  BY <1>8 DEF Join, IInv, TypeOK, PhasesAgree, NoLostWakeup, NobodySleepsAtExit,
              TaskInOnePlace, At
<1>9. CASE AllOver \/ UNCHANGED vars
  <2>1. UNCHANGED vars
    BY <1>9 DEF AllOver
  <2> QED
    BY <2>1 DEF vars, IInv, TypeOK, PhasesAgree, NoLostWakeup,
                NobodySleepsAtExit, TaskInOnePlace, At
<1> QED
  BY <1>1, <1>2, <1>3, <1>4, <1>5, <1>6, <1>7, <1>8, <1>9 DEF Next

LEMMA SpecIInv == Spec => []IInv
  BY InitIInv, NextIInv, PTL DEF Spec

\* The variables keep their types.
THEOREM TypeCorrect == Spec => []TypeOK
  BY SpecIInv, PTL DEF IInv

\* However many workers and connections there are, a signal per submission is
\* enough (main.c:105-110, worker.c:11-21).
THEOREM NoLostWakeupAlways == Spec => []NoLostWakeup
  BY SpecIInv, PTL DEF IInv

\* No worker can sleep through the shutdown (main.c:81-84, worker.c:13-19).
THEOREM NobodySleepsAtExitAlways == Spec => []NobodySleepsAtExit
  BY SpecIInv, PTL DEF IInv

\* Every connection is in one place: none is lost, none is served twice.
THEOREM TaskInOnePlaceAlways == Spec => []TaskInOnePlace
  BY SpecIInv, PTL DEF IInv

\* Both, with the types: what the run of TLC checks.
THEOREM PoolConsistentAlways == Spec => []PoolConsistent
  BY SpecIInv, PTL DEF IInv, PoolConsistent
==============================================================================
