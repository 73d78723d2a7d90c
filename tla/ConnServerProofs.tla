-------------------------- MODULE ConnServerProofs ---------------------------
(***************************************************************************)
(* ConnServer for every number of connections, descriptors and workers,    *)
(* whatever the wheel closes under them: no open descriptor is forgotten,  *)
(* and the server is a ThreadPool whose tasks are its connections.         *)
(***************************************************************************)
EXTENDS ConnServer, TLAPS

\* The main thread holds a connection exactly between accept and queue, a worker
\* exactly while it is in a session, and a recv in progress has a connection.
HandsAgree ==
  /\ main \in {"readd", "enqueue"} <=> hand # NoHand
  /\ exit_flag <=> main \in {"joining", "joined"}
  /\ \A w \in Worker : /\ pc[w] \in InSession <=> fd[w] # None
                       /\ pc[w] \in InSession <=> owner[w] # None
                       /\ pc[w] = "blocked" => sock[w] # None

\* A connection that was accepted is in the hand of the main thread, in the queue
\* or with a worker, and in one place at most.
OnePlace ==
  /\ \A i, j \in DOMAIN queue : queue[i].conn = queue[j].conn => i = j
  /\ \A v, w \in Worker : owner[v] = owner[w] /\ owner[v] # None => v = w
  /\ hand # NoHand => link[hand.conn] = "accepted"
  /\ \A i \in DOMAIN queue :
       /\ link[queue[i].conn] = "accepted" /\ hand.conn # queue[i].conn
       /\ \A w \in Worker : owner[w] # queue[i].conn
  /\ \A w \in Worker :
       owner[w] # None => link[owner[w]] = "accepted" /\ hand.conn # owner[w]

\* Only what was sent can be received.
OnlySentArrives == \A c \in Conn : inbox[c] <= sent[c]

IInv == TypeOK /\ OnlySentArrives /\ HandsAgree /\ NoDescriptorLeak /\ OnePlace

LEMMA InitIInv == Init => IInv
<1> SUFFICES ASSUME Init  PROVE IInv
  OBVIOUS
<1> USE DEF Init
<1>1. Wheel!TypeOK
  BY BudgetAssumption DEF Wheel!Init, Wheel!TypeOK
<1>2. queue \in Seq([fd : Fd, conn : Conn])
  OBVIOUS
<1>3. /\ inbox \in [Conn -> 0..MaxSent] /\ sent \in [Conn -> 0..MaxSent]
      /\ link \in [Conn -> {"new", "backlog", "accepted"}]
      /\ conn \in [Fd -> Conn \cup {None}]
  BY MaxSentAssumption
<1>4. /\ pc \in [Worker -> {"ready", "waiting", "exited"} \cup InSession]
      /\ fd \in [Worker -> Fd \cup {None}] /\ owner \in [Worker -> Conn \cup {None}]
      /\ stage \in [Worker -> {"type", "path"}] /\ sock \in [Worker -> Conn \cup {None}]
      /\ reading \in [Worker -> Conn \cup {None}]
  OBVIOUS
<1>5. TypeOK
  BY <1>1, <1>2, <1>3, <1>4 DEF TypeOK
<1>6. OnlySentArrives /\ HandsAgree /\ NoDescriptorLeak
  BY DEF OnlySentArrives, HandsAgree, NoDescriptorLeak, InSession
<1>7. OnePlace
  BY DEF OnePlace
<1> QED
  BY <1>6, <1>7, <1>5 DEF IInv

\* What Append and Tail do to a queue.
LEMMA Appended ==
  ASSUME NEW S, NEW q \in Seq(S), NEW e \in S
  PROVE  /\ Append(q, e) \in Seq(S) /\ Len(q) \in Nat
         /\ DOMAIN q = 1..Len(q) /\ DOMAIN Append(q, e) = 1..(Len(q) + 1)
         /\ \A i \in DOMAIN q : Append(q, e)[i] = q[i]
         /\ Append(q, e)[Len(q) + 1] = e
  OBVIOUS

LEMMA ElementsOf ==
  ASSUME NEW S, NEW q \in Seq(S)  PROVE \A i \in DOMAIN q : q[i] \in S
  OBVIOUS

LEMMA TailOf ==
  ASSUME NEW S, NEW q \in Seq(S), q # <<>>
  PROVE  /\ Head(q) \in S /\ Head(q) = q[1]
         /\ Tail(q) \in Seq(S) /\ Len(q) \in Nat \ {0}
         /\ DOMAIN q = 1..Len(q) /\ DOMAIN Tail(q) = 1..(Len(q) - 1)
         /\ \A i \in 1..(Len(q) - 1) : Tail(q)[i] = q[i + 1]
  OBVIOUS

------------------------------------------------------------------------------
(* The clients.                                                            *)

LEMMA ClientIInv ==
  ASSUME IInv, NEW c \in Conn, Connect(c) \/ Send(c) \/ Hangup(c)  PROVE IInv'
<1> USE MaxSentAssumption DEF IInv, mainVars, workerVars
<1>1. CASE Connect(c)
  BY <1>1 DEF Connect, TypeOK, Wheel!TypeOK, OnlySentArrives, HandsAgree,
              NoDescriptorLeak, OnePlace, InSession
<1>2. CASE Send(c)
  <2>1. TypeOK' /\ OnlySentArrives'
    BY <1>2 DEF Send, TypeOK, Wheel!TypeOK, OnlySentArrives, InSession
  <2>2. HandsAgree' /\ NoDescriptorLeak' /\ OnePlace'
    BY <1>2 DEF Send, HandsAgree, NoDescriptorLeak, OnePlace, InSession
  <2> QED
    BY <2>1, <2>2
<1>3. CASE Hangup(c)
  BY <1>3 DEF Hangup, TypeOK, Wheel!TypeOK, OnlySentArrives, HandsAgree,
              NoDescriptorLeak, OnePlace, InSession
<1> QED
  BY <1>1, <1>2, <1>3

------------------------------------------------------------------------------
(* The main thread.                                                        *)

\* What the wheel does to its countdown keeps its type.
LEMMA CountdownType ==
  ASSUME Wheel!TypeOK, NEW d \in Fd
  PROVE  /\ Wheel!Arm(d) => Wheel!TypeOK'
         /\ Wheel!Disarm(d) => Wheel!TypeOK'
  BY BudgetAssumption DEF Wheel!TypeOK, Wheel!Arm, Wheel!Disarm

LEMMA PollIInv == ASSUME IInv, Poll  PROVE IInv'
<1> USE DEF IInv, Poll, clientVars, workerVars
<1>1. PICK k \in Steps :
        /\ Wheel!Elapse(k)
        /\ conn' = [d \in Fd |-> IF d \in Wheel!Expiring(k) THEN None ELSE conn[d]]
  OBVIOUS
<1>2. Wheel!TypeOK'
  BY <1>1, BudgetAssumption, StepsAssumption
  DEF TypeOK, Wheel!TypeOK, Wheel!Elapse, Wheel!Left
<1>3. conn' \in [Fd -> Conn \cup {None}]
  BY <1>1 DEF TypeOK
<1>4. TypeOK'
  BY <1>2, <1>3 DEF TypeOK, InSession
<1>5. \A d \in Fd : conn'[d] # None => conn'[d] = conn[d]
  BY <1>1
<1>6. NoDescriptorLeak'
  BY <1>5 DEF NoDescriptorLeak
<1>7. OnlySentArrives' /\ HandsAgree' /\ OnePlace'
  BY DEF OnlySentArrives, HandsAgree, OnePlace, InSession
<1> QED
  BY <1>4, <1>6, <1>7

LEMMA AcceptIInv == ASSUME IInv, Accept  PROVE IInv'
<1> USE NoneAssumption DEF IInv, Accept, workerVars
<1>1. PICK c \in Conn, d \in Fd :
        /\ link[c] = "backlog" /\ conn[d] = None
        /\ link' = [link EXCEPT ![c] = "accepted"]
        /\ conn' = [conn EXCEPT ![d] = c]
        /\ hand' = [fd |-> d, conn |-> c]
        /\ \/ main' = "readd" /\ UNCHANGED remaining
           \/ main' = "enqueue" /\ Wheel!Arm(d)
  BY DEF Backlog, Free
<1>2. Wheel!TypeOK'
  BY <1>1, CountdownType DEF TypeOK, Wheel!TypeOK
<1>3. TypeOK'
  BY <1>1, <1>2 DEF TypeOK, InSession
<1>4. hand = NoHand
  BY DEF HandsAgree
<1>5. HandsAgree'
  BY <1>1 DEF HandsAgree, NoHand, InSession
<1>6. NoDescriptorLeak'
  <2> SUFFICES ASSUME NEW e \in Fd, conn'[e] # None
               PROVE  \/ hand' = [fd |-> e, conn |-> conn'[e]]
                      \/ \E i \in DOMAIN queue : queue[i] = [fd |-> e, conn |-> conn'[e]]
                      \/ \E w \in Worker : fd[w] = e /\ owner[w] = conn'[e]
    BY DEF NoDescriptorLeak
  <2>1. CASE e = d
    BY <1>1, <2>1 DEF TypeOK
  <2>2. CASE e # d
    <3>1. conn'[e] = conn[e]
      BY <1>1, <2>2 DEF TypeOK
    <3>2. hand # [fd |-> e, conn |-> conn[e]]
      BY <1>4 DEF NoHand
    <3> QED
      BY <3>1, <3>2 DEF NoDescriptorLeak
  <2> QED
    BY <2>1, <2>2
<1>7. OnePlace'
  BY <1>1, <1>4 DEF TypeOK, OnePlace
<1> QED
  BY <1>3, <1>5, <1>6, <1>7 DEF OnlySentArrives

LEMMA ReAddIInv == ASSUME IInv, ReAdd  PROVE IInv'
<1> USE NoneAssumption DEF IInv, ReAdd, clientVars, workerVars
<1>1. Wheel!TypeOK'
  BY CountdownType DEF TypeOK, Wheel!TypeOK, Wheel!Rearm, Wheel!tracked
<1>2. TypeOK'
  BY <1>1 DEF TypeOK, InSession
<1>3. OnlySentArrives' /\ HandsAgree' /\ NoDescriptorLeak' /\ OnePlace'
  BY DEF OnlySentArrives, HandsAgree, NoDescriptorLeak, OnePlace, InSession
<1> QED
  BY <1>2, <1>3

\* A signal moves one worker from the condition variable to the mutex at most.
LEMMA SignalMoves ==
  ASSUME TypeOK, Signal
  PROVE  /\ pc' \in [Worker -> {"ready", "waiting", "exited"} \cup InSession]
         /\ \A w \in Worker : \/ pc'[w] = pc[w]
                              \/ pc[w] = "waiting" /\ pc'[w] = "ready"
  BY DEF TypeOK, Signal, At

LEMMA QueuedConn ==
  ASSUME IInv
  PROVE  \A i \in DOMAIN queue : queue[i].conn \in Conn /\ queue[i].conn # None
<1>1. queue \in Seq([fd : Fd, conn : Conn])
  BY DEF IInv, TypeOK
<1>2. \A i \in DOMAIN queue : queue[i] \in [fd : Fd, conn : Conn]
  BY <1>1, ElementsOf
<1> QED
  BY <1>2, NoneAssumption

LEMMA EnqueueIInv == ASSUME IInv, Enqueue  PROVE IInv'
<1> USE NoneAssumption DEF IInv, Enqueue, clientVars, workerVars
<1> HIDE DEF Enqueue
<1>0. TypeOK /\ Signal
  BY DEF Enqueue
<1>1. /\ pc' \in [Worker -> {"ready", "waiting", "exited"} \cup InSession]
      /\ \A w \in Worker : \/ pc'[w] = pc[w]
                           \/ pc[w] = "waiting" /\ pc'[w] = "ready"
  BY <1>0, SignalMoves
<1> USE DEF Enqueue
<1>2. hand \in [fd : Fd, conn : Conn]
  BY DEF TypeOK, HandsAgree
<1>3. /\ queue' \in Seq([fd : Fd, conn : Conn]) /\ Len(queue) \in Nat
      /\ DOMAIN queue = 1..Len(queue) /\ DOMAIN queue' = 1..(Len(queue) + 1)
      /\ \A i \in DOMAIN queue : queue'[i] = queue[i]
      /\ queue'[Len(queue) + 1] = hand
  <2>1. queue \in Seq([fd : Fd, conn : Conn])
    BY DEF TypeOK
  <2> HIDE DEF IInv
  <2> QED
    BY <1>2, <2>1, Appended
<1>4. TypeOK'
  BY <1>1, <1>3 DEF TypeOK, Wheel!TypeOK, InSession
<1>5. HandsAgree'
  BY <1>1 DEF HandsAgree, InSession
<1>6. NoDescriptorLeak'
  <2> SUFFICES ASSUME NEW d \in Fd, conn[d] # None
               PROVE  \/ \E i \in DOMAIN queue' : queue'[i] = [fd |-> d, conn |-> conn[d]]
                      \/ \E w \in Worker : fd[w] = d /\ owner[w] = conn[d]
    BY DEF NoDescriptorLeak
  <2>1. CASE hand = [fd |-> d, conn |-> conn[d]]
    BY <1>3, <2>1
  <2>2. CASE \E i \in DOMAIN queue : queue[i] = [fd |-> d, conn |-> conn[d]]
    BY <1>3, <2>2
  <2> QED
    BY <2>1, <2>2 DEF NoDescriptorLeak
<1>7. OnePlace'
  <2>1. hand.conn \in Conn /\ hand # NoHand /\ hand'.conn = None
    BY <1>2 DEF NoHand
  <2>2. /\ link[hand.conn] = "accepted" /\ \A w \in Worker : owner[w] # hand.conn
        /\ \A i \in DOMAIN queue : queue[i].conn # hand.conn
    BY <2>1 DEF OnePlace
  <2>3. \A i \in DOMAIN queue : queue[i].conn # None
    BY QueuedConn
  <2>4. \A i, j \in DOMAIN queue' : queue'[i].conn = queue'[j].conn => i = j
    BY <1>3, <2>2 DEF OnePlace
  <2>5. \A i \in DOMAIN queue' :
          /\ link[queue'[i].conn] = "accepted" /\ hand'.conn # queue'[i].conn
          /\ \A w \in Worker : owner[w] # queue'[i].conn
    <3> TAKE i \in DOMAIN queue'
    <3>1. CASE i = Len(queue) + 1
      BY <1>3, <2>1, <2>2, <3>1
    <3>2. CASE i \in DOMAIN queue
      BY <1>3, <2>1, <2>3, <3>2 DEF OnePlace
    <3> QED
      BY <1>3, <3>1, <3>2
  <2> QED
    BY <2>1, <2>4, <2>5 DEF OnePlace
<1> QED
  BY <1>4, <1>5, <1>6, <1>7 DEF OnlySentArrives

LEMMA StopIInv == ASSUME IInv, Stop  PROVE IInv'
<1> USE DEF IInv, Stop, clientVars, workerVars
<1>1. TypeOK'
  BY DEF TypeOK, Wheel!TypeOK, InSession
<1>2. OnlySentArrives' /\ HandsAgree' /\ NoDescriptorLeak' /\ OnePlace'
  BY DEF TypeOK, OnlySentArrives, HandsAgree, NoDescriptorLeak, OnePlace, InSession
<1> QED
  BY <1>1, <1>2

LEMMA InterruptIInv == ASSUME IInv, Interrupt \/ NextPoll  PROVE IInv'
<1> USE DEF IInv, clientVars, mainVars, workerVars
<1>1. CASE Interrupt
  BY <1>1 DEF Interrupt, TypeOK, Wheel!TypeOK, OnlySentArrives, HandsAgree,
              NoDescriptorLeak, OnePlace, InSession
<1>2. CASE NextPoll
  BY <1>2 DEF NextPoll, TypeOK, Wheel!TypeOK, OnlySentArrives, HandsAgree,
              NoDescriptorLeak, OnePlace, InSession
<1> QED
  BY <1>1, <1>2

LEMMA JoinIInv == ASSUME IInv, Join  PROVE IInv'
<1> USE DEF IInv, Join, clientVars, workerVars
<1>1. Wheel!TypeOK'
  BY BudgetAssumption DEF Wheel!TypeOK
<1>2. TypeOK'
  BY <1>1 DEF TypeOK, InSession
<1>3. OnlySentArrives' /\ HandsAgree' /\ NoDescriptorLeak' /\ OnePlace'
  BY DEF OnlySentArrives, HandsAgree, NoDescriptorLeak, OnePlace, InSession
<1> QED
  BY <1>2, <1>3

------------------------------------------------------------------------------
(* The workers.                                                            *)

\* Steps that neither begin nor end a session.
LEMMA PoolStepIInv ==
  ASSUME IInv, NEW w \in Worker, Wait(w) \/ SpuriousWakeup(w) \/ Leave(w)  PROVE IInv'
<1> USE DEF IInv, clientVars, mainVars, workerVars
<1>1. PICK l \in {"ready", "waiting", "exited"} : pc' = [pc EXCEPT ![w] = l]
  BY DEF Wait, SpuriousWakeup, Leave, Goto
<1>2. /\ pc[w] \notin InSession
      /\ UNCHANGED <<clientVars, conn, mainVars, remaining, queue, exit_flag, workerVars>>
  BY DEF Wait, SpuriousWakeup, Leave, InSession
<1>3. TypeOK'
  BY <1>1, <1>2 DEF TypeOK, Wheel!TypeOK
<1>4. \A v \in Worker : pc'[v] = IF v = w THEN l ELSE pc[v]
  BY <1>1 DEF TypeOK
<1>5. HandsAgree'
  BY <1>2, <1>4 DEF HandsAgree, InSession
<1>6. OnlySentArrives' /\ NoDescriptorLeak' /\ OnePlace'
  BY <1>2 DEF OnlySentArrives, NoDescriptorLeak, OnePlace
<1> QED
  BY <1>3, <1>5, <1>6

LEMMA TakeIInv == ASSUME IInv, NEW w \in Worker, Take(w)  PROVE IInv'
<1> USE NoneAssumption DEF IInv, Take, Goto, clientVars, mainVars
<1> DEFINE first == Head(queue)
<1>1. /\ first \in [fd : Fd, conn : Conn] /\ first = queue[1]
      /\ Tail(queue) \in Seq([fd : Fd, conn : Conn]) /\ Len(queue) \in Nat \ {0}
      /\ DOMAIN queue = 1..Len(queue) /\ DOMAIN Tail(queue) = 1..(Len(queue) - 1)
      /\ \A i \in 1..(Len(queue) - 1) : Tail(queue)[i] = queue[i + 1]
  <2>1. queue \in Seq([fd : Fd, conn : Conn]) /\ queue # <<>>
    BY DEF TypeOK
  <2> HIDE DEF IInv, Take
  <2> QED
    BY <2>1, TailOf
<1>2. /\ queue' = Tail(queue) /\ fd' = [fd EXCEPT ![w] = first.fd]
      /\ owner' = [owner EXCEPT ![w] = first.conn]
  OBVIOUS
<1>3. first.fd \in Fd /\ first.conn \in Conn
  BY <1>1
<1> HIDE DEF first
<1>4. TypeOK'
  BY <1>1, <1>2, <1>3 DEF TypeOK, Wheel!TypeOK, InSession
<1>5. HandsAgree'
  BY <1>2, <1>3 DEF TypeOK, HandsAgree, InSession
<1>6. fd[w] = None /\ owner[w] = None
  BY DEF TypeOK, HandsAgree, InSession
<1>7. NoDescriptorLeak'
  <2> SUFFICES ASSUME main # "joined", NEW d \in Fd, conn[d] # None
               PROVE  \/ hand = [fd |-> d, conn |-> conn[d]]
                      \/ \E i \in DOMAIN queue' : queue'[i] = [fd |-> d, conn |-> conn[d]]
                      \/ \E v \in Worker : fd'[v] = d /\ owner'[v] = conn[d]
    BY DEF NoDescriptorLeak
  <2>1. ASSUME NEW i \in DOMAIN queue, queue[i] = [fd |-> d, conn |-> conn[d]]
        PROVE  \/ \E j \in DOMAIN queue' : queue'[j] = [fd |-> d, conn |-> conn[d]]
               \/ fd'[w] = d /\ owner'[w] = conn[d]
    <3>1. CASE i = 1
      BY <1>1, <1>2, <2>1, <3>1 DEF TypeOK
    <3>2. CASE i # 1
      <4>1. i - 1 \in DOMAIN queue' /\ queue'[i - 1] = queue[i]
        BY <1>1, <1>2, <3>2
      <4> QED
        BY <2>1, <4>1
    <3> QED
      BY <3>1, <3>2
  <2>2. ASSUME NEW v \in Worker, fd[v] = d, owner[v] = conn[d]
        PROVE  fd'[v] = d /\ owner'[v] = conn[d]
    BY <1>2, <1>6, <2>2 DEF TypeOK
  <2> QED
    BY <2>1, <2>2 DEF NoDescriptorLeak
<1>8. OnePlace'
  <2>1. /\ link[first.conn] = "accepted" /\ hand.conn # first.conn
        /\ \A v \in Worker : owner[v] # first.conn
    BY <1>1 DEF OnePlace
  <2>2. \A v \in Worker : owner'[v] = IF v = w THEN first.conn ELSE owner[v]
    BY <1>2 DEF TypeOK
  <2>3. \A i \in DOMAIN queue' : /\ i + 1 \in DOMAIN queue /\ queue'[i] = queue[i + 1]
                                 /\ queue'[i].conn # first.conn
    BY <1>1, <1>2 DEF OnePlace
  <2>4. \A i, j \in DOMAIN queue' : queue'[i].conn = queue'[j].conn => i = j
    BY <1>1, <1>2, <2>3 DEF OnePlace
  <2>5. \A i \in DOMAIN queue' :
          /\ link[queue'[i].conn] = "accepted" /\ hand.conn # queue'[i].conn
          /\ \A v \in Worker : owner'[v] # queue'[i].conn
    BY <2>2, <2>3 DEF OnePlace
  <2>6. \A v \in Worker : owner'[v] # None =>
          link[owner'[v]] = "accepted" /\ hand.conn # owner'[v]
    BY <2>1, <2>2 DEF OnePlace
  <2>7. \A u, v \in Worker : owner'[u] = owner'[v] /\ owner'[u] # None => u = v
    BY <2>1, <2>2 DEF OnePlace
  <2> QED
    BY <2>4, <2>5, <2>6, <2>7 DEF OnePlace
<1> QED
  BY <1>4, <1>5, <1>7, <1>8 DEF OnlySentArrives

\* Inside a session nothing changes hands.
LEMMA SessionKeepsPlaces ==
  ASSUME IInv, UNCHANGED <<link, conn, mainVars, queue, exit_flag, fd, owner>>,
         \A w \in Worker : pc'[w] \in InSession <=> pc[w] \in InSession
  PROVE  NoDescriptorLeak' /\ OnePlace'
  BY DEF IInv, mainVars, NoDescriptorLeak, OnePlace

LEMMA CallRecvIInv == ASSUME IInv, NEW w \in Worker, CallRecv(w)  PROVE IInv'
<1> USE NoneAssumption DEF IInv, CallRecv, Goto, clientVars, mainVars, InSession
<1>1. fd[w] \in Fd
  BY DEF TypeOK, HandsAgree
<1>2. TypeOK'
  BY <1>1 DEF TypeOK, Wheel!TypeOK
<1>3. HandsAgree'
  BY <1>1 DEF TypeOK, HandsAgree
<1>4. NoDescriptorLeak' /\ OnePlace'
  BY SessionKeepsPlaces DEF TypeOK
<1> QED
  BY <1>2, <1>3, <1>4 DEF OnlySentArrives

LEMMA ReceiveIInv == ASSUME IInv, NEW w \in Worker, Receive(w)  PROVE IInv'
<1> USE NoneAssumption, MaxSentAssumption DEF IInv, Receive, Goto, mainVars, InSession
<1>1. sock[w] \in Conn
  BY DEF TypeOK, HandsAgree
<1>2. TypeOK' /\ OnlySentArrives'
  BY <1>1 DEF TypeOK, Wheel!TypeOK, OnlySentArrives
<1>3. HandsAgree'
  BY <1>1 DEF TypeOK, HandsAgree
<1>4. NoDescriptorLeak' /\ OnePlace'
  BY SessionKeepsPlaces DEF TypeOK
<1> QED
  BY <1>2, <1>3, <1>4

LEMMA QuietIInv ==
  ASSUME IInv, NEW w \in Worker, EndOfFile(w) \/ Handle(w)  PROVE IInv'
<1> USE NoneAssumption DEF IInv, EndOfFile, Handle, Goto, clientVars, mainVars, InSession
<1>1. TypeOK'
  BY DEF TypeOK, Wheel!TypeOK
<1>2. HandsAgree' /\ OnlySentArrives'
  BY DEF TypeOK, HandsAgree, OnlySentArrives
<1>3. NoDescriptorLeak' /\ OnePlace'
  BY SessionKeepsPlaces DEF TypeOK
<1> QED
  BY <1>1, <1>2, <1>3

LEMMA RefreshIInv == ASSUME IInv, NEW w \in Worker, Refresh(w)  PROVE IInv'
<1> USE NoneAssumption DEF IInv, Refresh, Goto, clientVars, mainVars, InSession
<1>1. fd[w] \in Fd
  BY DEF TypeOK, HandsAgree
<1>2. Wheel!TypeOK'
  BY <1>1, CountdownType DEF TypeOK, Wheel!TypeOK, Wheel!Rearm
<1>3. /\ pc' \in [Worker -> {"ready", "waiting", "exited"} \cup InSession]
      /\ stage' \in [Worker -> {"type", "path"}]
      /\ reading' \in [Worker -> Conn \cup {None}]
      /\ \A v \in Worker : \/ pc'[v] = pc[v]
                           \/ v = w /\ pc[v] = "refresh" /\ pc'[v] \in {"recv", "handle"}
  <2>1. PICK l \in {"recv", "handle"} : pc' = [pc EXCEPT ![w] = l]
    OBVIOUS
  <2>2. /\ stage' \in [Worker -> {"type", "path"}]
        /\ reading' \in [Worker -> Conn \cup {None}]
    BY DEF TypeOK
  <2>3. pc[w] = "refresh" /\ pc \in [Worker -> {"ready", "waiting", "exited"} \cup InSession]
    BY DEF TypeOK
  <2> HIDE DEF IInv, Refresh
  <2> QED
    BY <2>1, <2>2, <2>3
<1>4. TypeOK'
  BY <1>2, <1>3 DEF TypeOK
<1>5. HandsAgree'
  BY <1>3 DEF HandsAgree
<1>6. NoDescriptorLeak' /\ OnePlace'
  BY <1>3, SessionKeepsPlaces
<1> QED
  BY <1>4, <1>5, <1>6 DEF OnlySentArrives

LEMMA ForgetIInv == ASSUME IInv, NEW w \in Worker, Forget(w)  PROVE IInv'
<1> USE NoneAssumption DEF IInv, Forget, Goto, clientVars, mainVars, workerVars, InSession
<1>1. fd[w] \in Fd
  BY DEF TypeOK, HandsAgree
<1>2. Wheel!TypeOK'
  BY <1>1, CountdownType DEF TypeOK, Wheel!TypeOK
<1>3. TypeOK'
  BY <1>2 DEF TypeOK
<1>4. HandsAgree' /\ OnlySentArrives'
  BY DEF TypeOK, HandsAgree, OnlySentArrives
<1>5. NoDescriptorLeak' /\ OnePlace'
  BY SessionKeepsPlaces DEF TypeOK
<1> QED
  BY <1>3, <1>4, <1>5

LEMMA CloseIInv == ASSUME IInv, NEW w \in Worker, Close(w)  PROVE IInv'
<1> USE NoneAssumption DEF IInv, Close, Goto, clientVars, mainVars, InSession
<1>1. fd[w] \in Fd
  BY DEF TypeOK, HandsAgree
<1>2. TypeOK'
  BY <1>1 DEF TypeOK, Wheel!TypeOK
<1>3. HandsAgree' /\ OnlySentArrives'
  BY DEF TypeOK, HandsAgree, OnlySentArrives
<1>4. /\ \A d \in Fd : conn'[d] = IF d = fd[w] THEN None ELSE conn[d]
      /\ \A v \in Worker : /\ fd'[v] = IF v = w THEN None ELSE fd[v]
                           /\ owner'[v] = IF v = w THEN None ELSE owner[v]
  BY <1>1 DEF TypeOK
<1>5. NoDescriptorLeak'
  <2> SUFFICES ASSUME main # "joined", NEW d \in Fd, conn'[d] # None
               PROVE  \/ hand = [fd |-> d, conn |-> conn'[d]]
                      \/ \E i \in DOMAIN queue : queue[i] = [fd |-> d, conn |-> conn'[d]]
                      \/ \E v \in Worker : fd'[v] = d /\ owner'[v] = conn'[d]
    BY DEF NoDescriptorLeak
  <2>1. conn'[d] = conn[d] /\ d # fd[w]
    BY <1>4
  <2>2. ASSUME NEW v \in Worker, fd[v] = d, owner[v] = conn[d]
        PROVE  fd'[v] = d /\ owner'[v] = conn'[d]
    BY <1>4, <2>1, <2>2
  <2> QED
    BY <2>1, <2>2 DEF NoDescriptorLeak
<1>6. OnePlace'
  <2>1. \A i \in DOMAIN queue : queue[i].conn # None
    BY QueuedConn
  <2> QED
    BY <1>4, <2>1 DEF OnePlace
<1> QED
  BY <1>2, <1>3, <1>5, <1>6

------------------------------------------------------------------------------

LEMMA NextIInv == IInv /\ [Next]_vars => IInv'
<1> SUFFICES ASSUME IInv, [Next]_vars  PROVE IInv'
  OBVIOUS
<1>1. ASSUME NEW c \in Conn, Connect(c) \/ Send(c) \/ Hangup(c)  PROVE IInv'
  BY <1>1, ClientIInv
<1>2. CASE MainStep \/ Interrupt
  BY <1>2, PollIInv, AcceptIInv, ReAddIInv, EnqueueIInv, StopIInv, InterruptIInv,
     JoinIInv
  DEF MainStep
<1>3. ASSUME NEW w \in Worker, WorkerStep(w) \/ SpuriousWakeup(w)  PROVE IInv'
  BY <1>3, PoolStepIInv, TakeIInv, CallRecvIInv, ReceiveIInv, QuietIInv, RefreshIInv,
     ForgetIInv, CloseIInv
  DEF WorkerStep
<1>4. CASE AllOver \/ UNCHANGED vars
  <2>1. UNCHANGED vars
    BY <1>4 DEF AllOver
  <2> USE <2>1 DEF vars, clientVars, mainVars, workerVars
  <2>2. TypeOK' /\ OnlySentArrives' /\ HandsAgree'
    BY DEF IInv, TypeOK, Wheel!TypeOK, OnlySentArrives, HandsAgree
  <2>3. NoDescriptorLeak' /\ OnePlace'
    BY DEF IInv, NoDescriptorLeak, OnePlace
  <2> QED
    BY <2>2, <2>3 DEF IInv
<1> QED
  BY <1>1, <1>2, <1>3, <1>4 DEF Next

LEMMA SpecIInv == Spec => []IInv
  BY InitIInv, NextIInv, PTL DEF Spec

\* No descriptor is forgotten open, for every number of clients, descriptors and
\* workers and whatever the wheel closes under them (main.c:96-110,
\* worker.c:71-78, timewheel.c:253-255).
THEOREM AccountedAlways == Spec => []Accounted
  BY SpecIInv, PTL DEF IInv, Accounted

------------------------------------------------------------------------------
(* The server is a ThreadPool.  These are the pool's variables as Pool sees them. *)

QueueBar == [i \in DOMAIN queue |-> queue[i].conn]
PcBar == [w \in Worker |-> IF pc[w] \in InSession THEN "serving" ELSE pc[w]]
StatusOf(c) == IF Queued(c) THEN "queued"
               ELSE IF \E w \in Worker : owner[w] = c THEN "running"
               ELSE IF link[c] = "accepted" /\ hand.conn # c THEN "done" ELSE "new"
StatusBar == [c \in Conn |-> StatusOf(c)]
MainBar == IF main \in {"joining", "joined"} THEN main ELSE "feeding"
PoolVars == <<QueueBar, exit_flag, PcBar, owner, StatusBar, MainBar>>

LEMMA PoolInit == Init => Pool!Init
<1> SUFFICES ASSUME Init  PROVE Pool!Init
  OBVIOUS
<1> USE DEF Init
<1>1. QueueBar = <<>>
  BY DEF QueueBar
<1>2. PcBar = [w \in Worker |-> "ready"]
  BY DEF PcBar, InSession
<1>3. StatusBar = [c \in Conn |-> "new"]
  BY NoneAssumption DEF StatusBar, StatusOf, Queued
<1>4. owner = [w \in Worker |-> None] /\ exit_flag = FALSE /\ MainBar = "feeding"
  BY DEF MainBar
<1> QED
  BY <1>1, <1>2, <1>3, <1>4
  DEF Pool!Init, QueueBar, PcBar, StatusBar, StatusOf, MainBar

\* What goes on inside a session, between accept and queue, at the clients and in
\* the wheel is nothing to the pool.
LEMMA PoolStutters ==
  ASSUME UNCHANGED <<queue, exit_flag, owner>>,
         \A w \in Worker : pc[w] # pc'[w] => pc[w] \in InSession /\ pc'[w] \in InSession,
         \A c \in Conn : (link'[c] = "accepted" /\ hand'.conn # c)
                           <=> (link[c] = "accepted" /\ hand.conn # c),
         MainBar' = MainBar
  PROVE  UNCHANGED PoolVars
<1>1. QueueBar' = QueueBar /\ \A c \in Conn : Queued(c)' <=> Queued(c)
  BY DEF QueueBar, Queued
<1>2. PcBar' = PcBar
  BY DEF PcBar, InSession
<1>3. \A c \in Conn : StatusOf(c)' = StatusOf(c)
  BY <1>1 DEF StatusOf
<1>4. StatusBar' = StatusBar
  BY <1>3 DEF StatusBar
<1> QED
  BY <1>1, <1>2, <1>4 DEF PoolVars

\* A step of a worker that is neither the begin nor the end of a session leaves
\* the connections as they are.
LEMMA StatusKept ==
  ASSUME UNCHANGED <<queue, owner, link, hand>>
  PROVE  QueueBar' = QueueBar /\ StatusBar' = StatusBar
<1>1. QueueBar' = QueueBar /\ \A c \in Conn : Queued(c)' <=> Queued(c)
  BY DEF QueueBar, Queued
<1>2. \A c \in Conn : StatusOf(c)' = StatusOf(c)
  BY <1>1 DEF StatusOf
<1> QED
  BY <1>1, <1>2 DEF StatusBar

LEMMA AcceptStutters == ASSUME IInv, Accept  PROVE UNCHANGED PoolVars
<1> USE NoneAssumption DEF Accept, workerVars
<1>1. PICK c \in Conn, d \in Fd :
        /\ link[c] = "backlog" /\ link' = [link EXCEPT ![c] = "accepted"]
        /\ hand' = [fd |-> d, conn |-> c]
  BY DEF Backlog, Free
<1>2. hand.conn = None
  BY DEF IInv, HandsAgree, NoHand
<1>3. \A e \in Conn : link'[e] = IF e = c THEN "accepted" ELSE link[e]
  BY <1>1 DEF IInv, TypeOK
<1>4. \A e \in Conn : (link'[e] = "accepted" /\ hand'.conn # e)
                        <=> (link[e] = "accepted" /\ hand.conn # e)
  BY <1>1, <1>2, <1>3
<1>5. MainBar' = MainBar /\ UNCHANGED <<queue, exit_flag, owner, pc>>
  BY DEF MainBar
<1> QED
  BY <1>4, <1>5, PoolStutters

\* Who waits for the pool waits for the server's condition variable.
LEMMA SignalIsSignal ==
  ASSUME TypeOK, Signal
  PROVE  \/ Pool!At("waiting") = {} /\ PcBar' = PcBar
         \/ \E w \in Pool!At("waiting") : PcBar' = [PcBar EXCEPT ![w] = "ready"]
<1>1. Pool!At("waiting") = At("waiting")
  BY DEF Pool!At, At, InSession
<1>2. CASE At("waiting") = {} /\ UNCHANGED pc
  BY <1>1, <1>2 DEF PcBar, InSession
<1>3. ASSUME NEW w \in At("waiting"), pc' = [pc EXCEPT ![w] = "ready"]
      PROVE  PcBar' = [PcBar EXCEPT ![w] = "ready"]
  BY <1>3 DEF At, TypeOK, PcBar, InSession
<1> QED
  BY <1>1, <1>2, <1>3 DEF Signal

LEMMA BarOfQueue ==
  ASSUME queue \in Seq([fd : Fd, conn : Conn])
  PROVE  QueueBar \in Seq(Conn) /\ Len(QueueBar) = Len(queue)
<1>1. Len(queue) \in Nat /\ DOMAIN queue = 1..Len(queue)
  OBVIOUS
<1>2. \A i \in DOMAIN queue : queue[i] \in [fd : Fd, conn : Conn]
  BY ElementsOf
<1>3. QueueBar = [i \in 1..Len(queue) |-> queue[i].conn]
  BY <1>1 DEF QueueBar
<1>4. \A i \in 1..Len(queue) : queue[i].conn \in Conn
  BY <1>1, <1>2
<1> QED
  BY <1>1, <1>3, <1>4

LEMMA EnqueueIsSubmit == ASSUME IInv, Enqueue  PROVE \E c \in Conn : Pool!Submit(c)
<1> USE NoneAssumption
<1>1. hand \in [fd : Fd, conn : Conn] /\ hand # NoHand
  BY DEF IInv, TypeOK, HandsAgree, Enqueue
<1>2. PICK c \in Conn : c = hand.conn
  BY <1>1
<1>a. hand'.conn = None
  BY DEF Enqueue, NoHand
<1>3. /\ link[c] = "accepted" /\ \A w \in Worker : owner[w] # c
      /\ \A i \in DOMAIN queue : queue[i].conn # c
  BY <1>1, <1>2 DEF IInv, OnePlace
<1>4. /\ Len(queue) \in Nat /\ DOMAIN queue = 1..Len(queue)
      /\ DOMAIN queue' = 1..(Len(queue) + 1)
      /\ \A i \in DOMAIN queue : queue'[i] = queue[i]
      /\ queue'[Len(queue) + 1] = hand
  BY <1>1, Appended DEF IInv, TypeOK, Enqueue
<1>5. QueueBar \in Seq(Conn) /\ Len(QueueBar) = Len(queue)
  BY <1>4, BarOfQueue DEF IInv, TypeOK
<1>6. QueueBar' = Append(QueueBar, c)
  <2>1. /\ DOMAIN Append(QueueBar, c) = 1..(Len(queue) + 1)
        /\ \A i \in 1..Len(queue) : Append(QueueBar, c)[i] = QueueBar[i]
        /\ Append(QueueBar, c)[Len(queue) + 1] = c
    BY <1>2, <1>5, Appended
  <2>2. \A i \in 1..(Len(queue) + 1) : queue'[i].conn = Append(QueueBar, c)[i]
    BY <1>2, <1>4, <2>1 DEF QueueBar
  <2>3. Append(QueueBar, c) \in Seq(Conn)
    BY <1>2, <1>5, Appended
  <2> QED
    BY <1>4, <2>1, <2>2, <2>3 DEF QueueBar
<1>7. \A e \in Conn : Queued(e)' <=> (e = c \/ Queued(e))
  <2>1. Queued(c)'
    <3>1. Len(queue) + 1 \in DOMAIN queue' /\ queue'[Len(queue) + 1].conn = c
      BY <1>2, <1>4
    <3> QED
      BY <3>1 DEF Queued
  <2>2. ASSUME NEW e \in Conn, e # c  PROVE Queued(e)' <=> Queued(e)
    <3>1. ASSUME Queued(e)  PROVE Queued(e)'
      BY <1>4, <3>1 DEF Queued
    <3>2. ASSUME Queued(e)'  PROVE Queued(e)
      BY <1>2, <1>4, <2>2, <3>2 DEF Queued
    <3> QED
      BY <3>1, <3>2
  <2> QED
    BY <2>1, <2>2
<1>8. StatusBar[c] = "new"
  BY <1>2, <1>3 DEF StatusBar, StatusOf, Queued
<1>9. \A e \in Conn : StatusOf(e)' = IF e = c THEN "queued" ELSE StatusOf(e)
  BY <1>2, <1>3, <1>7, <1>a DEF StatusOf, Enqueue, clientVars, workerVars
<1>10. StatusBar' = [StatusBar EXCEPT ![c] = "queued"]
  BY <1>2, <1>9 DEF StatusBar
<1>11. MainBar = "feeding" /\ MainBar' = "feeding" /\ UNCHANGED <<exit_flag, owner>>
  BY DEF MainBar, Enqueue, workerVars
<1>12. \/ Pool!At("waiting") = {} /\ PcBar' = PcBar
       \/ \E w \in Pool!At("waiting") : PcBar' = [PcBar EXCEPT ![w] = "ready"]
  BY SignalIsSignal DEF IInv, Enqueue
<1>13. Pool!Signal
  BY <1>12 DEF Pool!Signal, PcBar
<1> QED
  BY <1>6, <1>8, <1>10, <1>11, <1>13
  DEF Pool!Submit, QueueBar, StatusBar, StatusOf, MainBar

LEMMA StopIsShutdown == ASSUME IInv, Stop  PROVE Pool!Shutdown
<1> USE DEF Stop, workerVars, clientVars
<1>1. QueueBar' = QueueBar /\ StatusBar' = StatusBar
  BY StatusKept
<1>2. PcBar' = [w \in Worker |-> IF PcBar[w] = "waiting" THEN "ready" ELSE PcBar[w]]
  BY DEF PcBar, InSession
<1>3. MainBar = "feeding" /\ MainBar' = "joining" /\ exit_flag' = TRUE /\ owner' = owner
  BY DEF MainBar
<1> QED
  BY <1>1, <1>2, <1>3
  DEF Pool!Shutdown, Pool!Broadcast, QueueBar, StatusBar, StatusOf, MainBar, PcBar

LEMMA JoinIsJoin == ASSUME IInv, Join  PROVE Pool!Join
<1> USE DEF Join, workerVars, clientVars
<1>1. QueueBar' = QueueBar /\ StatusBar' = StatusBar
  BY StatusKept
<1>2. Pool!At("exited") = Worker
  BY DEF Pool!At, At, InSession
<1>3. MainBar = "joining" /\ MainBar' = "joined" /\ PcBar' = PcBar
  BY DEF MainBar, PcBar
<1> QED
  BY <1>1, <1>2, <1>3
  DEF Pool!Join, QueueBar, StatusBar, StatusOf, MainBar, PcBar

LEMMA PoolStepIsSame ==
  ASSUME IInv, NEW w \in Worker
  PROVE  /\ Wait(w) => Pool!Wait(w)
         /\ SpuriousWakeup(w) => Pool!SpuriousWakeup(w)
         /\ Leave(w) => Pool!Leave(w)
<1> USE DEF IInv, TypeOK, Goto, clientVars, mainVars, workerVars
<1>1. ASSUME NEW l \in {"ready", "waiting", "exited"}, pc' = [pc EXCEPT ![w] = l]
      PROVE  PcBar' = [PcBar EXCEPT ![w] = l]
  BY <1>1 DEF PcBar, InSession
<1>2. PcBar[w] = "ready" <=> pc[w] = "ready"
  BY DEF PcBar, InSession
<1>3. PcBar[w] = "waiting" <=> pc[w] = "waiting"
  BY DEF PcBar, InSession
<1>4. queue = <<>> => QueueBar = <<>>
  BY DEF QueueBar
<1> HIDE DEF IInv, TypeOK
<1>5. ASSUME Wait(w)  PROVE Pool!Wait(w)
  <2>1. QueueBar' = QueueBar /\ StatusBar' = StatusBar
    BY <1>5, StatusKept DEF Wait
  <2>2. PcBar' = [PcBar EXCEPT ![w] = "waiting"] /\ PcBar[w] = "ready" /\ QueueBar = <<>>
    BY <1>1, <1>2, <1>4, <1>5 DEF Wait
  <2>3. MainBar' = MainBar /\ ~exit_flag /\ exit_flag' = exit_flag /\ owner' = owner
    BY <1>5 DEF Wait, MainBar
  <2> QED
    BY <2>1, <2>2, <2>3
    DEF Pool!Wait, QueueBar, StatusBar, StatusOf, MainBar, PcBar
<1>6. ASSUME SpuriousWakeup(w)  PROVE Pool!SpuriousWakeup(w)
  <2>1. QueueBar' = QueueBar /\ StatusBar' = StatusBar
    BY <1>6, StatusKept DEF SpuriousWakeup
  <2>2. PcBar' = [PcBar EXCEPT ![w] = "ready"] /\ PcBar[w] = "waiting"
    BY <1>1, <1>3, <1>6 DEF SpuriousWakeup
  <2>3. MainBar' = MainBar /\ exit_flag' = exit_flag /\ owner' = owner
    BY <1>6 DEF SpuriousWakeup, MainBar
  <2> QED
    BY <2>1, <2>2, <2>3
    DEF Pool!SpuriousWakeup, QueueBar, StatusBar, StatusOf, MainBar, PcBar
<1>7. ASSUME Leave(w)  PROVE Pool!Leave(w)
  <2>1. QueueBar' = QueueBar /\ StatusBar' = StatusBar
    BY <1>7, StatusKept DEF Leave
  <2>2. PcBar' = [PcBar EXCEPT ![w] = "exited"] /\ PcBar[w] = "ready"
    BY <1>1, <1>2, <1>7 DEF Leave
  <2>3. MainBar' = MainBar /\ exit_flag /\ exit_flag' = exit_flag /\ owner' = owner
    BY <1>7 DEF Leave, MainBar
  <2> QED
    BY <2>1, <2>2, <2>3
    DEF Pool!Leave, QueueBar, StatusBar, StatusOf, MainBar, PcBar
<1> QED
  BY <1>5, <1>6, <1>7

LEMMA TakeIsTake == ASSUME IInv, NEW w \in Worker, Take(w)  PROVE Pool!Take(w)
<1> USE NoneAssumption
<1> DEFINE first == Head(queue)
<1>1. /\ first \in [fd : Fd, conn : Conn] /\ first = queue[1]
      /\ Len(queue) \in Nat \ {0}
      /\ DOMAIN queue = 1..Len(queue) /\ DOMAIN Tail(queue) = 1..(Len(queue) - 1)
      /\ \A i \in 1..(Len(queue) - 1) : Tail(queue)[i] = queue[i + 1]
  BY TailOf DEF IInv, TypeOK, Take
<1>2. PICK c \in Conn : c = first.conn /\ c = queue[1].conn
  BY <1>1
<1> HIDE DEF first
<1>3. QueueBar \in Seq(Conn) /\ Len(QueueBar) = Len(queue)
  BY BarOfQueue DEF IInv, TypeOK
<1>4. QueueBar # <<>> /\ Head(QueueBar) = c
  <2>1. QueueBar[1] = c
    BY <1>1, <1>2 DEF QueueBar
  <2>2. QueueBar # <<>>
    BY <1>1, <1>3
  <2> QED
    BY <1>3, <2>1, <2>2, TailOf
<1>5. QueueBar' = Tail(QueueBar)
  <2>1. /\ Tail(QueueBar) \in Seq(Conn) /\ DOMAIN Tail(QueueBar) = 1..(Len(queue) - 1)
        /\ \A i \in 1..(Len(queue) - 1) : Tail(QueueBar)[i] = QueueBar[i + 1]
    BY <1>3, <1>4, TailOf
  <2>2. queue' = Tail(queue)
    BY DEF Take
  <2>3. \A i \in 1..(Len(queue) - 1) : queue'[i].conn = Tail(QueueBar)[i]
    BY <1>1, <2>1, <2>2 DEF QueueBar
  <2> QED
    BY <1>1, <2>1, <2>2, <2>3 DEF QueueBar
<1>6. /\ owner' = [owner EXCEPT ![w] = c] /\ pc[w] = "ready" /\ ~exit_flag
      /\ pc' = [pc EXCEPT ![w] = "recv"]
      /\ UNCHANGED <<link, hand, main, exit_flag>>
  BY <1>2 DEF Take, Goto, clientVars, mainVars, first
<1>7. PcBar[w] = "ready" /\ PcBar' = [PcBar EXCEPT ![w] = "serving"]
  BY <1>6 DEF IInv, TypeOK, PcBar, InSession
<1>8. \A e \in Conn : Queued(e)' <=> (Queued(e) /\ e # c)
  <2>1. /\ DOMAIN queue' = 1..(Len(queue) - 1)
        /\ \A i \in 1..(Len(queue) - 1) : queue'[i] = queue[i + 1]
    BY <1>1 DEF Take
  <2>2. ~ Queued(c)'
    <3> SUFFICES ASSUME NEW i \in DOMAIN queue', queue'[i].conn = c  PROVE FALSE
      BY DEF Queued
    <3>1. i + 1 \in DOMAIN queue /\ 1 \in DOMAIN queue /\ queue[i + 1].conn = queue[1].conn
      BY <1>1, <1>2, <2>1
    <3>2. i + 1 = 1
      BY <3>1 DEF IInv, OnePlace
    <3> QED
      BY <1>1, <2>1, <3>2
  <2>3. ASSUME NEW e \in Conn, Queued(e), e # c  PROVE Queued(e)'
    <3>1. PICK i \in DOMAIN queue : queue[i].conn = e
      BY <2>3 DEF Queued
    <3>2. i - 1 \in DOMAIN queue' /\ queue'[i - 1] = queue[i]
      BY <1>1, <1>2, <2>1, <2>3, <3>1
    <3> QED
      BY <3>1, <3>2 DEF Queued
  <2>4. ASSUME NEW e \in Conn, Queued(e)'  PROVE Queued(e)
    <3>1. PICK i \in DOMAIN queue' : queue'[i].conn = e
      BY <2>4 DEF Queued
    <3>2. i + 1 \in DOMAIN queue /\ queue'[i] = queue[i + 1]
      BY <1>1, <2>1
    <3> QED
      BY <3>1, <3>2 DEF Queued
  <2> QED
    BY <2>2, <2>3, <2>4
<1>9. owner[w] = None /\ \A v \in Worker : owner'[v] = IF v = w THEN c ELSE owner[v]
  BY <1>6 DEF IInv, TypeOK, HandsAgree, InSession
<1>10. \A e \in Conn : StatusOf(e)' = IF e = c THEN "running" ELSE StatusOf(e)
  <2>1. StatusOf(c)' = "running"
    BY <1>2, <1>8, <1>9 DEF StatusOf
  <2>2. ASSUME NEW e \in Conn, e # c  PROVE StatusOf(e)' = StatusOf(e)
    <3>1. (\E v \in Worker : owner'[v] = e) <=> \E v \in Worker : owner[v] = e
      BY <1>9, <2>2
    <3> QED
      BY <1>6, <1>8, <2>2, <3>1 DEF StatusOf
  <2> QED
    BY <2>1, <2>2
<1>11. StatusBar' = [StatusBar EXCEPT ![c] = "running"]
  BY <1>2, <1>10 DEF StatusBar
<1>12. MainBar' = MainBar
  BY <1>6 DEF MainBar
<1> QED
  BY <1>4, <1>5, <1>6, <1>7, <1>11, <1>12
  DEF Pool!Take, QueueBar, StatusBar, StatusOf, MainBar, PcBar

LEMMA CloseIsFinish == ASSUME IInv, NEW w \in Worker, Close(w)  PROVE Pool!Finish(w)
<1> USE NoneAssumption
<1>1. PICK c \in Conn : c = owner[w]
  BY DEF IInv, TypeOK, HandsAgree, InSession, Close
<1>2. /\ link[c] = "accepted" /\ hand.conn # c
      /\ \A v \in Worker : owner[v] = c => v = w
      /\ \A i \in DOMAIN queue : queue[i].conn # c
  BY <1>1 DEF IInv, OnePlace
<1>3. /\ pc[w] = "close" /\ pc' = [pc EXCEPT ![w] = "ready"]
      /\ owner' = [owner EXCEPT ![w] = None]
      /\ UNCHANGED <<link, hand, main, exit_flag, queue>>
  BY DEF Close, Goto, clientVars, mainVars
<1>4. PcBar[w] = "serving" /\ PcBar' = [PcBar EXCEPT ![w] = "ready"]
  BY <1>3 DEF IInv, TypeOK, PcBar, InSession
<1>5. QueueBar' = QueueBar /\ \A e \in Conn : Queued(e)' <=> Queued(e)
  BY <1>3 DEF QueueBar, Queued
<1>6. \A v \in Worker : owner'[v] = IF v = w THEN None ELSE owner[v]
  BY <1>3 DEF IInv, TypeOK
<1>7. \A e \in Conn : StatusOf(e)' = IF e = c THEN "done" ELSE StatusOf(e)
  <2>1. StatusOf(c)' = "done"
    BY <1>1, <1>2, <1>3, <1>5, <1>6 DEF StatusOf, Queued
  <2>2. ASSUME NEW e \in Conn, e # c  PROVE StatusOf(e)' = StatusOf(e)
    <3>1. (\E v \in Worker : owner'[v] = e) <=> \E v \in Worker : owner[v] = e
      BY <1>1, <1>6, <2>2
    <3> QED
      BY <1>3, <1>5, <3>1 DEF StatusOf
  <2> QED
    BY <2>1, <2>2
<1>8. StatusBar' = [StatusBar EXCEPT ![c] = "done"]
  BY <1>1, <1>7 DEF StatusBar
<1>9. MainBar' = MainBar
  BY <1>3 DEF MainBar
<1> QED
  BY <1>1, <1>3, <1>4, <1>5, <1>8, <1>9
  DEF Pool!Finish, QueueBar, StatusBar, StatusOf, MainBar, PcBar

\* Every step of the server is one of the pool, or none to it.
LEMMA StepIsPoolStep == IInv /\ [Next]_vars => [Pool!Next]_PoolVars
<1> SUFFICES ASSUME IInv, [Next]_vars  PROVE Pool!Next \/ UNCHANGED PoolVars
  OBVIOUS
<1> USE DEF clientVars, mainVars, workerVars
<1>1. ASSUME NEW c \in Conn, Connect(c) \/ Send(c) \/ Hangup(c)  PROVE UNCHANGED PoolVars
  <2>1. UNCHANGED <<queue, exit_flag, owner, pc, hand, main>>
    BY <1>1 DEF Connect, Send, Hangup
  <2>2. \A e \in Conn : link'[e] # link[e] => link[e] = "new" /\ link'[e] = "backlog"
    BY <1>1 DEF Connect, Send, Hangup, IInv, TypeOK
  <2> QED
    BY <2>1, <2>2, PoolStutters DEF MainBar
<1>2. CASE Interrupt \/ Poll \/ ReAdd \/ NextPoll
  <2>1. UNCHANGED <<queue, exit_flag, owner, pc, hand, link>>
    BY <1>2 DEF Interrupt, Poll, ReAdd, NextPoll
  <2>2. MainBar' = MainBar
    BY <1>2 DEF Interrupt, Poll, ReAdd, NextPoll, MainBar
  <2> QED
    BY <2>1, <2>2, PoolStutters
<1>3. ASSUME NEW w \in Worker,
             CallRecv(w) \/ Receive(w) \/ EndOfFile(w) \/ Refresh(w) \/ Handle(w) \/ Forget(w)
      PROVE  UNCHANGED PoolVars
  <2>1. UNCHANGED <<queue, exit_flag, owner, hand, link, main>>
    BY <1>3 DEF CallRecv, Receive, EndOfFile, Refresh, Handle, Forget
  <2>2. pc[w] \in InSession /\ \E l \in InSession : pc' = [pc EXCEPT ![w] = l]
    BY <1>3 DEF CallRecv, Receive, EndOfFile, Refresh, Handle, Forget, Goto, InSession
  <2>3. \A v \in Worker : pc[v] # pc'[v] => pc[v] \in InSession /\ pc'[v] \in InSession
    BY <2>2 DEF IInv, TypeOK
  <2> QED
    BY <2>1, <2>3, PoolStutters DEF MainBar
<1>4. CASE Accept
  BY <1>4, AcceptStutters
<1>5. CASE Enqueue
  BY <1>5, EnqueueIsSubmit DEF Pool!Next
<1>6. CASE Stop \/ Join
  BY <1>6, StopIsShutdown, JoinIsJoin DEF Pool!Next
<1>7. ASSUME NEW w \in Worker,
             Wait(w) \/ SpuriousWakeup(w) \/ Leave(w) \/ Take(w) \/ Close(w)
      PROVE  Pool!Next
  BY <1>7, PoolStepIsSame, TakeIsTake, CloseIsFinish DEF Pool!Next
<1>8. CASE AllOver \/ UNCHANGED vars
  <2>1. UNCHANGED <<queue, exit_flag, owner, pc, hand, link, main>>
    BY <1>8 DEF AllOver, vars
  <2> QED
    BY <2>1, PoolStutters DEF MainBar
<1> QED
  BY <1>1, <1>2, <1>3, <1>4, <1>5, <1>6, <1>7, <1>8 DEF Next, MainStep, WorkerStep

\* Whatever clients, wheel and sessions do, connections go through the server as
\* tasks go through the pool: what ThreadPoolProofs shows of every pool holds of
\* the one at work here (main.c:94-110, worker.c:8-25, 71-78).
THEOREM ServerImplementsPool == Spec => ImplementsPool
<1>1. IInv /\ [Next]_vars => [Pool!Next]_(Pool!vars)
  <2>1. UNCHANGED PoolVars => UNCHANGED Pool!vars
    BY DEF Pool!vars, PoolVars, QueueBar, PcBar, StatusBar, StatusOf, MainBar
  <2> QED
    BY <2>1, StepIsPoolStep
<1> QED
  BY <1>1, PoolInit, SpecIInv, PTL DEF Spec, ImplementsPool, Pool!Spec
------------------------------------------------------------------------------
(* As long as the wheel disconnects nobody, that is if it makes no steps, *)
(* every number stands for one connection from accept to close.            *)

NoExpiry == Steps \subseteq {0}

\* Whoever holds a descriptor holds the connection it denotes.
HoldsOwn ==
  /\ hand # NoHand => conn[hand.fd] = hand.conn
  /\ main # "joined" => \A i \in DOMAIN queue : conn[queue[i].fd] = queue[i].conn
  /\ \A w \in Worker : owner[w] # None => conn[fd[w]] = owner[w]

\* A worker reads from the connection its session was opened for.
ReadsOwn ==
  /\ \A w \in At("blocked") : sock[w] = owner[w]
  /\ SessionOfOneClient

\* The wheel has the open descriptors, but for those a worker is about to close.
TracksOpen ==
  /\ \A d \in Wheel!tracked : conn[d] # None
  /\ \A w \in At("close") : fd[w] \notin Wheel!tracked
  /\ OpenIsTracked

Undisturbed == HoldsOwn /\ ReadsOwn /\ TracksOpen

LEMMA InitUndisturbed == Init => Undisturbed
  BY DEF Init, Undisturbed, HoldsOwn, ReadsOwn, TracksOpen, OpenIsTracked,
         SessionOfOneClient, At, Wheel!Init, Wheel!tracked

\* What holds the places together, for one connection.
LEMMA Holders ==
  ASSUME IInv, Undisturbed
  PROVE  /\ \A w \in Worker : owner[w] # None =>
              /\ fd[w] \in Fd /\ owner[w] \in Conn /\ conn[fd[w]] = owner[w]
              /\ hand # NoHand => hand.fd # fd[w]
              /\ main # "joined" => \A i \in DOMAIN queue : queue[i].fd # fd[w]
              /\ \A v \in Worker : owner[v] # None /\ fd[v] = fd[w] => v = w
         /\ hand # NoHand => hand.fd \in Fd /\ hand.conn \in Conn
         /\ \A i \in DOMAIN queue : queue[i].fd \in Fd /\ queue[i].conn \in Conn
<1>1. queue \in Seq([fd : Fd, conn : Conn])
  BY DEF IInv, TypeOK
<1>2. \A i \in DOMAIN queue : queue[i] \in [fd : Fd, conn : Conn]
  BY <1>1, ElementsOf
<1>3. hand # NoHand => hand.fd \in Fd /\ hand.conn \in Conn
  BY DEF IInv, TypeOK
<1>4. \A i \in DOMAIN queue : queue[i].fd \in Fd /\ queue[i].conn \in Conn
  BY <1>2
<1>5. \A w \in Worker : owner[w] # None => fd[w] \in Fd /\ owner[w] \in Conn
  BY DEF IInv, TypeOK, HandsAgree
<1> QED
  BY <1>3, <1>4, <1>5 DEF IInv, OnePlace, Undisturbed, HoldsOwn

\* Clients, the user and the waiting at the pool touch none of this.
LEMMA IdleUndisturbed ==
  ASSUME IInv, Undisturbed,
         UNCHANGED <<conn, hand, queue, remaining, fd, owner, sock, reading>>,
         main' = main \/ (main \notin {"joining", "joined"} /\ main' # "joined"),
         \A w \in Worker : \/ pc'[w] = pc[w]
                           \/ pc[w] \notin InSession /\ pc'[w] \notin InSession
  PROVE  Undisturbed'
<1>1. At("blocked")' = At("blocked") /\ At("close")' = At("close")
  BY DEF At, InSession
<1>2. main' = "joined" <=> main = "joined"
  OBVIOUS
<1>3. HoldsOwn'
  BY <1>2 DEF Undisturbed, HoldsOwn
<1>4. ReadsOwn'
  BY <1>1 DEF Undisturbed, ReadsOwn, SessionOfOneClient, InSession
<1>5. TracksOpen'
  BY <1>1, <1>2 DEF Undisturbed, TracksOpen, OpenIsTracked, Wheel!tracked
<1> QED
  BY <1>3, <1>4, <1>5 DEF Undisturbed

\* Without steps nobody expires.
LEMMA PollUndisturbed == ASSUME NoExpiry, IInv, Undisturbed, Poll  PROVE Undisturbed'
<1>1. PICK k \in Steps :
        /\ Wheel!Elapse(k)
        /\ conn' = [d \in Fd |-> IF d \in Wheel!Expiring(k) THEN None ELSE conn[d]]
  BY DEF Poll
<1>2. k = 0
  BY DEF NoExpiry
<1>3. \A d \in Fd : remaining[d] \in Nat /\ Wheel!Left(d, k) = remaining[d]
  BY <1>2 DEF Wheel!Left, IInv, TypeOK, Wheel!TypeOK
<1>4. remaining' = remaining
  BY <1>1, <1>3 DEF Wheel!Elapse, IInv, TypeOK, Wheel!TypeOK
<1>5. Wheel!Expiring(k) = {}
  BY <1>3 DEF Wheel!Expiring, Wheel!tracked
<1>6. conn' = conn
  BY <1>1, <1>5 DEF IInv, TypeOK
<1> QED
  BY <1>4, <1>6, IdleUndisturbed DEF Poll, workerVars

LEMMA AcceptUndisturbed == ASSUME IInv, Undisturbed, Accept  PROVE Undisturbed'
<1> USE NoneAssumption DEF workerVars
<1>1. PICK c \in Conn, d \in Fd :
        /\ link[c] = "backlog" /\ conn[d] = None
        /\ conn' = [conn EXCEPT ![d] = c]
        /\ hand' = [fd |-> d, conn |-> c]
        /\ IF d \in Wheel!tracked THEN main' = "readd" /\ UNCHANGED remaining
                                  ELSE main' = "enqueue" /\ Wheel!Arm(d)
  BY DEF Accept, Backlog, Free
<1>2. main = "events" /\ UNCHANGED <<queue, pc, fd, owner, sock, reading>>
  BY DEF Accept
<1>3. d \notin Wheel!tracked
  BY <1>1 DEF Undisturbed, TracksOpen
<1>4. /\ \A e \in Fd : conn'[e] = IF e = d THEN c ELSE conn[e]
      /\ Wheel!tracked' = Wheel!tracked \cup {d} /\ main' = "enqueue"
  BY <1>1, <1>3, BudgetAssumption DEF IInv, TypeOK, Wheel!TypeOK, Wheel!Arm, Wheel!tracked
<1>5. /\ \A i \in DOMAIN queue : /\ queue[i].fd \in Fd /\ queue[i].fd # d
                                 /\ conn[queue[i].fd] = queue[i].conn
      /\ \A w \in Worker : owner[w] # None => /\ fd[w] \in Fd /\ fd[w] # d
                                              /\ conn[fd[w]] = owner[w]
  BY <1>1, <1>2, Holders DEF Undisturbed, HoldsOwn
<1>6. HoldsOwn'
  BY <1>1, <1>2, <1>4, <1>5 DEF HoldsOwn
<1>7. ReadsOwn'
  BY <1>2 DEF Undisturbed, ReadsOwn, SessionOfOneClient, At
<1>8. \A w \in At("close") : fd[w] # d
  BY <1>5 DEF At, IInv, HandsAgree, InSession
<1>9. TracksOpen'
  BY <1>2, <1>4, <1>8 DEF Undisturbed, TracksOpen, OpenIsTracked, At, Wheel!tracked
<1> QED
  BY <1>6, <1>7, <1>9 DEF Undisturbed

\* To give a descriptor its budget again changes nothing here if it had some.
LEMMA RearmKeeps ==
  ASSUME IInv, NEW d \in Fd,
         IF d \in Wheel!tracked THEN Wheel!Rearm(d) ELSE UNCHANGED remaining
  PROVE  Wheel!tracked' = Wheel!tracked
<1>1. CASE d \in Wheel!tracked /\ remaining' = [remaining EXCEPT ![d] = Budget]
  <2>1. \A e \in Fd : remaining'[e] > 0 <=> remaining[e] > 0
    BY <1>1, BudgetAssumption DEF IInv, TypeOK, Wheel!TypeOK, Wheel!tracked
  <2> QED
    BY <2>1 DEF Wheel!tracked
<1>2. CASE remaining' = remaining
  BY <1>2 DEF Wheel!tracked
<1> QED
  BY <1>1, <1>2 DEF Wheel!Rearm, Wheel!Arm

LEMMA ReAddUndisturbed == ASSUME IInv, Undisturbed, ReAdd  PROVE Undisturbed'
<1> USE DEF ReAdd, workerVars
<1>1. hand.fd \in Fd
  BY DEF IInv, TypeOK, HandsAgree
<1>2. Wheel!tracked' = Wheel!tracked
  BY <1>1, RearmKeeps
<1>3. HoldsOwn' /\ ReadsOwn'
  BY DEF Undisturbed, HoldsOwn, ReadsOwn, SessionOfOneClient, At
<1>4. TracksOpen'
  BY <1>2 DEF Undisturbed, TracksOpen, OpenIsTracked, At
<1> QED
  BY <1>3, <1>4 DEF Undisturbed

LEMMA EnqueueUndisturbed == ASSUME IInv, Undisturbed, Enqueue  PROVE Undisturbed'
<1> USE DEF workerVars, clientVars
<1>1. hand # NoHand /\ hand \in [fd : Fd, conn : Conn] /\ hand' = NoHand
  BY DEF IInv, TypeOK, HandsAgree, Enqueue
<1>2. /\ Len(queue) \in Nat /\ DOMAIN queue = 1..Len(queue)
      /\ DOMAIN queue' = 1..(Len(queue) + 1)
      /\ \A i \in DOMAIN queue : queue'[i] = queue[i]
      /\ queue'[Len(queue) + 1] = hand
  BY <1>1, Appended DEF IInv, TypeOK, Enqueue
<1>3. /\ main = "enqueue" /\ main' = "events"
      /\ UNCHANGED <<conn, remaining, fd, owner, sock, reading>>
  BY DEF Enqueue
<1>4. \A w \in Worker : \/ pc'[w] = pc[w]
                        \/ pc[w] = "waiting" /\ pc'[w] = "ready"
  BY SignalMoves DEF IInv, Enqueue
<1>5. HoldsOwn'
  <2>1. \A i \in DOMAIN queue' : conn[queue'[i].fd] = queue'[i].conn
    <3> TAKE i \in DOMAIN queue'
    <3>1. CASE i = Len(queue) + 1
      BY <1>1, <1>2, <3>1 DEF Undisturbed, HoldsOwn
    <3>2. CASE i \in DOMAIN queue
      BY <1>2, <1>3, <3>2 DEF Undisturbed, HoldsOwn
    <3> QED
      BY <1>2, <3>1, <3>2
  <2> QED
    BY <1>1, <1>3, <2>1 DEF Undisturbed, HoldsOwn
<1>6. At("blocked")' = At("blocked") /\ At("close")' = At("close")
  BY <1>4 DEF At
<1>7. ReadsOwn'
  BY <1>3, <1>4, <1>6 DEF Undisturbed, ReadsOwn, SessionOfOneClient
<1>8. TracksOpen'
  BY <1>3, <1>6 DEF Undisturbed, TracksOpen, OpenIsTracked, Wheel!tracked
<1> QED
  BY <1>5, <1>7, <1>8 DEF Undisturbed

\* When the workers have ended, nobody holds a descriptor any more.
LEMMA JoinUndisturbed == ASSUME IInv, Undisturbed, Join  PROVE Undisturbed'
<1> USE DEF Join, workerVars
<1>1. \A w \in Worker : pc[w] = "exited" /\ owner[w] = None
  BY DEF IInv, HandsAgree, InSession, At
<1>2. hand = NoHand /\ main' = "joined"
  BY DEF IInv, HandsAgree
<1>3. Wheel!tracked' = {}
  BY DEF Wheel!tracked
<1>4. HoldsOwn' /\ ReadsOwn' /\ TracksOpen'
  BY <1>1, <1>2, <1>3
  DEF HoldsOwn, ReadsOwn, SessionOfOneClient, TracksOpen, OpenIsTracked, At
<1> QED
  BY <1>4 DEF Undisturbed

LEMMA TakeUndisturbed ==
  ASSUME IInv, Undisturbed, NEW w \in Worker, Take(w)  PROVE Undisturbed'
<1> USE DEF clientVars, mainVars
<1>1. /\ Head(queue) = queue[1] /\ Len(queue) \in Nat \ {0} /\ DOMAIN queue = 1..Len(queue)
      /\ DOMAIN Tail(queue) = 1..(Len(queue) - 1)
      /\ \A i \in 1..(Len(queue) - 1) : Tail(queue)[i] = queue[i + 1]
  BY TailOf DEF IInv, TypeOK, Take
<1>2. /\ pc[w] = "ready" /\ ~exit_flag /\ queue' = Tail(queue)
      /\ UNCHANGED <<conn, main, hand, remaining, sock, reading>>
      /\ \A v \in Worker : /\ fd'[v] = IF v = w THEN queue[1].fd ELSE fd[v]
                           /\ owner'[v] = IF v = w THEN queue[1].conn ELSE owner[v]
                           /\ pc'[v] = IF v = w THEN "recv" ELSE pc[v]
  BY <1>1 DEF Take, Goto, IInv, TypeOK
<1>3. main # "joined"
  BY <1>2 DEF IInv, HandsAgree
<1>4. conn[queue[1].fd] = queue[1].conn
  BY <1>1, <1>3 DEF Undisturbed, HoldsOwn
<1>5. HoldsOwn'
  <2>1. \A i \in DOMAIN queue' : conn[queue'[i].fd] = queue'[i].conn
    BY <1>1, <1>2, <1>3 DEF Undisturbed, HoldsOwn
  <2>2. \A v \in Worker : owner'[v] # None => conn[fd'[v]] = owner'[v]
    BY <1>2, <1>4 DEF Undisturbed, HoldsOwn
  <2> QED
    BY <1>2, <2>1, <2>2 DEF Undisturbed, HoldsOwn
<1>6. ReadsOwn'
  BY <1>2 DEF Undisturbed, ReadsOwn, SessionOfOneClient, At
<1>7. TracksOpen'
  BY <1>2 DEF Undisturbed, TracksOpen, OpenIsTracked, At, Wheel!tracked
<1> QED
  BY <1>5, <1>6, <1>7 DEF Undisturbed

\* Inside a session, up to close.
LEMMA SessionUndisturbed ==
  ASSUME IInv, Undisturbed, NEW w \in Worker,
         UNCHANGED <<conn, hand, main, queue, fd, owner>>,
         Wheel!tracked' = Wheel!tracked,
         pc[w] \in InSession \ {"close"},
         \A v \in Worker \ {w} : UNCHANGED <<pc[v], sock[v], reading[v]>>,
         pc'[w] \in InSession \ {"close"},
         pc'[w] = "blocked" => sock'[w] = owner[w],
         pc'[w] \in {"refresh", "handle"} => reading'[w] = owner[w]
  PROVE  Undisturbed'
<1>1. HoldsOwn'
  BY DEF Undisturbed, HoldsOwn
<1>2. ReadsOwn'
  BY DEF Undisturbed, ReadsOwn, SessionOfOneClient, At
<1>3. At("close")' = At("close")
  BY DEF At
<1>4. TracksOpen'
  BY <1>3 DEF Undisturbed, TracksOpen, OpenIsTracked
<1> QED
  BY <1>1, <1>2, <1>4 DEF Undisturbed

LEMMA ReadUndisturbed ==
  ASSUME IInv, Undisturbed, NEW w \in Worker,
         CallRecv(w) \/ Receive(w) \/ EndOfFile(w) \/ Handle(w)
  PROVE  Undisturbed'
<1> USE DEF Goto, clientVars, mainVars, workerVars, InSession
<1>1. /\ UNCHANGED <<conn, hand, main, queue, fd, owner, remaining>>
      /\ \A v \in Worker \ {w} : UNCHANGED <<pc[v], sock[v], reading[v]>>
      /\ pc[w] \in {"recv", "blocked", "handle"}
  BY DEF CallRecv, Receive, EndOfFile, Handle, IInv, TypeOK
<1>2. Wheel!tracked' = Wheel!tracked
  BY <1>1 DEF Wheel!tracked
<1>3. owner[w] # None /\ conn[fd[w]] = owner[w] /\ (pc[w] = "blocked" => sock[w] = owner[w])
  BY <1>1 DEF IInv, HandsAgree, Undisturbed, HoldsOwn, ReadsOwn, At
<1>4. /\ pc'[w] \in {"recv", "blocked", "refresh", "handle", "forget"}
      /\ pc'[w] = "blocked" => sock'[w] = owner[w]
      /\ pc'[w] \in {"refresh", "handle"} => reading'[w] = owner[w]
  BY <1>3 DEF CallRecv, Receive, EndOfFile, Handle, IInv, TypeOK
<1> QED
  BY <1>1, <1>2, <1>4, SessionUndisturbed

LEMMA RefreshUndisturbed ==
  ASSUME IInv, Undisturbed, NEW w \in Worker, Refresh(w)  PROVE Undisturbed'
<1> USE DEF Goto, clientVars, mainVars, workerVars, InSession
<1>1. fd[w] \in Fd /\ pc[w] = "refresh" /\ reading[w] = owner[w]
  BY DEF Refresh, IInv, TypeOK, HandsAgree, Undisturbed, ReadsOwn, SessionOfOneClient
<1>2. Wheel!tracked' = Wheel!tracked
  BY <1>1, RearmKeeps DEF Refresh
<1>3. UNCHANGED <<conn, hand, main, queue, fd, owner, sock>>
  BY DEF Refresh
<1>4. PICK l \in {"recv", "handle"} :
        /\ pc' = [pc EXCEPT ![w] = l]
        /\ \/ l = "recv" /\ reading' = [reading EXCEPT ![w] = None]
           \/ reading' = reading
  BY DEF Refresh
<1>5. /\ \A v \in Worker \ {w} : UNCHANGED <<pc[v], sock[v], reading[v]>>
      /\ pc'[w] = l /\ (l = "handle" => reading'[w] = reading[w])
  BY <1>3, <1>4 DEF IInv, TypeOK
<1> QED
  BY <1>1, <1>2, <1>3, <1>5, SessionUndisturbed

\* The worker that ends a session takes its descriptor out of the wheel ...
LEMMA ForgetUndisturbed ==
  ASSUME IInv, Undisturbed, NEW w \in Worker, Forget(w)  PROVE Undisturbed'
<1> USE DEF Goto, clientVars, mainVars, workerVars, InSession
<1>1. fd[w] \in Fd /\ pc[w] = "forget"
  BY DEF Forget, IInv, TypeOK, HandsAgree
<1>2. /\ UNCHANGED <<conn, hand, main, queue, fd, owner, sock, reading>>
      /\ \A v \in Worker : pc'[v] = IF v = w THEN "close" ELSE pc[v]
  BY DEF Forget, IInv, TypeOK
<1>3. Wheel!tracked' = Wheel!tracked \ {fd[w]}
  BY <1>1 DEF Forget, Wheel!Disarm, Wheel!tracked, IInv, TypeOK, Wheel!TypeOK
<1>4. HoldsOwn' /\ ReadsOwn'
  BY <1>1, <1>2 DEF Undisturbed, HoldsOwn, ReadsOwn, SessionOfOneClient, At
<1>5. At("close")' = At("close") \cup {w}
  BY <1>2 DEF At
<1>6. TracksOpen'
  BY <1>2, <1>3, <1>5 DEF Undisturbed, TracksOpen, OpenIsTracked
<1> QED
  BY <1>4, <1>6 DEF Undisturbed

\* ... and closes it: nobody else holds it.
LEMMA CloseUndisturbed ==
  ASSUME IInv, Undisturbed, NEW w \in Worker, Close(w)  PROVE Undisturbed'
<1> USE DEF Goto, clientVars, mainVars, InSession
<1>1. fd[w] \in Fd /\ pc[w] = "close" /\ owner[w] # None
  BY DEF Close, IInv, TypeOK, HandsAgree
<1>2. /\ UNCHANGED <<hand, main, queue, remaining, sock>>
      /\ \A d \in Fd : conn'[d] = IF d = fd[w] THEN None ELSE conn[d]
      /\ \A v \in Worker : /\ pc'[v] = IF v = w THEN "ready" ELSE pc[v]
                           /\ fd'[v] = IF v = w THEN None ELSE fd[v]
                           /\ owner'[v] = IF v = w THEN None ELSE owner[v]
                           /\ reading'[v] = IF v = w THEN None ELSE reading[v]
  BY <1>1 DEF Close, IInv, TypeOK
<1>3. /\ hand # NoHand => hand.fd \in Fd /\ hand.fd # fd[w]
      /\ main # "joined" => \A i \in DOMAIN queue : queue[i].fd \in Fd \ {fd[w]}
      /\ \A v \in Worker \ {w} : owner[v] # None => fd[v] \in Fd \ {fd[w]}
  BY <1>1, Holders
<1>4. HoldsOwn'
  BY <1>2, <1>3 DEF Undisturbed, HoldsOwn
<1>5. ReadsOwn'
  BY <1>2 DEF Undisturbed, ReadsOwn, SessionOfOneClient, At
<1>6. fd[w] \notin Wheel!tracked /\ Wheel!tracked' = Wheel!tracked
  BY <1>1, <1>2 DEF Undisturbed, TracksOpen, At, Wheel!tracked
<1>7. \A d \in Wheel!tracked : d \in Fd /\ conn'[d] # None
  BY <1>2, <1>6 DEF Undisturbed, TracksOpen, Wheel!tracked
<1>8. At("close")' = At("close") \ {w}
  BY <1>2 DEF At
<1>9. OpenIsTracked'
  BY <1>2, <1>6, <1>8 DEF Undisturbed, TracksOpen, OpenIsTracked, At
<1>10. TracksOpen'
  BY <1>2, <1>6, <1>7, <1>8, <1>9 DEF Undisturbed, TracksOpen, At
<1> QED
  BY <1>4, <1>5, <1>10 DEF Undisturbed

LEMMA StepUndisturbed ==
  ASSUME NoExpiry, IInv, Undisturbed, [Next]_vars  PROVE Undisturbed'
<1> USE DEF clientVars, mainVars, workerVars
<1>1. ASSUME \/ \E c \in Conn : Connect(c) \/ Send(c) \/ Hangup(c)
             \/ Interrupt \/ Stop \/ NextPoll \/ AllOver \/ UNCHANGED vars
             \/ \E w \in Worker : Wait(w) \/ SpuriousWakeup(w) \/ Leave(w)
      PROVE  Undisturbed'
  <2>1. UNCHANGED <<conn, hand, queue, remaining, fd, owner, sock, reading>>
    BY <1>1 DEF Connect, Send, Hangup, Interrupt, Stop, NextPoll, AllOver, vars, Wait,
                SpuriousWakeup, Leave
  <2>2. main' = main \/ (main \notin {"joining", "joined"} /\ main' # "joined")
    BY <1>1 DEF Connect, Send, Hangup, Interrupt, Stop, NextPoll, AllOver, vars, Wait,
                SpuriousWakeup, Leave
  <2>3. \A w \in Worker : \/ pc'[w] = pc[w]
                          \/ pc[w] \notin InSession /\ pc'[w] \notin InSession
    BY <1>1 DEF Connect, Send, Hangup, Interrupt, Stop, NextPoll, AllOver, vars, Wait,
                SpuriousWakeup, Leave, Goto, InSession, IInv, TypeOK
  <2> QED
    BY <2>1, <2>2, <2>3, IdleUndisturbed
<1>2. CASE MainStep
  BY <1>1, <1>2, PollUndisturbed, AcceptUndisturbed, ReAddUndisturbed, EnqueueUndisturbed,
     JoinUndisturbed
  DEF MainStep
<1>3. ASSUME NEW w \in Worker, WorkerStep(w)  PROVE Undisturbed'
  BY <1>1, <1>3, TakeUndisturbed, ReadUndisturbed, RefreshUndisturbed, ForgetUndisturbed,
     CloseUndisturbed
  DEF WorkerStep
<1> QED
  BY <1>1, <1>2, <1>3 DEF Next

LEMMA SpecUndisturbed == ASSUME NoExpiry  PROVE Spec => [](IInv /\ Undisturbed)
<1>1. Init => IInv /\ Undisturbed
  BY InitIInv, InitUndisturbed
<1>2. IInv /\ Undisturbed /\ [Next]_vars => (IInv /\ Undisturbed)'
  BY NextIInv, StepUndisturbed
<1> QED
  BY <1>1, <1>2, PTL DEF Spec

\* While the wheel disconnects nobody, a worker only ever carries out commands of
\* the client its session was opened for, however descriptors are reused
\* (main.c:96-110, worker.c:25-69).
THEOREM SessionOfOneClientAlways ==
  ASSUME NoExpiry  PROVE Spec => []SessionOfOneClient
<1>1. Undisturbed => SessionOfOneClient
  BY DEF Undisturbed, ReadsOwn
<1> QED
  BY <1>1, SpecUndisturbed, PTL

\* Then every open connection can be expired: from accept to time_wheel_del it is
\* in the wheel, although its number may have been there for an earlier client
\* (main.c:101-103, worker.c:75-78).
THEOREM OpenIsTrackedAlways == ASSUME NoExpiry  PROVE Spec => []OpenIsTracked
<1>1. Undisturbed => OpenIsTracked
  BY DEF Undisturbed, TracksOpen
<1> QED
  BY <1>1, SpecUndisturbed, PTL

\* And what a worker takes out of the wheel is the entry of the client that left,
\* never that of the next one under its number (worker.c:75-77).
THEOREM ForgetsOwnClientAlways == ASSUME NoExpiry  PROVE Spec => ForgetsOwnClient
<1>1. ASSUME IInv, Undisturbed
      PROVE  [\A w \in Worker : Forget(w) => conn[fd[w]] \in {owner[w], None}]_vars
  <2> SUFFICES ASSUME NEW w \in Worker, Forget(w)  PROVE conn[fd[w]] = owner[w]
    OBVIOUS
  <2>1. owner[w] # None
    BY <1>1 DEF Forget, IInv, HandsAgree, InSession
  <2> QED
    BY <1>1, <2>1 DEF Undisturbed, HoldsOwn
<1> QED
  BY <1>1, SpecUndisturbed, PTL DEF ForgetsOwnClient
==============================================================================
