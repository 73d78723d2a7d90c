--------------------------- MODULE ProducerConsumer ---------------------------
(***************************************************************************)
(* The program 0006 (main.c): threads that produce and threads that        *)
(* consume share a linked list of bounded size, one mutex and one          *)
(* condition variable.  What a thread does while it holds the mutex, up to *)
(* unlocking or waiting, is one step.  The pauses between two rounds are   *)
(* left out: a thread may be as slow as it likes.                          *)
(***************************************************************************)
EXTENDS Naturals, Sequences, FiniteSets

CONSTANTS Producers, Consumers,
          Capacity,    \* 20 in the program
          Initial,     \* products at the start, 10 in the program
          Values,      \* what a product may be worth
          Addresses    \* 1..n, where calloc finds room for a node

VARIABLES queue,     \* head, tail and size of the list
          node,      \* the nodes allocated, by address
          waiting,   \* the threads in pthread_cond_wait
          contents   \* history: the values offered and not yet fetched

vars == <<queue, node, waiting, contents>>

NULL == 0
Threads == Producers \cup Consumers

\* main has offered the first products one after the other.
Init ==
  /\ contents \in [1..Initial -> Values]
  /\ node = [a \in 1..Initial |->
               [value |-> contents[a], next |-> IF a = Initial THEN NULL ELSE a + 1]]
  /\ queue = [head |-> IF Initial = 0 THEN NULL ELSE 1, tail |-> Initial, size |-> Initial]
  /\ waiting = {}

-----------------------------------------------------------------------------
(* The list.                                                               *)

\* A new node is the head of an empty list, and follows the tail of another.
Offer(value) ==
  \E a \in Addresses \ DOMAIN node :
    /\ node' = [b \in DOMAIN node \cup {a} |->
                  IF b = a THEN [value |-> value, next |-> NULL]
                  ELSE IF queue.size > 0 /\ b = queue.tail THEN [node[b] EXCEPT !.next = a]
                  ELSE node[b]]
    /\ queue' = [head |-> IF queue.size = 0 THEN a ELSE queue.head,
                 tail |-> a, size |-> queue.size + 1]
    /\ contents' = Append(contents, value)

\* Mutant: the last node fetched stays the tail.
FetchKeepingTail ==
  /\ queue' = [queue EXCEPT !.head = node[queue.head].next, !.size = @ - 1]
  /\ node' = [a \in DOMAIN node \ {queue.head} |-> node[a]]
  /\ contents' = Tail(contents)

\* The head is unlinked and freed; an empty list has no tail.
Fetch ==
  /\ queue' = [head |-> node[queue.head].next, size |-> queue.size - 1,
               tail |-> IF queue.size = 1 THEN NULL ELSE queue.tail]
  /\ node' = [a \in DOMAIN node \ {queue.head} |-> node[a]]
  /\ contents' = Tail(contents)

-----------------------------------------------------------------------------
(* The threads.                                                            *)

\* Mutant: pthread_cond_signal.
WakeOne == \/ waiting = {} /\ waiting' = {}
           \/ \E t \in waiting : waiting' = waiting \ {t}

\* pthread_cond_broadcast: all of them test their condition again.
WakeAll == waiting' = {}

\* The loop around pthread_cond_wait of a producer, and its other round.
ProducerWaits(t) ==
  /\ t \notin waiting /\ queue.size >= Capacity
  /\ waiting' = waiting \cup {t}
  /\ UNCHANGED <<queue, node, contents>>

Produce(t) ==
  /\ t \notin waiting /\ queue.size < Capacity
  /\ \E value \in Values : Offer(value)
  /\ WakeAll

\* The same of a consumer.
ConsumerWaits(t) ==
  /\ t \notin waiting /\ queue.size <= 0
  /\ waiting' = waiting \cup {t}
  /\ UNCHANGED <<queue, node, contents>>

Consume(t) == t \notin waiting /\ queue.size > 0 /\ Fetch /\ WakeAll

\* pthread_cond_wait may return without a signal.
SpuriousWakeup(t) ==
  /\ t \in waiting /\ waiting' = waiting \ {t}
  /\ UNCHANGED <<queue, node, contents>>

Step(t) == \/ t \in Producers /\ (ProducerWaits(t) \/ Produce(t))
           \/ t \in Consumers /\ (ConsumerWaits(t) \/ Consume(t))

Next == \E t \in Threads : Step(t) \/ SpuriousWakeup(t)

Spec == Init /\ [][Next]_vars /\ \A t \in Threads : WF_vars(Step(t))

-----------------------------------------------------------------------------

\* The n-th node from the head, NULL behind the last.
Nth == LET f[n \in 0..Cardinality(Addresses)] ==
             IF n = 0 THEN queue.head
             ELSE IF f[n - 1] \in DOMAIN node THEN node[f[n - 1]].next ELSE NULL
       IN f

\* The list is the queue of what was offered and not yet fetched: the walk from
\* head meets the values in order, ends where size says, tail is its last node
\* and no node is lost (main.c:19-43, both special cases of the empty list).
ListIsQueue ==
  /\ queue.size = Len(contents) /\ Cardinality(DOMAIN node) = queue.size
  /\ \A n \in 1..queue.size : Nth[n - 1] \in DOMAIN node /\ node[Nth[n - 1]].value = contents[n]
  /\ Nth[queue.size] = NULL
  /\ queue.tail = IF queue.size = 0 THEN NULL ELSE Nth[queue.size - 1]

\* Whoever waits has a reason to: producers for room, consumers for a product,
\* so never both kinds at once (main.c:69-75, 89-94).
WaitersHaveReason ==
  /\ \A t \in waiting \cap Producers : queue.size >= Capacity
  /\ \A t \in waiting \cap Consumers : queue.size = 0

\* The list and those who wait for it agree.
QueueConsistent == ListIsQueue /\ WaitersHaveReason

\* Nobody sleeps for ever, which the comment at main.c:75-76 says of broadcast,
\* and not of signal.
EveryoneIsWoken == \A t \in Threads : t \in waiting ~> t \notin waiting
=============================================================================
