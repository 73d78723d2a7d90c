----------------------------- MODULE ProgramProofs -----------------------------
(***************************************************************************)
(* Six of the smaller programs.  Tickets for every number of tickets at    *)
(* the start, in the supply and at which it is due; ProducerConsumer for   *)
(* every number of threads, capacity and contents of the list;             *)
(* Configuration for every hash function and any number of entries;        *)
(* CommandLine for lines of any length and any buffer; Lexer for texts of  *)
(* any length; FileServer for every number of clients and workers.         *)
(***************************************************************************)
EXTENDS FileServer, SmallPrograms, FiniteSetTheorems, SequenceTheorems, WellFoundedInduction, TLAPS

CONSTANTS Initial, Low, Supplied,                        \* of Tickets
          Chars,                                         \* what lines and texts are made of
          Sources                                        \* of Lexer

VARIABLES world, tickets, flag, seller, supplier, sold,  \* of Tickets
          source, current, row, tokens                   \* of Lexer

T == INSTANCE Tickets
Lex == INSTANCE Lexer WITH line <- row

-----------------------------------------------------------------------------
(* Walks.  What a recursive function of the model computes is a walk; that *)
(* every step of it has a property follows from its least counterexample.  *)

LEMMA Least ==
  ASSUME NEW S \in SUBSET Nat, S # {}
  PROVE  \E m \in S : \A k \in S : m <= k
<1>1. IsWellFoundedOn(OpToRel(<, Nat), Nat)
  BY NatLessThanWellFounded
<1>2. PICK m \in S : \A k \in S : ~ (<<k, m>> \in OpToRel(<, Nat))
  BY <1>1, WFMin
<1>3. ASSUME NEW k \in S  PROVE m <= k
  <2>1. k \in Nat /\ m \in Nat
    OBVIOUS
  <2>2. <<k, m>> \in OpToRel(<, Nat) <=> k < m
    BY <2>1, Zenon DEF OpToRel
  <2>3. ~ (k < m)
    BY <1>2, <2>2
  <2> QED
    BY <2>1, <2>3
<1> QED
  BY <1>3

\* Two walks that start alike and step alike are the same walk.
Alike(f, g, n) == f[0] = g[0] /\ \A i \in 1..n : f[i - 1] = g[i - 1] => f[i] = g[i]

LEMMA SameWalk ==
  ASSUME NEW n \in Nat, NEW f, NEW g, Alike(f, g, n)  PROVE \A i \in 0..n : f[i] = g[i]
<1> DEFINE S == {i \in 0..n : f[i] # g[i]}
<1> SUFFICES ASSUME S # {}  PROVE FALSE
  OBVIOUS
<1>1. S \in SUBSET Nat
  OBVIOUS
<1>2. PICK m \in S : \A k \in S : m <= k
  <2> HIDE DEF S
  <2> QED
    BY <1>1, Least
<1>3. m \in 0..n /\ f[m] # g[m] /\ m # 0
  BY DEF Alike
<1>4. m \in 1..n /\ m - 1 \in 0..n /\ ~ (m <= m - 1)
  BY <1>3
<1>5. f[m - 1] = g[m - 1]
  BY <1>2, <1>4
<1> HIDE DEF S
<1> QED
  BY <1>3, <1>4, <1>5 DEF Alike

\* A walk whose steps stay in a set exists.
Walks(f, n, X, base, G) ==
  f \in [0..n -> X] /\ f[0] = base /\ \A i \in 1..n : f[i] = G[i][f[i - 1]]

LEMMA WalkExists ==
  ASSUME NEW n \in Nat, NEW X, NEW base \in X, NEW G \in [1..n -> [X -> X]]
  PROVE  \E f : Walks(f, n, X, base, G)
<1> DEFINE Walk(m, f) == f \in [0..m -> X] /\ f[0] = base /\ \A i \in 1..m : f[i] = G[i][f[i - 1]]
           S == {m \in 0..n : ~ \E f : Walk(m, f)}
<1>1. ASSUME S # {}  PROVE FALSE
  <2>1. S \in SUBSET Nat
    OBVIOUS
  <2>2. PICK m \in S : \A k \in S : m <= k
    <3> HIDE DEF S
    <3> QED
      BY <1>1, <2>1, Least
  <2>3. m \in 0..n /\ ~ \E f : Walk(m, f)
    OBVIOUS
  <2>4. Walk(0, [i \in 0..0 |-> base])
    OBVIOUS
  <2>5. m # 0
    <3> HIDE DEF Walk
    <3> QED
      BY <2>3, <2>4
  <2>6. m \in 1..n /\ m - 1 \in 0..n /\ ~ (m <= m - 1)
    BY <2>3, <2>5
  <2>7. PICK f : Walk(m - 1, f)
    <3> HIDE DEF Walk
    <3> QED
      BY <2>2, <2>6
  <2>8. m - 1 \in 0..(m - 1) /\ f[m - 1] \in X
    BY <2>6, <2>7
  <2>9. G[m][f[m - 1]] \in X
    BY <2>6, <2>8
  <2> DEFINE g == [i \in 0..m |-> IF i = m THEN G[m][f[m - 1]] ELSE f[i]]
  <2>10. \A i \in 0..m : i # m => i \in 0..(m - 1)
    BY <2>6
  <2>11. g \in [0..m -> X]
    BY <2>7, <2>9, <2>10
  <2>12. g[0] = base
    BY <2>6, <2>7
  <2>13. ASSUME NEW i \in 1..m  PROVE g[i] = G[i][g[i - 1]]
    <3>1. i - 1 \in 0..m /\ i - 1 # m /\ i \in 0..m
      BY <2>6
    <3>2. g[i - 1] = f[i - 1]
      BY <3>1
    <3>3. CASE i = m
      BY <3>2, <3>3
    <3>4. CASE i # m
      <4>1. i \in 1..(m - 1)
        BY <3>4, <2>6
      <4>2. g[i] = f[i]
        BY <3>1, <3>4
      <4>3. f[i] = G[i][f[i - 1]]
        BY <2>7, <4>1
      <4> HIDE DEF g
      <4> QED
        BY <3>2, <4>2, <4>3
    <3> QED
      BY <3>3, <3>4
  <2>14. Walk(m, g)
    <3> HIDE DEF g
    <3> QED
      BY <2>11, <2>12, <2>13
  <2> HIDE DEF Walk, S, g
  <2> QED
    BY <2>3, <2>14
<1>2. n \in 0..n /\ n \notin S
  <2> HIDE DEF S
  <2> QED
    BY <1>1
<1>3. PICK f : Walk(n, f)
  BY <1>2
<1>4. Walks(f, n, X, base, G)
  BY <1>3 DEF Walks
<1> QED
  BY <1>4

\* Where a loop from p on stops that passes over the positions in Z, and only there.
Stops(q, p, L, Z) == q \in p..(L + 1) /\ (q > L \/ q \notin Z) /\ \A r \in p..(q - 1) : r \in Z

LEMMA Stopping ==
  ASSUME NEW L \in Nat, NEW p \in 1..(L + 1), NEW Z  PROVE \E q : Stops(q, p, L, Z)
<1> DEFINE R == {q \in p..(L + 1) : q > L \/ q \notin Z}
<1>1. R \in SUBSET Nat /\ L + 1 \in R
  OBVIOUS
<1>2. PICK q \in R : \A r \in R : q <= r
  <2> HIDE DEF R
  <2> QED
    BY <1>1, Least
<1>3. q \in p..(L + 1) /\ (q > L \/ q \notin Z)
  OBVIOUS
<1>4. ASSUME NEW r \in p..(q - 1)  PROVE r \in Z
  <2>1. r \in p..(L + 1) /\ ~ (q <= r)
    BY <1>3
  <2> QED
    BY <1>2, <2>1
<1> QED
  BY <1>3, <1>4 DEF Stops

LEMMA StopsOnce ==
  ASSUME NEW L \in Nat, NEW p \in 1..(L + 1), NEW Z, NEW q, NEW r, Stops(q, p, L, Z), Stops(r, p, L, Z)
  PROVE  q = r
<1>1. q \in p..(L + 1) /\ r \in p..(L + 1)
  BY DEF Stops
<1>2. CASE q < r
  <2>1. q \in p..(r - 1) /\ ~ (q > L)
    BY <1>1, <1>2
  <2> QED
    BY <2>1 DEF Stops
<1>3. CASE r < q
  <2>1. r \in p..(q - 1) /\ ~ (r > L)
    BY <1>1, <1>3
  <2> QED
    BY <2>1 DEF Stops
<1> QED
  BY <1>1, <1>2, <1>3

\* Where what passes over the positions of G arrives: O leads on from each of them.
Routes(f, N, G, O, m) == f \in [m..N -> 1..N] /\ \A p \in m..N : f[p] = IF p \in G THEN f[O[p]] ELSE p
Onwards(N, G, O) == G \subseteq 1..(N - 1) /\ \A p \in G : O[p] \in (p + 1)..N

LEMMA RouteExists ==
  ASSUME NEW N \in Nat \ {0}, NEW G, NEW O, Onwards(N, G, O)
  PROVE  \E f : Routes(f, N, G, O, 1)
<1> DEFINE S == {k \in 0..(N - 1) : ~ \E f : Routes(f, N, G, O, N - k)}
<1>1. ASSUME S # {}  PROVE FALSE
  <2>1. S \in SUBSET Nat
    OBVIOUS
  <2>2. PICK k \in S : \A i \in S : k <= i
    <3> HIDE DEF S
    <3> QED
      BY <1>1, <2>1, Least
  <2>3. k \in 0..(N - 1) /\ ~ \E f : Routes(f, N, G, O, N - k)
    OBVIOUS
  <2>4. k # 0
    <3>1. Routes([p \in N..N |-> N], N, G, O, N)
      <4>1. \A p \in N..N : p = N /\ p \notin G
        BY DEF Onwards
      <4> QED
        BY <4>1 DEF Routes
    <3>2. N - 0 = N
      OBVIOUS
    <3> QED
      BY <2>3, <3>1, <3>2
  <2>5. k - 1 \in 0..(N - 1) /\ ~ (k <= k - 1)
    BY <2>3, <2>4
  <2>6. PICK f : Routes(f, N, G, O, N - (k - 1))
    <3> HIDE DEF S
    <3>1. k - 1 \notin S
      BY <2>2, <2>5
    <3> QED
      BY <2>5, <3>1 DEF S
  <2>7. PICK m \in 1..(N - 1) : m = N - k /\ N - (k - 1) = m + 1
    BY <2>3, <2>4
  <2>8. f \in [(m + 1)..N -> 1..N] /\ \A p \in (m + 1)..N : f[p] = IF p \in G THEN f[O[p]] ELSE p
    BY <2>6, <2>7 DEF Routes
  <2> DEFINE a == IF m \in G THEN f[O[m]] ELSE m
             g == [p \in m..N |-> IF p = m THEN a ELSE f[p]]
  <2>9. \A p \in m..N : p # m => p \in (m + 1)..N
    OBVIOUS
  <2>10. \A p \in m..N : p \in G => O[p] \in (m + 1)..N /\ O[p] \in m..N /\ O[p] # m
    <3> SUFFICES ASSUME NEW p \in m..N, p \in G  PROVE O[p] \in (m + 1)..N /\ O[p] \in m..N /\ O[p] # m
      OBVIOUS
    <3>1. O[p] \in (p + 1)..N
      BY DEF Onwards
    <3> QED
      BY <3>1
  <2>11. a \in 1..N
    BY <2>8, <2>10
  <2>12. g \in [m..N -> 1..N]
    <3> HIDE DEF a
    <3>1. \A p \in m..N : (IF p = m THEN a ELSE f[p]) \in 1..N
      BY <2>8, <2>9, <2>11
    <3> QED
      BY <3>1
  <2>13. ASSUME NEW p \in m..N  PROVE g[p] = IF p \in G THEN g[O[p]] ELSE p
    <3>1. p \in G => g[O[p]] = f[O[p]]
      BY <2>10
    <3>2. CASE p = m
      BY <3>1, <3>2
    <3>3. CASE p # m
      <4>1. g[p] = f[p] /\ f[p] = IF p \in G THEN f[O[p]] ELSE p
        BY <2>8, <2>9, <3>3
      <4> QED
        BY <3>1, <4>1
    <3> QED
      BY <3>2, <3>3
  <2>14. Routes(g, N, G, O, m)
    <3> HIDE DEF g
    <3> QED
      BY <2>12, <2>13 DEF Routes
  <2> QED
    BY <2>3, <2>7, <2>14
<1>2. N - 1 \in 0..(N - 1) /\ N - (N - 1) = 1
  OBVIOUS
<1>3. N - 1 \notin S
  BY <1>1
<1> QED
  BY <1>2, <1>3

-----------------------------------------------------------------------------
(* Tickets.                                                                *)

TicketTypes ==
  /\ tickets \in Nat /\ sold \in Nat /\ flag \in {0, 1}
  /\ seller \in {"selling", "waiting", "done"}
  /\ supplier \in {"start", "waiting", "woken", "done"}

\* No ticket is lost or sold twice.
Balance == tickets + sold = IF flag = 1 THEN Initial + Supplied ELSE Initial

\* The flag tells that the supplier is done, and both only wait where few tickets
\* are left and none were supplied.
Reasons ==
  /\ flag = 1 <=> supplier = "done"
  /\ seller = "waiting" => tickets <= Low /\ flag = 0
  /\ seller = "done" => tickets = 0 /\ flag = 1
  /\ supplier = "woken" => tickets <= Low \/ world.spurious

TicketIInv == TicketTypes /\ Balance /\ Reasons /\ T!SellerIsAnswered

LEMMA TicketsInit == ASSUME Initial \in Nat, T!Init  PROVE TicketIInv
  BY DEF T!Init, TicketIInv, TicketTypes, Balance, Reasons, T!SellerIsAnswered

LEMMA SellKeeps ==
  ASSUME Initial \in Nat, Supplied \in Nat, Low \in Nat, TicketIInv, T!Sell  PROVE TicketIInv'
<1>1. PICK n \in {0, 1} \cap 0..tickets :
        /\ tickets' = tickets - n /\ sold' = sold + n
        /\ \/ T!FewLeft(tickets - n) /\ seller' = "waiting" /\ T!Signal
           \/ UNCHANGED <<seller, supplier>>
  BY DEF T!Sell
<1>2. /\ n \in Nat /\ n <= tickets /\ seller = "selling"
      /\ flag' = flag /\ world' = world
  BY <1>1 DEF T!Sell, TicketIInv, TicketTypes
<1>3. tickets' \in Nat /\ sold' \in Nat /\ tickets' <= tickets /\ tickets' + sold' = tickets + sold
  BY <1>1, <1>2 DEF TicketIInv, TicketTypes
<1>4. CASE T!FewLeft(tickets - n) /\ seller' = "waiting" /\ T!Signal
  BY <1>1, <1>2, <1>3, <1>4
  DEF TicketIInv, TicketTypes, Balance, Reasons, T!SellerIsAnswered, T!FewLeft, T!Signal
<1>5. CASE UNCHANGED <<seller, supplier>>
  <2>1. TicketTypes' /\ Balance' /\ T!SellerIsAnswered'
    BY <1>2, <1>3, <1>5 DEF TicketIInv, TicketTypes, Balance, T!SellerIsAnswered
  <2>2. tickets <= Low => tickets' <= Low
    BY <1>3 DEF TicketIInv, TicketTypes
  <2>3. Reasons'
    BY <1>2, <1>5, <2>2 DEF TicketIInv, Reasons
  <2> QED
    BY <2>1, <2>3 DEF TicketIInv
<1> QED
  BY <1>1, <1>4, <1>5

LEMMA SupplyKeeps ==
  ASSUME Initial \in Nat, Supplied \in Nat, Low \in Nat, TicketIInv,
         T!SupplierArrives \/ T!SupplierWoken
  PROVE  TicketIInv'
  BY DEF T!SupplierArrives, T!SupplierWoken, T!Supply, TicketIInv, TicketTypes, Balance, Reasons,
         T!SellerIsAnswered

LEMMA TicketsKeep ==
  ASSUME Initial \in Nat, Supplied \in Nat, Low \in Nat, TicketIInv, [T!Next]_(T!vars)  PROVE TicketIInv'
<1>1. CASE T!SellerEnds \/ UNCHANGED T!vars
  BY <1>1 DEF T!SellerEnds, T!vars, TicketIInv, TicketTypes, Balance, Reasons, T!SellerIsAnswered
<1>2. CASE T!SupplierWaits
  BY <1>2 DEF T!SupplierWaits, TicketIInv, TicketTypes, Balance, Reasons, T!SellerIsAnswered
<1>3. CASE T!SpuriousWakeup
  BY <1>3 DEF T!SpuriousWakeup, TicketIInv, TicketTypes, Balance, Reasons, T!SellerIsAnswered
<1> QED
  BY <1>1, <1>2, <1>3, SellKeeps, SupplyKeeps DEF T!Next, T!Supplier

LEMMA TicketsAlways ==
  ASSUME Initial \in Nat, Supplied \in Nat, Low \in Nat  PROVE T!Spec => []TicketIInv
  BY TicketsInit, TicketsKeep, PTL DEF T!Spec

\* When the seller has ended, everything was sold, the supply included, however
\* many tickets there were (2.条件变量/main.c:18-21, 1.纯互斥锁/main.c:18-22).
THEOREM SoldOutAlways ==
  ASSUME Initial \in Nat, Supplied \in Nat, Low \in Nat  PROVE T!Spec => []T!SoldOut
<1>1. TicketIInv => T!SoldOut
  BY DEF TicketIInv, TicketTypes, Balance, Reasons, T!SoldOut
<1> QED
  BY <1>1, TicketsAlways, PTL

\* One condition variable, and signals nobody may be waiting for, are enough here:
\* seller and supplier never wait for each other (2.条件变量/main.c:34-37, 51-59).
THEOREM SellerIsAnsweredAlways ==
  ASSUME Initial \in Nat, Supplied \in Nat, Low \in Nat  PROVE T!Spec => []T!SellerIsAnswered
  BY TicketsAlways, PTL DEF TicketIInv

\* If no wait returns without a signal, the wait under if does what the comment says:
\* tickets are supplied when few are left (2.条件变量/main.c:51-58).
THEOREM SuppliesWhenLowAlways ==
  ASSUME Initial \in Nat, Supplied \in Nat, Low \in Nat  PROVE T!Spec => T!SuppliesWhenLow
<1>1. ASSUME TicketIInv, [T!Next]_(T!vars)  PROVE [T!SupplyWhenLow]_(T!vars)
  <2>1. T!SupplierArrives \/ T!SupplierWoken => T!SupplyWhenLow
    BY <1>1 DEF T!SupplierArrives, T!SupplierWoken, T!SupplyWhenLow, TicketIInv, Reasons
  <2>2. ~(T!SupplierArrives \/ T!SupplierWoken) => flag' = flag
    BY <1>1 DEF T!Next, T!Supplier, T!SellerEnds, T!Sell, T!SupplierWaits, T!SpuriousWakeup, T!vars
  <2> QED
    BY <2>1, <2>2 DEF T!SupplyWhenLow
<1> QED
  BY <1>1, TicketsAlways, PTL DEF T!Spec, T!SuppliesWhenLow

-----------------------------------------------------------------------------
(* ProducerConsumer.                                                       *)

ListIInv == list.size \in Nat /\ P!WaitersHaveReason

LEMMA ListStep ==
  ASSUME Producers \cap Consumers = {}, ListIInv, NEW t \in P!Threads, P!Step(t)  PROVE ListIInv'
<1>1. CASE t \in Producers /\ P!ProducerWaits(t)
  <2>1. t \notin Consumers /\ list' = list /\ waiting' = waiting \cup {t}
    BY <1>1 DEF P!ProducerWaits
  <2> QED
    BY <1>1, <2>1 DEF P!ProducerWaits, ListIInv, P!WaitersHaveReason
<1>2. CASE t \in Consumers /\ P!ConsumerWaits(t)
  <2>1. t \notin Producers /\ list' = list /\ waiting' = waiting \cup {t}
    BY <1>2 DEF P!ConsumerWaits
  <2>2. list.size = 0
    BY <1>2 DEF P!ConsumerWaits, ListIInv
  <2> QED
    BY <2>1, <2>2 DEF ListIInv, P!WaitersHaveReason
<1>3. CASE P!Produce(t)
  BY <1>3 DEF P!Produce, P!Offer, P!WakeAll, ListIInv, P!WaitersHaveReason
<1>4. CASE P!Consume(t)
  BY <1>4 DEF P!Consume, P!Fetch, P!WakeAll, ListIInv, P!WaitersHaveReason
<1> QED
  BY <1>1, <1>2, <1>3, <1>4 DEF P!Step

LEMMA ListInit == ASSUME First \in Nat, P!Init  PROVE ListIInv
  BY DEF P!Init, ListIInv, P!WaitersHaveReason

LEMMA ListKeeps ==
  ASSUME Producers \cap Consumers = {}, ListIInv, [P!Next]_(P!vars)  PROVE ListIInv'
<1>1. ASSUME NEW t \in P!Threads, P!SpuriousWakeup(t)  PROVE ListIInv'
  BY <1>1 DEF P!SpuriousWakeup, ListIInv, P!WaitersHaveReason
<1>2. CASE UNCHANGED P!vars
  BY <1>2 DEF P!vars, ListIInv, P!WaitersHaveReason
<1> QED
  BY <1>1, <1>2, ListStep DEF P!Next

LEMMA ListAlways ==
  ASSUME Producers \cap Consumers = {}, First \in Nat  PROVE P!Spec => []ListIInv
  BY ListInit, ListKeeps, PTL DEF P!Spec

\* Producers only wait for room and consumers only for a product, although all of
\* them wait on one condition variable and any wait may return unasked
\* (main.c:69-75, 89-94).
THEOREM WaitersHaveReasonAlways ==
  ASSUME Producers \cap Consumers = {}, First \in Nat
  PROVE  P!Spec => []P!WaitersHaveReason
  BY ListAlways, PTL DEF ListIInv

\* So the two kinds never wait for each other, however small the list, as long as
\* it holds a product at all (main.c:69-75, 89-94).
THEOREM NeverBothWaiting ==
  ASSUME Producers \cap Consumers = {}, First \in Nat, Limit \in Nat \ {0}
  PROVE  P!Spec => [](waiting \cap Producers = {} \/ waiting \cap Consumers = {})
<1>1. ListIInv => (waiting \cap Producers = {} \/ waiting \cap Consumers = {})
  BY DEF ListIInv, P!WaitersHaveReason
<1> QED
  BY <1>1, ListAlways, PTL

\* The library's sets are finite here as they are there.
LEMMA ListSets ==
  ASSUME NEW S  PROVE P!Cardinality(S) = Cardinality(S)
  BY DEF P!Cardinality, Cardinality

\* Nodes have an address, which is not NULL, and those of main have the first ones.
Memory == IsFiniteSet(Addresses) /\ 0 \notin Addresses /\ 1..First \subseteq Addresses

\* The nodes allocated are p[1], p[2] and so on: each is there once, with the value
\* offered in its turn and the link to the next.
Linked(p, n) ==
  /\ p \in [1..n -> DOMAIN node]
  /\ \A i, j \in 1..n : p[i] = p[j] => i = j
  /\ \A a \in DOMAIN node : \E i \in 1..n : p[i] = a
  /\ \A i \in 1..n : /\ node[p[i]].value = contents[i]
                     /\ node[p[i]].next = IF i = n THEN 0 ELSE p[i + 1]
  /\ list.head = IF n = 0 THEN 0 ELSE p[1]
  /\ list.tail = IF n = 0 THEN 0 ELSE p[n]

Node == [value : Values, next : Addresses \cup {0}]

ListTypes ==
  /\ list \in [head : Addresses \cup {0}, tail : Addresses \cup {0}, size : Nat]
  /\ contents \in Seq(Values) /\ Len(contents) = list.size
  /\ DOMAIN node \subseteq Addresses /\ Cardinality(DOMAIN node) = list.size
  /\ node \in [DOMAIN node -> Node]

LinkedIInv == ListTypes /\ \E p : Linked(p, list.size)

LEMMA LinkedInit ==
  ASSUME First \in Nat, Memory, P!Init  PROVE LinkedIInv
<1>1. /\ contents \in [1..First -> Values] /\ contents \in Seq(Values) /\ Len(contents) = First
      /\ node = [a \in 1..First |->
                   [value |-> contents[a], next |-> IF a = First THEN 0 ELSE a + 1]]
      /\ list = [head |-> IF First = 0 THEN 0 ELSE 1, tail |-> First, size |-> First]
  BY DEF P!Init, P!NULL
<1>2. Cardinality(DOMAIN node) = First
  BY <1>1, FS_Interval
<1>3. node \in [DOMAIN node -> Node]
  <2>1. ASSUME NEW a \in 1..First  PROVE node[a] \in Node
    <3>1. a # First => a + 1 \in 1..First
      OBVIOUS
    <3> QED
      BY <1>1, <3>1 DEF Node, Memory
  <2> QED
    BY <1>1, <2>1
<1>4. ListTypes
  BY <1>1, <1>2, <1>3 DEF ListTypes, Memory
<1>5. Linked([i \in 1..First |-> i], First)
  <2> DEFINE p == [i \in 1..First |-> i]
  <2>1. \A i \in 1..First : i # First => i + 1 \in 1..First
    OBVIOUS
  <2>2. First # 0 => 1 \in 1..First /\ First \in 1..First
    OBVIOUS
  <2> QED
    BY <1>1, <2>1, <2>2 DEF Linked
<1> QED
  BY <1>1, <1>4, <1>5 DEF LinkedIInv

LEMMA OfferLinks ==
  ASSUME Memory, LinkedIInv, NEW value \in Values, P!Offer(value)  PROVE LinkedIInv'
<1>1. PICK n \in Nat : n = list.size
  BY DEF LinkedIInv, ListTypes
<1>2. PICK p : Linked(p, n)
  BY <1>1 DEF LinkedIInv
<1>3. PICK a \in Addresses \ DOMAIN node :
        /\ node' = [b \in DOMAIN node \cup {a} |->
                      IF b = a THEN [value |-> value, next |-> 0]
                      ELSE IF list.size > 0 /\ b = list.tail THEN [node[b] EXCEPT !.next = a]
                      ELSE node[b]]
        /\ list' = [head |-> IF list.size = 0 THEN a ELSE list.head, tail |-> a, size |-> list.size + 1]
        /\ contents' = Append(contents, value)
  BY DEF P!Offer, P!NULL
<1>4. /\ contents' \in Seq(Values) /\ Len(contents') = n + 1 /\ contents'[n + 1] = value
      /\ \A i \in 1..n : contents'[i] = contents[i]
  BY <1>1, <1>3 DEF LinkedIInv, ListTypes
<1>5. /\ DOMAIN node' = DOMAIN node \cup {a} /\ a \notin DOMAIN node /\ a \in Addresses
      /\ node'[a] = [value |-> value, next |-> 0]
      /\ \A b \in DOMAIN node : node'[b] = IF n > 0 /\ b = list.tail THEN [node[b] EXCEPT !.next = a]
                                           ELSE node[b]
  BY <1>1, <1>3
<1>6. \A b \in DOMAIN node : node[b] \in Node
  BY DEF LinkedIInv, ListTypes
<1>7. ListTypes'
  <2>1. Cardinality(DOMAIN node') = n + 1
    <3>1. IsFiniteSet(DOMAIN node)
      BY FS_Subset DEF Memory, LinkedIInv, ListTypes
    <3> QED
      BY <1>1, <1>5, <3>1, FS_AddElement DEF LinkedIInv, ListTypes
  <2>2. \A b \in DOMAIN node' : node'[b] \in Node
    <3>1. node'[a] \in Node
      BY <1>5 DEF Node
    <3>2. ASSUME NEW b \in DOMAIN node  PROVE node'[b] \in Node
      BY <1>5, <1>6 DEF Node
    <3> QED
      BY <1>5, <3>1, <3>2
  <2>3. node' \in [DOMAIN node' -> Node]
    BY <1>3, <2>2
  <2>4. list' \in [head : Addresses \cup {0}, tail : Addresses \cup {0}, size : Nat] /\ list'.size = n + 1
    BY <1>1, <1>3 DEF LinkedIInv, ListTypes
  <2>5. DOMAIN node' \subseteq Addresses
    BY <1>5 DEF LinkedIInv, ListTypes
  <2> QED
    BY <1>4, <2>1, <2>3, <2>4, <2>5 DEF ListTypes
<1> DEFINE q == [i \in 1..(n + 1) |-> IF i = n + 1 THEN a ELSE p[i]]
<1>8. /\ q[n + 1] = a /\ \A i \in 1..n : q[i] = p[i] /\ i # n + 1
      /\ \A i \in 1..(n + 1) : i = n + 1 \/ i \in 1..n
  OBVIOUS
<1>9. /\ p \in [1..n -> DOMAIN node] /\ \A i \in 1..n : p[i] \in DOMAIN node /\ p[i] # a
      /\ \A i, j \in 1..n : p[i] = p[j] => i = j
      /\ \A b \in DOMAIN node : \E i \in 1..n : p[i] = b
  BY <1>2, <1>5 DEF Linked
<1>10. Linked(q, n + 1)'
  <2>1. q \in [1..(n + 1) -> DOMAIN node']
    BY <1>5, <1>9
  <2> HIDE DEF q
  <2>2. \A i, j \in 1..(n + 1) : q[i] = q[j] => i = j
    BY <1>8, <1>9
  <2>3. \A b \in DOMAIN node' : \E i \in 1..(n + 1) : q[i] = b
    BY <1>5, <1>8, <1>9
  <2>4. ASSUME NEW i \in 1..(n + 1)
        PROVE  /\ node'[q[i]].value = contents'[i]
               /\ node'[q[i]].next = IF i = n + 1 THEN 0 ELSE q[i + 1]
    <3>1. CASE i = n + 1
      BY <1>4, <1>5, <1>8, <3>1
    <3>2. CASE i \in 1..n
      <4>1. p[i] = list.tail <=> i = n
        <5>1. list.tail = p[n] /\ n \in 1..n
          BY <1>2, <3>2 DEF Linked
        <5> QED
          BY <1>9, <3>2, <5>1
      <4>2. /\ node[p[i]].value = contents[i]
            /\ node[p[i]].next = IF i = n THEN 0 ELSE p[i + 1]
            /\ node[p[i]] \in Node
        BY <1>2, <1>6, <1>9, <3>2 DEF Linked
      <4>3. CASE i = n
        <5>1. node'[p[i]] = [node[p[i]] EXCEPT !.next = a]
          BY <1>5, <1>9, <3>2, <4>1, <4>3
        <5> QED
          BY <1>4, <1>8, <3>2, <4>2, <4>3, <5>1 DEF Node
      <4>4. CASE i # n
        <5>1. node'[p[i]] = node[p[i]] /\ i + 1 \in 1..n
          BY <1>5, <1>9, <3>2, <4>1, <4>4
        <5> QED
          BY <1>4, <1>8, <3>2, <4>2, <4>4, <5>1
      <4> QED
        BY <4>3, <4>4
    <3> QED
      BY <1>8, <3>1, <3>2
  <2>5. list'.head = IF n + 1 = 0 THEN 0 ELSE q[1]
    <3>1. CASE n = 0
      BY <1>1, <1>3, <1>8, <3>1
    <3>2. CASE n # 0
      <4>1. list'.head = list.head /\ list.head = p[1] /\ 1 \in 1..n
        BY <1>1, <1>2, <1>3, <3>2 DEF Linked
      <4> QED
        BY <1>8, <4>1
    <3> QED
      BY <3>1, <3>2
  <2>6. list'.tail = IF n + 1 = 0 THEN 0 ELSE q[n + 1]
    BY <1>3, <1>8
  <2> QED
    BY <2>1, <2>2, <2>3, <2>4, <2>5, <2>6 DEF Linked
<1>11. list'.size = n + 1
  BY <1>1, <1>3
<1> HIDE DEF q
<1> QED
  BY <1>7, <1>10, <1>11 DEF LinkedIInv

LEMMA FetchUnlinks ==
  ASSUME Memory, LinkedIInv, list.size > 0, P!Fetch  PROVE LinkedIInv'
<1>1. PICK n \in Nat : n = list.size /\ n > 0
  BY DEF LinkedIInv, ListTypes
<1>2. PICK p : Linked(p, n)
  BY <1>1 DEF LinkedIInv
<1>3. /\ p \in [1..n -> DOMAIN node] /\ \A i \in 1..n : p[i] \in DOMAIN node
      /\ \A i, j \in 1..n : p[i] = p[j] => i = j
      /\ \A b \in DOMAIN node : \E i \in 1..n : p[i] = b
      /\ list.head = p[1] /\ list.tail = p[n] /\ 1 \in 1..n /\ n \in 1..n
      /\ node[p[1]].next = IF n = 1 THEN 0 ELSE p[2]
  BY <1>1, <1>2 DEF Linked
<1>4. /\ node' = [a \in DOMAIN node \ {p[1]} |-> node[a]]
      /\ list' = [head |-> node[p[1]].next, size |-> n - 1, tail |-> IF n = 1 THEN 0 ELSE list.tail]
      /\ contents' = Tail(contents)
  BY <1>1, <1>3 DEF P!Fetch, P!NULL
<1>5. /\ contents' \in Seq(Values) /\ Len(contents') = n - 1 /\ n - 1 \in Nat
      /\ \A i \in 1..(n - 1) : contents'[i] = contents[i + 1]
  BY <1>1, <1>4 DEF LinkedIInv, ListTypes
<1>6. \A b \in DOMAIN node : node[b] \in Node
  BY DEF LinkedIInv, ListTypes
<1>7. ListTypes'
  <2>1. Cardinality(DOMAIN node') = n - 1
    <3>1. IsFiniteSet(DOMAIN node)
      BY FS_Subset DEF Memory, LinkedIInv, ListTypes
    <3>2. Cardinality(DOMAIN node \ {p[1]}) = Cardinality(DOMAIN node) - 1
      BY <1>3, <3>1, FS_RemoveElement
    <3> QED
      BY <1>1, <1>4, <3>2 DEF LinkedIInv, ListTypes
  <2>2. node' \in [DOMAIN node' -> Node] /\ DOMAIN node' \subseteq Addresses
    BY <1>4, <1>6 DEF LinkedIInv, ListTypes
  <2>3. node[p[1]].next \in Addresses \cup {0} /\ list.tail \in Addresses \cup {0}
    BY <1>3, <1>6 DEF Node, LinkedIInv, ListTypes
  <2>4. list' \in [head : Addresses \cup {0}, tail : Addresses \cup {0}, size : Nat] /\ list'.size = n - 1
    BY <1>4, <1>5, <2>3
  <2> QED
    BY <1>5, <2>1, <2>2, <2>4 DEF ListTypes
<1> DEFINE q == [i \in 1..(n - 1) |-> p[i + 1]]
<1>8. \A i \in 1..(n - 1) : q[i] = p[i + 1] /\ i + 1 \in 1..n /\ i + 1 # 1
  OBVIOUS
<1>9. Linked(q, n - 1)'
  <2>1. \A i \in 1..(n - 1) : q[i] \in DOMAIN node' /\ node'[q[i]] = node[p[i + 1]]
    BY <1>3, <1>4, <1>8
  <2>2. q \in [1..(n - 1) -> DOMAIN node']
    BY <2>1
  <2> HIDE DEF q
  <2>3. \A i, j \in 1..(n - 1) : q[i] = q[j] => i = j
    <3> SUFFICES ASSUME NEW i \in 1..(n - 1), NEW j \in 1..(n - 1), q[i] = q[j]  PROVE i = j
      OBVIOUS
    <3>1. i + 1 = j + 1
      BY <1>3, <1>8
    <3> QED
      BY <3>1
  <2>4. \A b \in DOMAIN node' : \E i \in 1..(n - 1) : q[i] = b
    <3> SUFFICES ASSUME NEW b \in DOMAIN node'  PROVE \E i \in 1..(n - 1) : q[i] = b
      OBVIOUS
    <3>1. b \in DOMAIN node /\ b # p[1]
      BY <1>4
    <3>2. PICK j \in 1..n : p[j] = b
      BY <1>3, <3>1
    <3>3. j - 1 \in 1..(n - 1) /\ (j - 1) + 1 = j
      BY <3>1, <3>2
    <3> QED
      BY <1>8, <3>2, <3>3
  <2>5. ASSUME NEW i \in 1..(n - 1)
        PROVE  /\ node'[q[i]].value = contents'[i]
               /\ node'[q[i]].next = IF i = n - 1 THEN 0 ELSE q[i + 1]
    <3>1. /\ node[p[i + 1]].value = contents[i + 1]
          /\ node[p[i + 1]].next = IF i + 1 = n THEN 0 ELSE p[(i + 1) + 1]
      BY <1>2, <1>8 DEF Linked
    <3>2. i + 1 = n <=> i = n - 1
      OBVIOUS
    <3>3. i # n - 1 => i + 1 \in 1..(n - 1)
      OBVIOUS
    <3> QED
      BY <1>5, <1>8, <2>1, <3>1, <3>2, <3>3
  <2>6. list'.head = IF n - 1 = 0 THEN 0 ELSE q[1]
    <3>1. n # 1 => 1 \in 1..(n - 1) /\ 1 + 1 = 2
      BY <1>1
    <3> QED
      BY <1>1, <1>3, <1>4, <1>8, <3>1
  <2>7. list'.tail = IF n - 1 = 0 THEN 0 ELSE q[n - 1]
    <3>1. n # 1 => n - 1 \in 1..(n - 1) /\ (n - 1) + 1 = n
      BY <1>1
    <3> QED
      BY <1>1, <1>3, <1>4, <1>8, <3>1
  <2> QED
    BY <2>2, <2>3, <2>4, <2>5, <2>6, <2>7 DEF Linked
<1>10. list'.size = n - 1
  BY <1>4
<1> HIDE DEF q
<1> QED
  BY <1>7, <1>9, <1>10 DEF LinkedIInv

LEMMA LinkedKeeps ==
  ASSUME Memory, LinkedIInv, [P!Next]_(P!vars)  PROVE LinkedIInv'
<1>1. CASE UNCHANGED <<list, node, contents>>
  BY <1>1 DEF LinkedIInv, ListTypes, Linked
<1>2. ASSUME NEW t \in P!Threads, P!Produce(t)  PROVE LinkedIInv'
  BY <1>2, OfferLinks DEF P!Produce
<1>3. ASSUME NEW t \in P!Threads, P!Consume(t)  PROVE LinkedIInv'
  BY <1>3, FetchUnlinks DEF P!Consume
<1>4. ASSUME NEW t \in P!Threads,
             P!ProducerWaits(t) \/ P!ConsumerWaits(t) \/ P!SpuriousWakeup(t)
      PROVE  UNCHANGED <<list, node, contents>>
  BY <1>4 DEF P!ProducerWaits, P!ConsumerWaits, P!SpuriousWakeup
<1>5. UNCHANGED P!vars => UNCHANGED <<list, node, contents>>
  BY DEF P!vars
<1> QED
  BY <1>1, <1>2, <1>3, <1>4, <1>5 DEF P!Next, P!Step

\* The walk from the head meets the nodes in their order, and then nothing.
LEMMA WalkMeets ==
  ASSUME Memory, ListTypes, NEW n \in Nat, n = list.size, NEW p, Linked(p, n)
  PROVE  /\ n <= Cardinality(Addresses) /\ Cardinality(Addresses) \in Nat
         /\ \A i \in 0..Cardinality(Addresses) : P!Nth[i] = IF i < n THEN p[i + 1] ELSE 0
<1>1. PICK N \in Nat : N = Cardinality(Addresses)
  BY FS_CardinalityType DEF Memory
<1>2. n <= N
  BY <1>1, FS_Subset DEF Memory, ListTypes
<1> DEFINE Is(u) == u = [i \in 0..N |-> IF i = 0 THEN list.head
                                        ELSE IF u[i - 1] \in DOMAIN node THEN node[u[i - 1]].next
                                        ELSE 0]
           g == [i \in 0..N |-> IF i < n THEN p[i + 1] ELSE 0]
           w == CHOOSE u : Is(u)
<1>3. P!Nth = w
  BY <1>1, ListSets DEF P!Nth, P!NULL
<1>4. \A i \in 0..N : /\ i = 0 => g[i] = list.head
                      /\ i # 0 => /\ i - 1 \in 0..N
                                  /\ g[i] = IF g[i - 1] \in DOMAIN node THEN node[g[i - 1]].next ELSE 0
  <2> SUFFICES ASSUME NEW i \in 0..N
               PROVE  /\ i = 0 => g[i] = list.head
                      /\ i # 0 => /\ i - 1 \in 0..N
                                  /\ g[i] = IF g[i - 1] \in DOMAIN node THEN node[g[i - 1]].next ELSE 0
    OBVIOUS
  <2>1. ASSUME i = 0  PROVE g[i] = list.head
    <3>1. g[i] = IF n = 0 THEN 0 ELSE p[1]
      BY <2>1
    <3> QED
      BY <3>1 DEF Linked
  <2>2. ASSUME i # 0, i - 1 < n  PROVE g[i] = IF g[i - 1] \in DOMAIN node THEN node[g[i - 1]].next ELSE 0
    <3>1. /\ i - 1 \in 0..N /\ (i - 1) + 1 = i /\ i \in 1..n
          /\ i < n <=> i # n
      BY <2>2, <1>2
    <3>2. g[i - 1] = p[i] /\ g[i] = IF i = n THEN 0 ELSE p[i + 1]
      BY <2>2, <3>1
    <3>3. p[i] \in DOMAIN node /\ node[p[i]].next = IF i = n THEN 0 ELSE p[i + 1]
      BY <3>1 DEF Linked
    <3> HIDE DEF g
    <3> QED
      BY <3>2, <3>3
  <2>3. ASSUME i # 0, ~ (i - 1 < n)  PROVE g[i] = IF g[i - 1] \in DOMAIN node THEN node[g[i - 1]].next ELSE 0
    <3>1. i - 1 \in 0..N /\ ~ (i < n)
      BY <2>3
    <3>2. g[i - 1] = 0 /\ g[i] = 0
      BY <2>3, <3>1
    <3>3. 0 \notin DOMAIN node
      BY DEF Memory, ListTypes
    <3> HIDE DEF g
    <3> QED
      BY <3>2, <3>3
  <2>4. i # 0 => i - 1 \in 0..N
    OBVIOUS
  <2> HIDE DEF g
  <2> QED
    BY <2>1, <2>2, <2>3, <2>4
<1>5. Is(g)
  <2> DEFINE h == [i \in 0..N |-> IF i = 0 THEN list.head
                                  ELSE IF g[i - 1] \in DOMAIN node THEN node[g[i - 1]].next ELSE 0]
  <2>1. \A i \in 0..N : h[i] = IF i = 0 THEN list.head
                               ELSE IF g[i - 1] \in DOMAIN node THEN node[g[i - 1]].next ELSE 0
    OBVIOUS
  <2>2. g = [i \in 0..N |-> g[i]] /\ h = [i \in 0..N |-> h[i]]
    OBVIOUS
  <2>3. \A i \in 0..N : g[i] = h[i]
    <3> HIDE DEF g, h
    <3> QED
      BY <1>4, <2>1
  <2>4. g = h
    <3> HIDE DEF g, h
    <3> QED
      BY <2>2, <2>3
  <2> HIDE DEF g
  <2> QED
    BY <2>4
<1>6. Is(w)
  <2> HIDE DEF Is, g
  <2> QED
    BY <1>5
<1>7. \A i \in 0..N : w[i] = IF i = 0 THEN list.head
                             ELSE IF w[i - 1] \in DOMAIN node THEN node[w[i - 1]].next ELSE 0
  <2> HIDE DEF w
  <2> QED
    BY <1>6
<1>8. \A i \in 0..N : w[i] = g[i]
  <2> HIDE DEF w, g, Is
  <2>1. 0 \in 0..N /\ \A i \in 1..N : i \in 0..N /\ i # 0
    OBVIOUS
  <2>2. Alike(w, g, N)
    BY <1>4, <1>7, <2>1 DEF Alike
  <2> QED
    BY <2>2, SameWalk
<1>9. \A i \in 0..N : g[i] = IF i < n THEN p[i + 1] ELSE 0
  OBVIOUS
<1> HIDE DEF w, g
<1> QED
  BY <1>1, <1>2, <1>3, <1>8, <1>9

LEMMA LinkedIsQueue ==
  ASSUME Memory, LinkedIInv  PROVE P!ListIsQueue
<1>1. PICK n \in Nat : n = list.size
  BY DEF LinkedIInv, ListTypes
<1>2. PICK p : Linked(p, n)
  BY <1>1 DEF LinkedIInv
<1>3. PICK N \in Nat : N = Cardinality(Addresses) /\ n <= N
                       /\ \A i \in 0..N : P!Nth[i] = IF i < n THEN p[i + 1] ELSE 0
  BY <1>1, <1>2, WalkMeets DEF LinkedIInv
<1>4. list.size = Len(contents) /\ P!Cardinality(DOMAIN node) = list.size
  BY ListSets DEF LinkedIInv, ListTypes
<1>5. ASSUME NEW i \in 1..n
      PROVE  P!Nth[i - 1] \in DOMAIN node /\ node[P!Nth[i - 1]].value = contents[i]
  <2>1. i - 1 \in 0..N /\ i - 1 < n /\ (i - 1) + 1 = i
    BY <1>3
  <2>2. P!Nth[i - 1] = p[i]
    BY <1>3, <2>1
  <2> QED
    BY <1>2, <2>2 DEF Linked
<1>6. P!Nth[n] = 0
  BY <1>3
<1>7. list.tail = IF n = 0 THEN 0 ELSE P!Nth[n - 1]
  <2>1. CASE n = 0
    BY <1>2, <2>1 DEF Linked
  <2>2. CASE n # 0
    <3>1. n - 1 \in 0..N /\ n - 1 < n /\ (n - 1) + 1 = n
      BY <1>3, <2>2
    <3>2. P!Nth[n - 1] = p[n]
      BY <1>3, <3>1
    <3> QED
      BY <1>2, <2>2, <3>2 DEF Linked
  <2> QED
    BY <2>1, <2>2
<1> QED
  BY <1>1, <1>4, <1>5, <1>6, <1>7 DEF P!ListIsQueue, P!NULL

\* The list is the queue of what was offered and not yet fetched, whatever its
\* length and whichever addresses calloc finds, and whoever waits has a reason to:
\* the links of offer and fetch, the two special cases of the empty list included,
\* lose no node and keep the order (main.c:19-43, 69-75, 89-94).
THEOREM QueueConsistentAlways ==
  ASSUME Producers \cap Consumers = {}, First \in Nat, Memory
  PROVE  OneOfThem => []QueueConsistent
<1> DEFINE Inv == program = "producers" => LinkedIInv /\ ListIInv
<1>1. InitOfOne => Inv
  BY LinkedInit, ListInit DEF InitOfOne
<1>2. Inv /\ [StepOfOne]_programs => Inv'
  <2> SUFFICES ASSUME program' = "producers", Inv, [StepOfOne]_programs
               PROVE  (LinkedIInv /\ ListIInv)'
    OBVIOUS
  <2>1. program = "producers" /\ [P!Next]_(P!vars)
    BY DEF StepOfOne, Produces, Sets, Reads, programs, shared, P!vars
  <2> QED
    BY <2>1, LinkedKeeps, ListKeeps
<1>3. Inv => QueueConsistent
  BY LinkedIsQueue DEF ListIInv, P!QueueConsistent, QueueConsistent
<1> QED
  BY <1>1, <1>2, <1>3, PTL DEF OneOfThem

-----------------------------------------------------------------------------
(* Configuration.                                                          *)

Entry == [key : Keys, val : Texts]
Tables(c) == [0..(c - 1) -> Seq(Entry)]

\* Every entry is in the chain of its hash value, and no two have the same key.
Hashed(t, c, h) ==
  /\ t \in Tables(c)
  /\ \A b \in 0..(c - 1) : \A i \in 1..Len(t[b]) : h[t[b][i].key] % c = b
  /\ \A b \in 0..(c - 1) : \A i, j \in 1..Len(t[b]) : t[b][i].key = t[b][j].key => i = j

Holds(t, c, e) == \E b \in 0..(c - 1) : \E i \in 1..Len(t[b]) : t[b][i] = e

HasKey(t, c, k) == \E e \in Entry : Holds(t, c, e) /\ e.key = k

\* An entry is put before those of its chain.
Prepended(t, c, h, e) == [t EXCEPT ![h[e.key] % c] = <<e>> \o @]

LEMMA Bucket ==
  ASSUME NEW a \in Nat, NEW c \in Nat \ {0}  PROVE a % c \in 0..(c - 1)
  OBVIOUS

LEMMA Prepend ==
  ASSUME NEW S, NEW s \in Seq(S), NEW e \in S
  PROVE  /\ <<e>> \o s \in Seq(S) /\ Len(<<e>> \o s) = Len(s) + 1 /\ (<<e>> \o s)[1] = e
         /\ \A i \in 1..Len(s) : (<<e>> \o s)[i + 1] = s[i]
  OBVIOUS

LEMMA PrependKeeps ==
  ASSUME NEW c \in Nat \ {0}, NEW h \in [Keys -> Nat], NEW t, Hashed(t, c, h), NEW e \in Entry,
         ~ HasKey(t, c, e.key), NEW u, u = Prepended(t, c, h, e)
  PROVE  Hashed(u, c, h) /\ \A x \in Entry : Holds(u, c, x) <=> x = e \/ Holds(t, c, x)
<1>1. PICK a \in 0..(c - 1) : a = h[e.key] % c
  BY Bucket DEF Entry
<1>2. t \in Tables(c) /\ t[a] \in Seq(Entry)
  BY DEF Hashed, Tables
<1>3. PICK n \in Nat : n = Len(t[a])
  BY <1>2
<1>4. /\ u \in Tables(c) /\ \A b \in 0..(c - 1) : b # a => u[b] = t[b]
      /\ u[a] = <<e>> \o t[a]
  <2>1. PICK s \in Seq(Entry) : s = <<e>> \o t[a]
    <3>1. PICK r \in Seq(Entry) : r = t[a]
      BY <1>2
    <3>2. <<e>> \o r \in Seq(Entry)
      BY Prepend
    <3> QED
      BY <3>1, <3>2
  <2>2. u = [t EXCEPT ![a] = s]
    BY <1>1, <2>1 DEF Prepended
  <2> QED
    BY <1>2, <2>1, <2>2 DEF Tables
<1>5. /\ Len(u[a]) = n + 1 /\ u[a][1] = e
      /\ \A i \in 1..n : u[a][i + 1] = t[a][i]
  <2>1. /\ <<e>> \o t[a] \in Seq(Entry) /\ Len(<<e>> \o t[a]) = Len(t[a]) + 1
        /\ (<<e>> \o t[a])[1] = e
        /\ \A i \in 1..Len(t[a]) : (<<e>> \o t[a])[i + 1] = t[a][i]
    BY <1>2, Prepend
  <2> HIDE DEF Entry
  <2> QED
    BY <1>3, <1>4, <2>1, Zenon
<1>6. \A i \in 1..(n + 1) : i # 1 => i - 1 \in 1..n /\ u[a][i] = t[a][i - 1]
  <2> SUFFICES ASSUME NEW i \in 1..(n + 1), i # 1  PROVE i - 1 \in 1..n /\ u[a][i] = t[a][i - 1]
    OBVIOUS
  <2>1. i - 1 \in 1..n /\ (i - 1) + 1 = i
    OBVIOUS
  <2> QED
    BY <1>5, <2>1
<1>7. \A i \in 1..n : t[a][i] \in Entry /\ t[a][i].key # e.key
  <2> SUFFICES ASSUME NEW i \in 1..n  PROVE t[a][i] \in Entry /\ t[a][i].key # e.key
    OBVIOUS
  <2>1. t[a][i] \in Entry
    BY <1>2, <1>3
  <2>2. Holds(t, c, t[a][i])
    BY <1>3 DEF Holds
  <2> QED
    BY <2>1, <2>2 DEF HasKey
<1>8. ASSUME NEW b \in 0..(c - 1), NEW i \in 1..Len(u[b])  PROVE h[u[b][i].key] % c = b
  <2>1. CASE b = a
    <3>1. i \in 1..(n + 1)
      BY <1>5, <2>1
    <3>2. CASE i = 1
      BY <1>1, <1>5, <2>1, <3>2
    <3>3. CASE i # 1
      <4>1. i - 1 \in 1..n /\ u[b][i] = t[a][i - 1]
        BY <1>6, <2>1, <3>1, <3>3
      <4>2. h[t[a][i - 1].key] % c = a
        BY <1>3, <4>1 DEF Hashed
      <4> QED
        BY <2>1, <4>1, <4>2
    <3> QED
      BY <3>2, <3>3
  <2>2. CASE b # a
    BY <1>4, <2>2 DEF Hashed
  <2> QED
    BY <2>1, <2>2
<1>9. ASSUME NEW b \in 0..(c - 1), NEW i \in 1..Len(u[b]), NEW j \in 1..Len(u[b]),
             u[b][i].key = u[b][j].key
      PROVE  i = j
  <2>1. CASE b = a
    <3>1. i \in 1..(n + 1) /\ j \in 1..(n + 1)
      BY <1>5, <2>1
    <3>2. \A l \in 1..(n + 1) : l # 1 => u[a][l].key # e.key
      BY <1>6, <1>7
    <3>4. i = 1 <=> j = 1
      BY <1>5, <1>9, <2>1, <3>1, <3>2
    <3>3. CASE i # 1 /\ j # 1
      <4>1. i - 1 \in 1..n /\ j - 1 \in 1..n /\ t[a][i - 1].key = t[a][j - 1].key
        BY <1>6, <1>9, <2>1, <3>1, <3>3
      <4>2. i - 1 = j - 1
        BY <1>3, <4>1 DEF Hashed
      <4> QED
        BY <4>2
    <3> QED
      BY <3>3, <3>4
  <2>2. CASE b # a
    BY <1>4, <1>9, <2>2 DEF Hashed
  <2> QED
    BY <2>1, <2>2
<1>10. ASSUME NEW x \in Entry  PROVE Holds(u, c, x) <=> x = e \/ Holds(t, c, x)
  <2>1. ASSUME Holds(u, c, x)  PROVE x = e \/ Holds(t, c, x)
    <3>1. PICK b \in 0..(c - 1) : \E i \in 1..Len(u[b]) : u[b][i] = x
      BY <2>1 DEF Holds
    <3>2. CASE b = a
      <4>1. PICK i \in 1..(n + 1) : u[a][i] = x
        BY <1>5, <3>1, <3>2
      <4>2. i # 1 => i - 1 \in 1..Len(t[a]) /\ t[a][i - 1] = x
        BY <1>3, <1>6, <4>1
      <4> QED
        BY <1>5, <4>1, <4>2 DEF Holds
    <3>3. CASE b # a
      BY <1>4, <3>1, <3>3 DEF Holds
    <3> QED
      BY <3>2, <3>3
  <2>2. Holds(u, c, e)
    <3>1. 1 \in 1..Len(u[a])
      BY <1>5
    <3> QED
      BY <1>5, <3>1 DEF Holds
  <2>3. ASSUME Holds(t, c, x)  PROVE Holds(u, c, x)
    <3>1. PICK b \in 0..(c - 1) : \E i \in 1..Len(t[b]) : t[b][i] = x
      BY <2>3 DEF Holds
    <3>2. CASE b = a
      <4>0. PICK i \in 1..n : t[a][i] = x
        BY <1>3, <3>1, <3>2
      <4>1. i \in 1..n /\ i + 1 \in 1..Len(u[a]) /\ u[a][i + 1] = x
        BY <1>5, <4>0
      <4> QED
        BY <4>1 DEF Holds
    <3>3. CASE b # a
      BY <1>4, <3>1, <3>3 DEF Holds
    <3> QED
      BY <3>2, <3>3
  <2> QED
    BY <2>1, <2>2, <2>3
<1> QED
  BY <1>4, <1>8, <1>9, <1>10 DEF Hashed

\* The inner loop of grow_capacity, which moves a chain into a table.
Move(chain, h, c, u) ==
  LET E[e \in 0..Len(chain)] ==
        IF e = 0 THEN u
        ELSE [E[e - 1] EXCEPT ![h[chain[e].key] % c] = <<chain[e]>> \o @]
  IN E[Len(chain)]

Moves(E, chain, h, c, u) ==
  /\ E \in [0..Len(chain) -> Tables(c)] /\ E[0] = u
  /\ \A e \in 1..Len(chain) : E[e] = Prepended(E[e - 1], c, h, chain[e])

LEMMA MoveWalk ==
  ASSUME NEW c \in Nat \ {0}, NEW h \in [Keys -> Nat], NEW chain \in Seq(Entry), NEW u \in Tables(c)
  PROVE  \E E : Moves(E, chain, h, c, u) /\ Move(chain, h, c, u) = E[Len(chain)]
<1>1. PICK L \in Nat : L = Len(chain)
  OBVIOUS
<1> DEFINE Put(t, e) == [t EXCEPT ![h[chain[e].key] % c] = <<chain[e]>> \o @]
           G == [e \in 1..L |-> [t \in Tables(c) |-> Put(t, e)]]
           Is(E) == E = [e \in 0..L |-> IF e = 0 THEN u ELSE Put(E[e - 1], e)]
           w == CHOOSE E : Is(E)
<1>2. \A e \in 1..L : \A t \in Tables(c) : Put(t, e) \in Tables(c)
  <2> SUFFICES ASSUME NEW e \in 1..L, NEW t \in Tables(c)  PROVE Put(t, e) \in Tables(c)
    OBVIOUS
  <2>1. chain[e] \in Entry
    BY <1>1
  <2>2. h[chain[e].key] % c \in 0..(c - 1)
    BY <2>1, Bucket DEF Entry
  <2>3. t[h[chain[e].key] % c] \in Seq(Entry)
    BY <2>2 DEF Tables
  <2>4. <<chain[e]>> \o t[h[chain[e].key] % c] \in Seq(Entry)
    BY <2>1, <2>3, Prepend
  <2> QED
    BY <2>2, <2>4 DEF Tables
<1>3. G \in [1..L -> [Tables(c) -> Tables(c)]] /\ \A e \in 1..L : \A t \in Tables(c) : G[e][t] = Put(t, e)
  <2> HIDE DEF Put
  <2> QED
    BY <1>2
<1>4. PICK f \in [0..L -> Tables(c)] : f[0] = u /\ \A e \in 1..L : f[e] = G[e][f[e - 1]]
  <2> HIDE DEF G
  <2>1. PICK f : Walks(f, L, Tables(c), u, G)
    BY <1>3, WalkExists
  <2> QED
    BY <2>1 DEF Walks
<1> HIDE DEF G, Put
<1>5. \A e \in 1..L : f[e] = Put(f[e - 1], e)
  <2> SUFFICES ASSUME NEW e \in 1..L  PROVE f[e] = Put(f[e - 1], e)
    OBVIOUS
  <2>1. f[e - 1] \in Tables(c)
    OBVIOUS
  <2> QED
    BY <1>3, <1>4, <2>1
<1>6. Is(f)
  <2> DEFINE g == [e \in 0..L |-> IF e = 0 THEN u ELSE Put(f[e - 1], e)]
  <2>1. \A e \in 0..L : g[e] = IF e = 0 THEN u ELSE Put(f[e - 1], e)
    OBVIOUS
  <2>2. DOMAIN g = 0..L /\ g = [e \in 0..L |-> g[e]]
    OBVIOUS
  <2> HIDE DEF g
  <2>3. \A e \in 0..L : f[e] = g[e]
    BY <1>4, <1>5, <2>1
  <2>4. f = g
    BY <2>2, <2>3
  <2> USE DEF g
  <2> QED
    BY <2>4
<1>7. Is(w)
  <2> HIDE DEF Is
  <2> QED
    BY <1>6
<1>8. Move(chain, h, c, u) = w[L]
  BY <1>1, Zenon DEF Move, Put
<1>9. w \in [0..L -> Tables(c)] /\ w[0] = u /\ \A e \in 1..L : w[e] = Put(w[e - 1], e)
  <2>1. w = [e \in 0..L |-> w[e]]
    <3> HIDE DEF w
    <3> QED
      BY <1>7
  <2>5. \A e \in 0..L : w[e] = IF e = 0 THEN u ELSE Put(w[e - 1], e)
    <3> HIDE DEF w
    <3> QED
      BY <1>7
  <2> HIDE DEF w, Is
  <2>2. w[0] = u
    BY <2>5
  <2>3. \A e \in 1..L : w[e] = Put(w[e - 1], e)
    BY <2>5
  <2>4. \A e \in 0..L : w[e] = f[e]
    <3>1. \A e \in 1..L : w[e - 1] = f[e - 1] => w[e] = f[e]
      BY <1>5, <2>3
    <3> QED
      <4>1. w[0] = f[0]
        BY <1>4, <2>2
      <4>2. Alike(w, f, L)
        BY <3>1, <4>1 DEF Alike
      <4> QED
        BY <4>2, SameWalk
  <2> QED
    BY <2>1, <2>2, <2>3, <2>4
<1> HIDE DEF w, Is
<1>10. \A e \in 1..L : Put(w[e - 1], e) = Prepended(w[e - 1], c, h, chain[e])
  BY DEF Put, Prepended
<1>11. Moves(w, chain, h, c, u)
  BY <1>1, <1>9, <1>10 DEF Moves
<1> QED
  BY <1>1, <1>8, <1>11

\* What the loop moves is in the table afterwards, and nothing else is new.
LEMMA MoveMoves ==
  ASSUME NEW c \in Nat \ {0}, NEW h \in [Keys -> Nat], NEW chain \in Seq(Entry), NEW u, Hashed(u, c, h),
         \A i, j \in 1..Len(chain) : chain[i].key = chain[j].key => i = j,
         \A x \in Entry : Holds(u, c, x) => \A i \in 1..Len(chain) : chain[i].key # x.key
  PROVE  /\ Hashed(Move(chain, h, c, u), c, h)
         /\ \A x \in Entry : Holds(Move(chain, h, c, u), c, x) <=>
                               Holds(u, c, x) \/ \E i \in 1..Len(chain) : chain[i] = x
<1>1. PICK L \in Nat : L = Len(chain)
  OBVIOUS
<1>2. PICK E : Moves(E, chain, h, c, u) /\ Move(chain, h, c, u) = E[L]
  <2>1. u \in Tables(c)
    BY DEF Hashed
  <2> QED
    BY <1>1, <2>1, MoveWalk
<1> DEFINE Moved(e) == /\ Hashed(E[e], c, h)
                       /\ \A x \in Entry : Holds(E[e], c, x) <=> Holds(u, c, x) \/ \E i \in 1..e : chain[i] = x
           S == {e \in 0..L : ~ Moved(e)}
<1>3. ASSUME S # {}  PROVE FALSE
  <2>1. S \in SUBSET Nat
    OBVIOUS
  <2>2. PICK m \in S : \A k \in S : m <= k
    <3> HIDE DEF S
    <3> QED
      BY <1>3, <2>1, Least
  <2>3. m \in 0..L /\ ~ Moved(m)
    OBVIOUS
  <2>4. Moved(0)
    BY <1>2 DEF Moves
  <2>5. m # 0
    <3> HIDE DEF Moved
    <3> QED
      BY <2>3, <2>4
  <2>6. m \in 1..L /\ m - 1 \in 0..L /\ ~ (m <= m - 1)
    BY <2>3, <2>5
  <2>7. Moved(m - 1)
    <3> HIDE DEF Moved
    <3> QED
      BY <2>2, <2>6
  <2>8. chain[m] \in Entry
    BY <1>1, <2>6
  <2>9. \A i \in 1..(m - 1) : i \in 1..L /\ i # m
    BY <2>6
  <2>10. ~ HasKey(E[m - 1], c, chain[m].key)
    <3> SUFFICES ASSUME NEW x \in Entry, Holds(E[m - 1], c, x)  PROVE x.key # chain[m].key
      BY DEF HasKey
    <3>1. CASE Holds(u, c, x)
      BY <1>1, <2>6, <3>1
    <3>2. CASE \E i \in 1..(m - 1) : chain[i] = x
      BY <1>1, <2>6, <2>9, <3>2
    <3> QED
      BY <2>7, <3>1, <3>2
  <2>11. E[m] = Prepended(E[m - 1], c, h, chain[m])
    BY <1>1, <1>2, <2>6 DEF Moves
  <2>12. Hashed(E[m - 1], c, h)
    BY <2>7
  <2>13. /\ Hashed(E[m], c, h)
         /\ \A x \in Entry : Holds(E[m], c, x) <=> x = chain[m] \/ Holds(E[m - 1], c, x)
    <3> HIDE DEF Moved, S
    <3> QED
      BY <2>8, <2>10, <2>11, <2>12, PrependKeeps
  <2>14. \A x : (\E i \in 1..m : chain[i] = x) <=> x = chain[m] \/ \E i \in 1..(m - 1) : chain[i] = x
    <3>1. m \in 1..m /\ \A i \in 1..m : i = m \/ i \in 1..(m - 1)
      BY <2>6
    <3>2. \A i \in 1..(m - 1) : i \in 1..m
      BY <2>6
    <3> QED
      BY <3>1, <3>2
  <2>15. Moved(m)
    <3> HIDE DEF S
    <3> QED
      BY <2>7, <2>13, <2>14, Zenon
  <2> HIDE DEF Moved, S
  <2> QED
    BY <2>3, <2>15
<1>4. Moved(L)
  <2> HIDE DEF Moved
  <2> QED
    BY <1>3
<1> QED
  BY <1>1, <1>2, <1>4

\* grow_capacity moves one chain after the other into an empty table.
Grows(M, parts, n, h) ==
  /\ M \in [0..n -> Tables(2 * n)] /\ M[0] = [b \in 0..(2 * n - 1) |-> <<>>]
  /\ \A i \in 1..n : M[i] = Move(parts[i - 1], h, 2 * n, M[i - 1])

Grown(parts, h, n) ==
  LET M[i \in 0..n] == IF i = 0 THEN [b \in 0..(2 * n - 1) |-> <<>>]
                       ELSE Move(parts[i - 1], h, 2 * n, M[i - 1])
  IN M[n]

LEMMA TableSets ==
  ASSUME NEW S  PROVE K!Cardinality(S) = Cardinality(S)
  BY DEF K!Cardinality, Cardinality

LEMMA CapacityIs ==
  ASSUME NEW c \in Nat, NEW t \in Tables(c)  PROVE K!Cardinality(DOMAIN t) = c
<1>1. DOMAIN t = 0..(c - 1)
  BY DEF Tables
<1>2. Cardinality(0..(c - 1)) = c
  BY FS_Interval
<1> QED
  BY <1>1, <1>2, TableSets

LEMMA RehashedIs ==
  ASSUME NEW t, NEW h  PROVE K!Rehashed(t, h) = Grown(t, h, K!Cardinality(DOMAIN t))
  BY Zenon DEF K!Rehashed, Grown, Move

LEMMA GrowWalk ==
  ASSUME NEW n \in Nat \ {0}, NEW h \in [Keys -> Nat], NEW t \in Tables(n)
  PROVE  \E M : Grows(M, t, n, h) /\ K!Rehashed(t, h) = M[n]
<1> DEFINE c == 2 * n
           base == [b \in 0..(2 * n - 1) |-> <<>>]
           X == Tables(c)
           Then(u, i) == Move(t[i - 1], h, 2 * n, u)
           G == [i \in 1..n |-> [u \in X |-> Then(u, i)]]
           Is(M) == M = [i \in 0..n |-> IF i = 0 THEN base ELSE Then(M[i - 1], i)]
           w == CHOOSE M : Is(M)
<1>1. c \in Nat \ {0}
  OBVIOUS
<1>2. base \in X
  <2>1. <<>> \in Seq(Entry)
    OBVIOUS
  <2> QED
    BY <2>1 DEF Tables
<1>3. \A i \in 1..n : \A u \in X : Then(u, i) \in X
  <2> SUFFICES ASSUME NEW i \in 1..n, NEW u \in X  PROVE Then(u, i) \in X
    OBVIOUS
  <2>1. i - 1 \in 0..(n - 1)
    OBVIOUS
  <2>2. PICK chain \in Seq(Entry) : chain = t[i - 1]
    BY <2>1 DEF Tables
  <2> HIDE DEF c
  <2>3. PICK E : Moves(E, chain, h, c, u) /\ Move(chain, h, c, u) = E[Len(chain)]
    BY <1>1, MoveWalk
  <2>4. E[Len(chain)] \in X
    <3>1. Len(chain) \in 0..Len(chain)
      OBVIOUS
    <3> QED
      BY <2>3, <3>1 DEF Moves
  <2>5. Move(chain, h, c, u) \in X
    BY <2>3, <2>4
  <2> USE DEF c
  <2> QED
    BY <2>2, <2>5
<1> HIDE DEF Then, X, base, c
<1>4. G \in [1..n -> [X -> X]] /\ \A i \in 1..n : \A u \in X : G[i][u] = Then(u, i)
  BY <1>3
<1>5. PICK f : Walks(f, n, X, base, G)
  <2> HIDE DEF G
  <2> QED
    BY <1>2, <1>4, WalkExists
<1> HIDE DEF G
<1>6. f \in [0..n -> X] /\ f[0] = base /\ \A i \in 1..n : f[i] = Then(f[i - 1], i)
  <2>1. f \in [0..n -> X] /\ f[0] = base /\ \A i \in 1..n : f[i] = G[i][f[i - 1]]
    BY <1>5 DEF Walks
  <2>2. \A i \in 1..n : f[i - 1] \in X
    BY <2>1
  <2> QED
    BY <1>4, <2>1, <2>2
<1>7. Is(f)
  <2> DEFINE g == [i \in 0..n |-> IF i = 0 THEN base ELSE Then(f[i - 1], i)]
  <2>1. \A i \in 0..n : g[i] = IF i = 0 THEN base ELSE Then(f[i - 1], i)
    OBVIOUS
  <2>2. DOMAIN g = 0..n /\ g = [i \in 0..n |-> g[i]]
    OBVIOUS
  <2> HIDE DEF g
  <2>3. \A i \in 0..n : f[i] = g[i]
    BY <1>6, <2>1
  <2>4. f = g
    BY <1>6, <2>2, <2>3
  <2> USE DEF g
  <2> QED
    BY <2>4
<1>8. Is(w)
  <2> HIDE DEF Is
  <2> QED
    BY <1>7
<1>9. K!Rehashed(t, h) = w[n]
  <2>1. K!Cardinality(DOMAIN t) = n
    BY CapacityIs
  <2> QED
    <3>1. Grown(t, h, n) = w[n]
      BY Zenon DEF Grown, Then, base
    <3> QED
      BY <2>1, <3>1, RehashedIs
<1>10. w = [i \in 0..n |-> w[i]]
  <2> HIDE DEF w
  <2> QED
    BY <1>8
<1>11. \A i \in 0..n : w[i] = IF i = 0 THEN base ELSE Then(w[i - 1], i)
  <2> HIDE DEF w
  <2> QED
    BY <1>8
<1> HIDE DEF w, Is
<1>12. w[0] = base /\ \A i \in 1..n : w[i] = Then(w[i - 1], i)
  BY <1>11
<1>13. Alike(w, f, n)
  BY <1>6, <1>12 DEF Alike
<1>14. \A i \in 0..n : w[i] = f[i]
  BY <1>13, SameWalk
<1>15. w \in [0..n -> X]
  BY <1>6, <1>10, <1>14
<1>16. Grows(w, t, n, h)
  BY <1>12, <1>15 DEF Grows, Then, X, base, c
<1> QED
  BY <1>9, <1>16

\* The table holds the same entries after it has grown, in the chains of the new seed.
LEMMA GrownHolds ==
  ASSUME NEW n \in Nat \ {0}, NEW g, NEW h \in [Keys -> Nat], NEW t, Hashed(t, n, g)
  PROVE  /\ Hashed(K!Rehashed(t, h), 2 * n, h)
         /\ \A x \in Entry : Holds(K!Rehashed(t, h), 2 * n, x) <=> Holds(t, n, x)
<1>1. t \in Tables(n) /\ \A b \in 0..(n - 1) : t[b] \in Seq(Entry)
  BY DEF Hashed, Tables
<1>2. PICK M : Grows(M, t, n, h) /\ K!Rehashed(t, h) = M[n]
  BY <1>1, GrowWalk
<1>3. PICK c \in Nat \ {0} : c = 2 * n
  OBVIOUS
<1> DEFINE Into(x, m) == \E b \in 0..(n - 1) : b < m /\ \E i \in 1..Len(t[b]) : t[b][i] = x
           Filled(m) == Hashed(M[m], c, h) /\ \A x \in Entry : Holds(M[m], c, x) <=> Into(x, m)
           S == {m \in 0..n : ~ Filled(m)}
<1>4. ASSUME S # {}  PROVE FALSE
  <2>1. S \in SUBSET Nat
    OBVIOUS
  <2>2. PICK m \in S : \A k \in S : m <= k
    <3> HIDE DEF S
    <3> QED
      BY <1>4, <2>1, Least
  <2>3. m \in 0..n /\ ~ Filled(m)
    OBVIOUS
  <2>4. Filled(0)
    <3>1. M[0] = [b \in 0..(c - 1) |-> <<>>] /\ M[0] \in Tables(c)
      <4>1. M \in [0..n -> Tables(c)] /\ 0 \in 0..n
        BY <1>2, <1>3 DEF Grows
      <4>2. M[0] = [b \in 0..(c - 1) |-> <<>>]
        BY <1>2, <1>3 DEF Grows
      <4> QED
        BY <4>1, <4>2
    <3>2. \A b \in 0..(c - 1) : M[0][b] = <<>> /\ Len(M[0][b]) = 0
      BY <3>1
    <3>3. Hashed(M[0], c, h)
      BY <3>1, <3>2 DEF Hashed
    <3>4. ASSUME NEW x \in Entry  PROVE ~ Holds(M[0], c, x) /\ ~ Into(x, 0)
      BY <3>2 DEF Holds
    <3> HIDE DEF Into
    <3> QED
      BY <3>3, <3>4
  <2>5. m # 0
    <3> HIDE DEF Filled
    <3> QED
      BY <2>3, <2>4
  <2>6. m \in 1..n /\ m - 1 \in 0..n /\ ~ (m <= m - 1) /\ m - 1 \in 0..(n - 1)
    BY <2>3, <2>5
  <2>7. Filled(m - 1)
    <3> HIDE DEF Filled
    <3> QED
      BY <2>2, <2>6
  <2>8. PICK a \in 0..(n - 1) : a = m - 1
    BY <2>6
  <2>9. PICK chain \in Seq(Entry) : chain = t[a]
    BY <1>1
  <2>10. M[m] = Move(chain, h, c, M[a]) /\ Hashed(M[a], c, h)
    BY <1>2, <1>3, <2>6, <2>7, <2>8, <2>9 DEF Grows
  <2>11. \A i, j \in 1..Len(chain) : chain[i].key = chain[j].key => i = j
    BY <2>9 DEF Hashed
  <2>12. ASSUME NEW x \in Entry, Holds(M[a], c, x), NEW i \in 1..Len(chain)  PROVE chain[i].key # x.key
    <3>1. PICK b \in 0..(n - 1) : b < a /\ \E j \in 1..Len(t[b]) : t[b][j] = x
      BY <2>7, <2>8, <2>12
    <3>2. b # a
      BY <3>1
    <3>4. g[x.key] % n = b
      <4>1. PICK j \in 1..Len(t[b]) : t[b][j] = x
        BY <3>1
      <4> QED
        BY <4>1 DEF Hashed
    <3>3. g[chain[i].key] % n = a
      BY <2>9 DEF Hashed
    <3> QED
      BY <3>2, <3>3, <3>4
  <2>13. /\ Hashed(M[m], c, h)
         /\ \A x \in Entry : Holds(M[m], c, x) <=> Holds(M[a], c, x) \/ \E i \in 1..Len(chain) : chain[i] = x
    <3> HIDE DEF S, Filled
    <3> QED
      BY <2>10, <2>11, <2>12, MoveMoves
  <2>14. ASSUME NEW x \in Entry
         PROVE  Into(x, m) <=> Into(x, a) \/ \E i \in 1..Len(chain) : chain[i] = x
    <3>1. \A b \in 0..(n - 1) : b < m <=> b < a \/ b = a
      BY <2>8
    <3>2. a < m
      BY <2>8
    <3> QED
      BY <2>9, <3>1, <3>2
  <2>15. Filled(m)
    <3> HIDE DEF S, Into
    <3> QED
      BY <2>7, <2>8, <2>13, <2>14
  <2> HIDE DEF Filled, S
  <2> QED
    BY <2>3, <2>15
<1>5. Filled(n)
  <2> HIDE DEF Filled
  <2> QED
    BY <1>4
<1>6. \A x \in Entry : Into(x, n) <=> Holds(t, n, x)
  BY DEF Holds
<1> HIDE DEF Into
<1> QED
  BY <1>2, <1>3, <1>5, <1>6

\* The entries are what was put last and not deleted.
TableIs(c) ==
  /\ Hashed(chains, c, hash) /\ hash \in [Keys -> Nat] /\ map \in [Keys -> Texts \cup {None}]
  /\ \A e \in Entry : Holds(chains, c, e) <=> map[e.key] = e.val

TableIInv == \E c \in Nat \ {0} : TableIs(c)

\* NULL is no text, and the first table has a chain.
Settings == None \notin Texts /\ Default \in Nat \ {0} /\ MaxCapacity \in Nat

LEMMA TableInit == ASSUME Settings, K!Init  PROVE TableIInv
<1>1. PICK c \in Nat \ {0} : c = Default
  BY DEF Settings
<1>2. /\ chains = [i \in 0..(c - 1) |-> <<>>] /\ hash \in [Keys -> 0..(MaxCapacity - 1)]
      /\ map = [k \in Keys |-> None]
  BY <1>1 DEF K!Init, K!Hashes
<1>3. hash \in [Keys -> Nat]
  <2>1. \A a \in 0..(MaxCapacity - 1) : a \in Nat
    BY DEF Settings
  <2> QED
    BY <1>2, <2>1
<1>4. chains \in Tables(c) /\ \A b \in 0..(c - 1) : chains[b] = <<>> /\ Len(chains[b]) = 0
  <2>1. <<>> \in Seq(Entry) /\ Len(<<>>) = 0
    OBVIOUS
  <2> QED
    BY <1>2, <2>1 DEF Tables
<1>5. Hashed(chains, c, hash)
  BY <1>4 DEF Hashed
<1>6. ASSUME NEW e \in Entry  PROVE Holds(chains, c, e) <=> map[e.key] = e.val
  <2>1. ~ Holds(chains, c, e)
    BY <1>4 DEF Holds
  <2>2. map[e.key] = None /\ e.val # None
    BY <1>2 DEF Entry, Settings
  <2> QED
    BY <2>1, <2>2
<1> QED
  BY <1>1, <1>2, <1>3, <1>5, <1>6 DEF TableIInv, TableIs

\* Where an operation on a key looks: in the one chain that can hold it, at the
\* one entry that can be there.
LEMMA Looks ==
  ASSUME NEW c \in Nat \ {0}, TableIs(c), NEW k \in Keys
  PROVE  /\ K!Capacity = c /\ hash[k] % c \in 0..(c - 1) /\ K!Chain(k) = chains[hash[k] % c]
         /\ chains[hash[k] % c] \in Seq(Entry)
         /\ K!At(K!Chain(k), k) = {i \in 1..Len(chains[hash[k] % c]) : chains[hash[k] % c][i].key = k}
         /\ K!At(K!Chain(k), k) = {} <=> ~ HasKey(chains, c, k)
         /\ K!At(K!Chain(k), k) # {} =>
              /\ K!Found(k) \in 1..Len(chains[hash[k] % c])
              /\ chains[hash[k] % c][K!Found(k)].key = k
<1>1. PICK b \in 0..(c - 1) : b = hash[k] % c
  BY Bucket DEF TableIs
<1>2. K!Capacity = c
  BY CapacityIs DEF K!Capacity, TableIs, Hashed
<1>3. PICK s \in Seq(Entry) : s = chains[b]
  BY DEF TableIs, Hashed, Tables
<1>4. K!Chain(k) = s
  BY <1>1, <1>2, <1>3 DEF K!Chain
<1>5. PICK A : A = K!At(K!Chain(k), k)
  OBVIOUS
<1>6. A = {i \in 1..Len(s) : s[i].key = k}
  BY <1>4, <1>5 DEF K!At
<1>7. \A i, j \in A : i = j
  BY <1>3, <1>6 DEF TableIs, Hashed
<1>8. A = {} <=> ~ HasKey(chains, c, k)
  <2>1. ASSUME NEW i \in A  PROVE HasKey(chains, c, k)
    <3>1. s[i] \in Entry /\ s[i].key = k /\ Holds(chains, c, s[i])
      BY <1>3, <1>6 DEF Holds
    <3> QED
      BY <3>1 DEF HasKey
  <2>2. ASSUME HasKey(chains, c, k)  PROVE A # {}
    <3>1. PICK e \in Entry : Holds(chains, c, e) /\ e.key = k
      BY <2>2 DEF HasKey
    <3>2. PICK d \in 0..(c - 1) : \E i \in 1..Len(chains[d]) : chains[d][i] = e
      BY <3>1 DEF Holds
    <3>3. d = b
      BY <1>1, <3>1, <3>2 DEF TableIs, Hashed
    <3> QED
      BY <1>3, <1>6, <3>1, <3>2, <3>3
  <2> QED
    BY <2>1, <2>2
<1>9. ASSUME A # {}  PROVE K!Found(k) \in A
  <2>1. PICK n \in A : TRUE
    BY <1>9
  <2>3. n \in Nat /\ \A j \in A : n = j
    BY <1>6, <1>7
  <2>4. \A j \in A : n <= j
    BY <2>3
  <2>2. K!Found(k) = CHOOSE i \in A : \A j \in A : i <= j
    BY <1>5 DEF K!Found
  <2> QED
    BY <2>2, <2>4
<1> QED
  BY <1>1, <1>2, <1>3, <1>4, <1>5, <1>6, <1>8, <1>9

LEMMA PutKeeps ==
  ASSUME Settings, TableIInv, NEW k \in Keys, NEW v \in Texts, K!Put(k, v)  PROVE TableIInv'
<1>1. PICK c \in Nat \ {0} : TableIs(c)
  BY DEF TableIInv
<1>2. PICK e \in Entry : e = [key |-> k, val |-> v]
  BY DEF Entry
<1>3. ~ HasKey(chains, c, e.key) /\ K!Capacity = c
  BY <1>1, <1>2, Looks DEF K!Put
<1>4. PICK h : /\ h \in (IF K!Full THEN K!Hashes ELSE {hash}) /\ hash' = h
               /\ LET grown == IF K!Full THEN K!Rehashed(chains, h) ELSE chains
                      idx == h[k] % K!Cardinality(DOMAIN grown)
                  IN chains' = [grown EXCEPT ![idx] = <<[key |-> k, val |-> v]>> \o @]
  BY DEF K!Put
<1>5. h \in [Keys -> Nat]
  <2>1. \A a \in 0..(MaxCapacity - 1) : a \in Nat
    BY DEF Settings
  <2>2. CASE K!Full
    BY <1>4, <2>1, <2>2 DEF K!Hashes
  <2>3. CASE ~ K!Full
    BY <1>1, <1>4, <2>3 DEF TableIs
  <2> QED
    BY <2>2, <2>3
<1>12. PICK t : t = IF K!Full THEN K!Rehashed(chains, h) ELSE chains
  OBVIOUS
<1>6. PICK d \in Nat \ {0} :
        /\ Hashed(t, d, h) /\ \A x \in Entry : Holds(t, d, x) <=> Holds(chains, c, x)
  <2>1. CASE K!Full
    <3>1. 2 * c \in Nat \ {0} /\ Hashed(chains, c, hash)
      BY <1>1 DEF TableIs
    <3>2. /\ Hashed(K!Rehashed(chains, h), 2 * c, h)
          /\ \A x \in Entry : Holds(K!Rehashed(chains, h), 2 * c, x) <=> Holds(chains, c, x)
      BY <1>5, <3>1, GrownHolds
    <3> QED
      BY <1>12, <2>1, <3>1, <3>2
  <2>2. CASE ~ K!Full
    BY <1>1, <1>4, <1>12, <2>2 DEF TableIs
  <2> QED
    BY <2>1, <2>2
<1>7. chains' = Prepended(t, d, h, e)
  <2>1. K!Cardinality(DOMAIN t) = d
    BY <1>6, CapacityIs DEF Hashed
  <2>2. chains' = [t EXCEPT ![h[k] % K!Cardinality(DOMAIN t)] = <<[key |-> k, val |-> v]>> \o @]
    BY <1>4, <1>12
  <2>3. e.key = k
    BY <1>2
  <2> QED
    BY <1>2, <2>1, <2>2, <2>3 DEF Prepended
<1>8. ~ HasKey(t, d, e.key)
  BY <1>3, <1>6 DEF HasKey
<1>9. Hashed(chains', d, h) /\ \A x \in Entry : Holds(chains', d, x) <=> x = e \/ Holds(t, d, x)
  BY <1>5, <1>6, <1>7, <1>8, PrependKeeps
<1>10. map' = [map EXCEPT ![k] = v] /\ map' \in [Keys -> Texts \cup {None}]
  BY <1>1 DEF K!Put, TableIs
<1>11. ASSUME NEW x \in Entry  PROVE Holds(chains', d, x) <=> map'[x.key] = x.val
  <2>1. CASE x.key = k
    <3>1. ~ Holds(t, d, x)
      BY <1>2, <1>8, <2>1 DEF HasKey
    <3>2. map'[x.key] = v
      BY <1>1, <1>10, <2>1 DEF TableIs
    <3>3. x = e <=> x.val = v
      BY <1>2, <2>1 DEF Entry
    <3> QED
      BY <1>9, <3>1, <3>2, <3>3
  <2>2. CASE x.key # k
    <3>1. x # e /\ map'[x.key] = map[x.key]
      BY <1>1, <1>2, <1>10, <2>2 DEF TableIs, Entry
    <3> QED
      BY <1>1, <1>6, <1>9, <3>1 DEF TableIs
  <2> QED
    BY <2>1, <2>2
<1> QED
  BY <1>4, <1>5, <1>9, <1>10, <1>11 DEF TableIInv, TableIs

\* What a change of the entry at i in chain b does to a table.
LEMMA ReplaceKeeps ==
  ASSUME Settings, TableIInv, NEW k \in Keys, NEW v \in Texts, K!Replace(k, v)  PROVE TableIInv'
<1>1. PICK c \in Nat \ {0} : TableIs(c)
  BY DEF TableIInv
<1>2. PICK b \in 0..(c - 1) : b = hash[k] % c
  BY <1>1, Looks
<1>3. PICK s \in Seq(Entry) : s = chains[b]
  BY <1>1, <1>2, Looks
<1>4. PICK n \in 1..Len(s) : n = K!Found(k) /\ s[n].key = k
  BY <1>1, <1>2, <1>3, Looks DEF K!Replace
<1>5. PICK e \in Entry : e = [key |-> k, val |-> v]
  BY DEF Entry
<1>6. PICK r : r = [s EXCEPT ![n] = e]
  OBVIOUS
<1>7. /\ r \in Seq(Entry) /\ Len(r) = Len(s) /\ r[n] = e
      /\ \A i \in 1..Len(s) : i # n => r[i] = s[i]
  BY <1>6, ExceptSeq
<1>8. chains' = [chains EXCEPT ![b] = r]
  <2>1. chains' = [chains EXCEPT ![b][n].val = v]
    BY <1>1, <1>2, <1>4, Looks DEF K!Replace
  <2>2. s[n] \in Entry
    OBVIOUS
  <2>3. [s[n] EXCEPT !.val = v] = e
    BY <1>4, <1>5, <2>2 DEF Entry
  <2> QED
    BY <1>3, <1>6, <2>1, <2>3
<1>9. chains \in Tables(c) /\ \A d \in 0..(c - 1) : chains[d] \in Seq(Entry)
  BY <1>1 DEF TableIs, Hashed, Tables
<1>10. /\ chains' \in Tables(c) /\ chains'[b] = r
       /\ \A d \in 0..(c - 1) : d # b => chains'[d] = chains[d]
  BY <1>7, <1>8, <1>9 DEF Tables
<1>11. /\ hash' = hash /\ map' = [map EXCEPT ![k] = v] /\ map' \in [Keys -> Texts \cup {None}]
       /\ map'[k] = v /\ \A l \in Keys : l # k => map'[l] = map[l]
  BY <1>1 DEF K!Replace, TableIs
<1>12. \A i \in 1..Len(s) : r[i].key = s[i].key /\ s[i] \in Entry
  BY <1>4, <1>5, <1>7
<1>13. Hashed(chains', c, hash)
  <2>1. ASSUME NEW d \in 0..(c - 1), NEW i \in 1..Len(chains'[d])
        PROVE  hash[chains'[d][i].key] % c = d
    <3>1. CASE d = b
      BY <1>1, <1>3, <1>7, <1>10, <1>12, <3>1 DEF TableIs, Hashed
    <3>2. CASE d # b
      BY <1>1, <1>10, <3>2 DEF TableIs, Hashed
    <3> QED
      BY <3>1, <3>2
  <2>2. ASSUME NEW d \in 0..(c - 1), NEW i \in 1..Len(chains'[d]), NEW j \in 1..Len(chains'[d]),
               chains'[d][i].key = chains'[d][j].key
        PROVE  i = j
    <3>1. CASE d = b
      <4>1. i \in 1..Len(s) /\ j \in 1..Len(s) /\ s[i].key = s[j].key
        BY <1>7, <1>10, <1>12, <2>2, <3>1
      <4> QED
        BY <1>1, <1>3, <4>1 DEF TableIs, Hashed
    <3>2. CASE d # b
      BY <1>1, <1>10, <2>2, <3>2 DEF TableIs, Hashed
    <3> QED
      BY <3>1, <3>2
  <2> QED
    BY <1>10, <2>1, <2>2 DEF Hashed
<1>14. \A i \in 1..Len(s) : s[i].key = k => i = n
  BY <1>1, <1>3, <1>4 DEF TableIs, Hashed
<1>15. ASSUME NEW x \in Entry  PROVE Holds(chains', c, x) <=> map'[x.key] = x.val
  <2>1. CASE x.key = k
    <3>1. Holds(chains', c, e)
      BY <1>7, <1>10 DEF Holds
    <3>2. ASSUME Holds(chains', c, x)  PROVE x = e
      <4>1. PICK d \in 0..(c - 1) : \E i \in 1..Len(chains'[d]) : chains'[d][i] = x
        BY <3>2 DEF Holds
      <4>2. PICK i \in 1..Len(chains'[d]) : chains'[d][i] = x
        BY <4>1
      <4>3. d = b
        BY <1>2, <1>13, <2>1, <4>2 DEF Hashed
      <4>4. i \in 1..Len(s) /\ r[i] = x
        BY <1>7, <1>10, <4>2, <4>3
      <4> QED
        BY <1>7, <1>12, <1>14, <2>1, <4>4
    <3>3. x = e <=> x.val = v
      BY <1>5, <2>1 DEF Entry
    <3> QED
      BY <1>11, <2>1, <3>1, <3>2, <3>3
  <2>2. CASE x.key # k
    <3>1. ASSUME Holds(chains', c, x)  PROVE Holds(chains, c, x)
      <4>1. PICK d \in 0..(c - 1) : \E i \in 1..Len(chains'[d]) : chains'[d][i] = x
        BY <3>1 DEF Holds
      <4>2. CASE d = b
        <5>1. PICK i \in 1..Len(s) : r[i] = x
          BY <1>7, <1>10, <4>1, <4>2
        <5>2. i # n
          BY <1>5, <1>7, <2>2, <5>1
        <5>3. s[i] = x
          BY <1>7, <5>1, <5>2
        <5> QED
          BY <1>3, <5>3 DEF Holds
      <4>3. CASE d # b
        BY <1>10, <4>1, <4>3 DEF Holds
      <4> QED
        BY <4>2, <4>3
    <3>2. ASSUME Holds(chains, c, x)  PROVE Holds(chains', c, x)
      <4>1. PICK d \in 0..(c - 1) : \E i \in 1..Len(chains[d]) : chains[d][i] = x
        BY <3>2 DEF Holds
      <4>2. CASE d = b
        <5>1. PICK i \in 1..Len(s) : s[i] = x
          BY <1>3, <4>1, <4>2
        <5>2. r[i] = x
          BY <1>4, <1>7, <2>2, <5>1
        <5> QED
          BY <1>7, <1>10, <5>2 DEF Holds
      <4>3. CASE d # b
        BY <1>10, <4>1, <4>3 DEF Holds
      <4> QED
        BY <4>2, <4>3
    <3>3. x.key \in Keys
      BY DEF Entry
    <3> QED
      BY <1>1, <1>11, <2>2, <3>1, <3>2, <3>3 DEF TableIs
  <2> QED
    BY <2>1, <2>2
<1> QED
  BY <1>1, <1>11, <1>13, <1>15 DEF TableIInv, TableIs

Without(s, n) == SubSeq(s, 1, n - 1) \o SubSeq(s, n + 1, Len(s))

LEMMA WithoutIs ==
  ASSUME NEW S, NEW s \in Seq(S), NEW n \in 1..Len(s)
  PROVE  /\ Without(s, n) \in Seq(S) /\ Len(Without(s, n)) = Len(s) - 1
         /\ \A i \in 1..(Len(s) - 1) : Without(s, n)[i] = IF i < n THEN s[i] ELSE s[i + 1]
<1> DEFINE r == Without(s, n)
<1> HIDE DEF r
<1>1. PICK m \in Nat : m = Len(s)
  OBVIOUS
<1>2. PICK a \in Seq(S) : /\ a = SubSeq(s, 1, n - 1) /\ Len(a) = n - 1
                          /\ \A i \in 1..(n - 1) : a[i] = s[i]
  <2>1. 1 \in Int /\ n - 1 \in Int /\ \A i \in 1..(n - 1) : s[i] \in S
    BY <1>1
  <2>2. /\ SubSeq(s, 1, n - 1) \in Seq(S)
        /\ Len(SubSeq(s, 1, n - 1)) = IF 1 <= n - 1 THEN (n - 1) - 1 + 1 ELSE 0
        /\ \A i \in 1..((n - 1) - 1 + 1) : SubSeq(s, 1, n - 1)[i] = s[1 + i - 1]
    BY <2>1, SubSeqProperties
  <2>3. (IF 1 <= n - 1 THEN (n - 1) - 1 + 1 ELSE 0) = n - 1
    OBVIOUS
  <2>4. \A i \in 1..(n - 1) : i \in 1..((n - 1) - 1 + 1) /\ 1 + i - 1 = i
    OBVIOUS
  <2> QED
    BY <2>2, <2>3, <2>4
<1>3. PICK b \in Seq(S) : /\ b = SubSeq(s, n + 1, m) /\ Len(b) = m - n
                          /\ \A i \in 1..(m - n) : b[i] = s[n + i]
  <2>1. n + 1 \in Int /\ m \in Int /\ \A i \in (n + 1)..m : s[i] \in S
    BY <1>1
  <2>2. /\ SubSeq(s, n + 1, m) \in Seq(S)
        /\ Len(SubSeq(s, n + 1, m)) = IF n + 1 <= m THEN m - (n + 1) + 1 ELSE 0
        /\ \A i \in 1..(m - (n + 1) + 1) : SubSeq(s, n + 1, m)[i] = s[n + 1 + i - 1]
    BY <2>1, SubSeqProperties
  <2>3. (IF n + 1 <= m THEN m - (n + 1) + 1 ELSE 0) = m - n
    BY <1>1
  <2>4. \A i \in 1..(m - n) : i \in 1..(m - (n + 1) + 1) /\ n + 1 + i - 1 = n + i
    OBVIOUS
  <2> QED
    BY <2>2, <2>3, <2>4
<1>4. /\ r = a \o b /\ r \in Seq(S) /\ Len(r) = m - 1
      /\ \A i \in 1..(m - 1) : r[i] = IF i <= n - 1 THEN a[i] ELSE b[i - (n - 1)]
  <2>1. /\ a \o b \in Seq(S) /\ Len(a \o b) = Len(a) + Len(b)
        /\ \A i \in 1..(Len(a) + Len(b)) : (a \o b)[i] = IF i <= Len(a) THEN a[i] ELSE b[i - Len(a)]
    BY ConcatProperties
  <2>2. r = a \o b /\ Len(a) + Len(b) = m - 1 /\ Len(a) = n - 1
    <3>1. Len(a) = n - 1 /\ Len(b) = m - n /\ (n - 1) + (m - n) = m - 1
      BY <1>1, <1>2, <1>3
    <3>2. r = a \o b
      BY <1>1, <1>2, <1>3 DEF Without, r
    <3> QED
      BY <3>1, <3>2
  <2> QED
    BY <2>1, <2>2
<1>5. ASSUME NEW i \in 1..(m - 1)  PROVE r[i] = IF i < n THEN s[i] ELSE s[i + 1]
  <2>1. CASE i < n
    <3>1. i \in 1..(n - 1) /\ i <= n - 1
      BY <2>1
    <3> QED
      BY <1>2, <1>4, <2>1, <3>1
  <2>2. CASE ~ (i < n)
    <3>1. i - (n - 1) \in 1..(m - n) /\ ~ (i <= n - 1) /\ n + (i - (n - 1)) = i + 1
      BY <1>1, <2>2
    <3>2. r[i] = b[i - (n - 1)]
      BY <1>4, <3>1
    <3>3. b[i - (n - 1)] = s[n + (i - (n - 1))]
      BY <1>3, <3>1
    <3> QED
      BY <2>2, <3>1, <3>2, <3>3
  <2> QED
    BY <2>1, <2>2
<1> USE DEF r
<1> QED
  BY <1>1, <1>4, <1>5

LEMMA DeleteKeeps ==
  ASSUME Settings, TableIInv, NEW k \in Keys, K!Delete(k)  PROVE TableIInv'
<1>1. PICK c \in Nat \ {0} : TableIs(c)
  BY DEF TableIInv
<1>2. PICK b \in 0..(c - 1) : b = hash[k] % c
  BY <1>1, Looks
<1>3. PICK s \in Seq(Entry) : s = chains[b]
  BY <1>1, <1>2, Looks
<1>4. PICK n \in 1..Len(s) : n = K!Found(k) /\ s[n].key = k
  BY <1>1, <1>2, <1>3, Looks DEF K!Delete
<1>5. PICK r : r = Without(s, n)
  OBVIOUS
<1>6. PICK m \in Nat : m = Len(s)
  OBVIOUS
<1>7. /\ r \in Seq(Entry) /\ Len(r) = m - 1
      /\ \A i \in 1..(m - 1) : r[i] = IF i < n THEN s[i] ELSE s[i + 1]
  <2>1. /\ r \in Seq(Entry) /\ Len(r) = Len(s) - 1
        /\ \A i \in 1..(Len(s) - 1) : r[i] = IF i < n THEN s[i] ELSE s[i + 1]
    BY <1>5, WithoutIs
  <2> QED
    BY <1>6, <2>1
<1>8. chains' = [chains EXCEPT ![b] = r]
  BY <1>1, <1>2, <1>3, <1>4, <1>5, Looks DEF K!Delete, Without
<1>9. chains \in Tables(c) /\ \A d \in 0..(c - 1) : chains[d] \in Seq(Entry)
  BY <1>1 DEF TableIs, Hashed, Tables
<1>10. /\ chains' \in Tables(c) /\ chains'[b] = r
       /\ \A d \in 0..(c - 1) : d # b => chains'[d] = chains[d]
  BY <1>7, <1>8, <1>9 DEF Tables
<1>11. /\ hash' = hash /\ map' = [map EXCEPT ![k] = None] /\ map' \in [Keys -> Texts \cup {None}]
       /\ map'[k] = None /\ \A l \in Keys : l # k => map'[l] = map[l]
  BY <1>1 DEF K!Delete, TableIs
\* Where the entry at i of the shorter chain was.
<1> DEFINE old(i) == IF i < n THEN i ELSE i + 1
<1>12. \A i \in 1..(m - 1) : old(i) \in 1..m /\ old(i) # n /\ r[i] = s[old(i)]
  <2> SUFFICES ASSUME NEW i \in 1..(m - 1)  PROVE old(i) \in 1..m /\ old(i) # n /\ r[i] = s[old(i)]
    OBVIOUS
  <2>1. r[i] = s[old(i)]
    BY <1>7
  <2>2. old(i) \in 1..m /\ old(i) # n
    BY <1>4
  <2> QED
    BY <2>1, <2>2
<1>13. \A i, j \in 1..(m - 1) : old(i) = old(j) => i = j
  BY <1>4, <1>6
<1>14. \A j \in 1..m : j # n => \E i \in 1..(m - 1) : r[i] = s[j]
  <2> SUFFICES ASSUME NEW j \in 1..m, j # n  PROVE \E i \in 1..(m - 1) : r[i] = s[j]
    OBVIOUS
  <2>1. CASE j < n
    <3>1. j \in 1..(m - 1)
      BY <1>4, <1>6, <2>1
    <3> QED
      BY <1>7, <2>1, <3>1
  <2>2. CASE j > n
    <3>1. j - 1 \in 1..(m - 1) /\ ~ (j - 1 < n) /\ (j - 1) + 1 = j
      BY <1>4, <1>6, <2>2
    <3> QED
      BY <1>7, <3>1
  <2> QED
    BY <1>6, <2>1, <2>2
<1> HIDE DEF old
<1>15. \A i \in 1..m : s[i].key = k => i = n
  BY <1>1, <1>3, <1>4, <1>6 DEF TableIs, Hashed
<1>16. ASSUME NEW d \in 0..(c - 1), NEW i \in 1..Len(chains'[d])
       PROVE  hash[chains'[d][i].key] % c = d
  <2>1. CASE d = b
    <3>1. i \in 1..(m - 1) /\ chains'[d][i] = s[old(i)] /\ old(i) \in 1..m
      BY <1>7, <1>10, <1>12, <2>1
    <3>2. hash[s[old(i)].key] % c = b
      BY <1>1, <1>3, <1>6, <3>1 DEF TableIs, Hashed
    <3> QED
      BY <2>1, <3>1, <3>2
  <2>2. CASE d # b
    BY <1>1, <1>10, <2>2 DEF TableIs, Hashed
  <2> QED
    BY <2>1, <2>2
<1>17. ASSUME NEW d \in 0..(c - 1), NEW i \in 1..Len(chains'[d]), NEW j \in 1..Len(chains'[d]),
              chains'[d][i].key = chains'[d][j].key
       PROVE  i = j
  <2>1. CASE d = b
    <3>1. i \in 1..(m - 1) /\ j \in 1..(m - 1) /\ s[old(i)].key = s[old(j)].key
      BY <1>7, <1>10, <1>12, <1>17, <2>1
    <3>2. old(i) = old(j)
      BY <1>1, <1>3, <1>6, <1>12, <3>1 DEF TableIs, Hashed
    <3> QED
      BY <1>13, <3>1, <3>2
  <2>2. CASE d # b
    BY <1>1, <1>10, <1>17, <2>2 DEF TableIs, Hashed
  <2> QED
    BY <2>1, <2>2
<1>18. Hashed(chains', c, hash)
  BY <1>10, <1>16, <1>17 DEF Hashed
<1>19. ASSUME NEW x \in Entry, Holds(chains', c, x)  PROVE Holds(chains, c, x) /\ x.key # k
  <2>1. PICK d \in 0..(c - 1) : \E i \in 1..Len(chains'[d]) : chains'[d][i] = x
    BY <1>19 DEF Holds
  <2>2. PICK i \in 1..Len(chains'[d]) : chains'[d][i] = x
    BY <2>1
  <2>3. CASE d = b
    <3>1. i \in 1..(m - 1) /\ s[old(i)] = x
      BY <1>7, <1>10, <1>12, <2>2, <2>3
    <3>2. Holds(chains, c, x)
      BY <1>3, <1>6, <1>12, <3>1 DEF Holds
    <3> QED
      BY <1>12, <1>15, <3>1, <3>2
  <2>4. CASE d # b
    <3>1. Holds(chains, c, x)
      BY <1>10, <2>2, <2>4 DEF Holds
    <3>2. hash[x.key] % c = d
      BY <1>16, <2>2
    <3> QED
      BY <1>2, <2>4, <3>1, <3>2
  <2> QED
    BY <2>3, <2>4
<1>20. ASSUME NEW x \in Entry, Holds(chains, c, x), x.key # k  PROVE Holds(chains', c, x)
  <2>1. PICK d \in 0..(c - 1) : \E i \in 1..Len(chains[d]) : chains[d][i] = x
    BY <1>20 DEF Holds
  <2>2. CASE d = b
    <3>1. PICK j \in 1..m : s[j] = x
      BY <1>3, <1>6, <2>1, <2>2
    <3>2. PICK i \in 1..(m - 1) : r[i] = x
      BY <1>4, <1>14, <1>20, <3>1
    <3> QED
      BY <1>7, <1>10, <3>2 DEF Holds
  <2>3. CASE d # b
    BY <1>10, <2>1, <2>3 DEF Holds
  <2> QED
    BY <2>2, <2>3
<1>21. ASSUME NEW x \in Entry  PROVE Holds(chains', c, x) <=> map'[x.key] = x.val
  <2>1. x.key \in Keys /\ x.val # None
    BY DEF Entry, Settings
  <2>2. x.key # k => map'[x.key] = map[x.key]
    BY <1>11, <2>1
  <2>3. Holds(chains, c, x) <=> map[x.key] = x.val
    BY <1>1 DEF TableIs
  <2> QED
    BY <1>11, <1>19, <1>20, <2>1, <2>2, <2>3
<1> QED
  BY <1>1, <1>11, <1>18, <1>21 DEF TableIInv, TableIs

LEMMA TableKeeps ==
  ASSUME Settings, TableIInv, [K!Next]_(K!vars)  PROVE TableIInv'
<1>1. CASE UNCHANGED K!vars
  <2>1. chains' = chains /\ hash' = hash /\ map' = map
    BY <1>1 DEF K!vars
  <2>2. PICK c \in Nat \ {0} : TableIs(c)
    BY DEF TableIInv
  <2>3. TableIs(c)'
    BY <2>1, <2>2 DEF TableIs
  <2> QED
    BY <2>3 DEF TableIInv
<1> QED
  BY <1>1, PutKeeps, ReplaceKeeps, DeleteKeeps DEF K!Next

LEMMA GetsLastPut ==
  ASSUME Settings, TableIInv  PROVE K!GetIsLastPut
<1>1. PICK c \in Nat \ {0} : TableIs(c)
  BY DEF TableIInv
<1>2. ASSUME NEW k \in Keys  PROVE K!Get(k) = map[k]
  <2>1. PICK b \in 0..(c - 1) : b = hash[k] % c
    BY <1>1, Looks
  <2>2. PICK s \in Seq(Entry) : s = chains[b]
    BY <1>1, <2>1, Looks
  <2>3. CASE K!At(K!Chain(k), k) = {}
    <3>1. ~ HasKey(chains, c, k)
      BY <1>1, <2>3, Looks
    <3>2. map[k] \notin Texts
      <4> SUFFICES ASSUME map[k] \in Texts  PROVE FALSE
        OBVIOUS
      <4>1. PICK e \in Entry : e = [key |-> k, val |-> map[k]]
        BY DEF Entry
      <4>2. e.key = k /\ e.val = map[k]
        BY <4>1
      <4>3. Holds(chains, c, e)
        BY <1>1, <4>2 DEF TableIs
      <4> QED
        BY <3>1, <4>2, <4>3 DEF HasKey
    <3> QED
      BY <1>1, <2>3, <3>2 DEF TableIs, K!Get
  <2>4. CASE K!At(K!Chain(k), k) # {}
    <3>1. PICK n \in 1..Len(s) : n = K!Found(k) /\ s[n].key = k
      BY <1>1, <2>1, <2>2, <2>4, Looks
    <3>2. s[n] \in Entry /\ Holds(chains, c, s[n])
      BY <2>2 DEF Holds
    <3>3. map[k] = s[n].val
      BY <1>1, <3>1, <3>2 DEF TableIs
    <3>4. K!Chain(k) = s
      BY <1>1, <2>1, <2>2, Looks
    <3> QED
      BY <2>4, <3>1, <3>3, <3>4 DEF K!Get
  <2> QED
    BY <2>3, <2>4
<1> QED
  BY <1>2 DEF K!GetIsLastPut

LEMMA ChainsAreShort ==
  ASSUME IsFiniteSet(Keys), NEW c \in Nat \ {0}, TableIs(c), NEW b \in 0..(c - 1)
  PROVE  Len(chains[b]) <= Cardinality(Keys)
<1>1. PICK s \in Seq(Entry) : s = chains[b]
  BY DEF TableIs, Hashed, Tables
<1>2. PICK m \in Nat : m = Len(s)
  OBVIOUS
<1> DEFINE f == [i \in 1..m |-> s[i].key]
<1>3. \A i \in 1..m : f[i] = s[i].key /\ s[i].key \in Keys
  <2>1. \A i \in 1..m : s[i] \in Entry
    BY <1>2
  <2> QED
    BY <2>1 DEF Entry
<1>4. f \in Injection(1..m, Keys)
  <2>1. f \in [1..m -> Keys]
    BY <1>3
  <2> HIDE DEF f
  <2>2. \A i, j \in 1..m : f[i] = f[j] => i = j
    BY <1>1, <1>2, <1>3 DEF TableIs, Hashed
  <2> QED
    BY <2>1, <2>2 DEF Injection, IsInjective
<1> HIDE DEF f
<1>5. Cardinality(1..m) <= Cardinality(Keys)
  BY <1>4, FS_Injection
<1>6. Cardinality(1..m) = m
  BY FS_Interval
<1> QED
  BY <1>1, <1>2, <1>5, <1>6

LEMMA NoneTwice ==
  ASSUME Settings, IsFiniteSet(Keys), TableIInv  PROVE K!NoKeyTwice
<1>1. PICK c \in Nat \ {0} : TableIs(c)
  BY DEF TableIInv
<1>2. K!Capacity = c
  BY <1>1, CapacityIs DEF K!Capacity, TableIs, Hashed
<1>3. PICK N \in Nat : N = Cardinality(Keys)
  BY FS_CardinalityType
<1>4. \A b \in 0..(c - 1) : chains[b] \in Seq(Entry) /\ Len(chains[b]) \in Nat /\ Len(chains[b]) <= N
  <2> SUFFICES ASSUME NEW b \in 0..(c - 1)
               PROVE  chains[b] \in Seq(Entry) /\ Len(chains[b]) \in Nat /\ Len(chains[b]) <= N
    OBVIOUS
  <2>1. chains[b] \in Seq(Entry)
    BY <1>1 DEF TableIs, Hashed, Tables
  <2>2. Len(chains[b]) <= Cardinality(Keys)
    BY <1>1, ChainsAreShort
  <2> QED
    BY <1>3, <2>1, <2>2
<1>5. ASSUME NEW k \in Keys
      PROVE  Cardinality({e \in (0..(c - 1)) \X (1..N) : e[2] \in K!At(chains[e[1]], k)})
               = IF map[k] = None THEN 0 ELSE 1
  <2> DEFINE A == {e \in (0..(c - 1)) \X (1..N) : e[2] \in K!At(chains[e[1]], k)}
  <2>1. \A b \in 0..(c - 1) : \A i \in 1..N :
          <<b, i>> \in A <=> i \in 1..Len(chains[b]) /\ chains[b][i].key = k
    BY <1>4 DEF K!At
  <2>2. \A e \in A : \E b \in 0..(c - 1) : \E i \in 1..N : e = <<b, i>>
    OBVIOUS
  <2> SUFFICES Cardinality(A) = IF map[k] = None THEN 0 ELSE 1
    OBVIOUS
  <2> HIDE DEF A
  <2>3. CASE map[k] = None
    <3>1. ASSUME NEW e \in A  PROVE FALSE
      <4>1. PICK b \in 0..(c - 1) : \E i \in 1..N : e = <<b, i>>
        BY <2>2
      <4>2. PICK i \in 1..N : e = <<b, i>>
        BY <4>1
      <4>3. i \in 1..Len(chains[b]) /\ chains[b][i].key = k
        BY <2>1, <4>2
      <4>4. chains[b][i] \in Entry /\ Holds(chains, c, chains[b][i])
        BY <1>4, <4>3 DEF Holds
      <4>5. map[k] = chains[b][i].val
        BY <1>1, <4>3, <4>4 DEF TableIs
      <4> QED
        BY <2>3, <4>4, <4>5 DEF Entry, Settings
    <3> QED
      <4>1. A = {}
        BY <3>1
      <4>2. Cardinality(A) = 0
        BY <4>1, FS_EmptySet
      <4> QED
        BY <2>3, <4>2
  <2>4. CASE map[k] # None
    <3>1. PICK x \in Entry : x = [key |-> k, val |-> map[k]]
      BY <1>1, <2>4 DEF Entry, TableIs
    <3>2. x.key = k /\ x.val = map[k]
      BY <3>1
    <3>3. Holds(chains, c, x)
      BY <1>1, <3>2 DEF TableIs
    <3>4. PICK b \in 0..(c - 1) : \E i \in 1..Len(chains[b]) : chains[b][i] = x
      BY <3>3 DEF Holds
    <3>5. PICK i \in 1..Len(chains[b]) : chains[b][i] = x
      BY <3>4
    <3>6. i \in 1..N
      BY <1>4
    <3>7. <<b, i>> \in A
      BY <2>1, <3>2, <3>5, <3>6
    <3>8. ASSUME NEW e \in A  PROVE e = <<b, i>>
      <4>1. PICK d \in 0..(c - 1) : \E j \in 1..N : e = <<d, j>>
        BY <2>2
      <4>2. PICK j \in 1..N : e = <<d, j>>
        BY <4>1
      <4>3. j \in 1..Len(chains[d]) /\ chains[d][j].key = k
        BY <2>1, <4>2
      <4>4. d = b
        BY <1>1, <3>2, <3>5, <4>3 DEF TableIs, Hashed
      <4>5. j = i
        BY <1>1, <3>2, <3>5, <4>3, <4>4 DEF TableIs, Hashed
      <4> QED
        BY <4>2, <4>4, <4>5
    <3>9. A = {<<b, i>>}
      BY <3>7, <3>8
    <3> QED
      <4>1. Cardinality(A) = 1
        BY <3>9, FS_Singleton
      <4> QED
        BY <2>4, <4>1
  <2> QED
    BY <2>3, <2>4
<1> QED
  BY <1>2, <1>3, <1>5, TableSets DEF K!NoKeyTwice

\* The hash table is the map of what was put last and not deleted, whatever the
\* hash function and the seeds, however long the chains and however often the
\* table grows: get answers it, and no key has an entry to spare (configuration.c:81-167).
THEOREM TableIsMapAlways ==
  ASSUME Settings, IsFiniteSet(Keys)  PROVE OneOfThem => []TableIsMap
<1> DEFINE Inv == program = "configuration" => TableIInv
<1>1. InitOfOne => Inv
  BY TableInit DEF InitOfOne
<1>2. Inv /\ [StepOfOne]_programs => Inv'
  <2> SUFFICES ASSUME program' = "configuration", Inv, [StepOfOne]_programs  PROVE TableIInv'
    OBVIOUS
  <2>1. program = "configuration" /\ [K!Next]_(K!vars)
    BY DEF StepOfOne, Produces, Sets, Reads, programs, settings, K!vars
  <2> QED
    BY <2>1, TableKeeps
<1>3. Inv => TableIsMap
  BY GetsLastPut, NoneTwice DEF K!TableIsMap, TableIsMap
<1> QED
  BY <1>1, <1>2, <1>3, PTL DEF OneOfThem

-----------------------------------------------------------------------------
(* CommandLine.                                                            *)

LEMMA WordSets ==
  ASSUME NEW S  PROVE W!Cardinality(S) = Cardinality(S)
  BY DEF W!Cardinality, Cardinality

Blank(s) == {i \in 1..Len(s) : W!Char(s, i) \in W!Blanks}
Newline(s) == {i \in 1..Len(s) : W!Char(s, i) = "\n"}
Line(s) == s \in Seq(Chars) /\ Newline(s) = {}

LEMMA SkipStops ==
  ASSUME NEW s \in Seq(Chars), NEW p \in 1..(Len(s) + 1)
  PROVE  Stops(W!skip_whitespace(s, p), p, Len(s), Blank(s))
<1>1. PICK L \in Nat : L = Len(s)
  OBVIOUS
<1> DEFINE Is(q) == q \in p..(L + 1) /\ /\ q > L \/ ~ (W!Char(s, q) \in W!Blanks)
                                       /\ \A r \in p..(q - 1) : W!Char(s, r) \in W!Blanks
<1>2. \A q : Stops(q, p, L, Blank(s)) <=> Is(q)
  <2> SUFFICES ASSUME NEW q  PROVE Stops(q, p, L, Blank(s)) <=> Is(q)
    OBVIOUS
  <2>1. CASE q \in p..(L + 1)
    <3>1. ~ (q > L) => q \in 1..L
      BY <2>1
    <3>2. \A r \in p..(q - 1) : r \in 1..L
      BY <2>1
    <3> QED
      BY <1>1, <3>1, <3>2 DEF Stops, Blank
  <2>2. CASE q \notin p..(L + 1)
    BY <2>2 DEF Stops
  <2> QED
    BY <2>1, <2>2
<1>3. PICK q : Stops(q, p, L, Blank(s))
  BY <1>1, Stopping
<1>4. Is(q)
  BY <1>2, <1>3
<1>5. Is(W!skip_whitespace(s, p))
  <2>1. W!skip_whitespace(s, p) = CHOOSE x \in p..(L + 1) :
          /\ x > L \/ ~ (W!Char(s, x) \in W!Blanks)
          /\ \A r \in p..(x - 1) : W!Char(s, r) \in W!Blanks
    BY <1>1 DEF W!skip_whitespace, W!Stop
  <2> QED
    BY <1>4, <2>1
<1> HIDE DEF Is
<1> QED
  BY <1>1, <1>2, <1>5

LEMMA CharIs ==
  ASSUME NEW s \in Seq(Chars), NEW i \in 1..Len(s)  PROVE W!Char(s, i) = <<s[i]>>
<1>1. i \in Int /\ \A j \in i..i : s[j] \in Chars
  OBVIOUS
<1>2. /\ SubSeq(s, i, i) \in Seq(Chars)
      /\ Len(SubSeq(s, i, i)) = IF i <= i THEN i - i + 1 ELSE 0
      /\ \A j \in 1..(i - i + 1) : SubSeq(s, i, i)[j] = s[i + j - 1]
  BY <1>1, SubSeqProperties
<1>3. (IF i <= i THEN i - i + 1 ELSE 0) = 1 /\ 1 \in 1..(i - i + 1) /\ i + 1 - 1 = i
  OBVIOUS
<1>4. Len(SubSeq(s, i, i)) = 1 /\ SubSeq(s, i, i)[1] = s[i]
  BY <1>2, <1>3
<1>5. s[i] \in Chars
  OBVIOUS
<1>6. <<s[i]>> \in Seq(Chars) /\ Len(<<s[i]>>) = 1 /\ <<s[i]>>[1] = s[i]
  BY <1>5
<1>7. \A j \in 1..1 : j = 1
  OBVIOUS
<1>8. SubSeq(s, i, i) = <<s[i]>>
  BY <1>2, <1>4, <1>6, <1>7, SeqEqual
<1> QED
  BY <1>8 DEF W!Char

LEMMA WordStops ==
  ASSUME NEW s, Line(s), NEW p \in 1..(Len(s) + 1)
  PROVE  Stops(W!get_word(s, p), p, Len(s), (1..Len(s)) \ Blank(s))
<1>1. PICK L \in Nat : L = Len(s)
  BY DEF Line
<1> DEFINE Ends(c) == ~ (c \notin W!Blanks \cup {"\n"})
           Is(q) == q \in p..(L + 1) /\ /\ q > L \/ Ends(W!Char(s, q))
                                       /\ \A r \in p..(q - 1) : ~ Ends(W!Char(s, r))
<1>2. \A r \in 1..L : Ends(W!Char(s, r)) <=> r \in Blank(s)
  BY <1>1 DEF Line, Newline, Blank
<1> HIDE DEF Ends
<1>3. \A q : Stops(q, p, L, (1..L) \ Blank(s)) <=> Is(q)
  <2> SUFFICES ASSUME NEW q  PROVE Stops(q, p, L, (1..L) \ Blank(s)) <=> Is(q)
    OBVIOUS
  <2>1. CASE q \in p..(L + 1)
    <3>1. ~ (q > L) => q \in 1..L
      BY <2>1
    <3>2. \A r \in p..(q - 1) : r \in 1..L
      BY <2>1
    <3> QED
      BY <1>1, <1>2, <3>1, <3>2 DEF Stops
  <2>2. CASE q \notin p..(L + 1)
    BY <2>2 DEF Stops
  <2> QED
    BY <2>1, <2>2
<1>4. PICK q : Stops(q, p, L, (1..L) \ Blank(s))
  BY <1>1, Stopping
<1>5. Is(q)
  BY <1>3, <1>4
<1>6. Is(W!get_word(s, p))
  <2>1. W!get_word(s, p) = CHOOSE x \in p..(L + 1) :
          /\ x > L \/ Ends(W!Char(s, x))
          /\ \A r \in p..(x - 1) : ~ Ends(W!Char(s, r))
    BY <1>1 DEF W!get_word, W!Stop, Ends
  <2> QED
    BY <1>5, <2>1
<1> HIDE DEF Is
<1> QED
  BY <1>1, <1>3, <1>6

\* What get_cmd leaves is a line: it has no newline.
LEMMA FirstLineIs ==
  ASSUME NEW s \in Seq(Chars)  PROVE Line(W!FirstLine(s))
<1>1. PICK L \in Nat : L = Len(s)
  OBVIOUS
<1> DEFINE Is(q) == q \in 1..(L + 1) /\ /\ q > L \/ ~ (W!Char(s, q) # "\n")
                                       /\ \A r \in 1..(q - 1) : W!Char(s, r) # "\n"
           Z == (1..L) \ Newline(s)
           w == CHOOSE x \in 1..(L + 1) : /\ x > L \/ ~ (W!Char(s, x) # "\n")
                                          /\ \A r \in 1..(x - 1) : W!Char(s, r) # "\n"
<1>2. PICK q : Stops(q, 1, L, Z)
  <2> HIDE DEF Z
  <2>1. 1 \in 1..(L + 1)
    OBVIOUS
  <2> QED
    BY <2>1, Stopping
<1>3. Is(q)
  <2>1. q \in 1..(L + 1)
    BY <1>2 DEF Stops
  <2>2. \A r \in 1..(q - 1) : r \in Z
    BY <1>2 DEF Stops
  <2>3. q > L \/ q \notin Z
    BY <1>2 DEF Stops
  <2> QED
    BY <1>1, <2>1, <2>2, <2>3 DEF Newline
<1>4. Is(w)
  <2>1. \E x \in 1..(L + 1) : /\ x > L \/ ~ (W!Char(s, x) # "\n")
                              /\ \A r \in 1..(x - 1) : W!Char(s, r) # "\n"
    BY <1>3
  <2> QED
    BY <2>1
<1>5. W!FirstLine(s) = SubSeq(s, 1, w - 1)
  BY <1>1 DEF W!FirstLine, W!Stop
<1> HIDE DEF w, Z
<1>6. PICK m \in Int : m = w - 1 /\ m \in 0..L /\ \A r \in 1..m : r \in 1..L /\ W!Char(s, r) # "\n"
  <2>1. w \in 1..(L + 1)
    BY <1>4
  <2>2. w - 1 \in Int /\ w - 1 \in 0..L /\ \A r \in 1..(w - 1) : r \in 1..L
    BY <2>1
  <2> QED
    BY <1>4, <2>2
<1>7. \A r \in 1..m : s[r] \in Chars
  BY <1>1, <1>6
<1>8. /\ SubSeq(s, 1, m) \in Seq(Chars) /\ Len(SubSeq(s, 1, m)) = m
      /\ \A i \in 1..m : SubSeq(s, 1, m)[i] = s[i]
  <2>1. /\ SubSeq(s, 1, m) \in Seq(Chars)
        /\ Len(SubSeq(s, 1, m)) = IF 1 <= m THEN m - 1 + 1 ELSE 0
        /\ \A i \in 1..(m - 1 + 1) : SubSeq(s, 1, m)[i] = s[1 + i - 1]
    <3>1. 1 \in Int
      OBVIOUS
    <3> QED
      BY <1>7, <3>1, SubSeqProperties
  <2>2. (IF 1 <= m THEN m - 1 + 1 ELSE 0) = m
    BY <1>6
  <2>3. \A i \in 1..m : i \in 1..(m - 1 + 1) /\ 1 + i - 1 = i
    OBVIOUS
  <2> QED
    BY <2>1, <2>2, <2>3
<1>9. ASSUME NEW i \in 1..m  PROVE W!Char(SubSeq(s, 1, m), i) = W!Char(s, i)
  BY <1>1, <1>6, <1>8, CharIs
<1> QED
  BY <1>5, <1>6, <1>8, <1>9 DEF Line, Newline

\* The words that begin before p.
Before(s, p) == {k \in W!Begins(s) : k < p}

\* At p begins the word behind the first n, or there is none and the line ends at p.
Reached(s, p, n) ==
  /\ p \in 1..(Len(s) + 1)
  /\ p <= Len(s) => p \in W!Begins(s) /\ Cardinality(Before(s, p)) = n
  /\ p > Len(s) => Cardinality(W!Begins(s)) <= n

LEMMA BeginsAre ==
  ASSUME NEW s, Line(s)
  PROVE  /\ IsFiniteSet(W!Begins(s)) /\ W!Begins(s) \subseteq 1..Len(s) /\ Cardinality(W!Begins(s)) \in Nat
         /\ \A i \in 1..Len(s) : i \in W!Begins(s) <=> i \notin Blank(s) /\ (i = 1 \/ i - 1 \in Blank(s))
         /\ \A p : /\ IsFiniteSet(Before(s, p)) /\ Cardinality(Before(s, p)) \in Nat
                   /\ Before(s, p) \subseteq W!Begins(s)
<1>1. PICK L \in Nat : L = Len(s)
  BY DEF Line
<1>2. W!Begins(s) \subseteq 1..L
  BY <1>1 DEF W!Begins
<1>3. IsFiniteSet(W!Begins(s))
  <2>1. IsFiniteSet(1..L)
    BY FS_Interval
  <2> QED
    BY <1>2, <2>1, FS_Subset
<1>4. \A i \in 1..L : i # 1 => i - 1 \in 1..L
  OBVIOUS
<1>5. \A i \in 1..L : i \in W!Begins(s) <=> i \notin Blank(s) /\ (i = 1 \/ i - 1 \in Blank(s))
  BY <1>1, <1>4 DEF W!Begins, Blank
<1>6. ASSUME NEW p
      PROVE  /\ IsFiniteSet(Before(s, p)) /\ Cardinality(Before(s, p)) \in Nat
             /\ Before(s, p) \subseteq W!Begins(s)
  <2>1. Before(s, p) \subseteq W!Begins(s)
    BY DEF Before
  <2> QED
    BY <1>3, <2>1, FS_Subset, FS_CardinalityType
<1> QED
  BY <1>1, <1>2, <1>3, <1>5, <1>6, FS_CardinalityType

LEMMA FirstReached ==
  ASSUME NEW s, Line(s)  PROVE Reached(s, W!skip_whitespace(s, 1), 0)
<1>1. PICK L \in Nat : L = Len(s)
  BY DEF Line
<1>2. PICK q : q = W!skip_whitespace(s, 1)
  OBVIOUS
<1>3. Stops(q, 1, L, Blank(s))
  <2>1. s \in Seq(Chars) /\ 1 \in 1..(L + 1)
    BY DEF Line
  <2> QED
    BY <1>1, <1>2, <2>1, SkipStops
<1>4. q \in 1..(L + 1) /\ (q > L \/ q \notin Blank(s)) /\ \A r \in 1..(q - 1) : r \in Blank(s)
  BY <1>3 DEF Stops
<1>5. \A k \in W!Begins(s) : ~ (k < q)
  <2> SUFFICES ASSUME NEW k \in W!Begins(s), k < q  PROVE FALSE
    OBVIOUS
  <2>1. k \in 1..L /\ k \notin Blank(s)
    BY <1>1, BeginsAre
  <2>2. k \in 1..(q - 1)
    BY <1>4, <2>1
  <2> QED
    BY <1>4, <2>1, <2>2
<1>6. Before(s, q) = {} /\ Cardinality(Before(s, q)) = 0
  <2>1. Before(s, q) = {}
    BY <1>5 DEF Before
  <2> QED
    BY <2>1, FS_EmptySet
<1>7. ASSUME q <= L  PROVE q \in W!Begins(s)
  <2>1. q \in 1..L /\ q \notin Blank(s)
    BY <1>4, <1>7
  <2>2. q # 1 => q - 1 \in 1..(q - 1)
    BY <1>4
  <2> QED
    BY <1>1, <1>4, <2>1, <2>2, BeginsAre
<1>8. ASSUME q > L  PROVE Cardinality(W!Begins(s)) <= 0
  <2>1. \A k \in W!Begins(s) : k < q
    BY <1>1, <1>4, <1>8, BeginsAre
  <2>2. W!Begins(s) = {}
    BY <1>5, <2>1
  <2>3. Cardinality(W!Begins(s)) = 0
    BY <2>2, FS_EmptySet
  <2> QED
    BY <2>3
<1> QED
  BY <1>1, <1>2, <1>4, <1>6, <1>7, <1>8 DEF Reached

LEMMA NextReached ==
  ASSUME NEW s, Line(s), NEW n \in Nat, NEW p, Reached(s, p, n)
  PROVE  Reached(s, W!skip_whitespace(s, W!get_word(s, p)), n + 1)
<1>1. PICK L \in Nat : L = Len(s)
  BY DEF Line
<1>2. p \in 1..(L + 1)
  BY <1>1 DEF Reached
<1>3. PICK e : e = W!get_word(s, p)
  OBVIOUS
<1>4. Stops(e, p, L, (1..L) \ Blank(s))
  BY <1>1, <1>2, <1>3, WordStops
<1>5. /\ e \in p..(L + 1) /\ (e <= L => e \in Blank(s))
      /\ \A r \in p..(e - 1) : r \notin Blank(s)
  BY <1>2, <1>4 DEF Stops
<1>6. PICK q : q = W!skip_whitespace(s, e)
  OBVIOUS
<1>7. Stops(q, e, L, Blank(s))
  <2>1. s \in Seq(Chars) /\ e \in 1..(L + 1)
    BY <1>2, <1>5 DEF Line
  <2> QED
    BY <1>1, <1>6, <2>1, SkipStops
<1>8. /\ q \in e..(L + 1) /\ (q > L \/ q \notin Blank(s))
      /\ \A r \in e..(q - 1) : r \in Blank(s)
  BY <1>7 DEF Stops
<1>9. q \in 1..(L + 1) /\ p <= q
  BY <1>2, <1>5, <1>8
<1>10. CASE p > L
  <2>1. q > L /\ Cardinality(W!Begins(s)) <= n /\ ~ (q <= L)
    BY <1>1, <1>2, <1>9, <1>10 DEF Reached
  <2>2. Cardinality(W!Begins(s)) <= n + 1
    BY <2>1, BeginsAre
  <2> QED
    BY <1>1, <1>3, <1>6, <1>9, <2>1, <2>2 DEF Reached
<1>11. CASE p <= L
  <2>1. p \in W!Begins(s) /\ p \in 1..L /\ p \notin Blank(s) /\ Cardinality(Before(s, p)) = n
    BY <1>1, <1>2, <1>11, BeginsAre DEF Reached
  <2>2. e > p
    <3>1. e # p
      BY <1>5, <1>11, <2>1
    <3> QED
      BY <1>2, <1>5, <3>1
  <2>3. q > p
    BY <1>2, <1>5, <1>8, <2>2
  <2>4. ASSUME NEW k \in W!Begins(s), k < q, ~ (k < p)  PROVE k = p
    <3>1. k \in 1..L /\ k \notin Blank(s) /\ (k = 1 \/ k - 1 \in Blank(s))
      BY <1>1, BeginsAre
    <3>2. ~ (k \in e..(q - 1))
      BY <1>8, <3>1
    <3>3. k < e
      BY <1>2, <1>5, <1>9, <2>4, <3>1, <3>2
    <3>4. k # p => k - 1 \in p..(e - 1) /\ k # 1
      BY <1>2, <1>5, <2>4, <3>1, <3>3
    <3> QED
      BY <1>5, <3>1, <3>4
  <2>5. Before(s, q) = Before(s, p) \cup {p} /\ p \notin Before(s, p)
    <3>1. p \in Before(s, q)
      BY <2>1, <2>3 DEF Before
    <3>2. p \notin Before(s, p)
      BY <1>2 DEF Before
    <3>3. ASSUME NEW k \in Before(s, p)  PROVE k \in Before(s, q)
      <4>1. k \in W!Begins(s) /\ k < p /\ k \in 1..L
        BY <1>1, BeginsAre DEF Before
      <4>2. k < q
        BY <1>2, <1>9, <2>3, <4>1
      <4> QED
        BY <4>1, <4>2 DEF Before
    <3>4. \A k \in Before(s, q) : k \in Before(s, p) \/ k = p
      BY <2>4 DEF Before
    <3> QED
      BY <3>1, <3>2, <3>3, <3>4
  <2>6. Cardinality(Before(s, q)) = n + 1
    <3>1. IsFiniteSet(Before(s, p))
      BY BeginsAre
    <3> QED
      BY <2>1, <2>5, <3>1, FS_AddElement
  <2>7. ASSUME q <= L  PROVE q \in W!Begins(s)
    <3>1. q \in 1..L /\ q \notin Blank(s)
      BY <1>8, <1>9, <2>7
    <3>2. q # e
      BY <1>5, <2>7, <3>1
    <3>3. q - 1 \in e..(q - 1)
      BY <1>2, <1>5, <1>8, <3>2
    <3> QED
      BY <1>1, <1>8, <3>1, <3>3, BeginsAre
  <2>8. ASSUME q > L  PROVE Cardinality(W!Begins(s)) <= n + 1
    <3>1. \A k \in W!Begins(s) : k < q
      BY <1>1, <1>9, <2>8, BeginsAre
    <3>2. W!Begins(s) = Before(s, q)
      BY <3>1 DEF Before
    <3> QED
      BY <2>6, <3>2
  <2> QED
    BY <1>1, <1>3, <1>6, <1>9, <2>6, <2>7, <2>8 DEF Reached
<1> QED
  BY <1>1, <1>2, <1>10, <1>11

\* What is read at a place reached is the word that is due there.
LEMMA WordAt ==
  ASSUME NEW s, Line(s), NEW n \in Nat, NEW p, Reached(s, p, n)
  PROVE  SubSeq(s, p, W!get_word(s, p) - 1) = W!Word(s, n + 1)
<1>1. PICK L \in Nat : L = Len(s)
  BY DEF Line
<1>2. p \in 1..(L + 1)
  BY <1>1 DEF Reached
<1>3. PICK e : e = W!get_word(s, p)
  OBVIOUS
<1>4. Stops(e, p, L, (1..L) \ Blank(s))
  BY <1>1, <1>2, <1>3, WordStops
<1>5. CASE p > L
  <2>1. p = L + 1 /\ e = L + 1
    BY <1>2, <1>4, <1>5 DEF Stops
  <2>2. SubSeq(s, p, e - 1) = <<>>
    <3>1. p \in Int /\ e - 1 \in Int /\ e - 1 < p
      BY <2>1
    <3> QED
      BY <3>1, SubSeqEmpty
  <2>3. SubSeq(s, 1, 0) = <<>>
    <3>1. 1 \in Int /\ 0 \in Int /\ 0 < 1
      OBVIOUS
    <3> QED
      BY <3>1, SubSeqEmpty
  <2>4. Cardinality(W!Begins(s)) < n + 1
    <3>1. Cardinality(W!Begins(s)) <= n /\ Cardinality(W!Begins(s)) \in Nat
      BY <1>1, <1>5, BeginsAre DEF Reached
    <3> QED
      BY <3>1
  <2>5. W!Word(s, n + 1) = SubSeq(s, 1, 0)
    BY <2>4, WordSets DEF W!Word
  <2> QED
    BY <1>3, <2>2, <2>3, <2>5
<1>6. CASE p <= L
  <2>1. p \in W!Begins(s) /\ Cardinality(Before(s, p)) = n
    BY <1>1, <1>6 DEF Reached
  <2> DEFINE Upto(j) == {k \in W!Begins(s) : k <= j}
  <2>2. \A j \in W!Begins(s) : Upto(j) = Before(s, j) \cup {j} /\ j \notin Before(s, j)
    <3> SUFFICES ASSUME NEW j \in W!Begins(s)
                 PROVE  Upto(j) = Before(s, j) \cup {j} /\ j \notin Before(s, j)
      OBVIOUS
    <3>1. j \in 1..L /\ \A k \in W!Begins(s) : k \in 1..L
      BY <1>1, BeginsAre
    <3>2. \A k \in W!Begins(s) : k <= j <=> k < j \/ k = j
      BY <3>1
    <3>3. \A k : k \in Upto(j) <=> k \in Before(s, j) \cup {j}
      BY <3>2 DEF Before
    <3>4. ~ (j < j)
      BY <3>1
    <3>5. Upto(j) = Before(s, j) \cup {j}
      <4> HIDE DEF Upto
      <4> QED
        BY <3>3
    <3> QED
      BY <3>4, <3>5 DEF Before
  <2>3. \A j \in W!Begins(s) : /\ Cardinality(Before(s, j)) \in Nat
                               /\ Cardinality(Upto(j)) = Cardinality(Before(s, j)) + 1
    <3> HIDE DEF Upto
    <3> SUFFICES ASSUME NEW j \in W!Begins(s)
                 PROVE  /\ Cardinality(Before(s, j)) \in Nat
                        /\ Cardinality(Upto(j)) = Cardinality(Before(s, j)) + 1
      OBVIOUS
    <3>1. IsFiniteSet(Before(s, j)) /\ Cardinality(Before(s, j)) \in Nat
      BY BeginsAre
    <3>2. j \notin Before(s, j) /\ Upto(j) = Before(s, j) \cup {j}
      BY <2>2
    <3>3. Cardinality(Before(s, j) \cup {j}) = Cardinality(Before(s, j)) + 1
      BY <3>1, <3>2, FS_AddElement
    <3> QED
      BY <3>1, <3>2, <3>3
  <2>4. Cardinality(Upto(p)) = n + 1
    BY <2>1, <2>3
  <2>5. ASSUME NEW j \in W!Begins(s), NEW k \in W!Begins(s), j < k
        PROVE  Cardinality(Upto(j)) < Cardinality(Upto(k))
    <3>1. j \in 1..L /\ k \in 1..L /\ \A i \in W!Begins(s) : i \in 1..L
      BY <1>1, BeginsAre
    <3>2. \A i \in Upto(j) : i \in Before(s, k)
      BY <2>5, <3>1 DEF Before
    <3>3. Cardinality(Upto(j)) <= Cardinality(Before(s, k))
      <4>1. Upto(j) \subseteq Before(s, k) /\ IsFiniteSet(Before(s, k))
        BY <3>2, BeginsAre
      <4> HIDE DEF Upto
      <4> QED
        BY <4>1, FS_Subset
    <3>4. Cardinality(Upto(j)) \in Nat
      BY <2>3
    <3> HIDE DEF Upto
    <3> QED
      BY <2>3, <3>3, <3>4
  <2>6. \A j \in W!Begins(s) : Cardinality(Upto(j)) = n + 1 => j = p
    <3> SUFFICES ASSUME NEW j \in W!Begins(s), Cardinality(Upto(j)) = n + 1, j # p  PROVE FALSE
      OBVIOUS
    <3>1. j \in 1..L /\ p \in 1..L
      BY <1>1, <2>1, BeginsAre
    <3>2. j < p \/ p < j
      BY <3>1
    <3> HIDE DEF Upto
    <3> QED
      BY <2>1, <2>4, <2>5, <3>2
  <2> DEFINE i == CHOOSE j \in W!Begins(s) : W!Cardinality({k \in W!Begins(s) : k <= j}) = n + 1
  <2>7. i = p
    <3>1. i = CHOOSE j \in W!Begins(s) : Cardinality(Upto(j)) = n + 1
      BY WordSets
    <3> HIDE DEF i, Upto
    <3> QED
      BY <2>1, <2>4, <2>6, <3>1
  <2> HIDE DEF i
  <2>8. ~ (Cardinality(W!Begins(s)) < n + 1)
    <3>1. Cardinality(Upto(p)) <= Cardinality(W!Begins(s))
      <4>1. Upto(p) \subseteq W!Begins(s) /\ IsFiniteSet(W!Begins(s))
        BY BeginsAre
      <4> HIDE DEF Upto
      <4> QED
        BY <4>1, FS_Subset
    <3>2. Cardinality(W!Begins(s)) \in Nat
      BY BeginsAre
    <3> HIDE DEF Upto
    <3> QED
      BY <2>4, <3>1, <3>2
  <2> DEFINE Is(j) == j \in p..(L + 1) /\ /\ j > L \/ W!Char(s, j) \in W!Blanks
                                         /\ \A k \in p..(j - 1) : W!Char(s, k) \notin W!Blanks
             end == CHOOSE j \in p..(L + 1) : /\ j > L \/ W!Char(s, j) \in W!Blanks
                                              /\ \A k \in p..(j - 1) : W!Char(s, k) \notin W!Blanks
  <2>9. \A j : Stops(j, p, L, (1..L) \ Blank(s)) <=> Is(j)
    <3> SUFFICES ASSUME NEW j  PROVE Stops(j, p, L, (1..L) \ Blank(s)) <=> Is(j)
      OBVIOUS
    <3>1. CASE j \in p..(L + 1)
      <4>1. ~ (j > L) => j \in 1..L
        BY <1>2, <3>1
      <4>2. \A r \in p..(j - 1) : r \in 1..L
        BY <1>2, <3>1
      <4> QED
        BY <1>1, <3>1, <4>1, <4>2 DEF Stops, Blank
    <3>2. CASE j \notin p..(L + 1)
      BY <3>2 DEF Stops
    <3> QED
      BY <3>1, <3>2
  <2>10. Is(end)
    <3>1. Is(e)
      BY <1>4, <2>9
    <3> QED
      BY <3>1
  <2>11. end = e
    <3> HIDE DEF end, Is
    <3> QED
      BY <1>2, <1>4, <2>9, <2>10, StopsOnce
  <2>12. W!Word(s, n + 1) =
           SubSeq(s, i, (CHOOSE j \in i..(L + 1) : /\ j > L \/ W!Char(s, j) \in W!Blanks
                                                   /\ \A k \in i..(j - 1) : W!Char(s, k) \notin W!Blanks) - 1)
    BY <1>1, <2>8, WordSets DEF W!Word, i
  <2>13. W!Word(s, n + 1) = SubSeq(s, p, end - 1)
    BY <2>7, <2>12
  <2> QED
    BY <1>3, <2>11, <2>13
<1> QED
  BY <1>2, <1>5, <1>6

\* The places the paths are read at.
Place(s, n) ==
  LET After[i \in 0..n] == IF i = 0 THEN W!skip_whitespace(s, 1)
                           ELSE W!skip_whitespace(s, W!get_word(s, After[i - 1]))
  IN After[n]

LEMMA PathAt ==
  ASSUME NEW s, Line(s), NEW n \in {1, 2}  PROVE Reached(s, Place(s, n), n)
<1> DEFINE Then(p) == W!skip_whitespace(s, W!get_word(s, p))
           a == W!skip_whitespace(s, 1)
           Is(f) == f = [i \in 0..n |-> IF i = 0 THEN a ELSE Then(f[i - 1])]
           g == [i \in 0..n |-> IF i = 0 THEN a ELSE IF i = 1 THEN Then(a) ELSE Then(Then(a))]
           w == CHOOSE f : Is(f)
<1> SUFFICES Reached(s, w[n], n)
  BY Zenon DEF Place
<1>1. Reached(s, a, 0)
  BY FirstReached
<1>2. Reached(s, Then(a), 1)
  <2>1. 0 \in Nat /\ 0 + 1 = 1
    OBVIOUS
  <2>2. Reached(s, Then(a), 0 + 1)
    <3> HIDE DEF a
    <3> QED
      BY <1>1, <2>1, NextReached
  <2> QED
    BY <2>1, <2>2
<1>3. Reached(s, Then(Then(a)), 2)
  <2>1. 1 \in Nat /\ 1 + 1 = 2
    OBVIOUS
  <2>2. Reached(s, Then(Then(a)), 1 + 1)
    <3>1. \A p : Reached(s, p, 1) => Reached(s, Then(p), 1 + 1)
      BY <2>1, NextReached
    <3> HIDE DEF a, Then
    <3> QED
      BY <1>2, <3>1
  <2> QED
    BY <2>1, <2>2
<1> HIDE DEF a, Then
<1>4. \A i \in 0..n : i = 0 \/ i = 1 \/ (i = 2 /\ n = 2)
  OBVIOUS
<1>5. Is(g)
  <2> DEFINE h == [i \in 0..n |-> IF i = 0 THEN a ELSE Then(g[i - 1])]
  <2>1. /\ g = [i \in 0..n |-> g[i]] /\ h = [i \in 0..n |-> h[i]]
        /\ \A i \in 0..n : g[i] = IF i = 0 THEN a ELSE IF i = 1 THEN Then(a) ELSE Then(Then(a))
    OBVIOUS
  <2>2. \A i \in 0..n : h[i] = IF i = 0 THEN a ELSE Then(g[i - 1])
    OBVIOUS
  <2>3. 0 \in 0..n /\ 1 \in 0..n
    OBVIOUS
  <2> HIDE DEF g, h
  <2>4. g[0] = a /\ g[1] = Then(a)
    BY <2>1, <2>3
  <2>5. ASSUME NEW i \in 0..n  PROVE g[i] = h[i]
    <3>1. CASE i = 0
      BY <2>2, <2>4, <3>1
    <3>2. CASE i = 1
      BY <2>2, <2>4, <3>2
    <3>3. CASE i = 2
      <4>1. i - 1 = 1 /\ i # 0 /\ i # 1
        BY <3>3
      <4>2. g[i] = Then(Then(a))
        BY <2>1, <4>1
      <4>3. h[i] = Then(g[1])
        BY <2>2, <4>1
      <4> QED
        BY <2>4, <4>2, <4>3
    <3> QED
      BY <1>4, <3>1, <3>2, <3>3
  <2>6. g = h
    BY <2>1, <2>5
  <2> USE DEF h
  <2> QED
    BY <2>6
<1>6. Is(w)
  <2> HIDE DEF Is, g
  <2> QED
    BY <1>5
<1>7. \A i \in 0..n : w[i] = IF i = 0 THEN a ELSE Then(w[i - 1])
  <2> HIDE DEF w
  <2> QED
    BY <1>6
<1> HIDE DEF w, g, Is
<1>8. w[0] = a /\ w[1] = Then(a) /\ (n = 2 => w[2] = Then(Then(a)))
  <2>1. 0 \in 0..n /\ 1 \in 0..n /\ (n = 2 => 2 \in 0..n) /\ 1 - 1 = 0 /\ 2 - 1 = 1
    OBVIOUS
  <2>2. w[0] = a
    BY <1>7, <2>1
  <2>3. w[1] = Then(w[0])
    BY <1>7, <2>1
  <2>4. n = 2 => w[2] = Then(w[1])
    BY <1>7, <2>1
  <2> QED
    BY <2>2, <2>3, <2>4
<1> QED
  BY <1>2, <1>3, <1>8

LEMMA ReadIsWord ==
  ASSUME NEW s, Line(s), NEW n, NEW p, Reached(s, p, n)
  PROVE  SubSeq(s, p, W!get_word(s, p) - 1) \in Seq(Chars)
<1>1. p \in 1..(Len(s) + 1) /\ s \in Seq(Chars)
  BY DEF Reached, Line
<1>2. PICK e : e = W!get_word(s, p) /\ e \in p..(Len(s) + 1)
  BY <1>1, WordStops DEF Stops
<1>3. p \in Int /\ e - 1 \in Int /\ \A i \in p..(e - 1) : s[i] \in Chars
  BY <1>1, <1>2
<1> QED
  BY <1>2, <1>3, SubSeqProperties

\* A line is made of characters, and no command is named as what is not one.
Typing == Lines \subseteq Seq(Chars) /\ Commands \cap {"none", "unknown"} = {}

LineIInv ==
  /\ typed \in Seq(Chars) /\ Len(paths) \in Nat /\ paths \in Seq(Seq(Chars))
  /\ line = IF cmd = "none" THEN typed ELSE W!FirstLine(typed)
  /\ W!PathsAreWords

LEMMA CommandKeeps ==
  ASSUME Typing, LineIInv, W!get_cmd  PROVE LineIInv'
<1>1. PICK s : s = W!FirstLine(typed) /\ Line(s)
  BY FirstLineIs DEF LineIInv
<1>2. PICK p : p = W!skip_whitespace(s, 1) /\ Reached(s, p, 0)
  BY <1>1, FirstReached
<1>3. SubSeq(s, p, W!get_word(s, p) - 1) = W!Word(s, 1)
  <2>1. 0 \in Nat /\ 0 + 1 = 1
    OBVIOUS
  <2>2. SubSeq(s, p, W!get_word(s, p) - 1) = W!Word(s, 0 + 1)
    BY <1>1, <1>2, <2>1, WordAt
  <2> QED
    BY <2>1, <2>2
<1>4. line = typed /\ line' = s
  BY <1>1 DEF W!get_cmd, LineIInv
<1>5. /\ cmd' = IF W!Word(s, 1) \in Commands THEN W!Word(s, 1) ELSE "unknown"
      /\ typed' = typed /\ paths' = paths
  BY <1>2, <1>3, <1>4 DEF W!get_cmd
<1>6. cmd' # "none"
  BY <1>5 DEF Typing
<1>7. W!PathsAreWords'
  <2>1. W!FirstLine(typed)' = s
    BY <1>1, <1>5
  <2>2. cmd' \in Commands => cmd' = W!Word(s, 1)
    BY <1>5 DEF Typing
  <2>3. cmd' = "unknown" => W!Word(s, 1) \notin Commands
    BY <1>5 DEF Typing
  <2>4. \A n \in 1..Len(paths) : Len(W!Word(s, n + 1)) < Size => paths[n] = W!Word(s, n + 1)
    BY <1>1 DEF LineIInv, W!PathsAreWords
  <2> QED
    BY <1>1, <1>5, <2>2, <2>3, <2>4 DEF W!PathsAreWords
<1> QED
  BY <1>1, <1>4, <1>5, <1>6, <1>7 DEF LineIInv

LEMMA PathKeeps ==
  ASSUME Typing, Size \in Nat \ {0}, LineIInv, NEW n \in {1, 2}, W!get_path(n)  PROVE LineIInv'
<1>1. PICK s : s = W!FirstLine(typed) /\ Line(s)
  BY FirstLineIs DEF LineIInv
<1>2. cmd \in Commands /\ cmd # "none" /\ line = s /\ Len(paths) = n - 1
  BY <1>1 DEF W!get_path, LineIInv, Typing
<1>3. PICK p : /\ Reached(s, p, n)
               /\ paths' = Append(paths, W!Cut(SubSeq(s, p, W!get_word(s, p) - 1)))
  <2>1. Reached(s, Place(s, n), n)
    BY <1>1, PathAt
  <2>2. paths' = Append(paths, W!Cut(SubSeq(line, Place(line, n), W!get_word(line, Place(line, n)) - 1)))
    BY Zenon DEF W!get_path, Place
  <2> QED
    BY <1>2, <2>1, <2>2
<1>4. PICK w : /\ w = W!Word(s, n + 1) /\ w = SubSeq(s, p, W!get_word(s, p) - 1)
               /\ paths' = Append(paths, W!Cut(w))
  <2>1. n \in Nat
    OBVIOUS
  <2> QED
    BY <1>1, <1>3, <2>1, WordAt
<1>5. w \in Seq(Chars) /\ W!Cut(w) \in Seq(Chars) /\ (Len(w) < Size => W!Cut(w) = w)
  <2>1. w \in Seq(Chars)
    BY <1>1, <1>3, <1>4, ReadIsWord
  <2>2. ASSUME ~ (Len(w) < Size)  PROVE SubSeq(w, 1, Size - 1) \in Seq(Chars)
    <3>1. 1 \in Int /\ Size - 1 \in Int /\ \A i \in 1..(Size - 1) : w[i] \in Chars
      BY <2>1, <2>2
    <3> QED
      BY <3>1, SubSeqProperties
  <2> QED
    BY <2>1, <2>2 DEF W!Cut
<1>6. /\ paths' \in Seq(Seq(Chars)) /\ Len(paths') = n /\ paths'[n] = W!Cut(w)
      /\ \A i \in 1..(n - 1) : paths'[i] = paths[i]
  <2>1. PICK v \in Seq(Chars) : v = W!Cut(w)
    BY <1>5
  <2>2. paths \in Seq(Seq(Chars)) /\ Len(paths) + 1 = n
    BY <1>2 DEF LineIInv
  <2>3. /\ Append(paths, v) \in Seq(Seq(Chars)) /\ Len(Append(paths, v)) = Len(paths) + 1
        /\ \A i \in 1..Len(paths) : Append(paths, v)[i] = paths[i]
        /\ Append(paths, v)[Len(paths) + 1] = v
    BY <2>2, AppendProperties
  <2> QED
    BY <1>2, <1>4, <2>1, <2>2, <2>3
<1>7. typed' = typed /\ line' = line /\ cmd' = cmd
  BY DEF W!get_path
<1>8. ASSUME NEW i \in 1..Len(paths'), Len(W!Word(s, i + 1)) < Size  PROVE paths'[i] = W!Word(s, i + 1)
  <2>1. CASE i = n
    BY <1>4, <1>5, <1>6, <1>8, <2>1
  <2>2. CASE i # n
    <3>1. i \in 1..(n - 1)
      BY <1>6, <2>2
    <3> QED
      BY <1>1, <1>2, <1>6, <1>8, <3>1 DEF LineIInv, W!PathsAreWords
  <2> QED
    BY <2>1, <2>2
<1>9. W!PathsAreWords'
  BY <1>1, <1>7, <1>8 DEF LineIInv, W!PathsAreWords
<1> QED
  BY <1>6, <1>7, <1>9 DEF LineIInv

LEMMA LineInit == ASSUME Typing, W!Init  PROVE LineIInv
<1>1. typed \in Seq(Chars) /\ line = typed /\ cmd = "none" /\ paths = <<>>
  BY DEF W!Init, Typing
<1>2. Len(paths) = 0 /\ paths \in Seq(Seq(Chars))
  BY <1>1
<1>3. W!PathsAreWords
  BY <1>1, <1>2 DEF W!PathsAreWords, Typing
<1> QED
  BY <1>1, <1>2, <1>3 DEF LineIInv

LEMMA LineKeeps ==
  ASSUME Typing, Size \in Nat \ {0}, LineIInv, [W!Next]_(W!vars)  PROVE LineIInv'
<1>1. CASE UNCHANGED W!vars
  BY <1>1 DEF W!vars, LineIInv, W!PathsAreWords
<1>2. CASE W!get_path(1) \/ W!get_path(2)
  BY <1>2, PathKeeps
<1> QED
  BY <1>1, <1>2, CommandKeeps DEF W!Next

\* The command and the paths are the words of the first line typed, whatever its
\* length, whatever blanks are between them and whichever words are commands, if
\* the buffers hold them (separate_cmd_path.c:3-92).
THEOREM PathsAreWordsAlways ==
  ASSUME Typing, Size \in Nat \ {0}  PROVE OneOfThem => []PathsAreWords
<1> DEFINE Inv == program = "command" => LineIInv
<1>1. InitOfOne => Inv
  BY LineInit DEF InitOfOne
<1>2. Inv /\ [StepOfOne]_programs => Inv'
  <2> SUFFICES ASSUME program' = "command", Inv, [StepOfOne]_programs  PROVE LineIInv'
    OBVIOUS
  <2>1. program = "command" /\ [W!Next]_(W!vars)
    BY DEF StepOfOne, Produces, Sets, Reads, programs, command, W!vars
  <2> QED
    BY <2>1, LineKeeps
<1>3. Inv => PathsAreWords
  BY DEF LineIInv, PathsAreWords
<1> QED
  BY <1>1, <1>2, <1>3, PTL DEF OneOfThem

-----------------------------------------------------------------------------
(* Lexer.                                                                  *)

LEMMA TextSets ==
  ASSUME NEW S  PROVE Lex!Cardinality(S) = Cardinality(S)
  BY DEF Lex!Cardinality, Cardinality

LEMMA NoNewlines ==
  ASSUME NEW p \in Nat, NEW q \in Nat, \A i \in p..(q - 1) : Lex!At(i) # "\n"
  PROVE  Lex!Newlines(p, q) = 0
<1>1. {i \in p..(q - 1) : Lex!At(i) = "\n"} = {}
  OBVIOUS
<1>2. Cardinality({i \in p..(q - 1) : Lex!At(i) = "\n"}) = 0
  BY <1>1, FS_EmptySet
<1> QED
  BY <1>2, TextSets DEF Lex!Newlines

Adding(p, q, r) ==
  /\ Lex!Newlines(p, r) = Lex!Newlines(p, q) + Lex!Newlines(q, r)
  /\ Lex!Newlines(p, q) \in Nat /\ Lex!Newlines(q, r) \in Nat

LEMMA NewlinesAdd ==
  ASSUME NEW p \in Nat, NEW q \in Nat, NEW r \in Nat, p <= q, q <= r  PROVE Adding(p, q, r)
<1> DEFINE N(a, b) == {i \in a..(b - 1) : Lex!At(i) = "\n"}
<1>1. \A a, b \in Nat : IsFiniteSet(N(a, b)) /\ Cardinality(N(a, b)) \in Nat
  <2> SUFFICES ASSUME NEW a \in Nat, NEW b \in Nat
               PROVE  IsFiniteSet(N(a, b)) /\ Cardinality(N(a, b)) \in Nat
    OBVIOUS
  <2>1. IsFiniteSet(a..(b - 1))
    BY FS_Interval
  <2>2. IsFiniteSet(N(a, b))
    <3>1. N(a, b) \subseteq a..(b - 1)
      OBVIOUS
    <3> HIDE DEF N
    <3> QED
      BY <2>1, <3>1, FS_Subset
  <2> HIDE DEF N
  <2> QED
    BY <2>2, FS_CardinalityType
<1>2. N(p, r) = N(p, q) \cup N(q, r) /\ N(p, q) \cap N(q, r) = {}
  OBVIOUS
<1>3. \A a, b : Lex!Newlines(a, b) = Cardinality(N(a, b))
  BY TextSets DEF Lex!Newlines
<1> HIDE DEF N
<1>4. Cardinality(N(p, q) \cap N(q, r)) = 0
  BY <1>2, FS_EmptySet
<1>5. Cardinality(N(p, r)) = Cardinality(N(p, q)) + Cardinality(N(q, r))
  <2>1. IsFiniteSet(N(p, q)) /\ IsFiniteSet(N(q, r))
    BY <1>1
  <2>2. Cardinality(N(p, q) \cup N(q, r)) =
          Cardinality(N(p, q)) + Cardinality(N(q, r)) - Cardinality(N(p, q) \cap N(q, r))
    BY <2>1, FS_Union
  <2> QED
    BY <1>1, <1>2, <1>4, <2>2
<1> QED
  BY <1>1, <1>3, <1>5 DEF Adding

\* Where the loops over characters stop.
LEMMA UntilIs ==
  ASSUME Len(source) \in Nat, NEW p \in Lex!Positions, NEW C
  PROVE  Stops(Lex!Until(p, C), p, Len(source), {r \in 1..Len(source) : Lex!At(r) \notin C})
<1>1. PICK n \in Nat : n = Len(source)
  OBVIOUS
<1> DEFINE Z == {r \in 1..n : Lex!At(r) \notin C}
           Is(q) == /\ q >= p /\ (Lex!Ending(q) \/ Lex!At(q) \in C)
                    /\ \A r \in p..(q - 1) : ~ Lex!Ending(r) /\ Lex!At(r) \notin C
<1>2. \A q \in Lex!Positions : Is(q) <=> Stops(q, p, n, Z)
  <2> SUFFICES ASSUME NEW q \in 1..(n + 1)  PROVE Is(q) <=> Stops(q, p, n, Z)
    BY <1>1 DEF Lex!Positions
  <2>1. p \in 1..(n + 1)
    BY <1>1 DEF Lex!Positions
  <2>2. \A r : Lex!Ending(r) <=> r > n
    BY <1>1 DEF Lex!Ending
  <2>3. ~ (q > n) => q \in 1..n
    OBVIOUS
  <2>4. \A r \in p..(q - 1) : r \in 1..n /\ ~ (r > n)
    BY <2>1
  <2> QED
    BY <2>1, <2>2, <2>3, <2>4 DEF Stops
<1>3. PICK q : Stops(q, p, n, Z)
  <2> HIDE DEF Z
  <2>1. p \in 1..(n + 1)
    BY <1>1 DEF Lex!Positions
  <2> QED
    BY <2>1, Stopping
<1>4. q \in Lex!Positions
  BY <1>1, <1>3 DEF Stops, Lex!Positions
<1>5. Lex!Until(p, C) \in Lex!Positions /\ Is(Lex!Until(p, C))
  <2>1. Lex!Until(p, C) = CHOOSE x \in Lex!Positions : Is(x)
    BY DEF Lex!Until
  <2> HIDE DEF Is, Z
  <2> QED
    BY <1>2, <1>3, <1>4, <2>1
<1> HIDE DEF Is
<1> QED
  BY <1>1, <1>2, <1>5

LEMMA PastIs ==
  ASSUME Len(source) \in Nat, NEW p \in Lex!Positions, NEW C
  PROVE  Stops(Lex!Past(p, C), p, Len(source), {r \in 1..Len(source) : Lex!At(r) \in C})
<1>1. PICK n \in Nat : n = Len(source)
  OBVIOUS
<1> DEFINE Z == {r \in 1..n : Lex!At(r) \in C}
           Is(q) == /\ q >= p /\ (Lex!Ending(q) \/ Lex!At(q) \notin C)
                    /\ \A r \in p..(q - 1) : ~ Lex!Ending(r) /\ Lex!At(r) \in C
<1>2. \A q \in Lex!Positions : Is(q) <=> Stops(q, p, n, Z)
  <2> SUFFICES ASSUME NEW q \in 1..(n + 1)  PROVE Is(q) <=> Stops(q, p, n, Z)
    BY <1>1 DEF Lex!Positions
  <2>1. p \in 1..(n + 1)
    BY <1>1 DEF Lex!Positions
  <2>2. \A r : Lex!Ending(r) <=> r > n
    BY <1>1 DEF Lex!Ending
  <2>3. ~ (q > n) => q \in 1..n
    OBVIOUS
  <2>4. \A r \in p..(q - 1) : r \in 1..n /\ ~ (r > n)
    BY <2>1
  <2> QED
    BY <2>1, <2>2, <2>3, <2>4 DEF Stops
<1>3. PICK q : Stops(q, p, n, Z)
  <2> HIDE DEF Z
  <2>1. p \in 1..(n + 1)
    BY <1>1 DEF Lex!Positions
  <2> QED
    BY <2>1, Stopping
<1>4. q \in Lex!Positions
  BY <1>1, <1>3 DEF Stops, Lex!Positions
<1>5. Lex!Past(p, C) \in Lex!Positions /\ Is(Lex!Past(p, C))
  <2>1. Lex!Past(p, C) = CHOOSE x \in Lex!Positions : Is(x)
    BY DEF Lex!Past
  <2> HIDE DEF Is, Z
  <2> QED
    BY <1>2, <1>3, <1>4, <2>1
<1> HIDE DEF Is
<1> QED
  BY <1>1, <1>2, <1>5

\* No line ends between p and q.
SameLine(p, q) == q \in p..(Len(source) + 1) /\ \A r \in p..(q - 1) : Lex!At(r) # "\n"

\* A comment reaches to the end of its line, beyond its two strokes.
LEMMA EndOfLineIs ==
  ASSUME Len(source) \in Nat, NEW p \in Lex!Positions, Lex!Comment(p)
  PROVE  SameLine(p, Lex!EndOfLine(p)) /\ Lex!EndOfLine(p) \in (p + 2)..(Len(source) + 1)
<1>1. PICK n \in Nat : n = Len(source)
  OBVIOUS
<1> DEFINE Z == {r \in 1..n : Lex!At(r) \notin {"\n"}}
           e == Lex!EndOfLine(p)
<1>2. Stops(e, p, n, Z)
  <2>1. Stops(Lex!Until(p, {"\n"}), p, Len(source), {r \in 1..Len(source) : Lex!At(r) \notin {"\n"}})
    BY UntilIs
  <2> QED
    BY <1>1, <2>1 DEF Lex!EndOfLine
<1>3. p \in 1..n /\ p + 1 \in 1..n
  <2>1. Lex!At(p) # "" /\ Lex!At(p + 1) # ""
    BY DEF Lex!Comment
  <2>2. ~ Lex!Ending(p) /\ ~ Lex!Ending(p + 1)
    BY <2>1 DEF Lex!At
  <2> QED
    BY <1>1, <2>2 DEF Lex!Ending, Lex!Positions
<1>4. p \in Z /\ p + 1 \in Z
  BY <1>3 DEF Lex!Comment
<1>5. e \in p..(n + 1) /\ (e > n \/ e \notin Z) /\ \A r \in p..(e - 1) : Lex!At(r) # "\n"
  BY <1>2 DEF Stops
<1>6. e # p /\ e # p + 1
  <2> HIDE DEF e, Z
  <2> QED
    BY <1>3, <1>4, <1>5
<1> HIDE DEF e, Z
<1> QED
  BY <1>1, <1>3, <1>5, <1>6 DEF SameLine, e

\* What skipWhitespace passes over, from p up to b.
Skipped(p, b) ==
  \A i \in p..(b - 1) : \/ Lex!Blank(i)
                        \/ \E j \in p..i : j < b - 1 /\ Lex!Comment(j) /\ Lex!Newlines(j, i + 1) = 0

Leads(p) == IF Lex!Blank(p) THEN p + 1 ELSE Lex!EndOfLine(p)
Passing(n) == {p \in 1..n : Lex!Blank(p) \/ Lex!Comment(p)}

LEMMA LeadsOn ==
  ASSUME Len(source) \in Nat, NEW p \in Passing(Len(source))
  PROVE  /\ Leads(p) \in (p + 1)..(Len(source) + 1)
         /\ \A i \in p..(Leads(p) - 1) :
              \/ Lex!Blank(i)
              \/ Lex!Comment(p) /\ Leads(p) >= p + 2 /\ Lex!Newlines(p, i + 1) = 0
<1>1. PICK n \in Nat : n = Len(source)
  OBVIOUS
<1>2. p \in 1..n /\ p \in Lex!Positions
  BY <1>1 DEF Passing, Lex!Positions
<1>3. CASE Lex!Blank(p)
  <2>1. Leads(p) = p + 1
    BY <1>3 DEF Leads
  <2>2. \A i \in p..(Leads(p) - 1) : i = p
    BY <1>2, <2>1
  <2> QED
    BY <1>1, <1>2, <1>3, <2>1, <2>2
<1>4. CASE ~ Lex!Blank(p)
  <2>1. Lex!Comment(p) /\ Leads(p) = Lex!EndOfLine(p)
    BY <1>4 DEF Passing, Leads
  <2>2. SameLine(p, Leads(p)) /\ Leads(p) \in (p + 2)..(n + 1)
    BY <1>1, <1>2, <2>1, EndOfLineIs
  <2>3. ASSUME NEW i \in p..(Leads(p) - 1)  PROVE Lex!Newlines(p, i + 1) = 0
    <3>1. i + 1 \in Nat /\ p \in Nat /\ \A r \in p..((i + 1) - 1) : r \in p..(Leads(p) - 1)
      BY <1>2, <2>2
    <3>2. \A r \in p..((i + 1) - 1) : Lex!At(r) # "\n"
      BY <2>2, <3>1 DEF SameLine
    <3> QED
      BY <3>1, <3>2, NoNewlines
  <2> QED
    BY <1>1, <1>2, <2>1, <2>2, <2>3
<1> QED
  BY <1>3, <1>4

Follows(f, N, G, O) == \A p \in 1..N : f[p] = IF p \in G THEN f[O[p]] ELSE p

\* From each position a token, or the end, is arrived at.
LEMMA ArrivesAtToken ==
  ASSUME Len(source) \in Nat, NEW f, NEW O, \A p \in Passing(Len(source)) : O[p] = Leads(p),
         Follows(f, Len(source) + 1, Passing(Len(source)), O), NEW q \in Lex!Positions
  PROVE  f[q] \in q..(Len(source) + 1) /\ f[q] \notin Passing(Len(source)) /\ Skipped(q, f[q])
<1>1. PICK n \in Nat : n = Len(source)
  OBVIOUS
<1>2. PICK G : G = Passing(n)
  OBVIOUS
<1> DEFINE Good(p) == f[p] \in p..(n + 1) /\ f[p] \notin G /\ Skipped(p, f[p])
           S == {k \in 0..n : ~ Good(n + 1 - k)}
<1>3. \A p \in 1..(n + 1) : f[p] = IF p \in G THEN f[O[p]] ELSE p
  BY <1>1, <1>2 DEF Follows
<1>4. ASSUME S # {}  PROVE FALSE
  <2>1. S \in SUBSET Nat
    OBVIOUS
  <2>2. PICK k \in S : \A i \in S : k <= i
    <3> HIDE DEF S
    <3> QED
      BY <1>4, <2>1, Least
  <2>3. k \in 0..n /\ ~ Good(n + 1 - k)
    OBVIOUS
  <2>4. PICK p \in 1..(n + 1) : p = n + 1 - k
    BY <2>3
  <2>5. CASE p \notin G
    <3>1. f[p] = p
      BY <1>3, <2>5
    <3>2. Skipped(p, p)
      BY DEF Skipped
    <3> QED
      BY <2>3, <2>4, <2>5, <3>1, <3>2
  <2>6. CASE p \in G
    <3>1. PICK r \in (p + 1)..(n + 1) : r = Leads(p) /\ r = O[p]
      BY <1>1, <1>2, <2>6, LeadsOn
    <3>2. \A i \in p..(r - 1) : \/ Lex!Blank(i)
                                \/ Lex!Comment(p) /\ r >= p + 2 /\ Lex!Newlines(p, i + 1) = 0
      BY <1>1, <1>2, <2>6, <3>1, LeadsOn
    <3>3. n + 1 - r \in 0..n /\ ~ (k <= n + 1 - r) /\ n + 1 - (n + 1 - r) = r
      BY <2>3, <2>4
    <3>4. Good(r)
      <4>1. n + 1 - r \notin S
        <5> HIDE DEF S
        <5> QED
          BY <2>2, <3>3
      <4>2. Good(n + 1 - (n + 1 - r))
        <5> HIDE DEF Good
        <5> QED
          BY <3>3, <4>1
      <4> HIDE DEF Good
      <4> QED
        BY <3>3, <4>2
    <3>5. f[p] = f[r]
      BY <1>3, <2>6, <3>1
    <3>6. PICK b \in r..(n + 1) : b = f[r] /\ b \notin G /\ Skipped(r, b)
      BY <3>4
    <3>7. ASSUME NEW i \in p..(b - 1)
          PROVE  \/ Lex!Blank(i)
                 \/ \E j \in p..i : j < b - 1 /\ Lex!Comment(j) /\ Lex!Newlines(j, i + 1) = 0
      <4>1. CASE i < r
        <5>1. i \in p..(r - 1) /\ p \in p..i
          BY <4>1
        <5>2. r >= p + 2 => p < b - 1
          BY <3>6
        <5> QED
          BY <3>2, <5>1, <5>2
      <4>2. CASE ~ (i < r)
        <5>1. i \in r..(b - 1)
          BY <4>2
        <5>2. \A j \in r..i : j \in p..i
          BY <3>1
        <5> QED
          BY <3>6, <5>1, <5>2 DEF Skipped
      <4> QED
        BY <4>1, <4>2
    <3>8. Skipped(p, b)
      BY <3>7 DEF Skipped
    <3>9. b \in p..(n + 1)
      BY <3>1
    <3>10. Good(p)
      BY <3>5, <3>6, <3>8, <3>9
    <3> HIDE DEF Good
    <3> QED
      BY <2>3, <2>4, <3>10
  <2> QED
    BY <2>5, <2>6
<1>5. q \in 1..(n + 1) /\ n + 1 - q \in 0..n /\ n + 1 - (n + 1 - q) = q
  BY <1>1 DEF Lex!Positions
<1>6. Good(q)
  <2>1. n + 1 - q \notin S
    <3> HIDE DEF S
    <3> QED
      BY <1>4
  <2>2. Good(n + 1 - (n + 1 - q))
    <3> HIDE DEF Good
    <3> QED
      BY <1>5, <2>1
  <2> HIDE DEF Good
  <2> QED
    BY <1>5, <2>2
<1> QED
  BY <1>1, <1>2, <1>6

\* skipWhitespace ends at the first character of a token or at the end, and what
\* it passes over is blanks and comments.
LEMMA BegunIs ==
  ASSUME Len(source) \in Nat, current \in Lex!Positions
  PROVE  /\ Lex!Begun \in current..(Len(source) + 1)
         /\ ~ Lex!Blank(Lex!Begun) /\ Skipped(current, Lex!Begun)
<1>1. PICK n \in Nat : n = Len(source)
  OBVIOUS
<1>2. Lex!Positions = 1..(n + 1)
  BY <1>1 DEF Lex!Positions
<1> DEFINE O == [p \in Passing(n) |-> Leads(p)]
           Is(f) == f = [p \in Lex!Positions |-> IF Lex!Blank(p) THEN f[p + 1]
                                                 ELSE IF Lex!Comment(p) THEN f[Lex!EndOfLine(p)] ELSE p]
           w == CHOOSE f : Is(f)
<1>3. Lex!Begun = w[current]
  BY Zenon DEF Lex!Begun
<1>4. \A p \in 1..(n + 1) : Lex!Blank(p) \/ Lex!Comment(p) => p \in Passing(n)
  <2> SUFFICES ASSUME NEW p \in 1..(n + 1), Lex!Blank(p) \/ Lex!Comment(p)  PROVE p \in Passing(n)
    OBVIOUS
  <2>1. Lex!At(p) # ""
    BY DEF Lex!Blank, Lex!Comment
  <2>2. ~ (p > n)
    BY <1>1, <2>1 DEF Lex!At, Lex!Ending
  <2> QED
    BY <2>2 DEF Passing
<1>5. Onwards(n + 1, Passing(n), O)
  <2>1. Passing(n) \subseteq 1..((n + 1) - 1)
    BY DEF Passing
  <2>2. \A p \in Passing(n) : O[p] \in (p + 1)..(n + 1)
    BY <1>1, LeadsOn
  <2> QED
    BY <2>1, <2>2 DEF Onwards
<1>6. PICK g : Routes(g, n + 1, Passing(n), O, 1)
  <2> HIDE DEF O
  <2>1. n + 1 \in Nat \ {0}
    OBVIOUS
  <2> QED
    BY <1>5, <2>1, RouteExists
<1>7. \A p \in 1..(n + 1) : p \in Passing(n) <=> Lex!Blank(p) \/ Lex!Comment(p)
  BY <1>4 DEF Passing
<1>8. Is(g)
  <2>1. g = [p \in 1..(n + 1) |-> g[p]]
    BY <1>6 DEF Routes
  <2>2. \A p \in 1..(n + 1) : g[p] = IF Lex!Blank(p) THEN g[p + 1]
                                     ELSE IF Lex!Comment(p) THEN g[Lex!EndOfLine(p)] ELSE p
    BY <1>6, <1>7 DEF Routes, Leads
  <2> QED
    BY <1>2, <2>1, <2>2
<1>9. Is(w)
  <2> HIDE DEF Is
  <2> QED
    BY <1>8
<1>10. Follows(w, n + 1, Passing(n), O)
  <2> HIDE DEF w
  <2>1. \A p \in 1..(n + 1) : w[p] = IF Lex!Blank(p) THEN w[p + 1]
                                     ELSE IF Lex!Comment(p) THEN w[Lex!EndOfLine(p)] ELSE p
    BY <1>2, <1>9
  <2> QED
    BY <1>7, <2>1 DEF Leads, Follows
<1>11. w[current] \in current..(n + 1) /\ w[current] \notin Passing(n) /\ Skipped(current, w[current])
  <2>1. \A p \in Passing(n) : O[p] = Leads(p)
    OBVIOUS
  <2> HIDE DEF w, O
  <2> QED
    BY <1>1, <1>10, <2>1, ArrivesAtToken
<1> HIDE DEF w
<1>12. w[current] \in 1..(n + 1)
  BY <1>2, <1>11
<1> QED
  BY <1>1, <1>3, <1>7, <1>11, <1>12

Kinds == {"eof", "error", "identifier", "number", "string", "character"} \cup Seq(Chars)
Tokens == [type : Kinds, line : Nat, from : Nat, to : Nat]

\* The scanner has counted the lines up to where it is, and its last token ends there.
LexInv ==
  /\ source \in Seq(Chars) /\ current \in Lex!Positions /\ tokens \in Seq(Tokens)
  /\ row = 1 + Lex!Newlines(1, current)
  /\ IF tokens = <<>> THEN current = 1 ELSE tokens[Len(tokens)].to = current
  /\ Len(tokens) <= IF Lex!Done THEN current ELSE current - 1
  /\ Lex!NothingSkipped /\ Lex!LinesCounted

LEMMA SourceKept ==
  ASSUME source' = source
  PROVE  /\ Lex!Positions' = Lex!Positions
         /\ \A p : Lex!Blank(p)' = Lex!Blank(p) /\ Lex!Comment(p)' = Lex!Comment(p)
         /\ \A p, q : Lex!Newlines(p, q)' = Lex!Newlines(p, q)
<1>1. Lex!Positions' = Lex!Positions
  BY DEF Lex!Positions
<1>2. \A p : Lex!At(p)' = Lex!At(p)
  BY DEF Lex!At, Lex!Ending
<1>3. \A p : Lex!Blank(p)' = Lex!Blank(p) /\ Lex!Comment(p)' = Lex!Comment(p)
  BY <1>2 DEF Lex!Blank, Lex!Comment
<1>4. \A p, q : Lex!Newlines(p, q)' = Lex!Newlines(p, q)
  BY <1>2 DEF Lex!Newlines
<1> QED
  BY <1>1, <1>3, <1>4

\* Whatever the token, the next one is scanned from where it ends.
LEMMA EmitKeeps ==
  ASSUME LexInv, NEW type \in Kinds, NEW q, SameLine(Lex!Begun, q), Lex!Emit(type, q),
         ~ Lex!Done, type = "eof" \/ q # Lex!Begun
  PROVE  LexInv'
<1>1. PICK n \in Nat : n = Len(source)
  BY DEF LexInv
<1>2. PICK b \in Nat : /\ b = Lex!Begun /\ b \in current..(n + 1) /\ Skipped(current, b)
                       /\ current \in 1..(n + 1)
  <2>1. current \in 1..(n + 1)
    BY <1>1 DEF LexInv, Lex!Positions
  <2>2. Lex!Begun \in current..(Len(source) + 1) /\ Skipped(current, Lex!Begun)
    BY <1>1, BegunIs DEF LexInv
  <2> QED
    BY <1>1, <2>1, <2>2
<1>3. q \in b..(n + 1) /\ \A r \in b..(q - 1) : Lex!At(r) # "\n"
  BY <1>1, <1>2 DEF SameLine
<1>4. /\ Lex!Newlines(1, b) = Lex!Newlines(1, current) + Lex!Newlines(current, b)
      /\ Lex!Newlines(1, q) = Lex!Newlines(1, b) + Lex!Newlines(b, q)
      /\ Lex!Newlines(1, current) \in Nat /\ Lex!Newlines(current, b) \in Nat
  <2>1. 1 \in Nat /\ current \in Nat /\ q \in Nat /\ 1 <= current /\ current <= b /\ 1 <= b /\ b <= q
    BY <1>2, <1>3
  <2>2. Adding(1, current, b) /\ Adding(1, b, q)
    BY <2>1, NewlinesAdd
  <2> QED
    BY <2>2 DEF Adding
<1>5. Lex!Newlines(b, q) = 0
  <2>1. q \in Nat
    BY <1>3
  <2> QED
    BY <1>2, <1>3, <2>1, NoNewlines
<1>6. /\ source' = source /\ current' = q /\ row' = row + Lex!Newlines(current, b)
      /\ tokens' = Append(tokens, [type |-> type, line |-> row', from |-> b, to |-> q])
  BY <1>2 DEF Lex!Emit
<1>7. row' \in Nat /\ row' = 1 + Lex!Newlines(1, b) /\ row' = 1 + Lex!Newlines(1, q)
  <2>1. row = 1 + Lex!Newlines(1, current)
    BY DEF LexInv
  <2>2. PICK x, y \in Nat : x = Lex!Newlines(1, current) /\ y = Lex!Newlines(current, b)
    BY <1>4
  <2>3. Lex!Newlines(1, b) = x + y
    BY <1>4, <2>2
  <2>4. Lex!Newlines(1, q) = x + y
    BY <1>4, <1>5, <2>2, <2>3
  <2>5. row' = 1 + x + y
    BY <1>6, <2>1, <2>2
  <2> QED
    BY <2>3, <2>4, <2>5
<1>8. PICK t \in Tokens : t.type = type /\ t.line = row' /\ t.from = b /\ t.to = q /\ tokens' = Append(tokens, t)
  <2>1. [type |-> type, line |-> row', from |-> b, to |-> q] \in Tokens
    BY <1>2, <1>3, <1>7 DEF Tokens
  <2> QED
    BY <1>6, <2>1
<1>9. PICK k \in Nat : k = Len(tokens) /\ tokens \in Seq(Tokens)
  BY DEF LexInv
<1>10. /\ tokens' \in Seq(Tokens) /\ Len(tokens') = k + 1 /\ tokens'[k + 1] = t
       /\ tokens' # <<>> /\ \A i \in 1..k : tokens'[i] = tokens[i]
  BY <1>8, <1>9, AppendProperties
<1>11. Lex!Last' = t
  BY <1>10 DEF Lex!Last
<1>12. Lex!LinesCounted'
  BY <1>7, <1>8, <1>6, <1>11, SourceKept DEF Lex!LinesCounted
<1>13. (IF Len(tokens') = 1 THEN 1 ELSE tokens'[Len(tokens') - 1].to) = current
  <2>1. CASE k = 0
    <3>1. tokens = <<>>
      BY <1>9, <2>1, EmptySeq
    <3> QED
      BY <1>10, <2>1, <3>1 DEF LexInv
  <2>2. CASE k # 0
    <3>1. tokens # <<>> /\ k \in 1..k /\ k + 1 - 1 = k /\ k + 1 # 1
      BY <1>9, <2>2
    <3> QED
      BY <1>9, <1>10, <3>1 DEF LexInv
  <2> QED
    BY <2>1, <2>2
<1>14. Lex!NothingSkipped'
  BY <1>2, <1>6, <1>8, <1>11, <1>13, SourceKept DEF Lex!NothingSkipped, Skipped
<1>15. q \in Lex!Positions'
  BY <1>1, <1>2, <1>3, <1>6, SourceKept DEF Lex!Positions
<1>16. row' = 1 + Lex!Newlines(1, current)'
  BY <1>6, <1>7, SourceKept
<1>17. source' \in Seq(Chars)
  BY <1>6 DEF LexInv
<1>18. Len(tokens') <= IF Lex!Done' THEN current' ELSE current' - 1
  <2>1. k <= current - 1
    BY <1>9 DEF LexInv
  <2>2. CASE type = "eof"
    <3>1. Lex!Done'
      BY <1>8, <1>10, <2>2 DEF Lex!Done
    <3>2. k + 1 <= q
      BY <1>2, <1>3, <2>1
    <3> QED
      BY <1>6, <1>10, <3>1, <3>2
  <2>3. CASE type # "eof"
    <3>1. q # b
      BY <1>2, <2>3
    <3>2. k + 1 <= q - 1 /\ k + 1 <= q
      BY <1>2, <1>3, <2>1, <3>1
    <3> QED
      BY <1>6, <1>10, <3>2
  <2> QED
    BY <2>2, <2>3
<1> QED
  BY <1>6, <1>8, <1>10, <1>12, <1>14, <1>15, <1>16, <1>17, <1>18 DEF LexInv

LEMMA TextIs ==
  ASSUME source \in Seq(Chars), NEW p \in 1..Len(source), NEW q \in p..(Len(source) + 1)
  PROVE  Lex!Text(p, q) \in Kinds
<1>1. PICK n \in Nat : n = Len(source)
  OBVIOUS
<1> DEFINE e == IF q > n THEN n ELSE q - 1
<1>2. e \in Int /\ p \in Int /\ \A i \in p..e : i \in 1..n
  BY <1>1
<1>3. \A i \in 1..n : source[i] \in Chars
  BY <1>1
<1>4. SubSeq(source, p, e) \in Seq(Chars)
  <2> HIDE DEF e
  <2> QED
    BY <1>2, <1>3, SubSeqProperties
<1>5. Lex!Text(p, q) = SubSeq(source, p, e)
  BY <1>1 DEF Lex!Text
<1> HIDE DEF e
<1> QED
  BY <1>4, <1>5 DEF Kinds

LEMMA TokenBegins ==
  ASSUME LexInv
  PROVE  /\ Len(source) \in Nat /\ Lex!Begun \in Lex!Positions /\ ~ Lex!Blank(Lex!Begun)
         /\ Lex!Begun \in 1..(Len(source) + 1)
<1>1. PICK n \in Nat : n = Len(source)
  BY DEF LexInv
<1>2. current \in 1..(n + 1)
  BY <1>1 DEF LexInv, Lex!Positions
<1>3. Lex!Begun \in current..(n + 1) /\ ~ Lex!Blank(Lex!Begun)
  BY <1>1, BegunIs DEF LexInv
<1>4. Lex!Begun \in 1..(n + 1)
  BY <1>2, <1>3
<1> QED
  BY <1>1, <1>3, <1>4 DEF Lex!Positions

\* A character that is there has its place in the text.
There(p) == Lex!At(p) # ""

LEMMA CharacterThere ==
  ASSUME Len(source) \in Nat, NEW p \in Nat, p # 0, There(p)  PROVE p \in 1..Len(source)
<1>1. PICK n \in Nat : n = Len(source)
  OBVIOUS
<1>2. ~ (p > n)
  BY <1>1 DEF There, Lex!At, Lex!Ending
<1>3. p \in 1..n
  BY <1>2
<1> QED
  BY <1>1, <1>3

\* A loop that passes over no newline stays on the line.
LEMMA PastSameLine ==
  ASSUME Len(source) \in Nat, NEW p \in Lex!Positions, NEW C, "\n" \notin C
  PROVE  SameLine(p, Lex!Past(p, C))
<1> DEFINE Z == {r \in 1..Len(source) : Lex!At(r) \in C}
<1>1. Stops(Lex!Past(p, C), p, Len(source), Z)
  BY PastIs
<1>2. \A r \in Z : Lex!At(r) # "\n"
  OBVIOUS
<1> HIDE DEF Z
<1> QED
  BY <1>1, <1>2 DEF Stops, SameLine

LEMMA PastMoves ==
  ASSUME Len(source) \in Nat, NEW p \in 1..Len(source), NEW C, Lex!At(p) \in C
  PROVE  Lex!Past(p, C) # p
<1>1. PICK n \in Nat : n = Len(source)
  OBVIOUS
<1> DEFINE Z == {r \in 1..n : Lex!At(r) \in C}
<1>2. p \in Lex!Positions
  BY <1>1 DEF Lex!Positions
<1>3. Stops(Lex!Past(p, C), p, n, Z)
  BY <1>1, <1>2, PastIs
<1>4. p \in Z /\ ~ (p > n)
  BY <1>1
<1> HIDE DEF Z
<1> QED
  BY <1>3, <1>4 DEF Stops

LEMMA UntilSameLine ==
  ASSUME Len(source) \in Nat, NEW p \in Lex!Positions, NEW C, "\n" \in C
  PROVE  SameLine(p, Lex!Until(p, C))
<1> DEFINE Z == {r \in 1..Len(source) : Lex!At(r) \notin C}
<1>1. Stops(Lex!Until(p, C), p, Len(source), Z)
  BY UntilIs
<1>2. \A r \in Z : Lex!At(r) # "\n"
  OBVIOUS
<1> HIDE DEF Z
<1> QED
  BY <1>1, <1>2 DEF Stops, SameLine

\* One character more, if it is there and no newline.
Within(p) == There(p) /\ Lex!At(p) # "\n"

LEMMA OneMore ==
  ASSUME Len(source) \in Nat, NEW p \in Nat, p # 0, NEW q, SameLine(p, q), Within(q)
  PROVE  SameLine(p, q + 1) /\ q + 1 \in Lex!Positions
<1>1. PICK n \in Nat : n = Len(source)
  OBVIOUS
<1>2. PICK k \in p..(n + 1) : k = q
  BY <1>1 DEF SameLine
<1>3. \A r \in p..(k - 1) : Lex!At(r) # "\n"
  BY <1>2 DEF SameLine
<1>4. k \in 1..n
  <2>1. k \in Nat /\ k # 0
    OBVIOUS
  <2> QED
    BY <1>1, <1>2, <2>1, CharacterThere DEF Within
<1>5. \A r \in p..((k + 1) - 1) : r = k \/ r \in p..(k - 1)
  OBVIOUS
<1>6. k + 1 \in p..(n + 1) /\ k + 1 \in 1..(n + 1)
  BY <1>4
<1>7. \A r \in p..((k + 1) - 1) : Lex!At(r) # "\n"
  BY <1>2, <1>3, <1>5 DEF Within
<1> QED
  BY <1>1, <1>2, <1>6, <1>7 DEF SameLine, Lex!Positions

LEMMA Joined ==
  ASSUME Len(source) \in Nat, NEW p \in Nat, NEW q, NEW r, SameLine(p, q), SameLine(q, r)
  PROVE  SameLine(p, r)
<1>1. PICK n \in Nat : n = Len(source)
  OBVIOUS
<1>2. q \in p..(n + 1) /\ r \in q..(n + 1)
  BY <1>1 DEF SameLine
<1>3. \A i \in p..(r - 1) : i \in p..(q - 1) \/ i \in q..(r - 1)
  BY <1>2
<1>4. r \in p..(n + 1)
  BY <1>2
<1> QED
  BY <1>1, <1>3, <1>4 DEF SameLine

LEMMA SameLineThere ==
  ASSUME Len(source) \in Nat, NEW p \in Nat, p # 0, NEW q, SameLine(p, q)
  PROVE  q \in Nat /\ q # 0 /\ q \in Lex!Positions /\ q \in p..(Len(source) + 1)
<1>1. PICK n \in Nat : n = Len(source)
  OBVIOUS
<1>2. q \in p..(n + 1)
  BY <1>1 DEF SameLine
<1>3. q \in Nat /\ q # 0 /\ q \in 1..(n + 1)
  BY <1>2
<1> QED
  BY <1>1, <1>2, <1>3 DEF Lex!Positions

LEMMA LettersLine == "\n" \notin Lex!Letters \cup Lex!Digits /\ "" \notin Lex!Digits
  BY DEF Lex!Letters, Lex!Digits

LEMMA EndOfFileKeeps == ASSUME LexInv, ~ Lex!Done, Lex!EndOfFile  PROVE LexInv'
<1>1. PICK n \in Nat : n = Len(source)
  BY DEF LexInv
<1>2. PICK b \in 1..(n + 1) : b = Lex!Begun
  BY <1>1, TokenBegins
<1>3. b \in b..(n + 1) /\ \A r \in b..(b - 1) : Lex!At(r) # "\n"
  OBVIOUS
<1>4. SameLine(b, b)
  BY <1>1, <1>3 DEF SameLine
<1>5. "eof" \in Kinds /\ Lex!Emit("eof", b)
  BY <1>2 DEF Kinds, Lex!EndOfFile
<1> QED
  BY <1>2, <1>4, <1>5, EmitKeeps

LEMMA IdentifierKeeps == ASSUME LexInv, ~ Lex!Done, Lex!Identifier  PROVE LexInv'
<1>1. PICK n \in Nat : n = Len(source)
  BY DEF LexInv
<1>2. PICK b \in 1..(n + 1) : b = Lex!Begun /\ b \in Lex!Positions
  BY <1>1, TokenBegins
<1>3. PICK q : /\ q = Lex!Past(b, Lex!Letters \cup Lex!Digits)
               /\ Lex!Emit(Lex!IdentifierType(Lex!Text(b, q)), q)
  BY <1>2 DEF Lex!Identifier
<1>4. SameLine(b, q)
  BY <1>1, <1>2, <1>3, PastSameLine, LettersLine
<1>5. There(b)
  BY <1>2 DEF Lex!Identifier, Lex!isAlphaUnderline, Lex!Letters, There
<1>6. b \in 1..n /\ b \in Nat /\ b # 0
  <2>1. b \in Nat /\ b # 0
    OBVIOUS
  <2> QED
    BY <1>1, <1>5, <2>1, CharacterThere
<1>7. Lex!Text(b, q) \in Kinds
  BY <1>1, <1>4, <1>6, SameLineThere, TextIs DEF LexInv
<1>8. Lex!IdentifierType(Lex!Text(b, q)) \in Kinds
  <2>1. "identifier" \in Kinds
    BY DEF Kinds
  <2>2. PICK w \in Kinds : w = Lex!Text(b, q)
    BY <1>7
  <2>3. Lex!IdentifierType(w) = w \/ Lex!IdentifierType(w) = "identifier"
    BY Zenon DEF Lex!IdentifierType
  <2> QED
    BY <2>1, <2>2, <2>3
<1>9. q # b
  <2>1. Lex!At(b) \in Lex!Letters \cup Lex!Digits
    BY <1>2 DEF Lex!Identifier, Lex!isAlphaUnderline
  <2> QED
    BY <1>1, <1>3, <1>6, <2>1, PastMoves
<1> QED
  BY <1>2, <1>3, <1>4, <1>8, <1>9, EmitKeeps

LEMMA NumberKeeps == ASSUME LexInv, ~ Lex!Done, Lex!Number  PROVE LexInv'
<1>1. PICK n \in Nat : n = Len(source)
  BY DEF LexInv
<1>2. PICK b \in 1..(n + 1) : b = Lex!Begun /\ b \in Lex!Positions
  BY <1>1, TokenBegins
<1>3. PICK q : q = Lex!Past(b, Lex!Digits)
  OBVIOUS
<1>4. PICK e : /\ Lex!Emit("number", e)
               /\ e = IF Lex!At(q) = "." /\ Lex!isDigit(Lex!At(q + 1)) THEN Lex!Past(q + 1, Lex!Digits)
                      ELSE q
  BY <1>2, <1>3 DEF Lex!Number
<1>5. "\n" \notin Lex!Digits /\ b \in Nat /\ b # 0
  <2>1. b \in Nat /\ b # 0
    OBVIOUS
  <2> QED
    BY <2>1, LettersLine
<1>6. SameLine(b, q)
  BY <1>1, <1>2, <1>3, <1>5, PastSameLine
<1>7. SameLine(b, e) /\ (e = q \/ SameLine(q + 1, e))
  <2>1. CASE Lex!At(q) = "." /\ Lex!isDigit(Lex!At(q + 1))
    <3>1. Within(q)
      BY <2>1 DEF Within, There
    <3>2. SameLine(b, q + 1) /\ q + 1 \in Lex!Positions
      BY <1>1, <1>5, <1>6, <3>1, OneMore
    <3>3. SameLine(q + 1, e)
      BY <1>1, <1>4, <1>5, <2>1, <3>2, PastSameLine
    <3>4. b \in Nat
      OBVIOUS
    <3> QED
      BY <1>1, <3>2, <3>3, <3>4, Joined
  <2>2. CASE ~ (Lex!At(q) = "." /\ Lex!isDigit(Lex!At(q + 1)))
    BY <1>4, <1>6, <2>2
  <2> QED
    BY <2>1, <2>2
<1>8. "number" \in Kinds
  BY DEF Kinds
<1>9. q # b
  <2>1. Lex!At(b) \in Lex!Digits
    BY <1>2 DEF Lex!Number, Lex!isDigit
  <2>2. There(b)
    BY <2>1, LettersLine DEF There
  <2>3. b \in 1..n
    BY <1>1, <1>5, <2>2, CharacterThere
  <2> QED
    BY <1>1, <1>3, <2>1, <2>3, PastMoves
<1>10. e # b
  <2>1. CASE e = q
    BY <1>9, <2>1
  <2>2. CASE e # q
    <3>1. SameLine(q + 1, e)
      BY <1>4, <1>7, <2>2
    <3>2. q \in b..(n + 1) /\ e \in (q + 1)..(n + 1)
      BY <1>1, <1>6, <3>1 DEF SameLine
    <3> QED
      BY <3>2
  <2> QED
    BY <2>1, <2>2
<1> QED
  BY <1>2, <1>4, <1>7, <1>8, <1>10, EmitKeeps

LEMMA PunctuationKeeps == ASSUME LexInv, ~ Lex!Done, Lex!Punctuation  PROVE LexInv'
<1>1. PICK n \in Nat : n = Len(source)
  BY DEF LexInv
<1>2. PICK b \in 1..(n + 1) : b = Lex!Begun /\ b \in Lex!Positions
  BY <1>1, TokenBegins
<1>3. b \in Nat /\ b # 0 /\ \A r \in b..(b - 1) : FALSE
  OBVIOUS
<1>4. SameLine(b, b)
  BY <1>1, <1>3 DEF SameLine
<1>5. CASE Lex!At(b) \in Lex!Singles /\ Lex!Emit(Lex!At(b), b + 1)
  <2>1. Within(b)
    BY <1>5 DEF Within, There, Lex!Singles
  <2>2. SameLine(b, b + 1) /\ b \in 1..n
    BY <1>1, <1>3, <1>4, <2>1, OneMore, CharacterThere DEF Within
  <2>3. Lex!At(b) = Lex!Text(b, b + 1)
    <3>1. ~ (b > n) /\ b + 1 - 1 = b /\ (b + 1 > n => b = n)
      BY <2>2
    <3> QED
      BY <1>1, <3>1 DEF Lex!At, Lex!Text, Lex!Ending
  <2>4. Lex!Text(b, b + 1) \in Kinds
    <3>1. b + 1 \in b..(n + 1)
      BY <2>2
    <3> QED
      BY <1>1, <2>2, <3>1, TextIs DEF LexInv
  <2>5. b + 1 # b
    OBVIOUS
  <2> QED
    BY <1>2, <1>5, <2>2, <2>3, <2>4, <2>5, EmitKeeps
<1>6. CASE /\ Lex!At(b) \in DOMAIN Lex!Match
           /\ \E q : /\ q = IF Lex!At(b + 1) \in Lex!Match[Lex!At(b)] THEN b + 2 ELSE b + 1
                     /\ Lex!Emit(Lex!Text(b, q), q)
  <2>1. PICK q : /\ q = IF Lex!At(b + 1) \in Lex!Match[Lex!At(b)] THEN b + 2 ELSE b + 1
                 /\ Lex!Emit(Lex!Text(b, q), q)
    BY <1>6
  <2>2. Within(b)
    BY <1>6 DEF Within, There, Lex!Match
  <2>3. SameLine(b, b + 1) /\ b \in 1..n
    BY <1>1, <1>3, <1>4, <2>2, OneMore, CharacterThere DEF Within
  <2>4. SameLine(b, q)
    <3>1. CASE Lex!At(b + 1) \in Lex!Match[Lex!At(b)]
      <4>1. Lex!Match[Lex!At(b)] \subseteq {"+", "-", "&", "|", "<", ">", "="}
        BY <1>6 DEF Lex!Match
      <4>2. Within(b + 1)
        BY <3>1, <4>1 DEF Within, There
      <4>3. q = b + 1 + 1
        BY <2>1, <3>1
      <4> QED
        BY <1>1, <1>3, <2>3, <4>2, <4>3, OneMore
    <3>2. CASE ~ (Lex!At(b + 1) \in Lex!Match[Lex!At(b)])
      BY <2>1, <2>3, <3>2
    <3> QED
      BY <3>1, <3>2
  <2>5. Lex!Text(b, q) \in Kinds
    BY <1>1, <1>3, <2>3, <2>4, SameLineThere, TextIs DEF LexInv
  <2>6. q # b
    <3>1. q = b + 2 \/ q = b + 1
      BY <2>1
    <3> QED
      BY <3>1
  <2> QED
    BY <1>2, <2>1, <2>4, <2>5, <2>6, EmitKeeps
<1> QED
  BY <1>2, <1>5, <1>6, Zenon DEF Lex!Punctuation

LEMMA StringLiteralKeeps == ASSUME LexInv, ~ Lex!Done, Lex!StringLiteral  PROVE LexInv'
<1>1. PICK n \in Nat : n = Len(source)
  BY DEF LexInv
<1>2. PICK b \in 1..(n + 1) : b = Lex!Begun /\ b \in Lex!Positions
  BY <1>1, TokenBegins
<1>3. b \in Nat /\ b # 0 /\ \A r \in b..(b - 1) : FALSE
  OBVIOUS
<1>4. SameLine(b, b)
  BY <1>1, <1>3 DEF SameLine
<1>5. Within(b)
  BY <1>2 DEF Within, There, Lex!StringLiteral
<1>6. SameLine(b, b + 1) /\ b + 1 \in Lex!Positions
  BY <1>1, <1>3, <1>4, <1>5, OneMore
<1>7. PICK q : q = Lex!Until(b + 1, {"\"", "\n"})
  OBVIOUS
<1>8. SameLine(b, q) /\ q # b /\ q + 1 # b
  <2>1. SameLine(b + 1, q)
    BY <1>1, <1>6, <1>7, UntilSameLine
  <2>2. SameLine(b, q)
    BY <1>1, <1>3, <1>6, <2>1, Joined
  <2>3. q \in (b + 1)..(n + 1)
    BY <1>1, <2>1 DEF SameLine
  <2>4. q # b /\ q + 1 # b
    BY <2>3
  <2> QED
    BY <2>2, <2>4
<1>9. IF Lex!At(q) = "\"" THEN Lex!Emit("string", q + 1) ELSE Lex!Emit("error", q)
  BY <1>2, <1>7 DEF Lex!StringLiteral
<1>10. CASE Lex!At(q) = "\""
  <2>1. Within(q)
    BY <1>10 DEF Within, There
  <2>2. SameLine(b, q + 1)
    BY <1>1, <1>3, <1>8, <2>1, OneMore
  <2>3. "string" \in Kinds
    BY DEF Kinds
  <2> QED
    BY <1>2, <1>8, <1>9, <1>10, <2>2, <2>3, EmitKeeps
<1>11. CASE Lex!At(q) # "\""
  <2>1. "error" \in Kinds
    BY DEF Kinds
  <2> QED
    BY <1>2, <1>8, <1>9, <1>11, <2>1, EmitKeeps
<1> QED
  BY <1>10, <1>11

LEMMA CharacterLiteralKeeps == ASSUME LexInv, ~ Lex!Done, Lex!CharacterLiteral  PROVE LexInv'
<1>1. PICK n \in Nat : n = Len(source)
  BY DEF LexInv
<1>2. PICK b \in 1..(n + 1) : b = Lex!Begun /\ b \in Lex!Positions
  BY <1>1, TokenBegins
<1>3. b \in Nat /\ b # 0 /\ \A r \in b..(b - 1) : FALSE
  OBVIOUS
<1>4. SameLine(b, b)
  BY <1>1, <1>3 DEF SameLine
<1>5. Within(b)
  BY <1>2 DEF Within, There, Lex!CharacterLiteral
<1>6. SameLine(b, b + 1) /\ b + 1 \in Lex!Positions
  BY <1>1, <1>3, <1>4, <1>5, OneMore
<1>7. PICK q : q = Lex!Until(b + 1, {"'", "\n"})
  OBVIOUS
<1>8. SameLine(b, q) /\ q # b /\ q + 1 # b
  <2>1. SameLine(b + 1, q)
    BY <1>1, <1>6, <1>7, UntilSameLine
  <2>2. SameLine(b, q)
    BY <1>1, <1>3, <1>6, <2>1, Joined
  <2>3. q \in (b + 1)..(n + 1)
    BY <1>1, <2>1 DEF SameLine
  <2>4. q # b /\ q + 1 # b
    BY <2>3
  <2> QED
    BY <2>2, <2>4
<1>9. IF Lex!At(q) # "'" THEN Lex!Emit("error", q)
      ELSE \E type \in {"character", "error"} : Lex!Emit(type, q + 1)
  BY <1>2, <1>7 DEF Lex!CharacterLiteral
<1>10. {"character", "error"} \subseteq Kinds
  BY DEF Kinds
<1>11. CASE Lex!At(q) = "'"
  <2>1. Within(q)
    BY <1>11 DEF Within, There
  <2>2. SameLine(b, q + 1)
    BY <1>1, <1>3, <1>8, <2>1, OneMore
  <2>3. PICK type \in {"character", "error"} : Lex!Emit(type, q + 1)
    BY <1>9, <1>11
  <2> QED
    BY <1>2, <1>8, <1>10, <2>2, <2>3, EmitKeeps
<1>12. CASE Lex!At(q) # "'"
  BY <1>2, <1>8, <1>9, <1>10, <1>12, EmitKeeps
<1> QED
  BY <1>11, <1>12

LEMMA UnexpectedKeeps == ASSUME LexInv, ~ Lex!Done, Lex!Unexpected  PROVE LexInv'
<1>1. PICK n \in Nat : n = Len(source)
  BY DEF LexInv
<1>2. PICK b \in 1..(n + 1) : b = Lex!Begun /\ ~ Lex!Blank(b)
  BY <1>1, TokenBegins
<1>3. Lex!At(b) # "\n"
  BY <1>2 DEF Lex!Blank
<1>4. b \in 1..n
  <2>1. ~ (b > n)
    BY <1>1, <1>2 DEF Lex!Unexpected, Lex!Ending
  <2> QED
    BY <2>1
<1>5. b + 1 \in b..(n + 1) /\ \A r \in b..((b + 1) - 1) : r = b
  BY <1>4
<1>6. SameLine(b, b + 1)
  BY <1>1, <1>3, <1>5 DEF SameLine
<1>7. "error" \in Kinds /\ Lex!Emit("error", b + 1)
  BY <1>2 DEF Kinds, Lex!Unexpected
<1>8. b + 1 # b
  OBVIOUS
<1> QED
  BY <1>2, <1>6, <1>7, <1>8, EmitKeeps

\* A token is on the line on which it begins, between two tokens there are blanks
\* and comments only, and there are no more tokens than characters, apart from the
\* end: for texts of any length and any characters.
THEOREM TokensInPlaceAlways ==
  ASSUME Sources \subseteq Seq(Chars)
  PROVE  Lex!Spec => [](Lex!NothingSkipped /\ Lex!LinesCounted /\ Lex!Advances)
<1>1. Lex!Init => LexInv
  <2> SUFFICES ASSUME Lex!Init  PROVE LexInv
    OBVIOUS
  <2>1. source \in Seq(Chars) /\ current = 1 /\ row = 1 /\ tokens = <<>>
    BY DEF Lex!Init
  <2>2. current \in Lex!Positions
    <3>1. PICK n \in Nat : n = Len(source)
      BY <2>1
    <3>2. 1 \in 1..(n + 1)
      OBVIOUS
    <3> QED
      BY <2>1, <3>1, <3>2 DEF Lex!Positions
  <2>3. Lex!Newlines(1, current) = 0
    <3>1. \A i \in 1..(1 - 1) : FALSE
      OBVIOUS
    <3> QED
      BY <2>1, <3>1, NoNewlines
  <2>4. tokens \in Seq(Tokens)
    BY <2>1, EmptySeq
  <2>5. Len(tokens) <= IF Lex!Done THEN current ELSE current - 1
    <3>1. Len(tokens) = 0 /\ ~ Lex!Done
      BY <2>1 DEF Lex!Done
    <3> QED
      BY <2>1, <3>1
  <2> QED
    BY <2>1, <2>2, <2>3, <2>4, <2>5 DEF LexInv, Lex!NothingSkipped, Lex!LinesCounted
<1>2. LexInv /\ [Lex!Next]_(Lex!vars) => LexInv'
  <2> SUFFICES ASSUME LexInv, [Lex!Next]_(Lex!vars)  PROVE LexInv'
    OBVIOUS
  <2>1. CASE Lex!Next
    BY <2>1, EndOfFileKeeps, IdentifierKeeps, NumberKeeps, PunctuationKeeps, StringLiteralKeeps,
       CharacterLiteralKeeps, UnexpectedKeeps DEF Lex!Next, Lex!ScanToken
  <2>2. CASE UNCHANGED Lex!vars
    <3>1. source' = source /\ current' = current /\ row' = row /\ tokens' = tokens
      BY <2>2 DEF Lex!vars
    <3>2. Lex!Last' = Lex!Last
      BY <3>1 DEF Lex!Last
    <3>3. Lex!NothingSkipped'
      BY <3>1, <3>2, SourceKept DEF LexInv, Lex!NothingSkipped
    <3>4. Lex!LinesCounted'
      BY <3>1, <3>2, SourceKept DEF LexInv, Lex!LinesCounted
    <3>5. row' = 1 + Lex!Newlines(1, current)' /\ current' \in Lex!Positions'
      BY <3>1, SourceKept DEF LexInv
    <3>6. Lex!Done' = Lex!Done
      BY <3>1 DEF Lex!Done
    <3> QED
      BY <3>1, <3>3, <3>4, <3>5, <3>6 DEF LexInv
  <2> QED
    BY <2>1, <2>2
<1>3. LexInv => Lex!NothingSkipped /\ Lex!LinesCounted /\ Lex!Advances
  <2> SUFFICES ASSUME LexInv  PROVE Lex!NothingSkipped /\ Lex!LinesCounted /\ Lex!Advances
    OBVIOUS
  <2>1. PICK n, k \in Nat : n = Len(source) /\ k = Len(tokens)
    BY DEF LexInv
  <2>2. current \in 1..(n + 1)
    BY <2>1 DEF LexInv, Lex!Positions
  <2>3. k <= current \/ k <= current - 1
    BY <2>1 DEF LexInv
  <2>4. k <= n + 1
    BY <2>2, <2>3
  <2> QED
    BY <2>1, <2>4 DEF LexInv, Lex!Advances
<1> QED
  BY <1>1, <1>2, <1>3, PTL DEF Lex!Spec

-----------------------------------------------------------------------------
(* FileServer.                                                             *)

At(l) == {w \in Workers : worker[w] = l}

Types ==
  /\ queue \in Seq(Clients)
  /\ worker \in [Workers -> {"ready", "waiting", "serving", "gone"}]

\* Nobody sleeps once the server is told to end, nor ever if exit_flag was not 0 in
\* the first place.
NobodySleepsAtExit == exit_flag # 0 => At("waiting") = {}

IInv == Types /\ NobodySleepsAtExit /\ NoneWaitsBesideClients

\* A worker that comes to the lock is counted, one that leaves it is not.
LEMMA Arrives ==
  ASSUME IsFiniteSet(Workers), Types, NEW w \in Workers, worker[w] # "ready",
         worker' = [worker EXCEPT ![w] = "ready"]
  PROVE  /\ Cardinality(At("ready")) \in Nat
         /\ Cardinality(At("ready")') = Cardinality(At("ready")) + 1
<1>1. IsFiniteSet(At("ready"))
  BY FS_Subset DEF At
<1>2. At("ready")' = At("ready") \cup {w} /\ w \notin At("ready")
  BY DEF At, Types
<1> QED
  BY <1>1, <1>2, FS_AddElement, FS_CardinalityType

LEMMA Departs ==
  ASSUME IsFiniteSet(Workers), Types, NEW w \in Workers, worker[w] = "ready",
         NEW l \in {"waiting", "serving", "gone"}, worker' = [worker EXCEPT ![w] = l]
  PROVE  /\ Cardinality(At("ready")) \in Nat
         /\ Cardinality(At("ready")') = Cardinality(At("ready")) - 1
<1>1. IsFiniteSet(At("ready"))
  BY FS_Subset DEF At
<1>2. At("ready")' = At("ready") \ {w} /\ w \in At("ready")
  BY DEF At, Types
<1> QED
  BY <1>1, <1>2, FS_RemoveElement, FS_CardinalityType

\* The property in terms of At.
LEMMA CountedAt ==
  NoneWaitsBesideClients <=> (At("waiting") # {} => Len(queue) <= Cardinality(At("ready")))
  BY DEF NoneWaitsBesideClients, At

LEMMA QueueLength ==
  ASSUME Types
  PROVE  /\ Len(queue) \in Nat
         /\ \A c \in Clients : /\ Append(queue, c) \in Seq(Clients)
                               /\ Len(Append(queue, c)) = Len(queue) + 1
         /\ queue # <<>> => Tail(queue) \in Seq(Clients) /\ Len(Tail(queue)) = Len(queue) - 1
  BY DEF Types

\* One client more in the queue, and one worker more on its way, if any waited.
LEMMA AcceptIInv ==
  ASSUME IsFiniteSet(Workers), IInv, NEW c \in Clients, Accept(c)  PROVE IInv'
<1>1. Types /\ (At("waiting") # {} => Len(queue) <= Cardinality(At("ready")))
  BY CountedAt DEF IInv
<1>2. queue' \in Seq(Clients) /\ Len(queue) \in Nat /\ Len(queue') = Len(queue) + 1
  BY <1>1, QueueLength DEF Accept
<1>3. ASSUME NEW w \in Workers, worker[w] = "waiting", worker' = [worker EXCEPT ![w] = "ready"]
      PROVE  Types' /\ (At("waiting") # {} => Len(queue) <= Cardinality(At("ready")))'
  <2>1. /\ Cardinality(At("ready")) \in Nat
        /\ Cardinality(At("ready")') = Cardinality(At("ready")) + 1
    BY <1>1, <1>3, Arrives
  <2>2. At("waiting") # {}
    BY <1>3 DEF At
  <2>3. Len(queue') <= Cardinality(At("ready")')
    BY <1>1, <1>2, <2>1, <2>2
  <2>4. Types'
    BY <1>1, <1>2, <1>3 DEF Types
  <2> QED
    BY <2>3, <2>4
<1>4. ASSUME \A w \in Workers : worker[w] # "waiting", UNCHANGED worker
      PROVE  Types' /\ (At("waiting") # {} => Len(queue) <= Cardinality(At("ready")))'
  BY <1>1, <1>2, <1>4 DEF Types, At
<1>5. Types' /\ (At("waiting") # {} => Len(queue) <= Cardinality(At("ready")))'
  BY <1>3, <1>4 DEF Accept, Signal
<1>6. NobodySleepsAtExit'
  BY <1>1 DEF IInv, NobodySleepsAtExit, Accept, Signal, At, Types
<1> QED
  BY <1>5, <1>6 DEF IInv, NoneWaitsBesideClients, At

\* A worker that finds nothing waits, one that finds a client takes it.
LEMMA WorkerIInv ==
  ASSUME IsFiniteSet(Workers), IInv, NEW w \in Workers, Step(w) \/ SpuriousWakeup(w)
  PROVE  IInv'
<1>1. Types /\ (At("waiting") # {} => Len(queue) <= Cardinality(At("ready")))
  BY CountedAt DEF IInv
<1>2. /\ Len(queue) \in Nat
      /\ queue # <<>> => Tail(queue) \in Seq(Clients) /\ Len(Tail(queue)) = Len(queue) - 1
  BY <1>1, QueueLength
<1>3. IsFiniteSet(At("ready")') /\ Cardinality(At("ready")') \in Nat
  <2>1. IsFiniteSet(At("ready")')
    BY FS_Subset DEF At
  <2> QED
    BY <2>1, FS_CardinalityType
<1>4. Types' /\ (At("waiting") # {} => Len(queue) <= Cardinality(At("ready")))'
  <2>1. CASE Wait(w)
    <3>1. Len(queue') = 0 /\ Types'
      BY <1>1, <2>1 DEF Wait, Types
    <3> QED
      BY <1>3, <3>1
  <2>2. CASE Take(w)
    <3>1. /\ Cardinality(At("ready")) \in Nat
          /\ Cardinality(At("ready")') = Cardinality(At("ready")) - 1
      BY <1>1, <2>2, Departs DEF Take
    <3>2. At("waiting")' \subseteq At("waiting") /\ Types'
      BY <1>1, <1>2, <2>2 DEF Take, At, Types
    \* An empty queue is only taken from when nobody waits.
    <3>3. queue = <<>> => At("waiting")' = {}
      BY <2>2, <3>2 DEF Take, IInv, NobodySleepsAtExit
    <3> QED
      BY <1>1, <1>2, <2>2, <3>1, <3>2, <3>3 DEF Take
  <2>3. CASE SpuriousWakeup(w) \/ SendFile(w)
    <3>1. /\ worker[w] # "ready" /\ worker' = [worker EXCEPT ![w] = "ready"]
          /\ queue' = queue
      BY <2>3 DEF SpuriousWakeup, SendFile
    <3>2. /\ Cardinality(At("ready")) \in Nat
          /\ Cardinality(At("ready")') = Cardinality(At("ready")) + 1
      BY <1>1, <3>1, Arrives
    <3>3. At("waiting")' \subseteq At("waiting") /\ Types'
      BY <1>1, <3>1 DEF At, Types
    <3> QED
      BY <1>1, <1>2, <3>1, <3>2, <3>3
  <2>4. CASE Refuse(w)
    <3>1. At("waiting")' = At("waiting") /\ At("ready")' = At("ready") /\ Types' /\ queue' = queue
      BY <1>1, <2>4 DEF Refuse, At, Types
    <3> QED
      BY <1>1, <3>1
  <2>5. CASE Leave(w)
    <3>1. At("waiting")' = {} /\ Types'
      BY <1>1, <2>5 DEF Leave, IInv, NobodySleepsAtExit, At, Types
    <3> QED
      BY <3>1
  <2> QED
    BY <2>1, <2>2, <2>3, <2>4, <2>5 DEF Step, AtLock, Session
<1>5. NobodySleepsAtExit'
  BY <1>1 DEF IInv, NobodySleepsAtExit, Step, AtLock, Session, Wait, Leave, Take, SendFile, Refuse,
              SpuriousWakeup, At, Types
<1> QED
  BY <1>4, <1>5 DEF IInv, NoneWaitsBesideClients, At

LEMMA NextIInv ==
  ASSUME IsFiniteSet(Workers), IInv, [Next]_vars  PROVE IInv'
<1>1. CASE Interrupt
  <2>1. At("waiting")' = {}
    BY <1>1 DEF Interrupt, IInv, Types, At
  <2>2. Types'
    BY <1>1 DEF Interrupt, IInv, Types
  <2> QED
    BY <2>1, <2>2 DEF IInv, NobodySleepsAtExit, NoneWaitsBesideClients, At
<1>2. ASSUME UNCHANGED <<queue, worker, exit_flag>>  PROVE IInv'
  <2>1. Types' /\ NobodySleepsAtExit'
    BY <1>2 DEF IInv, Types, NobodySleepsAtExit, At
  <2>2. At("waiting")' = At("waiting") /\ At("ready")' = At("ready")
    BY <1>2 DEF At
  <2>3. (At("waiting") # {} => Len(queue) <= Cardinality(At("ready")))'
    BY <1>2, <2>2, CountedAt DEF IInv
  <2> QED
    BY <2>1, <2>3 DEF IInv, NoneWaitsBesideClients, At
<1>3. CASE Join \/ UNCHANGED vars
  BY <1>2, <1>3 DEF Join, vars
<1>4. ASSUME NEW c \in Clients, Ask(c)  PROVE IInv'
  BY <1>2, <1>4 DEF Ask
<1> QED
  BY <1>1, <1>3, <1>4, AcceptIInv, WorkerIInv DEF Next

LEMMA SpecIInv == ASSUME IsFiniteSet(Workers)  PROVE Spec => []IInv
<1>1. Init => IInv
  BY DEF Init, IInv, Types, NobodySleepsAtExit, NoneWaitsBesideClients, At
<1> QED
  BY <1>1, NextIInv, PTL DEF Spec

\* A signal per client is enough: while a worker waits, every client of the queue
\* has a worker on its way, although another may take it first, a request of an
\* unknown type ends its worker and exit_flag starts as anything (main.c:68-73,
\* worker.c:10-18, send_file.c:13-18, thread_pool.c:4-16).
THEOREM NoneWaitsBesideClientsAlways ==
  ASSUME IsFiniteSet(Workers)  PROVE Spec => []NoneWaitsBesideClients
  BY SpecIInv, PTL DEF IInv

\* Nobody misses the end of the server, whatever exit_flag was before (main.c:56-61,
\* worker.c:8-19).
THEOREM NobodySleepsAtExitAlways ==
  ASSUME IsFiniteSet(Workers)  PROVE Spec => []NobodySleepsAtExit
  BY SpecIInv, PTL DEF IInv
==============================================================================
