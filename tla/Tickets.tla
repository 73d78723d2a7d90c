------------------------------- MODULE Tickets -------------------------------
(***************************************************************************)
(* The two programs 0005: a thread sells tickets, another supplies more    *)
(* once, when few are left.  In the variant "mutex" both poll, in          *)
(* "condition" they wait for each other on one condition variable.  What a *)
(* thread does between locking and unlocking, or waiting, is one step.     *)
(***************************************************************************)
EXTENDS Naturals

CONSTANTS Initial,   \* 20 in the programs
          Low,       \* 5
          Supplied   \* 10

VARIABLES world,     \* the variant, and whether pthread_cond_wait may return early
          tickets,   \* ticket_num
          flag,      \* 1 once tickets were supplied
          seller,    \* selling, waiting or done
          supplier,  \* start, waiting, woken or done
          sold       \* history: tickets sold

vars == <<world, tickets, flag, seller, supplier, sold>>

Init ==
  /\ world \in [variant : {"mutex", "condition"}, spurious : BOOLEAN]
  /\ tickets = Initial /\ flag = 0 /\ sold = 0
  /\ seller = "selling" /\ supplier = "start"

\* The seller's pthread_cond_signal.
Signal == supplier' = IF supplier = "waiting" THEN "woken" ELSE supplier

\* Everything is sold and tickets were supplied.
SellerEnds ==
  /\ seller = "selling" /\ tickets = 0 /\ flag = 1
  /\ seller' = "done"
  /\ UNCHANGED <<world, tickets, flag, supplier, sold>>

\* The test behind the sale: few are left and none were supplied.
FewLeft(left) == left <= Low /\ flag = 0

\* A customer buys or does not; in the second program the seller then wakes the
\* supplier and waits for it.
Sell ==
  /\ seller = "selling" /\ ~(tickets = 0 /\ flag = 1)
  /\ \E n \in {0, 1} \cap 0..tickets :
       /\ tickets' = tickets - n /\ sold' = sold + n
       /\ IF world.variant = "condition" /\ FewLeft(tickets - n)
          THEN seller' = "waiting" /\ Signal
          ELSE UNCHANGED <<seller, supplier>>
  /\ UNCHANGED <<world, flag>>

\* Mutant: the seller is not woken.
SupplySilently ==
  /\ tickets' = tickets + Supplied /\ flag' = 1 /\ supplier' = "done"
  /\ UNCHANGED <<world, seller, sold>>

\* The supply itself, and the signal to a seller who waits.
Supply ==
  /\ tickets' = tickets + Supplied /\ flag' = 1 /\ supplier' = "done"
  /\ seller' = IF seller = "waiting" THEN "selling" ELSE seller
  /\ UNCHANGED <<world, sold>>

\* Too many are left: the second program waits, once; the first tries again.
SupplierWaits ==
  /\ world.variant = "condition" /\ supplier = "start" /\ tickets > Low
  /\ supplier' = "waiting"
  /\ UNCHANGED <<world, tickets, flag, seller, sold>>

SupplierArrives == supplier = "start" /\ tickets <= Low /\ Supply

\* The wait stands under if: whoever returns from it supplies.
SupplierWoken == supplier = "woken" /\ Supply

SpuriousWakeup ==
  /\ world.spurious
  /\ \/ seller = "waiting" /\ seller' = "selling" /\ UNCHANGED supplier
     \/ supplier = "waiting" /\ supplier' = "woken" /\ UNCHANGED seller
  /\ UNCHANGED <<world, tickets, flag, sold>>

Supplier == SupplierWaits \/ SupplierArrives \/ SupplierWoken

Next == SellerEnds \/ Sell \/ Supplier \/ SpuriousWakeup

\* The random number is below 0.1 sooner or later: a customer who is asked for
\* ever buys.
Buy == Sell /\ sold' # sold

\* Of the threads at the mutex some one gets it, no matter which: no mutex promises
\* more.  With the condition variable that is enough for both, since each waits
\* while the other is due; of the threads that poll nothing more is assumed.
Waits == world.variant = "condition"
Spec ==
  /\ Init /\ [][Next]_vars
  /\ WF_vars(Waits /\ (SellerEnds \/ Sell \/ Supplier)) /\ SF_vars(Waits /\ Buy)

-----------------------------------------------------------------------------

\* While the seller waits, the supplier has not arrived or is on its way: with one
\* condition variable and signals that nobody may be waiting for, they never
\* wait for each other (2.条件变量/main.c:34-37, 51-59).
SellerIsAnswered == seller = "waiting" => supplier \in {"start", "woken"}

\* The seller stops when everything was sold, the supply included
\* (2.条件变量/main.c:18-21, 1.纯互斥锁/main.c:18-22).
SoldOut == seller = "done" => sold = Initial + Supplied

\* Tickets are supplied when few are left, if no wait returns without a signal
\* (2.条件变量/main.c:51-58, where the comment has the supplier wait until the
\* condition holds).
SupplyWhenLow == flag' # flag => tickets <= Low \/ world.spurious
SuppliesWhenLow == [][SupplyWhenLow]_vars

\* With the condition variable both threads end, and everything was sold, unless the
\* seller's wait returns unasked for ever (2.条件变量/main.c:34-37, 77-78).  Without
\* it the seller may keep the mutex for itself and neither ever ends.
Ended == seller = "done" /\ supplier = "done" /\ SoldOut
NotYet == Waits /\ ~Ended
BothEnd == (NotYet ~> ~NotYet) \/ []<><<SpuriousWakeup>>_vars
=============================================================================
