------------------------------ MODULE TimeWheel ------------------------------
(***************************************************************************)
(* The timing wheel that disconnects idle clients                          *)
(* (server/timewheel.c).  A ring of slots, each a chain of nodes; fd_map   *)
(* finds the node of a descriptor; current walks round the ring, one slot  *)
(* per interval, and whatever it meets is disconnected.  An activity puts  *)
(* the node into the slot current reaches last.                            *)
(*                                                                         *)
(* Every operation holds tw->mutex from its first to its last read or      *)
(* write, so it is one action here; time_wheel_add gives the mutex up in   *)
(* the middle and is two.  The callers are left completely free: any       *)
(* operation on any descriptor at any time, as the main thread and the     *)
(* workers of ConnServer together may ask for them.                        *)
(*                                                                         *)
(* time() and tw->last only ever meet in their difference, so the model    *)
(* keeps the difference (elapsed) and needs no bound on time itself.       *)
(***************************************************************************)
EXTENDS Integers

CONSTANTS Fd,        \* descriptors clients may have
          Slots,     \* tw->slots
          Interval,  \* tw->interval, in seconds
          MaxLag     \* the longest the clock gets ahead of tw->last, in seconds:
                     \* the time between two iterations of the main loop

ASSUME SlotsAssumption    == Slots \in Nat /\ Slots > 1
ASSUME IntervalAssumption == Interval \in Nat \ {0}
ASSUME MaxLagAssumption   == MaxLag \in Nat /\ MaxLag >= Interval

VARIABLES
  table,    \* the descriptors of the nodes chained in each slot
  fd_map,   \* node->index of the descriptor's node, NULL if it has none
  current,  \* the slot the wheel stands at
  elapsed,  \* now - tw->last
  adding,   \* the descriptor time_wheel_add found in the map, between the
            \* unlock and the call of time_wheel_refresh; NULL otherwise
  idle      \* seconds since the descriptor was last added or refreshed
            \* (0 when not tracked): what the wheel is to measure

vars == <<table, fd_map, current, elapsed, adding, idle>>

Slot == 0..(Slots - 1)
NULL == -1
ASSUME FdAssumption == NULL \notin Fd

Tracked == {fd \in Fd : fd_map[fd] # NULL}

TypeOK == /\ table \in [Slot -> SUBSET Fd]
          /\ fd_map \in [Fd -> Slot \cup {NULL}]
          /\ current \in Slot
          /\ elapsed \in 0..MaxLag
          /\ adding \in Fd \cup {NULL}
          /\ idle \in [Fd -> Nat]

------------------------------------------------------------------------------
(* The helpers of timewheel.c.                                             *)

\* Mutants: one slot short of the full turn; the current slot itself.
OneSlotShort == (current + Slots - 2) % Slots
AtCurrent == current

get_full_timeout_slot == (current + Slots - 1) % Slots

\* remove_node_from_slot believes node->index.
remove_node_from_slot(fd) == [table EXCEPT ![fd_map[fd]] = @ \ {fd}]

insert_node_to_slot(tbl, fd, slot) == [tbl EXCEPT ![slot] = @ \cup {fd}]

\* Take fd's node out of its slot, put it into the full timeout slot.
MoveToFullTimeout(fd) ==
  /\ table' = insert_node_to_slot(remove_node_from_slot(fd), fd,
                                  get_full_timeout_slot)
  /\ fd_map' = [fd_map EXCEPT ![fd] = get_full_timeout_slot]
  /\ idle' = [idle EXCEPT ![fd] = 0]

\* How many slots a tick moves on: never round the ring twice.
TickSteps == IF elapsed \div Interval > Slots THEN Slots
                                              ELSE elapsed \div Interval

\* The slots those steps visit, and the descriptors they disconnect.
Visited == {(current + k) % Slots : k \in 1..TickSteps}
Swept == UNION {table[s] : s \in Visited}

------------------------------------------------------------------------------
\* time_wheel_create.
Init == /\ table = [s \in Slot |-> {}]
        /\ fd_map = [fd \in Fd |-> NULL]
        /\ current = 0
        /\ elapsed = 0
        /\ adding = NULL
        /\ idle = [fd \in Fd |-> 0]

\* time_wheel_add of a descriptor without a node.  Only the main thread adds
\* and ticks, so it does neither while it is inside time_wheel_add.
AddNew(fd) ==
  /\ adding = NULL
  /\ fd_map[fd] = NULL
  /\ table' = insert_node_to_slot(table, fd, get_full_timeout_slot)
  /\ fd_map' = [fd_map EXCEPT ![fd] = get_full_timeout_slot]
  /\ idle' = [idle EXCEPT ![fd] = 0]
  /\ UNCHANGED <<current, elapsed, adding>>

\* time_wheel_add of a descriptor the map knows: it only unlocks ...
AddKnown(fd) ==
  /\ adding = NULL
  /\ fd_map[fd] # NULL
  /\ adding' = fd
  /\ UNCHANGED <<table, fd_map, current, elapsed, idle>>

\* Mutant: time_wheel_refresh called with the mutex still held.
AddKnownRefreshDeadlocked == adding # NULL /\ UNCHANGED vars

\* ... and refreshes, which does nothing if a worker has deleted the node
\* in between.
AddKnownRefresh ==
  /\ adding # NULL
  /\ adding' = NULL
  /\ IF fd_map[adding] = NULL
     THEN UNCHANGED <<table, fd_map, idle>>
     ELSE MoveToFullTimeout(adding)
  /\ UNCHANGED <<current, elapsed>>

\* time_wheel_refresh by a worker.
Refresh(fd) ==
  /\ fd_map[fd] # NULL
  /\ MoveToFullTimeout(fd)
  /\ UNCHANGED <<current, elapsed, adding>>

\* time_wheel_del by a worker.
Del(fd) ==
  /\ fd_map[fd] # NULL
  /\ table' = remove_node_from_slot(fd)
  /\ fd_map' = [fd_map EXCEPT ![fd] = NULL]
  /\ idle' = [idle EXCEPT ![fd] = 0]
  /\ UNCHANGED <<current, elapsed, adding>>

\* Mutant: the time the steps do not account for is forgotten.
TickForgettingLeftover ==
  /\ adding = NULL
  /\ elapsed >= Interval
  /\ current' = (current + TickSteps) % Slots
  /\ table' = [s \in Slot |-> IF s \in Visited THEN {} ELSE table[s]]
  /\ fd_map' = [fd \in Fd |-> IF fd \in Swept THEN NULL ELSE fd_map[fd]]
  /\ elapsed' = 0
  /\ idle' = [fd \in Fd |-> IF fd \in Swept THEN 0 ELSE idle[fd]]
  /\ UNCHANGED adding

\* time_wheel_tick: disconnect everything in the slots passed, and leave in
\* elapsed what the steps do not account for.
Tick ==
  /\ adding = NULL
  /\ elapsed >= Interval
  /\ current' = (current + TickSteps) % Slots
  /\ table' = [s \in Slot |-> IF s \in Visited THEN {} ELSE table[s]]
  /\ fd_map' = [fd \in Fd |-> IF fd \in Swept THEN NULL ELSE fd_map[fd]]
  /\ elapsed' = elapsed - TickSteps * Interval
  /\ idle' = [fd \in Fd |-> IF fd \in Swept THEN 0 ELSE idle[fd]]
  /\ UNCHANGED adding

\* The clock: a second passes.
Second ==
  /\ elapsed < MaxLag
  /\ elapsed' = elapsed + 1
  /\ idle' = [fd \in Fd |-> IF fd_map[fd] = NULL THEN 0 ELSE idle[fd] + 1]
  /\ UNCHANGED <<table, fd_map, current, adding>>

Next == \/ \E fd \in Fd : AddNew(fd) \/ AddKnown(fd) \/ Refresh(fd) \/ Del(fd)
        \/ AddKnownRefresh
        \/ Tick
        \/ Second

Spec == Init /\ [][Next]_vars

\* Time passes, a call in progress returns, and the main loop keeps coming round
\* (epoll_wait returns after a second at the latest).  Every turn of that loop
\* ticks before it adds, and nobody but the main thread itself, by being inside
\* time_wheel_add, can keep it from ticking: hence the strong fairness of Tick.
FairSpec == Spec /\ SF_vars(Tick) /\ WF_vars(AddKnownRefresh) /\ WF_vars(Second)

------------------------------------------------------------------------------
(* Properties.                                                             *)

\* Steps until the wheel meets fd's slot; Slots for the current slot itself.
StepsTo(slot) == IF slot > current THEN slot - current
                                   ELSE slot + Slots - current

\* A node is chained in exactly the slot its index names, and the map and the
\* chains know the same descriptors: no node is lost or met twice
\* (timewheel.c:130-155 against :75-128).
ChainsMatchMap ==
  \A fd \in Fd, s \in Slot : fd \in table[s] <=> fd_map[fd] = s

\* Nobody is put into the slot the wheel stands at: a node there would have to
\* wait a whole extra turn (timewheel.c:157-159, :246-247).
CurrentSlotEmpty == table[current] = {}

\* Every node is met when it is due: what it has been idle and what the wheel
\* still has to walk to it add up to the full timeout, except for the delay
\* of the main loop at the moment of its last activity.
Punctual ==
  \A fd \in Tracked :
    LET due == idle[fd] + StepsTo(fd_map[fd]) * Interval - elapsed
    IN  /\ due <= (Slots - 1) * Interval
        /\ due >= (Slots - 1) * Interval - MaxLag

\* An idle client never outlives the full timeout by more than the delay of
\* the main loop (timewheel.c:231-264).
NeverLate ==
  \A fd \in Tracked : idle[fd] <= (Slots - 2) * Interval + MaxLag

\* Ring, map and clock agree in every state: nobody is chained in two slots or
\* in none, at the slot the wheel stands at, or further away than is due.
WheelConsistent == /\ TypeOK
                   /\ ChainsMatchMap
                   /\ CurrentSlotEmpty
                   /\ Punctual

\* A tick never disconnects a client that was active within the full timeout
\* less the delay of the main loop, whichever of Add, Refresh and Tick came in
\* what order, the clamp of steps included (timewheel.c:239-261).
NeverEarly ==
  [][Tick => \A fd \in Tracked :
       fd_map'[fd] = NULL => idle[fd] >= (Slots - 1) * Interval - MaxLag]_vars

\* An idle client is in the end disconnected, or shows some activity.
IdleEnds ==
  \A fd \in Fd : (idle[fd] > 0) ~> (idle[fd] = 0)

\* The wheel is an idle timer of Slots - 1 steps.
Timer == INSTANCE IdleTimer WITH
  Budget    <- Slots - 1,
  remaining <- [fd \in Fd |-> IF fd_map[fd] = NULL THEN 0
                                                   ELSE StepsTo(fd_map[fd])]
ImplementsIdleTimer == Timer!Spec
==============================================================================
