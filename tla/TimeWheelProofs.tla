--------------------------- MODULE TimeWheelProofs ---------------------------
(***************************************************************************)
(* TimeWheel for every number of descriptors and slots, every interval and *)
(* every delay of the main loop: its invariants, the bounds on when an     *)
(* idle client is disconnected, and that it implements IdleTimer.          *)
(*                                                                         *)
(* All rest on one invariant.  Punctual says when the wheel will meet a    *)
(* node; that it keeps saying so over a tick needs to know that a tracked  *)
(* descriptor is chained where the map says it is (ChainsMatchMap).        *)
(***************************************************************************)
EXTENDS TimeWheel, TLAPS

IInv == TypeOK /\ ChainsMatchMap /\ CurrentSlotEmpty /\ Punctual

------------------------------------------------------------------------------
(* Arithmetic on the ring.                                                 *)

\* The slot a node is put into is a full turn less one step away from current.
LEMMA FullTimeoutSlot ==
  ASSUME current \in Slot
  PROVE  /\ get_full_timeout_slot \in Slot
         /\ get_full_timeout_slot # current
         /\ StepsTo(get_full_timeout_slot) = Slots - 1
<1> USE SlotsAssumption DEF Slot
<1>1. get_full_timeout_slot = IF current = 0 THEN Slots - 1 ELSE current - 1
  BY SMT DEF get_full_timeout_slot
<1> QED
  BY <1>1 DEF StepsTo

\* Every slot is between one step and a full turn away.
LEMMA StepsToRange ==
  ASSUME current \in Slot, NEW s \in Slot
  PROVE  /\ StepsTo(s) \in 1..Slots
         /\ (current + StepsTo(s)) % Slots = s
         /\ StepsTo(s) = Slots <=> s = current
<1> USE SlotsAssumption DEF Slot, StepsTo
<1> QED
  BY SMT

\* The steps of a tick: at least one, at most a turn, and never more time than
\* has passed.
LEMMA TickStepsRange ==
  ASSUME elapsed \in Nat, elapsed >= Interval
  PROVE  /\ TickSteps \in 1..Slots
         /\ TickSteps * Interval <= elapsed
<1> USE SlotsAssumption, IntervalAssumption
<1> DEFINE d == elapsed \div Interval
<1>1. d \in Nat /\ d * Interval <= elapsed /\ elapsed < (d + 1) * Interval
  BY SMT
<1>2. d >= 1
  <2> HIDE DEF d
  <2>1. CASE d = 0
    BY <1>1, <2>1
  <2> QED
    BY <1>1, <2>1
<1>3. CASE d > Slots
  <2>1. TickSteps = Slots
    BY <1>3 DEF TickSteps
  <2>2. Slots * Interval <= d * Interval
    <3> HIDE DEF d
    <3> QED  BY <1>1, <1>3, SMT
  <2> HIDE DEF d
  <2> QED
    BY <1>1, <2>1, <2>2
<1>4. CASE ~(d > Slots)
  <2>1. TickSteps = d
    BY <1>4 DEF TickSteps
  <2> HIDE DEF d
  <2> QED
    BY <1>1, <1>2, <1>4, <2>1
<1> QED
  BY <1>3, <1>4

\* n steps visit exactly the slots at most n steps away.
LEMMA VisitedSlots ==
  ASSUME current \in Slot, TickSteps \in 1..Slots, NEW s \in Slot
  PROVE  s \in Visited <=> StepsTo(s) <= TickSteps
<1> USE SlotsAssumption DEF Slot
<1>1. ASSUME StepsTo(s) <= TickSteps  PROVE s \in Visited
  <2>1. StepsTo(s) \in 1..TickSteps
    BY <1>1, StepsToRange
  <2> QED
    BY <2>1, StepsToRange DEF Visited
<1>2. ASSUME s \in Visited  PROVE StepsTo(s) <= TickSteps
  <2>1. PICK k \in 1..TickSteps : s = (current + k) % Slots
    BY <1>2 DEF Visited
  <2>2. s = IF current + k < Slots THEN current + k ELSE current + k - Slots
    BY <2>1, SMT
  <2>3. StepsTo(s) = k
    BY <2>2 DEF StepsTo
  <2> QED
    BY <2>3
<1> QED
  BY <1>1, <1>2

\* A slot not visited is nearer by the number of steps made.
LEMMA NearerSlots ==
  ASSUME current \in Slot, NEW n \in 1..Slots, NEW s \in Slot,
         StepsTo(s) > n, current' = (current + n) % Slots
  PROVE  /\ current' \in Slot
         /\ StepsTo(s)' = StepsTo(s) - n
<1> USE SlotsAssumption DEF Slot
<1>1. current' = IF current + n < Slots THEN current + n ELSE current + n - Slots
  BY SMT
<1> QED
  BY <1>1 DEF StepsTo

------------------------------------------------------------------------------
(* The inductive invariant.                                                *)

LEMMA InitIInv == Init => IInv
<1> USE SlotsAssumption, MaxLagAssumption, IntervalAssumption, FdAssumption
<1> QED
  BY DEF Init, IInv, TypeOK, ChainsMatchMap, CurrentSlotEmpty, Punctual,
         Tracked, Slot, NULL

\* Being put into the full timeout slot is what AddNew and a refresh share.
LEMMA Inserted ==
  ASSUME IInv, NEW fd \in Fd, NEW tbl \in [Slot -> SUBSET Fd],
         \A g \in Fd, s \in Slot :
            g \in tbl[s] <=> g # fd /\ fd_map[g] = s,
         table' = insert_node_to_slot(tbl, fd, get_full_timeout_slot),
         fd_map' = [fd_map EXCEPT ![fd] = get_full_timeout_slot],
         idle' = [idle EXCEPT ![fd] = 0],
         UNCHANGED <<current, elapsed>>,
         adding' \in Fd \cup {NULL}
  PROVE  IInv'
<1> USE SlotsAssumption, IntervalAssumption, MaxLagAssumption
<1> USE DEF IInv, TypeOK
<1>1. /\ get_full_timeout_slot \in Slot
      /\ get_full_timeout_slot # current
      /\ StepsTo(get_full_timeout_slot) = Slots - 1
  BY FullTimeoutSlot
<1>2. TypeOK'
  BY <1>1 DEF insert_node_to_slot
<1>3. ChainsMatchMap'
  BY <1>1, <1>2 DEF ChainsMatchMap, insert_node_to_slot
<1>4. CurrentSlotEmpty'
  <2>1. tbl[current] = {}
    BY DEF CurrentSlotEmpty, ChainsMatchMap
  <2> QED
    BY <1>1, <2>1 DEF CurrentSlotEmpty, insert_node_to_slot
<1>5. Punctual'
  <2> SUFFICES ASSUME NEW g \in Tracked'
               PROVE  LET due == (idle[g] + StepsTo(fd_map[g]) * Interval - elapsed)'
                      IN  /\ due <= (Slots - 1) * Interval
                          /\ due >= (Slots - 1) * Interval - MaxLag
    BY DEF Punctual
  <2>1. CASE g = fd
    <3>1. idle'[g] = 0 /\ StepsTo(fd_map[g])' = Slots - 1
      BY <1>1, <2>1 DEF StepsTo
    <3> QED
      BY <3>1
  <2>2. CASE g # fd
    <3>1. g \in Tracked
      BY <2>2 DEF Tracked
    <3>2. idle'[g] = idle[g] /\ StepsTo(fd_map[g])' = StepsTo(fd_map[g])
      BY <2>2, <3>1 DEF StepsTo, Tracked
    <3> QED
      BY <3>1, <3>2 DEF Punctual
  <2> QED
    BY <2>1, <2>2
<1> QED
  BY <1>2, <1>3, <1>4, <1>5

\* A refresh keeps the invariant, whoever asks for it.
LEMMA MoveIInv ==
  ASSUME IInv, NEW fd \in Fd, fd_map[fd] # NULL, MoveToFullTimeout(fd),
         UNCHANGED <<current, elapsed>>, adding' \in Fd \cup {NULL}
  PROVE  IInv'
<1>1. fd_map[fd] \in Slot
  BY DEF IInv, TypeOK
<1>2. remove_node_from_slot(fd) \in [Slot -> SUBSET Fd]
  BY <1>1 DEF IInv, TypeOK, remove_node_from_slot
<1>3. \A g \in Fd, s \in Slot :
        g \in remove_node_from_slot(fd)[s] <=> g # fd /\ fd_map[g] = s
  BY <1>1 DEF IInv, TypeOK, ChainsMatchMap, remove_node_from_slot
<1> QED
  BY <1>2, <1>3, Inserted DEF MoveToFullTimeout

LEMMA AddNewIInv == ASSUME IInv, NEW fd \in Fd, AddNew(fd)  PROVE IInv'
<1>1. \A g \in Fd, s \in Slot : g \in table[s] <=> g # fd /\ fd_map[g] = s
  BY DEF AddNew, IInv, ChainsMatchMap, Slot, NULL
<1> QED
  BY <1>1, Inserted DEF AddNew, IInv, TypeOK

LEMMA DelIInv == ASSUME IInv, NEW fd \in Fd, Del(fd)  PROVE IInv'
<1> USE DEF Del, IInv, TypeOK
<1>1. fd_map[fd] \in Slot
  OBVIOUS
<1>2. TypeOK'
  BY <1>1 DEF remove_node_from_slot
<1>3. ChainsMatchMap'
  <2>1. \A s \in Slot : s # NULL
    BY DEF Slot, NULL
  <2> QED
    BY <1>1, <2>1 DEF ChainsMatchMap, remove_node_from_slot
<1>4. CurrentSlotEmpty'
  BY <1>1 DEF CurrentSlotEmpty, remove_node_from_slot
<1>5. Punctual'
  <2>1. ASSUME NEW g \in Tracked'
        PROVE  /\ g \in Tracked /\ idle'[g] = idle[g]
               /\ StepsTo(fd_map[g])' = StepsTo(fd_map[g])
    BY DEF Tracked, StepsTo
  <2> QED
    BY <2>1 DEF Punctual
<1> QED
  BY <1>2, <1>3, <1>4, <1>5

\* What a tick disconnects: exactly the descriptors at most its steps away.
LEMMA SweptNodes ==
  ASSUME IInv, elapsed >= Interval, NEW fd \in Fd
  PROVE  fd \in Swept <=> fd \in Tracked /\ StepsTo(fd_map[fd]) <= TickSteps
<1> USE DEF IInv, TypeOK
<1>1. TickSteps \in 1..Slots
  BY TickStepsRange
<1>2. Visited \subseteq Slot
  BY <1>1, SlotsAssumption, SMT DEF Visited, Slot
<1>3. fd \in Swept <=> \E s \in Visited : fd_map[fd] = s
  BY <1>2 DEF Swept, ChainsMatchMap
<1>4. \A s \in Slot : s # NULL
  BY DEF Slot, NULL
<1> QED
  BY <1>1, <1>2, <1>3, <1>4, VisitedSlots DEF Tracked

LEMMA TickIInv == ASSUME IInv, Tick  PROVE IInv'
<1> USE SlotsAssumption, IntervalAssumption, MaxLagAssumption
<1> USE DEF IInv, TypeOK, Tick
<1>1. TickSteps \in 1..Slots /\ TickSteps * Interval <= elapsed
  BY TickStepsRange
<1>2. current' \in Slot
  BY <1>1, SMT DEF Slot
<1>3. TypeOK'
  <2>1. TickSteps * Interval \in Nat
    BY <1>1
  <2>2. elapsed' \in 0..MaxLag
    BY <1>1, <2>1
  <2> QED
    BY <1>2, <2>2
<1>4. ChainsMatchMap'
  <2>1. \A fd \in Fd, s \in Slot : s \in Visited /\ fd_map[fd] = s => fd \in Swept
    BY DEF Swept, ChainsMatchMap
  <2>2. \A fd \in Swept : fd_map[fd] \in Visited
    <3>1. Visited \subseteq Slot
      BY <1>1, SMT DEF Visited, Slot
    <3> QED
      BY <3>1 DEF Swept, ChainsMatchMap
  <2>3. \A s \in Slot : s # NULL
    BY DEF Slot, NULL
  <2> QED
    BY <2>1, <2>2, <2>3 DEF ChainsMatchMap
<1>5. CurrentSlotEmpty'
  <2>1. current' \in Visited
    BY <1>1 DEF Visited
  <2> QED
    BY <1>2, <2>1 DEF CurrentSlotEmpty
<1>6. Punctual'
  <2> SUFFICES ASSUME NEW fd \in Tracked'
               PROVE  (idle[fd] + StepsTo(fd_map[fd]) * Interval - elapsed)'
                         = idle[fd] + StepsTo(fd_map[fd]) * Interval - elapsed
                      /\ fd \in Tracked
    BY DEF Punctual
  <2>1. fd \in Tracked /\ fd \notin Swept /\ fd_map'[fd] = fd_map[fd]
    BY DEF Tracked
  <2>2. StepsTo(fd_map[fd]) > TickSteps
    BY <1>1, <2>1, SweptNodes, StepsToRange DEF Tracked
  <2>3. StepsTo(fd_map[fd])' = StepsTo(fd_map[fd]) - TickSteps
    <3>1. \A s \in Slot : StepsTo(s) > TickSteps =>
             StepsTo(s)' = StepsTo(s) - TickSteps
      BY <1>1, NearerSlots
    <3>2. fd_map[fd] \in Slot /\ fd_map'[fd] = fd_map[fd]
      BY <2>1 DEF Tracked
    <3> QED
      BY <2>2, <3>1, <3>2
  <2>4. StepsTo(fd_map[fd]) \in Int
    BY <2>1, StepsToRange DEF Tracked
  <2>5. \A x, a, b, i, e \in Int : x + (a - b) * i - (e - b * i) = x + a * i - e
    BY SMT
  <2>6. idle'[fd] = idle[fd] /\ idle[fd] \in Int /\ elapsed \in Int
    BY <2>1 DEF Tracked
  <2>7. (idle[fd] + StepsTo(fd_map[fd]) * Interval - elapsed)'
          = idle[fd] + (StepsTo(fd_map[fd]) - TickSteps) * Interval
              - (elapsed - TickSteps * Interval)
    BY <2>3, <2>6
  <2> QED
    BY <1>1, <2>1, <2>4, <2>5, <2>6, <2>7
<1> QED
  BY <1>3, <1>4, <1>5, <1>6

LEMMA SecondIInv == ASSUME IInv, Second  PROVE IInv'
<1> USE SlotsAssumption, IntervalAssumption, MaxLagAssumption
<1> USE DEF IInv, TypeOK, Second
<1>1. TypeOK' /\ ChainsMatchMap' /\ CurrentSlotEmpty'
  BY DEF ChainsMatchMap, CurrentSlotEmpty
<1>2. Punctual'
  <2> SUFFICES ASSUME NEW fd \in Tracked'
               PROVE  (idle[fd] + StepsTo(fd_map[fd]) * Interval - elapsed)'
                         = idle[fd] + StepsTo(fd_map[fd]) * Interval - elapsed
                      /\ fd \in Tracked
    BY DEF Punctual
  <2>1. fd \in Tracked /\ idle'[fd] = idle[fd] + 1 /\ idle[fd] \in Int
    BY DEF Tracked
  <2>2. StepsTo(fd_map[fd]) * Interval \in Int
    <3>1. StepsTo(fd_map[fd]) \in Int
      BY <2>1, StepsToRange DEF Tracked
    <3> QED
      BY <3>1
  <2>3. StepsTo(fd_map[fd])' = StepsTo(fd_map[fd])
    BY DEF StepsTo
  <2> HIDE DEF StepsTo
  <2> QED
    BY <2>1, <2>2, <2>3
<1> QED
  BY <1>1, <1>2

LEMMA NextIInv == IInv /\ [Next]_vars => IInv'
<1> SUFFICES ASSUME IInv, [Next]_vars  PROVE IInv'
  OBVIOUS
<1>1. ASSUME NEW fd \in Fd, AddNew(fd)  PROVE IInv'
  BY <1>1, AddNewIInv
<1>2. ASSUME NEW fd \in Fd, AddKnown(fd)  PROVE IInv'
  BY <1>2 DEF AddKnown, IInv, TypeOK, ChainsMatchMap, CurrentSlotEmpty, Punctual,
              Tracked, StepsTo
<1>3. ASSUME NEW fd \in Fd, Refresh(fd)  PROVE IInv'
  BY <1>3, MoveIInv DEF Refresh, IInv, TypeOK
<1>4. ASSUME NEW fd \in Fd, Del(fd)  PROVE IInv'
  BY <1>4, DelIInv
<1>5. CASE AddKnownRefresh
  <2>1. CASE fd_map[adding] = NULL
    BY <1>5, <2>1 DEF AddKnownRefresh, IInv, TypeOK, ChainsMatchMap,
                      CurrentSlotEmpty, Punctual, Tracked, StepsTo
  <2>2. CASE fd_map[adding] # NULL
    <3>1. PICK fd \in Fd : fd = adding
      BY <1>5 DEF AddKnownRefresh, IInv, TypeOK
    <3>2. /\ fd_map[fd] # NULL /\ MoveToFullTimeout(fd)
          /\ UNCHANGED <<current, elapsed>> /\ adding' \in Fd \cup {NULL}
      BY <1>5, <2>2, <3>1 DEF AddKnownRefresh
    <3> QED
      BY <3>2, MoveIInv
  <2> QED
    BY <2>1, <2>2
<1>6. CASE Tick
  BY <1>6, TickIInv
<1>7. CASE Second
  BY <1>7, SecondIInv
<1>8. CASE UNCHANGED vars
  BY <1>8 DEF vars, IInv, TypeOK, ChainsMatchMap, CurrentSlotEmpty, Punctual,
              Tracked, StepsTo
<1> QED
  BY <1>1, <1>2, <1>3, <1>4, <1>5, <1>6, <1>7, <1>8 DEF Next

LEMMA SpecIInv == Spec => []IInv
  BY InitIInv, NextIInv, PTL DEF Spec

------------------------------------------------------------------------------
(* What follows from it.                                                   *)

\* The variables keep their types, with the delay of the main loop bounded.
THEOREM TypeCorrect == Spec => []TypeOK
  BY SpecIInv, PTL DEF IInv

\* Chains and map agree whatever operations the callers ask for, in any order
\* (timewheel.c:130-155, :190-264).
THEOREM ChainsMatchMapAlways == Spec => []ChainsMatchMap
  BY SpecIInv, PTL DEF IInv

\* Nothing is ever chained in the slot the wheel stands at (timewheel.c:157).
THEOREM CurrentSlotEmptyAlways == Spec => []CurrentSlotEmpty
  BY SpecIInv, PTL DEF IInv

\* Every node is met when it is due (timewheel.c:157-159, :231-264).
THEOREM PunctualAlways == Spec => []Punctual
  BY SpecIInv, PTL DEF IInv

\* Ring, map and clock agree in every state (timewheel.c:130-264).
THEOREM WheelConsistentAlways == Spec => []WheelConsistent
  BY SpecIInv, PTL DEF IInv, WheelConsistent

\* No idle client stays connected longer than the full timeout plus the delay
\* of the main loop.
THEOREM NeverLateAlways == Spec => []NeverLate
<1>1. IInv => NeverLate
  <2> SUFFICES ASSUME IInv, NEW fd \in Tracked
               PROVE  idle[fd] <= (Slots - 2) * Interval + MaxLag
    BY DEF NeverLate
  <2> USE SlotsAssumption, IntervalAssumption, MaxLagAssumption
  <2>1. fd_map[fd] \in Slot /\ idle[fd] \in Nat /\ elapsed \in 0..MaxLag
    BY DEF IInv, TypeOK, Tracked
  <2>2. StepsTo(fd_map[fd]) \in 1..Slots
    BY <2>1, StepsToRange DEF IInv, TypeOK
  <2>3. idle[fd] + StepsTo(fd_map[fd]) * Interval - elapsed <= (Slots - 1) * Interval
    BY DEF IInv, Punctual
  <2>4. StepsTo(fd_map[fd]) * Interval >= Interval
    BY <2>2
  <2> QED
    BY <2>1, <2>2, <2>3, <2>4
<1> QED
  BY <1>1, SpecIInv, PTL

\* No tick disconnects a client that was active within the full timeout less
\* the delay of the main loop.
THEOREM NeverEarlyAlways == Spec => NeverEarly
<1> DEFINE Early(fd) == /\ fd_map'[fd] = NULL
                        /\ ~(idle[fd] >= (Slots - 1) * Interval - MaxLag)
<1>1. IInv /\ [Next]_vars => [Tick => \A fd \in Tracked : ~Early(fd)]_vars
  <2> SUFFICES ASSUME IInv, Tick, NEW fd \in Tracked, fd_map'[fd] = NULL
               PROVE  idle[fd] >= (Slots - 1) * Interval - MaxLag
    OBVIOUS
  <2> USE SlotsAssumption, IntervalAssumption, MaxLagAssumption
  <2>1. /\ fd \in Fd /\ fd_map[fd] \in Slot /\ fd_map[fd] # NULL
        /\ idle[fd] \in Nat /\ elapsed \in Nat /\ elapsed >= Interval
    BY DEF IInv, TypeOK, Tracked, Tick
  <2>2. TickSteps \in 1..Slots /\ TickSteps * Interval <= elapsed
    BY <2>1, TickStepsRange
  <2>3. fd \in Swept
    BY <2>1 DEF Tick
  <2>4. StepsTo(fd_map[fd]) <= TickSteps
    BY <2>1, <2>3, SweptNodes
  <2>5. StepsTo(fd_map[fd]) \in 1..Slots
    BY <2>1, StepsToRange DEF IInv, TypeOK
  <2>6. StepsTo(fd_map[fd]) * Interval <= TickSteps * Interval
    BY <2>2, <2>4, <2>5
  <2>7. idle[fd] + StepsTo(fd_map[fd]) * Interval - elapsed
           >= (Slots - 1) * Interval - MaxLag
    BY DEF IInv, Punctual
  <2>8. StepsTo(fd_map[fd]) * Interval \in Int /\ TickSteps * Interval \in Int
        /\ (Slots - 1) * Interval \in Int
    BY <2>2, <2>5
  <2> QED
    BY <2>1, <2>2, <2>6, <2>7, <2>8
<1>2. [Tick => \A fd \in Tracked : ~Early(fd)]_vars
        => [Tick => \A fd \in Tracked :
               fd_map'[fd] = NULL => idle[fd] >= (Slots - 1) * Interval - MaxLag]_vars
  OBVIOUS
<1> QED
  BY <1>1, <1>2, SpecIInv, PTL DEF Spec, NeverEarly

------------------------------------------------------------------------------
(* The wheel implements the idle timer.                                    *)

Remaining == [fd \in Fd |-> IF fd_map[fd] = NULL THEN 0 ELSE StepsTo(fd_map[fd])]

\* Putting a node into the full timeout slot is re-arming the timer.
LEMMA ArmStep ==
  ASSUME IInv, NEW fd \in Fd, UNCHANGED current,
         fd_map' = [fd_map EXCEPT ![fd] = get_full_timeout_slot]
  PROVE  Timer!Arm(fd)
<1>1. /\ get_full_timeout_slot \in Slot /\ get_full_timeout_slot # NULL
      /\ StepsTo(get_full_timeout_slot) = Slots - 1
  BY FullTimeoutSlot DEF IInv, TypeOK, Slot, NULL
<1>2. ASSUME NEW g \in Fd
      PROVE  Remaining'[g] = IF g = fd THEN Slots - 1 ELSE Remaining[g]
  <2>1. CASE g = fd
    <3>1. fd_map'[g] = get_full_timeout_slot
      BY <2>1 DEF IInv, TypeOK
    <3>2. StepsTo(fd_map[g])' = Slots - 1
      BY <1>1, <3>1 DEF StepsTo
    <3> QED
      BY <1>1, <2>1, <3>1, <3>2 DEF Remaining
  <2>2. CASE g # fd
    <3>1. fd_map'[g] = fd_map[g]
      BY <2>2 DEF IInv, TypeOK
    <3>2. StepsTo(fd_map[g])' = StepsTo(fd_map[g])
      BY <3>1 DEF StepsTo
    <3> QED
      BY <2>2, <3>1, <3>2 DEF Remaining
  <2> QED
    BY <2>1, <2>2
<1>3. Remaining' = [Remaining EXCEPT ![fd] = Slots - 1]
  BY <1>2 DEF Remaining
<1> QED
  BY <1>3 DEF Timer!Arm, Remaining

\* Taking a node out is disarming it.
LEMMA DisarmStep == ASSUME IInv, NEW fd \in Fd, Del(fd)  PROVE Timer!Disarm(fd)
<1>1. ASSUME NEW g \in Fd
      PROVE  Remaining'[g] = IF g = fd THEN 0 ELSE Remaining[g]
  BY DEF Del, IInv, TypeOK, Remaining, StepsTo
<1>2. Remaining' = [Remaining EXCEPT ![fd] = 0]
  BY <1>1 DEF Remaining
<1> QED
  BY <1>2 DEF Timer!Disarm, Remaining

\* A tick lets as many steps elapse as it moves on.
LEMMA ElapseStep == ASSUME IInv, Tick  PROVE Timer!Elapse(TickSteps)
<1> USE DEF Tick, IInv, TypeOK
<1>1. TickSteps \in 1..Slots
  BY TickStepsRange
<1>2. ASSUME NEW fd \in Fd
      PROVE  Remaining'[fd] = IF Remaining[fd] > TickSteps
                              THEN Remaining[fd] - TickSteps ELSE 0
  <2>1. fd \in Swept <=> fd \in Tracked /\ StepsTo(fd_map[fd]) <= TickSteps
    BY SweptNodes
  <2>2. CASE fd \notin Tracked
    BY <1>1, <2>1, <2>2 DEF Remaining, Tracked
  <2>3. CASE fd \in Swept
    <3>1. StepsTo(fd_map[fd]) \in 1..Slots
      BY <2>1, <2>3, StepsToRange DEF Tracked
    <3> QED
      BY <1>1, <2>1, <2>3, <3>1 DEF Remaining, Tracked
  <2>4. CASE fd \in Tracked /\ fd \notin Swept
    <3>1. fd_map'[fd] = fd_map[fd] /\ fd_map[fd] \in Slot
      BY <2>4 DEF Tracked
    <3>2. StepsTo(fd_map[fd]) \in 1..Slots /\ StepsTo(fd_map[fd]) > TickSteps
      BY <1>1, <2>1, <2>4, <3>1, StepsToRange
    <3>3. \A s \in Slot : StepsTo(s) > TickSteps =>
             StepsTo(s)' = StepsTo(s) - TickSteps
      BY <1>1, NearerSlots
    <3>4. StepsTo(fd_map[fd])' = StepsTo(fd_map[fd]) - TickSteps
      BY <3>1, <3>2, <3>3
    <3> QED
      BY <2>4, <3>1, <3>2, <3>4 DEF Remaining, Tracked
  <2> QED
    BY <2>2, <2>3, <2>4
<1>3. Remaining' = [fd \in Fd |-> IF Remaining[fd] > TickSteps
                                  THEN Remaining[fd] - TickSteps ELSE 0]
  BY <1>2 DEF Remaining
<1> QED
  BY <1>3 DEF Timer!Elapse, Timer!Left, Remaining

LEMMA StepImplements ==
  ASSUME IInv, [Next]_vars
  PROVE  Timer!Next \/ Remaining' = Remaining
<1>1. ASSUME NEW fd \in Fd, AddNew(fd) \/ Refresh(fd)
      PROVE  Timer!Next
  <2>1. Timer!Arm(fd)
    BY <1>1, ArmStep DEF AddNew, Refresh, MoveToFullTimeout
  <2> QED
    BY <2>1 DEF Timer!Next
<1>2. ASSUME NEW fd \in Fd, Del(fd)  PROVE Timer!Next
  BY <1>2, DisarmStep DEF Timer!Next
<1>3. CASE Tick
  <2>1. TickSteps \in 1..Slots
    BY <1>3, TickStepsRange DEF Tick, IInv, TypeOK
  <2>2. PICK n \in 1..((Slots - 1) + 1) : n = TickSteps
    BY <2>1, SlotsAssumption
  <2>3. Timer!Elapse(n)
    BY <1>3, <2>2, ElapseStep DEF Timer!Elapse, Timer!Left
  <2> QED
    BY <2>3 DEF Timer!Next
<1>4. CASE AddKnownRefresh
  <2>1. CASE fd_map[adding] = NULL
    BY <1>4, <2>1 DEF AddKnownRefresh, Remaining, StepsTo
  <2>2. CASE fd_map[adding] # NULL
    <3>1. PICK fd \in Fd : fd = adding
      BY <1>4 DEF AddKnownRefresh, IInv, TypeOK
    <3>2. /\ fd_map' = [fd_map EXCEPT ![fd] = get_full_timeout_slot]
          /\ UNCHANGED current
      BY <1>4, <2>2, <3>1 DEF AddKnownRefresh, MoveToFullTimeout
    <3>3. Timer!Arm(fd)
      BY <3>2, ArmStep
    <3> QED
      BY <3>3 DEF Timer!Next
  <2> QED
    BY <2>1, <2>2
<1>5. ASSUME NEW fd \in Fd, AddKnown(fd)  PROVE Remaining' = Remaining
  BY <1>5 DEF AddKnown, Remaining, StepsTo
<1>6. CASE Second
  BY <1>6 DEF Second, Remaining, StepsTo
<1>7. CASE UNCHANGED vars
  BY <1>7 DEF vars, Remaining, StepsTo
<1> QED
  BY <1>1, <1>2, <1>3, <1>4, <1>5, <1>6, <1>7 DEF Next

\* The wheel with its slots, map and clock behaves like a countdown per
\* descriptor from Slots - 1 (timewheel.c as a whole against timewheel.h).
THEOREM WheelImplementsTimer == Spec => ImplementsIdleTimer
<1>1. Init => Timer!Init
  BY DEF Init, Timer!Init
<1>2. IInv /\ [Next]_vars => [Timer!Next]_Remaining
  BY StepImplements
<1> QED
  BY <1>1, <1>2, SpecIInv, PTL DEF Spec, ImplementsIdleTimer, Timer!Spec, Remaining
==============================================================================
