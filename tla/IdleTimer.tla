------------------------------ MODULE IdleTimer ------------------------------
(***************************************************************************)
(* What server/timewheel.h promises its callers, whatever it is built      *)
(* from: every tracked descriptor has a number of clock steps left to      *)
(* live; an activity gives it back its full budget, a step takes one from  *)
(* everybody, and whoever has none left is disconnected in that step.      *)
(*                                                                         *)
(* TimeWheel implements this specification; ConnServer uses it in place    *)
(* of the wheel.                                                           *)
(***************************************************************************)
EXTENDS Naturals

CONSTANTS Fd,       \* the descriptors the server may track
          Budget    \* steps an idle descriptor is allowed, at least one

VARIABLE remaining  \* steps left of each descriptor, 0 when it is not tracked

tracked == {fd \in Fd : remaining[fd] > 0}

TypeOK == remaining \in [Fd -> 0..Budget]

Init == remaining = [fd \in Fd |-> 0]

\* time_wheel_add: the descriptor has its whole budget, tracked before or not.
Arm(fd) == remaining' = [remaining EXCEPT ![fd] = Budget]

\* time_wheel_refresh: the same, but only for a tracked descriptor.
Rearm(fd) == /\ fd \in tracked
             /\ Arm(fd)

\* time_wheel_del.
Disarm(fd) == remaining' = [remaining EXCEPT ![fd] = 0]

Left(fd, k) == IF remaining[fd] > k THEN remaining[fd] - k ELSE 0

\* The descriptors that k steps disconnect.
Expiring(k) == {fd \in tracked : Left(fd, k) = 0}

\* time_wheel_tick: k steps of the clock at once.
Elapse(k) == remaining' = [fd \in Fd |-> Left(fd, k)]

Next == \/ \E fd \in Fd : Arm(fd) \/ Rearm(fd) \/ Disarm(fd)
        \/ \E k \in 1..(Budget + 1) : Elapse(k)

Spec == Init /\ [][Next]_remaining
==============================================================================
