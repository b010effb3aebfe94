---------------------------- MODULE JitSchedule ----------------------------
(***************************************************************************)
(* What the JiT queue promises, without its array, its order, its Class C  *)
(* search or its counters: a set of reservations of air time. A            *)
(* reservation is granted only in time and only clear of all the others,   *)
(* it keeps its air time for itself until it is taken for transmission     *)
(* shortly before its departure, and it is given up only when its time     *)
(* stamp is out of the plausible window.                                   *)
(***************************************************************************)
EXTENDS JitOps

VARIABLES air, \* the set of reservations
          now  \* the concentrator's counter

vars == <<air, now>>

Init == air = {} /\ now \in Counter

Grant(n) ==
  /\ air' = air \cup {n}
  /\ Cardinality(air) < JIT_QUEUE_MAX
  /\ ~TooLate(n, now)
  /\ \A m \in air : Compatible(m, n)
  /\ UNCHANGED now

\* Some outdated reservations are given up and at most one is taken.
Serve(gone, taken) ==
  /\ \A n \in gone : Outdated(n, now)
  /\ \A n \in taken : Ahead(n.count, now) < TX_JIT_DELAY
  /\ \A m, n \in taken : m = n
  /\ air' = air \ (gone \cup taken)
  /\ UNCHANGED now

Elapse == now' = Add(now, 1) /\ UNCHANGED air

Next == \/ Elapse
        \/ \E gone, taken \in SUBSET air : Serve(gone, taken)
        \/ \E n \in Node \ air : Grant(n)

Spec == Init /\ [][Next]_vars

\* No two granted reservations share air time.
Exclusive == \A m, n \in air : m = n \/ Compatible(m, n)
=============================================================================
