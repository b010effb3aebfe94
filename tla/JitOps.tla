------------------------------- MODULE JitOps -------------------------------
(***************************************************************************)
(* The pure part of the just-in-time (JiT) transmit queue,                 *)
(* jitqueue/jitqueue.c: concentrator time, the collision test, the three   *)
(* acceptance criteria, the search of a slot for a Class C downlink, the   *)
(* queue's order, and which packets a peek keeps, drops and selects.       *)
(*                                                                         *)
(* Concentrator time is a 32-bit microsecond counter that rolls over: W is *)
(* 2^32 in the program and small under TLC, with the delays scaled to it.  *)
(* A queue is the sequence of the num_pkt used nodes; slot i of the        *)
(* program's array is element i+1 of the sequence.                         *)
(***************************************************************************)
EXTENDS Integers, Sequences, FiniteSets, Functions

CONSTANTS
  W,                    \* number of values of the concentrator's counter
  TX_START_DELAY,       \* time the radio needs to start
  TX_MARGIN_DELAY,      \* margin between two transmissions
  TX_JIT_DELAY,         \* a packet is programmed at most this long ahead
  TX_MAX_ADVANCE_DELAY, \* farther ahead than this is implausible
  BEACON_GUARD,         \* no ping slot this long before a beacon
  BEACON_RESERVED,      \* air time of a beacon, with margin
  JIT_QUEUE_MAX,        \* number of nodes of the array
  TOA                   \* the times on air of the packets that are sent

ASSUME JitAssumption ==
  /\ W \in Nat \ {0}
  /\ JIT_QUEUE_MAX \in Nat \ {0}
  /\ TX_START_DELAY \in Nat /\ TX_MARGIN_DELAY \in Nat
  /\ TX_JIT_DELAY \in Nat /\ TX_MAX_ADVANCE_DELAY \in Nat
  /\ BEACON_GUARD \in Nat /\ BEACON_RESERVED \in Nat
  /\ TOA \subseteq Nat

Counter == 0 .. W-1
\* Mutant of IsFull: off by one.
IsFullLate(q) == Len(q) = JIT_QUEUE_MAX + 1

IsFull(q) == Len(q) = JIT_QUEUE_MAX

PktType == {"A", "B", "C", "BEACON"}

\* uint32_t addition and subtraction: how far x is ahead of y.
Add(x, y) == (x + y) % W
Ahead(x, y) == (x - y) % W

\* Mutant of PreDelay: the programming delay of the JiT queue is left out.
PreDelayNoJit(type) ==
  IF type = "BEACON" THEN TX_START_DELAY + BEACON_GUARD ELSE TX_START_DELAY

\* The air time reserved before and after the packet's time stamp; toa is
\* the time on air of the packet.
PreDelay(type) ==
  IF type = "BEACON" THEN TX_START_DELAY + BEACON_GUARD + TX_JIT_DELAY
                     ELSE TX_START_DELAY + TX_JIT_DELAY
PostDelay(type, toa) == IF type = "BEACON" THEN BEACON_RESERVED ELSE toa

\* Mutant of CollisionTest: only the later packet's lead is checked.
CollisionTestOneSided(c1, pre1, post1, c2, pre2, post2) ==
  Ahead(c1, c2) <= pre1 + post2 + TX_MARGIN_DELAY

CollisionTest(c1, pre1, post1, c2, pre2, post2) ==
  \/ Ahead(c1, c2) <= pre1 + post2 + TX_MARGIN_DELAY
  \/ Ahead(c2, c1) <= pre2 + post1 + TX_MARGIN_DELAY

NewNode(count, type, toa) ==
  [type |-> type, count |-> count, pre |-> PreDelay(type),
   post |-> PostDelay(type, toa)]
Node == {NewNode(c, type, toa) : c \in Counter, type \in PktType, toa \in TOA}

\* A Class A or C downlink may be placed within the guard of a beacon.
TargetPre(p, n) ==
  IF p.type \in {"A", "C"} /\ n.type = "BEACON" THEN TX_START_DELAY ELSE n.pre

\* Mutant of TooLate: the difference is taken the other way round.
TooLateReversed(p, t) ==
  Ahead(t, p.count) <= TX_START_DELAY + TX_MARGIN_DELAY + TX_JIT_DELAY

\* Criteria 1 to 3 for a packet p presented at time t to the queue q.
TooLate(p, t) ==
  Ahead(p.count, t) <= TX_START_DELAY + TX_MARGIN_DELAY + TX_JIT_DELAY
TooEarly(p, t) ==
  p.type \in {"A", "B"} /\ Ahead(p.count, t) > TX_MAX_ADVANCE_DELAY
Collides(p, n) ==
  CollisionTest(p.count, p.pre, p.post, n.count, TargetPre(p, n), n.post)
\* Mutant of Acceptable: the loop of criterion 3 stops at the last but one.
AcceptableButLast(q, p, t) ==
  /\ ~TooLate(p, t)
  /\ ~TooEarly(p, t)
  /\ \A i \in DOMAIN q : i < Len(q) => ~Collides(p, q[i])

Acceptable(q, p, t) ==
  /\ ~TooLate(p, t)
  /\ ~TooEarly(p, t)
  /\ \A i \in DOMAIN q : ~Collides(p, q[i])

\* Mutant of AsapCounts: right behind the last packet, without the margins.
AsapCountsNoMargin(q, t, toa) ==
  IF q = << >> THEN {Add(t, 2 * TX_JIT_DELAY)}
  ELSE {Add(q[Len(q)].count, q[Len(q)].post + PreDelay("C"))}

\* The departure time (a singleton) given to a Class C downlink: as soon as
\* possible if nothing is in the way, else behind the first queued packet
\* that is the last one or is followed by a large enough gap.
AsapCounts(q, t, toa) ==
  LET pre == PreDelay("C")
      asap == Add(t, 2 * TX_JIT_DELAY)
      after(n) == Add(n.count, n.post + pre + TX_JIT_DELAY + TX_MARGIN_DELAY)
      fits(c, n) == ~CollisionTest(c, pre, toa, n.count, n.pre, n.post)
      stop(i) == i = Len(q) \/ fits(after(q[i]), q[i+1])
  IN IF \A i \in DOMAIN q : fits(asap, q[i]) THEN {asap}
     ELSE {after(q[i]) : i \in {k \in DOMAIN q :
                                  stop(k) /\ \A j \in 1 .. k-1 : ~stop(j)}}

\* compare(): the difference of the time stamps as a signed 32-bit number.
InOrder(m, n) == LET d == Ahead(m.count, n.count) IN d = 0 \/ 2 * d >= W
Ordered(q) == \A i, j \in DOMAIN q : i < j => InOrder(q[i], q[j])

\* Mutant of Arrange: the last node takes the place of the removed one and
\* the queue is not sorted again.
ArrangeUnsorted(q, K) ==
  LET n == Cardinality(K)
  IN {[k \in 1..n |-> q[f[k]]] : f \in Bijection(1..n, K)}

\* The queues jit_sort_queue() may leave when the slots K of q are kept: the
\* arrangement in time order, or any one if the stamps span too much of the
\* counter to be ordered.
Arrange(q, K) ==
  LET n == Cardinality(K)
      all == {[k \in 1..n |-> q[f[k]]] : f \in Bijection(1..n, K)}
      ordered == {s \in all : Ordered(s)}
  IN IF ordered # {} THEN ordered ELSE all

\* jit_peek() drops the packets that seem too far ahead. Once it has dropped
\* the head, the loop goes on at the second slot, so that the node that has
\* become the head is neither dropped nor selected.
Outdated(n, t) == Ahead(n.count, t) >= TX_MAX_ADVANCE_DELAY
Skipped(q, t) ==
  IF q # << >> /\ Outdated(q[1], t) THEN {2} \cap DOMAIN q ELSE {}
Seen(q, t) == {i \in DOMAIN q : ~Outdated(q[i], t)} \ Skipped(q, t)
Kept(q, t) == Seen(q, t) \cup Skipped(q, t)

\* Mutant of Due: the earliest packet is selected however far ahead it is.
DueAnyTime(q, t) ==
  {i \in Seen(q, t) :
     \A j \in Seen(q, t) : Ahead(q[i].count, t) <= Ahead(q[j].count, t)}

\* The slots a peek may select: the earliest packet it has seen, if it is to
\* be sent within TX_JIT_DELAY.
Due(q, t) ==
  {i \in Seen(q, t) :
     /\ Ahead(q[i].count, t) < TX_JIT_DELAY
     /\ \A j \in Seen(q, t) : Ahead(q[i].count, t) <= Ahead(q[j].count, t)}

BeaconSlots(q) == {i \in DOMAIN q : q[i].type = "BEACON"}

-----------------------------------------------------------------------------
\* What the queue is for: two reservations that share no air time.
\* The time reserved before m's departure, as far as n is concerned: the
\* guard interval of a beacon binds Class B packets and beacons only.
Lead(m, n) ==
  IF m.type = "BEACON" /\ n.type \in {"A", "C"} THEN TX_START_DELAY
                                                ELSE m.pre
Clear(m, n) == Ahead(m.count, n.count) > Lead(m, n) + n.post + TX_MARGIN_DELAY
Compatible(m, n) == Clear(m, n) /\ Clear(n, m)
=============================================================================
