------------------------------ MODULE JitQueue ------------------------------
(***************************************************************************)
(* One JiT queue of jitqueue/jitqueue.c with the calls that are made on    *)
(* it, each taken as one step: jit_enqueue() by the downlink and beacon    *)
(* code, and the peek followed by a dequeue of jitRunner(). TxPath.tla     *)
(* models the same calls at the grain of their critical sections.          *)
(*                                                                         *)
(* A refused packet leaves the queue as it was: such a call is a           *)
(* stuttering step.                                                        *)
(***************************************************************************)
EXTENDS JitOps

CONSTANTS
  BEACON_ADVANCE, \* bound: beacons are placed at most this far ahead
  POLL_MAX        \* bound: the time between two polls of the queue

ASSUME QueueAssumption ==
  BEACON_ADVANCE \in Nat /\ POLL_MAX \in Nat \ {0}

VARIABLES
  nodes,      \* the used part of nodes[], in order; its length is num_pkt
  num_beacon, \* the queue's count of its beacons
  now,        \* the concentrator's counter
  idle        \* time since jitRunner last polled the queue

vars == <<nodes, num_beacon, now, idle>>

TypeOK ==
  /\ nodes \in Seq(Node)
  /\ Len(nodes) <= JIT_QUEUE_MAX
  /\ num_beacon \in Nat
  /\ now \in Counter
  /\ idle \in 0 .. POLL_MAX

Init ==
  /\ nodes = << >>
  /\ num_beacon = 0
  /\ now \in Counter
  /\ idle = 0

-----------------------------------------------------------------------------
\* jit_enqueue() of a packet that passes all the checks.
Enqueue(p) ==
  /\ ~IsFull(nodes)
  /\ Acceptable(nodes, p, now)
  /\ nodes' \in Arrange(Append(nodes, p), 1 .. Len(nodes)+1)
  /\ num_beacon' = num_beacon + (IF p.type = "BEACON" THEN 1 ELSE 0)
  /\ UNCHANGED <<now, idle>>

\* The server chooses the time stamp of a Class A or B downlink.
EnqueueTimestamped ==
  \E type \in {"A", "B"}, count \in Counter, toa \in TOA :
     Enqueue(NewNode(count, type, toa))

\* A Class C downlink is sent as soon as there is room.
EnqueueImmediate ==
  \E toa \in TOA : \E count \in AsapCounts(nodes, now, toa) :
     Enqueue(NewNode(count, "C", toa))

\* downstreamBeaconRunner() places the beacons of the coming periods.
EnqueueBeacon ==
  \E d \in 1 .. BEACON_ADVANCE, toa \in TOA :
     Enqueue(NewNode(Add(now, d), "BEACON", toa))

\* Mutant of BeaconsOut: a purge does not count the beacons it drops.
BeaconsOutNoPurge(keep) ==
  Cardinality({i \in BeaconSlots(nodes) \ keep : ~Outdated(nodes[i], now)})

\* The number of beacons that leave when the slots keep stay.
BeaconsOut(keep) == Cardinality(BeaconSlots(nodes) \ keep)

\* Mutant of Poll: jit_peek()'s test for an empty queue is inverted.
PollEmptyOnly ==
  /\ nodes = << >>
  /\ idle' = 0
  /\ UNCHANGED <<nodes, num_beacon, now>>

\* jitRunner(): a peek, which purges the queue, and the dequeue of the
\* packet it selects, if any.
Poll ==
  LET due == Due(nodes, now)
      selections == IF due = {} THEN {{}} ELSE {{i} : i \in due}
  IN \E taken \in selections :
       LET keep == Kept(nodes, now) \ taken
       IN /\ nodes' \in Arrange(nodes, keep)
          /\ num_beacon' = num_beacon - BeaconsOut(keep)
          /\ idle' = 0
          /\ UNCHANGED now

Tick ==
  /\ idle < POLL_MAX
  /\ now' = Add(now, 1)
  /\ idle' = idle + 1
  /\ UNCHANGED <<nodes, num_beacon>>

Next == EnqueueTimestamped \/ EnqueueImmediate \/ EnqueueBeacon \/ Poll \/ Tick

Spec == Init /\ [][Next]_vars

\* Time passes and the jitRunner thread keeps polling.
FairSpec == Spec /\ WF_vars(Tick) /\ WF_vars(Poll)

-----------------------------------------------------------------------------
\* The queue as the set of the reservations it holds.
Schedule == INSTANCE JitSchedule WITH air <- Range(nodes)

\* No two queued packets share air time, whatever the order in which they
\* came and whichever beacon guards were ignored on the way in
\* (jit_enqueue's criterion 3, kept by every purge, dequeue and sort).
NoOverlap ==
  \A i, j \in DOMAIN nodes :
     i # j => Compatible(nodes[i], nodes[j])

\* num_beacon, from which the beacon thread computes how many beacons to add,
\* is the number of beacons in the queue on every path that removes one.
BeaconCount == num_beacon = Cardinality(BeaconSlots(nodes))

\* The queue is in the order of the departures, across the roll-over of the
\* counter: the Class C search and the selection of a peek rely on it.
Sorted == Ordered(nodes)

\* A queued packet is always still to depart, with the time the radio needs to
\* start: it will be handed to the concentrator in time (criterion 1 against
\* the peek window and the polling period).
OnTime ==
  \A i \in DOMAIN nodes :
     LET d == Ahead(nodes[i].count, now) IN TX_START_DELAY < d /\ 2 * d < W

\* A Class C downlink is never refused while the queue has room: the slot the
\* search finds always passes the three criteria.
ClassCAlwaysPlaced ==
  ~IsFull(nodes) =>
    \A toa \in TOA : \E count \in AsapCounts(nodes, now, toa) :
       Acceptable(nodes, NewNode(count, "C", toa), now)

\* A queued packet is not stuck: sent or dropped, it leaves the queue, even
\* when a purge has skipped it. Stated of the packets stamped 0: adding the
\* same number to every stamp and to now maps behaviours to behaviours.
QueuedPacketLeaves ==
  LET queued == \E i \in DOMAIN nodes : nodes[i].count = 0
  IN queued ~> ~queued

\* jitqueue.c:380: "If a packet seems too much in advance, and was not
\* rejected at enqueue time, it means that we missed it for peeking, we need
\* to drop it": a Class A packet leaves the queue only shortly before its
\* departure or when it has been missed.
DropsOnlyMissed ==
  [][\A i \in DOMAIN nodes :
       (nodes[i].type = "A" /\ nodes[i] \notin Range(nodes')) =>
         LET d == Ahead(nodes[i].count, now)
         IN d < TX_JIT_DELAY \/ 2 * d >= W]_vars

\* The abstract specification, as a property of this one: reservations are
\* granted in time and exclusive, taken when due, given up when outdated.
Refines == Schedule!Spec
=============================================================================
