--------------------------- MODULE JitQueueProofs ---------------------------
(***************************************************************************)
(* Theorems about JitQueue for every value of the constants: the queue     *)
(* never holds more packets than its array, no two queued packets share    *)
(* air time, num_beacon counts the beacons, and the queue implements the   *)
(* abstract JitSchedule. Then, for a counter that is wide beside the       *)
(* delays, as the program's is: the queue is in the order of the           *)
(* departures, every packet in it is on time, and the search for a Class C *)
(* downlink finds a place that jit_enqueue() accepts.                      *)
(***************************************************************************)
EXTENDS JitQueue, JitOpsProofs

\* The three invariants are inductive together: the beacons are counted on a
\* well-formed queue, and a new packet is compared with well-formed nodes.
IInv == TypeOK /\ NoOverlap /\ BeaconCount

-----------------------------------------------------------------------------
\* Whoever calls jit_enqueue(), what enters the queue is a node: the slot
\* search of a Class C downlink yields a value of the counter.
LEMMA EnqueueOfNode ==
  ASSUME TypeOK, EnqueueTimestamped \/ EnqueueImmediate \/ EnqueueBeacon
  PROVE  \E p \in Node : Enqueue(p)
<1>1. CASE EnqueueTimestamped
  BY <1>1 DEF EnqueueTimestamped, Node, PktType
<1>2. CASE EnqueueImmediate
  <2>0. PICK toa \in TOA : \E count \in AsapCounts(nodes, now, toa) :
          Enqueue(NewNode(count, "C", toa))
    BY <1>2 DEF EnqueueImmediate
  <2>1. PICK count \in AsapCounts(nodes, now, toa) :
          Enqueue(NewNode(count, "C", toa))
    BY <2>0
  <2>2. count \in Counter
    BY <2>1, AsapInRange DEF TypeOK
  <2> QED
    BY <2>1, <2>2 DEF Node, PktType
<1>3. CASE EnqueueBeacon
  <2>1. PICK d \in 1 .. BEACON_ADVANCE, toa \in TOA :
          Enqueue(NewNode(Add(now, d), "BEACON", toa))
    BY <1>3 DEF EnqueueBeacon
  <2>2. now \in Int /\ d \in Int
    BY JitAssumption, QueueAssumption DEF TypeOK, Counter
  <2>3. Add(now, d) \in Counter
    BY <2>2, CounterClosed
  <2> QED
    BY <2>1, <2>3 DEF Node, PktType
<1> QED
  BY <1>1, <1>2, <1>3

\* The queue that jit_enqueue() sorts: the old one with the packet at its end.
LEMMA Appended ==
  ASSUME TypeOK, NEW p \in Node, Enqueue(p)
  PROVE  LET q == Append(nodes, p)
         IN /\ q \in Seq(Node)
            /\ Len(q) = Len(nodes) + 1
            /\ DOMAIN q = 1 .. Len(nodes)+1
            /\ q[Len(nodes)+1] = p
            /\ \A i \in DOMAIN nodes : q[i] = nodes[i]
            /\ DOMAIN q = DOMAIN nodes \cup {Len(nodes)+1}
            /\ Len(nodes)+1 \notin DOMAIN nodes
            /\ nodes' \in Arrange(q, DOMAIN q)
BY DEF TypeOK, Enqueue

LEMMA EnqueueTypeOK ==
  ASSUME TypeOK, NEW p \in Node, Enqueue(p)
  PROVE  TypeOK'
<1> DEFINE q == Append(nodes, p)
<1>1. q \in Seq(Node) /\ Len(q) = Len(nodes)+1 /\ nodes' \in Arrange(q, DOMAIN q)
  BY Appended
<1> HIDE DEF q
<1>2. nodes' \in Seq(Node) /\ Len(nodes') <= Len(nodes)+1 /\ Len(nodes') \in Nat
  BY <1>1, ArrangeKeeps
<1>3. Len(nodes) # JIT_QUEUE_MAX /\ Len(nodes) <= JIT_QUEUE_MAX /\ Len(nodes) \in Nat
  BY DEF Enqueue, IsFull, TypeOK
<1>4. Len(nodes') <= JIT_QUEUE_MAX
  BY <1>2, <1>3, JitAssumption
<1>5. num_beacon' \in Nat /\ now' \in Counter /\ idle' \in 0 .. POLL_MAX
  BY DEF Enqueue, TypeOK
<1> QED
  BY <1>2, <1>4, <1>5 DEF TypeOK

LEMMA EnqueueNoOverlap ==
  ASSUME TypeOK, NoOverlap, NEW p \in Node, Enqueue(p)
  PROVE  NoOverlap'
<1>1. Acceptable(nodes, p, now) /\ nodes' \in Arrange(Append(nodes, p), 1 .. Len(nodes)+1)
  BY DEF Enqueue
<1>2. \A i, j \in DOMAIN nodes' : i # j => Compatible(nodes'[i], nodes'[j])
  BY <1>1, InsertCompatible DEF TypeOK, NoOverlap
<1> QED
  BY <1>2 DEF NoOverlap

LEMMA EnqueueBeaconCount ==
  ASSUME TypeOK, BeaconCount, NEW p \in Node, Enqueue(p)
  PROVE  BeaconCount'
<1> DEFINE q == Append(nodes, p)
           last == Len(nodes) + 1
           old == BeaconSlots(nodes)
<1>1. /\ q \in Seq(Node) /\ q[last] = p
      /\ \A i \in DOMAIN nodes : q[i] = nodes[i]
      /\ DOMAIN q = DOMAIN nodes \cup {last}
      /\ last \notin DOMAIN nodes
      /\ nodes' \in Arrange(q, DOMAIN q)
  BY Appended
<1>2. IsFiniteSet(old)
  <2>1. Len(nodes) \in Nat /\ DOMAIN nodes = 1 .. Len(nodes)
    BY DEF TypeOK
  <2> QED
    BY <2>1, IndexRange, FS_Subset DEF BeaconSlots
<1>3. Cardinality(BeaconSlots(nodes')) = Cardinality(BeaconSlots(q))
  <2>1. BeaconSlots(q) \cap DOMAIN q = BeaconSlots(q)
    BY DEF BeaconSlots
  <2>2. DOMAIN q \in SUBSET DOMAIN q
    OBVIOUS
  <2>3. Cardinality(BeaconSlots(nodes')) = Cardinality(BeaconSlots(q) \cap DOMAIN q)
    BY <1>1, <2>2, ArrangeBeacons
  <2> QED
    BY <2>1, <2>3
<1>4. CASE p.type = "BEACON"
  <2>1. BeaconSlots(q) = old \cup {last} /\ last \notin old
    BY <1>1, <1>4 DEF BeaconSlots
  <2>2. Cardinality(old \cup {last}) = Cardinality(old) + 1
    BY <1>2, <2>1, FS_AddElement
  <2> QED
    BY <1>3, <1>4, <2>1, <2>2 DEF BeaconCount, Enqueue
<1>5. CASE p.type # "BEACON"
  <2>1. BeaconSlots(q) = old
    BY <1>1, <1>5 DEF BeaconSlots
  <2> QED
    BY <1>3, <1>5, <2>1 DEF BeaconCount, Enqueue, TypeOK
<1> QED
  BY <1>4, <1>5

-----------------------------------------------------------------------------
\* What a poll leaves in the queue: some of its slots, among them every one
\* that is neither outdated nor the packet taken.
LEMMA PollLeaves ==
  ASSUME TypeOK, Poll
  PROVE  \E keep \in SUBSET DOMAIN nodes :
           /\ nodes' \in Arrange(nodes, keep)
           /\ num_beacon' = num_beacon - BeaconsOut(keep)
           /\ \E taken \in SUBSET Due(nodes, now) :
                /\ \A i, j \in taken : i = j
                /\ \A i \in DOMAIN nodes \ keep :
                     i \in taken \/ Outdated(nodes[i], now)
<1> DEFINE due == Due(nodes, now)
           selections == IF due = {} THEN {{}} ELSE {{i} : i \in due}
<1>1. PICK taken \in selections :
        /\ nodes' \in Arrange(nodes, Kept(nodes, now) \ taken)
        /\ num_beacon' = num_beacon - BeaconsOut(Kept(nodes, now) \ taken)
  BY DEF Poll
<1>2. Kept(nodes, now) \subseteq DOMAIN nodes
  BY DEF Kept, Seen, Skipped
<1>3. taken \subseteq due /\ \A i, j \in taken : i = j
  BY <1>1
<1>4. \A i \in DOMAIN nodes \ Kept(nodes, now) : Outdated(nodes[i], now)
  BY DEF Kept, Seen
<1> QED
  BY <1>1, <1>2, <1>3, <1>4

LEMMA PollKeepsIInv ==
  ASSUME IInv, Poll
  PROVE  IInv'
<1> USE DEF IInv
<1>1. PICK keep \in SUBSET DOMAIN nodes :
        /\ nodes' \in Arrange(nodes, keep)
        /\ num_beacon' = num_beacon - BeaconsOut(keep)
  BY PollLeaves
<1>2. nodes \in Seq(Node) /\ Len(nodes) \in Nat /\ DOMAIN nodes = 1 .. Len(nodes)
  BY DEF TypeOK
<1> DEFINE B == BeaconSlots(nodes)
<1>3. /\ IsFiniteSet(B \cap keep) /\ IsFiniteSet(B \ keep)
      /\ Cardinality(B) = Cardinality(B \cap keep) + Cardinality(B \ keep)
      /\ Cardinality(B \cap keep) \in Nat /\ Cardinality(B \ keep) \in Nat
  <2>1. IsFiniteSet(B)
    BY <1>2, IndexRange, FS_Subset DEF BeaconSlots
  <2> QED
    BY <2>1, Split
<1>4. Cardinality(BeaconSlots(nodes')) = Cardinality(B \cap keep)
  BY <1>1, <1>2, ArrangeBeacons
<1>5. num_beacon' = Cardinality(B \cap keep)
  BY <1>1, <1>3 DEF BeaconCount, BeaconsOut
<1>6. TypeOK'
  <2>1. nodes' \in Seq(Node) /\ Len(nodes') <= Len(nodes) /\ Len(nodes') \in Nat
    BY <1>1, <1>2, ArrangeKeeps
  <2>2. Len(nodes') <= JIT_QUEUE_MAX
    BY <1>2, <2>1, JitAssumption DEF TypeOK
  <2>3. now' \in Counter /\ idle' \in 0 .. POLL_MAX
    BY QueueAssumption DEF Poll, TypeOK
  <2> QED
    BY <1>3, <1>5, <2>1, <2>2, <2>3 DEF TypeOK
<1>7. NoOverlap'
  <2>1. \A i, j \in keep : i # j => Compatible(nodes[i], nodes[j])
    BY DEF NoOverlap
  <2>2. \A i, j \in DOMAIN nodes' : i # j => Compatible(nodes'[i], nodes'[j])
    BY <1>1, <1>2, <2>1, ArrangeKeeps
  <2> QED
    BY <2>2 DEF NoOverlap
<1>8. BeaconCount'
  BY <1>4, <1>5 DEF BeaconCount
<1> QED
  BY <1>6, <1>7, <1>8

-----------------------------------------------------------------------------
LEMMA InitIInv == Init => IInv
<1> SUFFICES ASSUME Init PROVE IInv
  OBVIOUS
<1>1. TypeOK
  BY JitAssumption, QueueAssumption DEF Init, TypeOK
<1>2. NoOverlap
  BY DEF Init, NoOverlap
<1>3. BeaconSlots(nodes) = {}
  BY DEF Init, BeaconSlots
<1>4. BeaconCount
  BY <1>3, FS_EmptySet DEF Init, BeaconCount
<1> QED
  BY <1>1, <1>2, <1>4 DEF IInv

LEMMA NextIInv == IInv /\ [Next]_vars => IInv'
<1> SUFFICES ASSUME IInv, [Next]_vars PROVE IInv'
  OBVIOUS
<1>1. CASE EnqueueTimestamped \/ EnqueueImmediate \/ EnqueueBeacon
  <2>1. PICK p \in Node : Enqueue(p)
    BY <1>1, EnqueueOfNode DEF IInv
  <2> QED
    BY <2>1, EnqueueTypeOK, EnqueueNoOverlap, EnqueueBeaconCount DEF IInv
<1>2. CASE Poll
  BY <1>2, PollKeepsIInv
<1>3. CASE Tick
  <2>1. now' \in Counter
    BY <1>3, CounterClosed DEF Tick, IInv, TypeOK, Counter
  <2>2. idle' \in 0 .. POLL_MAX
    BY <1>3, QueueAssumption DEF Tick, IInv, TypeOK
  <2> QED
    BY <1>3, <2>1, <2>2 DEF Tick, IInv, TypeOK, NoOverlap, BeaconCount
<1>4. CASE UNCHANGED vars
  BY <1>4 DEF vars, IInv, TypeOK, NoOverlap, BeaconCount
<1> QED
  BY <1>1, <1>2, <1>3, <1>4 DEF Next

\* Type, exclusive air time and the count of beacons are kept together by every
\* call on the queue (jit_enqueue, jit_peek, jit_dequeue).
THEOREM Inductive == Spec => []IInv
BY InitIInv, NextIInv, PTL DEF Spec

\* The queue keeps its type: in particular num_pkt never exceeds the array,
\* when each call runs on its own.
THEOREM TypeCorrect == Spec => []TypeOK
<1>1. IInv => TypeOK
  BY DEF IInv
<1> QED
  BY <1>1, Inductive, PTL

\* No two queued packets ever share air time.
THEOREM AirTimeExclusive == Spec => []NoOverlap
<1>1. IInv => NoOverlap
  BY DEF IInv
<1> QED
  BY <1>1, Inductive, PTL

\* num_beacon is always the number of queued beacons.
THEOREM BeaconsCounted == Spec => []BeaconCount
<1>1. IInv => BeaconCount
  BY DEF IInv
<1> QED
  BY <1>1, Inductive, PTL

-----------------------------------------------------------------------------
\* The instance of JitSchedule has its own copy of the operators of JitOps.
LEMMA SameCounter ==
  /\ Schedule!Counter = Counter
  /\ \A x, y : Schedule!Add(x, y) = Add(x, y) /\ Schedule!Ahead(x, y) = Ahead(x, y)
BY DEF Schedule!Counter, Counter, Schedule!Add, Add, Schedule!Ahead, Ahead

LEMMA SameNode == Schedule!Node = Node
BY DEF Schedule!Node, Node, Schedule!Counter, Counter, Schedule!PktType, PktType,
       Schedule!NewNode, NewNode, Schedule!PreDelay, PreDelay,
       Schedule!PostDelay, PostDelay

LEMMA SameTests ==
  \A n, t : /\ Schedule!TooLate(n, t) = TooLate(n, t)
            /\ Schedule!Outdated(n, t) = Outdated(n, t)
BY DEF Schedule!TooLate, TooLate, Schedule!Outdated, Outdated,
       Schedule!Ahead, Ahead

LEMMA SameCompatible ==
  \A m, n : Schedule!Compatible(m, n) = Compatible(m, n)
BY DEF Schedule!Compatible, Compatible, Schedule!Clear, Clear,
       Schedule!Ahead, Ahead, Schedule!Lead, Lead

LEMMA SameCardinality == \A S : Schedule!Cardinality(S) = Cardinality(S)
BY DEF Schedule!Cardinality, Cardinality

\* Two slots never hold the same reservation.
LEMMA SlotsDistinct ==
  ASSUME TypeOK, NoOverlap
  PROVE  \A i, j \in DOMAIN nodes : nodes[i] = nodes[j] => i = j
<1>1. \A i \in DOMAIN nodes : nodes[i] \in Node
  BY DEF TypeOK
<1> QED
  BY <1>1, SelfConflict DEF NoOverlap

\* The reservations are no more than the used slots.
LEMMA RangeBounded ==
  ASSUME TypeOK
  PROVE  /\ IsFiniteSet(Range(nodes))
         /\ Cardinality(Range(nodes)) \in Nat
         /\ Cardinality(Range(nodes)) <= Len(nodes)
<1>1. Len(nodes) \in Nat /\ DOMAIN nodes = 1 .. Len(nodes)
  BY DEF TypeOK
<1>2. nodes \in Surjection(1 .. Len(nodes), Range(nodes))
  BY <1>1 DEF TypeOK, Surjection, Range
<1>3. IsFiniteSet(1 .. Len(nodes)) /\ Cardinality(1 .. Len(nodes)) = Len(nodes)
  BY <1>1, IndexRange
<1>4. /\ IsFiniteSet(Range(nodes))
      /\ Cardinality(Range(nodes)) <= Cardinality(1 .. Len(nodes))
  BY <1>2, <1>3, FS_Surjection
<1> QED
  BY <1>3, <1>4, FS_CardinalityType

\* An accepted packet is a reservation granted.
LEMMA EnqueueGrants ==
  ASSUME IInv, NEW p \in Node, Enqueue(p)
  PROVE  Schedule!Next
<1> DEFINE q == Append(nodes, p)
<1>1. /\ q \in Seq(Node) /\ q[Len(nodes)+1] = p
      /\ \A i \in DOMAIN nodes : q[i] = nodes[i]
      /\ DOMAIN q = DOMAIN nodes \cup {Len(nodes)+1}
      /\ DOMAIN q \in SUBSET DOMAIN q
      /\ nodes' \in Arrange(q, DOMAIN q)
  BY Appended DEF IInv
<1>2. Range(nodes') = {q[i] : i \in DOMAIN q}
  <2> HIDE DEF q
  <2> QED BY <1>1, ArrangeKeeps
<1>3. Range(nodes') = Range(nodes) \cup {p}
  BY <1>1, <1>2 DEF Range
<1>4. \A i \in DOMAIN nodes :
        Compatible(nodes[i], p) /\ nodes[i] # p
  <2> SUFFICES ASSUME NEW i \in DOMAIN nodes
               PROVE  Compatible(nodes[i], p) /\ nodes[i] # p
    OBVIOUS
  <2>1. nodes[i] \in Node /\ ~Collides(p, nodes[i])
    BY DEF IInv, TypeOK, Enqueue, Acceptable
  <2> QED
    BY <2>1, CollisionFree, SelfConflict
<1>5. /\ \A m \in Range(nodes) : Compatible(m, p)
      /\ p \notin Range(nodes)
  BY <1>4 DEF Range
<1>6. Cardinality(Range(nodes)) < JIT_QUEUE_MAX
  <2>1. Len(nodes) < JIT_QUEUE_MAX /\ Len(nodes) \in Nat
    BY JitAssumption DEF IInv, TypeOK, Enqueue, IsFull
  <2> QED
    BY <2>1, RangeBounded, JitAssumption DEF IInv
<1>7. ~TooLate(p, now) /\ now' = now
  BY DEF Enqueue, Acceptable
<1>8. Schedule!Grant(p)
  BY <1>3, <1>5, <1>6, <1>7, SameTests, SameCompatible, SameCardinality
     DEF Schedule!Grant, Range
<1> QED
  BY <1>5, <1>8, SameNode DEF Schedule!Next

\* A poll gives up outdated reservations and takes at most one that is due.
LEMMA PollServes ==
  ASSUME IInv, Poll
  PROVE  Schedule!Next
<1>1. PICK keep \in SUBSET DOMAIN nodes :
        /\ nodes' \in Arrange(nodes, keep)
        /\ \E taken \in SUBSET Due(nodes, now) :
             /\ \A i, j \in taken : i = j
             /\ \A i \in DOMAIN nodes \ keep :
                  i \in taken \/ Outdated(nodes[i], now)
  BY PollLeaves DEF IInv
<1>2. PICK taken \in SUBSET Due(nodes, now) :
        /\ \A i, j \in taken : i = j
        /\ \A i \in DOMAIN nodes \ keep :
             i \in taken \/ Outdated(nodes[i], now)
  BY <1>1
<1> DEFINE out == DOMAIN nodes \ keep
           goneSlots == {i \in out : Outdated(nodes[i], now)}
           takenSlots == out \cap taken
           gone == {nodes[i] : i \in goneSlots}
           tk == {nodes[i] : i \in takenSlots}
<1>3. Range(nodes') = {nodes[i] : i \in keep}
  BY <1>1, ArrangeKeeps DEF IInv, TypeOK
<1>4. \A i, j \in DOMAIN nodes : nodes[i] = nodes[j] => i = j
  BY SlotsDistinct DEF IInv
<1>5. out = goneSlots \cup takenSlots
  BY <1>2
<1>6. Range(nodes') = Range(nodes) \ (gone \cup tk)
  BY <1>3, <1>4, <1>5 DEF Range
<1>7. gone \in SUBSET Range(nodes) /\ tk \in SUBSET Range(nodes)
  BY DEF Range
<1>8. \A n \in gone : Outdated(n, now)
  OBVIOUS
<1>9. \A n \in tk : Ahead(n.count, now) < TX_JIT_DELAY
  BY <1>2 DEF Due
<1>10. \A m, n \in tk : m = n
  BY <1>2
<1>11. now' = now
  BY DEF Poll
<1> HIDE DEF gone, tk
<1>12. Schedule!Serve(gone, tk)
  BY <1>6, <1>8, <1>9, <1>10, <1>11, SameTests, SameCounter
     DEF Schedule!Serve, Range
<1> QED
  BY <1>7, <1>12 DEF Schedule!Next

\* The JiT queue implements the abstract schedule: every reservation that is
\* granted is in time and exclusive, and it is only taken when due or given
\* up when outdated.
THEOREM ImplementsSchedule == Spec => Refines
<1>1. Init => Schedule!Init
  BY SameCounter DEF Init, Schedule!Init, Range
<1>2. IInv /\ [Next]_vars => [Schedule!Next]_(Schedule!vars)
  <2> SUFFICES ASSUME IInv, [Next]_vars
               PROVE  [Schedule!Next]_(Schedule!vars)
    OBVIOUS
  <2>1. CASE EnqueueTimestamped \/ EnqueueImmediate \/ EnqueueBeacon
    <3>1. PICK p \in Node : Enqueue(p)
      BY <2>1, EnqueueOfNode DEF IInv
    <3> QED
      BY <3>1, EnqueueGrants
  <2>2. CASE Poll
    BY <2>2, PollServes
  <2>3. CASE Tick
    BY <2>3, SameCounter DEF Tick, Schedule!Next, Schedule!Elapse, Range
  <2>4. CASE UNCHANGED vars
    BY <2>4 DEF vars, Schedule!vars, Range
  <2> QED
    BY <2>1, <2>2, <2>3, <2>4 DEF Next
<1> QED
  BY <1>1, <1>2, Inductive, PTL DEF Spec, Refines, Schedule!Spec

-----------------------------------------------------------------------------
\* The queue under the pace of the program. jitRunner polls it often enough
\* and the beacons are placed within the window that Wide describes.
Paced(H) ==
  /\ BEACON_ADVANCE <= H
  /\ POLL_MAX + TX_START_DELAY < TX_JIT_DELAY
  /\ 2 * POLL_MAX <= TX_JIT_DELAY + TX_MARGIN_DELAY

\* How near a queued packet can have come at t, e after the last poll. A poll takes
\* the earliest packet that is nearer than TX_JIT_DELAY. What is behind it is
\* farther than that, by its own lead, save for a beacon behind a downlink that
\* was placed within its guard: a later poll takes that one.
InTime(n, t, e) ==
  LET d == Ahead(n.count, t)
  IN \/ TX_JIT_DELAY - e <= d
     \/ /\ n.type = "BEACON"
        /\ TX_JIT_DELAY - POLL_MAX - e + TX_START_DELAY + TX_MARGIN_DELAY < d

\* The window, the order and the nearness are inductive together: the order is
\* kept because the packets are in the window, the slot search stays in the
\* window because the queue is in order, and the poll takes the nearest packet
\* because it is the first.
WInv(H) ==
  /\ IInv
  /\ Within(nodes, now, H)
  /\ Ordered(nodes)
  /\ \A i \in DOMAIN nodes : InTime(nodes[i], now, idle)

\* What enters the queue departs within the window.
LEMMA EnqueueInWindow ==
  ASSUME NEW X \in Nat, NEW H \in Nat, Wide(X, H), Paced(H), WInv(H),
         EnqueueTimestamped \/ EnqueueImmediate \/ EnqueueBeacon
  PROVE  \E p \in Node : Enqueue(p) /\ Ahead(p.count, now) <= H
<1>0. now \in Counter /\ nodes \in Seq(Node) /\ TypeOK
  BY DEF WInv, IInv, TypeOK
<1>1. CASE EnqueueTimestamped
  <2>1. PICK type \in {"A", "B"}, count \in Counter, toa \in TOA :
          Enqueue(NewNode(count, type, toa))
    BY <1>1 DEF EnqueueTimestamped
  <2> DEFINE p == NewNode(count, type, toa)
  <2>2. p \in Node /\ p.count = count /\ p.type = type
    BY DEF Node, PktType, NewNode
  <2>3. ~TooEarly(p, now)
    BY <2>1 DEF Enqueue, Acceptable
  <2>4. ~(Ahead(count, now) > TX_MAX_ADVANCE_DELAY)
    BY <2>2, <2>3 DEF TooEarly
  <2>5. Ahead(count, now) \in Int
    BY <1>0, AheadFrom
  <2>6. Ahead(count, now) <= H
    BY <2>4, <2>5, JitAssumption DEF Wide
  <2> QED BY <2>1, <2>2, <2>6
<1>2. CASE EnqueueImmediate
  <2>1. PICK toa \in TOA : \E count \in AsapCounts(nodes, now, toa) :
          Enqueue(NewNode(count, "C", toa))
    BY <1>2 DEF EnqueueImmediate
  <2>2. PICK count \in AsapCounts(nodes, now, toa) :
          Enqueue(NewNode(count, "C", toa))
    BY <2>1
  <2>3. Len(nodes) < JIT_QUEUE_MAX
    BY <2>2, JitAssumption DEF Enqueue, IsFull, WInv, IInv, TypeOK
  <2>4. count \in Counter /\ Ahead(count, now) <= H
    BY <1>0, <2>3, AsapInWindow DEF WInv
  <2>5. NewNode(count, "C", toa) \in Node /\ NewNode(count, "C", toa).count = count
    BY <2>4 DEF Node, PktType, NewNode
  <2> QED BY <2>2, <2>4, <2>5
<1>3. CASE EnqueueBeacon
  <2>1. PICK d \in 1 .. BEACON_ADVANCE, toa \in TOA :
          Enqueue(NewNode(Add(now, d), "BEACON", toa))
    BY <1>3 DEF EnqueueBeacon
  <2>2. Ahead(now, now) = 0
    BY <1>0, JitAssumption DEF Ahead, Counter
  <2>3. d \in Nat /\ d <= H /\ H < W /\ W \in Nat
    BY QueueAssumption, JitAssumption DEF Paced, Wide, Step
  <2>4. Ahead(now, now) + d < W
    BY <2>2, <2>3
  <2>5. Add(now, d) \in Counter /\ Ahead(Add(now, d), now) = d
    BY <1>0, <2>2, <2>3, <2>4, AddFrom
  <2> DEFINE p == NewNode(Add(now, d), "BEACON", toa)
  <2>6. p \in Node /\ p.count = Add(now, d)
    BY <2>5 DEF Node, PktType, NewNode
  <2> QED BY <2>1, <2>3, <2>5, <2>6
<1> QED BY <1>1, <1>2, <1>3

\* Enqueuing keeps the window, the order and the nearness.
LEMMA EnqueueKeepsWInv ==
  ASSUME NEW X \in Nat, NEW H \in Nat, Wide(X, H), Paced(H), WInv(H), IInv',
         NEW p \in Node, Enqueue(p), Ahead(p.count, now) <= H
  PROVE  WInv(H)'
<1> DEFINE q == Append(nodes, p)
<1>0. TypeOK /\ now \in Counter /\ idle \in 0 .. POLL_MAX
  BY DEF WInv, IInv, TypeOK
<1>1. /\ q \in Seq(Node) /\ q[Len(nodes)+1] = p
      /\ \A i \in DOMAIN nodes : q[i] = nodes[i]
      /\ DOMAIN q = DOMAIN nodes \cup {Len(nodes)+1}
      /\ DOMAIN q \in SUBSET DOMAIN q
      /\ nodes' \in Arrange(q, DOMAIN q)
  BY <1>0, Appended
<1>2. now' = now /\ idle' = idle
  BY DEF Enqueue
<1> HIDE DEF q
<1>3. \A i \in DOMAIN q : Ahead(q[i].count, now) <= H
  BY <1>1 DEF WInv, Within
<1>4. 2 * H < W
  BY JitAssumption DEF Wide, Step
<1>5. Ordered(nodes')
  BY <1>0, <1>1, <1>3, <1>4, ArrangeOrders
<1>6. Range(nodes') = {q[i] : i \in DOMAIN q}
  BY <1>1, ArrangeKeeps
<1>7. \A i \in DOMAIN nodes' : \E j \in DOMAIN q : nodes'[i] = q[j]
  BY <1>6 DEF Range
<1>8. Within(nodes', now', H)
  BY <1>2, <1>3, <1>7 DEF Within
<1>9. InTime(p, now, idle)
  <2>1. ~(Ahead(p.count, now) <= TX_START_DELAY + TX_MARGIN_DELAY + TX_JIT_DELAY)
    BY DEF Enqueue, Acceptable, TooLate
  <2>2. p.count \in Counter
    BY NodeFields
  <2>3. Ahead(p.count, now) \in Int
    BY <1>0, <2>2, AheadFrom
  <2>4. TX_JIT_DELAY - idle <= Ahead(p.count, now)
    BY <1>0, <2>1, <2>3, JitAssumption, QueueAssumption
  <2> QED BY <2>4 DEF InTime
<1>10. \A j \in DOMAIN q : InTime(q[j], now, idle)
  BY <1>1, <1>9 DEF WInv
<1>11. \A i \in DOMAIN nodes' : InTime(nodes'[i], now', idle')
  BY <1>2, <1>7, <1>10
<1> QED BY <1>5, <1>8, <1>11 DEF WInv

\* Time passes: every packet comes one nearer.
LEMMA TickKeepsWInv ==
  ASSUME NEW X \in Nat, NEW H \in Nat, Wide(X, H), Paced(H), WInv(H), IInv', Tick
  PROVE  WInv(H)'
<1>0. /\ now \in Counter /\ idle \in 0 .. POLL_MAX /\ idle < POLL_MAX
      /\ now' = Add(now, 1) /\ idle' = idle + 1 /\ nodes' = nodes
      /\ nodes \in Seq(Node) /\ POLL_MAX \in Nat
  BY QueueAssumption DEF WInv, IInv, TypeOK, Tick
<1>1. ASSUME NEW i \in DOMAIN nodes
      PROVE  /\ Ahead(nodes[i].count, now') <= H
             /\ InTime(nodes[i], now', idle')
  <2> DEFINE n == nodes[i]
             d == Ahead(n.count, now)
  <2>1. n \in Node /\ n.count \in Counter /\ InTime(n, now, idle) /\ d <= H
    BY <1>0, NodeFields DEF WInv, Within
  <2>2. d \in Int
    BY <1>0, <2>1, AheadFrom
  <2>3. d > 0
    BY <1>0, <2>1, <2>2, JitAssumption DEF InTime, Paced
  <2>4. Ahead(n.count, now') = d - 1
    BY <1>0, <2>1, <2>3, AheadNext
  <2> HIDE DEF n
  <2>5. InTime(n, now', idle')
    BY <1>0, <2>1, <2>2, <2>4, JitAssumption DEF InTime
  <2>6. d - 1 <= H
    BY <2>1, <2>2
  <2> QED BY <2>4, <2>5, <2>6 DEF n
<1>2. Within(nodes', now', H)
  BY <1>0, <1>1 DEF Within
<1> QED BY <1>0, <1>1, <1>2 DEF WInv

\* What a poll leaves is no nearer than TX_JIT_DELAY, or a beacon behind the
\* downlink that it takes.
LEMMA LeftInTime ==
  ASSUME NEW X \in Nat, NEW H \in Nat, Wide(X, H), Paced(H), WInv(H),
         NEW taken \in SUBSET DOMAIN nodes,
         IF Due(nodes, now) = {} THEN taken = {}
           ELSE \E k \in Due(nodes, now) : taken = {k},
         NEW i \in Kept(nodes, now) \ taken
  PROVE  InTime(nodes[i], now, 0)
<1>0. /\ now \in Counter /\ idle \in 0 .. POLL_MAX /\ nodes \in Seq(Node)
      /\ POLL_MAX \in Nat /\ Within(nodes, now, H) /\ Ordered(nodes)
  BY QueueAssumption DEF WInv, IInv, TypeOK
<1>1. i \in DOMAIN nodes /\ nodes[i] \in Node
  BY <1>0 DEF Kept, Seen, Skipped
<1>2. Ahead(nodes[i].count, now) \in Nat
  BY <1>0, <1>1, BehindPosition DEF Within
<1>3. CASE i \in Skipped(nodes, now)
  <2>1. nodes # << >> /\ Outdated(nodes[1], now) /\ i = 2 /\ 1 \in DOMAIN nodes
    BY <1>0, <1>1, <1>3 DEF Skipped
  <2>2. Ahead(nodes[1].count, now) <= Ahead(nodes[i].count, now)
    BY <1>0, <1>1, <2>1, SlotsInOrder
  <2>3. nodes[1] \in Node
    BY <1>0, <2>1
  <2>4. Ahead(nodes[1].count, now) \in Nat
    BY <1>0, <2>1, <2>3, BehindPosition DEF Within
  <2>5. TX_MAX_ADVANCE_DELAY <= Ahead(nodes[1].count, now)
    BY <2>1, <2>4, JitAssumption DEF Outdated
  <2>6. TX_JIT_DELAY <= Ahead(nodes[i].count, now)
    BY <1>2, <2>2, <2>4, <2>5, JitAssumption DEF Wide
  <2> QED BY <1>2, <2>6, JitAssumption DEF InTime
<1>4. CASE i \in Seen(nodes, now) /\ Due(nodes, now) = {}
  <2>1. ~(Ahead(nodes[i].count, now) < TX_JIT_DELAY)
    BY <1>0, <1>4, DueExists
  <2> QED BY <1>2, <2>1, JitAssumption DEF InTime
<1>5. CASE i \in Seen(nodes, now) /\ Due(nodes, now) # {}
  <2>1. PICK k \in Due(nodes, now) : taken = {k}
    BY <1>5
  <2>2. k # i /\ k \in DOMAIN nodes /\ nodes[k] \in Node
    BY <1>0, <2>1 DEF Due, Seen
  <2>3. Ahead(nodes[k].count, now) <= Ahead(nodes[i].count, now)
    BY <1>5 DEF Due
  <2>4. Compatible(nodes[k], nodes[i])
    BY <1>1, <2>2 DEF WInv, IInv, NoOverlap
  <2> DEFINE m == nodes[k]
             n == nodes[i]
  <2>5. InTime(m, now, idle)
    BY <2>2 DEF WInv
  <2>6. Ahead(m.count, now) \in Nat
    BY <1>0, <2>2, BehindPosition DEF Within
  <2>7. Ahead(n.count, now) - Ahead(m.count, now)
          > Lead(n, m) + m.post + TX_MARGIN_DELAY
    BY <1>0, <1>1, <2>2, <2>3, <2>4, ApartInWindow
  <2>8. m.post \in Nat /\ n.pre \in Nat /\ TX_START_DELAY + TX_JIT_DELAY <= n.pre
    BY <1>1, <2>2, NodeDelays
  <2>9. Ahead(n.count, now) \in Nat
    BY <1>2
  <2> HIDE DEF m, n
  <2>10. CASE n.type = "BEACON" /\ m.type \in {"A", "C"}
    <3>1. Lead(n, m) = TX_START_DELAY
      BY <2>10 DEF Lead
    <3>2. TX_JIT_DELAY - idle <= Ahead(m.count, now)
      BY <2>5, <2>10 DEF InTime
    <3>3. TX_JIT_DELAY - POLL_MAX + TX_START_DELAY + TX_MARGIN_DELAY
            < Ahead(n.count, now)
      BY <1>0, <2>6, <2>7, <2>8, <2>9, <3>1, <3>2, JitAssumption
    <3> QED BY <1>0, <2>9, <2>10, <3>3, JitAssumption DEF InTime, n
  <2>11. CASE ~(n.type = "BEACON" /\ m.type \in {"A", "C"})
    <3>1. Lead(n, m) = n.pre
      BY <2>11 DEF Lead
    <3>2. TX_JIT_DELAY <= Ahead(n.count, now)
      BY <2>6, <2>7, <2>8, <2>9, <3>1, JitAssumption
    <3> QED BY <2>9, <3>2, JitAssumption DEF InTime, n
  <2> QED BY <2>10, <2>11
<1>6. i \in Seen(nodes, now) \/ i \in Skipped(nodes, now)
  BY DEF Kept
<1> QED BY <1>3, <1>4, <1>5, <1>6

LEMMA PollKeepsWInv ==
  ASSUME NEW X \in Nat, NEW H \in Nat, Wide(X, H), Paced(H), WInv(H), IInv', Poll
  PROVE  WInv(H)'
<1> DEFINE due == Due(nodes, now)
           selections == IF due = {} THEN {{}} ELSE {{i} : i \in due}
<1>0. now \in Counter /\ nodes \in Seq(Node)
  BY DEF WInv, IInv, TypeOK
<1>1. PICK taken \in selections : nodes' \in Arrange(nodes, Kept(nodes, now) \ taken)
  BY DEF Poll
<1>2. now' = now /\ idle' = 0
  BY DEF Poll
<1>3. /\ taken \in SUBSET DOMAIN nodes
      /\ IF due = {} THEN taken = {} ELSE \E k \in due : taken = {k}
  BY DEF Due, Seen
<1> DEFINE keep == Kept(nodes, now) \ taken
<1>4. \A i \in keep : InTime(nodes[i], now, 0)
  BY <1>3, LeftInTime
<1>5. keep \in SUBSET DOMAIN nodes
  BY DEF Kept, Seen, Skipped
<1> HIDE DEF keep
<1>6. \A i \in keep : Ahead(nodes[i].count, now) <= H
  BY <1>5 DEF WInv, Within
<1>7. 2 * H < W
  BY JitAssumption DEF Wide, Step
<1>8. nodes' \in Arrange(nodes, keep)
  BY <1>1 DEF keep
<1>9. Ordered(nodes')
  BY <1>0, <1>5, <1>6, <1>7, <1>8, ArrangeOrders
<1>10. Range(nodes') = {nodes[i] : i \in keep}
  BY <1>0, <1>5, <1>8, ArrangeKeeps
<1>11. \A i \in DOMAIN nodes' : \E j \in keep : nodes'[i] = nodes[j]
  BY <1>10 DEF Range
<1>12. Within(nodes', now', H)
  BY <1>2, <1>6, <1>11 DEF Within
<1>13. \A i \in DOMAIN nodes' : InTime(nodes'[i], now', idle')
  BY <1>2, <1>4, <1>11 DEF keep
<1> QED BY <1>9, <1>12, <1>13 DEF WInv

-----------------------------------------------------------------------------
\* Under the program's pace the four parts are kept by every step.
LEMMA WindowKept ==
  ASSUME NEW X \in Nat, NEW H \in Nat, Wide(X, H), Paced(H)
  PROVE  Spec => []WInv(H)
<1>1. Init => WInv(H)
  <2> SUFFICES ASSUME Init PROVE WInv(H)
    OBVIOUS
  <2>1. IInv
    BY InitIInv
  <2>2. nodes = << >> /\ DOMAIN nodes = {}
    BY DEF Init
  <2> QED BY <2>1, <2>2 DEF WInv, Within, Ordered
<1>2. IInv' /\ WInv(H) /\ [Next]_vars => WInv(H)'
  <2> SUFFICES ASSUME IInv', WInv(H), [Next]_vars PROVE WInv(H)'
    OBVIOUS
  <2>1. CASE EnqueueTimestamped \/ EnqueueImmediate \/ EnqueueBeacon
    <3>1. PICK p \in Node : Enqueue(p) /\ Ahead(p.count, now) <= H
      BY <2>1, EnqueueInWindow
    <3> QED BY <3>1, EnqueueKeepsWInv
  <2>2. CASE Poll
    BY <2>2, PollKeepsWInv
  <2>3. CASE Tick
    BY <2>3, TickKeepsWInv
  <2>4. CASE UNCHANGED vars
    BY <2>4 DEF vars, WInv, Within
  <2> QED BY <2>1, <2>2, <2>3, <2>4 DEF Next
<1>3. Spec => []IInv
  BY Inductive
<1> QED BY <1>1, <1>2, <1>3, PTL DEF Spec

\* The counter is wide and the pace quick enough for these constants.
WideEnough == \E X \in Nat, H \in Nat : Wide(X, H) /\ Paced(H)

\* They are with the delays of jitqueue.c, its array of 32, the sleep of 10 ms in
\* jitRunner() with as much again for its work, three beacons of 128 s, and
\* packets of at most 30 s of air time.
LEMMA ProgramIsWide ==
  ASSUME W = 4294967296, TX_START_DELAY = 1500, TX_MARGIN_DELAY = 1000,
         TX_JIT_DELAY = 40000, TX_MAX_ADVANCE_DELAY = 512000000,
         BEACON_GUARD = 3000000, BEACON_RESERVED = 2120000, JIT_QUEUE_MAX = 32,
         BEACON_ADVANCE <= 512000000, POLL_MAX <= 20000,
         \A toa \in TOA : toa <= 30000000
  PROVE  WideEnough
<1> DEFINE X == 30000000
           H == 2020080000
<1>1. Step(X) = 63125000
  BY DEF Step
<1>2. Wide(X, H)
  BY <1>1 DEF Wide
<1>3. Paced(H)
  BY QueueAssumption DEF Paced
<1>4. X \in Nat /\ H \in Nat
  OBVIOUS
<1> HIDE DEF X, H
<1> QED BY <1>2, <1>3, <1>4 DEF WideEnough

\* jit_sort_queue() leaves the queue in the order of the departures, across the
\* roll-over of the counter, after every call.
THEOREM OrderKept ==
  ASSUME WideEnough
  PROVE  Spec => []Sorted
<1>0. PICK X \in Nat, H \in Nat : Wide(X, H) /\ Paced(H)
  BY DEF WideEnough
<1>1. WInv(H) => Sorted
  BY DEF WInv, Sorted
<1> QED BY <1>1, <1>0, WindowKept, PTL

\* Every packet that waits in the queue is still to depart, with the time that
\* the radio needs to start: the poll of jitRunner() takes each before it is too
\* late for it, and none seems to lie in the past.
THEOREM DepartsInTime ==
  ASSUME WideEnough
  PROVE  Spec => []OnTime
<1>0. PICK X \in Nat, H \in Nat : Wide(X, H) /\ Paced(H)
  BY DEF WideEnough
<1>1. WInv(H) => OnTime
  <2> SUFFICES ASSUME WInv(H), NEW i \in DOMAIN nodes
               PROVE  /\ TX_START_DELAY < Ahead(nodes[i].count, now)
                      /\ 2 * Ahead(nodes[i].count, now) < W
    BY DEF OnTime
  <2>1. /\ now \in Counter /\ idle \in 0 .. POLL_MAX /\ nodes[i] \in Node
        /\ POLL_MAX \in Nat /\ InTime(nodes[i], now, idle)
        /\ Ahead(nodes[i].count, now) <= H
    BY QueueAssumption DEF WInv, IInv, TypeOK, Within
  <2>2. Ahead(nodes[i].count, now) \in Nat
    BY <1>0, <2>1, BehindPosition
  <2>3. 2 * H < W
    BY <1>0, JitAssumption DEF Wide, Step
  <2>4. 2 * Ahead(nodes[i].count, now) < W
    BY <2>1, <2>2, <2>3, JitAssumption
  <2>5. TX_START_DELAY < Ahead(nodes[i].count, now)
    BY <1>0, <2>1, <2>2, JitAssumption DEF InTime, Paced
  <2> QED BY <2>4, <2>5
<1> QED BY <1>1, <1>0, WindowKept, PTL

\* A Class C downlink is accepted whenever the queue has room: the place that
\* the search of jit_enqueue() finds passes the criteria that follow it.
THEOREM ImmediateAccepted ==
  ASSUME WideEnough
  PROVE  Spec => []ClassCAlwaysPlaced
<1>0. PICK X \in Nat, H \in Nat : Wide(X, H) /\ Paced(H)
  BY DEF WideEnough
<1>1. WInv(H) => ClassCAlwaysPlaced
  <2> SUFFICES ASSUME WInv(H), NEW toa \in TOA
               PROVE  \E count \in AsapCounts(nodes, now, toa) :
                        Acceptable(nodes, NewNode(count, "C", toa), now)
    BY DEF ClassCAlwaysPlaced
  <2>1. /\ now \in Counter /\ nodes \in Seq(Node)
        /\ Within(nodes, now, H) /\ Ordered(nodes)
        /\ \A i, j \in DOMAIN nodes : i # j => Compatible(nodes[i], nodes[j])
    BY DEF WInv, IInv, TypeOK, NoOverlap
  <2>2. PICK c \in AsapCounts(nodes, now, toa) : TRUE
    BY <2>1, AsapExists
  <2>3. Acceptable(nodes, NewNode(c, "C", toa), now)
    BY <1>0, <2>1, AsapAccepted
  <2> QED BY <2>2, <2>3
<1> QED BY <1>1, <1>0, WindowKept, PTL
=============================================================================
