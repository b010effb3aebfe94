---------------------------- MODULE TxPathProofs ----------------------------
(***************************************************************************)
(* Theorems about TxPath for every value of the constants: however the     *)
(* producers and jitRunner() interleave, and however stale the times they  *)
(* have read, the queued packets share no air time, and the index that a   *)
(* peek has returned is that of a queued packet when it is used. For these *)
(* nothing is assumed of the bounds on the time between two steps, nor of  *)
(* the readings of the counter. Under bounds that fit the delays of the    *)
(* program, as long as no reading fails, a packet is also dequeued when it *)
(* is due, handed over while there is time to start the radio, and meets a *)
(* busy radio only if it was accepted after the radio's packet had left    *)
(* the queue.                                                              *)
(***************************************************************************)
EXTENDS TxPath, JitOpsProofs

\* jit_dequeue() takes a node because its index is in use: the three are
\* inductive together.
IInv == TypeOK /\ NoOverlap /\ IndexInUse

-----------------------------------------------------------------------------
\* A step that leaves the queue and the index as they are.
LEMMA QueueKept ==
  ASSUME IInv, UNCHANGED <<nodes, ridx>>, rpc' = "peeked" => rpc = "peeked"
  PROVE  NoOverlap' /\ IndexInUse'
BY DEF IInv, NoOverlap, IndexInUse

\* What a producer presents is a node.
LEMMA PresentedNodes ==
  ASSUME TypeOK, NEW p \in Producers
  PROVE  Presented(p) \subseteq Node
<1>1. \A toa \in TOA : AsapCounts(nodes, ptime[p], toa) \subseteq Counter
  BY AsapInRange DEF TypeOK
<1>2. \A toa \in TOA, c \in Counter : NewNode(c, "A", toa) \in Node /\ NewNode(c, "C", toa) \in Node
  BY DEF Node, PktType
<1> QED
  BY <1>1, <1>2 DEF Presented

LEMMA InsertStep ==
  ASSUME IInv, NEW p \in Producers, Insert(p)
  PROVE  IInv'
<1>1. PICK n \in Presented(p) :
        /\ Acceptable(nodes, n, ptime[p])
        /\ nodes' \in Arrange(Append(nodes, n), 1 .. Len(nodes)+1)
  BY DEF Insert
<1>2. n \in Node /\ nodes \in Seq(Node)
  BY PresentedNodes DEF IInv, TypeOK
<1>3. /\ nodes' \in Seq(Node) /\ Len(nodes') = Len(nodes) + 1
      /\ \A i, j \in DOMAIN nodes' : i # j => Compatible(nodes'[i], nodes'[j])
  BY <1>1, <1>2, InsertCompatible DEF IInv, NoOverlap
<1>4. DOMAIN nodes \subseteq DOMAIN nodes'
  BY <1>2, <1>3
<1>5. TypeOK'
  BY <1>3 DEF Insert, runnerVars, IInv, TypeOK
<1>6. IndexInUse'
  BY <1>4 DEF Insert, runnerVars, IInv, IndexInUse
<1> QED
  BY <1>3, <1>5, <1>6 DEF IInv, NoOverlap

\* What a sort of some slots keeps.
LEMMA ArrangeIInv ==
  ASSUME IInv, NEW K \in SUBSET DOMAIN nodes, nodes' \in Arrange(nodes, K)
  PROVE  /\ nodes' \in Seq(Node)
         /\ Range(nodes') = {nodes[i] : i \in K}
         /\ NoOverlap'
<1>1. nodes \in Seq(Node)
  BY DEF IInv, TypeOK
<1>2. \A i, j \in K : i # j => Compatible(nodes[i], nodes[j])
  BY DEF IInv, NoOverlap
<1>3. /\ nodes' \in Seq(Node) /\ Range(nodes') = {nodes[i] : i \in K}
      /\ \A i, j \in DOMAIN nodes' : i # j => Compatible(nodes'[i], nodes'[j])
  BY <1>1, <1>2, ArrangeKeeps
<1> QED
  BY <1>3 DEF NoOverlap

\* The packet that a peek selects is kept by its purge and found again.
LEMMA PeekStep ==
  ASSUME IInv, Peek
  PROVE  IInv'
<1> DEFINE K == Kept(nodes, rtime)
<1>1. K \in SUBSET DOMAIN nodes /\ Due(nodes, rtime) \subseteq K
  BY DEF Kept, Seen, Skipped, Due
<1>2. nodes' \in Arrange(nodes, K)
  BY DEF Peek
<1>3. /\ nodes' \in Seq(Node) /\ NoOverlap'
      /\ Range(nodes') = {nodes[i] : i \in K}
  BY <1>1, <1>2, ArrangeIInv
<1> HIDE DEF K
<1>4. UNCHANGED <<now, pc, ptime, pread, rtime, rread, rpkt, radio, misread>>
  BY DEF Peek, producerVars
<1>5. CASE Due(nodes, rtime) = {}
  <2>1. rpc' = "idle" /\ ridx' = ridx
    BY <1>5 DEF Peek
  <2> QED
    BY <1>3, <1>4, <2>1 DEF IInv, TypeOK, IndexInUse
<1>6. CASE Due(nodes, rtime) # {}
  <2>1. rpc' = "peeked"
    BY <1>6 DEF Peek
  <2>2. PICK i \in Due(nodes, rtime) :
          ridx' = CHOOSE k \in DOMAIN nodes' : nodes'[k] = nodes[i]
    BY <1>6 DEF Peek
  <2>3. \E k \in DOMAIN nodes' : nodes'[k] = nodes[i]
    <3>1. nodes[i] \in Range(nodes')
      BY <1>1, <1>3
    <3> QED
      BY <3>1 DEF Range
  <2>4. ridx' \in DOMAIN nodes'
    BY <2>2, <2>3
  <2>5. ridx' \in Nat
    BY <1>3, <2>4
  <2> QED
    BY <1>3, <1>4, <2>1, <2>4, <2>5 DEF IInv, TypeOK, IndexInUse
<1> QED
  BY <1>5, <1>6

LEMMA DequeueStep ==
  ASSUME IInv, Dequeue
  PROVE  IInv'
<1>1. rpkt' = nodes[ridx] /\ ridx \in DOMAIN nodes /\ nodes \in Seq(Node)
  BY DEF Dequeue, IInv, IndexInUse, TypeOK
<1>2. rpkt' \in Node
  BY <1>1
<1>3. nodes' \in Seq(Node) /\ NoOverlap'
  <2>1. DOMAIN nodes \ {ridx} \in SUBSET DOMAIN nodes
    OBVIOUS
  <2> QED
    BY <2>1, ArrangeIInv DEF Dequeue
<1>4. /\ rpc' = "taken" /\ ridx' = 0
      /\ UNCHANGED <<now, pc, ptime, pread, rtime, rread, radio, misread>>
  BY DEF Dequeue, producerVars
<1> QED
  BY <1>2, <1>3, <1>4 DEF IInv, TypeOK, IndexInUse

-----------------------------------------------------------------------------
LEMMA InitIInv == Init => IInv
<1> SUFFICES ASSUME Init PROVE IInv
  OBVIOUS
<1>1. TypeOK
  BY TxAssumption DEF Init, TypeOK
<1> QED
  BY <1>1 DEF Init, IInv, NoOverlap, IndexInUse

\* A reading that fails is counted.
LEMMA ReadCounts ==
  ASSUME TypeOK, NEW t, Read(t)
  PROVE  misread' \in 0 .. MISREAD_MAX /\ (misread' = 0 => t = now /\ misread = 0)
BY TxAssumption DEF TypeOK, Read

LEMMA NextIInv == IInv /\ [Next]_vars => IInv'
<1> SUFFICES ASSUME IInv, [Next]_vars PROVE IInv'
  OBVIOUS
<1>1. ASSUME NEW p \in Producers, ReadTime(p) PROVE IInv'
  <2>1. /\ UNCHANGED <<nodes, now, rpc, rtime, rread, ridx, rpkt, radio>>
        /\ pc' = [pc EXCEPT ![p] = "timed"] /\ pread' = [pread EXCEPT ![p] = now]
        /\ \E t \in Counter : Read(t) /\ ptime' = [ptime EXCEPT ![p] = t]
    BY <1>1 DEF ReadTime, runnerVars
  <2>2. TypeOK'
    BY <2>1, ReadCounts DEF IInv, TypeOK
  <2> QED
    BY <2>1, <2>2, QueueKept DEF IInv
<1>2. ASSUME NEW p \in Producers, CheckFull(p) \/ Refuse(p) PROVE IInv'
  <2>1. /\ UNCHANGED <<nodes, now, ptime, pread, rpc, rtime, rread, ridx, rpkt, radio, misread>>
        /\ \E at \in {"idle", "checked"} : pc' = [pc EXCEPT ![p] = at]
    BY <1>2 DEF CheckFull, Refuse, runnerVars
  <2>2. TypeOK'
    BY <2>1 DEF IInv, TypeOK
  <2> QED
    BY <2>1, <2>2, QueueKept DEF IInv
<1>3. ASSUME NEW p \in Producers, Insert(p) PROVE IInv'
  BY <1>3, InsertStep
<1>4. CASE StartPoll \/ ClearToSend
  <2>1. /\ UNCHANGED <<nodes, now, pc, ptime, pread, ridx, rpkt, radio>>
        /\ rpc' \in {"timed", "cleared"} /\ rread' \in {now, rread}
        /\ \/ \E t \in Counter : Read(t) /\ rtime' = t
           \/ UNCHANGED <<rtime, misread>>
    BY <1>4 DEF StartPoll, ClearToSend, producerVars
  <2>2. rtime' \in Counter /\ misread' \in 0 .. MISREAD_MAX
    BY <2>1, ReadCounts DEF IInv, TypeOK
  <2>3. TypeOK'
    BY <2>1, <2>2 DEF IInv, TypeOK
  <2> QED
    BY <2>1, <2>3, QueueKept DEF IInv
<1>5. CASE Peek
  BY <1>5, PeekStep
<1>6. CASE Dequeue
  BY <1>6, DequeueStep
<1>7. CASE GiveUp \/ Send
  <2>1. /\ UNCHANGED <<nodes, now, pc, ptime, pread, rtime, rread, ridx, misread>>
        /\ rpc' = "idle" /\ rpkt' = NoTx /\ radio' \in {rpkt, radio}
    BY <1>7 DEF GiveUp, Send, producerVars
  <2>2. TypeOK'
    BY <2>1 DEF IInv, TypeOK
  <2> QED
    BY <2>1, <2>2, QueueKept DEF IInv
<1>8. CASE Tick
  <2>1. /\ UNCHANGED <<nodes, pc, ptime, pread, rpc, rtime, rread, ridx, rpkt, misread>>
        /\ now' = Add(now, 1) /\ radio' \in {radio, NoTx}
    BY <1>8 DEF Tick, producerVars, runnerVars
  <2>2. now' \in Counter
    BY <2>1, CounterClosed DEF IInv, TypeOK, Counter
  <2>3. TypeOK'
    BY <2>1, <2>2 DEF IInv, TypeOK
  <2> QED
    BY <2>1, <2>3, QueueKept DEF IInv
<1>9. CASE UNCHANGED vars
  BY <1>9, QueueKept DEF vars, IInv, TypeOK
<1> QED
  BY <1>1, <1>2, <1>3, <1>4, <1>5, <1>6, <1>7, <1>8, <1>9 DEF Next

\* They are kept by each critical section of the producers and of jitRunner().
THEOREM Inductive == Spec => []IInv
BY InitIInv, NextIInv, PTL DEF Spec

\* The state of the transmit path keeps its type: what jitRunner() takes from
\* the queue and hands to lgw_send() is a packet, whatever the interleaving.
THEOREM TypeCorrect == Spec => []TypeOK
<1>1. IInv => TypeOK
  BY DEF IInv
<1> QED
  BY <1>1, Inductive, PTL

\* No two queued packets share air time, although jit_enqueue() checks and
\* inserts with a counter read before, and any number of threads call it.
THEOREM AirTimeExclusive == Spec => []NoOverlap
<1>1. IInv => NoOverlap
  BY DEF IInv
<1> QED
  BY <1>1, Inductive, PTL

\* jit_dequeue() is called with an index below num_pkt, though the queue may
\* have changed and been sorted since the peek that returned it.
THEOREM IndexStaysInUse == Spec => []IndexInUse
<1>1. IInv => IndexInUse
  BY DEF IInv
<1> QED
  BY <1>1, Inductive, PTL

-----------------------------------------------------------------------------
\* The transmit path under the pace of the program. The longest time between
\* two readings of the counter by jitRunner().
Pause == IF POLL_MAX < RUN_MAX THEN RUN_MAX ELSE POLL_MAX

\* The window is wide enough for who looks at it LAG_MAX late, a producer is as
\* quick as the margins of the first criterion, jitRunner() polls and serves a
\* packet within TX_JIT_DELAY, and overlapping calls have room.
Paced(X, H) ==
  /\ Wide(X, H + LAG_MAX)
  /\ 2 * TX_JIT_DELAY + JIT_QUEUE_MAX * Step(X) + TX_JIT_DELAY <= H
  /\ TX_MAX_ADVANCE_DELAY + TX_JIT_DELAY <= H
  /\ LAG_MAX <= TX_START_DELAY + TX_MARGIN_DELAY + 1
  /\ POLL_MAX + RUN_MAX + TX_START_DELAY <= TX_JIT_DELAY
  /\ 2 * RUN_MAX + TX_START_DELAY <= TX_JIT_DELAY
  /\ PENDING_MAX <= JIT_QUEUE_MAX

\* No reading has failed, and how old the times are that the threads have read.
Age == Ahead(now, rtime)
Busy == {p \in Producers : pc[p] # "idle"}
ReadInv == misread = 0 /\ ptime = pread /\ rtime = rread
AgeInv ==
  /\ Age <= (IF rpc = "idle" THEN Pause ELSE RUN_MAX)
  /\ \A p \in Busy : Ahead(now, ptime[p]) <= LAG_MAX

\* Who is about to insert finds room for itself and for all who are in a call.
RoomInv ==
  /\ IsFiniteSet(Busy)
  /\ Len(nodes) <= JIT_QUEUE_MAX
  /\ \/ Len(nodes) + Cardinality(Busy) <= JIT_QUEUE_MAX
     \/ \A p, q \in Busy : p = q /\ pc[p] = "timed"

\* The queue as seen from the last poll: it lies in the window and in order.
WindowInv(H) ==
  /\ Within(nodes, rtime, H)
  /\ Ordered(nodes)
  /\ \A i \in DOMAIN nodes : nodes[i].type # "BEACON"

\* A poll leaves nothing nearer than TX_JIT_DELAY, save the packet it selects,
\* which is the first. Before a poll has looked, time has passed since the last.
Nearest(i) ==
  IF rpc = "timed" \/ (rpc = "peeked" /\ i = 1) THEN TX_JIT_DELAY - Pause
                                                ELSE TX_JIT_DELAY
FarInv == \A i \in DOMAIN nodes : Nearest(i) <= Ahead(nodes[i].count, rtime)
FirstInv ==
  rpc = "peeked" => ridx = 1 /\ Ahead(nodes[1].count, rtime) < TX_JIT_DELAY

\* So is the packet in hand.
HandInv ==
  rpc \in {"taken", "cleared"} =>
    /\ rpkt \in Node /\ rpkt.type # "BEACON"
    /\ TX_JIT_DELAY - Pause <= Ahead(rpkt.count, rtime)
    /\ Ahead(rpkt.count, rtime) < TX_JIT_DELAY

\* The radio has a packet only shortly before its departure and until its end.
AirInv ==
  radio # NoTx =>
    /\ radio.type # "BEACON"
    /\ \/ Ahead(radio.count, now) < TX_JIT_DELAY
       \/ Ahead(now, radio.count) <= radio.post

PaceInv(H) ==
  /\ IInv /\ ReadInv /\ AgeInv /\ RoomInv /\ WindowInv(H)
  /\ FarInv /\ FirstInv /\ HandInv /\ AirInv

-----------------------------------------------------------------------------
LEMMA PaceFacts ==
  ASSUME NEW X \in Nat, NEW H \in Nat, Paced(X, H)
  PROVE  /\ Pause \in Nat /\ POLL_MAX <= Pause /\ RUN_MAX <= Pause
         /\ Pause + RUN_MAX + TX_START_DELAY <= TX_JIT_DELAY
         /\ Pause <= TX_JIT_DELAY
         /\ POLL_MAX \in Nat /\ RUN_MAX \in Nat /\ LAG_MAX \in Nat /\ PENDING_MAX \in Nat
         /\ H + LAG_MAX \in Nat /\ TX_JIT_DELAY <= H
         /\ 2 * (H + LAG_MAX) < W /\ 2 * H < W /\ W \in Nat
         /\ LAG_MAX <= TX_START_DELAY + TX_MARGIN_DELAY + 1
         /\ PENDING_MAX <= JIT_QUEUE_MAX
         /\ TX_START_DELAY \in Nat /\ TX_MARGIN_DELAY \in Nat /\ TX_JIT_DELAY \in Nat
         /\ JIT_QUEUE_MAX \in Nat
<1>1. /\ POLL_MAX \in Nat /\ RUN_MAX \in Nat /\ LAG_MAX \in Nat /\ PENDING_MAX \in Nat
  BY TxAssumption
<1>2. /\ Pause \in Nat /\ POLL_MAX <= Pause /\ RUN_MAX <= Pause
      /\ Pause + RUN_MAX + TX_START_DELAY <= TX_JIT_DELAY
      /\ Pause <= TX_JIT_DELAY
  BY <1>1, JitAssumption DEF Paced, Pause
<1>3. TX_JIT_DELAY <= H
  BY JitAssumption DEF Paced
<1>4. 2 * (H + LAG_MAX) < W
  BY <1>1, JitAssumption DEF Paced, Wide, Step
<1> QED BY <1>1, <1>2, <1>3, <1>4, JitAssumption DEF Paced

\* A queued packet as seen from now, and its age.
LEMMA SeenFromNow ==
  ASSUME NEW X \in Nat, NEW H \in Nat, Paced(X, H), PaceInv(H),
         NEW i \in DOMAIN nodes
  PROVE  /\ nodes[i] \in Node /\ nodes[i].count \in Counter
         /\ Ahead(nodes[i].count, rtime) \in Nat /\ Ahead(nodes[i].count, rtime) <= H
         /\ Age \in Nat /\ Age <= Pause
         /\ Age <= Ahead(nodes[i].count, rtime)
         /\ Ahead(nodes[i].count, now) = Ahead(nodes[i].count, rtime) - Age
<1> DEFINE n == nodes[i]
           d == Ahead(n.count, rtime)
<1>1. n \in Node /\ n.count \in Counter /\ now \in Counter /\ rtime \in Counter
  BY NodeFields DEF PaceInv, IInv, TypeOK
<1>2. d \in 0 .. W-1
  BY <1>1, AheadFrom
<1>3. Age \in 0 .. W-1
  BY <1>1, AheadFrom DEF Age
<1>4. d <= H /\ Nearest(i) <= d
  BY DEF PaceInv, WindowInv, Within, FarInv
<1>5. Age <= Pause /\ Age <= Nearest(i)
  <2>1. CASE rpc = "idle"
    BY <1>3, <2>1, PaceFacts, JitAssumption DEF PaceInv, AgeInv, Nearest
  <2>2. CASE rpc # "idle"
    BY <1>3, <2>2, PaceFacts, JitAssumption DEF PaceInv, AgeInv, Nearest
  <2> QED BY <2>1, <2>2
<1>6. Nearest(i) \in Int
  BY PaceFacts, JitAssumption DEF Nearest
<1>7. Age <= d
  BY <1>2, <1>3, <1>4, <1>5, <1>6, JitAssumption
<1>8. Ahead(n.count, now) = d - Age
  BY <1>1, <1>7, AheadFrom DEF Age
<1> QED BY <1>1, <1>2, <1>3, <1>4, <1>5, <1>7, <1>8, JitAssumption

\* Nothing that the invariant says of queue, runner and radio changes.
LEMMA RunnerKept ==
  ASSUME NEW H, PaceInv(H), UNCHANGED <<nodes, now, rpc, rtime, ridx, rpkt, radio>>
  PROVE  /\ WindowInv(H)' /\ FarInv' /\ FirstInv' /\ HandInv' /\ AirInv'
         /\ Age' = Age
<1>1. WindowInv(H)'
  BY DEF PaceInv, WindowInv, Within
<1>2. FarInv' /\ FirstInv'
  BY DEF PaceInv, FarInv, Nearest, FirstInv
<1>3. HandInv' /\ AirInv'
  BY DEF PaceInv, HandInv, AirInv
<1> QED BY <1>1, <1>2, <1>3 DEF Age

\* A call that ends makes room.
LEMMA CallEnds ==
  ASSUME IInv, RoomInv, NEW p \in Busy,
         pc' = [pc EXCEPT ![p] = "idle"]
  PROVE  /\ IsFiniteSet(Busy') /\ Busy' = Busy \ {p}
         /\ Cardinality(Busy) \in Nat /\ Cardinality(Busy) >= 1
         /\ Cardinality(Busy') = Cardinality(Busy) - 1
<1>1. pc \in [Producers -> {"idle", "timed", "checked"}] /\ p \in Producers
  BY DEF IInv, TypeOK, Busy
<1>2. Busy' = Busy \ {p}
  BY <1>1 DEF Busy
<1>3. IsFiniteSet(Busy)
  BY DEF RoomInv
<1>4. Cardinality(Busy \ {p}) = Cardinality(Busy) - 1
  BY <1>3, FS_RemoveElement
<1>5. IsFiniteSet(Busy \ {p})
  BY <1>3, FS_Subset
<1>6. Cardinality(Busy) \in Nat /\ Cardinality(Busy \ {p}) \in Nat
  BY <1>3, <1>5, FS_CardinalityType
<1> QED BY <1>2, <1>3, <1>4, <1>5, <1>6

-----------------------------------------------------------------------------
LEMMA ReadTimeKeeps ==
  ASSUME NEW X \in Nat, NEW H \in Nat, Paced(X, H), PaceInv(H), IInv',
         NEW p \in Producers, ReadTime(p), misread' = 0
  PROVE  PaceInv(H)'
<1>0. /\ \E t \in Counter : Read(t) /\ ptime' = [ptime EXCEPT ![p] = t]
      /\ pread' = [pread EXCEPT ![p] = now]
      /\ UNCHANGED <<rtime, rread>>
  BY DEF ReadTime, runnerVars
<1>1. /\ pc[p] = "idle" /\ pc' = [pc EXCEPT ![p] = "timed"]
      /\ ptime' = [ptime EXCEPT ![p] = now]
      /\ UNCHANGED <<nodes, now, rpc, rtime, ridx, rpkt, radio>>
      /\ Busy # {} => Len(nodes) + Cardinality(Busy) < PENDING_MAX
  BY <1>0, ReadCounts DEF ReadTime, runnerVars, Busy, PaceInv, IInv
<1>r. ReadInv'
  BY <1>0, <1>1 DEF PaceInv, ReadInv
<1>2. /\ pc \in [Producers -> {"idle", "timed", "checked"}]
      /\ ptime \in [Producers -> Counter] /\ now \in Counter
      /\ nodes \in Seq(Node) /\ Len(nodes) \in Nat
  BY DEF PaceInv, IInv, TypeOK
<1>3. Busy' = Busy \cup {p} /\ p \notin Busy
  BY <1>1, <1>2 DEF Busy
<1>4. AgeInv'
  <2>1. Ahead(now, now) = 0
    BY <1>2, JitAssumption DEF Ahead, Counter
  <2>2. 0 <= LAG_MAX
    BY TxAssumption
  <2>3. \A q \in Busy' : Ahead(now', ptime'[q]) <= LAG_MAX
    <3> SUFFICES ASSUME NEW q \in Busy' PROVE Ahead(now', ptime'[q]) <= LAG_MAX
      OBVIOUS
    <3>1. CASE q = p
      BY <1>1, <1>2, <2>1, <2>2, <3>1
    <3>2. CASE q # p
      <4>1. q \in Busy /\ ptime'[q] = ptime[q]
        BY <1>1, <1>2, <1>3, <3>2 DEF Busy
      <4> QED BY <1>1, <4>1 DEF PaceInv, AgeInv
    <3> QED BY <3>1, <3>2
  <2>4. Age' = Age /\ rpc' = rpc
    BY <1>1 DEF Age
  <2> QED BY <2>3, <2>4 DEF PaceInv, AgeInv
<1>5. RoomInv'
  <2>1. IsFiniteSet(Busy) /\ Len(nodes) <= JIT_QUEUE_MAX
    BY DEF PaceInv, RoomInv
  <2>2. /\ IsFiniteSet(Busy') /\ Cardinality(Busy') = Cardinality(Busy) + 1
        /\ Cardinality(Busy) \in Nat
    BY <1>3, <2>1, FS_AddElement, FS_CardinalityType
  <2>3. CASE Busy = {}
    <3>1. \A q, r \in Busy' : q = r /\ pc'[q] = "timed"
      BY <1>1, <1>2, <1>3, <2>3
    <3> QED BY <1>1, <2>1, <2>2, <3>1 DEF RoomInv
  <2>4. CASE Busy # {}
    <3>0. /\ PENDING_MAX \in Nat /\ PENDING_MAX <= JIT_QUEUE_MAX
          /\ JIT_QUEUE_MAX \in Nat
      BY PaceFacts
    <3>1. Len(nodes') + Cardinality(Busy') <= JIT_QUEUE_MAX
      BY <1>1, <1>2, <2>2, <2>4, <3>0
    <3> QED BY <1>1, <2>1, <2>2, <3>1 DEF RoomInv
  <2> QED BY <2>3, <2>4
<1> QED BY <1>r, <1>1, <1>4, <1>5, RunnerKept DEF PaceInv

\* A call that is refused, or that finds the queue full.
LEMMA CallRefused ==
  ASSUME NEW H, PaceInv(H), IInv', NEW p \in Busy,
         pc' = [pc EXCEPT ![p] = "idle"],
         UNCHANGED <<nodes, now, ptime, pread, rpc, rtime, rread, ridx, rpkt, radio, misread>>
  PROVE  PaceInv(H)'
<1>1. /\ IsFiniteSet(Busy') /\ Busy' = Busy \ {p}
      /\ Cardinality(Busy) \in Nat /\ Cardinality(Busy) >= 1
      /\ Cardinality(Busy') = Cardinality(Busy) - 1
  BY CallEnds DEF PaceInv
<1>2. Age' = Age
  BY DEF Age
<1>3. AgeInv'
  BY <1>1, <1>2 DEF PaceInv, AgeInv
<1>4. RoomInv'
  <2>1. Len(nodes) <= JIT_QUEUE_MAX /\ Len(nodes) \in Nat
    BY DEF PaceInv, RoomInv, IInv, TypeOK
  <2>2. CASE Len(nodes) + Cardinality(Busy) <= JIT_QUEUE_MAX
    <3>1. Len(nodes') + Cardinality(Busy') <= JIT_QUEUE_MAX
      BY <1>1, <2>1, <2>2, JitAssumption
    <3> QED BY <1>1, <2>1, <3>1 DEF RoomInv
  <2>3. CASE \A q, r \in Busy : q = r /\ pc[q] = "timed"
    <3>1. Busy' = {}
      BY <1>1, <2>3
    <3> QED BY <1>1, <2>1, <3>1 DEF RoomInv
  <2> QED BY <2>2, <2>3 DEF PaceInv, RoomInv
<1>5. ReadInv'
  BY DEF PaceInv, ReadInv
<1> QED BY <1>3, <1>4, <1>5, RunnerKept DEF PaceInv

LEMMA CheckFullKeeps ==
  ASSUME NEW H, PaceInv(H), IInv', NEW p \in Producers, CheckFull(p)
  PROVE  PaceInv(H)'
<1>1. /\ pc[p] = "timed" /\ p \in Busy
      /\ pc' = [pc EXCEPT ![p] = IF IsFull(nodes) THEN "idle" ELSE "checked"]
      /\ UNCHANGED <<nodes, now, ptime, pread, rpc, rtime, rread, ridx, rpkt, radio, misread>>
  BY DEF CheckFull, runnerVars, Busy
<1>2. CASE IsFull(nodes)
  <2>1. pc' = [pc EXCEPT ![p] = "idle"]
    BY <1>1, <1>2
  <2> QED BY <1>1, <2>1, CallRefused
<1>3. CASE ~IsFull(nodes)
  <2>1. /\ pc \in [Producers -> {"idle", "timed", "checked"}]
        /\ Len(nodes) \in Nat /\ Len(nodes) <= JIT_QUEUE_MAX /\ IsFiniteSet(Busy)
    BY DEF PaceInv, IInv, TypeOK, RoomInv
  <2>2. Busy' = Busy
    BY <1>1, <1>3, <2>1 DEF Busy
  <2>3. Age' = Age
    BY <1>1 DEF Age
  <2>4. AgeInv'
    BY <1>1, <2>2, <2>3 DEF PaceInv, AgeInv
  <2>5. Len(nodes) + Cardinality(Busy) <= JIT_QUEUE_MAX
    <3>1. CASE \A q, r \in Busy : q = r /\ pc[q] = "timed"
      <4>1. Busy = {p}
        BY <1>1, <3>1
      <4>2. Cardinality(Busy) = 1
        BY <4>1, FS_Singleton
      <4>3. Len(nodes) # JIT_QUEUE_MAX
        BY <1>3 DEF IsFull
      <4> QED BY <2>1, <4>2, <4>3, JitAssumption
    <3> QED BY <3>1 DEF PaceInv, RoomInv
  <2>6. RoomInv'
    BY <1>1, <2>1, <2>2, <2>5 DEF RoomInv
  <2>7. ReadInv'
    BY <1>1 DEF PaceInv, ReadInv
  <2> QED BY <1>1, <2>4, <2>6, <2>7, RunnerKept DEF PaceInv
<1> QED BY <1>2, <1>3

-----------------------------------------------------------------------------
\* What a producer inserts departs within the window, and no earlier than a
\* poll's reach from now, however late the producer looks.
LEMMA InsertedWhen ==
  ASSUME NEW X \in Nat, NEW H \in Nat, Paced(X, H), PaceInv(H),
         NEW p \in Busy, Len(nodes) < JIT_QUEUE_MAX,
         NEW n \in Presented(p), Acceptable(nodes, n, ptime[p])
  PROVE  /\ n \in Node /\ n.type # "BEACON" /\ Ahead(n.count, rtime) \in Nat
         /\ TX_JIT_DELAY <= Ahead(n.count, rtime)
         /\ Ahead(n.count, rtime) <= H
<1> DEFINE t == ptime[p]
           lag == Ahead(now, t)
           x == Ahead(n.count, t)
           y == Ahead(n.count, now)
<1>0. /\ nodes \in Seq(Node) /\ now \in Counter /\ rtime \in Counter
      /\ t \in Counter /\ lag <= LAG_MAX /\ p \in Producers
  BY DEF PaceInv, IInv, TypeOK, AgeInv, Busy
<1>1. lag \in Nat /\ lag < W /\ Age \in Nat
  <2>1. lag \in 0 .. W-1 /\ W \in Nat
    BY <1>0, AheadFrom
  <2>2. Age \in 0 .. W-1
    BY <1>0, AheadFrom DEF Age
  <2> QED BY <2>1, <2>2
<1>2. n \in Node /\ n.count \in Counter
  BY <1>0, PresentedNodes, NodeFields DEF PaceInv, IInv
<1>3. x \in Nat /\ y \in Nat
  <2>1. x \in 0 .. W-1
    BY <1>0, <1>2, AheadFrom
  <2>2. y \in 0 .. W-1
    BY <1>0, <1>2, AheadFrom
  <2> QED BY <2>1, <2>2
<1>4. x > TX_START_DELAY + TX_MARGIN_DELAY + TX_JIT_DELAY
  BY <1>3, JitAssumption DEF Acceptable, TooLate
<1>pace. /\ Pause \in Nat /\ POLL_MAX <= Pause /\ RUN_MAX <= Pause
      /\ Pause + RUN_MAX + TX_START_DELAY <= TX_JIT_DELAY
      /\ Pause <= TX_JIT_DELAY
      /\ LAG_MAX \in Nat /\ TX_JIT_DELAY <= H
      /\ 2 * (H + LAG_MAX) < W /\ 2 * H < W /\ W \in Nat
      /\ LAG_MAX <= TX_START_DELAY + TX_MARGIN_DELAY + 1
      /\ TX_START_DELAY \in Nat /\ TX_MARGIN_DELAY \in Nat /\ TX_JIT_DELAY \in Nat
  BY PaceFacts
\* The queue as the producer sees it.
<1>5. Within(nodes, t, H + LAG_MAX)
  <2> SUFFICES ASSUME NEW i \in DOMAIN nodes
               PROVE  Ahead(nodes[i].count, t) <= H + LAG_MAX
    BY DEF Within
  <2> DEFINE c == nodes[i].count
  <2>1. /\ c \in Counter /\ Ahead(c, now) = Ahead(c, rtime) - Age
        /\ Ahead(c, rtime) \in Nat /\ Ahead(c, rtime) <= H /\ Age <= Ahead(c, rtime)
    BY SeenFromNow
  <2>2. Ahead(c, now) + lag <= H + LAG_MAX /\ Ahead(c, now) + lag < W
    <3> DEFINE a == Ahead(c, rtime)
    <3>1. a \in Nat /\ a <= H /\ Age <= a /\ Ahead(c, now) = a - Age
      BY <2>1
    <3> HIDE DEF a, c, lag, t
    <3> QED BY <1>0, <1>1, <1>pace, <3>1
  <2>3. Ahead(c, t) = Ahead(c, now) + lag
    BY <1>0, <2>1, <2>2, AheadSum
  <2> QED BY <2>2, <2>3
<1>6. PICK toa \in TOA :
        \/ \E c \in Counter : n = NewNode(c, "A", toa)
        \/ \E c \in AsapCounts(nodes, t, toa) : n = NewNode(c, "C", toa)
  BY DEF Presented
<1>7. n.type # "BEACON" /\ x + TX_JIT_DELAY <= H
  <2>1. CASE \E c \in Counter : n = NewNode(c, "A", toa)
    <3>1. n.type = "A"
      BY <2>1 DEF NewNode
    <3>2. ~(x > TX_MAX_ADVANCE_DELAY)
      BY <3>1 DEF Acceptable, TooEarly
    <3> QED BY <1>3, <3>1, <3>2, JitAssumption DEF Paced
  <2>2. CASE \E c \in AsapCounts(nodes, t, toa) : n = NewNode(c, "C", toa)
    <3>1. PICK c \in AsapCounts(nodes, t, toa) : n = NewNode(c, "C", toa)
      BY <2>2
    <3>2. n.type = "C" /\ n.count = c
      BY <3>1 DEF NewNode
    <3>3. Ahead(c, t) <= 2 * TX_JIT_DELAY + JIT_QUEUE_MAX * Step(X)
      <4>1. H + LAG_MAX \in Nat /\ Wide(X, H + LAG_MAX) /\ Ordered(nodes)
        BY PaceFacts DEF Paced, PaceInv, WindowInv
      <4> QED BY <1>0, <1>5, <4>1, AsapInWindow
    <3> DEFINE b == JIT_QUEUE_MAX * Step(X)
    <3>4. b \in Nat /\ 2 * TX_JIT_DELAY + b + TX_JIT_DELAY <= H
      <4>1. Step(X) \in Nat
        BY JitAssumption DEF Step
      <4>2. b \in Nat
        BY <4>1, JitAssumption, Multiples
      <4> QED BY <4>2 DEF Paced
    <3>5. x <= 2 * TX_JIT_DELAY + b
      BY <3>2, <3>3
    <3> HIDE DEF b
    <3> QED BY <1>3, <3>2, <3>4, <3>5, JitAssumption
  <2> QED BY <1>6, <2>1, <2>2
<1>8. y = x - lag
  <2>1. lag <= x
    <3> HIDE DEF lag, x
    <3> QED BY <1>0, <1>1, <1>3, <1>4, <1>pace
  <2> QED BY <1>0, <1>2, <2>1, AheadFrom
<1>9. Age <= Pause
  <2>1. Age <= (IF rpc = "idle" THEN Pause ELSE RUN_MAX)
    BY DEF PaceInv, AgeInv
  <2> QED BY <1>1, <1>pace, <2>1, TxAssumption
<1> HIDE DEF lag, x, y
<1>10. TX_JIT_DELAY <= y /\ y + TX_JIT_DELAY <= H
  BY <1>0, <1>1, <1>3, <1>4, <1>7, <1>8, <1>pace
<1>11. y + Age < W /\ y + Age <= H
  BY <1>1, <1>3, <1>9, <1>10, <1>pace
<1>12. Ahead(n.count, rtime) = y + Age
  BY <1>0, <1>2, <1>11, AheadSum DEF Age, y
<1> QED BY <1>1, <1>2, <1>3, <1>7, <1>10, <1>11, <1>12, <1>pace

-----------------------------------------------------------------------------
\* A sort of packets that lie in the window.
LEMMA SortedInWindow ==
  ASSUME NEW H \in Nat, 2 * H < W, rtime \in Counter,
         NEW q \in Seq(Node), NEW K \in SUBSET DOMAIN q,
         \A i \in K : Ahead(q[i].count, rtime) <= H /\ q[i].type # "BEACON",
         nodes' \in Arrange(q, K), rtime' = rtime
  PROVE  /\ WindowInv(H)'
         /\ \A i \in DOMAIN nodes' : \E j \in K : nodes'[i] = q[j]
         /\ \A j \in K : \E i \in DOMAIN nodes' : nodes'[i] = q[j]
         /\ \A i \in DOMAIN nodes' :
              1 \in DOMAIN nodes'
              /\ Ahead(nodes'[1].count, rtime) <= Ahead(nodes'[i].count, rtime)
<1>1. Ordered(nodes')
  BY ArrangeOrders
<1>2. nodes' \in Seq(Node) /\ Range(nodes') = {q[i] : i \in K}
  BY ArrangeKeeps
<1>3. /\ \A i \in DOMAIN nodes' : \E j \in K : nodes'[i] = q[j]
      /\ \A j \in K : \E i \in DOMAIN nodes' : nodes'[i] = q[j]
  BY <1>2 DEF Range
<1>4. \A i \in DOMAIN nodes' :
        /\ nodes'[i] \in Node /\ Ahead(nodes'[i].count, rtime) <= H
        /\ nodes'[i].type # "BEACON"
  BY <1>2, <1>3
<1>5. WindowInv(H)'
  BY <1>1, <1>4 DEF WindowInv, Within
<1>6. ASSUME NEW i \in DOMAIN nodes'
      PROVE  /\ 1 \in DOMAIN nodes'
             /\ Ahead(nodes'[1].count, rtime) <= Ahead(nodes'[i].count, rtime)
  <2>1. 1 \in DOMAIN nodes' /\ (i = 1 \/ 1 < i)
    BY <1>2
  <2>2. CASE i = 1
    <3>1. nodes'[i].count \in Counter
      BY <1>4, NodeFields
    <3>2. Ahead(nodes'[i].count, rtime) \in Int
      BY <3>1, AheadFrom
    <3> QED BY <2>1, <2>2, <3>2
  <2>3. CASE 1 < i
    <3>1. InOrder(nodes'[1], nodes'[i])
      BY <1>1, <2>1, <2>3 DEF Ordered
    <3> QED BY <1>4, <2>1, <3>1, OrderInWindow
  <2> QED BY <2>1, <2>2, <2>3
<1> QED BY <1>3, <1>5, <1>6

\* The place of the packet that a peek has selected: it is the only one that is
\* near, so that it comes first however the queue is sorted.
LEMMA FirstIsDue ==
  ASSUME NEW t \in Counter, NEW d \in Node, Ahead(d.count, t) < TX_JIT_DELAY,
         NEW s \in Seq(Node), NEW k \in DOMAIN s, s[k] = d,
         \A i, j \in DOMAIN s : i # j => Compatible(s[i], s[j]),
         \A i \in DOMAIN s : 1 \in DOMAIN s
                             /\ Ahead(s[1].count, t) <= Ahead(s[i].count, t),
         \A i \in DOMAIN s : s[i] = d \/ TX_JIT_DELAY <= Ahead(s[i].count, t)
  PROVE  /\ k = 1
         /\ \A i \in DOMAIN s : i # 1 => TX_JIT_DELAY <= Ahead(s[i].count, t)
<1>1. \A i \in DOMAIN s : Ahead(s[i].count, t) \in Int
  <2> SUFFICES ASSUME NEW i \in DOMAIN s PROVE Ahead(s[i].count, t) \in Int
    OBVIOUS
  <2>1. s[i].count \in Counter
    BY NodeFields
  <2> QED BY <2>1, AheadFrom
<1>2. \A i \in DOMAIN s : s[i] = d => i = k
  BY SelfConflict
<1>3. 1 \in DOMAIN s /\ Ahead(s[1].count, t) <= Ahead(s[k].count, t)
  OBVIOUS
<1>4. ~(TX_JIT_DELAY <= Ahead(s[1].count, t))
  BY <1>1, <1>3, JitAssumption
<1>5. k = 1
  BY <1>2, <1>3, <1>4
<1> QED BY <1>2, <1>5

\* A producer inserts: the packet that a peek has selected stays the first.
LEMMA InsertKeeps ==
  ASSUME NEW X \in Nat, NEW H \in Nat, Paced(X, H), PaceInv(H), IInv',
         NEW p \in Producers, Insert(p)
  PROVE  PaceInv(H)'
<1>1. PICK n \in Presented(p) :
        /\ Acceptable(nodes, n, ptime[p])
        /\ nodes' \in Arrange(Append(nodes, n), 1 .. Len(nodes)+1)
  BY DEF Insert
<1>2. /\ pc[p] = "checked" /\ p \in Busy /\ pc' = [pc EXCEPT ![p] = "idle"]
      /\ UNCHANGED <<now, ptime, pread, rpc, rtime, rread, ridx, rpkt, radio, misread>>
  BY DEF Insert, runnerVars, Busy
<1>3. /\ nodes \in Seq(Node) /\ Len(nodes) \in Nat /\ rtime \in Counter
      /\ Len(nodes) + Cardinality(Busy) <= JIT_QUEUE_MAX
  BY <1>2 DEF PaceInv, IInv, TypeOK, RoomInv
<1>4. /\ IsFiniteSet(Busy') /\ Busy' = Busy \ {p}
      /\ Cardinality(Busy) \in Nat /\ Cardinality(Busy) >= 1
      /\ Cardinality(Busy') = Cardinality(Busy) - 1
  BY <1>2, CallEnds DEF PaceInv
<1>5. Len(nodes) < JIT_QUEUE_MAX
  BY <1>3, <1>4, JitAssumption
<1>6. /\ n \in Node /\ n.type # "BEACON" /\ Ahead(n.count, rtime) \in Nat
      /\ TX_JIT_DELAY <= Ahead(n.count, rtime)
      /\ Ahead(n.count, rtime) <= H
  BY <1>1, <1>2, <1>5, InsertedWhen
<1> DEFINE q == Append(nodes, n)
<1>7. /\ q \in Seq(Node) /\ Len(q) = Len(nodes) + 1 /\ DOMAIN q = 1 .. Len(nodes)+1
      /\ q[Len(nodes)+1] = n /\ \A i \in DOMAIN nodes : q[i] = nodes[i]
      /\ DOMAIN q = DOMAIN nodes \cup {Len(nodes)+1}
  BY <1>3, <1>6, AppendForm
<1>8. Len(nodes') = Len(nodes) + 1
  BY <1>1, <1>3, <1>6, InsertCompatible DEF PaceInv, IInv, NoOverlap
<1>9. nodes' \in Arrange(q, DOMAIN q) /\ DOMAIN q \in SUBSET DOMAIN q
  BY <1>1, <1>7
<1> HIDE DEF q
<1>10. \A i \in DOMAIN q : Ahead(q[i].count, rtime) <= H /\ q[i].type # "BEACON"
  BY <1>6, <1>7 DEF PaceInv, WindowInv, Within
<1>11. /\ WindowInv(H)'
       /\ \A i \in DOMAIN nodes' : \E j \in DOMAIN q : nodes'[i] = q[j]
       /\ \A j \in DOMAIN q : \E i \in DOMAIN nodes' : nodes'[i] = q[j]
       /\ \A i \in DOMAIN nodes' :
            1 \in DOMAIN nodes'
            /\ Ahead(nodes'[1].count, rtime) <= Ahead(nodes'[i].count, rtime)
  <2>1. 2 * H < W
    BY PaceFacts
  <2> QED BY <1>2, <1>3, <1>7, <1>9, <1>10, <2>1, SortedInWindow
<1>12. FarInv' /\ FirstInv'
  <2>1. CASE rpc = "peeked"
    <3>1. 1 \in DOMAIN nodes /\ ridx = 1 /\ nodes[1] \in Node
          /\ Ahead(nodes[1].count, rtime) < TX_JIT_DELAY
      BY <1>3, <2>1 DEF PaceInv, FirstInv, IInv, IndexInUse
    <3>2. \A j \in DOMAIN q : q[j] = nodes[1] \/ TX_JIT_DELAY <= Ahead(q[j].count, rtime)
      BY <1>6, <1>7, <2>1 DEF PaceInv, FarInv, Nearest
    <3>3. PICK k \in DOMAIN nodes' : nodes'[k] = nodes[1]
      BY <1>7, <1>11, <3>1
    <3>4. /\ nodes' \in Seq(Node)
          /\ \A i, j \in DOMAIN nodes' : i # j => Compatible(nodes'[i], nodes'[j])
      BY DEF IInv, TypeOK, NoOverlap
    <3>5. \A i \in DOMAIN nodes' :
            nodes'[i] = nodes[1] \/ TX_JIT_DELAY <= Ahead(nodes'[i].count, rtime)
      BY <1>11, <3>2
    <3>6. /\ k = 1
          /\ \A i \in DOMAIN nodes' :
               i # 1 => TX_JIT_DELAY <= Ahead(nodes'[i].count, rtime)
      BY <1>3, <1>11, <3>1, <3>3, <3>4, <3>5, FirstIsDue
    <3>7. TX_JIT_DELAY - Pause <= Ahead(nodes[1].count, rtime)
      BY <2>1, <3>1 DEF PaceInv, FarInv, Nearest
    <3> QED BY <1>2, <2>1, <3>1, <3>3, <3>6, <3>7 DEF FarInv, Nearest, FirstInv
  <2>2. CASE rpc # "peeked"
    <3>1. \A j \in DOMAIN q :
            (IF rpc = "timed" THEN TX_JIT_DELAY - Pause ELSE TX_JIT_DELAY)
              <= Ahead(q[j].count, rtime)
      <4> SUFFICES ASSUME NEW j \in DOMAIN q
                   PROVE  (IF rpc = "timed" THEN TX_JIT_DELAY - Pause ELSE TX_JIT_DELAY)
                            <= Ahead(q[j].count, rtime)
        OBVIOUS
      <4>1. CASE j \in DOMAIN nodes
        BY <1>7, <2>2, <4>1 DEF PaceInv, FarInv, Nearest
      <4>2. CASE q[j] = n
        <5>1. Pause \in Nat
          BY PaceFacts
        <5> QED BY <1>6, <4>2, <5>1, JitAssumption
      <4> QED BY <1>7, <4>1, <4>2
    <3> QED BY <1>2, <1>11, <2>2, <3>1 DEF FarInv, Nearest, FirstInv
  <2> QED BY <2>1, <2>2
<1>13. HandInv' /\ AirInv' /\ Age' = Age /\ ReadInv'
  BY <1>2 DEF PaceInv, HandInv, AirInv, Age, ReadInv
<1>14. AgeInv'
  BY <1>2, <1>4, <1>13 DEF PaceInv, AgeInv
<1>15. RoomInv'
  BY <1>3, <1>4, <1>8, JitAssumption DEF RoomInv
<1> QED BY <1>11, <1>12, <1>13, <1>14, <1>15 DEF PaceInv

-----------------------------------------------------------------------------
\* A queue that has become shorter still has the room.
LEMMA FewerKeepRoom ==
  ASSUME IInv, RoomInv, Busy' = Busy, pc' = pc,
         Len(nodes') \in Nat, Len(nodes') <= Len(nodes)
  PROVE  RoomInv'
<1>1. IsFiniteSet(Busy) /\ Len(nodes) \in Nat /\ Len(nodes) <= JIT_QUEUE_MAX
  BY DEF IInv, TypeOK, RoomInv
<1>2. Cardinality(Busy) \in Nat
  BY <1>1, FS_CardinalityType
<1>3. Len(nodes') <= JIT_QUEUE_MAX
  BY <1>1, JitAssumption
<1>4. CASE Len(nodes) + Cardinality(Busy) <= JIT_QUEUE_MAX
  <2>1. Len(nodes') + Cardinality(Busy') <= JIT_QUEUE_MAX
    BY <1>1, <1>2, <1>4, JitAssumption
  <2> QED BY <1>1, <1>3, <2>1 DEF RoomInv
<1>5. CASE \A p, q \in Busy : p = q /\ pc[p] = "timed"
  BY <1>1, <1>3, <1>5 DEF RoomInv
<1> QED BY <1>4, <1>5 DEF RoomInv

\* A poll that selects nothing leaves only packets that are far.
LEMMA NothingDue ==
  ASSUME NEW X \in Nat, NEW H \in Nat, Paced(X, H), PaceInv(H),
         Due(nodes, rtime) = {}, NEW i \in Kept(nodes, rtime)
  PROVE  TX_JIT_DELAY <= Ahead(nodes[i].count, rtime)
<1>1. nodes \in Seq(Node) /\ rtime \in Counter /\ i \in DOMAIN nodes
  BY DEF PaceInv, IInv, TypeOK, Kept, Seen, Skipped
<1>2. Ahead(nodes[i].count, rtime) \in Nat
  BY <1>1, SeenFromNow
<1>3. CASE i \in Seen(nodes, rtime)
  <2>1. ~(Ahead(nodes[i].count, rtime) < TX_JIT_DELAY)
    BY <1>1, <1>3, DueExists
  <2> QED BY <1>2, <2>1, JitAssumption
<1>4. CASE i \in Skipped(nodes, rtime)
  <2>1. Outdated(nodes[1], rtime) /\ i = 2 /\ 1 \in DOMAIN nodes
    BY <1>1, <1>4 DEF Skipped
  <2>2. Ahead(nodes[1].count, rtime) \in Nat
    BY <2>1, SeenFromNow
  <2>3. Ahead(nodes[1].count, rtime) <= Ahead(nodes[i].count, rtime)
    <3>1. Wide(X, H + LAG_MAX) /\ H + LAG_MAX \in Nat
      BY PaceFacts DEF Paced
    <3>2. Within(nodes, rtime, H + LAG_MAX)
      <4> SUFFICES ASSUME NEW j \in DOMAIN nodes
                   PROVE  Ahead(nodes[j].count, rtime) <= H + LAG_MAX
        BY DEF Within
      <4>1. Ahead(nodes[j].count, rtime) \in Nat /\ Ahead(nodes[j].count, rtime) <= H
        BY SeenFromNow
      <4>2. LAG_MAX \in Nat
        BY PaceFacts
      <4> QED BY <4>1, <4>2
    <3>3. Ordered(nodes)
      BY DEF PaceInv, WindowInv
    <3> QED BY <1>1, <2>1, <3>1, <3>2, <3>3, SlotsInOrder
  <2>4. TX_MAX_ADVANCE_DELAY <= Ahead(nodes[1].count, rtime)
    BY <2>1, <2>2, JitAssumption DEF Outdated
  <2>5. TX_JIT_DELAY <= TX_MAX_ADVANCE_DELAY
    BY DEF Paced, Wide
  <2> QED BY <1>2, <2>2, <2>3, <2>4, <2>5, JitAssumption
<1> QED BY <1>3, <1>4 DEF Kept

\* Beside the packet selected, the packets kept are far: they are behind it by
\* their own lead.
LEMMA OthersFar ==
  ASSUME NEW X \in Nat, NEW H \in Nat, Paced(X, H), PaceInv(H),
         NEW d \in Due(nodes, rtime), NEW i \in Kept(nodes, rtime), i # d
  PROVE  TX_JIT_DELAY <= Ahead(nodes[i].count, rtime)
<1>1. nodes \in Seq(Node) /\ rtime \in Counter /\ i \in DOMAIN nodes /\ d \in DOMAIN nodes
  BY DEF PaceInv, IInv, TypeOK, Kept, Seen, Skipped, Due
<1>2. nodes[i] \in Node /\ nodes[d] \in Node
      /\ Ahead(nodes[i].count, rtime) \in Nat /\ Ahead(nodes[d].count, rtime) \in Nat
  BY <1>1, SeenFromNow
<1>3. Ahead(nodes[d].count, rtime) < TX_JIT_DELAY
  BY DEF Due
<1>4. Wide(X, H + LAG_MAX) /\ H + LAG_MAX \in Nat
  BY PaceFacts DEF Paced
<1>5. CASE i \in Seen(nodes, rtime)
  <2>1. Ahead(nodes[d].count, rtime) <= Ahead(nodes[i].count, rtime)
    BY <1>5 DEF Due
  <2>2. Compatible(nodes[d], nodes[i])
    BY <1>1 DEF PaceInv, IInv, NoOverlap
  <2>3. Ahead(nodes[i].count, rtime) - Ahead(nodes[d].count, rtime)
          > Lead(nodes[i], nodes[d]) + nodes[d].post + TX_MARGIN_DELAY
    BY <1>1, <1>2, <2>1, <2>2, ApartInWindow
  <2>4. nodes[i].type # "BEACON"
    BY <1>1 DEF PaceInv, WindowInv
  <2>5. /\ Lead(nodes[i], nodes[d]) = TX_START_DELAY + TX_JIT_DELAY
        /\ nodes[d].post \in Nat
    BY <1>2, <1>4, <2>4, NodeDelays DEF Lead
  <2> DEFINE a == Ahead(nodes[i].count, rtime)
             b == Ahead(nodes[d].count, rtime)
             c == nodes[d].post
  <2>6. /\ a - b > TX_START_DELAY + TX_JIT_DELAY + c + TX_MARGIN_DELAY
        /\ a \in Nat /\ b \in Nat /\ c \in Nat
    BY <1>2, <2>3, <2>5
  <2> HIDE DEF a, b, c
  <2>7. TX_JIT_DELAY <= a
    BY <2>6, JitAssumption
  <2> QED BY <2>7 DEF a
<1>6. CASE i \in Skipped(nodes, rtime)
  <2>1. Outdated(nodes[1], rtime) /\ 1 \in DOMAIN nodes /\ 1 <= d
    BY <1>1, <1>6 DEF Skipped
  <2>2. Ahead(nodes[1].count, rtime) \in Nat
    BY <2>1, SeenFromNow
  <2>3. Ahead(nodes[1].count, rtime) <= Ahead(nodes[d].count, rtime)
    <3>1. \A j \in DOMAIN nodes : Ahead(nodes[j].count, rtime) <= H + LAG_MAX
      <4> SUFFICES ASSUME NEW j \in DOMAIN nodes
                   PROVE  Ahead(nodes[j].count, rtime) <= H + LAG_MAX
        OBVIOUS
      <4>1. Ahead(nodes[j].count, rtime) \in Nat /\ Ahead(nodes[j].count, rtime) <= H
        BY SeenFromNow
      <4>2. LAG_MAX \in Nat
        BY PaceFacts
      <4> QED BY <4>1, <4>2
    <3>2. Ordered(nodes) /\ Within(nodes, rtime, H + LAG_MAX)
      BY <3>1 DEF PaceInv, WindowInv, Within
    <3> QED BY <1>1, <1>4, <2>1, <3>2, SlotsInOrder
  <2>4. TX_MAX_ADVANCE_DELAY <= Ahead(nodes[1].count, rtime)
    BY <2>1, <2>2, JitAssumption DEF Outdated
  <2>5. TX_JIT_DELAY <= TX_MAX_ADVANCE_DELAY
    BY DEF Paced, Wide
  <2>6. FALSE
    BY <1>2, <1>3, <2>2, <2>3, <2>4, <2>5, JitAssumption
  <2> QED BY <2>6
<1> QED BY <1>5, <1>6 DEF Kept

LEMMA PeekKeeps ==
  ASSUME NEW X \in Nat, NEW H \in Nat, Paced(X, H), PaceInv(H), IInv', Peek
  PROVE  PaceInv(H)'
<1> DEFINE K == Kept(nodes, rtime)
<1>1. /\ rpc = "timed" /\ nodes' \in Arrange(nodes, K)
      /\ UNCHANGED <<now, pc, ptime, pread, rtime, rread, rpkt, radio, misread>>
  BY DEF Peek, producerVars
<1>2. /\ nodes \in Seq(Node) /\ Len(nodes) \in Nat /\ rtime \in Counter
      /\ K \in SUBSET DOMAIN nodes
  BY DEF PaceInv, IInv, TypeOK, Kept, Seen, Skipped
<1> HIDE DEF K
<1>3. \A i \in K : Ahead(nodes[i].count, rtime) <= H /\ nodes[i].type # "BEACON"
  BY <1>2 DEF PaceInv, WindowInv, Within
<1>4. /\ WindowInv(H)'
      /\ \A i \in DOMAIN nodes' : \E j \in K : nodes'[i] = nodes[j]
      /\ \A j \in K : \E i \in DOMAIN nodes' : nodes'[i] = nodes[j]
      /\ \A i \in DOMAIN nodes' :
           1 \in DOMAIN nodes'
           /\ Ahead(nodes'[1].count, rtime) <= Ahead(nodes'[i].count, rtime)
  <2>1. 2 * H < W
    BY PaceFacts
  <2> QED BY <1>1, <1>2, <1>3, <2>1, SortedInWindow
<1>5. FarInv' /\ FirstInv' /\ rpc' \in {"idle", "peeked"}
  <2>1. CASE Due(nodes, rtime) = {}
    <3>1. rpc' = "idle"
      BY <2>1 DEF Peek
    <3>2. \A i \in DOMAIN nodes' : TX_JIT_DELAY <= Ahead(nodes'[i].count, rtime)
      BY <1>4, <2>1, NothingDue DEF K
    <3> QED BY <1>1, <3>1, <3>2 DEF FarInv, Nearest, FirstInv
  <2>2. CASE Due(nodes, rtime) # {}
    <3>1. rpc' = "peeked"
      BY <2>2 DEF Peek
    <3>2. PICK d \in Due(nodes, rtime) :
            ridx' = CHOOSE k \in DOMAIN nodes' : nodes'[k] = nodes[d]
      BY <2>2 DEF Peek
    <3>3. d \in K /\ d \in DOMAIN nodes /\ nodes[d] \in Node
          /\ Ahead(nodes[d].count, rtime) < TX_JIT_DELAY
      BY <1>2 DEF Due, Kept, Seen, K
    <3>4. \E k \in DOMAIN nodes' : nodes'[k] = nodes[d]
      BY <1>4, <3>3
    <3>5. ridx' \in DOMAIN nodes' /\ nodes'[ridx'] = nodes[d]
      BY <3>2, <3>4
    <3>6. \A i \in DOMAIN nodes' :
            nodes'[i] = nodes[d] \/ TX_JIT_DELAY <= Ahead(nodes'[i].count, rtime)
      BY <1>4, OthersFar DEF K
    <3>7. /\ nodes' \in Seq(Node)
          /\ \A i, j \in DOMAIN nodes' : i # j => Compatible(nodes'[i], nodes'[j])
      BY DEF IInv, TypeOK, NoOverlap
    <3>8. /\ ridx' = 1
          /\ \A i \in DOMAIN nodes' :
               i # 1 => TX_JIT_DELAY <= Ahead(nodes'[i].count, rtime)
      BY <1>2, <1>4, <3>3, <3>5, <3>6, <3>7, FirstIsDue
    <3>9. TX_JIT_DELAY - Pause <= Ahead(nodes[d].count, rtime)
      BY <1>1, <3>3 DEF PaceInv, FarInv, Nearest
    <3> QED BY <1>1, <3>1, <3>3, <3>5, <3>8, <3>9 DEF FarInv, Nearest, FirstInv
  <2> QED BY <2>1, <2>2
<1>6. HandInv' /\ AirInv' /\ Age' = Age /\ Busy' = Busy /\ ReadInv'
  BY <1>1, <1>5 DEF PaceInv, HandInv, AirInv, Age, Busy, ReadInv
<1>7. AgeInv'
  <2>1. Age <= RUN_MAX /\ Age \in Int
    BY <1>1, AheadFrom DEF PaceInv, AgeInv, Age, IInv, TypeOK
  <2>2. RUN_MAX <= Pause /\ Pause \in Int /\ RUN_MAX \in Int
    BY PaceFacts
  <2>3. Age <= Pause
    BY <2>1, <2>2
  <2> QED BY <1>1, <1>6, <2>1, <2>3 DEF PaceInv, AgeInv
<1>8. Len(nodes') <= Len(nodes) /\ Len(nodes') \in Nat
  BY <1>1, <1>2, ArrangeKeeps
<1>9. RoomInv'
  BY <1>1, <1>6, <1>8, FewerKeepRoom DEF PaceInv
<1> QED BY <1>4, <1>5, <1>6, <1>7, <1>9 DEF PaceInv

-----------------------------------------------------------------------------
\* jitRunner() takes the first packet, which is due; the others are far.
LEMMA DequeueKeeps ==
  ASSUME NEW X \in Nat, NEW H \in Nat, Paced(X, H), PaceInv(H), IInv', Dequeue
  PROVE  PaceInv(H)'
<1> DEFINE K == DOMAIN nodes \ {1}
<1>1. /\ rpc = "peeked" /\ rpc' = "taken" /\ ridx = 1
      /\ rpkt' = nodes[1] /\ nodes' \in Arrange(nodes, K)
      /\ UNCHANGED <<now, pc, ptime, pread, rtime, rread, radio, misread>>
  BY DEF Dequeue, producerVars, PaceInv, FirstInv
<1>2. /\ nodes \in Seq(Node) /\ Len(nodes) \in Nat /\ rtime \in Counter
      /\ 1 \in DOMAIN nodes /\ nodes[1] \in Node
  BY <1>1 DEF PaceInv, IInv, TypeOK, IndexInUse
<1>3. K \in SUBSET DOMAIN nodes /\ \A i \in K : i # 1 /\ i \in DOMAIN nodes
  OBVIOUS
<1> HIDE DEF K
<1>4. \A i \in K : Ahead(nodes[i].count, rtime) <= H /\ nodes[i].type # "BEACON"
  BY <1>3 DEF PaceInv, WindowInv, Within
<1>5. /\ WindowInv(H)'
      /\ \A i \in DOMAIN nodes' : \E j \in K : nodes'[i] = nodes[j]
  <2>1. 2 * H < W
    BY PaceFacts
  <2> QED BY <1>1, <1>2, <1>3, <1>4, <2>1, SortedInWindow
<1>6. FarInv'
  <2>1. \A j \in K : TX_JIT_DELAY <= Ahead(nodes[j].count, rtime)
    BY <1>1, <1>3 DEF PaceInv, FarInv, Nearest
  <2> QED BY <1>1, <1>5, <2>1 DEF FarInv, Nearest
<1>7. HandInv'
  <2>1. nodes[1].type # "BEACON"
    BY <1>2 DEF PaceInv, WindowInv
  <2>2. TX_JIT_DELAY - Pause <= Ahead(nodes[1].count, rtime)
    BY <1>1, <1>2 DEF PaceInv, FarInv, Nearest
  <2>3. Ahead(nodes[1].count, rtime) < TX_JIT_DELAY
    BY <1>1 DEF PaceInv, FirstInv
  <2>4. Pause' = Pause
    BY DEF Pause
  <2> QED BY <1>1, <1>2, <2>1, <2>2, <2>3, <2>4 DEF HandInv
<1>8. FirstInv' /\ AirInv' /\ Age' = Age /\ Busy' = Busy /\ ReadInv'
  BY <1>1 DEF PaceInv, FirstInv, AirInv, Age, Busy, ReadInv
<1>9. AgeInv'
  BY <1>1, <1>8 DEF PaceInv, AgeInv
<1>10. Len(nodes') <= Len(nodes) /\ Len(nodes') \in Nat
  BY <1>1, <1>2, <1>3, ArrangeKeeps
<1>11. RoomInv'
  BY <1>1, <1>8, <1>10, FewerKeepRoom DEF PaceInv
<1> QED BY <1>5, <1>6, <1>7, <1>8, <1>9, <1>11 DEF PaceInv

\* The time is read anew: every packet is nearer by the time since the last poll.
LEMMA StartPollKeeps ==
  ASSUME NEW X \in Nat, NEW H \in Nat, Paced(X, H), PaceInv(H), IInv', StartPoll, misread' = 0
  PROVE  PaceInv(H)'
<1>0. /\ \E t \in Counter : Read(t) /\ rtime' = t
      /\ rread' = now /\ UNCHANGED <<ptime, pread>>
  BY DEF StartPoll, producerVars
<1>1. /\ rpc = "idle" /\ rpc' = "timed" /\ rtime' = now
      /\ UNCHANGED <<nodes, now, pc, ptime, ridx, rpkt, radio>>
  BY <1>0, ReadCounts DEF StartPoll, producerVars, PaceInv, IInv
<1>r. ReadInv'
  BY <1>0, <1>1 DEF PaceInv, ReadInv
<1>2. now \in Counter
  BY DEF PaceInv, IInv, TypeOK
<1>3. Pause \in Nat /\ RUN_MAX \in Nat /\ TX_JIT_DELAY \in Nat
  BY PaceFacts
<1>4. ASSUME NEW i \in DOMAIN nodes
      PROVE  /\ Ahead(nodes[i].count, now) <= H
             /\ TX_JIT_DELAY - Pause <= Ahead(nodes[i].count, now)
  <2> DEFINE a == Ahead(nodes[i].count, rtime)
             b == Ahead(nodes[i].count, now)
  <2>1. a \in Nat /\ a <= H /\ Age \in Nat /\ Age <= Pause /\ b = a - Age
    BY SeenFromNow
  <2>2. TX_JIT_DELAY <= a
    BY <1>1 DEF PaceInv, FarInv, Nearest
  <2> HIDE DEF a, b
  <2>3. b <= H /\ TX_JIT_DELAY - Pause <= b
    BY <1>3, <2>1, <2>2
  <2> QED BY <2>3 DEF b
<1>5. WindowInv(H)'
  BY <1>1, <1>4 DEF PaceInv, WindowInv, Within
<1>6. FarInv'
  <2>1. Pause' = Pause
    BY DEF Pause
  <2> QED BY <1>1, <1>4, <2>1 DEF FarInv, Nearest
<1>7. FirstInv' /\ HandInv' /\ AirInv' /\ Busy' = Busy
  BY <1>1 DEF PaceInv, FirstInv, HandInv, AirInv, Busy
<1>8. AgeInv'
  <2>1. Age' = 0
    <3>1. Ahead(now, now) = 0
      BY <1>2, JitAssumption DEF Ahead, Counter
    <3> QED BY <1>1, <3>1 DEF Age
  <2> QED BY <1>1, <1>3, <1>7, <2>1 DEF PaceInv, AgeInv
<1>9. RoomInv'
  BY <1>1, <1>7 DEF PaceInv, RoomInv
<1> QED BY <1>r, <1>5, <1>6, <1>7, <1>8, <1>9 DEF PaceInv

\* The age of a packet in hand, and what it leaves of the time to departure.
LEMMA InHandFromNow ==
  ASSUME NEW X \in Nat, NEW H \in Nat, Paced(X, H), PaceInv(H),
         rpc \in {"taken", "cleared"}
  PROVE  /\ rpkt \in Node /\ rpkt.type # "BEACON" /\ rpkt.count \in Counter
         /\ Ahead(rpkt.count, now) \in Nat
         /\ TX_START_DELAY <= Ahead(rpkt.count, now)
         /\ Ahead(rpkt.count, now) < TX_JIT_DELAY
<1> DEFINE a == Ahead(rpkt.count, rtime)
           b == Ahead(rpkt.count, now)
<1>1. /\ rpkt \in Node /\ rpkt.type # "BEACON" /\ TX_JIT_DELAY - Pause <= a
      /\ a < TX_JIT_DELAY
  BY DEF PaceInv, HandInv
<1>2. rpkt.count \in Counter /\ now \in Counter /\ rtime \in Counter
  BY <1>1, NodeFields DEF PaceInv, IInv, TypeOK
<1>3. a \in 0 .. W-1 /\ Age \in 0 .. W-1 /\ W \in Nat
  BY <1>2, AheadFrom DEF Age
<1>4. Age <= RUN_MAX
  BY DEF PaceInv, AgeInv
<1>5. /\ Pause \in Nat /\ RUN_MAX \in Nat /\ TX_JIT_DELAY \in Nat
      /\ TX_START_DELAY \in Nat
      /\ Pause + RUN_MAX + TX_START_DELAY <= TX_JIT_DELAY
  BY PaceFacts
<1>6. Age <= a
  <2> HIDE DEF a
  <2> QED BY <1>1, <1>3, <1>4, <1>5
<1>7. b = a - Age
  BY <1>2, <1>6, AheadFrom DEF Age
<1> HIDE DEF a, b
<1>8. b \in Nat /\ TX_START_DELAY <= b /\ b < TX_JIT_DELAY
  BY <1>1, <1>3, <1>4, <1>5, <1>6, <1>7
<1> QED BY <1>1, <1>2, <1>8 DEF b

\* jitRunner() is done with the packet in hand: given up, sent or failed.
LEMMA RunEnds ==
  ASSUME NEW X \in Nat, NEW H \in Nat, Paced(X, H), PaceInv(H), IInv',
         GiveUp \/ Send
  PROVE  PaceInv(H)'
<1>1. /\ rpc \in {"taken", "cleared"} /\ rpc' = "idle" /\ radio' \in {rpkt, radio}
      /\ UNCHANGED <<nodes, now, pc, ptime, pread, rtime, rread, ridx, misread>>
  BY DEF GiveUp, Send, producerVars
<1>2. WindowInv(H)' /\ FirstInv' /\ HandInv' /\ Busy' = Busy /\ Age' = Age /\ ReadInv'
  BY <1>1 DEF PaceInv, WindowInv, Within, FirstInv, HandInv, Busy, Age, ReadInv
<1>3. FarInv'
  BY <1>1 DEF PaceInv, FarInv, Nearest
<1>4. AgeInv'
  <2>1. Age <= RUN_MAX /\ Age \in Int
    BY <1>1, AheadFrom DEF PaceInv, AgeInv, Age, IInv, TypeOK
  <2>2. RUN_MAX <= Pause /\ Pause \in Int /\ RUN_MAX \in Int
    BY PaceFacts
  <2>3. Age <= Pause /\ Pause' = Pause
    BY <2>1, <2>2 DEF Pause
  <2> QED BY <1>1, <1>2, <2>1, <2>3 DEF PaceInv, AgeInv
<1>5. AirInv'
  <2>1. CASE radio' = radio
    BY <1>1, <2>1 DEF PaceInv, AirInv
  <2>2. CASE radio' = rpkt
    <3>1. rpkt.type # "BEACON" /\ Ahead(rpkt.count, now) < TX_JIT_DELAY
      BY <1>1, InHandFromNow
    <3> QED BY <1>1, <2>2, <3>1 DEF AirInv
  <2> QED BY <1>1, <2>1, <2>2
<1>6. RoomInv'
  BY <1>1, <1>2 DEF PaceInv, RoomInv
<1> QED BY <1>2, <1>3, <1>4, <1>5, <1>6 DEF PaceInv

\* Time passes: what was read grows older, and the radio's packet departs.
LEMMA TickKeeps ==
  ASSUME NEW X \in Nat, NEW H \in Nat, Paced(X, H), PaceInv(H), IInv', Tick
  PROVE  PaceInv(H)'
<1>1. /\ \A p \in Busy : Ahead(now, ptime[p]) < LAG_MAX
      /\ Age < (IF rpc = "idle" THEN POLL_MAX ELSE RUN_MAX)
      /\ now' = Add(now, 1)
      /\ radio' = IF radio # NoTx /\ Ahead(now, radio.count) = radio.post
                  THEN NoTx ELSE radio
      /\ UNCHANGED <<nodes, pc, ptime, pread, rpc, rtime, rread, ridx, rpkt, misread>>
  BY DEF Tick, producerVars, runnerVars, Busy, Age, PaceInv, ReadInv
<1>2. /\ now \in Counter /\ rtime \in Counter
      /\ ptime \in [Producers -> Counter] /\ radio \in Node \cup {NoTx}
  BY DEF PaceInv, IInv, TypeOK
<1>3. /\ Pause \in Nat /\ POLL_MAX <= Pause /\ RUN_MAX <= Pause
      /\ POLL_MAX \in Nat /\ RUN_MAX \in Nat /\ LAG_MAX \in Nat
      /\ Pause <= TX_JIT_DELAY /\ TX_JIT_DELAY <= H /\ TX_JIT_DELAY \in Nat
      /\ 2 * (H + LAG_MAX) < W /\ 2 * H < W /\ W \in Nat
  BY PaceFacts
<1>4. WindowInv(H)' /\ FarInv' /\ FirstInv' /\ HandInv' /\ Busy' = Busy
  BY <1>1 DEF PaceInv, WindowInv, Within, FarInv, Nearest, Pause, FirstInv, HandInv, Busy
<1>5. AgeInv'
  <2>1. Age' = Age + 1 /\ Age \in Int
    <3>1. Age \in 0 .. W-1
      BY <1>2, AheadFrom DEF Age
    <3>2. Age + 1 < W
      BY <1>1, <1>3, <3>1
    <3>3. Ahead(Add(now, 1), rtime) = Ahead(now, rtime) + 1
      BY <1>2, <3>2, AddFrom DEF Age
    <3> QED BY <1>1, <3>1, <3>3 DEF Age
  <2>2. Age' <= (IF rpc' = "idle" THEN Pause' ELSE RUN_MAX)
    <3>1. Pause' = Pause
      BY DEF Pause
    <3> QED BY <1>1, <1>3, <2>1, <3>1
  <2>3. ASSUME NEW p \in Busy
        PROVE  Ahead(now', ptime'[p]) <= LAG_MAX
    <3> DEFINE lag == Ahead(now, ptime[p])
    <3>1. ptime[p] \in Counter
      BY <1>2 DEF Busy
    <3>2. lag \in 0 .. W-1 /\ lag < LAG_MAX
      BY <1>1, <1>2, <3>1, AheadFrom
    <3>3. lag + 1 < W
      <4> HIDE DEF lag
      <4> QED BY <1>3, <3>2
    <3>4. Ahead(Add(now, 1), ptime[p]) = lag + 1
      BY <1>2, <3>1, <3>3, AddFrom
    <3> HIDE DEF lag
    <3> QED BY <1>1, <1>3, <3>2, <3>4
  <2> QED BY <1>4, <2>2, <2>3 DEF AgeInv
<1>6. AirInv'
  <2>1. CASE radio' = NoTx
    BY <2>1 DEF AirInv
  <2>2. CASE radio' # NoTx
    <3> DEFINE c == radio.count
               g == radio.post
    <3>1. /\ radio' = radio /\ radio # NoTx /\ radio \in Node
          /\ Ahead(now, c) # g
      BY <1>1, <1>2, <2>2
    <3>2. c \in Counter /\ g \in Nat /\ g <= X
      <4>1. Wide(X, H + LAG_MAX) /\ H + LAG_MAX \in Nat
        BY PaceFacts DEF Paced
      <4> QED BY <3>1, <4>1, NodeFields, NodeDelays
    <3>3. radio.type # "BEACON"
          /\ (Ahead(c, now) < TX_JIT_DELAY \/ Ahead(now, c) <= g)
      BY <3>1 DEF PaceInv, AirInv
    <3>4. Ahead(c, now) \in 0 .. W-1 /\ Ahead(now, c) \in 0 .. W-1
      BY <1>2, <3>2, AheadFrom
    <3>5. Ahead(c, now) = 0 => Ahead(now, c) = 0
      <4>1. Ahead(now, now) = 0
        BY <1>2, JitAssumption DEF Ahead, Counter
      <4> SUFFICES ASSUME Ahead(c, now) = 0 PROVE Ahead(now, c) = 0
        OBVIOUS
      <4>2. Ahead(now, c) = Ahead(now, now) - Ahead(c, now)
        BY <1>2, <3>2, <4>1, AheadFrom
      <4> QED BY <4>1, <4>2
    <3>6. CASE Ahead(c, now) > 0 /\ Ahead(c, now) < TX_JIT_DELAY
      <4>1. Ahead(c, now') = Ahead(c, now) - 1
        BY <1>1, <1>2, <3>2, <3>6, AheadNext
      <4>2. Ahead(c, now') < TX_JIT_DELAY
        BY <1>3, <3>4, <3>6, <4>1
      <4> QED BY <3>1, <3>3, <4>2 DEF AirInv
    <3>7. CASE Ahead(now, c) <= g
      <4>1. Ahead(now, c) + 1 <= g
        BY <3>1, <3>2, <3>4, <3>7
      <4>2. X < W
        <5>1. Wide(X, H + LAG_MAX) /\ Step(X) \in Nat /\ X <= Step(X)
          BY JitAssumption DEF Paced, Step
        <5>2. 2 * (H + LAG_MAX + Step(X)) <= W
          BY <5>1 DEF Wide
        <5> QED BY <1>3, <5>1, <5>2, JitAssumption
      <4>3. Ahead(now, c) + 1 < W
        BY <1>3, <3>2, <3>4, <4>1, <4>2
      <4>4. Ahead(Add(now, 1), c) = Ahead(now, c) + 1
        BY <1>2, <3>2, <4>3, AddFrom
      <4>5. Ahead(now', c) <= g
        BY <1>1, <4>1, <4>4
      <4> QED BY <3>1, <3>3, <4>5 DEF AirInv
    <3>8. \/ Ahead(c, now) > 0 /\ Ahead(c, now) < TX_JIT_DELAY
          \/ Ahead(now, c) <= g
      BY <3>2, <3>3, <3>4, <3>5
    <3> QED BY <3>6, <3>7, <3>8
  <2> QED BY <2>1, <2>2
<1>7. RoomInv' /\ ReadInv'
  BY <1>1, <1>4 DEF PaceInv, RoomInv, ReadInv
<1> QED BY <1>4, <1>5, <1>6, <1>7 DEF PaceInv

-----------------------------------------------------------------------------
\* Under the program's pace the invariant is kept by every step, until a reading
\* of the counter fails.
LEMMA PaceKept ==
  ASSUME NEW X \in Nat, NEW H \in Nat, Paced(X, H)
  PROVE  Spec => [](misread = 0 => PaceInv(H))
<1>1. Init => PaceInv(H)
  <2> SUFFICES ASSUME Init PROVE PaceInv(H)
    OBVIOUS
  <2>1. IInv
    BY InitIInv
  <2>2. /\ nodes = << >> /\ DOMAIN nodes = {} /\ Len(nodes) = 0
        /\ rpc = "idle" /\ rtime = now /\ now \in Counter
        /\ radio = NoTx /\ Busy = {}
    BY DEF Init, Busy
  <2>3. WindowInv(H) /\ FarInv /\ FirstInv /\ HandInv /\ AirInv
    BY <2>2 DEF WindowInv, Within, Ordered, FarInv, FirstInv, HandInv, AirInv
  <2>4. AgeInv
    <3>1. Ahead(now, now) = 0
      BY <2>2, JitAssumption DEF Ahead, Counter
    <3>2. Pause \in Nat
      BY PaceFacts
    <3> QED BY <2>2, <3>1, <3>2 DEF AgeInv, Age
  <2>5. RoomInv
    BY <2>2, FS_EmptySet, JitAssumption DEF RoomInv
  <2>6. ReadInv
    BY DEF Init, ReadInv
  <2> QED BY <2>1, <2>3, <2>4, <2>5, <2>6 DEF PaceInv
<1>2. /\ IInv /\ IInv' /\ (misread = 0 => PaceInv(H)) /\ [Next]_vars
      => (misread = 0 => PaceInv(H))'
  <2> SUFFICES ASSUME IInv, IInv', misread = 0 => PaceInv(H), [Next]_vars, misread' = 0
               PROVE  PaceInv(H)'
    OBVIOUS
  <2>m. misread = 0
    <3>1. CASE \E t \in Counter : Read(t)
      BY <3>1, ReadCounts DEF IInv
    <3>2. CASE UNCHANGED misread
      BY <3>2
    <3>3. (\E t \in Counter : Read(t)) \/ UNCHANGED misread
      BY DEF Next, vars, ReadTime, CheckFull, Insert, Refuse, StartPoll, Peek, Dequeue,
             GiveUp, ClearToSend, Send, Tick
    <3> QED BY <3>1, <3>2, <3>3
  <2>p. PaceInv(H)
    BY <2>m
  <2>1. ASSUME NEW p \in Producers, ReadTime(p) PROVE PaceInv(H)'
    BY <2>p, <2>1, ReadTimeKeeps
  <2>2. ASSUME NEW p \in Producers, CheckFull(p) PROVE PaceInv(H)'
    BY <2>p, <2>2, CheckFullKeeps
  <2>3. ASSUME NEW p \in Producers, Insert(p) PROVE PaceInv(H)'
    BY <2>p, <2>3, InsertKeeps
  <2>4. ASSUME NEW p \in Producers, Refuse(p) PROVE PaceInv(H)'
    <3>1. /\ p \in Busy /\ pc' = [pc EXCEPT ![p] = "idle"]
          /\ UNCHANGED <<nodes, now, ptime, pread, rpc, rtime, rread, ridx, rpkt, radio, misread>>
      BY <2>4 DEF Refuse, runnerVars, Busy
    <3> QED BY <2>p, <3>1, CallRefused
  <2>5. CASE StartPoll
    BY <2>p, <2>5, StartPollKeeps
  <2>6. CASE Peek
    BY <2>p, <2>6, PeekKeeps
  <2>7. CASE Dequeue
    BY <2>p, <2>7, DequeueKeeps
  <2>8. CASE GiveUp \/ Send
    BY <2>p, <2>8, RunEnds
  <2>9. CASE ClearToSend
    <3>1. /\ rpc = "taken" /\ rpc' = "cleared"
          /\ UNCHANGED <<nodes, now, pc, ptime, pread, rtime, rread, ridx, rpkt, radio,
                         misread>>
      BY <2>9 DEF ClearToSend, producerVars
    <3>2. WindowInv(H)' /\ FirstInv' /\ AirInv' /\ Age' = Age /\ Busy' = Busy
          /\ ReadInv'
      BY <2>p, <3>1 DEF PaceInv, WindowInv, Within, FirstInv, AirInv, Age, Busy, ReadInv
    <3>3. FarInv' /\ HandInv'
      BY <2>p, <3>1 DEF PaceInv, FarInv, Nearest, HandInv, Pause
    <3>4. AgeInv' /\ RoomInv'
      BY <2>p, <3>1, <3>2 DEF PaceInv, AgeInv, RoomInv
    <3> QED BY <3>2, <3>3, <3>4 DEF PaceInv
  <2>10. CASE Tick
    BY <2>p, <2>10, TickKeeps
  <2>11. CASE UNCHANGED vars
    <3>1. UNCHANGED <<nodes, now, pc, ptime, pread, rpc, rtime, rread, ridx, rpkt, radio, misread>>
      BY <2>11 DEF vars
    <3>2. Busy' = Busy
      BY <3>1 DEF Busy
    <3>3. WindowInv(H)' /\ FarInv' /\ FirstInv' /\ HandInv' /\ AirInv' /\ Age' = Age
      BY <2>p, <3>1, RunnerKept
    <3>4. AgeInv' /\ RoomInv' /\ ReadInv'
      BY <2>p, <3>1, <3>2, <3>3 DEF PaceInv, AgeInv, RoomInv, Pause, ReadInv
    <3> QED BY <2>p, <3>3, <3>4 DEF PaceInv
  <2> QED BY <2>1, <2>2, <2>3, <2>4, <2>5, <2>6, <2>7, <2>8, <2>9, <2>10, <2>11 DEF Next
<1>3. Spec => []IInv
  BY Inductive
<1> QED BY <1>1, <1>2, <1>3, PTL DEF Spec

\* The counter is wide and the threads are quick enough for these constants.
QuickEnough == \E X \in Nat, H \in Nat : Paced(X, H)

\* They are with the delays of jitqueue.c and its array of 32, when a producer
\* queues within 2.5 ms of reading the counter, jitRunner() sleeps 10 ms with as
\* much again for the scheduler, and programs the radio within 18.5 ms.
LEMMA ProgramIsQuick ==
  ASSUME W = 4294967296, TX_START_DELAY = 1500, TX_MARGIN_DELAY = 1000,
         TX_JIT_DELAY = 40000, TX_MAX_ADVANCE_DELAY = 512000000,
         BEACON_GUARD = 3000000, BEACON_RESERVED = 2120000, JIT_QUEUE_MAX = 32,
         LAG_MAX <= 2501, POLL_MAX <= 20000, RUN_MAX <= 18500, PENDING_MAX <= 32,
         \A toa \in TOA : toa <= 30000000
  PROVE  QuickEnough
<1> DEFINE X == 30000000
           H == 2020120000
<1>1. Step(X) = 63125000
  BY DEF Step
<1>2. LAG_MAX \in Nat /\ POLL_MAX \in Nat /\ RUN_MAX \in Nat
  BY TxAssumption
<1>3. Wide(X, H + LAG_MAX)
  BY <1>1, <1>2 DEF Wide
<1>4. Paced(X, H)
  BY <1>1, <1>2, <1>3 DEF Paced
<1>5. X \in Nat /\ H \in Nat
  OBVIOUS
<1> HIDE DEF X, H
<1> QED BY <1>4, <1>5 DEF QuickEnough

\* jit_dequeue() takes a packet that was due when jit_peek() selected it: the
\* producers that have queued and sorted in between have left it where it was.
THEOREM DuePacketTaken ==
  ASSUME QuickEnough
  PROVE  Spec => []TakesDuePacket
<1>0. PICK X \in Nat, H \in Nat : Paced(X, H)
  BY DEF QuickEnough
<1>1. (misread = 0 => PaceInv(H)) => TakesDuePacket
  BY DEF PaceInv, HandInv, TakesDuePacket
<1> QED BY <1>1, <1>0, PaceKept, PTL

\* jitRunner() hands a packet to lgw_send() while the radio has the time to
\* start, and never one that seems to lie in the past.
THEOREM HandedOver ==
  ASSUME QuickEnough
  PROVE  Spec => []HandedOverInTime
<1>0. PICK X \in Nat, H \in Nat : Paced(X, H)
  BY DEF QuickEnough
<1>1. (misread = 0 => PaceInv(H)) => HandedOverInTime
  <2> SUFFICES ASSUME PaceInv(H), rpc \in {"taken", "cleared"}
               PROVE  /\ TX_START_DELAY <= Ahead(rpkt.count, now)
                      /\ 2 * Ahead(rpkt.count, now) < W
    BY DEF HandedOverInTime
  <2>1. /\ Ahead(rpkt.count, now) \in Nat
        /\ TX_START_DELAY <= Ahead(rpkt.count, now)
        /\ Ahead(rpkt.count, now) < TX_JIT_DELAY
    BY <1>0, InHandFromNow
  <2>2. 2 * H < W /\ TX_JIT_DELAY <= H /\ W \in Nat /\ TX_JIT_DELAY \in Nat
    BY <1>0, PaceFacts
  <2> QED BY <2>1, <2>2
<1> QED BY <1>1, <1>0, PaceKept, PTL

\* A packet that is in hand departs too soon to share the queue with the one
\* that the radio is to send, or has not yet sent to its end.
LEMMA BusyIsNear ==
  ASSUME NEW X \in Nat, NEW H \in Nat, Paced(X, H), PaceInv(H),
         rpc = "taken", radio # NoTx
  PROVE  ~Compatible(rpkt, radio)
<1> DEFINE a == Ahead(rpkt.count, now)
           b == Ahead(radio.count, now)
           e == Ahead(now, radio.count)
           g == radio.post
           u == Ahead(rpkt.count, radio.count)
           v == Ahead(radio.count, rpkt.count)
           S == TX_START_DELAY
           J == TX_JIT_DELAY
           M == TX_MARGIN_DELAY
<1>1. /\ rpkt \in Node /\ rpkt.type # "BEACON" /\ rpkt.count \in Counter
      /\ a \in Nat /\ a < J
  BY InHandFromNow
<1>2. radio \in Node /\ now \in Counter /\ radio.type # "BEACON" /\ (b < J \/ e <= g)
  BY DEF PaceInv, AirInv, IInv, TypeOK
<1>3. Wide(X, H + LAG_MAX) /\ H + LAG_MAX \in Nat
  BY PaceFacts DEF Paced
<1>4. /\ radio.count \in Counter /\ g \in Nat /\ g <= X /\ rpkt.post \in Nat
      /\ Lead(rpkt, radio) = S + J /\ Lead(radio, rpkt) = S + J
  BY <1>1, <1>2, <1>3, NodeFields, NodeDelays DEF Lead
<1>5. /\ b \in 0 .. W-1 /\ e \in 0 .. W-1
      /\ b <= a => u = a - b
      /\ a <= b => v = b - a
  BY <1>1, <1>2, <1>4, AheadFrom
<1>6. S \in Nat /\ J \in Nat /\ M \in Nat /\ W \in Nat
  BY JitAssumption
<1>7. J + X < W
  <2>1. Step(X) \in Nat /\ J + X <= Step(X)
    BY JitAssumption DEF Step
  <2>2. 2 * (H + LAG_MAX + Step(X)) <= W
    BY <1>3 DEF Wide
  <2>3. J <= H /\ 2 * (H + LAG_MAX) < W
    BY PaceFacts
  <2> QED BY <1>3, <1>6, <2>1, <2>2, <2>3
<1>8. Compatible(rpkt, radio) => u > S + J + g + M /\ v > S + J + rpkt.post + M
  BY <1>4 DEF Compatible, Clear
<1>9. CASE b < J
  <2> DEFINE o == rpkt.post
  <2>1. o \in Nat
    BY <1>4
  <2> HIDE DEF a, b, e, g, u, v, S, J, M, o
  <2>2. ~(u > S + J + g + M /\ v > S + J + o + M)
    BY <1>1, <1>4, <1>5, <1>6, <1>9, <2>1
  <2> QED BY <1>8, <2>2 DEF o
<1>10. CASE e <= g
  <2>1. a + e < W
    <3> HIDE DEF a, b, e, g, u, v, S, J, M
    <3> QED BY <1>1, <1>4, <1>5, <1>6, <1>7, <1>10
  <2>2. u = a + e
    BY <1>1, <1>2, <1>4, <2>1, AheadSum
  <2> HIDE DEF a, b, e, g, u, v, S, J, M
  <2>3. ~(u > S + J + g + M)
    BY <1>1, <1>4, <1>5, <1>6, <1>10, <2>2
  <2> QED BY <1>8, <2>3
<1> QED BY <1>2, <1>9, <1>10

\* When the radio is busy with a packet that jitRunner() programmed before, the
\* packet in hand is one that jit_enqueue() would have refused next to it.
THEOREM OnlyForgottenMeet ==
  ASSUME QuickEnough
  PROVE  Spec => []BusyMeansForgotten
<1>0. PICK X \in Nat, H \in Nat : Paced(X, H)
  BY DEF QuickEnough
<1>1. (misread = 0 => PaceInv(H)) => BusyMeansForgotten
  BY <1>0, BusyIsNear DEF BusyMeansForgotten, RadioStatus
<1> QED BY <1>1, <1>0, PaceKept, PTL
=============================================================================
