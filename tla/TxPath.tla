------------------------------- MODULE TxPath -------------------------------
(***************************************************************************)
(* The transmit path around one JiT queue, at the grain of its critical    *)
(* sections: the threads that call enqueueTxPacket(), the jitRunner()      *)
(* thread, and the radio as the program sees it through lgw_status() and   *)
(* lgw_send(). Between any two steps of a thread the others may run and    *)
(* time may pass, so the concentrator time a thread has read, the answer   *)
(* of jit_queue_is_full() and the index of a peek may be stale when used.  *)
(***************************************************************************)
EXTENDS JitOps

CONSTANTS
  Producers,   \* the threads that call enqueueTxPacket()
  NoTx,        \* no packet
  LAG_MAX,     \* bound: time from reading the counter to queueing
  POLL_MAX,    \* bound: time from one poll to the next
  RUN_MAX,     \* bound: time from reading the counter to lgw_send()
  PENDING_MAX, \* bound: packets queued or being queued when calls overlap
  MISREADS,    \* bound: how far a reading that failed may be from the counter
  MISREAD_MAX  \* bound: readings that fail

ASSUME TxAssumption ==
  /\ {LAG_MAX, POLL_MAX, RUN_MAX, PENDING_MAX, MISREAD_MAX} \subseteq Nat
  /\ MISREADS \subseteq Counter

VARIABLES
  nodes,  \* the queue, as in JitQueue
  now,    \* the concentrator's counter
  pc,     \* where each producer is in enqueueTxPacket() and jit_enqueue()
  ptime,  \* the time each producer has read
  pread,  \* when it has read it
  rpc,    \* where jitRunner() is in its loop
  rtime,  \* the time it has read
  rread,  \* when it has read it
  ridx,   \* the index its peek has returned
  rpkt,   \* the packet it has dequeued
  radio,  \* the packet the radio is programmed with
  misread \* history: how many readings of the counter have failed

vars == <<nodes, now, pc, ptime, pread, rpc, rtime, rread, ridx, rpkt, radio, misread>>
producerVars == <<pc, ptime, pread>>
runnerVars == <<rpc, rtime, rread, ridx, rpkt>>

TypeOK ==
  /\ nodes \in Seq(Node) /\ now \in Counter
  /\ pc \in [Producers -> {"idle", "timed", "checked"}]
  /\ ptime \in [Producers -> Counter] /\ pread \in [Producers -> Counter]
  /\ rpc \in {"idle", "timed", "peeked", "taken", "cleared"}
  /\ rtime \in Counter /\ rread \in Counter /\ ridx \in Nat /\ misread \in 0 .. MISREAD_MAX
  /\ rpkt \in Node \cup {NoTx} /\ radio \in Node \cup {NoTx}

Init ==
  /\ nodes = << >> /\ now \in Counter
  /\ pc = [p \in Producers |-> "idle"]
  /\ ptime = [p \in Producers |-> now] /\ pread = ptime
  /\ rpc = "idle" /\ rtime = now /\ rread = now /\ ridx = 0
  /\ rpkt = NoTx /\ radio = NoTx /\ misread = 0

-----------------------------------------------------------------------------
\* lgw_get_instcnt() ignores the error of a failed read of the registers, and
\* yields a variable that nobody has set.
Read(t) ==
  \/ t = now /\ UNCHANGED misread
  \/ /\ t \in {Add(now, e) : e \in MISREADS}
     /\ misread < MISREAD_MAX /\ misread' = misread + 1

\* enqueueTxPacket(): the counter is read under mLGW, which is then released.
ReadTime(p) ==
  /\ pc[p] = "idle"
  /\ LET calling == {r \in Producers : pc[r] # "idle"}
     IN calling # {} => Len(nodes) + Cardinality(calling) < PENDING_MAX
  /\ pc' = [pc EXCEPT ![p] = "timed"]
  /\ pread' = [pread EXCEPT ![p] = now]
  /\ \E t \in Counter : Read(t) /\ ptime' = [ptime EXCEPT ![p] = t]
  /\ UNCHANGED <<nodes, now, radio, runnerVars>>

\* jit_enqueue(): jit_queue_is_full() takes and releases mx_jit_queue.
CheckFull(p) ==
  /\ pc[p] = "timed"
  /\ pc' = [pc EXCEPT ![p] = IF IsFull(nodes) THEN "idle" ELSE "checked"]
  /\ UNCHANGED <<nodes, now, ptime, pread, radio, runnerVars, misread>>

\* The packets p may present: IMMEDIATE ones are Class C, TIMESTAMPED ones
\* Class A. A packet in mode ON_GPS never gets here: its case falls into the
\* default, which returns an error.
Presented(p) ==
  UNION {{NewNode(c, "A", toa) : c \in Counter} \cup
         {NewNode(c, "C", toa) : c \in AsapCounts(nodes, ptime[p], toa)} :
         toa \in TOA}

\* jit_enqueue(): the critical section that checks the criteria and inserts.
Insert(p) ==
  /\ pc[p] = "checked"
  /\ \E n \in Presented(p) :
       /\ Acceptable(nodes, n, ptime[p])
       /\ nodes' \in Arrange(Append(nodes, n), 1 .. Len(nodes)+1)
  /\ pc' = [pc EXCEPT ![p] = "idle"]
  /\ UNCHANGED <<now, ptime, pread, radio, runnerVars, misread>>

Refuse(p) ==
  /\ pc[p] = "checked"
  /\ \E n \in Presented(p) : ~Acceptable(nodes, n, ptime[p])
  /\ pc' = [pc EXCEPT ![p] = "idle"]
  /\ UNCHANGED <<nodes, now, ptime, pread, radio, runnerVars, misread>>

-----------------------------------------------------------------------------
\* jitRunner(): a poll starts by reading the counter under mLGW.
StartPoll ==
  /\ rpc = "idle"
  /\ rpc' = "timed" /\ rread' = now
  /\ \E t \in Counter : Read(t) /\ rtime' = t
  /\ UNCHANGED <<nodes, now, radio, ridx, rpkt, producerVars>>

\* Mutant of Peek: jitRunner() does not test the index for being -1.
PeekNoIndexTest ==
  /\ rpc = "timed"
  /\ nodes' \in Arrange(nodes, Kept(nodes, rtime))
  /\ rpc' = "peeked"
  /\ ridx' \in IF Due(nodes, rtime) = {} THEN {-1} ELSE {1}
  /\ UNCHANGED <<now, radio, rtime, rread, rpkt, producerVars, misread>>

\* jit_peek(): purges the queue, and yields the index of a packet to be sent.
Peek ==
  /\ rpc = "timed"
  /\ nodes' \in Arrange(nodes, Kept(nodes, rtime))
  /\ IF Due(nodes, rtime) = {}
     THEN rpc' = "idle" /\ UNCHANGED ridx
     ELSE /\ rpc' = "peeked"
          /\ \E i \in Due(nodes, rtime) :
               ridx' = CHOOSE k \in DOMAIN nodes' : nodes'[k] = nodes[i]
  /\ UNCHANGED <<now, radio, rtime, rread, rpkt, producerVars, misread>>

\* Mutant of Dequeue: the slot is overwritten with the last packet before it
\* is copied out.
DequeueSwapped ==
  /\ rpc = "peeked"
  /\ rpkt' = nodes[Len(nodes)]
  /\ nodes' \in Arrange(nodes, DOMAIN nodes \ {ridx})
  /\ rpc' = "taken" /\ ridx' = 0
  /\ UNCHANGED <<now, radio, rtime, rread, producerVars, misread>>

\* jit_dequeue(): takes whatever the slot holds by now.
Dequeue ==
  /\ rpc = "peeked"
  /\ rpkt' = nodes[ridx]
  /\ nodes' \in Arrange(nodes, DOMAIN nodes \ {ridx})
  /\ rpc' = "taken" /\ ridx' = 0
  /\ UNCHANGED <<now, radio, rtime, rread, producerVars, misread>>

\* What lgw_status() reports of the radio at the current time.
RadioStatus ==
  IF radio = NoTx THEN "free"
  ELSE LET d == Ahead(radio.count, now)
       IN IF d # 0 /\ 2 * d < W THEN "scheduled" ELSE "emitting"

\* A radio that is emitting costs the packet in hand; one that is scheduled,
\* or an error of lgw_status(), does not hold jitRunner back.
GiveUp ==
  /\ rpc = "taken"
  /\ RadioStatus = "emitting"
  /\ rpc' = "idle" /\ rpkt' = NoTx
  /\ UNCHANGED <<nodes, now, radio, rtime, rread, ridx, producerVars, misread>>

ClearToSend ==
  /\ rpc = "taken"
  /\ rpc' = "cleared"
  /\ \E statusOk \in BOOLEAN : statusOk => RadioStatus # "emitting"
  /\ UNCHANGED <<nodes, now, radio, rtime, rread, ridx, rpkt, producerVars, misread>>

\* lgw_send() programs the radio, or fails and the packet is only counted.
Send ==
  /\ rpc = "cleared"
  /\ radio' \in {rpkt, radio}
  /\ rpc' = "idle" /\ rpkt' = NoTx
  /\ UNCHANGED <<nodes, now, rtime, rread, ridx, producerVars, misread>>

-----------------------------------------------------------------------------
\* Time passes within the bounds; the radio is free when its packet is out.
Tick ==
  /\ \A p \in Producers : pc[p] # "idle" => Ahead(now, pread[p]) < LAG_MAX
  /\ Ahead(now, rread) < (IF rpc = "idle" THEN POLL_MAX ELSE RUN_MAX)
  /\ now' = Add(now, 1)
  /\ radio' = IF radio # NoTx /\ Ahead(now, radio.count) = radio.post
              THEN NoTx ELSE radio
  /\ UNCHANGED <<nodes, producerVars, runnerVars, misread>>

Next ==
  \/ \E p \in Producers : ReadTime(p) \/ CheckFull(p) \/ Insert(p) \/ Refuse(p)
  \/ StartPoll \/ Peek \/ Dequeue \/ GiveUp \/ ClearToSend \/ Send
  \/ Tick

Spec == Init /\ [][Next]_vars

-----------------------------------------------------------------------------
\* Every step commutes with a rotation of the counter, so that a state may be
\* identified by its stamps relative to now. The queue does not depend on what
\* the radio does, of which nothing is said once a reading has failed.
Relative ==
  LET rel(n) == IF n = NoTx THEN n ELSE [n EXCEPT !.count = Ahead(@, now)]
  IN <<[i \in DOMAIN nodes |-> rel(nodes[i])], pc,
       [p \in Producers |-> IF pc[p] = "idle" THEN << >>
                           ELSE <<Ahead(now, ptime[p]), Ahead(now, pread[p])>>],
       rpc, IF rpc = "idle" THEN 0 ELSE Ahead(now, rtime), Ahead(now, rread),
       ridx, misread, IF misread > 0 THEN << >> ELSE <<rel(rpkt), rel(radio)>> >>

\* The queued packets share no air time, whatever the producers' interleaving
\* and however stale or wrong the times they have read.
NoOverlap ==
  \A i, j \in DOMAIN nodes : i # j => Compatible(nodes[i], nodes[j])

\* jit_dequeue() does not compare its index with num_pkt: the index of a peek
\* is still that of a queued packet when it is used, even if a reading failed.
IndexInUse == rpc = "peeked" => ridx \in DOMAIN nodes

\* The packet that jit_dequeue() takes is one that was due at the peek, though
\* packets may have been inserted and the queue sorted in between; unless a
\* reading of the counter has failed, which nobody notices.
TakesDuePacket ==
  misread = 0 /\ rpc \in {"taken", "cleared"} => Ahead(rpkt.count, rtime) < TX_JIT_DELAY

\* A packet is handed to lgw_send() while there is time to start the radio;
\* unless a reading of the counter has failed.
HandedOverInTime ==
  misread = 0 /\ rpc \in {"taken", "cleared"} =>
    LET d == Ahead(rpkt.count, now) IN TX_START_DELAY <= d /\ 2 * d < W

\* Two packets that the queue could have held together never meet at the radio:
\* if the radio is busy when jitRunner has dequeued a packet, then that packet
\* was accepted after the radio's had left the queue and was forgotten; unless a
\* reading of the counter has failed.
BusyMeansForgotten ==
  misread = 0 /\ rpc = "taken" /\ RadioStatus # "free" => ~Compatible(rpkt, radio)

\* jitqueue.h:31, JIT_QUEUE_MAX: "Maximum number of packets to be stored in
\* JiT queue".
WithinArray == Len(nodes) <= JIT_QUEUE_MAX

\* jitqueue.h:112: "Once the packet is queued, it has to be sent over the air.
\* So all checks should happen before the packet being actually in the queue":
\* a packet that has been dequeued goes on to lgw_send().
QueuedIsSent == [][rpc = "taken" => rpc' \in {"taken", "cleared"}]_vars
=============================================================================
