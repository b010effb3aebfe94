----------------------------- MODULE BeaconPath -----------------------------
(***************************************************************************)
(* The threads that share the concentrator with the two packet paths:      *)
(* gpsRunner(), gpsCheckTimeRunner(), downstreamBeaconRunner() and, when   *)
(* it is enabled, spectralScanRunner(), together with the JiT queue and    *)
(* jitRunner(), which takes from it what they have queued. Each critical   *)
(* section is a step; TxPath has the steps within a poll of jitRunner().   *)
(***************************************************************************)
EXTENDS GpsReference, SpectralScan

CONSTANTS
  PERIOD,               \* beaconPeriod
  JIT_NUM_BEACON_IN_QUEUE,
  XERR_INIT_AVG,        \* checks that the first correction is averaged on
  SETTINGS,             \* what may be enabled: "beacon", "scan"
  CLOCK_ERRORS,         \* errors the system's clock may start with
  NoTx,                 \* no packet
  OFFSET,               \* what the counter is at GPS time 0
  DOWNLINKS,            \* bound: the counts that downlinks are sent for
  NOW_MAX,              \* bound: GPS time
  MISREADS,             \* bound: how far a reading that failed may be off
  FAULT_MAX,            \* bound: pulses read too late and readings that fail
  SLOT_MAX,             \* bound: the times of beacons
  MEMORY,               \* what gpsTimeReference may hold before it is set
  UNSET                 \* what beacon_pkt.count_us may hold before it is set

ASSUME BeaconAssumption ==
  /\ PERIOD \in Nat \ {0} /\ JIT_NUM_BEACON_IN_QUEUE \in Nat /\ XERR_INIT_AVG \in Nat
  /\ SETTINGS \subseteq SUBSET {"beacon", "scan"}
  /\ CLOCK_ERRORS \subseteq Int
  /\ NOW_MAX \in Nat \ {0} /\ FAULT_MAX \in Nat /\ SLOT_MAX \in Nat
  /\ OFFSET \in Counter /\ MISREADS \subseteq Counter
  /\ DOWNLINKS \subseteq Counter /\ MEMORY \subseteq Reference /\ UNSET \subseteq Counter

VARIABLES
  on,      \* the settings of this start
  now,     \* GPS time: the pulses so far
  clock,   \* what the system's clock is wrong by
  ref,     \* gpsTimeReference
  before,  \* aber_min1, aber_min2
  timeSet, \* gpsTimeLastSynced is not 0
  pulse,   \* the time of the last message of the GPS
  valid,   \* gps_ref_valid
  corrOk,  \* xtal_correct_ok
  avg,     \* init_cpt: checks averaged so far
  bpc,     \* where downstreamBeaconRunner is
  todo,    \* beacon_loop
  retry,   \* periods the next beacon is put off
  last,    \* last_beacon_gps_time, 0 for none
  next,    \* the beacon that has been computed
  nodes,   \* the JiT queue
  rpc,     \* where jitRunner is
  rpkt,    \* the packet it has dequeued
  radio,   \* the packet the radio is programmed with
  stopReq, \* stopRequest
  done,    \* what the other threads have done since the last tick
  stale,   \* pulses that were read too late
  \* history
  synced,  \* when the reference was taken, 0 for never
  reset,   \* the clock was set after that
  aired,   \* the time of the last beacon handed to the radio
  misread  \* how many readings of the counter have failed

gpsVars    == <<clock, ref, before, timeSet, pulse, stale, synced, reset>>
checkVars  == <<valid, corrOk, avg>>
beaconVars == <<bpc, todo, retry, last, next>>
jitVars    == <<rpc, rpkt, radio, aired>>
vars == <<on, now, gpsVars, checkVars, beaconVars, nodes, jitVars, stopReq, done,
          scanVars, misread>>

\* The counter at a time.
Count(t) == (OFFSET + t) % W

\* A packet of the queue with the time that its payload tells, 0 if none; odd
\* if its count was computed from a reference that was never set.
Tagged(n, gps, odd) ==
  [type |-> n.type, count |-> n.count, pre |-> n.pre, post |-> n.post,
   gps |-> gps, odd |-> odd]
Beacon(b) == Tagged(NewNode(b.count, "BEACON", BEACON_RESERVED), b.gps, b.odd)
Downlink(count, toa) == Tagged(NewNode(count, "A", toa), 0, FALSE)
Packet == [type : PktType, count : Counter, pre : Nat, post : Nat,
           gps : 0 .. SLOT_MAX, odd : BOOLEAN]

TypeOK ==
  /\ on \in SETTINGS /\ now \in 1 .. NOW_MAX /\ clock \in CLOCK_ERRORS \cup {0, -1}
  /\ ref \in Reference /\ before \in [1 .. 2 -> BOOLEAN]
  /\ timeSet \in BOOLEAN /\ valid \in BOOLEAN /\ corrOk \in BOOLEAN
  /\ avg \in 0 .. XERR_INIT_AVG+1 /\ corrOk = (avg = XERR_INIT_AVG+1)
  /\ bpc \in {"sleep", "loop", "computed", "stopped"}
  /\ todo \in 0 .. JIT_NUM_BEACON_IN_QUEUE
  /\ retry \in Nat /\ last \in 0 .. SLOT_MAX
  /\ next \in [gps : 0 .. SLOT_MAX, count : Counter, odd : BOOLEAN]
  /\ nodes \in Seq(Packet) /\ Len(nodes) <= JIT_QUEUE_MAX
  /\ Cardinality(BeaconSlots(nodes)) <= JIT_NUM_BEACON_IN_QUEUE
  /\ rpc \in {"wait", "taken", "stopped"}
  /\ rpkt \in Packet \cup {NoTx} /\ radio \in Packet \cup {NoTx}
  /\ stopReq \in BOOLEAN /\ done \subseteq {"check", "correct", "poll"}
  /\ pulse \in 0 .. now /\ stale \in 0 .. FAULT_MAX /\ misread \in 0 .. FAULT_MAX
  /\ ScanTypeOK

Init ==
  /\ on \in SETTINGS /\ now = 1 /\ clock \in CLOCK_ERRORS
  /\ ref \in MEMORY /\ timeSet = FALSE
  /\ before \in [1 .. 2 -> IF ref = NoReference THEN {FALSE} ELSE BOOLEAN]
  /\ valid = FALSE /\ corrOk = FALSE /\ avg = 0
  /\ bpc = (IF "beacon" \in on THEN "sleep" ELSE "stopped")
  /\ todo = 0 /\ retry = 0 /\ last = 0
  /\ next \in [gps : {0}, count : UNSET, odd : {FALSE}]
  /\ nodes = << >> /\ rpc = "wait" /\ rpkt = NoTx /\ radio = NoTx
  /\ stopReq = FALSE /\ done = {} /\ pulse = 0 /\ stale = 0
  /\ synced = 0 /\ reset = FALSE /\ aired = 0 /\ misread = 0
  /\ ScanInit

-----------------------------------------------------------------------------
\* lgw_get_trigcnt() and lgw_get_instcnt() ignore the error of a failed read of
\* the registers, and yield a variable that nobody has set.
Read(count) ==
  \/ count = Count(now) /\ UNCHANGED misread
  \/ /\ count \in {Add(Count(now), e) : e \in MISREADS}
     /\ misread + stale < FAULT_MAX /\ misread' = misread + 1

\* syncGPSTime(): the time in the message, and the counter at the last pulse,
\* which may be the one after the message's when the thread had to wait for the
\* concentrator. After an error the clock is set once more, to that time.
Sync ==
  /\ "beacon" \in on /\ ~stopReq
  /\ \E gps \in {now, now - 1} \ 0 .. pulse, count \in Counter :
       LET aberrant == Aberrant(ref, count, gps)
       IN /\ Read(count)
          /\ pulse' = gps /\ stale' = stale + (now - gps) /\ stale' + misread' <= FAULT_MAX
          /\ before' = [i \in 1 .. 2 |-> IF i = 1 THEN aberrant ELSE before[1]]
          /\ IF Accepted(aberrant, before)
             THEN /\ ref' = [sys |-> now + clock, count |-> count, gps |-> gps]
                  /\ synced' = now
                  /\ \/ timeSet' = TRUE /\ clock' = (IF timeSet THEN clock ELSE gps - now)
                     \/ ~timeSet /\ UNCHANGED <<timeSet, clock>>
                  /\ reset' = (clock' # clock)
             ELSE timeSet' = FALSE /\ UNCHANGED <<ref, synced, clock, reset>>
  /\ UNCHANGED <<on, now, checkVars, beaconVars, nodes, jitVars, stopReq, done, scanVars>>

SyncFails ==
  /\ "beacon" \in on /\ ~stopReq /\ timeSet
  /\ timeSet' = FALSE
  /\ UNCHANGED <<on, now, clock, ref, before, pulse, stale, synced, reset, checkVars,
                 beaconVars, nodes, jitVars, stopReq, done, scanVars, misread>>

\* gpsCheckTimeRunner(): under one mutex the age of the reference, under
\* another one the correction, which is averaged anew after a gap.
CheckReference ==
  /\ "beacon" \in on /\ ~stopReq /\ "check" \notin done
  /\ valid' = Fresh(ref, now + clock)
  /\ done' = done \cup {"check"}
  /\ UNCHANGED <<on, now, gpsVars, corrOk, avg, beaconVars, nodes, jitVars, stopReq,
                 scanVars, misread>>

Correct ==
  /\ "check" \in done /\ "correct" \notin done
  /\ avg' = IF ~valid THEN 0 ELSE IF avg <= XERR_INIT_AVG THEN avg + 1 ELSE avg
  /\ corrOk' = IF ~valid THEN FALSE ELSE corrOk \/ avg = XERR_INIT_AVG
  /\ done' = done \cup {"correct"}
  /\ UNCHANGED <<on, now, gpsVars, valid, beaconVars, nodes, jitVars, stopReq, scanVars,
                 misread>>

-----------------------------------------------------------------------------
\* Mutant of Wake: the beacons that the queue holds are not counted.
WakeFull ==
  /\ bpc = "sleep" /\ ~stopReq
  /\ todo' = JIT_NUM_BEACON_IN_QUEUE /\ todo' > 0
  /\ retry' = 0 /\ bpc' = "loop"
  /\ UNCHANGED <<on, now, gpsVars, checkVars, last, next, nodes, jitVars, stopReq, done,
                 scanVars, misread>>

\* downstreamBeaconRunner(): how many beacons the queue is short of.
Wake ==
  /\ bpc = "sleep" /\ ~stopReq
  /\ todo' = JIT_NUM_BEACON_IN_QUEUE - Cardinality(BeaconSlots(nodes))
  /\ todo' > 0
  /\ retry' = 0 /\ bpc' = "loop"
  /\ UNCHANGED <<on, now, gpsVars, checkVars, last, next, nodes, jitVars, stopReq, done,
                 scanVars, misread>>

\* Mutant of NextSlot: the first beacon is not put on a multiple of the period.
NextSlotUnaligned == (IF last = 0 THEN ref.gps ELSE last) + (1 + retry) * PERIOD

\* The time of the next beacon: after the last one queued, or else after the
\* reference, and one period further for each refusal.
NextSlot ==
  (IF last = 0 THEN ref.gps + (PERIOD - (ref.gps % PERIOD)) ELSE last + PERIOD)
    + retry * PERIOD

\* Mutant of Compute: the loop waits for a reference and its correction.
ComputeWaits ==
  /\ bpc = "loop" /\ valid /\ corrOk
  /\ NextSlot <= SLOT_MAX
  /\ \E c \in Gps2Cnts(ref, NextSlot) :
       next' = [gps |-> NextSlot, count |-> c, odd |-> synced = 0]
  /\ bpc' = "computed"
  /\ UNCHANGED <<on, now, gpsVars, checkVars, todo, retry, last, nodes, jitVars, stopReq,
                 done, scanVars, misread>>

\* Under mutexGPSTimeReference; the correction is read without its own mutex. The
\* error that lgw_gps2cnt() returns for a reference that was never set is ignored:
\* the count stays as it was.
Compute ==
  /\ bpc = "loop"
  /\ IF valid /\ corrOk
     THEN /\ NextSlot <= SLOT_MAX
          /\ \E c \in Gps2Cnts(ref, NextSlot)
                     \cup (IF synced = 0 THEN {next.count} ELSE {}) :
               next' = [gps |-> NextSlot, count |-> c, odd |-> synced = 0]
          /\ bpc' = "computed"
     ELSE bpc' = "sleep" /\ UNCHANGED next
  /\ UNCHANGED <<on, now, gpsVars, checkVars, todo, retry, last, nodes, jitVars, stopReq,
                 done, scanVars, misread>>

\* jit_enqueue() of what was computed, by the counter that was read before.
Enqueue ==
  /\ bpc = "computed"
  /\ \E time \in Counter :
       /\ Read(time)
       /\ IF ~IsFull(nodes) /\ Acceptable(nodes, Beacon(next), time)
          THEN /\ nodes' \in Arrange(Append(nodes, Beacon(next)), 1 .. Len(nodes)+1)
               /\ last' = next.gps /\ todo' = todo - 1 /\ retry' = 0
          ELSE retry' = retry + 1 /\ UNCHANGED <<nodes, last, todo>>
  /\ bpc' = IF todo' > 0 THEN "loop" ELSE "sleep"
  /\ UNCHANGED <<on, now, gpsVars, checkVars, next, jitVars, stopReq, done, scanVars>>

BeaconLeave ==
  /\ bpc = "sleep" /\ stopReq
  /\ bpc' = "stopped"
  /\ UNCHANGED <<on, now, gpsVars, checkVars, todo, retry, last, next, nodes, jitVars,
                 stopReq, done, scanVars, misread>>

\* enqueueTxPacket(), by other threads.
Submit ==
  /\ ~IsFull(nodes)
  /\ \E c \in DOWNLINKS, toa \in TOA, time \in Counter :
       /\ Read(time)
       /\ Acceptable(nodes, Downlink(c, toa), time)
       /\ nodes' \in Arrange(Append(nodes, Downlink(c, toa)), 1 .. Len(nodes)+1)
  /\ UNCHANGED <<on, now, gpsVars, checkVars, beaconVars, jitVars, stopReq, done, scanVars>>

-----------------------------------------------------------------------------
\* jitRunner(): jit_peek() and jit_dequeue().
Poll ==
  /\ rpc = "wait" /\ ~stopReq
  /\ \E time \in Counter :
       LET kept == Kept(nodes, time)
           due  == Due(nodes, time)
       IN /\ Read(time)
          /\ IF due = {}
             THEN nodes' \in Arrange(nodes, kept) /\ UNCHANGED <<rpc, rpkt>>
             ELSE \E i \in due : /\ rpkt' = nodes[i] /\ rpc' = "taken"
                                 /\ nodes' \in Arrange(nodes, kept \ {i})
  /\ done' = done \cup {"poll"}
  /\ UNCHANGED <<on, now, gpsVars, checkVars, beaconVars, radio, aired, stopReq, scanVars>>

\* What lgw_status() may report of the radio: within the unit of its time stamp
\* a packet still waits for it or is on the air.
RadioStatuses ==
  IF radio = NoTx THEN {"free"}
  ELSE LET d == Ahead(radio.count, Count(now))
       IN IF d = 0 THEN {"scheduled", "emitting"}
          ELSE {IF 2 * d < W THEN "scheduled" ELSE "emitting"}

\* The packet is dropped when the radio is seen to emit; else a scan is aborted
\* and the radio programmed, in one critical section.
Transmit ==
  /\ rpc = "taken"
  /\ rpc' = "wait" /\ rpkt' = NoTx
  /\ \/ "emitting" \in RadioStatuses /\ UNCHANGED <<radio, aired, scanner>>
     \/ /\ scanner' \in IF "scan" \in on THEN Aborted(scanner) ELSE {scanner}
        /\ \/ radio' = rpkt /\ aired' = (IF rpkt.gps > 0 THEN rpkt.gps ELSE aired)
           \/ UNCHANGED <<radio, aired>>
  /\ UNCHANGED <<on, now, gpsVars, checkVars, beaconVars, nodes, stopReq, done, spc, chan,
                 report, misread>>

JitLeave ==
  /\ rpc = "wait" /\ stopReq
  /\ rpc' = "stopped"
  /\ UNCHANGED <<on, now, gpsVars, checkVars, beaconVars, nodes, rpkt, radio, aired,
                 stopReq, done, scanVars, misread>>

ScanThread ==
  /\ "scan" \in on
  /\ \/ ~stopReq /\ \E status \in RadioStatuses : ScanStart(status)
     \/ ScanPoll \/ ScanReport
     \/ stopReq /\ ScanLeave
  /\ UNCHANGED <<on, now, gpsVars, checkVars, beaconVars, nodes, jitVars, stopReq, done,
                 misread>>

ScanDevice ==
  /\ ScanDone
  /\ UNCHANGED <<on, now, gpsVars, checkVars, beaconVars, nodes, jitVars, stopReq, done,
                 misread>>

-----------------------------------------------------------------------------
Stop ==
  /\ ~stopReq
  /\ stopReq' = TRUE
  /\ UNCHANGED <<on, now, gpsVars, checkVars, beaconVars, nodes, jitVars, done, scanVars,
                 misread>>

\* Time passes when each thread that has to keep a pace has kept it.
Paced == {"poll"} \cup (IF "beacon" \in on THEN {"check", "correct"} ELSE {})

Tick ==
  /\ now < NOW_MAX /\ ~stopReq
  /\ Paced \subseteq done
  /\ rpc # "taken"
  /\ now' = now + 1 /\ done' = {}
  /\ radio' = IF radio # NoTx /\ Ahead(Count(now), radio.count) = radio.post
              THEN NoTx ELSE radio
  /\ UNCHANGED <<on, gpsVars, checkVars, beaconVars, nodes, rpc, rpkt, aired, stopReq,
                 scanVars, misread>>

BeaconStep == Wake \/ Compute \/ Enqueue \/ BeaconLeave
JitStep    == Poll \/ Transmit \/ JitLeave

Next == Sync \/ SyncFails \/ CheckReference \/ Correct
        \/ Wake \/ Compute \/ Enqueue \/ BeaconLeave \/ Submit
        \/ Poll \/ Transmit \/ JitLeave \/ ScanThread \/ ScanDevice
        \/ Stop \/ Tick

Spec == /\ Init /\ [][Next]_vars
        /\ WF_vars(BeaconStep) /\ WF_vars(JitStep) /\ WF_vars(ScanThread)

-----------------------------------------------------------------------------
\* A beacon leaves at the time its payload tells, or at most one pulse late;
\* unless its count was computed from a reference that was never set, or a reading
\* of the counter has failed, which nobody notices.
BeaconAtItsTime ==
  (misread = 0 /\ rpc = "taken" /\ rpkt.gps > 0 /\ ~rpkt.odd) =>
    (now + Ahead(rpkt.count, Count(now))) - rpkt.gps \in 0 .. 1

\* Each beacon handed over is for a later slot than those before it, unless a
\* reading has failed.
BeaconSlot ==
  (misread = 0 /\ rpc = "taken" /\ rpkt.gps > 0) =>
    (rpkt.gps % PERIOD) = 0 /\ rpkt.gps > aired

\* A reference that is valid was taken at most GPS_REF_MAX_AGE and one check
\* ago, once one was taken; unless the system's clock was set since.
ReferenceRecent ==
  valid /\ ~stopReq => synced = 0 \/ now - synced <= GPS_REF_MAX_AGE + 1 \/ reset

\* No scan runs while a packet is to be transmitted, unless an access of the
\* radio has failed.
ScanExclusive ==
  scanner.status = "ongoing" /\ radio # NoTx => scanner.blind

\* jitRunner(), spectralScanRunner() and downstreamBeaconRunner() end once they
\* are asked to; only the last one goes on when its beacon is refused, as one is
\* as long as the queue is full, or is due after the bound.
ThreadsEnd ==
  LET refused == bpc # "stopped" /\ (IsFull(nodes) \/ NextSlot > SLOT_MAX)
  IN stopReq ~> /\ rpc = "stopped" /\ ("scan" \in on => spc = "stopped")
               /\ (bpc = "stopped" \/ refused)
=============================================================================
