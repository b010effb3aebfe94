---------------------------- MODULE BeaconProofs ----------------------------
(***************************************************************************)
(* Theorems about BeaconPath for every value of the constants: how old the *)
(* reference may be that beacons are computed from, that no scan runs      *)
(* while a packet is to be transmitted, that what is reported of a channel *)
(* is a whole scan of it, the type of the state with the bound of the      *)
(* beacons queued, and, within one turn of the counter, when beacons leave *)
(* and in which order.                                                     *)
(***************************************************************************)
EXTENDS BeaconPath, JitOpsProofs

\* The age of a reference is checked before each tick, so that it is one more
\* at the most until the next check.
AgeInv ==
  /\ now \in Nat \ {0} /\ synced \in Nat /\ clock \in Int /\ ref \in Reference
  /\ synced # 0 /\ ~reset => ref.sys = synced + clock
  /\ valid /\ synced # 0 /\ ~reset =>
       now - synced <= IF "check" \in done THEN GPS_REF_MAX_AGE ELSE GPS_REF_MAX_AGE + 1
  /\ valid => "beacon" \in on

LEMMA InitAge == Init => AgeInv
<1> SUFFICES ASSUME Init PROVE AgeInv
  OBVIOUS
<1>1. clock \in Int /\ ref \in Reference /\ now = 1 /\ synced = 0 /\ valid = FALSE
  BY BeaconAssumption DEF Init
<1> QED BY <1>1 DEF AgeInv

LEMMA SyncAge == ASSUME AgeInv, Sync PROVE AgeInv'
<1>1. PICK gps \in {now, now - 1} \ 0 .. pulse, count \in Counter :
        LET aberrant == Aberrant(ref, count, gps)
        IN IF Accepted(aberrant, before)
           THEN /\ ref' = [sys |-> now + clock, count |-> count, gps |-> gps]
                /\ synced' = now
                /\ \/ timeSet' = TRUE /\ clock' = (IF timeSet THEN clock ELSE gps - now)
                   \/ ~timeSet /\ UNCHANGED <<timeSet, clock>>
                /\ reset' = (clock' # clock)
           ELSE timeSet' = FALSE /\ UNCHANGED <<ref, synced, clock, reset>>
  BY DEF Sync
<1>2. UNCHANGED <<on, now, valid, done>>
  BY DEF Sync, checkVars
<1>3. CASE Accepted(Aberrant(ref, count, gps), before)
  <2>1. /\ ref' = [sys |-> now + clock, count |-> count, gps |-> gps] /\ synced' = now
        /\ clock' \in {clock, gps - now} /\ reset' = (clock' # clock)
    BY <1>1, <1>3
  <2>2. now \in Nat \ {0} /\ clock \in Int /\ gps \in Int
    BY DEF AgeInv
  <2>3. ref' \in Reference /\ ref'.sys = now + clock
    BY <2>1, <2>2 DEF Reference
  <2>4. clock' \in Int
    BY <2>1, <2>2
  <2>5. ~reset' => ref'.sys = synced' + clock'
    BY <2>1, <2>3
  <2>6. now' - synced' <= IF "check" \in done' THEN GPS_REF_MAX_AGE ELSE GPS_REF_MAX_AGE + 1
    BY <1>2, <2>1, <2>2, ReferenceAssumption
  <2> QED BY <1>2, <2>1, <2>2, <2>3, <2>4, <2>5, <2>6 DEF AgeInv
<1>4. CASE ~Accepted(Aberrant(ref, count, gps), before)
  <2>1. UNCHANGED <<ref, synced, clock, reset>>
    BY <1>1, <1>4
  <2> QED BY <1>2, <2>1 DEF AgeInv
<1> QED BY <1>3, <1>4

LEMMA CheckAge == ASSUME AgeInv, CheckReference PROVE AgeInv'
<1>1. /\ UNCHANGED <<on, now, synced, clock, ref, reset>> /\ "beacon" \in on
      /\ valid' = Fresh(ref, now + clock)
  BY DEF CheckReference, gpsVars
<1>2. "check" \in done'
  BY DEF CheckReference
<1>3. ASSUME valid', synced # 0, ~reset PROVE now - synced <= GPS_REF_MAX_AGE
  <2>1. Fresh(ref, now + clock)
    BY <1>1, <1>3, Zenon
  <2>2. (now + clock) - ref.sys \in 0 .. GPS_REF_MAX_AGE
    BY <2>1, Zenon DEF Fresh
  <2>3. ref.sys = synced + clock /\ now \in Int /\ synced \in Int /\ clock \in Int
    BY <1>3 DEF AgeInv
  <2> QED BY <2>2, <2>3, ReferenceAssumption
<1> QED BY <1>1, <1>2, <1>3 DEF AgeInv

\* A tick follows a check.
LEMMA TickAge == ASSUME AgeInv, Tick PROVE AgeInv'
<1>1. /\ now' = now + 1 /\ UNCHANGED <<on, synced, clock, ref, reset, valid>>
      /\ Paced \subseteq done /\ "check" \notin done'
  BY DEF Tick, gpsVars, checkVars
<1>2. valid => "check" \in done
  BY <1>1 DEF AgeInv, Paced
<1>3. now \in Nat /\ synced \in Nat
  BY DEF AgeInv
<1>4. ASSUME valid, synced # 0, ~reset PROVE now' - synced <= GPS_REF_MAX_AGE + 1
  <2>1. now - synced <= GPS_REF_MAX_AGE
    BY <1>2, <1>4 DEF AgeInv
  <2> QED BY <1>1, <1>3, <2>1, ReferenceAssumption
<1>5. now' \in Nat \ {0}
  BY <1>1, <1>3
<1> QED BY <1>1, <1>4, <1>5 DEF AgeInv

LEMMA NextAge == AgeInv /\ [Next]_vars => AgeInv'
<1> SUFFICES ASSUME AgeInv, [Next]_vars PROVE AgeInv'
  OBVIOUS
<1>1. CASE SyncFails \/ Correct \/ Wake \/ Compute \/ Enqueue \/ BeaconLeave \/ Submit
           \/ Poll \/ Transmit \/ JitLeave \/ ScanThread \/ ScanDevice \/ Stop
           \/ UNCHANGED vars
  <2>1. /\ UNCHANGED <<on, now, clock, ref, synced, reset, valid>>
        /\ "check" \in done' <=> "check" \in done
    BY <1>1 DEF SyncFails, Correct, Wake, Compute, Enqueue, BeaconLeave, Submit, Poll,
      Transmit, JitLeave, ScanThread, ScanDevice, Stop, vars, gpsVars, checkVars
  <2> QED BY <2>1 DEF AgeInv
<1>2. CASE Sync
  BY <1>2, SyncAge
<1>3. CASE CheckReference
  BY <1>3, CheckAge
<1>4. CASE Tick
  BY <1>4, TickAge
<1> QED BY <1>1, <1>2, <1>3, <1>4 DEF Next

\* A reference that gpsCheckTimeRunner() found valid was taken at most
\* GPS_REF_MAX_AGE and one check ago, unless none was ever taken or the clock
\* of the system was set since (syncGPSTime).
THEOREM ReferenceStaysRecent == Spec => []ReferenceRecent
<1>1. AgeInv => ReferenceRecent
  BY ReferenceAssumption DEF AgeInv, ReferenceRecent
<1> QED BY InitAge, NextAge, <1>1, PTL DEF Spec

-----------------------------------------------------------------------------
\* From its start until its results are read, the scan is of the channel that
\* is due; and there is none when it is not enabled.
ScanInv ==
  /\ chan \in Channels /\ scanner \in Scanner
  /\ spc \in {"scanning", "completed"} => scanner.chan = chan
  /\ spc = "completed" => scanner.status = "completed"
  /\ scanner.status = "completed" => scanner.whole
  /\ "scan" \notin on => scanner.status = "none"

\* What else happens to the scanner: it is aborted, or its scan is completed.
LEMMA AbortedScan ==
  ASSUME NEW s \in Scanner, NEW t \in Aborted(s)
  PROVE  /\ t \in Scanner /\ t.chan = s.chan /\ t.whole = s.whole
         /\ s.status # "ongoing" => t = s
         /\ s.status = "ongoing" =>
              t.status = "aborted" \/ (t.status = "ongoing" /\ t.blind)
<1>1. CASE s.status # "ongoing"
  BY <1>1 DEF Aborted
<1>2. CASE s.status = "ongoing" /\ t = [s EXCEPT !.status = "aborted"]
  BY <1>2 DEF Scanner
<1>3. CASE s.status = "ongoing" /\ t = [s EXCEPT !.blind = TRUE]
  BY <1>3 DEF Scanner
<1> QED BY <1>1, <1>2, <1>3 DEF Aborted

LEMMA CompletedScan ==
  ASSUME scanner \in Scanner, ScanDone
  PROVE  /\ scanner' \in Scanner /\ scanner'.chan = scanner.chan
         /\ scanner.status = "ongoing" /\ scanner'.status = "completed" /\ scanner'.whole
BY DEF ScanDone, Scanner

LEMMA StartedScan ==
  ASSUME chan \in Channels, NEW status, ScanStart(status)
  PROVE  /\ scanner' \in Scanner /\ scanner'.chan = chan /\ scanner'.status = "ongoing"
         /\ ~Busy(status) \/ scanner'.blind
<1>1. PICK seen \in {status, "unknown"} :
        /\ ~Busy(seen)
        /\ scanner' = [status |-> "ongoing", chan |-> chan, whole |-> FALSE,
                       blind |-> seen # status]
  BY DEF ScanStart
<1>2. (seen # status) \in BOOLEAN
  OBVIOUS
<1> QED BY <1>1, <1>2 DEF Scanner

LEMMA InitScan == Init => ScanInv /\ ScanReported
<1>1. 0 \in Channels
  BY ScanAssumption DEF Channels
<1> QED BY <1>1 DEF Init, ScanInit, ScanInv, ScanReported, Scanner

LEMMA ScanThreadStep ==
  ASSUME ScanInv, ScanReported, ScanThread PROVE ScanInv' /\ ScanReported'
<1>1. on' = on /\ "scan" \in on
  BY DEF ScanThread
<1>2. CASE \E status \in RadioStatuses : ScanStart(status)
  <2>1. PICK status \in RadioStatuses : ScanStart(status)
    BY <1>2
  <2>2. UNCHANGED <<chan, report>>
    BY <2>1 DEF ScanStart
  <2>3. spc' = "scanning"
    BY <2>1 DEF ScanStart
  <2> QED BY <1>1, <2>1, <2>2, <2>3, StartedScan DEF ScanInv, ScanReported
<1>3. CASE ScanPoll \/ ScanLeave
  <2>1. UNCHANGED <<chan, scanner, report>>
    BY <1>3 DEF ScanPoll, ScanLeave
  <2>2. \/ spc' = "completed" /\ spc = "scanning" /\ scanner.status = "completed"
        \/ spc' \in {"pace", "stopped"}
    BY <1>3 DEF ScanPoll, ScanLeave
  <2> QED BY <1>1, <2>1, <2>2 DEF ScanInv, ScanReported
<1>4. CASE ScanReport
  <2>1. spc = "completed" /\ spc' = "pace" /\ scanner' = scanner
    BY <1>4 DEF ScanReport
  <2>2. chan' \in Channels
    <3>1. chan' \in {chan, NextChannel(chan)}
      BY <1>4 DEF ScanReport
    <3> QED BY <3>1, ScanAssumption DEF ScanInv, Channels, NextChannel
  <2>3. \/ report' = [chan |-> chan, of |-> scanner.chan, whole |-> scanner.whole]
        \/ report' = report
    BY <1>4 DEF ScanReport
  <2>4. scanner.chan = chan /\ scanner.whole
    BY <2>1 DEF ScanInv
  <2>5. ScanReported'
    BY <2>3, <2>4 DEF ScanReported
  <2> QED BY <1>1, <2>1, <2>2, <2>5 DEF ScanInv
<1> QED BY <1>2, <1>3, <1>4 DEF ScanThread

LEMMA NextScan ==
  ScanInv /\ ScanReported /\ [Next]_vars => ScanInv' /\ ScanReported'
<1> SUFFICES ASSUME ScanInv, ScanReported, [Next]_vars PROVE ScanInv' /\ ScanReported'
  OBVIOUS
<1>1. CASE Sync \/ SyncFails \/ CheckReference \/ Correct \/ Wake \/ Compute \/ Enqueue
           \/ BeaconLeave \/ Submit \/ Poll \/ JitLeave \/ Stop \/ Tick
           \/ UNCHANGED vars
  <2>1. UNCHANGED <<on, spc, chan, scanner, report>>
    BY <1>1 DEF Sync, SyncFails, CheckReference, Correct, Wake, Compute, Enqueue,
      BeaconLeave, Submit, Poll, JitLeave, Stop, Tick, vars, scanVars
  <2> QED BY <2>1 DEF ScanInv, ScanReported
<1>2. CASE Transmit
  <2>1. UNCHANGED <<on, spc, chan, report>>
    BY <1>2 DEF Transmit
  <2>2. scanner' = scanner \/ scanner' \in Aborted(scanner)
    BY <1>2 DEF Transmit
  <2>3. /\ scanner' \in Scanner /\ scanner'.chan = scanner.chan
        /\ scanner'.whole = scanner.whole
        /\ scanner.status # "ongoing" => scanner' = scanner
        /\ scanner.status = "ongoing" => scanner'.status \in {"aborted", "ongoing"}
    BY <2>2, AbortedScan DEF ScanInv
  <2> QED BY <2>1, <2>3 DEF ScanInv, ScanReported
<1>3. CASE ScanThread
  BY <1>3, ScanThreadStep
<1>4. CASE ScanDevice
  <2>1. UNCHANGED <<on, spc, chan, report>> /\ ScanDone
    BY <1>4 DEF ScanDevice, ScanDone
  <2> QED BY <2>1, CompletedScan DEF ScanInv, ScanReported
<1> QED BY <1>1, <1>2, <1>3, <1>4 DEF Next

\* What spectralScanRunner() reports of a channel is a whole scan of that
\* channel, though jitRunner() may abort a scan between any two of its steps.
THEOREM ReportsAreWhole == Spec => []ScanReported
BY InitScan, NextScan, PTL DEF Spec

-----------------------------------------------------------------------------
\* The radio is seen to be busy as long as it has a packet.
LEMMA RadioBusy ==
  ASSUME radio # NoTx, NEW status \in RadioStatuses PROVE Busy(status)
BY DEF RadioStatuses, Busy

LEMMA NextExclusive ==
  ScanInv /\ ScanExclusive /\ [Next]_vars => ScanExclusive'
<1> SUFFICES ASSUME ScanInv, ScanExclusive, [Next]_vars PROVE ScanExclusive'
  OBVIOUS
<1>1. CASE Sync \/ SyncFails \/ CheckReference \/ Correct \/ Wake \/ Compute \/ Enqueue
           \/ BeaconLeave \/ Submit \/ Poll \/ JitLeave \/ Stop \/ Tick
           \/ UNCHANGED vars
  <2>1. scanner' = scanner /\ radio' \in {radio, NoTx}
    BY <1>1 DEF Sync, SyncFails, CheckReference, Correct, Wake, Compute, Enqueue,
      BeaconLeave, Submit, Poll, JitLeave, Stop, Tick, vars, scanVars, jitVars
  <2> QED BY <2>1 DEF ScanExclusive
<1>2. CASE Transmit
  <2>1. CASE UNCHANGED <<radio, scanner>>
    BY <2>1 DEF ScanExclusive
  <2>2. CASE scanner' \in IF "scan" \in on THEN Aborted(scanner) ELSE {scanner}
    <3>1. CASE "scan" \in on
      <4>1. /\ scanner.status # "ongoing" => scanner' = scanner
            /\ scanner.status = "ongoing" =>
                 scanner'.status = "aborted" \/ (scanner'.status = "ongoing" /\ scanner'.blind)
        BY <2>2, <3>1, AbortedScan DEF ScanInv
      <4> QED BY <4>1 DEF ScanExclusive
    <3>2. CASE "scan" \notin on
      BY <2>2, <3>2 DEF ScanInv, ScanExclusive
    <3> QED BY <3>1, <3>2
  <2> QED BY <1>2, <2>1, <2>2 DEF Transmit
<1>3. CASE ScanThread
  <2>1. radio' = radio
    BY <1>3 DEF ScanThread, jitVars
  <2>2. CASE \E status \in RadioStatuses : ScanStart(status)
    <3>1. PICK status \in RadioStatuses : ScanStart(status)
      BY <2>2
    <3>2. ~Busy(status) \/ scanner'.blind
      BY <3>1, StartedScan DEF ScanInv
    <3> QED BY <2>1, <3>2, RadioBusy DEF ScanExclusive
  <2>3. CASE ScanPoll \/ ScanReport \/ ScanLeave
    BY <2>1, <2>3 DEF ScanPoll, ScanReport, ScanLeave, ScanExclusive
  <2> QED BY <1>3, <2>2, <2>3 DEF ScanThread
<1>4. CASE ScanDevice
  <2>1. scanner'.status = "completed"
    BY <1>4, CompletedScan DEF ScanDevice, ScanInv
  <2> QED BY <2>1 DEF ScanExclusive
<1> QED BY <1>1, <1>2, <1>3, <1>4 DEF Next

\* No scan runs while the radio has a packet to transmit (spectralScanRunner
\* reads the radio's status, jitRunner aborts the scan), unless an access of
\* the radio has failed.
THEOREM ScanGivesWay == Spec => []ScanExclusive
<1>1. Init => ScanExclusive
  BY DEF Init, ScanInit, ScanExclusive
<1>2. ScanInv /\ ScanReported /\ ScanExclusive /\ [Next]_vars => ScanExclusive'
  BY NextExclusive
<1> QED BY InitScan, NextScan, <1>1, <1>2, PTL DEF Spec

-----------------------------------------------------------------------------
\* A reference that is found valid before any was taken tells a time: the
\* memory that it is read from holds no date before the epoch of GPS that
\* would be recent by the clock of the system.
MemoryTells ==
  \A r \in MEMORY, e \in CLOCK_ERRORS, t \in 1 .. NOW_MAX :
    Fresh(r, t + e) => r.gps \in Nat

\* Slots of the queue that hold a beacon, and what is still to be queued.
Held == Cardinality(BeaconSlots(nodes))
TypeInv ==
  /\ TypeOK
  /\ bpc \in {"loop", "computed"} => todo > 0 /\ todo + Held <= JIT_NUM_BEACON_IN_QUEUE
  /\ rpc = "taken" => rpkt \in Packet
  /\ valid \/ synced # 0 => ref.gps \in Nat
  /\ synced = 0 => ref \in MEMORY /\ clock \in CLOCK_ERRORS

-----------------------------------------------------------------------------
LEMMA Packets ==
  /\ \A b \in [gps : 0 .. SLOT_MAX, count : Counter, odd : BOOLEAN] :
       /\ Beacon(b) \in Packet /\ Beacon(b).type = "BEACON"
       /\ Beacon(b).gps = b.gps /\ Beacon(b).count = b.count /\ Beacon(b).odd = b.odd
  /\ \A c \in Counter, toa \in TOA :
       /\ Downlink(c, toa) \in Packet /\ Downlink(c, toa).type = "A"
       /\ Downlink(c, toa).gps = 0 /\ Downlink(c, toa).odd = FALSE
<1>1. \A type \in PktType : PreDelay(type) \in Nat
  BY JitAssumption DEF PreDelay
<1>2. \A type \in PktType, toa \in TOA : PostDelay(type, toa) \in Nat
  BY JitAssumption DEF PostDelay
<1>3. PostDelay("BEACON", BEACON_RESERVED) \in Nat
  BY JitAssumption DEF PostDelay
<1>4. 0 \in 0 .. SLOT_MAX
  BY BeaconAssumption
<1>5. ASSUME NEW b \in [gps : 0 .. SLOT_MAX, count : Counter, odd : BOOLEAN]
      PROVE  /\ Beacon(b) \in Packet /\ Beacon(b).type = "BEACON"
             /\ Beacon(b).gps = b.gps /\ Beacon(b).count = b.count /\ Beacon(b).odd = b.odd
  BY <1>1, <1>3 DEF Beacon, Tagged, NewNode, Packet, PktType
<1>6. ASSUME NEW c \in Counter, NEW toa \in TOA
      PROVE  /\ Downlink(c, toa) \in Packet /\ Downlink(c, toa).type = "A"
             /\ Downlink(c, toa).gps = 0 /\ Downlink(c, toa).odd = FALSE
  BY <1>1, <1>2, <1>4 DEF Downlink, Tagged, NewNode, Packet, PktType
<1> QED BY <1>5, <1>6

\* The queue with one packet more, and with what is kept of it.
LEMMA OneMore ==
  ASSUME nodes \in Seq(Packet), NEW p \in Packet,
         nodes' \in Arrange(Append(nodes, p), 1 .. Len(nodes)+1)
  PROVE  /\ nodes' \in Seq(Packet) /\ Len(nodes') = Len(nodes) + 1
         /\ \A i \in DOMAIN nodes' :
              nodes'[i] = p \/ \E j \in DOMAIN nodes : nodes'[i] = nodes[j]
         /\ Held \in Nat
         /\ Held' = IF p.type = "BEACON" THEN Held + 1 ELSE Held
<1> DEFINE q == Append(nodes, p)
           z == Len(nodes) + 1
<1>1. /\ q \in Seq(Packet) /\ Len(q) = z /\ DOMAIN q = 1 .. z /\ q[z] = p
      /\ \A i \in DOMAIN nodes : q[i] = nodes[i]
      /\ DOMAIN q = DOMAIN nodes \cup {z} /\ z \notin DOMAIN nodes
      /\ z \in Nat /\ Len(nodes) \in Nat /\ DOMAIN nodes = 1 .. Len(nodes)
  BY AppendForm
<1> HIDE DEF q, z
<1>2. nodes' \in Arrange(q, DOMAIN q) /\ DOMAIN q \in SUBSET DOMAIN q
  BY <1>1 DEF q, z
<1>3. /\ nodes' \in Seq(Packet) /\ Len(nodes') = Cardinality(DOMAIN q)
      /\ Range(nodes') = {q[i] : i \in DOMAIN q}
  BY <1>1, <1>2, ArrangeKeeps
<1>4. Len(nodes') = z
  BY <1>1, <1>3, IndexRange
<1>5. \A i \in DOMAIN nodes' : \E j \in DOMAIN q : nodes'[i] = q[j]
  BY <1>3 DEF Range
<1>6. \A i \in DOMAIN nodes' :
        nodes'[i] = p \/ \E j \in DOMAIN nodes : nodes'[i] = nodes[j]
  BY <1>1, <1>5
<1>7. Held' = Cardinality(BeaconSlots(q))
  <2>1. Cardinality(BeaconSlots(nodes')) = Cardinality(BeaconSlots(q) \cap DOMAIN q)
    BY <1>1, <1>2, ArrangeBeacons
  <2>2. BeaconSlots(q) \cap DOMAIN q = BeaconSlots(q)
    BY DEF BeaconSlots
  <2> QED BY <2>1, <2>2 DEF Held
<1>8. IsFiniteSet(BeaconSlots(nodes))
  <2>1. IsFiniteSet(1 .. Len(nodes))
    BY <1>1, IndexRange
  <2>2. BeaconSlots(nodes) \in SUBSET (1 .. Len(nodes))
    BY <1>1 DEF BeaconSlots
  <2> QED BY <2>1, <2>2, FS_Subset
<1>9. BeaconSlots(q) = BeaconSlots(nodes) \cup (IF p.type = "BEACON" THEN {z} ELSE {})
  BY <1>1 DEF BeaconSlots
<1>10. z \notin BeaconSlots(nodes)
  BY <1>1 DEF BeaconSlots
<1>11. Held' = IF p.type = "BEACON" THEN Held + 1 ELSE Held
  <2>1. CASE p.type = "BEACON"
    <3>1. Cardinality(BeaconSlots(nodes) \cup {z}) = Held + 1
      BY <1>8, <1>10, FS_AddElement DEF Held
    <3> QED BY <1>7, <1>9, <2>1, <3>1
  <2>2. CASE p.type # "BEACON"
    <3>1. BeaconSlots(q) = BeaconSlots(nodes)
      BY <1>9, <2>2
    <3> QED BY <1>7, <2>2, <3>1 DEF Held
  <2> QED BY <2>1, <2>2
<1>12. Held \in Nat
  BY <1>8, FS_CardinalityType DEF Held
<1> QED BY <1>3, <1>4, <1>6, <1>11, <1>12 DEF z

LEMMA SomeLess ==
  ASSUME nodes \in Seq(Packet), NEW K \in SUBSET DOMAIN nodes,
         nodes' \in Arrange(nodes, K)
  PROVE  /\ nodes' \in Seq(Packet) /\ Len(nodes') \in Nat /\ Len(nodes') <= Len(nodes)
         /\ \A i \in DOMAIN nodes' : \E j \in K : nodes'[i] = nodes[j]
         /\ Held \in Nat /\ Held' \in Nat /\ Held' <= Held
<1>1. /\ nodes' \in Seq(Packet) /\ Len(nodes') = Cardinality(K)
      /\ Cardinality(K) \in Nat /\ Cardinality(K) <= Len(nodes)
      /\ Range(nodes') = {nodes[i] : i \in K}
  BY ArrangeKeeps
<1>2. \A i \in DOMAIN nodes' : \E j \in K : nodes'[i] = nodes[j]
  BY <1>1 DEF Range
<1>3. Held' = Cardinality(BeaconSlots(nodes) \cap K)
  BY ArrangeBeacons DEF Held
<1>4. IsFiniteSet(BeaconSlots(nodes))
  <2>1. Len(nodes) \in Nat /\ DOMAIN nodes = 1 .. Len(nodes)
    OBVIOUS
  <2>2. IsFiniteSet(1 .. Len(nodes))
    BY <2>1, IndexRange
  <2>3. BeaconSlots(nodes) \in SUBSET (1 .. Len(nodes))
    BY <2>1 DEF BeaconSlots
  <2> QED BY <2>2, <2>3, FS_Subset
<1>5. /\ IsFiniteSet(BeaconSlots(nodes) \cap K)
      /\ Cardinality(BeaconSlots(nodes) \cap K) <= Cardinality(BeaconSlots(nodes))
  <2>1. (BeaconSlots(nodes) \cap K) \in SUBSET BeaconSlots(nodes)
    OBVIOUS
  <2> QED BY <1>4, <2>1, FS_Subset
<1> QED BY <1>1, <1>2, <1>3, <1>4, <1>5, FS_CardinalityType DEF Held

-----------------------------------------------------------------------------
\* The next slot is later than the last by a period at the least.
LEMMA SlotLater ==
  ASSUME last \in Nat, retry \in Nat, ref.gps \in Nat
  PROVE  NextSlot \in Nat /\ NextSlot > 0 /\ (last # 0 => last + PERIOD <= NextSlot)
<1>1. PERIOD \in Nat \ {0}
  BY BeaconAssumption
<1> DEFINE far == retry * PERIOD
           rest == ref.gps % PERIOD
           g == ref.gps
<1>2. far \in Nat
  BY <1>1, Multiples
<1>3. rest \in 0 .. PERIOD-1
  BY <1>1
<1>4. NextSlot = (IF last = 0 THEN g + (PERIOD - rest) ELSE last + PERIOD) + far
  BY DEF NextSlot
<1>5. g \in Nat
  OBVIOUS
<1> HIDE DEF far, rest, g
<1> QED BY <1>1, <1>2, <1>3, <1>4, <1>5

\* The type in two parts: the second, of Booleans and numbers alike, is left out
\* of the first for the sake of the provers.
RestOK ==
  /\ on \in SETTINGS /\ now \in 1 .. NOW_MAX /\ clock \in CLOCK_ERRORS \cup {0, -1}
  /\ ref \in Reference /\ before \in [1 .. 2 -> BOOLEAN]
  /\ timeSet \in BOOLEAN /\ valid \in BOOLEAN /\ corrOk \in BOOLEAN
  /\ avg \in 0 .. XERR_INIT_AVG+1
  /\ bpc \in {"sleep", "loop", "computed", "stopped"}
  /\ todo \in 0 .. JIT_NUM_BEACON_IN_QUEUE
  /\ retry \in Nat /\ last \in 0 .. SLOT_MAX
  /\ next \in [gps : 0 .. SLOT_MAX, count : Counter, odd : BOOLEAN]
  /\ nodes \in Seq(Packet) /\ Len(nodes) <= JIT_QUEUE_MAX
  /\ Cardinality(BeaconSlots(nodes)) <= JIT_NUM_BEACON_IN_QUEUE
  /\ rpc \in {"wait", "taken", "stopped"}
  /\ rpkt \in Packet \cup {NoTx} /\ radio \in Packet \cup {NoTx}
  /\ stopReq \in BOOLEAN /\ done \subseteq {"check", "correct", "poll"}
  /\ pulse \in 0 .. now /\ stale \in 0 .. FAULT_MAX /\ misread \in 0 .. FAULT_MAX
  /\ ScanTypeOK
AverageOK == corrOk = (avg = XERR_INIT_AVG+1)

LEMMA TypeParts ==
  /\ TypeOK => RestOK /\ AverageOK
  /\ RestOK' /\ AverageOK' => TypeOK'
BY ZenonT(60) DEF TypeOK, RestOK, AverageOK

LEMMA InitType == Init => TypeInv
<1> SUFFICES ASSUME Init PROVE TypeInv
  OBVIOUS
<1>1. nodes = << >> /\ DOMAIN nodes = {} /\ Len(nodes) = 0 /\ nodes \in Seq(Packet)
  BY DEF Init
<1>2. Cardinality(BeaconSlots(nodes)) = 0
  <2>1. BeaconSlots(nodes) = {}
    BY <1>1 DEF BeaconSlots
  <2> QED BY <2>1, FS_EmptySet
<1>3. ref \in Reference /\ before \in [1 .. 2 -> BOOLEAN]
  <2>1. ref \in MEMORY /\ before \in [1 .. 2 -> IF ref = NoReference THEN {FALSE} ELSE BOOLEAN]
    BY DEF Init
  <2> QED BY <2>1, BeaconAssumption
<1>4. 0 \in Counter /\ 0 \in 0 .. SLOT_MAX /\ 0 \in Channels
  BY JitAssumption, BeaconAssumption, ScanAssumption DEF Counter, Channels
<1>5. ScanTypeOK
  BY <1>4 DEF Init, ScanInit, ScanTypeOK, Scanner
<1>6. on \in SETTINGS /\ now \in 1 .. NOW_MAX /\ clock \in CLOCK_ERRORS \cup {0, -1}
  BY BeaconAssumption DEF Init
<1>7. /\ timeSet \in BOOLEAN /\ valid \in BOOLEAN /\ corrOk \in BOOLEAN
      /\ avg \in 0 .. XERR_INIT_AVG+1 /\ corrOk = (avg = XERR_INIT_AVG+1)
  <2>1. timeSet = FALSE /\ valid = FALSE /\ corrOk = FALSE /\ avg = 0
    BY DEF Init
  <2>2. avg \in 0 .. XERR_INIT_AVG+1 /\ avg # XERR_INIT_AVG+1
    BY <2>1, BeaconAssumption
  <2>3. (avg = XERR_INIT_AVG+1) = FALSE
    BY <2>2, Zenon
  <2>4. corrOk = (avg = XERR_INIT_AVG+1)
    BY <2>1, <2>3, Zenon
  <2> QED BY <2>1, <2>2, <2>4, Zenon
<1>8. /\ bpc \in {"sleep", "stopped"} /\ todo \in 0 .. JIT_NUM_BEACON_IN_QUEUE
      /\ retry \in Nat /\ last \in 0 .. SLOT_MAX
      /\ next \in [gps : 0 .. SLOT_MAX, count : Counter, odd : BOOLEAN]
  <2>1. next \in [gps : {0}, count : UNSET, odd : {FALSE}] /\ UNSET \subseteq Counter
    BY BeaconAssumption DEF Init
  <2>2. next \in [gps : 0 .. SLOT_MAX, count : Counter, odd : BOOLEAN]
    BY <1>4, <2>1
  <2> QED BY <1>4, <2>2, BeaconAssumption DEF Init
<1>9. /\ Len(nodes) <= JIT_QUEUE_MAX
      /\ Cardinality(BeaconSlots(nodes)) <= JIT_NUM_BEACON_IN_QUEUE
  BY <1>1, <1>2, BeaconAssumption, JitAssumption
<1>10. /\ rpc = "wait" /\ rpkt \in Packet \cup {NoTx} /\ radio \in Packet \cup {NoTx}
       /\ stopReq \in BOOLEAN /\ done \subseteq {"check", "correct", "poll"}
  BY DEF Init
<1>11. pulse \in 0 .. now /\ stale \in 0 .. FAULT_MAX /\ misread \in 0 .. FAULT_MAX
  BY BeaconAssumption DEF Init
<1>12. TypeOK
  BY <1>1, <1>3, <1>5, <1>6, <1>7, <1>8, <1>9, <1>10, <1>11 DEF TypeOK
<1>13. ~valid /\ synced = 0 /\ ref \in MEMORY /\ clock \in CLOCK_ERRORS
  BY DEF Init
<1> QED BY <1>8, <1>10, <1>12, <1>13 DEF TypeInv

-----------------------------------------------------------------------------
\* A step reads the counter once at the most; the count of failed readings
\* never goes down, and a reading that is not counted is right.
LEMMA ReadCounts ==
  ASSUME misread \in 0 .. FAULT_MAX, stale \in 0 .. FAULT_MAX, NEW count, Read(count)
  PROVE  /\ misread' \in 0 .. FAULT_MAX
         /\ misread' = 0 => misread = 0 /\ count = Count(now)
BY BeaconAssumption DEF Read

LEMMA SyncType == ASSUME TypeInv, Sync PROVE TypeInv'
<1>1. PICK gps \in {now, now - 1} \ 0 .. pulse, count \in Counter :
        LET aberrant == Aberrant(ref, count, gps)
        IN /\ Read(count)
           /\ pulse' = gps /\ stale' = stale + (now - gps) /\ stale' + misread' <= FAULT_MAX
           /\ before' = [i \in 1 .. 2 |-> IF i = 1 THEN aberrant ELSE before[1]]
           /\ IF Accepted(aberrant, before)
              THEN /\ ref' = [sys |-> now + clock, count |-> count, gps |-> gps]
                   /\ synced' = now
                   /\ \/ timeSet' = TRUE /\ clock' = (IF timeSet THEN clock ELSE gps - now)
                      \/ ~timeSet /\ UNCHANGED <<timeSet, clock>>
                   /\ reset' = (clock' # clock)
              ELSE timeSet' = FALSE /\ UNCHANGED <<ref, synced, clock, reset>>
  BY DEF Sync
<1>2. UNCHANGED <<on, now, valid, corrOk, avg, bpc, todo, retry, last, next, nodes,
                  rpc, rpkt, radio, stopReq, done, spc, chan, scanner, report>>
  BY DEF Sync, checkVars, beaconVars, jitVars, scanVars
<1> DEFINE aberrant == Aberrant(ref, count, gps)
<1>3. /\ now \in 1 .. NOW_MAX /\ now \in Nat /\ now # 0 /\ clock \in Int
      /\ before \in [1 .. 2 -> BOOLEAN] /\ timeSet \in BOOLEAN
      /\ clock \in CLOCK_ERRORS \cup {0, -1} /\ ref \in Reference
      /\ pulse \in Nat /\ stale \in 0 .. FAULT_MAX /\ misread \in 0 .. FAULT_MAX
  BY BeaconAssumption DEF TypeInv, TypeOK
<1>4. /\ gps \in Nat /\ gps - now \in {0, -1} /\ misread' \in 0 .. FAULT_MAX
      /\ pulse' \in 0 .. now' /\ stale' \in 0 .. FAULT_MAX
  <2>1. gps \in {now, now - 1} /\ gps \notin 0 .. pulse /\ gps \in Nat
    BY <1>3
  <2>2. misread' \in 0 .. FAULT_MAX
    BY <1>1, <1>3, ReadCounts
  <2>3. stale' = stale + (now - gps) /\ stale' + misread' <= FAULT_MAX
    BY <1>1
  <2>4. pulse' = gps /\ now' = now
    BY <1>1, <1>2
  <2>5. now - gps \in 0 .. 1 /\ gps - now \in {0, -1} /\ gps \in 0 .. now
    <3>1. CASE gps = now
      <4>1. gps - now = 0 /\ now - gps = 0
        BY <1>3, <3>1
      <4> QED BY <1>3, <3>1, <4>1
    <3>2. CASE gps = now - 1
      <4>1. gps - now = -1 /\ now - gps = 1
        BY <1>3, <3>2
      <4> QED BY <1>3, <2>1, <3>2, <4>1
    <3> QED BY <2>1, <3>1, <3>2
  <2>6. stale' \in 0 .. FAULT_MAX
    <3>1. \A a, b, c, m \in Nat : a + b + c <= m => a + b \in 0 .. m
      OBVIOUS
    <3>2. stale \in Nat /\ misread' \in Nat /\ FAULT_MAX \in Nat /\ now - gps \in Nat
      BY <1>3, <2>2, <2>5, BeaconAssumption
    <3> QED BY <2>3, <3>1, <3>2, Zenon
  <2> QED BY <2>1, <2>2, <2>4, <2>5, <2>6
<1>5. before' \in [1 .. 2 -> BOOLEAN]
  <2>1. aberrant \in BOOLEAN
    BY DEF Aberrant
  <2>2. before' = [i \in 1 .. 2 |-> IF i = 1 THEN aberrant ELSE before[1]]
    BY <1>1
  <2> HIDE DEF aberrant
  <2> QED BY <1>3, <2>1, <2>2
<1>6. /\ ref' \in Reference /\ clock' \in CLOCK_ERRORS \cup {0, -1} /\ timeSet' \in BOOLEAN
      /\ \/ synced' = now /\ ref'.gps = gps
         \/ UNCHANGED <<ref, synced, clock>>
  <2>1. CASE Accepted(aberrant, before)
    <3>1. /\ ref' = [sys |-> now + clock, count |-> count, gps |-> gps] /\ synced' = now
          /\ clock' \in {clock, gps - now} /\ timeSet' \in BOOLEAN
      BY <1>1, <1>3, <2>1
    <3>2. ref' \in Reference /\ ref'.gps = gps
      BY <1>3, <1>4, <3>1 DEF Reference
    <3> QED BY <1>3, <1>4, <3>1, <3>2
  <2>2. CASE ~Accepted(aberrant, before)
    BY <1>1, <1>3, <2>2
  <2> QED BY <2>1, <2>2
<1>7. Held' = Held
  BY <1>2 DEF Held
<1>8. TypeOK'
  BY <1>2, <1>4, <1>5, <1>6 DEF TypeInv, TypeOK, ScanTypeOK
<1>9. (synced' # 0 => ref'.gps \in Nat) /\ (valid' => ref'.gps \in Nat)
  BY <1>2, <1>3, <1>4, <1>6 DEF TypeInv
<1>10. synced' = 0 => ref' \in MEMORY /\ clock' \in CLOCK_ERRORS
  BY <1>3, <1>6 DEF TypeInv
<1> QED BY <1>2, <1>7, <1>8, <1>9, <1>10 DEF TypeInv

LEMMA CheckType ==
  ASSUME MemoryTells, TypeInv, CheckReference PROVE TypeInv'
<1>1. /\ UNCHANGED <<on, now, clock, ref, before, timeSet, pulse, stale, synced, corrOk, avg,
                     bpc, todo, retry, last, next, nodes, rpc, rpkt, radio, stopReq,
                     spc, chan, scanner, report, misread>>
      /\ done' = done \cup {"check"} /\ valid' = Fresh(ref, now + clock)
  BY DEF CheckReference, gpsVars, beaconVars, jitVars, scanVars
<1>2. valid' \in BOOLEAN
  BY <1>1 DEF Fresh
<1>3. valid' => ref.gps \in Nat
  <2>1. CASE synced # 0
    BY <2>1 DEF TypeInv
  <2>2. CASE synced = 0
    BY <1>1, <2>2 DEF TypeInv, TypeOK, MemoryTells
  <2> QED BY <2>1, <2>2
<1>4. TypeOK'
  BY <1>1, <1>2 DEF TypeInv, TypeOK, ScanTypeOK
<1>5. Held' = Held
  BY <1>1 DEF Held
<1> QED BY <1>1, <1>3, <1>4, <1>5 DEF TypeInv

LEMMA CorrectType == ASSUME TypeInv, Correct PROVE TypeInv'
<1>1. /\ UNCHANGED <<on, now, clock, ref, before, timeSet, pulse, stale, synced, valid,
                     bpc, todo, retry, last, next, nodes, rpc, rpkt, radio, stopReq,
                     spc, chan, scanner, report, misread>>
      /\ done' = done \cup {"correct"}
      /\ avg' = IF ~valid THEN 0 ELSE IF avg <= XERR_INIT_AVG THEN avg + 1 ELSE avg
      /\ corrOk' = IF ~valid THEN FALSE ELSE corrOk \/ avg = XERR_INIT_AVG
  BY DEF Correct, gpsVars, beaconVars, jitVars, scanVars
<1>2. avg \in 0 .. XERR_INIT_AVG+1 /\ XERR_INIT_AVG \in Nat
  BY BeaconAssumption DEF TypeInv, TypeOK
<1>0. corrOk \in BOOLEAN /\ corrOk = (avg = XERR_INIT_AVG+1)
  BY Zenon DEF TypeInv, TypeOK
<1>3. avg' \in 0 .. XERR_INIT_AVG+1
  BY <1>1, <1>2
<1>4. corrOk' \in BOOLEAN /\ corrOk' = (avg' = XERR_INIT_AVG+1)
  <2>1. CASE ~valid
    <3>1. corrOk' = FALSE /\ avg' # XERR_INIT_AVG+1
      BY <1>1, <1>2, <2>1
    <3> QED BY <3>1, Zenon
  <2>2. CASE valid /\ avg = XERR_INIT_AVG
    <3>1. avg' = XERR_INIT_AVG+1
      BY <1>1, <1>2, <2>2
    <3>2. corrOk' = (corrOk \/ avg = XERR_INIT_AVG)
      BY <1>1, <2>2, Zenon
    <3>3. corrOk' = TRUE
      BY <1>0, <2>2, <3>2, Zenon
    <3> QED BY <3>1, <3>3, Zenon
  <2>3. CASE valid /\ avg # XERR_INIT_AVG
    <3>1. (avg = XERR_INIT_AVG+1) <=> (avg' = XERR_INIT_AVG+1)
      BY <1>1, <1>2, <2>3
    <3>2. corrOk' = (corrOk \/ avg = XERR_INIT_AVG)
      BY <1>1, <2>3, Zenon
    <3>3. corrOk' = corrOk
      BY <1>0, <2>3, <3>2, Zenon
    <3> QED BY <1>0, <3>1, <3>3, Zenon
  <2> QED BY <2>1, <2>2, <2>3
<1>5. TypeOK'
  <2>1. done' \subseteq {"check", "correct", "poll"}
    BY <1>1 DEF TypeInv, TypeOK
  <2>2. RestOK
    BY TypeParts DEF TypeInv
  <2>3. RestOK'
    <3>1. UNCHANGED <<on, now, clock, ref, before, timeSet, pulse, stale, valid, bpc, todo,
                      retry, last, next, nodes, rpc, rpkt, radio, stopReq, spc, chan,
                      scanner, report, misread>>
      BY <1>1
    <3>2. corrOk' \in BOOLEAN
      BY <1>4, Zenon
    <3> QED BY <1>3, <2>1, <2>2, <3>1, <3>2 DEF RestOK, ScanTypeOK
  <2> QED BY <1>4, <2>3, TypeParts, Zenon DEF AverageOK
<1>6. Held' = Held
  BY <1>1 DEF Held
<1> QED BY <1>1, <1>5, <1>6 DEF TypeInv

-----------------------------------------------------------------------------
\* The parts of the type that only the GPS and the check of the reference change.
GpsUnchanged ==
  UNCHANGED <<clock, ref, before, timeSet, pulse, stale, synced, valid, corrOk, avg>>
\* Those that only the scan changes.
ScanUnchanged == UNCHANGED <<spc, chan, scanner, report>>

\* downstreamBeaconRunner() computes a beacon for a slot within the bound.
LEMMA ComputeType ==
  ASSUME TypeInv, Compute PROVE TypeInv'
<1>1. /\ UNCHANGED <<on, now, todo, retry, last, nodes, rpc, rpkt, radio, stopReq, done,
                     misread>>
      /\ GpsUnchanged /\ ScanUnchanged /\ bpc = "loop"
  BY DEF Compute, gpsVars, checkVars, jitVars, scanVars, GpsUnchanged, ScanUnchanged
<1>2. bpc' \in {"computed", "sleep"}
  BY DEF Compute
<1>3. next' \in [gps : 0 .. SLOT_MAX, count : Counter, odd : BOOLEAN]
  <2>1. CASE valid /\ corrOk
    <3>1. PICK c \in Gps2Cnts(ref, NextSlot) \cup (IF synced = 0 THEN {next.count} ELSE {}) :
            next' = [gps |-> NextSlot, count |-> c, odd |-> synced = 0]
      BY <2>1 DEF Compute
    <3>2. NextSlot <= SLOT_MAX /\ ref.gps \in Nat /\ last \in Nat /\ retry \in Nat
      BY <2>1, BeaconAssumption DEF Compute, TypeInv, TypeOK
    <3>3. NextSlot \in 0 .. SLOT_MAX
      BY <3>2, SlotLater, BeaconAssumption
    <3>4. c \in Counter
      <4>1. ref.count \in Counter /\ ref.count \in Int /\ W-1 \in Int
            /\ NextSlot - ref.gps \in Int
        BY <3>2, <3>3, JitAssumption DEF TypeInv, TypeOK, Reference, Counter
      <4>2. next.count \in Counter
        BY DEF TypeInv, TypeOK
      <4>3. CASE c \in Gps2Cnts(ref, NextSlot)
        BY <4>1, <4>3, CounterClosed DEF Gps2Cnts
      <4>4. CASE c = next.count
        BY <4>2, <4>4
      <4> QED BY <3>1, <4>3, <4>4
    <3> QED BY <3>1, <3>3, <3>4
  <2>2. CASE ~(valid /\ corrOk)
    BY <2>2 DEF Compute, TypeInv, TypeOK
  <2> QED BY <2>1, <2>2
<1>4. TypeOK'
  BY <1>1, <1>2, <1>3 DEF TypeInv, TypeOK, ScanTypeOK, GpsUnchanged, ScanUnchanged
<1>5. Held' = Held
  BY <1>1 DEF Held
<1> QED BY <1>1, <1>2, <1>4, <1>5 DEF TypeInv, GpsUnchanged

LEMMA WakeType ==
  ASSUME TypeInv, Wake \/ BeaconLeave PROVE TypeInv'
<1>1. /\ UNCHANGED <<on, now, last, next, nodes, rpc, rpkt, radio, stopReq, done, misread>>
      /\ GpsUnchanged /\ ScanUnchanged /\ retry' \in {retry, 0}
  BY DEF Wake, BeaconLeave, gpsVars, checkVars, jitVars, scanVars, GpsUnchanged, ScanUnchanged
<1>2. \/ /\ bpc' = "loop" /\ todo' > 0
         /\ todo' = JIT_NUM_BEACON_IN_QUEUE - Cardinality(BeaconSlots(nodes))
      \/ bpc' = "stopped" /\ todo' = todo
  BY DEF Wake, BeaconLeave
<1>3. Held \in Nat /\ Held' = Held
  <2>1. nodes \in Seq(Packet) /\ Len(nodes) \in Nat /\ DOMAIN nodes = 1 .. Len(nodes)
    BY DEF TypeInv, TypeOK
  <2>2. IsFiniteSet(1 .. Len(nodes))
    BY <2>1, IndexRange
  <2>3. BeaconSlots(nodes) \in SUBSET (1 .. Len(nodes))
    BY <2>1 DEF BeaconSlots
  <2> QED BY <1>1, <2>2, <2>3, FS_Subset, FS_CardinalityType DEF Held
<1>4. /\ todo' \in 0 .. JIT_NUM_BEACON_IN_QUEUE
      /\ bpc' = "loop" => todo' > 0 /\ todo' + Held' <= JIT_NUM_BEACON_IN_QUEUE
  BY <1>2, <1>3, BeaconAssumption DEF TypeInv, TypeOK, Held
<1>5. TypeOK'
  BY <1>1, <1>2, <1>4 DEF TypeInv, TypeOK, ScanTypeOK, GpsUnchanged, ScanUnchanged
<1> QED BY <1>1, <1>2, <1>4, <1>5 DEF TypeInv, GpsUnchanged

LEMMA EnqueueType ==
  ASSUME TypeInv, Enqueue PROVE TypeInv'
<1>1. /\ UNCHANGED <<on, now, next, rpc, rpkt, radio, stopReq, done>>
      /\ GpsUnchanged /\ ScanUnchanged /\ bpc = "computed"
      /\ bpc' = (IF todo' > 0 THEN "loop" ELSE "sleep")
  BY DEF Enqueue, gpsVars, checkVars, jitVars, scanVars, GpsUnchanged, ScanUnchanged
<1>2. /\ nodes \in Seq(Packet) /\ Len(nodes) <= JIT_QUEUE_MAX /\ Len(nodes) \in Nat
      /\ next \in [gps : 0 .. SLOT_MAX, count : Counter, odd : BOOLEAN]
      /\ todo \in Nat /\ todo > 0 /\ todo + Held <= JIT_NUM_BEACON_IN_QUEUE
      /\ todo <= JIT_NUM_BEACON_IN_QUEUE
      /\ retry \in Nat /\ last \in 0 .. SLOT_MAX
  BY <1>1, BeaconAssumption DEF TypeInv, TypeOK
<1>0. PICK time \in Counter :
        /\ Read(time)
        /\ IF ~IsFull(nodes) /\ Acceptable(nodes, Beacon(next), time)
           THEN /\ nodes' \in Arrange(Append(nodes, Beacon(next)), 1 .. Len(nodes)+1)
                /\ last' = next.gps /\ todo' = todo - 1 /\ retry' = 0
           ELSE retry' = retry + 1 /\ UNCHANGED <<nodes, last, todo>>
  BY DEF Enqueue
<1>5. misread' \in 0 .. FAULT_MAX
  BY <1>0, ReadCounts DEF TypeInv, TypeOK
<1>3. CASE ~IsFull(nodes) /\ Acceptable(nodes, Beacon(next), time)
  <2> DEFINE p == Beacon(next)
  <2>1. /\ nodes' \in Arrange(Append(nodes, p), 1 .. Len(nodes)+1)
        /\ last' = next.gps /\ todo' = todo - 1 /\ retry' = 0
    BY <1>0, <1>3
  <2>2. p \in Packet /\ p.type = "BEACON"
    BY <1>2, Packets
  <2> HIDE DEF p
  <2>3. /\ nodes' \in Seq(Packet) /\ Len(nodes') = Len(nodes) + 1
        /\ Held \in Nat /\ Held' = Held + 1
    BY <1>2, <2>1, <2>2, OneMore
  <2>4. Len(nodes') <= JIT_QUEUE_MAX
    BY <1>2, <1>3, <2>3, JitAssumption DEF IsFull
  <2>5. /\ todo' \in 0 .. JIT_NUM_BEACON_IN_QUEUE /\ todo' + Held' <= JIT_NUM_BEACON_IN_QUEUE
        /\ Held' <= JIT_NUM_BEACON_IN_QUEUE
    BY <1>2, <2>1, <2>3, BeaconAssumption
  <2>6. last' \in 0 .. SLOT_MAX /\ retry' \in Nat
    BY <1>2, <2>1
  <2>7. bpc' \in {"sleep", "loop"} /\ (bpc' = "loop" => todo' > 0)
    BY <1>1
  <2>8. TypeOK'
    BY <1>1, <1>5, <2>3, <2>4, <2>5, <2>6, <2>7
       DEF TypeInv, TypeOK, ScanTypeOK, GpsUnchanged, ScanUnchanged, Held
  <2> QED BY <1>1, <2>5, <2>7, <2>8 DEF TypeInv, GpsUnchanged
<1>4. CASE ~(~IsFull(nodes) /\ Acceptable(nodes, Beacon(next), time))
  <2>1. retry' = retry + 1 /\ UNCHANGED <<nodes, last, todo>>
    BY <1>0, <1>4
  <2>2. bpc' = "loop" /\ Held' = Held /\ retry' \in Nat
    BY <1>1, <1>2, <2>1 DEF Held
  <2>3. TypeOK'
    BY <1>1, <1>5, <2>1, <2>2 DEF TypeInv, TypeOK, ScanTypeOK, GpsUnchanged, ScanUnchanged
  <2> QED BY <1>1, <1>2, <2>1, <2>2, <2>3 DEF TypeInv, GpsUnchanged
<1> QED BY <1>3, <1>4

LEMMA SubmitType ==
  ASSUME TypeInv, Submit PROVE TypeInv'
<1>1. /\ UNCHANGED <<on, now, bpc, todo, retry, last, next, rpc, rpkt, radio, stopReq, done>>
      /\ GpsUnchanged /\ ScanUnchanged /\ ~IsFull(nodes)
  BY DEF Submit, gpsVars, checkVars, beaconVars, jitVars, scanVars, GpsUnchanged,
    ScanUnchanged
<1>2. PICK c \in DOWNLINKS, toa \in TOA, time \in Counter :
        /\ Read(time)
        /\ nodes' \in Arrange(Append(nodes, Downlink(c, toa)), 1 .. Len(nodes)+1)
  BY DEF Submit
<1>8. misread' \in 0 .. FAULT_MAX
  BY <1>2, ReadCounts DEF TypeInv, TypeOK
<1>3. Downlink(c, toa) \in Packet /\ Downlink(c, toa).type = "A"
  BY Packets, BeaconAssumption
<1>4. nodes \in Seq(Packet) /\ Len(nodes) <= JIT_QUEUE_MAX /\ Len(nodes) \in Nat
  BY DEF TypeInv, TypeOK
<1>5. nodes' \in Seq(Packet) /\ Len(nodes') = Len(nodes) + 1 /\ Held' = Held
  BY <1>2, <1>3, <1>4, OneMore
<1>6. Len(nodes') <= JIT_QUEUE_MAX
  BY <1>1, <1>4, <1>5, JitAssumption DEF IsFull
<1>7. TypeOK'
  BY <1>1, <1>5, <1>6, <1>8
     DEF TypeInv, TypeOK, ScanTypeOK, GpsUnchanged, ScanUnchanged, Held
<1> QED BY <1>1, <1>5, <1>7 DEF TypeInv, GpsUnchanged

LEMMA PollType ==
  ASSUME TypeInv, Poll PROVE TypeInv'
<1>0. PICK time \in Counter :
        LET kept == Kept(nodes, time)
            due  == Due(nodes, time)
        IN /\ Read(time)
           /\ IF due = {}
              THEN nodes' \in Arrange(nodes, kept) /\ UNCHANGED <<rpc, rpkt>>
              ELSE \E i \in due : /\ rpkt' = nodes[i] /\ rpc' = "taken"
                                  /\ nodes' \in Arrange(nodes, kept \ {i})
  BY DEF Poll
<1> DEFINE kept == Kept(nodes, time)
           due  == Due(nodes, time)
<1>10. misread' \in 0 .. FAULT_MAX
  BY <1>0, ReadCounts DEF TypeInv, TypeOK
<1>1. /\ UNCHANGED <<on, now, bpc, todo, retry, last, next, radio, stopReq>>
      /\ GpsUnchanged /\ ScanUnchanged /\ done' = done \cup {"poll"} /\ rpc = "wait"
  BY DEF Poll, gpsVars, checkVars, beaconVars, scanVars, GpsUnchanged, ScanUnchanged
<1>2. nodes \in Seq(Packet) /\ Len(nodes) <= JIT_QUEUE_MAX /\ Len(nodes) \in Nat
  BY DEF TypeInv, TypeOK
<1>3. kept \in SUBSET DOMAIN nodes /\ due \subseteq DOMAIN nodes
  BY DEF Kept, Seen, Skipped, Due
<1>4. /\ \E K \in SUBSET DOMAIN nodes : nodes' \in Arrange(nodes, K)
      /\ \/ UNCHANGED <<rpc, rpkt>>
         \/ rpc' = "taken" /\ rpkt' \in Packet
  <2>1. CASE due = {}
    BY <1>0, <1>3, <2>1
  <2>2. CASE due # {}
    <3>1. PICK i \in due : /\ rpkt' = nodes[i] /\ rpc' = "taken"
                           /\ nodes' \in Arrange(nodes, kept \ {i})
      BY <1>0, <2>2
    <3>2. nodes[i] \in Packet /\ (kept \ {i}) \in SUBSET DOMAIN nodes
      BY <1>2, <1>3
    <3> HIDE DEF kept, due
    <3> QED BY <3>1, <3>2
  <2> QED BY <2>1, <2>2
<1> HIDE DEF kept, due
<1>5. /\ nodes' \in Seq(Packet) /\ Len(nodes') \in Nat /\ Len(nodes') <= Len(nodes)
      /\ Held \in Nat /\ Held' \in Nat /\ Held' <= Held
  BY <1>2, <1>4, SomeLess
<1>6. Len(nodes') <= JIT_QUEUE_MAX /\ Held' <= JIT_NUM_BEACON_IN_QUEUE
  BY <1>2, <1>5, JitAssumption, BeaconAssumption DEF TypeInv, TypeOK, Held
<1>7. /\ rpc' \in {"wait", "taken"} /\ rpkt' \in Packet \cup {NoTx}
      /\ rpc' = "taken" => rpkt' \in Packet
  BY <1>1, <1>4 DEF TypeInv, TypeOK
<1>8. TypeOK'
  BY <1>1, <1>5, <1>6, <1>7, <1>10
     DEF TypeInv, TypeOK, ScanTypeOK, GpsUnchanged, ScanUnchanged, Held
<1>9. bpc' \in {"loop", "computed"} =>
        todo' > 0 /\ todo' + Held' <= JIT_NUM_BEACON_IN_QUEUE
  <2>1. todo \in Nat /\ JIT_NUM_BEACON_IN_QUEUE \in Nat /\ bpc' = bpc /\ todo' = todo
    BY <1>1, BeaconAssumption DEF TypeInv, TypeOK
  <2>2. bpc \in {"loop", "computed"} => todo > 0 /\ todo + Held <= JIT_NUM_BEACON_IN_QUEUE
    BY DEF TypeInv
  <2>3. todo + Held <= JIT_NUM_BEACON_IN_QUEUE => todo + Held' <= JIT_NUM_BEACON_IN_QUEUE
    <3>1. \A a, b, c, d \in Nat : d <= b /\ a + b <= c => a + d <= c
      OBVIOUS
    <3> QED BY <1>5, <2>1, <3>1, Zenon
  <2> QED BY <2>1, <2>2, <2>3
<1> QED BY <1>1, <1>7, <1>8, <1>9 DEF TypeInv, GpsUnchanged

\* The type of the scan's variables.
LEMMA NextScanType ==
  ScanInv' /\ ScanTypeOK /\ [Next]_vars => ScanTypeOK'
<1> SUFFICES ASSUME ScanInv', ScanTypeOK, [Next]_vars PROVE ScanTypeOK'
  OBVIOUS
<1>1. chan' \in Channels /\ scanner' \in Scanner
  BY DEF ScanInv
<1>2. CASE ScanThread
  <2>1. spc' \in {"pace", "scanning", "completed", "stopped"}
    BY <1>2 DEF ScanThread, ScanStart, ScanPoll, ScanReport, ScanLeave
  <2>2. report' \in [chan : Channels, of : Channels, whole : BOOLEAN]
    <3>1. \/ report' = report
          \/ report' = [chan |-> chan, of |-> scanner.chan, whole |-> scanner.whole]
      BY <1>2 DEF ScanThread, ScanStart, ScanPoll, ScanReport, ScanLeave
    <3> QED BY <3>1 DEF ScanTypeOK, Scanner
  <2> QED BY <1>1, <2>1, <2>2 DEF ScanTypeOK
<1>3. CASE Sync \/ SyncFails \/ CheckReference \/ Correct \/ Wake \/ Compute \/ Enqueue
           \/ BeaconLeave \/ Submit \/ Poll \/ JitLeave \/ Stop \/ Tick
           \/ Transmit \/ ScanDevice \/ UNCHANGED vars
  <2>1. UNCHANGED <<spc, report>>
    BY <1>3 DEF Sync, SyncFails, CheckReference, Correct, Wake, Compute, Enqueue,
      BeaconLeave, Submit, Poll, JitLeave, Stop, Tick, Transmit, ScanDevice, ScanDone,
      vars, scanVars
  <2> QED BY <1>1, <2>1 DEF ScanTypeOK
<1> QED BY <1>2, <1>3 DEF Next

LEMMA OtherType ==
  ASSUME TypeInv, ScanTypeOK',
         \/ SyncFails \/ Transmit \/ JitLeave \/ ScanThread \/ ScanDevice \/ Stop \/ Tick
         \/ UNCHANGED vars
  PROVE  TypeInv'
<1>1. /\ UNCHANGED <<on, clock, ref, before, pulse, stale, synced, valid, corrOk, avg,
                     bpc, todo, retry, last, next, nodes, misread>>
      /\ timeSet' \in {timeSet, FALSE}
  BY DEF SyncFails, Transmit, JitLeave, ScanThread, ScanDevice, Stop, Tick, vars,
    gpsVars, checkVars, beaconVars, jitVars
<1>2. now' \in 1 .. NOW_MAX /\ pulse' \in 0 .. now'
  <2>1. now' = now \/ (now' = now + 1 /\ now < NOW_MAX)
    BY DEF SyncFails, Transmit, JitLeave, ScanThread, ScanDevice, Stop, Tick, vars
  <2>2. now \in 1 .. NOW_MAX /\ pulse \in 0 .. now /\ pulse' = pulse
    BY <1>1 DEF TypeInv, TypeOK
  <2> QED BY <2>1, <2>2, BeaconAssumption
<1>3. /\ rpc' \in {rpc, "wait", "stopped"} /\ rpkt' \in {rpkt, NoTx}
      /\ rpc' = "taken" => rpc = "taken" /\ rpkt' = rpkt
      /\ stopReq' \in {stopReq, TRUE} /\ done' \in {done, {}}
  BY DEF SyncFails, Transmit, JitLeave, ScanThread, ScanDevice, Stop, Tick, vars, jitVars
<1>4. radio' \in Packet \cup {NoTx}
  <2>1. radio' \in {radio, NoTx, rpkt}
    BY DEF SyncFails, Transmit, JitLeave, ScanThread, ScanDevice, Stop, Tick, vars, jitVars
  <2> QED BY <2>1 DEF TypeInv, TypeOK
<1>5. TypeOK'
  <2>1. rpc' \in {"wait", "taken", "stopped"} /\ rpkt' \in Packet \cup {NoTx}
    BY <1>3 DEF TypeInv, TypeOK
  <2>2. done' \subseteq {"check", "correct", "poll"}
    BY <1>3 DEF TypeInv, TypeOK
  <2>3. timeSet' \in BOOLEAN /\ stopReq' \in BOOLEAN
    BY <1>1, <1>3 DEF TypeInv, TypeOK
  <2>4. RestOK /\ AverageOK
    BY TypeParts DEF TypeInv
  <2>5. RestOK'
    BY <1>1, <1>2, <1>4, <2>1, <2>2, <2>3, <2>4 DEF RestOK
  <2>6. AverageOK'
    BY <1>1, <2>4, Zenon DEF AverageOK
  <2> QED BY <2>5, <2>6, TypeParts
<1>6. Held' = Held
  BY <1>1 DEF Held
<1> QED BY <1>1, <1>3, <1>5, <1>6 DEF TypeInv

LEMMA NextType ==
  ASSUME MemoryTells
  PROVE  ScanInv' /\ TypeInv /\ [Next]_vars => TypeInv'
<1> SUFFICES ASSUME ScanInv', TypeInv, [Next]_vars PROVE TypeInv'
  OBVIOUS
<1>1. ScanTypeOK'
  BY NextScanType DEF TypeInv, TypeOK
<1> QED
  BY <1>1, SyncType, CheckType, CorrectType, WakeType, ComputeType, EnqueueType, SubmitType,
    PollType, OtherType DEF Next

\* TypeOK: downstreamBeaconRunner() never queues more than
\* JIT_NUM_BEACON_IN_QUEUE beacons and never counts below none what it has to
\* queue; times, counts and packets keep their types, whatever GPS, producers
\* and jitRunner() do in between.
THEOREM TypeCorrect ==
  ASSUME MemoryTells
  PROVE  Spec => []TypeOK
<1>1. TypeInv => TypeOK
  BY DEF TypeInv
<1>2. Spec => [](ScanInv /\ ScanReported)
  BY InitScan, NextScan, PTL DEF Spec
<1> QED BY InitType, NextType, <1>1, <1>2, PTL DEF Spec

-----------------------------------------------------------------------------
\* All times lie within W units, wherever among them the counter rolls over.
OneTurn ==
  NOW_MAX < W /\ NOW_MAX + TX_JIT_DELAY <= W /\ SLOT_MAX + 1 < W

\* The time within these that a count stands for.
When(count) == Ahead(count, OFFSET)

\* Whether a packet's count is that of its time, or of the next pulse.
Exact(p) == When(p.count) - p.gps \in 0 .. 1

\* As long as no reading has failed, the count of a beacon that a real reference
\* has given is that of its time, or one pulse late, or already past: the
\* conversion cuts what lies before the reference.
TimeInv ==
  /\ synced \in Nat
  /\ synced # 0 => /\ synced <= now /\ When(ref.count) = synced
                   /\ synced - ref.gps \in 0 .. 1
  /\ bpc = "computed" /\ ~next.odd => Exact(next) \/ When(next.count) <= now
  /\ \A i \in DOMAIN nodes :
       nodes[i].gps > 0 /\ ~nodes[i].odd => Exact(nodes[i]) \/ When(nodes[i].count) < now
  /\ rpc = "taken" /\ rpkt.gps > 0 /\ ~rpkt.odd => Exact(rpkt) /\ now <= When(rpkt.count)

LEMMA WhenType ==
  ASSUME NEW c \in Counter PROVE When(c) \in Nat /\ When(c) \in 0 .. W-1
BY CounterClosed, BeaconAssumption, JitAssumption DEF When, Counter

\* The conversion of a time that is within the turn.
LEMMA AddWithin ==
  ASSUME NEW x \in Counter, NEW d \in Int, When(x) + d \in 0 .. W-1
  PROVE  When(Add(x, d)) = When(x) + d
<1> DEFINE y == Add(x, d)
           w == When(x)
<1>1. /\ OFFSET \in 0 .. W-1 /\ x \in 0 .. W-1 /\ OFFSET \in Counter
      /\ W \in Nat \ {0} /\ y \in Counter
  BY CounterClosed, BeaconAssumption, JitAssumption DEF Counter
<1>2. /\ w = IF OFFSET <= x THEN x - OFFSET ELSE x - OFFSET + W
      /\ When(y) = IF OFFSET <= y THEN y - OFFSET ELSE y - OFFSET + W
  BY <1>1, AheadCases DEF When
<1>3. w + d \in 0 .. W-1 /\ w \in 0 .. W-1
  BY WhenType
<1>4. d \in (1-W) .. W-1
  BY <1>1, <1>3
<1>5. y = IF x + d < 0 THEN x + d + W ELSE IF x + d < W THEN x + d ELSE x + d - W
  <2>1. CASE x + d < 0
    <3>1. (x + d) % W = x + d + W
      BY <1>1, <1>4, <2>1
    <3> QED BY <2>1, <3>1 DEF Add
  <2>2. CASE x + d \in 0 .. W-1
    <3>1. (x + d) % W = x + d
      BY <1>1, <2>2
    <3> QED BY <1>1, <2>2, <3>1 DEF Add
  <2>3. CASE x + d >= W
    <3>1. (x + d) % W = x + d - W
      BY <1>1, <1>4, <2>3
    <3> QED BY <1>1, <2>3, <3>1 DEF Add
  <2> QED BY <1>1, <2>1, <2>2, <2>3
<1> HIDE DEF y, w
<1>6. When(y) = w + d
  BY <1>1, <1>2, <1>3, <1>4, <1>5
<1> QED BY <1>6 DEF y, w

\* The counter at a time within the turn, and how far ahead of it a count is.
LEMMA CountWithin ==
  ASSUME OneTurn, NEW t \in 0 .. NOW_MAX
  PROVE  When(Count(t)) = t /\ Count(t) \in Counter
<1>1. /\ t \in 0 .. W-1 /\ t \in Int /\ W \in Nat \ {0} /\ OFFSET \in Counter
      /\ OFFSET \in Int
  BY JitAssumption, BeaconAssumption DEF OneTurn, Counter
<1>2. Count(t) = Add(OFFSET, t) /\ Count(t) \in Counter
  BY <1>1, CounterClosed DEF Count, Add
<1>3. When(OFFSET) = 0
  <2>1. Ahead(OFFSET, OFFSET) = OFFSET - OFFSET
    BY <1>1, AheadCases
  <2> QED BY <1>1, <2>1 DEF When
<1>4. When(OFFSET) + t \in 0 .. W-1 /\ When(OFFSET) + t = t
  BY <1>1, <1>3
<1> QED BY <1>1, <1>2, <1>4, AddWithin

LEMMA AheadWithin ==
  ASSUME OneTurn, NEW t \in 1 .. NOW_MAX, NEW c \in Counter
  PROVE  /\ t <= When(c) => Ahead(c, Count(t)) = When(c) - t
         /\ When(c) < t  => Ahead(c, Count(t)) >= TX_JIT_DELAY
         /\ Ahead(c, Count(t)) = 0 <=> When(c) = t
<1> DEFINE y == Count(t)
           w == When(c)
<1>1. When(y) = t /\ y \in Counter
  BY CountWithin, BeaconAssumption
<1>2. OFFSET \in Counter
  BY BeaconAssumption
<1> HIDE DEF y
<1>3. /\ Ahead(y, OFFSET) <= Ahead(c, OFFSET) =>
           Ahead(c, y) = Ahead(c, OFFSET) - Ahead(y, OFFSET)
      /\ Ahead(c, OFFSET) < Ahead(y, OFFSET) =>
           Ahead(c, y) = W - (Ahead(y, OFFSET) - Ahead(c, OFFSET))
  BY <1>1, <1>2, AheadFrom
<1>4. /\ t <= w => Ahead(c, y) = w - t
      /\ w < t => Ahead(c, y) = W - (t - w)
  BY <1>1, <1>3 DEF When
<1>5. w \in 0 .. W-1 /\ w \in Nat
  BY WhenType
<1>6. t \in Nat /\ t <= NOW_MAX /\ W \in Nat /\ TX_JIT_DELAY \in Nat /\ NOW_MAX \in Nat
  BY JitAssumption, BeaconAssumption
<1> HIDE DEF w
<1>7. /\ t <= w => Ahead(c, y) = w - t
      /\ w < t => Ahead(c, y) >= TX_JIT_DELAY
      /\ Ahead(c, y) = 0 <=> w = t
  BY <1>4, <1>5, <1>6 DEF OneTurn
<1> QED BY <1>7 DEF y, w

\* lgw_gps2cnt() of a slot by a reference that was taken.
LEMMA SlotCount ==
  ASSUME OneTurn, TypeInv, TimeInv, synced # 0, NextSlot <= SLOT_MAX,
         NEW c \in Gps2Cnts(ref, NextSlot)
  PROVE  When(c) - NextSlot \in 0 .. 1 \/ When(c) <= now
<1>1. /\ synced <= now /\ synced \in Nat /\ When(ref.count) = synced
      /\ synced - ref.gps \in 0 .. 1 /\ ref.gps \in Nat /\ now \in 1 .. NOW_MAX
      /\ ref.count \in Counter
  BY DEF TimeInv, TypeInv, TypeOK, Reference
<1>2. NextSlot \in Nat /\ NextSlot > 0
  <2>1. last \in Nat /\ retry \in Nat
    BY BeaconAssumption DEF TypeInv, TypeOK
  <2> QED BY <1>1, <2>1, SlotLater
<1> DEFINE g == NextSlot
           x == ref.count
           e == synced - ref.gps
           d == g - ref.gps
<1>3. /\ g \in Nat /\ g > 0 /\ g <= SLOT_MAX /\ SLOT_MAX \in Nat /\ W \in Nat
      /\ ref.gps \in Nat /\ synced \in Nat
  BY <1>1, <1>2, BeaconAssumption, JitAssumption
<1>4. /\ d \in Int /\ e \in 0 .. 1 /\ synced + d = g + e /\ synced + d \in 0 .. W-1 /\ d < W
  <2>1. e \in 0 .. 1 /\ synced = ref.gps + e
    BY <1>1, <1>3
  <2>2. synced + d = g + e
    BY <1>3, <2>1
  <2> HIDE DEF g, e
  <2> QED BY <1>3, <2>1, <2>2 DEF OneTurn
<1>5. c = Add(x, d) \/ c = x
  <2>1. ~(d >= W)
    BY <1>3, <1>4
  <2> QED BY <2>1, Zenon DEF Gps2Cnts
<1>6. CASE c = Add(x, d)
  <2>1. When(x) + d \in 0 .. W-1 /\ When(x) = synced
    BY <1>1, <1>4
  <2> HIDE DEF d, x, g, e
  <2>2. When(c) = synced + d
    BY <1>1, <1>4, <1>6, <2>1, AddWithin DEF x
  <2> QED BY <1>3, <1>4, <2>2 DEF g
<1>7. CASE c = x
  BY <1>1, <1>7
<1> QED BY <1>5, <1>6, <1>7

LEMMA InitTime == Init => TimeInv
<1> SUFFICES ASSUME Init PROVE TimeInv
  OBVIOUS
<1>1. nodes = << >> /\ synced = 0 /\ bpc # "computed" /\ rpc = "wait"
  BY DEF Init
<1>2. DOMAIN nodes = {}
  BY <1>1
<1> QED BY <1>1, <1>2 DEF TimeInv

\* A reference holds the counter of now, and the time of now or of the pulse before.
LEMMA SyncTime ==
  ASSUME OneTurn, TypeInv, TimeInv, Sync, misread' = 0 PROVE TimeInv'
<1>1. PICK gps \in {now, now - 1} \ 0 .. pulse, count \in Counter :
        /\ Read(count)
        /\ \/ ref' = [sys |-> now + clock, count |-> count, gps |-> gps] /\ synced' = now
           \/ UNCHANGED <<ref, synced>>
  BY DEF Sync
<1>2. UNCHANGED <<now, bpc, next, nodes, rpc, rpkt>>
  BY DEF Sync, beaconVars, jitVars
<1>3. now \in 1 .. NOW_MAX /\ now \in Nat
  BY BeaconAssumption DEF TypeInv, TypeOK
<1>4. count = Count(now) /\ When(Count(now)) = now
  <2>1. count = Count(now)
    BY <1>1, ReadCounts DEF TypeInv, TypeOK
  <2>2. now \in 0 .. NOW_MAX
    BY <1>3
  <2> QED BY <2>1, <2>2, CountWithin
<1>5. now - gps \in 0 .. 1
  BY <1>1, <1>3
<1>6. /\ synced' \in Nat
      /\ synced' # 0 => /\ synced' <= now' /\ When(ref'.count) = synced'
                        /\ synced' - ref'.gps \in 0 .. 1
  <2>1. CASE UNCHANGED <<ref, synced>>
    BY <1>2, <2>1 DEF TimeInv
  <2>2. CASE ref' = [sys |-> now + clock, count |-> count, gps |-> gps] /\ synced' = now
    <3>1. ref'.count = count /\ ref'.gps = gps
      BY <2>2
    <3> QED BY <1>2, <1>3, <1>4, <1>5, <2>2, <3>1
  <2> QED BY <1>1, <2>1, <2>2
<1> QED BY <1>2, <1>6 DEF TimeInv, Exact, When

\* The steps that queue nothing and take nothing.
LEMMA QuietTime ==
  ASSUME TimeInv,
         \/ SyncFails \/ CheckReference \/ Correct \/ Wake \/ BeaconLeave \/ Transmit
         \/ JitLeave \/ ScanThread \/ ScanDevice \/ Stop \/ UNCHANGED vars
  PROVE  TimeInv'
<1>1. /\ UNCHANGED <<now, ref, synced, next, nodes>>
      /\ bpc' \in {bpc, "loop", "stopped"}
      /\ rpc' \in {rpc, "wait", "stopped"}
      /\ rpc' = "taken" => rpc = "taken" /\ rpkt' = rpkt
  BY DEF SyncFails, CheckReference, Correct, Wake, BeaconLeave, Transmit, JitLeave,
    ScanThread, ScanDevice, Stop, vars, gpsVars, beaconVars, jitVars
<1> QED BY <1>1 DEF TimeInv, Exact, When

LEMMA TickTime ==
  ASSUME TypeInv, TimeInv, Tick PROVE TimeInv'
<1>1. /\ UNCHANGED <<ref, synced, bpc, next, nodes, rpc, rpkt>> /\ rpc # "taken"
      /\ now' = now + 1
  BY DEF Tick, gpsVars, beaconVars
<1>2. now \in 1 .. NOW_MAX /\ NOW_MAX \in Nat
  BY BeaconAssumption DEF TypeInv, TypeOK
<1>3. now \in Nat
  BY <1>2
<1>4. synced # 0 => synced \in Nat /\ synced <= now'
  BY <1>1, <1>3 DEF TimeInv
<1>5. bpc = "computed" /\ ~next.odd => Exact(next) \/ When(next.count) <= now'
  <2>1. When(next.count) \in Nat
    BY WhenType DEF TypeInv, TypeOK
  <2>2. When(next.count) <= now => When(next.count) <= now'
    BY <1>1, <1>3, <2>1
  <2> QED BY <2>2 DEF TimeInv
<1>6. ASSUME NEW i \in DOMAIN nodes, nodes[i].gps > 0, ~nodes[i].odd
      PROVE  Exact(nodes[i]) \/ When(nodes[i].count) < now'
  <2>1. When(nodes[i].count) \in Nat
    <3>1. nodes[i] \in Packet
      BY DEF TypeInv, TypeOK
    <3> QED BY <3>1, WhenType DEF Packet
  <2>2. When(nodes[i].count) < now => When(nodes[i].count) < now'
    BY <1>1, <1>3, <2>1
  <2> QED BY <1>6, <2>2 DEF TimeInv
<1> QED BY <1>1, <1>4, <1>5, <1>6 DEF TimeInv, Exact, When

LEMMA ComputeTime ==
  ASSUME OneTurn, TypeInv, TimeInv, Compute PROVE TimeInv'
<1>1. UNCHANGED <<now, ref, synced, nodes, rpc, rpkt>>
  BY DEF Compute, gpsVars, jitVars
<1>2. CASE valid /\ corrOk
  <2>1. PICK c \in Gps2Cnts(ref, NextSlot) \cup (IF synced = 0 THEN {next.count} ELSE {}) :
          next' = [gps |-> NextSlot, count |-> c, odd |-> synced = 0]
    BY <1>2 DEF Compute
  <2>2. NextSlot <= SLOT_MAX
    BY <1>2 DEF Compute
  <2>3. synced # 0 => When(c) - NextSlot \in 0 .. 1 \/ When(c) <= now
    <3>1. synced # 0 => c \in Gps2Cnts(ref, NextSlot)
      OBVIOUS
    <3> QED BY <2>2, <3>1, SlotCount
  <2>4. next'.gps = NextSlot /\ next'.count = c /\ next'.odd = (synced = 0)
    BY <2>1
  <2>5. ~next'.odd => When(next'.count) - next'.gps \in 0 .. 1 \/ When(next'.count) <= now'
    BY <1>1, <2>3, <2>4
  <2> QED BY <1>1, <2>5 DEF TimeInv, Exact, When
<1>3. CASE ~(valid /\ corrOk)
  <2>1. bpc' = "sleep" /\ next' = next
    BY <1>3 DEF Compute
  <2> QED BY <1>1, <2>1 DEF TimeInv, Exact, When
<1> QED BY <1>2, <1>3

\* A beacon that is due now is refused as too late.
LEMMA EnqueueTime ==
  ASSUME OneTurn, TypeInv, TimeInv, Enqueue, misread' = 0 PROVE TimeInv'
<1>1. /\ UNCHANGED <<now, ref, synced, next, rpc, rpkt>> /\ bpc = "computed"
      /\ bpc' = (IF todo' > 0 THEN "loop" ELSE "sleep")
  BY DEF Enqueue, gpsVars, jitVars
<1>0. \/ /\ ~IsFull(nodes) /\ Acceptable(nodes, Beacon(next), Count(now))
         /\ nodes' \in Arrange(Append(nodes, Beacon(next)), 1 .. Len(nodes)+1)
      \/ nodes' = nodes
  <2>1. PICK time \in Counter :
          /\ Read(time)
          /\ \/ /\ ~IsFull(nodes) /\ Acceptable(nodes, Beacon(next), time)
                /\ nodes' \in Arrange(Append(nodes, Beacon(next)), 1 .. Len(nodes)+1)
             \/ nodes' = nodes
    BY DEF Enqueue
  <2>2. time = Count(now)
    BY <2>1, ReadCounts DEF TypeInv, TypeOK
  <2> QED BY <2>1, <2>2
<1>2. bpc' # "computed"
  BY <1>1
<1>3. /\ nodes \in Seq(Packet) /\ now \in 1 .. NOW_MAX
      /\ next \in [gps : 0 .. SLOT_MAX, count : Counter, odd : BOOLEAN]
  BY DEF TypeInv, TypeOK
<1>4. CASE /\ ~IsFull(nodes) /\ Acceptable(nodes, Beacon(next), Count(now))
           /\ nodes' \in Arrange(Append(nodes, Beacon(next)), 1 .. Len(nodes)+1)
  <2> DEFINE p == Beacon(next)
  <2>1. nodes' \in Arrange(Append(nodes, p), 1 .. Len(nodes)+1)
    BY <1>4
  <2>2. p \in Packet /\ p.gps = next.gps /\ p.count = next.count /\ p.odd = next.odd
    BY <1>3, Packets
  <2>3. ~TooLate(p, Count(now))
    BY <1>4 DEF Acceptable
  <2> HIDE DEF p
  <2>4. When(p.count) # now
    <3>1. next.count \in Counter
      BY <1>3
    <3>2. Ahead(p.count, Count(now)) # 0
      <4>1. TX_START_DELAY + TX_MARGIN_DELAY + TX_JIT_DELAY >= 0
        BY JitAssumption
      <4> QED BY <2>3, <4>1 DEF TooLate
    <3> QED BY <1>3, <2>2, <3>1, <3>2, AheadWithin
  <2>5. ~p.odd => Exact(p) \/ When(p.count) < now
    <3>1. When(next.count) \in Nat /\ now \in Nat
      BY <1>3, WhenType
    <3>2. ~p.odd => Exact(p) \/ When(p.count) <= now
      BY <1>1, <2>2 DEF TimeInv, Exact
    <3> QED BY <2>2, <2>4, <3>1, <3>2
  <2>6. \A i \in DOMAIN nodes' :
          nodes'[i] = p \/ \E j \in DOMAIN nodes : nodes'[i] = nodes[j]
    BY <1>3, <2>1, <2>2, OneMore
  <2>7. \A i \in DOMAIN nodes' : nodes'[i].gps > 0 /\ ~nodes'[i].odd =>
          Exact(nodes'[i]) \/ When(nodes'[i].count) < now
    BY <2>5, <2>6 DEF TimeInv
  <2> QED BY <1>1, <1>2, <2>7 DEF TimeInv, Exact, When
<1>5. CASE nodes' = nodes
  BY <1>1, <1>2, <1>5 DEF TimeInv, Exact, When
<1> QED BY <1>0, <1>4, <1>5

LEMMA SubmitTime ==
  ASSUME TypeInv, TimeInv, Submit PROVE TimeInv'
<1>1. UNCHANGED <<now, ref, synced, bpc, next, rpc, rpkt>>
  BY DEF Submit, gpsVars, beaconVars, jitVars
<1>2. PICK c \in DOWNLINKS, toa \in TOA :
        nodes' \in Arrange(Append(nodes, Downlink(c, toa)), 1 .. Len(nodes)+1)
  BY DEF Submit
<1> DEFINE p == Downlink(c, toa)
<1>3. p \in Packet /\ p.gps = 0
  BY Packets, BeaconAssumption
<1>4. nodes \in Seq(Packet) /\ nodes' \in Arrange(Append(nodes, p), 1 .. Len(nodes)+1)
  BY <1>2 DEF TypeInv, TypeOK
<1> HIDE DEF p
<1>5. \A i \in DOMAIN nodes' :
        nodes'[i] = p \/ \E j \in DOMAIN nodes : nodes'[i] = nodes[j]
  BY <1>3, <1>4, OneMore
<1>6. \A i \in DOMAIN nodes' :
        nodes'[i].gps > 0 /\ ~nodes'[i].odd =>
          Exact(nodes'[i]) \/ When(nodes'[i].count) < now
  <2>1. ~(p.gps > 0)
    BY <1>3
  <2> QED BY <1>5, <2>1 DEF TimeInv
<1> QED BY <1>1, <1>6 DEF TimeInv, Exact, When

\* A packet that is due is not past.
LEMMA DueIsAhead ==
  ASSUME OneTurn, TypeInv, NEW i \in Due(nodes, Count(now))
  PROVE  /\ i \in DOMAIN nodes /\ nodes[i] \in Packet /\ When(nodes[i].count) \in Nat
         /\ now \in Nat /\ now <= When(nodes[i].count)
         /\ When(nodes[i].count) - now < TX_JIT_DELAY
<1> DEFINE a == Ahead(nodes[i].count, Count(now))
           w == When(nodes[i].count)
<1>1. i \in DOMAIN nodes /\ a < TX_JIT_DELAY
  BY DEF Due, Seen
<1>2. nodes[i] \in Packet /\ now \in 1 .. NOW_MAX
  BY <1>1 DEF TypeInv, TypeOK
<1>3. nodes[i].count \in Counter
  BY <1>2 DEF Packet
<1>4. (now <= w => a = w - now) /\ (w < now => a >= TX_JIT_DELAY)
  BY <1>2, <1>3, AheadWithin
<1>5. w \in Nat /\ now \in Nat /\ TX_JIT_DELAY \in Nat /\ a \in Int
  <2>1. w \in Nat /\ now \in Nat /\ TX_JIT_DELAY \in Nat
    BY <1>2, <1>3, WhenType, JitAssumption, BeaconAssumption
  <2>2. Count(now) \in Counter
    <3>1. now \in 0 .. NOW_MAX
      BY <1>2
    <3> QED BY <3>1, CountWithin
  <2>3. nodes[i].count \in Int /\ Count(now) \in Int
    BY <1>3, <2>2 DEF Counter
  <2>4. a \in Counter
    BY <2>3, CounterClosed
  <2> HIDE DEF a
  <2> QED BY <2>1, <2>4 DEF Counter
<1> HIDE DEF a, w
<1>6. now <= w /\ w - now < TX_JIT_DELAY
  BY <1>1, <1>4, <1>5
<1> QED BY <1>1, <1>2, <1>5, <1>6 DEF w

\* What a poll leaves and what it takes.
LEMMA PollCases ==
  ASSUME TypeInv, Poll, misread' = 0
  PROVE  \E K \in SUBSET DOMAIN nodes :
           /\ nodes' \in Arrange(nodes, K)
           /\ \/ rpc = "wait" /\ UNCHANGED <<rpc, rpkt>>
              \/ \E i \in Due(nodes, Count(now)) :
                   rpc' = "taken" /\ rpkt' = nodes[i] /\ i \notin K
<1> DEFINE kept == Kept(nodes, Count(now))
           due  == Due(nodes, Count(now))
<1>0. rpc = "wait" /\ IF due = {}
                      THEN nodes' \in Arrange(nodes, kept) /\ UNCHANGED <<rpc, rpkt>>
                      ELSE \E i \in due : /\ rpkt' = nodes[i] /\ rpc' = "taken"
                                          /\ nodes' \in Arrange(nodes, kept \ {i})
  <2>1. PICK time \in Counter :
          LET k == Kept(nodes, time)
              d == Due(nodes, time)
          IN /\ Read(time)
             /\ IF d = {}
                THEN nodes' \in Arrange(nodes, k) /\ UNCHANGED <<rpc, rpkt>>
                ELSE \E i \in d : /\ rpkt' = nodes[i] /\ rpc' = "taken"
                                  /\ nodes' \in Arrange(nodes, k \ {i})
    BY DEF Poll
  <2>2. time = Count(now)
    BY <2>1, ReadCounts DEF TypeInv, TypeOK
  <2>3. rpc = "wait"
    BY DEF Poll
  <2> QED BY <2>1, <2>2, <2>3
<1>1. kept \in SUBSET DOMAIN nodes
  BY DEF Kept, Seen, Skipped
<1>2. CASE due = {}
  <2>1. nodes' \in Arrange(nodes, kept) /\ rpc = "wait" /\ UNCHANGED <<rpc, rpkt>>
    BY <1>0, <1>2
  <2> QED BY <1>1, <2>1
<1>3. CASE due # {}
  <2>1. PICK i \in due : /\ rpkt' = nodes[i] /\ rpc' = "taken"
                         /\ nodes' \in Arrange(nodes, kept \ {i})
    BY <1>0, <1>3
  <2>2. (kept \ {i}) \in SUBSET DOMAIN nodes /\ i \notin (kept \ {i})
    BY <1>1
  <2> HIDE DEF kept
  <2> QED BY <2>1, <2>2
<1> QED BY <1>2, <1>3

LEMMA PollTime ==
  ASSUME OneTurn, TypeInv, TimeInv, Poll, misread' = 0 PROVE TimeInv'
<1>1. UNCHANGED <<now, ref, synced, bpc, next>>
  BY DEF Poll, gpsVars, beaconVars
<1>2. PICK K \in SUBSET DOMAIN nodes :
        /\ nodes' \in Arrange(nodes, K)
        /\ \/ rpc = "wait" /\ UNCHANGED <<rpc, rpkt>>
           \/ \E i \in Due(nodes, Count(now)) :
                rpc' = "taken" /\ rpkt' = nodes[i] /\ i \notin K
  BY PollCases
<1>3. nodes \in Seq(Packet)
  BY DEF TypeInv, TypeOK
<1>4. \A i \in DOMAIN nodes' : \E j \in DOMAIN nodes : nodes'[i] = nodes[j]
  BY <1>2, <1>3, SomeLess
<1>5. \A i \in DOMAIN nodes' :
        nodes'[i].gps > 0 /\ ~nodes'[i].odd =>
          Exact(nodes'[i]) \/ When(nodes'[i].count) < now
  BY <1>4 DEF TimeInv
<1>6. rpc' = "taken" /\ rpkt'.gps > 0 /\ ~rpkt'.odd =>
        Exact(rpkt') /\ now <= When(rpkt'.count)
  <2> SUFFICES ASSUME rpc' = "taken", rpkt'.gps > 0, ~rpkt'.odd
               PROVE  Exact(rpkt') /\ now <= When(rpkt'.count)
    OBVIOUS
  <2>1. CASE rpc = "wait" /\ UNCHANGED <<rpc, rpkt>>
    BY <2>1
  <2>2. CASE \E i \in Due(nodes, Count(now)) : rpkt' = nodes[i]
    <3>1. PICK i \in Due(nodes, Count(now)) : rpkt' = nodes[i]
      BY <2>2
    <3>2. /\ i \in DOMAIN nodes /\ now <= When(nodes[i].count)
          /\ now \in Nat /\ When(nodes[i].count) \in Nat
      BY DueIsAhead
    <3>3. ~(When(nodes[i].count) < now)
      BY <3>2
    <3> QED BY <3>1, <3>2, <3>3 DEF TimeInv
  <2> QED BY <1>2, <2>1, <2>2
<1> QED BY <1>1, <1>5, <1>6 DEF TimeInv, Exact, When

\* Failed readings are not forgotten.
LEMMA NeverFewer ==
  ASSUME TypeInv, [Next]_vars, misread' = 0 PROVE misread = 0
<1>1. CASE Sync \/ Enqueue \/ Submit \/ Poll
  <2>1. \E time : Read(time)
    BY <1>1 DEF Sync, Enqueue, Submit, Poll
  <2> QED BY <2>1, ReadCounts DEF TypeInv, TypeOK
<1>2. CASE \/ SyncFails \/ CheckReference \/ Correct \/ Wake \/ Compute \/ BeaconLeave
           \/ Transmit \/ JitLeave \/ ScanThread \/ ScanDevice \/ Stop \/ Tick
           \/ UNCHANGED vars
  <2>1. misread' = misread
    BY <1>2 DEF SyncFails, CheckReference, Correct, Wake, Compute, BeaconLeave, Transmit,
      JitLeave, ScanThread, ScanDevice, Stop, Tick, vars
  <2> QED BY <2>1
<1> QED BY <1>1, <1>2 DEF Next

LEMMA NextTime ==
  ASSUME OneTurn
  PROVE  TypeInv /\ (misread = 0 => TimeInv) /\ [Next]_vars => (misread = 0 => TimeInv)'
<1> SUFFICES ASSUME TypeInv, misread = 0 => TimeInv, [Next]_vars, misread' = 0
             PROVE  TimeInv'
  OBVIOUS
<1>1. TimeInv
  BY NeverFewer
<1> QED
  BY <1>1, SyncTime, QuietTime, TickTime, ComputeTime, EnqueueTime, SubmitTime, PollTime
     DEF Next

LEMMA TypeInvariant ==
  ASSUME MemoryTells PROVE Spec => []TypeInv
<1>1. Spec => [](ScanInv /\ ScanReported)
  BY InitScan, NextScan, PTL DEF Spec
<1> QED BY InitType, NextType, <1>1, PTL DEF Spec

\* BeaconAtItsTime: jitRunner() takes a beacon of downstreamBeaconRunner() from
\* the queue for the time its payload tells, or one pulse late, whichever pulse
\* was read late, whenever the reference was lost and set again, whatever was
\* missed and wherever the counter rolls over, as long as the times lie within
\* one turn of the counter and no reading of it has failed.
THEOREM BeaconsKeepTime ==
  ASSUME MemoryTells, OneTurn
  PROVE  Spec => []BeaconAtItsTime
<1>1. TypeInv /\ (misread = 0 => TimeInv) => BeaconAtItsTime
  <2> SUFFICES ASSUME TypeInv, TimeInv, rpc = "taken", rpkt.gps > 0, ~rpkt.odd
               PROVE  (now + Ahead(rpkt.count, Count(now))) - rpkt.gps \in 0 .. 1
    BY DEF BeaconAtItsTime
  <2> DEFINE w == When(rpkt.count)
  <2>1. rpkt \in Packet /\ now \in 1 .. NOW_MAX /\ now \in Nat
    BY BeaconAssumption DEF TypeInv, TypeOK
  <2>2. rpkt.count \in Counter /\ rpkt.gps \in Int
    BY <2>1 DEF Packet
  <2>3. w - rpkt.gps \in 0 .. 1 /\ now <= w
    BY DEF TimeInv, Exact
  <2>4. Ahead(rpkt.count, Count(now)) = w - now /\ w \in Nat
    BY <2>1, <2>2, <2>3, AheadWithin, WhenType
  <2> HIDE DEF w
  <2> QED BY <2>1, <2>2, <2>3, <2>4
<1>2. Init => (misread = 0 => TimeInv)
  BY InitTime
<1> QED BY TypeInvariant, <1>2, NextTime, <1>1, PTL DEF Spec

-----------------------------------------------------------------------------
\* A reference that was never set does not seem recent.
MemoryStale ==
  \A r \in MEMORY, e \in CLOCK_ERRORS, t \in 1 .. NOW_MAX : ~Fresh(r, t + e)

\* A reference that was never set is stale when its memory is that of zeroes, a
\* time decades ago.
LEMMA ZeroesStale ==
  ASSUME MEMORY \subseteq {NoReference},
         \A e \in CLOCK_ERRORS : e + 2 * W > GPS_REF_MAX_AGE
  PROVE  MemoryStale /\ MemoryTells
<1>1. ASSUME NEW r \in MEMORY, NEW e \in CLOCK_ERRORS, NEW t \in 1 .. NOW_MAX
      PROVE  ~Fresh(r, t + e)
  <2>1. r.sys = -2 * W
    BY DEF NoReference
  <2>2. /\ e \in Int /\ t \in Nat /\ W \in Nat /\ GPS_REF_MAX_AGE \in Nat
        /\ e + 2 * W > GPS_REF_MAX_AGE
    BY BeaconAssumption, JitAssumption, ReferenceAssumption
  <2>3. t + e - (-2 * W) > GPS_REF_MAX_AGE
    BY <2>2
  <2> QED BY <2>1, <2>2, <2>3 DEF Fresh
<1> QED BY <1>1 DEF MemoryStale, MemoryTells

\* Slots further apart than a packet is programmed ahead, by counts of real
\* references; or never two beacons in the queue.
SlotsApart ==
  JIT_NUM_BEACON_IN_QUEUE <= 1 \/ (MemoryStale /\ TX_JIT_DELAY < PERIOD)

NeverOdd ==
  /\ valid => synced # 0
  /\ bpc = "computed" => ~next.odd
  /\ \A i \in DOMAIN nodes : ~nodes[i].odd

\* A slot, up to a last one.
Slot(g, to) == g > 0 /\ g % PERIOD = 0 /\ g <= to

\* A queued beacon is later than one that has left the queue, unless its count
\* is past: then it leaves the queue no more.
Later(p, t, g) == When(p.count) < t \/ g < p.gps

\* The time of the packet that has been dequeued.
Taken == IF rpc = "taken" THEN rpkt.gps ELSE 0

Apart(g, h) == g + PERIOD <= h \/ h + PERIOD <= g

SlotInv ==
  /\ MemoryStale => NeverOdd
  /\ last \in Nat /\ last % PERIOD = 0 /\ aired \in Nat /\ aired <= last
  /\ bpc = "computed" =>
       /\ next.gps > 0 /\ next.gps % PERIOD = 0
       /\ last # 0 => last + PERIOD <= next.gps
  /\ \A i \in DOMAIN nodes : nodes[i].gps > 0 =>
       /\ nodes[i].type = "BEACON" /\ Slot(nodes[i].gps, last)
       /\ Later(nodes[i], now, aired) /\ Later(nodes[i], now, Taken)
  /\ \A i, j \in DOMAIN nodes :
       i # j /\ nodes[i].gps > 0 /\ nodes[j].gps > 0 => Apart(nodes[i].gps, nodes[j].gps)
  /\ rpc = "taken" /\ rpkt.gps > 0 => Slot(rpkt.gps, last) /\ aired < rpkt.gps

\* Where the nodes of an arrangement come from.
LEMMA Places ==
  ASSUME NEW S, NEW q \in Seq(S), NEW K \in SUBSET DOMAIN q, NEW s \in Arrange(q, K)
  PROVE  \A i, j \in DOMAIN s : \E a, b \in K :
           s[i] = q[a] /\ s[j] = q[b] /\ (i # j => a # b)
<1> DEFINE n == Cardinality(K)
<1>1. PICK f \in Bijection(1 .. n, K) : s = [k \in 1 .. n |-> q[f[k]]]
  BY ArrangeForm
<1>2. /\ \A k \in 1 .. n : f[k] \in K
      /\ \A a, b \in 1 .. n : f[a] = f[b] => a = b
  BY DEF Bijection, Injection, Surjection, IsInjective
<1>3. DOMAIN s = 1 .. n /\ \A k \in 1 .. n : s[k] = q[f[k]]
  BY <1>1
<1> HIDE DEF n
<1> SUFFICES ASSUME NEW i \in DOMAIN s, NEW j \in DOMAIN s
             PROVE  \E a, b \in K : s[i] = q[a] /\ s[j] = q[b] /\ (i # j => a # b)
  OBVIOUS
<1>4. f[i] \in K /\ f[j] \in K /\ (i # j => f[i] # f[j])
  BY <1>2, <1>3
<1>5. s[i] = q[f[i]] /\ s[j] = q[f[j]]
  BY <1>3
<1> QED BY <1>4, <1>5

-----------------------------------------------------------------------------
\* Multiples of the period.
LEMMA Aligned ==
  ASSUME NEW P \in Nat \ {0}
  PROVE  /\ 0 % P = 0
         /\ \A x \in Nat : (x + (P - (x % P))) % P = 0 /\ x % P \in 0 .. P-1
         /\ \A x, k \in Nat : x % P = 0 => (x + k * P) % P = 0 /\ (x + P) % P = 0
<1>1. \A k \in Nat : (k * P) % P = 0
  OBVIOUS
<1>2. 0 % P = 0
  OBVIOUS
<1>3. \A x \in Nat : (x + (P - (x % P))) % P = 0
  OBVIOUS
<1>4. \A x \in Nat : x % P \in 0 .. P-1
  OBVIOUS
<1>5. ASSUME NEW x \in Nat, NEW k \in Nat, x % P = 0 PROVE (x + k * P) % P = 0
  <2> DEFINE m == x \div P
  <2>1. x = m * P + (x % P) /\ m \in Nat
    OBVIOUS
  <2> HIDE DEF m
  <2>2. x + k * P = (m + k) * P /\ m + k \in Nat
    BY <1>5, <2>1
  <2> QED BY <1>1, <2>2
<1>6. ASSUME NEW x \in Nat, x % P = 0 PROVE (x + P) % P = 0
  <2>1. x + 1 * P = x + P
    OBVIOUS
  <2>2. (x + 1 * P) % P = 0
    BY <1>5, <1>6
  <2> QED BY <2>1, <2>2
<1> QED BY <1>2, <1>3, <1>4, <1>5, <1>6

LEMMA SlotAligned ==
  ASSUME last \in Nat, last % PERIOD = 0, retry \in Nat, ref.gps \in Nat
  PROVE  NextSlot % PERIOD = 0
<1>1. PERIOD \in Nat \ {0}
  BY BeaconAssumption
<1> DEFINE g == ref.gps
           x == IF last = 0 THEN g + (PERIOD - (g % PERIOD)) ELSE last + PERIOD
<1>2. g \in Nat /\ g % PERIOD \in 0 .. PERIOD-1
  BY <1>1, Aligned
<1>3. x \in Nat
  BY <1>1, <1>2
<1>4. x % PERIOD = 0
  BY <1>1, <1>2, Aligned
<1>5. NextSlot = x + retry * PERIOD
  BY DEF NextSlot
<1> HIDE DEF x, g
<1> QED BY <1>1, <1>3, <1>4, <1>5, Aligned

-----------------------------------------------------------------------------
LEMMA InitSlot == Init => SlotInv
<1> SUFFICES ASSUME Init PROVE SlotInv
  OBVIOUS
<1>1. /\ nodes = << >> /\ valid = FALSE /\ bpc # "computed" /\ rpc = "wait"
      /\ last = 0 /\ aired = 0
  BY DEF Init
<1>2. DOMAIN nodes = {}
  BY <1>1
<1>3. 0 % PERIOD = 0
  BY BeaconAssumption, Aligned
<1> QED BY <1>1, <1>2, <1>3 DEF SlotInv, NeverOdd

\* The steps that queue nothing and take nothing.
LEMMA QuietSlot ==
  ASSUME TypeInv, TimeInv, SlotInv,
         \/ Sync \/ SyncFails \/ CheckReference \/ Correct \/ Wake \/ BeaconLeave
         \/ JitLeave \/ ScanThread \/ ScanDevice \/ Stop \/ UNCHANGED vars
  PROVE  SlotInv'
<1>1. /\ UNCHANGED <<now, last, aired, next, nodes>>
      /\ bpc' \in {bpc, "loop", "stopped"}
      /\ rpc' \in {rpc, "stopped"} /\ rpkt' = rpkt
  BY DEF Sync, SyncFails, CheckReference, Correct, Wake, BeaconLeave, JitLeave,
    ScanThread, ScanDevice, Stop, vars, beaconVars, jitVars
<1>2. now # 0
  BY DEF TypeInv, TypeOK
<1>3. MemoryStale => NeverOdd'
  <2> SUFFICES ASSUME MemoryStale PROVE NeverOdd'
    OBVIOUS
  <2>1. NeverOdd
    BY DEF SlotInv
  <2>2. valid' => synced' # 0
    <3>1. CASE CheckReference
      <4>1. synced' = synced /\ valid' = Fresh(ref, now + clock)
        BY <3>1 DEF CheckReference, gpsVars
      <4>2. synced = 0 => ~Fresh(ref, now + clock)
        BY DEF TypeInv, TypeOK, MemoryStale
      <4> QED BY <4>1, <4>2
    <3>2. CASE Sync
      <4>1. valid' = valid /\ synced' \in {now, synced}
        BY <3>2 DEF Sync, checkVars
      <4> QED BY <1>2, <2>1, <4>1 DEF NeverOdd
    <3>3. CASE SyncFails \/ Correct \/ Wake \/ BeaconLeave \/ JitLeave \/ ScanThread
               \/ ScanDevice \/ Stop \/ UNCHANGED vars
      <4>1. UNCHANGED <<valid, synced>>
        BY <3>3 DEF SyncFails, Correct, Wake, BeaconLeave, JitLeave, ScanThread,
          ScanDevice, Stop, vars, gpsVars, checkVars
      <4> QED BY <2>1, <4>1 DEF NeverOdd
    <3> QED BY <3>1, <3>2, <3>3
  <2> QED BY <1>1, <2>1, <2>2 DEF NeverOdd
<1>4. Taken' = Taken \/ (Taken' = 0 /\ rpc = "taken")
  BY <1>1 DEF Taken
<1>5. ASSUME NEW i \in DOMAIN nodes, nodes[i].gps > 0
      PROVE  Later(nodes[i], now, Taken')
  BY <1>4, <1>5 DEF SlotInv, Later
<1> QED BY <1>1, <1>3, <1>5 DEF SlotInv

LEMMA TickSlot ==
  ASSUME TypeInv, SlotInv, Tick PROVE SlotInv'
<1>1. /\ UNCHANGED <<valid, synced, bpc, last, aired, next, nodes, rpc, rpkt>>
      /\ now' = now + 1
  BY DEF Tick, gpsVars, checkVars, beaconVars
<1>2. ASSUME NEW i \in DOMAIN nodes, NEW g, Later(nodes[i], now, g)
      PROVE  Later(nodes[i], now', g)
  <2>1. nodes[i] \in Packet
    BY DEF TypeInv, TypeOK
  <2>2. nodes[i].count \in Counter
    BY <2>1 DEF Packet
  <2>3. When(nodes[i].count) \in Nat /\ now \in Int
    BY <2>2, WhenType DEF TypeInv, TypeOK
  <2>4. When(nodes[i].count) < now => When(nodes[i].count) < now'
    BY <1>1, <2>3
  <2> QED BY <1>1, <1>2, <2>4 DEF Later
<1>3. Taken' = Taken
  BY <1>1 DEF Taken
<1> QED BY <1>1, <1>2, <1>3 DEF SlotInv, NeverOdd

\* A beacon that is handed over is the last one that was.
LEMMA TransmitSlot ==
  ASSUME TypeInv, SlotInv, Transmit PROVE SlotInv'
<1>1. /\ UNCHANGED <<valid, synced, now, bpc, last, next, nodes>>
      /\ rpc = "taken" /\ rpc' = "wait"
      /\ aired' = aired \/ (rpkt.gps > 0 /\ aired' = rpkt.gps)
  BY DEF Transmit, gpsVars, checkVars, beaconVars
<1>2. aired' \in Nat /\ aired' <= last
  <2>1. rpkt \in Packet
    BY <1>1 DEF TypeInv
  <2>2. rpkt.gps \in Nat
    BY <2>1, BeaconAssumption DEF Packet
  <2> QED BY <1>1, <2>2 DEF SlotInv, Slot
<1>3. Taken' = 0 /\ aired' \in {aired, Taken}
  BY <1>1 DEF Taken
<1>4. ASSUME NEW i \in DOMAIN nodes, nodes[i].gps > 0
      PROVE  Later(nodes[i], now, aired') /\ Later(nodes[i], now, Taken')
  BY <1>3, <1>4 DEF SlotInv, Later
<1> QED BY <1>1, <1>2, <1>4 DEF SlotInv, NeverOdd

\* A beacon is computed for a slot later than those that were queued.
LEMMA ComputeSlot ==
  ASSUME TypeInv, SlotInv, Compute PROVE SlotInv'
<1>1. UNCHANGED <<valid, synced, now, last, aired, nodes, rpc, rpkt, Taken>>
  BY DEF Compute, gpsVars, checkVars, jitVars, Taken
<1>2. CASE valid /\ corrOk
  <2>1. \E c : next' = [gps |-> NextSlot, count |-> c, odd |-> synced = 0]
    BY <1>2 DEF Compute
  <2>2. ref.gps \in Nat /\ last \in Nat /\ retry \in Nat /\ last % PERIOD = 0
    BY <1>2 DEF TypeInv, TypeOK, SlotInv
  <2>3. next'.gps = NextSlot /\ next'.odd = (synced = 0)
    BY <2>1
  <2>4. /\ next'.gps > 0 /\ next'.gps % PERIOD = 0
        /\ last # 0 => last + PERIOD <= next'.gps
    BY <2>2, <2>3, SlotLater, SlotAligned
  <2>5. MemoryStale => NeverOdd'
    BY <1>1, <1>2, <2>3 DEF SlotInv, NeverOdd
  <2> QED BY <1>1, <2>4, <2>5 DEF SlotInv
<1>3. CASE ~(valid /\ corrOk)
  <2>1. bpc' = "sleep" /\ next' = next
    BY <1>3 DEF Compute
  <2> QED BY <1>1, <2>1 DEF SlotInv, NeverOdd
<1> QED BY <1>2, <1>3

LEMMA SubmitSlot ==
  ASSUME TypeInv, SlotInv, Submit PROVE SlotInv'
<1>1. UNCHANGED <<valid, synced, now, bpc, last, aired, next, rpc, rpkt, Taken>>
  BY DEF Submit, gpsVars, checkVars, beaconVars, jitVars, Taken
<1>2. PICK c \in DOWNLINKS, toa \in TOA :
        nodes' \in Arrange(Append(nodes, Downlink(c, toa)), 1 .. Len(nodes)+1)
  BY DEF Submit
<1> DEFINE p == Downlink(c, toa)
           q == Append(nodes, p)
<1>3. p \in Packet /\ p.gps = 0 /\ ~p.odd
  BY Packets, BeaconAssumption
<1>4. nodes \in Seq(Packet)
  BY DEF TypeInv, TypeOK
<1>5. nodes' \in Arrange(q, 1 .. Len(nodes)+1)
  BY <1>2
<1> HIDE DEF p
<1>6. /\ q \in Seq(Packet) /\ DOMAIN q = 1 .. Len(nodes)+1
      /\ q[Len(nodes)+1] = p /\ \A i \in DOMAIN nodes : q[i] = nodes[i]
      /\ DOMAIN q = DOMAIN nodes \cup {Len(nodes)+1}
  BY <1>3, <1>4, AppendForm
<1> HIDE DEF q
<1>7. \A i, j \in DOMAIN nodes' : \E a, b \in DOMAIN q :
        nodes'[i] = q[a] /\ nodes'[j] = q[b] /\ (i # j => a # b)
  BY <1>5, <1>6, Places
<1>8. \A i, j \in DOMAIN nodes' : nodes'[i].gps > 0 /\ nodes'[j].gps > 0 =>
        \E a, b \in DOMAIN nodes :
          nodes'[i] = nodes[a] /\ nodes'[j] = nodes[b] /\ (i # j => a # b)
  <2>1. \A a \in DOMAIN q : q[a].gps > 0 => a \in DOMAIN nodes /\ q[a] = nodes[a]
    BY <1>3, <1>6
  <2> SUFFICES ASSUME NEW i \in DOMAIN nodes', NEW j \in DOMAIN nodes',
                      nodes'[i].gps > 0, nodes'[j].gps > 0
               PROVE  \E a, b \in DOMAIN nodes :
                        nodes'[i] = nodes[a] /\ nodes'[j] = nodes[b] /\ (i # j => a # b)
    OBVIOUS
  <2>2. PICK a \in DOMAIN q, b \in DOMAIN q :
          nodes'[i] = q[a] /\ nodes'[j] = q[b] /\ (i # j => a # b)
    BY <1>7
  <2>3. a \in DOMAIN nodes /\ q[a] = nodes[a] /\ b \in DOMAIN nodes /\ q[b] = nodes[b]
    BY <2>1, <2>2
  <2> QED BY <2>2, <2>3
<1>9. \A i \in DOMAIN nodes' : nodes'[i] = p \/ \E a \in DOMAIN nodes : nodes'[i] = nodes[a]
  BY <1>6, <1>7
<1>10. MemoryStale => NeverOdd'
  BY <1>1, <1>3, <1>9 DEF SlotInv, NeverOdd
<1>11. \A i \in DOMAIN nodes' : nodes'[i].gps > 0 =>
         /\ nodes'[i].type = "BEACON" /\ Slot(nodes'[i].gps, last)
         /\ Later(nodes'[i], now, aired) /\ Later(nodes'[i], now, Taken)
  BY <1>8 DEF SlotInv
<1>12. \A i, j \in DOMAIN nodes' :
         i # j /\ nodes'[i].gps > 0 /\ nodes'[j].gps > 0 =>
           Apart(nodes'[i].gps, nodes'[j].gps)
  BY <1>8 DEF SlotInv
<1> QED BY <1>1, <1>10, <1>11, <1>12 DEF SlotInv

-----------------------------------------------------------------------------
\* A beacon that is queued is for a later slot than all before it.
LEMMA EnqueueSlot ==
  ASSUME TypeInv, SlotInv, Enqueue PROVE SlotInv'
<1>1. /\ UNCHANGED <<valid, synced, now, aired, next, rpc, rpkt, Taken>> /\ bpc = "computed"
      /\ bpc' = (IF todo' > 0 THEN "loop" ELSE "sleep")
  BY DEF Enqueue, gpsVars, checkVars, jitVars, Taken
<1>2. bpc' # "computed"
  BY <1>1
<1>3. /\ nodes \in Seq(Packet)
      /\ next \in [gps : 0 .. SLOT_MAX, count : Counter, odd : BOOLEAN]
  BY DEF TypeInv, TypeOK
<1>4. CASE /\ nodes' \in Arrange(Append(nodes, Beacon(next)), 1 .. Len(nodes)+1)
           /\ last' = next.gps
  <2> DEFINE p == Beacon(next)
             q == Append(nodes, p)
             z == Len(nodes) + 1
             h == p.gps
  <2>1. nodes' \in Arrange(q, 1 .. z) /\ last' = next.gps
    BY <1>4
  <2>2. p \in Packet /\ p.gps = next.gps /\ p.odd = next.odd /\ p.type = "BEACON"
    BY <1>3, Packets
  <2>3. h \in Nat /\ PERIOD \in Nat \ {0} /\ last \in Nat /\ aired \in Nat
    BY <1>3, <2>2, BeaconAssumption DEF SlotInv
  <2>4. h > 0 /\ h % PERIOD = 0 /\ (last # 0 => last + PERIOD <= h) /\ last' = h
    BY <1>1, <2>1, <2>2 DEF SlotInv
  <2> HIDE DEF p
  <2>5. /\ q \in Seq(Packet) /\ DOMAIN q = 1 .. z /\ q[z] = p
        /\ \A i \in DOMAIN nodes : q[i] = nodes[i]
        /\ DOMAIN q = DOMAIN nodes \cup {z} /\ z \notin DOMAIN nodes
    BY <1>3, <2>2, AppendForm
  <2> HIDE DEF q, z
  <2>6. \A i, j \in DOMAIN nodes' : \E a, b \in DOMAIN q :
          nodes'[i] = q[a] /\ nodes'[j] = q[b] /\ (i # j => a # b)
    <3>1. nodes' \in Arrange(q, DOMAIN q) /\ DOMAIN q \in SUBSET DOMAIN q
      BY <2>1, <2>5
    <3>2. q \in Seq(Packet)
      BY <2>5
    <3> QED BY <3>1, <3>2, Places
  <2> HIDE DEF h
  <2>7. last < h
    BY <2>3, <2>4
  <2>8. \A g \in Nat : Slot(g, last) =>
          Slot(g, h) /\ Apart(g, h) /\ Apart(h, g) /\ g < h
    <3> SUFFICES ASSUME NEW g \in Nat, g > 0, g % PERIOD = 0, g <= last
                 PROVE  g <= h /\ g + PERIOD <= h /\ g < h
      BY DEF Slot, Apart
    <3> QED BY <2>3, <2>4
  <2>9. \A i \in DOMAIN nodes : nodes[i].gps \in Nat
    <3>1. \A i \in DOMAIN nodes : nodes[i] \in Packet
      BY <1>3
    <3> QED BY <3>1, BeaconAssumption DEF Packet
  <2>10. aired < h /\ Taken < h /\ (rpc = "taken" /\ rpkt.gps > 0 => Slot(rpkt.gps, h))
    <3>1. aired < h
      BY <2>3, <2>7 DEF SlotInv
    <3>2. ASSUME rpc = "taken"
          PROVE  rpkt.gps < h /\ (rpkt.gps > 0 => Slot(rpkt.gps, h))
      <4>1. rpkt \in Packet
        BY <3>2 DEF TypeInv
      <4>2. rpkt.gps \in Nat
        BY <4>1, BeaconAssumption DEF Packet
      <4>3. rpkt.gps > 0 => Slot(rpkt.gps, last)
        BY <3>2 DEF SlotInv
      <4> QED BY <2>3, <2>4, <2>8, <4>2, <4>3
    <3> QED BY <2>4, <3>1, <3>2 DEF Taken
  <2>11. \A a \in DOMAIN q : q[a].gps > 0 =>
           /\ q[a].type = "BEACON" /\ Slot(q[a].gps, h)
           /\ Later(q[a], now, aired) /\ Later(q[a], now, Taken)
    <3>1. ASSUME NEW a \in DOMAIN nodes, nodes[a].gps > 0
          PROVE  /\ nodes[a].type = "BEACON" /\ Slot(nodes[a].gps, h)
                 /\ Later(nodes[a], now, aired) /\ Later(nodes[a], now, Taken)
      <4>1. Slot(nodes[a].gps, last)
        BY <3>1 DEF SlotInv
      <4>2. Slot(nodes[a].gps, h)
        BY <2>8, <2>9, <4>1
      <4> QED BY <3>1, <4>2 DEF SlotInv
    <3>2. Slot(h, h)
      BY <2>3, <2>4 DEF Slot
    <3>3. Later(p, now, aired) /\ Later(p, now, Taken)
      BY <2>10 DEF h, Later
    <3> QED BY <2>2, <2>5, <3>1, <3>2, <3>3 DEF h
  <2>12. \A a, b \in DOMAIN q : a # b /\ q[a].gps > 0 /\ q[b].gps > 0 =>
           Apart(q[a].gps, q[b].gps)
    <3>1. \A a, b \in DOMAIN nodes : a # b /\ nodes[a].gps > 0 /\ nodes[b].gps > 0 =>
            Apart(nodes[a].gps, nodes[b].gps)
      BY DEF SlotInv
    <3>2. ASSUME NEW a \in DOMAIN nodes, nodes[a].gps > 0
          PROVE  Apart(nodes[a].gps, h) /\ Apart(h, nodes[a].gps)
      BY <2>8, <2>9, <3>2 DEF SlotInv
    <3> QED BY <2>5, <3>1, <3>2 DEF h
  <2>13. \A i \in DOMAIN nodes' : nodes'[i].gps > 0 =>
           /\ nodes'[i].type = "BEACON" /\ Slot(nodes'[i].gps, h)
           /\ Later(nodes'[i], now, aired) /\ Later(nodes'[i], now, Taken)
    BY <2>6, <2>11
  <2>14. \A i, j \in DOMAIN nodes' :
           i # j /\ nodes'[i].gps > 0 /\ nodes'[j].gps > 0 =>
             Apart(nodes'[i].gps, nodes'[j].gps)
    BY <2>6, <2>12
  <2>15. MemoryStale => NeverOdd'
    <3>1. \A a \in DOMAIN q : q[a] = p \/ (a \in DOMAIN nodes /\ q[a] = nodes[a])
      BY <2>5
    <3>2. ASSUME MemoryStale PROVE \A a \in DOMAIN q : ~q[a].odd
      BY <1>1, <2>2, <3>1, <3>2 DEF SlotInv, NeverOdd
    <3> QED BY <1>1, <1>2, <2>6, <3>2 DEF SlotInv, NeverOdd
  <2>16. last' = h /\ h % PERIOD = 0 /\ aired <= h /\ h \in Nat
    BY <2>3, <2>4, <2>10
  <2>17. UNCHANGED <<now, aired, rpc, rpkt, Taken>>
    BY <1>1 DEF Taken
  <2>18. rpc = "taken" /\ rpkt.gps > 0 => aired < rpkt.gps
    BY DEF SlotInv
  <2> QED
    BY <1>2, <2>3, <2>10, <2>13, <2>14, <2>15, <2>16, <2>17, <2>18 DEF SlotInv
<1>5. CASE UNCHANGED <<nodes, last>>
  BY <1>1, <1>2, <1>5 DEF SlotInv, NeverOdd
<1> QED BY <1>4, <1>5 DEF Enqueue

\* Of two queued beacons that are not past the later one is not due.
LEMMA DueIsFirst ==
  ASSUME OneTurn, SlotsApart, TypeInv, TimeInv, SlotInv,
         NEW i \in Due(nodes, Count(now)), NEW j \in DOMAIN nodes, i # j,
         nodes[i].gps > 0, nodes[j].gps > 0
  PROVE  When(nodes[j].count) < now \/ nodes[i].gps < nodes[j].gps
<1>1. /\ i \in DOMAIN nodes /\ now <= When(nodes[i].count)
      /\ When(nodes[i].count) - now < TX_JIT_DELAY
  BY DueIsAhead
<1>2. nodes[i] \in Packet /\ nodes[j] \in Packet /\ now \in Nat
  BY <1>1, BeaconAssumption DEF TypeInv, TypeOK
<1>3. CASE JIT_NUM_BEACON_IN_QUEUE <= 1
  <2>1. i \in BeaconSlots(nodes) /\ j \in BeaconSlots(nodes)
    BY <1>1 DEF SlotInv, BeaconSlots
  <2>2. nodes \in Seq(Packet) /\ Len(nodes) \in Nat /\ DOMAIN nodes = 1 .. Len(nodes)
        /\ Cardinality(BeaconSlots(nodes)) <= JIT_NUM_BEACON_IN_QUEUE
    BY DEF TypeInv, TypeOK
  <2>3. IsFiniteSet(BeaconSlots(nodes))
    <3>1. IsFiniteSet(1 .. Len(nodes))
      BY <2>2, IndexRange
    <3>2. BeaconSlots(nodes) \in SUBSET (1 .. Len(nodes))
      BY <2>2 DEF BeaconSlots
    <3> QED BY <3>1, <3>2, FS_Subset
  <2>4. IsFiniteSet({i, j}) /\ Cardinality({i, j}) = 2
    <3>1. IsFiniteSet({i}) /\ Cardinality({i}) = 1
      BY FS_Singleton
    <3>2. {i, j} = {i} \cup {j} /\ j \notin {i}
      OBVIOUS
    <3>3. IsFiniteSet({i} \cup {j}) /\ Cardinality({i} \cup {j}) = Cardinality({i}) + 1
      BY <3>1, <3>2, FS_AddElement
    <3> QED BY <3>1, <3>2, <3>3
  <2>5. Cardinality({i, j}) <= Cardinality(BeaconSlots(nodes))
    <3>1. {i, j} \in SUBSET BeaconSlots(nodes)
      BY <2>1
    <3> QED BY <2>3, <3>1, FS_Subset
  <2>6. Cardinality(BeaconSlots(nodes)) \in Nat
    BY <2>3, FS_CardinalityType
  <2> QED BY <1>3, <2>2, <2>4, <2>5, <2>6, BeaconAssumption
<1>4. CASE MemoryStale /\ TX_JIT_DELAY < PERIOD
  <2>1. ~nodes[i].odd /\ ~nodes[j].odd
    BY <1>1, <1>4 DEF SlotInv, NeverOdd
  <2> DEFINE g == nodes[i].gps
             c == When(nodes[i].count)
             h == nodes[j].gps
             d == When(nodes[j].count)
  <2>2. /\ g \in Nat /\ c \in Nat /\ h \in Nat /\ d \in Nat
        /\ TX_JIT_DELAY \in Nat /\ PERIOD \in Nat
    BY <1>2, WhenType, BeaconAssumption, JitAssumption DEF Packet
  <2>3. /\ c - g \in 0 .. 1 \/ c < now
        /\ d - h \in 0 .. 1 \/ d < now
    BY <1>1, <2>1 DEF TimeInv, Exact
  <2>4. g + PERIOD <= h \/ h + PERIOD <= g
    BY <1>1 DEF SlotInv, Apart
  <2>5. now <= c /\ c - now < TX_JIT_DELAY
    BY <1>1
  <2> HIDE DEF g, c, h, d
  <2>6. d < now \/ g < h
    BY <1>2, <1>4, <2>2, <2>3, <2>4, <2>5
  <2> QED BY <2>6 DEF d, g, h
<1> QED BY <1>3, <1>4 DEF SlotsApart

LEMMA PollSlot ==
  ASSUME OneTurn, SlotsApart, TypeInv, TimeInv, SlotInv, Poll, misread' = 0
  PROVE  SlotInv'
<1>1. UNCHANGED <<valid, synced, now, bpc, last, aired, next>>
  BY DEF Poll, gpsVars, checkVars, beaconVars
<1>2. PICK K \in SUBSET DOMAIN nodes :
        /\ nodes' \in Arrange(nodes, K)
        /\ \/ rpc = "wait" /\ UNCHANGED <<rpc, rpkt>>
           \/ \E i \in Due(nodes, Count(now)) :
                rpc' = "taken" /\ rpkt' = nodes[i] /\ i \notin K
  BY PollCases
<1>3. nodes \in Seq(Packet)
  BY DEF TypeInv, TypeOK
<1>4. \A i, j \in DOMAIN nodes' : \E a, b \in K :
        nodes'[i] = nodes[a] /\ nodes'[j] = nodes[b] /\ (i # j => a # b)
  BY <1>2, <1>3, Places
<1>5. MemoryStale => NeverOdd'
  BY <1>1, <1>4 DEF SlotInv, NeverOdd
<1>6. \A i, j \in DOMAIN nodes' :
        i # j /\ nodes'[i].gps > 0 /\ nodes'[j].gps > 0 =>
          Apart(nodes'[i].gps, nodes'[j].gps)
  BY <1>4 DEF SlotInv
<1>7. \A j \in K : nodes[j].gps > 0 => Later(nodes[j], now, Taken')
  <2> SUFFICES ASSUME NEW j \in K, nodes[j].gps > 0
               PROVE  Later(nodes[j], now, Taken')
    OBVIOUS
  <2>1. CASE rpc = "wait" /\ UNCHANGED <<rpc, rpkt>>
    BY <2>1 DEF Taken, Later
  <2>2. CASE \E i \in Due(nodes, Count(now)) :
               rpc' = "taken" /\ rpkt' = nodes[i] /\ i \notin K
    <3>1. PICK i \in Due(nodes, Count(now)) :
            rpc' = "taken" /\ rpkt' = nodes[i] /\ i \notin K
      BY <2>2
    <3>2. Taken' = nodes[i].gps
      BY <3>1 DEF Taken
    <3>3. i \in DOMAIN nodes /\ nodes[i].gps \in Nat
      <4>1. i \in DOMAIN nodes /\ nodes[i] \in Packet
        BY DueIsAhead
      <4> QED BY <4>1, BeaconAssumption DEF Packet
    <3>4. CASE nodes[i].gps > 0
      <4>1. When(nodes[j].count) < now \/ nodes[i].gps < nodes[j].gps
        BY <3>1, <3>4, DueIsFirst
      <4> QED BY <3>2, <4>1 DEF Later
    <3>5. CASE ~(nodes[i].gps > 0)
      <4>1. Taken' = 0
        BY <3>2, <3>3, <3>5
      <4> QED BY <4>1 DEF Later
    <3> QED BY <3>4, <3>5
  <2> QED BY <1>2, <2>1, <2>2
<1>8. \A i \in DOMAIN nodes' : nodes'[i].gps > 0 =>
        /\ nodes'[i].type = "BEACON" /\ Slot(nodes'[i].gps, last)
        /\ Later(nodes'[i], now, aired) /\ Later(nodes'[i], now, Taken')
  BY <1>4, <1>7 DEF SlotInv
<1>9. rpc' = "taken" /\ rpkt'.gps > 0 => Slot(rpkt'.gps, last) /\ aired < rpkt'.gps
  <2> SUFFICES ASSUME rpc' = "taken", rpkt'.gps > 0
               PROVE  Slot(rpkt'.gps, last) /\ aired < rpkt'.gps
    OBVIOUS
  <2>1. PICK i \in Due(nodes, Count(now)) : rpkt' = nodes[i]
    BY <1>2
  <2>2. /\ i \in DOMAIN nodes /\ now <= When(nodes[i].count)
        /\ now \in Nat /\ When(nodes[i].count) \in Nat
    BY DueIsAhead
  <2>3. ~(When(nodes[i].count) < now)
    BY <2>2
  <2> QED BY <2>1, <2>2, <2>3 DEF SlotInv, Later
<1> QED BY <1>1, <1>5, <1>6, <1>8, <1>9 DEF SlotInv

LEMMA NextSlotInv ==
  ASSUME OneTurn, SlotsApart
  PROVE  TypeInv /\ (misread = 0 => TimeInv) /\ (misread = 0 => SlotInv) /\ [Next]_vars
           => (misread = 0 => SlotInv)'
<1> SUFFICES ASSUME TypeInv, misread = 0 => TimeInv, misread = 0 => SlotInv, [Next]_vars,
                    misread' = 0
             PROVE  SlotInv'
  OBVIOUS
<1>1. TimeInv /\ SlotInv
  BY NeverFewer
<1> QED
  BY <1>1, QuietSlot, TickSlot, TransmitSlot, ComputeSlot, EnqueueSlot, SubmitSlot, PollSlot
     DEF Next

\* BeaconSlot: the beacons that jitRunner() takes are on multiples of the period
\* and each is later than those handed to the radio before it, although every
\* refusal moves a slot and missed beacons stay in the queue; as long as no
\* reading of the counter has failed.
THEOREM SlotsInTurn ==
  ASSUME MemoryTells, OneTurn, SlotsApart
  PROVE  Spec => []BeaconSlot
<1>1. (misread = 0 => SlotInv) => BeaconSlot
  BY DEF SlotInv, Slot, BeaconSlot
<1>2. Init => (misread = 0 => TimeInv) /\ (misread = 0 => SlotInv)
  BY InitTime, InitSlot
<1> QED BY TypeInvariant, <1>2, NextTime, NextSlotInv, <1>1, PTL DEF Spec
=============================================================================
