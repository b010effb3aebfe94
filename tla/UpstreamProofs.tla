--------------------------- MODULE UpstreamProofs ---------------------------
(***************************************************************************)
(* The properties of Upstream, for every number of packets and of starts,  *)
(* every period of the counter and every number of wraps counted. In five  *)
(* parts: the time of a packet (ClockInv); the order of the packets that   *)
(* wait, by where they wait: in the batch, in rx_buffer, in the FIFO       *)
(* (OrderInv); that they are those held (WaitInv); that what is fetched    *)
(* together was heard together, so that a packet that gives way to another *)
(* does so to a later one of its batch (SolidInv, TakenInv); and the       *)
(* measurements and the metadata (CountInv, RestInv).                      *)
(***************************************************************************)
EXTENDS Upstream, SequenceTheorems, FiniteSetTheorems, TLAPS

\* The two turns next to a turn, without the remainder.
LEMMA ModSmall ==
  ASSUME NEW m \in Nat \ {0}, NEW a \in 0 .. m-1 PROVE a % m = a
  BY SMT

LEMMA ModOver ==
  ASSUME NEW m \in Nat \ {0} PROVE m % m = 0
  BY SMT

LEMMA ModUnder ==
  ASSUME NEW m \in Nat \ {0} PROVE (-1) % m = m - 1
  BY SMT

LEMMA DivMod ==
  ASSUME NEW m \in Nat \ {0}, NEW a \in Nat PROVE (a \div m) * m + (a % m) = a
  BY SMT

-----------------------------------------------------------------------------
LEMMA TimeFacts ==
  ASSUME NEW t \in Time
  PROVE  /\ Later(t) \in Time /\ LastTurn(t) \in Time
         /\ LastTurn(t) = [wrap |-> IF t.wrap = 0 THEN WRAPS-1 ELSE t.wrap-1, cnt |-> t.cnt]
         /\ Later(t) = IF t.cnt = PERIOD-1
                       THEN [wrap |-> IF t.wrap = WRAPS-1 THEN 0 ELSE t.wrap+1, cnt |-> 0]
                       ELSE [wrap |-> t.wrap, cnt |-> t.cnt + 1]
<1>1. /\ WRAPS \in Nat \ {0, 1} /\ PERIOD \in Nat \ {0}
      /\ t.wrap \in 0 .. WRAPS-1 /\ t.cnt \in 0 .. PERIOD-1
      /\ t = [wrap |-> t.wrap, cnt |-> t.cnt]
  BY TimestampAssumption DEF Time, Count
<1>2. (t.wrap + 1) % WRAPS = IF t.wrap = WRAPS-1 THEN 0 ELSE t.wrap + 1
  <2>1. CASE t.wrap = WRAPS-1
    BY <1>1, <2>1, ModOver
  <2>2. CASE t.wrap # WRAPS-1
    <3>1. t.wrap + 1 \in 0 .. WRAPS-1
      BY <1>1, <2>2
    <3> QED BY <1>1, <2>2, <3>1, ModSmall
  <2> QED BY <2>1, <2>2
<1>3. (t.wrap - 1) % WRAPS = IF t.wrap = 0 THEN WRAPS-1 ELSE t.wrap - 1
  <2>1. CASE t.wrap = 0
    <3>1. t.wrap - 1 = -1
      BY <2>1
    <3> QED BY <1>1, <2>1, <3>1, ModUnder
  <2>2. CASE t.wrap # 0
    <3>1. t.wrap - 1 \in 0 .. WRAPS-1
      BY <1>1, <2>2
    <3> QED BY <1>1, <2>2, <3>1, ModSmall
  <2> QED BY <2>1, <2>2
<1>4. LastTurn(t) = [wrap |-> (t.wrap - 1) % WRAPS, cnt |-> t.cnt]
  BY DEF LastTurn
<1>5. Later(t) = IF t.cnt = PERIOD-1 THEN [wrap |-> (t.wrap + 1) % WRAPS, cnt |-> 0]
                 ELSE [wrap |-> t.wrap, cnt |-> t.cnt + 1]
  BY DEF Later
<1> QED BY <1>1, <1>2, <1>3, <1>4, <1>5 DEF Time, Count

\* A read that was not cut by a carry gives the count.
LEMMA WholeRead ==
  ASSUME NEW t \in Time
  PROVE  Bytes(t, t).msb * LOW + Bytes(t, t).low = t.cnt
<1>1. LOW \in Nat \ {0} /\ t.cnt \in Nat
  BY TimestampAssumption DEF Time, Count
<1>2. Bytes(t, t).msb = t.cnt \div LOW /\ Bytes(t, t).low = t.cnt % LOW
  BY DEF Bytes
<1> QED BY <1>1, <1>2, DivMod

\* The second read shows a carry in the first one: what is taken is the count
\* before or after the step of time that passes during the reads.
LEMMA CounterGetExact ==
  ASSUME NEW t \in Time
  PROVE  /\ CounterGet(t, 6) = t.cnt
         /\ CounterGets(t) \subseteq {t.cnt, Later(t).cnt}
<1> DEFINE u == Later(t)
<1>1. u \in Time
  BY TimeFacts
<1>2. Bytes(t, t).msb * LOW + Bytes(t, t).low = t.cnt
  BY WholeRead
<1>3. Bytes(u, u).msb * LOW + Bytes(u, u).low = u.cnt
  BY <1>1, WholeRead
<1>4. \A k \in 0 .. 6 : Sample(t, k, 1) = (IF 1 <= k THEN t ELSE u)
                     /\ Sample(t, k, 2) = (IF 2 <= k THEN t ELSE u)
                     /\ Sample(t, k, 3) = (IF 3 <= k THEN t ELSE u)
                     /\ Sample(t, k, 4) = (IF 4 <= k THEN t ELSE u)
                     /\ Sample(t, k, 5) = (IF 5 <= k THEN t ELSE u)
                     /\ Sample(t, k, 6) = (IF 6 <= k THEN t ELSE u)
  BY DEF Sample
<1>5. \A k : /\ Read(t, k, 1) = Bytes(Sample(t, k, 1), Sample(t, k, 2))
            /\ Read(t, k, 2) = Bytes(Sample(t, k, 3), Sample(t, k, 4))
            /\ Read(t, k, 3) = Bytes(Sample(t, k, 5), Sample(t, k, 6))
  BY DEF Read
<1>6. \A a, b, c : (Bytes(a, b).msb = Bytes(a, c).msb) /\ Bytes(a, b).low = Bytes(c, b).low
  BY DEF Bytes
<1> HIDE DEF u
<1>7. ASSUME NEW k \in 0 .. 6
      PROVE  CounterGet(t, k) \in {t.cnt, u.cnt} /\ (k = 6 => CounterGet(t, k) = t.cnt)
  <2>1. CASE k = 0
    BY <2>1, <1>4, <1>5, <1>3 DEF CounterGet
  <2>2. CASE k = 1
    <3>1. Read(t, k, 1) = Bytes(t, u) /\ Read(t, k, 2) = Bytes(u, u) /\ Read(t, k, 3) = Bytes(u, u)
      BY <2>2, <1>4, <1>5
    <3>2. CASE Read(t, k, 1).msb # Read(t, k, 2).msb
      BY <2>2, <3>1, <3>2, <1>3 DEF CounterGet
    <3>3. CASE Read(t, k, 1).msb = Read(t, k, 2).msb
      <4>1. Bytes(t, u).msb = Bytes(u, u).msb /\ Bytes(t, u).low = Bytes(u, u).low
        BY <3>1, <3>3, <1>6
      <4> QED BY <2>2, <3>1, <3>3, <4>1, <1>3 DEF CounterGet
    <3> QED BY <3>2, <3>3, <2>2
  <2>3. CASE k \in 2 .. 4
    <3>1. Read(t, k, 1) = Bytes(t, t) /\ Read(t, k, 3) = Bytes(u, u)
      BY <2>3, <1>4, <1>5
    <3> QED BY <2>3, <3>1, <1>2, <1>3 DEF CounterGet
  <2>4. CASE k \in 5 .. 6
    <3>1. Read(t, k, 1) = Bytes(t, t) /\ Read(t, k, 2) = Bytes(t, t)
      BY <2>4, <1>4, <1>5
    <3> QED BY <2>4, <3>1, <1>2 DEF CounterGet
  <2> QED BY <2>1, <2>2, <2>3, <2>4
<1> QED BY <1>7 DEF CounterGets, u

-----------------------------------------------------------------------------
\* Times less than a period apart.
LEMMA WithinNow ==
  ASSUME NEW t \in Time, NEW u \in Time
  PROVE  /\ Within(t, t)
         /\ Within(t, u) /\ Elapsed(t, u) < PERIOD-1 => Within(t, Later(u))
<1>1. PERIOD \in Nat \ {0} /\ WRAPS \in Nat \ {0, 1}
  BY TimestampAssumption
<1>2. /\ t.wrap \in 0 .. WRAPS-1 /\ t.cnt \in 0 .. PERIOD-1
      /\ u.wrap \in 0 .. WRAPS-1 /\ u.cnt \in 0 .. PERIOD-1
  BY DEF Time, Count
<1>3. \A v \in Time : LastTurn(v).wrap = IF v.wrap = 0 THEN WRAPS-1 ELSE v.wrap-1
  BY TimeFacts
<1>4. Within(t, u) <=>
        t.wrap = IF t.cnt <= u.cnt THEN u.wrap
                 ELSE IF u.wrap = 0 THEN WRAPS-1 ELSE u.wrap-1
  BY <1>3 DEF Within
<1>5. Later(u) \in Time /\ Within(t, Later(u)) <=>
        t.wrap = IF t.cnt <= Later(u).cnt THEN Later(u).wrap
                 ELSE IF Later(u).wrap = 0 THEN WRAPS-1 ELSE Later(u).wrap-1
  BY <1>3, TimeFacts DEF Within
<1>6. CASE u.cnt = PERIOD-1
  <2>1. Later(u).wrap = (IF u.wrap = WRAPS-1 THEN 0 ELSE u.wrap+1) /\ Later(u).cnt = 0
    BY <1>6, TimeFacts
  <2> QED BY <1>1, <1>2, <1>4, <1>5, <1>6, <2>1 DEF Elapsed, Within
<1>7. CASE u.cnt # PERIOD-1
  <2>1. Later(u).wrap = u.wrap /\ Later(u).cnt = u.cnt + 1
    BY <1>7, TimeFacts
  <2> QED BY <1>1, <1>2, <1>4, <1>5, <1>7, <2>1 DEF Elapsed, Within
<1> QED BY <1>6, <1>7

\* A counter read less than a period after the last read sees each wrap once.
LEMMA UpdateExact ==
  ASSUME NEW c \in Time, NEW u \in Time, Within(c, u)
  PROVE  CounterUpdate(c, u.cnt) = u
<1>1. /\ c.wrap \in 0 .. WRAPS-1 /\ c.cnt \in 0 .. PERIOD-1
      /\ u.wrap \in 0 .. WRAPS-1 /\ u.cnt \in 0 .. PERIOD-1
      /\ u = [wrap |-> u.wrap, cnt |-> u.cnt] /\ WRAPS \in Nat \ {0, 1}
      /\ PERIOD \in Nat \ {0}
  BY TimestampAssumption DEF Time, Count
<1>2. CASE c.cnt <= u.cnt
  BY <1>1, <1>2 DEF Within, CounterUpdate
<1>3. CASE u.cnt < c.cnt
  <2>1. c.wrap = IF u.wrap = 0 THEN WRAPS-1 ELSE u.wrap-1
    BY <1>1, <1>3, TimeFacts DEF Within
  <2>2. (c.wrap + 1) % WRAPS = u.wrap
    <3>1. CASE u.wrap = 0
      BY <1>1, <2>1, <3>1, ModOver
    <3>2. CASE u.wrap # 0
      BY <1>1, <2>1, <3>2, ModSmall
    <3> QED BY <3>1, <3>2
  <2> QED BY <1>1, <1>3, <2>2 DEF CounterUpdate
<1> QED BY <1>1, <1>2, <1>3

\* A packet received before the last read is extended to its own time; one
\* that may have been received after it to that or to one period earlier.
LEMMA ExpandExact ==
  ASSUME NEW c \in Time, NEW p \in Time, Within(p, c)
  PROVE  PktExpand(c, p.cnt) = p
<1>1. /\ c.cnt \in 0 .. PERIOD-1 /\ p.cnt \in 0 .. PERIOD-1 /\ PERIOD \in Nat
      /\ p = [wrap |-> p.wrap, cnt |-> p.cnt]
  BY TimestampAssumption DEF Time, Count
<1>2. [wrap |-> c.wrap, cnt |-> p.cnt] \in Time
  BY DEF Time, Count
<1>3. LastTurn([wrap |-> c.wrap, cnt |-> p.cnt]).wrap = LastTurn(c).wrap
  BY DEF LastTurn
<1>4. LastTurn([wrap |-> c.wrap, cnt |-> p.cnt]).cnt = p.cnt
  BY DEF LastTurn
<1>5. LastTurn([wrap |-> c.wrap, cnt |-> p.cnt]) = [wrap |-> LastTurn(c).wrap, cnt |-> p.cnt]
  BY <1>3, <1>4 DEF LastTurn
<1> QED BY <1>1, <1>5 DEF Within, PktExpand

LEMMA ExpandLate ==
  ASSUME NEW c \in Time, NEW p \in Time, NEW u \in Time, Within(p, u), Within(c, u)
  PROVE  PktExpand(c, p.cnt) \in {p, LastTurn(p)}
<1>1. /\ c.cnt \in 0 .. PERIOD-1 /\ p.cnt \in 0 .. PERIOD-1
      /\ u.cnt \in 0 .. PERIOD-1 /\ PERIOD \in Nat
      /\ p = [wrap |-> p.wrap, cnt |-> p.cnt]
  BY TimestampAssumption DEF Time, Count
<1>2. c.wrap = (IF c.cnt <= u.cnt THEN u.wrap ELSE LastTurn(u).wrap)
      /\ p.wrap = (IF p.cnt <= u.cnt THEN u.wrap ELSE LastTurn(u).wrap)
  BY DEF Within
<1>3. CASE c.wrap = p.wrap
  BY <1>1, <1>3 DEF PktExpand, LastTurn
<1>4. CASE p.wrap = u.wrap /\ c.wrap = LastTurn(u).wrap /\ c.wrap # p.wrap
  <2>1. c.cnt >= p.cnt
    BY <1>1, <1>2, <1>4
  <2>2. LastTurn(p) = [wrap |-> c.wrap, cnt |-> p.cnt]
    BY <1>4 DEF LastTurn
  <2> QED BY <2>1, <2>2 DEF PktExpand
<1>5. CASE p.wrap = LastTurn(u).wrap /\ c.wrap = u.wrap /\ c.wrap # p.wrap
  <2>1. ~(c.cnt >= p.cnt)
    BY <1>1, <1>2, <1>5
  <2>2. LastTurn([wrap |-> c.wrap, cnt |-> p.cnt]) = p
    BY <1>1, <1>5 DEF LastTurn
  <2> QED BY <2>1, <2>2 DEF PktExpand
<1> QED BY <1>2, <1>3, <1>4, <1>5

-----------------------------------------------------------------------------
\* The packets of s were received before time u, less than a period ago.
Recent(s, u) == \A i \in 1 .. Len(s) : Within(s[i].at, u)

\* The counter and the packets that wait lag the clock by less than a period;
\* after a read that has succeeded the packets fetched lag the counter too.
ClockInv ==
  /\ now \in Time /\ counter \in Time /\ late \in BOOLEAN /\ heard \in 0 .. PACKETS
  /\ fifo \in Seq(Packet) /\ rx \in Seq(Packet) /\ batch \in Seq(Parsed)
  /\ Within(counter, now)
  /\ Recent(fifo, now) /\ Recent(rx, now)
  /\ pc = "updated" /\ ~late => Recent(rx, counter)
  /\ pc # "serialize" => batch = << >>

Exact(b, l) ==
  \A i \in 1 .. Len(b) :
    \/ b[i].stamp = b[i].at
    \/ l /\ b[i].stamp = LastTurn(b[i].at)

IInv == ClockInv /\ Exact(batch, late)

LEMMA ExactIsStampExact == batch \in Seq(Parsed) => (Exact(batch, late) <=> StampExact)
<1> SUFFICES ASSUME batch \in Seq(Parsed) PROVE DOMAIN batch = 1 .. Len(batch)
  BY DEF Exact, StampExact
<1> QED BY LenProperties

LEMMA EmptyRecent ==
  ASSUME NEW u PROVE << >> \in Seq(Packet) /\ << >> \in Seq(Parsed) /\ Recent(<< >>, u)
  BY EmptySeq DEF Recent

\* What is left of a buffer is as recent as the buffer.
LEMMA SuffixRecent ==
  ASSUME NEW s \in Seq(Packet), NEW u, Recent(s, u), NEW k \in 1 .. Len(s) + 1
  PROVE  SubSeq(s, k, Len(s)) \in Seq(Packet) /\ Recent(SubSeq(s, k, Len(s)), u)
<1>1. Len(s) \in Nat /\ k \in Int
  BY LenProperties
<1>2. \A i \in k .. Len(s) : s[i] \in Packet
  BY <1>1, ElementOfSeq
<1>3. /\ SubSeq(s, k, Len(s)) \in Seq(Packet)
      /\ Len(SubSeq(s, k, Len(s))) = IF k <= Len(s) THEN Len(s)-k+1 ELSE 0
      /\ \A i \in 1 .. Len(s)-k+1 : SubSeq(s, k, Len(s))[i] = s[k+i-1]
  BY <1>1, <1>2, SubSeqProperties
<1>4. ASSUME NEW i \in 1 .. Len(SubSeq(s, k, Len(s)))
      PROVE  Within(SubSeq(s, k, Len(s))[i].at, u)
  <2>1. i \in 1 .. Len(s)-k+1 /\ k+i-1 \in 1 .. Len(s)
    BY <1>1, <1>3
  <2> QED BY <2>1, <1>3 DEF Recent
<1> QED BY <1>3, <1>4 DEF Recent

\* As time goes by.
LEMMA LaterRecent ==
  ASSUME now \in Time, NEW s \in Seq(Packet), Recent(s, now),
         \A i \in DOMAIN s : InTime(s[i].at)
  PROVE  Recent(s, Later(now))
<1>1. ASSUME NEW i \in 1 .. Len(s)
      PROVE  Within(s[i].at, Later(now))
  <2>1. s[i] \in Packet /\ i \in DOMAIN s
    BY ElementOfSeq, LenProperties
  <2>2. s[i].at \in Time /\ Within(s[i].at, now) /\ Elapsed(s[i].at, now) < PERIOD-1
    BY <2>1 DEF Packet, Recent, InTime
  <2> QED BY <2>2, WithinNow
<1> QED BY <1>1 DEF Recent

\* A successful read leaves the counter at the present or just before it, and
\* after every packet that has been received.
LEMMA ReadRecent ==
  ASSUME ClockInv, CounterRead
  PROVE  /\ now' \in Time /\ counter' \in Time /\ Within(counter', now')
         /\ Recent(fifo, now') /\ Recent(rx, now') /\ Recent(rx, counter')
<1>1. CASE counter' = CounterUpdate(counter, CounterGet(now, 6)) /\ UNCHANGED now
  <2>1. counter' = now
    BY <1>1, CounterGetExact, UpdateExact DEF ClockInv
  <2> QED BY <1>1, <2>1, WithinNow DEF ClockInv
<1>2. CASE /\ Timely
           /\ now' = Later(now)
           /\ \E inst \in CounterGets(now) : counter' = CounterUpdate(counter, inst)
  <2>1. now' \in Time /\ Within(now, now)
    BY <1>2, TimeFacts, WithinNow DEF ClockInv
  <2>2. Within(counter, now') /\ Recent(fifo, now') /\ Recent(rx, now')
    <3>1. Within(counter, now')
      BY <1>2, WithinNow DEF ClockInv, Timely, InTime
    <3>2. \A i \in DOMAIN fifo : InTime(fifo[i].at)
      BY <1>2 DEF Timely
    <3>3. \A i \in DOMAIN rx : InTime(rx[i].at)
      BY <1>2 DEF Timely
    <3> QED BY <1>2, <3>1, <3>2, <3>3, LaterRecent DEF ClockInv
  <2>3. PICK inst \in {now.cnt, Later(now).cnt} : counter' = CounterUpdate(counter, inst)
    BY <1>2, CounterGetExact DEF ClockInv
  <2>4. CASE inst = now'.cnt
    <3>1. counter' = now'
      BY <1>2, <2>1, <2>2, <2>3, <2>4, UpdateExact DEF ClockInv
    <3> QED BY <2>1, <2>2, <3>1, WithinNow
  <2>5. CASE inst = now.cnt
    <3>1. counter' = now
      BY <2>3, <2>5, UpdateExact DEF ClockInv
    <3>2. Within(now, now')
      <4>1. 0 < PERIOD-1
        BY <1>2, TimestampAssumption DEF Timely, InTime, Elapsed, ClockInv, Time, Count
      <4>2. Elapsed(now, now) = 0
        BY DEF Elapsed, ClockInv, Time, Count
      <4> QED BY <1>2, <2>1, <4>1, <4>2, WithinNow DEF ClockInv
    <3> QED BY <2>1, <2>2, <3>1, <3>2 DEF ClockInv
  <2> QED BY <1>2, <2>3, <2>4, <2>5
<1> QED BY <1>1, <1>2 DEF CounterRead

-----------------------------------------------------------------------------
LEMMA InitClock == Init => IInv
<1> SUFFICES ASSUME Init PROVE IInv
  OBVIOUS
<1>1. StartTime \in Time /\ PACKETS \in Nat
  BY TimestampAssumption, UpstreamAssumption DEF StartTime, Time, Count
<1>2. now = StartTime /\ counter = StartTime /\ Within(counter, now)
  BY <1>1, WithinNow DEF Init
<1>3. /\ fifo = << >> /\ rx = << >> /\ batch = << >> /\ late = FALSE
      /\ heard = 0 /\ pc = "top"
  BY DEF Init
<1>4. /\ fifo \in Seq(Packet) /\ rx \in Seq(Packet) /\ batch \in Seq(Parsed)
      /\ Recent(fifo, now) /\ Recent(rx, now)
  <2>1. << >> \in Seq(Packet) /\ << >> \in Seq(Parsed) /\ Recent(<< >>, now)
    BY EmptyRecent
  <2> QED BY <1>3, <2>1, Zenon
<1>5. now \in Time /\ counter \in Time /\ late \in BOOLEAN /\ heard \in 0 .. PACKETS
  <2>1. late \in BOOLEAN /\ now \in Time /\ counter \in Time
    BY <1>1, <1>2, <1>3, Zenon
  <2>2. heard \in 0 .. PACKETS
    BY <1>1, <1>3
  <2> QED BY <2>1, <2>2
<1>6. ClockInv
  BY <1>2, <1>3, <1>4, <1>5 DEF ClockInv
<1> QED BY <1>3, <1>6, EmptySeq DEF IInv, Exact

\* A step that leaves the clock and the buffers alone, and does not enter the
\* parsing of a batch.
LEMMA QuietStep ==
  ASSUME IInv, UNCHANGED <<clockVars, late, airVars, rx, batch>>,
         pc' = "updated" => pc = "updated", pc' # "serialize" => batch = << >>
  PROVE  IInv'
BY DEF IInv, ClockInv, Exact, Recent, clockVars, airVars

\* What the batch is parsed to.
LEMMA ParseExact ==
  ASSUME IInv, Parse
  PROVE  batch' \in Seq(Parsed) /\ Exact(batch', late')
<1>1. rx \in Seq(Packet) /\ DOMAIN rx = 1 .. Len(rx) /\ Len(rx) \in Nat /\ late' = late
  BY LenProperties DEF IInv, ClockInv, Parse
<1>2. ASSUME NEW i \in 1 .. Len(rx)
      PROVE  /\ batch'[i] \in Parsed
             /\ \/ batch'[i].stamp = batch'[i].at
                \/ late /\ batch'[i].stamp = LastTurn(batch'[i].at)
  <2> DEFINE p == rx[i]
  <2>1. p \in Packet /\ p.at \in Time /\ p.id \in Ids
    <3>1. p \in Packet
      BY <1>1, ElementOfSeq
    <3> QED BY <3>1 DEF Packet
  <2>2. batch'[i] = [id |-> p.id, at |-> p.at, stamp |-> PktExpand(counter, p.at.cnt)]
    BY <1>1 DEF Parse
  <2>3. Within(p.at, now) /\ Within(counter, now) /\ counter \in Time /\ now \in Time
    BY DEF IInv, ClockInv, Recent
  <2>4. ~late => Within(p.at, counter)
    BY DEF IInv, ClockInv, Recent, Parse
  <2> HIDE DEF p
  <2>5. PktExpand(counter, p.at.cnt) \in {p.at, LastTurn(p.at)}
    BY <2>1, <2>3, ExpandLate
  <2>6. ~late => PktExpand(counter, p.at.cnt) = p.at
    BY <2>1, <2>3, <2>4, ExpandExact
  <2>7. LastTurn(p.at) \in Time
    BY <2>1, TimeFacts
  <2>8. batch'[i] \in Parsed
    BY <2>1, <2>2, <2>5, <2>7 DEF Parsed
  <2> QED BY <2>2, <2>5, <2>6, <2>8 DEF IInv, ClockInv
<1>3. batch' = [i \in 1 .. Len(rx) |-> batch'[i]]
  BY <1>1 DEF Parse
<1>4. batch' \in Seq(Parsed) /\ Len(batch') = Len(rx)
  BY <1>1, <1>2, <1>3, IsASeq, LenProperties
<1> QED BY <1>1, <1>2, <1>4 DEF Exact

\* The rest of the batch is as exact as the batch.
LEMMA TailExact ==
  ASSUME IInv, batch # << >>, batch' = Tail(batch), UNCHANGED late
  PROVE  batch' \in Seq(Parsed) /\ Exact(batch', late')
<1>1. /\ Tail(batch) \in Seq(Parsed) /\ Len(Tail(batch)) = Len(batch)-1
      /\ \A i \in 1 .. Len(Tail(batch)) : Tail(batch)[i] = batch[i+1]
  BY HeadTailProperties DEF IInv, ClockInv
<1>2. Len(batch) \in Nat
  BY LenProperties DEF IInv, ClockInv
<1>3. ASSUME NEW i \in 1 .. Len(Tail(batch))
      PROVE  i+1 \in 1 .. Len(batch)
  BY <1>1, <1>2
<1> QED BY <1>1, <1>3 DEF Exact, IInv

-----------------------------------------------------------------------------
\* The steps that move packets or the clock.
LEMMA TickStep == ASSUME IInv, Tick PROVE IInv'
<1>1. now' = Later(now) /\ now' \in Time
  BY TimeFacts DEF Tick, IInv, ClockInv
<1>2. Within(counter, now')
  BY <1>1, WithinNow DEF Tick, Timely, InTime, IInv, ClockInv
<1>3. \A i \in DOMAIN fifo : InTime(fifo[i].at)
  BY DEF Tick, Timely
<1>4. \A i \in DOMAIN rx : InTime(rx[i].at)
  BY DEF Tick, Timely
<1>5. Recent(fifo, now') /\ Recent(rx, now')
  BY <1>1, <1>3, <1>4, LaterRecent DEF IInv, ClockInv
<1> QED BY <1>1, <1>2, <1>5 DEF Tick, IInv, ClockInv, Exact, Recent, airVars

LEMMA HearStep == ASSUME IInv, Hear PROVE IInv'
<1> DEFINE p == [id |-> heard + 1, at |-> now]
<1>1. p \in Packet /\ heard' \in 0 .. PACKETS
  BY UpstreamAssumption DEF Hear, IInv, ClockInv, Packet, Ids
<1>2. fifo' = Append(fifo, p)
  BY DEF Hear
<1>3. /\ fifo' \in Seq(Packet) /\ Len(fifo') = Len(fifo) + 1 /\ Len(fifo) \in Nat
      /\ \A i \in 1 .. Len(fifo) : fifo'[i] = fifo[i]
      /\ fifo'[Len(fifo) + 1] = p
  BY <1>1, <1>2, AppendProperties, LenProperties DEF IInv, ClockInv
<1>4. Recent(fifo', now)
  <2>1. Within(now, now) /\ p.at = now
    BY WithinNow DEF IInv, ClockInv
  <2> HIDE DEF p
  <2> QED BY <1>3, <2>1 DEF Recent, IInv, ClockInv
<1> QED BY <1>1, <1>3, <1>4 DEF Hear, IInv, ClockInv, Exact, Recent, clockVars

LEMMA FetchStep == ASSUME IInv, Fetch PROVE IInv'
<1>1. /\ fifo' \in Seq(Packet) /\ rx' \in Seq(Packet)
      /\ Recent(fifo', now) /\ Recent(rx', now)
  <2>1. CASE rx # << >>
    BY <2>1 DEF Fetch, IInv, ClockInv, Recent
  <2>2. CASE rx = << >>
    <3>1. PICK k \in 0 .. Len(fifo) : rx' = SubSeq(fifo, k + 1, Len(fifo)) /\ fifo' = << >>
      BY <2>2 DEF Fetch
    <3>2. k + 1 \in 1 .. Len(fifo) + 1
      BY <3>1, LenProperties DEF IInv, ClockInv
    <3>3. rx' \in Seq(Packet) /\ Recent(rx', now)
      BY <3>1, <3>2, SuffixRecent DEF IInv, ClockInv
    <3>4. fifo' \in Seq(Packet) /\ Recent(fifo', now)
      <4>1. << >> \in Seq(Packet) /\ Recent(<< >>, now)
        BY EmptyRecent
      <4> QED BY <3>1, <4>1, Zenon
    <3> QED BY <3>3, <3>4
  <2> QED BY <2>1, <2>2
<1> QED BY <1>1 DEF Fetch, IInv, ClockInv, Exact, clockVars

LEMMA UpdateStep == ASSUME IInv, Update PROVE IInv'
<1>1. /\ fifo' = fifo /\ rx' = rx /\ batch' = batch /\ heard' = heard
      /\ batch = << >> /\ pc' \in {"top", "updated"}
  BY DEF Update, airVars, IInv, ClockInv
<1>2. Exact(batch', late')
  BY <1>1, EmptySeq DEF Exact
<1>3. CASE CounterRead /\ late' = FALSE
  <2>1. /\ now' \in Time /\ counter' \in Time /\ Within(counter', now')
        /\ Recent(fifo, now') /\ Recent(rx, now') /\ Recent(rx, counter')
    BY <1>3, ReadRecent DEF IInv
  <2> QED BY <1>1, <1>2, <1>3, <2>1 DEF IInv, ClockInv
<1>4. CASE UNCHANGED clockVars /\ late' = TRUE
  BY <1>1, <1>2, <1>4 DEF IInv, ClockInv, clockVars
<1> QED BY <1>3, <1>4 DEF Update

LEMMA GetInstcntStep == ASSUME IInv, GetInstcnt PROVE IInv'
<1>1. /\ now' \in Time /\ counter' \in Time /\ Within(counter', now')
      /\ Recent(fifo, now') /\ Recent(rx, now')
  BY ReadRecent DEF GetInstcnt, IInv
<1> QED BY <1>1 DEF GetInstcnt, IInv, ClockInv, Exact, airVars

LEMMA ParseStep ==
  ASSUME IInv, Parse \/ ParseWarning \/ ParseError PROVE IInv'
<1>1. << >> \in Seq(Packet) /\ << >> \in Seq(Parsed) /\ Recent(<< >>, now)
  BY EmptyRecent
<1>2. CASE Parse
  <2>1. batch' \in Seq(Parsed) /\ Exact(batch', late')
    BY <1>2, ParseExact
  <2>2. rx' \in Seq(Packet) /\ Recent(rx', now)
    BY <1>1, <1>2, Zenon DEF Parse
  <2> QED BY <1>2, <2>1, <2>2 DEF Parse, IInv, ClockInv, clockVars, airVars
<1>3. CASE ParseWarning
  <2>1. rx' = << >>
    BY <1>3 DEF ParseWarning, Cleared
  <2>2. rx' \in Seq(Packet) /\ Recent(rx', now)
    BY <1>1, <2>1, Zenon
  <2> QED BY <1>3, <2>2 DEF ParseWarning, IInv, ClockInv, Exact, clockVars, airVars
<1>4. CASE ParseError
  <2>1. PICK i \in DOMAIN rx : rx' = SubSeq(rx, i, Len(rx))
    BY <1>4 DEF ParseError
  <2>2. i \in 1 .. Len(rx) + 1
    BY <2>1, LenProperties DEF IInv, ClockInv
  <2>3. rx' \in Seq(Packet) /\ Recent(rx', now)
    BY <2>1, <2>2, SuffixRecent DEF IInv, ClockInv
  <2>4. batch' = << >> /\ batch' \in Seq(Parsed) /\ Exact(batch', late')
    BY <1>1, <1>4, EmptySeq DEF ParseError, Abort, Exact
  <2> QED BY <1>4, <2>3, <2>4 DEF ParseError, Abort, IInv, ClockInv, clockVars, airVars
<1> QED BY <1>2, <1>3, <1>4

LEMMA AbortStep ==
  ASSUME IInv, Abort, UNCHANGED <<clockVars, late, airVars, rx>> PROVE IInv'
<1>1. batch' = << >> /\ batch' \in Seq(Parsed) /\ Exact(batch', late')
  BY EmptyRecent, EmptySeq DEF Abort, Exact
<1> QED BY <1>1 DEF Abort, IInv, ClockInv, Recent, clockVars, airVars

LEMMA LookStep == ASSUME IInv, Filter \/ Take PROVE IInv'
<1>1. /\ batch # << >> /\ batch' = Tail(batch) /\ pc = "serialize" /\ pc' = pc
      /\ UNCHANGED <<clockVars, late, airVars, rx>>
  BY DEF Filter, Take
<1>2. batch' \in Seq(Parsed) /\ Exact(batch', late')
  BY <1>1, TailExact
<1> QED BY <1>1, <1>2 DEF IInv, ClockInv, Recent, clockVars, airVars

LEMMA RestartStep == ASSUME IInv, Restart PROVE IInv'
<1>1. StartTime \in Time
  BY TimestampAssumption DEF StartTime, Time, Count
<1>2. Within(StartTime, StartTime)
  BY <1>1, WithinNow
<1>3. << >> \in Seq(Packet) /\ << >> \in Seq(Parsed) /\ Recent(<< >>, StartTime)
  BY EmptyRecent
<1>4. /\ now' = StartTime /\ counter' = StartTime /\ late' = FALSE /\ heard' = heard
      /\ fifo' = << >> /\ rx' = << >> /\ batch' = << >> /\ pc' = "top"
  BY DEF Restart
<1>5. /\ fifo' \in Seq(Packet) /\ rx' \in Seq(Packet) /\ batch' \in Seq(Parsed)
      /\ Recent(fifo', now') /\ Recent(rx', now') /\ Within(counter', now')
  BY <1>2, <1>3, <1>4, Zenon
<1>6. Exact(batch', late')
  BY <1>4, EmptySeq DEF Exact
<1> QED BY <1>1, <1>4, <1>5, <1>6 DEF IInv, ClockInv

\* The inductive invariant behind StampExact, step by step.
LEMMA NextClock == IInv /\ [Next]_vars => IInv'
<1> SUFFICES ASSUME IInv, [Next]_vars PROVE IInv'
  OBVIOUS
<1>1. CASE Tick
  BY <1>1, TickStep
<1>2. CASE Hear
  BY <1>2, HearStep
<1>3. CASE GetInstcnt
  BY <1>3, GetInstcntStep
<1>4. CASE Fetch
  BY <1>4, FetchStep
<1>5. CASE FetchFails \/ TemperatureFails
  BY <1>5, AbortStep DEF FetchFails, TemperatureFails
<1>6. CASE Update
  BY <1>6, UpdateStep
<1>7. CASE Parse \/ ParseWarning \/ ParseError
  BY <1>7, ParseStep
<1>8. CASE Filter \/ Take
  BY <1>8, LookStep
<1>9. CASE Forward
  BY <1>9, QuietStep DEF Forward
<1>10. CASE Stop \/ Leave
  BY <1>10, QuietStep DEF Stop, Leave, IInv, ClockInv
<1>11. CASE Restart
  BY <1>11, RestartStep
<1>12. CASE UNCHANGED vars
  BY <1>12, QuietStep DEF vars, IInv, ClockInv
<1> QED
  BY <1>1, <1>2, <1>3, <1>4, <1>5, <1>6, <1>7, <1>8, <1>9, <1>10, <1>11, <1>12 DEF Next

\* The time of a packet is that of its reception, or one period earlier when
\* the counter could not be read (timestamp_pkt_expand), whatever the period.
THEOREM StampsAreExact == Spec => []StampExact
<1>1. IInv => StampExact
  BY ExactIsStampExact DEF IInv, ClockInv
<1> QED BY InitClock, NextClock, <1>1, PTL DEF Spec

-----------------------------------------------------------------------------
\* The order of the packets.

\* The packets of s come in the order of reception, after packet x, and all
\* before those of t.
Row(s)       == \A i, j \in 1 .. Len(s) : i < j => s[i].id < s[j].id
Ahead(x, s)  == \A i \in 1 .. Len(s) : x < s[i].id
Before(s, t) == \A i \in 1 .. Len(s) : Ahead(s[i].id, t)
Known(s, h)  == \A i \in 1 .. Len(s) : s[i].id \in 1 .. h

Pending == pc = "serialize" /\ inDgram

OrderInv ==
  /\ out \in Seq(Nat)
  /\ Row(batch) /\ Row(rx) /\ Row(fifo)
  /\ Known(batch, heard) /\ Known(rx, heard) /\ Known(fifo, heard)
  /\ Before(batch, fifo) /\ Before(rx, fifo)
  /\ pc = "serialize" => rx = << >>
  /\ \A k \in 1 .. Len(out) :
       /\ out[k] \in 1 .. heard
       /\ Ahead(out[k], batch) /\ Ahead(out[k], rx) /\ Ahead(out[k], fifo)
  /\ Pending => /\ payload \in 1 .. heard
                /\ Ahead(payload, batch) /\ Ahead(payload, fifo)
                /\ \A k \in 1 .. Len(out) : out[k] < payload

-----------------------------------------------------------------------------
LEMMA EmptyRow ==
  ASSUME NEW x, NEW s, NEW h
  PROVE  /\ Row(<< >>) /\ Ahead(x, << >>) /\ Known(<< >>, h)
         /\ Before(<< >>, s) /\ Before(s, << >>)
  BY EmptySeq DEF Row, Ahead, Known, Before

LEMMA InitOrder == Init => OrderInv
<1> SUFFICES ASSUME Init PROVE OrderInv
  OBVIOUS
<1>1. /\ fifo = << >> /\ rx = << >> /\ batch = << >> /\ out = << >> /\ pc = "top"
  BY DEF Init
<1>2. << >> \in Seq(Nat) /\ Len(<< >>) = 0
  BY EmptySeq
<1> QED BY <1>1, <1>2 DEF OrderInv, Pending, Row, Ahead, Known, Before

\* A step that leaves the packets where they are, with nothing pending after it.
LEMMA QuietOrder ==
  ASSUME OrderInv, UNCHANGED <<heard, out, fifo, rx, batch>>, pc' # "serialize"
  PROVE  OrderInv'
  BY DEF OrderInv, Pending, Row, Ahead, Known, Before

LEMMA SameOrder ==
  ASSUME OrderInv, UNCHANGED <<heard, out, fifo, rx, batch, pc, inDgram, payload>>
  PROVE  OrderInv'
  BY DEF OrderInv, Pending, Row, Ahead, Known, Before

\* A packet that is heard comes after all the others.
LEMMA AppendOrder ==
  ASSUME NEW S, NEW s \in Seq(S), NEW p \in S, NEW h \in Nat, p.id = h + 1,
         Row(s), Known(s, h)
  PROVE  /\ Row(Append(s, p)) /\ Known(Append(s, p), h + 1)
         /\ \A x \in 1 .. h : Ahead(x, s) => Ahead(x, Append(s, p))
<1> DEFINE t == Append(s, p)
<1>1. /\ Len(s) \in Nat /\ Len(t) = Len(s) + 1 /\ t[Len(s) + 1] = p
      /\ \A i \in 1 .. Len(s) : t[i] = s[i]
  BY AppendProperties, LenProperties
<1> HIDE DEF t
<1>2. \A i \in 1 .. Len(t) : i # Len(s) + 1 => i \in 1 .. Len(s) /\ t[i] = s[i]
  BY <1>1
<1>3. \A i \in 1 .. Len(s) : s[i].id \in 1 .. h
  BY DEF Known
<1>4. \A i \in 1 .. Len(t) : t[i].id \in 1 .. h + 1
  BY <1>1, <1>2, <1>3
<1>5. Known(t, h + 1)
  BY <1>4 DEF Known
<1>6. ASSUME NEW i \in 1 .. Len(t), NEW j \in 1 .. Len(t), i < j
      PROVE  t[i].id < t[j].id
  <2>1. i \in 1 .. Len(s) /\ t[i] = s[i]
    BY <1>1, <1>2, <1>6
  <2>2. CASE j = Len(s) + 1
    BY <1>1, <1>3, <2>1, <2>2
  <2>3. CASE j # Len(s) + 1
    BY <1>2, <1>6, <2>1, <2>3 DEF Row
  <2> QED BY <2>2, <2>3
<1>7. ASSUME NEW x \in 1 .. h, Ahead(x, s), NEW i \in 1 .. Len(t)
      PROVE  x < t[i].id
  BY <1>1, <1>2, <1>7 DEF Ahead
<1>8. Row(t)
  BY <1>6 DEF Row
<1>9. \A x \in 1 .. h : Ahead(x, s) => Ahead(x, t)
  BY <1>7 DEF Ahead
<1> QED BY <1>5, <1>8, <1>9 DEF t

LEMMA KnownLater ==
  ASSUME NEW s, NEW h \in Nat, Known(s, h)
  PROVE  Known(s, h + 1)
  BY DEF Known

LEMMA HearOrder == ASSUME IInv, OrderInv, Hear PROVE OrderInv'
<1> DEFINE p == [id |-> heard + 1, at |-> now]
<1>1. /\ heard \in Nat /\ heard' = heard + 1 /\ p.id = heard + 1
      /\ UNCHANGED <<out, rx, batch, pc, inDgram, payload>>
  BY UpstreamAssumption DEF Hear, IInv, ClockInv, resultVars, outerVars
<1>2. /\ p \in Packet /\ fifo \in Seq(Packet) /\ fifo' = Append(fifo, p)
  BY UpstreamAssumption DEF Hear, IInv, ClockInv, Packet, Ids
<1> HIDE DEF p
<1>3. Row(fifo) /\ Known(fifo, heard)
  BY DEF OrderInv
<1>4. /\ Row(fifo') /\ Known(fifo', heard + 1)
      /\ \A x \in 1 .. heard : Ahead(x, fifo) => Ahead(x, fifo')
  BY <1>1, <1>2, <1>3, AppendOrder
<1>5. Known(batch, heard + 1) /\ Known(rx, heard + 1)
  BY <1>1, KnownLater DEF OrderInv
<1>6. Before(batch, fifo') /\ Before(rx, fifo')
  BY <1>4 DEF OrderInv, Before, Known
<1>7. \A k \in 1 .. Len(out) : out[k] \in 1 .. heard + 1 /\ Ahead(out[k], fifo')
  BY <1>1, <1>4 DEF OrderInv
<1>8. Pending => payload \in 1 .. heard + 1 /\ Ahead(payload, fifo')
  BY <1>1, <1>4 DEF OrderInv
<1> QED BY <1>1, <1>4, <1>5, <1>6, <1>7, <1>8 DEF OrderInv, Pending

\* What is left of a sequence is in the order, and in the place, it was in.
LEMMA SuffixOrder ==
  ASSUME NEW S, NEW s \in Seq(S), NEW k \in 1 .. Len(s) + 1
  PROVE  LET t == SubSeq(s, k, Len(s))
         IN /\ Row(s) => Row(t)
            /\ \A h : Known(s, h) => Known(t, h)
            /\ \A x : Ahead(x, s) => Ahead(x, t)
            /\ \A u : Before(s, u) => Before(t, u)
<1> DEFINE t == SubSeq(s, k, Len(s))
<1>1. Len(s) \in Nat
  BY LenProperties
<1>2. \A i \in k .. Len(s) : s[i] \in S
  BY <1>1, ElementOfSeq
<1>3. /\ Len(t) = IF k <= Len(s) THEN Len(s)-k+1 ELSE 0
      /\ \A i \in 1 .. Len(s)-k+1 : t[i] = s[k+i-1]
  BY <1>1, <1>2, SubSeqProperties
<1> HIDE DEF t
<1>4. \A i \in 1 .. Len(t) : k+i-1 \in 1 .. Len(s) /\ t[i] = s[k+i-1]
  BY <1>1, <1>3
<1>5. \A i, j \in 1 .. Len(t) : i < j => k+i-1 < k+j-1
  BY <1>1, <1>3
<1>6. /\ Row(s) => Row(t)
      /\ \A h : Known(s, h) => Known(t, h)
      /\ \A x : Ahead(x, s) => Ahead(x, t)
      /\ \A u : Before(s, u) => Before(t, u)
  BY <1>4, <1>5 DEF Row, Known, Ahead, Before
<1> QED BY <1>6 DEF t

LEMMA FetchOrder == ASSUME IInv, OrderInv, Fetch PROVE OrderInv'
<1>1. UNCHANGED <<heard, out, batch>> /\ pc' = "fetched"
  BY DEF Fetch, outerVars
<1>2. CASE rx # << >>
  BY <1>1, <1>2, QuietOrder DEF Fetch
<1>3. CASE rx = << >>
  <2>1. PICK k \in 0 .. Len(fifo) : rx' = SubSeq(fifo, k + 1, Len(fifo)) /\ fifo' = << >>
    BY <1>3 DEF Fetch
  <2>2. fifo \in Seq(Packet) /\ k + 1 \in 1 .. Len(fifo) + 1
    BY <2>1, LenProperties DEF IInv, ClockInv
  <2>3. /\ Row(fifo) => Row(rx')
        /\ Known(fifo, heard) => Known(rx', heard)
        /\ \A x : Ahead(x, fifo) => Ahead(x, rx')
    BY <2>1, <2>2, SuffixOrder
  <2>4. /\ Row(fifo') /\ Known(fifo', heard)
        /\ Before(batch, fifo') /\ Before(rx', fifo') /\ \A x : Ahead(x, fifo')
    BY <2>1, EmptyRow
  <2> QED BY <1>1, <2>3, <2>4 DEF OrderInv, Pending
<1> QED BY <1>2, <1>3

\* A step after which the batch is empty and rx_buffer holds no more than before.
LEMMA DropOrder ==
  ASSUME OrderInv, UNCHANGED <<heard, out, fifo>>, batch' = << >>, pc' # "serialize",
         Row(rx'), Known(rx', heard), Before(rx', fifo),
         \A x : Ahead(x, rx) => Ahead(x, rx')
  PROVE  OrderInv'
<1>1. Row(batch') /\ Known(batch', heard) /\ Before(batch', fifo) /\ \A x : Ahead(x, batch')
  BY EmptyRow
<1> QED BY <1>1 DEF OrderInv, Pending

LEMMA AbortOrder ==
  ASSUME IInv, OrderInv, Abort, UNCHANGED <<heard, out, fifo, rx>>
  PROVE  OrderInv'
  BY DropOrder DEF Abort, OrderInv

\* A warning and an error of the parser leave a suffix of rx_buffer, or nothing.
LEMMA RefuseOrder ==
  ASSUME IInv, OrderInv, ParseWarning \/ ParseError
  PROVE  OrderInv'
<1>1. CASE ParseWarning
  <2>1. /\ UNCHANGED <<heard, out, fifo>> /\ rx' = << >> /\ pc' # "serialize"
        /\ batch' = << >>
    BY <1>1 DEF ParseWarning, Cleared, airVars, outerVars, IInv, ClockInv
  <2>2. Row(rx') /\ Known(rx', heard) /\ Before(rx', fifo) /\ \A x : Ahead(x, rx')
    BY <2>1, EmptyRow
  <2> QED BY <2>1, <2>2, DropOrder
<1>2. CASE ParseError
  <2>1. UNCHANGED <<heard, out, fifo>> /\ pc' # "serialize" /\ batch' = << >>
    BY <1>2 DEF ParseError, Abort, airVars, outerVars
  <2>2. PICK k \in DOMAIN rx : rx' = SubSeq(rx, k, Len(rx))
    BY <1>2 DEF ParseError
  <2>3. rx \in Seq(Packet) /\ k \in 1 .. Len(rx) + 1
    BY <2>2, LenProperties DEF IInv, ClockInv
  <2>4. /\ Row(rx) => Row(rx')
        /\ Known(rx, heard) => Known(rx', heard)
        /\ Before(rx, fifo) => Before(rx', fifo)
        /\ \A x : Ahead(x, rx) => Ahead(x, rx')
    BY <2>2, <2>3, SuffixOrder
  <2>5. Row(rx') /\ Known(rx', heard) /\ Before(rx', fifo)
    BY <2>4 DEF OrderInv
  <2> QED BY <2>1, <2>4, <2>5, DropOrder
<1> QED BY <1>1, <1>2

\* The batch is what rx_buffer held, and nothing is pending yet.
LEMMA ParseOrder == ASSUME IInv, OrderInv, Parse PROVE OrderInv'
<1>1. /\ UNCHANGED <<heard, out, fifo>> /\ rx' = << >> /\ inDgram' = FALSE
      /\ batch' = [i \in DOMAIN rx |-> [id |-> rx[i].id, at |-> rx[i].at,
                     stamp |-> PktExpand(counter, rx[i].at.cnt)]]
  BY DEF Parse, Begun, airVars, outerVars
<1>2. rx \in Seq(Packet) /\ batch' \in Seq(Parsed) /\ DOMAIN rx = 1 .. Len(rx)
  BY NextClock, LenProperties DEF Next, IInv, ClockInv
<1>3. Len(batch') = Len(rx)
  BY <1>1, <1>2, LenProperties
<1>4. \A i \in 1 .. Len(rx) : batch'[i].id = rx[i].id
  BY <1>1, <1>2
<1>5. /\ Row(rx) => Row(batch')
      /\ Known(rx, heard) => Known(batch', heard)
      /\ Before(rx, fifo) => Before(batch', fifo)
      /\ \A x : Ahead(x, rx) => Ahead(x, batch')
  BY <1>3, <1>4 DEF Row, Known, Before, Ahead
<1>6. Row(rx') /\ Known(rx', heard) /\ Before(rx', fifo) /\ \A x : Ahead(x, rx')
  BY <1>1, EmptyRow
<1> QED BY <1>1, <1>5, <1>6 DEF OrderInv, Pending

\* A packet looked at leaves the batch; when it is taken, it comes after all
\* that were forwarded and before all that are still in the batch.
LEMMA LookOrder == ASSUME IInv, OrderInv, Filter \/ Take PROVE OrderInv'
<1>1. /\ UNCHANGED <<heard, out, fifo, rx, pc>> /\ batch # << >>
      /\ batch' = Tail(batch) /\ pc = "serialize"
  BY DEF Filter, Take, airVars, outerVars
<1>2. batch \in Seq(Parsed) /\ Len(batch) \in Nat \ {0} /\ heard \in Nat
  BY <1>1, EmptySeq, LenProperties, UpstreamAssumption DEF IInv, ClockInv
<1>3. batch' = SubSeq(batch, 2, Len(batch)) /\ 2 \in 1 .. Len(batch) + 1
  BY <1>1, <1>2, TailIsSubSeq
<1>4. /\ Row(batch) => Row(batch')
      /\ Known(batch, heard) => Known(batch', heard)
      /\ Before(batch, fifo) => Before(batch', fifo)
      /\ \A x : Ahead(x, batch) => Ahead(x, batch')
  BY <1>2, <1>3, SuffixOrder
<1> DEFINE p == Head(batch).id
<1>5. /\ p \in 1 .. heard /\ Ahead(p, fifo)
      /\ \A k \in 1 .. Len(out) : out[k] < p
  <2>1. p = batch[1].id /\ 1 \in 1 .. Len(batch)
    BY <1>1, <1>2, HeadTailProperties
  <2> QED BY <2>1 DEF OrderInv, Known, Before, Ahead
<1>6. Ahead(p, batch')
  <2>1. p = batch[1].id
    BY <1>1, <1>2, HeadTailProperties
  <2>2. Len(batch') = Len(batch) - 1 /\ \A i \in 1 .. Len(batch') : batch'[i] = batch[i+1]
    BY <1>1, <1>2, HeadTailProperties
  <2>3. \A i \in 1 .. Len(batch') : i+1 \in 1 .. Len(batch) /\ 1 \in 1 .. Len(batch) /\ 1 < i+1
    BY <1>2, <2>2
  <2>4. \A i \in 1 .. Len(batch') : batch[1].id < batch[i+1].id
    BY <2>3 DEF OrderInv, Row
  <2> QED BY <2>1, <2>2, <2>4 DEF Ahead
<1> HIDE DEF p
<1>7. UNCHANGED <<payload, inDgram>> \/ payload' = p
  <2>1. \A kind \in Kinds \ Refused : kind # "range"
    BY DEF Kinds, Refused
  <2> QED BY <2>1 DEF Filter, Take, Replaced, p
<1>8. CASE UNCHANGED <<payload, inDgram>>
  BY <1>1, <1>4, <1>8 DEF OrderInv, Pending
<1>9. CASE payload' = p
  BY <1>1, <1>4, <1>5, <1>6, <1>9 DEF OrderInv, Pending
<1> QED BY <1>7, <1>8, <1>9

\* What is forwarded comes after all that was, and before all that waits.
LEMMA ForwardOrder == ASSUME IInv, OrderInv, Forward PROVE OrderInv'
<1>1. /\ UNCHANGED <<heard, fifo, rx, batch>> /\ pc' # "serialize"
      /\ batch = << >> /\ rx = << >>
  BY DEF Forward, airVars, OrderInv
<1>2. CASE ~inDgram
  BY <1>1, <1>2, QuietOrder DEF Forward
<1>3. CASE inDgram
  <2>1. out' = Append(out, payload)
    BY <1>3 DEF Forward
  <2>2. /\ out \in Seq(Nat) /\ heard \in Nat /\ payload \in 1 .. heard
        /\ Ahead(payload, fifo)
    BY <1>3, UpstreamAssumption DEF OrderInv, Pending, Forward, IInv, ClockInv
  <2>3. payload \in Nat
    BY <2>2
  <2>4. /\ out' \in Seq(Nat) /\ Len(out') = Len(out) + 1 /\ Len(out) \in Nat
        /\ \A k \in 1 .. Len(out) : out'[k] = out[k]
        /\ out'[Len(out) + 1] = payload
    BY <2>1, <2>2, <2>3, AppendProperties, LenProperties
  <2>5. \A k \in 1 .. Len(out') : \/ k \in 1 .. Len(out) /\ out'[k] = out[k]
                                 \/ out'[k] = payload
    BY <2>4
  <2>6. \A k \in 1 .. Len(out) : out[k] \in 1 .. heard /\ Ahead(out[k], fifo)
    BY DEF OrderInv
  <2>7. \A k \in 1 .. Len(out') : out'[k] \in 1 .. heard /\ Ahead(out'[k], fifo)
    BY <2>2, <2>5, <2>6
  <2>8. \A x : Ahead(x, << >>)
    BY EmptyRow
  <2> QED BY <1>1, <2>4, <2>7, <2>8 DEF OrderInv, Pending
<1> QED BY <1>2, <1>3

\* A new listener finds nothing that waits.
LEMMA RestartOrder == ASSUME OrderInv, Restart PROVE OrderInv'
<1>1. /\ UNCHANGED <<heard, out>> /\ pc' # "serialize"
      /\ fifo' = << >> /\ rx' = << >> /\ batch' = << >>
  BY DEF Restart
<1>2. /\ Row(<< >>) /\ Known(<< >>, heard) /\ Before(<< >>, << >>)
      /\ \A x : Ahead(x, << >>)
  BY EmptyRow
<1> QED BY <1>1, <1>2 DEF OrderInv, Pending

LEMMA NextOrder == IInv /\ OrderInv /\ [Next]_vars => OrderInv'
<1> SUFFICES ASSUME IInv, OrderInv, [Next]_vars PROVE OrderInv'
  OBVIOUS
<1>1. CASE Tick \/ GetInstcnt \/ Stop \/ UNCHANGED vars
  BY <1>1, SameOrder
  DEF Tick, GetInstcnt, Stop, vars, airVars, resultVars, outerVars
<1>2. CASE Hear
  BY <1>2, HearOrder
<1>3. CASE Fetch
  BY <1>3, FetchOrder
<1>4. CASE FetchFails \/ TemperatureFails
  BY <1>4, AbortOrder DEF FetchFails, TemperatureFails, airVars, outerVars
<1>5. CASE Update \/ Leave
  BY <1>5, QuietOrder DEF Update, Leave, airVars, outerVars
<1>6. CASE Parse
  BY <1>6, ParseOrder
<1>7. CASE ParseWarning \/ ParseError
  BY <1>7, RefuseOrder
<1>8. CASE Filter \/ Take
  BY <1>8, LookOrder
<1>9. CASE Forward
  BY <1>9, ForwardOrder
<1>10. CASE Restart
  BY <1>10, RestartOrder
<1> QED
  BY <1>1, <1>2, <1>3, <1>4, <1>5, <1>6, <1>7, <1>8, <1>9, <1>10 DEF Next

-----------------------------------------------------------------------------
\* Hearing a packet and forwarding the payload kept are the steps of
\* Forwarding; all the others leave what was heard and forwarded alone.
LEMMA StepForwards ==
  IInv /\ OrderInv /\ [Next]_vars => [Promised!Next]_(Promised!vars)
<1> SUFFICES ASSUME IInv, OrderInv, [Next]_vars
             PROVE  [Promised!Next]_(Promised!vars)
  OBVIOUS
<1>1. CASE Hear
  BY <1>1 DEF Hear, outerVars, Promised!Next, Promised!Hear
<1>2. CASE Forward /\ inDgram
  <2>1. /\ out' = Append(out, payload) /\ UNCHANGED heard /\ Pending
    BY <1>2 DEF Forward, airVars, Pending
  <2>2. /\ out \in Seq(Nat) /\ payload \in 1 .. heard
        /\ \A k \in 1 .. Len(out) : out[k] < payload
    BY <2>1 DEF OrderInv
  <2>3. \A k \in DOMAIN out : out[k] < payload
    BY <2>2, LenProperties
  <2> QED BY <2>1, <2>2, <2>3 DEF Promised!Next, Promised!Forward
<1>3. CASE Forward /\ ~inDgram
  BY <1>3 DEF Forward, airVars, Promised!vars
<1>4. CASE ~Hear /\ ~Forward
  <2>1. UNCHANGED <<heard, out>>
    BY <1>4 DEF Next, Tick, GetInstcnt, Fetch, FetchFails, Update, TemperatureFails,
      Parse, ParseWarning, ParseError, Filter, Take, Stop, Leave, Restart,
      airVars, outerVars, vars
  <2> QED BY <2>1 DEF Promised!vars
<1> QED BY <1>1, <1>2, <1>3, <1>4

\* Packets are forwarded at most once and in the order of reception
\* (upstreamRunner), however many there are and however often it restarts.
THEOREM ForwardsInOrder == Spec => InOrder
<1>1. Init => Promised!Init
  BY DEF Init, Promised!Init
<1> QED
  BY InitClock, NextClock, InitOrder, NextOrder, <1>1, StepForwards, PTL
  DEF Spec, InOrder, Promised!Spec

-----------------------------------------------------------------------------
\* The numbers of the packets of a sequence.
LEMMA IdsByPosition ==
  ASSUME NEW S, NEW s \in Seq(S)
  PROVE  \A x : x \in IdsOf(s) <=> \E i \in 1 .. Len(s) : x = s[i].id
<1>1. DOMAIN s = 1 .. Len(s)
  BY LenProperties
<1> QED BY <1>1, Zenon DEF IdsOf

LEMMA EmptyIds == IdsOf(<< >>) = {}
BY EmptySeq DEF IdsOf

\* The numbers of a sequence made of two parts.
LEMMA UnionIds ==
  ASSUME NEW S, NEW s \in Seq(S), NEW a \in Seq(S), NEW b \in Seq(S),
         Len(s) = Len(a) + Len(b),
         \A i \in 1 .. Len(a) : s[i] = a[i],
         \A i \in 1 .. Len(b) : s[Len(a) + i] = b[i]
  PROVE  \A x : x \in IdsOf(s) <=> x \in IdsOf(a) \/ x \in IdsOf(b)
<1>1. Len(s) \in Nat /\ Len(a) \in Nat /\ Len(b) \in Nat
  BY LenProperties
<1>2. \A x : x \in IdsOf(s) <=> \E i \in 1 .. Len(s) : x = s[i].id
  BY IdsByPosition, Zenon
<1>3. \A x : x \in IdsOf(a) <=> \E i \in 1 .. Len(a) : x = a[i].id
  BY IdsByPosition, Zenon
<1>4. \A x : x \in IdsOf(b) <=> \E i \in 1 .. Len(b) : x = b[i].id
  BY IdsByPosition, Zenon
<1>5. /\ \A i \in 1 .. Len(a) : i \in 1 .. Len(s)
      /\ \A i \in 1 .. Len(b) : Len(a) + i \in 1 .. Len(s)
  BY <1>1
<1>6. ASSUME NEW x \in IdsOf(s) PROVE x \in IdsOf(a) \/ x \in IdsOf(b)
  <2>1. PICK i \in 1 .. Len(s) : x = s[i].id
    BY <1>2
  <2>2. CASE i \in 1 .. Len(a)
    BY <1>3, <2>1, <2>2
  <2>3. CASE i \notin 1 .. Len(a)
    <3>1. i - Len(a) \in 1 .. Len(b) /\ Len(a) + (i - Len(a)) = i
      BY <1>1, <2>3
    <3>2. s[Len(a) + (i - Len(a))] = b[i - Len(a)]
      BY <3>1
    <3>3. x = b[i - Len(a)].id
      BY <2>1, <3>1, <3>2
    <3> QED BY <1>4, <3>1, <3>3
  <2> QED BY <2>2, <2>3
<1>7. ASSUME NEW x \in IdsOf(a) PROVE x \in IdsOf(s)
  BY <1>2, <1>3, <1>5
<1>8. ASSUME NEW x \in IdsOf(b) PROVE x \in IdsOf(s)
  BY <1>2, <1>4, <1>5
<1> QED BY <1>6, <1>7, <1>8, Zenon

LEMMA JoinIds ==
  ASSUME NEW S, NEW s \in Seq(S), NEW a \in Seq(S), NEW b \in Seq(S),
         Len(s) = Len(a) + Len(b),
         \A i \in 1 .. Len(a) : s[i] = a[i],
         \A i \in 1 .. Len(b) : s[Len(a) + i] = b[i]
  PROVE  /\ IdsOf(s) = IdsOf(a) \cup IdsOf(b)
         /\ \A h \in Nat : Row(s) /\ Known(s, h) => IdsOf(a) \cap IdsOf(b) = {}
<1>1. Len(s) \in Nat /\ Len(a) \in Nat /\ Len(b) \in Nat
  BY LenProperties
<1>2. \A x : x \in IdsOf(a) <=> \E i \in 1 .. Len(a) : x = a[i].id
  BY IdsByPosition, Zenon
<1>3. \A x : x \in IdsOf(b) <=> \E i \in 1 .. Len(b) : x = b[i].id
  BY IdsByPosition, Zenon
<1>4. /\ \A i \in 1 .. Len(a) : i \in 1 .. Len(s)
      /\ \A i \in 1 .. Len(b) : Len(a) + i \in 1 .. Len(s)
      /\ \A i \in 1 .. Len(a), j \in 1 .. Len(b) : i < Len(a) + j
  BY <1>1
<1>5. \A x : x \in IdsOf(s) <=> x \in IdsOf(a) \/ x \in IdsOf(b)
  BY UnionIds, Zenon
<1>6. ASSUME NEW h \in Nat, Row(s), Known(s, h) PROVE IdsOf(a) \cap IdsOf(b) = {}
  <2>1. ASSUME NEW i \in 1 .. Len(a), NEW j \in 1 .. Len(b) PROVE a[i].id # b[j].id
    <3>1. i \in 1 .. Len(s) /\ Len(a) + j \in 1 .. Len(s) /\ i < Len(a) + j
      BY <1>4
    <3>2. s[i].id < s[Len(a) + j].id /\ s[i].id \in Int
      BY <1>6, <3>1 DEF Row, Known
    <3>3. s[i].id # s[Len(a) + j].id
      BY <3>2
    <3>4. s[i] = a[i] /\ s[Len(a) + j] = b[j]
      OBVIOUS
    <3> QED BY <3>3, <3>4, Zenon
  <2> QED BY <1>2, <1>3, <2>1
<1> QED BY <1>5, <1>6

LEMMA AppendIds ==
  ASSUME NEW S, NEW s \in Seq(S), NEW t \in Seq(S), Len(t) = Len(s) + 1,
         \A i \in 1 .. Len(s) : t[i] = s[i]
  PROVE  IdsOf(t) = IdsOf(s) \cup {t[Len(s) + 1].id}
<1>1. Len(s) \in Nat /\ Len(t) \in Nat
  BY LenProperties
<1>2. \A i : i \in 1 .. Len(t) <=> i \in 1 .. Len(s) \/ i = Len(s) + 1
  BY <1>1
<1>3. \A x : x \in IdsOf(s) <=> \E i \in 1 .. Len(s) : x = s[i].id
  BY IdsByPosition, Zenon
<1>4. \A x : x \in IdsOf(t) <=> \E i \in 1 .. Len(t) : x = t[i].id
  BY IdsByPosition, Zenon
<1>5. ASSUME NEW x PROVE x \in IdsOf(t) <=> x \in IdsOf(s) \/ x = t[Len(s) + 1].id
  <2>1. x \in IdsOf(t) <=> (\E i \in 1 .. Len(s) : x = t[i].id) \/ x = t[Len(s) + 1].id
    BY <1>2, <1>4, Zenon
  <2> QED BY <1>3, <2>1
<1> QED BY <1>5

\* The two parts that a sequence is cut in.
LEMMA CutParts ==
  ASSUME NEW S, NEW s \in Seq(S), NEW k \in 0 .. Len(s)
  PROVE  /\ SubSeq(s, 1, k) \in Seq(S) /\ SubSeq(s, k + 1, Len(s)) \in Seq(S)
         /\ Len(SubSeq(s, 1, k)) = k /\ Len(SubSeq(s, k + 1, Len(s))) = Len(s) - k
         /\ \A i \in 1 .. k : SubSeq(s, 1, k)[i] = s[i]
         /\ \A i \in 1 .. Len(s) - k : SubSeq(s, k + 1, Len(s))[i] = s[k + i]
<1>1. Len(s) \in Nat /\ k \in Nat /\ k <= Len(s)
  BY LenProperties
<1>2. \A i \in 1 .. k : s[i] \in S
  BY <1>1, ElementOfSeq
<1>3. \A i \in k+1 .. Len(s) : s[i] \in S
  BY <1>1, ElementOfSeq
<1> DEFINE a == SubSeq(s, 1, k)
           b == SubSeq(s, k + 1, Len(s))
<1>4. /\ a \in Seq(S) /\ Len(a) = IF 1 <= k THEN k-1+1 ELSE 0
      /\ \A i \in 1 .. k-1+1 : a[i] = s[1+i-1]
  BY <1>1, <1>2, SubSeqProperties
<1>5. /\ b \in Seq(S) /\ Len(b) = IF k+1 <= Len(s) THEN Len(s)-(k+1)+1 ELSE 0
      /\ \A i \in 1 .. Len(s)-(k+1)+1 : b[i] = s[k+1+i-1]
  BY <1>1, <1>3, SubSeqProperties
<1> SUFFICES /\ a \in Seq(S) /\ b \in Seq(S) /\ Len(a) = k /\ Len(b) = Len(s) - k
             /\ \A i \in 1 .. k : a[i] = s[i]
             /\ \A i \in 1 .. Len(s) - k : b[i] = s[k + i]
  BY Zenon
<1> HIDE DEF a, b
<1>6. Len(a) = k /\ \A i \in 1 .. k : a[i] = s[i]
  BY <1>1, <1>4
<1>7. Len(b) = Len(s) - k /\ \A i \in 1 .. Len(s) - k : b[i] = s[k + i]
  BY <1>1, <1>5
<1> QED BY <1>4, <1>5, <1>6, <1>7

\* A sequence in order is cut in two that have no packet in common.
LEMMA CutIds ==
  ASSUME NEW S, NEW s \in Seq(S), NEW k \in 0 .. Len(s), NEW h \in Nat,
         Row(s), Known(s, h)
  PROVE  /\ IdsOf(s) = IdsOf(SubSeq(s, 1, k)) \cup IdsOf(SubSeq(s, k + 1, Len(s)))
         /\ IdsOf(SubSeq(s, 1, k)) \cap IdsOf(SubSeq(s, k + 1, Len(s))) = {}
<1> DEFINE a == SubSeq(s, 1, k)
           b == SubSeq(s, k + 1, Len(s))
<1>1. /\ a \in Seq(S) /\ b \in Seq(S) /\ Len(a) = k /\ Len(b) = Len(s) - k
      /\ \A i \in 1 .. k : a[i] = s[i] /\ \A j \in 1 .. Len(s) - k : b[j] = s[k + j]
  BY CutParts
<1> SUFFICES IdsOf(s) = IdsOf(a) \cup IdsOf(b) /\ IdsOf(a) \cap IdsOf(b) = {}
  OBVIOUS
<1>2. \A j \in 1 .. Len(s) - k : b[j] = s[k + j]
  BY CutParts
<1> HIDE DEF a, b
<1>3. Len(s) \in Nat /\ k \in Nat
  BY LenProperties
<1>4. /\ Len(s) = Len(a) + Len(b) /\ \A i \in 1 .. Len(a) : s[i] = a[i]
      /\ \A i \in 1 .. Len(b) : s[Len(a) + i] = b[i]
  BY <1>1, <1>2, <1>3
<1> QED BY <1>1, <1>4, JoinIds, Zenon

\* The first packet of a sequence in order is not among the others.
LEMMA RestIds ==
  ASSUME NEW S, NEW s \in Seq(S), NEW t \in Seq(S), NEW h \in Nat, Row(s), Known(s, h),
         Len(s) \in Nat \ {0}, Len(t) = Len(s) - 1, \A i \in 1 .. Len(t) : t[i] = s[i+1]
  PROVE  /\ s[1].id \in IdsOf(s)
         /\ IdsOf(s) = {s[1].id} \cup IdsOf(t) /\ s[1].id \notin IdsOf(t)
<1>1. \A x : x \in IdsOf(s) <=> \E i \in 1 .. Len(s) : x = s[i].id
  BY IdsByPosition, Zenon
<1>2. \A x : x \in IdsOf(t) <=> \E i \in 1 .. Len(t) : x = t[i].id
  BY IdsByPosition, Zenon
<1>3. \A i \in 1 .. Len(t) : i + 1 \in 1 .. Len(s) /\ 1 < i + 1
  OBVIOUS
<1>4. 1 \in 1 .. Len(s) /\ \A i \in 1 .. Len(s) : i # 1 => i - 1 \in 1 .. Len(t) /\ (i - 1) + 1 = i
  OBVIOUS
<1>5. ASSUME NEW i \in 1 .. Len(t) PROVE s[1].id # t[i].id
  <2>1. s[1].id < s[i+1].id /\ s[1].id \in 1 .. h
    BY <1>3, <1>4 DEF Row, Known
  <2> QED BY <2>1
<1>6. ASSUME NEW x \in IdsOf(s), x # s[1].id PROVE x \in IdsOf(t)
  <2>1. PICK i \in 1 .. Len(s) : x = s[i].id
    BY <1>1
  <2>2. i # 1
    BY <1>6, <2>1
  <2>3. i - 1 \in 1 .. Len(t) /\ t[i-1] = s[(i-1)+1]
    BY <1>4, <2>2
  <2>4. t[i-1] = s[i]
    BY <1>4, <2>2, <2>3
  <2> QED BY <1>2, <2>1, <2>3, <2>4
<1>7. ASSUME NEW x \in IdsOf(t) PROVE x \in IdsOf(s)
  <2>1. PICK i \in 1 .. Len(t) : x = t[i].id
    BY <1>2
  <2> QED BY <1>1, <1>3, <2>1
<1>8. s[1].id \in IdsOf(s) /\ s[1].id \notin IdsOf(t)
  BY <1>1, <1>2, <1>4, <1>5
<1> QED BY <1>6, <1>7, <1>8, Zenon

LEMMA TailIds ==
  ASSUME NEW S, NEW s \in Seq(S), s # << >>, NEW h \in Nat, Row(s), Known(s, h)
  PROVE  /\ Tail(s) \in Seq(S) /\ Len(Tail(s)) = Len(s) - 1 /\ Len(s) \in Nat \ {0}
         /\ \A i \in 1 .. Len(Tail(s)) : Tail(s)[i] = s[i+1]
         /\ Head(s) = s[1] /\ s[1].id \in IdsOf(s)
         /\ IdsOf(s) = {s[1].id} \cup IdsOf(Tail(s)) /\ s[1].id \notin IdsOf(Tail(s))
<1> DEFINE t == Tail(s)
<1>1. /\ Len(s) \in Nat \ {0} /\ Head(s) = s[1] /\ t \in Seq(S) /\ Len(t) = Len(s) - 1
      /\ \A i \in 1 .. Len(t) : t[i] = s[i+1]
  BY HeadTailProperties, LenProperties, EmptySeq
<1> SUFFICES /\ s[1].id \in IdsOf(s)
             /\ IdsOf(s) = {s[1].id} \cup IdsOf(t) /\ s[1].id \notin IdsOf(t)
  BY <1>1, Zenon
<1> HIDE DEF t
<1> QED BY <1>1, RestIds, Zenon

LEMMA BeforeApart ==
  ASSUME NEW S, NEW T, NEW s \in Seq(S), NEW t \in Seq(T), NEW h \in Nat,
         Known(s, h), Before(s, t)
  PROVE  IdsOf(s) \cap IdsOf(t) = {}
<1>1. \A x : x \in IdsOf(s) <=> \E i \in 1 .. Len(s) : x = s[i].id
  BY IdsByPosition, Zenon
<1>2. \A x : x \in IdsOf(t) <=> \E i \in 1 .. Len(t) : x = t[i].id
  BY IdsByPosition, Zenon
<1>3. \A i \in 1 .. Len(s), j \in 1 .. Len(t) : s[i].id < t[j].id /\ s[i].id \in 1 .. h
  BY DEF Before, Ahead, Known
<1>4. \A i \in 1 .. Len(s), j \in 1 .. Len(t) : s[i].id # t[j].id
  BY <1>3
<1> QED BY <1>1, <1>2, <1>4

-----------------------------------------------------------------------------
Waiting == IdsOf(batch) \cup IdsOf(rx) \cup IdsOf(fifo)

\* Each packet heard is in one place, or is accounted for.
WaitInv ==
  /\ fate \in [Ids -> Fates]
  /\ base \in 0 .. heard
  /\ \A x \in Ids : fate[x] = "unheard" <=> x > heard
  /\ pc # "stopped" => \A x \in Ids : fate[x] = "held" <=> x \in Waiting
  /\ \A x \in Ids : fate[x] = "held" => x > base

BufferInv == IInv /\ OrderInv

\* What the invariants on the buffers say of the numbers that wait.
LEMMA BufferFacts ==
  ASSUME BufferInv
  PROVE  /\ batch \in Seq(Parsed) /\ rx \in Seq(Packet) /\ fifo \in Seq(Packet)
         /\ PACKETS \in Nat /\ heard \in 0 .. PACKETS /\ heard \in Nat
         /\ Row(batch) /\ Row(rx) /\ Row(fifo)
         /\ Known(batch, heard) /\ Known(rx, heard) /\ Known(fifo, heard)
         /\ IdsOf(batch) \cap IdsOf(fifo) = {} /\ IdsOf(rx) \cap IdsOf(fifo) = {}
         /\ Waiting \subseteq 1 .. heard /\ 1 .. heard \subseteq Ids
         /\ pc = "serialize" => rx = << >>
         /\ pc # "serialize" => batch = << >>
<1>1. /\ batch \in Seq(Parsed) /\ rx \in Seq(Packet) /\ fifo \in Seq(Packet)
      /\ PACKETS \in Nat /\ heard \in 0 .. PACKETS /\ heard \in Nat
      /\ pc # "serialize" => batch = << >>
  BY UpstreamAssumption DEF BufferInv, IInv, ClockInv
<1>2. /\ Row(batch) /\ Row(rx) /\ Row(fifo)
      /\ Known(batch, heard) /\ Known(rx, heard) /\ Known(fifo, heard)
      /\ Before(batch, fifo) /\ Before(rx, fifo)
      /\ pc = "serialize" => rx = << >>
  BY DEF BufferInv, OrderInv
<1>3. IdsOf(batch) \cap IdsOf(fifo) = {} /\ IdsOf(rx) \cap IdsOf(fifo) = {}
  BY <1>1, <1>2, BeforeApart
<1>4. /\ \A x : x \in IdsOf(batch) <=> \E i \in 1 .. Len(batch) : x = batch[i].id
      /\ \A x : x \in IdsOf(rx) <=> \E i \in 1 .. Len(rx) : x = rx[i].id
      /\ \A x : x \in IdsOf(fifo) <=> \E i \in 1 .. Len(fifo) : x = fifo[i].id
  BY <1>1, IdsByPosition, Zenon
<1>5. Waiting \subseteq 1 .. heard
  BY <1>2, <1>4 DEF Known, Waiting
<1>6. 1 .. heard \subseteq Ids
  BY <1>1 DEF Ids
<1> QED BY <1>1, <1>2, <1>3, <1>5, <1>6

LEMMA InitWait == Init => WaitInv
<1> SUFFICES ASSUME Init PROVE WaitInv
  OBVIOUS
<1>1. /\ batch = << >> /\ rx = << >> /\ fifo = << >> /\ base = 0 /\ heard = 0
      /\ fate = [x \in Ids |-> "unheard"]
  BY DEF Init
<1>2. Waiting = {}
  BY <1>1, EmptyIds DEF Waiting
<1>3. \A x \in Ids : x > 0
  BY UpstreamAssumption DEF Ids
<1> QED BY <1>1, <1>2, <1>3 DEF WaitInv, Fates

\* A step that leaves the packets where they are, or ends the thread.
LEMMA QuietWait ==
  ASSUME WaitInv, UNCHANGED <<fate, base, heard>>,
         pc' = "stopped" \/ (pc # "stopped" /\ Waiting' = Waiting)
  PROVE  WaitInv'
BY DEF WaitInv

LEMMA HearWait == ASSUME BufferInv, WaitInv, Hear PROVE WaitInv'
<1>1. /\ pc # "stopped" /\ heard < PACKETS /\ heard' = heard + 1
      /\ fifo' = Append(fifo, [id |-> heard', at |-> now])
      /\ fate' = [fate EXCEPT ![heard'] = "held"]
      /\ UNCHANGED <<base, rx, batch, pc>>
  BY DEF Hear, outerVars
<1> DEFINE p == [id |-> heard + 1, at |-> now]
<1>2. heard + 1 \in Ids /\ heard \in Nat /\ PACKETS \in Nat /\ base \in 0 .. heard + 1
  BY <1>1, BufferFacts DEF Ids, WaitInv
<1>3. p \in Packet /\ p.id = heard + 1
  BY <1>2 DEF Packet, BufferInv, IInv, ClockInv
<1>4. fifo' = Append(fifo, p) /\ fifo \in Seq(Packet)
  BY <1>1, BufferFacts
<1> HIDE DEF p
<1>5. IdsOf(fifo') = IdsOf(fifo) \cup {heard + 1}
  <2>1. /\ fifo' \in Seq(Packet) /\ Len(fifo') = Len(fifo) + 1 /\ fifo'[Len(fifo) + 1] = p
        /\ \A i \in 1 .. Len(fifo) : fifo'[i] = fifo[i]
    BY <1>3, <1>4, AppendProperties
  <2>2. fifo \in Seq(Packet)
    BY <1>4
  <2>3. IdsOf(fifo') = IdsOf(fifo) \cup {fifo'[Len(fifo) + 1].id}
    BY <2>1, <2>2, AppendIds, Zenon
  <2> QED BY <1>3, <2>1, <2>3
<1>6. Waiting' = Waiting \cup {heard + 1}
  BY <1>1, <1>5 DEF Waiting
<1>7. /\ fate' \in [Ids -> Fates] /\ fate'[heard + 1] = "held"
      /\ \A x \in Ids : x # heard + 1 => fate'[x] = fate[x]
  BY <1>1, <1>2 DEF WaitInv, Fates
<1>8. \A x \in Ids : x > heard + 1 <=> (x > heard /\ x # heard + 1)
  BY <1>2 DEF Ids
<1>9. heard + 1 > base /\ ~(heard + 1 > heard + 1)
  BY <1>2 DEF WaitInv
<1> QED BY <1>1, <1>2, <1>6, <1>7, <1>8, <1>9 DEF WaitInv

\* Some of the packets that wait are given another fate, and wait no more.
LEMMA FatedWait ==
  ASSUME WaitInv, NEW ids \in SUBSET Waiting, NEW f \in Fates \ {"unheard", "held"},
         Waiting \subseteq 1 .. heard, pc # "stopped", UNCHANGED <<base, heard>>,
         fate' = Fated(ids, f), Waiting' = Waiting \ ids, heard \in Nat
  PROVE  WaitInv'
<1>1. /\ fate' \in [Ids -> Fates]
      /\ \A x \in Ids : fate'[x] = IF x \in ids THEN f ELSE fate[x]
  BY DEF Fated, WaitInv
<1>2. \A x \in ids : ~(x > heard)
  OBVIOUS
<1> QED BY <1>1, <1>2 DEF WaitInv

LEMMA FetchWait == ASSUME BufferInv, WaitInv, Fetch PROVE WaitInv'
<1>1. /\ UNCHANGED <<heard, base, batch>> /\ pc = "top" /\ batch = << >>
  BY BufferFacts DEF Fetch, outerVars
<1>2. CASE rx # << >>
  BY <1>1, <1>2, QuietWait DEF Fetch, Waiting
<1>3. CASE rx = << >>
  <2>1. PICK k \in 0 .. Len(fifo) :
          /\ rx' = SubSeq(fifo, k + 1, Len(fifo)) /\ fifo' = << >>
          /\ fate' = Fated(IdsOf(SubSeq(fifo, 1, k)), "discarded")
    BY <1>3 DEF Fetch
  <2> DEFINE lost == IdsOf(SubSeq(fifo, 1, k))
  <2>2. IdsOf(fifo) = lost \cup IdsOf(rx') /\ lost \cap IdsOf(rx') = {}
    BY <2>1, BufferFacts, CutIds
  <2>3. Waiting = IdsOf(fifo) /\ Waiting' = IdsOf(rx')
    BY <1>1, <1>3, <2>1, EmptyIds DEF Waiting
  <2>4. lost \in SUBSET Waiting /\ Waiting' = Waiting \ lost
    BY <2>2, <2>3
  <2> QED BY <1>1, <2>1, <2>4, BufferFacts, FatedWait DEF Fates
<1> QED BY <1>2, <1>3

LEMMA ParseWait == ASSUME BufferInv, WaitInv, Parse PROVE WaitInv'
<1>1. /\ UNCHANGED <<fate, base, heard, fifo>> /\ rx' = << >> /\ pc # "stopped"
      /\ batch = << >>
      /\ batch' = [i \in DOMAIN rx |-> [id |-> rx[i].id, at |-> rx[i].at,
                     stamp |-> PktExpand(counter, rx[i].at.cnt)]]
  BY BufferFacts DEF Parse, airVars, outerVars
<1>2. DOMAIN batch' = DOMAIN rx /\ \A i \in DOMAIN rx : batch'[i].id = rx[i].id
  BY <1>1
<1>3. IdsOf(batch') = IdsOf(rx)
  BY <1>2 DEF IdsOf
<1>4. Waiting' = Waiting
  BY <1>1, <1>3, EmptyIds DEF Waiting
<1> QED BY <1>1, <1>4, QuietWait

LEMMA WarningWait == ASSUME BufferInv, WaitInv, ParseWarning PROVE WaitInv'
<1>1. /\ UNCHANGED <<base, heard, fifo, batch>> /\ rx' = << >> /\ pc = "updated"
      /\ fate' = Fated(IdsOf(rx), "discarded") /\ batch = << >>
  BY BufferFacts DEF ParseWarning, Cleared, airVars, outerVars
<1>2. Waiting' = Waiting \ IdsOf(rx) /\ IdsOf(rx) \in SUBSET Waiting
  BY <1>1, BufferFacts, EmptyIds DEF Waiting
<1> QED BY <1>1, <1>2, BufferFacts, FatedWait DEF Fates

\* The packet looked at.
Looked == batch[1].id

LEMMA LookedFacts ==
  ASSUME BufferInv, WaitInv, pc = "serialize", batch # << >>, batch' = Tail(batch),
         UNCHANGED <<rx, fifo>>
  PROVE  /\ Head(batch).id = Looked /\ Looked \in Waiting /\ Looked \in 1 .. heard
         /\ Looked \in Ids /\ fate[Looked] = "held"
         /\ Waiting' = Waiting \ {Looked}
<1>1. /\ Head(batch) = batch[1] /\ Looked \in IdsOf(batch)
      /\ IdsOf(batch) = {Looked} \cup IdsOf(batch') /\ Looked \notin IdsOf(batch')
  BY BufferFacts, TailIds, Zenon DEF Looked
<1>2. Looked \notin IdsOf(fifo) /\ rx = << >> /\ rx' = << >>
  BY <1>1, BufferFacts
<1>3. Waiting' = Waiting \ {Looked} /\ Looked \in Waiting
  BY <1>1, <1>2, EmptyIds DEF Waiting
<1>4. Looked \in 1 .. heard /\ Looked \in Ids
  BY <1>3, BufferFacts
<1>5. fate[Looked] = "held"
  BY <1>3, <1>4 DEF WaitInv
<1> QED BY <1>1, <1>3, <1>4, <1>5, Zenon DEF Looked

LEMMA FilterWait == ASSUME BufferInv, WaitInv, Filter PROVE WaitInv'
<1>1. /\ UNCHANGED <<base, heard, rx, fifo>> /\ pc = "serialize" /\ batch # << >>
      /\ batch' = Tail(batch)
      /\ fate' = [fate EXCEPT ![Head(batch).id] = "filtered"]
  BY DEF Filter, airVars, outerVars
<1>2. /\ Head(batch).id = Looked /\ Looked \in Waiting /\ Looked \in Ids
      /\ Waiting' = Waiting \ {Looked}
  BY <1>1, LookedFacts
<1>3. fate' = Fated({Looked}, "filtered")
  BY <1>1, <1>2 DEF WaitInv, Fated
<1> QED BY <1>1, <1>2, <1>3, BufferFacts, FatedWait DEF Fates

\* A packet that is taken replaces the one that was accepted before it.
LEMMA TakeFate ==
  ASSUME Take
  PROVE  /\ UNCHANGED <<base, heard, rx, fifo, pc, out>> /\ pc = "serialize"
         /\ batch # << >> /\ batch' = Tail(batch)
         /\ fate' = [x \in Ids |-> IF x = Head(batch).id THEN "accepted"
                       ELSE IF fate[x] = "accepted" THEN "overwritten" ELSE fate[x]]
         /\ payload' = Head(batch).id /\ inDgram' = TRUE
<1>1. \A kind \in Kinds \ Refused : kind # "range"
  BY DEF Kinds, Refused
<1> QED BY <1>1 DEF Take, Replaced, airVars, outerVars

LEMMA TakeWait == ASSUME BufferInv, WaitInv, Take PROVE WaitInv'
<1>1. /\ Head(batch).id = Looked /\ Looked \in Waiting /\ Looked \in Ids
      /\ Waiting' = Waiting \ {Looked} /\ Looked \in 1 .. heard
  BY TakeFate, LookedFacts
<1>2. ~(Looked > heard)
  BY <1>1, BufferFacts
<1>3. /\ fate' \in [Ids -> Fates]
      /\ \A x \in Ids : fate'[x] = IF x = Looked THEN "accepted"
                          ELSE IF fate[x] = "accepted" THEN "overwritten" ELSE fate[x]
  BY <1>1, TakeFate DEF WaitInv, Fates
<1> QED BY <1>1, <1>2, <1>3, TakeFate DEF WaitInv

LEMMA RestartWait == ASSUME BufferInv, WaitInv, Restart PROVE WaitInv'
<1>1. /\ fifo' = << >> /\ rx' = << >> /\ batch' = << >> /\ base' = heard /\ heard' = heard
      /\ fate' = [x \in Ids |-> IF fate[x] = "held" THEN "aborted" ELSE fate[x]]
  BY DEF Restart
<1>2. Waiting' = {}
  BY <1>1, EmptyIds DEF Waiting
<1>3. heard' \in Nat /\ base' \in 0 .. heard'
  BY <1>1, BufferFacts
<1>4. /\ fate' \in [Ids -> Fates]
      /\ \A x \in Ids : fate'[x] = IF fate[x] = "held" THEN "aborted" ELSE fate[x]
  BY <1>1 DEF WaitInv, Fates
<1> QED BY <1>1, <1>2, <1>3, <1>4 DEF WaitInv

-----------------------------------------------------------------------------
\* The packets of s were received one after the other; those of the FIFO are
\* the last ones.
Solid(s)     == \A i, j \in 1 .. Len(s) : s[j].id - s[i].id = j - i
Newest(s, h) == \A i \in 1 .. Len(s) : s[i].id = h - Len(s) + i

SolidInv == Solid(batch) /\ Solid(rx) /\ Newest(fifo, heard)

LEMMA EmptySolid ==
  ASSUME NEW h PROVE Solid(<< >>) /\ Newest(<< >>, h)
  BY EmptySeq DEF Solid, Newest

LEMMA PartSolid ==
  ASSUME NEW s, NEW t, NEW n \in Nat, Len(t) \in Nat, Len(s) \in Nat, Solid(s),
         \A i \in 1 .. Len(t) : n + i \in 1 .. Len(s) /\ t[i].id = s[n + i].id
  PROVE  Solid(t)
<1> SUFFICES ASSUME NEW i \in 1 .. Len(t), NEW j \in 1 .. Len(t)
             PROVE  t[j].id - t[i].id = j - i
  BY DEF Solid
<1>1. s[n + j].id - s[n + i].id = (n + j) - (n + i)
  BY DEF Solid
<1>2. t[j].id = s[n + j].id /\ t[i].id = s[n + i].id
  OBVIOUS
<1>3. t[j].id - t[i].id = (n + j) - (n + i)
  BY <1>1, <1>2, Zenon
<1> QED BY <1>3

LEMMA NewestSolid ==
  ASSUME NEW s, NEW h \in Nat, Len(s) \in Nat, Newest(s, h)
  PROVE  Solid(s)
BY DEF Solid, Newest

LEMMA SuffixSolid ==
  ASSUME NEW S, NEW s \in Seq(S), NEW k \in 0 .. Len(s), Solid(s)
  PROVE  Solid(SubSeq(s, k + 1, Len(s)))
<1> DEFINE t == SubSeq(s, k + 1, Len(s))
<1>1. t \in Seq(S) /\ Len(t) = Len(s) - k /\ \A i \in 1 .. Len(s) - k : t[i] = s[k + i]
  BY CutParts
<1> HIDE DEF t
<1>2. /\ Len(s) \in Nat /\ Len(t) \in Nat /\ k \in Nat
      /\ \A i \in 1 .. Len(t) : k + i \in 1 .. Len(s) /\ t[i].id = s[k + i].id
  BY <1>1, LenProperties
<1>3. Solid(t)
  BY <1>2, PartSolid, Zenon
<1> QED BY <1>3 DEF t

LEMMA InitSolid == Init => SolidInv
<1> SUFFICES ASSUME Init PROVE SolidInv
  OBVIOUS
<1>1. batch = << >> /\ rx = << >> /\ fifo = << >>
  BY DEF Init
<1> QED BY <1>1, EmptySolid DEF SolidInv

LEMMA SameSolid ==
  ASSUME SolidInv, UNCHANGED <<batch, rx, fifo, heard>> PROVE SolidInv'
BY DEF SolidInv, Solid, Newest

LEMMA HearSolid == ASSUME BufferInv, SolidInv, Hear PROVE SolidInv'
<1> DEFINE p == [id |-> heard + 1, at |-> now]
<1>1. /\ heard \in Nat /\ heard' = heard + 1 /\ fifo \in Seq(Packet)
      /\ fifo' = Append(fifo, p) /\ p \in Packet /\ UNCHANGED <<batch, rx>>
  BY BufferFacts DEF Hear, Packet, Ids, BufferInv, IInv, ClockInv
<1>2. p.id = heard + 1
  OBVIOUS
<1> HIDE DEF p
<1>3. /\ Len(fifo') = Len(fifo) + 1 /\ Len(fifo) \in Nat /\ fifo'[Len(fifo) + 1] = p
      /\ \A i \in 1 .. Len(fifo) : fifo'[i] = fifo[i]
  BY <1>1, AppendProperties, LenProperties
<1>4. ASSUME NEW i \in 1 .. Len(fifo')
      PROVE  fifo'[i].id = heard + 1 - Len(fifo') + i
  <2>1. CASE i = Len(fifo) + 1
    BY <1>1, <1>2, <1>3, <2>1
  <2>2. CASE i # Len(fifo) + 1
    <3>1. i \in 1 .. Len(fifo)
      BY <1>3, <2>2
    <3>2. fifo'[i].id = heard - Len(fifo) + i
      BY <1>3, <3>1 DEF SolidInv, Newest
    <3> QED BY <1>1, <1>3, <3>1, <3>2
  <2> QED BY <2>1, <2>2
<1>5. Newest(fifo', heard')
  BY <1>1, <1>4 DEF Newest
<1> QED BY <1>1, <1>5 DEF SolidInv, Solid

LEMMA FetchSolid == ASSUME BufferInv, SolidInv, Fetch PROVE SolidInv'
<1>1. UNCHANGED <<heard, batch>> /\ fifo \in Seq(Packet) /\ heard \in Nat
  BY BufferFacts DEF Fetch
<1>2. CASE rx # << >>
  BY <1>1, <1>2, SameSolid DEF Fetch
<1>3. CASE rx = << >>
  <2>1. PICK k \in 0 .. Len(fifo) : rx' = SubSeq(fifo, k + 1, Len(fifo)) /\ fifo' = << >>
    BY <1>3 DEF Fetch
  <2>2. Solid(fifo)
    BY <1>1, LenProperties, NewestSolid DEF SolidInv
  <2>3. Solid(rx')
    BY <1>1, <2>1, <2>2, SuffixSolid
  <2> QED BY <1>1, <2>1, <2>3, EmptySolid DEF SolidInv
<1> QED BY <1>2, <1>3

LEMMA ParseSolid == ASSUME BufferInv, SolidInv, Parse PROVE SolidInv'
<1>1. /\ UNCHANGED <<fifo, heard>> /\ rx' = << >> /\ rx \in Seq(Packet)
      /\ batch' = [i \in DOMAIN rx |-> [id |-> rx[i].id, at |-> rx[i].at,
                     stamp |-> PktExpand(counter, rx[i].at.cnt)]]
  BY BufferFacts DEF Parse, airVars
<1>2. batch' \in Seq(Parsed) /\ DOMAIN rx = 1 .. Len(rx) /\ Len(rx) \in Nat
  BY <1>1, NextClock, LenProperties DEF Next, IInv, ClockInv, BufferInv
<1>3. Len(batch') = Len(rx)
  BY <1>1, <1>2, LenProperties
<1>4. \A i \in 1 .. Len(rx) : batch'[i].id = rx[i].id
  BY <1>1, <1>2
<1>5. Solid(batch')
  BY <1>3, <1>4 DEF SolidInv, Solid
<1> QED BY <1>1, <1>5, EmptySolid DEF SolidInv

LEMMA ErrorSolid == ASSUME BufferInv, SolidInv, ParseError PROVE SolidInv'
<1>1. UNCHANGED <<fifo, heard>> /\ batch' = << >> /\ rx \in Seq(Packet)
  BY BufferFacts DEF ParseError, Abort, airVars
<1>2. PICK i \in 1 .. Len(rx) : rx' = SubSeq(rx, i, Len(rx))
  BY <1>1, LenProperties DEF ParseError
<1>3. Len(rx) \in Nat /\ i - 1 \in 0 .. Len(rx) /\ (i - 1) + 1 = i
  BY <1>1, LenProperties
<1>4. Solid(SubSeq(rx, (i - 1) + 1, Len(rx)))
  BY <1>1, <1>3, SuffixSolid DEF SolidInv
<1>5. Solid(rx')
  BY <1>2, <1>3, <1>4, Zenon
<1> QED BY <1>1, <1>5, EmptySolid DEF SolidInv

LEMMA LookSolid ==
  ASSUME BufferInv, SolidInv, batch # << >>, batch' = Tail(batch), UNCHANGED <<rx, fifo, heard>>
  PROVE  SolidInv'
<1>1. /\ Len(batch') = Len(batch) - 1 /\ Len(batch) \in Nat \ {0}
      /\ \A i \in 1 .. Len(batch') : batch'[i] = batch[i+1]
  BY BufferFacts, TailIds
<1>2. /\ Len(batch') \in Nat /\ 1 \in Nat
      /\ \A i \in 1 .. Len(batch') : 1 + i \in 1 .. Len(batch) /\ batch'[i].id = batch[1 + i].id
  BY <1>1
<1>3. Solid(batch) /\ Len(batch) \in Nat
  BY <1>1 DEF SolidInv
<1>4. Solid(batch')
  BY <1>2, <1>3, PartSolid
<1> QED BY <1>4 DEF SolidInv, Solid, Newest

LEMMA DropSolid ==
  ASSUME SolidInv, UNCHANGED <<fifo, heard>>, batch' = << >>, rx' = rx \/ rx' = << >>
  PROVE  SolidInv'
BY EmptySolid DEF SolidInv

LEMMA NextSolid == BufferInv /\ SolidInv /\ [Next]_vars => SolidInv'
<1> SUFFICES ASSUME BufferInv, SolidInv, [Next]_vars PROVE SolidInv'
  OBVIOUS
<1>1. CASE Tick \/ GetInstcnt \/ Stop \/ Update \/ Leave \/ UNCHANGED vars
  BY <1>1, SameSolid DEF Tick, GetInstcnt, Stop, Update, Leave, vars, airVars
<1>2. CASE Hear
  BY <1>2, HearSolid
<1>3. CASE Fetch
  BY <1>3, FetchSolid
<1>4. CASE FetchFails \/ TemperatureFails
  BY <1>4, DropSolid DEF FetchFails, TemperatureFails, Abort, airVars
<1>5. CASE Parse
  BY <1>5, ParseSolid
<1>6. CASE ParseWarning
  <2>1. batch' = << >> /\ rx' = << >> /\ UNCHANGED <<fifo, heard>>
    BY <1>6, BufferFacts DEF ParseWarning, Cleared, airVars
  <2> QED BY <2>1, DropSolid
<1>7. CASE ParseError
  BY <1>7, ErrorSolid
<1>8. CASE Filter \/ Take
  BY <1>8, LookSolid DEF Filter, Take, airVars
<1>9. CASE Forward
  BY <1>9, SameSolid DEF Forward, airVars
<1>10. CASE Restart
  <2>1. batch' = << >> /\ rx' = << >> /\ fifo' = << >>
    BY <1>10 DEF Restart
  <2> QED BY <2>1, EmptySolid DEF SolidInv
<1> QED
  BY <1>1, <1>2, <1>3, <1>4, <1>5, <1>6, <1>7, <1>8, <1>9, <1>10 DEF Next

-----------------------------------------------------------------------------
\* Those that a packet taken later may have between it and one it replaced.
Between == {"filtered", "unusable", "overwritten"}
Over(f) ==
  \A x \in Ids : f[x] = "overwritten" =>
    \E y \in x+1 .. PACKETS : /\ f[y] \in {"forwarded", "accepted"}
                              /\ \A z \in x+1 .. y-1 : f[z] \in Between

\* The packet whose payload is kept is the only one that is accepted; those
\* heard since, up to the next one to be looked at, were looked at.
TakenInv ==
  /\ \A x \in Ids : fate[x] = "accepted" <=> Pending /\ x = payload
  /\ Pending => payload > base
  /\ Pending /\ batch # << >> =>
       \A z \in Ids : payload < z /\ z < Looked => fate[z] \in {"filtered", "unusable"}
  /\ Over(fate)

\* A fate that is settled stays; a packet that is accepted is forwarded.
LEMMA OverKept ==
  ASSUME Over(fate), PACKETS \in Nat,
         \A x \in Ids : \/ fate'[x] = fate[x]
                        \/ fate[x] \in {"held", "unheard"} /\ fate'[x] # "overwritten"
                        \/ fate[x] = "accepted" /\ fate'[x] = "forwarded"
  PROVE  Over(fate')
<1> SUFFICES ASSUME NEW x \in Ids, fate'[x] = "overwritten"
             PROVE  \E y \in x+1 .. PACKETS : /\ fate'[y] \in {"forwarded", "accepted"}
                                              /\ \A z \in x+1 .. y-1 : fate'[z] \in Between
  BY DEF Over
<1>1. fate[x] = "overwritten"
  OBVIOUS
<1>2. PICK y \in x+1 .. PACKETS : /\ fate[y] \in {"forwarded", "accepted"}
                                  /\ \A z \in x+1 .. y-1 : fate[z] \in Between
  BY <1>1 DEF Over
<1>3. /\ y \in Ids /\ \A z \in x+1 .. y-1 : z \in Ids
  BY DEF Ids
<1>4. fate'[y] \in {"forwarded", "accepted"}
  BY <1>2, <1>3
<1>5. ASSUME NEW z \in x+1 .. y-1 PROVE fate'[z] \in Between
  <2>1. fate[z] \in {"filtered", "unusable", "overwritten"} /\ z \in Ids
    BY <1>2, <1>3 DEF Between
  <2> QED BY <2>1 DEF Between
<1> QED BY <1>4, <1>5

LEMMA InitTaken == Init => TakenInv
<1> SUFFICES ASSUME Init PROVE TakenInv
  OBVIOUS
<1>1. pc = "top" /\ \A x \in Ids : fate[x] = "unheard"
  BY DEF Init
<1> QED BY <1>1 DEF TakenInv, Pending, Over

\* Nothing is pending before or after.
LEMMA IdleTaken ==
  ASSUME TakenInv, PACKETS \in Nat, ~Pending, ~Pending',
         \A x \in Ids : \/ fate'[x] = fate[x]
                        \/ fate[x] \in {"held", "unheard"} /\ fate'[x] \in {"discarded", "aborted"}
  PROVE  TakenInv'
<1>1. Over(fate')
  BY OverKept DEF TakenInv
<1>2. \A x \in Ids : fate'[x] # "accepted"
  BY DEF TakenInv
<1> QED BY <1>1, <1>2 DEF TakenInv

\* What is pending stays so.
LEMMA StayTaken ==
  ASSUME TakenInv, PACKETS \in Nat, UNCHANGED <<pc, inDgram, payload, batch, base>>,
         \A x \in Ids : \/ fate'[x] = fate[x]
                        \/ fate[x] \in {"held", "unheard"} /\ fate'[x] = "held"
  PROVE  TakenInv'
<1>1. Over(fate')
  BY OverKept DEF TakenInv
<1>2. \A x \in Ids : fate'[x] = "accepted" <=> fate[x] = "accepted"
  OBVIOUS
<1>3. \A x \in Ids : fate[x] \in {"filtered", "unusable"} => fate'[x] = fate[x]
  OBVIOUS
<1> QED BY <1>1, <1>2, <1>3 DEF TakenInv, Pending, Looked

\* What sx1302_fetch() and a warning of the parser discard was waiting.
LEMMA DiscardFate ==
  ASSUME BufferInv, WaitInv, Fetch \/ ParseWarning, NEW x \in Ids
  PROVE  fate'[x] = fate[x] \/ (fate[x] = "held" /\ fate'[x] = "discarded")
<1>1. ASSUME NEW ids, fate' = Fated(ids, "discarded"), ids \subseteq Waiting, pc # "stopped"
      PROVE  fate'[x] = fate[x] \/ (fate[x] = "held" /\ fate'[x] = "discarded")
  BY <1>1 DEF Fated, WaitInv
<1>2. CASE ParseWarning
  <2>1. fate' = Fated(IdsOf(rx), "discarded") /\ IdsOf(rx) \subseteq Waiting /\ pc # "stopped"
    BY <1>2 DEF ParseWarning, Waiting
  <2> QED BY <1>1, <2>1
<1>3. CASE Fetch /\ rx # << >>
  BY <1>3 DEF Fetch
<1>4. CASE Fetch /\ rx = << >>
  <2>1. PICK k \in 0 .. Len(fifo) : fate' = Fated(IdsOf(SubSeq(fifo, 1, k)), "discarded")
    BY <1>4 DEF Fetch
  <2>2. IdsOf(SubSeq(fifo, 1, k)) \subseteq IdsOf(fifo)
    BY <2>1, BufferFacts, CutIds
  <2>3. IdsOf(SubSeq(fifo, 1, k)) \subseteq Waiting /\ pc # "stopped"
    BY <1>4, <2>2 DEF Waiting, Fetch
  <2> QED BY <1>1, <2>1, <2>3
<1> QED BY <1>2, <1>3, <1>4

LEMMA SettleTaken ==
  ASSUME BufferInv, WaitInv, TakenInv,
         Fetch \/ FetchFails \/ Update \/ TemperatureFails \/ Parse
           \/ ParseWarning \/ ParseError \/ Leave \/ Restart
  PROVE  TakenInv'
<1>1. ~Pending
  BY DEF Pending, Fetch, FetchFails, Update, TemperatureFails, Parse,
    ParseWarning, ParseError, Leave, Restart
<1>2. ~Pending'
  BY DEF Pending, Fetch, FetchFails, Update, TemperatureFails, Parse, Begun,
    ParseWarning, ParseError, Leave, Restart, Abort
<1>3. ASSUME NEW x \in Ids
      PROVE  \/ fate'[x] = fate[x]
             \/ fate[x] \in {"held", "unheard"} /\ fate'[x] \in {"discarded", "aborted"}
  <2>1. CASE FetchFails \/ Update \/ TemperatureFails \/ Parse \/ ParseError \/ Leave
    BY <2>1 DEF FetchFails, Update, TemperatureFails, Parse, ParseError, Leave
  <2>2. CASE Restart
    BY <2>2 DEF Restart
  <2>3. CASE Fetch \/ ParseWarning
    BY <2>3, DiscardFate
  <2> QED BY <2>1, <2>2, <2>3
<1> QED BY <1>1, <1>2, <1>3, BufferFacts, IdleTaken

LEMMA HearTaken == ASSUME BufferInv, WaitInv, TakenInv, Hear PROVE TakenInv'
<1>1. /\ UNCHANGED <<pc, inDgram, payload, batch, base>> /\ heard < PACKETS
      /\ fate' = [fate EXCEPT ![heard + 1] = "held"]
  BY DEF Hear, resultVars, outerVars
<1>2. heard + 1 \in Ids /\ heard + 1 > heard /\ PACKETS \in Nat
  BY <1>1, BufferFacts DEF Ids
<1>3. fate[heard + 1] = "unheard"
  BY <1>2 DEF WaitInv
<1>4. \A x \in Ids : \/ fate'[x] = fate[x]
                     \/ fate[x] \in {"held", "unheard"} /\ fate'[x] = "held"
  BY <1>1, <1>2, <1>3 DEF WaitInv
<1> QED BY <1>1, <1>2, <1>4, StayTaken

\* The next packet of the batch is the next one that was heard.
LEMMA NextLooked ==
  ASSUME BufferInv, SolidInv, batch # << >>, batch' = Tail(batch), batch' # << >>
  PROVE  batch'[1].id = Looked + 1
<1>1. /\ Len(batch') = Len(batch) - 1 /\ Len(batch) \in Nat \ {0} /\ batch' \in Seq(Parsed)
      /\ \A i \in 1 .. Len(batch') : batch'[i] = batch[i+1]
  BY BufferFacts, TailIds
<1>2. Len(batch') # 0
  BY <1>1, EmptySeq
<1>3. 1 \in 1 .. Len(batch') /\ 1 \in 1 .. Len(batch) /\ 2 \in 1 .. Len(batch)
  BY <1>1, <1>2
<1>4. batch'[1] = batch[2] /\ batch[2].id - batch[1].id = 2 - 1
  BY <1>1, <1>3 DEF SolidInv, Solid
<1>5. batch[1].id \in Int /\ batch[2].id \in Int
  BY <1>3, BufferFacts DEF Known
<1> QED BY <1>4, <1>5 DEF Looked

LEMMA FilterTaken ==
  ASSUME BufferInv, WaitInv, SolidInv, TakenInv, Filter PROVE TakenInv'
<1>1. /\ UNCHANGED <<base, heard, rx, fifo, pc, inDgram, payload>> /\ pc = "serialize"
      /\ batch # << >> /\ batch' = Tail(batch)
      /\ fate' = [fate EXCEPT ![Head(batch).id] = "filtered"]
  BY DEF Filter, airVars, outerVars
<1>2. /\ Head(batch).id = Looked /\ Looked \in Ids /\ fate[Looked] = "held"
  BY <1>1, LookedFacts
<1>3. /\ fate'[Looked] = "filtered"
      /\ \A x \in Ids : x # Looked => fate'[x] = fate[x]
  BY <1>1, <1>2 DEF WaitInv
<1>4. Over(fate')
  BY <1>2, <1>3, BufferFacts, OverKept DEF TakenInv
<1>5. \A x \in Ids : fate'[x] = "accepted" <=> fate[x] = "accepted"
  BY <1>2, <1>3
<1>6. ASSUME Pending, batch' # << >>, NEW z \in Ids, payload < z, z < batch'[1].id
      PROVE  fate'[z] \in {"filtered", "unusable"}
  <2>1. batch'[1].id = Looked + 1
    BY <1>1, <1>6, NextLooked
  <2>2. z = Looked \/ z < Looked
    BY <1>2, <1>6, <2>1 DEF Ids
  <2>3. z # Looked => fate[z] \in {"filtered", "unusable"}
    BY <1>1, <1>6, <2>2 DEF TakenInv
  <2> QED BY <1>3, <2>3
<1> QED BY <1>1, <1>4, <1>5, <1>6 DEF TakenInv, Pending, Looked

LEMMA TakeTaken ==
  ASSUME BufferInv, WaitInv, SolidInv, TakenInv, Take PROVE TakenInv'
<1>1. /\ Head(batch).id = Looked /\ Looked \in Ids /\ fate[Looked] = "held"
      /\ UNCHANGED <<base, pc>> /\ pc = "serialize" /\ batch # << >> /\ batch' = Tail(batch)
      /\ payload' = Looked /\ inDgram' = TRUE /\ PACKETS \in Nat
  BY TakeFate, LookedFacts, BufferFacts
<1>2. \A x \in Ids : fate'[x] = IF x = Looked THEN "accepted"
                       ELSE IF fate[x] = "accepted" THEN "overwritten" ELSE fate[x]
  BY <1>1, TakeFate
<1>3. Looked > base
  BY <1>1 DEF WaitInv
<1>4. \A x \in Ids : fate'[x] = "accepted" <=> x = Looked
  BY <1>2
<1>5. ASSUME batch' # << >> PROVE batch'[1].id = Looked + 1
  BY <1>1, <1>5, NextLooked
<1>6. ASSUME batch' # << >>, NEW z \in Ids, Looked < z, z < batch'[1].id PROVE FALSE
  BY <1>1, <1>5, <1>6 DEF Ids
<1>7. ASSUME Pending
      PROVE  /\ payload < Looked /\ payload \in Ids
             /\ \A z \in payload+1 .. Looked-1 : fate[z] \in {"filtered", "unusable"}
  <2>1. payload \in 1 .. heard /\ Ahead(payload, batch)
    BY <1>7 DEF BufferInv, OrderInv
  <2>2. 1 \in 1 .. Len(batch)
    BY <1>1, BufferFacts, TailIds
  <2>3. payload < Looked
    BY <2>1, <2>2 DEF Ahead, Looked
  <2>4. payload \in Ids
    BY <2>1, BufferFacts
  <2>5. \A z \in payload+1 .. Looked-1 : z \in Ids /\ payload < z /\ z < Looked
    BY <1>1, <2>4 DEF Ids
  <2> QED BY <1>1, <1>7, <2>3, <2>4, <2>5 DEF TakenInv
<1>8. Over(fate')
  <2> SUFFICES ASSUME NEW x \in Ids, fate'[x] = "overwritten"
               PROVE  \E y \in x+1 .. PACKETS :
                        /\ fate'[y] \in {"forwarded", "accepted"}
                        /\ \A z \in x+1 .. y-1 : fate'[z] \in Between
    BY DEF Over
  \* The packet whose payload was kept gives way to this one.
  <2>1. CASE fate[x] = "accepted"
    <3>1. Pending /\ x = payload
      BY <2>1 DEF TakenInv
    <3>2. Looked \in x+1 .. PACKETS
      BY <1>1, <1>7, <3>1 DEF Ids
    <3>3. ASSUME NEW z \in x+1 .. Looked-1 PROVE fate'[z] \in Between
      <4>1. z \in Ids /\ z # Looked /\ fate[z] \in {"filtered", "unusable"}
        BY <1>1, <1>7, <3>1 DEF Ids
      <4> QED BY <1>2, <4>1 DEF Between
    <3> QED BY <1>4, <1>1, <3>2, <3>3
  \* What was replaced before has the same witness, or this packet.
  <2>2. CASE fate[x] = "overwritten"
    <3>1. PICK y \in x+1 .. PACKETS : /\ fate[y] \in {"forwarded", "accepted"}
                                      /\ \A z \in x+1 .. y-1 : fate[z] \in Between
      BY <2>2 DEF TakenInv, Over
    <3>2. y \in Ids /\ \A z \in x+1 .. y-1 : z \in Ids
      BY <1>1 DEF Ids
    <3>3. ASSUME NEW z \in Ids, fate[z] \in Between PROVE fate'[z] \in Between
      BY <1>1, <1>2, <3>3 DEF Between
    <3>4. CASE fate[y] = "forwarded"
      BY <1>1, <1>2, <3>1, <3>2, <3>3, <3>4
    <3>5. CASE fate[y] = "accepted"
      <4>1. Pending /\ y = payload
        BY <3>2, <3>5 DEF TakenInv
      <4>2. Looked \in x+1 .. PACKETS
        BY <1>1, <1>7, <4>1 DEF Ids
      <4>3. fate'[y] = "overwritten"
        BY <1>1, <1>2, <3>2, <3>5
      <4>4. ASSUME NEW z \in x+1 .. Looked-1 PROVE fate'[z] \in Between
        <5>1. CASE z \in x+1 .. y-1
          BY <3>1, <3>2, <3>3, <5>1
        <5>2. CASE z = y
          BY <4>3, <5>2 DEF Between
        <5>3. CASE z \in y+1 .. Looked-1
          <6>1. fate[z] \in Between /\ z \in Ids
            BY <1>1, <1>7, <4>1, <5>3 DEF Between, Ids
          <6> QED BY <3>3, <6>1
        <5> QED BY <1>1, <3>2, <5>1, <5>2, <5>3 DEF Ids
      <4> QED BY <1>1, <1>4, <4>2, <4>4
    <3> QED BY <3>1, <3>4, <3>5
  <2> QED BY <1>2, <2>1, <2>2
<1> QED BY <1>1, <1>3, <1>4, <1>6, <1>8 DEF TakenInv, Pending, Looked

\* The packet whose payload is forwarded is the one that is accepted.
LEMMA ForwardFate ==
  ASSUME BufferInv, WaitInv, TakenInv, Forward, inDgram
  PROVE  /\ payload \in Ids /\ payload \in 1 .. heard /\ payload > base
         /\ fate[payload] = "accepted" /\ fate' = [fate EXCEPT ![payload] = "forwarded"]
<1>1. Pending /\ payload \in 1 .. heard /\ payload > base
  BY DEF Forward, Pending, BufferInv, OrderInv, TakenInv
<1>2. payload \in Ids
  BY <1>1, BufferFacts
<1>3. fate[payload] = "accepted"
  BY <1>1, <1>2 DEF TakenInv
<1> QED BY <1>1, <1>2, <1>3 DEF Forward

LEMMA ForwardTaken == ASSUME BufferInv, WaitInv, TakenInv, Forward PROVE TakenInv'
<1>1. ~Pending' /\ PACKETS \in Nat
  BY BufferFacts DEF Forward, Pending
<1>2. CASE ~inDgram
  <2>1. ~Pending /\ fate' = fate
    BY <1>2 DEF Forward, Pending
  <2> QED BY <1>1, <2>1, IdleTaken
<1>3. CASE inDgram
  <2>1. /\ payload \in Ids /\ fate[payload] = "accepted"
        /\ fate' = [fate EXCEPT ![payload] = "forwarded"]
    BY <1>3, ForwardFate
  <2>2. \A x \in Ids : fate'[x] = IF x = payload THEN "forwarded" ELSE fate[x]
    BY <2>1 DEF WaitInv
  <2>3. Over(fate')
    BY <1>1, <2>1, <2>2, OverKept DEF TakenInv
  <2>4. \A x \in Ids : fate'[x] # "accepted"
    BY <2>2 DEF TakenInv
  <2> QED BY <1>1, <2>3, <2>4 DEF TakenInv
<1> QED BY <1>2, <1>3

LEMMA NextTaken ==
  BufferInv /\ WaitInv /\ SolidInv /\ TakenInv /\ [Next]_vars => TakenInv'
<1> SUFFICES ASSUME BufferInv, WaitInv, SolidInv, TakenInv, [Next]_vars PROVE TakenInv'
  OBVIOUS
<1>1. CASE Tick \/ GetInstcnt \/ Stop \/ UNCHANGED vars
  BY <1>1, BufferFacts, StayTaken DEF Tick, GetInstcnt, Stop, vars, resultVars, outerVars
<1>2. CASE Fetch \/ FetchFails \/ Update \/ TemperatureFails \/ Parse
             \/ ParseWarning \/ ParseError \/ Leave \/ Restart
  BY <1>2, SettleTaken
<1> QED
  BY <1>1, <1>2, HearTaken, FilterTaken, TakeTaken, ForwardTaken DEF Next

LEMMA ForwardWait == ASSUME BufferInv, WaitInv, TakenInv, Forward PROVE WaitInv'
<1>1. UNCHANGED <<base, heard, rx, fifo, batch>> /\ pc' = "top" /\ pc # "stopped"
  BY DEF Forward, airVars
<1>2. Waiting' = Waiting
  BY <1>1 DEF Waiting
<1>3. CASE ~inDgram
  BY <1>1, <1>2, <1>3, QuietWait DEF Forward
<1>4. CASE inDgram
  <2>1. /\ payload \in Ids /\ fate[payload] = "accepted" /\ payload \in 1 .. heard
        /\ fate' = [fate EXCEPT ![payload] = "forwarded"]
    BY <1>4, ForwardFate
  <2>2. /\ fate' \in [Ids -> Fates]
        /\ \A x \in Ids : fate'[x] = IF x = payload THEN "forwarded" ELSE fate[x]
    BY <2>1 DEF WaitInv, Fates
  <2>3. ~(payload > heard)
    BY <2>1, BufferFacts
  <2> QED BY <1>1, <1>2, <2>1, <2>2, <2>3 DEF WaitInv
<1> QED BY <1>3, <1>4

LEMMA NextWait ==
  BufferInv /\ WaitInv /\ TakenInv /\ [Next]_vars => WaitInv'
<1> SUFFICES ASSUME BufferInv, WaitInv, TakenInv, [Next]_vars PROVE WaitInv'
  OBVIOUS
<1>1. CASE Tick \/ GetInstcnt \/ Stop \/ Update \/ UNCHANGED vars
  <2>1. UNCHANGED <<fate, base, heard, batch, rx, fifo>>
    BY <1>1 DEF Tick, GetInstcnt, Stop, Update, vars, airVars, outerVars
  <2>2. pc' = pc \/ (pc # "stopped" /\ pc' # "stopped")
    BY <1>1 DEF Tick, GetInstcnt, Stop, Update, vars
  <2> QED BY <2>1, <2>2 DEF WaitInv, Waiting
<1>2. CASE FetchFails \/ TemperatureFails \/ ParseError \/ Leave
  <2>1. UNCHANGED <<fate, base, heard>> /\ pc' = "stopped"
    BY <1>2 DEF FetchFails, TemperatureFails, ParseError, Leave, Abort, airVars, outerVars
  <2> QED BY <2>1, QuietWait
<1> QED
  BY <1>1, <1>2, HearWait, FetchWait, ParseWait, WarningWait, FilterWait, TakeWait,
     ForwardWait, RestartWait DEF Next

-----------------------------------------------------------------------------
\* The rest of the types, and the metadata of what is pending.
MetaType == [all : 0 .. PACKETS, modu : {"unset", "LORA", "FSK"},
             lora : 0 .. PACKETS, fsk : 0 .. PACKETS]
MeasType == [DOMAIN NoMeas -> Nat]
JavaType == [{"received", "values"} -> Nat]

RestInv ==
  /\ pc \in {"top", "fetched", "updated", "serialize", "stopped"}
  /\ stopReq \in BOOLEAN /\ inDgram \in BOOLEAN
  /\ meta \in MetaType /\ payload \in 0 .. PACKETS
  /\ meas \in MeasType /\ java \in JavaType
  /\ restarts \in 0 .. RESTARTS /\ out \in Seq(Ids)

LEMMA MeasFacts ==
  /\ DOMAIN NoMeas = {"rcv", "ok", "bad", "nocrc", "fwd", "sent"}
  /\ NoMeas \in MeasType
BY DEF NoMeas, MeasType

\* One number of a record of numbers is changed.
LEMMA NumberSet ==
  ASSUME NEW D, NEW f \in [D -> Nat], NEW a \in D, NEW n \in Nat,
         NEW g, g = [f EXCEPT ![a] = n]
  PROVE  g \in [D -> Nat] /\ g[a] = n /\ \A x \in D : x # a => g[x] = f[x]
OBVIOUS

\* A packet that is counted has one of the three statuses, or none of them.
LEMMA CountedFacts ==
  ASSUME meas \in MeasType, NEW status, NEW taken \in BOOLEAN
  PROVE  /\ Counted(status, taken) \in MeasType
         /\ Counted(status, taken).rcv = meas.rcv + 1
         /\ Counted(status, taken).sent = meas.sent
         /\ Counted(status, taken).fwd = meas.fwd + IF taken THEN 1 ELSE 0
         /\ Counted(status, taken).ok + Counted(status, taken).bad + Counted(status, taken).nocrc
              <= meas.ok + meas.bad + meas.nocrc + 1
<1> DEFINE ok    == IF status = "ok" THEN 1 ELSE 0
           bad   == IF status = "bad" THEN 1 ELSE 0
           nocrc == IF status = "none" THEN 1 ELSE 0
           fwd   == IF taken THEN 1 ELSE 0
           m     == [meas EXCEPT !.rcv = @ + 1, !.ok = @ + ok, !.bad = @ + bad,
                       !.nocrc = @ + nocrc, !.fwd = @ + fwd]
<1>1. ok \in Nat /\ bad \in Nat /\ nocrc \in Nat /\ fwd \in Nat /\ ok + bad + nocrc <= 1
  OBVIOUS
<1>2. Counted(status, taken) = m
  BY DEF Counted
<1> HIDE DEF ok, bad, nocrc, fwd
<1>3. meas \in [{"rcv", "ok", "bad", "nocrc", "fwd", "sent"} -> Nat]
  BY MeasFacts DEF MeasType
<1> DEFINE D  == {"rcv", "ok", "bad", "nocrc", "fwd", "sent"}
           m1 == [meas EXCEPT !["rcv"] = meas.rcv + 1]
           m2 == [m1 EXCEPT !["ok"] = meas.ok + ok]
           m3 == [m2 EXCEPT !["bad"] = meas.bad + bad]
           m4 == [m3 EXCEPT !["nocrc"] = meas.nocrc + nocrc]
           m5 == [m4 EXCEPT !["fwd"] = meas.fwd + fwd]
<1>4. m = m5
  OBVIOUS
<1>5. /\ meas.rcv + 1 \in Nat /\ meas.ok + ok \in Nat /\ meas.bad + bad \in Nat
      /\ meas.nocrc + nocrc \in Nat /\ meas.fwd + fwd \in Nat
  BY <1>1, <1>3
<1>6. /\ m1 \in [D -> Nat] /\ m1["rcv"] = meas.rcv + 1
      /\ \A x \in D : x # "rcv" => m1[x] = meas[x]
  BY <1>3, <1>5, NumberSet
<1> HIDE DEF m1
<1>7. /\ m2 \in [D -> Nat] /\ m2["ok"] = meas.ok + ok
      /\ \A x \in D : x # "ok" => m2[x] = m1[x]
  BY <1>5, <1>6, NumberSet
<1> HIDE DEF m2
<1>8. /\ m3 \in [D -> Nat] /\ m3["bad"] = meas.bad + bad
      /\ \A x \in D : x # "bad" => m3[x] = m2[x]
  BY <1>5, <1>7, NumberSet
<1> HIDE DEF m3
<1>9. /\ m4 \in [D -> Nat] /\ m4["nocrc"] = meas.nocrc + nocrc
      /\ \A x \in D : x # "nocrc" => m4[x] = m3[x]
  BY <1>5, <1>8, NumberSet
<1> HIDE DEF m4
<1>10. /\ m5 \in [D -> Nat] /\ m5["fwd"] = meas.fwd + fwd
      /\ \A x \in D : x # "fwd" => m5[x] = m4[x]
  BY <1>5, <1>9, NumberSet
<1> HIDE DEF m5, m
<1>11. m \in [{"rcv", "ok", "bad", "nocrc", "fwd", "sent"} -> Nat]
  BY <1>4, <1>10
<1>12. /\ m.rcv = meas.rcv + 1 /\ m.ok = meas.ok + ok /\ m.bad = meas.bad + bad
      /\ m.nocrc = meas.nocrc + nocrc /\ m.fwd = meas.fwd + fwd /\ m.sent = meas.sent
  BY <1>4, <1>6, <1>7, <1>8, <1>9, <1>10
<1>13. meas.ok \in Nat /\ meas.bad \in Nat /\ meas.nocrc \in Nat
  BY <1>3
<1>14. m.ok + m.bad + m.nocrc <= meas.ok + meas.bad + meas.nocrc + 1
  BY <1>1, <1>12, <1>13
<1>15. m \in MeasType
  BY <1>11, MeasFacts DEF MeasType
<1>16. fwd = IF taken THEN 1 ELSE 0
  BY DEF fwd
<1> QED BY <1>2, <1>12, <1>14, <1>15, <1>16, Zenon

LEMMA DescribedType ==
  ASSUME meta \in MetaType, NEW p, p.id \in 0 .. PACKETS, NEW kind \in Kinds \ Refused
  PROVE  /\ Described(p, kind) \in MetaType /\ Described(p, kind).all = p.id
         /\ p.id = IF Described(p, kind).modu = "LORA" THEN Described(p, kind).lora
                   ELSE Described(p, kind).fsk
<1>1. kind # "range"
  BY DEF Kinds, Refused
<1>2. CASE kind = "fsk"
  <2>1. Described(p, kind) = [meta EXCEPT !.all = p.id, !.modu = "FSK", !.fsk = p.id]
    BY <1>2 DEF Described
  <2> QED BY <2>1 DEF MetaType
<1>3. CASE kind # "fsk"
  <2>1. Described(p, kind) = [meta EXCEPT !.all = p.id, !.modu = "LORA", !.lora = p.id]
    BY <1>1, <1>3 DEF Described
  <2> QED BY <2>1 DEF MetaType
<1> QED BY <1>2, <1>3

LEMMA InitRest == Init => RestInv
<1> SUFFICES ASSUME Init PROVE RestInv
  OBVIOUS
<1>1. PACKETS \in Nat /\ RESTARTS \in Nat
  BY UpstreamAssumption
<1>2. /\ pc = "top" /\ stopReq = FALSE /\ inDgram = FALSE /\ meta = NoMeta /\ payload = 0
      /\ meas = NoMeas /\ java = [received |-> 0, values |-> 0] /\ restarts = 0
      /\ out = << >>
  BY DEF Init
<1>3. NoMeta \in MetaType
  BY <1>1 DEF NoMeta, MetaType
<1>4. [received |-> 0, values |-> 0] \in JavaType
  BY DEF JavaType
<1>5. << >> \in Seq(Ids)
  BY EmptySeq
<1>6. meas \in MeasType /\ java \in JavaType /\ meta \in MetaType /\ out \in Seq(Ids)
  BY <1>2, <1>3, <1>4, <1>5, MeasFacts, Zenon
<1>7. stopReq \in BOOLEAN /\ inDgram \in BOOLEAN
  BY <1>2
<1>8. payload \in 0 .. PACKETS /\ restarts \in 0 .. RESTARTS
  BY <1>1, <1>2
<1>9. pc \in {"top", "fetched", "updated", "serialize", "stopped"}
  BY <1>2
<1> QED BY <1>6, <1>7, <1>8, <1>9, Zenon DEF RestInv

LEMMA NextRest == BufferInv /\ RestInv /\ WaitInv /\ TakenInv /\ [Next]_vars => RestInv'
<1> SUFFICES ASSUME BufferInv, RestInv, WaitInv, TakenInv, [Next]_vars PROVE RestInv'
  OBVIOUS
<1>1. CASE Tick \/ Hear \/ GetInstcnt \/ Fetch \/ FetchFails \/ Update \/ TemperatureFails
           \/ ParseWarning \/ ParseError \/ Stop \/ Leave \/ UNCHANGED vars
  <2>1. UNCHANGED <<resultVars, java, restarts, out>>
    BY <1>1 DEF Tick, Hear, GetInstcnt, Fetch, FetchFails, Update, TemperatureFails,
      ParseWarning, ParseError, Stop, Leave, vars, outerVars
  <2>2. /\ pc' \in {"top", "fetched", "updated", "serialize", "stopped"}
        /\ stopReq' \in BOOLEAN
    BY <1>1 DEF RestInv, Tick, Hear, GetInstcnt, Fetch, FetchFails, Update,
      TemperatureFails, ParseWarning, ParseError, Stop, Leave, Abort, vars
  <2> QED BY <2>1, <2>2 DEF RestInv, resultVars
<1>2. CASE Parse
  BY <1>2 DEF Parse, Begun, RestInv, outerVars
<1>3. CASE Filter
  <2>1. \E status : meas' = Counted(status, FALSE)
    BY <1>3 DEF Filter
  <2>2. meas' \in MeasType
    BY <2>1, CountedFacts DEF RestInv
  <2> QED BY <1>3, <2>2 DEF Filter, RestInv, outerVars
<1>4. CASE Take
  <2>1. PICK kind \in Kinds \ Refused :
          /\ \E status : meas' = Counted(status, TRUE)
          /\ meta' = Described(Head(batch), kind)
    BY <1>4 DEF Take
  <2>2. Head(batch).id \in 0 .. PACKETS
    BY <1>4, TakeFate, LookedFacts, BufferFacts DEF Ids
  <2>3. meas' \in MeasType /\ meta' \in MetaType
    BY <2>1, <2>2, CountedFacts, DescribedType DEF RestInv
  <2>4. payload' \in 0 .. PACKETS /\ inDgram' = TRUE
    BY <1>4, <2>2, TakeFate
  <2> QED BY <1>4, <2>3, <2>4 DEF Take, RestInv, outerVars
<1>5. CASE Forward /\ ~inDgram
  BY <1>5 DEF Forward, RestInv
<1>6. CASE Forward /\ inDgram
  <2>1. PICK identified \in BOOLEAN : java' = Told(identified)
    BY <1>6 DEF Forward
  <2>2. java' \in JavaType
    <3>1. java \in [{"received", "values"} -> Nat]
      BY DEF RestInv, JavaType
    <3>2. java.received \in Nat /\ java.values \in Nat
      BY <3>1
    <3>3. CASE identified
      <4>1. java' = [received |-> java.received + 1, values |-> java.values + 1]
        BY <2>1, <3>3 DEF Told
      <4> QED BY <3>2, <4>1 DEF JavaType
    <3>4. CASE ~identified
      <4>1. java' = [java EXCEPT !.received = @ + 2]
        BY <2>1, <3>4 DEF Told
      <4> QED BY <3>1, <4>1 DEF JavaType
    <3> QED BY <3>3, <3>4
  <2>3. meas' \in MeasType
    <3>1. meas' = [meas EXCEPT !["sent"] = meas.sent + 1]
      BY <1>6 DEF Forward
    <3>2. meas \in [{"rcv", "ok", "bad", "nocrc", "fwd", "sent"} -> Nat]
      BY MeasFacts DEF MeasType, RestInv
    <3>3. meas' \in [{"rcv", "ok", "bad", "nocrc", "fwd", "sent"} -> Nat]
      BY <3>1, <3>2
    <3> QED BY <3>3, MeasFacts DEF MeasType
  <2>4. out' \in Seq(Ids)
    <3>1. out' = Append(out, payload) /\ payload \in Ids /\ out \in Seq(Ids)
      BY <1>6, ForwardFate DEF Forward, RestInv
    <3> QED BY <3>1, AppendProperties
  <2> QED BY <1>6, <2>2, <2>3, <2>4 DEF Forward, RestInv
<1>7. CASE Restart
  <2>1. PACKETS \in Nat /\ restarts' \in 0 .. RESTARTS
    BY <1>7, UpstreamAssumption DEF Restart, RestInv
  <2>2. NoMeta \in MetaType
    BY <2>1 DEF NoMeta, MetaType
  <2>3. meas' \in MeasType /\ meta' \in MetaType
    BY <1>7, <2>2, MeasFacts, Zenon DEF Restart
  <2>4. java' = java /\ out' = out /\ payload' = 0 /\ pc' = "top"
    BY <1>7 DEF Restart
  <2>5. stopReq' \in BOOLEAN /\ inDgram' \in BOOLEAN
    BY <1>7 DEF Restart
  <2>6. java' \in JavaType /\ out' \in Seq(Ids) /\ payload' \in 0 .. PACKETS
    BY <2>1, <2>4 DEF RestInv
  <2> QED BY <2>1, <2>3, <2>4, <2>5, <2>6 DEF RestInv
<1> QED
  BY <1>1, <1>2, <1>3, <1>4, <1>5, <1>6, <1>7 DEF Next

\* The metadata follows the payload when one is taken, and only then changes.
LEMMA NextMeta ==
  BufferInv /\ RestInv /\ WaitInv /\ MetaOfPayload /\ [Next]_vars => MetaOfPayload'
<1> SUFFICES ASSUME BufferInv, RestInv, WaitInv, MetaOfPayload, [Next]_vars
             PROVE  MetaOfPayload'
  OBVIOUS
<1>1. CASE Take
  <2>1. PICK kind \in Kinds \ Refused : meta' = Described(Head(batch), kind)
    BY <1>1 DEF Take
  <2>2. Head(batch).id \in 0 .. PACKETS /\ payload' = Head(batch).id
    BY <1>1, TakeFate, LookedFacts, BufferFacts DEF Ids
  <2>3. meta'.all = payload' /\ payload' = IF meta'.modu = "LORA" THEN meta'.lora ELSE meta'.fsk
    BY <2>1, <2>2, DescribedType DEF RestInv
  <2> QED BY <2>3 DEF MetaOfPayload
<1>2. CASE Parse
  BY <1>2 DEF Parse, Begun, MetaOfPayload
<1>3. CASE Filter
  BY <1>3 DEF Filter, MetaOfPayload
<1>4. CASE Tick \/ Hear \/ GetInstcnt \/ Stop \/ UNCHANGED vars
  BY <1>4 DEF Tick, Hear, GetInstcnt, Stop, vars, resultVars, MetaOfPayload
<1>5. CASE Fetch \/ FetchFails \/ Update \/ TemperatureFails \/ ParseWarning
           \/ ParseError \/ Forward \/ Leave \/ Restart
  <2>1. pc' # "serialize"
    BY <1>5 DEF Fetch, FetchFails, Update, TemperatureFails, ParseWarning, ParseError,
      Forward, Leave, Restart, Abort
  <2> QED BY <2>1 DEF MetaOfPayload
<1> QED
  BY <1>1, <1>2, <1>3, <1>4, <1>5 DEF Next

-----------------------------------------------------------------------------
\* The packets of this start with a fate among fs, and how many they are.
Chosen(fs) == {x \in base+1 .. heard : fate[x] \in fs}
Taken   == {"unusable", "accepted", "overwritten", "forwarded"}
Counts3 ==
  /\ meas.rcv = Cardinality(Chosen(Taken \cup {"filtered"}))
  /\ meas.fwd = Cardinality(Chosen(Taken))
  /\ meas.sent = Cardinality(Chosen({"forwarded"}))

ToldInv ==
  /\ meas.ok + meas.bad + meas.nocrc <= meas.rcv
  /\ java.received + java.values = 2 * Len(out)
  /\ java.values <= Len(out)

CountInv == Counts3 /\ ToldInv

LEMMA ChosenFinite ==
  ASSUME BufferInv, WaitInv
  PROVE  \A fs : IsFiniteSet(Chosen(fs)) /\ Cardinality(Chosen(fs)) \in Nat
<1>1. base + 1 \in Int /\ heard \in Int
  BY BufferFacts DEF WaitInv
<1>2. IsFiniteSet(base+1 .. heard)
  BY <1>1, FS_Interval
<1>3. ASSUME NEW fs PROVE IsFiniteSet(Chosen(fs)) /\ Cardinality(Chosen(fs)) \in Nat
  <2>1. Chosen(fs) \in SUBSET (base+1 .. heard)
    BY DEF Chosen
  <2>2. IsFiniteSet(Chosen(fs))
    BY <1>2, <2>1, FS_Subset
  <2> QED BY <2>2, FS_CardinalityType
<1> QED BY <1>3

\* A packet that joins the chosen ones is one more.
LEMMA OneMore ==
  ASSUME BufferInv, WaitInv, NEW fs, NEW x, x \notin Chosen(fs),
         Chosen(fs)' = Chosen(fs) \cup {x}
  PROVE  Cardinality(Chosen(fs))' = Cardinality(Chosen(fs)) + 1
<1>1. IsFiniteSet(Chosen(fs))
  BY ChosenFinite
<1>2. Cardinality(Chosen(fs) \cup {x}) = Cardinality(Chosen(fs)) + 1
  BY <1>1, FS_AddElement, Zenon
<1> QED BY <1>2, Zenon

\* One packet of this start changes its fate.
LEMMA ChosenMove ==
  ASSUME BufferInv, WaitInv, UNCHANGED <<base, heard>>, NEW fs, NEW x \in base+1 .. heard,
         fate[x] \notin fs, fate'[x] \in fs,
         \A z \in Ids : z # x => (fate'[z] \in fs <=> fate[z] \in fs)
  PROVE  Cardinality(Chosen(fs))' = Cardinality(Chosen(fs)) + 1
<1>1. \A z \in base+1 .. heard : z \in Ids
  BY BufferFacts DEF Ids, WaitInv
<1>2. x \notin Chosen(fs) /\ Chosen(fs)' = Chosen(fs) \cup {x}
  BY <1>1 DEF Chosen
<1> QED BY <1>2, OneMore

LEMMA ChosenStay ==
  ASSUME BufferInv, WaitInv, UNCHANGED <<base, heard>>, NEW fs,
         \A z \in Ids : fate'[z] \in fs <=> fate[z] \in fs
  PROVE  Chosen(fs)' = Chosen(fs)
<1>1. \A z \in base+1 .. heard : z \in Ids
  BY BufferFacts DEF Ids, WaitInv
<1> QED BY <1>1 DEF Chosen

\* The packets taken are those forwarded and those that have given way or wait.
LEMMA CountersByName == BufferInv /\ WaitInv /\ CountInv => CountersAgree
<1> SUFFICES ASSUME BufferInv, WaitInv, CountInv PROVE CountersAgree
  OBVIOUS
<1> DEFINE gaveWay == {"unusable", "accepted", "overwritten"}
           F == Chosen({"forwarded"})
           G == Chosen(gaveWay)
<1>1. /\ IsFiniteSet(F) /\ Cardinality(F) \in Nat
      /\ IsFiniteSet(G) /\ Cardinality(G) \in Nat
  BY ChosenFinite
<1>2. /\ Chosen(Taken) = F \cup G /\ F \cap G = {}
      /\ Taken \cup {"filtered"} = gaveWay \cup {"forwarded", "filtered"}
  BY DEF Chosen, Taken
<1> HIDE DEF F, G
<1>3. Cardinality(F \cup G) = Cardinality(F) + Cardinality(G) - Cardinality(F \cap G)
  BY <1>1, FS_Union
<1>4. Cardinality(F \cap G) = 0
  BY <1>2, FS_EmptySet
<1>5. meas.fwd = Cardinality(F) + Cardinality(G) /\ meas.sent = Cardinality(F)
  BY <1>1, <1>2, <1>3, <1>4 DEF CountInv, Counts3, F
<1>6. meas.sent = Cardinality(F) /\ meas.fwd - meas.sent = Cardinality(G)
  BY <1>1, <1>5
<1>7. meas.rcv = Cardinality(Chosen(gaveWay \cup {"forwarded", "filtered"})) /\ ToldInv
  BY <1>2, Zenon DEF CountInv, Counts3
<1> QED BY <1>6, <1>7, Zenon DEF CountersAgree, ToldInv, Chosen, F, G

LEMMA HearChosen ==
  ASSUME BufferInv, WaitInv, Hear, NEW fs, "held" \notin fs
  PROVE  Chosen(fs)' = Chosen(fs)
<1>1. /\ heard \in Nat /\ heard' = heard + 1 /\ base' = base /\ base \in 0 .. heard
      /\ heard + 1 \in Ids /\ fate' = [fate EXCEPT ![heard + 1] = "held"]
  BY BufferFacts DEF Hear, outerVars, WaitInv, Ids
<1>2. fate'[heard + 1] = "held" /\ \A z \in Ids : z # heard + 1 => fate'[z] = fate[z]
  BY <1>1 DEF WaitInv
<1>3. \A z \in base+1 .. heard : z \in Ids /\ z # heard + 1
  BY <1>1, BufferFacts DEF Ids
<1>4. \A z : z \in base+1 .. heard+1 <=> z \in base+1 .. heard \/ z = heard + 1
  BY <1>1
<1> QED BY <1>1, <1>2, <1>3, <1>4 DEF Chosen

LEMMA InitCounts == Init => CountInv
<1> SUFFICES ASSUME Init PROVE CountInv
  OBVIOUS
<1>1. \A fs : Chosen(fs) = {}
  BY DEF Init, Chosen
<1>2. meas = NoMeas /\ java = [received |-> 0, values |-> 0] /\ Len(out) = 0
  BY EmptySeq DEF Init
<1>3. Counts3
  BY <1>1, <1>2, FS_EmptySet DEF Counts3, NoMeas
<1>4. ToldInv
  BY <1>2 DEF ToldInv, NoMeas
<1> QED BY <1>3, <1>4 DEF CountInv

LEMMA MeasNumbers ==
  ASSUME RestInv
  PROVE  /\ meas.rcv \in Nat /\ meas.fwd \in Nat /\ meas.sent \in Nat
         /\ meas.ok \in Nat /\ meas.bad \in Nat /\ meas.nocrc \in Nat
         /\ java.received \in Nat /\ java.values \in Nat
         /\ Len(out) \in Nat
<1>1. meas \in [{"rcv", "ok", "bad", "nocrc", "fwd", "sent"} -> Nat]
  BY MeasFacts DEF MeasType, RestInv
<1>2. java \in [{"received", "values"} -> Nat] /\ out \in Seq(Ids)
  BY DEF RestInv, JavaType
<1> QED BY <1>1, <1>2, LenProperties

\* A packet is looked at: it is counted once, and as taken when it is.
LEMMA LookCounts ==
  ASSUME BufferInv, WaitInv, RestInv, CountInv, Filter \/ Take
  PROVE  CountInv'
<1>1. /\ UNCHANGED <<base, heard, java, out>> /\ Looked \in Ids /\ fate[Looked] = "held"
      /\ Head(batch).id = Looked /\ Looked \in 1 .. heard
  BY LookedFacts DEF Filter, Take, airVars, outerVars
<1>2. Looked \in base+1 .. heard
  BY <1>1, BufferFacts DEF WaitInv
<1>3. PICK taken \in BOOLEAN : /\ (Filter /\ taken = FALSE) \/ (Take /\ taken = TRUE)
                               /\ \E status : meas' = Counted(status, taken)
  BY DEF Filter, Take
<1>4. /\ meas'.rcv = meas.rcv + 1 /\ meas'.sent = meas.sent
      /\ meas'.fwd = meas.fwd + IF taken THEN 1 ELSE 0
      /\ meas'.ok + meas'.bad + meas'.nocrc <= meas.ok + meas.bad + meas.nocrc + 1
  BY <1>3, CountedFacts DEF RestInv
<1>5. /\ ~taken => fate'[Looked] = "filtered"
      /\ taken => fate'[Looked] = "accepted"
      /\ \A z \in Ids : z # Looked =>
           fate'[z] = fate[z] \/ (fate[z] = "accepted" /\ fate'[z] = "overwritten")
  <2>1. CASE Filter /\ taken = FALSE
    <3>1. fate' = [fate EXCEPT ![Looked] = "filtered"]
      BY <1>1, <2>1 DEF Filter
    <3> QED BY <1>1, <2>1, <3>1 DEF WaitInv
  <2>2. CASE Take /\ taken = TRUE
    BY <1>1, <2>2, TakeFate
  <2> QED BY <1>3, <2>1, <2>2
<1>6. Cardinality(Chosen(Taken \cup {"filtered"}))'
        = Cardinality(Chosen(Taken \cup {"filtered"})) + 1
  <2>1. fate[Looked] \notin Taken \cup {"filtered"} /\ fate'[Looked] \in Taken \cup {"filtered"}
    BY <1>1, <1>5 DEF Taken
  <2>2. \A z \in Ids : z # Looked =>
          (fate'[z] \in Taken \cup {"filtered"} <=> fate[z] \in Taken \cup {"filtered"})
    BY <1>5 DEF Taken
  <2> QED BY <1>1, <1>2, <2>1, <2>2, ChosenMove
<1>7. Cardinality(Chosen(Taken))' = Cardinality(Chosen(Taken)) + IF taken THEN 1 ELSE 0
  <2>1. \A z \in Ids : z # Looked => (fate'[z] \in Taken <=> fate[z] \in Taken)
    BY <1>5 DEF Taken
  <2>2. CASE taken
    <3>1. fate[Looked] \notin Taken /\ fate'[Looked] \in Taken
      BY <1>1, <1>5, <2>2 DEF Taken
    <3>2. Cardinality(Chosen(Taken))' = Cardinality(Chosen(Taken)) + 1
      BY <1>1, <1>2, <2>1, <3>1, ChosenMove
    <3> QED BY <2>2, <3>2
  <2>3. CASE ~taken
    <3>1. fate[Looked] \notin Taken /\ fate'[Looked] \notin Taken
      BY <1>1, <1>5, <2>3 DEF Taken
    <3>2. \A z \in Ids : fate'[z] \in Taken <=> fate[z] \in Taken
      BY <2>1, <3>1
    <3>3. Chosen(Taken)' = Chosen(Taken)
      BY <1>1, <3>2, ChosenStay
    <3>4. Cardinality(Chosen(Taken)) \in Nat
      BY ChosenFinite
    <3> QED BY <2>3, <3>3, <3>4
  <2> QED BY <2>2, <2>3
<1>8. Chosen({"forwarded"})' = Chosen({"forwarded"})
  <2>1. \A z \in Ids : fate'[z] \in {"forwarded"} <=> fate[z] \in {"forwarded"}
    BY <1>1, <1>5
  <2> QED BY <1>1, <2>1, ChosenStay
<1>9. Counts3'
  BY <1>4, <1>6, <1>7, <1>8 DEF CountInv, Counts3
<1>10. ToldInv'
  <2>1. meas'.ok + meas'.bad + meas'.nocrc <= meas'.rcv
    <3>1. meas'.ok \in Nat /\ meas'.bad \in Nat /\ meas'.nocrc \in Nat
      <4>1. meas' \in MeasType
        BY <1>3, CountedFacts DEF RestInv
      <4> QED BY <4>1, MeasFacts DEF MeasType
    <3>2. meas.ok + meas.bad + meas.nocrc <= meas.rcv
      BY DEF CountInv, ToldInv
    <3> DEFINE s1 == meas.ok + meas.bad + meas.nocrc
               s2 == meas'.ok + meas'.bad + meas'.nocrc
               r1 == meas.rcv
               r2 == meas'.rcv
    <3>3. s1 \in Nat /\ s2 \in Nat /\ r1 \in Nat
      <4>1. /\ meas.ok \in Nat /\ meas.bad \in Nat /\ meas.nocrc \in Nat
            /\ meas.rcv \in Nat
        BY MeasNumbers
      <4>2. s1 \in Nat /\ r1 \in Nat
        BY <4>1
      <4>3. s2 \in Nat
        BY <3>1
      <4> QED BY <4>2, <4>3
    <3>4. r2 = r1 + 1 /\ s2 <= s1 + 1 /\ s1 <= r1
      BY <1>4, <3>2
    <3> HIDE DEF s1, s2, r1, r2
    <3>5. s2 <= r2
      BY <3>3, <3>4
    <3> QED BY <3>5 DEF s2, r2
  <2> QED BY <1>1, <2>1 DEF CountInv, ToldInv
<1> QED BY <1>9, <1>10 DEF CountInv

\* The payload kept is forwarded: one packet and one datagram more, and the
\* service is called twice.
LEMMA ForwardCounts ==
  ASSUME BufferInv, WaitInv, TakenInv, RestInv, CountInv, Forward, inDgram
  PROVE  CountInv'
<1>1. /\ UNCHANGED <<base, heard>> /\ payload \in Ids /\ payload \in base+1 .. heard
      /\ fate[payload] = "accepted" /\ fate' = [fate EXCEPT ![payload] = "forwarded"]
      /\ out' = Append(out, payload) /\ meas' = [meas EXCEPT !["sent"] = meas.sent + 1]
  <2>1. /\ payload \in Ids /\ payload \in 1 .. heard /\ payload > base
        /\ fate[payload] = "accepted" /\ fate' = [fate EXCEPT ![payload] = "forwarded"]
    BY ForwardFate
  <2> QED BY <2>1, BufferFacts DEF Forward, airVars, WaitInv
<1>2. \A z \in Ids : fate'[z] = IF z = payload THEN "forwarded" ELSE fate[z]
  BY <1>1 DEF WaitInv
<1>3. Chosen(Taken \cup {"filtered"})' = Chosen(Taken \cup {"filtered"})
  <2>1. \A z \in Ids : fate'[z] \in Taken \cup {"filtered"} <=> fate[z] \in Taken \cup {"filtered"}
    BY <1>1, <1>2 DEF Taken
  <2> QED BY <1>1, <2>1, ChosenStay
<1>4. Chosen(Taken)' = Chosen(Taken)
  <2>1. \A z \in Ids : fate'[z] \in Taken <=> fate[z] \in Taken
    BY <1>1, <1>2 DEF Taken
  <2> QED BY <1>1, <2>1, ChosenStay
<1>5. Cardinality(Chosen({"forwarded"}))' = Cardinality(Chosen({"forwarded"})) + 1
  <2>1. fate[payload] \notin {"forwarded"} /\ fate'[payload] \in {"forwarded"}
    BY <1>1, <1>2
  <2>2. \A z \in Ids : z # payload => (fate'[z] \in {"forwarded"} <=> fate[z] \in {"forwarded"})
    BY <1>2
  <2> QED BY <1>1, <2>1, <2>2, ChosenMove
<1>6. /\ meas'.rcv = meas.rcv /\ meas'.fwd = meas.fwd /\ meas'.sent = meas.sent + 1
      /\ meas'.ok = meas.ok /\ meas'.bad = meas.bad /\ meas'.nocrc = meas.nocrc
  <2>1. meas \in [{"rcv", "ok", "bad", "nocrc", "fwd", "sent"} -> Nat]
    BY MeasFacts DEF MeasType, RestInv
  <2> QED BY <1>1, <2>1
<1>7. Len(out') = Len(out) + 1
  <2>1. out \in Seq(Ids)
    BY DEF RestInv
  <2> QED BY <1>1, <2>1, AppendProperties
<1>8. PICK identified \in BOOLEAN : java' = Told(identified)
  BY DEF Forward
<1>9. /\ java'.received = java.received + (IF identified THEN 1 ELSE 2)
      /\ java'.values = java.values + (IF identified THEN 1 ELSE 0)
  <2>1. CASE identified
    BY <1>8, <2>1, MeasNumbers DEF Told
  <2>2. CASE ~identified
    <3>1. java' = [java EXCEPT !.received = @ + 2]
      BY <1>8, <2>2 DEF Told
    <3> QED BY <2>2, <3>1, MeasNumbers DEF RestInv, JavaType
  <2> QED BY <2>1, <2>2
<1>10. Counts3'
  BY <1>3, <1>4, <1>5, <1>6 DEF CountInv, Counts3
<1>11. ToldInv'
  <2>1. meas'.ok + meas'.bad + meas'.nocrc <= meas'.rcv
    BY <1>6 DEF CountInv, ToldInv
  <2> DEFINE r == java.received
             v == java.values
             n == Len(out)
  <2>2. r \in Nat /\ v \in Nat /\ n \in Nat
    BY MeasNumbers
  <2>3. r + v = 2 * n /\ v <= n
    BY DEF CountInv, ToldInv
  <2> HIDE DEF r, v, n
  <2>4. /\ (r + (IF identified THEN 1 ELSE 2)) + (v + (IF identified THEN 1 ELSE 0))
             = 2 * (n + 1)
        /\ v + (IF identified THEN 1 ELSE 0) <= n + 1
    BY <2>2, <2>3
  <2>5. java'.received + java'.values = 2 * Len(out') /\ java'.values <= Len(out')
    BY <1>7, <1>9, <2>4, Zenon DEF r, v, n
  <2> QED BY <2>1, <2>5 DEF ToldInv
<1> QED BY <1>10, <1>11 DEF CountInv

LEMMA SameCounts ==
  ASSUME CountInv, UNCHANGED <<meas, java, out>>,
         \A fs \in SUBSET (Taken \cup {"filtered"}) : Chosen(fs)' = Chosen(fs)
  PROVE  CountInv'
<1>1. /\ Chosen(Taken \cup {"filtered"})' = Chosen(Taken \cup {"filtered"})
      /\ Chosen(Taken)' = Chosen(Taken)
      /\ Chosen({"forwarded"})' = Chosen({"forwarded"})
  BY DEF Taken
<1>2. Counts3'
  BY <1>1 DEF CountInv, Counts3
<1>3. ToldInv'
  BY DEF CountInv, ToldInv
<1> QED BY <1>2, <1>3 DEF CountInv

LEMMA NextCounts ==
  BufferInv /\ WaitInv /\ TakenInv /\ RestInv /\ CountInv /\ [Next]_vars
    => CountInv'
<1> SUFFICES ASSUME BufferInv, WaitInv, TakenInv, RestInv, CountInv, [Next]_vars
             PROVE  CountInv'
  OBVIOUS
<1>1. CASE Tick \/ GetInstcnt \/ Update \/ FetchFails \/ TemperatureFails \/ Parse
           \/ ParseError \/ Stop \/ Leave \/ (Forward /\ ~inDgram) \/ UNCHANGED vars
  <2>1. UNCHANGED <<fate, base, heard, meas, java, out>>
    BY <1>1 DEF Tick, GetInstcnt, Update, FetchFails, TemperatureFails, Parse, ParseError,
      Stop, Leave, Forward, vars, airVars, resultVars, outerVars
  <2> QED BY <2>1, SameCounts DEF Chosen
<1>2. CASE Hear
  <2>1. UNCHANGED <<meas, java, out>>
    BY <1>2 DEF Hear, resultVars, outerVars
  <2> QED BY <1>2, <2>1, HearChosen, SameCounts DEF Taken
<1>3. CASE Fetch \/ ParseWarning
  <2>1. UNCHANGED <<base, heard, meas, java, out>>
    BY <1>3 DEF Fetch, ParseWarning, airVars, resultVars, outerVars
  <2>2. \A x \in Ids : fate'[x] = fate[x] \/ (fate[x] = "held" /\ fate'[x] = "discarded")
    BY <1>3, DiscardFate
  <2>3. \A fs \in SUBSET (Taken \cup {"filtered"}) :
          \A x \in Ids : fate'[x] \in fs <=> fate[x] \in fs
    BY <2>2 DEF Taken
  <2> QED BY <2>1, <2>3, ChosenStay, SameCounts
<1>4. CASE Restart
  <2>1. /\ base' = heard' /\ meas' = NoMeas /\ UNCHANGED <<java, out>> /\ heard' \in Nat
    BY <1>4, BufferFacts DEF Restart
  <2>2. \A fs : Chosen(fs)' = {}
    BY <2>1 DEF Chosen
  <2>3. Counts3'
    BY <2>1, <2>2, FS_EmptySet DEF Counts3, NoMeas
  <2>4. ToldInv'
    BY <2>1 DEF CountInv, ToldInv, NoMeas
  <2> QED BY <2>3, <2>4 DEF CountInv
<1> QED
  BY <1>1, <1>2, <1>3, <1>4, LookCounts, ForwardCounts DEF Next

-----------------------------------------------------------------------------
\* Two sequences in order, one before the other, make one in order.
LEMMA JoinRow ==
  ASSUME NEW S, NEW s \in Seq(S), NEW t \in Seq(S), NEW u \in Seq(S),
         Len(u) = Len(s) + Len(t), \A i \in 1 .. Len(s) : u[i] = s[i],
         \A i \in 1 .. Len(t) : u[Len(s) + i] = t[i],
         Row(s), Row(t), Before(s, t)
  PROVE  /\ Row(u)
         /\ \A v : Before(s, v) /\ Before(t, v) => Before(u, v)
<1>1. Len(s) \in Nat /\ Len(t) \in Nat
  BY LenProperties
<1>2. \A i \in 1 .. Len(u) : \/ i \in 1 .. Len(s)
                             \/ i - Len(s) \in 1 .. Len(t) /\ Len(s) + (i - Len(s)) = i
  BY <1>1
<1>3. \A i \in 1 .. Len(u) : \/ i \in 1 .. Len(s) /\ u[i] = s[i]
                             \/ i - Len(s) \in 1 .. Len(t) /\ u[i] = t[i - Len(s)]
  <2> SUFFICES ASSUME NEW i \in 1 .. Len(u), i \notin 1 .. Len(s)
               PROVE  i - Len(s) \in 1 .. Len(t) /\ u[i] = t[i - Len(s)]
    OBVIOUS
  <2>1. i - Len(s) \in 1 .. Len(t) /\ Len(s) + (i - Len(s)) = i
    BY <1>2
  <2>2. u[Len(s) + (i - Len(s))] = t[i - Len(s)]
    BY <2>1
  <2> QED BY <2>1, <2>2
<1>4. ASSUME NEW i \in 1 .. Len(u), NEW j \in 1 .. Len(u), i < j
      PROVE  u[i].id < u[j].id
  <2>1. CASE i \in 1 .. Len(s) /\ u[i] = s[i] /\ j \in 1 .. Len(s) /\ u[j] = s[j]
    BY <1>4, <2>1 DEF Row
  <2>2. CASE /\ i \in 1 .. Len(s) /\ u[i] = s[i]
             /\ j - Len(s) \in 1 .. Len(t) /\ u[j] = t[j - Len(s)]
    BY <2>2 DEF Before, Ahead
  <2>3. CASE /\ i - Len(s) \in 1 .. Len(t) /\ u[i] = t[i - Len(s)]
             /\ j \in 1 .. Len(s) /\ u[j] = s[j]
    BY <1>1, <1>4, <2>3
  <2>4. CASE /\ i - Len(s) \in 1 .. Len(t) /\ u[i] = t[i - Len(s)]
             /\ j - Len(s) \in 1 .. Len(t) /\ u[j] = t[j - Len(s)]
    <3>1. i - Len(s) < j - Len(s)
      BY <1>1, <1>4
    <3> QED BY <2>4, <3>1 DEF Row
  <2> QED BY <1>3, <2>1, <2>2, <2>3, <2>4
<1>5. Row(u)
  BY <1>4 DEF Row
<1>6. \A v : Before(s, v) /\ Before(t, v) => Before(u, v)
  BY <1>3 DEF Before
<1> QED BY <1>5, <1>6

LEMMA ConcatRow ==
  ASSUME NEW S, NEW s \in Seq(S), NEW t \in Seq(S), Row(s), Row(t), Before(s, t)
  PROVE  /\ s \o t \in Seq(S) /\ IdsOf(s \o t) = IdsOf(s) \cup IdsOf(t) /\ Row(s \o t)
         /\ \A v : Before(s, v) /\ Before(t, v) => Before(s \o t, v)
<1> DEFINE u == s \o t
<1>1. Len(s) \in Nat /\ Len(t) \in Nat
  BY LenProperties
<1>2. /\ u \in Seq(S) /\ Len(u) = Len(s) + Len(t)
      /\ \A i \in 1 .. Len(s) + Len(t) : u[i] = IF i <= Len(s) THEN s[i] ELSE t[i - Len(s)]
  BY ConcatProperties
<1> SUFFICES /\ IdsOf(u) = IdsOf(s) \cup IdsOf(t) /\ Row(u)
             /\ \A v : Before(s, v) /\ Before(t, v) => Before(u, v)
  BY <1>2, Zenon
<1> HIDE DEF u
<1>3. \A i \in 1 .. Len(s) : u[i] = s[i]
  BY <1>1, <1>2
<1>4. \A i \in 1 .. Len(t) : u[Len(s) + i] = t[i]
  <2> SUFFICES ASSUME NEW i \in 1 .. Len(t) PROVE u[Len(s) + i] = t[i]
    OBVIOUS
  <2>1. /\ Len(s) + i \in 1 .. Len(s) + Len(t) /\ ~(Len(s) + i <= Len(s))
        /\ (Len(s) + i) - Len(s) = i
    BY <1>1
  <2> QED BY <1>2, <2>1
<1>5. IdsOf(u) = IdsOf(s) \cup IdsOf(t)
  <2>1. \A x : x \in IdsOf(u) <=> x \in IdsOf(s) \/ x \in IdsOf(t)
    BY <1>2, <1>3, <1>4, UnionIds, Zenon
  <2> QED BY <2>1
<1>6. Row(u) /\ \A v : Before(s, v) /\ Before(t, v) => Before(u, v)
  BY <1>2, <1>3, <1>4, JoinRow, Zenon
<1> QED BY <1>5, <1>6

\* The packets in the batch, in rx_buffer and in the FIFO, one after the other.
LEMMA HeldInOrder == BufferInv /\ WaitInv => HeldOnce
<1> SUFFICES ASSUME BufferInv, WaitInv PROVE HeldOnce
  OBVIOUS
<1> DEFINE Any == Packet \cup Parsed
           two == batch \o rx
           all == two \o fifo
<1>1. batch \in Seq(Any) /\ rx \in Seq(Any) /\ fifo \in Seq(Any)
  BY BufferFacts, SeqMonotonic
<1>2. /\ Row(batch) /\ Row(rx) /\ Row(fifo) /\ Before(batch, fifo) /\ Before(rx, fifo)
      /\ Before(batch, rx)
  <2>1. Row(batch) /\ Row(rx) /\ Row(fifo) /\ Before(batch, fifo) /\ Before(rx, fifo)
    BY DEF BufferInv, OrderInv
  <2>2. batch = << >> \/ rx = << >>
    BY BufferFacts
  <2>3. Before(<< >>, rx) /\ Before(batch, << >>)
    BY EmptyRow
  <2> QED BY <2>1, <2>2, <2>3
<1> HIDE DEF Any
<1>3. /\ two \in Seq(Any) /\ IdsOf(two) = IdsOf(batch) \cup IdsOf(rx)
      /\ Row(two) /\ Before(two, fifo)
  BY <1>1, <1>2, ConcatRow
<1> HIDE DEF two
<1>4. all \in Seq(Any) /\ IdsOf(all) = IdsOf(two) \cup IdsOf(fifo) /\ Row(all)
  BY <1>1, <1>2, <1>3, ConcatRow
<1> HIDE DEF all
<1>5. IdsOf(all) = Waiting
  BY <1>3, <1>4 DEF Waiting
<1>6. \A i \in 1 .. Len(all)-1 : all[i].id < all[i+1].id
  <2>1. Len(all) \in Nat
    BY <1>4, LenProperties
  <2>2. \A i \in 1 .. Len(all)-1 : i \in 1 .. Len(all) /\ i+1 \in 1 .. Len(all) /\ i < i+1
    BY <2>1
  <2> QED BY <1>4, <2>2 DEF Row
<1>7. pc # "stopped" => IdsOf(all) = {x \in Ids : fate[x] = "held"}
  BY <1>5, BufferFacts DEF WaitInv
<1> QED BY <1>6, <1>7 DEF HeldOnce, all, two

\* All of it is inductive.
FateInv == BufferInv /\ WaitInv /\ SolidInv /\ TakenInv /\ RestInv

LEMMA InitFate == Init => FateInv
BY InitClock, InitOrder, InitWait, InitSolid, InitTaken, InitRest DEF FateInv, BufferInv

LEMMA NextFate == FateInv /\ [Next]_vars => FateInv'
BY NextClock, NextOrder, NextWait, NextSolid, NextTaken, NextRest DEF FateInv, BufferInv

\* Every variable of the path from the FIFO to the service keeps to its type
\* (sx1302_fetch, sx1302_parse, upstreamRunner), whatever the bounds.
THEOREM TypeCorrect == Spec => []TypeOK
<1>1. FateInv => TypeOK
  <2> SUFFICES ASSUME FateInv PROVE TypeOK
    OBVIOUS
  <2>1. /\ now \in Time /\ counter \in Time /\ late \in BOOLEAN /\ heard \in 0 .. PACKETS
        /\ fifo \in Seq(Packet) /\ rx \in Seq(Packet) /\ batch \in Seq(Parsed)
    BY DEF FateInv, BufferInv, IInv, ClockInv
  <2>2. /\ pc \in {"top", "fetched", "updated", "serialize", "stopped"}
        /\ stopReq \in BOOLEAN /\ inDgram \in BOOLEAN
        /\ meta \in MetaType /\ payload \in 0 .. PACKETS
        /\ meas \in MeasType /\ java \in JavaType
        /\ restarts \in 0 .. RESTARTS /\ out \in Seq(Ids)
    BY DEF FateInv, RestInv
  <2>3. fate \in [Ids -> Fates] /\ base \in 0 .. PACKETS
    BY BufferFacts DEF FateInv, WaitInv
  <2> QED BY <2>1, <2>2, <2>3, Zenon DEF TypeOK, MetaType, MeasType, JavaType
<1> QED BY InitFate, NextFate, <1>1, PTL DEF Spec

\* While the thread runs, the packets in the FIFO, in rx_buffer and in the batch
\* are exactly those that are held, each once and in the order of reception
\* (sx1302_fetch, sx1302_parse and the loop of upstreamRunner).
THEOREM NoneIsLost == Spec => []HeldOnce
<1>1. FateInv => HeldOnce
  BY HeldInOrder DEF FateInv
<1> QED BY InitFate, NextFate, <1>1, PTL DEF Spec

\* A packet that was taken and is not forwarded has given way to a later one of
\* its batch, and none was left out between them (upstreamRunner keeps one
\* payload), however many packets a batch has.
THEOREM GivesWayToLater == Spec => []OverwrittenByLater
<1>1. FateInv => OverwrittenByLater
  <2> SUFFICES ASSUME FateInv, NEW x \in Ids, fate[x] = "overwritten"
               PROVE  \E y \in x+1 .. PACKETS :
                        /\ fate[y] = "forwarded" \/ (fate[y] = "accepted" /\ pc = "serialize")
                        /\ \A z \in x+1 .. y-1 : fate[z] \in Between
    BY DEF OverwrittenByLater, Between
  <2>1. PICK y \in x+1 .. PACKETS : /\ fate[y] \in {"forwarded", "accepted"}
                                    /\ \A z \in x+1 .. y-1 : fate[z] \in Between
    BY DEF FateInv, TakenInv, Over
  <2>2. y \in Ids
    BY BufferFacts DEF FateInv, Ids
  <2>3. fate[y] = "accepted" => pc = "serialize"
    BY <2>2 DEF FateInv, TakenInv, Pending
  <2> QED BY <2>1, <2>3
<1> QED BY InitFate, NextFate, <1>1, PTL DEF Spec

\* The metadata kept is that of the packet whose payload is kept, although the
\* packets of a batch share one record and an FSK packet does not set all of it.
THEOREM MetadataMatches == Spec => []MetaOfPayload
<1>1. Init => MetaOfPayload
  BY DEF Init, MetaOfPayload
<1>2. FateInv /\ MetaOfPayload /\ [Next]_vars => MetaOfPayload'
  BY NextMeta DEF FateInv
<1> QED BY InitFate, NextFate, <1>1, <1>2, PTL DEF Spec

\* The measurements count each packet looked at, taken and forwarded once, and
\* the service is called twice for each packet forwarded, over restarts too.
THEOREM MeasurementsAgree == Spec => []CountersAgree
<1>1. FateInv /\ CountInv /\ [Next]_vars => CountInv'
  BY NextCounts DEF FateInv
<1>2. FateInv /\ CountInv => CountersAgree
  BY CountersByName DEF FateInv
<1> QED BY InitFate, NextFate, InitCounts, <1>1, <1>2, PTL DEF Spec
=============================================================================
