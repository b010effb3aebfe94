---------------------------- MODULE SxTimestamp -----------------------------
(***************************************************************************)
(* The counter of the concentrator and its extension by the host           *)
(* (loragw_sx1302_timestamp.c). The concentrator counts microseconds in 27 *)
(* bits; the host counts in 5 bits how often that counter has wrapped, and *)
(* concatenates the two. A time is that pair: the turn and the count.      *)
(***************************************************************************)
EXTENDS Integers

CONSTANTS
  PERIOD,  \* values of the concentrator's counter (2^27)
  WRAPS,   \* values of the counter of wraps (2^5)
  LOW      \* values of its bytes below the most significant one (2^24 / 32)

ASSUME TimestampAssumption ==
  /\ PERIOD \in Nat \ {0} /\ WRAPS \in Nat \ {0, 1} /\ LOW \in Nat \ {0, 1}

Count == 0 .. PERIOD-1
Time  == [wrap : 0 .. WRAPS-1, cnt : Count]

StartTime == [wrap |-> 0, cnt |-> 0]

\* The time one step later, and the time one period earlier.
Later(t) == IF t.cnt = PERIOD-1 THEN [wrap |-> (t.wrap + 1) % WRAPS, cnt |-> 0]
            ELSE [wrap |-> t.wrap, cnt |-> t.cnt + 1]
LastTurn(t) == [wrap |-> (t.wrap - 1) % WRAPS, cnt |-> t.cnt]

\* How long after t time u is, for a u less than a period after t.
Elapsed(t, u) == IF t.cnt <= u.cnt THEN u.cnt - t.cnt ELSE u.cnt - t.cnt + PERIOD

\* Time u is t or comes less than a period after it.
Within(t, u) ==
  t.wrap = IF t.cnt <= u.cnt THEN u.wrap ELSE LastTurn(u).wrap

-----------------------------------------------------------------------------
\* Mutant of CounterUpdate: the wraps are not taken modulo 32.
CounterUpdateUnbounded(counter, inst) ==
  [wrap |-> IF inst < counter.cnt THEN counter.wrap + 1 ELSE counter.wrap, cnt |-> inst]

\* timestamp_counter_update(): a count below the reference is one more wrap.
CounterUpdate(counter, inst) ==
  [wrap |-> IF inst < counter.cnt THEN (counter.wrap + 1) % WRAPS ELSE counter.wrap,
   cnt  |-> inst]

\* timestamp_pkt_expand(): the turn of the reference, or the one before it.
PktExpand(counter, cnt) ==
  IF counter.cnt >= cnt
  THEN [wrap |-> counter.wrap, cnt |-> cnt]
  ELSE LastTurn([wrap |-> counter.wrap, cnt |-> cnt])

-----------------------------------------------------------------------------
\* The registers of the counter. Of a read, the most significant byte may be older
\* than the three below it, which are latched as one: what the device is assumed to
\* do, and the only tear that timestamp_counter_get() looks for. At most one step
\* of time passes during its reads: after the k-th of its samples.
Bytes(t, u) == [msb |-> t.cnt \div LOW, low |-> u.cnt % LOW]
Sample(t, k, i) == IF i <= k THEN t ELSE Later(t)
Read(t, k, j) == Bytes(Sample(t, k, 2*j - 1), Sample(t, k, 2*j))

\* Mutant of CounterGet: the first read is taken.
CounterGetOnce(t, k) == LET b == Read(t, k, 1) IN b.msb * LOW + b.low

\* timestamp_counter_get(): reads twice, and again when the most significant
\* byte has changed.
CounterGet(t, k) ==
  LET b == IF Read(t, k, 1).msb # Read(t, k, 2).msb THEN Read(t, k, 3) ELSE Read(t, k, 1)
  IN b.msb * LOW + b.low

\* What it may return when a step of time passes during it.
CounterGets(t) == {CounterGet(t, k) : k \in 0 .. 5}
=============================================================================
