---------------------------- MODULE MCBeaconPath ----------------------------
(* A small instance of BeaconPath: the delays of the program in the order of *)
(* size, a turn of the counter of six periods and a half.                    *)
EXTENDS BeaconPath
MCSettings == {{"beacon"}, {"scan"}}
MCTOA == {1}
MCClock == {3}
MCDownlinks == {15}
MCUnset == {1}
MCMisreads == {13}
MCMemory == {NoReference, [sys |-> 4, count |-> 0, gps |-> 1]}
\* What is read no more: of a thread that does not run, of a beacon that has been
\* queued, of a packet in the radio, of the time before a stop; ages beyond the
\* limits; and what beacons tell, once there was a failed reading or a stop.
Least(a, b) == IF a < b THEN a ELSE b
GpsView ==
  IF "beacon" \notin on THEN << >>
  ELSE IF stopReq THEN <<valid, corrOk, avg, ref.gps, ref.count, synced = 0>>
  ELSE <<clock, Least(now + clock - ref.sys, GPS_REF_MAX_AGE + 1), ref.count, ref.gps,
         before, timeSet /\ ~(clock = 0 /\ stale + misread = FAULT_MAX),
         now - pulse > 1, pulse = now, stale + misread,
         IF synced = 0 THEN -1 ELSE Least(now - synced, GPS_REF_MAX_AGE + 2), reset,
         checkVars>>
Silent == stopReq \/ misread > 0
Told(p) == IF p = NoTx \/ Silent THEN << >> ELSE <<p.gps, p.odd>>
Times(p) == IF p = NoTx THEN << >> ELSE <<p.count, p.post>>
QueueView == [i \in 1 .. Len(nodes) |->
                LET p == nodes[i] IN <<p.type, p.count, p.pre, p.post, Told(p)>>]
View ==
  <<on, now, GpsView, bpc, last, QueueView, rpc, Times(rpkt), Told(rpkt), Times(radio),
    IF Silent THEN 0 ELSE aired, Silent, spc, stopReq,
    IF stopReq THEN "check" \in done /\ "correct" \notin done ELSE done,
    IF bpc \in {"loop", "computed"} THEN <<todo, retry>> ELSE << >>,
    IF bpc = "computed" THEN <<next.gps, next.count, next.odd /\ ~Silent>>
    ELSE IF synced = 0 /\ "beacon" \in on THEN <<next.count>> ELSE << >>,
    IF "scan" \in on THEN <<chan, scanner, report>> ELSE << >> >>
=============================================================================
