----------------------------- MODULE MCUpstream ------------------------------
EXTENDS Upstream

\* The settings of every region forward packets with a valid CRC only.
ValidOnly == {"ok"}

\* States that differ only in what no step reads any more: the turn of the
\* clock, a read that failed before the packets under way, the metadata of a
\* packet already forwarded, which status was counted, and the clock and the
\* buffers once the thread has ended.
Turned(t) == [t EXCEPT !.wrap = (@ - now.wrap) % WRAPS]
TurnedAll(s) == [i \in DOMAIN s |-> <<s[i].id, Turned(s[i].at)>>]
Clock == <<now.cnt, Turned(counter), TurnedAll(fifo), TurnedAll(rx), TurnedAll(batch),
           [i \in DOMAIN batch |-> Turned(batch[i].stamp)]>>
Counts == <<meas.rcv, meas.fwd, meas.sent, meas.ok + meas.bad + meas.nocrc, java>>
View == <<pc, stopReq, Counts, restarts, heard, base, out, fate, inDgram,
          IF pc = "stopped" THEN << >> ELSE Clock,
          IF pc \in {"updated", "serialize"} THEN late ELSE FALSE,
          IF pc = "serialize" /\ inDgram THEN <<meta, payload>> ELSE << >> >>
=============================================================================
