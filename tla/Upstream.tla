------------------------------ MODULE Upstream -------------------------------
(***************************************************************************)
(* Received packets, from the FIFO of the concentrator to the service:     *)
(* sx1302_fetch() and sx1302_parse() under lgw_receive(), the loop of      *)
(* upstreamRunner() over a fetched batch with the one payload and the one  *)
(* metadata record it shares between packets, the measurements, and what   *)
(* the service is told. Packets are numbered as they are heard; what kind  *)
(* of packet one is shows when it is looked at.                            *)
(***************************************************************************)
EXTENDS SxTimestamp, Sequences, FiniteSets

CONSTANTS
  PACKETS,   \* bound: packets heard
  RESTARTS,  \* bound: starts after the first
  FORWARD    \* the statuses that the settings forward (forwardCRCValid, ...)

ASSUME UpstreamAssumption ==
  /\ PACKETS \in Nat \ {0} /\ RESTARTS \in Nat
  /\ FORWARD \subseteq {"ok", "bad", "none"}

VARIABLES
  now,      \* the counter of the concentrator, in 32 bits
  counter,  \* counter_us.inst: the reference and the wraps counted
  late,     \* this lgw_receive() could not read the counter
  fifo,     \* packets in the FIFO of the concentrator
  rx,       \* rx_buffer: packets fetched and not popped
  pc,       \* where upstreamRunner is
  stopReq,  \* stopRequest
  batch,    \* rxpkt: packets parsed and not yet looked at
  inDgram,  \* pkt_in_dgram > 0
  meta,     \* metadata: the packet each group of its fields is about
  payload,  \* the packet whose payload is kept
  meas,     \* measurements
  java,     \* receiveCount and valueCount of LGWService
  restarts,
  \* history
  heard,    \* packets heard
  base,     \* packets heard before this start
  out,      \* packets forwarded
  fate      \* what has become of each packet

clockVars  == <<now, counter>>
airVars    == <<fifo, heard>>
resultVars == <<meta, payload, inDgram, meas>>
outerVars  == <<java, restarts, base, out>>
vars == <<clockVars, late, airVars, rx, pc, stopReq, batch, resultVars,
          outerVars, fate>>

Ids    == 1 .. PACKETS
Packet == [id : Ids, at : Time]
Kinds  == {"good", "bad", "nocrc", "fsk", "alien", "spoiled", "range"}
Parsed == [id : Ids, at : Time, stamp : Time]
Fates  == {"unheard", "held", "discarded", "aborted", "filtered", "unusable",
           "accepted", "overwritten", "forwarded"}

NoMeta == [all |-> 0, modu |-> "unset", lora |-> 0, fsk |-> 0]
NoMeas == [rcv |-> 0, ok |-> 0, bad |-> 0, nocrc |-> 0, fwd |-> 0, sent |-> 0]

TypeOK ==
  /\ now \in Time /\ counter \in Time /\ late \in BOOLEAN
  /\ fifo \in Seq(Packet) /\ rx \in Seq(Packet) /\ batch \in Seq(Parsed)
  /\ pc \in {"top", "fetched", "updated", "serialize", "stopped"}
  /\ stopReq \in BOOLEAN /\ inDgram \in BOOLEAN
  /\ meta \in [all : 0 .. PACKETS, modu : {"unset", "LORA", "FSK"},
               lora : 0 .. PACKETS, fsk : 0 .. PACKETS]
  /\ payload \in 0 .. PACKETS
  /\ meas \in [DOMAIN NoMeas -> Nat] /\ java \in [{"received", "values"} -> Nat]
  /\ restarts \in 0 .. RESTARTS
  /\ heard \in 0 .. PACKETS /\ base \in 0 .. PACKETS /\ out \in Seq(Ids)
  /\ fate \in [Ids -> Fates]

Init ==
  /\ now = StartTime /\ counter = StartTime /\ late = FALSE
  /\ fifo = << >> /\ rx = << >> /\ batch = << >>
  /\ pc = "top" /\ stopReq = FALSE
  /\ inDgram = FALSE /\ meta = NoMeta /\ payload = 0 /\ meas = NoMeas
  /\ java = [received |-> 0, values |-> 0] /\ restarts = 0
  /\ heard = 0 /\ base = 0 /\ out = << >>
  /\ fate = [x \in Ids |-> "unheard"]

IdsOf(s) == {s[i].id : i \in DOMAIN s}
Fated(ids, f) == [x \in Ids |-> IF x \in ids THEN f ELSE fate[x]]

-----------------------------------------------------------------------------
\* The concentrator. The upper layer reads its counter, and fetches what it
\* has heard, more often than the counter wraps.
InTime(t) == Elapsed(t, now) < PERIOD-1
Timely == InTime(counter) /\ \A s \in {fifo, rx} : \A i \in DOMAIN s : InTime(s[i].at)

Tick ==
  /\ pc # "stopped" /\ Timely
  /\ now' = Later(now)
  /\ UNCHANGED <<counter, late, airVars, rx, pc, stopReq, batch, resultVars,
                 outerVars, fate>>

Hear ==
  /\ pc # "stopped" /\ heard < PACKETS
  /\ heard' = heard + 1
  /\ fifo' = Append(fifo, [id |-> heard', at |-> now])
  /\ fate' = [fate EXCEPT ![heard'] = "held"]
  /\ UNCHANGED <<clockVars, late, rx, pc, stopReq, batch, resultVars, outerVars>>

-----------------------------------------------------------------------------
\* timestamp_counter_get() has succeeded.
CounterRead ==
  \/ counter' = CounterUpdate(counter, CounterGet(now, 6)) /\ UNCHANGED now
  \/ /\ Timely
     /\ now' = Later(now)
     /\ \E inst \in CounterGets(now) : counter' = CounterUpdate(counter, inst)

\* lgw_get_instcnt(), called by the other threads between two lgw_receive().
GetInstcnt ==
  /\ pc \in {"top", "serialize"}
  /\ CounterRead
  /\ UNCHANGED <<late, airVars, rx, pc, stopReq, batch, resultVars, outerVars, fate>>

\* An error of lgw_receive() ends the thread through stop(0).
Abort ==
  /\ pc' = "stopped" /\ stopReq' = TRUE /\ batch' = << >>

\* sx1302_fetch(): an empty rx_buffer takes what the FIFO holds. Packets
\* before the first syncword are skipped; a syncword missing later on, or a
\* size misread, discards all of them.
Fetch ==
  /\ pc = "top" /\ ~stopReq
  /\ pc' = "fetched"
  /\ IF rx # << >>
     THEN UNCHANGED <<rx, fifo, fate>>
     ELSE \E k \in 0 .. Len(fifo) :
            /\ rx' = SubSeq(fifo, k + 1, Len(fifo))
            /\ fifo' = << >>
            /\ fate' = Fated(IdsOf(SubSeq(fifo, 1, k)), "discarded")
  /\ UNCHANGED <<clockVars, late, heard, stopReq, batch, resultVars, outerVars>>

FetchFails ==
  /\ pc = "top" /\ ~stopReq /\ fifo # << >>
  /\ Abort
  /\ UNCHANGED <<clockVars, late, airVars, rx, resultVars, outerVars, fate>>

\* sx1302_update(), whose failure is not told; then what lgw_receive()
\* returns when nothing was fetched.
Update ==
  /\ pc = "fetched"
  /\ \/ CounterRead /\ late' = FALSE
     \/ UNCHANGED clockVars /\ late' = TRUE
  /\ pc' = IF rx = << >> THEN "top" ELSE "updated"
  /\ UNCHANGED <<airVars, rx, stopReq, batch, resultVars, outerVars, fate>>

\* lgw_get_temperature().
TemperatureFails ==
  /\ pc = "updated"
  /\ Abort
  /\ UNCHANGED <<clockVars, late, airVars, rx, resultVars, outerVars, fate>>

\* Mutant of Refused: the range of the metadata is not checked.
RefusedSpoiled == {"spoiled"}

\* The kinds that rx_buffer_pop() and sx1302_parse() refuse: truncated or with
\* a wrong checksum; out of range or with a wrong CRC16.
Refused == {"spoiled", "range"}

\* Mutant of Cleared: rx_buffer_del() is left out.
ClearedNot(buffer) == buffer

\* rx_buffer_del().
Cleared(buffer) == << >>

\* Mutant of Begun: pkt_in_dgram is kept from one batch to the next.
BegunNot(flag) == flag

\* pkt_in_dgram at the start of a batch.
Begun(flag) == FALSE

\* lgw_receive() parses each packet fetched; none of them is refused.
Parse ==
  /\ pc = "updated"
  /\ pc' = "serialize" /\ inDgram' = Begun(inDgram)
  /\ batch' = [i \in DOMAIN rx |-> [id |-> rx[i].id, at |-> rx[i].at,
                                  stamp |-> PktExpand(counter, rx[i].at.cnt)]]
  /\ rx' = << >>
  /\ UNCHANGED <<clockVars, late, airVars, stopReq, meta, payload, meas, outerVars, fate>>

\* A warning at the i-th packet discards all of them, and 0 is returned.
ParseWarning ==
  /\ pc = "updated" /\ "spoiled" \in Refused
  /\ \E i \in DOMAIN rx : rx' = Cleared(SubSeq(rx, i, Len(rx)))
  /\ pc' = "top"
  /\ fate' = Fated(IdsOf(rx), "discarded")
  /\ UNCHANGED <<clockVars, late, airVars, stopReq, batch, resultVars, outerVars>>

\* An error at the i-th packet leaves it in rx_buffer and is returned.
ParseError ==
  /\ pc = "updated" /\ "range" \in Refused
  /\ \E i \in DOMAIN rx : rx' = SubSeq(rx, i, Len(rx))
  /\ Abort
  /\ UNCHANGED <<clockVars, late, airVars, resultVars, outerVars, fate>>

-----------------------------------------------------------------------------
\* The statuses sx1302_parse() may give a packet: a LoRa packet that of its kind,
\* an FSK packet any of the three.
Statuses(kind) ==
  CASE kind = "fsk" -> {"ok", "bad", "none"}
    [] kind = "bad" -> {"bad"} [] kind = "nocrc" -> {"none"}
    [] kind = "alien" -> {"undefined"} [] OTHER -> {"ok"}

\* The measurements: one of the three statuses, or none of them.
Counted(status, taken) ==
  [meas EXCEPT !.rcv = @ + 1,
     !.ok    = @ + IF status = "ok" THEN 1 ELSE 0,
     !.bad   = @ + IF status = "bad" THEN 1 ELSE 0,
     !.nocrc = @ + IF status = "none" THEN 1 ELSE 0,
     !.fwd   = @ + IF taken THEN 1 ELSE 0]

\* What a packet writes into metadata: FSK sets neither the signal levels nor
\* the spreading factor; an unknown datarate ends before they are set.
Described(p, kind) ==
  CASE kind = "fsk" ->
         [meta EXCEPT !.all = p.id, !.modu = "FSK", !.fsk = p.id]
    [] kind = "range" ->
         [meta EXCEPT !.all = p.id, !.modu = "LORA"]
    [] OTHER ->
         [meta EXCEPT !.all = p.id, !.modu = "LORA", !.lora = p.id]

\* An iteration of the loop over the batch: what the packet is shows now.
Filter ==
  /\ pc = "serialize" /\ batch # << >>
  /\ \E kind \in Kinds \ Refused : \E status \in Statuses(kind) \ FORWARD :
       meas' = Counted(status, FALSE)
  /\ fate' = [fate EXCEPT ![Head(batch).id] = "filtered"]
  /\ batch' = Tail(batch)
  /\ UNCHANGED <<clockVars, late, airVars, rx, pc, stopReq, meta, payload, inDgram,
                 outerVars>>

\* Mutant of Replaced: the payload kept is the first of the batch.
ReplacedNever(old, new) == IF inDgram THEN old ELSE new

\* The payload kept is that of the last packet taken.
Replaced(old, new) == new

Take ==
  LET p == Head(batch)
  IN /\ pc = "serialize" /\ batch # << >>
     /\ \E kind \in Kinds \ Refused : \E status \in Statuses(kind) \cap FORWARD :
          /\ meas' = Counted(status, TRUE)
          /\ meta' = Described(p, kind)
          /\ IF kind = "range"
             THEN /\ fate' = [fate EXCEPT ![p.id] = "unusable"]
                  /\ UNCHANGED <<payload, inDgram>>
             ELSE /\ fate' = [x \in Ids |-> IF x = p.id THEN "accepted"
                                ELSE IF fate[x] = "accepted" THEN "overwritten"
                                ELSE fate[x]]
                  /\ payload' = Replaced(payload, p.id) /\ inDgram' = TRUE
     /\ batch' = Tail(batch)
     /\ UNCHANGED <<clockVars, late, airVars, rx, pc, stopReq, outerVars>>

\* Mutant of Told: the packet of an unknown device is not told of again.
ToldOnce(identified) ==
  IF identified THEN [received |-> java.received + 1, values |-> java.values + 1]
  ELSE [java EXCEPT !.received = @ + 1]

\* What the service counts: onReceive() from the log, then onValue() for the
\* packet of a known device whose MIC is right, a second onReceive() for others.
Told(identified) ==
  IF identified THEN [received |-> java.received + 1, values |-> java.values + 1]
  ELSE [java EXCEPT !.received = @ + 2]

\* After the loop: the payload kept is forwarded, when there is one.
Forward ==
  /\ pc = "serialize" /\ batch = << >>
  /\ pc' = "top"
  /\ IF inDgram
     THEN /\ \E identified \in BOOLEAN : java' = Told(identified)
          /\ out' = Append(out, payload)
          /\ fate' = [fate EXCEPT ![payload] = "forwarded"]
          /\ meas' = [meas EXCEPT !.sent = @ + 1]
     ELSE UNCHANGED <<java, out, fate, meas>>
  /\ UNCHANGED <<clockVars, late, airVars, rx, stopReq, batch, meta, payload,
                 inDgram, restarts, base>>

-----------------------------------------------------------------------------
\* stop() by another thread, and the end of the loop.
Stop ==
  /\ pc # "stopped" /\ ~stopReq
  /\ stopReq' = TRUE
  /\ UNCHANGED <<clockVars, late, airVars, rx, pc, batch, resultVars, outerVars, fate>>

Leave ==
  /\ pc = "top" /\ stopReq
  /\ pc' = "stopped"
  /\ UNCHANGED <<clockVars, late, airVars, rx, stopReq, batch, resultVars, outerVars,
                 fate>>

\* A new listener: lgw_start() resets the concentrator, and sx1302_init() the
\* counter and rx_buffer; the measurements are those of the new listener.
Restart ==
  /\ pc = "stopped" /\ restarts < RESTARTS
  /\ restarts' = restarts + 1
  /\ now' = StartTime /\ counter' = StartTime /\ late' = FALSE
  /\ fifo' = << >> /\ rx' = << >> /\ batch' = << >>
  /\ pc' = "top" /\ stopReq' = FALSE
  /\ inDgram' = FALSE /\ meta' = NoMeta /\ payload' = 0 /\ meas' = NoMeas
  /\ base' = heard
  /\ fate' = [x \in Ids |-> IF fate[x] = "held" THEN "aborted" ELSE fate[x]]
  /\ UNCHANGED <<heard, java, out>>

RunnerStep == Fetch \/ FetchFails \/ Update \/ TemperatureFails \/ Parse
              \/ ParseWarning \/ ParseError \/ Filter \/ Take \/ Forward \/ Leave

Next == Tick \/ Hear \/ GetInstcnt \/ Fetch \/ FetchFails \/ Update
        \/ TemperatureFails \/ Parse \/ ParseWarning \/ ParseError \/ Filter
        \/ Take \/ Forward \/ Stop \/ Leave \/ Restart

Spec == Init /\ [][Next]_vars /\ WF_vars(RunnerStep)

-----------------------------------------------------------------------------
\* A packet's time is that of its reception; it is one period early at the
\* most, and only when the lgw_receive() that has fetched it could not read
\* the counter (timestamp_pkt_expand).
StampExact ==
  \A i \in DOMAIN batch :
    \/ batch[i].stamp = batch[i].at
    \/ late /\ batch[i].stamp = LastTurn(batch[i].at)

\* The metadata that goes out with a payload is that of its packet: the fields
\* every packet has, and for a LoRa packet the signal levels and the spreading
\* factor too (the one record that the packets of a batch share).
MetaOfPayload ==
  (pc = "serialize" /\ inDgram) =>
    /\ meta.all = payload
    /\ payload = IF meta.modu = "LORA" THEN meta.lora ELSE meta.fsk

\* A packet that was taken and is not forwarded has given way to a later one
\* of its batch, which is: all those between the two were looked at with them
\* (the loop of upstreamRunner keeps one payload).
OverwrittenByLater ==
  \A x \in Ids : fate[x] = "overwritten" =>
    \E y \in x+1 .. PACKETS :
      /\ fate[y] = "forwarded" \/ (fate[y] = "accepted" /\ pc = "serialize")
      /\ \A z \in x+1 .. y-1 : fate[z] \in {"filtered", "unusable", "overwritten"}

\* No packet is lost track of: while the thread runs, those that are held are
\* the ones in the FIFO, in rx_buffer and in the batch, each once and in the
\* order of reception.
HeldOnce ==
  pc # "stopped" =>
    LET held == batch \o rx \o fifo
    IN /\ IdsOf(held) = {x \in Ids : fate[x] = "held"}
       /\ \A i \in 1 .. Len(held)-1 : held[i].id < held[i+1].id

\* The measurements of this start agree with what became of its packets: each
\* packet looked at has one status or none; meas_up_dgram_sent counts those
\* forwarded to the service, and meas_up_pkt_fwd, which upstreamRunner increments
\* for every packet taken, as many more as have given way or wait: it is not the
\* "number of radio packet forwarded to the server" of lora-gateway-listener.h:26.
\* The service was called twice for each packet forwarded since the process
\* started.
CountersAgree ==
  LET ended(fs) == Cardinality({x \in base+1 .. heard : fate[x] \in fs})
      gaveWay == {"unusable", "accepted", "overwritten"}
  IN /\ meas.rcv = ended(gaveWay \cup {"forwarded", "filtered"})
     /\ meas.sent = ended({"forwarded"}) /\ meas.fwd - meas.sent = ended(gaveWay)
     /\ meas.ok + meas.bad + meas.nocrc <= meas.rcv
     /\ java.received + java.values = 2 * Len(out)
     /\ java.values <= Len(out)

\* The packets in the concentrator are all fetched and looked at, or discarded,
\* or the thread ends; the packets heard being bounded, it catches up.
Examined ==
  LET held == {x \in Ids : fate[x] = "held"}
  IN held # {} ~> held = {} \/ pc = "stopped"

\* Packets are forwarded at most once and in the order of reception, over
\* restarts too.
Promised == INSTANCE Forwarding
InOrder == Promised!Spec
=============================================================================
