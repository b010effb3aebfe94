------------------------------ MODULE McuLink -------------------------------
(***************************************************************************)
(* The USB link to the concentrator's MCU, from the calls of loragw_com.c  *)
(* down to the read buffer of SerialSocket: requests and acknowledgements  *)
(* of loragw_mcu.c, the bulk buffer that collects the register writes of a *)
(* transmission, the statics that outlive a call, short reads and the      *)
(* unplugging of the device. mLGW serialises the calls, so that one call   *)
(* is under way at a time; the MCU and the port act in between.            *)
(*                                                                         *)
(* The bytes of an acknowledgement are grouped: its id and size, its type, *)
(* then its payload, in units of one SPI request.                          *)
(***************************************************************************)
EXTENDS Integers, Sequences

CONSTANTS
  SENDS,       \* transmissions: where each of their writes ends in the bulk buffer
  BULK_SIZE,   \* LGW_USB_BURST_CHUNK
  REQ_MAX,     \* the requests the bulk buffer takes (255)
  REQ_MOD,     \* the values of _lgw_spi_req_nb (256)
  GPIO_NB,     \* the GPIO writes that reset the concentrator (5)
  JUNK_TYPES,  \* bound: the types and
  JUNK_SIZES,  \* the sizes that bytes out of place are read as
  STREAM_MAX   \* bound: units unread when a request is written

Types  == {"none", "ping", "status", "gpio", "multi"}
Sizes  == 0 .. BULK_SIZE + 1

\* A transmission fits into an empty bulk buffer; a write of no size is that of an
\* empty payload. The counter of pending requests does not wrap before the buffer
\* is full. Bytes out of place are read as types and sizes that there are.
ASSUME LinkAssumption ==
  /\ {BULK_SIZE, REQ_MAX, REQ_MOD, GPIO_NB, STREAM_MAX} \subseteq Nat \ {0}
  /\ REQ_MAX < REQ_MOD
  /\ JUNK_TYPES \subseteq Types /\ JUNK_SIZES \subseteq Sizes
  /\ \A s \in SENDS :
       /\ s \in Seq(0 .. BULK_SIZE) /\ Len(s) \in 1 .. REQ_MAX
       /\ \A i \in 1 .. Len(s)-1 : s[i] <= s[i+1]

VARIABLES
  \* the host, between calls too
  pc,       \* where the call under way is: "idle" when there is none
  op,       \* which call it is
  todo,     \* the exchanges it has still to do
  writes,   \* the register writes of the transmission it makes
  stored,   \* how many of them it has stored
  failed,   \* a GPIO write of it has failed (x != 0)
  req,      \* the request whose acknowledgement is awaited
  nread,    \* nb_read
  hdr,      \* the static buf_hdr: size and type
  mode,     \* _lgw_write_mode
  bulk,     \* spi_bulk_buffer: size, nb_req, and whether its bytes are requests
  reqnb,    \* _lgw_spi_req_nb
  target,   \* _lgw_com_target: "none", "live", or "freed" and still set
  \* SerialSocket
  port,     \* "up", "gone" when the device is, "none" without a socket
  blocking, \* readWriteTimeout is 0
  buf,      \* mReadBuffer up to mCountReadBuffer, and mPositionReadBuffer
  \* the MCU
  cmds,     \* requests received and not yet carried out
  wire,     \* acknowledgements sent and not yet read
  \* history
  torn,     \* the stream broke since the port was opened
  residue   \* what the transmissions since the last flush may leave in bulk:
            \* "none", "requests" after an empty payload, "any" after a failed flush

sendVars == <<writes, stored>>
callVars == <<op, todo, sendVars, failed>>
ackVars  == <<req, nread, hdr>>
bulkVars == <<mode, bulk, reqnb>>
portVars == <<port, blocking, buf>>
mcuVars  == <<cmds, wire>>
vars == <<pc, callVars, ackVars, bulkVars, target, portVars, mcuVars, torn, residue>>

Kind   == [type : Types, size : Sizes]
Unit   == [req : Kind, i : 1 .. BULK_SIZE + 3]

Ping   == [type |-> "ping",   size |-> 1]
Status == [type |-> "status", size |-> 1]
Gpio   == [type |-> "gpio",   size |-> 1]
Multi(n) == [type |-> "multi", size |-> n]
ResetGpio == [i \in 1 .. GPIO_NB |-> Gpio]

TypeOK ==
  /\ pc \in {"idle", "store", "flush", "tty", "ask", "header", "payload", "crashed"}
  /\ op \in {"open", "reopen", "close", "read", "write", "temperature", "send", "none"}
  /\ todo \in Seq(Kind) /\ failed \in BOOLEAN
  /\ writes \in SENDS \cup {<< >>} /\ stored \in 0 .. Len(writes)
  /\ req \in Kind /\ nread \in Sizes
  /\ hdr \in Kind
  /\ mode \in {"SINGLE", "BULK"}
  /\ bulk \in [size : 0 .. BULK_SIZE, nb : 0 .. REQ_MAX, clean : BOOLEAN]
  /\ reqnb \in 0 .. REQ_MOD-1
  /\ target \in {"none", "live", "freed"}
  /\ port \in {"up", "gone", "none"} /\ blocking \in BOOLEAN
  /\ buf.data \in Seq(Unit) /\ buf.pos \in Nat
  /\ cmds \in Seq(Kind) /\ wire \in Seq(Unit)
  /\ torn \in BOOLEAN /\ residue \in {"none", "requests", "any"}

-----------------------------------------------------------------------------
\* The acknowledgement of request r: two header units, then one per unit of
\* its size.
AckOf(r) == [i \in 1 .. r.size + 2 |-> [req |-> r, i |-> i]]

NoReq == [type |-> "none", size |-> 0]

\* A fresh process; the MCU may still have an answer to the one before it.
Init ==
  /\ pc = "idle" /\ op = "none" /\ todo = << >> /\ writes = << >> /\ stored = 0
  /\ failed = FALSE
  /\ req = NoReq /\ nread = 0 /\ hdr = NoReq
  /\ mode = "SINGLE" /\ bulk = [size |-> 0, nb |-> 0, clean |-> TRUE] /\ reqnb = 0
  /\ target = "none"
  /\ port = "up" /\ blocking = FALSE /\ buf = [data |-> << >>, pos |-> 0]
  /\ cmds = << >> /\ wire \in {<< >>, AckOf(Status)}
  /\ torn = TRUE /\ residue = "none"

-----------------------------------------------------------------------------
\* What the MCU has sent and the program has not been given.
Unread == SubSeq(buf.data, buf.pos + 1, Len(buf.data)) \o wire

Smaller(a, b) == IF a < b THEN a ELSE b

\* getFromBuffer(): takes up to n units; the buffer that is used up is reset.
FromBuffer(b, n) ==
  LET left == Len(b.data) - b.pos
      take == Smaller(n, left)
  IN IF left <= 0
     THEN [got |-> << >>, buf |-> [data |-> << >>, pos |-> 0]]
     ELSE [got |-> SubSeq(b.data, b.pos + 1, b.pos + take),
           buf |-> [b EXCEPT !.pos = @ + take]]

\* Mutant of Refilled: the position is not reset before the read.
RefilledNoReset(b, data) == [data |-> data, pos |-> b.pos]

\* mReadBuffer after a transfer: the position is reset before it.
Refilled(b, data) == [data |-> data, pos |-> 0]

\* readIntoBuffer(): the port delivers what one transfer holds, nothing when its
\* timeout ends, or fails, which resets the position and leaves the count. The
\* MCU answers within the timeout. An empty set: it waits.
IntoBuffer(b) ==
  IF port = "gone" THEN {[buf |-> Refilled(b, b.data), wire |-> wire]}
  ELSE IF wire # << >>
  THEN {[buf |-> Refilled(b, SubSeq(wire, 1, k)),
         wire |-> SubSeq(wire, k + 1, Len(wire))] : k \in 1 .. Len(wire)}
  ELSE IF blocking \/ cmds # << >> THEN {}
  ELSE {[buf |-> Refilled(b, << >>), wire |-> << >>]}

\* A buffer that is used up is as good as empty to the next read.
Settled(b) == IF b.pos < Len(b.data) THEN b ELSE [data |-> << >>, pos |-> 0]

\* SerialSocket.read(n), and onRead() without a socket: what read_c() may
\* return, and what it leaves in the buffer and on the wire.
Reads(n) ==
  LET first == FromBuffer(buf, n)
      rest  == n - Len(first.got)
  IN IF port = "none" THEN {[got |-> << >>, buf |-> buf, wire |-> wire]}
     ELSE IF rest = 0 THEN {[got |-> first.got, buf |-> Settled(first.buf), wire |-> wire]}
     ELSE {LET second == FromBuffer(r.buf, rest)
           IN [got |-> first.got \o second.got, buf |-> Settled(second.buf),
               wire |-> r.wire] : r \in IntoBuffer(first.buf)}

\* What read_ack() finds in buf_hdr after a read of at most two units: the
\* part that was not read keeps its value, other units are read as anything.
HeaderAfter(got) ==
  [type : IF Len(got) < 2 THEN {hdr.type}
          ELSE IF got[2].i = 2 THEN {got[2].req.type} ELSE JUNK_TYPES,
   size : IF got = << >> THEN {hdr.size}
          ELSE IF got[1].i = 1 THEN {got[1].req.size} ELSE JUNK_SIZES]

\* Units that are not the header of one acknowledgement in its place.
IsHeader(got) == Len(got) = 2 /\ got[1].i = 1 /\ got[2].i = 2

-----------------------------------------------------------------------------
\* The calls. Without a target each of them but lgw_com_open() fails at once.
Call(o, exchanges) ==
  /\ pc = "idle" /\ target # "none"
  /\ pc' = "ask" /\ op' = o /\ todo' = exchanges
  /\ failed' = FALSE
  /\ UNCHANGED <<sendVars, ackVars, target, portVars, mcuVars, torn, residue>>

\* lgw_com_rb(): refused in bulk mode.
BeginRead ==
  /\ mode = "SINGLE"
  /\ Call("read", <<Multi(1)>>)
  /\ UNCHANGED bulkVars

\* lgw_com_get_temperature().
BeginTemperature ==
  /\ Call("temperature", <<Status>>)
  /\ UNCHANGED bulkVars

\* Mutant of Fits: the size is not compared with that of the buffer.
FitsBySlots(n) == bulk.nb # REQ_MAX

\* spi_req_bulk_insert(), and the counter that lgw_usb_wb() and lgw_usb_rmw()
\* increment whether or not the request was stored.
Fits(n) == bulk.nb # REQ_MAX /\ bulk.size + n <= BULK_SIZE
Insert(n) ==
  /\ bulk' = IF Fits(n)
             THEN [bulk EXCEPT !.size = @ + n, !.nb = @ + 1]
             ELSE bulk
  /\ reqnb' = (reqnb + 1) % REQ_MOD
  /\ UNCHANGED mode

\* lgw_com_w(): stored when the mode is bulk, which ends the call.
BeginWrite ==
  /\ mode = "SINGLE"
  /\ Call("write", <<Multi(1)>>)
  /\ UNCHANGED bulkVars

StoreOnly ==
  /\ pc = "idle" /\ target # "none" /\ mode = "BULK"
  /\ Insert(1)
  /\ UNCHANGED <<pc, callVars, ackVars, target, portVars, mcuVars, torn, residue>>

\* sx1302_send(): the mode is set to bulk, the registers and the payload are
\* written; the first write that fails ends the call with the mode as it is. The
\* payload may be empty, which lgw_mem_wb() refuses.
BeginSend ==
  /\ pc = "idle" /\ target # "none"
  /\ pc' = "store" /\ op' = "send" /\ todo' = << >> /\ failed' = FALSE
  /\ writes' \in SENDS /\ stored' = 0
  /\ mode' = "BULK"
  /\ UNCHANGED <<bulk, reqnb, ackVars, target, portVars, mcuVars, torn, residue>>

Store ==
  LET size == IF stored = 0 THEN writes[1] ELSE writes[stored+1] - writes[stored]
  IN /\ pc = "store"
     /\ IF size > 0
        THEN Insert(size) /\ UNCHANGED residue
        ELSE /\ residue' = IF residue = "none" THEN "requests" ELSE residue
             /\ UNCHANGED bulkVars
     /\ IF size > 0 /\ Fits(size)
        THEN /\ pc' = IF stored + 1 = Len(writes) THEN "flush" ELSE "store"
             /\ stored' = stored + 1 /\ UNCHANGED <<op, writes>>
        ELSE /\ pc' = "idle" /\ op' = "none" /\ writes' = << >> /\ stored' = 0
     /\ UNCHANGED <<todo, failed, ackVars, target, portVars, mcuVars, torn>>

\* lgw_usb_flush(): single mode is restored first; a counter of zero ends it.
Flush ==
  /\ pc = "flush"
  /\ mode' = "SINGLE"
  /\ IF reqnb = 0
     THEN pc' = "idle" /\ op' = "none" /\ UNCHANGED todo
     ELSE pc' = "ask" /\ todo' = <<Multi(bulk.size)>> /\ UNCHANGED op
  /\ writes' = << >> /\ stored' = 0
  /\ UNCHANGED <<failed, bulk, reqnb, ackVars, target, portVars,
                 mcuVars, torn, residue>>

\* lgw_com_close(). The memory of a target that a failed open has freed is
\* freed again, which ends the process.
BeginClose ==
  /\ Call("close", ResetGpio)
  /\ UNCHANGED bulkVars

\* lgw_com_open(): what is open is closed first.
BeginReopen ==
  /\ Call("reopen", ResetGpio)
  /\ UNCHANGED bulkVars

\* Mutant of StartTty: the port stays as the last session has left it.
StartTtyBlocking ==
  /\ op' = "open" /\ todo' = <<Ping, Status>> \o ResetGpio
  /\ failed' = FALSE
  /\ IF port = "none" THEN pc' = "crashed" ELSE pc' = "tty"
  /\ UNCHANGED blocking

\* lgw_usb_open(): the port is set non-blocking. onSetAttr() without a socket
\* throws into native code, which ends the process.
StartTty ==
  /\ op' = "open" /\ todo' = <<Ping, Status>> \o ResetGpio
  /\ failed' = FALSE
  /\ IF port = "none"
     THEN pc' = "crashed" /\ UNCHANGED blocking
     ELSE pc' = "tty" /\ blocking' = FALSE

BeginOpen ==
  /\ pc = "idle" /\ target = "none"
  /\ StartTty
  /\ UNCHANGED <<sendVars, ackVars, bulkVars, target, port, buf, mcuVars, torn, residue>>

\* Mutant of DrainTty: a single byte is drained.
DrainTtyOnce ==
  /\ pc = "tty" /\ port # "none"
  /\ \E r \in Reads(1) :
       /\ buf' = r.buf /\ wire' = r.wire
       /\ pc' = "ask" /\ blocking' = TRUE /\ target' = "live"
       /\ torn' = (port # "up")
  /\ UNCHANGED <<callVars, ackVars, bulkVars, port, cmds, residue>>

\* lgw_usb_open() drains the port byte by byte until a read returns none, then
\* makes it blocking and sets the target.
DrainTty ==
  /\ pc = "tty"
  /\ \E r \in Reads(1) :
       /\ buf' = r.buf /\ wire' = r.wire
       /\ IF r.got # << >>
          THEN UNCHANGED <<pc, blocking, target, torn>>
          ELSE IF port = "none"
          THEN pc' = "crashed" /\ UNCHANGED <<blocking, target, torn>>
          ELSE /\ pc' = "ask" /\ blocking' = TRUE /\ target' = "live"
               /\ torn' = (port # "up")
  /\ UNCHANGED <<callVars, ackVars, bulkVars, port, cmds, residue>>

-----------------------------------------------------------------------------
\* Mutant of EmptyBulk: mcu_spi_flush() resets the size only.
EmptyBulkSize == [bulk EXCEPT !.size = 0, !.clean = TRUE]

\* mcu_spi_flush(), the end of a flush that has succeeded.
EmptyBulk == [size |-> 0, nb |-> 0, clean |-> TRUE]

\* What follows an exchange that has succeeded or not: the next one (after a
\* failure only the GPIO writes go on), or the end of the call. clean: what the
\* exchange leaves in the bulk buffer are still requests.
Return(ok, clean) ==
  /\ IF op \in {"close", "reopen"} /\ target = "freed" THEN pc' = "crashed"
     ELSE op # "reopen" => pc' = "idle"
  /\ target' = IF op \in {"close", "reopen"} THEN "none"
               ELSE IF op = "open" /\ Head(todo) = Gpio /\ (failed \/ ~ok) THEN "freed"
               ELSE target
  /\ bulk' = IF op = "send" /\ ok THEN EmptyBulk ELSE [bulk EXCEPT !.clean = clean]
  /\ IF op = "send"
     THEN reqnb' = 0 /\ residue' = IF ok THEN "none" ELSE "any"
     ELSE UNCHANGED <<reqnb, residue>>
  /\ IF op = "reopen" /\ target # "freed"
     THEN StartTty
     ELSE /\ op' = "none" /\ todo' = << >> /\ failed' = FALSE
          /\ UNCHANGED blocking

Conclude(ok, clean) ==
  /\ IF Len(todo) > 1 /\ (ok \/ Head(todo) = Gpio)
     THEN /\ pc' = "ask" /\ todo' = Tail(todo) /\ failed' = (failed \/ ~ok)
          /\ UNCHANGED <<op, target, blocking, bulk, reqnb, residue>>
     ELSE Return(ok, clean)
  /\ UNCHANGED <<mode, sendVars, port>>

\* write_req().
Ask ==
  /\ pc = "ask" /\ port = "up"
  /\ Len(Unread) + Len(cmds) <= STREAM_MAX
  /\ req' = Head(todo) /\ cmds' = Append(cmds, req')
  /\ pc' = "header"
  /\ UNCHANGED <<callVars, nread, hdr, bulkVars, target, portVars, wire, torn, residue>>

AskFails ==
  /\ pc = "ask" /\ port # "up"
  /\ Conclude(FALSE, bulk.clean)
  /\ UNCHANGED <<ackVars, buf, mcuVars, torn>>

\* read_ack(), the header: one read, of which only -1 is an error, and no read
\* yields that; then the tests of the type and of the size. A payload of size 0
\* is decoded at once: the type is tested, the rest is whatever the buffer held.
ReadHeader ==
  /\ pc = "header"
  /\ \E r \in Reads(2) :
       /\ buf' = r.buf /\ wire' = r.wire
       /\ torn' = (torn \/ ~IsHeader(r.got))
       /\ hdr' \in HeaderAfter(r.got)
  /\ nread' = 0
  /\ IF hdr'.type # "none" /\ hdr'.size <= req.size /\ hdr'.size > 0
     THEN pc' = "payload" /\ UNCHANGED <<callVars, req, bulkVars, target, port, blocking, residue>>
     ELSE \E ok \in BOOLEAN :
            /\ ok => hdr'.size = 0 /\ hdr'.type = req.type
            /\ req' = NoReq /\ Conclude(ok, bulk.clean)
  /\ UNCHANGED cmds

\* Mutant of Overwritten: every exchange reads its answer into one buffer.
OverwrittenAlways(got) == got # << >>

\* mcu_spi_flush() has the acknowledgement read into the bulk buffer itself.
Overwritten(got) == op = "send" /\ got # << >>

\* read_ack(), the payload: reads until it is whole. Then the decoder of the
\* request tests the type, and for GPIO and SPI the status the MCU reports.
ReadPayload ==
  /\ pc = "payload"
  /\ \E r \in Reads(hdr.size - nread) :
       LET clean == bulk.clean /\ ~Overwritten(r.got)
           size  == nread + Len(r.got)
       IN /\ buf' = r.buf /\ wire' = r.wire
          /\ IF size < hdr.size
             THEN /\ nread' = size /\ bulk' = [bulk EXCEPT !.clean = clean]
                  /\ UNCHANGED <<pc, callVars, req, mode, reqnb, target, port, blocking, residue>>
             ELSE /\ nread' = 0 /\ req' = NoReq
                  /\ \E ok \in BOOLEAN :
                       /\ ok => hdr.type = req.type
                       /\ ~ok => hdr.type # req.type \/ hdr.type \in {"gpio", "multi"}
                       /\ Conclude(ok, clean)
  /\ UNCHANGED <<hdr, cmds, torn>>

-----------------------------------------------------------------------------
\* The MCU carries out a request and answers.
McuExecute ==
  /\ cmds # << >>
  /\ wire' = wire \o AckOf(Head(cmds))
  /\ cmds' = Tail(cmds)
  /\ UNCHANGED <<pc, callVars, ackVars, bulkVars, target, portVars, torn, residue>>

Unplug ==
  /\ port = "up"
  /\ port' = "gone" /\ cmds' = << >> /\ wire' = << >> /\ torn' = TRUE
  /\ UNCHANGED <<pc, callVars, ackVars, bulkVars, target, blocking, buf, residue>>

\* LGWService.disconnectSerialPort(), on the intent of the detached device.
DropSocket ==
  /\ port = "gone"
  /\ port' = "none" /\ buf' = [data |-> << >>, pos |-> 0]
  /\ UNCHANGED <<pc, callVars, ackVars, bulkVars, target, blocking, mcuVars, torn, residue>>

\* LGWService.connectSerialPort(), on the intent of the attached device.
Plug ==
  /\ port = "none"
  /\ port' = "up" /\ blocking' = FALSE
  /\ UNCHANGED <<pc, callVars, ackVars, bulkVars, target, buf, mcuVars, torn, residue>>

\* The process has ended and is started again.
Restart ==
  /\ pc = "crashed"
  /\ pc' = "idle" /\ op' = "none" /\ todo' = << >> /\ writes' = << >> /\ stored' = 0
  /\ failed' = FALSE
  /\ req' = NoReq /\ nread' = 0 /\ hdr' = NoReq
  /\ mode' = "SINGLE" /\ bulk' = [size |-> 0, nb |-> 0, clean |-> TRUE] /\ reqnb' = 0
  /\ target' = "none"
  /\ blocking' = FALSE /\ buf' = [data |-> << >>, pos |-> 0]
  /\ torn' = TRUE /\ residue' = "none"
  /\ UNCHANGED <<port, mcuVars>>

HostStep == Store \/ Flush \/ DrainTty \/ Ask \/ AskFails \/ ReadHeader \/ ReadPayload

Next ==
  \/ BeginRead \/ BeginTemperature \/ BeginWrite \/ StoreOnly \/ BeginSend
  \/ BeginClose \/ BeginReopen \/ BeginOpen
  \/ Store \/ Flush \/ DrainTty \/ Ask \/ AskFails \/ ReadHeader \/ ReadPayload
  \/ McuExecute \/ Unplug \/ DropSocket \/ Plug \/ Restart

\* The thread that calls and the MCU make progress; the port owes nothing.
Spec == Init /\ [][Next]_vars /\ WF_vars(HostStep) /\ WF_vars(McuExecute)

-----------------------------------------------------------------------------
\* While the stream is whole, what is unread is exactly what is left of the
\* acknowledgement of the request under way, and nothing between requests: no
\* acknowledgement is taken for another's although the ids are never compared.
InSync ==
  ~torn =>
    /\ pc \notin {"header", "payload"} => cmds = << >> /\ Unread = << >>
    /\ pc = "header" =>
         \/ cmds = <<req>> /\ Unread = << >>
         \/ cmds = << >> /\ Unread = AckOf(req)
    /\ pc = "payload" =>
         /\ cmds = << >> /\ hdr = req
         /\ Unread = SubSeq(AckOf(req), nread + 3, req.size + 2)

\* Between calls the mode is SINGLE and the bulk buffer is empty, unless since the
\* last flush a flush has failed or an empty payload has ended a transmission
\* (lgw_mem_wb in sx1302_send): only then can a transmission find leftovers,
\* overflow the buffer and leave the link in bulk mode, in which every read is
\* refused.
CleanBetweenCalls ==
  pc = "idle" /\ residue = "none" =>
    mode = "SINGLE" /\ bulk.size = 0 /\ bulk.nb = 0 /\ reqnb = 0

\* The MCU gets the bytes of an earlier acknowledgement as requests only after
\* a flush that failed: the acknowledgement is read into the bulk buffer.
OnlyRequestsSent ==
  bulk.clean \/ residue = "any" \/ (pc = "payload" /\ op = "send")

\* A call of an open port returns unless the stream breaks under it.
CallReturns == pc # "idle" ~> (pc \in {"idle", "crashed"} \/ torn)

Stage ==
  IF torn THEN "broken"
  ELSE IF pc \notin {"header", "payload"} THEN "free"
  ELSE IF cmds # << >> THEN "asked" ELSE "done"

Promise == INSTANCE Exchange WITH stage <- Stage
Promised == Promise!Spec
=============================================================================
