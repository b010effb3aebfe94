---------------------------- MODULE McuLinkProofs ----------------------------
(***************************************************************************)
(* What holds of the link for every size of the bulk buffer and for every  *)
(* transmission, in three parts. The bulk buffer: a call that leaves it    *)
(* filled ended on a failed flush or on an empty payload. The stream: a    *)
(* read takes the bytes of the MCU in order, however they are split over   *)
(* transfers; with it the type of the state. The exchange: while the       *)
(* stream is whole, an acknowledgement is taken for that of the request    *)
(* under way only, which implements Exchange.                              *)
(***************************************************************************)
EXTENDS McuLink, SequenceTheorems, TLAPS

\* Where the writes stored so far end in an empty bulk buffer.
End == IF stored = 0 THEN 0 ELSE writes[stored]

Waiting == {"ask", "header", "payload"}

\* The call under way agrees with where it is, and a transmission restores the
\* mode before it waits for the MCU.
CallInv ==
  /\ pc = "idle" => op = "none"
  /\ pc \in {"store", "flush"} => op = "send"
  /\ op = "send" => pc \in {"store", "flush"} \cup Waiting
  /\ op = "send" /\ pc \in Waiting => mode = "SINGLE" /\ Len(todo) = 1

\* Outside a transmission nothing is pending, and in it exactly the writes
\* stored so far, unless a flush has failed or an empty payload ended the last.
BulkInv ==
  residue = "none" =>
    /\ op # "send" => mode = "SINGLE" /\ bulk = EmptyBulk /\ reqnb = 0
    /\ pc \in {"store", "flush"} =>
         /\ writes \in SENDS /\ stored \in 0 .. Len(writes)
         /\ pc = "store" => stored < Len(writes)
         /\ pc = "flush" => stored > 0
         /\ bulk = [size |-> End, nb |-> stored, clean |-> TRUE]
         /\ reqnb = stored

\* As long as no flush has failed the bulk buffer holds requests only, save while
\* an acknowledgement is read into it.
CleanInv ==
  /\ "clean" \in DOMAIN bulk
  /\ residue # "any" => bulk.clean = TRUE \/ (op = "send" /\ pc = "payload")

IInv == CallInv /\ BulkInv /\ CleanInv /\ residue \in {"none", "requests", "any"}

-----------------------------------------------------------------------------
LEMMA StillEmpty == [EmptyBulk EXCEPT !.clean = TRUE] = EmptyBulk
<1>1. EmptyBulk.clean = TRUE
  BY DEF EmptyBulk
<1>2. [EmptyBulk EXCEPT !.clean = EmptyBulk.clean] = EmptyBulk
  BY DEF EmptyBulk
<1> QED BY <1>1, <1>2, Zenon

\* What the end of an exchange, or bytes of its answer, leave of the buffer.
LEMMA CleanSet ==
  ASSUME "clean" \in DOMAIN bulk, NEW c
  PROVE  /\ "clean" \in DOMAIN [bulk EXCEPT !.clean = c]
         /\ [bulk EXCEPT !.clean = c].clean = c
OBVIOUS

\* An exchange that concludes outside a transmission leaves the bulk buffer as
\* it is.
LEMMA ConcludeOther ==
  ASSUME IInv, op # "send", pc \in Waiting, NEW ok \in BOOLEAN,
         NEW clean, residue # "any" => clean = TRUE, Conclude(ok, clean)
  PROVE  IInv'
<1>1. UNCHANGED <<mode, reqnb, residue>>
  BY DEF Conclude, Return
<1>2. op' # "send" /\ op' \in {op, "none", "open"}
  BY DEF Conclude, Return, StartTty
<1>3. pc' \notin {"store", "flush"} /\ (pc' = "idle" => op' = "none")
  BY DEF Conclude, Return, StartTty, IInv, CallInv, Waiting
<1>4. bulk' = bulk \/ bulk' = [bulk EXCEPT !.clean = clean]
  BY DEF Conclude, Return
<1>5. residue = "none" => bulk' = bulk
  <2>1. residue = "none" => bulk = EmptyBulk
    BY DEF IInv, BulkInv
  <2>2. bulk = EmptyBulk => [bulk EXCEPT !.clean = TRUE] = bulk
    BY StillEmpty
  <2> QED BY <1>4, <2>1, <2>2
<1>6. CleanInv'
  <2>1. "clean" \in DOMAIN bulk /\ (residue # "any" => bulk.clean = TRUE)
    BY DEF IInv, CleanInv
  <2>2. "clean" \in DOMAIN bulk' /\ (residue # "any" => bulk'.clean = TRUE)
    BY <1>4, <2>1, CleanSet
  <2> QED BY <1>1, <2>2 DEF CleanInv
<1> QED BY <1>1, <1>2, <1>3, <1>5, <1>6 DEF IInv, CallInv, BulkInv

\* A flush that concludes has emptied the bulk buffer or has failed.
LEMMA ConcludeSend ==
  ASSUME IInv, op = "send", pc \in Waiting, NEW ok \in BOOLEAN,
         NEW clean, Conclude(ok, clean)
  PROVE  IInv'
<1>1. Return(ok, clean) /\ mode' = mode
  <2>1. Len(todo) = 1
    BY DEF IInv, CallInv
  <2>2. ~(Len(todo) > 1)
    BY <2>1
  <2> QED BY <2>2 DEF Conclude
<1>2. pc' = "idle" /\ op' = "none" /\ mode' = "SINGLE"
  BY <1>1 DEF Return, IInv, CallInv
<1>3. reqnb' = 0 /\ residue' = (IF ok THEN "none" ELSE "any")
  BY <1>1, Zenon DEF Return
<1>4. ok => bulk' = EmptyBulk
  BY <1>1, Zenon DEF Return
<1>5. residue' \in {"none", "requests", "any"} /\ (residue' # "any" => ok)
  BY <1>3
<1>6. CleanInv'
  <2>1. CASE ok
    BY <1>4, <1>5, <2>1 DEF CleanInv, EmptyBulk
  <2>2. CASE ~ok
    <3>1. bulk' = [bulk EXCEPT !.clean = clean] /\ residue' = "any"
      BY <1>1, <1>3, <2>2 DEF Return
    <3> QED BY <3>1, CleanSet DEF IInv, CleanInv
  <2> QED BY <2>1, <2>2
<1> QED BY <1>2, <1>3, <1>4, <1>5, <1>6 DEF IInv, CallInv, BulkInv

\* A call that begins outside a transmission, or a step that the bulk buffer
\* takes no part in.
LEMMA Unrelated ==
  ASSUME IInv, UNCHANGED <<bulkVars, residue>>, op # "send", op' # "send",
         pc' \notin {"store", "flush"}, pc' = "idle" => op' = "none"
  PROVE  IInv'
BY DEF IInv, CallInv, BulkInv, CleanInv, bulkVars

\* A step that leaves the call where it is.
LEMMA SameCall ==
  ASSUME IInv, UNCHANGED <<pc, op, todo, sendVars, bulkVars, residue>>
  PROVE  IInv'
BY DEF IInv, CallInv, BulkInv, CleanInv, bulkVars, sendVars, End, Waiting

\* A request that is stored leaves the bytes of the buffer requests.
LEMMA InsertClean ==
  ASSUME CleanInv, NEW n, Insert(n)
  PROVE  "clean" \in DOMAIN bulk' /\ bulk'.clean = bulk.clean
BY DEF CleanInv, Insert

LEMMA ModSmall ==
  ASSUME NEW m \in Nat \ {0}, NEW a \in 0 .. m-1
  PROVE  a % m = a
OBVIOUS

\* The first write of a transmission, and each of the following ones, fits; an
\* empty payload ends it.
LEMMA StoreInv ==
  ASSUME IInv, Store
  PROVE  IInv'
<1> DEFINE size == IF stored = 0 THEN writes[1] ELSE writes[stored+1] - writes[stored]
<1> USE DEF Store
<1>1. op = "send" /\ UNCHANGED mode
  BY DEF IInv, CallInv, Insert, bulkVars
<1>2. residue' \in {"none", "requests", "any"} /\ (residue' = "none" => residue = "none")
      /\ (residue' # "any" => residue # "any")
  BY DEF IInv
<1>3. CleanInv'
  <2>1. CASE size > 0
    <3>1. "clean" \in DOMAIN bulk' /\ bulk'.clean = bulk.clean
      BY <2>1, InsertClean DEF IInv
    <3> QED BY <1>2, <3>1 DEF IInv, CleanInv
  <2>2. CASE ~(size > 0)
    BY <1>2, <2>2 DEF IInv, CleanInv, bulkVars
  <2> QED BY <2>1, <2>2
<1>4. CASE residue' # "none"
  BY <1>1, <1>2, <1>3, <1>4 DEF IInv, CallInv, BulkInv, Waiting
<1>5. CASE residue' = "none"
  <2>0. size > 0 /\ Insert(size)
    BY <1>5, <1>2
  <2>1. /\ writes \in SENDS /\ stored \in 0 .. Len(writes) /\ stored < Len(writes)
        /\ bulk = [size |-> End, nb |-> stored, clean |-> TRUE] /\ reqnb = stored
    BY <1>2, <1>5 DEF IInv, BulkInv
  <2>2. writes \in Seq(0 .. BULK_SIZE) /\ Len(writes) \in 1 .. REQ_MAX
    BY <2>1, LinkAssumption
  <2>3. BULK_SIZE \in Nat /\ REQ_MAX \in Nat /\ REQ_MOD \in Nat /\ REQ_MAX < REQ_MOD
    BY LinkAssumption
  <2>4. stored \in Nat /\ stored + 1 \in 1 .. Len(writes)
    BY <2>1, <2>2
  <2>5. writes[stored+1] \in 0 .. BULK_SIZE
    BY <2>2, <2>4, ElementOfSeq
  <2>6. stored # 0 => writes[stored] \in 0 .. BULK_SIZE
    <3>1. stored # 0 => stored \in 1 .. Len(writes)
      BY <2>1, <2>4
    <3> QED BY <2>2, <3>1, ElementOfSeq
  <2>7. End \in Nat /\ size \in Int /\ End + size = writes[stored+1]
    BY <2>4, <2>5, <2>6 DEF End
  <2>8. Fits(size)
    BY <2>1, <2>2, <2>3, <2>4, <2>5, <2>7 DEF Fits
  <2>9. stored' = stored + 1 /\ writes' = writes /\ op' = "send"
    BY <2>0, <2>8, <1>1
  <2>10. End' = writes[stored+1]
    BY <2>9, <2>4 DEF End
  <2>11. bulk' = [size |-> End', nb |-> stored', clean |-> TRUE]
    <3> HIDE DEF size
    <3> QED BY <2>0, <2>1, <2>7, <2>8, <2>9, <2>10 DEF Insert
  <2>12. reqnb' = stored'
    <3>1. stored + 1 \in 0 .. REQ_MOD - 1
      BY <2>2, <2>3, <2>4
    <3>2. (stored + 1) % REQ_MOD = stored + 1
      BY <3>1, LinkAssumption, ModSmall
    <3> QED BY <3>2, <2>0, <2>1, <2>9 DEF Insert
  <2>13. pc' = (IF stored + 1 = Len(writes) THEN "flush" ELSE "store")
    BY <2>0, <2>8
  <2>14. /\ stored' \in 0 .. Len(writes) /\ stored' > 0
         /\ pc' = "store" => stored' < Len(writes)
    BY <2>4, <2>9, <2>13, <2>2
  <2>15. CallInv'
    BY <2>9, <2>13 DEF CallInv, Waiting
  <2>16. BulkInv'
    BY <2>1, <2>9, <2>11, <2>12, <2>13, <2>14, <1>1 DEF BulkInv
  <2> QED BY <2>15, <2>16, <1>2, <1>3 DEF IInv
<1> QED BY <1>4, <1>5

LEMMA FlushInv ==
  ASSUME IInv, Flush
  PROVE  IInv'
<1> USE DEF Flush
<1>1. op = "send" /\ UNCHANGED <<bulk, reqnb, residue>> /\ mode' = "SINGLE"
  BY DEF IInv, CallInv
<1>2. CASE reqnb = 0
  <2>1. pc' = "idle" /\ op' = "none"
    BY <1>2
  <2>2. residue # "none"
    <3>1. SUFFICES ASSUME residue = "none" PROVE FALSE
      BY DEF IInv
    <3>2. stored > 0 /\ stored = 0
      BY <1>2, <3>1 DEF IInv, BulkInv
    <3> QED BY <3>2
  <2> QED BY <2>1, <2>2, <1>1 DEF IInv, CallInv, BulkInv, CleanInv
<1>3. CASE reqnb # 0
  <2>1. pc' = "ask" /\ op' = "send" /\ todo' = <<Multi(bulk.size)>>
    BY <1>1, <1>3
  <2>2. Len(todo') = 1
    BY <2>1
  <2>3. pc # "payload"
    OBVIOUS
  <2> QED BY <2>1, <2>2, <2>3, <1>1 DEF IInv, CallInv, BulkInv, CleanInv, Waiting
<1> QED BY <1>2, <1>3

-----------------------------------------------------------------------------
LEMMA InitInv == Init => IInv
BY DEF Init, IInv, CallInv, BulkInv, CleanInv, EmptyBulk

LEMMA StepInv == IInv /\ [Next]_vars => IInv'
<1> SUFFICES ASSUME IInv, [Next]_vars PROVE IInv'
  OBVIOUS
<1> USE DEF IInv
<1>1. CASE UNCHANGED vars
  BY <1>1, SameCall DEF vars, callVars, sendVars
<1>2. CASE BeginRead \/ BeginTemperature \/ BeginWrite \/ BeginClose \/ BeginReopen
  <2>1. /\ pc = "idle" /\ pc' = "ask" /\ op' \notin {"send", "none"}
        /\ UNCHANGED <<bulkVars, residue>>
    BY <1>2 DEF BeginRead, BeginTemperature, BeginWrite, BeginClose, BeginReopen, Call
  <2> QED BY <2>1, Unrelated DEF CallInv
<1>3. CASE StoreOnly
  <2>1. op = "none" /\ residue # "none"
    BY <1>3 DEF StoreOnly, CallInv, BulkInv
  <2>2. CleanInv'
    <3>1. "clean" \in DOMAIN bulk' /\ bulk'.clean = bulk.clean
      BY <1>3, InsertClean DEF StoreOnly
    <3> QED BY <1>3, <3>1 DEF StoreOnly, CleanInv, callVars
  <2> QED BY <1>3, <2>1, <2>2 DEF StoreOnly, CallInv, BulkInv, callVars
<1>4. CASE BeginSend
  <2>1. op = "none" /\ UNCHANGED <<bulk, reqnb, residue>>
    BY <1>4 DEF BeginSend, CallInv
  <2>2. /\ pc' = "store" /\ op' = "send" /\ mode' = "BULK"
        /\ writes' \in SENDS /\ stored' = 0
    BY <1>4 DEF BeginSend
  <2>3. Len(writes') \in Nat /\ 0 < Len(writes')
    BY <2>2, LinkAssumption
  <2>4. residue = "none" => bulk' = [size |-> End', nb |-> stored', clean |-> TRUE] /\ reqnb' = 0
    BY <2>1, <2>2 DEF BulkInv, EmptyBulk, End
  <2>5. CleanInv'
    BY <2>1, <2>2 DEF CleanInv
  <2> QED BY <2>1, <2>2, <2>3, <2>4, <2>5 DEF CallInv, BulkInv, Waiting
<1>5. CASE BeginOpen
  BY <1>5, Unrelated DEF BeginOpen, StartTty, CallInv
<1>6. CASE Store
  BY <1>6, StoreInv
<1>7. CASE Flush
  BY <1>7, FlushInv
<1>8. CASE DrainTty
  <2>1. /\ pc = "tty" /\ UNCHANGED <<op, todo, sendVars, bulkVars, residue>>
        /\ pc' \in {"tty", "ask", "crashed"}
    BY <1>8 DEF DrainTty, callVars
  <2>2. op # "send"
    BY <2>1 DEF CallInv, Waiting
  <2> QED BY <2>1, <2>2, Unrelated
<1>9. CASE Ask
  <2>1. pc = "ask" /\ pc' = "header" /\ UNCHANGED <<op, todo, sendVars, bulkVars, residue>>
    BY <1>9 DEF Ask, callVars
  <2> QED BY <2>1 DEF CallInv, BulkInv, CleanInv, Waiting, bulkVars
<1>0. residue # "any" /\ op # "send" => bulk.clean = TRUE
  BY DEF CleanInv
<1>10. CASE AskFails
  BY <1>0, <1>10, ConcludeOther, ConcludeSend DEF AskFails, Waiting
<1>11. CASE ReadHeader
  <2>1. pc = "header"
    BY <1>11 DEF ReadHeader
  <2>2. CASE /\ pc' = "payload"
             /\ UNCHANGED <<callVars, req, bulkVars, target, port, blocking, residue>>
    BY <2>1, <2>2 DEF CallInv, BulkInv, CleanInv, Waiting, bulkVars, callVars, sendVars
  <2>3. CASE \E ok \in BOOLEAN : Conclude(ok, bulk.clean)
    BY <1>0, <2>1, <2>3, ConcludeOther, ConcludeSend DEF Waiting
  <2> QED BY <1>11, <2>2, <2>3 DEF ReadHeader
<1>12. CASE ReadPayload
  <2>1. PICK r \in Reads(hdr.size - nread) :
          \/ /\ bulk' = [bulk EXCEPT !.clean = bulk.clean /\ ~Overwritten(r.got)]
             /\ UNCHANGED <<pc, callVars, req, mode, reqnb, target, port, blocking, residue>>
          \/ \E ok \in BOOLEAN : Conclude(ok, bulk.clean /\ ~Overwritten(r.got))
    BY <1>12 DEF ReadPayload
  <2>2. pc = "payload"
    BY <1>12 DEF ReadPayload
  <2> DEFINE clean == bulk.clean /\ ~Overwritten(r.got)
  <2>3. CASE \E ok \in BOOLEAN : Conclude(ok, clean)
    <3>1. CASE op = "send"
      BY <2>2, <2>3, <3>1, ConcludeSend DEF Waiting
    <3>2. CASE op # "send"
      <4>1. residue # "any" => clean = TRUE
        BY <1>0, <3>2 DEF Overwritten
      <4> QED BY <2>2, <2>3, <3>2, <4>1, ConcludeOther DEF Waiting
    <3> QED BY <3>1, <3>2
  <2>4. CASE /\ bulk' = [bulk EXCEPT !.clean = clean]
             /\ UNCHANGED <<pc, callVars, req, mode, reqnb, target, port, blocking, residue>>
    <3>1. "clean" \in DOMAIN bulk' /\ bulk'.clean = clean
      BY <2>4, CleanSet DEF CleanInv
    <3>2. CleanInv'
      <4>1. op # "send" /\ residue # "any" => clean = TRUE
        BY <1>0 DEF Overwritten
      <4> QED BY <2>2, <2>4, <3>1, <4>1 DEF CleanInv, callVars
    <3>3. op # "send" /\ residue = "none" => bulk' = bulk
      <4> SUFFICES ASSUME op # "send", residue = "none" PROVE bulk' = bulk
        OBVIOUS
      <4>1. bulk' = [bulk EXCEPT !.clean = TRUE]
        BY <1>0, <2>4 DEF Overwritten
      <4>2. bulk = EmptyBulk
        BY DEF BulkInv
      <4> QED BY <4>1, <4>2, StillEmpty
    <3> QED BY <2>2, <2>4, <3>2, <3>3 DEF CallInv, BulkInv, callVars, sendVars
  <2> QED BY <2>1, <2>3, <2>4
<1>13. CASE McuExecute \/ Unplug \/ DropSocket \/ Plug
  BY <1>13, SameCall DEF McuExecute, Unplug, DropSocket, Plug, callVars
<1>14. CASE Restart
  BY <1>14 DEF Restart, CallInv, BulkInv, CleanInv, EmptyBulk
<1> QED BY <1>1, <1>2, <1>3, <1>4, <1>5, <1>6, <1>7, <1>8, <1>9, <1>10, <1>11,
        <1>12, <1>13, <1>14 DEF Next

\* Every step of a call on the link, ending in an error or not, keeps the bulk
\* buffer and the place of the call in agreement (loragw_usb.c, loragw_mcu.c).
THEOREM Inductive == Spec => []IInv
BY InitInv, StepInv, PTL DEF Spec

\* Whatever the size of the buffer: between calls the link is left in bulk mode,
\* or with writes pending, only after a flush that failed or a transmission with
\* an empty payload (sx1302_send).
THEOREM BulkIsClean == Spec => []CleanBetweenCalls
<1>1. IInv => CleanBetweenCalls
  BY DEF IInv, CallInv, BulkInv, CleanBetweenCalls, EmptyBulk
<1> QED BY <1>1, Inductive, PTL

\* What is sent to the MCU as requests are the requests of the program, unless a
\* flush failed after it had read an acknowledgement into their place.
THEOREM BulkHoldsRequests == Spec => []OnlyRequestsSent
<1>1. IInv => OnlyRequestsSent
  BY DEF IInv, CleanInv, OnlyRequestsSent
<1> QED BY <1>1, Inductive, PTL

-----------------------------------------------------------------------------
\* The stream: reads take the bytes of the MCU in order and lose none, however
\* they are split over transfers and over the read buffer.
Buffers == [data : Seq(Unit), pos : Nat]
Left(b) == SubSeq(b.data, b.pos + 1, Len(b.data))

LEMMA Associative ==
  ASSUME NEW s \in Seq(Unit), NEW t \in Seq(Unit), NEW u \in Seq(Unit)
  PROVE  (s \o t) \o u = s \o (t \o u)
BY ConcatAssociative

LEMMA LeftFacts ==
  ASSUME NEW b \in Buffers
  PROVE  /\ b.data \in Seq(Unit) /\ b.pos \in Nat /\ Len(b.data) \in Nat
         /\ Left(b) \in Seq(Unit)
         /\ Len(Left(b)) = IF b.pos < Len(b.data) THEN Len(b.data) - b.pos ELSE 0
         /\ b.pos >= Len(b.data) => Left(b) = << >>
<1>1. b.data \in Seq(Unit) /\ b.pos \in Nat /\ Len(b.data) \in Nat
  BY LenProperties DEF Buffers
<1>2. \A i \in b.pos + 1 .. Len(b.data) : b.data[i] \in Unit
  <2>1. \A i \in 1 .. Len(b.data) : b.data[i] \in Unit
    BY <1>1, ElementOfSeq
  <2> QED BY <1>1, <2>1
<1>3. b.pos + 1 \in Int /\ Len(b.data) \in Int
  BY <1>1
<1>4. /\ Left(b) \in Seq(Unit)
      /\ Len(Left(b)) = IF b.pos + 1 <= Len(b.data) THEN Len(b.data) - (b.pos + 1) + 1 ELSE 0
  BY <1>2, <1>3, SubSeqProperties DEF Left
<1>5. b.pos >= Len(b.data) => Left(b) = << >>
  BY <1>1, <1>3, SubSeqEmpty DEF Left
<1> QED BY <1>1, <1>4, <1>5

LEMMA EmptyBuffer ==
  LET b == [data |-> << >>, pos |-> 0]
  IN b \in Buffers /\ Left(b) = << >>
<1> DEFINE b == [data |-> << >>, pos |-> 0]
<1>1. b \in Buffers /\ b.pos = 0 /\ Len(b.data) = 0
  BY EmptySeq DEF Buffers
<1>2. Left(b) = << >>
  BY <1>1, LeftFacts
<1> QED BY <1>1, <1>2

\* The buffer that a transfer has filled.
LEMMA FullBuffer ==
  ASSUME NEW s \in Seq(Unit)
  PROVE  LET b == [data |-> s, pos |-> 0]
         IN b \in Buffers /\ Left(b) = s
<1> DEFINE b == [data |-> s, pos |-> 0]
<1>1. b \in Buffers /\ b.pos = 0 /\ b.data = s
  BY DEF Buffers
<1>2. Left(b) = SubSeq(s, 1, Len(s))
  BY <1>1 DEF Left
<1> QED BY <1>1, <1>2, SubSeqFull

LEMMA SettledFacts ==
  ASSUME NEW b \in Buffers
  PROVE  Settled(b) \in Buffers /\ Left(Settled(b)) = Left(b)
<1>1. CASE b.pos < Len(b.data)
  BY <1>1 DEF Settled
<1>2. CASE ~(b.pos < Len(b.data))
  <2>1. Left(b) = << >>
    BY <1>2, LeftFacts
  <2>2. Settled(b) = [data |-> << >>, pos |-> 0]
    BY <1>2 DEF Settled
  <2> QED BY <2>1, <2>2, EmptyBuffer
<1> QED BY <1>1, <1>2

\* getFromBuffer() takes from the front, and stops short only of an empty buffer.
LEMMA FromBufferFacts ==
  ASSUME NEW b \in Buffers, NEW n \in Nat, NEW f, f = FromBuffer(b, n)
  PROVE  /\ f.got \in Seq(Unit) /\ Len(f.got) \in 0 .. n /\ f.buf \in Buffers
         /\ f.got \o Left(f.buf) = Left(b)
         /\ Len(f.got) < n => Left(f.buf) = << >>
<1> DEFINE left == Len(b.data) - b.pos
           take == Smaller(n, left)
<1>0. b.data \in Seq(Unit) /\ b.pos \in Nat /\ Len(b.data) \in Nat /\ left \in Int
  BY LeftFacts
<1>1. CASE left <= 0
  <2>1. f = [got |-> << >>, buf |-> [data |-> << >>, pos |-> 0]]
    BY <1>1 DEF FromBuffer
  <2>2. Left(b) = << >>
    BY <1>0, <1>1, LeftFacts
  <2>3. << >> \o << >> = << >> /\ << >> \in Seq(Unit) /\ Len(<< >>) = 0
    BY ConcatEmptySeq, EmptySeq
  <2>4. f.got = << >> /\ f.buf = [data |-> << >>, pos |-> 0]
    BY <2>1
  <2>5. f.buf \in Buffers /\ Left(f.buf) = << >>
    BY <2>4, EmptyBuffer
  <2> QED BY <2>2, <2>3, <2>4, <2>5
<1>2. CASE left > 0
  <2>1. /\ take \in 0 .. n /\ take <= left /\ (take < n => take = left)
    BY <1>0, <1>2 DEF Smaller
  <2> DEFINE b1   == [b EXCEPT !.pos = @ + take]
             from == b.pos + 1
             to   == b.pos + take
             sub  == SubSeq(b.data, from, to)
  <2>3. f = [got |-> sub, buf |-> b1]
    BY <1>0, <1>2 DEF FromBuffer
  <2>4. /\ from \in 1 .. Len(b.data) + 1 /\ to \in from - 1 .. Len(b.data)
        /\ Len(b.data) \in to .. Len(b.data) /\ to - from + 1 = take
        /\ (take < n => to >= Len(b.data)) /\ from = b.pos + 1
    BY <1>0, <1>2, <2>1
  <2>0. take \in Int
    BY <2>1
  <2> HIDE DEF take
  <2>2. b1 \in Buffers /\ b1.data = b.data /\ b1.pos = to
    BY <1>0, <2>1, <2>0 DEF Buffers
  <2> HIDE DEF b1, from, to, sub
  <2>5. f.got = sub /\ f.buf = b1
    BY <2>3
  <2>6. \A i \in from .. to : b.data[i] \in Unit
    <3>1. \A i \in 1 .. Len(b.data) : b.data[i] \in Unit
      BY <1>0, ElementOfSeq
    <3>2. \A i \in from .. to : i \in 1 .. Len(b.data)
      BY <1>0, <2>4
    <3> QED BY <3>1, <3>2
  <2>7. f.got \in Seq(Unit) /\ Len(f.got) = take
    <3>1. from \in Int /\ to \in Int
      BY <1>0, <2>4
    <3>2. /\ f.got \in Seq(Unit)
          /\ Len(f.got) = IF from <= to THEN to - from + 1 ELSE 0
      BY <2>5, <2>6, <3>1, SubSeqProperties DEF sub
    <3> QED BY <1>0, <2>1, <2>4, <3>1, <3>2
  <2>8. f.got \o Left(f.buf) = Left(b)
    <3>1. SubSeq(b.data, from, to) \o SubSeq(b.data, to + 1, Len(b.data))
            = SubSeq(b.data, from, Len(b.data))
      BY <1>0, <2>4, ConcatAdjacentSubSeq
    <3> QED BY <2>2, <2>4, <2>5, <3>1 DEF Left, sub
  <2>9. Len(f.got) < n => Left(f.buf) = << >>
    BY <2>2, <2>4, <2>5, <2>7, LeftFacts
  <2>10. Len(f.got) \in 0 .. n
    BY <2>1, <2>7
  <2>11. f.buf \in Buffers
    BY <2>2, <2>5
  <2> QED BY <2>7, <2>8, <2>9, <2>10, <2>11, Zenon
<1>3. left <= 0 \/ left > 0
  BY <1>0
<1> QED BY <1>1, <1>2, <1>3, Zenon

\* A transfer while the device is there: it delivers the front of what the MCU
\* has sent; with nothing sent and a request to be carried out there is none.
LEMMA IntoBufferFacts ==
  ASSUME NEW b \in Buffers, NEW r \in IntoBuffer(b), wire \in Seq(Unit)
  PROVE  /\ r.buf \in Buffers /\ r.wire \in Seq(Unit)
         /\ port # "gone" => /\ Left(r.buf) \o r.wire = wire
                             /\ Left(r.buf) = << >> => wire = << >> /\ cmds = << >>
<1>1. CASE port = "gone"
  BY <1>1, LeftFacts DEF IntoBuffer, Refilled, Buffers
<1>2. CASE port # "gone" /\ wire # << >>
  <2>1. PICK k \in 1 .. Len(wire) :
          r = [buf |-> Refilled(b, SubSeq(wire, 1, k)), wire |-> SubSeq(wire, k + 1, Len(wire))]
    BY <1>2 DEF IntoBuffer
  <2>2. Len(wire) \in Nat
    BY LenProperties
  <2> DEFINE s == SubSeq(wire, 1, k)
             t == SubSeq(wire, k + 1, Len(wire))
  <2>3. \A i \in 1 .. Len(wire) : wire[i] \in Unit
    BY ElementOfSeq
  <2>4. s \in Seq(Unit) /\ Len(s) = k
    <3>1. \A i \in 1 .. k : wire[i] \in Unit
      BY <2>2, <2>3
    <3>2. s \in Seq(Unit) /\ Len(s) = IF 1 <= k THEN k - 1 + 1 ELSE 0
      BY <3>1, SubSeqProperties
    <3> QED BY <2>2, <3>2
  <2>5. t \in Seq(Unit)
    <3>1. k + 1 \in Int /\ Len(wire) \in Int /\ \A i \in k + 1 .. Len(wire) : wire[i] \in Unit
      BY <2>2, <2>3
    <3> QED BY <3>1, SubSeqProperties
  <2>6. s \o t = wire
    <3>1. /\ 1 \in 1 .. Len(wire) + 1 /\ k \in 1 - 1 .. Len(wire)
          /\ Len(wire) \in k .. Len(wire)
      BY <2>2
    <3>2. s \o t = SubSeq(wire, 1, Len(wire))
      BY <3>1, ConcatAdjacentSubSeq
    <3> QED BY <3>2, SubSeqFull
  <2> HIDE DEF s, t
  <2>7. r.buf = [data |-> s, pos |-> 0] /\ r.wire = t
    BY <2>1 DEF Refilled, s, t
  <2>8. r.buf \in Buffers /\ Left(r.buf) = s
    BY <2>4, <2>7, FullBuffer
  <2>9. s # << >>
    BY <2>2, <2>4, EmptySeq
  <2> QED BY <2>5, <2>6, <2>7, <2>8, <2>9
<1>3. CASE port # "gone" /\ wire = << >>
  <2>1. /\ cmds = << >>
        /\ r = [buf |-> Refilled(b, << >>), wire |-> << >>]
    BY <1>3 DEF IntoBuffer
  <2>2. r.buf = [data |-> << >>, pos |-> 0] /\ r.wire = << >>
    BY <2>1 DEF Refilled
  <2>3. << >> \o << >> = << >> /\ << >> \in Seq(Unit)
    BY ConcatEmptySeq, EmptySeq
  <2> QED BY <1>3, <2>1, <2>2, <2>3, EmptyBuffer
<1> QED BY <1>1, <1>2, <1>3

LEMMA SumWithin ==
  ASSUME NEW n \in Nat, NEW a \in 0 .. n, NEW c \in 0 .. n - a
  PROVE  a + c \in 0 .. n
OBVIOUS

\* A read while the device is there: what it takes, what it leaves in the buffer
\* and on the wire is what was unread, in order. It returns nothing only when
\* there is nothing and the MCU has nothing to do.
LEMMA ReadsFacts ==
  ASSUME buf \in Buffers, wire \in Seq(Unit), NEW n \in Nat, NEW r \in Reads(n)
  PROVE  /\ r.got \in Seq(Unit) /\ Len(r.got) \in 0 .. n
         /\ r.buf \in Buffers /\ r.wire \in Seq(Unit)
         /\ port = "up" =>
              /\ r.got \o (Left(r.buf) \o r.wire) = Unread
              /\ r.got = << >> /\ n > 0 => Unread = << >> /\ cmds = << >>
<1> DEFINE f == FromBuffer(buf, n)
           rest == n - Len(f.got)
<1>0. Unread = Left(buf) \o wire
  BY DEF Unread, Left
<1>1. /\ f.got \in Seq(Unit) /\ Len(f.got) \in 0 .. n /\ f.buf \in Buffers
      /\ f.got \o Left(f.buf) = Left(buf)
      /\ Len(f.got) < n => Left(f.buf) = << >>
  BY FromBufferFacts
<1>2. /\ Left(f.buf) \in Seq(Unit) /\ << >> \in Seq(Unit) /\ Len(<< >>) = 0
      /\ \A s \in Seq(Unit) : Len(s) = 0 => s = << >>
  BY <1>1, LeftFacts, EmptySeq
<1>3. CASE port = "none"
  <2>1. r = [got |-> << >>, buf |-> buf, wire |-> wire]
    BY <1>3 DEF Reads
  <2> QED BY <1>2, <1>3, <2>1
<1>4. CASE port # "none" /\ rest = 0
  <2>1. r = [got |-> f.got, buf |-> Settled(f.buf), wire |-> wire]
    BY <1>4 DEF Reads
  <2> HIDE DEF f
  <2>2. r.got = f.got /\ r.buf = Settled(f.buf) /\ r.wire = wire
    BY <2>1
  <2>3. r.buf \in Buffers /\ Left(r.buf) = Left(f.buf)
    BY <1>1, <2>2, SettledFacts
  <2>4. r.got \o (Left(r.buf) \o r.wire) = Unread
    <3>1. (f.got \o Left(f.buf)) \o wire = f.got \o (Left(f.buf) \o wire)
      <4>1. f.got \in Seq(Unit) /\ Left(f.buf) \in Seq(Unit) /\ wire \in Seq(Unit)
        BY <1>1, <1>2
      <4> QED BY <4>1, Associative, Zenon
    <3> QED BY <1>0, <1>1, <2>2, <2>3, <3>1, Zenon
  <2>5. r.got = << >> => ~(n > 0)
    BY <1>2, <1>4, <2>2
  <2> QED BY <1>1, <2>2, <2>3, <2>4, <2>5
<1>5. CASE port # "none" /\ rest # 0
  <2>1. PICK q \in IntoBuffer(f.buf) :
          r = [got |-> f.got \o FromBuffer(q.buf, rest).got,
               buf |-> Settled(FromBuffer(q.buf, rest).buf), wire |-> q.wire]
    BY <1>5 DEF Reads
  <2> DEFINE g == FromBuffer(q.buf, rest)
  <2> HIDE DEF f
  <2>2. /\ q.buf \in Buffers /\ q.wire \in Seq(Unit)
        /\ port # "gone" => /\ Left(q.buf) \o q.wire = wire
                            /\ Left(q.buf) = << >> => wire = << >> /\ cmds = << >>
    BY <1>1, IntoBufferFacts
  <2>3. rest \in Nat /\ rest > 0 /\ Len(f.got) < n
    BY <1>1, <1>5
  <2>4. /\ g.got \in Seq(Unit) /\ Len(g.got) \in 0 .. rest /\ g.buf \in Buffers
        /\ g.got \o Left(g.buf) = Left(q.buf)
        /\ Len(g.got) < rest => Left(g.buf) = << >>
    BY <2>2, <2>3, FromBufferFacts
  <2> HIDE DEF g
  <2>5. r.got = f.got \o g.got /\ r.buf = Settled(g.buf) /\ r.wire = q.wire
    BY <2>1 DEF g
  <2>6. r.buf \in Buffers /\ Left(r.buf) = Left(g.buf) /\ Left(g.buf) \in Seq(Unit)
    BY <2>4, <2>5, SettledFacts, LeftFacts
  <2>7. r.got \in Seq(Unit) /\ Len(r.got) \in 0 .. n
    <3>1. r.got \in Seq(Unit) /\ Len(r.got) = Len(f.got) + Len(g.got)
      <4>1. f.got \o g.got \in Seq(Unit) /\ Len(f.got \o g.got) = Len(f.got) + Len(g.got)
        BY <1>1, <2>4, ConcatProperties
      <4> QED BY <2>5, <4>1, Zenon
    <3>2. Len(r.got) \in 0 .. n
      BY <1>1, <2>4, <3>1, SumWithin, Zenon
    <3> QED BY <3>1, <3>2
  <2>8. f.got = Left(buf)
    BY <1>1, <2>3, ConcatEmptySeq
  <2>9. port # "gone" => r.got \o (Left(r.buf) \o r.wire) = Unread
    <3>1. (f.got \o g.got) \o (Left(g.buf) \o q.wire)
            = f.got \o (g.got \o (Left(g.buf) \o q.wire))
      <4>1. Left(g.buf) \o q.wire \in Seq(Unit)
        BY <2>2, <2>6, ConcatProperties
      <4>2. f.got \in Seq(Unit) /\ g.got \in Seq(Unit)
        BY <1>1, <2>4
      <4> QED BY <4>1, <4>2, Associative, Zenon
    <3>2. g.got \o (Left(g.buf) \o q.wire) = (g.got \o Left(g.buf)) \o q.wire
      <4>1. g.got \in Seq(Unit) /\ Left(g.buf) \in Seq(Unit) /\ q.wire \in Seq(Unit)
        BY <2>2, <2>4, <2>6
      <4> QED BY <4>1, Associative, Zenon
    <3> QED BY <1>0, <2>2, <2>4, <2>5, <2>6, <2>8, <3>1, <3>2, Zenon
  <2>10. port # "gone" /\ r.got = << >> => Unread = << >> /\ cmds = << >>
    <3>1. SUFFICES ASSUME port # "gone", r.got = << >> PROVE Unread = << >> /\ cmds = << >>
      OBVIOUS
    <3>2. f.got = << >> /\ g.got = << >>
      <4>1. f.got \in Seq(Unit) /\ g.got \in Seq(Unit)
        BY <1>1, <2>4
      <4>2. f.got \o g.got = << >>
        BY <2>5, <3>1
      <4> QED BY <4>1, <4>2, ConcatEqualIffEmpty
    <3>3. Left(g.buf) = << >> /\ Left(q.buf) = << >>
      BY <1>2, <2>3, <2>4, <3>2, ConcatEmptySeq
    <3> QED BY <1>0, <1>2, <2>2, <2>8, <3>1, <3>2, <3>3, ConcatEmptySeq
  <2> QED BY <2>2, <2>5, <2>6, <2>7, <2>9, <2>10
<1> QED BY <1>3, <1>4, <1>5

-----------------------------------------------------------------------------
\* The type of the state, and what a step needs of it: the call that waits has
\* an exchange to do and a request that is one, the read of a payload has bytes
\* to come, and the stream is whole only while the device is there.
Request == {k \in Kind : k.type # "none"}
Bulks   == [size : 0 .. BULK_SIZE, nb : 0 .. REQ_MAX, clean : BOOLEAN]
Ops     == {"open", "reopen", "close", "read", "write", "temperature", "send", "none"}

CallType ==
  /\ pc \in {"idle", "store", "flush", "tty", "ask", "header", "payload", "crashed"}
  /\ op \in Ops /\ todo \in Seq(Request) /\ failed \in BOOLEAN
  /\ pc \in {"tty"} \cup Waiting => todo # << >>

SendType ==
  /\ writes \in SENDS \cup {<< >>} /\ stored \in 0 .. Len(writes)
  /\ pc = "store" => writes \in SENDS /\ stored < Len(writes)

AckType ==
  /\ req \in Kind /\ nread \in Sizes /\ hdr \in Kind
  /\ pc \in {"header", "payload"} => req \in Request
  /\ pc = "payload" => nread < hdr.size

BulkType ==
  /\ mode \in {"SINGLE", "BULK"} /\ bulk \in Bulks
  /\ reqnb \in 0 .. REQ_MOD-1 /\ residue \in {"none", "requests", "any"}

PortType ==
  /\ target \in {"none", "live", "freed"} /\ port \in {"up", "gone", "none"}
  /\ blocking \in BOOLEAN /\ buf \in Buffers /\ torn \in BOOLEAN
  /\ ~torn => port = "up"

McuType == cmds \in Seq(Kind) /\ wire \in Seq(Unit)

TypeInv == CallType /\ SendType /\ AckType /\ BulkType /\ PortType /\ McuType

LEMMA SizeFacts ==
  /\ BULK_SIZE \in Nat \ {0} /\ REQ_MAX \in Nat \ {0} /\ REQ_MOD \in Nat \ {0}
  /\ GPIO_NB \in Nat \ {0} /\ JUNK_TYPES \subseteq Types /\ JUNK_SIZES \subseteq Sizes
  /\ 0 \in Sizes /\ 1 \in Sizes /\ Sizes \subseteq Nat /\ 0 .. BULK_SIZE \subseteq Sizes
BY LinkAssumption DEF Sizes

LEMMA SingleSeq ==
  ASSUME NEW S, NEW e \in S
  PROVE  <<e>> \in Seq(S) /\ <<e>> # << >> /\ Len(<<e>>) = 1 /\ Head(<<e>>) = e
         /\ Tail(<<e>>) = << >>
OBVIOUS

\* The exchanges of the calls.
LEMMA RequestFacts ==
  /\ Request \subseteq Kind /\ NoReq \in Kind
  /\ Ping \in Request /\ Status \in Request /\ Gpio \in Request
  /\ \A n \in Sizes : Multi(n) \in Request
  /\ ResetGpio \in Seq(Request) /\ ResetGpio # << >>
  /\ <<Ping, Status>> \o ResetGpio \in Seq(Request)
  /\ <<Ping, Status>> \o ResetGpio # << >>
<1>1. /\ Request \subseteq Kind /\ NoReq \in Kind
      /\ Ping \in Request /\ Status \in Request /\ Gpio \in Request
      /\ \A n \in Sizes : Multi(n) \in Request
  BY SizeFacts DEF Request, Kind, Types, NoReq, Ping, Status, Gpio, Multi
<1>2. GPIO_NB \in Nat /\ GPIO_NB > 0 /\ ResetGpio \in [1 .. GPIO_NB -> Request]
  BY <1>1, SizeFacts DEF ResetGpio
<1>3. ResetGpio \in Seq(Request) /\ Len(ResetGpio) = GPIO_NB
  BY <1>2
<1>4. <<Ping, Status>> \in Seq(Request) /\ Len(<<Ping, Status>>) = 2
  BY <1>1
<1>5. /\ <<Ping, Status>> \o ResetGpio \in Seq(Request)
      /\ Len(<<Ping, Status>> \o ResetGpio) = 2 + GPIO_NB
  BY <1>3, <1>4, ConcatProperties
<1>6. 2 + GPIO_NB # 0 /\ GPIO_NB # 0
  BY <1>2
<1>7. ResetGpio # << >> /\ <<Ping, Status>> \o ResetGpio # << >>
  BY <1>3, <1>5, <1>6, EmptySeq
<1> QED BY <1>1, <1>3, <1>5, <1>7

LEMMA AckFacts ==
  ASSUME NEW k \in Kind
  PROVE  /\ AckOf(k) \in Seq(Unit) /\ Len(AckOf(k)) = k.size + 2
         /\ \A i \in 1 .. k.size + 2 : AckOf(k)[i] = [req |-> k, i |-> i]
<1>1. k.size \in 0 .. BULK_SIZE + 1 /\ BULK_SIZE \in Nat
  BY SizeFacts DEF Kind, Sizes
<1>2. k.size + 2 \in Nat /\ \A i \in 1 .. k.size + 2 : i \in 1 .. BULK_SIZE + 3
  BY <1>1
<1>3. AckOf(k) \in [1 .. k.size + 2 -> Unit]
  BY <1>2 DEF AckOf, Unit
<1>4. AckOf(k) \in Seq(Unit) /\ Len(AckOf(k)) = k.size + 2
  BY <1>2, <1>3
<1>5. \A i \in 1 .. k.size + 2 : AckOf(k)[i] = [req |-> k, i |-> i]
  BY DEF AckOf
<1> QED BY <1>4, <1>5

LEMMA HeaderFacts ==
  ASSUME hdr \in Kind, NEW got \in Seq(Unit), NEW h \in HeaderAfter(got)
  PROVE  /\ h \in Kind
         /\ IsHeader(got) => h.type = got[2].req.type /\ h.size = got[1].req.size
<1>1. Len(got) \in Nat /\ (got # << >> => Len(got) >= 1)
  BY LenProperties, EmptySeq
<1>2. /\ got # << >> => got[1] \in Unit
      /\ Len(got) >= 2 => got[2] \in Unit
  BY <1>1, ElementOfSeq
<1>3. /\ got # << >> => got[1].req.size \in Sizes
      /\ Len(got) >= 2 => got[2].req.type \in Types
  BY <1>2 DEF Unit, Kind
<1> DEFINE ts == IF Len(got) < 2 THEN {hdr.type}
                 ELSE IF got[2].i = 2 THEN {got[2].req.type} ELSE JUNK_TYPES
           ss == IF got = << >> THEN {hdr.size}
                 ELSE IF got[1].i = 1 THEN {got[1].req.size} ELSE JUNK_SIZES
<1>4. h \in Kind
  <2>1. ts \subseteq Types
    BY <1>1, <1>3, SizeFacts DEF Kind
  <2>2. ss \subseteq Sizes
    BY <1>3, SizeFacts DEF Kind
  <2>3. h \in [type : ts, size : ss]
    BY DEF HeaderAfter
  <2> QED BY <2>1, <2>2, <2>3 DEF Kind
<1>5. IsHeader(got) => h.type = got[2].req.type /\ h.size = got[1].req.size
  <2>0. Len(<< >>) = 0
    BY EmptySeq
  <2>1. Len(got) = 2 => got # << >> /\ ~(Len(got) < 2)
    BY <2>0
  <2> QED BY <2>1 DEF HeaderAfter, IsHeader
<1> QED BY <1>4, <1>5

LEMMA InsertFacts ==
  ASSUME BulkType, NEW n \in Nat \ {0}, Insert(n)
  PROVE  bulk' \in Bulks /\ reqnb' \in 0 .. REQ_MOD-1 /\ mode' = mode
<1>1. reqnb' \in 0 .. REQ_MOD-1 /\ mode' = mode
  BY SizeFacts DEF BulkType, Insert
<1>2. CASE Fits(n)
  <2> DEFINE b1 == [bulk EXCEPT !.size = bulk.size + n]
  <2>1. bulk.size + n \in 0 .. BULK_SIZE /\ bulk.nb + 1 \in 0 .. REQ_MAX
    BY <1>2, SizeFacts DEF BulkType, Bulks, Fits
  <2>2. b1 \in Bulks /\ b1.nb = bulk.nb
    BY <2>1 DEF BulkType, Bulks
  <2>3. bulk' = [b1 EXCEPT !.nb = b1.nb + 1]
    BY <1>2, Zenon DEF Insert
  <2> HIDE DEF b1
  <2>4. [b1 EXCEPT !.nb = b1.nb + 1] \in Bulks
    BY <2>1, <2>2 DEF Bulks
  <2> QED BY <1>1, <2>3, <2>4
<1>3. CASE ~Fits(n)
  BY <1>1, <1>3 DEF BulkType, Insert
<1> QED BY <1>2, <1>3

\* The end of an exchange: the next one of the call, the end of the call, or the
\* opening that follows a closing.
LEMMA ConcludeType ==
  ASSUME TypeInv, pc \in Waiting, NEW ok \in BOOLEAN, NEW clean \in BOOLEAN,
         Conclude(ok, clean)
  PROVE  /\ CallType' /\ pc' \in {"idle", "ask", "tty", "crashed"}
         /\ mode' = mode /\ bulk' \in Bulks /\ reqnb' \in 0 .. REQ_MOD-1
         /\ residue' \in {"none", "requests", "any"}
         /\ target' \in {"none", "live", "freed"} /\ blocking' \in BOOLEAN
         /\ UNCHANGED <<sendVars, port>>
<1>1. UNCHANGED <<mode, sendVars, port>>
  BY DEF Conclude
<1>2. CASE Len(todo) > 1 /\ (ok \/ Head(todo) = Gpio)
  <2>1. /\ pc' = "ask" /\ todo' = Tail(todo) /\ failed' = (failed \/ ~ok)
        /\ UNCHANGED <<op, target, blocking, bulk, reqnb, residue>>
    BY <1>2 DEF Conclude
  <2>2. Tail(todo) \in Seq(Request) /\ Tail(todo) # << >>
    <3>1. todo \in Seq(Request) /\ todo # << >> /\ Len(todo) > 1
      BY <1>2 DEF TypeInv, CallType, Waiting
    <3>2. Tail(todo) \in Seq(Request) /\ Len(Tail(todo)) = Len(todo) - 1
      BY <3>1, HeadTailProperties
    <3>3. Len(Tail(todo)) # 0 /\ Len(<< >>) = 0
      <4>1. Len(todo) \in Nat
        BY <3>1, LenProperties
      <4> QED BY <3>1, <3>2, <4>1, EmptySeq
    <3> QED BY <3>2, <3>3
  <2> QED BY <1>1, <2>1, <2>2 DEF TypeInv, CallType, BulkType, PortType, Waiting
<1>3. CASE ~(Len(todo) > 1 /\ (ok \/ Head(todo) = Gpio))
  <2>1. Return(ok, clean)
    BY <1>3 DEF Conclude
  <2>2. bulk' \in Bulks
    <3>1. EmptyBulk \in Bulks
      BY SizeFacts DEF EmptyBulk, Bulks
    <3>2. [bulk EXCEPT !.clean = clean] \in Bulks
      BY DEF TypeInv, BulkType, Bulks
    <3> QED BY <2>1, <3>1, <3>2 DEF Return
  <2>3. reqnb' \in 0 .. REQ_MOD-1 /\ residue' \in {"none", "requests", "any"}
    <3>1. 0 \in 0 .. REQ_MOD-1
      BY SizeFacts
    <3> QED BY <2>1, <3>1 DEF Return, TypeInv, BulkType
  <2>4. target' \in {"none", "live", "freed"}
    BY <2>1 DEF Return, TypeInv, PortType
  <2>5. CASE op = "reopen" /\ target # "freed"
    <3>1. StartTty
      BY <2>1, <2>5 DEF Return
    <3>2. /\ op' = "open" /\ todo' = <<Ping, Status>> \o ResetGpio /\ failed' = FALSE
          /\ pc' \in {"crashed", "tty"} /\ blocking' \in BOOLEAN
      BY <3>1 DEF StartTty, TypeInv, PortType
    <3>3. CallType'
      BY <3>2, RequestFacts DEF CallType, Ops
    <3> QED BY <1>1, <2>2, <2>3, <2>4, <3>2, <3>3
  <2>6. CASE ~(op = "reopen" /\ target # "freed")
    <3>1. /\ op' = "none" /\ todo' = << >> /\ failed' = FALSE
          /\ pc' \in {"crashed", "idle"} /\ blocking' \in BOOLEAN
      BY <2>1, <2>6 DEF Return, TypeInv, PortType
    <3>2. CallType'
      BY <3>1, EmptySeq DEF CallType, Ops, Waiting
    <3> QED BY <1>1, <2>2, <2>3, <2>4, <3>1, <3>2
  <2> QED BY <2>5, <2>6
<1> QED BY <1>2, <1>3

\* The parts of the state that a step leaves alone keep their type.
LEMMA TypeKept ==
  ASSUME TypeInv
  PROVE  /\ UNCHANGED <<pc, op, todo, failed>> => CallType'
         /\ UNCHANGED sendVars /\ (pc' = "store" => pc = "store") => SendType'
         /\ /\ UNCHANGED ackVars
            /\ pc' \in {"header", "payload"} => pc' = pc
            => AckType'
         /\ UNCHANGED <<bulkVars, residue>> => BulkType'
         /\ UNCHANGED <<target, portVars, torn>> => PortType'
         /\ UNCHANGED mcuVars => McuType'
BY DEF TypeInv, CallType, SendType, AckType, BulkType, PortType, McuType, sendVars, ackVars,
       bulkVars, portVars, mcuVars

\* Where a process starts.
LEMMA FreshFacts ==
  /\ << >> \in Seq(Request) /\ 0 \in 0 .. Len(<< >>)
  /\ [size |-> 0, nb |-> 0, clean |-> TRUE] \in Bulks /\ 0 \in 0 .. REQ_MOD-1
<1>1. [size |-> 0, nb |-> 0, clean |-> TRUE] \in Bulks /\ 0 \in 0 .. REQ_MOD-1
  BY SizeFacts DEF Bulks
<1>2. << >> \in Seq(Request) /\ 0 \in 0 .. Len(<< >>)
  BY EmptySeq
<1> QED BY <1>1, <1>2

LEMMA InitTypeInv == Init => TypeInv
<1> SUFFICES ASSUME Init PROVE TypeInv
  OBVIOUS
<1>1. CallType /\ SendType
  BY FreshFacts, Zenon DEF Init, CallType, SendType, Ops, Waiting
<1>2. AckType
  BY RequestFacts, SizeFacts DEF Init, AckType
<1>3. BulkType
  BY FreshFacts DEF Init, BulkType
<1>4. PortType
  BY EmptyBuffer DEF Init, PortType
<1>5. McuType
  BY RequestFacts, AckFacts, EmptySeq DEF Init, McuType
<1> QED BY <1>1, <1>2, <1>3, <1>4, <1>5 DEF TypeInv

\* A call that begins, or that ends without an exchange.
LEMMA BeginTypeInv ==
  ASSUME TypeInv,
         \/ BeginRead \/ BeginTemperature \/ BeginWrite \/ BeginClose \/ BeginReopen
         \/ StoreOnly \/ BeginSend \/ BeginOpen \/ Flush
  PROVE  TypeInv'
<1>1. ASSUME NEW o \in Ops, NEW e \in Seq(Request), e # << >>, Call(o, e), UNCHANGED bulkVars
      PROVE  TypeInv'
  <2>1. CallType'
    BY <1>1 DEF Call, CallType, Waiting
  <2> QED BY <1>1, <2>1, TypeKept DEF Call, TypeInv
<1>2. <<Multi(1)>> \in Seq(Request) /\ <<Multi(1)>> # << >>
  <2>1. Multi(1) \in Request
    BY RequestFacts, SizeFacts
  <2> QED BY <2>1, SingleSeq
<1>3. <<Status>> \in Seq(Request) /\ <<Status>> # << >>
  BY RequestFacts, SingleSeq
<1>4. CASE BeginRead
  BY <1>1, <1>2, <1>4 DEF BeginRead, Ops
<1>5. CASE BeginTemperature
  BY <1>1, <1>3, <1>5 DEF BeginTemperature, Ops
<1>6. CASE BeginWrite
  BY <1>1, <1>2, <1>6 DEF BeginWrite, Ops
<1>7. CASE BeginClose
  BY <1>1, <1>7, RequestFacts DEF BeginClose, Ops
<1>8. CASE BeginReopen
  BY <1>1, <1>8, RequestFacts DEF BeginReopen, Ops
<1>9. CASE StoreOnly
  <2>1. /\ Insert(1)
        /\ UNCHANGED <<pc, callVars, ackVars, target, portVars, mcuVars, torn, residue>>
    BY <1>9 DEF StoreOnly
  <2>2. BulkType'
    BY <2>1, InsertFacts DEF TypeInv, BulkType
  <2> QED BY <2>1, <2>2, TypeKept DEF TypeInv, callVars
<1>10. CASE BeginSend
  <2>1. /\ pc' = "store" /\ op' = "send" /\ todo' = << >> /\ failed' = FALSE
        /\ writes' \in SENDS /\ stored' = 0 /\ mode' = "BULK"
        /\ UNCHANGED <<bulk, reqnb, ackVars, target, portVars, mcuVars, torn, residue>>
    BY <1>10 DEF BeginSend
  <2>2. CallType'
    BY <2>1, EmptySeq DEF CallType, Ops, Waiting
  <2>3. SendType'
    <3>1. Len(writes') \in Nat /\ Len(writes') > 0
      BY <2>1, LinkAssumption
    <3> QED BY <2>1, <3>1 DEF SendType
  <2>4. BulkType'
    BY <2>1 DEF TypeInv, BulkType
  <2> QED BY <2>1, <2>2, <2>3, <2>4, TypeKept DEF TypeInv
<1>11. CASE BeginOpen
  <2>1. /\ op' = "open" /\ todo' = <<Ping, Status>> \o ResetGpio /\ failed' = FALSE
        /\ pc' \in {"crashed", "tty"} /\ blocking' \in {FALSE, blocking}
        /\ UNCHANGED <<sendVars, ackVars, bulkVars, target, port, buf, mcuVars, torn, residue>>
    BY <1>11 DEF BeginOpen, StartTty
  <2>2. CallType'
    BY <2>1, RequestFacts DEF CallType, Ops
  <2>3. PortType'
    BY <2>1 DEF TypeInv, PortType
  <2> QED BY <2>1, <2>2, <2>3, TypeKept DEF TypeInv
<1>12. CASE Flush
  <2>1. /\ pc = "flush" /\ mode' = "SINGLE" /\ writes' = << >> /\ stored' = 0
        /\ UNCHANGED <<failed, bulk, reqnb, ackVars, target, portVars, mcuVars, torn, residue>>
        /\ \/ pc' = "idle" /\ op' = "none" /\ todo' = todo
           \/ pc' = "ask" /\ todo' = <<Multi(bulk.size)>> /\ op' = op
    BY <1>12 DEF Flush
  <2>2. <<Multi(bulk.size)>> \in Seq(Request) /\ <<Multi(bulk.size)>> # << >>
    <3>1. Multi(bulk.size) \in Request
      BY RequestFacts, SizeFacts DEF TypeInv, BulkType, Bulks
    <3> QED BY <3>1, SingleSeq
  <2>3. CallType'
    BY <2>1, <2>2 DEF TypeInv, CallType, Ops, Waiting
  <2>4. SendType'
    BY <2>1, EmptySeq DEF SendType
  <2>5. BulkType'
    BY <2>1 DEF TypeInv, BulkType
  <2> QED BY <2>1, <2>3, <2>4, <2>5, TypeKept DEF TypeInv
<1> QED BY <1>4, <1>5, <1>6, <1>7, <1>8, <1>9, <1>10, <1>11, <1>12

LEMMA StoreTypeInv == ASSUME TypeInv, Store PROVE TypeInv'
<1> DEFINE size == IF stored = 0 THEN writes[1] ELSE writes[stored+1] - writes[stored]
<1>1. /\ pc = "store"
      /\ IF size > 0
         THEN Insert(size) /\ UNCHANGED residue
         ELSE /\ residue' = IF residue = "none" THEN "requests" ELSE residue
              /\ UNCHANGED bulkVars
      /\ \/ /\ pc' = IF stored + 1 = Len(writes) THEN "flush" ELSE "store"
            /\ stored' = stored + 1 /\ UNCHANGED <<op, writes>>
         \/ pc' = "idle" /\ op' = "none" /\ writes' = << >> /\ stored' = 0
      /\ UNCHANGED <<todo, failed, ackVars, target, portVars, mcuVars, torn>>
  BY DEF Store
<1>2. /\ writes \in SENDS /\ stored \in 0 .. Len(writes) /\ stored < Len(writes)
  BY <1>1 DEF TypeInv, SendType
<1>3. writes \in Seq(0 .. BULK_SIZE) /\ Len(writes) \in Nat
  BY <1>2, LinkAssumption
<1>4. stored \in Nat /\ stored + 1 \in 1 .. Len(writes) /\ BULK_SIZE \in Nat
  BY <1>2, <1>3, SizeFacts
<1>5. \A i \in 1 .. Len(writes) : writes[i] \in 0 .. BULK_SIZE
  BY <1>3, ElementOfSeq
<1>6. size \in Int
  BY <1>4, <1>5
<1>7. BulkType'
  <2> HIDE DEF size
  <2>1. CASE size > 0
    BY <1>1, <1>6, <2>1, InsertFacts DEF TypeInv, BulkType
  <2>2. CASE ~(size > 0)
    BY <1>1, <2>2 DEF TypeInv, BulkType, bulkVars
  <2> QED BY <2>1, <2>2
<1>8. CallType'
  BY <1>1 DEF TypeInv, CallType, Ops, Waiting
<1>9. SendType'
  BY <1>1, <1>2, <1>3, <1>4, EmptySeq DEF SendType
<1>10. AckType' /\ PortType' /\ McuType'
  BY <1>1, TypeKept
<1> QED BY <1>7, <1>8, <1>9, <1>10 DEF TypeInv

LEMMA ReadTypeInv ==
  ASSUME TypeInv, DrainTty \/ Ask \/ AskFails \/ ReadHeader \/ ReadPayload
  PROVE  TypeInv'
<1> USE DEF callVars
<1>0. buf \in Buffers /\ wire \in Seq(Unit)
  BY DEF TypeInv, PortType, McuType
<1>1. CASE DrainTty
  <2>1. PICK r \in Reads(1) : buf' = r.buf /\ wire' = r.wire
    BY <1>1 DEF DrainTty
  <2>2. /\ pc = "tty" /\ pc' \in {"tty", "ask", "crashed"}
        /\ UNCHANGED <<callVars, ackVars, bulkVars, port, cmds, residue>>
        /\ \/ UNCHANGED <<blocking, target, torn>>
           \/ blocking' = TRUE /\ target' = "live" /\ torn' = (port # "up")
    BY <1>1 DEF DrainTty
  <2>3. buf' \in Buffers /\ wire' \in Seq(Unit)
    BY <1>0, <2>1, ReadsFacts
  <2>4. CallType'
    BY <2>2 DEF TypeInv, CallType, Waiting
  <2>5. torn' \in BOOLEAN /\ (~torn' => port = "up")
    <3>1. CASE torn' = torn
      BY <3>1 DEF TypeInv, PortType
    <3>2. CASE torn' = (port # "up")
      BY <3>2, Zenon
    <3> QED BY <2>2, <3>1, <3>2
  <2>6. PortType' /\ McuType'
    BY <2>2, <2>3, <2>5 DEF TypeInv, PortType, McuType
  <2> QED BY <2>2, <2>4, <2>6, TypeKept DEF TypeInv
<1>2. CASE Ask
  <2>1. /\ pc = "ask" /\ req' = Head(todo) /\ cmds' = Append(cmds, req') /\ pc' = "header"
        /\ UNCHANGED <<callVars, nread, hdr, bulkVars, target, portVars, wire, torn, residue>>
    BY <1>2 DEF Ask
  <2>2. todo \in Seq(Request) /\ todo # << >>
    BY <2>1 DEF TypeInv, CallType, Waiting
  <2>3. req' \in Request /\ req' \in Kind
    BY <2>1, <2>2, HeadTailProperties, RequestFacts
  <2>4. CallType'
    BY <2>1, <2>2 DEF TypeInv, CallType
  <2>5. AckType'
    BY <2>1, <2>3 DEF TypeInv, AckType
  <2>6. McuType'
    BY <2>1, <2>3, AppendProperties DEF TypeInv, McuType
  <2> QED BY <2>1, <2>4, <2>5, <2>6, TypeKept DEF TypeInv
<1>3. CASE AskFails
  <2>1. /\ pc = "ask" /\ Conclude(FALSE, bulk.clean)
        /\ UNCHANGED <<ackVars, buf, mcuVars, torn>>
    BY <1>3 DEF AskFails
  <2>2. pc \in Waiting /\ bulk.clean \in BOOLEAN
    BY <2>1 DEF Waiting, TypeInv, BulkType, Bulks
  <2>3. /\ CallType' /\ pc' \in {"idle", "ask", "tty", "crashed"}
        /\ mode' = mode /\ bulk' \in Bulks /\ reqnb' \in 0 .. REQ_MOD-1
        /\ residue' \in {"none", "requests", "any"}
        /\ target' \in {"none", "live", "freed"} /\ blocking' \in BOOLEAN
        /\ UNCHANGED <<sendVars, port>>
    BY <2>1, <2>2, ConcludeType
  <2>4. BulkType' /\ PortType'
    BY <2>1, <2>3 DEF TypeInv, BulkType, PortType
  <2> QED BY <2>1, <2>3, <2>4, TypeKept DEF TypeInv
<1>4. CASE ReadHeader
  <2>1. PICK r \in Reads(2) :
          /\ buf' = r.buf /\ wire' = r.wire
          /\ torn' = (torn \/ ~IsHeader(r.got))
          /\ hdr' \in HeaderAfter(r.got)
    BY <1>4 DEF ReadHeader
  <2>2. /\ pc = "header" /\ nread' = 0 /\ cmds' = cmds
        /\ \/ /\ hdr'.size > 0 /\ pc' = "payload"
              /\ UNCHANGED <<callVars, req, bulkVars, target, port, blocking, residue>>
           \/ \E ok \in BOOLEAN : req' = NoReq /\ Conclude(ok, bulk.clean)
    BY <1>4 DEF ReadHeader
  <2>3. r.got \in Seq(Unit) /\ buf' \in Buffers /\ wire' \in Seq(Unit)
    BY <1>0, <2>1, ReadsFacts
  <2>4. hdr' \in Kind
    BY <2>1, <2>3, HeaderFacts DEF TypeInv, AckType
  <2>5. torn' \in BOOLEAN /\ (~torn' => ~torn) /\ McuType'
    BY <2>1, <2>2, <2>3 DEF TypeInv, PortType, McuType
  <2>6. CASE /\ hdr'.size > 0 /\ pc' = "payload"
             /\ UNCHANGED <<callVars, req, bulkVars, target, port, blocking, residue>>
    <3>1. CallType'
      BY <2>2, <2>6 DEF TypeInv, CallType, Waiting
    <3>2. AckType'
      BY <2>2, <2>4, <2>6, SizeFacts DEF TypeInv, AckType
    <3>3. PortType'
      BY <2>3, <2>5, <2>6 DEF TypeInv, PortType
    <3> QED BY <2>5, <2>6, <3>1, <3>2, <3>3, TypeKept DEF TypeInv
  <2>7. CASE \E ok \in BOOLEAN : req' = NoReq /\ Conclude(ok, bulk.clean)
    <3>1. pc \in Waiting /\ bulk.clean \in BOOLEAN
      BY <2>2 DEF Waiting, TypeInv, BulkType, Bulks
    <3>2. /\ CallType' /\ pc' \in {"idle", "ask", "tty", "crashed"}
          /\ mode' = mode /\ bulk' \in Bulks /\ reqnb' \in 0 .. REQ_MOD-1
         /\ residue' \in {"none", "requests", "any"}
          /\ target' \in {"none", "live", "freed"} /\ blocking' \in BOOLEAN
          /\ UNCHANGED <<sendVars, port>>
      BY <2>7, <3>1, ConcludeType
    <3>3. BulkType' /\ PortType'
      BY <2>3, <2>5, <3>2 DEF TypeInv, BulkType, PortType
    <3>4. AckType'
      BY <2>2, <2>4, <2>7, <3>2, RequestFacts, SizeFacts DEF AckType
    <3> QED BY <2>5, <3>2, <3>3, <3>4, TypeKept DEF TypeInv
  <2> QED BY <2>2, <2>6, <2>7
<1>5. CASE ReadPayload
  <2>0. /\ pc = "payload" /\ UNCHANGED <<hdr, cmds, torn>>
        /\ hdr.size - nread \in Nat /\ hdr.size \in Sizes /\ nread \in Sizes
    BY <1>5, SizeFacts DEF ReadPayload, TypeInv, AckType, Kind
  <2>1. PICK r \in Reads(hdr.size - nread) :
          /\ buf' = r.buf /\ wire' = r.wire
          /\ \/ /\ nread + Len(r.got) < hdr.size /\ nread' = nread + Len(r.got)
                /\ bulk' = [bulk EXCEPT !.clean = bulk.clean /\ ~Overwritten(r.got)]
                /\ UNCHANGED <<pc, callVars, req, mode, reqnb, target, port, blocking, residue>>
             \/ /\ nread' = 0 /\ req' = NoReq
                /\ \E ok \in BOOLEAN : Conclude(ok, bulk.clean /\ ~Overwritten(r.got))
    BY <1>5 DEF ReadPayload
  <2>2. /\ Len(r.got) \in 0 .. hdr.size - nread
        /\ buf' \in Buffers /\ wire' \in Seq(Unit)
    BY <1>0, <2>0, <2>1, ReadsFacts
  <2> DEFINE clean == bulk.clean /\ ~Overwritten(r.got)
  <2>3. pc \in Waiting /\ clean \in BOOLEAN
    BY <2>0 DEF Waiting
  <2>4. McuType'
    BY <2>0, <2>2 DEF TypeInv, McuType
  <2>5. CASE /\ nread + Len(r.got) < hdr.size /\ nread' = nread + Len(r.got)
             /\ bulk' = [bulk EXCEPT !.clean = clean]
             /\ UNCHANGED <<pc, callVars, req, mode, reqnb, target, port, blocking, residue>>
    <3>1. BulkType'
      <4> HIDE DEF clean
      <4>1. [bulk EXCEPT !.clean = clean] \in Bulks
        BY <2>3 DEF TypeInv, BulkType, Bulks
      <4> QED BY <2>5, <4>1 DEF TypeInv, BulkType
    <3>2. nread' \in Sizes
      BY <2>0, <2>2, <2>5, SizeFacts DEF Sizes
    <3>3. AckType'
      BY <2>0, <2>5, <3>2 DEF TypeInv, AckType
    <3>4. PortType'
      BY <2>0, <2>2, <2>5 DEF TypeInv, PortType
    <3> QED BY <2>4, <2>5, <3>1, <3>3, <3>4, TypeKept DEF TypeInv
  <2>6. CASE /\ nread' = 0 /\ req' = NoReq
             /\ \E ok \in BOOLEAN : Conclude(ok, clean)
    <3>1. /\ CallType' /\ pc' \in {"idle", "ask", "tty", "crashed"}
          /\ mode' = mode /\ bulk' \in Bulks /\ reqnb' \in 0 .. REQ_MOD-1
         /\ residue' \in {"none", "requests", "any"}
          /\ target' \in {"none", "live", "freed"} /\ blocking' \in BOOLEAN
          /\ UNCHANGED <<sendVars, port>>
      <4> HIDE DEF clean
      <4> QED BY <2>3, <2>6, ConcludeType
    <3>2. BulkType' /\ PortType'
      BY <2>0, <2>2, <3>1 DEF TypeInv, BulkType, PortType
    <3>3. AckType'
      BY <2>0, <2>6, <3>1, RequestFacts, SizeFacts DEF TypeInv, AckType
    <3> QED BY <2>4, <3>1, <3>2, <3>3, TypeKept DEF TypeInv
  <2> QED BY <2>1, <2>5, <2>6
<1> QED BY <1>1, <1>2, <1>3, <1>4, <1>5

\* The MCU, the port and the process.
LEMMA OutsideTypeInv ==
  ASSUME TypeInv, McuExecute \/ Unplug \/ DropSocket \/ Plug \/ Restart
  PROVE  TypeInv'
<1> USE DEF callVars, portVars, mcuVars
<1>1. CASE McuExecute
  <2>1. /\ cmds # << >> /\ wire' = wire \o AckOf(Head(cmds)) /\ cmds' = Tail(cmds)
        /\ UNCHANGED <<pc, callVars, ackVars, bulkVars, target, portVars, torn, residue>>
    BY <1>1 DEF McuExecute
  <2>2. Head(cmds) \in Kind /\ Tail(cmds) \in Seq(Kind)
    BY <2>1, HeadTailProperties DEF TypeInv, McuType
  <2>3. McuType'
    BY <2>1, <2>2, AckFacts, ConcatProperties DEF TypeInv, McuType
  <2> QED BY <2>1, <2>3, TypeKept DEF TypeInv
<1>2. CASE Unplug
  <2>1. PortType' /\ McuType'
    BY <1>2, EmptySeq DEF Unplug, TypeInv, PortType, McuType
  <2> QED BY <1>2, <2>1, TypeKept DEF Unplug, TypeInv
<1>3. CASE DropSocket
  <2>1. PortType'
    BY <1>3, EmptyBuffer DEF DropSocket, TypeInv, PortType
  <2> QED BY <1>3, <2>1, TypeKept DEF DropSocket, TypeInv
<1>4. CASE Plug
  <2>1. PortType'
    BY <1>4 DEF Plug, TypeInv, PortType
  <2> QED BY <1>4, <2>1, TypeKept DEF Plug, TypeInv
<1>5. CASE Restart
  <2>1. CallType' /\ SendType'
    BY <1>5, FreshFacts, Zenon DEF Restart, CallType, SendType, Ops, Waiting
  <2>2. AckType'
    BY <1>5, RequestFacts, SizeFacts DEF Restart, AckType
  <2>3. BulkType'
    BY <1>5, FreshFacts DEF Restart, BulkType
  <2>4. PortType'
    BY <1>5, EmptyBuffer DEF Restart, TypeInv, PortType
  <2>5. McuType'
    BY <1>5, TypeKept DEF Restart
  <2> QED BY <2>1, <2>2, <2>3, <2>4, <2>5 DEF TypeInv
<1> QED BY <1>1, <1>2, <1>3, <1>4, <1>5

LEMMA NextTypeInv == TypeInv /\ [Next]_vars => TypeInv'
<1> SUFFICES ASSUME TypeInv, [Next]_vars PROVE TypeInv'
  OBVIOUS
<1>1. CASE Next
  BY <1>1, BeginTypeInv, StoreTypeInv, ReadTypeInv, OutsideTypeInv DEF Next
<1>2. CASE UNCHANGED vars
  BY <1>2, TypeKept DEF vars, TypeInv, callVars
<1> QED BY <1>1, <1>2

\* Whatever the port and the MCU do, the state of the link keeps its type: the
\* count of pending requests and the size of the bulk buffer stay within it.
THEOREM TypeCorrect == Spec => []TypeOK
<1>1. TypeInv => TypeOK
  <2> SUFFICES ASSUME TypeInv PROVE TypeOK
    OBVIOUS
  <2>1. todo \in Seq(Kind)
    BY RequestFacts, SeqMonotonic DEF TypeInv, CallType
  <2>2. buf.data \in Seq(Unit) /\ buf.pos \in Nat
    BY DEF TypeInv, PortType, Buffers
  <2> QED BY <2>1, <2>2 DEF TypeInv, CallType, SendType, AckType, BulkType, PortType, McuType,
                            Ops, Bulks, TypeOK
<1> QED BY <1>1, InitTypeInv, NextTypeInv, PTL DEF Spec

-----------------------------------------------------------------------------
\* A front taken off what is left of a sequence from position m on.
LEMMA FrontTaken ==
  ASSUME NEW s \in Seq(Unit), NEW m \in 0 .. Len(s), NEW g \in Seq(Unit), NEW u \in Seq(Unit),
         g \o u = SubSeq(s, m + 1, Len(s))
  PROVE  /\ \A i \in 1 .. Len(g) : g[i] = s[m + i]
         /\ u = SubSeq(s, m + Len(g) + 1, Len(s))
<1>1. Len(s) \in Nat /\ Len(g) \in Nat /\ Len(u) \in Nat /\ m \in Nat
  BY LenProperties
<1>2. \A i \in 1 .. Len(s) : s[i] \in Unit
  BY ElementOfSeq
<1> DEFINE v == SubSeq(s, m + 1, Len(s))
           w == SubSeq(s, m + Len(g) + 1, Len(s))
<1>3. Len(v) = Len(s) - m /\ \A i \in 1 .. Len(s) - m : v[i] = s[m + i]
  <2>1. m + 1 \in Int /\ Len(s) \in Int /\ \A i \in m + 1 .. Len(s) : s[i] \in Unit
    BY <1>1, <1>2
  <2>2. /\ Len(v) = IF m + 1 <= Len(s) THEN Len(s) - (m + 1) + 1 ELSE 0
        /\ \A i \in 1 .. Len(s) - (m + 1) + 1 : v[i] = s[m + 1 + i - 1]
    BY <2>1, SubSeqProperties
  <2> HIDE DEF v
  <2>3. Len(v) = Len(s) - m
    BY <1>1, <2>2
  <2>4. \A i \in 1 .. Len(s) - m : m + 1 + i - 1 = m + i /\ i \in 1 .. Len(s) - (m + 1) + 1
    BY <1>1
  <2> QED BY <2>2, <2>3, <2>4
<1>4. /\ Len(g \o u) = Len(g) + Len(u)
      /\ \A i \in 1 .. Len(g) + Len(u) : (g \o u)[i] = IF i <= Len(g) THEN g[i] ELSE u[i - Len(g)]
  BY ConcatProperties
<1>5. g \o u = v
  OBVIOUS
<1> HIDE DEF v
<1>6. Len(g) + Len(u) = Len(s) - m
  BY <1>3, <1>4, <1>5, Zenon
<1>7. \A i \in 1 .. Len(g) : g[i] = s[m + i]
  <2> TAKE i \in 1 .. Len(g)
  <2>1. i \in 1 .. Len(g) + Len(u) /\ i \in 1 .. Len(s) - m /\ i <= Len(g)
    BY <1>1, <1>6
  <2> QED BY <1>3, <1>4, <1>5, <2>1, Zenon
<1>8. \A i \in 1 .. Len(u) : u[i] = s[m + Len(g) + i]
  <2> TAKE i \in 1 .. Len(u)
  <2> DEFINE j == Len(g) + i
  <2>1. /\ j \in 1 .. Len(g) + Len(u) /\ j \in 1 .. Len(s) - m /\ ~(j <= Len(g))
        /\ j - Len(g) = i /\ m + j = m + Len(g) + i
    BY <1>1, <1>6
  <2> HIDE DEF j
  <2>2. (g \o u)[j] = u[j - Len(g)] /\ v[j] = s[m + j]
    BY <1>3, <1>4, <2>1, Zenon
  <2>3. u[j - Len(g)] = s[m + j]
    BY <1>5, <2>2, Zenon
  <2> QED BY <2>1, <2>3, Zenon
<1>9. w \in Seq(Unit) /\ Len(w) = Len(u) /\ \A i \in 1 .. Len(u) : w[i] = s[m + Len(g) + i]
  <2> DEFINE from == m + Len(g) + 1
  <2>1. from \in Int /\ Len(s) \in Int /\ \A i \in from .. Len(s) : s[i] \in Unit
    BY <1>1, <1>2
  <2>2. /\ w \in Seq(Unit)
        /\ Len(w) = IF from <= Len(s) THEN Len(s) - from + 1 ELSE 0
        /\ \A i \in 1 .. Len(s) - from + 1 : w[i] = s[from + i - 1]
    BY <2>1, SubSeqProperties
  <2> HIDE DEF w
  <2>3. Len(w) = Len(u)
    BY <1>1, <1>6, <2>2
  <2>4. \A i \in 1 .. Len(u) : from + i - 1 = m + Len(g) + i /\ i \in 1 .. Len(s) - from + 1
    BY <1>1, <1>6
  <2> HIDE DEF from
  <2> QED BY <2>2, <2>3, <2>4
<1>10. u = w
  <2> HIDE DEF w
  <2>1. \A i \in 1 .. Len(u) : u[i] = w[i]
    BY <1>8, <1>9, Zenon
  <2> QED BY <1>9, <2>1, SeqEqual
<1> QED BY <1>7, <1>10

\* What is unread in terms of the read buffer and the wire.
LEMMA UnreadFacts ==
  ASSUME TypeInv
  PROVE  /\ buf \in Buffers /\ wire \in Seq(Unit) /\ Left(buf) \in Seq(Unit)
         /\ Unread = Left(buf) \o wire /\ Unread \in Seq(Unit)
         /\ Unread = << >> => Left(buf) = << >> /\ wire = << >>
<1>1. buf \in Buffers /\ wire \in Seq(Unit)
  BY DEF TypeInv, PortType, McuType
<1>2. Left(buf) \in Seq(Unit)
  BY <1>1, LeftFacts
<1>3. Unread = Left(buf) \o wire
  BY DEF Unread, Left
<1> HIDE DEF TypeInv
<1>4. Left(buf) \o wire \in Seq(Unit)
  BY <1>1, <1>2, ConcatProperties
<1>5. Left(buf) \o wire = << >> => Left(buf) = << >> /\ wire = << >>
  BY <1>1, <1>2, ConcatEqualIffEmpty
<1> QED BY <1>1, <1>2, <1>3, <1>4, <1>5, Zenon

\* A read while the stream is whole takes the front of what is unread.
LEMMA ReadWhole ==
  ASSUME TypeInv, port = "up", NEW n \in Nat, NEW r \in Reads(n), buf' = r.buf, wire' = r.wire
  PROVE  /\ r.got \in Seq(Unit) /\ Len(r.got) \in 0 .. n
         /\ Unread' \in Seq(Unit) /\ r.got \o Unread' = Unread
         /\ r.got = << >> /\ n > 0 => Unread = << >> /\ Unread' = << >> /\ cmds = << >>
<1>1. /\ r.got \in Seq(Unit) /\ Len(r.got) \in 0 .. n
      /\ r.buf \in Buffers /\ r.wire \in Seq(Unit)
      /\ r.got \o (Left(r.buf) \o r.wire) = Unread
      /\ r.got = << >> /\ n > 0 => Unread = << >> /\ cmds = << >>
  BY UnreadFacts, ReadsFacts
<1>2. Unread' = Left(r.buf) \o r.wire
  BY DEF Unread, Left
<1>3. Left(r.buf) \in Seq(Unit)
  BY <1>1, LeftFacts
<1>4. Left(r.buf) \o r.wire \in Seq(Unit)
  BY <1>1, <1>3, ConcatProperties
<1>5. Unread = << >> => Unread' = << >>
  BY <1>1, <1>2, <1>4, ConcatEqualIffEmpty
<1> QED BY <1>1, <1>2, <1>4, <1>5, Zenon

\* A step of the exchange, in the words of the promise, or a stutter.
Kept == InSync' /\ [Promise!Next]_Stage

LEMMA Broken == ASSUME torn' PROVE Kept
BY DEF Kept, InSync, Stage, Promise!Next, Promise!Break

\* A step outside the exchanges, or to the next request or the end of a call.
LEMMA Quiet ==
  ASSUME InSync, torn' = torn, UNCHANGED <<buf, mcuVars>>,
         pc \notin {"header", "payload"}, pc' \notin {"header", "payload"}
  PROVE  Kept
<1>1. UNCHANGED <<cmds, Unread, Stage>>
  BY DEF mcuVars, Unread, Stage
<1> QED BY <1>1 DEF Kept, InSync

\* The call returns, with nothing left of the answer.
LEMMA Returns ==
  ASSUME ~torn, pc \in {"header", "payload"}, cmds = << >>,
         ~torn', pc' \notin {"header", "payload"}, cmds' = << >>, Unread' = << >>
  PROVE  Kept
<1>1. Stage = "done" /\ Stage' = "free"
  BY DEF Stage
<1> QED BY <1>1 DEF Kept, InSync, Promise!Next, Promise!Return

LEMMA DrainSync == ASSUME TypeInv, InSync, DrainTty PROVE Kept
<1>0. pc = "tty" /\ cmds' = cmds /\ pc' \in {"tty", "ask", "crashed"}
  BY DEF DrainTty
<1>1. PICK r \in Reads(1) :
        /\ buf' = r.buf /\ wire' = r.wire
        /\ \/ torn' = torn
           \/ r.got = << >> /\ torn' = (port # "up") /\ pc' = "ask"
  BY DEF DrainTty
<1>2. CASE torn'
  BY <1>2, Broken
<1>3. CASE ~torn'
  <2>1. port = "up"
    <3>1. CASE torn' = torn
      BY <1>3, <3>1 DEF TypeInv, PortType
    <3>2. CASE torn' = (port # "up")
      BY <1>3, <3>2, Zenon
    <3> QED BY <1>1, <3>1, <3>2
  <2>2. /\ r.got \in Seq(Unit) /\ Unread' \in Seq(Unit) /\ r.got \o Unread' = Unread
        /\ r.got = << >> => Unread' = << >> /\ cmds = << >>
    BY <1>1, <2>1, ReadWhole
  <2>3. CASE torn
    <3>1. r.got = << >> /\ pc' = "ask"
      BY <1>1, <1>3, <2>3
    <3>2. Stage = "broken" /\ Stage' = "free" /\ Unread' = << >> /\ cmds' = << >>
      BY <1>0, <1>3, <2>2, <2>3, <3>1 DEF Stage
    <3> QED BY <3>1, <3>2 DEF Kept, InSync, Promise!Next, Promise!Restore
  <2>4. CASE ~torn
    <3>1. cmds = << >> /\ Unread = << >>
      BY <1>0, <2>4 DEF InSync
    <3>2. Unread' = << >>
      BY <2>2, <3>1, ConcatEqualIffEmpty
    <3>3. Stage = "free" /\ Stage' = "free"
      BY <1>0, <1>3, <2>4 DEF Stage
    <3> QED BY <1>0, <3>1, <3>2, <3>3 DEF Kept, InSync
  <2> QED BY <2>3, <2>4
<1> QED BY <1>2, <1>3

LEMMA AskSync == ASSUME TypeInv, InSync, Ask PROVE Kept
<1>1. /\ pc = "ask" /\ cmds' = Append(cmds, req') /\ pc' = "header"
      /\ UNCHANGED <<buf, wire, torn>>
  BY DEF Ask, portVars
<1>2. Unread' = Unread
  BY <1>1 DEF Unread
<1>3. CASE torn
  BY <1>1, <1>3, Broken
<1>4. CASE ~torn
  <2>1. cmds = << >> /\ Unread = << >>
    BY <1>1, <1>4 DEF InSync
  <2>2. cmds' = <<req'>> /\ cmds' # << >>
    BY <1>1, <2>1
  <2>3. Stage = "free" /\ Stage' = "asked"
    BY <1>1, <1>4, <2>2 DEF Stage
  <2> QED BY <1>1, <1>2, <2>1, <2>2, <2>3 DEF Kept, InSync, Promise!Next, Promise!Ask
<1> QED BY <1>3, <1>4

LEMMA ReadHeaderSync == ASSUME TypeInv, InSync, ReadHeader PROVE Kept
<1>0. pc = "header" /\ nread' = 0 /\ cmds' = cmds
  BY DEF ReadHeader
<1>1. PICK r \in Reads(2) :
        /\ buf' = r.buf /\ wire' = r.wire
        /\ torn' = (torn \/ ~IsHeader(r.got))
        /\ hdr' \in HeaderAfter(r.got)
  BY DEF ReadHeader
<1>2. CASE torn'
  BY <1>2, Broken
<1>3. CASE ~torn'
  <2>1. ~torn /\ IsHeader(r.got)
    BY <1>1, <1>3
  <2>2. port = "up" /\ req \in Request /\ req \in Kind
    BY <1>0, <2>1, RequestFacts DEF TypeInv, PortType, AckType
  <2>3. /\ r.got \in Seq(Unit) /\ Unread' \in Seq(Unit) /\ r.got \o Unread' = Unread
        /\ r.got = << >> => Unread = << >> /\ cmds = << >>
    BY <1>1, <2>2, ReadWhole
  <2>4. Len(r.got) = 2 /\ r.got # << >>
    BY <2>1, EmptySeq DEF IsHeader
  <2>5. cmds = << >> /\ Unread = AckOf(req)
    <3>1. CASE Unread = << >>
      BY <2>3, <2>4, <3>1, ConcatEqualIffEmpty
    <3> QED BY <1>0, <2>1, <3>1 DEF InSync
  <2> DEFINE s == AckOf(req)
  <2>6. /\ s \in Seq(Unit) /\ Len(s) = req.size + 2
        /\ \A i \in 1 .. req.size + 2 : s[i] = [req |-> req, i |-> i]
        /\ req.size \in Nat
    BY <2>2, AckFacts, SizeFacts DEF Kind
  <2> HIDE DEF s
  <2>7. /\ \A i \in 1 .. Len(r.got) : r.got[i] = s[0 + i]
        /\ Unread' = SubSeq(s, 0 + Len(r.got) + 1, Len(s))
    <3>1. r.got \o Unread' = SubSeq(s, 0 + 1, Len(s)) /\ 0 \in 0 .. Len(s)
      BY <2>3, <2>5, <2>6, SubSeqFull DEF s
    <3> QED BY <2>3, <2>6, <3>1, FrontTaken
  <2>8. Unread' = SubSeq(s, 3, req.size + 2)
    BY <2>4, <2>6, <2>7
  <2>9. hdr' = req
    <3>1. r.got[1] = s[1] /\ r.got[2] = s[2]
      BY <2>4, <2>7
    <3>2. s[1] = [req |-> req, i |-> 1] /\ s[2] = [req |-> req, i |-> 2]
      BY <2>6
    <3>3. hdr' \in Kind /\ hdr'.type = r.got[2].req.type /\ hdr'.size = r.got[1].req.size
      BY <1>1, <2>1, <2>3, HeaderFacts DEF TypeInv, AckType
    <3>4. hdr'.type = req.type /\ hdr'.size = req.size
      BY <3>1, <3>2, <3>3
    <3> QED BY <2>2, <3>3, <3>4 DEF Kind
  <2>10. CASE pc' = "payload" /\ req' = req
    <3>1. Stage = "done" /\ Stage' = "done"
      BY <1>0, <1>3, <2>1, <2>5, <2>10 DEF Stage
    <3> QED BY <1>0, <2>5, <2>8, <2>9, <2>10, <3>1 DEF Kept, InSync, s
  <2>11. CASE /\ ~(hdr'.type # "none" /\ hdr'.size <= req.size /\ hdr'.size > 0)
              /\ \E ok \in BOOLEAN : Conclude(ok, bulk.clean)
    <3>1. req.size = 0
      BY <2>2, <2>6, <2>9, <2>11 DEF Request
    <3>2. Unread' = << >>
      BY <2>8, <3>1, SubSeqEmpty
    <3>3. pc \in Waiting /\ bulk.clean \in BOOLEAN
      BY <1>0 DEF Waiting, TypeInv, BulkType, Bulks
    <3>4. pc' \notin {"header", "payload"}
      BY <2>11, <3>3, ConcludeType
    <3> QED BY <1>0, <1>3, <2>1, <2>5, <3>2, <3>4, Returns
  <2> QED BY <2>10, <2>11 DEF ReadHeader
<1> QED BY <1>2, <1>3

LEMMA ReadPayloadSync == ASSUME TypeInv, InSync, ReadPayload PROVE Kept
<1>0. /\ pc = "payload" /\ UNCHANGED <<hdr, cmds, torn>>
      /\ hdr.size \in Nat /\ nread \in Nat /\ nread < hdr.size /\ hdr.size - nread \in Nat
  BY SizeFacts DEF ReadPayload, TypeInv, AckType, Kind
<1>1. CASE torn
  BY <1>0, <1>1, Broken
<1>2. CASE ~torn
  <2>1. PICK r \in Reads(hdr.size - nread) :
          /\ buf' = r.buf /\ wire' = r.wire
          /\ \/ /\ nread + Len(r.got) < hdr.size /\ nread' = nread + Len(r.got)
                /\ pc' = pc /\ req' = req
             \/ /\ ~(nread + Len(r.got) < hdr.size)
                /\ \E ok \in BOOLEAN : Conclude(ok, bulk.clean /\ ~Overwritten(r.got))
    BY DEF ReadPayload
  <2>2. port = "up" /\ req \in Kind
    BY <1>2 DEF TypeInv, PortType, AckType
  <2>3. /\ r.got \in Seq(Unit) /\ Len(r.got) \in 0 .. hdr.size - nread
        /\ Unread' \in Seq(Unit) /\ r.got \o Unread' = Unread
    BY <1>0, <2>1, <2>2, ReadWhole
  <2>4. /\ cmds = << >> /\ hdr = req
        /\ Unread = SubSeq(AckOf(req), nread + 3, req.size + 2)
    BY <1>0, <1>2 DEF InSync
  <2> DEFINE s == AckOf(req)
             m == nread + 2
  <2>5. /\ s \in Seq(Unit) /\ Len(s) = req.size + 2
    BY <2>2, AckFacts
  <2>6. m \in 0 .. Len(s) /\ m + 1 = nread + 3
    BY <1>0, <2>4, <2>5
  <2> HIDE DEF s, m
  <2>7. Unread' = SubSeq(s, m + Len(r.got) + 1, Len(s))
    <3>1. r.got \o Unread' = SubSeq(s, m + 1, Len(s))
      BY <2>3, <2>4, <2>5, <2>6 DEF s
    <3> QED BY <2>3, <2>5, <2>6, <3>1, FrontTaken
  <2>8. Len(r.got) \in Nat /\ Len(r.got) <= hdr.size - nread
    BY <1>0, <2>3
  <2>9. Unread' = SubSeq(s, nread + Len(r.got) + 3, req.size + 2)
    <3>1. m + Len(r.got) + 1 = nread + Len(r.got) + 3
      <4> DEFINE k == Len(r.got)
      <4>1. k \in Nat /\ nread \in Nat
        BY <1>0, <2>8
      <4> HIDE DEF k
      <4>2. m + k + 1 = nread + k + 3
        BY <4>1 DEF m
      <4> QED BY <4>2 DEF k
    <3> QED BY <2>5, <2>7, <3>1
  <2>10. CASE /\ nread' = nread + Len(r.got) /\ pc' = pc /\ req' = req
    <3>1. Stage = "done" /\ Stage' = "done"
      BY <1>0, <1>2, <2>4, <2>10 DEF Stage
    <3> QED BY <1>0, <2>4, <2>9, <2>10, <3>1 DEF Kept, InSync, s
  <2>11. CASE /\ ~(nread + Len(r.got) < hdr.size)
              /\ \E ok \in BOOLEAN : Conclude(ok, bulk.clean /\ ~Overwritten(r.got))
    <3>1. nread + Len(r.got) = req.size
      <4> DEFINE k == Len(r.got)
      <4>1. /\ k \in Nat /\ nread \in Nat /\ hdr.size \in Nat /\ hdr.size = req.size
            /\ k <= hdr.size - nread /\ ~(nread + k < hdr.size)
        BY <1>0, <2>4, <2>8, <2>11
      <4> HIDE DEF k
      <4>2. nread + k = req.size
        BY <4>1
      <4> QED BY <4>2 DEF k
    <3>2. Unread' = << >>
      BY <1>0, <2>4, <2>9, <3>1, SubSeqEmpty
    <3>3. pc \in Waiting /\ (bulk.clean /\ ~Overwritten(r.got)) \in BOOLEAN
      BY <1>0 DEF Waiting
    <3>4. pc' \notin {"header", "payload"}
      BY <2>11, <3>3, ConcludeType
    <3> QED BY <1>0, <1>2, <2>4, <3>2, <3>4, Returns
  <2> QED BY <2>1, <2>10, <2>11
<1> QED BY <1>1, <1>2

LEMMA McuSync == ASSUME TypeInv, InSync, McuExecute PROVE Kept
<1>1. /\ cmds # << >> /\ wire' = wire \o AckOf(Head(cmds)) /\ cmds' = Tail(cmds)
      /\ UNCHANGED <<pc, req, nread, hdr, buf, torn>>
  BY DEF McuExecute, ackVars, portVars
<1>2. CASE torn
  BY <1>1, <1>2, Broken
<1>3. CASE ~torn
  <2>1. pc = "header" /\ cmds = <<req>> /\ Unread = << >>
    BY <1>1, <1>3 DEF InSync
  <2>2. Head(cmds) = req /\ Tail(cmds) = << >> /\ req \in Kind
    BY <2>1 DEF TypeInv, AckType
  <2>3. Left(buf) = << >> /\ wire = << >>
    BY <2>1, UnreadFacts
  <2>4. AckOf(req) \in Seq(Unit)
    BY <2>2, AckFacts
  <2>5. wire' = AckOf(req)
    BY <1>1, <2>2, <2>3, <2>4, ConcatEmptySeq
  <2>6. Unread' = Left(buf) \o wire'
    BY <1>1 DEF Unread, Left
  <2>7. Unread' = AckOf(req)
    BY <2>3, <2>4, <2>5, <2>6, ConcatEmptySeq
  <2>8. Stage = "asked" /\ Stage' = "done"
    BY <1>1, <1>3, <2>1, <2>2 DEF Stage
  <2> QED BY <1>1, <2>1, <2>2, <2>7, <2>8 DEF Kept, InSync, Promise!Next, Promise!Execute
<1> QED BY <1>2, <1>3

LEMMA StepKept == ASSUME TypeInv, InSync, [Next]_vars PROVE Kept
<1>1. CASE \/ BeginRead \/ BeginTemperature \/ BeginWrite \/ StoreOnly \/ BeginSend
           \/ BeginClose \/ BeginReopen \/ BeginOpen \/ Store \/ Flush
  <2>1. /\ torn' = torn /\ UNCHANGED <<buf, mcuVars>>
        /\ pc \notin {"header", "payload"} /\ pc' \notin {"header", "payload"}
    BY <1>1 DEF BeginRead, BeginTemperature, BeginWrite, StoreOnly, BeginSend, BeginClose,
                BeginReopen, BeginOpen, Store, Flush, Call, StartTty, portVars
  <2> QED BY <2>1, Quiet
<1>2. CASE AskFails
  <2>1. pc = "ask" /\ Conclude(FALSE, bulk.clean) /\ UNCHANGED <<buf, mcuVars, torn>>
    BY <1>2 DEF AskFails
  <2>2. pc \in Waiting /\ bulk.clean \in BOOLEAN
    BY <2>1 DEF Waiting, TypeInv, BulkType, Bulks
  <2>3. pc' \notin {"header", "payload"}
    BY <2>1, <2>2, ConcludeType
  <2> QED BY <2>1, <2>3, Quiet
<1>3. CASE Unplug \/ DropSocket \/ Plug \/ Restart
  <2>1. torn'
    BY <1>3 DEF Unplug, DropSocket, Plug, Restart, TypeInv, PortType
  <2> QED BY <2>1, Broken
<1>4. CASE UNCHANGED vars
  <2>1. UNCHANGED <<pc, torn, buf, cmds, wire, req, nread, hdr>>
    BY <1>4 DEF vars, ackVars, portVars, mcuVars
  <2>2. UNCHANGED <<Unread, Stage>>
    BY <2>1 DEF Unread, Stage
  <2> QED BY <2>1, <2>2 DEF Kept, InSync
<1> QED BY <1>1, <1>2, <1>3, <1>4, DrainSync, AskSync, ReadHeaderSync, ReadPayloadSync, McuSync
    DEF Next

\* While the stream is whole, what is unread is the rest of the acknowledgement
\* that the call under way waits for: none is taken for another's, although
\* read_ack() never compares the ids, however the reads are split.
THEOREM AcksMatch == Spec => []InSync
<1>1. Init => InSync
  BY DEF Init, InSync
<1>2. TypeInv /\ InSync /\ [Next]_vars => InSync'
  BY StepKept DEF Kept
<1> QED BY <1>1, <1>2, InitTypeInv, NextTypeInv, PTL DEF Spec

\* The link keeps what Exchange promises: one request is outstanding, and the
\* call that made it returns only after the MCU has carried it out.
THEOREM ImplementsExchange == Spec => Promised
<1>1. Init => Promise!Init
  BY DEF Init, Promise!Init, Stage
<1>2. TypeInv /\ InSync /\ [Next]_vars => [Promise!Next]_Stage
  BY StepKept DEF Kept
<1> QED BY <1>1, <1>2, InitTypeInv, NextTypeInv, AcksMatch, PTL
    DEF Spec, Promised, Promise!Spec
=============================================================================
