--------------------------- MODULE LifecycleProofs ---------------------------
(***************************************************************************)
(* Theorems about GatewayLifecycle for any number of starts. The state     *)
(* keeps its type whatever the user and the threads do. For a user who     *)
(* starts the gateway when no run is left and stops what has started, the  *)
(* end is clean; if moreover no turn of the upstream thread outlasts the   *)
(* wait of stop(), its loop has a handler and is the only one.             *)
(***************************************************************************)
EXTENDS GatewayLifecycle, TLAPS

ThreadIn(r) == up[r] \notin {"none", "done"}

\* Who has called stop() is known from where its thread is, a run spawns its
\* upstream thread once, and a listener is chosen before it is used.
Early == {"none", "spawned", "created", "listen", "setup", "eui"}
ThreadInv ==
  /\ \A r \in Runs : rpc[r] \in Early => up[r] = "none"
  /\ \A r \in Runs : ListenUses(r) => lst[r] # 0
  /\ \A r \in Runs : ThreadIn(r) => lst[r] # 0
  /\ \A r \in Runs : CallUses(UpOf(r)) => up[r] = "stopping"
  /\ \A r \in Runs : CallUses(RunOf(r)) => rpc[r] = "reported"

Active(r) == rpc[r] \notin {"none", "done"}
Owning == {"created", "listen", "setup", "eui", "started", "listening",
           "deleting", "failed", "reported"}
Past   == {"started", "listening", "deleting", "reported", "deleted", "done"}

\* With one run at a time, the handler of the run that is active is the only
\* one and the global names it.
OneRun ==
  /\ \A r, s \in Runs : Active(r) /\ Active(s) => r = s
  /\ (\A r \in Runs : rpc[r] \in {"none", "done", "spawned"}) => current = 0 /\ alive = {}
  /\ \A r \in Runs : rpc[r] \in Owning => current = r /\ alive = {r}
  /\ \A r \in Runs : rpc[r] = "deleted" => alive = {}
  /\ \A r \in Runs : rpc[r] \in Owning \ {"created"} => lst[r] = r
  /\ \A r \in Runs : ThreadIn(r) => lst[r] = r /\ rpc[r] \in Past

\* A run is stopped only after it has started or failed, so that no reset of
\* stopRequest comes after a stop.
StopInv ==
  /\ running => \E r \in Runs : rpc[r] = "listening"
  /\ \A a \in Callers : CallUses(a) => rpc[call[a].on] \in Past
  /\ \A a \in Callers : call[a].pc \in {"waiting", "closing"} => stopReq[call[a].on]
  /\ \A r \in Runs : rpc[r] \in {"setup", "eui", "failed"} => ~stopReq[r]

\* While the concentrator is on, something is left that will turn it off.
HalInv ==
  hal => \/ \E r \in Runs : rpc[r] \in {"eui", "failed"}
         \/ \E r \in Runs : rpc[r] \in {"started", "listening"} /\ flag[r] /\ ~stopReq[r]
         \/ \E a \in Callers : call[a].pc \in {"tested", "waiting", "closing"}

\* A loop has its flag set; a stop() that clears it by force has seen that
\* there is no loop.
LoopInv ==
  /\ \A r \in Runs : LoopUses(r) => rpc[r] \in {"started", "listening"} /\ flag[r]
  /\ \A a \in Callers : call[a].pc = "closing" => ~LoopUses(call[a].on)

-----------------------------------------------------------------------------
LEMMA RunFacts ==
  /\ 0 \in 0..RUNS /\ 0 \notin Runs /\ Runs \subseteq 0..RUNS
  /\ \A h \in 0..RUNS : h # 0 => h \in Runs
BY LifecycleAssumption DEF Runs

\* The callers are told apart by what they are and by their run.
LEMMA CallerFacts ==
  /\ UI \in Callers
  /\ \A r \in Runs : UpOf(r) \in Callers /\ RunOf(r) \in Callers
  /\ \A r, s \in Runs : /\ UpOf(r) = UpOf(s) => r = s
                        /\ RunOf(r) = RunOf(s) => r = s
                        /\ UpOf(r) # RunOf(s)
  /\ \A r \in Runs : UI # UpOf(r) /\ UI # RunOf(r)
BY DEF Callers, UI, UpOf, RunOf, Runs

CallType == [pc : {"idle", "tested", "waiting", "closing", "notifying"},
             on : 0..RUNS, ok : BOOLEAN]

\* The entry of stop(): the caller is in the call, on that listener, unless its
\* stopRequest is set already.
LEMMA EnterFacts ==
  ASSUME TypeOK, NEW a \in Callers, NEW h \in Runs, Enter(a, h)
  PROVE  /\ call' \in [Callers -> CallType]
         /\ \A b \in Callers : b # a => call'[b] = call[b]
         /\ call'[a].pc = (IF stopReq[h] THEN "idle" ELSE "tested")
         /\ call'[a].on = h
<1>1. call \in [Callers -> CallType] /\ h \in 0..RUNS
  BY LifecycleAssumption DEF TypeOK, CallType, Runs
<1> DEFINE c0 == call[a]
           at == IF stopReq[h] THEN "idle" ELSE "tested"
           c1 == [[[c0 EXCEPT !.pc = at] EXCEPT !.on = h] EXCEPT !.ok = FALSE]
<1>2. c0 \in CallType
  BY <1>1
<1>3. c1 \in CallType /\ c1.pc = at /\ c1.on = h
  BY <1>1, <1>2 DEF CallType
<1>4. /\ DOMAIN call' = Callers /\ call' = [b \in Callers |-> call'[b]]
      /\ call'[a] = c1 /\ \A b \in Callers : b # a => call'[b] = call[b]
  BY <1>1 DEF Enter
<1> HIDE DEF c1
<1> QED
  BY <1>1, <1>3, <1>4

\* A step of a call: it stays on its listener, and no other call moves.
LEMMA StopCallFacts ==
  ASSUME TypeOK, NEW a \in Callers, StopCall(a)
  PROVE  /\ CallUses(a) /\ call[a].on \in Runs
         /\ call' \in [Callers -> CallType]
         /\ \A b \in Callers : b # a => call'[b] = call[b]
         /\ call'[a].on = call[a].on
         /\ RequestStop(a) => call[a].pc = "tested"    /\ call'[a].pc = "waiting"
         /\ SeeStopped(a)  => call[a].pc = "waiting"   /\ call'[a].pc = "waiting"
         /\ EndWait(a)     => call[a].pc = "waiting"   /\ call'[a].pc = "closing"
         /\ Close(a)       => call[a].pc = "closing"   /\ call'[a].pc = "notifying"
         /\ Finish(a)      => call[a].pc = "notifying" /\ call'[a].pc = "idle"
<1> DEFINE c0 == call[a]
<1>1. call \in [Callers -> CallType] /\ c0 \in CallType
  BY DEF TypeOK, CallType
<1>2. CallUses(a)
  BY DEF StopCall, RequestStop, SeeStopped, EndWait, Close, Finish, CallUses
<1>3. call[a].on \in Runs
  BY <1>1, <1>2, LifecycleAssumption DEF TypeOK, CallType, Runs
<1>4. ASSUME NEW at, call' = [call EXCEPT ![a].pc = at], at \in {"idle", "waiting", "closing"}
      PROVE  /\ call' \in [Callers -> CallType] /\ \A b \in Callers : b # a => call'[b] = call[b]
             /\ call'[a].on = call[a].on /\ call'[a].pc = at
  <2>1. [c0 EXCEPT !.pc = at] \in CallType
    BY <1>1, <1>4 DEF CallType
  <2> QED
    BY <1>1, <1>4, <2>1 DEF CallType
<1>5. CASE RequestStop(a)
  BY <1>2, <1>3, <1>4, <1>5 DEF RequestStop, SeeStopped, EndWait, Close, Finish
<1>6. CASE SeeStopped(a)
  <2>1. [c0 EXCEPT !.ok = TRUE] \in CallType
    BY <1>1 DEF CallType
  <2>2. /\ call' \in [Callers -> CallType] /\ \A b \in Callers : b # a => call'[b] = call[b]
        /\ call'[a].on = call[a].on /\ call'[a].pc = "waiting"
    BY <1>1, <1>6, <2>1 DEF SeeStopped, CallType
  <2> QED
    BY <1>2, <1>3, <1>6, <2>2 DEF RequestStop, SeeStopped, EndWait, Close, Finish
<1>7. CASE EndWait(a)
  BY <1>2, <1>3, <1>4, <1>7 DEF RequestStop, SeeStopped, EndWait, Close, Finish
<1>8. CASE Close(a)
  <2>1. PICK good \in BOOLEAN :
          call' = [call EXCEPT ![a].pc = "notifying", ![a].ok = @ /\ good]
    BY <1>8 DEF Close
  <2> DEFINE c1 == [[c0 EXCEPT !.pc = "notifying"] EXCEPT !.ok = c0.ok /\ good]
  <2>2. c1 \in CallType /\ c1.on = c0.on /\ c1.pc = "notifying"
    BY <1>1 DEF CallType
  <2>3. /\ DOMAIN call' = Callers /\ call' = [b \in Callers |-> call'[b]]
        /\ call'[a] = c1 /\ \A b \in Callers : b # a => call'[b] = call[b]
    BY <1>1, <2>1 DEF CallType
  <2> HIDE DEF c1
  <2>4. call' \in [Callers -> CallType]
    BY <1>1, <2>2, <2>3
  <2> QED
    BY <1>2, <1>3, <1>8, <2>2, <2>3, <2>4 DEF RequestStop, SeeStopped, EndWait, Close, Finish
<1>9. CASE Finish(a)
  BY <1>2, <1>3, <1>4, <1>9 DEF RequestStop, SeeStopped, EndWait, Close, Finish
<1> QED
  BY <1>5, <1>6, <1>7, <1>8, <1>9 DEF StopCall

-----------------------------------------------------------------------------
TypeInv == TypeOK /\ ThreadInv

LEMMA InitTypeInv == Init => TypeInv
<1> SUFFICES ASSUME Init PROVE TypeInv
  OBVIOUS
<1>1. call \in [Callers -> CallType] /\ \A a \in Callers : ~CallUses(a)
  BY LifecycleAssumption DEF Init, NoCall, CallType, CallUses
<1>2. TypeOK
  BY <1>1, RunFacts DEF Init, TypeOK, CallType
<1>3. ThreadInv
  BY <1>1, CallerFacts DEF Init, ThreadInv, ThreadIn, ListenUses, Early
<1> QED
  BY <1>2, <1>3 DEF TypeInv

\* The steps of stop().
LEMMA CallTypeInv ==
  ASSUME TypeInv, NEW a \in Callers, StopCall(a)
  PROVE  TypeInv'
<1>1. /\ CallUses(a) /\ call[a].on \in Runs
      /\ call' \in [Callers -> CallType]
      /\ \A b \in Callers : b # a => call'[b] = call[b]
      /\ call'[a].on = call[a].on
  BY StopCallFacts DEF TypeInv
<1>2. /\ UNCHANGED <<current, alive, rpc, lst, up>>
      /\ running' \in {running, FALSE} /\ hal' \in {hal, FALSE}
      /\ stopReq' \in {stopReq, [stopReq EXCEPT ![call[a].on] = TRUE]}
      /\ flag' \in {flag, [flag EXCEPT ![call[a].on] = FALSE]}
  BY DEF StopCall, RequestStop, SeeStopped, EndWait, Close, Finish, globals, listenerVars
<1>3. \A b \in Callers : CallUses(b)' => CallUses(b) /\ call'[b].on = call[b].on
  BY <1>1 DEF CallUses
<1>4. \A b \in Callers : CallUses(b)' => call'[b].on # 0
  BY <1>3 DEF TypeInv, TypeOK
<1>5. TypeOK'
  BY <1>1, <1>2, <1>4 DEF TypeInv, TypeOK, CallType
<1>6. ThreadInv'
  BY <1>2, <1>3, CallerFacts DEF TypeInv, ThreadInv, ListenUses, ThreadIn, Early
<1> QED
  BY <1>5, <1>6 DEF TypeInv

\* A thread that enters stop().
LEMMA EnterTypeInv ==
  ASSUME TypeInv, UserStop \/ \E r \in Runs : ReportFailure(r) \/ FetchFails(r)
  PROVE  TypeInv'
<1>1. UNCHANGED <<current, alive, running, hal, stopReq, flag, lst>>
  BY DEF UserStop, ReportFailure, FetchFails, globals, listenerVars
<1>2. ASSUME NEW a \in Callers, NEW h \in Runs, Enter(a, h)
      PROVE  /\ call' \in [Callers -> CallType]
             /\ \A b \in Callers : CallUses(b)' => (b = a \/ CallUses(b)) /\ call'[b].on # 0
  <2>1. /\ call' \in [Callers -> CallType] /\ call'[a].on = h
        /\ \A b \in Callers : b # a => call'[b] = call[b]
    BY <1>2, EnterFacts DEF TypeInv
  <2>2. h # 0
    BY DEF Runs
  <2> QED
    BY <2>1, <2>2 DEF CallUses, TypeInv, TypeOK
<1>3. \A h \in 0..RUNS : h # 0 => h \in Runs
  BY LifecycleAssumption DEF Runs
<1>4. CASE UserStop
  <2>1. Enter(UI, current) /\ current \in Runs /\ UNCHANGED <<rpc, up>>
    BY <1>3, <1>4 DEF UserStop, TypeInv, TypeOK
  <2>2. /\ call' \in [Callers -> CallType]
        /\ \A b \in Callers : CallUses(b)' => (b = UI \/ CallUses(b)) /\ call'[b].on # 0
    BY <1>2, <2>1, CallerFacts
  <2> QED
    BY <1>1, <2>1, <2>2, CallerFacts
    DEF TypeInv, TypeOK, CallType, ThreadInv, ListenUses, ThreadIn, Early
<1>5. ASSUME NEW r \in Runs, ReportFailure(r) PROVE TypeInv'
  <2>1. /\ rpc' = [rpc EXCEPT ![r] = "reported"] /\ rpc[r] = "failed" /\ UNCHANGED up
        /\ \/ UNCHANGED call
           \/ current \in Runs /\ Enter(RunOf(r), current)
    BY <1>3, <1>5 DEF ReportFailure, TypeInv, TypeOK
  <2>2. /\ call' \in [Callers -> CallType]
        /\ \A b \in Callers : CallUses(b)' => (b = RunOf(r) \/ CallUses(b)) /\ call'[b].on # 0
    <3>1. CASE UNCHANGED call
      BY <3>1 DEF TypeInv, TypeOK, CallType, CallUses
    <3>2. CASE current \in Runs /\ Enter(RunOf(r), current)
      BY <1>2, <3>2, CallerFacts
    <3> QED
      BY <2>1, <3>1, <3>2
  <2>3. TypeOK'
    BY <1>1, <2>1, <2>2 DEF TypeInv, TypeOK, CallType
  <2>4. ThreadInv'
    BY <1>1, <2>1, <2>2, CallerFacts DEF TypeInv, TypeOK, ThreadInv, ListenUses, ThreadIn, Early
  <2> QED
    BY <2>3, <2>4 DEF TypeInv
<1>6. ASSUME NEW r \in Runs, FetchFails(r) PROVE TypeInv'
  <2>1. /\ up' = [up EXCEPT ![r] = "stopping"] /\ up[r] = "fetching" /\ UNCHANGED rpc
        /\ lst[r] \in Runs /\ Enter(UpOf(r), lst[r])
    BY <1>3, <1>6 DEF FetchFails, Served, TypeInv, TypeOK, ThreadInv, ThreadIn
  <2>2. /\ call' \in [Callers -> CallType]
        /\ \A b \in Callers : CallUses(b)' => (b = UpOf(r) \/ CallUses(b)) /\ call'[b].on # 0
    BY <1>2, <2>1, CallerFacts
  <2>3. TypeOK'
    BY <1>1, <2>1, <2>2 DEF TypeInv, TypeOK, CallType
  <2>4. ThreadInv'
    BY <1>1, <2>1, <2>2, CallerFacts DEF TypeInv, TypeOK, ThreadInv, ListenUses, ThreadIn, Early
  <2> QED
    BY <2>3, <2>4 DEF TypeInv
<1> QED
  BY <1>4, <1>5, <1>6

\* The steps of run() and of the upstream thread that call nobody.
LEMMA RunTypeInv ==
  ASSUME TypeInv, NEW r \in Runs, UNCHANGED call,
         \/ UserStart(r) \/ Create(r) \/ Listen(r) \/ ResetStop(r) \/ StartFails(r)
         \/ StartHal(r) \/ SpawnUpstream(r) \/ ReportStarted(r) \/ Leave(r)
         \/ Delete(r) \/ Forget(r)
  PROVE  TypeInv'
<1>1. \A h \in 0..RUNS : h # 0 => h \in Runs
  BY LifecycleAssumption DEF Runs
<1> USE DEF globals, listenerVars
<1>2. TypeOK'
  <2>1. /\ \E at \in {"spawned", "created", "listen", "setup", "eui", "failed", "started",
                      "listening", "deleting", "deleted", "done"} :
             rpc' = [rpc EXCEPT ![r] = at]
        /\ running' \in {running, TRUE, FALSE} /\ hal' \in {hal, TRUE}
        /\ \/ up' = up
           \/ up' = [up EXCEPT ![r] = "testing"]
        /\ \/ flag' = flag
           \/ \E h \in Runs : flag' = [flag EXCEPT ![h] = TRUE]
        /\ \/ stopReq' = stopReq
           \/ \E h \in Runs : stopReq' = [stopReq EXCEPT ![h] = FALSE]
    <3>1. ListenUses(r) => lst[r] \in Runs
      BY RunFacts DEF TypeInv, TypeOK, ThreadInv
    <3>2. CASE UserStart(r) \/ Create(r) \/ Listen(r) \/ ResetStop(r) \/ StartFails(r) \/ StartHal(r)
      BY <3>1, <3>2 DEF UserStart, Create, Listen, ResetStop, StartFails, StartHal, ListenUses
    <3>3. CASE SpawnUpstream(r)
      BY <3>1, <3>3 DEF SpawnUpstream, ListenUses
    <3>4. CASE ReportStarted(r) \/ Leave(r) \/ Delete(r) \/ Forget(r)
      BY <3>4 DEF ReportStarted, Leave, Delete, Forget
    <3> QED
      BY <3>2, <3>3, <3>4
  <2>2. /\ current' \in {current, r, 0}
        /\ alive' \in {alive, alive \cup {r}, alive \ {current}}
        /\ \/ lst' = lst
           \/ lst' = [lst EXCEPT ![r] = current]
    BY DEF UserStart, Create, Listen, ResetStop, StartFails, StartHal,
           SpawnUpstream, ReportStarted, Leave, Delete, Forget
  <2>3. current' \in 0..RUNS /\ alive' \subseteq Runs /\ lst' \in [Runs -> 0..RUNS]
    BY <2>2, RunFacts DEF TypeInv, TypeOK
  <2>4. stopReq' \in [Runs -> BOOLEAN] /\ flag' \in [Runs -> BOOLEAN]
    BY <2>1 DEF TypeInv, TypeOK
  <2>5. \A a \in Callers : CallUses(a)' => call'[a].on # 0
    BY DEF TypeInv, TypeOK, CallUses
  <2>6. rpc' \in [Runs -> {"none", "spawned", "created", "listen", "setup", "eui",
                           "started", "listening", "deleting", "deleted", "failed",
                           "reported", "done"}]
    BY <2>1 DEF TypeInv, TypeOK
  <2>7. /\ up' \in [Runs -> {"none", "testing", "fetching", "stopping", "ending", "done"}]
        /\ running' \in BOOLEAN /\ hal' \in BOOLEAN
    BY <2>1 DEF TypeInv, TypeOK
  <2> QED
    BY <2>3, <2>4, <2>5, <2>6, <2>7 DEF TypeInv, TypeOK
<1>3. ThreadInv'
  <2>1. /\ \A s \in Runs : ListenUses(s)' => lst'[s] # 0
        /\ \A s \in Runs : ThreadIn(s)' => lst'[s] # 0
    BY RunFacts DEF TypeInv, TypeOK, ThreadInv, ListenUses, ThreadIn, UserStart, Create, Listen,
           ResetStop, StartFails, StartHal, SpawnUpstream, ReportStarted, Leave, Delete, Forget
  <2>2. \A s \in Runs : CallUses(UpOf(s))' => up'[s] = "stopping"
    BY DEF TypeInv, TypeOK, ThreadInv, Early, CallUses, UserStart, Create, Listen,
           ResetStop, StartFails, StartHal, SpawnUpstream, ReportStarted, Leave, Delete, Forget
  <2>3. \A s \in Runs : CallUses(RunOf(s))' => rpc'[s] = "reported"
    BY DEF TypeInv, TypeOK, ThreadInv, CallUses, UserStart, Create, Listen,
           ResetStop, StartFails, StartHal, SpawnUpstream, ReportStarted, Leave, Delete, Forget
  <2>4. \A s \in Runs : rpc'[s] \in Early => up'[s] = "none"
    BY DEF TypeInv, TypeOK, ThreadInv, Early, UserStart, Create, Listen,
           ResetStop, StartFails, StartHal, SpawnUpstream, ReportStarted, Leave, Delete, Forget
  <2> QED
    BY <2>1, <2>2, <2>3, <2>4 DEF ThreadInv
<1> QED
  BY <1>2, <1>3 DEF TypeInv

LEMMA UpTypeInv ==
  ASSUME TypeInv, NEW r \in Runs, TestStop(r) \/ Fetch(r) \/ EndThread(r)
  PROVE  TypeInv'
<1> USE DEF globals, listenerVars
<1>1. /\ UNCHANGED <<current, alive, running, hal, stopReq, rpc, lst, call>>
      /\ flag' \in [Runs -> BOOLEAN]
      /\ \E at \in {"ending", "fetching", "testing", "done"} : up' = [up EXCEPT ![r] = at]
      /\ ThreadIn(r) /\ ~(up[r] = "stopping" /\ CallUses(UpOf(r)))
  BY DEF TypeInv, TypeOK, TestStop, Fetch, EndThread, ThreadIn, CallUses
<1>2. TypeOK'
  BY <1>1 DEF TypeInv, TypeOK, CallUses
<1>3. ThreadInv'
  BY <1>1 DEF TypeInv, TypeOK, ThreadInv, ListenUses, ThreadIn, Early, CallUses
<1> QED
  BY <1>2, <1>3 DEF TypeInv

LEMMA CrashTypeInv == ASSUME TypeInv, Crash PROVE TypeInv'
<1>1. call' \in [Callers -> CallType] /\ \A a \in Callers : ~CallUses(a)'
  BY LifecycleAssumption DEF Crash, NoCall, CallType, CallUses
<1>2. TypeOK'
  BY <1>1, RunFacts DEF TypeInv, TypeOK, CallType, Crash, listenerVars
<1>3. ThreadInv'
  BY <1>1, CallerFacts DEF Crash, ThreadInv, ThreadIn, ListenUses, Early
<1> QED
  BY <1>2, <1>3 DEF TypeInv

\* The actions by what they do to the calls.
LEMMA StepCases ==
  ASSUME Next
  PROVE  \/ \E a \in Callers : StopCall(a)
         \/ UserStop \/ \E r \in Runs : ReportFailure(r) \/ FetchFails(r)
         \/ \E r \in Runs :
              /\ UNCHANGED call
              /\ \/ UserStart(r) \/ Create(r) \/ Listen(r) \/ ResetStop(r) \/ StartFails(r)
                 \/ StartHal(r) \/ SpawnUpstream(r) \/ ReportStarted(r) \/ Leave(r)
                 \/ Delete(r) \/ Forget(r)
         \/ \E r \in Runs : TestStop(r) \/ Fetch(r) \/ EndThread(r)
         \/ Crash
BY DEF Next, Run, Upstream, UserStart, Create, Listen, ResetStop, StartFails, StartHal,
       SpawnUpstream, ReportStarted, Leave, Delete, Forget

LEMMA NextTypeInv == TypeInv /\ [Next]_vars => TypeInv'
<1> SUFFICES ASSUME TypeInv, [Next]_vars PROVE TypeInv'
  OBVIOUS
<1>1. CASE Next
  BY <1>1, StepCases, CallTypeInv, EnterTypeInv, RunTypeInv, UpTypeInv, CrashTypeInv
<1>2. CASE UNCHANGED vars
  BY <1>2 DEF vars, TypeInv, TypeOK, ThreadInv, ListenUses, ThreadIn, Early, CallUses
<1> QED
  BY <1>1, <1>2

\* Whatever the user and the threads do, the state keeps its type: a call of
\* stop() that is under way has a listener, also when it is of a deleted one.
THEOREM TypeCorrect == Spec => []TypeOK
<1>1. TypeInv => TypeOK
  BY DEF TypeInv
<1> QED
  BY <1>1, InitTypeInv, NextTypeInv, PTL DEF Spec

-----------------------------------------------------------------------------
\* From here on the user is patient.
LEMMA InitOneRun == Init => OneRun
BY DEF Init, OneRun, Active, Owning, ThreadIn

\* A step that moves no run.
LEMMA RunsKept ==
  ASSUME OneRun, UNCHANGED <<current, alive, rpc, lst>>,
         \A r \in Runs : ThreadIn(r)' => ThreadIn(r)
  PROVE  OneRun'
BY DEF OneRun, Active, Owning, Past

\* A run that goes on with its handler.
LEMMA RunGoesOn ==
  ASSUME TypeInv, OneRun, NEW r \in Runs, NEW at,
         rpc' = [rpc EXCEPT ![r] = at],
         rpc[r] \in Owning, at \in Owning \ {"created"},
         UNCHANGED <<current, alive>>, lst' = [lst EXCEPT ![r] = r],
         \A s \in Runs : s # r => (ThreadIn(s)' => ThreadIn(s)),
         ThreadIn(r)' => at \in Past
  PROVE  OneRun'
<1>1. /\ rpc'[r] = at /\ \A s \in Runs : s # r => rpc'[s] = rpc[s] /\ lst'[s] = lst[s]
      /\ lst'[r] = r /\ at \notin {"none", "done", "spawned", "deleted"} /\ rpc[r] \notin {"none", "done"}
  BY DEF TypeInv, TypeOK, Owning
<1> QED
  BY <1>1 DEF OneRun, Active

LEMMA NextOneRun == PATIENT /\ TypeInv /\ OneRun /\ [Next]_vars => OneRun'
<1> SUFFICES ASSUME PATIENT, TypeInv, OneRun, [Next]_vars PROVE OneRun'
  OBVIOUS
<1> USE DEF globals, listenerVars
<1>1. CASE UserStop \/ (\E a \in Callers : StopCall(a)) \/ UNCHANGED vars
  BY <1>1, RunsKept
  DEF UserStop, StopCall, RequestStop, SeeStopped, EndWait, Close, Finish, vars, ThreadIn
<1>2. CASE \E r \in Runs : TestStop(r) \/ Fetch(r) \/ EndThread(r) \/ FetchFails(r)
  <2>1. UNCHANGED <<current, alive, rpc, lst>> /\ \A r \in Runs : ThreadIn(r)' => ThreadIn(r)
    BY <1>2 DEF TestStop, Fetch, EndThread, FetchFails, ThreadIn, TypeInv, TypeOK
  <2> QED
    BY <2>1, RunsKept
<1>3. CASE Crash
  BY <1>3 DEF Crash, OneRun, Active, Owning, ThreadIn
<1>4. ASSUME NEW r \in Runs, UserStart(r) PROVE OneRun'
  <2>1. /\ \A s \in Runs : rpc[s] \in {"none", "done"}
        /\ rpc'[r] = "spawned" /\ \A s \in Runs : s # r => rpc'[s] = rpc[s]
        /\ rpc[r] = "none" /\ UNCHANGED <<current, alive, lst, up>>
    BY <1>4 DEF UserStart, TypeInv, TypeOK
  <2> QED
    BY <2>1 DEF OneRun, Active, Owning, Past, ThreadIn
<1>5. ASSUME NEW r \in Runs, Create(r) PROVE OneRun'
  <2>1. /\ rpc[r] = "spawned" /\ rpc'[r] = "created"
        /\ \A s \in Runs : s # r => rpc'[s] = rpc[s]
        /\ current' = r /\ alive' = alive \cup {r} /\ UNCHANGED <<lst, up>>
    BY <1>5 DEF Create, TypeInv, TypeOK
  <2>2. \A s \in Runs : s # r => rpc[s] \in {"none", "done"}
    BY <2>1 DEF OneRun, Active
  <2>3. alive' = {r}
    BY <2>1, <2>2 DEF OneRun
  <2>4. up[r] = "none"
    BY <2>1 DEF TypeInv, ThreadInv, Early
  <2> QED
    BY <2>1, <2>2, <2>3, <2>4 DEF OneRun, Active, Owning, ThreadIn
<1>6. ASSUME NEW r \in Runs, Listen(r) PROVE OneRun'
  <2>1. rpc[r] = "created" /\ current = r
    BY <1>6 DEF Listen, OneRun, Owning
  <2>2. up[r] = "none"
    BY <2>1 DEF TypeInv, ThreadInv, Early
  <2>3. /\ rpc' = [rpc EXCEPT ![r] = "listen"] /\ lst' = [lst EXCEPT ![r] = r]
        /\ UNCHANGED <<current, alive>> /\ \A s \in Runs : ThreadIn(s)' => ThreadIn(s)
        /\ ~ThreadIn(r)'
    BY <1>6, <2>1, <2>2 DEF Listen, ThreadIn
  <2> QED
    BY <2>1, <2>3, RunGoesOn DEF Owning
<1>7. ASSUME NEW r \in Runs, ResetStop(r) \/ StartFails(r) \/ StartHal(r) \/ SpawnUpstream(r)
                            \/ ReportStarted(r) \/ Leave(r) \/ ReportFailure(r)
      PROVE  OneRun'
  <2>1. rpc[r] \in Owning \ {"created"} /\ UNCHANGED <<current, alive, lst>>
    BY <1>7 DEF ResetStop, StartFails, StartHal, SpawnUpstream, ReportStarted, Leave,
                ReportFailure, Owning
  <2>2. lst' = [lst EXCEPT ![r] = r]
    BY <2>1 DEF OneRun, TypeInv, TypeOK
  <2>3. PICK at \in {"setup", "failed", "eui", "started", "listening", "deleting", "reported"} :
          /\ rpc' = [rpc EXCEPT ![r] = at]
          /\ rpc[r] \in Past \/ at = "started" => at \in Past
          /\ at # "started" => up' = up
          /\ at \notin Past => rpc[r] \in Early
    BY <1>7 DEF ResetStop, StartFails, StartHal, SpawnUpstream, ReportStarted, Leave,
                ReportFailure, Past, Early
  <2>4. \A s \in Runs : s # r => up'[s] = up[s]
    BY <1>7 DEF ResetStop, StartFails, StartHal, SpawnUpstream, ReportStarted, Leave,
                ReportFailure, TypeInv, TypeOK
  <2>5. ThreadIn(r)' => at \in Past
    BY <2>3 DEF TypeInv, ThreadInv, ThreadIn, Past
  <2> QED
    BY <2>1, <2>2, <2>3, <2>4, <2>5, RunGoesOn DEF Owning, ThreadIn
<1>8. ASSUME NEW r \in Runs, Delete(r) \/ Forget(r) PROVE OneRun'
  <2>1. /\ \A s \in Runs : s # r => rpc'[s] = rpc[s]
        /\ UNCHANGED <<lst, up>>
        /\ \/ /\ rpc[r] \in {"deleting", "reported"} /\ rpc'[r] = "deleted"
              /\ alive' = alive \ {current} /\ current' = current
           \/ rpc[r] = "deleted" /\ rpc'[r] = "done" /\ current' = 0 /\ alive' = alive
    BY <1>8 DEF Delete, Forget, TypeInv, TypeOK
  <2>2. \A s \in Runs : s # r => rpc[s] \in {"none", "done"}
    BY <2>1 DEF OneRun, Active
  <2>3. alive' = {}
    BY <2>1 DEF OneRun, Owning
  <2> QED
    BY <2>1, <2>2, <2>3 DEF OneRun, Active, Owning, Past, ThreadIn
<1> QED
  BY <1>1, <1>2, <1>3, <1>4, <1>5, <1>6, <1>7, <1>8 DEF Next, Run, Upstream

-----------------------------------------------------------------------------
\* stop() is entered on the handler of a run that has started or failed.
LEMMA EnterPast ==
  ASSUME PATIENT, TypeInv, OneRun, StopInv,
         UserStop \/ \E r \in Runs : ReportFailure(r) \/ FetchFails(r)
  PROVE  /\ UNCHANGED <<running, hal, stopReq, flag>>
         /\ \E a \in Callers, h \in Runs :
              /\ Enter(a, h) /\ ~CallUses(a) /\ rpc'[h] \in Past
              /\ \/ UNCHANGED rpc
                 \/ /\ rpc[h] = "failed" /\ rpc'[h] = "reported"
                    /\ \A s \in Runs : s # h => rpc'[s] = rpc[s]
<1> USE DEF listenerVars
<1>1. CASE UserStop
  <2>1. PICK r \in Runs : rpc[r] = "listening"
    BY <1>1 DEF UserStop, StopInv
  <2>2. current = r /\ rpc[r] \in Past
    BY <2>1 DEF OneRun, Owning, Past
  <2> QED
    BY <1>1, <2>2, CallerFacts DEF UserStop, CallUses
<1>2. ASSUME NEW r \in Runs, ReportFailure(r)
      PROVE  /\ UNCHANGED <<running, hal, stopReq, flag>>
             /\ Enter(RunOf(r), r) /\ ~CallUses(RunOf(r)) /\ rpc'[r] \in Past
             /\ rpc[r] = "failed" /\ rpc'[r] = "reported"
             /\ \A s \in Runs : s # r => rpc'[s] = rpc[s]
  <2>1. rpc[r] = "failed" /\ rpc' = [rpc EXCEPT ![r] = "reported"]
    BY <1>2 DEF ReportFailure
  <2>2. current = r /\ r # 0
    BY <2>1, RunFacts DEF OneRun, Owning
  <2>3. ~CallUses(RunOf(r))
    BY <2>1 DEF TypeInv, ThreadInv
  <2> QED
    BY <1>2, <2>1, <2>2, <2>3 DEF ReportFailure, Past, TypeInv, TypeOK
<1>3. ASSUME NEW r \in Runs, FetchFails(r)
      PROVE  /\ UNCHANGED <<running, hal, stopReq, flag, rpc>>
             /\ Enter(UpOf(r), r) /\ ~CallUses(UpOf(r)) /\ rpc[r] \in Past
  <2>1. up[r] = "fetching" /\ lst[r] = r /\ rpc[r] \in Past
    BY <1>3 DEF FetchFails, OneRun, ThreadIn
  <2>2. ~CallUses(UpOf(r))
    BY <2>1 DEF TypeInv, ThreadInv
  <2> QED
    BY <1>3, <2>1, <2>2 DEF FetchFails, Served
<1> QED
  BY <1>1, <1>2, <1>3, CallerFacts

\* The steps of a run change what stop() relies on only before it may be called.
LEMMA RunFlags ==
  ASSUME TypeInv, OneRun, NEW r \in Runs,
         \/ UserStart(r) \/ Create(r) \/ Listen(r) \/ ResetStop(r) \/ StartFails(r)
         \/ StartHal(r) \/ SpawnUpstream(r) \/ ReportStarted(r) \/ Leave(r)
         \/ Delete(r) \/ Forget(r)
  PROVE  /\ \A s \in Runs : s # r => /\ rpc'[s] = rpc[s] /\ stopReq'[s] = stopReq[s]
                                     /\ flag'[s] = flag[s]
         /\ rpc[r] \in Past => rpc'[r] \in Past /\ stopReq'[r] = stopReq[r]
         /\ rpc'[r] = "setup" => ~stopReq'[r]
         /\ rpc'[r] \in {"eui", "failed"} =>
              rpc[r] \in {"setup", "eui"} /\ stopReq'[r] = stopReq[r]
         /\ rpc[r] = "listening" => ~running'
         /\ running' => running \/ rpc'[r] = "listening"
<1> USE DEF globals, listenerVars
<1>1. CASE UserStart(r) \/ StartFails(r) \/ StartHal(r) \/ Listen(r)
  BY <1>1 DEF UserStart, StartFails, StartHal, Listen, Past, TypeInv, TypeOK
<1>2. CASE Create(r) \/ ReportStarted(r) \/ Leave(r) \/ Delete(r) \/ Forget(r)
  BY <1>2 DEF Create, ReportStarted, Leave, Delete, Forget, Past, TypeInv, TypeOK
<1>3. CASE ResetStop(r) \/ SpawnUpstream(r)
  <2>1. lst[r] = r
    BY <1>3 DEF ResetStop, SpawnUpstream, OneRun, Owning
  <2> QED
    BY <1>3, <2>1 DEF ResetStop, SpawnUpstream, Past, TypeInv, TypeOK
<1> QED
  BY <1>1, <1>2, <1>3

LEMMA NextStopInv ==
  PATIENT /\ TypeInv /\ OneRun /\ StopInv /\ [Next]_vars => StopInv'
<1> SUFFICES ASSUME PATIENT, TypeInv, OneRun, StopInv, [Next]_vars PROVE StopInv'
  OBVIOUS
<1>0. \A a \in Callers : CallUses(a) => call[a].on \in Runs
  BY RunFacts DEF TypeInv, TypeOK
<1>1. ASSUME NEW a \in Callers, StopCall(a) PROVE StopInv'
  <2>1. /\ CallUses(a) /\ call[a].on \in Runs /\ call'[a].on = call[a].on
        /\ \A b \in Callers : b # a => call'[b] = call[b]
        /\ RequestStop(a) => call'[a].pc = "waiting"
        /\ SeeStopped(a) \/ EndWait(a) => call[a].pc = "waiting"
        /\ Close(a) => call'[a].pc = "notifying"
        /\ Finish(a) => call'[a].pc = "idle"
    BY <1>1, StopCallFacts DEF TypeInv
  <2>2. /\ rpc' = rpc /\ running' \in {running, FALSE}
        /\ stopReq' = IF RequestStop(a) THEN [stopReq EXCEPT ![call[a].on] = TRUE] ELSE stopReq
    BY <1>1 DEF StopCall, RequestStop, SeeStopped, EndWait, Close, Finish, listenerVars
  <2>3. /\ \A s \in Runs : stopReq[s] => stopReq'[s]
        /\ \A s \in Runs : s # call[a].on => stopReq'[s] = stopReq[s]
        /\ RequestStop(a) => stopReq'[call[a].on]
    BY <2>1, <2>2 DEF TypeInv, TypeOK
  <2>4. \A b \in Callers : CallUses(b)' => CallUses(b) /\ call'[b].on = call[b].on
    BY <2>1 DEF CallUses
  <2>5. \A b \in Callers : call'[b].pc \in {"waiting", "closing"} => stopReq'[call'[b].on]
    <3>1. call'[a].pc \in {"waiting", "closing"} => stopReq'[call[a].on]
      BY <1>1, <2>1, <2>3 DEF StopInv, StopCall
    <3> QED
      BY <1>0, <2>1, <2>3, <3>1 DEF StopInv, CallUses
  <2>6. \A r \in Runs : rpc'[r] \in {"setup", "eui", "failed"} => ~stopReq'[r]
    BY <2>1, <2>2, <2>3 DEF StopInv, Past
  <2>7. running' => \E r \in Runs : rpc'[r] = "listening"
    BY <2>2 DEF StopInv
  <2>8. \A b \in Callers : CallUses(b)' => rpc'[call'[b].on] \in Past
    BY <2>2, <2>4 DEF StopInv
  <2> QED
    BY <2>5, <2>6, <2>7, <2>8 DEF StopInv
<1>2. CASE UserStop \/ \E r \in Runs : ReportFailure(r) \/ FetchFails(r)
  <2>0. UNCHANGED <<running, stopReq>>
    BY <1>2, EnterPast
  <2>1. PICK a \in Callers, h \in Runs :
          /\ Enter(a, h) /\ rpc'[h] \in Past
          /\ \/ UNCHANGED rpc
             \/ /\ rpc[h] = "failed" /\ rpc'[h] = "reported"
                /\ \A s \in Runs : s # h => rpc'[s] = rpc[s]
    BY <1>2, EnterPast
  <2>2. /\ \A b \in Callers : b # a => call'[b] = call[b]
        /\ call'[a].pc \in {"idle", "tested"} /\ call'[a].on = h
    BY <2>1, EnterFacts DEF TypeInv
  <2>3. \A s \in Runs : rpc[s] \in Past => rpc'[s] \in Past
    BY <2>1 DEF Past
  <2>4. \A b \in Callers : CallUses(b)' => rpc'[call'[b].on] \in Past
    BY <1>0, <2>1, <2>2, <2>3 DEF StopInv, CallUses
  <2>5. \A b \in Callers : call'[b].pc \in {"waiting", "closing"} => stopReq'[call'[b].on]
    BY <2>0, <2>2 DEF StopInv
  <2>6. /\ running' => \E r \in Runs : rpc'[r] = "listening"
        /\ \A r \in Runs : rpc'[r] \in {"setup", "eui", "failed"} => ~stopReq'[r]
    BY <2>0, <2>1 DEF StopInv
  <2> QED
    BY <2>4, <2>5, <2>6 DEF StopInv
<1>3. ASSUME NEW r \in Runs, UNCHANGED call,
             \/ UserStart(r) \/ Create(r) \/ Listen(r) \/ ResetStop(r) \/ StartFails(r)
             \/ StartHal(r) \/ SpawnUpstream(r) \/ ReportStarted(r) \/ Leave(r)
             \/ Delete(r) \/ Forget(r)
      PROVE  StopInv'
  <2>1. /\ \A s \in Runs : s # r => rpc'[s] = rpc[s] /\ stopReq'[s] = stopReq[s]
        /\ rpc[r] \in Past => rpc'[r] \in Past /\ stopReq'[r] = stopReq[r]
        /\ rpc'[r] = "setup" => ~stopReq'[r]
        /\ rpc'[r] \in {"eui", "failed"} =>
             rpc[r] \in {"setup", "eui"} /\ stopReq'[r] = stopReq[r]
        /\ rpc[r] = "listening" => ~running'
        /\ running' => running \/ rpc'[r] = "listening"
    BY <1>3, RunFlags
  <2>2. \A a \in Callers : CallUses(a)' => CallUses(a) /\ call'[a] = call[a]
    BY <1>3 DEF CallUses
  <2>3. \A a \in Callers : CallUses(a)' => rpc'[call'[a].on] \in Past
    BY <1>0, <2>1, <2>2 DEF StopInv
  <2>4. \A a \in Callers : call'[a].pc \in {"waiting", "closing"} => stopReq'[call'[a].on]
    BY <1>0, <1>3, <2>1 DEF StopInv, CallUses
  <2>5. /\ running' => \E s \in Runs : rpc'[s] = "listening"
        /\ \A s \in Runs : rpc'[s] \in {"setup", "eui", "failed"} => ~stopReq'[s]
    BY <2>1 DEF StopInv
  <2> QED
    BY <2>3, <2>4, <2>5 DEF StopInv
<1>4. CASE UNCHANGED vars \/ \E r \in Runs : TestStop(r) \/ Fetch(r) \/ EndThread(r)
  <2>1. running' = running /\ stopReq' = stopReq /\ rpc' = rpc /\ call' = call
    BY <1>4 DEF vars, TestStop, Fetch, EndThread, listenerVars
  <2>2. \A a \in Callers : CallUses(a)' => CallUses(a)
    BY <2>1 DEF CallUses
  <2> QED
    BY <2>1, <2>2 DEF StopInv
<1>5. CASE Crash
  BY <1>5 DEF Crash, NoCall, StopInv, CallUses
<1> QED
  BY <1>1, <1>2, <1>3, <1>4, <1>5, StepCases

LEMMA NextHalInv ==
  PATIENT /\ TypeInv /\ OneRun /\ StopInv /\ HalInv /\ [Next]_vars => HalInv'
<1> SUFFICES ASSUME PATIENT, TypeInv, OneRun, StopInv, HalInv, [Next]_vars PROVE HalInv'
  OBVIOUS
<1>1. ASSUME NEW a \in Callers, StopCall(a) PROVE HalInv'
  <2>1. /\ \A b \in Callers : b # a => call'[b] = call[b]
        /\ RequestStop(a) => call'[a].pc = "waiting"
        /\ SeeStopped(a)  => call'[a].pc = "waiting"
        /\ EndWait(a)     => call'[a].pc = "closing"
        /\ Finish(a)      => call[a].pc = "notifying"
    BY <1>1, StopCallFacts DEF TypeInv
  <2>2. CASE Close(a)
    BY <2>2 DEF Close, HalInv
  <2>3. CASE RequestStop(a) \/ SeeStopped(a) \/ EndWait(a)
    BY <2>1, <2>3 DEF HalInv
  <2>4. CASE Finish(a)
    BY <2>1, <2>4 DEF Finish, HalInv, listenerVars
  <2> QED
    BY <1>1, <2>2, <2>3, <2>4 DEF StopCall
<1>2. CASE UserStop \/ \E r \in Runs : ReportFailure(r) \/ FetchFails(r)
  <2>0. UNCHANGED <<hal, stopReq, flag>>
    BY <1>2, EnterPast
  <2>1. PICK a \in Callers, h \in Runs :
          /\ Enter(a, h) /\ ~CallUses(a)
          /\ \/ UNCHANGED rpc
             \/ /\ rpc[h] = "failed" /\ rpc'[h] = "reported"
                /\ \A s \in Runs : s # h => rpc'[s] = rpc[s]
    BY <1>2, EnterPast
  <2>2. /\ \A b \in Callers : b # a => call'[b] = call[b]
        /\ ~stopReq[h] => call'[a].pc = "tested"
    BY <2>1, EnterFacts DEF TypeInv
  <2>3. CASE UNCHANGED rpc
    BY <2>0, <2>1, <2>2, <2>3 DEF HalInv, CallUses
  <2>4. CASE rpc[h] = "failed"
    BY <2>0, <2>1, <2>2, <2>4 DEF HalInv, StopInv
  <2> QED
    BY <2>1, <2>3, <2>4
<1>3. ASSUME NEW r \in Runs, UNCHANGED call,
             \/ UserStart(r) \/ Create(r) \/ Listen(r) \/ ResetStop(r) \/ StartFails(r)
             \/ StartHal(r) \/ SpawnUpstream(r) \/ ReportStarted(r) \/ Leave(r)
             \/ Delete(r) \/ Forget(r)
      PROVE  HalInv'
  <2>1. \A s \in Runs : s # r => /\ rpc'[s] = rpc[s] /\ stopReq'[s] = stopReq[s]
                                 /\ flag'[s] = flag[s]
    BY <1>3, RunFlags
  <2>2. rpc[r] \in Owning \ {"created"} => lst[r] = r
    BY DEF OneRun
  <2>3. CASE StartFails(r) \/ StartHal(r)
    BY <2>3 DEF StartFails, StartHal, HalInv, TypeInv, TypeOK
  <2>4. CASE SpawnUpstream(r)
    BY <2>2, <2>4 DEF SpawnUpstream, HalInv, StopInv, Owning, TypeInv, TypeOK
  <2>5. CASE ReportStarted(r)
    BY <1>3, <2>1, <2>5 DEF ReportStarted, listenerVars, HalInv, TypeInv, TypeOK
  <2>6. CASE Leave(r)
    <3>1. rpc[r] = "listening" /\ ~flag[r] /\ hal' = hal
      BY <2>2, <2>6 DEF Leave, Owning
    <3> QED
      BY <1>3, <2>1, <3>1 DEF HalInv
  <2>7. CASE UserStart(r) \/ Create(r) \/ Listen(r) \/ ResetStop(r) \/ Delete(r) \/ Forget(r)
    <3>1. /\ rpc[r] \notin {"eui", "failed", "started", "listening"} /\ hal' = hal
      BY <2>7 DEF UserStart, Create, Listen, ResetStop, Delete, Forget
    <3> QED
      BY <1>3, <2>1, <3>1 DEF HalInv
  <2> QED
    BY <1>3, <2>3, <2>4, <2>5, <2>6, <2>7
<1>4. ASSUME NEW r \in Runs, TestStop(r) \/ Fetch(r) \/ EndThread(r) PROVE HalInv'
  <2>1. /\ UNCHANGED <<hal, rpc, stopReq, call>>
        /\ \A s \in Runs : ~stopReq[s] => flag'[s] = flag[s]
    BY <1>4 DEF TestStop, Fetch, EndThread, listenerVars, TypeInv, TypeOK
  <2> QED
    BY <2>1 DEF HalInv
<1>5. CASE Crash \/ UNCHANGED vars
  BY <1>5 DEF Crash, vars, HalInv
<1> QED
  BY <1>1, <1>2, <1>3, <1>4, <1>5, StepCases

LEMMA InitPatient == Init => StopInv /\ HalInv
BY DEF Init, NoCall, StopInv, HalInv, CallUses

PatientInv == TypeInv /\ OneRun /\ StopInv /\ HalInv

\* A patient user: when every thread and every call has ended, the concentrator
\* is off, the service does not run, and no handler is left.
THEOREM EndIsClean == ASSUME PATIENT PROVE Spec => []CleanEnd
<1>1. Init => PatientInv
  BY InitTypeInv, InitOneRun, InitPatient DEF PatientInv
<1>2. PatientInv /\ [Next]_vars => PatientInv'
  BY NextTypeInv, NextOneRun, NextStopInv, NextHalInv DEF PatientInv
<1>3. PatientInv => CleanEnd
  BY DEF PatientInv, OneRun, StopInv, HalInv, CleanEnd, CallUses
<1> QED
  BY <1>1, <1>2, <1>3, PTL DEF Spec

-----------------------------------------------------------------------------
\* And no turn of the upstream thread outlasts the wait of stop().
LEMMA NextLoopInv ==
  PATIENT /\ ~SLOW /\ PatientInv /\ LoopInv /\ [Next]_vars => LoopInv'
<1> SUFFICES ASSUME PATIENT, ~SLOW, TypeInv, OneRun, StopInv, LoopInv, [Next]_vars
             PROVE  LoopInv'
  BY DEF PatientInv
<1>0. /\ \A a \in Callers : CallUses(a) => call[a].on \in Runs
      /\ \A r \in Runs : LoopUses(r) => lst[r] = r
  BY RunFacts DEF TypeInv, TypeOK, OneRun, ThreadIn, LoopUses
<1>1. ASSUME NEW a \in Callers, StopCall(a) PROVE LoopInv'
  <2>1. /\ CallUses(a) /\ call[a].on \in Runs /\ call'[a].on = call[a].on
        /\ \A b \in Callers : b # a => call'[b] = call[b]
        /\ UNCHANGED <<rpc, up>>
    BY <1>1, StopCallFacts
    DEF TypeInv, StopCall, RequestStop, SeeStopped, EndWait, Close, Finish
  <2>2. CASE RequestStop(a) \/ SeeStopped(a) \/ Finish(a)
    <3>1. call'[a].pc # "closing" /\ flag' = flag
      BY <1>1, <2>2, StopCallFacts
      DEF TypeInv, RequestStop, SeeStopped, Finish, listenerVars
    <3> QED
      BY <2>1, <3>1 DEF LoopInv, LoopUses
  <2>3. CASE EndWait(a)
    <3>1. ~LoopUses(call[a].on)
      BY <1>0, <2>1, <2>3 DEF EndWait, Leaving, Served, LoopUses, StopInv, LoopInv
    <3>2. flag' = flag
      BY <2>3 DEF EndWait, listenerVars
    <3> QED
      BY <2>1, <3>1, <3>2 DEF LoopInv, LoopUses
  <2>4. CASE Close(a)
    <3>1. ~LoopUses(call[a].on) /\ call'[a].pc = "notifying"
      BY <1>1, <2>4, StopCallFacts DEF LoopInv, TypeInv
    <3>2. \A r \in Runs : r # call[a].on => flag'[r] = flag[r]
      BY <2>4 DEF Close, TypeInv, TypeOK
    <3> QED
      BY <2>1, <3>1, <3>2 DEF LoopInv, LoopUses
  <2> QED
    BY <1>1, <2>2, <2>3, <2>4 DEF StopCall
<1>2. CASE UserStop \/ \E r \in Runs : ReportFailure(r) \/ FetchFails(r)
  <2>1. PICK a \in Callers, h \in Runs :
          /\ Enter(a, h)
          /\ \/ UNCHANGED rpc
             \/ /\ rpc[h] = "failed" /\ rpc'[h] = "reported"
                /\ \A s \in Runs : s # h => rpc'[s] = rpc[s]
    BY <1>2, EnterPast
  <2>2. /\ flag' = flag /\ \A b \in Callers : b # a => call'[b] = call[b]
        /\ call'[a].pc # "closing"
    BY <1>2, <2>1, EnterPast, EnterFacts DEF TypeInv
  <2>3. \A r \in Runs : LoopUses(r)' => LoopUses(r)
    BY <1>2 DEF UserStop, ReportFailure, FetchFails, LoopUses, TypeInv, TypeOK
  <2>4. \A r \in Runs : rpc[r] \in {"started", "listening"} => rpc'[r] = rpc[r]
    BY <2>1
  <2>5. \A r \in Runs : LoopUses(r)' => rpc'[r] \in {"started", "listening"} /\ flag'[r]
    BY <2>2, <2>3, <2>4 DEF LoopInv
  <2>6. \A b \in Callers : call'[b].pc = "closing" => up'[call'[b].on] \notin {"testing", "fetching"}
    BY <1>0, <2>2, <2>3 DEF LoopInv, CallUses, LoopUses
  <2> QED
    BY <2>5, <2>6 DEF LoopInv, LoopUses
<1>3. ASSUME NEW r \in Runs, UNCHANGED call,
             \/ UserStart(r) \/ Create(r) \/ Listen(r) \/ ResetStop(r) \/ StartFails(r)
             \/ StartHal(r) \/ SpawnUpstream(r) \/ ReportStarted(r) \/ Leave(r)
             \/ Delete(r) \/ Forget(r)
      PROVE  LoopInv'
  <2>1. \A s \in Runs : s # r => rpc'[s] = rpc[s] /\ flag'[s] = flag[s]
    BY <1>3, RunFlags
  <2>2. rpc[r] \in Owning \ {"created"} => lst[r] = r
    BY DEF OneRun
  <2>3. CASE SpawnUpstream(r)
    <3>1. /\ lst[r] = r /\ rpc[r] = "eui" /\ rpc'[r] = "started" /\ flag'[r]
          /\ \A s \in Runs : s # r => up'[s] = up[s]
      BY <2>2, <2>3 DEF SpawnUpstream, Owning, TypeInv, TypeOK
    <3>2. \A a \in Callers : CallUses(a) => call[a].on # r
      BY <3>1 DEF StopInv, Past
    <3> QED
      BY <1>0, <1>3, <2>1, <3>1, <3>2 DEF LoopInv, LoopUses, CallUses
  <2>4. CASE ~SpawnUpstream(r)
    <3>1. up' = up /\ (flag' = flag)
      BY <1>3, <2>4 DEF UserStart, Create, Listen, ResetStop, StartFails, StartHal,
                        ReportStarted, Leave, Delete, Forget, listenerVars
    <3>2. LoopUses(r) => rpc'[r] \in {"started", "listening"}
      <4>1. LoopUses(r) => rpc[r] \in {"started", "listening"} /\ flag[r] /\ lst[r] = r
        BY <1>0 DEF LoopInv
      <4>2. CASE ReportStarted(r)
        BY <4>2 DEF ReportStarted, TypeInv, TypeOK
      <4>3. CASE Leave(r)
        BY <4>1, <4>3 DEF Leave
      <4>4. CASE ~ReportStarted(r) /\ ~Leave(r)
        <5>1. rpc[r] \notin {"started", "listening"}
          BY <1>3, <2>4, <4>4 DEF UserStart, Create, Listen, ResetStop, StartFails, StartHal,
                                  Delete, Forget
        <5> QED
          BY <4>1, <5>1
      <4> QED
        BY <4>2, <4>3, <4>4
    <3> QED
      BY <1>3, <2>1, <3>1, <3>2 DEF LoopInv, LoopUses
  <2> QED
    BY <2>3, <2>4
<1>4. ASSUME NEW r \in Runs, TestStop(r) \/ Fetch(r) \/ EndThread(r) PROVE LoopInv'
  <2>1. /\ UNCHANGED <<rpc, call>> /\ ThreadIn(r)
        /\ \A s \in Runs : s # r => up'[s] = up[s]
    BY <1>4 DEF TestStop, Fetch, EndThread, ThreadIn, TypeInv, TypeOK
  <2>2. lst[r] = r
    BY <2>1 DEF OneRun
  <2>3. /\ \A s \in Runs : s # r => flag'[s] = flag[s]
        /\ LoopUses(r)' => LoopUses(r) /\ flag'[r] = flag[r]
    BY <1>4, <2>2
    DEF TestStop, Fetch, EndThread, Served, listenerVars, LoopUses, TypeInv, TypeOK
  <2>4. \A s \in Runs : LoopUses(s)' => LoopUses(s) /\ flag'[s] = flag[s]
    BY <2>1, <2>3 DEF LoopUses
  <2>5. \A s \in Runs : LoopUses(s)' => rpc'[s] \in {"started", "listening"} /\ flag'[s]
    BY <2>1, <2>4 DEF LoopInv
  <2>6. \A b \in Callers : call'[b].pc = "closing" => up'[call'[b].on] \notin {"testing", "fetching"}
    BY <1>0, <2>1, <2>4 DEF LoopInv, CallUses, LoopUses
  <2> QED
    BY <2>5, <2>6 DEF LoopInv, LoopUses
<1>5. CASE Crash
  BY <1>5 DEF Crash, NoCall, LoopInv, LoopUses
<1>6. CASE UNCHANGED vars
  BY <1>6 DEF vars, LoopInv, LoopUses
<1> QED
  BY <1>1, <1>2, <1>3, <1>4, <1>5, <1>6, StepCases

LEMMA InitLoopInv == Init => LoopInv
BY DEF Init, NoCall, LoopInv, LoopUses

PromptInv == PatientInv /\ LoopInv

LEMMA PromptInvHolds == ASSUME PATIENT, ~SLOW PROVE Spec => []PromptInv
<1>1. Init => PromptInv
  BY InitTypeInv, InitOneRun, InitPatient, InitLoopInv DEF PatientInv, PromptInv
<1>2. PromptInv /\ [Next]_vars => PromptInv'
  BY NextTypeInv, NextOneRun, NextStopInv, NextHalInv, NextLoopInv
  DEF PatientInv, PromptInv
<1> QED
  BY <1>1, <1>2, PTL DEF Spec

\* A patient user and prompt turns: the receive loop of an upstream thread never
\* works on a listener that run() has deleted, since listen() does not return
\* while the flag of a loop is set and nothing clears it under the loop.
THEOREM LoopKeepsHandler == ASSUME PATIENT, ~SLOW PROVE Spec => []LoopHasHandler
<1>1. PromptInv => LoopHasHandler
  BY DEF PromptInv, PatientInv, OneRun, LoopInv, LoopHasHandler, LoopUses, ThreadIn,
         Owning, Served
<1> QED
  BY <1>1, PromptInvHolds, PTL

\* A patient user and prompt turns: the concentrator has one receive loop at
\* most, also when the gateway is started again after a stop.
THEOREM ReceiverAlone == ASSUME PATIENT, ~SLOW PROVE Spec => []OneReceiver
<1>1. PromptInv => OneReceiver
  BY DEF PromptInv, PatientInv, OneRun, LoopInv, OneReceiver, Active
<1> QED
  BY <1>1, PromptInvHolds, PTL
=============================================================================
