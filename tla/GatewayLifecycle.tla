-------------------------- MODULE GatewayLifecycle --------------------------
(***************************************************************************)
(* Starting and stopping the gateway. Each JNI start() spawns a run()      *)
(* thread, which creates a handler, keeps it in the global listenerHandler *)
(* and listens on it; start() of the listener spawns the upstream thread;  *)
(* stop() is called by the user interface, by an upstream thread that      *)
(* cannot fetch, or by a run() thread through the Java callback of its     *)
(* error message. Handlers are numbered by the run that creates them.      *)
(*                                                                         *)
(* A step on a handler that has been deleted is undefined behaviour. It is *)
(* modelled by its two usual outcomes: the memory still holds what it held *)
(* and the step goes on, or the process dies (Crash).                      *)
(***************************************************************************)
EXTENDS Naturals, FiniteSets

CONSTANTS
  RUNS,     \* bound: how many times the gateway is started
  PATIENT,  \* the user starts when no run is left and stops what has started
  SLOW      \* the upstream thread may take more than DEF_WAIT_SECONDS a turn

ASSUME LifecycleAssumption ==
  RUNS \in Nat \ {0} /\ PATIENT \in BOOLEAN /\ SLOW \in BOOLEAN

VARIABLES
  current,  \* the global listenerHandler, 0 when null
  alive,    \* the handlers created and not deleted
  running,  \* LGWService.running
  hal,      \* the concentrator is started
  stopReq,  \* stopRequest of each handler's listener
  flag,     \* upstreamThreadRunning of each handler's listener
  rpc,      \* where each run() thread is
  lst,      \* the handler whose listen() each run() thread has called
  up,       \* where the upstream thread spawned by each run is
  call      \* the call of stop() each caller is in

vars == <<current, alive, running, hal, stopReq, flag, rpc, lst, up, call>>
globals == <<current, alive>>
listenerVars == <<stopReq, flag>>

Runs == 1..RUNS
UI == <<"ui", 0>>
UpOf(r) == <<"up", r>>
RunOf(r) == <<"run", r>>
Callers == {UI} \cup {UpOf(r) : r \in Runs} \cup {RunOf(r) : r \in Runs}

NoCall == [pc |-> "idle", on |-> 0, ok |-> FALSE]

\* The handler of the upstream thread spawned by run r.
Served(r) == lst[r]

Init ==
  /\ current = 0 /\ alive = {}
  /\ running = FALSE /\ hal = FALSE
  /\ stopReq = [h \in Runs |-> FALSE] /\ flag = [h \in Runs |-> FALSE]
  /\ rpc = [r \in Runs |-> "none"] /\ lst = [r \in Runs |-> 0]
  /\ up = [r \in Runs |-> "none"]
  /\ call = [a \in Callers |-> NoCall]

-----------------------------------------------------------------------------
\* Mutant of Enter: the caller's listener is not noted.
EnterNowhere(a, h) ==
  call' = [call EXCEPT ![a].pc = IF stopReq[h] THEN "idle" ELSE "tested",
                       ![a].ok = FALSE]

\* LoraGatewayListener::stop(). Entering it tests stopRequest; a second call
\* returns here and is no step of the call.
Enter(a, h) ==
  call' = [call EXCEPT ![a].pc = IF stopReq[h] THEN "idle" ELSE "tested",
                       ![a].on = h, ![a].ok = FALSE]

RequestStop(a) ==
  /\ call[a].pc = "tested"
  /\ call' = [call EXCEPT ![a].pc = "waiting"]
  /\ stopReq' = [stopReq EXCEPT ![call[a].on] = TRUE]
  /\ UNCHANGED <<globals, running, hal, flag, rpc, lst, up>>

\* An iteration of the wait finds isStopped(); the loop goes on all the same.
SeeStopped(a) ==
  /\ call[a].pc = "waiting" /\ ~flag[call[a].on] /\ ~call[a].ok
  /\ call' = [call EXCEPT ![a].ok = TRUE]
  /\ UNCHANGED <<globals, running, hal, listenerVars, rpc, lst, up>>

\* Mutant of EndWait: the wait does not depend on the flag.
EndWaitAtOnce(a) ==
  /\ call[a].pc = "waiting"
  /\ call' = [call EXCEPT ![a].pc = "closing"]
  /\ UNCHANGED <<globals, running, hal, listenerVars, rpc, lst, up>>

\* An upstream thread of h will clear its flag before the wait is over.
Leaving(h) ==
  /\ ~SLOW /\ stopReq[h]
  /\ \E r \in Runs : Served(r) = h /\ up[r] \in {"testing", "fetching"}

\* The wait is over, at once when nothing runs, after DEF_WAIT_SECONDS else.
EndWait(a) ==
  /\ call[a].pc = "waiting"
  /\ IF flag[call[a].on] THEN ~Leaving(call[a].on) ELSE call[a].ok
  /\ call' = [call EXCEPT ![a].pc = "closing"]
  /\ UNCHANGED <<globals, running, hal, listenerVars, rpc, lst, up>>

\* Mutants of Close: lgw_stop() only after a graceful wait; no forced
\* clearing of the flags.
CloseIfGraceful(a) ==
  /\ call[a].pc = "closing"
  /\ call' = [call EXCEPT ![a].pc = "notifying"]
  /\ hal' = (hal /\ ~call[a].ok)
  /\ flag' = [flag EXCEPT ![call[a].on] = FALSE]
  /\ UNCHANGED <<globals, running, stopReq, rpc, lst, up>>

CloseKeepsFlags(a) ==
  /\ call[a].pc = "closing"
  /\ \E good \in BOOLEAN :
       call' = [call EXCEPT ![a].pc = "notifying", ![a].ok = @ /\ good]
  /\ hal' = FALSE
  /\ UNCHANGED <<globals, running, listenerVars, rpc, lst, up>>

\* lgw_stop(), then the flags are cleared by force.
Close(a) ==
  /\ call[a].pc = "closing"
  /\ \E good \in BOOLEAN :
       call' = [call EXCEPT ![a].pc = "notifying", ![a].ok = @ /\ good]
  /\ hal' = FALSE
  /\ flag' = [flag EXCEPT ![call[a].on] = FALSE]
  /\ UNCHANGED <<globals, running, stopReq, rpc, lst, up>>

\* onStop waits for the threads again when the stop was not graceful; then
\* onFinished() clears the service's running, and the call returns.
Finish(a) ==
  /\ call[a].pc = "notifying" /\ (call[a].ok \/ ~flag[call[a].on])
  /\ call' = [call EXCEPT ![a].pc = "idle"]
  /\ running' = FALSE
  /\ UNCHANGED <<globals, hal, listenerVars, rpc, lst, up>>

StopCall(a) ==
  RequestStop(a) \/ SeeStopped(a) \/ EndWait(a) \/ Close(a) \/ Finish(a)

-----------------------------------------------------------------------------
\* The user interface. startLGW() does nothing while the service is running.
UserStart(r) ==
  /\ call[UI].pc = "idle" /\ ~running
  /\ rpc[r] = "none" /\ \A s \in 1..(r - 1) : rpc[s] # "none"
  /\ PATIENT => \A s \in Runs : rpc[s] \in {"none", "done"}
  /\ rpc' = [rpc EXCEPT ![r] = "spawned"]
  /\ UNCHANGED <<globals, running, hal, listenerVars, lst, up, call>>

\* JNI stop(), on the handler of the moment; without one it returns.
UserStop ==
  /\ call[UI].pc = "idle" /\ current # 0
  /\ PATIENT => running
  /\ Enter(UI, current)
  /\ UNCHANGED <<globals, running, hal, listenerVars, rpc, lst, up>>

-----------------------------------------------------------------------------
\* run(): the handler's constructor resets stopRequest.
Create(r) ==
  /\ rpc[r] = "spawned"
  /\ rpc' = [rpc EXCEPT ![r] = "created"]
  /\ current' = r /\ alive' = alive \cup {r}
  /\ stopReq' = [stopReq EXCEPT ![r] = FALSE]
  /\ UNCHANGED <<running, hal, flag, lst, up, call>>

\* listen() is called on the handler that the global names now.
Listen(r) ==
  /\ rpc[r] = "created" /\ current # 0
  /\ rpc' = [rpc EXCEPT ![r] = "listen"]
  /\ lst' = [lst EXCEPT ![r] = current]
  /\ UNCHANGED <<globals, running, hal, listenerVars, up, call>>

\* start() of the listener resets stopRequest, whoever has set it.
ResetStop(r) ==
  /\ rpc[r] = "listen"
  /\ rpc' = [rpc EXCEPT ![r] = "setup"]
  /\ stopReq' = [stopReq EXCEPT ![lst[r]] = FALSE]
  /\ UNCHANGED <<globals, running, hal, flag, lst, up, call>>

\* setup() or lgw_start() fails, or lgw_get_eui() after lgw_start().
StartFails(r) ==
  /\ rpc[r] \in {"setup", "eui"}
  /\ rpc' = [rpc EXCEPT ![r] = "failed"]
  /\ UNCHANGED <<globals, running, hal, listenerVars, lst, up, call>>

StartHal(r) ==
  /\ rpc[r] = "setup"
  /\ rpc' = [rpc EXCEPT ![r] = "eui"] /\ hal' = TRUE
  /\ UNCHANGED <<globals, running, listenerVars, lst, up, call>>

\* The flag is set by the starting thread, unless a thread already runs.
SpawnUpstream(r) ==
  /\ rpc[r] = "eui"
  /\ rpc' = [rpc EXCEPT ![r] = "started"]
  /\ up' = IF flag[lst[r]] THEN up ELSE [up EXCEPT ![r] = "testing"]
  /\ flag' = [flag EXCEPT ![lst[r]] = TRUE]
  /\ UNCHANGED <<globals, running, hal, stopReq, lst, call>>

\* onStarted() sets the service's running.
ReportStarted(r) ==
  /\ rpc[r] = "started"
  /\ rpc' = [rpc EXCEPT ![r] = "listening"] /\ running' = TRUE
  /\ UNCHANGED <<globals, hal, listenerVars, lst, up, call>>

\* Mutant of Leave: listen() does not wait.
LeaveAtOnce(r) ==
  /\ rpc[r] = "listening"
  /\ rpc' = [rpc EXCEPT ![r] = "deleting"] /\ running' = FALSE
  /\ UNCHANGED <<globals, hal, listenerVars, lst, up, call>>

\* listen() returns when isStopped(), and onFinished() is called.
Leave(r) ==
  /\ rpc[r] = "listening" /\ ~flag[lst[r]]
  /\ rpc' = [rpc EXCEPT ![r] = "deleting"] /\ running' = FALSE
  /\ UNCHANGED <<globals, hal, listenerVars, lst, up, call>>

\* After a failed start the Java callback of the message "Error ..." calls
\* stopGateway() in this thread.
ReportFailure(r) ==
  /\ rpc[r] = "failed"
  /\ rpc' = [rpc EXCEPT ![r] = "reported"]
  /\ IF current = 0 THEN UNCHANGED call ELSE Enter(RunOf(r), current)
  /\ UNCHANGED <<globals, running, hal, listenerVars, lst, up>>

\* run() deletes what the global names now.
Delete(r) ==
  /\ rpc[r] = "deleting" \/ (rpc[r] = "reported" /\ call[RunOf(r)].pc = "idle")
  /\ rpc' = [rpc EXCEPT ![r] = "deleted"]
  /\ alive' = alive \ {current}
  /\ UNCHANGED <<current, running, hal, listenerVars, lst, up, call>>

Forget(r) ==
  /\ rpc[r] = "deleted"
  /\ rpc' = [rpc EXCEPT ![r] = "done"] /\ current' = 0
  /\ UNCHANGED <<alive, running, hal, listenerVars, lst, up, call>>

Run(r) ==
  \/ Create(r) \/ Listen(r) \/ ResetStop(r)
  \/ StartFails(r) \/ StartHal(r) \/ SpawnUpstream(r) \/ ReportStarted(r)
  \/ Leave(r) \/ ReportFailure(r) \/ Delete(r) \/ Forget(r)

-----------------------------------------------------------------------------
\* upstreamRunner(): the loop's test; a stop clears the flag first.
TestStop(r) ==
  /\ up[r] = "testing"
  /\ up' = [up EXCEPT ![r] = IF stopReq[Served(r)] THEN "ending" ELSE "fetching"]
  /\ flag' = [flag EXCEPT ![Served(r)] = @ /\ ~stopReq[Served(r)]]
  /\ UNCHANGED <<globals, running, hal, stopReq, rpc, lst, call>>

\* A batch, possibly empty, is fetched and handled.
Fetch(r) ==
  /\ up[r] = "fetching"
  /\ up' = [up EXCEPT ![r] = "testing"]
  /\ UNCHANGED <<globals, running, hal, listenerVars, rpc, lst, call>>

\* On a fetch error the thread calls stop() itself, and leaves its flag alone.
FetchFails(r) ==
  /\ up[r] = "fetching"
  /\ up' = [up EXCEPT ![r] = "stopping"]
  /\ Enter(UpOf(r), Served(r))
  /\ UNCHANGED <<globals, running, hal, listenerVars, rpc, lst>>

\* After the loop the thread still reads threadStartFinish; after stop() it
\* returns.
EndThread(r) ==
  /\ up[r] = "ending" \/ (up[r] = "stopping" /\ call[UpOf(r)].pc = "idle")
  /\ up' = [up EXCEPT ![r] = "done"]
  /\ UNCHANGED <<globals, running, hal, listenerVars, rpc, lst, call>>

Upstream(r) == TestStop(r) \/ Fetch(r) \/ FetchFails(r) \/ EndThread(r)

-----------------------------------------------------------------------------
\* Who is using which handler.
LoopUses(r) == up[r] \in {"testing", "fetching"}
ThreadUses(r) == LoopUses(r) \/ up[r] = "ending"
CallUses(a) == call[a].pc # "idle"
ListenUses(r) == rpc[r] \in {"listen", "setup", "eui", "started", "listening"}
GlobalUses(r) == rpc[r] \in {"created", "failed"}

\* A thread whose next step is on a handler that is gone.
Stray ==
  \/ \E r \in Runs : ThreadUses(r) /\ Served(r) \notin alive
  \/ \E a \in Callers : CallUses(a) /\ call[a].on \notin alive
  \/ \E r \in Runs : ListenUses(r) /\ lst[r] \notin alive
  \/ \E r \in Runs : GlobalUses(r) /\ current \notin alive
  \/ \E r \in Runs : /\ rpc[r] = "deleting"
                     /\ current \notin alive \cup {0}

\* The process dies with its threads, and is not started again.
Crash ==
  /\ Stray
  /\ current' = 0 /\ alive' = {} /\ running' = FALSE /\ hal' = FALSE
  /\ rpc' = [r \in Runs |-> "done"] /\ up' = [r \in Runs |-> "done"]
  /\ call' = [a \in Callers |-> NoCall]
  /\ UNCHANGED <<listenerVars, lst>>

Next ==
  \/ \E r \in Runs : UserStart(r) \/ Run(r) \/ Upstream(r)
  \/ UserStop
  \/ \E a \in Callers : StopCall(a)
  \/ Crash

Spec == Init /\ [][Next]_vars

\* Threads are scheduled; nothing makes the user act, or memory be reused.
FairSpec ==
  /\ Spec
  /\ \A r \in Runs : WF_vars(Run(r)) /\ WF_vars(Upstream(r))
  /\ \A a \in Callers : WF_vars(StopCall(a))

-----------------------------------------------------------------------------
TypeOK ==
  /\ current \in 0..RUNS /\ alive \subseteq Runs
  /\ running \in BOOLEAN /\ hal \in BOOLEAN
  /\ stopReq \in [Runs -> BOOLEAN] /\ flag \in [Runs -> BOOLEAN]
  /\ rpc \in [Runs -> {"none", "spawned", "created", "listen", "setup", "eui",
                       "started", "listening", "deleting", "deleted", "failed",
                       "reported", "done"}]
  /\ lst \in [Runs -> 0..RUNS]
  /\ up \in [Runs -> {"none", "testing", "fetching", "stopping", "ending", "done"}]
  /\ call \in [Callers ->
       [pc : {"idle", "tested", "waiting", "closing", "notifying"},
        on : 0..RUNS, ok : BOOLEAN]]
  /\ \A a \in Callers : CallUses(a) => call[a].on # 0

\* The receive loop of an upstream thread never works on a listener that a
\* run() thread has deleted: listen() returns when no flag is set, and a flag
\* is cleared at the end of the loop or by a stop() that has waited for it.
LoopHasHandler == \A r \in Runs : LoopUses(r) => Served(r) \in alive

\* Nobody works on a deleted listener: not the threads after their loop, nor
\* a stop() in progress, nor run(). The comment in listen() says that it waits
\* until all threads are stopped.
NobodyStrays == ~Stray

\* The concentrator has one reader: of two receive loops the earlier has ended
\* before the later begins, although a new run resets what stops the old one.
OneReceiver ==
  \A r, s \in Runs : (LoopUses(r) /\ LoopUses(s)) => r = s

\* When every thread and every call has ended, whichever way they ended, the
\* concentrator is off, the service is not running, the global is null and no
\* handler is left.
CleanEnd ==
  (/\ \A r \in Runs : rpc[r] \in {"none", "done"} /\ up[r] \in {"none", "done"}
   /\ \A a \in Callers : ~CallUses(a))
  => ~running /\ ~hal /\ current = 0 /\ alive = {}

\* A stop() that has been accepted, whoever calls it, ends the run it is for:
\* also when the upstream thread waits for itself after a fetch error, or has
\* gone without clearing its flag.
StopEndsRun ==
  \A a \in Callers, r \in Runs :
    (call[a].pc = "waiting" /\ call[a].on = r) ~> rpc[r] = "done"
=============================================================================
