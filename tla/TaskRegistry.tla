---------------------------- MODULE TaskRegistry ----------------------------
(***************************************************************************)
(* The in-memory task registry of the quant service (apps/quant/app/       *)
(* tasks.py) with the callers the HTTP API (apps/quant/app/api.py) gives   *)
(* it.  Two kinds of thread touch the registry:                            *)
(*   - the event loop, which runs the async endpoints (admission check,    *)
(*     create) and the background executor coroutines (start, finish);     *)
(*   - the threads of FastAPI's pool, which run the endpoints declared     *)
(*     with a plain "def": poll and cancel.                                *)
(* A registry method is a sequence of steps; nothing locks the registry,   *)
(* so the steps of two threads interleave.  A step reads or writes one     *)
(* field, or walks the dict once; reads and writes that no step of another *)
(* thread can tell apart are one step.  (The docstring of tasks.py takes   *)
(* the methods to be serial because they never await; the pool's threads   *)
(* do not wait for that.)                                                  *)
(*                                                                         *)
(* Time is abstracted to one bit per task: "overdue" is the set of tasks   *)
(* whose clock (created_at until finished_at is written, finished_at from  *)
(* then on) has passed its TTL.                                            *)
(***************************************************************************)
EXTENDS FiniteSets, Naturals

CONSTANTS Tasks,        \* the task ids uuid4 can hand out
          AITasks,      \* those of POST /api/ai/generate and /api/ai/tweak
          Clients,      \* threads of the pool running a poll or a cancel
          Loop,         \* the event loop's thread
          NoTask,
          MaxActive,    \* MAX_ACTIVE_TASKS
          MaxAdmitted   \* bound of the model on requests in their prefetch

ASSUME RegistryAssumption ==
  /\ IsFiniteSet(Tasks) /\ AITasks \subseteq Tasks /\ NoTask \notin Tasks
  /\ Loop \notin Clients
  /\ MaxActive \in Nat \ {0} /\ MaxAdmitted \in Nat

Threads == Clients \cup {Loop}

VARIABLES
  present,    \* keys of the dict _tasks
  status,     \* BacktestTask.status; "none" before create
  payload,    \* BacktestTask.result / .error, by what it holds
  finished,   \* finished_at is not None
  overdue,    \* tasks whose TTL clock has run out
  token,      \* BacktestTask.cancel_token: absent, clear or set
  coro,       \* the executor coroutine of the task
  admitted,   \* backtest requests between has_capacity and create
  pc,         \* the next step of each thread
  op,         \* the registry method it is in
  arg,        \* the task that method works on
  size,       \* len(_tasks) when the walk in progress began
  expired,    \* the expired list of _sweep still to delete
  target,     \* the status argument of _finish
  seen        \* the status read into the answer being built

taskVars   == <<present, status, payload, finished, overdue, token>>
coroVars   == <<coro, admitted>>
threadVars == <<pc, op, arg, size, expired, target, seen>>
vars       == <<taskVars, coroVars, threadVars>>

Terminal == {"done", "failed", "cancelled"}           \* TERMINAL_STATUSES
Active   == {"pending", "running"}
Statuses == {"none"} \cup Active \cup Terminal
Payloads == {"none", "result", "error"}

Methods  == {"none", "poll", "cancel", "admit", "create", "start", "finish"}
Steps    == {"idle", "sweepPending", "sweepFail", "sweepFailFields",
             "sweepCollect", "sweepDelete", "count", "markCheck", "markWrite",
             "finishCheck", "finishStatus", "finishFields", "cancelGet",
             "pollGet", "snapshot", "snapshotBody"}

\* The outcome fields that _finish writes with each terminal status.
PayloadOf(s) == CASE s = "done"   -> "result"
                  [] s = "failed" -> "error"
                  [] OTHER        -> "none"

Init ==
  /\ present = {} /\ overdue = {}
  /\ status = [t \in Tasks |-> "none"]
  /\ payload = [t \in Tasks |-> "none"]
  /\ finished = [t \in Tasks |-> FALSE]
  /\ token = [t \in Tasks |-> "absent"]
  /\ coro = [t \in Tasks |-> "none"]
  /\ admitted = 0
  /\ pc = [th \in Threads |-> "idle"]
  /\ op = [th \in Threads |-> "none"]
  /\ arg = [th \in Threads |-> NoTask]
  /\ size = [th \in Threads |-> 0]
  /\ expired = [th \in Threads |-> {}]
  /\ target = [th \in Threads |-> "none"]
  /\ seen = [th \in Threads |-> "none"]

-----------------------------------------------------------------------------
(* Entering and leaving a method. *)

\* th begins method m on task t at step s.
Enter(th, m, t, s) ==
  /\ pc[th] = "idle"
  /\ pc' = [pc EXCEPT ![th] = s]
  /\ op' = [op EXCEPT ![th] = m]
  /\ arg' = [arg EXCEPT ![th] = t]
  /\ seen' = seen

\* th leaves its method, by return or by exception.
Leave(th) ==
  /\ pc' = [pc EXCEPT ![th] = "idle"]
  /\ op' = [op EXCEPT ![th] = "none"]
  /\ arg' = [arg EXCEPT ![th] = NoTask]
  /\ size' = [size EXCEPT ![th] = 0]
  /\ expired' = [expired EXCEPT ![th] = {}]
  /\ target' = [target EXCEPT ![th] = "none"]
  /\ seen' = [seen EXCEPT ![th] = "none"]

\* th goes on to step s, nothing of its frame changing but the walked size.
Goto(th, s) == /\ pc' = [pc EXCEPT ![th] = s]
               /\ UNCHANGED <<op, arg, size, expired, target, seen>>

\* A walk of the dict that starts at step s remembers len(_tasks).
StartWalk(th, s) ==
  /\ pc' = [pc EXCEPT ![th] = s]
  /\ size' = [size EXCEPT ![th] = Cardinality(present)]

\* CPython raises RuntimeError when the dict changed size under a walk.
WalkBroken(th) == Cardinality(present) # size[th]

-----------------------------------------------------------------------------
(* The API calls that enter the registry. *)

\* A client can name t once the answer to its POST is out.  The loop runs
\* the first step of the coroutine, queued by that POST, before it reads
\* any later request, so by then the coroutine has started.
Known(t) == coro[t] \in {"awaiting", "ended", "leaked"}

\* GET .../task/{id}: a pool thread polls a task it was given the id of.
PollCall(c, t) ==
  /\ Known(t)
  /\ Enter(c, "poll", t, "sweepPending")
  /\ size' = [size EXCEPT ![c] = Cardinality(present)]
  /\ UNCHANGED <<taskVars, coroVars, expired, target>>

\* POST .../task/{id}/cancel: a pool thread cancels such a task.
CancelCall(c, t) ==
  /\ Known(t)
  /\ Enter(c, "cancel", t, "cancelGet")
  /\ UNCHANGED <<taskVars, coroVars, size, expired, target>>

\* POST /api/backtest/run asks has_capacity before its prefetch.
AdmitCall ==
  /\ admitted < MaxAdmitted
  /\ Enter(Loop, "admit", NoTask, "sweepPending")
  /\ size' = [size EXCEPT ![Loop] = Cardinality(present)]
  /\ UNCHANGED <<taskVars, coroVars, expired, target>>

\* create: a backtest request after its prefetch, an AI request directly.
CreateCall(t) ==
  /\ status[t] = "none"
  /\ t \notin AITasks => admitted > 0
  /\ Enter(Loop, "create", t, "sweepPending")
  /\ size' = [size EXCEPT ![Loop] = Cardinality(present)]
  /\ admitted' = IF t \in AITasks THEN admitted ELSE admitted - 1
  /\ UNCHANGED <<taskVars, coro, expired, target>>

\* A backtest request that fails in its prefetch (coverage below the floor).
AdmittedFails ==
  /\ pc[Loop] = "idle" /\ admitted > 0
  /\ admitted' = admitted - 1
  /\ UNCHANGED <<taskVars, coro, threadVars>>

\* The executor coroutine of t starts: attach_cancel_token, then
\* mark_running.  A terminal or swept task does not take the token.
ExecStart(t) ==
  /\ coro[t] = "scheduled"
  /\ Enter(Loop, "start", t, "markCheck")
  /\ token' = IF t \in present /\ status[t] \notin Terminal
              THEN [token EXCEPT ![t] = "clear"] ELSE token
  /\ UNCHANGED <<present, status, payload, finished, overdue, coroVars,
                 size, expired, target>>

\* What the awaited work of t can end with: a cancellation only once the
\* token is set; the AI coroutine then discards its result.
Outcomes(t) == {"failed"}
               \cup (IF token[t] = "set" THEN {"cancelled"} ELSE {})
               \cup (IF token[t] = "set" /\ t \in AITasks THEN {}
                     ELSE {"done"})

\* The awaited work of t ended; the coroutine calls mark_done/failed/cancelled.
ExecFinish(t) ==
  /\ coro[t] = "awaiting"
  /\ Enter(Loop, "finish", t, "finishCheck")
  /\ \E s \in Outcomes(t) : target' = [target EXCEPT ![Loop] = s]
  /\ UNCHANGED <<taskVars, coroVars, size, expired>>

-----------------------------------------------------------------------------
(* _sweep. *)

\* A pending task past its TTL is picked by the first walk, to be failed.
SweepPick(th, u) ==
  /\ pc[th] = "sweepPending" /\ ~WalkBroken(th)
  /\ u \in present \cap overdue /\ status[u] = "pending"
  /\ pc' = [pc EXCEPT ![th] = "sweepFail"]
  /\ expired' = [expired EXCEPT ![th] = {u}]
  /\ UNCHANGED <<taskVars, coroVars, op, arg, size, target, seen>>

\* _finish(t, "failed") inside _sweep: the status is written ...
SweepFail(th) ==
  /\ pc[th] = "sweepFail"
  /\ status' = [u \in Tasks |-> IF u \in expired[th] THEN "failed"
                                ELSE status[u]]
  /\ Goto(th, "sweepFailFields")
  /\ UNCHANGED <<present, payload, finished, overdue, token, coroVars>>

\* ... and then error and finished_at; the walk goes on.
SweepFailFields(th) ==
  /\ pc[th] = "sweepFailFields"
  /\ payload' = [u \in Tasks |-> IF u \in expired[th] THEN "error"
                                 ELSE payload[u]]
  /\ finished' = [u \in Tasks |-> u \in expired[th] \/ finished[u]]
  /\ overdue' = overdue \ expired[th]
  /\ expired' = [expired EXCEPT ![th] = {}]
  /\ pc' = [pc EXCEPT ![th] = "sweepPending"]
  /\ UNCHANGED <<present, status, token, coroVars, op, arg, size, target,
                 seen>>

\* The first walk is over; the second one, which collects the expired
\* terminal tasks, begins.
SweepPendingDone(th) ==
  /\ pc[th] = "sweepPending" /\ ~WalkBroken(th)
  /\ \A u \in present \cap overdue : status[u] # "pending"
  /\ StartWalk(th, "sweepCollect")
  /\ UNCHANGED <<taskVars, coroVars, op, arg, expired, target, seen>>

\* Mutant: running tasks are given a TTL too.
SweepCollectRunning(th) ==
  /\ pc[th] = "sweepCollect" /\ ~WalkBroken(th)
  /\ expired' = [expired EXCEPT ![th] =
       {u \in present \cap overdue : status[u] # "pending"}]
  /\ pc' = [pc EXCEPT ![th] = "sweepDelete"]
  /\ size' = [size EXCEPT ![th] = 0]
  /\ UNCHANGED <<taskVars, coroVars, op, arg, target, seen>>

SweepCollect(th) ==
  /\ pc[th] = "sweepCollect" /\ ~WalkBroken(th)
  /\ expired' = [expired EXCEPT ![th] =
       {u \in present \cap overdue : status[u] \in Terminal /\ finished[u]}]
  /\ pc' = [pc EXCEPT ![th] = "sweepDelete"]
  /\ size' = [size EXCEPT ![th] = 0]
  /\ UNCHANGED <<taskVars, coroVars, op, arg, target, seen>>

\* del self._tasks[tid]
SweepDelete(th, u) ==
  /\ pc[th] = "sweepDelete" /\ u \in expired[th] \cap present
  /\ present' = present \ {u}
  /\ expired' = [expired EXCEPT ![th] = @ \ {u}]
  /\ UNCHANGED <<status, payload, finished, overdue, token, coroVars,
                 pc, op, arg, size, target, seen>>

\* The sweep returns to the method that called it.
SweepDone(th) ==
  /\ pc[th] = "sweepDelete" /\ expired[th] = {}
  /\ IF op[th] = "poll" THEN pc' = [pc EXCEPT ![th] = "pollGet"] /\ size' = size
                        ELSE StartWalk(th, "count")
  /\ UNCHANGED <<taskVars, coroVars, op, arg, expired, target, seen>>

\* A walk finds the dict resized under it (RuntimeError), or del finds that
\* another thread deleted the task first (KeyError).
SweepBroken(th) ==
  \/ /\ pc[th] \in {"sweepPending", "sweepCollect", "count"}
     /\ WalkBroken(th)
  \/ /\ pc[th] = "sweepDelete"
     /\ expired[th] \ present # {}

\* No endpoint catches either exception: the request answers 500.
SweepRaises(th) ==
  /\ SweepBroken(th)
  /\ Leave(th)
  /\ UNCHANGED <<taskVars, coroVars>>

-----------------------------------------------------------------------------
(* has_capacity, create *)

\* _active_count: what the walk of _tasks counts.
ActiveCount == Cardinality({t \in present : status[t] \in Active})

\* has_capacity returns: the request goes on to its prefetch, or is told 429.
AdmitCount(th) ==
  /\ pc[th] = "count" /\ op[th] = "admit" /\ ~WalkBroken(th)
  /\ IF ActiveCount < MaxActive
     THEN admitted' = admitted + 1 /\ Leave(th)
     ELSE admitted' = admitted /\ Leave(th)
  /\ UNCHANGED <<taskVars, coro>>

\* Mutant: the limit is checked with <= instead of <.
CreateInsertOneTooMany(th) ==
  /\ pc[th] = "count" /\ op[th] = "create" /\ ~WalkBroken(th)
  /\ ActiveCount <= MaxActive
  /\ present' = present \cup {arg[th]}
  /\ status' = [status EXCEPT ![arg[th]] = "pending"]
  /\ coro' = [coro EXCEPT ![arg[th]] = "scheduled"]
  /\ Leave(th)
  /\ UNCHANGED <<payload, finished, overdue, token, admitted>>

\* Mutant: the endpoint registers the task without scheduling its coroutine.
CreateInsertUnscheduled(th) ==
  /\ pc[th] = "count" /\ op[th] = "create" /\ ~WalkBroken(th)
  /\ ActiveCount < MaxActive
  /\ present' = present \cup {arg[th]}
  /\ status' = [status EXCEPT ![arg[th]] = "pending"]
  /\ Leave(th)
  /\ UNCHANGED <<payload, finished, overdue, token, coroVars>>

\* create inserts a pending task and the endpoint schedules its coroutine ...
CreateInsert(th) ==
  /\ pc[th] = "count" /\ op[th] = "create" /\ ~WalkBroken(th)
  /\ ActiveCount < MaxActive
  /\ present' = present \cup {arg[th]}
  /\ status' = [status EXCEPT ![arg[th]] = "pending"]
  /\ coro' = [coro EXCEPT ![arg[th]] = "scheduled"]
  /\ Leave(th)
  /\ UNCHANGED <<payload, finished, overdue, token, admitted>>

\* ... or raises RegistryFullError, which the endpoint turns into 429.
CreateFull(th) ==
  /\ pc[th] = "count" /\ op[th] = "create" /\ ~WalkBroken(th)
  /\ ActiveCount >= MaxActive
  /\ Leave(th)
  /\ UNCHANGED <<taskVars, coroVars>>

-----------------------------------------------------------------------------
(* mark_running *)

\* The task is still there and pending: the check passed.
MarkRunningCheck(th) ==
  /\ pc[th] = "markCheck"
  /\ arg[th] \in present /\ status[arg[th]] = "pending"
  /\ Goto(th, "markWrite")
  /\ UNCHANGED <<taskVars, coroVars>>

\* UnknownTaskError or TaskNotRunningError: mark_running stands before the
\* try, so the exception ends the coroutine and goes to the event loop.
MarkRunningRaises(th) ==
  /\ pc[th] = "markCheck"
  /\ arg[th] \notin present \/ status[arg[th]] # "pending"
  /\ coro' = [coro EXCEPT ![arg[th]] = "leaked"]
  /\ Leave(th)
  /\ UNCHANGED <<taskVars, admitted>>

\* Mutant: mark_running sets started_at alone.
MarkRunningWriteTime(th) ==
  /\ pc[th] = "markWrite"
  /\ coro' = [coro EXCEPT ![arg[th]] = "awaiting"]
  /\ Leave(th)
  /\ UNCHANGED <<taskVars, admitted>>

MarkRunningWrite(th) ==
  /\ pc[th] = "markWrite"
  /\ status' = [status EXCEPT ![arg[th]] = "running"]
  /\ coro' = [coro EXCEPT ![arg[th]] = "awaiting"]
  /\ Leave(th)
  /\ UNCHANGED <<present, payload, finished, overdue, token, admitted>>

-----------------------------------------------------------------------------
(* _finish, cancel, poll *)

\* Mutant: an unexpected exception of the awaited work is not marked failed.
FinishCheckUncaught(th) ==
  /\ pc[th] = "finishCheck" /\ arg[th] \in present
  /\ IF status[arg[th]] \in Terminal \/ target[th] = "failed"
     THEN IF op[th] = "cancel"
          THEN Goto(th, "snapshot") /\ coro' = coro
          ELSE Leave(th) /\ coro' = [coro EXCEPT ![arg[th]] = "leaked"]
     ELSE Goto(th, "finishStatus") /\ coro' = coro
  /\ UNCHANGED <<taskVars, admitted>>

\* _get and the terminal check; a task that ended stays as it is.
FinishCheck(th) ==
  /\ pc[th] = "finishCheck" /\ arg[th] \in present
  /\ IF status[arg[th]] \in Terminal
     THEN IF op[th] = "cancel"
          THEN Goto(th, "snapshot") /\ coro' = coro
          ELSE Leave(th) /\ coro' = [coro EXCEPT ![arg[th]] = "ended"]
     ELSE Goto(th, "finishStatus") /\ coro' = coro
  /\ UNCHANGED <<taskVars, admitted>>

\* Mutant: result passed where status is expected.
FinishStatusSwapped(th) ==
  /\ pc[th] = "finishStatus"
  /\ status' = [status EXCEPT ![arg[th]] = PayloadOf(target[th])]
  /\ Goto(th, "finishFields")
  /\ UNCHANGED <<present, payload, finished, overdue, token, coroVars>>

FinishStatus(th) ==
  /\ pc[th] = "finishStatus"
  /\ status' = [status EXCEPT ![arg[th]] = target[th]]
  /\ Goto(th, "finishFields")
  /\ UNCHANGED <<present, payload, finished, overdue, token, coroVars>>

\* result, error and finished_at; the coroutine ends, cancel answers.
FinishFields(th) ==
  /\ pc[th] = "finishFields"
  /\ payload' = [payload EXCEPT ![arg[th]] = PayloadOf(target[th])]
  /\ finished' = [finished EXCEPT ![arg[th]] = TRUE]
  /\ overdue' = overdue \ {arg[th]}
  /\ IF op[th] = "cancel"
     THEN Goto(th, "snapshot") /\ coro' = coro
     ELSE Leave(th) /\ coro' = [coro EXCEPT ![arg[th]] = "ended"]
  /\ UNCHANGED <<present, status, token, admitted>>

\* UnknownTaskError: 404 for a client, a leak from the executor coroutine.
GetRaises(th) ==
  /\ pc[th] \in {"pollGet", "cancelGet", "finishCheck"}
  /\ arg[th] \notin present
  /\ coro' = IF op[th] = "finish" THEN [coro EXCEPT ![arg[th]] = "leaked"]
                                  ELSE coro
  /\ Leave(th)
  /\ UNCHANGED <<taskVars, admitted>>

\* Mutant: cancel marks the task but never sets its token.
CancelGetTokenKept(th) ==
  /\ pc[th] = "cancelGet" /\ arg[th] \in present
  /\ IF status[arg[th]] \in Terminal
     THEN Goto(th, "snapshot")
     ELSE /\ pc' = [pc EXCEPT ![th] = "finishCheck"]
          /\ target' = [target EXCEPT ![th] = "cancelled"]
          /\ UNCHANGED <<op, arg, size, expired, seen>>
  /\ UNCHANGED <<taskVars, coroVars>>

\* cancel: _get and the terminal check; the token, if one is attached, is
\* set, and mark_cancelled follows.
CancelGet(th) ==
  /\ pc[th] = "cancelGet" /\ arg[th] \in present
  /\ IF status[arg[th]] \in Terminal
     THEN Goto(th, "snapshot") /\ token' = token
     ELSE /\ pc' = [pc EXCEPT ![th] = "finishCheck"]
          /\ target' = [target EXCEPT ![th] = "cancelled"]
          /\ token' = IF token[arg[th]] = "absent" THEN token
                      ELSE [token EXCEPT ![arg[th]] = "set"]
          /\ UNCHANGED <<op, arg, size, expired, seen>>
  /\ UNCHANGED <<present, status, payload, finished, overdue, coroVars>>

\* snapshot reads status into the answer (poll: of the task _get returned) ...
Snapshot(th) ==
  /\ pc[th] \in {"snapshot", "pollGet"}
  /\ pc[th] = "pollGet" => arg[th] \in present
  /\ pc' = [pc EXCEPT ![th] = "snapshotBody"]
  /\ seen' = [seen EXCEPT ![th] = status[arg[th]]]
  /\ UNCHANGED <<taskVars, coroVars, op, arg, size, expired, target>>

\* ... and reads it again to add the result of a done task or the error of a
\* failed one.
SnapshotBody(th) ==
  /\ pc[th] = "snapshotBody"
  /\ Leave(th)
  /\ UNCHANGED <<taskVars, coroVars>>

-----------------------------------------------------------------------------

\* Time passes for a task: its clock runs past the TTL.  The clock is the
\* wall clock (time.time), so a suspended host ages a task of any status.
\* A TTL is half an hour and a method takes microseconds: none is under way.
Age(t) ==
  /\ \A th \in Threads : pc[th] = "idle"
  /\ t \in present \ overdue
  /\ overdue' = overdue \cup {t}
  /\ UNCHANGED <<present, status, payload, finished, token, coroVars,
                 threadVars>>

LoopCall == \/ AdmitCall \/ AdmittedFails
            \/ \E t \in Tasks : CreateCall(t) \/ ExecStart(t) \/ ExecFinish(t)

ClientCall(c) == \E t \in Tasks : PollCall(c, t) \/ CancelCall(c, t)

Sweep(th) == \/ \E u \in Tasks : SweepPick(th, u) \/ SweepDelete(th, u)
             \/ SweepFail(th) \/ SweepFailFields(th)
             \/ SweepPendingDone(th) \/ SweepCollect(th) \/ SweepDone(th)
             \/ SweepRaises(th)

Step(th) == \/ Sweep(th)
            \/ AdmitCount(th) \/ CreateInsert(th) \/ CreateFull(th)
            \/ MarkRunningCheck(th) \/ MarkRunningRaises(th)
            \/ MarkRunningWrite(th)
            \/ FinishCheck(th) \/ FinishStatus(th) \/ FinishFields(th)
            \/ GetRaises(th) \/ CancelGet(th)
            \/ Snapshot(th) \/ SnapshotBody(th)

Next == \/ LoopCall
        \/ \E c \in Clients : ClientCall(c)
        \/ \E th \in Threads : Step(th)
        \/ \E t \in Tasks : Age(t)

Spec == Init /\ [][Next]_vars

\* The operating system runs every thread that is inside a method; asyncio
\* runs its ready callbacks in order, so a coroutine that is ready again and
\* again runs; and the awaited work ends (BacktestService says when it does).
Fairness == /\ \A th \in Threads : WF_vars(Step(th))
            /\ \A t \in Tasks : SF_vars(ExecStart(t)) /\ SF_vars(ExecFinish(t))

FairSpec == Spec /\ Fairness

-----------------------------------------------------------------------------
(* Properties. *)

TypeOK ==
  /\ present \subseteq Tasks /\ overdue \subseteq Tasks
  /\ status \in [Tasks -> Statuses]
  /\ payload \in [Tasks -> Payloads]
  /\ finished \in [Tasks -> BOOLEAN]
  /\ token \in [Tasks -> {"absent", "clear", "set"}]
  /\ coro \in [Tasks -> {"none", "scheduled", "awaiting", "ended", "leaked"}]
  /\ admitted \in Nat
  /\ pc \in [Threads -> Steps]
  /\ op \in [Threads -> Methods]
  /\ arg \in [Threads -> Tasks \cup {NoTask}]
  /\ size \in [Threads -> Nat]
  /\ expired \in [Threads -> SUBSET Tasks]
  /\ target \in [Threads -> {"none"} \cup Terminal]
  /\ seen \in [Threads -> Statuses]

\* The tasks counted against MAX_ACTIVE_TASKS, wherever they are stored.
ActiveTasks == {t \in Tasks : status[t] \in Active}

\* However polls, cancels, sweeps and creations interleave, no more than
\* MAX_ACTIVE_TASKS tasks are pending or running (create's second check).
ActiveBound == Cardinality(ActiveTasks) <= MaxActive

\* _sweep only ever forgets tasks that ended: an id that answers 404 does not
\* belong to a task that still runs and still counts.
ForgottenHaveEnded ==
  \A t \in Tasks : status[t] # "none" /\ t \notin present
                      => status[t] \in Terminal

\* A task shown as pending or running has a coroutine that will finish it:
\* running tasks have no TTL, so one without a coroutine stays for ever.
NoZombie ==
  \A t \in ActiveTasks : coro[t] \in {"scheduled", "awaiting"}

\* A cancelled task whose coroutine still waits for its worker has its token
\* set, so the worker thread will see it and stop the child process.
CancelReachesWorker ==
  \A t \in Tasks : status[t] = "cancelled" /\ coro[t] = "awaiting"
                      => token[t] = "set"

\* Every task that is created ends, and then keeps some terminal status: as
\* there are finitely many tasks, from some time on none is active.
EveryTaskSettles == <>[](\A t \in Tasks : status[t] \notin Active)

\* "Terminal, one of three, irreversible" (docstring of tasks.py).
TerminalIsFinal ==
  [][\A t \in Tasks : status[t] \in Terminal => status'[t] = status[t]]_vars

\* "done with the whole result, failed with a structured error" (api.py,
\* poll): an answer whose status is done carries the result, one whose status
\* is failed the error (snapshot reads the status twice and the outcome last).
AnswerIsWhole ==
  [][\A th \in Threads : SnapshotBody(th) =>
       /\ seen[th] = "done"   => /\ status[arg[th]] = "done"
                                 /\ payload[arg[th]] = "result"
       /\ seen[th] = "failed" => /\ status[arg[th]] = "failed"
                                 /\ payload[arg[th]] = "error"]_vars

\* "Concurrency-safe ... naturally serial" (docstring of tasks.py): poll and
\* cancel answer 200 or 404, create 202 or 429, and no request ends in an
\* exception of _sweep that no endpoint catches.
NoServerError == \A th \in Threads : ~SweepBroken(th)

\* The life of a task as TaskLifecycle states it.
phase == [t \in Tasks |-> IF status[t] # "none" /\ t \notin present
                          THEN "gone" ELSE status[t]]
Lifecycle == INSTANCE TaskLifecycle

\* What is left of the promised life when methods overlap: no task is
\* registered beyond the limit, done without having run, forgotten before it
\* ended or back after that; only a task failed by a sweep starts late.
RacingLifecycle == Lifecycle!RacingSpec
=============================================================================
