-------------------------- MODULE BacktestService --------------------------
(***************************************************************************)
(* The backtest API of the quant service (apps/quant/app/api.py): the task *)
(* registry composed with the worker pool.  Tasks come from POST           *)
(* /api/backtest/run and are polled and cancelled; sync jobs come from     *)
(* POST /api/backtest, which waits for the pool inside the request, or are *)
(* the combinations of a parameter search.  A registry method is one step  *)
(* here (TaskRegistry takes it apart), and tasks are not forgotten.        *)
(***************************************************************************)
EXTENDS WorkerPool

CONSTANTS Tasks,        \* the jobs that are registered tasks
          MaxActive     \* MAX_ACTIVE_TASKS

ASSUME ServiceAssumption == Tasks \subseteq Jobs /\ MaxActive \in Nat \ {0}

VARIABLES
  status,     \* BacktestTask.status; "none" before create
  progress,   \* progress messages seen by set_progress
  answered    \* sync jobs: what POST /api/backtest answered

taskVars == <<status, progress, answered>>
vars     == <<poolVars, taskVars>>

Terminal == {"done", "failed", "cancelled"}
Active   == {"pending", "running"}

Init == /\ PoolInit
        /\ status = [t \in Tasks |-> "none"]
        /\ progress = [t \in Tasks |-> 0]
        /\ answered = [j \in Jobs \ Tasks |-> "none"]

ActiveTasks == {t \in Tasks : status[t] \in Active}

\* api_backtest_run: create, and the coroutine is scheduled.
Create(t) ==
  /\ status[t] = "none"
  /\ Cardinality(ActiveTasks) < MaxActive
  /\ status' = [status EXCEPT ![t] = "pending"]
  /\ UNCHANGED <<poolVars, progress, answered>>

\* _run_backtest_task up to its first await: mark_running comes before the
\* pool is asked for a slot.
Begin(t) ==
  /\ status[t] = "pending"
  /\ status' = [status EXCEPT ![t] = "running"]
  /\ Acquire(t)
  /\ UNCHANGED <<progress, answered>>

\* POST /api/backtest reaches the pool.
BeginSync(j) == Acquire(j) /\ UNCHANGED taskVars

\* api_backtest_task_cancel; clients know the id once the task has begun.
Cancel(t) ==
  /\ status[t] = "running"
  /\ status' = [status EXCEPT ![t] = "cancelled"]
  /\ SetToken(t)
  /\ UNCHANGED <<progress, answered>>

\* set_progress on the job's thread; sync jobs pass no progress_cb and a
\* terminal task ignores it.
Progress(j) ==
  /\ GetProgress(j)
  /\ progress' = IF j \in Tasks /\ status[j] \notin Terminal
                 THEN [progress EXCEPT ![j] = @ + 1] ELSE progress
  /\ UNCHANGED <<status, answered>>

\* Only the child of a task was told to report progress.
Report(j) == j \in Tasks /\ PutProgress(j) /\ UNCHANGED taskVars

\* The status mark_done, mark_failed or mark_cancelled writes.
Mark == [result |-> "done", failed |-> "failed", cancelled |-> "cancelled"]

\* The coroutine gets the outcome and marks its task; a terminal task stays.
Finish(t) ==
  /\ Return(t)
  /\ status' = IF status[t] \in Terminal THEN status
               ELSE [status EXCEPT ![t] = Mark[outcome[t]]]
  /\ UNCHANGED <<progress, answered>>

\* POST /api/backtest answers with the result or, for a BacktestWorkerError,
\* a structured error; what process.start raises is neither caught nor
\* converted, and becomes a 500.
Unspawned(j) == outcome[j] = "failed" /\ child[j] = "none"
Answer(j) ==
  /\ Return(j)
  /\ answered' = [answered EXCEPT ![j] = IF Unspawned(j) THEN "raised" ELSE Mark[outcome[j]]]
  /\ UNCHANGED <<status, progress>>

PoolStep(j) == /\ LoopStep(j) \/ ThreadStep(j) \/ ChildStep(j)
               /\ UNCHANGED taskVars

Next == \/ \E t \in Tasks : Create(t) \/ Begin(t) \/ Cancel(t) \/ Finish(t)
        \/ \E j \in Jobs \ Tasks : BeginSync(j) \/ Answer(j)
        \/ \E j \in Jobs : Progress(j) \/ Report(j) \/ PoolStep(j)

Spec == Init /\ [][Next]_vars

\* asyncio runs its ready callbacks, the system its threads and processes.
\* Nobody has to send a request, to cancel or to report progress, and a
\* strategy need not end: only what a child has put is flushed.
Fairness ==
  /\ \A t \in Tasks : WF_vars(Begin(t)) /\ WF_vars(Finish(t))
  /\ \A j \in Jobs \ Tasks : WF_vars(Answer(j))
  /\ \A j \in Jobs : /\ WF_vars(Progress(j))
                     /\ WF_vars(LoopStep(j) /\ UNCHANGED taskVars)
                     /\ WF_vars(ThreadStep(j) /\ UNCHANGED taskVars)
                     /\ WF_vars((Feed(j) \/ Exit(j)) /\ UNCHANGED taskVars)

FairSpec == Spec /\ Fairness

\* ... and every strategy ends.
EndingSpec == FairSpec /\ \A j \in Jobs : WF_vars(PutFinal(j) /\ UNCHANGED taskVars)

-----------------------------------------------------------------------------
(* Properties. *)

TypeOK ==
  /\ status \in [Tasks -> {"none"} \cup Active \cup Terminal]
  /\ progress \in [Tasks -> 0 .. MaxProgress]
  /\ answered \in [Jobs \ Tasks -> {"none", "raised"} \cup Terminal]
  /\ PoolTypeOK

\* A task whose token is set has its child process stopped, if it has one,
\* even when the strategy would never end ("terminate", worker.py).
CancelStopsChild ==
  \A t \in Tasks : t \in cancelled /\ child[t] \in Alive ~> child[t] = "dead"

\* A job whose worker delivered a result gives its slot back, also when it
\* was cancelled in the meantime.
ResultFreesSlot ==
  \A j \in Jobs : outcome[j] = "result" ~> coroutine[j] = "ended"

Torn(j) == pipe[j] # <<>> /\ Head(pipe[j]) = "torn"

\* If no strategy runs for ever, no child dies in the middle of a message and
\* no outcome is lost on its way to the loop, every task that started reaches
\* a terminal status: no message, crash, cancellation or order of waiting
\* leaves it running.
SettlesUnlessLost ==
  (\A j \in Jobs : child[j] = "running" ~> child[j] # "running")
    => \/ <>(\E j \in Jobs : posted[j] = "lost" \/ Torn(j))
       \/ \A t \in Tasks : status[t] = "running" ~> status[t] \in Terminal

\* A run that fails has its task marked: "exceptions of the main process go
\* into the terminal status as well, never leak to the event loop" (api.py,
\* _run_backtest_task).
FailureIsMarked ==
  \A t \in Tasks : outcome[t] = "failed" ~> status[t] \in Terminal
=============================================================================
