------------------------------ MODULE BacktestTab ------------------------------
(***************************************************************************)
(* The backtest tab of the quant page (apps/web/src/components/quant/      *)
(* backtest-tab.tsx): it starts a task in the quant service, polls it      *)
(* every two seconds, lets the user stop it, and falls back to the         *)
(* synchronous endpoint when the task cannot be started or reached.  What  *)
(* is behind fetch (the proxy routes and the service) is reduced to what   *)
(* the tab can tell: a task is live, ended one way or another, or gone.    *)
(* Runs are numbered; a result is the number of the run it belongs to.     *)
(***************************************************************************)
EXTENDS Naturals

CONSTANTS MaxRuns,    \* bound: clicks on the run button
          MaxStops,   \* bound: clicks on the stop button
          RunWarn,    \* POLL_RETRY_WARN
          RunGiveUp   \* POLL_RETRY_GIVEUP

VARIABLES
  runNo,        \* the run under way, or the last one
  runAt,        \* where runBacktest is: idle, posting, sleeping, polling, legacy
  taskRef,      \* taskRef.current, with id 0 for null
  taskActive,   \* enables the stop button
  polls,        \* polls that failed in a row
  reconnecting,
  stopping,
  stopNo,       \* cancelTick
  cancels,      \* cancel requests in flight, by the tick of their effect
  result,       \* the run whose result is shown, 0 for none
  failure,      \* error is not null
  remembered,   \* the run whose configuration localStorage holds
  task,         \* the service's view of the task of each run
  stopSeen      \* where this run was when it was stopped, and the result shown

runVars == <<runNo, runAt, taskRef, taskActive, polls, reconnecting, stopping,
             stopNo, cancels, result, failure, remembered, task, stopSeen>>

Runs      == 1..MaxRuns
NoTaskRef == [id |-> 0, cancelled |-> FALSE]
NotStopped == [at |-> "idle", shown |-> 0]
Loading   == runAt # "idle"

RunInit ==
  /\ runNo = 0 /\ runAt = "idle" /\ taskRef = NoTaskRef /\ taskActive = FALSE
  /\ polls = 0 /\ reconnecting = FALSE /\ stopping = FALSE
  /\ stopNo = 0 /\ cancels = {}
  /\ result = 0 /\ failure = FALSE /\ remembered = 0
  /\ task = [r \in Runs |-> "none"] /\ stopSeen = NotStopped

-----------------------------------------------------------------------------
\* runBacktest, up to its first request.
ClickRun ==
  /\ ~Loading /\ runNo < MaxRuns
  /\ runNo' = runNo + 1 /\ runAt' = "posting"
  /\ failure' = FALSE /\ reconnecting' = FALSE /\ stopping' = FALSE
  /\ taskActive' = FALSE /\ polls' = 0 /\ stopSeen' = NotStopped
  /\ UNCHANGED <<taskRef, stopNo, cancels, result, remembered, task>>

\* The finally block.
EndRun == /\ runAt' = "idle" /\ taskRef' = NoTaskRef
          /\ taskActive' = FALSE /\ reconnecting' = FALSE /\ stopping' = FALSE
          /\ UNCHANGED <<runNo, polls, stopNo, cancels, task, stopSeen>>

\* Whatever runBacktestViaTask returns, the configuration is written.
EndShowing(r) == /\ EndRun /\ result' = r
                 /\ remembered' \in {remembered, runNo}   \* localStorage may refuse
                 /\ UNCHANGED failure
EndQuietly    == EndShowing(result)
EndInError    == /\ EndRun /\ result' = 0 /\ failure' = TRUE
                 /\ remembered' \in {remembered, runNo}

\* POST run: accepted, refused (the proxy turns every failure into 502), or
\* accepted with the answer lost on the way.
RunAccepted ==
  /\ runAt = "posting" /\ runAt' = "sleeping"
  /\ task' = [task EXCEPT ![runNo] = "live"]
  /\ taskRef' = [id |-> runNo, cancelled |-> FALSE] /\ taskActive' = TRUE
  /\ UNCHANGED <<runNo, polls, reconnecting, stopping, stopNo, cancels, result,
                 failure, remembered, stopSeen>>

RunRefused ==
  /\ runAt = "posting" /\ runAt' = "legacy"
  /\ \/ UNCHANGED task
     \/ task' = [task EXCEPT ![runNo] = "live"]
  /\ UNCHANGED <<runNo, taskRef, taskActive, polls, reconnecting, stopping, stopNo,
                 cancels, result, failure, remembered, stopSeen>>

\* The browser has no connection: fetch throws, nothing is remembered.
RunThrows ==
  /\ runAt = "posting"
  /\ EndRun /\ result' = 0 /\ failure' = TRUE
  /\ UNCHANGED remembered

\* Mutant: the loop asks for its own task only, not whether it was stopped.
WakeBlind ==
  /\ runAt = "sleeping" /\ taskRef.id = runNo /\ runAt' = "polling"
  /\ UNCHANGED <<runNo, taskRef, taskActive, polls, reconnecting, stopping, stopNo,
                 cancels, result, failure, remembered, task, stopSeen>>

\* The loop looks at taskRef after its sleep and nowhere else.
Wake ==
  /\ runAt = "sleeping"
  /\ IF taskRef.id # runNo \/ taskRef.cancelled
     THEN EndQuietly
     ELSE /\ runAt' = "polling"
          /\ UNCHANGED <<runNo, taskRef, taskActive, polls, reconnecting, stopping, stopNo,
                         cancels, result, failure, remembered, task, stopSeen>>

\* Mutant: the page waits for the connection for ever.
PollFailsAlways ==
  /\ runAt = "polling" /\ runAt' = "sleeping" /\ reconnecting' = TRUE
  /\ UNCHANGED <<runNo, taskRef, taskActive, polls, stopping, stopNo, cancels, result,
                 failure, remembered, task, stopSeen>>

\* No answer, or one that is not 200, as for a task that is gone.
PollFails ==
  /\ runAt = "polling" /\ polls' = polls + 1
  /\ IF polls' >= RunGiveUp
     THEN runAt' = "legacy" /\ reconnecting' = FALSE
     ELSE runAt' = "sleeping" /\ reconnecting' = (reconnecting \/ polls' >= RunWarn)
  /\ UNCHANGED <<runNo, taskRef, taskActive, stopping, stopNo, cancels, result,
                 failure, remembered, task, stopSeen>>

PollLive ==
  /\ runAt = "polling" /\ task[runNo] = "live"
  /\ runAt' = "sleeping" /\ polls' = 0 /\ reconnecting' = FALSE
  /\ UNCHANGED <<runNo, taskRef, taskActive, stopping, stopNo, cancels, result,
                 failure, remembered, task, stopSeen>>

\* done may come before its result does, which ends the run in an error.
PollDone      == /\ runAt = "polling" /\ task[runNo] = "done"
                 /\ EndShowing(runNo) \/ EndInError
PollCancelled == runAt = "polling" /\ task[runNo] = "cancelled" /\ EndQuietly
PollFailed    == runAt = "polling" /\ task[runNo] = "failed" /\ EndInError

\* runBacktestLegacy: another run of the same request, awaited.
LegacyOk    == runAt = "legacy" /\ EndShowing(runNo)
LegacyFails == runAt = "legacy" /\ EndInError

-----------------------------------------------------------------------------
\* stopBacktest and the effect it starts: one cancel request per click.
ClickStop ==
  /\ Loading /\ taskActive /\ stopNo < MaxStops
  /\ taskRef' = [taskRef EXCEPT !.cancelled = TRUE]
  /\ stopping' = TRUE /\ stopNo' = stopNo + 1
  /\ cancels' = cancels \cup {[tick |-> stopNo + 1, run |-> taskRef.id]}
  /\ stopSeen' = IF stopSeen = NotStopped THEN [at |-> runAt, shown |-> result] ELSE stopSeen
  /\ UNCHANGED <<runNo, runAt, taskActive, polls, reconnecting, result, failure,
                 remembered, task>>

CancelTask(r) == task' = [task EXCEPT ![r] = IF @ = "live" THEN "cancelled" ELSE @]

CancelOk(c) ==
  /\ c \in cancels /\ cancels' = cancels \ {c}
  /\ CancelTask(c.run)
  /\ UNCHANGED <<runNo, runAt, taskRef, taskActive, polls, reconnecting, stopping, stopNo,
                 result, failure, remembered, stopSeen>>

\* The request or its answer is lost.  Only the last effect still listens, and
\* only while the run it belongs to goes on.
CancelFails(c) ==
  /\ c \in cancels /\ cancels' = cancels \ {c}
  /\ CancelTask(c.run) \/ UNCHANGED task
  /\ stopping' = (stopping /\ (c.tick # stopNo \/ c.run # taskRef.id))
  /\ UNCHANGED <<runNo, runAt, taskRef, taskActive, polls, reconnecting, stopNo,
                 result, failure, remembered, stopSeen>>

\* The service: a task ends, or is forgotten (its TTL, a restart).
TaskEnds(r) == /\ task[r] = "live"
               /\ \E end \in {"done", "failed", "gone"} : task' = [task EXCEPT ![r] = end]
TaskGone(r) == /\ task[r] \in {"done", "failed", "cancelled"}
               /\ task' = [task EXCEPT ![r] = "gone"]
ServiceStep(r) ==
  /\ TaskEnds(r) \/ TaskGone(r)
  /\ UNCHANGED <<runNo, runAt, taskRef, taskActive, polls, reconnecting, stopping, stopNo,
                 cancels, result, failure, remembered, stopSeen>>

-----------------------------------------------------------------------------
RunStep == \/ RunAccepted \/ RunRefused \/ RunThrows \/ Wake
           \/ PollFails \/ PollLive \/ PollDone \/ PollCancelled \/ PollFailed
           \/ LegacyOk \/ LegacyFails
RunNext == \/ ClickRun \/ ClickStop \/ RunStep
           \/ \E c \in cancels : CancelOk(c) \/ CancelFails(c)
           \/ \E r \in Runs : ServiceStep(r)

RunSpec == RunInit /\ [][RunNext]_runVars

\* fetch settles, timers fire, and the service ends every task it accepted,
\* which is its own promise (EveryTaskSettles of TaskRegistry).
RunFairness == /\ WF_runVars(RunStep)
               /\ \A r \in Runs : WF_runVars(TaskEnds(r) /\ ServiceStep(r))

-----------------------------------------------------------------------------
\* A stop pressed while the loop sleeps leaves the result on the page alone.
\* (One pressed while a poll is in flight, or once the run has fallen back to
\* the synchronous endpoint, does not: its answer is shown when it comes.)
StopWhileWaiting ==
  stopSeen.at = "sleeping" /\ runAt \in {"sleeping", "idle"} => result = stopSeen.shown

\* However requests are lost and tasks forgotten, the page leaves its loading
\* state and its buttons come back.
RunEnds == Loading ~> ~Loading
=============================================================================
