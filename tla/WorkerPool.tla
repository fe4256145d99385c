----------------------------- MODULE WorkerPool -----------------------------
(***************************************************************************)
(* The pool of spawned worker processes (apps/quant/app/worker.py).  A job *)
(* is one call of WorkerPool.run; it passes through four parties:          *)
(*   - its coroutine on an event loop, which takes a slot of the           *)
(*     semaphore, starts a thread and awaits a future;                     *)
(*   - that thread (_run_in_thread, _run_sync), which spawns the child,    *)
(*     reads its messages, honours the cancel token, and hands the outcome *)
(*     to the loop with call_soon_threadsafe;                              *)
(*   - the child process (_worker_entry), which puts progress messages and *)
(*     one final message into a queue and exits;                           *)
(*   - the queue: what the child has put is first in the child's buffer,   *)
(*     then in the pipe, and dies with the child while it is in the buffer.*)
(*                                                                         *)
(* The pool is a singleton of the module, but an asyncio.Semaphore belongs *)
(* to one event loop: _semaphore makes a new one whenever the loop of the  *)
(* call differs from that of the last one.  The HTTP API has one loop; a   *)
(* parameter search runs every combination on a loop of its own.           *)
(*                                                                         *)
(* No caller passes a timeout to run, so its wait_for branch is left out.  *)
(***************************************************************************)
EXTENDS Naturals, Sequences, FiniteSets

CONSTANTS Jobs,
          LoopOf(_),    \* the event loop that runs a job's coroutine
          NoSem,        \* _sem is None
          PoolSize,     \* QUANT_WORKER_POOL_SIZE, at least 1
          MaxProgress   \* bound of the model on progress messages of a job

ASSUME PoolAssumption == /\ IsFiniteSet(Jobs) /\ NoSem \notin Jobs
                         /\ PoolSize \in Nat \ {0}
                         /\ MaxProgress \in Nat

VARIABLES
  sem,        \* _sem, named by the job whose call made it; its loop is
              \* _sem_loop
  slot,       \* the semaphore the call of run entered
  coroutine,  \* where the caller of run is
  free,       \* value of each semaphore
  waiters,    \* its queue, oldest first
  thread,     \* the step the job's thread is at
  reads,      \* reads the final drain may still do
  outcome,    \* what _run_sync returns or raises
  posted,     \* the callback given to call_soon_threadsafe
  child,      \* the child process
  sent,       \* progress messages it has put
  buffer,     \* messages put and not yet in the pipe
  pipe,       \* messages the thread can read
  cancelled   \* jobs whose CancelToken is set

loopVars   == <<sem, slot, coroutine, free, waiters>>
threadVars == <<thread, reads, outcome, posted>>
childVars  == <<child, sent, buffer, pipe>>
poolVars   == <<loopVars, threadVars, childVars, cancelled>>

Final    == {"result", "error"}
Messages == Final \cup {"progress", "torn"}    \* torn: cut off in the pipe
Raised   == {"failed", "cancelled"}    \* BacktestWorkerError and the others,
                                       \* BacktestCancelledError
Alive    == {"running", "closing"}     \* process.is_alive()

PoolInit ==
  /\ sem = NoSem
  /\ slot = [j \in Jobs |-> NoSem]
  /\ coroutine = [j \in Jobs |-> "new"]
  /\ free = [s \in Jobs |-> PoolSize]
  /\ waiters = [s \in Jobs |-> <<>>]
  /\ thread = [j \in Jobs |-> "none"]
  /\ reads = [j \in Jobs |-> 0]
  /\ outcome = [j \in Jobs |-> "none"]
  /\ posted = [j \in Jobs |-> "none"]
  /\ child = [j \in Jobs |-> "none"]
  /\ sent = [j \in Jobs |-> 0]
  /\ buffer = [j \in Jobs |-> <<>>]
  /\ pipe = [j \in Jobs |-> <<>>]
  /\ cancelled = {}

-----------------------------------------------------------------------------
(* run, on the event loop *)

\* Mutant: every call makes a semaphore of its own.
SemaphoreFresh(j) == j

\* _semaphore: the current one, or a new one for a call on another loop.
Semaphore(j) == IF sem # NoSem /\ LoopOf(sem) = LoopOf(j) THEN sem ELSE j

\* A call of run takes a slot at once and starts its thread, or queues.
Acquire(j) ==
  /\ coroutine[j] = "new"
  /\ sem' = Semaphore(j)
  /\ slot' = [slot EXCEPT ![j] = sem']
  /\ IF free[sem'] > 0 /\ waiters[sem'] = <<>>
     THEN /\ free' = [free EXCEPT ![sem'] = @ - 1] /\ waiters' = waiters
          /\ coroutine' = [coroutine EXCEPT ![j] = "awaiting"]
          /\ thread' = [thread EXCEPT ![j] = "spawn"]
     ELSE /\ free' = free
          /\ waiters' = [waiters EXCEPT ![sem'] = Append(@, j)]
          /\ coroutine' = [coroutine EXCEPT ![j] = "queued"]
          /\ thread' = thread
  /\ UNCHANGED <<reads, outcome, posted, childVars, cancelled>>

\* A queued call that was handed a slot resumes and starts its thread.
Resume(j) ==
  /\ coroutine[j] = "granted"
  /\ coroutine' = [coroutine EXCEPT ![j] = "awaiting"]
  /\ thread' = [thread EXCEPT ![j] = "spawn"]
  /\ UNCHANGED <<sem, slot, free, waiters, reads, outcome, posted, childVars,
                 cancelled>>

\* Mutant: the callback of a result reads a variable of the thread, too.
RunCallbackLate(j) ==
  /\ posted[j] = "queued"
  /\ posted' = [posted EXCEPT ![j] =
       IF thread[j] = "handler" THEN "resolved" ELSE "lost"]
  /\ UNCHANGED <<loopVars, thread, reads, outcome, childVars, cancelled>>

\* The loop runs the callback.  The callback of a result holds the result.
\* The callback of an exception reads the handler's variable e, which Python
\* unbinds when the handler ends: from then on it raises NameError, the loop
\* logs that, and the future is never resolved.
RunCallback(j) ==
  /\ posted[j] = "queued"
  /\ posted' = [posted EXCEPT ![j] =
       IF outcome[j] = "result" \/ thread[j] = "handler"
       THEN "resolved" ELSE "lost"]
  /\ UNCHANGED <<loopVars, thread, reads, outcome, childVars, cancelled>>

\* Mutant: the slot is released by hand and again by "async with".
ReturnTwice(j) ==
  /\ coroutine[j] = "awaiting" /\ posted[j] = "resolved"
  /\ LET s == slot[j] IN
     IF waiters[s] = <<>>
     THEN /\ free' = [free EXCEPT ![s] = @ + 2] /\ waiters' = waiters
          /\ coroutine' = [coroutine EXCEPT ![j] = "ended"]
     ELSE /\ free' = [free EXCEPT ![s] = @ + 1]
          /\ waiters' = [waiters EXCEPT ![s] = Tail(@)]
          /\ coroutine' = [coroutine EXCEPT ![j] = "ended",
                                            ![Head(waiters[s])] = "granted"]
  /\ UNCHANGED <<sem, slot, threadVars, childVars, cancelled>>

\* Mutant: the slot is freed, but the oldest waiter is not woken.
ReturnNoWake(j) ==
  /\ coroutine[j] = "awaiting" /\ posted[j] = "resolved"
  /\ free' = [free EXCEPT ![slot[j]] = @ + 1]
  /\ coroutine' = [coroutine EXCEPT ![j] = "ended"]
  /\ UNCHANGED <<sem, slot, waiters, threadVars, childVars, cancelled>>

\* The awaited future is resolved: run leaves "async with", which hands the
\* slot to the oldest waiter, and returns or raises in its caller.
Return(j) ==
  /\ coroutine[j] = "awaiting" /\ posted[j] = "resolved"
  /\ LET s == slot[j] IN
     IF waiters[s] = <<>>
     THEN /\ free' = [free EXCEPT ![s] = @ + 1] /\ waiters' = waiters
          /\ coroutine' = [coroutine EXCEPT ![j] = "ended"]
     ELSE /\ free' = free
          /\ waiters' = [waiters EXCEPT ![s] = Tail(@)]
          /\ coroutine' = [coroutine EXCEPT ![j] = "ended",
                                            ![Head(waiters[s])] = "granted"]
  /\ UNCHANGED <<sem, slot, threadVars, childVars, cancelled>>

\* CancelToken.cancel
SetToken(j) ==
  /\ cancelled' = cancelled \cup {j}
  /\ UNCHANGED <<loopVars, threadVars, childVars>>

-----------------------------------------------------------------------------
(* _run_in_thread and _run_sync, on the job's thread.  A read that finds a *)
(* torn message has no step: the parent holds the writing end of the pipe  *)
(* too, so the read waits for the rest of the message, without a timeout.  *)

At(j, s) == thread[j] = s
GoTo(j, s) == thread' = [thread EXCEPT ![j] = s]

\* process.terminate and join: what the child had not flushed is lost.
Terminate(j) == /\ child' = [child EXCEPT ![j] = "dead"]
                /\ buffer' = [buffer EXCEPT ![j] = <<>>]
                /\ UNCHANGED <<sent, pipe>>

Spawn(j) ==
  /\ At(j, "spawn") /\ GoTo(j, "token")
  /\ child' = [child EXCEPT ![j] = "running"]
  /\ UNCHANGED <<loopVars, reads, outcome, posted, sent, buffer, pipe,
                 cancelled>>

\* process.start raises.
SpawnFails(j) ==
  /\ At(j, "spawn") /\ GoTo(j, "post")
  /\ outcome' = [outcome EXCEPT ![j] = "failed"]
  /\ UNCHANGED <<loopVars, reads, posted, childVars, cancelled>>

\* Mutant: the cancellation is raised without terminating the child.
CheckTokenKeepsChild(j) ==
  /\ At(j, "token")
  /\ IF j \in cancelled
     THEN /\ GoTo(j, "post")
          /\ outcome' = [outcome EXCEPT ![j] = "cancelled"]
     ELSE GoTo(j, "get") /\ outcome' = outcome
  /\ UNCHANGED <<loopVars, reads, posted, childVars, cancelled>>

\* Mutant: the loop never looks at the token.
CheckTokenNever(j) ==
  /\ At(j, "token") /\ GoTo(j, "get")
  /\ UNCHANGED <<loopVars, reads, outcome, posted, childVars, cancelled>>

\* Head of the message loop: a set token terminates the child and raises.
CheckToken(j) ==
  /\ At(j, "token")
  /\ IF j \in cancelled
     THEN /\ GoTo(j, "post") /\ Terminate(j)
          /\ outcome' = [outcome EXCEPT ![j] = "cancelled"]
     ELSE GoTo(j, "get") /\ UNCHANGED <<childVars, outcome>>
  /\ UNCHANGED <<loopVars, reads, posted, cancelled>>

\* events.get(timeout=0.1) returns a progress message: progress_cb.
GetProgress(j) ==
  /\ At(j, "get") /\ pipe[j] # <<>> /\ Head(pipe[j]) = "progress"
  /\ pipe' = [pipe EXCEPT ![j] = Tail(@)]
  /\ GoTo(j, "token")
  /\ UNCHANGED <<loopVars, reads, outcome, posted, child, sent, buffer,
                 cancelled>>

\* ... the final message: the loop ends.
GetFinal(j) ==
  /\ At(j, "get") /\ pipe[j] # <<>> /\ Head(pipe[j]) \in Final
  /\ pipe' = [pipe EXCEPT ![j] = Tail(@)]
  /\ outcome' = [outcome EXCEPT ![j] =
       IF Head(pipe[j]) = "result" THEN "result" ELSE "failed"]
  /\ GoTo(j, "join")
  /\ UNCHANGED <<loopVars, reads, posted, child, sent, buffer, cancelled>>

\* ... or queue.Empty: is the child still alive?
GetEmpty(j) ==
  /\ At(j, "get") /\ pipe[j] = <<>>
  /\ GoTo(j, "alive")
  /\ UNCHANGED <<loopVars, reads, outcome, posted, childVars, cancelled>>

\* Mutant: the loop does not notice that the child is dead.
CheckAliveNoBreak(j) ==
  /\ At(j, "alive") /\ GoTo(j, "token")
  /\ UNCHANGED <<loopVars, reads, outcome, posted, childVars, cancelled>>

\* A dead child ends the loop; two more reads drain what it left.
CheckAlive(j) ==
  /\ At(j, "alive")
  /\ IF child[j] \in Alive
     THEN GoTo(j, "token") /\ reads' = reads
     ELSE GoTo(j, "drain") /\ reads' = [reads EXCEPT ![j] = 2]
  /\ UNCHANGED <<loopVars, outcome, posted, childVars, cancelled>>

\* A read of the drain: a progress message uses it up and is dropped.
Drain(j) ==
  /\ At(j, "drain") /\ reads[j] > 0
  /\ pipe[j] # <<>> /\ Head(pipe[j]) # "torn"
  /\ pipe' = [pipe EXCEPT ![j] = Tail(@)]
  /\ reads' = [reads EXCEPT ![j] = @ - 1]
  /\ outcome' = [outcome EXCEPT ![j] =
       CASE Head(pipe[j]) = "result" -> "result"
         [] Head(pipe[j]) = "error"  -> "failed"
         [] OTHER                    -> @]
  /\ UNCHANGED <<loopVars, thread, posted, child, sent, buffer, cancelled>>

DrainDone(j) ==
  /\ At(j, "drain")
  /\ reads[j] = 0 \/ pipe[j] = <<>>
  /\ GoTo(j, "join")
  /\ UNCHANGED <<loopVars, reads, outcome, posted, childVars, cancelled>>

\* join waits for the child and terminates one that takes too long; without
\* a final message _run_sync raises BacktestWorkerError.
Join(j) ==
  /\ At(j, "join") /\ GoTo(j, "post")
  /\ Terminate(j)
  /\ outcome' = [outcome EXCEPT ![j] = IF @ = "none" THEN "failed" ELSE @]
  /\ UNCHANGED <<loopVars, reads, posted, cancelled>>

\* call_soon_threadsafe: after a result the thread is over; in the handler of
\* an exception it still has the variable e to unbind.
Post(j) ==
  /\ At(j, "post")
  /\ posted' = [posted EXCEPT ![j] = "queued"]
  /\ GoTo(j, IF outcome[j] = "result" THEN "over" ELSE "handler")
  /\ UNCHANGED <<loopVars, reads, outcome, childVars, cancelled>>

\* The handler ends: e is unbound, the thread is over.
Unbind(j) ==
  /\ At(j, "handler") /\ GoTo(j, "over")
  /\ UNCHANGED <<loopVars, reads, outcome, posted, childVars, cancelled>>

-----------------------------------------------------------------------------
(* _worker_entry, in the child process *)

Put(j, m) == /\ child[j] = "running"
             /\ buffer' = [buffer EXCEPT ![j] = Append(@, m)]
             /\ UNCHANGED <<pipe, loopVars, threadVars, cancelled>>

PutProgress(j) == /\ sent[j] < MaxProgress
                  /\ Put(j, "progress")
                  /\ sent' = [sent EXCEPT ![j] = @ + 1]
                  /\ child' = child

\* The final message; the child then closes the queue and flushes it.
PutFinal(j) == \E m \in {"result", "error"} :
                 /\ Put(j, m)
                 /\ child' = [child EXCEPT ![j] = "closing"]
                 /\ sent' = sent

\* The feeder thread moves a message into the pipe.
Feed(j) == /\ buffer[j] # <<>>
           /\ pipe' = [pipe EXCEPT ![j] = Append(@, Head(buffer[j]))]
           /\ buffer' = [buffer EXCEPT ![j] = Tail(@)]
           /\ UNCHANGED <<child, sent, loopVars, threadVars, cancelled>>

\* os._exit once the queue is flushed.
Exit(j) == /\ child[j] = "closing" /\ buffer[j] = <<>>
           /\ child' = [child EXCEPT ![j] = "dead"]
           /\ UNCHANGED <<sent, buffer, pipe, loopVars, threadVars, cancelled>>

\* The child dies on its own (out of memory, a signal), between two messages
\* or, as a result is larger than the pipe, in the middle of writing one.
Crash(j) == /\ child[j] \in Alive
            /\ child' = [child EXCEPT ![j] = "dead"]
            /\ buffer' = [buffer EXCEPT ![j] = <<>>]
            /\ \/ pipe' = pipe
               \/ buffer[j] # <<>>
                  /\ pipe' = [pipe EXCEPT ![j] = Append(@, "torn")]
            /\ UNCHANGED <<sent, loopVars, threadVars, cancelled>>

-----------------------------------------------------------------------------

LoopStep(j)   == Resume(j) \/ RunCallback(j)
ThreadStep(j) == \/ Spawn(j)      \/ SpawnFails(j) \/ CheckToken(j)
                 \/ GetFinal(j)   \/ GetEmpty(j)   \/ CheckAlive(j)
                 \/ Drain(j)      \/ DrainDone(j)  \/ Join(j)
                 \/ Post(j)       \/ Unbind(j)
ChildStep(j)  == PutFinal(j) \/ Feed(j) \/ Exit(j) \/ Crash(j)

-----------------------------------------------------------------------------
(* Properties. *)

PoolTypeOK ==
  /\ coroutine \in [Jobs -> {"new", "queued", "granted", "awaiting", "ended"}]
  /\ sem \in Jobs \cup {NoSem}
  /\ slot \in [Jobs -> Jobs \cup {NoSem}]
  /\ free \in [Jobs -> 0 .. PoolSize]
  /\ waiters \in [Jobs -> Seq(Jobs)]
  /\ thread \in [Jobs -> {"none", "spawn", "token", "get", "alive", "drain",
                          "join", "post", "handler", "over"}]
  /\ reads \in [Jobs -> 0 .. 2]
  /\ outcome \in [Jobs -> {"none", "result"} \cup Raised]
  /\ posted \in [Jobs -> {"none", "queued", "resolved", "lost"}]
  /\ child \in [Jobs -> {"none", "running", "closing", "dead"}]
  /\ sent \in [Jobs -> 0 .. MaxProgress]
  /\ buffer \in [Jobs -> Seq(Messages)]
  /\ pipe \in [Jobs -> Seq(Messages)]
  /\ cancelled \subseteq Jobs

Holders(s) ==
  {j \in Jobs : coroutine[j] \in {"granted", "awaiting"} /\ slot[j] = s}

\* The slots of a semaphore are neither created nor dropped, and none is idle
\* while a call of run queues for it (run).
SlotsAccounted ==
  \A s \in Jobs : /\ free[s] + Cardinality(Holders(s)) = PoolSize
                  /\ waiters[s] # <<>> => free[s] = 0

\* No more worker processes are alive than the pool has slots ("a pool of
\* child processes: the semaphore limits the concurrency", WorkerPool).
ChildrenBounded == Cardinality({j \in Jobs : child[j] \in Alive}) <= PoolSize

\* A call of run that is over has left no worker process behind.
NoOrphans == \A j \in Jobs : coroutine[j] = "ended" => child[j] \notin Alive

\* _run_sync gives up on a child only when nothing it delivered is left: "a
\* final message that was delivered is not lost" (worker.py, module docstring).
NothingLeftUnread ==
  \A j \in Jobs : thread[j] = "join" /\ outcome[j] = "none" =>
     \A i \in 1 .. Len(pipe[j]) : pipe[j][i] \notin Final

\* A child that dies is noticed: run raises BacktestWorkerError or returns
\* what the child had delivered ("a failed child, by exception or exit without
\* a result, raises BacktestWorkerError", WorkerPool.run).
DeathIsNoticed == \A j \in Jobs : child[j] = "dead" ~> outcome[j] # "none"
=============================================================================
