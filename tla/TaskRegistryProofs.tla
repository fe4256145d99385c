------------------------- MODULE TaskRegistryProofs -------------------------
(***************************************************************************)
(* Theorems of TaskRegistry, for any number of tasks and pool threads and  *)
(* any interleaving of their steps: the types, the capacity, what is       *)
(* forgotten, that no task loses its coroutine and no worker its           *)
(* cancellation, and the refinement of TaskLifecycle!RacingSpec.           *)
(***************************************************************************)
EXTENDS TaskRegistry, FiniteSetTheorems, TLAPS

\* What each step of a method knows of its frame: whose thread it is on, that
\* it works on a task, and that a finish has a terminal status to write.
FrameOK ==
  \A th \in Threads :
    /\ pc[th] = "idle" <=> op[th] = "none"
    /\ op[th] \in {"admit", "create", "start", "finish"} => th = Loop
    /\ op[th] \in {"poll", "cancel", "create", "start", "finish"}
         => arg[th] \in Tasks
    /\ pc[th] \in {"sweepPending", "sweepFail", "sweepFailFields",
                   "sweepCollect", "sweepDelete"}
         => op[th] \in {"poll", "admit", "create"}
    /\ pc[th] = "count" => op[th] \in {"admit", "create"}
    /\ pc[th] \in {"pollGet", "snapshot", "snapshotBody"}
         => op[th] \in {"poll", "cancel"}
    /\ pc[th] = "cancelGet" => op[th] = "cancel"
    /\ pc[th] \in {"markCheck", "markWrite"} => op[th] = "start"
    /\ pc[th] \in {"finishCheck", "finishStatus", "finishFields"}
         => /\ op[th] \in {"cancel", "finish"}
            /\ target[th] \in Terminal

Typed == TypeOK /\ FrameOK

LEMMA SizeType ==
  ASSUME TypeOK
  PROVE  /\ IsFiniteSet(present)
         /\ Cardinality(present) \in Nat
BY RegistryAssumption, FS_Subset, FS_CardinalityType DEF TypeOK

LEMMA TypedInit == Init => Typed
BY RegistryAssumption DEF Init, Typed, TypeOK, FrameOK, Threads, Statuses,
   Payloads, Steps, Methods

\* The calls that enter the registry keep the types and the frames.
LEMMA TypedCall ==
  ASSUME Typed, LoopCall \/ \E c \in Clients : ClientCall(c)
  PROVE  Typed'
<1> USE RegistryAssumption, SizeType
    DEF Typed, TypeOK, FrameOK, Threads, Enter, Steps, Methods,
        Statuses, Payloads, taskVars, coroVars, threadVars
<1>1. CASE AdmitCall
  BY <1>1 DEF AdmitCall
<1>2. CASE AdmittedFails
  BY <1>2 DEF AdmittedFails
<1>3. ASSUME NEW t \in Tasks, CreateCall(t) PROVE Typed'
  BY <1>3 DEF CreateCall
<1>4. ASSUME NEW t \in Tasks, ExecStart(t) PROVE Typed'
  BY <1>4 DEF ExecStart
<1>5. ASSUME NEW t \in Tasks, ExecFinish(t) PROVE Typed'
  BY <1>5 DEF ExecFinish, Outcomes, Terminal
<1>6. ASSUME NEW c \in Clients, NEW t \in Tasks, PollCall(c, t) PROVE Typed'
  BY <1>6 DEF PollCall
<1>7. ASSUME NEW c \in Clients, NEW t \in Tasks, CancelCall(c, t) PROVE Typed'
  BY <1>7 DEF CancelCall
<1> QED
  BY <1>1, <1>2, <1>3, <1>4, <1>5, <1>6, <1>7 DEF LoopCall, ClientCall

\* The steps of _sweep keep them.
LEMMA TypedSweep ==
  ASSUME Typed, NEW th \in Threads, Sweep(th)
  PROVE  Typed'
<1> USE RegistryAssumption, SizeType
    DEF Typed, TypeOK, FrameOK, Threads, Leave, Goto, StartWalk, Steps,
        Methods, Statuses, Payloads, Active, Terminal, taskVars, coroVars,
        threadVars
<1>1. ASSUME NEW u \in Tasks, SweepPick(th, u) PROVE Typed'
  BY <1>1 DEF SweepPick
<1>2. ASSUME NEW u \in Tasks, SweepDelete(th, u) PROVE Typed'
  BY <1>2 DEF SweepDelete
<1>3. CASE SweepFail(th)
  BY <1>3 DEF SweepFail
<1>4. CASE SweepFailFields(th)
  BY <1>4 DEF SweepFailFields
<1>5. CASE SweepPendingDone(th)
  BY <1>5 DEF SweepPendingDone
<1>6. CASE SweepCollect(th)
  BY <1>6 DEF SweepCollect
<1>7. CASE SweepDone(th)
  BY <1>7 DEF SweepDone
<1>8. CASE SweepRaises(th)
  BY <1>8 DEF SweepRaises, SweepBroken
<1> QED
  BY <1>1, <1>2, <1>3, <1>4, <1>5, <1>6, <1>7, <1>8 DEF Sweep

\* So does every other step.
LEMMA TypedStep ==
  ASSUME Typed, NEW th \in Threads, Step(th)
  PROVE  Typed'
<1> USE RegistryAssumption, SizeType
    DEF Typed, TypeOK, FrameOK, Threads, Leave, Goto, StartWalk, Steps,
        Methods, Statuses, Payloads, Active, Terminal, taskVars, coroVars,
        threadVars
<1>1. CASE AdmitCount(th)
  BY <1>1 DEF AdmitCount
<1>2. CASE CreateInsert(th)
  <2>1. arg[th] \in Tasks
    BY <1>2 DEF CreateInsert
  <2>2. TypeOK'
    BY <1>2, <2>1 DEF CreateInsert
  <2>3. FrameOK'
    BY <1>2 DEF CreateInsert
  <2> QED
    BY <2>2, <2>3
<1>3. CASE CreateFull(th)
  BY <1>3 DEF CreateFull
<1>4. CASE MarkRunningCheck(th)
  BY <1>4 DEF MarkRunningCheck
<1>5. CASE MarkRunningRaises(th)
  BY <1>5 DEF MarkRunningRaises
<1>6. CASE MarkRunningWrite(th)
  <2>1. arg[th] \in Tasks
    BY <1>6 DEF MarkRunningWrite
  <2>2. TypeOK'
    BY <1>6, <2>1 DEF MarkRunningWrite
  <2>3. FrameOK'
    BY <1>6 DEF MarkRunningWrite
  <2> QED
    BY <2>2, <2>3
<1>7. CASE FinishCheck(th)
  <2>1. TypeOK'
    BY <1>7 DEF FinishCheck
  <2>2. FrameOK'
    BY <1>7 DEF FinishCheck
  <2> QED
    BY <2>1, <2>2
<1>8. CASE FinishStatus(th)
  BY <1>8 DEF FinishStatus
<1>9. CASE FinishFields(th)
  <2>1. PayloadOf(target[th]) \in Payloads
    BY <1>9 DEF FinishFields, PayloadOf
  <2>2. payload' \in [Tasks -> Payloads] /\ finished' \in [Tasks -> BOOLEAN]
    BY <1>9, <2>1 DEF FinishFields
  <2>3. coro' \in [Tasks -> {"none", "scheduled", "awaiting", "ended", "leaked"}]
    BY <1>9 DEF FinishFields
  <2>4. CASE op[th] = "cancel"
    <3>1. UNCHANGED <<op, arg, size, expired, target, seen>>
      BY <1>9, <2>4 DEF FinishFields
    <3>2. pc' = [pc EXCEPT ![th] = "snapshot"]
      BY <1>9, <2>4 DEF FinishFields
    <3>3. UNCHANGED <<present, status, token, admitted>> /\ overdue' \subseteq overdue
      BY <1>9 DEF FinishFields
    <3>4. TypeOK'
      <4> HIDE DEF Payloads, Leave
      <4> QED BY <2>2, <2>3, <3>1, <3>2, <3>3
    <3>5. FrameOK'
      BY <1>9, <2>4, <3>1, <3>2, <3>3
    <3> QED
      BY <3>4, <3>5
  <2>5. CASE op[th] # "cancel"
    <3>1. Leave(th)
      BY <1>9, <2>5 DEF FinishFields
    <3>2. UNCHANGED <<present, status, token, admitted>> /\ overdue' \subseteq overdue
      BY <1>9 DEF FinishFields
    <3>3. TypeOK'
      <4> HIDE DEF Payloads
      <4> QED BY <2>2, <2>3, <3>1, <3>2
    <3>4. FrameOK'
      BY <3>1, <3>2
    <3> QED
      BY <3>3, <3>4
  <2> QED
    BY <2>4, <2>5
<1>10. CASE GetRaises(th)
  BY <1>10 DEF GetRaises
<1>11. CASE CancelGet(th)
  <2>1. TypeOK'
    BY <1>11 DEF CancelGet
  <2>2. FrameOK'
    <3>1. CASE status[arg[th]] \in Terminal
      BY <1>11, <3>1 DEF CancelGet
    <3>2. CASE status[arg[th]] \notin Terminal
      <4>1. /\ pc' = [pc EXCEPT ![th] = "finishCheck"]
            /\ target' = [target EXCEPT ![th] = "cancelled"]
            /\ op' = op /\ arg' = arg
        BY <1>11, <3>2 DEF CancelGet
      <4>2. op[th] = "cancel"
        BY <1>11 DEF CancelGet
      <4> QED
        BY <4>1, <4>2
    <3> QED
      BY <3>1, <3>2
  <2> QED
    BY <2>1, <2>2
<1>12. CASE Snapshot(th)
  BY <1>12 DEF Snapshot
<1>13. CASE SnapshotBody(th)
  BY <1>13 DEF SnapshotBody
<1>14. CASE Sweep(th)
  BY <1>14, TypedSweep
<1> QED
  BY <1>1, <1>2, <1>3, <1>4, <1>5, <1>6, <1>7, <1>8, <1>9, <1>10, <1>11,
     <1>12, <1>13, <1>14 DEF Step

LEMMA TypedNext == Typed /\ [Next]_vars => Typed'
<1> SUFFICES ASSUME Typed, [Next]_vars PROVE Typed'
  OBVIOUS
<1>1. ASSUME NEW t \in Tasks, Age(t) PROVE Typed'
  BY <1>1 DEF Age, Typed, TypeOK, FrameOK, coroVars, threadVars
<1>2. CASE UNCHANGED vars
  BY <1>2 DEF vars, taskVars, coroVars, threadVars, Typed, TypeOK, FrameOK
<1> QED
  BY <1>1, <1>2, TypedCall, TypedStep DEF Next

\* Every variable keeps its type, and every frame its shape, for ever.
THEOREM TypeCorrect == Spec => []TypeOK
<1>1. Typed => TypeOK
  BY DEF Typed
<1> QED
  BY <1>1, TypedInit, TypedNext, PTL DEF Spec

-----------------------------------------------------------------------------
(***************************************************************************)
(* The inductive invariant behind the safety properties.  ActiveBound is   *)
(* not inductive by itself: mark_running checks and writes in two steps,   *)
(* so a task failed in between comes back to life.  Such a task is still   *)
(* counted here, and only the event loop, which also runs create, starts   *)
(* tasks.                                                                  *)
(***************************************************************************)
Marking(t)    == pc[Loop] = "markWrite" /\ arg[Loop] = t
Finishing(th) == pc[th] \in {"finishCheck", "finishStatus", "finishFields"}
Reserved      == ActiveTasks \cup {t \in Tasks : Marking(t)}

\* How the fields of one task go together.
TaskOK ==
  \A t \in Tasks :
    /\ status[t] = "none" => t \notin present /\ coro[t] = "none"
    /\ status[t] # "none" /\ t \notin present => status[t] \in Terminal
    /\ finished[t] => status[t] \notin {"none", "pending"}
    /\ status[t] \in Active => coro[t] \in {"scheduled", "awaiting"}
    /\ coro[t] = "scheduled" => status[t] \in {"pending"} \cup Terminal
    /\ coro[t] = "awaiting" => /\ token[t] # "absent"
                               /\ status[t] \notin {"none", "pending"}
    /\ status[t] = "cancelled" /\ coro[t] = "awaiting" => token[t] = "set"

\* What a thread inside a method knows of the task it works on.
ThreadOK ==
  \A th \in Threads :
    /\ op[th] = "create" => status[arg[th]] = "none"
    /\ op[th] = "start" => coro[arg[th]] = "scheduled"
    /\ op[th] = "finish" => coro[arg[th]] = "awaiting"
    /\ op[th] \in {"poll", "cancel"} => Known(arg[th])
    /\ pc[th] = "markCheck" /\ status[arg[th]] = "pending"
         => token[arg[th]] # "absent"
    /\ pc[th] = "markWrite" => /\ token[arg[th]] # "absent"
                               /\ arg[th] \in present
                               /\ ~(finished[arg[th]] /\ arg[th] \in overdue)
    /\ Finishing(th) /\ target[th] = "cancelled" /\ coro[arg[th]] = "awaiting"
         => token[arg[th]] = "set"
    /\ pc[th] = "finishFields" => status[arg[th]] \in Terminal

\* What a sweep knows of the tasks it is about to fail or to delete.
SweepOK ==
  \A th \in Threads : \A u \in expired[th] :
    /\ pc[th] = "sweepDelete" => status[u] \in Terminal /\ ~Marking(u)
    /\ pc[th] = "sweepFail" => status[u] # "none"
    /\ pc[th] = "sweepFailFields" => status[u] \notin {"none", "pending"}

CountOK == Cardinality(Reserved) <= MaxActive

Safe == TaskOK /\ ThreadOK /\ SweepOK /\ CountOK
IInv == Typed /\ Safe

LEMMA OneMore ==
  ASSUME NEW S, NEW x, IsFiniteSet(S)
  PROVE  /\ IsFiniteSet(S \cup {x})
         /\ Cardinality(S \cup {x}) <= Cardinality(S) + 1
         /\ Cardinality(S) \in Nat
<1>1. Cardinality(S) \in Nat
  BY FS_CardinalityType
<1>2. /\ IsFiniteSet(S \cup {x})
      /\ \/ Cardinality(S \cup {x}) = Cardinality(S)
         \/ Cardinality(S \cup {x}) = Cardinality(S) + 1
  BY FS_AddElement
<1> QED
  BY <1>1, <1>2

LEMMA ReservedShrinks ==
  ASSUME CountOK, Reserved' \subseteq Reserved
  PROVE  CountOK'
<1>1. IsFiniteSet(Reserved)
  BY RegistryAssumption, FS_Subset DEF Reserved, ActiveTasks
<1>2. /\ Cardinality(Reserved) \in Nat /\ Cardinality(Reserved') \in Nat
      /\ Cardinality(Reserved') <= Cardinality(Reserved)
  BY <1>1, FS_Subset, FS_CardinalityType
<1> QED
  BY <1>2, RegistryAssumption DEF CountOK

LEMMA SafeInit == Init => Safe
<1> SUFFICES ASSUME Init PROVE Safe
  OBVIOUS
<1>1. TaskOK /\ ThreadOK /\ SweepOK
  BY RegistryAssumption
     DEF Init, TaskOK, ThreadOK, SweepOK, Finishing, Marking, Threads, Active
<1>2. Reserved = {}
  BY DEF Init, Reserved, ActiveTasks, Marking, Active, Threads
<1> QED
  BY <1>1, <1>2, FS_EmptySet, RegistryAssumption DEF Safe, CountOK

\* Calls that enter the registry.
LEMMA SafeCall ==
  ASSUME IInv, LoopCall \/ \E c \in Clients : ClientCall(c)
  PROVE  Safe'
<1> USE RegistryAssumption
    DEF IInv, Safe, Typed, TypeOK, FrameOK, Threads, Terminal, Active, Known,
        Marking, Finishing, taskVars, coroVars, threadVars, Enter
<1>1. CASE AdmitCall
  <2>1. TaskOK'
    BY <1>1 DEF TaskOK, ThreadOK, SweepOK, AdmitCall
  <2>2. ThreadOK'
    BY <1>1 DEF TaskOK, ThreadOK, AdmitCall
  <2>3. SweepOK'
    BY <1>1 DEF TaskOK, ThreadOK, SweepOK, AdmitCall
  <2>4. Reserved' \subseteq Reserved
    BY <1>1 DEF TaskOK, ThreadOK, Reserved, ActiveTasks, AdmitCall
  <2> QED
    BY <2>1, <2>2, <2>3, <2>4, ReservedShrinks
<1>2. CASE AdmittedFails
  <2>1. TaskOK'
    BY <1>2 DEF TaskOK, ThreadOK, SweepOK, AdmittedFails
  <2>2. ThreadOK'
    BY <1>2 DEF TaskOK, ThreadOK, AdmittedFails
  <2>3. SweepOK'
    BY <1>2 DEF TaskOK, ThreadOK, SweepOK, AdmittedFails
  <2>4. Reserved' \subseteq Reserved
    BY <1>2 DEF TaskOK, ThreadOK, Reserved, ActiveTasks, AdmittedFails
  <2> QED
    BY <2>1, <2>2, <2>3, <2>4, ReservedShrinks
<1>3. ASSUME NEW t \in Tasks, CreateCall(t) PROVE Safe'
  <2>1. TaskOK'
    BY <1>3 DEF TaskOK, ThreadOK, SweepOK, CreateCall
  <2>2. ThreadOK'
    BY <1>3 DEF TaskOK, ThreadOK, CreateCall
  <2>3. SweepOK'
    BY <1>3 DEF TaskOK, ThreadOK, SweepOK, CreateCall
  <2>4. Reserved' \subseteq Reserved
    BY <1>3 DEF TaskOK, ThreadOK, Reserved, ActiveTasks, CreateCall
  <2> QED
    BY <2>1, <2>2, <2>3, <2>4, ReservedShrinks
<1>4. ASSUME NEW t \in Tasks, ExecStart(t) PROVE Safe'
  <2>1. TaskOK'
    BY <1>4 DEF TaskOK, ThreadOK, SweepOK, ExecStart
  <2>2. ThreadOK'
    BY <1>4 DEF TaskOK, ThreadOK, ExecStart
  <2>3. SweepOK'
    BY <1>4 DEF TaskOK, ThreadOK, SweepOK, ExecStart
  <2>4. Reserved' \subseteq Reserved
    BY <1>4 DEF TaskOK, ThreadOK, Reserved, ActiveTasks, ExecStart
  <2> QED
    BY <2>1, <2>2, <2>3, <2>4, ReservedShrinks
<1>5. ASSUME NEW t \in Tasks, ExecFinish(t) PROVE Safe'
  <2>1. TaskOK'
    BY <1>5 DEF TaskOK, ThreadOK, SweepOK, ExecFinish, Outcomes
  <2>2. ThreadOK'
    BY <1>5 DEF TaskOK, ThreadOK, ExecFinish, Outcomes
  <2>3. SweepOK'
    BY <1>5 DEF TaskOK, ThreadOK, SweepOK, ExecFinish, Outcomes
  <2>4. Reserved' \subseteq Reserved
    BY <1>5 DEF TaskOK, ThreadOK, Reserved, ActiveTasks, ExecFinish, Outcomes
  <2> QED
    BY <2>1, <2>2, <2>3, <2>4, ReservedShrinks
<1>6. ASSUME NEW c \in Clients, NEW t \in Tasks, PollCall(c, t)
      PROVE  Safe'
  <2>1. TaskOK'
    BY <1>6 DEF TaskOK, ThreadOK, SweepOK, PollCall
  <2>2. ThreadOK'
    BY <1>6 DEF TaskOK, ThreadOK, PollCall
  <2>3. SweepOK'
    BY <1>6 DEF TaskOK, ThreadOK, SweepOK, PollCall
  <2>4. Reserved' \subseteq Reserved
    BY <1>6 DEF TaskOK, ThreadOK, Reserved, ActiveTasks, PollCall
  <2> QED
    BY <2>1, <2>2, <2>3, <2>4, ReservedShrinks
<1>7. ASSUME NEW c \in Clients, NEW t \in Tasks, CancelCall(c, t)
      PROVE  Safe'
  <2>1. TaskOK'
    BY <1>7 DEF TaskOK, ThreadOK, SweepOK, CancelCall
  <2>2. ThreadOK'
    BY <1>7 DEF TaskOK, ThreadOK, CancelCall
  <2>3. SweepOK'
    BY <1>7 DEF TaskOK, ThreadOK, SweepOK, CancelCall
  <2>4. Reserved' \subseteq Reserved
    BY <1>7 DEF TaskOK, ThreadOK, Reserved, ActiveTasks, CancelCall
  <2> QED
    BY <2>1, <2>2, <2>3, <2>4, ReservedShrinks
<1> QED
  BY <1>1, <1>2, <1>3, <1>4, <1>5, <1>6, <1>7
     DEF LoopCall, ClientCall

\* The steps of _sweep.
LEMMA SafeSweep ==
  ASSUME IInv, NEW th \in Threads, Sweep(th)
  PROVE  Safe'
<1> USE RegistryAssumption
    DEF IInv, Safe, Typed, TypeOK, FrameOK, Threads, Terminal, Active, Known,
        Marking, Finishing, taskVars, coroVars, threadVars, Leave, Goto, StartWalk
<1>1. ASSUME NEW u \in Tasks, SweepPick(th, u) PROVE Safe'
  <2>1. TaskOK'
    BY <1>1 DEF TaskOK, ThreadOK, SweepOK, SweepPick
  <2>2. ThreadOK'
    BY <1>1 DEF TaskOK, ThreadOK, SweepPick
  <2>3. SweepOK'
    BY <1>1 DEF TaskOK, ThreadOK, SweepOK, SweepPick
  <2>4. Reserved' \subseteq Reserved
    BY <1>1 DEF TaskOK, ThreadOK, Reserved, ActiveTasks, SweepPick
  <2> QED
    BY <2>1, <2>2, <2>3, <2>4, ReservedShrinks
<1>2. ASSUME NEW u \in Tasks, SweepDelete(th, u) PROVE Safe'
  <2>1. TaskOK'
    BY <1>2 DEF TaskOK, ThreadOK, SweepOK, SweepDelete
  <2>2. ThreadOK'
    BY <1>2 DEF TaskOK, ThreadOK, SweepOK, SweepDelete
  <2>3. SweepOK'
    BY <1>2 DEF TaskOK, ThreadOK, SweepOK, SweepDelete
  <2>4. Reserved' \subseteq Reserved
    BY <1>2 DEF TaskOK, ThreadOK, Reserved, ActiveTasks, SweepDelete
  <2> QED
    BY <2>1, <2>2, <2>3, <2>4, ReservedShrinks
<1>3. CASE SweepFail(th)
  <2>1. TaskOK'
    BY <1>3 DEF TaskOK, ThreadOK, SweepOK, SweepFail
  <2>2. ThreadOK'
    BY <1>3 DEF TaskOK, ThreadOK, SweepOK, SweepFail
  <2>3. SweepOK'
    BY <1>3 DEF TaskOK, ThreadOK, SweepOK, SweepFail
  <2>4. Reserved' \subseteq Reserved
    BY <1>3 DEF TaskOK, ThreadOK, Reserved, ActiveTasks, SweepFail
  <2> QED
    BY <2>1, <2>2, <2>3, <2>4, ReservedShrinks
<1>4. CASE SweepFailFields(th)
  <2>1. TaskOK'
    BY <1>4 DEF TaskOK, ThreadOK, SweepOK, SweepFailFields
  <2>2. ThreadOK'
    BY <1>4 DEF TaskOK, ThreadOK, SweepFailFields
  <2>3. SweepOK'
    BY <1>4 DEF TaskOK, ThreadOK, SweepOK, SweepFailFields
  <2>4. Reserved' \subseteq Reserved
    BY <1>4 DEF TaskOK, ThreadOK, Reserved, ActiveTasks, SweepFailFields
  <2> QED
    BY <2>1, <2>2, <2>3, <2>4, ReservedShrinks
<1>5. CASE SweepPendingDone(th)
  <2>1. TaskOK'
    BY <1>5 DEF TaskOK, ThreadOK, SweepOK, SweepPendingDone
  <2>2. ThreadOK'
    BY <1>5 DEF TaskOK, ThreadOK, SweepPendingDone
  <2>3. SweepOK'
    BY <1>5 DEF TaskOK, ThreadOK, SweepOK, SweepPendingDone
  <2>4. Reserved' \subseteq Reserved
    BY <1>5 DEF TaskOK, ThreadOK, Reserved, ActiveTasks, SweepPendingDone
  <2> QED
    BY <2>1, <2>2, <2>3, <2>4, ReservedShrinks
<1>6. CASE SweepCollect(th)
  <2>1. TaskOK'
    BY <1>6 DEF TaskOK, ThreadOK, SweepOK, SweepCollect
  <2>2. ThreadOK'
    BY <1>6 DEF TaskOK, ThreadOK, SweepCollect
  <2>3. SweepOK'
    BY <1>6 DEF TaskOK, ThreadOK, SweepOK, SweepCollect
  <2>4. Reserved' \subseteq Reserved
    BY <1>6 DEF TaskOK, ThreadOK, Reserved, ActiveTasks, SweepCollect
  <2> QED
    BY <2>1, <2>2, <2>3, <2>4, ReservedShrinks
<1>7. CASE SweepDone(th)
  <2>1. TaskOK'
    BY <1>7 DEF TaskOK, ThreadOK, SweepOK, SweepDone
  <2>2. ThreadOK'
    BY <1>7 DEF TaskOK, ThreadOK, SweepDone
  <2>3. SweepOK'
    BY <1>7 DEF TaskOK, ThreadOK, SweepOK, SweepDone
  <2>4. Reserved' \subseteq Reserved
    BY <1>7 DEF TaskOK, ThreadOK, Reserved, ActiveTasks, SweepDone
  <2> QED
    BY <2>1, <2>2, <2>3, <2>4, ReservedShrinks
<1>8. CASE SweepRaises(th)
  <2>1. TaskOK'
    BY <1>8 DEF TaskOK, ThreadOK, SweepOK, SweepRaises, SweepBroken
  <2>2. ThreadOK'
    BY <1>8 DEF TaskOK, ThreadOK, SweepRaises, SweepBroken
  <2>3. SweepOK'
    BY <1>8 DEF TaskOK, ThreadOK, SweepOK, SweepRaises, SweepBroken
  <2>4. Reserved' \subseteq Reserved
    BY <1>8 DEF TaskOK, ThreadOK, Reserved, ActiveTasks, SweepRaises, SweepBroken
  <2> QED
    BY <2>1, <2>2, <2>3, <2>4, ReservedShrinks
<1> QED
  BY <1>1, <1>2, <1>3, <1>4, <1>5, <1>6, <1>7, <1>8
     DEF Sweep

\* Every other step.
LEMMA SafeStep ==
  ASSUME IInv, NEW th \in Threads, Step(th)
  PROVE  Safe'
<1> USE RegistryAssumption
    DEF IInv, Safe, Typed, TypeOK, FrameOK, Threads, Terminal, Active, Known,
        Marking, Finishing, taskVars, coroVars, threadVars, Leave, Goto
<1>1. CASE AdmitCount(th)
  <2>1. TaskOK'
    BY <1>1 DEF TaskOK, ThreadOK, SweepOK, AdmitCount
  <2>2. ThreadOK'
    BY <1>1 DEF TaskOK, ThreadOK, AdmitCount
  <2>3. SweepOK'
    BY <1>1 DEF TaskOK, ThreadOK, SweepOK, AdmitCount
  <2>4. Reserved' \subseteq Reserved
    BY <1>1 DEF TaskOK, ThreadOK, Reserved, ActiveTasks, AdmitCount
  <2> QED
    BY <2>1, <2>2, <2>3, <2>4, ReservedShrinks
<1>2. CASE CreateInsert(th)
  <2>1. TaskOK'
    BY <1>2 DEF TaskOK, ThreadOK, SweepOK, CreateInsert
  <2>2. ThreadOK'
    BY <1>2 DEF TaskOK, ThreadOK, CreateInsert
  <2>3. SweepOK'
    BY <1>2 DEF TaskOK, ThreadOK, SweepOK, CreateInsert
  <2>4. Reserved = {t \in present : status[t] \in Active}
    <3>1. th = Loop /\ pc[Loop] = "count"
      BY <1>2 DEF CreateInsert
    <3> QED
      BY <3>1 DEF TaskOK, Reserved, ActiveTasks
  <2>5. Reserved' \subseteq Reserved \cup {arg[th]}
    BY <1>2 DEF Reserved, ActiveTasks, CreateInsert
  <2>6. CountOK'
    <3>1. Cardinality(Reserved) < MaxActive
      BY <1>2, <2>4 DEF CreateInsert, ActiveCount
    <3>2. IsFiniteSet(Reserved)
      BY FS_Subset DEF Reserved, ActiveTasks
    <3>3. /\ IsFiniteSet(Reserved \cup {arg[th]})
          /\ Cardinality(Reserved \cup {arg[th]}) <= Cardinality(Reserved) + 1
          /\ Cardinality(Reserved) \in Nat
      BY <3>2, OneMore
    <3>4. /\ Cardinality(Reserved') <= Cardinality(Reserved \cup {arg[th]})
          /\ Cardinality(Reserved') \in Nat
          /\ Cardinality(Reserved \cup {arg[th]}) \in Nat
      BY <2>5, <3>3, FS_Subset, FS_CardinalityType
    <3> QED
      BY <3>1, <3>3, <3>4 DEF CountOK
  <2> QED
    BY <2>1, <2>2, <2>3, <2>6
<1>3. CASE CreateFull(th)
  <2>1. TaskOK'
    BY <1>3 DEF TaskOK, ThreadOK, SweepOK, CreateFull
  <2>2. ThreadOK'
    BY <1>3 DEF TaskOK, ThreadOK, CreateFull
  <2>3. SweepOK'
    BY <1>3 DEF TaskOK, ThreadOK, SweepOK, CreateFull
  <2>4. Reserved' \subseteq Reserved
    BY <1>3 DEF TaskOK, ThreadOK, Reserved, ActiveTasks, CreateFull
  <2> QED
    BY <2>1, <2>2, <2>3, <2>4, ReservedShrinks
<1>4. CASE MarkRunningCheck(th)
  <2>1. TaskOK'
    BY <1>4 DEF TaskOK, ThreadOK, SweepOK, MarkRunningCheck
  <2>2. ThreadOK'
    BY <1>4 DEF TaskOK, ThreadOK, MarkRunningCheck
  <2>3. SweepOK'
    BY <1>4 DEF TaskOK, ThreadOK, SweepOK, MarkRunningCheck
  <2>4. Reserved' \subseteq Reserved
    BY <1>4 DEF TaskOK, ThreadOK, Reserved, ActiveTasks, MarkRunningCheck
  <2> QED
    BY <2>1, <2>2, <2>3, <2>4, ReservedShrinks
<1>5. CASE MarkRunningRaises(th)
  <2>1. TaskOK'
    BY <1>5 DEF TaskOK, ThreadOK, SweepOK, MarkRunningRaises
  <2>2. ThreadOK'
    BY <1>5 DEF TaskOK, ThreadOK, MarkRunningRaises
  <2>3. SweepOK'
    BY <1>5 DEF TaskOK, ThreadOK, SweepOK, MarkRunningRaises
  <2>4. Reserved' \subseteq Reserved
    BY <1>5 DEF TaskOK, ThreadOK, Reserved, ActiveTasks, MarkRunningRaises
  <2> QED
    BY <2>1, <2>2, <2>3, <2>4, ReservedShrinks
<1>6. CASE MarkRunningWrite(th)
  <2>1. TaskOK'
    BY <1>6 DEF TaskOK, ThreadOK, SweepOK, MarkRunningWrite
  <2>2. ThreadOK'
    BY <1>6 DEF TaskOK, ThreadOK, MarkRunningWrite
  <2>3. SweepOK'
    BY <1>6 DEF TaskOK, ThreadOK, SweepOK, MarkRunningWrite
  <2>4. Reserved' \subseteq Reserved
    BY <1>6 DEF TaskOK, ThreadOK, Reserved, ActiveTasks, MarkRunningWrite
  <2> QED
    BY <2>1, <2>2, <2>3, <2>4, ReservedShrinks
<1>7. CASE FinishCheck(th)
  <2>1. TaskOK'
    BY <1>7 DEF TaskOK, ThreadOK, SweepOK, FinishCheck
  <2>2. ThreadOK'
    BY <1>7 DEF TaskOK, ThreadOK, FinishCheck
  <2>3. SweepOK'
    BY <1>7 DEF TaskOK, ThreadOK, SweepOK, FinishCheck
  <2>4. Reserved' \subseteq Reserved
    BY <1>7 DEF TaskOK, ThreadOK, Reserved, ActiveTasks, FinishCheck
  <2> QED
    BY <2>1, <2>2, <2>3, <2>4, ReservedShrinks
<1>8. CASE FinishStatus(th)
  <2>1. TaskOK'
    BY <1>8 DEF TaskOK, ThreadOK, SweepOK, FinishStatus
  <2>2. ThreadOK'
    BY <1>8 DEF TaskOK, ThreadOK, FinishStatus
  <2>3. SweepOK'
    BY <1>8 DEF TaskOK, ThreadOK, SweepOK, FinishStatus
  <2>4. Reserved' \subseteq Reserved
    BY <1>8 DEF TaskOK, ThreadOK, Reserved, ActiveTasks, FinishStatus
  <2> QED
    BY <2>1, <2>2, <2>3, <2>4, ReservedShrinks
<1>9. CASE FinishFields(th)
  <2>1. TaskOK'
    BY <1>9 DEF TaskOK, ThreadOK, SweepOK, FinishFields
  <2>2. ThreadOK'
    BY <1>9 DEF TaskOK, ThreadOK, FinishFields
  <2>3. SweepOK'
    BY <1>9 DEF TaskOK, ThreadOK, SweepOK, FinishFields
  <2>4. Reserved' \subseteq Reserved
    BY <1>9 DEF TaskOK, ThreadOK, Reserved, ActiveTasks, FinishFields
  <2> QED
    BY <2>1, <2>2, <2>3, <2>4, ReservedShrinks
<1>10. CASE GetRaises(th)
  <2>1. TaskOK'
    BY <1>10 DEF TaskOK, ThreadOK, SweepOK, GetRaises
  <2>2. ThreadOK'
    BY <1>10 DEF TaskOK, ThreadOK, GetRaises
  <2>3. SweepOK'
    BY <1>10 DEF TaskOK, ThreadOK, SweepOK, GetRaises
  <2>4. Reserved' \subseteq Reserved
    BY <1>10 DEF TaskOK, ThreadOK, Reserved, ActiveTasks, GetRaises
  <2> QED
    BY <2>1, <2>2, <2>3, <2>4, ReservedShrinks
<1>11. CASE CancelGet(th)
  <2>1. TaskOK'
    BY <1>11 DEF TaskOK, ThreadOK, SweepOK, CancelGet
  <2>2. ThreadOK'
    BY <1>11 DEF TaskOK, ThreadOK, CancelGet
  <2>3. SweepOK'
    BY <1>11 DEF TaskOK, ThreadOK, SweepOK, CancelGet
  <2>4. Reserved' \subseteq Reserved
    BY <1>11 DEF TaskOK, ThreadOK, Reserved, ActiveTasks, CancelGet
  <2> QED
    BY <2>1, <2>2, <2>3, <2>4, ReservedShrinks
<1>12. CASE Snapshot(th)
  <2>1. TaskOK'
    BY <1>12 DEF TaskOK, ThreadOK, SweepOK, Snapshot
  <2>2. ThreadOK'
    BY <1>12 DEF TaskOK, ThreadOK, Snapshot
  <2>3. SweepOK'
    BY <1>12 DEF TaskOK, ThreadOK, SweepOK, Snapshot
  <2>4. Reserved' \subseteq Reserved
    BY <1>12 DEF TaskOK, ThreadOK, Reserved, ActiveTasks, Snapshot
  <2> QED
    BY <2>1, <2>2, <2>3, <2>4, ReservedShrinks
<1>13. CASE SnapshotBody(th)
  <2>1. TaskOK'
    BY <1>13 DEF TaskOK, ThreadOK, SweepOK, SnapshotBody
  <2>2. ThreadOK'
    BY <1>13 DEF TaskOK, ThreadOK, SnapshotBody
  <2>3. SweepOK'
    BY <1>13 DEF TaskOK, ThreadOK, SweepOK, SnapshotBody
  <2>4. Reserved' \subseteq Reserved
    BY <1>13 DEF TaskOK, ThreadOK, Reserved, ActiveTasks, SnapshotBody
  <2> QED
    BY <2>1, <2>2, <2>3, <2>4, ReservedShrinks
<1>14. CASE Sweep(th)
  BY <1>14, SafeSweep
<1> QED
  BY <1>1, <1>2, <1>3, <1>4, <1>5, <1>6, <1>7, <1>8, <1>9, <1>10, <1>11,
     <1>12, <1>13,
     <1>14
     DEF Step

LEMMA SafeAge ==
  ASSUME IInv, NEW t \in Tasks, Age(t)
  PROVE  Safe'
<1> USE DEF IInv, Safe, Typed, TypeOK, FrameOK, Threads, Marking, Finishing,
            Known, coroVars, threadVars
<1>1. TaskOK' /\ SweepOK'
  BY DEF TaskOK, SweepOK, Age
<1>2. ThreadOK'
  BY DEF ThreadOK, Age
<1>3. Reserved' \subseteq Reserved
  BY DEF Reserved, ActiveTasks, Age
<1> QED
  BY <1>1, <1>2, <1>3, ReservedShrinks

LEMMA SafeNext == IInv /\ [Next]_vars => Safe'
<1> SUFFICES ASSUME IInv, [Next]_vars PROVE Safe'
  OBVIOUS
<1>1. CASE UNCHANGED vars
  BY <1>1 DEF vars, taskVars, coroVars, threadVars, IInv, Safe, TaskOK,
     ThreadOK, SweepOK, CountOK, Reserved, ActiveTasks, Marking, Finishing,
     Known
<1> QED
  BY <1>1, SafeCall, SafeStep, SafeAge DEF Next

LEMMA Invariance == Spec => []IInv
<1>1. Init => IInv
  BY TypedInit, SafeInit DEF IInv
<1>2. IInv /\ [Next]_vars => IInv'
  BY TypedNext, SafeNext DEF IInv
<1> QED
  BY <1>1, <1>2, PTL DEF Spec

-----------------------------------------------------------------------------

\* create never lets more than MAX_ACTIVE_TASKS tasks be pending or running,
\* although pool threads fail, cancel and forget tasks while it counts.
THEOREM CapacityHolds == Spec => []ActiveBound
<1>1. IInv => ActiveBound
  <2> SUFFICES ASSUME IInv PROVE ActiveBound
    OBVIOUS
  <2>1. ActiveTasks \subseteq Reserved /\ IsFiniteSet(Reserved)
    BY RegistryAssumption, FS_Subset DEF Reserved, ActiveTasks
  <2>2. /\ Cardinality(ActiveTasks) <= Cardinality(Reserved)
        /\ Cardinality(Reserved) \in Nat /\ Cardinality(ActiveTasks) \in Nat
    BY <2>1, FS_Subset, FS_CardinalityType
  <2> QED
    BY <2>2, RegistryAssumption DEF IInv, Safe, CountOK, ActiveBound
<1> QED
  BY <1>1, Invariance, PTL

\* A task that _sweep deleted had ended, whatever the threads were doing.
THEOREM ForgetsOnlyEnded == Spec => []ForgottenHaveEnded
<1>1. IInv => ForgottenHaveEnded
  BY DEF IInv, Safe, TaskOK, ForgottenHaveEnded
<1> QED
  BY <1>1, Invariance, PTL

\* A pending or running task always has its executor coroutine.
THEOREM NoTaskAbandoned == Spec => []NoZombie
<1>1. IInv => NoZombie
  BY DEF IInv, Safe, TaskOK, NoZombie, ActiveTasks
<1> QED
  BY <1>1, Invariance, PTL

\* A cancelled task whose worker still runs has its token set.
THEOREM CancelIsSeen == Spec => []CancelReachesWorker
<1>1. IInv => CancelReachesWorker
  BY DEF IInv, Safe, TaskOK, CancelReachesWorker
<1> QED
  BY <1>1, Invariance, PTL

-----------------------------------------------------------------------------
(***************************************************************************)
(* The refinement.  A method that checked a status may find another one    *)
(* when it writes; RaceOK says which.                                      *)
(***************************************************************************)
RaceOK ==
  \A th \in Threads :
    /\ pc[th] = "markWrite" => status[arg[th]] \in {"pending", "failed"}
    /\ pc[th] = "sweepFail" => \E u \in Tasks : expired[th] = {u}

LEMMA RaceInit == Init => RaceOK
BY DEF Init, RaceOK

\* A method that is entered neither starts a task nor fails one.
LEMMA RaceCall ==
  ASSUME IInv, RaceOK, LoopCall \/ \E c \in Clients : ClientCall(c)
  PROVE  RaceOK'
<1> USE DEF IInv, Typed, TypeOK, Threads, RaceOK, Enter, taskVars, coroVars, threadVars
<1>1. CASE AdmitCall
  BY <1>1 DEF AdmitCall
<1>2. CASE AdmittedFails
  BY <1>2 DEF AdmittedFails
<1>3. ASSUME NEW t \in Tasks, CreateCall(t) PROVE RaceOK'
  BY <1>3 DEF CreateCall
<1>4. ASSUME NEW t \in Tasks, ExecStart(t) PROVE RaceOK'
  BY <1>4 DEF ExecStart
<1>5. ASSUME NEW t \in Tasks, ExecFinish(t) PROVE RaceOK'
  BY <1>5 DEF ExecFinish
<1>6. ASSUME NEW c \in Clients, NEW t \in Tasks, PollCall(c, t) PROVE RaceOK'
  BY <1>6 DEF PollCall
<1>7. ASSUME NEW c \in Clients, NEW t \in Tasks, CancelCall(c, t) PROVE RaceOK'
  BY <1>7 DEF CancelCall
<1> QED
  BY <1>1, <1>2, <1>3, <1>4, <1>5, <1>6, <1>7 DEF LoopCall, ClientCall

\* A sweep picks one pending task at a time, and what it writes is "failed".
LEMMA RaceSweep ==
  ASSUME IInv, RaceOK, NEW th \in Threads, Sweep(th)
  PROVE  RaceOK'
<1> USE DEF IInv, Typed, TypeOK, FrameOK, RaceOK, Leave, Goto, StartWalk,
            taskVars, coroVars, threadVars
<1>1. ASSUME NEW u \in Tasks, SweepPick(th, u) PROVE RaceOK'
  BY <1>1 DEF SweepPick
<1>2. ASSUME NEW u \in Tasks, SweepDelete(th, u) PROVE RaceOK'
  BY <1>2 DEF SweepDelete
<1>3. CASE SweepFail(th)
  BY <1>3 DEF SweepFail
<1>4. CASE SweepFailFields(th)
  BY <1>4 DEF SweepFailFields
<1>5. CASE SweepPendingDone(th)
  BY <1>5 DEF SweepPendingDone
<1>6. CASE SweepCollect(th)
  BY <1>6 DEF SweepCollect
<1>7. CASE SweepDone(th)
  BY <1>7 DEF SweepDone
<1>8. CASE SweepRaises(th)
  BY <1>8 DEF SweepRaises
<1> QED
  BY <1>1, <1>2, <1>3, <1>4, <1>5, <1>6, <1>7, <1>8 DEF Sweep

\* Nobody who could end a task knows of it before it has started.
LEMMA NotYetKnown ==
  ASSUME IInv, NEW th \in Threads, NEW o \in Threads, pc[th] = "markWrite",
         op[o] \in {"poll", "cancel", "finish"}
  PROVE  arg[o] # arg[th]
BY DEF IInv, Typed, FrameOK, Safe, ThreadOK, Known

LEMMA RaceFinish ==
  ASSUME IInv, RaceOK, NEW th \in Threads, FinishStatus(th)
  PROVE  RaceOK'
<1>1. /\ status' = [status EXCEPT ![arg[th]] = target[th]]
      /\ pc' = [pc EXCEPT ![th] = "finishFields"]
      /\ arg' = arg /\ expired' = expired
  BY DEF FinishStatus, Goto
<1>2. op[th] \in {"cancel", "finish"}
  BY DEF IInv, Typed, FrameOK, FinishStatus
<1>3. \A o \in Threads : pc[o] = "markWrite" => arg[o] # arg[th]
  BY <1>2, NotYetKnown
<1> QED
  BY <1>1, <1>3 DEF RaceOK, IInv, Typed, TypeOK, FrameOK

\* So does every other step of a thread.
LEMMA RaceStep ==
  ASSUME IInv, RaceOK, NEW th \in Threads, Step(th)
  PROVE  RaceOK'
<1> USE DEF IInv, Typed, TypeOK, FrameOK, RaceOK, Leave, Goto, StartWalk,
            taskVars, coroVars, threadVars
<1>1. CASE AdmitCount(th)
  BY <1>1 DEF AdmitCount
<1>2. CASE CreateInsert(th)
  <2>1. /\ status' = [status EXCEPT ![arg[th]] = "pending"]
        /\ pc' = [pc EXCEPT ![th] = "idle"]
    BY <1>2 DEF CreateInsert
  <2>2. \A o \in Threads : (arg'[o] = arg[o] /\ expired'[o] = expired[o]) \/ o = th
    BY <1>2 DEF CreateInsert
  <2>3. \A o \in Threads : pc[o] = "markWrite" => status'[arg[o]] \in {"pending", "failed"}
    BY <2>1
  <2> QED
    BY <2>1, <2>2, <2>3
<1>3. CASE CreateFull(th)
  BY <1>3 DEF CreateFull
<1>4. CASE MarkRunningCheck(th)
  BY <1>4 DEF MarkRunningCheck
<1>5. CASE MarkRunningRaises(th)
  BY <1>5 DEF MarkRunningRaises
<1>6. CASE MarkRunningWrite(th)
  <2>1. \A o \in Threads : pc[o] = "markWrite" => o = th
    BY <1>6 DEF MarkRunningWrite
  <2> QED
    BY <1>6, <2>1 DEF MarkRunningWrite
<1>7. CASE FinishCheck(th)
  BY <1>7 DEF FinishCheck
<1>8. CASE FinishStatus(th)
  BY <1>8, RaceFinish
<1>9. CASE FinishFields(th)
  BY <1>9 DEF FinishFields
<1>10. CASE GetRaises(th)
  BY <1>10 DEF GetRaises
<1>11. CASE CancelGet(th)
  BY <1>11 DEF CancelGet
<1>12. CASE Snapshot(th) \/ SnapshotBody(th)
  BY <1>12 DEF Snapshot, SnapshotBody
<1> QED
  BY <1>1, <1>2, <1>3, <1>4, <1>5, <1>6, <1>7, <1>8, <1>9, <1>10, <1>11, <1>12,
     RaceSweep DEF Step

LEMMA RaceInvariance == Spec => [](IInv /\ RaceOK)
<1>1. IInv /\ RaceOK /\ [Next]_vars => RaceOK'
  <2> SUFFICES ASSUME IInv, RaceOK, [Next]_vars PROVE RaceOK'
    OBVIOUS
  <2>1. CASE UNCHANGED vars
    BY <2>1 DEF vars, taskVars, coroVars, threadVars, RaceOK
  <2>2. ASSUME NEW t \in Tasks, Age(t) PROVE RaceOK'
    BY <2>2 DEF Age, coroVars, threadVars, RaceOK
  <2> QED
    BY <2>1, <2>2, RaceCall, RaceStep DEF Next
<1> QED
  BY <1>1, RaceInit, Invariance, PTL DEF Spec

\* Where a task is in its life follows its status.
LEMMA PhaseIs ==
  ASSUME IInv, NEW t \in Tasks
  PROVE  /\ t \in present => phase[t] = status[t]
         /\ status[t] = "none" => phase[t] = "none"
         /\ phase[t] \in Active <=> t \in present /\ status[t] \in Active
BY DEF IInv, Safe, TaskOK, phase, Active

LEMMA PhaseStays ==
  ASSUME status' = status, present' = present
  PROVE  phase' = phase
BY DEF phase

\* A task takes a new status: one that is forgotten stays so.
LEMMA PhaseMoves ==
  ASSUME IInv, NEW t \in Tasks, status[t] # "none", NEW s, s # "none",
         status' = [status EXCEPT ![t] = s], present' = present
  PROVE  phase' = IF t \in present THEN [phase EXCEPT ![t] = s] ELSE phase
BY DEF IInv, Typed, TypeOK, phase

LEMMA RegisterStep ==
  ASSUME IInv, NEW th \in Threads, CreateInsert(th)
  PROVE  Lifecycle!RacingNext
<1> DEFINE t == arg[th]
<1>1. t \in Tasks /\ status[t] = "none" /\ t \notin present
  BY DEF IInv, Typed, FrameOK, Safe, TaskOK, ThreadOK, CreateInsert
<1>2. status' = [status EXCEPT ![t] = "pending"] /\ present' = present \cup {t}
  BY DEF CreateInsert
<1>3. phase' = [phase EXCEPT ![t] = "pending"]
  BY <1>1, <1>2 DEF IInv, Typed, TypeOK, phase
<1>4. Lifecycle!LiveNow = {u \in present : status[u] \in Active}
  BY PhaseIs DEF Lifecycle!LiveNow, Lifecycle!Live, Active, IInv, Typed, TypeOK
<1>5. Lifecycle!Cardinality(Lifecycle!LiveNow) < MaxActive
  <2>1. Cardinality(Lifecycle!LiveNow) < MaxActive
    BY <1>4 DEF CreateInsert, ActiveCount
  <2>2. \A S : Lifecycle!Cardinality(S) = Cardinality(S)
    BY DEF Lifecycle!Cardinality, Cardinality
  <2> QED
    BY <2>1, <2>2
<1>6. Lifecycle!Register(t)
  BY <1>1, <1>3, <1>5, PhaseIs DEF Lifecycle!Register, Lifecycle!Move
<1> QED
  BY <1>1, <1>6 DEF Lifecycle!RacingNext, Lifecycle!Next

LEMMA StartStep ==
  ASSUME IInv, RaceOK, NEW th \in Threads, MarkRunningWrite(th)
  PROVE  Lifecycle!RacingNext
<1> DEFINE t == arg[th]
<1>1. t \in Tasks /\ t \in present /\ status[t] \in {"pending", "failed"}
  BY DEF IInv, Typed, FrameOK, Safe, ThreadOK, RaceOK, MarkRunningWrite
<1>2. phase' = [phase EXCEPT ![t] = "running"]
  BY <1>1, PhaseMoves DEF MarkRunningWrite
<1>3. Lifecycle!Start(t) \/ Lifecycle!Restart(t)
  BY <1>1, <1>2, PhaseIs DEF Lifecycle!Start, Lifecycle!Restart, Lifecycle!Move
<1> QED
  BY <1>1, <1>3 DEF Lifecycle!RacingNext, Lifecycle!Next

\* A task that a client knows, or whose coroutine waits, has started.
LEMMA Started ==
  ASSUME IInv, NEW th \in Threads, Finishing(th)
  PROVE  /\ arg[th] \in Tasks
         /\ status[arg[th]] \in {"running"} \cup Terminal
         /\ arg[th] \notin present => status[arg[th]] \in Terminal
<1>1. arg[th] \in Tasks /\ op[th] \in {"cancel", "finish"}
  BY DEF IInv, Typed, FrameOK, Finishing
<1>2. coro[arg[th]] \in {"awaiting", "ended", "leaked"}
  BY <1>1 DEF IInv, Safe, ThreadOK, Known
<1>3. status[arg[th]] \notin {"none", "pending"}
  BY <1>1, <1>2 DEF IInv, Safe, TaskOK, Active
<1> QED
  BY <1>1, <1>3 DEF IInv, Typed, TypeOK, Safe, TaskOK, Statuses, Active

LEMMA FinishStep ==
  ASSUME IInv, NEW th \in Threads, FinishStatus(th)
  PROVE  [Lifecycle!RacingNext]_phase
<1> DEFINE t == arg[th]
           s == target[th]
<1>1. /\ t \in Tasks /\ s \in Terminal
      /\ status[t] \in {"running"} \cup Terminal
  BY Started DEF IInv, Typed, FrameOK, Finishing, FinishStatus
<1>2. CASE t \notin present
  BY <1>1, <1>2, PhaseMoves DEF FinishStatus, Terminal
<1>3. CASE t \in present
  <2>1. phase' = [phase EXCEPT ![t] = s] /\ phase[t] = status[t]
    BY <1>1, <1>3, PhaseMoves, PhaseIs DEF FinishStatus, Terminal
  <2>2. CASE status[t] = "running"
    <3>1. Lifecycle!Complete(t) \/ Lifecycle!Fail(t) \/ Lifecycle!Cancel(t)
      BY <1>1, <2>1, <2>2
         DEF Terminal, Lifecycle!Complete, Lifecycle!Fail, Lifecycle!Cancel,
             Lifecycle!Move, Lifecycle!Live
    <3> QED
      BY <1>1, <3>1 DEF Lifecycle!RacingNext, Lifecycle!Next
  <2>3. CASE status[t] \in Terminal
    <3>1. Lifecycle!EndAgain(t)
      BY <1>1, <2>1, <2>3 DEF Terminal, Lifecycle!EndAgain, Lifecycle!Move, Lifecycle!Ended
    <3> QED
      BY <1>1, <3>1 DEF Lifecycle!RacingNext
  <2> QED
    BY <1>1, <2>2, <2>3
<1> QED
  BY <1>2, <1>3

LEMMA ExpireStep ==
  ASSUME IInv, RaceOK, NEW th \in Threads, SweepFail(th)
  PROVE  [Lifecycle!RacingNext]_phase
<1>1. PICK u \in Tasks : expired[th] = {u}
  BY DEF RaceOK, SweepFail
<1>2. status[u] # "none" /\ status[u] \in Statuses
  BY <1>1 DEF IInv, Typed, TypeOK, Safe, SweepOK, SweepFail
<1>3. status' = [status EXCEPT ![u] = "failed"] /\ present' = present
  BY <1>1 DEF IInv, Typed, TypeOK, SweepFail
<1>4. CASE u \notin present
  BY <1>2, <1>3, <1>4, PhaseMoves
<1>5. CASE u \in present
  <2>1. phase' = [phase EXCEPT ![u] = "failed"] /\ phase[u] = status[u]
    BY <1>2, <1>3, <1>5, PhaseMoves, PhaseIs
  <2>2. Lifecycle!Fail(u) \/ Lifecycle!EndAgain(u)
    BY <1>2, <2>1 DEF Statuses, Active, Terminal, Lifecycle!Fail, Lifecycle!EndAgain,
                      Lifecycle!Move, Lifecycle!Live, Lifecycle!Ended
  <2> QED
    BY <2>2 DEF Lifecycle!RacingNext, Lifecycle!Next
<1> QED
  BY <1>4, <1>5

LEMMA ForgetStep ==
  ASSUME IInv, NEW th \in Threads, NEW u \in Tasks, SweepDelete(th, u)
  PROVE  Lifecycle!RacingNext
<1>1. u \in present /\ status[u] \in Terminal
  BY DEF IInv, Safe, SweepOK, SweepDelete
<1>2. status' = status /\ present' = present \ {u}
  BY DEF SweepDelete
<1>3. phase' = [phase EXCEPT ![u] = "gone"]
  BY <1>1, <1>2 DEF phase, Terminal
<1>4. Lifecycle!Forget(u)
  BY <1>1, <1>3, PhaseIs DEF Lifecycle!Forget, Lifecycle!Move, Lifecycle!Ended, Terminal
<1> QED
  BY <1>4 DEF Lifecycle!RacingNext, Lifecycle!Next

LEMMA LifecycleStep ==
  ASSUME IInv, RaceOK, [Next]_vars
  PROVE  [Lifecycle!RacingNext]_phase
<1>1. CASE UNCHANGED <<status, present>>
  BY <1>1, PhaseStays
<1>2. ASSUME NEW th \in Threads,
             \/ CreateInsert(th) \/ MarkRunningWrite(th) \/ FinishStatus(th)
             \/ SweepFail(th) \/ \E u \in Tasks : SweepDelete(th, u)
      PROVE  [Lifecycle!RacingNext]_phase
  BY <1>2, RegisterStep, StartStep, FinishStep, ExpireStep, ForgetStep
<1>3. ASSUME NEW th \in Threads, Sweep(th)
      PROVE  \/ UNCHANGED <<status, present>>
             \/ SweepFail(th) \/ \E u \in Tasks : SweepDelete(th, u)
  BY <1>3 DEF Sweep, SweepPick, SweepFailFields, SweepPendingDone, SweepCollect,
              SweepDone, SweepRaises, taskVars
<1>4. ASSUME NEW th \in Threads, Step(th), ~Sweep(th)
      PROVE  \/ UNCHANGED <<status, present>>
             \/ CreateInsert(th) \/ MarkRunningWrite(th) \/ FinishStatus(th)
  BY <1>4 DEF Step, AdmitCount, CreateFull, MarkRunningCheck, MarkRunningRaises,
              FinishCheck, FinishFields, GetRaises, CancelGet, Snapshot, SnapshotBody,
              taskVars
<1>5. CASE LoopCall
  BY <1>1, <1>5 DEF LoopCall, AdmitCall, AdmittedFails, CreateCall, ExecStart, ExecFinish,
                    taskVars
<1>6. CASE \E c \in Clients : ClientCall(c)
  BY <1>1, <1>6 DEF ClientCall, PollCall, CancelCall, taskVars
<1>7. CASE (\E t \in Tasks : Age(t)) \/ UNCHANGED vars
  BY <1>1, <1>7 DEF Age, vars, taskVars
<1>8. CASE \E th \in Threads : Step(th)
  BY <1>1, <1>2, <1>3, <1>4, <1>8
<1> QED
  BY <1>5, <1>6, <1>7, <1>8 DEF Next

\* TaskRegistry implements TaskLifecycle!RacingSpec, for any number of threads
\* in any order: a task is registered while there is room, is done only after
\* it ran, is forgotten only after it ended and never comes back; what a race
\* can add is a late start of a swept task and a second terminal status.
THEOREM ImplementsRacingLifecycle == Spec => RacingLifecycle
<1>1. Init => Lifecycle!Init
  BY DEF Init, Lifecycle!Init, phase
<1>2. IInv /\ RaceOK /\ [Next]_vars => [Lifecycle!RacingNext]_phase
  BY LifecycleStep
<1> QED
  BY <1>1, <1>2, RaceInvariance, PTL DEF Spec, RacingLifecycle, Lifecycle!RacingSpec
=============================================================================
