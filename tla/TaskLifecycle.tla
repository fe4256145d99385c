--------------------------- MODULE TaskLifecycle ---------------------------
(***************************************************************************)
(* What apps/quant/app/tasks.py promises of a task: it is registered only  *)
(* while there is room, starts at most once, ends at most once, keeps its  *)
(* terminal status for as long as the registry remembers it, and is        *)
(* forgotten only after it ended.  Spec says that; BacktestService, where  *)
(* a method of the registry is one step, implements it.  RacingSpec says   *)
(* what is left of it when methods overlap, as the threads of the API make *)
(* them; TaskRegistry implements that.                                     *)
(***************************************************************************)
EXTENDS FiniteSets, Naturals

CONSTANTS Tasks,        \* the ids uuid4 can hand out, each at most once
          MaxActive     \* MAX_ACTIVE_TASKS

VARIABLE phase          \* phase[t]: where task t is in its life

Live     == {"pending", "running"}
Ended    == {"done", "failed", "cancelled"}
Phases   == {"none", "gone"} \cup Live \cup Ended
LiveNow  == {t \in Tasks : phase[t] \in Live}

Init == phase = [t \in Tasks |-> "none"]

Move(t, from, to) == /\ phase[t] \in from
                     /\ phase' = [phase EXCEPT ![t] = to]

Register(t) == /\ Cardinality(LiveNow) < MaxActive
               /\ Move(t, {"none"}, "pending")
Start(t)    == Move(t, {"pending"}, "running")
Complete(t) == Move(t, {"running"}, "done")
Fail(t)     == Move(t, Live, "failed")
Cancel(t)   == Move(t, Live, "cancelled")
Forget(t)   == Move(t, Ended, "gone")

Next == \E t \in Tasks : \/ Register(t) \/ Start(t)  \/ Complete(t)
                         \/ Fail(t)     \/ Cancel(t) \/ Forget(t)

Spec == Init /\ [][Next]_phase

-----------------------------------------------------------------------------
(* With overlapping methods a check and the write it guards are two steps. *)

\* mark_running saw the task pending before a sweep failed it.
Restart(t) == Move(t, {"failed"}, "running")

\* Two calls of _finish saw the task alive: the later write stands.
EndAgain(t) == \E s \in Ended : Move(t, Ended, s)

RacingNext == Next \/ \E t \in Tasks : Restart(t) \/ EndAgain(t)

RacingSpec == Init /\ [][RacingNext]_phase
=============================================================================
