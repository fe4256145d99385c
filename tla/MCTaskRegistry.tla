--------------------------- MODULE MCTaskRegistry ---------------------------
(***************************************************************************)
(* TLC instances of TaskRegistry.  Two tasks and MaxActive = 1 make the    *)
(* registry full; one pool thread and the event loop are two threads that  *)
(* can sweep, finish and cancel at the same time.                          *)
(***************************************************************************)
EXTENDS TaskRegistry

CONSTANTS t1, t2, c1

TwoTasks  == {t1, t2}
OneAI     == {t2}
OneClient == {c1}
=============================================================================
