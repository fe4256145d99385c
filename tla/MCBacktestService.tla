------------------------- MODULE MCBacktestService -------------------------
(***************************************************************************)
(* TLC instances of BacktestService: t1 is a task, s1 a call of POST       *)
(* /api/backtest, o1 a combination of a parameter search.  With one slot   *)
(* every second job queues.                                                *)
(***************************************************************************)
EXTENDS BacktestService

CONSTANTS t1, s1, o1

OneTask       == {t1}
TaskAndSync   == {t1, s1}
TaskAndSearch == {t1, o1}

\* The API's jobs run on its event loop, the search on one of its own.
MainLoop(j) == "main"
OwnLoop(j)  == IF j = o1 THEN "search" ELSE "main"
=============================================================================
