------------------------------ MODULE DatabaseMode ------------------------------
(***************************************************************************)
(* The marker that binds a database to live or mock data                   *)
(* (apps/backend/app/database_mode.py, of which apps/mock/app keeps two    *)
(* copies): every process that starts asks for its own mode, in a          *)
(* transaction of several statements under an advisory lock.  A process    *)
(* may die between any two of them, and PostgreSQL then rolls back.        *)
(***************************************************************************)
CONSTANTS Processes,   \* the processes that connect
          ModeOf,      \* their DATA_MODE
          NoMode,      \* no marker
          NoHolder     \* the lock is free

Modes == {"live", "mock"}

ASSUME ModeAssumption ==
  /\ ModeOf \in [Processes -> Modes]
  /\ NoMode \notin Modes /\ NoHolder \notin Processes

VARIABLES
  marker,    \* database_mode of the marker row, as committed
  advisory,  \* the process that holds _DATABASE_MODE_LOCK_ID
  step       \* how far a process is

modeVars == <<marker, advisory, step>>

ModeInit(first) ==
  /\ marker = first /\ advisory = NoHolder
  /\ step = [p \in Processes |-> "down"]

Goes(p, to) == step' = [step EXCEPT ![p] = to]

\* The metadata table exists, or is made, before the transaction begins.
AskMode(p) ==
  /\ step[p] = "down" /\ Goes(p, "asking")
  /\ UNCHANGED <<marker, advisory>>

Lock(p) ==
  /\ step[p] = "asking" /\ advisory = NoHolder
  /\ advisory' = p /\ Goes(p, "locked")
  /\ UNCHANGED marker

\* The marker decides, and the transaction has nothing to write.
Verify(p) ==
  /\ step[p] = "locked" /\ marker # NoMode
  /\ advisory' = NoHolder
  /\ Goes(p, IF marker = ModeOf[p] THEN "bound" ELSE "refused")
  /\ UNCHANGED marker

FindNone(p) ==
  /\ step[p] = "locked" /\ marker = NoMode
  /\ Goes(p, "looking")
  /\ UNCHANGED <<marker, advisory>>

\* Mutant: a database that holds data is bound to any mode.
ExamineLax(p, populated) ==
  /\ step[p] = "looking" /\ Goes(p, "binding") /\ UNCHANGED <<marker, advisory>>

\* _first_business_table_with_data, and the INSERT if it may be.
ExamineMode(p, populated) ==
  /\ step[p] = "looking"
  /\ IF populated /\ ModeOf[p] # "live"
     THEN advisory' = NoHolder /\ Goes(p, "refused")
     ELSE Goes(p, "binding") /\ UNCHANGED advisory
  /\ UNCHANGED marker

Bind(p) ==
  /\ step[p] = "binding"
  /\ marker' = ModeOf[p] /\ advisory' = NoHolder /\ Goes(p, "bound")

\* A process stops or dies, and may be started again; its transaction ends.
Halt(p) ==
  /\ step[p] # "down" /\ Goes(p, "down")
  /\ advisory' = (IF advisory = p THEN NoHolder ELSE advisory)
  /\ UNCHANGED marker

Ensure(p, populated) ==
  Lock(p) \/ Verify(p) \/ FindNone(p) \/ ExamineMode(p, populated) \/ Bind(p)
=============================================================================
