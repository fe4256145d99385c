------------------------------- MODULE MCSafeParts -------------------------------
(***************************************************************************)
(* The matcher, the watchlist and the database of the seed jobs, which     *)
(* share nothing and of which no liveness is claimed, checked in one run:  *)
(* each behaviour is a behaviour of the part that its first state chooses, *)
(* the others stand still.  Bounds are given in MCMatcher, MCWatchlist and *)
(* safe_parts.cfg.                                                         *)
(***************************************************************************)
EXTENDS MCMatcher, MCWatchlist, MockSeed, TLC

CONSTANTS service, job1, job2

VARIABLE part

SomeModes == service :> "live" @@ job1 :> "mock" @@ job2 :> "mock"

PartsInit ==
  /\ part \in {"matcher", "watchlist", "database"}
  /\ Init /\ WatchInit /\ SeedInit
  \* one first state of the parts that stand still
  /\ part # "matcher" => config = CHOOSE c \in Configs : TRUE
  /\ part # "watchlist" => ~locks /\ store = Absent
  /\ part # "database" => owned = {} /\ \A j \in SeedJobs : runStatus[j] = "none"

PartsNext ==
  \/ part = "matcher" /\ Next /\ UNCHANGED <<part, watchVars, seedVars>>
  \/ part = "watchlist" /\ WatchNext /\ UNCHANGED <<part, vars, seedVars>>
  \/ part = "database" /\ SeedNext /\ UNCHANGED <<part, vars, watchVars>>

PartsSpec == PartsInit /\ [][PartsNext]_<<part, vars, watchVars, seedVars>>
=============================================================================
