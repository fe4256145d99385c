-------------------------------- MODULE MockSeed --------------------------------
(***************************************************************************)
(* Generated data in a database, and the way back (apps/mock/app/          *)
(* seed_mock.py, mock_data.py).  A seed job binds the database, writes its *)
(* rows in one transaction and keeps what stood there before in a          *)
(* manifest.  A clean follows the manifests of several jobs back, row by   *)
(* row, in short transactions, while jobs, other cleans and other writers  *)
(* go on; either may die anywhere.  Rows are the rows the seed writes.     *)
(***************************************************************************)
EXTENDS DatabaseMode, Naturals, FiniteSets

CONSTANTS Rows, Stamped, \* rows, and those with a column set to NOW()
          Marked,        \* rows whose generated content tells its origin
          SeedJobs,      \* the seed jobs, each a run of its own
          Cleans,        \* the cleans
          NoRow,         \* no such row
          Other,         \* writes what no job wrote
          Versions,      \* bound: contents of Other
          Untimed,       \* the text of generated content without a time
          Unpicked       \* no candidate, not read yet

\* What a row holds: its text, and who wrote it, which the code cannot see.
\* The generator begins with one seed, so without a time two jobs write the same.
OtherContent(v) == [by |-> Other, val |-> v]
SeedContent(j, r) == [by |-> j, val |-> IF r \in Stamped THEN j ELSE Untimed]
SeedWrote(x) == x # NoRow /\ x.by \in SeedJobs
OtherWrote(x) == x # NoRow /\ x.by = Other
ValueOf(x) == IF x = NoRow THEN NoRow ELSE x.val
SameText(x, y) == ValueOf(x) = ValueOf(y)

Written == [by : SeedJobs \cup {Other}, val : SeedJobs \cup Versions \cup {Untimed}]
Contents == Written \cup {NoRow}
CandidateType == [was : Contents, back : Contents, exact : BOOLEAN]

ASSUME SeedAssumption ==
  /\ SeedJobs \subseteq Processes /\ \A j \in SeedJobs : ModeOf[j] = "mock"
  /\ Stamped \subseteq Rows /\ Marked \subseteq Rows /\ Versions # {}
  /\ Other \notin SeedJobs /\ NoRow \notin SeedJobs \cup Versions \cup {Untimed}
  /\ Versions \cap (SeedJobs \cup {Untimed}) = {}
  /\ NoRow \notin Written /\ Unpicked \notin Contents \cup CandidateType

VARIABLES
  row,       \* the rows, as committed
  owned,     \* history: rows that Other has ever written
  runStatus, \* mock_seed_runs.status of a job's run
  seededAt,  \* seeded_at of a run, 0 for none
  before,    \* the manifests: what stood before; after is SeedContent
  writer,    \* the job whose transaction holds movers_cache (ALTER TABLE)
  noted,     \* the before rows it has read
  put,       \* the rows it has written and not committed
  cleanAt,   \* where a clean is
  chosen,    \* the runs it selected
  picked,    \* its candidates
  skips      \* has it skipped a record of a manifest?

rowVars   == <<row, owned>>
manifestVars  == <<runStatus, seededAt, before>>
writeVars == <<writer, noted, put>>
cleanVars == <<cleanAt, chosen, picked, skips>>
seedVars  == <<modeVars, rowVars, manifestVars, writeVars, cleanVars>>

Nothing == [r \in Rows |-> Unpicked]

\* An empty database, one with data and no marker, or one that an earlier seed
\* without marker wrote over (kept are the rows that held data).
SeedInit ==
  /\ ModeInit(NoMode)
  /\ seededAt \in {[j \in SeedJobs |-> IF j \in early THEN 1 ELSE 0] :
                     early \in {{}} \cup {{j} : j \in SeedJobs}}
  /\ owned \in SUBSET Rows
  /\ LET old == [r \in Rows |-> IF r \in owned THEN OtherContent(CHOOSE v \in Versions : TRUE)
                                               ELSE NoRow]
     IN /\ \/ row = old /\ \A j \in SeedJobs : seededAt[j] = 0
           \/ \E j \in SeedJobs : seededAt[j] = 1 /\ row = [r \in Rows |-> SeedContent(j, r)]
        /\ before = [j \in SeedJobs |-> old]
  /\ runStatus = [j \in SeedJobs |-> IF seededAt[j] = 1 THEN "complete" ELSE "none"]
  /\ writer = NoHolder /\ noted = Nothing /\ put = {}
  /\ cleanAt = [c \in Cleans |-> "idle"] /\ chosen = [c \in Cleans |-> {}]
  /\ picked = [c \in Cleans |-> Nothing] /\ skips = [c \in Cleans |-> FALSE]

-----------------------------------------------------------------------------
(* Starting, and writing live data. *)

Populated == \E r \in Rows : row[r] # NoRow

Start(p) ==
  /\ p \in SeedJobs => runStatus[p] = "none"
  /\ AskMode(p)
  /\ UNCHANGED <<rowVars, manifestVars, writeVars, cleanVars>>

EnsureMode(p) ==
  /\ Ensure(p, Populated)
  /\ UNCHANGED <<rowVars, manifestVars, writeVars, cleanVars>>

\* The transaction of a job that stops is rolled back.
StopProcess(p) ==
  /\ Halt(p)
  /\ IF writer = p THEN writer' = NoHolder /\ noted' = Nothing /\ put' = {}
                   ELSE UNCHANGED writeVars
  /\ UNCHANGED <<rowVars, manifestVars, cleanVars>>

\* The collector of live data, which is not in this repository.
OtherWrites(r, v) ==
  /\ \E p \in Processes : step[p] = "bound" /\ ModeOf[p] = "live"
  /\ r \notin put
  /\ row' = [row EXCEPT ![r] = OtherContent(v)] /\ owned' = owned \cup {r}
  /\ UNCHANGED <<modeVars, manifestVars, writeVars, cleanVars>>

-----------------------------------------------------------------------------
(* A seed job: run_seed. *)

\* begin_seed_run, committed on its own.
BeginRun(j) ==
  /\ step[j] = "bound" /\ runStatus[j] = "none"
  /\ runStatus' = [runStatus EXCEPT ![j] = "running"]
  /\ seededAt' = [seededAt EXCEPT ![j] = 1 + Cardinality({k \in SeedJobs : seededAt[k] > 0})]
  /\ UNCHANGED <<before, modeVars, rowVars, writeVars, cleanVars>>

\* The transaction begins with changes to movers_cache that admit one job.
OpenTables(j) ==
  /\ step[j] = "bound" /\ runStatus[j] = "running" /\ writer = NoHolder
  /\ writer' = j
  /\ UNCHANGED <<noted, put, modeVars, rowVars, manifestVars, cleanVars>>

\* SeedRecordingConnection.executemany: what stands there is read ...
ReadBefore(j, r) ==
  /\ writer = j /\ noted[r] = Unpicked
  /\ noted' = [noted EXCEPT ![r] = row[r]]
  /\ UNCHANGED <<writer, put, modeVars, rowVars, manifestVars, cleanVars>>

\* ... and then written over.
PutRow(j, r) ==
  /\ writer = j /\ noted[r] # Unpicked /\ r \notin put
  /\ put' = put \cup {r}
  /\ UNCHANGED <<writer, noted, modeVars, rowVars, manifestVars, cleanVars>>

\* complete_seed_run and the commit, in one transaction with the rows.
CompleteRun(j) ==
  /\ writer = j /\ put = Rows
  /\ row' = [r \in Rows |-> SeedContent(j, r)]
  /\ before' = [before EXCEPT ![j] = noted]
  /\ runStatus' = [runStatus EXCEPT ![j] = "complete"]
  /\ writer' = NoHolder /\ noted' = Nothing /\ put' = {}
  /\ UNCHANGED <<owned, seededAt, modeVars, cleanVars>>

\* fail_seed_run after the rollback; the job ends.
FailRun(j) ==
  /\ step[j] = "bound" /\ runStatus[j] = "running"
  /\ runStatus' = [runStatus EXCEPT ![j] = "failed"]
  /\ IF writer = j THEN writer' = NoHolder /\ noted' = Nothing /\ put' = {}
                   ELSE UNCHANGED writeVars
  /\ UNCHANGED <<seededAt, before, modeVars, rowVars, cleanVars>>

SeedStep(j) ==
  \/ BeginRun(j) \/ OpenTables(j) \/ CompleteRun(j) \/ FailRun(j)
  \/ \E r \in Rows : ReadBefore(j, r) \/ PutRow(j, r)

-----------------------------------------------------------------------------
(* A clean: clean(apply=True). *)

\* The rows with a mark, and the complete runs.
SelectRuns(c) ==
  /\ cleanAt[c] = "idle" /\ cleanAt' = [cleanAt EXCEPT ![c] = "selected"]
  /\ chosen' = [chosen EXCEPT ![c] = {j \in SeedJobs : runStatus[j] = "complete"}]
  /\ picked' = [picked EXCEPT ![c] =
       [r \in Rows |-> IF r \in Marked /\ SeedWrote(row[r])
                       THEN [was |-> row[r], back |-> NoRow, exact |-> FALSE] ELSE Unpicked]]
  /\ skips' = [skips EXCEPT ![c] = FALSE]
  /\ UNCHANGED <<modeVars, rowVars, manifestVars, writeVars>>

\* Back along the runs as long as one's after is the next one's before.
Newest(runs, j) == j \in runs /\ \A k \in runs : seededAt[k] <= seededAt[j]
Older(runs, j) == {k \in runs : seededAt[k] < seededAt[j]}
Linked(runs, j, r) ==
  /\ before[j][r] # NoRow
  /\ \E k \in Older(runs, j) :
       Newest(Older(runs, j), k) /\ SameText(SeedContent(k, r), before[j][r])
EndOfChain(runs, j, r) ==
  /\ ~Linked(runs, j, r)
  /\ \A k \in runs : seededAt[k] > seededAt[j] => Linked(runs, k, r)

\* _manifest_candidates: a row that holds the after of the last run goes back to
\* where its chain of runs ends.
Trace(c, j, end) ==
  LET fits == {r \in Rows : SameText(row[r], SeedContent(j, r))}
  IN /\ picked' = [picked EXCEPT ![c] =
          [r \in Rows |-> IF r \in fits
                          THEN [was |-> SeedContent(j, r), back |-> before[end[r]][r],
                                exact |-> TRUE]
                          ELSE @[r]]]
     /\ skips' = [skips EXCEPT ![c] =
          fits # Rows \/ \E r \in fits : Older(chosen[c], end[r]) # {}]

\* (One look at all rows, where the code reads table after table: what changes
\* in between is found by CleanRow, which looks at each row again under its
\* lock.  Manifests of another version or of unknown tables, which are skipped,
\* are left out.)
Compare(c) ==
  /\ cleanAt[c] = "selected" /\ cleanAt' = [cleanAt EXCEPT ![c] = "cleaning"]
  /\ \/ chosen[c] = {} /\ UNCHANGED <<picked, skips>>
     \/ \E j \in chosen[c], end \in [Rows -> chosen[c]] :
          /\ Newest(chosen[c], j) /\ \A r \in Rows : EndOfChain(chosen[c], end[r], r)
          /\ Trace(c, j, end)
  /\ UNCHANGED <<chosen, modeVars, rowVars, manifestVars, writeVars>>

\* _candidate_matches, under the lock of the row.
Matches(x, r) == IF x.exact THEN SameText(row[r], x.was) ELSE SeedWrote(row[r])

\* Mutant: the candidate is not looked at again under the lock.
CleanRowBlind(c, r) ==
  /\ cleanAt[c] = "cleaning" /\ picked[c][r] # Unpicked
  /\ picked' = [picked EXCEPT ![c][r] = Unpicked]
  /\ row' = [row EXCEPT ![r] = IF @ = NoRow THEN NoRow ELSE picked[c][r].back]
  /\ UNCHANGED <<cleanAt, chosen, skips, owned, modeVars, manifestVars, writeVars>>

\* _clean_candidate_batch: deleted or restored, or skipped.
CleanRow(c, r) ==
  /\ cleanAt[c] = "cleaning" /\ picked[c][r] # Unpicked
  /\ r \in put => row[r] = NoRow
  /\ picked' = [picked EXCEPT ![c][r] = Unpicked]
  /\ IF Matches(picked[c][r], r)
     THEN row' = [row EXCEPT ![r] = picked[c][r].back] /\ UNCHANGED skips
     ELSE /\ skips' = [skips EXCEPT ![c] = @ \/ picked[c][r].exact]
          /\ UNCHANGED row
  /\ UNCHANGED <<cleanAt, chosen, owned, modeVars, manifestVars, writeVars>>

ForgetsChoice(c) ==
  /\ cleanAt' = [cleanAt EXCEPT ![c] = "idle"] /\ chosen' = [chosen EXCEPT ![c] = {}]
  /\ picked' = [picked EXCEPT ![c] = Nothing] /\ skips' = [skips EXCEPT ![c] = FALSE]

\* Mutant: every complete run is taken as cleaned, not only the selected ones.
ConsumeAll(c) ==
  /\ cleanAt[c] = "cleaning" /\ picked[c] = Nothing
  /\ runStatus' = [j \in SeedJobs |->
       IF chosen[c] # {} /\ runStatus[j] = "complete"
       THEN IF skips[c] THEN "clean_partial" ELSE "cleaned" ELSE runStatus[j]]
  /\ ForgetsChoice(c) /\ UNCHANGED <<seededAt, before, modeVars, rowVars, writeVars>>

\* After the last row the selected runs are cleaned, or in part.
Consume(c) ==
  /\ cleanAt[c] = "cleaning" /\ picked[c] = Nothing
  /\ runStatus' = [j \in SeedJobs |->
       IF j \in chosen[c] /\ runStatus[j] = "complete"
       THEN IF skips[c] THEN "clean_partial" ELSE "cleaned" ELSE runStatus[j]]
  /\ ForgetsChoice(c) /\ UNCHANGED <<seededAt, before, modeVars, rowVars, writeVars>>

\* A clean dies; what it has committed stays.
CleanDies(c) ==
  /\ cleanAt[c] # "idle" /\ ForgetsChoice(c)
  /\ UNCHANGED <<modeVars, rowVars, manifestVars, writeVars>>

CleanStep(c) ==
  \/ SelectRuns(c) \/ Compare(c) \/ Consume(c) \/ CleanDies(c)
  \/ \E r \in Rows : CleanRow(c, r)

SeedNext ==
  \/ \E p \in Processes : Start(p) \/ EnsureMode(p) \/ StopProcess(p)
  \/ \E r \in Rows, v \in Versions : OtherWrites(r, v)
  \/ \E j \in SeedJobs : SeedStep(j)
  \/ \E c \in Cleans : CleanStep(c)

SeedSpec == SeedInit /\ [][SeedNext]_seedVars

-----------------------------------------------------------------------------
\* Whatever processes start, die and start again at the same time, those that
\* work on a database agree on its mode, and a mock database holds nothing but
\* what jobs wrote.
OneMode ==
  /\ \A p \in Processes : step[p] = "bound" => marker = ModeOf[p]
  /\ marker = "mock" => \A r \in Rows : ~OtherWrote(row[r])

\* What somebody else wrote is neither deleted nor written over, by a job or by
\* a clean that chose the row when it still held generated content.
OthersKept ==
  [][\A r \in Rows : OtherWrote(row[r]) => OtherWrote(row'[r])]_seedVars

\* A run ends as cleaned only when no row that held data is gone, and what it
\* wrote is gone wherever its content can be told from that of other runs.
CleanedIsGone ==
  [][\A j \in SeedJobs : runStatus'[j] = "cleaned" /\ runStatus[j] # "cleaned" =>
       /\ \A r \in owned : row[r] # NoRow
       /\ \A r \in Stamped : row[r] # NoRow => row[r].by # j]_seedVars

\* One would like to add that, with every run cleaned, nothing generated is
\* left.  That does not hold: a job reads what stands in a row before it writes
\* it, a clean in between deletes that, and the next clean brings it back.
NothingGeneratedLeft ==
  (\A j \in SeedJobs : runStatus[j] \in {"none", "cleaned"}) =>
    \A r \in Rows : ~SeedWrote(row[r])
=============================================================================
