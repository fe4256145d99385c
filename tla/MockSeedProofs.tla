----------------------------- MODULE MockSeedProofs -----------------------------
(***************************************************************************)
(* For any processes, jobs, cleans and rows: processes that work on a      *)
(* database agree on its mode (OneMode), and nobody's live data is lost    *)
(* (OthersKept).  Both rest on what holds while a database is not a mock   *)
(* one (Quiet): no job writes, and what one early seed left can be undone. *)
(* And of a run taken as cleaned nothing is left in a stamped row          *)
(* (CleanedIsGone), which rests on the order of the commits (OrderInv).    *)
(***************************************************************************)
EXTENDS MockSeed, FiniteTheorems, TLAPS

(* The advisory lock covers everything between reading the marker and      *)
(* committing it.                                                          *)
ModeOK ==
  /\ marker \in Modes \cup {NoMode}
  /\ advisory \in Processes \cup {NoHolder}
  /\ step \in [Processes -> {"down", "asking", "locked", "looking", "binding",
                             "bound", "refused"}]
  /\ \A p \in Processes :
       /\ step[p] \in {"locked", "looking", "binding"} => advisory = p
       /\ step[p] \in {"looking", "binding"} => marker = NoMode
       /\ step[p] = "bound" => marker = ModeOf[p]
       /\ step[p] = "binding" /\ ModeOf[p] = "mock" => ~Populated

(* What may stand in row r, now or in a record of the past.                *)
MayStand(r, x) ==
  x \in Contents /\ (OtherWrote(x) => r \in owned /\ x.val \in Versions)

Committed == {"complete", "cleaned", "clean_partial"}

RowsOK ==
  /\ owned \subseteq Rows
  /\ row \in [Rows -> Contents] /\ \A r \in Rows : MayStand(r, row[r])
  /\ before \in [SeedJobs -> [Rows -> Contents]]
  /\ \A j \in SeedJobs, r \in Rows : MayStand(r, before[j][r])
  /\ runStatus \in [SeedJobs -> {"none", "running", "failed"} \cup Committed]
  /\ writer \in SeedJobs \cup {NoHolder}
  /\ writer # NoHolder => step[writer] = "bound"
  /\ noted \in [Rows -> Contents \cup {Unpicked}]
  /\ \A r \in Rows : noted[r] # Unpicked => MayStand(r, noted[r])
  /\ put \subseteq Rows /\ \A r \in put : noted[r] # Unpicked

(* A candidate, and where it comes from.                                   *)
CandidateOK(c, r, x) ==
  /\ x \in CandidateType /\ MayStand(r, x.back)
  /\ x.exact => \E j \in chosen[c] : x.was = SeedContent(j, r)

CleansOK ==
  /\ cleanAt \in [Cleans -> {"idle", "selected", "cleaning"}]
  /\ chosen \in [Cleans -> SUBSET SeedJobs]
  /\ \A c \in Cleans : \A j \in chosen[c] : runStatus[j] \in Committed
  /\ picked \in [Cleans -> [Rows -> CandidateType \cup {Unpicked}]]
  /\ \A c \in Cleans, r \in Rows : picked[c][r] # Unpicked => CandidateOK(c, r, picked[c][r])
  /\ skips \in [Cleans -> BOOLEAN]

(* Without a job at work: there is at most one early run, what it wrote    *)
(* and is still there can be taken back as it was, and every clean that    *)
(* has selected will take it back.                                         *)
OneRun ==
  /\ seededAt \in [SeedJobs -> {0, 1}]
  /\ \A j \in SeedJobs : runStatus[j] \in {"none"} \cup Committed
  /\ \A j, k \in SeedJobs : runStatus[j] # "none" /\ runStatus[k] # "none" => j = k
  /\ \A j \in SeedJobs, r \in Rows : runStatus[j] # "none" => ~SeedWrote(before[j][r])

Undone(r) ==
  SeedWrote(row[r]) =>
    /\ row[r] = SeedContent(row[r].by, r) /\ runStatus[row[r].by] = "complete"
    /\ r \in owned => OtherWrote(before[row[r].by][r])
    /\ \A c \in Cleans :
         /\ cleanAt[c] # "idle" => row[r].by \in chosen[c]
         /\ cleanAt[c] = "cleaning" => picked[c][r] # Unpicked /\ picked[c][r].exact

Backed ==
  \A c \in Cleans, r \in Rows :
    picked[c][r] # Unpicked /\ picked[c][r].exact =>
      \A j \in chosen[c] : picked[c][r].back = before[j][r]

Quiet ==
  /\ OneRun /\ Backed
  /\ \A r \in Rows : Undone(r) /\ (r \in owned => row[r] # NoRow)

IInv ==
  /\ ModeOK /\ RowsOK /\ CleansOK
  /\ IF marker = "mock" THEN owned = {} ELSE Quiet

-----------------------------------------------------------------------------
(* What the contents are. *)

LEMMA Contents_ ==
  ASSUME NEW x \in Contents, x # NoRow
  PROVE  /\ x.by \in SeedJobs \cup {Other} /\ x.val \in SeedJobs \cup Versions \cup {Untimed}
         /\ SeedWrote(x) <=> ~OtherWrote(x)
         /\ ValueOf(x) = x.val /\ x.val # NoRow
BY SeedAssumption DEF Contents, Written, SeedWrote, OtherWrote, ValueOf

LEMMA SeedContents ==
  ASSUME NEW j \in SeedJobs, NEW r \in Rows
  PROVE  /\ SeedContent(j, r) \in Contents /\ SeedContent(j, r) # NoRow
         /\ SeedContent(j, r).by = j
         /\ SeedContent(j, r).val \in SeedJobs \cup {Untimed}
         /\ SeedWrote(SeedContent(j, r)) /\ ~OtherWrote(SeedContent(j, r))
<1>1. SeedContent(j, r) \in Written
  BY DEF SeedContent, Written
<1>2. SeedContent(j, r).by = j /\ SeedContent(j, r).val \in SeedJobs \cup {Untimed}
  BY DEF SeedContent
<1>3. QED
  BY <1>1, <1>2, SeedAssumption DEF Contents, SeedWrote, OtherWrote

LEMMA OtherContents ==
  ASSUME NEW v \in Versions
  PROVE  /\ OtherContent(v) \in Contents /\ OtherContent(v) # NoRow
         /\ OtherContent(v).by = Other /\ OtherContent(v).val = v
         /\ OtherWrote(OtherContent(v)) /\ ~SeedWrote(OtherContent(v))
<1>1. OtherContent(v) \in Written
  BY DEF OtherContent, Written
<1>2. OtherContent(v).by = Other /\ OtherContent(v).val = v
  BY DEF OtherContent
<1>3. QED
  BY <1>1, <1>2, SeedAssumption DEF Contents, SeedWrote, OtherWrote

(* Nothing but generated content looks like generated content. *)
LEMMA LooksGenerated ==
  ASSUME NEW r \in Rows, NEW j \in SeedJobs, NEW x, MayStand(r, x),
         SameText(x, SeedContent(j, r))
  PROVE  x # NoRow /\ SeedWrote(x)
<1>1. ValueOf(SeedContent(j, r)) \in SeedJobs \cup {Untimed}
  BY SeedContents DEF ValueOf
<1>2. x # NoRow
  BY <1>1, SeedAssumption DEF SameText, ValueOf
<1>3. x.val \in SeedJobs \cup {Untimed}
  BY <1>1, <1>2 DEF SameText, ValueOf
<1>4. x \in Contents /\ (OtherWrote(x) => x.val \in Versions)
  BY DEF MayStand
<1>5. QED
  BY <1>2, <1>3, <1>4, Contents_, SeedAssumption

(* A job at work is at work in a mock database. *)
LEMMA JobsAreMock ==
  ASSUME ModeOK, NEW j \in SeedJobs, step[j] = "bound"
  PROVE  marker = "mock"
BY SeedAssumption DEF ModeOK

-----------------------------------------------------------------------------
(* The invariant holds at the start. *)

LEMMA InitIInv == SeedInit => IInv
<1> SUFFICES ASSUME SeedInit
             PROVE  IInv
  OBVIOUS
<1>1. ModeOK
  BY ModeAssumption, SeedAssumption DEF SeedInit, ModeInit, ModeOK
<1> DEFINE v0 == CHOOSE v \in Versions : TRUE
           old == [r \in Rows |-> IF r \in owned THEN OtherContent(v0) ELSE NoRow]
<1>2. v0 \in Versions
  BY SeedAssumption
<1>3. /\ owned \in SUBSET Rows /\ before = [j \in SeedJobs |-> old]
      /\ \/ row = old /\ \A j \in SeedJobs : seededAt[j] = 0
         \/ \E j \in SeedJobs : seededAt[j] = 1 /\ row = [r \in Rows |-> SeedContent(j, r)]
      /\ runStatus = [j \in SeedJobs |-> IF seededAt[j] = 1 THEN "complete" ELSE "none"]
      /\ writer = NoHolder /\ noted = Nothing /\ put = {}
      /\ cleanAt = [c \in Cleans |-> "idle"] /\ chosen = [c \in Cleans |-> {}]
      /\ picked = [c \in Cleans |-> Nothing] /\ skips = [c \in Cleans |-> FALSE]
  BY DEF SeedInit
<1> HIDE DEF v0
<1>4. PICK early \in {{}} \cup {{j} : j \in SeedJobs} :
        seededAt = [j \in SeedJobs |-> IF j \in early THEN 1 ELSE 0]
  BY DEF SeedInit
<1>5. \A r \in Rows : /\ MayStand(r, old[r]) /\ ~SeedWrote(old[r])
                      /\ r \in owned => old[r] # NoRow /\ OtherWrote(old[r])
  <2> TAKE r \in Rows
  <2>1. CASE r \in owned
    <3>1. old[r] = OtherContent(v0)
      BY <2>1
    <3>2. QED
      BY <2>1, <3>1, <1>2, OtherContents DEF MayStand
  <2>2. CASE r \notin owned
    <3>1. old[r] = NoRow
      BY <2>2
    <3>2. QED
      BY <2>2, <3>1 DEF MayStand, Contents, OtherWrote, SeedWrote
  <2>3. QED
    BY <2>1, <2>2
<1>6. \A r \in Rows : MayStand(r, row[r]) /\ (r \in owned => row[r] # NoRow)
  <2> TAKE r \in Rows
  <2>1. CASE row = old
    BY <2>1, <1>5
  <2>2. CASE \E j \in SeedJobs : row = [q \in Rows |-> SeedContent(j, q)]
    BY <2>2, SeedContents DEF MayStand
  <2>3. QED
    BY <2>1, <2>2, <1>3
<1>7. old \in [Rows -> Contents] /\ row \in [Rows -> Contents]
  <2>1. old \in [Rows -> Contents]
    BY <1>5 DEF MayStand
  <2>2. row = [r \in Rows |-> row[r]]
    BY <1>3
  <2>3. QED
    BY <1>6, <2>1, <2>2 DEF MayStand
<1>8. RowsOK
  <2>1. writer = NoHolder /\ put = {} /\ owned \subseteq Rows
    BY <1>3
  <2>2. /\ before \in [SeedJobs -> [Rows -> Contents]]
        /\ \A j \in SeedJobs, r \in Rows : MayStand(r, before[j][r])
    BY <1>3, <1>5, <1>7
  <2>3. runStatus \in [SeedJobs -> {"none", "running", "failed"} \cup Committed]
    BY <1>3 DEF Committed
  <2>4. noted \in [Rows -> Contents \cup {Unpicked}] /\ \A r \in Rows : noted[r] = Unpicked
    BY <1>3 DEF Nothing
  <2>5. QED
    BY <1>6, <1>7, <2>1, <2>2, <2>3, <2>4 DEF RowsOK
<1>9. CleansOK
  <2>1. picked \in [Cleans -> [Rows -> CandidateType \cup {Unpicked}]]
    BY <1>3 DEF Nothing
  <2>2. \A c \in Cleans, r \in Rows : picked[c][r] = Unpicked
    BY <1>3 DEF Nothing
  <2>3. QED
    BY <1>3, <2>1, <2>2 DEF CleansOK
<1>10. Quiet
  <2>1. OneRun
    <3>1. seededAt \in [SeedJobs -> {0, 1}]
      BY <1>4
    <3>2. \A j, k \in SeedJobs : runStatus[j] # "none" /\ runStatus[k] # "none" => j = k
      BY <1>3, <1>4
    <3>3. \A j \in SeedJobs : runStatus[j] \in {"none"} \cup Committed
      BY <1>3 DEF Committed
    <3>4. \A j \in SeedJobs, r \in Rows : ~SeedWrote(before[j][r])
      BY <1>3, <1>5
    <3>5. QED
      BY <3>1, <3>2, <3>3, <3>4 DEF OneRun
  <2>2. Backed
    BY <1>3 DEF Backed, Nothing
  <2>3. ASSUME NEW r \in Rows
        PROVE  Undone(r)
    <3>1. CASE row = old
      BY <3>1, <1>5 DEF Undone
    <3>2. CASE \E j \in SeedJobs : seededAt[j] = 1 /\ row = [q \in Rows |-> SeedContent(j, q)]
      <4>1. PICK j \in SeedJobs : seededAt[j] = 1 /\ row = [q \in Rows |-> SeedContent(j, q)]
        BY <3>2
      <4>2. row[r] = SeedContent(j, r) /\ row[r].by = j /\ runStatus[j] = "complete"
        BY <4>1, <1>3, SeedContents
      <4>3. r \in owned => OtherWrote(before[j][r])
        BY <1>3, <1>5
      <4>4. \A c \in Cleans : cleanAt[c] = "idle"
        BY <1>3
      <4>5. QED
        BY <4>2, <4>3, <4>4 DEF Undone
    <3>3. QED
      BY <3>1, <3>2, <1>3
  <2>4. QED
    BY <1>6, <2>1, <2>2, <2>3 DEF Quiet
<1>11. marker # "mock"
  BY ModeAssumption DEF SeedInit, ModeInit, Modes
<1>12. QED
  BY <1>1, <1>8, <1>9, <1>10, <1>11 DEF IInv

-----------------------------------------------------------------------------
(* Processes that start, bind and stop. *)

LEMMA QuietStands ==
  ASSUME Quiet, UNCHANGED <<row, owned, runStatus, seededAt, before, cleanAt, chosen, picked>>
  PROVE  Quiet'
<1>1. OneRun'
  BY DEF Quiet, OneRun
<1>2. Backed'
  BY DEF Quiet, Backed
<1>3. \A r \in Rows : Undone(r)' /\ (r \in owned' => row'[r] # NoRow)
  BY DEF Quiet, Undone
<1>4. QED
  BY <1>1, <1>2, <1>3 DEF Quiet

LEMMA CleansStand ==
  ASSUME CleansOK, UNCHANGED <<owned, runStatus, cleanVars>>
  PROVE  CleansOK'
BY DEF CleansOK, CandidateOK, MayStand, cleanVars

LEMMA StartStep ==
  ASSUME IInv, NEW p \in Processes, Start(p)
  PROVE  IInv'
<1>1. UNCHANGED <<rowVars, manifestVars, writeVars, cleanVars, marker, advisory>>
      /\ step[p] = "down" /\ step' = [step EXCEPT ![p] = "asking"]
  BY DEF Start, AskMode, Goes
<1>2. ModeOK'
  BY <1>1 DEF IInv, ModeOK, Populated, rowVars
<1>3. RowsOK'
  BY <1>1, SeedAssumption DEF IInv, ModeOK, RowsOK, MayStand, rowVars, manifestVars, writeVars
<1>4. CleansOK'
  BY <1>1, CleansStand DEF IInv, rowVars, manifestVars
<1>5. marker # "mock" => Quiet'
  BY <1>1, QuietStands DEF IInv, rowVars, manifestVars, cleanVars
<1>6. QED
  BY <1>1, <1>2, <1>3, <1>4, <1>5 DEF IInv, rowVars

LEMMA EnsureStep ==
  ASSUME IInv, NEW p \in Processes, EnsureMode(p)
  PROVE  IInv'
<1>1. UNCHANGED <<rowVars, manifestVars, writeVars, cleanVars>> /\ Ensure(p, Populated)
  BY DEF EnsureMode
<1>2. Populated' <=> Populated
  BY <1>1 DEF Populated, rowVars
<1>3. ModeOK' /\ (step[p] # "bound") /\ (marker' # marker => marker' = ModeOf[p] /\ step[p] = "binding")
  <2>1. CASE Lock(p)
    BY <2>1, <1>2, ModeAssumption DEF IInv, ModeOK, Lock, Goes
  <2>2. CASE Verify(p)
    BY <2>2, <1>2, ModeAssumption DEF IInv, ModeOK, Verify, Goes
  <2>3. CASE FindNone(p)
    BY <2>3, <1>2, ModeAssumption DEF IInv, ModeOK, FindNone, Goes
  <2>4. CASE ExamineMode(p, Populated)
    BY <2>4, <1>2, ModeAssumption DEF IInv, ModeOK, ExamineMode, Goes
  <2>5. CASE Bind(p)
    <3>1. /\ step[p] = "binding" /\ advisory = p /\ marker = NoMode
          /\ marker' = ModeOf[p] /\ advisory' = NoHolder
          /\ step' = [step EXCEPT ![p] = "bound"]
      BY <2>5 DEF Bind, Goes, IInv, ModeOK
    <3>2. \A q \in Processes : ModeOf[q] \in Modes /\ ModeOf[q] # NoMode
      BY ModeAssumption
    <3>3. \A q \in Processes : q # p => step[q] \notin {"locked", "looking", "binding", "bound"}
      BY <3>1, <3>2 DEF IInv, ModeOK
    <3>4. \A q \in Processes : step'[q] = IF q = p THEN "bound" ELSE step[q]
      BY <3>1 DEF IInv, ModeOK
    <3>5. ModeOK'
      BY <3>1, <3>2, <3>3, <3>4 DEF IInv, ModeOK
    <3>6. QED
      BY <3>1, <3>5
  <2>6. QED
    BY <2>1, <2>2, <2>3, <2>4, <2>5, <1>1 DEF Ensure
<1>4. RowsOK'
  <2>1. \A q \in Processes : q # p => step'[q] = step[q]
    BY <1>1 DEF Ensure, Lock, Verify, FindNone, ExamineMode, Bind, Goes, IInv, ModeOK
  <2>2. QED
    BY <1>1, <1>3, <2>1, SeedAssumption DEF IInv, RowsOK, MayStand, rowVars, manifestVars, writeVars
<1>5. CleansOK'
  BY <1>1, CleansStand DEF IInv, rowVars, manifestVars
<1>6. marker' = marker => (IF marker' = "mock" THEN owned' = {} ELSE Quiet')
  BY <1>1, QuietStands DEF IInv, rowVars, manifestVars, cleanVars
<1>7. marker' # marker => (IF marker' = "mock" THEN owned' = {} ELSE Quiet')
  <2> SUFFICES ASSUME marker' # marker
               PROVE  IF marker' = "mock" THEN owned' = {} ELSE Quiet'
    OBVIOUS
  <2>1. marker = NoMode /\ marker # "mock"
    BY <1>3, ModeAssumption DEF IInv, ModeOK, Modes
  <2>2. Quiet /\ Quiet'
    BY <2>1, <1>1, QuietStands DEF IInv, rowVars, manifestVars, cleanVars
  <2>3. marker' = "mock" => ~Populated
    BY <1>3 DEF IInv, ModeOK
  <2>4. ~Populated => owned = {}
    BY <2>2 DEF Populated, Quiet, IInv, RowsOK
  <2>5. QED
    BY <2>2, <2>3, <2>4, <1>1 DEF rowVars
<1>8. QED
  BY <1>3, <1>4, <1>5, <1>6, <1>7 DEF IInv

LEMMA StopStep ==
  ASSUME IInv, NEW p \in Processes, StopProcess(p)
  PROVE  IInv'
<1>1. /\ UNCHANGED <<rowVars, manifestVars, cleanVars, marker>>
      /\ step' = [step EXCEPT ![p] = "down"]
      /\ advisory' = (IF advisory = p THEN NoHolder ELSE advisory)
      /\ IF writer = p THEN writer' = NoHolder /\ noted' = Nothing /\ put' = {}
                       ELSE UNCHANGED writeVars
  BY DEF StopProcess, Halt, Goes
<1>2. ModeOK'
  BY <1>1 DEF IInv, ModeOK, Populated, rowVars
<1>3. RowsOK'
  <2>1. CASE writer = p
    BY <2>1, <1>1, SeedAssumption DEF IInv, RowsOK, MayStand, Nothing, rowVars, manifestVars
  <2>2. CASE writer # p
    BY <2>2, <1>1, SeedAssumption DEF IInv, ModeOK, RowsOK, MayStand, rowVars, manifestVars, writeVars
  <2>3. QED
    BY <2>1, <2>2
<1>4. CleansOK'
  BY <1>1, CleansStand DEF IInv, rowVars, manifestVars
<1>5. marker # "mock" => Quiet'
  BY <1>1, QuietStands DEF IInv, rowVars, manifestVars, cleanVars
<1>6. QED
  BY <1>1, <1>2, <1>3, <1>4, <1>5 DEF IInv, rowVars

-----------------------------------------------------------------------------
(* Live data: the row is no longer generated, and is owned from now on.    *)

LEMMA OtherStep ==
  ASSUME IInv, NEW q \in Rows, NEW v \in Versions, OtherWrites(q, v)
  PROVE  IInv'
<1>1. /\ row' = [row EXCEPT ![q] = OtherContent(v)] /\ owned' = owned \cup {q}
      /\ UNCHANGED <<modeVars, manifestVars, writeVars, cleanVars>>
  BY DEF OtherWrites
<1>2. marker = "live"
  BY DEF OtherWrites, IInv, ModeOK
<1>3. \A r \in Rows : row'[r] = IF r = q THEN OtherContent(v) ELSE row[r]
  BY <1>1 DEF IInv, RowsOK
<1>4. ModeOK'
  BY <1>1, <1>2, ModeAssumption DEF IInv, ModeOK, Modes, modeVars
<1>5. \A r \in Rows : \A x : MayStand(r, x) => MayStand(r, x)'
  BY <1>1 DEF MayStand
<1>6. RowsOK'
  <2>1. MayStand(q, OtherContent(v))'
    BY <1>1, OtherContents DEF MayStand
  <2>2. row' \in [Rows -> Contents] /\ \A r \in Rows : MayStand(r, row[r])'
    BY <1>1, <1>3, <1>5, <2>1 DEF IInv, RowsOK, MayStand
  <2>3. \A j \in SeedJobs, r \in Rows : MayStand(r, before[j][r])'
    BY <1>1, <1>5 DEF IInv, RowsOK, MayStand, manifestVars
  <2>4. \A r \in Rows : noted'[r] # Unpicked => MayStand(r, noted[r])'
    BY <1>1, <1>5 DEF IInv, RowsOK, MayStand, writeVars
  <2>5. QED
    BY <1>1, <2>2, <2>3, <2>4 DEF IInv, RowsOK, modeVars, manifestVars, writeVars
<1>7. CleansOK'
  BY <1>1 DEF IInv, CleansOK, CandidateOK, MayStand, manifestVars, cleanVars
<1>8. Quiet'
  <2>1. Quiet /\ OneRun /\ Backed
    BY <1>2 DEF IInv, Quiet
  <2>2. OneRun' /\ Backed'
    BY <1>1, <2>1 DEF OneRun, Backed, manifestVars, cleanVars
  <2>3. ASSUME NEW r \in Rows
        PROVE  Undone(r)' /\ (r \in owned' => row'[r] # NoRow)
    <3>1. CASE r = q
      BY <3>1, <1>3, OtherContents DEF Undone
    <3>2. CASE r # q
      BY <3>2, <1>1, <1>3, <2>1 DEF Quiet, Undone, manifestVars, cleanVars
    <3>3. QED
      BY <3>1, <3>2
  <2>4. QED
    BY <2>2, <2>3 DEF Quiet
<1>9. QED
  BY <1>1, <1>2, <1>4, <1>6, <1>7, <1>8 DEF IInv, modeVars

-----------------------------------------------------------------------------
(* Seed jobs work in a mock database, where nothing is owned.              *)

LEMMA JobStep ==
  ASSUME IInv, NEW j \in SeedJobs, SeedStep(j)
  PROVE  IInv' /\ marker = "mock"
<1>1. step[j] = "bound"
  BY SeedAssumption, ModeAssumption
     DEF SeedStep, BeginRun, OpenTables, ReadBefore, PutRow, CompleteRun, FailRun, IInv, RowsOK
<1>2. marker = "mock" /\ owned = {}
  BY <1>1, JobsAreMock DEF IInv
<1>3. \A r \in Rows : \A x : MayStand(r, x) <=> x \in Contents /\ ~OtherWrote(x)
  BY <1>2 DEF MayStand
<1>4. UNCHANGED <<modeVars, owned, cleanVars>>
  BY DEF SeedStep, BeginRun, OpenTables, ReadBefore, PutRow, CompleteRun, FailRun, rowVars
<1>5. \A r \in Rows : \A x : MayStand(r, x)' <=> MayStand(r, x)
  BY <1>4 DEF MayStand
<1>6. ModeOK'
  BY <1>2, <1>4, ModeAssumption DEF IInv, ModeOK, Modes, modeVars
<1>7. RowsOK'
  <2>1. CASE BeginRun(j)
    BY <2>1, <1>4 DEF BeginRun, IInv, RowsOK, MayStand, rowVars, writeVars, modeVars
  <2>2. CASE OpenTables(j)
    BY <2>2, <1>4, SeedAssumption DEF OpenTables, IInv, RowsOK, MayStand, rowVars, manifestVars, modeVars
  <2>3. ASSUME NEW r \in Rows, ReadBefore(j, r)
        PROVE  RowsOK'
    <3>1. noted' = [noted EXCEPT ![r] = row[r]]
          /\ UNCHANGED <<writer, put, modeVars, rowVars, manifestVars>>
      BY <2>3 DEF ReadBefore
    <3>2. noted' \in [Rows -> Contents \cup {Unpicked}]
      BY <3>1 DEF IInv, RowsOK
    <3>3. \A q \in Rows : noted'[q] # Unpicked => MayStand(q, noted'[q])
      BY <3>1 DEF IInv, RowsOK
    <3>4. \A q \in put : noted'[q] # Unpicked
      BY <3>1, SeedAssumption DEF IInv, RowsOK
    <3>5. QED
      BY <3>1, <3>2, <3>3, <3>4 DEF IInv, RowsOK, MayStand, rowVars, manifestVars, modeVars
  <2>4. ASSUME NEW r \in Rows, PutRow(j, r)
        PROVE  RowsOK'
    BY <2>4 DEF PutRow, IInv, RowsOK, MayStand, rowVars, manifestVars, modeVars
  <2>5. CASE CompleteRun(j)
    <3>1. /\ row' = [r \in Rows |-> SeedContent(j, r)] /\ before' = [before EXCEPT ![j] = noted]
          /\ runStatus' = [runStatus EXCEPT ![j] = "complete"] /\ put = Rows
          /\ writer' = NoHolder /\ noted' = Nothing /\ put' = {}
      BY <2>5 DEF CompleteRun
    <3>2. row' \in [Rows -> Contents] /\ \A r \in Rows : MayStand(r, row'[r])
      BY <3>1, <1>3, SeedContents
    <3>3. \A r \in Rows : noted[r] # Unpicked
      BY <2>5 DEF CompleteRun, IInv, RowsOK
    <3>4. before' \in [SeedJobs -> [Rows -> Contents]]
      BY <3>1, <3>3 DEF IInv, RowsOK
    <3>5. \A k \in SeedJobs, r \in Rows : MayStand(r, before'[k][r])
      BY <3>1, <3>3 DEF IInv, RowsOK
    <3>6. runStatus' \in [SeedJobs -> {"none", "running", "failed"} \cup Committed]
      BY <3>1 DEF IInv, RowsOK, Committed
    <3>7. noted' \in [Rows -> Contents \cup {Unpicked}] /\ \A r \in Rows : noted'[r] = Unpicked
      BY <3>1 DEF Nothing
    <3>8. \A r \in Rows : MayStand(r, row[r])' /\ \A k \in SeedJobs : MayStand(r, before[k][r])'
      BY <3>2, <3>5, <1>4 DEF MayStand
    <3>9. QED
      BY <3>1, <3>2, <3>4, <3>6, <3>7, <3>8, <1>4 DEF IInv, RowsOK
  <2>6. CASE FailRun(j)
    BY <2>6 DEF FailRun, IInv, RowsOK, MayStand, Nothing, rowVars, writeVars, modeVars
  <2>7. QED
    BY <2>1, <2>2, <2>3, <2>4, <2>5, <2>6 DEF SeedStep
<1>8. CleansOK'
  <2>1. /\ \A k \in SeedJobs : k # j => runStatus'[k] = runStatus[k]
        /\ runStatus'[j] = runStatus[j] \/ runStatus[j] \notin Committed \/ runStatus'[j] = "complete"
    BY DEF SeedStep, BeginRun, OpenTables, ReadBefore, PutRow, CompleteRun, FailRun,
           IInv, RowsOK, Committed, manifestVars
  <2>2. \A c \in Cleans : \A k \in chosen'[c] : runStatus'[k] \in Committed
    BY <1>4, <2>1 DEF IInv, CleansOK, Committed, cleanVars
  <2>3. QED
    BY <1>4, <2>2 DEF IInv, CleansOK, CandidateOK, MayStand, cleanVars
<1>9. QED
  BY <1>2, <1>4, <1>6, <1>7, <1>8 DEF IInv, modeVars

-----------------------------------------------------------------------------
(* A clean.  When the database is not a mock one it has at most one run to *)
(* follow, and does so for every row that is still generated.              *)

LEMMA ModeStands ==
  ASSUME ModeOK, UNCHANGED modeVars, Populated' => Populated
  PROVE  ModeOK'
BY DEF ModeOK, modeVars

LEMMA RowsStand ==
  ASSUME RowsOK, UNCHANGED <<modeVars, rowVars, before, writeVars>>,
         runStatus' \in [SeedJobs -> {"none", "running", "failed"} \cup Committed]
  PROVE  RowsOK'
BY DEF RowsOK, MayStand, modeVars, rowVars, writeVars

LEMMA SelectStep ==
  ASSUME IInv, NEW c \in Cleans, SelectRuns(c)
  PROVE  IInv'
<1>1. /\ cleanAt[c] = "idle" /\ cleanAt' = [cleanAt EXCEPT ![c] = "selected"]
      /\ chosen' = [chosen EXCEPT ![c] = {j \in SeedJobs : runStatus[j] = "complete"}]
      /\ picked' = [picked EXCEPT ![c] =
           [r \in Rows |-> IF r \in Marked /\ SeedWrote(row[r])
                           THEN [was |-> row[r], back |-> NoRow, exact |-> FALSE]
                           ELSE Unpicked]]
      /\ skips' = [skips EXCEPT ![c] = FALSE]
      /\ UNCHANGED <<modeVars, rowVars, manifestVars, writeVars>>
  BY DEF SelectRuns
<1>2. ModeOK'
  BY <1>1, ModeStands DEF IInv, Populated, rowVars
<1>3. RowsOK'
  BY <1>1, RowsStand DEF IInv, RowsOK, manifestVars
<1> DEFINE strong(r) == [was |-> row[r], back |-> NoRow, exact |-> FALSE]
<1>4. \A r \in Rows : /\ picked'[c][r] \in {strong(r), Unpicked}
                      /\ strong(r) \in CandidateType
                      /\ strong(r).back = NoRow /\ ~strong(r).exact
  BY <1>1 DEF IInv, CleansOK, RowsOK, CandidateType, Contents
<1>5. \A d \in Cleans : d # c => /\ cleanAt'[d] = cleanAt[d] /\ chosen'[d] = chosen[d]
                                 /\ picked'[d] = picked[d]
  BY <1>1 DEF IInv, CleansOK
<1>6. cleanAt'[c] = "selected" /\ chosen'[c] = {j \in SeedJobs : runStatus[j] = "complete"}
  BY <1>1 DEF IInv, CleansOK
<1>7. CleansOK'
  <2>1. picked' \in [Cleans -> [Rows -> CandidateType \cup {Unpicked}]]
    BY <1>1, <1>4 DEF IInv, CleansOK
  <2>2. ASSUME NEW d \in Cleans, NEW r \in Rows, picked'[d][r] # Unpicked
        PROVE  CandidateOK(d, r, picked[d][r])'
    <3>1. CASE d = c
      BY <2>2, <3>1, <1>4 DEF CandidateOK, MayStand, Contents, OtherWrote
    <3>2. CASE d # c
      BY <2>2, <3>2, <1>1, <1>5 DEF IInv, CleansOK, CandidateOK, MayStand, rowVars
    <3>3. QED
      BY <3>1, <3>2
  <2>3. \A d \in Cleans : \A j \in chosen'[d] : runStatus'[j] \in Committed
    BY <1>1, <1>5, <1>6 DEF IInv, CleansOK, Committed, manifestVars
  <2>4. QED
    BY <1>1, <2>1, <2>2, <2>3 DEF IInv, CleansOK
<1>8. ASSUME marker # "mock"
      PROVE  Quiet'
  <2>1. Quiet /\ OneRun /\ Backed
    BY <1>8 DEF IInv, Quiet
  <2>2. OneRun'
    BY <1>1, <2>1 DEF OneRun, manifestVars
  <2>3. Backed'
    <3> SUFFICES ASSUME NEW d \in Cleans, NEW r \in Rows, picked'[d][r] # Unpicked, picked'[d][r].exact
                 PROVE  \A j \in chosen'[d] : picked'[d][r].back = before'[j][r]
      BY DEF Backed
    <3>1. d # c
      BY <1>4
    <3>2. QED
      BY <3>1, <1>1, <1>5, <2>1 DEF Backed, manifestVars
  <2>4. ASSUME NEW r \in Rows
        PROVE  Undone(r)' /\ (r \in owned' => row'[r] # NoRow)
    <3>1. Undone(r) /\ (r \in owned => row[r] # NoRow)
      BY <2>1 DEF Quiet
    <3>2. SeedWrote(row[r]) => row[r].by \in SeedJobs
      BY DEF SeedWrote
    <3>3. QED
      BY <3>1, <3>2, <1>1, <1>5, <1>6 DEF Undone, rowVars, manifestVars
  <2>5. QED
    BY <2>2, <2>3, <2>4 DEF Quiet
<1>9. QED
  BY <1>1, <1>2, <1>3, <1>7, <1>8 DEF IInv, modeVars, rowVars

LEMMA CompareStep ==
  ASSUME IInv, NEW c \in Cleans, Compare(c)
  PROVE  IInv'
<1>1. /\ cleanAt[c] = "selected" /\ cleanAt' = [cleanAt EXCEPT ![c] = "cleaning"]
      /\ UNCHANGED <<chosen, modeVars, rowVars, manifestVars, writeVars>>
  BY DEF Compare
<1>2. ModeOK'
  BY <1>1, ModeStands DEF IInv, Populated, rowVars
<1>3. RowsOK'
  BY <1>1, RowsStand DEF IInv, RowsOK, manifestVars
<1>4. CASE chosen[c] = {}
  <2>1. UNCHANGED <<picked, skips>>
    BY <1>4 DEF Compare
  <2>2. CleansOK'
    BY <1>1, <2>1 DEF IInv, CleansOK, CandidateOK, MayStand, rowVars, manifestVars
  <2>3. ASSUME marker # "mock"
        PROVE  Quiet'
    <3>1. Quiet /\ OneRun /\ Backed
      BY <2>3 DEF IInv, Quiet
    <3>2. OneRun' /\ Backed'
      BY <1>1, <2>1, <3>1 DEF OneRun, Backed, manifestVars
    <3>3. \A r \in Rows : ~SeedWrote(row[r])
      BY <1>1, <1>4, <3>1 DEF Quiet, Undone
    <3>4. QED
      BY <1>1, <3>1, <3>2, <3>3 DEF Quiet, Undone, rowVars
  <2>4. QED
    BY <1>1, <1>2, <1>3, <2>2, <2>3 DEF IInv, modeVars, rowVars
<1>5. CASE chosen[c] # {}
  <2>1. PICK j \in chosen[c], end \in [Rows -> chosen[c]] : Trace(c, j, end)
    BY <1>5 DEF Compare
  <2>2. j \in SeedJobs /\ \A r \in Rows : end[r] \in chosen[c] /\ end[r] \in SeedJobs
    BY <2>1 DEF IInv, CleansOK
  <2> DEFINE found(r) == [was |-> SeedContent(j, r), back |-> before[end[r]][r],
                          exact |-> TRUE]
  <2>3. /\ \A d \in Cleans : d # c => picked'[d] = picked[d] /\ cleanAt'[d] = cleanAt[d]
        /\ \A r \in Rows : picked'[c][r] =
             IF SameText(row[r], SeedContent(j, r)) THEN found(r) ELSE picked[c][r]
    BY <1>1, <2>1 DEF Trace, IInv, CleansOK
  <2>4. \A r \in Rows : /\ found(r) \in CandidateType /\ found(r) # Unpicked /\ found(r).exact
                        /\ found(r).was = SeedContent(j, r)
                        /\ found(r).back = before[end[r]][r]
                        /\ MayStand(r, found(r).back)
    <3> TAKE r \in Rows
    <3>1. SeedContent(j, r) \in Contents
      BY <2>2, SeedContents
    <3>2. before[end[r]][r] \in Contents /\ MayStand(r, before[end[r]][r])
      BY <2>2 DEF IInv, RowsOK
    <3>3. found(r) \in CandidateType
      BY <3>1, <3>2 DEF CandidateType
    <3>4. QED
      BY <3>2, <3>3, SeedAssumption
  <2> HIDE DEF found
  <2>5. CleansOK'
    <3>1. picked' \in [Cleans -> [Rows -> CandidateType \cup {Unpicked}]]
      BY <2>1, <2>4 DEF Trace, IInv, CleansOK, found
    <3>2. skips' \in [Cleans -> BOOLEAN]
      BY <2>1 DEF Trace, IInv, CleansOK
    <3>3. ASSUME NEW d \in Cleans, NEW r \in Rows, picked'[d][r] # Unpicked
          PROVE  CandidateOK(d, r, picked[d][r])'
      <4>1. CASE d = c /\ SameText(row[r], SeedContent(j, r))
        BY <4>1, <1>1, <2>1, <2>3, <2>4 DEF CandidateOK, MayStand, rowVars
      <4>2. CASE ~(d = c /\ SameText(row[r], SeedContent(j, r)))
        <5>1. picked'[d][r] = picked[d][r]
          BY <4>2, <2>3
        <5>2. QED
          BY <5>1, <3>3, <1>1 DEF IInv, CleansOK, CandidateOK, MayStand, rowVars
      <4>3. QED
        BY <4>1, <4>2
    <3>4. QED
      BY <1>1, <3>1, <3>2, <3>3 DEF IInv, CleansOK, manifestVars
  <2>6. ASSUME marker # "mock"
        PROVE  Quiet'
    <3>1. Quiet /\ OneRun /\ Backed
      BY <2>6 DEF IInv, Quiet
    <3>2. OneRun'
      BY <1>1, <3>1 DEF OneRun, manifestVars
    <3>3. \A k \in chosen[c] : k = j
      BY <2>1, <2>2, <3>1 DEF IInv, CleansOK, OneRun, Committed
    <3>4. Backed'
      <4> SUFFICES ASSUME NEW d \in Cleans, NEW r \in Rows,
                          picked'[d][r] # Unpicked, picked'[d][r].exact
                   PROVE  \A k \in chosen'[d] : picked'[d][r].back = before'[k][r]
        BY DEF Backed
      <4>1. CASE d = c /\ SameText(row[r], SeedContent(j, r))
        BY <4>1, <1>1, <2>2, <2>3, <2>4, <3>3 DEF manifestVars
      <4>2. CASE ~(d = c /\ SameText(row[r], SeedContent(j, r)))
        <5>1. picked'[d][r] = picked[d][r]
          BY <4>2, <2>3
        <5>2. QED
          BY <5>1, <1>1, <3>1 DEF Backed, manifestVars
      <4>3. QED
        BY <4>1, <4>2
    <3>5. ASSUME NEW r \in Rows
          PROVE  Undone(r)' /\ (r \in owned' => row'[r] # NoRow)
      <4>1. Undone(r) /\ (r \in owned => row[r] # NoRow)
        BY <3>1 DEF Quiet
      <4>2. SeedWrote(row[r]) => picked'[c][r] # Unpicked /\ picked'[c][r].exact
        <5>1. SeedWrote(row[r]) => row[r] = SeedContent(j, r)
          BY <4>1, <1>1, <3>3 DEF Undone
        <5>2. QED
          BY <5>1, <2>3, <2>4 DEF SameText
      <4>3. QED
        BY <4>1, <4>2, <1>1, <2>3 DEF Undone, rowVars, manifestVars
    <3>6. QED
      BY <3>2, <3>4, <3>5 DEF Quiet
  <2>7. QED
    BY <1>1, <1>2, <1>3, <2>5, <2>6 DEF IInv, modeVars, rowVars
<1>6. QED
  BY <1>4, <1>5

LEMMA CleanRowStep ==
  ASSUME IInv, NEW c \in Cleans, NEW q \in Rows, CleanRow(c, q)
  PROVE  IInv' /\ (OtherWrote(row[q]) => row'[q] = row[q])
<1> DEFINE x == picked[c][q]
<1>1. /\ cleanAt[c] = "cleaning" /\ x # Unpicked
      /\ picked' = [picked EXCEPT ![c][q] = Unpicked]
      /\ IF Matches(x, q) THEN row' = [row EXCEPT ![q] = x.back] /\ UNCHANGED skips
         ELSE skips' = [skips EXCEPT ![c] = @ \/ x.exact] /\ UNCHANGED row
      /\ UNCHANGED <<cleanAt, chosen, owned, modeVars, manifestVars, writeVars>>
  BY DEF CleanRow
<1>2. CandidateOK(c, q, x) /\ x \in CandidateType /\ MayStand(q, x.back)
  BY <1>1 DEF IInv, CleansOK, CandidateOK
<1>3. x.was \in Contents /\ x.back \in Contents /\ x.exact \in BOOLEAN
  BY <1>2 DEF CandidateType
<1>4. \A r \in Rows : row'[r] = IF r = q /\ Matches(x, q) THEN x.back ELSE row[r]
  BY <1>1 DEF IInv, RowsOK
<1>5. /\ \A d \in Cleans, r \in Rows :
           picked'[d][r] = IF d = c /\ r = q THEN Unpicked ELSE picked[d][r]
      /\ picked' \in [Cleans -> [Rows -> CandidateType \cup {Unpicked}]]
  BY <1>1 DEF IInv, CleansOK
<1>6. MayStand(q, row[q])
  BY DEF IInv, RowsOK
<1>7. Matches(x, q) => row[q] # NoRow /\ SeedWrote(row[q])
  <2>1. CASE x.exact
    <3>1. PICK j \in chosen[c] : x.was = SeedContent(j, q)
      BY <1>2, <2>1 DEF CandidateOK
    <3>2. j \in SeedJobs
      BY <3>1 DEF IInv, CleansOK
    <3>3. QED
      BY <2>1, <3>1, <3>2, <1>6, LooksGenerated DEF Matches
  <2>2. CASE ~x.exact
    BY <2>2 DEF Matches, SeedWrote
  <2>3. QED
    BY <2>1, <2>2
<1>8. OtherWrote(row[q]) => row'[q] = row[q]
  <2>1. OtherWrote(row[q]) => ~SeedWrote(row[q])
    BY <1>6, Contents_ DEF MayStand, OtherWrote
  <2>2. QED
    BY <2>1, <1>4, <1>7
<1>9. Populated' => Populated
  BY <1>4, <1>7 DEF Populated
<1>10. ModeOK'
  BY <1>1, <1>9, ModeStands DEF IInv
<1>11. \A r \in Rows : \A y : MayStand(r, y) <=> MayStand(r, y)'
  BY <1>1 DEF MayStand
<1>12. RowsOK'
  <2>1. row' \in [Rows -> Contents]
    BY <1>1, <1>3 DEF IInv, RowsOK
  <2>2. \A r \in Rows : MayStand(r, row'[r])
    BY <1>2, <1>4 DEF IInv, RowsOK
  <2>3. QED
    BY <2>1, <2>2, <1>1 DEF IInv, RowsOK, MayStand, modeVars, manifestVars, writeVars
<1>13. CleansOK'
  <2>1. skips' \in [Cleans -> BOOLEAN]
    BY <1>1, <1>3 DEF IInv, CleansOK
  <2>2. ASSUME NEW d \in Cleans, NEW r \in Rows, picked'[d][r] # Unpicked
        PROVE  CandidateOK(d, r, picked[d][r])'
    <3>1. picked'[d][r] = picked[d][r]
      BY <2>2, <1>5
    <3>2. QED
      BY <2>2, <3>1, <1>1 DEF IInv, CleansOK, CandidateOK, MayStand
  <2>3. QED
    BY <1>1, <1>5, <2>1, <2>2 DEF IInv, CleansOK, manifestVars
<1>14. ASSUME marker # "mock"
       PROVE  Quiet'
  <2>1. Quiet /\ OneRun /\ Backed
    BY <1>14 DEF IInv, Quiet
  <2>2. OneRun'
    BY <1>1, <2>1 DEF OneRun, manifestVars
  <2>3. Backed'
    BY <1>1, <1>5, <2>1 DEF Backed, manifestVars
  <2>4. ASSUME NEW r \in Rows, r # q
        PROVE  Undone(r)' /\ (r \in owned' => row'[r] # NoRow)
    <3>1. row'[r] = row[r] /\ \A d \in Cleans : picked'[d][r] = picked[d][r]
      BY <2>4, <1>4, <1>5
    <3>2. QED
      BY <3>1, <1>1, <2>1 DEF Quiet, Undone, manifestVars
  <2>5. Undone(q)' /\ (q \in owned' => row'[q] # NoRow)
    <3>1. Undone(q) /\ (q \in owned => row[q] # NoRow)
      BY <2>1 DEF Quiet
    <3>2. CASE ~SeedWrote(row[q])
      <4>1. row'[q] = row[q]
        BY <3>2, <1>4, <1>7
      <4>2. QED
        BY <3>1, <3>2, <4>1, <1>1 DEF Undone
    <3>3. CASE SeedWrote(row[q])
      <4>1. /\ row[q] = SeedContent(row[q].by, q) /\ runStatus[row[q].by] = "complete"
            /\ q \in owned => OtherWrote(before[row[q].by][q])
            /\ row[q].by \in chosen[c] /\ row[q].by \in SeedJobs /\ x.exact
        BY <3>1, <3>3, <1>1 DEF Undone, SeedWrote
      <4>2. PICK j \in chosen[c] : x.was = SeedContent(j, q)
        BY <4>1, <1>2 DEF CandidateOK
      <4>3. j = row[q].by
        BY <4>1, <4>2, <2>1 DEF IInv, CleansOK, OneRun, Committed
      <4>4. Matches(x, q)
        BY <4>1, <4>2, <4>3 DEF Matches, SameText
      <4>5. row'[q] = before[row[q].by][q]
        BY <4>1, <4>4, <1>1, <1>4, <2>1 DEF Backed
      <4>6. ~SeedWrote(row'[q]) /\ (q \in owned => OtherWrote(row'[q]))
        BY <4>1, <4>5, <2>1 DEF OneRun
      <4>7. QED
        BY <4>6, <1>1 DEF Undone, OtherWrote
    <3>4. QED
      BY <3>2, <3>3
  <2>6. QED
    BY <2>2, <2>3, <2>4, <2>5 DEF Quiet
<1>15. QED
  BY <1>1, <1>8, <1>10, <1>12, <1>13, <1>14 DEF IInv, modeVars

LEMMA ConsumeStep ==
  ASSUME IInv, NEW c \in Cleans, Consume(c) \/ CleanDies(c)
  PROVE  IInv'
<1>1. /\ cleanAt' = [cleanAt EXCEPT ![c] = "idle"] /\ chosen' = [chosen EXCEPT ![c] = {}]
      /\ picked' = [picked EXCEPT ![c] = Nothing] /\ skips' = [skips EXCEPT ![c] = FALSE]
      /\ UNCHANGED <<seededAt, before, modeVars, rowVars, writeVars>>
  BY DEF Consume, CleanDies, ForgetsChoice, manifestVars
<1>2. /\ runStatus' \in [SeedJobs -> {"none", "running", "failed"} \cup Committed]
      /\ \A j \in SeedJobs :
           /\ \/ runStatus'[j] = runStatus[j]
              \/ runStatus[j] \in Committed /\ runStatus'[j] \in Committed
           /\ runStatus'[j] # runStatus[j] => Consume(c)
  BY DEF Consume, CleanDies, manifestVars, IInv, RowsOK, Committed
<1>3. ModeOK'
  BY <1>1, ModeStands DEF IInv, Populated, rowVars
<1>4. RowsOK'
  BY <1>1, <1>2, RowsStand DEF IInv
<1>5. \A d \in Cleans : IF d = c
                        THEN cleanAt'[d] = "idle" /\ chosen'[d] = {} /\ picked'[d] = Nothing
                        ELSE /\ cleanAt'[d] = cleanAt[d] /\ chosen'[d] = chosen[d]
                             /\ picked'[d] = picked[d]
  BY <1>1 DEF IInv, CleansOK
<1>6. CleansOK'
  <2>1. /\ cleanAt' \in [Cleans -> {"idle", "selected", "cleaning"}]
        /\ chosen' \in [Cleans -> SUBSET SeedJobs] /\ skips' \in [Cleans -> BOOLEAN]
    BY <1>1 DEF IInv, CleansOK
  <2>2. picked' \in [Cleans -> [Rows -> CandidateType \cup {Unpicked}]]
    BY <1>1 DEF IInv, CleansOK, Nothing
  <2>3. \A d \in Cleans : \A j \in chosen'[d] : runStatus'[j] \in Committed
    BY <1>2, <1>5 DEF IInv, CleansOK
  <2>4. ASSUME NEW d \in Cleans, NEW r \in Rows, picked'[d][r] # Unpicked
        PROVE  CandidateOK(d, r, picked[d][r])'
    <3>1. d # c
      BY <2>4, <1>5 DEF Nothing
    <3>2. QED
      BY <2>4, <3>1, <1>1, <1>5 DEF IInv, CleansOK, CandidateOK, MayStand, rowVars
  <2>5. QED
    BY <2>1, <2>2, <2>3, <2>4 DEF CleansOK
<1>7. ASSUME marker # "mock"
      PROVE  Quiet'
  <2>1. Quiet /\ OneRun /\ Backed
    BY <1>7 DEF IInv, Quiet
  <2>2. OneRun'
    BY <1>1, <1>2, <2>1 DEF OneRun, Committed
  <2>3. Backed'
    BY <1>1, <1>5, <2>1 DEF Backed, Nothing
  <2>4. ASSUME NEW r \in Rows
        PROVE  Undone(r)' /\ (r \in owned' => row'[r] # NoRow)
    <3>1. Undone(r) /\ (r \in owned => row[r] # NoRow)
      BY <2>1 DEF Quiet
    <3>2. Consume(c) => ~SeedWrote(row[r])
      BY <3>1 DEF Consume, Undone, Nothing
    <3>3. SeedWrote(row[r]) => runStatus'[row[r].by] = runStatus[row[r].by]
      BY <3>2, <1>2 DEF SeedWrote
    <3>4. QED
      BY <3>1, <3>3, <1>1, <1>5 DEF Undone, rowVars
  <2>5. QED
    BY <2>2, <2>3, <2>4 DEF Quiet
<1>8. QED
  BY <1>1, <1>3, <1>4, <1>6, <1>7 DEF IInv, modeVars, rowVars

-----------------------------------------------------------------------------
(* The invariant, and what follows from it. *)

LEMMA NextIInv == IInv /\ [SeedNext]_seedVars => IInv'
<1> SUFFICES ASSUME IInv, [SeedNext]_seedVars
             PROVE  IInv'
  OBVIOUS
<1>1. CASE \E p \in Processes : Start(p) \/ EnsureMode(p) \/ StopProcess(p)
  BY <1>1, StartStep, EnsureStep, StopStep
<1>2. CASE \E r \in Rows, v \in Versions : OtherWrites(r, v)
  BY <1>2, OtherStep
<1>3. CASE \E j \in SeedJobs : SeedStep(j)
  BY <1>3, JobStep
<1>4. CASE \E c \in Cleans : CleanStep(c)
  BY <1>4, SelectStep, CompareStep, CleanRowStep, ConsumeStep DEF CleanStep
<1>5. CASE UNCHANGED seedVars
  <2>1. ModeOK'
    BY <1>5, ModeStands DEF IInv, Populated, seedVars, rowVars
  <2>2. RowsOK'
    BY <1>5, RowsStand DEF IInv, RowsOK, seedVars, manifestVars
  <2>3. CleansOK'
    BY <1>5, CleansStand DEF IInv, seedVars, rowVars, manifestVars
  <2>4. marker # "mock" => Quiet'
    BY <1>5, QuietStands DEF IInv, seedVars, rowVars, manifestVars, cleanVars
  <2>5. QED
    BY <1>5, <2>1, <2>2, <2>3, <2>4 DEF IInv, seedVars, modeVars, rowVars
<1>6. QED
  BY <1>1, <1>2, <1>3, <1>4, <1>5 DEF SeedNext

LEMMA Invariance == SeedSpec => []IInv
BY InitIInv, NextIInv, PTL DEF SeedSpec

(* However many processes start, die and start again at the same time, a   *)
(* database is bound to one mode, and never to mock while it holds data    *)
(* that no job wrote (ensure_database_mode).                               *)
THEOREM OneModeHolds == SeedSpec => []OneMode
<1>1. IInv => OneMode
  BY DEF IInv, ModeOK, RowsOK, MayStand, OneMode
<1>2. QED
  BY <1>1, Invariance, PTL

(* No one's live data is written over by a seed job or taken away by a     *)
(* clean, whatever they decided on earlier (clean, run_seed).              *)
THEOREM OthersAreKept == SeedSpec => OthersKept
<1>1. IInv /\ IInv' /\ [SeedNext]_seedVars =>
        [\A r \in Rows : OtherWrote(row[r]) => OtherWrote(row'[r])]_seedVars
  <2> SUFFICES ASSUME IInv, SeedNext, NEW q \in Rows, OtherWrote(row[q])
               PROVE  OtherWrote(row'[q])
    OBVIOUS
  <2>1. CASE \E p \in Processes : Start(p) \/ EnsureMode(p) \/ StopProcess(p)
    BY <2>1 DEF Start, EnsureMode, StopProcess, rowVars
  <2>2. CASE \E r \in Rows, v \in Versions : OtherWrites(r, v)
    BY <2>2, OtherContents DEF OtherWrites, IInv, RowsOK
  <2>3. CASE \E j \in SeedJobs : SeedStep(j)
    <3>1. marker = "mock"
      BY <2>3, JobStep
    <3>2. FALSE
      BY <3>1 DEF IInv, RowsOK, MayStand
    <3>3. QED
      BY <3>2
  <2>4. CASE \E c \in Cleans, r \in Rows : CleanRow(c, r)
    <3>1. PICK c \in Cleans, r \in Rows : CleanRow(c, r)
      BY <2>4
    <3>2. r # q => row'[q] = row[q]
      BY <3>1 DEF CleanRow, IInv, RowsOK
    <3>3. QED
      BY <3>1, <3>2, CleanRowStep
  <2>5. CASE \E c \in Cleans : SelectRuns(c) \/ Compare(c) \/ Consume(c) \/ CleanDies(c)
    BY <2>5 DEF SelectRuns, Compare, Consume, CleanDies, rowVars
  <2>6. QED
    BY <2>1, <2>2, <2>3, <2>4, <2>5 DEF SeedNext, CleanStep
<1>2. QED
  BY <1>1, Invariance, PTL DEF SeedSpec, OthersKept

(* A row that once held live data is never gone, not even after a clean of *)
(* what an early seed without a marker wrote over it (clean).              *)
THEOREM OwnedRowsStay == SeedSpec => [](\A r \in owned : row[r] # NoRow)
<1>1. IInv => \A r \in owned : row[r] # NoRow
  BY DEF IInv, Quiet, RowsOK
<1>2. QED
  BY <1>1, Invariance, PTL

-----------------------------------------------------------------------------
(* CleanedIsGone: what cleans leave, seen in the order of the commits.     *)

Done == {j \in SeedJobs : runStatus[j] \in Committed}
Standing == {j \in SeedJobs : runStatus[j] = "complete"}
Begun == {j \in SeedJobs : seededAt[j] > 0}

\* Runs that a clean did not choose and that are complete.
Later(c) == Standing \ chosen[c]

(* BeginRun gives every run a number of its own.                           *)
Numbered ==
  /\ seededAt \in [SeedJobs -> Nat] /\ IsFiniteSet(Begun)
  /\ \A j \in Begun : seededAt[j] <= Cardinality(Begun)
  /\ \A j, k \in Begun : seededAt[j] = seededAt[k] => j = k
  /\ \A j \in SeedJobs : j \in Begun <=> runStatus[j] # "none"
  /\ writer # NoHolder => runStatus[writer] = "running"

(* Where a candidate comes from; and a clean that has skipped nothing has  *)
(* found every record linked to the next.                                  *)
Traced(c, r, x) ==
  IF x.exact THEN \E n, end \in chosen[c] :
                    /\ Newest(chosen[c], n) /\ EndOfChain(chosen[c], end, r)
                    /\ x.was = SeedContent(n, r) /\ x.back = before[end][r]
             ELSE x.back = NoRow

Sure(c) == cleanAt[c] = "cleaning" /\ ~skips[c]

Followed ==
  \A c \in Cleans, r \in Rows :
    /\ picked[c][r] # Unpicked => Traced(c, r, picked[c][r])
    /\ Sure(c) /\ chosen[c] # {} =>
         /\ picked[c][r] # Unpicked => picked[c][r].exact
         /\ \A j \in chosen[c] : Linked(chosen[c], j, r) \/ Older(chosen[c], j) = {}

(* t tells the order of the commits.  What a run found was written before. *)
Signed(r, x) == SeedWrote(x) => x.by \in Done /\ x = SeedContent(x.by, r)

Ordered(t) ==
  /\ \E m \in Nat : \A j \in Done : t[j] < m
  /\ \A j, k \in Done : t[j] = t[k] => j = k
  /\ \A r \in Stamped :
       /\ Signed(r, row[r])
       /\ noted[r] # Unpicked =>
            /\ Signed(r, noted[r])
            /\ SeedWrote(row[r]) => SeedWrote(noted[r]) /\ t[row[r].by] <= t[noted[r].by]
       /\ \A k \in Done : /\ Signed(r, before[k][r])
                          /\ SeedWrote(before[k][r]) => t[before[k][r].by] < t[k]

(* Cleans take the complete runs in the order of their commits.            *)
Prefixes(t) ==
  /\ \A j \in Standing, k \in Done : t[j] < t[k] => k \in Standing
  /\ \A c \in Cleans : \A n \in chosen[c], k \in Standing : t[k] < t[n] => k \in chosen[c]
  /\ \A c, d \in Cleans : \A x, i \in chosen[d] \ chosen[c] : \A n, m \in chosen[c] :
       t[n] < t[x] => t[m] < t[i]

(* Over the content of a complete run, only runs with a higher number have *)
(* committed.                                                              *)
Climbs(t) ==
  \A r \in Stamped, v \in Standing, i \in Done : t[v] < t[i] /\ seededAt[i] <= seededAt[v] =>
    /\ row[r] # SeedContent(v, r) /\ noted[r] # SeedContent(v, r)
    /\ \A u \in Done : before[u][r] = SeedContent(v, r) => t[u] <= t[i]

(* What the newest chosen run wrote does not come back after a commit.     *)
Unrestored(t) ==
  \A c \in Cleans, r \in Stamped, n \in Standing : \A i \in Later(c) : Newest(chosen[c], n) =>
    /\ row[r] # SeedContent(n, r) /\ noted[r] # SeedContent(n, r)
    /\ \A u \in Later(c) : before[u][r] = SeedContent(n, r) => t[u] <= t[i]

(* Where a sure clean has been, nothing of a chosen run is left, and only  *)
(* the newest can be on its way into a manifest.                           *)
Gone ==
  \A c \in Cleans, r \in Stamped, a \in Standing :
    Sure(c) /\ picked[c][r] = Unpicked /\ a \in chosen[c] =>
      /\ row[r] # SeedContent(a, r)
      /\ noted[r] = SeedContent(a, r) => Newest(chosen[c], a)
      /\ \A u \in Later(c) : before[u][r] = SeedContent(a, r) => Newest(chosen[c], a)

Ranked(t) == Ordered(t) /\ Prefixes(t) /\ Climbs(t) /\ Unrestored(t)

Kept(t) == Followed /\ Gone /\ Ranked(t)

OrderInv == Numbered /\ \E t \in [SeedJobs -> Nat] : Kept(t)

-----------------------------------------------------------------------------
(* Chains of manifests. *)

LEMMA StampedContents ==
  ASSUME NEW r \in Stamped, NEW j \in SeedJobs, NEW k \in SeedJobs
  PROVE  /\ r \in Rows /\ SeedContent(j, r) # Unpicked
         /\ SeedContent(j, r) = SeedContent(k, r) => j = k
         /\ SameText(SeedContent(j, r), SeedContent(k, r)) => j = k
<1>1. r \in Rows
  BY SeedAssumption
<1>2. SeedContent(j, r) = [by |-> j, val |-> j] /\ SeedContent(k, r) = [by |-> k, val |-> k]
  BY DEF SeedContent
<1>3. SeedContent(j, r) # Unpicked /\ SeedContent(j, r) # NoRow /\ SeedContent(k, r) # NoRow
  BY <1>1, SeedContents, SeedAssumption
<1>4. QED
  BY <1>1, <1>2, <1>3 DEF SameText, ValueOf

(* What looks like the content of a run is the content of that run.        *)
LEMMA SignedContents ==
  ASSUME NEW r \in Stamped, NEW j \in SeedJobs, NEW x, MayStand(r, x), Signed(r, x),
         SameText(x, SeedContent(j, r)) \/ SameText(SeedContent(j, r), x)
  PROVE  x = SeedContent(j, r) /\ j \in Done
<1>1. r \in Rows /\ SameText(x, SeedContent(j, r))
  BY StampedContents DEF SameText
<1>2. SeedWrote(x) /\ x.by \in Done /\ x.by \in SeedJobs
  BY <1>1, LooksGenerated DEF Signed, SeedWrote
<1>3. x = SeedContent(x.by, r)
  BY <1>2 DEF Signed
<1>4. x.by = j
  BY <1>1, <1>2, <1>3, StampedContents
<1>5. QED
  BY <1>2, <1>3, <1>4

LEMMA NumbersDiffer ==
  ASSUME Numbered
  PROVE  /\ \A j \in Done : seededAt[j] \in Nat /\ j \in Begun
         /\ \A j, k \in Done : seededAt[j] = seededAt[k] => j = k
BY DEF Numbered, Done, Committed

(* From the end of a chain on, a run with a higher number has committed    *)
(* later: it found what the one before had written.                        *)
LEMMA ChainRises ==
  ASSUME IInv, Numbered, NEW t \in [SeedJobs -> Nat], Ordered(t),
         NEW c \in Cleans, chosen[c] \subseteq Done, NEW r \in Stamped, NEW end \in chosen[c],
         \A k \in chosen[c] : seededAt[k] > seededAt[end] => Linked(chosen[c], k, r),
         NEW j \in chosen[c], seededAt[j] > seededAt[end]
  PROVE  t[end] < t[j]
<1> DEFINE Low == {k \in chosen[c] : seededAt[k] > seededAt[end] /\ ~(t[end] < t[k])}
<1>1. SUFFICES ASSUME Low # {}
               PROVE  FALSE
  OBVIOUS
<1>2. PICK k \in Low : \A i \in Low : seededAt[k] <= seededAt[i]
  <2> DEFINE W == {seededAt[k] : k \in Low}
  <2>1. W \in SUBSET Nat /\ W # {}
    BY <1>1, NumbersDiffer
  <2> HIDE DEF W
  <2>2. PICK w \in W : \A v \in W : w <= v
    BY <2>1, LeastNumber
  <2>3. QED
    BY <2>2 DEF W
<1>3. k \in Done /\ k \in SeedJobs /\ end \in Done /\ end \in SeedJobs /\ Linked(chosen[c], k, r)
  BY <1>2 DEF Done
<1>4. PICK i \in Older(chosen[c], k) :
        Newest(Older(chosen[c], k), i) /\ SameText(SeedContent(i, r), before[k][r])
  BY <1>3 DEF Linked
<1>5. /\ i \in chosen[c] /\ i \in SeedJobs /\ i \in Done /\ seededAt[i] < seededAt[k]
      /\ seededAt[end] <= seededAt[i]
  BY <1>2, <1>3, <1>4 DEF Older, Newest, Done
<1>6. before[k][r] = SeedContent(i, r) /\ r \in Rows
  BY <1>3, <1>4, <1>5, SignedContents, StampedContents DEF IInv, RowsOK, Ordered
<1>7. t[i] < t[k]
  BY <1>3, <1>5, <1>6, SeedContents DEF Ordered
<1>8. CASE i = end
  BY <1>2, <1>7, <1>8
<1>9. CASE i # end
  <2>1. seededAt[i] > seededAt[end]
    BY <1>3, <1>5, <1>9, NumbersDiffer
  <2>2. i \in Low
    BY <1>2, <1>3, <1>5, <1>7, <2>1
  <2>3. seededAt[k] <= seededAt[i] /\ seededAt[i] \in Nat /\ seededAt[k] \in Nat
    BY <1>2, <1>3, <1>5, <2>2, NumbersDiffer
  <2>4. QED
    BY <1>5, <2>3
<1>10. QED
  BY <1>8, <1>9

(* Over a chain of complete runs that begins with what stands in the row,  *)
(* only runs with a higher number than its end's have committed.           *)
LEMMA ChainClimbs ==
  ASSUME IInv, Numbered, NEW t \in [SeedJobs -> Nat], Ranked(t),
         NEW c \in Cleans, chosen[c] \subseteq Done, NEW r \in Stamped, NEW end \in chosen[c],
         EndOfChain(chosen[c], end, r), end \in Standing,
         NEW n \in chosen[c], Newest(chosen[c], n), row[r] = SeedContent(n, r),
         NEW i \in Done, t[end] < t[i]
  PROVE  seededAt[end] < seededAt[i]
<1>1. Ordered(t) /\ Climbs(t) /\ Prefixes(t)
  BY DEF Ranked
<1>2. \A k \in chosen[c] : seededAt[k] > seededAt[end] => Linked(chosen[c], k, r)
  BY DEF EndOfChain
<1>3. /\ \A k \in Done : k \in SeedJobs /\ seededAt[k] \in Nat /\ t[k] \in Nat
      /\ \A j, k \in Done : seededAt[j] = seededAt[k] => j = k
      /\ \A j, k \in Done : t[j] = t[k] => j = k
  BY <1>1, NumbersDiffer DEF Done, Ordered
<1> DEFINE Low == {k \in chosen[c] : seededAt[end] <= seededAt[k] /\ t[k] < t[i]}
<1>4. end \in Low
  BY <1>3
<1>5. PICK j \in Low : \A k \in Low : seededAt[k] <= seededAt[j]
  <2> DEFINE W == {seededAt[n] - seededAt[k] : k \in Low}
  <2>1. W \in SUBSET Nat /\ W # {}
    BY <1>3, <1>4 DEF Newest
  <2> HIDE DEF W
  <2>2. PICK w \in W : \A v \in W : w <= v
    BY <2>1, LeastNumber
  <2>3. PICK j \in Low : w = seededAt[n] - seededAt[j]
    BY <2>2 DEF W
  <2>4. \A k \in Low : seededAt[n] - seededAt[j] <= seededAt[n] - seededAt[k]
    BY <2>2, <2>3 DEF W
  <2>5. QED
    BY <1>3, <2>3, <2>4
<1>6. j \in Done /\ j \in Standing
  <2>1. j # end => t[end] < t[j]
    BY <1>1, <1>2, <1>3, <1>5, ChainRises
  <2>2. QED
    BY <1>1, <1>3, <1>5, <2>1 DEF Prefixes
<1>7. CASE j = n
  <2>1. ~(seededAt[i] <= seededAt[j])
    BY <1>1, <1>5, <1>6, <1>7 DEF Climbs
  <2>2. QED
    BY <1>3, <1>5, <1>6, <2>1
<1>8. CASE j # n
  <2>1. seededAt[n] > seededAt[j]
    BY <1>3, <1>6, <1>8 DEF Newest
  <2> DEFINE Up == {k \in chosen[c] : seededAt[k] > seededAt[j]}
  <2>2. PICK k \in Up : \A h \in Up : seededAt[k] <= seededAt[h]
    <3> DEFINE W == {seededAt[k] : k \in Up}
    <3>1. W \in SUBSET Nat /\ W # {}
      BY <1>3, <2>1
    <3> HIDE DEF W
    <3>2. PICK w \in W : \A v \in W : w <= v
      BY <3>1, LeastNumber
    <3>3. QED
      BY <3>2 DEF W
  <2>3. k \in Done /\ Linked(chosen[c], k, r)
    BY <1>2, <1>3, <1>5, <2>2
  <2>4. PICK h \in Older(chosen[c], k) :
          Newest(Older(chosen[c], k), h) /\ SameText(SeedContent(h, r), before[k][r])
    BY <2>3 DEF Linked
  <2>5. h = j
    <3>1. h \in chosen[c] /\ h \in Done /\ seededAt[j] <= seededAt[h] /\ seededAt[h] < seededAt[k]
      BY <1>5, <2>2, <2>4 DEF Older, Newest
    <3>2. ~(seededAt[h] > seededAt[j])
      BY <1>3, <2>2, <2>3, <3>1
    <3>3. QED
      BY <1>3, <1>6, <3>1, <3>2
  <2>6. before[k][r] = SeedContent(j, r)
    BY <1>1, <1>3, <1>6, <2>3, <2>4, <2>5, SignedContents, StampedContents
    DEF IInv, RowsOK, Ordered
  <2>7. ~(t[k] < t[i])
    <3>1. k \in Low => seededAt[k] <= seededAt[j]
      BY <1>5
    <3>2. QED
      BY <1>3, <1>5, <1>6, <2>2, <2>3, <3>1
  <2>8. CASE k = i
    BY <1>3, <1>5, <1>6, <2>2, <2>8
  <2>9. CASE k # i
    <3>1. ~(t[k] <= t[i])
      BY <1>3, <2>3, <2>7, <2>9
    <3>2. ~(seededAt[i] <= seededAt[j])
      BY <1>1, <1>5, <1>6, <2>3, <2>6, <3>1 DEF Climbs
    <3>3. QED
      BY <1>3, <1>5, <1>6, <3>2
  <2>10. QED
    BY <2>8, <2>9
<1>9. QED
  BY <1>7, <1>8

-----------------------------------------------------------------------------
(* The numbers of the runs. *)

LEMMA NumbersStay ==
  ASSUME Numbered, UNCHANGED seededAt,
         \A j \in SeedJobs : runStatus'[j] = "none" <=> runStatus[j] = "none",
         writer' # NoHolder => runStatus'[writer'] = "running"
  PROVE  Numbered'
BY DEF Numbered, Begun

LEMMA NumberedStep ==
  ASSUME IInv, Numbered, [SeedNext]_seedVars
  PROVE  Numbered'
<1>1. CASE UNCHANGED <<manifestVars, writer>>
  BY <1>1, NumbersStay DEF Numbered, manifestVars
<1>2. ASSUME NEW p \in Processes, StopProcess(p)
      PROVE  Numbered'
  <2>1. UNCHANGED manifestVars /\ writer' \in {writer, NoHolder}
    BY <1>2 DEF StopProcess, writeVars
  <2>2. QED
    BY <2>1, NumbersStay DEF Numbered, manifestVars
<1>3. ASSUME NEW j \in SeedJobs, SeedStep(j)
      PROVE  Numbered'
  <2>1. CASE BeginRun(j)
    <3>1. /\ runStatus[j] = "none" /\ runStatus' = [runStatus EXCEPT ![j] = "running"]
          /\ seededAt' = [seededAt EXCEPT ![j] = 1 + Cardinality(Begun)]
          /\ writer' = writer
      BY <2>1 DEF BeginRun, Begun, writeVars
    <3>2. j \notin Begun /\ IsFiniteSet(Begun) /\ Cardinality(Begun) \in Nat
      BY <3>1, FS_CardinalityType DEF Numbered
    <3>3. \A k \in SeedJobs : seededAt'[k] = IF k = j THEN 1 + Cardinality(Begun) ELSE seededAt[k]
      BY <3>1 DEF Numbered
    <3>4. Begun' = Begun \cup {j}
      BY <3>2, <3>3 DEF Begun
    <3>5. IsFiniteSet(Begun') /\ Cardinality(Begun') = Cardinality(Begun) + 1
      BY <3>2, <3>4, FS_AddElement
    <3>6. /\ \A k \in Begun' : seededAt'[k] <= Cardinality(Begun')
          /\ \A i, k \in Begun' : seededAt'[i] = seededAt'[k] => i = k
      <4>1. \A k \in Begun : k \in SeedJobs /\ k # j /\ seededAt[k] \in Nat /\ seededAt[k] <= Cardinality(Begun)
        BY <3>2 DEF Numbered, Begun
      <4>2. \A k \in Begun' : k = j \/ k \in Begun
        BY <3>4
      <4>3. QED
        BY <3>2, <3>3, <3>5, <4>1, <4>2 DEF Numbered
    <3>7. \A k \in SeedJobs : k \in Begun' <=> runStatus'[k] # "none"
      BY <3>1, <3>4 DEF Numbered, IInv, RowsOK
    <3>8. seededAt' \in [SeedJobs -> Nat]
      BY <3>1, <3>2 DEF Numbered
    <3>9. writer' # NoHolder => runStatus'[writer'] = "running"
      BY <3>1 DEF Numbered, IInv, RowsOK
    <3>10. QED
      BY <3>5, <3>6, <3>7, <3>8, <3>9 DEF Numbered
  <2>2. CASE OpenTables(j)
    <3>1. UNCHANGED manifestVars /\ runStatus[j] = "running" /\ writer' = j
      BY <2>2 DEF OpenTables
    <3>2. QED
      BY <3>1, NumbersStay DEF manifestVars
  <2>3. CASE CompleteRun(j)
    <3>1. /\ runStatus' = [runStatus EXCEPT ![j] = "complete"] /\ writer = j /\ writer' = NoHolder
          /\ UNCHANGED seededAt
      BY <2>3 DEF CompleteRun
    <3>2. runStatus[j] = "running"
      BY <3>1, ModeAssumption, SeedAssumption DEF Numbered
    <3>3. QED
      BY <3>1, <3>2, NumbersStay DEF IInv, RowsOK
  <2>4. CASE FailRun(j)
    <3>1. /\ runStatus' = [runStatus EXCEPT ![j] = "failed"] /\ runStatus[j] = "running"
          /\ UNCHANGED seededAt /\ (IF writer = j THEN writer' = NoHolder ELSE writer' = writer)
      BY <2>4 DEF FailRun, writeVars
    <3>2. QED
      BY <3>1, NumbersStay DEF Numbered, IInv, RowsOK
  <2>5. CASE \E r \in Rows : ReadBefore(j, r) \/ PutRow(j, r)
    BY <1>1, <2>5 DEF ReadBefore, PutRow
  <2>6. QED
    BY <1>3, <2>1, <2>2, <2>3, <2>4, <2>5 DEF SeedStep
<1>4. ASSUME NEW c \in Cleans, Consume(c)
      PROVE  Numbered'
  <2>1. /\ UNCHANGED <<seededAt, writer>>
        /\ \A j \in SeedJobs : runStatus'[j] # runStatus[j] =>
             runStatus[j] = "complete" /\ runStatus'[j] \in {"clean_partial", "cleaned"}
    BY <1>4 DEF Consume, writeVars
  <2>2. writer # NoHolder => runStatus'[writer] = "running"
    BY <2>1 DEF Numbered, IInv, RowsOK
  <2>3. QED
    BY <2>1, <2>2, NumbersStay
<1>5. CASE \E c \in Cleans : CleanStep(c)
  BY <1>1, <1>4, <1>5 DEF CleanStep, SelectRuns, Compare, CleanDies, CleanRow, writeVars
<1>6. CASE UNCHANGED seedVars
  BY <1>1, <1>6 DEF seedVars, writeVars
<1>7. CASE \E p \in Processes : Start(p) \/ EnsureMode(p) \/ StopProcess(p)
  BY <1>1, <1>2, <1>7 DEF Start, EnsureMode, writeVars
<1>8. CASE \E r \in Rows, v \in Versions : OtherWrites(r, v)
  BY <1>1, <1>8 DEF OtherWrites, writeVars
<1>9. QED
  BY <1>3, <1>5, <1>6, <1>7, <1>8 DEF SeedNext

-----------------------------------------------------------------------------
(* Steps that write no generated content and take no decision of a clean.  *)

LEMMA ChainStays ==
  ASSUME NEW c \in Cleans, chosen'[c] = chosen[c],
         \A j \in chosen[c] : seededAt'[j] = seededAt[j] /\ before'[j] = before[j]
  PROVE  /\ \A n \in chosen[c] : Newest(chosen[c], n)' <=> Newest(chosen[c], n)
         /\ \A j \in chosen[c] : Older(chosen[c], j)' = Older(chosen[c], j)
         /\ \A j \in chosen[c], r \in Rows : Linked(chosen[c], j, r)' <=> Linked(chosen[c], j, r)
         /\ \A j \in chosen[c], r \in Rows :
              EndOfChain(chosen[c], j, r)' <=> EndOfChain(chosen[c], j, r)
<1>1. \A n \in chosen[c] : Newest(chosen[c], n)' <=> Newest(chosen[c], n)
  BY DEF Newest
<1>2. \A j \in chosen[c] : Older(chosen[c], j)' = Older(chosen[c], j)
  BY DEF Older
<1>3. \A j \in chosen[c], r \in Rows : Linked(chosen[c], j, r)' <=> Linked(chosen[c], j, r)
  <2> SUFFICES ASSUME NEW j \in chosen[c], NEW r \in Rows
               PROVE  Linked(chosen[c], j, r)' <=> Linked(chosen[c], j, r)
    OBVIOUS
  <2>1. \A k \in Older(chosen[c], j) :
          Newest(Older(chosen[c], j), k)' <=> Newest(Older(chosen[c], j), k)
    BY <1>2 DEF Newest, Older
  <2>2. QED
    BY <1>2, <2>1 DEF Linked, SeedContent, SameText, ValueOf
<1>4. \A j \in chosen[c], r \in Rows :
        EndOfChain(chosen[c], j, r)' <=> EndOfChain(chosen[c], j, r)
  BY <1>3 DEF EndOfChain
<1>5. QED
  BY <1>1, <1>2, <1>3, <1>4

LEMMA TracedStays ==
  ASSUME NEW c \in Cleans, chosen'[c] = chosen[c],
         \A j \in chosen[c] : seededAt'[j] = seededAt[j] /\ before'[j] = before[j],
         NEW r \in Rows, picked'[c][r] = picked[c][r], Traced(c, r, picked[c][r])
  PROVE  Traced(c, r, picked[c][r])'
<1>1. CASE picked[c][r].exact
  <2>1. PICK n \in chosen[c], end \in chosen[c] :
          /\ Newest(chosen[c], n) /\ EndOfChain(chosen[c], end, r)
          /\ picked[c][r].was = SeedContent(n, r) /\ picked[c][r].back = before[end][r]
    BY <1>1 DEF Traced
  <2>2. Newest(chosen[c], n)' /\ EndOfChain(chosen[c], end, r)'
    BY <2>1, ChainStays
  <2>3. QED
    BY <1>1, <2>1, <2>2 DEF Traced, SeedContent
<1>2. CASE ~picked[c][r].exact
  BY <1>2 DEF Traced
<1>3. QED
  BY <1>1, <1>2

LEMMA ChosenDone ==
  ASSUME IInv
  PROVE  /\ \A c \in Cleans : chosen[c] \subseteq Done
         /\ Standing \subseteq Done /\ Done \subseteq SeedJobs
BY DEF IInv, CleansOK, Done, Standing, Committed

LEMMA FollowedStays ==
  ASSUME IInv, Followed, UNCHANGED cleanVars,
         \A j \in Done : seededAt'[j] = seededAt[j] /\ before'[j] = before[j]
  PROVE  Followed'
<1> SUFFICES ASSUME NEW c \in Cleans, NEW r \in Rows
             PROVE  /\ picked[c][r] # Unpicked => Traced(c, r, picked[c][r])'
                    /\ Sure(c) /\ chosen[c] # {} =>
                         /\ picked[c][r] # Unpicked => picked[c][r].exact
                         /\ \A j \in chosen[c] : (Linked(chosen[c], j, r) \/ Older(chosen[c], j) = {})'
  BY DEF Followed, Sure, cleanVars
<1>1. /\ chosen' = chosen /\ picked' = picked
      /\ \A j \in chosen[c] : seededAt'[j] = seededAt[j] /\ before'[j] = before[j]
  BY ChosenDone DEF cleanVars
<1>2. picked[c][r] # Unpicked => Traced(c, r, picked[c][r])'
  BY <1>1, TracedStays DEF Followed
<1>3. QED
  BY <1>1, <1>2, ChainStays DEF Followed

LEMMA CalmStep ==
  ASSUME IInv, NEW t \in [SeedJobs -> Nat], Kept(t), UNCHANGED <<cleanVars, before>>,
         Done' = Done, Standing' = Standing, \A j \in Done : seededAt'[j] = seededAt[j],
         \A r \in Stamped : row'[r] = row[r] \/ ~SeedWrote(row'[r]),
         \A r \in Stamped : \/ noted'[r] = noted[r] \/ noted'[r] = Unpicked
                            \/ noted'[r] = row[r] /\ row'[r] = row[r]
  PROVE  Kept(t)'
<1>1. Followed'
  BY FollowedStays DEF Kept
<1>2. /\ chosen' = chosen /\ \A c \in Cleans : Later(c)' = Later(c) /\ (Sure(c)' <=> Sure(c))
      /\ \A c \in Cleans : \A n \in chosen[c] : Newest(chosen[c], n)' <=> Newest(chosen[c], n)
  <2>1. chosen' = chosen /\ \A c \in Cleans : \A j \in chosen[c] : seededAt'[j] = seededAt[j]
    BY ChosenDone DEF cleanVars
  <2>2. QED
    BY <2>1, ChainStays DEF Later, Sure, cleanVars
<1>3. \A r \in Stamped : \A j \in SeedJobs :
        /\ row'[r] = SeedContent(j, r) => row[r] = SeedContent(j, r)
        /\ noted'[r] = SeedContent(j, r) => noted[r] = SeedContent(j, r) \/ row[r] = SeedContent(j, r)
  BY StampedContents, SeedContents
<1>4. Ordered(t)'
  <2> SUFFICES ASSUME NEW r \in Stamped
               PROVE  /\ Signed(r, row[r])'
                      /\ noted'[r] # Unpicked =>
                           /\ Signed(r, noted[r])'
                           /\ SeedWrote(row'[r]) =>
                                SeedWrote(noted'[r]) /\ t[row'[r].by] <= t[noted'[r].by]
                      /\ \A k \in Done : /\ Signed(r, before[k][r])'
                                         /\ SeedWrote(before[k][r]) => t[before[k][r].by] < t[k]
    BY DEF Kept, Ranked, Ordered
  <2>1. /\ Signed(r, row[r])
        /\ noted[r] # Unpicked =>
             /\ Signed(r, noted[r])
             /\ SeedWrote(row[r]) => SeedWrote(noted[r]) /\ t[row[r].by] <= t[noted[r].by]
        /\ \A k \in Done : /\ Signed(r, before[k][r])
                           /\ SeedWrote(before[k][r]) => t[before[k][r].by] < t[k]
    BY DEF Kept, Ranked, Ordered
  <2>2. SeedWrote(row[r]) => t[row[r].by] \in Nat
    BY DEF SeedWrote
  <2>3. QED
    BY <2>1, <2>2 DEF Signed
<1>5. Prefixes(t)'
  BY <1>2 DEF Kept, Ranked, Prefixes
<1>6. Climbs(t)'
  <2> SUFFICES ASSUME NEW r \in Stamped, NEW v \in Standing, NEW i \in Done,
                      t[v] < t[i], seededAt'[i] <= seededAt'[v]
               PROVE  /\ row'[r] # SeedContent(v, r) /\ noted'[r] # SeedContent(v, r)
                      /\ \A u \in Done : before[u][r] = SeedContent(v, r) => t[u] <= t[i]
    BY DEF Climbs
  <2>1. v \in SeedJobs /\ seededAt[i] <= seededAt[v]
    BY ChosenDone
  <2>2. QED
    BY <1>3, <2>1 DEF Kept, Ranked, Climbs
<1>7. Unrestored(t)'
  <2> SUFFICES ASSUME NEW c \in Cleans, NEW r \in Stamped, NEW n \in Standing,
                      NEW i \in Later(c), Newest(chosen[c], n)'
               PROVE  /\ row'[r] # SeedContent(n, r) /\ noted'[r] # SeedContent(n, r)
                      /\ \A u \in Later(c) : before[u][r] = SeedContent(n, r) => t[u] <= t[i]
    BY <1>2 DEF Unrestored
  <2>1. Newest(chosen[c], n) /\ n \in SeedJobs
    BY <1>2 DEF Newest, Standing
  <2>2. QED
    BY <1>3, <2>1 DEF Kept, Ranked, Unrestored
<1>8. Gone'
  <2> SUFFICES ASSUME NEW c \in Cleans, NEW r \in Stamped, NEW a \in Standing,
                      Sure(c), picked[c][r] = Unpicked, a \in chosen[c]
               PROVE  /\ row'[r] # SeedContent(a, r)
                      /\ noted'[r] = SeedContent(a, r) => Newest(chosen[c], a)'
                      /\ \A u \in Later(c) : before[u][r] = SeedContent(a, r) => Newest(chosen[c], a)'
    BY <1>2 DEF Gone, cleanVars
  <2>1. a \in SeedJobs
    BY DEF Standing
  <2>2. QED
    BY <1>2, <1>3, <2>1 DEF Kept, Gone
<1>9. QED
  BY <1>1, <1>4, <1>5, <1>6, <1>7, <1>8 DEF Kept, Ranked

-----------------------------------------------------------------------------
(* A commit is the last so far. *)

LEMMA CommitStep ==
  ASSUME IInv, Numbered, NEW t \in [SeedJobs -> Nat], Kept(t), NEW j \in SeedJobs, CompleteRun(j)
  PROVE  \E u \in [SeedJobs -> Nat] : Kept(u)'
<1>1. /\ writer = j /\ put = Rows /\ row' = [r \in Rows |-> SeedContent(j, r)]
      /\ before' = [before EXCEPT ![j] = noted] /\ runStatus' = [runStatus EXCEPT ![j] = "complete"]
      /\ noted' = Nothing /\ UNCHANGED <<seededAt, cleanVars>>
  BY DEF CompleteRun
<1>2. j \notin Done /\ j \notin Standing /\ Done' = Done \cup {j} /\ Standing' = Standing \cup {j}
  <2>1. runStatus[j] = "running"
    BY <1>1, ModeAssumption, SeedAssumption DEF Numbered
  <2>2. \A k \in SeedJobs : runStatus'[k] = IF k = j THEN "complete" ELSE runStatus[k]
    BY <1>1 DEF IInv, RowsOK
  <2>3. QED
    BY <2>1, <2>2 DEF Done, Standing, Committed
<1>3. PICK m \in Nat : \A k \in Done : t[k] < m
  BY DEF Kept, Ranked, Ordered
<1> DEFINE u == [t EXCEPT ![j] = m]
<1>4. u \in [SeedJobs -> Nat] /\ \A k \in SeedJobs : u[k] = IF k = j THEN m ELSE t[k]
  OBVIOUS
<1> HIDE DEF u
<1>5. /\ Standing \subseteq Done /\ \A k \in Done : k \in SeedJobs /\ k # j /\ t[k] \in Nat /\ t[k] < m
      /\ \A c \in Cleans : chosen[c] \subseteq Done /\ j \notin chosen[c]
  BY <1>2, <1>3, ChosenDone
<1>6. \A r \in Stamped :
        /\ r \in Rows /\ row'[r] = SeedContent(j, r) /\ noted'[r] = Unpicked /\ noted[r] # Unpicked
        /\ \A k \in SeedJobs : before'[k][r] = IF k = j THEN noted[r] ELSE before[k][r]
  BY <1>1, StampedContents DEF IInv, RowsOK, Nothing
<1>7. Followed'
  <2>1. \A k \in Done : seededAt'[k] = seededAt[k] /\ before'[k] = before[k]
    BY <1>1, <1>5 DEF IInv, RowsOK
  <2>2. QED
    BY <1>1, <2>1, FollowedStays DEF Kept
<1>8. \A c \in Cleans : /\ Later(c)' = Later(c) \cup {j} /\ (Sure(c)' <=> Sure(c))
                        /\ chosen'[c] = chosen[c] /\ Later(c) \subseteq Done
                        /\ \A n : Newest(chosen[c], n)' <=> Newest(chosen[c], n)
  BY <1>1, <1>2, <1>5 DEF Later, Sure, cleanVars, Newest
<1>9. Ordered(u)'
  <2>1. m + 1 \in Nat /\ \A k \in Done' : u[k] < m + 1
    BY <1>2, <1>3, <1>4, <1>5
  <2>2. \A i, k \in Done' : u[i] = u[k] => i = k
    BY <1>2, <1>4, <1>5 DEF Kept, Ranked, Ordered
  <2>3. \A r, x : Signed(r, x) => Signed(r, x)'
    BY <1>2 DEF Signed
  <2>4. ASSUME NEW r \in Stamped
        PROVE  /\ Signed(r, row[r])' /\ ~(noted'[r] # Unpicked)
               /\ \A k \in Done' : /\ Signed(r, before[k][r])'
                                   /\ SeedWrote(before'[k][r]) => u[before'[k][r].by] < u[k]
    <3>1. Signed(r, row[r])' /\ ~(noted'[r] # Unpicked)
      BY <1>2, <1>6, SeedContents DEF Signed
    <3>2. ASSUME NEW k \in Done'
          PROVE  /\ Signed(r, before[k][r])'
                 /\ SeedWrote(before'[k][r]) => u[before'[k][r].by] < u[k]
      <4>1. CASE k = j
        <5>1. before'[k][r] = noted[r] /\ Signed(r, noted[r])
          BY <1>6, <4>1 DEF Kept, Ranked, Ordered
        <5>2. SeedWrote(noted[r]) => noted[r].by \in Done
          BY <5>1 DEF Signed
        <5>3. Signed(r, before[k][r])'
          BY <1>2, <5>1 DEF Signed
        <5>4. QED
          BY <1>4, <1>5, <4>1, <5>1, <5>2, <5>3
      <4>2. CASE k # j
        <5>1. k \in Done /\ before'[k][r] = before[k][r]
          BY <1>2, <1>5, <1>6, <4>2
        <5>2. Signed(r, before[k][r]) /\ (SeedWrote(before[k][r]) => t[before[k][r].by] < t[k])
          BY <5>1 DEF Kept, Ranked, Ordered
        <5>3. SeedWrote(before[k][r]) => before[k][r].by \in Done
          BY <5>2 DEF Signed
        <5>4. Signed(r, before[k][r])'
          BY <1>2, <5>1, <5>2 DEF Signed
        <5>5. QED
          BY <1>4, <1>5, <5>1, <5>2, <5>3, <5>4
      <4>3. QED
        BY <4>1, <4>2
    <3>3. QED
      BY <3>1, <3>2
  <2>5. QED
    BY <2>1, <2>2, <2>4 DEF Ordered
<1>10. Prefixes(u)'
  <2>1. \A i \in Standing', k \in Done' : u[i] < u[k] => k \in Standing'
    <3> SUFFICES ASSUME NEW i \in Standing', NEW k \in Done', u[i] < u[k], k # j
                 PROVE  k \in Standing'
      BY <1>2
    <3>1. k \in Done /\ i \in Standing /\ t[i] < t[k]
      BY <1>2, <1>4, <1>5
    <3>2. QED
      BY <1>2, <3>1 DEF Kept, Ranked, Prefixes
  <2>2. \A c \in Cleans : \A n \in chosen[c], k \in Standing' : u[k] < u[n] => k \in chosen[c]
    <3> SUFFICES ASSUME NEW c \in Cleans, NEW n \in chosen[c], NEW k \in Standing', u[k] < u[n]
                 PROVE  k \in chosen[c]
      OBVIOUS
    <3>1. k \in Standing /\ t[k] < t[n]
      BY <1>2, <1>4, <1>5
    <3>2. QED
      BY <3>1 DEF Kept, Ranked, Prefixes
  <2>3. \A c \in Cleans : \A n \in chosen[c] : u[n] = t[n]
    BY <1>4, <1>5
  <2>4. \A c, d \in Cleans : \A x, i \in chosen[d] \ chosen[c] : \A n, h \in chosen[c] :
          u[n] < u[x] => u[h] < u[i]
    BY <2>3 DEF Kept, Ranked, Prefixes
  <2>5. QED
    BY <1>1, <2>1, <2>2, <2>4 DEF Prefixes, cleanVars
<1>11. Climbs(u)'
  <2> SUFFICES ASSUME NEW r \in Stamped, NEW v \in Standing', NEW i \in Done',
                      u[v] < u[i], seededAt[i] <= seededAt[v]
               PROVE  /\ row'[r] # SeedContent(v, r) /\ noted'[r] # SeedContent(v, r)
                      /\ \A k \in Done' : before'[k][r] = SeedContent(v, r) => u[k] <= u[i]
    BY <1>1 DEF Climbs
  <2>1. v \in Standing /\ v \in SeedJobs /\ v # j /\ (i # j => i \in Done /\ t[v] < t[i])
    BY <1>2, <1>4, <1>5
  <2>2. row'[r] # SeedContent(v, r) /\ noted'[r] # SeedContent(v, r)
    BY <1>6, <2>1, StampedContents
  <2>3. ASSUME NEW k \in Done', before'[k][r] = SeedContent(v, r)
        PROVE  u[k] <= u[i]
    <3>1. CASE i = j
      BY <1>2, <1>4, <1>5, <3>1
    <3>2. CASE i # j
      <4>1. /\ noted[r] # SeedContent(v, r)
            /\ \A h \in Done : before[h][r] = SeedContent(v, r) => t[h] <= t[i]
        BY <2>1, <3>2 DEF Kept, Ranked, Climbs
      <4>2. k # j /\ k \in Done /\ before[k][r] = SeedContent(v, r)
        BY <1>2, <1>5, <1>6, <2>3, <4>1
      <4>3. QED
        BY <1>4, <1>5, <2>1, <3>2, <4>1, <4>2
    <3>3. QED
      BY <3>1, <3>2
  <2>4. QED
    BY <2>2, <2>3
<1>12. Unrestored(u)'
  <2> SUFFICES ASSUME NEW c \in Cleans, NEW r \in Stamped, NEW n \in Standing',
                      NEW i \in Later(c)', Newest(chosen[c], n)
               PROVE  /\ row'[r] # SeedContent(n, r) /\ noted'[r] # SeedContent(n, r)
                      /\ \A k \in Later(c)' : before'[k][r] = SeedContent(n, r) => u[k] <= u[i]
    BY <1>8 DEF Unrestored
  <2>1. n \in chosen[c] /\ n \in Standing /\ n \in SeedJobs /\ n # j
    BY <1>2, <1>5 DEF Newest
  <2>2. row'[r] # SeedContent(n, r) /\ noted'[r] # SeedContent(n, r)
    BY <1>6, <2>1, StampedContents
  <2>3. ASSUME NEW k \in Later(c)', before'[k][r] = SeedContent(n, r)
        PROVE  u[k] <= u[i]
    <3>1. k \in Done' /\ k \in SeedJobs /\ u[k] <= m
      BY <1>2, <1>4, <1>5, <1>8
    <3>2. CASE i = j
      BY <1>4, <3>1, <3>2
    <3>3. CASE i # j
      <4>1. i \in Later(c) /\ i \in Done
        BY <1>8, <3>3
      <4>2. /\ noted[r] # SeedContent(n, r)
            /\ \A h \in Later(c) : before[h][r] = SeedContent(n, r) => t[h] <= t[i]
        BY <2>1, <4>1 DEF Kept, Ranked, Unrestored
      <4>3. k # j /\ k \in Later(c) /\ before[k][r] = SeedContent(n, r)
        BY <1>6, <1>8, <2>3, <3>1, <4>2
      <4>4. QED
        BY <1>4, <1>5, <3>1, <3>3, <4>1, <4>2, <4>3
    <3>4. QED
      BY <3>2, <3>3
  <2>4. QED
    BY <2>2, <2>3
<1>13. Gone'
  <2> SUFFICES ASSUME NEW c \in Cleans, NEW r \in Stamped, NEW a \in Standing',
                      Sure(c), picked[c][r] = Unpicked, a \in chosen[c]
               PROVE  /\ row'[r] # SeedContent(a, r)
                      /\ noted'[r] # SeedContent(a, r)
                      /\ \A k \in Later(c)' : before'[k][r] = SeedContent(a, r) => Newest(chosen[c], a)
    BY <1>1, <1>8 DEF Gone, cleanVars
  <2>1. a \in Standing /\ a \in SeedJobs /\ a # j
    BY <1>2, <1>5
  <2>2. row'[r] # SeedContent(a, r) /\ noted'[r] # SeedContent(a, r)
    BY <1>6, <2>1, StampedContents
  <2>3. ASSUME NEW k \in Later(c)', before'[k][r] = SeedContent(a, r)
        PROVE  Newest(chosen[c], a)
    <3>1. CASE k = j
      BY <1>6, <2>1, <2>3, <3>1 DEF Kept, Gone
    <3>2. CASE k # j
      <4>1. k \in Later(c) /\ k \in SeedJobs
        BY <1>5, <1>8, <3>2
      <4>2. QED
        BY <1>6, <2>1, <2>3, <3>2, <4>1 DEF Kept, Gone
    <3>3. QED
      BY <3>1, <3>2
  <2>4. QED
    BY <2>2, <2>3
<1>14. Kept(u)'
  BY <1>7, <1>9, <1>10, <1>11, <1>12, <1>13 DEF Kept, Ranked
<1>15. QED
  BY <1>4, <1>14

-----------------------------------------------------------------------------
(* A clean chooses, follows the manifests, and forgets. *)

LEMMA SelectKeeps ==
  ASSUME IInv, Numbered, NEW t \in [SeedJobs -> Nat], Kept(t), NEW c \in Cleans, SelectRuns(c)
  PROVE  Kept(t)'
<1>1. /\ cleanAt' = [cleanAt EXCEPT ![c] = "selected"]
      /\ chosen' = [chosen EXCEPT ![c] = Standing]
      /\ UNCHANGED <<row, noted, before, runStatus, seededAt>>
      /\ picked' = [picked EXCEPT ![c] =
           [r \in Rows |-> IF r \in Marked /\ SeedWrote(row[r])
                           THEN [was |-> row[r], back |-> NoRow, exact |-> FALSE] ELSE Unpicked]]
      /\ skips' = [skips EXCEPT ![c] = FALSE]
  BY DEF SelectRuns, Standing, rowVars, manifestVars, writeVars
<1>2. \A d \in Cleans :
        IF d = c THEN cleanAt'[d] = "selected" /\ chosen'[d] = Standing
        ELSE /\ cleanAt'[d] = cleanAt[d] /\ chosen'[d] = chosen[d] /\ picked'[d] = picked[d]
             /\ skips'[d] = skips[d]
  BY <1>1 DEF IInv, CleansOK
<1>3. /\ Done' = Done /\ Standing' = Standing /\ Standing \subseteq Done /\ Done \subseteq SeedJobs
      /\ \A d \in Cleans : chosen[d] \subseteq Done
      /\ \A d \in Cleans : Later(d)' = IF d = c THEN {} ELSE Later(d)
  BY <1>1, <1>2, ChosenDone DEF Done, Standing, Later
<1>4. \A d \in Cleans : d # c => (Sure(d)' <=> Sure(d))
  BY <1>2 DEF Sure
<1>5. Followed'
  <2> SUFFICES ASSUME NEW d \in Cleans, NEW r \in Rows
               PROVE  /\ picked'[d][r] # Unpicked => Traced(d, r, picked[d][r])'
                      /\ Sure(d)' /\ chosen'[d] # {} =>
                           /\ picked'[d][r] # Unpicked => picked'[d][r].exact
                           /\ \A j \in chosen'[d] : (Linked(chosen[d], j, r) \/ Older(chosen[d], j) = {})'
    BY DEF Followed
  <2>1. CASE d = c
    <3>1. picked'[c][r] # Unpicked => ~picked'[c][r].exact /\ picked'[c][r].back = NoRow
      BY <1>1 DEF IInv, CleansOK
    <3>2. ~Sure(c)'
      BY <1>2 DEF Sure
    <3>3. QED
      BY <2>1, <3>1, <3>2 DEF Traced
  <2>2. CASE d # c
    <3>1. /\ chosen'[d] = chosen[d] /\ picked'[d] = picked[d]
          /\ \A j \in chosen[d] : seededAt'[j] = seededAt[j] /\ before'[j] = before[j]
      BY <1>1, <1>2, <2>2
    <3>2. picked[d][r] # Unpicked => Traced(d, r, picked[d][r])'
      BY <3>1, TracedStays DEF Kept, Followed
    <3>3. QED
      BY <1>4, <2>2, <3>1, <3>2, ChainStays DEF Kept, Followed
  <2>3. QED
    BY <2>1, <2>2
<1>6. Ordered(t)'
  BY <1>1, <1>3 DEF Kept, Ranked, Ordered, Signed
<1>7. Prefixes(t)'
  <2>1. /\ \A j \in Standing, k \in Done : t[j] < t[k] => k \in Standing
        /\ \A d \in Cleans : \A n \in chosen[d], k \in Standing : t[k] < t[n] => k \in chosen[d]
        /\ \A j, k \in Done : t[j] = t[k] => j = k
        /\ \A j \in Done : t[j] \in Nat
    BY <1>3 DEF Kept, Ranked, Prefixes, Ordered
  <2>2. \A d \in Cleans : \A n \in chosen'[d], k \in Standing : t[k] < t[n] => k \in chosen'[d]
    BY <1>2, <2>1
  <2>3. ASSUME NEW d \in Cleans, NEW e \in Cleans, NEW x \in chosen'[e] \ chosen'[d],
               NEW i \in chosen'[e] \ chosen'[d], NEW n \in chosen'[d], NEW h \in chosen'[d],
               t[n] < t[x]
        PROVE  t[h] < t[i]
    <3>1. CASE d = c
      <4>1. n \in Standing /\ x \in Done /\ x \notin Standing
        BY <1>2, <1>3, <3>1
      <4>2. QED
        BY <2>1, <2>3, <4>1
    <3>2. CASE d # c /\ e = c
      <4>1. i \in Standing /\ i \notin chosen[d] /\ h \in chosen[d] /\ h \in Done
        BY <1>2, <1>3, <3>2
      <4>2. ~(t[i] < t[h]) /\ i # h
        BY <2>1, <4>1
      <4>3. QED
        BY <1>3, <2>1, <4>1, <4>2
    <3>3. CASE d # c /\ e # c
      BY <1>2, <2>3, <3>3 DEF Kept, Ranked, Prefixes
    <3>4. QED
      BY <3>1, <3>2, <3>3
  <2>4. QED
    BY <1>3, <2>1, <2>2, <2>3 DEF Prefixes
<1>8. Climbs(t)'
  BY <1>1, <1>3 DEF Kept, Ranked, Climbs, SeedContent
<1>9. \A d \in Cleans : d # c =>
        \A n : Newest(chosen[d], n)' <=> Newest(chosen[d], n)
  BY <1>1, <1>2 DEF Newest
<1>10. Unrestored(t)'
  <2> SUFFICES ASSUME NEW d \in Cleans, NEW r \in Stamped, NEW n \in Standing,
                      NEW i \in Later(d)', Newest(chosen[d], n)'
               PROVE  /\ row[r] # SeedContent(n, r) /\ noted[r] # SeedContent(n, r)
                      /\ \A u \in Later(d)' : before[u][r] = SeedContent(n, r) => t[u] <= t[i]
    BY <1>1, <1>3 DEF Unrestored, SeedContent
  <2>1. d # c /\ Later(d)' = Later(d) /\ Newest(chosen[d], n)
    BY <1>3, <1>9
  <2>2. QED
    BY <2>1 DEF Kept, Ranked, Unrestored
<1>11. Gone'
  <2> SUFFICES ASSUME NEW d \in Cleans, NEW r \in Stamped, NEW a \in Standing,
                      Sure(d)', picked'[d][r] = Unpicked, a \in chosen'[d]
               PROVE  /\ row[r] # SeedContent(a, r)
                      /\ noted[r] = SeedContent(a, r) => Newest(chosen[d], a)'
                      /\ \A u \in Later(d)' : before[u][r] = SeedContent(a, r) => Newest(chosen[d], a)'
    BY <1>1, <1>3 DEF Gone, SeedContent
  <2>1. d # c
    BY <1>2 DEF Sure
  <2>2. Sure(d) /\ picked[d][r] = Unpicked /\ a \in chosen[d] /\ Later(d)' = Later(d)
    BY <1>2, <1>3, <1>4, <2>1
  <2>3. QED
    BY <1>9, <2>1, <2>2 DEF Kept, Gone
<1>12. QED
  BY <1>5, <1>6, <1>7, <1>8, <1>10, <1>11 DEF Kept, Ranked

LEMMA CompareKeeps ==
  ASSUME IInv, Numbered, NEW t \in [SeedJobs -> Nat], Kept(t), NEW c \in Cleans, Compare(c)
  PROVE  Kept(t)'
<1>1. /\ cleanAt[c] = "selected" /\ cleanAt' = [cleanAt EXCEPT ![c] = "cleaning"]
      /\ UNCHANGED <<row, noted, before, runStatus, seededAt, chosen>>
  BY DEF Compare, rowVars, manifestVars, writeVars
<1>2. /\ Done' = Done /\ Standing' = Standing /\ \A d \in Cleans : Later(d)' = Later(d)
      /\ \A d \in Cleans : chosen[d] \subseteq Done
  BY <1>1, ChosenDone DEF Done, Standing, Later
<1>3. \A d \in Cleans : \A n : Newest(chosen[d], n)' <=> Newest(chosen[d], n)
  BY <1>1 DEF Newest
<1>4. \A d \in Cleans, r \in Rows : \A j \in chosen[d] :
        /\ EndOfChain(chosen[d], j, r)' <=> EndOfChain(chosen[d], j, r)
        /\ Linked(chosen[d], j, r)' <=> Linked(chosen[d], j, r)
        /\ Older(chosen[d], j)' = Older(chosen[d], j)
  BY <1>1, ChainStays
<1>5. Ranked(t)'
  <2>1. Ordered(t)' /\ Prefixes(t)'
    BY <1>1, <1>2 DEF Kept, Ranked, Ordered, Signed, Prefixes
  <2>2. Climbs(t)'
    BY <1>1, <1>2 DEF Kept, Ranked, Climbs, SeedContent
  <2>3. Unrestored(t)'
    <3> SUFFICES ASSUME NEW d \in Cleans, NEW r \in Stamped, NEW n \in Standing,
                        NEW i \in Later(d)', Newest(chosen[d], n)'
                 PROVE  /\ row[r] # SeedContent(n, r) /\ noted[r] # SeedContent(n, r)
                        /\ \A u \in Later(d)' : before[u][r] = SeedContent(n, r) => t[u] <= t[i]
      BY <1>1, <1>2 DEF Unrestored, SeedContent
    <3>1. QED
      BY <1>2, <1>3 DEF Kept, Ranked, Unrestored
  <2>4. QED
    BY <2>1, <2>2, <2>3 DEF Ranked
<1>6. \A d \in Cleans : d # c => (Sure(d) <=> cleanAt'[d] = "cleaning" /\ ~skips[d])
  BY <1>1 DEF Sure, IInv, CleansOK
<1>7. CASE chosen[c] = {}
  <2>1. UNCHANGED <<picked, skips>>
    BY <1>7 DEF Compare
  <2>2. Followed'
    <3> SUFFICES ASSUME NEW d \in Cleans, NEW r \in Rows
                 PROVE  /\ picked[d][r] # Unpicked => Traced(d, r, picked[d][r])'
                        /\ Sure(d)' /\ chosen[d] # {} =>
                             /\ picked[d][r] # Unpicked => picked[d][r].exact
                             /\ \A j \in chosen[d] : (Linked(chosen[d], j, r) \/ Older(chosen[d], j) = {})'
      BY <1>1, <2>1 DEF Followed
    <3>1. picked[d][r] # Unpicked => Traced(d, r, picked[d][r])'
      BY <1>1, <2>1, TracedStays DEF Kept, Followed
    <3>2. chosen[d] # {} => d # c /\ (Sure(d)' <=> Sure(d))
      BY <1>6, <1>7, <2>1 DEF Sure
    <3>3. QED
      BY <1>4, <3>1, <3>2 DEF Kept, Followed
  <2>3. Gone'
    <3> SUFFICES ASSUME NEW d \in Cleans, NEW r \in Stamped, NEW a \in Standing,
                        Sure(d)', picked[d][r] = Unpicked, a \in chosen[d]
                 PROVE  /\ row[r] # SeedContent(a, r)
                        /\ noted[r] = SeedContent(a, r) => Newest(chosen[d], a)
                        /\ \A u \in Later(d) : before[u][r] = SeedContent(a, r) => Newest(chosen[d], a)
      BY <1>1, <1>2, <1>3, <2>1 DEF Gone, SeedContent
    <3>1. d # c /\ Sure(d)
      BY <1>6, <1>7, <2>1 DEF Sure
    <3>2. QED
      BY <3>1 DEF Kept, Gone
  <2>4. QED
    BY <1>5, <2>2, <2>3 DEF Kept
<1>8. CASE chosen[c] # {}
  <2>1. PICK j \in chosen[c], end \in [Rows -> chosen[c]] :
          Newest(chosen[c], j) /\ (\A r \in Rows : EndOfChain(chosen[c], end[r], r)) /\ Trace(c, j, end)
    BY <1>8 DEF Compare
  <2> DEFINE fits == {r \in Rows : SameText(row[r], SeedContent(j, r))}
             found(r) == [was |-> SeedContent(j, r), back |-> before[end[r]][r], exact |-> TRUE]
  <2>2. /\ \A d \in Cleans : d # c => picked'[d] = picked[d] /\ skips'[d] = skips[d]
        /\ \A r \in Rows : picked'[c][r] = IF r \in fits THEN found(r) ELSE picked[c][r]
        /\ skips'[c] = (fits # Rows \/ \E r \in fits : Older(chosen[c], end[r]) # {})
    BY <2>1 DEF Trace, IInv, CleansOK
  <2>3. \A r \in Rows :
          /\ found(r) # Unpicked /\ found(r).exact
          /\ found(r).was = SeedContent(j, r) /\ found(r).back = before[end[r]][r]
    <3> TAKE r \in Rows
    <3>1. end[r] \in SeedJobs /\ j \in SeedJobs
      BY <2>1, <1>2 DEF Done
    <3>2. SeedContent(j, r) \in Contents /\ before[end[r]][r] \in Contents
      BY <3>1, SeedContents DEF IInv, RowsOK
    <3>3. found(r) \in CandidateType
      BY <3>2 DEF CandidateType
    <3>4. QED
      BY <3>3, SeedAssumption
  <2> HIDE DEF found, fits
  <2>4. \A d \in Cleans : d # c => (Sure(d)' <=> Sure(d))
    BY <1>6, <2>2 DEF Sure
  <2>5. Sure(c)' => fits = Rows /\ \A r \in Rows : Older(chosen[c], end[r]) = {}
    BY <2>2 DEF Sure
  <2>6. Followed'
    <3> SUFFICES ASSUME NEW d \in Cleans, NEW r \in Rows
                 PROVE  /\ picked'[d][r] # Unpicked => Traced(d, r, picked[d][r])'
                        /\ Sure(d)' /\ chosen[d] # {} =>
                             /\ picked'[d][r] # Unpicked => picked'[d][r].exact
                             /\ \A k \in chosen[d] : (Linked(chosen[d], k, r) \/ Older(chosen[d], k) = {})'
      BY <1>1 DEF Followed
    <3>1. picked'[d][r] # Unpicked => Traced(d, r, picked[d][r])'
      <4>1. CASE d = c /\ r \in fits
        <5>1. end[r] \in chosen[c] /\ EndOfChain(chosen[c], end[r], r)
          BY <2>1
        <5>2. picked'[c][r].was = SeedContent(j, r) /\ picked'[c][r].back = before[end[r]][r]
          BY <2>2, <2>3, <4>1
        <5>3. Newest(chosen[c], j)' /\ EndOfChain(chosen[c], end[r], r)'
          BY <1>3, <1>4, <2>1, <5>1
        <5>4. QED
          BY <1>1, <2>1, <2>2, <2>3, <4>1, <5>1, <5>2, <5>3 DEF Traced, SeedContent
      <4>2. CASE ~(d = c /\ r \in fits)
        <5>1. picked'[d][r] = picked[d][r]
          BY <2>2, <4>2
        <5>2. QED
          BY <1>1, <5>1, TracedStays DEF Kept, Followed
      <4>3. QED
        BY <4>1, <4>2
    <3>2. CASE d = c
      <4> SUFFICES ASSUME Sure(c)'
                   PROVE  /\ picked'[c][r].exact
                          /\ \A k \in chosen[c] : Linked(chosen[c], k, r) \/ Older(chosen[c], k) = {}
        BY <1>4, <3>1, <3>2
      <4>1. picked'[c][r].exact
        BY <2>2, <2>3, <2>5
      <4>2. ASSUME NEW k \in chosen[c], ~Linked(chosen[c], k, r)
            PROVE  Older(chosen[c], k) = {}
        <5>1. end[r] \in chosen[c] /\ EndOfChain(chosen[c], end[r], r) /\ Older(chosen[c], end[r]) = {}
          BY <2>1, <2>5
        <5>2. /\ ~(seededAt[k] > seededAt[end[r]]) /\ ~(seededAt[k] < seededAt[end[r]])
              /\ seededAt[k] \in Nat /\ seededAt[end[r]] \in Nat
          BY <1>2, <4>2, <5>1, NumbersDiffer DEF EndOfChain, Older
        <5>3. k = end[r]
          BY <1>2, <5>1, <5>2, NumbersDiffer
        <5>4. QED
          BY <5>1, <5>3
      <4>3. QED
        BY <4>1, <4>2
    <3>3. CASE d # c
      BY <1>4, <2>2, <2>4, <3>1, <3>3 DEF Kept, Followed
    <3>4. QED
      BY <3>2, <3>3
  <2>7. Gone'
    <3> SUFFICES ASSUME NEW d \in Cleans, NEW r \in Stamped, NEW a \in Standing,
                        Sure(d)', picked'[d][r] = Unpicked, a \in chosen[d]
                 PROVE  /\ row[r] # SeedContent(a, r)
                        /\ noted[r] = SeedContent(a, r) => Newest(chosen[d], a)
                        /\ \A u \in Later(d) : before[u][r] = SeedContent(a, r) => Newest(chosen[d], a)
      BY <1>1, <1>2, <1>3 DEF Gone, SeedContent
    <3>1. d # c
      BY <2>2, <2>3, <2>5, SeedAssumption
    <3>2. QED
      BY <2>2, <2>4, <3>1 DEF Kept, Gone
  <2>8. QED
    BY <1>5, <2>6, <2>7 DEF Kept
<1>9. QED
  BY <1>7, <1>8

LEMMA ForgetKeeps ==
  ASSUME IInv, Numbered, NEW t \in [SeedJobs -> Nat], Kept(t), NEW c \in Cleans,
         Consume(c) \/ CleanDies(c)
  PROVE  Kept(t)'
<1>1. /\ cleanAt' = [cleanAt EXCEPT ![c] = "idle"] /\ chosen' = [chosen EXCEPT ![c] = {}]
      /\ picked' = [picked EXCEPT ![c] = Nothing] /\ skips' = [skips EXCEPT ![c] = FALSE]
      /\ UNCHANGED <<row, noted, before, seededAt>>
  BY DEF Consume, CleanDies, ForgetsChoice, rowVars, manifestVars, writeVars
<1>2. \A d \in Cleans :
        IF d = c THEN cleanAt'[d] = "idle" /\ chosen'[d] = {} /\ picked'[d] = Nothing
        ELSE /\ cleanAt'[d] = cleanAt[d] /\ chosen'[d] = chosen[d] /\ picked'[d] = picked[d]
             /\ skips'[d] = skips[d]
  BY <1>1 DEF IInv, CleansOK
<1>3. Standing' = Standing \/ Standing' = Standing \ chosen[c]
  BY DEF Consume, CleanDies, Standing, manifestVars
<1>4. Done' = Done
  BY DEF Consume, CleanDies, Done, Committed, manifestVars
<1>5. /\ Standing' \subseteq Standing /\ Standing \subseteq Done /\ Done \subseteq SeedJobs
      /\ \A d \in Cleans : chosen[d] \subseteq Done /\ (d # c => Later(d)' \subseteq Later(d))
      /\ \A d \in Cleans : chosen'[d] = IF d = c THEN {} ELSE chosen[d]
  BY <1>2, <1>3, ChosenDone DEF Later
<1>6. \A d \in Cleans : d # c =>
        /\ Sure(d)' <=> Sure(d)
        /\ \A n : Newest(chosen[d], n)' <=> Newest(chosen[d], n)
  BY <1>1, <1>2 DEF Sure, Newest
<1>7. Followed'
  <2> SUFFICES ASSUME NEW d \in Cleans, NEW r \in Rows
               PROVE  /\ picked'[d][r] # Unpicked => Traced(d, r, picked[d][r])'
                      /\ Sure(d)' /\ chosen'[d] # {} =>
                           /\ picked'[d][r] # Unpicked => picked'[d][r].exact
                           /\ \A j \in chosen'[d] : (Linked(chosen[d], j, r) \/ Older(chosen[d], j) = {})'
    BY DEF Followed
  <2>1. CASE d = c
    BY <1>2, <2>1 DEF Nothing
  <2>2. CASE d # c
    <3>1. /\ chosen'[d] = chosen[d] /\ picked'[d] = picked[d]
          /\ \A j \in chosen[d] : seededAt'[j] = seededAt[j] /\ before'[j] = before[j]
      BY <1>1, <1>2, <2>2
    <3>2. \A j \in chosen[d] : /\ EndOfChain(chosen[d], j, r)' <=> EndOfChain(chosen[d], j, r)
                               /\ Linked(chosen[d], j, r)' <=> Linked(chosen[d], j, r)
                               /\ Older(chosen[d], j)' = Older(chosen[d], j)
      BY <3>1, ChainStays
    <3>3. picked[d][r] # Unpicked => Traced(d, r, picked[d][r])'
      BY <3>1, TracedStays DEF Kept, Followed
    <3>4. QED
      BY <1>6, <2>2, <3>1, <3>2, <3>3 DEF Kept, Followed
  <2>3. QED
    BY <2>1, <2>2
<1>8. Ordered(t)'
  BY <1>1, <1>4 DEF Kept, Ranked, Ordered, Signed
<1>9. Prefixes(t)'
  <2>1. \A j \in Standing', k \in Done : t[j] < t[k] => k \in Standing'
    BY <1>3, <1>5 DEF Kept, Ranked, Prefixes
  <2>2. \A d \in Cleans : \A n \in chosen'[d], k \in Standing' : t[k] < t[n] => k \in chosen'[d]
    BY <1>5 DEF Kept, Ranked, Prefixes
  <2>3. \A d, e \in Cleans : \A x, i \in chosen'[e] \ chosen'[d] : \A n, h \in chosen'[d] :
          t[n] < t[x] => t[h] < t[i]
    BY <1>5 DEF Kept, Ranked, Prefixes
  <2>4. QED
    BY <1>4, <2>1, <2>2, <2>3 DEF Prefixes
<1>10. Climbs(t)'
  BY <1>1, <1>4, <1>5 DEF Kept, Ranked, Climbs, SeedContent
<1>11. Unrestored(t)'
  <2> SUFFICES ASSUME NEW d \in Cleans, NEW r \in Stamped, NEW n \in Standing',
                      NEW i \in Later(d)', Newest(chosen[d], n)'
               PROVE  /\ row[r] # SeedContent(n, r) /\ noted[r] # SeedContent(n, r)
                      /\ \A u \in Later(d)' : before[u][r] = SeedContent(n, r) => t[u] <= t[i]
    BY <1>1 DEF Unrestored, SeedContent
  <2>1. d # c
    BY <1>5 DEF Newest
  <2>2. n \in Standing /\ i \in Later(d) /\ Later(d)' \subseteq Later(d) /\ Newest(chosen[d], n)
    BY <1>5, <1>6, <2>1
  <2>3. QED
    BY <2>2 DEF Kept, Ranked, Unrestored
<1>12. Gone'
  <2> SUFFICES ASSUME NEW d \in Cleans, NEW r \in Stamped, NEW a \in Standing',
                      Sure(d)', picked'[d][r] = Unpicked, a \in chosen'[d]
               PROVE  /\ row[r] # SeedContent(a, r)
                      /\ noted[r] = SeedContent(a, r) => Newest(chosen[d], a)'
                      /\ \A u \in Later(d)' : before[u][r] = SeedContent(a, r) => Newest(chosen[d], a)'
    BY <1>1 DEF Gone, SeedContent
  <2>1. d # c
    BY <1>5
  <2>2. /\ Sure(d) /\ picked[d][r] = Unpicked /\ a \in chosen[d] /\ a \in Standing
        /\ Later(d)' \subseteq Later(d)
    BY <1>2, <1>5, <1>6, <2>1
  <2>3. QED
    BY <1>6, <2>1, <2>2 DEF Kept, Gone
<1>13. QED
  BY <1>7, <1>8, <1>9, <1>10, <1>11, <1>12 DEF Kept, Ranked

-----------------------------------------------------------------------------
(* A row goes back to where its chain ends. *)

(* What a candidate that still matches puts back: older than what stands   *)
(* there, and ...                                                          *)
LEMMA GoesBack ==
  ASSUME IInv, Numbered, NEW t \in [SeedJobs -> Nat], Kept(t), NEW c \in Cleans, NEW q \in Stamped,
         picked[c][q] # Unpicked, Matches(picked[c][q], q), SeedWrote(picked[c][q].back)
  PROVE  \E n, end \in chosen[c] :
           /\ Newest(chosen[c], n) /\ EndOfChain(chosen[c], end, q)
           /\ row[q] = SeedContent(n, q) /\ picked[c][q].back = before[end][q]
           /\ n \in Done /\ end \in Done /\ t[end] <= t[n]
           /\ Signed(q, before[end][q]) /\ t[before[end][q].by] < t[end]
<1>1. q \in Rows
  BY SeedAssumption
<1>2. Traced(c, q, picked[c][q]) /\ picked[c][q].exact
  BY <1>1 DEF Kept, Followed, Traced, SeedWrote
<1>3. PICK n \in chosen[c], end \in chosen[c] :
        /\ Newest(chosen[c], n) /\ EndOfChain(chosen[c], end, q)
        /\ picked[c][q].was = SeedContent(n, q) /\ picked[c][q].back = before[end][q]
  BY <1>2 DEF Traced
<1>4. n \in Done /\ end \in Done /\ n \in SeedJobs /\ end \in SeedJobs /\ chosen[c] \subseteq Done
  BY ChosenDone
<1>5. row[q] = SeedContent(n, q)
  <2>1. SameText(row[q], SeedContent(n, q))
    BY <1>2, <1>3 DEF Matches
  <2>2. MayStand(q, row[q]) /\ Signed(q, row[q])
    BY <1>1 DEF IInv, RowsOK, Kept, Ranked, Ordered
  <2>3. QED
    BY <1>4, <2>1, <2>2, SignedContents
<1>6. t[end] <= t[n]
  <2>1. CASE seededAt[n] > seededAt[end]
    <3>1. t[end] < t[n]
      BY <1>3, <1>4, <2>1, ChainRises DEF EndOfChain, Kept, Ranked
    <3>2. QED
      BY <1>4, <3>1
  <2>2. CASE ~(seededAt[n] > seededAt[end])
    <3>1. n = end
      BY <1>3, <1>4, <2>2, NumbersDiffer DEF Newest
    <3>2. QED
      BY <1>4, <3>1
  <2>3. QED
    BY <2>1, <2>2
<1>7. Signed(q, before[end][q]) /\ t[before[end][q].by] < t[end]
  BY <1>3, <1>4 DEF Kept, Ranked, Ordered
<1>8. QED
  BY <1>3, <1>4, <1>5, <1>6, <1>7

(* ... if it is of a complete run, there is a run between in number which  *)
(* is older than the end of the chain or committed before it.              *)
LEMMA PutsBack ==
  ASSUME IInv, Numbered, NEW t \in [SeedJobs -> Nat], Kept(t), NEW c \in Cleans, NEW q \in Stamped,
         picked[c][q] # Unpicked, Matches(picked[c][q], q),
         NEW v \in Standing, picked[c][q].back = SeedContent(v, q)
  PROVE  \E n, end \in chosen[c] :
           /\ row[q] = SeedContent(n, q) /\ before[end][q] = SeedContent(v, q)
           /\ n \in Standing /\ end \in Standing /\ t[end] <= t[n]
           /\ t[v] < t[end] /\ seededAt[v] < seededAt[end]
           /\ \A i \in Done : t[end] < t[i] => seededAt[end] < seededAt[i]
           /\ \E i \in chosen[c] : seededAt[v] < seededAt[i] /\ seededAt[i] < seededAt[end]
<1>1. q \in Rows /\ v \in SeedJobs /\ v \in Done
  BY StampedContents, ChosenDone
<1>2. SeedWrote(picked[c][q].back)
  BY <1>1, SeedContents
<1>3. PICK n \in chosen[c], end \in chosen[c] :
        /\ Newest(chosen[c], n) /\ EndOfChain(chosen[c], end, q)
        /\ row[q] = SeedContent(n, q) /\ picked[c][q].back = before[end][q]
        /\ n \in Done /\ end \in Done /\ t[end] <= t[n]
        /\ Signed(q, before[end][q]) /\ t[before[end][q].by] < t[end]
  BY <1>2, GoesBack
<1>4. before[end][q] = SeedContent(v, q) /\ t[v] < t[end]
  <2>1. before[end][q] = SeedContent(v, q) /\ SeedContent(v, q).by = v
    BY <1>1, <1>3, SeedContents
  <2>2. QED
    BY <1>3, <2>1
<1>5. /\ \A k \in Done : k \in SeedJobs /\ seededAt[k] \in Nat /\ t[k] \in Nat
      /\ \A j, k \in Done : seededAt[j] = seededAt[k] => j = k
      /\ chosen[c] \subseteq Done
  BY NumbersDiffer, ChosenDone
<1>6. end \in Standing /\ n \in Standing /\ v \in chosen[c]
  <2>1. end \in Standing
    BY <1>3, <1>4 DEF Kept, Ranked, Prefixes
  <2>2. n = end \/ t[end] < t[n]
    BY <1>3, <1>5 DEF Kept, Ranked, Ordered
  <2>3. QED
    BY <1>3, <1>4, <2>1, <2>2 DEF Kept, Ranked, Prefixes
<1>7. seededAt[v] < seededAt[end]
  <2>1. CASE seededAt[v] > seededAt[end]
    <3>1. t[end] < t[v]
      BY <1>3, <1>5, <1>6, <2>1, ChainRises DEF EndOfChain, Kept, Ranked
    <3>2. QED
      BY <1>1, <1>3, <1>4, <1>5, <3>1
  <2>2. CASE seededAt[v] = seededAt[end]
    BY <1>1, <1>3, <1>4, <1>5, <2>2
  <2>3. QED
    BY <1>1, <1>3, <1>5, <2>1, <2>2
<1>8. ASSUME NEW i \in Done, t[end] < t[i]
      PROVE  seededAt[end] < seededAt[i]
  BY <1>3, <1>5, <1>6, <1>8, ChainClimbs DEF Kept
<1>9. \E i \in chosen[c] : seededAt[v] < seededAt[i] /\ seededAt[i] < seededAt[end]
  <2>1. v \in Older(chosen[c], end)
    BY <1>6, <1>7 DEF Older
  <2>2. before[end][q] # NoRow /\ SameText(SeedContent(v, q), before[end][q])
    BY <1>1, <1>4, SeedContents DEF SameText
  <2>3. ~Newest(Older(chosen[c], end), v)
    BY <1>3, <2>1, <2>2 DEF EndOfChain, Linked
  <2>4. PICK i \in Older(chosen[c], end) : ~(seededAt[i] <= seededAt[v])
    BY <2>1, <2>3 DEF Newest
  <2>5. i \in chosen[c] /\ seededAt[i] < seededAt[end] /\ i \in Done
    BY <1>5, <2>4 DEF Older
  <2>6. QED
    BY <1>1, <1>5, <2>4, <2>5
<1>10. QED
  BY <1>3, <1>4, <1>6, <1>7, <1>8, <1>9

(* It is never that of the newest run which some clean chose.              *)
LEMMA NewestStaysAway ==
  ASSUME IInv, Numbered, NEW t \in [SeedJobs -> Nat], Kept(t), NEW c \in Cleans, NEW q \in Stamped,
         picked[c][q] # Unpicked, Matches(picked[c][q], q),
         NEW v \in Standing, picked[c][q].back = SeedContent(v, q),
         NEW d \in Cleans, Newest(chosen[d], v)
  PROVE  FALSE
<1>1. PICK n \in chosen[c], end \in chosen[c] :
        /\ before[end][q] = SeedContent(v, q) /\ end \in Standing
        /\ t[v] < t[end] /\ seededAt[v] < seededAt[end]
        /\ \A i \in Done : t[end] < t[i] => seededAt[end] < seededAt[i]
        /\ \E i \in chosen[c] : seededAt[v] < seededAt[i] /\ seededAt[i] < seededAt[end]
  BY PutsBack
<1>2. PICK i \in chosen[c] : seededAt[v] < seededAt[i] /\ seededAt[i] < seededAt[end]
  BY <1>1
<1>3. /\ v \in chosen[d] /\ v \in Done /\ end \in Done /\ i \in Done
      /\ \A k \in Done : seededAt[k] \in Nat /\ t[k] \in Nat
      /\ \A j, k \in Done : t[j] = t[k] => j = k
  BY <1>1, <1>2, NumbersDiffer, ChosenDone DEF Newest, Kept, Ranked, Ordered
<1>4. end \notin chosen[d] /\ i \notin chosen[d]
  BY <1>1, <1>2, <1>3 DEF Newest
<1>5. t[v] < t[i]
  BY <1>1, <1>2, <1>3, <1>4 DEF Kept, Ranked, Prefixes
<1>6. i \in Later(d) /\ end \in Later(d)
  BY <1>1, <1>3, <1>4, <1>5 DEF Kept, Ranked, Prefixes, Later
<1>7. t[end] <= t[i]
  BY <1>1, <1>6 DEF Kept, Ranked, Unrestored
<1>8. t[end] # t[i]
  BY <1>2, <1>3
<1>9. QED
  BY <1>1, <1>2, <1>3, <1>7, <1>8

LEMMA CleanRowKeeps ==
  ASSUME IInv, Numbered, NEW t \in [SeedJobs -> Nat], Kept(t), NEW c \in Cleans, NEW q \in Rows,
         CleanRow(c, q)
  PROVE  Kept(t)'
<1> DEFINE x == picked[c][q]
<1>1. /\ cleanAt[c] = "cleaning" /\ x # Unpicked
      /\ picked' = [picked EXCEPT ![c][q] = Unpicked]
      /\ IF Matches(x, q) THEN row' = [row EXCEPT ![q] = x.back] /\ UNCHANGED skips
         ELSE skips' = [skips EXCEPT ![c] = @ \/ x.exact] /\ UNCHANGED row
      /\ UNCHANGED <<cleanAt, chosen, noted, before, runStatus, seededAt>>
  BY DEF CleanRow, manifestVars, writeVars
<1>2. \A r \in Rows : row'[r] = IF r = q /\ Matches(x, q) THEN x.back ELSE row[r]
  BY <1>1 DEF IInv, RowsOK
<1>3. /\ \A d \in Cleans, r \in Rows :
           picked'[d][r] = IF d = c /\ r = q THEN Unpicked ELSE picked[d][r]
      /\ \A d \in Cleans : d # c => skips'[d] = skips[d]
      /\ skips'[c] = (skips[c] \/ (~Matches(x, q) /\ x.exact))
  BY <1>1 DEF IInv, CleansOK
<1>4. /\ \A d \in Cleans : Later(d)' = Later(d) /\ (Sure(d)' => Sure(d)) /\ chosen[d] \subseteq Done
      /\ \A d \in Cleans : d # c => (Sure(d)' <=> Sure(d))
      /\ \A d \in Cleans : \A n : Newest(chosen[d], n)' <=> Newest(chosen[d], n)
      /\ Done' = Done /\ Standing' = Standing /\ Standing \subseteq Done /\ Done \subseteq SeedJobs
  BY <1>1, <1>3, ChosenDone DEF Later, Sure, Newest, Done, Standing
<1>5. Followed'
  <2> SUFFICES ASSUME NEW d \in Cleans, NEW r \in Rows
               PROVE  /\ picked'[d][r] # Unpicked => Traced(d, r, picked[d][r])'
                      /\ Sure(d) /\ chosen[d] # {} =>
                           /\ picked'[d][r] # Unpicked => picked'[d][r].exact
                           /\ \A j \in chosen[d] : (Linked(chosen[d], j, r) \/ Older(chosen[d], j) = {})'
    BY <1>1, <1>4 DEF Followed
  <2>1. picked'[d][r] # Unpicked => picked'[d][r] = picked[d][r]
    BY <1>3
  <2>2. picked'[d][r] # Unpicked => Traced(d, r, picked[d][r])'
    BY <1>1, <2>1, TracedStays DEF Kept, Followed
  <2>3. QED
    BY <1>1, <2>1, <2>2, ChainStays DEF Kept, Followed
<1>6. Ordered(t)'
  <2>1. ASSUME NEW r \in Stamped
        PROVE  /\ Signed(r, row[r])'
               /\ noted[r] # Unpicked /\ SeedWrote(row'[r]) =>
                    SeedWrote(noted[r]) /\ t[row'[r].by] <= t[noted[r].by]
    <3>1. /\ r \in Rows /\ Signed(r, row[r])
          /\ noted[r] # Unpicked => Signed(r, noted[r])
          /\ noted[r] # Unpicked /\ SeedWrote(row[r]) =>
               SeedWrote(noted[r]) /\ t[row[r].by] <= t[noted[r].by]
      BY SeedAssumption DEF Kept, Ranked, Ordered
    <3>2. CASE row'[r] = row[r]
      BY <1>4, <3>1, <3>2 DEF Signed
    <3>3. CASE ~SeedWrote(row'[r])
      BY <3>3 DEF Signed
    <3>4. CASE row'[r] # row[r] /\ SeedWrote(row'[r])
      <4>1. r = q /\ Matches(x, q) /\ row'[q] = x.back
        BY <1>2, <3>1, <3>4
      <4>2. PICK n \in chosen[c], end \in chosen[c] :
              /\ row[q] = SeedContent(n, q) /\ x.back = before[end][q]
              /\ n \in Done /\ end \in Done /\ t[end] <= t[n]
              /\ Signed(q, before[end][q]) /\ t[before[end][q].by] < t[end]
        BY <1>1, <3>4, <4>1, GoesBack
      <4>3. SeedWrote(row[q]) /\ row[q].by = n
        BY <1>4, <4>2, SeedContents
      <4>4. t[n] \in Nat /\ t[end] \in Nat /\ t[row'[q].by] \in Nat
        BY <1>4, <3>4, <4>1, <4>2 DEF SeedWrote
      <4>5. Signed(r, row[r])'
        BY <1>4, <4>1, <4>2 DEF Signed
      <4>6. noted[r] # Unpicked => t[noted[r].by] \in Nat
        BY <3>1, <4>1, <4>3 DEF SeedWrote
      <4>7. QED
        BY <3>1, <4>1, <4>2, <4>3, <4>4, <4>5, <4>6
    <3>5. QED
      BY <3>2, <3>3, <3>4
  <2>2. QED
    BY <1>1, <1>4, <2>1 DEF Kept, Ranked, Ordered, Signed
<1>7. Prefixes(t)'
  BY <1>1, <1>4 DEF Kept, Ranked, Prefixes
<1>8. ASSUME NEW r \in Stamped, NEW v \in Standing, row'[r] = SeedContent(v, r),
             row[r] # SeedContent(v, r)
      PROVE  r = q /\ Matches(x, q) /\ x.back = SeedContent(v, q)
  BY <1>2, <1>8, StampedContents, SeedAssumption
<1>9. Climbs(t)'
  <2> SUFFICES ASSUME NEW r \in Stamped, NEW v \in Standing, NEW i \in Done,
                      t[v] < t[i], seededAt[i] <= seededAt[v]
               PROVE  row'[r] # SeedContent(v, r)
    BY <1>1, <1>4 DEF Kept, Ranked, Climbs, SeedContent
  <2>1. /\ row[r] # SeedContent(v, r)
        /\ \A u \in Done : before[u][r] = SeedContent(v, r) => t[u] <= t[i]
    BY DEF Kept, Ranked, Climbs
  <2>2. SUFFICES ASSUME row'[r] = SeedContent(v, r)
                 PROVE  FALSE
    OBVIOUS
  <2>3. r = q /\ Matches(x, q) /\ x.back = SeedContent(v, q)
    BY <1>8, <2>1, <2>2
  <2>4. PICK n \in chosen[c], end \in chosen[c] :
          /\ before[end][q] = SeedContent(v, q) /\ end \in Standing
          /\ t[v] < t[end] /\ seededAt[v] < seededAt[end]
          /\ \A k \in Done : t[end] < t[k] => seededAt[end] < seededAt[k]
    BY <1>1, <2>3, PutsBack
  <2>5. end \in Done /\ t[end] <= t[i]
    BY <1>4, <2>1, <2>3, <2>4
  <2>6. /\ \A k \in Done : seededAt[k] \in Nat /\ t[k] \in Nat
        /\ \A j, k \in Done : t[j] = t[k] => j = k
    BY <1>4, NumbersDiffer DEF Kept, Ranked, Ordered
  <2>7. CASE end = i
    BY <1>4, <2>4, <2>6, <2>7
  <2>8. CASE end # i
    BY <1>4, <2>4, <2>5, <2>6, <2>8
  <2>9. QED
    BY <2>7, <2>8
<1>10. Unrestored(t)'
  <2> SUFFICES ASSUME NEW d \in Cleans, NEW r \in Stamped, NEW n \in Standing,
                      NEW i \in Later(d)', Newest(chosen[d], n)'
               PROVE  /\ row'[r] # SeedContent(n, r) /\ noted[r] # SeedContent(n, r)
                      /\ \A u \in Later(d)' : before[u][r] = SeedContent(n, r) => t[u] <= t[i]
    BY <1>1, <1>4 DEF Unrestored, SeedContent
  <2>1. /\ row[r] # SeedContent(n, r) /\ noted[r] # SeedContent(n, r)
        /\ \A u \in Later(d)' : before[u][r] = SeedContent(n, r) => t[u] <= t[i]
    BY <1>4 DEF Kept, Ranked, Unrestored
  <2>2. QED
    BY <1>1, <1>4, <1>8, <2>1, NewestStaysAway
<1>11. Gone'
  <2> SUFFICES ASSUME NEW d \in Cleans, NEW r \in Stamped, NEW a \in Standing,
                      Sure(d)', picked'[d][r] = Unpicked, a \in chosen[d]
               PROVE  /\ row'[r] # SeedContent(a, r)
                      /\ noted[r] = SeedContent(a, r) => Newest(chosen[d], a)
                      /\ \A u \in Later(d) : before[u][r] = SeedContent(a, r) => Newest(chosen[d], a)
    BY <1>1, <1>4 DEF Gone, SeedContent
  <2>1. Sure(d) /\ r \in Rows /\ a \in Done /\ a \in SeedJobs
    BY <1>4, StampedContents
  <2>2. /\ \A k \in Done : seededAt[k] \in Nat /\ t[k] \in Nat
        /\ \A j, k \in Done : t[j] = t[k] => j = k
        /\ \A j, k \in Done : seededAt[j] = seededAt[k] => j = k
    BY <1>4, NumbersDiffer DEF Kept, Ranked, Ordered
  <2>3. CASE d = c /\ r = q
    <3>1. x.exact /\ Matches(x, q)
      BY <1>1, <1>3, <2>1, <2>3 DEF Kept, Followed, Sure
    <3>2. PICK n \in chosen[c], end \in chosen[c] :
            /\ Newest(chosen[c], n) /\ EndOfChain(chosen[c], end, q)
            /\ x.was = SeedContent(n, q) /\ x.back = before[end][q]
      BY <1>1, <3>1 DEF Kept, Followed, Traced
    <3>3. n \in Done /\ end \in Done /\ n \in SeedJobs
      BY <1>4
    <3>4. row[q] = SeedContent(n, q)
      <4>1. SameText(row[q], SeedContent(n, q))
        BY <3>1, <3>2 DEF Matches
      <4>2. MayStand(q, row[q]) /\ Signed(q, row[q])
        BY <2>1, <2>3 DEF IInv, RowsOK, Kept, Ranked, Ordered
      <4>3. QED
        BY <2>3, <3>3, <4>1, <4>2, SignedContents
    <3>5. \A j \in chosen[c] : Linked(chosen[c], j, q) \/ Older(chosen[c], j) = {}
      BY <2>1, <2>3 DEF Kept, Followed
    <3>6. \A j, k \in chosen[c] : seededAt[j] < seededAt[k] => t[j] < t[k]
      <4> SUFFICES ASSUME NEW j \in chosen[c], NEW k \in chosen[c], seededAt[j] < seededAt[k]
                   PROVE  t[j] < t[k]
        OBVIOUS
      <4>1. j \in Done /\ k \in Done
        BY <1>4
      <4>2. \A i \in chosen[c] : seededAt[i] > seededAt[j] => Linked(chosen[c], i, q)
        <5> SUFFICES ASSUME NEW i \in chosen[c], seededAt[i] > seededAt[j]
                     PROVE  Linked(chosen[c], i, q)
          OBVIOUS
        <5>1. i \in Done /\ seededAt[j] < seededAt[i]
          BY <1>4, <2>2, <4>1
        <5>2. j \in Older(chosen[c], i)
          BY <5>1 DEF Older
        <5>3. QED
          BY <3>5, <5>2
      <4>3. seededAt[k] > seededAt[j]
        BY <2>2, <4>1
      <4>4. QED
        BY <1>4, <2>3, <4>2, <4>3, ChainRises DEF Kept, Ranked
    <3>7. t[a] <= t[n] /\ n \in Standing
      <4>1. a = n \/ seededAt[a] < seededAt[n]
        BY <2>1, <2>2, <2>3, <3>2, <3>3 DEF Newest
      <4>2. a = n \/ t[a] < t[n]
        BY <2>3, <3>6, <4>1
      <4>3. QED
        BY <2>1, <2>2, <3>3, <4>2 DEF Kept, Ranked, Prefixes
    <3>8. Later(c) = {}
      BY <2>3, <3>2, <3>4, <3>7 DEF Kept, Ranked, Unrestored
    <3>9. row'[q] # SeedContent(a, q)
      <4>1. SUFFICES ASSUME before[end][q] = SeedContent(a, q)
                     PROVE  FALSE
        BY <1>2, <3>1, <3>2
      <4>2. t[a] < t[end]
        BY <2>1, <2>3, <3>3, <4>1, SeedContents DEF Kept, Ranked, Ordered
      <4>3. Older(chosen[c], end) = {}
        BY <3>2, <3>5 DEF EndOfChain
      <4>4. ~(seededAt[a] < seededAt[end])
        BY <2>3, <4>3 DEF Older
      <4>5. a = end \/ t[end] < t[a]
        BY <2>1, <2>2, <2>3, <3>3, <3>6, <4>4
      <4>6. QED
        BY <2>1, <2>2, <3>3, <4>2, <4>5
    <3>10. noted[q] = SeedContent(a, q) => Newest(chosen[c], a)
      <4> SUFFICES ASSUME noted[q] = SeedContent(a, q)
                   PROVE  a = n
        BY <3>2
      <4>1. noted[q] # Unpicked /\ noted[q].by = a /\ SeedWrote(row[q]) /\ row[q].by = n
        BY <2>1, <2>3, <3>3, <3>4, StampedContents, SeedContents
      <4>2. t[n] <= t[a]
        BY <2>3, <4>1 DEF Kept, Ranked, Ordered
      <4>3. QED
        BY <2>1, <2>2, <3>3, <3>7, <4>2
    <3>11. QED
      BY <2>3, <3>8, <3>9, <3>10
  <2>4. CASE ~(d = c /\ r = q)
    <3>1. picked[d][r] = Unpicked
      BY <1>3, <2>1, <2>4
    <3>2. /\ row[r] # SeedContent(a, r)
          /\ noted[r] = SeedContent(a, r) => Newest(chosen[d], a)
          /\ \A u \in Later(d) : before[u][r] = SeedContent(a, r) => Newest(chosen[d], a)
      BY <2>1, <3>1 DEF Kept, Gone
    <3>3. ASSUME row'[r] = SeedContent(a, r)
          PROVE  FALSE
      <4>1. r = q /\ Matches(x, q) /\ x.back = SeedContent(a, q)
        BY <1>8, <3>2, <3>3
      <4>2. PICK n \in chosen[c], end \in chosen[c] :
              /\ row[q] = SeedContent(n, q) /\ before[end][q] = SeedContent(a, q)
              /\ n \in Standing /\ end \in Standing /\ t[end] <= t[n]
              /\ t[a] < t[end] /\ seededAt[a] < seededAt[end]
              /\ \A i \in Done : t[end] < t[i] => seededAt[end] < seededAt[i]
              /\ \E i \in chosen[c] : seededAt[a] < seededAt[i] /\ seededAt[i] < seededAt[end]
        BY <1>1, <4>1, PutsBack
      <4>3. n \in Done /\ end \in Done /\ end \in SeedJobs
        BY <1>4
      <4>4. CASE end \notin chosen[d]
        <5>1. Newest(chosen[d], a)
          BY <3>2, <4>1, <4>2, <4>4 DEF Later
        <5>2. QED
          BY <1>1, <4>1, <5>1, NewestStaysAway
      <4>5. CASE end \in chosen[d]
        <5>1. n \notin chosen[d]
          BY <2>1, <3>1, <4>1, <4>2 DEF Kept, Gone
        <5>2. PICK i \in chosen[c] : seededAt[a] < seededAt[i] /\ seededAt[i] < seededAt[end]
          BY <4>2
        <5>3. i \in Done
          BY <1>4
        <5>4. CASE i \in chosen[d]
          <6>1. a \in Older(chosen[d], end) /\ i \in Older(chosen[d], end)
            BY <4>2, <5>2, <5>4 DEF Older
          <6>2. Linked(chosen[d], end, q)
            BY <2>1, <4>1, <4>5, <6>1 DEF Kept, Followed
          <6>3. PICK h \in Older(chosen[d], end) :
                  /\ Newest(Older(chosen[d], end), h)
                  /\ SameText(SeedContent(h, q), before[end][q])
            BY <6>2 DEF Linked
          <6>4. h \in SeedJobs
            BY <1>4, <6>3 DEF Older
          <6>5. h = a
            BY <2>1, <4>1, <4>2, <6>3, <6>4, StampedContents
          <6>6. seededAt[i] <= seededAt[a]
            BY <6>1, <6>3, <6>5 DEF Newest
          <6>7. QED
            BY <2>1, <2>2, <5>2, <5>3, <6>6
        <5>5. CASE i \notin chosen[d]
          <6>1. t[a] < t[n]
            BY <2>1, <2>2, <4>2, <4>3
          <6>2. t[end] < t[i]
            BY <4>5, <5>1, <5>5, <6>1 DEF Kept, Ranked, Prefixes
          <6>3. QED
            BY <2>2, <4>2, <4>3, <5>2, <5>3, <6>2
        <5>6. QED
          BY <5>4, <5>5
      <4>6. QED
        BY <4>4, <4>5
    <3>4. QED
      BY <3>2, <3>3
  <2>5. QED
    BY <2>3, <2>4
<1>12. QED
  BY <1>5, <1>6, <1>7, <1>9, <1>10, <1>11 DEF Kept, Ranked

-----------------------------------------------------------------------------
(* The order of the commits is kept by every step. *)

LEMMA OrderInit == SeedInit => OrderInv
<1> SUFFICES ASSUME SeedInit
             PROVE  OrderInv
  OBVIOUS
<1>1. IInv /\ marker # "mock"
  BY InitIInv, ModeAssumption DEF SeedInit, ModeInit, Modes
<1>2. OneRun /\ \A r \in Rows : Undone(r)
  BY <1>1 DEF IInv, Quiet
<1>3. PICK early \in {{}} \cup {{j} : j \in SeedJobs} :
        seededAt = [j \in SeedJobs |-> IF j \in early THEN 1 ELSE 0]
  BY DEF SeedInit
<1>4. /\ runStatus = [j \in SeedJobs |-> IF seededAt[j] = 1 THEN "complete" ELSE "none"]
      /\ writer = NoHolder /\ noted = Nothing
      /\ cleanAt = [c \in Cleans |-> "idle"] /\ chosen = [c \in Cleans |-> {}]
      /\ picked = [c \in Cleans |-> Nothing]
  BY DEF SeedInit
<1>5. Numbered
  <2>1. Begun = early /\ \A j \in SeedJobs : j \in Begun <=> runStatus[j] # "none"
    BY <1>3, <1>4 DEF Begun
  <2>2. IsFiniteSet(early) /\ \A j \in early : early = {j} /\ Cardinality(early) = 1
    BY <1>3, FS_EmptySet, FS_Singleton
  <2>3. QED
    BY <1>3, <1>4, <2>1, <2>2 DEF Numbered
<1>6. Followed /\ Gone
  BY <1>4 DEF Followed, Gone, Sure, Nothing
<1> DEFINE t == [j \in SeedJobs |-> 0]
<1>7. t \in [SeedJobs -> Nat] /\ \A j \in SeedJobs : t[j] = 0
  OBVIOUS
<1> HIDE DEF t
<1>8. Ordered(t)
  <2>1. 1 \in Nat /\ \A j \in Done : j \in SeedJobs /\ t[j] < 1
    BY <1>7 DEF Done
  <2>2. \A j, k \in Done : j = k
    BY <1>2 DEF OneRun, Done, Committed
  <2>3. \A r \in Stamped : r \in Rows /\ Signed(r, row[r]) /\ noted[r] = Unpicked
    BY <1>2, <1>4, SeedAssumption DEF Undone, Signed, Done, Committed, SeedWrote, Nothing
  <2>4. \A k \in Done, r \in Stamped : ~SeedWrote(before[k][r])
    BY <1>2, SeedAssumption DEF OneRun, Done, Committed
  <2>5. QED
    BY <2>1, <2>2, <2>3, <2>4 DEF Ordered, Signed
<1>9. Prefixes(t) /\ Climbs(t)
  <2>1. \A j, k \in Done : ~(t[j] < t[k])
    BY <1>7 DEF Done
  <2>2. QED
    BY <1>4, <2>1, ChosenDone, <1>1 DEF Prefixes, Climbs
<1>10. Unrestored(t)
  BY <1>4 DEF Unrestored, Newest
<1>11. QED
  BY <1>5, <1>6, <1>7, <1>8, <1>9, <1>10 DEF OrderInv, Kept, Ranked

LEMMA OrderNext == IInv /\ OrderInv /\ [SeedNext]_seedVars => OrderInv'
<1> SUFFICES ASSUME IInv, OrderInv, [SeedNext]_seedVars
             PROVE  OrderInv'
  OBVIOUS
<1>1. Numbered /\ Numbered'
  BY NumberedStep DEF OrderInv
<1>2. PICK t \in [SeedJobs -> Nat] : Kept(t)
  BY DEF OrderInv
<1>3. SUFFICES \E u \in [SeedJobs -> Nat] : Kept(u)'
  BY <1>1 DEF OrderInv
<1>4. ASSUME UNCHANGED <<rowVars, manifestVars, cleanVars>>,
             UNCHANGED noted \/ noted' = Nothing
      PROVE  Kept(t)'
  <2>1. Done' = Done /\ Standing' = Standing
    BY <1>4 DEF Done, Standing, manifestVars
  <2>2. \A r \in Stamped : noted'[r] = noted[r] \/ noted'[r] = Unpicked
    BY <1>4, SeedAssumption DEF Nothing
  <2>3. QED
    BY <1>2, <1>4, <2>1, <2>2, CalmStep DEF rowVars, manifestVars
<1>5. CASE \E p \in Processes : Start(p) \/ EnsureMode(p) \/ StopProcess(p)
  BY <1>2, <1>4, <1>5 DEF Start, EnsureMode, StopProcess, writeVars
<1>6. ASSUME NEW q \in Rows, NEW v \in Versions, OtherWrites(q, v)
      PROVE  Kept(t)'
  <2>1. /\ row' = [row EXCEPT ![q] = OtherContent(v)]
        /\ UNCHANGED <<manifestVars, noted, cleanVars>>
    BY <1>6 DEF OtherWrites, writeVars
  <2>2. \A r \in Stamped : row'[r] = row[r] \/ ~SeedWrote(row'[r])
    BY <2>1, OtherContents, SeedAssumption DEF IInv, RowsOK
  <2>3. Done' = Done /\ Standing' = Standing
    BY <2>1 DEF Done, Standing, manifestVars
  <2>4. QED
    BY <1>2, <2>1, <2>2, <2>3, CalmStep DEF manifestVars
<1>7. ASSUME NEW j \in SeedJobs, SeedStep(j)
      PROVE  \E u \in [SeedJobs -> Nat] : Kept(u)'
  <2>1. CASE BeginRun(j)
    <3>1. /\ runStatus[j] = "none" /\ runStatus' = [runStatus EXCEPT ![j] = "running"]
          /\ \A k \in SeedJobs : k # j => seededAt'[k] = seededAt[k]
          /\ UNCHANGED <<before, rowVars, noted, cleanVars>>
      BY <1>1, <2>1 DEF BeginRun, writeVars, Numbered
    <3>2. Done' = Done /\ Standing' = Standing /\ j \notin Done /\ Done \subseteq SeedJobs
      BY <3>1 DEF Done, Standing, Committed, IInv, RowsOK
    <3>3. QED
      BY <1>2, <3>1, <3>2, CalmStep DEF rowVars
  <2>2. CASE OpenTables(j)
    BY <1>2, <1>4, <2>2 DEF OpenTables
  <2>3. CASE CompleteRun(j)
    BY <1>1, <1>2, <2>3, CommitStep
  <2>4. CASE FailRun(j)
    <3>1. /\ runStatus[j] = "running" /\ runStatus' = [runStatus EXCEPT ![j] = "failed"]
          /\ noted' = noted \/ noted' = Nothing
          /\ UNCHANGED <<seededAt, before, rowVars, cleanVars>>
      BY <2>4 DEF FailRun, writeVars
    <3>2. Done' = Done /\ Standing' = Standing
      BY <3>1 DEF Done, Standing, Committed, IInv, RowsOK
    <3>3. \A r \in Stamped : noted'[r] = noted[r] \/ noted'[r] = Unpicked
      BY <3>1, SeedAssumption DEF Nothing
    <3>4. QED
      BY <1>2, <3>1, <3>2, <3>3, CalmStep DEF rowVars
  <2>5. ASSUME NEW q \in Rows, ReadBefore(j, q)
        PROVE  Kept(t)'
    <3>1. /\ noted' = [noted EXCEPT ![q] = row[q]]
          /\ UNCHANGED <<rowVars, manifestVars, cleanVars>>
      BY <2>5 DEF ReadBefore
    <3>2. Done' = Done /\ Standing' = Standing
      BY <3>1 DEF Done, Standing, manifestVars
    <3>3. \A r \in Stamped : noted'[r] = noted[r] \/ noted'[r] = row[r]
      BY <3>1, SeedAssumption DEF IInv, RowsOK
    <3>4. QED
      BY <1>2, <3>1, <3>2, <3>3, CalmStep DEF rowVars, manifestVars
  <2>6. CASE \E r \in Rows : PutRow(j, r)
    BY <1>2, <1>4, <2>6 DEF PutRow
  <2>7. QED
    BY <1>2, <1>7, <2>1, <2>2, <2>3, <2>4, <2>5, <2>6 DEF SeedStep
<1>8. ASSUME NEW c \in Cleans, CleanStep(c)
      PROVE  Kept(t)'
  BY <1>1, <1>2, <1>8, SelectKeeps, CompareKeeps, ForgetKeeps, CleanRowKeeps DEF CleanStep
<1>9. CASE UNCHANGED seedVars
  BY <1>2, <1>4, <1>9 DEF seedVars, writeVars
<1>10. QED
  BY <1>2, <1>5, <1>6, <1>7, <1>8, <1>9 DEF SeedNext

(* A run ends as cleaned only when no row that held live data is gone and  *)
(* nothing of it is left in a stamped row, however many cleans run at the  *)
(* same time, die and are run again (clean).                               *)
THEOREM CleanedRunsAreGone == SeedSpec => CleanedIsGone
<1>1. IInv /\ OrderInv /\ [SeedNext]_seedVars =>
        [\A j \in SeedJobs : runStatus'[j] = "cleaned" /\ runStatus[j] # "cleaned" =>
           /\ \A r \in owned : row[r] # NoRow
           /\ \A r \in Stamped : row[r] # NoRow => row[r].by # j]_seedVars
  <2> SUFFICES ASSUME IInv, OrderInv, SeedNext, NEW j \in SeedJobs,
                      runStatus'[j] = "cleaned", runStatus[j] # "cleaned"
               PROVE  /\ \A r \in owned : row[r] # NoRow
                      /\ \A r \in Stamped : row[r] # NoRow => row[r].by # j
    OBVIOUS
  <2>1. \A r \in owned : row[r] # NoRow
    BY DEF IInv, Quiet, RowsOK
  <2>2. PICK c \in Cleans : Consume(c)
    <3>1. ~\E p \in Processes : Start(p) \/ EnsureMode(p) \/ StopProcess(p)
      BY DEF Start, EnsureMode, StopProcess, manifestVars
    <3>2. ~\E r \in Rows, v \in Versions : OtherWrites(r, v)
      BY DEF OtherWrites, manifestVars
    <3>3. ~\E k \in SeedJobs : SeedStep(k)
      BY DEF SeedStep, BeginRun, OpenTables, CompleteRun, FailRun, ReadBefore, PutRow,
             manifestVars, IInv, RowsOK
    <3>4. QED
      BY <3>1, <3>2, <3>3
      DEF SeedNext, CleanStep, SelectRuns, Compare, CleanDies, CleanRow, manifestVars
  <2>3. Sure(c) /\ picked[c] = Nothing /\ j \in chosen[c] /\ j \in Standing
    BY <2>2 DEF Consume, Sure, Standing
  <2>4. PICK t \in [SeedJobs -> Nat] : Kept(t)
    BY DEF OrderInv
  <2>5. ASSUME NEW r \in Stamped, row[r] # NoRow, row[r].by = j
        PROVE  FALSE
    <3>1. SeedWrote(row[r]) /\ Signed(r, row[r])
      BY <2>4, <2>5 DEF SeedWrote, Kept, Ranked, Ordered
    <3>2. row[r] = SeedContent(j, r)
      BY <2>5, <3>1 DEF Signed
    <3>3. picked[c][r] = Unpicked
      BY <2>3, SeedAssumption DEF Nothing
    <3>4. QED
      BY <2>3, <2>4, <3>2, <3>3 DEF Kept, Gone
  <2>6. QED
    BY <2>1, <2>5
<1>2. SeedSpec => []OrderInv
  BY Invariance, OrderInit, OrderNext, PTL DEF SeedSpec
<1>3. QED
  BY <1>1, <1>2, Invariance, PTL DEF SeedSpec, CleanedIsGone
=============================================================================
