------------------------- MODULE BacktestServiceProofs -------------------------
(***************************************************************************)
(* What the worker pool keeps for every set of jobs, pool size and number  *)
(* of progress messages: the slots of its semaphores, no worker process    *)
(* after its call, and, when all calls come from one event loop, no more   *)
(* worker processes than slots; that a call queues only while the slots    *)
(* are taken, that callers are told the outcome of their runs, and that    *)
(* the tasks follow TaskLifecycle.                                         *)
(***************************************************************************)
EXTENDS BacktestService, FiniteSetTheorems, TLAPS

(* Progress a task has been told of; sync jobs are told of none.           *)
Seen(j) == IF j \in Tasks THEN progress[j] ELSE 0

Typed ==
  /\ coroutine \in [Jobs -> {"new", "queued", "granted", "awaiting", "ended"}]
  /\ sem \in Jobs \cup {NoSem}
  /\ slot \in [Jobs -> Jobs \cup {NoSem}]
  /\ free \in [Jobs -> Nat]
  /\ waiters \in [Jobs -> Seq(Jobs)]
  /\ thread \in [Jobs -> {"none", "spawn", "token", "get", "alive", "drain",
                          "join", "post", "handler", "over"}]
  /\ reads \in [Jobs -> 0 .. 2]
  /\ outcome \in [Jobs -> {"none", "result"} \cup Raised]
  /\ posted \in [Jobs -> {"none", "queued", "resolved", "lost"}]
  /\ child \in [Jobs -> {"none", "running", "closing", "dead"}]
  /\ sent \in [Jobs -> Nat]
  /\ buffer \in [Jobs -> Seq(Messages)]
  /\ pipe \in [Jobs -> Seq(Messages)]
  /\ cancelled \subseteq Jobs
  /\ status \in [Tasks -> {"none"} \cup Active \cup Terminal]
  /\ progress \in [Tasks -> Nat]
  /\ answered \in [Jobs \ Tasks -> {"none", "raised"} \cup Terminal]

(* The coroutine, the thread and the child of a job keep in step: there is *)
(* no thread before a slot, no child outside its thread's message loop,    *)
(* and nothing is posted before the outcome is known.                      *)
InStep(j) ==
  /\ (coroutine[j] \in {"new", "queued", "granted"} <=> thread[j] = "none")
  /\ (coroutine[j] # "new" => slot[j] \in Jobs)
  /\ (coroutine[j] = "ended" => posted[j] = "resolved")
  /\ (thread[j] \in {"none", "spawn"} => /\ child[j] = "none" /\ sent[j] = 0
                                         /\ buffer[j] = <<>> /\ pipe[j] = <<>>
                                         /\ Seen(j) = 0)
  /\ (thread[j] \in {"none", "spawn", "token", "get", "alive"} => outcome[j] = "none")
  /\ (thread[j] \in {"post", "handler", "over"} =>
        child[j] \notin Alive /\ outcome[j] # "none")
  /\ (posted[j] # "none" => thread[j] \in {"handler", "over"})

(* A semaphore's free slots and the calls that hold one are the pool size, *)
(* and its queue holds calls that wait for it, each once.                  *)
SemOK(s) ==
  /\ free[s] + Cardinality(Holders(s)) = PoolSize
  /\ (waiters[s] # <<>> => free[s] = 0)
  /\ \A i \in 1 .. Len(waiters[s]) :
       coroutine[waiters[s][i]] = "queued" /\ slot[waiters[s][i]] = s
  /\ \A i, k \in 1 .. Len(waiters[s]) : waiters[s][i] = waiters[s][k] => i = k

(* Each progress message is read once: the ones told, the ones in the pipe *)
(* and the ones in the buffer do not exceed what was sent.  Only the last  *)
(* message of a child can be another one.                                  *)
CountOK(j) ==
  /\ sent[j] <= MaxProgress /\ Seen(j) <= sent[j]
  /\ (child[j] = "running" =>
        Seen(j) + Len(pipe[j]) + Len(buffer[j]) <= sent[j])
  /\ \A i \in 1 .. Len(pipe[j]) : pipe[j][i] = "progress" => Seen(j) + i <= sent[j]
  /\ \A i \in 1 .. Len(buffer[j]) :
       buffer[j][i] = "progress" => Seen(j) + Len(pipe[j]) + i <= sent[j]

Stages == \A j \in Jobs : InStep(j)
Slots  == \A s \in Jobs : SemOK(s)
Counts == \A j \in Jobs : CountOK(j)

IInv == Typed /\ Stages /\ Slots /\ Counts

(* Nothing the invariants say of a job changes. *)
Still(k) ==
  UNCHANGED <<coroutine[k], slot[k], thread[k], posted[k], outcome[k], child[k],
              sent[k], buffer[k], pipe[k], Seen(k)>>

LEMMA StillOK ==
  ASSUME NEW k, Still(k)
  PROVE  /\ InStep(k) => InStep(k)'
         /\ CountOK(k) => CountOK(k)'
<1>1. /\ UNCHANGED coroutine[k] /\ UNCHANGED slot[k] /\ UNCHANGED thread[k]
      /\ UNCHANGED posted[k] /\ UNCHANGED outcome[k] /\ UNCHANGED child[k]
      /\ UNCHANGED sent[k] /\ UNCHANGED buffer[k] /\ UNCHANGED pipe[k]
      /\ UNCHANGED Seen(k)
  BY DEF Still
<1> HIDE DEF Seen
<1>2. InStep(k) => InStep(k)'
  BY <1>1 DEF InStep
<1>3. CountOK(k) => CountOK(k)'
  BY <1>1 DEF CountOK
<1>4. QED
  BY <1>2, <1>3

-----------------------------------------------------------------------------
(* The initial state. *)

LEMMA InitIInv == Init => IInv
<1> SUFFICES ASSUME Init
             PROVE  IInv
  OBVIOUS
<1> USE PoolAssumption, ServiceAssumption
<1>1. Typed
  BY DEF Init, PoolInit, Typed
<1>2. Stages
  BY DEF Init, PoolInit, Stages, InStep, Seen, Alive
<1>3. Slots
  <2>1. \A s \in Jobs : Holders(s) = {}
    BY DEF Init, PoolInit, Holders
  <2>2. \A s \in Jobs : free[s] = PoolSize /\ waiters[s] = <<>>
    BY DEF Init, PoolInit
  <2>3. QED
    BY <2>1, <2>2, FS_EmptySet DEF Slots, SemOK
<1>4. Counts
  BY DEF Init, PoolInit, Counts, CountOK, Seen
<1>5. QED
  BY <1>1, <1>2, <1>3, <1>4 DEF IInv

-----------------------------------------------------------------------------
(* The steps on the event loop. *)

(* A call takes a slot, or queues. *)
LEMMA AcquireStep ==
  ASSUME IInv, NEW j \in Jobs, Acquire(j),
         status' \in [Tasks -> {"none"} \cup Active \cup Terminal],
         UNCHANGED <<progress, answered>>
  PROVE  IInv'
<1> USE PoolAssumption, ServiceAssumption DEF IInv
<1>0. /\ coroutine[j] = "new" /\ sem' \in Jobs
      /\ slot' = [slot EXCEPT ![j] = sem']
      /\ UNCHANGED <<reads, outcome, posted, child, sent, buffer, pipe, cancelled>>
  BY DEF Acquire, Semaphore, Typed, childVars
<1>1. \/ /\ free[sem'] > 0 /\ waiters[sem'] = <<>>
         /\ free' = [free EXCEPT ![sem'] = @ - 1] /\ waiters' = waiters
         /\ coroutine' = [coroutine EXCEPT ![j] = "awaiting"]
         /\ thread' = [thread EXCEPT ![j] = "spawn"]
      \/ /\ ~(free[sem'] > 0 /\ waiters[sem'] = <<>>)
         /\ free' = free
         /\ waiters' = [waiters EXCEPT ![sem'] = Append(@, j)]
         /\ coroutine' = [coroutine EXCEPT ![j] = "queued"]
         /\ thread' = thread
  BY DEF Acquire
<1>2. Typed'
  <2>0. sem' \in Jobs /\ free \in [Jobs -> Nat] /\ waiters \in [Jobs -> Seq(Jobs)]
    BY <1>0 DEF Typed
  <2>1. free' \in [Jobs -> Nat]
    <3>1. CASE free' = free
      BY <2>0, <3>1
    <3>2. CASE free[sem'] > 0 /\ free' = [free EXCEPT ![sem'] = @ - 1]
      <4>1. free[sem'] - 1 \in Nat
        BY <2>0, <3>2
      <4>2. QED
        BY <2>0, <3>2, <4>1
    <3>3. QED
      BY <1>1, <3>1, <3>2
  <2>2. waiters' \in [Jobs -> Seq(Jobs)]
    <3>1. Append(waiters[sem'], j) \in Seq(Jobs)
      BY <2>0
    <3>2. CASE waiters' = waiters
      BY <2>0, <3>2
    <3>3. CASE waiters' = [waiters EXCEPT ![sem'] = Append(@, j)]
      BY <2>0, <3>1, <3>3
    <3>4. QED
      BY <1>1, <3>2, <3>3
  <2>3. /\ coroutine' \in [Jobs -> {"new", "queued", "granted", "awaiting", "ended"}]
        /\ thread' \in [Jobs -> {"none", "spawn", "token", "get", "alive", "drain",
                                 "join", "post", "handler", "over"}]
        /\ sem' \in Jobs \cup {NoSem} /\ slot' \in [Jobs -> Jobs \cup {NoSem}]
    <3>1. /\ coroutine \in [Jobs -> {"new", "queued", "granted", "awaiting", "ended"}]
          /\ thread \in [Jobs -> {"none", "spawn", "token", "get", "alive", "drain",
                                  "join", "post", "handler", "over"}]
          /\ slot \in [Jobs -> Jobs \cup {NoSem}]
      BY DEF Typed
    <3>2. \/ /\ coroutine' = [coroutine EXCEPT ![j] = "awaiting"]
             /\ thread' = [thread EXCEPT ![j] = "spawn"]
          \/ /\ coroutine' = [coroutine EXCEPT ![j] = "queued"]
             /\ thread' = thread
      BY <1>1
    <3>3. coroutine' \in [Jobs -> {"new", "queued", "granted", "awaiting", "ended"}]
      BY <3>1, <3>2
    <3>4. thread' \in [Jobs -> {"none", "spawn", "token", "get", "alive", "drain",
                                "join", "post", "handler", "over"}]
      BY <3>1, <3>2
    <3>5. QED
      BY <1>0, <3>1, <3>3, <3>4
  <2>4. QED
    BY <1>0, <2>1, <2>2, <2>3 DEF Typed
<1>3. ASSUME NEW k \in Jobs
      PROVE  InStep(k)' /\ CountOK(k)'
  <2>1. InStep(k) /\ CountOK(k) /\ Seen(k)' = Seen(k)
    BY DEF Stages, Counts, Seen
  <2>2. CASE k # j
    <3>1. Still(k)
      BY <1>0, <1>1, <2>1, <2>2 DEF Typed, Still
    <3>2. QED
      BY <2>1, <3>1, StillOK
  <2>3. CASE k = j
    <3>1. /\ UNCHANGED <<posted[j], outcome[j], child[j], sent[j], buffer[j], pipe[j]>>
          /\ slot'[j] \in Jobs
          /\ \/ coroutine'[j] = "awaiting" /\ thread'[j] = "spawn"
             \/ coroutine'[j] = "queued" /\ thread'[j] = thread[j]
      BY <1>0, <1>1 DEF Typed
    <3>2. InStep(j)'
      BY <1>0, <2>1, <2>3, <3>1 DEF InStep
    <3>3. CountOK(j)'
      BY <2>1, <2>3, <3>1 DEF CountOK
    <3>4. QED
      BY <2>3, <3>2, <3>3
  <2>4. QED
    BY <2>2, <2>3
<1>5. ASSUME NEW s \in Jobs
      PROVE  SemOK(s)'
  <2>1. j \notin Holders(s) /\ \A i \in 1 .. Len(waiters[s]) : waiters[s][i] # j
    BY <1>0, <1>5 DEF Holders, Slots, SemOK
  <2>2. IsFiniteSet(Holders(s)) /\ Cardinality(Holders(s)) \in Nat
    BY FS_Subset, FS_CardinalityType DEF Holders
  <2>3. SemOK(s) /\ free[s] \in Nat /\ waiters[s] \in Seq(Jobs)
    BY <1>5 DEF Slots, Typed
  <2>4. \A k \in Jobs : k # j => coroutine'[k] = coroutine[k] /\ slot'[k] = slot[k]
    BY <1>0, <1>1 DEF Typed
  <2>5. CASE s # sem'
    <3>1. Holders(s)' = Holders(s) /\ free'[s] = free[s] /\ waiters'[s] = waiters[s]
      BY <1>0, <1>1, <2>1, <2>4, <2>5 DEF Holders, Typed
    <3>2. \A i \in 1 .. Len(waiters[s]) :
            waiters[s][i] \in Jobs /\ waiters[s][i] # j
      BY <2>1, <2>3
    <3>3. QED
      BY <2>3, <2>4, <3>1, <3>2 DEF SemOK
  <2>6. CASE s = sem' /\ free[s] > 0 /\ waiters[s] = <<>>
    <3>1. /\ free'[s] = free[s] - 1 /\ waiters'[s] = <<>>
          /\ coroutine'[j] = "awaiting" /\ slot'[j] = s
      BY <1>0, <1>1, <2>6 DEF Typed
    <3>2. Holders(s)' = Holders(s) \cup {j}
      BY <2>1, <2>4, <3>1 DEF Holders
    <3>3. Cardinality(Holders(s)') = Cardinality(Holders(s)) + 1
      BY <2>1, <2>2, <3>2, FS_AddElement
    <3>4. QED
      BY <2>2, <2>3, <2>6, <3>1, <3>3 DEF SemOK
  <2>7. CASE s = sem' /\ ~(free[s] > 0 /\ waiters[s] = <<>>)
    <3>1. /\ free'[s] = free[s] /\ waiters'[s] = Append(waiters[s], j)
          /\ coroutine'[j] = "queued" /\ slot'[j] = s
      BY <1>0, <1>1, <2>7 DEF Typed
    <3>2. Holders(s)' = Holders(s)
      BY <2>1, <2>4, <3>1 DEF Holders
    <3>3. free[s] = 0
      BY <2>3, <2>7 DEF SemOK
    <3>4. \A i \in 1 .. Len(waiters[s]) :
            waiters[s][i] \in Jobs /\ waiters[s][i] # j
      BY <2>1, <2>3
    <3>5. /\ Len(waiters'[s]) = Len(waiters[s]) + 1
          /\ \A i \in 1 .. Len(waiters[s]) : waiters'[s][i] = waiters[s][i]
          /\ waiters'[s][Len(waiters[s]) + 1] = j
      BY <2>3, <3>1
    <3>6. \A i \in 1 .. Len(waiters'[s]) :
            coroutine'[waiters'[s][i]] = "queued" /\ slot'[waiters'[s][i]] = s
      BY <2>3, <2>4, <3>1, <3>4, <3>5 DEF SemOK
    <3>7. \A i, k \in 1 .. Len(waiters'[s]) : waiters'[s][i] = waiters'[s][k] => i = k
      <4> DEFINE n == Len(waiters[s])
      <4>1. n \in Nat /\ \A i, k \in 1 .. n : waiters[s][i] = waiters[s][k] => i = k
        BY <2>3 DEF SemOK
      <4>2. \A i \in 1 .. n : waiters'[s][i] = waiters[s][i] /\ waiters'[s][i] # j
        BY <3>4, <3>5
      <4>3. Len(waiters'[s]) = n + 1 /\ waiters'[s][n + 1] = j
        BY <3>5
      <4>4. \A i \in 1 .. n + 1 : i \in 1 .. n \/ i = n + 1
        BY <4>1
      <4> HIDE DEF n
      <4>5. QED
        BY <4>1, <4>2, <4>3, <4>4
    <3>8. QED
      BY <2>3, <3>1, <3>2, <3>3, <3>6, <3>7 DEF SemOK
  <2>8. QED
    BY <2>5, <2>6, <2>7
<1>6. QED
  BY <1>2, <1>3, <1>5 DEF Slots, Stages, Counts

(* A call leaves the pool: its slot goes to the oldest waiter, or is free. *)
LEMMA ReturnStep ==
  ASSUME IInv, NEW j \in Jobs, Return(j),
         status' \in [Tasks -> {"none"} \cup Active \cup Terminal],
         answered' \in [Jobs \ Tasks -> {"none", "raised"} \cup Terminal],
         progress' = progress
  PROVE  IInv'
<1> USE PoolAssumption, ServiceAssumption DEF IInv
<1> DEFINE t == slot[j]
           h == Head(waiters[t])
<1>0. /\ coroutine[j] = "awaiting" /\ posted[j] = "resolved" /\ t \in Jobs
      /\ UNCHANGED <<sem, slot, thread, reads, outcome, posted, child, sent, buffer,
                     pipe, cancelled>>
  BY DEF Return, Stages, InStep, childVars, threadVars
<1>1. SemOK(t) /\ free[t] \in Nat /\ waiters[t] \in Seq(Jobs)
  BY <1>0 DEF Slots, Typed
<1>2. waiters[t] # <<>> => /\ h \in Jobs /\ h = waiters[t][1] /\ h # j
                           /\ coroutine[h] = "queued" /\ slot[h] = t
  BY <1>0, <1>1 DEF SemOK
<1>3. \/ /\ waiters[t] = <<>> /\ waiters' = waiters
         /\ free' = [free EXCEPT ![t] = @ + 1]
         /\ coroutine' = [coroutine EXCEPT ![j] = "ended"]
      \/ /\ waiters[t] # <<>> /\ waiters' = [waiters EXCEPT ![t] = Tail(@)]
         /\ free' = free
         /\ coroutine' = [coroutine EXCEPT ![j] = "ended", ![h] = "granted"]
  BY DEF Return
<1>4. Typed'
  <2>0. t \in Jobs /\ free \in [Jobs -> Nat] /\ waiters \in [Jobs -> Seq(Jobs)]
    BY <1>0 DEF Typed
  <2> HIDE DEF t
  <2>1. free' \in [Jobs -> Nat]
    <3>1. free[t] + 1 \in Nat
      BY <2>0
    <3>2. QED
      BY <1>3, <2>0, <3>1
  <2>2. waiters' \in [Jobs -> Seq(Jobs)]
    <3>1. CASE waiters' = waiters
      BY <2>0, <3>1
    <3>2. CASE waiters[t] # <<>> /\ waiters' = [waiters EXCEPT ![t] = Tail(@)]
      <4>1. Tail(waiters[t]) \in Seq(Jobs)
        BY <1>1, <3>2
      <4>2. QED
        BY <2>0, <3>2, <4>1
    <3>3. QED
      BY <1>3, <3>1, <3>2
  <2>3. coroutine' \in [Jobs -> {"new", "queued", "granted", "awaiting", "ended"}]
    BY <1>3 DEF Typed
  <2>4. QED
    BY <1>0, <2>1, <2>2, <2>3 DEF Typed
<1>5. ASSUME NEW k \in Jobs
      PROVE  InStep(k)' /\ CountOK(k)'
  <2>1. InStep(k) /\ CountOK(k) /\ Seen(k)' = Seen(k)
    BY DEF Stages, Counts, Seen
  <2>2. UNCHANGED <<slot[k], thread[k], posted[k], outcome[k], child[k], sent[k],
                    buffer[k], pipe[k]>>
    BY <1>0
  <2>3. \/ coroutine'[k] = coroutine[k]
        \/ k = j /\ coroutine'[k] = "ended"
        \/ coroutine[k] = "queued" /\ coroutine'[k] = "granted"
    BY <1>2, <1>3 DEF Typed
  <2>4. InStep(k)'
    BY <1>0, <2>1, <2>2, <2>3 DEF InStep
  <2>5. CountOK(k)'
    BY <2>1, <2>2 DEF CountOK
  <2>6. QED
    BY <2>4, <2>5
<1>7. ASSUME NEW s \in Jobs
      PROVE  SemOK(s)'
  <2>1. SemOK(s) /\ free[s] \in Nat /\ waiters[s] \in Seq(Jobs)
    BY <1>7 DEF Slots, Typed
  <2>2. IsFiniteSet(Holders(s)) /\ Cardinality(Holders(s)) \in Nat
    BY FS_Subset, FS_CardinalityType DEF Holders
  <2>3. CASE s # t
    <3>1. free'[s] = free[s] /\ waiters'[s] = waiters[s]
      BY <1>0, <1>3, <2>3 DEF Typed
    <3>2. \A k \in Jobs : slot[k] = s => coroutine'[k] = coroutine[k]
      BY <1>0, <1>2, <1>3, <2>3 DEF Typed
    <3>3. Holders(s)' = Holders(s)
      BY <1>0, <3>2 DEF Holders
    <3>4. \A i \in 1 .. Len(waiters[s]) : waiters[s][i] \in Jobs
      BY <2>1
    <3>5. QED
      BY <1>0, <2>1, <3>1, <3>2, <3>3, <3>4 DEF SemOK
  <2>4. CASE s = t /\ waiters[t] = <<>>
    <3>1. free'[s] = free[s] + 1 /\ waiters'[s] = <<>>
      BY <1>0, <1>3, <2>4 DEF Typed
    <3>2. Holders(s)' = Holders(s) \ {j} /\ j \in Holders(s)
      BY <1>0, <1>3, <2>4 DEF Holders, Typed
    <3>3. Cardinality(Holders(s)') = Cardinality(Holders(s)) - 1
      BY <2>2, <3>2, FS_RemoveElement
    <3>4. free'[s] + Cardinality(Holders(s)') = PoolSize
      <4>1. free[s] + Cardinality(Holders(s)) = PoolSize
        BY <2>1 DEF SemOK
      <4>2. QED
        BY <2>1, <2>2, <3>1, <3>3, <4>1
    <3>5. 1 .. Len(waiters'[s]) = {}
      BY <3>1
    <3>6. QED
      BY <3>1, <3>4, <3>5 DEF SemOK
  <2>5. CASE s = t /\ waiters[t] # <<>>
    <3>1. free'[s] = free[s] /\ waiters'[s] = Tail(waiters[s])
      BY <1>0, <1>3, <2>5 DEF Typed
    <3>2. /\ coroutine'[j] = "ended" /\ coroutine'[h] = "granted"
          /\ \A k \in Jobs \ {j, h} : coroutine'[k] = coroutine[k]
      BY <1>0, <1>2, <1>3, <2>5 DEF Typed
    <3>3. Holders(s)' = (Holders(s) \ {j}) \cup {h} /\ j \in Holders(s) /\ h \notin Holders(s)
      BY <1>0, <1>2, <2>5, <3>2 DEF Holders
    <3>4. Cardinality(Holders(s)') = Cardinality(Holders(s))
      <4>1. IsFiniteSet(Holders(s) \ {j})
            /\ Cardinality(Holders(s) \ {j}) = Cardinality(Holders(s)) - 1
        BY <2>2, <3>3, FS_RemoveElement
      <4>2. h \notin Holders(s) \ {j}
        BY <3>3
      <4>3. Cardinality((Holders(s) \ {j}) \cup {h}) = Cardinality(Holders(s) \ {j}) + 1
        BY <4>1, <4>2, FS_AddElement
      <4>4. QED
        BY <2>2, <3>3, <4>1, <4>3
    <3>5. /\ Len(waiters'[s]) = Len(waiters[s]) - 1
          /\ \A i \in 1 .. Len(waiters'[s]) : waiters'[s][i] = waiters[s][i + 1]
      BY <2>1, <2>5, <3>1
    <3>6. \A i \in 1 .. Len(waiters'[s]) :
            /\ waiters[s][i + 1] \in Jobs \ {j, h}
            /\ coroutine[waiters[s][i + 1]] = "queued" /\ slot[waiters[s][i + 1]] = s
      <4>1. SUFFICES ASSUME NEW i \in 1 .. Len(waiters'[s])
                     PROVE  /\ waiters[s][i + 1] \in Jobs \ {j, h}
                            /\ coroutine[waiters[s][i + 1]] = "queued"
                            /\ slot[waiters[s][i + 1]] = s
        OBVIOUS
      <4>2. i + 1 \in 1 .. Len(waiters[s]) /\ 1 \in 1 .. Len(waiters[s]) /\ i + 1 # 1
        BY <2>1, <3>5
      <4>3. waiters[s][i + 1] \in Jobs
        BY <2>1, <4>2
      <4>4. coroutine[waiters[s][i + 1]] = "queued" /\ slot[waiters[s][i + 1]] = s
        BY <2>1, <4>2 DEF SemOK
      <4>5. waiters[s][i + 1] # waiters[s][1]
        BY <2>1, <4>2 DEF SemOK
      <4>6. QED
        BY <1>0, <1>2, <2>5, <4>3, <4>4, <4>5
    <3>7. \A i \in 1 .. Len(waiters'[s]) :
            coroutine'[waiters'[s][i]] = "queued" /\ slot'[waiters'[s][i]] = s
      BY <1>0, <3>2, <3>5, <3>6
    <3>8. \A i, k \in 1 .. Len(waiters'[s]) : waiters'[s][i] = waiters'[s][k] => i = k
      <4>1. SUFFICES ASSUME NEW i \in 1 .. Len(waiters'[s]), NEW k \in 1 .. Len(waiters'[s]),
                            waiters'[s][i] = waiters'[s][k]
                     PROVE  i = k
        OBVIOUS
      <4>2. i + 1 \in 1 .. Len(waiters[s]) /\ k + 1 \in 1 .. Len(waiters[s])
        BY <2>1, <3>5
      <4>3. waiters[s][i + 1] = waiters[s][k + 1]
        BY <3>5, <4>1
      <4>4. i + 1 = k + 1
        BY <2>1, <4>2, <4>3 DEF SemOK
      <4>5. QED
        BY <4>4
    <3>9. QED
      BY <2>1, <2>5, <3>1, <3>4, <3>7, <3>8 DEF SemOK
  <2>6. QED
    BY <2>3, <2>4, <2>5
<1>8. QED
  BY <1>4, <1>5, <1>7 DEF Slots, Stages, Counts

(* Whatever leaves the calls where they are leaves the slots as they are. *)
LEMMA SlotsUnchanged ==
  ASSUME Slots, UNCHANGED <<free, waiters, slot>>,
         \A k \in Jobs : \/ coroutine'[k] = coroutine[k]
                         \/ coroutine[k] = "granted" /\ coroutine'[k] = "awaiting",
         Typed
  PROVE  Slots'
<1> SUFFICES ASSUME NEW s \in Jobs
             PROVE  SemOK(s)'
  BY DEF Slots
<1>1. SemOK(s) /\ waiters[s] \in Seq(Jobs)
  BY DEF Slots, Typed
<1>2. Holders(s)' = Holders(s)
  BY DEF Holders
<1>3. \A i \in 1 .. Len(waiters[s]) : waiters[s][i] \in Jobs
  BY <1>1
<1>4. QED
  BY <1>1, <1>2, <1>3 DEF SemOK

-----------------------------------------------------------------------------
(* The steps of a job's callback, its thread and its child. *)

JobVars(k) == <<coroutine[k], thread[k], posted[k], outcome[k], child[k], sent[k],
                buffer[k], pipe[k], Seen(k)>>

(* A step that moves one job and no slot keeps the invariant if it keeps   *)
(* the types and what is said of that job.                                 *)
LEMMA OneJob ==
  ASSUME IInv, NEW j \in Jobs, UNCHANGED <<free, waiters, slot>>,
         \/ coroutine'[j] = coroutine[j]
         \/ coroutine[j] = "granted" /\ coroutine'[j] = "awaiting",
         \A k \in Jobs \ {j} : UNCHANGED JobVars(k),
         Typed', InStep(j)', CountOK(j)'
  PROVE  IInv'
<1>1. ASSUME NEW k \in Jobs \ {j}
      PROVE  InStep(k)' /\ CountOK(k)' /\ coroutine'[k] = coroutine[k]
  <2>1. Still(k) /\ coroutine'[k] = coroutine[k]
    <3> HIDE DEF Seen
    <3>1. QED
      BY <1>1 DEF JobVars, Still
  <2>2. InStep(k) /\ CountOK(k)
    BY <1>1 DEF IInv, Stages, Counts
  <2>3. QED
    BY <2>1, <2>2, StillOK
<1>2. Stages' /\ Counts'
  BY <1>1 DEF Stages, Counts
<1>3. Slots'
  BY <1>1, SlotsUnchanged DEF IInv
<1>4. QED
  BY <1>2, <1>3 DEF IInv

(* Steps that change no message. *)
LEMMA PlainStep ==
  ASSUME IInv, NEW j \in Jobs, UNCHANGED taskVars,
         \/ Resume(j) \/ RunCallback(j) \/ Spawn(j) \/ SpawnFails(j) \/ GetEmpty(j)
         \/ CheckAlive(j) \/ DrainDone(j) \/ Post(j) \/ Unbind(j) \/ Exit(j)
  PROVE  IInv'
<1>0. /\ UNCHANGED <<sem, slot, free, waiters, sent, buffer, pipe, cancelled,
                      status, progress, answered>>
      /\ \A k \in Jobs : Seen(k)' = Seen(k)
  BY DEF Resume, RunCallback, Spawn, SpawnFails, GetEmpty, CheckAlive, DrainDone, Post,
         Unbind, Exit, GoTo, loopVars, threadVars, childVars, taskVars, Seen
<1>1. Typed /\ InStep(j) /\ CountOK(j)
  BY DEF IInv, Stages, Counts
<1>2. Typed'
  <2>1. CASE Resume(j) \/ RunCallback(j) \/ Spawn(j) \/ SpawnFails(j) \/ GetEmpty(j)
    BY <1>0, <1>1, <2>1
       DEF Typed, Resume, RunCallback, Spawn, SpawnFails, GetEmpty, At, GoTo, loopVars,
           threadVars, childVars, Raised
  <2>2. CASE CheckAlive(j) \/ DrainDone(j) \/ Post(j) \/ Unbind(j) \/ Exit(j)
    <3>1. CASE CheckAlive(j) \/ DrainDone(j)
      <4>1. UNCHANGED <<coroutine, outcome, posted, child>>
        BY <3>1 DEF CheckAlive, DrainDone, GoTo, loopVars, childVars
      <4>2. \E step \in {"token", "drain", "join"} : thread' = [thread EXCEPT ![j] = step]
        BY <3>1 DEF CheckAlive, DrainDone, GoTo
      <4>3. reads' = reads \/ reads' = [reads EXCEPT ![j] = 2]
        BY <3>1 DEF CheckAlive, DrainDone
      <4>4. thread' \in [Jobs -> {"none", "spawn", "token", "get", "alive", "drain",
                                 "join", "post", "handler", "over"}]
        BY <1>1, <4>2 DEF Typed
      <4>5. reads' \in [Jobs -> 0 .. 2]
        <5>1. reads \in [Jobs -> 0 .. 2]
          BY <1>1 DEF Typed
        <5>2. QED
          BY <4>3, <5>1
      <4>6. QED
        BY <1>0, <1>1, <4>1, <4>4, <4>5 DEF Typed
    <3>2. CASE Post(j) \/ Unbind(j)
      BY <1>0, <1>1, <3>2 DEF Typed, Post, Unbind, GoTo, loopVars, childVars
    <3>3. CASE Exit(j)
      BY <1>0, <1>1, <3>3 DEF Typed, Exit, loopVars, threadVars
    <3>4. QED
      BY <2>2, <3>1, <3>2, <3>3
  <2>3. QED
    BY <2>1, <2>2
<1>3. ASSUME NEW k \in Jobs \ {j}
      PROVE  UNCHANGED JobVars(k)
  <2>1. UNCHANGED <<coroutine[k], thread[k], posted[k], outcome[k], child[k]>>
    <3>1. CASE Resume(j) \/ RunCallback(j) \/ Spawn(j)
      BY <1>1, <1>3, <3>1
         DEF Typed, Resume, RunCallback, Spawn, GoTo, loopVars, childVars
    <3>2. CASE SpawnFails(j) \/ GetEmpty(j) \/ CheckAlive(j)
      BY <1>1, <1>3, <3>2
         DEF Typed, SpawnFails, GetEmpty, CheckAlive, GoTo, loopVars, childVars
    <3>3. CASE DrainDone(j) \/ Post(j) \/ Unbind(j)
      BY <1>1, <1>3, <3>3
         DEF Typed, DrainDone, Post, Unbind, GoTo, loopVars, childVars
    <3>4. CASE Exit(j)
      BY <1>1, <1>3, <3>4 DEF Typed, Exit, loopVars, threadVars
    <3>5. QED
      BY <3>1, <3>2, <3>3, <3>4
  <2> HIDE DEF Seen
  <2>2. QED
    BY <1>0, <1>3, <2>1 DEF JobVars
<1>4. InStep(j)' /\ CountOK(j)'
  <2>0. UNCHANGED <<slot[j], sent[j], buffer[j], pipe[j], Seen(j)>>
    BY <1>0
  <2> HIDE DEF Seen
  <2>1. CASE Resume(j)
    BY <1>1, <2>0, <2>1 DEF Typed, Resume, InStep, CountOK, childVars
  <2>2. CASE RunCallback(j)
    BY <1>1, <2>0, <2>2 DEF Typed, RunCallback, InStep, CountOK, loopVars, childVars
  <2>3. CASE Spawn(j)
    BY <1>1, <2>0, <2>3 DEF Typed, Spawn, InStep, CountOK, At, GoTo, loopVars, Alive
  <2>4. CASE SpawnFails(j)
    BY <1>1, <2>0, <2>4 DEF Typed, SpawnFails, InStep, CountOK, At, GoTo, loopVars,
       childVars, Alive
  <2>5. CASE GetEmpty(j)
    BY <1>1, <2>0, <2>5 DEF Typed, GetEmpty, InStep, CountOK, At, GoTo, loopVars, childVars
  <2>6. CASE CheckAlive(j)
    BY <1>1, <2>0, <2>6 DEF Typed, CheckAlive, InStep, CountOK, At, GoTo, loopVars,
       childVars
  <2>7. CASE DrainDone(j)
    BY <1>1, <2>0, <2>7 DEF Typed, DrainDone, InStep, CountOK, At, GoTo, loopVars, childVars
  <2>8. CASE Post(j)
    BY <1>1, <2>0, <2>8 DEF Typed, Post, InStep, CountOK, At, GoTo, loopVars, childVars
  <2>9. CASE Unbind(j)
    BY <1>1, <2>0, <2>9 DEF Typed, Unbind, InStep, CountOK, At, GoTo, loopVars, childVars
  <2>10. CASE Exit(j)
    BY <1>1, <2>0, <2>10 DEF Typed, Exit, InStep, CountOK, loopVars, threadVars, Alive
  <2>11. QED
    BY <2>1, <2>2, <2>3, <2>4, <2>5, <2>6, <2>7, <2>8, <2>9, <2>10
<1>5. coroutine'[j] = coroutine[j] \/ (coroutine[j] = "granted" /\ coroutine'[j] = "awaiting")
  BY <1>1 DEF Typed, Resume, RunCallback, Spawn, SpawnFails, GetEmpty, CheckAlive, DrainDone,
         Post, Unbind, Exit, loopVars
<1>6. QED
  BY <1>0, <1>2, <1>3, <1>4, <1>5, OneJob

(* The thread reads a message: the pipe loses its first one. *)
LEMMA Shorter ==
  ASSUME NEW m \in Seq(Messages), m # <<>>
  PROVE  /\ Tail(m) \in Seq(Messages) /\ Head(m) = m[1] /\ Head(m) \in Messages
         /\ Len(Tail(m)) = Len(m) - 1 /\ Len(m) >= 1
         /\ \A i \in 1 .. Len(Tail(m)) : Tail(m)[i] = m[i + 1] /\ i + 1 \in 1 .. Len(m)
OBVIOUS

LEMMA ReadStep ==
  ASSUME IInv, NEW j \in Jobs, Progress(j) \/ (UNCHANGED taskVars /\ (GetFinal(j) \/ Drain(j)))
  PROVE  IInv'
<1> USE ServiceAssumption
<1>0. /\ UNCHANGED <<sem, slot, free, waiters, coroutine, posted, child, sent, buffer,
                      cancelled, status, answered>>
      /\ pipe[j] # <<>> /\ pipe' = [pipe EXCEPT ![j] = Tail(@)]
      /\ thread[j] \in {"get", "drain"}
  BY DEF Progress, GetProgress, GetFinal, Drain, At, loopVars, taskVars
<1>1. Typed /\ InStep(j) /\ CountOK(j)
  BY DEF IInv, Stages, Counts
<1> DEFINE m == pipe[j]
<1>2. m \in Seq(Messages) /\ m # <<>> /\ pipe'[j] = Tail(m)
  BY <1>0, <1>1 DEF Typed
<1>3. /\ \/ /\ thread' = [thread EXCEPT ![j] = "token"] /\ outcome' = outcome
            /\ thread[j] = "get"
         \/ /\ thread' = [thread EXCEPT ![j] = "join"]
            /\ \E o \in {"result", "failed"} : outcome' = [outcome EXCEPT ![j] = o]
         \/ /\ thread' = thread /\ thread[j] = "drain"
            /\ \E o \in {"none", "result"} \cup Raised : outcome' = [outcome EXCEPT ![j] = o]
      /\ reads' \in [Jobs -> 0 .. 2]
  <2>1. CASE Progress(j)
    BY <1>1, <2>1 DEF Progress, GetProgress, At, GoTo, Typed, loopVars
  <2>2. CASE GetFinal(j)
    BY <1>1, <2>2 DEF GetFinal, GoTo, Typed, loopVars
  <2>3. CASE Drain(j)
    <3>1. thread' = thread /\ thread[j] = "drain"
      BY <2>3 DEF Drain, At
    <3>2. outcome[j] \in {"none", "result"} \cup Raised
      BY <1>1 DEF Typed
    <3>3. \E o \in {"none", "result"} \cup Raised : outcome' = [outcome EXCEPT ![j] = o]
      BY <2>3, <3>2 DEF Drain, Raised
    <3>4. reads' \in [Jobs -> 0 .. 2]
      BY <1>1, <2>3 DEF Drain, Typed
    <3>5. QED
      BY <3>1, <3>3, <3>4
  <2>4. QED
    BY <2>1, <2>2, <2>3
<1>4. \/ progress' = progress
      \/ /\ Head(m) = "progress" /\ j \in Tasks
         /\ progress' = [progress EXCEPT ![j] = @ + 1]
  BY DEF Progress, GetProgress, taskVars
<1>5. Typed'
  <2>1. pipe' \in [Jobs -> Seq(Messages)]
    <3>1. Tail(m) \in Seq(Messages)
      BY <1>2, Shorter
    <3>2. QED
      BY <1>0, <1>1, <3>1 DEF Typed
  <2>2. progress' \in [Tasks -> Nat]
    <3>1. progress \in [Tasks -> Nat]
      BY <1>1 DEF Typed
    <3>2. QED
      BY <1>4, <3>1
  <2>3. thread' \in [Jobs -> {"none", "spawn", "token", "get", "alive", "drain",
                             "join", "post", "handler", "over"}]
    <3>1. thread \in [Jobs -> {"none", "spawn", "token", "get", "alive", "drain",
                              "join", "post", "handler", "over"}]
      BY <1>1 DEF Typed
    <3>2. QED
      BY <1>3, <3>1
  <2>5. outcome' \in [Jobs -> {"none", "result"} \cup Raised]
    <3>1. outcome \in [Jobs -> {"none", "result"} \cup Raised]
      BY <1>1 DEF Typed
    <3>2. QED
      BY <1>3, <3>1 DEF Raised
  <2>4. QED
    BY <1>0, <1>1, <1>3, <2>1, <2>2, <2>3, <2>5 DEF Typed
<1>6. ASSUME NEW k \in Jobs \ {j}
      PROVE  UNCHANGED JobVars(k)
  <2>1. Seen(k)' = Seen(k)
    BY <1>1, <1>4, <1>6 DEF Seen, Typed
  <2> HIDE DEF Seen
  <2>2. thread'[k] = thread[k] /\ outcome'[k] = outcome[k] /\ pipe'[k] = pipe[k]
    BY <1>0, <1>1, <1>3, <1>6 DEF Typed
  <2>3. QED
    BY <1>0, <2>1, <2>2 DEF JobVars
<1>7. Seen(j) \in Nat /\ (\/ Seen(j)' = Seen(j)
                          \/ Head(m) = "progress" /\ Seen(j)' = Seen(j) + 1)
  BY <1>1, <1>4 DEF Seen, Typed
<1>8. CountOK(j)'
  <2> HIDE DEF Seen
  <2>1. /\ Len(pipe'[j]) = Len(m) - 1 /\ Len(m) \in Nat /\ Len(m) >= 1 /\ Head(m) = m[1]
        /\ \A i \in 1 .. Len(pipe'[j]) : pipe'[j][i] = m[i + 1] /\ i + 1 \in 1 .. Len(m)
    BY <1>2, Shorter
  <2>2. UNCHANGED <<sent[j], child[j], buffer[j]>>
    BY <1>0
  <2>3. /\ sent[j] \in Nat /\ sent[j] <= MaxProgress /\ Seen(j) <= sent[j]
        /\ (child[j] = "running" => Seen(j) + Len(m) + Len(buffer[j]) <= sent[j])
        /\ \A i \in 1 .. Len(m) : m[i] = "progress" => Seen(j) + i <= sent[j]
        /\ \A i \in 1 .. Len(buffer[j]) :
             buffer[j][i] = "progress" => Seen(j) + Len(m) + i <= sent[j]
        /\ Len(buffer[j]) \in Nat
    BY <1>1 DEF CountOK, Typed
  <2>4. Seen(j)' <= sent[j]
    <3>1. CASE Seen(j)' = Seen(j)
      BY <2>3, <3>1
    <3>2. CASE Head(m) = "progress" /\ Seen(j)' = Seen(j) + 1
      BY <2>1, <2>3, <3>2
    <3>3. QED
      BY <1>7, <3>1, <3>2
  <2>5. Seen(j)' + Len(pipe'[j]) <= Seen(j) + Len(m) /\ Seen(j)' \in Nat
    BY <1>7, <2>1
  <2>6. child[j] = "running" => Seen(j)' + Len(pipe'[j]) + Len(buffer[j]) <= sent[j]
    BY <1>7, <2>1, <2>3, <2>5
  <2>7. ASSUME NEW i \in 1 .. Len(pipe'[j]), pipe'[j][i] = "progress"
        PROVE  Seen(j)' + i <= sent[j]
    <3>1. Seen(j) + (i + 1) <= sent[j]
      BY <2>1, <2>3, <2>7
    <3>2. QED
      BY <1>7, <2>1, <2>3, <3>1
  <2>8. ASSUME NEW i \in 1 .. Len(buffer[j]), buffer[j][i] = "progress"
        PROVE  Seen(j)' + Len(pipe'[j]) + i <= sent[j]
    <3>1. Seen(j) + Len(m) + i <= sent[j]
      BY <2>3, <2>8
    <3>2. QED
      BY <1>7, <2>1, <2>3, <2>5, <3>1
  <2>9. QED
    BY <2>2, <2>3, <2>4, <2>6, <2>7, <2>8 DEF CountOK
<1>9. InStep(j)'
  <2>1. /\ UNCHANGED <<coroutine[j], slot[j], posted[j], child[j]>>
        /\ thread[j] \in {"get", "drain"} /\ thread'[j] \in {"token", "join", "drain"}
        /\ thread'[j] = "token" => thread[j] = "get" /\ outcome'[j] = outcome[j]
    <3>1. thread'[j] = "token" => thread[j] = "get" /\ outcome'[j] = outcome[j]
      BY <1>1, <1>3 DEF Typed
    <3>2. thread'[j] \in {"token", "join", "drain"}
      BY <1>1, <1>3 DEF Typed
    <3>3. QED
      BY <1>0, <3>1, <3>2
  <2>2. QED
    BY <1>1, <2>1 DEF InStep
<1>10. QED
  BY <1>0, <1>5, <1>6, <1>8, <1>9, OneJob

(* The child is gone, and what it had not flushed; a torn message may be   *)
(* left in the pipe.                                                       *)
LEMMA ChildDies ==
  ASSUME IInv, NEW j \in Jobs, child' = [child EXCEPT ![j] = "dead"],
         buffer' = [buffer EXCEPT ![j] = <<>>],
         pipe' = pipe \/ pipe' = [pipe EXCEPT ![j] = Append(@, "torn")],
         UNCHANGED <<sent, progress>>
  PROVE  /\ CountOK(j)'
         /\ child' \in [Jobs -> {"none", "running", "closing", "dead"}]
         /\ buffer' \in [Jobs -> Seq(Messages)] /\ pipe' \in [Jobs -> Seq(Messages)]
         /\ child'[j] = "dead" /\ sent'[j] = sent[j] /\ Seen(j)' = Seen(j)
         /\ \A k \in Jobs \ {j} : UNCHANGED <<child[k], sent[k], buffer[k], pipe[k], Seen(k)>>
<1>1. Typed /\ CountOK(j)
  BY DEF IInv, Counts
<1>2. \A k \in Jobs : Seen(k)' = Seen(k)
  BY DEF Seen
<1> HIDE DEF Seen
<1>3. /\ child' \in [Jobs -> {"none", "running", "closing", "dead"}]
      /\ buffer' \in [Jobs -> Seq(Messages)] /\ child'[j] = "dead" /\ buffer'[j] = <<>>
  BY <1>1 DEF Typed
<1>4. pipe \in [Jobs -> Seq(Messages)] /\ pipe[j] \in Seq(Messages)
  BY <1>1 DEF Typed
<1>5. pipe' \in [Jobs -> Seq(Messages)]
  <2>1. Append(pipe[j], "torn") \in Seq(Messages)
    BY <1>4 DEF Messages
  <2>2. QED
    BY <1>4, <2>1
<1>6. \A k \in Jobs \ {j} : UNCHANGED <<child[k], sent[k], buffer[k], pipe[k]>>
  BY <1>1, <1>4 DEF Typed
<1>7. ASSUME NEW i \in 1 .. Len(pipe'[j]), pipe'[j][i] = "progress"
      PROVE  Seen(j) + i <= sent[j]
  <2>1. CASE pipe' = pipe
    BY <1>1, <1>7, <2>1 DEF CountOK
  <2>2. CASE pipe' = [pipe EXCEPT ![j] = Append(@, "torn")]
    <3>1. pipe'[j] = Append(pipe[j], "torn")
      BY <1>4, <2>2
    <3>2. i \in 1 .. Len(pipe[j]) /\ pipe[j][i] = "progress"
      BY <1>4, <1>7, <3>1
    <3>3. QED
      BY <1>1, <3>2 DEF CountOK
  <2>3. QED
    BY <2>1, <2>2
<1>8. CountOK(j)'
  BY <1>1, <1>2, <1>3, <1>7 DEF CountOK
<1>9. QED
  BY <1>2, <1>3, <1>5, <1>6, <1>8

LEMMA DeathStep ==
  ASSUME IInv, NEW j \in Jobs, UNCHANGED taskVars,
         CheckToken(j) \/ Join(j) \/ Crash(j)
  PROVE  IInv'
<1>0. /\ UNCHANGED <<sem, slot, free, waiters, coroutine, posted, sent, reads, cancelled,
                      status, progress, answered>>
  BY DEF CheckToken, Join, Crash, Terminate, loopVars, threadVars, childVars, taskVars
<1>1. Typed /\ InStep(j) /\ CountOK(j)
  BY DEF IInv, Stages, Counts
<1>2. CASE /\ child' = [child EXCEPT ![j] = "dead"]
           /\ buffer' = [buffer EXCEPT ![j] = <<>>]
           /\ pipe' = pipe \/ pipe' = [pipe EXCEPT ![j] = Append(@, "torn")]
           /\ \/ UNCHANGED <<thread, outcome>> /\ thread[j] \notin {"none", "spawn"}
              \/ /\ thread[j] \in {"token", "join"}
                 /\ thread' = [thread EXCEPT ![j] = "post"]
                 /\ \E o \in {"result"} \cup Raised : outcome' = [outcome EXCEPT ![j] = o]
  <2> HIDE DEF Seen
  <2>1. /\ CountOK(j)'
        /\ child' \in [Jobs -> {"none", "running", "closing", "dead"}]
        /\ buffer' \in [Jobs -> Seq(Messages)] /\ pipe' \in [Jobs -> Seq(Messages)]
        /\ child'[j] = "dead" /\ sent'[j] = sent[j] /\ Seen(j)' = Seen(j)
        /\ \A k \in Jobs \ {j} : UNCHANGED <<child[k], sent[k], buffer[k], pipe[k], Seen(k)>>
    BY <1>0, <1>2, ChildDies
  <2>2. thread' \in [Jobs -> {"none", "spawn", "token", "get", "alive", "drain",
                             "join", "post", "handler", "over"}]
        /\ outcome' \in [Jobs -> {"none", "result"} \cup Raised]
    <3>1. thread \in [Jobs -> {"none", "spawn", "token", "get", "alive", "drain",
                              "join", "post", "handler", "over"}]
          /\ outcome \in [Jobs -> {"none", "result"} \cup Raised]
      BY <1>1 DEF Typed
    <3>2. QED
      BY <1>2, <3>1
  <2>3. Typed'
    BY <1>0, <1>1, <2>1, <2>2 DEF Typed
  <2>4. ASSUME NEW k \in Jobs \ {j}
        PROVE  UNCHANGED JobVars(k)
    <3>1. thread'[k] = thread[k] /\ outcome'[k] = outcome[k]
      BY <1>1, <1>2, <2>4 DEF Typed
    <3>2. QED
      BY <1>0, <2>1, <2>4, <3>1 DEF JobVars
  <2>5. InStep(j)'
    <3>1. \/ thread'[j] = thread[j] /\ outcome'[j] = outcome[j]
             /\ thread[j] \notin {"none", "spawn"}
          \/ thread[j] \in {"token", "join"} /\ thread'[j] = "post" /\ outcome'[j] # "none"
      BY <1>1, <1>2 DEF Typed, Raised
    <3>2. QED
      BY <1>0, <1>1, <2>1, <3>1 DEF InStep, Alive
  <2>6. QED
    BY <1>0, <2>1, <2>3, <2>4, <2>5, OneJob
<1>3. CASE /\ thread[j] = "token" /\ thread' = [thread EXCEPT ![j] = "get"]
           /\ UNCHANGED <<child, buffer, pipe, outcome>>
  <2>1. \A k \in Jobs : Seen(k)' = Seen(k)
    BY <1>0 DEF Seen
  <2> HIDE DEF Seen
  <2>2. Typed' /\ thread'[j] = "get" /\ \A k \in Jobs \ {j} : thread'[k] = thread[k]
    BY <1>0, <1>1, <1>3 DEF Typed
  <2>3. InStep(j)' /\ CountOK(j)'
    BY <1>0, <1>1, <1>3, <2>1, <2>2 DEF InStep, CountOK
  <2>4. ASSUME NEW k \in Jobs \ {j}
        PROVE  UNCHANGED JobVars(k)
    BY <1>0, <1>3, <2>1, <2>2, <2>4 DEF JobVars
  <2>5. QED
    BY <1>0, <2>2, <2>3, <2>4, OneJob
<1>4. CASE CheckToken(j)
  <2>1. CASE j \in cancelled
    BY <1>2, <1>4, <2>1 DEF CheckToken, Terminate, At, GoTo, Raised
  <2>2. CASE j \notin cancelled
    BY <1>3, <1>4, <2>2 DEF CheckToken, At, GoTo, childVars
  <2>3. QED
    BY <2>1, <2>2
<1>5. CASE Join(j)
  <2>1. outcome[j] \in {"none", "result"} \cup Raised
    BY <1>1 DEF Typed
  <2>2. \E o \in {"result"} \cup Raised : outcome' = [outcome EXCEPT ![j] = o]
    <3>1. CASE outcome[j] = "none"
      BY <1>5, <3>1 DEF Join, Raised
    <3>2. CASE outcome[j] # "none"
      BY <1>5, <2>1, <3>2 DEF Join
    <3>3. QED
      BY <3>1, <3>2
  <2>3. QED
    BY <1>2, <1>5, <2>2 DEF Join, Terminate, At, GoTo
<1>6. CASE Crash(j)
  <2>1. thread[j] \notin {"none", "spawn"}
    BY <1>1, <1>6 DEF Crash, InStep, Alive
  <2>2. QED
    BY <1>2, <1>6, <2>1 DEF Crash, threadVars
<1>7. QED
  BY <1>4, <1>5, <1>6

(* The child puts a message into its buffer, or its feeder thread moves    *)
(* one into the pipe.                                                      *)
LEMMA PutStep ==
  ASSUME IInv, NEW j \in Jobs, UNCHANGED taskVars, Report(j) \/ PutFinal(j)
  PROVE  IInv'
<1> USE PoolAssumption
<1>0. /\ UNCHANGED <<sem, slot, free, waiters, coroutine, thread, reads, outcome, posted,
                      pipe, cancelled, status, progress, answered>>
      /\ \A k \in Jobs : Seen(k)' = Seen(k)
      /\ child[j] = "running"
  BY DEF Report, PutProgress, PutFinal, Put, loopVars, threadVars, taskVars, Seen
<1>1. Typed /\ InStep(j) /\ CountOK(j)
  BY DEF IInv, Stages, Counts
<1>2. Seen(j) \in Nat
  BY <1>1 DEF Typed, Seen
<1> HIDE DEF Seen
<1>3. \E m \in Messages :
        /\ buffer' = [buffer EXCEPT ![j] = Append(@, m)]
        /\ \/ /\ m = "progress" /\ sent[j] < MaxProgress
              /\ sent' = [sent EXCEPT ![j] = @ + 1] /\ child' = child
           \/ /\ m # "progress"
              /\ sent' = sent /\ child' = [child EXCEPT ![j] = "closing"]
  BY DEF Report, PutProgress, PutFinal, Put, Messages, Final
<1>4. PICK m \in Messages :
        /\ buffer' = [buffer EXCEPT ![j] = Append(@, m)]
        /\ \/ /\ m = "progress" /\ sent[j] < MaxProgress
              /\ sent' = [sent EXCEPT ![j] = @ + 1] /\ child' = child
           \/ /\ m # "progress"
              /\ sent' = sent /\ child' = [child EXCEPT ![j] = "closing"]
  BY <1>3
<1>5. /\ buffer \in [Jobs -> Seq(Messages)] /\ sent \in [Jobs -> Nat]
      /\ child \in [Jobs -> {"none", "running", "closing", "dead"}]
      /\ buffer[j] \in Seq(Messages) /\ pipe[j] \in Seq(Messages)
  BY <1>1 DEF Typed
<1>6. /\ buffer'[j] = Append(buffer[j], m) /\ buffer' \in [Jobs -> Seq(Messages)]
      /\ \A k \in Jobs \ {j} : UNCHANGED <<buffer[k], sent[k], child[k]>>
  <2>1. Append(buffer[j], m) \in Seq(Messages)
    BY <1>5
  <2>2. QED
    BY <1>4, <1>5, <2>1
<1>7. /\ sent' \in [Jobs -> Nat] /\ child' \in [Jobs -> {"none", "running", "closing", "dead"}]
      /\ \/ /\ m = "progress" /\ sent[j] < MaxProgress
            /\ sent'[j] = sent[j] + 1 /\ child'[j] = "running"
         \/ m # "progress" /\ sent'[j] = sent[j] /\ child'[j] = "closing"
  <2>1. CASE m = "progress"
    <3>1. /\ sent[j] < MaxProgress /\ child' = child
          /\ sent' = [sent EXCEPT ![j] = @ + 1]
      BY <1>4, <2>1
    <3>2. sent[j] + 1 \in Nat
      BY <1>5
    <3>3. sent' \in [Jobs -> Nat] /\ sent'[j] = sent[j] + 1
      BY <1>5, <3>1, <3>2
    <3>4. QED
      BY <1>0, <1>5, <2>1, <3>1, <3>3
  <2>2. CASE m # "progress"
    <3>1. sent' = sent /\ child' = [child EXCEPT ![j] = "closing"]
      BY <1>4, <2>2
    <3>2. child' \in [Jobs -> {"none", "running", "closing", "dead"}]
          /\ child'[j] = "closing"
      BY <1>5, <3>1
    <3>3. QED
      BY <1>5, <2>2, <3>1, <3>2
  <2>3. QED
    BY <2>1, <2>2
<1>8. Typed'
  BY <1>0, <1>1, <1>6, <1>7 DEF Typed
<1>9. ASSUME NEW k \in Jobs \ {j}
      PROVE  UNCHANGED JobVars(k)
  BY <1>0, <1>6, <1>9 DEF JobVars
<1>10. InStep(j)'
  BY <1>0, <1>1, <1>7 DEF InStep, Alive
<1>11. CountOK(j)'
  <2> DEFINE n == Len(buffer[j])
             p == Len(pipe[j])
  <2>1. /\ Len(buffer'[j]) = n + 1 /\ n \in Nat /\ p \in Nat /\ sent[j] \in Nat
        /\ \A i \in 1 .. n : buffer'[j][i] = buffer[j][i]
        /\ buffer'[j][n + 1] = m
    BY <1>5, <1>6
  <2>2. sent[j] <= sent'[j] /\ sent'[j] <= MaxProgress /\ sent'[j] \in Nat
    BY <1>1, <1>7, <2>1 DEF CountOK
  <2>3. Seen(j) + p + n <= sent[j] /\ Seen(j) <= sent[j]
    BY <1>0, <1>1 DEF CountOK
  <2>4. child'[j] = "running" => Seen(j) + p + (n + 1) <= sent'[j]
    BY <1>2, <1>7, <2>1, <2>3
  <2>5. \A i \in 1 .. p : pipe[j][i] = "progress" => Seen(j) + i <= sent'[j]
    <3>1. ASSUME NEW i \in 1 .. p
          PROVE  Seen(j) + i <= sent'[j]
      <4>1. /\ n \in Nat /\ p \in Nat /\ sent[j] \in Nat /\ sent'[j] \in Nat
            /\ sent[j] <= sent'[j] /\ i \in Nat /\ i <= p
            /\ Seen(j) + p + n <= sent[j]
        BY <2>1, <2>2, <2>3, <3>1
      <4> HIDE DEF n, p
      <4>2. QED
        BY <1>2, <4>1
    <3>2. QED
      BY <3>1
  <2>6. ASSUME NEW i \in 1 .. n + 1, buffer'[j][i] = "progress"
        PROVE  Seen(j) + p + i <= sent'[j]
    <3>1. CASE i = n + 1
      <4>1. m = "progress"
        BY <2>1, <2>6, <3>1
      <4>2. sent'[j] = sent[j] + 1 /\ child[j] = "running"
        BY <1>0, <1>7, <4>1
      <4>3. Seen(j) + p + n <= sent[j]
        BY <2>3
      <4>4. n \in Nat /\ p \in Nat /\ sent[j] \in Nat
        BY <2>1
      <4> HIDE DEF n, p
      <4>5. QED
        BY <1>2, <3>1, <4>2, <4>3, <4>4
    <3>2. CASE i # n + 1
      <4>1. i \in 1 .. n
        BY <2>1, <3>2
      <4>2. Seen(j) + p + n <= sent[j]
        BY <2>3
      <4>3. n \in Nat /\ p \in Nat /\ sent[j] \in Nat /\ sent'[j] \in Nat
            /\ sent[j] <= sent'[j] /\ i \in Nat /\ i <= n
        BY <2>1, <2>2, <4>1
      <4> HIDE DEF n, p
      <4>4. QED
        BY <1>2, <4>2, <4>3
    <3>3. QED
      BY <3>1, <3>2
  <2>7. UNCHANGED pipe[j] /\ Seen(j)' = Seen(j) /\ Seen(j) <= sent'[j]
    BY <1>0, <1>2, <2>1, <2>2, <2>3
  <2>8. QED
    BY <2>1, <2>2, <2>4, <2>5, <2>6, <2>7 DEF CountOK
<1>12. QED
  BY <1>0, <1>8, <1>9, <1>10, <1>11, OneJob

LEMMA FeedStep ==
  ASSUME IInv, NEW j \in Jobs, UNCHANGED taskVars, Feed(j)
  PROVE  IInv'
<1>0. /\ UNCHANGED <<sem, slot, free, waiters, coroutine, thread, reads, outcome, posted,
                      child, sent, cancelled, status, progress, answered>>
      /\ \A k \in Jobs : Seen(k)' = Seen(k)
      /\ buffer[j] # <<>>
  BY DEF Feed, loopVars, threadVars, taskVars, Seen
<1>1. Typed /\ InStep(j) /\ CountOK(j)
  BY DEF IInv, Stages, Counts
<1>2. Seen(j) \in Nat /\ sent[j] \in Nat
  BY <1>1 DEF Typed, Seen
<1> HIDE DEF Seen
<1>3. /\ buffer \in [Jobs -> Seq(Messages)] /\ pipe \in [Jobs -> Seq(Messages)]
      /\ buffer[j] \in Seq(Messages) /\ pipe[j] \in Seq(Messages)
  BY <1>1 DEF Typed
<1>4. /\ Tail(buffer[j]) \in Seq(Messages) /\ Head(buffer[j]) = buffer[j][1]
      /\ Head(buffer[j]) \in Messages
      /\ Len(Tail(buffer[j])) = Len(buffer[j]) - 1 /\ Len(buffer[j]) >= 1
      /\ \A i \in 1 .. Len(Tail(buffer[j])) :
           Tail(buffer[j])[i] = buffer[j][i + 1] /\ i + 1 \in 1 .. Len(buffer[j])
  BY <1>0, <1>3, Shorter
<1>5. Append(pipe[j], Head(buffer[j])) \in Seq(Messages)
  BY <1>3, <1>4
<1>6. /\ buffer'[j] = Tail(buffer[j]) /\ pipe'[j] = Append(pipe[j], Head(buffer[j]))
      /\ buffer' \in [Jobs -> Seq(Messages)] /\ pipe' \in [Jobs -> Seq(Messages)]
      /\ \A k \in Jobs \ {j} : UNCHANGED <<buffer[k], pipe[k]>>
  BY <1>3, <1>4, <1>5 DEF Feed
<1>7. Typed'
  BY <1>0, <1>1, <1>6 DEF Typed
<1>8. ASSUME NEW k \in Jobs \ {j}
      PROVE  UNCHANGED JobVars(k)
  BY <1>0, <1>6, <1>8 DEF JobVars
<1>9. InStep(j)'
  <2>1. thread[j] \notin {"none", "spawn"}
    BY <1>0, <1>1 DEF InStep
  <2>2. QED
    BY <1>0, <1>1, <2>1 DEF InStep
<1>10. CountOK(j)'
  <2> DEFINE n == Len(buffer[j])
             p == Len(pipe[j])
  <2>1. /\ n \in Nat /\ p \in Nat /\ n >= 1 /\ Len(buffer'[j]) = n - 1 /\ Len(pipe'[j]) = p + 1
        /\ \A i \in 1 .. p : pipe'[j][i] = pipe[j][i]
        /\ pipe'[j][p + 1] = buffer[j][1]
        /\ \A i \in 1 .. n - 1 : buffer'[j][i] = buffer[j][i + 1] /\ i + 1 \in 1 .. n
    BY <1>3, <1>4, <1>6
  <2>2. /\ sent[j] <= MaxProgress /\ Seen(j) <= sent[j]
        /\ (child[j] = "running" => Seen(j) + p + n <= sent[j])
        /\ \A i \in 1 .. p : pipe[j][i] = "progress" => Seen(j) + i <= sent[j]
        /\ \A i \in 1 .. n : buffer[j][i] = "progress" => Seen(j) + p + i <= sent[j]
    BY <1>1 DEF CountOK
  <2>3. child[j] = "running" => Seen(j) + (p + 1) + (n - 1) <= sent[j]
    BY <1>2, <2>1, <2>2
  <2>4. ASSUME NEW i \in 1 .. p + 1, pipe'[j][i] = "progress"
        PROVE  Seen(j) + i <= sent[j]
    <3>1. CASE i = p + 1
      <4>1. buffer[j][1] = "progress" /\ 1 \in 1 .. n
        BY <2>1, <2>4, <3>1
      <4>2. Seen(j) + p + 1 <= sent[j]
        BY <2>2, <4>1
      <4>3. QED
        BY <1>2, <2>1, <3>1, <4>2
    <3>2. CASE i # p + 1
      <4>1. i \in 1 .. p /\ pipe[j][i] = "progress"
        BY <2>1, <2>4, <3>2
      <4>2. QED
        BY <2>2, <4>1
    <3>3. QED
      BY <3>1, <3>2
  <2>5. ASSUME NEW i \in 1 .. n - 1, buffer'[j][i] = "progress"
        PROVE  Seen(j) + (p + 1) + i <= sent[j]
    <3>1. Seen(j) + p + (i + 1) <= sent[j]
      BY <2>1, <2>2, <2>5
    <3>2. QED
      BY <1>2, <2>1, <3>1
  <2>6. UNCHANGED <<sent[j], child[j]>> /\ Seen(j)' = Seen(j)
    BY <1>0
  <2>7. QED
    BY <2>1, <2>2, <2>3, <2>4, <2>5, <2>6 DEF CountOK
<1>11. QED
  BY <1>0, <1>7, <1>8, <1>9, <1>10, OneJob

-----------------------------------------------------------------------------
(* Every step, and the theorems. *)

(* A step that touches neither a job nor a slot. *)
LEMMA TaskStep ==
  ASSUME IInv, UNCHANGED <<loopVars, threadVars, childVars, progress, answered>>,
         cancelled' \subseteq Jobs,
         status' \in [Tasks -> {"none"} \cup Active \cup Terminal]
  PROVE  IInv'
<1>1. Typed'
  BY DEF IInv, Typed, loopVars, threadVars, childVars
<1>2. ASSUME NEW k \in Jobs
      PROVE  InStep(k)' /\ CountOK(k)'
  <2>1. Still(k)
    BY <1>2 DEF Still, Seen, loopVars, threadVars, childVars
  <2>2. QED
    BY <1>2, <2>1, StillOK DEF IInv, Stages, Counts
<1>3. Slots'
  BY SlotsUnchanged DEF IInv, loopVars
<1>4. QED
  BY <1>1, <1>2, <1>3 DEF IInv, Stages, Counts

LEMMA NextIInv == IInv /\ [Next]_vars => IInv'
<1> SUFFICES ASSUME IInv, [Next]_vars
             PROVE  IInv'
  OBVIOUS
<1>0. /\ Tasks \subseteq Jobs
      /\ status \in [Tasks -> {"none"} \cup Active \cup Terminal]
      /\ answered \in [Jobs \ Tasks -> {"none", "raised"} \cup Terminal]
      /\ cancelled \subseteq Jobs
      /\ \A j \in Jobs : InStep(j) /\ outcome[j] \in {"none", "result"} \cup Raised
  BY ServiceAssumption DEF IInv, Typed, Stages
<1>1. ASSUME NEW t \in Tasks, Create(t)
      PROVE  IInv'
  BY <1>0, <1>1, TaskStep DEF Create, poolVars, Active
<1>2. ASSUME NEW t \in Tasks, Begin(t)
      PROVE  IInv'
  BY <1>0, <1>2, AcquireStep DEF Begin, Active
<1>3. ASSUME NEW t \in Tasks, Cancel(t)
      PROVE  IInv'
  BY <1>0, <1>3, TaskStep DEF Cancel, SetToken, Terminal
<1>4. ASSUME NEW j \in Jobs, Return(j)
      PROVE  Mark[outcome[j]] \in Terminal
  <2>1. outcome[j] \in {"result"} \cup Raised
    BY <1>0, <1>4 DEF Return, InStep
  <2>2. QED
    BY <2>1 DEF Mark, Terminal, Raised
<1>5. ASSUME NEW t \in Tasks, Finish(t)
      PROVE  IInv'
  BY <1>0, <1>4, <1>5, ReturnStep DEF Finish
<1>6. ASSUME NEW j \in Jobs \ Tasks, BeginSync(j)
      PROVE  IInv'
  BY <1>0, <1>6, AcquireStep DEF BeginSync, taskVars
<1>7. ASSUME NEW j \in Jobs \ Tasks, Answer(j)
      PROVE  IInv'
  BY <1>0, <1>4, <1>7, ReturnStep DEF Answer
<1>8. ASSUME NEW j \in Jobs, Progress(j)
      PROVE  IInv'
  BY <1>8, ReadStep
<1>9. ASSUME NEW j \in Jobs, Report(j)
      PROVE  IInv'
  BY <1>9, PutStep DEF Report
<1>10. ASSUME NEW j \in Jobs, PoolStep(j)
       PROVE  IInv'
  BY <1>10, PlainStep, ReadStep, DeathStep, PutStep, FeedStep
     DEF PoolStep, LoopStep, ThreadStep, ChildStep
<1>11. CASE UNCHANGED vars
  BY <1>0, <1>11, TaskStep DEF vars, poolVars, taskVars
<1>12. QED
  BY <1>1, <1>2, <1>3, <1>5, <1>6, <1>7, <1>8, <1>9, <1>10, <1>11 DEF Next

THEOREM Invariance == Spec => []IInv
BY InitIInv, NextIInv, PTL DEF Spec

(* The slots of every semaphore are accounted for, whatever is queued,     *)
(* cancelled, lost or crashed, on any number of event loops.               *)
THEOREM SlotsAreKept == Spec => []SlotsAccounted
<1>1. IInv => SlotsAccounted
  BY DEF IInv, Slots, SemOK, SlotsAccounted
<1>2. QED
  BY <1>1, Invariance, PTL

(* A call of run that is over has left no worker process behind.           *)
THEOREM NoOrphansLeft == Spec => []NoOrphans
<1>1. IInv => NoOrphans
  BY DEF IInv, Stages, InStep, NoOrphans
<1>2. QED
  BY <1>1, Invariance, PTL

(* The types of the service, its pool and its tasks: no semaphore counts   *)
(* above the pool size, no task is told of more progress than was sent.    *)
THEOREM ServiceTypes == Spec => []TypeOK
<1>1. ASSUME IInv
      PROVE  TypeOK
  <2>1. ASSUME NEW s \in Jobs
        PROVE  free[s] \in 0 .. PoolSize
    <3>1. IsFiniteSet(Holders(s)) /\ Cardinality(Holders(s)) \in Nat
      BY PoolAssumption, FS_Subset, FS_CardinalityType DEF Holders
    <3>2. QED
      BY <1>1, <2>1, <3>1, PoolAssumption DEF IInv, Typed, Slots, SemOK
  <2>2. ASSUME NEW j \in Jobs
        PROVE  sent[j] \in 0 .. MaxProgress /\ Seen(j) <= MaxProgress
    BY <1>1, <2>2, PoolAssumption DEF IInv, Typed, Counts, CountOK, Seen
  <2>3. ASSUME NEW t \in Tasks
        PROVE  progress[t] \in 0 .. MaxProgress
    BY <1>1, <2>2, <2>3, PoolAssumption, ServiceAssumption DEF IInv, Typed, Seen
  <2>4. free \in [Jobs -> 0 .. PoolSize] /\ sent \in [Jobs -> 0 .. MaxProgress]
        /\ progress \in [Tasks -> 0 .. MaxProgress]
    BY <1>1, <2>1, <2>2, <2>3 DEF IInv, Typed
  <2>5. QED
    BY <1>1, <2>4 DEF IInv, Typed, TypeOK, PoolTypeOK
<1>2. QED
  BY <1>1, Invariance, PTL

-----------------------------------------------------------------------------
(* One event loop. *)

OneLoop == \A i, j \in Jobs : LoopOf(i) = LoopOf(j)

(* Every call that asked for a slot asked the current semaphore. *)
OneSem == \A j \in Jobs : slot[j] # NoSem => slot[j] = sem

LEMMA OneSemInit == Init => OneSem
BY DEF Init, PoolInit, OneSem

LEMMA OneSemStep == OneLoop /\ IInv /\ OneSem /\ [Next]_vars => OneSem'
<1> SUFFICES ASSUME OneLoop, IInv, OneSem, [Next]_vars
             PROVE  OneSem'
  OBVIOUS
<1>1. ASSUME NEW j \in Jobs, Acquire(j)
      PROVE  OneSem'
  <2>1. Typed
    BY DEF IInv
  <2>2. sem' = sem \/ (sem = NoSem /\ sem' = j)
    BY <1>1, <2>1 DEF Acquire, Semaphore, OneLoop, Typed
  <2>3. slot' = [slot EXCEPT ![j] = sem']
    BY <1>1 DEF Acquire
  <2>4. QED
    BY <2>1, <2>2, <2>3 DEF OneSem, Typed
<1>2. CASE UNCHANGED <<sem, slot>>
  BY <1>2 DEF OneSem
<1>3. ASSUME NEW t \in Tasks, Create(t) \/ Begin(t) \/ Cancel(t) \/ Finish(t)
      PROVE  OneSem'
  BY <1>1, <1>2, <1>3, ServiceAssumption
     DEF Create, Begin, Cancel, Finish, SetToken, Return, poolVars, loopVars
<1>4. ASSUME NEW j \in Jobs \ Tasks, BeginSync(j) \/ Answer(j)
      PROVE  OneSem'
  BY <1>1, <1>2, <1>4 DEF BeginSync, Answer, Return
<1>5. ASSUME NEW j \in Jobs, Progress(j) \/ Report(j)
      PROVE  OneSem'
  BY <1>2, <1>5 DEF Progress, GetProgress, Report, PutProgress, Put, loopVars
<1>6. ASSUME NEW j \in Jobs, PoolStep(j)
      PROVE  OneSem'
  <2>1. CASE LoopStep(j) \/ ChildStep(j)
    BY <1>2, <2>1 DEF LoopStep, ChildStep, Resume, RunCallback, PutFinal, Put, Feed, Exit,
       Crash, loopVars
  <2>2. CASE ThreadStep(j)
    BY <1>2, <2>2 DEF ThreadStep, Spawn, SpawnFails, CheckToken, GetFinal, GetEmpty,
       CheckAlive, Drain, DrainDone, Join, Post, Unbind, loopVars
  <2>3. QED
    BY <1>6, <2>1, <2>2 DEF PoolStep
<1>7. CASE UNCHANGED vars
  BY <1>2, <1>7 DEF vars, poolVars, loopVars
<1>8. QED
  BY <1>3, <1>4, <1>5, <1>6, <1>7 DEF Next

(* When all calls come from one event loop there are never more worker     *)
(* processes than slots; with several loops there are (run service_search). *)
THEOREM ChildrenAreBounded ==
  ASSUME OneLoop
  PROVE  Spec => []ChildrenBounded
<1>1. Init => IInv /\ OneSem
  BY InitIInv, OneSemInit
<1>2. (IInv /\ OneSem) /\ [Next]_vars => (IInv /\ OneSem)'
  BY NextIInv, OneSemStep
<1>3. IInv /\ OneSem => ChildrenBounded
  <2> SUFFICES ASSUME IInv, OneSem
               PROVE  ChildrenBounded
    OBVIOUS
  <2> DEFINE alive == {j \in Jobs : child[j] \in Alive}
  <2>1. ASSUME NEW j \in alive
        PROVE  coroutine[j] = "awaiting" /\ slot[j] = sem /\ sem \in Jobs
    <3>1. coroutine[j] \notin {"new", "queued", "granted", "ended"}
      BY <2>1 DEF IInv, Stages, InStep, Alive
    <3>2. /\ j \in Jobs
          /\ coroutine[j] \in {"new", "queued", "granted", "awaiting", "ended"}
      BY <2>1 DEF IInv, Typed
    <3>3. coroutine[j] = "awaiting"
      BY <3>1, <3>2
    <3>4. slot[j] \in Jobs
      BY <3>2, <3>3 DEF IInv, Stages, InStep
    <3>5. slot[j] = sem
      BY <3>2, <3>4, PoolAssumption DEF OneSem
    <3>6. QED
      BY <3>3, <3>4, <3>5
  <2>2. CASE alive = {}
    BY <2>2, FS_EmptySet, PoolAssumption DEF ChildrenBounded
  <2>3. CASE alive # {}
    <3>1. sem \in Jobs /\ alive \subseteq Holders(sem)
      BY <2>1, <2>3 DEF Holders
    <3>2. IsFiniteSet(Holders(sem)) /\ Cardinality(Holders(sem)) \in Nat
      BY PoolAssumption, FS_Subset, FS_CardinalityType DEF Holders
    <3>3. Cardinality(alive) <= Cardinality(Holders(sem)) /\ Cardinality(alive) \in Nat
      BY <3>1, <3>2, FS_Subset, FS_CardinalityType
    <3>4. Cardinality(Holders(sem)) <= PoolSize
      BY <3>1, <3>2, PoolAssumption DEF IInv, Typed, Slots, SemOK
    <3>5. QED
      BY <3>2, <3>3, <3>4, PoolAssumption DEF ChildrenBounded
  <2>4. QED
    BY <2>2, <2>3
<1>4. QED
  BY <1>1, <1>2, <1>3, PTL DEF Spec

-----------------------------------------------------------------------------
(* Queues, tokens and what callers are told.                               *)

(* A call that queues is in the queue of the semaphore it asked.           *)
QueueOK ==
  \A j \in Jobs : coroutine[j] = "queued" =>
    \E i \in 1 .. Len(waiters[slot[j]]) : waiters[slot[j]][i] = j

(* Only tasks are cancelled, and only a cancelled one is stopped for it.   *)
TokensOK ==
  /\ cancelled \subseteq Tasks
  /\ \A j \in Jobs : outcome[j] = "cancelled" => j \in cancelled

(* A task that was cancelled stays so; any other has its outcome, as soon  *)
(* as its coroutine is over and not before.                                *)
TaskOK(t) ==
  /\ status[t] \in {"none", "pending"} <=> coroutine[t] = "new"
  /\ status[t] = "cancelled" <=> t \in cancelled
  /\ status[t] = "running" => coroutine[t] # "ended"
  /\ status[t] \in {"done", "failed"} =>
       coroutine[t] = "ended" /\ status[t] = Mark[outcome[t]]

(* A synchronous request is answered when its coroutine is over.           *)
Told(j) == \/ answered[j] = Mark[outcome[j]]
           \/ answered[j] = "raised" /\ outcome[j] = "failed"
SyncOK(j) == IF coroutine[j] = "ended" THEN Told(j) ELSE answered[j] = "none"

ToldOK == (\A t \in Tasks : TaskOK(t)) /\ (\A j \in Jobs \ Tasks : SyncOK(j))

(* What a call that queues waits for, and what callers are told.           *)
QueuedAreBehind ==
  \A j \in Jobs : coroutine[j] = "queued" => Cardinality(Holders(slot[j])) = PoolSize

OutcomesTold ==
  /\ \A t \in Tasks :
       status[t] = "cancelled" <=> t \in cancelled
  /\ \A t \in Tasks \ cancelled :
       IF coroutine[t] = "ended" THEN status[t] = Mark[outcome[t]]
                                 ELSE status[t] \notin Terminal
  /\ \A j \in Jobs \ Tasks : coroutine[j] = "ended" =>
       Told(j) /\ answered[j] # "cancelled"

LEMMA ToldInit == Init => QueueOK /\ TokensOK /\ ToldOK
<1> SUFFICES ASSUME Init
             PROVE  QueueOK /\ TokensOK /\ ToldOK
  OBVIOUS
<1>1. QueueOK /\ TokensOK
  BY DEF Init, PoolInit, QueueOK, TokensOK
<1>2. \A t \in Tasks : TaskOK(t)
  BY ServiceAssumption DEF Init, PoolInit, TaskOK
<1>3. \A j \in Jobs \ Tasks : SyncOK(j)
  BY DEF Init, PoolInit, SyncOK
<1>4. QED
  BY <1>1, <1>2, <1>3 DEF ToldOK

(* The pool's own steps tell nobody anything and move no queue.            *)
LEMMA PoolStays ==
  ASSUME IInv, NEW j \in Jobs, Progress(j) \/ Report(j) \/ PoolStep(j)
  PROVE  /\ UNCHANGED <<free, waiters, slot, cancelled, status, answered>>
         /\ \A k \in Jobs : \/ coroutine'[k] = coroutine[k]
                            \/ coroutine[k] = "granted" /\ coroutine'[k] = "awaiting"
         /\ \A k \in Jobs : coroutine[k] = "ended" => outcome'[k] = outcome[k]
         /\ \A k \in Jobs : outcome'[k] = "cancelled" =>
              outcome[k] = "cancelled" \/ k \in cancelled
<1>1. Typed /\ InStep(j)
  BY DEF IInv, Stages
<1>2. coroutine[j] = "ended" => thread[j] \in {"handler", "over"}
  BY <1>1 DEF InStep
<1>3. CASE Progress(j) \/ Report(j)
  BY <1>3 DEF Progress, GetProgress, Report, PutProgress, Put, loopVars, threadVars, taskVars
<1>4. CASE PoolStep(j) /\ (LoopStep(j) \/ ChildStep(j))
  BY <1>1, <1>4 DEF PoolStep, LoopStep, ChildStep, Resume, RunCallback, PutFinal, Put,
     Feed, Exit, Crash, loopVars, threadVars, taskVars, Typed
<1>5. CASE PoolStep(j) /\ ThreadStep(j)
  <2>1. /\ UNCHANGED <<loopVars, cancelled, taskVars>>
        /\ thread[j] \notin {"handler", "over"} \/ UNCHANGED outcome
    BY <1>5 DEF PoolStep, ThreadStep, Spawn, SpawnFails, CheckToken, GetFinal, GetEmpty,
       CheckAlive, Drain, DrainDone, Join, Post, Unbind, At
  <2>2. \/ outcome' = outcome
        \/ \E o : /\ outcome' = [outcome EXCEPT ![j] = o]
                  /\ o = "cancelled" => j \in cancelled \/ outcome[j] = "cancelled"
    BY <1>5 DEF PoolStep, ThreadStep, Spawn, SpawnFails, CheckToken, GetFinal, GetEmpty,
       CheckAlive, Drain, DrainDone, Join, Post, Unbind
  <2>3. QED
    BY <1>1, <1>2, <2>1, <2>2 DEF loopVars, taskVars, Typed
<1>6. QED
  BY <1>3, <1>4, <1>5 DEF PoolStep

LEMMA QueueStep ==
  ASSUME IInv, QueueOK, [Next]_vars
  PROVE  QueueOK'
<1> SUFFICES ASSUME NEW k \in Jobs, coroutine'[k] = "queued"
             PROVE  \E i \in 1 .. Len(waiters'[slot'[k]]) : waiters'[slot'[k]][i] = k
  BY DEF QueueOK
<1>1. /\ Typed /\ \A j \in Jobs : InStep(j) /\ SemOK(j)
      /\ Tasks \subseteq Jobs
  BY ServiceAssumption DEF IInv, Stages, Slots
<1>2. CASE UNCHANGED <<waiters, slot>> /\ coroutine[k] = "queued"
  BY <1>2 DEF QueueOK
<1>3. ASSUME NEW j \in Jobs, Acquire(j)
      PROVE  \E i \in 1 .. Len(waiters'[slot'[k]]) : waiters'[slot'[k]][i] = k
  <2>1. /\ sem' \in Jobs /\ coroutine[j] = "new"
        /\ slot' = [slot EXCEPT ![j] = sem']
        /\ \/ coroutine'[j] = "awaiting" /\ waiters' = waiters
           \/ waiters' = [waiters EXCEPT ![sem'] = Append(@, j)]
        /\ k # j => coroutine[k] = "queued"
    BY <1>1, <1>3 DEF Acquire, Semaphore, Typed
  <2>2. waiters \in [Jobs -> Seq(Jobs)] /\ slot \in [Jobs -> Jobs \cup {NoSem}]
    BY <1>1 DEF Typed
  <2>3. CASE k = j
    <3>1. waiters'[sem'] = Append(waiters[sem'], j) /\ slot'[k] = sem'
      BY <2>1, <2>2, <2>3
    <3>2. waiters[sem'] \in Seq(Jobs)
      BY <2>1, <2>2
    <3>3. /\ Len(Append(waiters[sem'], j)) = Len(waiters[sem']) + 1
          /\ Append(waiters[sem'], j)[Len(waiters[sem']) + 1] = j
          /\ Len(waiters[sem']) \in Nat
      BY <3>2
    <3>4. QED
      BY <2>3, <3>1, <3>3
  <2>4. CASE k # j
    <3>1. slot'[k] = slot[k] /\ slot[k] \in Jobs
      BY <1>1, <2>1, <2>2, <2>4 DEF InStep
    <3>2. PICK i \in 1 .. Len(waiters[slot[k]]) : waiters[slot[k]][i] = k
      BY <2>1, <2>4 DEF QueueOK
    <3>3. \/ waiters'[slot[k]] = waiters[slot[k]]
          \/ waiters'[slot[k]] = Append(waiters[slot[k]], j)
      BY <2>1, <2>2, <3>1
    <3>4. waiters[slot[k]] \in Seq(Jobs)
      BY <2>2, <3>1
    <3>5. /\ i \in 1 .. Len(Append(waiters[slot[k]], j))
          /\ Append(waiters[slot[k]], j)[i] = k
      BY <3>2, <3>4
    <3>6. QED
      BY <3>1, <3>2, <3>3, <3>5
  <2>5. QED
    BY <2>3, <2>4
<1>4. ASSUME NEW j \in Jobs, Return(j)
      PROVE  \E i \in 1 .. Len(waiters'[slot'[k]]) : waiters'[slot'[k]][i] = k
  <2> DEFINE s == slot[j]
  <2>1. s \in Jobs /\ slot' = slot /\ coroutine[j] = "awaiting"
    BY <1>1, <1>4 DEF Return, InStep
  <2>2. waiters \in [Jobs -> Seq(Jobs)] /\ slot \in [Jobs -> Jobs \cup {NoSem}]
        /\ coroutine \in [Jobs -> {"new", "queued", "granted", "awaiting", "ended"}]
    BY <1>1 DEF Typed
  <2>3. \/ /\ waiters[s] = <<>> /\ waiters' = waiters
           /\ coroutine' = [coroutine EXCEPT ![j] = "ended"]
        \/ /\ waiters[s] # <<>> /\ waiters' = [waiters EXCEPT ![s] = Tail(@)]
           /\ coroutine' = [coroutine EXCEPT ![j] = "ended",
                                             ![Head(waiters[s])] = "granted"]
    BY <1>4 DEF Return
  <2>4. k # j
    BY <2>1, <2>2, <2>3
  <2>5. coroutine[k] = "queued" /\ (waiters[s] # <<>> => k # Head(waiters[s]))
    BY <2>2, <2>3, <2>4
  <2>6. slot[k] \in Jobs
    BY <1>1, <2>5 DEF InStep
  <2>7. PICK i \in 1 .. Len(waiters[slot[k]]) : waiters[slot[k]][i] = k
    BY <2>5 DEF QueueOK
  <2>8. CASE waiters'[slot[k]] = waiters[slot[k]]
    BY <2>1, <2>7, <2>8
  <2>9. CASE slot[k] = s /\ waiters[s] # <<>> /\ waiters'[s] = Tail(waiters[s])
    <3>1. waiters[s] \in Seq(Jobs) /\ waiters[s] # <<>>
      BY <2>1, <2>2, <2>9
    <3> DEFINE q == waiters[s]
    <3>2. i \in 1 .. Len(q) /\ q[i] = k /\ k # Head(q)
      BY <2>5, <2>7, <2>9
    <3> HIDE DEF q
    <3>3. i # 1
      BY <3>1, <3>2 DEF q
    <3>4. i - 1 \in 1 .. Len(Tail(q)) /\ Tail(q)[i - 1] = k
      BY <3>1, <3>2, <3>3 DEF q
    <3>5. QED
      BY <2>1, <2>9, <3>4 DEF q
  <2>10. QED
    BY <2>1, <2>2, <2>3, <2>6, <2>8, <2>9
<1>5. ASSUME NEW t \in Tasks, Create(t) \/ Begin(t) \/ Cancel(t) \/ Finish(t)
      PROVE  \E i \in 1 .. Len(waiters'[slot'[k]]) : waiters'[slot'[k]][i] = k
  BY <1>1, <1>2, <1>3, <1>4, <1>5
     DEF Create, Begin, Cancel, Finish, SetToken, poolVars, loopVars
<1>6. ASSUME NEW j \in Jobs \ Tasks, BeginSync(j) \/ Answer(j)
      PROVE  \E i \in 1 .. Len(waiters'[slot'[k]]) : waiters'[slot'[k]][i] = k
  BY <1>3, <1>4, <1>6 DEF BeginSync, Answer
<1>7. ASSUME NEW j \in Jobs, Progress(j) \/ Report(j) \/ PoolStep(j)
      PROVE  \E i \in 1 .. Len(waiters'[slot'[k]]) : waiters'[slot'[k]][i] = k
  BY <1>2, <1>7, PoolStays
<1>8. CASE UNCHANGED vars
  BY <1>2, <1>8 DEF vars, poolVars, loopVars
<1>9. QED
  BY <1>5, <1>6, <1>7, <1>8 DEF Next

LEMMA TokensStep ==
  ASSUME IInv, TokensOK, [Next]_vars
  PROVE  TokensOK'
<1>1. CASE UNCHANGED <<cancelled, outcome>>
  BY <1>1 DEF TokensOK
<1>2. ASSUME NEW t \in Tasks, Create(t) \/ Begin(t) \/ Finish(t)
      PROVE  TokensOK'
  BY <1>1, <1>2 DEF Create, Begin, Finish, Acquire, Return, poolVars, threadVars
<1>3. ASSUME NEW t \in Tasks, Cancel(t)
      PROVE  TokensOK'
  BY <1>3 DEF Cancel, SetToken, threadVars, TokensOK
<1>4. ASSUME NEW j \in Jobs \ Tasks, BeginSync(j) \/ Answer(j)
      PROVE  TokensOK'
  BY <1>1, <1>4 DEF BeginSync, Answer, Acquire, Return, threadVars
<1>5. ASSUME NEW j \in Jobs, Progress(j) \/ Report(j) \/ PoolStep(j)
      PROVE  TokensOK'
  BY <1>5, PoolStays DEF TokensOK
<1>6. CASE UNCHANGED vars
  BY <1>1, <1>6 DEF vars, poolVars, threadVars
<1>7. QED
  BY <1>2, <1>3, <1>4, <1>5, <1>6 DEF Next

(* A call that returns has an outcome, and has begun.                      *)
LEMMA ReturnTells ==
  ASSUME IInv, TokensOK, NEW j \in Jobs, Return(j)
  PROVE  /\ coroutine[j] = "awaiting" /\ coroutine'[j] = "ended" /\ outcome' = outcome
         /\ Mark[outcome[j]] \in Terminal
         /\ Mark[outcome[j]] = "cancelled" <=> outcome[j] = "cancelled"
         /\ \A k \in Jobs \ {j} : \/ coroutine'[k] = coroutine[k]
                                  \/ coroutine[k] = "queued" /\ coroutine'[k] = "granted"
<1>1. Typed /\ InStep(j) /\ SemOK(slot[j]) /\ slot[j] \in Jobs
  BY DEF Return, IInv, Stages, Slots, InStep
<1>2. outcome[j] \in {"result"} \cup Raised
  BY <1>1 DEF Return, InStep, Typed
<1>3. /\ Mark[outcome[j]] \in Terminal
      /\ Mark[outcome[j]] = "cancelled" <=> outcome[j] = "cancelled"
  BY <1>2 DEF Mark, Terminal, Raised
<1> DEFINE q == waiters[slot[j]]
<1>4. q # <<>> => coroutine[Head(q)] = "queued" /\ Head(q) \in Jobs
  <2>1. q \in Seq(Jobs)
    BY <1>1 DEF Typed
  <2>2. q # <<>> => 1 \in 1 .. Len(q) /\ Head(q) = q[1] /\ Head(q) \in Jobs
    BY <2>1
  <2>3. QED
    BY <1>1, <2>2 DEF SemOK
<1>5. /\ coroutine[j] = "awaiting" /\ outcome' = outcome
      /\ \/ coroutine' = [coroutine EXCEPT ![j] = "ended"]
         \/ /\ q # <<>>
            /\ coroutine' = [coroutine EXCEPT ![j] = "ended", ![Head(q)] = "granted"]
  BY DEF Return, threadVars
<1>6. coroutine \in [Jobs -> {"new", "queued", "granted", "awaiting", "ended"}]
  BY <1>1 DEF Typed
<1> HIDE DEF q
<1>7. QED
  BY <1>3, <1>4, <1>5, <1>6

(* Whose call, token, status and answer stay is told nothing new.          *)
LEMMA ToldStays ==
  ASSUME NEW k \in Jobs, Tasks \subseteq Jobs,
         \/ coroutine'[k] = coroutine[k]
         \/ /\ coroutine[k] \in {"queued", "granted"}
            /\ coroutine'[k] \in {"granted", "awaiting"},
         coroutine[k] = "ended" => outcome'[k] = outcome[k],
         k \in cancelled' <=> k \in cancelled,
         k \in Tasks => status'[k] = status[k],
         k \notin Tasks => answered'[k] = answered[k],
         IF k \in Tasks THEN TaskOK(k) ELSE SyncOK(k)
  PROVE  IF k \in Tasks THEN TaskOK(k)' ELSE SyncOK(k)'
BY DEF TaskOK, SyncOK, Told

LEMMA ToldStep ==
  ASSUME IInv, TokensOK, ToldOK, [Next]_vars
  PROVE  ToldOK'
<1> SUFFICES ASSUME NEW k \in Jobs
             PROVE  IF k \in Tasks THEN TaskOK(k)' ELSE SyncOK(k)'
  BY ServiceAssumption DEF ToldOK
<1>1. /\ Typed /\ InStep(k) /\ Tasks \subseteq Jobs
      /\ IF k \in Tasks THEN TaskOK(k) ELSE SyncOK(k)
  BY ServiceAssumption DEF IInv, Stages, ToldOK
<1>2. /\ status \in [Tasks -> {"none"} \cup Active \cup Terminal]
      /\ answered \in [Jobs \ Tasks -> {"none", "raised"} \cup Terminal]
      /\ coroutine \in [Jobs -> {"new", "queued", "granted", "awaiting", "ended"}]
  BY <1>1 DEF Typed
<1>3. ASSUME NEW t \in Tasks, Create(t)
      PROVE  IF k \in Tasks THEN TaskOK(k)' ELSE SyncOK(k)'
  <2>1. /\ UNCHANGED <<coroutine, outcome, cancelled, answered>>
        /\ status[t] = "none" /\ status' = [status EXCEPT ![t] = "pending"]
    BY <1>3 DEF Create, poolVars, loopVars, threadVars
  <2>2. QED
    BY <1>1, <1>2, <2>1 DEF TaskOK, SyncOK, Told
<1>4. ASSUME NEW j \in Jobs, Acquire(j)
      PROVE  /\ coroutine[j] = "new" /\ coroutine'[j] \in {"awaiting", "queued"}
             /\ \A i \in Jobs \ {j} : coroutine'[i] = coroutine[i]
             /\ UNCHANGED <<outcome, cancelled>>
  BY <1>2, <1>4 DEF Acquire
<1>5. ASSUME NEW t \in Tasks, Begin(t)
      PROVE  IF k \in Tasks THEN TaskOK(k)' ELSE SyncOK(k)'
  <2>1. /\ UNCHANGED answered
        /\ status[t] = "pending" /\ status' = [status EXCEPT ![t] = "running"]
    BY <1>5 DEF Begin
  <2>2. CASE k = t
    BY <1>1, <1>2, <1>4, <1>5, <2>1, <2>2 DEF Begin, TaskOK
  <2>3. CASE k # t
    BY <1>1, <1>2, <1>4, <1>5, <2>1, <2>3, ToldStays DEF Begin
  <2>4. QED
    BY <2>2, <2>3
<1>6. ASSUME NEW t \in Tasks, Cancel(t)
      PROVE  IF k \in Tasks THEN TaskOK(k)' ELSE SyncOK(k)'
  <2>1. /\ UNCHANGED <<coroutine, outcome, answered>> /\ cancelled' = cancelled \cup {t}
        /\ status[t] = "running" /\ status' = [status EXCEPT ![t] = "cancelled"]
    BY <1>6 DEF Cancel, SetToken, loopVars, threadVars
  <2>2. QED
    BY <1>1, <1>2, <2>1 DEF TaskOK, SyncOK, Told
<1>7. ASSUME NEW t \in Tasks, Finish(t)
      PROVE  IF k \in Tasks THEN TaskOK(k)' ELSE SyncOK(k)'
  <2>1. /\ coroutine[t] = "awaiting" /\ coroutine'[t] = "ended" /\ outcome' = outcome
        /\ Mark[outcome[t]] \in Terminal
        /\ Mark[outcome[t]] = "cancelled" <=> outcome[t] = "cancelled"
        /\ \A i \in Jobs \ {t} : \/ coroutine'[i] = coroutine[i]
                                 \/ coroutine[i] = "queued" /\ coroutine'[i] = "granted"
    BY <1>1, <1>7, ReturnTells DEF Finish
  <2>2. /\ UNCHANGED <<answered, cancelled>>
        /\ status' = IF status[t] \in Terminal THEN status
                     ELSE [status EXCEPT ![t] = Mark[outcome[t]]]
    BY <1>7 DEF Finish, Return
  <2>3. CASE k = t
    <3>1. status'[t] = IF status[t] \in Terminal THEN status[t] ELSE Mark[outcome[t]]
      BY <1>2, <2>2
    <3>2. status[t] \in {"running", "cancelled"}
      BY <1>1, <1>2, <2>1, <2>3 DEF TaskOK, Active, Terminal
    <3>3. outcome[t] = "cancelled" => status[t] = "cancelled"
      BY <1>1, <2>3 DEF TokensOK, TaskOK
    <3>4. QED
      BY <1>1, <2>1, <2>2, <2>3, <3>1, <3>2, <3>3 DEF TaskOK, Terminal
  <2>4. CASE k # t
    BY <1>1, <1>2, <2>1, <2>2, <2>4, ToldStays
  <2>5. QED
    BY <2>3, <2>4
<1>8. ASSUME NEW j \in Jobs \ Tasks, BeginSync(j)
      PROVE  IF k \in Tasks THEN TaskOK(k)' ELSE SyncOK(k)'
  <2>1. UNCHANGED <<status, answered>>
    BY <1>8 DEF BeginSync, taskVars
  <2>2. CASE k = j
    BY <1>1, <1>4, <1>8, <2>1, <2>2 DEF BeginSync, SyncOK
  <2>3. CASE k # j
    BY <1>1, <1>4, <1>8, <2>1, <2>3, ToldStays DEF BeginSync
  <2>4. QED
    BY <2>2, <2>3
<1>9. ASSUME NEW j \in Jobs \ Tasks, Answer(j)
      PROVE  IF k \in Tasks THEN TaskOK(k)' ELSE SyncOK(k)'
  <2>1. /\ coroutine'[j] = "ended" /\ outcome' = outcome
        /\ \A i \in Jobs \ {j} : \/ coroutine'[i] = coroutine[i]
                                 \/ coroutine[i] = "queued" /\ coroutine'[i] = "granted"
    BY <1>9, ReturnTells DEF Answer
  <2>2. /\ UNCHANGED <<status, cancelled>>
        /\ answered' = [answered EXCEPT ![j] = IF Unspawned(j) THEN "raised"
                                                              ELSE Mark[outcome[j]]]
    BY <1>9 DEF Answer, Return
  <2>3. CASE k = j
    BY <1>2, <2>1, <2>2, <2>3 DEF SyncOK, Told, Unspawned
  <2>4. CASE k # j
    BY <1>1, <1>2, <2>1, <2>2, <2>4, ToldStays
  <2>5. QED
    BY <2>3, <2>4
<1>10. ASSUME NEW j \in Jobs, Progress(j) \/ Report(j) \/ PoolStep(j)
       PROVE  IF k \in Tasks THEN TaskOK(k)' ELSE SyncOK(k)'
  BY <1>1, <1>10, PoolStays, ToldStays
<1>11. CASE UNCHANGED vars
  BY <1>1, <1>11, ToldStays DEF vars, poolVars, loopVars, threadVars, taskVars
<1>12. QED
  BY <1>3, <1>5, <1>6, <1>7, <1>8, <1>9, <1>10, <1>11 DEF Next

LEMMA ToldInvariance == Spec => [](IInv /\ QueueOK /\ TokensOK /\ ToldOK)
<1>1. Init => QueueOK /\ TokensOK /\ ToldOK
  BY ToldInit
<1>2. IInv /\ QueueOK /\ TokensOK /\ ToldOK /\ [Next]_vars => (QueueOK /\ TokensOK /\ ToldOK)'
  BY QueueStep, TokensStep, ToldStep
<1>3. QED
  BY <1>1, <1>2, Invariance, PTL DEF Spec

(* No wakeup is lost: while a call queues, as many others hold a slot of   *)
(* its semaphore as the pool has, and each hands one on when it returns    *)
(* (run).                                                                  *)
THEOREM QueuedWaitForOthers == Spec => []QueuedAreBehind
<1>1. IInv /\ QueueOK => QueuedAreBehind
  <2> SUFFICES ASSUME IInv, QueueOK, NEW j \in Jobs, coroutine[j] = "queued"
               PROVE  Cardinality(Holders(slot[j])) = PoolSize
    BY DEF QueuedAreBehind
  <2>1. slot[j] \in Jobs
    BY DEF IInv, Stages, InStep
  <2>2. waiters[slot[j]] # <<>>
    BY DEF QueueOK
  <2>3. IsFiniteSet(Holders(slot[j])) /\ Cardinality(Holders(slot[j])) \in Nat
    BY PoolAssumption, FS_Subset, FS_CardinalityType DEF Holders
  <2>4. QED
    BY <2>1, <2>2, <2>3, PoolAssumption DEF IInv, Slots, SemOK
<1>2. QED
  BY <1>1, ToldInvariance, PTL

(* A task is shown as cancelled when it was cancelled and only then, and   *)
(* any other as done or failed when its run returned or raised, and only   *)
(* then; a synchronous request gets the outcome of its run, or a server    *)
(* error instead of a failure (_run_backtest_task, api_backtest).          *)
THEOREM OutcomesAreTold == Spec => []OutcomesTold
<1>1. IInv /\ TokensOK /\ ToldOK => OutcomesTold
  <2> SUFFICES ASSUME IInv, TokensOK, ToldOK
               PROVE  OutcomesTold
    OBVIOUS
  <2>1. Typed /\ Stages /\ Tasks \subseteq Jobs
    BY ServiceAssumption DEF IInv
  <2>2. ASSUME NEW t \in Tasks
        PROVE  /\ status[t] = "cancelled" <=> t \in cancelled
               /\ t \notin cancelled =>
                    IF coroutine[t] = "ended" THEN status[t] = Mark[outcome[t]]
                                              ELSE status[t] \notin Terminal
    BY <2>1, <2>2 DEF ToldOK, TaskOK, Typed, Active, Terminal
  <2>3. ASSUME NEW j \in Jobs \ Tasks, coroutine[j] = "ended"
        PROVE  Told(j) /\ answered[j] # "cancelled"
    <3>1. outcome[j] \in {"result", "failed"}
      BY <2>1, <2>3 DEF TokensOK, Typed, Stages, InStep, Raised
    <3>2. QED
      BY <2>3, <3>1 DEF ToldOK, SyncOK, Told, Mark
  <2>4. QED
    BY <2>2, <2>3 DEF OutcomesTold
<1>2. QED
  BY <1>1, ToldInvariance, PTL

-----------------------------------------------------------------------------
(* The life of the service's tasks. *)

Life == INSTANCE TaskLifecycle WITH phase <- status

(* The service runs every task through the lifecycle: registered while     *)
(* there is room, started before it asks for a slot, ended once (tasks.py, *)
(* _run_backtest_task).                                                    *)
THEOREM ServiceImplementsLifecycle == Spec => Life!Spec
<1>1. Init => Life!Init
  BY DEF Init, Life!Init
<1>2. IInv /\ TokensOK /\ ToldOK /\ [Next]_vars => [Life!Next]_status
  <2> SUFFICES ASSUME IInv, TokensOK, ToldOK, [Next]_vars
               PROVE  Life!Next \/ status' = status
    OBVIOUS
  <2>1. Typed /\ Tasks \subseteq Jobs
    BY ServiceAssumption DEF IInv
  <2>2. ASSUME NEW t \in Tasks, Create(t)
        PROVE  Life!Next
    <3>1. ActiveTasks = Life!LiveNow
      BY DEF ActiveTasks, Active, Life!LiveNow, Life!Live
    <3>2. \A S : Life!Cardinality(S) = Cardinality(S)
      BY DEF Life!Cardinality, Cardinality
    <3>3. Life!Register(t)
      BY <2>2, <3>1, <3>2 DEF Create, Life!Register, Life!Move
    <3>4. QED
      BY <3>3 DEF Life!Next
  <2>3. ASSUME NEW t \in Tasks, Begin(t)
        PROVE  Life!Next
    BY <2>3 DEF Begin, Life!Next, Life!Start, Life!Move
  <2>4. ASSUME NEW t \in Tasks, Cancel(t)
        PROVE  Life!Next
    BY <2>4 DEF Cancel, Life!Next, Life!Cancel, Life!Move, Life!Live
  <2>5. ASSUME NEW t \in Tasks, Finish(t), status[t] \notin Terminal
        PROVE  Life!Next
    <3>1. coroutine[t] = "awaiting" /\ Mark[outcome[t]] \in Terminal
      BY <2>1, <2>5, ReturnTells DEF Finish
    <3>2. status[t] = "running"
      BY <2>1, <2>5, <3>1 DEF ToldOK, TaskOK, Typed, Active, Terminal
    <3>3. status' = [status EXCEPT ![t] = Mark[outcome[t]]]
      BY <2>5 DEF Finish
    <3>4. Life!Complete(t) \/ Life!Fail(t) \/ Life!Cancel(t)
      BY <3>1, <3>2, <3>3
      DEF Terminal, Life!Complete, Life!Fail, Life!Cancel, Life!Move, Life!Live
    <3>5. QED
      BY <3>4 DEF Life!Next
  <2>6. CASE UNCHANGED vars \/ \E j \in Jobs \ Tasks : BeginSync(j) \/ Answer(j)
    BY <2>6 DEF vars, taskVars, BeginSync, Answer
  <2>7. ASSUME NEW j \in Jobs, Progress(j) \/ Report(j) \/ PoolStep(j)
        PROVE  status' = status
    BY <2>7, PoolStays
  <2>8. QED
    BY <2>2, <2>3, <2>4, <2>5, <2>6, <2>7 DEF Next, Finish
<1>3. QED
  BY <1>1, <1>2, ToldInvariance, PTL DEF Spec, Life!Spec
=============================================================================
