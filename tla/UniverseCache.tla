----------------------------- MODULE UniverseCache -----------------------------
(***************************************************************************)
(* The list of a whole market (apps/quant/app/universe.py): a cache with a *)
(* long life for answers and a short one for failures, and one lock that   *)
(* lets a single request through.  Every caller runs on the API's event    *)
(* loop and gives it up only while it waits for the lock or the source.    *)
(***************************************************************************)
EXTENDS Integers, Sequences

CONSTANTS Callers,      \* the requests that expand the universe of a market
          LongLife,     \* _UNIVERSE_CACHE_TTL_SEC, in ticks
          ShortLife,    \* _UNIVERSE_NEGATIVE_TTL_SEC, in ticks
          MaxTime,      \* bound: ticks of the clock
          MaxCalls      \* bound: calls

ASSUME LifeAssumption == /\ ShortLife \in Nat \ {0} /\ LongLife \in Nat
                         /\ ShortLife < LongLife

VARIABLES
  now,       \* time.monotonic()
  cached,    \* _universe_cache[market]: when it was written, and a failure?
  lockQueue, \* the callers that wait for the market's lock, in their order
  locked,    \* the caller that holds it, if any
  callerAt,  \* where a caller is
  calls,     \* how many calls there were
  fetchedAt  \* when the last request to the source was answered, and how

universeVars == <<now, cached, lockQueue, locked, callerAt, calls, fetchedAt>>

Never == [at |-> 0, found |-> "never"]

UniverseInit ==
  /\ now = 0 /\ cached = Never /\ fetchedAt = Never
  /\ lockQueue = <<>> /\ locked = {} /\ calls = 0
  /\ callerAt = [c \in Callers |-> "idle"]

Life(found) == IF found = "failure" THEN ShortLife ELSE LongLife

\* _cache_fresh
Fresh == cached # Never /\ now - cached.at < Life(cached.found)

\* A fresh failure is answered with the tracked symbols, a fresh list with
\* itself.  What a call returns is not kept.
Answered(c) == callerAt' = [callerAt EXCEPT ![c] = "idle"]

\* Up to the lock, which a caller passes without a pause if nobody waits; an
\* idle lock then leads straight to the second check and the request.
Call(c) ==
  /\ callerAt[c] = "idle" /\ calls < MaxCalls /\ calls' = calls + 1
  /\ IF Fresh
     THEN Answered(c) /\ UNCHANGED <<lockQueue, locked>>
     ELSE IF locked = {} /\ lockQueue = <<>>
          THEN /\ locked' = {c} /\ UNCHANGED lockQueue
               /\ callerAt' = [callerAt EXCEPT ![c] = "fetching"]
          ELSE /\ lockQueue' = Append(lockQueue, c) /\ UNCHANGED locked
               /\ callerAt' = [callerAt EXCEPT ![c] = "waiting"]
  /\ UNCHANGED <<now, cached, fetchedAt>>

\* Mutant: no second look at the cache.
WokenBlind(c) ==
  /\ lockQueue # <<>> /\ c = Head(lockQueue) /\ locked = {}
  /\ lockQueue' = Tail(lockQueue) /\ locked' = {c}
  /\ callerAt' = [callerAt EXCEPT ![c] = "fetching"]
  /\ UNCHANGED <<now, cached, calls, fetchedAt>>

\* A waiter is woken by the release and goes on later: the second check.
Woken(c) ==
  /\ lockQueue # <<>> /\ c = Head(lockQueue) /\ locked = {}
  /\ lockQueue' = Tail(lockQueue)
  /\ IF Fresh
     THEN Answered(c) /\ UNCHANGED locked
     ELSE /\ locked' = {c}
          /\ callerAt' = [callerAt EXCEPT ![c] = "fetching"]
  /\ UNCHANGED <<now, cached, calls, fetchedAt>>

\* Mutant: a failure leaves without releasing the lock.
FetchedKeepsLock(c, found) ==
  /\ callerAt[c] = "fetching"
  /\ cached' = [at |-> now, found |-> found] /\ fetchedAt' = cached'
  /\ locked' = (IF found = "failure" THEN locked ELSE {}) /\ Answered(c)
  /\ UNCHANGED <<now, lockQueue, calls>>

\* _fetch_market_symbols: the list, or nothing, an error, a timeout.
Fetched(c, found) ==
  /\ callerAt[c] = "fetching"
  /\ cached' = [at |-> now, found |-> found] /\ fetchedAt' = cached'
  /\ locked' = {} /\ Answered(c)
  /\ UNCHANGED <<now, lockQueue, calls>>

Tick == /\ now < MaxTime /\ now' = now + 1
        /\ UNCHANGED <<cached, lockQueue, locked, callerAt, calls, fetchedAt>>

Step(c) == Woken(c) \/ \E found \in {"list", "failure"} : Fetched(c, found)
UniverseNext == Tick \/ \E c \in Callers : Call(c) \/ Step(c)
UniverseSpec == UniverseInit /\ [][UniverseNext]_universeVars

\* get_json has a timeout of 30 seconds and asyncio runs what is ready.
UniverseFairness == \A c \in Callers : WF_universeVars(Step(c))

-----------------------------------------------------------------------------
\* However many requests meet on an expired list, one goes to the source, and
\* none does while the last answer or failure is still within its life.
Fetching == {c \in Callers : callerAt[c] = "fetching"}
FetchesSpaced ==
  [][\A c \in Fetching' \ Fetching :
       /\ Fetching = {}
       /\ fetchedAt # Never => now - fetchedAt.at >= Life(fetchedAt.found)]_universeVars

\* Every call is answered, also when the request it waits for fails.
CallsAnswered == \A c \in Callers : callerAt[c] # "idle" ~> callerAt[c] = "idle"
=============================================================================
