-------------------------- MODULE UniverseCacheProofs --------------------------
(***************************************************************************)
(* The spacing of the requests to the source, for any number of callers    *)
(* and any lives.                                                          *)
(***************************************************************************)
EXTENDS UniverseCache, TLAPS

\* Who fetches holds the lock, alone, and the cache holds the last answer.
FetchInv ==
  /\ callerAt \in [Callers -> {"idle", "waiting", "fetching"}]
  /\ \/ locked = {} /\ Fetching = {}
     \/ \E c \in Callers : locked = {c} /\ Fetching = {c}
  /\ fetchedAt = cached
  /\ now \in Nat /\ cached.at \in Nat /\ cached.found \in {"never", "list", "failure"}
  /\ cached # Never => cached.found # "never"

Spaced ==
  \A c \in Fetching' \ Fetching :
    /\ Fetching = {}
    /\ fetchedAt # Never => now - fetchedAt.at >= Life(fetchedAt.found)

LEMMA FetchInit == UniverseInit => FetchInv
  BY DEF UniverseInit, FetchInv, Fetching, Never

\* A caller that finds the cache expired and the lock free.
LEMMA EnterStep ==
  ASSUME FetchInv, NEW c, Call(c) \/ Woken(c), c \in Callers
  PROVE  FetchInv' /\ Spaced
<1> USE DEF FetchInv, Fetching
<1>1. /\ UNCHANGED <<now, cached, fetchedAt>>
      /\ \/ callerAt' = [callerAt EXCEPT ![c] = "fetching"] /\ locked = {}
            /\ locked' = {c} /\ ~Fresh
         \/ /\ callerAt' \in {[callerAt EXCEPT ![c] = at] : at \in {"idle", "waiting"}}
            /\ locked' = locked /\ callerAt[c] # "fetching"
  <2>1. CASE Call(c)
    BY <2>1 DEF Call, Answered
  <2>2. CASE Woken(c)
    BY <2>2 DEF Woken, Answered
  <2>3. QED
    BY <2>1, <2>2
<1>2. CASE callerAt' = [callerAt EXCEPT ![c] = "fetching"] /\ locked = {}
           /\ locked' = {c} /\ ~Fresh
  <2>1. Fetching = {} /\ Fetching' = {c}
    BY <1>2
  <2>2. fetchedAt # Never => now - fetchedAt.at >= Life(fetchedAt.found)
    BY <1>2, LifeAssumption DEF Fresh, Life
  <2>3. QED
    BY <1>1, <1>2, <2>1, <2>2 DEF Spaced
<1>3. CASE locked' = locked /\ Fetching' = Fetching
           /\ callerAt' \in [Callers -> {"idle", "waiting", "fetching"}]
  BY <1>1, <1>3 DEF Spaced
<1>4. QED
  BY <1>1, <1>2, <1>3

LEMMA LeaveStep ==
  ASSUME FetchInv, NEW c \in Callers, NEW found \in {"list", "failure"}, Fetched(c, found)
  PROVE  FetchInv' /\ Spaced
<1> USE DEF FetchInv, Fetching
<1>1. callerAt[c] = "fetching" /\ callerAt' = [callerAt EXCEPT ![c] = "idle"] /\ locked' = {}
      /\ cached' = [at |-> now, found |-> found] /\ fetchedAt' = cached' /\ now' = now
  BY DEF Fetched, Answered
<1>2. Fetching = {c}
  BY <1>1
<1>3. Fetching' = {}
  BY <1>1, <1>2
<1>4. QED
  BY <1>1, <1>3 DEF Spaced

LEMMA FetchStep == FetchInv /\ [UniverseNext]_universeVars
                     => FetchInv' /\ [Spaced]_universeVars
<1> SUFFICES ASSUME FetchInv, [UniverseNext]_universeVars
             PROVE  FetchInv' /\ Spaced
  OBVIOUS
<1>1. CASE Tick
  BY <1>1 DEF Tick, FetchInv, Fetching, Spaced
<1>2. ASSUME NEW c \in Callers, Call(c) \/ Step(c)
      PROVE  FetchInv' /\ Spaced
  BY <1>2, EnterStep, LeaveStep DEF Step
<1>3. CASE UNCHANGED universeVars
  BY <1>3 DEF universeVars, FetchInv, Fetching, Spaced
<1>4. QED
  BY <1>1, <1>2, <1>3 DEF UniverseNext

\* One request goes to the source at a time, and none while the last answer,
\* or the last failure, is still within its life.
THEOREM RequestsAreSpaced == UniverseSpec => FetchesSpaced
  BY FetchInit, FetchStep, PTL DEF UniverseSpec, FetchesSpaced, Spaced
=============================================================================
