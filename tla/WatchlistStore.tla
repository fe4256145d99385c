--------------------------- MODULE WatchlistStore ---------------------------
(***************************************************************************)
(* What lib/watchlist.ts promises of the stored list when the browser has  *)
(* Web Locks: every mutation is applied to the list as it stands, at most  *)
(* once, raising the revision by one, and answered as applied only if it   *)
(* was; one that changes nothing leaves the stored value alone.  Without   *)
(* locks (exclusive = FALSE) nothing is promised of the stored value.      *)
(***************************************************************************)
EXTENDS WatchlistOps

CONSTANT Ops

VARIABLES exclusive,  \* the browser has Web Locks
          disk,       \* the stored value
          request,    \* what each mutation asks for
          answer      \* none, open, applied or refused

storeVars == <<exclusive, disk, request, answer>>

Init == exclusive \in BOOLEAN /\ answer = [o \in Ops |-> "none"]

Answer(os, from, to) ==
  /\ os # {} /\ \A o \in os : answer[o] \in from
  /\ answer' = [o \in Ops |-> IF o \in os THEN to ELSE answer[o]]

Ask(o) == Answer({o}, {"none"}, "open") /\ UNCHANGED <<exclusive, disk>>

Apply(o) ==
  LET state == Parsed(disk, o)
      list  == Effect(request[o], state, disk, Stamp(o, 1))
  IN  /\ Answer({o}, {"open"}, "applied")
      /\ disk' = IF list = Content(state) /\ disk = V2(state)
                 THEN disk
                 ELSE V2([rev |-> state.rev + 1, writer |-> request[o].by,
                          groups |-> list.groups, items |-> list.items])
      /\ UNCHANGED exclusive

\* Storage fails, or a page goes away with all its mutations.
Refuse(os) == /\ Answer(os, {"none", "open"}, "refused")
              /\ UNCHANGED <<exclusive, disk>>

\* What is asked is settled when a mutation is open and no longer of interest
\* when it is answered.
Steady == \A o \in Ops :
            answer[o] = "open" /\ answer'[o] = "open" => request'[o] = request[o]

Unprotected == ~exclusive /\ exclusive' = exclusive

Next == \/ Unprotected
        \/ /\ Steady
           /\ \/ UNCHANGED <<exclusive, disk, answer>>
              \/ \E o \in Ops : Ask(o) \/ Apply(o)
              \/ \E os \in SUBSET Ops : Refuse(os)

Spec == Init /\ [][Next]_storeVars
=============================================================================
