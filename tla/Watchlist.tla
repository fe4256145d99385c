------------------------------ MODULE Watchlist ------------------------------
(***************************************************************************)
(* The watchlist of the web front end: apps/web/src/lib/watchlist.ts with  *)
(* the two pages that show it, the workbench (app/screener/page.tsx and    *)
(* its dialogs) and the strip of the home page (watchlist-strip.tsx).      *)
(*                                                                         *)
(* A tab is one load of a page; reloading closes one tab and opens another.*)
(* Tabs share localStorage and nothing else.  A tab runs one piece of      *)
(* script at a time, up to its next await, but another tab's process may   *)
(* read or write localStorage in between; only a Web Lock keeps it out.    *)
(* Each call of mutateWatchlistState is an op, a state machine of its own. *)
(***************************************************************************)
EXTENDS WatchlistOps, Sequences

CONSTANTS Tabs, WatchSymbols, Names,
          Strips,      \* bound: the tabs that may show the home page
          Closing,     \* bound: the tabs that may be closed
          Ops,         \* the calls, as numbers: how many is a bound of the model
          Attempts,    \* FALLBACK_MUTATION_ATTEMPTS
          FirstValues  \* the stored values the model starts from

ASSUME NobodyAssumption == Nobody \notin Ops \cup Tabs
ASSUME AttemptsAssumption == Attempts \in Nat \ {0}

\* Every item's group is one of the list's.
GroupsExist(list) == \A s \in DOMAIN list.items : list.items[s].group \in DOMAIN list.groups

\* The first value is one that an earlier page wrote.
ASSUME FirstAssumption ==
  \A v \in FirstValues : /\ v.kind \in {"absent", "legacy", "v2"} /\ v.rev \in Nat
                         /\ Watch \in DOMAIN v.groups /\ GroupsExist(v)

VARIABLES
  locks,    \* navigator.locks exists
  store,    \* the value under WATCHLIST_KEY
  kept,     \* the symbols of the first list that no user asked to remove
  added,    \* those of the adds that were answered as applied, likewise
  holder,   \* the op that holds the Web Lock
  page,     \* a tab's page: unopened, screener, strip or closed
  view,     \* the list it shows (watchlistRef, watchlist)
  editing,  \* editingItemRef: the item its editor was opened on
  queue,    \* storage events on their way to it
  stage,    \* how far an op is
  request,  \* what it was asked
  base,     \* the list its mutator last read
  desired,  \* what it makes of it
  saved,    \* lastSaved, or the list observed before a merge, or its result
  tries,    \* the loop counter of mutateWithoutWebLock
  verdict   \* existingItem of an add, conflict of an editor's save

tabVars   == <<page, view, editing, queue>>
opVars    == <<stage, request, base, desired, saved, tries, verdict>>
watchVars == <<locks, store, kept, added, holder, tabVars, opVars>>

Pages    == {"screener", "strip"}
Kinds    == {"add", "save", "remove", "addGroup", "renameGroup", "removeGroup", "migrate"}
Over     == {"done", "failed", "dropped"}
Stages   == {"idle", "validating", "waiting", "mutating", "written", "merging",
             "merged", "returned", "rejected"} \cup Over
NoState  == Parsed(Absent, Nobody)
NoList   == Content(NoState)
Closed   == [sym |-> Nobody, stamp |-> Stamp(Nobody, 0)]
NoRequest == [kind |-> "none", by |-> Nobody, sym |-> Nobody, group |-> Watch,
              name |-> Watch, expected |-> Stamp(Nobody, 0), known |-> {}]

WatchInit ==
  /\ locks \in BOOLEAN
  /\ store \in FirstValues
  /\ kept = DOMAIN store.items /\ added = {}
  /\ holder  = Nobody
  /\ page    = [t \in Tabs |-> "unopened"]
  /\ view    = [t \in Tabs |-> NoState]
  /\ editing = [t \in Tabs |-> Closed]
  /\ queue   = [t \in Tabs |-> <<>>]
  /\ stage   = [o \in Ops |-> "idle"]
  /\ request = [o \in Ops |-> NoRequest]
  /\ base    = [o \in Ops |-> NoState]
  /\ desired = [o \in Ops |-> NoList]
  /\ saved   = [o \in Ops |-> NoState]
  /\ tries   = [o \in Ops |-> 0]
  /\ verdict = [o \in Ops |-> <<>>]

Open(t)  == page[t] \in Pages
Live(o)  == stage[o] \notin Over \cup {"idle"}
By(t)    == {o \in Ops : request[o].by = t /\ Live(o)}
Pending(t, k) == \E o \in By(t) : request[o].kind = k

\* The tab is inside a piece of script; without locks the caller's
\* continuation still belongs to it.
Busy(t)  == \E o \in By(t) :
              \/ stage[o] \in {"mutating", "merging"}
              \/ ~locks /\ stage[o] \in {"returned", "rejected"}
Free(t)  == Open(t) /\ ~Busy(t)

-----------------------------------------------------------------------------
(* What a tab does with a list it is told of.                              *)

\* Mutant: revisions are not compared.
OutdatedNever(v, next) == FALSE

\* syncWatchlist: an older revision is ignored, and a change that another
\* tab made to the item in the editor closes the editor.
Outdated(v, next)  == next.rev < v.rev
Foreign(t, next)   == next.writer # Nobody /\ next.writer # t
Touched(e, next)   == \/ e.sym \notin DOMAIN next.items
                      \/ next.items[e.sym].stamp # e.stamp
SyncView(v, next)  == IF Outdated(v, next) THEN v ELSE next
SyncEditor(t, v, e, next) ==
  IF ~Outdated(v, next) /\ e # Closed /\ Foreign(t, next) /\ Touched(e, next)
  THEN Closed ELSE e

\* handleWatchlistChange and handleStorage of either page; now is what a
\* fresh look at the store gives.
Told(t, next, now) ==
  IF page[t] = "screener"
  THEN /\ view'    = [view EXCEPT ![t] = SyncView(@, next)]
       /\ editing' = [editing EXCEPT ![t] = SyncEditor(t, view[t], @, next)]
  ELSE /\ view' = [view EXCEPT ![t] = now]
       /\ UNCHANGED editing

DeliverStorageEvent(t) ==
  /\ Free(t) /\ queue[t] # <<>>
  /\ queue' = [queue EXCEPT ![t] = Tail(@)]
  /\ Told(t, Head(queue[t]), Parsed(store, t))
  /\ UNCHANGED <<locks, store, kept, added, holder, page, opVars>>

-----------------------------------------------------------------------------
(* Tabs, and the calls their users make.                                   *)

Issue(o, r, first) ==
  /\ stage[o] = "idle" /\ \A q \in Ops : q < o => stage[q] # "idle"
  /\ stage'   = [stage EXCEPT ![o] = first]
  /\ request' = [request EXCEPT ![o] = r]
  /\ UNCHANGED <<base, desired, saved, tries, verdict>>

\* Nothing is remembered of a call that is over.
Forget(os) ==
  /\ request' = [o \in Ops |-> IF o \in os THEN NoRequest ELSE request[o]]
  /\ base'    = [o \in Ops |-> IF o \in os THEN NoState ELSE base[o]]
  /\ desired' = [o \in Ops |-> IF o \in os THEN NoList ELSE desired[o]]
  /\ saved'   = [o \in Ops |-> IF o \in os THEN NoState ELSE saved[o]]
  /\ tries'   = [o \in Ops |-> IF o \in os THEN 0 ELSE tries[o]]
  /\ verdict' = [o \in Ops |-> IF o \in os THEN <<>> ELSE verdict[o]]

\* The page reads the list, listens for changes and, if the list is still
\* the old array, has it migrated.
OpenPage(t, p) ==
  /\ page[t] = "unopened" /\ (p = "strip" => t \in Strips)
  /\ page' = [page EXCEPT ![t] = p]
  /\ view' = [view EXCEPT ![t] = Parsed(store, t)]
  /\ IF store.kind = "legacy"
     THEN \E o \in Ops :
            Issue(o, [NoRequest EXCEPT !.kind = "migrate", !.by = t,
                                       !.known = DOMAIN store.items], "waiting")
     ELSE UNCHANGED opVars
  /\ UNCHANGED <<locks, store, kept, added, holder, editing, queue>>

\* A closed tab takes its calls with it; the browser releases its lock.
ClosePage(t) ==
  /\ Open(t) /\ t \in Closing
  /\ page'    = [page EXCEPT ![t] = "closed"]
  /\ view'    = [view EXCEPT ![t] = NoState]
  /\ editing' = [editing EXCEPT ![t] = Closed]
  /\ queue'   = [queue EXCEPT ![t] = <<>>]
  /\ stage'   = [o \in Ops |-> CASE o \notin By(t)       -> stage[o]
                                 [] stage[o] = "returned" -> "done"
                                 [] OTHER                 -> "dropped"]
  /\ holder'  = IF holder \in By(t) THEN Nobody ELSE holder
  /\ Forget(By(t))
  /\ UNCHANGED <<locks, store, kept, added>>

Ask(t, r, first) ==
  /\ Free(t) /\ page[t] = "screener"
  /\ \E o \in Ops : Issue(o, [r EXCEPT !.by = t], first)
  /\ LET gone == IF r.kind = "remove" THEN {r.sym} ELSE {}
     IN  kept' = kept \ gone /\ added' = added \ gone
  /\ UNCHANGED <<locks, store, holder, tabVars>>

\* The form's button waits for the previous add; a star of the market list
\* does not, but it asks for a removal when the page has the symbol.
StartAdd(t, s) ==
  /\ s \in DOMAIN view[t].items => ~Pending(t, "add")
  /\ Ask(t, [NoRequest EXCEPT !.kind = "add", !.sym = s], "validating")

\* The group selected when the answer comes is the one the symbol goes to.
SymbolValid(o) ==
  /\ stage[o] = "validating" /\ Free(request[o].by)
  /\ stage' = [stage EXCEPT ![o] = "waiting"]
  /\ \E g \in DOMAIN view[request[o].by].groups : request' = [request EXCEPT ![o].group = g]
  /\ UNCHANGED <<locks, store, kept, added, holder, tabVars, base, desired, saved, tries, verdict>>

SymbolInvalid(o) ==
  /\ stage[o] = "validating" /\ Free(request[o].by)
  /\ stage' = [stage EXCEPT ![o] = "failed"]
  /\ Forget({o})
  /\ UNCHANGED <<locks, store, kept, added, holder, tabVars>>

\* While the form saves, its buttons are disabled.
Saving(t) == \E o \in By(t) : /\ request[o].kind = "save"
                              /\ request[o].sym = editing[t].sym
                              /\ request[o].expected = editing[t].stamp

\* (bound: only while a call is left to save with)
OpenEditor(t, s) ==
  /\ Free(t) /\ page[t] = "screener" /\ editing[t] = Closed
  /\ \E o \in Ops : stage[o] = "idle"
  /\ s \in DOMAIN view[t].items
  /\ editing' = [editing EXCEPT ![t] = [sym |-> s, stamp |-> view[t].items[s].stamp]]
  /\ UNCHANGED <<locks, store, kept, added, holder, page, view, queue, opVars>>

CloseEditor(t) ==
  /\ Free(t) /\ editing[t] # Closed /\ ~Saving(t)
  /\ editing' = [editing EXCEPT ![t] = Closed]
  /\ UNCHANGED <<locks, store, kept, added, holder, page, view, queue, opVars>>

SubmitEditor(t, g) ==
  /\ editing[t] # Closed /\ ~Saving(t)
  /\ g \in DOMAIN view[t].groups
  /\ Ask(t, [NoRequest EXCEPT !.kind = "save", !.sym = editing[t].sym, !.group = g,
                              !.expected = editing[t].stamp], "waiting")

ConfirmRemove(t, s) ==
  /\ s \in DOMAIN view[t].items
  /\ Ask(t, [NoRequest EXCEPT !.kind = "remove", !.sym = s], "waiting")

NameTaken(t, n, but) == \E g \in DOMAIN view[t].groups \ but : view[t].groups[g].name = n

SubmitGroup(t, n) ==
  /\ ~NameTaken(t, n, {}) /\ ~Pending(t, "addGroup")
  /\ Ask(t, [NoRequest EXCEPT !.kind = "addGroup", !.name = n], "waiting")

SaveRename(t, g, n) ==
  /\ g \in DOMAIN view[t].groups /\ view[t].groups[g].name # n
  /\ ~NameTaken(t, n, {g}) /\ ~Pending(t, "renameGroup")
  /\ Ask(t, [NoRequest EXCEPT !.kind = "renameGroup", !.group = g, !.name = n], "waiting")

ConfirmRemoveGroup(t, g) ==
  /\ g \in DOMAIN view[t].groups \ {Watch} /\ ~Pending(t, "removeGroup")
  /\ Ask(t, [NoRequest EXCEPT !.kind = "removeGroup", !.group = g], "waiting")

-----------------------------------------------------------------------------
(* mutateWatchlistState.                                                   *)

\* The mutator runs on a fresh reading.  What it notes about that reading in
\* its closure stays noted when it runs again.
Noted(o, state) ==
  LET r == request[o]
  IN  CASE r.kind = "add" /\ r.sym \in DOMAIN state.items -> <<state.items[r.sym].stamp>>
        [] r.kind = "save" /\ ~AsOpened(state, r)        -> <<r.expected>>
        [] OTHER                                          -> verdict[o]

RunMutator(o, n) ==
  LET state == Parsed(store, o)
  IN  /\ base'    = [base EXCEPT ![o] = state]
      /\ desired' = [desired EXCEPT ![o] = Effect(request[o], state, store, Stamp(o, n))]
      /\ verdict' = [verdict EXCEPT ![o] = Noted(o, state)]
      /\ tries'   = [tries EXCEPT ![o] = n]
      /\ stage'   = [stage EXCEPT ![o] = "mutating"]
      /\ UNCHANGED <<request, saved>>

\* Mutant: the Web Lock is asked for and not waited for.
LockFreeAlways == TRUE

LockFree   == locks => holder = Nobody
\* Mutant: a lock is taken even where there are none.
HeldAlways(o) == o

HeldBy(o)  == IF locks THEN o ELSE Nobody

Read(o) ==
  /\ stage[o] = "waiting" /\ Free(request[o].by) /\ LockFree
  /\ holder' = HeldBy(o)
  /\ RunMutator(o, 1)
  /\ UNCHANGED <<locks, store, kept, added, tabVars>>

\* applyWatchlistMutation saves nothing when nothing changes, which it can
\* tell only if the store still holds what it read.
Same(state, list) == list = Content(state) /\ store = V2(state)
Next1(o, state, list) == [rev |-> state.rev + 1, writer |-> request[o].by,
                          groups |-> list.groups, items |-> list.items]

\* saveWatchlistState: setItem, storage events for the other tabs, and the
\* change event, which the own tab handles before setItem's caller goes on.
Put(o, state) ==
  LET t == request[o].by
  IN  /\ store' = V2(state)
      /\ queue' = [u \in Tabs |-> IF Open(u) /\ u # t THEN Append(queue[u], state)
                                                      ELSE queue[u]]
      /\ Told(t, state, state)

Advance(o, to, state) == /\ stage' = [stage EXCEPT ![o] = to]
                         /\ saved' = [saved EXCEPT ![o] = state]

\* Its caller is told that the op was applied; a removal of the symbol that
\* is under way may still take it off again.
Removing(s) == \E q \in Ops :
  /\ request[q].kind = "remove" /\ request[q].sym = s
  /\ stage[q] \in {"waiting", "mutating", "written", "merging", "merged"}
Applied(o) ==
  LET s == request[o].sym
  IN  added' = IF request[o].kind = "add" /\ ~Removing(s) THEN added \cup {s} ELSE added

NothingToSave(o) ==
  /\ stage[o] = "mutating" /\ Same(base[o], desired[o])
  /\ Advance(o, "returned", base[o])
  /\ Applied(o)
  /\ holder' = Nobody
  /\ UNCHANGED <<locks, store, kept, tabVars, request, base, desired, tries, verdict>>

Save(o) ==
  /\ stage[o] = "mutating" /\ ~Same(base[o], desired[o])
  /\ LET state == Next1(o, base[o], desired[o])
     IN  /\ Put(o, state)
         /\ Advance(o, IF locks THEN "returned" ELSE "written", state)
  /\ IF locks THEN Applied(o) ELSE UNCHANGED added
  /\ holder' = Nobody
  /\ UNCHANGED <<locks, kept, page, request, base, desired, tries, verdict>>

\* setItem throws: the quota is used up or storage is blocked.
SaveFails(o) ==
  /\ \/ stage[o] = "mutating" /\ ~Same(base[o], desired[o])
     \/ stage[o] = "merging" /\ ~Same(saved[o], desired[o])
  /\ stage' = [stage EXCEPT ![o] = "rejected"]
  /\ holder' = Nobody
  /\ UNCHANGED <<locks, store, kept, added, tabVars, request, base, desired, saved, tries, verdict>>

-----------------------------------------------------------------------------
(* mutateWithoutWebLock: after a turn of the event loop the op looks       *)
(* whether the stored list is still its own; if not it merges, looks       *)
(* again, and starts over.                                                 *)

Own(o, state) == state.rev = saved[o].rev /\ state.writer = request[o].by

ObserveOwn(o) ==
  /\ stage[o] \in {"written", "merged"} /\ Free(request[o].by)
  /\ Own(o, Parsed(store, o))
  /\ Advance(o, "returned", Parsed(store, o))
  /\ Applied(o)
  /\ UNCHANGED <<locks, store, kept, holder, tabVars, request, base, desired, tries, verdict>>

ObserveOther(o) ==
  /\ stage[o] = "written" /\ Free(request[o].by)
  /\ LET state == Parsed(store, o)
     IN  /\ ~Own(o, state)
         /\ desired' = [desired EXCEPT ![o] = Merged(base[o], @, state)]
         /\ Advance(o, "merging", state)
  /\ UNCHANGED <<locks, store, kept, added, holder, tabVars, request, base, tries, verdict>>

SaveMerged(o) ==
  /\ stage[o] = "merging"
  /\ IF Same(saved[o], desired[o])
     THEN /\ Advance(o, "merged", saved[o])
          /\ UNCHANGED <<store, view, editing, queue>>
     ELSE LET state == Next1(o, saved[o], desired[o])
          IN  Put(o, state) /\ Advance(o, "merged", state)
  /\ UNCHANGED <<locks, kept, added, holder, page, request, base, desired, tries, verdict>>

Retry(o) ==
  /\ stage[o] = "merged" /\ Free(request[o].by)
  /\ ~Own(o, Parsed(store, o)) /\ tries[o] < Attempts
  /\ RunMutator(o, tries[o] + 1)
  /\ UNCHANGED <<locks, store, kept, added, holder, tabVars>>

GiveUp(o) ==
  /\ stage[o] = "merged" /\ Free(request[o].by)
  /\ ~Own(o, Parsed(store, o)) /\ tries[o] = Attempts
  /\ stage' = [stage EXCEPT ![o] = "rejected"]
  /\ UNCHANGED <<locks, store, kept, added, holder, tabVars, request, base, desired, saved, tries, verdict>>

-----------------------------------------------------------------------------
(* The caller goes on.                                                     *)

CanResume(o) == Open(request[o].by) /\ (locks => ~Busy(request[o].by))

\* An add that found the symbol opens the editor on what it found; a save
\* without conflict closes whichever editor is open.
EditorAfter(o, e) ==
  CASE request[o].kind = "add" /\ verdict[o] # <<>>  ->
         [sym |-> request[o].sym, stamp |-> verdict[o][1]]
    [] request[o].kind = "save" /\ verdict[o] = <<>> -> Closed
    [] OTHER                                         -> e

Return(o) ==
  /\ stage[o] = "returned" /\ CanResume(o)
  /\ stage' = [stage EXCEPT ![o] = "done"]
  /\ LET t == request[o].by
     IN  IF page[t] = "screener"
         THEN /\ view'    = [view EXCEPT ![t] = SyncView(@, saved[o])]
              /\ editing' = [editing EXCEPT ![t] =
                   EditorAfter(o, SyncEditor(t, view[t], @, saved[o]))]
         ELSE view' = [view EXCEPT ![t] = saved[o]] /\ UNCHANGED editing
  /\ Forget({o})
  /\ UNCHANGED <<locks, store, kept, added, holder, page, queue>>

\* The error is shown; the strip shows what the store has.
Reject(o) ==
  /\ stage[o] = "rejected" /\ CanResume(o)
  /\ stage' = [stage EXCEPT ![o] = "failed"]
  /\ LET t == request[o].by
     IN  view' = IF page[t] = "strip" THEN [view EXCEPT ![t] = Parsed(store, t)] ELSE view
  /\ Forget({o})
  /\ UNCHANGED <<locks, store, kept, added, holder, page, editing, queue>>

-----------------------------------------------------------------------------
UserStep(t) ==
  \/ \E p \in Pages : OpenPage(t, p)
  \/ ClosePage(t)
  \/ \E s \in WatchSymbols : StartAdd(t, s) \/ OpenEditor(t, s) \/ ConfirmRemove(t, s)
  \/ CloseEditor(t)
  \/ \E g \in DOMAIN view[t].groups : SubmitEditor(t, g) \/ ConfirmRemoveGroup(t, g)
  \/ \E n \in Names : SubmitGroup(t, n)
  \/ \E g \in DOMAIN view[t].groups, n \in Names : SaveRename(t, g, n)

OpStep(o) ==
  \/ SymbolValid(o) \/ SymbolInvalid(o)
  \/ Read(o) \/ NothingToSave(o) \/ Save(o) \/ SaveFails(o)
  \/ ObserveOwn(o) \/ ObserveOther(o) \/ SaveMerged(o) \/ Retry(o) \/ GiveUp(o)
  \/ Return(o) \/ Reject(o)

WatchNext == \/ \E t \in Tabs : UserStep(t) \/ DeliverStorageEvent(t)
             \/ \E o \in Ops : OpStep(o)

WatchSpec == WatchInit /\ [][WatchNext]_watchVars

-----------------------------------------------------------------------------
WatchTypeOK ==
  /\ store.kind \in {"absent", "legacy", "v2"} /\ store.rev \in Nat
  /\ holder \in Ops \cup {Nobody}
  /\ page \in [Tabs -> Pages \cup {"unopened", "closed"}]
  /\ stage \in [Ops -> Stages]
  /\ \A o \in Ops : /\ request[o].kind \in Kinds \cup {"none"}
                    /\ request[o].by \in Tabs \cup {Nobody}
                    /\ tries[o] \in 0..Attempts
                    /\ ~locks => holder = Nobody

StoreAnswer(o) == CASE stage[o] \in {"idle", "validating"}                  -> "none"
                    [] stage[o] \in {"returned", "done"}                    -> "applied"
                    [] stage[o] \in {"rejected", "failed", "dropped"}       -> "refused"
                    [] OTHER                                                -> "open"

Promise == INSTANCE WatchlistStore WITH
             exclusive <- locks, disk <- store, request <- request,
             answer <- [o \in Ops |-> StoreAnswer(o)]
StorePromise == Promise!Spec

\* Once everything has settled, every workbench page shows what is stored.
Quiet == /\ \A o \in Ops : ~Live(o)
         /\ \A t \in Tabs : queue[t] = <<>>
PagesConverge ==
  locks /\ Quiet /\ store.kind = "v2" =>
    \A t \in Tabs : page[t] = "screener" => view[t] = Parsed(store, t)

\* Whatever tabs interleave, fail or close, a symbol stays in the list until a
\* user asks to remove it: with Web Locks the symbols of the first list and
\* those whose addition was answered as applied; without them the symbols of
\* the first list, which no migration, merge or retry loses.
SymbolsKept == /\ kept \subseteq DOMAIN store.items
               /\ locks => added \subseteq DOMAIN store.items

\* watchlist.ts:459 on the way without Web Locks: every conflict is replayed
\* on the newest snapshot, which keeps a whole stale list from overwriting
\* it.  An addition that was answered as applied would then stay.
AdditionsKept == added \subseteq DOMAIN store.items

\* Wherever a list is stored or shown, the group of each item exists, although
\* one tab may remove a group while another moves an item into it.
ItemsHaveGroups == GroupsExist(store) /\ \A t \in Tabs : GroupsExist(view[t])
=============================================================================
