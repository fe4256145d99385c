---------------------------- MODULE WatchlistProofs ----------------------------
(***************************************************************************)
(* Watchlist implements WatchlistStore: with Web Locks every mutation is   *)
(* applied to the stored list as it stands, for any number of tabs, calls, *)
(* symbols and names and whatever the list holds at first.                 *)
(***************************************************************************)
EXTENDS Watchlist, TLAPS

\* Both modules take the mutators from WatchlistOps.
LEMMA SameOps ==
  /\ \A disk, who : Promise!Parsed(disk, who) = Parsed(disk, who)
  /\ \A state : Promise!Content(state) = Content(state)
  /\ \A state : Promise!V2(state) = V2(state)
  /\ \A o, n : Promise!Stamp(o, n) = Stamp(o, n)
  BY DEF Promise!Parsed, Parsed, Promise!Content, Content, Promise!V2, V2,
         Promise!Stamp, Stamp

LEMMA SameEffect ==
  \A r, state, disk, stamp :
    Promise!Effect(r, state, disk, stamp) = Effect(r, state, disk, stamp)
<1>1. \A list : Promise!Normalized(list) = Normalized(list)
  BY DEF Promise!Normalized, Normalized, Promise!Rehomed, Rehomed
<1>2. \A list, r, stamp : Promise!Upserted(list, r, stamp) = Upserted(list, r, stamp)
  BY DEF Promise!Upserted, Upserted, Promise!With, With
<1>3. \A list, r, stamp : Promise!AddItem(list, r, stamp) = AddItem(list, r, stamp)
  BY <1>2 DEF Promise!AddItem, AddItem
<1>4. \A list, r, stamp : Promise!SaveItem(list, r, stamp) = SaveItem(list, r, stamp)
  BY <1>2 DEF Promise!SaveItem, SaveItem, Promise!AsOpened, AsOpened
<1>5. \A f, S : Promise!Restrict(f, S) = Restrict(f, S)
  BY DEF Promise!Restrict, Restrict
<1>6. \A list, r : Promise!RemoveItem(list, r) = RemoveItem(list, r)
  BY <1>5 DEF Promise!RemoveItem, RemoveItem
<1>7. \A list, r : Promise!AddGroup(list, r) = AddGroup(list, r)
  BY DEF Promise!AddGroup, AddGroup, Promise!FreeId, FreeId,
         Promise!Cardinality, Cardinality, Promise!IsFiniteSet, IsFiniteSet
<1>8. \A list, r : Promise!RenameGroup(list, r) = RenameGroup(list, r)
  BY DEF Promise!RenameGroup, RenameGroup
<1>9. \A groups, key : Promise!Renumbered(groups, key) = Renumbered(groups, key)
  BY DEF Promise!Renumbered, Renumbered, Promise!Cardinality, Cardinality,
         Promise!IsFiniteSet, IsFiniteSet
<1>10. \A list, r, stamp : Promise!RemoveGroup(list, r, stamp) = RemoveGroup(list, r, stamp)
  BY <1>5, <1>9 DEF Promise!RemoveGroup, RemoveGroup
<1>11. \A list, disk, rev, r, stamp :
         Promise!Migrate(list, disk, rev, r, stamp) = Migrate(list, disk, rev, r, stamp)
  BY DEF Promise!Migrate, Migrate
<1>12. \A list, r, disk, rev, stamp :
         Promise!Mutated(list, r, disk, rev, stamp) = Mutated(list, r, disk, rev, stamp)
  BY <1>3, <1>4, <1>6, <1>7, <1>8, <1>10, <1>11 DEF Promise!Mutated, Mutated
<1>13. QED
  BY <1>1, <1>12, SameOps DEF Promise!Effect, Effect

-----------------------------------------------------------------------------
(* What the steps of a user come to: closing the tab, asking for one more  *)
(* mutation, or nothing that a mutation sees.                              *)

Asks(o, r, first) ==
  /\ Issue(o, r, first)
  /\ first \in {"validating", "waiting"}
  /\ r.kind \in Kinds /\ r.by \in Tabs
  /\ r.kind = "remove" => r.sym \notin kept' \cup added'
  /\ first = "validating" => r.kind = "add"
  /\ kept' \subseteq kept /\ added' \subseteq added
  /\ UNCHANGED <<locks, store, holder>>

LEMMA UserSteps ==
  ASSUME NEW t \in Tabs, UserStep(t) \/ DeliverStorageEvent(t)
  PROVE  \/ ClosePage(t)
         \/ \E o \in Ops : \E r, first : Asks(o, r, first)
         \/ UNCHANGED <<locks, store, kept, added, holder, opVars>>
<1>1. ASSUME NEW r, NEW first \in {"validating", "waiting"}, Ask(t, r, first),
             r.kind \in Kinds, DOMAIN r = DOMAIN NoRequest,
             first = "validating" => r.kind = "add"
      PROVE  \E o \in Ops : \E q, f : Asks(o, q, f)
  <2>1. PICK o \in Ops : Issue(o, [r EXCEPT !.by = t], first)
    BY <1>1 DEF Ask
  <2>2. Asks(o, [r EXCEPT !.by = t], first)
    BY <1>1, <2>1 DEF Ask, Asks, NoRequest
  <2>3. QED
    BY <2>2
<1>2. CASE \E p \in Pages : OpenPage(t, p)
  BY <1>2 DEF OpenPage, Asks, NoRequest, Kinds
<1>3. CASE ClosePage(t)
  BY <1>3
<1>4. CASE \E s \in WatchSymbols : StartAdd(t, s) \/ OpenEditor(t, s) \/ ConfirmRemove(t, s)
  BY <1>1, <1>4 DEF StartAdd, OpenEditor, ConfirmRemove, NoRequest, Kinds
<1>5. CASE CloseEditor(t)
  BY <1>5 DEF CloseEditor
<1>6. CASE \E g \in DOMAIN view[t].groups : SubmitEditor(t, g) \/ ConfirmRemoveGroup(t, g)
  BY <1>1, <1>6 DEF SubmitEditor, ConfirmRemoveGroup, NoRequest, Kinds
<1>7. CASE \E n \in Names : SubmitGroup(t, n)
  BY <1>1, <1>7 DEF SubmitGroup, NoRequest, Kinds
<1>8. CASE \E g \in DOMAIN view[t].groups, n \in Names : SaveRename(t, g, n)
  BY <1>1, <1>8 DEF SaveRename, NoRequest, Kinds
<1>9. CASE DeliverStorageEvent(t)
  BY <1>9 DEF DeliverStorageEvent
<1>10. QED
  BY <1>2, <1>3, <1>4, <1>5, <1>6, <1>7, <1>8, <1>9 DEF UserStep

\* A step is a user's, a tab's that is told of a change, or a call's.
LEMMA Steps ==
  ASSUME [WatchNext]_watchVars
  PROVE  \/ \E t \in Tabs : ClosePage(t)
         \/ \E o \in Ops : \E r, first : Asks(o, r, first)
         \/ \E o \in Ops : OpStep(o)
         \/ UNCHANGED <<locks, store, kept, added, holder, opVars>>
<1>1. CASE \E t \in Tabs : UserStep(t) \/ DeliverStorageEvent(t)
  BY <1>1, UserSteps
<1>2. CASE \E o \in Ops : OpStep(o)
  BY <1>2
<1>3. CASE UNCHANGED watchVars
  BY <1>3 DEF watchVars
<1>4. QED
  BY <1>1, <1>2, <1>3 DEF WatchNext

-----------------------------------------------------------------------------
(* With Web Locks, what a call has read is what is stored until it writes: *)
(* whoever is between its reading and its writing holds the lock.          *)

Shape == /\ stage \in [Ops -> Stages]
         /\ DOMAIN request = Ops /\ DOMAIN base = Ops /\ DOMAIN desired = Ops
         /\ DOMAIN saved = Ops

ReadFresh(o) ==
  stage[o] = "mutating" =>
    /\ holder = o
    /\ base[o] = Parsed(store, o)
    /\ desired[o] = Effect(request[o], base[o], store, Stamp(o, 1))

LockInv ==
  /\ Shape
  /\ locks => \A o \in Ops : /\ ReadFresh(o)
                             /\ stage[o] \notin {"written", "merging", "merged"}

LEMMA LockInit == WatchInit => LockInv
  BY DEF WatchInit, LockInv, Shape, ReadFresh, Stages, Over

LEMMA LockStep == LockInv /\ [WatchNext]_watchVars => LockInv'
<1> SUFFICES ASSUME LockInv, [WatchNext]_watchVars
             PROVE  LockInv'
  OBVIOUS
<1> USE DEF LockInv, Shape, ReadFresh
<1>1. CASE \E t \in Tabs : ClosePage(t)
  BY <1>1 DEF ClosePage, Forget, By, Live, Over, Stages
<1>2. CASE \E o \in Ops : \E r, first : Asks(o, r, first)
  BY <1>2 DEF Asks, Issue, Stages
<1>3. ASSUME NEW o \in Ops, OpStep(o)
      PROVE  LockInv'
  <2>1. CASE SymbolValid(o)
    BY <2>1 DEF SymbolValid, Stages
  <2>2. CASE SymbolInvalid(o)
    BY <2>2 DEF SymbolInvalid, Forget, Stages, Over
  <2>3. CASE Read(o)
    BY <2>3, NobodyAssumption DEF Read, RunMutator, LockFree, HeldBy, Stages
  <2>4. CASE NothingToSave(o)
    BY <2>4 DEF NothingToSave, Advance, Stages
  <2>5. CASE Save(o)
    BY <2>5 DEF Save, Advance, Put, Stages
  <2>6. CASE SaveFails(o)
    BY <2>6 DEF SaveFails, Stages
  <2>7. CASE ObserveOwn(o)
    BY <2>7 DEF ObserveOwn, Advance, Stages
  <2>8. CASE ObserveOther(o)
    BY <2>8 DEF ObserveOther, Advance, Stages
  <2>9. CASE SaveMerged(o)
    BY <2>9 DEF SaveMerged, Advance, Put, Stages
  <2>10. CASE Retry(o)
    BY <2>10 DEF Retry, RunMutator, Stages
  <2>11. CASE GiveUp(o)
    BY <2>11 DEF GiveUp, Stages
  <2>12. CASE Return(o)
    BY <2>12 DEF Return, Forget, Stages, Over
  <2>13. CASE Reject(o)
    BY <2>13 DEF Reject, Forget, Stages, Over
  <2>14. QED
    BY <1>3, <2>1, <2>2, <2>3, <2>4, <2>5, <2>6, <2>7, <2>8, <2>9, <2>10,
       <2>11, <2>12, <2>13 DEF OpStep
<1>4. CASE UNCHANGED <<locks, store, kept, added, holder, opVars>>
  BY <1>4 DEF opVars
<1>5. QED
  BY <1>1, <1>2, <1>3, <1>4, Steps

\* The browser's Web Locks neither come nor go while the pages are open.
LEMMA LocksStay == [WatchNext]_watchVars => locks' = locks
<1> SUFFICES ASSUME [WatchNext]_watchVars
             PROVE  locks' = locks
  OBVIOUS
<1>1. ASSUME NEW o \in Ops, OpStep(o)
      PROVE  locks' = locks
  BY <1>1 DEF OpStep, SymbolValid, SymbolInvalid, Read, NothingToSave, Save, SaveFails,
       ObserveOwn, ObserveOther, SaveMerged, Retry, GiveUp, Return, Reject
<1>2. QED
  BY <1>1, Steps DEF ClosePage, Asks

-----------------------------------------------------------------------------
(* The refinement: a step of the pages is a step of WatchlistStore.        *)

Answers == [o \in Ops |-> StoreAnswer(o)]

LEMMA PromiseInit == WatchInit => Promise!Init
  BY DEF WatchInit, Promise!Init, StoreAnswer

LEMMA PromiseStep ==
  LockInv /\ [WatchNext]_watchVars => [Promise!Next]_Promise!storeVars
<1> SUFFICES ASSUME LockInv, [WatchNext]_watchVars
             PROVE  Promise!Next
  OBVIOUS
<1> USE DEF LockInv, Shape, StoreAnswer, Stages, Over
<1>1. locks' = locks
  BY LocksStay
<1>2. CASE ~locks
  BY <1>1, <1>2 DEF Promise!Next, Promise!Unprotected
<1>3. CASE locks
  <2> USE <1>1, <1>3 DEF Promise!Steady
  <2>1. CASE \E t \in Tabs : ClosePage(t)
    <3>1. PICK t \in Tabs : ClosePage(t)
      BY <2>1
    <3>2. Promise!Steady
      BY <3>1 DEF ClosePage, Forget
    <3> DEFINE os == {o \in By(t) : StoreAnswer(o) \in {"none", "open"}}
    <3>3. CASE os = {}
      <4>1. UNCHANGED <<locks, store, Answers>>
        BY <3>1, <3>3 DEF ClosePage, By, Live, Answers
      <4>2. QED
        BY <3>2, <4>1 DEF Promise!Next, Answers
    <3>4. CASE os # {}
      <4>1. Promise!Refuse(os)
        BY <3>1, <3>4 DEF ClosePage, By, Live, Promise!Refuse, Promise!Answer
      <4>2. os \in SUBSET Ops
        BY DEF By
      <4> HIDE DEF os, StoreAnswer
      <4>3. QED
        BY <3>2, <4>1, <4>2 DEF Promise!Next
    <3>5. QED
      BY <3>3, <3>4
  <2>2. CASE \E o \in Ops : \E r, first : Asks(o, r, first)
    <3>0. PICK o \in Ops : \E r, first : Asks(o, r, first)
      BY <2>2
    <3>1. PICK r, first : Asks(o, r, first)
      BY <3>0
    <3>2. Promise!Steady
      BY <3>1 DEF Asks, Issue
    <3>3. CASE first = "validating"
      BY <3>1, <3>2, <3>3 DEF Asks, Issue, Promise!Next
    <3>4. CASE first = "waiting"
      <4>1. Promise!Ask(o)
        BY <3>1, <3>4 DEF Asks, Issue, Promise!Ask, Promise!Answer
      <4>2. QED
        BY <3>2, <4>1 DEF Promise!Next
    <3>5. QED
      BY <3>1, <3>3, <3>4 DEF Asks
  <2>3. ASSUME NEW o \in Ops, OpStep(o)
        PROVE  Promise!Next
    <3>1. CASE SymbolValid(o)
      <4>1. Promise!Ask(o) /\ Promise!Steady
        BY <3>1 DEF SymbolValid, Promise!Ask, Promise!Answer
      <4>2. QED
        BY <4>1 DEF Promise!Next
    <3>2. CASE SymbolInvalid(o) \/ SaveFails(o)
      <4>1. Promise!Refuse({o}) /\ Promise!Steady
        BY <3>2 DEF SymbolInvalid, SaveFails, Forget, Promise!Refuse, Promise!Answer
      <4>2. QED
        BY <4>1 DEF Promise!Next
    <3>3. CASE Read(o) \/ Return(o) \/ Reject(o)
      <4>1. UNCHANGED <<locks, store, Answers>> /\ Promise!Steady
        BY <3>3 DEF Read, Return, Reject, RunMutator, Forget, Answers
      <4>2. QED
        BY <4>1 DEF Promise!Next, Answers
    <3>4. CASE NothingToSave(o) \/ Save(o)
      <4>1. /\ base[o] = Parsed(store, o)
            /\ desired[o] = Effect(request[o], base[o], store, Stamp(o, 1))
        BY <3>4 DEF NothingToSave, Save, ReadFresh
      <4>2. store' = IF desired[o] = Content(base[o]) /\ store = V2(base[o])
                     THEN store
                     ELSE V2([rev |-> base[o].rev + 1, writer |-> request[o].by,
                              groups |-> desired[o].groups, items |-> desired[o].items])
        BY <3>4 DEF NothingToSave, Save, Same, Put, Next1
      <4>3. Promise!Answer({o}, {"open"}, "applied") /\ Promise!Steady
        BY <3>4 DEF NothingToSave, Save, Advance, Promise!Answer
      <4>4. Promise!Apply(o)
        BY <4>1, <4>2, <4>3, SameOps, SameEffect DEF Promise!Apply
      <4>5. QED
        BY <4>3, <4>4 DEF Promise!Next
    <3>5. QED
      BY <2>3, <3>1, <3>2, <3>3, <3>4
         DEF OpStep, ObserveOwn, ObserveOther, SaveMerged, Retry, GiveUp
  <2>4. CASE UNCHANGED <<locks, store, kept, added, holder, opVars>>
    BY <2>4 DEF opVars, Promise!Next
  <2>5. QED
    BY <2>1, <2>2, <2>3, <2>4, Steps
<1>4. QED
  BY <1>2, <1>3

\* With Web Locks every mutation is applied to the list as it is stored when
\* its turn comes, at most once, with the next revision, and whoever is told
\* that it was saved can rely on it: lib/watchlist.ts implements
\* WatchlistStore.
THEOREM WatchlistImplementsStore == WatchSpec => StorePromise
<1>1. WatchInit => LockInv /\ Promise!Init
  BY LockInit, PromiseInit
<1>2. LockInv /\ [WatchNext]_watchVars => LockInv' /\ [Promise!Next]_Promise!storeVars
  BY LockStep, PromiseStep
<1>3. QED
  BY <1>1, <1>2, PTL DEF WatchSpec, StorePromise, Promise!Spec

-----------------------------------------------------------------------------
(* No symbol is lost.  With or without locks, what a call is about to      *)
(* write has every symbol of the first list that nobody asked to remove.   *)
(* With locks it writes the effect of its request on the stored list, and  *)
(* so has what was added as well.                                          *)

\* A mutator drops no symbol but the one it is asked to remove.
LEMMA EffectKeeps ==
  ASSUME NEW r, NEW state, NEW d, NEW stamp, NEW s \in DOMAIN state.items,
         r.kind = "remove" => s # r.sym
  PROVE  s \in DOMAIN Effect(r, state, d, stamp).items
<1> DEFINE list == Mutated(Content(state), r, d, state.rev, stamp)
<1>1. s \in DOMAIN Upserted(Content(state), r, stamp).items
  BY DEF Upserted, With, Content
<1>2. s \in DOMAIN Content(state).items
  BY DEF Content
<1>3. s \in DOMAIN AddItem(Content(state), r, stamp).items
  BY <1>1, <1>2 DEF AddItem
<1>4. s \in DOMAIN SaveItem(Content(state), r, stamp).items
  BY <1>1, <1>2 DEF SaveItem
<1>5. r.kind = "remove" => s \in DOMAIN RemoveItem(Content(state), r).items
  BY <1>2 DEF RemoveItem, Content, Restrict
<1>6. s \in DOMAIN AddGroup(Content(state), r).items
  BY DEF AddGroup, Content
<1>7. s \in DOMAIN RenameGroup(Content(state), r).items
  BY DEF RenameGroup, Content
<1>8. s \in DOMAIN RemoveGroup(Content(state), r, stamp).items
  BY DEF RemoveGroup, Content
<1>9. s \in DOMAIN Migrate(Content(state), d, state.rev, r, stamp).items
  BY DEF Migrate, Content
<1>10. s \in DOMAIN list.items
  BY <1>2, <1>3, <1>4, <1>5, <1>6, <1>7, <1>8, <1>9 DEF Mutated
<1> HIDE DEF list
<1>11. s \in DOMAIN Normalized(list).items
  BY <1>10 DEF Normalized
<1>12. QED
  BY <1>11 DEF Effect, list

\* An add leaves its symbol in the list.
LEMMA EffectAdds ==
  ASSUME NEW r, NEW state, NEW d, NEW stamp, r.kind = "add"
  PROVE  r.sym \in DOMAIN Effect(r, state, d, stamp).items
<1> DEFINE list == Mutated(Content(state), r, d, state.rev, stamp)
<1>1. list = AddItem(Content(state), r, stamp)
  BY DEF Mutated
<1>2. r.sym \in DOMAIN list.items
  BY <1>1 DEF AddItem, Upserted, With, Content
<1> HIDE DEF list
<1>3. r.sym \in DOMAIN Normalized(list).items
  BY <1>2 DEF Normalized
<1>4. QED
  BY <1>3 DEF Effect, list

\* A merge drops no symbol that both the writer's list and the stored one have.
LEMMA MergedKeeps ==
  ASSUME NEW b, NEW d, NEW latest,
         NEW s \in DOMAIN d.items \cap DOMAIN latest.items
  PROVE  s \in DOMAIN Merged(b, d, latest).items
<1>1. s \in DOMAIN Redone(b.items, d.items, latest.items)
  BY DEF Redone
<1>2. QED
  BY <1>1 DEF Merged, Normalized

Holds(os) == \A o \in os : kept \subseteq DOMAIN desired[o].items
Writers   == {o \in Ops : stage[o] \in {"mutating", "written", "merging"}}

Removal(o) == /\ request[o].kind = "remove"
              /\ stage[o] \in {"waiting", "mutating", "written", "merging", "merged"}

KeptInv ==
  /\ Shape
  /\ kept \subseteq DOMAIN store.items
  /\ locks => added \subseteq DOMAIN store.items
  /\ \A o \in Ops : stage[o] = "validating" => request[o].kind = "add"
  /\ \A o \in Ops : Removal(o) => request[o].sym \notin kept /\ request[o].sym \notin added
  /\ Holds(Writers)

LEMMA KeptInit == WatchInit => KeptInv
  BY DEF WatchInit, KeptInv, Shape, Stages, Over, Holds, Writers, Removal

\* The mutator's run on the stored list, in Read and in Retry.
LEMMA RunKeeps ==
  ASSUME KeptInv, NEW o \in Ops, NEW n, RunMutator(o, n),
         stage[o] \in {"waiting", "merged"}, UNCHANGED <<store, kept>>
  PROVE  kept' \subseteq DOMAIN desired'[o].items
<1> SUFFICES ASSUME NEW s \in kept
             PROVE  s \in DOMAIN desired'[o].items
  OBVIOUS
<1>1. s \in DOMAIN Parsed(store, o).items
  BY DEF KeptInv, Parsed
<1>2. request[o].kind = "remove" => s # request[o].sym
  BY DEF KeptInv, Removal
<1>3. desired'[o] = Effect(request[o], Parsed(store, o), store, Stamp(o, n))
  BY DEF RunMutator, KeptInv, Shape
<1>4. QED
  BY <1>1, <1>2, <1>3, EffectKeeps

\* With locks, what a call is about to write has every symbol that was added
\* and the one it adds itself.
LEMMA WritesAdded ==
  ASSUME LockInv, KeptInv, locks, NEW o \in Ops, stage[o] = "mutating"
  PROVE  /\ added \subseteq DOMAIN desired[o].items
         /\ request[o].kind = "add" => request[o].sym \in DOMAIN desired[o].items
<1>1. /\ base[o] = Parsed(store, o)
      /\ desired[o] = Effect(request[o], base[o], store, Stamp(o, 1))
  BY DEF LockInv, ReadFresh
<1>2. ASSUME NEW s \in added
      PROVE  s \in DOMAIN desired[o].items
  <2>1. s \in DOMAIN base[o].items
    BY <1>1, <1>2 DEF KeptInv, Parsed
  <2>2. request[o].kind = "remove" => s # request[o].sym
    BY <1>2 DEF KeptInv, Removal
  <2>3. QED
    BY <1>1, <2>1, <2>2, EffectKeeps
<1>3. QED
  BY <1>1, <1>2, EffectAdds

\* What is answered as applied joins what was added, unless its removal is
\* under way.
LEMMA AppliedAdds ==
  ASSUME NEW o \in Ops, Applied(o)
  PROVE  /\ added' \subseteq added \cup {request[o].sym}
         /\ request[o].kind # "add" => added' = added
         /\ \A q \in Ops : Removal(q) /\ request[q].sym \in added'
                               => request[q].sym \in added
  BY DEF Applied, Removing, Removal

LEMMA KeptStep == LockInv /\ KeptInv /\ [WatchNext]_watchVars => KeptInv'
<1> SUFFICES ASSUME LockInv, KeptInv, [WatchNext]_watchVars
             PROVE  KeptInv'
  OBVIOUS
<1>0. Shape' /\ locks' = locks
  BY LockStep, LocksStay DEF LockInv
<1> USE <1>0 DEF KeptInv, Shape, Holds, Writers, Removal
<1>1. CASE \E t \in Tabs : ClosePage(t)
  BY <1>1 DEF ClosePage, Forget, By, Live, Over, Stages
<1>2. CASE \E o \in Ops : \E r, first : Asks(o, r, first)
  BY <1>2 DEF Asks, Issue, Stages
<1>3. ASSUME NEW o \in Ops, OpStep(o)
      PROVE  KeptInv'
  <2>0. CASE SymbolValid(o)
    <3>1. PICK g : request' = [request EXCEPT ![o] = [@ EXCEPT !.group = g]]
      BY <2>0 DEF SymbolValid
    <3>2. request'[o].kind = request[o].kind /\ request'[o].sym = request[o].sym
      BY <3>1
    <3>3. request[o].kind = "add"
      BY <2>0 DEF SymbolValid
    <3>4. QED
      BY <2>0, <3>1, <3>2, <3>3 DEF SymbolValid
  <2>1. CASE SymbolInvalid(o) \/ SaveFails(o) \/ GiveUp(o) \/ Return(o) \/ Reject(o)
    BY <2>1 DEF SymbolInvalid, SaveFails, GiveUp, Return, Reject, Forget
  <2>2. CASE Read(o) \/ Retry(o)
    <3>1. \E n : RunMutator(o, n) /\ UNCHANGED <<store, kept, added>>
          /\ stage[o] \in {"waiting", "merged"}
      BY <2>2 DEF Read, Retry
    <3>2. kept' \subseteq DOMAIN desired'[o].items
      BY <3>1, RunKeeps
    <3>3. QED
      BY <3>1, <3>2 DEF RunMutator
  <2>3. CASE NothingToSave(o) \/ ObserveOwn(o)
    <3>1. Applied(o) /\ UNCHANGED <<store, kept, request, desired>>
      BY <2>3 DEF NothingToSave, ObserveOwn
    <3>2. stage' = [stage EXCEPT ![o] = "returned"]
      BY <2>3 DEF NothingToSave, ObserveOwn, Advance
    <3>3. ASSUME locks PROVE added' \subseteq DOMAIN store.items
      <4>1. stage[o] = "mutating" /\ desired[o].items = store.items
        BY <2>3, <3>3 DEF NothingToSave, ObserveOwn, LockInv, ReadFresh, Same, Content, V2, Parsed
      <4>2. QED
        BY <3>1, <3>3, <4>1, WritesAdded, AppliedAdds
    <3>4. QED
      BY <3>1, <3>2, <3>3, AppliedAdds
  <2>4. CASE Save(o)
    <3>1. store'.items = desired[o].items
      BY <2>4 DEF Save, Put, V2, Next1
    <3>2. /\ stage' = [stage EXCEPT ![o] = IF locks THEN "returned" ELSE "written"]
          /\ UNCHANGED <<kept, request, desired>> /\ stage[o] = "mutating"
          /\ IF locks THEN Applied(o) ELSE UNCHANGED added
      BY <2>4 DEF Save, Advance
    <3>3. locks => added' \subseteq DOMAIN store'.items
      BY <3>1, <3>2, WritesAdded, AppliedAdds
    <3>4. kept \subseteq DOMAIN store'.items
      BY <3>1, <3>2
    <3>5. QED
      BY <3>2, <3>3, <3>4, AppliedAdds
  <2>5. CASE SaveMerged(o)
    <3>1. store' = store \/ store'.items = desired[o].items
      BY <2>5 DEF SaveMerged, Put, V2, Next1
    <3>2. ~locks
      BY <2>5 DEF SaveMerged, LockInv
    <3>3. QED
      BY <2>5, <3>1, <3>2 DEF SaveMerged, Advance
  <2>6. CASE ObserveOther(o)
    <3>1. \A s \in kept : s \in DOMAIN desired[o].items \cap DOMAIN Parsed(store, o).items
      BY <2>6 DEF ObserveOther, Parsed
    <3>2. desired'[o] = Merged(base[o], desired[o], Parsed(store, o))
      BY <2>6 DEF ObserveOther
    <3>3. kept \subseteq DOMAIN desired'[o].items
      BY <3>1, <3>2, MergedKeeps
    <3>4. QED
      BY <2>6, <3>3 DEF ObserveOther, Advance
  <2>7. QED
    BY <1>3, <2>0, <2>1, <2>2, <2>3, <2>4, <2>5, <2>6 DEF OpStep
<1>4. CASE UNCHANGED <<locks, store, kept, added, holder, opVars>>
  BY <1>4 DEF opVars
<1>5. QED
  BY <1>1, <1>2, <1>3, <1>4, Steps

\* With locks no symbol leaves the list unless a user asked for its removal,
\* one that was added no more than one that was there.  Without locks this
\* holds of the first list's symbols, however pages merge, retry, fail or are
\* closed halfway; AdditionsKept is what does not hold there.
THEOREM SymbolsAreKept == WatchSpec => []SymbolsKept
<1>1. WatchInit => LockInv /\ KeptInv
  BY LockInit, KeptInit
<1>2. LockInv /\ KeptInv /\ [WatchNext]_watchVars => LockInv' /\ KeptInv'
  BY LockStep, KeptStep
<1>3. KeptInv => SymbolsKept
  BY DEF KeptInv, SymbolsKept
<1>4. QED
  BY <1>1, <1>2, <1>3, PTL DEF WatchSpec

-----------------------------------------------------------------------------
(* Wherever a list is, in the store, in a page, on its way or in a call,   *)
(* it has the default group and the group of each of its items.            *)

Good(list) == Watch \in DOMAIN list.groups /\ GroupsExist(list)

\* What is normalised is good as soon as the default group is there.
LEMMA NormalizedGood ==
  ASSUME NEW list, Watch \in DOMAIN list.groups
  PROVE  Good(Normalized(list))
  BY DEF Good, GroupsExist, Normalized, Rehomed

LEMMA EffectGood ==
  ASSUME NEW r, NEW state, NEW d, NEW stamp, Good(state)
  PROVE  Good(Effect(r, state, d, stamp))
<1> DEFINE list == Mutated(Content(state), r, d, state.rev, stamp)
<1>1. Watch \in DOMAIN Content(state).groups
  BY DEF Content, Good
<1>2. /\ Watch \in DOMAIN AddItem(Content(state), r, stamp).groups
      /\ Watch \in DOMAIN SaveItem(Content(state), r, stamp).groups
  BY <1>1 DEF AddItem, SaveItem, Upserted, Content
<1>3. Watch \in DOMAIN RemoveItem(Content(state), r).groups
  BY <1>1 DEF RemoveItem, Content
<1>4. /\ Watch \in DOMAIN AddGroup(Content(state), r).groups
      /\ Watch \in DOMAIN RenameGroup(Content(state), r).groups
  BY <1>1 DEF AddGroup, RenameGroup, Content
<1>5. Watch \in DOMAIN RemoveGroup(Content(state), r, stamp).groups
  BY <1>1 DEF RemoveGroup, Renumbered, Restrict, Content
<1>6. Watch \in DOMAIN Migrate(Content(state), d, state.rev, r, stamp).groups
  BY <1>1 DEF Migrate, Content
<1>7. Watch \in DOMAIN list.groups
  BY <1>1, <1>2, <1>3, <1>4, <1>5, <1>6 DEF Mutated
<1> HIDE DEF list
<1>8. Good(Normalized(list))
  BY <1>7, NormalizedGood
<1>9. QED
  BY <1>8 DEF Effect, list

LEMMA MergedGood ==
  ASSUME NEW b, NEW d, NEW latest, Good(latest), Watch \in DOMAIN d.groups
  PROVE  Good(Merged(b, d, latest))
<1> DEFINE groups == Redone(b.groups, d.groups, latest.groups)
<1>1. Watch \in DOMAIN groups
  BY DEF Redone, Good
<1> HIDE DEF groups
<1>2. \A key, items : Good(Normalized([groups |-> Renumbered(groups, key), items |-> items]))
  <2>1. \A key : Watch \in DOMAIN Renumbered(groups, key)
    BY <1>1 DEF Renumbered
  <2>2. QED
    BY <2>1, NormalizedGood
<1>3. QED
  BY <1>2 DEF Merged, groups

LEMMA ParsedGood ==
  ASSUME NEW d, NEW who, Good(d)
  PROVE  Good(Parsed(d, who))
  BY DEF Parsed, Good, GroupsExist

LEMMA V2Good ==
  ASSUME NEW state, Good(state)
  PROVE  Good(V2(state))
  BY DEF V2, Good, GroupsExist

GoodQueue(q) == \E S : q \in Seq(S) /\ \A list \in S : Good(list)

ListInv ==
  /\ DOMAIN view = Tabs /\ DOMAIN queue = Tabs
  /\ Good(store)
  /\ \A t \in Tabs : Good(view[t]) /\ GoodQueue(queue[t])
  /\ \A o \in Ops : Good(base[o]) /\ Good(desired[o]) /\ Good(saved[o])

LEMMA EmptyGood == GoodQueue(<<>>)
<1> DEFINE S == {NoState}
<1>1. <<>> \in Seq(S)
  OBVIOUS
<1>2. \A list \in S : Good(list)
  BY DEF NoState, Parsed, Absent, DefaultGroups, Good, GroupsExist
<1> HIDE DEF S
<1>3. QED
  BY <1>1, <1>2 DEF GoodQueue

LEMMA ListInit == WatchInit => ListInv
<1> SUFFICES ASSUME WatchInit PROVE ListInv
  OBVIOUS
<1>1. Good(store)
  BY FirstAssumption DEF WatchInit, Good
<1>2. Good(NoState) /\ Good(NoList)
  BY DEF NoState, NoList, Parsed, Content, Absent, DefaultGroups, Good, GroupsExist
<1>3. QED
  BY <1>1, <1>2, EmptyGood DEF WatchInit, ListInv

\* A page that is told of a good list shows a good one.
LEMMA ToldGood ==
  ASSUME ListInv, NEW t, NEW next, NEW now, Good(next), Good(now), Told(t, next, now)
  PROVE  DOMAIN view' = Tabs /\ \A u \in Tabs : Good(view'[u])
  BY DEF ListInv, Told, SyncView

\* A write leaves good lists in the store, in the pages and on their way.
LEMMA PutGood ==
  ASSUME ListInv, NEW o \in Ops, NEW state, Good(state), Put(o, state)
  PROVE  /\ DOMAIN view' = Tabs /\ DOMAIN queue' = Tabs /\ Good(store')
         /\ \A u \in Tabs : Good(view'[u]) /\ GoodQueue(queue'[u])
<1>1. Good(store')
  BY V2Good DEF Put
<1>2. DOMAIN view' = Tabs /\ \A u \in Tabs : Good(view'[u])
  BY ToldGood DEF Put
<1>3. ASSUME NEW u \in Tabs
      PROVE  GoodQueue(queue'[u])
  <2>1. PICK S : queue[u] \in Seq(S) /\ \A list \in S : Good(list)
    BY DEF ListInv, GoodQueue
  <2>2. Append(queue[u], state) \in Seq(S \cup {state})
    <3>1. queue[u] \in Seq(S \cup {state})
      BY <2>1
    <3>2. QED
      BY <3>1
  <2>3. GoodQueue(Append(queue[u], state))
    BY <2>1, <2>2 DEF GoodQueue
  <2>4. queue'[u] \in {queue[u], Append(queue[u], state)}
    BY DEF Put
  <2>5. QED
    BY <2>3, <2>4 DEF ListInv
<1>4. QED
  BY <1>1, <1>2, <1>3 DEF Put

LEMMA TabsGood ==
  ASSUME ListInv, NEW t \in Tabs, UserStep(t) \/ DeliverStorageEvent(t)
  PROVE  /\ DOMAIN view' = Tabs /\ DOMAIN queue' = Tabs
         /\ \A u \in Tabs : Good(view'[u]) /\ GoodQueue(queue'[u])
<1>1. CASE \E p \in Pages : OpenPage(t, p)
  BY <1>1, ParsedGood DEF OpenPage, ListInv
<1>2. CASE ClosePage(t)
  <2>1. Good(NoState)
    BY DEF NoState, Parsed, Absent, DefaultGroups, Good, GroupsExist
  <2>2. QED
    BY <1>2, <2>1, EmptyGood DEF ClosePage, ListInv
<1>3. CASE DeliverStorageEvent(t)
  <2>1. PICK S : queue[t] \in Seq(S) /\ \A list \in S : Good(list)
    BY DEF ListInv, GoodQueue
  <2>2. Good(Head(queue[t])) /\ Tail(queue[t]) \in Seq(S)
    BY <1>3, <2>1 DEF DeliverStorageEvent
  <2>3. DOMAIN view' = Tabs /\ \A u \in Tabs : Good(view'[u])
    BY <1>3, <2>2, ToldGood, ParsedGood DEF DeliverStorageEvent, ListInv
  <2>4. GoodQueue(Tail(queue[t]))
    BY <2>1, <2>2 DEF GoodQueue
  <2>5. QED
    BY <1>3, <2>3, <2>4 DEF DeliverStorageEvent, ListInv
<1>4. CASE UNCHANGED <<view, queue>>
  BY <1>4 DEF ListInv
<1>5. QED
  BY <1>1, <1>2, <1>3, <1>4
     DEF UserStep, StartAdd, OpenEditor, ConfirmRemove, CloseEditor, SubmitEditor,
         ConfirmRemoveGroup, SubmitGroup, SaveRename, Ask, tabVars

LEMMA CallGood ==
  ASSUME LockInv, ListInv, NEW o \in Ops, OpStep(o)
  PROVE  ListInv'
<1> USE DEF LockInv, Shape, ListInv
<1>1. ASSUME NEW n, RunMutator(o, n), UNCHANGED <<store, view, queue>>
      PROVE  ListInv'
  <2>1. Good(Parsed(store, o))
    BY ParsedGood
  <2>2. Good(Effect(request[o], Parsed(store, o), store, Stamp(o, n)))
    BY <2>1, EffectGood
  <2>3. QED
    BY <1>1, <2>1, <2>2 DEF RunMutator
<1>2. ASSUME NEW state, Good(state), Put(o, state), saved' = [saved EXCEPT ![o] = state],
             UNCHANGED <<base, desired>>
      PROVE  ListInv'
  BY <1>2, PutGood
<1>3. ASSUME NEW q \in Ops, NEW state, Good(desired[q])
      PROVE  Good(Next1(o, state, desired[q]))
  BY <1>3 DEF Good, GroupsExist, Next1
<1>4. Good(NoState) /\ Good(NoList)
  BY DEF NoState, NoList, Parsed, Content, Absent, DefaultGroups, Good, GroupsExist
<1>5. CASE SymbolValid(o) \/ SaveFails(o) \/ GiveUp(o)
  BY <1>5 DEF SymbolValid, SaveFails, GiveUp, tabVars
<1>6. CASE SymbolInvalid(o)
  BY <1>4, <1>6 DEF SymbolInvalid, Forget, tabVars
<1>7. CASE Read(o) \/ Retry(o)
  BY <1>1, <1>7 DEF Read, Retry, tabVars
<1>8. CASE NothingToSave(o) \/ ObserveOwn(o)
  BY <1>8, ParsedGood DEF NothingToSave, ObserveOwn, Advance, tabVars
<1>9. CASE Save(o)
  BY <1>2, <1>3, <1>9 DEF Save, Advance
<1>10. CASE ObserveOther(o)
  <2>1. Good(Merged(base[o], desired[o], Parsed(store, o)))
    BY ParsedGood, MergedGood DEF Good
  <2>2. QED
    BY <1>10, <2>1, ParsedGood DEF ObserveOther, Advance, tabVars
<1>11. CASE SaveMerged(o)
  <2>1. CASE Same(saved[o], desired[o])
    BY <1>11, <2>1 DEF SaveMerged, Advance
  <2>2. CASE ~Same(saved[o], desired[o])
    BY <1>2, <1>3, <1>11, <2>2 DEF SaveMerged, Advance
  <2>3. QED
    BY <2>1, <2>2
<1>12. CASE Return(o)
  <2>1. DOMAIN view' = Tabs /\ \A u \in Tabs : Good(view'[u])
    BY <1>12 DEF Return, SyncView
  <2>2. QED
    BY <1>4, <1>12, <2>1 DEF Return, Forget
<1>13. CASE Reject(o)
  <2>1. DOMAIN view' = Tabs /\ \A u \in Tabs : Good(view'[u])
    BY <1>13, ParsedGood DEF Reject
  <2>2. QED
    BY <1>4, <1>13, <2>1 DEF Reject, Forget
<1>14. QED
  BY <1>5, <1>6, <1>7, <1>8, <1>9, <1>10, <1>11, <1>12, <1>13 DEF OpStep

LEMMA ListStep == LockInv /\ ListInv /\ [WatchNext]_watchVars => ListInv'
<1> SUFFICES ASSUME LockInv, ListInv, [WatchNext]_watchVars
             PROVE  ListInv'
  OBVIOUS
<1>1. ASSUME NEW t \in Tabs, UserStep(t) \/ DeliverStorageEvent(t)
      PROVE  ListInv'
  <2>1. /\ DOMAIN view' = Tabs /\ DOMAIN queue' = Tabs
        /\ \A u \in Tabs : Good(view'[u]) /\ GoodQueue(queue'[u])
    BY <1>1, TabsGood
  <2>2. Good(NoState) /\ Good(NoList)
    BY DEF NoState, NoList, Parsed, Content, Absent, DefaultGroups, Good, GroupsExist
  <2>3. /\ UNCHANGED store
        /\ \/ UNCHANGED <<base, desired, saved>>
           \/ Forget(By(t))
    BY <1>1 DEF UserStep, DeliverStorageEvent, OpenPage, ClosePage, StartAdd, OpenEditor,
         ConfirmRemove, CloseEditor, SubmitEditor, ConfirmRemoveGroup, SubmitGroup,
         SaveRename, Ask, Issue, opVars
  <2>4. QED
    BY <2>1, <2>2, <2>3 DEF ListInv, Forget
<1>2. CASE UNCHANGED watchVars
  BY <1>2 DEF watchVars, tabVars, opVars, ListInv
<1>3. QED
  BY <1>1, <1>2, CallGood DEF WatchNext

\* Wherever a list is stored or shown, the group of each item exists, whatever
\* groups other tabs removed while items were moved into them.
THEOREM GroupsOfItemsExist == WatchSpec => []ItemsHaveGroups
<1>1. WatchInit => LockInv /\ ListInv
  BY LockInit, ListInit
<1>2. LockInv /\ ListInv /\ [WatchNext]_watchVars => LockInv' /\ ListInv'
  BY LockStep, ListStep
<1>3. ListInv => ItemsHaveGroups
  BY DEF ListInv, ItemsHaveGroups, Good
<1>4. QED
  BY <1>1, <1>2, <1>3, PTL DEF WatchSpec

-----------------------------------------------------------------------------
(* Type correctness.                                                       *)

TypeInv ==
  /\ WatchTypeOK
  /\ DOMAIN tries = Ops
  /\ \A o \in Ops : base[o].rev \in Nat /\ saved[o].rev \in Nat

LEMMA TypeInit == WatchInit => TypeInv
  BY FirstAssumption, AttemptsAssumption
     DEF WatchInit, TypeInv, WatchTypeOK, NoState, Parsed, Absent, NoRequest, Stages, Over

LEMMA PageType ==
  ASSUME WatchTypeOK, [WatchNext]_watchVars
  PROVE  page' \in [Tabs -> Pages \cup {"unopened", "closed"}]
<1> USE DEF WatchTypeOK
<1>1. ASSUME NEW t \in Tabs, UserStep(t) \/ DeliverStorageEvent(t)
      PROVE  page' \in [Tabs -> Pages \cup {"unopened", "closed"}]
  <2>1. \/ \E p \in Pages : OpenPage(t, p)
        \/ ClosePage(t)
        \/ UNCHANGED page
    BY <1>1 DEF UserStep, DeliverStorageEvent, StartAdd, OpenEditor, ConfirmRemove,
         CloseEditor, SubmitEditor, ConfirmRemoveGroup, SubmitGroup, SaveRename, Ask, tabVars
  <2>2. QED
    BY <2>1 DEF OpenPage, ClosePage
<1>2. ASSUME NEW o \in Ops, OpStep(o)
      PROVE  UNCHANGED page
  BY <1>2 DEF OpStep, SymbolValid, SymbolInvalid, Read, NothingToSave, Save, SaveFails,
       ObserveOwn, ObserveOther, SaveMerged, Retry, GiveUp, Return, Reject, tabVars
<1>3. CASE UNCHANGED watchVars
  BY <1>3 DEF watchVars, tabVars
<1>4. QED
  BY <1>1, <1>2, <1>3 DEF WatchNext

LEMMA TypeStep == LockInv /\ TypeInv /\ [WatchNext]_watchVars => TypeInv'
<1> SUFFICES ASSUME LockInv, TypeInv, [WatchNext]_watchVars
             PROVE  TypeInv'
  OBVIOUS
<1>0. Shape' /\ page' \in [Tabs -> Pages \cup {"unopened", "closed"}]
  BY LockStep, PageType DEF LockInv, TypeInv
<1> USE <1>0 DEF LockInv, TypeInv, WatchTypeOK, Shape
<1>f. \A os : Forget(os) =>
        \A q \in Ops : /\ q \in os => /\ request'[q] = NoRequest /\ tries'[q] = 0
                                      /\ base'[q] = NoState /\ saved'[q] = NoState
                       /\ q \notin os => /\ request'[q] = request[q] /\ tries'[q] = tries[q]
                                         /\ base'[q] = base[q] /\ saved'[q] = saved[q]
  BY DEF Forget
<1>g. /\ NoState.rev \in Nat /\ 0 \in 0..Attempts
      /\ NoRequest.kind = "none" /\ NoRequest.by = Nobody
      /\ \A os : Forget(os) => DOMAIN tries' = Ops
  BY AttemptsAssumption DEF NoState, Parsed, Absent, NoRequest, Forget
<1>1. CASE \E t \in Tabs : ClosePage(t)
  <2>1. PICK t \in Tabs : ClosePage(t)
    BY <1>1
  <2>2. Forget(By(t)) /\ UNCHANGED <<locks, store>> /\ holder' \in {holder, Nobody}
    BY <2>1 DEF ClosePage
  <2>3. QED
    BY <1>f, <1>g, <2>2
<1>2. CASE \E o \in Ops : \E r, first : Asks(o, r, first)
  BY <1>2 DEF Asks, Issue
<1>3. ASSUME NEW o \in Ops, OpStep(o)
      PROVE  TypeInv'
  <2>1. CASE SymbolValid(o)
    <3>1. PICK g : request' = [request EXCEPT ![o] = [@ EXCEPT !.group = g]]
      BY <2>1 DEF SymbolValid
    <3>2. request'[o].kind = request[o].kind /\ request'[o].by = request[o].by
      BY <3>1
    <3>3. QED
      BY <2>1, <3>1, <3>2 DEF SymbolValid
  <2>2. CASE SymbolInvalid(o) \/ Return(o) \/ Reject(o)
    <3>1. Forget({o}) /\ UNCHANGED <<locks, store, holder>>
      BY <2>2 DEF SymbolInvalid, Return, Reject
    <3>2. QED
      BY <1>f, <1>g, <3>1
  <2>3. CASE Read(o) \/ Retry(o)
    <3>1. PICK n : RunMutator(o, n) /\ n \in 0..Attempts
      BY <2>3, AttemptsAssumption DEF Read, Retry
    <3>2. Parsed(store, o).rev \in Nat
      BY DEF Parsed
    <3>3. UNCHANGED <<locks, store>> /\ holder' \in Ops \cup {Nobody}
          /\ (~locks => holder' = Nobody)
      BY <2>3 DEF Read, Retry, HeldBy
    <3>4. QED
      BY <3>1, <3>2, <3>3 DEF RunMutator
  <2>4. CASE NothingToSave(o) \/ SaveFails(o) \/ GiveUp(o)
    BY <2>4 DEF NothingToSave, SaveFails, GiveUp, Advance
  <2>5. CASE ObserveOwn(o) \/ ObserveOther(o)
    <3>1. Parsed(store, o).rev \in Nat
      BY DEF Parsed
    <3>2. QED
      BY <2>5, <3>1 DEF ObserveOwn, ObserveOther, Advance
  <2>6. CASE Save(o)
    BY <2>6 DEF Save, Put, Advance, Next1, V2
  <2>7. CASE SaveMerged(o)
    <3>1. CASE Same(saved[o], desired[o])
      BY <2>7, <3>1 DEF SaveMerged, Advance
    <3>2. CASE ~Same(saved[o], desired[o])
      <4>1. /\ store'.kind = "v2" /\ store'.rev = saved[o].rev + 1
            /\ saved' = [saved EXCEPT ![o] = Next1(o, saved[o], desired[o])]
            /\ UNCHANGED <<locks, holder, request, base, tries>>
        BY <2>7, <3>2 DEF SaveMerged, Put, Advance, Next1, V2
      <4>2. Next1(o, saved[o], desired[o]).rev \in Nat
        BY DEF Next1
      <4>3. QED
        BY <4>1, <4>2
    <3>3. QED
      BY <3>1, <3>2
  <2>8. QED
    BY <1>3, <2>1, <2>2, <2>3, <2>4, <2>5, <2>6, <2>7 DEF OpStep
<1>4. CASE UNCHANGED <<locks, store, kept, added, holder, opVars>>
  BY <1>4 DEF opVars
<1>5. QED
  BY <1>1, <1>2, <1>3, <1>4, Steps

\* The stored value, the lock, the pages and the calls have their types in
\* every reachable state, and no call tries more often than Attempts.
THEOREM WatchTypes == WatchSpec => []WatchTypeOK
<1>1. WatchInit => LockInv /\ TypeInv
  BY LockInit, TypeInit
<1>2. LockInv /\ TypeInv /\ [WatchNext]_watchVars => LockInv' /\ TypeInv'
  BY LockStep, TypeStep
<1>3. TypeInv => WatchTypeOK
  BY DEF TypeInv
<1>4. QED
  BY <1>1, <1>2, <1>3, PTL DEF WatchSpec

-----------------------------------------------------------------------------
(* Convergence.  Nothing that is shown, on its way or about to be shown is *)
(* ahead of the store, and what has the store's revision is what is stored;*)
(* a page that is behind still has the stored list in its queue.           *)

Stored == [rev |-> store.rev, writer |-> store.writer,
           groups |-> store.groups, items |-> store.items]

NotAhead(list) == /\ list.rev \in Nat /\ list.rev <= store.rev
                  /\ store.kind = "v2" /\ list.rev = store.rev => list = Stored

Reaches(t) == \/ view[t] = Stored
              \/ \E i \in 1..Len(queue[t]) : queue[t][i] = Stored

TabConv(t) ==
  /\ \E S : queue[t] \in Seq(S)
  /\ \A i \in 1..Len(queue[t]) : NotAhead(queue[t][i])
  /\ page[t] = "screener" =>
       /\ NotAhead(view[t])
       /\ store.kind = "v2" => Reaches(t)

ConvInv ==
  locks => /\ \A t \in Tabs : TabConv(t)
           /\ \A o \in Ops : stage[o] = "returned" => NotAhead(saved[o])

LEMMA ConvInit == WatchInit => ConvInv
<1> SUFFICES ASSUME WatchInit PROVE ConvInv
  OBVIOUS
<1> DEFINE S == {NoState}
<1>1. <<>> \in Seq(S) /\ Len(<<>>) = 0
  OBVIOUS
<1> HIDE DEF S
<1>2. ASSUME NEW t \in Tabs
      PROVE  TabConv(t)
  <2>1. queue[t] = <<>> /\ page[t] = "unopened"
    BY DEF WatchInit
  <2>2. QED
    BY <1>1, <2>1 DEF TabConv
<1>3. QED
  BY <1>2 DEF WatchInit, ConvInv

\* What a look at the store gives.
LEMMA ParsedConv ==
  ASSUME NEW who, store.rev \in Nat
  PROVE  /\ NotAhead(Parsed(store, who))
         /\ store.kind = "v2" => Parsed(store, who) = Stored
  BY DEF NotAhead, Parsed, Stored

\* A page that is told of a list it may have waited for.
LEMMA SyncConv ==
  ASSUME NEW v, NEW next, NotAhead(v), NotAhead(next), store.rev \in Nat
  PROVE  /\ NotAhead(SyncView(v, next))
         /\ store.kind = "v2" /\ (v = Stored \/ next = Stored) => SyncView(v, next) = Stored
<1>1. CASE next.rev < v.rev
  <2>1. SyncView(v, next) = v
    BY <1>1 DEF SyncView, Outdated
  <2>2. store.kind = "v2" /\ next = Stored => v = Stored
    BY <1>1 DEF NotAhead, Stored
  <2>3. QED
    BY <2>1, <2>2
<1>2. CASE ~(next.rev < v.rev)
  <2>1. SyncView(v, next) = next
    BY <1>2 DEF SyncView, Outdated
  <2>2. store.kind = "v2" /\ v = Stored => next = Stored
    BY <1>2 DEF NotAhead, Stored
  <2>3. QED
    BY <2>1, <2>2
<1>3. QED
  BY <1>1, <1>2

Known == LockInv /\ ListInv /\ TypeInv /\ ConvInv

LEMMA DeliverConv ==
  ASSUME Known, locks, NEW t \in Tabs, DeliverStorageEvent(t)
  PROVE  TabConv(t)'
<1> DEFINE q == queue[t]
<1>0. store.rev \in Nat /\ TabConv(t) /\ DOMAIN view = Tabs /\ DOMAIN queue = Tabs
  BY DEF Known, TypeInv, WatchTypeOK, ConvInv, ListInv
<1>1. PICK S : q \in Seq(S)
  BY <1>0 DEF TabConv
<1>2. q # <<>> /\ queue'[t] = Tail(q) /\ UNCHANGED <<store, page>>
  BY <1>0 DEF DeliverStorageEvent
<1>3. /\ Tail(q) \in Seq(S) /\ Len(Tail(q)) = Len(q) - 1 /\ Len(q) \in Nat \ {0}
      /\ \A i \in 1..Len(Tail(q)) : Tail(q)[i] = q[i + 1] /\ i + 1 \in 1..Len(q)
      /\ Head(q) = q[1] /\ 1 \in 1..Len(q)
  BY <1>1, <1>2
<1>4. \A i \in 1..Len(Tail(q)) : NotAhead(Tail(q)[i])
  BY <1>0, <1>3 DEF TabConv
<1>5. ASSUME page[t] = "screener"
      PROVE  NotAhead(view'[t])
             /\ (store.kind = "v2" =>
                   view'[t] = Stored \/ \E i \in 1..Len(Tail(q)) : Tail(q)[i] = Stored)
  <2>1. view'[t] = SyncView(view[t], Head(q))
    BY <1>0, <1>5 DEF DeliverStorageEvent, Told
  <2>2. NotAhead(view[t]) /\ NotAhead(Head(q)) /\ (store.kind = "v2" => Reaches(t))
    BY <1>0, <1>3, <1>5 DEF TabConv
  <2>3. NotAhead(view'[t])
    BY <1>0, <2>1, <2>2, SyncConv
  <2>4. ASSUME store.kind = "v2"
        PROVE  view'[t] = Stored \/ \E i \in 1..Len(Tail(q)) : Tail(q)[i] = Stored
    <3>1. CASE view[t] = Stored \/ Head(q) = Stored
      BY <1>0, <2>1, <2>2, <2>4, <3>1, SyncConv
    <3>2. ASSUME NEW i \in 1..Len(q), q[i] = Stored, i # 1
          PROVE  \E j \in 1..Len(Tail(q)) : Tail(q)[j] = Stored
      <4>1. i - 1 \in 1..Len(Tail(q)) /\ Tail(q)[i - 1] = q[i]
        BY <1>3, <3>2
      <4>2. QED
        BY <3>2, <4>1
    <3>3. QED
      BY <1>3, <2>2, <2>4, <3>1, <3>2 DEF Reaches
  <2>5. QED
    BY <2>3, <2>4
<1>6. QED
  BY <1>2, <1>3, <1>4, <1>5 DEF TabConv, NotAhead, Stored, Reaches

LEMMA TabsConv ==
  ASSUME Known, locks, NEW t \in Tabs, UserStep(t) \/ DeliverStorageEvent(t)
  PROVE  ConvInv'
<1>0. /\ store.rev \in Nat /\ DOMAIN view = Tabs /\ DOMAIN queue = Tabs
      /\ \A u \in Tabs : TabConv(u)
      /\ page \in [Tabs -> Pages \cup {"unopened", "closed"}]
      /\ \A o \in Ops : stage[o] = "returned" => NotAhead(saved[o])
  BY DEF Known, TypeInv, WatchTypeOK, ConvInv, ListInv
<1>1. UNCHANGED store
  BY DEF UserStep, DeliverStorageEvent, OpenPage, ClosePage, StartAdd, OpenEditor,
         ConfirmRemove, CloseEditor, SubmitEditor, ConfirmRemoveGroup, SubmitGroup,
         SaveRename, Ask
<1>2. \A o \in Ops : (stage[o] = "returned" => NotAhead(saved[o]))'
  <2>1. CASE ClosePage(t)
    <3>1. \A o \in Ops : stage'[o] = "returned" => stage[o] = "returned" /\ saved'[o] = saved[o]
      BY <2>1 DEF ClosePage, Forget
    <3>2. QED
      BY <1>0, <1>1, <3>1 DEF NotAhead, Stored
  <2>2. CASE \E o \in Ops : \E r, first : Asks(o, r, first)
    <3>1. \A o \in Ops : stage'[o] = "returned" => stage[o] = "returned" /\ saved'[o] = saved[o]
      BY <2>2 DEF Asks, Issue, Known, LockInv, Shape
    <3>2. QED
      BY <1>0, <1>1, <3>1 DEF NotAhead, Stored
  <2>3. CASE UNCHANGED <<locks, store, kept, added, holder, opVars>>
    BY <1>0, <2>3 DEF NotAhead, Stored, opVars
  <2>4. QED
    BY <2>1, <2>2, <2>3, UserSteps
<1>3. ASSUME NEW u \in Tabs
      PROVE  TabConv(u)'
  <2>1. CASE DeliverStorageEvent(t) /\ u = t
    BY <2>1, DeliverConv
  <2>2. CASE view'[u] = view[u] /\ queue'[u] = queue[u] /\ page'[u] = page[u]
    BY <1>0, <1>1, <2>2 DEF TabConv, NotAhead, Stored, Reaches
  <2>3. CASE u = t /\ \E p \in Pages : OpenPage(t, p)
    <3>1. view'[t] = Parsed(store, t) /\ queue'[t] = queue[t]
      BY <1>0, <2>3 DEF OpenPage
    <3>2. QED
      BY <1>0, <1>1, <2>3, <3>1, ParsedConv DEF TabConv, NotAhead, Stored, Reaches
  <2>4. CASE u = t /\ ClosePage(t)
    <3>1. queue'[t] = <<>> /\ page'[t] = "closed"
      BY <1>0, <2>4 DEF ClosePage
    <3> DEFINE S == {NoState}
    <3>2. <<>> \in Seq(S) /\ Len(<<>>) = 0
      OBVIOUS
    <3> HIDE DEF S
    <3>3. QED
      BY <2>4, <3>1, <3>2 DEF TabConv
  <2>5. QED
    BY <1>0, <2>1, <2>2, <2>3, <2>4
       DEF UserStep, DeliverStorageEvent, Told, OpenPage, ClosePage, StartAdd, OpenEditor,
           ConfirmRemove, CloseEditor, SubmitEditor, ConfirmRemoveGroup, SubmitGroup,
           SaveRename, Ask, tabVars
<1>4. QED
  BY <1>2, <1>3 DEF ConvInv

LEMMA SaveConv ==
  ASSUME Known, locks, NEW o \in Ops, Save(o)
  PROVE  ConvInv'
<1>s. PICK state : state = Next1(o, base[o], desired[o])
  OBVIOUS
<1>w. PICK writer : writer = request[o].by
  OBVIOUS
<1>0. /\ store.rev \in Nat /\ DOMAIN view = Tabs /\ DOMAIN queue = Tabs
      /\ \A u \in Tabs : TabConv(u)
      /\ \A q \in Ops : stage[q] = "returned" => NotAhead(saved[q])
      /\ stage \in [Ops -> Stages] /\ DOMAIN saved = Ops
      /\ base[o] = Parsed(store, o)
  BY DEF Known, TypeInv, WatchTypeOK, ConvInv, ListInv, LockInv, Shape, ReadFresh, Save
<1>1. state.rev = store.rev + 1
  BY <1>0, <1>s DEF Next1, Parsed
<1>2. /\ store'.rev = state.rev /\ Stored' = state
      /\ saved' = [saved EXCEPT ![o] = state]
      /\ stage' = [stage EXCEPT ![o] = "returned"]
      /\ UNCHANGED <<page, locks>>
  BY <1>s DEF Save, Put, Advance, V2, Stored, Next1
<1>3. /\ \A u \in Tabs : queue'[u] = IF Open(u) /\ u # writer
                                     THEN Append(queue[u], state) ELSE queue[u]
      /\ Told(writer, state, state)
  BY <1>s, <1>w DEF Save, Put
\* What was not ahead is behind now, and the new list is the stored one.
<1>4. NotAhead(state)' /\ \A list : NotAhead(list) => NotAhead(list)'
  BY <1>0, <1>1, <1>2 DEF NotAhead
<1>5. ASSUME NEW u \in Tabs
      PROVE  TabConv(u)'
  <2>1. PICK S : queue[u] \in Seq(S)
    BY <1>0 DEF TabConv
  <2>2. /\ Append(queue[u], state) \in Seq(S \cup {state})
        /\ Len(Append(queue[u], state)) = Len(queue[u]) + 1
        /\ Append(queue[u], state)[Len(queue[u]) + 1] = state
        /\ \A i \in 1..Len(queue[u]) : Append(queue[u], state)[i] = queue[u][i]
        /\ Len(queue[u]) \in Nat
    <3>1. queue[u] \in Seq(S \cup {state})
      BY <2>1
    <3>2. QED
      BY <2>1, <3>1
  <2>3. (\E R : queue[u] \in Seq(R))'
    BY <1>3, <2>1, <2>2
  <2>4. (\A i \in 1..Len(queue[u]) : NotAhead(queue[u][i]))'
    <3>1. \A i \in 1..Len(queue[u]) : NotAhead(queue[u][i])
      BY <1>0 DEF TabConv
    <3>2. ASSUME NEW i \in 1..Len(queue'[u])
          PROVE  \/ queue'[u][i] = state
                 \/ i \in 1..Len(queue[u]) /\ queue'[u][i] = queue[u][i]
      <4>1. CASE queue'[u] = queue[u]
        BY <4>1
      <4>2. CASE queue'[u] = Append(queue[u], state)
        <5>1. i \in 1..Len(queue[u]) \/ i = Len(queue[u]) + 1
          BY <2>2, <4>2
        <5>2. QED
          BY <2>2, <4>2, <5>1
      <4>3. QED
        BY <1>3, <4>1, <4>2
    <3>3. ASSUME NEW i \in 1..Len(queue'[u]), NEW list, list = queue'[u][i]
          PROVE  NotAhead(list)'
      BY <1>4, <3>1, <3>2, <3>3
    <3>4. QED
      BY <3>3
  <2>5. ASSUME page[u] = "screener"
        PROVE  /\ NotAhead(view[u])'
               /\ view'[u] = state \/ \E i \in 1..Len(queue'[u]) : queue'[u][i] = state
    <3>1. NotAhead(view[u])
      BY <1>0, <2>5 DEF TabConv
    <3>2. CASE u # writer
      <4>1. view'[u] = view[u] /\ queue'[u] = Append(queue[u], state)
        BY <1>0, <1>3, <2>5, <3>2 DEF Told, Open, Pages
      <4>2. Len(queue[u]) + 1 \in 1..Len(queue'[u])
        BY <2>2, <4>1
      <4>3. QED
        BY <1>4, <2>2, <3>1, <4>1, <4>2
    <3>3. CASE u = writer
      <4>1. view'[u] = SyncView(view[u], state)
        BY <1>0, <1>3, <2>5, <3>3 DEF Told
      <4>2. SyncView(view[u], state) = state
        BY <1>0, <1>1, <3>1 DEF SyncView, Outdated, NotAhead
      <4>3. QED
        BY <1>4, <4>1, <4>2
    <3>4. QED
      BY <3>2, <3>3
  <2>6. QED
    BY <1>2, <2>3, <2>4, <2>5 DEF TabConv, Reaches
<1>6. \A q \in Ops : (stage[q] = "returned" => NotAhead(saved[q]))'
  BY <1>0, <1>2, <1>4
<1>7. QED
  BY <1>5, <1>6 DEF ConvInv

LEMMA CallConv ==
  ASSUME Known, locks, NEW o \in Ops, OpStep(o)
  PROVE  ConvInv'
<1>0. /\ store.rev \in Nat /\ DOMAIN view = Tabs
      /\ \A u \in Tabs : TabConv(u)
      /\ \A q \in Ops : stage[q] = "returned" => NotAhead(saved[q])
      /\ stage \in [Ops -> Stages] /\ DOMAIN saved = Ops
      /\ stage[o] \notin {"written", "merging", "merged"}
      /\ ReadFresh(o)
  BY DEF Known, TypeInv, WatchTypeOK, ConvInv, ListInv, LockInv, Shape
<1>1. ASSUME UNCHANGED <<store, page, view, queue>>,
             \A q \in Ops : stage'[q] = "returned" => NotAhead(saved'[q])
      PROVE  ConvInv'
  BY <1>0, <1>1 DEF ConvInv, TabConv, NotAhead, Stored, Reaches
<1>2. CASE SymbolValid(o) \/ SymbolInvalid(o) \/ Read(o) \/ SaveFails(o)
  <2>1. UNCHANGED <<store, page, view, queue>>
    BY <1>2 DEF SymbolValid, SymbolInvalid, Read, SaveFails, tabVars
  <2>2. \A q \in Ops : stage'[q] = "returned" => stage[q] = "returned" /\ saved'[q] = saved[q]
    BY <1>0, <1>2 DEF SymbolValid, SymbolInvalid, Read, SaveFails, RunMutator, Forget
  <2>3. QED
    BY <1>0, <1>1, <2>1, <2>2
<1>3. CASE NothingToSave(o)
  <2>1. UNCHANGED <<store, page, view, queue>> /\ saved' = [saved EXCEPT ![o] = base[o]]
        /\ stage' = [stage EXCEPT ![o] = "returned"] /\ base[o] = Parsed(store, o)
    BY <1>0, <1>3 DEF NothingToSave, tabVars, Advance, ReadFresh
  <2>2. NotAhead(base[o])
    BY <1>0, <2>1, ParsedConv
  <2>3. QED
    BY <1>0, <1>1, <2>1, <2>2
<1>4. CASE Save(o)
  BY <1>4, SaveConv
<1>5. CASE Return(o)
  <2>1. /\ UNCHANGED <<store, page, queue>> /\ NotAhead(saved[o])
        /\ \A q \in Ops : stage'[q] = "returned" => stage[q] = "returned" /\ saved'[q] = saved[q]
    BY <1>0, <1>5 DEF Return, Forget
  <2>2. ASSUME NEW u \in Tabs, page[u] = "screener"
        PROVE  view'[u] = view[u] \/ view'[u] = SyncView(view[u], saved[o])
    BY <1>0, <1>5, <2>2 DEF Return
  <2>3. ASSUME NEW u \in Tabs
        PROVE  TabConv(u)'
    <3>1. ASSUME page[u] = "screener"
          PROVE  NotAhead(view'[u])
                 /\ (store.kind = "v2" =>
                       view'[u] = Stored \/ \E i \in 1..Len(queue[u]) : queue[u][i] = Stored)
      <4>1. NotAhead(view[u]) /\ (store.kind = "v2" => Reaches(u))
        BY <1>0, <3>1 DEF TabConv
      <4>2. QED
        BY <1>0, <2>1, <2>2, <3>1, <4>1, SyncConv DEF Reaches
    <3>2. QED
      BY <1>0, <2>1, <3>1 DEF TabConv, NotAhead, Stored, Reaches
  <2>4. QED
    BY <1>0, <2>1, <2>3 DEF ConvInv, NotAhead, Stored
<1>6. CASE Reject(o)
  <2>1. /\ UNCHANGED <<store, page, queue>>
        /\ \A q \in Ops : stage'[q] = "returned" => stage[q] = "returned" /\ saved'[q] = saved[q]
        /\ \A u \in Tabs : page[u] = "screener" => view'[u] = view[u]
    BY <1>0, <1>6 DEF Reject, Forget
  <2>2. QED
    BY <1>0, <2>1 DEF ConvInv, TabConv, NotAhead, Stored, Reaches
<1>7. QED
  BY <1>0, <1>2, <1>3, <1>4, <1>5, <1>6
     DEF OpStep, ObserveOwn, ObserveOther, SaveMerged, Retry, GiveUp

LEMMA ConvStep == Known /\ [WatchNext]_watchVars => ConvInv'
<1> SUFFICES ASSUME Known, [WatchNext]_watchVars
             PROVE  ConvInv'
  OBVIOUS
<1>1. locks' = locks
  BY LocksStay
<1>2. CASE ~locks
  BY <1>1, <1>2 DEF ConvInv
<1>3. CASE locks /\ UNCHANGED watchVars
  BY <1>3 DEF watchVars, tabVars, opVars, Known, ConvInv, TabConv, NotAhead, Stored, Reaches
<1>4. CASE locks /\ WatchNext
  BY <1>4, TabsConv, CallConv DEF WatchNext
<1>5. QED
  BY <1>2, <1>3, <1>4

\* Once everything has settled, every workbench page shows what is stored: no
\* order of storage events, change events and answers leaves one behind.
THEOREM PagesDoConverge == WatchSpec => []PagesConverge
<1>1. WatchInit => Known
  BY LockInit, ListInit, TypeInit, ConvInit DEF Known
<1>2. Known /\ [WatchNext]_watchVars => Known'
  BY LockStep, ListStep, TypeStep, ConvStep DEF Known
<1>3. Known => PagesConverge
  <2>1. SUFFICES ASSUME Known, locks, Quiet, store.kind = "v2",
                        NEW t \in Tabs, page[t] = "screener"
                 PROVE  view[t] = Parsed(store, t)
    BY DEF PagesConverge
  <2>2. queue[t] = <<>> /\ Reaches(t) /\ store.rev \in Nat
    BY <2>1 DEF Quiet, Known, ConvInv, TabConv, TypeInv, WatchTypeOK
  <2>3. view[t] = Stored
    BY <2>2 DEF Reaches
  <2>4. QED
    BY <2>1, <2>2, <2>3, ParsedConv
<1>4. QED
  BY <1>1, <1>2, <1>3, PTL DEF WatchSpec
=============================================================================
