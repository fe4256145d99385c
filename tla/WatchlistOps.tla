---------------------------- MODULE WatchlistOps ----------------------------
(***************************************************************************)
(* The pure part of apps/web/src/lib/watchlist.ts: what a stored value     *)
(* means to a reader and what each domain operation makes of a list.       *)
(*                                                                         *)
(* A list is [groups, items].  groups maps a group id to its name and its  *)
(* position; items maps a symbol to its group and to the stamp that stands *)
(* for updatedAt and for the fields that change with it (thesis, quantity, *)
(* cost, alerts): two versions of an item are equal iff their stamps are.  *)
(* The three default groups are one, Watch: they behave alike.  A custom   *)
(* group's id is the slug of its name; all names slug to "group", as every *)
(* name without Latin letters does, so ids are the suffixes of that slug.  *)
(***************************************************************************)
EXTENDS Integers, FiniteSets, Functions

CONSTANTS Watch,      \* the default groups
          Nobody      \* no writer, no symbol, the writer of the first stamps

\* A stamp names who drew it and in which of its readings, never a time: the
\* readings are farther apart than the clock's millisecond.
Stamp(who, n) == <<who, n>>

DefaultGroups == [g \in {Watch} |-> [name |-> Watch, order |-> 0]]

\* What localStorage holds under the key: nothing, the string array of the
\* first version, or the current format.
Absent      == [kind |-> "absent", rev |-> 0, writer |-> Nobody,
                groups |-> DefaultGroups, items |-> [s \in {} |-> 0]]
Legacy(ss)  == [Absent EXCEPT !.kind  = "legacy",
                              !.items = [s \in ss |-> [group |-> Watch,
                                                       stamp |-> Stamp(Nobody, 0)]]]
V2(state)   == [kind |-> "v2", rev |-> state.rev, writer |-> state.writer,
                groups |-> state.groups, items |-> state.items]

\* parseWatchlistState: a legacy list gets the time of the reading in every
\* item, whoever reads it, each time it is read.
Parsed(disk, who) ==
  [rev    |-> disk.rev,
   writer |-> disk.writer,
   groups |-> disk.groups,
   items  |-> IF disk.kind = "legacy"
              THEN [s \in DOMAIN disk.items |-> [group |-> Watch, stamp |-> Stamp(who, 0)]]
              ELSE disk.items]

Content(state) == [groups |-> state.groups, items |-> state.items]

\* Mutant: a list is written as it is.
NotNormalized(list) == list

\* An item whose group is not in the list falls back to the default group.
Rehomed(item, groups) ==
  IF item.group \in DOMAIN groups THEN item ELSE [item EXCEPT !.group = Watch]
Normalized(list) ==
  [list EXCEPT !.items = [s \in DOMAIN list.items |-> Rehomed(list.items[s], list.groups)]]

\* Positions become 0, 1, 2, ... in the order that key gives.
Renumbered(groups, key) ==
  LET Before(g, h) == \/ key[g][1] < key[h][1]
                      \/ key[g][1] = key[h][1] /\ key[g][2] < key[h][2]
  IN  [g \in DOMAIN groups |->
         [groups[g] EXCEPT !.order = Cardinality({h \in DOMAIN groups : Before(h, g)})]]

With(items, s, group, stamp) ==
  [x \in DOMAIN items \cup {s} |->
     IF x = s THEN [group |-> group, stamp |-> stamp] ELSE items[x]]

-----------------------------------------------------------------------------
(* One operator per mutator the pages hand to mutateWatchlistState.  r is  *)
(* the request: kind, sym, group, name, expected, known.                   *)

Upserted(list, r, stamp) ==
  [list EXCEPT !.items =
     With(@, r.sym, IF r.group \in DOMAIN list.groups THEN r.group ELSE Watch, stamp)]

AddItem(list, r, stamp) ==
  IF r.sym \in DOMAIN list.items THEN list ELSE Upserted(list, r, stamp)

\* The editor's save gives way to whatever changed the item since it opened.
AsOpened(list, r) == /\ r.sym \in DOMAIN list.items
                     /\ list.items[r.sym].stamp = r.expected
SaveItem(list, r, stamp) ==
  IF AsOpened(list, r) THEN Upserted(list, r, stamp) ELSE list

RemoveItem(list, r) == [list EXCEPT !.items = Restrict(@, DOMAIN @ \ {r.sym})]

\* uniqueGroupId: the first free one of "group", "group-2", "group-3", ...
FreeId(groups) ==
  CHOOSE g \in 1..Cardinality(DOMAIN groups) :
    /\ g \notin DOMAIN groups
    /\ \A h \in 1..(g - 1) : h \in DOMAIN groups
AddGroup(list, r) ==
  LET id == FreeId(list.groups)
      entry == [name |-> r.name, order |-> Cardinality(DOMAIN list.groups)]
  IN  [list EXCEPT !.groups = [g \in DOMAIN @ \cup {id} |-> IF g = id THEN entry ELSE @[g]]]

RenameGroup(list, r) ==
  IF r.group \in DOMAIN list.groups
  THEN [list EXCEPT !.groups[r.group].name = r.name]
  ELSE list

\* Mutant: a group takes its items with it.
RemoveGroupWithItems(list, r, stamp) ==
  IF r.group \in DOMAIN list.groups \ {Watch}
  THEN [groups |-> Restrict(list.groups, DOMAIN list.groups \ {r.group}),
        items  |-> Restrict(list.items, {s \in DOMAIN list.items :
                                           list.items[s].group # r.group})]
  ELSE list

RemoveGroup(list, r, stamp) ==
  IF r.group \in DOMAIN list.groups \ {Watch}
  THEN LET rest == Restrict(list.groups, DOMAIN list.groups \ {r.group})
       IN  [groups |-> Renumbered(rest, [g \in DOMAIN rest |-> <<rest[g].order, 0>>]),
            items  |-> [s \in DOMAIN list.items |->
                          IF list.items[s].group = r.group
                          THEN [group |-> Watch, stamp |-> stamp]
                          ELSE list.items[s]]]
  ELSE list

\* migrateLegacyWatchlistStateAtomically looks at the stored value again and
\* adds what the page knew from its first look.
Migrate(list, disk, rev, r, stamp) ==
  IF disk.kind # "legacy" \/ rev > 0 THEN list
  ELSE [list EXCEPT !.items =
          [s \in DOMAIN @ \cup r.known |->
             IF s \in DOMAIN @ THEN @[s] ELSE [group |-> Watch, stamp |-> stamp]]]

\* What request r makes of the list read as state; disk is the stored value.
Mutated(list, r, disk, rev, stamp) ==
  CASE r.kind = "add"         -> AddItem(list, r, stamp)
    [] r.kind = "save"        -> SaveItem(list, r, stamp)
    [] r.kind = "remove"      -> RemoveItem(list, r)
    [] r.kind = "addGroup"    -> AddGroup(list, r)
    [] r.kind = "renameGroup" -> RenameGroup(list, r)
    [] r.kind = "removeGroup" -> RemoveGroup(list, r, stamp)
    [] r.kind = "migrate"     -> Migrate(list, disk, rev, r, stamp)
    [] OTHER                  -> list
Effect(r, state, disk, stamp) ==
  Normalized(Mutated(Content(state), r, disk, state.rev, stamp))

-----------------------------------------------------------------------------
(* mergeFallbackMutation: what base -> desired changed is redone on latest *)
(* wherever latest still has what base had.                                *)

\* A group is compared as a whole, an item by its updatedAt alone.
Version(entry) == IF "stamp" \in DOMAIN entry THEN entry.stamp ELSE entry

Redone(base, desired, latest) ==
  LET Same(v, w) == Version(v) = Version(w)
      Still(k)   == k \in DOMAIN latest /\ k \in DOMAIN base /\ Same(latest[k], base[k])
      dropped    == {k \in DOMAIN base \ DOMAIN desired : Still(k)}
      changed    == {k \in DOMAIN base \cap DOMAIN desired :
                       Still(k) /\ ~Same(desired[k], base[k])}
      added      == (DOMAIN desired \ DOMAIN base) \ DOMAIN latest
  IN  [k \in (DOMAIN latest \ dropped) \cup added |->
         IF k \in changed \cup added THEN desired[k] ELSE latest[k]]

Merged(base, desired, latest) ==
  LET groups == Redone(base.groups, desired.groups, latest.groups)
      \* a stable sort by order: what latest had comes before what is new
      key    == [g \in DOMAIN groups |->
                   <<groups[g].order,
                     IF g \in DOMAIN latest.groups THEN latest.groups[g].order
                     ELSE Cardinality(DOMAIN groups) + groups[g].order>>]
  IN  Normalized([groups |-> Renumbered(groups, key),
                  items  |-> Redone(base.items, desired.items, latest.items)])
=============================================================================
