------------------------------- MODULE MCWatchlist -------------------------------
(* Watchlist on two tabs, one symbol, one name and two calls. *)
EXTENDS Watchlist

CONSTANT sym1

\* Nothing yet, the old array, or a list with a group of its own that holds
\* the symbol.
OneGroup == [g \in {Watch, 1} |-> [name |-> g, order |-> IF g = Watch THEN 0 ELSE g]]
Firsts == {Absent, Legacy({sym1}),
           V2([NoState EXCEPT !.rev = 1, !.groups = OneGroup,
                 !.items = [s \in {sym1} |-> [group |-> 1, stamp |-> Stamp(Nobody, 0)]]])}
=============================================================================
