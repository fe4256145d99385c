------------------------------ MODULE QuoteBoard ------------------------------
(***************************************************************************)
(* The requests of the workbench page (apps/web/src/app/screener/page.tsx) *)
(* that race with the user: quotes of the symbols on the watchlist, asked  *)
(* for when the symbols change, every 30 seconds and by a button, and the  *)
(* market list of the selected type.  An aborted request may have answered *)
(* already, so an answer can still arrive after the abort.                 *)
(***************************************************************************)
EXTENDS Naturals

CONSTANTS SymbolSets,    \* the watchlists' symbols, as symbolKey lists them
          ListTypes,     \* ScreenerType
          MaxQuotes,     \* bound: calls of refreshQuotes
          MaxChanges     \* bound: changes of the symbols, and of the type

VARIABLES
  symbolKey,     \* symbolKeyRef
  quoteTimer,    \* the timer of the effect's first refresh is pending
  quoteId,       \* quoteRequestIdRef
  quoteReqs,     \* requests in flight: their id, key and whether aborted
  quotes,        \* the symbols of the quotes shown
  quoteLoading, quoteError,
  symbolChanges, quoteCalls,
  listType, listData, listLoading, listError,
  listTimer,     \* the effect's timer for the request is pending
  listReqs,      \* requests in flight: their type, number and whether aborted
  listChanges

quoteVars == <<symbolKey, quoteTimer, quoteId, quoteReqs, quotes, quoteLoading,
               quoteError, symbolChanges, quoteCalls>>
listVars  == <<listType, listData, listLoading, listError, listTimer, listReqs,
               listChanges>>
boardVars == <<quoteVars, listVars>>

BoardInit ==
  /\ symbolKey \in SymbolSets /\ quoteTimer = TRUE
  /\ quoteId = 0 /\ quoteReqs = {} /\ quotes = {}
  /\ quoteLoading = FALSE /\ quoteError = FALSE
  /\ symbolChanges = 0 /\ quoteCalls = 0
  /\ listType \in ListTypes /\ listData = "none"
  /\ listLoading = TRUE /\ listError = FALSE
  /\ listTimer = TRUE /\ listReqs = {} /\ listChanges = 0

-----------------------------------------------------------------------------
AbortQuotes(reqs) == {[r EXCEPT !.aborted = TRUE] : r \in reqs}

\* Mutant: quotes of symbols that are gone stay when none is left.
RefreshQuotesKept ==
  /\ quoteCalls < MaxQuotes /\ quoteCalls' = quoteCalls + 1
  /\ quoteId' = quoteId + 1 /\ quoteError' = FALSE /\ UNCHANGED quotes
  /\ quoteLoading' = (symbolKey # {})
  /\ quoteReqs' = AbortQuotes(quoteReqs)
       \cup {[id |-> i, key |-> symbolKey, aborted |-> FALSE] :
              i \in IF symbolKey = {} THEN {} ELSE {quoteId + 1}}

\* refreshQuotes.  Every caller passes the symbols the page shows.
RefreshQuotes ==
  /\ quoteCalls < MaxQuotes /\ quoteCalls' = quoteCalls + 1
  /\ quoteId' = quoteId + 1
  /\ quoteError' = FALSE
  /\ IF symbolKey = {}
     THEN /\ quotes' = {} /\ quoteLoading' = FALSE
          /\ quoteReqs' = AbortQuotes(quoteReqs)
     ELSE /\ quoteLoading' = TRUE
          /\ quoteReqs' = AbortQuotes(quoteReqs)
               \cup {[id |-> quoteId + 1, key |-> symbolKey, aborted |-> FALSE]}
          /\ UNCHANGED quotes

FirstRefresh == /\ quoteTimer /\ quoteTimer' = FALSE
                /\ RefreshQuotes
                /\ UNCHANGED <<symbolKey, symbolChanges, listVars>>

\* The interval runs whatever is in flight; the button waits for loading.
\* (bound: one call is left for the effect of every change to come)
Repeated == /\ ~quoteTimer /\ quoteCalls < MaxQuotes - (MaxChanges - symbolChanges)
            /\ RefreshQuotes
            /\ UNCHANGED <<symbolKey, quoteTimer, symbolChanges, listVars>>

\* The symbols change: the effect's cleanup takes back what is in flight and
\* the effect runs again.
SymbolsChange(key) ==
  /\ key # symbolKey /\ symbolChanges < MaxChanges
  /\ symbolKey' = key /\ symbolChanges' = symbolChanges + 1
  /\ quoteTimer' = TRUE
  /\ quoteId' = quoteId + 1
  /\ quoteReqs' = AbortQuotes(quoteReqs)
  /\ UNCHANGED <<quotes, quoteLoading, quoteError, quoteCalls, listVars>>

\* confirmRemove drops a quote before the effect asks for the others.
DropQuote(s) ==
  /\ s \in symbolKey /\ symbolKey \ {s} \in SymbolSets
  /\ quotes' = quotes \ {s}
  /\ symbolChanges < MaxChanges
  /\ symbolKey' = symbolKey \ {s} /\ symbolChanges' = symbolChanges + 1
  /\ quoteTimer' = TRUE
  /\ quoteId' = quoteId + 1
  /\ quoteReqs' = AbortQuotes(quoteReqs)
  /\ UNCHANGED <<quoteLoading, quoteError, quoteCalls, listVars>>

Wanted(r) == r.id = quoteId /\ r.key = symbolKey

\* An answer with quotes, or one without any: the provider has none.
QuotesArrive(r) ==
  /\ r \in quoteReqs /\ quoteReqs' = quoteReqs \ {r}
  /\ IF ~r.aborted /\ Wanted(r)
     THEN /\ \/ quotes' = r.key /\ UNCHANGED quoteError
             \/ quotes' = {} /\ quoteError' = TRUE
          /\ quoteLoading' = FALSE
     ELSE UNCHANGED <<quotes, quoteError, quoteLoading>>
  /\ UNCHANGED <<symbolKey, quoteTimer, quoteId, symbolChanges, quoteCalls, listVars>>

\* Mutant: the loading mark is not taken off when a request fails.
QuotesFailLoading(r) ==
  /\ r \in quoteReqs /\ quoteReqs' = quoteReqs \ {r}
  /\ quoteError' = (quoteError \/ (~r.aborted /\ Wanted(r)))
  /\ UNCHANGED <<symbolKey, quoteTimer, quoteId, quotes, quoteLoading, symbolChanges,
                 quoteCalls, listVars>>

QuotesFail(r) ==
  /\ r \in quoteReqs /\ quoteReqs' = quoteReqs \ {r}
  /\ quoteError'   = (quoteError \/ (~r.aborted /\ Wanted(r)))
  /\ quoteLoading' = (quoteLoading /\ ~Wanted(r))
  /\ UNCHANGED <<symbolKey, quoteTimer, quoteId, quotes, symbolChanges, quoteCalls, listVars>>

-----------------------------------------------------------------------------
(* The market list.                                                        *)

SelectType(ty) ==
  /\ ty # listType /\ listChanges < MaxChanges
  /\ listType' = ty /\ listChanges' = listChanges + 1
  /\ listLoading' = TRUE /\ listError' = FALSE
  /\ listTimer' = TRUE
  /\ listReqs' = {[r EXCEPT !.aborted = TRUE] : r \in listReqs}
  /\ UNCHANGED <<listData, quoteVars>>

RequestList ==
  /\ listTimer /\ listTimer' = FALSE
  /\ listReqs' = listReqs \cup {[ty |-> listType, nr |-> listChanges, aborted |-> FALSE]}
  /\ UNCHANGED <<listType, listData, listLoading, listError, listChanges, quoteVars>>

\* Mutant: the answer to an aborted request is used.
ListArrivesLate(r) ==
  /\ r \in listReqs /\ listReqs' = listReqs \ {r}
  /\ listData' = r.ty /\ listLoading' = FALSE
  /\ UNCHANGED <<listType, listError, listTimer, listChanges, quoteVars>>

\* An abort makes the fetch, or the reading of its body, fail with AbortError.
ListArrives(r) ==
  /\ r \in listReqs /\ ~r.aborted /\ listReqs' = listReqs \ {r}
  /\ listData' = r.ty /\ listLoading' = FALSE
  /\ UNCHANGED <<listType, listError, listTimer, listChanges, quoteVars>>

ListFails(r) ==
  /\ r \in listReqs /\ ~r.aborted /\ listReqs' = listReqs \ {r}
  /\ listData' = "none" /\ listError' = TRUE /\ listLoading' = FALSE
  /\ UNCHANGED <<listType, listTimer, listChanges, quoteVars>>

ListAborted(r) ==
  /\ r \in listReqs /\ r.aborted /\ listReqs' = listReqs \ {r}
  /\ UNCHANGED <<listType, listData, listLoading, listError, listTimer, listChanges, quoteVars>>

-----------------------------------------------------------------------------
\* The two halves of the page share nothing.
QuoteAnswers == \E r \in quoteReqs : QuotesArrive(r) \/ QuotesFail(r)
QuoteNext == \/ FirstRefresh \/ Repeated \/ QuoteAnswers
             \/ \E key \in SymbolSets : SymbolsChange(key)
             \/ \E s \in symbolKey : DropQuote(s)

ListAnswers == \E r \in listReqs : ListArrives(r) \/ ListFails(r) \/ ListAborted(r)
ListNext == \/ RequestList \/ ListAnswers
            \/ \E ty \in ListTypes : SelectType(ty)

BoardNext == QuoteNext \/ ListNext
BoardSpec == BoardInit /\ [][BoardNext]_boardVars

-----------------------------------------------------------------------------
\* Once nothing is pending and no error is shown, the quotes are those of the
\* symbols on the page: a late answer for other symbols never replaces them.
QuotesMatchSymbols ==
  ~quoteTimer /\ ~quoteLoading /\ ~quoteError => quotes = symbolKey

\* The loading mark always has something that will take it off: a request
\* that still counts, or a refresh about to start.
LoadingBacked ==
  quoteLoading => \/ quoteTimer
                  \/ \E r \in quoteReqs : Wanted(r) /\ ~r.aborted

\* The list shown without a loading mark is the selected type's, or none.
ListMatchesType == ~listLoading => listData \in {listType, "none"}
=============================================================================
