------------------------------- MODULE PageProofs -------------------------------
(***************************************************************************)
(* Safety of the front end's pages, for any symbol sets, list types and    *)
(* bounds: the requests of the workbench page (how the request number, the *)
(* aborts and the loading mark together keep late answers out), the        *)
(* backtest tab, the strategy workbench and the conversation panel.        *)
(***************************************************************************)
EXTENDS QuoteBoard, BacktestTab, AiTab, ChatPanel, TLAPS

-----------------------------------------------------------------------------
(* QuoteBoard: the quotes of the page's symbols.                           *)

\* A request whose number is the current one asks for the symbols on the page
\* and is not aborted.
IdInv ==
  /\ quoteId \in Nat
  /\ \A r \in quoteReqs : /\ r.id \in Nat /\ r.id <= quoteId
                          /\ r.id = quoteId => r.key = symbolKey /\ ~r.aborted

QuoteInv == IdInv /\ QuotesMatchSymbols /\ LoadingBacked

LEMMA QuoteInit == BoardInit => QuoteInv
<1>1. BoardInit => IdInv
  BY DEF BoardInit, IdInv
<1>2. BoardInit => QuotesMatchSymbols
  BY DEF BoardInit, QuotesMatchSymbols
<1>3. BoardInit => LoadingBacked
  BY DEF BoardInit, LoadingBacked
<1>4. QED
  BY <1>1, <1>2, <1>3 DEF QuoteInv

\* What is in flight after an abort.
LEMMA Aborted ==
  ASSUME IdInv
  PROVE  \A r \in AbortQuotes(quoteReqs) : r.id \in Nat /\ r.id <= quoteId
<1>1. ASSUME NEW q \in quoteReqs
      PROVE  [q EXCEPT !.aborted = TRUE].id = q.id
  OBVIOUS
<1>2. QED
  BY <1>1 DEF IdInv, AbortQuotes

LEMMA RefreshStep ==
  ASSUME QuoteInv, RefreshQuotes, UNCHANGED symbolKey
  PROVE  QuoteInv'
<1> DEFINE new == [id |-> quoteId + 1, key |-> symbolKey, aborted |-> FALSE]
<1>1. new.id = quoteId + 1 /\ new.key = symbolKey /\ ~new.aborted
  OBVIOUS
<1>2. /\ quoteId' = quoteId + 1
      /\ quoteReqs' \subseteq AbortQuotes(quoteReqs) \cup {new}
      /\ \/ symbolKey = {} /\ quotes' = {} /\ ~quoteLoading'
         \/ new \in quoteReqs' /\ quoteLoading'
  BY DEF RefreshQuotes
<1> HIDE DEF new
<1>3. IdInv'
  BY <1>1, <1>2, Aborted DEF IdInv, QuoteInv
<1>4. LoadingBacked' /\ QuotesMatchSymbols'
  BY <1>1, <1>2 DEF LoadingBacked, QuotesMatchSymbols, Wanted
<1>5. QED
  BY <1>3, <1>4 DEF QuoteInv

\* Taking back what is in flight, with the effect's timer set again.
LEMMA ChangeStep ==
  ASSUME QuoteInv, quoteTimer' = TRUE, quoteId' = quoteId + 1,
         quoteReqs' = AbortQuotes(quoteReqs)
  PROVE  QuoteInv'
<1>1. IdInv'
  BY Aborted DEF IdInv, QuoteInv
<1>2. LoadingBacked' /\ QuotesMatchSymbols'
  BY DEF LoadingBacked, QuotesMatchSymbols
<1>3. QED
  BY <1>1, <1>2 DEF QuoteInv

LEMMA QuoteStep == QuoteInv /\ [BoardNext]_boardVars => QuoteInv'
<1> SUFFICES ASSUME QuoteInv, [BoardNext]_boardVars
             PROVE  QuoteInv'
  OBVIOUS
<1>1. CASE FirstRefresh \/ Repeated
  BY <1>1, RefreshStep DEF FirstRefresh, Repeated
<1>2. CASE (\E key \in SymbolSets : SymbolsChange(key)) \/ (\E s \in symbolKey : DropQuote(s))
  BY <1>2, ChangeStep DEF SymbolsChange, DropQuote
<1>3. ASSUME NEW r \in quoteReqs, QuotesArrive(r) \/ QuotesFail(r)
      PROVE  QuoteInv'
  <2>1. IdInv'
    BY <1>3 DEF QuotesArrive, QuotesFail, QuoteInv, IdInv
  <2>2. LoadingBacked'
    BY <1>3 DEF QuotesArrive, QuotesFail, QuoteInv, LoadingBacked, Wanted
  <2>3. Wanted(r) => ~r.aborted /\ r.key = symbolKey
    BY DEF QuoteInv, IdInv, Wanted
  <2>4. QuotesArrive(r) => QuotesMatchSymbols'
    BY <2>3 DEF QuotesArrive, QuoteInv, QuotesMatchSymbols
  <2>5. ASSUME QuotesFail(r)
        PROVE  QuotesMatchSymbols'
    <3>1. symbolKey' = symbolKey /\ quoteTimer' = quoteTimer /\ quotes' = quotes
      BY <2>5 DEF QuotesFail
    <3>2. CASE Wanted(r)
      <4>1. quoteError'
        BY <2>3, <2>5, <3>2, Zenon DEF QuotesFail
      <4>2. QED
        BY <4>1 DEF QuotesMatchSymbols
    <3>3. CASE ~Wanted(r)
      <4>1. (quoteError' <=> quoteError) /\ (quoteLoading' <=> quoteLoading)
        BY <2>5, <3>3, Zenon DEF QuotesFail
      <4>2. QED
        BY <3>1, <4>1, Zenon DEF QuoteInv, QuotesMatchSymbols
    <3>4. QED
      BY <3>2, <3>3
  <2>6. QED
    BY <1>3, <2>1, <2>2, <2>4, <2>5 DEF QuoteInv
<1>4. CASE UNCHANGED quoteVars
  BY <1>4 DEF quoteVars, QuoteInv, IdInv, QuotesMatchSymbols, LoadingBacked, Wanted
<1>5. CASE ListNext
  BY <1>4, <1>5 DEF ListNext, RequestList, ListAnswers, ListArrives, ListFails,
       ListAborted, SelectType
<1>6. QED
  BY <1>1, <1>2, <1>3, <1>4, <1>5
     DEF BoardNext, QuoteNext, QuoteAnswers, boardVars

\* Quotes on the page without a loading mark, an error or a refresh to come
\* are those of its symbols: no late answer for other symbols gets through.
THEOREM QuotesAreCurrent == BoardSpec => []QuotesMatchSymbols
<1>1. QuoteInv => QuotesMatchSymbols
  BY DEF QuoteInv
<1>2. QED
  BY <1>1, QuoteInit, QuoteStep, PTL DEF BoardSpec

\* The loading mark of the quotes is never without something to take it off.
THEOREM LoadingIsBacked == BoardSpec => []LoadingBacked
<1>1. QuoteInv => LoadingBacked
  BY DEF QuoteInv
<1>2. QED
  BY <1>1, QuoteInit, QuoteStep, PTL DEF BoardSpec

-----------------------------------------------------------------------------
(* QuoteBoard: the market list.                                             *)

\* A request for a list that is not aborted asks for the selected type.
ListInv ==
  /\ listType \in ListTypes /\ listChanges \in Nat
  /\ listReqs \subseteq [ty : ListTypes, nr : Nat, aborted : BOOLEAN]
  /\ \A r \in listReqs : ~r.aborted => r.ty = listType
  /\ ListMatchesType

LEMMA ListInit == BoardInit => ListInv
  BY DEF BoardInit, ListInv, ListMatchesType

LEMMA ListStep == ListInv /\ [BoardNext]_boardVars => ListInv'
<1> SUFFICES ASSUME ListInv, [BoardNext]_boardVars
             PROVE  ListInv'
  OBVIOUS
<1> USE DEF ListInv, ListMatchesType
<1>1. CASE RequestList
  <2> DEFINE new == [ty |-> listType, nr |-> listChanges, aborted |-> FALSE]
  <2>1. new \in [ty : ListTypes, nr : Nat, aborted : BOOLEAN] /\ new.ty = listType
    OBVIOUS
  <2>2. listReqs' = listReqs \cup {new}
    BY <1>1 DEF RequestList
  <2> HIDE DEF new
  <2>3. QED
    BY <1>1, <2>1, <2>2 DEF RequestList
<1>2. ASSUME NEW ty \in ListTypes, SelectType(ty)
      PROVE  ListInv'
  <2>1. ASSUME NEW q \in listReqs
        PROVE  /\ [q EXCEPT !.aborted = TRUE] \in [ty : ListTypes, nr : Nat, aborted : BOOLEAN]
               /\ [q EXCEPT !.aborted = TRUE].aborted
    OBVIOUS
  <2>2. QED
    BY <1>2, <2>1 DEF SelectType
<1>3. CASE ListAnswers
  BY <1>3 DEF ListAnswers, ListArrives, ListFails, ListAborted
<1>4. CASE UNCHANGED listVars
  BY <1>4 DEF listVars
<1>5. CASE QuoteNext
  <2>1. UNCHANGED listVars
    BY <1>5 DEF QuoteNext, FirstRefresh, Repeated, QuoteAnswers, QuotesArrive,
         QuotesFail, SymbolsChange, DropQuote
  <2>2. QED
    BY <1>4, <2>1
<1>6. QED
  BY <1>1, <1>2, <1>3, <1>4, <1>5 DEF BoardNext, ListNext, boardVars

\* The market list shown without a loading mark is that of the selected type.
THEOREM ListIsSelected == BoardSpec => []ListMatchesType
<1>1. ListInv => ListMatchesType
  BY DEF ListInv
<1>2. QED
  BY <1>1, ListInit, ListStep, PTL DEF BoardSpec

-----------------------------------------------------------------------------
(* BacktestTab: a stop that finds the loop asleep.                         *)

StopInv ==
  stopSeen.at = "sleeping" =>
    /\ result = stopSeen.shown
    /\ runAt = "idle" \/ (runAt = "sleeping" /\ taskRef.cancelled)

LEMMA StopStep == StopInv /\ [RunNext]_runVars => StopInv'
<1> SUFFICES ASSUME StopInv, [RunNext]_runVars
             PROVE  StopInv'
  OBVIOUS
<1> USE DEF StopInv
<1>1. CASE ClickRun
  BY <1>1 DEF ClickRun, NotStopped
<1>2. CASE ClickStop
  <2>1. taskRef'.cancelled /\ runAt' = runAt /\ result' = result
    BY <1>2 DEF ClickStop
  <2>2. QED
    BY <1>2, <2>1 DEF ClickStop, Loading
<1>3. CASE Wake
  BY <1>3 DEF Wake, EndQuietly, EndShowing, EndRun
<1>4. CASE RunStep /\ ~Wake
  BY <1>4 DEF RunStep, RunAccepted, RunRefused, RunThrows, PollFails, PollLive, PollDone,
       PollCancelled, PollFailed, LegacyOk, LegacyFails, EndShowing, EndQuietly,
       EndInError, EndRun
<1>5. CASE UNCHANGED <<stopSeen, result, runAt, taskRef>>
  BY <1>5
<1>6. QED
  BY <1>1, <1>2, <1>3, <1>4, <1>5
     DEF RunNext, runVars, CancelOk, CancelFails, ServiceStep

\* A stop pressed while the loop sleeps leaves the result on the page alone.
THEOREM StopKeepsResult == RunSpec => []StopWhileWaiting
<1>1. RunInit => StopInv
  BY DEF RunInit, StopInv, NotStopped
<1>2. StopInv => StopWhileWaiting
  BY DEF StopInv, StopWhileWaiting
<1>3. QED
  BY <1>1, <1>2, StopStep, PTL DEF RunSpec

-----------------------------------------------------------------------------
(* AiTab: what was loaded and what a save will replace.                    *)

LEMMA LoadedStep == LoadedTogether /\ [AiNext]_aiVars => LoadedTogether'
<1> SUFFICES ASSUME LoadedTogether, [AiNext]_aiVars
             PROVE  LoadedTogether'
  OBVIOUS
<1> USE DEF LoadedTogether
<1>1. CASE \E s \in Strategies : Pick(s)
  BY <1>1 DEF Pick, Empty
<1>2. CASE \E l \in loads : Loaded(l)
  BY <1>2 DEF Loaded, Text
<1>3. CASE ImportFile
  BY <1>3 DEF ImportFile
<1>4. ASSUME NEW s \in Strategies, Saved(s)
      PROVE  LoadedTogether'
  <2>1. CASE editor = saveReq.editor
    <3>1. loadedId' = s /\ editor' = [editor EXCEPT !.of = s]
      BY <1>4, <2>1 DEF Saved
    <3>2. editor.via = "load" => editor'.of = s
      BY <3>1
    <3>3. QED
      BY <3>1, <3>2
  <2>2. CASE editor # saveReq.editor
    BY <1>4, <2>2 DEF Saved
  <2>3. QED
    BY <2>1, <2>2
<1>5. CASE \E i \in Loops : PollAnswers(i)
  BY <1>5 DEF PollAnswers
<1>6. CASE UNCHANGED <<editor, loadedId, mixed>>
  BY <1>6
<1>7. QED
  BY <1>1, <1>2, <1>3, <1>4, <1>5, <1>6
     DEF AiNext, aiVars, Type, Generate, Tweak, StartLoop, StopLoop, ClickSave, NotSaved,
         PollStep, Posted, NotPosted, WakeLoop, PollLost, PollGoesOn, PollStops

\* What the list loaded and what a save will replace belong together.
THEOREM LoadedKeepsItsId == AiSpec => []LoadedTogether
<1>1. AiInit => LoadedTogether
  BY DEF AiInit, LoadedTogether, Empty
<1>2. QED
  BY <1>1, LoadedStep, PTL DEF AiSpec

-----------------------------------------------------------------------------
(* ChatPanel: what will take the busy mark off.                            *)

BusyInv == stops \in Nat /\ BusyBacked

LEMMA BusyStep == BusyInv /\ [ChatNext]_chatVars => BusyInv'
<1> SUFFICES ASSUME BusyInv, [ChatNext]_chatVars
             PROVE  BusyInv'
  OBVIOUS
<1> USE DEF BusyInv, BusyBacked
<1>1. CASE \E s \in Sessions : OpenSession(s) \/ DeleteSession(s)
  BY <1>1 DEF OpenSession, DeleteSession
<1>2. CASE NewSession \/ Send \/ Stop
  BY <1>2 DEF NewSession, Send, Stop, Show
<1>3. CASE \E o \in opens : SessionLoaded(o)
  BY <1>3 DEF SessionLoaded, Show
<1>4. CASE \E d \in deletes : SessionDeleted(d)
  BY <1>4 DEF SessionDeleted, Show
<1>5. CASE \E c \in sends : QuestionPosted(c) \/ SendFails(c)
  BY <1>5 DEF QuestionPosted, SendFails
<1>6. CASE \E c \in sends, s \in Sessions : SessionCreated(c, s)
  BY <1>6 DEF SessionCreated
<1>7. CASE Stopped
  BY <1>7 DEF Stopped
<1>8. CASE Delta \/ StreamEnds
  BY <1>8 DEF Delta, StreamEnds, Show
<1>9. CASE UNCHANGED chatVars
  BY <1>9 DEF chatVars
<1>10. QED
  BY <1>1, <1>2, <1>3, <1>4, <1>5, <1>6, <1>7, <1>8, <1>9 DEF ChatNext, ChatAnswers

\* While the conversation shown is marked busy, something will take the mark
\* off: a stream, a question on its way or a stop.
THEOREM BusyIsBacked == ChatSpec => []BusyBacked
<1>1. ChatInit => BusyInv
  BY DEF ChatInit, BusyInv, BusyBacked
<1>2. BusyInv => BusyBacked
  BY DEF BusyInv
<1>3. QED
  BY <1>1, <1>2, BusyStep, PTL DEF ChatSpec
=============================================================================
