------------------------------- MODULE MCLiveParts -------------------------------
(***************************************************************************)
(* The backtest service, the parts of the pages and the cache of the       *)
(* market lists, which share no state, checked in one run with the         *)
(* fairness of each: each behaviour is a behaviour of the part that its    *)
(* first state chooses, the others stand still.  Bounds are given here, in *)
(* MCBacktestService and in live_parts.cfg.                                *)
(***************************************************************************)
EXTENDS MCBacktestService, QuoteBoard, BacktestTab, AiTab, ChatPanel, UniverseCache

CONSTANTS sym1, sym2, strat1, strat2

VARIABLE part

partsVars == <<vars, boardVars, runVars, aiVars, chatVars, universeVars>>

SomeSymbols == {{}, {sym1}, {sym1, sym2}}
Libraries == {{strat1}, {strat1, strat2}}

PartsInit ==
  /\ part \in {"service", "quotes", "list", "backtest", "ai", "chat", "universe"}
  /\ Init /\ BoardInit /\ RunInit /\ AiInit /\ ChatInit /\ UniverseInit
  \* one first state of the parts that stand still
  /\ part # "quotes" => symbolKey = {}
  /\ part # "list" => listType = CHOOSE ty \in ListTypes : TRUE
  /\ part # "ai" => library = Strategies

Only(p, act, others) == part = p /\ act /\ UNCHANGED <<part, others>>

PartsNext ==
  \/ Only("service", Next, <<boardVars, runVars, aiVars, chatVars, universeVars>>)
  \/ Only("quotes", QuoteNext, <<vars, runVars, aiVars, chatVars, universeVars>>)
  \/ Only("list", ListNext, <<vars, runVars, aiVars, chatVars, universeVars>>)
  \/ Only("backtest", RunNext, <<vars, boardVars, aiVars, chatVars, universeVars>>)
  \/ Only("ai", AiNext, <<vars, boardVars, runVars, chatVars, universeVars>>)
  \/ Only("chat", ChatNext, <<vars, boardVars, runVars, aiVars, universeVars>>)
  \/ Only("universe", UniverseNext, <<vars, boardVars, runVars, aiVars, chatVars>>)

\* The parts' own fairness, for the part that moves.
ServiceFairness ==
  /\ \A t \in Tasks : /\ WF_vars(part = "service" /\ Begin(t))
                      /\ WF_vars(part = "service" /\ Finish(t))
  /\ \A j \in Jobs \ Tasks : WF_vars(part = "service" /\ Answer(j))
  /\ \A j \in Jobs :
       /\ WF_vars(part = "service" /\ Progress(j))
       /\ WF_vars(part = "service" /\ LoopStep(j) /\ UNCHANGED taskVars)
       /\ WF_vars(part = "service" /\ ThreadStep(j) /\ UNCHANGED taskVars)
       /\ WF_vars(part = "service" /\ (Feed(j) \/ Exit(j)) /\ UNCHANGED taskVars)

PartsFairness ==
  /\ ServiceFairness
  /\ WF_runVars(part = "backtest" /\ RunStep)
  /\ \A r \in Runs : WF_runVars(part = "backtest" /\ TaskEnds(r) /\ ServiceStep(r))
  /\ \A i \in Loops : /\ WF_aiVars(part = "ai" /\ PollStep(i))
                      /\ SF_aiVars(part = "ai" /\ (PollAnswers(i) \/ PollStops(i)))
  /\ WF_chatVars(part = "chat" /\ ChatAnswers)
  /\ WF_chatVars(part = "chat" /\ StreamEnds)
  /\ \A c \in Callers : WF_universeVars(part = "universe" /\ Step(c))

PartsSpec == PartsInit /\ [][PartsNext]_<<part, partsVars>> /\ PartsFairness
=============================================================================
