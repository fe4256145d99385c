SPECIFICATION PartsSpec
CONSTANTS
  t1 = t1
  s1 = s1
  o1 = o1
  NoSem = nosem
  LoopOf <- MainLoop
  Tasks <- OneTask
  Jobs <- TaskAndSync
  PoolSize = 1
  MaxProgress = 1
  MaxActive = 2
  sym1 = sym1
  sym2 = sym2
  strat1 = strat1
  strat2 = strat2
  SymbolSets <- SomeSymbols
  ListTypes = {"gainers", "losers"}
  MaxQuotes = 4
  MaxChanges = 2
  MaxRuns = 2
  MaxStops = 2
  RunWarn = 1
  RunGiveUp = 2
  Strategies = {strat1, strat2}
  None = none
  FirstLibraries <- Libraries
  MaxLoops = 2
  MaxUses = 3
  AiGiveUp = 2
  Sessions = {chat1, chat2, chat3}
  FirstMade = {chat1, chat2}
  NoSession = nochat
  MaxClicks = 3
  Callers = {call1, call2, call3}
  LongLife = 3
  ShortLife = 1
  MaxTime = 4
  MaxCalls = 5
INVARIANTS TypeOK SlotsAccounted ChildrenBounded NoOrphans
INVARIANTS QuotesMatchSymbols LoadingBacked ListMatchesType
INVARIANTS StopWhileWaiting LoadedTogether BusyBacked
PROPERTIES CancelStopsChild ResultFreesSlot SettlesUnlessLost
PROPERTIES RunEnds LoopsEnd ChatBusyEnds
PROPERTIES FetchesSpaced CallsAnswered
CHECK_DEADLOCK FALSE
