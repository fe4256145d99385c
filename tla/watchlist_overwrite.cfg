SPECIFICATION WatchSpec
CONSTANTS
  sym1 = sym1
  Watch = watch
  Nobody = nobody
  Tabs = {tab1, tab2}
  WatchSymbols = {sym1}
  Names = {name1}
  Strips = {tab2}
  Closing = {tab1}
  Ops = {1, 2}
  Attempts = 2
  FirstValues <- Firsts
INVARIANT AdditionsKept
CHECK_DEADLOCK FALSE
