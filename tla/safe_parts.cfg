SPECIFICATION PartsSpec
CONSTANTS
  sa = sa
  sb = sb
  Symbols <- TwoSymbols
  Rank <- FirstA
  Bars <- MinuteDays
  Days = 4
  Capital = 20
  LotSize = 2
  Commission = 25
  MinCommission = 1
  StampTax = 6250
  Slippage = 1000
  Configs <- FourConfigs
  Off = off
  sym1 = sym1
  Watch = watch
  Nobody = nobody
  Tabs = {tab1, tab2}
  WatchSymbols = {sym1}
  Names = {name1}
  Strips = {tab2}
  Closing = {tab1}
  Ops = {1, 2}
  Attempts = 2
  FirstValues <- Firsts
  service = service
  job1 = job1
  job2 = job2
  Processes = {service, job1, job2}
  ModeOf <- SomeModes
  NoMode = nomode
  NoHolder = noholder
  Rows = {row1, row2}
  Stamped = {row1}
  Marked = {row2}
  SeedJobs = {job1, job2}
  Cleans = {clean1}
  NoRow = norow
  Other = other
  Versions = {text1, text2}
  Untimed = untimed
  Unpicked = unpicked
INVARIANTS TypeOK Books Solvent WithinSlots DeferredLeaves
INVARIANTS PagesConverge SymbolsKept ItemsHaveGroups OneMode
PROPERTIES NoEarlyReentry StorePromise OthersKept CleanedIsGone
CHECK_DEADLOCK FALSE
