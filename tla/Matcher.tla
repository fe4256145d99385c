------------------------------- MODULE Matcher -------------------------------
(***************************************************************************)
(* The matching engine of the backtest (apps/quant/app/engine/matcher.py,  *)
(* simulate): one pool of cash, trading days in order, on each day the     *)
(* exits first and then the entries.  Every symbol is one of the CN        *)
(* market, which has all the constraints (whole lots, T+1, price limits);  *)
(* the switches t1, price_limit and lot_size are on, as by default.        *)
(*                                                                         *)
(* The market data of a day is drawn when the day begins: one bar and the  *)
(* entry and exit signals that take effect on it.  A signal takes effect   *)
(* on one day only: on the day it is computed (close_t) or on the next one *)
(* (open_t+1, so that no signal takes effect on the first day).  A risk    *)
(* line is a whole percentage, Off when it is not configured.              *)
(***************************************************************************)
EXTENDS Integers, FiniteSetsExt, Functions

CONSTANTS Symbols,
          Rank,            \* their places in the order of the matrix
          Bars,            \* what a symbol's day may look like
          Days,            \* len(matrix.dates)
          Capital,         \* initial_capital
          LotSize,         \* 100
          Commission, MinCommission, StampTax, Slippage,    \* CostModel
          Configs,         \* the MatcherConfigs of the instance
          Off              \* None: the risk line is not configured

NaN   == 0     \* a missing price
Never == -1    \* before the first day

\* open, high, close: prices or NaN.  limit: where the close stands to the
\* price limits.  minute: the minute bars are missing, confirm the crossing
\* of the exit line, or do not; fill: the price they give.
BarType == [open : Nat, high : Nat, close : Nat,
            limit : {"none", "up", "down"},
            minute : {"missing", "confirmed", "quiet"}, fill : Nat \ {NaN}]

Percent == Nat \cup {Off}

ConfigType == [entry_fill : {"open_t+1", "close_t"},
               exit_fill : {"open_t+1", "close_t", "signal_next_minute"},
               minute_fill : BOOLEAN,
               loader : BOOLEAN,     \* simulate was given a minute_loader
               max_positions : Nat,
               stop_loss : Percent, trailing_stop : Percent,
               activate : Percent, drawdown : Percent,
               take_profit : Percent, max_hold : Percent]

ASSUME MatcherAssumption ==
  /\ IsFiniteSet(Symbols) /\ Rank \in [Symbols -> Nat]
  /\ Bars \subseteq BarType /\ Bars # {}
  /\ Configs \subseteq ConfigType
  /\ Days \in Nat \ {0} /\ Capital \in Nat /\ LotSize \in Nat \ {0}
  /\ {Commission, MinCommission, StampTax, Slippage} \subseteq Nat

VARIABLES
  config,      \* fixed when the simulation begins
  day,         \* i
  phase,       \* "dawn", "sell", "buy", "final" or "over"
  bar,         \* the bars of day i
  entry, exit, \* symbols whose entry or exit signal takes effect on day i
  todo,        \* positions the pass over the positions has still to visit
  batch,       \* candidates the entry pass has not visited
  slots,       \* how many of them it may still visit
  budget,      \* what the entry pass gives to each of its candidates
  cash, positions, cooldown,
  realised,    \* sum of the pnl of the trades other than "end"
  ended,       \* sum of the pnl of the "end" trades
  stopped,     \* the day of a symbol's last exit for risk, or Never
  quiet        \* its last day since then without an entry signal, or Never

market == <<bar, entry, exit>>
book   == <<cash, positions, cooldown, realised, stopped>>
vars   == <<config, day, phase, market, todo, batch, slots, budget, book, ended, quiet>>

Held == DOMAIN positions
Risk == {"risk", "take_profit"}   \* _RISK_EXIT_REASONS; "risk" stands for
                                  \* the three lines checked before a signal

Unread == CHOOSE b \in Bars : TRUE

Max2(a, b) == IF a >= b THEN a ELSE b
Min2(a, b) == IF a <= b THEN a ELSE b

Init ==
  /\ config \in Configs
  /\ day = 0 /\ phase = "dawn"
  /\ bar = [s \in Symbols |-> Unread]
  /\ entry = {} /\ exit = {}
  /\ todo = {} /\ batch = {} /\ slots = 0 /\ budget = 0
  /\ cash = Capital /\ positions = <<>> /\ cooldown = {}
  /\ realised = 0 /\ ended = 0
  /\ stopped = [s \in Symbols |-> Never]
  /\ quiet = [s \in Symbols |-> Never]

-----------------------------------------------------------------------------
(* Prices and constraints of day i. *)

\* CostModel, with rates in 1/100000, each part to the unit of money
Part(value, rate) == (value * rate) \div 100000
Brokerage(value)  == Max2(Part(value, Commission),
                          IF value > 0 THEN MinCommission ELSE 0)
BuyCost(value)    == Brokerage(value) + Part(value, Slippage)
SellCost(value)   == BuyCost(value) + Part(value, StampTax)

\* blocked_by_limit: the close stands at the limit; never on the first day.
Blocked(s, side) ==
  day > 0 /\ bar[s].limit = IF side = "buy" THEN "up" ELSE "down"

MinuteData(s) == config.loader /\ bar[s].minute # "missing"

\* minute_trigger_mode: an exit signal waits for a minute bar to confirm it.
\* Without a loader the signal leaves at the daily price.
Triggered(reason) ==
  config.exit_fill = "signal_next_minute" /\ config.loader /\ reason = "signal"

\* entry_price_of, minute_entry_price
EntryPrice(s) ==
  LET daily == IF config.entry_fill = "open_t+1" THEN bar[s].open ELSE bar[s].close
  IN  IF config.minute_fill /\ MinuteData(s) THEN bar[s].fill ELSE daily

\* exit_price_of, minute_exit_price where it fills
ExitPrice(s, reason) ==
  LET daily == IF config.exit_fill = "open_t+1" THEN bar[s].open ELSE bar[s].close
  IN  IF MinuteData(s) /\ (Triggered(reason) \/ config.minute_fill)
      THEN bar[s].fill ELSE daily

\* A confirmed exit signal that the day cannot fill: at the limit, or the
\* minute bars do not cross the line.
Unfilled(s, reason) ==
  Triggered(reason) /\ (Blocked(s, "sell") \/ bar[s].minute = "quiet")

\* The peak since entry, with the high of the day, or its close without one.
Peak(s) == LET b == bar[s]
           IN  Max2(positions[s].peak, IF b.high # NaN THEN b.high ELSE b.close)

\* stop_loss, trailing_stop and trailing_take_profit, by the close of the day
RiskLine(s, close) ==
  LET price == positions[s].price IN
  \/ config.stop_loss # Off /\ close * 100 <= price * (100 - config.stop_loss)
  \/ config.trailing_stop # Off /\ close * 100 <= Peak(s) * (100 - config.trailing_stop)
  \/ /\ config.activate # Off /\ config.drawdown # Off /\ Peak(s) > price
     /\ Peak(s) * 100 >= price * (100 + config.activate)
     /\ close * 100 <= Peak(s) * (100 - config.drawdown)

\* Why the position leaves on day i, given its close: risk, then signal, then
\* take_profit, then max_hold.
ExitReason(s, close) ==
  LET p == positions[s] IN
  IF RiskLine(s, close) THEN "risk"
  ELSE IF s \in exit THEN "signal"
  ELSE IF config.take_profit # Off
          /\ close * 100 >= p.price * (100 + config.take_profit) THEN "take_profit"
  ELSE IF config.max_hold # Off /\ day - p.day >= config.max_hold THEN "max_hold"
  ELSE "none"

-----------------------------------------------------------------------------
(* A day begins. *)

\* The data of the day, as far as it is read: the exit signals of the symbols
\* held, the bars of those and of the symbols with an entry signal.
Draw ==
  /\ entry' \in SUBSET Symbols /\ exit' \in SUBSET Held
  /\ day = 0 => /\ config.entry_fill = "open_t+1" => entry' = {}
                /\ config.exit_fill = "open_t+1" => exit' = {}
  /\ \E drawn \in [Held \cup entry' -> Bars] :
       bar' = [s \in Symbols |-> IF s \in DOMAIN drawn THEN drawn[s]
                                ELSE Unread]

\* Mutant: a cooldown lasts for a day, whatever the signal does.
DawnForgets ==
  /\ phase = "dawn"
  /\ Draw
  /\ cooldown' = {}
  /\ quiet' = [s \in Symbols |-> IF stopped[s] = Never \/ s \in entry'
                                 THEN quiet[s] ELSE day]
  /\ phase' = "sell" /\ todo' = Held
  /\ UNCHANGED <<config, day, batch, slots, budget, cash, positions, realised, ended,
                 stopped>>

\* A cooldown ends when no entry signal is in effect.
Dawn ==
  /\ phase = "dawn"
  /\ Draw
  /\ cooldown' = cooldown \cap entry'
  /\ quiet' = [s \in Symbols |-> IF stopped[s] = Never \/ s \in entry'
                                 THEN quiet[s] ELSE day]
  /\ phase' = "sell" /\ todo' = Held
  /\ UNCHANGED <<config, day, batch, slots, budget, cash, positions, realised, ended,
                 stopped>>

-----------------------------------------------------------------------------
(* The exit pass visits the positions. *)

Visit(s) == /\ phase = "sell" /\ s \in todo
            /\ todo' = todo \ {s}
            /\ UNCHANGED <<config, day, phase, market, batch, slots, budget, ended, quiet>>

Update(s, p) == positions' = [positions EXCEPT ![s] = p]

\* Mutant: the sale books its cost in the trade only.
LeaveCostFree(s, px, reason) ==
  LET p     == positions[s]
      value == p.shares * px
  IN  /\ cash' = cash + value
      /\ realised' = realised + (px - p.price) * p.shares - p.cost - SellCost(value)
      /\ positions' = Restrict(positions, Held \ {s})
      /\ IF reason \in Risk
         THEN cooldown' = cooldown \cup {s} /\ stopped' = [stopped EXCEPT ![s] = day]
         ELSE UNCHANGED <<cooldown, stopped>>

\* The position of s leaves at price px.
Leave(s, px, reason) ==
  LET p     == positions[s]
      value == p.shares * px
  IN  /\ cash' = cash + value - SellCost(value)
      /\ realised' = realised + (px - p.price) * p.shares - p.cost - SellCost(value)
      /\ positions' = Restrict(positions, Held \ {s})
      /\ IF reason \in Risk
         THEN cooldown' = cooldown \cup {s} /\ stopped' = [stopped EXCEPT ![s] = day]
         ELSE UNCHANGED <<cooldown, stopped>>

\* pending_exit: the day the exit was deferred on, or Never
Deferred(s) == positions[s].deferred # Never

\* No close: the symbol is suspended, the position is left alone.
Suspended(s) == Visit(s) /\ bar[s].close = NaN /\ UNCHANGED book

\* A deferred exit is sold at the open, whatever exit_fill says.
OpenSells(s) == /\ positions[s].day # day /\ ~Blocked(s, "sell")
                /\ bar[s].open # NaN

\* An exit deferred from an earlier day comes before any other reason ...
LeaveDeferred(s) ==
  /\ Visit(s) /\ bar[s].close # NaN /\ Deferred(s) /\ OpenSells(s)
  /\ Leave(s, bar[s].open, "signal")

\* Mutant: a deferred exit waits for the minute bars again.
StayDeferredUnconfirmed(s) ==
  /\ Visit(s) /\ bar[s].close # NaN /\ Deferred(s)
  /\ bar[s].minute = "quiet"
  /\ UNCHANGED book

\* ... or stays deferred when it cannot be sold.
StayDeferred(s) ==
  /\ Visit(s) /\ bar[s].close # NaN /\ Deferred(s) /\ ~OpenSells(s)
  /\ UNCHANGED book

\* A position that is not deferred is looked at for a reason to leave.
Examine(s) == Visit(s) /\ bar[s].close # NaN /\ ~Deferred(s)

Reason(s) == ExitReason(s, bar[s].close)

\* T+1: what was bought today stays.
MayLeave(s) == Reason(s) # "none" /\ positions[s].day # day

MustDefer(s) == MayLeave(s) /\ Unfilled(s, Reason(s))
CanLeave(s)  == /\ MayLeave(s) /\ ~Blocked(s, "sell")
                /\ ~Unfilled(s, Reason(s)) /\ ExitPrice(s, Reason(s)) # NaN

\* No reason, or one that T+1, the price limit or a missing price blocks: the
\* position stays and is examined afresh on the next day.
Stay(s) ==
  /\ Examine(s) /\ ~CanLeave(s) /\ ~MustDefer(s)
  /\ Update(s, [positions[s] EXCEPT !.peak = Peak(s)])
  /\ UNCHANGED <<cash, cooldown, realised, stopped>>

\* The signal is confirmed but not filled: the exit is deferred.
Defer(s) ==
  /\ Examine(s) /\ MustDefer(s)
  /\ Update(s, [positions[s] EXCEPT !.peak = Peak(s), !.deferred = day])
  /\ UNCHANGED <<cash, cooldown, realised, stopped>>

LeaveNow(s) == /\ Examine(s) /\ CanLeave(s)
               /\ Leave(s, ExitPrice(s, Reason(s)), Reason(s))

-----------------------------------------------------------------------------
(* The entry pass. *)

\* A symbol that a position could be opened in today.
Candidate(s) ==
  /\ s \notin Held \cup cooldown /\ s \in entry
  /\ bar[s].close # NaN
  /\ (IF config.entry_fill = "open_t+1" THEN bar[s].open ELSE bar[s].close) # NaN
  /\ ~Blocked(s, "buy")

Candidates == {s \in Symbols : Candidate(s)}

\* Mutant: the candidates are not cut to the free slots.
SelectAll ==
  /\ phase = "sell" /\ todo = {}
  /\ batch' = Candidates
  /\ slots' = Cardinality(Candidates)
  /\ budget' = IF slots' > 0 THEN cash \div slots' ELSE 0
  /\ phase' = "buy"
  /\ UNCHANGED <<config, day, market, todo, book, ended, quiet>>

\* As many candidates as there are slots are visited, in the order of the
\* matrix; the cash is divided among them.
Select ==
  /\ phase = "sell" /\ todo = {}
  /\ batch' = Candidates
  /\ slots' = Max2(0, Min2(config.max_positions - Cardinality(Held),
                          Cardinality(Candidates)))
  /\ budget' = IF slots' > 0 THEN cash \div slots' ELSE 0
  /\ phase' = "buy"
  /\ UNCHANGED <<config, day, market, todo, book, ended, quiet>>

\* Mutant: the shares are not rounded down to whole lots.
SharesOdd(s) ==
  LET base  == Max2(budget, 1)
      alloc == Min2(budget, (cash * base) \div (base + BuyCost(base)))
  IN  alloc \div EntryPrice(s)

\* Whole lots for the budget, its transaction costs reserved.
Shares(s) ==
  LET base  == Max2(budget, 1)
      alloc == Min2(budget, (cash * base) \div (base + BuyCost(base)))
  IN  (alloc \div (EntryPrice(s) * LotSize)) * LotSize

\* The entry pass visits s, the next candidate, while there is cash.
Consider(s) ==
  /\ phase = "buy" /\ slots > 0 /\ cash > 0
  /\ s \in batch /\ \A t \in batch : Rank[s] <= Rank[t]
  /\ batch' = batch \ {s} /\ slots' = slots - 1
  /\ UNCHANGED <<config, day, phase, market, todo, budget, cooldown, realised,
                 stopped, ended, quiet>>

\* At least one lot, and its value and cost are covered by the cash.
Affordable(s) == LET value == Shares(s) * EntryPrice(s)
                 IN  Shares(s) > 0 /\ value + BuyCost(value) <= cash

NewPosition(s, shares) ==
  [shares |-> shares, price |-> EntryPrice(s), day |-> day,
   cost |-> BuyCost(shares * EntryPrice(s)), peak |-> EntryPrice(s),
   deferred |-> Never]

\* Mutant: the budget is spent, whatever cash its costs leave.
EnterByBudget(s) ==
  /\ Consider(s) /\ Affordable(s)
  /\ LET p == NewPosition(s, (budget \div (EntryPrice(s) * LotSize)) * LotSize)
     IN  /\ cash' = cash - (p.shares * p.price + p.cost)
         /\ positions' = [t \in Held \cup {s} |-> IF t = s THEN p ELSE positions[t]]

\* A position is opened.
Enter(s) ==
  /\ Consider(s) /\ Affordable(s)
  /\ LET p == NewPosition(s, Shares(s))
     IN  /\ cash' = cash - (p.shares * p.price + p.cost)
         /\ positions' = [t \in Held \cup {s} |-> IF t = s THEN p ELSE positions[t]]

\* The budget does not buy a lot.
PassOver(s) ==
  /\ Consider(s) /\ ~Affordable(s)
  /\ UNCHANGED <<cash, positions>>

\* No candidate is left to visit, or no cash.  After the last day the positions that
\* are left are closed.
Dusk ==
  /\ phase = "buy" /\ (slots = 0 \/ cash <= 0)
  /\ batch' = {} /\ slots' = 0 /\ budget' = 0
  /\ IF day + 1 < Days
     THEN /\ phase' = "dawn" /\ day' = day + 1 /\ todo' = todo
          /\ entry' = {} /\ exit' = {} /\ bar' = [s \in Symbols |-> Unread]
     ELSE /\ phase' = "final" /\ todo' = Held /\ UNCHANGED <<day, market>>
  /\ UNCHANGED <<config, book, ended, quiet>>

\* A trade "end" at the last close, or at the entry price of a suspended
\* symbol.  It is only reported: cash and positions stay.
Liquidate(s) ==
  /\ phase = "final" /\ s \in todo
  /\ LET p     == positions[s]
         px    == IF bar[s].close = NaN THEN p.price ELSE bar[s].close
         value == p.shares * px
     IN  ended' = ended + (px - p.price) * p.shares - p.cost - SellCost(value)
  /\ todo' = todo \ {s}
  /\ UNCHANGED <<config, day, phase, market, batch, slots, budget, book, quiet>>

Stop ==
  /\ phase = "final" /\ todo = {}
  /\ phase' = "over"
  /\ UNCHANGED <<config, day, market, todo, batch, slots, budget, book, ended, quiet>>

Sell(s) == \/ Suspended(s) \/ LeaveDeferred(s) \/ StayDeferred(s)
           \/ Stay(s) \/ Defer(s) \/ LeaveNow(s)

Buy(s) == Enter(s) \/ PassOver(s)

Next == \/ Dawn \/ Select \/ Dusk \/ Stop
        \/ \E s \in Symbols : Sell(s) \/ Buy(s) \/ Liquidate(s)

Spec == Init /\ [][Next]_vars

-----------------------------------------------------------------------------
(* Properties. *)

TypeOK ==
  /\ day \in 0 .. Days - 1
  /\ phase \in {"dawn", "sell", "buy", "final", "over"}
  /\ bar \in [Symbols -> Bars]
  /\ entry \subseteq Symbols /\ exit \subseteq Symbols
  /\ cooldown \subseteq Symbols
  /\ todo \subseteq Held
  /\ batch \subseteq Symbols /\ slots \in Nat /\ budget \in Int
  /\ cash \in Int /\ realised \in Int /\ ended \in Int
  /\ Held \subseteq Symbols
  /\ \A s \in Held : LET p == positions[s] IN
       /\ p.shares \in Nat \ {0} /\ p.shares % LotSize = 0
       /\ p.price \in Nat \ {NaN} /\ p.peak \in Nat /\ p.cost \in Nat
       /\ p.day \in 0 .. day /\ p.deferred \in Never .. day
  /\ stopped \in [Symbols -> Never .. Days - 1]
  /\ quiet \in [Symbols -> Never .. Days - 1]

\* The cash and what the open positions cost are the capital and the pnl of
\* the trades: no exit, entry or cost is booked twice or on one side only.
Books == cash + MapThenSumSet(LAMBDA s : positions[s].shares * positions[s].price
                                         + positions[s].cost, Held)
         = Capital + realised

\* The account is never overdrawn, whatever the order of the candidates of a
\* day (the budget is cut to the cash left, not to its share), provided that
\* selling a lot or more costs no more than it brings in: a sale whose costs
\* exceed its value may take the account below zero (NeverOverdrawn has this
\* as its assumption, and the rates of the instance meet it).
Solvent == cash >= 0

\* No more positions are held than max_positions, also when some leave and
\* several enter on one day.
WithinSlots == Cardinality(Held) <= config.max_positions

\* After an exit for risk, a symbol is entered again only after a day without
\* an entry signal: a signal that stays up does not buy back what a stop sold
\* (comment on _RISK_EXIT_REASONS).
NoEarlyReentry ==
  [][\A s \in Held' \ Held : stopped[s] # Never => stopped[s] < quiet[s]]_vars

\* A deferred exit leaves on the first later day on which the symbol trades
\* and is not at its limit (pending_exit).
DeferredLeaves ==
  phase = "buy" =>
    \A s \in Held : positions[s].deferred \in 0 .. day - 1 =>
       \/ bar[s].close = NaN \/ bar[s].open = NaN
       \/ Blocked(s, "sell")

\* An exit that fills at today's open does not depend on today's close ("no
\* knowledge of the future is an iron rule", matcher.py, module docstring).
NoForesight ==
  phase = "sell" /\ config.exit_fill = "open_t+1" /\ ~config.minute_fill =>
    \A s \in todo : ~Deferred(s) /\ bar[s].close # NaN =>
      \A b \in Bars : b.close # NaN =>
        (ExitReason(s, b.close) = "none") = (ExitReason(s, bar[s].close) = "none")
=============================================================================
