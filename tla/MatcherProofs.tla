---------------------------- MODULE MatcherProofs ----------------------------
(***************************************************************************)
(* Theorems of Matcher, for any symbols, bars, configurations and costs.   *)
(***************************************************************************)
EXTENDS Matcher, FiniteTheorems, TLAPS

-----------------------------------------------------------------------------
(* Arithmetic of the helpers. *)

LEMMA DivType == ASSUME NEW m \in Int, NEW n \in Nat \ {0} PROVE m \div n \in Int
OBVIOUS

LEMMA LotsWhole == ASSUME NEW n \in Int, NEW l \in Nat \ {0} PROVE (n * l) % l = 0
OBVIOUS

LEMMA LotsPositive ==
  ASSUME NEW n \in Int, NEW l \in Nat \ {0}, n * l > 0
  PROVE  n * l \in Nat \ {0} /\ n * l >= l
<1>1. n >= 1 OBVIOUS
<1>2. n * l >= l BY <1>1
<1> QED BY <1>2

LEMMA ValueOfLots ==
  ASSUME NEW n \in Nat, NEW p \in Nat \ {0}, NEW l \in Nat, n >= l
  PROVE  n * p \in Nat /\ n * p >= l
OBVIOUS

\* What a trade costs is a natural number.
LEMMA CostType ==
  ASSUME NEW value \in Nat
  PROVE  BuyCost(value) \in Nat /\ SellCost(value) \in Nat
<1>1. \A rate \in Nat : Part(value, rate) \in Nat
  BY DEF Part
<1>2. {Commission, MinCommission, StampTax, Slippage} \subseteq Nat
  BY MatcherAssumption
<1> QED BY <1>1, <1>2 DEF BuyCost, SellCost, Brokerage, Max2

-----------------------------------------------------------------------------
(* Types.  Position says what TypeOK says of each position, as a set. *)

Position == [shares : Nat \ {0}, price : Nat \ {NaN}, day : Nat, cost : Nat,
             peak : Nat, deferred : Int]

Typed ==
  /\ TypeOK
  /\ config \in Configs
  /\ positions \in [Held -> Position]

LEMMA BarFields ==
  ASSUME Typed, NEW s \in Symbols
  PROVE  /\ bar[s].open \in Nat /\ bar[s].high \in Nat /\ bar[s].close \in Nat
         /\ bar[s].fill \in Nat \ {NaN}
BY MatcherAssumption DEF Typed, TypeOK, BarType

\* A price other than NaN is positive.
LEMMA PriceType ==
  ASSUME Typed, NEW s \in Symbols, NEW reason
  PROVE  EntryPrice(s) \in Nat /\ ExitPrice(s, reason) \in Nat
BY BarFields DEF EntryPrice, ExitPrice, MinuteData, Triggered

LEMMA PeakType ==
  ASSUME Typed, NEW s \in Held
  PROVE  Peak(s) \in Nat
BY BarFields DEF Typed, TypeOK, Position, Peak, Max2

LEMMA UnreadType == Unread \in Bars
BY MatcherAssumption DEF Unread

LEMMA TypedInit == Init => Typed
<1> SUFFICES ASSUME Init PROVE Typed
  OBVIOUS
<1>1. Held = {}
  BY DEF Init, Held
<1>2. positions \in [Held -> Position]
  BY <1>1 DEF Init, Held
<1> QED BY <1>1, <1>2, MatcherAssumption, UnreadType
        DEF Init, Typed, TypeOK, Never

-----------------------------------------------------------------------------
(* What a visit does to the positions. *)

LEMMA LeaveEffect ==
  ASSUME Typed, NEW s \in Held, NEW px \in Nat \ {NaN}, NEW reason,
         Leave(s, px, reason)
  PROVE  /\ Held' = Held \ {s}
         /\ positions' \in [Held' -> Position]
         /\ \A t \in Held' : positions'[t] = positions[t]
         /\ cash' \in Int /\ realised' \in Int
         /\ cooldown' \subseteq Symbols
<1> DEFINE p == positions[s]
           value == p.shares * px
<1>1. p \in Position /\ s \in Symbols
  BY DEF Typed, TypeOK
<1>2. value \in Nat
  BY <1>1, ValueOfLots DEF Position
<1>3. SellCost(value) \in Nat
  BY <1>2, CostType
<1>4. cash' \in Int
  <2>1. cash' = cash + value - SellCost(value)
    BY DEF Leave
  <2> HIDE DEF value
  <2> QED BY <2>1, <1>2, <1>3 DEF Typed, TypeOK
<1>5. realised' \in Int
  <2>1. realised' = realised + (px - p.price) * p.shares - p.cost - SellCost(value)
    BY DEF Leave
  <2>2. (px - p.price) * p.shares \in Int /\ p.cost \in Int
    BY <1>1 DEF Position
  <2> HIDE DEF value, p
  <2> QED BY <2>1, <2>2, <1>3 DEF Typed, TypeOK
<1>6. positions' = [t \in Held \ {s} |-> positions[t]]
  BY DEF Leave, Restrict
<1> QED BY <1>1, <1>4, <1>5, <1>6 DEF Leave, Held, Typed, TypeOK

LEMMA UpdateEffect ==
  ASSUME Typed, NEW s \in Held, NEW p \in Position, Update(s, p)
  PROVE  /\ Held' = Held
         /\ positions' \in [Held' -> Position]
         /\ positions'[s] = p
         /\ \A t \in Held : t # s => positions'[t] = positions[t]
BY DEF Typed, TypeOK, Held, Update

\* What Stay and Defer write: only the peak and the deferral change.
LEMMA NewPeakType ==
  ASSUME Typed, NEW s \in Held
  PROVE  /\ [positions[s] EXCEPT !.peak = Peak(s)] \in Position
         /\ [positions[s] EXCEPT !.peak = Peak(s), !.deferred = day] \in Position
<1> DEFINE p == positions[s]
           q == Peak(s)
<1>1. p \in Position /\ q \in Nat /\ day \in Int
  BY PeakType DEF Typed, TypeOK
<1> HIDE DEF p, q
<1>2. /\ [p EXCEPT !.peak = q] \in Position
      /\ [p EXCEPT !.peak = q, !.deferred = day] \in Position
  BY <1>1 DEF Position
<1> QED BY <1>2 DEF p, q

-----------------------------------------------------------------------------
(* The types are kept, with what the entry pass knows of its candidates. *)

Frame ==
  /\ phase \notin {"sell", "final"} => todo = {}
  /\ phase # "buy" => batch = {} /\ slots = 0
  /\ \A s \in batch : s \notin Held \cup cooldown /\ EntryPrice(s) # NaN

LEMMA FrameInit == Init => Frame
BY DEF Init, Frame

LEMMA TypedDawn ==
  ASSUME Typed, Frame, Dawn
  PROVE  Typed' /\ Frame'
<1>1. bar' \in [Symbols -> Bars]
  BY UnreadType DEF Dawn, Draw, Typed, TypeOK
<1>2. entry' \subseteq Symbols /\ exit' \subseteq Symbols
  BY DEF Dawn, Draw, Typed, TypeOK
<1>3. quiet' \in [Symbols -> Never .. Days - 1]
  <2>1. day \in Never .. Days - 1 /\ quiet \in [Symbols -> Never .. Days - 1]
    BY MatcherAssumption DEF Typed, TypeOK, Never
  <2>2. quiet' = [s \in Symbols |-> IF stopped[s] = Never \/ s \in entry'
                                   THEN quiet[s] ELSE day]
    BY DEF Dawn
  <2> QED BY <2>1, <2>2
<1>4. Held' = Held /\ todo' = Held /\ batch' = {} /\ slots' = 0
  BY DEF Dawn, Held, Frame
<1>5. Typed'
  BY <1>1, <1>2, <1>3, <1>4 DEF Dawn, Typed, TypeOK
<1> QED BY <1>4, <1>5 DEF Frame, Dawn

LEMMA TypedVisit ==
  ASSUME Typed, Frame, NEW s \in Symbols, Sell(s)
  PROVE  Typed' /\ Frame'
<1>1. /\ phase = "sell" /\ phase' = "sell" /\ s \in todo /\ todo' = todo \ {s}
      /\ s \in Held
      /\ UNCHANGED <<config, day, bar, entry, exit, batch, slots, budget, ended, quiet>>
  BY DEF Sell, Suspended, LeaveDeferred, StayDeferred, Stay, Defer, LeaveNow,
         Examine, Visit, market, Typed, TypeOK
<1>2. Frame'
  BY <1>1 DEF Frame
<1>3. CASE UNCHANGED book
  BY <1>1, <1>2, <1>3 DEF book, Held, Typed, TypeOK
<1>4. ASSUME NEW p \in Position, Update(s, p),
             p.shares = positions[s].shares, p.day = positions[s].day,
             p.deferred \in Never .. day,
             UNCHANGED <<cash, cooldown, realised, stopped>>
      PROVE  Typed'
  <2>1. /\ Held' = Held /\ positions' \in [Held' -> Position] /\ positions'[s] = p
        /\ \A t \in Held : t # s => positions'[t] = positions[t]
    BY <1>1, <1>4, UpdateEffect
  <2>3. \A t \in Held' : /\ positions'[t].shares % LotSize = 0
                        /\ positions'[t].day \in 0 .. day'
                        /\ positions'[t].deferred \in Never .. day'
    BY <1>1, <1>4, <2>1 DEF Typed, TypeOK
  <2>4. \A t \in Held' : /\ positions'[t].shares \in Nat \ {0}
                        /\ positions'[t].price \in Nat \ {NaN}
                        /\ positions'[t].peak \in Nat /\ positions'[t].cost \in Nat
    BY <2>1 DEF Position
  <2> QED BY <1>1, <1>4, <2>1, <2>3, <2>4 DEF Typed, TypeOK
<1>5. ASSUME NEW px \in Nat \ {NaN}, NEW reason, Leave(s, px, reason)
      PROVE  Typed'
  <2>1. /\ Held' = Held \ {s} /\ positions' \in [Held' -> Position]
        /\ \A t \in Held' : positions'[t] = positions[t]
        /\ cash' \in Int /\ realised' \in Int /\ cooldown' \subseteq Symbols
    BY <1>1, <1>5, LeaveEffect
  <2>2. stopped' \in [Symbols -> Never .. Days - 1]
    BY <1>5 DEF Leave, Typed, TypeOK, Never
  <2> QED BY <1>1, <2>1, <2>2 DEF Typed, TypeOK
<1>6. CASE Stay(s)
  <2>1. PICK p \in Position : p = [positions[s] EXCEPT !.peak = Peak(s)]
    BY <1>1, NewPeakType
  <2>2. /\ p.deferred \in Never .. day
        /\ p.shares = positions[s].shares /\ p.day = positions[s].day
    BY <1>1, <2>1 DEF Typed, TypeOK, Position
  <2>3. Update(s, p) /\ UNCHANGED <<cash, cooldown, realised, stopped>>
    BY <1>6, <2>1 DEF Stay, Update
  <2> QED BY <1>2, <1>4, <2>2, <2>3
<1>7. CASE Defer(s)
  <2>1. PICK p \in Position :
          p = [positions[s] EXCEPT !.peak = Peak(s), !.deferred = day]
    BY <1>1, NewPeakType
  <2>2. /\ p.deferred \in Never .. day
        /\ p.shares = positions[s].shares /\ p.day = positions[s].day
    BY <1>1, <2>1 DEF Typed, TypeOK, Position, Never
  <2>3. Update(s, p) /\ UNCHANGED <<cash, cooldown, realised, stopped>>
    BY <1>7, <2>1 DEF Defer, Update
  <2> QED BY <1>2, <1>4, <2>2, <2>3
<1>8. CASE LeaveDeferred(s)
  <2>1. PICK px \in Nat \ {NaN} : px = bar[s].open
    BY <1>8, BarFields DEF LeaveDeferred, OpenSells
  <2>2. Leave(s, px, "signal")
    BY <1>8, <2>1 DEF LeaveDeferred, Leave
  <2> QED BY <1>2, <1>5, <2>2
<1>9. CASE LeaveNow(s)
  <2>1. PICK px \in Nat \ {NaN} : px = ExitPrice(s, Reason(s))
    BY <1>9, PriceType DEF LeaveNow, CanLeave
  <2>2. PICK reason : reason = Reason(s)
    OBVIOUS
  <2>3. Leave(s, px, reason)
    BY <1>9, <2>1, <2>2 DEF LeaveNow, Leave
  <2> QED BY <1>2, <1>5, <2>3
<1>10. CASE Suspended(s) \/ StayDeferred(s)
  BY <1>3, <1>10 DEF Suspended, StayDeferred
<1> QED BY <1>2, <1>6, <1>7, <1>8, <1>9, <1>10 DEF Sell

LEMMA TypedSelect ==
  ASSUME Typed, Frame, Select
  PROVE  Typed' /\ Frame'
<1>1. Held' = Held /\ batch' = Candidates /\ phase' = "buy" /\ todo' = {}
  BY DEF Select, book, Held
<1>2. IsFiniteSet(Held) /\ IsFiniteSet(Candidates)
  BY MatcherAssumption, FS_Subset DEF Candidates, Typed, TypeOK
<1>3. slots' \in Nat
  <2>1. Cardinality(Held) \in Nat /\ Cardinality(Candidates) \in Nat
    BY <1>2, FS_CardinalityType
  <2>2. config.max_positions \in Nat
    BY MatcherAssumption DEF Typed, ConfigType
  <2> QED BY <2>1, <2>2 DEF Select, Max2, Min2
<1>4. budget' \in Int
  BY <1>3, DivType DEF Select, Typed, TypeOK
<1>5. \A s \in Candidates : EntryPrice(s) # NaN
  BY BarFields DEF Candidates, Candidate, EntryPrice
<1>6. \A s \in Symbols : EntryPrice(s)' = EntryPrice(s)
  BY DEF Select, market, EntryPrice, MinuteData
<1>7. Frame'
  BY <1>1, <1>5, <1>6 DEF Frame, Candidates, Candidate, Select, book
<1>8. Typed'
  BY <1>1, <1>3, <1>4 DEF Select, market, book, Candidates, Typed, TypeOK, Never
<1> QED BY <1>7, <1>8

\* What a candidate is entered with.
LEMMA SharesType ==
  ASSUME Typed, Frame, NEW s \in Symbols, s \in batch
  PROVE  Shares(s) \in Int /\ Shares(s) % LotSize = 0
<1> DEFINE base == Max2(budget, 1)
           den  == base + BuyCost(base)
           alloc == Min2(budget, (cash * base) \div den)
           px == EntryPrice(s)
<1>1. base \in Nat \ {0}
  BY DEF Max2, Typed, TypeOK
<1>2. den \in Nat \ {0}
  <2> HIDE DEF base
  <2> QED BY <1>1, CostType
<1>3. cash * base \in Int /\ budget \in Int
  BY <1>1 DEF Typed, TypeOK
<1>4. alloc \in Int
  <2> HIDE DEF base, den
  <2>1. (cash * base) \div den \in Int
    BY <1>2, <1>3, DivType
  <2> QED BY <1>3, <2>1 DEF Min2
<1>5. px * LotSize \in Nat \ {0}
  BY PriceType, MatcherAssumption DEF Frame, NaN
<1>6. alloc \div (px * LotSize) \in Int
  <2> HIDE DEF alloc, px
  <2> QED BY <1>4, <1>5, DivType
<1> HIDE DEF alloc, px
<1>7. Shares(s) = (alloc \div (px * LotSize)) * LotSize
  BY DEF Shares, alloc, px
<1> QED BY <1>6, <1>7, LotsWhole, MatcherAssumption

LEMMA NewPositionType ==
  ASSUME Typed, Frame, NEW s \in Symbols, s \in batch, Affordable(s)
  PROVE  /\ NewPosition(s, Shares(s)) \in Position
         /\ NewPosition(s, Shares(s)).shares % LotSize = 0
         /\ NewPosition(s, Shares(s)).day = day
         /\ NewPosition(s, Shares(s)).deferred = Never
<1> DEFINE n == Shares(s)
           px == EntryPrice(s)
<1>1. n \in Nat \ {0} /\ n % LotSize = 0
  BY SharesType DEF Affordable
<1>2. px \in Nat \ {NaN}
  BY PriceType DEF Frame
<1>3. day \in Nat
  BY DEF Typed, TypeOK
<1> HIDE DEF n, px
<1>4. n * px \in Nat
  BY <1>1, <1>2
<1>5. BuyCost(n * px) \in Nat
  BY <1>4, CostType
<1>6. NewPosition(s, n)
      = [shares |-> n, price |-> px, day |-> day, cost |-> BuyCost(n * px),
         peak |-> px, deferred |-> Never]
  BY DEF NewPosition, px
<1>7. NewPosition(s, n) \in Position /\ NewPosition(s, n).shares % LotSize = 0
      /\ NewPosition(s, n).day = day /\ NewPosition(s, n).deferred = Never
  BY <1>1, <1>2, <1>3, <1>5, <1>6 DEF Position, Never
<1> QED BY <1>7 DEF n

\* What Enter does to the positions.
LEMMA EnterEffect ==
  ASSUME Typed, Frame, NEW s \in Symbols, Enter(s)
  PROVE  /\ s \notin Held /\ s \notin cooldown
         /\ Held' = Held \cup {s}
         /\ positions' \in [Held' -> Position]
         /\ positions'[s].shares % LotSize = 0 /\ positions'[s].day = day
         /\ positions'[s].deferred = Never
         /\ \A t \in Held : positions'[t] = positions[t]
         /\ cash' \in Int /\ cash' >= 0
<1> DEFINE p == NewPosition(s, Shares(s))
<1>1. s \in batch /\ Affordable(s) /\ s \notin Held /\ s \notin cooldown
  BY DEF Enter, Consider, Frame
<1>2. p \in Position /\ p.shares % LotSize = 0 /\ p.day = day /\ p.deferred = Never
  BY <1>1, NewPositionType
<1>3. positions' = [t \in Held \cup {s} |-> IF t = s THEN p ELSE positions[t]]
  BY DEF Enter
<1>4. cash' \in Int /\ cash' >= 0
  <2>1. /\ p.shares * p.price + p.cost <= cash
        /\ cash' = cash - (p.shares * p.price + p.cost)
    BY <1>1 DEF Enter, Affordable, NewPosition
  <2>2. p.shares * p.price + p.cost \in Int /\ cash \in Int
    BY <1>2 DEF Position, Typed, TypeOK
  <2> HIDE DEF p
  <2> QED BY <2>1, <2>2
<1> HIDE DEF p
<1> QED BY <1>1, <1>2, <1>3, <1>4 DEF Held, Typed

LEMMA TypedEnter ==
  ASSUME Typed, Frame, NEW s \in Symbols, Enter(s)
  PROVE  Typed' /\ Frame'
<1>1. /\ s \notin Held /\ s \notin cooldown
      /\ Held' = Held \cup {s}
      /\ positions' \in [Held' -> Position]
      /\ positions'[s].shares % LotSize = 0 /\ positions'[s].day = day
      /\ positions'[s].deferred = Never
      /\ \A t \in Held : positions'[t] = positions[t]
      /\ cash' \in Int
  BY EnterEffect
<1>2. /\ phase = "buy" /\ phase' = "buy" /\ slots > 0 /\ slots' = slots - 1
      /\ batch' = batch \ {s} /\ todo' = todo
      /\ UNCHANGED <<config, day, bar, entry, exit, budget, cooldown, realised,
                     stopped, ended, quiet>>
  BY DEF Enter, Consider, market
<1>3. Frame'
  <2>1. \A t \in batch' : EntryPrice(t)' = EntryPrice(t)
    BY <1>2 DEF EntryPrice, MinuteData
  <2> QED BY <1>1, <1>2, <2>1 DEF Frame
<1>4. \A t \in Held' : /\ positions'[t].shares % LotSize = 0
                      /\ positions'[t].day \in 0 .. day'
                      /\ positions'[t].deferred \in Never .. day'
  BY <1>1, <1>2 DEF Typed, TypeOK, Never
<1>5. \A t \in Held' : /\ positions'[t].shares \in Nat \ {0}
                      /\ positions'[t].price \in Nat \ {NaN}
                      /\ positions'[t].peak \in Nat /\ positions'[t].cost \in Nat
  BY <1>1 DEF Position
<1> QED BY <1>1, <1>2, <1>3, <1>4, <1>5 DEF Typed, TypeOK

LEMMA TypedPassOver ==
  ASSUME Typed, Frame, NEW s \in Symbols, PassOver(s)
  PROVE  Typed' /\ Frame'
<1>1. /\ phase = "buy" /\ phase' = "buy" /\ slots > 0 /\ slots' = slots - 1
      /\ batch' = batch \ {s} /\ Held' = Held
      /\ UNCHANGED <<config, day, bar, entry, exit, todo, budget, cash, positions,
                     cooldown, realised, stopped, ended, quiet>>
  BY DEF PassOver, Consider, market, Held
<1>2. \A t \in batch' : EntryPrice(t)' = EntryPrice(t)
  BY <1>1 DEF EntryPrice, MinuteData
<1> QED BY <1>1, <1>2 DEF Frame, Typed, TypeOK

LEMMA TypedDusk ==
  ASSUME Typed, Frame, Dusk
  PROVE  Typed' /\ Frame'
<1>1. /\ Held' = Held /\ batch' = {} /\ slots' = 0 /\ budget' = 0
      /\ UNCHANGED <<config, cash, positions, cooldown, realised, stopped, ended, quiet>>
  BY DEF Dusk, book, Held
<1>2. CASE day + 1 < Days
  <2>1. phase' = "dawn" /\ day' = day + 1 /\ todo' = {} /\ entry' = {} /\ exit' = {}
    BY <1>2 DEF Dusk, Frame
  <2>2. bar' \in [Symbols -> Bars]
    BY <1>2, UnreadType DEF Dusk
  <2>3. day' \in 0 .. Days - 1 /\ day' \in Nat
    BY <1>2, <2>1, MatcherAssumption DEF Typed, TypeOK
  <2>4. \A t \in Held : /\ positions[t].day \in 0 .. day'
                        /\ positions[t].deferred \in Never .. day'
    BY <2>1 DEF Typed, TypeOK, Never
  <2> QED BY <1>1, <2>1, <2>2, <2>3, <2>4 DEF Frame, Typed, TypeOK
<1>3. CASE ~(day + 1 < Days)
  <2>1. phase' = "final" /\ todo' = Held /\ UNCHANGED <<day, bar, entry, exit>>
    BY <1>3 DEF Dusk, market
  <2> QED BY <1>1, <2>1 DEF Frame, Typed, TypeOK
<1> QED BY <1>2, <1>3

LEMMA TypedLiquidate ==
  ASSUME Typed, Frame, NEW s \in Symbols, Liquidate(s)
  PROVE  Typed' /\ Frame'
<1> DEFINE p     == positions[s]
           px    == IF bar[s].close = NaN THEN p.price ELSE bar[s].close
           value == p.shares * px
<1>1. /\ phase = "final" /\ todo' = todo \ {s} /\ Held' = Held /\ s \in Held
      /\ UNCHANGED <<config, day, phase, bar, entry, exit, batch, slots, budget, cash,
                     positions, cooldown, realised, stopped, quiet>>
  BY DEF Liquidate, market, book, Held, Typed, TypeOK
<1>2. ended' = ended + (px - p.price) * p.shares - p.cost - SellCost(value)
  BY DEF Liquidate
<1>3. p.shares \in Nat /\ p.price \in Nat /\ p.cost \in Nat /\ px \in Nat
  BY <1>1, BarFields DEF Typed, TypeOK
<1>4. ended' \in Int
  <2>1. value \in Nat /\ (px - p.price) * p.shares \in Int
    <3> HIDE DEF p, px
    <3> QED BY <1>3
  <2>2. SellCost(value) \in Nat
    <3> HIDE DEF value
    <3> QED BY <2>1, CostType
  <2>3. ended \in Int
    BY DEF Typed, TypeOK
  <2> HIDE DEF p, px, value
  <2> QED BY <1>2, <1>3, <2>1, <2>2, <2>3
<1>5. Frame'
  BY <1>1 DEF Frame
<1> QED BY <1>1, <1>4, <1>5 DEF Typed, TypeOK

LEMMA TypedStop ==
  ASSUME Typed, Frame, Stop
  PROVE  Typed' /\ Frame'
BY DEF Stop, market, book, Held, Frame, Typed, TypeOK

LEMMA TypedStep ==
  ASSUME Typed, Frame, [Next]_vars
  PROVE  Typed' /\ Frame'
<1>1. CASE UNCHANGED vars
  <2>1. \A t \in batch : EntryPrice(t)' = EntryPrice(t)
    BY <1>1 DEF vars, market, EntryPrice, MinuteData
  <2> QED BY <1>1, <2>1 DEF vars, market, book, Held, Frame, Typed, TypeOK
<1>2. ASSUME NEW s \in Symbols, Sell(s) \/ Buy(s) \/ Liquidate(s)
      PROVE  Typed' /\ Frame'
  BY <1>2, TypedVisit, TypedEnter, TypedPassOver, TypedLiquidate DEF Buy
<1> QED BY <1>1, <1>2, TypedDawn, TypedSelect, TypedDusk, TypedStop DEF Next
-----------------------------------------------------------------------------
(* The safety invariants. *)

\* The slots the entry pass has left are really free.
SlotsLeft == Cardinality(Held) + slots <= config.max_positions

\* A symbol leaves its cooldown on a day without an entry signal only.
CooledDown ==
  /\ \A s \in Symbols : stopped[s] <= day /\ (phase = "dawn" => stopped[s] < day)
  /\ \A s \in Symbols : stopped[s] # Never => s \in cooldown \/ stopped[s] < quiet[s]

\* A deferral is later than its entry, and what the exit pass has visited is
\* no longer deferred from an earlier day, unless it cannot be sold.
Settled(s) == positions[s].deferred \in 0 .. day - 1 =>
                bar[s].close = NaN \/ bar[s].open = NaN \/ Blocked(s, "sell")

Deferrals ==
  /\ \A s \in Held : Deferred(s) => positions[s].day < positions[s].deferred
  /\ phase \in {"sell", "buy"} => \A s \in Held \ todo : Settled(s)

IInv == Typed /\ Frame /\ SlotsLeft /\ CooledDown /\ Deferrals

LEMMA InitIInv == Init => IInv
<1> SUFFICES ASSUME Init PROVE IInv
  OBVIOUS
<1>1. Held = {}
  BY DEF Init, Held
<1>2. config.max_positions \in Nat
  BY MatcherAssumption DEF Init, ConfigType
<1>3. SlotsLeft
  BY <1>1, <1>2, FS_EmptySet DEF Init, SlotsLeft
<1>4. CooledDown /\ Deferrals
  BY <1>1 DEF Init, CooledDown, Deferrals, Never
<1> QED BY TypedInit, FrameInit, <1>3, <1>4 DEF IInv

LEMMA HeldFinite ==
  ASSUME Typed
  PROVE  IsFiniteSet(Held) /\ Cardinality(Held) \in Nat
BY MatcherAssumption, FS_Subset, FS_CardinalityType DEF Typed, TypeOK

\* The three things a visit can do: nothing, or note what the position has
\* seen, or sell it.
LEMMA VisitEffect ==
  ASSUME Typed, NEW s \in Symbols, Sell(s)
  PROVE  /\ phase = "sell" /\ s \in Held /\ todo' = todo \ {s}
         /\ UNCHANGED <<config, day, phase, bar, batch, slots, quiet>>
         /\ \A t \in Held' : t \in Held /\ (t # s => positions'[t] = positions[t])
         /\ \/ /\ UNCHANGED book
               /\ bar[s].close = NaN \/ (Deferred(s) /\ ~OpenSells(s))
            \/ /\ Held' = Held /\ UNCHANGED <<cash, cooldown, stopped>>
               /\ positions'[s].day = positions[s].day
               /\ \/ ~Deferred(s) /\ positions'[s].deferred = positions[s].deferred
                  \/ positions[s].day # day /\ positions'[s].deferred = day
            \/ /\ Held' = Held \ {s}
               /\ \/ UNCHANGED <<cooldown, stopped>>
                  \/ /\ cooldown' = cooldown \cup {s}
                     /\ stopped' = [stopped EXCEPT ![s] = day]
<1>1. /\ phase = "sell" /\ s \in Held /\ todo' = todo \ {s}
      /\ UNCHANGED <<config, day, phase, bar, batch, slots, quiet>>
  BY DEF Sell, Suspended, LeaveDeferred, StayDeferred, Stay, Defer, LeaveNow,
         Examine, Visit, market, Typed, TypeOK
<1>2. CASE Suspended(s) \/ StayDeferred(s)
  BY <1>1, <1>2 DEF Suspended, StayDeferred, book, Held
<1>3. CASE Stay(s)
  <2>1. positions' = [positions EXCEPT ![s] = [positions[s] EXCEPT !.peak = Peak(s)]]
    BY <1>3 DEF Stay, Update
  <2>2. positions[s] \in Position
    BY <1>1 DEF Typed
  <2>3. /\ Held' = Held
        /\ \A t \in Held : t # s => positions'[t] = positions[t]
        /\ positions'[s] = [positions[s] EXCEPT !.peak = Peak(s)]
    BY <1>1, <2>1 DEF Typed, Held
  <2>4. /\ positions'[s].day = positions[s].day
        /\ positions'[s].deferred = positions[s].deferred
    BY <2>2, <2>3 DEF Position
  <2> QED BY <1>1, <1>3, <2>3, <2>4 DEF Stay, Examine
<1>4. CASE Defer(s)
  <2>1. positions' = [positions EXCEPT
                        ![s] = [positions[s] EXCEPT !.peak = Peak(s), !.deferred = day]]
    BY <1>4 DEF Defer, Update
  <2>2. positions[s] \in Position
    BY <1>1 DEF Typed
  <2>3. /\ Held' = Held
        /\ \A t \in Held : t # s => positions'[t] = positions[t]
        /\ positions'[s] = [positions[s] EXCEPT !.peak = Peak(s), !.deferred = day]
    BY <1>1, <2>1 DEF Typed, Held
  <2>4. positions'[s].day = positions[s].day /\ positions'[s].deferred = day
    BY <2>2, <2>3 DEF Position
  <2> QED BY <1>1, <1>4, <2>3, <2>4 DEF Defer, MustDefer, MayLeave
<1>5. CASE LeaveDeferred(s) \/ LeaveNow(s)
  <2>1. positions' = [t \in Held \ {s} |-> positions[t]]
    BY <1>5 DEF LeaveDeferred, LeaveNow, Leave, Restrict
  <2>2. \/ UNCHANGED <<cooldown, stopped>>
        \/ /\ cooldown' = cooldown \cup {s}
           /\ stopped' = [stopped EXCEPT ![s] = day]
    BY <1>5 DEF LeaveDeferred, LeaveNow, Leave
  <2> QED BY <1>1, <2>1, <2>2 DEF Held
<1> QED BY <1>2, <1>3, <1>4, <1>5 DEF Sell

LEMMA VisitStep ==
  ASSUME IInv, NEW s \in Symbols, Sell(s)
  PROVE  IInv'
<1>1. Typed' /\ Frame'
  BY TypedVisit DEF IInv
<1>2. /\ phase = "sell" /\ s \in Held /\ todo' = todo \ {s}
      /\ UNCHANGED <<config, day, phase, bar, batch, slots, quiet>>
      /\ \A t \in Held' : t \in Held /\ (t # s => positions'[t] = positions[t])
  BY VisitEffect DEF IInv
<1>3. SlotsLeft'
  <2>1. Held' = Held \/ Held' = Held \ {s}
    BY VisitEffect DEF IInv, book, Held
  <2>2. IsFiniteSet(Held) /\ Cardinality(Held) \in Nat
    BY HeldFinite DEF IInv
  <2>3. Cardinality(Held \ {s}) = Cardinality(Held) - 1
    BY <1>2, <2>2, FS_RemoveElement
  <2>4. slots \in Nat /\ config.max_positions \in Nat
    BY MatcherAssumption DEF IInv, Typed, TypeOK, ConfigType
  <2>5. \/ Cardinality(Held') = Cardinality(Held)
        \/ Cardinality(Held') = Cardinality(Held \ {s})
    BY <2>1, Zenon
  <2> QED BY <1>2, <2>2, <2>3, <2>4, <2>5 DEF IInv, SlotsLeft
<1>4. CooledDown'
  <2>1. \/ UNCHANGED <<cooldown, stopped>>
        \/ /\ cooldown' = cooldown \cup {s}
           /\ stopped' = [stopped EXCEPT ![s] = day]
    BY VisitEffect DEF IInv, book
  <2>2. day \in Nat /\ stopped \in [Symbols -> Never .. Days - 1]
    BY DEF IInv, Typed, TypeOK
  <2> QED BY <1>2, <2>1, <2>2 DEF IInv, CooledDown
<1>5. Deferrals'
  <2>1. /\ \A t \in Held : positions[t].day \in Nat /\ positions[t].deferred \in Int
        /\ day \in Nat
    BY DEF IInv, Typed, TypeOK, Never
  <2>2. \A t \in Held' : t # s => /\ Deferred(t)' = Deferred(t)
                                 /\ Settled(t)' = Settled(t)
    BY <1>2 DEF Deferred, Settled, Blocked
  <2>3. ASSUME s \in Held'
        PROVE  /\ Deferred(s)' => positions'[s].day < positions'[s].deferred
               /\ Settled(s)'
    <3>1. CASE /\ UNCHANGED book
               /\ bar[s].close = NaN \/ (Deferred(s) /\ ~OpenSells(s))
      <4>1. positions' = positions
        BY <3>1 DEF book
      <4>2. CASE bar[s].close = NaN
        BY <1>2, <4>1, <4>2 DEF IInv, Deferrals, Deferred, Settled
      <4>3. CASE Deferred(s) /\ ~OpenSells(s)
        BY <1>2, <2>1, <4>1, <4>3
           DEF IInv, Deferrals, Deferred, Settled, OpenSells, Blocked
      <4> QED BY <3>1, <4>2, <4>3
    <3>2. CASE /\ positions'[s].day = positions[s].day
               /\ ~Deferred(s) /\ positions'[s].deferred = positions[s].deferred
      BY <3>2 DEF Deferred, Settled, Never
    <3>3. CASE /\ positions'[s].day = positions[s].day
               /\ positions[s].day # day /\ positions'[s].deferred = day
      <4>1. positions[s].day \in 0 .. day
        BY <1>2 DEF IInv, Typed, TypeOK
      <4> QED BY <1>2, <2>1, <3>3, <4>1 DEF Settled
    <3> QED BY <2>3, <3>1, <3>2, <3>3, VisitEffect DEF IInv
  <2> QED BY <1>2, <2>2, <2>3 DEF IInv, Deferrals, Deferred
<1> QED BY <1>1, <1>3, <1>4, <1>5 DEF IInv

LEMMA DawnStep ==
  ASSUME IInv, Dawn
  PROVE  IInv'
<1>1. Typed' /\ Frame'
  BY TypedDawn DEF IInv
<1>2. /\ phase = "dawn" /\ phase' = "sell" /\ todo' = Held /\ Held' = Held
      /\ UNCHANGED <<config, day, slots, positions, stopped>>
  BY DEF Dawn, Held
<1>3. SlotsLeft'
  <2>1. Cardinality(Held)' = Cardinality(Held)
    BY <1>2, Zenon
  <2> QED BY <1>2, <2>1 DEF IInv, SlotsLeft
<1>4. CooledDown'
  <2>1. /\ cooldown' = cooldown \cap entry'
        /\ quiet' = [s \in Symbols |-> IF stopped[s] = Never \/ s \in entry'
                                      THEN quiet[s] ELSE day]
    BY DEF Dawn
  <2>2. day \in Nat /\ stopped \in [Symbols -> Never .. Days - 1]
    BY DEF IInv, Typed, TypeOK
  <2> QED BY <1>2, <2>1, <2>2 DEF IInv, CooledDown
<1>5. Deferrals'
  BY <1>2 DEF IInv, Deferrals, Deferred
<1> QED BY <1>1, <1>3, <1>4, <1>5 DEF IInv

LEMMA SelectStep ==
  ASSUME IInv, Select
  PROVE  IInv'
<1>1. Typed' /\ Frame'
  BY TypedSelect DEF IInv
<1>2. /\ phase = "sell" /\ phase' = "buy" /\ todo = {} /\ todo' = {}
      /\ Held' = Held
      /\ UNCHANGED <<config, day, bar, cooldown, positions, stopped, quiet>>
  BY DEF Select, market, book, Held
<1>3. SlotsLeft'
  <2>1. Cardinality(Held)' = Cardinality(Held)
    BY <1>2, Zenon
  <2>2. Cardinality(Held) \in Nat /\ config.max_positions \in Nat /\ slots \in Nat
    BY HeldFinite, MatcherAssumption DEF IInv, Typed, TypeOK, ConfigType
  <2>3. Cardinality(Candidates) \in Nat
    BY MatcherAssumption, FS_Subset, FS_CardinalityType DEF Candidates
  <2>4. slots' = Max2(0, Min2(config.max_positions - Cardinality(Held),
                              Cardinality(Candidates)))
    BY DEF Select
  <2> QED BY <1>2, <2>1, <2>2, <2>3, <2>4 DEF IInv, SlotsLeft, Max2, Min2
<1>4. CooledDown'
  BY <1>2 DEF IInv, CooledDown
<1>5. Deferrals'
  <2>1. \A s \in Held : Settled(s)' = Settled(s)
    BY <1>2 DEF Settled, Blocked
  <2> QED BY <1>2, <2>1 DEF IInv, Deferrals, Deferred
<1> QED BY <1>1, <1>3, <1>4, <1>5 DEF IInv

LEMMA EnterStep ==
  ASSUME IInv, NEW s \in Symbols, Enter(s)
  PROVE  IInv'
<1>1. Typed' /\ Frame'
  BY TypedEnter DEF IInv
<1>2. /\ s \notin Held /\ Held' = Held \cup {s}
      /\ positions'[s].deferred = Never
      /\ \A t \in Held : positions'[t] = positions[t]
  BY EnterEffect DEF IInv
<1>3. /\ phase = "buy" /\ slots' = slots - 1 /\ todo' = todo
      /\ UNCHANGED <<config, day, phase, bar, cooldown, stopped, quiet>>
  BY DEF Enter, Consider, market
<1>4. SlotsLeft'
  <2>1. IsFiniteSet(Held) /\ Cardinality(Held) \in Nat
    BY HeldFinite DEF IInv
  <2>2. Cardinality(Held \cup {s}) = Cardinality(Held) + 1
    BY <1>2, <2>1, FS_AddElement
  <2>3. Cardinality(Held)' = Cardinality(Held \cup {s})
    BY <1>2, Zenon
  <2>4. slots \in Nat /\ config.max_positions \in Nat
    BY MatcherAssumption DEF IInv, Typed, TypeOK, ConfigType
  <2> QED BY <1>3, <2>1, <2>2, <2>3, <2>4 DEF IInv, SlotsLeft
<1>5. CooledDown'
  BY <1>3 DEF IInv, CooledDown
<1>6. Deferrals'
  <2>1. \A t \in Held : Settled(t)' = Settled(t) /\ Deferred(t)' = Deferred(t)
    BY <1>2, <1>3 DEF Settled, Blocked, Deferred
  <2>2. day \in Nat
    BY DEF IInv, Typed, TypeOK
  <2>3. ~Deferred(s)' /\ Settled(s)'
    BY <1>2, <1>3, <2>2 DEF Deferred, Settled, Never
  <2> QED BY <1>2, <1>3, <2>1, <2>3 DEF IInv, Deferrals, Deferred
<1> QED BY <1>1, <1>4, <1>5, <1>6 DEF IInv

LEMMA PassOverStep ==
  ASSUME IInv, NEW s \in Symbols, PassOver(s)
  PROVE  IInv'
<1>1. Typed' /\ Frame'
  BY TypedPassOver DEF IInv
<1>2. /\ phase = "buy" /\ slots' = slots - 1 /\ todo' = todo /\ Held' = Held
      /\ UNCHANGED <<config, day, phase, bar, cooldown, positions, stopped, quiet>>
  BY DEF PassOver, Consider, market, Held
<1>3. SlotsLeft'
  <2>1. Cardinality(Held)' = Cardinality(Held)
    BY <1>2, Zenon
  <2>2. slots \in Nat /\ config.max_positions \in Nat /\ Cardinality(Held) \in Nat
    BY HeldFinite, MatcherAssumption DEF IInv, Typed, TypeOK, ConfigType
  <2> QED BY <1>2, <2>1, <2>2 DEF IInv, SlotsLeft
<1>4. CooledDown'
  BY <1>2 DEF IInv, CooledDown
<1>5. Deferrals'
  <2>1. \A t \in Held : Settled(t)' = Settled(t)
    BY <1>2 DEF Settled, Blocked
  <2> QED BY <1>2, <2>1 DEF IInv, Deferrals, Deferred
<1> QED BY <1>1, <1>3, <1>4, <1>5 DEF IInv

LEMMA DuskStep ==
  ASSUME IInv, Dusk
  PROVE  IInv'
<1>1. Typed' /\ Frame'
  BY TypedDusk DEF IInv
<1>2. /\ phase = "buy" /\ slots' = 0 /\ Held' = Held
      /\ UNCHANGED <<config, cooldown, positions, stopped, quiet>>
      /\ \/ phase' = "dawn" /\ day' = day + 1
         \/ phase' = "final" /\ day' = day
  BY DEF Dusk, book, market, Held
<1>3. SlotsLeft'
  <2>1. Cardinality(Held)' = Cardinality(Held)
    BY <1>2, Zenon
  <2>2. slots \in Nat /\ config.max_positions \in Nat /\ Cardinality(Held) \in Nat
    BY HeldFinite, MatcherAssumption DEF IInv, Typed, TypeOK, ConfigType
  <2> QED BY <1>2, <2>1, <2>2 DEF IInv, SlotsLeft
<1>4. CooledDown'
  <2>1. day \in Nat /\ stopped \in [Symbols -> Never .. Days - 1]
    BY DEF IInv, Typed, TypeOK
  <2>2. \A s \in Symbols : stopped[s] \in Int
    BY <2>1, MatcherAssumption DEF Never
  <2> QED BY <1>2, <2>1, <2>2 DEF IInv, CooledDown
<1>5. Deferrals'
  BY <1>2 DEF IInv, Deferrals, Deferred
<1> QED BY <1>1, <1>3, <1>4, <1>5 DEF IInv

\* Steps that leave the account alone keep its invariants.
LEMMA IdleStep ==
  ASSUME IInv, UNCHANGED <<config, day, slots, cooldown, positions, stopped, quiet>>,
         \/ phase' = phase /\ todo' = todo /\ bar' = bar
         \/ phase' \notin {"dawn", "sell", "buy"}
  PROVE  SlotsLeft' /\ CooledDown' /\ Deferrals'
<1>1. Held' = Held
  BY DEF Held
<1>2. Cardinality(Held)' = Cardinality(Held)
  BY <1>1, Zenon
<1>3. SlotsLeft' /\ CooledDown'
  BY <1>2 DEF IInv, SlotsLeft, CooledDown
<1>4. CASE bar' = bar
  <2>1. \A t \in Held : Settled(t)' = Settled(t)
    BY <1>4 DEF Settled, Blocked
  <2> QED BY <1>1, <1>3, <2>1 DEF IInv, Deferrals, Deferred
<1>5. CASE phase' \notin {"dawn", "sell", "buy"}
  BY <1>1, <1>3, <1>5 DEF IInv, Deferrals, Deferred
<1> QED BY <1>4, <1>5

LEMMA IInvStep ==
  ASSUME IInv, [Next]_vars
  PROVE  IInv'
<1>1. CASE UNCHANGED vars
  BY <1>1, TypedStep, IdleStep DEF IInv, vars, market, book
<1>2. ASSUME NEW s \in Symbols, Sell(s) \/ Buy(s) \/ Liquidate(s)
      PROVE  IInv'
  <2>1. CASE Liquidate(s)
    BY <2>1, TypedLiquidate, IdleStep DEF IInv, Liquidate, market, book
  <2> QED BY <1>2, <2>1, VisitStep, EnterStep, PassOverStep DEF Buy
<1>3. CASE Stop
  BY <1>3, TypedStop, IdleStep DEF IInv, Stop, market, book
<1> QED BY <1>1, <1>2, <1>3, DawnStep, SelectStep, DuskStep DEF Next

LEMMA Inductive == Spec => []IInv
<1>1. Init => IInv
  BY InitIInv
<1>2. IInv /\ [Next]_vars => IInv'
  BY IInvStep
<1> QED BY <1>1, <1>2, PTL DEF Spec

-----------------------------------------------------------------------------
(* The theorems. *)

\* The type invariant: lots are whole, prices positive, the passes visit
\* positions that exist, for every configuration and every market.
THEOREM TypeCorrect == Spec => []TypeOK
<1>1. IInv => TypeOK
  BY DEF IInv, Typed
<1> QED BY <1>1, Inductive, PTL

\* simulate never holds more than max_positions.
THEOREM SlotsHold == Spec => []WithinSlots
<1>1. IInv => WithinSlots
  <2> SUFFICES ASSUME IInv PROVE WithinSlots
    OBVIOUS
  <2>1. slots \in Nat /\ config.max_positions \in Nat /\ Cardinality(Held) \in Nat
    BY HeldFinite, MatcherAssumption DEF IInv, Typed, TypeOK, ConfigType
  <2> QED BY <2>1 DEF IInv, SlotsLeft, WithinSlots
<1> QED BY <1>1, Inductive, PTL

\* When the entries begin, no deferred exit that could be sold is left.
THEOREM DeferralsEnd == Spec => []DeferredLeaves
<1>1. IInv => DeferredLeaves
  BY DEF IInv, Frame, Deferrals, Settled, DeferredLeaves
<1> QED BY <1>1, Inductive, PTL

\* A symbol sold for risk is not entered before a day without its signal.
THEOREM CooldownHolds == Spec => NoEarlyReentry
<1>1. ASSUME IInv, [Next]_vars, NEW s \in Held' \ Held, stopped[s] # Never
      PROVE  stopped[s] < quiet[s]
  <2>1. PICK t \in Symbols : Enter(t)
    <3>1. CASE \E t \in Symbols : Sell(t)
      BY <1>1, <3>1, VisitEffect DEF IInv
    <3>2. CASE \E t \in Symbols : PassOver(t) \/ Liquidate(t)
      BY <1>1, <3>2 DEF PassOver, Liquidate, book, Held
    <3>3. CASE Dawn \/ Select \/ Dusk \/ Stop \/ UNCHANGED vars
      BY <1>1, <3>3 DEF Dawn, Select, Dusk, Stop, vars, book, Held
    <3> QED BY <1>1, <3>1, <3>2, <3>3 DEF Next, Buy
  <2>2. t \notin cooldown /\ Held' = Held \cup {t}
    BY <1>1, <2>1, EnterEffect DEF IInv
  <2> QED BY <1>1, <2>2 DEF IInv, CooledDown
<1>2. IInv /\ [Next]_vars =>
        \A s \in Held' \ Held : stopped[s] # Never => stopped[s] < quiet[s]
  BY <1>1
<1> QED BY <1>2, Inductive, PTL DEF Spec, NoEarlyReentry

LEMMA WholeLot ==
  ASSUME NEW n \in Nat \ {0}, NEW l \in Nat \ {0}, n % l = 0
  PROVE  n >= l
<1>1. n < l => n % l = n
  OBVIOUS
<1> QED BY <1>1

\* A sale has a price.
LEMMA SaleAtPrice ==
  ASSUME Typed, NEW s \in Symbols, LeaveDeferred(s) \/ LeaveNow(s)
  PROVE  \E px \in Nat \ {NaN} : \E reason : Leave(s, px, reason)
<1>1. CASE LeaveDeferred(s)
  <2>1. PICK px \in Nat \ {NaN} : px = bar[s].open
    BY <1>1, BarFields DEF LeaveDeferred, OpenSells
  <2>2. Leave(s, px, "signal")
    BY <1>1, <2>1 DEF LeaveDeferred, Leave
  <2> QED BY <2>2
<1>2. CASE LeaveNow(s)
  <2>1. PICK px \in Nat \ {NaN} : px = ExitPrice(s, Reason(s))
    BY <1>2, PriceType DEF LeaveNow, CanLeave
  <2>2. PICK reason : reason = Reason(s)
    OBVIOUS
  <2>3. Leave(s, px, reason)
    BY <1>2, <2>1, <2>2 DEF LeaveNow, Leave
  <2> QED BY <2>3
<1> QED BY <1>1, <1>2

\* A sale brings cash, as long as its cost is below its value.
LEMMA SaleBringsCash ==
  ASSUME \A v \in Nat : v >= LotSize => SellCost(v) <= v,
         Typed, NEW s \in Held, NEW px \in Nat \ {NaN}, NEW reason,
         Leave(s, px, reason)
  PROVE  cash' >= cash
<1> DEFINE n == positions[s].shares
           value == n * px
<1>1. n \in Nat \ {0} /\ n % LotSize = 0 /\ LotSize \in Nat \ {0}
  BY MatcherAssumption DEF Typed, TypeOK
<1>2. value \in Nat /\ value >= LotSize
  <2> HIDE DEF n
  <2>1. n >= LotSize
    BY <1>1, WholeLot
  <2> QED BY <1>1, <2>1, ValueOfLots DEF NaN
<1>3. cash' = cash + value - SellCost(value)
  BY DEF Leave
<1> HIDE DEF value
<1>4. SellCost(value) \in Nat /\ SellCost(value) <= value
  BY <1>2, CostType
<1> QED BY <1>2, <1>3, <1>4 DEF Typed, TypeOK

\* The cash is never negative, for any capital, prices and order of the
\* candidates, provided that selling one lot or more costs at most its value.
THEOREM NeverOverdrawn ==
  ASSUME \A v \in Nat : v >= LotSize => SellCost(v) <= v
  PROVE  Spec => []Solvent
<1>1. Init => Solvent
  BY MatcherAssumption DEF Init, Solvent
<1>2. ASSUME IInv, Solvent, [Next]_vars
      PROVE  Solvent'
  <2>1. CASE UNCHANGED cash
    BY <1>2, <2>1 DEF Solvent
  <2>2. ASSUME NEW s \in Symbols, LeaveDeferred(s) \/ LeaveNow(s)
        PROVE  Solvent'
    <3>1. s \in Held /\ cash \in Int
      BY <1>2, <2>2 DEF IInv, Typed, TypeOK, LeaveDeferred, LeaveNow, Examine, Visit
    <3>2. \E px \in Nat \ {NaN} : \E reason : Leave(s, px, reason)
      BY <1>2, <2>2, SaleAtPrice DEF IInv
    <3>3. cash' \in Int /\ cash' >= cash
      <4>1. PICK px \in Nat \ {NaN} : \E reason : Leave(s, px, reason)
        BY <3>2
      <4>2. PICK reason : Leave(s, px, reason)
        BY <4>1
      <4> QED BY <1>2, <3>1, <4>2, SaleBringsCash, LeaveEffect DEF IInv
    <3> QED BY <1>2, <3>1, <3>3 DEF Solvent
  <2>3. ASSUME NEW s \in Symbols, Enter(s)
        PROVE  Solvent'
    BY <1>2, <2>3, EnterEffect DEF IInv, Solvent
  <2>4. \/ UNCHANGED cash
        \/ \E s \in Symbols : LeaveDeferred(s) \/ LeaveNow(s)
        \/ \E s \in Symbols : Enter(s)
    BY <1>2 DEF Next, Sell, Buy, vars, book, Dawn, Select, Dusk, Stop, Liquidate,
                PassOver, Suspended, StayDeferred, Stay, Defer
  <2> QED BY <2>1, <2>2, <2>3, <2>4
<1>3. IInv /\ Solvent /\ [Next]_vars => Solvent'
  BY <1>2
<1> QED BY <1>1, <1>3, Inductive, PTL DEF Spec

-----------------------------------------------------------------------------
(* The books.  Each position stands in them with what it cost.             *)

Worth(ps) == [s \in DOMAIN ps |-> ps[s].shares * ps[s].price + ps[s].cost]

\* The sum as Books takes it.
Total(ps) == MapThenSumSet(LAMBDA s : ps[s].shares * ps[s].price + ps[s].cost, DOMAIN ps)

LEMMA WorthType ==
  ASSUME NEW D, NEW ps \in [D -> Position], NEW s \in D
  PROVE  /\ Worth(ps)[s] = ps[s].shares * ps[s].price + ps[s].cost
         /\ Worth(ps)[s] \in Int
<1> DEFINE p == ps[s]
<1>1. p.shares \in Nat /\ p.price \in Nat /\ p.cost \in Nat
  BY DEF Position
<1>2. Worth(ps)[s] = p.shares * p.price + p.cost
  BY DEF Worth
<1> HIDE DEF p
<1>3. p.shares * p.price + p.cost \in Int
  BY <1>1
<1> QED BY <1>2, <1>3 DEF p

LEMMA TotalIsSum ==
  ASSUME NEW D, IsFiniteSet(D), NEW ps \in [D -> Position]
  PROVE  Total(ps) = Sum(Worth(ps), D)
<1> DEFINE w == Worth(ps)
           body(T) == ps[Pick(T)].shares * ps[Pick(T)].price + ps[Pick(T)].cost
           g == CHOOSE f : f = [T \in SUBSET D |->
                                 IF T = {} THEN 0 ELSE body(T) + f[T \ {Pick(T)}]]
<1>1. Total(ps) = g[D]
  BY DEF Total, MapThenSumSet, MapThenFoldSet, Pick
<1>2. \A T \in SUBSET D : T # {} => w[Pick(T)] = body(T)
  BY PickIn, WorthType
<1>3. \A f : IsFold(f, w, D) <=>
               f = [T \in SUBSET D |-> IF T = {} THEN 0 ELSE body(T) + f[T \ {Pick(T)}]]
  <2> HIDE DEF w, body
  <2> QED BY <1>2 DEF IsFold
<1>4. IsFold(g, w, D)
  <2> HIDE DEF w
  <2>1. \E f : IsFold(f, w, D)
    BY FoldExists
  <2> QED BY <1>3, <2>1
<1>5. g[D] = Sum(w, D)
  <2> HIDE DEF g, w
  <2> QED BY <1>4, FoldExists, FoldsAgree, SumIsFold
<1> QED BY <1>1, <1>5

\* What is taken out of the positions is taken off their total, ...
LEMMA TotalLess ==
  ASSUME NEW D, IsFiniteSet(D), NEW ps \in [D -> Position], NEW s \in D,
         NEW qs \in [D \ {s} -> Position], \A t \in D \ {s} : qs[t] = ps[t]
  PROVE  Total(ps) = Worth(ps)[s] + Total(qs)
<1>1. \A t \in D : Worth(ps)[t] \in Int
  BY WorthType
<1>2. Sum(Worth(ps), D) = Worth(ps)[s] + Sum(Worth(ps), D \ {s})
  BY <1>1, SumRemove
<1>3. IsFiniteSet(D \ {s}) /\ \A t \in D \ {s} : Worth(ps)[t] = Worth(qs)[t]
  BY WorthType, FS_Subset
<1>4. Sum(Worth(ps), D \ {s}) = Sum(Worth(qs), D \ {s})
  BY <1>3, SumSame
<1> QED BY <1>2, <1>3, <1>4, TotalIsSum

\* ... and what is noted in them otherwise leaves it alone.
LEMMA TotalSame ==
  ASSUME NEW D, IsFiniteSet(D), NEW ps \in [D -> Position], NEW qs \in [D -> Position],
         \A t \in D : /\ qs[t].shares = ps[t].shares
                      /\ qs[t].price = ps[t].price /\ qs[t].cost = ps[t].cost
  PROVE  Total(ps) = Total(qs)
<1>1. \A t \in D : Worth(ps)[t] = Worth(qs)[t]
  BY WorthType
<1>2. Sum(Worth(ps), D) = Sum(Worth(qs), D)
  BY <1>1, SumSame
<1> QED BY <1>2, TotalIsSum

LEMMA TotalType ==
  ASSUME NEW D, IsFiniteSet(D), NEW ps \in [D -> Position]
  PROVE  Total(ps) \in Int
<1>1. \A t \in D : Worth(ps)[t] \in Int
  BY WorthType
<1> QED BY <1>1, SumType, TotalIsSum

\* The pnl of a sale is what it brings less what was paid.
LEMMA SpreadTimesShares ==
  \A n, price, px \in Nat : /\ (px - price) * n = n * px - n * price
                            /\ n * px \in Int /\ n * price \in Int
OBVIOUS

LEMMA LeaveBalances ==
  ASSUME Typed, Books, NEW s \in Held, NEW px \in Nat \ {NaN}, NEW reason,
         Leave(s, px, reason)
  PROVE  Books'
<1> DEFINE p == positions[s]
           fee == SellCost(p.shares * px)
<1>1. IsFiniteSet(Held) /\ positions \in [Held -> Position]
  BY HeldFinite DEF Typed
<1>2. /\ Held' = Held \ {s} /\ positions' \in [Held \ {s} -> Position]
      /\ \A t \in Held \ {s} : positions'[t] = positions[t]
  BY LeaveEffect
<1>3. Total(positions) = Worth(positions)[s] + Total(positions')
  BY <1>1, <1>2, TotalLess
<1>4. Total(positions') \in Int
  <2>1. IsFiniteSet(Held \ {s})
    BY <1>1, FS_Subset
  <2> QED BY <1>2, <2>1, TotalType
<1>5. Worth(positions)[s] = p.shares * p.price + p.cost
  BY <1>1, WorthType
<1>6. p.shares \in Nat /\ p.price \in Nat /\ p.cost \in Int
  BY <1>1 DEF Position
<1>7. fee \in Int
  <2>1. p.shares * px \in Nat
    <3> HIDE DEF p
    <3> QED BY <1>6
  <2> QED BY <2>1, CostType
<1>8. /\ cash' = cash + p.shares * px - fee
      /\ realised' = realised + (px - p.price) * p.shares - p.cost - fee
  BY DEF Leave
<1>9. cash + Total(positions) = Capital + realised
  BY DEF Books, Total, Held, MapThenSumSet, MapThenFoldSet
<1>10. cash \in Int /\ realised \in Int
  BY DEF Typed, TypeOK
<1> HIDE DEF p, fee
<1>11. cash + (p.shares * p.price + p.cost + Total(positions')) = Capital + realised
  BY <1>3, <1>5, <1>9
<1> DEFINE value == p.shares * px
           lot   == p.shares * p.price
<1>12. (px - p.price) * p.shares = value - lot /\ value \in Int /\ lot \in Int
  <2>1. px \in Nat
    OBVIOUS
  <2> QED BY <1>6, <2>1, SpreadTimesShares, Zenon
<1>13. /\ cash' = cash + value - fee
       /\ realised' = realised + (value - lot) - p.cost - fee
       /\ cash + (lot + p.cost + Total(positions')) = Capital + realised
  BY <1>8, <1>11, <1>12
<1>14. Capital \in Int
  BY MatcherAssumption
<1> HIDE DEF value, lot
<1>15. cash' + Total(positions') = Capital + realised'
  <2>1. value \in Int /\ lot \in Int /\ p.cost \in Int
    BY <1>6, <1>12
  <2> QED BY <2>1, <1>4, <1>7, <1>10, <1>13, <1>14
<1> QED BY <1>15 DEF Books, Total, Held, MapThenSumSet, MapThenFoldSet

LEMMA EnterBalances ==
  ASSUME Typed, Frame, Books, NEW s \in Symbols, Enter(s)
  PROVE  Books'
<1> DEFINE p == positions'[s]
<1>1. /\ s \notin Held /\ Held' = Held \cup {s}
      /\ positions' \in [Held' -> Position]
      /\ \A t \in Held : positions'[t] = positions[t]
  BY EnterEffect
<1>2. /\ cash' = cash - (p.shares * p.price + p.cost)
      /\ realised' = realised
  BY DEF Enter, Consider
<1>3. Total(positions') = Worth(positions')[s] + Total(positions)
  <2>1. Held' \ {s} = Held /\ s \in Held'
    BY <1>1
  <2>2. IsFiniteSet(Held') /\ positions \in [Held' \ {s} -> Position]
    BY <1>1, <2>1, HeldFinite, FS_AddElement DEF Typed
  <2> QED BY <1>1, <2>1, <2>2, TotalLess
<1>4. Worth(positions')[s] = p.shares * p.price + p.cost /\ Worth(positions')[s] \in Int
  BY <1>1, WorthType
<1>5. Total(positions) \in Int
  BY HeldFinite, TotalType DEF Typed
<1>6. cash + Total(positions) = Capital + realised
  BY DEF Books, Total, Held, MapThenSumSet, MapThenFoldSet
<1>7. cash \in Int /\ realised \in Int /\ Capital \in Int
  BY MatcherAssumption DEF Typed, TypeOK
<1> HIDE DEF p
<1>8. cash' + Total(positions') = Capital + realised'
  BY <1>2, <1>3, <1>4, <1>5, <1>6, <1>7
<1> QED BY <1>8 DEF Books, Total, Held, MapThenSumSet, MapThenFoldSet

\* Cash and the positions' cost are the capital and the pnl of the trades.
THEOREM BooksBalance == Spec => []Books
<1>1. Init => Books
  <2> SUFFICES ASSUME Init PROVE Books
    OBVIOUS
  <2>1. Held = {} /\ positions \in [{} -> Position]
    BY DEF Init, Held
  <2>2. Total(positions) = 0
    BY <2>1, TotalIsSum, SumEmpty, FS_EmptySet
  <2> QED BY <2>2, MatcherAssumption DEF Init, Books, Total, Held
<1>2. ASSUME IInv, Books, [Next]_vars
      PROVE  Books'
  <2>1. Typed /\ Frame
    BY <1>2 DEF IInv
  <2>2. CASE UNCHANGED <<cash, realised, positions>>
    BY <1>2, <2>2 DEF Books, Held, MapThenSumSet, MapThenFoldSet
  <2>3. ASSUME NEW s \in Symbols, Stay(s) \/ Defer(s)
        PROVE  Books'
    <3>1. s \in Held /\ positions[s] \in Position
      BY <2>1, <2>3 DEF Typed, TypeOK, Stay, Defer, Examine, Visit
    <3>2. PICK q \in Position :
            /\ Update(s, q)
            /\ q.shares = positions[s].shares /\ q.price = positions[s].price
            /\ q.cost = positions[s].cost
      BY <2>1, <2>3, <3>1, NewPeakType DEF Stay, Defer, Position
    <3>3. /\ Held' = Held /\ positions' \in [Held -> Position] /\ positions'[s] = q
          /\ \A t \in Held : t # s => positions'[t] = positions[t]
      BY <2>1, <3>1, <3>2, UpdateEffect
    <3>4. Total(positions) = Total(positions')
      BY <2>1, <3>2, <3>3, HeldFinite, TotalSame DEF Typed
    <3>5. cash' = cash /\ realised' = realised
      BY <2>3 DEF Stay, Defer
    <3>6. cash + Total(positions) = Capital + realised
      BY <1>2 DEF Books, Total, Held, MapThenSumSet, MapThenFoldSet
    <3>7. cash' + Total(positions') = Capital + realised'
      BY <3>4, <3>5, <3>6
    <3> QED BY <3>7 DEF Books, Total, Held, MapThenSumSet, MapThenFoldSet
  <2>4. ASSUME NEW s \in Symbols, LeaveDeferred(s) \/ LeaveNow(s)
        PROVE  Books'
    <3>1. s \in Held
      BY <2>1, <2>4 DEF Typed, TypeOK, LeaveDeferred, LeaveNow, Examine, Visit
    <3>2. PICK px \in Nat \ {NaN} : \E reason : Leave(s, px, reason)
      BY <2>1, <2>4, SaleAtPrice
    <3> QED BY <1>2, <2>1, <3>1, <3>2, LeaveBalances
  <2>5. ASSUME NEW s \in Symbols, Enter(s)
        PROVE  Books'
    BY <1>2, <2>1, <2>5, EnterBalances
  <2>6. \/ UNCHANGED <<cash, realised, positions>>
        \/ \E s \in Symbols : Stay(s) \/ Defer(s)
        \/ \E s \in Symbols : LeaveDeferred(s) \/ LeaveNow(s)
        \/ \E s \in Symbols : Enter(s)
    BY <1>2 DEF Next, Sell, Buy, vars, book, Dawn, Select, Dusk, Stop, Liquidate,
                PassOver, Consider, Suspended, StayDeferred
  <2> QED BY <2>2, <2>3, <2>4, <2>5, <2>6
<1>3. IInv /\ Books /\ [Next]_vars => Books'
  BY <1>2
<1> QED BY <1>1, <1>3, Inductive, PTL DEF Spec
=============================================================================
