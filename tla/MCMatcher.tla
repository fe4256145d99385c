------------------------------ MODULE MCMatcher ------------------------------
(***************************************************************************)
(* TLC instances of Matcher: two symbols that compete for the slots and    *)
(* the cash, prices that reach the lines, days without a close and days at *)
(* either limit.                                                           *)
(***************************************************************************)
EXTENDS Matcher

CONSTANTS sa, sb

OneSymbol  == {sa}
TwoSymbols == {sa, sb}

\* sa stands before sb in the matrix.
FirstA == [s \in Symbols |-> IF s = sa THEN 1 ELSE 2]

Day(open, high, close, limit, minute, fill) ==
  [open |-> open, high |-> high, close |-> close, limit |-> limit,
   minute |-> minute, fill |-> fill]

MinuteDays ==
  { Day(4, 4, 4, "none", "quiet", 4),      \* nothing happens
    Day(4, NaN, 6, "none", "missing", 4),  \* a rise, without minute bars
    Day(3, 4, 2, "none", "confirmed", 3),  \* a fall
    Day(2, 2, 2, "down", "missing", 2),    \* at the limit all day
    Day(6, 6, 6, "up", "quiet", 6),
    Day(NaN, NaN, NaN, "none", "missing", 4) }   \* suspended

DailyDays == {Day(4, 4, 4, "none", "missing", 4), Day(4, 4, 2, "none", "missing", 4)}

Plain == [entry_fill |-> "open_t+1", exit_fill |-> "open_t+1",
          minute_fill |-> FALSE, loader |-> TRUE, max_positions |-> 1,
          stop_loss |-> 25, trailing_stop |-> Off, activate |-> Off,
          drawdown |-> Off, take_profit |-> 40, max_hold |-> Off]

PlainOnly == {Plain}

\* One slot and minute-confirmed exits; two slots, daily bars and a trailing
\* stop; entries and exits at the minute price of the signal day; exits that
\* were to wait for minute bars nobody can load.
FourConfigs ==
  { [Plain EXCEPT !.exit_fill = "signal_next_minute"],
    [Plain EXCEPT !.exit_fill = "signal_next_minute", !.loader = FALSE],
    [Plain EXCEPT !.max_positions = 2, !.trailing_stop = 30, !.max_hold = 2],
    [Plain EXCEPT !.entry_fill = "close_t", !.exit_fill = "close_t",
                  !.minute_fill = TRUE, !.stop_loss = Off,
                  !.activate = 25, !.drawdown = 20] }

=============================================================================
