------------------------------ MODULE Backtest ------------------------------
(***************************************************************************)
(* A backtest: the engine (internal/backtest/engine.go), the part of its   *)
(* report that counts money (metrics.go) and the strategy of the tool      *)
(* run_backtest, the crossing of two moving averages                       *)
(* (component/tool/backtest.go), bar after bar.                            *)
(*                                                                         *)
(* Abstractions: money is counted in ten-thousandths, in which the         *)
(* commission is CommissionRate; a lot of shares is one; the ratios of the *)
(* report (drawdown, Sharpe, volatility) are left out.                     *)
(***************************************************************************)
EXTENDS Integers, Sequences, SequencesExt, Loops

CONSTANTS
  Prices,           \* closing prices of a lot
  Capitals,         \* initial capital, in the unit of the prices
  ShortPeriod, LongPeriod,
  MaxBars           \* bound: bars

Unit           == 10000
CommissionRate == 3

ASSUME BacktestAssumption ==
  /\ Prices \subseteq Nat \ {0} /\ Capitals \subseteq Nat \ {0}
  /\ ShortPeriod \in Nat \ {0} /\ LongPeriod \in Nat \ {0} /\ MaxBars \in Nat \ {0}

VARIABLES
  capital, bars,
  cash, position,   \* the portfolio
  bought,           \* what the strategy believes to have
  trades

testVars == <<capital, bars, cash, position, bought, trades>>

(* The first bar is not traded.                                            *)
BacktestInit ==
  /\ capital \in Capitals /\ bars \in {<<p>> : p \in Prices}
  /\ cash = capital * Unit /\ position = 0 /\ bought = FALSE /\ trades = <<>>

-----------------------------------------------------------------------------
(* BarSMA times its period; the last close when there are too few bars.    *)
SumOf(s, n) == SumUp(SubSeq(s, Len(s) - n + 1, Len(s)))

(* The sign of the short average less the long one.                        *)
Spread(s) == SumOf(s, ShortPeriod) * LongPeriod - SumOf(s, LongPeriod) * ShortPeriod

(* defaultStrategy: a golden cross buys for 0.8 of the cash, a dead cross  *)
(* sells all.                                                              *)
Evaluate(s) ==
  IF Len(s) < LongPeriod + 1 THEN "hold"
  ELSE IF ~bought /\ Spread(Front(s)) <= 0 /\ Spread(s) > 0 THEN "buy"
  ELSE IF bought /\ Spread(Front(s)) >= 0 /\ Spread(s) < 0 THEN "sell"
  ELSE "hold"

Commission(qty, price) == qty * price * CommissionRate

F_Proceed(qty, price) == qty * price * Unit
Proceed(qty, price)   == qty * price * Unit - Commission(qty, price)

(* As many lots as 0.8 of the cash buys, none if that is too little; the   *)
(* strategy has bought in either case.  With 0.8 of the cash the commission*)
(* always fits, so the cut for a cost above the cash is never taken.       *)
BuyBar(price) ==
  LET qty == ((cash * 8) \div 10) \div (price * Unit)
      cost == qty * price * Unit + Commission(qty, price)
  IN /\ bought' = TRUE
     /\ IF cash <= 0 \/ qty <= 0 THEN UNCHANGED <<cash, position, trades>>
        ELSE /\ cash' = cash - cost /\ position' = position + qty
             /\ trades' = Append(trades, [action |-> "buy", price |-> price, qty |-> qty])

SellBar(price) ==
  /\ bought' = FALSE
  /\ IF position <= 0 THEN UNCHANGED <<cash, position, trades>>
     ELSE /\ cash' = cash + Proceed(position, price) /\ position' = 0
          /\ trades' = Append(trades, [action |-> "sell", price |-> price, qty |-> position])

NextBar ==
  /\ Len(bars) < MaxBars
  /\ \E p \in Prices :
       /\ bars' = Append(bars, p)
       /\ LET signal == Evaluate(bars') IN
          \/ signal = "buy" /\ BuyBar(p)
          \/ signal = "sell" /\ SellBar(p)
          \/ signal = "hold" /\ UNCHANGED <<cash, position, bought, trades>>
  /\ UNCHANGED capital

BacktestSpec == BacktestInit /\ [][NextBar]_testVars

-----------------------------------------------------------------------------
Fees(ts)  == [i \in 1 .. Len(ts) |-> Commission(ts[i].qty, ts[i].price)]
Gains(ts) == [i \in 1 .. Len(ts) |-> ts[i].qty * ts[i].price * Unit
                                      * (IF ts[i].action = "sell" THEN 1 ELSE -1)]

FinalEquity     == cash + position * Last(bars) * Unit
TotalCommission == SumUp(Fees(trades))
TradeGains      == SumUp(Gains(trades))

(* Cash never runs out, and no share is sold that was not bought. *)
BacktestTypeOK == cash >= 0 /\ position >= 0 /\ Len(bars) \in 1 .. MaxBars

(* The report adds up: what the final equity differs from the capital by   *)
(* is what the trades gained, and the shares still held are worth, less    *)
(* exactly the commission that the report shows.                           *)
ReportAddsUp ==
  FinalEquity = capital * Unit + TradeGains + position * Last(bars) * Unit - TotalCommission

(* The strategy never buys on top of a position, and never keeps one       *)
(* without meaning to: every trade but the last buy is closed in full.     *)
TradesArePaired ==
  /\ position > 0 => bought
  /\ \A i \in DOMAIN trades :
       trades[i].action = IF i % 2 = 1 THEN "buy" ELSE "sell"
  /\ \A i \in DOMAIN trades : trades[i].action = "sell" => trades[i].qty = trades[i - 1].qty

(* The ledger of trades explains the result.                               *)
LedgerIsSound == ReportAddsUp /\ TradesArePaired

=============================================================================
