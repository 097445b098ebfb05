---------------------------- MODULE StrategyRules ----------------------------
(***************************************************************************)
(* What a strategy decides when it evaluates one stock.                    *)
(*                                                                         *)
(* PerStockTradingStrategy.evaluateStock is a pure function of a context:  *)
(* the position, the price, the account's cash, the drawdown, the day and  *)
(* the minute, whether orders are open, and the JSON the strategy left in  *)
(* strategyParams after earlier fills.  The live loop, the manual trigger  *)
(* and the simulation all call it, each with a context it gathered itself. *)
(*                                                                         *)
(* Amounts are whole currency units and averages are rounded down.  The    *)
(* indicators are reduced to what a rule asks of them:                     *)
(*   price    the quoted price; 0 is a quote the broker got wrong;         *)
(*   warned   caution, market warning, overheated, margin loans over 15 %; *)
(*   ready    the indicators the strategy requires are present;            *)
(*   setup    every other filter of a purchase holds;                      *)
(*   turn     its exit indicator: upper band reached, trend gone, RSI over *)
(*            70, price fallen back from the high made since the entry;    *)
(*   middle   the middle band reached;                                     *)
(*   scale    percent to which RSI (0 from 70), volatility and the year's  *)
(*            low or high change the amount;                               *)
(*   swing    percent of loss the average true range allows, at most 12    *)
(***************************************************************************)
EXTENDS Integers, Sequences

CONSTANT NoDay       \* a date that is not set; smaller than every day

ASSUME NoDayAssumption == NoDay = 0

Strategies == {"momentum-breakout", "grid-mean-reversion", "conservative",
               "trend-following", "value-factor", "daily-dca", "infinite-buy"}

OnceDaily == {"daily-dca", "infinite-buy"}

\* The minutes of a trading day, as far as a rule distinguishes them.
Slots == {"early", "target", "window", "late", "exit"}

Views == [price : Nat, warned : BOOLEAN, ready : BOOLEAN, setup : BOOLEAN,
          turn : BOOLEAN, middle : BOOLEAN, scale : Nat, swing : Nat]

(* strategyParams: what fills leave behind.  plan is secondaryExitPlan. *)
NoPlan   == [on |-> FALSE, since |-> NoDay, tried |-> NoDay, qty |-> 0, price |-> 0]
Plans    == [on : BOOLEAN, since : Nat, tried : Nat, qty : Nat, price : Nat]
NoParams == [entry |-> NoDay, levels |-> {}, middle |-> FALSE, plan |-> NoPlan,
             carried |-> 0, carriedOn |-> NoDay]
Params   == [entry : Nat, levels : SUBSET (1..3), middle : BOOLEAN, plan : Plans,
             carried : Nat, carriedOn : Nat]

(* price 0: a market order.  rest, target2: the second half of a first     *)
(* target.  The phases "risk" and "stop" stand for a reason that begins     *)
(* with a word for liquidation or stop loss.                                *)
Phases == {"risk-liquidation", "carryover-exit", "eod-exit", "intraday-stop", "trailing-stop",
           "vb-entry", "grid-entry", "grid-buy", "take-profit-middle", "take-profit-full",
           "take-profit-1", "take-profit-2", "risk", "stop", "none"}
Signals == [side : {"BUY", "SELL"}, qty : Nat, price : Nat, phase : Phases,
            level : 0..3, rest : Nat, target2 : Nat]

Sell(qty, price, phase) == [side |-> "SELL", qty |-> qty, price |-> price,
                            phase |-> phase, level |-> 0, rest |-> 0, target2 |-> 0]
Buy(qty, price, phase, level) == [side |-> "BUY", qty |-> qty, price |-> price,
                            phase |-> phase, level |-> level, rest |-> 0, target2 |-> 0]

Least(a, b) == IF a <= b THEN a ELSE b
Rest(a, b)  == IF a >= b THEN a - b ELSE 0
Most(a, b)  == IF a >= b THEN a ELSE b
Shares(amount, price) == IF price > 0 /\ amount > 0 THEN amount \div price ELSE 0

-----------------------------------------------------------------------------
(* A context c also has: strategy, qty, avg, quota, cycles, stop (percent), *)
(* cash, total, peak, done, openBuy, openSell, day, slot, view, par.        *)

Invested(c) == c.qty * c.avg
PerCycle(c) == c.quota \div c.cycles
Holds(c)    == c.qty > 0
Price(c)    == c.view.price
Scaled(amount, c) == (amount * c.view.scale) \div 100

LossOf(c, percent)   == 100 * (Price(c) - c.avg) <= -(percent * c.avg)
GainOf(c, percent)   == 100 * (Price(c) - c.avg) >= percent * c.avg
GainOver(c, percent) == 100 * (Price(c) - c.avg) > percent * c.avg

\* evaluateStrategyMdd for a drawdown of (total - peak) / peak.
FellBy(c, percent) == c.peak > 0 /\ 100 * (c.total - c.peak) <= -(percent * c.peak)

(* The rules of a strategy in the order its code tests them: the first that *)
(* applies decides.                                                         *)
Rule(when, then) == [when |-> when, then |-> then]

FirstRule(rules) ==
  LET hits == {i \in DOMAIN rules : rules[i].when}
      first == {i \in hits : \A j \in hits : i <= j}
  IN IF first = {} THEN <<>> ELSE rules[CHOOSE i \in first : TRUE].then

SellAll(c, phase)   == <<Sell(c.qty, Price(c), phase)>>
SellAtMarket(c, phase) == <<Sell(c.qty, 0, phase)>>
BuyFor(amount, c, phase, level) ==
  IF Shares(amount, Price(c)) > 0
  THEN <<Buy(Shares(amount, Price(c)), Price(c), phase, level)>> ELSE <<>>

-----------------------------------------------------------------------------
(* momentum-breakout: one entry a day, flat before the close.  A bad quote  *)
(* must not stop the forced exits, which need no price.                     *)
MomentumExit(c) == FirstRule(<<
  Rule(FellBy(c, 12),                              SellAtMarket(c, "risk-liquidation")),
  Rule(c.par.entry # NoDay /\ c.par.entry < c.day, SellAtMarket(c, "carryover-exit")),
  Rule(c.slot = "exit",                            SellAtMarket(c, "eod-exit")),
  Rule(Price(c) = 0,                               <<>>),
  Rule(c.openSell,                                 <<>>),
  Rule(LossOf(c, 2),                               SellAtMarket(c, "intraday-stop")),
  Rule(c.par.entry # NoDay /\ c.view.turn,         SellAtMarket(c, "trailing-stop"))>>)

MomentumMayEnter(c) ==
  /\ Price(c) > 0
  /\ ~FellBy(c, 8)
  /\ ~c.openBuy /\ ~c.openSell
  /\ ~c.done
  /\ ~c.view.warned
  /\ c.slot \in {"target", "window"}
  /\ c.view.ready /\ c.view.setup

MomentumBreakout(c) ==
  LET qty == Shares(Least(c.quota, c.cash), Price(c))
  IN IF Holds(c) THEN MomentumExit(c)
     ELSE IF MomentumMayEnter(c) /\ qty > 0 THEN <<Buy(qty, 0, "vb-entry", 0)>> ELSE <<>>

(* grid-mean-reversion: 30/30/40 % at 2, 4 and 6 % under the average.       *)
GridRatio == <<30, 30, 40>>
GridBudget(c) == Least(c.quota, c.cash)
GridAmount(c, i) == (GridBudget(c) * GridRatio[i]) \div 100

GridReached(c) == {i \in 1..3 \ c.par.levels : /\ LossOf(c, 2 * i)
                                               /\ Shares(GridAmount(c, i), Price(c)) > 0}

GridBuy(c) ==
  LET next == {i \in GridReached(c) : \A j \in GridReached(c) : i <= j}
      level == CHOOSE i \in next : TRUE
  IN IF next = {} THEN <<>> ELSE BuyFor(GridAmount(c, level), c, "grid-buy", level)

GridHolding(c) == FirstRule(<<
  Rule(FellBy(c, 25), SellAll(c, "risk")),
  Rule(LossOf(c, 8),  SellAll(c, "stop")),
  Rule(c.view.turn,   SellAll(c, "take-profit-full")),
  Rule(~c.par.middle /\ c.view.middle /\ GainOver(c, 0),
       <<Sell(IF c.qty >= 2 THEN c.qty \div 2 ELSE 1, Price(c), "take-profit-middle")>>),
  Rule(~FellBy(c, 15), GridBuy(c))>>)

GridEntry(c) ==
  IF ~FellBy(c, 15) /\ ~c.view.warned /\ c.view.ready /\ c.view.setup
  THEN BuyFor((Least(Scaled(GridBudget(c), c), c.cash) * GridRatio[1]) \div 100, c, "grid-entry", 0)
  ELSE <<>>

GridMeanReversion(c) ==
  IF Price(c) = 0 THEN <<>> ELSE IF Holds(c) THEN GridHolding(c) ELSE GridEntry(c)

(* conservative: 30 % of the quota, out at +3 % or -5 %.                    *)
ConservativeHolding(c) == FirstRule(<<
  Rule(FellBy(c, 15), SellAll(c, "risk")),
  Rule(LossOf(c, 5),  SellAll(c, "stop")),
  Rule(GainOf(c, 3),  SellAll(c, "none"))>>)

ConservativeEntry(c) ==
  IF ~FellBy(c, 10) /\ ~c.view.warned /\ c.view.ready /\ c.view.setup
  THEN BuyFor(Least(Scaled((c.quota * 30) \div 100, c), c.cash), c, "none", 0) ELSE <<>>

Conservative(c) ==
  IF Price(c) = 0 THEN <<>>
  ELSE IF Holds(c) THEN ConservativeHolding(c) ELSE ConservativeEntry(c)

(* trend-following: missing indicators suspend the stop as well; one order  *)
(* a day, except the exits.                                                 *)
TrendHolding(c) == FirstRule(<<
  Rule(LossOf(c, Most(7, c.view.swing)),              SellAll(c, "stop")),
  Rule(c.view.turn,                                   SellAll(c, "none")),
  Rule(~c.done /\ ~FellBy(c, 15) /\ GainOver(c, 5) /\ c.view.setup,
       BuyFor(Least(Scaled(c.quota \div 2, c), c.cash), c, "none", 0))>>)

TrendEntry(c) ==
  IF ~c.done /\ ~FellBy(c, 15) /\ ~c.view.warned /\ c.view.setup
  THEN BuyFor(Least(c.quota, c.cash), c, "none", 0) ELSE <<>>

TrendFollowing(c) ==
  IF Price(c) = 0 THEN <<>>
  ELSE IF FellBy(c, 20) /\ Holds(c) THEN SellAll(c, "risk")
  ELSE IF ~c.view.ready THEN <<>>
  ELSE IF Holds(c) THEN TrendHolding(c) ELSE TrendEntry(c)

(* value-factor *)
ValueHolding(c) == FirstRule(<<
  Rule(FellBy(c, 25),                SellAll(c, "risk")),
  Rule(LossOf(c, 10),                SellAll(c, "stop")),
  Rule(GainOf(c, 15) \/ c.view.turn, SellAll(c, "none"))>>)

ValueEntry(c) ==
  IF ~c.done /\ ~FellBy(c, 15) /\ ~c.view.warned /\ c.view.ready /\ c.view.setup
  THEN BuyFor(Least(c.quota, c.cash), c, "none", 0) ELSE <<>>

ValueFactor(c) ==
  IF Price(c) = 0 THEN <<>>
  ELSE IF Holds(c) THEN ValueHolding(c) ELSE ValueEntry(c)

-----------------------------------------------------------------------------
(* daily-dca *)
DcaBudget(c) == Least(PerCycle(c) + c.par.carried, c.cash)
DcaBuys(c) == /\ Price(c) > 0
              /\ ~c.done
              /\ ~(Holds(c) /\ GainOf(c, 10))
              /\ Holds(c) \/ ~c.view.warned
              /\ ~FellBy(c, 20)
              /\ Invested(c) < c.quota
DcaForced(c) == /\ Holds(c) /\ Price(c) > 0
                /\ \/ FellBy(c, 30)
                   \/ 100 * Price(c) < c.avg * (100 - c.stop)

DailyDca(c) == FirstRule(<<
  Rule(DcaForced(c),                                SellAll(c, "stop")),
  Rule(Price(c) > 0 /\ ~c.done /\ Holds(c) /\ GainOf(c, 10), SellAll(c, "none")),
  Rule(DcaBuys(c),                                  BuyFor(DcaBudget(c), c, "none", 0))>>)

\* '매수 수량 부족': the day's share of the quota may be carried over.
DcaShort(c) == ~DcaForced(c) /\ DcaBuys(c) /\ Shares(DcaBudget(c), Price(c)) = 0

(* infinite-buy.  TargetRate and BonusRate in per mille, by T = invested/share. *)
TargetTable == << <<2, 170, 30>>, <<4, 150, 30>>, <<6, 135, 26>>, <<8, 120, 26>>,
                  <<10, 110, 22>>, <<12, 100, 22>>, <<14, 95, 18>>, <<16, 90, 18>>,
                  <<18, 85, 18>>, <<20, 80, 18>>, <<24, 77, 14>>, <<28, 74, 14>>,
                  <<32, 72, 11>>, <<36, 70, 11>>, <<40, 68, 11>> >>

TargetRow(c) ==
  LET below == {i \in 1..15 : Invested(c) * c.cycles < TargetTable[i][1] * c.quota}
      first == {i \in below : \A j \in below : i <= j}
  IN IF first = {} THEN <<0, 50, 11>> ELSE TargetTable[CHOOSE i \in first : TRUE]

Target(c, perMille) == (c.avg * (1000 + perMille) + 500) \div 1000

\* takeProfitOrderPrice with a tick of one; buys: the cycle's own BUY prices.
OrderPrice(c, target, buys) ==
  IF target > Price(c) THEN target
  ELSE IF buys # {} THEN (Price(c) * 1006 + 999) \div 1000
  ELSE Price(c) - 1

PlanActive(c) == /\ c.par.plan.on /\ c.par.plan.qty > 0
                 /\ c.par.plan.since < c.day
                 /\ c.par.plan.tried \in {NoDay, c.day}

CyclesUsed(c) == Invested(c) >= c.quota
InfiniteAmount(c) ==      \* before the daily cap
  IF CyclesUsed(c) THEN 0
  ELSE (Least(PerCycle(c) + c.par.carried, Rest(c.quota, Invested(c))) * c.view.scale) \div 100
DailyCap(c)       == 3 * PerCycle(c)
InfiniteBudget(c) == Least(Least(InfiniteAmount(c), DailyCap(c)), c.cash)

Buy2Price(c) == (Price(c) * 975 + 500) \div 1000

(* Buy1 70 %, Buy2 30 %; what one of them cannot use goes to the other.     *)
InfiniteBuys(c) ==
  LET budget == InfiniteBudget(c)
      q1 == Shares((budget * 7) \div 10, Price(c))
      q2 == Shares((budget * 3) \div 10, Buy2Price(c))
      left == Rest(budget, q1 * Price(c) + q2 * Buy2Price(c))
      buy1 == IF q2 = 0 THEN Shares(budget, Price(c)) ELSE q1
      buy2 == IF q1 = 0 /\ q2 > 0 THEN q2 + Shares(left, Buy2Price(c)) ELSE q2
  IN (IF buy1 > 0 THEN <<Buy(buy1, Price(c), "none", 0)>> ELSE <<>>)
     \o (IF buy2 > 0 THEN <<Buy(buy2, Buy2Price(c), "none", 0)>> ELSE <<>>)

FirstTarget(c, buys) ==
  LET rate  == TargetRow(c)[2]
      bonus == TargetRow(c)[3]
      half  == (c.qty + 1) \div 2
      price == OrderPrice(c, Target(c, rate), buys)
  IN IF ~Holds(c) \/ price <= 0 THEN <<>>
     ELSE IF half = c.qty THEN <<Sell(half, price, "none")>>
     ELSE <<[Sell(half, price, "take-profit-1") EXCEPT
               !.rest = c.qty - half,
               !.target2 = OrderPrice(c, Target(c, rate + bonus), buys)]>>

SecondTarget(c) ==
  LET price == OrderPrice(c, c.par.plan.price, {})
  IN IF price > 0 THEN <<Sell(Least(c.qty, c.par.plan.qty), price, "take-profit-2")>>
     ELSE <<>>

InfiniteStopped(c) == Holds(c) /\ 100 * Price(c) < c.avg * (100 - c.stop)

\* The evaluation got as far as today's purchase.
InfiniteOpen(c) == /\ Price(c) > 0 /\ ~InfiniteStopped(c) /\ ~c.done
                   /\ ~(Holds(c) /\ PlanActive(c))
                   /\ Holds(c) \/ ~c.view.warned

InfiniteBuy(c) ==
  LET buys == InfiniteBuys(c)
  IN FirstRule(<<
       Rule(Price(c) = 0,                <<>>),
       Rule(InfiniteStopped(c),          SellAll(c, "stop")),
       Rule(c.done,                      <<>>),
       Rule(Holds(c) /\ PlanActive(c),   SecondTarget(c)),
       Rule(InfiniteOpen(c),             buys \o FirstTarget(c, {buys[i].price : i \in DOMAIN buys}))>>)

\* '매수 수량 부족'; a quota that is nearly used up is not carried over.
InfiniteShort(c) ==
  /\ InfiniteOpen(c)
  /\ ~CyclesUsed(c)
  /\ InfiniteBuys(c) = <<>>
  /\ InfiniteBudget(c) > 0 => Rest(c.quota, Invested(c)) >= Buy2Price(c)

-----------------------------------------------------------------------------
Evaluate(c) ==
  CASE c.strategy = "momentum-breakout"   -> MomentumBreakout(c)
    [] c.strategy = "grid-mean-reversion" -> GridMeanReversion(c)
    [] c.strategy = "conservative"        -> Conservative(c)
    [] c.strategy = "trend-following"     -> TrendFollowing(c)
    [] c.strategy = "value-factor"        -> ValueFactor(c)
    [] c.strategy = "daily-dca"           -> DailyDca(c)
    [] c.strategy = "infinite-buy"        -> InfiniteBuy(c)
    [] OTHER                              -> <<>>

\* The skip reason starts with '매수 수량 부족:'.
Short(c) == CASE c.strategy = "daily-dca"    -> DcaShort(c)
              [] c.strategy = "infinite-buy" -> InfiniteShort(c)
              [] OTHER                       -> FALSE

\* Every skip reason starts with '오늘 이미 실행됨'.
Routine(c) ==
  /\ c.done /\ Price(c) > 0
  /\ CASE c.strategy = "daily-dca"       -> ~DcaForced(c)
       [] c.strategy = "infinite-buy"    -> ~InfiniteStopped(c)
       [] c.strategy = "trend-following" -> c.view.ready /\ TrendFollowing(c) = <<>>
       [] c.strategy = "value-factor"    -> ~Holds(c)
       [] OTHER                          -> FALSE

\* details.dailyCapCarryOut
CarryOut(c) == IF c.strategy = "infinite-buy" /\ InfiniteOpen(c)
               THEN Rest(InfiniteAmount(c), DailyCap(c)) ELSE 0

-----------------------------------------------------------------------------
(* What a fill leaves in strategyParams: handleMomentumBreakoutSignalFill   *)
(* and handleGridMeanReversionSignalFill, with the quantity held before.    *)
MomentumFullExit == {"carryover-exit", "intraday-stop", "trailing-stop",
                     "take-profit", "eod-exit", "risk-liquidation"}

MomentumFill(par, s, held, day) ==
  IF s.side = "BUY" THEN [par EXCEPT !.entry = day]
  ELSE IF s.phase \in MomentumFullExit \/ s.qty >= held THEN [par EXCEPT !.entry = NoDay]
  ELSE par

GridClear(par) == [par EXCEPT !.levels = {}, !.middle = FALSE]

GridFill(par, s, held) ==
  IF s.side = "BUY"
  THEN IF s.phase = "grid-entry" \/ held = 0 THEN GridClear(par)
       ELSE [par EXCEPT !.middle = FALSE,
                        !.levels = @ \cup (IF s.level > 0 THEN {s.level} ELSE {})]
  ELSE IF s.phase = "take-profit-middle" /\ s.qty < held THEN [par EXCEPT !.middle = TRUE]
  ELSE IF s.phase \in {"take-profit-middle", "take-profit-full"} \/ s.qty >= held
       THEN GridClear(par)
  ELSE par

(* The second target of an infinite-buy position.                          *)
PlanFill(par, s, left, day) ==
  IF s.side = "SELL" /\ s.phase = "take-profit-1" /\ left > 0
  THEN IF s.target2 > 0 /\ s.rest > 0
       THEN [par EXCEPT !.plan = [on |-> TRUE, since |-> day, tried |-> NoDay,
                                  qty |-> s.rest, price |-> s.target2]]
       ELSE par
  ELSE [par EXCEPT !.plan = NoPlan]
=============================================================================
