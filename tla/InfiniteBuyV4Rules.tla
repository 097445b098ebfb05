-------------------------- MODULE InfiniteBuyV4Rules --------------------------
(***************************************************************************)
(* infinite-buy-v4: a purchase a day in N parts, kept in a ledger of its   *)
(* own (strategyParams.v4) that fills move and evaluations only read.      *)
(*                                                                         *)
(* Prices are in cents.  The turn T, a fraction in the code, is a whole    *)
(* number of parts of 1/Grain, rounded down.  The coefficients are those   *)
(* of TQQQ.                                                                *)
(***************************************************************************)
EXTENDS StrategyRules, SequencesExt

Grain       == 100
StarBase    == 15          \* percent; also the final target
MarkUp      == 12
Premium     == 10
LadderSteps == <<5, 10, 15>>
MaxCloses   == 5
MinCloses   == 3

NotKnown == -1             \* lastKnownHoldQty is missing

Modes   == {"NORMAL", "REVERSE"}
Ledgers == [turn : Int, cash : Int, seq : Nat, known : Int, mode : Modes,
            closes : Seq([day : Nat, close : Nat])]

(* A context c also has ledger, and close: yesterday's close, 0 if unknown. *)
Turns(c) == c.cycles * Grain                       \* N
Full(c)  == c.ledger.turn > Turns(c) - Grain       \* T > N - 1

Percent(amount, p) == (amount * p) \div 100

StarPrice(c) ==            \* avg * (1 + StarBase * (1 - 2T/N) / 100)
  c.avg + (c.avg * StarBase * (Turns(c) - 2 * c.ledger.turn)) \div (100 * Turns(c))

V4Buy(c, qty, price, phase) ==
  LET cap == Percent(Price(c), 100 + Premium)
  IN [side |-> "BUY", qty |-> qty, phase |-> phase, type |-> "LOC", prev |-> 0,
      price |-> IF phase = "v4-first-buy" \/ price < cap THEN price ELSE cap,
      attempt |-> price * qty]

V4Sell(c, qty, price, phase, type) ==
  [side |-> "SELL", qty |-> qty, price |-> price, phase |-> phase, type |-> type,
   prev |-> c.qty, attempt |-> 0]

Leg(c, qty, price, phase) == IF qty > 0 THEN <<V4Buy(c, qty, price, phase)>> ELSE <<>>
Offer(c, qty, price, phase, type) ==
  IF qty > 0 /\ price > 0 THEN <<V4Sell(c, qty, price, phase, type)>> ELSE <<>>

AttemptOf(legs) == SumFunction([i \in DOMAIN legs |-> legs[i].attempt])

(* Every leg of a day carries the amount of all of them: the fills of a day *)
(* that fill everything make one turn.                                      *)
ShareAttempt(legs) ==
  [i \in DOMAIN legs |-> [legs[i] EXCEPT !.attempt = AttemptOf(legs)]]

\* One share at each step the rest of the budget still pays for.
Rung(c, acc, price) ==
  IF price > 0 /\ price <= acc.left
  THEN [left |-> acc.left - price, legs |-> Append(acc.legs, V4Buy(c, 1, price, "v4-ladder-buy"))]
  ELSE acc

Ladder(c, budget, base) ==
  LET rung(acc, n) == Rung(c, acc, Percent(base, 100 - LadderSteps[n]))
  IN rung(rung(rung([left |-> budget, legs |-> <<>>], 1), 2), 3).legs

DayBudget(c) == Rest(Least((c.ledger.cash * Grain) \div (Turns(c) - c.ledger.turn), c.cash), 0)

MainLegs(c) ==
  LET budget == DayBudget(c)
      first  == Percent(Price(c), 100 + MarkUp)
      star   == StarPrice(c) - 1
  IN IF ~Holds(c)
     THEN [base |-> first, legs |-> Leg(c, Shares(budget, first), first, "v4-first-buy")]
     ELSE IF 2 * c.ledger.turn < Turns(c)
     THEN [base |-> IF star > 0 THEN Least(c.avg, star) ELSE c.avg,
           legs |-> Leg(c, Shares(budget \div 2, c.avg), c.avg, "v4-avg-buy")
                    \o Leg(c, Shares(budget \div 2, star), star, "v4-star-buy")]
     ELSE [base |-> star, legs |-> Leg(c, Shares(budget, star), star, "v4-star-buy")]

NormalBuys(c) ==
  LET main == MainLegs(c)
      left == Rest(DayBudget(c), AttemptOf(main.legs))
  IN IF DayBudget(c) > 0
     THEN ShareAttempt(main.legs \o (IF main.base > 0 THEN Ladder(c, left, main.base) ELSE <<>>))
     ELSE <<>>

NormalSells(c) ==
  LET quarter == IF c.qty < 2 \/ StarPrice(c) <= 0 THEN 0
                 ELSE IF c.qty < 4 THEN 1 ELSE c.qty \div 4
  IN IF ~Holds(c) THEN <<>>
     ELSE Offer(c, quarter, StarPrice(c), "v4-quarter-sell", "LOC")
          \o Offer(c, c.qty - quarter, Percent(c.avg, 100 + StarBase), "v4-final-sell", "LIMIT")

\* floor(h / (N / 2))
ReverseQty(c) == (2 * c.qty) \div c.cycles

ReverseFirstDay(c) == Offer(c, ReverseQty(c), Price(c), "v4-reverse-sell", "MOC")

ReverseStar(closes) ==
  SumFunction([i \in DOMAIN closes |-> closes[i].close]) \div Len(closes)

ReverseDay(c, closes) ==
  LET star == ReverseStar(closes)
  IN IF Len(closes) < MinCloses THEN <<>>
     ELSE Offer(c, ReverseQty(c), star, "v4-reverse-sell", "LOC")
          \o ShareAttempt(Leg(c, Shares(Rest(Least(c.ledger.cash \div 4, c.cash), 0), star - 1),
                              star - 1, "v4-reverse-buy"))

-----------------------------------------------------------------------------
\* The account holds what the ledger says, or the evaluation stops.
LedgerAgrees(c) == IF c.ledger.known = NotKnown THEN (c.ledger.turn > 0) = Holds(c)
                                                ELSE c.ledger.known = c.qty

V4Evaluates(c) == Price(c) > 0 /\ ~c.done /\ LedgerAgrees(c)

Recovered(c) == LET close == IF c.close > 0 THEN c.close ELSE Price(c)
                IN 100 * close > c.avg * (100 - StarBase)

\* An else-if: what leaves REVERSE is not asked again whether it must enter it.
NextMode(c) == IF c.ledger.mode = "NORMAL" /\ Full(c) THEN "REVERSE"
               ELSE IF c.ledger.mode = "REVERSE" /\ Holds(c) /\ Recovered(c) THEN "NORMAL"
               ELSE c.ledger.mode

Entering(c) == c.ledger.mode = "NORMAL" /\ Full(c)

NextCloses(c) ==
  LET old  == c.ledger.closes
      seen == \E i \in DOMAIN old : old[i].day = c.day
      all  == Append(old, [day |-> c.day, close |-> c.close])
  IN IF c.close = 0 \/ seen THEN old
     ELSE IF Len(all) > MaxCloses THEN Tail(all) ELSE all

\* calculateDailyBuyBudget throws when N - T is not positive.
V4Throws(c) == V4Evaluates(c) /\ NextMode(c) = "NORMAL" /\ c.ledger.turn >= Turns(c)

InfiniteBuyV4(c) ==
  IF ~V4Evaluates(c) THEN <<>>
  ELSE IF Entering(c) THEN ReverseFirstDay(c)
  ELSE IF NextMode(c) = "REVERSE" THEN ReverseDay(c, NextCloses(c))
  ELSE NormalBuys(c) \o NormalSells(c)

-----------------------------------------------------------------------------
(* applyV4Fill.  held: lastKnownHoldQty, or what the caller computed.       *)
TurnAfterBuy(turn, s, amount, n) ==
  IF s.attempt <= 0 THEN turn
  ELSE IF s.phase = "v4-reverse-buy" THEN turn + ((n * Grain - turn) * amount) \div (4 * s.attempt)
  ELSE turn + (Grain * amount) \div s.attempt

TurnAfterSell(turn, s, qty) ==
  IF s.prev <= 0 THEN turn ELSE turn - (turn * qty) \div s.prev

BuyFill(v4, s, qty, amount, held, n) ==
  [v4 EXCEPT !.turn = TurnAfterBuy(@, s, amount, n), !.cash = @ - amount, !.known = held + qty]

(* The last share sold ends the cycle: what exceeds the principal is put    *)
(* aside unless profits are compounded.                                     *)
SellFill(v4, s, qty, amount, held, quota, compound) ==
  IF held <= qty
  THEN [v4 EXCEPT !.turn = 0, !.seq = @ + 1, !.known = 0,
                  !.cash = IF compound THEN @ + amount ELSE Least(@ + amount, quota)]
  ELSE [v4 EXCEPT !.turn = TurnAfterSell(@, s, qty), !.cash = @ + amount, !.known = held - qty]

\* Mutant of V4Fill: trusts the position instead of the ledger.
V4FillByPosition(v4, s, qty, amount, before, n, quota, compound) ==
  IF s.side = "BUY" THEN BuyFill(v4, s, qty, amount, before, n)
  ELSE SellFill(v4, s, qty, amount, before, quota, compound)

V4Fill(v4, s, qty, amount, before, n, quota, compound) ==
  LET held == IF v4.known = NotKnown THEN before ELSE v4.known
  IN IF s.side = "BUY" THEN BuyFill(v4, s, qty, amount, held, n)
     ELSE SellFill(v4, s, qty, amount, held, quota, compound)
=============================================================================
