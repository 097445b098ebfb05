---------------------------- MODULE StrategyProofs ----------------------------
(***************************************************************************)
(* Whatever the market shows and whatever its parameters are, a strategy   *)
(* orders whole shares, sells no more than it was told the account holds,  *)
(* and asks for no more cash than it was told there is; what its fills     *)
(* leave in strategyParams and in the ledger has the type rules read.      *)
(* Sums over sequences are reasoned about by how one element changes them. *)
(***************************************************************************)
EXTENDS InfiniteBuyV4Rules, SequenceTheorems, FiniteSetTheorems, TLAPS

\* What a context must be for the arithmetic of the rules.
IsContext(c) ==
  /\ c.qty \in Nat /\ c.avg \in Nat /\ c.quota \in Nat /\ c.cycles \in Nat \ {0}
  /\ c.cash \in Int /\ c.view \in Views /\ c.par \in Params

Pay(s, c) == s.qty * (IF s.price = 0 THEN Price(c) ELSE s.price)

\* The signals a context covers.
CoveredBy(c) == {s \in Signals : /\ s.qty > 0
                                 /\ s.side = "SELL" => s.qty <= c.qty
                                 /\ s.side = "BUY"  => Pay(s, c) <= c.cash}

LEMMA FirstRuleIn ==
  ASSUME NEW S, <<>> \in S, NEW rules, \A i \in DOMAIN rules : rules[i].when => rules[i].then \in S
  PROVE  FirstRule(rules) \in S
  BY DEF FirstRule

LEMMA DivBound ==
  ASSUME NEW a \in Nat, NEW b \in Nat, b > 0
  PROVE  a \div b \in Nat /\ (a \div b) * b <= a
  BY SMT

LEMMA SharesBound ==
  ASSUME NEW a \in Int, NEW p \in Nat
  PROVE  Shares(a, p) \in Nat /\ (Shares(a, p) > 0 => p > 0 /\ Shares(a, p) * p <= a)
  BY DivBound DEF Shares

LEMMA ContextFields ==
  ASSUME NEW c, IsContext(c)
  PROVE  /\ Price(c) \in Nat /\ c.view.scale \in Nat /\ c.view.swing \in Nat
         /\ c.par.carried \in Nat /\ c.par.plan.qty \in Nat /\ c.par.plan.price \in Nat
         /\ PerCycle(c) \in Nat /\ Invested(c) \in Nat
  BY DEF IsContext, Price, Views, Params, Plans, PerCycle, Invested

LEMMA SellCovered ==
  ASSUME NEW c, IsContext(c), NEW qty \in Nat, 0 < qty, qty <= c.qty, NEW price \in Nat,
         NEW phase \in Phases
  PROVE  Sell(qty, price, phase) \in CoveredBy(c)
  BY DEF Sell, CoveredBy, Signals

LEMMA BuyCovered ==
  ASSUME NEW c, IsContext(c), NEW qty \in Nat, 0 < qty, NEW price \in Nat, NEW level \in 0..3,
         qty * (IF price = 0 THEN Price(c) ELSE price) <= c.cash, NEW phase \in Phases
  PROVE  Buy(qty, price, phase, level) \in CoveredBy(c)
<1>1. Buy(qty, price, phase, level) \in Signals  BY DEF Buy, Signals
<1>2. Pay(Buy(qty, price, phase, level), c) = qty * (IF price = 0 THEN Price(c) ELSE price)
  BY DEF Buy, Pay
<1> QED  BY <1>1, <1>2 DEF Buy, CoveredBy

LEMMA SellAllCovered ==
  ASSUME NEW c, IsContext(c), Holds(c), NEW phase \in Phases
  PROVE  SellAll(c, phase) \in Seq(CoveredBy(c)) /\ SellAtMarket(c, phase) \in Seq(CoveredBy(c))
<1>1. c.qty \in Nat /\ 0 < c.qty /\ c.qty <= c.qty  BY DEF IsContext, Holds
<1>2. Sell(c.qty, Price(c), phase) \in CoveredBy(c)  BY <1>1, ContextFields, SellCovered
<1>3. Sell(c.qty, 0, phase) \in CoveredBy(c)  BY <1>1, SellCovered
<1> QED  BY <1>2, <1>3 DEF SellAll, SellAtMarket

LEMMA BuyForCovered ==
  ASSUME NEW c, IsContext(c), NEW amount \in Int, amount <= c.cash, NEW phase \in Phases,
         NEW level \in 0..3
  PROVE  BuyFor(amount, c, phase, level) \in Seq(CoveredBy(c))
<1>1. c.cash \in Int /\ Price(c) \in Nat  BY ContextFields DEF IsContext
<1>2. CASE Shares(amount, Price(c)) > 0
  <2>1. /\ Shares(amount, Price(c)) \in Nat /\ Price(c) > 0
        /\ Shares(amount, Price(c)) * Price(c) <= amount
    BY <1>1, <1>2, SharesBound
  <2> DEFINE qty == Shares(amount, Price(c))
  <2>2. qty * (IF Price(c) = 0 THEN Price(c) ELSE Price(c)) <= c.cash
    <3> HIDE DEF qty
    <3>1. qty * Price(c) <= amount /\ qty \in Nat  BY <2>1 DEF qty
    <3>2. qty * Price(c) \in Int  BY <3>1, <1>1
    <3> QED  BY <3>1, <3>2, <1>1
  <2>3. Buy(qty, Price(c), phase, level) \in CoveredBy(c)  BY <1>1, <1>2, <2>1, <2>2, BuyCovered
  <2> QED  BY <1>2, <2>3 DEF BuyFor
<1>3. CASE ~(Shares(amount, Price(c)) > 0)  BY <1>3 DEF BuyFor
<1> QED  BY <1>2, <1>3

-----------------------------------------------------------------------------
\* The amounts that the strategies offer for purchases.
LEMMA LeastIs ==
  ASSUME NEW a \in Int, NEW b \in Int
  PROVE  Least(a, b) \in Int /\ Least(a, b) <= a /\ Least(a, b) <= b
  BY DEF Least

LEMMA RatioIs ==
  ASSUME NEW a \in Int, NEW r \in 0..100
  PROVE  (a * r) \div 100 \in Int /\ (a >= 0 => (a * r) \div 100 <= a)
  BY SMT

LEMMA MomentumCovered ==
  ASSUME NEW c, IsContext(c)
  PROVE  MomentumBreakout(c) \in Seq(CoveredBy(c))
<1>1. CASE Holds(c)
  <2>1. \A phase \in Phases : SellAtMarket(c, phase) \in Seq(CoveredBy(c))  BY <1>1, SellAllCovered
  <2> DEFINE S == Seq(CoveredBy(c))
  <2>2. /\ SellAtMarket(c, "risk-liquidation") \in S /\ SellAtMarket(c, "carryover-exit") \in S
        /\ SellAtMarket(c, "eod-exit") \in S /\ SellAtMarket(c, "intraday-stop") \in S
        /\ SellAtMarket(c, "trailing-stop") \in S
    BY <2>1 DEF Phases
  <2>2a. <<>> \in S  OBVIOUS
  <2> HIDE DEF S
  <2>3. MomentumExit(c) \in S
    BY <2>2, <2>2a, FirstRuleIn, SMT DEF MomentumExit, Rule
  <2> QED  BY <1>1, <2>3 DEF MomentumBreakout, S
<1>2. CASE ~Holds(c)
  <2> DEFINE amount == Least(c.quota, c.cash)
             qty == Shares(amount, Price(c))
  <2>1. amount \in Int /\ amount <= c.cash /\ Price(c) \in Nat /\ c.cash \in Int
    BY ContextFields DEF IsContext, Least
  <2>2. qty \in Nat /\ (qty > 0 => Price(c) > 0 /\ qty * Price(c) <= amount)
    BY <2>1, SharesBound
  <2>3. ASSUME qty > 0 PROVE <<Buy(qty, 0, "vb-entry", 0)>> \in Seq(CoveredBy(c))
    <3> HIDE DEF qty, amount
    <3>1. qty * Price(c) \in Int  BY <2>1, <2>2
    <3>2. qty * (IF 0 = 0 THEN Price(c) ELSE 0) <= c.cash  BY <2>1, <2>2, <2>3, <3>1
    <3>3. 0 \in Nat /\ 0 \in 0..3 /\ 0 < qty  BY <2>2, <2>3
    <3>4. Buy(qty, 0, "vb-entry", 0) \in CoveredBy(c)  BY <2>2, <3>2, <3>3, BuyCovered DEF Phases
    <3> QED  BY <3>4
  <2> QED  BY <1>2, <2>3 DEF MomentumBreakout
<1> QED  BY <1>1, <1>2

LEMMA GridAmountIs ==
  ASSUME NEW c, IsContext(c), NEW i \in 1..3
  PROVE  GridAmount(c, i) \in Int /\ (GridAmount(c, i) > 0 => GridAmount(c, i) <= c.cash)
<1>1. GridBudget(c) \in Int /\ GridBudget(c) <= c.cash /\ c.cash \in Int
  BY DEF GridBudget, IsContext, Least
<1>2. GridRatio[i] \in 0..100  BY DEF GridRatio
<1>3. ASSUME GridBudget(c) < 0 PROVE GridAmount(c, i) <= 0
  BY <1>1, <1>2, <1>3, SMT DEF GridAmount, GridRatio
<1> QED  BY <1>1, <1>2, <1>3, RatioIs DEF GridAmount

LEMMA BuyForAmount ==        \* an amount that may be negative
  ASSUME NEW c, IsContext(c), NEW amount \in Int, amount > 0 => amount <= c.cash,
         NEW phase \in Phases, NEW level \in 0..3
  PROVE  BuyFor(amount, c, phase, level) \in Seq(CoveredBy(c))
<1>1. CASE amount > 0  BY <1>1, BuyForCovered
<1>2. CASE ~(amount > 0)
  <2>1. Shares(amount, Price(c)) = 0  BY <1>2 DEF Shares
  <2> QED  BY <2>1 DEF BuyFor
<1> QED  BY <1>1, <1>2

LEMMA ScaledIs ==
  ASSUME NEW c, IsContext(c), NEW amount \in Int
  PROVE  Scaled(amount, c) \in Int
  BY ContextFields DEF Scaled

LEMMA CashNeeds ==
  ASSUME NEW c, IsContext(c), NEW a \in Int
  PROVE  Least(a, c.cash) \in Int /\ Least(a, c.cash) <= c.cash
  BY DEF IsContext, Least

LEMMA SellSomeCovered ==
  ASSUME NEW c, IsContext(c), NEW qty \in Nat, 0 < qty, qty <= c.qty, NEW price \in Nat,
         NEW phase \in Phases
  PROVE  <<Sell(qty, price, phase)>> \in Seq(CoveredBy(c))
  BY SellCovered

LEMMA GridBuyCovered ==
  ASSUME NEW c, IsContext(c)
  PROVE  GridBuy(c) \in Seq(CoveredBy(c))
<1> DEFINE next == {i \in GridReached(c) : \A j \in GridReached(c) : i <= j}
           level == CHOOSE i \in next : TRUE
<1>1. CASE next = {}  BY <1>1 DEF GridBuy
<1>2. CASE next # {}
  <2>1. level \in 1..3  BY <1>2 DEF GridReached
  <2>2. GridAmount(c, level) \in Int /\ (GridAmount(c, level) > 0 => GridAmount(c, level) <= c.cash)
    BY <2>1, GridAmountIs
  <2>3. BuyFor(GridAmount(c, level), c, "grid-buy", level) \in Seq(CoveredBy(c))
    <3> HIDE DEF level
    <3>1. level \in 0..3  BY <2>1 DEF level
    <3> QED  BY <2>2, <3>1, BuyForAmount DEF Phases
  <2> QED  BY <1>2, <2>3 DEF GridBuy
<1> QED  BY <1>1, <1>2

LEMMA GridEntryCovered ==
  ASSUME NEW c, IsContext(c)
  PROVE  GridEntry(c) \in Seq(CoveredBy(c))
<1> DEFINE base == Least(Scaled(GridBudget(c), c), c.cash)
           amount == (base * GridRatio[1]) \div 100
<1>1. GridBudget(c) \in Int  BY DEF GridBudget, IsContext, Least
<1>2. Scaled(GridBudget(c), c) \in Int  BY <1>1, ScaledIs
<1>3. base \in Int /\ base <= c.cash  BY <1>2, CashNeeds
<1>4. amount \in Int /\ (amount > 0 => amount <= c.cash)
  <2> HIDE DEF base
  <2> QED  BY <1>3, SMT DEF GridRatio, IsContext
<1>5. BuyFor(amount, c, "grid-entry", 0) \in Seq(CoveredBy(c))
  <2> HIDE DEF amount
  <2> QED  BY <1>4, BuyForAmount DEF Phases
<1> QED  BY <1>5 DEF GridEntry

LEMMA GridCovered ==
  ASSUME NEW c, IsContext(c)
  PROVE  GridMeanReversion(c) \in Seq(CoveredBy(c))
<1> DEFINE S == Seq(CoveredBy(c))
           middle == <<Sell(IF c.qty >= 2 THEN c.qty \div 2 ELSE 1, Price(c), "take-profit-middle")>>
<1>1. <<>> \in S  OBVIOUS
<1>2. CASE Holds(c)
  <2>1. /\ SellAll(c, "risk") \in S /\ SellAll(c, "stop") \in S
        /\ SellAll(c, "take-profit-full") \in S
    BY <1>2, SellAllCovered DEF Phases
  <2>2. middle \in S
    <3> DEFINE qty == IF c.qty >= 2 THEN c.qty \div 2 ELSE 1
    <3>1. qty \in Nat /\ 0 < qty /\ qty <= c.qty  BY <1>2, SMT DEF Holds, IsContext
    <3> HIDE DEF qty
    <3>2. <<Sell(qty, Price(c), "take-profit-middle")>> \in S
      BY <3>1, ContextFields, SellSomeCovered DEF Phases
    <3> QED  BY <3>2 DEF qty
  <2>3. GridBuy(c) \in S  BY GridBuyCovered
  <2> HIDE DEF S
  <2>4. GridHolding(c) \in S
    BY <1>1, <2>1, <2>2, <2>3, FirstRuleIn, SMT DEF GridHolding, Rule
  <2> QED  BY <1>1, <1>2, <2>4 DEF GridMeanReversion, S
<1>3. CASE ~Holds(c)  BY <1>1, <1>3, GridEntryCovered DEF GridMeanReversion
<1> QED  BY <1>2, <1>3

LEMMA ConservativeCovered ==
  ASSUME NEW c, IsContext(c)
  PROVE  Conservative(c) \in Seq(CoveredBy(c))
<1> DEFINE S == Seq(CoveredBy(c))
<1>1. <<>> \in S  OBVIOUS
<1>2. CASE Holds(c)
  <2>1. /\ SellAll(c, "risk") \in S /\ SellAll(c, "stop") \in S /\ SellAll(c, "none") \in S
    BY <1>2, SellAllCovered DEF Phases
  <2> HIDE DEF S
  <2>2. ConservativeHolding(c) \in S
    BY <1>1, <2>1, FirstRuleIn, SMT DEF ConservativeHolding, Rule
  <2> QED  BY <1>1, <1>2, <2>2 DEF Conservative, S
<1>3. CASE ~Holds(c)
  <2> DEFINE share  == (c.quota * 30) \div 100
             amount == Least(Scaled(share, c), c.cash)
  <2>1. share \in Int  BY SMT DEF IsContext
  <2>2. Scaled(share, c) \in Int
    <3> HIDE DEF share
    <3> QED  BY <2>1, ScaledIs
  <2>3. amount \in Int /\ amount <= c.cash
    <3> HIDE DEF share
    <3> QED  BY <2>2, CashNeeds
  <2>4. BuyFor(amount, c, "none", 0) \in S
    <3> HIDE DEF amount
    <3> QED  BY <2>3, BuyForCovered DEF Phases
  <2> QED  BY <1>1, <1>3, <2>4 DEF Conservative, ConservativeEntry
<1> QED  BY <1>2, <1>3

LEMMA QuotaBuyCovered ==
  ASSUME NEW c, IsContext(c)
  PROVE  BuyFor(Least(c.quota, c.cash), c, "none", 0) \in Seq(CoveredBy(c))
<1> DEFINE amount == Least(c.quota, c.cash)
<1>1. amount \in Int /\ amount <= c.cash  BY CashNeeds DEF IsContext
<1> HIDE DEF amount
<1>2. BuyFor(amount, c, "none", 0) \in Seq(CoveredBy(c))  BY <1>1, BuyForCovered DEF Phases
<1> QED  BY <1>2 DEF amount

LEMMA TrendCovered ==
  ASSUME NEW c, IsContext(c)
  PROVE  TrendFollowing(c) \in Seq(CoveredBy(c))
<1> DEFINE S == Seq(CoveredBy(c))
<1>1. <<>> \in S  OBVIOUS
<1>2. CASE Holds(c)
  <2>1. /\ SellAll(c, "risk") \in S /\ SellAll(c, "stop") \in S /\ SellAll(c, "none") \in S
    BY <1>2, SellAllCovered DEF Phases
  <2> DEFINE half   == c.quota \div 2
             amount == Least(Scaled(half, c), c.cash)
  <2>2. half \in Int  BY SMT DEF IsContext
  <2>3. Scaled(half, c) \in Int
    <3> HIDE DEF half
    <3> QED  BY <2>2, ScaledIs
  <2>4. amount \in Int /\ amount <= c.cash
    <3> HIDE DEF half
    <3> QED  BY <2>3, CashNeeds
  <2>5. BuyFor(amount, c, "none", 0) \in S
    <3> HIDE DEF amount
    <3> QED  BY <2>4, BuyForCovered DEF Phases
  <2> HIDE DEF S
  <2>6. TrendHolding(c) \in S
    BY <1>1, <2>1, <2>5, FirstRuleIn, SMT DEF TrendHolding, Rule
  <2> QED  BY <1>1, <1>2, <2>1, <2>6 DEF TrendFollowing, S
<1>3. CASE ~Holds(c)
  BY <1>1, <1>3, QuotaBuyCovered DEF TrendFollowing, TrendEntry
<1> QED  BY <1>2, <1>3

LEMMA ValueCovered ==
  ASSUME NEW c, IsContext(c)
  PROVE  ValueFactor(c) \in Seq(CoveredBy(c))
<1> DEFINE S == Seq(CoveredBy(c))
<1>1. <<>> \in S  OBVIOUS
<1>2. CASE Holds(c)
  <2>1. /\ SellAll(c, "risk") \in S /\ SellAll(c, "stop") \in S /\ SellAll(c, "none") \in S
    BY <1>2, SellAllCovered DEF Phases
  <2> HIDE DEF S
  <2>2. ValueHolding(c) \in S
    BY <1>1, <2>1, FirstRuleIn, SMT DEF ValueHolding, Rule
  <2> QED  BY <1>1, <1>2, <2>2 DEF ValueFactor, S
<1>3. CASE ~Holds(c)
  BY <1>1, <1>3, QuotaBuyCovered DEF ValueFactor, ValueEntry
<1> QED  BY <1>2, <1>3

LEMMA DcaCovered ==
  ASSUME NEW c, IsContext(c)
  PROVE  DailyDca(c) \in Seq(CoveredBy(c))
<1> DEFINE S == Seq(CoveredBy(c))
<1>1. <<>> \in S  OBVIOUS
<1>2. ASSUME Holds(c) PROVE SellAll(c, "stop") \in S /\ SellAll(c, "none") \in S
  BY <1>2, SellAllCovered DEF Phases
<1>3. DcaForced(c) => Holds(c)  BY DEF DcaForced
<1>4. BuyFor(DcaBudget(c), c, "none", 0) \in S
  <2>1. PerCycle(c) + c.par.carried \in Int  BY ContextFields
  <2>2. DcaBudget(c) \in Int /\ DcaBudget(c) <= c.cash  BY <2>1, CashNeeds DEF DcaBudget
  <2> QED  BY <2>2, BuyForCovered DEF Phases
<1> HIDE DEF S
<1>5. DailyDca(c) \in S
  <2> DEFINE rules == <<
        Rule(DcaForced(c),                                         SellAll(c, "stop")),
        Rule(Price(c) > 0 /\ ~c.done /\ Holds(c) /\ GainOf(c, 10), SellAll(c, "none")),
        Rule(DcaBuys(c),                       BuyFor(DcaBudget(c), c, "none", 0))>>
  <2>1. DOMAIN rules = 1..3  OBVIOUS
  <2>2. rules[1].when => rules[1].then \in S  BY <1>2, <1>3 DEF Rule
  <2>3. rules[2].when => rules[2].then \in S  BY <1>2 DEF Rule
  <2>4. rules[3].then \in S  BY <1>4 DEF Rule
  <2>5. DailyDca(c) = FirstRule(rules)  BY DEF DailyDca
  <2> HIDE DEF rules
  <2>6. \A i \in DOMAIN rules : rules[i].when => rules[i].then \in S  BY <2>1, <2>2, <2>3, <2>4
  <2> QED  BY <1>1, <2>5, <2>6, FirstRuleIn
<1> QED  BY <1>5 DEF S

-----------------------------------------------------------------------------
\* The two orders and the targets of infinite-buy.
LEMMA InfiniteBudgetIs ==
  ASSUME NEW c, IsContext(c)
  PROVE  InfiniteBudget(c) \in Int /\ InfiniteBudget(c) <= c.cash
<1> DEFINE a == Least(InfiniteAmount(c), DailyCap(c))
<1>1. DailyCap(c) \in Int  BY ContextFields DEF DailyCap
<1>2. Rest(c.quota, Invested(c)) \in Int  BY ContextFields DEF Rest, IsContext
<1>3. InfiniteAmount(c) \in Int
  <2> DEFINE b == Least(PerCycle(c) + c.par.carried, Rest(c.quota, Invested(c)))
  <2>1. b \in Int  BY <1>2, ContextFields DEF Least
  <2>2. c.view.scale \in Nat  BY ContextFields
  <2>3. (b * c.view.scale) \div 100 \in Int
    <3> HIDE DEF b
    <3> QED  BY <2>1, <2>2, SMT
  <2> QED  BY <2>3 DEF InfiniteAmount
<1>4. a \in Int  BY <1>1, <1>3 DEF Least
<1>5. Least(a, c.cash) \in Int /\ Least(a, c.cash) <= c.cash
  <2> HIDE DEF a
  <2> QED  BY <1>4, CashNeeds
<1> QED  BY <1>5 DEF InfiniteBudget

LEMMA OneBuyCovered ==       \* an order of what a part of the cash buys, or none
  ASSUME NEW c, IsContext(c), NEW qty \in Nat, NEW price \in Nat,
         qty > 0 => price > 0 /\ qty * price <= c.cash
  PROVE  (IF qty > 0 THEN <<Buy(qty, price, "none", 0)>> ELSE <<>>) \in Seq(CoveredBy(c))
<1>1. CASE qty > 0
  <2>1. qty * (IF price = 0 THEN Price(c) ELSE price) <= c.cash  BY <1>1
  <2>2. Buy(qty, price, "none", 0) \in CoveredBy(c)  BY <1>1, <2>1, BuyCovered DEF Phases
  <2> QED  BY <1>1, <2>2
<1>2. CASE ~(qty > 0)  BY <1>2
<1> QED  BY <1>1, <1>2

LEMMA PositiveShares ==      \* what an amount buys is paid for by any cash above it
  ASSUME NEW a \in Int, NEW p \in Nat, NEW cash \in Int, a > 0 => a <= cash
  PROVE  Shares(a, p) \in Nat /\ (Shares(a, p) > 0 => p > 0 /\ Shares(a, p) * p <= cash)
<1> DEFINE q == Shares(a, p)
<1>1. q \in Nat /\ (q > 0 => p > 0 /\ q * p <= a)  BY SharesBound
<1>2. q > 0 => a > 0  BY DEF Shares
<1> HIDE DEF q
<1>3. q * p \in Int  BY <1>1
<1>4. q > 0 => p > 0 /\ q * p <= cash  BY <1>1, <1>2, <1>3
<1> QED  BY <1>1, <1>4 DEF q

\* Whole shares of both orders that leave something of a budget, and more for the rest.
LEMMA SpendTheRest ==
  ASSUME NEW b \in Int, NEW p \in Nat, NEW q \in Nat, NEW paid \in Int, q * p <= paid,
         q > 0 => p > 0
  PROVE  LET more == Shares(Rest(b, paid), p)
         IN more \in Nat /\ (more > 0 => p > 0 /\ (q + more) * p <= b)
<1> DEFINE left == Rest(b, paid)
           more == Shares(left, p)
<1>1. left \in Int  BY DEF Rest
<1>2. more \in Nat /\ (more > 0 => p > 0 /\ more * p <= left)
  <2> HIDE DEF left
  <2> QED  BY <1>1, SharesBound
<1>3. more > 0 => left > 0  BY DEF Shares
<1>4. left > 0 => left = b - paid  BY DEF Rest
<1> HIDE DEF left, more
<1>5. (q + more) * p = q * p + more * p  BY <1>2, SMT
<1>6. q * p \in Int /\ more * p \in Int  BY <1>2
<1>7. more > 0 => p > 0 /\ (q + more) * p <= b  BY <1>1, <1>2, <1>3, <1>4, <1>5, <1>6
<1> QED  BY <1>2, <1>7 DEF more, left

LEMMA InfiniteBuysCovered ==
  ASSUME NEW c, IsContext(c)
  PROVE  InfiniteBuys(c) \in Seq(CoveredBy(c))
<1> DEFINE budget == InfiniteBudget(c)
           a1 == (budget * 7) \div 10
           a2 == (budget * 3) \div 10
           p1 == Price(c)
           p2 == Buy2Price(c)
           q1 == Shares(a1, p1)
           q2 == Shares(a2, p2)
           left == Rest(budget, q1 * p1 + q2 * p2)
           buy1 == IF q2 = 0 THEN Shares(budget, p1) ELSE q1
           buy2 == IF q1 = 0 /\ q2 > 0 THEN q2 + Shares(left, p2) ELSE q2
<1>1. budget \in Int /\ budget <= c.cash /\ c.cash \in Int
  BY InfiniteBudgetIs DEF IsContext
<1>2. p1 \in Nat /\ p2 \in Nat  BY ContextFields, SMT DEF Buy2Price
<1>3. /\ a1 \in Int /\ (a1 > 0 => a1 <= budget)
      /\ a2 \in Int /\ (a2 > 0 => a2 <= budget)
  <2> HIDE DEF budget
  <2> QED  BY <1>1, SMT
<1> HIDE DEF budget, p1, p2
<1>4. /\ q1 \in Nat /\ (q1 > 0 => p1 > 0 /\ q1 * p1 <= c.cash)
      /\ q2 \in Nat /\ (q2 > 0 => p2 > 0 /\ q2 * p2 <= c.cash)
  <2>1. (a1 > 0 => a1 <= c.cash) /\ (a2 > 0 => a2 <= c.cash)  BY <1>1, <1>3
  <2> HIDE DEF a1, a2
  <2> QED  BY <1>1, <1>2, <1>3, <2>1, PositiveShares
<1>5. buy1 \in Nat /\ (buy1 > 0 => p1 > 0 /\ buy1 * p1 <= c.cash)
  <2>1. Shares(budget, p1) \in Nat /\ (Shares(budget, p1) > 0 => p1 > 0 /\ Shares(budget, p1) * p1 <= c.cash)
    BY <1>1, <1>2, PositiveShares
  <2> HIDE DEF q1, q2
  <2>2. CASE q2 = 0  BY <2>1, <2>2
  <2>3. CASE q2 # 0  BY <1>4, <2>3
  <2> QED  BY <2>2, <2>3
<1>6. buy2 \in Nat /\ (buy2 > 0 => p2 > 0 /\ buy2 * p2 <= c.cash)
  <2> DEFINE more == Shares(left, p2)
  <2> HIDE DEF q1, q2
  <2>1. CASE q1 = 0 /\ q2 > 0
    <3>1. q1 * p1 = 0 /\ q2 * p2 \in Nat  BY <1>2, <1>4, <2>1
    <3>2. left = Rest(budget, q2 * p2)  BY <3>1
    <3>3. more \in Nat /\ (more > 0 => p2 > 0 /\ (q2 + more) * p2 <= budget)
      <4> DEFINE paid == q2 * p2
      <4>1. paid \in Int /\ q2 * p2 <= paid  BY <3>1
      <4>2. Shares(Rest(budget, paid), p2) \in Nat
            /\ (Shares(Rest(budget, paid), p2) > 0
                  => p2 > 0 /\ (q2 + Shares(Rest(budget, paid), p2)) * p2 <= budget)
        <5> HIDE DEF paid
        <5> QED  BY <1>1, <1>2, <1>4, <4>1, SpendTheRest
      <4> QED  BY <3>2, <4>2
    <3> HIDE DEF more
    <3>4. buy2 = q2 + more  BY <2>1 DEF more
    <3>5. (q2 + more) * p2 \in Int  BY <1>2, <1>4, <3>3
    <3>6. (q2 + more) * p2 <= c.cash
      <4>1. CASE more > 0  BY <1>1, <3>3, <3>5, <4>1
      <4>2. CASE ~(more > 0)  BY <1>4, <2>1, <3>3, <4>2
      <4> QED  BY <4>1, <4>2
    <3> HIDE DEF buy2
    <3> QED  BY <1>4, <2>1, <3>3, <3>4, <3>6
  <2>2. CASE ~(q1 = 0 /\ q2 > 0)  BY <1>4, <2>2
  <2> QED  BY <2>1, <2>2
<1>7. InfiniteBuys(c) = (IF buy1 > 0 THEN <<Buy(buy1, p1, "none", 0)>> ELSE <<>>)
                        \o (IF buy2 > 0 THEN <<Buy(buy2, p2, "none", 0)>> ELSE <<>>)
  BY DEF InfiniteBuys, budget, p1, p2
<1> HIDE DEF buy1, buy2
<1>8. (IF buy1 > 0 THEN <<Buy(buy1, p1, "none", 0)>> ELSE <<>>) \in Seq(CoveredBy(c))
  BY <1>2, <1>5, OneBuyCovered
<1>9. (IF buy2 > 0 THEN <<Buy(buy2, p2, "none", 0)>> ELSE <<>>) \in Seq(CoveredBy(c))
  BY <1>2, <1>6, OneBuyCovered
<1> QED  BY <1>7, <1>8, <1>9

LEMMA OrderPriceIs ==
  ASSUME NEW c, IsContext(c), Price(c) > 0, NEW target \in Nat, NEW buys
  PROVE  OrderPrice(c, target, buys) \in Nat
  BY ContextFields, SMT DEF OrderPrice

LEMMA TargetIs ==
  ASSUME NEW c, IsContext(c)
  PROVE  /\ Target(c, TargetRow(c)[2]) \in Nat
         /\ Target(c, TargetRow(c)[2] + TargetRow(c)[3]) \in Nat
<1>1. \A n \in Nat : Target(c, n) \in Nat
  <2> SUFFICES ASSUME NEW n \in Nat PROVE Target(c, n) \in Nat  OBVIOUS
  <2>1. c.avg * (1000 + n) \in Nat  BY DEF IsContext
  <2> QED  BY <2>1, SMT DEF Target
<1>2. TargetRow(c)[2] \in Nat /\ TargetRow(c)[3] \in Nat
  <2> DEFINE below == {i \in 1..15 : Invested(c) * c.cycles < TargetTable[i][1] * c.quota}
             first == {i \in below : \A j \in below : i <= j}
             row   == CHOOSE i \in first : TRUE
  <2>1. CASE first = {}
    <3>1. TargetRow(c) = <<0, 50, 11>>  BY <2>1 DEF TargetRow
    <3> QED  BY <3>1
  <2>2. CASE first # {}
    <3>1. row \in 1..15  BY <2>2
    <3>2. TargetRow(c) = TargetTable[row]  BY <2>2 DEF TargetRow
    <3>3. \A i \in 1..15 : TargetTable[i][2] \in Nat /\ TargetTable[i][3] \in Nat
      BY SMT DEF TargetTable
    <3> HIDE DEF row
    <3> QED  BY <3>1, <3>2, <3>3
  <2> QED  BY <2>1, <2>2
<1> QED  BY <1>1, <1>2

LEMMA FirstTargetCovered ==
  ASSUME NEW c, IsContext(c), Price(c) > 0, NEW buys
  PROVE  FirstTarget(c, buys) \in Seq(CoveredBy(c))
<1> DEFINE half   == (c.qty + 1) \div 2
           price  == OrderPrice(c, Target(c, TargetRow(c)[2]), buys)
           second == OrderPrice(c, Target(c, TargetRow(c)[2] + TargetRow(c)[3]), buys)
           later  == [Sell(half, price, "take-profit-1") EXCEPT !.rest = c.qty - half,
                                                                !.target2 = second]
<1>1. price \in Nat /\ second \in Nat  BY TargetIs, OrderPriceIs
<1>2. CASE ~Holds(c) \/ price <= 0  BY <1>2 DEF FirstTarget
<1>3. CASE Holds(c) /\ ~(price <= 0)
  <2>1. half \in Nat /\ 0 < half /\ half <= c.qty /\ c.qty - half \in Nat
    BY <1>3, SMT DEF Holds, IsContext
  <2>2. FirstTarget(c, buys) = IF half = c.qty THEN <<Sell(half, price, "none")>> ELSE <<later>>
    BY <1>3 DEF FirstTarget
  <2> HIDE DEF half, price, second
  <2>3. Sell(half, price, "none") \in CoveredBy(c)  BY <1>1, <2>1, SellCovered DEF Phases
  <2>4. later \in CoveredBy(c)
    <3>1. later \in Signals
      <4>1. Sell(half, price, "take-profit-1") \in Signals
        BY <1>1, <2>1 DEF Sell, Signals, Phases
      <4>2. c.qty - half \in Nat /\ second \in Nat  BY <1>1, <2>1
      <4> QED  BY <4>1, <4>2, Zenon DEF Signals
    <3>2. later.side = "SELL" /\ later.qty = half  BY DEF Sell
    <3> QED  BY <2>1, <3>1, <3>2 DEF CoveredBy
  <2> QED  BY <2>2, <2>3, <2>4
<1> QED  BY <1>2, <1>3

LEMMA SecondTargetCovered ==
  ASSUME NEW c, IsContext(c), Price(c) > 0, Holds(c), PlanActive(c)
  PROVE  SecondTarget(c) \in Seq(CoveredBy(c))
<1> DEFINE qty   == Least(c.qty, c.par.plan.qty)
           price == OrderPrice(c, c.par.plan.price, {})
<1>1. qty \in Nat /\ 0 < qty /\ qty <= c.qty
  BY ContextFields DEF Holds, PlanActive, Least, IsContext
<1>2. price \in Nat  BY ContextFields, OrderPriceIs
<1>3. SecondTarget(c) = IF price > 0 THEN <<Sell(qty, price, "take-profit-2")>> ELSE <<>>
  BY DEF SecondTarget
<1> HIDE DEF qty, price
<1>4. Sell(qty, price, "take-profit-2") \in CoveredBy(c)  BY <1>1, <1>2, SellCovered DEF Phases
<1> QED  BY <1>3, <1>4

LEMMA InfiniteCovered ==
  ASSUME NEW c, IsContext(c)
  PROVE  InfiniteBuy(c) \in Seq(CoveredBy(c))
<1> DEFINE S     == Seq(CoveredBy(c))
           buys  == InfiniteBuys(c)
           asked == {buys[i].price : i \in DOMAIN buys}
           rules == <<
             Rule(Price(c) = 0,              <<>>),
             Rule(InfiniteStopped(c),        SellAll(c, "stop")),
             Rule(c.done,                    <<>>),
             Rule(Holds(c) /\ PlanActive(c), SecondTarget(c)),
             Rule(InfiniteOpen(c),           buys \o FirstTarget(c, asked))>>
<1>1. <<>> \in S  OBVIOUS
<1>2. CASE Price(c) = 0
  <2>1. rules[1].when /\ rules[1].then = <<>>  BY <1>2 DEF Rule
  <2>2. DOMAIN rules = 1..5  OBVIOUS
  <2>3. InfiniteBuy(c) = FirstRule(rules)  BY DEF InfiniteBuy
  <2> HIDE DEF rules
  <2>4. FirstRule(rules) = <<>>
    <3> DEFINE hits  == {i \in DOMAIN rules : rules[i].when}
               first == {i \in hits : \A j \in hits : i <= j}
    <3>1. 1 \in first /\ first = {1}  BY <2>1, <2>2
    <3>2. FirstRule(rules) = IF first = {} THEN <<>> ELSE rules[CHOOSE i \in first : TRUE].then
      BY DEF FirstRule
    <3> HIDE DEF first
    <3>3. (CHOOSE i \in first : TRUE) = 1  BY <3>1
    <3> QED  BY <2>1, <3>1, <3>2, <3>3
  <2> QED  BY <1>1, <2>3, <2>4
<1>3. CASE Price(c) # 0
  <2>1. Price(c) > 0  BY <1>3, ContextFields
  <2>2. DOMAIN rules = 1..5  OBVIOUS
  <2>3. rules[1].then \in S /\ rules[3].then \in S  BY <1>1 DEF Rule
  <2>4. rules[2].when => rules[2].then \in S  BY SellAllCovered DEF Rule, InfiniteStopped, Phases
  <2>5. rules[4].when => rules[4].then \in S  BY <2>1, SecondTargetCovered DEF Rule
  <2>6. rules[5].then \in S
    <3> HIDE DEF asked
    <3>1. FirstTarget(c, asked) \in S  BY <2>1, FirstTargetCovered
    <3>2. buys \in S  BY InfiniteBuysCovered
    <3> HIDE DEF buys
    <3>3. buys \o FirstTarget(c, asked) \in S  BY <3>1, <3>2
    <3> QED  BY <3>3 DEF Rule
  <2>7. InfiniteBuy(c) = FirstRule(rules)  BY DEF InfiniteBuy
  <2> HIDE DEF rules, S
  <2>8. \A i \in DOMAIN rules : rules[i].when => rules[i].then \in S
    BY <2>2, <2>3, <2>4, <2>5, <2>6
  <2>9. <<>> \in S  BY <1>1
  <2> QED  BY <2>7, <2>8, <2>9, FirstRuleIn DEF S
<1> QED  BY <1>2, <1>3

-----------------------------------------------------------------------------
(* Whatever a strategy is told, each order it asks for is of a positive     *)
(* number of shares, no sale is larger than the holding and no purchase     *)
(* costs more than the cash: evaluateStock of every strategy, including the *)
(* quotes, carried quotas and plans no test feeds it.                       *)
THEOREM SignalsCovered ==
  ASSUME NEW c, IsContext(c)
  PROVE  Evaluate(c) \in Seq(CoveredBy(c))
<1> DEFINE S == Seq(CoveredBy(c))
<1>1. /\ MomentumBreakout(c) \in S /\ GridMeanReversion(c) \in S /\ Conservative(c) \in S
      /\ TrendFollowing(c) \in S /\ ValueFactor(c) \in S /\ DailyDca(c) \in S
      /\ InfiniteBuy(c) \in S /\ <<>> \in S
  BY MomentumCovered, GridCovered, ConservativeCovered, TrendCovered, ValueCovered, DcaCovered,
     InfiniteCovered
<1> HIDE DEF S
<1>2. Evaluate(c) \in S  BY <1>1 DEF Evaluate
<1> QED  BY <1>2 DEF S

(* The two orders infinite-buy places together, at the price and below the  *)
(* average, can both be paid for: the 70/30 split of the day's budget, each *)
(* part rounded down, leaves nothing to the cash check of the second order. *)
THEOREM InfiniteBuysFit ==
  ASSUME NEW c, IsContext(c), Len(InfiniteBuys(c)) = 2
  PROVE  Pay(InfiniteBuys(c)[1], c) + Pay(InfiniteBuys(c)[2], c) <= c.cash
<1> DEFINE budget == InfiniteBudget(c)
           a1 == (budget * 7) \div 10
           a2 == (budget * 3) \div 10
           p1 == Price(c)
           p2 == Buy2Price(c)
           q1 == Shares(a1, p1)
           q2 == Shares(a2, p2)
           left == Rest(budget, q1 * p1 + q2 * p2)
           buy1 == IF q2 = 0 THEN Shares(budget, p1) ELSE q1
           buy2 == IF q1 = 0 /\ q2 > 0 THEN q2 + Shares(left, p2) ELSE q2
           first  == IF buy1 > 0 THEN <<Buy(buy1, p1, "none", 0)>> ELSE <<>>
           second == IF buy2 > 0 THEN <<Buy(buy2, p2, "none", 0)>> ELSE <<>>
<1>1. budget \in Int /\ budget <= c.cash /\ c.cash \in Int
  BY InfiniteBudgetIs DEF IsContext
<1>2. p1 \in Nat /\ p2 \in Nat  BY ContextFields, SMT DEF Buy2Price
<1>3. a1 \in Int /\ a2 \in Int /\ a1 + a2 <= budget /\ (a1 > 0 => budget > 0)
  <2> HIDE DEF budget
  <2> QED  BY <1>1, SMT
<1>4. InfiniteBuys(c) = first \o second  BY DEF InfiniteBuys
<1> HIDE DEF budget, p1, p2
<1>5. /\ q1 \in Nat /\ (q1 > 0 => p1 > 0 /\ q1 * p1 <= a1)
      /\ q2 \in Nat /\ (q2 > 0 => p2 > 0 /\ q2 * p2 <= a2)
  <2> HIDE DEF a1, a2
  <2> QED  BY <1>2, <1>3, SharesBound
<1> HIDE DEF q1, q2, a1, a2
<1>6. buy1 > 0 /\ buy2 > 0
  <2> HIDE DEF buy1, buy2
  <2>1. Len(first \o second) = 2  BY <1>4
  <2> QED  BY <2>1
<1>7. q2 > 0  BY <1>5, <1>6
<1>8. buy1 = q1 /\ q1 > 0 /\ buy2 = q2  BY <1>5, <1>6, <1>7
<1>9. q1 * p1 + q2 * p2 <= c.cash
  <2>1. q1 * p1 \in Int /\ q2 * p2 \in Int  BY <1>2, <1>5
  <2> QED  BY <1>1, <1>3, <1>5, <1>7, <1>8, <2>1
<1> HIDE DEF buy1, buy2
<1>10. InfiniteBuys(c)[1] = Buy(buy1, p1, "none", 0) /\ InfiniteBuys(c)[2] = Buy(buy2, p2, "none", 0)
  <2> DEFINE b1 == Buy(buy1, p1, "none", 0)
             b2 == Buy(buy2, p2, "none", 0)
  <2>1. first = <<b1>> /\ second = <<b2>>  BY <1>6
  <2> HIDE DEF first, second, b1, b2
  <2>2. <<b1>> \in Seq({b1, b2}) /\ <<b2>> \in Seq({b1, b2})  OBVIOUS
  <2>3. (<<b1>> \o <<b2>>)[1] = b1 /\ (<<b1>> \o <<b2>>)[2] = b2  BY <2>2, ConcatProperties
  <2> QED  BY <1>4, <2>1, <2>3 DEF b1, b2
<1>11. Pay(InfiniteBuys(c)[1], c) = q1 * p1 /\ Pay(InfiniteBuys(c)[2], c) = q2 * p2
  <2>1. InfiniteBuys(c)[1] = Buy(q1, p1, "none", 0)  BY <1>8, <1>10
  <2>2. InfiniteBuys(c)[2] = Buy(q2, p2, "none", 0)  BY <1>8, <1>10
  <2>3. p1 # 0 /\ p2 # 0  BY <1>5, <1>7, <1>8
  <2> QED  BY <2>1, <2>2, <2>3 DEF Pay, Buy
<1> QED  BY <1>9, <1>11

\* A fill leaves parameters every rule can read.
LEMMA FillParams ==
  ASSUME NEW par \in Params, NEW s \in Signals, NEW held \in Int, NEW d \in Nat
  PROVE  /\ MomentumFill(par, s, held, d) \in Params
         /\ GridFill(par, s, held) \in Params
         /\ PlanFill(par, s, held, d) \in Params
<1>1. \A e \in Nat : [par EXCEPT !.entry = e] \in Params  BY Zenon DEF Params
<1>2. MomentumFill(par, s, held, d) \in Params
  <2>1. NoDay \in Nat  BY NoDayAssumption
  <2> QED  BY <1>1, <2>1 DEF MomentumFill
<1>3. GridFill(par, s, held) \in Params
  <2>1. GridClear(par) \in Params
    <3>1. {} \in SUBSET (1..3) /\ FALSE \in BOOLEAN  OBVIOUS
    <3> QED  BY <3>1, Zenon DEF GridClear, Params
  <2>2. [par EXCEPT !.middle = TRUE] \in Params
    <3>1. TRUE \in BOOLEAN  OBVIOUS
    <3> QED  BY <3>1, Zenon DEF Params
  <2> DEFINE levels == par.levels \cup (IF s.level > 0 THEN {s.level} ELSE {})
  <2>3. levels \in SUBSET (1..3) /\ FALSE \in BOOLEAN
    <3>1. s.level \in 0..3  BY DEF Signals
    <3>2. par.levels \in SUBSET (1..3)  BY DEF Params
    <3> QED  BY <3>1, <3>2
  <2> HIDE DEF levels
  <2>4. [par EXCEPT !.middle = FALSE, !.levels = levels] \in Params  BY <2>3, Zenon DEF Params
  <2> QED  BY <2>1, <2>2, <2>4 DEF GridFill, levels
<1>4. PlanFill(par, s, held, d) \in Params
  <2>1. \A p \in Plans : [par EXCEPT !.plan = p] \in Params  BY Zenon DEF Params
  <2>2. NoPlan \in Plans  BY NoDayAssumption DEF NoPlan, Plans
  <2>3. [on |-> TRUE, since |-> d, tried |-> NoDay, qty |-> s.rest, price |-> s.target2] \in Plans
    <3>1. s.rest \in Nat /\ s.target2 \in Nat  BY DEF Signals
    <3> QED  BY <3>1, NoDayAssumption DEF Plans
  <2> QED  BY <2>1, <2>2, <2>3, Zenon DEF PlanFill
<1> QED  BY <1>2, <1>3, <1>4

-----------------------------------------------------------------------------
LEMMA SmallestOf ==
  ASSUME NEW T, T \subseteq Nat, T # {}
  PROVE  \E n \in T : \A m \in T : n <= m
<1>1. IsWellFoundedOn(OpToRel(<, Nat), Nat)  BY NatLessThanWellFounded
<1>2. \E n \in T : \A m \in T : ~(<<m, n>> \in OpToRel(<, Nat))  BY <1>1, WFMin
<1>3. PICK n \in T : \A m \in T : ~(<<m, n>> \in OpToRel(<, Nat))  BY <1>2
<1>4. ASSUME NEW m \in T PROVE n <= m
  <2>1. <<m, n>> \in OpToRel(<, Nat) <=> m < n  BY DEF OpToRel
  <2>2. n \in Nat /\ m \in Nat  OBVIOUS
  <2>3. ~(m < n)  BY <1>3, <2>1
  <2> QED  BY <2>2, <2>3
<1> QED  BY <1>3, <1>4

(* Sums over functions: the fold of the community modules takes one chosen  *)
(* element after the other; g is its recursive function over the sets D.    *)
IsSum(g, f, D) ==
  g = [s \in D |-> IF s = {} THEN 0
                   ELSE f[CHOOSE x \in s : TRUE] + g[s \ {CHOOSE x \in s : TRUE}]]

LEMMA SumDef ==
  ASSUME NEW f, NEW S
  PROVE  SumFunctionOnSet(f, S) = (CHOOSE g : IsSum(g, f, SUBSET S))[S]
BY DEF SumFunctionOnSet, FoldFunctionOnSet, MapThenFoldSet, IsSum

UpTo(S, n) == {s \in SUBSET S : Cardinality(s) <= n}

LEMMA SumExistsUpTo ==
  ASSUME NEW f, NEW S, IsFiniteSet(S)
  PROVE  \A n \in Nat : \E g : IsSum(g, f, UpTo(S, n))
<1> DEFINE Bad == {n \in Nat : ~\E g : IsSum(g, f, UpTo(S, n))}
<1> SUFFICES ASSUME Bad # {} PROVE FALSE  OBVIOUS
<1>1. PICK n \in Bad : \A m \in Bad : n <= m  BY SmallestOf
<1>2. n # 0
  <2>1. UpTo(S, 0) = {{}}
    BY FS_EmptySet, FS_Subset, FS_CardinalityType DEF UpTo
  <2>2. IsSum([s \in {{}} |-> 0], f, {{}})  BY DEF IsSum
  <2> QED  BY <2>1, <2>2
<1>3. n - 1 \in Nat /\ n - 1 \notin Bad  BY <1>1, <1>2
<1>4. PICK h : IsSum(h, f, UpTo(S, n - 1))  BY <1>3
<1> DEFINE one(s) == CHOOSE x \in s : TRUE
           g == [s \in UpTo(S, n) |-> IF s = {} THEN 0 ELSE f[one(s)] + h[s \ {one(s)}]]
<1>5. ASSUME NEW s \in UpTo(S, n), s # {} PROVE s \ {one(s)} \in UpTo(S, n - 1)
  <2>1. IsFiniteSet(s) /\ one(s) \in s /\ s \subseteq S /\ Cardinality(s) <= n  BY <1>5, FS_Subset DEF UpTo
  <2>2. Cardinality(s \ {one(s)}) = Cardinality(s) - 1 /\ Cardinality(s) \in Nat
    BY <2>1, FS_RemoveElement, FS_CardinalityType
  <2> QED  BY <1>1, <2>1, <2>2 DEF UpTo
<1>6. UpTo(S, n - 1) \subseteq UpTo(S, n)
  <2>1. \A s \in SUBSET S : Cardinality(s) \in Nat  BY FS_Subset, FS_CardinalityType
  <2> QED  BY <1>1, <2>1 DEF UpTo
<1>7. \A s \in UpTo(S, n - 1) : g[s] = h[s]  BY <1>4, <1>6 DEF IsSum
<1>8. IsSum(g, f, UpTo(S, n))
  <2>1. ASSUME NEW s \in UpTo(S, n), s # {} PROVE g[s] = f[one(s)] + g[s \ {one(s)}]
    <3>1. g[s \ {one(s)}] = h[s \ {one(s)}]  BY <1>5, <1>7, <2>1
    <3>2. g[s] = f[one(s)] + h[s \ {one(s)}]  BY <2>1
    <3> QED  BY <3>1, <3>2
  <2>2. \A s \in UpTo(S, n) : s = {} => g[s] = 0  OBVIOUS
  <2>3. g = [s \in UpTo(S, n) |-> g[s]]  OBVIOUS
  <2> HIDE DEF g
  <2>4. \A s \in UpTo(S, n) : g[s] = IF s = {} THEN 0 ELSE f[one(s)] + g[s \ {one(s)}]
    BY <2>1, <2>2
  <2>5. g = [s \in UpTo(S, n) |-> IF s = {} THEN 0 ELSE f[one(s)] + g[s \ {one(s)}]]
    BY <2>3, <2>4
  <2> QED  BY <2>5 DEF IsSum
<1> QED  BY <1>1, <1>8

LEMMA SumExists ==
  ASSUME NEW f, NEW S, IsFiniteSet(S)
  PROVE  \E g : IsSum(g, f, SUBSET S)
<1>1. UpTo(S, Cardinality(S)) = SUBSET S  BY FS_Subset DEF UpTo
<1>2. Cardinality(S) \in Nat  BY FS_CardinalityType
<1>3. \E g : IsSum(g, f, UpTo(S, Cardinality(S)))  BY <1>2, SumExistsUpTo
<1> QED  BY <1>1, <1>3

\* Two of these functions agree where both are defined.
LEMMA SumUnique ==
  ASSUME NEW f, NEW S, IsFiniteSet(S), NEW T \in SUBSET S,
         NEW g, NEW h, IsSum(g, f, SUBSET S), IsSum(h, f, SUBSET T)
  PROVE  g[T] = h[T]
<1> DEFINE Bad == {Cardinality(s) : s \in {t \in SUBSET T : g[t] # h[t]}}
<1> SUFFICES ASSUME Bad # {} PROVE FALSE
  <2>1. T \in SUBSET T  OBVIOUS
  <2> QED  BY <2>1
<1>1. Bad \subseteq Nat  BY FS_Subset, FS_CardinalityType
<1>2. PICK n \in Bad : \A m \in Bad : n <= m  BY <1>1, SmallestOf
<1>3. PICK s \in SUBSET T : g[s] # h[s] /\ Cardinality(s) = n  BY <1>2
<1> DEFINE one == CHOOSE x \in s : TRUE
<1>4. s # {}  BY <1>3 DEF IsSum
<1>5. g[s] = f[one] + g[s \ {one}] /\ h[s] = f[one] + h[s \ {one}]  BY <1>4 DEF IsSum
<1>6. Cardinality(s \ {one}) < n
  <2>1. IsFiniteSet(s) /\ one \in s  BY <1>4, FS_Subset
  <2>2. Cardinality(s) \in Nat  BY <2>1, FS_CardinalityType
  <2>3. Cardinality(s \ {one}) = Cardinality(s) - 1  BY <2>1, FS_RemoveElement
  <2> QED  BY <1>3, <2>2, <2>3
<1>7. g[s \ {one}] = h[s \ {one}]
  <2>1. s \ {one} \in SUBSET T  OBVIOUS
  <2>2. g[s \ {one}] # h[s \ {one}] => Cardinality(s \ {one}) \in Bad  BY <2>1
  <2> QED  BY <1>1, <1>2, <1>6, <2>2
<1> QED  BY <1>3, <1>5, <1>7

LEMMA SumUnfold ==
  ASSUME NEW f, NEW S, IsFiniteSet(S)
  PROVE  /\ SumFunctionOnSet(f, {}) = 0
         /\ S # {} => SumFunctionOnSet(f, S)
                        = f[CHOOSE x \in S : TRUE] + SumFunctionOnSet(f, S \ {CHOOSE x \in S : TRUE})
<1> DEFINE one == CHOOSE x \in S : TRUE
           T == S \ {one}
<1>1. IsFiniteSet(T) /\ IsFiniteSet({}) /\ T \in SUBSET S  BY FS_Subset, FS_EmptySet
<1>2. PICK g : IsSum(g, f, SUBSET S) /\ SumFunctionOnSet(f, S) = g[S]  BY SumDef, SumExists
<1>3. PICK h : IsSum(h, f, SUBSET T) /\ SumFunctionOnSet(f, T) = h[T]  BY <1>1, SumDef, SumExists
<1>4. PICK e : IsSum(e, f, SUBSET {}) /\ SumFunctionOnSet(f, {}) = e[{}]  BY <1>1, SumDef, SumExists
<1>5. e[{}] = 0  BY <1>4 DEF IsSum
<1>6. ASSUME S # {} PROVE g[S] = f[one] + g[T]  BY <1>2, <1>6 DEF IsSum
<1>7. g[T] = h[T]
  <2> HIDE DEF T
  <2> QED  BY <1>1, <1>2, <1>3, SumUnique
<1> QED  BY <1>2, <1>3, <1>4, <1>5, <1>6, <1>7

\* The sum of whole numbers is one, whichever element is taken out first.
LEMMA SumInt ==
  ASSUME NEW f, NEW S, IsFiniteSet(S), \A x \in S : f[x] \in Int
  PROVE  \A T \in SUBSET S : SumFunctionOnSet(f, T) \in Int
<1> DEFINE Bad == {Cardinality(t) : t \in {u \in SUBSET S : SumFunctionOnSet(f, u) \notin Int}}
<1> SUFFICES ASSUME Bad # {} PROVE FALSE  OBVIOUS
<1>1. Bad \subseteq Nat  BY FS_Subset, FS_CardinalityType
<1>2. PICK n \in Bad : \A m \in Bad : n <= m  BY <1>1, SmallestOf
<1>3. PICK t \in SUBSET S : SumFunctionOnSet(f, t) \notin Int /\ Cardinality(t) = n  BY <1>2
<1> DEFINE one == CHOOSE x \in t : TRUE
<1>4. IsFiniteSet(t)  BY FS_Subset
<1>5. t # {}
  <2>1. SumFunctionOnSet(f, {}) = 0  BY <1>4, SumUnfold
  <2> QED  BY <1>3, <2>1
<1>6. SumFunctionOnSet(f, t) = f[one] + SumFunctionOnSet(f, t \ {one})  BY <1>4, <1>5, SumUnfold
<1>7. Cardinality(t \ {one}) < n
  <2>1. Cardinality(t) \in Nat /\ one \in t  BY <1>4, <1>5, FS_CardinalityType
  <2>2. Cardinality(t \ {one}) = Cardinality(t) - 1  BY <1>4, <2>1, FS_RemoveElement
  <2> QED  BY <1>3, <2>1, <2>2
<1>8. SumFunctionOnSet(f, t \ {one}) \in Int
  <2>1. SumFunctionOnSet(f, t \ {one}) \notin Int => Cardinality(t \ {one}) \in Bad  OBVIOUS
  <2> HIDE DEF Bad, one
  <2>2. Cardinality(t \ {one}) \notin Bad
    <3>1. n \in Nat /\ Bad \subseteq Nat  BY <1>1
    <3>2. ASSUME Cardinality(t \ {one}) \in Bad PROVE FALSE
      <4>1. n <= Cardinality(t \ {one})  BY <1>2, <3>2
      <4>2. Cardinality(t \ {one}) \in Nat  BY <3>1, <3>2
      <4> QED  BY <1>7, <3>1, <4>1, <4>2
    <3> QED  BY <3>2
  <2> QED  BY <2>1, <2>2
<1>9. f[one] \in Int  BY <1>5
<1> QED  BY <1>3, <1>6, <1>8, <1>9

LEMMA SumStep ==
  ASSUME NEW f, NEW S, IsFiniteSet(S), \A x \in S : f[x] \in Int
  PROVE  \A T \in SUBSET S : \A x \in T :
           SumFunctionOnSet(f, T) = f[x] + SumFunctionOnSet(f, T \ {x})
<1> DEFINE Fits(t) == \A x \in t : SumFunctionOnSet(f, t) = f[x] + SumFunctionOnSet(f, t \ {x})
           Bad == {Cardinality(t) : t \in {u \in SUBSET S : ~Fits(u)}}
<1> SUFFICES ASSUME Bad # {} PROVE FALSE  OBVIOUS
<1>1. Bad \subseteq Nat  BY FS_Subset, FS_CardinalityType
<1>2. PICK n \in Bad : \A m \in Bad : n <= m  BY <1>1, SmallestOf
<1>3. PICK t \in SUBSET S : ~Fits(t) /\ Cardinality(t) = n  BY <1>2
<1>4. PICK x \in t : SumFunctionOnSet(f, t) # f[x] + SumFunctionOnSet(f, t \ {x})  BY <1>3
<1> DEFINE one == CHOOSE y \in t : TRUE
<1>5. IsFiniteSet(t) /\ t # {} /\ one \in t  BY <1>4, FS_Subset
<1>6. SumFunctionOnSet(f, t) = f[one] + SumFunctionOnSet(f, t \ {one})  BY <1>5, SumUnfold
<1>7. x # one  BY <1>4, <1>6
<1>8. \A y \in t : Cardinality(t \ {y}) < n
  <2>1. Cardinality(t) \in Nat  BY <1>5, FS_CardinalityType
  <2>2. \A y \in t : Cardinality(t \ {y}) = Cardinality(t) - 1  BY <1>5, FS_RemoveElement
  <2> QED  BY <1>3, <2>1, <2>2
<1>9. \A y \in t : Fits(t \ {y})
  <2> SUFFICES ASSUME NEW y \in t PROVE Fits(t \ {y})  OBVIOUS
  <2>1. t \ {y} \in SUBSET S  OBVIOUS
  <2>2. ~Fits(t \ {y}) => Cardinality(t \ {y}) \in Bad  BY <2>1
  <2>3. Cardinality(t \ {y}) \in Nat  BY <1>5, FS_RemoveElement, FS_CardinalityType
  <2>4. Cardinality(t \ {y}) < n  BY <1>8
  <2> HIDE DEF Bad, Fits
  <2>5. Cardinality(t \ {y}) \notin Bad  BY <1>1, <1>2, <2>3, <2>4
  <2> QED  BY <2>2, <2>5
<1>10. SumFunctionOnSet(f, t \ {one}) = f[x] + SumFunctionOnSet(f, (t \ {one}) \ {x})
  BY <1>5, <1>7, <1>9
<1>11. SumFunctionOnSet(f, t \ {x}) = f[one] + SumFunctionOnSet(f, (t \ {x}) \ {one})
  BY <1>5, <1>7, <1>9
<1>12. (t \ {x}) \ {one} = (t \ {one}) \ {x}  OBVIOUS
<1>13. f[x] \in Int /\ f[one] \in Int /\ SumFunctionOnSet(f, (t \ {one}) \ {x}) \in Int
  <2>1. (t \ {one}) \ {x} \in SUBSET S  OBVIOUS
  <2> QED  BY <1>4, <1>5, <2>1, SumInt
<1> DEFINE rest == SumFunctionOnSet(f, (t \ {one}) \ {x})
<1>14. SumFunctionOnSet(f, t) = f[one] + (f[x] + rest)  BY <1>6, <1>10
<1>15. SumFunctionOnSet(f, t \ {x}) = f[one] + rest  BY <1>11, <1>12
<1> HIDE DEF rest, one, Bad, Fits
<1>16. rest \in Int  BY <1>13 DEF rest
<1>17. f[one] + (f[x] + rest) = f[x] + (f[one] + rest)  BY <1>13, <1>16
<1> QED  BY <1>4, <1>14, <1>15, <1>17

\* A sum is no more than a sum of no smaller numbers.
LEMMA SumAtMost ==
  ASSUME NEW S, IsFiniteSet(S), NEW f, NEW g,
         \A x \in S : f[x] \in Int /\ g[x] \in Int /\ f[x] <= g[x]
  PROVE  \A T \in SUBSET S : SumFunctionOnSet(f, T) <= SumFunctionOnSet(g, T)
<1> DEFINE F(t) == SumFunctionOnSet(f, t)
           G(t) == SumFunctionOnSet(g, t)
           Bad == {Cardinality(t) : t \in {u \in SUBSET S : ~(F(u) <= G(u))}}
<1> SUFFICES ASSUME Bad # {} PROVE FALSE  OBVIOUS
<1>1. Bad \subseteq Nat  BY FS_Subset, FS_CardinalityType
<1>2. PICK n \in Bad : \A m \in Bad : n <= m  BY <1>1, SmallestOf
<1>3. PICK t \in SUBSET S : ~(F(t) <= G(t)) /\ Cardinality(t) = n  BY <1>2
<1>4. IsFiniteSet(t)  BY FS_Subset
<1>5. t # {}
  <2>1. F({}) = 0 /\ G({}) = 0  BY <1>4, SumUnfold
  <2> QED  BY <1>3, <2>1
<1>6. PICK x \in t : TRUE  BY <1>5
<1>7. F(t) = f[x] + F(t \ {x}) /\ G(t) = g[x] + G(t \ {x})  BY SumStep
<1>8. Cardinality(t \ {x}) < n /\ Cardinality(t \ {x}) \in Nat
  <2>1. Cardinality(t) \in Nat  BY <1>4, FS_CardinalityType
  <2>2. Cardinality(t \ {x}) = Cardinality(t) - 1  BY <1>4, FS_RemoveElement
  <2>3. Cardinality(t \ {x}) \in Nat  BY <1>4, FS_RemoveElement, FS_CardinalityType
  <2> QED  BY <1>3, <2>1, <2>2, <2>3
<1>9. F(t \ {x}) <= G(t \ {x})
  <2>1. ~(F(t \ {x}) <= G(t \ {x})) => Cardinality(t \ {x}) \in Bad  OBVIOUS
  <2> QED  BY <1>1, <1>2, <1>8, <2>1
<1>10. F(t \ {x}) \in Int /\ G(t \ {x}) \in Int  BY SumInt
<1> HIDE DEF F, G
<1> QED  BY <1>3, <1>7, <1>9, <1>10

LEMMA SumSame ==
  ASSUME NEW S, IsFiniteSet(S), NEW f, NEW g, \A x \in S : f[x] \in Int /\ f[x] = g[x]
  PROVE  SumFunctionOnSet(f, S) = SumFunctionOnSet(g, S)
<1>1. S \in SUBSET S  OBVIOUS
<1>2. SumFunctionOnSet(f, S) <= SumFunctionOnSet(g, S) /\ SumFunctionOnSet(g, S) <= SumFunctionOnSet(f, S)
  BY <1>1, SumAtMost
<1>3. SumFunctionOnSet(f, S) \in Int /\ SumFunctionOnSet(g, S) \in Int  BY <1>1, SumInt
<1> QED  BY <1>2, <1>3

\* The sum over a sequence of rows: one row changes, or one is appended.
LEMMA TotalInt ==
  ASSUME NEW n \in Nat, NEW f, DOMAIN f = 1..n, \A i \in 1..n : f[i] \in Int
  PROVE  SumFunction(f) \in Int
<1>1. IsFiniteSet(1..n)  BY FS_Interval
<1>2. (1..n) \in SUBSET (1..n)  OBVIOUS
<1> QED  BY <1>1, <1>2, SumInt DEF SumFunction

LEMMA TotalChange ==
  ASSUME NEW n \in Nat, NEW f, NEW g, DOMAIN f = 1..n, DOMAIN g = 1..n,
         \A i \in 1..n : f[i] \in Int /\ g[i] \in Int,
         NEW x \in 1..n, \A i \in (1..n) \ {x} : g[i] = f[i]
  PROVE  SumFunction(g) = SumFunction(f) - f[x] + g[x]
<1> DEFINE S == 1..n
           T == S \ {x}
<1>1. IsFiniteSet(S) /\ S \in SUBSET S  BY FS_Interval
<1>2. SumFunctionOnSet(f, S) = f[x] + SumFunctionOnSet(f, T)  BY <1>1, SumStep
<1>3. SumFunctionOnSet(g, S) = g[x] + SumFunctionOnSet(g, T)  BY <1>1, SumStep
<1>4. SumFunctionOnSet(f, T) = SumFunctionOnSet(g, T)
  <2>1. IsFiniteSet(T)  BY <1>1, FS_Subset
  <2> QED  BY <2>1, SumSame
<1>5. SumFunctionOnSet(f, T) \in Int  BY <1>1, SumInt
<1> QED  BY <1>2, <1>3, <1>4, <1>5 DEF SumFunction

LEMMA TotalAppend ==
  ASSUME NEW n \in Nat, NEW f, NEW g, DOMAIN f = 1..n, DOMAIN g = 1..(n + 1),
         \A i \in 1..n : f[i] \in Int /\ g[i] = f[i], g[n + 1] \in Int
  PROVE  SumFunction(g) = SumFunction(f) + g[n + 1]
<1> DEFINE S == 1..(n + 1)
<1>1. IsFiniteSet(S) /\ S \in SUBSET S /\ IsFiniteSet(1..n)  BY FS_Interval
<1>2. \A i \in S : g[i] \in Int  OBVIOUS
<1>3. S \ {n + 1} = 1..n /\ n + 1 \in S  OBVIOUS
<1>4. SumFunctionOnSet(g, S) = g[n + 1] + SumFunctionOnSet(g, 1..n)  BY <1>1, <1>2, <1>3, SumStep
<1>5. SumFunctionOnSet(f, 1..n) = SumFunctionOnSet(g, 1..n)  BY <1>1, SumSame
<1>6. SumFunctionOnSet(f, 1..n) \in Int  BY <1>1, SumInt
<1> QED  BY <1>4, <1>5, <1>6 DEF SumFunction

LEMMA TotalSame ==
  ASSUME NEW n \in Nat, NEW f, NEW g, DOMAIN f = 1..n, DOMAIN g = 1..n,
         \A i \in 1..n : f[i] \in Int /\ g[i] = f[i]
  PROVE  SumFunction(g) = SumFunction(f)
<1>1. IsFiniteSet(1..n)  BY FS_Interval
<1> QED  BY <1>1, SumSame DEF SumFunction

LEMMA TotalAtMost ==
  ASSUME NEW n \in Nat, NEW f, NEW g, DOMAIN f = 1..n, DOMAIN g = 1..n,
         \A i \in 1..n : f[i] \in Int /\ g[i] \in Int /\ f[i] <= g[i]
  PROVE  SumFunction(f) <= SumFunction(g)
<1>1. IsFiniteSet(1..n) /\ (1..n) \in SUBSET (1..n)  BY FS_Interval
<1> QED  BY <1>1, SumAtMost DEF SumFunction

LEMMA TotalEmpty ==
  ASSUME NEW f, DOMAIN f = {}
  PROVE  SumFunction(f) = 0
<1>1. IsFiniteSet({})  BY FS_EmptySet
<1> QED  BY <1>1, SumUnfold DEF SumFunction

-----------------------------------------------------------------------------
(* infinite-buy-v4.  A context of it also has the ledger and a close.       *)
IsV4Context(c) == IsContext(c) /\ c.ledger \in Ledgers /\ c.close \in Nat /\ c.day \in Nat

V4Phases  == {"v4-first-buy", "v4-avg-buy", "v4-star-buy", "v4-ladder-buy", "v4-reverse-buy",
              "v4-quarter-sell", "v4-final-sell", "v4-reverse-sell"}
V4Signals == [side : {"BUY", "SELL"}, qty : Nat, price : Nat, phase : V4Phases,
              type : {"LOC", "LIMIT", "MOC"}, prev : Nat, attempt : Int]

\* A purchase is sent at no more than the price it was counted at.
V4Legs == {s \in V4Signals : s.qty > 0 /\ s.side = "BUY" /\ s.qty * s.price <= s.attempt}

\* The signals a context covers; half of one cycle is more than the holding.
V4Covered(c) == {s \in V4Signals : /\ s.qty > 0
                                   /\ s.side = "SELL" => s.price > 0 /\ (c.cycles >= 2 => s.qty <= c.qty)}

LEMMA V4Fields ==
  ASSUME NEW c, IsV4Context(c)
  PROVE  /\ Turns(c) \in Nat /\ Turns(c) > 0 /\ c.ledger.turn \in Int /\ c.ledger.cash \in Int
         /\ c.qty \in Nat /\ c.avg \in Nat /\ Price(c) \in Nat /\ c.cash \in Int
         /\ StarPrice(c) \in Int
<1>1. c.cycles \in Nat \ {0} /\ c.qty \in Nat /\ c.avg \in Nat /\ Price(c) \in Nat /\ c.cash \in Int
  BY ContextFields DEF IsV4Context, IsContext
<1>2. c.ledger.turn \in Int /\ c.ledger.cash \in Int  BY DEF IsV4Context, Ledgers
<1>3. Turns(c) \in Nat /\ Turns(c) > 0  BY <1>1 DEF Turns, Grain
<1>4. StarPrice(c) \in Int
  <2>1. c.avg * StarBase * (Turns(c) - 2 * c.ledger.turn) \in Int  BY <1>1, <1>2, <1>3 DEF StarBase
  <2>2. 100 * Turns(c) \in Nat /\ 100 * Turns(c) > 0  BY <1>3
  <2>3. \A a \in Int, b \in Nat : b > 0 => a \div b \in Int  OBVIOUS
  <2>4. (c.avg * StarBase * (Turns(c) - 2 * c.ledger.turn)) \div (100 * Turns(c)) \in Int
    BY <2>1, <2>2, <2>3
  <2> QED  BY <1>1, <2>4 DEF StarPrice
<1> QED  BY <1>1, <1>2, <1>3, <1>4

LEMMA PercentIs ==
  ASSUME NEW a \in Int, NEW p \in Nat
  PROVE  Percent(a, p) \in Int /\ (a \in Nat => Percent(a, p) \in Nat)
<1>1. a * p \in Int /\ (a \in Nat => a * p \in Nat)  OBVIOUS
<1>2. \A b \in Int : b \div 100 \in Int /\ (b \in Nat => b \div 100 \in Nat)  OBVIOUS
<1> QED  BY <1>1, <1>2 DEF Percent

LEMMA V4BuyIs ==
  ASSUME NEW c, IsV4Context(c), NEW qty \in Nat, qty > 0, NEW price \in Nat, NEW phase \in V4Phases
  PROVE  V4Buy(c, qty, price, phase) \in V4Legs /\ V4Buy(c, qty, price, phase).attempt = price * qty
<1> DEFINE cap  == Percent(Price(c), 100 + Premium)
           asked == IF phase = "v4-first-buy" \/ price < cap THEN price ELSE cap
<1>1. cap \in Nat
  <2>1. 100 + Premium \in Nat  BY DEF Premium
  <2> QED  BY <2>1, V4Fields, PercentIs
<1>2. asked \in Nat /\ asked <= price
  <2> HIDE DEF cap
  <2> QED  BY <1>1
<1>3. qty * asked <= price * qty
  <2> HIDE DEF asked
  <2> QED  BY <1>2
<1>4. price * qty \in Int  OBVIOUS
<1>5. V4Buy(c, qty, price, phase) = [side |-> "BUY", qty |-> qty, phase |-> phase, type |-> "LOC",
                                     prev |-> 0, price |-> asked, attempt |-> price * qty]
  BY DEF V4Buy
<1> HIDE DEF asked
<1> QED  BY <1>2, <1>3, <1>4, <1>5 DEF V4Legs, V4Signals

LEMMA LegIs ==
  ASSUME NEW c, IsV4Context(c), NEW qty \in Nat, NEW price \in Int, qty > 0 => price \in Nat,
         NEW phase \in V4Phases
  PROVE  Leg(c, qty, price, phase) \in Seq(V4Legs)
  BY V4BuyIs DEF Leg

LEMMA OfferIs ==
  ASSUME NEW c, IsV4Context(c), NEW qty \in Nat, c.cycles >= 2 => qty <= c.qty,
         NEW price \in Int, NEW phase \in V4Phases, NEW type \in {"LOC", "LIMIT", "MOC"}
  PROVE  Offer(c, qty, price, phase, type) \in Seq(V4Covered(c))
<1>1. c.qty \in Nat  BY V4Fields
<1>2. ASSUME qty > 0, price > 0 PROVE V4Sell(c, qty, price, phase, type) \in V4Covered(c)
  BY <1>1, <1>2 DEF V4Sell, V4Covered, V4Signals
<1> QED  BY <1>2 DEF Offer

\* What a leg takes from its budget.
LEMMA LegFits ==
  ASSUME NEW c, IsV4Context(c), NEW budget \in Int, NEW price \in Int, NEW phase \in V4Phases
  PROVE  /\ Leg(c, Shares(budget, price), price, phase) \in Seq(V4Legs)
         /\ \/ Leg(c, Shares(budget, price), price, phase) = <<>>
            \/ /\ Leg(c, Shares(budget, price), price, phase) = <<V4Buy(c, Shares(budget, price), price, phase)>>
               /\ V4Buy(c, Shares(budget, price), price, phase).attempt \in Nat
               /\ V4Buy(c, Shares(budget, price), price, phase).attempt <= budget
<1> DEFINE q == Shares(budget, price)
<1>1. q \in Nat /\ (q > 0 => price > 0 /\ q * price <= budget)
  <2>1. CASE price >= 0
    <3>1. price \in Nat  BY <2>1
    <3> QED  BY <3>1, SharesBound
  <2>2. CASE ~(price >= 0)  BY <2>2 DEF Shares
  <2> QED  BY <2>1, <2>2
<1> HIDE DEF q
<1>2. Leg(c, q, price, phase) \in Seq(V4Legs)
  <2>1. q > 0 => price \in Nat  BY <1>1
  <2> QED  BY <1>1, <2>1, LegIs
<1>3. ASSUME q > 0
      PROVE  V4Buy(c, q, price, phase).attempt \in Nat /\ V4Buy(c, q, price, phase).attempt <= budget
  <2>1. price \in Nat  BY <1>1, <1>3
  <2>2. V4Buy(c, q, price, phase).attempt = price * q  BY <1>1, <1>3, <2>1, V4BuyIs
  <2>3. price * q \in Nat /\ price * q = q * price  BY <1>1, <2>1
  <2> QED  BY <1>1, <1>3, <2>2, <2>3
<1>4. \/ Leg(c, q, price, phase) = <<>>
      \/ Leg(c, q, price, phase) = <<V4Buy(c, q, price, phase)>> /\ q > 0
  BY DEF Leg
<1> QED  BY <1>2, <1>3, <1>4 DEF q

\* The amounts of the legs, added up.
LEMMA AttemptIs ==
  ASSUME NEW legs \in Seq(V4Signals)
  PROVE  /\ AttemptOf(legs) \in Int
         /\ AttemptOf(<<>>) = 0
         /\ \A s \in V4Signals : AttemptOf(Append(legs, s)) = AttemptOf(legs) + s.attempt
<1> DEFINE F(t) == [i \in DOMAIN t |-> t[i].attempt]
           n == Len(legs)
<1>1. n \in Nat /\ DOMAIN legs = 1..n  OBVIOUS
<1>2. ASSUME NEW i \in 1..n PROVE F(legs)[i] \in Int
  <2>1. legs[i] \in V4Signals /\ F(legs)[i] = legs[i].attempt  BY <1>1
  <2> QED  BY <2>1 DEF V4Signals
<1>3. AttemptOf(legs) \in Int
  <2>1. DOMAIN F(legs) = 1..n  BY <1>1
  <2> HIDE DEF F
  <2>2. SumFunction(F(legs)) \in Int  BY <1>1, <1>2, <2>1, TotalInt
  <2> QED  BY <2>2 DEF AttemptOf, F
<1>4. AttemptOf(<<>>) = 0
  <2>1. DOMAIN F(<<>>) = {}  OBVIOUS
  <2>2. SumFunction(F(<<>>)) = 0  BY <2>1, TotalEmpty
  <2> QED  BY <2>2 DEF AttemptOf
<1>5. ASSUME NEW s \in V4Signals PROVE AttemptOf(Append(legs, s)) = AttemptOf(legs) + s.attempt
  <2> DEFINE all == Append(legs, s)
  <2>1. DOMAIN all = 1..(n + 1) /\ all[n + 1] = s /\ \A i \in 1..n : all[i] = legs[i]  BY <1>1
  <2>2. DOMAIN F(all) = 1..(n + 1) /\ DOMAIN F(legs) = 1..n  BY <1>1, <2>1
  <2>3. F(all)[n + 1] = s.attempt /\ s.attempt \in Int  BY <1>1, <2>1 DEF V4Signals
  <2>4. \A i \in 1..n : F(legs)[i] \in Int /\ F(all)[i] = F(legs)[i]  BY <1>1, <1>2, <2>1
  <2> HIDE DEF F, all, n
  <2>5. SumFunction(F(all)) = SumFunction(F(legs)) + F(all)[n + 1]
    BY <1>1, <2>2, <2>3, <2>4, TotalAppend
  <2> QED  BY <2>3, <2>5 DEF AttemptOf, F, all
<1> QED  BY <1>3, <1>4, <1>5

\* One more leg after those there are.
LEMMA OneMore ==
  ASSUME NEW S, NEW m \in Seq(S), NEW t \in Seq(S), NEW s \in S
  PROVE  m \o Append(t, s) = Append(m \o t, s) /\ m \o <<s>> = Append(m, s) /\ m \o <<>> = m
  OBVIOUS

LEMMA LegIsLeg == V4Legs \subseteq V4Signals  BY DEF V4Legs

\* Legs and what is left of the budget come to a total.
Fits(m, acc, total) == /\ acc.left \in Nat /\ acc.legs \in Seq(V4Legs)
                       /\ AttemptOf(m \o acc.legs) + acc.left = total

LEMMA RungFits ==
  ASSUME NEW c, IsV4Context(c), NEW m \in Seq(V4Legs), NEW acc, NEW total, Fits(m, acc, total),
         NEW price \in Int
  PROVE  Fits(m, Rung(c, acc, price), total)
<1>1. CASE price > 0 /\ price <= acc.left
  <2> DEFINE s == V4Buy(c, 1, price, "v4-ladder-buy")
             t == acc.legs
             a == AttemptOf(m \o t)
  <2>0. t \in Seq(V4Legs) /\ acc.left \in Nat /\ a + acc.left = total  BY DEF Fits
  <2>1. s \in V4Legs /\ s.attempt = price
    <3>1. price \in Nat /\ price * 1 = price  BY <1>1
    <3> QED  BY <3>1, V4BuyIs DEF V4Phases
  <2> HIDE DEF s
  <2>2. m \o t \in Seq(V4Signals) /\ s \in V4Signals  BY <2>0, <2>1, LegIsLeg
  <2>3. AttemptOf(Append(m \o t, s)) = a + price /\ a \in Int  BY <2>1, <2>2, AttemptIs
  <2>4. m \o Append(t, s) = Append(m \o t, s)  BY <2>0, <2>1, OneMore
  <2>5. Rung(c, acc, price) = [left |-> acc.left - price, legs |-> Append(t, s)]
    BY <1>1 DEF Rung, s
  <2>6. Append(t, s) \in Seq(V4Legs) /\ acc.left - price \in Nat  BY <1>1, <2>0, <2>1
  <2> HIDE DEF t, a
  <2>7. AttemptOf(m \o Append(t, s)) + (acc.left - price) = total  BY <2>0, <2>3, <2>4
  <2> QED  BY <2>5, <2>6, <2>7 DEF Fits
<1>2. CASE ~(price > 0 /\ price <= acc.left)  BY <1>2 DEF Rung
<1> QED  BY <1>1, <1>2

LEMMA LadderFits ==
  ASSUME NEW c, IsV4Context(c), NEW m \in Seq(V4Legs), NEW budget \in Nat, NEW base \in Int
  PROVE  /\ Ladder(c, budget, base) \in Seq(V4Legs)
         /\ AttemptOf(m \o Ladder(c, budget, base)) <= AttemptOf(m) + budget
<1> DEFINE p(n) == Percent(base, 100 - LadderSteps[n])
           r0 == [left |-> budget, legs |-> <<>>]
           r1 == Rung(c, r0, p(1))
           r2 == Rung(c, r1, p(2))
           r3 == Rung(c, r2, p(3))
           total == AttemptOf(m) + budget
<1>1. p(1) \in Int /\ p(2) \in Int /\ p(3) \in Int
  <2>1. \A n \in 1..3 : 100 - LadderSteps[n] \in Nat  BY DEF LadderSteps
  <2>2. \A n \in 1..3 : Percent(base, 100 - LadderSteps[n]) \in Int  BY <2>1, PercentIs
  <2> QED  BY <2>2
<1>2. Ladder(c, budget, base) = r3.legs  BY DEF Ladder
<1>3. Fits(m, r0, total)
  <2>1. m \o r0.legs = m /\ r0.left = budget /\ r0.legs \in Seq(V4Legs)  OBVIOUS
  <2> QED  BY <2>1 DEF Fits
<1> HIDE DEF p, r0, total
<1>4. Fits(m, r1, total)  BY <1>1, <1>3, RungFits
<1> HIDE DEF r1
<1>5. Fits(m, r2, total)  BY <1>1, <1>4, RungFits
<1> HIDE DEF r2
<1>6. Fits(m, r3, total)  BY <1>1, <1>5, RungFits
<1> HIDE DEF r3
<1>7. m \o r3.legs \in Seq(V4Signals) /\ m \in Seq(V4Signals)  BY <1>6, LegIsLeg DEF Fits
<1>8. AttemptOf(m \o r3.legs) \in Int /\ AttemptOf(m) \in Int  BY <1>7, AttemptIs
<1>9. AttemptOf(m \o r3.legs) + r3.left = AttemptOf(m) + budget  BY <1>6 DEF Fits, total
<1>10. r3.left \in Nat /\ r3.legs \in Seq(V4Legs)  BY <1>6 DEF Fits
<1> QED  BY <1>2, <1>8, <1>9, <1>10

\* What the main legs leave of the day's budget pays for the ladder.
LEMMA BudgetIs ==
  ASSUME NEW c, IsV4Context(c), c.ledger.turn < Turns(c)
  PROVE  DayBudget(c) \in Nat /\ (DayBudget(c) > 0 => DayBudget(c) <= c.cash)
<1> DEFINE cash == c.ledger.cash * Grain
           left == Turns(c) - c.ledger.turn
<1>1. cash \in Int /\ left \in Nat /\ left > 0  BY V4Fields DEF Grain
<1>2. cash \div left \in Int
  <2> HIDE DEF cash, left
  <2> QED  BY <1>1
<1> DEFINE part == cash \div left
<1>3. DayBudget(c) = Rest(Least(part, c.cash), 0)  BY DEF DayBudget
<1> HIDE DEF part
<1> QED  BY <1>2, <1>3, V4Fields DEF Rest, Least, part

LEMMA OneLeg ==
  ASSUME NEW c, IsV4Context(c), NEW budget \in Nat, NEW price \in Int, NEW phase \in V4Phases
  PROVE  /\ Leg(c, Shares(budget, price), price, phase) \in Seq(V4Legs)
         /\ AttemptOf(Leg(c, Shares(budget, price), price, phase)) \in Int
         /\ AttemptOf(Leg(c, Shares(budget, price), price, phase)) <= budget
<1> DEFINE x == Leg(c, Shares(budget, price), price, phase)
           u == V4Buy(c, Shares(budget, price), price, phase)
<1>1. x \in Seq(V4Legs) /\ (x = <<>> \/ (x = <<u>> /\ u.attempt \in Nat /\ u.attempt <= budget))
  BY LegFits
<1> HIDE DEF x, u
<1>2. <<>> \in Seq(V4Signals)  OBVIOUS
<1>3. AttemptOf(<<>>) = 0  BY <1>2, AttemptIs
<1>4. AttemptOf(x) \in Int /\ AttemptOf(x) <= budget
  <2>1. CASE x = <<>>  BY <1>3, <2>1
  <2>2. CASE x = <<u>> /\ u.attempt \in Nat /\ u.attempt <= budget
    <3>1. u \in V4Signals  BY <1>1, <2>2, LegIsLeg
    <3>2. <<u>> = Append(<<>>, u)  OBVIOUS
    <3>3. AttemptOf(Append(<<>>, u)) = AttemptOf(<<>>) + u.attempt  BY <1>2, <3>1, AttemptIs
    <3>4. AttemptOf(x) = u.attempt  BY <1>3, <2>2, <3>2, <3>3
    <3> QED  BY <2>2, <3>4
  <2> QED  BY <1>1, <2>1, <2>2
<1> QED  BY <1>1, <1>4 DEF x

LEMMA TwoLegs ==
  ASSUME NEW c, IsV4Context(c), NEW half \in Nat, NEW p1 \in Int, NEW p2 \in Int,
         NEW k1 \in V4Phases, NEW k2 \in V4Phases
  PROVE  /\ Leg(c, Shares(half, p1), p1, k1) \o Leg(c, Shares(half, p2), p2, k2) \in Seq(V4Legs)
         /\ AttemptOf(Leg(c, Shares(half, p1), p1, k1) \o Leg(c, Shares(half, p2), p2, k2))
              <= half + half
<1> DEFINE x == Leg(c, Shares(half, p1), p1, k1)
           y == Leg(c, Shares(half, p2), p2, k2)
           v == V4Buy(c, Shares(half, p2), p2, k2)
<1>1. x \in Seq(V4Legs) /\ AttemptOf(x) \in Int /\ AttemptOf(x) <= half  BY OneLeg
<1>2. y \in Seq(V4Legs) /\ (y = <<>> \/ (y = <<v>> /\ v.attempt \in Nat /\ v.attempt <= half))
  BY LegFits
<1> HIDE DEF x, y, v
<1>3. x \o y \in Seq(V4Legs)  BY <1>1, <1>2
<1>4. AttemptOf(x \o y) <= half + half
  <2>1. CASE y = <<>>
    <3>1. x \o y = x  BY <1>1, <2>1
    <3> QED  BY <1>1, <3>1
  <2>2. CASE y = <<v>> /\ v.attempt \in Nat /\ v.attempt <= half
    <3>1. v \in V4Signals /\ x \in Seq(V4Signals)  BY <1>1, <1>2, <2>2, LegIsLeg
    <3>2. x \o y = Append(x, v)  BY <2>2, <3>1, OneMore
    <3>3. AttemptOf(Append(x, v)) = AttemptOf(x) + v.attempt  BY <3>1, AttemptIs
    <3>4. AttemptOf(x \o y) = AttemptOf(x) + v.attempt  BY <3>2, <3>3
    <3>5. v.attempt \in Nat /\ v.attempt <= half  BY <2>2
    <3> QED  BY <1>1, <3>4, <3>5
  <2> QED  BY <1>2, <2>1, <2>2
<1> QED  BY <1>3, <1>4 DEF x, y

LEMMA MainLegsFit ==
  ASSUME NEW c, IsV4Context(c), c.ledger.turn < Turns(c)
  PROVE  /\ MainLegs(c).base \in Int /\ MainLegs(c).legs \in Seq(V4Legs)
         /\ AttemptOf(MainLegs(c).legs) <= DayBudget(c)
<1> DEFINE budget == DayBudget(c)
           first  == Percent(Price(c), 100 + MarkUp)
           star   == StarPrice(c) - 1
<1>1. budget \in Nat /\ budget \div 2 \in Nat /\ budget \div 2 + budget \div 2 <= budget
  <2>1. budget \in Nat  BY BudgetIs
  <2> HIDE DEF budget
  <2> QED  BY <2>1
<1>2. first \in Int /\ star \in Int /\ c.avg \in Int
  <2>1. 100 + MarkUp \in Nat  BY DEF MarkUp
  <2>2. Price(c) \in Int /\ StarPrice(c) \in Int /\ c.avg \in Int  BY V4Fields
  <2>3. first \in Int  BY <2>1, <2>2, PercentIs
  <2> QED  BY <2>2, <2>3
<1>3. CASE ~Holds(c)
  <2>1. MainLegs(c) = [base |-> first, legs |-> Leg(c, Shares(budget, first), first, "v4-first-buy")]
    BY <1>3 DEF MainLegs
  <2> HIDE DEF budget, first, star
  <2>3. "v4-first-buy" \in V4Phases  BY DEF V4Phases
  <2>4. /\ Leg(c, Shares(budget, first), first, "v4-first-buy") \in Seq(V4Legs)
        /\ AttemptOf(Leg(c, Shares(budget, first), first, "v4-first-buy")) <= budget
    BY <1>1, <1>2, <2>3, OneLeg
  <2> QED  BY <1>2, <2>1, <2>4 DEF budget
<1>4. CASE Holds(c) /\ 2 * c.ledger.turn < Turns(c)
  <2> DEFINE two == Leg(c, Shares(budget \div 2, c.avg), c.avg, "v4-avg-buy")
                    \o Leg(c, Shares(budget \div 2, star), star, "v4-star-buy")
             base == IF star > 0 THEN Least(c.avg, star) ELSE c.avg
  <2>1. MainLegs(c) = [base |-> base, legs |-> two]  BY <1>4 DEF MainLegs
  <2>2. base \in Int
    <3> HIDE DEF star
    <3> QED  BY <1>2 DEF Least
  <2>3. two \in Seq(V4Legs) /\ AttemptOf(two) <= budget
    <3> HIDE DEF budget, star
    <3>1. "v4-avg-buy" \in V4Phases /\ "v4-star-buy" \in V4Phases  BY DEF V4Phases
    <3> DEFINE half == budget \div 2
    <3>2. half \in Nat /\ half + half <= budget  BY <1>1
    <3> HIDE DEF half
    <3>3. /\ Leg(c, Shares(half, c.avg), c.avg, "v4-avg-buy")
               \o Leg(c, Shares(half, star), star, "v4-star-buy") \in Seq(V4Legs)
          /\ AttemptOf(Leg(c, Shares(half, c.avg), c.avg, "v4-avg-buy")
               \o Leg(c, Shares(half, star), star, "v4-star-buy")) <= half + half
      BY <1>2, <3>1, <3>2, TwoLegs
    <3>4. two \in Seq(V4Legs) /\ AttemptOf(two) <= half + half  BY <3>3 DEF half
    <3> HIDE DEF two
    <3>5. two \in Seq(V4Signals)  BY <3>4, LegIsLeg
    <3>6. AttemptOf(two) \in Int  BY <3>5, AttemptIs
    <3> QED  BY <1>1, <3>2, <3>4, <3>6
  <2> HIDE DEF two, base
  <2> QED  BY <2>1, <2>2, <2>3
<1>5. CASE Holds(c) /\ ~(2 * c.ledger.turn < Turns(c))
  <2>1. MainLegs(c) = [base |-> star, legs |-> Leg(c, Shares(budget, star), star, "v4-star-buy")]
    BY <1>5 DEF MainLegs
  <2> HIDE DEF budget, first, star
  <2>3. "v4-star-buy" \in V4Phases  BY DEF V4Phases
  <2>4. /\ Leg(c, Shares(budget, star), star, "v4-star-buy") \in Seq(V4Legs)
        /\ AttemptOf(Leg(c, Shares(budget, star), star, "v4-star-buy")) <= budget
    BY <1>1, <1>2, <2>3, OneLeg
  <2> QED  BY <1>2, <2>1, <2>4 DEF budget
<1> QED  BY <1>3, <1>4, <1>5

-----------------------------------------------------------------------------
\* What the purchases among some signals cost at their limits.
PriceOf(s)     == IF s.side = "BUY" THEN s.qty * s.price ELSE 0
CostOf(orders) == SumFunction([i \in DOMAIN orders |-> PriceOf(orders[i])])

LEMMA CostIs ==
  ASSUME NEW t \in Seq(V4Signals)
  PROVE  /\ CostOf(t) \in Int
         /\ CostOf(<<>>) = 0
         /\ \A s \in V4Signals : CostOf(Append(t, s)) = CostOf(t) + PriceOf(s)
<1> DEFINE F(u) == [i \in DOMAIN u |-> PriceOf(u[i])]
           n == Len(t)
<1>0. ASSUME NEW s \in V4Signals PROVE PriceOf(s) \in Int
  <2>1. s.qty \in Nat /\ s.price \in Nat  BY DEF V4Signals
  <2>2. s.qty * s.price \in Int  BY <2>1
  <2> QED  BY <2>2 DEF PriceOf
<1>1. n \in Nat /\ DOMAIN t = 1..n  OBVIOUS
<1>2. ASSUME NEW i \in 1..n PROVE F(t)[i] \in Int
  <2>1. t[i] \in V4Signals /\ F(t)[i] = PriceOf(t[i])  BY <1>1
  <2> QED  BY <1>0, <2>1
<1>3. CostOf(t) \in Int
  <2>1. DOMAIN F(t) = 1..n  BY <1>1
  <2> HIDE DEF F
  <2>2. SumFunction(F(t)) \in Int  BY <1>1, <1>2, <2>1, TotalInt
  <2> QED  BY <2>2 DEF CostOf, F
<1>4. CostOf(<<>>) = 0
  <2>1. DOMAIN F(<<>>) = {}  OBVIOUS
  <2>2. SumFunction(F(<<>>)) = 0  BY <2>1, TotalEmpty
  <2> QED  BY <2>2 DEF CostOf
<1>5. ASSUME NEW s \in V4Signals PROVE CostOf(Append(t, s)) = CostOf(t) + PriceOf(s)
  <2> DEFINE all == Append(t, s)
  <2>1. DOMAIN all = 1..(n + 1) /\ all[n + 1] = s /\ \A i \in 1..n : all[i] = t[i]  BY <1>1
  <2>2. DOMAIN F(all) = 1..(n + 1) /\ DOMAIN F(t) = 1..n  BY <1>1, <2>1
  <2>3. F(all)[n + 1] = PriceOf(s) /\ PriceOf(s) \in Int  BY <1>0, <1>1, <2>1
  <2>4. \A i \in 1..n : F(t)[i] \in Int /\ F(all)[i] = F(t)[i]  BY <1>1, <1>2, <2>1
  <2> HIDE DEF F, all, n
  <2>5. SumFunction(F(all)) = SumFunction(F(t)) + F(all)[n + 1]
    BY <1>1, <2>2, <2>3, <2>4, TotalAppend
  <2> QED  BY <2>3, <2>5 DEF CostOf, F, all
<1> QED  BY <1>3, <1>4, <1>5

\* The legs as they are sent, each with the amount of all of them.
LEMMA SharedLegs ==
  ASSUME NEW c, NEW legs \in Seq(V4Legs)
  PROVE  /\ ShareAttempt(legs) \in Seq(V4Covered(c))
         /\ CostOf(ShareAttempt(legs)) <= AttemptOf(legs)
<1> DEFINE n == Len(legs)
           a == AttemptOf(legs)
           sent == ShareAttempt(legs)
           F == [i \in DOMAIN sent |-> PriceOf(sent[i])]
           G == [i \in DOMAIN legs |-> legs[i].attempt]
<1>1. n \in Nat /\ DOMAIN legs = 1..n /\ legs \in Seq(V4Signals)  BY LegIsLeg
<1>2. a \in Int  BY <1>1, AttemptIs
<1>3. DOMAIN sent = 1..n /\ \A i \in 1..n : sent[i] = [legs[i] EXCEPT !.attempt = a]
  BY <1>1 DEF ShareAttempt
<1>4. ASSUME NEW s \in V4Legs
      PROVE  /\ [s EXCEPT !.attempt = a] \in V4Covered(c)
             /\ PriceOf([s EXCEPT !.attempt = a]) \in Int /\ s.attempt \in Int
             /\ PriceOf([s EXCEPT !.attempt = a]) <= s.attempt
  <2> HIDE DEF a
  <2>1. s \in V4Signals /\ s.qty > 0 /\ s.side = "BUY" /\ s.qty * s.price <= s.attempt  BY DEF V4Legs
  <2>2. [s EXCEPT !.attempt = a] \in V4Signals  BY <1>2, <2>1, Zenon DEF V4Signals
  <2>3. /\ [s EXCEPT !.attempt = a].qty = s.qty /\ [s EXCEPT !.attempt = a].side = s.side
        /\ [s EXCEPT !.attempt = a].price = s.price
    BY <2>1 DEF V4Signals
  <2>4. s.attempt \in Int /\ s.qty \in Nat /\ s.price \in Nat  BY <2>1 DEF V4Signals
  <2>5. s.qty * s.price \in Int  BY <2>4
  <2> QED  BY <2>1, <2>2, <2>3, <2>4, <2>5 DEF V4Covered, PriceOf
<1> HIDE DEF a
<1>5. ASSUME NEW i \in 1..n PROVE sent[i] \in V4Covered(c)
  <2>1. legs[i] \in V4Legs  BY <1>1
  <2>2. [legs[i] EXCEPT !.attempt = a] \in V4Covered(c)  BY <1>4, <2>1
  <2> QED  BY <1>3, <2>2
<1>6. sent \in Seq(V4Covered(c))
  <2>1. sent = [i \in 1..n |-> sent[i]]  BY <1>1, <1>3 DEF ShareAttempt
  <2> HIDE DEF sent
  <2> QED  BY <1>1, <1>5, <2>1
<1>7. DOMAIN F = 1..n /\ DOMAIN G = 1..n  BY <1>1, <1>3
<1>8. ASSUME NEW i \in 1..n PROVE F[i] \in Int /\ G[i] \in Int /\ F[i] <= G[i]
  <2>1. legs[i] \in V4Legs  BY <1>1
  <2>2. F[i] = PriceOf([legs[i] EXCEPT !.attempt = a]) /\ G[i] = legs[i].attempt  BY <1>1, <1>3
  <2> HIDE DEF F, G
  <2> QED  BY <1>4, <2>1, <2>2
<1>9. SumFunction(F) <= SumFunction(G)
  <2> HIDE DEF F, G, n
  <2> QED  BY <1>1, <1>7, <1>8, TotalAtMost
<1>10. CostOf(sent) = SumFunction(F) /\ AttemptOf(legs) = SumFunction(G)  BY DEF CostOf, AttemptOf
<1> QED  BY <1>6, <1>9, <1>10

\* A sale adds nothing to the cost.
LEMMA WithSale ==
  ASSUME NEW c, IsV4Context(c), NEW t \in Seq(V4Covered(c)), NEW qty \in Nat,
         c.cycles >= 2 => qty <= c.qty, NEW price \in Int, NEW phase \in V4Phases,
         NEW type \in {"LOC", "LIMIT", "MOC"}
  PROVE  /\ t \o Offer(c, qty, price, phase, type) \in Seq(V4Covered(c))
         /\ CostOf(t \o Offer(c, qty, price, phase, type)) = CostOf(t)
<1> DEFINE o == Offer(c, qty, price, phase, type)
           s == V4Sell(c, qty, price, phase, type)
<1>1. o \in Seq(V4Covered(c))  BY OfferIs
<1>2. o = <<>> \/ o = <<s>>  BY DEF Offer
<1>3. s.side = "SELL"  BY DEF V4Sell
<1>4. V4Covered(c) \subseteq V4Signals  BY DEF V4Covered
<1> HIDE DEF o, s
<1>5. t \o o \in Seq(V4Covered(c))  BY <1>1
<1>6. CASE o = <<>>
  <2>1. t \o o = t  BY <1>6
  <2> QED  BY <1>5, <2>1 DEF o
<1>7. CASE o = <<s>>
  <2>1. s \in V4Covered(c)  BY <1>1, <1>7
  <2>2. t \o o = Append(t, s)  BY <1>7, <2>1, OneMore
  <2>3. t \in Seq(V4Signals) /\ s \in V4Signals  BY <1>4, <2>1
  <2>4. CostOf(Append(t, s)) = CostOf(t) + PriceOf(s) /\ CostOf(t) \in Int  BY <2>3, CostIs
  <2>5. PriceOf(s) = 0  BY <1>3 DEF PriceOf
  <2>6. CostOf(t \o o) = CostOf(t)  BY <2>2, <2>4, <2>5
  <2> QED  BY <1>5, <2>6 DEF o
<1> QED  BY <1>2, <1>6, <1>7

LEMMA SaleFree ==
  ASSUME NEW c, IsV4Context(c), NEW qty \in Nat, c.cycles >= 2 => qty <= c.qty, NEW price \in Int,
         NEW phase \in V4Phases, NEW type \in {"LOC", "LIMIT", "MOC"}
  PROVE  CostOf(Offer(c, qty, price, phase, type)) = 0
<1> DEFINE o == Offer(c, qty, price, phase, type)
<1>1. <<>> \in Seq(V4Covered(c)) /\ <<>> \in Seq(V4Signals)  OBVIOUS
<1>2. o \in Seq(V4Covered(c))  BY OfferIs
<1>3. CostOf(<<>> \o o) = CostOf(<<>>)  BY <1>1, WithSale
<1> HIDE DEF o
<1>4. <<>> \o o = o  BY <1>2
<1>5. CostOf(<<>>) = 0  BY <1>1, CostIs
<1> QED  BY <1>3, <1>4, <1>5 DEF o

LEMMA NormalBuysFit ==
  ASSUME NEW c, IsV4Context(c), c.ledger.turn < Turns(c)
  PROVE  NormalBuys(c) \in Seq(V4Covered(c)) /\ CostOf(NormalBuys(c)) <= Most(c.cash, 0)
<1> DEFINE main == MainLegs(c)
           left == Rest(DayBudget(c), AttemptOf(main.legs))
           more == IF main.base > 0 THEN Ladder(c, left, main.base) ELSE <<>>
           legs == main.legs \o more
<1>1. CASE DayBudget(c) > 0
  <2>1. DayBudget(c) \in Nat /\ DayBudget(c) <= c.cash /\ c.cash \in Int  BY <1>1, BudgetIs, V4Fields
  <2>2. main.base \in Int /\ main.legs \in Seq(V4Legs) /\ AttemptOf(main.legs) <= DayBudget(c)
    BY MainLegsFit
  <2>3. main.legs \in Seq(V4Signals)  BY <2>2, LegIsLeg
  <2>4. AttemptOf(main.legs) \in Int  BY <2>3, AttemptIs
  <2>5. left \in Nat /\ AttemptOf(main.legs) + left = DayBudget(c)  BY <2>1, <2>2, <2>4 DEF Rest
  <2>6. NormalBuys(c) = ShareAttempt(legs)  BY <1>1 DEF NormalBuys
  <2> HIDE DEF main, left
  <2>7. legs \in Seq(V4Legs) /\ AttemptOf(legs) <= DayBudget(c)
    <3>1. CASE main.base > 0
      <4>1. /\ Ladder(c, left, main.base) \in Seq(V4Legs)
            /\ AttemptOf(main.legs \o Ladder(c, left, main.base)) <= AttemptOf(main.legs) + left
        BY <2>2, <2>5, LadderFits
      <4>2. legs = main.legs \o Ladder(c, left, main.base)  BY <3>1
      <4>3. legs \in Seq(V4Legs)  BY <2>2, <4>1, <4>2
      <4> QED  BY <2>5, <4>1, <4>2, <4>3
    <3>2. CASE ~(main.base > 0)
      <4>0. more = <<>>  BY <3>2
      <4> HIDE DEF more
      <4>1. legs = main.legs  BY <2>2, <4>0
      <4> QED  BY <2>2, <4>1
    <3> QED  BY <3>1, <3>2
  <2> HIDE DEF legs
  <2>8. ShareAttempt(legs) \in Seq(V4Covered(c)) /\ CostOf(ShareAttempt(legs)) <= AttemptOf(legs)
    BY <2>7, SharedLegs
  <2>9. legs \in Seq(V4Signals) /\ ShareAttempt(legs) \in Seq(V4Signals)
    <3>1. V4Covered(c) \subseteq V4Signals  BY DEF V4Covered
    <3> QED  BY <2>7, <2>8, <3>1, LegIsLeg
  <2>10. AttemptOf(legs) \in Int /\ CostOf(ShareAttempt(legs)) \in Int  BY <2>9, AttemptIs, CostIs
  <2>11. CostOf(ShareAttempt(legs)) <= c.cash  BY <2>1, <2>7, <2>8, <2>10
  <2> QED  BY <2>1, <2>6, <2>8, <2>10, <2>11 DEF Most
<1>2. CASE ~(DayBudget(c) > 0)
  <2>1. NormalBuys(c) = <<>>  BY <1>2 DEF NormalBuys
  <2>2. <<>> \in Seq(V4Signals)  OBVIOUS
  <2>3. CostOf(<<>>) = 0  BY <2>2, CostIs
  <2>4. 0 <= Most(c.cash, 0)  BY V4Fields DEF Most
  <2> QED  BY <2>1, <2>3, <2>4
<1> QED  BY <1>1, <1>2

LEMMA NormalCovered ==
  ASSUME NEW c, IsV4Context(c), c.ledger.turn < Turns(c)
  PROVE  /\ NormalBuys(c) \o NormalSells(c) \in Seq(V4Covered(c))
         /\ CostOf(NormalBuys(c) \o NormalSells(c)) <= Most(c.cash, 0)
<1> DEFINE quarter == IF c.qty < 2 \/ StarPrice(c) <= 0 THEN 0
                      ELSE IF c.qty < 4 THEN 1 ELSE c.qty \div 4
           buys == NormalBuys(c)
           o1 == Offer(c, quarter, StarPrice(c), "v4-quarter-sell", "LOC")
           o2 == Offer(c, c.qty - quarter, Percent(c.avg, 100 + StarBase), "v4-final-sell", "LIMIT")
<1>1. buys \in Seq(V4Covered(c)) /\ CostOf(buys) <= Most(c.cash, 0)  BY NormalBuysFit
<1>2. CASE ~Holds(c)
  <2>1. NormalSells(c) = <<>>  BY <1>2 DEF NormalSells
  <2> HIDE DEF buys
  <2>2. buys \o <<>> = buys  BY <1>1
  <2> QED  BY <1>1, <2>1, <2>2 DEF buys
<1>3. CASE Holds(c)
  <2>1. NormalSells(c) = o1 \o o2  BY <1>3 DEF NormalSells
  <2>2. quarter \in Nat /\ quarter <= c.qty /\ c.qty - quarter \in Nat /\ c.qty - quarter <= c.qty
    BY V4Fields
  <2>3. StarPrice(c) \in Int /\ Percent(c.avg, 100 + StarBase) \in Int
    <3>1. 100 + StarBase \in Nat /\ c.avg \in Int  BY V4Fields DEF StarBase
    <3> QED  BY <3>1, V4Fields, PercentIs
  <2> HIDE DEF quarter, buys
  <2>4. buys \o o1 \in Seq(V4Covered(c)) /\ CostOf(buys \o o1) = CostOf(buys)
    BY <1>1, <2>2, <2>3, WithSale DEF V4Phases
  <2>5. o1 \in Seq(V4Covered(c)) /\ o2 \in Seq(V4Covered(c))
    BY <2>2, <2>3, OfferIs DEF V4Phases
  <2> DEFINE t == buys \o o1
  <2>6. t \o o2 \in Seq(V4Covered(c)) /\ CostOf(t \o o2) = CostOf(t)
    <3> DEFINE rest   == c.qty - quarter
               target == Percent(c.avg, 100 + StarBase)
    <3>1. t \in Seq(V4Covered(c)) /\ "v4-final-sell" \in V4Phases  BY <2>4 DEF V4Phases
    <3>2. rest \in Nat /\ rest <= c.qty /\ target \in Int  BY <2>2, <2>3
    <3> HIDE DEF t, rest, target, o1
    <3>3. /\ t \o Offer(c, rest, target, "v4-final-sell", "LIMIT") \in Seq(V4Covered(c))
          /\ CostOf(t \o Offer(c, rest, target, "v4-final-sell", "LIMIT")) = CostOf(t)
      BY <3>1, <3>2, WithSale
    <3> QED  BY <3>3 DEF rest, target
  <2> HIDE DEF o1, o2
  <2>7. buys \o (o1 \o o2) = t \o o2  BY <1>1, <2>5
  <2> QED  BY <1>1, <2>1, <2>4, <2>6, <2>7 DEF buys, t
<1> QED  BY <1>2, <1>3

LEMMA ReverseQtyIs ==
  ASSUME NEW c, IsV4Context(c)
  PROVE  ReverseQty(c) \in Nat /\ (c.cycles >= 2 => ReverseQty(c) <= c.qty)
<1>1. c.qty \in Nat /\ c.cycles \in Nat /\ c.cycles > 0  BY DEF IsV4Context, IsContext
<1>2. (2 * c.qty) \div c.cycles \in Nat /\ ((2 * c.qty) \div c.cycles) * c.cycles <= 2 * c.qty
  <2>1. 2 * c.qty \in Nat  BY <1>1
  <2> QED  BY <1>1, <2>1, DivBound
<1> DEFINE q == (2 * c.qty) \div c.cycles
<1>3. ASSUME c.cycles >= 2 PROVE q <= c.qty
  <2> HIDE DEF q
  <2>1. q \in Nat /\ q * c.cycles <= 2 * c.qty  BY <1>2 DEF q
  <2>2. 2 * q <= q * c.cycles  BY <1>1, <1>3, <2>1
  <2>3. q * c.cycles \in Int  BY <1>1, <2>1
  <2> QED  BY <1>1, <2>1, <2>2, <2>3
<1> QED  BY <1>2, <1>3 DEF ReverseQty

Closes == Seq([day : Nat, close : Nat])

LEMMA NextClosesIs ==
  ASSUME NEW c, IsV4Context(c)
  PROVE  NextCloses(c) \in Closes
<1> DEFINE C == [day : Nat, close : Nat]
           all == Append(c.ledger.closes, [day |-> c.day, close |-> c.close])
<1>1. c.ledger.closes \in Seq(C)  BY DEF IsV4Context, Ledgers
<1>2. [day |-> c.day, close |-> c.close] \in C  BY DEF IsV4Context
<1> HIDE DEF C
<1>3. all \in Seq(C) /\ all # <<>>  BY <1>1, <1>2
<1> HIDE DEF all
<1>4. Tail(all) \in Seq(C)  BY <1>3
<1> QED  BY <1>1, <1>3, <1>4 DEF NextCloses, Closes, C, all

LEMMA ReverseStarIs ==
  ASSUME NEW closes \in Closes, Len(closes) > 0
  PROVE  ReverseStar(closes) \in Int
<1> DEFINE F == [i \in DOMAIN closes |-> closes[i].close]
           n == Len(closes)
<1>1. n \in Nat /\ n > 0 /\ DOMAIN F = 1..n  BY DEF Closes
<1>2. ASSUME NEW i \in 1..n PROVE F[i] \in Int
  <2> DEFINE C == [day : Nat, close : Nat]
  <2>1. closes \in Seq(C)  BY DEF Closes
  <2>2. \A one \in C : one.close \in Int  OBVIOUS
  <2> HIDE DEF C
  <2>3. closes[i] \in C  BY <2>1
  <2> QED  BY <1>1, <2>2, <2>3
<1> HIDE DEF F, n
<1>3. SumFunction(F) \in Int  BY <1>1, <1>2, TotalInt
<1>4. SumFunction(F) \div n \in Int
  <2> DEFINE s == SumFunction(F)
  <2> HIDE DEF s
  <2>1. s \in Int  BY <1>3 DEF s
  <2>2. s \div n \in Int  BY <1>1, <2>1
  <2> QED  BY <2>2 DEF s
<1> QED  BY <1>4 DEF ReverseStar, F, n

LEMMA ReverseCovered ==
  ASSUME NEW c, IsV4Context(c), NEW closes \in Closes
  PROVE  ReverseDay(c, closes) \in Seq(V4Covered(c)) /\ CostOf(ReverseDay(c, closes)) <= Most(c.cash, 0)
<1> DEFINE star   == ReverseStar(closes)
           part   == c.ledger.cash \div 4
           budget == Rest(Least(part, c.cash), 0)
           leg    == Leg(c, Shares(budget, star - 1), star - 1, "v4-reverse-buy")
           buy    == V4Buy(c, Shares(budget, star - 1), star - 1, "v4-reverse-buy")
           o      == Offer(c, ReverseQty(c), star, "v4-reverse-sell", "LOC")
           sent   == ShareAttempt(leg)
<1>1. <<>> \in Seq(V4Signals)  OBVIOUS
<1>2. CostOf(<<>>) = 0 /\ 0 <= Most(c.cash, 0)
  <2>1. CostOf(<<>>) = 0  BY <1>1, CostIs
  <2> QED  BY <2>1, V4Fields DEF Most
<1>3. CASE Len(closes) < MinCloses  BY <1>2, <1>3 DEF ReverseDay
<1>4. CASE ~(Len(closes) < MinCloses)
  <2>1. Len(closes) > 0  BY <1>4 DEF MinCloses, Closes
  <2>2. star \in Int  BY <2>1, ReverseStarIs
  <2>3. part \in Int /\ c.cash \in Int  BY V4Fields
  <2>4. budget \in Nat /\ budget <= Most(c.cash, 0)
    <3> HIDE DEF part
    <3> QED  BY <2>3 DEF Rest, Least, Most
  <2>5. ReverseDay(c, closes) = o \o sent  BY <1>4 DEF ReverseDay
  <2> HIDE DEF budget, star
  <2>6. star - 1 \in Int /\ "v4-reverse-buy" \in V4Phases /\ "v4-reverse-sell" \in V4Phases
    BY <2>2 DEF V4Phases
  <2>7. leg \in Seq(V4Legs) /\ AttemptOf(leg) \in Int /\ AttemptOf(leg) <= budget
    BY <2>4, <2>6, OneLeg
  <2>8. leg = <<>> \/ leg = <<buy>>  BY <2>4, <2>6, LegFits
  <2>9. CostOf(o) = 0
    <3> DEFINE q == ReverseQty(c)
    <3>1. q \in Nat /\ (c.cycles >= 2 => q <= c.qty)  BY ReverseQtyIs
    <3> HIDE DEF q
    <3>2. CostOf(Offer(c, q, star, "v4-reverse-sell", "LOC")) = 0  BY <2>2, <2>6, <3>1, SaleFree
    <3> QED  BY <3>2 DEF q
  <2>10. o \in Seq(V4Covered(c))  BY <2>2, <2>6, ReverseQtyIs, OfferIs
  <2> HIDE DEF leg, buy, o
  <2>11. sent \in Seq(V4Covered(c)) /\ CostOf(sent) <= AttemptOf(leg)  BY <2>7, SharedLegs
  <2>14. DOMAIN sent = DOMAIN leg  BY DEF ShareAttempt
  <2>15. sent = <<>> \/ \E s \in V4Covered(c) : sent = <<s>>
    <3>1. CASE leg = <<>>  BY <2>11, <2>14, <3>1
    <3>2. CASE leg = <<buy>>
      <4> HIDE DEF sent
      <4>1. Len(sent) = 1  BY <2>11, <2>14, <3>2
      <4> QED  BY <2>11, <4>1
    <3> QED  BY <2>8, <3>1, <3>2
  <2> HIDE DEF sent
  <2>16. V4Covered(c) \subseteq V4Signals  BY DEF V4Covered
  <2>17. CostOf(sent) \in Int /\ sent \in Seq(V4Signals) /\ o \in Seq(V4Signals)
    BY <2>10, <2>11, <2>16, CostIs
  <2>18. CostOf(o \o sent) = CostOf(sent)
    <3>1. CASE sent = <<>>
      <4>1. o \o sent = o  BY <2>10, <3>1
      <4> QED  BY <1>2, <2>9, <3>1, <4>1
    <3>2. ASSUME NEW s \in V4Covered(c), sent = <<s>> PROVE CostOf(o \o sent) = CostOf(sent)
      <4>1. o \o sent = Append(o, s) /\ sent = Append(<<>>, s)  BY <2>10, <3>2
      <4>2. s \in V4Signals  BY <2>16
      <4>3. CostOf(Append(o, s)) = CostOf(o) + PriceOf(s)  BY <2>17, <4>2, CostIs
      <4>4. CostOf(Append(<<>>, s)) = CostOf(<<>>) + PriceOf(s)  BY <1>1, <4>2, CostIs
      <4> QED  BY <1>2, <2>9, <4>1, <4>3, <4>4
    <3> QED  BY <2>15, <3>1, <3>2
  <2>19. CostOf(sent) <= Most(c.cash, 0)
    <3>1. Most(c.cash, 0) \in Int  BY <2>3 DEF Most
    <3> QED  BY <2>4, <2>7, <2>11, <2>17, <3>1
  <2>20. o \o sent \in Seq(V4Covered(c))  BY <2>10, <2>11
  <2> QED  BY <2>5, <2>18, <2>19, <2>20
<1> QED  BY <1>3, <1>4

(* Whatever its ledger says, infinite-buy-v4 asks for whole shares, sells   *)
(* no more than the holding (with two cycles or more), and all the purchases *)
(* of a day together, the two legs and the three steps under them, cost at  *)
(* their limits no more than the cash it was told there is: the broker has  *)
(* no reason to refuse the last of them.  calculateDailyBuyBudget throws    *)
(* for a ledger that is used up, which ends the evaluation.                 *)
THEOREM V4SignalsCovered ==
  ASSUME NEW c, IsV4Context(c), ~V4Throws(c)
  PROVE  InfiniteBuyV4(c) \in Seq(V4Covered(c)) /\ CostOf(InfiniteBuyV4(c)) <= Most(c.cash, 0)
<1>1. <<>> \in Seq(V4Signals) /\ <<>> \in Seq(V4Covered(c))  OBVIOUS
<1>2. CostOf(<<>>) = 0 /\ 0 <= Most(c.cash, 0)
  <2>1. CostOf(<<>>) = 0  BY <1>1, CostIs
  <2> QED  BY <2>1, V4Fields DEF Most
<1>3. CASE ~V4Evaluates(c)  BY <1>1, <1>2, <1>3 DEF InfiniteBuyV4
<1>4. CASE V4Evaluates(c) /\ Entering(c)
  <2> DEFINE o == Offer(c, ReverseQty(c), Price(c), "v4-reverse-sell", "MOC")
  <2>1. InfiniteBuyV4(c) = o  BY <1>4 DEF InfiniteBuyV4, ReverseFirstDay
  <2>2. Price(c) \in Int /\ "v4-reverse-sell" \in V4Phases  BY V4Fields DEF V4Phases
  <2>3. o \in Seq(V4Covered(c))  BY <2>2, ReverseQtyIs, OfferIs
  <2>4. CostOf(o) = 0  BY <2>2, ReverseQtyIs, SaleFree
  <2> HIDE DEF o
  <2> QED  BY <1>2, <2>1, <2>3, <2>4
<1>5. CASE V4Evaluates(c) /\ ~Entering(c) /\ NextMode(c) = "REVERSE"
  <2>1. InfiniteBuyV4(c) = ReverseDay(c, NextCloses(c))  BY <1>5 DEF InfiniteBuyV4
  <2> QED  BY <2>1, NextClosesIs, ReverseCovered
<1>6. CASE V4Evaluates(c) /\ ~Entering(c) /\ NextMode(c) # "REVERSE"
  <2>1. InfiniteBuyV4(c) = NormalBuys(c) \o NormalSells(c)  BY <1>6 DEF InfiniteBuyV4
  <2>2. NextMode(c) = "NORMAL"
    <3>1. c.ledger.mode \in Modes  BY DEF IsV4Context, Ledgers
    <3> QED  BY <1>6, <3>1 DEF NextMode, Modes
  <2>3. c.ledger.turn < Turns(c)
    <3>1. ~(c.ledger.turn >= Turns(c))  BY <1>6, <2>2 DEF V4Throws
    <3> QED  BY <3>1, V4Fields
  <2> QED  BY <2>1, <2>3, NormalCovered
<1> QED  BY <1>3, <1>4, <1>5, <1>6

-----------------------------------------------------------------------------
\* What a fill leaves in the ledger.
LEMMA TurnIs ==
  ASSUME NEW turn \in Int, NEW s \in V4Signals, NEW amount \in Nat, NEW qty \in Nat, NEW n \in Nat
  PROVE  TurnAfterBuy(turn, s, amount, n) \in Int /\ TurnAfterSell(turn, s, qty) \in Int
<1>1. s.attempt \in Int /\ s.prev \in Nat  BY DEF V4Signals
<1>2. \A a \in Int, b \in Nat : b > 0 => a \div b \in Int  OBVIOUS
<1>3. TurnAfterBuy(turn, s, amount, n) \in Int
  <2>1. CASE s.attempt <= 0  BY <2>1 DEF TurnAfterBuy
  <2>2. CASE s.attempt > 0
    <3>1. 4 * s.attempt \in Nat /\ 4 * s.attempt > 0 /\ s.attempt \in Nat  BY <1>1, <2>2
    <3>2. (n * Grain - turn) * amount \in Int /\ Grain * amount \in Int  BY DEF Grain
    <3>3. ((n * Grain - turn) * amount) \div (4 * s.attempt) \in Int  BY <1>2, <3>1, <3>2
    <3>4. (Grain * amount) \div s.attempt \in Int  BY <1>2, <2>2, <3>1, <3>2
    <3> QED  BY <1>1, <2>2, <3>3, <3>4 DEF TurnAfterBuy
  <2> QED  BY <1>1, <2>1, <2>2
<1>4. TurnAfterSell(turn, s, qty) \in Int
  <2>1. turn * qty \in Int  OBVIOUS
  <2>2. s.prev > 0 => (turn * qty) \div s.prev \in Int  BY <1>1, <1>2, <2>1
  <2> QED  BY <1>1, <2>2 DEF TurnAfterSell
<1> QED  BY <1>3, <1>4

LEMMA V4FillIs ==
  ASSUME NEW v4 \in Ledgers, NEW s \in V4Signals, NEW qty \in Nat, NEW amount \in Nat,
         NEW before \in Int, NEW n \in Nat, NEW quota \in Nat, NEW compound \in BOOLEAN,
         NEW v, v = V4Fill(v4, s, qty, amount, before, n, quota, compound),
         NEW held, held = IF v4.known = NotKnown THEN before ELSE v4.known
  PROVE  /\ v \in Ledgers
         /\ s.side = "BUY"  => v.cash = v4.cash - amount /\ v.known = held + qty
         /\ s.side = "SELL" => /\ v.known = IF held <= qty THEN 0 ELSE held - qty
                              /\ (compound => v.cash = v4.cash + amount)
<1>1. /\ v4.turn \in Int /\ v4.cash \in Int /\ v4.seq \in Nat /\ v4.known \in Int /\ held \in Int
      /\ s.side \in {"BUY", "SELL"}
  BY DEF Ledgers, V4Signals
<1>2. CASE s.side = "BUY"
  <2>1. v = [v4 EXCEPT !.turn = TurnAfterBuy(v4.turn, s, amount, n), !.cash = v4.cash - amount,
                       !.known = held + qty]
    BY <1>2 DEF V4Fill, BuyFill
  <2>2. v4.cash - amount \in Int /\ held + qty \in Int  BY <1>1
  <2>3. v4.turn \in Int  BY <1>1
  <2>4. TurnAfterBuy(v4.turn, s, amount, n) \in Int  BY <2>3, TurnIs
  <2>5. v \in Ledgers  BY <2>1, <2>2, <2>4 DEF Ledgers
  <2> QED  BY <1>2, <2>1, <2>5 DEF Ledgers
<1>3. CASE s.side = "SELL" /\ held <= qty
  <2> DEFINE cash == IF compound THEN v4.cash + amount ELSE Least(v4.cash + amount, quota)
  <2>1. v = [v4 EXCEPT !.turn = 0, !.seq = v4.seq + 1, !.known = 0, !.cash = cash]
    BY <1>3 DEF V4Fill, SellFill
  <2>2. cash \in Int  BY <1>1 DEF Least
  <2>3. compound => cash = v4.cash + amount  OBVIOUS
  <2> HIDE DEF cash
  <2>4. v4.seq + 1 \in Nat /\ 0 \in Int  BY <1>1
  <2>5. v \in Ledgers  BY <2>1, <2>2, <2>4 DEF Ledgers
  <2> QED  BY <1>3, <2>1, <2>3, <2>5 DEF Ledgers
<1>4. CASE s.side = "SELL" /\ ~(held <= qty)
  <2>1. v = [v4 EXCEPT !.turn = TurnAfterSell(v4.turn, s, qty), !.cash = v4.cash + amount,
                       !.known = held - qty]
    BY <1>4 DEF V4Fill, SellFill
  <2>2. v4.cash + amount \in Int /\ held - qty \in Int  BY <1>1
  <2>3. v4.turn \in Int /\ 0 \in Nat  BY <1>1
  <2>4. TurnAfterSell(v4.turn, s, qty) \in Int  BY <2>3, TurnIs
  <2>5. v \in Ledgers  BY <2>1, <2>2, <2>4 DEF Ledgers
  <2> QED  BY <1>4, <2>1, <2>5 DEF Ledgers
<1> QED  BY <1>1, <1>2, <1>3, <1>4

LEMMA V4FillIn ==
  ASSUME NEW v4 \in Ledgers, NEW s \in V4Signals, NEW qty \in Nat, NEW amount \in Nat,
         NEW before \in Int, NEW n \in Nat, NEW quota \in Nat, NEW compound \in BOOLEAN
  PROVE  V4Fill(v4, s, qty, amount, before, n, quota, compound) \in Ledgers
<1>1. PICK held : held = IF v4.known = NotKnown THEN before ELSE v4.known  OBVIOUS
<1>2. PICK v : v = V4Fill(v4, s, qty, amount, before, n, quota, compound)  OBVIOUS
<1>3. v \in Ledgers  BY <1>1, <1>2, V4FillIs
<1> QED  BY <1>2, <1>3
=============================================================================
