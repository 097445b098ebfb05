------------------------------ MODULE LiveTrading ------------------------------
(***************************************************************************)
(* One watch stock traded live by its strategy.                            *)
(*                                                                         *)
(* Every minute the trading loop of a broker and market reads what the     *)
(* broker did, evaluates the strategy and submits its orders.  The order   *)
(* sync does the first half by itself while no loop is running, a user may *)
(* trigger a run or change the quota, and approvals of protective sells    *)
(* come through Slack.  All of them meet in the rows: Position, the orders *)
(* (TradeRecord), and the JSON column strategyParams of the WatchStock,    *)
(* which each reads as a whole, changes and writes back as a whole.        *)
(*                                                                         *)
(* How one order and its row may come apart is the matter of               *)
(* OrderSubmission and OpenOrder; here a POST is answered, and a pass      *)
(* reads the broker and the rows in one step.  infinite-buy, whose fills   *)
(* submit orders themselves, is evaluated in Simulation only.              *)
(***************************************************************************)
EXTENDS InfiniteBuyV4Rules

CONSTANTS
  Strategy,     \* the strategies the stock may have
  Seed,         \* quota, shares, average and cash to begin with
  Quotas,       \* the amounts a user may set the quota to
  Cycles,       \* maxCycles
  StopLoss,     \* stopLossRate in percent
  Compound,     \* compoundMode of infinite-buy-v4
  PartFills,    \* an order may be filled in part
  View,         \* what the market may show when it is asked
  Timetable,    \* the slot of each minute of a day
  MaxDay, MaxOrders, MaxManual, MaxEdit      \* bounds

LiveStrategies == (Strategies \ {"infinite-buy"}) \cup {"infinite-buy-v4"}

ASSUME StrategyAssumption == Strategy \subseteq LiveStrategies
ASSUME SeedAssumption == /\ Seed \subseteq [quota : Nat \ {0}, qty : Nat, avg : Nat, cash : Nat]
                         /\ Quotas \subseteq Nat \ {0} /\ Cycles \in Nat \ {0} /\ StopLoss \in 0..99
ASSUME FlagAssumption == Compound \in BOOLEAN /\ PartFills \in BOOLEAN
ASSUME ViewAssumption == View \subseteq Views
ASSUME TimetableAssumption ==      \* a strategy is due in one minute of the day
  /\ Timetable \in Seq(Slots)
  /\ \A m, n \in DOMAIN Timetable : Timetable[m] = "target" /\ Timetable[n] = "target" => m = n
ASSUME BoundAssumption == MaxDay \in Nat \ {0} /\ {MaxOrders, MaxManual, MaxEdit} \subseteq Nat

VARIABLES
  strategy,     \* strategyName
  day, minute,  \* the clock; after the last minute the market is closed
  cron,         \* the minute's trading job has not fired yet
  market,       \* what the market shows in this minute
  close,        \* the close of the day before; 0: unknown
  stock,        \* WatchStock: quota and strategyParams (rules, v4)
  account,      \* at the broker: shares, their average, cash
  position,     \* the Position row; qty 0: none
  orders,       \* TradeRecord rows with their orders at the broker, by createdAt
  peak,         \* peakValue of the latest RiskSnapshot
  flow,         \* what is running
  count,        \* what has been used of the bounds
  audit         \* history: what happened so far that the code does not record

vars == <<strategy, day, minute, cron, market, close, stock, account, position, orders, peak,
          flow, count, audit>>

Run  == {"loop", "manual"}
Flow == Run \cup {"sync", "user"}

Status == {"AWAITING", "SUBMITTING", "PENDING", "PARTIAL", "FILLED", "CANCELLED", "FAILED"}

(* A flow: the rows it read (stock, held, what the broker listed), what it  *)
(* still has to do (rows to settle, signals to submit, the order id it is   *)
(* sending), and for a change of strategyParams what it read (base) and the *)
(* reason (why).                                                            *)
NoStock == [quota |-> 0, rules |-> NoParams,
            v4 |-> [turn |-> 0, cash |-> 0, seq |-> 0, known |-> NotKnown,
                    mode |-> "NORMAL", closes |-> <<>>]]
NoShares == [qty |-> 0, avg |-> 0, mark |-> 0]
IdleFlow == [pc |-> "idle", ws |-> NoStock, held |-> NoShares, peak |-> 0, total |-> 0,
             list |-> <<>>, rows |-> {}, open |-> {}, jobs |-> <<>>, bought |-> FALSE,
             due |-> FALSE, base |-> NoStock, why |-> "none", now |-> 0, new |-> 0, id |-> 0]

Open == minute <= Len(Timetable)
Slot == IF Open THEN Timetable[minute] ELSE "closed"
Worth(p) == p.qty * p.mark
Once  == strategy \in {"daily-dca", "infinite-buy-v4"}
Carries == strategy = "daily-dca"

Go(f, pc) == flow' = [flow EXCEPT ![f].pc = pc]
Stop(f)   == flow' = [flow EXCEPT ![f] = IdleFlow]

Order(i)      == orders[i]
\* Mutant of Unresolved: what the broker accepted no longer counts.
UnresolvedUnsent(o) == o.status \in {"AWAITING", "SUBMITTING"}
Unresolved(o) == \/ o.status \in {"AWAITING", "SUBMITTING", "PENDING"}
                 \/ o.status = "PARTIAL" /\ o.known
Executed(o)   == o.status \in {"FILLED", "PARTIAL"}
Remaining(o)  == o.s.qty - o.filled
OrderType(s)  == IF strategy = "infinite-buy-v4" THEN s.type
                 ELSE IF s.price = 0 THEN "MARKET" ELSE "LIMIT"

Working(side) == {i \in DOMAIN orders : orders[i].live /\ orders[i].s.side = side}
Charge(s)     == (IF s.price > 0 THEN s.price ELSE market.price) * s.qty
Committed     == SumFunctionOnSet([i \in DOMAIN orders |-> Charge(orders[i].s)], Working("BUY"))
OfferedShares == SumFunctionOnSet([i \in DOMAIN orders |-> Remaining(orders[i])], Working("SELL"))

(* torn: a change of strategyParams overwrote another one that came between *)
(* its read and its write; overlap: the loop and a manual run overlapped;   *)
(* mixed: the account held shares to begin with, a completed sale left      *)
(* shares, or a purchase was filled before the strategy heard of a          *)
(* completed sale; short: a sale of more shares than the ledger knew of was *)
(* booked; aside: profits that SellFill put aside; seeded: the cash of the  *)
(* ledger to begin with, less the quota.                                    *)
NothingYet == [torn |-> FALSE, overlap |-> FALSE, mixed |-> FALSE, short |-> FALSE,
               aside |-> 0, seeded |-> 0]

SeedLedger(seed) ==        \* convertToInfiniteBuyV4
  [turn |-> (seed.qty * seed.avg * Grain * Cycles) \div seed.quota,
   cash |-> Rest(seed.quota, seed.qty * seed.avg), seq |-> 0, known |-> seed.qty,
   mode |-> "NORMAL", closes |-> <<>>]

Init ==
  /\ strategy \in Strategy
  /\ day = 1 /\ minute = 1 /\ cron = TRUE /\ market \in View /\ close = 0
  /\ \E seed \in Seed :
       /\ stock = [quota |-> seed.quota, rules |-> NoParams, v4 |-> SeedLedger(seed)]
       /\ account = [qty |-> seed.qty, avg |-> seed.avg, cash |-> seed.cash]
       /\ position = [qty |-> seed.qty, avg |-> seed.avg, mark |-> seed.avg]
  /\ orders = <<>> /\ peak = 0
  /\ flow = [f \in Flow |-> IdleFlow]
  /\ count = [manual |-> 0, edit |-> 0]
  /\ audit = [NothingYet EXCEPT !.seeded = stock.v4.cash - stock.quota, !.mixed = account.qty > 0]

Overlapping == \A f \in Run : flow'[f].pc # "idle"
Watch == audit' = [audit EXCEPT !.overlap = @ \/ Overlapping]

-----------------------------------------------------------------------------
(* What starts.  The loop holds runningBrokerMarkets while it is not idle;  *)
(* a minute that finds it busy is lost.  The sync looks at it only once.    *)
StartLoop ==
  /\ Open /\ cron /\ cron' = FALSE
  /\ flow["loop"].pc = "idle"
  /\ flow' = [flow EXCEPT !["loop"] = [IdleFlow EXCEPT !.pc = "risk", !.ws = stock]]
  /\ UNCHANGED <<strategy, day, minute, market, close, stock, account, position, orders, peak, count>>
  /\ Watch

HasOpenOrders == \E i \in DOMAIN orders : orders[i].status \in {"PENDING", "PARTIAL"} /\ orders[i].known

StartSync ==
  /\ flow["sync"].pc = "idle" /\ flow["loop"].pc = "idle"
  /\ HasOpenOrders
  /\ Go("sync", "balance")
  /\ UNCHANGED <<strategy, day, minute, cron, market, close, stock, account, position, orders, peak, count>>
  /\ Watch

StartManual ==
  /\ Open /\ flow["manual"].pc = "idle" /\ count.manual < MaxManual
  /\ count' = [count EXCEPT !.manual = @ + 1]
  /\ flow' = [flow EXCEPT !["manual"] = [IdleFlow EXCEPT !.pc = "guard", !.ws = stock]]
  /\ UNCHANGED <<strategy, day, minute, cron, market, close, stock, account, position, orders, peak>>
  /\ Watch

TradedOn(d) == \E i \in DOMAIN orders : Executed(orders[i]) /\ orders[i].day = d

GuardManual ==
  /\ flow["manual"].pc = "guard"
  /\ IF (\E i \in DOMAIN orders : Unresolved(orders[i])) \/ TradedOn(day)
     THEN Stop("manual") ELSE Go("manual", "risk")
  /\ UNCHANGED <<strategy, day, minute, cron, market, close, stock, account, position, orders, peak, count>>
  /\ Watch

\* evaluateRisk: the positions' value alone, without the cash.
ReadRisk(f) ==
  /\ flow[f].pc = "risk"
  /\ LET total == Worth(position)
     IN flow' = [flow EXCEPT ![f].pc = IF f = "loop" THEN "positions" ELSE "balance",
                             ![f].total = total, ![f].peak = IF peak > total THEN peak ELSE total]
  /\ UNCHANGED <<strategy, day, minute, cron, market, close, stock, account, position, orders, peak, count>>
  /\ Watch

\* getBalance may fail, which ends the flow.
ReadBalance(f) ==
  /\ flow[f].pc = "balance"
  /\ \/ Stop(f)
     \/ flow' = [flow EXCEPT ![f].pc = "upsert",
                   ![f].held = [qty |-> account.qty, avg |-> account.avg, mark |-> market.price]]
  /\ UNCHANGED <<strategy, day, minute, cron, market, close, stock, account, position, orders, peak, count>>
  /\ Watch

\* syncPositions writes what the balance said, however old it is by now.
WritePositions(f) ==
  /\ flow[f].pc = "upsert"
  /\ position' = IF flow[f].held.qty = 0 THEN NoShares ELSE flow[f].held
  /\ Go(f, "positions")
  /\ UNCHANGED <<strategy, day, minute, cron, market, close, stock, account, orders, peak, count>>
  /\ Watch

ReadPositions(f) ==
  /\ flow[f].pc = "positions"
  /\ flow' = [flow EXCEPT ![f].pc = IF f = "manual" THEN "evaluate" ELSE "list", ![f].held = position]
  /\ UNCHANGED <<strategy, day, minute, cron, market, close, stock, account, position, orders, peak, count>>
  /\ Watch

-----------------------------------------------------------------------------
(* A pass of the reconciliation (OpenOrder has its reads one by one).       *)
Listing(f) == flow[f].list
Row(f)     == CHOOSE i \in flow[f].rows : \A j \in flow[f].rows : i <= j      \* by createdAt

List(f) ==
  /\ flow[f].pc = "list"
  /\ \/ HasOpenOrders /\ Stop(f)                         \* the broker cannot be read
     \/ flow' = [flow EXCEPT ![f].pc = "pass", ![f].list = orders,
                   ![f].rows = {i \in DOMAIN orders :
                                  orders[i].status \in {"PENDING", "PARTIAL"} /\ orders[i].known}]
  /\ UNCHANGED <<strategy, day, minute, cron, market, close, stock, account, position, orders, peak, count>>
  /\ Watch

NextRow(f) == flow' = [flow EXCEPT ![f].rows = @ \ {Row(f)}]

\* Mutant of SameRow: the update asks for the id only.
SameRowById(f) == Row(f) \in DOMAIN orders

\* The row is still what the pass loaded.
SameRow(f) == LET o == orders[Row(f)]
                  l == Listing(f)[Row(f)]
              IN o.status = l.status /\ o.known = l.known /\ o.told = l.told

\* Whom applyReconciledStrategyFill tells: every share of a purchase, a sale that is complete.
Tells(o, now) == now > 0 /\ (o.s.side = "BUY" \/ o.status = "FILLED")

(* The shares held before the fill, by the positions of the pass, and       *)
(* whether the strategy has anything to change for it.                      *)
HeldBefore(f, o, now) == IF o.s.side = "BUY" THEN Rest(flow[f].held.qty, now)
                                             ELSE flow[f].held.qty + now
Touches(f, o, now) ==
  /\ strategy \in {"momentum-breakout", "grid-mean-reversion", "infinite-buy-v4"}
  /\ \/ o.s.side = "BUY" \/ strategy = "infinite-buy-v4"
     \/ o.s.phase \in MomentumFullExit \cup {"take-profit-middle", "take-profit-full", "stop"}
     \/ o.s.qty >= HeldBefore(f, o, now)

SettleListed(f) ==
  /\ flow[f].pc = "pass" /\ flow[f].rows # {}
  /\ LET l    == Listing(f)[Row(f)]
         now  == Rest(l.filled, l.told)
         o    == [orders[Row(f)] EXCEPT
                    !.status = IF l.filled >= l.s.qty THEN "FILLED" ELSE IF l.filled > 0 THEN "PARTIAL" ELSE @,
                    !.known = ~(l.filled \in 1..(l.s.qty - 1) /\ ~l.live), !.told = @ + now]
     IN /\ l.live \/ l.filled > 0
        /\ IF o # orders[Row(f)] /\ SameRow(f)
           THEN /\ orders' = [orders EXCEPT ![Row(f)] = o]
                /\ IF Tells(o, now) /\ Touches(f, o, now)
                   THEN flow' = [flow EXCEPT ![f].pc = "fetch", ![f].why = "fill", ![f].now = now]
                   ELSE NextRow(f)
           ELSE UNCHANGED orders /\ NextRow(f)
  /\ UNCHANGED <<strategy, day, minute, cron, market, close, stock, account, position, peak, count>>
  /\ Watch

\* An order the broker no longer lists; a purchase without fills is reported.
SettleAbsent(f) ==
  /\ flow[f].pc = "pass" /\ flow[f].rows # {}
  /\ LET l == Listing(f)[Row(f)]
     IN /\ ~l.live /\ l.filled = 0
        /\ IF SameRow(f)
           THEN /\ orders' = [orders EXCEPT ![Row(f)].status = "CANCELLED"]
                /\ IF Carries /\ l.s.side = "BUY"
                   THEN flow' = [flow EXCEPT ![f].pc = "fetch", ![f].why = "restore"]
                   ELSE NextRow(f)
           ELSE UNCHANGED orders /\ NextRow(f)
  /\ UNCHANGED <<strategy, day, minute, cron, market, close, stock, account, position, peak, count>>
  /\ Watch

EndPass(f) ==
  /\ flow[f].pc = "pass" /\ flow[f].rows = {}
  /\ IF f = "sync" THEN Stop(f) ELSE flow' = [flow EXCEPT ![f].pc = "unfilled", ![f].list = <<>>]
  /\ UNCHANGED <<strategy, day, minute, cron, market, close, stock, account, position, orders, peak, count>>
  /\ Watch

-----------------------------------------------------------------------------
AfterRun(f) == IF f = "loop" THEN [IdleFlow EXCEPT !.pc = "snapshot", !.held = flow[f].held]
                             ELSE IdleFlow

(* Before a once-daily strategy is due its open orders are cancelled; the   *)
(* rows stay open until a later pass.                                       *)
Due == ~Once \/ Slot = "target"

ReadUnfilled(f) ==
  /\ flow[f].pc = "unfilled"
  /\ LET open == {i \in DOMAIN orders : HasOpenOrders /\ orders[i].live}
     IN \/ HasOpenOrders /\ Stop(f)
        \/ Due /\ flow' = [flow EXCEPT ![f].pc = IF Once /\ open # {} THEN "cancel" ELSE "evaluate",
                                       ![f].open = open]
        \/ ~Due /\ flow' = [flow EXCEPT ![f] = AfterRun(f)]
  /\ UNCHANGED <<strategy, day, minute, cron, market, close, stock, account, position, orders, peak, count>>
  /\ Watch

CancelUnfilled(f) ==
  /\ flow[f].pc = "cancel"
  /\ orders' = [i \in DOMAIN orders |-> IF i \in flow[f].open THEN [orders[i] EXCEPT !.live = FALSE] ELSE orders[i]]
  /\ Go(f, "evaluate")
  /\ UNCHANGED <<strategy, day, minute, cron, market, close, stock, account, position, peak, count>>
  /\ Watch

OpenSide(f, side) ==
  \/ \E i \in flow[f].open : orders[i].s.side = side
  \/ f = "loop" /\ \E i \in DOMAIN orders : Unresolved(orders[i]) /\ orders[i].s.side = side

Context(f) ==
  [strategy |-> strategy, qty |-> flow[f].held.qty, avg |-> flow[f].held.avg,
   quota |-> flow[f].ws.quota, cycles |-> Cycles, stop |-> StopLoss,
   cash |-> Rest(account.cash, Committed), total |-> flow[f].total, peak |-> flow[f].peak,
   done |-> f = "loop" /\ TradedOn(day), day |-> day, slot |-> Slot,
   openBuy |-> OpenSide(f, "BUY"), openSell |-> OpenSide(f, "SELL"),
   view |-> market, par |-> flow[f].ws.rules, ledger |-> flow[f].ws.v4, close |-> close]

(* The elements of a sequence at some of its places, in order.              *)
At(signals, places) ==
  LET place(n) == CHOOSE i \in places : Cardinality({j \in places : j <= i}) = n
  IN [n \in 1..Cardinality(places) |-> signals[place(n)]]

(* preventSameCycleOppositeOrders, and for v4 sells before purchases.       *)
Executable(signals) ==
  LET blocked(s) == /\ s.side = "BUY" /\ s.price > 0
                    /\ \E i \in DOMAIN signals : /\ signals[i].side = "SELL" /\ signals[i].price > 0
                                                 /\ signals[i].price <= s.price
  IN At(signals, {i \in DOMAIN signals : ~blocked(signals[i])})

SellsFirst(signals) ==
  LET sells == {i \in DOMAIN signals : signals[i].side = "SELL"}
  IN At(signals, sells) \o At(signals, DOMAIN signals \ sells)

EvaluateRules(f) ==
  /\ flow[f].pc = "evaluate" /\ strategy # "infinite-buy-v4"
  /\ LET c == Context(f)
         signals == Evaluate(c)
     IN flow' = [flow EXCEPT ![f] =
          [IdleFlow EXCEPT !.pc = "submit", !.held = flow[f].held,
             !.jobs = Executable(signals),
             !.due  = /\ Carries /\ ~c.done
                      /\ Short(c) \/ \E i \in DOMAIN signals : signals[i].side = "BUY"]]
  /\ UNCHANGED <<strategy, day, minute, cron, market, close, stock, account, position, orders, peak, count>>
  /\ Watch

(* The mode and the closes are stored at once, by reading the column again; *)
(* the rest of the ledger waits for the fills.                              *)
EvaluateV4(f) ==
  /\ flow[f].pc = "evaluate" /\ strategy = "infinite-buy-v4"
  /\ LET c    == Context(f)
         kept == [NoStock.v4 EXCEPT !.mode = NextMode(c), !.closes = NextCloses(c)]
     IN IF V4Throws(c) THEN flow' = [flow EXCEPT ![f] = AfterRun(f)]
        ELSE flow' = [flow EXCEPT ![f] =
               [IdleFlow EXCEPT !.held = flow[f].held, !.why = "persist",
                  !.pc   = IF V4Evaluates(c) THEN "fetch" ELSE "submit",
                  !.jobs = SellsFirst(Executable(InfiniteBuyV4(c))),
                  !.ws   = [NoStock EXCEPT !.v4 = kept]]]
  /\ UNCHANGED <<strategy, day, minute, cron, market, close, stock, account, position, orders, peak, count>>
  /\ Watch

EvaluationFails(f) ==      \* a quote or an indicator
  /\ flow[f].pc = "evaluate"
  /\ flow' = [flow EXCEPT ![f] = AfterRun(f)]
  /\ UNCHANGED <<strategy, day, minute, cron, market, close, stock, account, position, orders, peak, count>>
  /\ Watch

-----------------------------------------------------------------------------
(* The orders of an evaluation, one after the other.  Sales that protect    *)
(* wait for an approval (SellApproval).                                     *)
NeedsApproval(s) == s.side = "SELL" /\ s.phase \in
  {"carryover-exit", "eod-exit", "intraday-stop", "risk-liquidation", "trailing-stop", "risk", "stop"}

NewOrder(s) == [s |-> s, day |-> day, known |-> FALSE, told |-> 0, live |-> FALSE, filled |-> 0,
                amount |-> 0, status |-> IF NeedsApproval(s) THEN "AWAITING" ELSE "SUBMITTING"]

Submitting(f) == flow[f].pc = "submit" /\ flow[f].jobs # <<>>
Job(f)        == Head(flow[f].jobs)
InTheWay(s)   == {i \in DOMAIN orders : Unresolved(orders[i]) /\ orders[i].s.side = s.side}

\* Nothing is written: the broker is inactive, trading off, or Slack down.
DropJob(f) ==
  /\ Submitting(f)
  /\ flow' = [flow EXCEPT ![f].jobs = Tail(@)]
  /\ UNCHANGED <<strategy, day, minute, cron, market, close, stock, account, position, orders, peak, count>>
  /\ Watch

AdmitJob(f) ==
  /\ Submitting(f) /\ Len(orders) < MaxOrders
  /\ IF InTheWay(Job(f)) # {}
     THEN flow' = [flow EXCEPT ![f].jobs = Tail(@)] /\ UNCHANGED orders
     ELSE /\ orders' = Append(orders, NewOrder(Job(f)))
          /\ flow' = [flow EXCEPT ![f].jobs = Tail(@), ![f].id = Len(orders) + 1,
                        ![f].pc = IF NeedsApproval(Job(f)) THEN "submit" ELSE "post"]
  /\ UNCHANGED <<strategy, day, minute, cron, market, close, stock, account, position, peak, count>>
  /\ Watch

Holdings == IF account.qty = 0 THEN NoShares
            ELSE [qty |-> account.qty, avg |-> account.avg, mark |-> market.price]

\* What the broker can reserve for the order.
Covered(s) == IF s.side = "BUY" THEN Committed + Charge(s) <= account.cash
              ELSE OfferedShares + s.qty <= account.qty

Sent(o) == [o EXCEPT !.status = "PENDING", !.known = TRUE, !.live = TRUE]

Post(f) ==
  /\ flow[f].pc = "post"
  /\ \E outcome \in {"PENDING", "FAILED", "CANCELLED"} :       \* CANCELLED: no balance
       /\ outcome = "PENDING" => Covered(orders[flow[f].id].s)
       /\ position' = IF outcome = "CANCELLED" THEN position ELSE Holdings
       /\ orders' = [orders EXCEPT ![flow[f].id] =
                       IF outcome = "PENDING" THEN Sent(@) ELSE [@ EXCEPT !.status = outcome]]
       /\ flow' = [flow EXCEPT ![f].pc = "submit", ![f].bought =
                     @ \/ (outcome = "PENDING" /\ orders[flow[f].id].s.side = "BUY")]
  /\ UNCHANGED <<strategy, day, minute, cron, market, close, stock, account, peak, count>>
  /\ Watch

EndSubmit(f) ==
  /\ flow[f].pc = "submit" /\ flow[f].jobs = <<>>
  /\ flow' = [flow EXCEPT ![f] =
       IF Carries /\ @.bought   THEN [@ EXCEPT !.pc = "fetch", !.why = "reset"]
       ELSE IF Carries /\ @.due THEN [@ EXCEPT !.pc = "fetch", !.why = "carry"]
       ELSE AfterRun(f)]
  /\ UNCHANGED <<strategy, day, minute, cron, market, close, stock, account, position, orders, peak, count>>
  /\ Watch

SaveSnapshot ==
  /\ flow["loop"].pc = "snapshot"
  /\ peak' = IF peak > Worth(flow["loop"].held) THEN peak ELSE Worth(flow["loop"].held)
  /\ Stop("loop")
  /\ UNCHANGED <<strategy, day, minute, cron, market, close, stock, account, position, orders, count>>
  /\ Watch

-----------------------------------------------------------------------------
(* Every change of strategyParams reads the row, changes the column and     *)
(* writes all of it.                                                        *)
Fetch(f) ==
  /\ flow[f].pc = "fetch"
  /\ flow' = [flow EXCEPT ![f].pc = "store", ![f].base = stock]
  /\ UNCHANGED <<strategy, day, minute, cron, market, close, stock, account, position, orders, peak, count>>
  /\ Watch

Settling(f)     == flow[f].pc \in {"fetch", "store"}
Storing(f, why) == flow[f].pc = "store" /\ flow[f].why = why
Base(f)         == flow[f].base
Column(s)       == <<s.rules, s.v4>>

Store(f, new, aside, short) ==
  /\ stock' = new
  /\ audit' = [audit EXCEPT !.overlap = @ \/ Overlapping, !.aside = @ + aside, !.short = @ \/ short,
                             !.torn = @ \/ Column(stock) # Column(Base(f))]
  /\ UNCHANGED <<strategy, day, minute, cron, market, close, account, position, orders, peak, count>>

StoreColumn(f, rules, v4) == Store(f, [stock EXCEPT !.rules = rules, !.v4 = v4], 0, FALSE)

\* handleStrategySignalFill
FillOf(f) ==
  LET o == Listing(f)[Row(f)]
  IN IF o.s.side = "BUY" THEN [o.s EXCEPT !.qty = flow[f].now] ELSE o.s

\* Mutant of RulesAfterFill: the quantity is compared before the side.
RulesAfterFillBySize(f, s, held) ==
  IF s.qty >= held THEN [Base(f).rules EXCEPT !.entry = NoDay]
  ELSE MomentumFill(Base(f).rules, s, held, orders[Row(f)].day)

RulesAfterFill(f, s, held) ==
  CASE strategy = "momentum-breakout"   -> MomentumFill(Base(f).rules, s, held, orders[Row(f)].day)
    [] strategy = "grid-mean-reversion" -> IF s.phase = "stop" THEN GridClear(Base(f).rules)
                                           ELSE GridFill(Base(f).rules, s, held)
    [] OTHER                            -> Base(f).rules

\* Mutant of LedgerAfterFill: booked at the limit instead of the price paid.
LedgerAfterFillAtLimit(f, s, held, compound) ==
  IF strategy # "infinite-buy-v4" THEN Base(f).v4
  ELSE V4Fill(Base(f).v4, s, s.qty, s.price * s.qty, held, Cycles, Base(f).quota, compound)

LedgerAfterFill(f, s, held, compound) ==
  LET l == Listing(f)[Row(f)]
  IN IF strategy # "infinite-buy-v4" THEN Base(f).v4
     ELSE V4Fill(Base(f).v4, s, s.qty, (l.amount \div l.filled) * s.qty, held, Cycles,
                 Base(f).quota, compound)

StoreFill(f) ==
  /\ Storing(f, "fill")
  /\ flow' = [flow EXCEPT ![f].pc = "pass", ![f].rows = @ \ {Row(f)}, ![f].base = NoStock]
  /\ LET s    == FillOf(f)
         held == HeldBefore(f, orders[Row(f)], flow[f].now)
         v4   == LedgerAfterFill(f, s, held, Compound)
     IN Store(f, [stock EXCEPT !.rules = RulesAfterFill(f, s, held), !.v4 = v4],
              LedgerAfterFill(f, s, held, TRUE).cash - v4.cash,
              strategy = "infinite-buy-v4" /\ s.side = "SELL" /\ s.qty > Base(f).v4.known)

(* The carry: a share of the quota, up to what is not invested, once a day. *)
Room(f, invested) == Rest(Base(f).quota, invested)
MayCarry(f, invested) == Base(f).rules.carriedOn # day /\ Room(f, invested) > 0

Carry(f, invested) ==
  IF MayCarry(f, invested)
  THEN StoreColumn(f, [Base(f).rules EXCEPT
                         !.carried = Least(@ + Base(f).quota \div Cycles, Room(f, invested)),
                         !.carriedOn = day], Base(f).v4)
  ELSE UNCHANGED <<strategy, day, minute, cron, market, close, stock, account, position, orders, peak, count>> /\ Watch

StoreRestore(f) ==         \* applyReconciledStrategyFailure
  /\ Storing(f, "restore")
  /\ flow' = [flow EXCEPT ![f].pc = "pass", ![f].rows = @ \ {Row(f)}, ![f].base = NoStock]
  /\ Carry(f, position.qty * position.avg)

StoreCarry(f) ==           \* accumulateUnusedQuotas
  /\ Storing(f, "carry")
  /\ flow' = [flow EXCEPT ![f] = AfterRun(f)]
  /\ Carry(f, flow[f].held.qty * flow[f].held.avg)

\* Mutant of StoreReset: what was carried over is not used up.
StoreResetDateOnly(f) ==
  /\ Storing(f, "reset")
  /\ flow' = [flow EXCEPT ![f] = AfterRun(f)]
  /\ StoreColumn(f, [Base(f).rules EXCEPT !.carriedOn = day], Base(f).v4)

StoreReset(f) ==           \* resetAccumulatedQuota
  /\ Storing(f, "reset")
  /\ flow' = [flow EXCEPT ![f] = AfterRun(f)]
  /\ StoreColumn(f, [Base(f).rules EXCEPT !.carried = 0, !.carriedOn = day], Base(f).v4)

StoreMode(f) ==            \* persistInfiniteBuyV4State
  /\ Storing(f, "persist")
  /\ flow' = [flow EXCEPT ![f].pc = "submit", ![f].ws = NoStock, ![f].base = NoStock]
  /\ StoreColumn(f, Base(f).rules, [Base(f).v4 EXCEPT !.mode = flow[f].ws.v4.mode,
                                                      !.closes = flow[f].ws.v4.closes])

(* A user sets the quota; the ledger of v4 gets the difference in cash.     *)
StartEdit ==
  /\ flow["user"].pc = "idle" /\ count.edit < MaxEdit
  /\ count' = [count EXCEPT !.edit = @ + 1]
  /\ \E q \in Quotas : flow' = [flow EXCEPT !["user"] =
                                 [IdleFlow EXCEPT !.pc = "fetch", !.why = "quota", !.new = q]]
  /\ UNCHANGED <<strategy, day, minute, cron, market, close, stock, account, position, orders, peak>>
  /\ Watch

StoreQuota(f) ==
  /\ Storing(f, "quota")
  /\ Stop(f)
  /\ LET delta == flow[f].new - Base(f).quota
         cash  == Base(f).v4.cash + delta
     IN IF strategy = "infinite-buy-v4" /\ delta # 0
        THEN IF cash < 0 THEN UNCHANGED <<strategy, day, minute, cron, market, close, stock, account,
                                          position, orders, peak, count>> /\ Watch
             ELSE Store(f, [Base(f) EXCEPT !.quota = flow[f].new, !.v4 = [@ EXCEPT !.cash = cash]], 0, FALSE)
        ELSE /\ stock' = [stock EXCEPT !.quota = flow[f].new]
             /\ UNCHANGED <<strategy, day, minute, cron, market, close, account, position, orders, peak, count>>
             /\ Watch

-----------------------------------------------------------------------------
(* Approvals.  The quantity is cut to what the account holds.               *)
Approve(i) ==
  /\ orders[i].status = "AWAITING"
  /\ \E outcome \in {"PENDING", "FAILED", "CANCELLED"} :
       LET s == [orders[i].s EXCEPT !.qty = Least(@, account.qty)]
           o == [orders[i] EXCEPT !.s = IF account.qty = 0 THEN @ ELSE s]
       IN /\ account.qty = 0 => outcome = "CANCELLED"
          /\ outcome = "PENDING" => Covered(s)
          /\ position' = Holdings
          /\ orders' = [orders EXCEPT ![i] =
                          IF outcome = "PENDING" THEN Sent(o) ELSE [@ EXCEPT !.status = outcome]]
  /\ UNCHANGED <<strategy, day, minute, cron, market, close, stock, account, peak, flow, count>>
  /\ Watch

Decline(i) ==              \* rejected or expired
  /\ orders[i].status = "AWAITING"
  /\ orders' = [orders EXCEPT ![i].status = "CANCELLED"]
  /\ UNCHANGED <<strategy, day, minute, cron, market, close, stock, account, position, peak, flow, count>>
  /\ Watch

(* The broker.  An order is filled at its limit, an auction order at the    *)
(* close.                                                                   *)
Settled(a, side, n, price) ==
  IF side = "BUY"
  THEN [qty |-> a.qty + n, cash |-> a.cash - n * price,
        avg |-> (a.qty * a.avg + n * price) \div (a.qty + n)]
  ELSE [qty |-> a.qty - n, cash |-> a.cash + n * price, avg |-> IF a.qty = n THEN 0 ELSE a.avg]

\* A completed sale the strategy has not heard of.
Unheard == \/ \E i \in DOMAIN orders : /\ orders[i].s.side = "SELL" /\ Remaining(orders[i]) = 0
                                        /\ orders[i].told < orders[i].filled
           \/ \E f \in Flow : Settling(f) /\ flow[f].why = "fill" /\ Listing(f)[Row(f)].s.side = "SELL"

Trade(i, n, price) ==
  /\ orders[i].s.side = "BUY" => n * price <= account.cash
  /\ account' = Settled(account, orders[i].s.side, n, price)
  /\ orders' = [orders EXCEPT ![i].filled = @ + n, ![i].amount = @ + n * price,
                              ![i].live = n < Remaining(orders[i])]
  /\ UNCHANGED <<strategy, day, minute, cron, market, close, stock, position, peak, flow, count>>
  /\ audit' = [audit EXCEPT !.overlap = @ \/ Overlapping,
                 !.mixed = @ \/ IF orders[i].s.side = "BUY" THEN Unheard
                                ELSE n = Remaining(orders[i]) /\ n < account.qty]

Lots(i) == {Remaining(orders[i])} \cup (IF PartFills THEN {1} ELSE {})

Crosses(s) == IF s.side = "BUY" THEN market.price <= s.price ELSE market.price >= s.price

Fill(i) ==
  /\ Open /\ orders[i].live /\ market.price > 0
  /\ \/ OrderType(orders[i].s) = "MARKET"
     \/ OrderType(orders[i].s) = "LIMIT" /\ Crosses(orders[i].s)
  /\ \E n \in Lots(i) :
       Trade(i, n, IF OrderType(orders[i].s) = "MARKET" THEN market.price ELSE orders[i].s.price)

InAuction(i) ==
  /\ ~Open /\ orders[i].live /\ orders[i].filled = 0
  /\ OrderType(orders[i].s) = "MOC" \/ (OrderType(orders[i].s) = "LOC" /\ Crosses(orders[i].s))

FillAtClose(i) ==
  /\ InAuction(i)
  /\ \E n \in Lots(i) : Trade(i, n, market.price)

Die(i) ==                  \* cancelled by hand or by the broker
  /\ orders[i].live
  /\ orders' = [orders EXCEPT ![i].live = FALSE]
  /\ UNCHANGED <<strategy, day, minute, cron, market, close, stock, account, position, peak, flow, count>>
  /\ Watch

(* The clock.  What a day leaves unfilled dies; nothing runs overnight.     *)
NextMinute ==
  /\ Open
  /\ minute' = minute + 1 /\ cron' = (flow["loop"].pc = "idle")
  /\ market' \in View
  /\ UNCHANGED <<strategy, day, close, stock, account, position, orders, peak, flow, count>>
  /\ Watch

NextDay ==
  /\ ~Open /\ day < MaxDay
  /\ \A f \in Flow : flow[f].pc = "idle"
  /\ \A i \in DOMAIN orders : ~InAuction(i)
  /\ day' = day + 1 /\ minute' = 1 /\ cron' = TRUE
  /\ close' = market.price /\ market' \in View
  /\ orders' = [i \in DOMAIN orders |-> [orders[i] EXCEPT !.live = FALSE]]
  /\ UNCHANGED <<strategy, stock, account, position, peak, flow, count>>
  /\ Watch

Loop(f) ==
  \/ ReadRisk(f) \/ ReadBalance(f) \/ WritePositions(f) \/ ReadPositions(f)
  \/ List(f) \/ SettleListed(f) \/ SettleAbsent(f) \/ EndPass(f)
  \/ ReadUnfilled(f) \/ CancelUnfilled(f)
  \/ EvaluateRules(f) \/ EvaluateV4(f) \/ EvaluationFails(f)
  \/ DropJob(f) \/ AdmitJob(f) \/ Post(f) \/ EndSubmit(f)
  \/ Fetch(f) \/ StoreFill(f) \/ StoreRestore(f) \/ StoreCarry(f) \/ StoreReset(f)
  \/ StoreMode(f) \/ StoreQuota(f)

Next ==
  \/ StartLoop \/ StartSync \/ StartManual \/ GuardManual \/ StartEdit
  \/ \E f \in Flow : Loop(f)
  \/ SaveSnapshot
  \/ \E i \in DOMAIN orders : Approve(i) \/ Decline(i) \/ Fill(i) \/ FillAtClose(i) \/ Die(i)
  \/ NextMinute \/ NextDay

Spec == Init /\ [][Next]_vars

-----------------------------------------------------------------------------
FlowPcs == {"idle", "guard", "risk", "balance", "upsert", "positions", "list", "pass", "unfilled",
            "cancel", "evaluate", "submit", "post", "fetch", "store", "snapshot"}

(* Properties.  The columns hold what their readers expect, and no share is *)
(* told to the strategy before the broker filled it.                        *)
TypeOK ==
  /\ strategy \in Strategy /\ day \in 1..MaxDay /\ minute \in 1..(Len(Timetable) + 1)
  /\ market \in View /\ close \in Nat
  /\ stock \in [quota : Nat, rules : Params, v4 : Ledgers]
  /\ account.qty \in Nat /\ account.avg \in Nat /\ account.cash \in Nat
  /\ position.qty \in Nat /\ position.avg \in Nat
  /\ \A i \in DOMAIN orders : /\ orders[i].status \in Status
                              /\ orders[i].told <= orders[i].filled
                              /\ orders[i].filled <= orders[i].s.qty
  /\ \A f \in Flow : flow[f].pc \in FlowPcs

Bought(d) == {i \in DOMAIN orders : orders[i].s.side = "BUY" /\ orders[i].day = d /\ orders[i].filled > 0}

(* momentum-breakout enters and daily-dca buys at most once a day, although *)
(* every minute evaluates anew: the orders found open, the executions of    *)
(* the day (hasExecutedToday) and the admission guard leave no gap between  *)
(* them, as the sync settles fills beside the loop.  A manual run that      *)
(* overlaps the loop, or for daily-dca any manual run, is left out.         *)
OneEntryADay ==
  (\/ strategy = "momentum-breakout" /\ ~audit.overlap
   \/ strategy = "daily-dca" /\ count.manual = 0)
    => \A d \in 1..day : Cardinality(Bought(d)) <= 1

AllTold == /\ \A i \in DOMAIN orders : orders[i].told = orders[i].filled
           /\ \A f \in Flow : ~Settling(f)
Quiet   == AllTold /\ ~audit.torn

(* A momentum-breakout holding has its entry date, on which the forced exit *)
(* of the next day and the trailing stop depend, once every fill was told.  *)
(* The date is cleared by any full exit, whatever is left: a holding of     *)
(* other shares than the strategy's own purchases, told in the order they   *)
(* were filled, is left out.                                                *)
HoldingIsDated ==
  (strategy = "momentum-breakout" /\ Quiet /\ ~audit.mixed /\ account.qty > 0)
    => stock.rules.entry # NoDay

Cost(o) == IF o.s.side = "BUY" THEN o.amount + (IF o.live THEN Remaining(o) * o.s.price ELSE 0) ELSE 0
Spent   == SumFunction([i \in DOMAIN orders |-> Cost(orders[i])])

Between == \A f \in Run : flow[f].pc \notin {"submit", "post", "fetch", "store"}

(* daily-dca never commits more than a share of the quota per day: what it  *)
(* spent, has working and carries over is paid for by the days so far,      *)
(* whichever of reset, carry and restore wrote last, unless one of them     *)
(* overwrote what another wrote since it read.                              *)
WithinPlan ==
  (strategy = "daily-dca" /\ Between /\ count.manual = 0 /\ count.edit = 0 /\ ~audit.torn)
    => Spent + stock.rules.carried <= day * (stock.quota \div Cycles)

\* What a fill that was told moved in the ledger: of a sale, when it is complete.
Booked(o) == IF o.s.side = "BUY" THEN -o.amount ELSE IF o.status = "FILLED" THEN o.amount ELSE 0

(* The cash of infinite-buy-v4's ledger is the quota plus what its sales    *)
(* brought less what its purchases cost and less the profits put aside:     *)
(* every fill is booked once, across passes, restarts of the cycle, mode    *)
(* changes and changes of the quota, unless a write overwrote another.      *)
LedgerFollowsFills ==
  (strategy = "infinite-buy-v4" /\ Quiet) =>
    stock.v4.cash = stock.quota + audit.seeded - audit.aside
                    + SumFunction([i \in DOMAIN orders |-> Booked(orders[i])])

\* Shares of a sale that is not complete: the ledger hears of none of them.
Unbooked(o) == IF o.s.side = "SELL" /\ o.status # "FILLED" THEN o.filled ELSE 0

(* Once every fill was told, the ledger knows how many shares the account   *)
(* holds but for sales filled in part, and no longer after it booked a sale *)
(* of more shares than it knew of; if it does not, the strategy refuses to  *)
(* evaluate until a user corrects it.                                       *)
LedgerKnowsHolding ==
  (strategy = "infinite-buy-v4" /\ Quiet /\ ~audit.short) =>
    stock.v4.known = account.qty + SumFunction([i \in DOMAIN orders |-> Unbooked(orders[i])])

(* conservative never has more than 30 % of the quota in shares, as its     *)
(* description says.                                                        *)
OnlyThirtyPercent ==
  strategy = "conservative" => 100 * account.qty * account.avg <= 30 * stock.quota
=============================================================================
