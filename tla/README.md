# A verification model of kis-trader-back

kis-trader-back trades stocks by itself through two brokers, KIS and Toss. It is one Node
process: NestJS services in one event loop, PostgreSQL behind Prisma, cron jobs, a GraphQL API
and Slack buttons. Only one process may trade (`src/README.md`, "운영 환경"), but within it
every `await` lets another handler run, and a process may die at any of them.

This directory holds TLA+ models of the parts where that matters most: the life of an order; the
clients that carry requests to the brokers; the strategies with the rows they trade by, live; and the
sessions that trade on paper. TLC checks instances of all of them, and TLAPS proofs cover the safety of
the order modules and of the clients, what the strategies order, the books of a session on paper, and the
rows and entries of a stock traded live. Paths below are relative to the repository; services without a path
are in `src/trading/`.

## 1. The system

| Component | State | Operations | What is hard, and what makes it correct |
|---|---|---|---|
| Admission guard (`trading-order-guard`) | none of its own; rows `TradeRecord` | `admit`: advisory lock on (broker, market, exchange, stock, side), then "no unresolved row", then create | concurrent admissions; *one unresolved row per key* |
| Automatic orders (`trading-order-execution`) | the row; the call in memory | admit, refresh position, claim by `submissionStartedAt`, re-check, POST once, persist the outcome | lost answers, crash around the POST; *no order posted twice, none forgotten* |
| Manual orders (`trade-record/trade-record-manual-order`) | the row | `manualSell` (same shape), `cancelTradeOrder` | races with crons and Slack |
| Sell approval (`trading-sell-approval`, `-workflow`) | `StopLossApproval` paired with a `TradeRecord` | request, deliver, expire; approve, reject, execute | Slack slower than the lease, double clicks; *the pair agrees, one click executes* |
| Submission, mutation errors (`trading-broker-order-submission`, `kis/kis-mutation.error`) | none | classify a POST as ACCEPTED, REJECTED or UNKNOWN | an answer that never comes is not a failure |
| Startup recovery (`trading-broker-order-recovery`, `trading.scheduler`) | the latch `recoveryReady` | take over leftover SUBMITTING orders and cancels; only then run crons | Slack is served before the takeover ends; the takeover may fail halfway |
| Operator resolution (`trading-broker-order-resolution`, `-matcher`) | `submissionResolution`, audit rows | link a broker order, confirm "not submitted", confirm "matches another row" | two operators, stale reads; *a decision is final, an order has one row* |
| Cancellation (`trading-order-cancellation`, manual cancel, `-cancellation-recovery`) | `cancellationStatus` | claim, re-read, POST, mark; inspect an unknown cancel | two cancellers; *one cancel at a time, the row is frozen meanwhile* |
| Reconciliation (`order-sync`, `trading-order-reconciliation`) | `status`, `executedQty`, `orderNo` | read executions, read unfilled orders, load rows, update, tell the strategy | overlapping passes with old snapshots; *closed means dead, each share told once* |
| Orchestrator and scheduler | `runningBrokerMarkets` mutex | a run per minute, broker and market; a run triggered by a user; the sync beside them | the sync tests `isBusy` and then awaits; a run reads positions, orders and cash at different moments; *a strategy enters once* |
| Strategy execution (`trading.service`) | `WatchStock.strategyParams` (quota carried over, v4 ledger, entry date, grid levels, exit plan) | evaluate, submit, handle a fill, reset or carry the quota | read-modify-write of one JSON column by several flows; *the ledger follows the fills, a day's share of the quota counts once* |
| Strategies (`strategy/*`) | none | context to signals: eight strategies | order of the rules, integer quantities, v4's turns and modes |
| Position sync and refresh | `Position` | upsert a balance, delete what it lacks | an old balance written last |
| Risk | `RiskSnapshot` | drawdown from the peak | the peak is stored after the run |
| Simulation (`simulation/*`) | `SimulationSession`, positions, trades, snapshots; the map of waiting orders | a tick per minute and market, a run triggered by a user, waiting orders, settings, reset | tick and manual run share no lock; a fill is four writes; *cash and shares are the sum of the trades* |
| Account cash sync | balance caches | refresh | |
| KIS client, Toss client (`kis/kis-auth`, `kis/kis-base`, `toss/toss-auth`, `toss/toss-base`) | token, Toss's account number, chains of the rate limit | GET with retries, POST without, a repeat after a refused token, one token request at a time | expiry of a token under concurrency, lost answers; *what is said of an order is true, every call returns* |
| Screening, market analysis, market data, DART, SEC, FRED, stock master, watch stocks, auth, backtest, web client | their own | CRUD, read-only retrieval, offline computation | no part in the life of an order |

Components meet in the rows of the database. A service reads a row, awaits (the broker, Slack,
another read) and then writes with `updateMany` on condition that some columns are still what it
read; the number of rows changed says whether it won. Most of the models are about which columns
are compared, and in which order broker and database are read.

`PROJECT.json` lists all components with what is modelled of each, and the hazards of the code
with their lines and the properties that cover them.

## 2. The modules

| Module | Models | Composed with |
|---|---|---|
| `OrderIntent` | what order submission promises: a slot per key, one order per intent, given up only when that order cannot work any more or an operator disowns it | abstract; implemented by `OrderSubmission` |
| `OrderSubmission` | a record from admission to its decided submission: automatic, manual and approved orders, crash, takeover, operator resolution | `INSTANCE OrderIntent` under the mapping `intentOf` |
| `OpenOrder` | an order that works at the broker, the row that follows it, overlapping reconciliation passes, cancels and inspections | continues where `OrderSubmission!Settle` is one step; `INSTANCE OrderReport` under the mapping `newsOf` |
| `OrderReport` | what following an order promises: shares are counted, become news and are told once, the row is closed when the order is over | abstract; implemented by `OpenOrder` |
| `SellApproval` | the pair of an approval and its trade record: requests, delivery, leases, cooldown, clicks | precedes `OrderSubmission!Approve` |
| `StrategyRules` | seven strategies as functions from a context to signals, and what their fills leave in `strategyParams` | used by `Simulation` and `LiveTrading` |
| `InfiniteBuyV4Rules` | the eighth, infinite-buy-v4, and its ledger | extends `StrategyRules`; used by `LiveTrading` |
| `LiveTrading` | a watch stock traded live: the minute's run, the order sync, a manual run, approvals, a change of the quota, and the broker | orders and passes here are the coarse form of `OrderSubmission` and `OpenOrder` |
| `Simulation` | a session on paper: tick and manual run, virtual execution, closing, settings, reset | |
| `BrokerClient` | the client of a broker: tokens, the shared issue request, the rate limit, repeats, answers | gives `OrderSubmission` its outcomes ACCEPTED, REJECTED, UNKNOWN |
| `MC...` | the instances for TLC | |
| `...Proofs` | theorems | |

### OrderSubmission

State: `status`, `started` (`submissionStartedAt` is set), `orderNo` and `resolution` are columns
of a row; `pc[r]` is the point at which the service call for record r stands between two awaits
(lost in a crash); `order[r]` is the one order that r may have POSTed, at the broker; `boot`,
`stale` and `staleUnsent` are the startup takeover with the rows it has read; `op` are the
operators' requests in progress. The three services share the actions because they share the
shape; they differ in what admits them (`AdmitAuto` behind the recovery latch, `AdmitManual` over
HTTP, `RequestApproval` then `Approve`) and in that the approved flow awaits a log write and
checks once more after its claim (`"logging"`). Outcomes of checks (live switch, broker active,
account context, position refresh, holdings) are inputs: the model takes either branch.

`status` is coarser than the column in two places. PARTIAL with an order number counts as
PENDING, as admission treats them. SETTLED is every status in which a *known* order ended, so
that CANCELLED means cancelled before the POST; that is what makes `CancelledNeverPosted` say
something. `AnswerUnknown` covers the timeout, the lost or malformed response and the response
without an order identity. `SetupFails` covers a submission that fails before the request leaves;
`FlowDies` an exception nobody catches.

### OpenOrder

One BUY order of `Q` shares. `ord` and `filled` are the truth at the broker; `row` is the record;
`pass`, `canc` and `insp` are flows with what they hold in memory. A pass takes its steps in the
code's order: executions (`ReadExecutions`), unfilled orders (`ReadUnfilled`), rows
(`LoadOpenRecords`), the branch for the row and its conditional update, then the strategy
(`TellStrategy`). `Update` is the `updateMany`, and each branch passes it what its `where`
compares: `TakeListing` all columns, the others not `executedQty`. A cancel is claimed, POSTed
only if the re-read row is what the caller found, and marked; `hit` says whether the POST met an
open order. `Executions` is what an adapter reports: `DeadListing` says whether a dead order
without fills is still listed, `DerivedRemaining` whether what remains is computed as ordered
minus filled (KIS) or reported.

`ApprovedSell` says that the row is older than its POST by the time of an approval. The grace of
two minutes in `CloseAbsent` counts from `createdAt`. `GraceEnds` is the only assumption on
timing: a row created right before its POST does not reach that age during a pass that asked the
broker before the POST; a pass takes seconds. For approved sells no such assumption would be true,
and the run `StaleSnapshot` shows what follows.

`OrderReport` is the same order without flows: no listings, no snapshots, no crashes, and of cancels only whether
one is in doubt. A row that is not closed may count more of what was filled (`Count`), which becomes news and may
close the row; it may fail without shares (`Fail`); while a cancel is in doubt neither happens, and an operator
may close it without news (`Settle`); news is told (`Tell`) or lost (`Lose`). `newsOf` maps to it the shares, or
the failure, that passes hold after an update that won. `ImplementsReport` asks more than the invariants: but for
an operator, nobody counts a share without making it news, whatever the two listings said, and a closed row keeps
its count and makes no news.

### SellApproval

`approval` and `trade` are the two rows of a request, `expiresAt`, `notifiedAt`, `respondedAt`
columns, `sentAt` the timestamp Slack gave the message, `clock` time in ticks. A request reads the
clock first (`requestedAt`), expires due pairs in one transaction, is admitted in another, and then
talks to Slack outside any transaction. `decide` is two steps: it reads the pair and the clock
(`ReadPair`), and claims both rows by conditional updates (`ClaimPair`), so that anything may
happen in between; the isolation is PostgreSQL's default. Expiry is always the pair or nothing.

### StrategyRules and InfiniteBuyV4Rules

A context `c` is a record of what the code gives a strategy (`StockStrategyContext`) as far as a
rule reads it. Indicators are inputs: a view of the market (`Views`) says whether a strategy's
data is `ready`, whether its conditions of entry hold (`setup`), whether its signal to leave does
(`turn`, `middle`), how much of the amount it may use (`scale`), and how wide its stop is (`swing`).
What is kept exactly is the order in which rules are tested (`FirstRule`), the thresholds on
gain, loss and drawdown, which branch suspends which other, the budgets, the quantities rounded down,
and the limit prices. Prices are integers (cents), a tick is one, ratios are integer divisions; parameters
have their defaults.

v4's turn `T` is a whole number of hundredths, rounded down. `V4Evaluates` is the check of the ledger
against the account, `NextMode` the change between NORMAL and REVERSE, `MainLegs`, `Ladder`,
`NormalSells` and `ReverseDay` the orders, `V4Fill` the ledger after a fill.

### LiveTrading

`stock` is the WatchStock row with `strategyParams` split into what rules and fills of most
strategies use (`rules`) and the ledger (`v4`); `position` is the Position row, `account` the truth at
the broker, `orders` the TradeRecord rows with their orders at the broker, `peak` the latest
snapshot's. A flow (`loop`, `manual`, `sync`, `user`) holds what it read. The loop follows
`executeBrokerMarket`: risk, positions, the forced pass of reconciliation, unfilled orders, cancelling
of yesterday's orders for once-daily strategies, context and evaluation, submission one order after the
other, reset or carry of the quota, snapshot. Each await is a step boundary where what was read may
become old. Every change of `strategyParams` is `Fetch` and then a `Store...`, and writes the
whole column.

The order's own life is coarse here: a POST is answered in one step (`Post`), a pass reads the broker
and the rows in one (`List`) and updates one row at a time, each with the fetch and store of the
strategy's handler behind it. Those two abstractions are what `OrderSubmission` and `OpenOrder`
justify in detail. The broker fills a limit order at its limit when the market crosses it, a market
order at the market, an auction order (LOC, MOC) at the close; it may drop any order, reserves cash and
shares for working ones, and forgets what a day leaves unfilled. `Die` and `NextDay` are what an operator
or the exchange does.

`audit` is history only: whether a write of the column overwrote another (`torn`), whether the loop
and a manual run overlapped, whether the holding ever was more than the strategy's own purchases, told in
the order they were filled (`mixed`), whether the ledger booked a sale of more shares than it knew of
(`short`), what v4 put aside. Nothing but the properties reads it.

### Simulation

`session`, `position`, `pending` are the rows and the map of waiting orders, `trades` the sums over
executed trade rows. `run` holds the two flows that execute the same code: the scheduler's tick, under
the market's mutex, and the manual run, under none. `Book`, `RecordTrade`, `WritePosition`, `MoveCash`
and `Remember` are virtualExecute write by write. A position created twice or updated after it is gone
throws, which ends the flow (`WritePosition`). The cash is moved by increments, the position written as
computed from what was read, `strategyParams` written whole by `EndTick`. `live` says that a flow walks the
very array the map holds, so that an order appended meanwhile is walked as well. `user` is a change of
the settings or a reset between its read and its write.

### BrokerClient

A behaviour is about the client of KIS or that of Toss. `call` holds the requests in memory, each at an
await of `request` or `post`: `headers`, `account` and `token` (waiting for a request of somebody else),
`ready`, `queued`, `sent`, `paused` (before a retry). Toss's request for its account number is a caller of
its own (`Account`), and so is the wish of KIS's module for a token when it starts (`Boot`). Tokens are
numbers in the order of issue: those up to `lapsed` are past the expiry the client reckons with, those up
to `dead` are refused by the broker, which may be earlier. `promise` is the shared issue request, named
after the caller that started it, and `flight` what that request awaits: the row in the database, the broker,
or the saving of the row; `Settle` ends it for all who joined. `queue` holds the chains of the rate limit, one
for KIS, one per group of Toss. Who sends is served by the broker in the same step (`Served`, external), which
executes an order or not and may lose the answer.

Left out: the lengths of the intervals and delays, and how a response is parsed. An answer that cannot be
verified counts as `fault`, like a lost one; for a GET of KIS, `fault` stands for the errors `isRetryable`
accepts, the others for `rejected`.

## 3. What the runs check

| Run | Instance | Properties |
|---|---|---|
| `OrderSubmission` | a record of each kind, one key, two operators; crashes unbounded | `TypeOK`, `OneUnresolvedPerKey`, `NoDuplicateOrder`, `NoForgottenOrder`, `PostedAtMostOnce`, `OrderLinkedOnce`, `ReadyMeansTakenOver`, `UnknownLeftByOperator`, `ResolvedOnce`, `ImplementsIntent` |
| `Reconcile` | `Q = 3`, two passes, one canceller, one inspector, one fault | `ClosedMeansDead`, `UncancelledCountsFills`, `ShareHeardOnce`, `FailureHeardOnce`, `ExecutedOnlyGrows`, `ImplementsReport` |
| `Cancel` | `Q = 2`, two passes, two cancellers, one inspector, one fault, the listings of KIS; fair | `CancelExclusive`, `AttemptFreezesRow`, `AcceptedCancelSettles`, `FillsReachStrategy` |
| `SellApproval` | two requests of an instrument, two clicks, leases of 2 ticks, cooldown 3, clock to 5 | `TypeOK`, `PairConsistent`, `OneExecution`, `DecidedWithinLease`, `CooldownKept` |
| `Simulation` | momentum-breakout, grid-mean-reversion, daily-dca, infinite-buy; two days of two minutes, three views of the market, one manual run, one change by the user | `TypeOK`, `CashIsTradeSum`, `SharesAreTradeSum`, `NoOverdraft`, `OnceDailyBuysOnce` |
| `LiveTrading` | momentum-breakout and daily-dca; two days of two minutes, prices 100 and 150, two orders, one manual run | `TypeOK`, `OneEntryADay`, `HoldingIsDated`, `WithinPlan` |
| `InfiniteBuyV4` | infinite-buy-v4 with N = 4, from one share and from a used-up ledger; two days of one minute and a closing auction, two orders, one change of the quota | `LedgerFollowsFills`, `LedgerKnowsHolding` |
| `BrokerClient` | KIS and Toss; one order, one read, the account request and the start; tokens lapse or are dropped three times, one restart; fair | `AnswersAreTrue`, `EveryTokenIsNeeded`, `EveryCallReturns` |
| `DeadOrder`, `StaleSnapshot`, `EntryLost`, `SecondEntry` | see section 5 | one violated property each |

**Bounds.** Records are created once and only interact through their key, and each kind has its
own path, so three records on one key show every pair of kinds competing while a third watches;
the theorems of section 4 remove that bound. Two operators are enough for a race on the final
update, since it compares with the row only. In `OpenOrder`, `Q = 2` is the least that tells
no fill, a partial fill and a full one apart; with `Q = 3` a partial quantity can change while the
status stays PARTIAL, which is when only the comparison of `executedQty` keeps two passes apart; two passes
are what the code can overlap (the 15-second sync and the forced sync of a run or the daily
summary). `Cancel` runs under `ApartSpec`: its second pass overlaps the first only while no cancel was tried,
a bound on effort; `Reconcile` has passes and cancels all at once. `MaxFaults` bounds crashes and failed passes; one is enough to leave each kind of
leftover, since the restart treats leftovers independently of how many crashes came before. In
`SellApproval` a cooldown longer than both leases, as in the code (30 minutes against 2 and 10),
and a clock that outlasts one cooldown let a second message be due. `SYMMETRY` is used only in runs
without liveness, over values that no definition singles out.

In `Simulation` and `LiveTrading` two days are what a carried quota, an entry of yesterday and a
once-a-day rule need; two minutes let a second evaluation follow a fill. The views are chosen so that
each strategy enters, is stopped, and reaches its target. Two orders are the entry and the exit, or the
second entry that must not be; `Lots` is the whole order (`PartFills = FALSE`), since partial fills of one
row are what `OpenOrder` is for. In `InfiniteBuyV4` the two ledgers reach what a new one would only after
weeks: the final sale that ends a cycle (one share), and REVERSE and the way back (eight shares, nothing
left to buy with).

`CONSTRAINT`s cut states about which the properties of the run say nothing, and each is monotone: once
false it stays so, hence no state that matters lies behind one that is cut. `Relevant` of `Simulation` drops
histories in which a user changed the session in the middle of a run or a fill threw, and follows an overlap
of the two flows to the end of the first day; that of `LiveTrading` drops overlaps of loop and manual run, and
follows a manual run to the end of the first day (two bounds on effort, not on meaning). `NotTorn` drops lost
updates of the ledger. The `VIEW` of `InfiniteBuyV4` leaves out variables that infinite-buy-v4 never asks for
(drawdown, peak, what the run bought).

In `BrokerClient` four callers share a token (two calls, the account request, the start), enough for one to
start an issue request, one to join it and one to wait for the account behind both; three lapses let a token
go while it is being issued and again under the repeat; a restart finds KIS's row with a token that is good,
past, or refused.

**Deadlock** is checked in every run of the order modules. `LiveTrading` and `Simulation` stop at the end
of the last day, and `BrokerClient` when its calls are done, so it is not checked there.

**Fairness.** `OpenOrder!FairSpec` is weakly fair to each pass
(a cron starts one every 15 seconds while orders are open, and the loop finishes it), to
`Persist`, to `Restart` (Docker restarts the container), to `GraceEnds` (time passes) and to the
death of an order whose cancel the broker accepted, an assumption on the broker. `BrokerClient!FairSpec` is
weakly fair to every step of a call and of an issue request: the event loop runs them, timers fire, and a
request is answered or ends by its timeout of ten seconds. The issue request of KIS has none
(`kis/kis-auth.service.ts:130`), so that it ends is an assumption on the network; without it every caller
would wait for as long as it does. `OrderSubmission`, `SellApproval`, `LiveTrading` and
`Simulation` have no fairness: they state safety only. Nothing is assumed
of operators, cancellers, fills or clicks. `AcceptedCancelSettles` and `FillsReachStrategy` are checked over
the listings of KIS: dead orders stay listed, and what remains is derived. `FillsReachStrategy` states its
exceptions: after a crash or a failed pass it promises nothing, since a crash between the update of a row and
the call of the strategy does lose that call, and it ends where a cancel attempt freezes the row (only an
operator goes on from `UNKNOWN`) or has closed it. After a refused cancel it holds again.

## 4. What is proved

TLAPS checks the following for all values of the constants. Assumptions: those the modules name
(`KeyAssumption`, `NoOrderAssumption`, `KindsAssumption`, `QuantityAssumption`, `FlagsAssumption`,
`InstrumentAssumption`, `NoReqAssumption`, `LeaseAssumption`, `NoDayAssumption`, `StrategyAssumption`,
`CapitalAssumption`, `ViewAssumption`, `TimetableAssumption`, `BrokerAssumption`, `CallAssumption`,
`SeedAssumption`, `FlagAssumption`, `BoundAssumption`), all typing of constants but for one clause, and one
that single theorems about `OpenOrder` state themselves. The clause is that a day has one minute in which a
once-a-day strategy is due (`TimetableAssumption` of `LiveTrading`): `shouldExecuteNow` compares the time with one.

* `OrderSubmissionProofs`: all safety properties of the run `OrderSubmission`, `CancelledIsFinal`, that a row
  cancelled before submission never has an order, and `Refinement`, that the specification implements
  `OrderIntent`. `IntentKeepsPromise` is about `OrderIntent` alone, at most one working order per key, and
  does not look into the mapping; `SubmissionKeepsPromise` puts the two together: the services keep the promise.
* `OpenOrderProofs`: all safety properties of the runs `Reconcile` and `Cancel`, for any quantity, any
  number of passes, cancellers and inspectors, and every adapter; `TypeCorrect`, its type invariant; and
  `ImplementsOrderReport`, that it implements `OrderReport`. `ReportKeepsPromise` is about `OrderReport` alone, and
  `OrderKeepsPromise` puts the two together. `ClosedIsDead`, `UncancelledCounts` and the refinement
  assume `ApprovedSell = FALSE`; the run `StaleSnapshot` shows that they need to. The others, among them
  `SharesToldOnce`, `FailureToldOnce` and `ExecutedGrows`, hold without. `ExecutedGrows` leaves out no writer
  but the one that section 5 names.
* `SellApprovalProofs`: all properties of the run `SellApproval`, and `DecisionsStand`, that a decision is
  never changed.
* `BrokerClientProofs`: `ClientTellsTheTruth` and `TokenIsShared`, the safety properties of the run, for any
  number of calls, and `TypeCorrect`.
* `StrategyProofs`: `SignalsCovered`, each of the seven strategies orders a positive number of shares, sells no
  more than the holding and buys for no more than the cash, in every context; `InfiniteBuysFit`, the two orders
  infinite-buy places together fit the cash as well; `V4SignalsCovered`, the same for infinite-buy-v4, all of
  whose purchases of a day, two legs and three steps of the ladder, fit the cash together.
* `LiveTradingProofs`: `LiveTradingSafe`, the inductive invariant `ISafe`, for any strategies, prices, timetable,
  seeds and numbers of orders, days, manual runs and edits; `LiveTradingTyped`; `LiveTradingOneEntry`, that
  momentum-breakout and daily-dca buy at most once a day; `LiveTradingDated`, that a momentum-breakout holding has
  its entry date; and `LiveTradingBooks` and `LiveTradingKnows`, that the ledger of infinite-buy-v4 follows every
  execution in cash and in shares.
* `LiveTradingPlanProofs`: `LiveTradingWithinPlan`, that a daily-dca stock spends and carries over at most a share
  of its quota a day. With it every invariant of every passing run is a theorem.
* `SimulationProofs`: `SessionTypeCorrect`, `SimulatedCashAddsUp`, `SimulatedSharesAddUp` and
  `SimulatedCashIsEnough`, the safety of the books of a session, for any strategies, capital, views and timetable;
  and `SimulatedOnceADay`, that a once-daily session buys at most once a day while its flows take turns.

**The argument for OrderSubmission.** The safety properties are not inductive: `NoForgottenOrder`,
for one, fails after a step from a (not reachable) state in which a flow POSTs for a row that is
closed. `IInv` adds what ties memory, row and broker together. `FlowOK`: what each point of a flow says
of its row and order (before the claim nothing is started; after it the row was claimed and is not
cancelled; before the POST there is no order). `RowOK`: what each status says of the other columns and
of the order, in particular that a closed row nobody disowned has no working order. `LinkOK` and `OpOK`:
orders that rows name, or that an operator has seen, exist at the broker. `LeftoverOK`: a SUBMITTING row
without a flow is in the takeover's snapshot until it is handled, so none is left when crons may run. With
`TypeOK`, `OneUnresolvedPerKey` and `OrderLinkedOnce` this is inductive. There is one lemma per
action, with one step per conjunct; the theorems then follow from `IInv`, the action properties
(`UnknownIsSticky`, `ResolutionIsFinal`) by a case split over `Next`. `Refinement` maps each action
to a step of `OrderIntent` or a stutter: `OneUnresolvedPerKey` and the admission guard give the guard of
`Open`, `RowOK` and `FlowOK` that of `Close`.

**The argument for OpenOrder.** What a flow holds in memory is old, so the invariant says what an old
answer is still worth. `SnapshotOK`: an order that was listed exists, has at least the listed fills, and if
nothing remained or it was rejected it is over. `PassOK` and `InspOK` add what the absence of an answer
says: a pass that asked after the POST and found no listing has seen a dead order without fills; one
that asked before (`early`) has not seen the grace end, which is where `ApprovedSell` matters. `RowOK`
ties the columns together: only an open row has an attempt that is under way, unknown or accepted, a PENDING one counts no share, and no row counts
more than were filled. An update that wins therefore found an open row without an attempt (`SameOpen`), and
`UpdateInv` reduces the three updating branches to what they write. `ToldOK` and `FailedOK` are
`ShareHeardOnce` and `FailureHeardOnce` together with the news that passes still have to tell: no two passes
have the same share to tell, an open row counts all shares told or to be told, so that a pass that
raises `executedQty` has only new ones, and a failure is news only of a row that is closed. A
pass that read the same fills as another loses its update, and that is why the order of update and
telling is the right one. `ImplementsOrderReport` maps a step that wins its update to `Count` or `Fail`
(`UpdateSeen`), a `CloseInspected` to `Settle`, and a `TellStrategy` to `Tell` (`TellSeen`), where `ToldOK` says that
what one pass tells no other one still holds; what writes only the attempt is a `Cancel`
(`AttemptSeen`), and every other step is invisible or, if it ends a pass with news, a `Lose`. That the row was not closed is `SameOpen`, that it may be closed now is
`ClosedMeansDead` of the next state. `ReportKeepsPromise` has its own small invariant `ReportInv`.

**The argument for SellApproval.** `IInv` adds `CallOK` (what the point of a call says of its pair),
`LeaseOK` (a stored delivery implies the lease counted from the message), `OneOpenPair` (the
admission guard), `ClickOK` (a click that claims has read a stored delivery, not later than its clock) and
`PairsOrdered`: of two pairs of an instrument one was over, and its cooldown too, when the other was
called. The last one gives `CooldownKept`, although a request reads its clock before it takes the lock: a
delivery is stored only while its own pair is pending, hence never on a pair that another one
has already followed.

**The argument for BrokerClient.** `OrderOK` says what each point of a call of an order knows of the broker:
nothing is executed before it is sent, nothing after an answer that rejects or refuses, and so nothing when
the call goes back to its headers for a second try. `FlightInv`: only the caller `promise` names has an issue
request under way, and while that request reads the row or asks the broker no token in memory is good; after
the row was read there was none in it either, unless the database failed. Each `Settle` answers exactly those
who joined, who were all waiting. `AnswersAreTrue` is read off `OrderOK`, and `EveryTokenIsNeeded` off
`FlightInv`, since only `IssueToken` issues.

**The argument for Simulation.** The inductive invariant is `Books`: `TypeInv`, `RunTurns`, `CashInv`, `SharesInv`
and `FundsInv`. `TypeInv` needs what `StrategyProofs` shows of signals, that every order is for a positive
quantity, and a positive quota, so that no division is by zero. `RunTurns` relates what the history says of
overlap and changes by a user to which flows are idle: while they take turns, what a flow has read is still
what the rows hold. `CashInv` and `SharesInv` then say which of the writes of a fill are done, and that
the sums over the trades differ from the rows by exactly the others; `FundsInv` that the cash still covers a
fill that was checked.

`OnceDailyBuysOnce` needs `Rounds`, over `Books`. Only a trade of the day stops a second evaluation, so the first
purchase of a tick has to be executed before anything else is decided. It is: `FirstPurchase` shows that when a
once-daily strategy buys, the first order is a purchase at the quote, for no more than the cash the flow read
(of the two orders of infinite-buy the upper one comes first, `InfiniteHead`), and while the flows take turns
that cash is the row's. So after the evaluation either the purchase is on its way to its trade row (`Ordering`) or
the last trade is of today. The argument does not ask how often the timetable is due.

**The argument for LiveTrading.** `ISafe` is what the flows share. `RowOK`: what each status says of the order
at the broker (an order works only while its row is open and its number known, a row that waits for an approval
or a POST has no order, a closed one without fills never will). `OneUnresolved`: the admission guard, in spite of
the loop, a manual run and approvals, leaves one unresolved order per side. `SalesCovered`: the working sale fits
the shares of the account. `FlowInv` is about memory: a row in the listing of a pass is a former state of the row
now (`Follows`), so that what a pass tells is a fill that happened; a flow is at a point its code has, and a store
knows why it is there. The proof has a lemma per action, and for each step of a flow one about the flow and one
about the rows.

`OneEntryADay` needs `Momentum` and `Dca`. A run that has a purchase to submit has seen that no purchase of the
day was executed or still may be (`NoEntryToday`), and nobody makes one before it is submitted: approvals only
create sales, the pass only closes rows, and the other run is idle unless they overlapped. For daily-dca, which
asks only for open orders and today's executions, the argument is the clock: its due minute lies ahead until
today's evaluation (`Ahead`), and no purchase of the day exists before. Most actions add no order and revive
none (`QuietRows`), which is shown once for each.

`HoldingIsDated` and the ledger are about news: what was executed, what a pass has counted (`told`) and what it is
still to tell the strategy (`Told`). Only `SettleListed` takes news up, only `StoreFill` delivers it, and only the
broker makes it; `SameFills` and `SameNews` say that of every other step, once for each. `Dates` strengthens
`HoldingIsDated`: while a completed sale is untold the account is empty, and a holding without a date has an untold
purchase. `Ledger` strengthens both books: cash is quota, plus what the orders counted as told moved, less what a
flow holds undelivered (`Balanced`). The cash of a purchase that is told in parts is the average price of the
whole times the part, so `Prices` is needed as well: all shares of an order have one price, because a LIMIT order
is filled at its own and an auction fills once. A write is on the column the flow read unless `torn` says that a
change was lost; `Read` adds that nobody but the user changes the quota while the user's flow holds it.

`WithinPlan` needs `Plan`, over `ISafe` and `Dca`. It is not inductive because money is promised before it is
spent: an order without fills costs nothing once it is dead, but the pass that reports it dead returns a whole
share to the column. So an order claims the greater of its cost and a share while that may happen (`Claim`), a
flow on its way to return one claims it (`Returned`), and the sum `Used` bounds what is spent. `Budget` is the
course of a day: while today's evaluation lies ahead or under way, `Used` and what is carried, in the column and as
the run read it, come to `day - 1` shares; the purchase may use both today's share and what was carried up, and
from its acceptance to the write that resets the column the claims alone come to `day` shares. `Steady` is what this relies on:
nobody changes the quota, a purchase is a LIMIT order and is billed at its price, and a run knows whether it
bought. Passes, cancellations, executions and approvals never raise a claim (`MildRows`), so `Used` only falls
(`UsedFalls`) but for one accepted purchase a day, which `Dca` gives, and for a restored share, which takes the
place of the claim of the dead order. `DcaPays` is the arithmetic of `DailyDcaStrategy` with its carry-over: what it
orders costs no more than a share and what is carried.

**Only model-checked.** The liveness properties, `FillsReachStrategy`, `AcceptedCancelSettles` and `EveryCallReturns`: liveness under fairness is out of reach of TLAPS. The action
properties are theorems.

## 5. Where the code and its own words disagree

1. `StaleSnapshot`. A pass that read the broker before a just-approved sell was POSTed loads the
   row after it was persisted, does not find the order in the old listing, and closes it as
   CANCELLED: the grace counts from `createdAt`, which is the time of the *request* for an approved sell
   (`trading-order-reconciliation.service.ts:171-211`; the comment at line 208 says the cancellation
   without a fill is confirmed). The key is free while the order works.
2. `EntryLost`. A simulation tick reads `strategyParams` once and writes them back, merged with its
   evaluation, when it ends (`simulation/simulation-tick-engine.service.ts:354`). A market order that the
   tick filled in between has stored its entry date there, which that write removes: neither the forced
   exit of the next day nor the trailing stop works on that position. Grid levels and infinite-buy's second
   target go the same way. The comment at line 811 says the base of the trailing stop is recorded as in live
   trading, where each change reads the column anew.
3. `SecondEntry`. `executeBrokerMarket` reads the positions and then forces a sync
   (`trading-orchestrator.service.ts:488-496`) that settles fills of the minute before: the position of
   the run is still empty, the order no longer open. conservative, which asks neither what was traded today nor
   keeps an entry of its own, buys a second 30 % of the quota; its description allows 30 % in all
   (`strategy/conservative.strategy.ts:47`). grid-mean-reversion is open to the same; the others ask
   for today's executions.
4. `DeadOrder`. An order that dies without fills, cancelled outside of the program or expired, should become
   CANCELLED (`docs/multi-broker-spec.md:150`, of Toss). The adapter maps it so and lists closed orders
   (`toss/toss-broker.service.ts:139,334`), but a pass takes the status from the shares and the rejection alone
   (`trading-order-reconciliation.service.ts:364-375`): the row stays PENDING, which blocks its key, and the
   branch that closes an absent order is never reached. KIS lists such orders as well
   (`kis/kis-order-history.service.ts:200,249`), and a domestic one that is partly filled stays open too, because
   what remains of it is derived. A cancel by the program closes the row only if the broker accepts it, as it
   does for an open order.

Known limits that TLC shows when an instance is changed, and that are kept out of
the runs by the parameters named:

* `ClosedCountsFills` (without `UncancelledCountsFills`'s condition) fails in `Reconcile`: executions are read
  before unfilled orders, and a fill in between closes an accepted cancel with too few shares.
* `ExecutedOnlyGrows` without its exception fails with two inspectors and `Q = 3`: one finds the cancel not
  accepted, a pass counts more shares, a second cancel ends in doubt, and the other inspector, whose listing is
  older, closes the row, because its conditional update does not compare `executedQty`
  (`trading-broker-cancellation-recovery.service.ts:291`). With one inspector the exception does not occur.
* `LedgerFollowsFills` without its condition on `torn` fails: two flows that change `strategyParams` at once lose one change.
* `HoldingIsDated` without its condition on `mixed` fails with three orders: the loop of the next day reads the
  positions, its pass then tells a purchase that was filled late, the strategy, which asks for today's executions
  only, enters again, and the exit of the older quantity clears the date of what remains. It also fails for an
  account that held shares before the strategy began.
* `WithinPlan` without its condition on `torn` fails with three days: a pass that restores the quota of a dead
  order writes a column it read before the loop reset it.
* `LedgerKnowsHolding` counts what a sale filled in part and then cancelled as unbooked, because the handler is told
  of complete sales only (`trading-order-reconciliation.service.ts:523`); without its condition on `short` it fails
  when a sale is larger than the shares the ledger knows, since the ledger stops at zero.
* With `StoreQuota` in the middle of a day, the cash of the v4 ledger may become negative, when the quota is
  lowered while an order works.

Two behaviours of the clients are part of `BrokerClient` and contradict none of its properties:

* KIS renews a token when a request finds it past (`kis/kis-auth.service.ts:64`), not before it expires as
  `docs/kis-api-setup.md:51` has it, and keeps one that the broker refuses until then: in `BrokerClient` a call
  may be sent with a token that ran out while it waited in the chain, and a GET is repeated with the same header.
* Toss drops whatever token is in memory when a request is refused (`toss/toss-base.service.ts:75`): a late
  refusal of an old token removes a newer, good one, and another is issued. `EveryTokenIsNeeded` speaks of the
  token in memory.

## 6. Not modelled

Left out of the modelled components: the content of messages, audit rows and alerts, the reading of
broker responses, and the quantity clamp of an approved sell in `OrderSubmission` (`LiveTrading!Approve` has it).
The ten-minute window of the matcher is left out, so every order of the key is a candidate: more than
the code offers.

* infinite-buy live. Its fills submit orders themselves (the second target) from within a pass; the
  strategy is checked in `Simulation`, where its fills only store the plan.
* The portfolio sync every ten minutes, EOD summaries, several stocks, brokers and markets at once:
  `LiveTrading` has one stock of one broker, whose rows no other stock touches except the account's cash.
* In the clients: intervals of the rate limit, paging of the order history, resolution of Toss's venues, parsing.
* momentum-breakout on daily bars, parameters of strategies other than their defaults, and the ways in which
  indicators are computed: numbers that enter as views.
* Screening, market analysis and regime, DART, SEC, FRED, market data, stock master: pipelines that
  retrieve, score and store; no state that two flows share, and no decision on orders.
* Watch-stock CRUD (but for the quota and the conversion to v4), queries, authentication, backtest, Slack
  presentation and the web client. The last alone is more than a quarter of the repository; together these are most
  of its lines, which is why the models cover a small share of the lines and most of what decides on an order.
