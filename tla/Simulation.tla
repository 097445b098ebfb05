------------------------------ MODULE Simulation ------------------------------
(***************************************************************************)
(* One simulation session: a strategy trading on paper.                    *)
(*                                                                         *)
(* Two flows run the same code against the same row.  The scheduler starts *)
(* a tick each minute, one at a time per market; a user may trigger a run, *)
(* which takes no such lock.  Both first try the orders that wait in a     *)
(* process-local map, then evaluate the strategy and execute or queue its  *)
(* signals.  Every database call is an await, at which the other flow, the *)
(* closing snapshot, or a change of the session's settings may get in.     *)
(*                                                                         *)
(* A day is a sequence of minutes; the scheduler starts at most one tick   *)
(* in each, and the market moves between them.  Failed trades are rows     *)
(* nothing reads, and the cycle column is only displayed: neither is       *)
(* modelled.  COMPLETED stops a session exactly as PAUSED does.            *)
(***************************************************************************)
EXTENDS StrategyRules

CONSTANTS
  Strategy,     \* the strategies a session may use
  Quota,        \* the capital it starts with
  Quotas,       \* the amounts a user may set it to later
  Cycles,       \* maxCycles
  StopLoss,     \* stopLossRate in percent
  View,         \* what the market may show when it is asked
  Timetable,    \* the slot of each minute of a day
  MaxDay,       \* bound on the days
  MaxManual,    \* bound on manual runs
  MaxEdit       \* bound on changes by the user

ASSUME StrategyAssumption == Strategy \subseteq Strategies
ASSUME CapitalAssumption == /\ Quota \in Nat \ {0} /\ Quotas \subseteq Nat \ {0}
                            /\ Cycles \in Nat \ {0} /\ StopLoss \in 0..99
ASSUME ViewAssumption == View \subseteq Views
ASSUME TimetableAssumption == Timetable \in Seq(Slots)
ASSUME BoundAssumption == MaxDay \in Nat /\ MaxManual \in Nat /\ MaxEdit \in Nat

VARIABLES
  strategy,     \* strategyName
  day, minute,  \* the clock; after the last minute the market is closed
  cron,         \* the minute's cron job has not fired yet
  market,       \* what the market shows in this minute
  session,      \* SimulationSession: status, cash, quota, par (strategyParams)
  position,     \* SimulationPosition; qty 0: no row
  trades,       \* executed SimulationTrade rows, summed: net cash, net shares, last day
  peak,         \* peakValue of the latest snapshot; 0: none
  pending,      \* pendingOrders.get(session)
  run,          \* the two flows
  user,         \* a reset or a change of the settings in progress
  count,        \* what has been used of the bounds
  audit         \* history: what happened so far that the code does not record

vars == <<strategy, day, minute, cron, market, session, position, trades, peak, pending,
          run, user, count, audit>>

Flow == {"tick", "manual"}
Other(f) == IF f = "tick" THEN "manual" ELSE "tick"

NoPosition == [qty |-> 0, avg |-> 0, mark |-> 0]
NoTrades   == [net |-> 0, shares |-> 0, last |-> NoDay]

(* A flow: the rows it has read, the signals or orders it still has to      *)
(* handle (the first is being handled), and for the pending loop the orders *)
(* to keep, and whether the array it walks is still the one in the map.     *)
IdleRun == [pc |-> "idle", cash |-> 0, par |-> NoParams, held |-> NoPosition,
            peak |-> 0, quote |-> 0, jobs |-> <<>>, kept |-> <<>>, live |-> FALSE,
            old |-> NoPosition, loop |-> "idle", after |-> NoParams, write |-> FALSE]

IdleUser == [pc |-> "idle", cash |-> 0, quota |-> 0, par |-> NoParams, new |-> 0]

Open == minute <= Len(Timetable)
Slot == IF Open THEN Timetable[minute] ELSE "closed"
Job(f) == Head(run[f].jobs)
Worth(p) == p.qty * p.mark

Becomes(f, r) == run' = [run EXCEPT ![f] = r]
Both(f, r, o) == run' = [run EXCEPT ![f] = r, ![Other(f)] = o]
Unlinked(r)   == [r EXCEPT !.live = FALSE]
Go(f, pc)     == Becomes(f, [run[f] EXCEPT !.pc = pc])
Stop(f)       == Becomes(f, IdleRun)

(* History.  overlap: both flows were at work at once; raced: a flow and a  *)
(* change by the user were; aborted: a fill stopped after its trade row;    *)
(* rounds: evaluations of this day that ordered a purchase.                 *)
NothingYet == [overlap |-> FALSE, raced |-> FALSE, aborted |-> FALSE, rounds |-> 0]

AbortsFill(f) == run[f].pc = "position" /\ run'[f].pc = "idle"
OrdersPurchase(f) == /\ strategy \in OnceDaily
                     /\ run[f].pc = "decide" /\ run'[f].pc = "act"
                     /\ \E i \in DOMAIN run'[f].jobs : run'[f].jobs[i].side = "BUY"
Watch == audit' =
  [overlap |-> audit.overlap \/ \A f \in Flow : run'[f].pc # "idle",
   raced   |-> audit.raced \/ (user'.pc # "idle" /\ \E f \in Flow : run'[f].pc # "idle"),
   aborted |-> audit.aborted \/ \E f \in Flow : AbortsFill(f),
   rounds  |-> IF day' # day \/ user'.pc = "reset" THEN 0
               ELSE audit.rounds + (IF \E f \in Flow : OrdersPurchase(f) THEN 1 ELSE 0)]

Init == /\ strategy \in Strategy
        /\ day = 1 /\ minute = 1 /\ cron = TRUE /\ market \in View
        /\ session = [status |-> "RUNNING", cash |-> Quota, quota |-> Quota, par |-> NoParams]
        /\ position = NoPosition /\ trades = NoTrades
        /\ peak = 0 /\ pending = <<>>
        /\ run = [f \in Flow |-> IdleRun]
        /\ user = IdleUser
        /\ count = [manual |-> 0, edit |-> 0]
        /\ audit = NothingYet

-----------------------------------------------------------------------------
(* The scheduler's minute (executeSimulations): the market's mutex is the   *)
(* flow itself, so a minute that finds it busy is lost.                     *)
StartTick ==
  /\ Open /\ cron
  /\ cron' = FALSE
  /\ run["tick"].pc = "idle" /\ session.status = "RUNNING"
  /\ Go("tick", "mark")
  /\ UNCHANGED <<strategy, day, minute, market, session, position, trades, peak, pending, user, count>>
  /\ Watch

(* updatePositionPrices: only the price columns are written.                *)
MarkPosition ==
  /\ run["tick"].pc = "mark"
  /\ position' = IF position.qty > 0 THEN [position EXCEPT !.mark = market.price] ELSE position
  /\ Go("tick", "pending")
  /\ UNCHANGED <<strategy, day, minute, cron, market, session, trades, peak, pending, user, count>>
  /\ Watch

(* triggerSessionNow takes no lock and asks for no market hours.            *)
StartManual ==
  /\ run["manual"].pc = "idle" /\ count.manual < MaxManual
  /\ session.status = "RUNNING"
  /\ count' = [count EXCEPT !.manual = @ + 1]
  /\ Go("manual", "pending")
  /\ UNCHANGED <<strategy, day, minute, cron, market, session, position, trades, peak, pending, user>>
  /\ Watch

AfterPending(f) == IF f = "tick" THEN "load" ELSE "guard"

(* checkPendingOrders walks the array it found in the map, at one quote     *)
(* asked for before the walk (0: none could be had, and every order stays). *)
CheckPending(f) ==
  /\ run[f].pc = "pending"
  /\ \/ /\ pending = <<>>
        /\ Go(f, AfterPending(f))
        /\ UNCHANGED pending
     \/ /\ pending # <<>> /\ session.status # "RUNNING"
        /\ pending' = <<>>
        /\ Both(f, [run[f] EXCEPT !.pc = AfterPending(f)], Unlinked(run[Other(f)]))
     \/ /\ pending # <<>> /\ session.status = "RUNNING"
        /\ \E q \in {market.price, 0} :
             Becomes(f, [run[f] EXCEPT !.pc = "walk", !.quote = q, !.live = TRUE,
                                       !.jobs = pending, !.kept = <<>>])
        /\ UNCHANGED pending
  /\ UNCHANGED <<strategy, day, minute, cron, market, session, position, trades, peak, user, count>>
  /\ Watch

CanFillAtPrice(s, quote) ==
  \/ s.price = 0
  \/ s.side = "BUY" /\ quote <= s.price
  \/ s.side = "SELL" /\ quote >= s.price

WalkPending(f) ==
  /\ run[f].pc = "walk" /\ run[f].jobs # <<>>
  /\ IF run[f].quote > 0 /\ CanFillAtPrice(Job(f), run[f].quote)
     THEN Becomes(f, [run[f] EXCEPT !.pc = "book", !.loop = "walk"])
     ELSE Becomes(f, [run[f] EXCEPT !.jobs = Tail(@), !.kept = Append(@, Job(f))])
  /\ UNCHANGED <<strategy, day, minute, cron, market, session, position, trades, peak, pending, user, count>>
  /\ Watch

\* The map gets what the walk left over, whatever became of it meanwhile.
EndWalk(f) ==
  /\ run[f].pc = "walk" /\ run[f].jobs = <<>>
  /\ pending' = run[f].kept
  /\ Both(f, [IdleRun EXCEPT !.pc = AfterPending(f)], Unlinked(run[Other(f)]))
  /\ UNCHANGED <<strategy, day, minute, cron, market, session, position, trades, peak, user, count>>
  /\ Watch

(* A manual run stops at waiting orders or at a trade of today.             *)
GuardManual ==
  /\ run["manual"].pc = "guard"
  /\ IF pending # <<>> \/ trades.last = day THEN Stop("manual") ELSE Go("manual", "load")
  /\ UNCHANGED <<strategy, day, minute, cron, market, session, position, trades, peak, pending, user, count>>
  /\ Watch

-----------------------------------------------------------------------------
(* executeSimulationTick reads the session once: its cash and its           *)
(* strategyParams are those of this moment until the tick ends.             *)
LoadSession(f) ==
  /\ run[f].pc = "load"
  /\ IF /\ session.status = "RUNNING"
        /\ f = "manual" \/ strategy \notin OnceDaily \/ Slot = "target"
     THEN Becomes(f, [run[f] EXCEPT !.pc = "holdings", !.cash = session.cash, !.par = session.par])
     ELSE Stop(f)
  /\ UNCHANGED <<strategy, day, minute, cron, market, session, position, trades, peak, pending, user, count>>
  /\ Watch

(* The positions, and evaluateSimulationRisk with the cash read before.     *)
LoadHoldings(f) ==
  /\ run[f].pc = "holdings"
  /\ LET total == Worth(position) + run[f].cash
     IN Becomes(f, [run[f] EXCEPT !.pc = "decide", !.held = position,
                                  !.peak = IF peak > total THEN peak ELSE total])
  /\ UNCHANGED <<strategy, day, minute, cron, market, session, position, trades, peak, pending, user, count>>
  /\ Watch

Context(f) ==
  [strategy |-> strategy, qty |-> run[f].held.qty, avg |-> run[f].held.avg,
   quota |-> session.quota, cycles |-> Cycles, stop |-> StopLoss,
   cash |-> run[f].cash, total |-> Worth(run[f].held) + run[f].cash, peak |-> run[f].peak,
   done |-> trades.last = day, day |-> day,
   slot |-> IF Open THEN Slot ELSE "exit",
   openBuy |-> \E i \in DOMAIN pending : pending[i].side = "BUY",
   openSell |-> \E i \in DOMAIN pending : pending[i].side = "SELL",
   view |-> market, par |-> run[f].par]

(* What the tick will store in strategyParams when it is done: the params   *)
(* it loaded, with the quota carried over to another day.                   *)
Carried(c, buys, secondTarget) ==
  LET left == Rest(c.quota, Invested(c))
      onBuy == Least(CarryOut(c), left)
      grown == Least(c.par.carried + PerCycle(c), left)
  IN IF c.strategy \notin OnceDaily \/ c.done THEN c.par
     ELSE IF buys
          THEN IF c.par.carried # onBuy THEN [c.par EXCEPT !.carried = onBuy, !.carriedOn = c.day]
                                        ELSE c.par
     ELSE IF /\ Short(c) /\ PerCycle(c) > 0 /\ left > 0 /\ c.par.carriedOn # c.day
             /\ ~(c.strategy = "infinite-buy" /\ (secondTarget \/ PlanActive(c)))
          THEN [c.par EXCEPT !.carried = grown, !.carriedOn = c.day]
     ELSE c.par

Decide(f) ==
  /\ run[f].pc = "decide"
  /\ \/ Stop(f)                                   \* a quote or an indicator failed
     \/   LET c       == Context(f)
              signals == Evaluate(c)
              buys    == \E i \in DOMAIN signals : signals[i].side = "BUY"
              second  == \E i \in DOMAIN signals : signals[i].phase = "take-profit-2"
          IN Becomes(f, [IdleRun EXCEPT !.pc = "act", !.jobs = signals, !.quote = market.price,
                                        !.after = Carried(c, buys, second), !.write = ~Routine(c)])
  /\ UNCHANGED <<strategy, day, minute, cron, market, session, position, trades, peak, pending, user, count>>
  /\ Watch

(* A signal the quote does not fill waits; the array may be one the other   *)
(* flow is walking, which then comes to the new order as well.              *)
Act(f) ==
  LET s == Job(f)
  IN /\ run[f].pc = "act" /\ run[f].jobs # <<>>
     /\ IF CanFillAtPrice(s, run[f].quote)
        THEN /\ Becomes(f, [run[f] EXCEPT !.pc = "book", !.loop = "act"])
             /\ UNCHANGED <<session, pending>>
        ELSE /\ session' = IF s.phase = "take-profit-2" /\ session.par.plan.on
                           THEN [session EXCEPT !.par.plan.tried = day] ELSE session
             /\ pending' = Append(pending, s)
             /\ Both(f, [run[f] EXCEPT !.jobs = Tail(@)],
                        [run[Other(f)] EXCEPT !.jobs = IF run[Other(f)].live THEN Append(@, s) ELSE @])
     /\ UNCHANGED <<strategy, day, minute, cron, market, position, trades, peak, user, count>>
     /\ Watch

(* The last write of a tick: the whole of strategyParams.                   *)
EndTick(f) ==
  /\ run[f].pc = "act" /\ run[f].jobs = <<>>
  /\ session' = IF run[f].write THEN [session EXCEPT !.par = run[f].after] ELSE session
  /\ Stop(f)
  /\ UNCHANGED <<strategy, day, minute, cron, market, position, trades, peak, pending, user, count>>
  /\ Watch

-----------------------------------------------------------------------------
(* virtualExecute, one step for each of its writes.                         *)
FillPrice(f) == IF Job(f).price > 0 THEN Job(f).price ELSE run[f].quote
Amount(f)    == FillPrice(f) * Job(f).qty
NextJob(f)   == [run[f] EXCEPT !.pc = run[f].loop, !.jobs = Tail(@), !.old = NoPosition, !.loop = "idle"]

\* Mutants of Book: the cash, or the shares, are not looked at.
BookUnchecked(f) ==
  /\ run[f].pc = "book"
  /\ IF Job(f).side = "SELL" /\ (position.qty = 0 \/ position.qty < Job(f).qty)
     THEN Becomes(f, NextJob(f))
     ELSE Becomes(f, [run[f] EXCEPT !.pc = "trade", !.old = position])
  /\ UNCHANGED <<strategy, day, minute, cron, market, session, position, trades, peak, pending, user, count>>
  /\ Watch

BookShort(f) ==
  /\ run[f].pc = "book"
  /\ IF Job(f).side = "BUY" /\ Amount(f) > session.cash
     THEN Becomes(f, NextJob(f))
     ELSE Becomes(f, [run[f] EXCEPT !.pc = "trade", !.old = position])
  /\ UNCHANGED <<strategy, day, minute, cron, market, session, position, trades, peak, pending, user, count>>
  /\ Watch

(* The checks: cash for a purchase, shares for a sale; else a FAILED row.   *)
Book(f) ==
  /\ run[f].pc = "book"
  /\ IF \/ Job(f).side = "BUY" /\ Amount(f) > session.cash
        \/ Job(f).side = "SELL" /\ (position.qty = 0 \/ position.qty < Job(f).qty)
     THEN Becomes(f, NextJob(f))
     ELSE Becomes(f, [run[f] EXCEPT !.pc = "trade", !.old = position])
  /\ UNCHANGED <<strategy, day, minute, cron, market, session, position, trades, peak, pending, user, count>>
  /\ Watch

\* Mutant of RecordTrade: the trade row is not found by the query for today.
RecordTradeUndated(f) ==
  /\ run[f].pc = "trade"
  /\ trades' = IF Job(f).side = "BUY"
               THEN [trades EXCEPT !.net = @ - Amount(f), !.shares = @ + Job(f).qty]
               ELSE [trades EXCEPT !.net = @ + Amount(f), !.shares = @ - Job(f).qty]
  /\ Becomes(f, [run[f] EXCEPT !.pc = "position",
                               !.old = IF Job(f).side = "BUY" THEN position ELSE @])
  /\ UNCHANGED <<strategy, day, minute, cron, market, session, position, peak, pending, user, count>>
  /\ Watch

\* A purchase looks the position up only after its trade row exists.
RecordTrade(f) ==
  /\ run[f].pc = "trade"
  /\ trades' = IF Job(f).side = "BUY"
               THEN [net |-> trades.net - Amount(f), shares |-> trades.shares + Job(f).qty, last |-> day]
               ELSE [net |-> trades.net + Amount(f), shares |-> trades.shares - Job(f).qty, last |-> day]
  /\ Becomes(f, [run[f] EXCEPT !.pc = "position",
                               !.old = IF Job(f).side = "BUY" THEN position ELSE @])
  /\ UNCHANGED <<strategy, day, minute, cron, market, session, position, peak, pending, user, count>>
  /\ Watch

\* Mutant of Bought: a second purchase replaces the first.
BoughtAnew(old, qty, price) == [qty |-> qty, avg |-> price, mark |-> price]

Bought(old, qty, price) ==
  [qty |-> old.qty + qty, avg |-> (old.avg * old.qty + price * qty) \div (old.qty + qty),
   mark |-> price]
Sold(old, qty, price) ==
  IF old.qty = qty THEN NoPosition ELSE [old EXCEPT !.qty = @ - qty, !.mark = price]

(* An update of a row that is gone, or the creation of one that exists,     *)
(* throws: the flow ends where it stands.                                   *)
WritePosition(f) ==
  /\ run[f].pc = "position"
  /\ IF (run[f].old.qty > 0) = (position.qty > 0)
     THEN /\ position' = IF Job(f).side = "BUY"
                         THEN Bought(run[f].old, Job(f).qty, FillPrice(f))
                         ELSE Sold(run[f].old, Job(f).qty, FillPrice(f))
          /\ Go(f, "cash")
     ELSE Stop(f) /\ UNCHANGED position
  /\ UNCHANGED <<strategy, day, minute, cron, market, session, trades, peak, pending, user, count>>
  /\ Watch

\* Mutant of MoveCash: the cash moves at the quote instead of the fill price.
MoveCashAtQuote(f) ==
  /\ run[f].pc = "cash"
  /\ session' = [session EXCEPT !.cash = IF Job(f).side = "BUY" THEN @ - run[f].quote * Job(f).qty
                                                                ELSE @ + run[f].quote * Job(f).qty]
  /\ Go(f, "remember")
  /\ UNCHANGED <<strategy, day, minute, cron, market, position, trades, peak, pending, user, count>>
  /\ Watch

\* decrement or increment, so that two flows cannot lose one of two changes.
MoveCash(f) ==
  /\ run[f].pc = "cash"
  /\ session' = [session EXCEPT !.cash = IF Job(f).side = "BUY" THEN @ - Amount(f)
                                                                ELSE @ + Amount(f)]
  /\ Go(f, "remember")
  /\ UNCHANGED <<strategy, day, minute, cron, market, position, trades, peak, pending, user, count>>
  /\ Watch

(* handleSimulationStrategySignalFill and the plan of infinite-buy.         *)
Remember(f) ==
  /\ run[f].pc = "remember"
  /\ session' = [session EXCEPT !.par =
       CASE strategy = "momentum-breakout"   -> MomentumFill(@, Job(f), run[f].old.qty, day)
         [] strategy = "grid-mean-reversion" -> GridFill(@, Job(f), run[f].old.qty)
         [] strategy = "infinite-buy"        -> PlanFill(@, Job(f), run[f].old.qty - Job(f).qty, day)
         [] OTHER                            -> @]
  /\ Becomes(f, NextJob(f))
  /\ UNCHANGED <<strategy, day, minute, cron, market, position, trades, peak, pending, user, count>>
  /\ Watch

-----------------------------------------------------------------------------
(* The clock, and the closing of a day: waiting orders are dropped and the  *)
(* snapshot taken, for a session that is running.                           *)
NextMinute ==
  /\ Open
  /\ minute' = minute + 1 /\ cron' = (run["tick"].pc = "idle")
  /\ market' \in (IF minute < Len(Timetable) THEN View ELSE {market})
  /\ IF minute = Len(Timetable) /\ session.status = "RUNNING"
     THEN LET total == Worth(position) + session.cash
          IN /\ pending' = <<>>
             /\ peak' = IF peak = 0 THEN (IF session.quota > total THEN session.quota ELSE total)
                        ELSE IF peak > total THEN peak ELSE total
             /\ run' = [f \in Flow |-> Unlinked(run[f])]
     ELSE UNCHANGED <<pending, peak, run>>
  /\ UNCHANGED <<strategy, day, session, position, trades, user, count>>
  /\ Watch

NextDay ==
  /\ ~Open /\ day < MaxDay
  /\ day' = day + 1 /\ minute' = 1 /\ cron' = (run["tick"].pc = "idle")
  /\ market' \in View
  /\ UNCHANGED <<strategy, session, position, trades, peak, pending, run, user, count>>
  /\ Watch

Edit == /\ user.pc = "idle" /\ count.edit < MaxEdit
        /\ count' = [count EXCEPT !.edit = @ + 1]

SetStatus ==
  /\ Edit
  /\ \E s \in {"RUNNING", "PAUSED"} \ {session.status} : session' = [session EXCEPT !.status = s]
  /\ UNCHANGED <<strategy, day, minute, cron, market, position, trades, peak, pending, run, user>>
  /\ Watch

(* updateSettings reads the session, and later writes the cash it computed. *)
ReadSettings ==
  /\ Edit
  /\ \E q \in Quotas :
       /\ session.cash + q - session.quota >= 0
       /\ user' = [user EXCEPT !.pc = "settings", !.cash = session.cash, !.quota = session.quota,
                               !.par = session.par, !.new = q]
  /\ UNCHANGED <<strategy, day, minute, cron, market, session, position, trades, peak, pending, run>>
  /\ Watch

(* A new quota of infinite-buy rescales what was carried over.              *)
Rebased(par, old, new) == [par EXCEPT !.carried = (@ * new) \div old]

WriteSettings ==
  /\ user.pc = "settings"
  /\ session' = [session EXCEPT !.quota = user.new, !.cash = user.cash + user.new - user.quota,
                   !.par = IF strategy = "infinite-buy" /\ user.new # user.quota /\ user.par.carried > 0
                           THEN Rebased(user.par, user.quota, user.new) ELSE @]
  /\ user' = IdleUser
  /\ UNCHANGED <<strategy, day, minute, cron, market, position, trades, peak, pending, run, count>>
  /\ Watch

(* resetSession keeps what fills of a strategy recorded, except the plan    *)
(* and the carried quota.                                                   *)
Wipe ==
  /\ Edit
  /\ user' = [user EXCEPT !.pc = "reset", !.quota = session.quota, !.par = session.par]
  /\ pending' = <<>> /\ trades' = NoTrades /\ position' = NoPosition /\ peak' = 0
  /\ run' = [f \in Flow |-> Unlinked(run[f])]
  /\ UNCHANGED <<strategy, day, minute, cron, market, session>>
  /\ Watch

Restart ==
  /\ user.pc = "reset"
  /\ session' = [session EXCEPT !.status = "RUNNING", !.cash = user.quota,
                   !.par = [user.par EXCEPT !.plan = NoPlan, !.carried = 0, !.carriedOn = NoDay]]
  /\ user' = IdleUser
  /\ UNCHANGED <<strategy, day, minute, cron, market, position, trades, peak, pending, run, count>>
  /\ Watch

Step(f) == \/ CheckPending(f) \/ WalkPending(f) \/ EndWalk(f)
           \/ LoadSession(f) \/ LoadHoldings(f) \/ Decide(f) \/ Act(f) \/ EndTick(f)
           \/ Book(f) \/ RecordTrade(f) \/ WritePosition(f) \/ MoveCash(f) \/ Remember(f)

Next == \/ StartTick \/ MarkPosition \/ StartManual \/ GuardManual
        \/ \E f \in Flow : Step(f)
        \/ NextMinute \/ NextDay
        \/ SetStatus \/ ReadSettings \/ WriteSettings \/ Wipe \/ Restart

Spec == Init /\ [][Next]_vars

-----------------------------------------------------------------------------
Holdings == [qty : Nat, avg : Nat, mark : Nat]
Orders   == {s \in Signals : s.qty > 0}
Steps    == {"idle", "mark", "pending", "walk", "guard", "load", "holdings", "decide", "act",
             "book", "trade", "position", "cash", "remember"}
Runs     == [pc : Steps, cash : Int, par : Params, held : Holdings, peak : Int, quote : Nat,
             jobs : Seq(Orders), kept : Seq(Orders), live : BOOLEAN, old : Holdings,
             loop : {"idle", "walk", "act"}, after : Params, write : BOOLEAN]
Sessions == [status : {"RUNNING", "PAUSED"}, cash : Int, quota : Nat \ {0}, par : Params]
Users    == [pc : {"idle", "settings", "reset"}, cash : Int, quota : Nat, par : Params, new : Nat]

TypeOK ==
  /\ strategy \in Strategies
  /\ day \in Nat /\ minute \in Nat /\ cron \in BOOLEAN /\ market \in View
  /\ session \in Sessions
  /\ position \in Holdings
  /\ trades \in [net : Int, shares : Int, last : Nat]
  /\ peak \in Int
  /\ pending \in Seq(Orders)
  /\ run \in [Flow -> Runs]
  /\ user \in Users
  /\ count \in [manual : Nat, edit : Nat]
  /\ audit \in [overlap : BOOLEAN, raced : BOOLEAN, aborted : BOOLEAN, rounds : Nat]

Signed(f) == IF Job(f).side = "BUY" THEN -Amount(f) ELSE Amount(f)
Unpaid(f) == IF run[f].pc \in {"position", "cash"} THEN Signed(f) ELSE 0
Unheld(f) == IF run[f].pc = "position"
             THEN (IF Job(f).side = "BUY" THEN Job(f).qty ELSE -Job(f).qty) ELSE 0

(* The cash is the quota and what the executed trades earned, except for    *)
(* the fills in progress: also when the two flows execute at the same time, *)
(* since cash is incremented and never written as a value.  Not so after a  *)
(* reset or a new quota in the middle of a run, nor after a fill that threw *)
(* between its trade row and its cash.                                      *)
CashIsTradeSum ==
  (~audit.raced /\ ~audit.aborted /\ user.pc = "idle")
     => session.cash = session.quota + trades.net - Unpaid("tick") - Unpaid("manual")

(* The shares held are those the executed trades moved, while the flows     *)
(* take turns: the position is read and written back by virtualExecute.     *)
SharesAreTradeSum ==
  (~audit.raced /\ ~audit.overlap)
     => position.qty = trades.shares - Unheld("tick") - Unheld("manual")

(* A session never spends money it does not have, while the flows take      *)
(* turns: orders that waited are checked against the cash again.            *)
NoOverdraft == (~audit.raced /\ ~audit.overlap) => session.cash >= 0

(* A once-daily strategy orders a purchase at most once a day, by its       *)
(* minute or by a manual run, while the flows take turns.                   *)
OnceDailyBuysOnce ==
  (strategy \in OnceDaily /\ ~audit.raced /\ ~audit.overlap) => audit.rounds <= 1

(* "실거래 TradingService와 동일하게 트레일링 '진입 후 고가' 기준점 기록": a momentum   *)
(* position that no run is working on has the date of its entry recorded.   *)
EntryIsRecorded ==
  (strategy = "momentum-breakout" /\ position.qty > 0 /\ \A f \in Flow : run[f].pc = "idle")
     => session.par.entry # NoDay
=============================================================================
