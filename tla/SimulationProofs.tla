--------------------------- MODULE SimulationProofs ---------------------------
(***************************************************************************)
(* The books of a simulation session: its cash, its shares and the trades   *)
(* it executed agree for every timetable, market and number of runs, and a  *)
(* once-daily strategy buys at most once a day.                             *)
(***************************************************************************)
EXTENDS Simulation, StrategyProofs

Filling == {"book", "trade", "position", "cash", "remember"}

\* What a flow holds: an order while it fills one, and no sale beyond its position.
Good(r) == /\ r \in Runs
           /\ r.pc \in Filling => r.jobs # <<>>
           /\ (r.pc \in {"trade", "position"} /\ Head(r.jobs).side = "SELL")
                => Head(r.jobs).qty <= r.old.qty

RunInv  == run \in [Flow -> Runs] /\ \A f \in Flow : Good(run[f])
UserInv == /\ user \in Users
           /\ user.pc # "idle" => user.quota > 0
           /\ user.pc = "settings" => user.new > 0

Audits == [overlap : BOOLEAN, raced : BOOLEAN, aborted : BOOLEAN, rounds : Nat]

TypeInv ==
  /\ strategy \in Strategies
  /\ day \in Nat /\ minute \in Nat /\ cron \in BOOLEAN /\ market \in View
  /\ session \in Sessions
  /\ position \in Holdings
  /\ trades \in [net : Int, shares : Int, last : Nat]
  /\ peak \in Int
  /\ pending \in Seq(Orders)
  /\ RunInv
  /\ UserInv
  /\ count \in [manual : Nat, edit : Nat]
  /\ audit \in Audits

-----------------------------------------------------------------------------
LEMMA OtherFlow ==
  ASSUME NEW f \in Flow
  PROVE  Other(f) \in Flow /\ Other(f) # f /\ \A g \in Flow : g = f \/ g = Other(f)
  BY DEF Flow, Other

LEMMA WatchType ==
  ASSUME audit \in Audits, Watch
  PROVE  audit' \in Audits
  BY SMT DEF Watch, Audits

LEMMA BecomesIs ==
  ASSUME RunInv, NEW f \in Flow, NEW r, Good(r), Becomes(f, r)
  PROVE  RunInv' /\ run'[f] = r /\ run'[Other(f)] = run[Other(f)]
<1>1. r \in Runs /\ Other(f) \in Flow /\ Other(f) # f  BY OtherFlow DEF Good
<1>2. run' \in [Flow -> Runs]  BY <1>1 DEF RunInv, Becomes
<1>3. run'[f] = r /\ run'[Other(f)] = run[Other(f)]  BY <1>1 DEF RunInv, Becomes
<1>4. \A g \in Flow : Good(run'[g])
  <2> TAKE g \in Flow
  <2>1. g = f \/ g = Other(f)  BY OtherFlow
  <2> QED  BY <1>1, <1>3, <2>1 DEF RunInv
<1> QED  BY <1>2, <1>3, <1>4 DEF RunInv

LEMMA BothIs ==
  ASSUME RunInv, NEW f \in Flow, NEW r, NEW o, Good(r), Good(o), Both(f, r, o)
  PROVE  RunInv' /\ run'[f] = r /\ run'[Other(f)] = o
<1>1. r \in Runs /\ o \in Runs /\ Other(f) \in Flow /\ Other(f) # f  BY OtherFlow DEF Good
<1>2. run' \in [Flow -> Runs]  BY <1>1 DEF RunInv, Both
<1>3. run'[f] = r /\ run'[Other(f)] = o  BY <1>1 DEF RunInv, Both
<1>4. \A g \in Flow : Good(run'[g])
  <2> TAKE g \in Flow
  <2>1. g = f \/ g = Other(f)  BY OtherFlow
  <2> QED  BY <1>3, <2>1
<1> QED  BY <1>2, <1>3, <1>4 DEF RunInv

LEMMA IdleIs ==
  Good(IdleRun) /\ IdleRun.pc = "idle" /\ NoPosition \in Holdings /\ NoParams \in Params
<1>1. NoPosition \in Holdings  BY DEF NoPosition, Holdings
<1>2. NoPlan \in Plans  BY NoDayAssumption DEF NoPlan, Plans
<1>3. NoParams \in Params  BY <1>2, NoDayAssumption DEF NoParams, Params
<1>4. IdleRun \in Runs  BY <1>1, <1>3 DEF IdleRun, Runs, Steps
<1> QED  BY <1>1, <1>3, <1>4 DEF Good, IdleRun, Filling

LEMMA UnlinkedIs ==
  ASSUME NEW r, Good(r)
  PROVE  LET u == Unlinked(r)
         IN  Good(u) /\ u.pc = r.pc /\ u.jobs = r.jobs /\ u.quote = r.quote /\ u.old = r.old
<1> DEFINE u == Unlinked(r)
<1>1. u \in Runs  BY Zenon DEF Unlinked, Good, Runs
<1>2. u.pc = r.pc /\ u.jobs = r.jobs /\ u.quote = r.quote /\ u.old = r.old
  BY SMT DEF Unlinked, Good, Runs
<1> HIDE DEF u
<1>3. Good(u)  BY <1>1, <1>2 DEF Good
<1> QED  BY <1>2, <1>3 DEF u

LEMMA AllUnlinked ==
  ASSUME RunInv, run' = [f \in Flow |-> Unlinked(run[f])]
  PROVE  RunInv' /\ \A f \in Flow : /\ run'[f].pc = run[f].pc /\ run'[f].jobs = run[f].jobs
                                    /\ run'[f].quote = run[f].quote /\ run'[f].old = run[f].old
<1>1. \A f \in Flow : /\ Good(run'[f]) /\ run'[f].pc = run[f].pc /\ run'[f].jobs = run[f].jobs
                      /\ run'[f].quote = run[f].quote /\ run'[f].old = run[f].old
  BY UnlinkedIs DEF RunInv
<1>2. run' \in [Flow -> Runs]  BY <1>1 DEF Good
<1> QED  BY <1>1, <1>2 DEF RunInv

\* A step of a flow that fills no order afterwards, or none it was not filling before.
LEMMA GoesTo ==
  ASSUME NEW r, Good(r), NEW pc \in Steps, pc \in Filling => r.jobs # <<>>,
         pc \notin {"trade", "position"}
  PROVE  Good([r EXCEPT !.pc = pc])
<1>1. [r EXCEPT !.pc = pc] \in Runs  BY Zenon DEF Good, Runs
<1>2. [r EXCEPT !.pc = pc].pc = pc /\ [r EXCEPT !.pc = pc].jobs = r.jobs  BY SMT DEF Good, Runs
<1> QED  BY <1>1, <1>2 DEF Good

LEMMA NextJobIs ==
  ASSUME RunInv, NEW f \in Flow, run[f].jobs # <<>>
  PROVE  Good(NextJob(f)) /\ NextJob(f).pc = run[f].loop /\ NextJob(f).pc \notin Filling
<1>1. run[f] \in Runs  BY DEF RunInv
<1>2. NextJob(f) \in Runs
  <2>1. /\ run[f].loop \in Steps /\ Tail(run[f].jobs) \in Seq(Orders)
        /\ NoPosition \in Holdings
    BY <1>1, IdleIs, SMT DEF Runs, Steps
  <2>2. "idle" \in {"idle", "walk", "act"}  OBVIOUS
  <2> QED  BY <1>1, <2>1, <2>2, Zenon DEF NextJob, Runs
<1>3. NextJob(f).pc = run[f].loop  BY <1>1, SMT DEF NextJob, Runs
<1>4. run[f].loop \notin Filling  BY <1>1 DEF Runs, Filling
<1> QED  BY <1>2, <1>3, <1>4 DEF Good, Filling

LEMMA GoIs ==
  ASSUME RunInv, NEW f \in Flow, NEW pc \in Steps, pc \notin {"trade", "position"},
         pc \in Filling => run[f].jobs # <<>>, Go(f, pc)
  PROVE  /\ RunInv' /\ run'[f].pc = pc /\ run'[f].jobs = run[f].jobs
         /\ run'[f].quote = run[f].quote /\ run'[f].old = run[f].old
         /\ run'[Other(f)] = run[Other(f)]
<1>1. Good(run[f])  BY DEF RunInv
<1>2. Good([run[f] EXCEPT !.pc = pc])  BY <1>1, GoesTo
<1>3. RunInv' /\ run'[f] = [run[f] EXCEPT !.pc = pc] /\ run'[Other(f)] = run[Other(f)]
  BY <1>2, BecomesIs DEF Go
<1> QED  BY <1>1, <1>3, SMT DEF Good, Runs

LEMMA StopIs ==
  ASSUME RunInv, NEW f \in Flow, Stop(f)
  PROVE  RunInv' /\ run'[f].pc = "idle" /\ run'[Other(f)] = run[Other(f)]
  BY BecomesIs, IdleIs DEF Stop

-----------------------------------------------------------------------------
\* The steps of a flow keep the types.
LEMMA StartTickType ==
  ASSUME TypeInv, StartTick
  PROVE  TypeInv' /\ run'["tick"].pc = "mark" /\ run'["manual"] = run["manual"]
<1>1. RunInv' /\ run'["tick"].pc = "mark" /\ run'["manual"] = run["manual"]
  BY GoIs DEF StartTick, TypeInv, Steps, Filling, Flow, Other
<1> QED  BY <1>1, WatchType DEF StartTick, TypeInv, UserInv

LEMMA MarkPositionType ==
  ASSUME TypeInv, MarkPosition
  PROVE  TypeInv' /\ run'["tick"].pc = "pending" /\ run'["manual"] = run["manual"]
         /\ position'.qty = position.qty
<1>1. RunInv' /\ run'["tick"].pc = "pending" /\ run'["manual"] = run["manual"]
  BY GoIs DEF MarkPosition, TypeInv, Steps, Filling, Flow, Other
<1>2. position' \in Holdings /\ position'.qty = position.qty
  <2>1. market.price \in Nat  BY ViewAssumption DEF TypeInv, Views
  <2>2. [position EXCEPT !.mark = market.price] \in Holdings  BY <2>1, Zenon DEF TypeInv, Holdings
  <2>3. [position EXCEPT !.mark = market.price].qty = position.qty  BY SMT DEF TypeInv, Holdings
  <2> QED  BY <2>2, <2>3 DEF MarkPosition, TypeInv
<1> QED  BY <1>1, <1>2, WatchType DEF MarkPosition, TypeInv, UserInv

LEMMA StartManualType ==
  ASSUME TypeInv, StartManual
  PROVE  TypeInv' /\ run'["manual"].pc = "pending" /\ run'["tick"] = run["tick"]
<1>1. RunInv' /\ run'["manual"].pc = "pending" /\ run'["tick"] = run["tick"]
  BY GoIs DEF StartManual, TypeInv, Steps, Filling, Flow, Other
<1>2. count' \in [manual : Nat, edit : Nat]
  <2>1. count.manual + 1 \in Nat  BY DEF TypeInv
  <2>2. [count EXCEPT !.manual = count.manual + 1] \in [manual : Nat, edit : Nat]
    BY <2>1, Zenon DEF TypeInv
  <2> QED  BY <2>2 DEF StartManual
<1> QED  BY <1>1, <1>2, WatchType DEF StartManual, TypeInv, UserInv

LEMMA CheckPendingType ==
  ASSUME TypeInv, NEW f \in Flow, CheckPending(f)
  PROVE  TypeInv' /\ run'[f].pc \in {"walk", "load", "guard"}
         /\ run'[Other(f)].pc = run[Other(f)].pc /\ run'[Other(f)].jobs = run[Other(f)].jobs
         /\ run'[Other(f)].quote = run[Other(f)].quote /\ run'[Other(f)].old = run[Other(f)].old
<1> DEFINE o == Other(f)
<1>0. AfterPending(f) \in {"load", "guard"} /\ AfterPending(f) \in Steps /\ AfterPending(f) \notin Filling
      /\ AfterPending(f) \notin {"trade", "position"}
  BY DEF AfterPending, Steps, Filling
<1>1. RunInv /\ Good(run[f]) /\ Good(run[o])  BY OtherFlow DEF TypeInv, RunInv
<1>2. /\ RunInv' /\ run'[f].pc \in {"walk", "load", "guard"}
      /\ run'[o].pc = run[o].pc /\ run'[o].jobs = run[o].jobs
      /\ run'[o].quote = run[o].quote /\ run'[o].old = run[o].old
  <2> DEFINE r    == [run[f] EXCEPT !.pc = AfterPending(f)]
             w(q) == [run[f] EXCEPT !.pc = "walk", !.quote = q, !.live = TRUE,
                                    !.jobs = pending, !.kept = <<>>]
  <2>1. \/ Go(f, AfterPending(f))
        \/ Both(f, r, Unlinked(run[o]))
        \/ \E q \in {market.price, 0} : Becomes(f, w(q))
    BY Zenon DEF CheckPending
  <2>2. Good(r) /\ r.pc = AfterPending(f)
    BY <1>0, <1>1, GoesTo, SMT DEF Good, Runs
  <2>3. ASSUME NEW q \in {market.price, 0}  PROVE Good(w(q)) /\ w(q).pc = "walk"
    <3>1. q \in Nat  BY ViewAssumption DEF TypeInv, Views
    <3>2. "walk" \in Steps /\ pending \in Seq(Orders) /\ <<>> \in Seq(Orders) /\ TRUE \in BOOLEAN
      BY DEF TypeInv, Steps
    <3>3. w(q) \in Runs  BY <1>1, <3>1, <3>2, Zenon DEF Good, Runs
    <3>4. w(q).pc = "walk"  BY <1>1, SMT DEF Good, Runs
    <3> HIDE DEF w
    <3> QED  BY <3>3, <3>4 DEF Good, Filling
  <2> HIDE DEF r, w
  <2>4. CASE Go(f, AfterPending(f))  BY <1>0, <1>1, <2>4, GoIs
  <2>5. CASE Both(f, r, Unlinked(run[o]))  BY <1>0, <1>1, <2>2, <2>5, BothIs, UnlinkedIs
  <2>6. CASE \E q \in {market.price, 0} : Becomes(f, w(q))  BY <1>1, <2>3, <2>6, BecomesIs
  <2> QED  BY <2>1, <2>4, <2>5, <2>6
<1>3. pending' \in Seq(Orders)
  <2>1. pending' = pending \/ pending' = <<>>  BY Zenon DEF CheckPending
  <2>2. <<>> \in Seq(Orders)  OBVIOUS
  <2>3. pending \in Seq(Orders)  BY DEF TypeInv
  <2> QED  BY <2>1, <2>2, <2>3, Zenon
<1> QED  BY <1>2, <1>3, WatchType DEF CheckPending, TypeInv, UserInv

LEMMA WalkPendingType ==
  ASSUME TypeInv, NEW f \in Flow, WalkPending(f)
  PROVE  TypeInv' /\ run'[f].pc \in {"walk", "book"} /\ run'[Other(f)] = run[Other(f)]
<1>1. RunInv /\ Good(run[f]) /\ run[f] \in Runs /\ run[f].jobs # <<>> /\ run[f].pc = "walk"
  BY DEF TypeInv, RunInv, WalkPending
<1>2. RunInv' /\ run'[f].pc \in {"walk", "book"} /\ run'[Other(f)] = run[Other(f)]
  <2>1. CASE Becomes(f, [run[f] EXCEPT !.pc = "book", !.loop = "walk"])
    <3> DEFINE r == [run[f] EXCEPT !.pc = "book", !.loop = "walk"]
    <3>1. "book" \in Steps /\ "walk" \in {"idle", "walk", "act"}  BY DEF Steps
    <3>2. r \in Runs  BY <1>1, <3>1, Zenon DEF Runs
    <3>3. r.pc = "book" /\ r.jobs = run[f].jobs  BY <1>1, SMT DEF Runs
    <3> HIDE DEF r
    <3>4. Good(r)  BY <1>1, <3>2, <3>3 DEF Good
    <3>5. Becomes(f, r)  BY <2>1 DEF r
    <3> QED  BY <1>1, <3>3, <3>4, <3>5, BecomesIs
  <2>2. CASE Becomes(f, [run[f] EXCEPT !.jobs = Tail(@), !.kept = Append(@, Job(f))])
    <3> DEFINE r == [run[f] EXCEPT !.jobs = Tail(run[f].jobs), !.kept = Append(run[f].kept, Job(f))]
    <3>1. Tail(run[f].jobs) \in Seq(Orders) /\ Append(run[f].kept, Job(f)) \in Seq(Orders)
      BY <1>1, SMT DEF Runs, Job
    <3>2. r \in Runs  BY <1>1, <3>1, Zenon DEF Runs
    <3>3. r.pc = "walk"  BY <1>1, SMT DEF Runs
    <3> HIDE DEF r
    <3>4. Good(r)  BY <3>2, <3>3 DEF Good, Filling
    <3>5. Becomes(f, r)  BY <2>2 DEF r
    <3> QED  BY <1>1, <3>3, <3>4, <3>5, BecomesIs
  <2> QED  BY <2>1, <2>2 DEF WalkPending
<1> QED  BY <1>2, WatchType DEF WalkPending, TypeInv, UserInv

LEMMA EndWalkType ==
  ASSUME TypeInv, NEW f \in Flow, EndWalk(f)
  PROVE  TypeInv' /\ run'[f].pc \in {"load", "guard"}
         /\ run'[Other(f)].pc = run[Other(f)].pc /\ run'[Other(f)].jobs = run[Other(f)].jobs
         /\ run'[Other(f)].quote = run[Other(f)].quote /\ run'[Other(f)].old = run[Other(f)].old
<1> DEFINE o == Other(f)
           r == [IdleRun EXCEPT !.pc = AfterPending(f)]
<1>1. RunInv /\ Good(run[o]) /\ run[f] \in Runs  BY OtherFlow DEF TypeInv, RunInv
<1>2. AfterPending(f) \in {"load", "guard"} /\ AfterPending(f) \in Steps /\ AfterPending(f) \notin Filling
      /\ AfterPending(f) \notin {"trade", "position"}
  BY DEF AfterPending, Steps, Filling
<1>3. Good(r)  BY <1>2, IdleIs, GoesTo
<1>4. r.pc = AfterPending(f)  BY DEF IdleRun
<1> HIDE DEF r
<1>5. Both(f, r, Unlinked(run[o]))  BY DEF EndWalk, r
<1>6. /\ RunInv' /\ run'[f] = r
      /\ run'[o].pc = run[o].pc /\ run'[o].jobs = run[o].jobs
      /\ run'[o].quote = run[o].quote /\ run'[o].old = run[o].old
  BY <1>1, <1>3, <1>5, BothIs, UnlinkedIs
<1>7. pending' \in Seq(Orders)  BY <1>1 DEF EndWalk, Runs
<1> QED  BY <1>2, <1>4, <1>6, <1>7, WatchType DEF EndWalk, TypeInv, UserInv

LEMMA GuardManualType ==
  ASSUME TypeInv, GuardManual
  PROVE  TypeInv' /\ run'["manual"].pc \in {"idle", "load"} /\ run'["tick"] = run["tick"]
<1>1. "manual" \in Flow /\ Other("manual") = "tick"  BY DEF Flow, Other
<1>2. RunInv' /\ run'["manual"].pc \in {"idle", "load"} /\ run'["tick"] = run["tick"]
  <2>1. CASE Stop("manual")  BY <1>1, <2>1, StopIs DEF TypeInv
  <2>2. CASE Go("manual", "load")  BY <1>1, <2>2, GoIs DEF TypeInv, Steps, Filling
  <2> QED  BY <2>1, <2>2 DEF GuardManual
<1> QED  BY <1>2, WatchType DEF GuardManual, TypeInv, UserInv

LEMMA LoadSessionType ==
  ASSUME TypeInv, NEW f \in Flow, LoadSession(f)
  PROVE  TypeInv' /\ run'[f].pc \in {"idle", "holdings"} /\ run'[Other(f)] = run[Other(f)]
<1>1. RunInv /\ run[f] \in Runs  BY DEF TypeInv, RunInv
<1>2. RunInv' /\ run'[f].pc \in {"idle", "holdings"} /\ run'[Other(f)] = run[Other(f)]
  <2> DEFINE r == [run[f] EXCEPT !.pc = "holdings", !.cash = session.cash, !.par = session.par]
  <2>1. Stop(f) \/ Becomes(f, r)  BY Zenon DEF LoadSession
  <2>2. "holdings" \in Steps /\ session.cash \in Int /\ session.par \in Params
    BY DEF TypeInv, Sessions, Steps
  <2>3. r \in Runs  BY <1>1, <2>2, Zenon DEF Runs
  <2>4. r.pc = "holdings"  BY <1>1, SMT DEF Runs
  <2> HIDE DEF r
  <2>5. Good(r)  BY <2>3, <2>4 DEF Good, Filling
  <2> QED  BY <1>1, <2>1, <2>4, <2>5, StopIs, BecomesIs
<1> QED  BY <1>2, WatchType DEF LoadSession, TypeInv, UserInv

LEMMA LoadHoldingsType ==
  ASSUME TypeInv, NEW f \in Flow, LoadHoldings(f)
  PROVE  TypeInv' /\ run'[f].pc = "decide" /\ run'[Other(f)] = run[Other(f)]
<1>1. RunInv /\ run[f] \in Runs  BY DEF TypeInv, RunInv
<1>2. RunInv' /\ run'[f].pc = "decide" /\ run'[Other(f)] = run[Other(f)]
  <2> DEFINE total == Worth(position) + run[f].cash
             high  == IF peak > total THEN peak ELSE total
             r     == [run[f] EXCEPT !.pc = "decide", !.held = position, !.peak = high]
  <2>1. Becomes(f, r)  BY DEF LoadHoldings
  <2>2. high \in Int /\ "decide" \in Steps /\ position \in Holdings
    <3>1. position.qty \in Nat /\ position.mark \in Nat  BY DEF TypeInv, Holdings
    <3>2. Worth(position) \in Int  BY <3>1 DEF Worth
    <3>3. run[f].cash \in Int /\ peak \in Int  BY <1>1 DEF TypeInv, Runs
    <3> QED  BY <3>2, <3>3 DEF TypeInv, Steps
  <2> HIDE DEF high
  <2>3. r \in Runs  BY <1>1, <2>2, Zenon DEF Runs
  <2>4. r.pc = "decide"  BY <1>1, SMT DEF Runs
  <2> HIDE DEF r
  <2>5. Good(r)  BY <2>3, <2>4 DEF Good, Filling
  <2> QED  BY <1>1, <2>1, <2>4, <2>5, BecomesIs
<1> QED  BY <1>2, WatchType DEF LoadHoldings, TypeInv, UserInv

\* The strategy is told a context the rules can compute with.
LEMMA ContextIs ==
  ASSUME TypeInv, NEW f \in Flow
  PROVE  IsContext(Context(f))
<1>1. run[f] \in Runs  BY DEF TypeInv, RunInv
<1>2. /\ run[f].held.qty \in Nat /\ run[f].held.avg \in Nat /\ run[f].cash \in Int
      /\ run[f].par \in Params
  BY <1>1 DEF Runs, Holdings
<1>3. session.quota \in Nat /\ Cycles \in Nat \ {0} /\ market \in Views
  BY ViewAssumption, CapitalAssumption DEF TypeInv, Sessions
<1> QED  BY <1>2, <1>3, SMT DEF Context, IsContext

LEMMA CoveredOrders ==
  ASSUME NEW c, NEW s \in Seq(CoveredBy(c))
  PROVE  s \in Seq(Orders)
<1>1. CoveredBy(c) \subseteq Orders  BY DEF CoveredBy, Orders
<1> QED  BY <1>1

LEMMA CarriedIs ==
  ASSUME NEW c, IsContext(c), c.day \in Nat, NEW buys, NEW second
  PROVE  Carried(c, buys, second) \in Params
<1> DEFINE left  == Rest(c.quota, Invested(c))
           onBuy == Least(CarryOut(c), left)
           grown == Least(c.par.carried + PerCycle(c), left)
<1>1. left \in Nat  BY ContextFields DEF Rest, IsContext
<1>2. CarryOut(c) \in Nat
  <2>1. Rest(c.quota, Invested(c)) \in Nat  BY <1>1
  <2>2. DailyCap(c) \in Int  BY ContextFields DEF DailyCap
  <2>3. InfiniteAmount(c) \in Int
    <3> DEFINE b == Least(PerCycle(c) + c.par.carried, Rest(c.quota, Invested(c)))
    <3>1. b \in Int  BY <2>1, ContextFields DEF Least
    <3>2. c.view.scale \in Nat  BY ContextFields
    <3>3. (b * c.view.scale) \div 100 \in Int
      <4> HIDE DEF b
      <4> QED  BY <3>1, <3>2, SMT
    <3> QED  BY <3>3 DEF InfiniteAmount
  <2>4. Rest(InfiniteAmount(c), DailyCap(c)) \in Nat  BY <2>2, <2>3 DEF Rest
  <2> QED  BY <2>4 DEF CarryOut
<1>3. onBuy \in Nat /\ grown \in Nat  BY <1>1, <1>2, ContextFields DEF Least
<1>4. c.par \in Params  BY DEF IsContext
<1> HIDE DEF onBuy, grown
<1>5. /\ [c.par EXCEPT !.carried = onBuy, !.carriedOn = c.day] \in Params
      /\ [c.par EXCEPT !.carried = grown, !.carriedOn = c.day] \in Params
  BY <1>3, <1>4, Zenon DEF Params
<1> QED  BY <1>4, <1>5, Zenon DEF Carried, onBuy, grown

LEMMA DecideType ==
  ASSUME TypeInv, NEW f \in Flow, Decide(f)
  PROVE  TypeInv' /\ run'[f].pc \in {"idle", "act"} /\ run'[Other(f)] = run[Other(f)]
<1> DEFINE c       == Context(f)
           signals == Evaluate(c)
           buys    == \E i \in DOMAIN signals : signals[i].side = "BUY"
           second  == \E i \in DOMAIN signals : signals[i].phase = "take-profit-2"
           write   == ~Routine(c)
           after   == Carried(c, buys, second)
           r       == [IdleRun EXCEPT !.pc = "act", !.jobs = signals, !.quote = market.price,
                                      !.after = after, !.write = write]
<1>1. IsContext(c) /\ c.day \in Nat  BY ContextIs DEF Context, TypeInv
<1>2. Stop(f) \/ Becomes(f, r)  BY DEF Decide
<1>3. signals \in Seq(Orders)
  <2> HIDE DEF c
  <2> QED  BY <1>1, SignalsCovered, CoveredOrders
<1>4. after \in Params
  <2> HIDE DEF c, buys, second
  <2> QED  BY <1>1, CarriedIs
<1>5. write \in BOOLEAN  BY DEF Routine
<1>6. market.price \in Nat /\ "act" \in Steps  BY ViewAssumption DEF TypeInv, Views, Steps
<1> HIDE DEF c, signals, after, write
<1>7. r \in Runs  BY <1>3, <1>4, <1>5, <1>6, IdleIs, Zenon DEF Good, Runs
<1>8. r.pc = "act"  BY SMT DEF IdleRun
<1> HIDE DEF r
<1>9. Good(r)  BY <1>7, <1>8 DEF Good, Filling
<1>10. RunInv' /\ run'[f].pc \in {"idle", "act"} /\ run'[Other(f)] = run[Other(f)]
  BY <1>2, <1>8, <1>9, StopIs, BecomesIs DEF TypeInv
<1> QED  BY <1>10, WatchType DEF Decide, TypeInv, UserInv

\* What a step of the other flow leaves of a fill in progress.
Undisturbed(f) == /\ run'[f].pc = run[f].pc /\ run'[f].quote = run[f].quote /\ run'[f].old = run[f].old
                  /\ run[f].jobs # <<>> => Head(run'[f].jobs) = Head(run[f].jobs)

LEMMA ActType ==
  ASSUME TypeInv, NEW f \in Flow, Act(f)
  PROVE  TypeInv' /\ run'[f].pc \in {"book", "act"} /\ Undisturbed(Other(f))
         /\ session'.cash = session.cash /\ session'.quota = session.quota
<1> DEFINE o == Other(f)
           s == Job(f)
<1>1. /\ RunInv /\ Good(run[f]) /\ Good(run[o]) /\ run[f] \in Runs /\ run[o] \in Runs
      /\ run[f].pc = "act" /\ run[f].jobs # <<>>
  BY OtherFlow DEF TypeInv, RunInv, Act
<1>2. s \in Orders  BY <1>1 DEF Job, Runs
<1>3. CASE CanFillAtPrice(s, run[f].quote)
  <2> DEFINE r == [run[f] EXCEPT !.pc = "book", !.loop = "act"]
  <2>1. Becomes(f, r) /\ UNCHANGED <<session, pending>>  BY <1>3 DEF Act
  <2>2. "book" \in Steps /\ "act" \in {"idle", "walk", "act"}  BY DEF Steps
  <2>3. r \in Runs  BY <1>1, <2>2, Zenon DEF Runs
  <2>4. r.pc = "book" /\ r.jobs = run[f].jobs  BY <1>1, SMT DEF Runs
  <2> HIDE DEF r
  <2>5. Good(r)  BY <1>1, <2>3, <2>4 DEF Good
  <2>6. RunInv' /\ run'[f].pc = "book" /\ run'[o] = run[o]  BY <1>1, <2>1, <2>4, <2>5, BecomesIs
  <2> QED  BY <2>1, <2>6, WatchType DEF Act, TypeInv, UserInv, Undisturbed
<1>4. CASE ~CanFillAtPrice(s, run[f].quote)
  <2> DEFINE js == IF run[o].live THEN Append(run[o].jobs, s) ELSE run[o].jobs
             r == [run[f] EXCEPT !.jobs = Tail(run[f].jobs)]
             q == [run[o] EXCEPT !.jobs = js]
  <2>1. Both(f, r, q)  BY <1>4 DEF Act
  <2>2. js \in Seq(Orders) /\ Tail(run[f].jobs) \in Seq(Orders)  BY <1>1, <1>2, SMT DEF Runs
  <2>3. run[o].jobs # <<>> => js # <<>> /\ Head(js) = Head(run[o].jobs)
    <3>1. run[o].jobs \in Seq(Orders)  BY <1>1 DEF Runs
    <3> QED  BY <1>2, <3>1, SMT
  <2> HIDE DEF js
  <2>4. r \in Runs /\ q \in Runs  BY <1>1, <2>2, Zenon DEF Runs
  <2>5. r.pc = "act" /\ q.pc = run[o].pc /\ q.quote = run[o].quote /\ q.old = run[o].old /\ q.jobs = js
    BY <1>1, SMT DEF Runs
  <2> HIDE DEF r, q
  <2>6. Good(r)  BY <2>4, <2>5 DEF Good, Filling
  <2>7. Good(q)
    <3>1. q.pc \in Filling => run[o].jobs # <<>>  BY <1>1, <2>5 DEF Good
    <3>2. q.pc \in {"trade", "position"} => q.pc \in Filling  BY DEF Filling
    <3> QED  BY <1>1, <2>3, <2>4, <2>5, <3>1, <3>2 DEF Good
  <2>8. RunInv' /\ run'[f].pc = "act" /\ Undisturbed(o)
    BY <1>1, <2>1, <2>3, <2>5, <2>6, <2>7, BothIs DEF Undisturbed
  <2>9. pending' \in Seq(Orders)
    <3>1. pending' = Append(pending, s) /\ pending \in Seq(Orders)  BY <1>4, Zenon DEF Act, TypeInv
    <3> HIDE DEF s
    <3> QED  BY <1>2, <3>1, SMT
  <2>10. session' \in Sessions /\ session'.cash = session.cash /\ session'.quota = session.quota
    <3> DEFINE plan == [session.par.plan EXCEPT !.tried = day]
               par  == [session.par EXCEPT !.plan = plan]
               new  == [session EXCEPT !.par = par]
    <3>1. session' = session \/ session' = new  BY <1>4 DEF Act
    <3>2. session \in Sessions /\ session.par \in Params /\ session.par.plan \in Plans /\ day \in Nat
      BY DEF TypeInv, Sessions, Params
    <3>3. plan \in Plans  BY <3>2, Zenon DEF Plans
    <3> HIDE DEF plan
    <3>4. par \in Params  BY <3>2, <3>3, Zenon DEF Params
    <3> HIDE DEF par
    <3>5. new \in Sessions  BY <3>2, <3>4, Zenon DEF Sessions
    <3>6. new.cash = session.cash /\ new.quota = session.quota  BY <3>2, SMT DEF Sessions
    <3> QED  BY <3>1, <3>2, <3>5, <3>6
  <2> QED  BY <2>8, <2>9, <2>10, WatchType DEF Act, TypeInv, UserInv
<1> QED  BY <1>3, <1>4

LEMMA EndTickType ==
  ASSUME TypeInv, NEW f \in Flow, EndTick(f)
  PROVE  TypeInv' /\ run'[f].pc = "idle" /\ run'[Other(f)] = run[Other(f)]
         /\ session'.cash = session.cash /\ session'.quota = session.quota
<1>1. RunInv /\ run[f] \in Runs  BY DEF TypeInv, RunInv
<1>2. RunInv' /\ run'[f].pc = "idle" /\ run'[Other(f)] = run[Other(f)]
  BY <1>1, StopIs DEF EndTick
<1>3. session' \in Sessions /\ session'.cash = session.cash /\ session'.quota = session.quota
  <2> DEFINE new == [session EXCEPT !.par = run[f].after]
  <2>1. session' = session \/ session' = new  BY DEF EndTick
  <2>2. session \in Sessions /\ run[f].after \in Params  BY <1>1 DEF TypeInv, Runs
  <2>3. new \in Sessions  BY <2>2, Zenon DEF Sessions
  <2>4. new.cash = session.cash /\ new.quota = session.quota  BY <2>2, SMT DEF Sessions
  <2> QED  BY <2>1, <2>2, <2>3, <2>4
<1> QED  BY <1>2, <1>3, WatchType DEF EndTick, TypeInv, UserInv

-----------------------------------------------------------------------------
\* virtualExecute.
LEMMA FillIs ==
  ASSUME TypeInv, NEW f \in Flow, run[f].pc \in Filling
  PROVE  /\ run[f] \in Runs /\ run[f].jobs # <<>> /\ Job(f) \in Orders /\ Good(run[f])
         /\ Job(f).qty \in Nat \ {0} /\ FillPrice(f) \in Nat /\ Amount(f) \in Nat
         /\ Job(f).side \in {"BUY", "SELL"} /\ run[f].old \in Holdings
<1>1. run[f] \in Runs /\ Good(run[f]) /\ run[f].jobs # <<>>  BY DEF TypeInv, RunInv, Good
<1>2. Job(f) \in Orders  BY <1>1 DEF Job, Runs
<1>3. Job(f).qty \in Nat \ {0} /\ Job(f).price \in Nat /\ Job(f).side \in {"BUY", "SELL"}
  BY <1>2 DEF Orders, Signals
<1>4. FillPrice(f) \in Nat  BY <1>1, <1>3 DEF FillPrice, Runs
<1>5. Amount(f) \in Nat  BY <1>3, <1>4 DEF Amount
<1> QED  BY <1>1, <1>2, <1>3, <1>4, <1>5 DEF Runs

LEMMA BookType ==
  ASSUME TypeInv, NEW f \in Flow, Book(f)
  PROVE  /\ TypeInv' /\ run'[Other(f)] = run[Other(f)]
         /\ \/ run'[f].pc \notin Filling
            \/ /\ run'[f].pc = "trade" /\ run'[f].jobs = run[f].jobs
               /\ run'[f].quote = run[f].quote /\ run'[f].old = position
               /\ Job(f).side = "BUY" => Amount(f) <= session.cash
<1>1. /\ RunInv /\ run[f] \in Runs /\ run[f].jobs # <<>> /\ Good(run[f])
      /\ Job(f).qty \in Nat \ {0} /\ Job(f).side \in {"BUY", "SELL"} /\ Amount(f) \in Nat
  BY FillIs DEF TypeInv, Book, Filling
<1>2. session.cash \in Int /\ position.qty \in Nat  BY DEF TypeInv, Sessions, Holdings
<1>3. CASE Becomes(f, NextJob(f))
  <2>1. RunInv' /\ run'[f].pc \notin Filling /\ run'[Other(f)] = run[Other(f)]
    BY <1>1, <1>3, NextJobIs, BecomesIs
  <2> QED  BY <2>1, WatchType DEF Book, TypeInv, UserInv
<1>4. CASE /\ Becomes(f, [run[f] EXCEPT !.pc = "trade", !.old = position])
           /\ ~(Job(f).side = "BUY" /\ Amount(f) > session.cash)
           /\ ~(Job(f).side = "SELL" /\ (position.qty = 0 \/ position.qty < Job(f).qty))
  <2> DEFINE r == [run[f] EXCEPT !.pc = "trade", !.old = position]
  <2>1. "trade" \in Steps /\ position \in Holdings  BY DEF TypeInv, Steps
  <2>2. r \in Runs  BY <1>1, <2>1, Zenon DEF Runs
  <2>3. /\ r.pc = "trade" /\ r.jobs = run[f].jobs /\ r.quote = run[f].quote /\ r.old = position
    BY <1>1, SMT DEF Runs
  <2>4. Becomes(f, r)  BY <1>4
  <2> HIDE DEF r
  <2>5. Job(f).side = "SELL" => Job(f).qty <= position.qty  BY <1>1, <1>2, <1>4
  <2>6. Good(r)  BY <1>1, <2>2, <2>3, <2>5 DEF Good, Job
  <2>7. RunInv' /\ run'[f] = r /\ run'[Other(f)] = run[Other(f)]  BY <1>1, <2>4, <2>6, BecomesIs
  <2>8. Job(f).side = "BUY" => Amount(f) <= session.cash  BY <1>1, <1>2, <1>4
  <2>9. TypeInv'  BY <2>7, WatchType DEF Book, TypeInv, UserInv
  <2> QED  BY <2>3, <2>7, <2>8, <2>9
<1> QED  BY <1>3, <1>4 DEF Book

LEMMA RecordTradeType ==
  ASSUME TypeInv, NEW f \in Flow, RecordTrade(f)
  PROVE  /\ TypeInv' /\ run'[Other(f)] = run[Other(f)]
         /\ run'[f].pc = "position" /\ run'[f].jobs = run[f].jobs /\ run'[f].quote = run[f].quote
         /\ run'[f].old = IF Job(f).side = "BUY" THEN position ELSE run[f].old
<1> DEFINE old == IF Job(f).side = "BUY" THEN position ELSE run[f].old
           r   == [run[f] EXCEPT !.pc = "position", !.old = old]
<1>1. /\ RunInv /\ run[f] \in Runs /\ run[f].jobs # <<>> /\ Good(run[f]) /\ run[f].pc = "trade"
      /\ Job(f).qty \in Nat \ {0} /\ Amount(f) \in Nat /\ run[f].old \in Holdings
  BY FillIs DEF TypeInv, RecordTrade, Filling
<1>2. old \in Holdings /\ "position" \in Steps  BY <1>1 DEF TypeInv, Steps
<1>3. Becomes(f, r)  BY DEF RecordTrade
<1>4. Job(f).side = "SELL" => Job(f).qty <= old.qty  BY <1>1 DEF Good, Job
<1>5. trades' \in [net : Int, shares : Int, last : Nat]
  <2>1. trades.net \in Int /\ trades.shares \in Int /\ day \in Nat  BY DEF TypeInv
  <2> QED  BY <1>1, <2>1, SMT DEF RecordTrade
<1>6. TypeInv' /\ run'[f] = r /\ run'[Other(f)] = run[Other(f)] /\ r.pc = "position"
      /\ r.jobs = run[f].jobs /\ r.quote = run[f].quote /\ r.old = old
  <2> HIDE DEF old
  <2>1. r \in Runs  BY <1>1, <1>2, Zenon DEF Runs
  <2>2. r.pc = "position" /\ r.jobs = run[f].jobs /\ r.quote = run[f].quote /\ r.old = old
    BY <1>1, SMT DEF Runs
  <2> HIDE DEF r
  <2>3. Good(r)  BY <1>1, <1>4, <2>1, <2>2 DEF Good, Job
  <2>4. RunInv' /\ run'[f] = r /\ run'[Other(f)] = run[Other(f)]  BY <1>1, <1>3, <2>3, BecomesIs
  <2>5. TypeInv'  BY <1>5, <2>4, WatchType DEF RecordTrade, TypeInv, UserInv
  <2> QED  BY <2>2, <2>4, <2>5
<1> QED  BY <1>6

LEMMA WritePositionType ==
  ASSUME TypeInv, NEW f \in Flow, WritePosition(f)
  PROVE  /\ TypeInv' /\ run'[Other(f)] = run[Other(f)]
         /\ \/ /\ run'[f].pc = "cash" /\ run'[f].jobs = run[f].jobs /\ run'[f].quote = run[f].quote
               /\ position'.qty = IF Job(f).side = "BUY" THEN run[f].old.qty + Job(f).qty
                                                         ELSE run[f].old.qty - Job(f).qty
            \/ /\ (run[f].old.qty > 0) # (position.qty > 0)
               /\ run'[f].pc = "idle" /\ UNCHANGED position
<1> DEFINE old   == run[f].old
           qty   == Job(f).qty
           price == FillPrice(f)
<1>1. /\ RunInv /\ run[f] \in Runs /\ run[f].jobs # <<>> /\ Good(run[f]) /\ run[f].pc = "position"
      /\ qty \in Nat \ {0} /\ price \in Nat /\ old \in Holdings /\ Job(f).side \in {"BUY", "SELL"}
  BY FillIs DEF TypeInv, WritePosition, Filling
<1>2. /\ Bought(old, qty, price) \in Holdings /\ Bought(old, qty, price).qty = old.qty + qty
  <2> HIDE DEF old, qty, price
  <2>1. old.avg * old.qty + price * qty \in Nat /\ old.qty + qty \in Nat \ {0}
    BY <1>1 DEF Holdings
  <2>2. (old.avg * old.qty + price * qty) \div (old.qty + qty) \in Nat
    <3> DEFINE a == old.avg * old.qty + price * qty
               b == old.qty + qty
    <3> HIDE DEF a, b
    <3>1. a \div b \in Nat  BY <2>1, DivBound DEF a, b
    <3> QED  BY <3>1 DEF a, b
  <2> QED  BY <1>1, <2>1, <2>2 DEF Bought, Holdings
<1>3. Job(f).side = "SELL" => /\ Sold(old, qty, price) \in Holdings
                              /\ Sold(old, qty, price).qty = old.qty - qty
  <2>1. Job(f).side = "SELL" => qty <= old.qty  BY <1>1 DEF Good, Job
  <2> HIDE DEF old, qty, price
  <2>2. old.qty \in Nat  BY <1>1 DEF Holdings
  <2>3. CASE old.qty = qty
    <3>1. Sold(old, qty, price) = NoPosition  BY <2>3 DEF Sold
    <3> QED  BY <2>2, <2>3, <3>1, IdleIs DEF NoPosition
  <2>4. CASE old.qty # qty /\ qty <= old.qty
    <3>1. old.qty - qty \in Nat  BY <1>1, <2>2, <2>4
    <3>2. Sold(old, qty, price) = [old EXCEPT !.qty = old.qty - qty, !.mark = price]
      BY <2>4 DEF Sold
    <3>3. [old EXCEPT !.qty = old.qty - qty, !.mark = price] \in Holdings
      BY <1>1, <3>1, Zenon DEF Holdings
    <3> QED  BY <1>1, <3>2, <3>3 DEF Holdings
  <2> QED  BY <2>1, <2>3, <2>4
<1>4. CASE (old.qty > 0) = (position.qty > 0)
  <2>1. Go(f, "cash")  BY <1>4 DEF WritePosition
  <2>2. /\ RunInv' /\ run'[f].pc = "cash" /\ run'[f].jobs = run[f].jobs
        /\ run'[f].quote = run[f].quote /\ run'[Other(f)] = run[Other(f)]
    BY <1>1, <2>1, GoIs DEF Steps, Filling
  <2>3. position' = IF Job(f).side = "BUY" THEN Bought(old, qty, price) ELSE Sold(old, qty, price)
    BY <1>4 DEF WritePosition
  <2>4. position' \in Holdings
        /\ position'.qty = IF Job(f).side = "BUY" THEN old.qty + qty ELSE old.qty - qty
    BY <1>1, <1>2, <1>3, <2>3
  <2>5. TypeInv'  BY <2>2, <2>4, WatchType DEF WritePosition, TypeInv, UserInv
  <2> QED  BY <2>2, <2>4, <2>5
<1>5. CASE (old.qty > 0) # (position.qty > 0)
  <2>1. Stop(f) /\ UNCHANGED position  BY <1>5 DEF WritePosition
  <2>2. RunInv' /\ run'[f].pc = "idle" /\ run'[Other(f)] = run[Other(f)]  BY <1>1, <2>1, StopIs
  <2>3. TypeInv'  BY <2>1, <2>2, WatchType DEF WritePosition, TypeInv, UserInv
  <2> QED  BY <1>5, <2>1, <2>2, <2>3
<1> QED  BY <1>4, <1>5

LEMMA MoveCashType ==
  ASSUME TypeInv, NEW f \in Flow, MoveCash(f)
  PROVE  /\ TypeInv' /\ run'[Other(f)] = run[Other(f)] /\ run'[f].pc = "remember"
         /\ session'.quota = session.quota /\ session'.cash = session.cash + Signed(f)
<1>1. /\ RunInv /\ run[f].jobs # <<>> /\ Amount(f) \in Nat
  BY FillIs DEF TypeInv, MoveCash, Filling
<1>2. RunInv' /\ run'[f].pc = "remember" /\ run'[Other(f)] = run[Other(f)]
  BY <1>1, GoIs DEF MoveCash, Steps, Filling
<1>3. /\ session' \in Sessions /\ session'.quota = session.quota
      /\ session'.cash = session.cash + Signed(f)
  <2> DEFINE cash == IF Job(f).side = "BUY" THEN session.cash - Amount(f) ELSE session.cash + Amount(f)
  <2>1. session \in Sessions /\ session.cash \in Int  BY DEF TypeInv, Sessions
  <2>2. cash \in Int /\ cash = session.cash + Signed(f)  BY <1>1, <2>1 DEF Signed
  <2>3. session' = [session EXCEPT !.cash = cash]  BY DEF MoveCash
  <2> HIDE DEF cash
  <2>4. [session EXCEPT !.cash = cash] \in Sessions  BY <2>1, <2>2, Zenon DEF Sessions
  <2> QED  BY <2>1, <2>2, <2>3, <2>4 DEF Sessions
<1> QED  BY <1>2, <1>3, WatchType DEF MoveCash, TypeInv, UserInv

LEMMA RememberType ==
  ASSUME TypeInv, NEW f \in Flow, Remember(f)
  PROVE  /\ TypeInv' /\ run'[Other(f)] = run[Other(f)] /\ run'[f].pc \notin Filling
         /\ session'.quota = session.quota /\ session'.cash = session.cash
<1>1. /\ RunInv /\ run[f].jobs # <<>> /\ Job(f) \in Orders /\ run[f].old.qty \in Int
      /\ run[f].old.qty - Job(f).qty \in Int
  <2>1. /\ run[f].pc \in Filling /\ RunInv  BY DEF TypeInv, Remember, Filling
  <2>2. /\ run[f].jobs # <<>> /\ Job(f) \in Orders /\ Job(f).qty \in Nat \ {0}
        /\ run[f].old \in Holdings
    BY <2>1, FillIs
  <2>3. run[f].old.qty \in Nat  BY <2>2 DEF Holdings
  <2> QED  BY <2>1, <2>2, <2>3
<1>2. RunInv' /\ run'[f].pc \notin Filling /\ run'[Other(f)] = run[Other(f)]
  BY <1>1, NextJobIs, BecomesIs DEF Remember
<1>3. session' \in Sessions /\ session'.quota = session.quota /\ session'.cash = session.cash
  <2> DEFINE par ==
        CASE strategy = "momentum-breakout"   -> MomentumFill(session.par, Job(f), run[f].old.qty, day)
          [] strategy = "grid-mean-reversion" -> GridFill(session.par, Job(f), run[f].old.qty)
          [] strategy = "infinite-buy"        -> PlanFill(session.par, Job(f), run[f].old.qty - Job(f).qty, day)
          [] OTHER                            -> session.par
  <2>1. session \in Sessions /\ session.par \in Params /\ day \in Nat  BY DEF TypeInv, Sessions
  <2>2. par \in Params  BY <1>1, <2>1, FillParams DEF Orders
  <2>3. session' = [session EXCEPT !.par = par]  BY DEF Remember
  <2> HIDE DEF par
  <2>4. [session EXCEPT !.par = par] \in Sessions  BY <2>1, <2>2, Zenon DEF Sessions
  <2> QED  BY <2>1, <2>3, <2>4 DEF Sessions
<1> QED  BY <1>2, <1>3, WatchType DEF Remember, TypeInv, UserInv

-----------------------------------------------------------------------------
\* The clock and the user.
LEMMA NextMinuteType ==
  ASSUME TypeInv, NextMinute
  PROVE  TypeInv' /\ \A f \in Flow : Undisturbed(f)
<1>1. /\ session.cash \in Int /\ session.quota \in Int /\ position.qty \in Nat /\ position.mark \in Nat
      /\ peak \in Int /\ minute \in Nat /\ pending \in Seq(Orders)
  BY DEF TypeInv, Sessions, Holdings
<1>2. Worth(position) + session.cash \in Int
  <2>1. Worth(position) \in Int  BY <1>1 DEF Worth
  <2> QED  BY <1>1, <2>1
<1>3. peak' \in Int
  <2> DEFINE total == Worth(position) + session.cash
  <2>1. peak' \in {peak, session.quota, total}  BY DEF NextMinute
  <2> HIDE DEF total
  <2> QED  BY <1>1, <1>2, <2>1 DEF total
<1>4. RunInv' /\ \A f \in Flow : Undisturbed(f)
  <2>1. CASE run' = run  BY <2>1 DEF TypeInv, RunInv, Undisturbed
  <2>2. CASE run' = [f \in Flow |-> Unlinked(run[f])]
    BY <2>2, AllUnlinked DEF TypeInv, Undisturbed
  <2> QED  BY <2>1, <2>2 DEF NextMinute
<1>5. pending' \in Seq(Orders)
  <2>1. pending' = pending \/ pending' = <<>>  BY Zenon DEF NextMinute
  <2>2. <<>> \in Seq(Orders)  OBVIOUS
  <2> QED  BY <1>1, <2>1, <2>2, Zenon
<1>6. market' \in View /\ cron' \in BOOLEAN /\ minute' \in Nat  BY <1>1 DEF NextMinute, TypeInv
<1> QED  BY <1>3, <1>4, <1>5, <1>6, WatchType DEF NextMinute, TypeInv, UserInv

LEMMA NextDayType ==
  ASSUME TypeInv, NextDay
  PROVE  TypeInv'
<1>1. RunInv'  BY DEF NextDay, TypeInv, RunInv
<1>2. day' \in Nat /\ minute' \in Nat /\ cron' \in BOOLEAN /\ market' \in View
  BY DEF NextDay, TypeInv
<1> QED  BY <1>1, <1>2, WatchType DEF NextDay, TypeInv, UserInv

LEMMA EditIs ==
  ASSUME TypeInv, Edit
  PROVE  count' \in [manual : Nat, edit : Nat] /\ user.pc = "idle"
<1>1. count.edit + 1 \in Nat /\ count \in [manual : Nat, edit : Nat]  BY DEF TypeInv
<1>2. [count EXCEPT !.edit = count.edit + 1] \in [manual : Nat, edit : Nat]  BY <1>1, Zenon
<1> QED  BY <1>2 DEF Edit

LEMMA SetStatusType ==
  ASSUME TypeInv, SetStatus
  PROVE  TypeInv' /\ session'.cash = session.cash /\ session'.quota = session.quota
<1>1. PICK s \in {"RUNNING", "PAUSED"} : session' = [session EXCEPT !.status = s]
  BY DEF SetStatus
<1>2. session \in Sessions  BY DEF TypeInv
<1>3. [session EXCEPT !.status = s] \in Sessions  BY <1>2, Zenon DEF Sessions
<1>4. session'.cash = session.cash /\ session'.quota = session.quota
  BY <1>1, <1>2, SMT DEF Sessions
<1>5. RunInv'  BY DEF SetStatus, TypeInv, RunInv
<1>6. session' \in Sessions  BY <1>1, <1>3
<1> QED  BY <1>4, <1>5, <1>6, EditIs, WatchType DEF SetStatus, TypeInv, UserInv

LEMMA ReadSettingsType ==
  ASSUME TypeInv, ReadSettings
  PROVE  /\ TypeInv' /\ user'.pc = "settings" /\ user'.cash = session.cash
         /\ user'.quota = session.quota /\ session.cash + user'.new - session.quota >= 0
<1>1. PICK q \in Quotas :
        /\ session.cash + q - session.quota >= 0
        /\ user' = [user EXCEPT !.pc = "settings", !.cash = session.cash, !.quota = session.quota,
                                !.par = session.par, !.new = q]
  BY DEF ReadSettings
<1> DEFINE u == [user EXCEPT !.pc = "settings", !.cash = session.cash, !.quota = session.quota,
                             !.par = session.par, !.new = q]
<1>2. /\ user \in Users /\ session.cash \in Int /\ session.quota \in Nat /\ session.quota > 0
      /\ session.par \in Params /\ q \in Nat /\ q > 0
  BY CapitalAssumption DEF TypeInv, UserInv, Sessions
<1>3. u \in Users
  <2>1. "settings" \in {"idle", "settings", "reset"}  OBVIOUS
  <2> QED  BY <1>2, <2>1, Zenon DEF Users
<1>4. /\ u.pc = "settings" /\ u.cash = session.cash /\ u.quota = session.quota /\ u.new = q
  BY <1>2, SMT DEF Users
<1>5. user' = u  BY <1>1
<1> HIDE DEF u
<1>6. UserInv'  BY <1>2, <1>3, <1>4, <1>5 DEF UserInv
<1>7. RunInv'  BY DEF ReadSettings, TypeInv, RunInv
<1>8. TypeInv'  BY <1>6, <1>7, EditIs, WatchType DEF ReadSettings, TypeInv
<1> QED  BY <1>1, <1>4, <1>5, <1>8

LEMMA WriteSettingsType ==
  ASSUME TypeInv, WriteSettings
  PROVE  /\ TypeInv' /\ user'.pc = "idle" /\ session'.quota = user.new
         /\ session'.cash = user.cash + user.new - user.quota
<1>1. /\ user \in Users /\ user.quota > 0 /\ user.new > 0 /\ session \in Sessions
      /\ user.quota \in Nat /\ user.new \in Nat /\ user.cash \in Int
      /\ user.par \in Params /\ session.par \in Params /\ user.par.carried \in Nat
  BY DEF TypeInv, UserInv, WriteSettings, Users, Sessions, Params
<1> DEFINE par  == IF strategy = "infinite-buy" /\ user.new # user.quota /\ user.par.carried > 0
                   THEN Rebased(user.par, user.quota, user.new) ELSE session.par
           cash == user.cash + user.new - user.quota
           new  == [session EXCEPT !.quota = user.new, !.cash = cash, !.par = par]
<1>2. Rebased(user.par, user.quota, user.new) \in Params
  <2> DEFINE a == user.par.carried * user.new
             b == user.quota
  <2>1. a \in Nat /\ b \in Nat /\ b > 0  BY <1>1
  <2> HIDE DEF a, b
  <2>2. a \div b \in Nat  BY <2>1, DivBound
  <2>3. [user.par EXCEPT !.carried = a \div b] \in Params  BY <1>1, <2>2, Zenon DEF Params
  <2> QED  BY <2>3 DEF Rebased, a, b
<1>3. par \in Params /\ cash \in Int /\ user.new \in Nat \ {0}  BY <1>1, <1>2
<1>4. session' = new  BY DEF WriteSettings
<1>5. session' \in Sessions /\ session'.quota = user.new /\ session'.cash = cash
  <2> HIDE DEF par, cash
  <2>1. new \in Sessions  BY <1>1, <1>3, Zenon DEF Sessions
  <2> QED  BY <1>1, <1>4, <2>1 DEF Sessions
<1>6. UserInv' /\ user'.pc = "idle"
  <2>1. IdleUser \in Users /\ IdleUser.pc = "idle"  BY IdleIs DEF IdleUser, Users
  <2> QED  BY <2>1 DEF WriteSettings, UserInv
<1>7. RunInv'  BY DEF WriteSettings, TypeInv, RunInv
<1>8. TypeInv'  BY <1>5, <1>6, <1>7, WatchType DEF WriteSettings, TypeInv
<1> QED  BY <1>5, <1>6, <1>8

LEMMA WipeType ==
  ASSUME TypeInv, Wipe
  PROVE  /\ TypeInv' /\ user'.pc = "reset" /\ user'.quota = session.quota
         /\ trades'.net = 0 /\ trades'.shares = 0 /\ position'.qty = 0
         /\ \A f \in Flow : Undisturbed(f)
<1> DEFINE u == [user EXCEPT !.pc = "reset", !.quota = session.quota, !.par = session.par]
<1>1. user \in Users /\ session.quota \in Nat /\ session.quota > 0 /\ session.par \in Params
  BY DEF TypeInv, UserInv, Sessions
<1>2. u \in Users
  <2>1. "reset" \in {"idle", "settings", "reset"}  OBVIOUS
  <2> QED  BY <1>1, <2>1, Zenon DEF Users
<1>3. u.pc = "reset" /\ u.quota = session.quota  BY <1>1, SMT DEF Users
<1>4. user' = u  BY DEF Wipe
<1> HIDE DEF u
<1>5. UserInv'  BY <1>1, <1>2, <1>3, <1>4 DEF UserInv
<1>6. RunInv' /\ \A f \in Flow : Undisturbed(f)  BY AllUnlinked DEF Wipe, TypeInv, Undisturbed
<1>7. NoTrades \in [net : Int, shares : Int, last : Nat]  BY NoDayAssumption DEF NoTrades
<1>8. /\ trades' = NoTrades /\ position' = NoPosition /\ peak' = 0 /\ pending' = <<>>
      /\ pending' \in Seq(Orders)
  BY DEF Wipe
<1>9. TypeInv'  BY <1>5, <1>6, <1>7, <1>8, EditIs, IdleIs, WatchType DEF Wipe, TypeInv
<1> QED  BY <1>3, <1>4, <1>6, <1>8, <1>9 DEF NoTrades, NoPosition

LEMMA RestartType ==
  ASSUME TypeInv, Restart
  PROVE  /\ TypeInv' /\ user'.pc = "idle"
         /\ session'.quota = session.quota /\ session'.cash = user.quota
<1>1. /\ user \in Users /\ session \in Sessions /\ user.quota \in Nat /\ user.par \in Params
  BY DEF TypeInv, UserInv, Users
<1> DEFINE par == [user.par EXCEPT !.plan = NoPlan, !.carried = 0, !.carriedOn = NoDay]
           new == [session EXCEPT !.status = "RUNNING", !.cash = user.quota, !.par = par]
<1>2. par \in Params
  <2>1. NoPlan \in Plans /\ 0 \in Nat /\ NoDay \in Nat  BY NoDayAssumption DEF NoPlan, Plans
  <2> QED  BY <1>1, <2>1, Zenon DEF Params
<1>3. session' = new  BY DEF Restart
<1>4. session' \in Sessions /\ session'.quota = session.quota /\ session'.cash = user.quota
  <2> HIDE DEF par
  <2>1. "RUNNING" \in {"RUNNING", "PAUSED"} /\ user.quota \in Int  BY <1>1
  <2>2. new \in Sessions  BY <1>1, <1>2, <2>1, Zenon DEF Sessions
  <2> QED  BY <1>1, <1>3, <2>2 DEF Sessions
<1>5. UserInv' /\ user'.pc = "idle"
  <2>1. IdleUser \in Users /\ IdleUser.pc = "idle"  BY IdleIs DEF IdleUser, Users
  <2> QED  BY <2>1 DEF Restart, UserInv
<1>6. RunInv'  BY DEF Restart, TypeInv, RunInv
<1>7. TypeInv'  BY <1>4, <1>5, <1>6, WatchType DEF Restart, TypeInv
<1> QED  BY <1>4, <1>5, <1>7

-----------------------------------------------------------------------------
(* Types: what the rules compute from any market and any parameters a fill  *)
(* left behind are whole shares again, so that no division of               *)
(* virtualExecute or of the carried quota is by zero and no sale is of more *)
(* than the position it was checked against.                                *)
LEMMA TypeInit ==
  ASSUME Init
  PROVE  TypeInv
<1>1. session \in Sessions  BY CapitalAssumption, IdleIs DEF Init, Sessions
<1>2. strategy \in Strategies  BY StrategyAssumption DEF Init
<1>3. RunInv  BY IdleIs DEF Init, RunInv, Good
<1>4. IdleUser \in Users /\ IdleUser.pc = "idle"  BY IdleIs DEF IdleUser, Users
<1>5. UserInv  BY <1>4 DEF Init, UserInv
<1>6. position \in Holdings  BY IdleIs DEF Init
<1>7. trades \in [net : Int, shares : Int, last : Nat]  BY NoDayAssumption DEF Init, NoTrades
<1>8. count \in [manual : Nat, edit : Nat] /\ audit \in Audits  BY DEF Init, NothingYet, Audits
<1>9. pending \in Seq(Orders)  BY DEF Init
<1>10. day \in Nat /\ minute \in Nat /\ cron \in BOOLEAN /\ market \in View /\ peak \in Int
  BY DEF Init
<1> QED  BY <1>1, <1>2, <1>3, <1>5, <1>6, <1>7, <1>8, <1>9, <1>10 DEF TypeInv

LEMMA TypeStep ==
  ASSUME TypeInv, [Next]_vars
  PROVE  TypeInv'
<1>1. ASSUME NEW f \in Flow, Step(f)  PROVE TypeInv'
  BY <1>1, CheckPendingType, WalkPendingType, EndWalkType, LoadSessionType, LoadHoldingsType,
     DecideType, ActType, EndTickType, BookType, RecordTradeType, WritePositionType, MoveCashType,
     RememberType, Zenon DEF Step
<1>2. CASE UNCHANGED vars  BY <1>2 DEF vars, TypeInv, RunInv, UserInv
<1> QED
  BY <1>1, <1>2, StartTickType, MarkPositionType, StartManualType, GuardManualType,
     NextMinuteType, NextDayType, SetStatusType, ReadSettingsType, WriteSettingsType, WipeType,
     RestartType, Zenon DEF Next

(* TypeOK: what the ticks, the manual runs and the user write to a session  *)
(* keeps its type.  Every waiting order has a positive quantity and every   *)
(* quota is positive, without which a fill or a rebasing would divide by 0. *)
THEOREM SessionTypeCorrect == Spec => []TypeOK
<1>1. TypeInv => TypeOK  BY DEF TypeInv, TypeOK, RunInv, UserInv, Audits
<1> QED  BY <1>1, TypeInit, TypeStep, PTL DEF Spec

-----------------------------------------------------------------------------
(* The books.  Each part says what holds in the middle of a fill as well:   *)
(* which of the trade, the position and the cash a fill has written, and    *)
(* that what it read has not been changed under it while the flows take     *)
(* turns.                                                                   *)
Alone == ~audit.raced /\ ~audit.overlap

RunTurns == /\ ~audit.overlap => \E f \in Flow : run[f].pc = "idle"
            /\ (~audit.raced /\ user.pc # "idle") => \A f \in Flow : run[f].pc = "idle"

CashInv ==
  /\ (~audit.raced /\ user.pc = "settings") => user.cash = session.cash /\ user.quota = session.quota
  /\ (~audit.raced /\ user.pc = "reset") => user.quota = session.quota /\ trades.net = 0
  /\ (~audit.raced /\ ~audit.aborted /\ user.pc # "reset")
       => session.cash = session.quota + trades.net - Unpaid("tick") - Unpaid("manual")

ReadIsCurrent(f) == (run[f].pc = "position" \/ (run[f].pc = "trade" /\ Job(f).side = "SELL"))
                       => run[f].old.qty = position.qty
SharesInv == Alone => /\ position.qty = trades.shares - Unheld("tick") - Unheld("manual")
                      /\ \A f \in Flow : ReadIsCurrent(f)

Affordable(f) == (run[f].pc \in {"trade", "position", "cash"} /\ Job(f).side = "BUY")
                    => Amount(f) <= session.cash
FundsInv == /\ user.pc = "settings" => user.cash + user.new - user.quota >= 0
            /\ Alone => session.cash >= 0 /\ \A f \in Flow : Affordable(f)

Books == TypeInv /\ RunTurns /\ CashInv /\ SharesInv /\ FundsInv

LEMMA UnpaidIs ==
  ASSUME TypeInv, NEW f \in Flow
  PROVE  Unpaid(f) \in Int /\ Unheld(f) \in Int
<1>1. CASE run[f].pc \in Filling
  <2>1. Amount(f) \in Nat /\ Job(f).qty \in Nat  BY <1>1, FillIs
  <2> QED  BY <2>1 DEF Unpaid, Unheld, Signed
<1>2. CASE run[f].pc \notin Filling  BY <1>2 DEF Unpaid, Unheld, Filling
<1> QED  BY <1>1, <1>2

LEMMA NextUnpaidIs ==        \* the same of the next state
  ASSUME TypeInv', NEW f \in Flow
  PROVE  Unpaid(f)' \in Int /\ Unheld(f)' \in Int
<1> DEFINE r == run'[f]
           j == Head(r.jobs)
<1>1. Good(r)  BY DEF TypeInv, RunInv
<1>2. CASE r.pc \in Filling
  <2>1. j \in Orders /\ r.quote \in Nat  BY <1>1, <1>2 DEF Good, Runs
  <2>2. j.qty \in Nat /\ j.price \in Nat  BY <2>1 DEF Orders, Signals
  <2>3. (IF j.price > 0 THEN j.price ELSE r.quote) * j.qty \in Nat  BY <2>1, <2>2
  <2>4. Amount(f)' \in Nat /\ Job(f)'.qty \in Nat  BY <2>2, <2>3 DEF Amount, FillPrice, Job
  <2> QED  BY <2>4 DEF Unpaid, Unheld, Signed
<1>3. CASE r.pc \notin Filling  BY <1>3 DEF Unpaid, Unheld, Filling
<1> QED  BY <1>2, <1>3

LEMMA Numbers ==
  ASSUME TypeInv
  PROVE  /\ session.cash \in Int /\ session.quota \in Int /\ trades.net \in Int
         /\ trades.shares \in Int /\ position.qty \in Int
         /\ user.cash \in Int /\ user.quota \in Int /\ user.new \in Int
  BY DEF TypeInv, Sessions, Holdings, UserInv, Users

LEMMA UndisturbedIs ==
  ASSUME TypeInv, NEW f \in Flow, Undisturbed(f)
  PROVE  /\ Unpaid(f)' = Unpaid(f) /\ Unheld(f)' = Unheld(f)
         /\ run'[f].pc = run[f].pc
         /\ run[f].pc \in Filling => /\ Job(f)' = Job(f) /\ Amount(f)' = Amount(f)
                                     /\ run'[f].old = run[f].old
<1>1. ASSUME run[f].pc \in Filling  PROVE Job(f)' = Job(f) /\ Amount(f)' = Amount(f)
  <2>1. run[f].jobs # <<>>  BY <1>1, FillIs
  <2>2. Job(f)' = Job(f)  BY <2>1 DEF Undisturbed, Job
  <2>3. FillPrice(f)' = FillPrice(f)  BY <2>2 DEF FillPrice, Undisturbed
  <2> QED  BY <2>2, <2>3 DEF Amount
<1>2. {"position", "cash"} \subseteq Filling  BY DEF Filling
<1>3. Unpaid(f)' = Unpaid(f)  BY <1>1, <1>2 DEF Unpaid, Signed, Undisturbed
<1>4. Unheld(f)' = Unheld(f)  BY <1>1, <1>2 DEF Unheld, Undisturbed
<1> QED  BY <1>1, <1>3, <1>4 DEF Undisturbed

LEMMA SameIsUndisturbed ==
  ASSUME NEW f \in Flow, run'[f] = run[f]
  PROVE  Undisturbed(f)
  BY DEF Undisturbed

LEMMA WatchIs ==
  ASSUME TypeInv, Watch
  PROVE  /\ ~audit'.raced => ~audit.raced /\ (user'.pc # "idle" => \A f \in Flow : run'[f].pc = "idle")
         /\ ~audit'.overlap => ~audit.overlap /\ \E f \in Flow : run'[f].pc = "idle"
         /\ ~audit'.aborted => ~audit.aborted /\ \A f \in Flow : ~AbortsFill(f)
         /\ RunTurns'
<1>1. /\ audit'.raced   <=> audit.raced \/ (user'.pc # "idle" /\ \E f \in Flow : run'[f].pc # "idle")
      /\ audit'.overlap <=> audit.overlap \/ \A f \in Flow : run'[f].pc # "idle"
      /\ audit'.aborted <=> audit.aborted \/ \E f \in Flow : AbortsFill(f)
  BY DEF Watch
<1> QED  BY <1>1 DEF RunTurns

\* What a step of a flow must do to the books, and how it leaves them.
LEMMA FlowBooks ==
  ASSUME Books, TypeInv', Watch, NEW f \in Flow, Undisturbed(Other(f)), UNCHANGED user,
         run[f].pc # "idle" \/ run'[f].pc # "idle",
         session'.quota = session.quota,
         ~audit'.aborted => session'.cash - trades'.net + Unpaid(f)' = session.cash - trades.net + Unpaid(f),
         Alone' => /\ position'.qty - trades'.shares + Unheld(f)'
                        = position.qty - trades.shares + Unheld(f)
                   /\ ReadIsCurrent(f)' /\ session'.cash >= 0 /\ Affordable(f)'
  PROVE  Books'
<1> DEFINE o == Other(f)
<1>1. TypeInv /\ o \in Flow /\ (\A g \in Flow : g = f \/ g = o)  BY OtherFlow DEF Books
<1>2. /\ Unpaid(o)' = Unpaid(o) /\ Unheld(o)' = Unheld(o) /\ run'[o].pc = run[o].pc
  BY <1>1, UndisturbedIs
<1>3. /\ ~audit'.raced => ~audit.raced /\ user.pc = "idle"
      /\ Alone' => Alone /\ run[o].pc = "idle"
      /\ ~audit'.aborted => ~audit.aborted
      /\ RunTurns'
  BY <1>1, <1>2, WatchIs DEF Books, RunTurns, Alone
<1>4. /\ Unpaid("tick") + Unpaid("manual") = Unpaid(f) + Unpaid(o)
      /\ Unheld("tick") + Unheld("manual") = Unheld(f) + Unheld(o)
      /\ Unpaid("tick")' + Unpaid("manual")' = Unpaid(f)' + Unpaid(o)'
      /\ Unheld("tick")' + Unheld("manual")' = Unheld(f)' + Unheld(o)'
  <2>1. /\ Unpaid("tick") \in Int /\ Unpaid("manual") \in Int
        /\ Unheld("tick") \in Int /\ Unheld("manual") \in Int
    BY <1>1, UnpaidIs DEF Flow
  <2>2. /\ Unpaid("tick")' \in Int /\ Unpaid("manual")' \in Int
        /\ Unheld("tick")' \in Int /\ Unheld("manual")' \in Int
    BY NextUnpaidIs DEF Flow
  <2>3. (f = "tick" /\ o = "manual") \/ (f = "manual" /\ o = "tick")  BY DEF Flow, Other
  <2> QED  BY <2>1, <2>2, <2>3
<1>5. /\ Unpaid(f) \in Int /\ Unpaid(o) \in Int /\ Unheld(f) \in Int /\ Unheld(o) \in Int
      /\ Unpaid(f)' \in Int /\ Unheld(f)' \in Int
  BY <1>1, UnpaidIs, NextUnpaidIs
<1>6. /\ session.cash \in Int /\ session.quota \in Int /\ trades.net \in Int
      /\ trades.shares \in Int /\ position.qty \in Int
      /\ session'.cash \in Int /\ trades'.net \in Int
      /\ trades'.shares \in Int /\ position'.qty \in Int
  BY <1>1, Numbers DEF TypeInv, Sessions, Holdings
<1>7. CashInv'
  <2>1. user.pc = "idle" => user.pc # "settings" /\ user.pc # "reset"  OBVIOUS
  <2>2. ASSUME ~audit'.raced, ~audit'.aborted
        PROVE  session'.cash = session'.quota + trades'.net - Unpaid("tick")' - Unpaid("manual")'
    <3>1. session.cash = session.quota + trades.net - (Unpaid(f) + Unpaid(o))
      <4>1. session.cash = session.quota + trades.net - Unpaid("tick") - Unpaid("manual")
        BY <1>3, <2>2 DEF Books, CashInv
      <4>2. Unpaid("tick") \in Int /\ Unpaid("manual") \in Int  BY <1>1, UnpaidIs DEF Flow
      <4> QED  BY <1>4, <1>5, <1>6, <4>1, <4>2
    <3>2. session'.cash = session.quota + trades'.net - (Unpaid(f)' + Unpaid(o)')
      BY <1>2, <1>5, <1>6, <2>2, <3>1
    <3>3. Unpaid("tick")' \in Int /\ Unpaid("manual")' \in Int  BY NextUnpaidIs DEF Flow
    <3> QED  BY <1>2, <1>4, <1>5, <1>6, <3>2, <3>3
  <2> QED  BY <1>3, <2>1, <2>2 DEF CashInv
<1>8. SharesInv'
  <2> SUFFICES ASSUME Alone'
               PROVE  /\ position'.qty = trades'.shares - Unheld("tick")' - Unheld("manual")'
                      /\ \A g \in Flow : ReadIsCurrent(g)'
    BY DEF SharesInv
  <2>1. position.qty = trades.shares - (Unheld(f) + Unheld(o))
    <3>1. position.qty = trades.shares - Unheld("tick") - Unheld("manual")
      BY <1>3 DEF Books, SharesInv
    <3>2. Unheld("tick") \in Int /\ Unheld("manual") \in Int  BY <1>1, UnpaidIs DEF Flow
    <3> QED  BY <1>4, <1>5, <1>6, <3>1, <3>2
  <2>2. position'.qty = trades'.shares - (Unheld(f)' + Unheld(o)')
    BY <1>2, <1>5, <1>6, <2>1
  <2>3. Unheld("tick")' \in Int /\ Unheld("manual")' \in Int  BY NextUnpaidIs DEF Flow
  <2>4. position'.qty = trades'.shares - Unheld("tick")' - Unheld("manual")'
    BY <1>2, <1>4, <1>5, <1>6, <2>2, <2>3
  <2>5. ReadIsCurrent(o)'  BY <1>2, <1>3 DEF ReadIsCurrent
  <2> QED  BY <1>1, <2>4, <2>5
<1>9. FundsInv'
  <2>1. Alone' => Affordable(o)'  BY <1>2, <1>3 DEF Affordable
  <2> QED  BY <1>1, <2>1 DEF Books, FundsInv
<1> QED  BY <1>3, <1>7, <1>8, <1>9 DEF Books

\* Most steps of a flow fill nothing.
LEMMA QuietBooks ==
  ASSUME Books, TypeInv', Watch, NEW f \in Flow, Undisturbed(Other(f)), UNCHANGED <<user, trades>>,
         run[f].pc # "idle" \/ run'[f].pc # "idle",
         session'.quota = session.quota, session'.cash = session.cash, position'.qty = position.qty,
         run[f].pc \notin {"trade", "position", "cash"}, run'[f].pc \notin {"trade", "position", "cash"}
  PROVE  Books'
<1>1. Unpaid(f) = 0 /\ Unpaid(f)' = 0 /\ Unheld(f) = 0 /\ Unheld(f)' = 0  BY DEF Unpaid, Unheld
<1>2. ReadIsCurrent(f)' /\ Affordable(f)'  BY DEF ReadIsCurrent, Affordable
<1>3. Alone' => Alone  BY WatchIs DEF Books, Alone
<1>4. Alone => session.cash >= 0  BY DEF Books, FundsInv
<1> QED  BY <1>1, <1>2, <1>3, <1>4, FlowBooks

\* The value of an order depends on the order and the quote only.
LEMMA SameOrder ==
  ASSUME NEW f \in Flow, run'[f].jobs = run[f].jobs, run'[f].quote = run[f].quote
  PROVE  Job(f)' = Job(f) /\ Amount(f)' = Amount(f) /\ Signed(f)' = Signed(f)
<1>1. Job(f)' = Job(f)  BY DEF Job
<1>2. Amount(f)' = Amount(f)  BY <1>1 DEF Amount, FillPrice
<1> QED  BY <1>1, <1>2 DEF Signed

LEMMA BookBooks ==
  ASSUME Books, NEW f \in Flow, Book(f)
  PROVE  Books'
<1>1. /\ TypeInv' /\ run'[Other(f)] = run[Other(f)] /\ Undisturbed(Other(f))
      /\ Watch /\ UNCHANGED <<user, trades, session, position>> /\ run[f].pc = "book"
  BY BookType, OtherFlow, SameIsUndisturbed DEF Book, Books
<1>2. CASE run'[f].pc \notin Filling
  <2>1. run'[f].pc \notin {"trade", "position", "cash"}  BY <1>2 DEF Filling
  <2> QED  BY <1>1, <2>1, QuietBooks
<1>3. CASE /\ run'[f].pc = "trade" /\ run'[f].jobs = run[f].jobs
           /\ run'[f].quote = run[f].quote /\ run'[f].old = position
           /\ Job(f).side = "BUY" => Amount(f) <= session.cash
  <2>1. Unpaid(f) = 0 /\ Unpaid(f)' = 0 /\ Unheld(f) = 0 /\ Unheld(f)' = 0
    BY <1>1, <1>3 DEF Unpaid, Unheld
  <2>2. ReadIsCurrent(f)'  BY <1>1, <1>3 DEF ReadIsCurrent
  <2>3. Affordable(f)'  BY <1>1, <1>3, SameOrder DEF Affordable
  <2>4. Alone' => session.cash >= 0  BY <1>1, WatchIs DEF Books, FundsInv, Alone
  <2> QED  BY <1>1, <1>3, <2>1, <2>2, <2>3, <2>4, FlowBooks
<1> QED  BY <1>2, <1>3, BookType DEF Books

LEMMA RecordTradeBooks ==
  ASSUME Books, NEW f \in Flow, RecordTrade(f)
  PROVE  Books'
<1>1. /\ TypeInv' /\ run'[Other(f)] = run[Other(f)] /\ Undisturbed(Other(f))
      /\ run'[f].pc = "position" /\ run'[f].jobs = run[f].jobs /\ run'[f].quote = run[f].quote
      /\ run'[f].old = IF Job(f).side = "BUY" THEN position ELSE run[f].old
  BY RecordTradeType, OtherFlow, SameIsUndisturbed DEF Books
<1>2. Watch /\ UNCHANGED <<user, session, position>> /\ run[f].pc = "trade"
  BY DEF RecordTrade
<1>3. /\ Job(f).qty \in Nat /\ Amount(f) \in Nat /\ Job(f).side \in {"BUY", "SELL"}
  BY <1>2, FillIs DEF Books, Filling
<1>4. Job(f)' = Job(f) /\ Amount(f)' = Amount(f) /\ Signed(f)' = Signed(f)  BY <1>1, SameOrder
<1>5. /\ trades.net \in Int /\ trades.shares \in Int /\ session.cash \in Int /\ position.qty \in Int
  BY Numbers DEF Books
<1> DEFINE moved == IF Job(f).side = "BUY" THEN Job(f).qty ELSE -Job(f).qty
<1>6. Signed(f) \in Int /\ moved \in Int  BY <1>3 DEF Signed
<1>7. trades'.net = trades.net + Signed(f) /\ trades'.shares = trades.shares + moved
  BY <1>3, <1>5 DEF RecordTrade, Signed
<1>8. Unpaid(f) = 0 /\ Unheld(f) = 0 /\ Unpaid(f)' = Signed(f) /\ Unheld(f)' = moved
  BY <1>1, <1>2, <1>4 DEF Unpaid, Unheld
<1> HIDE DEF moved
<1>9. /\ session'.cash - trades'.net + Unpaid(f)' = session.cash - trades.net + Unpaid(f)
      /\ position'.qty - trades'.shares + Unheld(f)' = position.qty - trades.shares + Unheld(f)
  BY <1>2, <1>5, <1>6, <1>7, <1>8
<1>10. ASSUME Alone'  PROVE ReadIsCurrent(f)' /\ session'.cash >= 0 /\ Affordable(f)'
  <2>1. Alone  BY <1>2, <1>10, WatchIs DEF Books, Alone
  <2>2. ReadIsCurrent(f) /\ session.cash >= 0 /\ Affordable(f)
    BY <2>1 DEF Books, SharesInv, FundsInv
  <2>3. ReadIsCurrent(f)'  BY <1>1, <1>2, <1>3, <2>2 DEF ReadIsCurrent
  <2>4. Affordable(f)'  BY <1>1, <1>2, <1>4, <2>2 DEF Affordable
  <2> QED  BY <1>2, <2>2, <2>3, <2>4
<1> QED  BY <1>1, <1>2, <1>9, <1>10, FlowBooks

LEMMA WritePositionBooks ==
  ASSUME Books, NEW f \in Flow, WritePosition(f)
  PROVE  Books'
<1>1. /\ TypeInv' /\ run'[Other(f)] = run[Other(f)] /\ Undisturbed(Other(f))
      /\ Watch /\ UNCHANGED <<user, session, trades>> /\ run[f].pc = "position"
  BY WritePositionType, OtherFlow, SameIsUndisturbed DEF Books, WritePosition
<1>2. /\ Job(f).qty \in Nat /\ Amount(f) \in Nat /\ Job(f).side \in {"BUY", "SELL"}
      /\ run[f].old.qty \in Nat
  BY <1>1, FillIs DEF Books, Filling, Holdings
<1>3. trades.net \in Int /\ trades.shares \in Int /\ session.cash \in Int /\ position.qty \in Int
  BY Numbers DEF Books
<1>4. ASSUME Alone'
      PROVE  run[f].old.qty = position.qty /\ session.cash >= 0 /\ Affordable(f)
  <2>1. Alone  BY <1>1, <1>4, WatchIs DEF Books, Alone
  <2> QED  BY <1>1, <2>1 DEF Books, SharesInv, FundsInv, ReadIsCurrent
<1>5. CASE /\ run'[f].pc = "cash" /\ run'[f].jobs = run[f].jobs /\ run'[f].quote = run[f].quote
           /\ position'.qty = IF Job(f).side = "BUY" THEN run[f].old.qty + Job(f).qty
                                                     ELSE run[f].old.qty - Job(f).qty
  <2>1. Job(f)' = Job(f) /\ Amount(f)' = Amount(f) /\ Signed(f)' = Signed(f)  BY <1>5, SameOrder
  <2>2. Unpaid(f)' = Unpaid(f) /\ Unheld(f)' = 0  BY <1>1, <1>5, <2>1 DEF Unpaid, Unheld
  <2>3. Unheld(f) = IF Job(f).side = "BUY" THEN Job(f).qty ELSE -Job(f).qty
    BY <1>1 DEF Unheld
  <2>4. session'.cash - trades'.net + Unpaid(f)' = session.cash - trades.net + Unpaid(f)
    BY <1>1, <2>2
  <2>5. Alone' => position'.qty - trades'.shares + Unheld(f)'
                    = position.qty - trades.shares + Unheld(f)
    BY <1>1, <1>2, <1>3, <1>4, <1>5, <2>2, <2>3
  <2>6. Alone' => ReadIsCurrent(f)' /\ session'.cash >= 0 /\ Affordable(f)'
    <3>1. ReadIsCurrent(f)'  BY <1>5 DEF ReadIsCurrent
    <3>2. Alone' => Affordable(f)'  BY <1>1, <1>4, <1>5, <2>1 DEF Affordable
    <3> QED  BY <1>1, <1>4, <3>1, <3>2
  <2> QED  BY <1>1, <2>4, <2>5, <2>6, FlowBooks
<1>6. CASE /\ (run[f].old.qty > 0) # (position.qty > 0)
           /\ run'[f].pc = "idle" /\ UNCHANGED position
  <2>1. audit'.aborted  BY <1>1, <1>6, WatchIs DEF AbortsFill, Books
  <2>2. ~Alone'  BY <1>4, <1>6
  <2> QED  BY <1>1, <2>1, <2>2, FlowBooks
<1> QED  BY <1>5, <1>6, WritePositionType DEF Books

LEMMA MoveCashBooks ==
  ASSUME Books, NEW f \in Flow, MoveCash(f)
  PROVE  Books'
<1>1. /\ TypeInv' /\ run'[Other(f)] = run[Other(f)] /\ Undisturbed(Other(f))
      /\ run'[f].pc = "remember" /\ session'.quota = session.quota
      /\ session'.cash = session.cash + Signed(f)
  BY MoveCashType, OtherFlow, SameIsUndisturbed DEF Books
<1>2. Watch /\ UNCHANGED <<user, trades, position>> /\ run[f].pc = "cash"  BY DEF MoveCash
<1>3. Amount(f) \in Nat /\ Signed(f) \in Int /\ Job(f).side \in {"BUY", "SELL"}
  <2>1. Amount(f) \in Nat /\ Job(f).side \in {"BUY", "SELL"}  BY <1>2, FillIs DEF Books, Filling
  <2> QED  BY <2>1 DEF Signed
<1>4. trades.net \in Int /\ session.cash \in Int  BY Numbers DEF Books
<1>5. Unpaid(f) = Signed(f) /\ Unpaid(f)' = 0 /\ Unheld(f) = 0 /\ Unheld(f)' = 0
  BY <1>1, <1>2 DEF Unpaid, Unheld
<1>6. session'.cash - trades'.net + Unpaid(f)' = session.cash - trades.net + Unpaid(f)
  BY <1>1, <1>2, <1>3, <1>4, <1>5
<1>7. ASSUME Alone'  PROVE ReadIsCurrent(f)' /\ session'.cash >= 0 /\ Affordable(f)'
  <2>1. Alone  BY <1>2, <1>7, WatchIs DEF Books, Alone
  <2>2. session.cash >= 0 /\ (Job(f).side = "BUY" => Amount(f) <= session.cash)
    BY <1>2, <2>1 DEF Books, FundsInv, Affordable
  <2>3. session'.cash >= 0  BY <1>1, <1>3, <1>4, <2>2 DEF Signed
  <2>4. ReadIsCurrent(f)' /\ Affordable(f)'  BY <1>1 DEF ReadIsCurrent, Affordable
  <2> QED  BY <2>3, <2>4
<1> QED  BY <1>1, <1>2, <1>5, <1>6, <1>7, FlowBooks

LEMMA StepBooks ==
  ASSUME Books, NEW f \in Flow, Step(f)
  PROVE  Books'
<1> DEFINE o == Other(f)
           Busy == {"trade", "position", "cash"}
<1>0. o \in Flow /\ TypeInv /\ Busy \subseteq Filling  BY OtherFlow DEF Books, Filling
<1>1. CASE CheckPending(f)
  <2>1. TypeInv' /\ run'[f].pc \notin Busy /\ Undisturbed(o)
    BY <1>0, <1>1, CheckPendingType DEF Undisturbed
  <2>2. /\ Watch /\ UNCHANGED <<user, trades, session, position>> /\ run[f].pc = "pending"
    BY <1>1 DEF CheckPending
  <2> QED  BY <2>1, <2>2, QuietBooks
<1>2. CASE WalkPending(f)
  <2>1. TypeInv' /\ run'[f].pc \notin Busy /\ Undisturbed(o)
    BY <1>0, <1>2, WalkPendingType, SameIsUndisturbed
  <2>2. /\ Watch /\ UNCHANGED <<user, trades, session, position>> /\ run[f].pc = "walk"
    BY <1>2 DEF WalkPending
  <2> QED  BY <2>1, <2>2, QuietBooks
<1>3. CASE EndWalk(f)
  <2>1. TypeInv' /\ run'[f].pc \notin Busy /\ Undisturbed(o)
    BY <1>0, <1>3, EndWalkType DEF Undisturbed
  <2>2. /\ Watch /\ UNCHANGED <<user, trades, session, position>> /\ run[f].pc = "walk"
    BY <1>3 DEF EndWalk
  <2> QED  BY <2>1, <2>2, QuietBooks
<1>4. CASE LoadSession(f)
  <2>1. TypeInv' /\ run'[f].pc \notin Busy /\ Undisturbed(o)
    BY <1>0, <1>4, LoadSessionType, SameIsUndisturbed
  <2>2. /\ Watch /\ UNCHANGED <<user, trades, session, position>> /\ run[f].pc = "load"
    BY <1>4 DEF LoadSession
  <2> QED  BY <2>1, <2>2, QuietBooks
<1>5. CASE LoadHoldings(f)
  <2>1. TypeInv' /\ run'[f].pc \notin Busy /\ Undisturbed(o)
    BY <1>0, <1>5, LoadHoldingsType, SameIsUndisturbed
  <2>2. /\ Watch /\ UNCHANGED <<user, trades, session, position>> /\ run[f].pc = "holdings"
    BY <1>5 DEF LoadHoldings
  <2> QED  BY <2>1, <2>2, QuietBooks
<1>6. CASE Decide(f)
  <2>1. TypeInv' /\ run'[f].pc \notin Busy /\ Undisturbed(o)
    BY <1>0, <1>6, DecideType, SameIsUndisturbed
  <2>2. /\ Watch /\ UNCHANGED <<user, trades, session, position>> /\ run[f].pc = "decide"
    BY <1>6 DEF Decide
  <2> QED  BY <2>1, <2>2, QuietBooks
<1>7. CASE Act(f)
  <2>1. /\ TypeInv' /\ run'[f].pc \notin Busy /\ Undisturbed(o)
        /\ session'.cash = session.cash /\ session'.quota = session.quota
    BY <1>0, <1>7, ActType
  <2>2. Watch /\ UNCHANGED <<user, trades, position>> /\ run[f].pc = "act"  BY <1>7 DEF Act
  <2> QED  BY <2>1, <2>2, QuietBooks
<1>8. CASE EndTick(f)
  <2>1. /\ TypeInv' /\ run'[f].pc \notin Busy /\ Undisturbed(o)
        /\ session'.cash = session.cash /\ session'.quota = session.quota
    BY <1>0, <1>8, EndTickType, SameIsUndisturbed
  <2>2. Watch /\ UNCHANGED <<user, trades, position>> /\ run[f].pc = "act"  BY <1>8 DEF EndTick
  <2> QED  BY <2>1, <2>2, QuietBooks
<1>9. CASE Remember(f)
  <2>1. /\ TypeInv' /\ run'[f].pc \notin Busy /\ Undisturbed(o)
        /\ session'.cash = session.cash /\ session'.quota = session.quota
    BY <1>0, <1>9, RememberType, SameIsUndisturbed
  <2>2. Watch /\ UNCHANGED <<user, trades, position>> /\ run[f].pc = "remember"
    BY <1>9 DEF Remember
  <2> QED  BY <2>1, <2>2, QuietBooks
<1> QED
  BY <1>1, <1>2, <1>3, <1>4, <1>5, <1>6, <1>7, <1>8, <1>9, BookBooks, RecordTradeBooks,
     WritePositionBooks, MoveCashBooks, Zenon DEF Step

LEMMA SchedulerBooks ==
  ASSUME Books, StartTick \/ MarkPosition \/ StartManual \/ GuardManual
  PROVE  Books'
<1>1. /\ "tick" \in Flow /\ "manual" \in Flow /\ Other("tick") = "manual"
      /\ Other("manual") = "tick" /\ TypeInv
  BY DEF Flow, Other, Books
<1>2. CASE StartTick
  <2>1. TypeInv' /\ run'["tick"].pc = "mark" /\ Undisturbed("manual")
    BY <1>1, <1>2, StartTickType, SameIsUndisturbed
  <2>2. Watch /\ UNCHANGED <<user, trades, session, position>> /\ run["tick"].pc = "idle"
    BY <1>2 DEF StartTick
  <2> QED  BY <1>1, <2>1, <2>2, QuietBooks
<1>3. CASE MarkPosition
  <2>1. TypeInv' /\ run'["tick"].pc = "pending" /\ Undisturbed("manual") /\ position'.qty = position.qty
    BY <1>1, <1>3, MarkPositionType, SameIsUndisturbed
  <2>2. Watch /\ UNCHANGED <<user, trades, session>> /\ run["tick"].pc = "mark"
    BY <1>3 DEF MarkPosition
  <2> QED  BY <1>1, <2>1, <2>2, QuietBooks
<1>4. CASE StartManual
  <2>1. TypeInv' /\ run'["manual"].pc = "pending" /\ Undisturbed("tick")
    BY <1>1, <1>4, StartManualType, SameIsUndisturbed
  <2>2. Watch /\ UNCHANGED <<user, trades, session, position>> /\ run["manual"].pc = "idle"
    BY <1>4 DEF StartManual
  <2> QED  BY <1>1, <2>1, <2>2, QuietBooks
<1>5. CASE GuardManual
  <2>1. TypeInv' /\ run'["manual"].pc \in {"idle", "load"} /\ Undisturbed("tick")
    BY <1>1, <1>5, GuardManualType, SameIsUndisturbed
  <2>2. Watch /\ UNCHANGED <<user, trades, session, position>> /\ run["manual"].pc = "guard"
    BY <1>5 DEF GuardManual
  <2> QED  BY <1>1, <2>1, <2>2, QuietBooks
<1> QED  BY <1>2, <1>3, <1>4, <1>5

\* Steps of the clock and changes of the status touch no row of the books.
LEMMA ClockBooks ==
  ASSUME Books, TypeInv', Watch, \A f \in Flow : Undisturbed(f), UNCHANGED <<user, trades, position>>,
         session'.cash = session.cash, session'.quota = session.quota
  PROVE  Books'
<1>1. TypeInv  BY DEF Books
<1>2. \A f \in Flow : /\ Unpaid(f)' = Unpaid(f) /\ Unheld(f)' = Unheld(f) /\ run'[f].pc = run[f].pc
                      /\ run[f].pc \in Filling => /\ Job(f)' = Job(f) /\ Amount(f)' = Amount(f)
                                                  /\ run'[f].old = run[f].old
  BY <1>1, UndisturbedIs
<1>3. /\ RunTurns' /\ (~audit'.raced => ~audit.raced) /\ (~audit'.aborted => ~audit.aborted)
      /\ (Alone' => Alone)
  BY <1>1, WatchIs DEF Alone
<1>4. CashInv'  BY <1>2, <1>3 DEF Books, CashInv, Flow
<1>5. \A f \in Flow : /\ ReadIsCurrent(f) => ReadIsCurrent(f)'
                      /\ Affordable(f) => Affordable(f)'
  BY <1>2 DEF ReadIsCurrent, Affordable, Filling
<1>6. SharesInv'  BY <1>2, <1>3, <1>5 DEF Books, SharesInv, Flow
<1>7. FundsInv'  BY <1>3, <1>5 DEF Books, FundsInv
<1> QED  BY <1>3, <1>4, <1>6, <1>7 DEF Books

LEMMA TimeBooks ==
  ASSUME Books, NextMinute \/ NextDay \/ SetStatus
  PROVE  Books'
<1>1. TypeInv  BY DEF Books
<1>2. CASE NextMinute
  <2>1. TypeInv' /\ \A f \in Flow : Undisturbed(f)  BY <1>1, <1>2, NextMinuteType
  <2>2. Watch /\ UNCHANGED <<user, trades, position, session>>  BY <1>2 DEF NextMinute
  <2> QED  BY <2>1, <2>2, ClockBooks
<1>3. CASE NextDay
  <2>1. TypeInv'  BY <1>1, <1>3, NextDayType
  <2>2. Watch /\ UNCHANGED <<user, trades, position, session, run>>  BY <1>3 DEF NextDay
  <2>3. \A f \in Flow : Undisturbed(f)  BY <2>2 DEF Undisturbed
  <2> QED  BY <2>1, <2>2, <2>3, ClockBooks
<1>4. CASE SetStatus
  <2>1. TypeInv' /\ session'.cash = session.cash /\ session'.quota = session.quota
    BY <1>1, <1>4, SetStatusType
  <2>2. Watch /\ UNCHANGED <<user, trades, position, run>>  BY <1>4 DEF SetStatus
  <2>3. \A f \in Flow : Undisturbed(f)  BY <2>2 DEF Undisturbed
  <2> QED  BY <2>1, <2>2, <2>3, ClockBooks
<1> QED  BY <1>2, <1>3, <1>4

\* What a flow that is at rest contributes, and what it must satisfy.
LEMMA AtRest ==
  ASSUME NEW f \in Flow, run[f].pc = "idle"
  PROVE  Unpaid(f) = 0 /\ Unheld(f) = 0 /\ ReadIsCurrent(f) /\ Affordable(f)
  BY DEF Unpaid, Unheld, ReadIsCurrent, Affordable

LEMMA NextAtRest ==
  ASSUME NEW f \in Flow, run'[f].pc = "idle"
  PROVE  Unpaid(f)' = 0 /\ Unheld(f)' = 0 /\ ReadIsCurrent(f)' /\ Affordable(f)'
  BY DEF Unpaid, Unheld, ReadIsCurrent, Affordable

LEMMA ReadSettingsBooks ==
  ASSUME Books, ReadSettings
  PROVE  Books'
<1>1. /\ TypeInv' /\ user'.pc = "settings" /\ user'.cash = session.cash
      /\ user'.quota = session.quota /\ session.cash + user'.new - session.quota >= 0
  BY ReadSettingsType DEF Books
<1>2. Watch /\ UNCHANGED <<trades, position, session, run>> /\ user.pc = "idle"
  BY DEF ReadSettings, Edit
<1>3. /\ RunTurns' /\ (~audit'.raced => ~audit.raced) /\ (~audit'.aborted => ~audit.aborted)
      /\ (Alone' => Alone)
  BY <1>2, WatchIs DEF Alone, Books
<1>4. \A f \in Flow : /\ Unpaid(f)' = Unpaid(f) /\ Unheld(f)' = Unheld(f)
                      /\ ReadIsCurrent(f)' = ReadIsCurrent(f) /\ Affordable(f)' = Affordable(f)
  BY <1>2 DEF Unpaid, Unheld, Signed, Amount, FillPrice, Job, ReadIsCurrent, Affordable
<1>5. CashInv'  BY <1>1, <1>2, <1>3, <1>4 DEF Books, CashInv, Flow
<1>6. SharesInv'  BY <1>2, <1>3, <1>4 DEF Books, SharesInv, Flow
<1>7. FundsInv'  BY <1>1, <1>2, <1>3, <1>4 DEF Books, FundsInv
<1> QED  BY <1>1, <1>3, <1>5, <1>6, <1>7 DEF Books

LEMMA WriteSettingsBooks ==
  ASSUME Books, WriteSettings
  PROVE  Books'
<1>1. /\ TypeInv' /\ user'.pc = "idle" /\ session'.quota = user.new
      /\ session'.cash = user.cash + user.new - user.quota
  BY WriteSettingsType DEF Books
<1>2. Watch /\ UNCHANGED <<trades, position, run>> /\ user.pc = "settings"  BY DEF WriteSettings
<1>3. /\ RunTurns' /\ (~audit'.raced => ~audit.raced) /\ (~audit'.aborted => ~audit.aborted)
      /\ (Alone' => Alone)
  BY <1>2, WatchIs DEF Alone, Books
<1>4. ASSUME ~audit'.raced
      PROVE  \A f \in Flow : /\ Unpaid(f) = 0 /\ Unheld(f) = 0 /\ Unpaid(f)' = 0 /\ Unheld(f)' = 0
                             /\ ReadIsCurrent(f)' /\ Affordable(f)'
  <2>1. \A f \in Flow : run[f].pc = "idle" /\ run'[f].pc = "idle"
    BY <1>2, <1>3, <1>4 DEF Books, RunTurns
  <2> QED  BY <2>1, AtRest, NextAtRest
<1>5. CashInv'
  <2>1. ASSUME ~audit'.raced, ~audit'.aborted
        PROVE  session'.cash = session'.quota + trades'.net - Unpaid("tick")' - Unpaid("manual")'
    <3>1. /\ session.cash = session.quota + trades.net - Unpaid("tick") - Unpaid("manual")
          /\ user.cash = session.cash /\ user.quota = session.quota
      BY <1>2, <1>3, <2>1 DEF Books, CashInv
    <3>2. /\ Unpaid("tick") = 0 /\ Unpaid("manual") = 0
          /\ Unpaid("tick")' = 0 /\ Unpaid("manual")' = 0
      BY <1>4, <2>1 DEF Flow
    <3> QED  BY <1>1, <1>2, <3>1, <3>2, Numbers DEF Books
  <2> QED  BY <1>1, <2>1 DEF CashInv
<1>6. SharesInv'
  <2>1. ASSUME Alone'  PROVE position'.qty = trades'.shares - Unheld("tick")' - Unheld("manual")'
    <3>1. position.qty = trades.shares - Unheld("tick") - Unheld("manual")
      BY <1>3, <2>1 DEF Books, SharesInv
    <3>2. /\ Unheld("tick") = 0 /\ Unheld("manual") = 0
          /\ Unheld("tick")' = 0 /\ Unheld("manual")' = 0
      BY <1>4, <2>1 DEF Flow, Alone
    <3> QED  BY <1>2, <3>1, <3>2
  <2> QED  BY <1>4, <2>1 DEF SharesInv, Alone
<1>7. FundsInv'
  <2>1. user.cash + user.new - user.quota >= 0  BY <1>2 DEF Books, FundsInv
  <2> QED  BY <1>1, <1>4, <2>1 DEF FundsInv, Alone
<1> QED  BY <1>1, <1>3, <1>5, <1>6, <1>7 DEF Books

LEMMA WipeBooks ==
  ASSUME Books, Wipe
  PROVE  Books'
<1>1. /\ TypeInv' /\ user'.pc = "reset" /\ user'.quota = session.quota
      /\ trades'.net = 0 /\ trades'.shares = 0 /\ position'.qty = 0
  BY WipeType DEF Books
<1>2. Watch /\ session' = session  BY DEF Wipe
<1>3. /\ RunTurns' /\ (~audit'.raced => ~audit.raced) /\ (Alone' => Alone)
      /\ ~audit'.raced => \A f \in Flow : run'[f].pc = "idle"
  BY <1>1, <1>2, WatchIs DEF Alone, Books
<1>4. CashInv'  BY <1>1, <1>2 DEF CashInv
<1>5. ASSUME Alone'  PROVE \A f \in Flow : Unheld(f)' = 0 /\ ReadIsCurrent(f)' /\ Affordable(f)'
  BY <1>3, <1>5, NextAtRest DEF Alone
<1>6. SharesInv'
  <2>1. Alone' => Unheld("tick")' = 0 /\ Unheld("manual")' = 0  BY <1>5 DEF Flow
  <2> QED  BY <1>1, <1>5, <2>1 DEF SharesInv
<1>7. FundsInv'  BY <1>1, <1>2, <1>3, <1>5 DEF Books, FundsInv
<1> QED  BY <1>1, <1>3, <1>4, <1>6, <1>7 DEF Books

LEMMA RestartBooks ==
  ASSUME Books, Restart
  PROVE  Books'
<1>1. TypeInv' /\ user'.pc = "idle" /\ session'.quota = session.quota /\ session'.cash = user.quota
  BY RestartType DEF Books
<1>2. Watch /\ UNCHANGED <<trades, position, run>> /\ user.pc = "reset"  BY DEF Restart
<1>3. /\ RunTurns' /\ (~audit'.raced => ~audit.raced) /\ (Alone' => Alone)
  BY <1>2, WatchIs DEF Alone, Books
<1>4. ASSUME ~audit'.raced
      PROVE  \A f \in Flow : /\ Unheld(f) = 0 /\ Unpaid(f)' = 0 /\ Unheld(f)' = 0
                             /\ ReadIsCurrent(f)' /\ Affordable(f)'
  <2>1. \A f \in Flow : run[f].pc = "idle" /\ run'[f].pc = "idle"
    BY <1>2, <1>3, <1>4 DEF Books, RunTurns
  <2> QED  BY <2>1, AtRest, NextAtRest
<1>5. CashInv'
  <2>1. ASSUME ~audit'.raced
        PROVE  session'.cash = session'.quota + trades'.net - Unpaid("tick")' - Unpaid("manual")'
    <3>1. user.quota = session.quota /\ trades.net = 0
      BY <1>2, <1>3, <2>1 DEF Books, CashInv
    <3>2. Unpaid("tick")' = 0 /\ Unpaid("manual")' = 0  BY <1>4, <2>1 DEF Flow
    <3> QED  BY <1>1, <1>2, <3>1, <3>2, Numbers DEF Books
  <2> QED  BY <1>1, <2>1 DEF CashInv
<1>6. SharesInv'
  <2>1. ASSUME Alone'  PROVE position'.qty = trades'.shares - Unheld("tick")' - Unheld("manual")'
    <3>1. position.qty = trades.shares - Unheld("tick") - Unheld("manual")
      BY <1>3, <2>1 DEF Books, SharesInv
    <3>2. /\ Unheld("tick") = 0 /\ Unheld("manual") = 0
          /\ Unheld("tick")' = 0 /\ Unheld("manual")' = 0
      BY <1>4, <2>1 DEF Flow, Alone
    <3> QED  BY <1>2, <3>1, <3>2
  <2> QED  BY <1>4, <2>1 DEF SharesInv, Alone
<1>7. FundsInv'
  <2>1. user.quota >= 0 /\ user.quota \in Int  BY Numbers DEF Books, TypeInv, UserInv, Users
  <2> QED  BY <1>1, <1>4, <2>1 DEF FundsInv, Alone
<1> QED  BY <1>1, <1>3, <1>5, <1>6, <1>7 DEF Books

LEMMA BooksInit ==
  ASSUME Init
  PROVE  Books
<1>1. TypeInv  BY TypeInit
<1>2. \A f \in Flow : run[f].pc = "idle"  BY IdleIs DEF Init
<1>3. \A f \in Flow : Unpaid(f) = 0 /\ Unheld(f) = 0 /\ ReadIsCurrent(f) /\ Affordable(f)
  BY <1>2, AtRest
<1>4. /\ session.cash = Quota /\ session.quota = Quota /\ Quota \in Nat
      /\ trades.net = 0 /\ trades.shares = 0 /\ position.qty = 0 /\ user.pc = "idle"
  BY CapitalAssumption DEF Init, NoTrades, NoPosition, IdleUser
<1>5. RunTurns  BY <1>2 DEF RunTurns, Flow
<1>6. CashInv  BY <1>3, <1>4 DEF CashInv, Flow
<1>7. SharesInv  BY <1>3, <1>4 DEF SharesInv, Flow
<1>8. FundsInv  BY <1>3, <1>4 DEF FundsInv
<1> QED  BY <1>1, <1>5, <1>6, <1>7, <1>8 DEF Books

LEMMA BooksStep ==
  ASSUME Books, [Next]_vars
  PROVE  Books'
<1>1. CASE UNCHANGED vars
  <2>1. TypeInv'  BY <1>1, TypeStep DEF Books
  <2>2. UNCHANGED <<run, user, session, position, trades, audit>>  BY <1>1 DEF vars
  <2>3. RunTurns' /\ CashInv' /\ SharesInv' /\ FundsInv'
    BY <2>2 DEF Books, RunTurns, CashInv, SharesInv, FundsInv, Alone, Unpaid, Unheld, Signed, Amount,
                FillPrice, Job, ReadIsCurrent, Affordable
  <2> QED  BY <2>1, <2>3 DEF Books
<1> QED
  BY <1>1, StepBooks, SchedulerBooks, TimeBooks, ReadSettingsBooks, WriteSettingsBooks, WipeBooks,
     RestartBooks, Zenon DEF Next

LEMMA BooksHold == Spec => []Books
  BY BooksInit, BooksStep, PTL DEF Spec

(* CashIsTradeSum for every strategy, market, timetable and number of runs: *)
(* the cash of a session is its quota and what its executed trades moved,   *)
(* also when the tick and a manual run execute at the same time.            *)
THEOREM SimulatedCashAddsUp == Spec => []CashIsTradeSum
<1>1. Books => CashIsTradeSum  BY DEF Books, CashInv, CashIsTradeSum
<1> QED  BY <1>1, BooksHold, PTL

(* SharesAreTradeSum: while the flows take turns, no purchase or sale of    *)
(* virtualExecute is lost from the position.                                *)
THEOREM SimulatedSharesAddUp == Spec => []SharesAreTradeSum
<1>1. Books => SharesAreTradeSum  BY DEF Books, SharesInv, SharesAreTradeSum, Alone
<1> QED  BY <1>1, BooksHold, PTL

(* NoOverdraft: while the flows take turns, an order that waited since the  *)
(* cash was last enough is checked again before it is filled.               *)
THEOREM SimulatedCashIsEnough == Spec => []NoOverdraft
<1>1. Books => NoOverdraft  BY DEF Books, FundsInv, NoOverdraft, Alone
<1> QED  BY <1>1, BooksHold, PTL

-----------------------------------------------------------------------------
(* One purchase a day.  The first purchase of a once-daily strategy is at   *)
(* the quote and for cash the flow has read, so it is executed before       *)
(* anything else is decided, and its trade stops the rest of the day.       *)
LEMMA FirstRuleOf ==
  ASSUME NEW rules
  PROVE  FirstRule(rules) = <<>> \/ \E i \in DOMAIN rules : rules[i].when /\ FirstRule(rules) = rules[i].then
BY DEF FirstRule

\* A quote that leaves a share for the lower price leaves one for its own.
LEMMA UpperFirst ==
  ASSUME NEW b \in Int, NEW p \in Nat, p > 0, Shares((b * 3) \div 10, (p * 975 + 500) \div 1000) > 0
  PROVE  Shares((b * 7) \div 10, p) > 0
<1> DEFINE low == (p * 975 + 500) \div 1000
           a3  == (b * 3) \div 10
           a7  == (b * 7) \div 10
<1>1. low \in Nat /\ 1000 * low >= p * 975 - 499  BY SMT
<1>2. a3 \in Int /\ a7 \in Int /\ 10 * a3 <= b * 3 /\ 10 * a7 >= b * 7 - 9  BY SMT
<1>3. low > 0 /\ a3 > 0 /\ a3 \div low > 0  BY <1>1, <1>2 DEF Shares
<1>4. a3 >= low
  <2> HIDE DEF low, a3
  <2>1. a3 < low => a3 \div low = 0  BY <1>1, <1>2, <1>3
  <2> QED  BY <1>1, <1>2, <1>3, <2>1
<1>5. a7 >= p
  <2> HIDE DEF low, a3, a7
  <2> QED  BY <1>1, <1>2, <1>4
<1>6. a7 \div p > 0
  <2> HIDE DEF a7
  <2> QED  BY <1>2, <1>5
<1> QED  BY <1>5, <1>6 DEF Shares

LEMMA InfiniteHead ==
  ASSUME NEW c, IsContext(c), Price(c) > 0, InfiniteBuys(c) # <<>>
  PROVE  InfiniteBuys(c)[1].side = "BUY" /\ InfiniteBuys(c)[1].price = Price(c)
<1> DEFINE budget == InfiniteBudget(c)
           q1 == Shares((budget * 7) \div 10, Price(c))
           q2 == Shares((budget * 3) \div 10, Buy2Price(c))
           left == Rest(budget, q1 * Price(c) + q2 * Buy2Price(c))
           buy1 == IF q2 = 0 THEN Shares(budget, Price(c)) ELSE q1
           buy2 == IF q1 = 0 /\ q2 > 0 THEN q2 + Shares(left, Buy2Price(c)) ELSE q2
<1>1. budget \in Int /\ Price(c) \in Nat  BY InfiniteBudgetIs, ContextFields
<1>2. q1 \in Nat /\ q2 \in Nat
  <2>1. /\ (budget * 7) \div 10 \in Int /\ (budget * 3) \div 10 \in Int /\ Buy2Price(c) \in Nat
    <3> HIDE DEF budget
    <3> QED  BY <1>1, SMT DEF Buy2Price
  <2> HIDE DEF budget
  <2> QED  BY <1>1, <2>1, SharesBound
<1>3. q2 > 0 => q1 > 0
  <2>1. PICK b \in Int : b = budget  BY <1>1
  <2>2. PICK p \in Nat : p = Price(c) /\ p > 0  BY <1>1
  <2>3. Shares((b * 3) \div 10, (p * 975 + 500) \div 1000) > 0 => Shares((b * 7) \div 10, p) > 0
    BY <2>1, <2>2, UpperFirst
  <2>4. Buy2Price(c) = (p * 975 + 500) \div 1000  BY <2>2 DEF Buy2Price
  <2> HIDE DEF budget
  <2> QED  BY <2>1, <2>2, <2>3, <2>4
<1>4. InfiniteBuys(c) = (IF buy1 > 0 THEN <<Buy(buy1, Price(c), "none", 0)>> ELSE <<>>)
                        \o (IF buy2 > 0 THEN <<Buy(buy2, Buy2Price(c), "none", 0)>> ELSE <<>>)
  BY DEF InfiniteBuys
<1>5. buy2 > 0 => buy1 > 0
  <2> HIDE DEF q1, q2, left
  <2> QED  BY <1>2, <1>3
<1> HIDE DEF buy1, buy2
<1>6. buy1 > 0  BY <1>4, <1>5
<1>7. InfiniteBuys(c)[1] = Buy(buy1, Price(c), "none", 0)  BY <1>4, <1>6
<1> QED  BY <1>7 DEF Buy

LEMMA OnlySells ==
  ASSUME NEW c, NEW asked
  PROVE  /\ \A i \in DOMAIN FirstTarget(c, asked) : FirstTarget(c, asked)[i].side = "SELL"
         /\ \A i \in DOMAIN SecondTarget(c) : SecondTarget(c)[i].side = "SELL"
         /\ \A i \in DOMAIN SellAll(c, "stop") : SellAll(c, "stop")[i].side = "SELL"
         /\ \A i \in DOMAIN SellAll(c, "none") : SellAll(c, "none")[i].side = "SELL"
<1>1. \A qty, price, phase : Sell(qty, price, phase).side = "SELL"  BY DEF Sell
<1>2. \A qty, price, phase, rest, target2 :
        [Sell(qty, price, phase) EXCEPT !.rest = rest, !.target2 = target2].side = "SELL"
  BY DEF Sell
<1>3. FirstTarget(c, asked) = <<>> \/ \E s : FirstTarget(c, asked) = <<s>> /\ s.side = "SELL"
  <2> DEFINE half  == (c.qty + 1) \div 2
             price == OrderPrice(c, Target(c, TargetRow(c)[2]), asked)
             more  == OrderPrice(c, Target(c, TargetRow(c)[2] + TargetRow(c)[3]), asked)
             rest  == c.qty - half
  <2>1. FirstTarget(c, asked) =
          IF ~Holds(c) \/ price <= 0 THEN <<>>
          ELSE IF half = c.qty THEN <<Sell(half, price, "none")>>
          ELSE <<[Sell(half, price, "take-profit-1") EXCEPT !.rest = rest, !.target2 = more]>>
    BY Zenon DEF FirstTarget
  <2> HIDE DEF half, price, more, rest
  <2>2. PICK s : s = Sell(half, price, "none")  OBVIOUS
  <2>3. PICK t : t = [Sell(half, price, "take-profit-1") EXCEPT !.rest = rest, !.target2 = more]  OBVIOUS
  <2>4. s.side = "SELL" /\ t.side = "SELL"  BY <1>1, <1>2, <2>2, <2>3
  <2> QED  BY <2>1, <2>2, <2>3, <2>4, Zenon
<1>4. SecondTarget(c) = <<>> \/ \E s : SecondTarget(c) = <<s>> /\ s.side = "SELL"
  BY <1>1, Zenon DEF SecondTarget
<1>5. \A phase : \E s : SellAll(c, phase) = <<s>> /\ s.side = "SELL"
  BY <1>1, Zenon DEF SellAll
<1>6. ASSUME NEW t, t = <<>> \/ \E s : t = <<s>> /\ s.side = "SELL"
      PROVE  \A i \in DOMAIN t : t[i].side = "SELL"
  BY <1>6
<1> QED  BY <1>3, <1>4, <1>5, <1>6

LEMMA FirstPurchase ==
  ASSUME NEW c, IsContext(c), c.strategy \in OnceDaily, NEW i \in DOMAIN Evaluate(c),
         Evaluate(c)[i].side = "BUY"
  PROVE  /\ ~c.done /\ Evaluate(c) # <<>> /\ Head(Evaluate(c)).side = "BUY"
         /\ Head(Evaluate(c)).price = Price(c) /\ Price(c) > 0
         /\ Price(c) * Head(Evaluate(c)).qty <= c.cash
<1>1. Price(c) \in Nat /\ Evaluate(c) \in Seq(CoveredBy(c))  BY ContextFields, SignalsCovered
<1>0. \A t : (\A k \in DOMAIN t : t[k].side = "SELL") => Evaluate(c) # t
  <2> SUFFICES ASSUME NEW t, \A k \in DOMAIN t : t[k].side = "SELL", Evaluate(c) = t PROVE FALSE
    OBVIOUS
  <2>1. i \in DOMAIN t /\ t[i].side = "BUY"  OBVIOUS
  <2> QED  BY <2>1
<1>3. Evaluate(c) # <<>>  OBVIOUS
<1>2. ~c.done /\ Price(c) > 0 /\ Evaluate(c)[1].side = "BUY" /\ Evaluate(c)[1].price = Price(c)
  <2>1. CASE c.strategy = "daily-dca"
    <3> DEFINE rules == <<
          Rule(DcaForced(c), SellAll(c, "stop")),
          Rule(Price(c) > 0 /\ ~c.done /\ Holds(c) /\ GainOf(c, 10), SellAll(c, "none")),
          Rule(DcaBuys(c), BuyFor(DcaBudget(c), c, "none", 0))>>
    <3>1. Evaluate(c) = FirstRule(rules)  BY <2>1 DEF Evaluate, DailyDca
    <3>2. DOMAIN rules = 1..3  OBVIOUS
    <3>3. rules[1].then = SellAll(c, "stop") /\ rules[2].then = SellAll(c, "none")  BY DEF Rule
    <3>4. rules[3].when = DcaBuys(c) /\ rules[3].then = BuyFor(DcaBudget(c), c, "none", 0)  BY DEF Rule
    <3> HIDE DEF rules
    <3>5. Evaluate(c) = <<>> \/ \E k \in 1..3 : rules[k].when /\ Evaluate(c) = rules[k].then
      BY <3>1, <3>2, FirstRuleOf
    <3>6. rules[3].when /\ Evaluate(c) = rules[3].then
      <4>1. Evaluate(c) # rules[1].then /\ Evaluate(c) # rules[2].then /\ Evaluate(c) # <<>>
        BY <1>0, <1>3, <3>3, OnlySells, Zenon
      <4> QED  BY <3>5, <4>1
    <3>7. DcaBuys(c) /\ Evaluate(c) = BuyFor(DcaBudget(c), c, "none", 0)  BY <3>4, <3>6
    <3>8. Evaluate(c) = <<Buy(Shares(DcaBudget(c), Price(c)), Price(c), "none", 0)>>
      BY <3>7 DEF BuyFor
    <3> QED  BY <3>7, <3>8 DEF Buy, DcaBuys
  <2>2. CASE c.strategy = "infinite-buy"
    <3> DEFINE buys  == InfiniteBuys(c)
               asked == {buys[k].price : k \in DOMAIN buys}
               rules == <<
                 Rule(Price(c) = 0,              <<>>),
                 Rule(InfiniteStopped(c),        SellAll(c, "stop")),
                 Rule(c.done,                    <<>>),
                 Rule(Holds(c) /\ PlanActive(c), SecondTarget(c)),
                 Rule(InfiniteOpen(c),           buys \o FirstTarget(c, asked))>>
    <3>1. Evaluate(c) = FirstRule(rules)  BY <2>2 DEF Evaluate, InfiniteBuy
    <3>2. DOMAIN rules = 1..5  OBVIOUS
    <3>3. /\ rules[1].then = <<>> /\ rules[2].then = SellAll(c, "stop") /\ rules[3].then = <<>>
          /\ rules[4].then = SecondTarget(c)
      BY DEF Rule
    <3>4. rules[5].when = InfiniteOpen(c) /\ rules[5].then = buys \o FirstTarget(c, asked)  BY DEF Rule
    <3> HIDE DEF rules
    <3>5. Evaluate(c) = <<>> \/ \E k \in 1..5 : rules[k].when /\ Evaluate(c) = rules[k].then
      BY <3>1, <3>2, FirstRuleOf
    <3>6. rules[5].when /\ Evaluate(c) = rules[5].then
      <4>1. /\ Evaluate(c) # rules[1].then /\ Evaluate(c) # rules[2].then /\ Evaluate(c) # <<>>
            /\ Evaluate(c) # rules[3].then /\ Evaluate(c) # rules[4].then
        BY <1>0, <1>3, <3>3, OnlySells, Zenon
      <4> QED  BY <3>5, <4>1
    <3>7. InfiniteOpen(c) /\ Evaluate(c) = buys \o FirstTarget(c, asked)  BY <3>4, <3>6
    <3>8. PICK target : target = FirstTarget(c, asked)  OBVIOUS
    <3>9. Price(c) > 0 /\ ~c.done  BY <3>7 DEF InfiniteOpen
    <3>10. buys \in Seq(CoveredBy(c)) /\ target \in Seq(CoveredBy(c))
      <4> HIDE DEF asked
      <4> QED  BY <3>8, <3>9, InfiniteBuysCovered, FirstTargetCovered
    <3>11. buys # <<>>
      <4> SUFFICES ASSUME buys = <<>> PROVE FALSE  OBVIOUS
      <4>1. Evaluate(c) = target  BY <3>7, <3>8, <3>10
      <4>2. Evaluate(c)[i].side = "SELL"
        <5> HIDE DEF asked, buys
        <5> QED  BY <3>8, <4>1, OnlySells
      <4> QED  BY <4>2
    <3>12. buys[1].side = "BUY" /\ buys[1].price = Price(c)  BY <3>9, <3>11, InfiniteHead
    <3> HIDE DEF buys
    <3>13. Evaluate(c)[1] = buys[1]  BY <3>7, <3>8, <3>10, <3>11
    <3> QED  BY <3>9, <3>12, <3>13
  <2> QED  BY <2>1, <2>2 DEF OnceDaily
<1>4. Head(Evaluate(c)) = Evaluate(c)[1] /\ Head(Evaluate(c)) \in CoveredBy(c)  BY <1>1, <1>3
<1>5. PICK s \in CoveredBy(c) : s = Head(Evaluate(c))  BY <1>4
<1>6. Pay(s, c) <= c.cash /\ s.qty \in Nat /\ s.price = Price(c)  BY <1>2, <1>4, <1>5 DEF CoveredBy, Signals
<1>7. Price(c) * s.qty <= c.cash
  <2>1. Pay(s, c) = s.qty * Price(c)  BY <1>1, <1>2, <1>6 DEF Pay
  <2>2. s.qty * Price(c) = Price(c) * s.qty  BY <1>1, <1>6
  <2> QED  BY <1>6, <2>1, <2>2
<1> QED  BY <1>2, <1>3, <1>4, <1>5, <1>7

\* A purchase that a flow has just asked for and is about to execute.
Ordering(f) == /\ run[f].pc \in {"act", "book", "trade"} /\ run[f].jobs # <<>> /\ Job(f).side = "BUY"
               /\ run[f].pc # "trade" => /\ Job(f).price = run[f].quote /\ run[f].quote > 0
                                         /\ Amount(f) <= session.cash
CashRead(f) == run[f].pc \in {"holdings", "decide"} => run[f].cash = session.cash

Rounds == (strategy \in OnceDaily /\ Alone) =>
  /\ \A f \in Flow : CashRead(f)
  /\ audit.rounds <= 1
  /\ audit.rounds > 0 => trades.last = day \/ \E f \in Flow : Ordering(f)

LEMMA RoundsIs ==
  ASSUME TypeInv, Watch
  PROVE  /\ audit.rounds \in Nat
         /\ day' # day \/ user'.pc = "reset" => audit'.rounds = 0
         /\ (\E f \in Flow : OrdersPurchase(f)) => audit'.rounds \in {0, audit.rounds + 1}
         /\ ~(\E f \in Flow : OrdersPurchase(f)) => audit'.rounds \in {0, audit.rounds}
<1>1. audit'.rounds = IF day' # day \/ user'.pc = "reset" THEN 0
                      ELSE audit.rounds + (IF \E f \in Flow : OrdersPurchase(f) THEN 1 ELSE 0)
  BY DEF Watch
<1>2. audit.rounds \in Nat  BY DEF TypeInv, Audits
<1> QED  BY <1>1, <1>2

\* The flows take turns, and a change by the user waits for them.
LEMMA TakesTurns ==
  ASSUME Books, Watch, Alone', NEW f \in Flow, run[f].pc # "idle" \/ run'[f].pc # "idle",
         run'[Other(f)].pc = run[Other(f)].pc
  PROVE  Alone /\ run[Other(f)].pc = "idle" /\ run'[Other(f)].pc = "idle"
<1>1. TypeInv /\ Other(f) \in Flow /\ \A g \in Flow : g = f \/ g = Other(f)  BY OtherFlow DEF Books
<1>2. Alone /\ (\E g \in Flow : run[g].pc = "idle") /\ (\E g \in Flow : run'[g].pc = "idle")
  BY <1>1, WatchIs DEF Books, RunTurns, Alone
<1> QED  BY <1>1, <1>2

\* A step of a flow that has nothing to decide.
LEMMA FlowRounds ==
  ASSUME Books, Rounds, Watch, NEW f \in Flow, run[f].pc # "idle" \/ run'[f].pc # "idle",
         run'[Other(f)].pc = run[Other(f)].pc, UNCHANGED <<strategy, day, user>>, run[f].pc # "decide",
         CashRead(f) => CashRead(f)',
         trades.last = day \/ Ordering(f) => trades'.last = day \/ Ordering(f)'
  PROVE  Rounds'
<1> SUFFICES ASSUME strategy \in OnceDaily, Alone'
             PROVE  /\ \A g \in Flow : CashRead(g)'
                    /\ audit'.rounds <= 1
                    /\ audit'.rounds > 0 => trades'.last = day' \/ \E g \in Flow : Ordering(g)'
  BY DEF Rounds
<1>1. /\ Alone /\ run[Other(f)].pc = "idle" /\ run'[Other(f)].pc = "idle" /\ TypeInv
      /\ \A g \in Flow : g = f \/ g = Other(f)
  BY TakesTurns, OtherFlow DEF Books
<1>2. /\ \A g \in Flow : CashRead(g)
      /\ audit.rounds <= 1
      /\ audit.rounds > 0 => trades.last = day \/ \E g \in Flow : Ordering(g)
  BY <1>1 DEF Rounds
<1>3. \A g \in Flow : CashRead(g)'  BY <1>1, <1>2 DEF CashRead
<1>4. \A g \in Flow : ~OrdersPurchase(g)  BY <1>1 DEF OrdersPurchase
<1>5. audit'.rounds \in {0, audit.rounds} /\ audit.rounds \in Nat  BY <1>1, <1>4, RoundsIs
<1>6. \A g \in Flow : Ordering(g) => Ordering(f)  BY <1>1 DEF Ordering
<1> QED  BY <1>2, <1>3, <1>5, <1>6

\* Most steps of a flow neither order nor trade.
LEMMA PlainRounds ==
  ASSUME Books, Rounds, Watch, NEW f \in Flow, run[f].pc # "idle" \/ run'[f].pc # "idle",
         run'[Other(f)].pc = run[Other(f)].pc, UNCHANGED <<strategy, day, user, trades>>,
         ~Ordering(f), run[f].pc # "decide", run'[f].pc \notin {"holdings", "decide"}
  PROVE  Rounds'
<1>1. CashRead(f)'  BY DEF CashRead
<1> QED  BY <1>1, FlowRounds

LEMMA DecideRounds ==
  ASSUME Books, Rounds, NEW f \in Flow, Decide(f)
  PROVE  Rounds'
<1> DEFINE c == Context(f)
<1>1. /\ run[f].pc = "decide" /\ Watch /\ UNCHANGED <<strategy, day, user, trades, session>>
      /\ run'[f].pc \in {"idle", "act"} /\ run'[Other(f)] = run[Other(f)]
  <2>1. TypeInv  BY DEF Books
  <2>2. run'[f].pc \in {"idle", "act"} /\ run'[Other(f)] = run[Other(f)]  BY <2>1, DecideType
  <2> QED  BY <2>2 DEF Decide
<1> SUFFICES ASSUME strategy \in OnceDaily, Alone'
             PROVE  /\ \A g \in Flow : CashRead(g)'
                    /\ audit'.rounds <= 1
                    /\ audit'.rounds > 0 => trades'.last = day' \/ \E g \in Flow : Ordering(g)'
  BY <1>1 DEF Rounds
<1>2. /\ Alone /\ run[Other(f)].pc = "idle" /\ run'[Other(f)].pc = "idle" /\ TypeInv
      /\ \A g \in Flow : g = f \/ g = Other(f)
  BY <1>1, TakesTurns, OtherFlow DEF Books
<1>3. /\ run[f].cash = session.cash /\ audit.rounds <= 1
      /\ audit.rounds > 0 => trades.last = day
  BY <1>1, <1>2 DEF Rounds, CashRead, Ordering
<1>4. \A g \in Flow : CashRead(g)'  BY <1>1, <1>2 DEF CashRead
<1>5. CASE \A g \in Flow : ~OrdersPurchase(g)
  <2>1. audit'.rounds \in {0, audit.rounds} /\ audit.rounds \in Nat  BY <1>1, <1>2, <1>5, RoundsIs
  <2> QED  BY <1>1, <1>3, <1>4, <2>1
<1>6. CASE \E g \in Flow : OrdersPurchase(g)
  <2>1. PICK g \in Flow : OrdersPurchase(g)  BY <1>6
  <2>2. OrdersPurchase(f)
    <3>1. g # Other(f)  BY <1>2, <2>1 DEF OrdersPurchase
    <3> QED  BY <1>2, <2>1, <3>1
  <2>3. PICK e : e = Evaluate(c)  OBVIOUS
  <2>4. run'[f].jobs = e /\ run'[f].quote = market.price /\ run'[f].pc = "act"
    <3>1. PICK after, write :
            Stop(f) \/ Becomes(f, [IdleRun EXCEPT !.pc = "act", !.jobs = e, !.quote = market.price,
                                                  !.after = after, !.write = write])
      BY <2>3, Zenon DEF Decide
    <3>2. PICK r : r = [IdleRun EXCEPT !.pc = "act", !.jobs = e, !.quote = market.price,
                                       !.after = after, !.write = write]
      OBVIOUS
    <3>3. r.pc = "act" /\ r.jobs = e /\ r.quote = market.price  BY <3>2 DEF IdleRun
    <3>4. run \in [Flow -> Runs]  BY <1>2 DEF TypeInv, RunInv
    <3>5. ~Stop(f)
      <4>1. Stop(f) => run'[f].pc = "idle"  BY <3>4, IdleIs DEF Stop, Becomes
      <4> QED  BY <2>2, <4>1 DEF OrdersPurchase
    <3>6. run'[f] = r  BY <3>1, <3>2, <3>4, <3>5 DEF Becomes
    <3> QED  BY <3>3, <3>6
  <2>5. PICK i \in DOMAIN e : e[i].side = "BUY"  BY <2>2, <2>4 DEF OrdersPurchase
  <2>6. /\ c.strategy = strategy /\ c.cash = run[f].cash /\ c.done = (trades.last = day)
        /\ Price(c) = market.price
    BY DEF Context, Price
  <2>7. IsContext(c)  BY <1>2, ContextIs
  <2> HIDE DEF c
  <2>8. /\ ~c.done /\ e # <<>> /\ Head(e).side = "BUY" /\ Head(e).price = Price(c) /\ Price(c) > 0
        /\ Price(c) * Head(e).qty <= c.cash
    BY <2>3, <2>5, <2>6, <2>7, FirstPurchase
  <2>9. audit'.rounds \in {0, audit.rounds + 1} /\ audit.rounds = 0
    <3>1. audit.rounds \in Nat /\ audit'.rounds \in {0, audit.rounds + 1}  BY <1>1, <1>2, <1>6, RoundsIs
    <3>2. trades.last # day  BY <2>6, <2>8
    <3> QED  BY <1>3, <3>1, <3>2
  <2>10. Ordering(f)'
    <3>1. Job(f)' = Head(e)  BY <2>4 DEF Job
    <3>2. Job(f)'.price = market.price /\ Job(f)'.side = "BUY" /\ market.price > 0  BY <2>6, <2>8, <3>1
    <3>3. Amount(f)' = market.price * Head(e).qty  BY <3>1, <3>2 DEF Amount, FillPrice
    <3>4. Amount(f)' <= session'.cash  BY <1>1, <1>3, <2>6, <2>8, <3>3
    <3> QED  BY <2>4, <2>8, <3>1, <3>2, <3>4 DEF Ordering
  <2> QED  BY <1>4, <2>9, <2>10
<1> QED  BY <1>5, <1>6

\* The first order of a tick fits its quote and is executed at once.
LEMMA ActRounds ==
  ASSUME Books, Rounds, NEW f \in Flow, Act(f)
  PROVE  Rounds'
<1>1. /\ run[f].pc = "act" /\ Watch /\ UNCHANGED <<strategy, day, user, trades>> /\ session'.cash = session.cash
      /\ run'[f].pc \in {"book", "act"} /\ run'[Other(f)].pc = run[Other(f)].pc /\ run \in [Flow -> Runs]
  <2>1. TypeInv  BY DEF Books
  <2>2. run'[f].pc \in {"book", "act"} /\ Undisturbed(Other(f)) /\ session'.cash = session.cash
    BY <2>1, ActType
  <2>3. run'[Other(f)].pc = run[Other(f)].pc  BY <2>2 DEF Undisturbed
  <2>4. run \in [Flow -> Runs]  BY <2>1 DEF TypeInv, RunInv
  <2> QED  BY <2>2, <2>3, <2>4 DEF Act
<1>2. CASE ~Ordering(f)  BY <1>1, <1>2, PlainRounds
<1>3. CASE Ordering(f)
  <2>1. CanFillAtPrice(Job(f), run[f].quote)
    <3>1. run[f].quote \in Nat  BY <1>1 DEF Runs
    <3> QED  BY <1>1, <1>3, <3>1 DEF Ordering, CanFillAtPrice
  <2>2. PICK r : r = [run[f] EXCEPT !.pc = "book", !.loop = "act"]  OBVIOUS
  <2>3. Becomes(f, r) /\ UNCHANGED session  BY <2>1, <2>2 DEF Act
  <2>4. r.pc = "book" /\ r.jobs = run[f].jobs /\ r.quote = run[f].quote  BY <1>1, <2>2 DEF Runs
  <2>5. run'[f] = r  BY <1>1, <2>3 DEF Becomes
  <2>6. Job(f)' = Job(f) /\ Amount(f)' = Amount(f)  BY <2>4, <2>5, SameOrder
  <2>7. Ordering(f)'  BY <1>1, <1>3, <2>3, <2>4, <2>5, <2>6 DEF Ordering
  <2>8. CashRead(f)'  BY <2>4, <2>5 DEF CashRead
  <2> QED  BY <1>1, <2>7, <2>8, FlowRounds
<1> QED  BY <1>2, <1>3

LEMMA BookRounds ==
  ASSUME Books, Rounds, NEW f \in Flow, Book(f)
  PROVE  Rounds'
<1>1. /\ run[f].pc = "book" /\ Watch /\ UNCHANGED <<strategy, day, user, trades, session>>
      /\ run'[Other(f)] = run[Other(f)] /\ run \in [Flow -> Runs] /\ run[f].jobs # <<>>
      /\ Amount(f) \in Nat /\ session.cash \in Int
  <2>1. TypeInv  BY DEF Books
  <2>2. run[f].pc = "book" /\ Watch /\ UNCHANGED <<strategy, day, user, trades, session>>
    BY DEF Book
  <2>3. run'[Other(f)] = run[Other(f)]  BY <2>1, BookType
  <2>4. run \in [Flow -> Runs] /\ session.cash \in Int  BY <2>1 DEF TypeInv, RunInv, Sessions
  <2>5. run[f].jobs # <<>> /\ Amount(f) \in Nat
    <3>1. run[f].pc \in Filling  BY <2>2 DEF Filling
    <3> QED  BY <2>1, <3>1, FillIs
  <2> QED  BY <2>2, <2>3, <2>4, <2>5
<1>2. run'[f].pc \notin {"holdings", "decide"}
  <2>1. CASE Becomes(f, NextJob(f))
    <3>1. NextJob(f).pc = run[f].loop  BY <1>1, NextJobIs DEF Books, TypeInv
    <3>2. run[f].loop \in {"idle", "walk", "act"}  BY <1>1 DEF Runs
    <3> QED  BY <1>1, <2>1, <3>1, <3>2 DEF Becomes
  <2>2. CASE ~Becomes(f, NextJob(f))
    <3>1. run'[f] = [run[f] EXCEPT !.pc = "trade", !.old = position]  BY <1>1, <2>2 DEF Book, Becomes
    <3>2. run'[f].pc = "trade"  BY <1>1, <3>1 DEF Runs
    <3> QED  BY <3>2
  <2> QED  BY <2>1, <2>2
<1>3. CASE ~Ordering(f)  BY <1>1, <1>2, <1>3, PlainRounds
<1>4. CASE Ordering(f)
  <2>1. Job(f).side = "BUY" /\ Amount(f) <= session.cash  BY <1>1, <1>4 DEF Ordering
  <2>2. PICK r : r = [run[f] EXCEPT !.pc = "trade", !.old = position]  OBVIOUS
  <2>3. Becomes(f, r)  BY <1>1, <2>1, <2>2 DEF Book
  <2>4. r.pc = "trade" /\ r.jobs = run[f].jobs  BY <1>1, <2>2 DEF Runs
  <2>5. run'[f] = r  BY <1>1, <2>3 DEF Becomes
  <2>6. Ordering(f)'  BY <1>1, <2>1, <2>4, <2>5 DEF Ordering, Job
  <2>7. CashRead(f)'  BY <1>2 DEF CashRead
  <2> QED  BY <1>1, <2>6, <2>7, FlowRounds
<1> QED  BY <1>3, <1>4

LEMMA RecordTradeRounds ==
  ASSUME Books, Rounds, NEW f \in Flow, RecordTrade(f)
  PROVE  Rounds'
<1>1. /\ run[f].pc = "trade" /\ Watch /\ UNCHANGED <<strategy, day, user>> /\ trades'.last = day
      /\ run'[Other(f)] = run[Other(f)] /\ run'[f].pc = "position"
  <2>1. TypeInv  BY DEF Books
  <2>2. run'[Other(f)] = run[Other(f)] /\ run'[f].pc = "position"  BY <2>1, RecordTradeType
  <2>3. trades'.last = day
    <3>1. PICK net, shares : trades' = [net |-> net, shares |-> shares, last |-> day]
      BY DEF RecordTrade
    <3> QED  BY <3>1
  <2> QED  BY <2>2, <2>3 DEF RecordTrade
<1>2. CashRead(f)'  BY <1>1 DEF CashRead
<1> QED  BY <1>1, <1>2, FlowRounds

LEMMA StepRounds ==
  ASSUME Books, Rounds, NEW f \in Flow, Step(f)
  PROVE  Rounds'
<1>0. TypeInv /\ run \in [Flow -> Runs] /\ Other(f) \in Flow  BY OtherFlow DEF Books, TypeInv, RunInv
<1>1. CASE CheckPending(f) \/ WalkPending(f) \/ EndWalk(f)
  <2>1. /\ run'[f].pc \notin {"holdings", "decide"} /\ run'[Other(f)].pc = run[Other(f)].pc
    BY <1>0, <1>1, CheckPendingType, WalkPendingType, EndWalkType
  <2>2. /\ Watch /\ UNCHANGED <<strategy, day, user, trades>> /\ run[f].pc \in {"pending", "walk"}
    BY <1>1 DEF CheckPending, WalkPending, EndWalk
  <2>3. ~Ordering(f)  BY <2>2 DEF Ordering
  <2> QED  BY <2>1, <2>2, <2>3, PlainRounds
<1>2. CASE LoadSession(f)
  <2>1. /\ run'[Other(f)] = run[Other(f)] /\ Watch /\ run[f].pc = "load"
        /\ UNCHANGED <<strategy, day, user, trades, session>>
    <3>1. run'[Other(f)] = run[Other(f)]  BY <1>0, <1>2, LoadSessionType
    <3> QED  BY <1>2, <3>1 DEF LoadSession
  <2>2. CashRead(f)'
    <3>1. CASE Stop(f)
      <4>1. run'[f].pc = "idle"  BY <1>0, <3>1, StopIs DEF TypeInv
      <4> QED  BY <4>1 DEF CashRead
    <3>2. CASE ~Stop(f)
      <4>1. run'[f] = [run[f] EXCEPT !.pc = "holdings", !.cash = session.cash, !.par = session.par]
        BY <1>0, <1>2, <3>2 DEF LoadSession, Becomes
      <4>2. run'[f].cash = session.cash  BY <1>0, <4>1 DEF Runs
      <4> QED  BY <2>1, <4>2 DEF CashRead
    <3> QED  BY <3>1, <3>2
  <2>3. ~Ordering(f)  BY <2>1 DEF Ordering
  <2> QED  BY <2>1, <2>2, <2>3, FlowRounds
<1>3. CASE LoadHoldings(f)
  <2>1. /\ run'[Other(f)] = run[Other(f)] /\ Watch /\ run[f].pc = "holdings"
        /\ UNCHANGED <<strategy, day, user, trades, session>>
    <3>1. run'[Other(f)] = run[Other(f)]  BY <1>0, <1>3, LoadHoldingsType
    <3> QED  BY <1>3, <3>1 DEF LoadHoldings
  <2>2. run'[f].cash = run[f].cash
    <3> DEFINE total == Worth(position) + run[f].cash
               high  == IF peak > total THEN peak ELSE total
               r     == [run[f] EXCEPT !.pc = "decide", !.held = position, !.peak = high]
    <3>1. Becomes(f, r)  BY <1>3 DEF LoadHoldings
    <3>2. run'[f] = r
      <4> HIDE DEF r
      <4> QED  BY <1>0, <3>1 DEF Becomes
    <3> HIDE DEF high
    <3>3. r.cash = run[f].cash  BY <1>0 DEF Runs
    <3> QED  BY <3>2, <3>3
  <2>3. CashRead(f) => CashRead(f)'  BY <2>1, <2>2 DEF CashRead
  <2>4. ~Ordering(f)  BY <2>1 DEF Ordering
  <2> QED  BY <2>1, <2>3, <2>4, FlowRounds
<1>4. CASE EndTick(f)
  <2>1. /\ run'[f].pc = "idle" /\ run'[Other(f)] = run[Other(f)] /\ Watch /\ run[f].pc = "act"
        /\ UNCHANGED <<strategy, day, user, trades>> /\ run[f].jobs = <<>>
    BY <1>0, <1>4, EndTickType DEF EndTick
  <2>2. ~Ordering(f)  BY <2>1 DEF Ordering
  <2> QED  BY <2>1, <2>2, PlainRounds
<1>5. CASE WritePosition(f)
  <2>1. /\ run'[f].pc \in {"idle", "cash"} /\ run'[Other(f)] = run[Other(f)] /\ Watch /\ run[f].pc = "position"
        /\ UNCHANGED <<strategy, day, user, trades>>
    BY <1>0, <1>5, WritePositionType DEF WritePosition
  <2>2. ~Ordering(f)  BY <2>1 DEF Ordering
  <2> QED  BY <2>1, <2>2, PlainRounds
<1>6. CASE MoveCash(f) \/ Remember(f)
  <2>1. /\ run'[f].pc \notin {"holdings", "decide"} /\ run'[Other(f)] = run[Other(f)] /\ Watch
        /\ run[f].pc \in {"cash", "remember"} /\ UNCHANGED <<strategy, day, user, trades>>
    <3>1. CASE MoveCash(f)  BY <1>0, <3>1, MoveCashType DEF MoveCash
    <3>2. CASE Remember(f)
      <4>1. run[f].pc = "remember" /\ Becomes(f, NextJob(f)) /\ run[f].jobs # <<>>
        BY <1>0, <3>2, FillIs DEF Remember, Filling
      <4>2. NextJob(f).pc = run[f].loop  BY <1>0, <4>1, NextJobIs DEF TypeInv
      <4>3. run'[f] = NextJob(f)  BY <1>0, <4>1 DEF Becomes
      <4>4. run[f].loop \in {"idle", "walk", "act"}  BY <1>0 DEF Runs
      <4> QED  BY <1>0, <3>2, <4>1, <4>2, <4>3, <4>4, RememberType DEF Remember
    <3> QED  BY <1>6, <3>1, <3>2
  <2>2. ~Ordering(f)  BY <2>1 DEF Ordering
  <2> QED  BY <2>1, <2>2, PlainRounds
<1> QED
  BY <1>1, <1>2, <1>3, <1>4, <1>5, <1>6, DecideRounds, ActRounds, BookRounds, RecordTradeRounds, Zenon DEF Step

LEMMA SchedulerRounds ==
  ASSUME Books, Rounds, StartTick \/ MarkPosition \/ StartManual \/ GuardManual
  PROVE  Rounds'
<1>1. /\ "tick" \in Flow /\ "manual" \in Flow /\ Other("tick") = "manual"
      /\ Other("manual") = "tick" /\ TypeInv
  BY DEF Flow, Other, Books
<1>2. CASE StartTick
  <2>1. run'["tick"].pc = "mark" /\ run'["manual"] = run["manual"]  BY <1>1, <1>2, StartTickType
  <2>2. Watch /\ UNCHANGED <<strategy, day, user, trades>> /\ run["tick"].pc = "idle"  BY <1>2 DEF StartTick
  <2>3. ~Ordering("tick")  BY <2>2 DEF Ordering
  <2> QED  BY <1>1, <2>1, <2>2, <2>3, PlainRounds
<1>3. CASE MarkPosition
  <2>1. run'["tick"].pc = "pending" /\ run'["manual"] = run["manual"]  BY <1>1, <1>3, MarkPositionType
  <2>2. Watch /\ UNCHANGED <<strategy, day, user, trades>> /\ run["tick"].pc = "mark"  BY <1>3 DEF MarkPosition
  <2>3. ~Ordering("tick")  BY <2>2 DEF Ordering
  <2> QED  BY <1>1, <2>1, <2>2, <2>3, PlainRounds
<1>4. CASE StartManual
  <2>1. run'["manual"].pc = "pending" /\ run'["tick"] = run["tick"]  BY <1>1, <1>4, StartManualType
  <2>2. Watch /\ UNCHANGED <<strategy, day, user, trades>> /\ run["manual"].pc = "idle"  BY <1>4 DEF StartManual
  <2>3. ~Ordering("manual")  BY <2>2 DEF Ordering
  <2> QED  BY <1>1, <2>1, <2>2, <2>3, PlainRounds
<1>5. CASE GuardManual
  <2>1. run'["manual"].pc \in {"idle", "load"} /\ run'["tick"] = run["tick"]  BY <1>1, <1>5, GuardManualType
  <2>2. Watch /\ UNCHANGED <<strategy, day, user, trades>> /\ run["manual"].pc = "guard"  BY <1>5 DEF GuardManual
  <2>3. ~Ordering("manual")  BY <2>2 DEF Ordering
  <2> QED  BY <1>1, <2>1, <2>2, <2>3, PlainRounds
<1> QED  BY <1>2, <1>3, <1>4, <1>5

\* The clock and the status leave the flows where they are.
LEMMA TimeRounds ==
  ASSUME Books, Rounds, NextMinute \/ NextDay \/ SetStatus
  PROVE  Rounds'
<1>0. TypeInv /\ run \in [Flow -> Runs]  BY DEF Books, TypeInv, RunInv
<1>1. /\ Watch /\ UNCHANGED <<strategy, user, trades>> /\ session'.cash = session.cash
      /\ ~NextDay => day' = day
  BY <1>0, SetStatusType DEF NextMinute, NextDay, SetStatus
<1>2. \A f \in Flow : /\ run'[f].pc = run[f].pc /\ run'[f].cash = run[f].cash
                      /\ run'[f].jobs = run[f].jobs /\ run'[f].quote = run[f].quote
  <2>1. CASE run' = run  BY <2>1
  <2>2. CASE run' = [f \in Flow |-> Unlinked(run[f])]
    <3>1. ASSUME NEW f \in Flow PROVE Unlinked(run[f]).cash = run[f].cash
      BY <1>0 DEF Unlinked, Runs
    <3> QED  BY <1>0, <2>2, <3>1, AllUnlinked DEF TypeInv
  <2> QED  BY <2>1, <2>2 DEF NextMinute, NextDay, SetStatus
<1>3. \A f \in Flow : /\ CashRead(f) => CashRead(f)'
                      /\ Ordering(f) => Ordering(f)'
  BY <1>1, <1>2, SameOrder DEF CashRead, Ordering
<1>4. \A f \in Flow : ~OrdersPurchase(f)  BY <1>2 DEF OrdersPurchase
<1>5. /\ audit.rounds \in Nat /\ audit'.rounds \in {0, audit.rounds}
      /\ NextDay => audit'.rounds = 0
  <2>1. NextDay => day' # day  BY <1>0 DEF NextDay, TypeInv
  <2> QED  BY <1>0, <1>1, <1>4, <2>1, RoundsIs
<1>6. Alone' => Alone  BY <1>0, <1>1, WatchIs DEF Alone
<1> QED  BY <1>1, <1>3, <1>5, <1>6 DEF Rounds

\* A change by the user finds no flow at work.
LEMMA UserRounds ==
  ASSUME Books, Rounds, ReadSettings \/ WriteSettings \/ Wipe \/ Restart
  PROVE  Rounds'
<1>0. TypeInv  BY DEF Books
<1>1. Watch /\ UNCHANGED <<strategy, day>> /\ (user.pc # "idle" \/ user'.pc # "idle")
  <2>1. CASE ReadSettings
    <3>1. user'.pc = "settings"  BY <1>0, <2>1, ReadSettingsType
    <3>2. Watch /\ UNCHANGED <<strategy, day>>  BY <2>1, Zenon DEF ReadSettings
    <3> QED  BY <3>1, <3>2
  <2>2. CASE WriteSettings  BY <2>2 DEF WriteSettings
  <2>3. CASE Wipe
    <3>1. user'.pc = "reset"  BY <1>0, <2>3, WipeType
    <3> QED  BY <2>3, <3>1 DEF Wipe
  <2>4. CASE Restart  BY <2>4 DEF Restart
  <2> QED  BY <2>1, <2>2, <2>3, <2>4
<1>2. Wipe => user'.pc = "reset"  BY <1>0, WipeType
<1>3. ~Wipe => UNCHANGED <<trades, run>>
  <2>1. CASE ReadSettings  BY <2>1, Zenon DEF ReadSettings
  <2>2. CASE WriteSettings \/ Restart  BY <2>2 DEF WriteSettings, Restart
  <2> QED  BY <2>1, <2>2
<1> SUFFICES ASSUME strategy \in OnceDaily, Alone'
             PROVE  /\ \A f \in Flow : CashRead(f)'
                    /\ audit'.rounds <= 1
                    /\ audit'.rounds > 0 => trades'.last = day' \/ \E f \in Flow : Ordering(f)'
  BY <1>1 DEF Rounds
<1>4. \A f \in Flow : run'[f].pc = "idle"
  <2>1. CASE user'.pc # "idle"  BY <1>0, <1>1, <2>1, WatchIs DEF Alone
  <2>2. CASE user'.pc = "idle"
    <3>1. ~Wipe /\ user.pc # "idle"  BY <1>1, <1>2, <2>2
    <3>2. ~audit.raced  BY <1>0, <1>1, WatchIs DEF Alone
    <3> QED  BY <1>3, <3>1, <3>2 DEF Books, RunTurns
  <2> QED  BY <2>1, <2>2
<1>5. \A f \in Flow : CashRead(f)' /\ ~OrdersPurchase(f)  BY <1>4 DEF CashRead, OrdersPurchase
<1>6. audit.rounds \in Nat /\ audit'.rounds \in {0, audit.rounds}  BY <1>0, <1>1, <1>5, RoundsIs
<1>7. CASE Wipe
  <2>1. audit'.rounds = 0  BY <1>0, <1>1, <1>2, <1>7, RoundsIs
  <2> QED  BY <1>5, <2>1
<1>8. CASE ~Wipe
  <2>1. Alone  BY <1>0, <1>1, WatchIs DEF Alone
  <2>2. UNCHANGED <<trades, run>>  BY <1>3, <1>8
  <2>3. \A f \in Flow : ~Ordering(f)  BY <1>4, <2>2 DEF Ordering
  <2>4. audit.rounds <= 1 /\ (audit.rounds > 0 => trades.last = day)  BY <2>1, <2>3 DEF Rounds
  <2> QED  BY <1>1, <1>5, <1>6, <2>2, <2>4
<1> QED  BY <1>7, <1>8

LEMMA RoundsInit == ASSUME Init PROVE Rounds
<1>1. \A f \in Flow : run[f].pc = "idle"  BY IdleIs DEF Init
<1>2. audit.rounds = 0  BY DEF Init, NothingYet
<1> QED  BY <1>1, <1>2 DEF Rounds, CashRead

LEMMA RoundsStep == ASSUME Books, Rounds, [Next]_vars PROVE Rounds'
<1>1. CASE UNCHANGED vars
  BY <1>1 DEF vars, Rounds, Alone, CashRead, Ordering, Job, Amount, FillPrice
<1> QED
  BY <1>1, StepRounds, SchedulerRounds, TimeRounds, UserRounds, Zenon DEF Next

(* OnceDailyBuysOnce: for every timetable, also one that is due more than   *)
(* once a day, a once-daily session orders a purchase at most once a day,   *)
(* by its minute or by a manual run, while the flows take turns.            *)
THEOREM SimulatedOnceADay == Spec => []OnceDailyBuysOnce
<1>1. Init => Rounds  BY RoundsInit
<1>2. Books /\ Rounds /\ [Next]_vars => Rounds'  BY RoundsStep
<1>3. Rounds => OnceDailyBuysOnce  BY DEF Rounds, OnceDailyBuysOnce, Alone
<1> QED  BY <1>1, <1>2, <1>3, BooksHold, PTL DEF Spec
=============================================================================
