--------------------------- MODULE LiveTradingProofs ---------------------------
(***************************************************************************)
(* What the run of the minute, the order sync, a manual run, a user and    *)
(* the broker do to a watch stock, in whatever order their awaits let them *)
(* act.  ISafe is inductive by itself and says what the rows, the broker   *)
(* and the memory of each flow know of each other; the invariants after it *)
(* add what a property needs beyond that.                                  *)
(***************************************************************************)
EXTENDS LiveTrading, StrategyProofs

Stocks  == [quota : Nat, rules : Params, v4 : Ledgers]
Holding == [qty : Nat, avg : Nat, mark : Nat]
Jobs    == {s \in (IF strategy = "infinite-buy-v4" THEN V4Signals ELSE Signals) : s.qty > 0}
Rows    == [s : Jobs, day : Nat, known : BOOLEAN, told : Nat, live : BOOLEAN, filled : Nat,
            amount : Nat, status : Status]
Whys    == {"none", "fill", "restore", "reset", "carry", "persist", "quota"}
Flows   == [pc : FlowPcs, ws : Stocks, held : Holding, peak : Nat, total : Nat, list : Seq(Rows),
            rows : SUBSET Nat, open : SUBSET Nat, jobs : Seq(Jobs), bought : BOOLEAN,
            due : BOOLEAN, base : Stocks, why : Whys, now : Nat, new : Nat, id : Nat]

Audits == [torn : BOOLEAN, overlap : BOOLEAN, mixed : BOOLEAN, short : BOOLEAN,
            aside : Int, seeded : Int]

ClockOK  == /\ minute \in 1..(Len(Timetable) + 1) /\ cron \in BOOLEAN /\ market \in View
            /\ close \in Nat /\ peak \in Nat /\ count \in [manual : Nat, edit : Nat]
StoresOK == stock \in Stocks /\ position \in Holding /\ audit \in Audits
TypeInv ==
  /\ strategy \in Strategy /\ day \in 1..MaxDay
  /\ ClockOK /\ StoresOK
  /\ account \in [qty : Nat, avg : Nat, cash : Nat]
  /\ orders \in Seq(Rows) /\ flow \in [Flow -> Flows]

Unsent(o) == o.status \in {"AWAITING", "SUBMITTING"}
Listed(o) == o.status \in {"PENDING", "PARTIAL"} /\ o.known

RowOK(o) ==
  /\ o.told <= o.filled /\ o.filled <= o.s.qty
  /\ o.live => o.filled < o.s.qty /\ Listed(o)
  /\ Unsent(o) => ~o.known /\ ~o.live /\ o.filled = 0
  /\ o.status = "AWAITING" => o.s.side = "SELL"
  /\ o.status \in {"CANCELLED", "FAILED"} => ~o.live /\ o.filled = 0
  /\ o.status = "PENDING" => o.known /\ o.told = 0
  /\ o.status = "PARTIAL" => /\ o.told \in 1..(o.s.qty - 1)
                            /\ (~o.known => ~o.live /\ o.told = o.filled)
  /\ o.status = "FILLED" => o.told = o.s.qty

RowsOK == \A i \in DOMAIN orders : RowOK(orders[i]) /\ orders[i].day \in 1..day

OneUnresolved ==
  \A i, j \in DOMAIN orders :
    Unresolved(orders[i]) /\ Unresolved(orders[j]) /\ orders[i].s.side = orders[j].s.side => i = j

SalesCovered == \A i \in Working("SELL") : Remaining(orders[i]) <= account.qty

\* What may become of a row after a flow read it.
Follows(o, l) ==
  /\ o.s = l.s /\ o.day = l.day /\ ~Unsent(o)
  /\ l.told <= o.told /\ l.filled <= o.filled
  /\ ~l.live => ~o.live /\ o.filled = l.filled /\ o.amount = l.amount
  /\ l.status \in {"FILLED", "CANCELLED"} => o.status = l.status

Earliest(S) == CHOOSE i \in S : \A j \in S : i <= j
RowOf(r)   == Earliest(r.rows)
Current(r) == r.list[RowOf(r)]
Settles(r) == r.pc \in {"fetch", "store"}
Told(r)    == Settles(r) /\ r.why = "fill"

Pcs(f) == CASE f = "user"   -> {"idle", "fetch", "store"}
            [] f = "sync"   -> {"idle", "balance", "upsert", "positions", "list", "pass", "fetch", "store"}
            [] f = "manual" -> {"idle", "guard", "risk", "balance", "upsert", "positions", "evaluate",
                                "submit", "post", "fetch", "store"}
            [] OTHER        -> {"idle", "risk", "positions", "list", "pass", "unfilled", "cancel",
                                "evaluate", "submit", "post", "fetch", "store", "snapshot"}
Reasons(f) == CASE f = "user"   -> {"quota"}
                [] f = "sync"   -> {"fill", "restore"}
                [] f = "manual" -> {"reset", "carry", "persist"}
                [] OTHER        -> {"fill", "restore", "reset", "carry", "persist"}

PcInv(f, r) ==
  /\ r.pc \in Pcs(f)
  /\ r.pc = "idle" => r = IdleFlow
  /\ Settles(r) => r.why \in Reasons(f)
  /\ Settles(r) /\ r.why \in {"restore", "reset", "carry"} => strategy = "daily-dca"
  /\ Settles(r) /\ r.why = "persist" => strategy = "infinite-buy-v4"
  /\ r.rows # {} => r.pc = "pass" \/ (Settles(r) /\ r.why \in {"fill", "restore"})
  /\ Settles(r) /\ r.why \in {"fill", "restore"} => r.rows # {}

ListInv(r, os) ==
  \A i \in r.rows : /\ i \in DOMAIN r.list /\ i \in DOMAIN os
                    /\ RowOK(r.list[i]) /\ Listed(r.list[i])
                    /\ Follows(os[i], r.list[i])

FillInv(r, os) ==
  Told(r) => /\ r.now = Current(r).filled - Current(r).told /\ r.now > 0
             /\ os[RowOf(r)].told >= Current(r).filled
             /\ Current(r).s.side = "SELL" => os[RowOf(r)].status = "FILLED"
             /\ strategy \in {"momentum-breakout", "grid-mean-reversion", "infinite-buy-v4"}

RestoreInv(r, os) ==
  Settles(r) /\ r.why = "restore" =>
    Current(r).s.side = "BUY" /\ os[RowOf(r)].status = "CANCELLED"

PostInv(r, os) == r.pc = "post" => r.id \in DOMAIN os /\ os[r.id].status = "SUBMITTING"

FlowInv(f, r, os) == /\ PcInv(f, r) /\ ListInv(r, os) /\ FillInv(r, os)
                     /\ RestoreInv(r, os) /\ PostInv(r, os)

FlowsOK == /\ \A f \in Flow : FlowInv(f, flow[f], orders)
           /\ cron => flow["loop"].pc = "idle"
           /\ \A f, g \in Flow : flow[f].pc = "post" /\ flow[g].pc = "post" /\ f # g
                                 => flow[f].id # flow[g].id

ISafe == TypeInv /\ RowsOK /\ OneUnresolved /\ SalesCovered /\ FlowsOK

-----------------------------------------------------------------------------
LEMMA SameTypes ==
  ASSUME strategy' = strategy
  PROVE  Jobs' = Jobs /\ Rows' = Rows /\ Flows' = Flows
BY DEF Jobs, Rows, Flows


LEMMA FollowsTrans ==
  ASSUME NEW o \in Rows, NEW p \in Rows, NEW l \in Rows, Follows(o, l), Follows(p, o)
  PROVE  Follows(p, l)
BY DEF Follows, Rows

LEMMA FollowsSelf ==
  ASSUME NEW o \in Rows, ~Unsent(o)
  PROVE  Follows(o, o)
BY DEF Follows, Rows

\* What a step does to the rows a flow knows of.
Grows(o, p) == ~Unsent(o) => Follows(p, o)
Advance(f) ==
  \A i \in DOMAIN orders :
    /\ i \in DOMAIN orders' /\ Grows(orders[i], orders'[i])
    /\ orders[i].status = "SUBMITTING" =>
         orders'[i].status = "SUBMITTING" \/ (flow[f].pc = "post" /\ i = flow[f].id)

LEMMA AdvanceSame ==
  ASSUME orders \in Seq(Rows), UNCHANGED orders, NEW f
  PROVE  Advance(f)
<1>1. ASSUME NEW i \in DOMAIN orders PROVE Grows(orders[i], orders'[i])
  <2>1. orders[i] \in Rows  OBVIOUS
  <2> QED  BY <2>1, FollowsSelf DEF Grows
<1> QED  BY <1>1 DEF Advance

LEMMA RowIs ==
  ASSUME NEW r \in Flows, r.rows # {}
  PROVE  RowOf(r) \in r.rows /\ RowOf(r) \in Nat /\ \A j \in r.rows : RowOf(r) <= j
<1>1. r.rows \subseteq Nat  BY DEF Flows
<1>2. \E n \in r.rows : \A m \in r.rows : n <= m  BY <1>1, SmallestOf
<1> QED  BY <1>1, <1>2 DEF RowOf, Earliest

\* The other flows keep what they know while the rows advance.
LEMMA OthersKeep ==
  ASSUME NEW f, NEW g, NEW r \in Flows, FlowInv(g, r, orders), Advance(f),
         orders \in Seq(Rows), orders' \in Seq(Rows),
         ~(r.pc = "post" /\ flow[f].pc = "post" /\ r.id = flow[f].id)
  PROVE  FlowInv(g, r, orders')
<1>0. DOMAIN orders = 1..Len(orders) /\ DOMAIN orders' = 1..Len(orders')  OBVIOUS
<1>1. ASSUME NEW i \in r.rows
      PROVE  /\ i \in DOMAIN r.list /\ i \in DOMAIN orders'
             /\ RowOK(r.list[i]) /\ Listed(r.list[i]) /\ Follows(orders'[i], r.list[i])
             /\ Follows(orders'[i], orders[i])
  <2>1. /\ i \in DOMAIN r.list /\ i \in DOMAIN orders
        /\ RowOK(r.list[i]) /\ Listed(r.list[i]) /\ Follows(orders[i], r.list[i])
    BY <1>1 DEF FlowInv, ListInv
  <2>2. i \in DOMAIN orders' /\ Follows(orders'[i], orders[i])
    BY <2>1 DEF Advance, Grows, Follows
  <2>3. orders[i] \in Rows /\ orders'[i] \in Rows  BY <2>1, <2>2, <1>0
  <2>4. r.list[i] \in Rows
    <3>1. r.list \in Seq(Rows)  BY DEF Flows
    <3> QED  BY <2>1, <3>1
  <2> QED  BY <2>1, <2>2, <2>3, <2>4, FollowsTrans
<1>2. ListInv(r, orders')  BY <1>1 DEF ListInv
<1>3. PcInv(g, r)  BY DEF FlowInv
<1>4. ASSUME r.rows # {}
      PROVE  /\ RowOf(r) \in DOMAIN orders /\ Follows(orders'[RowOf(r)], orders[RowOf(r)])
             /\ orders[RowOf(r)].told \in Nat /\ orders'[RowOf(r)].told \in Nat
             /\ Current(r).filled \in Nat
  <2>1. RowOf(r) \in r.rows  BY <1>4, RowIs
  <2>2. RowOf(r) \in DOMAIN orders /\ RowOf(r) \in DOMAIN r.list  BY <2>1 DEF FlowInv, ListInv
  <2>3. RowOf(r) \in DOMAIN orders' /\ Follows(orders'[RowOf(r)], orders[RowOf(r)])  BY <2>1, <1>1
  <2>4. orders[RowOf(r)] \in Rows /\ orders'[RowOf(r)] \in Rows  BY <1>0, <2>2, <2>3
  <2>5. r.list \in Seq(Rows)  BY DEF Flows
  <2>6. Current(r) \in Rows  BY <2>2, <2>5 DEF Current
  <2> QED  BY <2>2, <2>3, <2>4, <2>6 DEF Rows
<1>5. FillInv(r, orders')
  <2> SUFFICES ASSUME Told(r) PROVE FillInv(r, orders')  BY DEF FillInv
  <2>1. r.rows # {}  BY <1>3 DEF Told, PcInv
  <2> QED  BY <2>1, <1>4 DEF FlowInv, FillInv, Follows
<1>6. RestoreInv(r, orders')
  <2> SUFFICES ASSUME Settles(r), r.why = "restore" PROVE RestoreInv(r, orders')  BY DEF RestoreInv
  <2>1. r.rows # {}  BY <1>3 DEF PcInv
  <2> QED  BY <2>1, <1>4 DEF FlowInv, RestoreInv, Follows
<1>7. PostInv(r, orders')  BY DEF FlowInv, PostInv, Advance
<1> QED  BY <1>2, <1>3, <1>5, <1>6, <1>7 DEF FlowInv

LEMMA FlowStep ==
  ASSUME TypeInv, FlowsOK, strategy' = strategy, orders' \in Seq(Rows),
         NEW f \in Flow, NEW r \in Flows, flow' = [flow EXCEPT ![f] = r],
         FlowInv(f, r, orders'), Advance(f),
         r.pc = "post" => (flow[f].pc = "post" /\ r.id = flow[f].id) \/ r.id \notin DOMAIN orders,
         cron' => flow'["loop"].pc = "idle"
  PROVE  FlowsOK' /\ flow' \in [Flow -> Flows]
<1>1. flow \in [Flow -> Flows] /\ orders \in Seq(Rows)  BY DEF TypeInv
<1>2. flow' \in [Flow -> Flows] /\ flow'[f] = r  BY <1>1
<1>3. \A g \in Flow : g # f => flow'[g] = flow[g]  BY <1>1
<1>4. ASSUME NEW g \in Flow PROVE FlowInv(g, flow'[g], orders')
  <2>1. CASE g = f  BY <2>1, <1>2
  <2>2. CASE g # f
    <3>1. flow'[g] = flow[g] /\ flow[g] \in Flows  BY <2>2, <1>1, <1>3
    <3>2. FlowInv(g, flow[g], orders)  BY DEF FlowsOK
    <3>3. ~(flow[g].pc = "post" /\ flow[f].pc = "post" /\ flow[g].id = flow[f].id)
      BY <2>2 DEF FlowsOK
    <3> QED  BY <1>1, <3>1, <3>2, <3>3, OthersKeep
  <2> QED  BY <2>1, <2>2
<1>5. ASSUME NEW g \in Flow, NEW h \in Flow, flow'[g].pc = "post", flow'[h].pc = "post", g # h
      PROVE  flow'[g].id # flow'[h].id
  <2>1. ASSUME NEW k \in Flow, k # f, flow[k].pc = "post", r.pc = "post" PROVE flow[k].id # r.id
    <3>1. flow[k].id \in DOMAIN orders  BY <2>1 DEF FlowsOK, FlowInv, PostInv
    <3> QED  BY <2>1, <3>1 DEF FlowsOK
  <2>2. CASE g = f  BY <2>1, <2>2, <1>2, <1>3, <1>5
  <2>3. CASE h = f  BY <2>1, <2>3, <1>2, <1>3, <1>5
  <2>4. CASE g # f /\ h # f  BY <2>4, <1>3, <1>5 DEF FlowsOK
  <2> QED  BY <2>2, <2>3, <2>4
<1>6. \A g \in Flow : FlowInv(g, flow[g], orders)'
  BY <1>4 DEF FlowInv, PcInv, ListInv, FillInv, RestoreInv, PostInv
<1> QED  BY <1>2, <1>5, <1>6 DEF FlowsOK

LEMMA WatchIs ==
  ASSUME audit \in Audits, Watch
  PROVE  audit' \in Audits
<1>1. (audit.overlap \/ Overlapping) \in BOOLEAN  BY DEF Audits, Overlapping
<1> QED  BY <1>1 DEF Watch, Audits

\* A step of a flow that touches neither the orders nor the account.
LEMMA FlowOnly ==
  ASSUME ISafe, UNCHANGED <<strategy, day, orders, account>>, (ClockOK /\ StoresOK)',
         NEW f \in Flow, NEW r \in Flows, flow' = [flow EXCEPT ![f] = r],
         FlowInv(f, r, orders), r.pc # "post",
         cron' => cron, f = "loop" /\ flow[f].pc = "idle" => ~cron'
  PROVE  ISafe'
<1>1. orders \in Seq(Rows) /\ orders' \in Seq(Rows)  BY DEF ISafe, TypeInv
<1>2. FlowsOK' /\ flow' \in [Flow -> Flows]
  <2>1. Advance(f)  BY <1>1, AdvanceSame
  <2>2. TypeInv /\ FlowsOK  BY DEF ISafe
  <2>3. cron' => flow'["loop"].pc = "idle"
    <3>1. flow \in [Flow -> Flows] /\ "loop" \in Flow  BY DEF ISafe, TypeInv, Flow, Run
    <3>2. cron' => flow["loop"].pc = "idle"  BY DEF ISafe, FlowsOK
    <3> QED  BY <3>1, <3>2
  <2> QED  BY <1>1, <2>1, <2>2, <2>3, FlowStep
<1>3. Rows' = Rows /\ Flows' = Flows  BY SameTypes
<1>4. TypeInv'  BY <1>1, <1>2, <1>3 DEF ISafe, TypeInv
<1>5. RowsOK' /\ OneUnresolved' /\ SalesCovered'
  BY DEF ISafe, RowsOK, OneUnresolved, SalesCovered, RowOK, Listed, Unsent, Unresolved, Working, Remaining
<1> QED  BY <1>2, <1>4, <1>5 DEF ISafe

LEMMA PlainFlow ==
  ASSUME NEW f, NEW r, NEW os, r.rows = {}, ~Settles(r), r.pc \in Pcs(f), r.pc # "post",
         r.pc = "idle" => r = IdleFlow
  PROVE  FlowInv(f, r, os)
BY DEF FlowInv, PcInv, ListInv, FillInv, RestoreInv, PostInv, Told

LEMMA FlowIs ==
  ASSUME ISafe, NEW f \in Flow
  PROVE  /\ flow[f] \in Flows /\ flow[f].pc \in Pcs(f) /\ FlowInv(f, flow[f], orders)
         /\ flow[f].pc \notin {"pass", "fetch", "store"} => flow[f].rows = {}
         /\ flow[f].pc = "idle" => flow[f] = IdleFlow
         /\ cron => flow["loop"].pc = "idle"
BY DEF ISafe, TypeInv, FlowsOK, FlowInv, PcInv, Settles

LEMMA IdleIs == IdleFlow \in Flows /\ IdleFlow.pc = "idle" /\ IdleFlow.rows = {} /\ IdleFlow.jobs = <<>>
<1>1. NoShares \in Holding  BY DEF NoShares, Holding
<1>2. NoStock \in Stocks
  <2>1. NoParams \in Params  BY NoDayAssumption DEF NoParams, Params, NoPlan, Plans
  <2>2. NoStock.v4 \in Ledgers  BY DEF NoStock, Ledgers, NotKnown, Modes
  <2> QED  BY <2>1, <2>2 DEF NoStock, Stocks
<1>3. <<>> \in Seq(Rows) /\ <<>> \in Seq(Jobs) /\ "idle" \in FlowPcs /\ "none" \in Whys
  BY DEF FlowPcs, Whys
<1> QED  BY <1>1, <1>2, <1>3 DEF IdleFlow, Flows

LEMMA AfterRunIs ==
  ASSUME NEW f \in Flow, flow[f] \in Flows
  PROVE  /\ AfterRun(f) \in Flows /\ AfterRun(f).rows = {} /\ AfterRun(f).jobs = <<>>
         /\ AfterRun(f).pc = IF f = "loop" THEN "snapshot" ELSE "idle"
         /\ AfterRun(f).pc = "idle" => AfterRun(f) = IdleFlow
<1>1. flow[f].held \in Holding  BY DEF Flows
<1>2. "snapshot" \in FlowPcs  BY DEF FlowPcs
<1>3. [IdleFlow EXCEPT !.pc = "snapshot", !.held = flow[f].held] \in Flows  BY <1>1, <1>2, IdleIs DEF Flows
<1> QED  BY <1>3, IdleIs DEF AfterRun, IdleFlow

LEMMA MarketIs == ASSUME ClockOK PROVE market.price \in Nat /\ market \in Views
  BY ViewAssumption DEF ClockOK, Views

-----------------------------------------------------------------------------
LEMMA StartLoopKeeps == ASSUME ISafe, StartLoop PROVE ISafe'
<1>1. PICK r : r = [IdleFlow EXCEPT !.pc = "risk", !.ws = stock]  OBVIOUS
<1>2. flow' = [flow EXCEPT !["loop"] = r] /\ "loop" \in Flow  BY <1>1 DEF StartLoop, Flow, Run
<1>3. stock \in Stocks /\ "risk" \in FlowPcs  BY DEF ISafe, TypeInv, StoresOK, FlowPcs
<1>4. r \in Flows /\ r.rows = {} /\ r.pc = "risk"  BY <1>1, <1>3, IdleIs DEF Flows, IdleFlow
<1>5. FlowInv("loop", r, orders)  BY <1>4, PlainFlow DEF Pcs, Settles
<1>6. (ClockOK /\ StoresOK)'  BY WatchIs DEF ISafe, TypeInv, ClockOK, StoresOK, StartLoop
<1> QED  BY <1>2, <1>4, <1>5, <1>6, FlowOnly DEF StartLoop

LEMMA ReadRiskKeeps == ASSUME ISafe, NEW f \in Flow, ReadRisk(f) PROVE ISafe'
<1>1. PICK r : r = [flow[f] EXCEPT !.pc = IF f = "loop" THEN "positions" ELSE "balance",
                                   !.total = Worth(position),
                                   !.peak = IF peak > Worth(position) THEN peak ELSE Worth(position)]
  OBVIOUS
<1>2. flow' = [flow EXCEPT ![f] = r]  BY <1>1 DEF ReadRisk
<1>3. Worth(position) \in Nat /\ peak \in Nat
  BY DEF ISafe, TypeInv, StoresOK, ClockOK, Holding, Worth
<1>4. flow[f] \in Flows /\ flow[f].pc \in Pcs(f) /\ flow[f].pc = "risk" /\ flow[f].rows = {}
      /\ (cron => flow["loop"].pc = "idle")
  BY FlowIs DEF ReadRisk
<1>5. r \in Flows /\ r.rows = {} /\ r.pc = IF f = "loop" THEN "positions" ELSE "balance"
  BY <1>1, <1>3, <1>4 DEF Flows, FlowPcs
<1>6. FlowInv(f, r, orders)  BY <1>4, <1>5, PlainFlow DEF Pcs, Settles, Flow, Run
<1>7. (ClockOK /\ StoresOK)'  BY WatchIs DEF ISafe, TypeInv, ClockOK, StoresOK, ReadRisk
<1> QED  BY <1>2, <1>4, <1>5, <1>6, <1>7, FlowOnly DEF ReadRisk

LEMMA SettleFlow ==
  ASSUME NEW f, NEW r, NEW os, r.rows = {}, r.pc = "fetch", r.pc \in Pcs(f),
         r.why \in Reasons(f) \ {"fill", "restore"},
         r.why \in {"reset", "carry"} => strategy = "daily-dca",
         r.why = "persist" => strategy = "infinite-buy-v4"
  PROVE  FlowInv(f, r, os)
BY DEF FlowInv, PcInv, ListInv, FillInv, RestoreInv, PostInv, Told, Settles

LEMMA StartSyncKeeps == ASSUME ISafe, StartSync PROVE ISafe'
<1>1. PICK r : r = [flow["sync"] EXCEPT !.pc = "balance"]  OBVIOUS
<1>2. flow' = [flow EXCEPT !["sync"] = r] /\ "sync" \in Flow  BY <1>1 DEF StartSync, Go, Flow
<1>3. flow["sync"] \in Flows /\ flow["sync"].pc = "idle" /\ flow["sync"].rows = {}
  BY <1>2, FlowIs DEF StartSync
<1>4. r \in Flows /\ r.rows = {} /\ r.pc = "balance"  BY <1>1, <1>3 DEF Flows, FlowPcs
<1>5. FlowInv("sync", r, orders)  BY <1>4, PlainFlow DEF Pcs, Settles
<1>6. (ClockOK /\ StoresOK)'  BY WatchIs DEF ISafe, TypeInv, ClockOK, StoresOK, StartSync
<1> QED  BY <1>2, <1>4, <1>5, <1>6, FlowOnly DEF StartSync

LEMMA StartManualKeeps == ASSUME ISafe, StartManual PROVE ISafe'
<1>1. PICK r : r = [IdleFlow EXCEPT !.pc = "guard", !.ws = stock]  OBVIOUS
<1>2. flow' = [flow EXCEPT !["manual"] = r] /\ "manual" \in Flow  BY <1>1 DEF StartManual, Flow, Run
<1>3. stock \in Stocks /\ "guard" \in FlowPcs  BY DEF ISafe, TypeInv, StoresOK, FlowPcs
<1>4. r \in Flows /\ r.rows = {} /\ r.pc = "guard"  BY <1>1, <1>3, IdleIs DEF Flows, IdleFlow
<1>5. FlowInv("manual", r, orders)  BY <1>4, PlainFlow DEF Pcs, Settles
<1>6. (ClockOK /\ StoresOK)'  BY WatchIs DEF ISafe, TypeInv, ClockOK, StoresOK, StartManual
<1> QED  BY <1>2, <1>4, <1>5, <1>6, FlowOnly DEF StartManual

LEMMA GuardManualKeeps == ASSUME ISafe, GuardManual PROVE ISafe'
<1>1. PICK r : /\ r \in {IdleFlow, [flow["manual"] EXCEPT !.pc = "risk"]}
               /\ flow' = [flow EXCEPT !["manual"] = r]
  BY DEF GuardManual, Stop, Go
<1>2. "manual" \in Flow  BY DEF Flow, Run
<1>3. flow["manual"] \in Flows /\ flow["manual"].pc = "guard" /\ flow["manual"].rows = {}
  BY <1>2, FlowIs DEF GuardManual
<1>4. r \in Flows /\ r.rows = {} /\ (r = IdleFlow \/ r.pc = "risk")
  BY <1>1, <1>3, IdleIs DEF Flows, FlowPcs
<1>5. FlowInv("manual", r, orders) /\ r.pc # "post"  BY <1>4, IdleIs, PlainFlow DEF Pcs, Settles
<1>6. (ClockOK /\ StoresOK)'  BY WatchIs DEF ISafe, TypeInv, ClockOK, StoresOK, GuardManual
<1> QED  BY <1>1, <1>2, <1>4, <1>5, <1>6, FlowOnly DEF GuardManual

LEMMA StartEditKeeps == ASSUME ISafe, StartEdit PROVE ISafe'
<1>1. PICK q \in Quotas : flow' = [flow EXCEPT !["user"] =
                                     [IdleFlow EXCEPT !.pc = "fetch", !.why = "quota", !.new = q]]
  BY DEF StartEdit
<1>2. PICK r : r = [IdleFlow EXCEPT !.pc = "fetch", !.why = "quota", !.new = q]  OBVIOUS
<1>3. "user" \in Flow /\ q \in Nat  BY SeedAssumption DEF Flow
<1>4. r \in Flows /\ r.rows = {} /\ r.pc = "fetch" /\ r.why = "quota"
  BY <1>2, <1>3, IdleIs DEF Flows, IdleFlow, FlowPcs, Whys
<1>5. FlowInv("user", r, orders)  BY <1>4, SettleFlow DEF Pcs, Reasons
<1>6. (ClockOK /\ StoresOK)'  BY WatchIs DEF ISafe, TypeInv, ClockOK, StoresOK, StartEdit
<1> QED  BY <1>1, <1>2, <1>3, <1>4, <1>5, <1>6, FlowOnly DEF StartEdit

LEMMA ReadBalanceKeeps == ASSUME ISafe, NEW f \in Flow, ReadBalance(f) PROVE ISafe'
<1> DEFINE held == [qty |-> account.qty, avg |-> account.avg, mark |-> market.price]
<1>1. PICK r : /\ r \in {IdleFlow, [flow[f] EXCEPT !.pc = "upsert", !.held = held]}
               /\ flow' = [flow EXCEPT ![f] = r]
  BY DEF ReadBalance, Stop
<1>2. flow[f] \in Flows /\ flow[f].pc = "balance" /\ flow[f].pc \in Pcs(f) /\ flow[f].rows = {}
  BY FlowIs DEF ReadBalance
<1>3. held \in Holding  BY MarketIs DEF ISafe, TypeInv, Holding
<1> HIDE DEF held
<1>4. r \in Flows /\ r.rows = {} /\ (r = IdleFlow \/ r.pc = "upsert")
  BY <1>1, <1>2, <1>3, IdleIs DEF Flows, FlowPcs
<1>5. FlowInv(f, r, orders) /\ r.pc # "post"
  BY <1>2, <1>4, IdleIs, PlainFlow DEF Pcs, Settles, Flow, Run
<1>6. (ClockOK /\ StoresOK)'  BY WatchIs DEF ISafe, TypeInv, ClockOK, StoresOK, ReadBalance
<1> QED  BY <1>1, <1>2, <1>4, <1>5, <1>6, FlowOnly DEF ReadBalance

LEMMA WritePositionsKeeps == ASSUME ISafe, NEW f \in Flow, WritePositions(f) PROVE ISafe'
<1>1. PICK r : r = [flow[f] EXCEPT !.pc = "positions"]  OBVIOUS
<1>2. flow' = [flow EXCEPT ![f] = r]  BY <1>1 DEF WritePositions, Go
<1>3. flow[f] \in Flows /\ flow[f].pc = "upsert" /\ flow[f].pc \in Pcs(f) /\ flow[f].rows = {}
  BY FlowIs DEF WritePositions
<1>4. r \in Flows /\ r.rows = {} /\ r.pc = "positions"  BY <1>1, <1>3 DEF Flows, FlowPcs
<1>5. FlowInv(f, r, orders)  BY <1>3, <1>4, PlainFlow DEF Pcs, Settles, Flow, Run
<1>6. flow[f].held \in Holding /\ NoShares \in Holding  BY <1>3 DEF Flows, NoShares, Holding
<1>7. (ClockOK /\ StoresOK)'
  BY <1>6, WatchIs DEF ISafe, TypeInv, ClockOK, StoresOK, WritePositions
<1> QED  BY <1>2, <1>3, <1>4, <1>5, <1>7, FlowOnly DEF WritePositions

LEMMA ReadPositionsKeeps == ASSUME ISafe, NEW f \in Flow, ReadPositions(f) PROVE ISafe'
<1>1. PICK r : r = [flow[f] EXCEPT !.pc = IF f = "manual" THEN "evaluate" ELSE "list", !.held = position]
  OBVIOUS
<1>2. flow' = [flow EXCEPT ![f] = r]  BY <1>1 DEF ReadPositions
<1>3. flow[f] \in Flows /\ flow[f].pc = "positions" /\ flow[f].pc \in Pcs(f) /\ flow[f].rows = {}
  BY FlowIs DEF ReadPositions
<1>4. r \in Flows /\ r.rows = {} /\ r.pc = IF f = "manual" THEN "evaluate" ELSE "list"
  BY <1>1, <1>3 DEF Flows, FlowPcs, ISafe, TypeInv, StoresOK
<1>5. FlowInv(f, r, orders) /\ r.pc # "post"  BY <1>3, <1>4, PlainFlow DEF Pcs, Settles, Flow, Run
<1>6. (ClockOK /\ StoresOK)'  BY WatchIs DEF ISafe, TypeInv, ClockOK, StoresOK, ReadPositions
<1> QED  BY <1>2, <1>3, <1>4, <1>5, <1>6, FlowOnly DEF ReadPositions

LEMMA ListKeeps == ASSUME ISafe, NEW f \in Flow, List(f) PROVE ISafe'
<1> DEFINE open == {i \in DOMAIN orders : orders[i].status \in {"PENDING", "PARTIAL"} /\ orders[i].known}
<1>1. PICK r : /\ r \in {IdleFlow, [flow[f] EXCEPT !.pc = "pass", !.list = orders, !.rows = open]}
               /\ flow' = [flow EXCEPT ![f] = r]
  BY DEF List, Stop
<1>2. flow[f] \in Flows /\ flow[f].pc = "list" /\ flow[f].pc \in Pcs(f)  BY FlowIs DEF List
<1>3. orders \in Seq(Rows) /\ open \subseteq Nat  BY DEF ISafe, TypeInv
<1>4. \A i \in open : i \in DOMAIN orders /\ Listed(orders[i])  BY DEF Listed
<1> HIDE DEF open
<1>5. r \in Flows /\ (r = IdleFlow \/ (r.pc = "pass" /\ r.list = orders /\ r.rows = open))
  BY <1>1, <1>2, <1>3, IdleIs DEF Flows, FlowPcs
<1>6. FlowInv(f, r, orders) /\ r.pc # "post"
  <2>1. CASE r = IdleFlow  BY <1>2, <2>1, IdleIs, PlainFlow DEF Pcs, Settles, Flow, Run
  <2>2. CASE r.pc = "pass" /\ r.list = orders /\ r.rows = open
    <3>1. ASSUME NEW i \in r.rows
          PROVE  i \in DOMAIN orders /\ RowOK(orders[i]) /\ Listed(orders[i]) /\ Follows(orders[i], orders[i])
      <4>1. i \in DOMAIN orders /\ Listed(orders[i])  BY <1>4, <2>2, <3>1
      <4>2. orders[i] \in Rows /\ ~Unsent(orders[i])  BY <1>3, <4>1 DEF Listed, Unsent
      <4> QED  BY <4>1, <4>2, FollowsSelf DEF ISafe, RowsOK
    <3>2. ListInv(r, orders)  BY <2>2, <3>1 DEF ListInv
    <3>3. PcInv(f, r)  BY <1>2, <2>2 DEF PcInv, Pcs, Settles, Flow, Run
    <3> QED  BY <2>2, <3>2, <3>3 DEF FlowInv, FillInv, RestoreInv, PostInv, Told, Settles
  <2> QED  BY <1>5, <2>1, <2>2
<1>7. (ClockOK /\ StoresOK)'  BY WatchIs DEF ISafe, TypeInv, ClockOK, StoresOK, List
<1> QED  BY <1>1, <1>2, <1>5, <1>6, <1>7, FlowOnly DEF List

LEMMA EndPassKeeps == ASSUME ISafe, NEW f \in Flow, EndPass(f) PROVE ISafe'
<1>1. PICK r : /\ \/ f = "sync" /\ r = IdleFlow
                  \/ f # "sync" /\ r = [flow[f] EXCEPT !.pc = "unfilled", !.list = <<>>]
               /\ flow' = [flow EXCEPT ![f] = r]
  BY DEF EndPass, Stop
<1>2. flow[f] \in Flows /\ flow[f].pc = "pass" /\ flow[f].pc \in Pcs(f) /\ flow[f].rows = {}
  BY FlowIs DEF EndPass
<1>3. <<>> \in Seq(Rows)  OBVIOUS
<1>4. r \in Flows /\ r.rows = {} /\ (r = IdleFlow \/ (f = "loop" /\ r.pc = "unfilled"))
  BY <1>1, <1>2, <1>3, IdleIs DEF Flows, FlowPcs, Pcs, Flow, Run
<1>5. FlowInv(f, r, orders) /\ r.pc # "post"  BY <1>2, <1>4, IdleIs, PlainFlow DEF Pcs, Settles, Flow, Run
<1>6. (ClockOK /\ StoresOK)'  BY WatchIs DEF ISafe, TypeInv, ClockOK, StoresOK, EndPass
<1> QED  BY <1>1, <1>2, <1>4, <1>5, <1>6, FlowOnly DEF EndPass

LEMMA ReadUnfilledKeeps == ASSUME ISafe, NEW f \in Flow, ReadUnfilled(f) PROVE ISafe'
<1> DEFINE open == {i \in DOMAIN orders : HasOpenOrders /\ orders[i].live}
<1>1. PICK r : /\ r \in {IdleFlow, AfterRun(f),
                         [flow[f] EXCEPT !.pc = IF Once /\ open # {} THEN "cancel" ELSE "evaluate",
                                         !.open = open]}
               /\ flow' = [flow EXCEPT ![f] = r]
  BY DEF ReadUnfilled, Stop
<1>2. flow[f] \in Flows /\ flow[f].pc = "unfilled" /\ flow[f].pc \in Pcs(f) /\ flow[f].rows = {}
  BY FlowIs DEF ReadUnfilled
<1>3. open \subseteq Nat /\ f = "loop"  BY <1>2 DEF ISafe, TypeInv, Pcs, Flow, Run
<1> HIDE DEF open
<1>4. r \in Flows /\ r.rows = {}
      /\ (r = IdleFlow \/ r.pc = "snapshot" \/ r.pc = "cancel" \/ r.pc = "evaluate")
  <2>1. CASE r = IdleFlow  BY <2>1, IdleIs
  <2>2. CASE r = AfterRun(f)  BY <1>2, <1>3, <2>2, AfterRunIs
  <2>3. CASE r = [flow[f] EXCEPT !.pc = IF Once /\ open # {} THEN "cancel" ELSE "evaluate", !.open = open]
    BY <1>2, <1>3, <2>3 DEF Flows, FlowPcs
  <2> QED  BY <1>1, <2>1, <2>2, <2>3
<1>5. FlowInv(f, r, orders) /\ r.pc # "post"  BY <1>3, <1>4, IdleIs, PlainFlow DEF Pcs, Settles
<1>6. (ClockOK /\ StoresOK)'  BY WatchIs DEF ISafe, TypeInv, ClockOK, StoresOK, ReadUnfilled
<1> QED  BY <1>1, <1>2, <1>4, <1>5, <1>6, FlowOnly DEF ReadUnfilled

LEMMA EvaluationFailsKeeps == ASSUME ISafe, NEW f \in Flow, EvaluationFails(f) PROVE ISafe'
<1>1. PICK r : r = AfterRun(f)  OBVIOUS
<1>2. flow' = [flow EXCEPT ![f] = r]  BY <1>1 DEF EvaluationFails
<1>3. flow[f] \in Flows /\ flow[f].pc = "evaluate" /\ flow[f].pc \in Pcs(f)
  BY FlowIs DEF EvaluationFails
<1>4. r \in Flows /\ r.rows = {} /\ (r = IdleFlow \/ (f = "loop" /\ r.pc = "snapshot"))
  BY <1>1, <1>3, AfterRunIs
<1>5. FlowInv(f, r, orders) /\ r.pc # "post"
  BY <1>3, <1>4, IdleIs, PlainFlow DEF Pcs, Settles, Flow, Run
<1>6. (ClockOK /\ StoresOK)'  BY WatchIs DEF ISafe, TypeInv, ClockOK, StoresOK, EvaluationFails
<1> QED  BY <1>2, <1>3, <1>4, <1>5, <1>6, FlowOnly DEF EvaluationFails

LEMMA DropJobKeeps == ASSUME ISafe, NEW f \in Flow, DropJob(f) PROVE ISafe'
<1>1. PICK r : r = [flow[f] EXCEPT !.jobs = Tail(@)]  OBVIOUS
<1>2. flow' = [flow EXCEPT ![f] = r]  BY <1>1 DEF DropJob
<1>3. flow[f] \in Flows /\ flow[f].pc = "submit" /\ flow[f].pc \in Pcs(f) /\ flow[f].rows = {}
      /\ flow[f].jobs # <<>>
  BY FlowIs DEF DropJob, Submitting
<1>4. Tail(flow[f].jobs) \in Seq(Jobs)
  <2>1. flow[f].jobs \in Seq(Jobs)  BY <1>3 DEF Flows
  <2> QED  BY <1>3, <2>1, HeadTailProperties
<1>5. r \in Flows /\ r.rows = {} /\ r.pc = "submit"  BY <1>1, <1>3, <1>4 DEF Flows
<1>6. FlowInv(f, r, orders)  BY <1>3, <1>5, PlainFlow DEF Settles
<1>7. (ClockOK /\ StoresOK)'  BY WatchIs DEF ISafe, TypeInv, ClockOK, StoresOK, DropJob
<1> QED  BY <1>2, <1>3, <1>5, <1>6, <1>7, FlowOnly DEF DropJob

LEMMA EndSubmitKeeps == ASSUME ISafe, NEW f \in Flow, EndSubmit(f) PROVE ISafe'
<1>1. PICK r : /\ \/ Carries /\ r = [flow[f] EXCEPT !.pc = "fetch", !.why = "reset"]
                  \/ Carries /\ r = [flow[f] EXCEPT !.pc = "fetch", !.why = "carry"]
                  \/ r = AfterRun(f)
               /\ flow' = [flow EXCEPT ![f] = r]
  BY DEF EndSubmit
<1>2. flow[f] \in Flows /\ flow[f].pc = "submit" /\ flow[f].pc \in Pcs(f) /\ flow[f].rows = {}
  BY FlowIs DEF EndSubmit
<1>3. f \in {"loop", "manual"}  BY <1>2 DEF Pcs, Flow, Run
<1>4. r \in Flows /\ r.rows = {}
      /\ \/ Carries /\ r.pc = "fetch" /\ r.why \in {"reset", "carry"}
         \/ r = IdleFlow
         \/ f = "loop" /\ r.pc = "snapshot"
  <2>1. CASE Carries /\ r = [flow[f] EXCEPT !.pc = "fetch", !.why = "reset"]
    BY <1>2, <2>1 DEF Flows, FlowPcs, Whys
  <2>2. CASE Carries /\ r = [flow[f] EXCEPT !.pc = "fetch", !.why = "carry"]
    BY <1>2, <2>2 DEF Flows, FlowPcs, Whys
  <2>3. CASE r = AfterRun(f)  BY <1>2, <2>3, AfterRunIs
  <2> QED  BY <1>1, <2>1, <2>2, <2>3
<1>5. FlowInv(f, r, orders) /\ r.pc # "post"
  <2>1. CASE Carries /\ r.pc = "fetch" /\ r.why \in {"reset", "carry"}
    <3>1. strategy = "daily-dca" /\ r.why # "persist"  BY <2>1 DEF Carries
    <3>2. r.pc \in Pcs(f) /\ r.why \in Reasons(f) \ {"fill", "restore"}  BY <1>3, <2>1 DEF Pcs, Reasons
    <3> QED  BY <1>4, <2>1, <3>1, <3>2, SettleFlow
  <2>2. CASE ~(Carries /\ r.pc = "fetch" /\ r.why \in {"reset", "carry"})
    BY <1>3, <1>4, <2>2, IdleIs, PlainFlow DEF Pcs, Settles
  <2> QED  BY <2>1, <2>2
<1>6. (ClockOK /\ StoresOK)'  BY WatchIs DEF ISafe, TypeInv, ClockOK, StoresOK, EndSubmit
<1> QED  BY <1>1, <1>2, <1>4, <1>5, <1>6, FlowOnly DEF EndSubmit

LEMMA SaveSnapshotKeeps == ASSUME ISafe, SaveSnapshot PROVE ISafe'
<1>1. flow' = [flow EXCEPT !["loop"] = IdleFlow] /\ "loop" \in Flow  BY DEF SaveSnapshot, Stop, Flow, Run
<1>2. PICK r : r = IdleFlow  OBVIOUS
<1>3. flow["loop"] \in Flows /\ flow["loop"].pc = "snapshot"  BY <1>1, FlowIs DEF SaveSnapshot
<1>4. r \in Flows /\ r.pc = "idle"  BY <1>2, IdleIs
<1>5. FlowInv("loop", r, orders)  BY <1>2, IdleIs, PlainFlow DEF Pcs, Settles
<1>6. Worth(flow["loop"].held) \in Nat  BY <1>3 DEF Flows, Holding, Worth
<1>7. (ClockOK /\ StoresOK)'
  BY <1>6, WatchIs DEF ISafe, TypeInv, ClockOK, StoresOK, SaveSnapshot
<1> QED  BY <1>1, <1>2, <1>3, <1>4, <1>5, <1>7, FlowOnly DEF SaveSnapshot

-----------------------------------------------------------------------------
(* What an evaluation orders.                                              *)
LEMMA PlaceOf ==
  ASSUME NEW n \in Nat, NEW places, places \subseteq 1..n, NEW k \in 1..Cardinality(places)
  PROVE  \E i \in places : Cardinality({j \in places : j <= i}) = k
<1> DEFINE upto(m) == {j \in places : j <= m}
           T == {m \in 0..n : Cardinality(upto(m)) >= k}
<1>0. \A j \in places : j \in Nat /\ 1 <= j /\ j <= n  OBVIOUS
<1>1. IsFiniteSet(places)
  <2>1. IsFiniteSet(1..n)  BY FS_Interval
  <2> QED  BY <2>1, FS_Subset
<1>2. \A m : IsFiniteSet(upto(m)) /\ Cardinality(upto(m)) \in Nat
  <2> TAKE m
  <2>1. upto(m) \subseteq places  OBVIOUS
  <2> QED  BY <1>1, <2>1, FS_Subset, FS_CardinalityType
<1>3. Cardinality(places) \in Nat /\ k \in Nat /\ 1 <= k /\ k <= Cardinality(places)
  <2>1. Cardinality(places) \in Nat  BY <1>1, FS_CardinalityType
  <2> QED  BY <2>1
<1>4. n \in T
  <2>1. upto(n) = places  BY <1>0
  <2> HIDE DEF upto
  <2> QED  BY <1>3, <2>1
<1>5. PICK m \in T : \A l \in T : m <= l
  <2>1. T \subseteq Nat  OBVIOUS
  <2> HIDE DEF T
  <2> QED  BY <1>4, <2>1, SmallestOf
<1>6. m \in Nat /\ m <= n /\ Cardinality(upto(m)) >= k  BY <1>5
<1>7. m # 0
  <2>1. upto(0) = {}
    <3>1. ASSUME NEW j \in upto(0) PROVE FALSE
      <4>1. j \in places /\ j <= 0  OBVIOUS
      <4> QED  BY <1>0, <4>1
    <3> HIDE DEF upto
    <3> QED  BY <3>1
  <2>2. Cardinality(upto(0)) = 0  BY <2>1, FS_EmptySet
  <2> HIDE DEF upto
  <2> QED  BY <1>3, <1>6, <2>2
<1>8. Cardinality(upto(m - 1)) < k
  <2>1. m - 1 \in 0..n /\ ~(m <= m - 1)  BY <1>6, <1>7
  <2>2. m - 1 \notin T  BY <1>5, <2>1
  <2>3. ~(Cardinality(upto(m - 1)) >= k)  BY <2>1, <2>2
  <2>4. Cardinality(upto(m - 1)) \in Nat  BY <1>2
  <2> HIDE DEF upto
  <2> QED  BY <1>3, <2>3, <2>4
<1>9. m \in places
  <2>1. ASSUME m \notin places, NEW j \in places PROVE j <= m <=> j <= m - 1
    <3>1. j \in Nat /\ j # m  BY <1>0, <2>1
    <3> QED  BY <1>6, <3>1
  <2>2. m \notin places => upto(m) = upto(m - 1)  BY <2>1
  <2> HIDE DEF upto
  <2> QED  BY <1>2, <1>3, <1>6, <1>8, <2>2
<1>10. Cardinality(upto(m)) = Cardinality(upto(m - 1)) + 1
  <2>0. ASSUME NEW j \in places PROVE j <= m <=> (j <= m - 1 \/ j = m)
    <3>1. j \in Nat  BY <1>0
    <3> QED  BY <1>6, <3>1
  <2>1. upto(m) = upto(m - 1) \cup {m} /\ m \notin upto(m - 1)
    <3>1. ~(m <= m - 1)  BY <1>6
    <3> QED  BY <1>9, <2>0, <3>1
  <2>2. IsFiniteSet(upto(m - 1))  BY <1>2
  <2> HIDE DEF upto
  <2>3. Cardinality(upto(m - 1) \cup {m}) = Cardinality(upto(m - 1)) + 1  BY <2>1, <2>2, FS_AddElement
  <2> QED  BY <2>1, <2>3
<1>11. Cardinality(upto(m)) = k
  <2>1. Cardinality(upto(m - 1)) \in Nat /\ Cardinality(upto(m)) \in Nat  BY <1>2
  <2> HIDE DEF upto
  <2> QED  BY <1>3, <1>6, <1>8, <1>10, <2>1
<1> QED  BY <1>9, <1>11

LEMMA AtIs ==
  ASSUME NEW S, NEW signals \in Seq(S), NEW places, places \subseteq DOMAIN signals
  PROVE  /\ At(signals, places) \in Seq(S) /\ Len(At(signals, places)) = Cardinality(places)
         /\ Cardinality(places) \in Nat /\ Cardinality(places) <= Len(signals)
         /\ \A k \in DOMAIN At(signals, places) : \E i \in places : At(signals, places)[k] = signals[i]
<1> DEFINE place(n) == CHOOSE i \in places : Cardinality({j \in places : j <= i}) = n
<1>1. DOMAIN signals = 1..Len(signals) /\ Len(signals) \in Nat  OBVIOUS
<1>2. IsFiniteSet(1..Len(signals)) /\ Cardinality(1..Len(signals)) = Len(signals)
  <2>1. Cardinality(1..Len(signals)) = IF 1 > Len(signals) THEN 0 ELSE Len(signals) - 1 + 1
    BY <1>1, FS_Interval
  <2> QED  BY <1>1, <2>1, FS_Interval
<1>3. Cardinality(places) \in Nat /\ Cardinality(places) <= Len(signals)
  BY <1>1, <1>2, FS_Subset, FS_CardinalityType
<1>4. ASSUME NEW k \in 1..Cardinality(places) PROVE place(k) \in places
  BY <1>1, <1>4, PlaceOf
<1>5. At(signals, places) = [k \in 1..Cardinality(places) |-> signals[place(k)]]  BY DEF At
<1> HIDE DEF place
<1>6. \A k \in 1..Cardinality(places) : signals[place(k)] \in S  BY <1>1, <1>4
<1>7. At(signals, places) \in Seq(S) /\ Len(At(signals, places)) = Cardinality(places)
  BY <1>3, <1>5, <1>6, IsASeq
<1> QED  BY <1>3, <1>4, <1>5, <1>7

LEMMA ExecutableIs ==
  ASSUME NEW S, NEW signals \in Seq(S)
  PROVE  /\ Executable(signals) \in Seq(S) /\ Len(Executable(signals)) <= Len(signals)
         /\ SellsFirst(signals) \in Seq(S)
<1>1. Executable(signals) \in Seq(S) /\ Len(Executable(signals)) <= Len(signals)
  BY AtIs DEF Executable
<1>2. SellsFirst(signals) \in Seq(S)
  <2> DEFINE sells == {i \in DOMAIN signals : signals[i].side = "SELL"}
  <2>1. At(signals, sells) \in Seq(S) /\ At(signals, DOMAIN signals \ sells) \in Seq(S)  BY AtIs
  <2> QED  BY <2>1, ConcatProperties DEF SellsFirst
<1> QED  BY <1>1, <1>2


LEMMA WorkingIs ==
  ASSUME orders \in Seq(Rows), NEW side
  PROVE  IsFiniteSet(Working(side)) /\ Working(side) \subseteq DOMAIN orders
<1>1. DOMAIN orders = 1..Len(orders) /\ Len(orders) \in Nat  OBVIOUS
<1>2. IsFiniteSet(1..Len(orders))  BY <1>1, FS_Interval
<1>3. Working(side) \subseteq DOMAIN orders  BY DEF Working
<1> QED  BY <1>1, <1>2, <1>3, FS_Subset

LEMMA JobIs ==
  ASSUME NEW s \in Jobs
  PROVE  /\ s.qty \in Nat \ {0} /\ s.side \in {"BUY", "SELL"} /\ s.price \in Nat
         /\ strategy = "infinite-buy-v4" => s \in V4Signals
         /\ strategy # "infinite-buy-v4" => s \in Signals
BY DEF Jobs, Signals, V4Signals

LEMMA JobQty ==
  ASSUME NEW s \in Jobs, NEW n \in Nat \ {0}
  PROVE  [s EXCEPT !.qty = n] \in Jobs /\ [s EXCEPT !.qty = n].side = s.side /\ [s EXCEPT !.qty = n].qty = n
<1>1. PICK t : t = [s EXCEPT !.qty = n]  OBVIOUS
<1>2. n > 0  OBVIOUS
<1>3. CASE strategy = "infinite-buy-v4"
  <2>1. s \in V4Signals  BY <1>3, JobIs
  <2>2. t \in V4Signals /\ t.qty = n /\ t.side = s.side  BY <1>1, <2>1 DEF V4Signals
  <2> QED  BY <1>1, <1>2, <1>3, <2>2 DEF Jobs
<1>4. CASE strategy # "infinite-buy-v4"
  <2>1. s \in Signals  BY <1>4, JobIs
  <2>2. t \in Signals /\ t.qty = n /\ t.side = s.side  BY <1>1, <2>1 DEF Signals
  <2> QED  BY <1>1, <1>2, <1>4, <2>2 DEF Jobs
<1> QED  BY <1>3, <1>4

LEMMA CommittedIs == ASSUME ISafe PROVE Committed \in Int
<1>1. orders \in Seq(Rows) /\ market.price \in Nat  BY MarketIs DEF ISafe, TypeInv
<1>2. ASSUME NEW i \in DOMAIN orders PROVE Charge(orders[i].s) \in Int
  <2>1. orders[i].s \in Jobs
    <3>1. orders[i] \in Rows  BY <1>1
    <3> QED  BY <3>1 DEF Rows
  <2>2. orders[i].s.price \in Nat /\ orders[i].s.qty \in Nat  BY <2>1, JobIs
  <2> QED  BY <1>1, <2>2 DEF Charge
<1>3. IsFiniteSet(Working("BUY")) /\ Working("BUY") \subseteq DOMAIN orders  BY <1>1, WorkingIs
<1> DEFINE charge == [i \in DOMAIN orders |-> Charge(orders[i].s)]
<1>4. \A i \in Working("BUY") : charge[i] \in Int  BY <1>2, <1>3
<1> HIDE DEF charge
<1>5. SumFunctionOnSet(charge, Working("BUY")) \in Int  BY <1>3, <1>4, SumInt
<1> QED  BY <1>5 DEF Committed, charge

LEMMA ContextIs ==
  ASSUME ISafe, NEW f \in Flow
  PROVE  IsV4Context(Context(f)) /\ Context(f).strategy = strategy /\ Context(f).day = day
<1> DEFINE c == Context(f)
<1>1. flow[f] \in Flows  BY FlowIs
<1>2. /\ flow[f].held.qty \in Nat /\ flow[f].held.avg \in Nat /\ flow[f].ws.quota \in Nat
      /\ flow[f].ws.rules \in Params /\ flow[f].ws.v4 \in Ledgers
  BY <1>1 DEF Flows, Holding, Stocks
<1>3. account.cash \in Nat /\ close \in Nat /\ day \in Nat /\ market \in Views /\ Cycles \in Nat \ {0}
  BY MarketIs, BoundAssumption, SeedAssumption DEF ISafe, TypeInv, ClockOK
<1>4. Rest(account.cash, Committed) \in Int  BY <1>3, CommittedIs DEF Rest
<1>5. /\ c.qty = flow[f].held.qty /\ c.avg = flow[f].held.avg /\ c.quota = flow[f].ws.quota
      /\ c.cycles = Cycles /\ c.cash = Rest(account.cash, Committed) /\ c.view = market
      /\ c.par = flow[f].ws.rules /\ c.ledger = flow[f].ws.v4 /\ c.close = close /\ c.day = day
      /\ c.strategy = strategy
  BY DEF Context
<1> HIDE DEF c
<1>6. IsV4Context(c)  BY <1>2, <1>3, <1>4, <1>5 DEF IsV4Context, IsContext
<1> QED  BY <1>5, <1>6 DEF c

LEMMA SignalsAreJobs ==
  ASSUME ISafe, NEW f \in Flow
  PROVE  /\ strategy # "infinite-buy-v4" => Evaluate(Context(f)) \in Seq(Jobs)
         /\ strategy = "infinite-buy-v4" /\ ~V4Throws(Context(f)) =>
              InfiniteBuyV4(Context(f)) \in Seq(Jobs)
<1>1. IsV4Context(Context(f)) /\ IsContext(Context(f))  BY ContextIs DEF IsV4Context
<1>2. Evaluate(Context(f)) \in Seq(CoveredBy(Context(f)))  BY <1>1, SignalsCovered
<1>3. ~V4Throws(Context(f)) => InfiniteBuyV4(Context(f)) \in Seq(V4Covered(Context(f)))
  BY <1>1, V4SignalsCovered
<1>4. strategy # "infinite-buy-v4" => CoveredBy(Context(f)) \subseteq Jobs  BY DEF CoveredBy, Jobs
<1>5. strategy = "infinite-buy-v4" => V4Covered(Context(f)) \subseteq Jobs  BY DEF V4Covered, Jobs
<1> QED  BY <1>2, <1>3, <1>4, <1>5, SeqMonotonic

LEMMA EvaluateRulesKeeps == ASSUME ISafe, NEW f \in Flow, EvaluateRules(f) PROVE ISafe'
<1> DEFINE c == Context(f)
           due == /\ Carries /\ ~c.done
                  /\ Short(c) \/ \E i \in DOMAIN Evaluate(c) : Evaluate(c)[i].side = "BUY"
<1>1. PICK r : r = [IdleFlow EXCEPT !.pc = "submit", !.held = flow[f].held,
                                    !.jobs = Executable(Evaluate(c)), !.due = due]
  OBVIOUS
<1>2. flow' = [flow EXCEPT ![f] = r]  BY <1>1 DEF EvaluateRules
<1>3. flow[f] \in Flows /\ flow[f].pc = "evaluate" /\ flow[f].pc \in Pcs(f)  BY FlowIs DEF EvaluateRules
<1>4. Executable(Evaluate(c)) \in Seq(Jobs)  BY SignalsAreJobs, ExecutableIs DEF EvaluateRules
<1>5. due \in BOOLEAN  OBVIOUS
<1> HIDE DEF c, due
<1>6. flow[f].held \in Holding  BY <1>3 DEF Flows
<1>7. r \in Flows /\ r.rows = {} /\ r.pc = "submit"
  BY <1>1, <1>4, <1>5, <1>6, IdleIs DEF Flows, FlowPcs, IdleFlow
<1>8. FlowInv(f, r, orders)  BY <1>3, <1>7, PlainFlow DEF Pcs, Settles, Flow, Run
<1>9. (ClockOK /\ StoresOK)'  BY WatchIs DEF ISafe, TypeInv, ClockOK, StoresOK, EvaluateRules
<1> QED  BY <1>2, <1>3, <1>7, <1>8, <1>9, FlowOnly DEF EvaluateRules

LEMMA NextLedgerIs ==
  ASSUME ISafe, NEW f \in Flow
  PROVE  NextMode(Context(f)) \in Modes /\ NextCloses(Context(f)) \in Closes
<1>1. IsV4Context(Context(f))  BY ContextIs
<1>2. NextMode(Context(f)) \in Modes  BY <1>1 DEF NextMode, Modes, IsV4Context, Ledgers
<1> QED  BY <1>1, <1>2, NextClosesIs

LEMMA EvaluateV4Keeps == ASSUME ISafe, NEW f \in Flow, EvaluateV4(f) PROVE ISafe'
<1> DEFINE c == Context(f)
           jobs == SellsFirst(Executable(InfiniteBuyV4(c)))
           kept == [NoStock.v4 EXCEPT !.mode = NextMode(c), !.closes = NextCloses(c)]
           ws   == [NoStock EXCEPT !.v4 = kept]
<1>1. PICK r : /\ \/ r = AfterRun(f)
                  \/ /\ ~V4Throws(c)
                     /\ r = [IdleFlow EXCEPT !.held = flow[f].held, !.why = "persist",
                               !.pc = IF V4Evaluates(c) THEN "fetch" ELSE "submit",
                               !.jobs = jobs, !.ws = ws]
               /\ flow' = [flow EXCEPT ![f] = r]
  BY DEF EvaluateV4
<1>2. flow[f] \in Flows /\ flow[f].pc = "evaluate" /\ flow[f].pc \in Pcs(f)  BY FlowIs DEF EvaluateV4
<1>3. f \in {"loop", "manual"} /\ strategy = "infinite-buy-v4"  BY <1>2 DEF Pcs, Flow, Run, EvaluateV4
<1>4. ~V4Throws(c) => jobs \in Seq(Jobs)  BY <1>3, SignalsAreJobs, ExecutableIs
<1>5. ws \in Stocks
  <2>1. NextMode(c) \in Modes /\ NextCloses(c) \in Closes  BY NextLedgerIs
  <2>2. NoStock \in Stocks  BY IdleIs DEF Flows, IdleFlow
  <2> HIDE DEF c
  <2>3. NoStock.v4 \in Ledgers  BY <2>2 DEF Stocks
  <2>4. kept \in Ledgers  BY <2>1, <2>3 DEF Ledgers, Closes
  <2> HIDE DEF kept
  <2> QED  BY <2>2, <2>4 DEF Stocks
<1>6. flow[f].held \in Holding  BY <1>2 DEF Flows
<1> HIDE DEF c, jobs, ws
<1>7. r \in Flows /\ r.rows = {}
      /\ \/ r = IdleFlow
         \/ f = "loop" /\ r.pc = "snapshot"
         \/ r.pc = "submit"
         \/ r.pc = "fetch" /\ r.why = "persist"
  <2>1. CASE r = AfterRun(f)  BY <1>2, <2>1, AfterRunIs
  <2>2. CASE r # AfterRun(f)
    <3>1. r = [IdleFlow EXCEPT !.held = flow[f].held, !.why = "persist",
                 !.pc = IF V4Evaluates(c) THEN "fetch" ELSE "submit", !.jobs = jobs, !.ws = ws]
          /\ ~V4Throws(c)
      BY <1>1, <2>2
    <3>2. r \in Flows  BY <3>1, <1>4, <1>5, <1>6, IdleIs DEF Flows, FlowPcs, Whys
    <3>3. r.rows = {} /\ r.why = "persist" /\ r.pc = IF V4Evaluates(c) THEN "fetch" ELSE "submit"
      BY <3>1, IdleIs DEF IdleFlow
    <3> QED  BY <3>2, <3>3
  <2> QED  BY <2>1, <2>2
<1>8. FlowInv(f, r, orders) /\ r.pc # "post"
  <2>1. CASE r.pc = "fetch" /\ r.why = "persist"
    <3>1. r.pc \in Pcs(f) /\ r.why \in Reasons(f) \ {"fill", "restore"}  BY <1>3, <2>1 DEF Pcs, Reasons
    <3> QED  BY <1>3, <1>7, <2>1, <3>1, SettleFlow
  <2>2. CASE ~(r.pc = "fetch" /\ r.why = "persist")
    BY <1>3, <1>7, <2>2, IdleIs, PlainFlow DEF Pcs, Settles
  <2> QED  BY <2>1, <2>2
<1>9. (ClockOK /\ StoresOK)'  BY WatchIs DEF ISafe, TypeInv, ClockOK, StoresOK, EvaluateV4
<1> QED  BY <1>1, <1>2, <1>7, <1>8, <1>9, FlowOnly DEF EvaluateV4

-----------------------------------------------------------------------------
(* The changes of strategyParams.                                          *)
LEMMA RowOfFlow ==
  ASSUME NEW f
  PROVE  Row(f) = RowOf(flow[f]) /\ Listing(f)[Row(f)] = Current(flow[f])
BY DEF Row, RowOf, Earliest, Listing, Current

\* What a flow has left of its pass, whatever else it does.
LEMMA SameWork ==
  ASSUME NEW f, NEW q, NEW r, NEW os, FlowInv(f, q, os), Settles(q), Settles(r),
         r.rows = q.rows, r.list = q.list, r.why = q.why, r.now = q.now, r.pc \in Pcs(f)
  PROVE  FlowInv(f, r, os)
<1>1. RowOf(r) = RowOf(q) /\ Current(r) = Current(q)  BY DEF RowOf, Current
<1>2. r.pc # "post" /\ r.pc # "idle" /\ q.pc # "pass" /\ (Told(r) <=> Told(q))  BY DEF Settles, Told
<1>3. PcInv(f, r)  BY <1>2 DEF FlowInv, PcInv
<1>4. ListInv(r, os)  BY DEF FlowInv, ListInv
<1>5. FillInv(r, os)  BY <1>1, <1>2 DEF FlowInv, FillInv
<1>6. RestoreInv(r, os)  BY <1>1 DEF FlowInv, RestoreInv
<1> QED  BY <1>2, <1>3, <1>4, <1>5, <1>6 DEF FlowInv, PostInv

\* The pass goes on with fewer rows.
LEMMA FewerRows ==
  ASSUME NEW f \in {"loop", "sync"}, NEW q, NEW r, NEW os, ListInv(q, os),
         r.rows \subseteq q.rows, r.list = q.list, r.pc = "pass"
  PROVE  FlowInv(f, r, os)
BY DEF FlowInv, PcInv, ListInv, FillInv, RestoreInv, PostInv, Settles, Told, Pcs

LEMMA FetchKeeps == ASSUME ISafe, NEW f \in Flow, Fetch(f) PROVE ISafe'
<1>1. PICK r : r = [flow[f] EXCEPT !.pc = "store", !.base = stock]  OBVIOUS
<1>2. flow' = [flow EXCEPT ![f] = r]  BY <1>1 DEF Fetch
<1>3. flow[f] \in Flows /\ flow[f].pc = "fetch" /\ flow[f].pc \in Pcs(f) /\ FlowInv(f, flow[f], orders)
  BY FlowIs DEF Fetch
<1>4. stock \in Stocks  BY DEF ISafe, TypeInv, StoresOK
<1>5. r \in Flows /\ r.pc = "store"  BY <1>1, <1>3, <1>4 DEF Flows, FlowPcs
<1>6. r.rows = flow[f].rows /\ r.list = flow[f].list /\ r.why = flow[f].why /\ r.now = flow[f].now
  BY <1>1, <1>3 DEF Flows
<1>7. FlowInv(f, r, orders)
  <2>1. r.pc \in Pcs(f)  BY <1>3, <1>5 DEF Pcs, Flow, Run
  <2>2. Settles(r) /\ Settles(flow[f])  BY <1>3, <1>5 DEF Settles
  <2> QED  BY <1>3, <1>6, <2>1, <2>2, SameWork
<1>8. (ClockOK /\ StoresOK)'  BY WatchIs DEF ISafe, TypeInv, ClockOK, StoresOK, Fetch
<1> QED  BY <1>2, <1>3, <1>5, <1>7, <1>8, FlowOnly DEF Fetch

LEMMA StoreIs ==
  ASSUME ISafe, NEW f \in Flow, NEW new \in Stocks, NEW aside \in Int, NEW short \in BOOLEAN,
         Store(f, new, aside, short)
  PROVE  (ClockOK /\ StoresOK)' /\ UNCHANGED <<strategy, day, cron, orders, account>>
<1>1. audit \in Audits  BY DEF ISafe, TypeInv, StoresOK
<1>2. /\ (audit.overlap \/ Overlapping) \in BOOLEAN /\ (audit.short \/ short) \in BOOLEAN
      /\ (audit.torn \/ Column(stock) # Column(Base(f))) \in BOOLEAN /\ audit.aside + aside \in Int
  BY <1>1 DEF Audits, Overlapping
<1>3. audit' \in Audits  BY <1>1, <1>2 DEF Store, Audits
<1> QED  BY <1>3 DEF ISafe, TypeInv, ClockOK, StoresOK, Store

LEMMA ColumnIs ==
  ASSUME NEW q \in Stocks, NEW rules \in Params, NEW v4 \in Ledgers
  PROVE  [q EXCEPT !.rules = rules, !.v4 = v4] \in Stocks
BY DEF Stocks

LEMMA StoreColumnIs ==
  ASSUME ISafe, NEW f \in Flow, NEW rules \in Params, NEW v4 \in Ledgers, StoreColumn(f, rules, v4)
  PROVE  (ClockOK /\ StoresOK)' /\ UNCHANGED <<strategy, day, cron, orders, account>>
<1>1. stock \in Stocks /\ 0 \in Int /\ FALSE \in BOOLEAN  BY DEF ISafe, TypeInv, StoresOK
<1>2. PICK new \in Stocks : new = [stock EXCEPT !.rules = rules, !.v4 = v4]  BY <1>1, ColumnIs
<1>3. Store(f, new, 0, FALSE)  BY <1>2 DEF StoreColumn
<1> QED  BY <1>1, <1>3, StoreIs

\* What a flow that stores read.
LEMMA StoringIs ==
  ASSUME ISafe, NEW f \in Flow, flow[f].pc = "store"
  PROVE  /\ flow[f] \in Flows /\ flow[f].why \in Reasons(f) /\ FlowInv(f, flow[f], orders)
         /\ flow[f].base \in Stocks /\ flow[f].base.rules \in Params /\ flow[f].base.v4 \in Ledgers
         /\ flow[f].base.quota \in Nat
         /\ flow[f].why \notin {"fill", "restore"} => flow[f].rows = {}
<1>1. flow[f] \in Flows /\ FlowInv(f, flow[f], orders)  BY FlowIs
<1>2. flow[f].base \in Stocks  BY <1>1 DEF Flows
<1> QED  BY <1>1, <1>2 DEF FlowInv, PcInv, Settles, Stocks

LEMMA StoreResetKeeps == ASSUME ISafe, NEW f \in Flow, StoreReset(f) PROVE ISafe'
<1>1. PICK r : r = AfterRun(f)  OBVIOUS
<1>2. flow' = [flow EXCEPT ![f] = r] /\ flow[f].pc = "store" /\ flow[f].why = "reset"
  BY <1>1 DEF StoreReset, Storing
<1>3. flow[f] \in Flows /\ f \in {"loop", "manual"} /\ flow[f].base.rules \in Params
      /\ flow[f].base.v4 \in Ledgers
  BY <1>2, StoringIs DEF Reasons, Flow, Run
<1>4. r \in Flows /\ r.rows = {} /\ (r = IdleFlow \/ (f = "loop" /\ r.pc = "snapshot"))
  BY <1>1, <1>3, AfterRunIs
<1>5. FlowInv(f, r, orders) /\ r.pc # "post"  BY <1>3, <1>4, IdleIs, PlainFlow DEF Pcs, Settles
<1>6. PICK rules \in Params : rules = [flow[f].base.rules EXCEPT !.carried = 0, !.carriedOn = day]
  <2>1. day \in Nat /\ 0 \in Nat  BY BoundAssumption DEF ISafe, TypeInv
  <2> QED  BY <1>3, <2>1 DEF Params
<1>7. (ClockOK /\ StoresOK)' /\ UNCHANGED <<strategy, day, cron, orders, account>>
  BY <1>3, <1>6, StoreColumnIs DEF StoreReset, Base
<1> QED  BY <1>2, <1>4, <1>5, <1>7, FlowOnly

LEMMA StoreModeKeeps == ASSUME ISafe, NEW f \in Flow, StoreMode(f) PROVE ISafe'
<1>1. PICK r : r = [flow[f] EXCEPT !.pc = "submit", !.ws = NoStock, !.base = NoStock]  OBVIOUS
<1>2. flow' = [flow EXCEPT ![f] = r] /\ flow[f].pc = "store" /\ flow[f].why = "persist"
  BY <1>1 DEF StoreMode, Storing
<1>3. /\ flow[f] \in Flows /\ f \in {"loop", "manual"} /\ flow[f].base.rules \in Params
      /\ flow[f].base.v4 \in Ledgers /\ flow[f].rows = {}
  BY <1>2, StoringIs DEF Reasons, Flow, Run
<1>4. NoStock \in Stocks  BY IdleIs DEF Flows, IdleFlow
<1>5. r \in Flows /\ r.rows = {} /\ r.pc = "submit"  BY <1>1, <1>3, <1>4 DEF Flows, FlowPcs
<1>6. FlowInv(f, r, orders) /\ r.pc # "post"  BY <1>3, <1>5, PlainFlow DEF Pcs, Settles
<1>7. PICK v4 \in Ledgers : v4 = [flow[f].base.v4 EXCEPT !.mode = flow[f].ws.v4.mode,
                                                         !.closes = flow[f].ws.v4.closes]
  <2>1. flow[f].ws.v4 \in Ledgers  BY <1>3 DEF Flows, Stocks
  <2> QED  BY <1>3, <2>1 DEF Ledgers
<1>8. (ClockOK /\ StoresOK)' /\ UNCHANGED <<strategy, day, cron, orders, account>>
  BY <1>3, <1>7, StoreColumnIs DEF StoreMode, Base
<1> QED  BY <1>2, <1>5, <1>6, <1>8, FlowOnly

LEMMA CarryIs ==
  ASSUME ISafe, NEW f \in Flow, NEW invested \in Nat, flow[f].pc = "store", Carry(f, invested)
  PROVE  (ClockOK /\ StoresOK)' /\ UNCHANGED <<strategy, day, cron, orders, account>>
<1>1. flow[f].base.rules \in Params /\ flow[f].base.v4 \in Ledgers /\ flow[f].base.quota \in Nat
  BY StoringIs
<1>2. CASE MayCarry(f, invested)
  <2> DEFINE carried == Least(flow[f].base.rules.carried + flow[f].base.quota \div Cycles, Room(f, invested))
  <2>1. flow[f].base.rules.carried \in Nat  BY <1>1 DEF Params
  <2>2. flow[f].base.quota \div Cycles \in Nat  BY <1>1, SeedAssumption, DivBound
  <2>3. Room(f, invested) \in Nat  BY <1>1 DEF Room, Rest, Base
  <2>4. carried \in Nat  BY <2>1, <2>2, <2>3 DEF Least
  <2>5. day \in Nat  BY BoundAssumption DEF ISafe, TypeInv
  <2>6. PICK rules : rules = [flow[f].base.rules EXCEPT !.carried = carried, !.carriedOn = day]  OBVIOUS
  <2>7. StoreColumn(f, rules, flow[f].base.v4)  BY <1>2, <2>6 DEF Carry, Base
  <2> HIDE DEF carried
  <2>8. rules \in Params  BY <1>1, <2>4, <2>5, <2>6 DEF Params
  <2> QED  BY <1>1, <2>7, <2>8, StoreColumnIs
<1>3. CASE ~MayCarry(f, invested)
  <2>1. UNCHANGED <<strategy, day, minute, cron, market, close, stock, account, position, orders, peak, count>>
        /\ Watch
    BY <1>3 DEF Carry
  <2> QED  BY <2>1, WatchIs DEF ISafe, TypeInv, ClockOK, StoresOK
<1> QED  BY <1>2, <1>3

LEMMA StoreCarryKeeps == ASSUME ISafe, NEW f \in Flow, StoreCarry(f) PROVE ISafe'
<1>1. PICK r : r = AfterRun(f)  OBVIOUS
<1>2. flow' = [flow EXCEPT ![f] = r] /\ flow[f].pc = "store" /\ flow[f].why = "carry"
  BY <1>1 DEF StoreCarry, Storing
<1>3. flow[f] \in Flows /\ f \in {"loop", "manual"}  BY <1>2, StoringIs DEF Reasons, Flow, Run
<1>4. r \in Flows /\ r.rows = {} /\ (r = IdleFlow \/ (f = "loop" /\ r.pc = "snapshot"))
  BY <1>1, <1>3, AfterRunIs
<1>5. FlowInv(f, r, orders) /\ r.pc # "post"  BY <1>3, <1>4, IdleIs, PlainFlow DEF Pcs, Settles
<1>6. flow[f].held.qty * flow[f].held.avg \in Nat  BY <1>3 DEF Flows, Holding
<1>7. (ClockOK /\ StoresOK)' /\ UNCHANGED <<strategy, day, cron, orders, account>>
  BY <1>2, <1>6, CarryIs DEF StoreCarry
<1> QED  BY <1>2, <1>4, <1>5, <1>7, FlowOnly

\* The pass goes on with its next row.
LEMMA NextRowIs ==
  ASSUME ISafe, NEW f \in Flow, flow[f].pc = "store", flow[f].why \in {"fill", "restore"},
         NEW r, r = [flow[f] EXCEPT !.pc = "pass", !.rows = @ \ {Row(f)}, !.base = NoStock]
  PROVE  r \in Flows /\ FlowInv(f, r, orders) /\ r.pc = "pass" /\ flow[f].rows # {}
<1>1. flow[f] \in Flows /\ flow[f].why \in Reasons(f) /\ FlowInv(f, flow[f], orders)  BY StoringIs
<1>2. f \in {"loop", "sync"} /\ ListInv(flow[f], orders) /\ flow[f].rows # {}
  BY <1>1 DEF Reasons, Flow, Run, FlowInv, PcInv, Settles
<1>3. NoStock \in Stocks  BY IdleIs DEF Flows, IdleFlow
<1>4. flow[f].rows \ {Row(f)} \in SUBSET Nat  BY <1>1 DEF Flows
<1>5. r \in Flows /\ r.pc = "pass"  BY <1>1, <1>3, <1>4 DEF Flows, FlowPcs
<1>6. r.rows \subseteq flow[f].rows /\ r.list = flow[f].list  BY <1>1 DEF Flows
<1> QED  BY <1>2, <1>5, <1>6, FewerRows

LEMMA StoreRestoreKeeps == ASSUME ISafe, NEW f \in Flow, StoreRestore(f) PROVE ISafe'
<1>1. PICK r : r = [flow[f] EXCEPT !.pc = "pass", !.rows = @ \ {Row(f)}, !.base = NoStock]  OBVIOUS
<1>2. flow' = [flow EXCEPT ![f] = r] /\ flow[f].pc = "store" /\ flow[f].why = "restore"
  BY <1>1 DEF StoreRestore, Storing
<1>3. r \in Flows /\ FlowInv(f, r, orders) /\ r.pc = "pass"  BY <1>1, <1>2, NextRowIs
<1>4. position.qty * position.avg \in Nat  BY DEF ISafe, TypeInv, StoresOK, Holding
<1>5. (ClockOK /\ StoresOK)' /\ UNCHANGED <<strategy, day, cron, orders, account>>
  BY <1>2, <1>4, CarryIs DEF StoreRestore
<1> QED  BY <1>2, <1>3, <1>5, FlowOnly

LEMMA StoreQuotaKeeps == ASSUME ISafe, NEW f \in Flow, StoreQuota(f) PROVE ISafe'
<1> DEFINE cash == flow[f].base.v4.cash + (flow[f].new - flow[f].base.quota)
           v4   == [flow[f].base.v4 EXCEPT !.cash = cash]
<1>1. PICK r : r = IdleFlow  OBVIOUS
<1>2. flow' = [flow EXCEPT ![f] = r] /\ flow[f].pc = "store" /\ flow[f].why = "quota"
  BY <1>1 DEF StoreQuota, Storing, Stop
<1>3. flow[f] \in Flows /\ flow[f].base \in Stocks /\ flow[f].base.v4 \in Ledgers
      /\ flow[f].base.quota \in Nat
  BY <1>2, StoringIs
<1>4. flow[f].new \in Nat  BY <1>3 DEF Flows
<1>5. cash \in Int
  <2>1. flow[f].base.v4.cash \in Int  BY <1>3 DEF Ledgers
  <2> QED  BY <1>3, <1>4, <2>1
<1> HIDE DEF cash
<1>6. v4 \in Ledgers  BY <1>3, <1>5 DEF Ledgers
<1> HIDE DEF v4
<1>7. r \in Flows /\ FlowInv(f, r, orders) /\ r.pc = "idle"
  BY <1>1, IdleIs, PlainFlow DEF Pcs, Settles
<1>8. \/ UNCHANGED <<strategy, day, minute, cron, market, close, stock, account, position, orders, peak, count>>
         /\ Watch
      \/ Store(f, [flow[f].base EXCEPT !.quota = flow[f].new, !.v4 = v4], 0, FALSE)
      \/ /\ stock' = [stock EXCEPT !.quota = flow[f].new] /\ Watch
         /\ UNCHANGED <<strategy, day, minute, cron, market, close, account, position, orders, peak, count>>
  BY DEF StoreQuota, Base, cash, v4
<1>9. (ClockOK /\ StoresOK)' /\ UNCHANGED <<strategy, day, cron, orders, account>>
  <2>1. CASE UNCHANGED <<strategy, day, minute, cron, market, close, stock, account, position, orders, peak, count>>
             /\ Watch
    BY <2>1, WatchIs DEF ISafe, TypeInv, ClockOK, StoresOK
  <2>2. CASE Store(f, [flow[f].base EXCEPT !.quota = flow[f].new, !.v4 = v4], 0, FALSE)
    <3>1. PICK new : new = [flow[f].base EXCEPT !.quota = flow[f].new, !.v4 = v4]  OBVIOUS
    <3>2. new \in Stocks  BY <1>3, <1>4, <1>6, <3>1 DEF Stocks
    <3>3. 0 \in Int /\ FALSE \in BOOLEAN  OBVIOUS
    <3>4. Store(f, new, 0, FALSE)  BY <2>2, <3>1
    <3> QED  BY <3>2, <3>3, <3>4, StoreIs
  <2>3. CASE /\ stock' = [stock EXCEPT !.quota = flow[f].new] /\ Watch
             /\ UNCHANGED <<strategy, day, minute, cron, market, close, account, position, orders, peak, count>>
    <3>1. stock' \in Stocks  BY <1>4, <2>3 DEF ISafe, TypeInv, StoresOK, Stocks
    <3> QED  BY <2>3, <3>1, WatchIs DEF ISafe, TypeInv, ClockOK, StoresOK
  <2> QED  BY <1>8, <2>1, <2>2, <2>3
<1> QED  BY <1>2, <1>7, <1>9, FlowOnly

\* What StoreFill tells the strategy.
LEMMA FillOfIs ==
  ASSUME ISafe, NEW f \in Flow, flow[f].pc = "store", flow[f].why = "fill"
  PROVE  /\ Current(flow[f]) \in Rows /\ orders[Row(f)] \in Rows /\ Row(f) \in DOMAIN orders
         /\ Row(f) \in flow[f].rows /\ Listing(f)[Row(f)] = Current(flow[f])
         /\ FillOf(f) \in Jobs /\ FillOf(f).side = Current(flow[f]).s.side
         /\ FillOf(f).qty = IF FillOf(f).side = "BUY" THEN flow[f].now ELSE Current(flow[f]).s.qty
         /\ Current(flow[f]).filled \in Nat \ {0} /\ flow[f].now \in Nat \ {0}
<1>1. flow[f] \in Flows /\ FlowInv(f, flow[f], orders)  BY StoringIs
<1>2. flow[f].rows # {}  BY <1>1 DEF FlowInv, PcInv, Settles
<1>3. RowOf(flow[f]) \in flow[f].rows  BY <1>1, <1>2, RowIs
<1>4. Row(f) = RowOf(flow[f]) /\ Listing(f)[Row(f)] = Current(flow[f])  BY RowOfFlow
<1>5. Row(f) \in DOMAIN orders /\ Row(f) \in DOMAIN flow[f].list  BY <1>1, <1>3, <1>4 DEF FlowInv, ListInv
<1>6. orders \in Seq(Rows) /\ flow[f].list \in Seq(Rows)  BY <1>1 DEF ISafe, TypeInv, Flows
<1>7. Current(flow[f]) \in Rows /\ orders[Row(f)] \in Rows
  <2>1. flow[f].list[Row(f)] \in Rows  BY <1>5, <1>6
  <2> QED  BY <1>4, <1>5, <1>6, <2>1 DEF Current
<1>8. flow[f].now = Current(flow[f]).filled - Current(flow[f]).told /\ flow[f].now > 0
  BY <1>1 DEF FlowInv, FillInv, Told, Settles
<1>9. flow[f].now \in Nat \ {0} /\ Current(flow[f]).filled \in Nat \ {0}
  <2>1. Current(flow[f]).filled \in Nat /\ Current(flow[f]).told \in Nat  BY <1>7 DEF Rows
  <2> QED  BY <1>8, <2>1
<1>10. Current(flow[f]).s \in Jobs  BY <1>7 DEF Rows
<1>11. FillOf(f) = IF Current(flow[f]).s.side = "BUY" THEN [Current(flow[f]).s EXCEPT !.qty = flow[f].now]
                   ELSE Current(flow[f]).s
  BY <1>4 DEF FillOf
<1>12. PICK n \in Nat \ {0} : n = flow[f].now  BY <1>9
<1>13. PICK s \in Jobs : s = Current(flow[f]).s  BY <1>10
<1>14. [s EXCEPT !.qty = n] \in Jobs /\ [s EXCEPT !.qty = n].side = s.side /\ [s EXCEPT !.qty = n].qty = n
  BY JobQty
<1>15. /\ FillOf(f) \in Jobs /\ FillOf(f).side = s.side
       /\ FillOf(f).qty = IF s.side = "BUY" THEN n ELSE s.qty
  BY <1>11, <1>12, <1>13, <1>14
<1> QED  BY <1>3, <1>4, <1>5, <1>7, <1>9, <1>12, <1>13, <1>15

LEMMA HeldBeforeIs ==
  ASSUME ISafe, NEW f \in Flow, NEW o, NEW now \in Nat
  PROVE  HeldBefore(f, o, now) \in Nat
<1>1. flow[f].held.qty \in Nat
  <2>1. flow[f] \in Flows  BY FlowIs
  <2> QED  BY <2>1 DEF Flows, Holding
<1> QED  BY <1>1 DEF HeldBefore, Rest

LEMMA RulesAfterFillIs ==
  ASSUME ISafe, NEW f \in Flow, flow[f].pc = "store", flow[f].why = "fill"
  PROVE  RulesAfterFill(f, FillOf(f), HeldBefore(f, orders[Row(f)], flow[f].now)) \in Params
<1> DEFINE s    == FillOf(f)
           held == HeldBefore(f, orders[Row(f)], flow[f].now)
<1>1. s \in Jobs /\ orders[Row(f)] \in Rows /\ flow[f].now \in Nat  BY FillOfIs
<1>2. held \in Int /\ orders[Row(f)].day \in Nat
  <2>1. held \in Nat  BY <1>1, HeldBeforeIs
  <2> QED  BY <1>1, <2>1 DEF Rows
<1>3. Base(f).rules \in Params  BY StoringIs DEF Base
<1>4. strategy # "infinite-buy-v4" => s \in Signals  BY <1>1, JobIs
<1> HIDE DEF s, held
<1>5. s \in Signals => /\ MomentumFill(Base(f).rules, s, held, orders[Row(f)].day) \in Params
                       /\ GridFill(Base(f).rules, s, held) \in Params
  BY <1>2, <1>3, FillParams
<1>6. GridClear(Base(f).rules) \in Params  BY <1>3 DEF GridClear, Params
<1> QED  BY <1>3, <1>4, <1>5, <1>6 DEF RulesAfterFill, s, held

\* The price a fill is booked at.
LEMMA PaidIs ==
  ASSUME ISafe, NEW f \in Flow, flow[f].pc = "store", flow[f].why = "fill"
  PROVE  /\ Current(flow[f]).amount \div Current(flow[f]).filled \in Nat
         /\ (Current(flow[f]).amount \div Current(flow[f]).filled) * FillOf(f).qty \in Nat
         /\ FillOf(f).qty \in Nat
<1>1. Current(flow[f]) \in Rows /\ Current(flow[f]).filled \in Nat \ {0} /\ FillOf(f) \in Jobs
  BY FillOfIs
<1>2. Current(flow[f]).amount \in Nat  BY <1>1 DEF Rows
<1>3. Current(flow[f]).amount \div Current(flow[f]).filled \in Nat  BY <1>1, <1>2, DivBound
<1>4. FillOf(f).qty \in Nat  BY <1>1, JobIs
<1> QED  BY <1>3, <1>4

LEMMA LedgerAfterFillIs ==
  ASSUME ISafe, NEW f \in Flow, flow[f].pc = "store", flow[f].why = "fill", NEW compound \in BOOLEAN
  PROVE  LedgerAfterFill(f, FillOf(f), HeldBefore(f, orders[Row(f)], flow[f].now), compound) \in Ledgers
<1> DEFINE s      == FillOf(f)
           held   == HeldBefore(f, orders[Row(f)], flow[f].now)
           amount == (Current(flow[f]).amount \div Current(flow[f]).filled) * s.qty
           v4     == V4Fill(Base(f).v4, s, s.qty, amount, held, Cycles, Base(f).quota, compound)
<1>1. s \in Jobs /\ flow[f].now \in Nat /\ Listing(f)[Row(f)] = Current(flow[f])  BY FillOfIs
<1>2. held \in Int
  <2>1. held \in Nat  BY <1>1, HeldBeforeIs
  <2> QED  BY <2>1
<1>3. amount \in Nat /\ s.qty \in Nat  BY PaidIs
<1>4. Base(f).v4 \in Ledgers /\ Base(f).quota \in Nat /\ Cycles \in Nat  BY StoringIs, SeedAssumption DEF Base
<1>5. LedgerAfterFill(f, s, held, compound) = IF strategy # "infinite-buy-v4" THEN Base(f).v4 ELSE v4
  BY <1>1 DEF LedgerAfterFill
<1>6. strategy = "infinite-buy-v4" => s \in V4Signals  BY <1>1, JobIs
<1> HIDE DEF s, held, amount
<1>7. s \in V4Signals => v4 \in Ledgers  BY <1>2, <1>3, <1>4, V4FillIn
<1> HIDE DEF v4
<1>8. LedgerAfterFill(f, s, held, compound) \in Ledgers  BY <1>4, <1>5, <1>6, <1>7
<1> QED  BY <1>8 DEF s, held

LEMMA StoreFillKeeps == ASSUME ISafe, NEW f \in Flow, StoreFill(f) PROVE ISafe'
<1> DEFINE s     == FillOf(f)
           held  == HeldBefore(f, orders[Row(f)], flow[f].now)
           rules == RulesAfterFill(f, s, held)
           v4    == LedgerAfterFill(f, s, held, Compound)
           aside == LedgerAfterFill(f, s, held, TRUE).cash - v4.cash
           short == strategy = "infinite-buy-v4" /\ s.side = "SELL" /\ s.qty > Base(f).v4.known
<1>1. PICK r : r = [flow[f] EXCEPT !.pc = "pass", !.rows = @ \ {Row(f)}, !.base = NoStock]  OBVIOUS
<1>2. flow' = [flow EXCEPT ![f] = r] /\ flow[f].pc = "store" /\ flow[f].why = "fill"
  BY <1>1 DEF StoreFill, Storing
<1>3. r \in Flows /\ FlowInv(f, r, orders) /\ r.pc = "pass"  BY <1>1, <1>2, NextRowIs
<1>4. rules \in Params  BY <1>2, RulesAfterFillIs
<1>5. TRUE \in BOOLEAN /\ Compound \in BOOLEAN  BY FlagAssumption
<1>6. v4 \in Ledgers /\ LedgerAfterFill(f, s, held, TRUE) \in Ledgers  BY <1>2, <1>5, LedgerAfterFillIs
<1>7. aside \in Int
  <2>1. PICK p \in Ledgers : p = LedgerAfterFill(f, s, held, TRUE)  BY <1>6
  <2>2. PICK q \in Ledgers : q = v4  BY <1>6
  <2>3. p.cash - q.cash \in Int  BY DEF Ledgers
  <2> QED  BY <2>1, <2>2, <2>3
<1>8. short \in BOOLEAN  OBVIOUS
<1>9. PICK new : new = [stock EXCEPT !.rules = rules, !.v4 = v4]  OBVIOUS
<1>10. Store(f, new, aside, short)  BY <1>9 DEF StoreFill
<1> HIDE DEF rules, v4, aside, short
<1>11. new \in Stocks
  <2>1. stock \in Stocks  BY DEF ISafe, TypeInv, StoresOK
  <2> QED  BY <1>4, <1>6, <1>9, <2>1, ColumnIs
<1>12. (ClockOK /\ StoresOK)' /\ UNCHANGED <<strategy, day, cron, orders, account>>
  BY <1>7, <1>8, <1>10, <1>11, StoreIs
<1> QED  BY <1>2, <1>3, <1>12, FlowOnly

-----------------------------------------------------------------------------
(* The steps that change the orders.                                       *)
LEMMA OrderIs ==
  ASSUME ISafe, NEW i \in DOMAIN orders
  PROVE  /\ orders[i] \in Rows /\ RowOK(orders[i]) /\ orders[i].day \in 1..day /\ i \in Nat
         /\ orders[i].live => Unresolved(orders[i])
<1>1. orders \in Seq(Rows)  BY DEF ISafe, TypeInv
<1>2. orders[i] \in Rows /\ i \in Nat  BY <1>1
<1>3. RowOK(orders[i]) /\ orders[i].day \in 1..day  BY DEF ISafe, RowsOK
<1> QED  BY <1>2, <1>3 DEF RowOK, Listed, Unresolved

\* What is asked of a row that takes the place of another.
Replaces(p, o) == /\ p \in Rows /\ RowOK(p) /\ p.day = o.day /\ p.s.side = o.s.side
                  /\ Grows(o, p) /\ (Unresolved(p) => Unresolved(o))

LEMMA SameReplaces == ASSUME ISafe, NEW i \in DOMAIN orders PROVE Replaces(orders[i], orders[i])
<1>1. orders[i] \in Rows /\ RowOK(orders[i])  BY OrderIs
<1>2. Grows(orders[i], orders[i])  BY <1>1, FollowsSelf DEF Grows
<1> QED  BY <1>1, <1>2 DEF Replaces

\* The rows stay as they should be when each is replaced by such a row.
LEMMA RowsChange ==
  ASSUME ISafe, strategy' = strategy, day' \in Nat, day <= day', orders' \in Seq(Rows),
         DOMAIN orders' = DOMAIN orders,
         \A i \in DOMAIN orders : Replaces(orders'[i], orders[i])
  PROVE  RowsOK' /\ OneUnresolved'
<1>1. ASSUME NEW i \in DOMAIN orders PROVE RowOK(orders'[i]) /\ orders'[i].day \in 1..day'
  <2>1. Replaces(orders'[i], orders[i]) /\ orders[i].day \in 1..day  BY OrderIs
  <2>2. day \in Nat  BY BoundAssumption DEF ISafe, TypeInv
  <2> QED  BY <2>1, <2>2 DEF Replaces
<1>2. ASSUME NEW i \in DOMAIN orders, NEW j \in DOMAIN orders, Unresolved(orders'[i]),
             Unresolved(orders'[j]), orders'[i].s.side = orders'[j].s.side
      PROVE  i = j
  <2>1. Replaces(orders'[i], orders[i]) /\ Replaces(orders'[j], orders[j])  OBVIOUS
  <2>2. /\ Unresolved(orders[i]) /\ Unresolved(orders[j]) /\ orders[i].s.side = orders[j].s.side
    BY <1>2, <2>1 DEF Replaces
  <2> QED  BY <2>2 DEF ISafe, OneUnresolved
<1>3. RowsOK'  BY <1>1 DEF RowsOK, RowOK, Unsent, Listed
<1>4. OneUnresolved'  BY <1>2 DEF OneUnresolved, Unresolved
<1> QED  BY <1>3, <1>4

\* One row changes.
LEMMA RowChange ==
  ASSUME ISafe, NEW i \in DOMAIN orders, NEW p, Replaces(p, orders[i]),
         orders' = [orders EXCEPT ![i] = p]
  PROVE  /\ orders' \in Seq(Rows) /\ DOMAIN orders' = DOMAIN orders /\ orders'[i] = p
         /\ \A j \in DOMAIN orders : j # i => orders'[j] = orders[j]
         /\ \A j \in DOMAIN orders : Replaces(orders'[j], orders[j])
<1>1. orders \in Seq(Rows) /\ p \in Rows  BY DEF ISafe, TypeInv, Replaces
<1>2. /\ orders' \in Seq(Rows) /\ DOMAIN orders' = DOMAIN orders /\ orders'[i] = p
      /\ \A j \in DOMAIN orders : j # i => orders'[j] = orders[j]
  BY <1>1
<1>3. ASSUME NEW j \in DOMAIN orders PROVE Replaces(orders'[j], orders[j])
  BY <1>2, SameReplaces
<1> QED  BY <1>2, <1>3

\* The flows know of nothing that such a change undoes.
LEMMA RowsAdvance ==
  ASSUME NEW f, DOMAIN orders' = DOMAIN orders,
         \A i \in DOMAIN orders : Replaces(orders'[i], orders[i]),
         \A i \in DOMAIN orders : orders[i].status = "SUBMITTING" =>
           orders'[i].status = "SUBMITTING" \/ (flow[f].pc = "post" /\ i = flow[f].id)
  PROVE  Advance(f)
BY DEF Advance, Replaces

LEMMA FlowsKeep ==
  ASSUME ISafe, strategy' = strategy, UNCHANGED flow, orders' \in Seq(Rows), Advance("sync"),
         cron' => flow["loop"].pc = "idle"
  PROVE  FlowsOK' /\ flow' \in [Flow -> Flows]
<1>1. "sync" \in Flow /\ flow["sync"].pc # "post"
  <2>1. "sync" \in Flow  BY DEF Flow
  <2> QED  BY <2>1, FlowIs DEF Pcs
<1>2. PICK r : r = flow["sync"]  OBVIOUS
<1>3. r \in Flows /\ FlowInv("sync", r, orders)  BY <1>1, <1>2, FlowIs
<1>4. flow \in [Flow -> Flows] /\ orders \in Seq(Rows) /\ TypeInv /\ FlowsOK  BY DEF ISafe, TypeInv
<1>5. flow' = [flow EXCEPT !["sync"] = r] /\ flow'["loop"].pc = flow["loop"].pc  BY <1>2, <1>4
<1>6. FlowInv("sync", r, orders')  BY <1>1, <1>3, <1>4, OthersKeep
<1> QED  BY <1>1, <1>2, <1>3, <1>4, <1>5, <1>6, FlowStep

\* A step of a flow that changes a row.
LEMMA FlowRow ==
  ASSUME ISafe, UNCHANGED <<strategy, day, account, cron>>, (ClockOK /\ StoresOK)',
         NEW i \in DOMAIN orders, NEW p, Replaces(p, orders[i]), orders' = [orders EXCEPT ![i] = p],
         p.s.side = "SELL" /\ p.live => Remaining(p) <= account.qty,
         NEW f \in Flow, NEW r \in Flows, flow' = [flow EXCEPT ![f] = r], flow[f].pc # "idle",
         FlowInv(f, r, orders'), r.pc # "post",
         orders[i].status = "SUBMITTING" => p.status = "SUBMITTING" \/ (flow[f].pc = "post" /\ i = flow[f].id)
  PROVE  ISafe'
<1>1. /\ orders' \in Seq(Rows) /\ DOMAIN orders' = DOMAIN orders /\ orders'[i] = p
      /\ \A j \in DOMAIN orders : j # i => orders'[j] = orders[j]
      /\ \A j \in DOMAIN orders : Replaces(orders'[j], orders[j])
  BY RowChange
<1>2. RowsOK' /\ OneUnresolved'
  <2>1. day' \in Nat /\ day <= day'  BY BoundAssumption DEF ISafe, TypeInv
  <2> QED  BY <1>1, <2>1, RowsChange
<1>3. Advance(f)
  <2>1. \A j \in DOMAIN orders : orders[j].status = "SUBMITTING" =>
          orders'[j].status = "SUBMITTING" \/ (flow[f].pc = "post" /\ j = flow[f].id)
    BY <1>1
  <2> QED  BY <1>1, <2>1, RowsAdvance
<1>4. FlowsOK' /\ flow' \in [Flow -> Flows]
  <2>1. TypeInv /\ FlowsOK  BY DEF ISafe
  <2>2. cron' => flow'["loop"].pc = "idle"
    <3>1. flow \in [Flow -> Flows] /\ "loop" \in Flow  BY DEF ISafe, TypeInv, Flow, Run
    <3>2. cron' => flow["loop"].pc = "idle"  BY DEF ISafe, FlowsOK
    <3> QED  BY <3>1, <3>2
  <2> QED  BY <1>1, <1>3, <2>1, <2>2, FlowStep
<1>5. SalesCovered'
  <2>1. ASSUME NEW j \in DOMAIN orders, orders'[j].live, orders'[j].s.side = "SELL"
        PROVE  Remaining(orders'[j]) <= account'.qty
    <3>1. CASE j = i  BY <1>1, <2>1, <3>1
    <3>2. CASE j # i  BY <1>1, <2>1, <3>2 DEF ISafe, SalesCovered, Working
    <3> QED  BY <3>1, <3>2
  <2> QED  BY <1>1, <2>1 DEF SalesCovered, Working, Remaining
<1>6. Rows' = Rows /\ Flows' = Flows  BY SameTypes
<1>7. TypeInv'  BY <1>1, <1>4, <1>6 DEF ISafe, TypeInv
<1> QED  BY <1>2, <1>4, <1>5, <1>7 DEF ISafe

\* The row a pass is at.
LEMMA PassIs ==
  ASSUME ISafe, NEW f \in Flow, flow[f].pc = "pass", flow[f].rows # {}
  PROVE  /\ f \in {"loop", "sync"} /\ Row(f) \in flow[f].rows /\ Row(f) \in DOMAIN orders
         /\ Row(f) = RowOf(flow[f]) /\ Listing(f)[Row(f)] = Current(flow[f])
         /\ Current(flow[f]) \in Rows /\ RowOK(Current(flow[f])) /\ Listed(Current(flow[f]))
         /\ Follows(orders[Row(f)], Current(flow[f]))
<1>1. flow[f] \in Flows /\ FlowInv(f, flow[f], orders) /\ flow[f].pc \in Pcs(f)  BY FlowIs
<1>2. RowOf(flow[f]) \in flow[f].rows  BY <1>1, RowIs
<1>3. Row(f) = RowOf(flow[f]) /\ Listing(f)[Row(f)] = Current(flow[f])  BY RowOfFlow
<1>4. /\ Row(f) \in DOMAIN flow[f].list /\ Row(f) \in DOMAIN orders /\ RowOK(Current(flow[f]))
      /\ Listed(Current(flow[f])) /\ Follows(orders[Row(f)], Current(flow[f]))
  BY <1>1, <1>2, <1>3 DEF FlowInv, ListInv, Current
<1>5. flow[f].list \in Seq(Rows)  BY <1>1 DEF Flows
<1>6. Current(flow[f]) \in Rows  BY <1>3, <1>4, <1>5 DEF Current
<1>7. f \in {"loop", "sync"}  BY <1>1 DEF Pcs, Flow, Run
<1> QED  BY <1>2, <1>3, <1>4, <1>6, <1>7

LEMMA NextRowKeeps ==
  ASSUME ISafe, NEW f \in Flow, flow[f].pc = "pass", flow[f].rows # {}, NextRow(f),
         NEW os, ListInv(flow[f], os)
  PROVE  \E r \in Flows : flow' = [flow EXCEPT ![f] = r] /\ r.pc = "pass" /\ FlowInv(f, r, os)
<1>1. PICK r : r = [flow[f] EXCEPT !.rows = @ \ {Row(f)}]  OBVIOUS
<1>2. flow[f] \in Flows /\ f \in {"loop", "sync"}  BY FlowIs, PassIs
<1>3. r \in Flows /\ r.pc = "pass" /\ r.rows \subseteq flow[f].rows /\ r.list = flow[f].list
  BY <1>1, <1>2 DEF Flows
<1>4. FlowInv(f, r, os)  BY <1>2, <1>3, FewerRows
<1>5. flow' = [flow EXCEPT ![f] = r]  BY <1>1 DEF NextRow
<1> QED  BY <1>3, <1>4, <1>5

\* What a pass writes of a row the broker still lists or has filled.
SettledRow(o, l, now) ==
  [o EXCEPT !.status = IF l.filled >= l.s.qty THEN "FILLED" ELSE IF l.filled > 0 THEN "PARTIAL" ELSE @,
            !.known = ~(l.filled \in 1..(l.s.qty - 1) /\ ~l.live), !.told = @ + now]

LEMMA SettledRowIs ==
  ASSUME NEW o \in Rows, NEW l \in Rows, RowOK(o), RowOK(l), Listed(l), Follows(o, l),
         o.status = l.status, o.known = l.known, o.told = l.told,
         NEW now, now = Rest(l.filled, l.told), NEW p, p = SettledRow(o, l, now), p # o
  PROVE  /\ p \in Rows /\ RowOK(p) /\ Follows(p, o) /\ Unresolved(o) /\ o.status # "SUBMITTING"
         /\ p.day = o.day /\ p.s = o.s /\ p.live = o.live /\ p.filled = o.filled /\ p.amount = o.amount
         /\ now = l.filled - l.told /\ now \in Nat /\ p.told = l.filled
         /\ p.status = "FILLED" => l.filled = l.s.qty
<1>1. /\ o.s \in Jobs /\ l.s = o.s /\ o.s.qty \in Nat \ {0} /\ o.told \in Nat /\ o.filled \in Nat
      /\ l.told \in Nat /\ l.filled \in Nat /\ o.live \in BOOLEAN /\ l.live \in BOOLEAN
      /\ o.known = TRUE /\ o.status \in {"PENDING", "PARTIAL"}
      /\ l.told <= l.filled /\ l.filled <= l.s.qty /\ l.filled <= o.filled
  <2>1. o.s \in Jobs  BY DEF Rows
  <2>2. o.s.qty \in Nat \ {0}  BY <2>1, JobIs
  <2> QED  BY <2>1, <2>2 DEF Rows, Follows, Listed, RowOK
<1>2. now = l.filled - l.told /\ now \in Nat /\ o.told + now = l.filled  BY <1>1 DEF Rest
<1> DEFINE status == IF l.filled >= l.s.qty THEN "FILLED" ELSE IF l.filled > 0 THEN "PARTIAL" ELSE o.status
           known  == ~(l.filled \in 1..(l.s.qty - 1) /\ ~l.live)
<1>3. status \in Status /\ known \in BOOLEAN /\ l.filled \in Nat
  BY <1>1 DEF Status
<1>4. p = [o EXCEPT !.status = status, !.known = known, !.told = l.filled]
  BY <1>2 DEF SettledRow
<1>5. /\ p \in Rows /\ p.day = o.day /\ p.s = o.s /\ p.live = o.live /\ p.filled = o.filled
      /\ p.amount = o.amount /\ p.told = l.filled /\ p.status = status /\ p.known = known
  <2> HIDE DEF status, known
  <2> QED  BY <1>3, <1>4 DEF Rows
<1>6. CASE l.filled >= l.s.qty
  <2>1. p.status = "FILLED" /\ l.filled = l.s.qty /\ p.filled = o.s.qty /\ ~p.live /\ p.told = o.s.qty
    BY <1>1, <1>5, <1>6 DEF RowOK
  <2> QED  BY <1>1, <1>2, <1>5, <2>1 DEF RowOK, Follows, Unsent, Listed, Unresolved
<1>7. CASE l.filled > 0 /\ ~(l.filled >= l.s.qty)
  <2>1. p.status = "PARTIAL" /\ p.told \in 1..(o.s.qty - 1) /\ p.known = l.live
    BY <1>1, <1>5, <1>7
  <2>2. p.filled <= p.s.qty /\ (p.live => p.filled < p.s.qty)  BY <1>5 DEF RowOK
  <2>3. ~l.live => ~p.live /\ p.told = p.filled  BY <1>5 DEF Follows
  <2>4. l.live \/ ~p.live  BY <2>3
  <2>5. RowOK(p)  BY <1>1, <1>5, <2>1, <2>2, <2>3, <2>4 DEF RowOK, Unsent, Listed
  <2> QED  BY <1>1, <1>2, <1>5, <2>1, <2>5 DEF Follows, Unsent, Unresolved
<1>8. CASE ~(l.filled > 0)
  <2>1. l.filled = 0 /\ l.told = 0 /\ o.told = 0  BY <1>1, <1>8
  <2>2. status = o.status /\ known = o.known /\ l.filled = o.told
    <3>1. ~(l.filled \in 1..(l.s.qty - 1)) /\ ~(l.filled >= l.s.qty)  BY <1>1, <2>1
    <3>2. known = TRUE  BY <3>1
    <3> QED  BY <1>1, <1>8, <2>1, <3>1, <3>2
  <2>3. [o EXCEPT !.status = o.status, !.known = o.known, !.told = o.told] = o  BY DEF Rows
  <2> QED  BY <1>4, <2>2, <2>3
<1> QED  BY <1>6, <1>7, <1>8, <1>1

LEMMA SettleListedKeeps == ASSUME ISafe, NEW f \in Flow, SettleListed(f) PROVE ISafe'
<1> DEFINE i == Row(f)
           l == Current(flow[f])
           now == Rest(l.filled, l.told)
<1>1. flow[f].pc = "pass" /\ flow[f].rows # {}  BY DEF SettleListed
<1>2. /\ f \in {"loop", "sync"} /\ i \in flow[f].rows /\ i \in DOMAIN orders
      /\ i = RowOf(flow[f]) /\ Listing(f)[i] = l
      /\ l \in Rows /\ RowOK(l) /\ Listed(l) /\ Follows(orders[i], l)
  BY <1>1, PassIs
<1>3. (ClockOK /\ StoresOK)' /\ UNCHANGED <<strategy, day, account, cron>>
  BY WatchIs DEF ISafe, TypeInv, ClockOK, StoresOK, SettleListed
<1>4. flow[f] \in Flows /\ FlowInv(f, flow[f], orders)  BY FlowIs
<1>5. PICK p : p = SettledRow(orders[i], l, now)  OBVIOUS
<1>6. \/ UNCHANGED orders /\ NextRow(f)
      \/ /\ p # orders[i] /\ SameRow(f) /\ orders' = [orders EXCEPT ![i] = p]
         /\ IF Tells(p, now) /\ Touches(f, p, now)
            THEN flow' = [flow EXCEPT ![f].pc = "fetch", ![f].why = "fill", ![f].now = now]
            ELSE NextRow(f)
  BY <1>2, <1>5 DEF SettleListed, SettledRow
<1> HIDE DEF i, l, now
<1>7. CASE UNCHANGED orders /\ NextRow(f)
  <2>1. ListInv(flow[f], orders)  BY <1>4 DEF FlowInv
  <2>2. PICK r \in Flows : flow' = [flow EXCEPT ![f] = r] /\ r.pc = "pass" /\ FlowInv(f, r, orders)
    BY <1>1, <1>7, <2>1, NextRowKeeps
  <2> QED  BY <1>1, <1>3, <1>7, <2>2, FlowOnly
<1>8. CASE /\ p # orders[i] /\ SameRow(f) /\ orders' = [orders EXCEPT ![i] = p]
           /\ IF Tells(p, now) /\ Touches(f, p, now)
              THEN flow' = [flow EXCEPT ![f].pc = "fetch", ![f].why = "fill", ![f].now = now]
              ELSE NextRow(f)
  <2>1. orders[i] \in Rows /\ RowOK(orders[i]) /\ (orders[i].live => Unresolved(orders[i]))
    BY <1>2, OrderIs
  <2>2. orders[i].status = l.status /\ orders[i].known = l.known /\ orders[i].told = l.told
    BY <1>2, <1>8 DEF SameRow, i
  <2>3. /\ p \in Rows /\ RowOK(p) /\ Follows(p, orders[i]) /\ Unresolved(orders[i])
        /\ orders[i].status # "SUBMITTING"
        /\ p.day = orders[i].day /\ p.s = orders[i].s /\ p.live = orders[i].live
        /\ p.filled = orders[i].filled /\ p.amount = orders[i].amount
        /\ now = l.filled - l.told /\ now \in Nat /\ p.told = l.filled
        /\ p.status = "FILLED" => l.filled = l.s.qty
    BY <1>2, <1>5, <1>8, <2>1, <2>2, SettledRowIs DEF now
  <2>4. Replaces(p, orders[i])  BY <2>3 DEF Replaces, Grows
  <2>5. p.s.side = "SELL" /\ p.live => Remaining(p) <= account.qty
    BY <1>2, <2>3 DEF ISafe, SalesCovered, Working, Remaining
  <2>6. orders' \in Seq(Rows) /\ Advance(f) /\ orders \in Seq(Rows) /\ orders'[i] = p
    <3>1. /\ orders' \in Seq(Rows) /\ DOMAIN orders' = DOMAIN orders /\ orders'[i] = p
          /\ \A j \in DOMAIN orders : j # i => orders'[j] = orders[j]
          /\ \A j \in DOMAIN orders : Replaces(orders'[j], orders[j])
      BY <1>2, <1>8, <2>4, RowChange
    <3>2. \A j \in DOMAIN orders : orders[j].status = "SUBMITTING" => orders'[j].status = "SUBMITTING"
      BY <2>3, <3>1
    <3> QED  BY <3>1, <3>2, RowsAdvance DEF ISafe, TypeInv
  <2>7. PICK os : os = orders'  OBVIOUS
  <2>8. FlowInv(f, flow[f], os)  BY <1>1, <1>4, <2>6, <2>7, OthersKeep
  <2>9. PICK r \in Flows : flow' = [flow EXCEPT ![f] = r] /\ r.pc # "post" /\ FlowInv(f, r, os)
    <3>1. CASE ~(Tells(p, now) /\ Touches(f, p, now))
      <4>1. ListInv(flow[f], os)  BY <2>8 DEF FlowInv
      <4>2. NextRow(f)  BY <1>8, <3>1
      <4> QED  BY <1>1, <4>1, <4>2, NextRowKeeps
    <3>2. CASE Tells(p, now) /\ Touches(f, p, now)
      <4>1. PICK r : r = [flow[f] EXCEPT !.pc = "fetch", !.why = "fill", !.now = now]  OBVIOUS
      <4>2. flow' = [flow EXCEPT ![f] = r]  BY <1>4, <1>8, <3>2, <4>1 DEF ISafe, TypeInv
      <4>3. /\ r \in Flows /\ r.pc = "fetch" /\ r.why = "fill" /\ r.now = now
            /\ r.rows = flow[f].rows /\ r.list = flow[f].list
        BY <1>4, <2>3, <4>1 DEF Flows, FlowPcs, Whys
      <4>4. RowOf(r) = i /\ Current(r) = l /\ r.rows # {}
        BY <1>1, <1>2, <4>3 DEF RowOf, Current, l
      <4>5. PcInv(f, r)  BY <1>2, <4>3, <4>4 DEF PcInv, Settles, Pcs, Reasons
      <4>6. ListInv(r, os)  BY <2>8, <4>3 DEF FlowInv, ListInv
      <4>7. FillInv(r, os)
        <5>1. now > 0 /\ (p.s.side = "BUY" \/ p.status = "FILLED")  BY <3>2 DEF Tells
        <5>2. strategy \in {"momentum-breakout", "grid-mean-reversion", "infinite-buy-v4"}
          BY <3>2 DEF Touches
        <5>3. os[i].told >= l.filled
          <6>1. os[i].told = l.filled  BY <2>3, <2>6, <2>7
          <6>2. l.filled \in Nat  BY <1>2 DEF Rows
          <6> QED  BY <6>1, <6>2
        <5>4. l.s.side = "SELL" => os[i].status = "FILLED"
          BY <1>2, <2>3, <2>6, <2>7, <5>1 DEF Follows
        <5> QED  BY <2>3, <4>3, <4>4, <5>1, <5>2, <5>3, <5>4 DEF FillInv
      <4> QED  BY <4>2, <4>3, <4>5, <4>6, <4>7 DEF FlowInv, RestoreInv, PostInv
    <3> QED  BY <3>1, <3>2
  <2>10. FlowInv(f, r, orders')  BY <2>7, <2>9
  <2> QED  BY <1>1, <1>2, <1>3, <1>8, <2>3, <2>4, <2>5, <2>9, <2>10, FlowRow
<1> QED  BY <1>6, <1>7, <1>8

LEMMA SettleAbsentKeeps == ASSUME ISafe, NEW f \in Flow, SettleAbsent(f) PROVE ISafe'
<1> DEFINE i == Row(f)
           l == Current(flow[f])
<1>1. flow[f].pc = "pass" /\ flow[f].rows # {}  BY DEF SettleAbsent
<1>2. /\ f \in {"loop", "sync"} /\ i \in flow[f].rows /\ i \in DOMAIN orders
      /\ i = RowOf(flow[f]) /\ Listing(f)[i] = l
      /\ l \in Rows /\ RowOK(l) /\ Listed(l) /\ Follows(orders[i], l)
  BY <1>1, PassIs
<1>3. (ClockOK /\ StoresOK)' /\ UNCHANGED <<strategy, day, account, cron>>
  BY WatchIs DEF ISafe, TypeInv, ClockOK, StoresOK, SettleAbsent
<1>4. flow[f] \in Flows /\ FlowInv(f, flow[f], orders)  BY FlowIs
<1>5. PICK p : p = [orders[i] EXCEPT !.status = "CANCELLED"]  OBVIOUS
<1>6. orders \in Seq(Rows) /\ orders[i] \in Rows /\ RowOK(orders[i])  BY <1>2, OrderIs DEF ISafe, TypeInv
<1>7. /\ ~l.live /\ l.filled = 0
      /\ \/ UNCHANGED orders /\ NextRow(f)
         \/ /\ SameRow(f) /\ orders' = [orders EXCEPT ![i] = p]
            /\ IF Carries /\ l.s.side = "BUY"
               THEN flow' = [flow EXCEPT ![f].pc = "fetch", ![f].why = "restore"]
               ELSE NextRow(f)
  BY <1>2, <1>5, <1>6 DEF SettleAbsent
<1> HIDE DEF i, l
<1>8. CASE UNCHANGED orders /\ NextRow(f)
  <2>1. ListInv(flow[f], orders)  BY <1>4 DEF FlowInv
  <2>2. PICK r \in Flows : flow' = [flow EXCEPT ![f] = r] /\ r.pc = "pass" /\ FlowInv(f, r, orders)
    BY <1>1, <1>8, <2>1, NextRowKeeps
  <2> QED  BY <1>1, <1>3, <1>8, <2>2, FlowOnly
<1>9. CASE /\ SameRow(f) /\ orders' = [orders EXCEPT ![i] = p]
           /\ IF Carries /\ l.s.side = "BUY"
              THEN flow' = [flow EXCEPT ![f].pc = "fetch", ![f].why = "restore"]
              ELSE NextRow(f)
  <2>1. orders[i].status = l.status /\ orders[i].known = l.known /\ orders[i].told = l.told
    BY <1>2, <1>9 DEF SameRow, i
  <2>2. /\ ~orders[i].live /\ orders[i].filled = 0 /\ Unresolved(orders[i]) /\ ~Unsent(orders[i])
        /\ orders[i].status \in {"PENDING", "PARTIAL"}
    BY <1>2, <1>7, <2>1 DEF Follows, Listed, Unresolved, Unsent
  <2>3. /\ p \in Rows /\ p.status = "CANCELLED" /\ p.s = orders[i].s /\ p.day = orders[i].day
        /\ p.live = orders[i].live /\ p.filled = orders[i].filled /\ p.told = orders[i].told
        /\ p.amount = orders[i].amount
    BY <1>5, <1>6 DEF Rows, Status
  <2>4. RowOK(p)  BY <1>6, <2>2, <2>3 DEF RowOK, Unsent, Listed
  <2>5. Follows(p, orders[i])  BY <1>6, <2>2, <2>3 DEF Follows, Unsent, Rows
  <2>6. Replaces(p, orders[i])  BY <2>2, <2>3, <2>4, <2>5 DEF Replaces, Grows
  <2>7. orders' \in Seq(Rows) /\ Advance(f) /\ orders'[i] = p
    <3>1. /\ orders' \in Seq(Rows) /\ DOMAIN orders' = DOMAIN orders /\ orders'[i] = p
          /\ \A j \in DOMAIN orders : j # i => orders'[j] = orders[j]
          /\ \A j \in DOMAIN orders : Replaces(orders'[j], orders[j])
      BY <1>2, <1>9, <2>6, RowChange
    <3>2. \A j \in DOMAIN orders : orders[j].status = "SUBMITTING" => orders'[j].status = "SUBMITTING"
      BY <2>2, <3>1
    <3> QED  BY <3>1, <3>2, RowsAdvance
  <2>8. PICK os : os = orders'  OBVIOUS
  <2>9. FlowInv(f, flow[f], os)  BY <1>1, <1>4, <1>6, <2>7, <2>8, OthersKeep
  <2>10. PICK r \in Flows : flow' = [flow EXCEPT ![f] = r] /\ r.pc # "post" /\ FlowInv(f, r, os)
    <3>1. CASE ~(Carries /\ l.s.side = "BUY")
      <4>1. ListInv(flow[f], os)  BY <2>9 DEF FlowInv
      <4>2. NextRow(f)  BY <1>9, <3>1
      <4> QED  BY <1>1, <4>1, <4>2, NextRowKeeps
    <3>2. CASE Carries /\ l.s.side = "BUY"
      <4>1. PICK r : r = [flow[f] EXCEPT !.pc = "fetch", !.why = "restore"]  OBVIOUS
      <4>2. flow' = [flow EXCEPT ![f] = r]  BY <1>4, <1>9, <3>2, <4>1 DEF ISafe, TypeInv
      <4>3. /\ r \in Flows /\ r.pc = "fetch" /\ r.why = "restore"
            /\ r.rows = flow[f].rows /\ r.list = flow[f].list
        BY <1>4, <4>1 DEF Flows, FlowPcs, Whys
      <4>4. RowOf(r) = i /\ Current(r) = l /\ r.rows # {}
        BY <1>1, <1>2, <4>3 DEF RowOf, Current, l
      <4>5. PcInv(f, r)  BY <1>2, <3>2, <4>3, <4>4 DEF PcInv, Settles, Pcs, Reasons, Carries
      <4>6. ListInv(r, os)  BY <2>9, <4>3 DEF FlowInv, ListInv
      <4>7. RestoreInv(r, os)
        <5>1. os[i].status = "CANCELLED"  BY <2>3, <2>7, <2>8
        <5> QED  BY <3>2, <4>4, <5>1 DEF RestoreInv
      <4> QED  BY <4>2, <4>3, <4>5, <4>6, <4>7 DEF FlowInv, FillInv, Told, PostInv
    <3> QED  BY <3>1, <3>2
  <2>11. FlowInv(f, r, orders')  BY <2>8, <2>10
  <2> QED  BY <1>1, <1>2, <1>3, <1>9, <2>2, <2>3, <2>6, <2>10, <2>11, FlowRow
<1> QED  BY <1>7, <1>8, <1>9

-----------------------------------------------------------------------------
(* A posted order is answered.                                             *)
LEMMA SalesAlone ==
  ASSUME ISafe, NEW i \in DOMAIN orders, Unresolved(orders[i]), orders[i].s.side = "SELL",
         NEW j \in Working("SELL")
  PROVE  j = i
<1>1. j \in DOMAIN orders /\ orders[j].live /\ orders[j].s.side = "SELL"  BY DEF Working
<1>2. Unresolved(orders[j])  BY <1>1, OrderIs
<1> QED  BY <1>1, <1>2 DEF ISafe, OneUnresolved

LEMMA OfferedIs ==
  ASSUME ISafe, Working("SELL") = {}
  PROVE  OfferedShares = 0
<1>1. IsFiniteSet({})  BY FS_EmptySet
<1> QED  BY <1>1, SumUnfold DEF OfferedShares

LEMMA SentIs ==
  ASSUME NEW o \in Rows, RowOK(o), Unsent(o), NEW s \in Jobs, s.side = o.s.side,
         NEW p, p = Sent([o EXCEPT !.s = s])
  PROVE  /\ Replaces(p, o) /\ p.live /\ p.s = s /\ Remaining(p) = s.qty /\ p.status = "PENDING"
         /\ p.filled = 0 /\ p.told = 0 /\ p.day = o.day /\ p.amount = o.amount
<1>1. PICK q \in Rows : q = [o EXCEPT !.s = s]  BY DEF Rows
<1>2. /\ q.s = s /\ q.day = o.day /\ q.filled = o.filled /\ q.told = o.told /\ q.amount = o.amount
  BY <1>1 DEF Rows
<1>3. p = [q EXCEPT !.status = "PENDING", !.known = TRUE, !.live = TRUE]  BY <1>1 DEF Sent
<1>4. /\ p \in Rows /\ p.status = "PENDING" /\ p.known = TRUE /\ p.live = TRUE
      /\ p.s = s /\ p.day = o.day /\ p.filled = o.filled /\ p.told = o.told /\ p.amount = o.amount
  BY <1>2, <1>3 DEF Rows, Status
<1>5. o.filled = 0 /\ o.told = 0 /\ s.qty \in Nat \ {0} /\ Unresolved(o)
  <2>1. o.told \in Nat /\ o.filled \in Nat  BY DEF Rows
  <2>2. s.qty \in Nat \ {0}  BY JobIs
  <2> QED  BY <2>1, <2>2 DEF RowOK, Unsent, Unresolved
<1>6. RowOK(p)  BY <1>4, <1>5 DEF RowOK, Unsent, Listed
<1>7. Grows(o, p)  BY DEF Grows
<1> QED  BY <1>4, <1>5, <1>6, <1>7 DEF Replaces, Remaining

LEMMA ClosedIs ==
  ASSUME NEW o \in Rows, RowOK(o), Unsent(o), NEW status \in {"FAILED", "CANCELLED"},
         NEW p, p = [o EXCEPT !.status = status]
  PROVE  /\ Replaces(p, o) /\ ~p.live /\ p.s = o.s /\ p.status = status
         /\ p.filled = 0 /\ p.told = 0 /\ p.day = o.day /\ p.amount = o.amount
<1>1. /\ p \in Rows /\ p.status = status /\ p.known = o.known /\ p.live = o.live
      /\ p.s = o.s /\ p.day = o.day /\ p.filled = o.filled /\ p.told = o.told /\ p.amount = o.amount
  BY DEF Rows, Status
<1>2. o.filled = 0 /\ o.told = 0 /\ ~o.live
  <2>1. o.told \in Nat /\ o.filled \in Nat  BY DEF Rows
  <2> QED  BY <2>1 DEF RowOK, Unsent
<1>3. RowOK(p)  BY <1>1, <1>2 DEF RowOK, Unsent, Listed
<1>4. Grows(o, p) /\ ~Unresolved(p)  BY <1>1 DEF Grows, Unresolved
<1> QED  BY <1>1, <1>2, <1>3, <1>4 DEF Replaces

LEMMA HoldingsIs == ASSUME ISafe PROVE Holdings \in Holding
  BY MarketIs DEF ISafe, TypeInv, Holdings, NoShares, Holding

LEMMA PostKeeps == ASSUME ISafe, NEW f \in Flow, Post(f) PROVE ISafe'
<1> DEFINE i == flow[f].id
<1>1. flow[f] \in Flows /\ FlowInv(f, flow[f], orders) /\ flow[f].pc = "post" /\ flow[f].pc \in Pcs(f)
      /\ flow[f].rows = {}
  BY FlowIs DEF Post
<1>2. i \in DOMAIN orders /\ orders[i].status = "SUBMITTING"  BY <1>1 DEF FlowInv, PostInv
<1>3. orders[i] \in Rows /\ RowOK(orders[i]) /\ Unsent(orders[i])  BY <1>2, OrderIs DEF Unsent
<1>4. PICK outcome \in {"PENDING", "FAILED", "CANCELLED"} :
        /\ outcome = "PENDING" => Covered(orders[i].s)
        /\ position' = IF outcome = "CANCELLED" THEN position ELSE Holdings
        /\ orders' = [orders EXCEPT ![i] = IF outcome = "PENDING" THEN Sent(@) ELSE [@ EXCEPT !.status = outcome]]
        /\ flow' = [flow EXCEPT ![f].pc = "submit", ![f].bought =
                     @ \/ (outcome = "PENDING" /\ orders[i].s.side = "BUY")]
  BY DEF Post
<1>5. PICK p : p = IF outcome = "PENDING" THEN Sent(orders[i]) ELSE [orders[i] EXCEPT !.status = outcome]
  OBVIOUS
<1>6. orders' = [orders EXCEPT ![i] = p]  BY <1>2, <1>4, <1>5 DEF ISafe, TypeInv
<1>7. PICK bought \in BOOLEAN : bought = (flow[f].bought \/ (outcome = "PENDING" /\ orders[i].s.side = "BUY"))
  OBVIOUS
<1>8. PICK r : r = [flow[f] EXCEPT !.pc = "submit", !.bought = bought]  OBVIOUS
<1>9. flow' = [flow EXCEPT ![f] = r]  BY <1>4, <1>7, <1>8 DEF ISafe, TypeInv
<1>10. r \in Flows /\ r.rows = {} /\ r.pc = "submit"  BY <1>1, <1>8 DEF Flows, FlowPcs
<1>11. FlowInv(f, r, orders')  BY <1>1, <1>10, PlainFlow DEF Pcs, Settles
<1>12. (ClockOK /\ StoresOK)' /\ UNCHANGED <<strategy, day, account, cron>>
  BY <1>4, HoldingsIs, WatchIs DEF ISafe, TypeInv, ClockOK, StoresOK, Post
<1>13. Replaces(p, orders[i]) /\ (p.s.side = "SELL" /\ p.live => Remaining(p) <= account.qty)
  <2>1. CASE outcome = "PENDING"
    <3>1. PICK s \in Jobs : s = orders[i].s  BY <1>3 DEF Rows
    <3>2. [orders[i] EXCEPT !.s = s] = orders[i]  BY <1>3, <3>1 DEF Rows
    <3>3. p = Sent([orders[i] EXCEPT !.s = s])  BY <1>5, <2>1, <3>2
    <3>4. Replaces(p, orders[i]) /\ p.s = s /\ Remaining(p) = s.qty  BY <1>3, <3>1, <3>3, SentIs
    <3>5. s.side = "SELL" => s.qty <= account.qty
      <4> SUFFICES ASSUME s.side = "SELL" PROVE s.qty <= account.qty  OBVIOUS
      <4>1. Unresolved(orders[i]) /\ ~orders[i].live  BY <1>2, <1>3 DEF Unresolved, RowOK
      <4>2. Working("SELL") = {}
        <5>1. ASSUME NEW j \in Working("SELL") PROVE FALSE
          <6>1. j = i  BY <1>2, <3>1, <4>1, <5>1, SalesAlone
          <6> QED  BY <4>1, <5>1, <6>1 DEF Working
        <5> QED  BY <5>1
      <4>3. 0 + s.qty <= account.qty  BY <1>4, <2>1, <3>1, <4>2, OfferedIs DEF Covered
      <4>4. s.qty \in Nat  BY JobIs
      <4> QED  BY <4>3, <4>4
    <3> QED  BY <3>4, <3>5
  <2>2. CASE outcome # "PENDING"  BY <1>3, <1>4, <1>5, <2>2, ClosedIs
  <2> QED  BY <2>1, <2>2
<1> QED  BY <1>1, <1>2, <1>6, <1>9, <1>10, <1>11, <1>12, <1>13, FlowRow

-----------------------------------------------------------------------------
(* The account, the broker and the clock.                                  *)
Account == [qty : Nat, avg : Nat, cash : Nat]

LEMMA OutsideStep ==
  ASSUME ISafe, strategy' = strategy, day' \in 1..MaxDay, day <= day', (ClockOK /\ StoresOK)',
         account' \in Account, UNCHANGED flow, cron' => flow["loop"].pc = "idle",
         orders' \in Seq(Rows), DOMAIN orders' = DOMAIN orders,
         \A i \in DOMAIN orders : /\ Replaces(orders'[i], orders[i])
                                  /\ orders[i].status = "SUBMITTING" => orders'[i].status = "SUBMITTING"
                                  /\ orders'[i].live /\ orders'[i].s.side = "SELL"
                                       => Remaining(orders'[i]) <= account'.qty
  PROVE  ISafe'
<1>1. RowsOK' /\ OneUnresolved'
  <2>1. day' \in Nat  BY BoundAssumption
  <2> QED  BY <2>1, RowsChange
<1>2. Advance("sync")  BY RowsAdvance
<1>3. FlowsOK' /\ flow' \in [Flow -> Flows]  BY <1>2, FlowsKeep
<1>4. SalesCovered'  BY DEF SalesCovered, Working, Remaining
<1>5. Rows' = Rows /\ Flows' = Flows  BY SameTypes
<1>6. TypeInv'  BY <1>3, <1>5 DEF ISafe, TypeInv, Account
<1> QED  BY <1>1, <1>3, <1>4, <1>6 DEF ISafe

LEMMA OutsideRow ==
  ASSUME ISafe, UNCHANGED <<strategy, day, flow, cron>>, (ClockOK /\ StoresOK)', account' \in Account,
         NEW i \in DOMAIN orders, NEW p, Replaces(p, orders[i]), orders' = [orders EXCEPT ![i] = p],
         orders[i].status = "SUBMITTING" => p.status = "SUBMITTING",
         p.s.side = "SELL" /\ p.live => Remaining(p) <= account'.qty,
         account'.qty >= account.qty \/ (Unresolved(orders[i]) /\ p.s.side = "SELL")
  PROVE  ISafe'
<1>1. /\ orders' \in Seq(Rows) /\ DOMAIN orders' = DOMAIN orders /\ orders'[i] = p
      /\ \A j \in DOMAIN orders : j # i => orders'[j] = orders[j]
      /\ \A j \in DOMAIN orders : Replaces(orders'[j], orders[j])
  BY RowChange
<1>2. ASSUME NEW j \in DOMAIN orders, orders'[j].live, orders'[j].s.side = "SELL"
      PROVE  Remaining(orders'[j]) <= account'.qty
  <2>1. CASE j = i  BY <1>1, <1>2, <2>1
  <2>2. CASE j # i
    <3>1. j \in Working("SELL") /\ orders'[j] = orders[j]  BY <1>1, <1>2, <2>2 DEF Working
    <3>2. p.s.side = orders[i].s.side  BY DEF Replaces
    <3>3. account'.qty >= account.qty  BY <2>2, <3>1, <3>2, SalesAlone
    <3>4. Remaining(orders[j]) <= account.qty  BY <3>1 DEF ISafe, SalesCovered
    <3>5. Remaining(orders[j]) \in Int /\ account.qty \in Int /\ account'.qty \in Int
      <4>1. orders[j] \in Rows  BY <1>2, OrderIs
      <4>2. orders[j].s \in Jobs /\ orders[j].filled \in Nat  BY <4>1 DEF Rows
      <4>3. orders[j].s.qty \in Nat  BY <4>2, JobIs
      <4> QED  BY <4>2, <4>3 DEF Remaining, ISafe, TypeInv, Account
    <3> QED  BY <3>1, <3>3, <3>4, <3>5
  <2> QED  BY <2>1, <2>2
<1>3. \A j \in DOMAIN orders : orders[j].status = "SUBMITTING" => orders'[j].status = "SUBMITTING"
  BY <1>1
<1>4. day' \in 1..MaxDay /\ day <= day' /\ (cron' => flow["loop"].pc = "idle")
  BY BoundAssumption DEF ISafe, TypeInv, FlowsOK
<1> QED  BY <1>1, <1>2, <1>3, <1>4, OutsideStep

LEMMA DeadIs ==
  ASSUME NEW o \in Rows, RowOK(o), NEW p, p = [o EXCEPT !.live = FALSE]
  PROVE  /\ Replaces(p, o) /\ ~p.live /\ p.status = o.status /\ p.s = o.s /\ p.day = o.day
         /\ p.filled = o.filled /\ p.amount = o.amount /\ p.told = o.told /\ p.known = o.known
<1>1. /\ p \in Rows /\ ~p.live /\ p.status = o.status /\ p.s = o.s /\ p.day = o.day
      /\ p.filled = o.filled /\ p.amount = o.amount /\ p.told = o.told /\ p.known = o.known
  BY DEF Rows
<1>2. RowOK(p)  BY <1>1 DEF RowOK, Unsent, Listed
<1>3. Grows(o, p)
  <2>1. o.told \in Nat /\ o.filled \in Nat  BY DEF Rows
  <2> QED  BY <1>1, <2>1 DEF Grows, Follows, Unsent
<1>4. Unresolved(p) => Unresolved(o)  BY <1>1 DEF Unresolved
<1> QED  BY <1>1, <1>2, <1>3, <1>4 DEF Replaces

LEMMA DieKeeps == ASSUME ISafe, NEW i \in DOMAIN orders, Die(i) PROVE ISafe'
<1>1. PICK p : p = [orders[i] EXCEPT !.live = FALSE]  OBVIOUS
<1>2. orders' = [orders EXCEPT ![i] = p]  BY <1>1 DEF Die, ISafe, TypeInv
<1>3. Replaces(p, orders[i]) /\ ~p.live /\ p.status = orders[i].status  BY <1>1, OrderIs, DeadIs
<1>4. (ClockOK /\ StoresOK)'  BY WatchIs DEF ISafe, TypeInv, ClockOK, StoresOK, Die
<1>5. account' \in Account /\ account'.qty >= account.qty  BY DEF Die, ISafe, TypeInv, Account
<1> QED  BY <1>2, <1>3, <1>4, <1>5, OutsideRow DEF Die

LEMMA DeclineKeeps == ASSUME ISafe, NEW i \in DOMAIN orders, Decline(i) PROVE ISafe'
<1>1. PICK p : p = [orders[i] EXCEPT !.status = "CANCELLED"]  OBVIOUS
<1>2. orders' = [orders EXCEPT ![i] = p]  BY <1>1 DEF Decline, ISafe, TypeInv
<1>3. orders[i].status = "AWAITING" /\ Unsent(orders[i])  BY DEF Decline, Unsent
<1>4. Replaces(p, orders[i]) /\ ~p.live  BY <1>1, <1>3, OrderIs, ClosedIs
<1>5. (ClockOK /\ StoresOK)'  BY WatchIs DEF ISafe, TypeInv, ClockOK, StoresOK, Decline
<1>6. account' \in Account /\ account'.qty >= account.qty  BY DEF Decline, ISafe, TypeInv, Account
<1> QED  BY <1>2, <1>3, <1>4, <1>5, <1>6, OutsideRow DEF Decline

LEMMA ApproveKeeps == ASSUME ISafe, NEW i \in DOMAIN orders, Approve(i) PROVE ISafe'
<1>1. /\ orders[i] \in Rows /\ RowOK(orders[i]) /\ orders[i].status = "AWAITING" /\ Unsent(orders[i])
      /\ orders[i].s \in Jobs
  BY OrderIs DEF Approve, Unsent, Rows
<1> DEFINE s == [orders[i].s EXCEPT !.qty = Least(@, account.qty)]
           o == [orders[i] EXCEPT !.s = IF account.qty = 0 THEN @ ELSE s]
<1>2. PICK outcome \in {"PENDING", "FAILED", "CANCELLED"} :
        /\ account.qty = 0 => outcome = "CANCELLED"
        /\ position' = Holdings
        /\ orders' = [orders EXCEPT ![i] = IF outcome = "PENDING" THEN Sent(o) ELSE [@ EXCEPT !.status = outcome]]
  BY DEF Approve
<1>3. PICK p : p = IF outcome = "PENDING" THEN Sent(o) ELSE [orders[i] EXCEPT !.status = outcome]
  OBVIOUS
<1>4. orders' = [orders EXCEPT ![i] = p]  BY <1>2, <1>3 DEF ISafe, TypeInv
<1>5. (ClockOK /\ StoresOK)'  BY <1>2, HoldingsIs, WatchIs DEF ISafe, TypeInv, ClockOK, StoresOK, Approve
<1>6. account' \in Account /\ account'.qty >= account.qty /\ account' = account /\ account.qty \in Nat
  BY DEF Approve, ISafe, TypeInv, Account
<1>7. Replaces(p, orders[i]) /\ (p.s.side = "SELL" /\ p.live => Remaining(p) <= account'.qty)
  <2>1. CASE outcome = "PENDING"
    <3>1. account.qty # 0 /\ p = Sent([orders[i] EXCEPT !.s = s])
      <4>1. account.qty # 0  BY <1>2, <2>1
      <4> QED  BY <1>2, <1>3, <2>1, <4>1
    <3>2. orders[i].s.qty \in Nat \ {0}  BY <1>1, JobIs
    <3>3. PICK n \in Nat \ {0} : n = Least(orders[i].s.qty, account.qty) /\ n <= account.qty
      BY <1>6, <3>1, <3>2 DEF Least
    <3>4. PICK q \in Jobs : q = orders[i].s  BY <1>1
    <3>5. PICK t : t = [q EXCEPT !.qty = n]  OBVIOUS
    <3>6. t = s  BY <3>3, <3>4, <3>5
    <3>7. t \in Jobs /\ t.side = orders[i].s.side /\ t.qty = n  BY <3>4, <3>5, JobQty
    <3> HIDE DEF s, o
    <3>8. p = Sent([orders[i] EXCEPT !.s = t])  BY <3>1, <3>6
    <3>9. Replaces(p, orders[i]) /\ Remaining(p) = t.qty  BY <1>1, <3>7, <3>8, SentIs
    <3> QED  BY <1>6, <3>3, <3>7, <3>9
  <2>2. CASE outcome # "PENDING"  BY <1>1, <1>2, <1>3, <2>2, ClosedIs
  <2> QED  BY <2>1, <2>2
<1> QED  BY <1>1, <1>4, <1>5, <1>6, <1>7, OutsideRow DEF Approve

\* What the broker does to an order it fills.
LEMMA FilledIs ==
  ASSUME NEW o \in Rows, RowOK(o), o.live, NEW n \in Nat \ {0}, n <= Remaining(o),
         NEW p \in Rows, p.filled = o.filled + n, p.live => n < Remaining(o),
         p.told = o.told, p.status = o.status, p.s = o.s, p.day = o.day, p.known = o.known
  PROVE  Replaces(p, o) /\ Remaining(p) = Remaining(o) - n
<1>1. /\ o.s.qty \in Nat /\ o.filled \in Nat /\ o.told \in Nat /\ Listed(o)
      /\ n <= o.s.qty - o.filled /\ Remaining(o) = o.s.qty - o.filled /\ o.told <= o.filled
  <2>1. o.s \in Jobs  BY DEF Rows
  <2>2. o.s.qty \in Nat  BY <2>1, JobIs
  <2> QED  BY <2>2 DEF Rows, RowOK, Remaining
<1>2. /\ p.told <= p.filled /\ p.filled <= p.s.qty /\ o.filled <= p.filled
      /\ p.live => p.filled < p.s.qty
      /\ Remaining(p) = Remaining(o) - n
  BY <1>1 DEF Remaining
<1>3. RowOK(p)  BY <1>1, <1>2 DEF RowOK, Listed, Unsent
<1>4. Grows(o, p) /\ (Unresolved(p) => Unresolved(o))
  BY <1>1, <1>2 DEF Grows, Follows, Unsent, Unresolved
<1> QED  BY <1>2, <1>3, <1>4 DEF Replaces

LEMMA TradeKeeps ==
  ASSUME ISafe, NEW i \in DOMAIN orders, orders[i].live, NEW n \in Lots(i), NEW price \in Nat,
         Trade(i, n, price)
  PROVE  ISafe'
<1>1. /\ orders[i] \in Rows /\ RowOK(orders[i]) /\ Unresolved(orders[i])
      /\ account \in Account /\ orders \in Seq(Rows)
  BY OrderIs DEF ISafe, TypeInv, Account
<1>2. /\ orders[i].s \in Jobs /\ orders[i].filled \in Nat /\ orders[i].amount \in Nat
      /\ orders[i].s.side \in {"BUY", "SELL"} /\ orders[i].s.qty \in Nat
  <2>1. orders[i].s \in Jobs  BY <1>1 DEF Rows
  <2> QED  BY <1>1, <2>1, JobIs DEF Rows
<1>3. n \in Nat \ {0} /\ Remaining(orders[i]) \in Nat /\ n <= Remaining(orders[i])
  <2>1. orders[i].filled < orders[i].s.qty  BY <1>1 DEF RowOK
  <2>2. Remaining(orders[i]) \in Nat \ {0}  BY <1>2, <2>1 DEF Remaining
  <2>3. n = Remaining(orders[i]) \/ n = 1  BY DEF Lots
  <2> QED  BY <2>2, <2>3
<1>5. PICK p : p = [orders[i] EXCEPT !.filled = orders[i].filled + n,
                                     !.amount = orders[i].amount + n * price,
                                     !.live = n < Remaining(orders[i])]
  OBVIOUS
<1>6. orders' = [orders EXCEPT ![i] = p]  BY <1>1, <1>5 DEF Trade
<1>7. n * price \in Nat  BY <1>3
<1>8. /\ Replaces(p, orders[i]) /\ Remaining(p) = Remaining(orders[i]) - n /\ p.status = orders[i].status
      /\ p.s = orders[i].s
  <2>2. /\ orders[i] \in Rows /\ RowOK(orders[i]) /\ n \in Nat \ {0} /\ n <= Remaining(orders[i])
        /\ orders[i].live
    BY <1>1, <1>3
  <2>3. orders[i].filled + n \in Nat /\ orders[i].amount + n * price \in Nat
        /\ (n < Remaining(orders[i])) \in BOOLEAN
    BY <1>2, <1>3, <1>7
  <2>4. p \in Rows  BY <1>5, <2>2, <2>3 DEF Rows
  <2>5. /\ p.filled = orders[i].filled + n /\ (p.live => n < Remaining(orders[i]))
        /\ p.told = orders[i].told /\ p.status = orders[i].status /\ p.s = orders[i].s
        /\ p.day = orders[i].day /\ p.known = orders[i].known
    BY <1>5, <2>2 DEF Rows
  <2>6. Replaces(p, orders[i]) /\ Remaining(p) = Remaining(orders[i]) - n
    BY <2>2, <2>4, <2>5, FilledIs
  <2> QED  BY <2>5, <2>6
<1>9. /\ account.qty \in Nat /\ account.cash \in Nat /\ account.avg \in Nat  BY <1>1 DEF Account
<1>10. /\ account' \in Account
       /\ p.s.side = "SELL" => account'.qty = account.qty - n
       /\ p.s.side = "BUY"  => account'.qty = account.qty + n
  <2>1. CASE orders[i].s.side = "BUY"
    <3>1. account' = [qty |-> account.qty + n, cash |-> account.cash - n * price,
                      avg |-> (account.qty * account.avg + n * price) \div (account.qty + n)]
      BY <2>1 DEF Trade, Settled
    <3>2. account.qty + n \in Nat /\ account.qty + n > 0  BY <1>3, <1>9
    <3>3. account.cash - n * price \in Nat  BY <1>7, <1>9, <2>1 DEF Trade
    <3>4. account.qty * account.avg + n * price \in Nat  BY <1>7, <1>9
    <3>5. (account.qty * account.avg + n * price) \div (account.qty + n) \in Nat  BY <3>2, <3>4, DivBound
    <3> QED  BY <1>8, <2>1, <3>1, <3>2, <3>3, <3>5 DEF Account
  <2>2. CASE orders[i].s.side = "SELL"
    <3>1. account' = [qty |-> account.qty - n, cash |-> account.cash + n * price,
                      avg |-> IF account.qty = n THEN 0 ELSE account.avg]
      BY <2>2 DEF Trade, Settled
    <3>2. Remaining(orders[i]) <= account.qty  BY <2>2 DEF ISafe, SalesCovered, Working
    <3>3. account.qty - n \in Nat /\ account.cash + n * price \in Nat  BY <1>3, <1>7, <1>9, <3>2
    <3> QED  BY <1>8, <1>9, <2>2, <3>1, <3>3 DEF Account
  <2> QED  BY <1>2, <2>1, <2>2
<1>11. p.s.side = "SELL" /\ p.live => Remaining(p) <= account'.qty
  <2> SUFFICES ASSUME p.s.side = "SELL" PROVE Remaining(p) <= account'.qty  OBVIOUS
  <2>1. Remaining(orders[i]) <= account.qty  BY <1>8 DEF ISafe, SalesCovered, Working
  <2> QED  BY <1>3, <1>8, <1>9, <1>10, <2>1
<1>12. account'.qty >= account.qty \/ (Unresolved(orders[i]) /\ p.s.side = "SELL")
  BY <1>1, <1>2, <1>3, <1>8, <1>9, <1>10
<1>13. (ClockOK /\ StoresOK)'
  <2>1. audit \in Audits  BY DEF ISafe, TypeInv, StoresOK
  <2>2. (audit.overlap \/ Overlapping) \in BOOLEAN
        /\ (audit.mixed \/ IF orders[i].s.side = "BUY" THEN Unheard
                           ELSE n = Remaining(orders[i]) /\ n < account.qty) \in BOOLEAN
    BY <2>1 DEF Audits, Overlapping, Unheard
  <2>3. audit' \in Audits  BY <2>1, <2>2 DEF Trade, Audits
  <2> QED  BY <2>3 DEF ISafe, TypeInv, ClockOK, StoresOK, Trade
<1> QED  BY <1>6, <1>8, <1>10, <1>11, <1>12, <1>13, OutsideRow DEF Trade

LEMMA FillKeeps == ASSUME ISafe, NEW i \in DOMAIN orders, Fill(i) PROVE ISafe'
<1>1. market.price \in Nat /\ orders[i].live  BY MarketIs DEF ISafe, TypeInv, Fill
<1>2. orders[i].s.price \in Nat
  <2>1. orders[i].s \in Jobs  BY OrderIs DEF Rows
  <2> QED  BY <2>1, JobIs
<1>3. PICK price \in Nat : \E n \in Lots(i) : Trade(i, n, price)
  <2>1. CASE OrderType(orders[i].s) = "MARKET"  BY <1>1, <2>1 DEF Fill
  <2>2. CASE OrderType(orders[i].s) # "MARKET"  BY <1>2, <2>2 DEF Fill
  <2> QED  BY <2>1, <2>2
<1> QED  BY <1>1, <1>3, TradeKeeps

LEMMA FillAtCloseKeeps == ASSUME ISafe, NEW i \in DOMAIN orders, FillAtClose(i) PROVE ISafe'
<1>1. market.price \in Nat /\ orders[i].live  BY MarketIs DEF ISafe, TypeInv, FillAtClose, InAuction
<1> QED  BY <1>1, TradeKeeps DEF FillAtClose


-----------------------------------------------------------------------------
LEMMA CancelUnfilledKeeps == ASSUME ISafe, NEW f \in Flow, CancelUnfilled(f) PROVE ISafe'
<1>1. PICK r : r = [flow[f] EXCEPT !.pc = "evaluate"]  OBVIOUS
<1>2. flow' = [flow EXCEPT ![f] = r]  BY <1>1 DEF CancelUnfilled, Go
<1>3. flow[f] \in Flows /\ flow[f].pc = "cancel" /\ flow[f].pc \in Pcs(f) /\ flow[f].rows = {}
  BY FlowIs DEF CancelUnfilled
<1>4. r \in Flows /\ r.rows = {} /\ r.pc = "evaluate"  BY <1>1, <1>3 DEF Flows, FlowPcs
<1>5. FlowInv(f, r, orders')  BY <1>3, <1>4, PlainFlow DEF Pcs, Settles, Flow, Run
<1>6. orders \in Seq(Rows) /\ DOMAIN orders = 1..Len(orders)  BY DEF ISafe, TypeInv
<1>7. /\ DOMAIN orders' = DOMAIN orders
      /\ \A i \in DOMAIN orders : orders'[i] \in {orders[i], [orders[i] EXCEPT !.live = FALSE]}
  BY DEF CancelUnfilled
<1>8. ASSUME NEW i \in DOMAIN orders
      PROVE  /\ Replaces(orders'[i], orders[i]) /\ orders'[i].status = orders[i].status
             /\ orders'[i].s = orders[i].s /\ orders'[i].filled = orders[i].filled
             /\ orders'[i].live => orders[i].live
             /\ orders'[i] \in Rows
  <2>1. orders[i] \in Rows /\ RowOK(orders[i])  BY OrderIs
  <2>2. CASE orders'[i] = orders[i]  BY <2>1, <2>2, SameReplaces
  <2>3. CASE orders'[i] = [orders[i] EXCEPT !.live = FALSE]  BY <2>1, <2>3, DeadIs DEF Replaces
  <2> QED  BY <1>7, <2>2, <2>3
<1>9. orders' \in Seq(Rows)
  <2>1. orders' = [i \in 1..Len(orders) |-> orders'[i]]  BY <1>6 DEF CancelUnfilled
  <2> QED  BY <1>6, <1>8, <2>1
<1>10. RowsOK' /\ OneUnresolved'
  <2>1. day' \in Nat /\ day <= day' /\ strategy' = strategy
    BY BoundAssumption DEF ISafe, TypeInv, CancelUnfilled
  <2> QED  BY <1>7, <1>8, <1>9, <2>1, RowsChange
<1>11. FlowsOK' /\ flow' \in [Flow -> Flows]
  <2>1. Advance(f)  BY <1>7, <1>8, RowsAdvance
  <2>2. TypeInv /\ FlowsOK /\ strategy' = strategy  BY DEF ISafe, CancelUnfilled
  <2>3. cron' => flow'["loop"].pc = "idle"
    <3>1. flow \in [Flow -> Flows] /\ "loop" \in Flow  BY DEF ISafe, TypeInv, Flow, Run
    <3>2. cron => flow["loop"].pc = "idle"  BY DEF ISafe, FlowsOK
    <3> QED  BY <1>2, <1>3, <3>1, <3>2 DEF CancelUnfilled
  <2> QED  BY <1>2, <1>4, <1>5, <1>9, <2>1, <2>2, <2>3, FlowStep
<1>12. SalesCovered'
  BY <1>7, <1>8 DEF ISafe, SalesCovered, Working, Remaining, CancelUnfilled
<1>13. (ClockOK /\ StoresOK)'  BY WatchIs DEF ISafe, TypeInv, ClockOK, StoresOK, CancelUnfilled
<1>14. TypeInv'
  <2>1. Rows' = Rows /\ Flows' = Flows  BY SameTypes DEF CancelUnfilled
  <2> QED  BY <1>9, <1>11, <1>13, <2>1 DEF ISafe, TypeInv, CancelUnfilled
<1> QED  BY <1>10, <1>11, <1>12, <1>14 DEF ISafe

LEMMA AppendIs ==
  ASSUME NEW S, NEW os \in Seq(S), NEW o \in S, NEW qs, qs = Append(os, o)
  PROVE  /\ qs \in Seq(S) /\ DOMAIN qs = 1..(Len(os) + 1) /\ DOMAIN os = 1..Len(os) /\ Len(os) \in Nat
         /\ Len(os) + 1 \notin DOMAIN os /\ Len(os) + 1 \in DOMAIN qs /\ Len(qs) = Len(os) + 1
         /\ qs[Len(os) + 1] = o /\ \A i \in DOMAIN os : i \in DOMAIN qs /\ qs[i] = os[i]
         /\ \A i \in DOMAIN qs : i \in DOMAIN os \/ i = Len(os) + 1
<1>1. /\ Len(os) \in Nat /\ DOMAIN os = 1..Len(os) /\ qs \in Seq(S) /\ Len(qs) = Len(os) + 1
      /\ qs[Len(os) + 1] = o /\ \A i \in 1..Len(os) : qs[i] = os[i]
  OBVIOUS
<1>2. DOMAIN qs = 1..(Len(os) + 1)  BY <1>1
<1> QED  BY <1>1, <1>2

LEMMA NewOrderIs ==
  ASSUME ISafe, NEW s \in Jobs, NEW o, o = NewOrder(s)
  PROVE  /\ o \in Rows /\ RowOK(o) /\ o.s = s /\ o.day = day /\ o.filled = 0 /\ o.told = 0 /\ o.amount = 0
         /\ o.status = (IF NeedsApproval(s) THEN "AWAITING" ELSE "SUBMITTING") /\ ~o.live /\ ~o.known
<1>1. PICK status \in {"AWAITING", "SUBMITTING"} :
        status = IF NeedsApproval(s) THEN "AWAITING" ELSE "SUBMITTING"
  OBVIOUS
<1>2. day \in Nat /\ s.qty \in Nat \ {0} /\ (NeedsApproval(s) => s.side = "SELL")
  BY BoundAssumption, JobIs DEF ISafe, TypeInv, NeedsApproval
<1>3. o = [s |-> s, day |-> day, known |-> FALSE, told |-> 0, live |-> FALSE, filled |-> 0,
           amount |-> 0, status |-> status]
  BY <1>1 DEF NewOrder
<1>4. o \in Rows  BY <1>2, <1>3 DEF Rows, Status
<1>5. RowOK(o)  BY <1>1, <1>2, <1>3 DEF RowOK, Unsent, Listed
<1> QED  BY <1>1, <1>3, <1>4, <1>5

LEMMA AdmitJobKeeps == ASSUME ISafe, NEW f \in Flow, AdmitJob(f) PROVE ISafe'
<1>1. flow[f] \in Flows /\ flow[f].pc = "submit" /\ flow[f].pc \in Pcs(f) /\ flow[f].rows = {}
      /\ flow[f].jobs # <<>>
  BY FlowIs DEF AdmitJob, Submitting
<1>2. Head(flow[f].jobs) \in Jobs /\ Tail(flow[f].jobs) \in Seq(Jobs)
  <2>1. flow[f].jobs \in Seq(Jobs)  BY <1>1 DEF Flows
  <2> QED  BY <1>1, <2>1
<1>3. (ClockOK /\ StoresOK)'  BY WatchIs DEF ISafe, TypeInv, ClockOK, StoresOK, AdmitJob
<1>4. orders \in Seq(Rows) /\ DOMAIN orders = 1..Len(orders) /\ Len(orders) + 1 \in Nat
  BY DEF ISafe, TypeInv
<1>5. CASE InTheWay(Job(f)) # {}
  <2>1. PICK r : r = [flow[f] EXCEPT !.jobs = Tail(flow[f].jobs)]  OBVIOUS
  <2>2. flow' = [flow EXCEPT ![f] = r] /\ UNCHANGED orders  BY <1>5, <2>1 DEF AdmitJob
  <2>3. r \in Flows /\ r.rows = {} /\ r.pc = "submit"  BY <1>1, <1>2, <2>1 DEF Flows
  <2>4. FlowInv(f, r, orders)  BY <1>1, <2>3, PlainFlow DEF Settles
  <2> QED  BY <1>1, <1>3, <2>2, <2>3, <2>4, FlowOnly DEF AdmitJob
<1>6. CASE InTheWay(Job(f)) = {}
  <2>1. PICK o : o = NewOrder(Head(flow[f].jobs))  OBVIOUS
  <2>2. orders' = Append(orders, o)  BY <1>6, <2>1 DEF AdmitJob, Job
  <2>3. PICK r : r = [flow[f] EXCEPT !.jobs = Tail(flow[f].jobs), !.id = Len(orders) + 1,
                        !.pc = IF NeedsApproval(Head(flow[f].jobs)) THEN "submit" ELSE "post"]
    OBVIOUS
  <2>4. flow' = [flow EXCEPT ![f] = r]  BY <1>6, <2>3 DEF AdmitJob, Job
  <2>5. /\ o \in Rows /\ RowOK(o) /\ o.s = Head(flow[f].jobs) /\ o.day = day /\ ~o.live
        /\ o.status = (IF NeedsApproval(Head(flow[f].jobs)) THEN "AWAITING" ELSE "SUBMITTING")
    BY <1>2, <2>1, NewOrderIs
  <2>6. /\ r \in Flows /\ r.rows = {} /\ r.id = Len(orders) + 1
        /\ r.pc = (IF NeedsApproval(Head(flow[f].jobs)) THEN "submit" ELSE "post")
    BY <1>1, <1>2, <1>4, <2>3 DEF Flows, FlowPcs
  <2>7. /\ orders' \in Seq(Rows) /\ orders'[Len(orders) + 1] = o
        /\ Len(orders) + 1 \notin DOMAIN orders /\ Len(orders) + 1 \in DOMAIN orders'
        /\ \A i \in DOMAIN orders : i \in DOMAIN orders' /\ orders'[i] = orders[i]
        /\ \A i \in DOMAIN orders' : i \in DOMAIN orders \/ i = Len(orders) + 1
    BY <1>4, <2>2, <2>5, AppendIs
  <2>8. FlowInv(f, r, orders')
    <3>1. r.pc \in Pcs(f) /\ ~Settles(r) /\ r.pc \notin {"idle", "pass"} /\ r.pc \in {"submit", "post"}
      BY <1>1, <2>6 DEF Pcs, Settles, Flow, Run
    <3>2. PostInv(r, orders')  BY <2>5, <2>6, <2>7 DEF PostInv
    <3> QED  BY <2>6, <3>1, <3>2 DEF FlowInv, PcInv, ListInv, FillInv, RestoreInv, Told
  <2>9. Advance(f)
    <3>1. ASSUME NEW i \in DOMAIN orders PROVE Grows(orders[i], orders'[i]) /\ orders'[i] = orders[i]
      <4>1. orders[i] \in Rows /\ orders'[i] = orders[i]  BY <1>4, <2>7
      <4> QED  BY <4>1, FollowsSelf DEF Grows
    <3> QED  BY <2>7, <3>1 DEF Advance
  <2>10. FlowsOK' /\ flow' \in [Flow -> Flows]
    <3>1. cron' => flow'["loop"].pc = "idle"
      <4>1. flow \in [Flow -> Flows] /\ "loop" \in Flow  BY DEF ISafe, TypeInv, Flow, Run
      <4>2. cron => flow["loop"].pc = "idle"  BY DEF ISafe, FlowsOK
      <4> QED  BY <1>1, <2>4, <4>1, <4>2 DEF AdmitJob
    <3>2. TypeInv /\ FlowsOK /\ strategy' = strategy  BY DEF ISafe, AdmitJob
    <3>3. r.id \notin DOMAIN orders  BY <2>6, <2>7
    <3> QED  BY <2>4, <2>6, <2>7, <2>8, <2>9, <3>1, <3>2, <3>3, FlowStep
  <2>11. RowsOK'
    <3>1. \A i \in DOMAIN orders : RowOK(orders[i]) /\ orders[i].day \in 1..day  BY DEF ISafe, RowsOK
    <3>2. day \in 1..day /\ day' = day  BY BoundAssumption DEF ISafe, TypeInv, AdmitJob
    <3> QED  BY <2>5, <2>7, <3>1, <3>2 DEF RowsOK, RowOK, Listed, Unsent
  <2>12. OneUnresolved'
    <3>1. \A i \in DOMAIN orders : Unresolved(orders[i]) => orders[i].s.side # o.s.side
      BY <1>6, <2>5 DEF InTheWay, Job
    <3>2. \A i, j \in DOMAIN orders' :
            Unresolved(orders'[i]) /\ Unresolved(orders'[j]) /\ orders'[i].s.side = orders'[j].s.side => i = j
      BY <2>7, <3>1 DEF ISafe, OneUnresolved
    <3> QED  BY <3>2 DEF OneUnresolved, Unresolved
  <2>13. SalesCovered'
    <3>1. \A i \in DOMAIN orders' : orders'[i].live /\ orders'[i].s.side = "SELL" =>
            i \in Working("SELL") /\ orders'[i] = orders[i]
      BY <2>5, <2>7 DEF Working
    <3>2. \A i \in DOMAIN orders' : orders'[i].live /\ orders'[i].s.side = "SELL" =>
            Remaining(orders'[i]) <= account.qty
      BY <3>1 DEF ISafe, SalesCovered
    <3> QED  BY <3>2 DEF SalesCovered, Working, Remaining, AdmitJob
  <2>14. TypeInv'
    <3>1. Rows' = Rows /\ Flows' = Flows  BY SameTypes DEF AdmitJob
    <3> QED  BY <1>3, <2>7, <2>10, <3>1 DEF ISafe, TypeInv, AdmitJob
  <2> QED  BY <2>10, <2>11, <2>12, <2>13, <2>14 DEF ISafe
<1> QED  BY <1>5, <1>6

LEMMA NextMinuteKeeps == ASSUME ISafe, NextMinute PROVE ISafe'
<1>1. (ClockOK /\ StoresOK)'
  <2>1. minute' \in 1..(Len(Timetable) + 1)
    <3>1. Len(Timetable) \in Nat  BY TimetableAssumption
    <3>2. minute \in 1..(Len(Timetable) + 1) /\ minute <= Len(Timetable) /\ minute' = minute + 1
      BY DEF ISafe, TypeInv, ClockOK, NextMinute, Open
    <3> QED  BY <3>1, <3>2
  <2>2. cron' \in BOOLEAN /\ market' \in View  BY DEF NextMinute
  <2> QED  BY <2>1, <2>2, WatchIs DEF ISafe, TypeInv, ClockOK, StoresOK, NextMinute
<1>2. /\ orders' = orders /\ account' = account /\ flow' = flow /\ strategy' = strategy /\ day' = day
      /\ cron' => flow["loop"].pc = "idle"
  BY DEF NextMinute
<1>3. account \in Account /\ orders \in Seq(Rows) /\ day \in 1..MaxDay /\ day <= day
  BY BoundAssumption DEF ISafe, TypeInv, Account
<1>4. ASSUME NEW i \in DOMAIN orders
      PROVE  /\ Replaces(orders[i], orders[i])
             /\ orders[i].live /\ orders[i].s.side = "SELL" => Remaining(orders[i]) <= account.qty
  BY SameReplaces DEF ISafe, SalesCovered, Working
<1> QED  BY <1>1, <1>2, <1>3, <1>4, OutsideStep

LEMMA NextDayKeeps == ASSUME ISafe, NextDay PROVE ISafe'
<1>1. (ClockOK /\ StoresOK)'
  <2>1. market.price \in Nat  BY MarketIs DEF ISafe, TypeInv
  <2>2. 1 \in 1..(Len(Timetable) + 1)
    <3>1. Len(Timetable) \in Nat  BY TimetableAssumption
    <3> QED  BY <3>1
  <2> QED  BY <2>1, <2>2, WatchIs DEF ISafe, TypeInv, ClockOK, StoresOK, NextDay
<1>2. orders \in Seq(Rows) /\ DOMAIN orders = 1..Len(orders)  BY DEF ISafe, TypeInv
<1>3. /\ DOMAIN orders' = DOMAIN orders
      /\ \A i \in DOMAIN orders : orders'[i] = [orders[i] EXCEPT !.live = FALSE]
  BY DEF NextDay
<1>4. ASSUME NEW i \in DOMAIN orders
      PROVE  Replaces(orders'[i], orders[i]) /\ orders'[i].status = orders[i].status /\ ~orders'[i].live
             /\ orders'[i] \in Rows
  <2>1. orders[i] \in Rows /\ RowOK(orders[i])  BY OrderIs
  <2> QED  BY <1>3, <2>1, DeadIs DEF Replaces
<1>5. orders' \in Seq(Rows)
  <2>1. orders' = [i \in 1..Len(orders) |-> orders'[i]]  BY <1>2 DEF NextDay
  <2> QED  BY <1>2, <1>4, <2>1
<1>6. day' \in 1..MaxDay /\ day <= day'
  BY BoundAssumption DEF ISafe, TypeInv, NextDay
<1>7. /\ strategy' = strategy /\ UNCHANGED flow /\ flow["loop"].pc = "idle" /\ account' \in Account
  BY DEF NextDay, Flow, Run, ISafe, TypeInv, Account
<1> QED  BY <1>1, <1>3, <1>4, <1>5, <1>6, <1>7, OutsideStep

-----------------------------------------------------------------------------
LEMMA InitKeeps == ASSUME Init PROVE ISafe
<1>1. PICK seed \in Seed : /\ stock = [quota |-> seed.quota, rules |-> NoParams, v4 |-> SeedLedger(seed)]
                           /\ account = [qty |-> seed.qty, avg |-> seed.avg, cash |-> seed.cash]
                           /\ position = [qty |-> seed.qty, avg |-> seed.avg, mark |-> seed.avg]
  BY DEF Init
<1>2. /\ seed.quota \in Nat \ {0} /\ seed.qty \in Nat /\ seed.avg \in Nat /\ seed.cash \in Nat
      /\ Cycles \in Nat \ {0}
  BY SeedAssumption
<1>3. SeedLedger(seed) \in Ledgers
  <2>1. seed.qty * seed.avg \in Nat  BY <1>2
  <2>2. seed.qty * seed.avg * Grain * Cycles \in Nat  BY <1>2, <2>1 DEF Grain
  <2>3. (seed.qty * seed.avg * Grain * Cycles) \div seed.quota \in Nat  BY <1>2, <2>2, DivBound
  <2>4. Rest(seed.quota, seed.qty * seed.avg) \in Nat  BY <1>2, <2>1 DEF Rest
  <2> QED  BY <1>2, <2>3, <2>4 DEF SeedLedger, Ledgers, Modes
<1>4. NoParams \in Params  BY NoDayAssumption DEF NoParams, Params, NoPlan, Plans
<1>5. stock \in Stocks /\ position \in Holding /\ account \in [qty : Nat, avg : Nat, cash : Nat]
  <2> HIDE DEF SeedLedger
  <2> QED  BY <1>1, <1>2, <1>3, <1>4 DEF Stocks, Holding
<1>6. audit \in Audits
  <2>1. stock.v4.cash - stock.quota \in Int /\ (account.qty > 0) \in BOOLEAN
    BY <1>5 DEF Stocks, Ledgers
  <2>2. PICK nothing \in Audits :
          audit = [nothing EXCEPT !.seeded = stock.v4.cash - stock.quota, !.mixed = account.qty > 0]
    <3>1. NothingYet \in Audits  BY DEF NothingYet, Audits
    <3> HIDE DEF NothingYet
    <3> QED  BY <3>1 DEF Init
  <2> QED  BY <2>1, <2>2 DEF Audits
<1>7. ClockOK
  <2>1. Len(Timetable) \in Nat  BY TimetableAssumption
  <2>2. 1 \in 1..(Len(Timetable) + 1)  BY <2>1
  <2> QED  BY <2>2 DEF Init, ClockOK
<1>8. orders = <<>> /\ orders \in Seq(Rows) /\ DOMAIN orders = {}  BY DEF Init
<1>9. flow \in [Flow -> Flows] /\ \A f \in Flow : flow[f] = IdleFlow  BY IdleIs DEF Init
<1>10. TypeInv  BY <1>5, <1>6, <1>7, <1>8, <1>9, BoundAssumption DEF Init, TypeInv, StoresOK
<1>11. \A f \in Flow : FlowInv(f, IdleFlow, orders)
  BY IdleIs, PlainFlow DEF Pcs, Settles
<1>12. FlowsOK
  <2>1. "loop" \in Flow  BY DEF Flow, Run
  <2> QED  BY <1>9, <1>11, <2>1, IdleIs DEF FlowsOK
<1> QED  BY <1>8, <1>10, <1>12 DEF ISafe, RowsOK, OneUnresolved, SalesCovered, Working

LEMMA LoopKeeps == ASSUME ISafe, NEW f \in Flow, Loop(f) PROVE ISafe'
BY ReadRiskKeeps, ReadBalanceKeeps, WritePositionsKeeps, ReadPositionsKeeps, ListKeeps,
   SettleListedKeeps, SettleAbsentKeeps, EndPassKeeps, ReadUnfilledKeeps, CancelUnfilledKeeps,
   EvaluateRulesKeeps, EvaluateV4Keeps, EvaluationFailsKeeps, DropJobKeeps, AdmitJobKeeps,
   PostKeeps, EndSubmitKeeps, FetchKeeps, StoreFillKeeps, StoreRestoreKeeps, StoreCarryKeeps,
   StoreResetKeeps, StoreModeKeeps, StoreQuotaKeeps DEF Loop

LEMMA StutterKeeps == ASSUME ISafe, UNCHANGED vars PROVE ISafe'
<1>1. (ClockOK /\ StoresOK)'  BY DEF ISafe, TypeInv, ClockOK, StoresOK, vars
<1>2. account \in Account /\ orders \in Seq(Rows) /\ day \in 1..MaxDay /\ day <= day
  BY BoundAssumption DEF ISafe, TypeInv, Account
<1>3. ASSUME NEW i \in DOMAIN orders
      PROVE  /\ Replaces(orders[i], orders[i])
             /\ orders[i].live /\ orders[i].s.side = "SELL" => Remaining(orders[i]) <= account.qty
  BY SameReplaces DEF ISafe, SalesCovered, Working
<1>4. cron' => flow["loop"].pc = "idle"  BY DEF ISafe, FlowsOK, vars
<1>5. /\ orders' = orders /\ account' = account /\ flow' = flow /\ strategy' = strategy /\ day' = day
  BY DEF vars
<1> QED  BY <1>1, <1>2, <1>3, <1>4, <1>5, OutsideStep

LEMMA NextKeeps == ASSUME ISafe, [Next]_vars PROVE ISafe'
BY StartLoopKeeps, StartSyncKeeps, StartManualKeeps, GuardManualKeeps, StartEditKeeps, LoopKeeps,
   SaveSnapshotKeeps, ApproveKeeps, DeclineKeeps, FillKeeps, FillAtCloseKeeps, DieKeeps,
   NextMinuteKeeps, NextDayKeeps, StutterKeeps DEF Next

\* The rows are as TypeInv says, and no step loses what the others rely on.
THEOREM LiveTradingSafe == Spec => []ISafe
<1>1. Init => ISafe  BY InitKeeps
<1>2. ISafe /\ [Next]_vars => ISafe'  BY NextKeeps
<1> QED  BY <1>1, <1>2, PTL DEF Spec

LEMMA SafeTypes == ASSUME ISafe PROVE TypeOK
<1>1. ASSUME NEW i \in DOMAIN orders
      PROVE  /\ orders[i].status \in Status
             /\ orders[i].told <= orders[i].filled /\ orders[i].filled <= orders[i].s.qty
  <2>1. orders[i] \in Rows /\ RowOK(orders[i])  BY OrderIs
  <2> QED  BY <2>1 DEF Rows, RowOK
<1>2. \A f \in Flow : flow[f].pc \in FlowPcs
  <2>1. \A f \in Flow : flow[f] \in Flows  BY FlowIs
  <2> QED  BY <2>1 DEF Flows
<1> QED  BY <1>1, <1>2 DEF ISafe, TypeInv, ClockOK, StoresOK, Stocks, Holding, TypeOK

\* TypeOK of LiveTrading: a settled quantity is never more than what the
\* broker filled, in any interleaving of loop, sync, manual run and user.
THEOREM LiveTradingTyped == Spec => []TypeOK
<1>1. ISafe => TypeOK  BY SafeTypes
<1> QED  BY <1>1, LiveTradingSafe, PTL


-----------------------------------------------------------------------------
(* Entries.  Possible: the order was executed or still may be.  A run that  *)
(* has a purchase to submit, or a manual run whose guard passed, has found  *)
(* no entry of the day; the due minute of daily-dca lies ahead (Ahead) as   *)
(* long as today's evaluation is to come.                                   *)
Possible(o)   == Unresolved(o) \/ o.filled > 0
BuyToday(o)   == o.s.side = "BUY" /\ o.day = day
NoBuyToday    == \A i \in DOMAIN orders : ~BuyToday(orders[i])
NoEntryToday  == \A i \in DOMAIN orders : ~(BuyToday(orders[i]) /\ Possible(orders[i]))
Buying(r)     == \E k \in DOMAIN r.jobs : r.jobs[k].side = "BUY"
OneBuy        == \A i, j \in DOMAIN orders :
                   /\ orders[i].s.side = "BUY" /\ orders[j].s.side = "BUY"
                   /\ orders[i].day = orders[j].day /\ Possible(orders[i]) /\ Possible(orders[j])
                   => i = j
Checked       == {"risk", "balance", "upsert", "positions", "evaluate"}

Momentum ==
  strategy = "momentum-breakout" /\ ~audit.overlap =>
    /\ \E f \in Run : flow[f].pc = "idle"
    /\ \A f \in Run : Len(flow[f].jobs) <= 1 /\ (Buying(flow[f]) => NoEntryToday)
    /\ flow["manual"].pc \in Checked => NoEntryToday
    /\ OneBuy

Early(r) == \/ r.pc \in {"risk", "positions", "list", "pass", "unfilled"}
            \/ Settles(r) /\ r.why \in {"fill", "restore"}
Late(r)  == r.pc \notin {"idle", "snapshot"} /\ ~Early(r)
Ahead    == \A m \in DOMAIN Timetable : Timetable[m] = "target" =>
              minute < m \/ (minute = m /\ (cron \/ Early(flow["loop"])))

Dca ==
  strategy = "daily-dca" /\ count.manual = 0 =>
    /\ flow["manual"].pc = "idle"
    /\ Len(flow["loop"].jobs) <= 1
    /\ Late(flow["loop"]) => ~Ahead
    /\ Ahead \/ flow["loop"].pc \in {"cancel", "evaluate"} \/ Buying(flow["loop"]) => NoBuyToday
    /\ OneBuy

\* No order is added, and none comes back.
QuietRows == /\ DOMAIN orders' = DOMAIN orders
             /\ \A i \in DOMAIN orders :
                  /\ orders'[i].s.side = orders[i].s.side /\ orders'[i].day = orders[i].day
                  /\ Possible(orders'[i]) => Possible(orders[i])

LEMMA QuietOneBuy == ASSUME QuietRows, OneBuy PROVE OneBuy'
<1>1. \A i \in DOMAIN orders' : /\ i \in DOMAIN orders
                                /\ orders'[i].s.side = orders[i].s.side /\ orders'[i].day = orders[i].day
                                /\ Possible(orders[i])' => Possible(orders[i])
  BY DEF QuietRows, Possible, Unresolved
<1> QED  BY <1>1 DEF OneBuy

LEMMA QuietMeans ==
  ASSUME QuietRows, UNCHANGED day
  PROVE  (NoBuyToday => NoBuyToday') /\ (NoEntryToday => NoEntryToday') /\ (OneBuy => OneBuy')
<1>1. \A i \in DOMAIN orders' : /\ i \in DOMAIN orders
                                /\ orders'[i].s.side = orders[i].s.side /\ orders'[i].day = orders[i].day
                                /\ Possible(orders[i])' => Possible(orders[i])
  BY DEF QuietRows, Possible, Unresolved
<1>2. NoBuyToday => NoBuyToday'  BY <1>1 DEF NoBuyToday, BuyToday
<1>3. NoEntryToday => NoEntryToday'  BY <1>1 DEF NoEntryToday, BuyToday
<1> QED  BY <1>2, <1>3, QuietOneBuy


LEMMA SameRowsQuiet == ASSUME UNCHANGED orders PROVE QuietRows
BY DEF QuietRows, Possible, Unresolved

\* A step that keeps the number of orders and looks at each of them.
LEMMA QuietRow ==
  ASSUME orders \in Seq(Rows), NEW i \in DOMAIN orders, NEW p, orders' = [orders EXCEPT ![i] = p],
         p.s.side = orders[i].s.side, p.day = orders[i].day, Possible(p) => Possible(orders[i])
  PROVE  QuietRows
BY DEF QuietRows

LEMMA RowKinds ==
  ASSUME ISafe, NEW i \in DOMAIN orders
  PROVE  /\ orders[i] \in Rows /\ orders[i].s \in Jobs /\ orders \in Seq(Rows)
         /\ orders[i].live => Unresolved(orders[i])
         /\ orders[i].status \in {"AWAITING", "SUBMITTING"} => Possible(orders[i])
<1>1. orders[i] \in Rows /\ orders \in Seq(Rows)  BY OrderIs DEF ISafe, TypeInv
<1> QED  BY <1>1, OrderIs DEF Rows, Possible, Unresolved

LEMMA SettleListedQuiet == ASSUME ISafe, NEW f \in Flow, SettleListed(f) PROVE QuietRows
<1>1. CASE UNCHANGED orders  BY <1>1, SameRowsQuiet
<1>2. CASE ~UNCHANGED orders
  <2>1. PICK i : i = Row(f)  OBVIOUS
  <2>2. /\ i \in DOMAIN orders /\ Listing(f)[i] = Current(flow[f]) /\ Listed(Current(flow[f]))
        /\ orders[i] \in Rows /\ orders \in Seq(Rows)
    BY <2>1, PassIs, RowKinds DEF SettleListed
  <2>3. PICK p : /\ orders' = [orders EXCEPT ![i] = p] /\ SameRow(f)
                 /\ p.s.side = orders[i].s.side /\ p.day = orders[i].day
    <3> DEFINE l == Listing(f)[Row(f)]
               o == [orders[Row(f)] EXCEPT
                      !.status = IF l.filled >= l.s.qty THEN "FILLED" ELSE IF l.filled > 0 THEN "PARTIAL" ELSE @,
                      !.known = ~(l.filled \in 1..(l.s.qty - 1) /\ ~l.live),
                      !.told = @ + Rest(l.filled, l.told)]
    <3>1. orders' = [orders EXCEPT ![i] = o] /\ SameRow(f)  BY <1>2, <2>1 DEF SettleListed
    <3>2. o.s = orders[i].s /\ o.day = orders[i].day  BY <2>1, <2>2 DEF Rows
    <3> HIDE DEF o
    <3> QED  BY <3>1, <3>2
  <2>4. Unresolved(orders[i])
    BY <2>1, <2>2, <2>3 DEF SameRow, Listed, Unresolved
  <2> QED  BY <2>2, <2>3, <2>4, QuietRow DEF Possible
<1> QED  BY <1>1, <1>2

LEMMA SettleAbsentQuiet == ASSUME ISafe, NEW f \in Flow, SettleAbsent(f) PROVE QuietRows
<1>1. CASE UNCHANGED orders  BY <1>1, SameRowsQuiet
<1>2. CASE ~UNCHANGED orders
  <2>1. PICK i : i = Row(f)  OBVIOUS
  <2>2. /\ i \in DOMAIN orders /\ Listing(f)[i] = Current(flow[f]) /\ Listed(Current(flow[f]))
        /\ orders[i] \in Rows /\ orders \in Seq(Rows)
    BY <2>1, PassIs, RowKinds DEF SettleAbsent
  <2>3. PICK p : p = [orders[i] EXCEPT !.status = "CANCELLED"]  OBVIOUS
  <2>4. orders' = [orders EXCEPT ![i] = p] /\ SameRow(f)
    BY <1>2, <2>1, <2>2, <2>3 DEF SettleAbsent
  <2>5. p.s = orders[i].s /\ p.day = orders[i].day  BY <2>2, <2>3 DEF Rows
  <2>6. Unresolved(orders[i])
    BY <2>1, <2>2, <2>4 DEF SameRow, Listed, Unresolved
  <2> QED  BY <2>2, <2>4, <2>5, <2>6, QuietRow DEF Possible
<1> QED  BY <1>1, <1>2

LEMMA DeadQuiet ==
  ASSUME ISafe, NEW os, orders' = os, DOMAIN os = DOMAIN orders,
         \A i \in DOMAIN orders : os[i] \in {orders[i], [orders[i] EXCEPT !.live = FALSE]}
  PROVE  QuietRows
<1>1. ASSUME NEW i \in DOMAIN orders
      PROVE  /\ os[i].s = orders[i].s /\ os[i].day = orders[i].day
             /\ Possible(os[i]) => Possible(orders[i])
  <2>1. orders[i] \in Rows  BY RowKinds
  <2>2. /\ os[i].s = orders[i].s /\ os[i].day = orders[i].day /\ os[i].status = orders[i].status
        /\ os[i].known = orders[i].known /\ os[i].filled = orders[i].filled
    BY <2>1 DEF Rows
  <2> QED  BY <2>2 DEF Possible, Unresolved
<1> QED  BY <1>1 DEF QuietRows

LEMMA CancelUnfilledQuiet == ASSUME ISafe, NEW f \in Flow, CancelUnfilled(f) PROVE QuietRows
<1>1. PICK os : orders' = os /\ os = [i \in DOMAIN orders |->
        IF i \in flow[f].open THEN [orders[i] EXCEPT !.live = FALSE] ELSE orders[i]]
  BY DEF CancelUnfilled
<1>2. /\ DOMAIN os = DOMAIN orders
      /\ \A i \in DOMAIN orders : os[i] \in {orders[i], [orders[i] EXCEPT !.live = FALSE]}
  BY <1>1
<1> QED  BY <1>1, <1>2, DeadQuiet

LEMMA NextDayQuiet == ASSUME ISafe, NextDay PROVE QuietRows
<1>1. PICK os : orders' = os /\ os = [i \in DOMAIN orders |-> [orders[i] EXCEPT !.live = FALSE]]
  BY DEF NextDay
<1>2. /\ DOMAIN os = DOMAIN orders
      /\ \A i \in DOMAIN orders : os[i] \in {orders[i], [orders[i] EXCEPT !.live = FALSE]}
  BY <1>1
<1> QED  BY <1>1, <1>2, DeadQuiet

LEMMA PostQuiet == ASSUME ISafe, NEW f \in Flow, Post(f) PROVE QuietRows
<1>1. PICK i : i = flow[f].id  OBVIOUS
<1>2. i \in DOMAIN orders /\ orders[i].status = "SUBMITTING"
  BY <1>1, FlowIs DEF Post, FlowInv, PostInv
<1>3. PICK outcome \in {"PENDING", "FAILED", "CANCELLED"} :
        orders' = [orders EXCEPT ![i] = IF outcome = "PENDING" THEN Sent(orders[i])
                                        ELSE [orders[i] EXCEPT !.status = outcome]]
  BY <1>1, <1>2 DEF Post
<1>4. PICK p : p = IF outcome = "PENDING" THEN Sent(orders[i]) ELSE [orders[i] EXCEPT !.status = outcome]
  OBVIOUS
<1>5. orders[i] \in Rows /\ orders \in Seq(Rows) /\ Possible(orders[i])  BY <1>2, RowKinds
<1>6. p.s = orders[i].s /\ p.day = orders[i].day  BY <1>4, <1>5 DEF Sent, Rows
<1> QED  BY <1>2, <1>3, <1>4, <1>5, <1>6, QuietRow

LEMMA ApproveQuiet == ASSUME ISafe, NEW i \in DOMAIN orders, Approve(i) PROVE QuietRows
<1>0. PICK s : s = [orders[i].s EXCEPT !.qty = Least(@, account.qty)]  OBVIOUS
<1>1. PICK outcome \in {"PENDING", "FAILED", "CANCELLED"} :
        orders' = [orders EXCEPT ![i] = IF outcome = "PENDING"
                     THEN Sent([orders[i] EXCEPT !.s = IF account.qty = 0 THEN orders[i].s ELSE s])
                     ELSE [orders[i] EXCEPT !.status = outcome]]
  BY <1>0, RowKinds DEF Approve
<1>3. PICK p : p = IF outcome = "PENDING"
                   THEN Sent([orders[i] EXCEPT !.s = IF account.qty = 0 THEN orders[i].s ELSE s])
                   ELSE [orders[i] EXCEPT !.status = outcome]
  OBVIOUS
<1>2. orders[i] \in Rows /\ orders[i].s \in Jobs /\ orders \in Seq(Rows) /\ Possible(orders[i])
  BY RowKinds DEF Approve
<1>4. s.side = orders[i].s.side
  <2>1. orders[i].s \in Signals \/ orders[i].s \in V4Signals  BY <1>2, JobIs
  <2> QED  BY <1>0, <2>1 DEF Signals, V4Signals
<1>5. p.s.side = orders[i].s.side /\ p.day = orders[i].day
  <2> HIDE DEF Least
  <2> QED  BY <1>2, <1>3, <1>4 DEF Sent, Rows
<1> QED  BY <1>1, <1>2, <1>3, <1>5, QuietRow

LEMMA DeclineQuiet == ASSUME ISafe, NEW i \in DOMAIN orders, Decline(i) PROVE QuietRows
<1>1. orders[i] \in Rows /\ orders \in Seq(Rows) /\ Possible(orders[i])  BY RowKinds DEF Decline
<1>2. PICK p : p = [orders[i] EXCEPT !.status = "CANCELLED"]  OBVIOUS
<1>3. orders' = [orders EXCEPT ![i] = p]  BY <1>1, <1>2 DEF Decline
<1>4. p.s = orders[i].s /\ p.day = orders[i].day  BY <1>1, <1>2 DEF Rows
<1> QED  BY <1>1, <1>3, <1>4, QuietRow

LEMMA DieQuiet == ASSUME ISafe, NEW i \in DOMAIN orders, Die(i) PROVE QuietRows
<1>1. orders[i] \in Rows /\ orders \in Seq(Rows) /\ Possible(orders[i])
  BY RowKinds DEF Die, Possible
<1>2. PICK p : p = [orders[i] EXCEPT !.live = FALSE]  OBVIOUS
<1>3. orders' = [orders EXCEPT ![i] = p]  BY <1>1, <1>2 DEF Die
<1>4. p.s = orders[i].s /\ p.day = orders[i].day  BY <1>1, <1>2 DEF Rows
<1> QED  BY <1>1, <1>3, <1>4, QuietRow

LEMMA TradeQuiet ==
  ASSUME ISafe, NEW i \in DOMAIN orders, orders[i].live, NEW n, NEW price, Trade(i, n, price)
  PROVE  QuietRows
<1>1. orders[i] \in Rows /\ orders \in Seq(Rows) /\ Possible(orders[i])  BY RowKinds DEF Possible
<1>2. PICK p : p = [orders[i] EXCEPT !.filled = @ + n, !.amount = @ + n * price,
                                     !.live = n < Remaining(orders[i])]
  OBVIOUS
<1>3. orders' = [orders EXCEPT ![i] = p]  BY <1>1, <1>2 DEF Trade
<1>4. p.s = orders[i].s /\ p.day = orders[i].day  BY <1>1, <1>2 DEF Rows
<1> QED  BY <1>1, <1>3, <1>4, QuietRow

LEMMA BrokerQuiet ==
  ASSUME ISafe, NEW i \in DOMAIN orders,
         Approve(i) \/ Decline(i) \/ Fill(i) \/ FillAtClose(i) \/ Die(i)
  PROVE  QuietRows
BY ApproveQuiet, DeclineQuiet, DieQuiet, TradeQuiet DEF Fill, FillAtClose, InAuction


-----------------------------------------------------------------------------
\* What the strategies that enter once a day signal.
LEMMA MomentumSignals ==
  ASSUME NEW c
  PROVE  /\ Len(MomentumBreakout(c)) <= 1
         /\ \A k \in DOMAIN MomentumBreakout(c) : MomentumBreakout(c)[k].side = "BUY" => MomentumMayEnter(c)
<1> DEFINE sales == {<<>>} \cup {SellAtMarket(c, phase) : phase \in Phases}
<1>1. MomentumExit(c) \in sales
  <2>1. /\ SellAtMarket(c, "risk-liquidation") \in sales /\ SellAtMarket(c, "carryover-exit") \in sales
        /\ SellAtMarket(c, "eod-exit") \in sales /\ SellAtMarket(c, "intraday-stop") \in sales
        /\ SellAtMarket(c, "trailing-stop") \in sales /\ <<>> \in sales
    BY DEF Phases
  <2> HIDE DEF sales
  <2> QED  BY <2>1, FirstRuleIn, SMT DEF MomentumExit, Rule
<1>2. ASSUME NEW s \in sales PROVE Len(s) <= 1 /\ \A k \in DOMAIN s : s[k].side = "SELL"
  <2>1. CASE s = <<>>  BY <2>1
  <2>2. ASSUME NEW phase \in Phases, s = SellAtMarket(c, phase)
        PROVE  Len(s) <= 1 /\ \A k \in DOMAIN s : s[k].side = "SELL"
    <3>1. PICK sale : sale = Sell(c.qty, 0, phase)  OBVIOUS
    <3>2. s = <<sale>> /\ sale.side = "SELL"  BY <2>2, <3>1 DEF SellAtMarket, Sell
    <3>3. DOMAIN s = 1..1 /\ s[1] = sale /\ Len(s) = 1  BY <3>2
    <3> QED  BY <3>2, <3>3
  <2> QED  BY <2>1, <2>2
<1> HIDE DEF sales
<1>3. CASE Holds(c)  BY <1>1, <1>2, <1>3 DEF MomentumBreakout
<1>4. CASE ~Holds(c)
  <2>1. Len(<<>>) <= 1 /\ DOMAIN <<>> = {}  OBVIOUS
  <2>2. \A s : Len(<<s>>) <= 1  OBVIOUS
  <2> QED  BY <1>4, <2>1, <2>2 DEF MomentumBreakout
<1> QED  BY <1>3, <1>4

LEMMA DcaSignals == ASSUME NEW c PROVE Len(DailyDca(c)) <= 1
<1> DEFINE buy == BuyFor(DcaBudget(c), c, "none", 0)
           S == {<<>>, SellAll(c, "stop"), SellAll(c, "none"), buy}
<1>1. DailyDca(c) \in S
  <2> HIDE DEF buy
  <2>1. SellAll(c, "stop") \in S /\ SellAll(c, "none") \in S /\ buy \in S /\ <<>> \in S  OBVIOUS
  <2> HIDE DEF S
  <2> DEFINE rules == << Rule(DcaForced(c), SellAll(c, "stop")),
                         Rule(Price(c) > 0 /\ ~c.done /\ Holds(c) /\ GainOf(c, 10), SellAll(c, "none")),
                         Rule(DcaBuys(c), buy) >>
  <2>2. DOMAIN rules = 1..3 /\ rules[1].then \in S /\ rules[2].then \in S /\ rules[3].then \in S
    BY <2>1 DEF Rule
  <2>3. DailyDca(c) = FirstRule(rules)  BY DEF DailyDca, buy
  <2> HIDE DEF rules
  <2> QED  BY <2>1, <2>2, <2>3, FirstRuleIn
<1>2. Len(<<>>) <= 1 /\ Len(SellAll(c, "stop")) <= 1 /\ Len(SellAll(c, "none")) <= 1  BY DEF SellAll
<1>3. Len(buy) <= 1  BY DEF BuyFor
<1> HIDE DEF buy
<1> QED  BY <1>1, <1>2, <1>3

LEMMA ExecutableOf ==
  ASSUME NEW S, NEW signals \in Seq(S)
  PROVE  \A k \in DOMAIN Executable(signals) : \E i \in DOMAIN signals : Executable(signals)[k] = signals[i]
<1> DEFINE blocked(s) == /\ s.side = "BUY" /\ s.price > 0
                         /\ \E i \in DOMAIN signals : /\ signals[i].side = "SELL" /\ signals[i].price > 0
                                                      /\ signals[i].price <= s.price
<1>1. PICK places : places = {i \in DOMAIN signals : ~blocked(signals[i])}  OBVIOUS
<1>2. Executable(signals) = At(signals, places)  BY <1>1 DEF Executable
<1>3. places \subseteq DOMAIN signals  BY <1>1
<1> QED  BY <1>2, <1>3, AtIs

LEMMA EntersOnce ==
  ASSUME ISafe, NEW f \in Flow, strategy \in {"momentum-breakout", "daily-dca"}
  PROVE  /\ Len(Executable(Evaluate(Context(f)))) <= 1
         /\ strategy = "momentum-breakout" =>
              \A k \in DOMAIN Executable(Evaluate(Context(f))) :
                Executable(Evaluate(Context(f)))[k].side = "BUY" => MomentumMayEnter(Context(f))
<1>1. PICK c : c = Context(f)  OBVIOUS
<1>2. c.strategy = strategy  BY <1>1, ContextIs
<1>3. PICK signals : signals = Evaluate(c)  OBVIOUS
<1>4. signals \in Seq(Jobs)  BY <1>1, <1>3, SignalsAreJobs
<1>5. /\ Len(signals) <= 1
      /\ strategy = "momentum-breakout" => \A k \in DOMAIN signals : signals[k].side = "BUY" => MomentumMayEnter(c)
  <2>1. CASE strategy = "momentum-breakout"
    <3>1. signals = MomentumBreakout(c)  BY <1>2, <1>3, <2>1 DEF Evaluate
    <3> QED  BY <3>1, MomentumSignals
  <2>2. CASE strategy = "daily-dca"
    <3>1. signals = DailyDca(c)  BY <1>2, <1>3, <2>2 DEF Evaluate
    <3> QED  BY <2>2, <3>1, DcaSignals
  <2> QED  BY <2>1, <2>2
<1>6. Len(Executable(signals)) <= 1
  <2>1. Len(signals) \in Nat /\ Executable(signals) \in Seq(Jobs) /\ Len(Executable(signals)) <= Len(signals)
    BY <1>4, ExecutableIs
  <2>2. Len(Executable(signals)) \in Nat  BY <2>1
  <2> QED  BY <1>5, <2>1, <2>2
<1>7. \A k \in DOMAIN Executable(signals) : \E i \in DOMAIN signals : Executable(signals)[k] = signals[i]
  BY <1>4, ExecutableOf
<1> QED  BY <1>1, <1>3, <1>5, <1>6, <1>7

-----------------------------------------------------------------------------
\* Every step records whether the runs overlap.
Heeds == audit'.overlap <=> audit.overlap \/ Overlapping

LEMMA WatchHeeds == ASSUME ISafe, Watch PROVE Heeds
<1>1. audit \in Audits  BY DEF ISafe, TypeInv, StoresOK
<1> QED  BY <1>1 DEF Watch, Heeds, Audits

LEMMA StoreHeeds ==
  ASSUME ISafe, NEW f, NEW new, NEW aside, NEW short, Store(f, new, aside, short)
  PROVE  Heeds
<1>1. audit \in Audits  BY DEF ISafe, TypeInv, StoresOK
<1> QED  BY <1>1 DEF Store, Heeds, Audits

LEMMA CarryHeeds == ASSUME ISafe, NEW f, NEW invested, Carry(f, invested) PROVE Heeds
BY WatchHeeds, StoreHeeds DEF Carry, StoreColumn

LEMMA TradeHeeds == ASSUME ISafe, NEW i, NEW n, NEW price, Trade(i, n, price) PROVE Heeds
<1>1. audit \in Audits  BY DEF ISafe, TypeInv, StoresOK
<1> QED  BY <1>1 DEF Trade, Heeds, Audits

LEMMA LoopHeeds == ASSUME ISafe, NEW f \in Flow, Loop(f) PROVE Heeds
<1>1. CASE Watch  BY <1>1, WatchHeeds
<1>2. CASE StoreFill(f)  BY <1>2, StoreHeeds DEF StoreFill
<1>3. CASE StoreRestore(f)  BY <1>3, CarryHeeds DEF StoreRestore
<1>4. CASE StoreCarry(f)  BY <1>4, CarryHeeds DEF StoreCarry
<1>5. CASE StoreReset(f)  BY <1>5, StoreHeeds DEF StoreReset, StoreColumn
<1>6. CASE StoreMode(f)  BY <1>6, StoreHeeds DEF StoreMode, StoreColumn
<1>7. CASE StoreQuota(f)  BY <1>7, StoreHeeds, WatchHeeds DEF StoreQuota
<1> QED
  BY <1>1, <1>2, <1>3, <1>4, <1>5, <1>6, <1>7
  DEF Loop, ReadRisk, ReadBalance, WritePositions, ReadPositions, List, SettleListed, SettleAbsent,
      EndPass, ReadUnfilled, CancelUnfilled, EvaluateRules, EvaluateV4, EvaluationFails, DropJob,
      AdmitJob, Post, EndSubmit, Fetch

LEMMA NextHeeds == ASSUME ISafe, [Next]_vars PROVE Heeds \/ UNCHANGED vars
<1>1. ASSUME NEW i \in DOMAIN orders, Approve(i) \/ Decline(i) \/ Fill(i) \/ FillAtClose(i) \/ Die(i)
      PROVE  Heeds
  BY <1>1, WatchHeeds, TradeHeeds DEF Approve, Decline, Fill, FillAtClose, Die
<1>2. CASE StartLoop  BY <1>2, WatchHeeds DEF StartLoop
<1>3. CASE StartSync  BY <1>3, WatchHeeds DEF StartSync
<1>4. CASE StartManual  BY <1>4, WatchHeeds DEF StartManual
<1>5. CASE GuardManual  BY <1>5, WatchHeeds DEF GuardManual
<1>6. CASE StartEdit  BY <1>6, WatchHeeds DEF StartEdit
<1>7. CASE SaveSnapshot  BY <1>7, WatchHeeds DEF SaveSnapshot
<1>8. CASE NextMinute  BY <1>8, WatchHeeds DEF NextMinute
<1>9. CASE NextDay  BY <1>9, WatchHeeds DEF NextDay
<1> QED
  BY <1>1, <1>2, <1>3, <1>4, <1>5, <1>6, <1>7, <1>8, <1>9, LoopHeeds DEF Next


-----------------------------------------------------------------------------
LEMMA LoopClock ==
  ASSUME NEW f, Loop(f)
  PROVE  UNCHANGED <<strategy, day, minute, cron, market, close, account, count>>
<1>1. CASE StoreFill(f) \/ StoreRestore(f) \/ StoreCarry(f) \/ StoreReset(f) \/ StoreMode(f) \/ StoreQuota(f)
  <2>1. ASSUME NEW new, NEW aside, NEW short, Store(f, new, aside, short)
        PROVE  UNCHANGED <<strategy, day, minute, cron, market, close, account, count>>
    BY <2>1 DEF Store
  <2> QED
    BY <1>1, <2>1 DEF StoreFill, StoreRestore, StoreCarry, StoreReset, StoreMode, StoreQuota, Carry, StoreColumn
<1>2. CASE ~(StoreFill(f) \/ StoreRestore(f) \/ StoreCarry(f) \/ StoreReset(f) \/ StoreMode(f) \/ StoreQuota(f))
  BY <1>2 DEF Loop, ReadRisk, ReadBalance, WritePositions, ReadPositions, List, SettleListed, SettleAbsent,
      EndPass, ReadUnfilled, CancelUnfilled, EvaluateRules, EvaluateV4, EvaluationFails, DropJob,
      AdmitJob, Post, EndSubmit, Fetch
<1> QED  BY <1>1, <1>2

LEMMA LoopOrders ==
  ASSUME NEW f, Loop(f), ~SettleListed(f), ~SettleAbsent(f), ~CancelUnfilled(f), ~Post(f),
         ~(AdmitJob(f) /\ InTheWay(Job(f)) = {})
  PROVE  UNCHANGED orders
<1>1. CASE StoreFill(f) \/ StoreRestore(f) \/ StoreCarry(f) \/ StoreReset(f) \/ StoreMode(f) \/ StoreQuota(f)
  <2>1. ASSUME NEW new, NEW aside, NEW short, Store(f, new, aside, short) PROVE UNCHANGED orders
    BY <2>1 DEF Store
  <2> QED
    BY <1>1, <2>1 DEF StoreFill, StoreRestore, StoreCarry, StoreReset, StoreMode, StoreQuota, Carry, StoreColumn
<1>2. CASE ~(StoreFill(f) \/ StoreRestore(f) \/ StoreCarry(f) \/ StoreReset(f) \/ StoreMode(f) \/ StoreQuota(f))
  BY <1>2 DEF Loop, ReadRisk, ReadBalance, WritePositions, ReadPositions, List, EndPass, ReadUnfilled,
      EvaluateRules, EvaluateV4, EvaluationFails, DropJob, AdmitJob, EndSubmit, Fetch
<1> QED  BY <1>1, <1>2

\* What a flow does between the steps that matter for the entries.
Milder(f, r, q) ==
  /\ Len(q.jobs) <= 1 => Len(r.jobs) <= 1
  /\ Buying(r) => Buying(q)
  /\ f = "manual" => (r.pc \in Checked => q.pc \in Checked) /\ (q.pc = "idle" => r.pc = "idle")
  /\ f = "loop" => /\ Early(r) => Early(q)
                   /\ Late(r) => Late(q)
                   /\ r.pc \in {"cancel", "evaluate"} => q.pc \in {"cancel", "evaluate"}

LEMMA MilderJobs ==
  ASSUME NEW q, q.jobs \in Seq(Jobs), NEW r, r.jobs \in {q.jobs, <<>>} \/ (q.jobs # <<>> /\ r.jobs = Tail(q.jobs))
  PROVE  (Len(q.jobs) <= 1 => Len(r.jobs) <= 1) /\ (Buying(r) => Buying(q))
<1>1. CASE r.jobs = q.jobs  BY <1>1 DEF Buying
<1>2. CASE r.jobs = <<>>  BY <1>2 DEF Buying
<1>3. CASE q.jobs # <<>> /\ r.jobs = Tail(q.jobs)
  <2>1. Len(r.jobs) = Len(q.jobs) - 1 /\ Len(q.jobs) \in Nat /\ r.jobs \in Seq(Jobs)  BY <1>3
  <2>2. \A k \in DOMAIN r.jobs : k + 1 \in DOMAIN q.jobs /\ r.jobs[k] = q.jobs[k + 1]  BY <1>3, <2>1
  <2> QED  BY <2>1, <2>2 DEF Buying
<1> QED  BY <1>1, <1>2, <1>3

\* The steps of the loop, by the way they go.
LEMMA MilderStep ==
  ASSUME NEW f, NEW q \in Flows, NEW r,
         r.jobs \in {q.jobs, <<>>} \/ (q.jobs # <<>> /\ r.jobs = Tail(q.jobs)),
         f = "manual" => (r.pc \in Checked => q.pc \in Checked) /\ (q.pc = "idle" => r.pc = "idle"),
         f = "loop" => \/ Early(q) /\ (Early(r) \/ r.pc \in {"idle", "snapshot"})
                       \/ Late(q) /\ (Late(r) \/ r.pc \in {"idle", "snapshot"})
                       \/ r.pc \in {"idle", "snapshot"},
         f = "loop" => (r.pc \in {"cancel", "evaluate"} => q.pc \in {"cancel", "evaluate"})
  PROVE  Milder(f, r, q)
<1>1. q.jobs \in Seq(Jobs)  BY DEF Flows
<1>2. (Len(q.jobs) <= 1 => Len(r.jobs) <= 1) /\ (Buying(r) => Buying(q))  BY <1>1, MilderJobs
<1> HIDE DEF Buying
<1> QED  BY <1>2 DEF Milder, Early, Late, Settles

LEMMA LoopMilder ==
  ASSUME ISafe, NEW f \in Flow, Loop(f), ~ReadUnfilled(f), ~EvaluateRules(f), ~EvaluateV4(f)
  PROVE  \E r : flow' = [flow EXCEPT ![f] = r] /\ Milder(f, r, flow[f])
<1>0. /\ flow[f] \in Flows /\ flow[f].pc \in Pcs(f) /\ IdleFlow.jobs = <<>> /\ IdleFlow.pc = "idle"
      /\ AfterRun(f).jobs = <<>> /\ AfterRun(f).pc \in {"idle", "snapshot"}
      /\ (flow[f].pc \in {"fetch", "store"} => flow[f].why \in Reasons(f)) /\ FlowInv(f, flow[f], orders)
      /\ f = "manual" => AfterRun(f).pc = "idle"
  BY FlowIs, IdleIs, AfterRunIs DEF FlowInv, PcInv, Settles
<1>1. CASE ReadRisk(f) \/ ReadPositions(f)
  <2>1. PICK r : /\ flow' = [flow EXCEPT ![f] = r] /\ flow[f].pc \in {"risk", "positions"}
                 /\ r.jobs = flow[f].jobs /\ r.pc \in {"positions", "balance", "evaluate", "list"}
                 /\ f = "loop" => r.pc \in {"positions", "list"}
    <3>1. CASE ReadRisk(f)
      <4>1. PICK r : r = [flow[f] EXCEPT !.pc = IF f = "loop" THEN "positions" ELSE "balance",
              !.total = Worth(position), !.peak = IF peak > Worth(position) THEN peak ELSE Worth(position)]
        OBVIOUS
      <4>2. flow' = [flow EXCEPT ![f] = r]  BY <3>1, <4>1 DEF ReadRisk
      <4>9. flow[f].pc = "risk" /\ r.jobs = flow[f].jobs /\ r.pc = IF f = "loop" THEN "positions" ELSE "balance"
        BY <1>0, <3>1, <4>1, <4>2 DEF ReadRisk, Flows
      <4> QED  BY <4>2, <4>9
    <3>2. CASE ReadPositions(f)
      <4>1. PICK r : r = [flow[f] EXCEPT !.pc = IF f = "manual" THEN "evaluate" ELSE "list", !.held = position]
        OBVIOUS
      <4>2. flow' = [flow EXCEPT ![f] = r]  BY <3>2, <4>1 DEF ReadPositions
      <4>9. flow[f].pc = "positions" /\ r.jobs = flow[f].jobs /\ r.pc = IF f = "manual" THEN "evaluate" ELSE "list"
        BY <1>0, <3>2, <4>1, <4>2 DEF ReadPositions, Flows
      <4> QED  BY <4>2, <4>9
    <3> QED  BY <1>1, <3>1, <3>2
  <2> QED  BY <1>0, <2>1, MilderStep DEF Checked, Early, Late
<1>2. CASE ReadBalance(f) \/ WritePositions(f)
  <2>1. PICK r : /\ flow' = [flow EXCEPT ![f] = r] /\ flow[f].pc \in {"balance", "upsert"}
                 /\ r.jobs \in {flow[f].jobs, <<>>} /\ r.pc \in {"idle", "upsert", "positions"}
    BY <1>0, <1>2 DEF ReadBalance, WritePositions, Stop, Go, Flows
  <2>2. f # "loop"  BY <1>0, <2>1 DEF Pcs
  <2> QED  BY <1>0, <2>1, <2>2, MilderStep DEF Checked
<1>3. CASE List(f) \/ EndPass(f)
  <2>1. PICK r : /\ flow' = [flow EXCEPT ![f] = r] /\ flow[f].pc \in {"list", "pass"}
                 /\ r.jobs \in {flow[f].jobs, <<>>} /\ r.pc \in {"idle", "pass", "unfilled"}
    BY <1>0, <1>3 DEF List, EndPass, Stop, Flows
  <2>2. f # "manual"  BY <1>0, <2>1 DEF Pcs
  <2> QED  BY <1>0, <2>1, <2>2, MilderStep DEF Checked, Early
<1>4. CASE SettleListed(f) \/ SettleAbsent(f)
  <2>1. PICK r : /\ flow' = [flow EXCEPT ![f] = r] /\ flow[f].pc = "pass"
                 /\ r.jobs = flow[f].jobs /\ r.pc \in {"pass", "fetch"}
                 /\ r.pc = "fetch" => r.why \in {"fill", "restore"}
    BY <1>0, <1>4 DEF SettleListed, SettleAbsent, NextRow, Flows
  <2>2. f # "manual"  BY <1>0, <2>1 DEF Pcs
  <2> QED  BY <1>0, <2>1, <2>2, MilderStep DEF Checked, Early, Settles
<1>5. CASE CancelUnfilled(f) \/ DropJob(f) \/ AdmitJob(f) \/ Post(f)
  <2>1. PICK r : /\ flow' = [flow EXCEPT ![f] = r] /\ flow[f].pc \in {"cancel", "submit", "post"}
                 /\ r.pc \in {"evaluate", "submit", "post"}
                 /\ r.pc = "evaluate" => flow[f].pc = "cancel"
                 /\ r.jobs = flow[f].jobs \/ (flow[f].jobs # <<>> /\ r.jobs = Tail(flow[f].jobs))
    <3>1. CASE CancelUnfilled(f)
      <4>1. PICK r : r = [flow[f] EXCEPT !.pc = "evaluate"]  OBVIOUS
      <4>2. flow' = [flow EXCEPT ![f] = r]  BY <3>1, <4>1 DEF CancelUnfilled, Go
      <4>9. flow[f].pc = "cancel" /\ r.jobs = flow[f].jobs /\ r.pc = "evaluate"
        BY <1>0, <3>1, <4>1, <4>2 DEF CancelUnfilled, Flows
      <4> QED  BY <4>2, <4>9
    <3>2. CASE DropJob(f) \/ (AdmitJob(f) /\ InTheWay(Job(f)) # {})
      <4>1. PICK r : r = [flow[f] EXCEPT !.jobs = Tail(flow[f].jobs)]  OBVIOUS
      <4>2. flow' = [flow EXCEPT ![f] = r]  BY <3>2, <4>1 DEF DropJob, AdmitJob
      <4>9. flow[f].pc = "submit" /\ flow[f].jobs # <<>> /\ r.jobs = Tail(flow[f].jobs) /\ r.pc = "submit"
        BY <1>0, <3>2, <4>1, <4>2 DEF DropJob, AdmitJob, Submitting, Flows
      <4> QED  BY <4>2, <4>9
    <3>3. CASE AdmitJob(f) /\ InTheWay(Job(f)) = {}
      <4>1. PICK r : r = [flow[f] EXCEPT !.jobs = Tail(flow[f].jobs), !.id = Len(orders) + 1,
                            !.pc = IF NeedsApproval(Job(f)) THEN "submit" ELSE "post"]
        OBVIOUS
      <4>2. flow' = [flow EXCEPT ![f] = r]  BY <3>3, <4>1 DEF AdmitJob
      <4>9. flow[f].pc = "submit" /\ flow[f].jobs # <<>> /\ r.jobs = Tail(flow[f].jobs) /\ r.pc \in {"submit", "post"}
        BY <1>0, <3>3, <4>1, <4>2 DEF AdmitJob, Submitting, Flows
      <4> QED  BY <4>2, <4>9
    <3>4. CASE Post(f)
      <4>1. PICK outcome : flow' = [flow EXCEPT ![f].pc = "submit", ![f].bought =
                     @ \/ (outcome = "PENDING" /\ orders[flow[f].id].s.side = "BUY")]
        BY <3>4 DEF Post
      <4>2. PICK r : r = [flow[f] EXCEPT !.pc = "submit", !.bought =
                     @ \/ (outcome = "PENDING" /\ orders[flow[f].id].s.side = "BUY")]
        OBVIOUS
      <4>3. flow' = [flow EXCEPT ![f] = r]  BY <4>1, <4>2
      <4>9. flow[f].pc = "post" /\ r.jobs = flow[f].jobs /\ r.pc = "submit"
        BY <1>0, <3>4, <4>2, <4>1, <4>3 DEF Post, Flows
      <4> QED  BY <4>3, <4>9
    <3> QED  BY <1>5, <3>1, <3>2, <3>3, <3>4
  <2>2. f = "manual" => flow[f].pc # "cancel"  BY <1>0 DEF Pcs
  <2> QED  BY <1>0, <2>1, <2>2, MilderStep DEF Checked, Early, Late, Settles
<1>6. CASE EvaluationFails(f) \/ StoreCarry(f) \/ StoreReset(f) \/ StoreQuota(f)
  <2>1. \E r \in {IdleFlow, AfterRun(f)} : flow' = [flow EXCEPT ![f] = r]
    BY <1>6 DEF EvaluationFails, StoreCarry, StoreReset, StoreQuota, Stop
  <2> QED  BY <1>0, <2>1, MilderStep DEF Checked
<1>7. CASE EndSubmit(f)
  <2>1. PICK r : /\ flow' = [flow EXCEPT ![f] = r] /\ flow[f].pc = "submit"
                 /\ r.jobs \in {flow[f].jobs, <<>>}
                 /\ r.pc \in {"idle", "snapshot"} \/ (r.pc = "fetch" /\ r.why \in {"reset", "carry"})
    <3>1. PICK r : r = IF Carries /\ flow[f].bought THEN [flow[f] EXCEPT !.pc = "fetch", !.why = "reset"]
                       ELSE IF Carries /\ flow[f].due THEN [flow[f] EXCEPT !.pc = "fetch", !.why = "carry"]
                       ELSE AfterRun(f)
      OBVIOUS
    <3>2. flow' = [flow EXCEPT ![f] = r]  BY <1>7, <3>1 DEF EndSubmit
    <3>9. /\ flow[f].pc = "submit" /\ r.jobs \in {flow[f].jobs, <<>>}
          /\ r.pc \in {"idle", "snapshot"} \/ (r.pc = "fetch" /\ r.why \in {"reset", "carry"})
      BY <1>0, <1>7, <3>1, <3>2 DEF EndSubmit, Flows
    <3> QED  BY <3>2, <3>9
  <2> QED  BY <1>0, <2>1, MilderStep DEF Checked, Early, Late, Settles
<1>8. CASE Fetch(f)
  <2>1. PICK r : /\ flow' = [flow EXCEPT ![f] = r] /\ flow[f].pc = "fetch"
                 /\ r.jobs = flow[f].jobs /\ r.pc = "store" /\ r.why = flow[f].why
    <3>1. PICK r : r = [flow[f] EXCEPT !.pc = "store", !.base = stock]  OBVIOUS
    <3>2. flow' = [flow EXCEPT ![f] = r]  BY <1>8, <3>1 DEF Fetch
    <3>9. flow[f].pc = "fetch" /\ r.jobs = flow[f].jobs /\ r.pc = "store" /\ r.why = flow[f].why
      BY <1>0, <1>8, <3>1, <3>2 DEF Fetch, Flows
    <3> QED  BY <3>2, <3>9
  <2> QED  BY <1>0, <2>1, MilderStep DEF Checked, Early, Late, Settles
<1>9. CASE StoreFill(f) \/ StoreRestore(f)
  <2>1. PICK r : /\ flow' = [flow EXCEPT ![f] = r]
                 /\ flow[f].pc = "store" /\ flow[f].why \in {"fill", "restore"}
                 /\ r.jobs = flow[f].jobs /\ r.pc = "pass"
    <3>1. PICK r : r = [flow[f] EXCEPT !.pc = "pass", !.rows = @ \ {Row(f)}, !.base = NoStock]  OBVIOUS
    <3>2. flow' = [flow EXCEPT ![f] = r]  BY <1>9, <3>1 DEF StoreFill, StoreRestore
    <3>9. flow[f].pc = "store" /\ flow[f].why \in {"fill", "restore"} /\ r.jobs = flow[f].jobs /\ r.pc = "pass"
      BY <1>0, <1>9, <3>1, <3>2 DEF StoreFill, StoreRestore, Storing, Flows
    <3> QED  BY <3>2, <3>9
  <2> QED  BY <1>0, <2>1, MilderStep DEF Checked, Early, Late, Settles
<1>10. CASE StoreMode(f)
  <2>1. PICK r : /\ flow' = [flow EXCEPT ![f] = r]
                 /\ flow[f].pc = "store" /\ flow[f].why = "persist"
                 /\ r.jobs = flow[f].jobs /\ r.pc = "submit"
    <3>1. PICK r : r = [flow[f] EXCEPT !.pc = "submit", !.ws = NoStock, !.base = NoStock]  OBVIOUS
    <3>2. flow' = [flow EXCEPT ![f] = r]  BY <1>10, <3>1 DEF StoreMode
    <3>9. flow[f].pc = "store" /\ flow[f].why = "persist" /\ r.jobs = flow[f].jobs /\ r.pc = "submit"
      BY <1>0, <1>10, <3>1, <3>2 DEF StoreMode, Storing, Flows
    <3> QED  BY <3>2, <3>9
  <2> QED  BY <1>0, <2>1, MilderStep DEF Checked, Early, Late, Settles
<1> QED
  BY <1>1, <1>2, <1>3, <1>4, <1>5, <1>6, <1>7, <1>8, <1>9, <1>10 DEF Loop


LEMMA FlowsMilder ==
  ASSUME flow \in [Flow -> Flows], NEW f \in Flow, NEW r, flow' = [flow EXCEPT ![f] = r], Milder(f, r, flow[f])
  PROVE  \A g \in Flow : Milder(g, flow'[g], flow[g])
<1>1. flow'[f] = r /\ \A g \in Flow : g # f => flow'[g] = flow[g]  OBVIOUS
<1>2. \A g, q : Milder(g, q, q)  BY DEF Milder
<1> QED  BY <1>1, <1>2

LEMMA AheadSame ==
  ASSUME UNCHANGED <<minute, cron>>, Early(flow'["loop"]) => Early(flow["loop"])
  PROVE  Ahead' => Ahead
<1>1. Ahead' => \A m \in DOMAIN Timetable : Timetable[m] = "target" =>
              minute < m \/ (minute = m /\ (cron \/ Early(flow'["loop"])))
  BY DEF Ahead, Early, Settles
<1> QED  BY <1>1 DEF Ahead

LEMMA MomentumStep ==
  ASSUME Momentum, UNCHANGED <<strategy, day>>, QuietRows, Heeds,
         strategy = "momentum-breakout" /\ ~audit'.overlap =>
           /\ \A f \in Run : /\ Len(flow[f].jobs) <= 1 => Len(flow'[f].jobs) <= 1
                             /\ Buying(flow'[f]) => Buying(flow[f]) \/ NoEntryToday
           /\ flow'["manual"].pc \in Checked => flow["manual"].pc \in Checked \/ NoEntryToday
  PROVE  Momentum'
<1> SUFFICES ASSUME strategy = "momentum-breakout", ~audit'.overlap PROVE Momentum'
  BY DEF Momentum
<1>1. ~audit.overlap /\ \E f \in Run : flow'[f].pc = "idle"  BY DEF Heeds, Overlapping
<1>2. (NoEntryToday => NoEntryToday') /\ OneBuy'  BY <1>1, QuietMeans DEF Momentum
<1>3. \A f \in Run : Len(flow'[f].jobs) <= 1 /\ (Buying(flow'[f]) => NoEntryToday')
  BY <1>1, <1>2 DEF Momentum
<1>4. flow'["manual"].pc \in Checked => NoEntryToday'  BY <1>1, <1>2 DEF Momentum
<1> QED  BY <1>1, <1>2, <1>3, <1>4 DEF Momentum, Buying, Checked

LEMMA DcaStep ==
  ASSUME Dca, UNCHANGED <<strategy, day, count.manual>>, QuietRows,
         strategy = "daily-dca" =>
           /\ flow["manual"].pc = "idle" => flow'["manual"].pc = "idle"
           /\ Len(flow["loop"].jobs) <= 1 => Len(flow'["loop"].jobs) <= 1
           /\ Ahead' => Ahead
           /\ Late(flow'["loop"]) => Late(flow["loop"]) \/ ~Ahead'
           /\ flow'["loop"].pc \in {"cancel", "evaluate"} \/ Buying(flow'["loop"]) =>
                flow["loop"].pc \in {"cancel", "evaluate"} \/ Buying(flow["loop"]) \/ Ahead
  PROVE  Dca'
<1> SUFFICES ASSUME strategy = "daily-dca", count.manual = 0 PROVE Dca'
  BY DEF Dca
<1>1. (NoBuyToday => NoBuyToday') /\ OneBuy'  BY QuietMeans DEF Dca
<1>2. flow'["manual"].pc = "idle" /\ Len(flow'["loop"].jobs) <= 1  BY DEF Dca
<1>3. Late(flow'["loop"]) => ~Ahead'  BY DEF Dca
<1>4. Ahead' \/ flow'["loop"].pc \in {"cancel", "evaluate"} \/ Buying(flow'["loop"]) => NoBuyToday'
  BY <1>1 DEF Dca
<1> QED  BY <1>1, <1>2, <1>3, <1>4 DEF Dca, Buying, Late, Early, Settles

LEMMA MilderEntries ==
  ASSUME ISafe, Momentum, Dca, UNCHANGED <<strategy, day, count.manual, minute, cron>>, QuietRows, Heeds,
         \A g \in Flow : Milder(g, flow'[g], flow[g])
  PROVE  Momentum' /\ Dca'
<1>1. Milder("loop", flow'["loop"], flow["loop"]) /\ Milder("manual", flow'["manual"], flow["manual"])
      /\ Run \subseteq Flow
  BY DEF Flow, Run
<1>2. Ahead' => Ahead  BY <1>1, AheadSame DEF Milder
<1>3. Momentum'  BY <1>1, MomentumStep DEF Milder
<1>4. Dca'  BY <1>1, <1>2, DcaStep DEF Milder
<1> QED  BY <1>3, <1>4

\* The flows but f stay as they are.
LEMMA OtherFlows ==
  ASSUME ISafe, NEW f \in Flow, NEW r, flow' = [flow EXCEPT ![f] = r]
  PROVE  /\ flow'[f] = r /\ \A g \in Flow : g # f => flow'[g] = flow[g]
         /\ "loop" \in Flow /\ "manual" \in Flow /\ Run = {"loop", "manual"} /\ Run \subseteq Flow
BY DEF ISafe, TypeInv, Flow, Run

LEMMA ReadUnfilledEntries ==
  ASSUME ISafe, Momentum, Dca, NEW f \in Flow, ReadUnfilled(f), Heeds PROVE Momentum' /\ Dca'
<1>1. flow[f] \in Flows /\ flow[f].pc = "unfilled" /\ f = "loop" /\ flow["loop"].pc # "idle"
  BY FlowIs DEF ReadUnfilled, Pcs, Flow, Run
<1>2. PICK r : /\ flow' = [flow EXCEPT ![f] = r] /\ r.jobs \in {flow[f].jobs, <<>>}
               /\ \/ r.pc \in {"idle", "snapshot"}
                  \/ r.pc \in {"cancel", "evaluate"} /\ Due
  <2>1. IdleFlow.jobs = <<>> /\ IdleFlow.pc = "idle" /\ AfterRun(f).jobs = <<>>
        /\ AfterRun(f).pc \in {"idle", "snapshot"}
    BY <1>1, IdleIs, AfterRunIs
  <2>2. PICK pc \in {"cancel", "evaluate"} : \E open :
          \/ flow' = [flow EXCEPT ![f] = IdleFlow]
          \/ Due /\ flow' = [flow EXCEPT ![f].pc = pc, ![f].open = open]
          \/ flow' = [flow EXCEPT ![f] = AfterRun(f)]
    BY DEF ReadUnfilled, Stop
  <2>2a. PICK open :
          \/ flow' = [flow EXCEPT ![f] = IdleFlow]
          \/ Due /\ flow' = [flow EXCEPT ![f].pc = pc, ![f].open = open]
          \/ flow' = [flow EXCEPT ![f] = AfterRun(f)]
    BY <2>2
  <2>3. PICK r : r = [flow[f] EXCEPT !.pc = pc, !.open = open]  OBVIOUS
  <2>4. r.jobs = flow[f].jobs /\ r.pc \in {"cancel", "evaluate"}  BY <1>1, <2>3 DEF Flows
  <2>5. CASE flow' = [flow EXCEPT ![f] = IdleFlow]  BY <2>1, <2>5
  <2>6. CASE flow' = [flow EXCEPT ![f] = AfterRun(f)]  BY <2>1, <2>6
  <2>7. CASE Due /\ flow' = [flow EXCEPT ![f].pc = pc, ![f].open = open]
    <3>1. flow' = [flow EXCEPT ![f] = r]  BY <2>3, <2>7
    <3> QED  BY <2>4, <2>7, <3>1
  <2> QED  BY <2>2a, <2>5, <2>6, <2>7
<1>3. UNCHANGED <<strategy, day, minute, cron, count, orders>> /\ QuietRows
  BY SameRowsQuiet DEF ReadUnfilled
<1>4. /\ flow'["loop"] = r /\ flow'["manual"] = flow["manual"] /\ Run = {"loop", "manual"}
  BY <1>1, <1>2, OtherFlows
<1>5. (Len(flow[f].jobs) <= 1 => Len(r.jobs) <= 1) /\ (Buying(r) => Buying(flow[f]))
  BY <1>1, <1>2, MilderJobs DEF Flows
<1>6. Momentum'  BY <1>1, <1>3, <1>4, <1>5, MomentumStep
<1>7. ~Early(r)  BY <1>2 DEF Early, Settles
<1>8. ASSUME Late(r), strategy = "daily-dca" PROVE Ahead /\ ~Ahead'
  <2>1. r.pc \in {"cancel", "evaluate"} /\ Due  BY <1>2, <1>8 DEF Late
  <2>2. Slot = "target"  BY <1>8, <2>1 DEF Due, Once
  <2>3. minute <= Len(Timetable) /\ Timetable[minute] = "target"  BY <2>2 DEF Slot, Open
  <2>4. minute \in DOMAIN Timetable /\ minute \in Nat
    <3>1. DOMAIN Timetable = 1..Len(Timetable) /\ Len(Timetable) \in Nat  BY TimetableAssumption
    <3>2. minute \in 1..(Len(Timetable) + 1)  BY DEF ISafe, TypeInv, ClockOK
    <3> QED  BY <2>3, <3>1, <3>2
  <2>5. Early(flow["loop"])  BY <1>1 DEF Early
  <2>6. Ahead
    <3>1. \A m \in DOMAIN Timetable : Timetable[m] = "target" => m = minute
      BY <2>3, <2>4, TimetableAssumption
    <3> QED  BY <2>5, <3>1 DEF Ahead
  <2>7. ~cron  BY <1>1 DEF ISafe, FlowsOK
  <2>8. ~Ahead'
    <3>1. Ahead' => \A m \in DOMAIN Timetable : Timetable[m] = "target" =>
              minute < m \/ (minute = m /\ (cron \/ Early(flow'["loop"])))
      BY <1>3 DEF Ahead, Early, Settles
    <3>2. ~(minute < minute)  BY <2>4
    <3> QED  BY <1>4, <1>7, <2>3, <2>4, <2>7, <3>1, <3>2
  <2> QED  BY <2>6, <2>8
<1>9. r.pc \in {"cancel", "evaluate"} => Late(r)  BY <1>7 DEF Late
<1>10. Ahead' => Ahead  BY <1>3, <1>4, <1>7, AheadSame
<1>11. Dca'  BY <1>1, <1>3, <1>4, <1>5, <1>8, <1>9, <1>10, DcaStep
<1> QED  BY <1>6, <1>11

LEMMA NothingPossible ==
  ASSUME ISafe, NEW f \in Flow, f = "loop" \/ ~\E i \in DOMAIN orders : Unresolved(orders[i]),
         f = "loop" => ~OpenSide(f, "BUY"), ~TradedOn(day)
  PROVE  NoEntryToday
<1>1. ASSUME NEW i \in DOMAIN orders, BuyToday(orders[i]), Possible(orders[i]) PROVE FALSE
  <2>1. ~Unresolved(orders[i])  BY <1>1 DEF OpenSide, BuyToday
  <2>2. orders[i].filled > 0  BY <1>1, <2>1 DEF Possible
  <2>3. orders[i] \in Rows /\ RowOK(orders[i])  BY OrderIs
  <2>4. Executed(orders[i])
    <3>1. orders[i].status \in Status /\ orders[i].filled \in Nat  BY <2>3 DEF Rows
    <3> QED  BY <2>1, <2>2, <2>3, <3>1 DEF RowOK, Unresolved, Executed, Status, Unsent
  <2> QED  BY <1>1, <2>4 DEF TradedOn, BuyToday
<1> QED  BY <1>1 DEF NoEntryToday

LEMMA EvaluateRulesEntries ==
  ASSUME ISafe, Momentum, Dca, NEW f \in Flow, EvaluateRules(f), Heeds PROVE Momentum' /\ Dca'
<1>1. flow[f] \in Flows /\ flow[f].pc = "evaluate" /\ f \in {"loop", "manual"}
  BY FlowIs DEF EvaluateRules, Pcs, Flow, Run
<1> DEFINE due == /\ Carries /\ ~Context(f).done
                  /\ Short(Context(f)) \/ \E i \in DOMAIN Evaluate(Context(f)) :
                                             Evaluate(Context(f))[i].side = "BUY"
<1> HIDE DEF due
<1>2. PICK r : r = [IdleFlow EXCEPT !.pc = "submit", !.held = flow[f].held,
                              !.jobs = Executable(Evaluate(Context(f))), !.due = due]
  OBVIOUS
<1>2a. flow' = [flow EXCEPT ![f] = r]  BY <1>2 DEF EvaluateRules, due
<1>3. r.pc = "submit" /\ r.jobs = Executable(Evaluate(Context(f)))  BY <1>2 DEF IdleFlow
<1>4. UNCHANGED <<strategy, day, minute, cron, count, orders>> /\ QuietRows
  BY SameRowsQuiet DEF EvaluateRules
<1>5. /\ flow'[f] = r /\ \A g \in Flow : g # f => flow'[g] = flow[g]
      /\ Run = {"loop", "manual"} /\ Run \subseteq Flow /\ "loop" \in Flow /\ "manual" \in Flow
  BY <1>2a, OtherFlows
<1>6. strategy \in {"momentum-breakout", "daily-dca"} => Len(r.jobs) <= 1  BY <1>3, EntersOnce
<1>7. ASSUME strategy = "momentum-breakout", Buying(r), ~audit.overlap PROVE NoEntryToday
  <2>1. MomentumMayEnter(Context(f))  BY <1>3, <1>7, EntersOnce DEF Buying
  <2>2. ~Context(f).done /\ ~Context(f).openBuy  BY <2>1 DEF MomentumMayEnter
  <2>3. CASE f = "loop"
    <3>1. ~TradedOn(day) /\ ~OpenSide(f, "BUY")  BY <2>2, <2>3 DEF Context
    <3> QED  BY <2>3, <3>1, NothingPossible
  <2>4. CASE f = "manual"  BY <1>1, <1>7, <2>4 DEF Momentum, Checked
  <2> QED  BY <1>1, <2>3, <2>4
<1>8. Momentum'
  <2>1. audit.overlap => audit'.overlap  BY DEF Heeds
  <2>2. \A g \in Run : g # f => flow'[g] = flow[g]  BY <1>5
  <2>3. r.pc \notin Checked  BY <1>3 DEF Checked
  <2> QED  BY <1>1, <1>4, <1>5, <1>6, <1>7, <2>1, <2>2, <2>3, MomentumStep
<1>9. ~Early(r)  BY <1>3 DEF Early, Settles
<1>10. CASE f = "loop"
  <2>1. Late(flow["loop"]) /\ flow'["manual"] = flow["manual"] /\ flow'["loop"] = r
    BY <1>1, <1>5, <1>10 DEF Late, Early, Settles
  <2>2. Ahead' => Ahead  BY <1>4, <1>9, <2>1, AheadSame
  <2>3. Dca'  BY <1>1, <1>4, <1>6, <1>10, <2>1, <2>2, DcaStep
  <2> QED  BY <1>8, <2>3
<1>11. CASE f = "manual"
  <2>1. Dca'
    <3>1. ~(strategy = "daily-dca" /\ count.manual = 0)  BY <1>1, <1>11 DEF Dca
    <3> QED  BY <1>4, <3>1 DEF Dca
  <2> QED  BY <1>8, <2>1
<1> QED  BY <1>1, <1>10, <1>11


LEMMA TailOfOne ==
  ASSUME NEW S, NEW q \in Seq(S), q # <<>>, Len(q) <= 1
  PROVE  Tail(q) = <<>>
<1>1. Len(q) \in Nat /\ Len(q) # 0  OBVIOUS
<1>2. Tail(q) \in Seq(S) /\ Len(Tail(q)) = Len(q) - 1  OBVIOUS
<1>3. Len(Tail(q)) = 0  BY <1>1, <1>2
<1> QED  BY <1>2, <1>3, EmptySeq

LEMMA AdmitEntries ==
  ASSUME ISafe, Momentum, Dca, NEW f \in Flow, AdmitJob(f), InTheWay(Job(f)) = {}, Heeds
  PROVE  Momentum' /\ Dca'
<1>1. flow[f] \in Flows /\ flow[f].pc = "submit" /\ f \in {"loop", "manual"} /\ flow[f].jobs # <<>>
  BY FlowIs DEF AdmitJob, Submitting, Pcs, Flow, Run
<1>2. PICK r : r = [flow[f] EXCEPT !.jobs = Tail(flow[f].jobs), !.id = Len(orders) + 1,
                      !.pc = IF NeedsApproval(Job(f)) THEN "submit" ELSE "post"]
  OBVIOUS
<1>3. flow' = [flow EXCEPT ![f] = r]  BY <1>2 DEF AdmitJob
<1>4. r.jobs = Tail(flow[f].jobs) /\ r.pc \in {"submit", "post"}  BY <1>1, <1>2 DEF Flows
<1>5. /\ flow'[f] = r /\ \A g \in Flow : g # f => flow'[g] = flow[g]
      /\ Run = {"loop", "manual"} /\ Run \subseteq Flow /\ "loop" \in Flow /\ "manual" \in Flow
  BY <1>3, OtherFlows
<1>6. UNCHANGED <<strategy, day, minute, cron, count>>  BY DEF AdmitJob
<1>7. flow[f].jobs \in Seq(Jobs) /\ Len(flow[f].jobs) \in Nat /\ flow[f].jobs[1] = Job(f)
      /\ 1 \in DOMAIN flow[f].jobs /\ Job(f) \in Jobs
  <2>1. flow[f].jobs \in Seq(Jobs)  BY <1>1 DEF Flows
  <2> QED  BY <1>1, <2>1 DEF Job
<1>8. /\ orders' = Append(orders, NewOrder(Job(f))) /\ orders \in Seq(Rows)
      /\ NewOrder(Job(f)) \in Rows /\ NewOrder(Job(f)).s = Job(f) /\ NewOrder(Job(f)).day = day
  BY <1>7, NewOrderIs DEF AdmitJob, ISafe, TypeInv
<1>9. PICK o \in Rows : orders' = Append(orders, o) /\ o.s = Job(f) /\ o.day = day
  BY <1>8
<1>10. PICK n : n = Len(orders) + 1  OBVIOUS
<1>11. /\ orders'[n] = o /\ n \in DOMAIN orders' /\ \A i \in DOMAIN orders : orders'[i] = orders[i]
       /\ \A i \in DOMAIN orders' : i \in DOMAIN orders \/ i = n
  BY <1>8, <1>9, <1>10, AppendIs
\* With one order to submit at most, none is left, and a purchase is the first of the day.
<1>12. ASSUME Len(flow[f].jobs) <= 1 PROVE r.jobs = <<>> /\ ~Buying(r)
  <2>2. r.jobs = <<>>  BY <1>1, <1>4, <1>7, <1>12, TailOfOne
  <2> QED  BY <2>2 DEF Buying
<1>13. Job(f).side = "BUY" => Buying(flow[f])  BY <1>7 DEF Buying
<1>14. ASSUME OneBuy, Job(f).side = "BUY" => NoEntryToday PROVE OneBuy'
  <2>1. ASSUME NEW i \in DOMAIN orders', NEW j \in DOMAIN orders', i # j,
               orders'[i].s.side = "BUY", orders'[j].s.side = "BUY", orders'[i].day = orders'[j].day,
               Possible(orders'[i]), Possible(orders'[j])
        PROVE  FALSE
    <3>1. ASSUME NEW k \in DOMAIN orders, orders'[k].s.side = "BUY", orders'[k].day = day,
                 Possible(orders'[k]), o.s.side = "BUY"
          PROVE  FALSE
      BY <1>9, <1>11, <1>14, <3>1 DEF NoEntryToday, BuyToday
    <3>2. CASE i = n  BY <1>9, <1>11, <2>1, <3>1, <3>2
    <3>3. CASE j = n  BY <1>9, <1>11, <2>1, <3>1, <3>3
    <3>4. CASE i # n /\ j # n  BY <1>11, <1>14, <2>1, <3>4 DEF OneBuy
    <3> QED  BY <3>2, <3>3, <3>4
  <2> QED  BY <2>1 DEF OneBuy, Possible, Unresolved
<1>15. ASSUME Job(f).side # "BUY"
       PROVE  (NoBuyToday => NoBuyToday') /\ (NoEntryToday => NoEntryToday')
  <2>1. ~(o.s.side = "BUY")  BY <1>9, <1>15
  <2> QED  BY <1>6, <1>11, <2>1 DEF NoBuyToday, NoEntryToday, BuyToday, Possible, Unresolved
<1>16. Momentum'
  <2> SUFFICES ASSUME strategy = "momentum-breakout", ~audit'.overlap PROVE Momentum'
    BY <1>6 DEF Momentum
  <2>1. /\ ~audit.overlap /\ OneBuy
        /\ \A h \in Run : Len(flow[h].jobs) <= 1 /\ (Buying(flow[h]) => NoEntryToday)
        /\ \E g \in Run : flow'[g].pc = "idle"
    BY DEF Heeds, Overlapping, Momentum
  <2>2. PICK g \in Run : flow'[g].pc = "idle"  BY <2>1
  <2>3. g # f /\ flow'[g] = flow[g] /\ flow[g] = IdleFlow
    <3>1. g # f  BY <1>4, <1>5, <2>2
    <3>2. flow'[g] = flow[g] /\ g \in Flow  BY <1>5, <3>1
    <3> QED  BY <2>2, <3>1, <3>2, FlowIs
  <2>4. ~Buying(flow'[g]) /\ Len(flow'[g].jobs) <= 1 /\ flow'[g].pc \notin Checked
    <3>1. flow'[g].jobs = <<>> /\ flow'[g].pc = "idle"  BY <2>3, IdleIs
    <3> QED  BY <3>1 DEF Buying, Checked
  <2>5. Len(flow[f].jobs) <= 1 /\ (Buying(flow[f]) => NoEntryToday)  BY <1>1, <1>5, <2>1
  <2>6. ~Buying(flow'[f]) /\ Len(flow'[f].jobs) <= 1 /\ flow'[f].pc \notin Checked
    <3>1. r.jobs = <<>> /\ ~Buying(r) /\ Len(<<>>) <= 1  BY <1>12, <2>5
    <3>2. r.pc \notin Checked  BY <1>4 DEF Checked
    <3> QED  BY <1>5, <3>1, <3>2
  <2>7. OneBuy'  BY <1>13, <1>14, <2>1, <2>5
  <2>8. \A h \in Run : h = g \/ h = f  BY <1>1, <1>5, <2>3
  <2> QED  BY <1>5, <2>1, <2>2, <2>4, <2>6, <2>7, <2>8 DEF Momentum, Buying, Checked
<1>17. Dca'
  <2> SUFFICES ASSUME strategy = "daily-dca", count.manual = 0 PROVE Dca'
    BY <1>6 DEF Dca
  <2>1. /\ flow["manual"].pc = "idle" /\ Len(flow["loop"].jobs) <= 1
        /\ Late(flow["loop"]) => ~Ahead
        /\ Ahead \/ flow["loop"].pc \in {"cancel", "evaluate"} \/ Buying(flow["loop"]) => NoBuyToday
        /\ OneBuy
    BY DEF Dca
  <2>2. f = "loop" /\ flow'["manual"] = flow["manual"] /\ flow'["loop"] = r  BY <1>1, <1>5, <2>1
  <2>3. ~Early(r) /\ Late(flow["loop"])  BY <1>1, <1>4, <2>2 DEF Early, Late, Settles
  <2>4. ~Ahead'  BY <1>6, <2>1, <2>2, <2>3, AheadSame
  <2>5. OneBuy'
    <3>1. NoBuyToday => NoEntryToday  BY DEF NoBuyToday, NoEntryToday
    <3> QED  BY <1>13, <1>14, <2>1, <2>2, <3>1
  <2>6. ~Buying(r) /\ Len(r.jobs) <= 1  BY <1>12, <2>1, <2>2
  <2> QED  BY <1>4, <2>1, <2>2, <2>4, <2>5, <2>6 DEF Dca, Buying, Late, Early, Settles
<1> QED  BY <1>16, <1>17


LEMMA StartLoopEntries == ASSUME ISafe, Momentum, Dca, StartLoop, Heeds PROVE Momentum' /\ Dca'
<1>1. PICK r : r = [IdleFlow EXCEPT !.pc = "risk", !.ws = stock]  OBVIOUS
<1>2. flow' = [flow EXCEPT !["loop"] = r]  BY <1>1 DEF StartLoop
<1>3. /\ flow'["loop"] = r /\ flow'["manual"] = flow["manual"] /\ Run = {"loop", "manual"}
  BY <1>2, OtherFlows DEF Flow, Run
<1>4. r.jobs = <<>> /\ r.pc = "risk"  BY <1>1 DEF IdleFlow
<1>5. ~Buying(r) /\ ~Late(r) /\ Len(r.jobs) <= 1  BY <1>4 DEF Buying, Late, Early
<1>6. UNCHANGED <<strategy, day, minute, count, orders>> /\ QuietRows  BY SameRowsQuiet DEF StartLoop
<1>7. Momentum'  BY <1>3, <1>5, <1>6, MomentumStep
<1>8. Ahead' => Ahead
  <2>1. Ahead' => \A m \in DOMAIN Timetable : Timetable[m] = "target" => minute < m \/ minute = m
    BY <1>6 DEF Ahead
  <2> QED  BY <2>1 DEF StartLoop, Ahead
<1>9. Dca'  BY <1>3, <1>4, <1>5, <1>6, <1>8, DcaStep
<1> QED  BY <1>7, <1>9

LEMMA StartSyncEntries == ASSUME ISafe, Momentum, Dca, StartSync, Heeds PROVE Momentum' /\ Dca'
<1>1. PICK r : r = [flow["sync"] EXCEPT !.pc = "balance"]  OBVIOUS
<1>2. flow' = [flow EXCEPT !["sync"] = r] /\ "sync" \in Flow  BY <1>1 DEF StartSync, Go, Flow
<1>3. flow["sync"] \in Flows /\ flow \in [Flow -> Flows]  BY <1>2, FlowIs DEF ISafe, TypeInv
<1>4. r.jobs = flow["sync"].jobs  BY <1>1, <1>3 DEF Flows
<1>5. Milder("sync", r, flow["sync"])  BY <1>4 DEF Milder, Buying
<1>6. UNCHANGED <<strategy, day, minute, cron, count, orders>> /\ QuietRows
  BY SameRowsQuiet DEF StartSync
<1> QED  BY <1>2, <1>3, <1>5, <1>6, FlowsMilder, MilderEntries

LEMMA StartEditEntries == ASSUME ISafe, Momentum, Dca, StartEdit, Heeds PROVE Momentum' /\ Dca'
<1>1. PICK q \in Quotas : flow' = [flow EXCEPT !["user"] =
                                     [IdleFlow EXCEPT !.pc = "fetch", !.why = "quota", !.new = q]]
  BY DEF StartEdit
<1>2. PICK r : r = [IdleFlow EXCEPT !.pc = "fetch", !.why = "quota", !.new = q]  OBVIOUS
<1>3. flow' = [flow EXCEPT !["user"] = r] /\ "user" \in Flow  BY <1>1, <1>2 DEF Flow
<1>4. r.jobs = <<>>  BY <1>2 DEF IdleFlow
<1>5. Milder("user", r, flow["user"])
  <2>1. Len(r.jobs) <= 1 /\ ~Buying(r)  BY <1>4 DEF Buying
  <2> QED  BY <2>1 DEF Milder
<1>6. UNCHANGED <<strategy, day, minute, cron, orders>> /\ QuietRows  BY SameRowsQuiet DEF StartEdit
<1>7. flow \in [Flow -> Flows] /\ count'.manual = count.manual
  <2>1. count \in [manual : Nat, edit : Nat]  BY DEF ISafe, TypeInv, ClockOK
  <2> QED  BY <2>1 DEF ISafe, TypeInv, StartEdit
<1> QED  BY <1>3, <1>5, <1>6, <1>7, FlowsMilder, MilderEntries

LEMMA SaveSnapshotEntries == ASSUME ISafe, Momentum, Dca, SaveSnapshot, Heeds PROVE Momentum' /\ Dca'
<1>1. flow' = [flow EXCEPT !["loop"] = IdleFlow] /\ "loop" \in Flow  BY DEF SaveSnapshot, Stop, Flow, Run
<1>2. flow["loop"] \in Flows /\ flow \in [Flow -> Flows]  BY <1>1, FlowIs DEF ISafe, TypeInv
<1>3. Milder("loop", IdleFlow, flow["loop"])  BY <1>2, IdleIs, MilderStep
<1>4. UNCHANGED <<strategy, day, minute, cron, count, orders>> /\ QuietRows
  BY SameRowsQuiet DEF SaveSnapshot
<1> QED  BY <1>1, <1>2, <1>3, <1>4, FlowsMilder, MilderEntries

LEMMA StartManualEntries == ASSUME ISafe, Momentum, Dca, StartManual, Heeds PROVE Momentum' /\ Dca'
<1>1. PICK r : r = [IdleFlow EXCEPT !.pc = "guard", !.ws = stock]  OBVIOUS
<1>2. flow' = [flow EXCEPT !["manual"] = r]  BY <1>1 DEF StartManual
<1>3. /\ flow'["manual"] = r /\ flow'["loop"] = flow["loop"] /\ Run = {"loop", "manual"}
  BY <1>2, OtherFlows DEF Flow, Run
<1>4. r.jobs = <<>> /\ r.pc = "guard"  BY <1>1 DEF IdleFlow
<1>5. ~Buying(r) /\ Len(r.jobs) <= 1 /\ r.pc \notin Checked  BY <1>4 DEF Buying, Checked
<1>6. UNCHANGED <<strategy, day, orders>> /\ QuietRows  BY SameRowsQuiet DEF StartManual
<1>7. Momentum'  BY <1>3, <1>5, <1>6, MomentumStep
<1>8. count'.manual # 0
  <2>1. count \in [manual : Nat, edit : Nat]  BY DEF ISafe, TypeInv, ClockOK
  <2>2. count'.manual = count.manual + 1 /\ count.manual \in Nat  BY <2>1 DEF StartManual
  <2> QED  BY <2>2
<1>9. Dca'  BY <1>8 DEF Dca
<1> QED  BY <1>7, <1>9

LEMMA GuardManualEntries == ASSUME ISafe, Momentum, Dca, GuardManual, Heeds PROVE Momentum' /\ Dca'
<1>1. flow["manual"] \in Flows /\ flow["manual"].pc = "guard" /\ "manual" \in Flow
  BY FlowIs DEF GuardManual, Flow, Run
<1>2. PICK r : flow' = [flow EXCEPT !["manual"] = r] /\ r.jobs \in {flow["manual"].jobs, <<>>}
               /\ (r.pc \in Checked => NoEntryToday)
  <2>1. CASE (\E i \in DOMAIN orders : Unresolved(orders[i])) \/ TradedOn(day)
    <3>1. flow' = [flow EXCEPT !["manual"] = IdleFlow]  BY <2>1 DEF GuardManual, Stop
    <3>2. IdleFlow.jobs = <<>> /\ IdleFlow.pc \notin Checked  BY IdleIs DEF Checked
    <3> QED  BY <3>1, <3>2
  <2>2. CASE ~((\E i \in DOMAIN orders : Unresolved(orders[i])) \/ TradedOn(day))
    <3>1. PICK r : r = [flow["manual"] EXCEPT !.pc = "risk"]  OBVIOUS
    <3>2. flow' = [flow EXCEPT !["manual"] = r]  BY <2>2, <3>1 DEF GuardManual, Go
    <3>3. r.jobs = flow["manual"].jobs  BY <1>1, <3>1 DEF Flows
    <3>4. NoEntryToday  BY <1>1, <2>2, NothingPossible
    <3> QED  BY <3>2, <3>3, <3>4
  <2> QED  BY <2>1, <2>2
<1>3. /\ flow'["manual"] = r /\ flow'["loop"] = flow["loop"] /\ Run = {"loop", "manual"}
  BY <1>1, <1>2, OtherFlows
<1>4. (Len(flow["manual"].jobs) <= 1 => Len(r.jobs) <= 1) /\ (Buying(r) => Buying(flow["manual"]))
  BY <1>1, <1>2, MilderJobs DEF Flows
<1>5. UNCHANGED <<strategy, day, count, orders>> /\ QuietRows  BY SameRowsQuiet DEF GuardManual
<1>6. Momentum'  BY <1>2, <1>3, <1>4, <1>5, MomentumStep
<1>7. ~(strategy = "daily-dca" /\ count.manual = 0)  BY <1>1 DEF Dca
<1>8. Dca'  BY <1>5, <1>7 DEF Dca
<1> QED  BY <1>6, <1>8

LEMMA SameFlowsEntries ==
  ASSUME ISafe, Momentum, Dca, UNCHANGED <<strategy, day, count, minute, cron, flow>>, QuietRows,
         Heeds
  PROVE  Momentum' /\ Dca'
<1>1. \A g \in Flow : Milder(g, flow'[g], flow[g])  BY DEF Milder
<1> QED  BY <1>1, MilderEntries

LEMMA NextMinuteEntries == ASSUME ISafe, Momentum, Dca, NextMinute, Heeds PROVE Momentum' /\ Dca'
<1>1. UNCHANGED <<strategy, day, count, orders, flow>> /\ QuietRows  BY SameRowsQuiet DEF NextMinute
<1>2. Momentum'  BY <1>1, MomentumStep
<1>3. Ahead' => Ahead
  <2>1. minute' = minute + 1 /\ minute \in Nat  BY DEF NextMinute, ISafe, TypeInv, ClockOK
  <2>2. Ahead' => \A m \in DOMAIN Timetable : Timetable[m] = "target" => minute + 1 < m \/ minute + 1 = m
    BY <2>1 DEF Ahead
  <2>3. \A m \in DOMAIN Timetable : m \in Nat /\ (minute + 1 < m \/ minute + 1 = m => minute < m)
    <3>1. \A m \in DOMAIN Timetable : m \in Nat
      <4>1. DOMAIN Timetable = 1..Len(Timetable)  BY TimetableAssumption
      <4> QED  BY <4>1
    <3> QED  BY <2>1, <3>1
  <2> QED  BY <2>2, <2>3 DEF Ahead
<1>4. Dca'  BY <1>1, <1>3, DcaStep
<1> QED  BY <1>2, <1>4

LEMMA NextDayEntries == ASSUME ISafe, Momentum, Dca, NextDay, Heeds PROVE Momentum' /\ Dca'
<1>1. UNCHANGED <<strategy, count, flow>> /\ day' = day + 1 /\ QuietRows  BY NextDayQuiet DEF NextDay
<1>2. /\ "loop" \in Flow /\ "manual" \in Flow /\ Run = {"loop", "manual"}
      /\ flow["loop"] = IdleFlow /\ flow["manual"] = IdleFlow
  BY FlowIs DEF NextDay, Flow, Run
<1>3. NoBuyToday' /\ NoEntryToday'
  <2>1. \A i \in DOMAIN orders' : orders'[i].day # day'
    <3>1. ASSUME NEW i \in DOMAIN orders' PROVE orders'[i].day # day'
      <4>1. i \in DOMAIN orders /\ orders'[i].day = orders[i].day  BY <1>1 DEF QuietRows
      <4>2. orders[i].day \in 1..day /\ day \in Nat  BY <4>1, OrderIs, BoundAssumption DEF ISafe, TypeInv
      <4> QED  BY <1>1, <4>1, <4>2
    <3> QED  BY <3>1
  <2> QED  BY <2>1 DEF NoBuyToday, NoEntryToday, BuyToday
<1>4. OneBuy => OneBuy'  BY <1>1, QuietOneBuy
<1>5. IdleFlow.jobs = <<>> /\ IdleFlow.pc = "idle" /\ Len(<<>>) <= 1  BY IdleIs
<1>6. ~Late(IdleFlow)  BY <1>5 DEF Late
<1>7. Momentum'
  <2> SUFFICES ASSUME strategy = "momentum-breakout", ~audit'.overlap PROVE Momentum'
    BY <1>1 DEF Momentum
  <2>1. ~audit.overlap  BY DEF Heeds
  <2>2. OneBuy'  BY <1>4, <2>1 DEF Momentum
  <2> QED  BY <1>1, <1>2, <1>3, <1>5, <2>2 DEF Momentum
<1>8. Dca'
  <2> SUFFICES ASSUME strategy = "daily-dca", count.manual = 0 PROVE Dca'
    BY <1>1 DEF Dca
  <2>1. OneBuy'  BY <1>4 DEF Dca
  <2>2. ~Late(flow["loop"])'  BY <1>1, <1>2, <1>6 DEF Late, Early, Settles
  <2> QED  BY <1>1, <1>2, <1>3, <1>5, <2>1, <2>2 DEF Dca
<1> QED  BY <1>7, <1>8

LEMMA LoopEntries ==
  ASSUME ISafe, Momentum, Dca, NEW f \in Flow, Loop(f), Heeds
  PROVE  Momentum' /\ Dca'
<1>1. UNCHANGED <<strategy, day, minute, cron, count>>  BY LoopClock
<1>2. CASE ReadUnfilled(f)  BY <1>2, ReadUnfilledEntries
<1>3. CASE EvaluateRules(f)  BY <1>3, EvaluateRulesEntries
<1>4. CASE EvaluateV4(f)
  <2>1. strategy' = "infinite-buy-v4"  BY <1>1, <1>4 DEF EvaluateV4
  <2> QED  BY <2>1 DEF Momentum, Dca
<1>5. CASE AdmitJob(f) /\ InTheWay(Job(f)) = {}  BY <1>5, AdmitEntries
<1>6. CASE ~ReadUnfilled(f) /\ ~EvaluateRules(f) /\ ~EvaluateV4(f)
           /\ ~(AdmitJob(f) /\ InTheWay(Job(f)) = {})
  <2>1. PICK r : flow' = [flow EXCEPT ![f] = r] /\ Milder(f, r, flow[f])  BY <1>6, LoopMilder
  <2>2. flow \in [Flow -> Flows]  BY DEF ISafe, TypeInv
  <2>3. QuietRows
    <3>1. CASE SettleListed(f)  BY <3>1, SettleListedQuiet
    <3>2. CASE SettleAbsent(f)  BY <3>2, SettleAbsentQuiet
    <3>3. CASE CancelUnfilled(f)  BY <3>3, CancelUnfilledQuiet
    <3>4. CASE Post(f)  BY <3>4, PostQuiet
    <3>5. CASE ~SettleListed(f) /\ ~SettleAbsent(f) /\ ~CancelUnfilled(f) /\ ~Post(f)
      <4>1. UNCHANGED orders  BY <1>6, <3>5, LoopOrders
      <4> QED  BY <4>1, SameRowsQuiet
    <3> QED  BY <3>1, <3>2, <3>3, <3>4, <3>5
  <2> QED  BY <1>1, <2>1, <2>2, <2>3, FlowsMilder, MilderEntries
<1> QED  BY <1>2, <1>3, <1>4, <1>5, <1>6

LEMMA NextEntries == ASSUME ISafe, Momentum, Dca, [Next]_vars PROVE Momentum' /\ Dca'
<1>1. CASE UNCHANGED vars
  <2>1. Momentum'
    BY <1>1 DEF vars, Momentum, NoEntryToday, BuyToday, Possible, Unresolved, OneBuy, Buying, Checked
  <2>2. Dca'
    BY <1>1 DEF vars, Dca, NoBuyToday, BuyToday, Possible, Unresolved, OneBuy, Buying, Late, Early, Ahead, Settles
  <2> QED  BY <2>1, <2>2
<1>2. CASE Heeds /\ Next
  <2>1. ASSUME NEW i \in DOMAIN orders, Approve(i) \/ Decline(i) \/ Fill(i) \/ FillAtClose(i) \/ Die(i)
        PROVE  Momentum' /\ Dca'
    <3>1. QuietRows  BY <2>1, BrokerQuiet
    <3>2. UNCHANGED <<strategy, day, count, minute, cron, flow>>
      BY <2>1 DEF Approve, Decline, Fill, FillAtClose, Die, Trade
    <3> QED  BY <1>2, <3>1, <3>2, SameFlowsEntries
  <2> QED
    BY <1>2, <2>1, StartLoopEntries, StartSyncEntries, StartManualEntries, GuardManualEntries,
       StartEditEntries, SaveSnapshotEntries, NextMinuteEntries, NextDayEntries, LoopEntries DEF Next
<1> QED  BY <1>1, <1>2, NextHeeds

LEMMA InitEntries == ASSUME Init PROVE Momentum /\ Dca
<1>1. DOMAIN orders = {}  BY DEF Init
<1>2. /\ "loop" \in Flow /\ "manual" \in Flow /\ Run = {"loop", "manual"} /\ "loop" \in Run
      /\ \A f \in Flow : flow[f] = IdleFlow
  BY DEF Init, Flow, Run
<1>3. IdleFlow.jobs = <<>> /\ IdleFlow.pc = "idle" /\ Len(<<>>) <= 1 /\ ~Buying(IdleFlow)
  BY IdleIs DEF Buying
<1>4. NoBuyToday /\ NoEntryToday /\ OneBuy  BY <1>1 DEF NoBuyToday, NoEntryToday, OneBuy
<1>5. Momentum  BY <1>2, <1>3, <1>4 DEF Momentum, Checked
<1>6. Dca  BY <1>2, <1>3, <1>4 DEF Dca, Late
<1> QED  BY <1>5, <1>6

LEMMA AtMostOne ==
  ASSUME NEW S, \A i, j \in S : i = j
  PROVE  Cardinality(S) <= 1
<1>1. CASE S = {}
  <2>1. Cardinality(S) = 0  BY <1>1, FS_EmptySet
  <2> QED  BY <2>1
<1>2. CASE S # {}
  <2>1. PICK i : i \in S  BY <1>2
  <2>2. S = {i}  BY <2>1
  <2>3. Cardinality(S) = 1  BY <2>2, FS_Singleton
  <2> QED  BY <2>3
<1> QED  BY <1>1, <1>2

\* OneEntryADay of LiveTrading: whichever passes, cancellations and executions
\* fall between two evaluations, the second finds the first one's purchase.
THEOREM LiveTradingOneEntry == Spec => []OneEntryADay
<1>1. Init => Momentum /\ Dca  BY InitEntries
<1>2. ISafe /\ Momentum /\ Dca /\ [Next]_vars => (Momentum /\ Dca)'  BY NextEntries
<1>3. ISafe /\ Momentum /\ Dca => OneEntryADay
  <2> SUFFICES ASSUME ISafe, OneBuy, NEW d \in 1..day PROVE Cardinality(Bought(d)) <= 1
    BY DEF Momentum, Dca, OneEntryADay
  <2>1. \A i, j \in Bought(d) : i = j  BY DEF OneBuy, Bought, Possible
  <2> QED  BY <2>1, AtMostOne
<1> QED  BY <1>1, <1>2, <1>3, LiveTradingSafe, PTL DEF Spec


-----------------------------------------------------------------------------
(* Fills.  A purchase or a complete sale is executed (Trade), found by a    *)
(* pass (SettleListed) and told to the strategy (StoreFill); every other    *)
(* step leaves what was executed, found and told as it was.                 *)
SameReads(r, q) == /\ r.pc = "pass" \/ (Settles(r) /\ r.why \in {"fill", "restore"}) =>
                         (r.rows \subseteq q.rows /\ r.list = q.list) \/ r.list = orders
                   /\ r.pc = "store" => (q.pc = "store" /\ r.base = q.base) \/ r.base = stock
SameNews(r, q) == /\ Told(r) <=> Told(q)
                  /\ Told(q) => Current(r) = Current(q) /\ RowOf(r) = RowOf(q) /\ r.now = q.now
                  /\ SameReads(r, q)

SameFill(p, o) == /\ p.s.side = o.s.side /\ p.day = o.day /\ p.filled = o.filled /\ p.told = o.told
                  /\ p.amount = o.amount /\ (p.status = "FILLED" <=> o.status = "FILLED")
                  /\ o.filled > 0 => p.s = o.s
Unfilled(o)    == o.filled = 0 /\ o.told = 0 /\ o.status # "FILLED" /\ o.amount = 0
SameFills == /\ Len(orders') \in {Len(orders), Len(orders) + 1}
             /\ \A i \in DOMAIN orders : i \in DOMAIN orders' /\ SameFill(orders'[i], orders[i])
             /\ \A i \in DOMAIN orders' : i \notin DOMAIN orders => Unfilled(orders'[i])

LEMMA NoNews ==
  ASSUME NEW r, NEW q, ~Settles(r) \/ r.why # "fill", ~Settles(q) \/ q.why # "fill", SameReads(r, q)
  PROVE  SameNews(r, q)
BY DEF SameNews, Told

\* The steps of a flow that is not storing anything.
LEMMA RunningNews ==
  ASSUME ISafe, NEW f \in Flow,
         \/ ReadRisk(f) \/ ReadBalance(f) \/ WritePositions(f) \/ ReadPositions(f) \/ List(f)
         \/ EndPass(f) \/ ReadUnfilled(f) \/ CancelUnfilled(f) \/ EvaluateRules(f)
         \/ EvaluationFails(f) \/ DropJob(f) \/ AdmitJob(f) \/ Post(f)
  PROVE  \E r : flow' = [flow EXCEPT ![f] = r] /\ SameNews(r, flow[f])
<1>0. /\ flow[f] \in Flows /\ IdleFlow.pc = "idle" /\ AfterRun(f).pc \in {"idle", "snapshot"}
  BY FlowIs, IdleIs, AfterRunIs
<1>1. SUFFICES \E r : /\ flow' = [flow EXCEPT ![f] = r] /\ r.pc \notin {"fetch", "store"}
                      /\ r.pc = "pass" => r.list = orders
  <2>1. flow[f].pc \notin {"fetch", "store"}
    BY DEF ReadRisk, ReadBalance, WritePositions, ReadPositions, List, EndPass, ReadUnfilled, CancelUnfilled,
           EvaluateRules, EvaluationFails, DropJob, AdmitJob, Submitting, Post
  <2>2. ASSUME NEW r, r.pc \notin {"fetch", "store"}, r.pc = "pass" => r.list = orders
        PROVE  SameNews(r, flow[f])
    <3>1. SameReads(r, flow[f])  BY <2>2 DEF Settles, SameReads
    <3> QED  BY <2>1, <2>2, <3>1, NoNews DEF Settles
  <2>3. PICK r : /\ flow' = [flow EXCEPT ![f] = r] /\ r.pc \notin {"fetch", "store"}
                 /\ r.pc = "pass" => r.list = orders
    BY <1>1
  <2>4. SameNews(r, flow[f])  BY <2>2, <2>3
  <2> QED  BY <2>3, <2>4
<1>2. CASE ReadRisk(f)
  <2>1. PICK r : r = [flow[f] EXCEPT !.pc = IF f = "loop" THEN "positions" ELSE "balance",
          !.total = Worth(position), !.peak = IF peak > Worth(position) THEN peak ELSE Worth(position)]
    OBVIOUS
  <2>2. flow' = [flow EXCEPT ![f] = r]  BY <1>2, <2>1 DEF ReadRisk
  <2>3. r.pc \in {"positions", "balance"}  BY <1>0, <2>1 DEF Flows
  <2> QED  BY <2>2, <2>3
<1>3. CASE ReadPositions(f)
  <2>1. PICK r : r = [flow[f] EXCEPT !.pc = IF f = "manual" THEN "evaluate" ELSE "list", !.held = position]
    OBVIOUS
  <2>2. flow' = [flow EXCEPT ![f] = r]  BY <1>3, <2>1 DEF ReadPositions
  <2>3. r.pc \in {"evaluate", "list"}  BY <1>0, <2>1 DEF Flows
  <2> QED  BY <2>2, <2>3
<1>4. CASE ReadBalance(f) \/ WritePositions(f)
  <2>1. CASE flow' = [flow EXCEPT ![f] = IdleFlow]  BY <1>0, <2>1
  <2>2. CASE WritePositions(f)
    <3>1. PICK r : r = [flow[f] EXCEPT !.pc = "positions"]  OBVIOUS
    <3>2. flow' = [flow EXCEPT ![f] = r]  BY <2>2, <3>1 DEF WritePositions, Go
    <3>3. r.pc = "positions"  BY <1>0, <3>1 DEF Flows
    <3> QED  BY <3>2, <3>3
  <2>3. CASE ReadBalance(f) /\ flow' # [flow EXCEPT ![f] = IdleFlow]
    <3>1. PICK r : r = [flow[f] EXCEPT !.pc = "upsert",
                          !.held = [qty |-> account.qty, avg |-> account.avg, mark |-> market.price]]
      OBVIOUS
    <3>2. flow' = [flow EXCEPT ![f] = r]  BY <2>3, <3>1 DEF ReadBalance, Stop
    <3>3. r.pc = "upsert"  BY <1>0, <3>1 DEF Flows
    <3> QED  BY <3>2, <3>3
  <2> QED  BY <1>4, <2>1, <2>2, <2>3
<1>5. CASE List(f) \/ EndPass(f)
  <2>1. CASE flow' = [flow EXCEPT ![f] = IdleFlow]  BY <1>0, <2>1
  <2>2. CASE List(f) /\ flow' # [flow EXCEPT ![f] = IdleFlow]
    <3>0. PICK open : flow' = [flow EXCEPT ![f].pc = "pass", ![f].list = orders, ![f].rows = open]
      BY <2>2 DEF List, Stop
    <3>1. PICK r : r = [flow[f] EXCEPT !.pc = "pass", !.list = orders, !.rows = open]  OBVIOUS
    <3>2. flow' = [flow EXCEPT ![f] = r]  BY <3>0, <3>1
    <3>3. r.pc = "pass" /\ r.list = orders  BY <1>0, <3>1 DEF Flows
    <3> QED  BY <3>2, <3>3
  <2>3. CASE EndPass(f) /\ flow' # [flow EXCEPT ![f] = IdleFlow]
    <3>1. PICK r : r = [flow[f] EXCEPT !.pc = "unfilled", !.list = <<>>]  OBVIOUS
    <3>2. flow' = [flow EXCEPT ![f] = r]  BY <2>3, <3>1 DEF EndPass, Stop
    <3>3. r.pc = "unfilled"  BY <1>0, <3>1 DEF Flows
    <3> QED  BY <3>2, <3>3
  <2> QED  BY <1>5, <2>1, <2>2, <2>3
<1>6. CASE ReadUnfilled(f)
  <2>1. CASE flow' = [flow EXCEPT ![f] = IdleFlow]  BY <1>0, <2>1
  <2>2. CASE flow' = [flow EXCEPT ![f] = AfterRun(f)]  BY <1>0, <2>2
  <2>3. CASE flow' # [flow EXCEPT ![f] = IdleFlow] /\ flow' # [flow EXCEPT ![f] = AfterRun(f)]
    <3>1. PICK pc, open : pc \in {"cancel", "evaluate"} /\ flow' = [flow EXCEPT ![f].pc = pc, ![f].open = open]
      BY <1>6, <2>3 DEF ReadUnfilled, Stop
    <3>2. PICK r : r = [flow[f] EXCEPT !.pc = pc, !.open = open]  OBVIOUS
    <3>3. flow' = [flow EXCEPT ![f] = r]  BY <3>1, <3>2
    <3>4. r.pc = pc  BY <1>0, <3>2 DEF Flows
    <3> QED  BY <3>1, <3>3, <3>4
  <2> QED  BY <2>1, <2>2, <2>3
<1>7. CASE CancelUnfilled(f)
  <2>1. PICK r : r = [flow[f] EXCEPT !.pc = "evaluate"]  OBVIOUS
  <2>2. flow' = [flow EXCEPT ![f] = r]  BY <1>7, <2>1 DEF CancelUnfilled, Go
  <2>3. r.pc = "evaluate"  BY <1>0, <2>1 DEF Flows
  <2> QED  BY <2>2, <2>3
<1>8. CASE DropJob(f) \/ (AdmitJob(f) /\ InTheWay(Job(f)) # {})
  <2>1. PICK r : r = [flow[f] EXCEPT !.jobs = Tail(flow[f].jobs)]  OBVIOUS
  <2>2. flow' = [flow EXCEPT ![f] = r]  BY <1>8, <2>1 DEF DropJob, AdmitJob
  <2>3. flow[f].pc = "submit" /\ r.pc = flow[f].pc  BY <1>0, <1>8, <2>1 DEF DropJob, AdmitJob, Submitting, Flows
  <2> QED  BY <2>2, <2>3
<1>9. CASE AdmitJob(f) /\ InTheWay(Job(f)) = {}
  <2>1. PICK r : r = [flow[f] EXCEPT !.jobs = Tail(flow[f].jobs), !.id = Len(orders) + 1,
                        !.pc = IF NeedsApproval(Job(f)) THEN "submit" ELSE "post"]
    OBVIOUS
  <2>2. flow' = [flow EXCEPT ![f] = r]  BY <1>9, <2>1 DEF AdmitJob
  <2>3. r.pc \in {"submit", "post"}  BY <1>0, <2>1 DEF Flows
  <2> QED  BY <2>2, <2>3
<1>10. CASE Post(f)
  <2>1. PICK outcome : flow' = [flow EXCEPT ![f].pc = "submit", ![f].bought =
                 @ \/ (outcome = "PENDING" /\ orders[flow[f].id].s.side = "BUY")]
    BY <1>10 DEF Post
  <2>2. PICK r : r = [flow[f] EXCEPT !.pc = "submit", !.bought =
                 @ \/ (outcome = "PENDING" /\ orders[flow[f].id].s.side = "BUY")]
    OBVIOUS
  <2>3. flow' = [flow EXCEPT ![f] = r]  BY <2>1, <2>2
  <2>4. r.pc = "submit"  BY <1>0, <2>2 DEF Flows
  <2> QED  BY <2>3, <2>4
<1>11. CASE EvaluationFails(f)  BY <1>0, <1>11 DEF EvaluationFails
<1>12. CASE EvaluateRules(f)
  <2> DEFINE due == /\ Carries /\ ~Context(f).done
                    /\ Short(Context(f)) \/ \E i \in DOMAIN Evaluate(Context(f)) :
                                               Evaluate(Context(f))[i].side = "BUY"
  <2> HIDE DEF due
  <2>1. PICK r : r = [IdleFlow EXCEPT !.pc = "submit", !.held = flow[f].held,
                                !.jobs = Executable(Evaluate(Context(f))), !.due = due]
    OBVIOUS
  <2>2. flow' = [flow EXCEPT ![f] = r]  BY <1>12, <2>1 DEF EvaluateRules, due
  <2>3. r.pc = "submit"  BY <2>1 DEF IdleFlow
  <2> QED  BY <2>2, <2>3
<1> QED  BY <1>1, <1>2, <1>3, <1>4, <1>5, <1>6, <1>7, <1>8, <1>9, <1>10, <1>11, <1>12

\* The steps of a flow between a fetch and its store, and those that begin one.
LEMMA StoringNews ==
  ASSUME ISafe, NEW f \in Flow,
         \/ SettleAbsent(f) \/ EvaluateV4(f) \/ EndSubmit(f) \/ Fetch(f) \/ StoreRestore(f)
         \/ StoreCarry(f) \/ StoreReset(f) \/ StoreMode(f) \/ StoreQuota(f)
  PROVE  \E r : flow' = [flow EXCEPT ![f] = r] /\ SameNews(r, flow[f])
<1>0. /\ flow[f] \in Flows /\ IdleFlow.pc = "idle" /\ AfterRun(f).pc \in {"idle", "snapshot"}
  BY FlowIs, IdleIs, AfterRunIs
<1>1. ASSUME NEW r, flow' = [flow EXCEPT ![f] = r], ~Settles(r) \/ r.why # "fill",
             ~Settles(flow[f]) \/ flow[f].why # "fill", SameReads(r, flow[f])
      PROVE  \E q : flow' = [flow EXCEPT ![f] = q] /\ SameNews(q, flow[f])
  BY <1>1, NoNews
<1>2. CASE SettleAbsent(f)
  <2>1. flow[f].pc = "pass"  BY <1>2 DEF SettleAbsent
  <2>2. CASE flow' = [flow EXCEPT ![f].pc = "fetch", ![f].why = "restore"]
    <3>1. PICK r : r = [flow[f] EXCEPT !.pc = "fetch", !.why = "restore"]  OBVIOUS
    <3>2. flow' = [flow EXCEPT ![f] = r]  BY <2>2, <3>1
    <3>3. r.pc = "fetch" /\ r.why = "restore" /\ r.rows = flow[f].rows /\ r.list = flow[f].list
      BY <1>0, <3>1 DEF Flows
    <3> QED  BY <1>1, <2>1, <3>2, <3>3 DEF Settles, SameReads
  <2>3. CASE NextRow(f)
    <3>1. PICK r : r = [flow[f] EXCEPT !.rows = @ \ {Row(f)}]  OBVIOUS
    <3>2. flow' = [flow EXCEPT ![f] = r]  BY <2>3, <3>1 DEF NextRow
    <3>3. r.pc = "pass" /\ r.rows \subseteq flow[f].rows /\ r.list = flow[f].list
      BY <1>0, <2>1, <3>1 DEF Flows
    <3> QED  BY <1>1, <2>1, <3>2, <3>3 DEF Settles, SameReads
  <2> QED  BY <1>2, <2>2, <2>3 DEF SettleAbsent
<1>3. CASE EvaluateV4(f)
  <2>1. flow[f].pc = "evaluate"  BY <1>3 DEF EvaluateV4
  <2>2. CASE flow' = [flow EXCEPT ![f] = AfterRun(f)]  BY <1>0, <1>1, <2>1, <2>2 DEF Settles, SameReads
  <2>3. CASE flow' # [flow EXCEPT ![f] = AfterRun(f)]
    <3> DEFINE c  == Context(f)
               ws == [NoStock EXCEPT !.v4 = [NoStock.v4 EXCEPT !.mode = NextMode(c), !.closes = NextCloses(c)]]
    <3>1. PICK r : r = [IdleFlow EXCEPT !.held = flow[f].held, !.why = "persist",
                          !.pc = IF V4Evaluates(c) THEN "fetch" ELSE "submit",
                          !.jobs = SellsFirst(Executable(InfiniteBuyV4(c))), !.ws = ws]
      OBVIOUS
    <3>2. flow' = [flow EXCEPT ![f] = r]  BY <1>3, <2>3, <3>1 DEF EvaluateV4
    <3>3. r.why = "persist" /\ r.pc \in {"fetch", "submit"}  BY <3>1 DEF IdleFlow
    <3> QED  BY <1>1, <2>1, <3>2, <3>3 DEF Settles, SameReads
  <2> QED  BY <2>2, <2>3
<1>4. CASE EndSubmit(f)
  <2>1. flow[f].pc = "submit"  BY <1>4 DEF EndSubmit
  <2>2. PICK r : r = IF Carries /\ flow[f].bought THEN [flow[f] EXCEPT !.pc = "fetch", !.why = "reset"]
                     ELSE IF Carries /\ flow[f].due THEN [flow[f] EXCEPT !.pc = "fetch", !.why = "carry"]
                     ELSE AfterRun(f)
    OBVIOUS
  <2>3. flow' = [flow EXCEPT ![f] = r]  BY <1>4, <2>2 DEF EndSubmit
  <2>4. (r.pc = "fetch" /\ r.why \in {"reset", "carry"}) \/ r.pc \in {"idle", "snapshot"}
    BY <1>0, <2>2 DEF Flows
  <2> QED  BY <1>1, <2>1, <2>3, <2>4 DEF Settles, SameReads
<1>5. CASE Fetch(f)
  <2>1. PICK r : r = [flow[f] EXCEPT !.pc = "store", !.base = stock]  OBVIOUS
  <2>2. flow' = [flow EXCEPT ![f] = r]  BY <1>5, <2>1 DEF Fetch
  <2>3. /\ r.pc = "store" /\ r.why = flow[f].why /\ r.rows = flow[f].rows /\ r.list = flow[f].list
        /\ r.now = flow[f].now /\ r.base = stock /\ flow[f].pc = "fetch"
    BY <1>0, <1>5, <2>1 DEF Fetch, Flows
  <2>4. SameNews(r, flow[f])  BY <2>3 DEF SameNews, SameReads, Told, Settles, Current, RowOf
  <2> QED  BY <2>2, <2>4
<1>6. CASE StoreRestore(f)
  <2>1. PICK r : r = [flow[f] EXCEPT !.pc = "pass", !.rows = @ \ {Row(f)}, !.base = NoStock]  OBVIOUS
  <2>2. flow' = [flow EXCEPT ![f] = r]  BY <1>6, <2>1 DEF StoreRestore
  <2>3. /\ r.pc = "pass" /\ flow[f].why = "restore" /\ r.rows \subseteq flow[f].rows
        /\ r.list = flow[f].list
    BY <1>0, <1>6, <2>1 DEF StoreRestore, Storing, Flows
  <2> QED  BY <1>1, <2>2, <2>3 DEF Settles, SameReads
<1>7. CASE StoreMode(f)
  <2>1. PICK r : r = [flow[f] EXCEPT !.pc = "submit", !.ws = NoStock, !.base = NoStock]  OBVIOUS
  <2>2. flow' = [flow EXCEPT ![f] = r]  BY <1>7, <2>1 DEF StoreMode
  <2>3. r.pc = "submit" /\ flow[f].why = "persist"  BY <1>0, <1>7, <2>1 DEF StoreMode, Storing, Flows
  <2> QED  BY <1>1, <2>2, <2>3 DEF Settles, SameReads
<1>8. CASE StoreCarry(f) \/ StoreReset(f) \/ StoreQuota(f)
  <2>1. flow[f].why # "fill"  BY <1>8 DEF StoreCarry, StoreReset, StoreQuota, Storing
  <2>2. PICK r \in {IdleFlow, AfterRun(f)} : flow' = [flow EXCEPT ![f] = r]
    BY <1>8 DEF StoreCarry, StoreReset, StoreQuota, Stop
  <2> QED  BY <1>0, <1>1, <2>1, <2>2 DEF Settles, SameReads
<1> QED  BY <1>2, <1>3, <1>4, <1>5, <1>6, <1>7, <1>8

LEMMA NewsElsewhere ==
  ASSUME flow \in [Flow -> Flows], NEW f \in Flow, NEW r, flow' = [flow EXCEPT ![f] = r],
         SameNews(r, flow[f])
  PROVE  \A g \in Flow : SameNews(flow'[g], flow[g])
<1>1. flow'[f] = r /\ \A g \in Flow : g # f => flow'[g] = flow[g]  OBVIOUS
<1>2. \A q : SameNews(q, q)  BY DEF SameNews, SameReads
<1> QED  BY <1>1, <1>2

LEMMA LoopNews ==
  ASSUME ISafe, NEW f \in Flow, Loop(f), ~SettleListed(f), ~StoreFill(f)
  PROVE  \A g \in Flow : SameNews(flow'[g], flow[g])
<1>1. PICK r : flow' = [flow EXCEPT ![f] = r] /\ SameNews(r, flow[f])
  BY RunningNews, StoringNews DEF Loop
<1> QED  BY <1>1, NewsElsewhere DEF ISafe, TypeInv

LEMMA StartNews ==
  ASSUME ISafe, \/ StartLoop \/ StartSync \/ StartManual \/ GuardManual \/ StartEdit \/ SaveSnapshot
  PROVE  \A g \in Flow : SameNews(flow'[g], flow[g])
<1>0. /\ IdleFlow.pc = "idle" /\ {"loop", "sync", "manual", "user"} \subseteq Flow
      /\ flow \in [Flow -> Flows]
  BY IdleIs DEF Flow, Run, ISafe, TypeInv
<1>1. ASSUME NEW f \in Flow, NEW r, flow' = [flow EXCEPT ![f] = r],
             r.pc \in {"idle", "guard", "risk", "balance"} \/ (r.pc = "fetch" /\ r.why = "quota"),
             flow[f].pc \in {"idle", "guard", "snapshot"}
      PROVE  \A g \in Flow : SameNews(flow'[g], flow[g])
  <2>1. SameNews(r, flow[f])  BY <1>1, NoNews DEF Settles, SameReads
  <2> QED  BY <1>0, <1>1, <2>1, NewsElsewhere
<1>2. CASE StartLoop
  <2>1. PICK r : r = [IdleFlow EXCEPT !.pc = "risk", !.ws = stock]  OBVIOUS
  <2>2. flow' = [flow EXCEPT !["loop"] = r] /\ flow["loop"].pc = "idle"  BY <1>2, <2>1 DEF StartLoop
  <2>3. r.pc = "risk"  BY <2>1 DEF IdleFlow
  <2> QED  BY <1>0, <1>1, <2>2, <2>3 DEF Settles
<1>3. CASE StartSync
  <2>1. PICK r : r = [flow["sync"] EXCEPT !.pc = "balance"]  OBVIOUS
  <2>2. flow' = [flow EXCEPT !["sync"] = r] /\ flow["sync"].pc = "idle"  BY <1>3, <2>1 DEF StartSync, Go
  <2>3. r.pc = "balance"  BY <1>0, <2>1 DEF Flows
  <2> QED  BY <1>0, <1>1, <2>2, <2>3 DEF Settles
<1>4. CASE StartManual
  <2>1. PICK r : r = [IdleFlow EXCEPT !.pc = "guard", !.ws = stock]  OBVIOUS
  <2>2. flow' = [flow EXCEPT !["manual"] = r] /\ flow["manual"].pc = "idle"  BY <1>4, <2>1 DEF StartManual
  <2>3. r.pc = "guard"  BY <2>1 DEF IdleFlow
  <2> QED  BY <1>0, <1>1, <2>2, <2>3 DEF Settles
<1>5. CASE GuardManual
  <2>1. flow["manual"].pc = "guard"  BY <1>5 DEF GuardManual
  <2>2. CASE flow' = [flow EXCEPT !["manual"] = IdleFlow]  BY <1>0, <1>1, <2>1, <2>2 DEF Settles
  <2>3. CASE flow' # [flow EXCEPT !["manual"] = IdleFlow]
    <3>1. PICK r : r = [flow["manual"] EXCEPT !.pc = "risk"]  OBVIOUS
    <3>2. flow' = [flow EXCEPT !["manual"] = r]  BY <1>5, <2>3, <3>1 DEF GuardManual, Go, Stop
    <3>3. r.pc = "risk"  BY <1>0, <3>1 DEF Flows
    <3> QED  BY <1>0, <1>1, <2>1, <3>2, <3>3 DEF Settles
  <2> QED  BY <2>2, <2>3
<1>6. CASE StartEdit
  <2>1. PICK q \in Quotas : flow' = [flow EXCEPT !["user"] =
                                       [IdleFlow EXCEPT !.pc = "fetch", !.why = "quota", !.new = q]]
    BY <1>6, Zenon DEF StartEdit
  <2>2. PICK r : r = [IdleFlow EXCEPT !.pc = "fetch", !.why = "quota", !.new = q]  OBVIOUS
  <2>3. flow["user"].pc = "idle" /\ flow' = [flow EXCEPT !["user"] = r]
    <3>1. flow["user"].pc = "idle"  BY <1>6, Zenon DEF StartEdit
    <3>2. flow' = [flow EXCEPT !["user"] = r]  BY <2>1, <2>2
    <3> QED  BY <3>1, <3>2
  <2>4. r.pc = "fetch" /\ r.why = "quota"  BY <2>2 DEF IdleFlow
  <2> QED  BY <1>0, <1>1, <2>3, <2>4
<1>7. CASE SaveSnapshot
  <2>1. flow' = [flow EXCEPT !["loop"] = IdleFlow] /\ flow["loop"].pc = "snapshot"
    BY <1>7 DEF SaveSnapshot, Stop
  <2> QED  BY <1>0, <1>1, <2>1 DEF Settles
<1> QED  BY <1>2, <1>3, <1>4, <1>5, <1>6, <1>7

LEMMA SameRowsFills == ASSUME orders \in Seq(Rows), UNCHANGED orders PROVE SameFills
BY DEF SameFills, SameFill

LEMMA RowFills ==
  ASSUME orders \in Seq(Rows), NEW i \in DOMAIN orders, NEW p, orders' = [orders EXCEPT ![i] = p],
         SameFill(p, orders[i])
  PROVE  SameFills
<1>1. DOMAIN orders' = DOMAIN orders /\ Len(orders') = Len(orders)  OBVIOUS
<1>2. \A o : SameFill(o, o)  BY DEF SameFill
<1>3. \A j \in DOMAIN orders : SameFill(orders'[j], orders[j])  BY <1>2
<1> QED  BY <1>1, <1>3 DEF SameFills

LEMMA SettleAbsentFills == ASSUME ISafe, NEW f \in Flow, SettleAbsent(f) PROVE SameFills
<1>0. orders \in Seq(Rows)  BY DEF ISafe, TypeInv
<1>1. CASE UNCHANGED orders  BY <1>0, <1>1, SameRowsFills
<1>2. CASE ~UNCHANGED orders
  <2>1. PICK i : i = Row(f)  OBVIOUS
  <2>2. /\ i \in DOMAIN orders /\ Listing(f)[i] = Current(flow[f]) /\ Listed(Current(flow[f]))
        /\ orders[i] \in Rows
    BY <2>1, PassIs, RowKinds DEF SettleAbsent
  <2>3. PICK p : p = [orders[i] EXCEPT !.status = "CANCELLED"]  OBVIOUS
  <2>4. orders' = [orders EXCEPT ![i] = p] /\ SameRow(f)
    BY <1>2, <2>1, <2>2, <2>3 DEF SettleAbsent
  <2>5. orders[i].status # "FILLED"  BY <2>1, <2>2, <2>4 DEF SameRow, Listed
  <2>6. p.s = orders[i].s /\ p.day = orders[i].day /\ p.filled = orders[i].filled /\ p.told = orders[i].told
        /\ p.amount = orders[i].amount /\ p.status = "CANCELLED"
    BY <2>2, <2>3 DEF Rows
  <2>7. SameFill(p, orders[i])  BY <2>5, <2>6 DEF SameFill
  <2> QED  BY <1>0, <2>2, <2>4, <2>7, RowFills
<1> QED  BY <1>1, <1>2

LEMMA DeadFills ==
  ASSUME ISafe, NEW os, orders' = os, DOMAIN os = DOMAIN orders, Len(os) = Len(orders),
         \A i \in DOMAIN orders : os[i] \in {orders[i], [orders[i] EXCEPT !.live = FALSE]}
  PROVE  SameFills
<1>1. ASSUME NEW i \in DOMAIN orders PROVE SameFill(os[i], orders[i])
  <2>1. orders[i] \in Rows  BY RowKinds
  <2>2. /\ os[i].s = orders[i].s /\ os[i].day = orders[i].day /\ os[i].status = orders[i].status
        /\ os[i].told = orders[i].told /\ os[i].filled = orders[i].filled /\ os[i].amount = orders[i].amount
    BY <2>1 DEF Rows
  <2> QED  BY <2>2 DEF SameFill
<1> QED  BY <1>1 DEF SameFills

LEMMA CancelUnfilledFills == ASSUME ISafe, NEW f \in Flow, CancelUnfilled(f) PROVE SameFills
<1>1. PICK os : orders' = os /\ os = [i \in DOMAIN orders |->
        IF i \in flow[f].open THEN [orders[i] EXCEPT !.live = FALSE] ELSE orders[i]]
  BY DEF CancelUnfilled
<1>2. /\ DOMAIN os = DOMAIN orders
      /\ \A i \in DOMAIN orders : os[i] \in {orders[i], [orders[i] EXCEPT !.live = FALSE]}
  BY <1>1
<1>3. Len(os) = Len(orders)
  <2>1. orders \in Seq(Rows)  BY DEF ISafe, TypeInv
  <2>2. DOMAIN os = 1..Len(orders) /\ Len(orders) \in Nat  BY <1>2, <2>1
  <2>3. os \in Seq(Rows)
    <3>1. orders' \in Seq(Rows)' /\ strategy' = strategy  BY CancelUnfilledKeeps DEF ISafe, TypeInv, CancelUnfilled
    <3> QED  BY <1>1, <3>1, SameTypes
  <2> QED  BY <2>2, <2>3
<1> QED  BY <1>1, <1>2, <1>3, DeadFills

LEMMA NextDayFills == ASSUME ISafe, NextDay PROVE SameFills
<1>1. PICK os : orders' = os /\ os = [i \in DOMAIN orders |-> [orders[i] EXCEPT !.live = FALSE]]
  BY DEF NextDay
<1>2. /\ DOMAIN os = DOMAIN orders
      /\ \A i \in DOMAIN orders : os[i] \in {orders[i], [orders[i] EXCEPT !.live = FALSE]}
  BY <1>1
<1>3. Len(os) = Len(orders)
  <2>1. orders \in Seq(Rows)  BY DEF ISafe, TypeInv
  <2>2. DOMAIN os = 1..Len(orders) /\ Len(orders) \in Nat  BY <1>2, <2>1
  <2>3. os \in Seq(Rows)
    <3>1. orders' \in Seq(Rows)' /\ strategy' = strategy  BY NextDayKeeps DEF ISafe, TypeInv, NextDay
    <3> QED  BY <1>1, <3>1, SameTypes
  <2> QED  BY <2>2, <2>3
<1> QED  BY <1>1, <1>2, <1>3, DeadFills

LEMMA PostFills == ASSUME ISafe, NEW f \in Flow, Post(f) PROVE SameFills
<1>1. PICK i : i = flow[f].id  OBVIOUS
<1>2. i \in DOMAIN orders /\ orders[i].status = "SUBMITTING"
  BY <1>1, FlowIs DEF Post, FlowInv, PostInv
<1>3. PICK outcome \in {"PENDING", "FAILED", "CANCELLED"} :
        orders' = [orders EXCEPT ![i] = IF outcome = "PENDING" THEN Sent(orders[i])
                                        ELSE [orders[i] EXCEPT !.status = outcome]]
  BY <1>1, <1>2 DEF Post
<1>4. PICK p : p = IF outcome = "PENDING" THEN Sent(orders[i]) ELSE [orders[i] EXCEPT !.status = outcome]
  OBVIOUS
<1>5. orders[i] \in Rows /\ orders \in Seq(Rows)  BY <1>2, RowKinds
<1>6. /\ p.s = orders[i].s /\ p.day = orders[i].day /\ p.filled = orders[i].filled
      /\ p.told = orders[i].told /\ p.amount = orders[i].amount /\ p.status # "FILLED"
  BY <1>4, <1>5 DEF Sent, Rows
<1>7. SameFill(p, orders[i])  BY <1>2, <1>6 DEF SameFill
<1> QED  BY <1>2, <1>3, <1>4, <1>5, <1>7, RowFills

LEMMA ApproveFills == ASSUME ISafe, NEW i \in DOMAIN orders, Approve(i) PROVE SameFills
<1>0. PICK s : s = [orders[i].s EXCEPT !.qty = Least(@, account.qty)]  OBVIOUS
<1>1. PICK outcome \in {"PENDING", "FAILED", "CANCELLED"} :
        orders' = [orders EXCEPT ![i] = IF outcome = "PENDING"
                     THEN Sent([orders[i] EXCEPT !.s = IF account.qty = 0 THEN orders[i].s ELSE s])
                     ELSE [orders[i] EXCEPT !.status = outcome]]
  BY <1>0, RowKinds DEF Approve
<1>3. PICK p : p = IF outcome = "PENDING"
                   THEN Sent([orders[i] EXCEPT !.s = IF account.qty = 0 THEN orders[i].s ELSE s])
                   ELSE [orders[i] EXCEPT !.status = outcome]
  OBVIOUS
<1>2. orders[i] \in Rows /\ orders[i].s \in Jobs /\ orders \in Seq(Rows) /\ orders[i].status = "AWAITING"
  BY RowKinds DEF Approve
<1>2a. orders[i].filled = 0  BY <1>2, OrderIs DEF RowOK, Unsent
<1>4. s.side = orders[i].s.side
  <2>1. orders[i].s \in Signals \/ orders[i].s \in V4Signals  BY <1>2, JobIs
  <2> QED  BY <1>0, <2>1 DEF Signals, V4Signals
<1>5. /\ p.s.side = orders[i].s.side /\ p.day = orders[i].day /\ p.filled = orders[i].filled
      /\ p.told = orders[i].told /\ p.amount = orders[i].amount /\ p.status # "FILLED"
  <2> HIDE DEF Least
  <2> QED  BY <1>2, <1>3, <1>4 DEF Sent, Rows
<1>6. SameFill(p, orders[i])  BY <1>2, <1>2a, <1>5 DEF SameFill
<1> QED  BY <1>1, <1>2, <1>3, <1>6, RowFills

LEMMA DeclineFills == ASSUME ISafe, NEW i \in DOMAIN orders, Decline(i) PROVE SameFills
<1>1. orders[i] \in Rows /\ orders \in Seq(Rows) /\ orders[i].status = "AWAITING"  BY RowKinds DEF Decline
<1>2. PICK p : p = [orders[i] EXCEPT !.status = "CANCELLED"]  OBVIOUS
<1>3. orders' = [orders EXCEPT ![i] = p]  BY <1>1, <1>2 DEF Decline
<1>4. /\ p.s = orders[i].s /\ p.day = orders[i].day /\ p.filled = orders[i].filled
      /\ p.told = orders[i].told /\ p.amount = orders[i].amount /\ p.status # "FILLED"
  BY <1>1, <1>2 DEF Rows
<1>5. SameFill(p, orders[i])  BY <1>1, <1>4 DEF SameFill
<1> QED  BY <1>1, <1>3, <1>5, RowFills

LEMMA DieFills == ASSUME ISafe, NEW i \in DOMAIN orders, Die(i) PROVE SameFills
<1>1. orders[i] \in Rows /\ orders \in Seq(Rows)  BY RowKinds
<1>2. PICK p : p = [orders[i] EXCEPT !.live = FALSE]  OBVIOUS
<1>3. orders' = [orders EXCEPT ![i] = p]  BY <1>1, <1>2 DEF Die
<1>4. /\ p.s = orders[i].s /\ p.day = orders[i].day /\ p.filled = orders[i].filled
      /\ p.told = orders[i].told /\ p.amount = orders[i].amount /\ p.status = orders[i].status
  BY <1>1, <1>2 DEF Rows
<1>5. SameFill(p, orders[i])  BY <1>4 DEF SameFill
<1> QED  BY <1>1, <1>3, <1>5, RowFills

LEMMA AdmitFills ==
  ASSUME ISafe, NEW f \in Flow, AdmitJob(f), InTheWay(Job(f)) = {}
  PROVE  SameFills
<1>1. PICK p : p = NewOrder(Job(f))  OBVIOUS
<1>2. orders' = Append(orders, p) /\ orders \in Seq(Rows)  BY <1>1 DEF AdmitJob, ISafe, TypeInv
<1>3. p.filled = 0 /\ p.told = 0 /\ p.amount = 0 /\ p.status # "FILLED"  BY <1>1 DEF NewOrder
<1>4. p \in Rows
  <2>1. PICK s : s = Job(f)  OBVIOUS
  <2>2. flow[f].jobs \in Seq(Jobs) /\ flow[f].jobs # <<>>  BY FlowIs DEF AdmitJob, Submitting, Flows
  <2>3. s \in Jobs  BY <2>1, <2>2 DEF Job
  <2> QED  BY <1>1, <2>1, <2>3, NewOrderIs
<1>5. /\ Len(orders') = Len(orders) + 1
      /\ orders'[Len(orders) + 1] = p
      /\ \A i \in DOMAIN orders : i \in DOMAIN orders' /\ orders'[i] = orders[i]
      /\ \A i \in DOMAIN orders' : i \in DOMAIN orders \/ i = Len(orders) + 1
  BY <1>2, <1>4, AppendIs
<1>6. \A o : SameFill(o, o)  BY DEF SameFill
<1> QED  BY <1>3, <1>5, <1>6 DEF SameFills, Unfilled

LEMMA LoopFills ==
  ASSUME ISafe, NEW f \in Flow, Loop(f), ~SettleListed(f)
  PROVE  SameFills
<1>1. CASE SettleAbsent(f)  BY <1>1, SettleAbsentFills
<1>2. CASE CancelUnfilled(f)  BY <1>2, CancelUnfilledFills
<1>3. CASE Post(f)  BY <1>3, PostFills
<1>4. CASE AdmitJob(f) /\ InTheWay(Job(f)) = {}  BY <1>4, AdmitFills
<1>5. CASE ~SettleAbsent(f) /\ ~CancelUnfilled(f) /\ ~Post(f) /\ ~(AdmitJob(f) /\ InTheWay(Job(f)) = {})
  <2>1. UNCHANGED orders  BY <1>5, LoopOrders
  <2> QED  BY <2>1, SameRowsFills DEF ISafe, TypeInv
<1> QED  BY <1>1, <1>2, <1>3, <1>4, <1>5


\* What the history of a stock keeps.
Remembers == /\ audit.torn => audit'.torn
             /\ audit.mixed => audit'.mixed
             /\ audit.short => audit'.short

LEMMA WatchRemembers == ASSUME ISafe, Watch PROVE Remembers
<1>1. audit \in Audits  BY DEF ISafe, TypeInv, StoresOK
<1> QED  BY <1>1 DEF Watch, Remembers, Audits

LEMMA StoreRemembers ==
  ASSUME ISafe, NEW f, NEW new, NEW aside, NEW short, Store(f, new, aside, short)
  PROVE  Remembers
<1>1. audit \in Audits  BY DEF ISafe, TypeInv, StoresOK
<1> QED  BY <1>1 DEF Store, Remembers, Audits

LEMMA CarryRemembers == ASSUME ISafe, NEW f, NEW invested, Carry(f, invested) PROVE Remembers
BY WatchRemembers, StoreRemembers DEF Carry, StoreColumn

LEMMA LoopRemembers == ASSUME ISafe, NEW f \in Flow, Loop(f) PROVE Remembers
<1>1. CASE Watch  BY <1>1, WatchRemembers
<1>2. CASE StoreFill(f)  BY <1>2, StoreRemembers DEF StoreFill
<1>3. CASE StoreRestore(f)  BY <1>3, CarryRemembers DEF StoreRestore
<1>4. CASE StoreCarry(f)  BY <1>4, CarryRemembers DEF StoreCarry
<1>5. CASE StoreReset(f)  BY <1>5, StoreRemembers DEF StoreReset, StoreColumn
<1>6. CASE StoreMode(f)  BY <1>6, StoreRemembers DEF StoreMode, StoreColumn
<1>7. CASE StoreQuota(f)  BY <1>7, StoreRemembers, WatchRemembers DEF StoreQuota
<1> QED
  BY <1>1, <1>2, <1>3, <1>4, <1>5, <1>6, <1>7
  DEF Loop, ReadRisk, ReadBalance, WritePositions, ReadPositions, List, SettleListed, SettleAbsent,
      EndPass, ReadUnfilled, CancelUnfilled, EvaluateRules, EvaluateV4, EvaluationFails, DropJob,
      AdmitJob, Post, EndSubmit, Fetch

\* The rules of a momentum-breakout stock change with the fills alone.
LEMMA LoopRules ==
  ASSUME ISafe, NEW f \in Flow, Loop(f), ~StoreFill(f), strategy = "momentum-breakout"
  PROVE  stock'.rules = stock.rules
<1>0. stock \in Stocks /\ FlowInv(f, flow[f], orders)  BY FlowIs DEF ISafe, TypeInv, StoresOK
<1>1. CASE UNCHANGED stock  BY <1>1
<1>2. ~StoreRestore(f) /\ ~StoreCarry(f) /\ ~StoreReset(f) /\ ~StoreMode(f)
  BY <1>0 DEF StoreRestore, StoreCarry, StoreReset, StoreMode, Storing, FlowInv, PcInv, Settles
<1>3. CASE StoreQuota(f)
  <2>1. stock' = [stock EXCEPT !.quota = flow[f].new]  BY <1>3 DEF StoreQuota
  <2> QED  BY <1>0, <2>1 DEF Stocks
<1> QED
  BY <1>1, <1>2, <1>3
  DEF Loop, ReadRisk, ReadBalance, WritePositions, ReadPositions, List, SettleListed, SettleAbsent,
      EndPass, ReadUnfilled, CancelUnfilled, EvaluateRules, EvaluateV4, EvaluationFails, DropJob,
      AdmitJob, Post, EndSubmit, Fetch

-----------------------------------------------------------------------------
(* The entry date of a holding.                                            *)
Untold(side)  == \/ \E i \in DOMAIN orders : /\ orders[i].s.side = side /\ orders[i].told < orders[i].filled
                                             /\ side = "SELL" => Remaining(orders[i]) = 0
                 \/ \E f \in Flow : Told(flow[f]) /\ Current(flow[f]).s.side = side

\* As long as no write was lost: with a completed sale the holding is gone, and
\* a holding without a date has a purchase the strategy is yet to hear of.
Dates == (strategy = "momentum-breakout" /\ ~audit.torn /\ ~audit.mixed) =>
  /\ Untold("SELL") => account.qty = 0
  /\ account.qty > 0 => stock.rules.entry # NoDay \/ Untold("BUY")

LEMMA UnheardIs == Unheard <=> Untold("SELL")
BY RowOfFlow DEF Unheard, Untold, Told, Settles, Settling

LEMMA UntoldKept ==
  ASSUME ISafe, ISafe', SameFills, NEW side, \A f \in Flow : SameNews(flow'[f], flow[f])
  PROVE  Untold(side) <=> Untold(side)'
<1>1. ASSUME NEW i \in DOMAIN orders
      PROVE  /\ i \in DOMAIN orders' /\ orders'[i].s.side = orders[i].s.side
             /\ orders'[i].told < orders'[i].filled <=> orders[i].told < orders[i].filled
             /\ orders[i].told < orders[i].filled => Remaining(orders'[i]) = Remaining(orders[i])
  <2>1. SameFill(orders'[i], orders[i]) /\ i \in DOMAIN orders'  BY DEF SameFills
  <2>2. orders[i].told \in Nat /\ orders[i].filled \in Nat
    <3>1. orders[i] \in Rows  BY RowKinds
    <3> QED  BY <3>1 DEF Rows
  <2> QED  BY <2>1, <2>2 DEF SameFill, Remaining
<1>2. \A i \in DOMAIN orders' : i \notin DOMAIN orders => ~(orders'[i].told < orders'[i].filled)
  BY DEF SameFills, Unfilled
<1>3. \A f \in Flow : /\ Told(flow'[f]) <=> Told(flow[f])
                      /\ Told(flow[f]) => Current(flow'[f]) = Current(flow[f])
  BY DEF SameNews
<1>4. ASSUME Untold(side) PROVE Untold(side)'
  <2>1. CASE \E f \in Flow : Told(flow[f]) /\ Current(flow[f]).s.side = side
    BY <1>3, <2>1 DEF Untold, Told, Settles, Current, RowOf
  <2>2. ASSUME NEW i \in DOMAIN orders, orders[i].s.side = side, orders[i].told < orders[i].filled,
               side = "SELL" => Remaining(orders[i]) = 0
        PROVE  Untold(side)'
    <3>1. /\ i \in DOMAIN orders' /\ orders'[i].s.side = side /\ orders'[i].told < orders'[i].filled
          /\ side = "SELL" => Remaining(orders'[i]) = 0
      BY <1>1, <2>2
    <3> QED  BY <3>1 DEF Untold, Remaining
  <2> QED  BY <1>4, <2>1, <2>2 DEF Untold
<1>5. ASSUME Untold(side)' PROVE Untold(side)
  <2>1. CASE \E f \in Flow : Told(flow'[f]) /\ Current(flow'[f]).s.side = side
    BY <1>3, <2>1 DEF Untold
  <2>2. ASSUME NEW i \in DOMAIN orders', orders'[i].s.side = side, orders'[i].told < orders'[i].filled,
               side = "SELL" => Remaining(orders'[i]) = 0
        PROVE  Untold(side)
    <3>1. i \in DOMAIN orders  BY <1>2, <2>2
    <3> QED  BY <1>1, <2>2, <3>1 DEF Untold
  <2> QED  BY <1>5, <2>1, <2>2 DEF Untold, Told, Settles, Current, RowOf, Remaining
<1> QED  BY <1>4, <1>5

LEMMA DatesKept ==
  ASSUME ISafe, ISafe', Dates, SameFills, \A f \in Flow : SameNews(flow'[f], flow[f]), Remembers,
         UNCHANGED <<strategy, account>>,
         strategy = "momentum-breakout" => stock'.rules = stock.rules
  PROVE  Dates'
<1>1. /\ Untold("BUY") <=> Untold("BUY")'
      /\ Untold("SELL") <=> Untold("SELL")'
  BY UntoldKept
<1> SUFFICES ASSUME strategy' = "momentum-breakout", ~audit'.torn, ~audit'.mixed
             PROVE  /\ Untold("SELL")' => account'.qty = 0
                    /\ account'.qty > 0 => stock'.rules.entry # NoDay \/ Untold("BUY")'
  BY DEF Dates
<1> QED  BY <1>1 DEF Dates, Remembers


\* A pass tells the strategy at once of what it found executed.
LEMMA SettleListedDates == ASSUME ISafe, ISafe', Dates, NEW f \in Flow, SettleListed(f) PROVE Dates'
<1> DEFINE i == Row(f)
           l == Current(flow[f])
           now == Rest(l.filled, l.told)
<1>1. flow[f].pc = "pass" /\ flow[f].rows # {} /\ ~Told(flow[f])  BY DEF SettleListed, Told, Settles
<1>2. /\ i \in DOMAIN orders /\ i = RowOf(flow[f]) /\ Listing(f)[i] = l
      /\ l \in Rows /\ RowOK(l) /\ Listed(l) /\ Follows(orders[i], l)
  BY <1>1, PassIs
<1>3. /\ orders[i] \in Rows /\ RowOK(orders[i]) /\ orders \in Seq(Rows)
      /\ flow[f] \in Flows /\ flow \in [Flow -> Flows]
  BY <1>2, OrderIs, FlowIs DEF ISafe, TypeInv
<1>4. PICK p : p = SettledRow(orders[i], l, now)  OBVIOUS
<1>5. \/ UNCHANGED orders /\ NextRow(f)
      \/ /\ p # orders[i] /\ SameRow(f) /\ orders' = [orders EXCEPT ![i] = p]
         /\ IF Tells(p, now) /\ Touches(f, p, now)
            THEN flow' = [flow EXCEPT ![f].pc = "fetch", ![f].why = "fill", ![f].now = now]
            ELSE NextRow(f)
  BY <1>2, <1>4 DEF SettleListed, SettledRow
<1>6. UNCHANGED <<strategy, account, stock>> /\ Remembers  BY WatchRemembers DEF SettleListed
<1> HIDE DEF i, l, now
<1>7. CASE UNCHANGED orders /\ NextRow(f)
  <2>1. PICK r : r = [flow[f] EXCEPT !.rows = @ \ {Row(f)}]  OBVIOUS
  <2>2. flow' = [flow EXCEPT ![f] = r]  BY <1>7, <2>1 DEF NextRow
  <2>3. r.pc = "pass" /\ r.rows \subseteq flow[f].rows /\ r.list = flow[f].list
    BY <1>1, <1>3, <2>1 DEF Flows
  <2>4. SameNews(r, flow[f])  BY <1>1, <2>3, NoNews DEF Settles, SameReads
  <2>5. \A g \in Flow : SameNews(flow'[g], flow[g])  BY <1>3, <2>2, <2>4, NewsElsewhere
  <2>6. SameFills  BY <1>3, <1>7, SameRowsFills
  <2> QED  BY <1>6, <2>5, <2>6, DatesKept
<1>8. CASE /\ p # orders[i] /\ SameRow(f) /\ orders' = [orders EXCEPT ![i] = p]
           /\ IF Tells(p, now) /\ Touches(f, p, now)
              THEN flow' = [flow EXCEPT ![f].pc = "fetch", ![f].why = "fill", ![f].now = now]
              ELSE NextRow(f)
  <2> SUFFICES ASSUME strategy' = "momentum-breakout", ~audit'.torn, ~audit'.mixed
               PROVE  /\ Untold("SELL")' => account'.qty = 0
                      /\ account'.qty > 0 => stock'.rules.entry # NoDay \/ Untold("BUY")'
    BY DEF Dates
  <2>1. orders[i].status = l.status /\ orders[i].known = l.known /\ orders[i].told = l.told
    BY <1>2, <1>8 DEF SameRow, i
  <2>2. /\ p.s = orders[i].s /\ p.filled = orders[i].filled
        /\ now = l.filled - l.told /\ now \in Nat /\ p.told = l.filled
        /\ p.status = "FILLED" => l.filled = l.s.qty
    BY <1>2, <1>3, <1>4, <1>8, <2>1, SettledRowIs DEF now
  <2>3. /\ l.told \in Nat /\ l.filled \in Nat /\ l.filled <= orders[i].filled /\ l.s = orders[i].s
        /\ orders[i].filled \in Nat /\ orders[i].told \in Nat /\ orders[i].filled <= l.s.qty
        /\ l.s.qty \in Nat
    <3>1. l.s \in Jobs  BY <1>2 DEF Rows
    <3> QED  BY <1>2, <1>3, <3>1, JobIs DEF Rows, Follows, RowOK
  <2>4. /\ DOMAIN orders' = DOMAIN orders /\ orders'[i] = p
        /\ \A j \in DOMAIN orders : j # i => orders'[j] = orders[j]
    BY <1>2, <1>3, <1>8
  <2>5. \/ /\ Tells(p, now) /\ Touches(f, p, now)
           /\ Told(flow'[f]) /\ Current(flow'[f]) = l
        \/ /\ ~(Tells(p, now) /\ Touches(f, p, now))
           /\ ~Told(flow'[f])
    <3>1. CASE Tells(p, now) /\ Touches(f, p, now)
      <4>1. PICK r : r = [flow[f] EXCEPT !.pc = "fetch", !.why = "fill", !.now = now]  OBVIOUS
      <4>2. flow' = [flow EXCEPT ![f] = r]  BY <1>3, <1>8, <3>1, <4>1
      <4>3. r.pc = "fetch" /\ r.why = "fill" /\ r.rows = flow[f].rows /\ r.list = flow[f].list
        BY <1>3, <4>1 DEF Flows
      <4>4. Told(r) /\ Current(r) = l  BY <4>3 DEF Told, Settles, Current, RowOf, l
      <4>5. flow'[f] = r  BY <1>3, <4>2
      <4> QED  BY <3>1, <4>4, <4>5
    <3>2. CASE ~(Tells(p, now) /\ Touches(f, p, now))
      <4>1. PICK r : r = [flow[f] EXCEPT !.rows = @ \ {Row(f)}]  OBVIOUS
      <4>2. flow' = [flow EXCEPT ![f] = r]  BY <1>8, <3>2, <4>1 DEF NextRow
      <4>3. flow'[f] = r /\ r.pc = "pass"  BY <1>1, <1>3, <4>1, <4>2 DEF Flows
      <4> QED  BY <3>2, <4>3 DEF Told, Settles
    <3> QED  BY <3>1, <3>2
  <2>6. \A g \in Flow : g # f => flow'[g] = flow[g]  BY <1>3, <1>8 DEF NextRow
  <2>7. Untold("SELL")' => Untold("SELL")
    <3>1. ASSUME NEW j \in DOMAIN orders, orders'[j].s.side = "SELL", orders'[j].told < orders'[j].filled,
                 Remaining(orders'[j]) = 0
          PROVE  Untold("SELL")
      <4>1. CASE j = i
        <5>1. orders[i].s.side = "SELL" /\ orders[i].told < orders[i].filled /\ Remaining(orders[i]) = 0
          BY <2>1, <2>2, <2>3, <2>4, <3>1, <4>1 DEF Remaining
        <5> QED  BY <1>2, <5>1 DEF Untold
      <4>2. CASE j # i  BY <2>4, <3>1, <4>2 DEF Untold
      <4> QED  BY <4>1, <4>2
    <3>2. ASSUME NEW g \in Flow, Told(flow'[g]), Current(flow'[g]).s.side = "SELL"
          PROVE  Untold("SELL")
      <4>1. CASE g = f
        <5>1. p.status = "FILLED" /\ now > 0  BY <2>2, <2>3, <2>5, <3>2, <4>1 DEF Tells
        <5>2. orders[i].s.side = "SELL" /\ orders[i].told < orders[i].filled /\ Remaining(orders[i]) = 0
          BY <2>1, <2>2, <2>3, <2>5, <3>2, <4>1, <5>1 DEF Remaining
        <5> QED  BY <1>2, <5>2 DEF Untold
      <4>2. CASE g # f  BY <2>6, <3>2, <4>2 DEF Untold
      <4> QED  BY <4>1, <4>2
    <3> QED  BY <2>4, <3>1, <3>2 DEF Untold, Told, Settles, Current, RowOf, Remaining
  <2>8. Untold("BUY") => Untold("BUY")'
    <3>1. ASSUME NEW j \in DOMAIN orders, orders[j].s.side = "BUY", orders[j].told < orders[j].filled
          PROVE  Untold("BUY")'
      <4>1. CASE j # i
        <5>1. j \in DOMAIN orders' /\ orders'[j].s.side = "BUY" /\ orders'[j].told < orders'[j].filled
          BY <2>4, <3>1, <4>1
        <5> QED  BY <5>1 DEF Untold
      <4>2. CASE j = i /\ now = 0
        <5>1. i \in DOMAIN orders' /\ orders'[i].s.side = "BUY" /\ orders'[i].told < orders'[i].filled
          BY <1>2, <2>1, <2>2, <2>3, <2>4, <3>1, <4>2
        <5> QED  BY <5>1 DEF Untold
      <4>3. CASE j = i /\ now # 0
        <5>1. Tells(p, now) /\ Touches(f, p, now)
          BY <1>6, <2>2, <3>1, <4>3 DEF Tells, Touches
        <5>2. Told(flow'[f]) /\ Current(flow'[f]).s.side = "BUY"  BY <2>3, <2>5, <3>1, <4>3, <5>1
        <5> QED  BY <5>2 DEF Untold, Told, Settles, Current, RowOf
      <4> QED  BY <4>1, <4>2, <4>3
    <3>2. ASSUME NEW g \in Flow, Told(flow[g]), Current(flow[g]).s.side = "BUY"
          PROVE  Untold("BUY")'
      <4>1. flow'[g] = flow[g]  BY <1>1, <2>6, <3>2
      <4> QED  BY <3>2, <4>1 DEF Untold, Told, Settles, Current, RowOf
    <3> QED  BY <3>1, <3>2 DEF Untold
  <2> QED  BY <1>6, <2>7, <2>8 DEF Dates, Remembers
<1> QED  BY <1>5, <1>7, <1>8

LEMMA StoreFillDates == ASSUME ISafe, ISafe', Dates, NEW f \in Flow, StoreFill(f) PROVE Dates'
<1>1. flow[f].pc = "store" /\ flow[f].why = "fill" /\ flow[f] \in Flows /\ flow \in [Flow -> Flows]
  BY FlowIs DEF StoreFill, Storing, ISafe, TypeInv
<1>2. PICK r : r = [flow[f] EXCEPT !.pc = "pass", !.rows = @ \ {Row(f)}, !.base = NoStock]  OBVIOUS
<1>3. flow' = [flow EXCEPT ![f] = r] /\ r.pc = "pass"  BY <1>1, <1>2 DEF StoreFill, Flows
<1>4. ~Told(flow'[f]) /\ \A g \in Flow : g # f => flow'[g] = flow[g]
  BY <1>1, <1>3 DEF Told, Settles
<1> DEFINE s     == FillOf(f)
           held  == HeldBefore(f, orders[Row(f)], flow[f].now)
           rules == RulesAfterFill(f, s, held)
           v4    == LedgerAfterFill(f, s, held, Compound)
           aside == LedgerAfterFill(f, s, held, TRUE).cash - v4.cash
           short == strategy = "infinite-buy-v4" /\ s.side = "SELL" /\ s.qty > Base(f).v4.known
<1>5. Store(f, [stock EXCEPT !.rules = rules, !.v4 = v4], aside, short)  BY DEF StoreFill
<1>6. s \in Jobs /\ s.side = Current(flow[f]).s.side /\ orders[Row(f)] \in Rows /\ Row(f) \in DOMAIN orders
  BY <1>1, FillOfIs
<1> HIDE DEF s, held, v4, aside, short
<1>7. stock'.rules = rules /\ UNCHANGED <<strategy, account, orders>> /\ Remembers
  <2>1. stock \in Stocks  BY DEF ISafe, TypeInv, StoresOK
  <2>2. stock' = [stock EXCEPT !.rules = rules, !.v4 = v4]  BY <1>5 DEF Store
  <2>3. stock'.rules = rules
    <3> HIDE DEF rules
    <3> QED  BY <2>1, <2>2 DEF Stocks
  <2>4. Remembers
    <3>1. PICK new : new = [stock EXCEPT !.rules = rules, !.v4 = v4]  OBVIOUS
    <3>2. Store(f, new, aside, short)  BY <1>5, <3>1
    <3> HIDE DEF rules
    <3> QED  BY <3>2, StoreRemembers
  <2> QED  BY <1>5, <2>3, <2>4 DEF Store
<1> SUFFICES ASSUME strategy' = "momentum-breakout", ~audit'.torn, ~audit'.mixed
             PROVE  /\ Untold("SELL")' => account'.qty = 0
                    /\ account'.qty > 0 => stock'.rules.entry # NoDay \/ Untold("BUY")'
  BY DEF Dates
<1>8. Untold("SELL")' => Untold("SELL")
  BY <1>4, <1>7 DEF Untold, Told, Settles, Current, RowOf, Remaining
<1>9. Told(flow[f])  BY <1>1 DEF Told, Settles
<1>10. s.side \in {"BUY", "SELL"}  BY <1>6, JobIs
<1>11. CASE s.side = "SELL"
  <2>1. Untold("SELL")  BY <1>6, <1>9, <1>11 DEF Untold
  <2>2. account.qty = 0  BY <1>7, <2>1 DEF Dates, Remembers
  <2> QED  BY <1>7, <2>2
<1>12. CASE s.side = "BUY"
  <2>1. rules = [Base(f).rules EXCEPT !.entry = orders[Row(f)].day]
    BY <1>7, <1>12 DEF RulesAfterFill, MomentumFill
  <2>2. Base(f).rules \in Params  BY <1>1, StoringIs DEF Base
  <2>3. rules.entry = orders[Row(f)].day
    <3> HIDE DEF rules
    <3> QED  BY <2>1, <2>2 DEF Params
  <2>4. orders[Row(f)].day \in 1..day /\ day \in Nat  BY <1>6, OrderIs, BoundAssumption DEF ISafe, TypeInv
  <2>5. stock'.rules.entry # NoDay  BY <1>7, <2>3, <2>4, NoDayAssumption
  <2> QED  BY <1>7, <1>8, <2>5 DEF Dates, Remembers
<1> QED  BY <1>10, <1>11, <1>12


\* What the broker does to the row of an order it fills.
LEMMA TradedRow ==
  ASSUME ISafe, NEW i \in DOMAIN orders, orders[i].live, NEW n \in Lots(i), NEW price \in Nat,
         Trade(i, n, price)
  PROVE  \E p \in Rows :
           /\ orders' = [orders EXCEPT ![i] = p] /\ DOMAIN orders' = DOMAIN orders /\ Len(orders') = Len(orders)
           /\ orders'[i] = p /\ \A j \in DOMAIN orders : j # i => orders'[j] = orders[j]
           /\ p.s = orders[i].s /\ p.told = orders[i].told /\ p.status = orders[i].status
           /\ p.filled = orders[i].filled + n /\ p.amount = orders[i].amount + n * price
           /\ n \in Nat \ {0} /\ n <= Remaining(orders[i]) /\ Remaining(p) = Remaining(orders[i]) - n
           /\ orders[i].filled \in Nat /\ orders[i].told \in Nat /\ orders[i].amount \in Nat
           /\ orders[i].told <= orders[i].filled /\ orders[i].s.side \in {"BUY", "SELL"}
           /\ account.qty \in Nat
           /\ orders[i].s.side = "SELL" => /\ Remaining(orders[i]) <= account.qty
                                           /\ account'.qty = account.qty - n
           /\ orders[i].s.side = "BUY" => account'.qty = account.qty + n
<1>1. /\ orders[i] \in Rows /\ RowOK(orders[i]) /\ account \in Account /\ orders \in Seq(Rows)
      /\ DOMAIN orders = 1..Len(orders) /\ Len(orders) \in Nat
  BY OrderIs DEF ISafe, TypeInv, Account
<1>2. /\ orders[i].s \in Jobs /\ orders[i].filled \in Nat /\ orders[i].amount \in Nat /\ orders[i].told \in Nat
      /\ orders[i].s.side \in {"BUY", "SELL"} /\ orders[i].s.qty \in Nat
  <2>1. orders[i].s \in Jobs  BY <1>1 DEF Rows
  <2> QED  BY <1>1, <2>1, JobIs DEF Rows
<1>3. n \in Nat \ {0} /\ Remaining(orders[i]) \in Nat /\ n <= Remaining(orders[i])
  <2>1. orders[i].filled < orders[i].s.qty  BY <1>1 DEF RowOK
  <2>2. Remaining(orders[i]) \in Nat \ {0}  BY <1>2, <2>1 DEF Remaining
  <2>3. n = Remaining(orders[i]) \/ n = 1  BY DEF Lots
  <2> QED  BY <2>2, <2>3
<1>4. PICK p : p = [orders[i] EXCEPT !.filled = orders[i].filled + n,
                                     !.amount = orders[i].amount + n * price,
                                     !.live = n < Remaining(orders[i])]
  OBVIOUS
<1>5. orders' = [orders EXCEPT ![i] = p]  BY <1>1, <1>4 DEF Trade
<1>6. n * price \in Nat  BY <1>3
<1>7. p \in Rows
  <2>1. orders[i].filled + n \in Nat /\ orders[i].amount + n * price \in Nat
        /\ (n < Remaining(orders[i])) \in BOOLEAN
    BY <1>2, <1>3, <1>6
  <2> QED  BY <1>1, <1>4, <2>1 DEF Rows
<1>8. /\ p.s = orders[i].s /\ p.told = orders[i].told /\ p.status = orders[i].status
      /\ p.filled = orders[i].filled + n /\ p.amount = orders[i].amount + n * price
  BY <1>1, <1>4 DEF Rows
<1>9. Remaining(p) = Remaining(orders[i]) - n  BY <1>2, <1>3, <1>8 DEF Remaining
<1>10. /\ orders' = [orders EXCEPT ![i] = p] /\ DOMAIN orders' = DOMAIN orders /\ Len(orders') = Len(orders)
       /\ orders'[i] = p /\ \A j \in DOMAIN orders : j # i => orders'[j] = orders[j]
  BY <1>1, <1>5, <1>7
<1>11. orders[i].s.side = "SELL" => Remaining(orders[i]) <= account.qty
  BY DEF ISafe, SalesCovered, Working
<1>12. account.qty \in Nat  BY <1>1 DEF Account
<1>13. /\ orders[i].s.side = "SELL" => account'.qty = account.qty - n
       /\ orders[i].s.side = "BUY" => account'.qty = account.qty + n
  BY DEF Trade, Settled
<1>14. orders[i].told <= orders[i].filled  BY <1>1 DEF RowOK
<1> QED  BY <1>2, <1>3, <1>7, <1>8, <1>9, <1>10, <1>11, <1>12, <1>13, <1>14

LEMMA TradeDates ==
  ASSUME ISafe, ISafe', Dates, NEW i \in DOMAIN orders, orders[i].live, NEW n \in Lots(i), NEW price \in Nat,
         Trade(i, n, price)
  PROVE  Dates'
<1>1. PICK p \in Rows :
           /\ DOMAIN orders' = DOMAIN orders
           /\ orders'[i] = p /\ \A j \in DOMAIN orders : j # i => orders'[j] = orders[j]
           /\ p.s = orders[i].s /\ p.told = orders[i].told
           /\ p.filled = orders[i].filled + n
           /\ n \in Nat \ {0} /\ n <= Remaining(orders[i]) /\ Remaining(p) = Remaining(orders[i]) - n
           /\ orders[i].filled \in Nat /\ orders[i].told \in Nat
           /\ orders[i].told <= orders[i].filled /\ orders[i].s.side \in {"BUY", "SELL"}
           /\ account.qty \in Nat
           /\ orders[i].s.side = "SELL" => /\ Remaining(orders[i]) <= account.qty
                                           /\ account'.qty = account.qty - n
           /\ orders[i].s.side = "BUY" => account'.qty = account.qty + n
  BY TradedRow
<1>2. UNCHANGED <<strategy, stock, flow>>  BY DEF Trade
<1>2a. Remaining(orders[i]) \in Int
  <2>1. orders[i].s.qty \in Nat  BY RowKinds, JobIs
  <2> QED  BY <1>1, <2>1 DEF Remaining
<1>3. /\ audit.torn => audit'.torn
      /\ ~audit'.mixed => ~audit.mixed /\ (orders[i].s.side = "BUY" => ~Unheard)
                          /\ (orders[i].s.side = "SELL" => ~(n = Remaining(orders[i]) /\ n < account.qty))
  <2>1. audit \in Audits  BY DEF ISafe, TypeInv, StoresOK
  <2> QED  BY <2>1 DEF Trade, Audits
<1> SUFFICES ASSUME strategy' = "momentum-breakout", ~audit'.torn, ~audit'.mixed
             PROVE  /\ Untold("SELL")' => account'.qty = 0
                    /\ account'.qty > 0 => stock'.rules.entry # NoDay \/ Untold("BUY")'
  BY DEF Dates
<1>4. /\ Untold("SELL") => account.qty = 0
      /\ account.qty > 0 => stock.rules.entry # NoDay \/ Untold("BUY")
  BY <1>2, <1>3 DEF Dates
<1>5. Untold("BUY") => Untold("BUY")'
  <2>1. ASSUME NEW j \in DOMAIN orders, orders[j].s.side = "BUY", orders[j].told < orders[j].filled
        PROVE  orders'[j].s.side = "BUY" /\ orders'[j].told < orders'[j].filled
    BY <1>1, <2>1
  <2> QED  BY <1>1, <1>2, <2>1 DEF Untold, Told, Settles, Current, RowOf
<1>6. ASSUME Untold("SELL")' PROVE Untold("SELL") \/ (orders[i].s.side = "SELL" /\ Remaining(p) = 0)
  BY <1>1, <1>2, <1>6 DEF Untold, Told, Settles, Current, RowOf, Remaining
<1>7. CASE orders[i].s.side = "BUY"
  <2>1. ~Untold("SELL")'  BY <1>3, <1>6, <1>7, UnheardIs
  <2>2. orders'[i].s.side = "BUY" /\ orders'[i].told < orders'[i].filled  BY <1>1, <1>7
  <2>3. Untold("BUY")'  BY <1>1, <2>2 DEF Untold
  <2> QED  BY <2>1, <2>3
<1>8. CASE orders[i].s.side = "SELL" /\ n = Remaining(orders[i])
  <2>1. account'.qty = 0  BY <1>1, <1>2a, <1>3, <1>8
  <2> QED  BY <2>1
<1>9. CASE orders[i].s.side = "SELL" /\ n # Remaining(orders[i])
  <2>1. account.qty > 0 /\ Remaining(p) # 0  BY <1>1, <1>2a, <1>9
  <2> QED  BY <1>2, <1>4, <1>5, <1>6, <2>1
<1> QED  BY <1>1, <1>7, <1>8, <1>9

LEMMA BrokerDates ==
  ASSUME ISafe, ISafe', Dates, NEW i \in DOMAIN orders,
         Approve(i) \/ Decline(i) \/ Fill(i) \/ FillAtClose(i) \/ Die(i)
  PROVE  Dates'
<1>1. market.price \in Nat  BY MarketIs DEF ISafe, TypeInv
<1>2. CASE Fill(i)
  <2>1. orders[i].s.price \in Nat /\ orders[i].live  BY <1>2, RowKinds, JobIs DEF Fill
  <2>2. PICK price \in Nat : \E n \in Lots(i) : Trade(i, n, price)
    <3>1. CASE OrderType(orders[i].s) = "MARKET"  BY <1>1, <1>2, <3>1 DEF Fill
    <3>2. CASE OrderType(orders[i].s) # "MARKET"  BY <1>2, <2>1, <3>2 DEF Fill
    <3> QED  BY <3>1, <3>2
  <2> QED  BY <2>1, <2>2, TradeDates
<1>3. CASE FillAtClose(i)
  <2>1. orders[i].live  BY <1>3 DEF FillAtClose, InAuction
  <2> QED  BY <1>1, <1>3, <2>1, TradeDates DEF FillAtClose
<1>4. CASE Approve(i) \/ Decline(i) \/ Die(i)
  <2>1. SameFills  BY <1>4, ApproveFills, DeclineFills, DieFills
  <2>2. UNCHANGED <<strategy, stock, account, flow>> /\ Watch  BY <1>4 DEF Approve, Decline, Die
  <2>3. \A f \in Flow : SameNews(flow'[f], flow[f])  BY <2>2 DEF SameNews, SameReads
  <2> QED  BY <2>1, <2>2, <2>3, WatchRemembers, DatesKept
<1> QED  BY <1>2, <1>3, <1>4

LEMMA NextDates == ASSUME ISafe, ISafe', Dates, [Next]_vars PROVE Dates'
<1>0. orders \in Seq(Rows)  BY DEF ISafe, TypeInv
<1>1. CASE UNCHANGED vars
  BY <1>1 DEF vars, Dates, Untold, Told, Settles, Current, RowOf, Remaining
<1>2. CASE StartLoop \/ StartSync \/ StartManual \/ GuardManual \/ StartEdit \/ SaveSnapshot
  <2>1. UNCHANGED <<strategy, stock, account, orders>> /\ Watch
    <3>1. CASE StartEdit  BY <3>1, Zenon DEF StartEdit
    <3>2. CASE ~StartEdit
      BY <1>2, <3>2 DEF StartLoop, StartSync, StartManual, GuardManual, SaveSnapshot
    <3> QED  BY <3>1, <3>2
  <2>2. SameFills  BY <1>0, <2>1, SameRowsFills
  <2> QED  BY <1>2, <2>1, <2>2, StartNews, WatchRemembers, DatesKept
<1>3. CASE NextMinute \/ NextDay
  <2>1. UNCHANGED <<strategy, stock, account, flow>> /\ Watch  BY <1>3 DEF NextMinute, NextDay
  <2>2. SameFills
    <3>1. CASE NextDay  BY <3>1, NextDayFills
    <3>2. CASE NextMinute
      <4>1. UNCHANGED orders  BY <3>2 DEF NextMinute
      <4> QED  BY <1>0, <4>1, SameRowsFills
    <3> QED  BY <1>3, <3>1, <3>2
  <2>3. \A f \in Flow : SameNews(flow'[f], flow[f])  BY <2>1 DEF SameNews, SameReads
  <2> QED  BY <2>1, <2>2, <2>3, WatchRemembers, DatesKept
<1>4. ASSUME NEW f \in Flow, Loop(f) PROVE Dates'
  <2>1. CASE SettleListed(f)  BY <2>1, SettleListedDates
  <2>2. CASE StoreFill(f)  BY <2>2, StoreFillDates
  <2>3. CASE ~SettleListed(f) /\ ~StoreFill(f)
    <3>1. \A g \in Flow : SameNews(flow'[g], flow[g])  BY <1>4, <2>3, LoopNews
    <3>2. SameFills /\ Remembers  BY <1>4, <2>3, LoopFills, LoopRemembers
    <3>3. strategy = "momentum-breakout" => stock'.rules = stock.rules  BY <1>4, <2>3, LoopRules
    <3>4. UNCHANGED <<strategy, account>>  BY <1>4, LoopClock
    <3> QED  BY <3>1, <3>2, <3>3, <3>4, DatesKept
  <2> QED  BY <2>1, <2>2, <2>3
<1> QED  BY <1>1, <1>2, <1>3, <1>4, BrokerDates DEF Next

LEMMA InitDates == ASSUME Init PROVE Dates
<1>1. DOMAIN orders = {} /\ IdleFlow.pc = "idle" /\ \A f \in Flow : flow[f] = IdleFlow
  BY IdleIs DEF Init
<1>2. ~Untold("SELL")  BY <1>1 DEF Untold, Told, Settles
<1>3. ~audit.mixed => ~(account.qty > 0)
  <2>1. audit.mixed = (account.qty > 0)  BY DEF Init, NothingYet
  <2> QED  BY <2>1
<1> QED  BY <1>2, <1>3 DEF Dates

\* HoldingIsDated of LiveTrading: whatever the loop, the sync, approvals and the
\* broker do between them, a momentum-breakout holding of which the strategy has
\* heard everything has the entry date that the exits of the next days go by.
THEOREM LiveTradingDated == Spec => []HoldingIsDated
<1>1. Init => Dates  BY InitDates
<1>2. ISafe /\ ISafe' /\ Dates /\ [Next]_vars => Dates'  BY NextDates
<1>3. ISafe /\ Dates => HoldingIsDated
  <2> SUFFICES ASSUME ISafe, Dates, strategy = "momentum-breakout", Quiet, ~audit.mixed, account.qty > 0
               PROVE  stock.rules.entry # NoDay
    BY DEF HoldingIsDated
  <2>1. ~Untold("BUY")
    <3>1. \A i \in DOMAIN orders : ~(orders[i].told < orders[i].filled)
      <4>1. ASSUME NEW i \in DOMAIN orders PROVE orders[i].told = orders[i].filled /\ orders[i].filled \in Nat
        BY RowKinds DEF Quiet, AllTold, Rows
      <4> QED  BY <4>1
    <3>2. \A f \in Flow : ~Told(flow[f])  BY DEF Quiet, AllTold, Settling, Told, Settles
    <3> QED  BY <3>1, <3>2 DEF Untold
  <2> QED  BY <2>1 DEF Dates, Quiet
<1> QED  BY <1>1, <1>2, <1>3, LiveTradingSafe, PTL DEF Spec


-----------------------------------------------------------------------------
(* The ledger of infinite-buy-v4.  Its cash and its shares follow what was  *)
(* executed, less what no pass found yet, and what a flow has found and is  *)
(* still to tell.                                                           *)
Unit(o)   == IF o.filled = 0 THEN 0 ELSE o.amount \div o.filled
Priced(o) == o.amount = Unit(o) * o.filled /\ (o.s.type = "LIMIT" /\ o.filled > 0 => Unit(o) = o.s.price)

CashOf(o)    == IF o.s.side = "BUY" THEN -(Unit(o) * o.told)
                ELSE IF o.status = "FILLED" THEN o.amount ELSE 0
SharesOf(o)  == IF o.s.side = "BUY" THEN o.told - o.filled
                ELSE IF o.status = "FILLED" THEN 0 ELSE o.filled
CashDue(r)   == IF ~Told(r) THEN 0
                ELSE IF Current(r).s.side = "BUY" THEN Unit(Current(r)) * r.now ELSE -Current(r).amount
SharesDue(r) == IF ~Told(r) THEN 0
                ELSE IF Current(r).s.side = "BUY" THEN -r.now ELSE Current(r).s.qty

CashHeard   == SumFunction([i \in DOMAIN orders |-> CashOf(orders[i])])
SharesHeard == SumFunction([i \in DOMAIN orders |-> SharesOf(orders[i])])
CashTold    == CashDue(flow["loop"]) + CashDue(flow["sync"])
SharesTold  == SharesDue(flow["loop"]) + SharesDue(flow["sync"])

\* All shares of an order are filled at one price, and a pass saw no other.
Prices == /\ \A i \in DOMAIN orders : Priced(orders[i])
          /\ \A f \in Flow : \A i \in flow[f].rows :
               /\ Priced(flow[f].list[i])
               /\ flow[f].list[i].filled > 0 => Unit(orders[i]) = Unit(flow[f].list[i])

\* A sale is told when it is complete.
Whole == \A f \in Flow : Told(flow[f]) /\ Current(flow[f]).s.side = "SELL"
                           => Current(flow[f]).filled = Current(flow[f]).s.qty

\* Nobody but the user changes the quota, and every write knows the shares.
Read == /\ flow["user"].pc = "store" => flow["user"].base.quota = stock.quota
        /\ stock.v4.known \in Nat
        /\ \A f \in Flow : flow[f].pc = "store" => flow[f].base.v4.known \in Nat

Balanced == ~audit.torn =>
  /\ stock.v4.cash = stock.quota + audit.seeded - audit.aside + CashHeard + CashTold
  /\ ~audit.short => stock.v4.known = account.qty + SharesHeard + SharesTold

Ledger == strategy = "infinite-buy-v4" => Prices /\ Whole /\ Read /\ Balanced

LEMMA TotalKept ==
  ASSUME NEW n \in Nat, NEW m \in {n, n + 1}, NEW f, NEW g, DOMAIN f = 1..n, DOMAIN g = 1..m,
         \A i \in 1..n : f[i] \in Int /\ g[i] = f[i],
         \A i \in 1..m : i \notin 1..n => g[i] = 0
  PROVE  SumFunction(g) = SumFunction(f) /\ SumFunction(f) \in Int
<1>1. SumFunction(f) \in Int  BY TotalInt
<1>2. CASE m = n  BY <1>1, <1>2, TotalSame
<1>3. CASE m = n + 1
  <2>1. g[n + 1] = 0 /\ DOMAIN g = 1..(n + 1)  BY <1>3
  <2>2. SumFunction(g) = SumFunction(f) + g[n + 1]  BY <2>1, TotalAppend
  <2> QED  BY <1>1, <2>1, <2>2
<1> QED  BY <1>2, <1>3

LEMMA UnitIs ==
  ASSUME NEW o \in Rows
  PROVE  /\ Unit(o) \in Nat /\ o.filled \in Nat /\ o.told \in Nat /\ o.amount \in Nat
         /\ CashOf(o) \in Int /\ SharesOf(o) \in Int
<1>1. o.filled \in Nat /\ o.told \in Nat /\ o.amount \in Nat  BY DEF Rows
<1>2. Unit(o) \in Nat  BY <1>1, DivBound DEF Unit
<1>3. Unit(o) * o.told \in Nat  BY <1>1, <1>2
<1> QED  BY <1>1, <1>2, <1>3 DEF CashOf, SharesOf

\* The row that a flow tells of.
LEMMA ToldIs ==
  ASSUME ISafe, NEW f \in Flow, Told(flow[f])
  PROVE  /\ f \in {"loop", "sync"} /\ Current(flow[f]) \in Rows /\ Current(flow[f]).s \in Jobs
         /\ flow[f].now \in Nat /\ RowOf(flow[f]) \in flow[f].rows /\ RowOf(flow[f]) \in DOMAIN orders
         /\ Current(flow[f]) = flow[f].list[RowOf(flow[f])] /\ Current(flow[f]).filled > 0
         /\ flow[f].now = Current(flow[f]).filled - Current(flow[f]).told
<1>1. flow[f] \in Flows /\ FlowInv(f, flow[f], orders)  BY FlowIs
<1>2. flow[f].rows # {} /\ flow[f].why \in Reasons(f)  BY <1>1 DEF FlowInv, PcInv, Told
<1>3. RowOf(flow[f]) \in flow[f].rows  BY <1>1, <1>2, RowIs
<1>4. RowOf(flow[f]) \in DOMAIN flow[f].list /\ RowOf(flow[f]) \in DOMAIN orders
  BY <1>1, <1>3 DEF FlowInv, ListInv
<1>5. flow[f].list \in Seq(Rows) /\ flow[f].now \in Nat  BY <1>1 DEF Flows
<1>6. Current(flow[f]) \in Rows /\ Current(flow[f]) = flow[f].list[RowOf(flow[f])]
  BY <1>4, <1>5 DEF Current
<1>7. Current(flow[f]).filled \in Nat /\ Current(flow[f]).told \in Nat /\ Current(flow[f]).s \in Jobs
  BY <1>6 DEF Rows
<1>8. flow[f].now = Current(flow[f]).filled - Current(flow[f]).told /\ flow[f].now > 0
  BY <1>1 DEF FlowInv, FillInv
<1>9. Current(flow[f]).filled > 0  BY <1>7, <1>8
<1>10. f \in {"loop", "sync"}  BY <1>2 DEF Reasons, Told, Flow, Run
<1> QED  BY <1>3, <1>4, <1>5, <1>6, <1>7, <1>8, <1>9, <1>10

LEMMA DueIs ==
  ASSUME ISafe, NEW f \in Flow
  PROVE  CashDue(flow[f]) \in Int /\ SharesDue(flow[f]) \in Int
<1>1. CASE Told(flow[f])
  <2>1. Current(flow[f]) \in Rows /\ Current(flow[f]).s \in Jobs /\ flow[f].now \in Nat  BY <1>1, ToldIs
  <2>2. Unit(Current(flow[f])) \in Nat /\ Current(flow[f]).amount \in Nat /\ Current(flow[f]).s.qty \in Nat
    BY <2>1, UnitIs, JobIs
  <2>3. Unit(Current(flow[f])) * flow[f].now \in Nat  BY <2>1, <2>2
  <2> QED  BY <2>1, <2>2, <2>3 DEF CashDue, SharesDue
<1>2. CASE ~Told(flow[f])  BY <1>2 DEF CashDue, SharesDue
<1> QED  BY <1>1, <1>2

LEMMA HeardIs == ASSUME ISafe PROVE CashHeard \in Int /\ SharesHeard \in Int
<1>1. orders \in Seq(Rows) /\ DOMAIN orders = 1..Len(orders) /\ Len(orders) \in Nat
  BY DEF ISafe, TypeInv
<1>2. \A i \in 1..Len(orders) : CashOf(orders[i]) \in Int /\ SharesOf(orders[i]) \in Int
  BY <1>1, UnitIs
<1> QED  BY <1>1, <1>2, TotalInt DEF CashHeard, SharesHeard

LEMMA HeardKept ==
  ASSUME ISafe, ISafe', SameFills
  PROVE  CashHeard' = CashHeard /\ SharesHeard' = SharesHeard
<1>0. PICK os : os = orders'  OBVIOUS
<1>00. PICK n, m : n = Len(orders) /\ m = Len(os)  OBVIOUS
<1> DEFINE f == [i \in DOMAIN orders |-> CashOf(orders[i])]
           g == [i \in DOMAIN os |-> CashOf(os[i])]
           p == [i \in DOMAIN orders |-> SharesOf(orders[i])]
           q == [i \in DOMAIN os |-> SharesOf(os[i])]
<1>1. orders \in Seq(Rows) /\ DOMAIN orders = 1..n /\ n \in Nat  BY <1>00 DEF ISafe, TypeInv
<1>2. DOMAIN os = 1..m /\ m \in {n, n + 1}
  <2>1. os \in Seq(Rows')  BY <1>0 DEF ISafe, TypeInv
  <2> QED  BY <1>0, <1>00, <2>1 DEF SameFills
<1>3. ASSUME NEW i \in 1..n
      PROVE  /\ f[i] \in Int /\ g[i] = f[i]
             /\ p[i] \in Int /\ q[i] = p[i]
  <2>1. i \in DOMAIN os /\ SameFill(os[i], orders[i])  BY <1>0, <1>1, <1>3 DEF SameFills
  <2>2. CashOf(orders[i]) \in Int /\ SharesOf(orders[i]) \in Int  BY <1>1, <1>3, UnitIs
  <2>3. CashOf(os[i]) = CashOf(orders[i]) /\ SharesOf(os[i]) = SharesOf(orders[i])
    BY <2>1 DEF SameFill, CashOf, SharesOf, Unit
  <2> QED  BY <1>1, <2>1, <2>2, <2>3
<1>4. ASSUME NEW i \in 1..m, i \notin 1..n PROVE g[i] = 0 /\ q[i] = 0
  <2>1. Unfilled(os[i])  BY <1>0, <1>1, <1>2, <1>4 DEF SameFills
  <2>2. Unit(os[i]) * os[i].told = 0  BY <2>1 DEF Unfilled, Unit
  <2>3. CashOf(os[i]) = 0 /\ SharesOf(os[i]) = 0  BY <2>1, <2>2 DEF Unfilled, CashOf, SharesOf
  <2> QED  BY <1>2, <2>3
<1>5. DOMAIN f = 1..n /\ DOMAIN g = 1..m /\ DOMAIN p = 1..n /\ DOMAIN q = 1..m  BY <1>1, <1>2
<1> HIDE DEF f, g, p, q
<1>6. SumFunction(g) = SumFunction(f)
  <2>1. \A i \in 1..n : f[i] \in Int /\ g[i] = f[i]  BY <1>3
  <2>2. \A i \in 1..m : i \notin 1..n => g[i] = 0  BY <1>4
  <2> QED  BY <1>1, <1>2, <1>5, <2>1, <2>2, TotalKept, SMTT(30)
<1>7. SumFunction(q) = SumFunction(p)
  <2>1. \A i \in 1..n : p[i] \in Int /\ q[i] = p[i]  BY <1>3
  <2>2. \A i \in 1..m : i \notin 1..n => q[i] = 0  BY <1>4
  <2> QED  BY <1>1, <1>2, <1>5, <2>1, <2>2, TotalKept, SMTT(30)
<1>8. CashHeard' = SumFunction(g) /\ SharesHeard' = SumFunction(q)
  BY <1>0 DEF CashHeard, SharesHeard, g, q, CashOf, SharesOf, Unit
<1> QED  BY <1>6, <1>7, <1>8 DEF CashHeard, SharesHeard, f, p

LEMMA HeardChange ==
  ASSUME ISafe, NEW i \in DOMAIN orders, NEW p \in Rows,
         orders' = [orders EXCEPT ![i] = p]
  PROVE  /\ CashHeard' = CashHeard - CashOf(orders[i]) + CashOf(p)
         /\ SharesHeard' = SharesHeard - SharesOf(orders[i]) + SharesOf(p)
<1>0. PICK os : os = orders'  OBVIOUS
<1>00. PICK n : n = Len(orders)  OBVIOUS
<1> DEFINE f == [j \in DOMAIN orders |-> CashOf(orders[j])]
           g == [j \in DOMAIN os |-> CashOf(os[j])]
           h == [j \in DOMAIN orders |-> SharesOf(orders[j])]
           k == [j \in DOMAIN os |-> SharesOf(os[j])]
<1>1. orders \in Seq(Rows) /\ DOMAIN orders = 1..n /\ n \in Nat /\ i \in 1..n
  BY <1>00 DEF ISafe, TypeInv
<1>2. DOMAIN os = 1..n /\ os[i] = p /\ \A j \in (1..n) \ {i} : os[j] = orders[j]
  BY <1>0, <1>1
<1>3. ASSUME NEW j \in 1..n PROVE orders[j] \in Rows /\ os[j] \in Rows
  BY <1>1, <1>2
<1>4. \A j \in 1..n : f[j] \in Int /\ g[j] \in Int /\ h[j] \in Int /\ k[j] \in Int
  BY <1>1, <1>2, <1>3, UnitIs
<1>5. /\ DOMAIN f = 1..n /\ DOMAIN g = 1..n /\ DOMAIN h = 1..n /\ DOMAIN k = 1..n
      /\ \A j \in (1..n) \ {i} : g[j] = f[j] /\ k[j] = h[j]
      /\ f[i] = CashOf(orders[i]) /\ g[i] = CashOf(p) /\ h[i] = SharesOf(orders[i]) /\ k[i] = SharesOf(p)
  BY <1>1, <1>2
<1> HIDE DEF f, g, h, k
<1>6. SumFunction(g) = SumFunction(f) - f[i] + g[i]
  <2>1. \A j \in 1..n : f[j] \in Int /\ g[j] \in Int  BY <1>4
  <2>2. \A j \in (1..n) \ {i} : g[j] = f[j]  BY <1>5
  <2>3. n \in Nat /\ i \in 1..n /\ DOMAIN f = 1..n /\ DOMAIN g = 1..n  BY <1>1, <1>5
  <2> QED  BY <2>1, <2>2, <2>3, TotalChange
<1>7. SumFunction(k) = SumFunction(h) - h[i] + k[i]
  <2>1. \A j \in 1..n : h[j] \in Int /\ k[j] \in Int  BY <1>4
  <2>2. \A j \in (1..n) \ {i} : k[j] = h[j]  BY <1>5
  <2>3. n \in Nat /\ i \in 1..n /\ DOMAIN h = 1..n /\ DOMAIN k = 1..n  BY <1>1, <1>5
  <2> QED  BY <2>1, <2>2, <2>3, TotalChange
<1>8. CashHeard' = SumFunction(g) /\ SharesHeard' = SumFunction(k)
  BY <1>0 DEF CashHeard, SharesHeard, g, k, CashOf, SharesOf, Unit
<1> QED  BY <1>5, <1>6, <1>7, <1>8 DEF CashHeard, SharesHeard, f, h


\* The prices stay those a pass saw.
LEMMA PricesKept ==
  ASSUME ISafe, ISafe', Prices, NEW os, os = orders',
         \A i \in DOMAIN orders : /\ i \in DOMAIN os /\ Priced(os[i])
                                  /\ orders[i].filled > 0 => Unit(os[i]) = Unit(orders[i]),
         \A i \in DOMAIN os : i \notin DOMAIN orders => Priced(os[i]),
         \A f \in Flow : SameReads(flow'[f], flow[f])
  PROVE  Prices'
<1>1. ASSUME NEW f \in Flow, NEW i \in flow'[f].rows
      PROVE  /\ Priced(flow'[f].list[i])
             /\ flow'[f].list[i].filled > 0 => Unit(os[i]) = Unit(flow'[f].list[i])
  <2>1. PICK r : r = flow'[f]  OBVIOUS
  <2>2. PcInv(f, r)' /\ ListInv(r, os)
    BY <2>1 DEF ISafe, FlowsOK, FlowInv, ListInv, PcInv, RowOK, Follows, Unsent, Listed
  <2>3. r.pc = "pass" \/ (Settles(r) /\ r.why \in {"fill", "restore"})
    BY <1>1, <2>1 DEF ISafe, FlowsOK, FlowInv, PcInv, Settles
  <2>4. \/ i \in flow[f].rows /\ r.list = flow[f].list
        \/ r.list = orders
    BY <1>1, <2>1, <2>3 DEF SameReads
  <2>5. CASE i \in flow[f].rows /\ r.list = flow[f].list
    <3>1. FlowInv(f, flow[f], orders) /\ flow[f] \in Flows  BY FlowIs
    <3>2. Follows(orders[i], flow[f].list[i]) /\ i \in DOMAIN orders /\ i \in DOMAIN flow[f].list
      BY <2>5, <3>1 DEF FlowInv, ListInv
    <3>3. flow[f].list[i].filled \in Nat /\ orders[i].filled \in Nat
      <4>1. flow[f].list[i] \in Rows  BY <3>1, <3>2 DEF Flows
      <4>2. orders[i] \in Rows  BY <3>2, RowKinds
      <4> QED  BY <4>1, <4>2 DEF Rows
    <3>4. flow[f].list[i].filled > 0 => orders[i].filled > 0  BY <3>2, <3>3 DEF Follows
    <3>5. Priced(flow[f].list[i]) /\ (flow[f].list[i].filled > 0 => Unit(orders[i]) = Unit(flow[f].list[i]))
      BY <2>5 DEF Prices
    <3> QED  BY <2>1, <2>5, <3>2, <3>4, <3>5
  <2>6. CASE r.list = orders
    <3>1. i \in DOMAIN orders  BY <1>1, <2>1, <2>2, <2>6 DEF ListInv
    <3>2. Priced(orders[i])  BY <3>1 DEF Prices
    <3> QED  BY <2>1, <2>6, <3>1, <3>2
  <2> QED  BY <2>4, <2>5, <2>6
<1>2. \A i \in DOMAIN os : Priced(os[i])  OBVIOUS
<1> QED  BY <1>1, <1>2 DEF Prices, Priced, Unit

LEMMA PricesSame ==
  ASSUME ISafe, ISafe', Prices, SameFills, \A f \in Flow : SameNews(flow'[f], flow[f])
  PROVE  Prices'
<1>0. PICK os : os = orders'  OBVIOUS
<1>1. ASSUME NEW i \in DOMAIN orders
      PROVE  i \in DOMAIN os /\ Priced(os[i]) /\ Unit(os[i]) = Unit(orders[i])
  <2>1. i \in DOMAIN os /\ SameFill(os[i], orders[i])  BY <1>0 DEF SameFills
  <2>2. Unit(os[i]) = Unit(orders[i])  BY <2>1 DEF SameFill, Unit
  <2>3. Priced(orders[i])  BY DEF Prices
  <2>4. os[i].amount = Unit(os[i]) * os[i].filled  BY <2>1, <2>2, <2>3 DEF SameFill, Priced
  <2>5. os[i].s.type = "LIMIT" /\ os[i].filled > 0 => Unit(os[i]) = os[i].s.price
    BY <2>1, <2>2, <2>3 DEF SameFill, Priced
  <2> QED  BY <2>1, <2>2, <2>4, <2>5 DEF Priced
<1>2. ASSUME NEW i \in DOMAIN os, i \notin DOMAIN orders PROVE Priced(os[i])
  <2>1. os[i].filled = 0 /\ os[i].amount = 0  BY <1>0, <1>2 DEF SameFills, Unfilled
  <2> QED  BY <2>1 DEF Priced, Unit
<1>3. \A f \in Flow : SameReads(flow'[f], flow[f])  BY DEF SameNews
<1> QED  BY <1>0, <1>1, <1>2, <1>3, PricesKept

LEMMA DuesChange ==
  ASSUME ISafe, NEW f \in {"loop", "sync"}, \A g \in Flow : g # f => flow'[g] = flow[g],
         NEW c \in Int, NEW d \in Int, CashDue(flow'[f]) = c, SharesDue(flow'[f]) = d
  PROVE  /\ CashTold' = CashTold - CashDue(flow[f]) + c
         /\ SharesTold' = SharesTold - SharesDue(flow[f]) + d
         /\ CashTold \in Int /\ SharesTold \in Int
<1>1. /\ CashDue(flow["loop"]) \in Int /\ CashDue(flow["sync"]) \in Int
      /\ SharesDue(flow["loop"]) \in Int /\ SharesDue(flow["sync"]) \in Int
      /\ "loop" \in Flow /\ "sync" \in Flow
  BY DueIs DEF Flow, Run
<1>2. PICK fl : fl = flow'  OBVIOUS
<1>3. CashTold' = CashDue(fl["loop"]) + CashDue(fl["sync"]) /\ SharesTold' = SharesDue(fl["loop"]) + SharesDue(fl["sync"])
  BY <1>2 DEF CashTold, SharesTold, CashDue, SharesDue, Told, Settles, Current, RowOf, Unit
<1>4. CASE f = "loop"
  <2>1. fl["sync"] = flow["sync"] /\ CashDue(fl["loop"]) = c /\ SharesDue(fl["loop"]) = d
    BY <1>1, <1>2, <1>4
  <2> QED  BY <1>1, <1>3, <1>4, <2>1 DEF CashTold, SharesTold
<1>5. CASE f = "sync"
  <2>1. fl["loop"] = flow["loop"] /\ CashDue(fl["sync"]) = c /\ SharesDue(fl["sync"]) = d
    BY <1>1, <1>2, <1>5
  <2> QED  BY <1>1, <1>3, <1>5, <2>1 DEF CashTold, SharesTold
<1> QED  BY <1>4, <1>5

LEMMA DuesKept ==
  ASSUME \A f \in Flow : SameNews(flow'[f], flow[f])
  PROVE  CashTold' = CashTold /\ SharesTold' = SharesTold
<1>1. PICK fl : fl = flow'  OBVIOUS
<1>2. CashTold' = CashDue(fl["loop"]) + CashDue(fl["sync"]) /\ SharesTold' = SharesDue(fl["loop"]) + SharesDue(fl["sync"])
  BY <1>1 DEF CashTold, SharesTold, CashDue, SharesDue, Told, Settles, Current, RowOf, Unit
<1>3. ASSUME NEW f \in Flow PROVE CashDue(fl[f]) = CashDue(flow[f]) /\ SharesDue(fl[f]) = SharesDue(flow[f])
  <2>1. /\ Told(fl[f]) <=> Told(flow[f])
        /\ Told(flow[f]) => Current(fl[f]) = Current(flow[f]) /\ fl[f].now = flow[f].now
    BY <1>1 DEF SameNews
  <2> QED  BY <2>1 DEF CashDue, SharesDue
<1>4. "loop" \in Flow /\ "sync" \in Flow  BY DEF Flow, Run
<1> QED  BY <1>2, <1>3, <1>4 DEF CashTold, SharesTold

LEMMA WholeKept ==
  ASSUME Whole, \A f \in Flow : SameNews(flow'[f], flow[f])
  PROVE  Whole'
<1>1. \A f \in Flow : Told(flow'[f]) /\ Current(flow'[f]).s.side = "SELL"
                        => Current(flow'[f]).filled = Current(flow'[f]).s.qty
  BY DEF Whole, SameNews
<1> QED  BY <1>1 DEF Whole, Told, Settles, Current, RowOf

LEMMA ReadKept ==
  ASSUME Read, \A f \in Flow : SameReads(flow'[f], flow[f]), NEW new, new = stock',
         new.quota = stock.quota, new.v4.known \in Nat
  PROVE  Read'
<1>1. "user" \in Flow  BY DEF Flow
<1>2. flow'["user"].pc = "store" => flow'["user"].base.quota = new.quota  BY <1>1 DEF SameReads, Read
<1>3. \A f \in Flow : flow'[f].pc = "store" => flow'[f].base.v4.known \in Nat  BY DEF SameReads, Read
<1> QED  BY <1>2, <1>3 DEF Read


\* What a step leaves of the account of the ledger kept beside it.
LEMMA WatchBooks == ASSUME ISafe, Watch PROVE audit'.aside = audit.aside /\ audit'.seeded = audit.seeded
<1>1. audit \in Audits  BY DEF ISafe, TypeInv, StoresOK
<1> QED  BY <1>1 DEF Watch, Audits

LEMMA StoreBooks ==
  ASSUME ISafe, NEW f, NEW new, NEW aside \in Int, NEW short \in BOOLEAN, Store(f, new, aside, short)
  PROVE  /\ audit'.aside = audit.aside + aside /\ audit'.seeded = audit.seeded
         /\ ~audit'.torn => ~audit.torn /\ stock.v4 = flow[f].base.v4
         /\ ~audit'.short => ~audit.short /\ ~short
<1>1. audit \in Audits  BY DEF ISafe, TypeInv, StoresOK
<1>2. Column(stock) = Column(Base(f)) => stock.v4 = flow[f].base.v4  BY DEF Column, Base
<1>3. PICK lost : lost = (Column(stock) # Column(Base(f)))  OBVIOUS
<1>4. audit' = [audit EXCEPT !.overlap = @ \/ Overlapping, !.aside = @ + aside, !.short = @ \/ short,
                             !.torn = @ \/ lost]
  BY <1>3 DEF Store
<1>5. /\ audit'.aside = audit.aside + aside /\ audit'.seeded = audit.seeded
      /\ audit'.torn = (audit.torn \/ lost) /\ audit'.short = (audit.short \/ short)
  BY <1>1, <1>4 DEF Audits
<1> QED  BY <1>2, <1>3, <1>5

\* A step that executes, finds and tells nothing.
LEMMA LedgerKept ==
  ASSUME ISafe, ISafe', Ledger, SameFills, \A f \in Flow : SameNews(flow'[f], flow[f]), Remembers,
         UNCHANGED <<strategy, account>>, audit'.aside = audit.aside, audit'.seeded = audit.seeded,
         NEW new \in Stocks, new = stock',
         strategy = "infinite-buy-v4" /\ Read => Read',
         strategy = "infinite-buy-v4" /\ ~audit'.torn =>
            new.v4.cash - new.quota = stock.v4.cash - stock.quota /\ new.v4.known = stock.v4.known
  PROVE  Ledger'
<1> SUFFICES ASSUME strategy = "infinite-buy-v4" PROVE (Prices /\ Whole /\ Read /\ Balanced)'
  BY DEF Ledger
<1>1. Prices' /\ Whole' /\ Read'  BY PricesSame, WholeKept DEF Ledger
<1>2. CashTold' = CashTold /\ SharesTold' = SharesTold /\ CashHeard' = CashHeard /\ SharesHeard' = SharesHeard
  BY DuesKept, HeardKept
<1>3. CashTold \in Int /\ SharesTold \in Int /\ CashHeard \in Int /\ SharesHeard \in Int
  <2>1. "loop" \in Flow /\ "sync" \in Flow  BY DEF Flow, Run
  <2> QED  BY <2>1, DueIs, HeardIs DEF CashTold, SharesTold
<1>4. /\ stock.v4.cash \in Int /\ stock.quota \in Nat /\ stock.v4.known \in Int
      /\ new.v4.cash \in Int /\ new.quota \in Nat /\ new.v4.known \in Int
      /\ audit.aside \in Int /\ audit.seeded \in Int /\ account.qty \in Nat
  BY DEF ISafe, TypeInv, StoresOK, Stocks, Ledgers, Audits
<1>5. ASSUME ~audit'.torn
      PROVE  /\ new.v4.cash = new.quota + audit'.seeded - audit'.aside + CashHeard' + CashTold'
             /\ ~audit'.short => new.v4.known = account'.qty + SharesHeard' + SharesTold'
  <2>1. /\ stock.v4.cash = stock.quota + audit.seeded - audit.aside + CashHeard + CashTold
        /\ ~audit.short => stock.v4.known = account.qty + SharesHeard + SharesTold
    BY <1>5 DEF Ledger, Balanced, Remembers
  <2>2. ~audit'.short => ~audit.short  BY DEF Remembers
  <2>3. new.v4.cash - new.quota = stock.v4.cash - stock.quota /\ new.v4.known = stock.v4.known  BY <1>5
  <2> QED  BY <1>2, <1>3, <1>4, <2>1, <2>2, <2>3
<1>6. Balanced'  BY <1>5 DEF Balanced
<1> QED  BY <1>1, <1>6

LEMMA V4Books ==
  ASSUME NEW v4 \in Ledgers, v4.known \in Nat, NEW s \in V4Signals, NEW qty \in Nat, NEW amount \in Nat,
         NEW before, NEW n, NEW quota \in Nat, NEW compound \in BOOLEAN,
         NEW p, p = V4Fill(v4, s, qty, amount, before, n, quota, compound)
  PROVE  /\ s.side = "BUY" => p.cash = v4.cash - amount /\ p.known = v4.known + qty
         /\ s.side # "BUY" => /\ p.cash \in Int /\ p.known \in Nat
                              /\ compound => p.cash = v4.cash + amount
                              /\ qty <= v4.known => p.known = v4.known - qty
<1>1. v4.known # NotKnown /\ v4.cash \in Int  BY DEF NotKnown, Ledgers
<1>2. CASE s.side = "BUY"
  <2>1. PICK turn : turn = TurnAfterBuy(v4.turn, s, amount, n)  OBVIOUS
  <2>2. p = [v4 EXCEPT !.turn = turn, !.cash = v4.cash - amount, !.known = v4.known + qty]
    BY <1>1, <1>2, <2>1 DEF V4Fill, BuyFill
  <2>3. p.cash = v4.cash - amount /\ p.known = v4.known + qty  BY <2>2 DEF Ledgers
  <2> QED  BY <1>2, <2>3
<1>3. CASE s.side # "BUY" /\ v4.known <= qty
  <2>1. PICK cash : cash = IF compound THEN v4.cash + amount ELSE Least(v4.cash + amount, quota)  OBVIOUS
  <2>2. cash \in Int /\ (compound => cash = v4.cash + amount)  BY <1>1, <2>1 DEF Least
  <2>3. p = [v4 EXCEPT !.turn = 0, !.seq = @ + 1, !.known = 0, !.cash = cash]
    BY <1>1, <1>3, <2>1 DEF V4Fill, SellFill
  <2>4. p.cash = cash /\ p.known = 0  BY <2>3 DEF Ledgers
  <2> QED  BY <1>3, <2>2, <2>4
<1>4. CASE s.side # "BUY" /\ ~(v4.known <= qty)
  <2>1. PICK turn : turn = TurnAfterSell(v4.turn, s, qty)  OBVIOUS
  <2>2. p = [v4 EXCEPT !.turn = turn, !.cash = v4.cash + amount, !.known = v4.known - qty]
    BY <1>1, <1>4, <2>1 DEF V4Fill, SellFill
  <2>3. p.cash = v4.cash + amount /\ p.known = v4.known - qty  BY <2>2 DEF Ledgers
  <2> QED  BY <1>1, <1>4, <2>3
<1> QED  BY <1>2, <1>3, <1>4

LEMMA StoreFillLedger == ASSUME ISafe, ISafe', Ledger, NEW f \in Flow, StoreFill(f) PROVE Ledger'
<1> DEFINE s     == FillOf(f)
           l     == Current(flow[f])
           held  == HeldBefore(f, orders[Row(f)], flow[f].now)
           rules == RulesAfterFill(f, s, held)
           p     == LedgerAfterFill(f, s, held, Compound)
           q     == LedgerAfterFill(f, s, held, TRUE)
           short == strategy = "infinite-buy-v4" /\ s.side = "SELL" /\ s.qty > Base(f).v4.known
           base  == flow[f].base.v4
           paid  == Unit(l) * s.qty
<1>1. flow[f].pc = "store" /\ flow[f].why = "fill" /\ Told(flow[f])
  BY DEF StoreFill, Storing, Told, Settles
<1>2. /\ f \in {"loop", "sync"} /\ l \in Rows /\ l.s \in Jobs /\ flow[f].now \in Nat
      /\ RowOf(flow[f]) \in flow[f].rows /\ l = flow[f].list[RowOf(flow[f])] /\ l.filled > 0
  BY <1>1, ToldIs
<1>3. /\ s \in Jobs /\ s.side = l.s.side /\ Listing(f)[Row(f)] = l /\ s.qty \in Nat
      /\ s.qty = IF s.side = "BUY" THEN flow[f].now ELSE l.s.qty
      /\ base \in Ledgers /\ flow[f].base.quota \in Nat
  BY <1>1, FillOfIs, PaidIs, StoringIs
<1>4. Store(f, [stock EXCEPT !.rules = rules, !.v4 = p], q.cash - p.cash, short)  BY DEF StoreFill
<1>5. p \in Ledgers /\ q \in Ledgers
  <2>1. TRUE \in BOOLEAN /\ Compound \in BOOLEAN  BY FlagAssumption
  <2> QED  BY <1>1, <2>1, LedgerAfterFillIs
<1>6. short \in BOOLEAN  OBVIOUS
<1>7. p = LedgerAfterFill(f, s, held, Compound) /\ q = LedgerAfterFill(f, s, held, TRUE)  OBVIOUS
<1>8. strategy = "infinite-buy-v4" /\ ~short => ~(s.side = "SELL" /\ s.qty > base.known)
  BY Zenon DEF Base
<1> HIDE DEF rules, p, q, short, l, held, s, base
<1>9. /\ stock'.v4 = p /\ stock'.quota = stock.quota /\ UNCHANGED <<strategy, orders, account>>
      /\ audit'.aside = audit.aside + (q.cash - p.cash) /\ audit'.seeded = audit.seeded
      /\ ~audit'.torn => ~audit.torn /\ stock.v4 = base
      /\ ~audit'.short => ~audit.short /\ ~short
  <2>1. stock \in Stocks  BY DEF ISafe, TypeInv, StoresOK
  <2>2. stock' = [stock EXCEPT !.rules = rules, !.v4 = p] /\ UNCHANGED <<strategy, orders, account>>
    BY <1>4 DEF Store
  <2>3. stock'.v4 = p /\ stock'.quota = stock.quota  BY <2>1, <2>2 DEF Stocks
  <2>4. PICK new : new = [stock EXCEPT !.rules = rules, !.v4 = p]  OBVIOUS
  <2>5. q.cash - p.cash \in Int  BY <1>5 DEF Ledgers
  <2>6. PICK aside \in Int : aside = q.cash - p.cash  BY <2>5
  <2>7. Store(f, new, aside, short)  BY <1>4, <2>4, <2>6
  <2>8. /\ audit'.aside = audit.aside + aside /\ audit'.seeded = audit.seeded
        /\ ~audit'.torn => ~audit.torn /\ stock.v4 = flow[f].base.v4
        /\ ~audit'.short => ~audit.short /\ ~short
    BY <1>6, <2>7, StoreBooks
  <2> QED  BY <2>2, <2>3, <2>6, <2>8 DEF base
<1> SUFFICES ASSUME strategy = "infinite-buy-v4" PROVE (Prices /\ Whole /\ Read /\ Balanced)'
  BY <1>9 DEF Ledger
<1>10. Prices /\ Whole /\ Read /\ Balanced  BY DEF Ledger
<1>11. base.known \in Nat /\ paid \in Nat /\ Unit(l) \in Nat /\ l.amount = Unit(l) * l.filled
  <2>1. Priced(l)  BY <1>2, <1>10 DEF Prices
  <2>2. Unit(l) \in Nat  BY <1>2, UnitIs
  <2> QED  BY <1>1, <1>3, <1>10, <2>1, <2>2 DEF Read, Priced, base
<1>11a. ~audit'.short => ~audit.short /\ (s.side = "SELL" => s.qty <= base.known)
  <2>1. ~audit'.short => ~audit.short /\ ~(s.side = "SELL" /\ s.qty > base.known)
    BY <1>8, <1>9, Zenon
  <2> QED  BY <1>3, <1>11, <2>1
<1>12. /\ s.side = "BUY" => p.cash = base.cash - paid /\ q.cash = p.cash /\ p.known = base.known + s.qty
       /\ s.side # "BUY" => /\ q.cash = base.cash + paid /\ p.cash \in Int /\ p.known \in Nat
                            /\ s.qty <= base.known => p.known = base.known - s.qty
  <2>1. Unit(l) = l.amount \div l.filled  BY <1>2 DEF Unit
  <2>2. s \in V4Signals  BY <1>3, JobIs
  <2>3. /\ p = V4Fill(base, s, s.qty, paid, held, Cycles, flow[f].base.quota, Compound)
        /\ q = V4Fill(base, s, s.qty, paid, held, Cycles, flow[f].base.quota, TRUE)
    BY <1>3, <1>7, <2>1 DEF LedgerAfterFill, Base, base
  <2>4. PICK one, all \in BOOLEAN : one = Compound /\ all = TRUE  BY FlagAssumption
  <2> HIDE DEF paid
  <2>5. /\ p = V4Fill(base, s, s.qty, paid, held, Cycles, flow[f].base.quota, one)
        /\ q = V4Fill(base, s, s.qty, paid, held, Cycles, flow[f].base.quota, all)
    BY <2>3, <2>4
  <2>6. /\ s.side = "BUY" => p.cash = base.cash - paid /\ p.known = base.known + s.qty
        /\ s.side # "BUY" => /\ p.cash \in Int /\ p.known \in Nat
                             /\ s.qty <= base.known => p.known = base.known - s.qty
    BY <1>3, <1>11, <2>2, <2>5, V4Books
  <2>7. /\ s.side = "BUY" => q.cash = base.cash - paid
        /\ s.side # "BUY" => (all => q.cash = base.cash + paid)
    BY <1>3, <1>11, <2>2, <2>5, V4Books
  <2>8. s.side # "BUY" => q.cash = base.cash + paid  BY <2>4, <2>7
  <2> QED  BY <2>6, <2>7, <2>8
<1>13. paid = IF s.side = "BUY" THEN Unit(l) * flow[f].now ELSE l.amount
  <2>1. s.side # "BUY" => l.s.side = "SELL"  BY <1>2, <1>3, JobIs
  <2>2. l.s.side = "SELL" => l.filled = l.s.qty  BY <1>1, <1>10 DEF Whole, l
  <2> QED  BY <1>3, <1>11, <2>1, <2>2
<1>14. CashDue(flow[f]) = IF s.side = "BUY" THEN paid ELSE -l.amount
  BY <1>1, <1>3, <1>13 DEF CashDue, l
<1>15. SharesDue(flow[f]) = IF s.side = "BUY" THEN -s.qty ELSE s.qty
  BY <1>1, <1>3 DEF SharesDue, l
<1>16. PICK r : r = [flow[f] EXCEPT !.pc = "pass", !.rows = @ \ {Row(f)}, !.base = NoStock]  OBVIOUS
<1>17. /\ flow' = [flow EXCEPT ![f] = r] /\ flow \in [Flow -> Flows]
       /\ r.pc = "pass" /\ r.rows \subseteq flow[f].rows /\ r.list = flow[f].list
  <2>1. flow[f] \in Flows /\ flow \in [Flow -> Flows]  BY FlowIs DEF ISafe, TypeInv
  <2>2. flow' = [flow EXCEPT ![f] = r]  BY <1>16 DEF StoreFill
  <2> QED  BY <1>16, <2>1, <2>2 DEF Flows
<1>18. flow'[f] = r /\ \A g \in Flow : g # f => flow'[g] = flow[g]  BY <1>17
<1>19. \A g \in Flow : SameReads(flow'[g], flow[g])  BY <1>17, <1>18 DEF SameReads, Settles
<1>20. ~Told(flow'[f])  BY <1>17, <1>18 DEF Told, Settles
<1>21. Prices'
  <2>1. \A i \in DOMAIN orders : /\ Priced(orders[i])
                                 /\ orders[i].filled > 0 => Unit(orders[i]) = Unit(orders[i])
    BY <1>10 DEF Prices
  <2>2. orders = orders'  BY <1>9
  <2> QED  BY <1>10, <1>19, <2>1, <2>2, PricesKept
<1>22. Whole'
  <2>1. \A g \in Flow : Told(flow'[g]) /\ Current(flow'[g]).s.side = "SELL"
                        => Current(flow'[g]).filled = Current(flow'[g]).s.qty
    BY <1>10, <1>18, <1>20 DEF Whole
  <2> QED  BY <2>1 DEF Whole, Told, Settles, Current, RowOf
<1>23. Read'
  <2>1. p.known \in Nat  BY <1>3, <1>11, <1>12
  <2> QED  BY <1>9, <1>10, <1>19, <2>1, ReadKept
<1>24. /\ CashTold' = CashTold - CashDue(flow[f]) + 0 /\ SharesTold' = SharesTold - SharesDue(flow[f]) + 0
       /\ CashTold \in Int /\ SharesTold \in Int
  <2>1. CashDue(flow'[f]) = 0 /\ SharesDue(flow'[f]) = 0  BY <1>20 DEF CashDue, SharesDue
  <2> QED  BY <1>2, <1>18, <2>1, DuesChange
<1>25. CashHeard' = CashHeard /\ SharesHeard' = SharesHeard /\ CashHeard \in Int /\ SharesHeard \in Int
  BY <1>9, HeardIs DEF CashHeard, SharesHeard, CashOf, SharesOf, Unit
<1>26. /\ base.cash \in Int /\ stock.quota \in Nat /\ p.cash \in Int /\ q.cash \in Int /\ l.amount \in Nat
       /\ audit.aside \in Int /\ audit.seeded \in Int /\ account.qty \in Nat
  BY <1>2, <1>3, <1>5 DEF ISafe, TypeInv, StoresOK, Stocks, Ledgers, Audits, Rows
<1>27. ASSUME ~audit'.torn
       PROVE  /\ p.cash = stock.quota + audit.seeded - (audit.aside + (q.cash - p.cash)) + CashHeard' + CashTold'
              /\ ~audit'.short => p.known = account.qty + SharesHeard' + SharesTold'
  <2>1. /\ base.cash = stock.quota + audit.seeded - audit.aside + CashHeard + CashTold
        /\ ~audit.short => base.known = account.qty + SharesHeard + SharesTold
    BY <1>9, <1>10, <1>27 DEF Balanced
  <2>2. CASE s.side = "BUY"
    <3>1. CashTold' = CashTold - paid /\ SharesTold' = SharesTold + s.qty
      BY <1>3, <1>11, <1>14, <1>15, <1>24, <2>2
    <3>2. p.cash = base.cash - paid /\ q.cash = p.cash /\ p.known = base.known + s.qty  BY <1>12, <2>2
    <3>3. paid \in Int /\ base.known \in Nat /\ s.qty \in Nat  BY <1>3, <1>11
    <3> HIDE DEF paid
    <3>4. p.cash = stock.quota + audit.seeded - (audit.aside + (q.cash - p.cash)) + CashHeard' + CashTold'
      BY <1>24, <1>25, <1>26, <2>1, <3>1, <3>2, <3>3
    <3>5. ~audit'.short => p.known = account.qty + SharesHeard' + SharesTold'
      BY <1>11a, <1>24, <1>25, <1>26, <2>1, <3>1, <3>2, <3>3
    <3> QED  BY <3>4, <3>5
  <2>3. CASE s.side # "BUY"
    <3>1. CashTold' = CashTold + paid /\ SharesTold' = SharesTold - s.qty
      BY <1>3, <1>11, <1>13, <1>14, <1>15, <1>24, <1>26, <2>3
    <3>2. s.side = "SELL"  BY <1>3, <2>3, JobIs
    <3>3. ~audit'.short => s.qty <= base.known /\ ~audit.short  BY <1>11a, <3>2
    <3>4. /\ q.cash = base.cash + paid
          /\ s.qty <= base.known => p.known = base.known - s.qty
      BY <1>12, <2>3
    <3>5. paid \in Int /\ base.known \in Nat /\ s.qty \in Nat  BY <1>3, <1>11
    <3> HIDE DEF paid
    <3>6. p.cash = stock.quota + audit.seeded - (audit.aside + (q.cash - p.cash)) + CashHeard' + CashTold'
      BY <1>24, <1>25, <1>26, <2>1, <3>1, <3>4, <3>5
    <3>7. ~audit'.short => p.known = account.qty + SharesHeard' + SharesTold'
      BY <1>24, <1>25, <1>26, <2>1, <3>1, <3>3, <3>4, <3>5
    <3> QED  BY <3>6, <3>7
  <2> QED  BY <2>2, <2>3
<1>28. Balanced'  BY <1>9, <1>27 DEF Balanced
<1> QED  BY <1>21, <1>22, <1>23, <1>28


\* What a pass finds it tells, but for shares of a sale that is not complete.
LEMMA SettleListedLedger == ASSUME ISafe, ISafe', Ledger, NEW f \in Flow, SettleListed(f) PROVE Ledger'
<1> DEFINE i == Row(f)
           l == Current(flow[f])
           now == Rest(l.filled, l.told)
<1>1. flow[f].pc = "pass" /\ flow[f].rows # {} /\ ~Told(flow[f])  BY DEF SettleListed, Told, Settles
<1>2. /\ f \in {"loop", "sync"} /\ i \in DOMAIN orders /\ i = RowOf(flow[f]) /\ Listing(f)[i] = l
      /\ l \in Rows /\ RowOK(l) /\ Listed(l) /\ Follows(orders[i], l)
  BY <1>1, PassIs
<1>2a. i \in flow[f].rows /\ l = flow[f].list[i]  BY <1>1, <1>2, PassIs DEF Current
<1>3. /\ orders[i] \in Rows /\ RowOK(orders[i]) /\ orders \in Seq(Rows)
      /\ flow[f] \in Flows /\ flow \in [Flow -> Flows] /\ stock \in Stocks
  BY <1>2, OrderIs, FlowIs DEF ISafe, TypeInv, StoresOK
<1>4. PICK p : p = SettledRow(orders[i], l, now)  OBVIOUS
<1>5. \/ UNCHANGED orders /\ NextRow(f)
      \/ /\ p # orders[i] /\ SameRow(f) /\ orders' = [orders EXCEPT ![i] = p]
         /\ IF Tells(p, now) /\ Touches(f, p, now)
            THEN flow' = [flow EXCEPT ![f].pc = "fetch", ![f].why = "fill", ![f].now = now]
            ELSE NextRow(f)
  BY <1>2, <1>4 DEF SettleListed, SettledRow
<1>6. /\ UNCHANGED <<strategy, account, stock>> /\ Remembers
      /\ audit'.aside = audit.aside /\ audit'.seeded = audit.seeded /\ Watch
  BY WatchRemembers, WatchBooks DEF SettleListed
<1> HIDE DEF i, l, now
<1>7. CASE UNCHANGED orders /\ NextRow(f)
  <2>1. PICK r : r = [flow[f] EXCEPT !.rows = @ \ {Row(f)}]  OBVIOUS
  <2>2. flow' = [flow EXCEPT ![f] = r]  BY <1>7, <2>1 DEF NextRow
  <2>3. r.pc = "pass" /\ r.rows \subseteq flow[f].rows /\ r.list = flow[f].list
    BY <1>1, <1>3, <2>1 DEF Flows
  <2>4. SameNews(r, flow[f])  BY <1>1, <2>3, NoNews DEF Settles, SameReads
  <2>5. \A g \in Flow : SameNews(flow'[g], flow[g])  BY <1>3, <2>2, <2>4, NewsElsewhere
  <2>6. SameFills  BY <1>3, <1>7, SameRowsFills
  <2>7. Read => Read'
    <3>1. Read => stock'.quota = stock.quota /\ stock'.v4.known \in Nat  BY <1>6 DEF Read
    <3>2. \A g \in Flow : SameReads(flow'[g], flow[g])  BY <2>5 DEF SameNews
    <3> QED  BY <3>1, <3>2, ReadKept
  <2> QED  BY <1>3, <1>6, <2>5, <2>6, <2>7, LedgerKept
<1>8. CASE /\ p # orders[i] /\ SameRow(f) /\ orders' = [orders EXCEPT ![i] = p]
           /\ IF Tells(p, now) /\ Touches(f, p, now)
              THEN flow' = [flow EXCEPT ![f].pc = "fetch", ![f].why = "fill", ![f].now = now]
              ELSE NextRow(f)
  <2> SUFFICES ASSUME strategy = "infinite-buy-v4" PROVE (Prices /\ Whole /\ Read /\ Balanced)'
    BY <1>6 DEF Ledger
  <2>0. Prices /\ Whole /\ Read /\ Balanced  BY DEF Ledger
  <2>1. orders[i].status = l.status /\ orders[i].known = l.known /\ orders[i].told = l.told
    BY <1>2, <1>8 DEF SameRow, i
  <2>2. /\ p \in Rows /\ p.s = orders[i].s /\ p.filled = orders[i].filled /\ p.amount = orders[i].amount
        /\ now = l.filled - l.told /\ now \in Nat /\ p.told = l.filled
        /\ p.status = "FILLED" => l.filled = l.s.qty
    BY <1>2, <1>3, <1>4, <1>8, <2>1, SettledRowIs DEF now
  <2>3. /\ l.told \in Nat /\ l.filled \in Nat /\ l.filled <= orders[i].filled /\ l.s = orders[i].s
        /\ orders[i].filled \in Nat /\ orders[i].told \in Nat /\ orders[i].filled <= l.s.qty
        /\ l.s.qty \in Nat /\ l.s.side \in {"BUY", "SELL"} /\ l.status # "FILLED"
        /\ l.told < l.s.qty /\ orders[i].amount \in Nat /\ l.amount \in Nat
    <3>1. l.s \in Jobs  BY <1>2 DEF Rows
    <3>2. l.s.qty \in Nat \ {0} /\ l.s.side \in {"BUY", "SELL"}  BY <3>1, JobIs
    <3>3. l.told < l.s.qty  BY <1>2, <3>2 DEF RowOK, Listed
    <3> QED  BY <1>2, <1>3, <3>2, <3>3 DEF Rows, Follows, RowOK, Listed
  <2>4. /\ DOMAIN orders' = DOMAIN orders /\ orders'[i] = p
        /\ \A j \in DOMAIN orders : j # i => orders'[j] = orders[j]
    BY <1>2, <1>3, <1>8
  <2>5. \/ /\ Tells(p, now) /\ Told(flow'[f]) /\ Current(flow'[f]) = l /\ flow'[f].now = now
           /\ flow'[f].pc = "fetch"
        \/ /\ ~Tells(p, now) /\ ~Told(flow'[f]) /\ flow'[f].pc = "pass"
    <3>1. CASE Tells(p, now)
      <4>0. Touches(f, p, now)  BY <2>2, <2>3 DEF Touches
      <4>1. PICK r : r = [flow[f] EXCEPT !.pc = "fetch", !.why = "fill", !.now = now]  OBVIOUS
      <4>2. flow' = [flow EXCEPT ![f] = r]  BY <1>3, <1>8, <3>1, <4>0, <4>1
      <4>3. r.pc = "fetch" /\ r.why = "fill" /\ r.rows = flow[f].rows /\ r.list = flow[f].list /\ r.now = now
        BY <1>3, <4>1 DEF Flows
      <4>4. Told(r) /\ Current(r) = l  BY <4>3 DEF Told, Settles, Current, RowOf, l
      <4>5. flow'[f] = r  BY <1>3, <4>2
      <4> QED  BY <3>1, <4>3, <4>4, <4>5
    <3>2. CASE ~Tells(p, now)
      <4>1. PICK r : r = [flow[f] EXCEPT !.rows = @ \ {Row(f)}]  OBVIOUS
      <4>2. flow' = [flow EXCEPT ![f] = r]  BY <1>8, <3>2, <4>1 DEF NextRow
      <4>3. flow'[f] = r /\ r.pc = "pass"  BY <1>1, <1>3, <4>1, <4>2 DEF Flows
      <4> QED  BY <3>2, <4>3 DEF Told, Settles
    <3> QED  BY <3>1, <3>2
  <2>6. /\ \A g \in Flow : g # f => flow'[g] = flow[g]
        /\ flow'[f].rows \subseteq flow[f].rows /\ flow'[f].list = flow[f].list
    <3>1. CASE NextRow(f)
      <4>1. PICK r : r = [flow[f] EXCEPT !.rows = @ \ {Row(f)}]  OBVIOUS
      <4>2. flow' = [flow EXCEPT ![f] = r]  BY <3>1, <4>1 DEF NextRow
      <4>3. r.rows \subseteq flow[f].rows /\ r.list = flow[f].list  BY <1>3, <4>1 DEF Flows
      <4> QED  BY <1>3, <4>2, <4>3
    <3>2. CASE flow' = [flow EXCEPT ![f].pc = "fetch", ![f].why = "fill", ![f].now = now]
      <4>1. PICK r : r = [flow[f] EXCEPT !.pc = "fetch", !.why = "fill", !.now = now]  OBVIOUS
      <4>2. flow' = [flow EXCEPT ![f] = r]  BY <1>3, <3>2, <4>1
      <4>3. r.rows = flow[f].rows /\ r.list = flow[f].list  BY <1>3, <4>1 DEF Flows
      <4> QED  BY <1>3, <4>2, <4>3
    <3> QED  BY <1>8, <3>1, <3>2
  <2>7. \A g \in Flow : SameReads(flow'[g], flow[g])
    <3>1. SameReads(flow'[f], flow[f])  BY <2>5, <2>6 DEF SameReads
    <3> QED  BY <2>6, <3>1 DEF SameReads
  <2>8. Unit(p) = Unit(orders[i]) /\ Priced(p) /\ Priced(l)
        /\ (l.filled > 0 => Unit(orders[i]) = Unit(l)) /\ Unit(l) \in Nat /\ Unit(p) \in Nat
    <3>1. Unit(p) = Unit(orders[i])  BY <2>2 DEF Unit
    <3>2. Priced(p)  BY <1>2, <2>0, <2>2, <3>1 DEF Priced, Prices
    <3>3. Priced(l) /\ (l.filled > 0 => Unit(orders[i]) = Unit(l))  BY <1>2a, <2>0 DEF Prices
    <3> QED  BY <1>2, <2>2, <3>1, <3>2, <3>3, UnitIs
  <2>9. Prices'
    <3>1. PICK os : os = orders'  OBVIOUS
    <3>2. \A j \in DOMAIN orders : /\ j \in DOMAIN os /\ Priced(os[j])
                                   /\ orders[j].filled > 0 => Unit(os[j]) = Unit(orders[j])
      BY <2>0, <2>4, <2>8, <3>1 DEF Prices
    <3>3. \A j \in DOMAIN os : j \in DOMAIN orders  BY <2>4, <3>1
    <3> QED  BY <2>0, <2>7, <3>1, <3>2, <3>3, PricesKept
  <2>10. Whole'
    <3>1. ASSUME NEW g \in Flow, Told(flow'[g]), Current(flow'[g]).s.side = "SELL"
          PROVE  Current(flow'[g]).filled = Current(flow'[g]).s.qty
      <4>1. CASE g = f
        <5>1. l.filled = l.s.qty  BY <2>2, <2>3, <2>5, <3>1, <4>1 DEF Tells
        <5> QED  BY <2>5, <3>1, <4>1, <5>1
      <4>2. CASE g # f  BY <2>0, <2>6, <3>1, <4>2 DEF Whole
      <4> QED  BY <4>1, <4>2
    <3> QED  BY <3>1 DEF Whole, Told, Settles, Current, RowOf
  <2>11. Read'
    <3>1. stock'.quota = stock.quota /\ stock'.v4.known \in Nat  BY <1>6, <2>0 DEF Read
    <3> QED  BY <2>0, <2>7, <3>1, ReadKept
  <2>12. /\ CashHeard' = CashHeard - CashOf(orders[i]) + CashOf(p)
         /\ SharesHeard' = SharesHeard - SharesOf(orders[i]) + SharesOf(p)
         /\ CashHeard \in Int /\ SharesHeard \in Int
         /\ CashOf(orders[i]) \in Int /\ SharesOf(orders[i]) \in Int
         /\ CashOf(p) \in Int /\ SharesOf(p) \in Int
    <3>1. CashHeard' = CashHeard - CashOf(orders[i]) + CashOf(p)
          /\ SharesHeard' = SharesHeard - SharesOf(orders[i]) + SharesOf(p)
      BY <1>2, <1>8, <2>2, HeardChange
    <3> QED  BY <1>3, <2>2, <3>1, HeardIs, UnitIs
  <2>13. CashDue(flow[f]) = 0 /\ SharesDue(flow[f]) = 0  BY <1>1 DEF CashDue, SharesDue
  <2>14. ASSUME CashDue(flow'[f]) \in Int, CashOf(p) + CashDue(flow'[f]) = CashOf(orders[i]),
                SharesDue(flow'[f]) \in Int, SharesOf(p) + SharesDue(flow'[f]) = SharesOf(orders[i])
         PROVE  Balanced'
    <3>0. PICK c \in Int, d \in Int : c = CashDue(flow'[f]) /\ d = SharesDue(flow'[f])  BY <2>14
    <3>1. /\ CashTold' = CashTold + c /\ SharesTold' = SharesTold + d
          /\ CashTold \in Int /\ SharesTold \in Int
      <4>1. /\ CashTold' = CashTold - CashDue(flow[f]) + c
            /\ SharesTold' = SharesTold - SharesDue(flow[f]) + d
            /\ CashTold \in Int /\ SharesTold \in Int
        BY <1>2, <2>6, <3>0, DuesChange
      <4> QED  BY <2>13, <4>1
    <3>2. CashHeard' + CashTold' = CashHeard + CashTold /\ SharesHeard' + SharesTold' = SharesHeard + SharesTold
          /\ CashHeard' \in Int /\ CashTold' \in Int /\ SharesHeard' \in Int /\ SharesTold' \in Int
      BY <2>12, <2>14, <3>0, <3>1
    <3>3. /\ stock.quota \in Nat /\ audit.aside \in Int /\ audit.seeded \in Int /\ account.qty \in Nat
      BY <1>3 DEF ISafe, TypeInv, StoresOK, Stocks, Audits
    <3>4. ASSUME ~audit'.torn
          PROVE  /\ stock.v4.cash = stock.quota + audit.seeded - audit.aside + CashHeard' + CashTold'
                 /\ ~audit'.short => stock.v4.known = account.qty + SharesHeard' + SharesTold'
      <4>1. /\ stock.v4.cash = stock.quota + audit.seeded - audit.aside + CashHeard + CashTold
            /\ ~audit.short => stock.v4.known = account.qty + SharesHeard + SharesTold
        BY <1>6, <2>0, <3>4 DEF Balanced, Remembers
      <4>2. ~audit'.short => ~audit.short  BY <1>6 DEF Remembers
      <4> QED  BY <2>12, <3>1, <3>2, <3>3, <4>1, <4>2
    <3> QED  BY <1>6, <3>4 DEF Balanced
  <2>15. ASSUME l.s.side = "BUY" PROVE Balanced'
    <3>1. Unit(l) * now \in Nat /\ Unit(p) * l.filled \in Nat /\ Unit(p) * l.told \in Nat
      BY <2>2, <2>3, <2>8
    <3>2. CashOf(p) = -(Unit(p) * l.filled) /\ CashOf(orders[i]) = -(Unit(p) * l.told)
      BY <2>1, <2>2, <2>3, <2>8, <2>15 DEF CashOf
    <3>3. SharesOf(p) = l.filled - p.filled /\ SharesOf(orders[i]) = l.told - p.filled
      BY <2>1, <2>2, <2>3, <2>15 DEF SharesOf
    <3>4. CASE now > 0
      <4>1. Told(flow'[f]) /\ Current(flow'[f]) = l /\ flow'[f].now = now
        BY <2>2, <2>3, <2>5, <2>15, <3>4 DEF Tells
      <4>2. CashDue(flow'[f]) = Unit(l) * now /\ SharesDue(flow'[f]) = -now
        BY <2>15, <4>1 DEF CashDue, SharesDue
      <4>3. Unit(l) = Unit(p)  BY <2>2, <2>3, <2>8, <3>4
      <4>4. Unit(p) * l.filled = Unit(p) * l.told + Unit(p) * now
        <5>1. l.filled = l.told + now  BY <2>2, <2>3
        <5> QED  BY <2>2, <2>3, <2>8, <5>1
      <4>5. CashOf(p) + Unit(l) * now = CashOf(orders[i])  BY <3>1, <3>2, <4>3, <4>4
      <4>6. SharesOf(p) + (-now) = SharesOf(orders[i])  BY <2>2, <2>3, <3>3
      <4>7. CashDue(flow'[f]) \in Int /\ SharesDue(flow'[f]) \in Int  BY <2>2, <3>1, <4>2
      <4> QED  BY <2>14, <4>2, <4>5, <4>6, <4>7
    <3>5. CASE ~(now > 0)
      <4>1. ~Told(flow'[f])  BY <2>5, <3>5 DEF Tells
      <4>2. CashDue(flow'[f]) = 0 /\ SharesDue(flow'[f]) = 0  BY <4>1 DEF CashDue, SharesDue
      <4>3. l.filled = l.told  BY <2>2, <2>3, <3>5
      <4>4. CashOf(p) + 0 = CashOf(orders[i]) /\ SharesOf(p) + 0 = SharesOf(orders[i])
        BY <2>12, <3>2, <3>3, <4>3
      <4> QED  BY <2>14, <4>2, <4>4
    <3> QED  BY <3>4, <3>5
  <2>16. ASSUME l.s.side = "SELL" PROVE Balanced'
    <3>1. CashOf(orders[i]) = 0 /\ SharesOf(orders[i]) = orders[i].filled
      BY <2>1, <2>3, <2>16 DEF CashOf, SharesOf
    <3>2. CASE p.status = "FILLED"
      <4>1. l.filled = l.s.qty /\ orders[i].filled = l.filled /\ now > 0  BY <2>2, <2>3, <3>2
      <4>2. Told(flow'[f]) /\ Current(flow'[f]) = l  BY <2>2, <2>3, <2>5, <2>16, <3>2, <4>1 DEF Tells
      <4>3. CashDue(flow'[f]) = -l.amount /\ SharesDue(flow'[f]) = l.s.qty
        BY <2>16, <4>2 DEF CashDue, SharesDue
      <4>4. CashOf(p) = p.amount /\ SharesOf(p) = 0  BY <2>2, <2>3, <2>16, <3>2 DEF CashOf, SharesOf
      <4>5. p.amount = l.amount
        <5>1. p.amount = Unit(p) * p.filled /\ l.amount = Unit(l) * l.filled  BY <2>8 DEF Priced
        <5>2. Unit(p) = Unit(l) /\ p.filled = l.filled  BY <2>2, <2>3, <2>8, <4>1
        <5> QED  BY <5>1, <5>2
      <4>6. CashOf(p) + (-l.amount) = CashOf(orders[i])  BY <2>3, <3>1, <4>4, <4>5
      <4>7. SharesOf(p) + l.s.qty = SharesOf(orders[i])  BY <2>3, <3>1, <4>1, <4>4
      <4>8. CashDue(flow'[f]) \in Int /\ SharesDue(flow'[f]) \in Int  BY <2>3, <4>3
      <4> QED  BY <2>14, <4>3, <4>6, <4>7, <4>8
    <3>3. CASE p.status # "FILLED"
      <4>1. ~Told(flow'[f])  BY <2>2, <2>3, <2>5, <2>16, <3>3 DEF Tells
      <4>2. CashDue(flow'[f]) = 0 /\ SharesDue(flow'[f]) = 0  BY <4>1 DEF CashDue, SharesDue
      <4>3. CashOf(p) + 0 = CashOf(orders[i]) /\ SharesOf(p) + 0 = SharesOf(orders[i])
        BY <2>2, <2>3, <2>16, <3>1, <3>3 DEF CashOf, SharesOf
      <4> QED  BY <2>14, <4>2, <4>3
    <3> QED  BY <3>2, <3>3
  <2> QED  BY <2>3, <2>9, <2>10, <2>11, <2>15, <2>16
<1> QED  BY <1>5, <1>7, <1>8


LEMMA PriceExact ==
  ASSUME NEW n \in Nat, n > 0, NEW price \in Nat
  PROVE  (n * price) \div n = price
BY SMT

\* A fill has the price of the fills before it, or is the first.
LEMMA TradePrice ==
  ASSUME NEW o \in Rows, Priced(o), NEW n \in Nat \ {0}, NEW price \in Nat,
         o.s.type = "LIMIT" => price = o.s.price, o.s.type # "LIMIT" => o.filled = 0,
         NEW p, p.s = o.s, p.filled = o.filled + n, p.amount = o.amount + n * price
  PROVE  Unit(p) = price /\ Priced(p) /\ (o.filled > 0 => Unit(o) = price)
<1>1. o.filled \in Nat /\ o.amount \in Nat /\ Unit(o) \in Nat  BY UnitIs
<1>2. o.filled > 0 => Unit(o) = price  BY DEF Priced
<1>3. o.amount = o.filled * price
  <2>1. CASE o.filled = 0  BY <1>1, <2>1 DEF Priced
  <2>2. CASE o.filled > 0  BY <1>1, <1>2, <2>2 DEF Priced
  <2> QED  BY <1>1, <2>1, <2>2
<1>4. PICK m \in Nat : m = o.filled + n  BY <1>1
<1>5. p.filled = m /\ m > 0 /\ p.amount = m * price
  <2>1. m * price = o.filled * price + n * price  BY <1>1, <1>4
  <2> QED  BY <1>1, <1>3, <1>4, <2>1
<1>6. Unit(p) = price
  <2>1. (m * price) \div m = price  BY <1>5, PriceExact
  <2> QED  BY <1>5, <2>1 DEF Unit
<1>7. p.amount = Unit(p) * p.filled  BY <1>5, <1>6
<1> QED  BY <1>2, <1>6, <1>7 DEF Priced

LEMMA TradeLedger ==
  ASSUME ISafe, ISafe', Ledger, NEW i \in DOMAIN orders, orders[i].live, NEW n \in Lots(i), NEW price \in Nat,
         Trade(i, n, price),
         strategy = "infinite-buy-v4" => /\ orders[i].s.type = "LIMIT" => price = orders[i].s.price
                                         /\ orders[i].s.type # "LIMIT" => orders[i].filled = 0
  PROVE  Ledger'
<1> SUFFICES ASSUME strategy = "infinite-buy-v4" PROVE (Prices /\ Whole /\ Read /\ Balanced)'
  BY DEF Ledger, Trade
<1> DEFINE o == orders[i]
<1>0. Prices /\ Whole /\ Read /\ Balanced  BY DEF Ledger
<1>1. PICK p \in Rows :
           /\ orders' = [orders EXCEPT ![i] = p] /\ DOMAIN orders' = DOMAIN orders
           /\ orders'[i] = p /\ \A j \in DOMAIN orders : j # i => orders'[j] = orders[j]
           /\ p.s = orders[i].s /\ p.told = orders[i].told /\ p.status = orders[i].status
           /\ p.filled = orders[i].filled + n /\ p.amount = orders[i].amount + n * price
           /\ n \in Nat \ {0}
           /\ orders[i].filled \in Nat /\ orders[i].told \in Nat
           /\ orders[i].told <= orders[i].filled /\ orders[i].s.side \in {"BUY", "SELL"}
           /\ account.qty \in Nat
           /\ orders[i].s.side = "SELL" => account'.qty = account.qty - n
           /\ orders[i].s.side = "BUY" => account'.qty = account.qty + n
  BY TradedRow
<1>2. UNCHANGED <<strategy, stock, flow>>  BY DEF Trade
<1>3. o \in Rows /\ o.status # "FILLED" /\ stock \in Stocks /\ audit \in Audits
  BY OrderIs DEF RowOK, Listed, ISafe, TypeInv, StoresOK
<1>4. /\ audit'.torn = audit.torn /\ audit'.short = audit.short
      /\ audit'.aside = audit.aside /\ audit'.seeded = audit.seeded
  BY <1>3 DEF Trade, Audits
<1>5. Unit(p) = price /\ Priced(p) /\ (o.filled > 0 => Unit(o) = price)
  <2>1. Priced(o)  BY <1>0 DEF Prices
  <2>2. /\ o.s.type = "LIMIT" => price = o.s.price
        /\ o.s.type # "LIMIT" => o.filled = 0
    OBVIOUS
  <2>3. /\ p.s = o.s /\ p.filled = o.filled + n /\ p.amount = o.amount + n * price
        /\ n \in Nat \ {0}
    BY <1>1
  <2> HIDE DEF o
  <2> QED  BY <1>3, <2>1, <2>2, <2>3, TradePrice
<1>6. Prices'
  <2>1. PICK os : os = orders'  OBVIOUS
  <2>2. \A j \in DOMAIN orders : /\ j \in DOMAIN os /\ Priced(os[j])
                                 /\ orders[j].filled > 0 => Unit(os[j]) = Unit(orders[j])
    BY <1>0, <1>1, <1>5, <2>1 DEF Prices
  <2>3. \A j \in DOMAIN os : j \in DOMAIN orders  BY <1>1, <2>1
  <2>4. \A f \in Flow : SameReads(flow'[f], flow[f])  BY <1>2 DEF SameReads
  <2> QED  BY <1>0, <2>1, <2>2, <2>3, <2>4, PricesKept
<1>7. Whole' /\ Read'  BY <1>0, <1>2 DEF Whole, Read, Told, Settles, Current, RowOf
<1>8. CashTold' = CashTold /\ SharesTold' = SharesTold /\ CashTold \in Int /\ SharesTold \in Int
  <2>1. "loop" \in Flow /\ "sync" \in Flow  BY DEF Flow, Run
  <2>2. CashTold \in Int /\ SharesTold \in Int  BY <2>1, DueIs DEF CashTold, SharesTold
  <2> QED  BY <1>2, <2>2 DEF CashTold, SharesTold, CashDue, SharesDue, Told, Settles, Current, RowOf, Unit
<1>9. /\ CashHeard' = CashHeard - CashOf(orders[i]) + CashOf(p)
      /\ SharesHeard' = SharesHeard - SharesOf(orders[i]) + SharesOf(p)
  BY <1>1, HeardChange
<1>10. /\ CashHeard \in Int /\ SharesHeard \in Int /\ CashOf(orders[i]) \in Int /\ SharesOf(orders[i]) \in Int
  BY <1>3, HeardIs, UnitIs
<1>11. CashOf(p) = CashOf(orders[i])
  <2>1. CASE o.s.side = "BUY"
    <3>1. Unit(p) * p.told = Unit(o) * o.told
      <4>1. CASE o.filled = 0
        <5>1. p.told = 0 /\ o.told = 0  BY <1>1, <4>1
        <5>2. Unit(p) \in Nat /\ Unit(o) \in Nat  BY <1>1, <1>3, UnitIs
        <5> QED  BY <5>1, <5>2
      <4>2. CASE o.filled > 0  BY <1>1, <1>5, <4>2
      <4> QED  BY <1>1, <4>1, <4>2
    <3> QED  BY <1>1, <2>1, <3>1 DEF CashOf
  <2>2. CASE o.s.side # "BUY"  BY <1>1, <1>3, <2>2 DEF CashOf
  <2> QED  BY <2>1, <2>2
<1>12. account'.qty + SharesOf(p) = account.qty + SharesOf(orders[i])
  <2>1. CASE o.s.side = "BUY"
    <3>1. SharesOf(p) = o.told - (o.filled + n) /\ SharesOf(o) = o.told - o.filled
      BY <1>1, <2>1 DEF SharesOf
    <3> QED  BY <1>1, <2>1, <3>1
  <2>2. CASE o.s.side = "SELL"
    <3>1. SharesOf(p) = o.filled + n /\ SharesOf(o) = o.filled  BY <1>1, <1>3, <2>2 DEF SharesOf
    <3> QED  BY <1>1, <2>2, <3>1
  <2> QED  BY <1>1, <2>1, <2>2
<1>13. CashHeard' = CashHeard /\ account'.qty + SharesHeard' = account.qty + SharesHeard
  <2>1. SharesOf(p) \in Int /\ account'.qty \in Int /\ account.qty \in Nat
    BY <1>1, UnitIs
  <2> QED  BY <1>9, <1>10, <1>11, <1>12, <2>1
<1>14. ASSUME ~audit.torn
       PROVE  /\ stock.v4.cash = stock.quota + audit.seeded - audit.aside + CashHeard' + CashTold'
              /\ ~audit.short => stock.v4.known = account'.qty + SharesHeard' + SharesTold'
  <2>1. /\ stock.v4.cash = stock.quota + audit.seeded - audit.aside + CashHeard + CashTold
        /\ ~audit.short => stock.v4.known = account.qty + SharesHeard + SharesTold
    BY <1>0, <1>14 DEF Balanced
  <2> QED  BY <1>8, <1>13, <2>1
<1> QED  BY <1>2, <1>4, <1>6, <1>7, <1>14 DEF Balanced

LEMMA BrokerLedger ==
  ASSUME ISafe, ISafe', Ledger, NEW i \in DOMAIN orders,
         Approve(i) \/ Decline(i) \/ Fill(i) \/ FillAtClose(i) \/ Die(i)
  PROVE  Ledger'
<1>1. market.price \in Nat /\ stock \in Stocks  BY MarketIs DEF ISafe, TypeInv, StoresOK
<1>2. strategy = "infinite-buy-v4" => /\ OrderType(orders[i].s) = orders[i].s.type
                                      /\ orders[i].s.type \in {"LOC", "LIMIT", "MOC"}
  BY RowKinds, JobIs DEF OrderType, V4Signals
<1>3. CASE Fill(i)
  <2>1. orders[i].s.price \in Nat /\ orders[i].live  BY <1>3, RowKinds, JobIs DEF Fill
  <2>2. PICK price \in Nat :
          /\ \E n \in Lots(i) : Trade(i, n, price)
          /\ strategy = "infinite-buy-v4" => orders[i].s.type = "LIMIT" /\ price = orders[i].s.price
    <3>1. CASE OrderType(orders[i].s) = "MARKET"  BY <1>1, <1>2, <1>3, <3>1 DEF Fill
    <3>2. CASE OrderType(orders[i].s) # "MARKET"  BY <1>2, <1>3, <2>1, <3>2 DEF Fill
    <3> QED  BY <3>1, <3>2
  <2>3. PICK n \in Lots(i) : Trade(i, n, price)  BY <2>2
  <2> QED  BY <2>1, <2>2, <2>3, TradeLedger
<1>4. CASE FillAtClose(i)
  <2>1. orders[i].live /\ orders[i].filled = 0  BY <1>4 DEF FillAtClose, InAuction
  <2>2. strategy = "infinite-buy-v4" => orders[i].s.type # "LIMIT"
    BY <1>2, <1>4 DEF FillAtClose, InAuction
  <2>3. PICK n \in Lots(i) : Trade(i, n, market.price)  BY <1>4 DEF FillAtClose
  <2> QED  BY <1>1, <2>1, <2>2, <2>3, TradeLedger
<1>5. CASE Approve(i) \/ Decline(i) \/ Die(i)
  <2>1. SameFills  BY <1>5, ApproveFills, DeclineFills, DieFills
  <2>2. UNCHANGED <<strategy, stock, account, flow>> /\ Watch  BY <1>5 DEF Approve, Decline, Die
  <2>3. \A f \in Flow : SameNews(flow'[f], flow[f])  BY <2>2 DEF SameNews, SameReads
  <2>4. Read => Read'  BY <2>2 DEF Read
  <2>5. Remembers /\ audit'.aside = audit.aside /\ audit'.seeded = audit.seeded
    BY <2>2, WatchRemembers, WatchBooks
  <2> QED  BY <1>1, <2>1, <2>2, <2>3, <2>4, <2>5, LedgerKept
<1> QED  BY <1>3, <1>4, <1>5


LEMMA StoreModeLedger == ASSUME ISafe, ISafe', Ledger, NEW f \in Flow, StoreMode(f) PROVE Ledger'
<1> DEFINE base == flow[f].base
<1>1. flow[f].pc = "store" /\ ~SettleListed(f) /\ ~StoreFill(f) /\ Loop(f)
  BY DEF StoreMode, StoreFill, Storing, SettleListed, Loop
<1>2. /\ base.v4 \in Ledgers /\ flow[f].ws.v4 \in Ledgers /\ stock \in Stocks
  <2>1. flow[f] \in Flows  BY FlowIs
  <2> QED  BY <1>1, <2>1, StoringIs DEF Flows, Stocks, ISafe, TypeInv, StoresOK
<1>3. PICK v4 \in Ledgers : /\ v4 = [base.v4 EXCEPT !.mode = flow[f].ws.v4.mode, !.closes = flow[f].ws.v4.closes]
                            /\ v4.cash = base.v4.cash /\ v4.known = base.v4.known
  <2>1. PICK v4 : v4 = [base.v4 EXCEPT !.mode = flow[f].ws.v4.mode, !.closes = flow[f].ws.v4.closes]  OBVIOUS
  <2> HIDE DEF base
  <2>2. v4 \in Ledgers  BY <1>2, <2>1 DEF Ledgers
  <2>3. v4.cash = base.v4.cash /\ v4.known = base.v4.known  BY <1>2, <2>1 DEF Ledgers
  <2> QED  BY <2>1, <2>2, <2>3 DEF base
<1>4. PICK rules : rules = base.rules  OBVIOUS
<1>5. rules \in Params  BY <1>1, <1>4, StoringIs
<1>6. PICK new : new = [stock EXCEPT !.rules = rules, !.v4 = v4]  OBVIOUS
<1>7. new \in Stocks /\ new.quota = stock.quota /\ new.v4 = v4  BY <1>2, <1>5, <1>6 DEF Stocks
<1>8. Store(f, new, 0, FALSE)  BY <1>3, <1>4, <1>6 DEF StoreMode, StoreColumn, Base
<1>9. stock' = new /\ UNCHANGED <<strategy, account>>  BY <1>8 DEF Store
<1>10. /\ audit'.aside = audit.aside + 0 /\ audit'.seeded = audit.seeded
       /\ ~audit'.torn => ~audit.torn /\ stock.v4 = base.v4
  <2>1. PICK short \in BOOLEAN : short = FALSE  OBVIOUS
  <2>2. PICK aside \in Int : aside = 0  OBVIOUS
  <2>3. Store(f, new, aside, short)  BY <1>8, <2>1, <2>2
  <2>4. /\ audit'.aside = audit.aside + aside /\ audit'.seeded = audit.seeded
        /\ ~audit'.torn => ~audit.torn /\ stock.v4 = flow[f].base.v4
    BY <2>3, StoreBooks
  <2> QED  BY <2>2, <2>4
<1>11. audit'.aside = audit.aside
  <2>1. audit.aside \in Int  BY DEF ISafe, TypeInv, StoresOK, Audits
  <2> QED  BY <1>10, <2>1
<1>12. \A g \in Flow : SameNews(flow'[g], flow[g])  BY <1>1, LoopNews
<1>13. SameFills /\ Remembers  BY <1>1, LoopFills, LoopRemembers
<1>14. strategy = "infinite-buy-v4" /\ Read => Read'
  <2>1. Read => new.v4.known \in Nat  BY <1>1, <1>3, <1>7 DEF Read
  <2>2. \A g \in Flow : SameReads(flow'[g], flow[g])  BY <1>12 DEF SameNews
  <2> QED  BY <1>7, <1>9, <2>1, <2>2, ReadKept
<1>15. ~audit'.torn => new.v4.cash - new.quota = stock.v4.cash - stock.quota /\ new.v4.known = stock.v4.known
  BY <1>3, <1>7, <1>10
<1> QED  BY <1>7, <1>9, <1>10, <1>11, <1>12, <1>13, <1>14, <1>15, LedgerKept

\* A new quota changes the cash by as much.
LEMMA StoreQuotaLedger == ASSUME ISafe, ISafe', Ledger, NEW f \in Flow, StoreQuota(f) PROVE Ledger'
<1> SUFFICES ASSUME strategy = "infinite-buy-v4" PROVE Ledger'
  BY DEF Ledger, StoreQuota, Store
<1> DEFINE base == flow[f].base
           cash == base.v4.cash + (flow[f].new - base.quota)
<1>1. /\ flow[f].pc = "store" /\ flow[f].why = "quota" /\ flow' = [flow EXCEPT ![f] = IdleFlow]
      /\ ~SettleListed(f) /\ ~StoreFill(f) /\ Loop(f)
  BY DEF StoreQuota, StoreFill, Storing, SettleListed, Loop, Stop
<1>2. /\ flow[f] \in Flows /\ f = "user" /\ base \in Stocks /\ base.v4 \in Ledgers /\ base.quota \in Nat
      /\ flow[f].new \in Nat /\ stock \in Stocks
  <2>1. flow[f] \in Flows /\ flow[f].why \in Reasons(f)  BY <1>1, StoringIs
  <2>2. f = "user"  BY <1>1, <2>1 DEF Reasons, Flow, Run
  <2> QED  BY <1>1, <2>1, <2>2, StoringIs DEF Flows, ISafe, TypeInv, StoresOK
<1>3. cash \in Int /\ base.v4.known \in Int /\ stock.quota \in Nat /\ stock.v4.cash \in Int
  <2>1. base.v4.cash \in Int /\ base.v4.known \in Int  BY <1>2 DEF Ledgers
  <2>2. stock.v4 \in Ledgers /\ stock.quota \in Nat  BY <1>2 DEF Stocks
  <2>3. stock.v4.cash \in Int  BY <2>2 DEF Ledgers
  <2>4. cash \in Int  BY <1>2, <2>1
  <2> QED  BY <2>1, <2>2, <2>3, <2>4
<1>4. Read /\ base.quota = stock.quota /\ base.v4.known \in Nat /\ stock.v4.known \in Nat
  <2>1. Read  BY DEF Ledger
  <2> QED  BY <1>1, <1>2, <2>1 DEF Read
<1>5. \A g \in Flow : SameNews(flow'[g], flow[g])  BY <1>1, LoopNews
<1>6. SameFills /\ Remembers /\ UNCHANGED <<strategy, account>>  BY <1>1, LoopFills, LoopRemembers, LoopClock
<1>7. ASSUME NEW new, new = stock', new.v4.known \in Nat PROVE Read'
  <2>1. flow \in [Flow -> Flows]  BY DEF ISafe, TypeInv
  <2>2. flow'["user"] = IdleFlow /\ \A g \in Flow : g # "user" => flow'[g] = flow[g]  BY <1>1, <1>2, <2>1
  <2>3. flow'["user"].pc # "store"  BY <2>2, IdleIs
  <2>4. \A g \in Flow : flow'[g].pc = "store" => flow'[g].base.v4.known \in Nat  BY <1>4, <2>2, <2>3 DEF Read
  <2> QED  BY <1>7, <2>3, <2>4 DEF Read
<1>8. \/ stock' = stock /\ Watch
      \/ flow[f].new = base.quota /\ stock' = [stock EXCEPT !.quota = flow[f].new] /\ Watch
      \/ Store(f, [base EXCEPT !.quota = flow[f].new, !.v4 = [@ EXCEPT !.cash = cash]], 0, FALSE)
  <2>1. flow[f].new - base.quota = 0 => flow[f].new = base.quota  BY <1>2
  <2> QED  BY <2>1 DEF StoreQuota, Base
<1> HIDE DEF cash
<1>9. CASE stock' = stock /\ Watch
  <2>1. PICK new \in Stocks : new = stock'  BY <1>2, <1>9
  <2>2. new.v4.cash - new.quota = stock.v4.cash - stock.quota /\ new.v4.known = stock.v4.known  BY <1>9, <2>1
  <2>3. Read'  BY <1>4, <1>7, <1>9
  <2>4. audit'.aside = audit.aside /\ audit'.seeded = audit.seeded  BY <1>9, WatchBooks
  <2> QED  BY <1>5, <1>6, <2>1, <2>2, <2>3, <2>4, LedgerKept
<1>10. CASE flow[f].new = base.quota /\ stock' = [stock EXCEPT !.quota = flow[f].new] /\ Watch
  <2>1. PICK new \in Stocks : new = stock' /\ new.v4 = stock.v4 /\ new.quota = stock.quota
    BY <1>2, <1>4, <1>10 DEF Stocks
  <2>2. new.v4.cash - new.quota = stock.v4.cash - stock.quota /\ new.v4.known = stock.v4.known  BY <2>1
  <2>3. Read'  BY <1>4, <1>7, <2>1
  <2>4. audit'.aside = audit.aside /\ audit'.seeded = audit.seeded  BY <1>10, WatchBooks
  <2> QED  BY <1>5, <1>6, <2>1, <2>2, <2>3, <2>4, LedgerKept
<1>11. CASE Store(f, [base EXCEPT !.quota = flow[f].new, !.v4 = [@ EXCEPT !.cash = cash]], 0, FALSE)
  <2>1. PICK v4 \in Ledgers : v4 = [base.v4 EXCEPT !.cash = cash] /\ v4.cash = cash /\ v4.known = base.v4.known
    <3>1. PICK v4 : v4 = [base.v4 EXCEPT !.cash = cash]  OBVIOUS
    <3> HIDE DEF base
    <3>2. v4 \in Ledgers  BY <1>2, <1>3, <3>1 DEF Ledgers
    <3>3. v4.cash = cash /\ v4.known = base.v4.known  BY <1>2, <3>1 DEF Ledgers
    <3> QED  BY <3>1, <3>2, <3>3
  <2>2. PICK new \in Stocks : /\ new = [base EXCEPT !.quota = flow[f].new, !.v4 = v4]
                              /\ new.quota = flow[f].new /\ new.v4 = v4
    <3>1. PICK new : new = [base EXCEPT !.quota = flow[f].new, !.v4 = v4]  OBVIOUS
    <3> HIDE DEF base
    <3>2. new \in Stocks  BY <1>2, <2>1, <3>1 DEF Stocks
    <3>3. new.quota = flow[f].new /\ new.v4 = v4  BY <1>2, <3>1 DEF Stocks
    <3> QED  BY <3>1, <3>2, <3>3
  <2>3. [base EXCEPT !.quota = flow[f].new, !.v4 = [@ EXCEPT !.cash = cash]] = new
    BY <1>2, <2>1, <2>2 DEF Stocks
  <2>4. PICK short \in BOOLEAN : short = FALSE  OBVIOUS
  <2>5. PICK aside \in Int : aside = 0  OBVIOUS
  <2>6. Store(f, new, aside, short)  BY <1>11, <2>3, <2>4, <2>5
  <2>7. /\ audit'.aside = audit.aside + aside /\ audit'.seeded = audit.seeded
        /\ ~audit'.torn => ~audit.torn /\ stock.v4 = flow[f].base.v4
    BY <2>6, StoreBooks
  <2>8. audit'.aside = audit.aside
    <3>1. audit.aside \in Int  BY DEF ISafe, TypeInv, StoresOK, Audits
    <3> QED  BY <2>5, <2>7, <3>1
  <2>9. new = stock'  BY <2>6 DEF Store
  <2>10. Read'  BY <1>4, <1>7, <2>1, <2>2, <2>9
  <2>11. ~audit'.torn => new.v4.cash - new.quota = stock.v4.cash - stock.quota
                         /\ new.v4.known = stock.v4.known
    <3> SUFFICES ASSUME ~audit'.torn PROVE new.v4.cash - new.quota = stock.v4.cash - stock.quota
                                           /\ new.v4.known = stock.v4.known
      OBVIOUS
    <3>1. stock.v4 = base.v4  BY <2>7
    <3>2. cash = stock.v4.cash + (flow[f].new - stock.quota)  BY <1>4, <3>1 DEF cash
    <3>3. new.v4.cash = cash /\ new.v4.known = stock.v4.known /\ new.quota = flow[f].new
      BY <2>1, <2>2, <3>1
    <3> QED  BY <1>2, <1>3, <3>2, <3>3
  <2> QED  BY <1>5, <1>6, <2>7, <2>8, <2>9, <2>10, <2>11, LedgerKept
<1> QED  BY <1>8, <1>9, <1>10, <1>11

LEMMA LoopLedger == ASSUME ISafe, ISafe', Ledger, NEW f \in Flow, Loop(f) PROVE Ledger'
<1>1. CASE SettleListed(f)  BY <1>1, SettleListedLedger
<1>2. CASE StoreFill(f)  BY <1>2, StoreFillLedger
<1>3. CASE StoreMode(f)  BY <1>3, StoreModeLedger
<1>4. CASE StoreQuota(f)  BY <1>4, StoreQuotaLedger
<1>5. CASE ~SettleListed(f) /\ ~StoreFill(f) /\ ~StoreMode(f) /\ ~StoreQuota(f)
  <2>1. \A g \in Flow : SameNews(flow'[g], flow[g])  BY <1>5, LoopNews
  <2>2. SameFills /\ Remembers /\ UNCHANGED <<strategy, account>>  BY <1>5, LoopFills, LoopRemembers, LoopClock
  <2>3. CASE strategy = "infinite-buy-v4"
    <3>1. ~StoreRestore(f) /\ ~StoreCarry(f) /\ ~StoreReset(f)
      <4>1. FlowInv(f, flow[f], orders)  BY FlowIs
      <4> QED  BY <2>3, <4>1 DEF StoreRestore, StoreCarry, StoreReset, Storing, FlowInv, PcInv, Settles
    <3>2. UNCHANGED stock /\ Watch
      BY <1>5, <3>1
      DEF Loop, ReadRisk, ReadBalance, WritePositions, ReadPositions, List, SettleAbsent,
          EndPass, ReadUnfilled, CancelUnfilled, EvaluateRules, EvaluateV4, EvaluationFails, DropJob,
          AdmitJob, Post, EndSubmit, Fetch
    <3>3. PICK new \in Stocks : new = stock'  BY <3>2 DEF ISafe, TypeInv, StoresOK
    <3>4. new.v4.cash - new.quota = stock.v4.cash - stock.quota /\ new.v4.known = stock.v4.known  BY <3>2, <3>3
    <3>5. Read => Read'
      <4>1. Read => new.v4.known \in Nat /\ new.quota = stock.quota  BY <3>2, <3>3 DEF Read
      <4>2. \A g \in Flow : SameReads(flow'[g], flow[g])  BY <2>1 DEF SameNews
      <4> QED  BY <3>3, <4>1, <4>2, ReadKept
    <3>6. audit'.aside = audit.aside /\ audit'.seeded = audit.seeded  BY <3>2, WatchBooks
    <3> QED  BY <2>1, <2>2, <3>3, <3>4, <3>5, <3>6, LedgerKept
  <2>4. CASE strategy # "infinite-buy-v4"  BY <2>2, <2>4 DEF Ledger
  <2> QED  BY <2>3, <2>4
<1> QED  BY <1>1, <1>2, <1>3, <1>4, <1>5

LEMMA NextLedger == ASSUME ISafe, ISafe', Ledger, [Next]_vars PROVE Ledger'
<1>0. orders \in Seq(Rows)  BY DEF ISafe, TypeInv
<1>1. CASE UNCHANGED vars
  BY <1>1 DEF vars, Ledger, Prices, Whole, Read, Balanced, CashHeard, SharesHeard, CashTold, SharesTold,
              CashOf, SharesOf, CashDue, SharesDue, Priced, Unit, Told, Settles, Current, RowOf
<1>2. CASE \/ StartLoop \/ StartSync \/ StartManual \/ GuardManual \/ StartEdit \/ SaveSnapshot
           \/ NextMinute \/ NextDay
  <2>1. UNCHANGED <<strategy, stock, account>> /\ Watch
    <3>1. CASE StartEdit  BY <3>1, Zenon DEF StartEdit
    <3>2. CASE ~StartEdit
      BY <1>2, <3>2 DEF StartLoop, StartSync, StartManual, GuardManual, SaveSnapshot, NextMinute, NextDay
    <3> QED  BY <3>1, <3>2
  <2>2. SameFills
    <3>1. CASE NextDay  BY <3>1, NextDayFills
    <3>2. CASE ~NextDay
      <4>1. UNCHANGED orders
        <5>1. CASE StartEdit  BY <5>1, Zenon DEF StartEdit
        <5>2. CASE ~StartEdit
          BY <1>2, <3>2, <5>2 DEF StartLoop, StartSync, StartManual, GuardManual, SaveSnapshot, NextMinute
        <5> QED  BY <5>1, <5>2
      <4> QED  BY <1>0, <4>1, SameRowsFills
    <3> QED  BY <3>1, <3>2
  <2>3. \A f \in Flow : SameNews(flow'[f], flow[f])
    <3>1. CASE NextMinute \/ NextDay
      <4>1. UNCHANGED flow  BY <3>1 DEF NextMinute, NextDay
      <4> QED  BY <4>1 DEF SameNews, SameReads
    <3>2. CASE ~NextMinute /\ ~NextDay  BY <1>2, <3>2, StartNews
    <3> QED  BY <3>1, <3>2
  <2>4. PICK new \in Stocks : new = stock'  BY <2>1 DEF ISafe, TypeInv, StoresOK
  <2>5. new.v4.cash - new.quota = stock.v4.cash - stock.quota /\ new.v4.known = stock.v4.known  BY <2>1, <2>4
  <2>6. Read => Read'
    <3>1. Read => new.v4.known \in Nat /\ new.quota = stock.quota  BY <2>1, <2>4 DEF Read
    <3>2. \A g \in Flow : SameReads(flow'[g], flow[g])  BY <2>3 DEF SameNews
    <3> QED  BY <2>4, <3>1, <3>2, ReadKept
  <2>7. Remembers /\ audit'.aside = audit.aside /\ audit'.seeded = audit.seeded
    BY <2>1, WatchRemembers, WatchBooks
  <2> QED  BY <2>1, <2>2, <2>3, <2>4, <2>5, <2>6, <2>7, LedgerKept
<1>3. ASSUME NEW f \in Flow, Loop(f) PROVE Ledger'  BY <1>3, LoopLedger
<1> QED  BY <1>1, <1>2, <1>3, BrokerLedger DEF Next

LEMMA InitLedger == ASSUME Init PROVE Ledger
<1>1. DOMAIN orders = {} /\ \A f \in Flow : flow[f] = IdleFlow  BY DEF Init
<1>2. IdleFlow.pc = "idle" /\ IdleFlow.rows = {} /\ "user" \in Flow /\ "loop" \in Flow /\ "sync" \in Flow
  BY IdleIs DEF Flow, Run
<1>3. \A f \in Flow : ~Told(flow[f])  BY <1>1, <1>2 DEF Told, Settles
<1>4. CashTold = 0 /\ SharesTold = 0  BY <1>2, <1>3 DEF CashTold, SharesTold, CashDue, SharesDue
<1>5. CashHeard = 0 /\ SharesHeard = 0
  <2>1. PICK c : c = [i \in DOMAIN orders |-> CashOf(orders[i])]  OBVIOUS
  <2>2. PICK s : s = [i \in DOMAIN orders |-> SharesOf(orders[i])]  OBVIOUS
  <2>3. SumFunction(c) = 0 /\ SumFunction(s) = 0  BY <1>1, <2>1, <2>2, TotalEmpty
  <2> QED  BY <2>1, <2>2, <2>3 DEF CashHeard, SharesHeard
<1>6. Prices /\ Whole  BY <1>1, <1>2, <1>3 DEF Prices, Whole
<1>7. PICK seed \in Seed :
        /\ stock = [quota |-> seed.quota, rules |-> NoParams, v4 |-> SeedLedger(seed)]
        /\ account = [qty |-> seed.qty, avg |-> seed.avg, cash |-> seed.cash]
  BY DEF Init
<1>8. /\ seed.qty \in Nat /\ seed.quota \in Nat /\ stock.quota = seed.quota /\ account.qty = seed.qty
      /\ stock.v4.known = seed.qty /\ stock.v4.cash = Rest(seed.quota, seed.qty * seed.avg)
  BY <1>7, SeedAssumption DEF SeedLedger
<1>9. stock.v4.cash \in Int
  <2>1. seed.avg \in Nat /\ seed.qty * seed.avg \in Nat  BY <1>7, SeedAssumption
  <2> QED  BY <1>8, <2>1 DEF Rest
<1>10. audit.seeded = stock.v4.cash - stock.quota /\ audit.aside = 0
  BY Zenon DEF Init, NothingYet
<1>11. Read  BY <1>1, <1>2, <1>8 DEF Read
<1>12. Balanced  BY <1>4, <1>5, <1>8, <1>9, <1>10 DEF Balanced
<1> QED  BY <1>6, <1>11, <1>12 DEF Ledger

\* A strategy that has heard of everything books every order in full.
LEMMA QuietBooks ==
  ASSUME ISafe, Ledger, strategy = "infinite-buy-v4", Quiet
  PROVE  /\ CashTold = 0 /\ SharesTold = 0
         /\ CashHeard = SumFunction([i \in DOMAIN orders |-> Booked(orders[i])])
         /\ SharesHeard = SumFunction([i \in DOMAIN orders |-> Unbooked(orders[i])])
<1>1. "loop" \in Flow /\ "sync" \in Flow  BY DEF Flow, Run
<1>2. \A f \in Flow : ~Told(flow[f])  BY DEF Quiet, AllTold, Settling, Told, Settles
<1>3. CashTold = 0 /\ SharesTold = 0  BY <1>1, <1>2 DEF CashTold, SharesTold, CashDue, SharesDue
<1>4. ASSUME NEW i \in DOMAIN orders
      PROVE  CashOf(orders[i]) = Booked(orders[i]) /\ SharesOf(orders[i]) = Unbooked(orders[i])
  <2>1. orders[i].told = orders[i].filled /\ Priced(orders[i])  BY DEF Quiet, AllTold, Ledger, Prices
  <2>2. orders[i] \in Rows /\ orders[i].s \in Jobs /\ orders[i].filled \in Nat  BY RowKinds DEF Rows
  <2>3. orders[i].s.side \in {"BUY", "SELL"}
    <3>1. orders[i].s \in Signals \/ orders[i].s \in V4Signals  BY <2>2, JobIs
    <3> QED  BY <3>1 DEF Signals, V4Signals
  <2>4. orders[i].amount = Unit(orders[i]) * orders[i].told  BY <2>1 DEF Priced
  <2>5. CashOf(orders[i]) = Booked(orders[i])  BY <2>4, Zenon DEF CashOf, Booked
  <2>6. SharesOf(orders[i]) = Unbooked(orders[i])  BY <2>1, <2>2, <2>3 DEF SharesOf, Unbooked
  <2> QED  BY <2>5, <2>6
<1>5. [i \in DOMAIN orders |-> CashOf(orders[i])] = [i \in DOMAIN orders |-> Booked(orders[i])]  BY <1>4
<1>6. [i \in DOMAIN orders |-> SharesOf(orders[i])] = [i \in DOMAIN orders |-> Unbooked(orders[i])]  BY <1>4
<1> QED  BY <1>3, <1>5, <1>6 DEF CashHeard, SharesHeard

\* The ledger of infinite-buy-v4 is balanced, with what is on its way, in every
\* state.  The books of AllTold states follow.
LEMMA LedgerHolds == Spec => [](ISafe /\ Ledger)
<1>1. Init => Ledger  BY InitLedger
<1>2. ISafe /\ ISafe' /\ Ledger /\ [Next]_vars => Ledger'  BY NextLedger
<1> QED  BY <1>1, <1>2, LiveTradingSafe, PTL DEF Spec

\* LedgerFollowsFills of LiveTrading: however the passes, approvals, quota edits
\* and the broker interleave, once the strategy has heard of every execution the
\* cash of an infinite-buy-v4 ledger is the quota less the purchases, plus the
\* completed sales, less the profit set aside; only a lost write breaks it.
THEOREM LiveTradingBooks == Spec => []LedgerFollowsFills
<1>1. ISafe /\ Ledger => LedgerFollowsFills
  <2> SUFFICES ASSUME ISafe, Ledger, strategy = "infinite-buy-v4", Quiet
               PROVE  stock.v4.cash = stock.quota + audit.seeded - audit.aside
                                      + SumFunction([i \in DOMAIN orders |-> Booked(orders[i])])
    BY DEF LedgerFollowsFills
  <2>1. ~audit.torn  BY DEF Quiet
  <2>2. stock.v4.cash = stock.quota + audit.seeded - audit.aside + CashHeard + CashTold
    BY <2>1 DEF Ledger, Balanced
  <2>3. stock.quota \in Nat /\ audit.aside \in Int /\ audit.seeded \in Int /\ CashHeard \in Int
    BY HeardIs DEF ISafe, TypeInv, StoresOK, Stocks, Audits
  <2>4. CashTold = 0 /\ CashHeard = SumFunction([i \in DOMAIN orders |-> Booked(orders[i])])
    BY QuietBooks
  <2> QED  BY <2>2, <2>3, <2>4
<1> QED  BY <1>1, LedgerHolds, PTL

\* LedgerKnowsHolding of LiveTrading: then the shares the ledger knows of are those
\* of the account and those of sales not yet complete, unless a sale was booked
\* that was larger than what the ledger knew.
THEOREM LiveTradingKnows == Spec => []LedgerKnowsHolding
<1>1. ISafe /\ Ledger => LedgerKnowsHolding
  <2> SUFFICES ASSUME ISafe, Ledger, strategy = "infinite-buy-v4", Quiet, ~audit.short
               PROVE  stock.v4.known = account.qty
                                       + SumFunction([i \in DOMAIN orders |-> Unbooked(orders[i])])
    BY DEF LedgerKnowsHolding
  <2>1. ~audit.torn  BY DEF Quiet
  <2>2. stock.v4.known = account.qty + SharesHeard + SharesTold
    BY <2>1 DEF Ledger, Balanced
  <2>3. account.qty \in Nat /\ SharesHeard \in Int
    BY HeardIs DEF ISafe, TypeInv, StoresOK
  <2>4. SharesTold = 0 /\ SharesHeard = SumFunction([i \in DOMAIN orders |-> Unbooked(orders[i])])
    BY QuietBooks
  <2> QED  BY <2>2, <2>3, <2>4
<1> QED  BY <1>1, LedgerHolds, PTL
=============================================================================
