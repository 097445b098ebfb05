---- MODULE LiveTradingPlanProofs ----
(***************************************************************************)
(* The plan of LiveTrading, proved: a daily-dca stock spends and carries   *)
(* over at most one share of its quota a day, for every timetable, quota,  *)
(* number of cycles and bound of the model.  The invariant counts, besides *)
(* what the orders cost, every share that a pass may still return, and     *)
(* follows what the run read as carried over until it has been written.    *)
(* The other invariants of LiveTrading, which the argument uses, are those *)
(* of LiveTradingProofs.                                                   *)
(***************************************************************************)
EXTENDS LiveTradingProofs
-----------------------------------------------------------------------------
(* The plan of daily-dca.  An order claims what it cost and still may cost, *)
(* and a whole share of the quota as long as it may be reported dead, which *)
(* returns one; a flow about to return a share claims it in the meantime.   *)
Thrifty     == strategy = "daily-dca" /\ count.manual = 0 /\ count.edit = 0
Share       == stock.quota \div Cycles
Value(s)    == s.qty * s.price
Claim(o, n) == IF o.s.side = "BUY" /\ o.status = "PENDING" /\ o.filled = 0
               THEN Most(Cost(o), n) ELSE Cost(o)
Claims      == SumFunction([i \in DOMAIN orders |-> Claim(orders[i], Share)])
Returning(r) == Settles(r) /\ r.why = "restore"
Returned(r) == IF Returning(r) THEN Share ELSE 0
Used        == Claims + Returned(flow["loop"]) + Returned(flow["sync"])

Deciding(r) == r.pc \in {"cancel", "evaluate"}
Spending(r) == r.pc \in {"submit", "post"} \/ (Settles(r) /\ r.why \in {"reset", "carry"})
Fresh(r)    == Deciding(r) \/ (Spending(r) /\ ~r.bought)
Kept(r)     == IF Spending(r) /\ r.bought THEN 0 ELSE stock.rules.carried
Billed(o)   == o.s.side = "BUY" => o.s.price > 0 /\ o.amount = o.filled * o.s.price
Bids(r)     == /\ \A k \in DOMAIN r.jobs : r.jobs[k].side = "BUY" => r.jobs[k].price > 0
               /\ r.jobs # <<>> => r.pc = "submit" /\ ~r.bought
               /\ r.pc = "post" => ~r.bought
               /\ Settles(r) /\ r.why \in {"reset", "carry"} => (r.bought <=> r.why = "reset")

\* Nobody changes the quota, and every purchase has a limit.
Steady ==
  /\ flow["user"].pc = "idle"
  /\ Early(flow["loop"]) \/ Deciding(flow["loop"]) => flow["loop"].ws.quota = stock.quota
  /\ \A f \in Flow : flow[f].pc = "store" => flow[f].base.quota = stock.quota
  /\ \A i \in DOMAIN orders : Billed(orders[i])
  /\ Bids(flow["loop"])

\* Today's share is free until a purchase is accepted, and so is what the run
\* read as carried over; the purchase may use both up.
Budget ==
  /\ Ahead \/ Fresh(flow["loop"]) => Used + stock.rules.carried <= (day - 1) * Share
  /\ (Early(flow["loop"]) /\ Ahead) \/ Deciding(flow["loop"])
       => Used + flow["loop"].ws.rules.carried <= (day - 1) * Share
  /\ Used + Kept(flow["loop"]) <= day * Share
  /\ \A k \in DOMAIN flow["loop"].jobs :
       flow["loop"].jobs[k].side = "BUY" => Used + Value(flow["loop"].jobs[k]) <= day * Share
  /\ flow["loop"].pc = "post" /\ orders[flow["loop"].id].s.side = "BUY"
       => Used + Value(orders[flow["loop"].id].s) <= day * Share

Plan == Thrifty => Steady /\ (~audit.torn => Budget)

LEMMA ShareIs ==
  ASSUME ISafe
  PROVE  /\ Share \in Nat /\ day \in Nat /\ day > 0
         /\ (day - 1) * Share \in Nat /\ day * Share = (day - 1) * Share + Share
         /\ (day + 1 - 1) * Share = day * Share
<1>1. stock.quota \in Nat /\ day \in Nat /\ day > 0
  BY BoundAssumption DEF ISafe, TypeInv, StoresOK, Stocks
<1>2. Share \in Nat  BY <1>1, SeedAssumption, DivBound DEF Share
<1>3. \A n, m \in Nat : n > 0 => (n - 1) * m \in Nat /\ n * m = (n - 1) * m + m /\ (n + 1 - 1) * m = n * m
  OBVIOUS
<1> QED  BY <1>1, <1>2, <1>3

LEMMA ClaimIs ==
  ASSUME NEW o \in Rows, RowOK(o)
  PROVE  /\ o.s.side \in {"BUY", "SELL"} /\ o.s.qty \in Nat /\ o.s.price \in Nat
         /\ o.amount \in Nat /\ o.filled \in Nat /\ Remaining(o) \in Nat
         /\ Remaining(o) * o.s.price \in Nat /\ Cost(o) \in Nat
         /\ \A n \in Nat : Claim(o, n) \in Nat /\ Claim(o, n) >= Cost(o)
<1>1. o.s \in Jobs /\ o.amount \in Nat /\ o.filled \in Nat  BY DEF Rows
<1>2. o.s.side \in {"BUY", "SELL"} /\ o.s.qty \in Nat /\ o.s.price \in Nat
  <2>1. o.s \in Signals \/ o.s \in V4Signals  BY <1>1, JobIs
  <2> QED  BY <2>1 DEF Signals, V4Signals
<1>3. Remaining(o) \in Nat  BY <1>1, <1>2 DEF Remaining, RowOK
<1>4. Remaining(o) * o.s.price \in Nat  BY <1>2, <1>3
<1>5. Cost(o) \in Nat  BY <1>1, <1>4 DEF Cost
<1>6. \A n \in Nat : Claim(o, n) \in Nat /\ Claim(o, n) >= Cost(o)  BY <1>5 DEF Claim, Most
<1> QED  BY <1>1, <1>2, <1>3, <1>4, <1>5, <1>6

\* A step of an order: the price stays, and the claim does not grow.
Milds(p, o) == /\ p.s.side = "BUY" => o.s.side = "BUY" /\ p.s = o.s
               /\ Billed(o) => Billed(p) /\ \A n \in Nat : Claim(p, n) <= Claim(o, n)

LEMMA RowMilds ==
  ASSUME NEW o \in Rows, NEW p \in Rows, RowOK(o), RowOK(p),
         p.s.side = o.s.side, o.s.side = "BUY" => p.s = o.s /\ p.amount = o.amount /\ p.filled = o.filled,
         p.live => o.live, p.status = "PENDING" => o.status = "PENDING"
  PROVE  Milds(p, o)
<1>1. CASE o.s.side = "BUY"
  <2>1. Remaining(p) = Remaining(o)  BY <1>1 DEF Remaining
  <2>2. Cost(p) <= Cost(o) /\ Cost(p) \in Nat /\ Cost(o) \in Nat
    <3>1. Remaining(o) * o.s.price \in Nat /\ o.amount \in Nat /\ Cost(p) \in Nat /\ Cost(o) \in Nat  BY ClaimIs
    <3>2. PICK x : x = Remaining(o) * o.s.price  OBVIOUS
    <3>3. Cost(o) = o.amount + (IF o.live THEN x ELSE 0)  BY <1>1, <3>2 DEF Cost
    <3>4. Cost(p) = o.amount + (IF p.live THEN x ELSE 0)  BY <1>1, <2>1, <3>2 DEF Cost
    <3> QED  BY <3>1, <3>2, <3>3, <3>4
  <2>3. \A n \in Nat : Claim(p, n) <= Claim(o, n)  BY <1>1, <2>2 DEF Claim, Most
  <2>4. Billed(o) => Billed(p)  BY <1>1 DEF Billed
  <2> QED  BY <1>1, <2>3, <2>4 DEF Milds
<1>2. CASE o.s.side # "BUY"
  <2>1. \A n \in Nat : Claim(p, n) = 0 /\ Claim(o, n) = 0  BY <1>2 DEF Claim, Cost
  <2> QED  BY <1>2, <2>1 DEF Milds, Billed
<1> QED  BY <1>1, <1>2

\* Every order takes such a step, and a new one claims nothing yet.
MildRows == /\ Len(orders') \in {Len(orders), Len(orders) + 1}
            /\ \A i \in DOMAIN orders : i \in DOMAIN orders' /\ Milds(orders'[i], orders[i])
            /\ \A i \in DOMAIN orders' : i \notin DOMAIN orders =>
                 Billed(orders'[i]) /\ \A n \in Nat : Claim(orders'[i], n) = 0

LEMMA MildSame == ASSUME ISafe, UNCHANGED orders PROVE MildRows
<1>1. \A i \in DOMAIN orders : orders[i] \in Rows /\ RowOK(orders[i])  BY OrderIs
<1>2. \A i \in DOMAIN orders : Milds(orders[i], orders[i])  BY <1>1, RowMilds
<1>3. Len(orders') = Len(orders)  OBVIOUS
<1> QED  BY <1>2, <1>3 DEF MildRows

LEMMA MildRow ==
  ASSUME ISafe, NEW i \in DOMAIN orders, NEW p, orders' = [orders EXCEPT ![i] = p], Milds(p, orders[i])
  PROVE  MildRows
<1>1. orders \in Seq(Rows)  BY DEF ISafe, TypeInv
<1>2. DOMAIN orders' = DOMAIN orders /\ Len(orders') = Len(orders)  BY <1>1
<1>3. \A j \in DOMAIN orders : Milds(orders[j], orders[j])
  <2>1. \A j \in DOMAIN orders : orders[j] \in Rows /\ RowOK(orders[j])  BY OrderIs
  <2> QED  BY <2>1, RowMilds
<1>4. \A j \in DOMAIN orders : Milds(orders'[j], orders[j])  BY <1>1, <1>3
<1> QED  BY <1>2, <1>4 DEF MildRows

\* The rows after a step.
LEMMA RowsNow ==
  ASSUME ISafe', strategy' = strategy
  PROVE  orders' \in Seq(Rows) /\ \A i \in DOMAIN orders' : orders'[i] \in Rows /\ RowOK(orders'[i])
<1>1. orders' \in Seq(Rows)  BY SameTypes DEF ISafe, TypeInv
<1>2. \A i \in DOMAIN orders' : RowOK(orders'[i])  BY DEF ISafe, RowsOK, RowOK, Unsent, Listed
<1> QED  BY <1>1, <1>2

LEMMA ClaimsFall ==
  ASSUME ISafe, ISafe', strategy' = strategy, MildRows, \A i \in DOMAIN orders : Billed(orders[i]),
         stock'.quota = stock.quota
  PROVE  /\ Share' = Share /\ Claims \in Int /\ Claims' \in Int /\ Claims' <= Claims
         /\ \A i \in DOMAIN orders' : Billed(orders'[i])
<1>0. PICK os, n, m, share : os = orders' /\ n = Len(orders) /\ m = Len(os) /\ share = Share  OBVIOUS
<1> DEFINE f == [i \in DOMAIN orders |-> Claim(orders[i], share)]
           g == [i \in DOMAIN os |-> Claim(os[i], share)]
           h == [i \in 1..n |-> Claim(os[i], share)]
<1>1. orders \in Seq(Rows) /\ DOMAIN orders = 1..n /\ n \in Nat  BY <1>0 DEF ISafe, TypeInv
<1>2. DOMAIN os = 1..m /\ m \in {n, n + 1}
  <2>1. os \in Seq(Rows)  BY <1>0, RowsNow
  <2> QED  BY <1>0, <2>1 DEF MildRows
<1>3. share \in Nat /\ Share' = share  BY <1>0, ShareIs DEF Share
<1>4. \A i \in 1..m : Claim(os[i], share) \in Nat
  <2>1. \A i \in DOMAIN os : os[i] \in Rows /\ RowOK(os[i])  BY <1>0, RowsNow
  <2> QED  BY <1>2, <1>3, <2>1, ClaimIs
<1>5. \A i \in 1..n : Claim(orders[i], share) \in Nat
  <2>1. \A i \in DOMAIN orders : orders[i] \in Rows /\ RowOK(orders[i])  BY OrderIs
  <2> QED  BY <1>1, <1>3, <2>1, ClaimIs
<1>6. \A i \in 1..n : i \in 1..m /\ Claim(os[i], share) <= Claim(orders[i], share) /\ Billed(os[i])
  BY <1>0, <1>1, <1>2, <1>3 DEF MildRows, Milds
<1>7. \A i \in 1..m : i \notin 1..n => Claim(os[i], share) = 0 /\ Billed(os[i])
  BY <1>0, <1>1, <1>2, <1>3 DEF MildRows
<1>8. /\ DOMAIN f = 1..n /\ DOMAIN g = 1..m /\ DOMAIN h = 1..n
      /\ \A i \in 1..n : f[i] \in Int /\ h[i] \in Int /\ h[i] <= f[i] /\ g[i] = h[i]
      /\ \A i \in 1..m : i \notin 1..n => g[i] = 0
  BY <1>1, <1>2, <1>4, <1>5, <1>6, <1>7
<1>9. Claims = SumFunction(f) /\ Claims' = SumFunction(g)
  <2>1. Claims = SumFunction(f)  BY <1>0 DEF Claims
  <2>2. Claims' = SumFunction(g)  BY <1>0, <1>3 DEF Claims, Claim, Cost, Remaining
  <2> QED  BY <2>1, <2>2
<1> HIDE DEF f, g, h
<1>10. SumFunction(f) \in Int  BY <1>1, <1>8, TotalInt
<1>11. SumFunction(h) <= SumFunction(f)  BY <1>1, <1>8, TotalAtMost
<1>12. SumFunction(g) = SumFunction(h) /\ SumFunction(h) \in Int
  <2>1. \A i \in 1..n : h[i] \in Int /\ g[i] = h[i]  BY <1>8
  <2>2. \A i \in 1..m : i \notin 1..n => g[i] = 0  BY <1>8
  <2>3. n \in Nat /\ m \in {n, n + 1} /\ DOMAIN h = 1..n /\ DOMAIN g = 1..m  BY <1>1, <1>2, <1>8
  <2> QED  BY <2>1, <2>2, <2>3, TotalKept, SMTT(30)
<1>13. \A i \in DOMAIN os : Billed(os[i])  BY <1>2, <1>6, <1>7
<1> QED  BY <1>0, <1>3, <1>9, <1>10, <1>11, <1>12, <1>13

LEMMA ClaimChange ==
  ASSUME ISafe, NEW i \in DOMAIN orders, NEW p \in Rows, RowOK(p), orders' = [orders EXCEPT ![i] = p],
         stock'.quota = stock.quota
  PROVE  /\ Claims' = Claims - Claim(orders[i], Share) + Claim(p, Share) /\ Claims \in Int
         /\ Claim(orders[i], Share) \in Nat /\ Claim(p, Share) \in Nat /\ Share' = Share
<1>0. PICK os, n, share : os = orders' /\ n = Len(orders) /\ share = Share  OBVIOUS
<1> DEFINE f == [j \in DOMAIN orders |-> Claim(orders[j], share)]
           g == [j \in DOMAIN os |-> Claim(os[j], share)]
<1>1. orders \in Seq(Rows) /\ DOMAIN orders = 1..n /\ n \in Nat /\ i \in 1..n
  BY <1>0 DEF ISafe, TypeInv
<1>2. DOMAIN os = 1..n /\ os[i] = p /\ \A j \in (1..n) \ {i} : os[j] = orders[j]
  BY <1>0, <1>1
<1>3. share \in Nat /\ Share' = share  BY <1>0, ShareIs DEF Share
<1>4. \A j \in 1..n : orders[j] \in Rows /\ RowOK(orders[j])  BY <1>1, OrderIs
<1>5. \A j \in 1..n : Claim(orders[j], share) \in Nat  BY <1>3, <1>4, ClaimIs
<1>6. Claim(p, share) \in Nat  BY <1>3, ClaimIs
<1>7. /\ DOMAIN f = 1..n /\ DOMAIN g = 1..n /\ \A j \in (1..n) \ {i} : g[j] = f[j]
      /\ f[i] = Claim(orders[i], share) /\ g[i] = Claim(p, share)
      /\ \A j \in 1..n : f[j] \in Int /\ g[j] \in Int
  BY <1>1, <1>2, <1>5, <1>6
<1>9. Claims = SumFunction(f) /\ Claims' = SumFunction(g)
  <2>1. Claims = SumFunction(f)  BY <1>0 DEF Claims
  <2>2. Claims' = SumFunction(g)  BY <1>0, <1>3 DEF Claims, Claim, Cost, Remaining
  <2> QED  BY <2>1, <2>2
<1> HIDE DEF f, g
<1>10. SumFunction(f) \in Int  BY <1>1, <1>7, TotalInt
<1>11. SumFunction(g) = SumFunction(f) - f[i] + g[i]
  <2>1. \A j \in 1..n : f[j] \in Int /\ g[j] \in Int  BY <1>7
  <2>2. \A j \in (1..n) \ {i} : g[j] = f[j]  BY <1>7
  <2>3. n \in Nat /\ i \in 1..n /\ DOMAIN f = 1..n /\ DOMAIN g = 1..n  BY <1>1, <1>7
  <2> QED  BY <2>1, <2>2, <2>3, TotalChange
<1> QED  BY <1>0, <1>1, <1>3, <1>5, <1>6, <1>7, <1>9, <1>10, <1>11

\* The steps of the rows but the submission of a purchase and its execution.
Softer(p, o) == /\ p.s.side = o.s.side
                /\ o.s.side = "BUY" => /\ p.s = o.s /\ p.amount = o.amount /\ p.filled = o.filled
                                       /\ (p.live => o.live) /\ (p.status = "PENDING" => o.status = "PENDING")

LEMMA SofterMilds ==
  ASSUME NEW o \in Rows, NEW p \in Rows, RowOK(o), RowOK(p), Softer(p, o)
  PROVE  Milds(p, o)
<1>1. CASE o.s.side = "BUY"  BY <1>1, RowMilds DEF Softer
<1>2. CASE o.s.side # "BUY"
  <2>1. p.s.side # "BUY"  BY <1>2 DEF Softer
  <2>2. \A n \in Nat : Claim(p, n) = 0 /\ Claim(o, n) = 0  BY <1>2, <2>1 DEF Claim, Cost
  <2> QED  BY <1>2, <2>1, <2>2 DEF Milds, Billed
<1> QED  BY <1>1, <1>2

LEMMA RowsSofter ==
  ASSUME ISafe, ISafe', strategy' = strategy, DOMAIN orders' = DOMAIN orders,
         \A i \in DOMAIN orders : Softer(orders'[i], orders[i])
  PROVE  MildRows
<1>1. orders \in Seq(Rows) /\ orders' \in Seq(Rows)  BY RowsNow DEF ISafe, TypeInv
<1>2. Len(orders') = Len(orders)  BY <1>1
<1>3. ASSUME NEW i \in DOMAIN orders PROVE Milds(orders'[i], orders[i])
  <2>1. orders[i] \in Rows /\ RowOK(orders[i]) /\ orders'[i] \in Rows /\ RowOK(orders'[i])
    BY <1>3, OrderIs, RowsNow
  <2>2. PICK o, p : o = orders[i] /\ p = orders'[i]  OBVIOUS
  <2>3. Softer(p, o) /\ o \in Rows /\ p \in Rows /\ RowOK(o) /\ RowOK(p)  BY <1>3, <2>1, <2>2
  <2> QED  BY <2>2, <2>3, SofterMilds
<1> QED  BY <1>2, <1>3 DEF MildRows

LEMMA RowSofter ==
  ASSUME ISafe, ISafe', strategy' = strategy, NEW i \in DOMAIN orders, NEW p,
         orders' = [orders EXCEPT ![i] = p], Softer(p, orders[i])
  PROVE  MildRows
<1>1. DOMAIN orders' = DOMAIN orders /\ orders'[i] = p /\ \A j \in DOMAIN orders : j # i => orders'[j] = orders[j]
  BY DEF ISafe, TypeInv
<1>2. \A o : Softer(o, o)  BY DEF Softer
<1> QED  BY <1>1, <1>2, RowsSofter

LEMMA SettleListedMilds == ASSUME ISafe, ISafe', NEW f \in Flow, SettleListed(f) PROVE MildRows
<1>1. CASE UNCHANGED orders  BY <1>1, MildSame
<1>2. CASE ~UNCHANGED orders
  <2>1. PICK i : i = Row(f)  OBVIOUS
  <2>2. /\ i \in DOMAIN orders /\ Listing(f)[i] = Current(flow[f]) /\ Listed(Current(flow[f]))
        /\ orders[i] \in Rows /\ strategy' = strategy
    BY <2>1, PassIs, RowKinds DEF SettleListed
  <2>3. PICK p : /\ orders' = [orders EXCEPT ![i] = p] /\ p.s = orders[i].s /\ p.amount = orders[i].amount
                 /\ p.filled = orders[i].filled /\ p.live = orders[i].live
                 /\ p.status \in {"FILLED", "PARTIAL", orders[i].status}
    <3> DEFINE l == Listing(f)[Row(f)]
               o == [orders[Row(f)] EXCEPT
                      !.status = IF l.filled >= l.s.qty THEN "FILLED" ELSE IF l.filled > 0 THEN "PARTIAL" ELSE @,
                      !.known = ~(l.filled \in 1..(l.s.qty - 1) /\ ~l.live),
                      !.told = @ + Rest(l.filled, l.told)]
    <3>1. orders' = [orders EXCEPT ![i] = o]  BY <1>2, <2>1 DEF SettleListed
    <3>2. o.s = orders[i].s /\ o.amount = orders[i].amount /\ o.filled = orders[i].filled
          /\ o.live = orders[i].live /\ o.status \in {"FILLED", "PARTIAL", orders[i].status}
      BY <2>1, <2>2 DEF Rows
    <3> HIDE DEF o
    <3> QED  BY <3>1, <3>2
  <2>4. Softer(p, orders[i])  BY <2>3 DEF Softer
  <2> QED  BY <2>2, <2>3, <2>4, RowSofter
<1> QED  BY <1>1, <1>2

\* A row that a pass finds dead gives back a share, if it is a purchase.
LEMMA SettleAbsentRow ==
  ASSUME ISafe, NEW f \in Flow, SettleAbsent(f), ~UNCHANGED orders
  PROVE  \E i \in DOMAIN orders : \E p \in Rows :
           /\ i = Row(f) /\ orders' = [orders EXCEPT ![i] = p] /\ p.s = orders[i].s
           /\ p.amount = orders[i].amount /\ p.filled = orders[i].filled
           /\ p.live = orders[i].live /\ p.status = "CANCELLED" /\ orders[i].filled = 0
           /\ ~orders[i].live /\ orders[i].status = "PENDING" /\ Current(flow[f]).s = orders[i].s
<1>1. PICK i : i = Row(f)  OBVIOUS
<1>2. /\ i \in DOMAIN orders /\ Listing(f)[i] = Current(flow[f]) /\ Listed(Current(flow[f]))
      /\ orders[i] \in Rows /\ Follows(orders[i], Current(flow[f])) /\ Current(flow[f]) \in Rows
      /\ RowOK(Current(flow[f]))
  BY <1>1, PassIs, RowKinds DEF SettleAbsent
<1>3. PICK p : p = [orders[i] EXCEPT !.status = "CANCELLED"]  OBVIOUS
<1>4. orders' = [orders EXCEPT ![i] = p] /\ SameRow(f) /\ ~Current(flow[f]).live /\ Current(flow[f]).filled = 0
  BY <1>1, <1>2, <1>3 DEF SettleAbsent
<1>5. p \in Rows /\ p.s = orders[i].s /\ p.amount = orders[i].amount /\ p.filled = orders[i].filled
      /\ p.live = orders[i].live /\ p.status = "CANCELLED"
  BY <1>2, <1>3 DEF Rows, Status
<1>6. orders[i].filled = 0 /\ ~orders[i].live /\ Current(flow[f]).s = orders[i].s
  BY <1>2, <1>4 DEF Follows
<1>7. Current(flow[f]).status = "PENDING"
  <2>1. Current(flow[f]).told \in Nat /\ Current(flow[f]).filled \in Nat  BY <1>2 DEF Rows
  <2> QED  BY <1>2, <1>4, <2>1 DEF RowOK, Listed
<1>8. orders[i].status = "PENDING"  BY <1>1, <1>2, <1>4, <1>7 DEF SameRow
<1> QED  BY <1>1, <1>2, <1>4, <1>5, <1>6, <1>8

LEMMA SettleAbsentMilds == ASSUME ISafe, ISafe', NEW f \in Flow, SettleAbsent(f) PROVE MildRows
<1>1. CASE UNCHANGED orders  BY <1>1, MildSame
<1>2. CASE ~UNCHANGED orders
  <2>1. PICK i \in DOMAIN orders, p \in Rows :
           /\ orders' = [orders EXCEPT ![i] = p] /\ p.s = orders[i].s
           /\ p.amount = orders[i].amount /\ p.filled = orders[i].filled
           /\ p.live = orders[i].live /\ p.status = "CANCELLED"
    BY <1>2, SettleAbsentRow
  <2>2. strategy' = strategy  BY DEF SettleAbsent
  <2>3. Softer(p, orders[i])  BY <2>1 DEF Softer
  <2> QED  BY <2>1, <2>2, <2>3, RowSofter
<1> QED  BY <1>1, <1>2

LEMMA DeadMilds ==
  ASSUME ISafe, ISafe', strategy' = strategy, NEW os, orders' = os, DOMAIN os = DOMAIN orders,
         \A i \in DOMAIN orders : os[i] \in {orders[i], [orders[i] EXCEPT !.live = FALSE]}
  PROVE  MildRows
<1>1. ASSUME NEW i \in DOMAIN orders PROVE Softer(os[i], orders[i])
  <2>1. orders[i] \in Rows  BY RowKinds
  <2>2. /\ os[i].s = orders[i].s /\ os[i].amount = orders[i].amount /\ os[i].status = orders[i].status
        /\ os[i].filled = orders[i].filled /\ (os[i].live => orders[i].live)
    BY <2>1 DEF Rows
  <2> QED  BY <2>2 DEF Softer
<1> QED  BY <1>1, RowsSofter

LEMMA CancelUnfilledMilds == ASSUME ISafe, ISafe', NEW f \in Flow, CancelUnfilled(f) PROVE MildRows
<1>1. PICK os : orders' = os /\ os = [i \in DOMAIN orders |->
        IF i \in flow[f].open THEN [orders[i] EXCEPT !.live = FALSE] ELSE orders[i]]
  BY DEF CancelUnfilled
<1>2. /\ DOMAIN os = DOMAIN orders /\ strategy' = strategy
      /\ \A i \in DOMAIN orders : os[i] \in {orders[i], [orders[i] EXCEPT !.live = FALSE]}
  BY <1>1 DEF CancelUnfilled
<1> QED  BY <1>1, <1>2, DeadMilds

LEMMA NextDayMilds == ASSUME ISafe, ISafe', NextDay PROVE MildRows
<1>1. PICK os : orders' = os /\ os = [i \in DOMAIN orders |-> [orders[i] EXCEPT !.live = FALSE]]
  BY DEF NextDay
<1>2. /\ DOMAIN os = DOMAIN orders /\ strategy' = strategy
      /\ \A i \in DOMAIN orders : os[i] \in {orders[i], [orders[i] EXCEPT !.live = FALSE]}
  BY <1>1 DEF NextDay
<1> QED  BY <1>1, <1>2, DeadMilds

LEMMA DieMilds == ASSUME ISafe, ISafe', NEW i \in DOMAIN orders, Die(i) PROVE MildRows
<1>1. orders[i] \in Rows  BY RowKinds
<1>2. PICK p : p = [orders[i] EXCEPT !.live = FALSE]  OBVIOUS
<1>3. orders' = [orders EXCEPT ![i] = p] /\ strategy' = strategy /\ orders[i].live  BY <1>1, <1>2 DEF Die
<1>4. /\ p.s = orders[i].s /\ p.amount = orders[i].amount /\ p.status = orders[i].status
      /\ p.filled = orders[i].filled
  BY <1>1, <1>2 DEF Rows
<1>5. Softer(p, orders[i])  BY <1>3, <1>4 DEF Softer
<1> QED  BY <1>3, <1>5, RowSofter

LEMMA DeclineMilds == ASSUME ISafe, ISafe', NEW i \in DOMAIN orders, Decline(i) PROVE MildRows
<1>1. orders[i] \in Rows /\ orders[i].status = "AWAITING" /\ RowOK(orders[i])  BY OrderIs DEF Decline
<1>2. PICK p : p = [orders[i] EXCEPT !.status = "CANCELLED"]  OBVIOUS
<1>3. orders' = [orders EXCEPT ![i] = p] /\ strategy' = strategy  BY <1>1, <1>2 DEF Decline
<1>4. p.s = orders[i].s /\ orders[i].s.side = "SELL"  BY <1>1, <1>2 DEF Rows, RowOK
<1>5. Softer(p, orders[i])  BY <1>4 DEF Softer
<1> QED  BY <1>3, <1>5, RowSofter

LEMMA ApproveMilds == ASSUME ISafe, ISafe', NEW i \in DOMAIN orders, Approve(i) PROVE MildRows
<1>0. PICK s : s = [orders[i].s EXCEPT !.qty = Least(@, account.qty)]  OBVIOUS
<1>1. PICK outcome \in {"PENDING", "FAILED", "CANCELLED"} :
        orders' = [orders EXCEPT ![i] = IF outcome = "PENDING"
                     THEN Sent([orders[i] EXCEPT !.s = IF account.qty = 0 THEN orders[i].s ELSE s])
                     ELSE [orders[i] EXCEPT !.status = outcome]]
  BY <1>0, RowKinds DEF Approve
<1>3. PICK p : p = IF outcome = "PENDING"
                   THEN Sent([orders[i] EXCEPT !.s = IF account.qty = 0 THEN orders[i].s ELSE s])
                   ELSE [orders[i] EXCEPT !.status = outcome]
  OBVIOUS
<1>2. orders[i] \in Rows /\ orders[i].s \in Jobs /\ orders[i].status = "AWAITING" /\ strategy' = strategy
  BY RowKinds DEF Approve
<1>2a. orders[i].s.side = "SELL"  BY <1>2, OrderIs DEF RowOK
<1>4. s.side = orders[i].s.side
  <2>1. orders[i].s \in Signals \/ orders[i].s \in V4Signals  BY <1>2, JobIs
  <2> QED  BY <1>0, <2>1 DEF Signals, V4Signals
<1>5. p.s.side = orders[i].s.side
  <2> HIDE DEF Least
  <2> QED  BY <1>2, <1>3, <1>4 DEF Sent, Rows
<1>6. Softer(p, orders[i])  BY <1>2a, <1>5 DEF Softer
<1> QED  BY <1>1, <1>2, <1>3, <1>6, RowSofter

LEMMA PostRow ==
  ASSUME ISafe, NEW f \in Flow, Post(f)
  PROVE  \E i \in DOMAIN orders, p \in Rows, sent \in BOOLEAN :
           /\ i = flow[f].id /\ orders' = [orders EXCEPT ![i] = p] /\ RowOK(p)
           /\ p.s = orders[i].s /\ p.amount = orders[i].amount /\ p.filled = 0
           /\ orders[i].filled = 0 /\ ~orders[i].live /\ orders[i].status = "SUBMITTING"
           /\ IF sent THEN p.status = "PENDING" /\ p.live ELSE p.status # "PENDING" /\ ~p.live
           /\ flow' = [flow EXCEPT ![f] = [flow[f] EXCEPT !.pc = "submit",
                         !.bought = flow[f].bought \/ (sent /\ orders[i].s.side = "BUY")]]
<1>1. PICK i : i = flow[f].id  OBVIOUS
<1>2. i \in DOMAIN orders /\ orders[i].status = "SUBMITTING"
  BY <1>1, FlowIs DEF Post, FlowInv, PostInv
<1>3. PICK outcome \in {"PENDING", "FAILED", "CANCELLED"} :
        /\ orders' = [orders EXCEPT ![i] = IF outcome = "PENDING" THEN Sent(orders[i])
                                           ELSE [orders[i] EXCEPT !.status = outcome]]
        /\ flow' = [flow EXCEPT ![f] = [flow[f] EXCEPT !.pc = "submit",
                      !.bought = flow[f].bought \/ (outcome = "PENDING" /\ orders[i].s.side = "BUY")]]
  <2>1. PICK outcome \in {"PENDING", "FAILED", "CANCELLED"} :
          /\ orders' = [orders EXCEPT ![flow[f].id] = IF outcome = "PENDING" THEN Sent(@)
                                                      ELSE [@ EXCEPT !.status = outcome]]
          /\ flow' = [flow EXCEPT ![f].pc = "submit", ![f].bought =
                        @ \/ (outcome = "PENDING" /\ orders[flow[f].id].s.side = "BUY")]
    BY DEF Post
  <2>2. orders' = [orders EXCEPT ![i] = IF outcome = "PENDING" THEN Sent(orders[i])
                                        ELSE [orders[i] EXCEPT !.status = outcome]]
    BY <1>1, <1>2, <2>1
  <2>3. PICK got : got = (outcome = "PENDING" /\ orders[i].s.side = "BUY")  OBVIOUS
  <2>4. flow' = [flow EXCEPT ![f].pc = "submit", ![f].bought = @ \/ got]  BY <1>1, <2>1, <2>3
  <2>5. flow' = [flow EXCEPT ![f] = [flow[f] EXCEPT !.pc = "submit", !.bought = flow[f].bought \/ got]]
    BY <2>4
  <2> QED  BY <2>2, <2>3, <2>5
<1>4. PICK p : p = IF outcome = "PENDING" THEN Sent(orders[i]) ELSE [orders[i] EXCEPT !.status = outcome]
  OBVIOUS
<1>5. /\ orders[i] \in Rows /\ RowOK(orders[i]) /\ Unsent(orders[i]) /\ orders[i].s \in Jobs
      /\ orders[i].filled = 0 /\ ~orders[i].live
  BY <1>2, OrderIs, RowKinds DEF Unsent, RowOK
<1>6. /\ p \in Rows /\ RowOK(p) /\ p.s = orders[i].s /\ p.amount = orders[i].amount /\ p.filled = 0
      /\ IF outcome = "PENDING" THEN p.status = "PENDING" /\ p.live ELSE p.status # "PENDING" /\ ~p.live
  <2>1. CASE outcome = "PENDING"
    <3>1. [orders[i] EXCEPT !.s = orders[i].s] = orders[i]  BY <1>5 DEF Rows
    <3>2. p = Sent([orders[i] EXCEPT !.s = orders[i].s])  BY <1>4, <2>1, <3>1
    <3>3. /\ Replaces(p, orders[i]) /\ p.live /\ p.s = orders[i].s /\ p.status = "PENDING"
          /\ p.filled = 0 /\ p.amount = orders[i].amount
      BY <1>5, <3>2, SentIs
    <3> QED  BY <2>1, <3>3 DEF Replaces
  <2>2. CASE outcome # "PENDING"
    <3>1. /\ Replaces(p, orders[i]) /\ ~p.live /\ p.s = orders[i].s /\ p.status = outcome
          /\ p.filled = 0 /\ p.amount = orders[i].amount
      BY <1>4, <1>5, <2>2, ClosedIs
    <3> QED  BY <2>2, <3>1 DEF Replaces
  <2> QED  BY <2>1, <2>2
<1>7. PICK sent \in BOOLEAN : sent = (outcome = "PENDING")  OBVIOUS
<1> QED  BY <1>1, <1>2, <1>3, <1>4, <1>5, <1>6, <1>7

LEMMA AdmitMilds ==
  ASSUME ISafe, ISafe', NEW f \in Flow, AdmitJob(f), InTheWay(Job(f)) = {},
         Job(f).side = "BUY" => Job(f).price > 0
  PROVE  MildRows
<1>1. PICK p : p = NewOrder(Job(f))  OBVIOUS
<1>2. orders' = Append(orders, p) /\ orders \in Seq(Rows)  BY <1>1 DEF AdmitJob, ISafe, TypeInv
<1>3. Job(f) \in Jobs
  <2>2. flow[f].jobs \in Seq(Jobs) /\ flow[f].jobs # <<>>  BY FlowIs DEF AdmitJob, Submitting, Flows
  <2> QED  BY <2>2 DEF Job
<1>4. /\ p \in Rows /\ p.s = Job(f) /\ p.filled = 0 /\ p.amount = 0 /\ ~p.live
      /\ p.status \in {"AWAITING", "SUBMITTING"}
  BY <1>1, <1>3, NewOrderIs
<1>5. /\ Len(orders') = Len(orders) + 1
      /\ orders'[Len(orders) + 1] = p
      /\ \A i \in DOMAIN orders : i \in DOMAIN orders' /\ orders'[i] = orders[i]
      /\ \A i \in DOMAIN orders' : i \in DOMAIN orders \/ i = Len(orders) + 1
  BY <1>2, <1>4, AppendIs
<1>6. Billed(p)
  <2>1. p.s.price \in Nat  BY <1>3, <1>4, JobIs
  <2>2. p.filled * p.s.price = 0  BY <1>4, <2>1
  <2> QED  BY <1>4, <2>2 DEF Billed
<1>7. \A n \in Nat : Claim(p, n) = 0  BY <1>4 DEF Claim, Cost
<1>8. \A i \in DOMAIN orders : Milds(orders[i], orders[i])
  <2>1. \A i \in DOMAIN orders : orders[i] \in Rows /\ RowOK(orders[i])  BY OrderIs
  <2> QED  BY <2>1, RowMilds
<1> QED  BY <1>5, <1>6, <1>7, <1>8 DEF MildRows

\* An execution is paid for from what the order claimed.
LEMMA TradeMilds ==
  ASSUME ISafe, ISafe', NEW i \in DOMAIN orders, orders[i].live, NEW n \in Lots(i), NEW price \in Nat,
         Trade(i, n, price), orders[i].s.side = "BUY" => price = orders[i].s.price
  PROVE  MildRows
<1>1. PICK p \in Rows :
           /\ orders' = [orders EXCEPT ![i] = p] /\ orders'[i] = p
           /\ p.s = orders[i].s /\ p.status = orders[i].status
           /\ p.filled = orders[i].filled + n /\ p.amount = orders[i].amount + n * price
           /\ n \in Nat \ {0} /\ n <= Remaining(orders[i]) /\ Remaining(p) = Remaining(orders[i]) - n
           /\ orders[i].filled \in Nat /\ orders[i].amount \in Nat
  BY TradedRow
<1>2. /\ orders[i] \in Rows /\ RowOK(orders[i]) /\ strategy' = strategy
  BY OrderIs DEF Trade
<1>3. p.live = (n < Remaining(orders[i]))
  <2>1. p = [orders[i] EXCEPT !.filled = @ + n, !.amount = @ + n * price, !.live = n < Remaining(orders[i])]
    BY <1>1, <1>2 DEF Trade, ISafe, TypeInv
  <2> QED  BY <1>2, <2>1 DEF Rows
<1>4. RowOK(p)
  <2>1. i \in DOMAIN orders'  BY <1>1 DEF ISafe, TypeInv
  <2> QED  BY <1>1, <1>2, <2>1, RowsNow
<1>5. Milds(p, orders[i])
  <2>1. CASE orders[i].s.side = "BUY"
    <3>1. PICK rem, left, price1 : rem = Remaining(orders[i]) /\ left = rem - n /\ price1 = orders[i].s.price
      OBVIOUS
    <3>2. /\ rem \in Nat /\ left \in Nat /\ price1 \in Nat /\ price1 = price /\ rem * price1 \in Nat
          /\ orders[i].amount \in Nat
      BY <1>1, <1>2, <2>1, <3>1, ClaimIs
    <3>3. rem * price = n * price + left * price /\ n * price \in Nat /\ left * price \in Nat
      <4>1. rem = n + left  BY <1>1, <3>1, <3>2
      <4> QED  BY <1>1, <3>2, <4>1
    <3>4. Cost(orders[i]) = orders[i].amount + rem * price  BY <2>1, <3>1, <3>2 DEF Cost
    <3>5. Cost(p) = orders[i].amount + n * price + (IF n < rem THEN left * price ELSE 0)
      BY <1>1, <1>3, <2>1, <3>1, <3>2 DEF Cost
    <3>6. Cost(p) = Cost(orders[i])
      <4>1. CASE n < rem
        <5>1. PICK x, y, z : x = n * price /\ y = left * price /\ z = rem * price  OBVIOUS
        <5> QED  BY <3>2, <3>3, <3>4, <3>5, <4>1, <5>1
      <4>2. CASE ~(n < rem)
        <5>1. n = rem /\ left = 0  BY <1>1, <3>1, <3>2, <4>2
        <5> QED  BY <3>2, <3>4, <3>5, <4>2, <5>1
      <4> QED  BY <4>1, <4>2
    <3>7. \A m \in Nat : Claim(p, m) <= Claim(orders[i], m)
      <4>1. p.filled # 0  BY <1>1
      <4>2. Cost(orders[i]) \in Nat /\ \A m \in Nat : Claim(orders[i], m) \in Nat /\ Claim(orders[i], m) >= Cost(orders[i])
        BY <1>2, ClaimIs
      <4>3. \A m \in Nat : Claim(p, m) = Cost(p)  BY <4>1 DEF Claim
      <4> QED  BY <3>6, <4>2, <4>3
    <3>8. Billed(orders[i]) => Billed(p)
      <4>1. (orders[i].filled + n) * price = orders[i].filled * price + n * price  BY <1>1
      <4> QED  BY <1>1, <3>1, <3>2, <4>1 DEF Billed
    <3> QED  BY <1>1, <2>1, <3>7, <3>8 DEF Milds
  <2>2. CASE orders[i].s.side # "BUY"
    <3>1. Softer(p, orders[i])  BY <1>1, <2>2 DEF Softer
    <3> QED  BY <1>2, <1>4, <3>1, SofterMilds
  <2> QED  BY <2>1, <2>2
<1> QED  BY <1>1, <1>5, MildRow

LEMMA BrokerMilds ==
  ASSUME ISafe, ISafe', strategy = "daily-dca", NEW i \in DOMAIN orders, Billed(orders[i]),
         Approve(i) \/ Decline(i) \/ Fill(i) \/ FillAtClose(i) \/ Die(i)
  PROVE  MildRows
<1>1. market.price \in Nat /\ orders[i].s.price \in Nat  BY MarketIs, RowKinds, JobIs DEF ISafe, TypeInv
<1>2. CASE Fill(i)
  <2>1. orders[i].live  BY <1>2 DEF Fill
  <2>2. PICK price \in Nat :
          /\ \E n \in Lots(i) : Trade(i, n, price)
          /\ orders[i].s.side = "BUY" => price = orders[i].s.price
    <3>1. CASE OrderType(orders[i].s) = "MARKET"
      <4>1. orders[i].s.side # "BUY"
        <5>1. orders[i].s.price = 0  BY <3>1 DEF OrderType
        <5> QED  BY <5>1 DEF Billed
      <4> QED  BY <1>1, <1>2, <3>1, <4>1 DEF Fill
    <3>2. CASE OrderType(orders[i].s) # "MARKET"  BY <1>1, <1>2, <3>2 DEF Fill
    <3> QED  BY <3>1, <3>2
  <2>3. PICK n \in Lots(i) : Trade(i, n, price)  BY <2>2
  <2> QED  BY <2>1, <2>2, <2>3, TradeMilds
<1>3. CASE FillAtClose(i)
  <2>1. OrderType(orders[i].s) \in {"MARKET", "LIMIT"}  BY DEF OrderType
  <2> QED  BY <1>3, <2>1 DEF FillAtClose, InAuction
<1> QED  BY <1>2, <1>3, ApproveMilds, DeclineMilds, DieMilds

-----------------------------------------------------------------------------
(* What the loop does between the steps that move the budget: what it read  *)
(* as carried over and whether it bought stay as they are, and an order it  *)
(* submits is one it had to submit.                                         *)
Abides(r, q) ==
  /\ Early(r) => Early(q)
  /\ Early(r) \/ Deciding(r) => r.ws = q.ws /\ (Early(q) \/ Deciding(q))
  /\ Deciding(r) => Deciding(q) \/ Ahead
  /\ Spending(r) => Spending(q) /\ (r.bought <=> q.bought)
  /\ Spending(q) /\ q.bought => Spending(r)
  /\ \A k \in DOMAIN r.jobs : \E j \in DOMAIN q.jobs : q.jobs[j] = r.jobs[k]
  /\ r.pc = "post" => (q.pc = "post" /\ r.id = q.id) \/ (\E j \in DOMAIN q.jobs : q.jobs[j] = orders'[r.id].s)
  /\ Bids(q) => Bids(r)

LEMMA AbidesSame == ASSUME NEW q PROVE Abides(q, q)
BY DEF Abides

LEMMA AbidesEarly ==
  ASSUME NEW q, NEW r, r.jobs \in {q.jobs, <<>>}, Early(q), Early(r), r.ws = q.ws
  PROVE  Abides(r, q)
<1>1. /\ ~Deciding(r) /\ ~Deciding(q) /\ ~Spending(r) /\ ~Spending(q) /\ r.pc # "post"
      /\ q.pc # "submit" /\ ~(Settles(r) /\ r.why \in {"reset", "carry"})
  BY DEF Early, Deciding, Spending, Settles
<1>2. DOMAIN <<>> = {}  OBVIOUS
<1>3. \A k \in DOMAIN r.jobs : \E j \in DOMAIN q.jobs : q.jobs[j] = r.jobs[k]  BY <1>2
<1>4. Bids(q) => Bids(r)
  <2>1. Bids(q) => r.jobs = <<>>  BY <1>1 DEF Bids
  <2> QED  BY <1>1, <1>2, <2>1 DEF Bids
<1> QED  BY <1>1, <1>3, <1>4 DEF Abides

LEMMA AbidesEnd ==
  ASSUME NEW q, NEW r, r.jobs = <<>>, r.pc \in {"idle", "snapshot"}, ~(Spending(q) /\ q.bought)
  PROVE  Abides(r, q)
<1>1. ~Early(r) /\ ~Deciding(r) /\ ~Spending(r) /\ ~Settles(r) /\ r.pc # "post"
  BY DEF Early, Deciding, Spending, Settles
<1>2. DOMAIN <<>> = {}  OBVIOUS
<1> QED  BY <1>1, <1>2 DEF Abides, Bids

LEMMA DueAhead ==
  ASSUME ISafe, NEW f \in Flow, ReadUnfilled(f), Due, strategy = "daily-dca"
  PROVE  Ahead
<1>1. f = "loop" /\ Early(flow["loop"])
  <2>1. flow[f].pc = "unfilled" /\ f = "loop"  BY FlowIs DEF ReadUnfilled, Pcs, Flow, Run
  <2> QED  BY <2>1 DEF Early
<1>2. minute <= Len(Timetable) /\ Timetable[minute] = "target"  BY DEF Due, Once, Slot, Open
<1>3. minute \in DOMAIN Timetable
  <2>1. DOMAIN Timetable = 1..Len(Timetable) /\ Len(Timetable) \in Nat  BY TimetableAssumption
  <2>2. minute \in 1..(Len(Timetable) + 1)  BY DEF ISafe, TypeInv, ClockOK
  <2> QED  BY <1>2, <2>1, <2>2
<1>4. \A m \in DOMAIN Timetable : Timetable[m] = "target" => m = minute
  BY <1>2, <1>3, TimetableAssumption
<1> QED  BY <1>1, <1>4 DEF Ahead

\* One order at most is left to submit.
LEMMA LastJob ==
  ASSUME ISafe, Dca, strategy = "daily-dca", count.manual = 0, flow["loop"].jobs # <<>>
  PROVE  /\ Tail(flow["loop"].jobs) = <<>> /\ 1 \in DOMAIN flow["loop"].jobs
         /\ flow["loop"].jobs[1] = Job("loop") /\ Job("loop") \in Jobs
<1>1. flow["loop"].jobs \in Seq(Jobs)  BY FlowIs DEF Flow, Run, Flows
<1>2. Len(flow["loop"].jobs) <= 1  BY DEF Dca
<1>3. Tail(flow["loop"].jobs) = <<>>  BY <1>1, <1>2, TailOfOne
<1> QED  BY <1>1, <1>3 DEF Job

\* The steps of the minute before the strategy is evaluated, and of the sync.
LEMMA PassAbides ==
  ASSUME ISafe, strategy = "daily-dca", NEW f \in {"loop", "sync"},
         \/ ReadRisk(f) \/ ReadBalance(f) \/ WritePositions(f) \/ ReadPositions(f)
         \/ List(f) \/ SettleListed(f) \/ SettleAbsent(f) \/ EndPass(f) \/ StoreRestore(f)
  PROVE  \E r : /\ flow' = [flow EXCEPT ![f] = r] /\ (f = "loop" => Abides(r, flow[f]))
                /\ Returning(r) => Returning(flow[f]) \/ SettleAbsent(f)
                /\ StoreRestore(f) => ~Returning(r) /\ Returning(flow[f])
<1>0. /\ f \in Flow /\ flow[f] \in Flows /\ flow[f].pc \in Pcs(f) /\ FlowInv(f, flow[f], orders)
      /\ IdleFlow.jobs = <<>> /\ IdleFlow.pc = "idle"
  BY FlowIs, IdleIs DEF Flow, Run
<1>1. SUFFICES \E r : /\ flow' = [flow EXCEPT ![f] = r]
                      /\ \/ r = IdleFlow /\ ~StoreRestore(f)
                         \/ /\ r.jobs = flow[f].jobs /\ r.ws = flow[f].ws
                            /\ f = "loop" => Early(r) /\ Early(flow[f])
                            /\ Settles(r) => (r.why = "restore" => SettleAbsent(f)) /\ ~StoreRestore(f)
                            /\ StoreRestore(f) => Returning(flow[f])
  <2>1. PICK r : /\ flow' = [flow EXCEPT ![f] = r]
                 /\ \/ r = IdleFlow /\ ~StoreRestore(f)
                    \/ /\ r.jobs = flow[f].jobs /\ r.ws = flow[f].ws
                       /\ f = "loop" => Early(r) /\ Early(flow[f])
                       /\ Settles(r) => (r.why = "restore" => SettleAbsent(f)) /\ ~StoreRestore(f)
                       /\ StoreRestore(f) => Returning(flow[f])
    BY <1>1
  <2>2. CASE r = IdleFlow /\ ~StoreRestore(f)
    <3>1. ~Returning(r)  BY <1>0, <2>2 DEF Returning, Settles
    <3>2. ASSUME f = "loop" PROVE Abides(r, flow[f])
      <4>1. ~Spending(flow[f])
        BY <1>0, <2>2
        DEF ReadRisk, ReadBalance, WritePositions, ReadPositions, List, SettleListed, SettleAbsent, EndPass,
            Spending, Settles
      <4> QED  BY <1>0, <2>2, <4>1, AbidesEnd
    <3> QED  BY <2>1, <2>2, <3>1, <3>2
  <2>3. CASE r # IdleFlow \/ StoreRestore(f)
    <3>1. f = "loop" => Abides(r, flow[f])  BY <2>1, <2>3, AbidesEarly
    <3>2. Returning(r) => SettleAbsent(f) /\ ~StoreRestore(f)  BY <2>1, <2>3 DEF Returning
    <3> QED  BY <2>1, <2>3, <3>1, <3>2
  <2> QED  BY <2>2, <2>3
<1>2. CASE ReadRisk(f)
  <2>1. PICK r : r = [flow[f] EXCEPT !.pc = IF f = "loop" THEN "positions" ELSE "balance",
          !.total = Worth(position), !.peak = IF peak > Worth(position) THEN peak ELSE Worth(position)]
    OBVIOUS
  <2>2. flow' = [flow EXCEPT ![f] = r]  BY <1>2, <2>1 DEF ReadRisk
  <2>3. r.pc = (IF f = "loop" THEN "positions" ELSE "balance") /\ r.jobs = flow[f].jobs /\ r.ws = flow[f].ws
    BY <1>0, <2>1 DEF Flows
  <2>4. flow[f].pc = "risk" /\ ~StoreRestore(f)  BY <1>2 DEF ReadRisk, StoreRestore, Storing
  <2> QED  BY <2>2, <2>3, <2>4 DEF Early, Settles
<1>3. CASE ReadPositions(f)
  <2>1. PICK r : r = [flow[f] EXCEPT !.pc = IF f = "manual" THEN "evaluate" ELSE "list", !.held = position]
    OBVIOUS
  <2>2. flow' = [flow EXCEPT ![f] = r]  BY <1>3, <2>1 DEF ReadPositions
  <2>3. r.pc = "list" /\ r.jobs = flow[f].jobs /\ r.ws = flow[f].ws  BY <1>0, <2>1 DEF Flows
  <2>4. flow[f].pc = "positions" /\ ~StoreRestore(f)  BY <1>3 DEF ReadPositions, StoreRestore, Storing
  <2> QED  BY <2>2, <2>3, <2>4 DEF Early, Settles
<1>4. CASE ReadBalance(f)
  <2>1. flow[f].pc = "balance" /\ ~StoreRestore(f)  BY <1>4 DEF ReadBalance, StoreRestore, Storing
  <2>2. f # "loop"  BY <1>0, <2>1 DEF Pcs
  <2>3. CASE flow' = [flow EXCEPT ![f] = IdleFlow]  BY <2>1, <2>3
  <2>4. CASE flow' # [flow EXCEPT ![f] = IdleFlow]
    <3>1. PICK r : r = [flow[f] EXCEPT !.pc = "upsert",
                          !.held = [qty |-> account.qty, avg |-> account.avg, mark |-> market.price]]
      OBVIOUS
    <3>2. flow' = [flow EXCEPT ![f] = r]  BY <1>4, <2>4, <3>1 DEF ReadBalance, Stop
    <3>3. r.pc = "upsert" /\ r.jobs = flow[f].jobs /\ r.ws = flow[f].ws  BY <1>0, <3>1 DEF Flows
    <3> QED  BY <2>1, <2>2, <3>2, <3>3 DEF Settles
  <2> QED  BY <2>3, <2>4
<1>5. CASE WritePositions(f)
  <2>1. flow[f].pc = "upsert" /\ ~StoreRestore(f)  BY <1>5 DEF WritePositions, StoreRestore, Storing
  <2>2. f # "loop"  BY <1>0, <2>1 DEF Pcs
  <2>3. PICK r : r = [flow[f] EXCEPT !.pc = "positions"]  OBVIOUS
  <2>4. flow' = [flow EXCEPT ![f] = r]  BY <1>5, <2>3 DEF WritePositions, Go
  <2>5. r.pc = "positions" /\ r.jobs = flow[f].jobs /\ r.ws = flow[f].ws  BY <1>0, <2>3 DEF Flows
  <2> QED  BY <2>1, <2>2, <2>4, <2>5 DEF Settles
<1>6. CASE List(f)
  <2>1. flow[f].pc = "list" /\ ~StoreRestore(f)  BY <1>6 DEF List, StoreRestore, Storing
  <2>2. CASE flow' = [flow EXCEPT ![f] = IdleFlow]  BY <2>1, <2>2
  <2>3. CASE flow' # [flow EXCEPT ![f] = IdleFlow]
    <3>1. PICK open : flow' = [flow EXCEPT ![f].pc = "pass", ![f].list = orders, ![f].rows = open]
      BY <1>6, <2>3 DEF List, Stop
    <3>2. PICK r : r = [flow[f] EXCEPT !.pc = "pass", !.list = orders, !.rows = open]  OBVIOUS
    <3>3. flow' = [flow EXCEPT ![f] = r]  BY <3>1, <3>2
    <3>4. r.pc = "pass" /\ r.jobs = flow[f].jobs /\ r.ws = flow[f].ws  BY <1>0, <3>2 DEF Flows
    <3> QED  BY <2>1, <3>3, <3>4 DEF Early, Settles
  <2> QED  BY <2>2, <2>3
<1>7. CASE EndPass(f)
  <2>1. flow[f].pc = "pass" /\ ~StoreRestore(f)  BY <1>7 DEF EndPass, StoreRestore, Storing
  <2>2. CASE flow' = [flow EXCEPT ![f] = IdleFlow]  BY <2>1, <2>2
  <2>3. CASE flow' # [flow EXCEPT ![f] = IdleFlow]
    <3>1. PICK r : r = [flow[f] EXCEPT !.pc = "unfilled", !.list = <<>>]  OBVIOUS
    <3>2. flow' = [flow EXCEPT ![f] = r]  BY <1>7, <2>3, <3>1 DEF EndPass, Stop
    <3>3. r.pc = "unfilled" /\ r.jobs = flow[f].jobs /\ r.ws = flow[f].ws  BY <1>0, <3>1 DEF Flows
    <3> QED  BY <2>1, <3>2, <3>3 DEF Early, Settles
  <2> QED  BY <2>2, <2>3
<1>8. CASE SettleListed(f)
  <2>1. flow[f].pc = "pass" /\ ~StoreRestore(f)  BY <1>8 DEF SettleListed, StoreRestore, Storing
  <2>2. CASE NextRow(f)
    <3>1. PICK r : r = [flow[f] EXCEPT !.rows = @ \ {Row(f)}]  OBVIOUS
    <3>2. flow' = [flow EXCEPT ![f] = r]  BY <2>2, <3>1 DEF NextRow
    <3>3. r.pc = "pass" /\ r.jobs = flow[f].jobs /\ r.ws = flow[f].ws  BY <1>0, <2>1, <3>1 DEF Flows
    <3> QED  BY <2>1, <3>2, <3>3 DEF Early, Settles
  <2>3. CASE ~NextRow(f)
    <3>1. PICK now : flow' = [flow EXCEPT ![f].pc = "fetch", ![f].why = "fill", ![f].now = now]
      BY <1>8, <2>3 DEF SettleListed
    <3>2. PICK r : r = [flow[f] EXCEPT !.pc = "fetch", !.why = "fill", !.now = now]  OBVIOUS
    <3>3. flow' = [flow EXCEPT ![f] = r]  BY <3>1, <3>2
    <3>4. r.pc = "fetch" /\ r.why = "fill" /\ r.jobs = flow[f].jobs /\ r.ws = flow[f].ws
      BY <1>0, <3>2 DEF Flows
    <3> QED  BY <2>1, <3>3, <3>4 DEF Early, Settles
  <2> QED  BY <2>2, <2>3
<1>9. CASE SettleAbsent(f)
  <2>1. flow[f].pc = "pass" /\ ~StoreRestore(f)  BY <1>9 DEF SettleAbsent, StoreRestore, Storing
  <2>2. CASE NextRow(f)
    <3>1. PICK r : r = [flow[f] EXCEPT !.rows = @ \ {Row(f)}]  OBVIOUS
    <3>2. flow' = [flow EXCEPT ![f] = r]  BY <2>2, <3>1 DEF NextRow
    <3>3. r.pc = "pass" /\ r.jobs = flow[f].jobs /\ r.ws = flow[f].ws  BY <1>0, <2>1, <3>1 DEF Flows
    <3> QED  BY <2>1, <3>2, <3>3 DEF Early, Settles
  <2>3. CASE ~NextRow(f)
    <3>1. flow' = [flow EXCEPT ![f].pc = "fetch", ![f].why = "restore"]  BY <1>9, <2>3 DEF SettleAbsent
    <3>2. PICK r : r = [flow[f] EXCEPT !.pc = "fetch", !.why = "restore"]  OBVIOUS
    <3>3. flow' = [flow EXCEPT ![f] = r]  BY <3>1, <3>2
    <3>4. r.pc = "fetch" /\ r.why = "restore" /\ r.jobs = flow[f].jobs /\ r.ws = flow[f].ws
      BY <1>0, <3>2 DEF Flows
    <3> QED  BY <1>9, <2>1, <3>3, <3>4 DEF Early, Settles
  <2> QED  BY <2>2, <2>3
<1>10. CASE StoreRestore(f)
  <2>1. PICK r : r = [flow[f] EXCEPT !.pc = "pass", !.rows = @ \ {Row(f)}, !.base = NoStock]  OBVIOUS
  <2>2. flow' = [flow EXCEPT ![f] = r]  BY <1>10, <2>1 DEF StoreRestore
  <2>3. r.pc = "pass" /\ r.jobs = flow[f].jobs /\ r.ws = flow[f].ws  BY <1>0, <2>1 DEF Flows
  <2>4. flow[f].pc = "store" /\ flow[f].why = "restore"  BY <1>10 DEF StoreRestore, Storing
  <2> QED  BY <2>2, <2>3, <2>4 DEF Early, Settles, Returning
<1> QED  BY <1>2, <1>3, <1>4, <1>5, <1>6, <1>7, <1>8, <1>9, <1>10

LEMMA FetchAbides ==
  ASSUME ISafe, strategy = "daily-dca", NEW f \in {"loop", "sync"}, Fetch(f)
  PROVE  \E r : /\ flow' = [flow EXCEPT ![f] = r] /\ (f = "loop" => Abides(r, flow[f]))
                /\ Returning(r) <=> Returning(flow[f])
<1>1. PICK r : r = [flow[f] EXCEPT !.pc = "store", !.base = stock]  OBVIOUS
<1>2. flow' = [flow EXCEPT ![f] = r]  BY <1>1 DEF Fetch
<1>3. flow[f] \in Flows /\ flow[f].pc = "fetch" /\ PcInv(f, flow[f])
  BY FlowIs DEF Flow, Run, Fetch, FlowInv
<1>4. /\ r.pc = "store" /\ r.why = flow[f].why /\ r.jobs = flow[f].jobs /\ r.ws = flow[f].ws
      /\ r.bought = flow[f].bought
  BY <1>1, <1>3 DEF Flows
<1>5. Returning(r) <=> Returning(flow[f])  BY <1>3, <1>4 DEF Returning, Settles
<1>6. ASSUME f = "loop" PROVE Abides(r, flow[f])
  <2>1. Early(r) <=> Early(flow[f])  BY <1>3, <1>4 DEF Early, Settles
  <2>2. Spending(r) <=> Spending(flow[f])  BY <1>3, <1>4 DEF Spending, Settles
  <2>3. ~Deciding(r)  BY <1>4 DEF Deciding
  <2>4. Bids(flow[f]) => Bids(r)  BY <1>3, <1>4 DEF Bids, Settles
  <2> QED  BY <1>3, <1>4, <2>1, <2>2, <2>3, <2>4 DEF Abides
<1> QED  BY <1>2, <1>5, <1>6

\* The steps of the minute from the due check on.
LEMMA RunAbides ==
  ASSUME ISafe, Dca, strategy = "daily-dca", count.manual = 0, Bids(flow["loop"]),
         \/ ReadUnfilled("loop") \/ CancelUnfilled("loop") \/ EvaluationFails("loop") \/ DropJob("loop")
         \/ AdmitJob("loop") \/ EndSubmit("loop") \/ StoreCarry("loop")
  PROVE  \E r : /\ flow' = [flow EXCEPT !["loop"] = r] /\ Abides(r, flow["loop"]) /\ ~Returning(r)
                /\ StoreCarry("loop") => ~Early(r) /\ ~Deciding(r) /\ ~Spending(r)
<1> DEFINE q == flow["loop"]
<1>0. /\ "loop" \in Flow /\ q \in Flows /\ q.pc \in Pcs("loop") /\ PcInv("loop", q)
      /\ IdleFlow.jobs = <<>> /\ IdleFlow.pc = "idle"
      /\ AfterRun("loop").jobs = <<>> /\ AfterRun("loop").pc = "snapshot"
  BY FlowIs, IdleIs, AfterRunIs DEF Flow, Run, FlowInv
<1>1. ASSUME NEW r \in {IdleFlow, AfterRun("loop")}, flow' = [flow EXCEPT !["loop"] = r],
             ~(Spending(q) /\ q.bought)
      PROVE  \E t : /\ flow' = [flow EXCEPT !["loop"] = t] /\ Abides(t, q) /\ ~Returning(t)
                    /\ StoreCarry("loop") => ~Early(t) /\ ~Deciding(t) /\ ~Spending(t)
  <2>1. r.jobs = <<>> /\ r.pc \in {"idle", "snapshot"}  BY <1>0, <1>1
  <2>2. Abides(r, q)  BY <1>1, <2>1, AbidesEnd
  <2>3. ~Returning(r) /\ ~Early(r) /\ ~Deciding(r) /\ ~Spending(r)
    BY <2>1 DEF Returning, Settles, Early, Deciding, Spending
  <2> QED  BY <1>1, <2>2, <2>3
<1>2. CASE ReadUnfilled("loop")
  <2>1. q.pc = "unfilled" /\ ~StoreCarry("loop")  BY <1>2 DEF ReadUnfilled, StoreCarry, Storing
  <2>2. Early(q) /\ ~Spending(q)  BY <2>1 DEF Early, Spending, Settles
  <2>3. CASE flow' = [flow EXCEPT !["loop"] = IdleFlow]  BY <1>1, <2>2, <2>3
  <2>4. CASE flow' = [flow EXCEPT !["loop"] = AfterRun("loop")]  BY <1>1, <2>2, <2>4
  <2>5. CASE flow' # [flow EXCEPT !["loop"] = IdleFlow] /\ flow' # [flow EXCEPT !["loop"] = AfterRun("loop")]
    <3>1. PICK pc, open : /\ pc \in {"cancel", "evaluate"} /\ Due
                          /\ flow' = [flow EXCEPT !["loop"].pc = pc, !["loop"].open = open]
      BY <1>2, <2>5 DEF ReadUnfilled, Stop
    <3>2. PICK r : r = [q EXCEPT !.pc = pc, !.open = open]  OBVIOUS
    <3>3. flow' = [flow EXCEPT !["loop"] = r]  BY <3>1, <3>2
    <3>4. r.pc = pc /\ r.jobs = q.jobs /\ r.ws = q.ws  BY <1>0, <3>2 DEF Flows
    <3>5. Ahead  BY <1>0, <1>2, <3>1, DueAhead
    <3>6. ~Early(r) /\ ~Spending(r) /\ ~Returning(r) /\ r.pc # "post" /\ ~Settles(r)
      BY <3>1, <3>4 DEF Early, Spending, Returning, Settles
    <3>7. Bids(r)
      <4>1. r.jobs = <<>>  BY <2>1, <3>4 DEF Bids
      <4>2. DOMAIN <<>> = {}  OBVIOUS
      <4> QED  BY <3>6, <4>1, <4>2 DEF Bids
    <3>8. Abides(r, q)  BY <2>2, <3>4, <3>5, <3>6, <3>7 DEF Abides
    <3> QED  BY <2>1, <3>3, <3>6, <3>8
  <2> QED  BY <2>3, <2>4, <2>5
<1>3. CASE CancelUnfilled("loop")
  <2>1. PICK r : r = [q EXCEPT !.pc = "evaluate"]  OBVIOUS
  <2>2. flow' = [flow EXCEPT !["loop"] = r]  BY <1>3, <2>1 DEF CancelUnfilled, Go
  <2>3. r.pc = "evaluate" /\ r.jobs = q.jobs /\ r.ws = q.ws  BY <1>0, <2>1 DEF Flows
  <2>4. q.pc = "cancel" /\ ~StoreCarry("loop")  BY <1>3 DEF CancelUnfilled, StoreCarry, Storing
  <2>5. /\ ~Early(r) /\ ~Spending(r) /\ ~Returning(r) /\ ~Spending(q) /\ ~Settles(r)
        /\ Deciding(q)
    BY <2>3, <2>4 DEF Early, Spending, Returning, Settles, Deciding
  <2>6. Bids(r)
    <3>1. r.jobs = <<>>  BY <2>3, <2>4 DEF Bids
    <3>2. DOMAIN <<>> = {}  OBVIOUS
    <3> QED  BY <2>3, <2>5, <3>1, <3>2 DEF Bids
  <2>7. Abides(r, q)  BY <2>3, <2>5, <2>6 DEF Abides
  <2> QED  BY <2>2, <2>4, <2>5, <2>7
<1>4. CASE EvaluationFails("loop")
  <2>1. ~Spending(q)  BY <1>4 DEF EvaluationFails, Spending, Settles
  <2>2. flow' = [flow EXCEPT !["loop"] = AfterRun("loop")]  BY <1>4 DEF EvaluationFails
  <2> QED  BY <1>1, <2>1, <2>2
<1>5. ASSUME DropJob("loop") \/ AdmitJob("loop")
      PROVE  /\ q.pc = "submit" /\ q.jobs # <<>> /\ ~q.bought /\ Spending(q) /\ ~StoreCarry("loop")
             /\ Tail(q.jobs) = <<>> /\ 1 \in DOMAIN q.jobs /\ q.jobs[1] = Job("loop") /\ Job("loop") \in Jobs
  <2>1. q.pc = "submit" /\ q.jobs # <<>> /\ ~StoreCarry("loop")
    BY <1>5 DEF DropJob, AdmitJob, Submitting, StoreCarry, Storing
  <2>2. ~q.bought /\ Spending(q)  BY <2>1 DEF Bids, Spending
  <2> QED  BY <2>1, <2>2, LastJob
<1>6. CASE DropJob("loop") \/ (AdmitJob("loop") /\ InTheWay(Job("loop")) # {})
  <2>1. PICK r : r = [q EXCEPT !.jobs = Tail(q.jobs)]  OBVIOUS
  <2>2. flow' = [flow EXCEPT !["loop"] = r]  BY <1>6, <2>1 DEF DropJob, AdmitJob
  <2>3. r.pc = q.pc /\ r.jobs = <<>> /\ r.ws = q.ws /\ r.bought = q.bought
    <3>1. r.pc = q.pc /\ r.jobs = Tail(q.jobs) /\ r.ws = q.ws /\ r.bought = q.bought  BY <1>0, <2>1 DEF Flows
    <3> QED  BY <1>5, <1>6, <3>1
  <2>4. r.pc = "submit" /\ q.pc = "submit" /\ ~StoreCarry("loop")  BY <1>5, <1>6, <2>3
  <2>5. /\ ~Early(r) /\ ~Deciding(r) /\ ~Returning(r) /\ Spending(r) /\ Spending(q) /\ ~Settles(r)
    BY <2>4 DEF Early, Deciding, Returning, Settles, Spending
  <2>6. DOMAIN <<>> = {}  OBVIOUS
  <2>7. Bids(r)  BY <2>3, <2>4, <2>5, <2>6 DEF Bids
  <2>8. Abides(r, q)  BY <2>3, <2>4, <2>5, <2>6, <2>7 DEF Abides
  <2> QED  BY <2>2, <2>4, <2>5, <2>8
<1>7. CASE AdmitJob("loop") /\ InTheWay(Job("loop")) = {}
  <2>1. PICK r : r = [q EXCEPT !.jobs = Tail(q.jobs), !.id = Len(orders) + 1,
                        !.pc = IF NeedsApproval(Job("loop")) THEN "submit" ELSE "post"]
    OBVIOUS
  <2>2. flow' = [flow EXCEPT !["loop"] = r]  BY <1>7, <2>1 DEF AdmitJob
  <2>3. /\ r.pc \in {"submit", "post"} /\ r.jobs = <<>> /\ r.ws = q.ws /\ r.bought = q.bought
        /\ r.id = Len(orders) + 1
    <3>1. /\ r.pc \in {"submit", "post"} /\ r.jobs = Tail(q.jobs) /\ r.ws = q.ws /\ r.bought = q.bought
          /\ r.id = Len(orders) + 1
      BY <1>0, <2>1 DEF Flows
    <3> QED  BY <1>5, <1>7, <3>1
  <2>4. /\ ~Early(r) /\ ~Deciding(r) /\ ~Returning(r) /\ Spending(r) /\ ~Settles(r)
    BY <2>3 DEF Early, Deciding, Returning, Settles, Spending
  <2>5. orders'[r.id].s = Job("loop")
    <3>1. orders' = Append(orders, NewOrder(Job("loop"))) /\ orders \in Seq(Rows)
      BY <1>7 DEF AdmitJob, ISafe, TypeInv
    <3>2. NewOrder(Job("loop")) \in Rows /\ NewOrder(Job("loop")).s = Job("loop")  BY <1>5, <1>7, NewOrderIs
    <3>3. orders'[Len(orders) + 1] = NewOrder(Job("loop"))  BY <3>1, <3>2, AppendIs
    <3> QED  BY <2>3, <3>2, <3>3
  <2>6. DOMAIN <<>> = {}  OBVIOUS
  <2>7. Bids(r)  BY <1>5, <1>7, <2>3, <2>4, <2>6 DEF Bids
  <2>8. \E j \in DOMAIN q.jobs : q.jobs[j] = orders'[r.id].s  BY <1>5, <1>7, <2>5
  <2>9. Abides(r, q)  BY <1>5, <1>7, <2>3, <2>4, <2>6, <2>7, <2>8 DEF Abides
  <2> QED  BY <1>5, <1>7, <2>2, <2>4, <2>9
<1>8. CASE EndSubmit("loop")
  <2>1. q.pc = "submit" /\ q.jobs = <<>> /\ Spending(q) /\ Carries /\ ~StoreCarry("loop")
    BY <1>8 DEF EndSubmit, Spending, Carries, StoreCarry, Storing
  <2>2. PICK r : r = IF q.bought THEN [q EXCEPT !.pc = "fetch", !.why = "reset"]
                     ELSE IF q.due THEN [q EXCEPT !.pc = "fetch", !.why = "carry"]
                     ELSE AfterRun("loop")
    OBVIOUS
  <2>3. flow' = [flow EXCEPT !["loop"] = r]  BY <1>8, <2>1, <2>2 DEF EndSubmit
  <2>4. CASE r = AfterRun("loop") /\ ~q.bought  BY <1>1, <2>3, <2>4
  <2>5. CASE q.bought \/ q.due
    <3>1. /\ r.pc = "fetch" /\ r.why \in {"reset", "carry"} /\ (q.bought <=> r.why = "reset")
          /\ r.jobs = <<>> /\ r.bought = q.bought
      BY <1>0, <2>1, <2>2, <2>5 DEF Flows
    <3>2. /\ ~Early(r) /\ ~Deciding(r) /\ ~Returning(r) /\ Spending(r)
      BY <3>1 DEF Early, Deciding, Returning, Settles, Spending
    <3>3. DOMAIN <<>> = {}  OBVIOUS
    <3>4. Bids(r)  BY <3>1, <3>3 DEF Bids
    <3>5. Abides(r, q)  BY <2>1, <3>1, <3>2, <3>3, <3>4 DEF Abides
    <3> QED  BY <2>1, <2>3, <3>2, <3>5
  <2> QED  BY <2>2, <2>4, <2>5
<1>9. CASE StoreCarry("loop")
  <2>1. ~q.bought  BY <1>9 DEF StoreCarry, Storing, Bids, Settles
  <2>2. flow' = [flow EXCEPT !["loop"] = AfterRun("loop")]  BY <1>9 DEF StoreCarry
  <2> QED  BY <1>1, <2>1, <2>2
<1> QED  BY <1>2, <1>3, <1>4, <1>6, <1>7, <1>8, <1>9

LEMMA LoopBusy == ASSUME NEW f, Loop(f) PROVE flow[f].pc # "idle"
BY DEF Loop, ReadRisk, ReadBalance, WritePositions, ReadPositions, List, SettleListed, SettleAbsent,
       EndPass, ReadUnfilled, CancelUnfilled, EvaluateRules, EvaluateV4, EvaluationFails, DropJob, AdmitJob,
       Submitting, Post, EndSubmit, Fetch, StoreFill, StoreRestore, StoreCarry, StoreReset, StoreMode,
       StoreQuota, Storing

LEMMA ThriftyLoop ==
  ASSUME ISafe, Dca, Thrifty, Steady, NEW f \in Flow, Loop(f)
  PROVE  /\ f \in {"loop", "sync"} /\ ~EvaluateV4(f) /\ ~StoreFill(f) /\ ~StoreMode(f) /\ ~StoreQuota(f)
         /\ f = "sync" => /\ ~ReadUnfilled(f) /\ ~CancelUnfilled(f) /\ ~EvaluateRules(f)
                          /\ ~EvaluationFails(f) /\ ~DropJob(f) /\ ~AdmitJob(f) /\ ~Post(f)
                          /\ ~EndSubmit(f) /\ ~StoreCarry(f) /\ ~StoreReset(f)
<1>1. f \in {"loop", "sync"}
  <2>1. flow["user"].pc = "idle" /\ flow["manual"].pc = "idle"  BY DEF Dca, Thrifty, Steady
  <2>2. flow[f].pc # "idle"  BY LoopBusy
  <2> QED  BY <2>1, <2>2 DEF Flow, Run
<1>2. flow[f].pc \in Pcs(f) /\ PcInv(f, flow[f]) /\ FillInv(flow[f], orders) /\ strategy = "daily-dca"
  BY FlowIs DEF FlowInv, Thrifty
<1>3. ~EvaluateV4(f) /\ ~StoreMode(f)  BY <1>2 DEF EvaluateV4, StoreMode, Storing, PcInv, Settles
<1>4. ~StoreFill(f)  BY <1>2 DEF StoreFill, Storing, FillInv, Told, Settles
<1>5. ~StoreQuota(f)  BY <1>1, <1>2 DEF StoreQuota, Storing, PcInv, Settles, Reasons
<1>6. ASSUME f = "sync"
      PROVE  /\ ~ReadUnfilled(f) /\ ~CancelUnfilled(f) /\ ~EvaluateRules(f)
             /\ ~EvaluationFails(f) /\ ~DropJob(f) /\ ~AdmitJob(f) /\ ~Post(f)
             /\ ~EndSubmit(f) /\ ~StoreCarry(f) /\ ~StoreReset(f)
  <2>1. /\ flow[f].pc \notin {"unfilled", "cancel", "evaluate", "submit", "post"}
        /\ Settles(flow[f]) => flow[f].why \in {"fill", "restore"}
    BY <1>2, <1>6 DEF Pcs, PcInv, Reasons
  <2> QED
    BY <2>1 DEF ReadUnfilled, CancelUnfilled, EvaluateRules, EvaluationFails, DropJob, AdmitJob, Submitting,
                Post, EndSubmit, StoreCarry, StoreReset, Storing, Settles
<1> QED  BY <1>1, <1>3, <1>4, <1>5, <1>6

\* What a change of strategyParams does to what is carried over.
LEMMA ColumnMoves ==
  ASSUME ISafe, NEW f \in Flow, NEW rules \in Params, NEW v4 \in Ledgers, StoreColumn(f, rules, v4)
  PROVE  /\ stock'.quota = stock.quota /\ stock'.rules = rules
         /\ ~audit'.torn => ~audit.torn /\ stock.rules = flow[f].base.rules
<1>1. stock \in Stocks /\ audit \in Audits  BY DEF ISafe, TypeInv, StoresOK
<1>2. stock' = [stock EXCEPT !.rules = rules, !.v4 = v4]  BY DEF StoreColumn, Store
<1>3. stock'.quota = stock.quota /\ stock'.rules = rules  BY <1>1, <1>2 DEF Stocks
<1>4. PICK lost : lost = (Column(stock) # Column(Base(f)))  OBVIOUS
<1>5. audit' = [audit EXCEPT !.overlap = @ \/ Overlapping, !.aside = @ + 0, !.short = @ \/ FALSE,
                             !.torn = @ \/ lost]
  BY <1>4 DEF StoreColumn, Store
<1>6. audit'.torn = (audit.torn \/ lost)  BY <1>1, <1>5 DEF Audits
<1>7. Column(stock) = Column(Base(f)) => stock.rules = flow[f].base.rules  BY DEF Column, Base
<1> QED  BY <1>3, <1>4, <1>6, <1>7

LEMMA CarryMoves ==
  ASSUME ISafe, NEW f \in Flow, NEW invested \in Nat, flow[f].pc = "store",
         flow[f].base.quota = stock.quota, Carry(f, invested)
  PROVE  /\ stock'.quota = stock.quota /\ stock'.rules.carried \in Nat
         /\ ~audit'.torn => ~audit.torn /\ stock'.rules.carried <= stock.rules.carried + Share
<1>1. flow[f].base.rules \in Params /\ flow[f].base.v4 \in Ledgers /\ flow[f].base.quota \in Nat
  BY StoringIs
<1>2. stock.rules.carried \in Nat /\ Share \in Nat  BY ShareIs DEF ISafe, TypeInv, StoresOK, Stocks, Params
<1>3. CASE MayCarry(f, invested)
  <2> DEFINE carried == Least(flow[f].base.rules.carried + flow[f].base.quota \div Cycles, Room(f, invested))
  <2>1. flow[f].base.rules.carried \in Nat  BY <1>1 DEF Params
  <2>2. flow[f].base.quota \div Cycles = Share  BY DEF Share
  <2>3. Room(f, invested) \in Nat  BY <1>1 DEF Room, Rest, Base
  <2>4. carried \in Nat /\ carried <= flow[f].base.rules.carried + Share
    BY <1>2, <2>1, <2>2, <2>3 DEF Least
  <2>5. day \in Nat  BY BoundAssumption DEF ISafe, TypeInv
  <2>6. PICK rules : rules = [flow[f].base.rules EXCEPT !.carried = carried, !.carriedOn = day]  OBVIOUS
  <2>7. StoreColumn(f, rules, flow[f].base.v4)  BY <1>3, <2>6 DEF Carry, Base
  <2> HIDE DEF carried
  <2>8. rules \in Params /\ rules.carried = carried  BY <1>1, <2>4, <2>5, <2>6 DEF Params
  <2>9. /\ stock'.quota = stock.quota /\ stock'.rules = rules
        /\ ~audit'.torn => ~audit.torn /\ stock.rules = flow[f].base.rules
    BY <1>1, <2>7, <2>8, ColumnMoves
  <2> QED  BY <2>4, <2>8, <2>9
<1>4. CASE ~MayCarry(f, invested)
  <2>1. UNCHANGED stock /\ Watch  BY <1>4 DEF Carry
  <2>2. audit.torn => audit'.torn  BY <2>1, WatchRemembers DEF Remembers
  <2> QED  BY <1>2, <2>1, <2>2
<1> QED  BY <1>3, <1>4

LEMMA ResetMoves ==
  ASSUME ISafe, NEW f \in Flow, StoreReset(f)
  PROVE  /\ stock'.quota = stock.quota /\ stock'.rules.carried = 0 /\ (~audit'.torn => ~audit.torn)
<1>1. flow[f].base.rules \in Params /\ flow[f].base.v4 \in Ledgers
  BY StoringIs DEF StoreReset, Storing
<1>2. day \in Nat  BY BoundAssumption DEF ISafe, TypeInv
<1>3. PICK rules : rules = [flow[f].base.rules EXCEPT !.carried = 0, !.carriedOn = day]  OBVIOUS
<1>4. rules \in Params /\ rules.carried = 0  BY <1>1, <1>2, <1>3 DEF Params
<1>5. StoreColumn(f, rules, flow[f].base.v4)  BY <1>3 DEF StoreReset, Base
<1>6. /\ stock'.quota = stock.quota /\ stock'.rules = rules /\ (~audit'.torn => ~audit.torn)
  BY <1>1, <1>4, <1>5, ColumnMoves
<1> QED  BY <1>4, <1>6

LEMMA LoopStock ==
  ASSUME NEW f, Loop(f), ~StoreFill(f), ~StoreMode(f), ~StoreQuota(f), ~StoreRestore(f), ~StoreCarry(f),
         ~StoreReset(f)
  PROVE  UNCHANGED stock
<1>1. CASE \/ ReadRisk(f) \/ ReadBalance(f) \/ WritePositions(f) \/ ReadPositions(f) \/ List(f)
           \/ SettleListed(f) \/ SettleAbsent(f) \/ EndPass(f) \/ ReadUnfilled(f) \/ CancelUnfilled(f)
  BY <1>1 DEF ReadRisk, ReadBalance, WritePositions, ReadPositions, List, SettleListed, SettleAbsent,
              EndPass, ReadUnfilled, CancelUnfilled
<1>2. CASE \/ EvaluateRules(f) \/ EvaluateV4(f) \/ EvaluationFails(f) \/ DropJob(f) \/ AdmitJob(f)
           \/ Post(f) \/ EndSubmit(f) \/ Fetch(f)
  BY <1>2 DEF EvaluateRules, EvaluateV4, EvaluationFails, DropJob, AdmitJob, Post, EndSubmit, Fetch
<1> QED  BY <1>1, <1>2 DEF Loop

\* The rows move mildly but for the submission of a purchase.
LEMMA PostMilds ==
  ASSUME ISafe, ISafe', NEW f \in Flow, Post(f), ~(orders[flow[f].id].s.side = "BUY" /\ flow'[f].bought)
  PROVE  MildRows
<1>1. PICK i \in DOMAIN orders, p \in Rows, sent \in BOOLEAN :
           /\ i = flow[f].id /\ orders' = [orders EXCEPT ![i] = p] /\ RowOK(p)
           /\ p.s = orders[i].s /\ p.amount = orders[i].amount /\ p.filled = 0
           /\ orders[i].filled = 0 /\ ~orders[i].live /\ orders[i].status = "SUBMITTING"
           /\ IF sent THEN p.status = "PENDING" /\ p.live ELSE p.status # "PENDING" /\ ~p.live
           /\ flow' = [flow EXCEPT ![f] = [flow[f] EXCEPT !.pc = "submit",
                         !.bought = flow[f].bought \/ (sent /\ orders[i].s.side = "BUY")]]
  BY PostRow, Zenon
<1>2. PICK got : got = (flow[f].bought \/ (sent /\ orders[i].s.side = "BUY"))  OBVIOUS
<1>3. flow'[f].bought = got
  <2>1. PICK r : r = [flow[f] EXCEPT !.pc = "submit", !.bought = got]  OBVIOUS
  <2>2. flow' = [flow EXCEPT ![f] = r]  BY <1>1, <1>2, <2>1
  <2>3. r.bought = got  BY <2>1, FlowIs DEF Flows
  <2> QED  BY <2>2, <2>3, OtherFlows
<1>4. Softer(p, orders[i])  BY <1>1, <1>2, <1>3 DEF Softer
<1>5. strategy' = strategy  BY DEF Post
<1> QED  BY <1>1, <1>4, <1>5, RowSofter

LEMMA LoopMilds ==
  ASSUME ISafe, ISafe', NEW f \in Flow, Loop(f), Dca, Thrifty, Steady,
         ~(Post(f) /\ orders[flow[f].id].s.side = "BUY" /\ flow'[f].bought)
  PROVE  MildRows
<1>1. CASE SettleListed(f)  BY <1>1, SettleListedMilds
<1>2. CASE SettleAbsent(f)  BY <1>2, SettleAbsentMilds
<1>3. CASE CancelUnfilled(f)  BY <1>3, CancelUnfilledMilds
<1>4. CASE Post(f)  BY <1>4, PostMilds
<1>5. CASE AdmitJob(f) /\ InTheWay(Job(f)) = {}
  <2>1. f = "loop" /\ strategy = "daily-dca" /\ count.manual = 0 /\ Bids(flow["loop"])
    BY <1>5, ThriftyLoop DEF Thrifty, Steady
  <2>2. flow["loop"].jobs # <<>>  BY <1>5, <2>1 DEF AdmitJob, Submitting
  <2>3. 1 \in DOMAIN flow["loop"].jobs /\ flow["loop"].jobs[1] = Job("loop")  BY <2>1, <2>2, LastJob
  <2>4. Job("loop").side = "BUY" => Job("loop").price > 0  BY <2>1, <2>3 DEF Bids
  <2> QED  BY <1>5, <2>1, <2>4, AdmitMilds
<1>6. CASE ~SettleListed(f) /\ ~SettleAbsent(f) /\ ~CancelUnfilled(f) /\ ~Post(f)
           /\ ~(AdmitJob(f) /\ InTheWay(Job(f)) = {})
  <2>1. UNCHANGED orders  BY <1>6, LoopOrders
  <2> QED  BY <2>1, MildSame
<1> QED  BY <1>1, <1>2, <1>3, <1>4, <1>5, <1>6

-----------------------------------------------------------------------------
(* What is used up, step by step.                                          *)
LEMMA UsedIs ==
  ASSUME ISafe
  PROVE  /\ Claims \in Int /\ Share \in Nat /\ Used \in Int
         /\ Returned(flow["loop"]) \in {0, Share} /\ Returned(flow["sync"]) \in {0, Share}
         /\ Used = Claims + Returned(flow["loop"]) + Returned(flow["sync"])
         /\ stock.rules.carried \in Nat
<1>1. PICK n, share : n = Len(orders) /\ share = Share  OBVIOUS
<1>2. orders \in Seq(Rows) /\ DOMAIN orders = 1..n /\ n \in Nat  BY <1>1 DEF ISafe, TypeInv
<1>3. Share \in Nat  BY ShareIs
<1> DEFINE g == [i \in DOMAIN orders |-> Claim(orders[i], share)]
<1>4. \A i \in 1..n : Claim(orders[i], share) \in Nat
  <2>1. \A i \in DOMAIN orders : orders[i] \in Rows /\ RowOK(orders[i])  BY OrderIs
  <2> QED  BY <1>1, <1>2, <1>3, <2>1, ClaimIs
<1>5. DOMAIN g = 1..n /\ \A i \in 1..n : g[i] \in Int  BY <1>2, <1>4
<1>6. Claims = SumFunction(g)  BY <1>1 DEF Claims
<1> HIDE DEF g
<1>7. Claims \in Int  BY <1>2, <1>5, <1>6, TotalInt
<1>8. Returned(flow["loop"]) \in {0, Share} /\ Returned(flow["sync"]) \in {0, Share}  BY DEF Returned
<1>9. stock.rules.carried \in Nat  BY DEF ISafe, TypeInv, StoresOK, Stocks, Params
<1> QED  BY <1>3, <1>7, <1>8, <1>9 DEF Used

LEMMA UsedNow ==
  ASSUME Share' = Share
  PROVE  Used' = Claims' + (IF Returning(flow'["loop"]) THEN Share ELSE 0)
                         + (IF Returning(flow'["sync"]) THEN Share ELSE 0)
BY DEF Used, Returned, Returning, Settles

LEMMA UsedFalls ==
  ASSUME ISafe, ISafe', strategy' = strategy, stock'.quota = stock.quota, MildRows,
         \A i \in DOMAIN orders : Billed(orders[i]),
         Returning(flow'["loop"]) => Returning(flow["loop"]),
         Returning(flow'["sync"]) => Returning(flow["sync"])
  PROVE  /\ Share' = Share /\ Used' \in Int /\ Used' <= Used
         /\ \A i \in DOMAIN orders' : Billed(orders'[i])
         /\ (\/ Returning(flow["loop"]) /\ ~Returning(flow'["loop"])
             \/ Returning(flow["sync"]) /\ ~Returning(flow'["sync"])) => Used' + Share <= Used
<1>1. /\ Share' = Share /\ Claims \in Int /\ Claims' \in Int /\ Claims' <= Claims
      /\ \A i \in DOMAIN orders' : Billed(orders'[i])
  BY ClaimsFall
<1>2. Share \in Nat  BY ShareIs
<1>3. PICK x, y, u, v : /\ x = Returned(flow["loop"]) /\ y = Returned(flow["sync"])
                        /\ u = (IF Returning(flow'["loop"]) THEN Share ELSE 0)
                        /\ v = (IF Returning(flow'["sync"]) THEN Share ELSE 0)
  OBVIOUS
<1>4. Used = Claims + x + y /\ Used' = Claims' + u + v  BY <1>1, <1>3, UsedNow DEF Used
<1>5. x \in Nat /\ y \in Nat /\ u \in Nat /\ v \in Nat /\ u <= x /\ v <= y
  BY <1>2, <1>3 DEF Returned
<1>6. (\/ Returning(flow["loop"]) /\ ~Returning(flow'["loop"])
       \/ Returning(flow["sync"]) /\ ~Returning(flow'["sync"])) => u + v + Share <= x + y
  <2>1. CASE Returning(flow["loop"]) /\ ~Returning(flow'["loop"])
    <3>1. x = Share /\ u = 0  BY <1>3, <2>1 DEF Returned
    <3> QED  BY <1>2, <1>5, <3>1
  <2>2. CASE Returning(flow["sync"]) /\ ~Returning(flow'["sync"])
    <3>1. y = Share /\ v = 0  BY <1>3, <2>2 DEF Returned
    <3> QED  BY <1>2, <1>5, <3>1
  <2> QED  BY <2>1, <2>2
<1>7. PICK was, use, a, b, moves :
        /\ was = Used /\ use = Used' /\ a = Claims /\ b = Claims'
        /\ moves = (\/ Returning(flow["loop"]) /\ ~Returning(flow'["loop"])
                    \/ Returning(flow["sync"]) /\ ~Returning(flow'["sync"]))
  OBVIOUS
<1>8. a \in Int /\ b \in Int /\ b <= a /\ was = a + x + y /\ use = b + u + v  BY <1>1, <1>4, <1>7
<1>9. use \in Int /\ use <= was  BY <1>5, <1>8
<1>10. ASSUME moves PROVE use + Share <= was
  <2>1. u + v + Share <= x + y  BY <1>6, <1>7, <1>10
  <2> QED  BY <1>2, <1>5, <1>8, <2>1
<1> QED  BY <1>1, <1>7, <1>9, <1>10

\* The pass that reports a purchase dead takes the claim of its order over.
LEMMA AbsentUsed ==
  ASSUME ISafe, ISafe', Thrifty, \A i \in DOMAIN orders : Billed(orders[i]),
         NEW f \in {"loop", "sync"}, SettleAbsent(f)
  PROVE  Used' <= Used /\ Used' \in Int /\ Share' = Share
<1>0. f \in Flow /\ strategy' = strategy /\ stock'.quota = stock.quota /\ strategy = "daily-dca"
      /\ flow[f].pc = "pass" /\ flow \in [Flow -> Flows]
  BY DEF Flow, Run, SettleAbsent, Thrifty, ISafe, TypeInv
<1>1. ~Returning(flow[f])  BY <1>0 DEF Returning, Settles
<1>2. /\ \A g \in Flow : g # f => flow'[g] = flow[g]
      /\ Returning(flow'[f]) => ~UNCHANGED orders /\ Listing(f)[Row(f)].s.side = "BUY"
  <2>1. CASE NextRow(f)
    <3>1. PICK r : r = [flow[f] EXCEPT !.rows = @ \ {Row(f)}]  OBVIOUS
    <3>2. flow' = [flow EXCEPT ![f] = r]  BY <2>1, <3>1 DEF NextRow
    <3>3. r.pc = "pass"  BY <1>0, <3>1 DEF Flows
    <3> QED  BY <1>0, <3>2, <3>3, OtherFlows DEF Returning, Settles
  <2>2. CASE ~NextRow(f)
    <3>1. /\ SameRow(f) /\ flow' = [flow EXCEPT ![f].pc = "fetch", ![f].why = "restore"]
          /\ Listing(f)[Row(f)].s.side = "BUY"
          /\ orders' = [orders EXCEPT ![Row(f)].status = "CANCELLED"]
      BY <2>2 DEF SettleAbsent
    <3>2. \A g \in Flow : g # f => flow'[g] = flow[g]  BY <1>0, <3>1
    <3>3. ~UNCHANGED orders
      <4>1. PICK i : i = Row(f)  OBVIOUS
      <4>2. /\ i \in DOMAIN orders /\ Listing(f)[i] = Current(flow[f]) /\ Listed(Current(flow[f]))
            /\ orders[i] \in Rows
        BY <1>0, <4>1, PassIs, RowKinds DEF SettleAbsent
      <4>3. orders[i].status \in {"PENDING", "PARTIAL"}  BY <3>1, <4>1, <4>2 DEF SameRow, Listed
      <4>4. orders'[i].status = "CANCELLED"
        <5>1. orders' = [orders EXCEPT ![i] = [orders[i] EXCEPT !.status = "CANCELLED"]]
          BY <3>1, <4>1, <4>2
        <5>2. orders'[i] = [orders[i] EXCEPT !.status = "CANCELLED"]
          BY <4>2, <5>1 DEF ISafe, TypeInv
        <5> QED  BY <4>2, <5>2 DEF Rows
      <4> QED  BY <4>3, <4>4
    <3> QED  BY <3>1, <3>2, <3>3
  <2> QED  BY <2>1, <2>2
<1>3. {"loop", "sync"} \subseteq Flow  BY DEF Flow, Run
<1>4. CASE ~Returning(flow'[f])
  <2>1. MildRows  BY <1>0, SettleAbsentMilds
  <2>2. Returning(flow'["loop"]) => Returning(flow["loop"])  BY <1>2, <1>3, <1>4
  <2>3. Returning(flow'["sync"]) => Returning(flow["sync"])  BY <1>2, <1>3, <1>4
  <2> QED  BY <1>0, <2>1, <2>2, <2>3, UsedFalls
<1>5. CASE Returning(flow'[f])
  <2>1. PICK i \in DOMAIN orders, p \in Rows :
           /\ i = Row(f) /\ orders' = [orders EXCEPT ![i] = p] /\ p.s = orders[i].s
           /\ p.amount = orders[i].amount /\ p.filled = orders[i].filled
           /\ p.live = orders[i].live /\ p.status = "CANCELLED" /\ orders[i].filled = 0
           /\ ~orders[i].live /\ orders[i].status = "PENDING" /\ Current(flow[f]).s = orders[i].s
    BY <1>0, <1>2, <1>5, SettleAbsentRow
  <2>2. orders[i].s.side = "BUY"
    <3>1. Listing(f)[Row(f)] = Current(flow[f])  BY <1>0, PassIs DEF SettleAbsent
    <3> QED  BY <1>2, <1>5, <2>1, <3>1
  <2>3. RowOK(p)
    <3>1. orders'[i] = p /\ i \in DOMAIN orders'  BY <2>1 DEF ISafe, TypeInv
    <3> QED  BY <1>0, <3>1, RowsNow
  <2>4. /\ Claims' = Claims - Claim(orders[i], Share) + Claim(p, Share) /\ Claims \in Int
        /\ Claim(orders[i], Share) \in Nat /\ Claim(p, Share) \in Nat /\ Share' = Share
    BY <1>0, <2>1, <2>3, ClaimChange
  <2>5. orders[i] \in Rows /\ RowOK(orders[i]) /\ orders[i].s.price \in Nat /\ orders[i].amount = 0
    <3>1. orders[i] \in Rows /\ RowOK(orders[i])  BY <2>1, OrderIs
    <3>2. orders[i].s.price \in Nat  BY <3>1, ClaimIs
    <3>3. 0 * orders[i].s.price = 0  BY <3>2
    <3> QED  BY <2>1, <2>2, <3>1, <3>2, <3>3 DEF Billed
  <2>6. Share \in Nat  BY ShareIs
  <2>7. Claim(p, Share) = 0  BY <2>1, <2>5 DEF Claim, Cost
  <2>8. Claim(orders[i], Share) = Share  BY <2>1, <2>2, <2>5, <2>6 DEF Claim, Cost, Most
  <2>9. Claims' = Claims - Share  BY <2>4, <2>6, <2>7, <2>8
  <2>10. PICK x, y, u, v : /\ x = Returned(flow["loop"]) /\ y = Returned(flow["sync"])
                           /\ u = (IF Returning(flow'["loop"]) THEN Share ELSE 0)
                           /\ v = (IF Returning(flow'["sync"]) THEN Share ELSE 0)
    OBVIOUS
  <2>11. Used = Claims + x + y /\ Used' = Claims' + u + v  BY <2>4, <2>10, UsedNow DEF Used
  <2>12. x \in Nat /\ y \in Nat /\ u \in Nat /\ v \in Nat  BY <2>6, <2>10 DEF Returned
  <2>13. u + v = x + y + Share
    <3>1. CASE f = "loop"
      <4>1. x = 0 /\ u = Share /\ v = y  BY <1>1, <1>2, <1>3, <1>5, <2>10, <3>1 DEF Returned
      <4> QED  BY <2>6, <2>12, <4>1
    <3>2. CASE f = "sync"
      <4>1. y = 0 /\ v = Share /\ u = x  BY <1>1, <1>2, <1>3, <1>5, <2>10, <3>2 DEF Returned
      <4> QED  BY <2>6, <2>12, <4>1
    <3> QED  BY <3>1, <3>2
  <2> HIDE DEF Used
  <2> QED  BY <2>4, <2>6, <2>9, <2>11, <2>12, <2>13
<1> QED  BY <1>4, <1>5

\* A step that uses nothing more up, and after which the loop abides.
LEMMA BudgetKept ==
  ASSUME ISafe, ISafe', UNCHANGED <<strategy, day>>, stock'.quota = stock.quota, Budget,
         Used' \in Int, Used' <= Used, Used' + stock'.rules.carried <= Used + stock.rules.carried,
         Ahead' => Ahead, NEW r, r = flow'["loop"], Abides(r, flow["loop"]),
         \A i \in DOMAIN orders : i \in DOMAIN orders' /\ Milds(orders'[i], orders[i]),
         flow["loop"].pc = "post" => flow["loop"].id \in DOMAIN orders
  PROVE  Budget'
<1> DEFINE q == flow["loop"]
<1>1. PICK use, was, c, d, share, past, all, w :
        /\ use = Used' /\ was = Used /\ c = stock'.rules.carried /\ d = stock.rules.carried
        /\ share = Share /\ past = (day - 1) * Share /\ all = day * Share /\ w = r.ws.rules.carried
  OBVIOUS
<1>2. /\ was \in Int /\ d \in Nat /\ share \in Nat /\ past \in Nat /\ all = past + share
      /\ Share' = share
  BY <1>1, ShareIs, UsedIs DEF Share
<1>3. use \in Int /\ c \in Nat
  <2>1. stock'.rules.carried \in Nat  BY DEF ISafe, TypeInv, StoresOK, Stocks, Params
  <2> QED  BY <1>1, <2>1
<1>4. use <= was /\ use + c <= was + d  BY <1>1
<1>5. Ahead' \/ Fresh(r) => use + c <= past
  <2>1. Ahead' \/ Fresh(r) => Ahead \/ Fresh(q)  BY DEF Fresh, Abides
  <2> QED  BY <1>1, <1>2, <1>3, <1>4, <2>1 DEF Budget
<1>6. (Early(r) /\ Ahead') \/ Deciding(r) => use + w <= past
  <2>1. (Early(r) /\ Ahead') \/ Deciding(r) => ((Early(q) /\ Ahead) \/ Deciding(q)) /\ r.ws = q.ws
    BY DEF Abides
  <2>2. ((Early(q) /\ Ahead) \/ Deciding(q)) /\ r.ws = q.ws => was + w <= past  BY <1>1 DEF Budget
  <2>3. (Early(q) \/ Deciding(q)) /\ r.ws = q.ws => w \in Nat
    <3>1. q \in Flows  BY FlowIs DEF Flow, Run
    <3> QED  BY <1>1, <3>1 DEF Flows, Stocks, Params
  <2> QED  BY <1>2, <1>3, <1>4, <2>1, <2>2, <2>3
<1>7. use + (IF Spending(r) /\ r.bought THEN 0 ELSE c) <= all
  <2>1. was + (IF Spending(q) /\ q.bought THEN 0 ELSE d) <= all  BY <1>1 DEF Budget, Kept
  <2>2. CASE Spending(r) /\ r.bought  BY <1>2, <1>3, <1>4, <2>1, <2>2
  <2>3. CASE ~(Spending(r) /\ r.bought)
    <3>1. ~(Spending(q) /\ q.bought)  BY <2>3 DEF Abides
    <3> QED  BY <1>2, <1>3, <1>4, <2>1, <2>3, <3>1
  <2> QED  BY <2>2, <2>3
<1>8. ASSUME NEW s, s.side = "BUY",
             \/ \E j \in DOMAIN q.jobs : q.jobs[j] = s
             \/ q.pc = "post" /\ orders[q.id].s = s
      PROVE  use + Value(s) <= all
  <2>1. was + Value(s) <= all  BY <1>1, <1>8 DEF Budget
  <2>2. Value(s) \in Nat
    <3>1. s \in Jobs
      <4>1. q.jobs \in Seq(Jobs)  BY FlowIs DEF Flow, Run, Flows
      <4>2. q.pc = "post" => orders[q.id].s \in Jobs  BY RowKinds
      <4> QED  BY <1>8, <4>1, <4>2
    <3>2. s.qty \in Nat /\ s.price \in Nat
      <4>1. s \in Signals \/ s \in V4Signals  BY <3>1, JobIs
      <4> QED  BY <4>1 DEF Signals, V4Signals
    <3> QED  BY <3>2 DEF Value
  <2>3. PICK v : v = Value(s)  OBVIOUS
  <2> QED  BY <1>2, <1>3, <1>4, <2>1, <2>2, <2>3
<1>9. \A k \in DOMAIN r.jobs : r.jobs[k].side = "BUY" => use + Value(r.jobs[k]) <= all
  BY <1>8 DEF Abides
<1>10. ASSUME r.pc = "post", orders'[r.id].s.side = "BUY" PROVE use + Value(orders'[r.id].s) <= all
  <2>1. CASE q.pc = "post" /\ r.id = q.id
    <3>1. orders'[q.id].s = orders[q.id].s  BY <1>10, <2>1 DEF Milds
    <3> QED  BY <1>8, <1>10, <2>1, <3>1
  <2>2. CASE \E j \in DOMAIN q.jobs : q.jobs[j] = orders'[r.id].s  BY <1>8, <1>10, <2>2
  <2> QED  BY <1>10, <2>1, <2>2 DEF Abides
<1>11. /\ (day - 1)' * Share' = past /\ (day * Share)' = all  BY <1>1, <1>2
<1> QED
  BY <1>1, <1>2, <1>5, <1>6, <1>7, <1>9, <1>10, <1>11
  DEF Budget, Fresh, Deciding, Spending, Early, Settles, Kept, Value

-----------------------------------------------------------------------------
(* The plan, step by step.                                                 *)
SameBase == \A f \in Flow : flow'[f].pc = "store" =>
              (flow[f].pc = "store" /\ flow'[f].base = flow[f].base) \/ flow'[f].base = stock

LEMMA NewsBase == ASSUME \A f \in Flow : SameNews(flow'[f], flow[f]) PROVE SameBase
BY DEF SameNews, SameReads, SameBase

LEMMA LoopBase ==
  ASSUME ISafe, NEW f \in Flow, Loop(f), ~StoreFill(f)
  PROVE  SameBase
<1>1. CASE SettleListed(f)
  <2>1. flow[f] \in Flows /\ flow[f].pc = "pass"  BY <1>1, FlowIs DEF SettleListed
  <2>2. PICK r : flow' = [flow EXCEPT ![f] = r] /\ r.pc \in {"pass", "fetch"}
    <3>1. CASE NextRow(f)
      <4>1. PICK r : r = [flow[f] EXCEPT !.rows = @ \ {Row(f)}]  OBVIOUS
      <4>2. flow' = [flow EXCEPT ![f] = r]  BY <3>1, <4>1 DEF NextRow
      <4>3. r.pc = "pass"  BY <2>1, <4>1 DEF Flows
      <4> QED  BY <4>2, <4>3
    <3>2. CASE ~NextRow(f)
      <4>1. PICK now : flow' = [flow EXCEPT ![f].pc = "fetch", ![f].why = "fill", ![f].now = now]
        BY <1>1, <3>2 DEF SettleListed
      <4>2. PICK r : r = [flow[f] EXCEPT !.pc = "fetch", !.why = "fill", !.now = now]  OBVIOUS
      <4>3. flow' = [flow EXCEPT ![f] = r]  BY <4>1, <4>2
      <4>4. r.pc = "fetch"  BY <2>1, <4>2 DEF Flows
      <4> QED  BY <4>3, <4>4
    <3> QED  BY <3>1, <3>2
  <2> QED  BY <2>2, OtherFlows DEF SameBase
<1>2. CASE ~SettleListed(f)
  <2>1. \A g \in Flow : SameNews(flow'[g], flow[g])  BY <1>2, LoopNews
  <2> QED  BY <2>1, NewsBase
<1> QED  BY <1>1, <1>2

LEMMA SteadyKept ==
  ASSUME Steady, SameBase, stock'.quota = stock.quota, flow'["user"].pc = "idle",
         NEW r, r = flow'["loop"], Bids(r),
         Early(r) \/ Deciding(r) => r.ws = flow["loop"].ws /\ (Early(flow["loop"]) \/ Deciding(flow["loop"])),
         \A i \in DOMAIN orders' : Billed(orders'[i])
  PROVE  Steady'
<1>1. Early(r) \/ Deciding(r) => r.ws.quota = stock.quota  BY DEF Steady
<1>2. \A f \in Flow : flow'[f].pc = "store" => flow'[f].base.quota = stock.quota  BY DEF Steady, SameBase
<1>3. (Early(flow["loop"]) \/ Deciding(flow["loop"]))' <=> Early(r) \/ Deciding(r)
  BY DEF Early, Deciding, Settles
<1>4. Bids(flow["loop"])' <=> Bids(r)  BY DEF Bids, Settles
<1>5. (\A i \in DOMAIN orders : Billed(orders[i]))'  BY DEF Billed
<1> QED  BY <1>1, <1>2, <1>3, <1>4, <1>5 DEF Steady

\* A step that uses nothing more up, and after which the loop abides.
LEMMA PlanKept ==
  ASSUME ISafe, ISafe', UNCHANGED <<strategy, day>>, stock'.quota = stock.quota,
         Steady, ~audit.torn => Budget, Ahead' => Ahead,
         Used' \in Int, Used' <= Used, ~audit'.torn => ~audit.torn,
         ~audit'.torn => Used' + stock'.rules.carried <= Used + stock.rules.carried,
         NEW r, r = flow'["loop"], Abides(r, flow["loop"]), flow'["user"].pc = "idle", SameBase, MildRows,
         \A i \in DOMAIN orders' : Billed(orders'[i])
  PROVE  Steady' /\ (~audit'.torn => Budget')
<1>1. Steady'  BY SteadyKept DEF Steady, Abides
<1>2. flow["loop"].pc = "post" => flow["loop"].id \in DOMAIN orders
  BY FlowIs DEF FlowInv, PostInv, Flow, Run
<1>3. ASSUME ~audit'.torn PROVE Budget'
  <2>1. Budget /\ Used' + stock'.rules.carried <= Used + stock.rules.carried  BY <1>3
  <2>2. \A i \in DOMAIN orders : i \in DOMAIN orders' /\ Milds(orders'[i], orders[i])  BY DEF MildRows
  <2> QED  BY <1>2, <2>1, <2>2, BudgetKept
<1> QED  BY <1>1, <1>3

\* The flows of a thrifty stock that a step of one of them leaves alone.
LEMMA ThriftyFlows ==
  ASSUME ISafe, Steady, NEW f \in {"loop", "sync"}, NEW r, flow' = [flow EXCEPT ![f] = r]
  PROVE  /\ flow'["user"].pc = "idle" /\ flow'[f] = r
         /\ \A g \in {"loop", "sync"} : g # f => flow'[g] = flow[g]
<1>1. f \in Flow /\ {"loop", "sync", "user"} \subseteq Flow /\ f # "user"  BY DEF Flow, Run
<1>2. flow["user"].pc = "idle"  BY DEF Steady
<1>3. flow'[f] = r /\ \A g \in Flow : g # f => flow'[g] = flow[g]  BY <1>1, OtherFlows
<1> QED  BY <1>1, <1>2, <1>3

LEMMA LoopAbides ==
  ASSUME ISafe, ISafe', Dca, Thrifty, Steady, ~audit.torn => Budget, NEW f \in {"loop", "sync"}, Loop(f),
         UNCHANGED stock, MildRows,
         NEW r, flow' = [flow EXCEPT ![f] = r], f = "loop" => Abides(r, flow[f]),
         Returning(r) => Returning(flow[f]) \/ SettleAbsent(f)
  PROVE  Steady' /\ (~audit'.torn => Budget')
<1>1. f \in Flow /\ UNCHANGED <<strategy, day, minute, cron>>  BY LoopClock DEF Flow, Run
<1>2. /\ flow'["user"].pc = "idle" /\ flow'[f] = r
      /\ \A g \in {"loop", "sync"} : g # f => flow'[g] = flow[g]
  BY ThriftyFlows
<1>3. PICK p : p = flow'["loop"]  OBVIOUS
<1>4. Abides(p, flow["loop"])  BY <1>2, <1>3, AbidesSame
<1>5. Ahead' => Ahead  BY <1>1, <1>3, <1>4, AheadSame DEF Abides
<1>6. \A i \in DOMAIN orders : Billed(orders[i])  BY DEF Steady
<1>7. Used' \in Int /\ Used' <= Used /\ Share' = Share /\ \A i \in DOMAIN orders' : Billed(orders'[i])
  <2>1. \A i \in DOMAIN orders' : Billed(orders'[i])  BY <1>1, <1>6, ClaimsFall
  <2>2. CASE SettleAbsent(f)  BY <1>6, <2>1, <2>2, AbsentUsed
  <2>3. CASE ~SettleAbsent(f)
    <3>1. Returning(flow'["loop"]) => Returning(flow["loop"])  BY <1>2, <2>3
    <3>2. Returning(flow'["sync"]) => Returning(flow["sync"])  BY <1>2, <2>3
    <3> QED  BY <1>1, <1>6, <3>1, <3>2, UsedFalls
  <2> QED  BY <2>2, <2>3
<1>8. SameBase  BY <1>1, LoopBase, ThriftyLoop
<1>9. ~audit'.torn => ~audit.torn  BY <1>1, LoopRemembers DEF Remembers
<1>10. Used' + stock'.rules.carried <= Used + stock.rules.carried
  <2>1. PICK use, was, c : use = Used' /\ was = Used /\ c = stock.rules.carried  OBVIOUS
  <2>2. use \in Int /\ was \in Int /\ c \in Nat /\ use <= was  BY <1>7, <2>1, UsedIs
  <2>3. use + c <= was + c  BY <2>2
  <2> QED  BY <2>1, <2>3
<1> QED  BY <1>1, <1>2, <1>3, <1>4, <1>5, <1>7, <1>8, <1>9, <1>10, PlanKept

\* The submission of an order that is no purchase, or that is not accepted.
LEMMA PostAbides ==
  ASSUME ISafe, strategy = "daily-dca", Bids(flow["loop"]), Post("loop"),
         ~(orders[flow["loop"].id].s.side = "BUY" /\ flow'["loop"].bought)
  PROVE  \E r : flow' = [flow EXCEPT !["loop"] = r] /\ Abides(r, flow["loop"]) /\ ~Returning(r)
<1>0. "loop" \in Flow /\ flow["loop"] \in Flows /\ flow["loop"].pc = "post" /\ ~flow["loop"].bought
      /\ flow["loop"].jobs = <<>>
  BY FlowIs DEF Flow, Run, Post, Bids
<1>1. PICK i \in DOMAIN orders, p \in Rows, sent \in BOOLEAN :
           /\ i = flow["loop"].id /\ orders' = [orders EXCEPT ![i] = p] /\ RowOK(p)
           /\ p.s = orders[i].s /\ p.amount = orders[i].amount /\ p.filled = 0
           /\ orders[i].filled = 0 /\ ~orders[i].live /\ orders[i].status = "SUBMITTING"
           /\ IF sent THEN p.status = "PENDING" /\ p.live ELSE p.status # "PENDING" /\ ~p.live
           /\ flow' = [flow EXCEPT !["loop"] = [flow["loop"] EXCEPT !.pc = "submit",
                         !.bought = flow["loop"].bought \/ (sent /\ orders[i].s.side = "BUY")]]
  BY <1>0, PostRow, Zenon
<1>2. PICK got \in BOOLEAN : got = (flow["loop"].bought \/ (sent /\ orders[i].s.side = "BUY"))  OBVIOUS
<1>3. PICK r : r = [flow["loop"] EXCEPT !.pc = "submit", !.bought = got]  OBVIOUS
<1>4. flow' = [flow EXCEPT !["loop"] = r]  BY <1>1, <1>2, <1>3
<1>5. r.pc = "submit" /\ r.bought = got /\ r.jobs = <<>>  BY <1>0, <1>3 DEF Flows
<1>6. flow'["loop"] = r  BY <1>0, <1>4, OtherFlows
<1>7. ~r.bought
  <2>1. CASE orders[i].s.side = "BUY"  BY <1>1, <1>6, <2>1
  <2>2. CASE orders[i].s.side # "BUY"
    <3>1. ~got  BY <1>0, <1>2, <2>2
    <3> QED  BY <1>5, <3>1
  <2> QED  BY <2>1, <2>2
<1>8. /\ ~Early(r) /\ ~Deciding(r) /\ ~Returning(r) /\ Spending(r) /\ ~Settles(r)
  BY <1>5 DEF Early, Deciding, Returning, Settles, Spending
<1>9. Spending(flow["loop"])  BY <1>0 DEF Spending
<1>10. DOMAIN <<>> = {}  OBVIOUS
<1>11. Bids(r)  BY <1>5, <1>8, <1>10 DEF Bids
<1>12. Abides(r, flow["loop"])  BY <1>0, <1>5, <1>7, <1>8, <1>9, <1>10, <1>11 DEF Abides
<1> QED  BY <1>4, <1>8, <1>12

\* The steps of the loop and of the sync that leave the budget as it was.
LEMMA QuietPlan ==
  ASSUME ISafe, ISafe', Dca, Thrifty, Steady, ~audit.torn => Budget, NEW f \in {"loop", "sync"}, Loop(f),
         ~StoreRestore(f), ~StoreCarry(f), ~StoreReset(f), ~EvaluateRules(f),
         ~(Post(f) /\ orders[flow[f].id].s.side = "BUY" /\ flow'[f].bought)
  PROVE  Steady' /\ (~audit'.torn => Budget')
<1>0. f \in Flow /\ strategy = "daily-dca" /\ count.manual = 0 /\ Bids(flow["loop"])
  BY DEF Flow, Run, Thrifty, Steady
<1>1. /\ ~EvaluateV4(f) /\ ~StoreFill(f) /\ ~StoreMode(f) /\ ~StoreQuota(f)
      /\ f = "sync" => /\ ~ReadUnfilled(f) /\ ~CancelUnfilled(f)
                       /\ ~EvaluationFails(f) /\ ~DropJob(f) /\ ~AdmitJob(f) /\ ~Post(f) /\ ~EndSubmit(f)
  BY <1>0, ThriftyLoop
<1>2. UNCHANGED stock /\ MildRows  BY <1>0, <1>1, LoopStock, LoopMilds
<1>3. PICK r : /\ flow' = [flow EXCEPT ![f] = r] /\ (f = "loop" => Abides(r, flow[f]))
               /\ Returning(r) => Returning(flow[f]) \/ SettleAbsent(f)
  <2>1. CASE \/ ReadRisk(f) \/ ReadBalance(f) \/ WritePositions(f) \/ ReadPositions(f)
             \/ List(f) \/ SettleListed(f) \/ SettleAbsent(f) \/ EndPass(f)
    BY <1>0, <2>1, PassAbides
  <2>2. CASE Fetch(f)  BY <1>0, <2>2, FetchAbides
  <2>3. CASE \/ ReadUnfilled(f) \/ CancelUnfilled(f) \/ EvaluationFails(f) \/ DropJob(f)
             \/ AdmitJob(f) \/ EndSubmit(f)
    <3>1. f = "loop"  BY <1>1, <2>3
    <3> QED  BY <1>0, <2>3, <3>1, RunAbides
  <2>4. CASE Post(f)
    <3>1. f = "loop"  BY <1>1, <2>4
    <3> QED  BY <1>0, <2>4, <3>1, PostAbides
  <2> QED  BY <1>1, <2>1, <2>2, <2>3, <2>4 DEF Loop
<1> QED  BY <1>2, <1>3, LoopAbides

\* A share returns in place of the claim of the order that was reported dead.
LEMMA RestorePlan ==
  ASSUME ISafe, ISafe', Dca, Thrifty, Steady, ~audit.torn => Budget, NEW f \in {"loop", "sync"},
         Loop(f), StoreRestore(f)
  PROVE  Steady' /\ (~audit'.torn => Budget')
<1>0. f \in Flow /\ strategy = "daily-dca" /\ UNCHANGED <<strategy, day, minute, cron>>
  BY LoopClock DEF Flow, Run, Thrifty
<1>1. PICK r : /\ flow' = [flow EXCEPT ![f] = r] /\ (f = "loop" => Abides(r, flow[f]))
               /\ ~Returning(r) /\ Returning(flow[f])
  BY <1>0, PassAbides
<1>2. /\ flow'["user"].pc = "idle" /\ flow'[f] = r
      /\ \A g \in {"loop", "sync"} : g # f => flow'[g] = flow[g]
  BY <1>1, ThriftyFlows
<1>3. PICK p : p = flow'["loop"]  OBVIOUS
<1>4. Abides(p, flow["loop"])  BY <1>1, <1>2, <1>3, AbidesSame
<1>5. Ahead' => Ahead  BY <1>0, <1>3, <1>4, AheadSame DEF Abides
<1>6. \A i \in DOMAIN orders : Billed(orders[i])  BY DEF Steady
<1>7. PICK invested \in Nat : invested = position.qty * position.avg
  <2>1. position.qty \in Nat /\ position.avg \in Nat  BY DEF ISafe, TypeInv, StoresOK, Holding
  <2>2. position.qty * position.avg \in Nat  BY <2>1
  <2> QED  BY <2>2
<1>8. /\ stock'.quota = stock.quota /\ stock'.rules.carried \in Nat
      /\ ~audit'.torn => ~audit.torn /\ stock'.rules.carried <= stock.rules.carried + Share
  <2>1. flow[f].pc = "store" /\ Carry(f, invested)  BY <1>7 DEF StoreRestore, Storing
  <2>2. flow[f].base.quota = stock.quota  BY <1>0, <2>1 DEF Steady
  <2> QED  BY <1>0, <2>1, <2>2, CarryMoves
<1>9. MildRows
  <2>1. ~Post(f)  BY DEF StoreRestore, Storing, Post
  <2> QED  BY <1>0, <2>1, LoopMilds
<1>10. /\ Share' = Share /\ Used' \in Int /\ Used' <= Used
       /\ \A i \in DOMAIN orders' : Billed(orders'[i])
       /\ Used' + Share <= Used
  <2>1. Returning(flow'["loop"]) => Returning(flow["loop"])  BY <1>1, <1>2
  <2>2. Returning(flow'["sync"]) => Returning(flow["sync"])  BY <1>1, <1>2
  <2>3. \/ Returning(flow["loop"]) /\ ~Returning(flow'["loop"])
        \/ Returning(flow["sync"]) /\ ~Returning(flow'["sync"])
    BY <1>1, <1>2
  <2>4. /\ Share' = Share /\ Used' \in Int /\ Used' <= Used
        /\ \A i \in DOMAIN orders' : Billed(orders'[i])
        /\ (\/ Returning(flow["loop"]) /\ ~Returning(flow'["loop"])
            \/ Returning(flow["sync"]) /\ ~Returning(flow'["sync"])) => Used' + Share <= Used
    BY <1>0, <1>6, <1>8, <1>9, <2>1, <2>2, UsedFalls
  <2> QED  BY <2>3, <2>4
<1>11. ~audit'.torn => Used' + stock'.rules.carried <= Used + stock.rules.carried
  <2>1. PICK use, was, c, d, n : use = Used' /\ was = Used /\ c = stock'.rules.carried
                                 /\ d = stock.rules.carried /\ n = Share
    OBVIOUS
  <2>2. use \in Int /\ was \in Int /\ c \in Nat /\ d \in Nat /\ n \in Nat /\ use + n <= was
    BY <1>8, <1>10, <2>1, UsedIs
  <2>3. ~audit'.torn => c <= d + n  BY <1>8, <2>1
  <2>4. ~audit'.torn => use + c <= was + d  BY <2>2, <2>3
  <2> QED  BY <2>1, <2>4
<1>12. SameBase  BY <1>0, LoopBase, ThriftyLoop
<1> QED  BY <1>0, <1>2, <1>3, <1>4, <1>5, <1>8, <1>9, <1>10, <1>11, <1>12, PlanKept

\* After its run the loop has spent what it was going to.
LEMMA EndedPlan ==
  ASSUME ISafe, ISafe', UNCHANGED <<strategy, day>>, stock'.quota = stock.quota, ~Ahead',
         NEW r, r = flow'["loop"], r.jobs = <<>>, r.pc = "snapshot",
         Used' + stock'.rules.carried <= day * Share
  PROVE  Budget'
<1>1. ~Early(r) /\ ~Deciding(r) /\ ~Spending(r) /\ ~Fresh(r) /\ r.pc # "post"
  BY DEF Early, Deciding, Spending, Fresh, Settles
<1>2. (Fresh(flow["loop"]) \/ Early(flow["loop"]) \/ Deciding(flow["loop"]))' = FALSE
  BY <1>1 DEF Early, Deciding, Spending, Fresh, Settles
<1>3. Kept(flow["loop"])' = stock'.rules.carried  BY <1>1 DEF Kept, Spending, Settles
<1>4. DOMAIN <<>> = {}  OBVIOUS
<1>5. (day * Share)' = day * Share  BY DEF Share
<1>6. (Used + Kept(flow["loop"]) <= day * Share)'  BY <1>3, <1>5
<1> QED  BY <1>1, <1>2, <1>4, <1>6 DEF Budget

LEMMA CarryPlan ==
  ASSUME ISafe, ISafe', Dca, Thrifty, Steady, ~audit.torn => Budget, Loop("loop"),
         StoreCarry("loop") \/ StoreReset("loop")
  PROVE  Steady' /\ (~audit'.torn => Budget')
<1> DEFINE q == flow["loop"]
<1>0. /\ "loop" \in Flow /\ strategy = "daily-dca" /\ count.manual = 0 /\ Bids(q) /\ q \in Flows
      /\ UNCHANGED <<strategy, day, minute, cron>>
  BY FlowIs, LoopClock DEF Flow, Run, Thrifty, Steady
<1>1. PICK r : r = AfterRun("loop")  OBVIOUS
<1>2. flow' = [flow EXCEPT !["loop"] = r] /\ q.pc = "store" /\ q.why \in {"carry", "reset"}
  BY <1>1 DEF StoreCarry, StoreReset, Storing
<1>3. r.jobs = <<>> /\ r.pc = "snapshot"  BY <1>0, <1>1, AfterRunIs
<1>4. /\ flow'["user"].pc = "idle" /\ flow'["loop"] = r
      /\ \A g \in {"loop", "sync"} : g # "loop" => flow'[g] = flow[g]
  BY <1>2, ThriftyFlows
<1>5. ~Early(r) /\ ~Deciding(r) /\ ~Settles(r) /\ ~Returning(r)
  BY <1>3 DEF Early, Deciding, Settles, Returning
<1>6. DOMAIN <<>> = {}  OBVIOUS
<1>7. Bids(r)  BY <1>3, <1>5, <1>6 DEF Bids
<1>8. Spending(q) /\ ~Returning(q) /\ Late(q)
  BY <1>2 DEF Spending, Returning, Late, Early, Settles
<1>9. ~Ahead'
  <2>1. ~Ahead  BY <1>0, <1>8 DEF Dca
  <2>2. Ahead' => Ahead  BY <1>0, <1>4, <1>5, AheadSame
  <2> QED  BY <2>1, <2>2
<1>10. \A i \in DOMAIN orders : Billed(orders[i])  BY DEF Steady
<1>11. MildRows
  <2>1. ~Post("loop")  BY <1>2 DEF Post
  <2> QED  BY <1>0, <2>1, LoopMilds
<1>12. /\ stock'.quota = stock.quota /\ stock'.rules.carried \in Nat /\ (~audit'.torn => ~audit.torn)
       /\ StoreReset("loop") => stock'.rules.carried = 0
       /\ StoreCarry("loop") /\ ~audit'.torn => stock'.rules.carried <= stock.rules.carried + Share
  <2>1. CASE StoreReset("loop")
    <3>1. ~StoreCarry("loop")  BY <2>1 DEF StoreReset, StoreCarry, Storing
    <3> QED  BY <1>0, <2>1, <3>1, ResetMoves
  <2>2. CASE StoreCarry("loop")
    <3>1. ~StoreReset("loop")  BY <2>2 DEF StoreReset, StoreCarry, Storing
    <3>2. PICK invested \in Nat : invested = q.held.qty * q.held.avg
      <4>1. q.held.qty \in Nat /\ q.held.avg \in Nat  BY <1>0 DEF Flows, Holding
      <4>2. q.held.qty * q.held.avg \in Nat  BY <4>1
      <4> QED  BY <4>2
    <3>3. Carry("loop", invested)  BY <2>2, <3>2 DEF StoreCarry
    <3>4. q.base.quota = stock.quota  BY <1>0, <1>2 DEF Steady
    <3> QED  BY <1>0, <1>2, <3>1, <3>3, <3>4, CarryMoves
  <2> QED  BY <2>1, <2>2
<1>13. /\ Share' = Share /\ Used' \in Int /\ Used' <= Used
       /\ \A i \in DOMAIN orders' : Billed(orders'[i])
  <2>1. Returning(flow'["loop"]) => Returning(flow["loop"])  BY <1>4, <1>5
  <2>2. Returning(flow'["sync"]) => Returning(flow["sync"])  BY <1>4
  <2> QED  BY <1>0, <1>10, <1>11, <1>12, <2>1, <2>2, UsedFalls
<1>14. SameBase  BY <1>0, LoopBase, ThriftyLoop
<1>15. Steady'  BY <1>4, <1>5, <1>7, <1>12, <1>13, <1>14, SteadyKept
<1>16. ASSUME ~audit'.torn PROVE Budget'
  <2>1. Budget  BY <1>12, <1>16
  <2>2. PICK use, was, c, d, n, past, all :
          /\ use = Used' /\ was = Used /\ c = stock'.rules.carried /\ d = stock.rules.carried
          /\ n = Share /\ past = (day - 1) * Share /\ all = day * Share
    OBVIOUS
  <2>3. /\ use \in Int /\ was \in Int /\ c \in Nat /\ d \in Nat /\ n \in Nat /\ past \in Nat
        /\ all = past + n /\ use <= was
    BY <1>12, <1>13, <2>2, ShareIs, UsedIs
  <2>4. use + c <= all
    <3>1. CASE StoreCarry("loop")
      <4>1. c <= d + n  BY <1>12, <1>16, <2>2, <3>1
      <4>2. ~q.bought  BY <1>0, <3>1 DEF StoreCarry, Storing, Bids, Settles
      <4>3. was + d <= past  BY <1>8, <2>1, <2>2, <4>2 DEF Budget, Fresh
      <4> QED  BY <2>3, <4>1, <4>3
    <3>2. CASE StoreReset("loop")
      <4>1. c = 0  BY <1>12, <2>2, <3>2
      <4>2. PICK k : k = Kept(q)  OBVIOUS
      <4>3. was + k <= all  BY <2>1, <2>2, <4>2 DEF Budget
      <4>4. k \in Nat  BY <2>2, <2>3, <4>2 DEF Kept
      <4> QED  BY <2>3, <4>1, <4>3, <4>4
    <3> QED  BY <3>1, <3>2
  <2>5. Used' + stock'.rules.carried <= day * Share  BY <2>2, <2>4
  <2> QED  BY <1>0, <1>3, <1>4, <1>9, <1>12, <2>5, EndedPlan
<1> QED  BY <1>15, <1>16

\* A purchase of daily-dca costs a share at most, and what is carried over.
LEMMA DcaPays ==
  ASSUME NEW c, IsContext(c)
  PROVE  \A k \in DOMAIN DailyDca(c) : DailyDca(c)[k].side = "BUY" =>
           /\ DailyDca(c)[k].price > 0 /\ Value(DailyDca(c)[k]) \in Nat
           /\ Value(DailyDca(c)[k]) <= PerCycle(c) + c.par.carried
<1> DEFINE buy == BuyFor(DcaBudget(c), c, "none", 0)
           S == {<<>>, SellAll(c, "stop"), SellAll(c, "none"), buy}
<1>1. DailyDca(c) \in S
  <2> HIDE DEF buy
  <2>1. SellAll(c, "stop") \in S /\ SellAll(c, "none") \in S /\ buy \in S /\ <<>> \in S  OBVIOUS
  <2> HIDE DEF S
  <2> DEFINE rules == << Rule(DcaForced(c), SellAll(c, "stop")),
                         Rule(Price(c) > 0 /\ ~c.done /\ Holds(c) /\ GainOf(c, 10), SellAll(c, "none")),
                         Rule(DcaBuys(c), buy) >>
  <2>2. DOMAIN rules = 1..3 /\ rules[1].then \in S /\ rules[2].then \in S /\ rules[3].then \in S
    BY <2>1 DEF Rule
  <2>3. DailyDca(c) = FirstRule(rules)  BY DEF DailyDca, buy
  <2> HIDE DEF rules
  <2> QED  BY <2>1, <2>2, <2>3, FirstRuleIn
<1>2. PICK n, p, most, all : /\ n = Shares(DcaBudget(c), Price(c)) /\ p = Price(c) /\ most = DcaBudget(c)
                             /\ all = PerCycle(c) + c.par.carried
  OBVIOUS
<1>3. most \in Int /\ p \in Nat /\ all \in Int /\ most <= all
  <2>1. PerCycle(c) \in Nat /\ c.par.carried \in Nat /\ Price(c) \in Nat /\ c.cash \in Int
    BY ContextFields DEF IsContext
  <2>2. all \in Int  BY <1>2, <2>1
  <2>3. most = Least(all, c.cash)  BY <1>2 DEF DcaBudget
  <2> QED  BY <1>2, <2>1, <2>2, <2>3, LeastIs
<1>4. n \in Nat /\ (n > 0 => p > 0 /\ n * p <= most)  BY <1>2, <1>3, SharesBound
<1>5. ASSUME n > 0
      PROVE  \A k \in DOMAIN buy : buy[k].side = "BUY" =>
               buy[k].price > 0 /\ Value(buy[k]) \in Nat /\ Value(buy[k]) <= all
  <2>1. buy = <<Buy(n, p, "none", 0)>>  BY <1>2, <1>5 DEF BuyFor
  <2>2. DOMAIN buy = {1} /\ buy[1] = Buy(n, p, "none", 0)  BY <2>1
  <2>3. Buy(n, p, "none", 0).price = p /\ Value(Buy(n, p, "none", 0)) = n * p  BY DEF Buy, Value
  <2>4. PICK x : x = n * p  OBVIOUS
  <2>5. x \in Nat /\ x <= most /\ p > 0  BY <1>3, <1>4, <1>5, <2>4
  <2>6. x <= all  BY <1>3, <2>5
  <2> QED  BY <2>2, <2>3, <2>4, <2>5, <2>6
<1>6. ~(n > 0) => buy = <<>>  BY <1>2 DEF BuyFor
<1>7. DOMAIN <<>> = {}  OBVIOUS
<1>8. \A phase : DOMAIN SellAll(c, phase) = {1} /\ SellAll(c, phase)[1].side = "SELL"  BY DEF SellAll, Sell
<1> HIDE DEF buy
<1> QED  BY <1>1, <1>2, <1>5, <1>6, <1>7, <1>8

LEMMA EvaluateBids ==
  ASSUME ISafe, strategy = "daily-dca", Deciding(flow["loop"]), flow["loop"].ws.quota = stock.quota,
         NEW jobs, jobs = Executable(Evaluate(Context("loop")))
  PROVE  \A k \in DOMAIN jobs : jobs[k].side = "BUY" =>
           /\ jobs[k].price > 0 /\ Value(jobs[k]) \in Nat
           /\ Value(jobs[k]) <= Share + flow["loop"].ws.rules.carried
<1>0. "loop" \in Flow  BY DEF Flow, Run
<1>1. PICK c : c = Context("loop")  OBVIOUS
<1>2. IsContext(c) /\ c.strategy = "daily-dca"  BY <1>0, <1>1, ContextIs DEF IsV4Context
<1>3. /\ c.quota = stock.quota /\ c.cycles = Cycles /\ c.par = flow["loop"].ws.rules
  BY <1>1 DEF Context
<1>4. PerCycle(c) = Share  BY <1>3 DEF PerCycle, Share
<1>5. Evaluate(c) = DailyDca(c)  BY <1>2 DEF Evaluate
<1>6. DailyDca(c) \in Seq(Jobs)  BY <1>0, <1>1, <1>5, SignalsAreJobs
<1>7. \A k \in DOMAIN jobs : \E i \in DOMAIN DailyDca(c) : jobs[k] = DailyDca(c)[i]
  BY <1>1, <1>5, <1>6, ExecutableOf
<1>8. \A i \in DOMAIN DailyDca(c) : DailyDca(c)[i].side = "BUY" =>
           /\ DailyDca(c)[i].price > 0 /\ Value(DailyDca(c)[i]) \in Nat
           /\ Value(DailyDca(c)[i]) <= Share + flow["loop"].ws.rules.carried
  BY <1>2, <1>3, <1>4, DcaPays
<1> QED  BY <1>7, <1>8

LEMMA EvaluatePlan ==
  ASSUME ISafe, ISafe', Dca, Thrifty, Steady, ~audit.torn => Budget, Loop("loop"), EvaluateRules("loop")
  PROVE  Steady' /\ (~audit'.torn => Budget')
<1> DEFINE q == flow["loop"]
           due == /\ Carries /\ ~Context("loop").done
                  /\ Short(Context("loop")) \/ \E i \in DOMAIN Evaluate(Context("loop")) :
                                                  Evaluate(Context("loop"))[i].side = "BUY"
<1> HIDE DEF due
<1>0. /\ "loop" \in Flow /\ strategy = "daily-dca" /\ count.manual = 0 /\ q \in Flows /\ q.pc = "evaluate"
      /\ UNCHANGED <<strategy, day, minute, cron, stock, orders>>
  BY FlowIs, LoopClock DEF Flow, Run, Thrifty, EvaluateRules
<1>1. PICK r : r = [IdleFlow EXCEPT !.pc = "submit", !.held = q.held,
                              !.jobs = Executable(Evaluate(Context("loop"))), !.due = due]
  OBVIOUS
<1>2. flow' = [flow EXCEPT !["loop"] = r]  BY <1>1 DEF EvaluateRules, due
<1>3. r.pc = "submit" /\ r.jobs = Executable(Evaluate(Context("loop"))) /\ ~r.bought
  BY <1>1 DEF IdleFlow
<1>4. /\ flow'["user"].pc = "idle" /\ flow'["loop"] = r
      /\ \A g \in {"loop", "sync"} : g # "loop" => flow'[g] = flow[g]
  BY <1>2, ThriftyFlows
<1>5. ~Early(r) /\ ~Deciding(r) /\ ~Settles(r) /\ ~Returning(r) /\ Spending(r)
  BY <1>3 DEF Early, Deciding, Settles, Returning, Spending
<1>6. Deciding(q) /\ Fresh(q) /\ q.ws.quota = stock.quota /\ q.ws.rules.carried \in Nat
  <2>1. Deciding(q)  BY <1>0 DEF Deciding
  <2> QED  BY <1>0, <2>1 DEF Fresh, Steady, Flows, Stocks, Params
<1>7. \A k \in DOMAIN r.jobs : r.jobs[k].side = "BUY" =>
         /\ r.jobs[k].price > 0 /\ Value(r.jobs[k]) \in Nat
         /\ Value(r.jobs[k]) <= Share + q.ws.rules.carried
  BY <1>0, <1>3, <1>6, EvaluateBids
<1>8. Bids(r)  BY <1>3, <1>5, <1>7 DEF Bids
<1>9. MildRows  BY <1>0, MildSame
<1>10. \A i \in DOMAIN orders : Billed(orders[i])  BY DEF Steady
<1>11. /\ Share' = Share /\ Used' \in Int /\ Used' <= Used
       /\ \A i \in DOMAIN orders' : Billed(orders'[i])
  <2>1. Returning(flow'["loop"]) => Returning(flow["loop"])  BY <1>4, <1>5
  <2>2. Returning(flow'["sync"]) => Returning(flow["sync"])  BY <1>4
  <2> QED  BY <1>0, <1>9, <1>10, <2>1, <2>2, UsedFalls
<1>12. SameBase  BY <1>0, LoopBase, ThriftyLoop
<1>13. Steady'  BY <1>0, <1>4, <1>5, <1>8, <1>11, <1>12, SteadyKept
<1>14. ~audit'.torn => ~audit.torn  BY <1>0, LoopRemembers DEF Remembers
<1>15. ASSUME ~audit'.torn PROVE Budget'
  <2>1. Budget  BY <1>14, <1>15
  <2>2. PICK use, was, c, w, n, past, all :
          /\ use = Used' /\ was = Used /\ c = stock.rules.carried /\ w = q.ws.rules.carried
          /\ n = Share /\ past = (day - 1) * Share /\ all = day * Share
    OBVIOUS
  <2>3. /\ use \in Int /\ was \in Int /\ c \in Nat /\ w \in Nat /\ n \in Nat /\ past \in Nat
        /\ all = past + n /\ use <= was
    BY <1>6, <1>11, <2>2, ShareIs, UsedIs
  <2>4. was + c <= past /\ was + w <= past  BY <1>6, <2>1, <2>2 DEF Budget
  <2>5. use + c <= past /\ use + c <= all  BY <2>3, <2>4
  <2>6. \A k \in DOMAIN r.jobs : r.jobs[k].side = "BUY" => use + Value(r.jobs[k]) <= all
    <3>1. ASSUME NEW k \in DOMAIN r.jobs, r.jobs[k].side = "BUY" PROVE use + Value(r.jobs[k]) <= all
      <4>1. PICK v : v = Value(r.jobs[k])  OBVIOUS
      <4>2. v \in Nat /\ v <= n + w  BY <1>7, <2>2, <3>1, <4>1
      <4> QED  BY <2>3, <2>4, <4>1, <4>2
    <3> QED  BY <3>1
  <2>7. /\ (day - 1)' * Share' = past /\ (day * Share)' = all /\ stock'.rules.carried = c
    BY <1>0, <1>11, <2>2
  <2> QED
    BY <1>3, <1>4, <1>5, <2>2, <2>5, <2>6, <2>7
    DEF Budget, Fresh, Deciding, Spending, Early, Settles, Kept, Value
<1> QED  BY <1>13, <1>15

\* What the broker accepts for the loop is paid for by the days so far.
LEMMA AcceptPlan ==
  ASSUME ISafe, ISafe', Dca, Thrifty, Steady, ~audit.torn => Budget, Loop("loop"), Post("loop"),
         orders[flow["loop"].id].s.side = "BUY", flow'["loop"].bought
  PROVE  Steady' /\ (~audit'.torn => Budget')
<1> DEFINE q == flow["loop"]
<1>0. /\ "loop" \in Flow /\ strategy = "daily-dca" /\ count.manual = 0 /\ q \in Flows /\ q.pc = "post"
      /\ UNCHANGED <<strategy, day, minute, cron, stock>> /\ ~q.bought /\ q.jobs = <<>>
  BY FlowIs, LoopClock DEF Flow, Run, Thrifty, Post, Steady, Bids
<1>1. PICK i \in DOMAIN orders, p \in Rows, sent \in BOOLEAN :
           /\ i = q.id /\ orders' = [orders EXCEPT ![i] = p] /\ RowOK(p)
           /\ p.s = orders[i].s /\ p.amount = orders[i].amount /\ p.filled = 0
           /\ orders[i].filled = 0 /\ ~orders[i].live /\ orders[i].status = "SUBMITTING"
           /\ IF sent THEN p.status = "PENDING" /\ p.live ELSE p.status # "PENDING" /\ ~p.live
           /\ flow' = [flow EXCEPT !["loop"] = [q EXCEPT !.pc = "submit",
                         !.bought = q.bought \/ (sent /\ orders[i].s.side = "BUY")]]
  BY <1>0, PostRow, Zenon
<1>2. PICK got \in BOOLEAN : got = (q.bought \/ (sent /\ orders[i].s.side = "BUY"))  OBVIOUS
<1>3. PICK r : r = [q EXCEPT !.pc = "submit", !.bought = got]  OBVIOUS
<1>4. flow' = [flow EXCEPT !["loop"] = r]  BY <1>1, <1>2, <1>3
<1>5. r.pc = "submit" /\ r.bought = got /\ r.jobs = <<>>  BY <1>0, <1>3 DEF Flows
<1>6. /\ flow'["user"].pc = "idle" /\ flow'["loop"] = r
      /\ \A g \in {"loop", "sync"} : g # "loop" => flow'[g] = flow[g]
  BY <1>4, ThriftyFlows
<1>7. r.bought /\ p.status = "PENDING" /\ p.live /\ orders[i].s.side = "BUY"
  <2>1. got  BY <1>5, <1>6
  <2> QED  BY <1>0, <1>1, <1>2, <1>5, <2>1
<1>8. /\ ~Early(r) /\ ~Deciding(r) /\ ~Returning(r) /\ ~Returning(q) /\ Spending(r) /\ ~Fresh(r) /\ ~Settles(r)
  BY <1>0, <1>5, <1>7 DEF Early, Deciding, Returning, Settles, Spending, Fresh
<1>9. Fresh(q) /\ Late(q)  BY <1>0 DEF Fresh, Spending, Late, Early, Settles
<1>10. ~Ahead'
  <2>1. ~Ahead  BY <1>0, <1>9 DEF Dca
  <2>2. Ahead' => Ahead  BY <1>0, <1>6, <1>8, AheadSame
  <2> QED  BY <2>1, <2>2
<1>11. DOMAIN <<>> = {}  OBVIOUS
<1>12. Bids(r)  BY <1>5, <1>8, <1>11 DEF Bids
<1>13. /\ orders[i] \in Rows /\ RowOK(orders[i]) /\ orders[i].s.price \in Nat /\ orders[i].s.price > 0
       /\ orders[i].amount = 0 /\ p.s.qty \in Nat /\ Billed(p)
  <2>1. orders[i] \in Rows /\ RowOK(orders[i])  BY OrderIs
  <2>2. orders[i].s.price \in Nat /\ p.s.qty \in Nat  BY <1>1, <2>1, ClaimIs
  <2>3. 0 * orders[i].s.price = 0  BY <2>2
  <2>4. Billed(orders[i])  BY DEF Steady
  <2> QED  BY <1>1, <1>7, <2>1, <2>2, <2>3, <2>4 DEF Billed
<1>14. PICK v : v = Value(orders[i].s)  OBVIOUS
<1>15. Claim(orders[i], Share) = 0 /\ Claim(p, Share) = Most(v, Share) /\ v \in Nat
  <2>1. Claim(orders[i], Share) = 0  BY <1>1, <1>7, <1>13 DEF Claim, Cost
  <2>2. Remaining(p) = p.s.qty  BY <1>1, <1>13 DEF Remaining
  <2>3. v = p.s.qty * p.s.price /\ v \in Nat  BY <1>1, <1>13, <1>14 DEF Value
  <2>4. p.amount = 0  BY <1>1, <1>13
  <2>5. Cost(p) = v  BY <1>1, <1>7, <2>2, <2>3, <2>4 DEF Cost
  <2>6. Claim(p, Share) = Most(Cost(p), Share)  BY <1>1, <1>7 DEF Claim
  <2> QED  BY <2>1, <2>3, <2>5, <2>6
<1>16. /\ Claims' = Claims - Claim(orders[i], Share) + Claim(p, Share) /\ Claims \in Int /\ Share' = Share
  BY <1>0, <1>1, ClaimChange
<1>17. Used' = Used + Most(v, Share)
  <2>1. PICK x, y, u, w : /\ x = Returned(q) /\ y = Returned(flow["sync"])
                          /\ u = (IF Returning(flow'["loop"]) THEN Share ELSE 0)
                          /\ w = (IF Returning(flow'["sync"]) THEN Share ELSE 0)
    OBVIOUS
  <2>2. Used = Claims + x + y /\ Used' = Claims' + u + w  BY <1>16, <2>1, UsedNow DEF Used
  <2>3. x = 0 /\ u = 0 /\ w = y  BY <1>6, <1>8, <2>1 DEF Returned
  <2>4. y \in Nat /\ Share \in Nat /\ Most(v, Share) \in Nat  BY <1>15, <2>1, UsedIs DEF Most
  <2>5. PICK a, b, m : a = Claims /\ b = Claims' /\ m = Most(v, Share)  OBVIOUS
  <2>6. a \in Int /\ b = a - 0 + m /\ m \in Nat  BY <1>15, <1>16, <2>4, <2>5
  <2>7. Used = a + 0 + y /\ Used' = b + 0 + y  BY <2>2, <2>3, <2>5
  <2> HIDE DEF Used
  <2> QED  BY <2>4, <2>5, <2>6, <2>7
<1>18. \A j \in DOMAIN orders' : Billed(orders'[j])
  <2>1. \A j \in DOMAIN orders : Billed(orders[j])  BY DEF Steady
  <2>2. orders \in Seq(Rows)  BY DEF ISafe, TypeInv
  <2> QED  BY <1>1, <1>13, <2>1, <2>2
<1>19. SameBase  BY <1>0, LoopBase, ThriftyLoop
<1>20. Steady'  BY <1>0, <1>6, <1>8, <1>12, <1>18, <1>19, SteadyKept
<1>21. ~audit'.torn => ~audit.torn  BY <1>0, LoopRemembers DEF Remembers
<1>22. ASSUME ~audit'.torn PROVE Budget'
  <2>1. Budget  BY <1>21, <1>22
  <2>2. PICK use, was, c, n, past, all :
          /\ use = Used' /\ was = Used /\ c = stock.rules.carried
          /\ n = Share /\ past = (day - 1) * Share /\ all = day * Share
    OBVIOUS
  <2>3. was \in Int /\ c \in Nat /\ n \in Nat /\ past \in Nat /\ all = past + n
    BY <2>2, ShareIs, UsedIs
  <2>4. was + c <= past  BY <1>9, <2>1, <2>2 DEF Budget
  <2>5. was + v <= all  BY <1>0, <1>1, <1>7, <1>14, <2>1, <2>2 DEF Budget
  <2>6. use = was + (IF v >= n THEN v ELSE n)  BY <1>17, <2>2 DEF Most
  <2>7. use <= all /\ use \in Int  BY <1>15, <2>3, <2>4, <2>5, <2>6
  <2>8. use + 0 <= all  BY <2>3, <2>7
  <2>9. (day * Share)' = all  BY <1>0, <1>16, <2>2
  <2>10. Kept(flow["loop"])' = 0  BY <1>5, <1>6, <1>7 DEF Kept, Spending
  <2>11. (Used + Kept(flow["loop"]) <= day * Share)'  BY <2>2, <2>8, <2>9, <2>10
  <2>12. /\ (Fresh(flow["loop"]) \/ Early(flow["loop"]) \/ Deciding(flow["loop"]))' = FALSE
         /\ flow'["loop"].pc # "post"
    BY <1>5, <1>6, <1>8 DEF Early, Deciding, Spending, Fresh, Settles
  <2> QED  BY <1>5, <1>6, <1>10, <1>11, <2>11, <2>12 DEF Budget
<1> QED  BY <1>20, <1>22

LEMMA LoopPlan ==
  ASSUME ISafe, ISafe', Dca, Plan, NEW f \in Flow, Loop(f)
  PROVE  Plan'
<1>1. UNCHANGED <<strategy, count>>  BY LoopClock
<1>2. SUFFICES ASSUME Thrifty PROVE Steady' /\ (~audit'.torn => Budget')
  BY <1>1 DEF Plan, Thrifty
<1>3. Steady /\ (~audit.torn => Budget)  BY <1>2 DEF Plan
<1>4. /\ f \in {"loop", "sync"}
      /\ f = "sync" => ~EvaluateRules(f) /\ ~Post(f) /\ ~StoreCarry(f) /\ ~StoreReset(f)
  BY <1>2, <1>3, ThriftyLoop
<1>5. CASE StoreRestore(f)  BY <1>2, <1>3, <1>4, <1>5, RestorePlan
<1>6. CASE StoreCarry(f) \/ StoreReset(f)
  <2>1. f = "loop"  BY <1>4, <1>6
  <2> QED  BY <1>2, <1>3, <1>6, <2>1, CarryPlan
<1>7. CASE EvaluateRules(f)
  <2>1. f = "loop"  BY <1>4, <1>7
  <2> QED  BY <1>2, <1>3, <1>7, <2>1, EvaluatePlan
<1>8. CASE Post(f) /\ orders[flow[f].id].s.side = "BUY" /\ flow'[f].bought
  <2>1. f = "loop"  BY <1>4, <1>8
  <2> QED  BY <1>2, <1>3, <1>8, <2>1, AcceptPlan
<1>9. CASE /\ ~StoreRestore(f) /\ ~StoreCarry(f) /\ ~StoreReset(f) /\ ~EvaluateRules(f)
           /\ ~(Post(f) /\ orders[flow[f].id].s.side = "BUY" /\ flow'[f].bought)
  BY <1>2, <1>3, <1>4, <1>9, QuietPlan
<1> QED  BY <1>5, <1>6, <1>7, <1>8, <1>9

\* The steps that leave the flows and the column alone.
LEMMA SameFlowPlan ==
  ASSUME ISafe, ISafe', Plan, UNCHANGED <<strategy, day, stock, flow, count>>, MildRows,
         Ahead' => Ahead, Remembers
  PROVE  Plan'
<1>1. SUFFICES ASSUME Thrifty PROVE Steady' /\ (~audit'.torn => Budget')
  BY DEF Plan, Thrifty
<1>2. Steady /\ (~audit.torn => Budget)  BY <1>1 DEF Plan
<1>3. flow["user"].pc = "idle" /\ \A i \in DOMAIN orders : Billed(orders[i])  BY <1>2 DEF Steady
<1>4. /\ Returning(flow'["loop"]) => Returning(flow["loop"])
      /\ Returning(flow'["sync"]) => Returning(flow["sync"])
  OBVIOUS
<1>5. Used' \in Int /\ Used' <= Used /\ \A i \in DOMAIN orders' : Billed(orders'[i])
  BY <1>3, <1>4, UsedFalls
<1>6. SameBase  BY DEF SameBase
<1>7. ~audit'.torn => ~audit.torn  BY DEF Remembers
<1>8. Used' + stock'.rules.carried <= Used + stock.rules.carried  BY <1>5, UsedIs
<1>9. PICK r : r = flow'["loop"] /\ r = flow["loop"]  OBVIOUS
<1>10. Abides(r, flow["loop"])  BY <1>9, AbidesSame
<1> QED  BY <1>2, <1>3, <1>5, <1>6, <1>7, <1>8, <1>9, <1>10, PlanKept

LEMMA BrokerPlan ==
  ASSUME ISafe, ISafe', Plan, NEW i \in DOMAIN orders,
         Approve(i) \/ Decline(i) \/ Fill(i) \/ FillAtClose(i) \/ Die(i)
  PROVE  Plan'
<1>1. UNCHANGED <<strategy, day, stock, flow, count, minute, cron>>
  <2>1. CASE Approve(i)  BY <2>1 DEF Approve
  <2>2. CASE Decline(i) \/ Die(i)  BY <2>2 DEF Decline, Die
  <2>3. CASE Fill(i) \/ FillAtClose(i)
    <3>1. PICK n, price : Trade(i, n, price)  BY <2>3 DEF Fill, FillAtClose
    <3> QED  BY <3>1 DEF Trade
  <2> QED  BY <2>1, <2>2, <2>3
<1>2. SUFFICES ASSUME Thrifty PROVE Plan'
  BY <1>1 DEF Plan, Thrifty
<1>3. strategy = "daily-dca" /\ Billed(orders[i])  BY <1>2 DEF Plan, Thrifty, Steady
<1>4. MildRows  BY <1>3, BrokerMilds
<1>5. Remembers
  <2>1. CASE Watch  BY <2>1, WatchRemembers
  <2>2. CASE Fill(i) \/ FillAtClose(i)
    <3>1. PICK n, price : Trade(i, n, price)  BY <2>2 DEF Fill, FillAtClose
    <3>2. audit \in Audits  BY DEF ISafe, TypeInv, StoresOK
    <3>3. audit'.torn = audit.torn /\ audit'.short = audit.short /\ (audit.mixed => audit'.mixed)
      BY <3>1, <3>2 DEF Trade, Audits
    <3> QED  BY <3>3 DEF Remembers
  <2> QED  BY <2>1, <2>2 DEF Approve, Decline, Die
<1>6. Ahead' => Ahead  BY <1>1, AheadSame
<1> QED  BY <1>1, <1>4, <1>5, <1>6, SameFlowPlan

LEMMA NextMinutePlan == ASSUME ISafe, ISafe', Plan, NextMinute PROVE Plan'
<1>1. UNCHANGED <<strategy, day, stock, flow, count, orders>> /\ Watch  BY DEF NextMinute
<1>2. Ahead' => Ahead
  <2>1. minute' = minute + 1 /\ minute \in Nat  BY DEF NextMinute, ISafe, TypeInv, ClockOK
  <2>2. Ahead' => \A m \in DOMAIN Timetable : Timetable[m] = "target" => minute + 1 < m \/ minute + 1 = m
    BY <2>1 DEF Ahead
  <2>3. \A m \in DOMAIN Timetable : m \in Nat
    <3>1. DOMAIN Timetable = 1..Len(Timetable)  BY TimetableAssumption
    <3> QED  BY <3>1
  <2>4. \A m \in DOMAIN Timetable : minute + 1 < m \/ minute + 1 = m => minute < m  BY <2>1, <2>3
  <2> QED  BY <2>2, <2>4 DEF Ahead
<1> QED  BY <1>1, <1>2, MildSame, WatchRemembers, SameFlowPlan

LEMMA StartSyncPlan == ASSUME ISafe, ISafe', Plan, StartSync PROVE Plan'
<1>1. UNCHANGED <<strategy, day, stock, count, orders, minute, cron>> /\ Watch  BY DEF StartSync
<1>2. SUFFICES ASSUME Thrifty PROVE Steady' /\ (~audit'.torn => Budget')
  BY <1>1 DEF Plan, Thrifty
<1>3. Steady /\ (~audit.torn => Budget)  BY <1>2 DEF Plan
<1>4. PICK r : r = [flow["sync"] EXCEPT !.pc = "balance"]  OBVIOUS
<1>5. flow' = [flow EXCEPT !["sync"] = r] /\ "sync" \in Flow  BY <1>4 DEF StartSync, Go, Flow
<1>6. r.pc = "balance"
  <2>1. flow["sync"] \in Flows  BY <1>5, FlowIs
  <2> QED  BY <1>4, <2>1 DEF Flows
<1>7. flow'["user"].pc = "idle" /\ flow'["sync"] = r /\ flow'["loop"] = flow["loop"]
  BY <1>3, <1>5, ThriftyFlows
<1>8. MildRows  BY <1>1, MildSame
<1>9. ~Returning(r)  BY <1>6 DEF Returning, Settles
<1>10. \A i \in DOMAIN orders : Billed(orders[i])  BY <1>3 DEF Steady
<1>11. Used' \in Int /\ Used' <= Used /\ \A i \in DOMAIN orders' : Billed(orders'[i])
  BY <1>1, <1>7, <1>8, <1>9, <1>10, UsedFalls
<1>12. SameBase  BY StartNews, NewsBase
<1>13. ~audit'.torn => ~audit.torn  BY <1>1, WatchRemembers DEF Remembers
<1>14. Used' + stock'.rules.carried <= Used + stock.rules.carried  BY <1>1, <1>11, UsedIs
<1>15. PICK q : q = flow'["loop"] /\ q = flow["loop"]  BY <1>7
<1>16. Abides(q, flow["loop"])  BY <1>15, AbidesSame
<1>17. Ahead' => Ahead  BY <1>1, <1>7, AheadSame
<1> QED  BY <1>1, <1>3, <1>7, <1>8, <1>11, <1>12, <1>13, <1>14, <1>15, <1>16, <1>17, PlanKept

LEMMA SaveSnapshotPlan == ASSUME ISafe, ISafe', Plan, SaveSnapshot PROVE Plan'
<1>1. UNCHANGED <<strategy, day, stock, count, orders, minute, cron>> /\ Watch  BY DEF SaveSnapshot
<1>2. SUFFICES ASSUME Thrifty PROVE Steady' /\ (~audit'.torn => Budget')
  BY <1>1 DEF Plan, Thrifty
<1>3. Steady /\ (~audit.torn => Budget)  BY <1>2 DEF Plan
<1>4. flow' = [flow EXCEPT !["loop"] = IdleFlow] /\ flow["loop"].pc = "snapshot"
  BY DEF SaveSnapshot, Stop
<1>5. IdleFlow.pc = "idle" /\ IdleFlow.jobs = <<>>  BY IdleIs
<1>6. PICK r : r = IdleFlow  OBVIOUS
<1>7. flow'["user"].pc = "idle" /\ flow'["loop"] = r /\ flow'["sync"] = flow["sync"]
  BY <1>3, <1>4, <1>6, ThriftyFlows
<1>8. MildRows  BY <1>1, MildSame
<1>9. ~Returning(r) /\ ~Early(r)  BY <1>5, <1>6 DEF Returning, Settles, Early
<1>10. \A i \in DOMAIN orders : Billed(orders[i])  BY <1>3 DEF Steady
<1>11. Used' \in Int /\ Used' <= Used /\ \A i \in DOMAIN orders' : Billed(orders'[i])
  BY <1>1, <1>7, <1>8, <1>9, <1>10, UsedFalls
<1>12. SameBase  BY StartNews, NewsBase
<1>13. ~audit'.torn => ~audit.torn  BY <1>1, WatchRemembers DEF Remembers
<1>14. Used' + stock'.rules.carried <= Used + stock.rules.carried  BY <1>1, <1>11, UsedIs
<1>15. Abides(r, flow["loop"])
  <2>1. ~Spending(flow["loop"])  BY <1>4 DEF Spending, Settles
  <2> QED  BY <1>5, <1>6, <2>1, AbidesEnd
<1>16. Ahead' => Ahead  BY <1>1, <1>7, <1>9, AheadSame
<1> QED  BY <1>1, <1>3, <1>7, <1>8, <1>11, <1>12, <1>13, <1>14, <1>15, <1>16, PlanKept

\* A run of the loop reads what is carried over before it does anything else.
LEMMA StartLoopPlan == ASSUME ISafe, ISafe', Plan, StartLoop PROVE Plan'
<1>1. UNCHANGED <<strategy, day, stock, count, orders, minute>> /\ Watch /\ cron /\ ~cron'
  BY DEF StartLoop
<1>2. SUFFICES ASSUME Thrifty PROVE Steady' /\ (~audit'.torn => Budget')
  BY <1>1 DEF Plan, Thrifty
<1>3. Steady /\ (~audit.torn => Budget)  BY <1>2 DEF Plan
<1>4. PICK r : r = [IdleFlow EXCEPT !.pc = "risk", !.ws = stock]  OBVIOUS
<1>5. flow' = [flow EXCEPT !["loop"] = r] /\ flow["loop"].pc = "idle"  BY <1>4 DEF StartLoop
<1>6. r.pc = "risk" /\ r.ws = stock /\ r.jobs = <<>>  BY <1>4 DEF IdleFlow
<1>7. flow'["user"].pc = "idle" /\ flow'["loop"] = r /\ flow'["sync"] = flow["sync"]
  BY <1>3, <1>5, ThriftyFlows
<1>8. ~Deciding(r) /\ ~Settles(r) /\ ~Returning(r) /\ ~Spending(r) /\ ~Spending(flow["loop"])
  BY <1>5, <1>6 DEF Deciding, Settles, Returning, Spending
<1>9. MildRows /\ SameBase  BY <1>1, MildSame, StartNews, NewsBase
<1>10. \A i \in DOMAIN orders : Billed(orders[i])  BY <1>3 DEF Steady
<1>11. /\ Share' = Share /\ Used' \in Int /\ Used' <= Used
       /\ \A i \in DOMAIN orders' : Billed(orders'[i])
  BY <1>1, <1>7, <1>8, <1>9, <1>10, UsedFalls
<1>12. Steady'
  <2>1. flow'["loop"].ws.quota = stock'.quota  BY <1>1, <1>6, <1>7
  <2>2. \A f \in Flow : flow'[f].pc = "store" => flow'[f].base.quota = stock'.quota
    BY <1>1, <1>3, <1>9 DEF Steady, SameBase
  <2>3. (\A i \in DOMAIN orders : Billed(orders[i]))'  BY <1>11 DEF Billed
  <2>4. Bids(flow["loop"])'
    <3>1. DOMAIN <<>> = {}  OBVIOUS
    <3> QED  BY <1>6, <1>7, <3>1 DEF Bids, Settles
  <2> QED  BY <1>7, <2>1, <2>2, <2>3, <2>4 DEF Steady
<1>13. Ahead' => Ahead
  <2>1. Ahead' => \A m \in DOMAIN Timetable : Timetable[m] = "target" => minute < m \/ minute = m
    BY <1>1 DEF Ahead
  <2> QED  BY <1>1, <2>1 DEF Ahead
<1>14. ASSUME ~audit'.torn PROVE Budget'
  <2>1. Budget  BY <1>1, <1>3, <1>14, WatchRemembers DEF Remembers
  <2>2. PICK use, was, c, past, all :
          /\ use = Used' /\ was = Used /\ c = stock.rules.carried
          /\ past = (day - 1) * Share /\ all = day * Share
    OBVIOUS
  <2>3. use \in Int /\ was \in Int /\ c \in Nat /\ past \in Nat /\ all \in Nat /\ use <= was
    BY <1>11, <2>2, ShareIs, UsedIs
  <2>4. (Ahead => was + c <= past) /\ was + c <= all
    BY <1>8, <2>1, <2>2 DEF Budget, Kept
  <2>5. (Ahead' => use + c <= past) /\ use + c <= all  BY <1>13, <2>3, <2>4
  <2>6. /\ (day - 1)' * Share' = past /\ (day * Share)' = all /\ stock'.rules.carried = c
        /\ r.ws.rules.carried = c /\ DOMAIN r.jobs = {}
    BY <1>1, <1>6, <1>11, <2>2
  <2>7. (Ahead \/ Fresh(flow["loop"]))' => Ahead'  BY <1>6, <1>7 DEF Fresh, Deciding, Spending, Settles
  <2>8. ((Early(flow["loop"]) /\ Ahead) \/ Deciding(flow["loop"]))' => Ahead'
    BY <1>6, <1>7 DEF Deciding
  <2>9. Kept(flow["loop"])' = c  BY <1>6, <1>7, <2>6 DEF Kept, Spending, Settles
  <2> QED  BY <1>6, <1>7, <2>2, <2>5, <2>6, <2>7, <2>8, <2>9 DEF Budget
<1> QED  BY <1>12, <1>14

\* A night adds a share; nothing else of the plan moves.
LEMMA NextDayPlan == ASSUME ISafe, ISafe', Plan, NextDay PROVE Plan'
<1>1. /\ UNCHANGED <<strategy, stock, count, flow>> /\ Watch /\ day' = day + 1
      /\ \A f \in Flow : flow[f].pc = "idle"
  BY DEF NextDay
<1>2. SUFFICES ASSUME Thrifty PROVE Steady' /\ (~audit'.torn => Budget')
  BY <1>1 DEF Plan, Thrifty
<1>3. Steady /\ (~audit.torn => Budget)  BY <1>2 DEF Plan
<1>4. PICK q : q = flow["loop"] /\ q = flow'["loop"]  BY <1>1
<1>5. q.pc = "idle" /\ q.jobs = <<>>  BY <1>1, <1>4, FlowIs, IdleIs DEF Flow, Run
<1>6. ~Early(q) /\ ~Deciding(q) /\ ~Spending(q) /\ ~Fresh(q)
  BY <1>5 DEF Early, Deciding, Spending, Fresh, Settles
<1>7. MildRows  BY NextDayMilds
<1>8. \A i \in DOMAIN orders : Billed(orders[i])  BY <1>3 DEF Steady
<1>9. /\ Returning(flow'["loop"]) => Returning(flow["loop"])
      /\ Returning(flow'["sync"]) => Returning(flow["sync"])
  BY <1>1
<1>10. /\ Share' = Share /\ Used' \in Int /\ Used' <= Used
       /\ \A i \in DOMAIN orders' : Billed(orders'[i])
  BY <1>1, <1>7, <1>8, <1>9, UsedFalls
<1>11. Steady'
  <2>1. SameBase /\ flow'["user"].pc = "idle"  BY <1>1, <1>3 DEF SameBase, Steady
  <2>2. Bids(q)  BY <1>3, <1>4 DEF Steady
  <2> QED  BY <1>1, <1>3, <1>4, <1>6, <1>10, <2>1, <2>2, SteadyKept
<1>12. ASSUME ~audit'.torn PROVE Budget'
  <2>1. Budget  BY <1>1, <1>3, <1>12, WatchRemembers DEF Remembers
  <2>2. PICK use, was, c, n, all :
          use = Used' /\ was = Used /\ c = stock.rules.carried /\ n = Share /\ all = day * Share
    OBVIOUS
  <2>3. use \in Int /\ was \in Int /\ c \in Nat /\ n \in Nat /\ all \in Int /\ use <= was
    <3>1. all \in Int  BY <2>2, ShareIs
    <3> QED  BY <1>10, <2>2, <3>1, ShareIs, UsedIs
  <2>4. was + c <= all  BY <1>4, <1>6, <2>1, <2>2 DEF Budget, Kept
  <2>5. use + c <= all /\ use + c <= all + n  BY <2>3, <2>4
  <2>6. (day' - 1) * Share' = all /\ day' * Share' = all + n
    <3>1. (day + 1) * Share = all + n
      <4>1. \A d, m \in Nat : (d + 1) * m = d * m + m  OBVIOUS
      <4> QED  BY <2>2, <4>1, ShareIs
    <3>2. day' = day + 1 /\ Share' = Share  BY <1>1, <1>10
    <3>3. PICK tomorrow, m : tomorrow = day' /\ m = Share'  OBVIOUS
    <3>4. tomorrow = day + 1 /\ m = Share  BY <3>2, <3>3
    <3>5. tomorrow - 1 = day /\ (tomorrow - 1) * m = all
      <4>1. tomorrow - 1 = day  BY <3>4, ShareIs
      <4> QED  BY <2>2, <3>4, <4>1
    <3>6. tomorrow * m = (day + 1) * Share  BY <3>4
    <3> QED  BY <3>1, <3>3, <3>5, <3>6
  <2>7. stock'.rules.carried = c /\ DOMAIN q.jobs = {}  BY <1>1, <1>5, <2>2
  <2>8. ~((Early(flow["loop"]) /\ Ahead) \/ Deciding(flow["loop"]))'
    BY <1>4, <1>5 DEF Early, Deciding, Settles
  <2>9. Kept(flow["loop"])' = c  BY <1>4, <1>5, <2>7 DEF Kept, Spending, Settles
  <2> QED  BY <1>4, <1>5, <2>2, <2>5, <2>6, <2>7, <2>8, <2>9 DEF Budget
<1> QED  BY <1>11, <1>12

LEMMA NextPlan == ASSUME ISafe, ISafe', Dca, Plan, [Next]_vars PROVE Plan'
<1>1. CASE UNCHANGED vars
  <2>1. UNCHANGED <<strategy, day, stock, flow, count, orders, minute, cron, audit>>  BY <1>1 DEF vars
  <2>2. Ahead' => Ahead  BY <2>1, AheadSame
  <2>3. Remembers  BY <2>1 DEF Remembers
  <2> QED  BY <2>1, <2>2, <2>3, MildSame, SameFlowPlan
<1>2. CASE StartManual
  <2>1. count \in [manual : Nat, edit : Nat]  BY DEF ISafe, TypeInv, ClockOK
  <2>2. count'.manual = count.manual + 1 /\ count.manual \in Nat  BY <1>2, <2>1 DEF StartManual
  <2>3. count'.manual # 0  BY <2>2
  <2> QED  BY <2>3 DEF Plan, Thrifty
<1>3. CASE StartEdit
  <2>1. count \in [manual : Nat, edit : Nat]  BY DEF ISafe, TypeInv, ClockOK
  <2>2. count' = [count EXCEPT !.edit = @ + 1]  BY <1>3, Zenon DEF StartEdit
  <2>3. count'.edit = count.edit + 1 /\ count.edit \in Nat  BY <2>1, <2>2
  <2>4. count'.edit # 0  BY <2>3
  <2> QED  BY <2>4 DEF Plan, Thrifty
<1>4. CASE GuardManual
  <2>1. flow["manual"].pc = "guard" /\ UNCHANGED <<strategy, count>>  BY <1>4 DEF GuardManual
  <2>2. ~(strategy = "daily-dca" /\ count.manual = 0)  BY <2>1 DEF Dca
  <2> QED  BY <2>1, <2>2 DEF Plan, Thrifty
<1> QED
  BY <1>1, <1>2, <1>3, <1>4, StartLoopPlan, StartSyncPlan, SaveSnapshotPlan, NextMinutePlan,
     NextDayPlan, LoopPlan, BrokerPlan DEF Next

LEMMA InitPlan == ASSUME Init PROVE Plan
<1>1. /\ orders = <<>> /\ flow = [f \in Flow |-> IdleFlow] /\ stock.rules.carried = 0 /\ day = 1
      /\ stock.quota \in Nat
  <2>1. PICK seed \in Seed : stock = [quota |-> seed.quota, rules |-> NoParams, v4 |-> SeedLedger(seed)]
    BY DEF Init
  <2>2. stock.rules.carried = 0  BY <2>1 DEF NoParams
  <2>3. stock.quota = seed.quota /\ seed.quota \in Nat  BY <2>1, SeedAssumption
  <2> QED  BY <2>2, <2>3 DEF Init
<1>2. /\ "loop" \in Flow /\ "sync" \in Flow /\ "user" \in Flow /\ DOMAIN orders = {}
      /\ \A f \in Flow : flow[f] = IdleFlow
  BY <1>1 DEF Flow, Run
<1>3. IdleFlow.pc = "idle" /\ IdleFlow.jobs = <<>> /\ DOMAIN <<>> = {}  BY IdleIs
<1>4. ~Early(IdleFlow) /\ ~Deciding(IdleFlow) /\ ~Spending(IdleFlow) /\ ~Fresh(IdleFlow)
      /\ ~Returning(IdleFlow) /\ ~Settles(IdleFlow)
  BY <1>3 DEF Early, Deciding, Spending, Fresh, Settles, Returning
<1>5. Bids(IdleFlow)  BY <1>3, <1>4 DEF Bids
<1>6. Steady  BY <1>2, <1>3, <1>4, <1>5 DEF Steady
<1>7. Used = 0
  <2>1. Claims = 0
    <3>1. PICK share : share = Share  OBVIOUS
    <3> DEFINE g == [i \in DOMAIN orders |-> Claim(orders[i], share)]
    <3>2. DOMAIN g = {} /\ Claims = SumFunction(g)  BY <1>2, <3>1 DEF Claims
    <3> HIDE DEF g
    <3> QED  BY <3>2, TotalEmpty
  <2> QED  BY <1>2, <1>4, <2>1 DEF Used, Returned
<1>8. Share \in Nat  BY <1>1, SeedAssumption, DivBound DEF Share
<1>9. (day - 1) * Share = 0 /\ day * Share = Share  BY <1>1, <1>8
<1>10. Budget
  <2>1. Kept(flow["loop"]) = 0  BY <1>1, <1>2, <1>4 DEF Kept
  <2> QED  BY <1>1, <1>2, <1>3, <1>4, <1>7, <1>8, <1>9, <2>1 DEF Budget
<1> QED  BY <1>6, <1>10 DEF Plan

\* What is spent is claimed, and between two runs nothing carried over is used up.
LEMMA PlanHolds == ASSUME ISafe, Plan PROVE WithinPlan
<1> SUFFICES ASSUME Thrifty, Between, ~audit.torn
             PROVE  Spent + stock.rules.carried <= day * (stock.quota \div Cycles)
  BY DEF WithinPlan, Thrifty
<1>1. Used + Kept(flow["loop"]) <= day * Share  BY DEF Plan, Budget
<1>2. Kept(flow["loop"]) = stock.rules.carried
  <2>1. flow["loop"].pc \notin {"submit", "post", "fetch", "store"}  BY DEF Between, Run
  <2> QED  BY <2>1 DEF Kept, Spending, Settles
<1>3. PICK n, share : n = Len(orders) /\ share = Share  OBVIOUS
<1> DEFINE f == [i \in DOMAIN orders |-> Cost(orders[i])]
           g == [i \in DOMAIN orders |-> Claim(orders[i], share)]
<1>4. DOMAIN orders = 1..n /\ n \in Nat /\ share \in Nat  BY <1>3, ShareIs DEF ISafe, TypeInv
<1>5. \A i \in 1..n : Cost(orders[i]) \in Nat /\ Claim(orders[i], share) \in Nat
                      /\ Cost(orders[i]) <= Claim(orders[i], share)
  <2>1. \A i \in DOMAIN orders : orders[i] \in Rows /\ RowOK(orders[i])  BY OrderIs
  <2>2. ASSUME NEW i \in 1..n
        PROVE  /\ Cost(orders[i]) \in Nat /\ Claim(orders[i], share) \in Nat
               /\ Cost(orders[i]) <= Claim(orders[i], share)
    <3>1. orders[i] \in Rows /\ RowOK(orders[i])  BY <1>4, <2>1, <2>2
    <3> QED  BY <1>4, <3>1, ClaimIs
  <2> QED  BY <2>2
<1>6. /\ DOMAIN f = 1..n /\ DOMAIN g = 1..n
      /\ \A i \in 1..n : f[i] \in Int /\ g[i] \in Int /\ f[i] <= g[i]
  BY <1>4, <1>5
<1>7. Spent = SumFunction(f) /\ Claims = SumFunction(g)  BY <1>3 DEF Spent, Claims
<1> HIDE DEF f, g
<1>8. SumFunction(f) <= SumFunction(g) /\ SumFunction(f) \in Int
  <2>1. \A i \in 1..n : f[i] \in Int /\ g[i] \in Int /\ f[i] <= g[i]  BY <1>6
  <2> QED  BY <1>4, <1>6, <2>1, TotalAtMost, TotalInt
<1>9. PICK all, use, c, x, y : /\ all = day * Share /\ use = Used /\ c = stock.rules.carried
                               /\ x = Returned(flow["loop"]) /\ y = Returned(flow["sync"])
  OBVIOUS
<1>10. all \in Int /\ use \in Int /\ c \in Nat /\ x \in Nat /\ y \in Nat /\ Claims \in Int
       /\ use = Claims + x + y /\ use + c <= all
  <2>1. all \in Int  BY <1>9, ShareIs
  <2>2. x \in Nat /\ y \in Nat  BY <1>9, UsedIs
  <2> QED  BY <1>1, <1>2, <1>9, <2>1, <2>2, UsedIs
<1>11. Spent + c <= all  BY <1>7, <1>8, <1>10
<1> QED  BY <1>9, <1>11 DEF Share

\* WithinPlan of LiveTrading: however the runs, the passes, the cancellations
\* and the executions of a daily-dca stock fall, what it spent and what it
\* carries over come to at most one share of the quota a day.
THEOREM LiveTradingWithinPlan == Spec => []WithinPlan
<1>1. Init => Momentum /\ Dca /\ Plan  BY InitEntries, InitPlan
<1>2. ISafe /\ ISafe' /\ (Momentum /\ Dca /\ Plan) /\ [Next]_vars => (Momentum /\ Dca /\ Plan)'
  BY NextEntries, NextPlan
<1>3. ISafe /\ Plan => WithinPlan  BY PlanHolds
<1> QED  BY <1>1, <1>2, <1>3, LiveTradingSafe, PTL DEF Spec
====
