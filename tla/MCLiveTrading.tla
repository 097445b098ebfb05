---------------------------- MODULE MCLiveTrading ----------------------------
(* Small instances of LiveTrading. *)
EXTENDS LiveTrading

Shown(price) == [price |-> price, warned |-> FALSE, ready |-> TRUE, setup |-> TRUE,
                 turn |-> FALSE, middle |-> FALSE, scale |-> 100, swing |-> 0]

NoSharesYet == {[quota |-> 400, qty |-> 0, avg |-> 0, cash |-> 1000]}
Rising      == {Shown(100), Shown(150)}
Falling     == {Shown(100), Shown(90)}
TwoMinutes  == <<"window", "target">>

\* OneEntryADay promises nothing once a manual run overlapped the loop; a
\* manual run is followed to the end of the first day.
Relevant == ~audit.overlap /\ (count.manual > 0 => day = 1)

\* A ledger with one share, which a final sale closes, and one that is used
\* up, which enters REVERSE.
Ledger     == {[quota |-> 1000, qty |-> 1, avg |-> 100, cash |-> 900],
               [quota |-> 1000, qty |-> 8, avg |-> 100, cash |-> 300]}
AroundStar == {Shown(100), Shown(116)}
OneMinute  == <<"target">>
NotTorn    == ~audit.torn

\* infinite-buy-v4 asks neither for the drawdown nor what the run bought.
WithoutDrawdown ==
  <<strategy, day, minute, cron, market, close, stock, account, position.qty, position.avg, orders,
    [f \in Flow |-> [flow[f] EXCEPT !.total = 0, !.peak = 0, !.held.mark = 0, !.bought = FALSE]],
    count, audit>>
=============================================================================
