----------------------------- MODULE OrderReport -----------------------------
(***************************************************************************)
(* What following an order promises, with no passes, snapshots, cancels or *)
(* inspections: a row counts shares of the order while it is open, what it *)
(* counts becomes news for the strategy, and it is closed, with all it     *)
(* ever counts, once the order is over.  News is told at most once; a      *)
(* failure is news only of a row that counted nothing.  While a cancel is  *)
(* in doubt the row waits for an operator.                                 *)
(***************************************************************************)
EXTENDS Naturals

CONSTANT Q  \* quantity of the order

VARIABLES ord, filled,  \* the order at the broker, and its shares filled
          counted,      \* shares the row counts
          closed,       \* the row no longer stands for an order that works
          doubt,        \* a cancel was sent and nobody knows what became of it
          news,         \* what is still to be told: shares, and 0 for the failure
          heard, failed \* how often the strategy was told of each share, and of the failure

broker == <<ord, filled>>
vars   == <<broker, counted, closed, doubt, news, heard, failed>>

Init == /\ ord = "unsent" /\ filled = 0
        /\ counted = 0 /\ closed = FALSE /\ doubt = FALSE /\ news = {}
        /\ heard = [s \in 1..Q |-> 0] /\ failed = 0

Over == ord \in {"dead", "refused"}

Broker == /\ \/ ord = "unsent" /\ ord' \in {"live", "refused"} /\ filled' = filled
             \/ ord = "live" /\ ord' \in {"live", "dead"} /\ filled' = filled + 1 /\ filled' <= Q
             \/ ord = "live" /\ ord' = "dead" /\ filled' = filled
          /\ UNCHANGED <<counted, closed, doubt, news, heard, failed>>

\* The row takes up what was filled, which may be the last of it.
Count(n) == /\ ~closed /\ ~doubt
            /\ n \in counted..filled
            /\ counted' = n
            /\ closed' \in {FALSE, Over}
            /\ news' = news \cup ((counted + 1)..n)
            /\ UNCHANGED <<broker, doubt, heard, failed>>

\* The order ends without shares.
Fail == /\ ~closed /\ ~doubt /\ Over
        /\ counted = 0
        /\ closed' = TRUE
        /\ news' = news \cup {0}
        /\ UNCHANGED <<broker, counted, doubt, heard, failed>>

Cancel == /\ ~closed
          /\ doubt' \in BOOLEAN
          /\ UNCHANGED <<broker, counted, closed, news, heard, failed>>

\* An operator closes the row: nobody is told.
Settle(n) == /\ ~closed /\ doubt /\ Over
             /\ n \in 0..filled
             /\ counted' = n
             /\ closed' = TRUE /\ doubt' = FALSE
             /\ UNCHANGED <<broker, news, heard, failed>>

Tell(S) == /\ S \subseteq news
           /\ news' = news \ S
           /\ heard' = [s \in 1..Q |-> IF s \in S THEN heard[s] + 1 ELSE heard[s]]
           /\ failed' = IF 0 \in S THEN failed + 1 ELSE failed
           /\ UNCHANGED <<broker, counted, closed, doubt>>

\* Who knew of it fails or is killed.
Lose(S) == /\ S \subseteq news
           /\ news' = news \ S
           /\ UNCHANGED <<broker, counted, closed, doubt, heard, failed>>

Next == \/ Broker \/ Cancel \/ Fail
        \/ \E n \in 0..Q : Count(n) \/ Settle(n)
        \/ \E S \in SUBSET (0..Q) : Tell(S) \/ Lose(S)

Spec == Init /\ [][Next]_vars

\* The promise of reconcileOpenOrders: the strategy hears of each share once at
\* most, of a failure once and instead of shares, and a closed row has no
\* working order and no cancel in doubt.
KeptPromise ==
  /\ \A s \in 1..Q : heard[s] <= 1
  /\ failed <= 1 /\ (failed = 1 => \A s \in 1..Q : heard[s] = 0)
  /\ closed => Over /\ ~doubt
=============================================================================
