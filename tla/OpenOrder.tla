------------------------------ MODULE OpenOrder ------------------------------
(***************************************************************************)
(* One order that works at the broker, and the row that follows it.        *)
(*                                                                         *)
(* Reconciliation passes (the 15-second cron, the strategy run, the daily  *)
(* summary) may overlap.  A pass asks the broker for executions, then for  *)
(* unfilled orders, then loads the row, and only then updates it, always   *)
(* on condition that the row is as it was loaded; the strategy is told     *)
(* after the update.  Cancellers (automatic or manual) claim the row       *)
(* before they POST a cancel; inspectors are operators who settle a cancel *)
(* whose outcome is unknown.  Between any two of these steps the order may *)
(* fill or die, and the process may crash.                                 *)
(***************************************************************************)
EXTENDS Naturals

CONSTANTS
  Q,                 \* quantity of the order
  Pass,              \* reconciliation passes that may overlap
  Canceller,         \* cancellation flows that may overlap
  Inspector,         \* operators inspecting an unknown cancellation
  ApprovedSell,      \* the row was created minutes before its POST
  DeadListing,       \* whether the broker lists a dead order with no fill
  DerivedRemaining,  \* the adapter computes remaining as quantity - filled
  MaxFaults          \* bound on crashes and failed passes

ASSUME QuantityAssumption == Q \in Nat \ {0}
ASSUME FlagsAssumption    == /\ ApprovedSell \in BOOLEAN
                             /\ DerivedRemaining \in BOOLEAN
                             /\ DeadListing \subseteq BOOLEAN
                             /\ MaxFaults \in Nat

VARIABLES
  ord,     \* the order at the broker
  filled,  \* shares of it filled at the broker
  row,     \* the TradeRecord
  aged,    \* createdAt lies more than the cancel grace in the past
  pass, canc, insp,  \* the flows
  heard,   \* how often the strategy was told of each share
  failed,  \* how often the strategy was told the order failed
  up,      \* the process runs and its startup takeover is done
  faults   \* crashes and failed passes so far

vars == <<ord, filled, row, aged, pass, canc, insp, heard, failed, up, faults>>
brokerVars == <<ord, filled>>
flowVars   == <<pass, canc, insp>>
toldVars   == <<heard, failed>>

OrderState   == {"unsent", "live", "dead", "refused"}
RowStatus    == {"SUBMITTING", "PENDING", "PARTIAL", "FILLED", "CANCELLED", "FAILED"}
Cancellation == {"none", "SUBMITTING", "ACCEPTED", "REJECTED", "UNKNOWN", "RESOLVED"}

\* named: orderNo is set; executed: executedQty, null counting as 0.
Row == [status : RowStatus, named : BOOLEAN, executed : 0..Q, cancel : Cancellation]

Listing == [listed : BOOLEAN, filled : 0..Q, remaining : 0..Q, rejected : BOOLEAN]
NotListed == [listed |-> FALSE, filled |-> 0, remaining |-> 0, rejected |-> FALSE]

NewRow == [status |-> "SUBMITTING", named |-> FALSE, executed |-> 0, cancel |-> "none"]
IdlePass == [phase |-> "idle", exec |-> NotListed, open |-> FALSE, early |-> FALSE,
             row |-> NewRow, aged |-> FALSE, news |-> "none", from |-> 0, upto |-> 0]
IdleCanc == [phase |-> "idle", row |-> NewRow, hit |-> FALSE]
IdleInsp == [phase |-> "idle", row |-> NewRow, exec |-> NotListed, open |-> FALSE]

PassState == [phase : {"idle", "executions", "unfilled", "loaded", "news"},
              exec : Listing, open : BOOLEAN, early : BOOLEAN, row : Row, aged : BOOLEAN,
              news : {"none", "fill", "failure"}, from : 0..Q, upto : 0..Q]
CancState == [phase : {"idle", "found", "claimed", "releasing", "posted"},
              row : Row, hit : BOOLEAN]
InspState == [phase : {"idle", "executions", "unfilled"}, row : Row, exec : Listing,
              open : BOOLEAN]

TypeOK ==
  /\ ord \in OrderState
  /\ filled \in 0..Q
  /\ row \in Row
  /\ aged \in BOOLEAN
  /\ pass \in [Pass -> PassState]
  /\ canc \in [Canceller -> CancState]
  /\ insp \in [Inspector -> InspState]
  /\ heard \in [1..Q -> Nat]
  /\ failed \in Nat
  /\ up \in BOOLEAN
  /\ faults \in 0..MaxFaults

Init == /\ ord = "unsent"
        /\ filled = 0
        /\ row = NewRow
        /\ aged = ApprovedSell
        /\ pass = [p \in Pass |-> IdlePass]
        /\ canc = [c \in Canceller |-> IdleCanc]
        /\ insp = [i \in Inspector |-> IdleInsp]
        /\ heard = [s \in 1..Q |-> 0]
        /\ failed = 0
        /\ up = TRUE
        /\ faults = 0

-----------------------------------------------------------------------------
(* The broker, and the row before it names its order. *)

Place == /\ ord = "unsent"
         /\ ord' \in {"live", "refused"}
         /\ UNCHANGED <<filled, row, aged, flowVars, toldVars, up, faults>>

Fill == /\ ord = "live"
        /\ filled' = filled + 1
        /\ ord' = IF filled' = Q THEN "dead" ELSE ord
        /\ UNCHANGED <<row, aged, flowVars, toldVars, up, faults>>

\* Cancelled, expired at the close, or killed by an accepted cancel.
Die == /\ ord = "live"
       /\ ord' = "dead"
       /\ UNCHANGED <<filled, row, aged, flowVars, toldVars, up, faults>>

\* persistAccepted, or an operator's link after an unknown answer.
Persist == /\ up
           /\ row.status = "SUBMITTING"
           /\ ord # "unsent"
           /\ row' = [row EXCEPT !.status = "PENDING", !.named = TRUE]
           /\ UNCHANGED <<brokerVars, aged, flowVars, toldVars, up, faults>>

\* Two minutes pass.  A row created right before its POST cannot reach that age
\* during a pass that asked the broker before the POST: a pass is far shorter.
GraceEnds == /\ ~aged
             /\ ord # "unsent"
             /\ \A p \in Pass : ~pass[p].early
             /\ aged' = TRUE
             /\ UNCHANGED <<brokerVars, row, flowVars, toldVars, up, faults>>

\* What an adapter reports of the order: its executions and whether it is open.
Remaining == IF ord = "live" \/ DerivedRemaining THEN Q - filled ELSE 0
Listed    == [listed |-> TRUE, filled |-> filled, remaining |-> Remaining,
              rejected |-> ord = "refused"]
Executions == IF ord = "unsent" THEN {NotListed}
              ELSE IF ord = "dead" /\ filled = 0
                   THEN {IF b THEN Listed ELSE NotListed : b \in DeadListing}
              ELSE {Listed}

\* Mutant of StillOpen: an order is open as long as shares of it are missing.
StillMissing == ord # "unsent" /\ filled < Q

\* Whether the broker's list of unfilled orders shows it.
StillOpen == ord = "live"

-----------------------------------------------------------------------------
(* Reconciliation. *)

\* Mutant of IsOpen: partially filled orders are forgotten.
IsPending(r) == r.status = "PENDING" /\ r.named

IsOpen(r) == r.status \in {"PENDING", "PARTIAL"} /\ r.named

\* Equal but for executedQty, which not every conditional update compares.
SameState(r, s) == r.status = s.status /\ r.named = s.named /\ r.cancel = s.cancel

\* Mutant of Larger: the listing is believed as it is.
NewerOf(a, b) == b

Larger(a, b) == IF a > b THEN a ELSE b

PassTo(p, new) == pass' = [pass EXCEPT ![p] = new]

\* syncBrokerMarketOrders: other open orders keep the sync going, so a pass may
\* start before this order is placed.
ReadExecutions(p) ==
  /\ up
  /\ pass[p].phase = "idle"
  /\ \E e \in Executions :
       PassTo(p, [IdlePass EXCEPT !.phase = "executions", !.exec = e,
                                  !.early = (ord = "unsent")])
  /\ UNCHANGED <<brokerVars, row, aged, canc, insp, toldVars, up, faults>>

ReadUnfilled(p) ==
  /\ pass[p].phase = "executions"
  /\ PassTo(p, [pass[p] EXCEPT !.phase = "unfilled", !.open = StillOpen])
  /\ UNCHANGED <<brokerVars, row, aged, canc, insp, toldVars, up, faults>>

LoadOpenRecords(p) ==
  /\ pass[p].phase = "unfilled"
  /\ PassTo(p, IF IsOpen(row)
               THEN [pass[p] EXCEPT !.phase = "loaded", !.row = row, !.aged = aged]
               ELSE IdlePass)
  /\ UNCHANGED <<brokerVars, row, aged, canc, insp, toldVars, up, faults>>

\* Mutant of BrokerStatus: a partial fill is reported as a full one.
BrokerStatusRounded(n, rejected) == IF rejected THEN "FAILED"
                                    ELSE IF n = 0 THEN "PENDING" ELSE "FILLED"

\* getBrokerOrderStatus
BrokerStatus(n, rejected) == IF rejected THEN "FAILED"
                             ELSE IF n = 0 THEN "PENDING"
                             ELSE IF n = Q THEN "FILLED" ELSE "PARTIAL"

\* The status of an order that will not fill any further.
ClosingStatus(n) == IF n = Q THEN "FILLED" ELSE IF n = 0 THEN "CANCELLED" ELSE "PARTIAL"

ClosedBy(r, n) == [status |-> ClosingStatus(n), named |-> r.named /\ ClosingStatus(n) # "PARTIAL",
                   executed |-> n, cancel |-> "RESOLVED"]

\* Mutant of Update: the fill that completes the order is not news.
UpdateCompleted(p, wins, new, news) ==
  /\ IF wins
     THEN /\ row' = new
          /\ PassTo(p, IF news = "none" \/ new.status = "FILLED" THEN IdlePass
                       ELSE [IdlePass EXCEPT !.phase = "news", !.news = news,
                                             !.from = pass[p].row.executed, !.upto = new.executed])
     ELSE /\ row' = row
          /\ PassTo(p, IdlePass)
  /\ UNCHANGED <<brokerVars, aged, canc, insp, toldVars, up, faults>>

\* The conditional update of a pass, and what it has to tell when it wins.
Update(p, wins, new, news) ==
  /\ IF wins
     THEN /\ row' = new
          /\ PassTo(p, IF news = "none" THEN IdlePass
                       ELSE [IdlePass EXCEPT !.phase = "news", !.news = news,
                                             !.from = pass[p].row.executed, !.upto = new.executed])
     ELSE /\ row' = row
          /\ PassTo(p, IdlePass)
  /\ UNCHANGED <<brokerVars, aged, canc, insp, toldVars, up, faults>>

\* Mutant of Attempting: an unknown outcome is not an attempt any more.
AttemptingKnown(r) == r.cancel = "SUBMITTING"

Attempting(r) == r.cancel \in {"SUBMITTING", "UNKNOWN"}

\* reconcileAcceptedCancellation
CloseAcceptedCancel(p) ==
  LET r == pass[p].row
      n == Larger(r.executed, pass[p].exec.filled) IN
  /\ pass[p].phase = "loaded"
  /\ r.cancel = "ACCEPTED"
  /\ pass[p].exec.listed /\ ~pass[p].open
  /\ Update(p, SameState(row, r), ClosedBy(r, n),
            IF n > r.executed THEN "fill" ELSE IF n = 0 THEN "failure" ELSE "none")

\* Mutant of TakeListing: the update does not compare executedQty.
TakeListingAnyQty(p) ==
  LET r        == pass[p].row
      e        == pass[p].exec
      n        == Larger(r.executed, e.filled)
      st       == BrokerStatus(n, e.rejected)
      terminal == st = "PARTIAL" /\ e.remaining = 0 IN
  /\ pass[p].phase = "loaded"
  /\ ~Attempting(r) /\ r.cancel # "ACCEPTED"
  /\ e.listed
  /\ Update(p, SameState(row, r),
            [r EXCEPT !.status = st, !.executed = n, !.named = r.named /\ ~terminal],
            IF n > r.executed THEN "fill"
            ELSE IF st = "FAILED" /\ n = 0 THEN "failure" ELSE "none")

TakeListing(p) ==
  LET r        == pass[p].row
      e        == pass[p].exec
      n        == Larger(r.executed, e.filled)
      st       == BrokerStatus(n, e.rejected)
      terminal == st = "PARTIAL" /\ e.remaining = 0 IN
  /\ pass[p].phase = "loaded"
  /\ ~Attempting(r) /\ r.cancel # "ACCEPTED"
  /\ e.listed
  /\ Update(p, row = r,
            [r EXCEPT !.status = st, !.executed = n, !.named = r.named /\ ~terminal],
            IF n > r.executed THEN "fill"
            ELSE IF st = "FAILED" /\ n = 0 THEN "failure" ELSE "none")

\* Mutant of CloseAbsent: no grace period.
CloseAbsentAtOnce(p) ==
  LET r == pass[p].row IN
  /\ pass[p].phase = "loaded"
  /\ ~Attempting(r) /\ r.cancel # "ACCEPTED"
  /\ ~pass[p].exec.listed /\ ~pass[p].open
  /\ Update(p, SameState(row, r),
            IF r.status = "PARTIAL" THEN [row EXCEPT !.named = FALSE]
                                    ELSE [row EXCEPT !.status = "CANCELLED"],
            IF r.status = "PARTIAL" THEN "none" ELSE "failure")

\* Mutant of CloseAbsent: the update names the row only by its id.
CloseAbsentById(p) ==
  LET r == pass[p].row IN
  /\ pass[p].phase = "loaded"
  /\ ~Attempting(r) /\ r.cancel # "ACCEPTED"
  /\ ~pass[p].exec.listed /\ ~pass[p].open
  /\ pass[p].aged
  /\ Update(p, TRUE,
            IF r.status = "PARTIAL" THEN [row EXCEPT !.named = FALSE]
                                    ELSE [row EXCEPT !.status = "CANCELLED"],
            IF r.status = "PARTIAL" THEN "none" ELSE "failure")

CloseAbsent(p) ==
  LET r == pass[p].row IN
  /\ pass[p].phase = "loaded"
  /\ ~Attempting(r) /\ r.cancel # "ACCEPTED"
  /\ ~pass[p].exec.listed /\ ~pass[p].open
  /\ pass[p].aged
  /\ Update(p, SameState(row, r),
            IF r.status = "PARTIAL" THEN [row EXCEPT !.named = FALSE]
                                    ELSE [row EXCEPT !.status = "CANCELLED"],
            IF r.status = "PARTIAL" THEN "none" ELSE "failure")

\* The record is left for a later pass.
LeaveRecord(p) ==
  LET r == pass[p].row IN
  /\ pass[p].phase = "loaded"
  /\ \/ Attempting(r)
     \/ r.cancel = "ACCEPTED" /\ (~pass[p].exec.listed \/ pass[p].open)
     \/ ~pass[p].exec.listed /\ (pass[p].open \/ ~pass[p].aged)
  /\ PassTo(p, IdlePass)
  /\ UNCHANGED <<brokerVars, row, aged, canc, insp, toldVars, up, faults>>

\* applyReconciledStrategyFill and applyReconciledStrategyFailure, for a BUY.
TellStrategy(p) ==
  /\ pass[p].phase = "news"
  /\ IF pass[p].news = "fill"
     THEN /\ heard' = [s \in 1..Q |-> IF s \in (pass[p].from + 1)..pass[p].upto
                                      THEN heard[s] + 1 ELSE heard[s]]
          /\ UNCHANGED failed
     ELSE failed' = failed + 1 /\ UNCHANGED heard
  /\ PassTo(p, IdlePass)
  /\ UNCHANGED <<brokerVars, row, aged, canc, insp, up, faults>>

\* A broker, database or strategy call of the pass throws.
PassFails(p) ==
  /\ pass[p].phase # "idle"
  /\ faults < MaxFaults
  /\ faults' = faults + 1
  /\ PassTo(p, IdlePass)
  /\ UNCHANGED <<brokerVars, row, aged, canc, insp, toldVars, up>>

PassStep(p) == \/ ReadExecutions(p) \/ ReadUnfilled(p) \/ LoadOpenRecords(p)
               \/ CloseAcceptedCancel(p) \/ TakeListing(p) \/ CloseAbsent(p)
               \/ LeaveRecord(p) \/ TellStrategy(p)

-----------------------------------------------------------------------------
(* Cancellation. *)

CancTo(c, new) == /\ canc' = [canc EXCEPT ![c] = new]
                  /\ UNCHANGED <<brokerVars, aged, pass, insp, toldVars, up, faults>>

\* The caller saw the order open at some earlier moment, with the quantity that
\* the row still has open: a moment when filled was row.executed.
FindTarget(c) ==
  /\ up
  /\ canc[c].phase = "idle"
  /\ IsOpen(row)
  /\ ord # "refused" /\ row.executed < Q
  /\ CancTo(c, [IdleCanc EXCEPT !.phase = "found", !.row = row])
  /\ UNCHANGED row

\* Mutant of ClaimCancellation: the attempt of somebody else is not respected.
ClaimAnyway(c) ==
  /\ canc[c].phase = "found"
  /\ IF IsOpen(row)
     THEN /\ row' = [row EXCEPT !.cancel = "SUBMITTING"]
          /\ CancTo(c, [canc[c] EXCEPT !.phase = "claimed"])
     ELSE /\ row' = row
          /\ CancTo(c, IdleCanc)

ClaimCancellation(c) ==
  /\ canc[c].phase = "found"
  /\ IF IsOpen(row) /\ row.cancel \in {"none", "REJECTED", "RESOLVED"}
     THEN /\ row' = [row EXCEPT !.cancel = "SUBMITTING"]
          /\ CancTo(c, [canc[c] EXCEPT !.phase = "claimed"])
     ELSE /\ row' = row
          /\ CancTo(c, IdleCanc)

\* The re-read row is the one the caller found, and every check passes.  The
\* broker can accept the cancel only if it hits an open order.
PostCancel(c) ==
  /\ canc[c].phase = "claimed"
  /\ row = [canc[c].row EXCEPT !.cancel = "SUBMITTING"]
  /\ CancTo(c, [canc[c] EXCEPT !.phase = "posted", !.hit = StillOpen])
  /\ UNCHANGED row

GiveUpClaim(c) ==
  /\ canc[c].phase = "claimed"
  /\ CancTo(c, [canc[c] EXCEPT !.phase = "releasing"])
  /\ UNCHANGED row

\* releaseCancellationClaim and the three marks: updates of a SUBMITTING attempt.
Mark(c, phase, st) ==
  /\ canc[c].phase = phase
  /\ row' = IF row.cancel = "SUBMITTING" THEN [row EXCEPT !.cancel = st] ELSE row
  /\ CancTo(c, IdleCanc)

ReleaseClaim(c)  == Mark(c, "releasing", "REJECTED")
MarkAccepted(c)  == canc[c].hit /\ Mark(c, "posted", "ACCEPTED")
MarkRejected(c)  == Mark(c, "posted", "REJECTED")
MarkUnknown(c)   == Mark(c, "posted", "UNKNOWN")

\* A database call of the flow throws: the attempt stays SUBMITTING.
CancellerDies(c) == /\ canc[c].phase # "idle"
                    /\ faults < MaxFaults
                    /\ faults' = faults + 1
                    /\ canc' = [canc EXCEPT ![c] = IdleCanc]
                    /\ UNCHANGED <<brokerVars, row, aged, pass, insp, toldVars, up>>

CancelStep(c) == \/ FindTarget(c) \/ ClaimCancellation(c) \/ PostCancel(c) \/ GiveUpClaim(c)
                 \/ ReleaseClaim(c) \/ MarkAccepted(c) \/ MarkRejected(c) \/ MarkUnknown(c)

-----------------------------------------------------------------------------
(* Operator inspection of an unknown cancellation. *)

InspTo(i, new) == /\ insp' = [insp EXCEPT ![i] = new]
                  /\ UNCHANGED <<brokerVars, aged, pass, canc, toldVars, up, faults>>

\* The row is loaded and its executions are read; while it is UNKNOWN nothing
\* else touches it, and the final update checks that it still is.
InspectExecutions(i) ==
  /\ up
  /\ insp[i].phase = "idle"
  /\ IsOpen(row) /\ row.cancel = "UNKNOWN"
  /\ \E e \in Executions :
       InspTo(i, [IdleInsp EXCEPT !.phase = "executions", !.row = row, !.exec = e])
  /\ UNCHANGED row

InspectUnfilled(i) ==
  /\ insp[i].phase = "executions"
  /\ InspTo(i, [insp[i] EXCEPT !.phase = "unfilled", !.open = StillOpen])
  /\ UNCHANGED row

\* inspectCancellation: the order is not open, so its quantities are final.
CloseInspected(i) ==
  LET e == insp[i].exec IN
  /\ insp[i].phase = "unfilled"
  /\ ~insp[i].open
  /\ e.listed /\ ~e.rejected
  /\ e.filled >= insp[i].row.executed
  /\ SameState(row, insp[i].row)
  /\ row' = ClosedBy(insp[i].row, e.filled)
  /\ InspTo(i, IdleInsp)

ConfirmNotAccepted(i) ==
  /\ insp[i].phase = "unfilled"
  /\ insp[i].open
  /\ ~insp[i].exec.rejected
  /\ SameState(row, insp[i].row)
  /\ row' = [row EXCEPT !.cancel = "REJECTED"]
  /\ InspTo(i, IdleInsp)

\* Nothing to decide, an inconclusive read, an error, or a lost update.
EndInspection(i) ==
  /\ insp[i].phase # "idle"
  /\ InspTo(i, IdleInsp)
  /\ UNCHANGED row

InspectStep(i) == \/ InspectExecutions(i) \/ InspectUnfilled(i) \/ CloseInspected(i)
                  \/ ConfirmNotAccepted(i) \/ EndInspection(i)

-----------------------------------------------------------------------------
(* Crash, and a restart whose takeover succeeds. *)

Crash == /\ up
         /\ faults < MaxFaults
         /\ faults' = faults + 1
         /\ up' = FALSE
         /\ pass' = [p \in Pass |-> IdlePass]
         /\ canc' = [c \in Canceller |-> IdleCanc]
         /\ insp' = [i \in Inspector |-> IdleInsp]
         /\ UNCHANGED <<brokerVars, row, aged, toldVars>>

\* takeOverCancellationAttempts
Restart == /\ ~up
           /\ up' = TRUE
           /\ row' = IF row.cancel = "SUBMITTING" THEN [row EXCEPT !.cancel = "UNKNOWN"] ELSE row
           /\ UNCHANGED <<brokerVars, aged, flowVars, toldVars, faults>>

-----------------------------------------------------------------------------
Next == \/ Place \/ Fill \/ Die \/ Persist \/ GraceEnds
        \/ \E p \in Pass : PassStep(p) \/ PassFails(p)
        \/ \E c \in Canceller : CancelStep(c) \/ CancellerDies(c)
        \/ \E i \in Inspector : InspectStep(i)
        \/ Crash \/ Restart

Spec == Init /\ [][Next]_vars

\* The crons keep running passes, the event loop runs what it has begun, a
\* process manager restarts the process, time passes, and an order whose cancel
\* the broker accepted dies.
KillAccepted == row.cancel = "ACCEPTED" /\ Die

FairSpec == /\ Spec
            /\ \A p \in Pass : WF_vars(PassStep(p))
            /\ WF_vars(Persist) /\ WF_vars(Restart) /\ WF_vars(GraceEnds)
            /\ WF_vars(KillAccepted)

-----------------------------------------------------------------------------
(* Safety. *)

Closed == \/ row.status \in {"FILLED", "CANCELLED", "FAILED"}
          \/ row.status = "PARTIAL" /\ ~row.named

\* A row is closed, and its key freed for another order, only when its order
\* can no longer fill: no snapshot a pass still holds may outlive that.
ClosedMeansDead == Closed => ord \in {"dead", "refused"}

\* A closed row has counted every share that was filled, if no cancel of it was
\* ever attempted: reconciliation alone loses none.
ClosedCountsFills == Closed => row.executed = filled
UncancelledCountsFills == row.cancel = "none" => ClosedCountsFills

\* No share is ever reported twice to the strategy, whichever passes saw it.
ShareHeardOnce == \A s \in 1..Q : heard[s] <= 1

\* The strategy restores its quota for a failed order once, and never for an
\* order of which it was told a share.
FailureHeardOnce == failed <= 1 /\ (failed = 1 => \A s \in 1..Q : heard[s] = 0)

\* One cancel POST at a time: while a flow holds the claim no other one does,
\* and the row shows it.
CancelExclusive ==
  \A c \in Canceller : canc[c].phase \in {"claimed", "releasing", "posted"} =>
    /\ row.cancel = "SUBMITTING"
    /\ \A d \in Canceller \ {c} : canc[d].phase \notin {"claimed", "releasing", "posted"}

\* executedQty never goes back, however old the snapshot a writer holds.  One
\* write does not compare it: an inspection that closes a row which counted more
\* since it was loaded, which takes a second operator and a second cancel.
Outdated(i) == insp[i].phase = "unfilled" /\ insp[i].row.executed < row.executed
ExecutedOnlyGrows ==
  [][row'.executed >= row.executed
     \/ \E i \in Inspector : Outdated(i) /\ row.cancel = "UNKNOWN" /\ row'.cancel = "RESOLVED"]_vars

\* Nothing changes the row under a cancel attempt that is under way or unknown,
\* and an unknown one is settled only by an operator's inspection.
AttemptFreezesRow ==
  [][/\ row.cancel = "SUBMITTING" => row' = [row EXCEPT !.cancel = row'.cancel]
     /\ row.cancel = "UNKNOWN" /\ row' # row => \E i \in Inspector : insp[i].phase = "unfilled"]_vars

(* Liveness. *)

\* What docs/multi-broker-spec.md promises of Toss, CANCELED -> CANCELLED: every
\* row whose order is dead is closed in the end.  It is not, because the status
\* of a row is taken from the shares filled and the listing of a dead order
\* without any stays PENDING; no adapter drops such an order.
DeadOrderCloses == (ord = "dead") ~> Closed

\* Every share filled is reported to the strategy in the end, unless the process
\* crashed, a pass failed, or a cancel attempt freezes or has closed the row.
FillsReachStrategy ==
  \A s \in 1..Q : (filled >= s) ~> \/ heard[s] >= 1
                                   \/ faults > 0
                                   \/ row.cancel \in {"SUBMITTING", "UNKNOWN", "RESOLVED"}

\* An accepted cancel is resolved in the end.
AcceptedCancelSettles == (row.cancel = "ACCEPTED") ~> (row.cancel = "RESOLVED")

-----------------------------------------------------------------------------
(* What all of this implements. *)

\* The shares, or the failure, that a pass is about to tell the strategy.
Telling(p, n) == /\ pass[p].phase = "news" /\ pass[p].news = "fill"
                 /\ pass[p].from < n /\ n <= pass[p].upto
Failing(p)    == pass[p].phase = "news" /\ pass[p].news # "fill"

newsOf == {n \in 1..Q : \E p \in Pass : Telling(p, n)} \cup {n \in {0} : \E p \in Pass : Failing(p)}

Doubted == row.cancel = "UNKNOWN"

Report == INSTANCE OrderReport WITH counted <- row.executed, closed <- Closed, doubt <- Doubted,
                                    news <- newsOf

\* Every step of the flows is a step of OrderReport or invisible to it: whatever
\* reconcileOpenOrders read, and when, it counts only what was filled, makes news
\* of all of that, and leaves the row alone once it is closed.
ImplementsReport == Report!Spec
=============================================================================
