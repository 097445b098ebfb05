----------------------------- MODULE SellApproval -----------------------------
(***************************************************************************)
(* Sells that wait for an administrator's click in Slack.                  *)
(*                                                                         *)
(* A request creates a pair of rows in one admission transaction: an       *)
(* approval (PENDING) and its trade record (AWAITING_APPROVAL).  The       *)
(* message is sent outside the transaction; only a conditional update that *)
(* stores its delivery makes the button work.  Meanwhile other requests of *)
(* the instrument may expire the pair, and every click runs a transaction  *)
(* of its own.  What follows an approval is the subject of OrderSubmission.*)
(*                                                                         *)
(* One element of Req is one call of requestApproval that got as far as    *)
(* looking at the database.  Time is counted in abstract ticks.            *)
(***************************************************************************)
EXTENDS Integers

CONSTANTS
  Req,           \* calls of requestApproval
  Instrument,    \* (broker, market, exchange, stock)
  InstrumentOf,  \* the instrument of a request
  Click,         \* decisions that may be in progress at once
  Provisional,   \* PROVISIONAL_APPROVAL_MINUTES: the lease before delivery
  Validity,      \* APPROVAL_VALIDITY_MINUTES: the lease after delivery
  Cooldown,      \* SUCCESSFUL_NOTIFICATION_COOLDOWN_MINUTES
  MaxClock,      \* bound on the clock
  NoReq          \* the request of an idle click

ASSUME InstrumentAssumption == InstrumentOf \in [Req -> Instrument]
ASSUME NoReqAssumption == NoReq \notin Req
ASSUME LeaseAssumption == /\ Provisional \in Nat /\ Validity \in Nat
                          /\ Cooldown \in Nat /\ MaxClock \in Nat

VARIABLES
  clock,
  approval,     \* StopLossApproval.status ("None": no row yet)
  trade,        \* TradeRecord.status of the pair
  requestedAt, expiresAt, notifiedAt, respondedAt,  \* columns of the approval
  sentAt,       \* when Slack posted the message with the buttons
  pc,           \* where the call of requestApproval stands
  click         \* decisions in progress

times == <<requestedAt, expiresAt, notifiedAt, respondedAt>>
vars  == <<clock, approval, trade, requestedAt, expiresAt, notifiedAt, respondedAt,
           sentAt, pc, click>>

Never == -1
Time  == Nat \cup {Never}

\* SETTLED stands for every status a submission may end in.
Approval   == {"None", "PENDING", "APPROVED", "REJECTED", "EXPIRED"}
Trade      == {"None", "AWAITING_APPROVAL", "SUBMITTING", "CANCELLED", "SETTLED"}
Unresolved == {"AWAITING_APPROVAL", "SUBMITTING"}

IdleClick == [phase |-> "idle", req |-> NoReq, now |-> 0, approve |-> FALSE]

TypeOK == /\ clock \in Nat
          /\ approval \in [Req -> Approval]
          /\ trade \in [Req -> Trade]
          /\ requestedAt \in [Req -> Nat]
          /\ expiresAt \in [Req -> Nat]
          /\ notifiedAt \in [Req -> Time]
          /\ respondedAt \in [Req -> Time]
          /\ sentAt \in [Req -> Time]
          /\ pc \in [Req -> {"idle", "expiring", "admitting", "sending", "delivered",
                             "undelivered", "done"}]
          /\ click \in [Click -> [phase : {"idle", "expiring", "claiming", "executing"},
                                  req : Req \cup {NoReq}, now : Nat, approve : BOOLEAN]]

Init == /\ clock = 0
        /\ approval = [r \in Req |-> "None"]
        /\ trade = [r \in Req |-> "None"]
        /\ requestedAt = [r \in Req |-> 0]
        /\ expiresAt = [r \in Req |-> 0]
        /\ notifiedAt = [r \in Req |-> Never]
        /\ respondedAt = [r \in Req |-> Never]
        /\ sentAt = [r \in Req |-> Never]
        /\ pc = [r \in Req |-> "idle"]
        /\ click = [c \in Click |-> IdleClick]

-----------------------------------------------------------------------------
(* Conditions and updates the database evaluates. *)

SameInstrument(q, r) == InstrumentOf[q] = InstrumentOf[r]

\* The where clause of admit: an unresolved trade record of the instrument.
Blocked(r) == \E q \in Req : SameInstrument(q, r) /\ trade[q] \in Unresolved

\* Mutant of CoolingDown: the cooldown is counted from the request, not from
\* the delivery of the message.
CoolingDownSinceRequest(r) == \E q \in Req : /\ SameInstrument(q, r)
                                            /\ notifiedAt[q] # Never
                                            /\ requestedAt[q] > requestedAt[r] - Cooldown

\* A message of the instrument was delivered less than a cooldown ago.
CoolingDown(r) == \E q \in Req : /\ SameInstrument(q, r)
                                 /\ notifiedAt[q] # Never
                                 /\ notifiedAt[q] > requestedAt[r] - Cooldown

\* The pairs of the instrument whose lease was over when r was called.
Due(r) == {q \in Req : /\ SameInstrument(q, r)
                       /\ approval[q] = "PENDING"
                       /\ expiresAt[q] <= requestedAt[r]}

\* Mutant of Expire: the two statuses are exchanged.
ExpireSwapped(S) == /\ \A q \in S : trade[q] = "AWAITING_APPROVAL"
                    /\ approval' = [q \in Req |-> IF q \in S THEN "CANCELLED" ELSE approval[q]]
                    /\ trade' = [q \in Req |-> IF q \in S THEN "EXPIRED" ELSE trade[q]]

\* Both updates of a pair, or a rollback.
Expire(S) == /\ \A q \in S : trade[q] = "AWAITING_APPROVAL"
             /\ approval' = [q \in Req |-> IF q \in S THEN "EXPIRED" ELSE approval[q]]
             /\ trade' = [q \in Req |-> IF q \in S THEN "CANCELLED" ELSE trade[q]]

Goto(r, from, to) == pc[r] = from /\ pc' = [pc EXCEPT ![r] = to]

-----------------------------------------------------------------------------
(* requestApproval *)

Tick == /\ clock < MaxClock
        /\ clock' = clock + 1
        /\ UNCHANGED <<approval, trade, times, sentAt, pc, click>>

CallRequest(r) ==
  /\ Goto(r, "idle", "expiring")
  /\ requestedAt' = [requestedAt EXCEPT ![r] = clock]
  /\ UNCHANGED <<clock, approval, trade, expiresAt, notifiedAt, respondedAt, sentAt, click>>

ExpireDue(r) ==
  /\ Goto(r, "expiring", "admitting")
  /\ Expire(Due(r))
  /\ UNCHANGED <<clock, times, sentAt, click>>

AdmitRequest(r) ==
  /\ pc[r] = "admitting"
  /\ IF Blocked(r) \/ CoolingDown(r)
     THEN /\ pc' = [pc EXCEPT ![r] = "done"]
          /\ UNCHANGED <<approval, trade, expiresAt>>
     ELSE /\ pc' = [pc EXCEPT ![r] = "sending"]
          /\ approval' = [approval EXCEPT ![r] = "PENDING"]
          /\ trade' = [trade EXCEPT ![r] = "AWAITING_APPROVAL"]
          /\ expiresAt' = [expiresAt EXCEPT ![r] = requestedAt[r] + Provisional]
  /\ UNCHANGED <<clock, requestedAt, notifiedAt, respondedAt, sentAt, click>>

\* Slack posts the message; its answer may be lost or carry no valid timestamp.
SlackPosts(r) ==
  /\ pc[r] = "sending"
  /\ sentAt' = [sentAt EXCEPT ![r] = clock]
  /\ pc' \in {[pc EXCEPT ![r] = to] : to \in {"delivered", "undelivered"}}
  /\ UNCHANGED <<clock, approval, trade, times, click>>

\* Slack is disabled, or refuses the message.
SlackFails(r) ==
  /\ Goto(r, "sending", "undelivered")
  /\ UNCHANGED <<clock, approval, trade, times, sentAt, click>>

\* The delivery is stored only on a pair that is pending and within its lease.
Finalize(r) ==
  /\ pc[r] = "delivered"
  /\ IF approval[r] = "PENDING" /\ expiresAt[r] > clock
     THEN /\ pc' = [pc EXCEPT ![r] = "done"]
          /\ notifiedAt' = [notifiedAt EXCEPT ![r] = sentAt[r]]
          /\ expiresAt' = [expiresAt EXCEPT ![r] = sentAt[r] + Validity]
     ELSE /\ pc' = [pc EXCEPT ![r] = "undelivered"]
          /\ UNCHANGED <<notifiedAt, expiresAt>>
  /\ UNCHANGED <<clock, approval, trade, requestedAt, respondedAt, sentAt, click>>

\* expireApprovalPair
ExpireUndelivered(r) ==
  /\ Goto(r, "undelivered", "done")
  /\ IF approval[r] = "PENDING" THEN Expire({r}) ELSE UNCHANGED <<approval, trade>>
  /\ UNCHANGED <<clock, times, sentAt, click>>

\* A database error ends the call, or a transaction of it rolls back.
RequestDies(r) ==
  /\ pc[r] \in {"expiring", "admitting", "delivered", "undelivered"}
  /\ pc' = [pc EXCEPT ![r] = "done"]
  /\ UNCHANGED <<clock, approval, trade, times, sentAt, click>>

-----------------------------------------------------------------------------
(* decide: a transaction that reads the pair and then claims it. *)

ClickTo(c, new) == click' = [click EXCEPT ![c] = new]

\* Mutant of ReadPair: it does not matter whether the delivery was stored.
ReadPairUndelivered(c, r, a) ==
  /\ click[c] = IdleClick
  /\ sentAt[r] # Never
  /\ approval[r] = "PENDING" /\ trade[r] = "AWAITING_APPROVAL"
  /\ ClickTo(c, [phase |-> IF expiresAt[r] <= clock THEN "expiring" ELSE "claiming",
                 req |-> r, now |-> clock, approve |-> a])
  /\ UNCHANGED <<clock, approval, trade, times, sentAt, pc>>

\* The buttons stay in the message, whatever became of the pair.  A pair that
\* is not pending any more, a delivery that was not stored and, for an approval,
\* a failed check of switch, broker or context end the decision without a step.
ReadPair(c, r, a) ==
  /\ click[c] = IdleClick
  /\ sentAt[r] # Never
  /\ approval[r] = "PENDING" /\ trade[r] = "AWAITING_APPROVAL"
  /\ expiresAt[r] <= clock \/ notifiedAt[r] # Never
  /\ ClickTo(c, [phase |-> IF expiresAt[r] <= clock THEN "expiring" ELSE "claiming",
                 req |-> r, now |-> clock, approve |-> a])
  /\ UNCHANGED <<clock, approval, trade, times, sentAt, pc>>

ExpireClicked(c) ==
  LET r == click[c].req IN
  /\ click[c].phase = "expiring"
  /\ IF approval[r] = "PENDING" /\ expiresAt[r] <= click[c].now
     THEN Expire({r}) ELSE UNCHANGED <<approval, trade>>
  /\ ClickTo(c, IdleClick)
  /\ UNCHANGED <<clock, times, sentAt, pc>>

\* Mutant of ClaimPair: the decision trusts the pair it has read.
ClaimPairAsRead(c) ==
  LET r == click[c].req IN
  /\ click[c].phase = "claiming"
  /\ approval' = [approval EXCEPT ![r] = IF click[c].approve THEN "APPROVED" ELSE "REJECTED"]
  /\ trade' = [trade EXCEPT ![r] = IF click[c].approve THEN "SUBMITTING" ELSE "CANCELLED"]
  /\ respondedAt' = [respondedAt EXCEPT ![r] = click[c].now]
  /\ ClickTo(c, IF click[c].approve THEN [click[c] EXCEPT !.phase = "executing"] ELSE IdleClick)
  /\ UNCHANGED <<clock, requestedAt, expiresAt, notifiedAt, sentAt, pc>>

\* Mutant of ClaimPair: the loser of the approval does not roll back.
ClaimPairHalf(c) ==
  LET r == click[c].req IN
  /\ click[c].phase = "claiming"
  /\ trade' = [trade EXCEPT ![r] = IF click[c].approve THEN "SUBMITTING" ELSE "CANCELLED"]
  /\ IF approval[r] = "PENDING" /\ expiresAt[r] > click[c].now
     THEN /\ approval' = [approval EXCEPT ![r] = IF click[c].approve THEN "APPROVED" ELSE "REJECTED"]
          /\ respondedAt' = [respondedAt EXCEPT ![r] = click[c].now]
     ELSE UNCHANGED <<approval, respondedAt>>
  /\ ClickTo(c, IdleClick)
  /\ UNCHANGED <<clock, requestedAt, expiresAt, notifiedAt, sentAt, pc>>

\* The conditional updates of both rows; a loser rolls back.
ClaimPair(c) ==
  LET r == click[c].req IN
  /\ click[c].phase = "claiming"
  /\ IF /\ approval[r] = "PENDING" /\ expiresAt[r] > click[c].now
        /\ trade[r] = "AWAITING_APPROVAL"
     THEN /\ approval' = [approval EXCEPT ![r] = IF click[c].approve THEN "APPROVED" ELSE "REJECTED"]
          /\ trade' = [trade EXCEPT ![r] = IF click[c].approve THEN "SUBMITTING" ELSE "CANCELLED"]
          /\ respondedAt' = [respondedAt EXCEPT ![r] = click[c].now]
          /\ ClickTo(c, IF click[c].approve THEN [click[c] EXCEPT !.phase = "executing"] ELSE IdleClick)
     ELSE /\ UNCHANGED <<approval, trade, respondedAt>>
          /\ ClickTo(c, IdleClick)
  /\ UNCHANGED <<clock, requestedAt, expiresAt, notifiedAt, sentAt, pc>>

\* The flow that executes the approval ends, or a decision is cut short.
ClickEnds(c) == /\ click[c] # IdleClick
                /\ ClickTo(c, IdleClick)
                /\ UNCHANGED <<clock, approval, trade, times, sentAt, pc>>

\* The submission of an approved sell runs to some end (OrderSubmission).
SubmissionEnds(r) == /\ trade[r] = "SUBMITTING"
                     /\ trade' = [trade EXCEPT ![r] = "SETTLED"]
                     /\ UNCHANGED <<clock, approval, times, sentAt, pc, click>>

Crash == /\ pc' = [r \in Req |-> IF pc[r] = "idle" THEN "idle" ELSE "done"]
         /\ click' = [c \in Click |-> IdleClick]
         /\ UNCHANGED <<clock, approval, trade, times, sentAt>>

-----------------------------------------------------------------------------
RequestStep(r) == \/ CallRequest(r) \/ ExpireDue(r) \/ AdmitRequest(r)
                  \/ SlackPosts(r) \/ SlackFails(r) \/ Finalize(r)
                  \/ ExpireUndelivered(r) \/ RequestDies(r)

ClickStep(c) == \/ \E r \in Req, a \in BOOLEAN : ReadPair(c, r, a)
                \/ ExpireClicked(c) \/ ClaimPair(c) \/ ClickEnds(c)

Next == \/ Tick \/ Crash
        \/ \E r \in Req : RequestStep(r) \/ SubmissionEnds(r)
        \/ \E c \in Click : ClickStep(c)

Spec == Init /\ [][Next]_vars

-----------------------------------------------------------------------------
(* Safety. *)

\* The two rows of a pair never disagree, whoever expires, decides or delivers
\* while another transaction is between its read and its update.
PairConsistent ==
  \A r \in Req : /\ approval[r] = "PENDING" <=> trade[r] = "AWAITING_APPROVAL"
                 /\ approval[r] = "APPROVED" <=> trade[r] \in {"SUBMITTING", "SETTLED"}
                 /\ approval[r] \in {"REJECTED", "EXPIRED"} <=> trade[r] = "CANCELLED"

\* Only one click ever executes an approval, however often and by however many
\* hands the button is pressed.
OneExecution ==
  \A c, d \in Click : /\ click[c].phase = "executing" /\ click[d].phase = "executing"
                      /\ click[c].req = click[d].req
                      => c = d

\* A sell is approved or rejected only after its message was delivered and
\* that delivery stored, within the lease counted from the message.
DecidedWithinLease ==
  \A r \in Req : approval[r] \in {"APPROVED", "REJECTED"}
                 => /\ notifiedAt[r] # Never
                    /\ notifiedAt[r] <= respondedAt[r]
                    /\ respondedAt[r] < notifiedAt[r] + Validity

\* Two messages of an instrument that count as delivered lie a cooldown apart,
\* although a request reads the clock long before it is admitted.
CooldownKept ==
  \A q, r \in Req : /\ SameInstrument(q, r) /\ q # r
                    /\ notifiedAt[q] # Never /\ notifiedAt[r] # Never
                    => \/ notifiedAt[q] + Cooldown <= notifiedAt[r]
                       \/ notifiedAt[r] + Cooldown <= notifiedAt[q]

\* A decision is final: no late delivery, expiry or second click changes it.
DecisionIsFinal ==
  [][\A r \in Req : approval[r] \in {"APPROVED", "REJECTED", "EXPIRED"}
                    => approval'[r] = approval[r] /\ notifiedAt'[r] = notifiedAt[r]
                       /\ respondedAt'[r] = respondedAt[r]]_vars
=============================================================================
