--------------------------- MODULE OrderSubmission ---------------------------
(***************************************************************************)
(* The life of a trade record from admission to a decided submission.      *)
(*                                                                         *)
(* A record is one order intent.  It is admitted under an advisory lock    *)
(* on its key (broker, market, exchange, stock, side), claimed by writing  *)
(* submissionStartedAt, POSTed once to the broker, and its answer is       *)
(* written back by a conditional update.  The three services that do so    *)
(* (automatic, manual and approved orders) share one shape and differ in   *)
(* how they start and in one extra check, so they share these actions.     *)
(*                                                                         *)
(* A flow is the in-memory continuation of one service call: pc[r] is the  *)
(* point it has reached between two awaits, and it is lost on a crash.     *)
(* The order a record POSTs is named by the record itself: order[r] is     *)
(* that order at the broker, and orderNo[r] is the order the row names.    *)
(*                                                                         *)
(* The outcome of a check (live switch, broker active, broker context,     *)
(* position refresh, holding) is an input: either branch may be taken.     *)
(***************************************************************************)
EXTENDS Naturals

CONSTANTS AutoRec,       \* records created by the automatic order service
          ManualRec,     \* records created by a manual sell
          ApprovedRec,   \* records created for a Slack-approved sell
          Key,        \* admission keys
          KeyOf,      \* the key of a record
          Operator,   \* recovery requests that may be in progress at once
          NoOrder     \* an empty orderNo

Rec == AutoRec \cup ManualRec \cup ApprovedRec

ASSUME KeyAssumption      == KeyOf \in [Rec -> Key]
ASSUME NoOrderAssumption  == NoOrder \notin Rec
ASSUME KindsAssumption    == /\ AutoRec \cap ManualRec = {}
                             /\ AutoRec \cap ApprovedRec = {}
                             /\ ManualRec \cap ApprovedRec = {}

VARIABLES
  status,      \* TradeRecord.status ("None": no row yet)
  started,     \* TradeRecord.submissionStartedAt is set
  orderNo,     \* TradeRecord.orderNo
  resolution,  \* TradeRecord.submissionResolution
  pc,          \* where the flow of a record stands
  order,       \* the order the record POSTed, at the broker
  boot,        \* phase of the process
  stale,       \* rows the takeover read and has not handled: claimed ones ...
  staleUnsent, \* ... and those with no submissionStartedAt
  op           \* recovery requests in progress

rowVars   == <<status, started, orderNo, resolution>>
bootVars  == <<boot, stale, staleUnsent>>
vars      == <<status, started, orderNo, resolution, pc, order, boot, stale,
               staleUnsent, op>>

\* PENDING is also PARTIAL with an orderNo, which admission treats alike;
\* SETTLED is any status that ends a known order (FILLED, CANCELLED, FAILED, or
\* PARTIAL without an orderNo), so CANCELLED here was cancelled before its POST.
Status == {"None", "AWAITING_APPROVAL", "SUBMITTING", "SUBMISSION_UNKNOWN",
           "PENDING", "SETTLED", "CANCELLED", "FAILED"}
Unresolved == {"AWAITING_APPROVAL", "SUBMITTING", "SUBMISSION_UNKNOWN", "PENDING"}
Resolution == {"none", "LINKED_BROKER_ORDER", "CONFIRMED_NOT_SUBMITTED",
               "MATCHED_EXISTING_TRADE_RECORD"}
Pc == {"idle", "refreshing", "aborting", "claiming", "claimed", "logging",
       "unclaiming", "submitting", "awaiting", "accepted", "rejected",
       "unknown", "done"}
OrderState == {"none", "sent", "live", "finished", "rejected"}
Boot == {"down", "starting", "takeover", "ready", "failed"}

IdleOp == [phase |-> "idle", rec |-> NoOrder, seen |-> {}, taken |-> {}]
OpState == [phase : {"idle", "read", "checked"}, rec : Rec \cup {NoOrder},
            seen : SUBSET Rec, taken : SUBSET Rec]

TypeOK == /\ status \in [Rec -> Status]
          /\ started \in [Rec -> BOOLEAN]
          /\ orderNo \in [Rec -> Rec \cup {NoOrder}]
          /\ resolution \in [Rec -> Resolution]
          /\ pc \in [Rec -> Pc]
          /\ order \in [Rec -> OrderState]
          /\ boot \in Boot
          /\ stale \subseteq Rec
          /\ staleUnsent \subseteq Rec
          /\ op \in [Operator -> OpState]

Init == /\ status = [r \in Rec |-> "None"]
        /\ started = [r \in Rec |-> FALSE]
        /\ orderNo = [r \in Rec |-> NoOrder]
        /\ resolution = [r \in Rec |-> "none"]
        /\ pc = [r \in Rec |-> "idle"]
        /\ order = [r \in Rec |-> "none"]
        /\ boot = "down"
        /\ stale = {}
        /\ staleUnsent = {}
        /\ op = [o \in Operator |-> IdleOp]

-----------------------------------------------------------------------------
(* Conditions the database evaluates. *)

\* Mutants of Blocked: an admission that misses one unresolved status.
BlockedNoApproval(k) == \E q \in Rec : KeyOf[q] = k /\ status[q] \in Unresolved \ {"AWAITING_APPROVAL"}
BlockedNoUnknown(k)  == \E q \in Rec : KeyOf[q] = k /\ status[q] \in Unresolved \ {"SUBMISSION_UNKNOWN"}

\* The where clause of admit: a row of the key that is still unresolved.
Blocked(k) == \E q \in Rec : KeyOf[q] = k /\ status[q] \in Unresolved

\* The where clauses of the conditional updates on a row being submitted.
PreSubmit(r) == status[r] = "SUBMITTING" /\ ~started[r]
Claimed(r)   == status[r] = "SUBMITTING" /\ started[r]

\* Mutant of LinkedElsewhere: only open rows are searched.
LinkedToOpenRow(r, s) == \E q \in Rec \ {r} : orderNo[q] = s /\ status[q] = "PENDING"

\* Another row names order s: the collision check and the unique index.
LinkedElsewhere(r, s) == \E q \in Rec \ {r} : orderNo[q] = s

\* An operator declared that the row does not own the order it POSTed.
Disowned(r) == \/ resolution[r] \in {"CONFIRMED_NOT_SUBMITTED", "MATCHED_EXISTING_TRADE_RECORD"}
               \/ resolution[r] = "LINKED_BROKER_ORDER" /\ orderNo[r] # r

Up == boot # "down"

Goto(r, from, to) == pc[r] = from /\ pc' = [pc EXCEPT ![r] = to]

-----------------------------------------------------------------------------
(* Admission and approval. *)

\* The admission transaction: refused (no step) while the key is blocked.
Admit(r, st) == /\ status[r] = "None"
                /\ ~Blocked(KeyOf[r])
                /\ status' = [status EXCEPT ![r] = st]
                /\ UNCHANGED <<started, orderNo, resolution, order, bootVars, op>>

\* Cron callbacks run only after a successful takeover.
AdmitAuto(r) == /\ r \in AutoRec
                /\ boot = "ready"
                /\ Admit(r, "SUBMITTING")
                /\ Goto(r, "idle", "refreshing")

\* HTTP is served once the module initialisation ended, well or badly.
AdmitManual(r) == /\ r \in ManualRec
                  /\ boot \in {"ready", "failed"}
                  /\ Admit(r, "SUBMITTING")
                  /\ Goto(r, "idle", "refreshing")

RequestApproval(r) == /\ r \in ApprovedRec
                      /\ boot = "ready"
                      /\ Admit(r, "AWAITING_APPROVAL")
                      /\ UNCHANGED pc

\* The winner of the approval transaction; Slack is served from the start.
Approve(r) == /\ Up
              /\ r \in ApprovedRec
              /\ status[r] = "AWAITING_APPROVAL"
              /\ status' = [status EXCEPT ![r] = "SUBMITTING"]
              /\ Goto(r, "idle", "refreshing")
              /\ UNCHANGED <<started, orderNo, resolution, order, bootVars, op>>

\* Rejected by the approver, expired, or never delivered.
Decline(r) == /\ Up
              /\ r \in ApprovedRec
              /\ status[r] = "AWAITING_APPROVAL"
              /\ status' = [status EXCEPT ![r] = "CANCELLED"]
              /\ UNCHANGED <<started, orderNo, resolution, pc, order, bootVars, op>>

-----------------------------------------------------------------------------
(* From the position refresh to the POST. *)

FlowOnly == UNCHANGED <<rowVars, order, bootVars, op>>

PassChecks(r) == Goto(r, "refreshing", "claiming") /\ FlowOnly
FailChecks(r) == Goto(r, "refreshing", "aborting") /\ FlowOnly

\* cancelPreSubmit: a conditional update that may find the row changed.
CancelPreSubmit(r) ==
  /\ Goto(r, "aborting", "done")
  /\ status' = IF PreSubmit(r) THEN [status EXCEPT ![r] = "CANCELLED"] ELSE status
  /\ UNCHANGED <<started, orderNo, resolution, order, bootVars, op>>

Claim(r) ==
  /\ pc[r] = "claiming"
  /\ IF PreSubmit(r)
     THEN /\ started' = [started EXCEPT ![r] = TRUE]
          /\ pc' = [pc EXCEPT ![r] = "claimed"]
     ELSE /\ pc' = [pc EXCEPT ![r] = "done"]
          /\ UNCHANGED started
  /\ UNCHANGED <<status, orderNo, resolution, order, bootVars, op>>

\* The approved flow awaits a log write and then checks a second time.
PassRecheck(r) == /\ \/ r \in ApprovedRec /\ Goto(r, "claimed", "logging")
                     \/ r \notin ApprovedRec /\ Goto(r, "claimed", "submitting")
                     \/ Goto(r, "logging", "submitting")
                  /\ FlowOnly
FailRecheck(r) == /\ \/ Goto(r, "claimed", "unclaiming")
                     \/ Goto(r, "logging", "unclaiming")
                  /\ FlowOnly

\* The update is conditional on the flow's own submissionStartedAt; only the
\* winner of Claim writes one, so a set value is its own.
CancelClaimed(r) ==
  /\ Goto(r, "unclaiming", "done")
  /\ IF Claimed(r)
     THEN /\ status' = [status EXCEPT ![r] = "CANCELLED"]
          /\ started' = [started EXCEPT ![r] = FALSE]
     ELSE UNCHANGED <<status, started>>
  /\ UNCHANGED <<orderNo, resolution, order, bootVars, op>>

Post(r) == /\ Goto(r, "submitting", "awaiting")
           /\ order' = [order EXCEPT ![r] = "sent"]
           /\ UNCHANGED <<rowVars, bootVars, op>>

\* The submission fails before the POST leaves: no token, broker inactive.
SetupFails(r) == /\ \/ Goto(r, "submitting", "rejected")
                    \/ Goto(r, "submitting", "unknown")
                 /\ FlowOnly

-----------------------------------------------------------------------------
(* The answer, and what each service writes for it. *)

AnswerAccepted(r) == /\ order[r] \in {"live", "finished"}
                     /\ Goto(r, "awaiting", "accepted")
                     /\ FlowOnly
AnswerRejected(r) == /\ order[r] = "rejected"
                     /\ Goto(r, "awaiting", "rejected")
                     /\ FlowOnly
\* Mutant of AnswerUnknown: the POST is retried.
RetryUnknown(r)   == Goto(r, "awaiting", "submitting") /\ FlowOnly
\* Timeout, lost or malformed response, or one without an order identity.
AnswerUnknown(r)  == Goto(r, "awaiting", "unknown") /\ FlowOnly

\* Mutant of SaveAccepted: the row may have been taken over in between.
SaveAcceptedLate(r) ==
  /\ Goto(r, "accepted", "done")
  /\ IF status[r] \in {"SUBMITTING", "SUBMISSION_UNKNOWN"} /\ ~LinkedElsewhere(r, r)
     THEN /\ status' = [status EXCEPT ![r] = "PENDING"]
          /\ orderNo' = [orderNo EXCEPT ![r] = r]
     ELSE UNCHANGED <<status, orderNo>>
  /\ UNCHANGED <<started, resolution, order, bootVars, op>>

SaveAccepted(r) ==
  /\ Goto(r, "accepted", "done")
  /\ IF Claimed(r) /\ ~LinkedElsewhere(r, r)
     THEN /\ status' = [status EXCEPT ![r] = "PENDING"]
          /\ orderNo' = [orderNo EXCEPT ![r] = r]
     ELSE UNCHANGED <<status, orderNo>>
  /\ UNCHANGED <<started, resolution, order, bootVars, op>>

\* Mutant of SaveRejected: the outcome's name is stored as the status.
SaveRejectedVerbatim(r) ==
  /\ Goto(r, "rejected", "done")
  /\ status' = IF Claimed(r) THEN [status EXCEPT ![r] = "REJECTED"] ELSE status
  /\ UNCHANGED <<started, orderNo, resolution, order, bootVars, op>>

SaveRejected(r) ==
  /\ Goto(r, "rejected", "done")
  /\ status' = IF Claimed(r) THEN [status EXCEPT ![r] = "FAILED"] ELSE status
  /\ UNCHANGED <<started, orderNo, resolution, order, bootVars, op>>

\* Mutant of SaveUnknown: an answer that never came is taken for a failure.
SaveUnknownAsFailed(r) ==
  /\ Goto(r, "unknown", "done")
  /\ status' = IF Claimed(r) THEN [status EXCEPT ![r] = "FAILED"] ELSE status
  /\ UNCHANGED <<started, orderNo, resolution, order, bootVars, op>>

\* markSubmissionUnknown
SaveUnknown(r) ==
  /\ Goto(r, "unknown", "done")
  /\ status' = IF Claimed(r) THEN [status EXCEPT ![r] = "SUBMISSION_UNKNOWN"] ELSE status
  /\ UNCHANGED <<started, orderNo, resolution, order, bootVars, op>>

\* A database or log call throws where nothing catches it (the three tries of
\* persistAccepted included): the flow ends and the row stays as it is.
FlowDies(r) ==
  /\ pc[r] \in {"refreshing", "aborting", "claiming", "claimed", "logging",
                "unclaiming", "accepted", "rejected", "unknown"}
  /\ pc' = [pc EXCEPT ![r] = "done"]
  /\ FlowOnly

-----------------------------------------------------------------------------
(* The broker, which may act on a request long after the client gave up. *)

BrokerMoves(r, from, to) == /\ order[r] = from
                            /\ order' = [order EXCEPT ![r] = to]
                            /\ UNCHANGED <<rowVars, pc, bootVars, op>>

BrokerAccepts(r)  == BrokerMoves(r, "sent", "live")
BrokerRejects(r)  == BrokerMoves(r, "sent", "rejected")
BrokerFinishes(r) == BrokerMoves(r, "live", "finished")

\* Reconciliation finds the order finished at the broker.  How it finds out,
\* and where it can be wrong, is the subject of OpenOrder.
Settle(r) ==
  /\ boot = "ready"
  /\ status[r] = "PENDING"
  /\ orderNo[r] # NoOrder
  /\ order[orderNo[r]] = "finished"
  /\ status' = [status EXCEPT ![r] = "SETTLED"]
  /\ UNCHANGED <<started, orderNo, resolution, pc, order, bootVars, op>>

-----------------------------------------------------------------------------
(* Crash, start and the cold-start takeover. *)

Crash == /\ Up
         /\ boot' = "down"
         /\ stale' = {}
         /\ staleUnsent' = {}
         /\ pc' = [r \in Rec |-> "idle"]
         /\ op' = [o \in Operator |-> IdleOp]
         /\ UNCHANGED <<rowVars, order>>

Start == /\ boot = "down"
         /\ boot' = "starting"
         /\ UNCHANGED <<rowVars, pc, order, stale, staleUnsent, op>>

\* Mutant of TakeSnapshot: rows that were never claimed are not read.
TakeSnapshotSentOnly == /\ boot = "starting"
                        /\ boot' = "takeover"
                        /\ stale' = {r \in Rec : Claimed(r)}
                        /\ staleUnsent' = {}
                        /\ UNCHANGED <<rowVars, pc, order, op>>

TakeSnapshot == /\ boot = "starting"
                /\ boot' = "takeover"
                /\ stale' = {r \in Rec : Claimed(r)}
                /\ staleUnsent' = {r \in Rec : PreSubmit(r)}
                /\ UNCHANGED <<rowVars, pc, order, op>>

\* Mutant of TakeOverSent: a claimed row is cancelled like an unclaimed one.
TakeOverSentCancels(r) ==
  /\ boot = "takeover"
  /\ r \in stale
  /\ stale' = stale \ {r}
  /\ status' = IF Claimed(r) THEN [status EXCEPT ![r] = "CANCELLED"] ELSE status
  /\ UNCHANGED <<started, orderNo, resolution, pc, order, boot, staleUnsent, op>>

TakeOverSent(r) ==
  /\ boot = "takeover"
  /\ r \in stale
  /\ stale' = stale \ {r}
  /\ status' = IF Claimed(r) THEN [status EXCEPT ![r] = "SUBMISSION_UNKNOWN"] ELSE status
  /\ UNCHANGED <<started, orderNo, resolution, pc, order, boot, staleUnsent, op>>

TakeOverUnsent(r) ==
  /\ boot = "takeover"
  /\ r \in staleUnsent
  /\ staleUnsent' = staleUnsent \ {r}
  /\ status' = IF PreSubmit(r) THEN [status EXCEPT ![r] = "CANCELLED"] ELSE status
  /\ UNCHANGED <<started, orderNo, resolution, pc, order, boot, stale, op>>

RecoveryReady == /\ boot = "takeover"
                 /\ stale = {} /\ staleUnsent = {}
                 /\ boot' = "ready"
                 /\ UNCHANGED <<rowVars, pc, order, stale, staleUnsent, op>>

\* A database error: crons stay blocked, the process goes on serving.
RecoveryFails == /\ boot \in {"starting", "takeover"}
                 /\ boot' = "failed"
                 /\ stale' = {} /\ staleUnsent' = {}
                 /\ UNCHANGED <<rowVars, pc, order, op>>

-----------------------------------------------------------------------------
(* Operator recovery of a SUBMISSION_UNKNOWN row (Slack or web).  The broker *)
(* history read, the collision read and the final update are three steps.   *)

\* The orders of complete broker history that match the row: same key, and in
\* the instance the same quantity and ten-minute window.
Candidates(r) == {s \in Rec : KeyOf[s] = KeyOf[r] /\ order[s] \in {"live", "finished"}}

ReadHistory(o, r) ==
  /\ Up
  /\ op[o] = IdleOp
  /\ status[r] = "SUBMISSION_UNKNOWN"
  /\ op' = [op EXCEPT ![o] = [phase |-> "read", rec |-> r,
                              seen |-> Candidates(r), taken |-> {}]]
  /\ UNCHANGED <<rowVars, pc, order, bootVars>>

ReadCollisions(o) ==
  /\ op[o].phase = "read"
  /\ op[o].seen # {}
  /\ op' = [op EXCEPT ![o] = [phase |-> "checked", rec |-> op[o].rec, seen |-> op[o].seen,
                              taken |-> {s \in op[o].seen : LinkedElsewhere(op[o].rec, s)}]]
  /\ UNCHANGED <<rowVars, pc, order, bootVars>>

\* Mutant of Resolve: the final update names the row only by its id.
ResolveById(o, st, no, res) ==
  LET r == op[o].rec IN
  /\ status' = [status EXCEPT ![r] = st]
  /\ orderNo' = [orderNo EXCEPT ![r] = no]
  /\ resolution' = [resolution EXCEPT ![r] = res]
  /\ op' = [op EXCEPT ![o] = IdleOp]
  /\ UNCHANGED <<started, pc, order, bootVars>>

\* The final conditional update: it wins only on a row still UNKNOWN.
Resolve(o, st, no, res) ==
  LET r == op[o].rec IN
  /\ status[r] = "SUBMISSION_UNKNOWN"
  /\ status' = [status EXCEPT ![r] = st]
  /\ orderNo' = [orderNo EXCEPT ![r] = no]
  /\ resolution' = [resolution EXCEPT ![r] = res]
  /\ op' = [op EXCEPT ![o] = IdleOp]
  /\ UNCHANGED <<started, pc, order, bootVars>>

LinkCandidate(o) ==
  /\ op[o].phase = "checked"
  /\ \E s \in op[o].seen \ op[o].taken :
       /\ ~LinkedElsewhere(op[o].rec, s)
       /\ Resolve(o, "PENDING", s, "LINKED_BROKER_ORDER")

ConfirmNotSubmitted(o) ==
  /\ op[o].phase = "read"
  /\ op[o].seen = {}
  /\ Resolve(o, "FAILED", orderNo[op[o].rec], "CONFIRMED_NOT_SUBMITTED")

ConfirmMatchesExisting(o) ==
  /\ op[o].phase = "checked"
  /\ op[o].taken # {}
  /\ Resolve(o, "FAILED", orderNo[op[o].rec], "MATCHED_EXISTING_TRADE_RECORD")

\* Any failed check, broker or database error, or a lost final update.
OperatorFails(o) ==
  /\ op[o] # IdleOp
  /\ op' = [op EXCEPT ![o] = IdleOp]
  /\ UNCHANGED <<rowVars, pc, order, bootVars>>

-----------------------------------------------------------------------------
Admission(r) == AdmitAuto(r) \/ AdmitManual(r) \/ RequestApproval(r)
                \/ Approve(r) \/ Decline(r)

\* What the running process does next for a flow it has started.
FlowStep(r) == \/ PassChecks(r) \/ FailChecks(r) \/ CancelPreSubmit(r)
               \/ Claim(r) \/ PassRecheck(r) \/ FailRecheck(r) \/ CancelClaimed(r)
               \/ Post(r) \/ SetupFails(r)
               \/ AnswerAccepted(r) \/ AnswerRejected(r) \/ AnswerUnknown(r)
               \/ SaveAccepted(r) \/ SaveRejected(r) \/ SaveUnknown(r)

BrokerStep(r) == BrokerAccepts(r) \/ BrokerRejects(r) \/ BrokerFinishes(r)

TakeoverStep == TakeSnapshot \/ RecoveryReady
                \/ \E r \in Rec : TakeOverSent(r) \/ TakeOverUnsent(r)

OperatorStep(o) == \/ \E r \in Rec : ReadHistory(o, r)
                   \/ ReadCollisions(o) \/ LinkCandidate(o)
                   \/ ConfirmNotSubmitted(o) \/ ConfirmMatchesExisting(o)
                   \/ OperatorFails(o)

Next == \/ \E r \in Rec : \/ Admission(r) \/ FlowStep(r) \/ FlowDies(r)
                          \/ BrokerStep(r) \/ Settle(r)
        \/ \E o \in Operator : OperatorStep(o)
        \/ Crash \/ Start \/ TakeoverStep \/ RecoveryFails

Spec == Init /\ [][Next]_vars

-----------------------------------------------------------------------------
(* Safety. *)

\* The admission guard does its job: never two unresolved records of a key,
\* whatever crashes, takeovers and operators do in between.
OneUnresolvedPerKey ==
  \A q, r \in Rec : /\ status[q] \in Unresolved /\ status[r] \in Unresolved
                    /\ KeyOf[q] = KeyOf[r]
                    => q = r

\* What the guard is for: two orders of a key are never both on their way or
\* working at the broker, unless an operator disowned one of them.
NoDuplicateOrder ==
  \A q, r \in Rec : /\ order[q] \in {"sent", "live"} /\ order[r] \in {"sent", "live"}
                    /\ KeyOf[q] = KeyOf[r] /\ q # r
                    => Disowned(q) \/ Disowned(r)

\* An order that may be working is never forgotten: its record is still
\* unresolved (and names it once PENDING) or an operator disowned it.
NoForgottenOrder ==
  \A r \in Rec : order[r] \in {"sent", "live"} /\ ~Disowned(r)
                 => \/ status[r] \in {"SUBMITTING", "SUBMISSION_UNKNOWN"}
                    \/ status[r] = "PENDING" /\ orderNo[r] = r

\* The claim elects one POST per record, across crashes and restarts.
PostedAtMostOnce == \A r \in Rec : pc[r] = "submitting" => order[r] = "none"

\* A record cancelled before submission has no order, now or later.
CancelledNeverPosted ==
  \A r \in Rec : status[r] = "CANCELLED"
                 => order[r] = "none" /\ pc[r] \notin {"claimed", "logging", "submitting", "awaiting"}

\* Two rows never name the same broker order (the partial unique index and
\* the collision check of the operator's link).
OrderLinkedOnce ==
  \A q, r \in Rec : orderNo[q] = orderNo[r] /\ orderNo[q] # NoOrder => q = r

\* When crons may run, no row is left SUBMITTING by an earlier process: every
\* SUBMITTING row belongs to a flow this process has started.
ReadyMeansTakenOver ==
  boot = "ready" => \A r \in Rec : status[r] = "SUBMITTING" => pc[r] # "idle"

\* SUBMISSION_UNKNOWN is left only through an operator's resolution: a late
\* answer, a retry or a restart never overrides it.
UnknownLeftByOperator ==
  [][\A r \in Rec : status[r] = "SUBMISSION_UNKNOWN" /\ status'[r] # status[r]
                    => resolution'[r] # "none"]_vars

\* An operator's word is final: a second operator, who read the same row before
\* the first one decided, never overwrites the resolution or the linked order.
ResolvedOnce ==
  [][\A r \in Rec : resolution[r] # "none"
                    => resolution'[r] = resolution[r] /\ orderNo'[r] = orderNo[r]]_vars

-----------------------------------------------------------------------------
(* What all of this implements. *)

\* The slot of the abstract specification as the row shows it.
Slot(r) == IF status[r] = "None" THEN "none"
           ELSE IF status[r] \in Unresolved THEN "open"
           ELSE IF Disowned(r) THEN "disowned"
           ELSE "closed"

intentOf == [r \in Rec |-> Slot(r)]

Intent == INSTANCE OrderIntent WITH intent <- intentOf

\* Every step of the services is a step of OrderIntent or invisible to it.
ImplementsIntent == Intent!Spec
=============================================================================
