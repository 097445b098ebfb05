------------------------ MODULE OrderSubmissionProofs ------------------------
(* The inductive invariant of OrderSubmission and its proofs. *)
EXTENDS OrderSubmission, TLAPS

BeforeClaim == {"refreshing", "aborting", "claiming"}
BeforePost  == {"claimed", "logging", "unclaiming", "submitting"}
AfterPost   == {"awaiting", "accepted", "rejected", "unknown"}
Closed      == {"SETTLED", "FAILED"}

\* What the point a flow has reached says of its row and its order.
FlowOK(r) ==
  /\ pc[r] \in BeforeClaim => /\ status[r] \in {"SUBMITTING", "CANCELLED"}
                              /\ ~started[r]
  /\ pc[r] \in BeforePost \cup AfterPost => /\ started[r]
                                            /\ status[r] \notin {"None", "AWAITING_APPROVAL", "CANCELLED"}
  /\ pc[r] \in BeforePost => order[r] = "none"
  /\ pc[r] = "accepted" => order[r] \in {"live", "finished"}
  /\ pc[r] = "rejected" => order[r] \in {"none", "rejected"}

\* What the status of a row says of its other columns, its flow and its order.
RowOK(r) ==
  /\ status[r] = "None" => pc[r] = "idle"
  /\ status[r] = "AWAITING_APPROVAL" => pc[r] = "idle"
  /\ status[r] \in {"None", "AWAITING_APPROVAL", "CANCELLED"} => ~started[r]
  /\ status[r] \in {"SUBMISSION_UNKNOWN", "PENDING", "SETTLED", "FAILED"} => started[r]
  /\ ~started[r] => order[r] = "none"
  /\ status[r] \notin Closed \cup {"PENDING"} => orderNo[r] = NoOrder /\ resolution[r] = "none"
  /\ status[r] = "PENDING" /\ resolution[r] = "none" => orderNo[r] = r
  /\ status[r] = "PENDING" /\ resolution[r] # "none" => resolution[r] = "LINKED_BROKER_ORDER"
  /\ status[r] \in Closed \cup {"PENDING"} /\ ~Disowned(r) =>
        \/ order[r] \in {"live", "finished"} /\ orderNo[r] = r
        \/ order[r] \in {"none", "rejected"} /\ status[r] = "FAILED" /\ pc[r] \in {"idle", "done"}
  /\ status[r] \in Closed /\ ~Disowned(r) => order[r] \notin {"sent", "live"}

\* A named order exists at the broker.
LinkOK(r) == orderNo[r] # NoOrder => order[orderNo[r]] \in {"live", "finished"}

\* A recovery request in progress has seen orders that exist at the broker.
OpOK(o) == /\ op[o] # IdleOp => op[o].rec \in Rec
           /\ op[o].phase = "idle" => op[o] = IdleOp
           /\ \A s \in op[o].seen : order[s] \in {"live", "finished"}

\* Rows left by an earlier process are in the snapshot until handled.
LeftoverOK(r) ==
  status[r] = "SUBMITTING" /\ pc[r] = "idle" =>
    /\ boot # "ready"
    /\ boot = "takeover" => r \in IF started[r] THEN stale ELSE staleUnsent

IInv == /\ TypeOK
        /\ \A r \in Rec : FlowOK(r)
        /\ \A r \in Rec : RowOK(r)
        /\ \A r \in Rec : LinkOK(r)
        /\ \A o \in Operator : OpOK(o)
        /\ \A r \in Rec : LeftoverOK(r)
        /\ OneUnresolvedPerKey
        /\ OrderLinkedOnce
-----------------------------------------------------------------------------
USE DEF Rec, Goto, FlowOnly, rowVars, bootVars, BrokerMoves, Blocked, PreSubmit,
        Claimed, LinkedElsewhere, Disowned, Up, Status, Unresolved, Resolution,
        Pc, OrderState, Boot, OpState, BeforeClaim, BeforePost, AfterPost, Closed

LEMMA AdmitAutoInv == ASSUME NEW r \in Rec, IInv, AdmitAuto(r) PROVE IInv'
<1> USE DEF IInv, TypeOK, AdmitAuto, Admit
<1>1. TypeOK'
  BY SMT
<1>2. (\A q \in Rec : FlowOK(q))'
  BY SMT DEF FlowOK, RowOK
<1>3. (\A q \in Rec : RowOK(q))'
  BY SMT DEF FlowOK, RowOK, LinkOK
<1>4. (\A q \in Rec : LeftoverOK(q))'
  BY SMT DEF FlowOK, RowOK, LeftoverOK
<1>5. OneUnresolvedPerKey'
  BY SMT DEF OneUnresolvedPerKey, RowOK
<1>6. ((\A q \in Rec : LinkOK(q)) /\ (\A o \in Operator : OpOK(o)) /\ OrderLinkedOnce)'
  BY SMT DEF LinkOK, OpOK, OrderLinkedOnce
<1> QED
  BY <1>1, <1>2, <1>3, <1>4, <1>5, <1>6

LEMMA AdmitManualInv == ASSUME NEW r \in Rec, IInv, AdmitManual(r) PROVE IInv'
<1> USE DEF IInv, TypeOK, AdmitManual, Admit
<1>1. TypeOK'
  BY SMT
<1>2. (\A q \in Rec : FlowOK(q))'
  BY SMT DEF FlowOK, RowOK
<1>3. (\A q \in Rec : RowOK(q))'
  BY SMT DEF FlowOK, RowOK, LinkOK
<1>4. (\A q \in Rec : LeftoverOK(q))'
  BY SMT DEF FlowOK, RowOK, LeftoverOK
<1>5. OneUnresolvedPerKey'
  BY SMT DEF OneUnresolvedPerKey, RowOK
<1>6. ((\A q \in Rec : LinkOK(q)) /\ (\A o \in Operator : OpOK(o)) /\ OrderLinkedOnce)'
  BY SMT DEF LinkOK, OpOK, OrderLinkedOnce
<1> QED
  BY <1>1, <1>2, <1>3, <1>4, <1>5, <1>6

LEMMA RequestApprovalInv == ASSUME NEW r \in Rec, IInv, RequestApproval(r) PROVE IInv'
<1> USE DEF IInv, TypeOK, RequestApproval, Admit
<1>1. TypeOK'
  BY SMT
<1>2. (\A q \in Rec : FlowOK(q))'
  BY SMT DEF FlowOK, RowOK
<1>3. (\A q \in Rec : RowOK(q))'
  BY SMT DEF FlowOK, RowOK, LinkOK
<1>4. (\A q \in Rec : LeftoverOK(q))'
  BY SMT DEF FlowOK, RowOK, LeftoverOK
<1>5. OneUnresolvedPerKey'
  BY SMT DEF OneUnresolvedPerKey, RowOK
<1>6. ((\A q \in Rec : LinkOK(q)) /\ (\A o \in Operator : OpOK(o)) /\ OrderLinkedOnce)'
  BY SMT DEF LinkOK, OpOK, OrderLinkedOnce
<1> QED
  BY <1>1, <1>2, <1>3, <1>4, <1>5, <1>6

LEMMA ApproveInv == ASSUME NEW r \in Rec, IInv, Approve(r) PROVE IInv'
<1> USE DEF IInv, TypeOK, Approve
<1>1. TypeOK'
  BY SMT
<1>2. (\A q \in Rec : FlowOK(q))'
  BY SMT DEF FlowOK, RowOK
<1>3. (\A q \in Rec : RowOK(q))'
  BY SMT DEF FlowOK, RowOK, LinkOK
<1>4. (\A q \in Rec : LeftoverOK(q))'
  BY SMT DEF FlowOK, RowOK, LeftoverOK
<1>5. OneUnresolvedPerKey'
  BY SMT DEF OneUnresolvedPerKey, RowOK
<1>6. ((\A q \in Rec : LinkOK(q)) /\ (\A o \in Operator : OpOK(o)) /\ OrderLinkedOnce)'
  BY SMT DEF LinkOK, OpOK, OrderLinkedOnce
<1> QED
  BY <1>1, <1>2, <1>3, <1>4, <1>5, <1>6

LEMMA DeclineInv == ASSUME NEW r \in Rec, IInv, Decline(r) PROVE IInv'
<1> USE DEF IInv, TypeOK, Decline
<1>1. TypeOK'
  BY SMT
<1>2. (\A q \in Rec : FlowOK(q))'
  BY SMT DEF FlowOK, RowOK
<1>3. (\A q \in Rec : RowOK(q))'
  BY SMT DEF FlowOK, RowOK, LinkOK
<1>4. (\A q \in Rec : LeftoverOK(q))'
  BY SMT DEF FlowOK, RowOK, LeftoverOK
<1>5. OneUnresolvedPerKey'
  BY SMT DEF OneUnresolvedPerKey, RowOK
<1>6. ((\A q \in Rec : LinkOK(q)) /\ (\A o \in Operator : OpOK(o)) /\ OrderLinkedOnce)'
  BY SMT DEF LinkOK, OpOK, OrderLinkedOnce
<1> QED
  BY <1>1, <1>2, <1>3, <1>4, <1>5, <1>6

LEMMA PassChecksInv == ASSUME NEW r \in Rec, IInv, PassChecks(r) PROVE IInv'
<1> USE DEF IInv, TypeOK, PassChecks
<1>1. TypeOK'
  BY SMT
<1>2. (\A q \in Rec : FlowOK(q))'
  BY SMT DEF FlowOK, RowOK
<1>3. (\A q \in Rec : RowOK(q))'
  BY SMT DEF FlowOK, RowOK, LinkOK
<1>4. (\A q \in Rec : LeftoverOK(q))'
  BY SMT DEF FlowOK, RowOK, LeftoverOK
<1>5. ((\A q \in Rec : LinkOK(q)) /\ (\A o \in Operator : OpOK(o)) /\ OneUnresolvedPerKey /\ OrderLinkedOnce)'
  BY SMT DEF LinkOK, OpOK, OneUnresolvedPerKey, OrderLinkedOnce
<1> QED
  BY <1>1, <1>2, <1>3, <1>4, <1>5

LEMMA FailChecksInv == ASSUME NEW r \in Rec, IInv, FailChecks(r) PROVE IInv'
<1> USE DEF IInv, TypeOK, FailChecks
<1>1. TypeOK'
  BY SMT
<1>2. (\A q \in Rec : FlowOK(q))'
  BY SMT DEF FlowOK, RowOK
<1>3. (\A q \in Rec : RowOK(q))'
  BY SMT DEF FlowOK, RowOK, LinkOK
<1>4. (\A q \in Rec : LeftoverOK(q))'
  BY SMT DEF FlowOK, RowOK, LeftoverOK
<1>5. ((\A q \in Rec : LinkOK(q)) /\ (\A o \in Operator : OpOK(o)) /\ OneUnresolvedPerKey /\ OrderLinkedOnce)'
  BY SMT DEF LinkOK, OpOK, OneUnresolvedPerKey, OrderLinkedOnce
<1> QED
  BY <1>1, <1>2, <1>3, <1>4, <1>5

LEMMA CancelPreSubmitInv == ASSUME NEW r \in Rec, IInv, CancelPreSubmit(r) PROVE IInv'
<1> USE DEF IInv, TypeOK, CancelPreSubmit
<1>1. TypeOK'
  BY SMT
<1>2. (\A q \in Rec : FlowOK(q))'
  BY SMT DEF FlowOK, RowOK
<1>3. (\A q \in Rec : RowOK(q))'
  BY SMT DEF FlowOK, RowOK, LinkOK
<1>4. (\A q \in Rec : LeftoverOK(q))'
  BY SMT DEF FlowOK, RowOK, LeftoverOK
<1>5. OneUnresolvedPerKey'
  BY SMT DEF OneUnresolvedPerKey, RowOK
<1>6. ((\A q \in Rec : LinkOK(q)) /\ (\A o \in Operator : OpOK(o)) /\ OrderLinkedOnce)'
  BY SMT DEF LinkOK, OpOK, OrderLinkedOnce
<1> QED
  BY <1>1, <1>2, <1>3, <1>4, <1>5, <1>6

LEMMA ClaimInv == ASSUME NEW r \in Rec, IInv, Claim(r) PROVE IInv'
<1> USE DEF IInv, TypeOK, Claim
<1>1. TypeOK'
  <2>1. started' = started \/ started' = [started EXCEPT ![r] = TRUE]
    BY SMT
  <2>2. started' \in [Rec -> BOOLEAN]
    BY <2>1, Zenon
  <2>3. TypeOK' \/ started' \notin [Rec -> BOOLEAN]
    BY SMT
  <2> QED
    BY <2>2, <2>3
<1>2. (\A q \in Rec : FlowOK(q))'
  BY SMT DEF FlowOK, RowOK
<1>3. (\A q \in Rec : RowOK(q))'
  BY SMT DEF FlowOK, RowOK, LinkOK
<1>4. (\A q \in Rec : LeftoverOK(q))'
  BY SMT DEF FlowOK, RowOK, LeftoverOK
<1>5. ((\A q \in Rec : LinkOK(q)) /\ (\A o \in Operator : OpOK(o)) /\ OneUnresolvedPerKey /\ OrderLinkedOnce)'
  BY SMT DEF LinkOK, OpOK, OneUnresolvedPerKey, OrderLinkedOnce
<1> QED
  BY <1>1, <1>2, <1>3, <1>4, <1>5

LEMMA PassRecheckInv == ASSUME NEW r \in Rec, IInv, PassRecheck(r) PROVE IInv'
<1> USE DEF IInv, TypeOK, PassRecheck
<1>1. TypeOK'
  BY SMT
<1>2. (\A q \in Rec : FlowOK(q))'
  BY SMT DEF FlowOK, RowOK
<1>3. (\A q \in Rec : RowOK(q))'
  BY SMT DEF FlowOK, RowOK, LinkOK
<1>4. (\A q \in Rec : LeftoverOK(q))'
  BY SMT DEF FlowOK, RowOK, LeftoverOK
<1>5. ((\A q \in Rec : LinkOK(q)) /\ (\A o \in Operator : OpOK(o)) /\ OneUnresolvedPerKey /\ OrderLinkedOnce)'
  BY SMT DEF LinkOK, OpOK, OneUnresolvedPerKey, OrderLinkedOnce
<1> QED
  BY <1>1, <1>2, <1>3, <1>4, <1>5

LEMMA FailRecheckInv == ASSUME NEW r \in Rec, IInv, FailRecheck(r) PROVE IInv'
<1> USE DEF IInv, TypeOK, FailRecheck
<1>1. TypeOK'
  BY SMT
<1>2. (\A q \in Rec : FlowOK(q))'
  BY SMT DEF FlowOK, RowOK
<1>3. (\A q \in Rec : RowOK(q))'
  BY SMT DEF FlowOK, RowOK, LinkOK
<1>4. (\A q \in Rec : LeftoverOK(q))'
  BY SMT DEF FlowOK, RowOK, LeftoverOK
<1>5. ((\A q \in Rec : LinkOK(q)) /\ (\A o \in Operator : OpOK(o)) /\ OneUnresolvedPerKey /\ OrderLinkedOnce)'
  BY SMT DEF LinkOK, OpOK, OneUnresolvedPerKey, OrderLinkedOnce
<1> QED
  BY <1>1, <1>2, <1>3, <1>4, <1>5

LEMMA CancelClaimedInv == ASSUME NEW r \in Rec, IInv, CancelClaimed(r) PROVE IInv'
<1> USE DEF IInv, TypeOK, CancelClaimed
<1>1. TypeOK'
  <2>1. started' = started \/ started' = [started EXCEPT ![r] = FALSE]
    BY SMT
  <2>2. started' \in [Rec -> BOOLEAN]
    BY <2>1, Zenon
  <2>3. TypeOK' \/ started' \notin [Rec -> BOOLEAN]
    BY SMT
  <2> QED
    BY <2>2, <2>3
<1>2. (\A q \in Rec : FlowOK(q))'
  BY SMT DEF FlowOK, RowOK
<1>3. (\A q \in Rec : RowOK(q))'
  BY SMT DEF FlowOK, RowOK, LinkOK
<1>4. (\A q \in Rec : LeftoverOK(q))'
  BY SMT DEF FlowOK, RowOK, LeftoverOK
<1>5. OneUnresolvedPerKey'
  BY SMT DEF OneUnresolvedPerKey, RowOK
<1>6. ((\A q \in Rec : LinkOK(q)) /\ (\A o \in Operator : OpOK(o)) /\ OrderLinkedOnce)'
  BY SMT DEF LinkOK, OpOK, OrderLinkedOnce
<1> QED
  BY <1>1, <1>2, <1>3, <1>4, <1>5, <1>6

LEMMA PostInv == ASSUME NEW r \in Rec, IInv, Post(r) PROVE IInv'
<1> USE DEF IInv, TypeOK, Post
<1>1. TypeOK'
  BY SMT
<1>2. (\A q \in Rec : FlowOK(q))'
  BY SMT DEF FlowOK, RowOK
<1>3. (\A q \in Rec : RowOK(q))'
  BY SMT DEF FlowOK, RowOK, LinkOK
<1>4. (\A q \in Rec : LinkOK(q))'
  BY SMT DEF FlowOK, RowOK, LinkOK
<1>5. (\A o \in Operator : OpOK(o))'
  <2>1. UNCHANGED op /\ \A s \in Rec : order[s] \in {"live", "finished"} => order'[s] = order[s]
    BY SMT DEF FlowOK
  <2>2. \A o \in Operator : op[o].seen \subseteq Rec
    BY SMT
  <2> QED
    BY <2>1, <2>2, SMT DEF OpOK
<1>6. ((\A q \in Rec : LeftoverOK(q)) /\ OneUnresolvedPerKey /\ OrderLinkedOnce)'
  BY SMT DEF LeftoverOK, OneUnresolvedPerKey, OrderLinkedOnce
<1> QED
  BY <1>1, <1>2, <1>3, <1>4, <1>5, <1>6

LEMMA SetupFailsInv == ASSUME NEW r \in Rec, IInv, SetupFails(r) PROVE IInv'
<1> USE DEF IInv, TypeOK, SetupFails
<1>1. TypeOK'
  BY SMT
<1>2. (\A q \in Rec : FlowOK(q))'
  BY SMT DEF FlowOK, RowOK
<1>3. (\A q \in Rec : RowOK(q))'
  BY SMT DEF FlowOK, RowOK, LinkOK
<1>4. (\A q \in Rec : LeftoverOK(q))'
  BY SMT DEF FlowOK, RowOK, LeftoverOK
<1>5. ((\A q \in Rec : LinkOK(q)) /\ (\A o \in Operator : OpOK(o)) /\ OneUnresolvedPerKey /\ OrderLinkedOnce)'
  BY SMT DEF LinkOK, OpOK, OneUnresolvedPerKey, OrderLinkedOnce
<1> QED
  BY <1>1, <1>2, <1>3, <1>4, <1>5

LEMMA AnswerAcceptedInv == ASSUME NEW r \in Rec, IInv, AnswerAccepted(r) PROVE IInv'
<1> USE DEF IInv, TypeOK, AnswerAccepted
<1>1. TypeOK'
  BY SMT
<1>2. (\A q \in Rec : FlowOK(q))'
  BY SMT DEF FlowOK, RowOK
<1>3. (\A q \in Rec : RowOK(q))'
  BY SMT DEF FlowOK, RowOK, LinkOK
<1>4. (\A q \in Rec : LeftoverOK(q))'
  BY SMT DEF FlowOK, RowOK, LeftoverOK
<1>5. ((\A q \in Rec : LinkOK(q)) /\ (\A o \in Operator : OpOK(o)) /\ OneUnresolvedPerKey /\ OrderLinkedOnce)'
  BY SMT DEF LinkOK, OpOK, OneUnresolvedPerKey, OrderLinkedOnce
<1> QED
  BY <1>1, <1>2, <1>3, <1>4, <1>5

LEMMA AnswerRejectedInv == ASSUME NEW r \in Rec, IInv, AnswerRejected(r) PROVE IInv'
<1> USE DEF IInv, TypeOK, AnswerRejected
<1>1. TypeOK'
  BY SMT
<1>2. (\A q \in Rec : FlowOK(q))'
  BY SMT DEF FlowOK, RowOK
<1>3. (\A q \in Rec : RowOK(q))'
  BY SMT DEF FlowOK, RowOK, LinkOK
<1>4. (\A q \in Rec : LeftoverOK(q))'
  BY SMT DEF FlowOK, RowOK, LeftoverOK
<1>5. ((\A q \in Rec : LinkOK(q)) /\ (\A o \in Operator : OpOK(o)) /\ OneUnresolvedPerKey /\ OrderLinkedOnce)'
  BY SMT DEF LinkOK, OpOK, OneUnresolvedPerKey, OrderLinkedOnce
<1> QED
  BY <1>1, <1>2, <1>3, <1>4, <1>5

LEMMA AnswerUnknownInv == ASSUME NEW r \in Rec, IInv, AnswerUnknown(r) PROVE IInv'
<1> USE DEF IInv, TypeOK, AnswerUnknown
<1>1. TypeOK'
  BY SMT
<1>2. (\A q \in Rec : FlowOK(q))'
  BY SMT DEF FlowOK, RowOK
<1>3. (\A q \in Rec : RowOK(q))'
  BY SMT DEF FlowOK, RowOK, LinkOK
<1>4. (\A q \in Rec : LeftoverOK(q))'
  BY SMT DEF FlowOK, RowOK, LeftoverOK
<1>5. ((\A q \in Rec : LinkOK(q)) /\ (\A o \in Operator : OpOK(o)) /\ OneUnresolvedPerKey /\ OrderLinkedOnce)'
  BY SMT DEF LinkOK, OpOK, OneUnresolvedPerKey, OrderLinkedOnce
<1> QED
  BY <1>1, <1>2, <1>3, <1>4, <1>5

LEMMA SaveAcceptedInv == ASSUME NEW r \in Rec, IInv, SaveAccepted(r) PROVE IInv'
<1> USE DEF IInv, TypeOK, SaveAccepted
<1>1. TypeOK'
  BY SMT
<1>2. (\A q \in Rec : FlowOK(q))'
  BY SMT DEF FlowOK, RowOK
<1>3. (\A q \in Rec : RowOK(q))'
  BY SMT DEF FlowOK, RowOK, LinkOK
<1>4. (\A q \in Rec : LinkOK(q))'
  BY SMT DEF FlowOK, RowOK, LinkOK
<1>5. (\A q \in Rec : LeftoverOK(q))'
  BY SMT DEF FlowOK, RowOK, LeftoverOK
<1>6. OneUnresolvedPerKey'
  BY SMT DEF OneUnresolvedPerKey, RowOK
<1>7. OrderLinkedOnce'
  BY SMT DEF OrderLinkedOnce, RowOK
<1>8. ((\A o \in Operator : OpOK(o)))'
  BY SMT DEF OpOK
<1> QED
  BY <1>1, <1>2, <1>3, <1>4, <1>5, <1>6, <1>7, <1>8

LEMMA SaveRejectedInv == ASSUME NEW r \in Rec, IInv, SaveRejected(r) PROVE IInv'
<1> USE DEF IInv, TypeOK, SaveRejected
<1>1. TypeOK'
  BY SMT
<1>2. (\A q \in Rec : FlowOK(q))'
  BY SMT DEF FlowOK, RowOK
<1>3. (\A q \in Rec : RowOK(q))'
  BY SMT DEF FlowOK, RowOK, LinkOK
<1>4. (\A q \in Rec : LeftoverOK(q))'
  BY SMT DEF FlowOK, RowOK, LeftoverOK
<1>5. OneUnresolvedPerKey'
  BY SMT DEF OneUnresolvedPerKey, RowOK
<1>6. ((\A q \in Rec : LinkOK(q)) /\ (\A o \in Operator : OpOK(o)) /\ OrderLinkedOnce)'
  BY SMT DEF LinkOK, OpOK, OrderLinkedOnce
<1> QED
  BY <1>1, <1>2, <1>3, <1>4, <1>5, <1>6

LEMMA SaveUnknownInv == ASSUME NEW r \in Rec, IInv, SaveUnknown(r) PROVE IInv'
<1> USE DEF IInv, TypeOK, SaveUnknown
<1>1. TypeOK'
  BY SMT
<1>2. (\A q \in Rec : FlowOK(q))'
  BY SMT DEF FlowOK, RowOK
<1>3. (\A q \in Rec : RowOK(q))'
  BY SMT DEF FlowOK, RowOK, LinkOK
<1>4. (\A q \in Rec : LeftoverOK(q))'
  BY SMT DEF FlowOK, RowOK, LeftoverOK
<1>5. OneUnresolvedPerKey'
  BY SMT DEF OneUnresolvedPerKey, RowOK
<1>6. ((\A q \in Rec : LinkOK(q)) /\ (\A o \in Operator : OpOK(o)) /\ OrderLinkedOnce)'
  BY SMT DEF LinkOK, OpOK, OrderLinkedOnce
<1> QED
  BY <1>1, <1>2, <1>3, <1>4, <1>5, <1>6

LEMMA FlowDiesInv == ASSUME NEW r \in Rec, IInv, FlowDies(r) PROVE IInv'
<1> USE DEF IInv, TypeOK, FlowDies
<1>1. TypeOK'
  BY SMT
<1>2. (\A q \in Rec : FlowOK(q))'
  BY SMT DEF FlowOK, RowOK
<1>3. (\A q \in Rec : RowOK(q))'
  BY SMT DEF FlowOK, RowOK, LinkOK
<1>4. (\A q \in Rec : LeftoverOK(q))'
  BY SMT DEF FlowOK, RowOK, LeftoverOK
<1>5. ((\A q \in Rec : LinkOK(q)) /\ (\A o \in Operator : OpOK(o)) /\ OneUnresolvedPerKey /\ OrderLinkedOnce)'
  BY SMT DEF LinkOK, OpOK, OneUnresolvedPerKey, OrderLinkedOnce
<1> QED
  BY <1>1, <1>2, <1>3, <1>4, <1>5

LEMMA BrokerAcceptsInv == ASSUME NEW r \in Rec, IInv, BrokerAccepts(r) PROVE IInv'
<1> USE DEF IInv, TypeOK, BrokerAccepts
<1>1. TypeOK'
  BY SMT
<1>2. (\A q \in Rec : FlowOK(q))'
  BY SMT DEF FlowOK, RowOK
<1>3. (\A q \in Rec : RowOK(q))'
  BY SMT DEF FlowOK, RowOK, LinkOK
<1>4. (\A q \in Rec : LinkOK(q))'
  BY SMT DEF FlowOK, RowOK, LinkOK
<1>5. (\A o \in Operator : OpOK(o))'
  BY SMT DEF OpOK
<1>6. ((\A q \in Rec : LeftoverOK(q)) /\ OneUnresolvedPerKey /\ OrderLinkedOnce)'
  BY SMT DEF LeftoverOK, OneUnresolvedPerKey, OrderLinkedOnce
<1> QED
  BY <1>1, <1>2, <1>3, <1>4, <1>5, <1>6

LEMMA BrokerRejectsInv == ASSUME NEW r \in Rec, IInv, BrokerRejects(r) PROVE IInv'
<1> USE DEF IInv, TypeOK, BrokerRejects
<1>1. TypeOK'
  BY SMT
<1>2. (\A q \in Rec : FlowOK(q))'
  BY SMT DEF FlowOK, RowOK
<1>3. (\A q \in Rec : RowOK(q))'
  BY SMT DEF FlowOK, RowOK, LinkOK
<1>4. (\A q \in Rec : LinkOK(q))'
  BY SMT DEF FlowOK, RowOK, LinkOK
<1>5. (\A o \in Operator : OpOK(o))'
  BY SMT DEF OpOK
<1>6. ((\A q \in Rec : LeftoverOK(q)) /\ OneUnresolvedPerKey /\ OrderLinkedOnce)'
  BY SMT DEF LeftoverOK, OneUnresolvedPerKey, OrderLinkedOnce
<1> QED
  BY <1>1, <1>2, <1>3, <1>4, <1>5, <1>6

LEMMA BrokerFinishesInv == ASSUME NEW r \in Rec, IInv, BrokerFinishes(r) PROVE IInv'
<1> USE DEF IInv, TypeOK, BrokerFinishes
<1>1. TypeOK'
  BY SMT
<1>2. (\A q \in Rec : FlowOK(q))'
  BY SMT DEF FlowOK, RowOK
<1>3. (\A q \in Rec : RowOK(q))'
  BY SMT DEF FlowOK, RowOK, LinkOK
<1>4. (\A q \in Rec : LinkOK(q))'
  BY SMT DEF FlowOK, RowOK, LinkOK
<1>5. (\A o \in Operator : OpOK(o))'
  BY SMT DEF OpOK
<1>6. ((\A q \in Rec : LeftoverOK(q)) /\ OneUnresolvedPerKey /\ OrderLinkedOnce)'
  BY SMT DEF LeftoverOK, OneUnresolvedPerKey, OrderLinkedOnce
<1> QED
  BY <1>1, <1>2, <1>3, <1>4, <1>5, <1>6

LEMMA SettleInv == ASSUME NEW r \in Rec, IInv, Settle(r) PROVE IInv'
<1> USE DEF IInv, TypeOK, Settle
<1>1. TypeOK'
  BY SMT
<1>2. (\A q \in Rec : FlowOK(q))'
  BY SMT DEF FlowOK, RowOK
<1>3. (\A q \in Rec : RowOK(q))'
  BY SMT DEF FlowOK, RowOK, LinkOK
<1>4. (\A q \in Rec : LeftoverOK(q))'
  BY SMT DEF FlowOK, RowOK, LeftoverOK
<1>5. OneUnresolvedPerKey'
  BY SMT DEF OneUnresolvedPerKey, RowOK
<1>6. ((\A q \in Rec : LinkOK(q)) /\ (\A o \in Operator : OpOK(o)) /\ OrderLinkedOnce)'
  BY SMT DEF LinkOK, OpOK, OrderLinkedOnce
<1> QED
  BY <1>1, <1>2, <1>3, <1>4, <1>5, <1>6

LEMMA TakeOverSentInv == ASSUME NEW r \in Rec, IInv, TakeOverSent(r) PROVE IInv'
<1> USE DEF IInv, TypeOK, TakeOverSent
<1>1. TypeOK'
  BY SMT
<1>2. (\A q \in Rec : FlowOK(q))'
  BY SMT DEF FlowOK, RowOK
<1>3. (\A q \in Rec : RowOK(q))'
  BY SMT DEF FlowOK, RowOK, LinkOK
<1>4. (\A q \in Rec : LeftoverOK(q))'
  BY SMT DEF FlowOK, RowOK, LeftoverOK
<1>5. OneUnresolvedPerKey'
  BY SMT DEF OneUnresolvedPerKey, RowOK
<1>6. ((\A q \in Rec : LinkOK(q)) /\ (\A o \in Operator : OpOK(o)) /\ OrderLinkedOnce)'
  BY SMT DEF LinkOK, OpOK, OrderLinkedOnce
<1> QED
  BY <1>1, <1>2, <1>3, <1>4, <1>5, <1>6

LEMMA TakeOverUnsentInv == ASSUME NEW r \in Rec, IInv, TakeOverUnsent(r) PROVE IInv'
<1> USE DEF IInv, TypeOK, TakeOverUnsent
<1>1. TypeOK'
  BY SMT
<1>2. (\A q \in Rec : FlowOK(q))'
  BY SMT DEF FlowOK, RowOK
<1>3. (\A q \in Rec : RowOK(q))'
  BY SMT DEF FlowOK, RowOK, LinkOK
<1>4. (\A q \in Rec : LeftoverOK(q))'
  BY SMT DEF FlowOK, RowOK, LeftoverOK
<1>5. OneUnresolvedPerKey'
  BY SMT DEF OneUnresolvedPerKey, RowOK
<1>6. ((\A q \in Rec : LinkOK(q)) /\ (\A o \in Operator : OpOK(o)) /\ OrderLinkedOnce)'
  BY SMT DEF LinkOK, OpOK, OrderLinkedOnce
<1> QED
  BY <1>1, <1>2, <1>3, <1>4, <1>5, <1>6

LEMMA InitInv == Init => IInv
  BY NoOrderAssumption, SMT DEF Init, IInv, TypeOK, IdleOp, FlowOK, RowOK, LinkOK, OpOK,
     LeftoverOK, OneUnresolvedPerKey, OrderLinkedOnce

LEMMA CrashInv == IInv /\ Crash => IInv'
<1> SUFFICES ASSUME IInv, Crash PROVE IInv'
  OBVIOUS
<1> USE DEF IInv, TypeOK, Crash, IdleOp
<1>1. TypeOK'
  BY SMT
<1>2. (\A q \in Rec : FlowOK(q))' /\ (\A q \in Rec : RowOK(q))'
  BY SMT DEF FlowOK, RowOK
<1>3. (\A q \in Rec : LinkOK(q))' /\ (\A q \in Rec : LeftoverOK(q))'
  BY SMT DEF LinkOK, LeftoverOK
<1>4. (\A o \in Operator : OpOK(o))'
  BY SMT DEF OpOK
<1>5. OneUnresolvedPerKey' /\ OrderLinkedOnce'
  BY SMT DEF OneUnresolvedPerKey, OrderLinkedOnce
<1> QED
  BY <1>1, <1>2, <1>3, <1>4, <1>5

LEMMA StartupInv ==
  IInv /\ (Start \/ TakeSnapshot \/ RecoveryReady \/ RecoveryFails) => IInv'
<1> SUFFICES ASSUME IInv, Start \/ TakeSnapshot \/ RecoveryReady \/ RecoveryFails PROVE IInv'
  OBVIOUS
<1> USE DEF IInv, TypeOK, Start, TakeSnapshot, RecoveryReady, RecoveryFails
<1>1. TypeOK'
  BY SMT
<1>2. (\A q \in Rec : FlowOK(q))' /\ (\A q \in Rec : RowOK(q))'
  BY SMT DEF FlowOK, RowOK
<1>3. (\A q \in Rec : LeftoverOK(q))'
  BY SMT DEF LeftoverOK
<1>4. (\A q \in Rec : LinkOK(q))' /\ (\A o \in Operator : OpOK(o))'
  BY SMT DEF LinkOK, OpOK
<1>5. OneUnresolvedPerKey' /\ OrderLinkedOnce'
  BY SMT DEF OneUnresolvedPerKey, OrderLinkedOnce
<1> QED
  BY <1>1, <1>2, <1>3, <1>4, <1>5

LEMMA OpReset ==
  ASSUME IInv, NEW p \in Operator, op' = [op EXCEPT ![p] = IdleOp], order' = order
  PROVE  (\A o \in Operator : OpOK(o))' /\ op' \in [Operator -> OpState]
<1>0. op \in [Operator -> OpState] /\ \A o \in Operator : OpOK(o)
  BY DEF IInv, TypeOK
<1>1. IdleOp \in OpState /\ IdleOp.seen = {}
  BY SMT DEF IdleOp
<1>2. op' \in [Operator -> OpState]
  BY <1>0, <1>1, Zenon
<1>3. ASSUME NEW o \in Operator PROVE OpOK(o)'
  <2>1. op'[o] = IdleOp \/ op'[o] = op[o]
    BY <1>0, SMT
  <2> QED
    BY <1>0, <1>1, <2>1, Zenon DEF OpOK
<1> QED
  BY <1>2, <1>3

LEMMA ReadHistoryInv == ASSUME NEW p \in Operator, NEW r \in Rec, IInv, ReadHistory(p, r) PROVE IInv'
<1> USE DEF IInv, TypeOK, ReadHistory, IdleOp, Candidates
<1>0. PICK new \in OpState : /\ op' = [op EXCEPT ![p] = new]
                            /\ new.phase # "idle" /\ new.rec \in Rec
                            /\ \A s \in new.seen : order[s] \in {"live", "finished"}
  <2> DEFINE new == [phase |-> "read", rec |-> r, seen |-> Candidates(r), taken |-> {}]
  <2>1. new \in OpState /\ op' = [op EXCEPT ![p] = new]
    BY SMT
  <2>2. /\ new.phase # "idle" /\ new.rec \in Rec
        /\ \A s \in new.seen : order[s] \in {"live", "finished"}
    BY SMT
  <2> QED
    BY <2>1, <2>2, Zenon
<1>1. TypeOK'
  <2>1. op' \in [Operator -> OpState]
    BY <1>0, Zenon
  <2>2. TypeOK' \/ op' \notin [Operator -> OpState]
    BY SMT
  <2> QED
    BY <2>1, <2>2
<1>2. (\A o \in Operator : OpOK(o))'
  <2> SUFFICES ASSUME NEW o \in Operator PROVE OpOK(o)'
    OBVIOUS
  <2>1. op'[o] = op[o] \/ op'[o] = new
    BY <1>0, SMT
  <2>2. OpOK(o) /\ order' = order
    BY DEF ReadHistory, ReadCollisions
  <2> QED
    BY <1>0, <2>1, <2>2, Zenon DEF OpOK
<1>3. ((\A q \in Rec : FlowOK(q)) /\ (\A q \in Rec : RowOK(q)) /\ (\A q \in Rec : LinkOK(q)))'
  BY SMT DEF FlowOK, RowOK, LinkOK
<1>4. ((\A q \in Rec : LeftoverOK(q)) /\ OneUnresolvedPerKey /\ OrderLinkedOnce)'
  BY SMT DEF LeftoverOK, OneUnresolvedPerKey, OrderLinkedOnce
<1> QED
  BY <1>1, <1>2, <1>3, <1>4

LEMMA ReadCollisionsInv == ASSUME NEW p \in Operator, IInv, ReadCollisions(p) PROVE IInv'
<1> USE DEF IInv, TypeOK, ReadCollisions, IdleOp, Candidates
<1>0. PICK new \in OpState : /\ op' = [op EXCEPT ![p] = new]
                            /\ new.phase # "idle" /\ new.rec \in Rec
                            /\ \A s \in new.seen : order[s] \in {"live", "finished"}
  <2> DEFINE new == [phase |-> "checked", rec |-> op[p].rec, seen |-> op[p].seen,
                     taken |-> {s \in op[p].seen : LinkedElsewhere(op[p].rec, s)}]
  <2>0. op[p] \in OpState /\ OpOK(p) /\ op[p] # IdleOp
    BY SMT
  <2>1. op[p].rec \in Rec /\ op[p].seen \subseteq Rec
        /\ \A s \in op[p].seen : order[s] \in {"live", "finished"}
    BY <2>0, SMT DEF OpOK
  <2>2. new \in OpState
    BY <2>1, SMT
  <2>3. op' = [op EXCEPT ![p] = new]
    BY DEF ReadCollisions
  <2>4. /\ new.phase # "idle" /\ new.rec \in Rec
        /\ \A s \in new.seen : order[s] \in {"live", "finished"}
    BY <2>1, SMT
  <2> QED
    BY <2>2, <2>3, <2>4, Zenon
<1>1. TypeOK'
  <2>1. op' \in [Operator -> OpState]
    BY <1>0, Zenon
  <2>2. TypeOK' \/ op' \notin [Operator -> OpState]
    BY SMT
  <2> QED
    BY <2>1, <2>2
<1>2. (\A o \in Operator : OpOK(o))'
  <2> SUFFICES ASSUME NEW o \in Operator PROVE OpOK(o)'
    OBVIOUS
  <2>1. op'[o] = op[o] \/ op'[o] = new
    BY <1>0, SMT
  <2>2. OpOK(o) /\ order' = order
    BY DEF ReadHistory, ReadCollisions
  <2> QED
    BY <1>0, <2>1, <2>2, Zenon DEF OpOK
<1>3. ((\A q \in Rec : FlowOK(q)) /\ (\A q \in Rec : RowOK(q)) /\ (\A q \in Rec : LinkOK(q)))'
  BY SMT DEF FlowOK, RowOK, LinkOK
<1>4. ((\A q \in Rec : LeftoverOK(q)) /\ OneUnresolvedPerKey /\ OrderLinkedOnce)'
  BY SMT DEF LeftoverOK, OneUnresolvedPerKey, OrderLinkedOnce
<1> QED
  BY <1>1, <1>2, <1>3, <1>4

LEMMA OperatorFailsInv == ASSUME NEW p \in Operator, IInv, OperatorFails(p) PROVE IInv'
<1> USE DEF IInv, TypeOK, OperatorFails, IdleOp, Candidates
<1>1. TypeOK'
  BY OpReset, SMT
<1>2. (\A o \in Operator : OpOK(o))'
  BY OpReset
<1>3. ((\A q \in Rec : FlowOK(q)) /\ (\A q \in Rec : RowOK(q)) /\ (\A q \in Rec : LinkOK(q)))'
  BY SMT DEF FlowOK, RowOK, LinkOK
<1>4. ((\A q \in Rec : LeftoverOK(q)) /\ OneUnresolvedPerKey /\ OrderLinkedOnce)'
  BY SMT DEF LeftoverOK, OneUnresolvedPerKey, OrderLinkedOnce
<1> QED
  BY <1>1, <1>2, <1>3, <1>4

LEMMA LinkCandidateInv == ASSUME NEW p \in Operator, IInv, LinkCandidate(p) PROVE IInv'
<1> USE DEF IInv, TypeOK, LinkCandidate, Resolve, IdleOp
<1>0. op[p].rec \in Rec /\ op[p].seen \subseteq Rec
  BY SMT DEF OpOK
<1>1. TypeOK'
  BY <1>0, SMT
<1>2. (\A q \in Rec : FlowOK(q))'
  BY <1>0, SMT DEF FlowOK, RowOK
<1>3. (\A q \in Rec : RowOK(q))'
  BY <1>0, SMT DEF FlowOK, RowOK, OpOK
<1>4. (\A q \in Rec : LinkOK(q))'
  BY <1>0, SMT DEF LinkOK, OpOK
<1>5. (\A o \in Operator : OpOK(o))'
  BY OpReset
<1>6. (\A q \in Rec : LeftoverOK(q))'
  BY <1>0, SMT DEF LeftoverOK
<1>7. OneUnresolvedPerKey'
  BY <1>0, SMT DEF OneUnresolvedPerKey
<1>8. OrderLinkedOnce'
  BY <1>0, SMT DEF OrderLinkedOnce, RowOK
<1> QED
  BY <1>1, <1>2, <1>3, <1>4, <1>5, <1>6, <1>7, <1>8

LEMMA ConfirmNotSubmittedInv == ASSUME NEW p \in Operator, IInv, ConfirmNotSubmitted(p) PROVE IInv'
<1> USE DEF IInv, TypeOK, ConfirmNotSubmitted, Resolve, IdleOp
<1>0. op[p].rec \in Rec /\ op[p].seen \subseteq Rec
  BY SMT DEF OpOK
<1>1. TypeOK'
  BY <1>0, SMT
<1>2. (\A q \in Rec : FlowOK(q))'
  BY <1>0, SMT DEF FlowOK, RowOK
<1>3. (\A q \in Rec : RowOK(q))'
  BY <1>0, SMT DEF FlowOK, RowOK, OpOK
<1>4. (\A q \in Rec : LinkOK(q))'
  BY <1>0, SMT DEF LinkOK, OpOK
<1>5. (\A o \in Operator : OpOK(o))'
  BY OpReset
<1>6. (\A q \in Rec : LeftoverOK(q))'
  BY <1>0, SMT DEF LeftoverOK
<1>7. OneUnresolvedPerKey'
  BY <1>0, SMT DEF OneUnresolvedPerKey
<1>8. OrderLinkedOnce'
  BY <1>0, SMT DEF OrderLinkedOnce, RowOK
<1> QED
  BY <1>1, <1>2, <1>3, <1>4, <1>5, <1>6, <1>7, <1>8

LEMMA ConfirmMatchesExistingInv == ASSUME NEW p \in Operator, IInv, ConfirmMatchesExisting(p) PROVE IInv'
<1> USE DEF IInv, TypeOK, ConfirmMatchesExisting, Resolve, IdleOp
<1>0. op[p].rec \in Rec /\ op[p].seen \subseteq Rec
  BY SMT DEF OpOK
<1>1. TypeOK'
  BY <1>0, SMT
<1>2. (\A q \in Rec : FlowOK(q))'
  BY <1>0, SMT DEF FlowOK, RowOK
<1>3. (\A q \in Rec : RowOK(q))'
  BY <1>0, SMT DEF FlowOK, RowOK, OpOK
<1>4. (\A q \in Rec : LinkOK(q))'
  BY <1>0, SMT DEF LinkOK, OpOK
<1>5. (\A o \in Operator : OpOK(o))'
  BY OpReset
<1>6. (\A q \in Rec : LeftoverOK(q))'
  BY <1>0, SMT DEF LeftoverOK
<1>7. OneUnresolvedPerKey'
  BY <1>0, SMT DEF OneUnresolvedPerKey
<1>8. OrderLinkedOnce'
  BY <1>0, SMT DEF OrderLinkedOnce, RowOK
<1> QED
  BY <1>1, <1>2, <1>3, <1>4, <1>5, <1>6, <1>7, <1>8

-----------------------------------------------------------------------------
(* The invariant of the specification, and the properties it gives. *)

LEMMA NextInv == IInv /\ [Next]_vars => IInv'
<1> SUFFICES ASSUME IInv, [Next]_vars PROVE IInv'
  OBVIOUS
<1> USE IInv
<1>1. ASSUME NEW r \in Rec, Admission(r) PROVE IInv'
    BY <1>1, AdmitAutoInv, AdmitManualInv, RequestApprovalInv, ApproveInv,
     DeclineInv DEF Admission
<1>2. ASSUME NEW r \in Rec, FlowStep(r) PROVE IInv'
    BY <1>2, PassChecksInv, FailChecksInv, CancelPreSubmitInv, ClaimInv,
     PassRecheckInv, FailRecheckInv, CancelClaimedInv, PostInv,
     SetupFailsInv, AnswerAcceptedInv, AnswerRejectedInv, AnswerUnknownInv,
     SaveAcceptedInv, SaveRejectedInv, SaveUnknownInv DEF FlowStep
<1>3. ASSUME NEW r \in Rec, FlowDies(r) \/ BrokerStep(r) \/ Settle(r) PROVE IInv'
    BY <1>3, FlowDiesInv, BrokerAcceptsInv, BrokerRejectsInv,
     BrokerFinishesInv, SettleInv DEF BrokerStep
<1>4. ASSUME NEW o \in Operator, OperatorStep(o) PROVE IInv'
    BY <1>4, ReadHistoryInv, ReadCollisionsInv, LinkCandidateInv,
     ConfirmNotSubmittedInv, ConfirmMatchesExistingInv, OperatorFailsInv DEF
     OperatorStep
<1>5. ASSUME Crash \/ Start \/ TakeoverStep \/ RecoveryFails PROVE IInv'
    BY <1>5, CrashInv, StartupInv, TakeOverSentInv, TakeOverUnsentInv DEF
     TakeoverStep
<1>6. ASSUME UNCHANGED vars PROVE IInv'
  BY <1>6 DEF vars, IInv, TypeOK, FlowOK, RowOK, LinkOK, OpOK, LeftoverOK,
     OneUnresolvedPerKey, OrderLinkedOnce
<1> QED
  BY <1>1, <1>2, <1>3, <1>4, <1>5, <1>6 DEF Next

\* Every reachable state satisfies the inductive invariant.
THEOREM Invariance == Spec => []IInv
  BY InitInv, NextInv, PTL DEF Spec

\* Every variable keeps its type.
THEOREM TypeCorrect == Spec => []TypeOK
<1>1. IInv => TypeOK
  BY DEF IInv
<1> QED
  BY <1>1, Invariance, PTL

\* The guard of admit keeps one unresolved record per key.
THEOREM OnePerKey == Spec => []OneUnresolvedPerKey
<1>1. IInv => OneUnresolvedPerKey
  BY DEF IInv
<1> QED
  BY <1>1, Invariance, PTL

\* No working order is forgotten by the rows.
THEOREM NothingForgotten == Spec => []NoForgottenOrder
<1>1. IInv => NoForgottenOrder
  BY SMT DEF IInv, TypeOK, NoForgottenOrder, RowOK
<1> QED
  BY <1>1, Invariance, PTL

\* Two orders of one key work at the broker only if an operator disowned one.
THEOREM NothingDuplicated == Spec => []NoDuplicateOrder
<1>1. ASSUME IInv, NEW r \in Rec, order[r] \in {"sent", "live"}, ~Disowned(r)
      PROVE  status[r] \in Unresolved
  BY <1>1, SMT DEF IInv, TypeOK, RowOK
<1>2. IInv => NoDuplicateOrder
  BY <1>1, Zenon DEF IInv, NoDuplicateOrder, OneUnresolvedPerKey
<1> QED
  BY <1>2, Invariance, PTL

\* A record is POSTed at most once, whatever crashes and takeovers happen.
THEOREM PostedOnce == Spec => []PostedAtMostOnce
<1>1. IInv => PostedAtMostOnce
  BY SMT DEF IInv, PostedAtMostOnce, FlowOK
<1> QED
  BY <1>1, Invariance, PTL

\* A cancelled record never had and never gets an order.
THEOREM CancelledIsFinal == Spec => []CancelledNeverPosted
<1>1. IInv => CancelledNeverPosted
  BY SMT DEF IInv, TypeOK, CancelledNeverPosted, FlowOK, RowOK
<1> QED
  BY <1>1, Invariance, PTL

\* Two rows never name the same broker order.
THEOREM LinkedOnce == Spec => []OrderLinkedOnce
<1>1. IInv => OrderLinkedOnce
  BY DEF IInv
<1> QED
  BY <1>1, Invariance, PTL

\* Crons start with no row left SUBMITTING by an earlier process.
THEOREM TakenOver == Spec => []ReadyMeansTakenOver
<1>1. IInv => ReadyMeansTakenOver
  BY SMT DEF IInv, ReadyMeansTakenOver, LeftoverOK
<1> QED
  BY <1>1, Invariance, PTL

-----------------------------------------------------------------------------
(* Action properties: an UNKNOWN row waits for an operator, whose word is final. *)

\* Every other step leaves an UNKNOWN row as it is.
LEMMA UnknownStep ==
  ASSUME IInv, [Next]_vars, NEW r \in Rec, status[r] = "SUBMISSION_UNKNOWN", status'[r] # status[r]
  PROVE  resolution'[r] # "none"
<1> USE DEF IInv, TypeOK
<1>1. ASSUME NEW q \in Rec, Admission(q) PROVE FALSE
  BY <1>1, SMT DEF Admission, AdmitAuto, AdmitManual, RequestApproval, Admit, Approve, Decline
<1>2. ASSUME NEW q \in Rec, FlowStep(q) PROVE FALSE
  <2>1. CASE PassChecks(q) \/ FailChecks(q) \/ PassRecheck(q) \/ FailRecheck(q)
             \/ SetupFails(q) \/ Post(q) \/ Claim(q)
    BY <2>1, SMT DEF PassChecks, FailChecks, PassRecheck, FailRecheck, SetupFails, Post, Claim
  <2>2. CASE AnswerAccepted(q) \/ AnswerRejected(q) \/ AnswerUnknown(q)
    BY <2>2, SMT DEF AnswerAccepted, AnswerRejected, AnswerUnknown
  <2>3. CASE CancelPreSubmit(q) \/ CancelClaimed(q)
    BY <2>3, SMT DEF CancelPreSubmit, CancelClaimed
  <2>4. CASE SaveAccepted(q) \/ SaveRejected(q) \/ SaveUnknown(q)
    BY <2>4, SMT DEF SaveAccepted, SaveRejected, SaveUnknown
  <2> QED
    BY <1>2, <2>1, <2>2, <2>3, <2>4 DEF FlowStep
<1>3. ASSUME NEW q \in Rec, FlowDies(q) \/ BrokerStep(q) \/ Settle(q) PROVE FALSE
  BY <1>3, SMT DEF FlowDies, BrokerStep, BrokerAccepts, BrokerRejects, BrokerFinishes, Settle
<1>4. ASSUME Crash \/ Start \/ TakeoverStep \/ RecoveryFails PROVE FALSE
  BY <1>4, SMT DEF Crash, Start, TakeoverStep, TakeSnapshot, RecoveryReady, TakeOverSent,
     TakeOverUnsent, RecoveryFails
<1>5. ASSUME NEW o \in Operator, OperatorStep(o) PROVE resolution'[r] # "none"
  <2>1. CASE (\E q \in Rec : ReadHistory(o, q)) \/ ReadCollisions(o) \/ OperatorFails(o)
    BY <2>1, SMT DEF ReadHistory, ReadCollisions, OperatorFails
  <2>2. CASE LinkCandidate(o)
    BY <2>2, SMT DEF LinkCandidate, Resolve
  <2>3. CASE ConfirmNotSubmitted(o) \/ ConfirmMatchesExisting(o)
    BY <2>3, SMT DEF ConfirmNotSubmitted, ConfirmMatchesExisting, Resolve
  <2> QED
    BY <1>5, <2>1, <2>2, <2>3 DEF OperatorStep
<1>6. ASSUME UNCHANGED vars PROVE FALSE
  BY <1>6 DEF vars
<1> QED
  BY <1>1, <1>2, <1>3, <1>4, <1>5, <1>6 DEF Next

\* A late answer or a restart never overrides an unresolved submission.
THEOREM UnknownIsSticky == Spec => UnknownLeftByOperator
<1>1. IInv /\ [Next]_vars =>
        [\A r \in Rec : status[r] = "SUBMISSION_UNKNOWN" /\ status'[r] # status[r]
                        => resolution'[r] # "none"]_vars
  BY UnknownStep
<1> QED
  BY <1>1, Invariance, PTL DEF Spec, UnknownLeftByOperator

\* A resolved row keeps its resolution and its order: the final update of a
\* resolution needs an UNKNOWN row, and an UNKNOWN row has no resolution.
LEMMA ResolvedStep ==
  ASSUME IInv, [Next]_vars, NEW r \in Rec, resolution[r] # "none"
  PROVE  resolution'[r] = resolution[r] /\ orderNo'[r] = orderNo[r]
<1> USE DEF IInv, TypeOK
<1>0. status[r] \in Closed \cup {"PENDING"}
  BY SMT DEF RowOK
<1>1. ASSUME NEW q \in Rec, Admission(q)
      PROVE  resolution'[r] = resolution[r] /\ orderNo'[r] = orderNo[r]
  BY <1>1, SMT DEF Admission, AdmitAuto, AdmitManual, RequestApproval, Admit, Approve, Decline
<1>2. ASSUME NEW q \in Rec, FlowStep(q)
      PROVE  resolution'[r] = resolution[r] /\ orderNo'[r] = orderNo[r]
  <2>1. CASE SaveAccepted(q)
    BY <1>0, <2>1, SMT DEF SaveAccepted
  <2>2. CASE ~SaveAccepted(q)
    BY <1>2, <2>2, Zenon DEF FlowStep, PassChecks, FailChecks, PassRecheck, FailRecheck, SetupFails,
       Post, Claim, AnswerAccepted, AnswerRejected, AnswerUnknown, CancelPreSubmit,
       CancelClaimed, SaveRejected, SaveUnknown
  <2> QED
    BY <2>1, <2>2
<1>3. ASSUME NEW q \in Rec, FlowDies(q) \/ BrokerStep(q) \/ Settle(q)
      PROVE  resolution'[r] = resolution[r] /\ orderNo'[r] = orderNo[r]
  BY <1>3, SMT DEF FlowDies, BrokerStep, BrokerAccepts, BrokerRejects, BrokerFinishes, Settle
<1>4. ASSUME Crash \/ Start \/ TakeoverStep \/ RecoveryFails
      PROVE  resolution'[r] = resolution[r] /\ orderNo'[r] = orderNo[r]
  BY <1>4, SMT DEF Crash, Start, TakeoverStep, TakeSnapshot, RecoveryReady, TakeOverSent,
     TakeOverUnsent, RecoveryFails
<1>5. ASSUME NEW o \in Operator, OperatorStep(o)
      PROVE  resolution'[r] = resolution[r] /\ orderNo'[r] = orderNo[r]
  <2>1. CASE (\E q \in Rec : ReadHistory(o, q)) \/ ReadCollisions(o) \/ OperatorFails(o)
    BY <2>1, SMT DEF ReadHistory, ReadCollisions, OperatorFails
  <2>2. CASE LinkCandidate(o)
    BY <1>0, <2>2, SMT DEF LinkCandidate, Resolve
  <2>3. CASE ConfirmNotSubmitted(o) \/ ConfirmMatchesExisting(o)
    BY <1>0, <2>3, SMT DEF ConfirmNotSubmitted, ConfirmMatchesExisting, Resolve
  <2> QED
    BY <1>5, <2>1, <2>2, <2>3 DEF OperatorStep
<1>6. ASSUME UNCHANGED vars PROVE resolution'[r] = resolution[r] /\ orderNo'[r] = orderNo[r]
  BY <1>6 DEF vars
<1> QED
  BY <1>1, <1>2, <1>3, <1>4, <1>5, <1>6 DEF Next

\* Two operators who work on one row never both decide it.
THEOREM ResolutionIsFinal == Spec => ResolvedOnce
<1>1. IInv /\ [Next]_vars =>
        [\A r \in Rec : resolution[r] # "none"
                        => resolution'[r] = resolution[r] /\ orderNo'[r] = orderNo[r]]_vars
  BY ResolvedStep
<1> QED
  BY <1>1, Invariance, PTL DEF Spec, ResolvedOnce

-----------------------------------------------------------------------------
(* Refinement: the services implement OrderIntent. *)

\* A step that changes one row and no order is a step of OrderIntent when the
\* slot of the row stays, closes, is disowned, or opens while the key is free.
LEMMA RowStep ==
  ASSUME NEW r \in Rec, order' = order,
         \A q \in Rec \ {r} : Slot(q)' = Slot(q),
         \/ Slot(r)' = Slot(r)
         \/ Slot(r) = "open" /\ Slot(r)' = "closed" /\ order[r] \notin {"sent", "live"}
         \/ Slot(r) = "open" /\ Slot(r)' = "disowned"
         \/ /\ Slot(r) = "none" /\ Slot(r)' = "open"
            /\ \A q \in Rec : KeyOf[q] = KeyOf[r] => Slot(q) # "open"
  PROVE  [Intent!Next]_(Intent!vars)
<1> USE DEF Intent!vars, Intent!Move
<1>1. intentOf' = [intentOf EXCEPT ![r] = Slot(r)']
  BY Zenon DEF intentOf
<1>2. \A q \in Rec : intentOf[q] = Slot(q)
  BY DEF intentOf
<1>3. CASE Slot(r)' = Slot(r)
  <2>1. intentOf' = intentOf
    BY <1>3, Zenon DEF intentOf
  <2> QED
    BY <2>1
<1>4. CASE Slot(r) = "open" /\ Slot(r)' = "closed" /\ order[r] \notin {"sent", "live"}
  <2>1. Intent!Close(r)
    BY <1>1, <1>2, <1>4 DEF Intent!Close, Intent!Working
  <2> QED
    BY <2>1 DEF Intent!Next
<1>5. CASE Slot(r) = "open" /\ Slot(r)' = "disowned"
  <2>1. Intent!Disown(r)
    BY <1>1, <1>2, <1>5 DEF Intent!Disown
  <2> QED
    BY <2>1 DEF Intent!Next
<1>6. CASE /\ Slot(r) = "none" /\ Slot(r)' = "open"
           /\ \A q \in Rec : KeyOf[q] = KeyOf[r] => Slot(q) # "open"
  <2>1. Intent!Open(r)
    BY <1>1, <1>2, <1>6 DEF Intent!Open
  <2> QED
    BY <2>1 DEF Intent!Next
<1> QED
  BY <1>3, <1>4, <1>5, <1>6

\* A step of the broker, or a POST of a record that is not closed.
LEMMA OrderStep ==
  ASSUME NEW r \in Rec, UNCHANGED rowVars,
         \/ order[r] = "none" /\ Slot(r) \in {"open", "disowned"}
            /\ order' = [order EXCEPT ![r] = "sent"]
         \/ order[r] = "sent" /\ order' = [order EXCEPT ![r] = "live"]
         \/ order[r] = "sent" /\ order' = [order EXCEPT ![r] = "rejected"]
         \/ order[r] = "live" /\ order' = [order EXCEPT ![r] = "finished"]
  PROVE  [Intent!Next]_(Intent!vars)
<1>1. intentOf' = intentOf /\ intentOf[r] = Slot(r)
  BY DEF intentOf, Slot
<1>2. Intent!Send(r) \/ Intent!Broker(r)
  BY <1>1 DEF Intent!Send, Intent!Broker
<1> QED
  BY <1>2 DEF Intent!Next

\* Every step of the services is a step of OrderIntent or a stutter.
LEMMA StepSimulation == IInv /\ [Next]_vars => [Intent!Next]_(Intent!vars)
<1> SUFFICES ASSUME IInv, [Next]_vars PROVE [Intent!Next]_(Intent!vars)
  OBVIOUS
<1> USE DEF IInv, TypeOK, Slot
<1>1. ASSUME NEW r \in Rec, Admission(r) PROVE [Intent!Next]_(Intent!vars)
  <2>1. CASE AdmitAuto(r) \/ AdmitManual(r) \/ RequestApproval(r)
    <3>1. /\ order' = order /\ \A q \in Rec \ {r} : Slot(q)' = Slot(q)
          /\ Slot(r) = "none" /\ Slot(r)' = "open"
      BY <2>1, SMT DEF AdmitAuto, AdmitManual, RequestApproval, Admit
    <3>2. \A q \in Rec : KeyOf[q] = KeyOf[r] => Slot(q) # "open"
      BY <2>1, SMT DEF AdmitAuto, AdmitManual, RequestApproval, Admit
    <3> QED
      BY <3>1, <3>2, RowStep
  <2>2. CASE Approve(r) \/ Decline(r)
    <3>1. /\ order' = order /\ \A q \in Rec \ {r} : Slot(q)' = Slot(q)
          /\ \/ Slot(r)' = Slot(r)
             \/ Slot(r) = "open" /\ Slot(r)' = "closed" /\ order[r] \notin {"sent", "live"}
      BY <2>2, SMT DEF Approve, Decline, RowOK
    <3> QED
      BY <3>1, RowStep
  <2> QED
    BY <1>1, <2>1, <2>2 DEF Admission
<1>2. ASSUME NEW r \in Rec, FlowStep(r) PROVE [Intent!Next]_(Intent!vars)
  <2>1. CASE \/ PassChecks(r) \/ FailChecks(r) \/ PassRecheck(r) \/ FailRecheck(r) \/ Claim(r)
             \/ SetupFails(r) \/ AnswerAccepted(r) \/ AnswerRejected(r) \/ AnswerUnknown(r)
    <3>1. UNCHANGED <<status, orderNo, resolution, order>>
      BY <2>1 DEF PassChecks, FailChecks, PassRecheck, FailRecheck, Claim, SetupFails,
         AnswerAccepted, AnswerRejected, AnswerUnknown
    <3> QED
      BY <3>1, RowStep
  <2>2. CASE CancelPreSubmit(r) \/ CancelClaimed(r) \/ SaveRejected(r)
    <3>1. /\ order' = order /\ \A q \in Rec \ {r} : Slot(q)' = Slot(q)
          /\ \/ Slot(r)' = Slot(r)
             \/ Slot(r) = "open" /\ Slot(r)' = "closed" /\ order[r] \notin {"sent", "live"}
      BY <2>2, SMT DEF CancelPreSubmit, CancelClaimed, SaveRejected, RowOK, FlowOK
    <3> QED
      BY <3>1, RowStep
  <2>3. CASE SaveAccepted(r) \/ SaveUnknown(r)
    <3>1. order' = order /\ \A q \in Rec : Slot(q)' = Slot(q)
      BY <2>3, SMT DEF SaveAccepted, SaveUnknown
    <3> QED
      BY <3>1, RowStep
  <2>4. CASE Post(r)
    <3>1. /\ UNCHANGED rowVars /\ order' = [order EXCEPT ![r] = "sent"]
          /\ order[r] = "none" /\ Slot(r) \in {"open", "disowned"}
      BY <2>4, SMT DEF Post, RowOK, FlowOK
    <3> QED
      BY <3>1, OrderStep
  <2> QED
    BY <1>2, <2>1, <2>2, <2>3, <2>4 DEF FlowStep
<1>3. ASSUME NEW r \in Rec, BrokerStep(r) PROVE [Intent!Next]_(Intent!vars)
  BY <1>3, OrderStep DEF BrokerStep, BrokerAccepts, BrokerRejects, BrokerFinishes
<1>4. ASSUME NEW r \in Rec, Settle(r) PROVE [Intent!Next]_(Intent!vars)
  <2>1. /\ order' = order /\ \A q \in Rec \ {r} : Slot(q)' = Slot(q)
        /\ \/ Slot(r) = "open" /\ Slot(r)' = "closed" /\ order[r] \notin {"sent", "live"}
           \/ Slot(r) = "open" /\ Slot(r)' = "disowned"
    BY <1>4, SMT DEF Settle, RowOK
  <2> QED
    BY <2>1, RowStep
<1>5. ASSUME NEW r \in Rec, TakeOverSent(r) \/ TakeOverUnsent(r)
      PROVE  [Intent!Next]_(Intent!vars)
  <2>1. /\ order' = order /\ \A q \in Rec \ {r} : Slot(q)' = Slot(q)
        /\ \/ Slot(r)' = Slot(r)
           \/ Slot(r) = "open" /\ Slot(r)' = "closed" /\ order[r] \notin {"sent", "live"}
    BY <1>5, SMT DEF TakeOverSent, TakeOverUnsent, RowOK
  <2> QED
    BY <2>1, RowStep
<1>6. ASSUME NEW o \in Operator, LinkCandidate(o) \/ ConfirmNotSubmitted(o) \/ ConfirmMatchesExisting(o)
      PROVE  [Intent!Next]_(Intent!vars)
  <2>1. op[o].rec \in Rec /\ order' = order
    BY <1>6, SMT DEF LinkCandidate, ConfirmNotSubmitted, ConfirmMatchesExisting, Resolve, OpOK, IdleOp
  <2>2. PICK r \in Rec : r = op[o].rec
    BY <2>1
  <2>3. CASE LinkCandidate(o)
    <3>1. \A q \in Rec : Slot(q)' = Slot(q)
      BY <2>1, <2>3, SMT DEF LinkCandidate, Resolve
    <3> QED
      BY <2>1, <2>2, <3>1, RowStep
  <2>4. CASE ConfirmNotSubmitted(o) \/ ConfirmMatchesExisting(o)
    <3>1. \A q \in Rec \ {r} : Slot(q)' = Slot(q)
      BY <2>2, <2>4, SMT DEF ConfirmNotSubmitted, ConfirmMatchesExisting, Resolve
    <3>2. Slot(r) = "open" /\ Slot(r)' = "disowned"
      BY <2>2, <2>4, SMT DEF ConfirmNotSubmitted, ConfirmMatchesExisting, Resolve
    <3> QED
      BY <2>1, <3>1, <3>2, RowStep
  <2> QED
    BY <1>6, <2>3, <2>4
<1>7. ASSUME UNCHANGED <<status, orderNo, resolution, order>> PROVE [Intent!Next]_(Intent!vars)
  <2>1. intentOf' = intentOf
    BY <1>7 DEF intentOf
  <2> QED
    BY <1>7, <2>1 DEF Intent!vars
<1>8. ASSUME NEW o \in Operator, OperatorStep(o) PROVE [Intent!Next]_(Intent!vars)
  <2>1. CASE (\E r \in Rec : ReadHistory(o, r)) \/ ReadCollisions(o) \/ OperatorFails(o)
    BY <1>7, <2>1 DEF ReadHistory, ReadCollisions, OperatorFails
  <2>2. CASE LinkCandidate(o) \/ ConfirmNotSubmitted(o) \/ ConfirmMatchesExisting(o)
    BY <1>6, <2>2
  <2> QED
    BY <1>8, <2>1, <2>2 DEF OperatorStep
<1>9. ASSUME Crash \/ Start \/ TakeoverStep \/ RecoveryFails PROVE [Intent!Next]_(Intent!vars)
  BY <1>9, <1>5, <1>7 DEF TakeoverStep, Crash, Start, TakeSnapshot, RecoveryReady, RecoveryFails
<1>10. ASSUME NEW r \in Rec, FlowDies(r) PROVE [Intent!Next]_(Intent!vars)
  BY <1>10, <1>7 DEF FlowDies
<1>11. ASSUME UNCHANGED vars PROVE [Intent!Next]_(Intent!vars)
  BY <1>11, <1>7 DEF vars
<1> QED
  BY <1>1, <1>2, <1>3, <1>4, <1>8, <1>9, <1>10, <1>11 DEF Next

\* The submission services, with their crashes, takeovers and operators,
\* implement the order slot: the promise of OrderIntent is kept.
THEOREM Refinement == Spec => ImplementsIntent
<1>1. Init => Intent!Init
  BY Zenon DEF Init, Intent!Init, intentOf, Slot
<1> QED
  BY <1>1, StepSimulation, Invariance, PTL DEF Spec, ImplementsIntent, Intent!Spec

-----------------------------------------------------------------------------
(* The promise itself.  The first two facts are about OrderIntent alone:    *)
(* they hold for any intents and orders, and never look into the mapping.   *)

\* A working order belongs to an open or disowned intent, and a key is open
\* for one intent at a time.
IntentInv ==
  /\ intentOf \in [Rec -> {"none", "open", "closed", "disowned"}]
  /\ order \in [Rec -> {"none", "sent", "live", "finished", "rejected"}]
  /\ \A r \in Rec : order[r] \in Intent!Working => intentOf[r] \in {"open", "disowned"}
  /\ \A q, r \in Rec : /\ intentOf[q] = "open" /\ intentOf[r] = "open"
                       /\ KeyOf[q] = KeyOf[r]
                       => q = r

LEMMA IntentStep == IntentInv /\ [Intent!Next]_(Intent!vars) => IntentInv'
<1> SUFFICES ASSUME IntentInv, [Intent!Next]_(Intent!vars) PROVE IntentInv'
  OBVIOUS
<1> USE DEF IntentInv, Intent!Working
<1>1. ASSUME NEW r \in Rec, Intent!Open(r) PROVE IntentInv'
  BY <1>1, SMT DEF Intent!Open, Intent!Move
<1>2. ASSUME NEW r \in Rec, Intent!Close(r) \/ Intent!Disown(r) PROVE IntentInv'
  BY <1>2, SMT DEF Intent!Close, Intent!Disown, Intent!Move
<1>3. ASSUME NEW r \in Rec, Intent!Send(r) \/ Intent!Broker(r) PROVE IntentInv'
  BY <1>3, SMT DEF Intent!Send, Intent!Broker
<1>4. ASSUME UNCHANGED Intent!vars PROVE IntentInv'
  BY <1>4 DEF Intent!vars
<1> QED
  BY <1>1, <1>2, <1>3, <1>4 DEF Intent!Next

\* What a client of the order slot may rely on: two working orders of one key
\* only after an operator disowned one of them.
THEOREM IntentKeepsPromise == Intent!Spec => []Intent!AtMostOneWorking
<1>1. Intent!Init => IntentInv
  BY SMT DEF Intent!Init, IntentInv, Intent!Working
<1>2. IntentInv => Intent!AtMostOneWorking
  BY SMT DEF IntentInv, Intent!AtMostOneWorking, Intent!Working
<1> QED
  BY <1>1, <1>2, IntentStep, PTL DEF Intent!Spec

\* The services keep it through crashes, takeovers and operators: two orders of
\* a key work at the broker at once only if one of their rows was disowned.
THEOREM SubmissionKeepsPromise == Spec => []Intent!AtMostOneWorking
BY Refinement, IntentKeepsPromise, PTL DEF ImplementsIntent
=============================================================================
