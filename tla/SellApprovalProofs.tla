-------------------------- MODULE SellApprovalProofs --------------------------
(* The inductive invariant of SellApproval and its proofs. *)
EXTENDS SellApproval, TLAPS

\* What the point a call has reached says of its pair.
CallOK(r) ==
  /\ requestedAt[r] <= clock /\ sentAt[r] <= clock
  /\ pc[r] \in {"idle", "expiring", "admitting"} => approval[r] = "None"
  /\ pc[r] # "done" => notifiedAt[r] = Never
  /\ pc[r] = "delivered" => requestedAt[r] <= sentAt[r] /\ sentAt[r] # Never

\* A stored delivery gives the pair the lease counted from the message.
LeaseOK(r) ==
  notifiedAt[r] # Never => /\ approval[r] # "None"
                           /\ requestedAt[r] <= notifiedAt[r] /\ notifiedAt[r] <= clock
                           /\ expiresAt[r] = notifiedAt[r] + Validity

\* The admission guard, on the pairs of this module.
OneOpenPair ==
  \A q, r \in Req : /\ SameInstrument(q, r)
                    /\ trade[q] \in Unresolved /\ trade[r] \in Unresolved
                    => q = r

\* q was over, and its cooldown too, when r was called.
Before(q, r) == /\ approval[q] # "PENDING"
                /\ notifiedAt[q] # Never => notifiedAt[q] + Cooldown <= requestedAt[r]

\* The pairs of an instrument were created one after the other.
PairsOrdered ==
  \A q, r \in Req : /\ SameInstrument(q, r) /\ q # r
                    /\ approval[q] # "None" /\ approval[r] # "None"
                    => Before(q, r) \/ Before(r, q)

\* What a decision in progress may rely on.
ClickOK(c) ==
  /\ click[c].phase # "idle" => click[c].req \in Req
  /\ click[c].phase = "claiming" => /\ notifiedAt[click[c].req] # Never
                                    /\ notifiedAt[click[c].req] <= click[c].now
  /\ click[c].phase = "executing" => approval[click[c].req] = "APPROVED"

IInv == /\ TypeOK
        /\ PairConsistent
        /\ \A r \in Req : CallOK(r)
        /\ \A r \in Req : LeaseOK(r)
        /\ OneOpenPair
        /\ PairsOrdered
        /\ \A c \in Click : ClickOK(c)
        /\ DecidedWithinLease
        /\ OneExecution

-----------------------------------------------------------------------------
USE LeaseAssumption, InstrumentAssumption, NoReqAssumption
USE DEF times, Never, Time, Approval, Trade, Unresolved, Goto, ClickTo, IdleClick

LEMMA InitInv == Init => IInv
  BY SMT DEF Init, IInv, TypeOK, PairConsistent, CallOK, LeaseOK, OneOpenPair, PairsOrdered,
             Before, ClickOK, DecidedWithinLease, OneExecution

LEMMA TickInv == ASSUME IInv, Tick PROVE IInv'
<1> USE DEF IInv, Tick
<1>1. TypeOK'
  BY SMT DEF TypeOK
<1>2. PairConsistent'
  BY SMT DEF TypeOK, PairConsistent, CallOK
<1>3. (\A q \in Req : CallOK(q) /\ LeaseOK(q))'
  BY SMT DEF TypeOK, CallOK, LeaseOK, PairConsistent
<1>4. OneOpenPair'
  BY SMT DEF TypeOK, OneOpenPair, SameInstrument, Blocked, PairConsistent, CallOK
<1>5. PairsOrdered'
  BY SMT DEF TypeOK, PairsOrdered, Before, CallOK, SameInstrument, Blocked, CoolingDown, PairConsistent
<1>6. (\A d \in Click : ClickOK(d))'
  BY SMT DEF TypeOK, ClickOK, CallOK, LeaseOK, PairConsistent
<1>7. DecidedWithinLease'
  BY SMT DEF TypeOK, DecidedWithinLease, ClickOK, LeaseOK, CallOK
<1>8. OneExecution'
  BY SMT DEF TypeOK, OneExecution, ClickOK, PairConsistent
<1> QED
  BY <1>1, <1>2, <1>3, <1>4, <1>5, <1>6, <1>7, <1>8

LEMMA CrashInv == ASSUME IInv, Crash PROVE IInv'
<1> USE DEF IInv, Crash
<1>1. TypeOK'
  BY SMT DEF TypeOK
<1>2. PairConsistent'
  BY SMT DEF TypeOK, PairConsistent, CallOK
<1>3. (\A q \in Req : CallOK(q) /\ LeaseOK(q))'
  BY SMT DEF TypeOK, CallOK, LeaseOK, PairConsistent
<1>4. OneOpenPair'
  BY SMT DEF TypeOK, OneOpenPair, SameInstrument, Blocked, PairConsistent, CallOK
<1>5. PairsOrdered'
  BY SMT DEF TypeOK, PairsOrdered, Before, CallOK, SameInstrument, Blocked, CoolingDown, PairConsistent
<1>6. (\A d \in Click : ClickOK(d))'
  BY SMT DEF TypeOK, ClickOK, CallOK, LeaseOK, PairConsistent
<1>7. DecidedWithinLease'
  BY SMT DEF TypeOK, DecidedWithinLease, ClickOK, LeaseOK, CallOK
<1>8. OneExecution'
  BY SMT DEF TypeOK, OneExecution, ClickOK, PairConsistent
<1> QED
  BY <1>1, <1>2, <1>3, <1>4, <1>5, <1>6, <1>7, <1>8

LEMMA CallRequestInv == ASSUME NEW r \in Req, IInv, CallRequest(r) PROVE IInv'
<1> USE DEF IInv, CallRequest
<1>1. TypeOK'
  BY SMT DEF TypeOK
<1>2. PairConsistent'
  BY SMT DEF TypeOK, PairConsistent, CallOK
<1>3. (\A q \in Req : CallOK(q) /\ LeaseOK(q))'
  BY SMT DEF TypeOK, CallOK, LeaseOK, PairConsistent
<1>4. OneOpenPair'
  BY SMT DEF TypeOK, OneOpenPair, SameInstrument, Blocked, PairConsistent, CallOK
<1>5. PairsOrdered'
  BY SMT DEF TypeOK, PairsOrdered, Before, CallOK, SameInstrument, Blocked, CoolingDown, PairConsistent
<1>6. (\A d \in Click : ClickOK(d))'
  BY SMT DEF TypeOK, ClickOK, CallOK, LeaseOK, PairConsistent
<1>7. DecidedWithinLease'
  BY SMT DEF TypeOK, DecidedWithinLease, ClickOK, LeaseOK, CallOK
<1>8. OneExecution'
  BY SMT DEF TypeOK, OneExecution, ClickOK, PairConsistent
<1> QED
  BY <1>1, <1>2, <1>3, <1>4, <1>5, <1>6, <1>7, <1>8

LEMMA ExpireDueInv == ASSUME NEW r \in Req, IInv, ExpireDue(r) PROVE IInv'
<1> USE DEF IInv, ExpireDue, Expire, Due
<1>1. TypeOK'
  BY SMT DEF TypeOK
<1>2. PairConsistent'
  BY SMT DEF TypeOK, PairConsistent, CallOK
<1>3. (\A q \in Req : CallOK(q) /\ LeaseOK(q))'
  BY SMT DEF TypeOK, CallOK, LeaseOK, PairConsistent
<1>4. OneOpenPair'
  BY SMT DEF TypeOK, OneOpenPair, SameInstrument, Blocked, PairConsistent, CallOK
<1>5. PairsOrdered'
  BY SMT DEF TypeOK, PairsOrdered, Before, CallOK, SameInstrument, Blocked, CoolingDown, PairConsistent
<1>6. (\A d \in Click : ClickOK(d))'
  BY SMT DEF TypeOK, ClickOK, CallOK, LeaseOK, PairConsistent
<1>7. DecidedWithinLease'
  BY SMT DEF TypeOK, DecidedWithinLease, ClickOK, LeaseOK, CallOK
<1>8. OneExecution'
  BY SMT DEF TypeOK, OneExecution, ClickOK, PairConsistent
<1> QED
  BY <1>1, <1>2, <1>3, <1>4, <1>5, <1>6, <1>7, <1>8

LEMMA AdmitRequestInv == ASSUME NEW r \in Req, IInv, AdmitRequest(r) PROVE IInv'
<1> USE DEF IInv, AdmitRequest
<1>1. TypeOK'
  BY SMT DEF TypeOK
<1>2. PairConsistent'
  BY SMT DEF TypeOK, PairConsistent, CallOK
<1>3. (\A q \in Req : CallOK(q) /\ LeaseOK(q))'
  BY SMT DEF TypeOK, CallOK, LeaseOK, PairConsistent
<1>4. OneOpenPair'
  BY SMT DEF TypeOK, OneOpenPair, SameInstrument, Blocked, PairConsistent, CallOK
<1>5. PairsOrdered'
  BY SMT DEF TypeOK, PairsOrdered, Before, CallOK, SameInstrument, Blocked, CoolingDown, PairConsistent
<1>6. (\A d \in Click : ClickOK(d))'
  BY SMT DEF TypeOK, ClickOK, CallOK, LeaseOK, PairConsistent
<1>7. DecidedWithinLease'
  BY SMT DEF TypeOK, DecidedWithinLease, ClickOK, LeaseOK, CallOK
<1>8. OneExecution'
  BY SMT DEF TypeOK, OneExecution, ClickOK, PairConsistent
<1> QED
  BY <1>1, <1>2, <1>3, <1>4, <1>5, <1>6, <1>7, <1>8

LEMMA SlackPostsInv == ASSUME NEW r \in Req, IInv, SlackPosts(r) PROVE IInv'
<1> USE DEF IInv, SlackPosts
<1>1. TypeOK'
  BY SMT DEF TypeOK
<1>2. PairConsistent'
  BY SMT DEF TypeOK, PairConsistent, CallOK
<1>3. (\A q \in Req : CallOK(q) /\ LeaseOK(q))'
  BY SMT DEF TypeOK, CallOK, LeaseOK, PairConsistent
<1>4. OneOpenPair'
  BY SMT DEF TypeOK, OneOpenPair, SameInstrument, Blocked, PairConsistent, CallOK
<1>5. PairsOrdered'
  BY SMT DEF TypeOK, PairsOrdered, Before, CallOK, SameInstrument, Blocked, CoolingDown, PairConsistent
<1>6. (\A d \in Click : ClickOK(d))'
  BY SMT DEF TypeOK, ClickOK, CallOK, LeaseOK, PairConsistent
<1>7. DecidedWithinLease'
  BY SMT DEF TypeOK, DecidedWithinLease, ClickOK, LeaseOK, CallOK
<1>8. OneExecution'
  BY SMT DEF TypeOK, OneExecution, ClickOK, PairConsistent
<1> QED
  BY <1>1, <1>2, <1>3, <1>4, <1>5, <1>6, <1>7, <1>8

LEMMA SlackFailsInv == ASSUME NEW r \in Req, IInv, SlackFails(r) PROVE IInv'
<1> USE DEF IInv, SlackFails
<1>1. TypeOK'
  BY SMT DEF TypeOK
<1>2. PairConsistent'
  BY SMT DEF TypeOK, PairConsistent, CallOK
<1>3. (\A q \in Req : CallOK(q) /\ LeaseOK(q))'
  BY SMT DEF TypeOK, CallOK, LeaseOK, PairConsistent
<1>4. OneOpenPair'
  BY SMT DEF TypeOK, OneOpenPair, SameInstrument, Blocked, PairConsistent, CallOK
<1>5. PairsOrdered'
  BY SMT DEF TypeOK, PairsOrdered, Before, CallOK, SameInstrument, Blocked, CoolingDown, PairConsistent
<1>6. (\A d \in Click : ClickOK(d))'
  BY SMT DEF TypeOK, ClickOK, CallOK, LeaseOK, PairConsistent
<1>7. DecidedWithinLease'
  BY SMT DEF TypeOK, DecidedWithinLease, ClickOK, LeaseOK, CallOK
<1>8. OneExecution'
  BY SMT DEF TypeOK, OneExecution, ClickOK, PairConsistent
<1> QED
  BY <1>1, <1>2, <1>3, <1>4, <1>5, <1>6, <1>7, <1>8

LEMMA FinalizeInv == ASSUME NEW r \in Req, IInv, Finalize(r) PROVE IInv'
<1> USE DEF IInv, Finalize
<1>1. TypeOK'
  BY SMT DEF TypeOK, CallOK
<1>2. PairConsistent'
  BY SMT DEF TypeOK, PairConsistent, CallOK
<1>3. (\A q \in Req : CallOK(q) /\ LeaseOK(q))'
  BY SMT DEF TypeOK, CallOK, LeaseOK, PairConsistent
<1>4. OneOpenPair'
  BY SMT DEF TypeOK, OneOpenPair, SameInstrument, Blocked, PairConsistent, CallOK
<1>5. PairsOrdered'
  BY SMT DEF TypeOK, PairsOrdered, Before, CallOK, SameInstrument, Blocked, CoolingDown, PairConsistent
<1>6. (\A d \in Click : ClickOK(d))'
  BY SMT DEF TypeOK, ClickOK, CallOK, LeaseOK, PairConsistent
<1>7. DecidedWithinLease'
  BY SMT DEF TypeOK, DecidedWithinLease, ClickOK, LeaseOK, CallOK
<1>8. OneExecution'
  BY SMT DEF TypeOK, OneExecution, ClickOK, PairConsistent
<1> QED
  BY <1>1, <1>2, <1>3, <1>4, <1>5, <1>6, <1>7, <1>8

LEMMA ExpireUndeliveredInv == ASSUME NEW r \in Req, IInv, ExpireUndelivered(r) PROVE IInv'
<1> USE DEF IInv, ExpireUndelivered, Expire
<1>1. TypeOK'
  BY SMT DEF TypeOK
<1>2. PairConsistent'
  BY SMT DEF TypeOK, PairConsistent, CallOK
<1>3. (\A q \in Req : CallOK(q) /\ LeaseOK(q))'
  BY SMT DEF TypeOK, CallOK, LeaseOK, PairConsistent
<1>4. OneOpenPair'
  BY SMT DEF TypeOK, OneOpenPair, SameInstrument, Blocked, PairConsistent, CallOK
<1>5. PairsOrdered'
  BY SMT DEF TypeOK, PairsOrdered, Before, CallOK, SameInstrument, Blocked, CoolingDown, PairConsistent
<1>6. (\A d \in Click : ClickOK(d))'
  BY SMT DEF TypeOK, ClickOK, CallOK, LeaseOK, PairConsistent
<1>7. DecidedWithinLease'
  BY SMT DEF TypeOK, DecidedWithinLease, ClickOK, LeaseOK, CallOK
<1>8. OneExecution'
  BY SMT DEF TypeOK, OneExecution, ClickOK, PairConsistent
<1> QED
  BY <1>1, <1>2, <1>3, <1>4, <1>5, <1>6, <1>7, <1>8

LEMMA RequestDiesInv == ASSUME NEW r \in Req, IInv, RequestDies(r) PROVE IInv'
<1> USE DEF IInv, RequestDies
<1>1. TypeOK'
  BY SMT DEF TypeOK
<1>2. PairConsistent'
  BY SMT DEF TypeOK, PairConsistent, CallOK
<1>3. (\A q \in Req : CallOK(q) /\ LeaseOK(q))'
  BY SMT DEF TypeOK, CallOK, LeaseOK, PairConsistent
<1>4. OneOpenPair'
  BY SMT DEF TypeOK, OneOpenPair, SameInstrument, Blocked, PairConsistent, CallOK
<1>5. PairsOrdered'
  BY SMT DEF TypeOK, PairsOrdered, Before, CallOK, SameInstrument, Blocked, CoolingDown, PairConsistent
<1>6. (\A d \in Click : ClickOK(d))'
  BY SMT DEF TypeOK, ClickOK, CallOK, LeaseOK, PairConsistent
<1>7. DecidedWithinLease'
  BY SMT DEF TypeOK, DecidedWithinLease, ClickOK, LeaseOK, CallOK
<1>8. OneExecution'
  BY SMT DEF TypeOK, OneExecution, ClickOK, PairConsistent
<1> QED
  BY <1>1, <1>2, <1>3, <1>4, <1>5, <1>6, <1>7, <1>8

LEMMA SubmissionEndsInv == ASSUME NEW r \in Req, IInv, SubmissionEnds(r) PROVE IInv'
<1> USE DEF IInv, SubmissionEnds
<1>1. TypeOK'
  BY SMT DEF TypeOK
<1>2. PairConsistent'
  BY SMT DEF TypeOK, PairConsistent, CallOK
<1>3. (\A q \in Req : CallOK(q) /\ LeaseOK(q))'
  BY SMT DEF TypeOK, CallOK, LeaseOK, PairConsistent
<1>4. OneOpenPair'
  BY SMT DEF TypeOK, OneOpenPair, SameInstrument, Blocked, PairConsistent, CallOK
<1>5. PairsOrdered'
  BY SMT DEF TypeOK, PairsOrdered, Before, CallOK, SameInstrument, Blocked, CoolingDown, PairConsistent
<1>6. (\A d \in Click : ClickOK(d))'
  BY SMT DEF TypeOK, ClickOK, CallOK, LeaseOK, PairConsistent
<1>7. DecidedWithinLease'
  BY SMT DEF TypeOK, DecidedWithinLease, ClickOK, LeaseOK, CallOK
<1>8. OneExecution'
  BY SMT DEF TypeOK, OneExecution, ClickOK, PairConsistent
<1> QED
  BY <1>1, <1>2, <1>3, <1>4, <1>5, <1>6, <1>7, <1>8

LEMMA ReadPairInv == ASSUME NEW c \in Click, NEW r \in Req, NEW a \in BOOLEAN, IInv, ReadPair(c, r, a) PROVE IInv'
<1> USE DEF IInv, ReadPair
<1>1. TypeOK'
  BY SMT DEF TypeOK
<1>2. PairConsistent'
  BY SMT DEF TypeOK, PairConsistent, CallOK
<1>3. (\A q \in Req : CallOK(q) /\ LeaseOK(q))'
  BY SMT DEF TypeOK, CallOK, LeaseOK, PairConsistent
<1>4. OneOpenPair'
  BY SMT DEF TypeOK, OneOpenPair, SameInstrument, Blocked, PairConsistent, CallOK
<1>5. PairsOrdered'
  BY SMT DEF TypeOK, PairsOrdered, Before, CallOK, SameInstrument, Blocked, CoolingDown, PairConsistent
<1>6. (\A d \in Click : ClickOK(d))'
  BY SMT DEF TypeOK, ClickOK, CallOK, LeaseOK, PairConsistent
<1>7. DecidedWithinLease'
  BY SMT DEF TypeOK, DecidedWithinLease, ClickOK, LeaseOK, CallOK
<1>8. OneExecution'
  BY SMT DEF TypeOK, OneExecution, ClickOK, PairConsistent
<1> QED
  BY <1>1, <1>2, <1>3, <1>4, <1>5, <1>6, <1>7, <1>8

LEMMA ExpireClickedInv == ASSUME NEW c \in Click, IInv, ExpireClicked(c) PROVE IInv'
<1> USE DEF IInv, ExpireClicked, Expire
<1>1. TypeOK'
  BY SMT DEF TypeOK
<1>2. PairConsistent'
  BY SMT DEF TypeOK, PairConsistent, CallOK
<1>3. (\A q \in Req : CallOK(q) /\ LeaseOK(q))'
  BY SMT DEF TypeOK, CallOK, LeaseOK, PairConsistent
<1>4. OneOpenPair'
  BY SMT DEF TypeOK, OneOpenPair, SameInstrument, Blocked, PairConsistent, CallOK
<1>5. PairsOrdered'
  BY SMT DEF TypeOK, PairsOrdered, Before, CallOK, SameInstrument, Blocked, CoolingDown, PairConsistent
<1>6. (\A d \in Click : ClickOK(d))'
  BY SMT DEF TypeOK, ClickOK, CallOK, LeaseOK, PairConsistent
<1>7. DecidedWithinLease'
  BY SMT DEF TypeOK, DecidedWithinLease, ClickOK, LeaseOK, CallOK
<1>8. OneExecution'
  BY SMT DEF TypeOK, OneExecution, ClickOK, PairConsistent
<1> QED
  BY <1>1, <1>2, <1>3, <1>4, <1>5, <1>6, <1>7, <1>8

LEMMA ClaimPairInv == ASSUME NEW c \in Click, IInv, ClaimPair(c) PROVE IInv'
<1> USE DEF IInv, ClaimPair
<1>1. TypeOK'
  <2> DEFINE C == [phase : {"idle", "expiring", "claiming", "executing"},
                   req : Req \cup {NoReq}, now : Nat, approve : BOOLEAN]
  <2>1. click \in [Click -> C]
    BY DEF TypeOK
  <2>2. IdleClick \in C
    BY SMT
  <2>3. [click[c] EXCEPT !.phase = "executing"] \in C
    BY <2>1, SMT
  <2>4. \E new \in C : click' = [click EXCEPT ![c] = new]
    BY <2>2, <2>3
  <2> HIDE DEF C
  <2>5. click' \in [Click -> C]
    BY <2>1, <2>4
  <2> USE DEF C
  <2>6. approval' \in [Req -> Approval] /\ trade' \in [Req -> Trade]
    BY SMT DEF TypeOK
  <2>7. respondedAt' \in [Req -> Time]
    <3>1. click[c].now \in Nat
      BY <2>1
    <3>2. respondedAt' \in {respondedAt, [respondedAt EXCEPT ![click[c].req] = click[c].now]}
      BY Zenon
    <3>3. respondedAt \in [Req -> Time]
      BY DEF TypeOK
    <3> HIDE DEF IInv, ClaimPair
    <3> QED
      BY <3>1, <3>2, <3>3, SMT
  <2> QED
    BY <2>5, <2>6, <2>7 DEF TypeOK
<1>2. PairConsistent'
  BY SMT DEF TypeOK, PairConsistent, CallOK
<1>3. (\A q \in Req : CallOK(q) /\ LeaseOK(q))'
  BY SMT DEF TypeOK, CallOK, LeaseOK, PairConsistent
<1>4. OneOpenPair'
  BY SMT DEF TypeOK, OneOpenPair, SameInstrument, Blocked, PairConsistent, CallOK
<1>5. PairsOrdered'
  BY SMT DEF TypeOK, PairsOrdered, Before, CallOK, SameInstrument, Blocked, CoolingDown, PairConsistent
<1>6. (\A d \in Click : ClickOK(d))'
  BY SMT DEF TypeOK, ClickOK, CallOK, LeaseOK, PairConsistent
<1>7. DecidedWithinLease'
  BY SMT DEF TypeOK, DecidedWithinLease, ClickOK, LeaseOK, CallOK
<1>8. OneExecution'
  BY SMT DEF TypeOK, OneExecution, ClickOK, PairConsistent
<1> QED
  BY <1>1, <1>2, <1>3, <1>4, <1>5, <1>6, <1>7, <1>8

LEMMA ClickEndsInv == ASSUME NEW c \in Click, IInv, ClickEnds(c) PROVE IInv'
<1> USE DEF IInv, ClickEnds
<1>1. TypeOK'
  BY SMT DEF TypeOK
<1>2. PairConsistent'
  BY SMT DEF TypeOK, PairConsistent, CallOK
<1>3. (\A q \in Req : CallOK(q) /\ LeaseOK(q))'
  BY SMT DEF TypeOK, CallOK, LeaseOK, PairConsistent
<1>4. OneOpenPair'
  BY SMT DEF TypeOK, OneOpenPair, SameInstrument, Blocked, PairConsistent, CallOK
<1>5. PairsOrdered'
  BY SMT DEF TypeOK, PairsOrdered, Before, CallOK, SameInstrument, Blocked, CoolingDown, PairConsistent
<1>6. (\A d \in Click : ClickOK(d))'
  BY SMT DEF TypeOK, ClickOK, CallOK, LeaseOK, PairConsistent
<1>7. DecidedWithinLease'
  BY SMT DEF TypeOK, DecidedWithinLease, ClickOK, LeaseOK, CallOK
<1>8. OneExecution'
  BY SMT DEF TypeOK, OneExecution, ClickOK, PairConsistent
<1> QED
  BY <1>1, <1>2, <1>3, <1>4, <1>5, <1>6, <1>7, <1>8

LEMMA StutterInv == ASSUME IInv, UNCHANGED vars PROVE IInv'
  BY SMT DEF vars, IInv, TypeOK, PairConsistent, CallOK, LeaseOK, OneOpenPair, PairsOrdered,
             Before, ClickOK, DecidedWithinLease, OneExecution, SameInstrument

LEMMA StepInv == ASSUME IInv, [Next]_vars PROVE IInv'
  BY TickInv, CrashInv, CallRequestInv, ExpireDueInv, AdmitRequestInv, SlackPostsInv,
     SlackFailsInv, FinalizeInv, ExpireUndeliveredInv, RequestDiesInv, SubmissionEndsInv,
     ReadPairInv, ExpireClickedInv, ClaimPairInv, ClickEndsInv, StutterInv
  DEF Next, RequestStep, ClickStep

\* Every reachable state satisfies the inductive invariant.
THEOREM Invariance == Spec => []IInv
  BY InitInv, StepInv, PTL DEF Spec

\* All variables keep their types, for any leases and any number of requests.
THEOREM TypeCorrect == Spec => []TypeOK
<1>1. IInv => TypeOK
  BY DEF IInv
<1> QED
  BY <1>1, Invariance, PTL

\* The two rows of a pair never disagree.
THEOREM PairsAgree == Spec => []PairConsistent
<1>1. IInv => PairConsistent
  BY DEF IInv
<1> QED
  BY <1>1, Invariance, PTL

\* Only one click executes an approval.
THEOREM ExecutedOnce == Spec => []OneExecution
<1>1. IInv => OneExecution
  BY DEF IInv
<1> QED
  BY <1>1, Invariance, PTL

\* Decisions fall within the lease counted from a stored delivery.
THEOREM DecidedInTime == Spec => []DecidedWithinLease
<1>1. IInv => DecidedWithinLease
  BY DEF IInv
<1> QED
  BY <1>1, Invariance, PTL

\* Delivered messages of an instrument lie a cooldown apart.
THEOREM MessagesSpaced == Spec => []CooldownKept
<1>1. IInv => CooldownKept
  BY SMT DEF IInv, TypeOK, CooldownKept, PairsOrdered, Before, LeaseOK, SameInstrument
<1> QED
  BY <1>1, Invariance, PTL

\* No step changes a decision that was taken.
LEMMA FinalStep ==
  ASSUME IInv, [Next]_vars
  PROVE  \A r \in Req : approval[r] \in {"APPROVED", "REJECTED", "EXPIRED"}
           => approval'[r] = approval[r] /\ notifiedAt'[r] = notifiedAt[r]
              /\ respondedAt'[r] = respondedAt[r]
  BY SMT DEF IInv, TypeOK, CallOK, PairConsistent, Next, RequestStep, ClickStep, Tick, Crash,
             CallRequest, ExpireDue, AdmitRequest, SlackPosts, SlackFails, Finalize,
             ExpireUndelivered, RequestDies, SubmissionEnds, ReadPair, ExpireClicked, ClaimPair,
             ClickEnds, Expire, Due, vars

\* A decision is final.
THEOREM DecisionsStand == Spec => DecisionIsFinal
  BY FinalStep, Invariance, PTL DEF Spec, DecisionIsFinal
=============================================================================
