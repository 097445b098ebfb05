---------------------------- MODULE OpenOrderProofs ----------------------------
(***************************************************************************)
(* The inductive invariant of OpenOrder and its proofs.  An open row that  *)
(* equals what a flow loaded ties the flow's old knowledge to the present: *)
(* PassOK and InspOK say what an old answer of the broker still says.      *)
(***************************************************************************)
EXTENDS OpenOrder, TLAPS

BrokerOK == /\ ord \in {"unsent", "refused"} => filled = 0
            /\ ord = "live" => filled < Q

\* What the status of the row says of its columns and of the order.
RowOK ==
  /\ row.status = "SUBMITTING" => row = NewRow
  /\ row.status # "SUBMITTING" => ord # "unsent"
  /\ row.status = "PENDING" => row.named /\ row.executed = 0
  /\ row.status = "PARTIAL" => row.executed > 0
  /\ row.executed <= filled
  /\ row.cancel = "RESOLVED" => Closed
  /\ row.cancel \in {"SUBMITTING", "ACCEPTED", "UNKNOWN"} => IsOpen(row)

\* What a listing of the order, however old, still says of it.
SnapshotOK(e) ==
  e.listed => /\ ord # "unsent" /\ e.filled <= filled
              /\ e.rejected => ord = "refused"
              /\ e.remaining = 0 => ord \in {"dead", "refused"} /\ e.filled = filled

\* What a pass in state s knows at each of its points.
PassOK(s) ==
  /\ s.phase \in {"executions", "unfilled", "loaded"} =>
       /\ SnapshotOK(s.exec)
       /\ ~s.exec.listed /\ ~s.early => ord = "dead" /\ filled = 0
  /\ s.phase \in {"unfilled", "loaded"} /\ s.exec.listed /\ ~s.open => ord \in {"dead", "refused"}
  /\ s.phase = "loaded" => /\ IsOpen(s.row) /\ s.row.cancel # "RESOLVED"
                           /\ s.row.executed <= filled
                           /\ s.row.cancel = "ACCEPTED" => row = s.row \/ Closed
                           /\ s.aged => aged
  /\ s.early /\ ~ApprovedSell => ~aged

\* What an inspection knows.
InspOK(s) ==
  s.phase # "idle" => /\ IsOpen(s.row) /\ s.row.cancel = "UNKNOWN"
                      /\ ord # "unsent"
                      /\ SnapshotOK(s.exec)
                      /\ s.phase = "unfilled" /\ ~s.open => ord \in {"dead", "refused"}

AgedOK == ord = "unsent" /\ ~ApprovedSell => ~aged

\* Shares told, or about to be, are told once, and an open row counts them.
ToldOK ==
  /\ \A n \in 1..Q : heard[n] <= 1
  /\ \A n \in 1..Q, p \in Pass : Telling(p, n) => heard[n] = 0 /\ (~Closed => n <= row.executed)
  /\ \A n \in 1..Q, p, q \in Pass : Telling(p, n) /\ Telling(q, n) => p = q
  /\ ~Closed => \A n \in 1..Q : heard[n] > 0 => n <= row.executed

\* A failure told, or about to be, is the only news there ever was.
FailedOK ==
  /\ failed <= 1
  /\ \A p \in Pass : Failing(p) => failed = 0
  /\ \A p, q \in Pass : Failing(p) /\ Failing(q) => p = q
  /\ failed = 1 \/ (\E p \in Pass : Failing(p)) =>
       /\ Closed
       /\ \A n \in 1..Q : heard[n] = 0 /\ \A p \in Pass : ~Telling(p, n)

DownOK == ~up => /\ \A p \in Pass : pass[p].phase = "idle"
                 /\ \A c \in Canceller : canc[c].phase = "idle"
                 /\ \A i \in Inspector : insp[i].phase = "idle"

\* A row created minutes before its POST is outside of this: see ApprovedSell.
ClosedOK == ~ApprovedSell => ClosedMeansDead /\ UncancelledCountsFills

IInv == /\ TypeOK
        /\ BrokerOK
        /\ RowOK
        /\ \A p \in Pass : PassOK(pass[p])
        /\ \A i \in Inspector : InspOK(insp[i])
        /\ AgedOK
        /\ ToldOK
        /\ FailedOK
        /\ CancelExclusive
        /\ DownOK
        /\ ClosedOK
-----------------------------------------------------------------------------
USE QuantityAssumption, FlagsAssumption
USE DEF OrderState, RowStatus, Cancellation, Row, Listing, brokerVars, flowVars, toldVars

LEMMA InitInv == Init => IInv
  BY SMT DEF Init, IInv, TypeOK, PassState, CancState, InspState, NewRow, NotListed, IdlePass,
             IdleCanc, IdleInsp, BrokerOK, RowOK, PassOK, SnapshotOK, InspOK, AgedOK, ToldOK, Telling,
             FailedOK, Failing, CancelExclusive, DownOK, ClosedOK, Closed, ClosedMeansDead,
             UncancelledCountsFills, ClosedCountsFills

-----------------------------------------------------------------------------
(* What the parts of the invariant depend on. *)

\* A step that makes no news.
LEMMA NoNews ==
  ASSUME IInv, UNCHANGED toldVars, row' \in Row,
         \A p \in Pass : pass'[p] = pass[p] \/ pass'[p].phase # "news",
         Closed => Closed', ~Closed' => row'.executed >= row.executed
  PROVE  ToldOK' /\ FailedOK'
<1> USE DEF IInv, TypeOK, Telling, Failing
<1>1. \A p \in Pass, n \in 1..Q : Telling(p, n)' => Telling(p, n)
  BY SMT
<1>2. \A p \in Pass : Failing(p)' => Failing(p)
  BY SMT
<1>3. ToldOK'
  BY <1>1, SMT DEF ToldOK
<1>4. FailedOK'
  BY <1>1, <1>2, SMT DEF FailedOK
<1> QED
  BY <1>3, <1>4

\* A pass that won its update of an open row has news of the shares it added.
LEMMA NewFill ==
  ASSUME IInv, UNCHANGED toldVars, row' \in Row, ~Closed,
         NEW p \in Pass, NEW s \in PassState, pass' = [pass EXCEPT ![p] = s],
         s.phase = "news", s.news = "fill",
         s.from = row.executed, s.upto = row'.executed, row'.executed > row.executed
  PROVE  ToldOK' /\ FailedOK'
<1> USE DEF IInv, TypeOK, Telling, Failing
<1>1. \A q \in Pass, n \in 1..Q :
        Telling(q, n)' => \/ q # p /\ Telling(q, n)
                          \/ q = p /\ row.executed < n /\ n <= row'.executed
  BY SMT
<1>2. \A q \in Pass : Failing(q)' => Failing(q)
  BY SMT
<1>3. ToldOK'
  BY <1>1, SMT DEF ToldOK
<1>4. FailedOK'
  BY <1>1, <1>2, SMT DEF FailedOK
<1> QED
  BY <1>3, <1>4

\* A pass that closed a row without shares has news of the failure.
LEMMA NewFailure ==
  ASSUME IInv, UNCHANGED toldVars, row' \in Row, ~Closed, Closed', row.executed = 0,
         NEW p \in Pass, NEW s \in PassState, pass' = [pass EXCEPT ![p] = s],
         s.phase = "news", s.news = "failure"
  PROVE  ToldOK' /\ FailedOK'
<1> USE DEF IInv, TypeOK, Telling, Failing
<1>1. \A q \in Pass, n \in 1..Q : ~Telling(q, n) /\ heard[n] = 0
  BY SMT DEF ToldOK
<1>2. \A q \in Pass, n \in 1..Q : ~Telling(q, n)'
  BY <1>1, SMT
<1>3. failed = 0 /\ \A q \in Pass : ~Failing(q)
  BY SMT DEF FailedOK
<1>4. \A q \in Pass : Failing(q)' => q = p
  BY <1>3, SMT
<1>5. ToldOK'
  BY <1>1, <1>2, SMT DEF ToldOK
<1>6. FailedOK'
  BY <1>1, <1>2, <1>3, <1>4, SMT DEF FailedOK
<1> QED
  BY <1>5, <1>6

-----------------------------------------------------------------------------
(* Passes. *)

LEMMA IdleTypes == IdlePass \in PassState /\ IdleCanc \in CancState /\ IdleInsp \in InspState
  BY SMT DEF IdlePass, IdleCanc, IdleInsp, PassState, CancState, InspState, NewRow, NotListed

\* A pass goes on, and has nothing to tell.
LEMMA PassMoves ==
  ASSUME IInv, NEW p \in Pass, NEW s \in PassState, PassOK(s), PassTo(p, s),
         s.phase # "news", up \/ s.phase = "idle",
         UNCHANGED <<brokerVars, row, aged, canc, insp, toldVars, up>>,
         faults' \in 0..MaxFaults
  PROVE  IInv'
<1> USE DEF PassTo
<1>1. TypeOK'
  BY SMT DEF IInv, TypeOK
<1>2. ToldOK' /\ FailedOK'
  <2>1. \A q \in Pass : pass'[q] = pass[q] \/ pass'[q].phase # "news"
    BY SMT DEF IInv, TypeOK
  <2>2. row \in Row /\ (Closed => Closed')
    BY SMT DEF IInv, TypeOK, Closed
  <2> QED
    BY <2>1, <2>2, NoNews, SMT
<1>3. \A q \in Pass : PassOK(pass[q])'
  <2> TAKE q \in Pass
  <2>1. pass'[q] = pass[q] \/ pass'[q] = s
    BY SMT DEF IInv, TypeOK
  <2>2. PassOK(pass[q]) /\ PassOK(s)
    BY DEF IInv
  <2> QED
    BY <2>1, <2>2, SMT DEF PassOK, SnapshotOK, Closed, IsOpen
<1>4. BrokerOK' /\ RowOK' /\ AgedOK' /\ ClosedOK' /\ CancelExclusive'
  BY SMT DEF IInv, BrokerOK, RowOK, AgedOK, ClosedOK, Closed, ClosedMeansDead, IsOpen,
             UncancelledCountsFills, ClosedCountsFills, CancelExclusive
<1>5. \A i \in Inspector : InspOK(insp[i])'
  BY SMT DEF IInv, InspOK, SnapshotOK, IsOpen
<1>6. DownOK'
  BY SMT DEF IInv, DownOK, TypeOK
<1> QED
  BY <1>1, <1>2, <1>3, <1>4, <1>5, <1>6 DEF IInv

\* A pass wins its update of an open row under no cancel attempt.
LEMMA UpdateWins ==
  ASSUME IInv, NEW p \in Pass, NEW s \in PassState, PassTo(p, s), up, ~s.early,
         UNCHANGED <<brokerVars, aged, canc, insp, toldVars, up, faults>>,
         row' \in Row, RowOK', ClosedOK',
         ~Closed, ~Attempting(row), row.cancel = "ACCEPTED" => Closed',
         \/ s.phase = "idle" /\ row'.executed >= row.executed
         \/ /\ s.phase = "news" /\ s.news = "fill"
            /\ s.from = row.executed /\ s.upto = row'.executed /\ row'.executed > row.executed
         \/ s.phase = "news" /\ s.news = "failure" /\ Closed' /\ row.executed = 0
  PROVE  IInv'
<1> USE DEF PassTo
<1>1. TypeOK'
  BY SMT DEF IInv, TypeOK
<1>2. ToldOK' /\ FailedOK'
  <2>1. CASE s.phase = "idle" /\ row'.executed >= row.executed
    <3>1. \A q \in Pass : pass'[q] = pass[q] \/ pass'[q].phase # "news"
      BY <2>1, SMT DEF IInv, TypeOK
    <3> QED
      BY <2>1, <3>1, NoNews, SMT
  <2>2. CASE /\ s.phase = "news" /\ s.news = "fill"
             /\ s.from = row.executed /\ s.upto = row'.executed /\ row'.executed > row.executed
    BY <2>2, NewFill
  <2>3. CASE s.phase = "news" /\ s.news = "failure" /\ Closed' /\ row.executed = 0
    BY <2>3, NewFailure
  <2> QED
    BY <2>1, <2>2, <2>3
<1>3. \A q \in Pass : PassOK(pass[q])'
  <2> TAKE q \in Pass
  <2>1. CASE pass'[q] = s
    BY <2>1, SMT DEF PassOK, SnapshotOK
  <2>2. CASE pass'[q] = pass[q]
    <3>1. PassOK(pass[q]) /\ pass[q] \in PassState
      BY SMT DEF IInv, TypeOK
    <3> QED
      BY <2>2, <3>1, SMT DEF PassOK, SnapshotOK
  <2> QED
    BY <2>1, <2>2, SMT DEF IInv, TypeOK
<1>4. BrokerOK' /\ AgedOK'
  BY SMT DEF IInv, BrokerOK, AgedOK
<1>5. CancelExclusive'
  BY SMT DEF IInv, CancelExclusive, Attempting
<1>6. \A i \in Inspector : InspOK(insp[i])'
  <2> TAKE i \in Inspector
  <2>1. InspOK(insp[i]) /\ insp[i] \in InspState
    BY SMT DEF IInv, TypeOK
  <2> QED
    BY <2>1, SMT DEF InspOK, SnapshotOK, Attempting, IsOpen
<1>7. DownOK'
  BY SMT DEF IInv, DownOK
<1> QED
  BY <1>1, <1>2, <1>3, <1>4, <1>5, <1>6, <1>7 DEF IInv

\* An answer of the broker says what a snapshot says of the order.
LEMMA ListedOK ==
  ASSUME TypeOK, BrokerOK, ord # "unsent"
  PROVE  Listed \in Listing /\ SnapshotOK(Listed)
<1>1. Remaining \in 0..Q /\ (Remaining = 0 => ord # "live")
  BY SMT DEF TypeOK, BrokerOK, Remaining
<1>2. Listed \in Listing /\ Listed.filled = filled /\ Listed.remaining = Remaining
  BY <1>1, SMT DEF TypeOK, Listed
<1>3. Listed.rejected => ord = "refused"
  BY Zenon DEF Listed
<1> QED
  BY <1>1, <1>2, <1>3, SMT DEF TypeOK, SnapshotOK

LEMMA ExecutionsOK ==
  ASSUME IInv, NEW e \in Executions
  PROVE  e \in Listing /\ SnapshotOK(e)
         /\ (~e.listed => ord = "unsent" \/ (ord = "dead" /\ filled = 0))
<1>1. e = NotListed \/ e = Listed
  BY SMT DEF Executions
<1>2. e = NotListed => ord = "unsent" \/ (ord = "dead" /\ filled = 0)
  BY SMT DEF Executions, Listed, NotListed
<1>3. ord # "unsent" => Listed \in Listing /\ SnapshotOK(Listed)
  BY ListedOK DEF IInv
<1>4. e = Listed /\ e # NotListed => ord # "unsent"
  BY SMT DEF Executions
<1>5. NotListed \in Listing /\ ~NotListed.listed /\ Listed.listed
  BY SMT DEF NotListed, Listed
<1> QED
  BY <1>1, <1>2, <1>3, <1>4, <1>5, SMT DEF SnapshotOK

\* The states a pass moves to, and their fields.
LEMMA Answered ==
  ASSUME NEW e \in Listing, NEW b \in BOOLEAN
  PROVE  LET s == [IdlePass EXCEPT !.phase = "executions", !.exec = e, !.early = b]
         IN  s \in PassState /\ s.phase = "executions" /\ s.exec = e /\ (s.early <=> b)
<1>1. [IdlePass EXCEPT !.phase = "executions", !.exec = e, !.early = b] \in PassState
  BY IdleTypes, Zenon DEF PassState
<1> QED
  BY <1>1, IdleTypes, SMT DEF PassState

LEMMA Looked ==
  ASSUME NEW s \in PassState, NEW b \in BOOLEAN
  PROVE  LET t == [s EXCEPT !.phase = "unfilled", !.open = b]
         IN  /\ t \in PassState /\ t.phase = "unfilled" /\ t.exec = s.exec
             /\ t.early = s.early /\ (t.open <=> b)
<1>1. [s EXCEPT !.phase = "unfilled", !.open = b] \in PassState
  BY Zenon DEF PassState
<1> QED
  BY <1>1, SMT DEF PassState

LEMMA Loaded ==
  ASSUME NEW s \in PassState, row \in Row, aged \in BOOLEAN
  PROVE  LET t == [s EXCEPT !.phase = "loaded", !.row = row, !.aged = aged]
         IN  /\ t \in PassState /\ t.phase = "loaded" /\ t.exec = s.exec
             /\ t.early = s.early /\ t.open = s.open /\ t.row = row /\ (t.aged <=> aged)
<1>1. [s EXCEPT !.phase = "loaded", !.row = row, !.aged = aged] \in PassState
  BY Zenon DEF PassState
<1> QED
  BY <1>1, SMT DEF PassState

LEMMA ReadExecutionsInv == ASSUME IInv, NEW p \in Pass, ReadExecutions(p) PROVE IInv'
<1>1. PICK e \in Executions : PassTo(p, [IdlePass EXCEPT !.phase = "executions", !.exec = e,
                                                        !.early = (ord = "unsent")])
  BY DEF ReadExecutions
<1> DEFINE s == [IdlePass EXCEPT !.phase = "executions", !.exec = e, !.early = (ord = "unsent")]
<1>2. e \in Listing /\ SnapshotOK(e) /\ (~e.listed => ord = "unsent" \/ (ord = "dead" /\ filled = 0))
  BY ExecutionsOK
<1>3. /\ s \in PassState /\ s.phase = "executions" /\ s.exec = e
      /\ s.early <=> ord = "unsent"
  <2>1. (ord = "unsent") \in BOOLEAN
    OBVIOUS
  <2> QED
    BY <1>2, <2>1, Answered
<1>4. PassOK(s)
  <2>1. ord = "unsent" /\ ~ApprovedSell => ~aged
    BY DEF IInv, AgedOK
  <2> QED
    BY <1>2, <1>3, <2>1, SMT DEF PassOK
<1>5. faults' \in 0..MaxFaults
  BY SMT DEF ReadExecutions, IInv, TypeOK
<1> HIDE DEF s
<1> QED
  BY <1>1, <1>3, <1>4, <1>5, PassMoves DEF ReadExecutions, s

LEMMA ReadUnfilledInv == ASSUME IInv, NEW p \in Pass, ReadUnfilled(p) PROVE IInv'
<1> DEFINE s == [pass[p] EXCEPT !.phase = "unfilled", !.open = StillOpen]
<1>1. pass[p] \in PassState /\ PassOK(pass[p]) /\ pass[p].phase = "executions" /\ up
  BY SMT DEF IInv, TypeOK, DownOK, ReadUnfilled
<1>2. /\ s \in PassState /\ s.phase = "unfilled" /\ s.exec = pass[p].exec
      /\ s.early = pass[p].early /\ (s.open <=> ord = "live")
  <2>1. StillOpen \in BOOLEAN /\ (StillOpen <=> ord = "live")
    BY DEF StillOpen
  <2> HIDE DEF StillOpen
  <2> QED
    BY <1>1, <2>1, Looked
<1>3. PassOK(s)
  <2>1. ord \in OrderState
    BY DEF IInv, TypeOK
  <2> QED
    BY <1>1, <1>2, <2>1, SMT DEF PassOK, SnapshotOK
<1>4. faults' \in 0..MaxFaults
  BY SMT DEF ReadUnfilled, IInv, TypeOK
<1>5. PassTo(p, s)
  BY DEF ReadUnfilled
<1> HIDE DEF s
<1> QED
  BY <1>1, <1>2, <1>3, <1>4, <1>5, PassMoves, SMT DEF ReadUnfilled

\* A pass ends, in any phase.
LEMMA PassEnds ==
  ASSUME IInv, NEW p \in Pass, PassTo(p, IdlePass),
         UNCHANGED <<brokerVars, row, aged, canc, insp, toldVars, up>>,
         faults' \in 0..MaxFaults
  PROVE  IInv'
<1>1. IdlePass \in PassState /\ IdlePass.phase = "idle" /\ ~IdlePass.early
  BY IdleTypes, SMT DEF IdlePass
<1>2. PassOK(IdlePass)
  BY <1>1, SMT DEF PassOK
<1> QED
  BY <1>1, <1>2, PassMoves, SMT

LEMMA LoadOpenRecordsInv == ASSUME IInv, NEW p \in Pass, LoadOpenRecords(p) PROVE IInv'
<1>1. pass[p] \in PassState /\ PassOK(pass[p]) /\ pass[p].phase = "unfilled" /\ up
  BY SMT DEF IInv, TypeOK, DownOK, LoadOpenRecords
<1>2. faults' \in 0..MaxFaults
  BY SMT DEF LoadOpenRecords, IInv, TypeOK
<1>3. CASE IsOpen(row)
  <2> DEFINE s == [pass[p] EXCEPT !.phase = "loaded", !.row = row, !.aged = aged]
  <2>1. /\ s \in PassState /\ s.phase = "loaded" /\ s.exec = pass[p].exec
        /\ s.early = pass[p].early /\ s.open = pass[p].open /\ s.row = row /\ (s.aged <=> aged)
    <3>1. row \in Row /\ aged \in BOOLEAN
      BY DEF IInv, TypeOK
    <3>2. pass[p] \in PassState
      BY <1>1
    <3> QED
      BY <3>1, <3>2, Loaded DEF s
  <2>2. row.cancel # "RESOLVED" /\ row.executed <= filled
    BY <1>3, SMT DEF IInv, RowOK, IsOpen, Closed
  <2>3. PassOK(s)
    BY <1>1, <1>3, <2>1, <2>2, SMT DEF PassOK
  <2>4. PassTo(p, s)
    BY <1>3 DEF LoadOpenRecords
  <2> HIDE DEF s
  <2> QED
    BY <1>1, <1>2, <2>1, <2>3, <2>4, PassMoves, SMT DEF LoadOpenRecords
<1>4. CASE ~IsOpen(row)
  BY <1>2, <1>4, PassEnds, SMT DEF LoadOpenRecords
<1> QED
  BY <1>3, <1>4

LEMMA LeaveRecordInv == ASSUME IInv, NEW p \in Pass, LeaveRecord(p) PROVE IInv'
<1>1. faults' \in 0..MaxFaults
  BY SMT DEF LeaveRecord, IInv, TypeOK
<1> QED
  BY <1>1, PassEnds, SMT DEF LeaveRecord

LEMMA PassFailsInv == ASSUME IInv, NEW p \in Pass, PassFails(p) PROVE IInv'
<1>1. faults' \in 0..MaxFaults
  BY SMT DEF PassFails, IInv, TypeOK
<1> QED
  BY <1>1, PassEnds, SMT DEF PassFails

LEMMA TellStrategyInv == ASSUME IInv, NEW p \in Pass, TellStrategy(p) PROVE IInv'
<1>1. /\ pass[p] \in PassState /\ pass[p].phase = "news" /\ up
      /\ pass'[p] = IdlePass /\ \A q \in Pass : q # p => pass'[q] = pass[q]
  BY SMT DEF IInv, TypeOK, DownOK, TellStrategy, PassTo
<1>2. TypeOK'
  <2>1. pass' \in [Pass -> PassState]
    BY IdleTypes, SMT DEF IInv, TypeOK, TellStrategy, PassTo
  <2>2. heard' \in [1..Q -> Nat] /\ failed' \in Nat
    <3>1. heard \in [1..Q -> Nat] /\ failed \in Nat
      BY DEF IInv, TypeOK
    <3> QED
      BY <3>1, SMT DEF TellStrategy
  <2> QED
    BY <2>1, <2>2, SMT DEF IInv, TypeOK, TellStrategy
<1>3. \A q \in Pass, n \in 1..Q : Telling(q, n)' => q # p /\ Telling(q, n)
  BY <1>1, SMT DEF Telling, IdlePass
<1>4. \A q \in Pass : Failing(q)' => q # p /\ Failing(q)
  BY <1>1, SMT DEF Failing, IdlePass
<1>5. ASSUME pass[p].news = "fill" PROVE ToldOK' /\ FailedOK'
  <2>1. UNCHANGED failed /\ \A n \in 1..Q : heard'[n] = IF Telling(p, n) THEN heard[n] + 1 ELSE heard[n]
    BY <1>1, <1>5, SMT DEF TellStrategy, Telling, PassState
  <2>2. \A n \in 1..Q : heard[n] \in Nat
    BY DEF IInv, TypeOK
  <2>3. Closed' = Closed /\ row' = row
    BY SMT DEF TellStrategy, Closed
  <2>4. ToldOK'
    BY <1>3, <2>1, <2>2, <2>3, SMT DEF IInv, ToldOK
  <2>5. FailedOK'
    BY <1>3, <1>4, <2>1, <2>3, SMT DEF IInv, FailedOK
  <2> QED
    BY <2>4, <2>5
<1>6. ASSUME pass[p].news # "fill" PROVE ToldOK' /\ FailedOK'
  <2>1. UNCHANGED heard /\ failed' = failed + 1 /\ Failing(p)
    BY <1>1, <1>6, SMT DEF TellStrategy, Failing
  <2>2. Closed' = Closed /\ row' = row
    BY SMT DEF TellStrategy, Closed
  <2>3. ToldOK'
    BY <1>3, <2>1, <2>2, SMT DEF IInv, ToldOK
  <2>4. FailedOK'
    BY <1>3, <1>4, <2>1, <2>2, SMT DEF IInv, FailedOK
  <2> QED
    BY <2>3, <2>4
<1>7. \A q \in Pass : PassOK(pass[q])'
  <2> TAKE q \in Pass
  <2>1. PassOK(pass[q]) /\ (pass'[q] = pass[q] \/ pass'[q] = IdlePass)
    BY <1>1, SMT DEF IInv
  <2> QED
    BY <2>1, SMT DEF PassOK, SnapshotOK, Closed, IsOpen, TellStrategy, IdlePass
<1>8. BrokerOK' /\ RowOK' /\ AgedOK' /\ ClosedOK' /\ CancelExclusive'
  BY SMT DEF IInv, BrokerOK, RowOK, AgedOK, ClosedOK, Closed, ClosedMeansDead, IsOpen,
             UncancelledCountsFills, ClosedCountsFills, CancelExclusive, TellStrategy
<1>9. (\A i \in Inspector : InspOK(insp[i])') /\ DownOK'
  BY <1>1, SMT DEF IInv, InspOK, SnapshotOK, IsOpen, DownOK, TellStrategy
<1> QED
  BY <1>2, <1>5, <1>6, <1>7, <1>8, <1>9 DEF IInv

-----------------------------------------------------------------------------
(* The conditional updates of a pass. *)

\* The state of a pass that has to tell of shares a + 1 .. b, or of a failure.
NewsOf(k, a, b) == [IdlePass EXCEPT !.phase = "news", !.news = k, !.from = a, !.upto = b]

LEMMA NewsState ==
  ASSUME NEW k, NEW a \in 0..Q, NEW b \in 0..Q, k = "fill" \/ k = "failure"
  PROVE  /\ NewsOf(k, a, b) \in PassState /\ NewsOf(k, a, b).phase = "news"
         /\ NewsOf(k, a, b).news = k /\ NewsOf(k, a, b).from = a /\ NewsOf(k, a, b).upto = b
         /\ ~NewsOf(k, a, b).early
<1>1. k \in {"none", "fill", "failure"} /\ "news" \in {"idle", "executions", "unfilled", "loaded", "news"}
  OBVIOUS
<1>2. NewsOf(k, a, b) \in PassState
  BY <1>1, IdleTypes, Zenon DEF PassState, NewsOf
<1> QED
  BY <1>2, IdleTypes, SMT DEF PassState, IdlePass, NewsOf

\* The rows that updates write, and their columns.
LEMMA Taken ==
  ASSUME NEW r \in Row, NEW st \in RowStatus, NEW n \in 0..Q, NEW b \in BOOLEAN,
         NEW new, new = [r EXCEPT !.status = st, !.executed = n, !.named = b]
  PROVE  /\ new \in Row /\ new.status = st /\ new.executed = n /\ (new.named <=> b)
         /\ new.cancel = r.cancel
<1>1. new \in Row
  BY Zenon
<1> QED
  BY <1>1, SMT

LEMMA Unnamed ==
  ASSUME NEW r \in Row, NEW new, new = [r EXCEPT !.named = FALSE]
  PROVE  /\ new \in Row /\ new.status = r.status /\ new.executed = r.executed /\ ~new.named
         /\ new.cancel = r.cancel
<1>1. new \in Row
  BY Zenon
<1> QED
  BY <1>1, SMT

LEMMA Dropped ==
  ASSUME NEW r \in Row, NEW new, new = [r EXCEPT !.status = "CANCELLED"]
  PROVE  /\ new \in Row /\ new.status = "CANCELLED" /\ new.executed = r.executed
         /\ new.named = r.named /\ new.cancel = r.cancel
<1>1. new \in Row
  BY Zenon
<1> QED
  BY <1>1, SMT

LEMMA UpdateInv ==
  ASSUME IInv, NEW p \in Pass, pass[p].phase = "loaded",
         NEW wins, NEW new, NEW news \in {"none", "fill", "failure"}, Update(p, wins, new, news),
         wins => /\ ~Closed /\ ~Attempting(row) /\ new \in Row
                 /\ row' = new => RowOK' /\ ClosedOK' /\ (row.cancel = "ACCEPTED" => Closed')
                 /\ news = "none" => new.executed >= row.executed
                 /\ news = "fill" => /\ pass[p].row.executed = row.executed
                                     /\ new.executed > row.executed
                 /\ news = "failure" => row.executed = 0 /\ (row' = new => Closed')
  PROVE  IInv'
<1>1. pass[p] \in PassState /\ up
  BY SMT DEF IInv, TypeOK, DownOK
<1>2. CASE ~wins
  <2>1. faults' \in 0..MaxFaults
    BY DEF Update, IInv, TypeOK
  <2>2. PassTo(p, IdlePass) /\ UNCHANGED <<brokerVars, row, aged, canc, insp, toldVars, up>>
    BY <1>2 DEF Update
  <2> QED
    BY <2>1, <2>2, PassEnds
<1>3. CASE wins /\ news = "none"
  <2>1. PassTo(p, IdlePass) /\ row' = new
    BY <1>3 DEF Update
  <2>2. IdlePass \in PassState /\ IdlePass.phase = "idle" /\ ~IdlePass.early
    BY IdleTypes, SMT DEF IdlePass
  <2>3. UNCHANGED <<brokerVars, aged, canc, insp, toldVars, up, faults>>
    BY DEF Update
  <2> QED
    BY <1>1, <1>3, <2>1, <2>2, <2>3, UpdateWins
<1>4. CASE wins /\ news # "none"
  <2> DEFINE s == NewsOf(news, pass[p].row.executed, new.executed)
  <2>1. PassTo(p, s) /\ row' = new
    BY <1>4 DEF Update, NewsOf
  <2>2. pass[p].row.executed \in 0..Q /\ new.executed \in 0..Q
    BY <1>1, <1>4, SMT DEF PassState
  <2>3. /\ s \in PassState /\ s.phase = "news" /\ s.news = news
        /\ s.from = pass[p].row.executed /\ s.upto = new.executed /\ ~s.early
    BY <1>4, <2>2, NewsState
  <2>4. UNCHANGED <<brokerVars, aged, canc, insp, toldVars, up, faults>>
    BY DEF Update
  <2> HIDE DEF s
  <2> QED
    BY <1>1, <1>4, <2>1, <2>3, <2>4, UpdateWins
<1> QED
  BY <1>2, <1>3, <1>4

\* An open row is updated only by a pass that loaded its open state.
LEMMA SameOpen ==
  ASSUME IInv, NEW p \in Pass, pass[p].phase = "loaded", SameState(row, pass[p].row)
  PROVE  /\ IsOpen(row) /\ ~Closed /\ row.cancel = pass[p].row.cancel
         /\ row.status = pass[p].row.status
         /\ row.cancel = "ACCEPTED" => row = pass[p].row
<1>1. PassOK(pass[p])
  BY DEF IInv
<1> QED
  BY <1>1, SMT DEF PassOK, SameState, IsOpen, Closed

LEMMA CloseAcceptedCancelInv == ASSUME IInv, NEW p \in Pass, CloseAcceptedCancel(p) PROVE IInv'
<1> DEFINE r    == pass[p].row
           n    == Larger(r.executed, pass[p].exec.filled)
           news == IF n > r.executed THEN "fill" ELSE IF n = 0 THEN "failure" ELSE "none"
<1>1. /\ pass[p].phase = "loaded" /\ r.cancel = "ACCEPTED" /\ pass[p].exec.listed /\ ~pass[p].open
      /\ Update(p, SameState(row, r), ClosedBy(r, n), news)
  BY DEF CloseAcceptedCancel
<1>2. /\ pass[p] \in PassState /\ PassOK(pass[p]) /\ filled \in 0..Q /\ ord \in OrderState
      /\ BrokerOK
  BY SMT DEF IInv, TypeOK
<1>3. /\ r \in Row /\ n \in 0..Q /\ r.executed <= n /\ n <= filled
      /\ ord \in {"dead", "refused"}
  BY <1>1, <1>2, SMT DEF PassOK, SnapshotOK, Larger, PassState
<1>4. ClosedBy(r, n) \in Row
  BY <1>3, SMT DEF ClosedBy, ClosingStatus
<1>5. ClosedBy(r, n).executed = n /\ ClosedBy(r, n).cancel = "RESOLVED"
  BY DEF ClosedBy
<1>6. row' = ClosedBy(r, n) => /\ Closed' /\ row'.executed = n /\ row'.cancel = "RESOLVED"
                               /\ row'.status \in {"FILLED", "CANCELLED", "PARTIAL"}
                               /\ row'.status = "PARTIAL" => n > 0
  <2>1. /\ ClosedBy(r, n).status = ClosingStatus(n)
        /\ ClosedBy(r, n).named => ClosingStatus(n) # "PARTIAL"
    BY Zenon DEF ClosedBy
  <2>2. ClosingStatus(n) \in {"FILLED", "CANCELLED", "PARTIAL"} /\ (ClosingStatus(n) = "PARTIAL" => n > 0)
    BY <1>3, SMT DEF ClosingStatus
  <2> HIDE DEF r, n
  <2> QED
    BY <1>5, <2>1, <2>2, SMT DEF Closed
<1>7. UNCHANGED <<ord, filled>>
  BY <1>1 DEF Update
<1>8. row' = ClosedBy(r, n) => RowOK' /\ ClosedOK'
  BY <1>3, <1>6, <1>7, SMT DEF RowOK, ClosedOK, ClosedMeansDead, UncancelledCountsFills
<1>9. SameState(row, r) => ~Closed /\ ~Attempting(row) /\ row = r
  BY <1>1, SameOpen, SMT DEF Attempting
<1>10. news \in {"none", "fill", "failure"} /\ (news = "fill" => n > r.executed)
       /\ (news = "failure" => n = 0)
  BY <1>3, SMT
<1> HIDE DEF r, n, news
<1> QED
  BY <1>1, <1>3, <1>4, <1>5, <1>6, <1>8, <1>9, <1>10, UpdateInv, SMT DEF r

LEMMA TakeListingInv == ASSUME IInv, NEW p \in Pass, TakeListing(p) PROVE IInv'
<1> DEFINE r        == pass[p].row
           e        == pass[p].exec
           n        == Larger(r.executed, e.filled)
           st       == BrokerStatus(n, e.rejected)
           terminal == st = "PARTIAL" /\ e.remaining = 0
           new      == [r EXCEPT !.status = st, !.executed = n, !.named = r.named /\ ~terminal]
           news     == IF n > r.executed THEN "fill"
                       ELSE IF st = "FAILED" /\ n = 0 THEN "failure" ELSE "none"
           wins     == row = r
<1>1. /\ pass[p].phase = "loaded" /\ ~Attempting(r) /\ r.cancel # "ACCEPTED" /\ e.listed
      /\ Update(p, wins, new, news)
  BY DEF TakeListing
<1>2. /\ pass[p] \in PassState /\ PassOK(pass[p]) /\ filled \in 0..Q /\ ord \in OrderState
      /\ BrokerOK
  BY SMT DEF IInv, TypeOK
<1>3. /\ r \in Row /\ e \in Listing /\ n \in 0..Q /\ r.executed <= n /\ n <= filled
      /\ IsOpen(r) /\ r.cancel # "RESOLVED" /\ SnapshotOK(e) /\ e.filled <= n
  BY <1>1, <1>2, SMT DEF PassOK, SnapshotOK, Larger, PassState
<1>4. /\ st = "FAILED" => ord = "refused" /\ n = 0
      /\ st = "FILLED" => n = Q /\ ord \in {"dead", "refused"} /\ filled = n
      /\ terminal => n > 0 /\ n = filled /\ ord \in {"dead", "refused"}
      /\ st = "PENDING" => n = 0
      /\ st = "PARTIAL" => n > 0
      /\ st \in {"PENDING", "FILLED", "PARTIAL", "FAILED"}
      /\ ord # "unsent"
  BY <1>1, <1>2, <1>3, SMT DEF BrokerStatus, SnapshotOK, BrokerOK
<1>5. new \in Row /\ new.status = st /\ new.executed = n /\ new.cancel = r.cancel
      /\ (new.named <=> ~terminal)
  <2>1. r.named
    BY <1>3 DEF IsOpen
  <2>2. (r.named /\ ~terminal) \in BOOLEAN /\ st \in RowStatus
    BY <1>4
  <2>4. new = [r EXCEPT !.status = st, !.executed = n, !.named = r.named /\ ~terminal]
    OBVIOUS
  <2>3. /\ new \in Row /\ new.status = st /\ new.executed = n /\ new.cancel = r.cancel
        /\ (new.named <=> (r.named /\ ~terminal))
    <3> HIDE DEF r, n, st, terminal, new
    <3> QED
      BY <1>3, <2>2, <2>4, Taken
  <2> QED
    BY <2>1, <2>3
<1>6. UNCHANGED <<ord, filled>>
  BY <1>1 DEF Update
<1>7. news \in {"none", "fill", "failure"} /\ (news = "fill" => n > r.executed)
      /\ (news = "failure" => n = 0 /\ st = "FAILED")
  BY <1>3, SMT
<1> HIDE DEF r, e, n, st, terminal, new, news, wins
<1>8. row' = new => RowOK' /\ ClosedOK'
  <2> SUFFICES ASSUME row' = new PROVE RowOK' /\ ClosedOK'
    OBVIOUS
  <2>1. Closed' => st \in {"FILLED", "FAILED"} \/ terminal
    BY <1>4, <1>5, SMT DEF Closed
  <2>2. RowOK'
    BY <1>1, <1>3, <1>4, <1>5, <1>6, SMT DEF RowOK, IsOpen, Attempting
  <2>3. Closed' => filled = n /\ ord \in {"dead", "refused"}
    BY <1>2, <1>4, <2>1, SMT DEF BrokerOK
  <2>4. ClosedOK'
    BY <1>5, <1>6, <2>3, SMT DEF ClosedOK, ClosedMeansDead, UncancelledCountsFills, ClosedCountsFills
  <2> QED
    BY <2>2, <2>4
<1>9. wins => row = r /\ ~Closed /\ ~Attempting(row) /\ row.cancel # "ACCEPTED"
  BY <1>1, <1>3, SMT DEF Attempting, Closed, IsOpen, wins
<1>10. news = "failure" /\ row' = new => Closed'
  BY <1>5, <1>7, SMT DEF Closed
<1> QED
  BY <1>1, <1>3, <1>5, <1>7, <1>8, <1>9, <1>10, UpdateInv, SMT DEF r

LEMMA CloseAbsentInv == ASSUME IInv, NEW p \in Pass, CloseAbsent(p) PROVE IInv'
<1> DEFINE r    == pass[p].row
           new  == IF r.status = "PARTIAL" THEN [row EXCEPT !.named = FALSE]
                                           ELSE [row EXCEPT !.status = "CANCELLED"]
           news == IF r.status = "PARTIAL" THEN "none" ELSE "failure"
<1>1. /\ pass[p].phase = "loaded" /\ ~Attempting(r) /\ r.cancel # "ACCEPTED"
      /\ ~pass[p].exec.listed /\ ~pass[p].open /\ pass[p].aged
      /\ Update(p, SameState(row, r), new, news)
  BY DEF CloseAbsent
<1>2. /\ pass[p] \in PassState /\ PassOK(pass[p]) /\ filled \in 0..Q /\ ord \in OrderState
      /\ BrokerOK /\ row \in Row /\ RowOK /\ ClosedOK
  BY SMT DEF IInv, TypeOK
<1>3. ~ApprovedSell => ord = "dead" /\ filled = 0
  BY <1>1, <1>2, SMT DEF PassOK
<1>4. r \in Row /\ r.cancel # "RESOLVED"
  BY <1>1, <1>2, SMT DEF PassOK, PassState
<1>5. SameState(row, r) => /\ IsOpen(row) /\ ~Closed /\ row.cancel = r.cancel
                           /\ row.status = r.status
  BY <1>1, SameOpen
<1>6. UNCHANGED <<ord, filled>>
  BY <1>1 DEF Update
<1>7. CASE r.status = "PARTIAL"
  <2>1. new = [row EXCEPT !.named = FALSE] /\ news = "none"
    BY <1>7
  <2>2. new \in Row /\ new.status = row.status /\ new.executed = row.executed /\ ~new.named
        /\ new.cancel = row.cancel
    BY <1>2, <2>1, Unnamed
  <2>3. SameState(row, r) /\ row' = new => RowOK' /\ ClosedOK'
    BY <1>1, <1>2, <1>3, <1>4, <1>5, <1>6, <1>7, <2>2, SMT DEF RowOK, ClosedOK, ClosedMeansDead,
       Closed, IsOpen, UncancelledCountsFills, ClosedCountsFills, Attempting
  <2>4. SameState(row, r) => new.executed >= row.executed
    BY <1>2, <2>2, SMT
  <2> HIDE DEF new, news, r
  <2> QED
    BY <1>1, <1>5, <2>1, <2>2, <2>3, <2>4, UpdateInv, SMT DEF Attempting
<1>8. CASE r.status # "PARTIAL"
  <2>1. new = [row EXCEPT !.status = "CANCELLED"] /\ news = "failure"
    BY <1>8
  <2>2. new \in Row /\ new.status = "CANCELLED" /\ new.executed = row.executed
        /\ new.named = row.named /\ new.cancel = row.cancel
    BY <1>2, <2>1, Dropped
  <2>3. SameState(row, r) /\ row' = new => RowOK' /\ ClosedOK' /\ Closed'
    BY <1>1, <1>2, <1>3, <1>4, <1>5, <1>6, <1>8, <2>2, SMT DEF RowOK, ClosedOK, ClosedMeansDead,
       Closed, IsOpen, UncancelledCountsFills, ClosedCountsFills, Attempting
  <2>4. SameState(row, r) => row.executed = 0
    BY <1>2, <1>5, <1>8, SMT DEF RowOK, IsOpen
  <2> HIDE DEF new, news, r
  <2> QED
    BY <1>1, <1>5, <2>1, <2>2, <2>3, <2>4, UpdateInv, SMT DEF Attempting
<1> QED
  BY <1>7, <1>8

-----------------------------------------------------------------------------
(* Cancellation flows and inspections. *)

LEMMA Recancelled ==
  ASSUME NEW r \in Row, NEW x \in Cancellation, NEW new, new = [r EXCEPT !.cancel = x]
  PROVE  /\ new \in Row /\ new.status = r.status /\ new.executed = r.executed
         /\ new.named = r.named /\ new.cancel = x
<1>1. new \in Row
  BY Zenon
<1> QED
  BY <1>1, SMT

\* A step of a cancellation flow, or of the startup, changes at most the state of
\* the attempt.
LEMMA AttemptMoves ==
  ASSUME IInv, NEW x \in Cancellation \ {"none", "RESOLVED"},
         \/ row' = row
         \/ /\ row' = [row EXCEPT !.cancel = x]
            /\ row.cancel \notin {"ACCEPTED", "UNKNOWN"} /\ IsOpen(row),
         UNCHANGED <<brokerVars, aged, pass, insp, toldVars>>,
         canc' \in [Canceller -> CancState], CancelExclusive', DownOK',
         faults' \in 0..MaxFaults, up' \in BOOLEAN
  PROVE  IInv'
<1>1. /\ row' \in Row /\ row'.status = row.status /\ row'.executed = row.executed
      /\ row'.named = row.named /\ (row'.cancel = row.cancel \/ row'.cancel = x)
      /\ row'.cancel = "none" => row.cancel = "none"
      /\ row.cancel \in {"ACCEPTED", "UNKNOWN"} => row' = row
  <2>1. row \in Row
    BY DEF IInv, TypeOK
  <2>2. CASE row' = row
    BY <2>1, <2>2
  <2>3. CASE row' = [row EXCEPT !.cancel = x] /\ row.cancel \notin {"ACCEPTED", "UNKNOWN"}
    <3>1. x \in Cancellation
      OBVIOUS
    <3> HIDE DEF Row
    <3>2. /\ row' \in Row /\ row'.status = row.status /\ row'.executed = row.executed
          /\ row'.named = row.named /\ row'.cancel = x
      BY <2>1, <2>3, <3>1, Recancelled
    <3> QED
      BY <2>3, <3>2
  <2> QED
    BY <2>2, <2>3
<1>2. TypeOK'
  BY <1>1, SMT DEF IInv, TypeOK
<1>3. Closed' = Closed
  BY <1>1, SMT DEF Closed
<1>4. RowOK'
  <2>1. CASE row' = row
    BY <2>1, <1>3, SMT DEF IInv, RowOK, IsOpen
  <2>2. CASE row' # row
    <3>1. IsOpen(row) /\ RowOK /\ row'.cancel # "RESOLVED"
      BY <1>1, <2>2, SMT DEF IInv, RowOK, IsOpen, Closed
    <3> QED
      BY <1>1, <3>1, SMT DEF RowOK, IsOpen
  <2> QED
    BY <2>1, <2>2
<1>5. \A p \in Pass : PassOK(pass[p])'
  <2> TAKE p \in Pass
  <2>1. pass[p] \in PassState /\ PassOK(pass[p]) /\ pass'[p] = pass[p]
    BY SMT DEF IInv, TypeOK
  <2> QED
    BY <1>1, <1>3, <2>1, SMT DEF PassOK, SnapshotOK
<1>6. \A i \in Inspector : InspOK(insp[i])'
  <2> TAKE i \in Inspector
  <2>1. insp[i] \in InspState /\ InspOK(insp[i]) /\ insp'[i] = insp[i]
    BY SMT DEF IInv, TypeOK
  <2> QED
    BY <1>1, <2>1, SMT DEF InspOK, SnapshotOK, IsOpen
<1>7. ToldOK' /\ FailedOK'
  <2>1. row'.executed >= row.executed
    BY <1>1, SMT DEF IInv, TypeOK
  <2>2. \A p \in Pass : pass'[p] = pass[p] \/ pass'[p].phase # "news"
    OBVIOUS
  <2> QED
    BY <1>1, <1>3, <2>1, <2>2, NoNews
<1>8. BrokerOK' /\ AgedOK' /\ ClosedOK'
  BY <1>1, <1>3, SMT DEF IInv, BrokerOK, AgedOK, ClosedOK, ClosedMeansDead,
     UncancelledCountsFills, ClosedCountsFills
<1> QED
  BY <1>2, <1>4, <1>5, <1>6, <1>7, <1>8 DEF IInv

\* A canceller in state s holds the claim.
Holding(s) == s.phase \in {"claimed", "releasing", "posted"}

\* A canceller moves on: it holds the claim only if it held it or the row was free.
LEMMA CancellerMoves ==
  ASSUME IInv, NEW c \in Canceller, NEW s \in CancState, canc' = [canc EXCEPT ![c] = s],
         NEW x \in Cancellation \ {"none", "RESOLVED"},
         \/ row' = row
         \/ /\ row' = [row EXCEPT !.cancel = x]
            /\ row.cancel \notin {"ACCEPTED", "UNKNOWN"} /\ IsOpen(row),
         UNCHANGED <<brokerVars, aged, pass, insp, toldVars, up>>, faults' \in 0..MaxFaults,
         up \/ s.phase = "idle",
         Holding(s) => row'.cancel = "SUBMITTING" /\ (row.cancel = "SUBMITTING" => Holding(canc[c])),
         row.cancel = "SUBMITTING" => row' = row \/ Holding(canc[c])
  PROVE  IInv'
<1>1. /\ canc \in [Canceller -> CancState]
      /\ \A d \in Canceller : canc'[d] = IF d = c THEN s ELSE canc[d]
  BY SMT DEF IInv, TypeOK
<1>2. canc' \in [Canceller -> CancState]
  BY <1>1, SMT
<1>3. \A d \in Canceller : Holding(canc[d]) =>
        row.cancel = "SUBMITTING" /\ \A e \in Canceller \ {d} : ~Holding(canc[e])
  BY DEF IInv, CancelExclusive, Holding
<1>4. \A d \in Canceller : Holding(canc'[d]) =>
        row'.cancel = "SUBMITTING" /\ \A e \in Canceller \ {d} : ~Holding(canc'[e])
  BY <1>1, <1>3, SMT
<1>5. CancelExclusive'
  BY <1>4 DEF CancelExclusive, Holding
<1>6. DownOK'
  BY <1>1, SMT DEF IInv, DownOK
<1>7. up \in BOOLEAN
  BY DEF IInv, TypeOK
<1> QED
  BY <1>2, <1>5, <1>6, <1>7, AttemptMoves

\* The states a canceller moves to.
LEMMA CancStates ==
  ASSUME NEW s \in CancState, NEW b \in BOOLEAN, row \in Row
  PROVE  /\ [IdleCanc EXCEPT !.phase = "found", !.row = row] \in CancState
         /\ ~Holding([IdleCanc EXCEPT !.phase = "found", !.row = row])
         /\ [s EXCEPT !.phase = "claimed"] \in CancState
         /\ [s EXCEPT !.phase = "releasing"] \in CancState
         /\ [s EXCEPT !.phase = "posted", !.hit = b] \in CancState
         /\ IdleCanc \in CancState /\ ~Holding(IdleCanc) /\ IdleCanc.phase = "idle"
<1>1. [IdleCanc EXCEPT !.phase = "found", !.row = row] \in CancState
  BY IdleTypes, Zenon DEF CancState
<1>2. ~Holding([IdleCanc EXCEPT !.phase = "found", !.row = row])
  BY <1>1, IdleTypes, SMT DEF CancState, Holding
<1>3. [s EXCEPT !.phase = "claimed"] \in CancState
  BY SMT DEF CancState
<1>4. [s EXCEPT !.phase = "releasing"] \in CancState
  BY SMT DEF CancState
<1>5. [s EXCEPT !.phase = "posted", !.hit = b] \in CancState
  BY Zenon DEF CancState
<1>6. IdleCanc \in CancState /\ ~Holding(IdleCanc) /\ IdleCanc.phase = "idle"
  BY IdleTypes, SMT DEF IdleCanc, Holding
<1> QED
  BY <1>1, <1>2, <1>3, <1>4, <1>5, <1>6

\* What a canceller relies on.
LEMMA CancellerFacts ==
  ASSUME IInv, NEW c \in Canceller
  PROVE  /\ canc[c] \in CancState /\ row \in Row /\ faults \in 0..MaxFaults
         /\ canc[c].phase # "idle" => up
         /\ Holding(canc[c]) => row.cancel = "SUBMITTING" /\ IsOpen(row)
         /\ "REJECTED" \in Cancellation \ {"none", "RESOLVED"}
  BY SMT DEF IInv, TypeOK, DownOK, CancelExclusive, Holding, RowOK

LEMMA FindTargetInv == ASSUME IInv, NEW c \in Canceller, FindTarget(c) PROVE IInv'
<1> DEFINE s == [IdleCanc EXCEPT !.phase = "found", !.row = row]
<1>1. s \in CancState /\ ~Holding(s)
  BY CancStates, CancellerFacts
<1>2. canc' = [canc EXCEPT ![c] = s] /\ up /\ faults' = faults
      /\ UNCHANGED <<brokerVars, row, aged, pass, insp, toldVars, up>>
  BY DEF FindTarget, CancTo
<1> HIDE DEF s
<1> QED
  BY <1>1, <1>2, CancellerFacts, CancellerMoves

LEMMA ClaimCancellationInv == ASSUME IInv, NEW c \in Canceller, ClaimCancellation(c) PROVE IInv'
<1>1. CASE IsOpen(row) /\ row.cancel \in {"none", "REJECTED", "RESOLVED"}
  <2> DEFINE s == [canc[c] EXCEPT !.phase = "claimed"]
             x == "SUBMITTING"
  <2>1. s \in CancState
    BY CancStates, CancellerFacts
  <2>2. canc' = [canc EXCEPT ![c] = s] /\ faults' = faults /\ row' = [row EXCEPT !.cancel = x]
        /\ UNCHANGED <<brokerVars, aged, pass, insp, toldVars, up>>
    BY <1>1 DEF ClaimCancellation, CancTo
  <2>3. up
    BY CancellerFacts DEF ClaimCancellation
  <2>4. row \in Row /\ x \in Cancellation
    BY CancellerFacts
  <2> HIDE DEF Row
  <2>5. row'.cancel = x
    BY <2>2, <2>4, Recancelled
  <2> HIDE DEF s
  <2> QED
    BY <1>1, <2>1, <2>2, <2>3, <2>5, CancellerFacts, CancellerMoves
<1>2. CASE ~(IsOpen(row) /\ row.cancel \in {"none", "REJECTED", "RESOLVED"})
  <2>1. canc' = [canc EXCEPT ![c] = IdleCanc] /\ faults' = faults /\ row' = row
        /\ UNCHANGED <<brokerVars, aged, pass, insp, toldVars, up>>
    BY <1>2 DEF ClaimCancellation, CancTo
  <2> QED
    BY <2>1, CancStates, CancellerFacts, CancellerMoves
<1> QED
  BY <1>1, <1>2

LEMMA PostCancelInv == ASSUME IInv, NEW c \in Canceller, PostCancel(c) PROVE IInv'
<1> DEFINE s == [canc[c] EXCEPT !.phase = "posted", !.hit = StillOpen]
<1>1. StillOpen \in BOOLEAN
  BY DEF StillOpen
<1>2. s \in CancState
  BY <1>1, CancStates, CancellerFacts
<1>3. canc' = [canc EXCEPT ![c] = s] /\ faults' = faults
      /\ UNCHANGED <<brokerVars, row, aged, pass, insp, toldVars, up>>
  BY DEF PostCancel, CancTo
<1>4. Holding(canc[c])
  BY DEF PostCancel, Holding
<1>5. up /\ row.cancel = "SUBMITTING"
  BY <1>4, CancellerFacts DEF PostCancel
<1> HIDE DEF s
<1> QED
  BY <1>2, <1>3, <1>4, <1>5, CancellerFacts, CancellerMoves

LEMMA GiveUpClaimInv == ASSUME IInv, NEW c \in Canceller, GiveUpClaim(c) PROVE IInv'
<1> DEFINE s == [canc[c] EXCEPT !.phase = "releasing"]
<1>1. s \in CancState
  BY CancStates, CancellerFacts
<1>2. canc' = [canc EXCEPT ![c] = s] /\ faults' = faults
      /\ UNCHANGED <<brokerVars, row, aged, pass, insp, toldVars, up>>
  BY DEF GiveUpClaim, CancTo
<1>3. Holding(canc[c])
  BY DEF GiveUpClaim, Holding
<1>4. up /\ row.cancel = "SUBMITTING"
  BY <1>3, CancellerFacts DEF GiveUpClaim
<1> HIDE DEF s
<1> QED
  BY <1>1, <1>2, <1>3, <1>4, CancellerFacts, CancellerMoves

LEMMA MarkInv ==
  ASSUME IInv, NEW c \in Canceller, NEW phase \in {"releasing", "posted"},
         NEW x \in {"REJECTED", "ACCEPTED", "UNKNOWN"}, Mark(c, phase, x)
  PROVE  IInv'
<1>1. canc' = [canc EXCEPT ![c] = IdleCanc] /\ faults' = faults
      /\ UNCHANGED <<brokerVars, aged, pass, insp, toldVars, up>>
  BY DEF Mark, CancTo
<1>2. Holding(canc[c])
  BY DEF Mark, Holding
<1>3. row.cancel = "SUBMITTING" /\ IsOpen(row)
  BY <1>2, CancellerFacts
<1>4. row' = [row EXCEPT !.cancel = x]
  BY <1>3 DEF Mark
<1>5. x \in Cancellation \ {"none", "RESOLVED"}
  OBVIOUS
<1> QED
  BY <1>1, <1>2, <1>3, <1>4, <1>5, CancStates, CancellerFacts, CancellerMoves

LEMMA CancellerDiesInv == ASSUME IInv, NEW c \in Canceller, CancellerDies(c) PROVE IInv'
<1>1. faults' \in 0..MaxFaults
  BY SMT DEF CancellerDies, IInv, TypeOK
<1>2. canc' = [canc EXCEPT ![c] = IdleCanc]
      /\ UNCHANGED <<brokerVars, row, aged, pass, insp, toldVars, up>>
  BY DEF CancellerDies
<1> QED
  BY <1>1, <1>2, CancStates, CancellerFacts, CancellerMoves

LEMMA CancelStepInv == ASSUME IInv, NEW c \in Canceller, CancelStep(c) PROVE IInv'
<1>1. CASE ReleaseClaim(c)
  BY <1>1, MarkInv DEF ReleaseClaim
<1>2. CASE MarkAccepted(c)
  BY <1>2, MarkInv DEF MarkAccepted
<1>3. CASE MarkRejected(c)
  BY <1>3, MarkInv DEF MarkRejected
<1>4. CASE MarkUnknown(c)
  BY <1>4, MarkInv DEF MarkUnknown
<1> QED
  BY <1>1, <1>2, <1>3, <1>4, FindTargetInv, ClaimCancellationInv, PostCancelInv, GiveUpClaimInv
     DEF CancelStep

\* An inspection goes on.
LEMMA InspectorMoves ==
  ASSUME IInv, NEW i \in Inspector, NEW s \in InspState, InspOK(s), InspTo(i, s),
         UNCHANGED row, up \/ s.phase = "idle"
  PROVE  IInv'
<1> USE DEF InspTo
<1>1. TypeOK'
  BY SMT DEF IInv, TypeOK
<1>2. ToldOK' /\ FailedOK'
  <2>1. row \in Row /\ (Closed => Closed') /\ row'.executed >= row.executed
    BY SMT DEF IInv, TypeOK, Closed
  <2>2. \A p \in Pass : pass'[p] = pass[p] \/ pass'[p].phase # "news"
    OBVIOUS
  <2> QED
    BY <2>1, <2>2, NoNews
<1>3. \A j \in Inspector : InspOK(insp[j])'
  <2> TAKE j \in Inspector
  <2>1. (insp'[j] = insp[j] \/ insp'[j] = s) /\ InspOK(insp[j])
    BY SMT DEF IInv, TypeOK
  <2> QED
    BY <2>1, SMT DEF InspOK, SnapshotOK, IsOpen
<1>4. BrokerOK' /\ RowOK' /\ AgedOK' /\ ClosedOK' /\ CancelExclusive'
  BY SMT DEF IInv, BrokerOK, RowOK, AgedOK, ClosedOK, Closed, ClosedMeansDead, IsOpen,
             UncancelledCountsFills, ClosedCountsFills, CancelExclusive
<1>5. \A p \in Pass : PassOK(pass[p])'
  BY SMT DEF IInv, PassOK, SnapshotOK, IsOpen, Closed
<1>6. DownOK'
  BY SMT DEF IInv, DownOK, TypeOK
<1> QED
  BY <1>1, <1>2, <1>3, <1>4, <1>5, <1>6 DEF IInv

\* An inspection settles the attempt it found unknown.
LEMMA InspectorSettles ==
  ASSUME IInv, NEW i \in Inspector, InspTo(i, IdleInsp),
         row.cancel = "UNKNOWN", IsOpen(row), row' \in Row, RowOK', ClosedOK',
         Closed' \/ row'.executed = row.executed
  PROVE  IInv'
<1>1. /\ insp \in [Inspector -> InspState] /\ IdleInsp \in InspState /\ IdleInsp.phase = "idle"
      /\ \A j \in Inspector : insp'[j] = IF j = i THEN IdleInsp ELSE insp[j]
      /\ UNCHANGED <<brokerVars, aged, pass, canc, toldVars, up, faults>>
  BY IdleTypes, SMT DEF IInv, TypeOK, InspTo, IdleInsp
<1>2. insp' \in [Inspector -> InspState]
  BY <1>1, SMT DEF InspTo
<1>3. TypeOK'
  BY <1>1, <1>2, SMT DEF IInv, TypeOK
<1>4. ~Closed
  BY SMT DEF IsOpen, Closed
<1>5. ToldOK' /\ FailedOK'
  <2>1. ~Closed' => row'.executed >= row.executed
    BY SMT DEF IInv, TypeOK
  <2>2. \A p \in Pass : pass'[p] = pass[p] \/ pass'[p].phase # "news"
    BY <1>1
  <2> QED
    BY <1>1, <1>4, <2>1, <2>2, NoNews
<1>6. \A j \in Inspector : InspOK(insp[j])'
  <2> TAKE j \in Inspector
  <2>1. CASE j = i
    BY <1>1, <2>1, SMT DEF InspOK
  <2>2. CASE j # i
    <3>1. InspOK(insp[j]) /\ insp'[j] = insp[j]
      BY <1>1, <2>2 DEF IInv
    <3> QED
      BY <1>1, <3>1, SMT DEF InspOK, SnapshotOK, IsOpen
  <2> QED
    BY <2>1, <2>2
<1>7. BrokerOK' /\ AgedOK' /\ DownOK'
  BY <1>1, SMT DEF IInv, BrokerOK, AgedOK, DownOK
<1>8. CancelExclusive'
  BY <1>1, SMT DEF IInv, CancelExclusive
<1>9. \A p \in Pass : PassOK(pass[p])'
  <2> TAKE p \in Pass
  <2>1. pass[p] \in PassState /\ PassOK(pass[p]) /\ pass'[p] = pass[p]
    BY <1>1, SMT DEF IInv, TypeOK
  <2> QED
    BY <1>1, <1>4, <2>1, SMT DEF PassOK, SnapshotOK
<1> QED
  BY <1>3, <1>5, <1>6, <1>7, <1>8, <1>9 DEF IInv

\* What an inspection relies on.
LEMMA InspectorFacts ==
  ASSUME IInv, NEW i \in Inspector
  PROVE  /\ insp[i] \in InspState /\ InspOK(insp[i])
         /\ insp[i].phase # "idle" => up
         /\ row \in Row /\ RowOK /\ ClosedOK /\ ord \in OrderState /\ filled \in 0..Q
  BY SMT DEF IInv, TypeOK, DownOK

LEMMA InspectExecutionsInv == ASSUME IInv, NEW i \in Inspector, InspectExecutions(i) PROVE IInv'
<1>1. PICK e \in Executions :
        InspTo(i, [IdleInsp EXCEPT !.phase = "executions", !.row = row, !.exec = e])
  BY DEF InspectExecutions
<1> DEFINE s == [IdleInsp EXCEPT !.phase = "executions", !.row = row, !.exec = e]
<1>2. /\ up /\ UNCHANGED row /\ IsOpen(row) /\ row.cancel = "UNKNOWN"
  BY DEF InspectExecutions
<1>3. e \in Listing /\ SnapshotOK(e)
  BY ExecutionsOK
<1>4. row \in Row /\ ord # "unsent"
  BY <1>2, SMT DEF IInv, TypeOK, RowOK, IsOpen
<1>5. s \in InspState
  BY <1>3, <1>4, IdleTypes, Zenon DEF InspState
<1>6. s.phase = "executions" /\ s.row = row /\ s.exec = e
  BY <1>5, IdleTypes, SMT DEF InspState
<1> HIDE DEF s
<1>7. InspOK(s)
  BY <1>2, <1>3, <1>4, <1>6, SMT DEF InspOK
<1>8. InspTo(i, s)
  BY <1>1 DEF s
<1> QED
  BY <1>2, <1>5, <1>7, <1>8, InspectorMoves

LEMMA InspectUnfilledInv == ASSUME IInv, NEW i \in Inspector, InspectUnfilled(i) PROVE IInv'
<1> DEFINE s == [insp[i] EXCEPT !.phase = "unfilled", !.open = StillOpen]
<1>1. StillOpen \in BOOLEAN /\ (StillOpen <=> ord = "live")
  BY DEF StillOpen
<1>2. insp[i].phase = "executions" /\ InspTo(i, s) /\ UNCHANGED row
  BY DEF InspectUnfilled
<1>3. s \in InspState
  BY <1>1, InspectorFacts, Zenon DEF InspState
<1>4. s.phase = "unfilled" /\ s.row = insp[i].row /\ s.exec = insp[i].exec /\ (s.open <=> ord = "live")
  <2> HIDE DEF StillOpen
  <2>1. insp[i] \in InspState
    BY InspectorFacts
  <2> QED
    BY <1>1, <2>1, SMT DEF InspState
<1> HIDE DEF s
<1>5. InspOK(s)
  BY <1>2, <1>4, InspectorFacts, SMT DEF InspOK
<1> QED
  BY <1>2, <1>3, <1>5, InspectorFacts, InspectorMoves

LEMMA CloseInspectedInv == ASSUME IInv, NEW i \in Inspector, CloseInspected(i) PROVE IInv'
<1> DEFINE r == insp[i].row
           n == insp[i].exec.filled
<1>1. /\ insp[i].phase = "unfilled" /\ ~insp[i].open /\ insp[i].exec.listed
      /\ SameState(row, r) /\ row' = ClosedBy(r, n) /\ InspTo(i, IdleInsp)
      /\ n >= r.executed
  BY DEF CloseInspected
<1>2. /\ insp[i] \in InspState /\ InspOK(insp[i]) /\ ord \in OrderState /\ filled \in 0..Q
  BY InspectorFacts
<1>3. /\ r \in Row /\ n \in 0..Q /\ n <= filled /\ ord \in {"dead", "refused"}
      /\ IsOpen(r) /\ r.cancel = "UNKNOWN"
  BY <1>1, <1>2, SMT DEF InspOK, SnapshotOK, InspState
<1>4. ClosedBy(r, n) \in Row
  BY <1>3, SMT DEF ClosedBy, ClosingStatus
<1>5. /\ ClosedBy(r, n).executed = n /\ ClosedBy(r, n).cancel = "RESOLVED"
      /\ ClosedBy(r, n).status = ClosingStatus(n)
      /\ ClosedBy(r, n).named => ClosingStatus(n) # "PARTIAL"
  BY Zenon DEF ClosedBy
<1>6. /\ ClosingStatus(n) \in {"FILLED", "CANCELLED", "PARTIAL"}
      /\ ClosingStatus(n) = "PARTIAL" => n > 0
  BY <1>3, SMT DEF ClosingStatus
<1>7. IsOpen(row) /\ row.cancel = "UNKNOWN"
  BY <1>1, <1>3, SMT DEF SameState, IsOpen
<1>8. UNCHANGED <<ord, filled>>
  BY <1>1 DEF InspTo
<1> HIDE DEF r, n
<1>9. Closed'
  BY <1>1, <1>5, <1>6, SMT DEF Closed
<1>10. RowOK' /\ ClosedOK'
  BY <1>1, <1>3, <1>5, <1>6, <1>8, <1>9, SMT DEF RowOK, ClosedOK, ClosedMeansDead,
     UncancelledCountsFills
<1> QED
  BY <1>1, <1>4, <1>7, <1>9, <1>10, InspectorSettles

LEMMA ConfirmNotAcceptedInv == ASSUME IInv, NEW i \in Inspector, ConfirmNotAccepted(i) PROVE IInv'
<1>1. /\ insp[i].phase = "unfilled" /\ SameState(row, insp[i].row)
      /\ row' = [row EXCEPT !.cancel = "REJECTED"] /\ InspTo(i, IdleInsp)
  BY DEF ConfirmNotAccepted
<1>2. /\ IsOpen(row) /\ row.cancel = "UNKNOWN"
  BY <1>1, InspectorFacts, SMT DEF SameState, IsOpen, InspOK
<1>3. UNCHANGED <<ord, filled>>
  BY <1>1 DEF InspTo
<1>4. row \in Row /\ RowOK /\ ClosedOK
  BY InspectorFacts
<1>5. /\ row' \in Row /\ row'.status = row.status /\ row'.executed = row.executed
      /\ row'.named = row.named /\ row'.cancel = "REJECTED"
  <2>1. "REJECTED" \in Cancellation
    OBVIOUS
  <2> HIDE DEF Row
  <2> QED
    BY <1>1, <1>4, <2>1, Recancelled
<1>6. RowOK' /\ ClosedOK'
  <2>1. ~Closed'
    BY <1>2, <1>5, SMT DEF Closed, IsOpen
  <2> QED
    BY <1>2, <1>3, <1>4, <1>5, <2>1, SMT DEF RowOK, ClosedOK, IsOpen, ClosedMeansDead,
       UncancelledCountsFills, ClosedCountsFills
<1> QED
  BY <1>1, <1>2, <1>5, <1>6, InspectorSettles

LEMMA InspectStepInv == ASSUME IInv, NEW i \in Inspector, InspectStep(i) PROVE IInv'
<1>1. CASE EndInspection(i)
  <2>1. IdleInsp \in InspState /\ IdleInsp.phase = "idle"
    BY IdleTypes, SMT DEF IdleInsp
  <2>2. InspOK(IdleInsp)
    BY <2>1 DEF InspOK
  <2> QED
    BY <1>1, <2>1, <2>2, InspectorMoves DEF EndInspection
<1> QED
  BY <1>1, InspectExecutionsInv, InspectUnfilledInv, CloseInspectedInv, ConfirmNotAcceptedInv
     DEF InspectStep

-----------------------------------------------------------------------------
(* The broker, time, crashes and restarts. *)

\* A step of the broker or of time leaves the program alone.
LEMMA OutsideMoves ==
  ASSUME IInv, UNCHANGED <<row, flowVars, toldVars, up, faults>>,
         ord' \in OrderState, filled' \in 0..Q, aged' \in BOOLEAN, BrokerOK', RowOK', AgedOK', ClosedOK',
         \A p \in Pass : PassOK(pass[p])',
         \A i \in Inspector : InspOK(insp[i])'
  PROVE  IInv'
<1>1. TypeOK'
  BY SMT DEF IInv, TypeOK
<1>2. ToldOK' /\ FailedOK'
  <2>1. row \in Row /\ (Closed => Closed') /\ row'.executed >= row.executed
    BY SMT DEF IInv, TypeOK, Closed
  <2>2. \A p \in Pass : pass'[p] = pass[p] \/ pass'[p].phase # "news"
    OBVIOUS
  <2> QED
    BY <2>1, <2>2, NoNews
<1>3. CancelExclusive' /\ DownOK'
  BY SMT DEF IInv, CancelExclusive, DownOK
<1> QED
  BY <1>1, <1>2, <1>3 DEF IInv

LEMMA PlaceInv == ASSUME IInv, Place PROVE IInv'
<1> USE DEF Place
<1>1. row = NewRow /\ ~Closed /\ filled = 0
  BY SMT DEF IInv, TypeOK, RowOK, BrokerOK, Closed, NewRow
<1>2. \A p \in Pass : PassOK(pass[p])'
  <2> TAKE p \in Pass
  <2>1. pass[p] \in PassState /\ PassOK(pass[p])
    BY SMT DEF IInv, TypeOK
  <2> QED
    BY <1>1, <2>1, SMT DEF PassOK, SnapshotOK, IsOpen, Closed
<1>3. \A i \in Inspector : InspOK(insp[i])'
  BY SMT DEF IInv, InspOK
<1>4. BrokerOK' /\ RowOK' /\ AgedOK' /\ ClosedOK'
  BY <1>1, SMT DEF IInv, BrokerOK, RowOK, AgedOK, ClosedOK, ClosedMeansDead, Closed, NewRow,
     UncancelledCountsFills, ClosedCountsFills
<1> QED
  BY <1>2, <1>3, <1>4, OutsideMoves, SMT DEF IInv, TypeOK

LEMMA FillInv == ASSUME IInv, Fill PROVE IInv'
<1> USE DEF Fill
<1>1. filled \in 0..Q /\ filled < Q /\ filled' \in 0..Q /\ filled' = filled + 1 /\ ord' \in {"live", "dead"}
      /\ (ord' = "live" => filled' < Q) /\ row \in Row /\ row' = row /\ aged' = aged
  BY SMT DEF IInv, TypeOK, BrokerOK
<1>2. \A p \in Pass : PassOK(pass[p])'
  <2> TAKE p \in Pass
  <2>1. pass[p] \in PassState /\ PassOK(pass[p])
    BY SMT DEF IInv, TypeOK
  <2> QED
    BY <1>1, <2>1, SMT DEF PassOK, SnapshotOK, IsOpen, Closed, PassState
<1>3. \A i \in Inspector : InspOK(insp[i])'
  <2> TAKE i \in Inspector
  <2>1. insp[i] \in InspState /\ InspOK(insp[i])
    BY InspectorFacts
  <2> QED
    BY <1>1, <2>1, SMT DEF InspOK, SnapshotOK, InspState, IsOpen
<1>4. BrokerOK' /\ AgedOK'
  BY <1>1, SMT DEF IInv, BrokerOK, AgedOK
<1>5. RowOK'
  BY <1>1, SMT DEF IInv, RowOK, IsOpen, Closed, NewRow
<1>6. ClosedOK'
  BY <1>1, SMT DEF IInv, ClosedOK, ClosedMeansDead, Closed, UncancelledCountsFills, ClosedCountsFills
<1> QED
  BY <1>1, <1>2, <1>3, <1>4, <1>5, <1>6, OutsideMoves, SMT DEF IInv, TypeOK

LEMMA DieInv == ASSUME IInv, Die PROVE IInv'
<1> USE DEF Die
<1>1. \A p \in Pass : PassOK(pass[p])'
  <2> TAKE p \in Pass
  <2>1. pass[p] \in PassState /\ PassOK(pass[p])
    BY SMT DEF IInv, TypeOK
  <2> QED
    BY <2>1, SMT DEF PassOK, SnapshotOK, IsOpen, Closed, PassState
<1>2. \A i \in Inspector : InspOK(insp[i])'
  <2> TAKE i \in Inspector
  <2>1. insp[i] \in InspState /\ InspOK(insp[i])
    BY InspectorFacts
  <2> QED
    BY <2>1, SMT DEF InspOK, SnapshotOK, InspState, IsOpen
<1>3. BrokerOK' /\ RowOK' /\ AgedOK' /\ ClosedOK'
  BY SMT DEF IInv, BrokerOK, RowOK, AgedOK, ClosedOK, ClosedMeansDead, Closed, IsOpen,
     UncancelledCountsFills, ClosedCountsFills
<1> QED
  BY <1>1, <1>2, <1>3, OutsideMoves, SMT DEF IInv, TypeOK

LEMMA GraceEndsInv == ASSUME IInv, GraceEnds PROVE IInv'
<1> USE DEF GraceEnds
<1>1. \A p \in Pass : PassOK(pass[p])'
  <2> TAKE p \in Pass
  <2>1. pass[p] \in PassState /\ PassOK(pass[p]) /\ ~pass[p].early
    BY SMT DEF IInv, TypeOK
  <2> QED
    BY <2>1, SMT DEF PassOK, SnapshotOK, IsOpen, Closed
<1>2. \A i \in Inspector : InspOK(insp[i])'
  BY SMT DEF IInv, InspOK, SnapshotOK, IsOpen
<1>3. BrokerOK' /\ RowOK' /\ AgedOK' /\ ClosedOK'
  BY SMT DEF IInv, BrokerOK, RowOK, AgedOK, ClosedOK, ClosedMeansDead, Closed, IsOpen,
     UncancelledCountsFills, ClosedCountsFills
<1> QED
  BY <1>1, <1>2, <1>3, OutsideMoves, SMT DEF IInv, TypeOK

\* The broker's answer names the order of the row.
LEMMA PersistInv == ASSUME IInv, Persist PROVE IInv'
<1> USE DEF Persist
<1>1. row = NewRow /\ ~Closed /\ row \in Row
  BY SMT DEF IInv, TypeOK, RowOK, Closed
<1>2. /\ row'.status = "PENDING" /\ row'.named /\ row'.executed = 0 /\ row'.cancel = "none"
      /\ row' \in Row
  <2>1. row' \in Row
    BY <1>1, Zenon
  <2>2. row.executed = 0 /\ row.cancel = "none"
    BY <1>1, SMT DEF NewRow
  <2> QED
    BY <1>1, <2>1, <2>2, SMT
<1>3. TypeOK'
  BY <1>2, SMT DEF IInv, TypeOK
<1>4. ~Closed'
  BY <1>2, SMT DEF Closed
<1>5. row.executed = 0 /\ row.cancel = "none" /\ row.status = "SUBMITTING"
  BY <1>1, SMT DEF NewRow
<1>6. ToldOK' /\ FailedOK'
  <2>1. row'.executed >= row.executed
    BY <1>2, <1>5, SMT
  <2>2. \A p \in Pass : pass'[p] = pass[p] \/ pass'[p].phase # "news"
    OBVIOUS
  <2> QED
    BY <1>1, <1>2, <2>1, <2>2, NoNews
<1>7. \A p \in Pass : PassOK(pass[p])'
  <2> TAKE p \in Pass
  <2>1. pass[p] \in PassState /\ PassOK(pass[p])
    BY SMT DEF IInv, TypeOK
  <2> QED
    BY <1>1, <1>5, <2>1, SMT DEF PassOK, SnapshotOK, IsOpen
<1>8. \A i \in Inspector : InspOK(insp[i])'
  <2> TAKE i \in Inspector
  <2>1. insp[i] \in InspState /\ InspOK(insp[i])
    BY InspectorFacts
  <2> QED
    BY <1>5, <2>1, SMT DEF InspOK, SnapshotOK
<1>9. BrokerOK' /\ AgedOK' /\ DownOK'
  BY SMT DEF IInv, BrokerOK, AgedOK, DownOK
<1>10. RowOK' /\ ClosedOK'
  BY <1>2, <1>4, SMT DEF RowOK, ClosedOK, ClosedMeansDead, IsOpen, UncancelledCountsFills,
     ClosedCountsFills, IInv, TypeOK
<1>11. CancelExclusive'
  BY <1>5, SMT DEF IInv, CancelExclusive
<1> QED
  BY <1>3, <1>6, <1>7, <1>8, <1>9, <1>10, <1>11 DEF IInv

LEMMA CrashInv == ASSUME IInv, Crash PROVE IInv'
<1> USE DEF Crash
<1>1. /\ \A p \in Pass : pass'[p] = IdlePass
      /\ \A c \in Canceller : canc'[c] = IdleCanc
      /\ \A i \in Inspector : insp'[i] = IdleInsp
      /\ row' = row /\ UNCHANGED <<brokerVars, aged, toldVars>>
  BY SMT
<1>2. IdlePass.phase = "idle" /\ ~IdlePass.early /\ IdleCanc.phase = "idle" /\ IdleInsp.phase = "idle"
  BY SMT DEF IdlePass, IdleCanc, IdleInsp
<1>3. TypeOK'
  <2>1. /\ pass' \in [Pass -> PassState] /\ canc' \in [Canceller -> CancState]
        /\ insp' \in [Inspector -> InspState]
    BY IdleTypes, SMT
  <2>2. faults' \in 0..MaxFaults
    BY SMT DEF IInv, TypeOK
  <2>3. /\ ord' \in OrderState /\ filled' \in 0..Q /\ row' \in Row /\ aged' \in BOOLEAN
        /\ heard' \in [1..Q -> Nat] /\ failed' \in Nat /\ up' \in BOOLEAN
    BY DEF IInv, TypeOK
  <2> QED
    BY <2>1, <2>2, <2>3 DEF TypeOK
<1>4. ToldOK' /\ FailedOK'
  <2>1. row' \in Row /\ (Closed => Closed') /\ row'.executed >= row.executed
    BY SMT DEF IInv, TypeOK, Closed
  <2>2. \A p \in Pass : pass'[p] = pass[p] \/ pass'[p].phase # "news"
    BY <1>1, <1>2, SMT
  <2> QED
    BY <1>1, <2>1, <2>2, NoNews
<1>5. \A p \in Pass : PassOK(pass[p])'
  BY <1>1, <1>2, SMT DEF PassOK
<1>6. \A i \in Inspector : InspOK(insp[i])'
  BY <1>1, <1>2, SMT DEF InspOK
<1>7. DownOK' /\ CancelExclusive'
  BY <1>1, <1>2, SMT DEF DownOK, CancelExclusive
<1>8. BrokerOK' /\ RowOK' /\ AgedOK' /\ ClosedOK'
  BY SMT DEF IInv, BrokerOK, RowOK, AgedOK, ClosedOK, Closed, ClosedMeansDead, IsOpen,
             UncancelledCountsFills, ClosedCountsFills
<1> QED
  BY <1>3, <1>4, <1>5, <1>6, <1>7, <1>8 DEF IInv

LEMMA RestartInv == ASSUME IInv, Restart PROVE IInv'
<1> USE DEF Restart
<1>1. \A c \in Canceller : canc'[c].phase = "idle"
  BY DEF IInv, DownOK
<1>2. CancelExclusive' /\ DownOK'
  BY <1>1, SMT DEF CancelExclusive, DownOK
<1>3. \/ row' = row
      \/ /\ row' = [row EXCEPT !.cancel = "UNKNOWN"]
         /\ row.cancel \notin {"ACCEPTED", "UNKNOWN"} /\ IsOpen(row)
  BY SMT DEF IInv, RowOK
<1>4. "UNKNOWN" \in Cancellation \ {"none", "RESOLVED"}
  OBVIOUS
<1>5. canc' \in [Canceller -> CancState] /\ faults' \in 0..MaxFaults /\ up' \in BOOLEAN
  BY DEF IInv, TypeOK
<1> QED
  BY <1>2, <1>3, <1>4, <1>5, AttemptMoves

-----------------------------------------------------------------------------
(* The theorems. *)

LEMMA NextInv == IInv /\ [Next]_vars => IInv'
<1> SUFFICES ASSUME IInv, [Next]_vars PROVE IInv'
  OBVIOUS
<1>1. CASE Place \/ Fill \/ Die \/ Persist \/ GraceEnds
  BY <1>1, PlaceInv, FillInv, DieInv, PersistInv, GraceEndsInv
<1>2. ASSUME NEW p \in Pass, PassStep(p) \/ PassFails(p) PROVE IInv'
  BY <1>2, ReadExecutionsInv, ReadUnfilledInv, LoadOpenRecordsInv, CloseAcceptedCancelInv,
     TakeListingInv, CloseAbsentInv, LeaveRecordInv, TellStrategyInv, PassFailsInv DEF PassStep
<1>3. ASSUME NEW c \in Canceller, CancelStep(c) \/ CancellerDies(c) PROVE IInv'
  BY <1>3, CancelStepInv, CancellerDiesInv
<1>4. ASSUME NEW i \in Inspector, InspectStep(i) PROVE IInv'
  BY <1>4, InspectStepInv
<1>5. CASE Crash \/ Restart
  BY <1>5, CrashInv, RestartInv
<1>6. CASE UNCHANGED vars
  <2>1. TypeOK'
    BY <1>6, SMT DEF vars, IInv, TypeOK
  <2>2. ord' \in OrderState /\ filled' \in 0..Q /\ aged' \in BOOLEAN
    BY <2>1 DEF TypeOK
  <2>3. BrokerOK' /\ RowOK' /\ AgedOK' /\ ClosedOK'
    BY <1>6, SMT DEF vars, IInv, BrokerOK, RowOK, AgedOK, ClosedOK, Closed, ClosedMeansDead,
       IsOpen, UncancelledCountsFills, ClosedCountsFills
  <2>4. \A p \in Pass : PassOK(pass[p])'
    BY <1>6, SMT DEF vars, IInv, PassOK, SnapshotOK, IsOpen, Closed
  <2>5. \A i \in Inspector : InspOK(insp[i])'
    BY <1>6, SMT DEF vars, IInv, InspOK, SnapshotOK, IsOpen
  <2> QED
    BY <1>6, <2>2, <2>3, <2>4, <2>5, OutsideMoves DEF vars
<1> QED
  BY <1>1, <1>2, <1>3, <1>4, <1>5, <1>6 DEF Next

\* The conjunction holds in every reachable state, for any number of passes,
\* cancellers and operators, and any quantity.
THEOREM Invariance == Spec => []IInv
  BY InitInv, NextInv, PTL DEF Spec

\* Rows and flows keep their types: no update writes an executedQty beyond the
\* quantity of the order.
THEOREM TypeCorrect == Spec => []TypeOK
<1>1. IInv => TypeOK
  BY DEF IInv
<1> QED
  BY <1>1, Invariance, PTL

\* claimCancellationAttempt admits one cancel POST at a time.
THEOREM CancelAlone == Spec => []CancelExclusive
<1>1. IInv => CancelExclusive
  BY DEF IInv
<1> QED
  BY <1>1, Invariance, PTL

\* Overlapping reconciliation passes report no share twice.
THEOREM SharesToldOnce == Spec => []ShareHeardOnce
<1>1. IInv => ShareHeardOnce
  BY DEF IInv, ToldOK, ShareHeardOnce
<1> QED
  BY <1>1, Invariance, PTL

\* A failed order is reported once, and only if no share of it was.
THEOREM FailureToldOnce == Spec => []FailureHeardOnce
<1>1. IInv => FailureHeardOnce
  BY DEF IInv, FailedOK, FailureHeardOnce
<1> QED
  BY <1>1, Invariance, PTL

\* A row that did not wait for an approval frees its key only when its order is dead.
THEOREM ClosedIsDead == ASSUME ApprovedSell = FALSE PROVE Spec => []ClosedMeansDead
<1>1. IInv => ClosedMeansDead
  BY DEF IInv, ClosedOK
<1> QED
  BY <1>1, Invariance, PTL

\* ... and, if no cancel was ever attempted, has then counted every share.
THEOREM UncancelledCounts == ASSUME ApprovedSell = FALSE PROVE Spec => []UncancelledCountsFills
<1>1. IInv => UncancelledCountsFills
  BY DEF IInv, ClosedOK
<1> QED
  BY <1>1, Invariance, PTL

-----------------------------------------------------------------------------
(* What a step may do to the row. *)

\* Only a cancellation flow that holds the claim, or the startup, changes a row
\* under an attempt; only an inspection changes one whose attempt is unknown.
\* This is what the conditional updates of claim, marks and passes compare.
THEOREM AttemptFreezes == Spec => AttemptFreezesRow
<1> DEFINE A == /\ row.cancel = "SUBMITTING" => row' = [row EXCEPT !.cancel = row'.cancel]
                /\ row.cancel = "UNKNOWN" /\ row' # row => \E i \in Inspector : insp[i].phase = "unfilled"
<1>1. IInv /\ [Next]_vars => [A]_vars
  <2> SUFFICES ASSUME IInv, Next PROVE A
    BY DEF vars
  <2>1. ASSUME UNCHANGED row PROVE A
    <3>1. row \in Row
      BY DEF IInv, TypeOK
    <3> QED
      BY <2>1, <3>1, Zenon
  <2>2. ASSUME NEW p \in Pass, pass[p].phase = "loaded", NEW wins, NEW new, NEW news,
               Update(p, wins, new, news), wins => ~Attempting(row)
        PROVE  A
    BY <2>1, <2>2 DEF Update, Attempting
  <2>3. ASSUME NEW x, row.cancel # "UNKNOWN", row' = [row EXCEPT !.cancel = x] PROVE A
    <3>1. row \in Row
      BY DEF IInv, TypeOK
    <3>2. row'.cancel = x
      BY <2>3, <3>1, SMT
    <3> QED
      BY <2>3, <3>2
  <2>4. CASE Place \/ Fill \/ Die \/ GraceEnds \/ Crash
    BY <2>1, <2>4 DEF Place, Fill, Die, GraceEnds, Crash
  <2>5. CASE Persist
    <3>1. row.cancel = "none"
      BY <2>5, SMT DEF Persist, IInv, RowOK, NewRow
    <3> QED
      BY <3>1
  <2>6. CASE Restart
    BY <2>1, <2>3, <2>6 DEF Restart
  <2>7. ASSUME NEW p \in Pass, PassStep(p) \/ PassFails(p) PROVE A
    <3>1. CASE CloseAcceptedCancel(p)
      <4>1. SameState(row, pass[p].row) => ~Attempting(row)
        BY <3>1 DEF CloseAcceptedCancel, SameState, Attempting
      <4> QED
        BY <3>1, <4>1, <2>2 DEF CloseAcceptedCancel
    <3>2. CASE TakeListing(p)
      <4>1. row = pass[p].row => ~Attempting(row)
        BY <3>2 DEF TakeListing, Attempting
      <4> QED
        BY <3>2, <4>1, <2>2 DEF TakeListing
    <3>3. CASE CloseAbsent(p)
      <4>1. SameState(row, pass[p].row) => ~Attempting(row)
        BY <3>3 DEF CloseAbsent, SameState, Attempting
      <4> QED
        BY <3>3, <4>1, <2>2 DEF CloseAbsent
    <3>4. CASE UNCHANGED row
      BY <2>1, <3>4
    <3> QED
      BY <2>7, <3>1, <3>2, <3>3, <3>4 DEF PassStep, ReadExecutions, ReadUnfilled, LoadOpenRecords,
         LeaveRecord, TellStrategy, PassFails
  <2>8. ASSUME NEW c \in Canceller, CancelStep(c) \/ CancellerDies(c) PROVE A
    <3>1. CASE ClaimCancellation(c)
      BY <2>1, <2>3, <3>1 DEF ClaimCancellation
    <3>2. ASSUME NEW phase, NEW x, Mark(c, phase, x) PROVE A
      BY <2>1, <2>3, <3>2 DEF Mark
    <3>3. CASE UNCHANGED row
      BY <2>1, <3>3
    <3> QED
      BY <2>8, <3>1, <3>2, <3>3 DEF CancelStep, FindTarget, PostCancel, GiveUpClaim, ReleaseClaim,
         MarkAccepted, MarkRejected, MarkUnknown, CancellerDies
  <2>9. ASSUME NEW i \in Inspector, InspectStep(i) PROVE A
    <3>1. CASE CloseInspected(i) \/ ConfirmNotAccepted(i)
      <4>1. insp[i].phase = "unfilled" /\ SameState(row, insp[i].row)
        BY <3>1 DEF CloseInspected, ConfirmNotAccepted
      <4>2. row.cancel = "UNKNOWN"
        BY <4>1, InspectorFacts, SMT DEF InspOK, SameState
      <4> QED
        BY <4>1, <4>2
    <3>2. CASE UNCHANGED row
      BY <2>1, <3>2
    <3> QED
      BY <2>9, <3>1, <3>2 DEF InspectStep, InspectExecutions, InspectUnfilled, EndInspection
  <2> QED
    BY <2>4, <2>5, <2>6, <2>7, <2>8, <2>9 DEF Next
<1> QED
  BY <1>1, Invariance, PTL DEF Spec, AttemptFreezesRow

\* No pass, canceller, takeover or inspection takes executedQty back, however old
\* what it read, but for an inspection that closes a row which counted more since.
THEOREM ExecutedGrows == Spec => ExecutedOnlyGrows
<1> DEFINE Grows == row'.executed >= row.executed
           Older == \E i \in Inspector : Outdated(i) /\ row.cancel = "UNKNOWN" /\ row'.cancel = "RESOLVED"
<1>1. IInv /\ [Next]_vars => [Grows \/ Older]_vars
  <2> SUFFICES ASSUME IInv, Next PROVE Grows \/ Older
    BY DEF vars
  <2>1. row \in Row
    BY DEF IInv, TypeOK
  <2>2. ASSUME UNCHANGED row PROVE Grows
    BY <2>1, <2>2, SMT
  <2>3. ASSUME NEW x \in Cancellation, row' = [row EXCEPT !.cancel = x]
        PROVE  Grows
    BY <2>1, <2>3, SMT
  <2>4. CASE Place \/ Fill \/ Die \/ GraceEnds \/ Crash
    BY <2>2, <2>4 DEF Place, Fill, Die, GraceEnds, Crash
  <2>5. CASE Persist
    BY <2>1, <2>5, SMT DEF Persist
  <2>6. CASE Restart
    BY <2>2, <2>3, <2>6 DEF Restart
  <2>7. ASSUME NEW p \in Pass, PassStep(p) \/ PassFails(p) PROVE Grows
    <3> DEFINE r == pass[p].row
               n == Larger(r.executed, pass[p].exec.filled)
    <3>1. pass[p] \in PassState
      BY SMT DEF IInv, TypeOK
    <3>2. n \in 0..Q /\ n >= r.executed
      BY <3>1, SMT DEF Larger, PassState
    <3>3. CASE CloseAcceptedCancel(p)
      <4>1. row' = ClosedBy(r, n) \/ row' = row
        BY <3>3 DEF CloseAcceptedCancel, Update
      <4>2. row' = row \/ row = r
        BY <3>3, SameOpen, SMT DEF CloseAcceptedCancel, Update
      <4>3. ClosedBy(r, n).executed = n
        BY DEF ClosedBy
      <4> HIDE DEF n, r
      <4> QED
        BY <2>1, <3>2, <4>1, <4>2, <4>3, SMT
    <3>4. CASE TakeListing(p)
      <4>1. row' = row \/ (row = r /\ row'.executed = n)
        <5>1. CASE row = r
          <6>1. PICK st, b : row' = [r EXCEPT !.status = st, !.executed = n, !.named = b]
            BY <3>4, <5>1 DEF TakeListing, Update
          <6>2. r \in Row
            BY <2>1, <5>1
          <6> HIDE DEF n, r
          <6>3. row'.executed = n
            BY <6>1, <6>2, SMT
          <6> QED
            BY <5>1, <6>3
        <5>2. CASE row # r
          BY <3>4, <5>2 DEF TakeListing, Update
        <5> QED
          BY <5>1, <5>2
      <4> HIDE DEF n, r
      <4> QED
        BY <2>1, <3>2, <4>1, SMT
    <3>5. CASE CloseAbsent(p)
      BY <2>1, <3>5, SMT DEF CloseAbsent, Update
    <3>6. CASE UNCHANGED row
      BY <2>2, <3>6
    <3> QED
      BY <2>7, <3>3, <3>4, <3>5, <3>6 DEF PassStep, ReadExecutions, ReadUnfilled, LoadOpenRecords,
         LeaveRecord, TellStrategy, PassFails
  <2>8. ASSUME NEW c \in Canceller, CancelStep(c) \/ CancellerDies(c)
        PROVE  Grows
    <3>1. CASE ClaimCancellation(c)
      BY <2>2, <2>3, <3>1 DEF ClaimCancellation
    <3>2. ASSUME NEW phase, NEW x \in Cancellation, Mark(c, phase, x)
          PROVE  Grows
      BY <2>2, <2>3, <3>2 DEF Mark
    <3>3. CASE UNCHANGED row
      BY <2>2, <3>3
    <3> QED
      BY <2>8, <3>1, <3>2, <3>3 DEF CancelStep, FindTarget, PostCancel, GiveUpClaim, ReleaseClaim,
         MarkAccepted, MarkRejected, MarkUnknown, CancellerDies
  <2>9. ASSUME NEW i \in Inspector, InspectStep(i) PROVE Grows \/ Older
    <3>1. CASE CloseInspected(i)
      <4>1. /\ insp[i].phase = "unfilled" /\ row'.cancel = "RESOLVED" /\ row.cancel = "UNKNOWN"
            /\ row'.executed = insp[i].exec.filled /\ insp[i].exec.filled >= insp[i].row.executed
        BY <3>1, InspectorFacts, SMT DEF CloseInspected, ClosedBy, InspOK, SameState
      <4>2. insp[i] \in InspState
        BY InspectorFacts
      <4>3. CASE insp[i].row.executed < row.executed
        BY <4>1, <4>3 DEF Outdated
      <4>4. CASE ~(insp[i].row.executed < row.executed)
        BY <2>1, <4>1, <4>2, <4>4, SMT DEF InspState
      <4> QED
        BY <4>3, <4>4
    <3>2. CASE ConfirmNotAccepted(i)
      BY <2>3, <3>2 DEF ConfirmNotAccepted
    <3>3. CASE UNCHANGED row
      BY <2>2, <3>3
    <3> QED
      BY <2>9, <3>1, <3>2, <3>3 DEF InspectStep, InspectExecutions, InspectUnfilled, EndInspection
  <2> QED
    BY <2>4, <2>5, <2>6, <2>7, <2>8, <2>9 DEF Next
<1> QED
  BY <1>1, Invariance, PTL DEF Spec, ExecutedOnlyGrows

-----------------------------------------------------------------------------
(* What all of this implements: OrderReport. *)

LEMMA NewsParts ==
  /\ newsOf \subseteq 0..Q
  /\ \A n \in 1..Q : n \in newsOf <=> \E p \in Pass : Telling(p, n)
  /\ 0 \in newsOf <=> \E p \in Pass : Failing(p)
  BY SMT DEF newsOf

LEMMA NewsPartsNext ==
  /\ newsOf' \subseteq 0..Q
  /\ \A n \in 1..Q : n \in newsOf' <=> \E p \in Pass : Telling(p, n)'
  /\ 0 \in newsOf' <=> \E p \in Pass : Failing(p)'
  BY SMT DEF newsOf

\* A step that writes neither a count nor a closure, nor has news.
LEMMA Unseen ==
  ASSUME UNCHANGED <<brokerVars, toldVars>>, row'.executed = row.executed, Closed' <=> Closed,
         Doubted' <=> Doubted,
         \A p \in Pass : pass'[p] = pass[p] \/ pass'[p].phase # "news"
  PROVE  \E S \in SUBSET (0..Q) : Report!Lose(S)
<1> DEFINE S == newsOf \ newsOf'
<1>1. \A p \in Pass, n \in 1..Q : Telling(p, n)' => Telling(p, n)
  BY SMT DEF Telling
<1>2. \A p \in Pass : Failing(p)' => Failing(p)
  BY SMT DEF Failing
<1>3. \A n \in 0..Q : n \in newsOf' => n \in newsOf
  <2> TAKE n \in 0..Q
  <2>1. n = 0 \/ n \in 1..Q
    BY SMT
  <2> QED
    BY <1>1, <1>2, <2>1, NewsParts, NewsPartsNext
<1>4. newsOf' = newsOf \ S /\ S \in SUBSET (0..Q) /\ S \subseteq newsOf
  <2> HIDE DEF newsOf
  <2> QED
    BY <1>3, NewsParts, NewsPartsNext
<1>5. Report!Lose(S)
  <2> HIDE DEF S
  <2> QED
    BY <1>4 DEF Report!Lose, Report!broker, Doubted
<1> QED
  BY <1>4, <1>5

LEMMA BrokerSeen == ASSUME IInv, Place \/ Fill \/ Die PROVE Report!Broker
<1>1. UNCHANGED <<row, pass, heard, failed>>
  BY DEF Place, Fill, Die
<1>2. Closed' = Closed /\ Doubted' = Doubted /\ newsOf' = newsOf
  BY <1>1 DEF Closed, Doubted, newsOf, Telling, Failing
<1>3. \/ ord = "unsent" /\ ord' \in {"live", "refused"} /\ filled' = filled
      \/ ord = "live" /\ ord' \in {"live", "dead"} /\ filled' = filled + 1 /\ filled' <= Q
      \/ ord = "live" /\ ord' = "dead" /\ filled' = filled
  BY SMT DEF IInv, TypeOK, BrokerOK, Place, Fill, Die
<1> QED
  BY <1>1, <1>2, <1>3 DEF Report!Broker

\* No other pass knows what this one tells, and it was never told before.
LEMMA TellSeen ==
  ASSUME IInv, NEW p \in Pass, TellStrategy(p)
  PROVE  \E S \in SUBSET (0..Q) : Report!Tell(S)
<1> DEFINE S == {n \in 1..Q : Telling(p, n)} \cup {n \in {0} : Failing(p)}
<1>1. /\ pass[p] \in PassState /\ pass[p].phase = "news"
      /\ pass'[p] = IdlePass /\ \A q \in Pass : q # p => pass'[q] = pass[q]
      /\ UNCHANGED <<brokerVars, row>>
  BY SMT DEF IInv, TypeOK, TellStrategy, PassTo
<1>2. S \subseteq 0..Q /\ (\A n \in 1..Q : n \in S <=> Telling(p, n)) /\ (0 \in S <=> Failing(p))
  BY SMT
<1> HIDE DEF S
<1>3. \A q \in Pass, n \in 1..Q : Telling(q, n)' <=> q # p /\ Telling(q, n)
  BY <1>1, SMT DEF Telling, IdlePass
<1>4. \A q \in Pass : Failing(q)' <=> q # p /\ Failing(q)
  BY <1>1, SMT DEF Failing, IdlePass
<1>5. \A n \in 1..Q : n \in newsOf' <=> n \in newsOf /\ n \notin S
  <2> TAKE n \in 1..Q
  <2>1. \A q, t \in Pass : Telling(q, n) /\ Telling(t, n) => q = t
    BY DEF IInv, ToldOK
  <2> QED
    BY <1>2, <1>3, <2>1, NewsParts, NewsPartsNext
<1>6. 0 \in newsOf' <=> 0 \in newsOf /\ 0 \notin S
  BY <1>2, <1>4, NewsParts, NewsPartsNext DEF IInv, FailedOK
<1>7. S \subseteq newsOf /\ newsOf' = newsOf \ S
  <2>1. \A n \in 0..Q : n = 0 \/ n \in 1..Q
    BY SMT
  <2>2. \A n \in S : n \in newsOf
    BY <1>2, <2>1, NewsParts
  <2>3. \A n \in 0..Q : n \in newsOf' <=> n \in newsOf /\ n \notin S
    BY <1>5, <1>6, <2>1
  <2> HIDE DEF newsOf
  <2> QED
    BY <2>2, <2>3, NewsParts, NewsPartsNext
<1>8. heard' = [n \in 1..Q |-> IF n \in S THEN heard[n] + 1 ELSE heard[n]]
  <2>1. CASE pass[p].news = "fill"
    <3>1. \A n \in 1..Q : n \in S <=> n \in (pass[p].from + 1)..pass[p].upto
      BY <1>1, <1>2, <2>1, SMT DEF Telling, PassState
    <3>2. heard' = [n \in 1..Q |-> IF n \in (pass[p].from + 1)..pass[p].upto
                                   THEN heard[n] + 1 ELSE heard[n]]
      BY <2>1 DEF TellStrategy
    <3> QED
      BY <3>1, <3>2, Zenon
  <2>2. CASE pass[p].news # "fill"
    <3>1. \A n \in 1..Q : n \notin S
      BY <1>2, <2>2 DEF Telling
    <3>2. heard' = heard /\ heard \in [1..Q -> Nat]
      BY <2>2 DEF TellStrategy, IInv, TypeOK
    <3> QED
      BY <3>1, <3>2, SMT
  <2> QED
    BY <2>1, <2>2
<1>9. failed' = IF 0 \in S THEN failed + 1 ELSE failed
  BY <1>1, <1>2 DEF TellStrategy, Failing
<1>10. Closed' = Closed /\ Doubted' = Doubted
  BY <1>1 DEF Closed, Doubted
<1>11. Report!Tell(S)
  BY <1>1, <1>7, <1>8, <1>9, <1>10 DEF Report!Tell, Report!broker
<1> QED
  BY <1>2, <1>11

\* An update that wins is a Count or a Fail of OrderReport.
LEMMA UpdateSeen ==
  ASSUME IInv, IInv', ClosedMeansDead', NEW p \in Pass, pass[p].phase = "loaded",
         NEW wins, NEW new, NEW news \in {"none", "fill", "failure"}, Update(p, wins, new, news),
         wins => /\ ~Closed /\ ~Doubted /\ new.cancel # "UNKNOWN"
                 /\ news = "none" => new.executed = row.executed
                 /\ news = "fill" => /\ pass[p].row.executed = row.executed
                                     /\ new.executed > row.executed
                 /\ news = "failure" => row.executed = 0 /\ new.executed = 0
  PROVE  Report!Next
<1>1. /\ pass[p] \in PassState /\ UNCHANGED <<brokerVars, toldVars>>
      /\ row \in Row /\ row' \in Row /\ filled \in 0..Q /\ row'.executed <= filled
      /\ \A q \in Pass : q # p => pass'[q] = pass[q]
      /\ pass \in [Pass -> PassState]
  BY SMT DEF IInv, TypeOK, RowOK, Update, PassTo
<1>2. (Closed' => Report!Over) /\ Closed' \in {FALSE, Report!Over}
  <2>1. Closed' => Report!Over
    BY <1>1 DEF ClosedMeansDead, Report!Over
  <2>2. Closed' \in BOOLEAN /\ Report!Over \in BOOLEAN
    BY DEF Closed, Report!Over
  <2> QED
    BY <2>1, <2>2, Zenon
<1>3. wins => ~Doubted /\ Doubted' = Doubted
  BY SMT DEF Update, Doubted
<1>4. CASE ~wins
  <2>1. \A q \in Pass : pass'[q] = pass[q] \/ pass'[q].phase # "news"
    BY <1>1, <1>4, SMT DEF Update, PassTo, IdlePass
  <2>2. row' = row
    BY <1>4 DEF Update
  <2>3. (Closed' <=> Closed) /\ (Doubted' <=> Doubted)
    BY <2>2 DEF Closed, Doubted
  <2> QED
    BY <1>1, <2>1, <2>2, <2>3, Unseen DEF Report!Next
<1>5. CASE wins /\ news = "none"
  <2>1. row'.executed = row.executed /\ ~Closed /\ row.executed \in 0..filled /\ row.executed \in 0..Q
    BY <1>1, <1>5, SMT DEF Update
  <2>2. pass' = [pass EXCEPT ![p] = IdlePass]
    BY <1>5 DEF Update, PassTo
  <2>3. (\A q \in Pass, n \in 1..Q : Telling(q, n)' <=> Telling(q, n))
        /\ (\A q \in Pass : Failing(q)' <=> Failing(q))
    BY <1>1, <2>2, SMT DEF Telling, Failing, IdlePass
  <2>4. newsOf' = newsOf
    BY <2>3, SMT DEF newsOf
  <2>5. (row.executed + 1)..row.executed = {}
    BY <2>1, SMT
  <2>6. row.executed \in row.executed..filled
    BY <2>1, SMT
  <2>7. Report!Count(row.executed)
    <3> HIDE DEF newsOf, Closed, Doubted, Report!Over
    <3> QED
      BY <1>1, <1>2, <1>3, <1>5, <2>1, <2>4, <2>5, <2>6 DEF Report!Count, Report!broker
  <2> QED
    BY <2>1, <2>7 DEF Report!Next
<1>6. CASE wins /\ news = "fill"
  <2>1. /\ row' = new /\ row'.executed > row.executed /\ ~Closed
        /\ pass' = [pass EXCEPT ![p] = NewsOf(news, row.executed, row'.executed)]
    BY <1>6 DEF Update, PassTo, NewsOf
  <2>2. row.executed \in 0..Q /\ row'.executed \in 0..Q
    BY <1>1, SMT
  <2>3. /\ pass'[p].phase = "news" /\ pass'[p].news = "fill"
        /\ pass'[p].from = row.executed /\ pass'[p].upto = row'.executed
    BY <1>1, <1>6, <2>1, <2>2, NewsState
  <2>4. \A q \in Pass, n \in 1..Q :
          Telling(q, n)' <=> Telling(q, n) \/ (q = p /\ row.executed < n /\ n <= row'.executed)
    BY <1>1, <2>3, SMT DEF Telling
  <2>5. \A q \in Pass : Failing(q)' <=> Failing(q)
    BY <1>1, <2>3, SMT DEF Failing
  <2> DEFINE T == (row.executed + 1)..row'.executed
  <2>6. T \subseteq 1..Q /\ \A n \in 1..Q : n \in T <=> row.executed < n /\ n <= row'.executed
    BY <2>2, SMT
  <2> HIDE DEF T
  <2>7. \A n \in 1..Q : n \in newsOf' <=> n \in newsOf \/ n \in T
    BY <2>4, <2>6, NewsParts, NewsPartsNext
  <2>8. 0 \in newsOf' <=> 0 \in newsOf
    BY <2>5, NewsParts, NewsPartsNext
  <2>9. newsOf' = newsOf \cup T
    <3>1. \A n \in 0..Q : n = 0 \/ n \in 1..Q
      BY SMT
    <3>2. 0 \notin T
      BY <2>6, SMT
    <3>3. \A n \in 0..Q : n \in newsOf' <=> n \in newsOf \/ n \in T
      BY <2>7, <2>8, <3>1, <3>2
    <3>4. T \subseteq 0..Q
      BY <2>6, SMT
    <3> HIDE DEF newsOf
    <3> QED
      BY <3>3, <3>4, NewsParts, NewsPartsNext
  <2>10. row'.executed \in row.executed..filled
    BY <1>1, <2>1, <2>2, SMT
  <2>11. Report!Count(row'.executed)
    <3> HIDE DEF newsOf, Closed, Doubted, Report!Over
    <3> QED
      BY <1>1, <1>2, <1>3, <1>6, <2>1, <2>9, <2>10 DEF Report!Count, Report!broker, T
  <2> QED
    BY <2>2, <2>11 DEF Report!Next
<1>7. CASE wins /\ news = "failure"
  <2>1. /\ row' = new /\ row'.executed = row.executed /\ row.executed = 0 /\ ~Closed
        /\ pass' = [pass EXCEPT ![p] = NewsOf(news, pass[p].row.executed, row'.executed)]
    BY <1>7 DEF Update, PassTo, NewsOf
  <2>2. pass[p].row.executed \in 0..Q /\ row'.executed \in 0..Q
    BY <1>1, SMT DEF PassState
  <2>3. pass'[p].phase = "news" /\ pass'[p].news = "failure"
    BY <1>1, <1>7, <2>1, <2>2, NewsState
  <2>4. (\A q \in Pass, n \in 1..Q : Telling(q, n)' <=> Telling(q, n)) /\ Failing(p)'
        /\ \A q \in Pass : Failing(q)' <=> Failing(q) \/ q = p
    BY <1>1, <2>3, SMT DEF Telling, Failing
  <2>5. Closed'
    BY <2>4 DEF IInv, FailedOK
  <2>6. newsOf' = newsOf \cup {0}
    BY <2>4, SMT DEF newsOf
  <2>7. Report!Fail
    BY <1>1, <1>2, <1>3, <1>7, <2>1, <2>5, <2>6 DEF Report!Fail, Report!broker
  <2> QED
    BY <2>7 DEF Report!Next
<1> QED
  BY <1>4, <1>5, <1>6, <1>7

\* A step that leaves the order, the row and what is told of it alone.
LEMMA RowUnseen ==
  ASSUME UNCHANGED <<brokerVars, row, toldVars>>,
         \A p \in Pass : pass'[p] = pass[p] \/ pass'[p].phase # "news"
  PROVE  Report!Next
<1>1. row'.executed = row.executed /\ (Closed' <=> Closed) /\ (Doubted' <=> Doubted)
  BY DEF Closed, Doubted
<1> QED
  BY <1>1, Unseen DEF Report!Next

\* A step that writes of an open row no more than its cancel attempt.
LEMMA AttemptSeen ==
  ASSUME IInv, UNCHANGED <<brokerVars, toldVars, pass>>, IsOpen(row),
         NEW x \in Cancellation, row' = [row EXCEPT !.cancel = x]
  PROVE  Report!Next
<1>1. row'.status = row.status /\ row'.executed = row.executed /\ row'.named = row.named
  <2>1. row \in Row
    BY DEF IInv, TypeOK
  <2> HIDE DEF Row, Cancellation
  <2> QED
    BY <2>1, Recancelled
<1>2. ~Closed /\ Closed' = Closed
  BY <1>1, SMT DEF IsOpen, Closed
<1>3. newsOf' = newsOf
  BY DEF newsOf, Telling, Failing
<1>4. Doubted' \in BOOLEAN
  BY DEF Doubted
<1>5. Report!Cancel
  <2> HIDE DEF newsOf, Closed, Doubted
  <2> QED
    BY <1>1, <1>2, <1>3, <1>4 DEF Report!Cancel, Report!broker
<1> QED
  BY <1>5 DEF Report!Next

LEMMA PassSeen ==
  ASSUME IInv, IInv', ClosedMeansDead', NEW p \in Pass, PassStep(p) \/ PassFails(p)
  PROVE  Report!Next
<1> DEFINE r == pass[p].row
           n == Larger(r.executed, pass[p].exec.filled)
<1>1. /\ pass[p] \in PassState /\ pass \in [Pass -> PassState] /\ row \in Row
      /\ r.executed \in 0..Q /\ n \in 0..Q /\ n >= r.executed
  BY SMT DEF IInv, TypeOK, Larger, PassState
<1>2. CASE CloseAcceptedCancel(p)
  <2> DEFINE news == IF n > r.executed THEN "fill" ELSE IF n = 0 THEN "failure" ELSE "none"
  <2>1. /\ pass[p].phase = "loaded" /\ r.cancel = "ACCEPTED"
        /\ Update(p, SameState(row, r), ClosedBy(r, n), news)
    BY <1>2 DEF CloseAcceptedCancel
  <2>2. SameState(row, r) => ~Closed /\ row = r /\ ~Doubted
    BY <2>1, SameOpen DEF Doubted
  <2>3. ClosedBy(r, n).executed = n /\ ClosedBy(r, n).cancel # "UNKNOWN"
    BY DEF ClosedBy
  <2>4. /\ news \in {"none", "fill", "failure"}
        /\ news = "none" => n = r.executed
        /\ news = "fill" => n > r.executed
        /\ news = "failure" => n = 0 /\ r.executed = 0
    BY <1>1, SMT
  <2> HIDE DEF n, news
  <2> QED
    BY <2>1, <2>2, <2>3, <2>4, UpdateSeen
<1>3. CASE TakeListing(p)
  <2> DEFINE st   == BrokerStatus(n, pass[p].exec.rejected)
             new  == [r EXCEPT !.status = st, !.executed = n,
                               !.named = r.named /\ ~(st = "PARTIAL" /\ pass[p].exec.remaining = 0)]
             news == IF n > r.executed THEN "fill"
                     ELSE IF st = "FAILED" /\ n = 0 THEN "failure" ELSE "none"
  <2>1. pass[p].phase = "loaded" /\ Update(p, row = r, new, news) /\ r.cancel # "UNKNOWN"
    BY <1>3 DEF TakeListing, Attempting
  <2>2. row = r => ~Closed /\ ~Doubted
    BY <2>1, SameOpen DEF SameState, Doubted
  <2>3. row = r => new.executed = n /\ new.cancel = r.cancel
    <3> SUFFICES ASSUME row = r PROVE new.executed = n /\ new.cancel = r.cancel
      OBVIOUS
    <3>1. r \in Row
      BY <1>1
    <3> HIDE DEF r, n, st
    <3> QED
      BY <3>1, SMT
  <2>4. /\ news \in {"none", "fill", "failure"}
        /\ news = "none" => n = r.executed
        /\ news = "fill" => n > r.executed
        /\ news = "failure" => n = 0 /\ r.executed = 0
    BY <1>1, SMT
  <2> DEFINE wins == row = r
  <2>5. wins => row.executed = r.executed
    OBVIOUS
  <2> HIDE DEF n, new, news, wins
  <2>6. wins => ~Closed /\ ~Doubted /\ new.executed = n /\ new.cancel # "UNKNOWN"
    BY <2>1, <2>2, <2>3 DEF wins
  <2>7. Update(p, wins, new, news)
    BY <2>1 DEF wins
  <2> QED
    BY <2>1, <2>4, <2>5, <2>6, <2>7, UpdateSeen
<1>4. CASE CloseAbsent(p)
  <2> DEFINE new  == IF r.status = "PARTIAL" THEN [row EXCEPT !.named = FALSE]
                                             ELSE [row EXCEPT !.status = "CANCELLED"]
             news == IF r.status = "PARTIAL" THEN "none" ELSE "failure"
  <2>1. pass[p].phase = "loaded" /\ Update(p, SameState(row, r), new, news) /\ r.cancel # "UNKNOWN"
    BY <1>4 DEF CloseAbsent, Attempting
  <2>2. SameState(row, r) => ~Closed /\ IsOpen(row) /\ row.status = r.status /\ row.cancel # "UNKNOWN"
    BY <2>1, SameOpen
  <2>3. new.executed = row.executed /\ new.cancel = row.cancel
    BY <1>1, SMT
  <2>4. /\ news \in {"none", "fill", "failure"} /\ news # "fill"
        /\ news = "failure" => r.status # "PARTIAL"
    OBVIOUS
  <2>5. IsOpen(row) /\ row.status # "PARTIAL" => row.executed = 0
    BY DEF IInv, RowOK, IsOpen
  <2> HIDE DEF new, news
  <2> QED
    BY <2>1, <2>2, <2>3, <2>4, <2>5, UpdateSeen DEF Doubted
<1>5. CASE TellStrategy(p)
  BY <1>5, TellSeen DEF Report!Next
<1>6. CASE ReadExecutions(p) \/ ReadUnfilled(p) \/ LoadOpenRecords(p) \/ LeaveRecord(p) \/ PassFails(p)
  <2>1. UNCHANGED <<brokerVars, row, toldVars>>
    BY <1>6 DEF ReadExecutions, ReadUnfilled, LoadOpenRecords, LeaveRecord, PassFails
  <2>2. pass'[p].phase # "news" /\ \A q \in Pass : q # p => pass'[q] = pass[q]
    <3>1. CASE ReadExecutions(p)
      BY <1>1, <3>1, SMT DEF ReadExecutions, PassTo, IdlePass
    <3>2. CASE ReadUnfilled(p)
      <4> DEFINE t == [pass[p] EXCEPT !.phase = "unfilled", !.open = StillOpen]
      <4>1. StillOpen \in BOOLEAN
        BY DEF StillOpen
      <4>2. t.phase = "unfilled"
        BY <1>1, <4>1, Looked
      <4>3. pass' = [pass EXCEPT ![p] = t]
        BY <3>2 DEF ReadUnfilled, PassTo
      <4> HIDE DEF t
      <4> QED
        BY <1>1, <4>2, <4>3, SMT
    <3>3. CASE LoadOpenRecords(p)
      <4>1. aged \in BOOLEAN
        BY DEF IInv, TypeOK
      <4> HIDE DEF Row
      <4>2. [pass[p] EXCEPT !.phase = "loaded", !.row = row, !.aged = aged].phase = "loaded"
        BY <1>1, <4>1, Loaded
      <4> QED
        BY <1>1, <3>3, <4>2, SMT DEF LoadOpenRecords, PassTo, IdlePass
    <3>4. CASE LeaveRecord(p) \/ PassFails(p)
      BY <1>1, <3>4, SMT DEF LeaveRecord, PassFails, PassTo, IdlePass
    <3> QED
      BY <1>6, <3>1, <3>2, <3>3, <3>4
  <2> QED
    BY <2>1, <2>2, RowUnseen
<1> QED
  BY <1>2, <1>3, <1>4, <1>5, <1>6 DEF PassStep

LEMMA CancelSeen ==
  ASSUME IInv, NEW c \in Canceller, CancelStep(c) \/ CancellerDies(c)
  PROVE  Report!Next
<1>1. UNCHANGED <<brokerVars, toldVars, pass>>
  BY DEF CancelStep, FindTarget, ClaimCancellation, PostCancel, GiveUpClaim, ReleaseClaim,
     MarkAccepted, MarkRejected, MarkUnknown, Mark, CancellerDies, CancTo
<1>2. row' = row \/ (IsOpen(row) /\ \E x \in Cancellation : row' = [row EXCEPT !.cancel = x])
  <2>1. row.cancel = "SUBMITTING" => IsOpen(row)
    BY DEF IInv, RowOK
  <2> QED
    BY <2>1 DEF CancelStep, FindTarget, ClaimCancellation, PostCancel, GiveUpClaim, ReleaseClaim,
       MarkAccepted, MarkRejected, MarkUnknown, Mark, CancellerDies
<1> QED
  BY <1>1, <1>2, RowUnseen, AttemptSeen

LEMMA RestartSeen == ASSUME IInv, Crash \/ Restart PROVE Report!Next
<1>1. CASE Crash
  <2>1. \A p \in Pass : pass'[p].phase # "news"
    BY <1>1, SMT DEF Crash, IdlePass
  <2> QED
    BY <1>1, <2>1, RowUnseen DEF Crash
<1>2. CASE Restart
  <2>1. UNCHANGED <<brokerVars, toldVars, pass>>
    BY <1>2 DEF Restart
  <2>2. row' = row \/ (IsOpen(row) /\ row' = [row EXCEPT !.cancel = "UNKNOWN"])
    BY <1>2 DEF Restart, IInv, RowOK
  <2> QED
    BY <2>1, <2>2, RowUnseen, AttemptSeen
<1> QED
  BY <1>1, <1>2

\* An operator closes the row with what the inspection saw, and tells nobody.
LEMMA InspectSeen ==
  ASSUME IInv, IInv', ClosedMeansDead', NEW i \in Inspector, InspectStep(i)
  PROVE  Report!Next
<1>1. CASE CloseInspected(i)
  <2> DEFINE n == insp[i].exec.filled
  <2>1. /\ insp[i].phase = "unfilled" /\ insp[i].exec.listed /\ SameState(row, insp[i].row)
        /\ row' = ClosedBy(insp[i].row, n) /\ InspTo(i, IdleInsp)
    BY <1>1 DEF CloseInspected
  <2>2. /\ insp[i] \in InspState /\ InspOK(insp[i]) /\ filled \in 0..Q
    BY InspectorFacts
  <2>3. n \in 0..filled /\ n \in 0..Q /\ IsOpen(insp[i].row)
    BY <2>1, <2>2, SMT DEF InspOK, SnapshotOK, InspState
  <2>4. ~Closed /\ Doubted
    BY <2>1, <2>2, <2>3, SMT DEF SameState, IsOpen, Closed, InspOK, Doubted
  <2>5. row'.executed = n /\ row'.cancel = "RESOLVED"
    BY <2>1 DEF ClosedBy
  <2>6. Closed'
    BY <2>5 DEF IInv, RowOK
  <2>7. UNCHANGED <<brokerVars, toldVars, pass>>
    BY <2>1 DEF InspTo
  <2>8. newsOf' = newsOf
    BY <2>7 DEF newsOf, Telling, Failing
  <2>9. Report!Over
    BY <2>6, <2>7 DEF ClosedMeansDead, Report!Over
  <2>10. Closed' = TRUE /\ Doubted' = FALSE
    BY <2>5, <2>6 DEF Closed, Doubted
  <2> HIDE DEF n
  <2>11. Report!Settle(n)
    <3> HIDE DEF newsOf, Closed, Doubted, Report!Over
    <3> QED
      BY <2>3, <2>4, <2>5, <2>7, <2>8, <2>9, <2>10 DEF Report!Settle, Report!broker
  <2> QED
    BY <2>3, <2>11 DEF Report!Next
<1>2. CASE ~CloseInspected(i)
  <2>1. UNCHANGED <<brokerVars, toldVars, pass>>
    BY <1>2 DEF InspectStep, InspectExecutions, InspectUnfilled, ConfirmNotAccepted, EndInspection, InspTo
  <2>2. CASE ConfirmNotAccepted(i)
    <3>1. row' = [row EXCEPT !.cancel = "REJECTED"]
      BY <2>2 DEF ConfirmNotAccepted
    <3>2. IsOpen(row)
      BY <2>2, InspectorFacts, SMT DEF ConfirmNotAccepted, SameState, IsOpen, InspOK
    <3> QED
      BY <2>1, <3>1, <3>2, AttemptSeen
  <2>3. CASE ~ConfirmNotAccepted(i)
    <3>1. row' = row
      BY <1>2, <2>3 DEF InspectStep, InspectExecutions, InspectUnfilled, EndInspection
    <3> QED
      BY <2>1, <3>1, RowUnseen
  <2> QED
    BY <2>2, <2>3
<1> QED
  BY <1>1, <1>2

LEMMA InitSeen == Init => Report!Init
<1> SUFFICES ASSUME Init PROVE Report!Init
  OBVIOUS
<1>1. row.executed = 0 /\ Closed = FALSE /\ Doubted = FALSE
  BY SMT DEF Init, NewRow, Closed, Doubted
<1>2. \A p \in Pass : pass[p].phase = "idle"
  BY SMT DEF Init, IdlePass
<1>3. newsOf = {}
  BY <1>2, SMT DEF newsOf, Telling, Failing
<1> QED
  <2> HIDE DEF newsOf, Closed, Doubted
  <2> QED
    BY <1>1, <1>3 DEF Init, Report!Init

\* Every step of the passes, cancellers, operators and crashes is a step of
\* OrderReport or invisible to it: what reconcileOpenOrders reads, in whatever
\* order, only ever counts, closes and tells as OrderReport does.
THEOREM ImplementsOrderReport == ASSUME ApprovedSell = FALSE PROVE Spec => ImplementsReport
<1>1. ASSUME IInv, IInv', Next PROVE Report!Next
  <2>1. ClosedMeansDead'
    BY <1>1 DEF IInv, ClosedOK
  <2>2. CASE Place \/ Fill \/ Die
    BY <1>1, <2>2, BrokerSeen DEF Report!Next
  <2>3. CASE Persist
    <3>1. row \in Row /\ row.status = "SUBMITTING"
      BY <1>1, <2>3 DEF Persist, IInv, TypeOK
    <3>2. row'.executed = row.executed /\ ~Closed /\ ~Closed' /\ (Doubted' <=> Doubted)
      BY <2>3, <3>1, SMT DEF Persist, Closed, Doubted
    <3> QED
      BY <2>3, <3>2, Unseen DEF Persist, Report!Next
  <2>4. CASE GraceEnds
    BY <2>4, RowUnseen DEF GraceEnds
  <2> QED
    BY <1>1, <2>1, <2>2, <2>3, <2>4, PassSeen, CancelSeen, RestartSeen, InspectSeen
       DEF Next
<1>2. ASSUME UNCHANGED vars PROVE UNCHANGED Report!vars
  BY <1>2 DEF vars, Report!vars, Report!broker, Closed, Doubted, newsOf, Telling, Failing
<1>3. IInv /\ IInv' /\ [Next]_vars => [Report!Next]_(Report!vars)
  BY <1>1, <1>2
<1> QED
  BY <1>3, InitSeen, Invariance, PTL DEF Spec, ImplementsReport, Report!Spec

\* Why OrderReport keeps its promise: what was told is no news any more, an
\* open row counts every share that is or was news, and a failure, news or
\* told, stands alone and closes the row.
ReportInv ==
  /\ row.executed \in Nat /\ newsOf \subseteq 0..Q
  /\ heard \in [1..Q -> Nat] /\ failed \in Nat
  /\ Closed => Report!Over /\ ~Doubted
  /\ \A s \in 1..Q : heard[s] <= 1 /\ (heard[s] = 1 => s \notin newsOf)
  /\ \A s \in 1..Q : ~Closed /\ (heard[s] = 1 \/ s \in newsOf) => s <= row.executed
  /\ failed <= 1 /\ (failed = 1 => 0 \notin newsOf)
  /\ failed = 1 \/ 0 \in newsOf => Closed /\ \A s \in 1..Q : heard[s] = 0 /\ s \notin newsOf

LEMMA ReportStep ==
  ASSUME ReportInv, [Report!Next]_(Report!vars)
  PROVE  ReportInv'
<1> USE DEF ReportInv
<1> HIDE DEF newsOf, Closed, Doubted
<1>1. CASE Report!Broker
  <2>1. Closed' = Closed /\ Doubted' = Doubted /\ newsOf' = newsOf /\ row.executed' = row.executed
        /\ heard' = heard /\ failed' = failed
    BY <1>1 DEF Report!Broker
  <2>2. Report!Over => Report!Over'
    BY <1>1, SMT DEF Report!Broker, Report!Over
  <2> QED
    BY <2>1, <2>2, SMT
<1>2. ASSUME NEW n \in 0..Q, Report!Count(n) PROVE ReportInv'
  <2>1. /\ ~Closed /\ row.executed' = n /\ n >= row.executed
        /\ newsOf' = newsOf \cup ((row.executed + 1)..n)
        /\ heard' = heard /\ failed' = failed /\ Report!Over' = Report!Over
        /\ (Closed' => Report!Over) /\ ~Doubted'
    <3>1. n \in row.executed..filled => n >= row.executed
      BY SMT
    <3>2. Closed' \in {FALSE, Report!Over} => (Closed' => Report!Over)
      BY Zenon
    <3>3. Report!Over' = Report!Over
      BY <1>2 DEF Report!Count, Report!broker, Report!Over
    <3> QED
      BY <1>2, <3>1, <3>2, <3>3 DEF Report!Count, Report!broker
  <2>2. failed = 0 /\ 0 \notin newsOf
    BY <2>1, SMT
  <2>3. \A s \in 0..Q : s \in newsOf' <=> s \in newsOf \/ (row.executed < s /\ s <= n)
    BY <2>1, SMT
  <2>4. newsOf' \subseteq 0..Q
    <3>1. (row.executed + 1)..n \subseteq 0..Q
      BY <1>2, SMT
    <3> QED
      BY <2>1, <3>1
  <2> QED
    BY <1>2, <2>1, <2>2, <2>3, <2>4, SMT
<1>3. CASE Report!Fail
  <2>1. /\ ~Closed /\ row.executed = 0 /\ row.executed' = 0 /\ newsOf' = newsOf \cup {0}
        /\ heard' = heard /\ failed' = failed /\ Report!Over /\ Report!Over' = Report!Over /\ Closed' /\ ~Doubted'
    BY <1>3, SMT DEF Report!Fail, Report!broker, Report!Over
  <2>2. \A s \in 1..Q : s \notin newsOf /\ heard[s] = 0
    BY <2>1, SMT
  <2>3. \A s \in 1..Q : s \notin newsOf'
    BY <2>1, <2>2, SMT
  <2>4. failed = 0 /\ newsOf' \subseteq 0..Q
    BY <2>1, SMT
  <2> QED
    BY <2>1, <2>2, <2>3, <2>4, SMT
<1>4. ASSUME NEW n \in 0..Q, Report!Settle(n) PROVE ReportInv'
  <2>1. /\ ~Closed /\ row.executed' = n /\ newsOf' = newsOf
        /\ heard' = heard /\ failed' = failed /\ Report!Over /\ Report!Over' = Report!Over /\ Closed' /\ ~Doubted'
    BY <1>4, SMT DEF Report!Settle, Report!broker, Report!Over
  <2> QED
    BY <1>4, <2>1, SMT
<1>5. ASSUME NEW S \in SUBSET (0..Q), Report!Tell(S) PROVE ReportInv'
  <2>1. /\ S \subseteq newsOf /\ newsOf' = newsOf \ S
        /\ heard' = [s \in 1..Q |-> IF s \in S THEN heard[s] + 1 ELSE heard[s]]
        /\ failed' = IF 0 \in S THEN failed + 1 ELSE failed
        /\ Report!Over' = Report!Over /\ Closed' = Closed /\ Doubted' = Doubted /\ row.executed' = row.executed
    BY <1>5, SMT DEF Report!Tell, Report!broker, Report!Over
  <2>2. heard' \in [1..Q -> Nat] /\ failed' \in Nat
    BY <2>1, SMT
  <2>3. \A s \in 1..Q : heard'[s] = IF s \in S THEN heard[s] + 1 ELSE heard[s]
    BY <2>1
  <2>4. \A s \in 1..Q : s \in S => heard[s] = 0
    BY <2>1, SMT
  <2>5. 0 \in S => failed = 0 /\ \A s \in 1..Q : s \notin S /\ heard[s] = 0
    BY <2>1, SMT
  <2>6. \A s \in 1..Q : heard'[s] <= 1 /\ (heard'[s] = 1 => s \notin newsOf')
    BY <2>1, <2>3, <2>4, SMT
  <2>7. \A s \in 1..Q : ~Closed' /\ (heard'[s] = 1 \/ s \in newsOf') => s <= row.executed'
    BY <2>1, <2>3, <2>4, SMT
  <2>8. failed' <= 1 /\ (failed' = 1 => 0 \notin newsOf')
    BY <2>1, <2>5, SMT
  <2>9. failed' = 1 \/ 0 \in newsOf' => Closed' /\ \A s \in 1..Q : heard'[s] = 0 /\ s \notin newsOf'
    BY <2>1, <2>3, <2>5, SMT
  <2>10. newsOf' \subseteq 0..Q /\ (Closed' => Report!Over' /\ ~Doubted')
    BY <2>1
  <2> QED
    BY <2>1, <2>2, <2>6, <2>7, <2>8, <2>9, <2>10
<1>6. ASSUME NEW S \in SUBSET (0..Q), Report!Lose(S) PROVE ReportInv'
  <2>1. /\ newsOf' = newsOf \ S /\ heard' = heard /\ failed' = failed
        /\ Report!Over' = Report!Over /\ Closed' = Closed /\ Doubted' = Doubted /\ row.executed' = row.executed
    BY <1>6, SMT DEF Report!Lose, Report!broker, Report!Over
  <2> QED
    BY <2>1, SMT
<1>7. CASE UNCHANGED Report!vars
  <2>1. /\ newsOf' = newsOf /\ heard' = heard /\ failed' = failed
        /\ Report!Over' = Report!Over /\ Closed' = Closed /\ Doubted' = Doubted /\ row.executed' = row.executed
    BY <1>7, SMT DEF Report!vars, Report!broker, Report!Over
  <2> QED
    BY <2>1, SMT
<1>8. CASE Report!Cancel
  <2>1. /\ ~Closed /\ newsOf' = newsOf /\ heard' = heard /\ failed' = failed
        /\ Closed' = Closed /\ row.executed' = row.executed
    BY <1>8 DEF Report!Cancel
  <2> QED
    BY <2>1, SMT
<1> HIDE DEF ReportInv
<1> QED
  BY <1>1, <1>2, <1>3, <1>4, <1>5, <1>6, <1>7, <1>8 DEF Report!Next

\* OrderReport keeps its promise: a share is told once, a failure once and only
\* of a row without shares, and a closed row has no order that works.
THEOREM ReportKeepsPromise == Report!Spec => []Report!KeptPromise
<1>1. Report!Init => ReportInv
  <2> HIDE DEF newsOf, Closed, Doubted
  <2> QED
    BY SMT DEF Report!Init, ReportInv
<1>2. ReportInv => Report!KeptPromise
  BY SMT DEF ReportInv, Report!KeptPromise
<1> QED
  BY <1>1, <1>2, ReportStep, PTL DEF Report!Spec

\* ... and so do the passes, cancellers and operators that implement it.
THEOREM OrderKeepsPromise == ASSUME ApprovedSell = FALSE PROVE Spec => []Report!KeptPromise
  BY ImplementsOrderReport, ReportKeepsPromise, PTL DEF ImplementsReport
=============================================================================
