------------------------- MODULE BrokerClientProofs -------------------------
(***************************************************************************)
(* What the services of an order may rely on, for any number of calls: the *)
(* answers of the client are true, and callers share one issue request.    *)
(***************************************************************************)
EXTENDS BrokerClient, TLAPS

\* What a call of an order says, when the broker has executed it n times.
OrderOK(r, n) ==
  /\ n \in {0, 1}
  /\ r.pc \notin {"sent", "done"} => n = 0
  /\ r.pc = "sent" => /\ r.reply # "none"
                      /\ r.reply \in {"rejected", "refused"} => n = 0
                      /\ r.reply = "ok" => n = 1
  /\ r.pc # "done" => r.answer = "none"
  /\ r.answer = "ACCEPTED" => n = 1
  /\ r.answer = "REJECTED" => n = 0

CallInv == /\ call \in [Caller -> Calls]
           /\ executed \in [Order -> Nat]
           /\ \A o \in Order : OrderOK(call[o], executed[o])

\* One issue request at a time, and none while a token is good.
FlightInv ==
  /\ flight \in [Caller -> {"none", "loading", "asking", "saving"}]
  /\ \A l \in Caller : flight[l] # "none" => promise = l
  /\ \A l \in Caller : flight[l] \in {"loading", "asking"} => ~Live(token)
  /\ \A l \in Caller : flight[l] = "asking" => (broker = "KIS" => ~Live(saved) \/ storeFailed)
  /\ lapsed \in Nat /\ issued \in Nat /\ lapsed <= issued

Rest == /\ broker \in {"KIS", "TOSS"}
        /\ token \in Nat /\ saved \in Nat /\ promise \in Caller \cup {None}
        /\ account \in {"unknown", "resolving", "known"}
        /\ queue \in [Groups -> Seq(Caller)]
        /\ dead \in Nat /\ storeFailed \in BOOLEAN
        /\ lapses \in Nat /\ restarts \in Nat

Inv == CallInv /\ FlightInv /\ Rest

-----------------------------------------------------------------------------
LEMMA Callers ==
  /\ Order \subseteq Call /\ Call \subseteq Caller /\ Account \in Caller /\ Boot \in Caller
  /\ Account \notin Call /\ Boot \notin Call /\ Account # Boot
  /\ None \notin Caller /\ Account \notin Order /\ Boot \notin Order
  BY CallAssumption DEF Call, Caller

LEMMA FreshIs ==
  /\ Fresh \in Calls /\ Idle \in Calls
  /\ OrderOK(Fresh, 0) /\ OrderOK(Idle, 0)
  /\ Idle.pc = "idle" /\ Fresh.pc = "headers"
<1>1. Fresh \in Calls  BY DEF Fresh, Calls, Steps, Replies, Answers
<1>2. Idle \in Calls  BY DEF Idle, Fresh, Calls, Steps, Replies, Answers
<1> QED  BY <1>1, <1>2 DEF Fresh, Idle, OrderOK

LEMMA EndedIs ==
  ASSUME NEW c \in Caller, NEW a \in Answers
  PROVE  /\ Ended(c, a) \in Calls
         /\ c # Account => Ended(c, a).pc = "done" /\ Ended(c, a).answer = a
<1>1. CASE c = Account  BY <1>1, FreshIs DEF Ended
<1>2. CASE c # Account
  <2> DEFINE r == [Fresh EXCEPT !.pc = "done", !.answer = a]
  <2>1. r \in Calls  BY FreshIs DEF Calls, Steps
  <2>2. r.pc = "done" /\ r.answer = a  BY DEF Fresh
  <2> QED  BY <1>2, <2>1, <2>2 DEF Ended
<1> QED  BY <1>1, <1>2

\* A call that fails before it was sent tells the truth.
LEMMA FailedIs ==
  ASSUME CallInv, NEW c \in Caller
  PROVE  /\ Failed(c) \in Calls
         /\ (c \in Order /\ call[c].pc \notin {"sent", "done"}) => OrderOK(Failed(c), executed[c])
<1> DEFINE a == IF c \in Order THEN "REJECTED" ELSE "failed"
<1>1. a \in Answers  BY DEF Answers
<1>2. Failed(c) \in Calls /\ (c # Account => Failed(c).pc = "done" /\ Failed(c).answer = a)
  BY <1>1, EndedIs DEF Failed
<1> QED  BY <1>2, Callers DEF CallInv, OrderOK

LEMMA OneCall ==
  ASSUME CallInv, NEW c \in Caller, NEW r \in Calls, Becomes(c, r), executed' = executed,
         c \in Order => OrderOK(r, executed[c])
  PROVE  CallInv'
<1>1. call' \in [Caller -> Calls]  BY DEF CallInv, Becomes
<1>2. \A o \in Order : OrderOK(call'[o], executed'[o])
  <2> TAKE o \in Order
  <2>1. call'[o] = IF o = c THEN r ELSE call[o]  BY Callers DEF CallInv, Becomes
  <2> QED  BY <2>1 DEF CallInv
<1> QED  BY <1>1, <1>2 DEF CallInv

-----------------------------------------------------------------------------
LEMMA InvInit == Init => Inv
<1> SUFFICES ASSUME Init PROVE Inv  OBVIOUS
<1>1. CallInv
  <2>1. call \in [Caller -> Calls]  BY FreshIs DEF Init
  <2>2. \A o \in Order : call[o] = Idle /\ executed[o] = 0  BY Callers DEF Init
  <2> QED  BY <2>1, <2>2, FreshIs DEF CallInv, Init
<1>2. FlightInv  BY DEF Init, FlightInv
<1>3. Rest
  <2>1. <<>> \in Seq(Caller)  OBVIOUS
  <2>2. queue \in [Groups -> Seq(Caller)]  BY <2>1 DEF Init
  <2> QED  BY <2>2, BrokerAssumption DEF Init, Rest
<1> QED  BY <1>1, <1>2, <1>3 DEF Inv

\* The steps of one call.
LEMMA BeginInv ==
  ASSUME Inv, NEW c \in Caller, Begin(c)
  PROVE  Inv'
<1>1. CallInv'
  <2>1. c \in Order => OrderOK(Fresh, executed[c])
    BY FreshIs, Callers DEF Begin, Inv, CallInv, OrderOK
  <2> QED  BY <2>1, FreshIs, OneCall DEF Begin, Inv, world
<1>2. FlightInv' /\ Rest'
  BY DEF Begin, Inv, FlightInv, Rest, memory, world, bounds, Live
<1> QED  BY <1>1, <1>2 DEF Inv

LEMMA AwaitAccountInv ==
  ASSUME Inv, NEW c \in Caller, AwaitAccount(c)
  PROVE  Inv'
<1>1. c \in Call /\ c # Account /\ call[c] \in Calls /\ call[c].pc = "headers"
  BY Callers DEF AwaitAccount, Inv, CallInv
<1>2. CallInv'
  <2> DEFINE r == [call[c] EXCEPT !.pc = "account"]
             a == IF account = "unknown" THEN Fresh ELSE call[Account]
  <2>1. r \in Calls /\ (c \in Order => OrderOK(r, executed[c]))
    <3>1. r \in Calls  BY <1>1 DEF Calls, Steps
    <3>2. r.pc = "account" /\ r.answer = call[c].answer  BY <1>1 DEF Calls
    <3> HIDE DEF r
    <3>3. c \in Order => OrderOK(call[c], executed[c])  BY DEF Inv, CallInv
    <3> QED  BY <1>1, <3>1, <3>2, <3>3 DEF OrderOK
  <2>2. a \in Calls  BY FreshIs, Callers DEF Inv, CallInv
  <2>3. call' = [call EXCEPT ![c] = r, ![Account] = a]  BY <1>1, Callers DEF AwaitAccount, Inv, CallInv
  <2> HIDE DEF r, a
  <2>4. call' \in [Caller -> Calls]  BY <2>1, <2>2, <2>3 DEF Inv, CallInv
  <2>5. \A o \in Order : call'[o] = IF o = c THEN r ELSE call[o]
    BY <1>1, <2>3, Callers DEF Inv, CallInv
  <2> QED  BY <2>1, <2>4, <2>5 DEF Inv, CallInv, AwaitAccount, world
<1>3. FlightInv' /\ Rest'
  BY DEF AwaitAccount, Inv, FlightInv, Rest, world, bounds, Live
<1> QED  BY <1>2, <1>3 DEF Inv

LEMMA BuildHeadersInv ==
  ASSUME Inv, NEW c \in Caller, BuildHeaders(c)
  PROVE  Inv'
<1>1. call[c] \in Calls /\ call[c].pc = "headers" /\ token \in Nat
      /\ (c \in Order => OrderOK(call[c], executed[c]))
  BY DEF BuildHeaders, Inv, CallInv, Rest
<1>2. CallInv'
  <2>1. CASE Becomes(c, [call[c] EXCEPT !.pc = "ready", !.header = token])
    <3> DEFINE r == [call[c] EXCEPT !.pc = "ready", !.header = token]
    <3>1. r \in Calls  BY <1>1 DEF Calls, Steps
    <3>2. r.pc = "ready" /\ r.answer = call[c].answer  BY <1>1 DEF Calls
    <3> HIDE DEF r
    <3>3. Becomes(c, r)  BY <2>1 DEF r
    <3> QED  BY <1>1, <3>1, <3>2, <3>3, OneCall DEF OrderOK, BuildHeaders, Inv, world
  <2>2. ASSUME NEW j \in Caller, Becomes(c, [call[c] EXCEPT !.pc = "token", !.join = j])
        PROVE  CallInv'
    <3> DEFINE r == [call[c] EXCEPT !.pc = "token", !.join = j]
    <3>1. r \in Calls  BY <1>1 DEF Calls, Steps
    <3>2. r.pc = "token" /\ r.answer = call[c].answer  BY <1>1 DEF Calls
    <3> HIDE DEF r
    <3>3. Becomes(c, r)  BY <2>2 DEF r
    <3> QED  BY <1>1, <3>1, <3>2, <3>3, OneCall DEF OrderOK, BuildHeaders, Inv, world
  <2> QED  BY <2>1, <2>2 DEF BuildHeaders, EnsureToken, Inv, Rest
<1>3. FlightInv' /\ Rest'
  <2>1. CASE UNCHANGED <<promise, flight>>
    BY <2>1 DEF BuildHeaders, Inv, FlightInv, Rest, world, bounds, Live
  <2>2. CASE /\ ~Live(token) /\ promise = None /\ promise' = c
             /\ flight' = [flight EXCEPT ![c] = IF broker = "KIS" THEN "loading" ELSE "asking"]
    <3>1. \A l \in Caller : flight[l] = "none"  BY <2>2, Callers DEF Inv, FlightInv
    <3>2. \A l \in Caller : flight'[l] = IF l = c THEN IF broker = "KIS" THEN "loading" ELSE "asking"
                                         ELSE "none"
      BY <2>2, <3>1 DEF Inv, FlightInv
    <3>3. flight' \in [Caller -> {"none", "loading", "asking", "saving"}]
      BY <2>2 DEF Inv, FlightInv
    <3> QED  BY <2>2, <3>2, <3>3 DEF BuildHeaders, Inv, FlightInv, Rest, world, bounds, Live
  <2> QED  BY <2>1, <2>2 DEF BuildHeaders, EnsureToken
<1> QED  BY <1>2, <1>3 DEF Inv

LEMMA RateLimitInv ==
  ASSUME Inv, NEW c \in Caller, RateLimit(c)
  PROVE  Inv'
<1>1. call[c] \in Calls /\ call[c].pc \in {"ready", "paused"}
      /\ (c \in Order => OrderOK(call[c], executed[c]))
  BY DEF RateLimit, Inv, CallInv
<1>2. CallInv'
  <2>1. CASE c = Boot
    BY <2>1, EndedIs, OneCall, Callers DEF RateLimit, Inv, Answers, world
  <2>2. CASE c # Boot
    <3> DEFINE r == [call[c] EXCEPT !.pc = "queued"]
    <3>1. r \in Calls  BY <1>1 DEF Calls, Steps
    <3>2. r.pc = "queued" /\ r.answer = call[c].answer  BY <1>1 DEF Calls
    <3>3. Becomes(c, r)  BY <2>2 DEF RateLimit
    <3> HIDE DEF r
    <3> QED  BY <1>1, <3>1, <3>2, <3>3, OneCall DEF OrderOK, RateLimit, Inv, world
  <2> QED  BY <2>1, <2>2
<1>3. queue' \in [Groups -> Seq(Caller)]
  <2>1. Group(c) \in Groups  BY DEF Group, Groups
  <2>2. CASE queue' = [queue EXCEPT ![Group(c)] = Append(queue[Group(c)], c)]
    <3>1. Append(queue[Group(c)], c) \in Seq(Caller)  BY <2>1 DEF Inv, Rest
    <3> QED  BY <2>1, <2>2, <3>1 DEF Inv, Rest
  <2> QED  BY <2>2 DEF RateLimit, Inv, Rest
<1>4. FlightInv' /\ Rest'
  BY <1>3 DEF RateLimit, Inv, FlightInv, Rest, memory, world, bounds, Live
<1> QED  BY <1>2, <1>4 DEF Inv

LEMMA SendInv ==
  ASSUME Inv, NEW c \in Caller, Send(c)
  PROVE  Inv'
<1>1. call[c] \in Calls /\ call[c].pc = "queued"
      /\ (c \in Order => OrderOK(call[c], executed[c]) /\ executed[c] = 0)
  BY DEF Send, Inv, CallInv, OrderOK
<1>2. CallInv'
  <2>1. PICK did \in 0..1, reply \in Replies \ {"none"} :
          /\ Served(c, did, reply)
          /\ Becomes(c, [call[c] EXCEPT !.pc = "sent", !.reply = reply])
          /\ executed' = IF c \in Order THEN [executed EXCEPT ![c] = @ + did] ELSE executed
    BY DEF Send
  <2> DEFINE r == [call[c] EXCEPT !.pc = "sent", !.reply = reply]
  <2>2. r \in Calls  BY <1>1 DEF Calls, Steps
  <2>3. r.pc = "sent" /\ r.reply = reply /\ r.answer = call[c].answer  BY <1>1 DEF Calls
  <2>4. Becomes(c, r)  BY <2>1
  <2> HIDE DEF r
  <2>5. c \in Order => OrderOK(r, did)
    BY <1>1, <2>1, <2>3 DEF Served, OrderOK
  <2>6. call' \in [Caller -> Calls] /\ \A o \in Caller : call'[o] = IF o = c THEN r ELSE call[o]
    BY <2>2, <2>4 DEF Inv, CallInv, Becomes
  <2>7. CASE c \notin Order
    <3>1. executed' = executed  BY <2>1, <2>7
    <3>2. \A o \in Order : call'[o] = call[o]  BY <2>6, <2>7, Callers
    <3> QED  BY <2>6, <3>1, <3>2 DEF Inv, CallInv
  <2>8. CASE c \in Order
    <3>1. executed' = [executed EXCEPT ![c] = executed[c] + did]  BY <2>1, <2>8
    <3>2. executed[c] + did = did  BY <1>1, <2>8
    <3>3. executed' \in [Order -> Nat] /\ \A o \in Order : executed'[o] = IF o = c THEN did ELSE executed[o]
      <4>1. did \in Nat /\ executed \in [Order -> Nat]  BY DEF Inv, CallInv
      <4>2. executed' = [executed EXCEPT ![c] = did]  BY <3>1, <3>2
      <4> QED  BY <4>1, <4>2, Zenon
    <3>4. \A o \in Order : OrderOK(call'[o], executed'[o])
      <4> TAKE o \in Order
      <4>1. CASE o = c  BY <2>5, <2>6, <2>8, <3>3, <4>1, Callers
      <4>2. CASE o # c  BY <2>6, <3>3, <4>2, Callers DEF Inv, CallInv
      <4> QED  BY <4>1, <4>2
    <3> QED  BY <2>6, <3>3, <3>4 DEF CallInv
  <2> QED  BY <2>7, <2>8
<1>3. queue' \in [Groups -> Seq(Caller)]
  <2>1. Group(c) \in Groups  BY DEF Group, Groups
  <2>2. Tail(queue[Group(c)]) \in Seq(Caller)  BY <2>1 DEF Send, Inv, Rest
  <2> QED  BY <2>1, <2>2 DEF Send, Inv, Rest
<1>4. FlightInv' /\ Rest'
  BY <1>3 DEF Send, Inv, FlightInv, Rest, memory, bounds, Live
<1> QED  BY <1>2, <1>4 DEF Inv

LEMMA AnswerInv ==
  ASSUME Inv, NEW c \in Caller, Answer(c)
  PROVE  Inv'
<1> DEFINE a == IF c \in Order THEN Outcome(call[c].reply)
                ELSE IF call[c].reply = "ok" THEN "ok" ELSE "failed"
<1>1. call[c] \in Calls /\ call[c].pc = "sent" /\ c \in Call /\ c # Account
      /\ (c \in Order => OrderOK(call[c], executed[c]))
  BY Callers DEF Answer, Inv, CallInv
<1>2. a \in Answers  BY DEF Outcome, Answers
<1>3. Ended(c, a) \in Calls /\ Ended(c, a).pc = "done" /\ Ended(c, a).answer = a
  BY <1>1, <1>2, EndedIs
<1>4. c \in Order => OrderOK(Ended(c, a), executed[c])
  <2> SUFFICES ASSUME c \in Order PROVE OrderOK(Ended(c, a), executed[c])  OBVIOUS
  <2>1. a = Outcome(call[c].reply)  OBVIOUS
  <2>2. call[c].reply \in {"ok", "rejected", "refused", "fault"}
    BY <1>1 DEF Calls, Replies, OrderOK
  <2> HIDE DEF a
  <2> QED  BY <1>1, <1>3, <2>1, <2>2 DEF Outcome, OrderOK
<1>5. CallInv'
  <2>1. Becomes(c, Ended(c, a))  BY DEF Answer
  <2> HIDE DEF a
  <2> QED  BY <1>3, <1>4, <2>1, OneCall DEF Answer, Inv, world
<1>6. FlightInv' /\ Rest'
  BY DEF Answer, Inv, FlightInv, Rest, memory, world, bounds, Live
<1> QED  BY <1>5, <1>6 DEF Inv

LEMMA RetryGetInv ==
  ASSUME Inv, NEW c \in Caller, RetryGet(c)
  PROVE  Inv'
<1>1. call[c] \in Calls /\ call[c].try < 2 /\ c \notin Order
  BY CallAssumption DEF RetryGet, Inv, CallInv
<1>2. CallInv'
  <2> DEFINE r == [call[c] EXCEPT !.pc = "paused", !.try = call[c].try + 1, !.reply = "none"]
  <2>1. call[c].try + 1 \in 0..2  BY <1>1 DEF Calls
  <2>2. r \in Calls  BY <1>1, <2>1 DEF Calls, Steps, Replies
  <2>3. Becomes(c, r)  BY DEF RetryGet
  <2> HIDE DEF r
  <2> QED  BY <1>1, <2>2, <2>3, OneCall DEF RetryGet, Inv, world
<1>3. FlightInv' /\ Rest'
  BY DEF RetryGet, Inv, FlightInv, Rest, memory, world, bounds, Live
<1> QED  BY <1>2, <1>3 DEF Inv

LEMMA RetryRefusedInv ==
  ASSUME Inv, NEW c \in Caller, RetryRefused(c)
  PROVE  Inv'
<1>1. call[c] \in Calls /\ call[c].pc = "sent" /\ call[c].reply = "refused"
      /\ (c \in Order => OrderOK(call[c], executed[c]))
  BY DEF RetryRefused, Inv, CallInv
<1>2. CallInv'
  <2> DEFINE r == [call[c] EXCEPT !.pc = "headers", !.try = 1, !.reply = "none", !.header = 0]
  <2>1. r \in Calls
    <3>1. 1 \in 0..2 /\ 0 \in Nat  OBVIOUS
    <3> QED  BY <1>1, <3>1, Zenon DEF Calls, Steps, Replies
  <2>2. r.pc = "headers" /\ r.answer = call[c].answer  BY <1>1 DEF Calls
  <2>3. Becomes(c, r)  BY DEF RetryRefused
  <2> HIDE DEF r
  <2> QED  BY <1>1, <2>1, <2>2, <2>3, OneCall DEF OrderOK, RetryRefused, Inv, world
<1>3. FlightInv' /\ Rest'
  BY DEF RetryRefused, Inv, FlightInv, Rest, world, bounds, Live
<1> QED  BY <1>2, <1>3 DEF Inv

-----------------------------------------------------------------------------
\* The issue request.
LEMMA SettleInv ==
  ASSUME Inv, NEW l \in Caller, flight[l] # "none", NEW t \in Nat, Settle(l, t),
         executed' = executed
  PROVE  /\ CallInv'
         /\ flight' = [c \in Caller |-> "none"]
         /\ promise' = None /\ account' \in {"unknown", "resolving", "known"}
<1>1. flight' = [c \in Caller |-> "none"]
  <2>1. \A c \in Caller \ {l} : flight[c] = "none"  BY DEF Inv, FlightInv
  <2> QED  BY <2>1 DEF Settle, Inv, FlightInv
<1>2. CallInv'
  <2> DEFINE new(c) == CASE t > 0 /\ c \in Joined(l) -> [call[c] EXCEPT !.pc = "ready", !.join = None, !.header = t]
                         [] t = 0 /\ c \in Losers(l) -> Failed(c)
                         [] OTHER                    -> call[c]
  <2>1. ASSUME NEW c \in Caller
        PROVE  new(c) \in Calls /\ (c \in Order => OrderOK(new(c), executed[c]))
    <3>1. call[c] \in Calls /\ (c \in Order => OrderOK(call[c], executed[c]))  BY DEF Inv, CallInv
    <3>2. CASE t > 0 /\ c \in Joined(l)
      <4> DEFINE r == [call[c] EXCEPT !.pc = "ready", !.join = None, !.header = t]
      <4>1. r \in Calls  BY <3>1 DEF Calls, Steps
      <4>2. r.pc = "ready" /\ r.answer = call[c].answer /\ call[c].pc = "token"
        BY <3>1, <3>2 DEF Calls, Joined
      <4>3. new(c) = r  BY <3>2
      <4> HIDE DEF r, new
      <4> QED  BY <3>1, <4>1, <4>2, <4>3 DEF OrderOK
    <3>3. CASE t = 0 /\ c \in Losers(l)
      <4>1. call[c].pc \in {"token", "account"}  BY <3>3 DEF Losers, Joined
      <4>2. new(c) = Failed(c)  BY <3>3
      <4> HIDE DEF new
      <4> QED  BY <4>1, <4>2, FailedIs DEF Inv
    <3>4. CASE ~(t > 0 /\ c \in Joined(l)) /\ ~(t = 0 /\ c \in Losers(l))
      <4>1. new(c) = call[c]  BY <3>4
      <4> QED  BY <3>1, <4>1
    <3> QED  BY <3>2, <3>3, <3>4
  <2>2. call' = [c \in Caller |-> new(c)]  BY DEF Settle
  <2> HIDE DEF new
  <2>3. call' \in [Caller -> Calls]  BY <2>1, <2>2
  <2>4. \A o \in Order : OrderOK(call'[o], executed'[o])  BY <2>1, <2>2, Callers
  <2> QED  BY <2>3, <2>4 DEF Inv, CallInv
<1> QED  BY <1>1, <1>2 DEF Settle, Inv, Rest

LEMMA LoadTokenFromDbInv ==
  ASSUME Inv, NEW l \in Caller, LoadTokenFromDb(l)
  PROVE  Inv'
<1>1. flight[l] = "loading"  BY DEF LoadTokenFromDb
<1>2. CASE Live(saved) /\ token' = saved /\ Settle(l, saved) /\ UNCHANGED storeFailed
  <2>1. /\ CallInv' /\ flight' = [c \in Caller |-> "none"]
        /\ promise' = None /\ account' \in {"unknown", "resolving", "known"}
    BY <1>1, <1>2, SettleInv DEF LoadTokenFromDb, Inv, Rest, world
  <2> QED  BY <1>2, <2>1 DEF LoadTokenFromDb, Inv, FlightInv, Rest, world, bounds
<1>3. CASE storeFailed' = (storeFailed \/ Live(saved)) /\ Flies(l, "asking") /\ UNCHANGED token
  <2>1. CallInv'  BY <1>3 DEF LoadTokenFromDb, Flies, Inv, CallInv, world
  <2>2. \A c \in Caller : flight'[c] = IF c = l THEN "asking" ELSE "none"
    BY <1>1, <1>3 DEF Flies, Inv, FlightInv
  <2>3. flight' \in [Caller -> {"none", "loading", "asking", "saving"}]
    BY <1>3 DEF Flies, Inv, FlightInv
  <2>4. promise = l /\ ~Live(token)  BY <1>1 DEF Inv, FlightInv
  <2>5. storeFailed' \in BOOLEAN /\ (~Live(saved) \/ storeFailed')  BY <1>3 DEF Inv, Rest, Live
  <2>6. UNCHANGED <<broker, token, saved, promise, account, queue, world, bounds>>
    BY <1>3 DEF LoadTokenFromDb, Flies
  <2>7. FlightInv'
    BY <2>2, <2>3, <2>4, <2>5, <2>6 DEF Inv, FlightInv, Live, world
  <2>8. Rest'  BY <2>5, <2>6 DEF Inv, Rest, world, bounds
  <2> QED  BY <2>1, <2>7, <2>8 DEF Inv
<1> QED  BY <1>2, <1>3 DEF LoadTokenFromDb

LEMMA IssueTokenInv ==
  ASSUME Inv, NEW l \in Caller, IssueToken(l)
  PROVE  Inv'
<1>1. flight[l] = "asking" /\ executed' = executed  BY DEF IssueToken
<1>2. issued' \in Nat /\ issued' >= issued /\ token' \in Nat /\ dead' \in Nat
  BY DEF IssueToken, Inv, FlightInv, Rest
<1>3. UNCHANGED <<broker, saved, storeFailed, queue, executed, lapsed, lapses, restarts>>
  BY DEF IssueToken, bounds
<1>4. CASE Flies(l, "saving")
  <2>1. CallInv'  BY <1>1, <1>4 DEF Flies, Inv, CallInv
  <2>2. \A c \in Caller : flight'[c] = IF c = l THEN "saving" ELSE "none"
    BY <1>1, <1>4 DEF Flies, Inv, FlightInv
  <2>3. flight' \in [Caller -> {"none", "loading", "asking", "saving"}]
    BY <1>4 DEF Flies, Inv, FlightInv
  <2>4. FlightInv'  BY <1>1, <1>2, <1>3, <1>4, <2>2, <2>3 DEF Flies, Inv, FlightInv
  <2>5. Rest'  BY <1>2, <1>3, <1>4 DEF Flies, Inv, Rest
  <2> QED  BY <2>1, <2>4, <2>5 DEF Inv
<1>5. ASSUME NEW t \in Nat, Settle(l, t)
      PROVE  Inv'
  <2>1. /\ CallInv' /\ flight' = [c \in Caller |-> "none"]
        /\ promise' = None /\ account' \in {"unknown", "resolving", "known"}
    BY <1>1, <1>5, SettleInv
  <2>2. FlightInv'  BY <1>2, <1>3, <2>1 DEF Inv, FlightInv
  <2>3. Rest'  BY <1>2, <1>3, <2>1 DEF Inv, Rest
  <2> QED  BY <2>1, <2>2, <2>3 DEF Inv
<1> QED  BY <1>2, <1>4, <1>5 DEF IssueToken

LEMMA SaveTokenToDbInv ==
  ASSUME Inv, NEW l \in Caller, SaveTokenToDb(l)
  PROVE  Inv'
<1>1. /\ CallInv' /\ flight' = [c \in Caller |-> "none"]
      /\ promise' = None /\ account' \in {"unknown", "resolving", "known"}
  BY SettleInv DEF SaveTokenToDb, Inv, Rest, world
<1>2. FlightInv' /\ Rest'
  BY <1>1 DEF SaveTokenToDb, Inv, FlightInv, Rest, world, bounds
<1> QED  BY <1>1, <1>2 DEF Inv

-----------------------------------------------------------------------------
\* The account, and the world.
LEMMA FetchAccountSeqInv ==
  ASSUME Inv, FetchAccountSeq
  PROVE  Inv'
<1>1. PICK found \in BOOLEAN :
        /\ account' = IF found THEN "known" ELSE "unknown"
        /\ call' = [c \in Caller |->
                     IF c = Account THEN Idle
                     ELSE IF call[c].pc # "account" THEN call[c]
                     ELSE IF found THEN [call[c] EXCEPT !.pc = "headers"] ELSE Failed(c)]
  BY DEF FetchAccountSeq
<1>2. CallInv'
  <2> DEFINE new(c) == IF c = Account THEN Idle
                       ELSE IF call[c].pc # "account" THEN call[c]
                       ELSE IF found THEN [call[c] EXCEPT !.pc = "headers"] ELSE Failed(c)
  <2>1. ASSUME NEW c \in Caller
        PROVE  new(c) \in Calls /\ (c \in Order => OrderOK(new(c), executed[c]))
    <3>1. call[c] \in Calls /\ (c \in Order => OrderOK(call[c], executed[c]))  BY DEF Inv, CallInv
    <3>2. CASE c = Account
      <4>1. new(c) = Idle  BY <3>2
      <4> HIDE DEF new
      <4> QED  BY <3>2, <4>1, FreshIs, Callers
    <3>3. CASE c # Account /\ call[c].pc = "account" /\ found
      <4> DEFINE r == [call[c] EXCEPT !.pc = "headers"]
      <4>1. r \in Calls  BY <3>1 DEF Calls, Steps
      <4>2. r.pc = "headers" /\ r.answer = call[c].answer  BY <3>1 DEF Calls
      <4>3. new(c) = r  BY <3>3
      <4> HIDE DEF r, new
      <4> QED  BY <3>1, <3>3, <4>1, <4>2, <4>3 DEF OrderOK
    <3>4. CASE c # Account /\ call[c].pc = "account" /\ ~found
      <4>1. new(c) = Failed(c)  BY <3>4
      <4> HIDE DEF new
      <4> QED  BY <3>4, <4>1, FailedIs DEF Inv
    <3>5. CASE c # Account /\ call[c].pc # "account"
      <4>1. new(c) = call[c]  BY <3>5
      <4> QED  BY <3>1, <4>1
    <3> QED  BY <3>2, <3>3, <3>4, <3>5
  <2>2. call' = [c \in Caller |-> new(c)]  BY <1>1
  <2> HIDE DEF new
  <2>3. call' \in [Caller -> Calls]  BY <2>1, <2>2
  <2>4. \A o \in Order : OrderOK(call'[o], executed[o])  BY <2>1, <2>2, Callers
  <2> QED  BY <2>3, <2>4 DEF Inv, CallInv, FetchAccountSeq, world
<1>3. FlightInv' /\ Rest'
  BY <1>1 DEF FetchAccountSeq, Inv, FlightInv, Rest, world, bounds, Live
<1> QED  BY <1>2, <1>3 DEF Inv

LEMMA LapseInv ==
  ASSUME Inv, Lapse
  PROVE  Inv'
<1>1. CallInv'  BY DEF Lapse, Inv, CallInv
<1>2. lapsed' = issued /\ lapsed <= issued /\ UNCHANGED <<memory, broker, issued>>
  BY DEF Lapse, Inv, FlightInv
<1>3. \A t \in Nat : ~Live(t) => ~(t > lapsed')  BY <1>2 DEF Live, Inv, FlightInv
<1>4. FlightInv'  BY <1>2, <1>3 DEF Inv, FlightInv, Rest, Live, memory
<1>5. Rest'  BY DEF Lapse, Inv, FlightInv, Rest, memory
<1> QED  BY <1>1, <1>4, <1>5 DEF Inv

LEMMA RevokeInv ==
  ASSUME Inv, Revoke
  PROVE  Inv'
  BY DEF Revoke, Inv, CallInv, FlightInv, Rest, memory, Live

LEMMA RestartInv ==
  ASSUME Inv, Restart
  PROVE  Inv'
<1>1. CallInv'
  <2> DEFINE new(c) == CASE c = Boot -> IF broker = "KIS" THEN Fresh ELSE Idle
                         [] c \in Call /\ call[c].pc # "idle" -> Ended(c, call[c].answer)
                         [] OTHER -> Idle
  <2>1. ASSUME NEW c \in Caller
        PROVE  new(c) \in Calls /\ (c \in Order => OrderOK(new(c), executed[c]))
    <3>1. call[c] \in Calls /\ (c \in Order => OrderOK(call[c], executed[c]))  BY DEF Inv, CallInv
    <3>2. CASE c = Boot  BY <3>2, FreshIs, Callers
    <3>3. CASE c # Boot /\ c \in Call /\ call[c].pc # "idle"
      <4>1. call[c].answer \in Answers /\ c # Account  BY <3>1, <3>3, Callers DEF Calls
      <4>2. new(c) = Ended(c, call[c].answer)  BY <3>3
      <4> HIDE DEF new
      <4> QED  BY <3>1, <4>1, <4>2, EndedIs DEF OrderOK
    <3>4. CASE c # Boot /\ ~(c \in Call /\ call[c].pc # "idle")
      <4>1. new(c) = Idle  BY <3>4
      <4>2. c \in Order => executed[c] = 0  BY <3>1, <3>4, Callers DEF OrderOK
      <4> HIDE DEF new
      <4> QED  BY <4>1, <4>2, FreshIs
    <3> QED  BY <3>2, <3>3, <3>4
  <2>2. call' = [c \in Caller |-> new(c)]  BY DEF Restart
  <2> HIDE DEF new
  <2>3. call' \in [Caller -> Calls]  BY <2>1, <2>2
  <2>4. \A o \in Order : OrderOK(call'[o], executed[o])  BY <2>1, <2>2, Callers
  <2> QED  BY <2>3, <2>4 DEF Inv, CallInv, Restart, world
<1>2. FlightInv'
  BY DEF Restart, Inv, FlightInv, Rest, Live, world
<1>3. Rest'
  BY DEF Restart, Inv, Rest, world
<1> QED  BY <1>1, <1>2, <1>3 DEF Inv

-----------------------------------------------------------------------------
LEMMA InvStep == Inv /\ [Next]_vars => Inv'
<1> SUFFICES ASSUME Inv, [Next]_vars PROVE Inv'  OBVIOUS
<1>1. CASE UNCHANGED vars
  BY <1>1 DEF vars, memory, world, bounds, Inv, CallInv, FlightInv, Rest, Live
<1>2. ASSUME NEW c \in Caller, Begin(c) \/ Step(c) \/ Flight(c)
      PROVE  Inv'
  BY <1>2, BeginInv, AwaitAccountInv, BuildHeadersInv, RateLimitInv, SendInv, AnswerInv,
     RetryGetInv, RetryRefusedInv, LoadTokenFromDbInv, IssueTokenInv, SaveTokenToDbInv
  DEF Step, Flight
<1>3. CASE FetchAccountSeq \/ Lapse \/ Revoke \/ Restart
  BY <1>3, FetchAccountSeqInv, LapseInv, RevokeInv, RestartInv
<1> QED  BY <1>1, <1>2, <1>3 DEF Next

LEMMA InvHolds == Spec => []Inv
  BY InvInit, InvStep, PTL DEF Spec

(* TypeOK, for any number of calls, lapses and restarts.                    *)
THEOREM TypeCorrect == Spec => []TypeOK
<1>1. Inv => TypeOK  BY DEF Inv, CallInv, FlightInv, Rest, TypeOK
<1> QED  BY <1>1, InvHolds, PTL

(* AnswersAreTrue, for any number of orders: what submitOrder returns to    *)
(* the services, after lost answers, refused tokens and a second try, is    *)
(* what happened at the broker.                                             *)
THEOREM ClientTellsTheTruth == Spec => []AnswersAreTrue
<1>1. Inv => AnswersAreTrue  BY DEF Inv, CallInv, OrderOK, AnswersAreTrue
<1> QED  BY <1>1, InvHolds, PTL

(* EveryTokenIsNeeded, for any number of callers: they share one issue      *)
(* request, and it is made only when no token is good.                      *)
THEOREM TokenIsShared == Spec => EveryTokenIsNeeded
<1> DEFINE Needed == issued' # issued => /\ ~Live(token)
                                         /\ (broker = "KIS" => ~Live(saved) \/ storeFailed)
<1>1. Inv /\ [Next]_vars => [Needed]_vars
  <2> SUFFICES ASSUME Inv, [Next]_vars, issued' # issued  PROVE Needed  OBVIOUS
  <2>1. \E l \in Caller : IssueToken(l)
    BY DEF Next, Begin, Step, Flight, AwaitAccount, BuildHeaders, RateLimit, Send, Answer, RetryGet,
           RetryRefused, LoadTokenFromDb, SaveTokenToDb, FetchAccountSeq, Lapse, Revoke, Restart,
           vars, world, bounds
  <2> QED  BY <2>1 DEF IssueToken, Inv, FlightInv
<1> QED  BY <1>1, InvHolds, PTL DEF Spec, EveryTokenIsNeeded
=============================================================================
