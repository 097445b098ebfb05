---------------------------- MODULE BrokerClient ----------------------------
(***************************************************************************)
(* The client of a broker: every request to KIS or Toss needs an access    *)
(* token, waits in a queue that keeps the rate limit, and is answered, or  *)
(* not.                                                                    *)
(*                                                                         *)
(* KIS stores its token in the database, repeats a GET after a fault of    *)
(* the transport with the header it has, and never an order.  Toss keeps   *)
(* the token in memory, looks up its account once by a request of its own, *)
(* and repeats a request once, with a new token, when the token was        *)
(* refused.  Both share one issue request between all callers: `promise'   *)
(* is the caller that started it, and `flight' what that caller awaits.    *)
(*                                                                         *)
(* Tokens are numbered as they are issued, 0 is none.  Those up to         *)
(* `lapsed' are past the expiry the client goes by, those up to `dead' are *)
(* refused by the broker.  The broker itself is external: it may refuse a  *)
(* token early, reject a request, or execute it and lose the answer.       *)
(***************************************************************************)
EXTENDS Naturals, Sequences

CONSTANTS Broker,       \* brokers a behaviour may be about
          Order, Get,   \* calls: orders, and requests that only read, of the account or not
          Account,      \* Toss's own request for the account number
          Boot,         \* KIS's wish for a token when the module starts
          None,         \* no caller
          MaxLapses, MaxRestarts  \* bounds: tokens that lapse or die, restarts

Call   == Order \cup Get
Caller == Call \cup {Account, Boot}

ASSUME BrokerAssumption == Broker \subseteq {"KIS", "TOSS"}
ASSUME CallAssumption   == /\ Order \cap Get = {}
                           /\ {Account, Boot, None} \cap Call = {}
                           /\ Account # Boot /\ None \notin {Account, Boot}
ASSUME BoundAssumption  == MaxLapses \in Nat /\ MaxRestarts \in Nat

VARIABLES
  broker,              \* the broker this client is for
  token, saved,        \* the token in memory, and KIS's row of it
  promise, flight,     \* the shared issue request, and how far each one is
  account,             \* Toss's account number
  call,                \* the calls in memory
  queue,               \* the chains of the rate limit
  executed,            \* at the broker: how often each order was executed
  issued, lapsed, dead,
  storeFailed,         \* history: the database failed KIS since it last saved a token
  lapses, restarts     \* counters of the bounds

memory == <<token, saved, promise, flight, account, storeFailed>>
world  == <<executed, issued, lapsed, dead>>
bounds == <<lapses, restarts>>
vars   == <<broker, memory, call, queue, world, bounds>>

Steps   == {"idle", "headers", "account", "token", "ready", "queued", "sent", "paused", "done"}
Replies == {"none", "ok", "rejected", "refused", "fault"}
Answers == {"none", "ok", "failed", "ACCEPTED", "REJECTED", "UNKNOWN"}
Groups  == {"all", "order", "get", "account"}
Calls   == [pc : Steps, header : Nat, try : 0..2, join : Caller \cup {None},
            reply : Replies, answer : Answers]

Fresh == [pc |-> "headers", header |-> 0, try |-> 0, join |-> None, reply |-> "none",
          answer |-> "none"]
Idle  == [Fresh EXCEPT !.pc = "idle"]

Init ==
  /\ broker \in Broker
  /\ token = 0 /\ saved = 0 /\ promise = None /\ flight = [c \in Caller |-> "none"]
  /\ account = "unknown" /\ storeFailed = FALSE
  /\ call = [c \in Caller |-> IF c = Boot /\ broker = "KIS" THEN Fresh ELSE Idle]
  /\ queue = [g \in Groups |-> <<>>]
  /\ executed = [o \in Order |-> 0]
  /\ issued = 0 /\ lapsed = 0 /\ dead = 0
  /\ lapses = 0 /\ restarts = 0

Live(t)       == t > lapsed
Becomes(c, r) == call' = [call EXCEPT ![c] = r]
Group(c) == CASE broker = "KIS" -> "all"
              [] c = Account    -> "account"
              [] c \in Order    -> "order"
              [] OTHER          -> "get"

\* A call ends.  The account request may be made again.
Ended(c, answer) == IF c = Account THEN Idle ELSE [Fresh EXCEPT !.pc = "done", !.answer = answer]
\* A call whose headers cannot be built was not sent, and an order says so.
Failed(c) == Ended(c, IF c \in Order THEN "REJECTED" ELSE "failed")

-----------------------------------------------------------------------------
(* Headers: the account, the token.                                        *)

\* Calls begin when the module of KIS has started.
Begin(c) ==
  /\ c \in Call /\ call[c].pc = "idle" /\ call[Boot].pc \in {"idle", "done"}
  /\ Becomes(c, Fresh)
  /\ UNCHANGED <<broker, memory, queue, world, bounds>>

\* ensureToken without the shared request: each caller starts its own.
EnsureTokenAlone(c) ==
  /\ Becomes(c, [call[c] EXCEPT !.pc = "token", !.join = c])
  /\ promise' = c
  /\ flight' = [flight EXCEPT ![c] = IF broker = "KIS" THEN "loading" ELSE "asking"]

\* ensureToken, getAccessToken of Toss: join the issue request, or start it.
EnsureToken(c) ==
  \/ /\ promise # None
     /\ Becomes(c, [call[c] EXCEPT !.pc = "token", !.join = promise])
     /\ UNCHANGED <<promise, flight>>
  \/ /\ promise = None
     /\ Becomes(c, [call[c] EXCEPT !.pc = "token", !.join = c])
     /\ promise' = c
     /\ flight' = [flight EXCEPT ![c] = IF broker = "KIS" THEN "loading" ELSE "asking"]

\* resolveAccountSeq, for a Toss call that needs the account, as an order does: join
\* its request, or start it.
AwaitAccount(c) ==
  /\ call[c].pc = "headers" /\ broker = "TOSS" /\ c \in Call /\ account # "known"
  /\ account' = "resolving"
  /\ call' = [call EXCEPT ![c].pc = "account",
                          ![Account] = IF account = "unknown" THEN Fresh ELSE @]
  /\ UNCHANGED <<broker, token, saved, promise, flight, storeFailed, queue, world, bounds>>

BuildHeaders(c) ==
  /\ call[c].pc = "headers" /\ (broker = "TOSS" /\ c \in Order => account = "known")
  /\ \/ /\ Live(token)
        /\ Becomes(c, [call[c] EXCEPT !.pc = "ready", !.header = token])
        /\ UNCHANGED <<promise, flight>>
     \/ ~Live(token) /\ EnsureToken(c)
  /\ UNCHANGED <<broker, token, saved, account, storeFailed, queue, world, bounds>>

-----------------------------------------------------------------------------
(* The issue request.                                                      *)

\* The callers that fail with the issue request l: those that joined it, and if
\* the account request is one of them, those that wait for the account.
Joined(l) == {c \in Caller : call[c].pc = "token" /\ call[c].join = l}
Losers(l) == Joined(l) \cup IF Account \in Joined(l)
                            THEN {c \in Call : call[c].pc = "account"} ELSE {}

\* A failed issue request is kept, for later callers to wait for.
SettleKept(l, t) ==
  /\ flight' = [flight EXCEPT ![l] = "none"]
  /\ promise' = IF t > 0 THEN None ELSE promise
  /\ call' = [c \in Caller |->
                CASE t > 0 /\ c \in Joined(l) -> [call[c] EXCEPT !.pc = "ready", !.join = None, !.header = t]
                  [] t = 0 /\ c \in Losers(l) -> Failed(c)
                  [] OTHER                    -> call[c]]
  /\ account' = IF t = 0 /\ Account \in Joined(l) THEN "unknown" ELSE account

\* The issue request of l is over, with token t or none: everybody who joined it
\* goes on, or fails.
Settle(l, t) ==
  /\ flight' = [flight EXCEPT ![l] = "none"]
  /\ promise' = None
  /\ call' = [c \in Caller |->
                CASE t > 0 /\ c \in Joined(l) -> [call[c] EXCEPT !.pc = "ready", !.join = None, !.header = t]
                  [] t = 0 /\ c \in Losers(l) -> Failed(c)
                  [] OTHER                    -> call[c]]
  /\ account' = IF t = 0 /\ Account \in Joined(l) THEN "unknown" ELSE account

Flies(l, phase) == flight' = [flight EXCEPT ![l] = phase] /\ UNCHANGED <<promise, call, account>>

\* doEnsureToken: the row is used if its token is not past; a database that
\* fails counts as no row.
LoadTokenFromDb(l) ==
  /\ flight[l] = "loading"
  /\ \/ /\ Live(saved) /\ token' = saved
        /\ Settle(l, saved)
        /\ UNCHANGED storeFailed
     \/ /\ storeFailed' = (storeFailed \/ Live(saved))
        /\ Flies(l, "asking")
        /\ UNCHANGED token
  /\ UNCHANGED <<broker, saved, queue, world, bounds>>

\* issueToken: a new token may end the old ones.
IssueToken(l) ==
  /\ flight[l] = "asking"
  /\ \/ /\ issued' = issued + 1 /\ token' = issued'
        /\ dead' \in {dead, issued}
        /\ IF broker = "KIS" THEN Flies(l, "saving") ELSE Settle(l, issued')
     \/ /\ Settle(l, 0)
        /\ UNCHANGED <<token, issued, dead>>
  /\ UNCHANGED <<broker, saved, storeFailed, queue, executed, lapsed, bounds>>

\* A token that cannot be stored is used all the same.
SaveTokenToDb(l) ==
  /\ flight[l] = "saving"
  /\ \/ saved' = token /\ storeFailed' = FALSE
     \/ saved' = saved /\ storeFailed' = TRUE
  /\ Settle(l, token)
  /\ UNCHANGED <<broker, token, queue, world, bounds>>

-----------------------------------------------------------------------------
(* The request.                                                            *)

\* rateLimit: a call, also one that is repeated, goes to the end of its chain.
RateLimit(c) ==
  /\ call[c].pc \in {"ready", "paused"}
  /\ IF c = Boot
     THEN Becomes(c, Ended(c, "ok")) /\ UNCHANGED queue
     ELSE /\ Becomes(c, [call[c] EXCEPT !.pc = "queued"])
          /\ queue' = [queue EXCEPT ![Group(c)] = Append(@, c)]
  /\ UNCHANGED <<broker, memory, world, bounds>>

\* What the broker may do with a request: execute it or not, and reply.  Without
\* a good token it executes nothing; KIS words that as any other rejection.  A fault
\* of a KIS GET is one that is worth a second try, the others count as rejections.
Served(c, did, reply) ==
  LET good == call[c].header > dead IN
  /\ did = 1 => good /\ c \in Order
  /\ reply = "ok" => good /\ (c \in Order => did = 1)
  /\ reply = "rejected" => did = 0
  /\ reply = "refused" => ~good /\ broker = "TOSS" /\ did = 0

Send(c) ==
  /\ call[c].pc = "queued"
  /\ queue[Group(c)] # <<>> /\ c = Head(queue[Group(c)])
  /\ queue' = [queue EXCEPT ![Group(c)] = Tail(@)]
  /\ \E did \in 0..1, reply \in Replies \ {"none"} :
       /\ Served(c, did, reply)
       /\ Becomes(c, [call[c] EXCEPT !.pc = "sent", !.reply = reply])
       /\ executed' = IF c \in Order THEN [executed EXCEPT ![c] = @ + did] ELSE executed
  /\ UNCHANGED <<broker, memory, issued, lapsed, dead, bounds>>

\* Any answer but a rejection leaves open whether an order was executed.
OutcomeVerbatim(reply) == CASE reply = "ok"    -> "ACCEPTED"
                            [] OTHER           -> "REJECTED"
Outcome(reply) == CASE reply = "ok"    -> "ACCEPTED"
                    [] reply = "fault" -> "UNKNOWN"
                    [] OTHER           -> "REJECTED"

\* Receive: the last answer of a call.
Answer(c) ==
  /\ call[c].pc = "sent" /\ c \in Call
  /\ ~(broker = "KIS" /\ c \in Get /\ call[c].reply = "fault" /\ call[c].try < 2)
  /\ ~(call[c].reply = "refused" /\ call[c].try = 0)
  /\ Becomes(c, Ended(c, IF c \in Order THEN Outcome(call[c].reply)
                         ELSE IF call[c].reply = "ok" THEN "ok" ELSE "failed"))
  /\ UNCHANGED <<broker, memory, queue, world, bounds>>

\* getWithMetadata: a GET is repeated twice, with the header it has.
RetryGet(c) ==
  /\ call[c].pc = "sent" /\ broker = "KIS" /\ c \in Get
  /\ call[c].reply = "fault" /\ call[c].try < 2
  /\ Becomes(c, [call[c] EXCEPT !.pc = "paused", !.try = @ + 1, !.reply = "none"])
  /\ UNCHANGED <<broker, memory, queue, world, bounds>>

\* invalidateToken, whatever token is in memory by now, and once more from the start.
RetryRefused(c) ==
  /\ call[c].pc = "sent" /\ call[c].reply = "refused" /\ call[c].try = 0
  /\ token' = 0
  /\ Becomes(c, [call[c] EXCEPT !.pc = "headers", !.try = 1, !.reply = "none", !.header = 0])
  /\ UNCHANGED <<broker, saved, promise, flight, account, storeFailed, queue, world, bounds>>

\* fetchAccountSeq: one matching account is found, or everybody who waits fails.
FetchAccountSeq ==
  /\ call[Account].pc = "sent"
  /\ ~(call[Account].reply = "refused" /\ call[Account].try = 0)
  /\ \E found \in BOOLEAN :
       /\ found => call[Account].reply = "ok"
       /\ account' = IF found THEN "known" ELSE "unknown"
       /\ call' = [c \in Caller |->
                     IF c = Account THEN Idle
                     ELSE IF call[c].pc # "account" THEN call[c]
                     ELSE IF found THEN [call[c] EXCEPT !.pc = "headers"] ELSE Failed(c)]
  /\ UNCHANGED <<broker, token, saved, promise, flight, storeFailed, queue, world, bounds>>

-----------------------------------------------------------------------------
(* The world: tokens grow old (Toss's client counts a minute less), the     *)
(* broker drops them, and the process is restarted.                         *)

Lapse ==
  /\ lapses < MaxLapses /\ lapses' = lapses + 1
  /\ lapsed' = issued
  /\ dead' = IF broker = "KIS" THEN issued ELSE dead
  /\ UNCHANGED <<broker, memory, call, queue, executed, issued, restarts>>

Revoke ==
  /\ lapses < MaxLapses /\ lapses' = lapses + 1
  /\ dead' = issued
  /\ UNCHANGED <<broker, memory, call, queue, executed, issued, lapsed, restarts>>

Restart ==
  /\ restarts < MaxRestarts /\ restarts' = restarts + 1
  /\ token' = 0 /\ promise' = None /\ flight' = [c \in Caller |-> "none"]
  /\ account' = "unknown"
  /\ call' = [c \in Caller |->
                CASE c = Boot -> IF broker = "KIS" THEN Fresh ELSE Idle
                  [] c \in Call /\ call[c].pc # "idle" -> Ended(c, call[c].answer)
                  [] OTHER -> Idle]
  /\ queue' = [g \in Groups |-> <<>>]
  /\ UNCHANGED <<broker, saved, storeFailed, world, lapses>>

Flight(l) == LoadTokenFromDb(l) \/ IssueToken(l) \/ SaveTokenToDb(l)
Step(c)   == \/ AwaitAccount(c) \/ BuildHeaders(c) \/ RateLimit(c) \/ Send(c)
             \/ Answer(c) \/ RetryGet(c) \/ RetryRefused(c)

Next == \/ \E c \in Caller : Begin(c) \/ Step(c) \/ Flight(c)
        \/ FetchAccountSeq \/ Lapse \/ Revoke \/ Restart

Spec == Init /\ [][Next]_vars

\* The event loop runs what it has begun, timers fire, and every request is
\* answered or times out.
FairSpec == /\ Spec
            /\ \A c \in Caller : WF_vars(Step(c)) /\ WF_vars(Flight(c))
            /\ WF_vars(FetchAccountSeq)

-----------------------------------------------------------------------------
TypeOK ==
  /\ broker \in {"KIS", "TOSS"}
  /\ token \in Nat /\ saved \in Nat /\ promise \in Caller \cup {None}
  /\ flight \in [Caller -> {"none", "loading", "asking", "saving"}]
  /\ account \in {"unknown", "resolving", "known"}
  /\ call \in [Caller -> Calls]
  /\ queue \in [Groups -> Seq(Caller)]
  /\ executed \in [Order -> Nat]
  /\ issued \in Nat /\ lapsed \in Nat /\ dead \in Nat
  /\ storeFailed \in BOOLEAN
  /\ lapses \in Nat /\ restarts \in Nat

\* What the port tells the services of an order is true: accepted means executed
\* once, rejected means not executed and never to be, and nothing is executed
\* twice, whatever was lost, refused or repeated on the way.
AnswersAreTrue ==
  \A o \in Order : /\ executed[o] <= 1
                   /\ call[o].answer = "ACCEPTED" => executed[o] = 1
                   /\ call[o].answer = "REJECTED" => executed[o] = 0 /\ call[o].pc = "done"

\* A token is issued only when none is good: not in memory, and not in KIS's row
\* unless the database failed.  However many callers find the token past at
\* once, they have one issued between them.
EveryTokenIsNeeded ==
  [][issued' # issued => /\ ~Live(token)
                         /\ (broker = "KIS" => ~Live(saved) \/ storeFailed)]_vars

\* A call that was begun ends: no caller waits for a request that is over, for the
\* account request in the queue, or behind a chain that does not move.
EveryCallReturns == \A c \in Call : (call[c].pc # "idle") ~> (call[c].pc = "done")
=============================================================================
