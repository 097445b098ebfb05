----------------------------- MODULE OrderIntent -----------------------------
(***************************************************************************)
(* What the submission of orders promises, with no services, crashes or    *)
(* takeovers: an intent holds the slot of its key while it is open, sends  *)
(* at most one order, and gives the slot up only when that order can no    *)
(* longer work at the broker, or when an operator disowns it.              *)
(***************************************************************************)
CONSTANTS Rec, Key, KeyOf

VARIABLES intent,  \* "none", "open", "closed", or "disowned" by an operator
          order    \* the order of the intent at the broker

vars == <<intent, order>>

Working == {"sent", "live"}

Init == /\ intent = [r \in Rec |-> "none"]
        /\ order = [r \in Rec |-> "none"]

Move(r, st) == intent' = [intent EXCEPT ![r] = st] /\ UNCHANGED order

Open(r) == /\ intent[r] = "none"
           /\ \A q \in Rec : KeyOf[q] = KeyOf[r] => intent[q] # "open"
           /\ Move(r, "open")

Close(r) == intent[r] = "open" /\ order[r] \notin Working /\ Move(r, "closed")

Disown(r) == intent[r] = "open" /\ Move(r, "disowned")

\* A disowned intent may still have a POST on its way out.
Send(r) == /\ intent[r] \in {"open", "disowned"}
           /\ order[r] = "none"
           /\ order' = [order EXCEPT ![r] = "sent"]
           /\ UNCHANGED intent

Broker(r) == /\ \/ order[r] = "sent" /\ order' = [order EXCEPT ![r] = "live"]
                \/ order[r] = "sent" /\ order' = [order EXCEPT ![r] = "rejected"]
                \/ order[r] = "live" /\ order' = [order EXCEPT ![r] = "finished"]
             /\ UNCHANGED intent

Next == \E r \in Rec : Open(r) \/ Close(r) \/ Disown(r) \/ Send(r) \/ Broker(r)

Spec == Init /\ [][Next]_vars

\* The promise: two working orders of one key only after an operator's word.
AtMostOneWorking ==
  \A q, r \in Rec : /\ order[q] \in Working /\ order[r] \in Working
                    /\ KeyOf[q] = KeyOf[r] /\ q # r
                    => intent[q] = "disowned" \/ intent[r] = "disowned"
=============================================================================
