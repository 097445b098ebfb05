-------------------------- MODULE MCOrderSubmission --------------------------
(* Small instances of OrderSubmission for TLC. *)
EXTENDS OrderSubmission, TLC

\* Every record competes for one key.
OneKeyOf == [r \in Rec |-> CHOOSE k \in Key : TRUE]

OperatorSymmetry == Permutations(Operator)
=============================================================================
