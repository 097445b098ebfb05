---------------------------- MODULE MCOpenOrder ----------------------------
(* Small instances of OpenOrder for TLC. *)
EXTENDS OpenOrder, TLC

FlowSymmetry == Permutations(Pass) \cup Permutations(Canceller) \cup Permutations(Inspector)

(* FairSpec with a bound: a second pass overlaps the first only while no      *)
(* cancel was tried.  The run Reconcile has both at once, without fairness.   *)
Second == CHOOSE p \in Pass : TRUE
Apart  == \/ pass[Second].phase = "idle"
          \/ row.cancel = "none" /\ \A c \in Canceller : canc[c].phase = "idle"

ApartSpec == /\ Init
             /\ [][Next /\ Apart']_vars
             /\ \A p \in Pass : WF_vars(PassStep(p) /\ Apart')
             /\ WF_vars(Persist) /\ WF_vars(Restart) /\ WF_vars(GraceEnds)
             /\ WF_vars(KillAccepted)
=============================================================================
