---------------------------- MODULE MCSimulation ----------------------------
(* Small instances of Simulation for TLC. *)
EXTENDS Simulation

Quote(price, setup, turn) == [price |-> price, warned |-> FALSE, ready |-> TRUE, setup |-> setup,
                              turn |-> turn, middle |-> turn, scale |-> 100,
                              swing |-> 0]
\* A buying opportunity, a fall, a rise to the targets.
Market == {Quote(100, TRUE, FALSE), Quote(94, FALSE, FALSE), Quote(120, FALSE, TRUE)}

TwoMinutes == <<"target", "exit">>
Relevant == ~audit.raced /\ ~audit.aborted /\ (audit.overlap => day = 1)
=============================================================================
