--------------------------- MODULE MCBrokerClient ---------------------------
(* Small instances of BrokerClient for TLC. *)
EXTENDS BrokerClient, TLC

Brokers == {"KIS", "TOSS"}
=============================================================================
