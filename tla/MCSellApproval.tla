---------------------------- MODULE MCSellApproval ----------------------------
EXTENDS SellApproval, TLC

\* All requests are about one instrument.
OneInstrument == [r \in Req |-> CHOOSE i \in Instrument : TRUE]

\* Requests of one instrument, and clicks, are interchangeable.
Symmetry == Permutations(Req) \cup Permutations(Click)
=============================================================================
