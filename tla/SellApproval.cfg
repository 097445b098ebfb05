SPECIFICATION Spec
CONSTANTS
  Req = {r1, r2}
  Instrument = {i1}
  InstrumentOf <- OneInstrument
  Click = {c1, c2}
  Provisional = 2
  Validity = 2
  Cooldown = 3
  MaxClock = 5
  NoReq = NoReq
SYMMETRY Symmetry
INVARIANTS
  TypeOK
  PairConsistent
  OneExecution
  DecidedWithinLease
  CooldownKept
