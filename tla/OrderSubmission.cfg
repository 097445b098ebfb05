SPECIFICATION Spec
CONSTANTS
  AutoRec = {a1}
  ManualRec = {m1}
  ApprovedRec = {p1}
  Key = {k1}
  KeyOf <- OneKeyOf
  Operator = {o1, o2}
  NoOrder = NoOrder
SYMMETRY OperatorSymmetry
INVARIANTS
  TypeOK
  OneUnresolvedPerKey
  NoDuplicateOrder
  NoForgottenOrder
  PostedAtMostOnce
  OrderLinkedOnce
  ReadyMeansTakenOver
PROPERTIES
  UnknownLeftByOperator
  ResolvedOnce
  ImplementsIntent
