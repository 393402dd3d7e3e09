SPECIFICATION Spec
CONSTANTS
  Payment = {p1}
  Price = 2
  Operation = {op1, op2}
  Request = {r1, r2}
  Amount = {1}
  Report = {"succeeded", "failed"}
  None = None
SYMMETRY Symmetry
INVARIANTS
  TypeOK
  OneRefundPerOperation
  FreshReservationsWithinPayment
  SuccessConfirmedByStripe
