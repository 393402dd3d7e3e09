SPECIFICATION Spec
CONSTANTS
  Payment = {p1}
  Price = 1
  Operation = {op1, op2}
  Request = {r1}
  Amount = {1}
  Report = {}
  None = None
INVARIANTS
  ReservedWithinPayment
