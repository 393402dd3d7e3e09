SPECIFICATION FairSpec
CONSTANTS
  Payment = {p1}
  Price = 1
  Operation = {op1}
  Request = {r1, r2}
  Amount = {1}
  Report = {"pending", "succeeded", "failed", "charge.refunded"}
  None = None
PROPERTIES
  RecordedRefundSettles
  WebhooksNeverDowngrade
