SPECIFICATION FairSpec
CONSTANTS
  Key = {k1}
  Worker = {w1, w2}
  MaxMessages = 2
  MaxAttempts = 2
  Fault = {"crash", "rebalance", "retryable", "invalid"}
INVARIANTS
  AtMostOneEmail
PROPERTIES
  ImplementsMailbox
  CommitsFollowHandling
  EveryMessageCommitted
