SPECIFICATION LikedSpec
CONSTANTS
  k1 = k1
  k2 = k2
  a1 = a1
  Key = {k1, k2}
  Author = {a1}
  AuthorOf <- OneAuthor
  Worker = {w1, w2}
  MaxMessages = 2
  MaxAttempts = 2
  Fault = {"crash", "rebalance", "retryable", "invalid"}
INVARIANTS
  OneEmailADay
PROPERTIES
  LikedImplementsMailbox
SYMMETRY Symmetry
