SPECIFICATION RatingsSpec
CONSTANTS
  u1 = u1
  u2 = u2
  v1 = v1
  User = {u1, u2}
  Review = {v1}
  Author <- ByFirst
  Value = {3, 10}
  Like = 10
  RatingRequest = {q1, q2, q3}
  Deletion = {d1}
  MaxFaults = 1
  Unrated = Unrated
INVARIANTS
  RatingsTypeOK
  StatsFollowRatings
  DeletionTakesRatings
CHECK_DEADLOCK FALSE
