--------------------------- MODULE ReviewRatings ---------------------------
(***************************************************************************)
(* ugc: users rate reviews.  A rating is a document of its own, and the    *)
(* review carries the number and the sum of its ratings, which every       *)
(* request updates in a second operation on another collection.  MongoDB   *)
(* makes each operation atomic and nothing else; only the deletion of a    *)
(* review is a transaction.                                                *)
(***************************************************************************)
EXTENDS Integers, FiniteSets, FiniteSetsExt

CONSTANTS
  User,
  Review,     \* review ids, in the collection or to be made
  Author,     \* [Review -> User]
  Value,      \* ratings a user may give
  Like,       \* LIKE_VALUE, which tells the author
  RatingRequest, \* requests to rate a review or take a rating back, each served once
  Deletion,   \* requests to delete a review
  MaxFaults,  \* bound: crashes and failed operations
  Unrated     \* no rating

ASSUME AuthorAssumption == Review # {} /\ Author \in [Review -> User]
ASSUME ValueAssumption == Value \subseteq Nat /\ Like \in Value /\ Unrated \notin Value
ASSUME FaultsAssumption == MaxFaults \in Nat

VARIABLES
  review,     \* review -> whether it is there, rating_count and rating_sum
  rating,     \* ratings: review -> user -> value or Unrated
  request,    \* request -> its step and its local variables
  deletion,   \* deletion -> its step, its review and what its transaction sees
  liked,      \* events published to review_liked, as pairs <<review, liker>>
  drifted,    \* history: reviews whose counters a race or a fault has put wrong
  orphaned,   \* history: <<review, user>> rated while the review was being deleted
  faults      \* history: faults so far

ratingsVars == <<review, rating, request, deletion, liked, drifted, orphaned, faults>>

-----------------------------------------------------------------------------
\* seen: the rating the request knows of; the deltas it is about to add.
NewRequest == [step |-> "new", user |-> CHOOSE u \in User : TRUE,
               review |-> CHOOSE r \in Review : TRUE, value |-> Unrated, seen |-> Unrated,
               count |-> 0, sum |-> 0]

Done == [NewRequest EXCEPT !.step = "done"]

NewReview == [step |-> "new", count |-> 0, sum |-> 0]

RatingsInit ==
  /\ review = [r \in Review |-> NewReview]
  /\ rating = [r \in Review |-> [u \in User |-> Unrated]]
  /\ request = [q \in RatingRequest |-> NewRequest]
  /\ deletion = [d \in Deletion |-> [step |-> "new"]]
  /\ liked = {} /\ drifted = {} /\ orphaned = {}
  /\ faults = 0

IsLive(r) == review[r].step = "live"

SetRequest(q, x) == request' = [request EXCEPT ![q] = x]

Fault == faults < MaxFaults /\ faults' = faults + 1

\* The user may write a review of a film again after deleting one; it gets an id of its own.
WriteReview(r) ==
  /\ review[r].step = "new"
  /\ review' = [review EXCEPT ![r].step = "live"]
  /\ UNCHANGED <<rating, request, deletion, liked, drifted, orphaned, faults>>

-----------------------------------------------------------------------------
(* set_review_rating *)

\* _ensure_review_exists; a review that is not there ends the request.
EnsureToRate(q, u, r, v) ==
  /\ request[q].step = "new" /\ IsLive(r)
  /\ SetRequest(q, [NewRequest EXCEPT !.step = "upsert", !.user = u,
                                      !.review = r, !.value = v])
  /\ UNCHANGED <<review, rating, deletion, liked, drifted, orphaned, faults>>

CountDelta(before) == IF before = Unrated THEN 1 ELSE 0

SumDelta_AddsAll(before, v) == v

\* A new rating adds its value, a changed one the difference.
SumDelta(before, v) == IF before = Unrated THEN v ELSE v - before

\* _upsert, which returns what was there before.
Upsert(q) ==
  /\ request[q].step = "upsert"
  /\ LET u == request[q].user
         r == request[q].review
         v == request[q].value
         before == rating[r][u] IN
       /\ rating' = [rating EXCEPT ![r][u] = v]
       /\ SetRequest(q, [request[q] EXCEPT !.step = "stats", !.count = CountDelta(before),
                                           !.sum = SumDelta(before, v)])
       /\ orphaned' = IF IsLive(r) THEN orphaned ELSE orphaned \cup {<<r, u>>}
  /\ UNCHANGED <<review, deletion, liked, drifted, faults>>

IsLike_AnyRating(v) == v # Unrated

IsLike(v) == v = Like

\* _update_review_stats: one update, without effect when the review is gone.
UpdateStats(q) ==
  /\ request[q].step = "stats"
  /\ LET r == request[q].review IN
       review' = IF ~IsLive(r) THEN review
                 ELSE [review EXCEPT ![r].count = @ + request[q].count, ![r].sum = @ + request[q].sum]
  /\ SetRequest(q, IF IsLike(request[q].value) THEN [request[q] EXCEPT !.step = "like"] ELSE Done)
  /\ UNCHANGED <<rating, deletion, liked, drifted, orphaned, faults>>

\* _publish_review_liked: the review's author is told, but of no like of his own.  An
\* error is only logged.
PublishLiked(q) ==
  /\ request[q].step = "like"
  /\ LET u == request[q].user
         r == request[q].review IN
       liked' = IF IsLive(r) /\ Author[r] # u THEN liked \cup {<<r, u>>} ELSE liked
  /\ SetRequest(q, Done)
  /\ UNCHANGED <<review, rating, deletion, drifted, orphaned, faults>>

-----------------------------------------------------------------------------
(* remove_review_rating *)

EnsureToRemove(q, u, r) ==
  /\ request[q].step = "new" /\ IsLive(r)
  /\ SetRequest(q, [NewRequest EXCEPT !.step = "read", !.user = u, !.review = r])
  /\ UNCHANGED <<review, rating, deletion, liked, drifted, orphaned, faults>>

ReadRating(q) ==
  /\ request[q].step = "read"
  /\ SetRequest(q, [request[q] EXCEPT !.step = "delete",
                                      !.seen = rating[request[q].review][request[q].user]])
  /\ UNCHANGED <<review, rating, deletion, liked, drifted, orphaned, faults>>

\* _delete: the counters are reduced by what was read before, if anything was read and
\* anything deleted.  Another request for the same rating in between makes that wrong.
DeleteRating(q) ==
  /\ request[q].step = "delete"
  /\ LET u == request[q].user
         r == request[q].review
         seen == request[q].seen IN
       /\ rating' = [rating EXCEPT ![r][u] = Unrated]
       /\ SetRequest(q, IF rating[r][u] = Unrated \/ seen = Unrated THEN Done
                        ELSE [request[q] EXCEPT !.step = "stats", !.count = -1, !.sum = -seen])
       /\ drifted' = IF rating[r][u] \in {Unrated, seen} THEN drifted ELSE drifted \cup {r}
  /\ UNCHANGED <<review, deletion, liked, orphaned, faults>>

\* The process dies, or an operation fails, on the way.  Between the rating and the
\* counters there is nothing to make up for it.
Crash(q) ==
  /\ request[q].step \notin {"new", "done"} /\ Fault
  /\ drifted' = IF request[q].step = "stats" THEN drifted \cup {request[q].review} ELSE drifted
  /\ SetRequest(q, Done)
  /\ UNCHANGED <<review, rating, deletion, liked, orphaned>>

-----------------------------------------------------------------------------
(* ReviewService.delete *)

RatersOf(r) == {u \in User : rating[r][u] # Unrated}

\* The transaction sees the collections as they are at its first read.
BeginDelete(d, r) ==
  /\ deletion[d].step = "new" /\ IsLive(r)
  /\ deletion' = [deletion EXCEPT ![d] = [step |-> "transaction", review |-> r,
                                          stats |-> review[r], ratings |-> rating[r]]]
  /\ UNCHANGED <<review, rating, request, liked, drifted, orphaned, faults>>

\* Documents it deletes and somebody else has changed make the commit fail.
Conflict(d) ==
  LET seen == deletion[d] IN
  \/ review[seen.review] # seen.stats
  \/ \E u \in User : seen.ratings[u] \notin {Unrated, rating[seen.review][u]}

DeletedRatings_None(d) == {}

\* delete_many: the ratings the transaction sees.
DeletedRatings(d) == {u \in User : deletion[d].ratings[u] # Unrated}

CommitDelete(d) ==
  /\ deletion[d].step = "transaction" /\ ~Conflict(d)
  /\ LET r == deletion[d].review IN
       /\ review' = [review EXCEPT ![r] = [NewReview EXCEPT !.step = "gone"]]
       /\ rating' = [rating EXCEPT ![r] = [u \in User |-> IF u \in DeletedRatings(d) THEN Unrated ELSE @[u]]]
       /\ orphaned' = orphaned \cup {<<r, u>> : u \in {x \in RatersOf(r) : deletion[d].ratings[x] = Unrated}}
  /\ deletion' = [deletion EXCEPT ![d] = [step |-> "done"]]
  /\ UNCHANGED <<request, liked, drifted, faults>>

AbortDelete(d) ==
  /\ deletion[d].step = "transaction" /\ Conflict(d)
  /\ deletion' = [deletion EXCEPT ![d] = [step |-> "done"]]
  /\ UNCHANGED <<review, rating, request, liked, drifted, orphaned, faults>>

-----------------------------------------------------------------------------
Serve(q) ==
  \/ \E u \in User, r \in Review :
       (\E v \in Value : EnsureToRate(q, u, r, v)) \/ EnsureToRemove(q, u, r)
  \/ Upsert(q) \/ UpdateStats(q) \/ PublishLiked(q)
  \/ ReadRating(q) \/ DeleteRating(q)
  \/ Crash(q)

RatingsNext ==
  \/ \E r \in Review : WriteReview(r)
  \/ \E q \in RatingRequest : Serve(q)
  \/ \E d \in Deletion : (\E r \in Review : BeginDelete(d, r)) \/ CommitDelete(d) \/ AbortDelete(d)

RatingsSpec == RatingsInit /\ [][RatingsNext]_ratingsVars

-----------------------------------------------------------------------------
(* Properties *)

RatingsTypeOK ==
  /\ \A r \in Review : review[r] \in [step : {"new", "live", "gone"}, count : Int, sum : Int]
  /\ rating \in [Review -> [User -> Value \cup {Unrated}]]
  /\ \A q \in RatingRequest :
       /\ request[q].step \in {"new", "upsert", "stats", "like", "read", "delete", "done"}
       /\ request[q].user \in User /\ request[q].review \in Review
       /\ request[q].step = "like" => request[q].value = Like
  /\ \A d \in Deletion : deletion[d].step \in {"new", "transaction", "done"}
  /\ liked \subseteq Review \X User
  /\ drifted \subseteq Review /\ orphaned \subseteq Review \X User
  /\ faults \in 0..MaxFaults

Owing(r) == {q \in RatingRequest : request[q].step = "stats" /\ request[q].review = r}

\* What the requests have still to add to a column of a review's counters.
Owed(r, column) == MapThenSumSet(LAMBDA q : request[q][column], Owing(r))

\* What a review's counters and the requests that have still to update them come to is
\* what the ratings come to, however the requests interleave: "learn the previous state"
\* atomically (ratings.py:45).  Two requests for one rating of which one takes it back,
\* and a crash in between, are what it does not hold for.
StatsFollowRatings ==
  \A r \in Review \ drifted : IsLive(r) =>
    /\ review[r].count + Owed(r, "count") = Cardinality(RatersOf(r))
    /\ review[r].sum + Owed(r, "sum") = MapThenSumSet(LAMBDA u : rating[r][u], RatersOf(r))

\* A deleted review takes its ratings along, but for those that somebody was giving at
\* the time, which nobody can remove any more: every request asks for the review first.
DeletionTakesRatings ==
  \A r \in Review : review[r].step = "gone" => \A u \in RatersOf(r) : <<r, u>> \in orphaned

-----------------------------------------------------------------------------
(* What ugc's README says and the code does not keep *)

\* "Review rating stats are computed from `ratings`" (ugc/README.md:75): when no request is
\* about to update them, the counters are what the ratings come to.
StatsAreComputed ==
  \A r \in Review : IsLive(r) /\ Owing(r) = {} =>
    /\ review[r].count = Cardinality(RatersOf(r))
    /\ review[r].sum = MapThenSumSet(LAMBDA u : rating[r][u], RatersOf(r))

\* "Cascade cleanup of review ratings on review deletion" (ugc/README.md:218): a deleted
\* review has no ratings, when no request is at one of them.
DeletionCascades ==
  \A r \in Review :
    review[r].step = "gone" /\ (\A q \in RatingRequest : request[q].step \in {"new", "done"}) =>
      RatersOf(r) = {}
=============================================================================
