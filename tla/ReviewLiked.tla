----------------------------- MODULE ReviewLiked -----------------------------
(***************************************************************************)
(* The review_liked consumer of the delivery worker.  It is the campaign   *)
(* consumer's loop and sender (Delivery) with a throttle of Redis around   *)
(* the email: an author hears of likes once a day.  The throttle is read   *)
(* before the email and set after it, and only when all went well.         *)
(*                                                                         *)
(* A message's key is the review and who likes it, so one author has many. *)
(***************************************************************************)
EXTENDS Delivery

CONSTANTS
  Author,    \* authors of reviews
  AuthorOf   \* key -> the author of the review that is liked

ASSUME AuthorAssumption == AuthorOf \in [Key -> Author]

VARIABLES
  throttled,  \* Redis: authors with a throttle key
  today,      \* history: author -> emails since the throttle key last ran out
  slipped     \* history: authors who got an email that the throttle was not set for in
              \* time, see the actions that add to it

throttleVars == <<throttled, today, slipped>>
likedVars == <<topic, committed, owner, pc, job, delivery, emails, dlqBuffer, dlq,
               throttled, today, slipped>>

LikedInit ==
  /\ Init
  /\ throttled = {} /\ today = [a \in Author |-> 0] /\ slipped = {}

Liked(w) == AuthorOf[KeyOf(w)]

\* A worker that has passed the check and not set the throttle.
Sending(w, a) ==
  pc[w] \in {"load", "user", "send", "record", "settle"} /\ Liked(w) = a

-----------------------------------------------------------------------------
(* What the loop, reserve_key and send_notification share with the campaign consumer *)

Shared(w) ==
  /\ \/ Fetch(w) \/ Commit(w) \/ PublishDlq(w) \/ FlushDlq(w)
     \/ Reserve(w) \/ ReserveRaises(w) \/ FailTemplate(w)
     \/ FetchUser(w) \/ FailUser(w)
  /\ UNCHANGED throttleVars

-----------------------------------------------------------------------------
(* _handle, after the key is reserved *)

\* is_throttled; an error of Redis is none of RETRYABLE_EXCEPTIONS.
CheckThrottle(w) ==
  /\ pc[w] = "template"
  /\ \/ Goto(w, IF Liked(w) \in throttled THEN "throttled" ELSE "load")
     \/ "invalid" \in Fault /\ Goto(w, "dlq")
  /\ slipped' = IF \E v \in Worker \ {w} : Sending(v, Liked(w)) THEN slipped \cup {Liked(w)} ELSE slipped
  /\ UNCHANGED <<kafkaVars, job, delivery, emails, dlqVars, throttled, today>>

\* finalize_key THROTTLED; a database error is retried, and then meets the key's own row.
MarkThrottled(w) ==
  /\ pc[w] = "throttled"
  /\ \/ /\ delivery' = [delivery EXCEPT ![KeyOf(w)] = "THROTTLED"]
        /\ Goto(w, "commit") /\ UNCHANGED job
     \/ RaiseRetryable(w) /\ UNCHANGED delivery
  /\ UNCHANGED <<kafkaVars, emails, dlqVars, throttleVars>>

\* _get_review_liked_template, by its name: found, missing, or a database error.
LoadByName(w) ==
  /\ pc[w] = "load"
  /\ \/ Goto(w, "user") /\ UNCHANGED job
     \/ Goto(w, "notfound") /\ UNCHANGED job
     \/ RaiseRetryable(w)
  /\ UNCHANGED <<kafkaVars, delivery, emails, dlqVars, throttleVars>>

Accept(w) == emails'[KeyOf(w)] > emails[KeyOf(w)]

\* The provider may have accepted an email that send_email takes for refused.
Send(w) ==
  /\ SendEmail(w)
  /\ today' = IF Accept(w) THEN [today EXCEPT ![Liked(w)] = @ + 1] ELSE today
  /\ slipped' = IF Accept(w) /\ ~job'[w].ok THEN slipped \cup {Liked(w)} ELSE slipped
  /\ UNCHANGED throttled

\* The outcome of send_notification: only what was sent and recorded sets the throttle.
Record_ThenCommit(w) ==
  /\ pc[w] = "record"
  /\ \/ /\ delivery' = [delivery EXCEPT ![KeyOf(w)] = RecordedStatus(w)]
        /\ Goto(w, IF RecordedStatus(w) = "SENT" THEN "commit" ELSE "dlq")
        /\ UNCHANGED slipped
     \/ /\ "retryable" \in Fault
        /\ Goto(w, "dlq")
        /\ slipped' = slipped \cup {Liked(w)}
        /\ UNCHANGED delivery
  /\ UNCHANGED <<kafkaVars, job, emails, dlqVars, throttled, today>>

Record(w) ==
  /\ pc[w] = "record"
  /\ \/ /\ delivery' = [delivery EXCEPT ![KeyOf(w)] = RecordedStatus(w)]
        /\ Goto(w, IF RecordedStatus(w) = "SENT" THEN "settle" ELSE "dlq")
        /\ UNCHANGED slipped
     \/ /\ "retryable" \in Fault
        /\ Goto(w, "dlq")
        /\ slipped' = slipped \cup {Liked(w)}
        /\ UNCHANGED delivery
  /\ UNCHANGED <<kafkaVars, job, emails, dlqVars, throttled, today>>

\* set_throttle; when Redis fails the message that was emailed goes to the dead letters.
SetThrottle(w) ==
  /\ pc[w] = "settle"
  /\ \/ /\ throttled' = throttled \cup {Liked(w)}
        /\ Goto(w, "commit") /\ UNCHANGED slipped
     \/ /\ "invalid" \in Fault /\ Goto(w, "dlq")
        /\ slipped' = slipped \cup {Liked(w)}
        /\ UNCHANGED throttled
  /\ UNCHANGED <<kafkaVars, job, delivery, emails, dlqVars, today>>

-----------------------------------------------------------------------------
(* Time and faults *)

\* The key's time to live is over.  A worker is not a day at one message.
Expire(a) ==
  /\ a \in throttled
  /\ \A w \in Worker : ~Sending(w, a)
  /\ throttled' = throttled \ {a}
  /\ today' = [today EXCEPT ![a] = 0]
  /\ slipped' = slipped \ {a}
  /\ UNCHANGED vars

\* Between the email and the throttle a crash loses the throttle.
Die(w) ==
  /\ Crash(w)
  /\ slipped' = IF pc[w] \in {"record", "settle"} THEN slipped \cup {Liked(w)} ELSE slipped
  /\ UNCHANGED <<throttled, today>>

Environment ==
  /\ (\E k \in Key : Produce(k)) \/ (\E w \in Worker : Rebalance(w))
  /\ UNCHANGED throttleVars

LikedNext ==
  \/ Environment
  \/ \E w \in Worker :
       \/ Shared(w)
       \/ CheckThrottle(w) \/ MarkThrottled(w) \/ LoadByName(w) \/ Send(w) \/ Record(w) \/ SetThrottle(w)
       \/ Die(w)
  \/ \E a \in Author : Expire(a)

LikedSpec == LikedInit /\ [][LikedNext]_likedVars

-----------------------------------------------------------------------------
(* Properties *)

\* "One email per author per day" (consumers/review_liked.py:122), but for what the code
\* lets through: a worker that checked while another was sending, and an email whose
\* worker died, heard nothing of it, could not record it or could not set the throttle.
OneEmailADay == \A a \in Author : today[a] > 1 => a \in slipped

LikedBox == INSTANCE Mailbox WITH
  published <- {topic[i] : i \in DOMAIN topic},
  delivery <- [k \in Key |-> IF delivery[k] = "THROTTLED" THEN "FAILED" ELSE delivery[k]]

\* Seen from ugc the consumer is the same mailbox as the campaign consumer, in which a
\* throttled key is one that failed.
LikedImplementsMailbox == LikedBox!Spec

-----------------------------------------------------------------------------
(* What the code states and does not keep *)

\* "One email per author per day" (consumers/review_liked.py:122), whatever the workers do.
ThrottledPerAuthor == \A a \in Author : today[a] <= 1
=============================================================================
