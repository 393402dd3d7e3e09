------------------------------- MODULE Delivery -------------------------------
(***************************************************************************)
(* The campaign consumer of the delivery worker: one partition of the      *)
(* topic notifications.delivery, read by the workers of a consumer group,  *)
(* and the table notif.deliveries whose unique idempotency_key is meant to *)
(* make redelivery harmless.                                               *)
(*                                                                         *)
(* A worker handles one message at a time and commits its offset when      *)
(* _process_message returns.  Every await is a step, so a crash, a         *)
(* rebalance or another worker can come between any two of them.           *)
(***************************************************************************)
EXTENDS Naturals, Sequences

CONSTANTS
  Key,          \* idempotency keys
  Worker,       \* worker processes of the consumer group
  MaxMessages,  \* bound: messages produced to the partition
  MaxAttempts,  \* settings.consumer_max_retries
  Fault         \* bound: which faults the environment injects

ASSUME MaxMessagesAssumption == MaxMessages \in Nat
ASSUME MaxAttemptsAssumption == MaxAttempts \in Nat \ {0}
ASSUME FaultAssumption == Fault \subseteq {"crash", "rebalance", "retryable", "invalid"}
ASSUME WorkerAssumption == Worker # {}

VARIABLES
  topic,      \* the partition: sequence of the messages' idempotency keys
  committed,  \* the group's committed offset: messages up to it are done with
  owner,      \* the worker the partition is assigned to
  pc,         \* worker -> the step it is about to take
  job,        \* worker -> its local variables
  delivery,   \* notif.deliveries: key -> status, or "none"
  emails,     \* key -> emails Brevo accepted for it
  dlqBuffer,  \* worker -> DLQ records its producer has not sent yet
  dlq         \* keys with a record in the dead letter topic

kafkaVars == <<topic, committed, owner>>
dlqVars   == <<dlqBuffer, dlq>>
vars == <<topic, committed, owner, pc, job, delivery, emails, dlqBuffer, dlq>>

-----------------------------------------------------------------------------
Final == {"SENT", "FAILED"}

\* ok: what send_email returned; revoked: the partition was taken away meanwhile.
NoJob == [offset |-> 0, attempt |-> 1, ok |-> FALSE, revoked |-> FALSE]

KeyOf(w) == topic[job[w].offset]

Init ==
  /\ topic = <<>>
  /\ committed = 0
  /\ owner \in Worker
  /\ pc = [w \in Worker |-> "idle"]
  /\ job = [w \in Worker |-> NoJob]
  /\ delivery = [k \in Key |-> "none"]
  /\ emails = [k \in Key |-> 0]
  /\ dlqBuffer = [w \in Worker |-> {}]
  /\ dlq = {}

Goto(w, step) == pc' = [pc EXCEPT ![w] = step]

\* An exception of DOMAIN_EXCEPTIONS or an unexpected one leaves _handle.
RaiseInvalid(w) == "invalid" \in Fault /\ Goto(w, "dlq") /\ UNCHANGED job

AfterRetryable_ToCommit(w) == IF job[w].attempt < MaxAttempts THEN "reserve" ELSE "commit"

\* Where _process_message goes on after a retryable exception.
AfterRetryable(w) == IF job[w].attempt < MaxAttempts THEN "reserve" ELSE "dlq"

\* An exception of RETRYABLE_EXCEPTIONS leaves _handle: again from its start, until
\* the attempts are used up.
RaiseRetryable(w) ==
  /\ "retryable" \in Fault
  /\ Goto(w, AfterRetryable(w))
  /\ job' = IF job[w].attempt < MaxAttempts
              THEN [job EXCEPT ![w].attempt = @ + 1] ELSE job

-----------------------------------------------------------------------------
(* run and _process_message *)

\* A producer (the campaign fanout) appends a message; it may repeat a key.
Produce(k) ==
  /\ Len(topic) < MaxMessages
  /\ topic' = Append(topic, k)
  /\ UNCHANGED <<committed, owner, pc, job, delivery, emails, dlqVars>>

\* The owner fetches the message after the committed offset.
Fetch(w) ==
  /\ pc[w] = "idle"
  /\ owner = w
  /\ committed < Len(topic)
  /\ job' = [job EXCEPT ![w] = [NoJob EXCEPT !.offset = committed + 1]]
  /\ Goto(w, "reserve")
  /\ UNCHANGED <<kafkaVars, delivery, emails, dlqVars>>

\* consumer.commit(): a partition that was taken away in between is left alone.
Commit(w) ==
  /\ pc[w] = "commit"
  /\ committed' = IF job[w].revoked THEN committed ELSE job[w].offset
  /\ job' = [job EXCEPT ![w] = NoJob]
  /\ Goto(w, "idle")
  /\ UNCHANGED <<topic, owner, delivery, emails, dlqVars>>

PublishDlq_WithoutCommit(w) ==
  /\ pc[w] = "dlq"
  /\ dlqBuffer' = [dlqBuffer EXCEPT ![w] = @ \cup {KeyOf(w)}]
  /\ job' = [job EXCEPT ![w] = NoJob]
  /\ Goto(w, "idle")
  /\ UNCHANGED <<kafkaVars, delivery, emails, dlq>>

\* _publish_dlq hands the record to the producer and does not wait for the broker.
PublishDlq(w) ==
  /\ pc[w] = "dlq"
  /\ dlqBuffer' = [dlqBuffer EXCEPT ![w] = @ \cup {KeyOf(w)}]
  /\ Goto(w, "commit")
  /\ UNCHANGED <<kafkaVars, job, delivery, emails, dlq>>

\* The producer's background task sends what was handed to it.
FlushDlq(w) ==
  /\ dlqBuffer[w] # {}
  /\ dlq' = dlq \cup dlqBuffer[w]
  /\ dlqBuffer' = [dlqBuffer EXCEPT ![w] = {}]
  /\ UNCHANGED <<kafkaVars, pc, job, delivery, emails>>

-----------------------------------------------------------------------------
(* _handle and send_notification *)

KeyFree_Unchecked(k) == TRUE

KeyFree_RetryPending(k) == delivery[k] \in {"none", "PENDING"}

\* INSERT ... ON CONFLICT (idempotency_key) DO NOTHING RETURNING id returns a row.
KeyFree(k) == delivery[k] = "none"

\* reserve_key: insert the PENDING row and commit, or return as for a duplicate.
Reserve(w) ==
  /\ pc[w] = "reserve"
  /\ IF KeyFree(KeyOf(w))
       THEN delivery' = [delivery EXCEPT ![KeyOf(w)] = "PENDING"] /\ Goto(w, "template")
       ELSE Goto(w, "commit") /\ UNCHANGED delivery
  /\ UNCHANGED <<kafkaVars, job, emails, dlqVars>>

\* The database fails before the row is stored, or after but unheard.
ReserveRaises(w) ==
  /\ pc[w] = "reserve"
  /\ RaiseRetryable(w)
  /\ \/ UNCHANGED delivery
     \/ /\ delivery[KeyOf(w)] = "none"
        /\ delivery' = [delivery EXCEPT ![KeyOf(w)] = "PENDING"]
  /\ UNCHANGED <<kafkaVars, emails, dlqVars>>

\* SELECT the template: found, missing, a malformed id, or a database error.
LoadTemplate(w) ==
  /\ pc[w] = "template"
  /\ \/ Goto(w, "user") /\ UNCHANGED job
     \/ Goto(w, "notfound") /\ UNCHANGED job
     \/ RaiseInvalid(w)
     \/ RaiseRetryable(w)
  /\ UNCHANGED <<kafkaVars, delivery, emails, dlqVars>>

\* Template not found: finalize FAILED, then DLQ; a database error is raised.
FailTemplate(w) ==
  /\ pc[w] = "notfound"
  /\ \/ /\ delivery' = [delivery EXCEPT ![KeyOf(w)] = "FAILED"]
        /\ Goto(w, "dlq")
        /\ UNCHANGED job
     \/ RaiseRetryable(w) /\ UNCHANGED delivery
  /\ UNCHANGED <<kafkaVars, emails, dlqVars>>

\* auth_client.get_user and rendering: fine, user unknown or render error, a
\* malformed answer, or a transport error that is raised for a retry.
FetchUser(w) ==
  /\ pc[w] = "user"
  /\ \/ Goto(w, "send") /\ UNCHANGED job
     \/ Goto(w, "failed") /\ UNCHANGED job
     \/ RaiseInvalid(w)
     \/ RaiseRetryable(w)
  /\ UNCHANGED <<kafkaVars, delivery, emails, dlqVars>>

\* Unknown user or render error: finalize FAILED, a database error is swallowed.
FailUser(w) ==
  /\ pc[w] = "failed"
  /\ \/ delivery' = [delivery EXCEPT ![KeyOf(w)] = "FAILED"]
     \/ "retryable" \in Fault /\ UNCHANGED delivery
  /\ Goto(w, "dlq")
  /\ UNCHANGED <<kafkaVars, job, emails, dlqVars>>

\* send_email: accepted, refused, or accepted with the answer lost.
SendEmail(w) ==
  /\ pc[w] = "send"
  /\ \E accepted \in BOOLEAN, ok \in BOOLEAN :
       /\ ok => accepted
       /\ emails' = IF accepted THEN [emails EXCEPT ![KeyOf(w)] = @ + 1] ELSE emails
       /\ job' = [job EXCEPT ![w].ok = ok]
  /\ Goto(w, "record")
  /\ UNCHANGED <<kafkaVars, delivery, dlqVars>>

RecordedStatus(w) == IF job[w].ok THEN "SENT" ELSE "FAILED"

\* finalize_key with the outcome; a database error is swallowed and reported as not
\* sent.  What was not sent goes to the DLQ.
RecordDelivery(w) ==
  /\ pc[w] = "record"
  /\ \/ /\ delivery' = [delivery EXCEPT ![KeyOf(w)] = RecordedStatus(w)]
        /\ Goto(w, IF RecordedStatus(w) = "SENT" THEN "commit" ELSE "dlq")
     \/ /\ "retryable" \in Fault
        /\ Goto(w, "dlq")
        /\ UNCHANGED delivery
  /\ UNCHANGED <<kafkaVars, job, emails, dlqVars>>

-----------------------------------------------------------------------------
(* Faults *)

\* The process dies (an exception out of a consumer takes both down) and restarts:
\* it resumes at the committed offset, unsent DLQ records are gone.
Crash(w) ==
  /\ "crash" \in Fault
  /\ pc[w] # "idle" \/ dlqBuffer[w] # {}
  /\ Goto(w, "idle")
  /\ job' = [job EXCEPT ![w] = NoJob]
  /\ dlqBuffer' = [dlqBuffer EXCEPT ![w] = {}]
  /\ UNCHANGED <<kafkaVars, delivery, emails, dlq>>

\* The group hands the partition to another worker, which reads from the committed
\* offset while the old owner may still be busy with its message.
Rebalance(w) ==
  /\ "rebalance" \in Fault
  /\ owner # w
  /\ owner' = w
  /\ job' = [v \in Worker |-> IF pc[v] = "idle" THEN job[v]
                                              ELSE [job[v] EXCEPT !.revoked = TRUE]]
  /\ UNCHANGED <<topic, committed, pc, delivery, emails, dlqVars>>

-----------------------------------------------------------------------------
Step(w) ==
  \/ Fetch(w) \/ Commit(w) \/ PublishDlq(w)
  \/ Reserve(w) \/ ReserveRaises(w) \/ LoadTemplate(w) \/ FailTemplate(w)
  \/ FetchUser(w) \/ FailUser(w) \/ SendEmail(w) \/ RecordDelivery(w)

Next ==
  \/ \E k \in Key : Produce(k)
  \/ \E w \in Worker : Step(w) \/ FlushDlq(w) \/ Crash(w) \/ Rebalance(w)

Spec == Init /\ [][Next]_vars

\* A worker that is running keeps running and its producer keeps sending; nothing is
\* assumed of producers of messages and of faults.
Fairness == \A w \in Worker : WF_vars(Step(w)) /\ WF_vars(FlushDlq(w))

FairSpec == Spec /\ Fairness
-----------------------------------------------------------------------------
(* Properties *)

Steps == {"idle", "reserve", "template", "notfound", "user", "failed", "send",
          "record", "dlq", "commit"}

\* Every variable keeps the shape its table, topic or local variable has; a worker
\* only works on a message that is in the topic.
TypeOK ==
  /\ topic \in Seq(Key)
  /\ committed \in 0..Len(topic)
  /\ owner \in Worker
  /\ pc \in [Worker -> Steps]
  /\ job \in [Worker -> [offset : Nat, attempt : 1..MaxAttempts,
                         ok : BOOLEAN, revoked : BOOLEAN]]
  /\ \A w \in Worker : pc[w] # "idle" => job[w].offset \in 1..Len(topic)
  /\ delivery \in [Key -> {"none", "PENDING"} \cup Final]
  /\ emails \in [Key -> Nat]
  /\ dlqBuffer \in [Worker -> SUBSET Key]
  /\ dlq \subseteq Key

\* A key is emailed at most once, whatever is redelivered after a crash, retried,
\* repeated by the producer or read by two workers across a rebalance (the README's
\* "prevents duplicate emails"; reserve_delivery).
AtMostOneEmail == \A k \in Key : emails[k] <= 1

\* A row only says SENT of an email the provider accepted (send_notification).
SentMeansEmailed == \A k \in Key : delivery[k] = "SENT" => emails[k] = 1

\* A finished row is finished: a redelivery, a retry or a worker that lost the
\* partition never reopens or overwrites it (finalize_delivery has no status guard).
FinishedIsFinal ==
  [][\A k \in Key : delivery[k] \in Final => delivery'[k] = delivery[k]]_vars

\* A key with a row, whatever its status, or with a dead letter that is at least on its way.
Handled(k) == delivery[k] # "none" \/ k \in dlq \/ \E w \in Worker : k \in dlqBuffer[w]

\* The committed offset never skips a message and never goes back, across rebalances
\* that leave several workers at work, and it passes a message only when it is handled
\* (run commits what _process_message has returned from, whatever it met on the way).
CommitsFollowHandling ==
  [][committed' # committed =>
       committed' = committed + 1 /\ Handled(topic[committed'])]_vars

\* Nothing that was committed vanishes but in a crash, which takes the dead letters with
\* it that were not sent yet.
CommittedIsHandled ==
  "crash" \notin Fault => \A n \in 1..committed : Handled(topic[n])

Box == INSTANCE Mailbox WITH published <- {topic[i] : i \in DOMAIN topic}

\* Retries, redeliveries and workers that lost the partition stay hidden: seen from the
\* publishers, the worker is a mailbox that emails a key at most once.
ImplementsMailbox == Box!Spec

\* No fault of the environment strikes from some time on.
Faultless ==
  <>[][\A w \in Worker : ~Crash(w) /\ ~Rebalance(w)]_vars

\* The consumer never sticks: when crashes and rebalances cease, every message of the
\* topic gets its offset committed, also one that fails on every attempt
\* (_process_message always ends in a commit).
EveryMessageCommitted ==
  Faultless => \A n \in 1..MaxMessages : Len(topic) >= n ~> committed >= n

\* A message that is done with left a result: its key was sent or failed for good, is
\* in the dead letter topic or on its way there, or a worker is still at it.
Accounted(k) ==
  \/ delivery[k] \in Final
  \/ k \in dlq
  \/ \E w \in Worker : k \in dlqBuffer[w] \/ (pc[w] # "idle" /\ KeyOf(w) = k)

\* A retry is for sending the email after all: when the offset is committed the
\* message was not just dropped (get_user raises "so callers can apply retries").
NothingDropped == \A n \in 1..committed : Accounted(topic[n])
=============================================================================
