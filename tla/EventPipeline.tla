--------------------------- MODULE EventPipeline ---------------------------
(***************************************************************************)
(* event_ingest takes batches of user events over HTTP and publishes them  *)
(* to a Kafka topic; etl-kafka-clickhouse moves them to ClickHouse.  The   *)
(* event's fields are left out but for what decides its way: whether the   *)
(* API's schema accepts it, whether the ETL's Transformer does, and the    *)
(* month of its server_timestamp, by which the table is partitioned.       *)
(***************************************************************************)
EXTENDS Naturals, Sequences, FiniteSets

CONSTANTS
  Event,        \* events of clients, by what the table is ordered by: event_id, user_id
                \* and event_timestamp
  Valid,        \* those the schema of the API accepts
  Loadable,     \* and those of them the Transformer turns into rows
  Fatal,        \* those whose time stamp makes it raise what it does not catch (OSError)
  Request,      \* POST requests; a client may send an event in several
  MaxPoll,      \* kafka_max_batch_size
  MinBatch,     \* clickhouse_min_batch_size
  MaxAttempts,  \* clickhouse_insert_max_retries + 1
  MaxMonth,     \* bound: months
  MaxFaults     \* bound: crashes, outages, refusals and lost answers

ASSUME EventAssumption == Loadable \subseteq Valid /\ Fatal \subseteq Valid \ Loadable /\ Valid \subseteq Event
ASSUME SizeAssumption ==
  /\ {MaxPoll, MinBatch, MaxAttempts, MaxMonth} \subseteq Nat \ {0}
  /\ MaxFaults \in Nat

VARIABLES
  month,      \* the clock of event_ingest
  request,    \* request -> its step, the month it came in and the events it sent
  buffer,     \* messages in the producer that the broker has not confirmed
  confirmed,  \* messages whose future has its result
  failed,     \* messages the producer gave up
  topic,      \* Kafka: the log of messages <<event, month>>
  committed,  \* offset the consumer group has committed
  position,   \* offset the consumer has read to
  batch,      \* rows ready to be inserted, by the offset of their message
  attempt,    \* of inserting them
  pc,         \* the step the ETL is about to take
  rows,       \* ClickHouse: <<event, month>> -> rows in the table
  faults      \* history: faults so far

ingestVars == <<month, request, buffer, confirmed, failed>>
etlVars == <<committed, position, batch, attempt, pc, rows>>
vars == <<month, request, buffer, confirmed, failed, topic, committed, position, batch,
          attempt, pc, rows, faults>>

Month == 1..MaxMonth
Message == Event \X Month

Init ==
  /\ month = 1
  /\ request = [r \in Request |-> [step |-> "new", month |-> 1, sent |-> {}]]
  /\ buffer = {} /\ confirmed = {} /\ failed = {}
  /\ topic = <<>>
  /\ committed = 0 /\ position = 0
  /\ batch = {} /\ attempt = 1 /\ pc = "poll"
  /\ rows = [m \in Message |-> 0]
  /\ faults = 0

Fault == faults < MaxFaults /\ faults' = faults + 1

-----------------------------------------------------------------------------
(* process_event_batch *)

NextMonth ==
  /\ month < MaxMonth /\ month' = month + 1
  /\ UNCHANGED <<request, buffer, confirmed, failed, topic, etlVars, faults>>

SentBy(r) == {r} \X request[r].sent

\* event_batch_schema turns away a batch that is empty; event_schema looks at its events
\* one by one.
Accepted(events) == events \cap Valid

\* Every event the schema accepts is enriched and handed to the producer; one that is not
\* accepted, or that the producer refuses at once, is counted as rejected.
Receive(r, events) ==
  /\ request[r].step = "new"
  /\ \E refused \in {{}} \cup (IF faults < MaxFaults THEN {{e} : e \in Accepted(events)} ELSE {}) :
       /\ faults' = IF refused = {} THEN faults ELSE faults + 1
       /\ LET sent == Accepted(events) \ refused IN
            /\ request' = [request EXCEPT ![r] = [step |-> "waiting", month |-> month, sent |-> sent]]
            /\ buffer' = buffer \cup ({r} \X sent)
  /\ UNCHANGED <<month, confirmed, failed, topic, etlVars>>

\* The broker has a message, on all replicas, and the future its result.  When that answer
\* is lost the producer sends the message again.
Deliver(r, e) ==
  /\ <<r, e>> \in buffer
  /\ topic' = Append(topic, <<e, request[r].month>>)
  /\ \/ /\ buffer' = buffer \ {<<r, e>>}
        /\ confirmed' = confirmed \cup {<<r, e>>}
        /\ UNCHANGED faults
     \/ Fault /\ UNCHANGED <<buffer, confirmed>>
  /\ UNCHANGED <<month, request, failed, etlVars>>

\* The producer is out of retries: the future raises.
GiveUp(r, e) ==
  /\ <<r, e>> \in buffer
  /\ Fault
  /\ buffer' = buffer \ {<<r, e>>} /\ failed' = failed \cup {<<r, e>>}
  /\ UNCHANGED <<month, request, confirmed, topic, etlVars>>

EndRequest(r, answer) ==
  /\ request' = [request EXCEPT ![r].step = answer]
  /\ UNCHANGED <<month, buffer, confirmed, failed, topic, etlVars, faults>>

Delivered_Unfailed(r) == SentBy(r) \cap failed = {}

\* get() of every future returned before the batch's deadline.
Delivered(r) == SentBy(r) \subseteq confirmed

AnswerSuccess(r) == request[r].step = "waiting" /\ Delivered(r) /\ EndRequest(r, "200")

\* Some future raised, or the deadline passed before the last one was looked at, which may
\* have been delivered all the same or still be on its way.
AnswerFailure(r) == request[r].step = "waiting" /\ request[r].sent # {} /\ EndRequest(r, "503")

\* The ingest process dies with its producer's buffer; on an orderly exit
\* shutdown_producers flushes it first, which is Deliver.
IngestCrash ==
  /\ Fault
  /\ buffer' = {}
  /\ request' = [r \in Request |->
                   IF request[r].step = "waiting" THEN [request[r] EXCEPT !.step = "lost"] ELSE request[r]]
  /\ UNCHANGED <<month, confirmed, failed, topic, etlVars>>

-----------------------------------------------------------------------------
(* etl-kafka-clickhouse *)

\* The process ends, by an exception or a crash, and the container is started again: the
\* new consumer begins at the committed offset.  close does not commit.
Restart ==
  /\ position' = committed
  /\ batch' = {} /\ attempt' = 1 /\ pc' = "poll"
  /\ UNCHANGED <<ingestVars, topic, committed, rows>>

\* The batch is closed when it is large enough or when it is old; without events the loop
\* goes on, and without rows there is only the offset to commit.
Close(b, pos) ==
  \/ Cardinality(b) < MinBatch /\ pc' = "poll"
  \/ pos > committed /\ pc' = IF b = {} THEN "commit" ELSE "load"

\* The rows of the events that are valid; the others are skipped.
Transform(offsets) == {i \in offsets : topic[i][1] \in Loadable}

\* get_batch and transform: some messages.
Poll ==
  /\ pc = "poll"
  /\ \E n \in 0..MaxPoll :
       /\ position + n <= Len(topic)
       /\ LET polled == (position + 1)..(position + n)
              b == batch \cup Transform(polled) IN
            /\ \A i \in polled : topic[i][1] \notin Fatal
            /\ position' = position + n
            /\ batch' = b
            /\ Close(b, position + n)
  /\ UNCHANGED <<ingestVars, topic, committed, attempt, rows, faults>>

\* A message that the Transformer cannot stand ends the process before anything of the
\* batch is loaded, and meets the next one at the same offset.
PollFatal ==
  /\ pc = "poll"
  /\ \E n \in 1..MaxPoll :
       position + n <= Len(topic) /\ topic[position + n][1] \in Fatal
  /\ Restart /\ UNCHANGED faults

Inserted == [m \in Message |-> rows[m] + Cardinality({i \in batch : topic[i] = m})]

\* load_with_retry: an insert fails, possibly after the rows were written, and the last
\* failure ends the process.
Load ==
  /\ pc = "load"
  /\ rows' = Inserted
  /\ pc' = "commit"
  /\ UNCHANGED <<ingestVars, topic, committed, position, batch, attempt, faults>>

\* An outage may take several attempts.
Outage == IF attempt = 1 THEN Fault ELSE UNCHANGED faults

FailLoad_OffByOne ==
  /\ pc = "load" /\ attempt <= MaxAttempts /\ Outage
  /\ rows' \in {rows, Inserted}
  /\ attempt' = attempt + 1
  /\ UNCHANGED <<ingestVars, topic, committed, position, batch, pc>>

FailLoad ==
  /\ pc = "load" /\ attempt < MaxAttempts /\ Outage
  /\ rows' \in {rows, Inserted}
  /\ attempt' = attempt + 1
  /\ UNCHANGED <<ingestVars, topic, committed, position, batch, pc>>

GiveUpLoad == pc = "load" /\ attempt = MaxAttempts /\ Outage /\ Restart

Commit_Early ==
  /\ pc \in {"load", "commit"} /\ committed # position
  /\ committed' = position
  /\ IF pc = "load" THEN UNCHANGED <<batch, attempt, pc>>
     ELSE batch' = {} /\ attempt' = 1 /\ pc' = "poll"
  /\ UNCHANGED <<ingestVars, topic, position, rows, faults>>

\* commit: the consumer's position, which is past everything it polled.
Commit ==
  /\ pc = "commit"
  /\ committed' = position
  /\ batch' = {} /\ attempt' = 1 /\ pc' = "poll"
  /\ UNCHANGED <<ingestVars, topic, position, rows, faults>>

\* A crash anywhere, or a commit that raises.
EtlCrash == Fault /\ Restart

Merge_Plain(m) == FALSE /\ UNCHANGED vars

\* ReplacingMergeTree keeps one of the rows with equal keys of a partition, which is a
\* month of server_timestamp, at some time.
Merge(m) ==
  /\ rows[m] > 1
  /\ rows' = [rows EXCEPT ![m] = 1]
  /\ UNCHANGED <<ingestVars, topic, committed, position, batch, attempt, pc, faults>>

-----------------------------------------------------------------------------
Ingest ==
  \/ NextMonth
  \/ \E r \in Request :
       \/ \E events \in SUBSET Event \ {{}} : Receive(r, events)
       \/ \E e \in Event : Deliver(r, e) \/ GiveUp(r, e)
       \/ AnswerSuccess(r) \/ AnswerFailure(r)
  \/ IngestCrash

Etl == Poll \/ PollFatal \/ Load \/ FailLoad \/ GiveUpLoad \/ Commit \/ EtlCrash

Next == Ingest \/ Etl \/ (\E m \in Message : Merge(m))

Spec == Init /\ [][Next]_vars

\* The ETL runs and closes batches, ClickHouse merges.  Faults and clients need not happen.
Fairness ==
  /\ WF_vars(Poll /\ (position' > position \/ pc' # "poll")) /\ WF_vars(PollFatal)
  /\ WF_vars(Load) /\ WF_vars(Commit)
  /\ \A m \in Message : WF_vars(Merge(m))

FairSpec == Spec /\ Fairness

-----------------------------------------------------------------------------
(* Properties *)

TypeOK ==
  /\ month \in Month
  /\ request \in [Request -> [step : {"new", "waiting", "200", "503", "lost"}, month : Month, sent : SUBSET Valid]]
  /\ buffer \cup confirmed \cup failed \subseteq UNION {SentBy(r) : r \in Request}
  /\ buffer \cap (confirmed \cup failed) = {}
  /\ topic \in Seq(Valid \X Month)
  /\ 0 <= committed /\ committed <= position /\ position <= Len(topic)
  /\ batch \subseteq {i \in (committed + 1)..position : topic[i][1] \in Loadable}
  /\ attempt \in 1..MaxAttempts /\ pc \in {"poll", "load", "commit"}
  /\ rows \in [Message -> Nat]
  /\ faults \in 0..MaxFaults

\* An answer of 200 is only given for events that are in the topic.
SuccessIsPublished ==
  \A r \in Request : request[r].step = "200" =>
    \A e \in request[r].sent : \E i \in 1..Len(topic) : topic[i] = <<e, request[r].month>>

\* "Commits only after successful ClickHouse write" (etl-kafka-clickhouse/README.md:17):
\* what the group will not read again has its row, through crashes at every step.
CommittedIsStored ==
  \A i \in 1..committed : topic[i][1] \in Loadable => rows[topic[i]] > 0

\* Every published event that the Transformer accepts ends up with exactly one row in its
\* month, however often it was sent, delivered or inserted, unless an event that ends the
\* process is published too.
PublishedIsStoredOnce ==
  [](\A i \in 1..Len(topic) : topic[i][1] \notin Fatal) =>
    <>[](\A i \in 1..Len(topic) : topic[i][1] \in Loadable => rows[topic[i]] = 1)

-----------------------------------------------------------------------------
(* What the code states and does not keep *)

\* "Transform a batch of raw events, skipping invalid records"
\* (etl-kafka-clickhouse/transformer.py:63): none keeps the others from being stored.
InvalidAreSkipped ==
  <>[](\A i \in 1..Len(topic) : topic[i][1] \in Loadable => rows[topic[i]] > 0)
=============================================================================
