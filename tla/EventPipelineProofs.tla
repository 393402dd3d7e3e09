------------------------- MODULE EventPipelineProofs -------------------------
(***************************************************************************)
(* The safety properties of EventPipeline, proved for any events,          *)
(* requests, sizes of batches and faults.                                  *)
(*                                                                         *)
(* The argument: a confirmed message is in the topic, which only grows;    *)
(* and the rows waiting to be inserted are always those of the messages    *)
(* between the committed offset and the position of the consumer, so that  *)
(* an offset is committed over messages that were inserted or skipped.     *)
(***************************************************************************)
EXTENDS EventPipeline, FiniteSetTheorems, TLAPS

-----------------------------------------------------------------------------
(* The inductive invariant *)

RequestOK ==
  /\ month \in Month
  /\ request \in [Request -> [step : {"new", "waiting", "200", "503", "lost"}, month : Month, sent : SUBSET Valid]]
  /\ \A r \in Request : /\ request[r].step = "new" => request[r].sent = {}
                        /\ request[r].step = "200" => Delivered(r)

ProducerOK ==
  /\ buffer \cup confirmed \cup failed \subseteq Request \X Valid
  /\ \A r \in Request, e \in Valid : <<r, e>> \in buffer \cup confirmed \cup failed => e \in request[r].sent
  /\ buffer \cap (confirmed \cup failed) = {}

TopicOK ==
  /\ topic \in Seq(Valid \X Month)
  /\ \A r \in Request, e \in Valid : <<r, e>> \in confirmed =>
       \E i \in 1..Len(topic) : topic[i] = <<e, request[r].month>>

\* What the consumer has read and not committed is what it is about to insert.
BatchOK ==
  /\ committed \in Nat /\ position \in Nat
  /\ committed <= position /\ position <= Len(topic)
  /\ batch = {i \in (committed + 1)..position : topic[i][1] \in Loadable}

StoreOK ==
  /\ attempt \in 1..MaxAttempts /\ pc \in {"poll", "load", "commit"}
  /\ rows \in [Message -> Nat]
  /\ CommittedIsStored
  /\ pc = "commit" => \A i \in batch : rows[topic[i]] > 0

FaultsOK == faults \in 0..MaxFaults

EInv == RequestOK /\ ProducerOK /\ TopicOK /\ BatchOK /\ StoreOK /\ FaultsOK

-----------------------------------------------------------------------------
(* Lemmas about the state *)

LEMMA FaultCounted ==
  ASSUME FaultsOK, Fault \/ UNCHANGED faults
  PROVE  FaultsOK'
BY SizeAssumption DEF FaultsOK, Fault

LEMMA DeliveredMeans ==
  ASSUME NEW r
  PROVE  Delivered(r) <=> \A e \in request[r].sent : <<r, e>> \in confirmed
BY DEF Delivered, SentBy

\* What a request sent, and when, stays as it is once it has been taken in.
LEMMA TopicStays ==
  ASSUME TopicOK, UNCHANGED <<topic, confirmed>>,
         \A r \in Request, e \in Valid : <<r, e>> \in confirmed => request'[r].month = request[r].month
  PROVE  TopicOK'
BY DEF TopicOK

LEMMA EtlStays ==
  ASSUME BatchOK, StoreOK, UNCHANGED <<topic, etlVars>>
  PROVE  BatchOK' /\ StoreOK'
BY DEF BatchOK, StoreOK, CommittedIsStored, etlVars

LEMMA IngestStays ==
  ASSUME RequestOK, ProducerOK, TopicOK, UNCHANGED <<topic, ingestVars>>
  PROVE  RequestOK' /\ ProducerOK' /\ TopicOK'
<1>1. UNCHANGED <<month, request, buffer, confirmed, failed, topic>>
  BY DEF ingestVars
<1>2. \A r : Delivered(r)' = Delivered(r)
  BY <1>1 DEF Delivered, SentBy
<1>3. RequestOK'
  BY <1>1, <1>2 DEF RequestOK
<1> QED BY <1>1, <1>3 DEF ProducerOK, TopicOK

LEMMA TopicGrows ==
  ASSUME topic \in Seq(Valid \X Month), NEW x \in Valid \X Month, topic' = Append(topic, x)
  PROVE  /\ topic' \in Seq(Valid \X Month) /\ Len(topic) \in Nat /\ Len(topic') = Len(topic) + 1
         /\ \A i \in 1..Len(topic) : topic'[i] = topic[i]
         /\ topic'[Len(topic) + 1] = x
  OBVIOUS

-----------------------------------------------------------------------------
(* The steps of process_event_batch *)

LEMMA ReceiveInv ==
  ASSUME EInv, NEW r \in Request, NEW events \in SUBSET Event, Receive(r, events)
  PROVE  EInv'
<1>1. PICK sent \in SUBSET Valid :
        /\ request' = [request EXCEPT ![r] = [step |-> "waiting", month |-> month, sent |-> sent]]
        /\ buffer' = buffer \cup ({r} \X sent)
        /\ faults' = faults \/ Fault
  <2>1. PICK refused \in {{}} \cup (IF faults < MaxFaults THEN {{e} : e \in Accepted(events)} ELSE {}) :
          /\ faults' = IF refused = {} THEN faults ELSE faults + 1
          /\ request' = [request EXCEPT ![r] = [step |-> "waiting", month |-> month,
                                                sent |-> Accepted(events) \ refused]]
          /\ buffer' = buffer \cup ({r} \X (Accepted(events) \ refused))
    BY DEF Receive
  <2>2. Accepted(events) \ refused \in SUBSET Valid
    BY DEF Accepted
  <2>3. faults' = faults \/ Fault
    BY <2>1 DEF Fault
  <2> QED BY <2>1, <2>2, <2>3
<1>2. request[r].step = "new" /\ UNCHANGED <<month, confirmed, failed, topic, etlVars>>
  BY DEF Receive
<1>3. \A e \in Valid : <<r, e>> \notin buffer \cup confirmed \cup failed
  BY <1>2 DEF EInv, RequestOK, ProducerOK
<1>4. /\ request'[r] = [step |-> "waiting", month |-> month, sent |-> sent]
      /\ \A q \in Request \ {r} : request'[q] = request[q]
  BY <1>1 DEF EInv, RequestOK
<1>5. RequestOK'
  <2>1. ASSUME NEW q \in Request, request'[q].step = "200" PROVE Delivered(q)'
    <3>1. q # r /\ Delivered(q)
      BY <1>4, <2>1 DEF EInv, RequestOK
    <3> QED BY <1>2, <1>4, <3>1, DeliveredMeans DEF Delivered, SentBy
  <2>2. ASSUME NEW q \in Request, request'[q].step = "new" PROVE request'[q].sent = {}
    BY <1>4, <2>2 DEF EInv, RequestOK
  <2>3. month' \in Month /\ request' \in [Request -> [step : {"new", "waiting", "200", "503", "lost"}, month : Month, sent : SUBSET Valid]]
    BY <1>1, <1>2 DEF EInv, RequestOK
  <2> QED BY <2>1, <2>2, <2>3 DEF RequestOK
<1>6. ProducerOK'
  BY <1>1, <1>2, <1>3, <1>4 DEF EInv, ProducerOK
<1>7. TopicOK'
  BY <1>2, <1>3, <1>4, TopicStays DEF EInv
<1>8. BatchOK' /\ StoreOK'
  BY <1>2, EtlStays DEF EInv
<1> QED BY <1>1, <1>5, <1>6, <1>7, <1>8, FaultCounted DEF EInv

LEMMA DeliverInv ==
  ASSUME EInv, NEW r \in Request, NEW e \in Event, Deliver(r, e)
  PROVE  EInv'
<1>1. /\ <<r, e>> \in buffer /\ topic' = Append(topic, <<e, request[r].month>>)
      /\ \/ /\ buffer' = buffer \ {<<r, e>>} /\ confirmed' = confirmed \cup {<<r, e>>}
            /\ UNCHANGED faults
         \/ Fault /\ UNCHANGED <<buffer, confirmed>>
      /\ UNCHANGED <<month, request, failed>>
      /\ UNCHANGED <<committed, position, batch, attempt, pc, rows>>
  BY DEF Deliver, etlVars
<1>2. e \in Valid /\ <<e, request[r].month>> \in Valid \X Month
  BY <1>1 DEF EInv, ProducerOK, RequestOK
<1>3. /\ topic' \in Seq(Valid \X Month) /\ Len(topic) \in Nat /\ Len(topic') = Len(topic) + 1
      /\ \A i \in 1..Len(topic) : topic'[i] = topic[i]
      /\ topic'[Len(topic) + 1] = <<e, request[r].month>>
  BY <1>1, <1>2, TopicGrows DEF EInv, TopicOK
<1>4. RequestOK'
  <2>1. \A q \in Request : Delivered(q) => Delivered(q)'
    BY <1>1 DEF Delivered, SentBy
  <2> QED BY <1>1, <2>1 DEF EInv, RequestOK
<1>5. ProducerOK'
  BY <1>1, <1>2 DEF EInv, ProducerOK
<1>6. TopicOK'
  <2>1. ASSUME NEW q \in Request, NEW d \in Valid, <<q, d>> \in confirmed'
        PROVE  \E i \in 1..Len(topic') : topic'[i] = <<d, request[q].month>>
    <3>1. CASE <<q, d>> \in confirmed
      <4>1. PICK i \in 1..Len(topic) : topic[i] = <<d, request[q].month>>
        BY <3>1 DEF EInv, TopicOK
      <4> QED BY <1>3, <4>1
    <3>2. CASE <<q, d>> = <<r, e>>
      BY <1>3, <3>2
    <3> QED BY <1>1, <2>1, <3>1, <3>2
  <2> QED BY <1>1, <1>3, <2>1 DEF TopicOK
<1>7. BatchOK'
  <2>1. \A i \in (committed + 1)..position : topic'[i] = topic[i]
    BY <1>3 DEF EInv, BatchOK
  <2> QED BY <1>1, <1>3, <2>1 DEF EInv, BatchOK
<1>8. StoreOK'
  <2>1. \A i \in 1..committed : topic'[i] = topic[i]
    BY <1>3 DEF EInv, BatchOK
  <2>2. \A i \in batch : topic'[i] = topic[i]
    BY <1>3 DEF EInv, BatchOK
  <2> QED BY <1>1, <2>1, <2>2 DEF EInv, StoreOK, CommittedIsStored
<1> QED BY <1>1, <1>4, <1>5, <1>6, <1>7, <1>8, FaultCounted DEF EInv

LEMMA GiveUpInv ==
  ASSUME EInv, NEW r \in Request, NEW e \in Event, GiveUp(r, e)
  PROVE  EInv'
<1>1. /\ <<r, e>> \in buffer /\ Fault
      /\ buffer' = buffer \ {<<r, e>>} /\ failed' = failed \cup {<<r, e>>}
      /\ UNCHANGED <<month, request, confirmed, topic, etlVars>>
  BY DEF GiveUp
<1>2. RequestOK'
  <2>1. \A q \in Request : Delivered(q) = Delivered(q)'
    BY <1>1 DEF Delivered, SentBy
  <2> QED BY <1>1, <2>1 DEF EInv, RequestOK
<1>3. ProducerOK'
  BY <1>1 DEF EInv, ProducerOK
<1>4. TopicOK'
  BY <1>1, TopicStays DEF EInv
<1> QED BY <1>1, <1>2, <1>3, <1>4, EtlStays, FaultCounted DEF EInv

\* Steps of the requests alone.
LEMMA AnswerInv ==
  ASSUME EInv, UNCHANGED <<month, confirmed, failed, topic, etlVars>>, Fault \/ UNCHANGED faults,
         buffer' \subseteq buffer,
         request' \in [Request -> [step : {"new", "waiting", "200", "503", "lost"}, month : Month, sent : SUBSET Valid]],
         \A r \in Request : /\ request'[r].month = request[r].month
                            /\ request'[r].sent = request[r].sent
                            /\ request'[r].step = "new" => request[r].step = "new"
                            /\ request'[r].step = "200" => request[r].step = "200" \/ Delivered(r)
  PROVE  EInv'
<1>1. RequestOK'
  <2>1. \A r \in Request : Delivered(r) => Delivered(r)'
    BY DEF Delivered, SentBy
  <2> QED BY <2>1 DEF EInv, RequestOK
<1>2. ProducerOK'
  BY DEF EInv, ProducerOK
<1> QED BY <1>1, <1>2, TopicStays, EtlStays, FaultCounted DEF EInv

LEMMA IngestInv ==
  ASSUME EInv, Ingest
  PROVE  EInv'
<1> DEFINE Requests == [Request -> [step : {"new", "waiting", "200", "503", "lost"}, month : Month, sent : SUBSET Valid]]
<1>1. CASE NextMonth
  <2>1. month' \in Month /\ UNCHANGED <<request, buffer, confirmed, failed, topic, etlVars, faults>>
    BY <1>1, SizeAssumption DEF NextMonth, EInv, RequestOK, Month
  <2>2. RequestOK'
    <3>1. \A q \in Request : Delivered(q) = Delivered(q)'
      BY <2>1 DEF Delivered, SentBy
    <3> QED BY <2>1, <3>1 DEF EInv, RequestOK
  <2>3. ProducerOK'
    BY <2>1 DEF EInv, ProducerOK
  <2> QED BY <2>1, <2>2, <2>3, TopicStays, EtlStays, FaultCounted DEF EInv
<1>2. ASSUME NEW r \in Request, AnswerSuccess(r) \/ AnswerFailure(r)
      PROVE  EInv'
  <2>1. PICK answer \in {"200", "503"} : /\ request[r].step = "waiting" /\ EndRequest(r, answer)
                                         /\ answer = "200" => Delivered(r)
    BY <1>2 DEF AnswerSuccess, AnswerFailure
  <2>2. request \in Requests
    BY DEF EInv, RequestOK
  <2>3. request' = [request EXCEPT ![r].step = answer]
    BY <2>1 DEF EndRequest
  <2>4. /\ request' \in Requests
        /\ \A q \in Request \ {r} : request'[q] = request[q]
        /\ request'[r].step = answer /\ request'[r].month = request[r].month
        /\ request'[r].sent = request[r].sent
    BY <2>2, <2>3
  <2>5. UNCHANGED <<month, buffer, confirmed, failed, topic, etlVars, faults>>
    BY <2>1 DEF EndRequest
  <2> HIDE DEF Requests
  <2>6. \A q \in Request : /\ request'[q].month = request[q].month
                           /\ request'[q].sent = request[q].sent
                           /\ request'[q].step = "new" => request[q].step = "new"
                           /\ request'[q].step = "200" => request[q].step = "200" \/ Delivered(q)
    BY <2>1, <2>4
  <2> QED BY <2>4, <2>5, <2>6, AnswerInv DEF Requests
<1>3. CASE IngestCrash
  <2>1. /\ buffer' = {} /\ Fault /\ UNCHANGED <<month, confirmed, failed, topic, etlVars>>
        /\ request' = [r \in Request |-> IF request[r].step = "waiting"
                                         THEN [request[r] EXCEPT !.step = "lost"] ELSE request[r]]
    BY <1>3 DEF IngestCrash
  <2>2. request \in Requests
    BY DEF EInv, RequestOK
  <2>3. \A q \in Request : /\ request'[q] \in [step : {"new", "waiting", "200", "503", "lost"}, month : Month, sent : SUBSET Valid]
                           /\ request'[q].month = request[q].month
                           /\ request'[q].sent = request[q].sent
                           /\ request'[q].step = "new" => request[q].step = "new"
                           /\ request'[q].step = "200" => request[q].step = "200" \/ Delivered(q)
    <3> SUFFICES ASSUME NEW q \in Request
                 PROVE  /\ request'[q] \in [step : {"new", "waiting", "200", "503", "lost"}, month : Month, sent : SUBSET Valid]
                        /\ request'[q].month = request[q].month
                        /\ request'[q].sent = request[q].sent
                        /\ request'[q].step = "new" => request[q].step = "new"
                        /\ request'[q].step = "200" => request[q].step = "200"
      OBVIOUS
    <3>1. request[q] \in [step : {"new", "waiting", "200", "503", "lost"}, month : Month, sent : SUBSET Valid]
      BY <2>2
    <3>2. request'[q] = IF request[q].step = "waiting" THEN [request[q] EXCEPT !.step = "lost"] ELSE request[q]
      BY <2>1
    <3> QED BY <3>1, <3>2
  <2>4. request' \in Requests
    BY <2>1, <2>3
  <2> QED BY <2>1, <2>3, <2>4, AnswerInv
<1> QED BY <1>1, <1>2, <1>3, ReceiveInv, DeliverInv, GiveUpInv DEF Ingest

-----------------------------------------------------------------------------
(* The steps of etl-kafka-clickhouse *)

\* An insert, complete or repeated, takes no row away and has one for every message of
\* the batch.
LEMMA InsertedOK ==
  ASSUME EInv
  PROVE  /\ Inserted \in [Message -> Nat]
         /\ \A m \in Message : rows[m] > 0 => Inserted[m] > 0
         /\ \A i \in batch : topic[i] \in Message /\ Inserted[topic[i]] > 0
<1> DEFINE same(m) == {i \in batch : topic[i] = m}
<1>1. \A m : IsFiniteSet(same(m)) /\ Cardinality(same(m)) \in Nat
  <2>1. IsFiniteSet(1..position)
    BY FS_Interval DEF EInv, BatchOK
  <2>2. \A m : same(m) \subseteq 1..position
    BY DEF EInv, BatchOK
  <2> QED BY <2>1, <2>2, FS_Subset, FS_CardinalityType
<1>2. \A m : same(m) # {} => Cardinality(same(m)) > 0
  BY <1>1, FS_EmptySet
<1>3. \A i \in batch : i \in 1..Len(topic) /\ topic[i] \in Message
  BY EventAssumption DEF EInv, BatchOK, TopicOK, Message
<1>4. \A m \in Message : rows[m] \in Nat /\ Inserted[m] = rows[m] + Cardinality(same(m))
  BY DEF EInv, StoreOK, Inserted
<1>5. \A i \in batch : i \in same(topic[i])
  OBVIOUS
<1> HIDE DEF same
<1>6. \A m \in Message : Inserted[m] \in Nat /\ (rows[m] > 0 => Inserted[m] > 0) /\ (same(m) # {} => Inserted[m] > 0)
  BY <1>1, <1>2, <1>4
<1>7. Inserted \in [Message -> Nat]
  BY <1>6 DEF Inserted
<1> QED BY <1>3, <1>5, <1>6, <1>7

LEMMA RestartInv ==
  ASSUME EInv, Restart, Fault \/ UNCHANGED faults
  PROVE  EInv'
<1>1. /\ position' = committed /\ batch' = {} /\ attempt' = 1 /\ pc' = "poll"
      /\ UNCHANGED <<ingestVars, topic, committed, rows>>
  BY DEF Restart
<1>2. BatchOK'
  BY <1>1 DEF EInv, BatchOK
<1>3. StoreOK'
  BY <1>1, SizeAssumption DEF EInv, StoreOK, CommittedIsStored
<1> QED BY <1>1, <1>2, <1>3, IngestStays, FaultCounted DEF EInv

LEMMA PollInv ==
  ASSUME EInv, Poll
  PROVE  EInv'
<1>1. PICK n \in 0..MaxPoll :
        /\ position + n <= Len(topic)
        /\ position' = position + n
        /\ batch' = batch \cup {i \in (position + 1)..(position + n) : topic[i][1] \in Loadable}
        /\ Close(batch', position + n)
  BY DEF Poll, Transform
<1>2. UNCHANGED <<ingestVars, topic, committed, attempt, rows, faults>>
  BY DEF Poll
<1>3. n \in Nat
  BY SizeAssumption
<1>4. BatchOK'
  <2>1. \A i : i \in (committed + 1)..(position + n) <=>
               i \in (committed + 1)..position \/ i \in (position + 1)..(position + n)
    BY <1>3 DEF EInv, BatchOK
  <2> QED BY <1>1, <1>2, <1>3, <2>1 DEF EInv, BatchOK
<1>5. pc' \in {"poll", "load", "commit"} /\ (pc' = "commit" => batch' = {})
  BY <1>1 DEF Close
<1>6. StoreOK'
  BY <1>2, <1>5 DEF EInv, StoreOK, CommittedIsStored
<1> QED BY <1>2, <1>4, <1>6, IngestStays, FaultCounted DEF EInv

\* Steps that insert rows, none or all of them.
LEMMA InsertInv ==
  ASSUME EInv, rows' \in {rows, Inserted}, pc' = pc \/ (pc' = "commit" /\ rows' = Inserted),
         pc = "load", attempt' \in 1..MaxAttempts,
         UNCHANGED <<ingestVars, topic, committed, position, batch>>, Fault \/ UNCHANGED faults
  PROVE  EInv'
<1>1. /\ rows' \in [Message -> Nat]
      /\ \A m \in Message : rows[m] > 0 => rows'[m] > 0
      /\ pc' = "commit" => \A i \in batch : rows'[topic[i]] > 0
  BY InsertedOK DEF EInv, StoreOK
<1>2. \A i \in 1..committed : topic[i] \in Message
  BY EventAssumption DEF EInv, TopicOK, BatchOK, Message
<1>3. StoreOK'
  BY <1>1, <1>2 DEF EInv, StoreOK, CommittedIsStored
<1>4. BatchOK'
  BY DEF EInv, BatchOK
<1> QED BY <1>3, <1>4, IngestStays, FaultCounted DEF EInv

LEMMA CommitInv ==
  ASSUME EInv, Commit
  PROVE  EInv'
<1>1. /\ pc = "commit" /\ committed' = position
      /\ batch' = {} /\ attempt' = 1 /\ pc' = "poll"
      /\ UNCHANGED <<ingestVars, topic, position, rows, faults>>
  BY DEF Commit
<1>2. BatchOK'
  BY <1>1 DEF EInv, BatchOK
<1>3. ASSUME NEW i \in 1..position, topic[i][1] \in Loadable
      PROVE  rows[topic[i]] > 0
  <2>1. i \in 1..committed \/ i \in batch
    BY <1>3 DEF EInv, BatchOK
  <2> QED BY <1>1, <1>3, <2>1 DEF EInv, StoreOK, CommittedIsStored
<1>4. StoreOK'
  BY <1>1, <1>3, SizeAssumption DEF EInv, StoreOK, CommittedIsStored
<1> QED BY <1>1, <1>2, <1>4, IngestStays, FaultCounted DEF EInv

LEMMA MergeInv ==
  ASSUME EInv, NEW m \in Message, Merge(m)
  PROVE  EInv'
<1>1. /\ rows' = [rows EXCEPT ![m] = 1]
      /\ UNCHANGED <<ingestVars, topic, committed, position, batch, attempt, pc, faults>>
  BY DEF Merge
<1>2. rows' \in [Message -> Nat] /\ \A x \in Message : rows[x] > 0 => rows'[x] > 0
  BY <1>1 DEF EInv, StoreOK
<1>3. /\ \A i \in 1..committed : topic[i] \in Message
      /\ \A i \in batch : topic[i] \in Message
  BY EventAssumption DEF EInv, TopicOK, BatchOK, Message
<1>4. StoreOK'
  BY <1>1, <1>2, <1>3 DEF EInv, StoreOK, CommittedIsStored
<1>5. BatchOK'
  BY <1>1 DEF EInv, BatchOK
<1> QED BY <1>1, <1>4, <1>5, IngestStays, FaultCounted DEF EInv

LEMMA EtlInv ==
  ASSUME EInv, Etl
  PROVE  EInv'
<1>1. CASE PollFatal
  BY <1>1, RestartInv DEF PollFatal
<1>2. CASE Load
  BY <1>2, InsertInv DEF Load, EInv, StoreOK
<1>3. CASE FailLoad
  <2>1. attempt' \in 1..MaxAttempts
    BY <1>3, SizeAssumption DEF FailLoad, EInv, StoreOK
  <2>2. /\ pc = "load" /\ rows' \in {rows, Inserted}
        /\ UNCHANGED <<ingestVars, topic, committed, position, batch, pc>>
        /\ Fault \/ UNCHANGED faults
    BY <1>3 DEF FailLoad, Outage
  <2>3. /\ pc' = pc \/ (pc' = "commit" /\ rows' = Inserted)
        /\ UNCHANGED <<ingestVars, topic, committed, position, batch>>
    BY <2>2
  <2> QED BY <2>1, <2>2, <2>3, InsertInv
<1>4. CASE GiveUpLoad
  BY <1>4, RestartInv DEF GiveUpLoad, Outage
<1>5. CASE EtlCrash
  BY <1>5, RestartInv DEF EtlCrash
<1> QED BY <1>1, <1>2, <1>3, <1>4, <1>5, PollInv, CommitInv DEF Etl

-----------------------------------------------------------------------------
(* The theorems *)

LEMMA InitInv ==
  ASSUME Init
  PROVE  EInv
<1>1. RequestOK
  BY SizeAssumption DEF Init, RequestOK, Month
<1>2. ProducerOK /\ TopicOK
  BY DEF Init, ProducerOK, TopicOK
<1>3. BatchOK /\ StoreOK /\ FaultsOK
  BY SizeAssumption DEF Init, BatchOK, StoreOK, FaultsOK, CommittedIsStored
<1> QED BY <1>1, <1>2, <1>3 DEF EInv

LEMMA NextInv ==
  ASSUME EInv, [Next]_vars
  PROVE  EInv'
<1>1. CASE UNCHANGED vars
  BY <1>1, IngestStays, EtlStays, FaultCounted DEF vars, ingestVars, etlVars, EInv
<1> QED BY <1>1, IngestInv, EtlInv, MergeInv DEF Next

LEMMA Invariance == Spec => []EInv
<1>1. EInv /\ [Next]_vars => EInv'
  BY NextInv
<1>2. Init => EInv
  BY InitInv
<1> QED BY <1>1, <1>2, PTL DEF Spec

\* The variables keep their shape; a message is never both on its way and done with, and
\* what waits to be inserted lies between the committed offset and the position.
THEOREM TypeCorrect == Spec => []TypeOK
<1>1. EInv => TypeOK
  <2> SUFFICES ASSUME EInv PROVE TypeOK
    OBVIOUS
  <2>1. buffer \cup confirmed \cup failed \subseteq UNION {SentBy(r) : r \in Request}
    <3> SUFFICES ASSUME NEW r \in Request, NEW e \in Valid, <<r, e>> \in buffer \cup confirmed \cup failed
                 PROVE  <<r, e>> \in SentBy(r)
      BY DEF EInv, ProducerOK
    <3> QED BY DEF EInv, ProducerOK, SentBy
  <2> QED BY <2>1 DEF EInv, RequestOK, ProducerOK, TopicOK, BatchOK, StoreOK, FaultsOK, TypeOK
<1> QED BY <1>1, Invariance, PTL

\* An answer of 200 is only given for events that are in the topic, whatever answers of
\* the broker were lost and messages sent again.
THEOREM SuccessPublished == Spec => []SuccessIsPublished
<1>1. EInv => SuccessIsPublished
  <2> SUFFICES ASSUME EInv, NEW r \in Request, request[r].step = "200", NEW e \in request[r].sent
               PROVE  \E i \in 1..Len(topic) : topic[i] = <<e, request[r].month>>
    BY DEF SuccessIsPublished
  <2>1. <<r, e>> \in confirmed /\ e \in Valid
    BY DeliveredMeans DEF EInv, RequestOK
  <2> QED BY <2>1 DEF EInv, TopicOK
<1> QED BY <1>1, Invariance, PTL

\* "Commits only after successful ClickHouse write": through crashes at every step, what
\* the consumer group will not read again has its row.
THEOREM CommittedStored == Spec => []CommittedIsStored
<1>1. EInv => CommittedIsStored
  BY DEF EInv, StoreOK
<1> QED BY <1>1, Invariance, PTL
=============================================================================
