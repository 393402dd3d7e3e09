---------------------------- MODULE DeliveryProofs ----------------------------
(***************************************************************************)
(* The safety properties of the delivery worker's two consumers, Delivery  *)
(* and ReviewLiked, proved for any keys, workers, messages, attempts and   *)
(* faults, and that both implement Mailbox.                                *)
(*                                                                         *)
(* The argument: a worker past the reservation holds its key.  Only one    *)
(* worker holds a key, the key's row is PENDING for as long, and until the *)
(* holder is past the send step the key has not been emailed.              *)
(*                                                                         *)
(* For the throttle of ReviewLiked: as long as an author has not slipped,  *)
(* at most one worker is between the check and the throttle of this author *)
(* and an email of today is known to that worker or to Redis.              *)
(*                                                                         *)
(* For the offsets: a worker that has not lost the partition works at the  *)
(* message after the committed offset, and before it commits, the message  *)
(* has a row or a dead letter in this worker's hands.                      *)
(***************************************************************************)
EXTENDS ReviewLiked, TLAPS

Holding == {"template", "notfound", "user", "failed", "send", "record"}

\* Worker w has reserved key k and not yet recorded the outcome.
Holds(w, k) == pc[w] \in Holding /\ KeyOf(w) = k

OneHolder == \A k \in Key : \A v, w \in Worker : Holds(v, k) /\ Holds(w, k) => v = w

\* A held key is PENDING, emailed only when its holder is past the send step, and
\* what the holder was told about the email is true.
HeldKey ==
  \A w \in Worker : pc[w] \in Holding =>
    /\ delivery[KeyOf(w)] = "PENDING"
    /\ pc[w] # "record" => emails[KeyOf(w)] = 0
    /\ pc[w] = "record" /\ job[w].ok => emails[KeyOf(w)] = 1

\* A key without a row was never emailed.
UnreservedNotEmailed == \A k \in Key : delivery[k] = "none" => emails[k] = 0

DInv ==
  /\ TypeOK
  /\ OneHolder
  /\ HeldKey
  /\ UnreservedNotEmailed
  /\ AtMostOneEmail
  /\ SentMeansEmailed

\* Only worker w moves, to the given step with the given local variables.
Moves(w, step, locals) ==
  \A v \in Worker : /\ pc'[v] = IF v = w THEN step ELSE pc[v]
                    /\ job'[v] = IF v = w THEN locals ELSE job[v]

LEMMA WorkingKey ==
  ASSUME TypeOK, NEW w \in Worker, pc[w] # "idle"
  PROVE  KeyOf(w) \in Key /\ job[w].offset \in 1..Len(topic)
  BY DEF TypeOK, KeyOf

\* A step that stores nothing, and neither takes a key nor enters "record", is harmless.
LEMMA QuietStep ==
  ASSUME DInv, TypeOK', NEW w \in Worker, NEW step \in Steps, NEW locals,
         Moves(w, step, locals),
         UNCHANGED <<topic, delivery, emails>>,
         step \in Holding => /\ pc[w] \in Holding /\ step # "record"
                             /\ pc[w] # "record" /\ locals.offset = job[w].offset
  PROVE  DInv'
<1> USE DEF DInv
<1>1. \A v \in Worker : pc'[v] \in Holding =>
        /\ pc[v] \in Holding
        /\ KeyOf(v)' = KeyOf(v)
        /\ pc'[v] = "record" => pc[v] = "record" /\ job'[v].ok = job[v].ok
        /\ pc'[v] # "record" => pc[v] # "record"
  BY DEF Moves, KeyOf, Holding
<1>2. OneHolder'
  BY <1>1 DEF OneHolder, Holds
<1>3. HeldKey'
  BY <1>1 DEF HeldKey
<1>4. UnreservedNotEmailed' /\ AtMostOneEmail' /\ SentMeansEmailed'
  BY DEF UnreservedNotEmailed, AtMostOneEmail, SentMeansEmailed
<1> QED BY <1>2, <1>3, <1>4

\* The shape TypeOK gives a worker's local variables.
JobType == [offset : Nat, attempt : 1..MaxAttempts, ok : BOOLEAN, revoked : BOOLEAN]

\* What TypeOK has to be shown for when only worker w moves.
LEMMA MovesTyped ==
  ASSUME TypeOK, NEW w \in Worker, NEW step \in Steps, NEW locals \in JobType,
         pc' = [pc EXCEPT ![w] = step],
         job' = [job EXCEPT ![w] = locals],
         UNCHANGED topic,
         step # "idle" => locals.offset \in 1..Len(topic)
  PROVE  /\ pc' \in [Worker -> Steps]
         /\ job' \in [Worker -> JobType]
         /\ \A v \in Worker : pc'[v] # "idle" => job'[v].offset \in 1..Len(topic')
         /\ Moves(w, step, locals)
  BY DEF TypeOK, JobType, Moves

LEMMA InitInv == Init => DInv
<1> SUFFICES ASSUME Init PROVE DInv
  OBVIOUS
<1>1. topic \in Seq(Key) /\ Len(topic) = 0
  BY DEF Init
<1>2. NoJob \in JobType
  BY MaxAttemptsAssumption DEF NoJob, JobType
<1>3. job \in [Worker -> JobType]
  BY <1>2 DEF Init
<1>4. TypeOK
  BY <1>1, <1>3 DEF Init, TypeOK, Steps, JobType
<1> QED
  BY <1>4 DEF Init, DInv, OneHolder, Holds, HeldKey, Holding, UnreservedNotEmailed,
     AtMostOneEmail, SentMeansEmailed, Final

LEMMA ProduceInv ==
  ASSUME DInv, NEW k \in Key, Produce(k)
  PROVE  DInv'
<1> USE DEF DInv
<1>1. /\ topic' \in Seq(Key)
      /\ Len(topic') = Len(topic) + 1
      /\ \A i \in 1..Len(topic) : topic'[i] = topic[i]
  BY DEF Produce, TypeOK
<1>2. Len(topic) \in Nat
  BY DEF TypeOK
<1>3. TypeOK'
  BY <1>1, <1>2 DEF Produce, TypeOK, dlqVars
<1>4. \A v \in Worker : pc[v] \in Holding => KeyOf(v)' = KeyOf(v)
  BY <1>1, WorkingKey DEF Produce, KeyOf, Holding
<1> QED
  BY <1>3, <1>4 DEF Produce, OneHolder, Holds, HeldKey, UnreservedNotEmailed,
     AtMostOneEmail, SentMeansEmailed

LEMMA FetchInv ==
  ASSUME DInv, NEW w \in Worker, Fetch(w)
  PROVE  DInv'
<1> DEFINE locals == [NoJob EXCEPT !.offset = committed + 1]
<1> USE DEF DInv
<1>0. committed \in Nat /\ Len(topic) \in Nat /\ committed < Len(topic)
  BY DEF Fetch, TypeOK
<1>1. locals \in JobType /\ locals.offset \in 1..Len(topic)
  <2>1. NoJob \in JobType
    BY MaxAttemptsAssumption DEF NoJob, JobType
  <2> QED
    BY <1>0, <2>1 DEF JobType
<1>2. /\ pc' = [pc EXCEPT ![w] = "reserve"]
      /\ job' = [job EXCEPT ![w] = locals]
      /\ UNCHANGED topic
  BY DEF Fetch, Goto, kafkaVars
<1>3. /\ pc' \in [Worker -> Steps]
      /\ job' \in [Worker -> JobType]
      /\ \A v \in Worker : pc'[v] # "idle" => job'[v].offset \in 1..Len(topic')
      /\ Moves(w, "reserve", locals)
  <2>1. "reserve" \in Steps
    BY DEF Steps
  <2> HIDE DEF locals
  <2> QED BY <1>1, <1>2, <2>1, MovesTyped
<1>4. TypeOK'
  BY <1>3 DEF Fetch, TypeOK, JobType, kafkaVars, dlqVars
<1> QED
  BY <1>3, <1>4, QuietStep DEF Fetch, kafkaVars, Steps, Holding

LEMMA CommitInv ==
  ASSUME DInv, NEW w \in Worker, Commit(w)
  PROVE  DInv'
<1> USE DEF DInv
<1>1. NoJob \in JobType
  BY MaxAttemptsAssumption DEF NoJob, JobType
<1>2. /\ pc' \in [Worker -> Steps]
      /\ job' \in [Worker -> JobType]
      /\ \A v \in Worker : pc'[v] # "idle" => job'[v].offset \in 1..Len(topic')
      /\ Moves(w, "idle", NoJob)
  BY <1>1, MovesTyped DEF Commit, Goto, Steps
<1>3. committed' \in 0..Len(topic)
  BY WorkingKey DEF Commit, TypeOK
<1>4. TypeOK'
  BY <1>2, <1>3 DEF Commit, TypeOK, JobType, dlqVars
<1> QED
  BY <1>2, <1>4, QuietStep DEF Commit, Steps, Holding

\* Steps that change at most the worker's step, its attempt counter and the dead letters.
LEMMA QuietKeepsInv ==
  ASSUME DInv, NEW w \in Worker, NEW step \in Steps, NEW locals \in JobType,
         pc[w] # "idle",
         pc' = [pc EXCEPT ![w] = step],
         job' = [job EXCEPT ![w] = locals],
         locals.offset = job[w].offset,
         dlqBuffer' \in [Worker -> SUBSET Key],
         UNCHANGED <<kafkaVars, delivery, emails, dlq>>,
         step \in Holding => pc[w] \in Holding /\ step # "record" /\ pc[w] # "record"
  PROVE  DInv'
<1> USE DEF DInv
<1>1. UNCHANGED <<topic, committed, owner>>
  BY DEF kafkaVars
<1>2. job[w].offset \in 1..Len(topic)
  BY WorkingKey
<1>3. /\ pc' \in [Worker -> Steps]
      /\ job' \in [Worker -> JobType]
      /\ \A v \in Worker : pc'[v] # "idle" => job'[v].offset \in 1..Len(topic')
      /\ Moves(w, step, locals)
  BY <1>1, <1>2, MovesTyped
<1>4. TypeOK'
  BY <1>1, <1>3 DEF TypeOK, JobType
<1> QED
  BY <1>1, <1>3, <1>4, QuietStep

LEMMA PublishDlqInv ==
  ASSUME DInv, NEW w \in Worker, PublishDlq(w)
  PROVE  DInv'
<1> USE DEF DInv
<1>1. job[w] \in JobType /\ KeyOf(w) \in Key
  BY WorkingKey DEF PublishDlq, TypeOK, JobType
<1>2. dlqBuffer' \in [Worker -> SUBSET Key]
  BY <1>1 DEF PublishDlq, TypeOK
<1>3. job' = [job EXCEPT ![w] = job[w]]
  BY DEF PublishDlq, TypeOK
<1> QED
  BY <1>1, <1>2, <1>3, QuietKeepsInv DEF PublishDlq, Goto, Steps, Holding

LEMMA FlushDlqInv ==
  ASSUME DInv, NEW w \in Worker, FlushDlq(w)
  PROVE  DInv'
<1> USE DEF DInv
<1>1. TypeOK'
  BY DEF FlushDlq, TypeOK, kafkaVars
<1> QED
  BY <1>1 DEF FlushDlq, OneHolder, Holds, KeyOf, HeldKey, UnreservedNotEmailed,
     AtMostOneEmail, SentMeansEmailed, kafkaVars

\* An exception only sends the worker back to the start or to the dead letters.
LEMMA RaiseJobs ==
  ASSUME TypeOK, NEW w \in Worker
  PROVE  /\ RaiseRetryable(w) => \E locals \in JobType :
              /\ pc' = [pc EXCEPT ![w] = AfterRetryable(w)]
              /\ job' = [job EXCEPT ![w] = locals]
              /\ locals.offset = job[w].offset
         /\ RaiseInvalid(w) =>
              /\ pc' = [pc EXCEPT ![w] = "dlq"]
              /\ job' = job
         /\ AfterRetryable(w) \in {"reserve", "dlq"}
<1> DEFINE locals == IF job[w].attempt < MaxAttempts
                       THEN [job[w] EXCEPT !.attempt = @ + 1] ELSE job[w]
<1>1. job[w] \in JobType
  BY DEF TypeOK, JobType
<1>2. locals \in JobType /\ locals.offset = job[w].offset
  BY <1>1, MaxAttemptsAssumption DEF JobType
<1>3. ASSUME RaiseRetryable(w)
      PROVE  job' = [job EXCEPT ![w] = locals] /\ pc' = [pc EXCEPT ![w] = AfterRetryable(w)]
  BY <1>3 DEF RaiseRetryable, Goto, TypeOK
<1> QED
  BY <1>2, <1>3 DEF RaiseInvalid, AfterRetryable, Goto

\* A failed step that stored nothing.
LEMMA RaiseInv ==
  ASSUME DInv, NEW w \in Worker, pc[w] # "idle",
         UNCHANGED <<kafkaVars, delivery, emails, dlqVars>>,
         RaiseRetryable(w) \/ RaiseInvalid(w)
  PROVE  DInv'
<1> USE DEF DInv
<1>1. dlqBuffer' \in [Worker -> SUBSET Key] /\ UNCHANGED <<kafkaVars, delivery, emails, dlq>>
  BY DEF TypeOK, dlqVars
<1>2. CASE RaiseRetryable(w)
  <2>1. PICK locals \in JobType : /\ pc' = [pc EXCEPT ![w] = AfterRetryable(w)]
                                  /\ job' = [job EXCEPT ![w] = locals]
                                  /\ locals.offset = job[w].offset
    BY <1>2, RaiseJobs
  <2>2. AfterRetryable(w) \in Steps /\ AfterRetryable(w) \notin Holding
    BY RaiseJobs DEF Steps, Holding
  <2> QED
    BY <1>1, <2>1, <2>2, QuietKeepsInv
<1>3. CASE RaiseInvalid(w)
  <2>1. job[w] \in JobType /\ job' = [job EXCEPT ![w] = job[w]]
    BY <1>3, RaiseJobs DEF TypeOK, JobType
  <2> QED
    BY <1>1, <1>3, <2>1, RaiseJobs, QuietKeepsInv DEF Steps, Holding
<1> QED BY <1>2, <1>3

\* A step of w's own that stores nothing and stays at its message.
LEMMA GoInv ==
  ASSUME DInv, NEW w \in Worker, NEW step \in Steps, pc[w] # "idle",
         Goto(w, step), UNCHANGED <<kafkaVars, job, delivery, emails, dlqVars>>,
         step \in Holding => pc[w] \in Holding /\ step # "record" /\ pc[w] # "record"
  PROVE  DInv'
<1>1. job[w] \in JobType /\ job' = [job EXCEPT ![w] = job[w]]
  BY DEF DInv, TypeOK, JobType
<1>2. dlqBuffer' \in [Worker -> SUBSET Key] /\ UNCHANGED <<kafkaVars, delivery, emails, dlq>>
  BY DEF DInv, TypeOK, dlqVars
<1> QED
  BY <1>1, <1>2, QuietKeepsInv DEF Goto

\* Worker w leaves its message with a new status for its row, which it holds.
LEMMA FinishInv ==
  ASSUME DInv, NEW w \in Worker, NEW step \in {"dlq", "commit"}, NEW status \in Final,
         pc[w] \in Holding,
         Goto(w, step), UNCHANGED <<kafkaVars, job, emails, dlqVars>>,
         delivery' = [delivery EXCEPT ![KeyOf(w)] = status],
         status = "SENT" => emails[KeyOf(w)] = 1
  PROVE  DInv'
<1> USE DEF DInv
<1>1. KeyOf(w) \in Key /\ job[w].offset \in 1..Len(topic)
  BY WorkingKey DEF Holding
<1>2. /\ pc' \in [Worker -> Steps]
      /\ \A v \in Worker : pc'[v] = IF v = w THEN step ELSE pc[v]
  BY DEF Goto, TypeOK, Steps
<1>3. TypeOK'
  BY <1>1, <1>2 DEF TypeOK, Final, kafkaVars, dlqVars
<1>4. \A v \in Worker : pc'[v] \in Holding => v # w /\ pc[v] \in Holding /\ KeyOf(v)' = KeyOf(v)
  BY <1>2 DEF Holding, KeyOf, kafkaVars
<1>5. OneHolder'
  BY <1>2, <1>4 DEF OneHolder, Holds
<1>6. \A v \in Worker : pc'[v] \in Holding => KeyOf(v) # KeyOf(w)
  BY <1>1, <1>4 DEF OneHolder, Holds
<1>7. HeldKey'
  BY <1>1, <1>2, <1>4, <1>6 DEF HeldKey, TypeOK
<1>8. UnreservedNotEmailed' /\ AtMostOneEmail' /\ SentMeansEmailed'
  BY <1>1 DEF UnreservedNotEmailed, AtMostOneEmail, SentMeansEmailed, Final, TypeOK
<1> QED BY <1>3, <1>5, <1>7, <1>8


LEMMA ReserveInv ==
  ASSUME DInv, NEW w \in Worker, Reserve(w)
  PROVE  DInv'
<1> USE DEF DInv
<1> DEFINE k == KeyOf(w)
<1>1. k \in Key /\ pc[w] = "reserve"
  BY WorkingKey DEF Reserve
<1>2. CASE KeyFree(k)
  <2>1. /\ delivery' = [delivery EXCEPT ![k] = "PENDING"]
        /\ delivery[k] = "none"
        /\ emails[k] = 0
        /\ pc' = [pc EXCEPT ![w] = "template"]
        /\ UNCHANGED <<topic, committed, owner, job, emails, dlqBuffer, dlq>>
    BY <1>1, <1>2 DEF Reserve, KeyFree, Goto, UnreservedNotEmailed, kafkaVars, dlqVars
  <2>2. TypeOK'
    BY <1>1, <2>1 DEF TypeOK, Steps
  <2>3. \A v \in Worker : /\ pc'[v] = IF v = w THEN "template" ELSE pc[v]
                          /\ KeyOf(v)' = KeyOf(v)
    BY <2>1 DEF TypeOK, KeyOf
  <2>4. \A v \in Worker : pc[v] \in Holding => KeyOf(v) # k
    BY <1>1, <2>1 DEF HeldKey
  <2>5. OneHolder'
    BY <1>1, <2>3, <2>4 DEF OneHolder, Holds
  <2>6. HeldKey'
    BY <1>1, <2>1, <2>3, <2>4 DEF HeldKey, TypeOK, Holding
  <2>7. UnreservedNotEmailed' /\ AtMostOneEmail' /\ SentMeansEmailed'
    BY <1>1, <2>1 DEF UnreservedNotEmailed, AtMostOneEmail, SentMeansEmailed, TypeOK
  <2> QED BY <2>2, <2>5, <2>6, <2>7
<1>3. CASE ~KeyFree(k)
  BY <1>1, <1>3, GoInv DEF Reserve, Steps, Holding
<1> QED BY <1>2, <1>3

LEMMA ReserveRaisesInv ==
  ASSUME DInv, NEW w \in Worker, ReserveRaises(w)
  PROVE  DInv'
<1> USE DEF DInv
<1> DEFINE k == KeyOf(w)
<1>1. k \in Key /\ pc[w] = "reserve"
  BY WorkingKey DEF ReserveRaises
<1>2. CASE UNCHANGED delivery
  BY <1>1, <1>2, RaiseInv DEF ReserveRaises
<1>3. CASE /\ delivery[k] = "none"
           /\ delivery' = [delivery EXCEPT ![k] = "PENDING"]
  <2>1. PICK locals \in JobType : /\ pc' = [pc EXCEPT ![w] = AfterRetryable(w)]
                                  /\ job' = [job EXCEPT ![w] = locals]
                                  /\ locals.offset = job[w].offset
    BY RaiseJobs DEF ReserveRaises
  <2>2. AfterRetryable(w) \in Steps /\ AfterRetryable(w) \notin Holding
    BY RaiseJobs DEF Steps, Holding
  <2>3. UNCHANGED <<topic, committed, owner, emails, dlqBuffer, dlq>>
    BY DEF ReserveRaises, kafkaVars, dlqVars
  <2>4. job[w].offset \in 1..Len(topic)
    BY <1>1, WorkingKey
  <2>5. /\ pc' \in [Worker -> Steps]
        /\ job' \in [Worker -> JobType]
        /\ \A v \in Worker : pc'[v] # "idle" => job'[v].offset \in 1..Len(topic')
        /\ Moves(w, AfterRetryable(w), locals)
    BY <2>1, <2>2, <2>3, <2>4, MovesTyped
  <2>6. TypeOK'
    BY <1>1, <1>3, <2>3, <2>5 DEF TypeOK, JobType
  <2>7. \A v \in Worker : pc'[v] \in Holding =>
          /\ v # w /\ pc'[v] = pc[v] /\ job'[v] = job[v] /\ KeyOf(v)' = KeyOf(v)
          /\ KeyOf(v) # k
    BY <1>1, <1>3, <2>2, <2>3, <2>5 DEF Moves, KeyOf, HeldKey
  <2>8. OneHolder'
    BY <2>7 DEF OneHolder, Holds
  <2>9. HeldKey'
    BY <1>1, <1>3, <2>3, <2>7 DEF HeldKey, TypeOK
  <2>10. UnreservedNotEmailed' /\ AtMostOneEmail' /\ SentMeansEmailed'
    BY <1>1, <1>3, <2>3 DEF UnreservedNotEmailed, AtMostOneEmail, SentMeansEmailed, TypeOK
  <2> QED BY <2>6, <2>8, <2>9, <2>10
<1> QED BY <1>2, <1>3 DEF ReserveRaises

LEMMA LoadTemplateInv ==
  ASSUME DInv, NEW w \in Worker, LoadTemplate(w)
  PROVE  DInv'
<1>1. pc[w] = "template" /\ UNCHANGED <<kafkaVars, delivery, emails, dlqVars>>
  BY DEF LoadTemplate
<1>2. CASE (Goto(w, "user") \/ Goto(w, "notfound")) /\ UNCHANGED job
  BY <1>1, <1>2, GoInv DEF Steps, Holding
<1>3. CASE RaiseInvalid(w) \/ RaiseRetryable(w)
  BY <1>1, <1>3, RaiseInv
<1> QED BY <1>2, <1>3 DEF LoadTemplate

LEMMA FetchUserInv ==
  ASSUME DInv, NEW w \in Worker, FetchUser(w)
  PROVE  DInv'
<1>1. pc[w] = "user" /\ UNCHANGED <<kafkaVars, delivery, emails, dlqVars>>
  BY DEF FetchUser
<1>2. CASE (Goto(w, "send") \/ Goto(w, "failed")) /\ UNCHANGED job
  BY <1>1, <1>2, GoInv DEF Steps, Holding
<1>3. CASE RaiseInvalid(w) \/ RaiseRetryable(w)
  BY <1>1, <1>3, RaiseInv
<1> QED BY <1>2, <1>3 DEF FetchUser

LEMMA FailTemplateInv ==
  ASSUME DInv, NEW w \in Worker, FailTemplate(w)
  PROVE  DInv'
<1>1. pc[w] = "notfound" /\ UNCHANGED <<kafkaVars, emails, dlqVars>>
  BY DEF FailTemplate
<1>2. CASE /\ delivery' = [delivery EXCEPT ![KeyOf(w)] = "FAILED"]
           /\ Goto(w, "dlq")
           /\ UNCHANGED job
  BY <1>1, <1>2, FinishInv DEF Holding, Final
<1>3. CASE RaiseRetryable(w) /\ UNCHANGED delivery
  BY <1>1, <1>3, RaiseInv
<1> QED BY <1>2, <1>3 DEF FailTemplate

LEMMA FailUserInv ==
  ASSUME DInv, NEW w \in Worker, FailUser(w)
  PROVE  DInv'
<1>1. /\ pc[w] = "failed" /\ Goto(w, "dlq")
      /\ UNCHANGED <<kafkaVars, job, emails, dlqVars>>
  BY DEF FailUser
<1>2. CASE delivery' = [delivery EXCEPT ![KeyOf(w)] = "FAILED"]
  BY <1>1, <1>2, FinishInv DEF Holding, Final
<1>3. CASE UNCHANGED delivery
  BY <1>1, <1>3, GoInv DEF Steps, Holding
<1> QED BY <1>2, <1>3 DEF FailUser

LEMMA SendEmailInv ==
  ASSUME DInv, NEW w \in Worker, SendEmail(w)
  PROVE  DInv'
<1> USE DEF DInv
<1> DEFINE k == KeyOf(w)
<1>1. /\ k \in Key /\ pc[w] = "send" /\ emails[k] = 0 /\ delivery[k] = "PENDING"
      /\ UNCHANGED <<topic, committed, owner, delivery, dlqBuffer, dlq>>
  BY WorkingKey DEF SendEmail, HeldKey, Holding, kafkaVars, dlqVars
<1>2. PICK accepted \in BOOLEAN, ok \in BOOLEAN :
        /\ ok => accepted
        /\ emails' = IF accepted THEN [emails EXCEPT ![k] = @ + 1] ELSE emails
        /\ job' = [job EXCEPT ![w].ok = ok]
  BY DEF SendEmail
<1>3. /\ emails' \in [Key -> Nat]
      /\ emails'[k] \in {0, 1} /\ (ok => emails'[k] = 1)
      /\ \A j \in Key : j # k => emails'[j] = emails[j]
  BY <1>1, <1>2 DEF TypeOK
<1>4. /\ job' = [job EXCEPT ![w] = [job[w] EXCEPT !.ok = ok]]
      /\ [job[w] EXCEPT !.ok = ok] \in JobType
      /\ [job[w] EXCEPT !.ok = ok].offset \in 1..Len(topic)
  BY <1>1, <1>2, WorkingKey DEF TypeOK, JobType
<1>5. /\ pc' \in [Worker -> Steps]
      /\ job' \in [Worker -> JobType]
      /\ \A v \in Worker : pc'[v] # "idle" => job'[v].offset \in 1..Len(topic')
      /\ Moves(w, "record", [job[w] EXCEPT !.ok = ok])
  BY <1>1, <1>4, MovesTyped DEF SendEmail, Goto, Steps
<1>6. TypeOK'
  BY <1>1, <1>3, <1>5 DEF TypeOK, JobType
<1>7. \A v \in Worker :
        /\ KeyOf(v)' = KeyOf(v)
        /\ v # w => pc'[v] = pc[v] /\ job'[v] = job[v]
        /\ pc'[v] \in Holding => pc[v] \in Holding
        /\ pc'[v] \in Holding /\ v # w => KeyOf(v) # k
  <2>1. [job[w] EXCEPT !.ok = ok].offset = job[w].offset
    BY DEF TypeOK
  <2>2. \A v \in Worker : /\ v # w => pc'[v] = pc[v] /\ job'[v] = job[v]
                          /\ KeyOf(v)' = KeyOf(v)
                          /\ pc'[v] \in Holding => pc[v] \in Holding
    BY <1>1, <1>5, <2>1 DEF Moves, KeyOf, Holding
  <2> QED
    BY <1>1, <2>2 DEF OneHolder, Holds, Holding
<1>8. OneHolder'
  BY <1>7 DEF OneHolder, Holds
<1>9. pc'[w] = "record" /\ job'[w].ok = ok
  BY <1>5 DEF Moves, TypeOK
<1>10. HeldKey'
  <2> SUFFICES ASSUME NEW v \in Worker, pc'[v] \in Holding
               PROVE  /\ delivery[KeyOf(v)] = "PENDING"
                      /\ pc'[v] # "record" => emails'[KeyOf(v)] = 0
                      /\ pc'[v] = "record" /\ job'[v].ok => emails'[KeyOf(v)] = 1
    BY <1>1, <1>7 DEF HeldKey
  <2>1. CASE v = w
    BY <1>1, <1>3, <1>9, <2>1
  <2>2. CASE v # w
    BY <1>3, <1>6, <1>7, <2>2, WorkingKey DEF HeldKey, Holding
  <2> QED BY <2>1, <2>2
<1>11. UnreservedNotEmailed' /\ SentMeansEmailed'
  BY <1>1, <1>3 DEF UnreservedNotEmailed, SentMeansEmailed
<1>12. AtMostOneEmail'
  BY <1>3 DEF AtMostOneEmail
<1> QED BY <1>6, <1>8, <1>10, <1>11, <1>12

LEMMA RecordDeliveryInv ==
  ASSUME DInv, NEW w \in Worker, RecordDelivery(w)
  PROVE  DInv'
<1>1. pc[w] = "record" /\ UNCHANGED <<kafkaVars, job, emails, dlqVars>>
  BY DEF RecordDelivery
<1>2. /\ RecordedStatus(w) \in Final
      /\ RecordedStatus(w) = "SENT" => emails[KeyOf(w)] = 1
  BY <1>1 DEF RecordedStatus, Final, DInv, HeldKey, Holding
<1>3. CASE /\ delivery' = [delivery EXCEPT ![KeyOf(w)] = RecordedStatus(w)]
           /\ Goto(w, IF RecordedStatus(w) = "SENT" THEN "commit" ELSE "dlq")
  <2>1. (IF RecordedStatus(w) = "SENT" THEN "commit" ELSE "dlq") \in {"dlq", "commit"}
    OBVIOUS
  <2> QED
    BY <1>1, <1>2, <1>3, <2>1, FinishInv DEF Holding
<1>4. CASE Goto(w, "dlq") /\ UNCHANGED delivery
  BY <1>1, <1>4, GoInv DEF Steps, Holding
<1> QED BY <1>3, <1>4 DEF RecordDelivery

LEMMA CrashInv ==
  ASSUME DInv, NEW w \in Worker, Crash(w)
  PROVE  DInv'
<1> USE DEF DInv
<1>1. NoJob \in JobType
  BY MaxAttemptsAssumption DEF NoJob, JobType
<1>2. UNCHANGED <<topic, committed, owner, delivery, emails, dlq>>
  BY DEF Crash, kafkaVars
<1>3. /\ pc' \in [Worker -> Steps]
      /\ job' \in [Worker -> JobType]
      /\ \A v \in Worker : pc'[v] # "idle" => job'[v].offset \in 1..Len(topic')
      /\ Moves(w, "idle", NoJob)
  BY <1>1, <1>2, MovesTyped DEF Crash, Goto, Steps
<1>4. TypeOK'
  BY <1>2, <1>3 DEF Crash, TypeOK, JobType
<1> QED
  BY <1>2, <1>3, <1>4, QuietStep DEF Steps, Holding

LEMMA RebalanceInv ==
  ASSUME DInv, NEW w \in Worker, Rebalance(w)
  PROVE  DInv'
<1> USE DEF DInv
<1>1. /\ owner' \in Worker
      /\ UNCHANGED <<topic, committed, pc, delivery, emails, dlqBuffer, dlq>>
  BY DEF Rebalance, dlqVars
<1>2. /\ job' \in [Worker -> JobType]
      /\ \A v \in Worker : /\ job'[v].offset = job[v].offset
                            /\ job'[v].ok = job[v].ok
  BY DEF Rebalance, TypeOK, JobType
<1>3. TypeOK'
  BY <1>1, <1>2 DEF TypeOK, JobType
<1>4. \A v \in Worker : KeyOf(v)' = KeyOf(v)
  BY <1>1, <1>2 DEF KeyOf
<1> QED
  BY <1>1, <1>2, <1>3, <1>4 DEF OneHolder, Holds, HeldKey, UnreservedNotEmailed,
     AtMostOneEmail, SentMeansEmailed

LEMMA NextInv ==
  ASSUME DInv, [Next]_vars
  PROVE  DInv'
<1>1. CASE \E k \in Key : Produce(k)
  BY <1>1, ProduceInv
<1>2. ASSUME NEW w \in Worker, Step(w)
      PROVE  DInv'
  BY <1>2, FetchInv, CommitInv, PublishDlqInv, ReserveInv, ReserveRaisesInv,
     LoadTemplateInv, FailTemplateInv, FetchUserInv, FailUserInv, SendEmailInv,
     RecordDeliveryInv DEF Step
<1>3. ASSUME NEW w \in Worker, FlushDlq(w) \/ Crash(w) \/ Rebalance(w)
      PROVE  DInv'
  BY <1>3, FlushDlqInv, CrashInv, RebalanceInv
<1>4. CASE UNCHANGED vars
  BY <1>4 DEF vars, kafkaVars, dlqVars, DInv, TypeOK, OneHolder, Holds, KeyOf, HeldKey,
     UnreservedNotEmailed, AtMostOneEmail, SentMeansEmailed
<1> QED BY <1>1, <1>2, <1>3, <1>4 DEF Next

LEMMA DeliveryInvariant == Spec => []DInv
<1>1. DInv /\ [Next]_vars => DInv'
  BY NextInv
<1> QED BY InitInv, <1>1, PTL DEF Spec

\* Every variable keeps its shape, for any number of workers, keys and messages.
THEOREM DeliveryTypeCorrect == Spec => []TypeOK
<1>1. DInv => TypeOK
  BY DEF DInv
<1> QED BY DeliveryInvariant, <1>1, PTL

\* No key is emailed twice, whatever crashes, rebalances, retries and repeated messages
\* come together (reserve_delivery and the order of _handle's steps).
THEOREM NoSecondEmail == Spec => []AtMostOneEmail
<1>1. DInv => AtMostOneEmail
  BY DEF DInv
<1> QED BY DeliveryInvariant, <1>1, PTL

\* A row that says SENT stands for an email the provider accepted.
THEOREM SentIsTrue == Spec => []SentMeansEmailed
<1>1. DInv => SentMeansEmailed
  BY DEF DInv
<1> QED BY DeliveryInvariant, <1>1, PTL

\* A worker that writes the outcome of a key holds it, so its row is still PENDING: a
\* finished row is never written again (finalize_delivery).
THEOREM FinishedStays == Spec => FinishedIsFinal
<1>1. ASSUME DInv, [Next]_vars
      PROVE  \A k \in Key : delivery[k] \in Final => delivery'[k] = delivery[k]
  <2> SUFFICES ASSUME NEW k \in Key, delivery[k] \in Final
               PROVE  delivery'[k] = delivery[k]
    OBVIOUS
  <2>1. \A w \in Worker : pc[w] \in Holding => KeyOf(w) # k
    BY <1>1 DEF DInv, HeldKey, Final
  <2>2. ASSUME NEW w \in Worker, Step(w)
        PROVE  delivery'[k] = delivery[k]
    <3>1. CASE Reserve(w) \/ ReserveRaises(w)
      BY <1>1, <3>1 DEF Reserve, ReserveRaises, KeyFree, Final, DInv, TypeOK
    <3>2. CASE FailTemplate(w) \/ FailUser(w) \/ RecordDelivery(w)
      BY <1>1, <2>1, <3>2 DEF FailTemplate, FailUser, RecordDelivery, Holding, DInv, TypeOK
    <3>3. CASE UNCHANGED delivery
      BY <3>3
    <3> QED
      BY <2>2, <3>1, <3>2, <3>3 DEF Step, Fetch, Commit, PublishDlq, LoadTemplate,
         FetchUser, SendEmail
  <2>3. ASSUME NEW w \in Worker, FlushDlq(w) \/ Crash(w) \/ Rebalance(w)
        PROVE  delivery'[k] = delivery[k]
    BY <2>3 DEF FlushDlq, Crash, Rebalance
  <2> QED
    BY <1>1, <2>2, <2>3 DEF Next, Produce, vars
<1>2. DInv /\ [Next]_vars =>
        [\A k \in Key : delivery[k] \in Final => delivery'[k] = delivery[k]]_vars
  BY <1>1
<1> QED BY DeliveryInvariant, <1>2, PTL DEF Spec, FinishedIsFinal

-----------------------------------------------------------------------------
(* Delivery implements Mailbox *)

LEMMA InitMailbox == Init => Box!Init
<1> SUFFICES ASSUME Init PROVE {topic[i] : i \in DOMAIN topic} = {}
  BY DEF Init, Box!Init
<1> QED BY DEF Init

LEMMA TopicUnchanged ==
  ASSUME UNCHANGED topic
  PROVE  {topic[i] : i \in DOMAIN topic}' = {topic[i] : i \in DOMAIN topic}
  OBVIOUS

LEMMA ProduceMailbox ==
  ASSUME DInv, NEW k \in Key, Produce(k)
  PROVE  Box!Publish({k})
<1>1. /\ topic \in Seq(Key) /\ topic' = Append(topic, k)
      /\ UNCHANGED <<delivery, emails>>
  BY DEF Produce, DInv, TypeOK
<1>2. /\ DOMAIN topic = 1..Len(topic) /\ Len(topic) \in Nat
      /\ DOMAIN (topic') = 1..(Len(topic) + 1)
      /\ \A i \in 1..Len(topic) : topic'[i] = topic[i]
      /\ topic'[Len(topic) + 1] = k
  BY <1>1
<1>3. {topic'[i] : i \in DOMAIN (topic')} = {topic[i] : i \in DOMAIN topic} \cup {k}
  <2>1. \A i \in DOMAIN (topic') : i \in DOMAIN topic \/ i = Len(topic) + 1
    BY <1>2
  <2>2. DOMAIN topic \subseteq DOMAIN (topic') /\ Len(topic) + 1 \in DOMAIN (topic')
    BY <1>2
  <2> QED BY <1>2, <2>1, <2>2
<1> QED BY <1>1, <1>3 DEF Box!Publish

LEMMA ReserveMailbox ==
  ASSUME DInv, NEW w \in Worker, Reserve(w) \/ ReserveRaises(w)
  PROVE  [Box!Next]_(Box!vars)
<1> DEFINE k == KeyOf(w)
<1>1. k \in Key /\ k \in {topic[i] : i \in DOMAIN topic}
  <2>1. k \in Key /\ job[w].offset \in 1..Len(topic)
    BY WorkingKey DEF DInv, Reserve, ReserveRaises
  <2>2. DOMAIN topic = 1..Len(topic)
    BY DEF DInv, TypeOK
  <2> QED BY <2>1, <2>2 DEF KeyOf
<1>2. UNCHANGED <<topic, emails>>
  BY DEF Reserve, ReserveRaises, kafkaVars
<1>3. \/ UNCHANGED delivery
      \/ delivery[k] = "none" /\ delivery' = [delivery EXCEPT ![k] = "PENDING"]
  BY DEF Reserve, ReserveRaises, KeyFree
<1>4. CASE UNCHANGED delivery
  BY <1>2, <1>4, TopicUnchanged DEF Box!vars
<1>5. CASE delivery[k] = "none" /\ delivery' = [delivery EXCEPT ![k] = "PENDING"]
  BY <1>1, <1>2, <1>5, TopicUnchanged DEF Box!Next, Box!Handle, Box!Reserve
<1> QED BY <1>3, <1>4, <1>5

LEMMA SendMailbox ==
  ASSUME DInv, NEW w \in Worker, SendEmail(w)
  PROVE  [Box!Next]_(Box!vars)
<1> DEFINE k == KeyOf(w)
<1>1. k \in Key /\ delivery[k] = "PENDING" /\ emails[k] = 0
  BY WorkingKey DEF DInv, SendEmail, HeldKey, Holding
<1>2. UNCHANGED <<topic, delivery>>
  BY DEF SendEmail, kafkaVars
<1>3. UNCHANGED emails \/ emails' = [emails EXCEPT ![k] = 1]
  <2>1. UNCHANGED emails \/ emails' = [emails EXCEPT ![k] = @ + 1]
    BY DEF SendEmail
  <2> QED BY <1>1, <2>1
<1> QED
  BY <1>1, <1>2, <1>3, TopicUnchanged DEF Box!Next, Box!Handle, Box!Email, Box!vars

LEMMA FinishMailbox ==
  ASSUME DInv, NEW w \in Worker, FailTemplate(w) \/ FailUser(w) \/ RecordDelivery(w)
  PROVE  [Box!Next]_(Box!vars)
<1> DEFINE k == KeyOf(w)
<1>1. k \in Key /\ delivery[k] = "PENDING"
  BY WorkingKey DEF DInv, FailTemplate, FailUser, RecordDelivery, HeldKey, Holding
<1>2. UNCHANGED <<topic, emails>>
  BY DEF FailTemplate, FailUser, RecordDelivery, kafkaVars
<1>3. \/ UNCHANGED delivery
      \/ delivery' = [delivery EXCEPT ![k] = "FAILED"]
      \/ emails[k] = 1 /\ delivery' = [delivery EXCEPT ![k] = "SENT"]
  BY DEF FailTemplate, FailUser, RecordDelivery, RecordedStatus, DInv, HeldKey, Holding
<1> QED
  BY <1>1, <1>2, <1>3, TopicUnchanged DEF Box!Next, Box!Handle, Box!Finish, Box!vars

\* Every step of the workers, their retries, crashes and rebalances is a step of the
\* mailbox or invisible to its users.
THEOREM DeliveryIsMailbox == Spec => ImplementsMailbox
<1>1. DInv /\ [Next]_vars => [Box!Next]_(Box!vars)
  <2> SUFFICES ASSUME DInv, [Next]_vars PROVE [Box!Next]_(Box!vars)
    OBVIOUS
  <2>1. CASE \E k \in Key : Produce(k)
    <3>1. PICK k \in Key : Produce(k)
      BY <2>1
    <3>2. Box!Publish({k}) /\ {k} \in SUBSET Key
      BY <3>1, ProduceMailbox
    <3> QED BY <3>2 DEF Box!Next
  <2>2. ASSUME NEW w \in Worker, Step(w)
        PROVE  [Box!Next]_(Box!vars)
    <3>1. CASE Fetch(w) \/ Commit(w) \/ PublishDlq(w) \/ LoadTemplate(w) \/ FetchUser(w)
      <4>1. UNCHANGED <<topic, delivery, emails>>
        BY <3>1 DEF Fetch, Commit, PublishDlq, LoadTemplate, FetchUser, kafkaVars
      <4> QED BY <4>1, TopicUnchanged DEF Box!vars
    <3> QED
      BY <2>2, <3>1, ReserveMailbox, SendMailbox, FinishMailbox DEF Step
  <2>3. ASSUME NEW w \in Worker, FlushDlq(w) \/ Crash(w) \/ Rebalance(w)
        PROVE  [Box!Next]_(Box!vars)
    <3>1. UNCHANGED <<topic, delivery, emails>>
      BY <2>3 DEF FlushDlq, Crash, Rebalance, kafkaVars
    <3> QED BY <3>1, TopicUnchanged DEF Box!vars
  <2>4. CASE UNCHANGED vars
    <3>1. UNCHANGED <<topic, delivery, emails>>
      BY <2>4 DEF vars, kafkaVars
    <3> QED BY <3>1, TopicUnchanged DEF Box!vars
  <2> QED BY <2>1, <2>2, <2>3, <2>4 DEF Next
<1> QED
  BY InitMailbox, DeliveryInvariant, <1>1, PTL DEF Spec, ImplementsMailbox, Box!Spec

-----------------------------------------------------------------------------
(* The review_liked consumer: the invariant of its keys *)

LikedSteps == Steps \cup {"throttled", "load", "settle"}

LikedHolding == Holding \cup {"throttled", "load"}

LikedHolds(w, k) == pc[w] \in LikedHolding /\ KeyOf(w) = k

LikedTypes ==
  /\ topic \in Seq(Key) /\ committed \in 0..Len(topic)
  /\ pc \in [Worker -> LikedSteps] /\ job \in [Worker -> JobType]
  /\ \A w \in Worker : pc[w] # "idle" => job[w].offset \in 1..Len(topic)
  /\ delivery \in [Key -> {"none", "PENDING", "THROTTLED"} \cup Final]
  /\ emails \in [Key -> Nat]
  /\ throttled \subseteq Author /\ today \in [Author -> Nat] /\ slipped \subseteq Author

LikedKeys ==
  /\ \A k \in Key : \A v, w \in Worker : LikedHolds(v, k) /\ LikedHolds(w, k) => v = w
  /\ \A w \in Worker : pc[w] \in LikedHolding =>
       /\ delivery[KeyOf(w)] = "PENDING"
       /\ pc[w] # "record" => emails[KeyOf(w)] = 0
       /\ pc[w] = "record" /\ job[w].ok => emails[KeyOf(w)] = 1
  /\ UnreservedNotEmailed

-----------------------------------------------------------------------------
(* The review_liked consumer: the invariant of the throttle *)

BeforeEmail == {"load", "user", "send"}

\* A worker that knows its email was accepted and has not set the throttle yet.
Told(w, a) == (pc[w] = "settle" \/ (pc[w] = "record" /\ job[w].ok)) /\ Liked(w) = a

\* As long as nothing slipped, an author's worker is alone between the check and the
\* throttle, and an email is followed by the throttle.
ThrottleOK ==
  \A a \in Author \ slipped :
    /\ \A v, w \in Worker : Sending(v, a) /\ Sending(w, a) => v = w
    /\ today[a] <= 1
    /\ \A w \in Worker : Sending(w, a) /\ pc[w] \in BeforeEmail => today[a] = 0
    /\ today[a] = 1 => a \in throttled \/ \E w \in Worker : Told(w, a)

LInv == LikedTypes /\ LikedKeys /\ ThrottleOK

SendingSteps == {"load", "user", "send", "record", "settle"}

LEMMA LikedWorking ==
  ASSUME LikedTypes, NEW w \in Worker, pc[w] # "idle"
  PROVE  /\ job[w].offset \in 1..Len(topic) /\ KeyOf(w) \in Key
         /\ Liked(w) = AuthorOf[KeyOf(w)] /\ Liked(w) \in Author
<1>1. job[w].offset \in 1..Len(topic) /\ KeyOf(w) \in Key
  BY DEF LikedTypes, KeyOf
<1> QED BY <1>1, AuthorAssumption DEF Liked

\* What LikedTypes has to be shown for when only worker w moves.
LEMMA LikedMoves ==
  ASSUME LikedTypes, NEW w \in Worker, NEW step \in LikedSteps, NEW locals \in JobType,
         pc' = [pc EXCEPT ![w] = step], job' = [job EXCEPT ![w] = locals],
         UNCHANGED topic, step # "idle" => locals.offset \in 1..Len(topic)
  PROVE  /\ pc' \in [Worker -> LikedSteps] /\ job' \in [Worker -> JobType]
         /\ \A v \in Worker : pc'[v] # "idle" => job'[v].offset \in 1..Len(topic')
         /\ Moves(w, step, locals)
  BY DEF LikedTypes, Moves

\* A step that stores nothing, and neither takes a key nor enters "record".
LEMMA LikedKeysQuiet ==
  ASSUME LikedTypes, LikedKeys, NEW w \in Worker, NEW step, NEW locals,
         Moves(w, step, locals), UNCHANGED <<topic, delivery, emails>>,
         step \in LikedHolding => /\ pc[w] \in LikedHolding /\ step # "record"
                                  /\ pc[w] # "record" /\ locals.offset = job[w].offset
  PROVE  LikedKeys'
<1>1. \A v \in Worker : pc'[v] \in LikedHolding =>
        /\ pc[v] \in LikedHolding /\ KeyOf(v)' = KeyOf(v)
        /\ pc'[v] = "record" => pc[v] = "record" /\ job'[v].ok = job[v].ok
        /\ pc'[v] # "record" => pc[v] # "record"
  BY DEF Moves, KeyOf
<1>2. \A k \in Key : \A v, u \in Worker : LikedHolds(v, k)' /\ LikedHolds(u, k)' => v = u
  BY <1>1 DEF LikedKeys, LikedHolds
<1>3. \A v \in Worker : pc'[v] \in LikedHolding =>
       /\ delivery'[KeyOf(v)'] = "PENDING"
       /\ pc'[v] # "record" => emails'[KeyOf(v)'] = 0
       /\ pc'[v] = "record" /\ job'[v].ok => emails'[KeyOf(v)'] = 1
  BY <1>1 DEF LikedKeys
<1> QED BY <1>2, <1>3 DEF LikedKeys, UnreservedNotEmailed

\* The holder stores an outcome and lets go of its key.
LEMMA LikedKeysFinish ==
  ASSUME LikedTypes, LikedKeys, NEW w \in Worker, NEW step, NEW locals, NEW status,
         Moves(w, step, locals), UNCHANGED <<topic, emails>>,
         pc[w] \in LikedHolding, step \notin LikedHolding, status # "none",
         delivery' = [delivery EXCEPT ![KeyOf(w)] = status]
  PROVE  LikedKeys'
<1> DEFINE k == KeyOf(w)
<1>1. k \in Key /\ pc[w] # "idle" /\ delivery[k] = "PENDING"
  BY LikedWorking DEF LikedKeys, LikedHolding, Holding
<1>2. \A v \in Worker : pc'[v] \in LikedHolding =>
        /\ v # w /\ pc'[v] = pc[v] /\ job'[v] = job[v] /\ KeyOf(v)' = KeyOf(v)
  BY DEF Moves, KeyOf
<1>3. \A v \in Worker : pc'[v] \in LikedHolding => KeyOf(v) \in Key /\ KeyOf(v) # k
  <2> SUFFICES ASSUME NEW v \in Worker, pc'[v] \in LikedHolding
               PROVE  KeyOf(v) \in Key /\ KeyOf(v) # k
    OBVIOUS
  <2>1. KeyOf(v) \in Key
    BY <1>2, LikedWorking DEF LikedHolding, Holding
  <2> QED BY <1>1, <1>2, <2>1 DEF LikedKeys, LikedHolds
<1>4. \A j \in Key : delivery'[j] = IF j = k THEN status ELSE delivery[j]
  BY DEF LikedTypes
<1>5. \A j \in Key : \A v, u \in Worker : LikedHolds(v, j)' /\ LikedHolds(u, j)' => v = u
  BY <1>2 DEF LikedKeys, LikedHolds
<1>6. \A v \in Worker : pc'[v] \in LikedHolding =>
       /\ delivery'[KeyOf(v)'] = "PENDING"
       /\ pc'[v] # "record" => emails'[KeyOf(v)'] = 0
       /\ pc'[v] = "record" /\ job'[v].ok => emails'[KeyOf(v)'] = 1
  BY <1>2, <1>3, <1>4 DEF LikedKeys
<1>7. \A j \in Key : delivery'[j] = "none" => emails'[j] = 0
  BY <1>4 DEF LikedKeys, UnreservedNotEmailed
<1> QED BY <1>5, <1>6, <1>7 DEF LikedKeys, UnreservedNotEmailed

\* Nobody starts to send, and who was told of an accepted email still knows or slipped.
LEMMA ThrottleQuiet ==
  ASSUME ThrottleOK, NEW w \in Worker, NEW step, NEW locals,
         Moves(w, step, locals), UNCHANGED <<topic, throttled, today>>,
         slipped \subseteq slipped',
         step \in SendingSteps => pc[w] \in SendingSteps /\ locals.offset = job[w].offset,
         step \in BeforeEmail => pc[w] \in BeforeEmail,
         step = "record" => pc[w] = "record" /\ locals.ok = job[w].ok,
         Told(w, Liked(w)) => Liked(w) \in slipped' \/ step = "settle"
  PROVE  ThrottleOK'
<1>1. \A v \in Worker : \A a : Sending(v, a)' =>
        Sending(v, a) /\ (pc'[v] \in BeforeEmail => pc[v] \in BeforeEmail)
  BY DEF Moves, Sending, Liked, KeyOf, SendingSteps
<1>2. \A v \in Worker : \A a : Told(v, a) => Told(v, a)' \/ a \in slipped'
  <2> SUFFICES ASSUME NEW v \in Worker, NEW a, Told(v, a), a \notin slipped'
               PROVE  Told(v, a)'
    OBVIOUS
  <2>1. CASE v # w
    BY <2>1 DEF Moves, Told, Liked, KeyOf
  <2>2. CASE v = w
    <3>1. pc'[w] = "settle" /\ job'[w].offset = job[w].offset /\ Liked(w) = a
      BY <2>2 DEF Moves, Told, SendingSteps
    <3> QED BY <2>2, <3>1 DEF Told, Liked, KeyOf
  <2> QED BY <2>1, <2>2
<1> SUFFICES ASSUME NEW a \in Author, a \notin slipped'
             PROVE  /\ \A v, u \in Worker : Sending(v, a)' /\ Sending(u, a)' => v = u
                    /\ today'[a] <= 1
                    /\ \A v \in Worker : Sending(v, a)' /\ pc'[v] \in BeforeEmail => today'[a] = 0
                    /\ today'[a] = 1 => a \in throttled' \/ \E v \in Worker : Told(v, a)'
  BY DEF ThrottleOK
<1> QED BY <1>1, <1>2 DEF ThrottleOK

\* A step of worker w that neither emails nor touches the throttle: what is left to
\* show of it.
QuietStepOf(w, step, locals) ==
  /\ pc' = [pc EXCEPT ![w] = step] /\ job' = [job EXCEPT ![w] = locals]
  /\ step # "idle" => locals.offset \in 1..Len(topic)
  /\ UNCHANGED <<topic, emails, throttled, today>> /\ committed' \in 0..Len(topic)
  /\ slipped \subseteq slipped' /\ slipped' \subseteq Author
  /\ step \in SendingSteps => pc[w] \in SendingSteps /\ locals.offset = job[w].offset
  /\ step \in BeforeEmail => pc[w] \in BeforeEmail
  /\ step = "record" => pc[w] = "record" /\ locals.ok = job[w].ok
  /\ Told(w, Liked(w)) => Liked(w) \in slipped' \/ step = "settle"

LEMMA LikedQuietInv ==
  ASSUME LInv, NEW w \in Worker, NEW step \in LikedSteps, NEW locals \in JobType,
         QuietStepOf(w, step, locals), UNCHANGED delivery,
         step \in LikedHolding => /\ pc[w] \in LikedHolding /\ step # "record"
                                  /\ pc[w] # "record" /\ locals.offset = job[w].offset
  PROVE  LInv'
<1>1. /\ pc' \in [Worker -> LikedSteps] /\ job' \in [Worker -> JobType]
      /\ \A v \in Worker : pc'[v] # "idle" => job'[v].offset \in 1..Len(topic')
      /\ Moves(w, step, locals)
  BY LikedMoves DEF LInv, QuietStepOf
<1>2. LikedTypes'
  BY <1>1 DEF LInv, LikedTypes, QuietStepOf
<1>3. LikedKeys'
  BY <1>1, LikedKeysQuiet DEF LInv, QuietStepOf
<1>4. ThrottleOK'
  BY <1>1, ThrottleQuiet DEF LInv, QuietStepOf
<1> QED BY <1>2, <1>3, <1>4 DEF LInv

LEMMA LikedFinishInv ==
  ASSUME LInv, NEW w \in Worker, NEW step \in LikedSteps, NEW locals \in JobType,
         QuietStepOf(w, step, locals), NEW status \in Final \cup {"THROTTLED"},
         pc[w] \in LikedHolding, step \notin LikedHolding,
         delivery' = [delivery EXCEPT ![KeyOf(w)] = status]
  PROVE  LInv'
<1>1. /\ pc' \in [Worker -> LikedSteps] /\ job' \in [Worker -> JobType]
      /\ \A v \in Worker : pc'[v] # "idle" => job'[v].offset \in 1..Len(topic')
      /\ Moves(w, step, locals)
  BY LikedMoves DEF LInv, QuietStepOf
<1>2. delivery' \in [Key -> {"none", "PENDING", "THROTTLED"} \cup Final]
  BY DEF LInv, LikedTypes
<1>3. LikedTypes'
  BY <1>1, <1>2 DEF LInv, LikedTypes, QuietStepOf
<1>4. LikedKeys'
  BY <1>1, LikedKeysFinish DEF LInv, QuietStepOf, Final
<1>5. ThrottleOK'
  BY <1>1, ThrottleQuiet DEF LInv, QuietStepOf
<1> QED BY <1>3, <1>4, <1>5 DEF LInv

LEMMA LikedInitInv ==
  ASSUME LikedInit
  PROVE  LInv
<1>1. NoJob \in JobType
  BY MaxAttemptsAssumption DEF NoJob, JobType
<1>2. topic \in Seq(Key) /\ Len(topic) = 0
  BY DEF LikedInit, Init
<1>3. LikedTypes
  BY <1>1, <1>2 DEF LikedInit, Init, LikedTypes, LikedSteps, Steps
<1>4. LikedKeys
  BY DEF LikedInit, Init, LikedKeys, LikedHolds, LikedHolding, Holding, UnreservedNotEmailed
<1>5. ThrottleOK
  BY DEF LikedInit, Init, ThrottleOK, Sending, Told
<1> QED BY <1>3, <1>4, <1>5 DEF LInv

\* Steps that leave alone what LInv speaks of, but for a longer topic.
LEMMA LikedUntouched ==
  ASSUME LInv, UNCHANGED <<committed, pc, delivery, emails, throttled, today, slipped>>,
         topic' \in Seq(Key), committed \in 0..Len(topic'), job' \in [Worker -> JobType],
         \A v \in Worker : /\ job'[v].offset = job[v].offset /\ job'[v].ok = job[v].ok
                           /\ pc[v] # "idle" => /\ job[v].offset \in 1..Len(topic')
                                                /\ topic'[job[v].offset] = topic[job[v].offset]
  PROVE  LInv'
<1>1. \A v \in Worker : pc[v] # "idle" => KeyOf(v)' = KeyOf(v) /\ Liked(v)' = Liked(v)
  BY DEF KeyOf, Liked
<1>2. LikedTypes'
  BY DEF LInv, LikedTypes
<1>3. \A v \in Worker : \A k : LikedHolds(v, k)' <=> LikedHolds(v, k)
  BY <1>1 DEF LikedHolds, LikedHolding, Holding
<1>4. LikedKeys'
  <2>1. \A v \in Worker : pc[v] \in LikedHolding => pc[v] # "idle"
    BY DEF LikedHolding, Holding
  <2> QED
    BY <1>1, <1>3, <2>1 DEF LInv, LikedKeys, UnreservedNotEmailed
<1>5. \A v \in Worker : \A a : /\ Sending(v, a)' <=> Sending(v, a)
                               /\ Told(v, a)' <=> Told(v, a)
  BY <1>1 DEF Sending, Told
<1>6. ThrottleOK'
  BY <1>5 DEF LInv, ThrottleOK
<1> QED BY <1>2, <1>4, <1>6 DEF LInv

LEMMA LikedEnvironmentInv ==
  ASSUME LInv, Environment
  PROVE  LInv'
<1>1. ASSUME NEW k \in Key, Produce(k)
      PROVE  LInv'
  <2>1. /\ topic' \in Seq(Key) /\ Len(topic') = Len(topic) + 1 /\ Len(topic) \in Nat
        /\ \A i \in 1..Len(topic) : topic'[i] = topic[i]
    BY <1>1 DEF Produce, LInv, LikedTypes
  <2>2. /\ UNCHANGED <<committed, pc, delivery, emails, throttled, today, slipped>>
        /\ job' = job
    BY <1>1 DEF Produce, Environment, throttleVars
  <2>3. \A v \in Worker : pc[v] # "idle" => /\ job[v].offset \in 1..Len(topic')
                                            /\ topic'[job[v].offset] = topic[job[v].offset]
    BY <2>1, LikedWorking DEF LInv
  <2>4. committed \in 0..Len(topic') /\ job' \in [Worker -> JobType]
    BY <2>1, <2>2 DEF LInv, LikedTypes
  <2> QED BY <2>1, <2>2, <2>3, <2>4, LikedUntouched
<1>2. ASSUME NEW w \in Worker, Rebalance(w)
      PROVE  LInv'
  <2>1. /\ job' \in [Worker -> JobType]
        /\ \A v \in Worker : job'[v].offset = job[v].offset /\ job'[v].ok = job[v].ok
    BY <1>2 DEF Rebalance, LInv, LikedTypes, JobType
  <2>2. UNCHANGED <<topic, committed, pc, delivery, emails, throttled, today, slipped>>
    BY <1>2 DEF Rebalance, Environment, throttleVars
  <2>3. topic' \in Seq(Key) /\ committed \in 0..Len(topic')
    BY <2>2 DEF LInv, LikedTypes
  <2> QED BY <2>1, <2>2, <2>3, LikedWorking, LikedUntouched DEF LInv
<1> QED BY <1>1, <1>2 DEF Environment

\* Where a retryable exception takes a worker.
LEMMA LikedRaised ==
  ASSUME LikedTypes, NEW w \in Worker, RaiseRetryable(w)
  PROVE  \E step \in {"reserve", "dlq"}, locals \in JobType :
           /\ pc' = [pc EXCEPT ![w] = step] /\ job' = [job EXCEPT ![w] = locals]
           /\ locals.offset = job[w].offset
<1> DEFINE locals == IF job[w].attempt < MaxAttempts
                       THEN [job[w] EXCEPT !.attempt = @ + 1] ELSE job[w]
<1>1. job[w] \in JobType
  BY DEF LikedTypes
<1>2. locals \in JobType /\ locals.offset = job[w].offset
  BY <1>1, MaxAttemptsAssumption DEF JobType
<1>3. job' = [job EXCEPT ![w] = locals]
  BY DEF RaiseRetryable, LikedTypes
<1>4. pc' = [pc EXCEPT ![w] = AfterRetryable(w)] /\ AfterRetryable(w) \in {"reserve", "dlq"}
  BY DEF RaiseRetryable, AfterRetryable, Goto
<1> HIDE DEF locals
<1> QED BY <1>2, <1>3, <1>4

\* A worker goes on to a step that takes no key, with its local variables as they are.
LEMMA LikedGoInv ==
  ASSUME LInv, NEW w \in Worker, NEW step \in LikedSteps,
         pc[w] \notin {"idle", "settle"}, pc[w] = "record" => ~job[w].ok,
         Goto(w, step), UNCHANGED job,
         UNCHANGED <<kafkaVars, delivery, emails, throttleVars>>,
         step \in SendingSteps => pc[w] \in SendingSteps,
         step \in BeforeEmail => pc[w] \in BeforeEmail,
         step \in LikedHolding => pc[w] \in LikedHolding \ {"record"},
         step # "record"
  PROVE  LInv'
<1>1. job[w] \in JobType /\ job' = [job EXCEPT ![w] = job[w]]
  BY DEF LInv, LikedTypes
<1>2. job[w].offset \in 1..Len(topic)
  BY LikedWorking DEF LInv
<1>3. /\ UNCHANGED <<topic, throttled, today, slipped>> /\ committed' \in 0..Len(topic)
      /\ slipped \subseteq Author
  BY DEF kafkaVars, throttleVars, LInv, LikedTypes
<1>4. ~Told(w, Liked(w))
  BY DEF Told
<1>5. QuietStepOf(w, step, job[w])
  BY <1>1, <1>2, <1>3, <1>4 DEF QuietStepOf, Goto
<1> QED BY <1>1, <1>5, LikedQuietInv

LEMMA LikedRaiseInv ==
  ASSUME LInv, NEW w \in Worker, pc[w] \notin {"idle", "record", "settle"},
         UNCHANGED <<kafkaVars, delivery, emails, throttleVars>>,
         RaiseRetryable(w) \/ RaiseInvalid(w)
  PROVE  LInv'
<1>1. CASE RaiseRetryable(w)
  <2>1. PICK step \in {"reserve", "dlq"}, locals \in JobType :
           /\ pc' = [pc EXCEPT ![w] = step] /\ job' = [job EXCEPT ![w] = locals]
           /\ locals.offset = job[w].offset
    BY <1>1, LikedRaised DEF LInv
  <2>2. job[w].offset \in 1..Len(topic)
    BY LikedWorking DEF LInv
  <2>3. /\ UNCHANGED <<topic, throttled, today, slipped>> /\ committed' \in 0..Len(topic)
        /\ slipped \subseteq Author
    BY DEF kafkaVars, throttleVars, LInv, LikedTypes
  <2>4. ~Told(w, Liked(w))
    BY DEF Told
  <2>5. QuietStepOf(w, step, locals)
    BY <2>1, <2>2, <2>3, <2>4 DEF QuietStepOf, SendingSteps, BeforeEmail
  <2> QED
    BY <2>1, <2>5, LikedQuietInv DEF LikedHolding, Holding, LikedSteps, Steps
<1>2. CASE RaiseInvalid(w)
  BY <1>2, LikedGoInv DEF RaiseInvalid, LikedSteps, Steps, SendingSteps, BeforeEmail,
     LikedHolding, Holding
<1> QED BY <1>1, <1>2

\* A worker that finishes its key and goes to the end of its message.
LEMMA LikedStoreInv ==
  ASSUME LInv, NEW w \in Worker, NEW step \in {"commit", "dlq"},
         NEW status \in Final \cup {"THROTTLED"},
         pc[w] \in LikedHolding \ {"record"},
         delivery' = [delivery EXCEPT ![KeyOf(w)] = status], Goto(w, step), UNCHANGED job,
         UNCHANGED <<kafkaVars, emails, throttleVars>>
  PROVE  LInv'
<1>1. job[w] \in JobType /\ job' = [job EXCEPT ![w] = job[w]]
  BY DEF LInv, LikedTypes
<1>2. job[w].offset \in 1..Len(topic)
  BY LikedWorking DEF LInv, LikedHolding, Holding
<1>3. /\ UNCHANGED <<topic, throttled, today, slipped>> /\ committed' \in 0..Len(topic)
      /\ slipped \subseteq Author
  BY DEF kafkaVars, throttleVars, LInv, LikedTypes
<1>4. ~Told(w, Liked(w))
  BY DEF Told, LikedHolding, Holding
<1>5. QuietStepOf(w, step, job[w])
  BY <1>1, <1>2, <1>3, <1>4 DEF QuietStepOf, Goto, SendingSteps, BeforeEmail
<1>6. step \in LikedSteps /\ step \notin LikedHolding
  BY DEF LikedSteps, Steps, LikedHolding, Holding
<1> QED BY <1>1, <1>5, <1>6, LikedFinishInv

LEMMA LikedFetchInv ==
  ASSUME LInv, NEW w \in Worker, Fetch(w), UNCHANGED throttleVars
  PROVE  LInv'
<1> DEFINE locals == [NoJob EXCEPT !.offset = committed + 1]
<1>1. committed \in Nat /\ Len(topic) \in Nat /\ committed < Len(topic) /\ pc[w] = "idle"
  BY DEF Fetch, LInv, LikedTypes
<1>2. locals \in JobType /\ locals.offset \in 1..Len(topic)
  <2>1. NoJob \in JobType
    BY MaxAttemptsAssumption DEF NoJob, JobType
  <2> QED BY <1>1, <2>1 DEF JobType
<1>3. /\ pc' = [pc EXCEPT ![w] = "reserve"] /\ job' = [job EXCEPT ![w] = locals]
      /\ UNCHANGED <<topic, committed, delivery, emails, throttled, today, slipped>>
  BY DEF Fetch, Goto, kafkaVars, throttleVars
<1>4. committed' \in 0..Len(topic) /\ slipped' \subseteq Author
  BY <1>3 DEF LInv, LikedTypes
<1> HIDE DEF locals
<1>5. QuietStepOf(w, "reserve", locals)
  BY <1>1, <1>2, <1>3, <1>4 DEF QuietStepOf, SendingSteps, BeforeEmail, Told
<1> QED
  BY <1>2, <1>3, <1>5, LikedQuietInv DEF LikedSteps, Steps, LikedHolding, Holding

LEMMA LikedCommitInv ==
  ASSUME LInv, NEW w \in Worker, Commit(w), UNCHANGED throttleVars
  PROVE  LInv'
<1>1. NoJob \in JobType
  BY MaxAttemptsAssumption DEF NoJob, JobType
<1>2. /\ pc[w] = "commit" /\ pc' = [pc EXCEPT ![w] = "idle"]
      /\ job' = [job EXCEPT ![w] = NoJob]
      /\ UNCHANGED <<topic, delivery, emails, throttled, today, slipped>>
  BY DEF Commit, Goto, throttleVars
<1>3. committed' \in 0..Len(topic)
  BY <1>2, LikedWorking DEF Commit, LInv, LikedTypes
<1>4. QuietStepOf(w, "idle", NoJob)
  BY <1>2, <1>3 DEF QuietStepOf, SendingSteps, BeforeEmail, Told, LInv, LikedTypes
<1> QED
  BY <1>1, <1>2, <1>4, LikedQuietInv DEF LikedSteps, Steps, LikedHolding, Holding

LEMMA LikedFlushInv ==
  ASSUME LInv, NEW w \in Worker, FlushDlq(w), UNCHANGED throttleVars
  PROVE  LInv'
<1>1. /\ UNCHANGED <<committed, pc, delivery, emails, throttled, today, slipped>>
      /\ topic' = topic /\ job' = job
  BY DEF FlushDlq, kafkaVars, throttleVars
<1>2. /\ topic' \in Seq(Key) /\ committed \in 0..Len(topic') /\ job' \in [Worker -> JobType]
  BY <1>1 DEF LInv, LikedTypes
<1> QED BY <1>1, <1>2, LikedWorking, LikedUntouched DEF LInv

\* The reservation: the key's row is new, so nobody else holds the key.
LEMMA LikedReserved ==
  ASSUME LInv, NEW w \in Worker, pc[w] = "reserve", delivery[KeyOf(w)] = "none",
         NEW step \in {"template", "reserve", "dlq"}, NEW locals \in JobType,
         locals.offset = job[w].offset,
         pc' = [pc EXCEPT ![w] = step], job' = [job EXCEPT ![w] = locals],
         delivery' = [delivery EXCEPT ![KeyOf(w)] = "PENDING"],
         UNCHANGED <<kafkaVars, emails, throttleVars>>
  PROVE  LInv'
<1> DEFINE k == KeyOf(w)
<1>1. k \in Key /\ locals.offset \in 1..Len(topic) /\ emails[k] = 0
  BY LikedWorking DEF LInv, LikedKeys, UnreservedNotEmailed
<1>2. /\ UNCHANGED <<topic, committed, emails, throttled, today, slipped>>
      /\ step \in LikedSteps
  BY DEF kafkaVars, throttleVars, LikedSteps, Steps
<1>3. /\ pc' \in [Worker -> LikedSteps] /\ job' \in [Worker -> JobType]
      /\ \A v \in Worker : pc'[v] # "idle" => job'[v].offset \in 1..Len(topic')
      /\ Moves(w, step, locals)
  BY <1>1, <1>2, LikedMoves DEF LInv
<1>4. LikedTypes'
  BY <1>2, <1>3 DEF LInv, LikedTypes
<1>5. \A v \in Worker : /\ KeyOf(v)' = KeyOf(v)
                        /\ v # w => pc'[v] = pc[v] /\ job'[v] = job[v]
  BY <1>2, <1>3 DEF Moves, KeyOf
<1>6. \A v \in Worker : pc[v] \in LikedHolding => KeyOf(v) # k
  BY DEF LInv, LikedKeys
<1>7. pc'[w] = step /\ step # "record"
  BY <1>3 DEF Moves
<1>8. \A j \in Key : \A v, u \in Worker : LikedHolds(v, j)' /\ LikedHolds(u, j)' => v = u
  <2> SUFFICES ASSUME NEW j \in Key, NEW v \in Worker, NEW u \in Worker,
                      LikedHolds(v, j)', LikedHolds(u, j)', v # u
               PROVE  FALSE
    OBVIOUS
  <2>1. /\ KeyOf(v) = j /\ KeyOf(u) = j
        /\ v # w => pc[v] \in LikedHolding
        /\ u # w => pc[u] \in LikedHolding
    BY <1>5 DEF LikedHolds
  <2>2. CASE v = w \/ u = w
    BY <1>6, <2>1, <2>2
  <2>3. CASE v # w /\ u # w
    BY <2>1, <2>3 DEF LInv, LikedKeys, LikedHolds
  <2> QED BY <2>2, <2>3
<1>9. \A v \in Worker : pc'[v] \in LikedHolding =>
       /\ delivery'[KeyOf(v)'] = "PENDING"
       /\ pc'[v] # "record" => emails'[KeyOf(v)'] = 0
       /\ pc'[v] = "record" /\ job'[v].ok => emails'[KeyOf(v)'] = 1
  <2> SUFFICES ASSUME NEW v \in Worker, pc'[v] \in LikedHolding
               PROVE  /\ delivery'[KeyOf(v)] = "PENDING"
                      /\ pc'[v] # "record" => emails[KeyOf(v)] = 0
                      /\ pc'[v] = "record" /\ job'[v].ok => emails[KeyOf(v)] = 1
    BY <1>2, <1>5
  <2>1. CASE v = w
    BY <1>1, <1>7, <2>1 DEF LInv, LikedTypes
  <2>2. CASE v # w
    <3>1. pc[v] \in LikedHolding /\ job'[v] = job[v] /\ pc'[v] = pc[v]
      BY <1>5, <2>2
    <3>2. delivery'[KeyOf(v)] = delivery[KeyOf(v)]
      BY <1>6, <3>1 DEF LInv, LikedTypes
    <3> QED BY <3>1, <3>2 DEF LInv, LikedKeys
  <2> QED BY <2>1, <2>2
<1>10. \A j \in Key : delivery'[j] = "none" => emails'[j] = 0
  BY <1>2 DEF LInv, LikedTypes, LikedKeys, UnreservedNotEmailed
<1>11. LikedKeys'
  BY <1>8, <1>9, <1>10 DEF LikedKeys, UnreservedNotEmailed
<1>12. ThrottleOK'
  BY <1>2, <1>3, ThrottleQuiet DEF LInv, SendingSteps, BeforeEmail, Told
<1> QED BY <1>4, <1>11, <1>12 DEF LInv

LEMMA LikedReserveInv ==
  ASSUME LInv, NEW w \in Worker, Reserve(w) \/ ReserveRaises(w), UNCHANGED throttleVars
  PROVE  LInv'
<1>1. pc[w] = "reserve" /\ UNCHANGED <<kafkaVars, emails>> /\ job[w] \in JobType
  BY DEF Reserve, ReserveRaises, LInv, LikedTypes
<1>2. CASE Reserve(w)
  <2>1. job' = [job EXCEPT ![w] = job[w]] /\ UNCHANGED job
    BY <1>2 DEF Reserve, LInv, LikedTypes
  <2>2. CASE delivery[KeyOf(w)] = "none"
    <3>1. /\ pc' = [pc EXCEPT ![w] = "template"]
          /\ delivery' = [delivery EXCEPT ![KeyOf(w)] = "PENDING"]
      BY <1>2, <2>2 DEF Reserve, KeyFree, Goto
    <3> QED BY <1>1, <2>1, <2>2, <3>1, LikedReserved
  <2>3. CASE delivery[KeyOf(w)] # "none"
    <3>1. Goto(w, "commit") /\ UNCHANGED delivery
      BY <1>2, <2>3 DEF Reserve, KeyFree
    <3> QED
      BY <1>1, <2>1, <3>1, LikedGoInv DEF LikedSteps, Steps, SendingSteps, BeforeEmail,
         LikedHolding, Holding
  <2> QED BY <2>2, <2>3
<1>3. CASE ReserveRaises(w)
  <2>1. CASE UNCHANGED delivery
    BY <1>1, <1>3, <2>1, LikedRaiseInv DEF ReserveRaises
  <2>2. CASE /\ delivery[KeyOf(w)] = "none"
             /\ delivery' = [delivery EXCEPT ![KeyOf(w)] = "PENDING"]
    <3>1. PICK step \in {"reserve", "dlq"}, locals \in JobType :
             /\ pc' = [pc EXCEPT ![w] = step] /\ job' = [job EXCEPT ![w] = locals]
             /\ locals.offset = job[w].offset
      BY <1>3, LikedRaised DEF ReserveRaises, LInv
    <3> QED BY <1>1, <2>2, <3>1, LikedReserved
  <2> QED BY <1>3, <2>1, <2>2 DEF ReserveRaises
<1> QED BY <1>2, <1>3

LEMMA LikedSharedInv ==
  ASSUME LInv, NEW w \in Worker, Shared(w)
  PROVE  LInv'
<1> USE DEF LikedSteps, Steps, SendingSteps, BeforeEmail, LikedHolding, Holding, Final
<1>1. UNCHANGED throttleVars
  BY DEF Shared
<1>2. CASE PublishDlq(w)
  BY <1>1, <1>2, LikedGoInv DEF PublishDlq
<1>3. CASE FailTemplate(w)
  <2>1. pc[w] = "notfound" /\ UNCHANGED <<kafkaVars, emails>>
    BY <1>3 DEF FailTemplate
  <2>2. CASE /\ delivery' = [delivery EXCEPT ![KeyOf(w)] = "FAILED"]
             /\ Goto(w, "dlq") /\ UNCHANGED job
    BY <1>1, <2>1, <2>2, LikedStoreInv
  <2>3. CASE RaiseRetryable(w) /\ UNCHANGED delivery
    BY <1>1, <2>1, <2>3, LikedRaiseInv
  <2> QED BY <1>3, <2>2, <2>3 DEF FailTemplate
<1>4. CASE FetchUser(w)
  <2>1. pc[w] = "user" /\ UNCHANGED <<kafkaVars, delivery, emails>>
    BY <1>4 DEF FetchUser
  <2>2. CASE UNCHANGED job /\ (Goto(w, "send") \/ Goto(w, "failed"))
    BY <1>1, <2>1, <2>2, LikedGoInv
  <2>3. CASE RaiseRetryable(w) \/ RaiseInvalid(w)
    BY <1>1, <2>1, <2>3, LikedRaiseInv
  <2> QED BY <1>4, <2>2, <2>3 DEF FetchUser
<1>5. CASE FailUser(w)
  <2>1. pc[w] = "failed" /\ Goto(w, "dlq") /\ UNCHANGED <<kafkaVars, job, emails>>
    BY <1>5 DEF FailUser
  <2>2. CASE delivery' = [delivery EXCEPT ![KeyOf(w)] = "FAILED"]
    BY <1>1, <2>1, <2>2, LikedStoreInv
  <2>3. CASE UNCHANGED delivery
    BY <1>1, <2>1, <2>3, LikedGoInv
  <2> QED BY <1>5, <2>2, <2>3 DEF FailUser
<1> QED
  BY <1>1, <1>2, <1>3, <1>4, <1>5, LikedFetchInv, LikedCommitInv, LikedFlushInv,
     LikedReserveInv DEF Shared

LEMMA MarkThrottledInv ==
  ASSUME LInv, NEW w \in Worker, MarkThrottled(w)
  PROVE  LInv'
<1>1. pc[w] = "throttled" /\ UNCHANGED <<kafkaVars, emails, throttleVars>>
  BY DEF MarkThrottled
<1>2. CASE /\ delivery' = [delivery EXCEPT ![KeyOf(w)] = "THROTTLED"]
           /\ Goto(w, "commit") /\ UNCHANGED job
  BY <1>1, <1>2, LikedStoreInv DEF LikedHolding
<1>3. CASE RaiseRetryable(w) /\ UNCHANGED delivery
  BY <1>1, <1>3, LikedRaiseInv
<1> QED BY <1>2, <1>3 DEF MarkThrottled

LEMMA LoadByNameInv ==
  ASSUME LInv, NEW w \in Worker, LoadByName(w)
  PROVE  LInv'
<1>1. pc[w] = "load" /\ UNCHANGED <<kafkaVars, delivery, emails, throttleVars>>
  BY DEF LoadByName
<1>2. CASE UNCHANGED job /\ (Goto(w, "user") \/ Goto(w, "notfound"))
  BY <1>1, <1>2, LikedGoInv DEF LikedSteps, Steps, SendingSteps, BeforeEmail,
     LikedHolding, Holding
<1>3. CASE RaiseRetryable(w)
  BY <1>1, <1>3, LikedRaiseInv
<1> QED BY <1>2, <1>3 DEF LoadByName

\* The process forgets its message; when it had an email accepted, the author slipped.
LEMMA DieInv ==
  ASSUME LInv, NEW w \in Worker, Die(w)
  PROVE  LInv'
<1>1. NoJob \in JobType
  BY MaxAttemptsAssumption DEF NoJob, JobType
<1>2. /\ pc' = [pc EXCEPT ![w] = "idle"] /\ job' = [job EXCEPT ![w] = NoJob]
      /\ UNCHANGED <<topic, committed, delivery, emails, throttled, today>>
  BY DEF Die, Crash, Goto, kafkaVars
<1>3. committed' \in 0..Len(topic) /\ slipped \subseteq Author
  BY <1>2 DEF LInv, LikedTypes
<1>4. slipped' = IF pc[w] \in {"record", "settle"} THEN slipped \cup {Liked(w)} ELSE slipped
  BY DEF Die
<1>5. slipped \subseteq slipped' /\ slipped' \subseteq Author
  BY <1>3, <1>4, LikedWorking DEF LInv
<1>6. Told(w, Liked(w)) => Liked(w) \in slipped'
  BY <1>4 DEF Told
<1>7. QuietStepOf(w, "idle", NoJob)
  BY <1>2, <1>3, <1>5, <1>6 DEF QuietStepOf, SendingSteps, BeforeEmail
<1> QED
  BY <1>1, <1>2, <1>7, LikedQuietInv DEF LikedSteps, Steps, LikedHolding, Holding

\* The check of the throttle: a worker that is let through is the author's only one and
\* comes after no email, unless another worker is just sending (then the author slipped).
LEMMA CheckThrottleInv ==
  ASSUME LInv, NEW w \in Worker, CheckThrottle(w)
  PROVE  LInv'
<1> DEFINE b == Liked(w)
<1>1. /\ pc[w] = "template" /\ job' = job
      /\ UNCHANGED <<topic, committed, delivery, emails, throttled, today>>
  BY DEF CheckThrottle, kafkaVars
<1>2. /\ job[w] \in JobType /\ job' = [job EXCEPT ![w] = job[w]]
      /\ job[w].offset \in 1..Len(topic) /\ b \in Author
  BY <1>1, LikedWorking DEF LInv, LikedTypes
<1>3. slipped' = IF \E v \in Worker \ {w} : Sending(v, b) THEN slipped \cup {b} ELSE slipped
  BY DEF CheckThrottle
<1>4. slipped \subseteq slipped' /\ slipped' \subseteq Author /\ committed' \in 0..Len(topic)
  BY <1>1, <1>2, <1>3 DEF LInv, LikedTypes
<1>5. ASSUME NEW step \in {"throttled", "dlq"}, Goto(w, step)
      PROVE  LInv'
  <2>1. QuietStepOf(w, step, job[w])
    BY <1>1, <1>2, <1>4, <1>5 DEF QuietStepOf, Goto, SendingSteps, BeforeEmail, Told
  <2> QED
    BY <1>1, <1>2, <1>5, <2>1, LikedQuietInv DEF LikedSteps, Steps, LikedHolding, Holding
<1>6. ASSUME Goto(w, "load"), b \notin throttled
      PROVE  LInv'
  <2>1. /\ pc' \in [Worker -> LikedSteps] /\ job' \in [Worker -> JobType]
        /\ \A v \in Worker : pc'[v] # "idle" => job'[v].offset \in 1..Len(topic')
        /\ Moves(w, "load", job[w])
    BY <1>1, <1>2, <1>6, LikedMoves DEF LInv, Goto, LikedSteps
  <2>2. LikedTypes'
    BY <1>1, <1>4, <2>1 DEF LInv, LikedTypes
  <2>3. LikedKeys'
    BY <1>1, <2>1, LikedKeysQuiet DEF LInv, LikedHolding, Holding
  <2>4. \A v \in Worker : /\ Liked(v)' = Liked(v)
                          /\ v # w => pc'[v] = pc[v] /\ job'[v] = job[v]
    BY <1>1, <2>1 DEF Moves, Liked, KeyOf
  <2>5. pc'[w] = "load"
    BY <2>1 DEF Moves
  <2>6. \A v \in Worker : \A a : /\ v # w => (Sending(v, a)' <=> Sending(v, a))
                                 /\ Told(v, a) => Told(v, a)'
                                 /\ Told(v, a) => Sending(v, a) /\ v # w
                                 /\ Sending(w, a)' => a = b
    BY <1>1, <2>4, <2>5 DEF Sending, Told
  <2> SUFFICES ASSUME NEW a \in Author, a \notin slipped'
               PROVE  /\ \A v, u \in Worker : Sending(v, a)' /\ Sending(u, a)' => v = u
                      /\ today'[a] <= 1
                      /\ \A v \in Worker : Sending(v, a)' /\ pc'[v] \in BeforeEmail => today'[a] = 0
                      /\ today'[a] = 1 => a \in throttled' \/ \E v \in Worker : Told(v, a)'
    BY <2>2, <2>3 DEF LInv, ThrottleOK
  <2>7. /\ \A v, u \in Worker : Sending(v, a) /\ Sending(u, a) => v = u
        /\ today[a] <= 1 /\ today[a] \in Nat
        /\ \A v \in Worker : Sending(v, a) /\ pc[v] \in BeforeEmail => today[a] = 0
        /\ today[a] = 1 => a \in throttled \/ \E v \in Worker : Told(v, a)
    BY <1>4 DEF LInv, ThrottleOK, LikedTypes
  <2>8. a = b => \A v \in Worker \ {w} : ~Sending(v, b)
    BY <1>3
  <2>9. a = b => today[a] = 0
    BY <1>6, <2>6, <2>7, <2>8
  <2>10. \A v, u \in Worker : Sending(v, a)' /\ Sending(u, a)' => v = u
    BY <2>6, <2>7, <2>8
  <2>11. \A v \in Worker : Sending(v, a)' /\ pc'[v] \in BeforeEmail => today'[a] = 0
    BY <1>1, <2>4, <2>6, <2>7, <2>9
  <2>12. today'[a] = 1 => a \in throttled' \/ \E v \in Worker : Told(v, a)'
    BY <1>1, <2>6, <2>7
  <2> QED BY <1>1, <2>7, <2>10, <2>11, <2>12
<1>7. \/ Goto(w, "throttled") \/ Goto(w, "dlq")
      \/ Goto(w, "load") /\ b \notin throttled
  BY DEF CheckThrottle
<1> QED BY <1>5, <1>6, <1>7

\* The email: the first of the day for an author that has not slipped, and from then on
\* its worker is told of it, or the author slips.
LEMMA SendInv ==
  ASSUME LInv, NEW w \in Worker, Send(w)
  PROVE  LInv'
<1> DEFINE k == KeyOf(w)  b == Liked(w)
<1>1. /\ pc[w] = "send" /\ Goto(w, "record")
      /\ UNCHANGED <<topic, committed, delivery, throttled>>
  BY DEF Send, SendEmail, kafkaVars
<1>2. PICK accepted \in BOOLEAN, ok \in BOOLEAN :
        /\ ok => accepted
        /\ emails' = IF accepted THEN [emails EXCEPT ![k] = @ + 1] ELSE emails
        /\ job' = [job EXCEPT ![w].ok = ok]
  BY DEF Send, SendEmail
<1> DEFINE locals == [job[w] EXCEPT !.ok = ok]
<1>3. /\ locals \in JobType /\ locals.offset = job[w].offset /\ locals.ok = ok
      /\ job' = [job EXCEPT ![w] = locals]
  BY <1>2 DEF LInv, LikedTypes, JobType
<1>4. /\ job[w].offset \in 1..Len(topic) /\ k \in Key /\ b \in Author
      /\ emails[k] = 0 /\ delivery[k] = "PENDING" /\ emails \in [Key -> Nat]
  BY <1>1, LikedWorking DEF LInv, LikedTypes, LikedKeys, LikedHolding, Holding
<1>5. /\ emails' \in [Key -> Nat] /\ emails'[k] = (IF accepted THEN 1 ELSE 0)
      /\ \A j \in Key : j # k => emails'[j] = emails[j]
      /\ Accept(w) <=> accepted
  BY <1>2, <1>4 DEF Accept
<1> HIDE DEF locals
<1>6. /\ pc' \in [Worker -> LikedSteps] /\ job' \in [Worker -> JobType]
      /\ \A v \in Worker : pc'[v] # "idle" => job'[v].offset \in 1..Len(topic')
      /\ Moves(w, "record", locals)
  BY <1>1, <1>3, <1>4, LikedMoves DEF LInv, Goto, LikedSteps, Steps
<1>7. /\ today' = IF accepted THEN [today EXCEPT ![b] = @ + 1] ELSE today
      /\ slipped' = IF accepted /\ ~ok THEN slipped \cup {b} ELSE slipped
  <2>1. job'[w].ok = ok
    BY <1>3, <1>6 DEF Moves
  <2> QED BY <1>5, <2>1 DEF Send
<1>8. LikedTypes'
  BY <1>1, <1>4, <1>5, <1>6, <1>7 DEF LInv, LikedTypes
<1>9. \A v \in Worker : /\ KeyOf(v)' = KeyOf(v) /\ Liked(v)' = Liked(v)
                        /\ v # w => pc'[v] = pc[v] /\ job'[v] = job[v]
  BY <1>1, <1>3, <1>6 DEF Moves, Liked, KeyOf
<1>10. pc'[w] = "record" /\ job'[w].ok = ok
  BY <1>3, <1>6 DEF Moves
<1>11. LikedKeys'
  <2>1. \A v \in Worker : pc'[v] \in LikedHolding => pc[v] \in LikedHolding
    BY <1>1, <1>9 DEF LikedHolding, Holding
  <2>2. \A j \in Key : \A v, u \in Worker : LikedHolds(v, j)' /\ LikedHolds(u, j)' => v = u
    BY <1>9, <2>1 DEF LInv, LikedKeys, LikedHolds
  <2>3. ASSUME NEW v \in Worker, pc'[v] \in LikedHolding
        PROVE  /\ delivery'[KeyOf(v)'] = "PENDING"
               /\ pc'[v] # "record" => emails'[KeyOf(v)'] = 0
               /\ pc'[v] = "record" /\ job'[v].ok => emails'[KeyOf(v)'] = 1
    <3>1. CASE v = w
      BY <1>1, <1>2, <1>4, <1>5, <1>9, <1>10, <3>1
    <3>2. CASE v # w
      <4>1. /\ pc[v] \in LikedHolding /\ pc[w] \in LikedHolding
            /\ pc'[v] = pc[v] /\ job'[v] = job[v]
        BY <1>1, <1>9, <2>1, <2>3, <3>2 DEF LikedHolding, Holding
      <4>2. KeyOf(v) \in Key
        BY <4>1, LikedWorking DEF LInv, LikedHolding, Holding
      <4>3. KeyOf(v) # k
        BY <1>4, <3>2, <4>1 DEF LInv, LikedKeys, LikedHolds
      <4> QED BY <1>1, <1>5, <1>9, <4>1, <4>2, <4>3 DEF LInv, LikedKeys
    <3> QED BY <3>1, <3>2
  <2>4. \A j \in Key : delivery'[j] = "none" => emails'[j] = 0
    BY <1>1, <1>4, <1>5 DEF LInv, LikedKeys, UnreservedNotEmailed
  <2> QED BY <2>2, <2>3, <2>4 DEF LikedKeys, UnreservedNotEmailed
<1>12. ThrottleOK'
  <2> SUFFICES ASSUME NEW a \in Author, a \notin slipped'
               PROVE  /\ \A v, u \in Worker : Sending(v, a)' /\ Sending(u, a)' => v = u
                      /\ today'[a] <= 1
                      /\ \A v \in Worker : Sending(v, a)' /\ pc'[v] \in BeforeEmail => today'[a] = 0
                      /\ today'[a] = 1 => a \in throttled' \/ \E v \in Worker : Told(v, a)'
    BY DEF ThrottleOK
  <2>1. a \notin slipped /\ (a = b /\ accepted => ok)
    BY <1>7
  <2>2. /\ \A v, u \in Worker : Sending(v, a) /\ Sending(u, a) => v = u
        /\ today[a] <= 1 /\ today \in [Author -> Nat] /\ today[a] \in Nat
        /\ \A v \in Worker : Sending(v, a) /\ pc[v] \in BeforeEmail => today[a] = 0
        /\ today[a] = 1 => a \in throttled \/ \E v \in Worker : Told(v, a)
    BY <2>1 DEF LInv, ThrottleOK, LikedTypes
  <2>3. \A v \in Worker : Sending(v, a)' => Sending(v, a)
    BY <1>1, <1>9 DEF Sending
  <2>4. \A v \in Worker : Told(v, a) => Told(v, a)'
    BY <1>1, <1>9 DEF Told
  <2>5. CASE a = b /\ accepted
    <3>1. Sending(w, a) /\ today[a] = 0
      BY <1>1, <2>2, <2>5 DEF Sending, BeforeEmail
    <3>2. today'[a] = 1
      BY <1>4, <1>7, <2>2, <2>5, <3>1
    <3>3. Told(w, a)'
      BY <1>9, <1>10, <2>1, <2>5 DEF Told
    <3>4. \A v \in Worker : Sending(v, a)' => v = w
      BY <2>2, <2>3, <3>1
    <3>5. \A v \in Worker : ~(Sending(v, a)' /\ pc'[v] \in BeforeEmail)
      BY <1>10, <3>4 DEF BeforeEmail
    <3> QED BY <3>2, <3>3, <3>4, <3>5
  <2>6. CASE ~(a = b /\ accepted)
    <3>1. today'[a] = today[a]
      BY <1>4, <1>7, <2>2, <2>6
    <3>2. \A v \in Worker : pc'[v] \in BeforeEmail => pc[v] \in BeforeEmail
      BY <1>1, <1>9 DEF BeforeEmail
    <3> QED BY <1>1, <2>2, <2>3, <2>4, <3>1, <3>2
  <2> QED BY <2>5, <2>6
<1> QED BY <1>8, <1>11, <1>12 DEF LInv

\* The outcome: a worker that was told of the email goes on to set the throttle, or the
\* author slipped when the outcome could not be recorded.
LEMMA RecordInv ==
  ASSUME LInv, NEW w \in Worker, Record(w)
  PROVE  LInv'
<1>1. /\ pc[w] = "record" /\ UNCHANGED <<topic, committed, emails, throttled, today>>
      /\ job[w] \in JobType /\ job' = [job EXCEPT ![w] = job[w]]
  BY DEF Record, kafkaVars, LInv, LikedTypes
<1>2. /\ job[w].offset \in 1..Len(topic) /\ Liked(w) \in Author
      /\ committed' \in 0..Len(topic) /\ slipped \subseteq Author
  BY <1>1, LikedWorking DEF LInv, LikedTypes
<1>3. CASE /\ delivery' = [delivery EXCEPT ![KeyOf(w)] = RecordedStatus(w)]
           /\ Goto(w, IF RecordedStatus(w) = "SENT" THEN "settle" ELSE "dlq")
           /\ UNCHANGED slipped
  <2>1. CASE job[w].ok
    <3>1. RecordedStatus(w) = "SENT"
      BY <2>1 DEF RecordedStatus
    <3>2. /\ delivery' = [delivery EXCEPT ![KeyOf(w)] = "SENT"]
          /\ pc' = [pc EXCEPT ![w] = "settle"]
      BY <1>3, <3>1 DEF Goto
    <3>3. QuietStepOf(w, "settle", job[w])
      BY <1>1, <1>2, <1>3, <3>2 DEF QuietStepOf, SendingSteps, BeforeEmail
    <3>4. /\ "SENT" \in Final \cup {"THROTTLED"} /\ pc[w] \in LikedHolding
          /\ "settle" \in LikedSteps /\ "settle" \notin LikedHolding
      BY <1>1 DEF LikedSteps, LikedHolding, Holding, Steps, Final
    <3> QED BY <1>1, <3>2, <3>3, <3>4, LikedFinishInv
  <2>2. CASE ~job[w].ok
    <3>1. RecordedStatus(w) = "FAILED"
      BY <2>2 DEF RecordedStatus
    <3>2. /\ delivery' = [delivery EXCEPT ![KeyOf(w)] = "FAILED"]
          /\ pc' = [pc EXCEPT ![w] = "dlq"]
      BY <1>3, <3>1 DEF Goto
    <3>3. ~Told(w, Liked(w))
      BY <1>1, <2>2 DEF Told
    <3>4. QuietStepOf(w, "dlq", job[w])
      BY <1>1, <1>2, <1>3, <3>2, <3>3 DEF QuietStepOf, SendingSteps, BeforeEmail
    <3>5. /\ "FAILED" \in Final \cup {"THROTTLED"} /\ pc[w] \in LikedHolding
          /\ "dlq" \in LikedSteps /\ "dlq" \notin LikedHolding
      BY <1>1 DEF LikedSteps, LikedHolding, Holding, Steps, Final
    <3> QED BY <1>1, <3>2, <3>4, <3>5, LikedFinishInv
  <2> QED BY <2>1, <2>2
<1>4. CASE /\ Goto(w, "dlq") /\ slipped' = slipped \cup {Liked(w)}
           /\ UNCHANGED delivery
  <2>1. QuietStepOf(w, "dlq", job[w])
    BY <1>1, <1>2, <1>4 DEF QuietStepOf, Goto, SendingSteps, BeforeEmail
  <2> QED
    BY <1>1, <1>4, <2>1, LikedQuietInv DEF LikedSteps, Steps, LikedHolding, Holding
<1> QED BY <1>3, <1>4 DEF Record

LEMMA SetThrottleInv ==
  ASSUME LInv, NEW w \in Worker, SetThrottle(w)
  PROVE  LInv'
<1> DEFINE b == Liked(w)
<1>1. /\ pc[w] = "settle" /\ UNCHANGED <<topic, committed, delivery, emails, today>>
      /\ job[w] \in JobType /\ job' = [job EXCEPT ![w] = job[w]]
  BY DEF SetThrottle, kafkaVars, LInv, LikedTypes
<1>2. /\ job[w].offset \in 1..Len(topic) /\ b \in Author
      /\ committed' \in 0..Len(topic) /\ slipped \subseteq Author
  BY <1>1, LikedWorking DEF LInv, LikedTypes
<1>3. CASE Goto(w, "dlq") /\ slipped' = slipped \cup {b} /\ UNCHANGED throttled
  <2>1. QuietStepOf(w, "dlq", job[w])
    BY <1>1, <1>2, <1>3 DEF QuietStepOf, Goto, SendingSteps, BeforeEmail
  <2> QED
    BY <1>1, <1>3, <2>1, LikedQuietInv DEF LikedSteps, Steps, LikedHolding, Holding
<1>4. CASE throttled' = throttled \cup {b} /\ Goto(w, "commit") /\ UNCHANGED slipped
  <2>1. /\ pc' \in [Worker -> LikedSteps] /\ job' \in [Worker -> JobType]
        /\ \A v \in Worker : pc'[v] # "idle" => job'[v].offset \in 1..Len(topic')
        /\ Moves(w, "commit", job[w])
    BY <1>1, <1>2, <1>4, LikedMoves DEF LInv, Goto, LikedSteps, Steps
  <2>2. LikedTypes'
    BY <1>1, <1>2, <1>4, <2>1 DEF LInv, LikedTypes
  <2>3. LikedKeys'
    BY <1>1, <2>1, LikedKeysQuiet DEF LInv, LikedHolding, Holding
  <2>4. \A v \in Worker : /\ Liked(v)' = Liked(v)
                          /\ v # w => pc'[v] = pc[v] /\ job'[v] = job[v]
    BY <1>1, <2>1 DEF Moves, Liked, KeyOf
  <2>5. pc'[w] = "commit"
    BY <2>1 DEF Moves
  <2>6. \A v \in Worker : \A a : /\ Sending(v, a)' => Sending(v, a) /\ pc'[v] = pc[v]
                                 /\ Told(v, a) => Told(v, a)' \/ a = b
    BY <2>4, <2>5 DEF Sending, Told
  <2>7. ThrottleOK'
    BY <1>1, <1>4, <2>6 DEF LInv, ThrottleOK
  <2> QED BY <2>2, <2>3, <2>7 DEF LInv
<1> QED BY <1>3, <1>4 DEF SetThrottle

\* The throttle key runs out: a new day for an author whom nobody is sending to.
LEMMA ExpireInv ==
  ASSUME LInv, NEW b \in Author, Expire(b)
  PROVE  LInv'
<1>1. UNCHANGED <<topic, committed, pc, job, delivery, emails>>
  BY DEF Expire, vars
<1>2. /\ throttled' = throttled \ {b} /\ today' = [today EXCEPT ![b] = 0]
      /\ slipped' = slipped \ {b} /\ \A w \in Worker : ~Sending(w, b)
  BY DEF Expire
<1>3. LikedTypes'
  BY <1>1, <1>2 DEF LInv, LikedTypes
<1>4. LikedKeys'
  BY <1>1 DEF LInv, LikedKeys, LikedHolds, KeyOf, UnreservedNotEmailed
<1>5. \A v \in Worker : \A a : /\ Sending(v, a)' <=> Sending(v, a)
                               /\ Told(v, a)' <=> Told(v, a)
  BY <1>1 DEF Sending, Told, Liked, KeyOf
<1>6. \A a \in Author : today'[a] = IF a = b THEN 0 ELSE today[a]
  BY <1>2 DEF LInv, LikedTypes
<1>7. ThrottleOK'
  <2> SUFFICES ASSUME NEW a \in Author, a \notin slipped'
               PROVE  /\ \A v, u \in Worker : Sending(v, a)' /\ Sending(u, a)' => v = u
                      /\ today'[a] <= 1
                      /\ \A v \in Worker : Sending(v, a)' /\ pc'[v] \in BeforeEmail => today'[a] = 0
                      /\ today'[a] = 1 => a \in throttled' \/ \E v \in Worker : Told(v, a)'
    BY DEF ThrottleOK
  <2>1. CASE a = b
    BY <1>2, <1>5, <1>6, <2>1
  <2>2. CASE a # b
    BY <1>1, <1>2, <1>5, <1>6, <2>2 DEF LInv, ThrottleOK
  <2> QED BY <2>1, <2>2
<1> QED BY <1>3, <1>4, <1>7 DEF LInv

LEMMA LikedNextInv ==
  ASSUME LInv, [LikedNext]_likedVars
  PROVE  LInv'
<1>1. ASSUME NEW w \in Worker,
             \/ Shared(w)
             \/ CheckThrottle(w) \/ MarkThrottled(w) \/ LoadByName(w) \/ Send(w)
             \/ Record(w) \/ SetThrottle(w) \/ Die(w)
      PROVE  LInv'
  BY <1>1, LikedSharedInv, CheckThrottleInv, MarkThrottledInv, LoadByNameInv, SendInv,
     RecordInv, SetThrottleInv, DieInv
<1>2. CASE UNCHANGED likedVars
  <2>1. UNCHANGED <<topic, committed, pc, job, delivery, emails, throttled, today, slipped>>
    BY <1>2 DEF likedVars
  <2> QED
    BY <2>1, LikedWorking, LikedUntouched DEF LInv, LikedTypes
<1> QED
  BY <1>1, <1>2, LikedEnvironmentInv, ExpireInv DEF LikedNext

LEMMA LikedInvariant == LikedSpec => []LInv
<1>1. LInv /\ [LikedNext]_likedVars => LInv'
  BY LikedNextInv
<1> QED BY LikedInitInv, <1>1, PTL DEF LikedSpec

\* An author hears of likes once a day, whatever is retried, redelivered or rebalanced,
\* but for the cases the code lets through (the order of _handle's check, email and
\* throttle in consumers/review_liked.py).
THEOREM OncePerDay == LikedSpec => []OneEmailADay
<1>1. LInv => OneEmailADay
  BY DEF LInv, LikedTypes, ThrottleOK, OneEmailADay
<1> QED BY LikedInvariant, <1>1, PTL

-----------------------------------------------------------------------------
(* ReviewLiked implements Mailbox *)

\* The rows as the mailbox has them: a throttled key is one that failed.
Seen == [k \in Key |-> IF delivery[k] = "THROTTLED" THEN "FAILED" ELSE delivery[k]]

LEMMA LikedUnseen ==
  ASSUME UNCHANGED <<topic, delivery, emails>>
  PROVE  UNCHANGED LikedBox!vars
  BY TopicUnchanged DEF LikedBox!vars

\* A write to a key's row, as the mailbox sees it.
LEMMA SeenWrite ==
  ASSUME LikedTypes, NEW k \in Key, NEW status,
         delivery' = [delivery EXCEPT ![k] = status]
  PROVE  /\ Seen' = [Seen EXCEPT ![k] = IF status = "THROTTLED" THEN "FAILED" ELSE status]
         /\ delivery[k] # "THROTTLED" => Seen[k] = delivery[k]
  BY DEF LikedTypes, Seen

LEMMA LikedHandled ==
  ASSUME NEW k \in Key, LikedBox!Reserve(k) \/ LikedBox!Email(k) \/ LikedBox!Finish(k)
  PROVE  LikedBox!Next
<1>1. LikedBox!Handle(k)
  BY DEF LikedBox!Handle
<1> QED BY <1>1 DEF LikedBox!Next

LEMMA LikedReserveBox ==
  ASSUME LInv, NEW w \in Worker, Reserve(w) \/ ReserveRaises(w)
  PROVE  [LikedBox!Next]_(LikedBox!vars)
<1>0. PICK k \in Key : k = KeyOf(w)
  BY LikedWorking DEF LInv, Reserve, ReserveRaises
<1>1. k \in Key /\ k \in {topic[i] : i \in DOMAIN topic}
  <2>1. k \in Key /\ job[w].offset \in 1..Len(topic)
    BY <1>0, LikedWorking DEF LInv, Reserve, ReserveRaises
  <2>2. DOMAIN topic = 1..Len(topic)
    BY DEF LInv, LikedTypes
  <2> QED BY <1>0, <2>1, <2>2 DEF KeyOf
<1>2. UNCHANGED <<topic, emails>>
  BY DEF Reserve, ReserveRaises, kafkaVars
<1>3. \/ UNCHANGED delivery
      \/ delivery[k] = "none" /\ delivery' = [delivery EXCEPT ![k] = "PENDING"]
  BY <1>0 DEF Reserve, ReserveRaises, KeyFree
<1>4. CASE UNCHANGED delivery
  BY <1>2, <1>4, LikedUnseen
<1>5. CASE delivery[k] = "none" /\ delivery' = [delivery EXCEPT ![k] = "PENDING"]
  <2>1. Seen[k] = "none" /\ Seen' = [Seen EXCEPT ![k] = "PENDING"]
    BY <1>1, <1>5, SeenWrite DEF LInv
  <2>2. LikedBox!Reserve(k)
    BY <1>1, <1>2, <2>1, TopicUnchanged DEF LikedBox!Reserve, Seen
  <2> QED BY <1>1, <2>2, LikedHandled
<1> QED BY <1>3, <1>4, <1>5

LEMMA LikedSendBox ==
  ASSUME LInv, NEW w \in Worker, Send(w)
  PROVE  [LikedBox!Next]_(LikedBox!vars)
<1>0. PICK k \in Key : k = KeyOf(w)
  BY LikedWorking DEF LInv, Send, SendEmail
<1>1. k \in Key /\ delivery[k] = "PENDING" /\ emails[k] = 0
  BY <1>0 DEF LInv, LikedKeys, Send, SendEmail, LikedHolding, Holding
<1>2. UNCHANGED <<topic, delivery>>
  BY DEF Send, SendEmail, kafkaVars
<1>3. UNCHANGED emails \/ emails' = [emails EXCEPT ![k] = 1]
  <2>1. UNCHANGED emails \/ emails' = [emails EXCEPT ![k] = @ + 1]
    BY <1>0 DEF Send, SendEmail
  <2> QED BY <1>1, <2>1
<1>4. CASE UNCHANGED emails
  BY <1>2, <1>4, LikedUnseen
<1>5. CASE emails' = [emails EXCEPT ![k] = 1]
  <2>1. LikedBox!Email(k)
    BY <1>1, <1>2, <1>5, TopicUnchanged DEF LikedBox!Email
  <2> QED BY <1>1, <2>1, LikedHandled
<1> QED BY <1>3, <1>4, <1>5

LEMMA LikedFinishBox ==
  ASSUME LInv, NEW w \in Worker,
         FailTemplate(w) \/ FailUser(w) \/ MarkThrottled(w) \/ Record(w)
  PROVE  [LikedBox!Next]_(LikedBox!vars)
<1>0. PICK k \in Key : k = KeyOf(w)
  BY LikedWorking DEF LInv, FailTemplate, FailUser, MarkThrottled, Record
<1>1. k \in Key /\ delivery[k] = "PENDING"
  BY <1>0 DEF LInv, LikedKeys, FailTemplate, FailUser, MarkThrottled, Record,
     LikedHolding, Holding
<1>2. UNCHANGED <<topic, emails>>
  BY DEF FailTemplate, FailUser, MarkThrottled, Record, kafkaVars
<1>3. \/ UNCHANGED delivery
      \/ \E status \in {"FAILED", "THROTTLED"} : delivery' = [delivery EXCEPT ![k] = status]
      \/ emails[k] = 1 /\ delivery' = [delivery EXCEPT ![k] = "SENT"]
  BY <1>0 DEF FailTemplate, FailUser, MarkThrottled, Record, RecordedStatus, LInv, LikedKeys,
     LikedHolding, Holding
<1>4. CASE UNCHANGED delivery
  BY <1>2, <1>4, LikedUnseen
<1>5. ASSUME NEW status \in {"FAILED", "THROTTLED"},
             delivery' = [delivery EXCEPT ![k] = status]
      PROVE  [LikedBox!Next]_(LikedBox!vars)
  <2>1. Seen[k] = "PENDING" /\ Seen' = [Seen EXCEPT ![k] = "FAILED"]
    BY <1>1, <1>5, SeenWrite DEF LInv
  <2>2. LikedBox!Finish(k)
    BY <1>2, <2>1, TopicUnchanged DEF LikedBox!Finish, Seen
  <2> QED BY <1>1, <2>2, LikedHandled
<1>6. CASE emails[k] = 1 /\ delivery' = [delivery EXCEPT ![k] = "SENT"]
  <2>1. Seen[k] = "PENDING" /\ Seen' = [Seen EXCEPT ![k] = "SENT"]
    BY <1>1, <1>6, SeenWrite DEF LInv
  <2>2. LikedBox!Finish(k)
    BY <1>2, <1>6, <2>1, TopicUnchanged DEF LikedBox!Finish, Seen
  <2> QED BY <1>1, <2>2, LikedHandled
<1> QED BY <1>3, <1>4, <1>5, <1>6

LEMMA LikedProduceBox ==
  ASSUME LInv, NEW k \in Key, Produce(k)
  PROVE  [LikedBox!Next]_(LikedBox!vars)
<1>1. /\ topic \in Seq(Key) /\ topic' = Append(topic, k)
      /\ UNCHANGED <<delivery, emails>>
  BY DEF Produce, LInv, LikedTypes
<1>2. {topic[i] : i \in DOMAIN topic}' = {topic[i] : i \in DOMAIN topic} \cup {k}
  <2>1. /\ DOMAIN topic = 1..Len(topic) /\ Len(topic) \in Nat
        /\ DOMAIN (topic') = 1..(Len(topic) + 1)
        /\ \A i \in 1..Len(topic) : topic'[i] = topic[i]
        /\ topic'[Len(topic) + 1] = k
    BY <1>1
  <2>2. /\ \A i \in DOMAIN (topic') : i \in DOMAIN topic \/ i = Len(topic) + 1
        /\ DOMAIN topic \subseteq DOMAIN (topic') /\ Len(topic) + 1 \in DOMAIN (topic')
    BY <2>1
  <2> QED BY <2>1, <2>2
<1>3. LikedBox!Publish({k}) /\ {k} \in SUBSET Key
  BY <1>1, <1>2 DEF LikedBox!Publish
<1> QED BY <1>3 DEF LikedBox!Next

\* Every step of the second consumer, its throttle included, is a step of the same
\* mailbox or invisible to its users.
THEOREM LikedIsMailbox == LikedSpec => LikedImplementsMailbox
<1>1. LikedInit => LikedBox!Init
  <2> SUFFICES ASSUME LikedInit
               PROVE  /\ {topic[i] : i \in DOMAIN topic} = {}
                      /\ Seen = [k \in Key |-> "none"] /\ emails = [k \in Key |-> 0]
    BY DEF LikedBox!Init, Seen
  <2> QED BY DEF LikedInit, Init, Seen
<1>2. LInv /\ [LikedNext]_likedVars => [LikedBox!Next]_(LikedBox!vars)
  <2> SUFFICES ASSUME LInv, [LikedNext]_likedVars PROVE [LikedBox!Next]_(LikedBox!vars)
    OBVIOUS
  <2>1. CASE Environment
    <3>1. ASSUME NEW w \in Worker, Rebalance(w)
          PROVE  UNCHANGED <<topic, delivery, emails>>
      BY <3>1 DEF Rebalance
    <3> QED BY <2>1, <3>1, LikedProduceBox, LikedUnseen DEF Environment
  <2>2. ASSUME NEW w \in Worker, Shared(w)
        PROVE  [LikedBox!Next]_(LikedBox!vars)
    <3>1. CASE Fetch(w) \/ Commit(w) \/ PublishDlq(w) \/ FlushDlq(w) \/ FetchUser(w)
      <4>1. UNCHANGED <<topic, delivery, emails>>
        BY <3>1 DEF Fetch, Commit, PublishDlq, FlushDlq, FetchUser, kafkaVars
      <4> QED BY <4>1, LikedUnseen
    <3> QED BY <2>2, <3>1, LikedReserveBox, LikedFinishBox DEF Shared
  <2>3. ASSUME NEW w \in Worker,
               CheckThrottle(w) \/ LoadByName(w) \/ SetThrottle(w) \/ Die(w)
        PROVE  [LikedBox!Next]_(LikedBox!vars)
    <3>1. UNCHANGED <<topic, delivery, emails>>
      BY <2>3 DEF CheckThrottle, LoadByName, SetThrottle, Die, Crash, kafkaVars
    <3> QED BY <3>1, LikedUnseen
  <2>4. ASSUME NEW a \in Author, Expire(a)
        PROVE  [LikedBox!Next]_(LikedBox!vars)
    <3>1. UNCHANGED <<topic, delivery, emails>>
      BY <2>4 DEF Expire, vars
    <3> QED BY <3>1, LikedUnseen
  <2>5. CASE UNCHANGED likedVars
    <3>1. UNCHANGED <<topic, delivery, emails>>
      BY <2>5 DEF likedVars
    <3> QED BY <3>1, LikedUnseen
  <2> QED
    BY <2>1, <2>2, <2>3, <2>4, <2>5, LikedSendBox, LikedFinishBox DEF LikedNext
<1> QED
  BY <1>1, <1>2, LikedInvariant, PTL DEF LikedSpec, LikedImplementsMailbox, LikedBox!Spec

-----------------------------------------------------------------------------
(* Both consumers: what is committed has been handled *)

\* The types of the loop that both consumers share.
LoopTypes ==
  /\ topic \in Seq(Key) /\ committed \in 0..Len(topic)
  /\ pc \in [Worker -> LikedSteps] /\ job \in [Worker -> JobType]
  /\ \A w \in Worker : pc[w] # "idle" => job[w].offset \in 1..Len(topic)
  /\ delivery \in [Key -> {"none", "PENDING", "THROTTLED"} \cup Final]
  /\ dlqBuffer \in [Worker -> SUBSET Key]

\* Who has not lost the partition works at the message after the committed offset.
OffsetsOK ==
  \A w \in Worker : pc[w] # "idle" /\ ~job[w].revoked =>
    owner = w /\ job[w].offset = committed + 1

\* The worker's message has a row, or a dead letter that the worker has yet to send.
Settled(w) == delivery[KeyOf(w)] # "none" \/ KeyOf(w) \in dlq \cup dlqBuffer[w]

SettledOK == \A w \in Worker : pc[w] \in {"commit", "settle"} => Settled(w)

LoopInv == LoopTypes /\ OffsetsOK /\ SettledOK

LEMMA LoopTypesHold ==
  /\ TypeOK => LoopTypes
  /\ LikedTypes /\ dlqBuffer \in [Worker -> SUBSET Key] => LoopTypes
<1>1. TypeOK => LoopTypes
  BY DEF TypeOK, LoopTypes, LikedSteps, JobType
<1>2. LikedTypes /\ dlqBuffer \in [Worker -> SUBSET Key] => LoopTypes
  BY DEF LikedTypes, LoopTypes
<1> QED BY <1>1, <1>2

LEMMA LoopKey ==
  ASSUME LoopTypes, NEW w \in Worker, pc[w] # "idle"
  PROVE  KeyOf(w) \in Key
BY DEF LoopTypes, KeyOf

\* Rows and dead letters stay, but for what a worker that goes idle had not sent.
RecordsStay(w) ==
  /\ \A k \in Key : delivery[k] # "none" => delivery'[k] # "none"
  /\ dlq \subseteq dlq'
  /\ \A v \in Worker : v # w => dlqBuffer'[v] = dlqBuffer[v]

\* Worker w goes on with its message, or drops it.
GoesOn(w) ==
  /\ \A v \in Worker : v # w => pc'[v] = pc[v] /\ job'[v] = job[v]
  /\ pc'[w] # "idle" => /\ pc[w] # "idle" /\ job'[w].offset = job[w].offset
                        /\ job'[w].revoked = job[w].revoked
  /\ UNCHANGED <<topic, committed, owner>>
  /\ RecordsStay(w)
  /\ pc'[w] \in {"commit", "settle"} => Settled(w)'

LEMMA OthersSettled ==
  ASSUME LoopInv, NEW w \in Worker, NEW v \in Worker, v # w, RecordsStay(w),
         pc'[v] = pc[v], job'[v] = job[v], pc[v] # "idle" => KeyOf(v)' = KeyOf(v),
         pc'[v] \in {"commit", "settle"}
  PROVE  Settled(v)'
<1>1. KeyOf(v) \in Key /\ KeyOf(v)' = KeyOf(v) /\ Settled(v)
  BY LoopKey DEF LoopInv, SettledOK
<1> QED BY <1>1 DEF Settled, RecordsStay

LEMMA GoesOnInv ==
  ASSUME LoopInv, LoopTypes', NEW w \in Worker, GoesOn(w)
  PROVE  LoopInv'
<1>1. OffsetsOK'
  BY DEF GoesOn, OffsetsOK, LoopInv
<1>2. SettledOK'
  <2> SUFFICES ASSUME NEW v \in Worker, pc'[v] \in {"commit", "settle"} PROVE Settled(v)'
    BY DEF SettledOK
  <2>1. CASE v = w
    BY <2>1 DEF GoesOn
  <2>2. CASE v # w
    <3>1. pc'[v] = pc[v] /\ job'[v] = job[v] /\ KeyOf(v)' = KeyOf(v) /\ RecordsStay(w)
      BY <2>2 DEF GoesOn, KeyOf
    <3> QED BY <2>2, <3>1, OthersSettled
  <2> QED BY <2>1, <2>2
<1> QED BY <1>1, <1>2 DEF LoopInv

\* A raised exception leaves the worker at its message.
LEMMA RaisedGoesOn ==
  ASSUME LoopTypes, NEW w \in Worker, pc[w] # "idle", RaiseRetryable(w) \/ RaiseInvalid(w)
  PROVE  /\ \A v \in Worker : v # w => pc'[v] = pc[v] /\ job'[v] = job[v]
         /\ pc'[w] \in {"reserve", "dlq"} /\ job'[w].offset = job[w].offset
         /\ job'[w].revoked = job[w].revoked
BY DEF LoopTypes, JobType, RaiseRetryable, RaiseInvalid, AfterRetryable, Goto

LEMMA RowWritten ==
  ASSUME LoopTypes, NEW w \in Worker, pc[w] # "idle", NEW status, status # "none",
         delivery' = [delivery EXCEPT ![KeyOf(w)] = status]
  PROVE  delivery'[KeyOf(w)] # "none" /\ \A k \in Key : delivery[k] # "none" => delivery'[k] # "none"
BY LoopKey DEF LoopTypes

LEMMA LoopGoesOn ==
  ASSUME LoopTypes, NEW w \in Worker,
         \/ PublishDlq(w) \/ Reserve(w) \/ ReserveRaises(w) \/ LoadTemplate(w)
         \/ FailTemplate(w) \/ FetchUser(w) \/ FailUser(w) \/ SendEmail(w)
         \/ RecordDelivery(w) \/ Crash(w)
  PROVE  GoesOn(w)
<1> USE DEF kafkaVars, dlqVars
<1>1. CASE PublishDlq(w)
  <2>1. /\ pc' = [pc EXCEPT ![w] = "commit"] /\ pc[w] = "dlq"
        /\ dlqBuffer' = [dlqBuffer EXCEPT ![w] = @ \cup {KeyOf(w)}]
        /\ UNCHANGED <<topic, committed, owner, job, delivery, dlq>>
    BY <1>1 DEF PublishDlq, Goto
  <2>2. KeyOf(w)' = KeyOf(w)
    BY <2>1 DEF KeyOf
  <2> QED BY <2>1, <2>2 DEF GoesOn, RecordsStay, Settled, LoopTypes
<1>2. CASE Reserve(w)
  <2>1. /\ pc[w] = "reserve" /\ UNCHANGED <<topic, committed, owner, job, dlqBuffer, dlq>>
        /\ \/ /\ delivery' = [delivery EXCEPT ![KeyOf(w)] = "PENDING"]
              /\ pc' = [pc EXCEPT ![w] = "template"]
           \/ /\ delivery[KeyOf(w)] # "none" /\ UNCHANGED delivery
              /\ pc' = [pc EXCEPT ![w] = "commit"]
    BY <1>2 DEF Reserve, Goto, KeyFree
  <2>2. KeyOf(w)' = KeyOf(w)
    BY <2>1 DEF KeyOf
  <2>3. \A k \in Key : delivery[k] # "none" => delivery'[k] # "none"
    BY <2>1, RowWritten
  <2> QED BY <2>1, <2>2, <2>3 DEF GoesOn, RecordsStay, Settled, LoopTypes
<1>3. CASE ReserveRaises(w)
  <2>1. /\ pc[w] = "reserve" /\ RaiseRetryable(w) /\ UNCHANGED <<topic, committed, owner, dlqBuffer, dlq>>
        /\ UNCHANGED delivery \/ delivery' = [delivery EXCEPT ![KeyOf(w)] = "PENDING"]
    BY <1>3 DEF ReserveRaises
  <2>2. \A k \in Key : delivery[k] # "none" => delivery'[k] # "none"
    BY <2>1, RowWritten
  <2> QED BY <2>1, <2>2, RaisedGoesOn DEF GoesOn, RecordsStay
<1>4. CASE LoadTemplate(w) \/ FetchUser(w)
  <2>1. /\ pc[w] # "idle" /\ UNCHANGED <<topic, committed, owner, dlqBuffer, dlq, delivery>>
        /\ \/ RaiseRetryable(w) \/ RaiseInvalid(w)
           \/ /\ UNCHANGED job
              /\ \E step \in {"user", "notfound", "send", "failed"} : pc' = [pc EXCEPT ![w] = step]
    BY <1>4 DEF LoadTemplate, FetchUser, Goto
  <2> QED BY <2>1, RaisedGoesOn DEF GoesOn, RecordsStay, LoopTypes
<1>5. CASE FailTemplate(w)
  <2>1. /\ pc[w] # "idle" /\ UNCHANGED <<topic, committed, owner, dlqBuffer, dlq>>
        /\ \/ RaiseRetryable(w) /\ UNCHANGED delivery
           \/ /\ UNCHANGED job /\ pc' = [pc EXCEPT ![w] = "dlq"]
              /\ delivery' = [delivery EXCEPT ![KeyOf(w)] = "FAILED"]
    BY <1>5 DEF FailTemplate, Goto
  <2>2. \A k \in Key : delivery[k] # "none" => delivery'[k] # "none"
    BY <2>1, RowWritten
  <2> QED BY <2>1, <2>2, RaisedGoesOn DEF GoesOn, RecordsStay, LoopTypes
<1>6. CASE FailUser(w)
  <2>1. /\ pc[w] # "idle" /\ UNCHANGED <<topic, committed, owner, job, dlqBuffer, dlq>>
        /\ pc' = [pc EXCEPT ![w] = "dlq"]
        /\ UNCHANGED delivery \/ delivery' = [delivery EXCEPT ![KeyOf(w)] = "FAILED"]
    BY <1>6 DEF FailUser, Goto
  <2>2. \A k \in Key : delivery[k] # "none" => delivery'[k] # "none"
    BY <2>1, RowWritten
  <2> QED BY <2>1, <2>2 DEF GoesOn, RecordsStay, LoopTypes
<1>7. CASE SendEmail(w)
  <2>1. /\ pc[w] = "send" /\ pc' = [pc EXCEPT ![w] = "record"]
        /\ \E ok \in BOOLEAN : job' = [job EXCEPT ![w].ok = ok]
        /\ UNCHANGED <<topic, committed, owner, delivery, dlqBuffer, dlq>>
    BY <1>7 DEF SendEmail, Goto
  <2> QED BY <2>1 DEF GoesOn, RecordsStay, LoopTypes, JobType
<1>8. CASE RecordDelivery(w)
  <2>1. /\ pc[w] = "record" /\ UNCHANGED <<topic, committed, owner, job, dlqBuffer, dlq>>
        /\ \/ /\ \E step \in {"commit", "dlq"} : pc' = [pc EXCEPT ![w] = step]
              /\ delivery' = [delivery EXCEPT ![KeyOf(w)] = RecordedStatus(w)]
           \/ pc' = [pc EXCEPT ![w] = "dlq"] /\ UNCHANGED delivery
    BY <1>8 DEF RecordDelivery, Goto
  <2>2. KeyOf(w)' = KeyOf(w) /\ RecordedStatus(w) # "none"
    BY <2>1 DEF KeyOf, RecordedStatus
  <2>3. /\ \A k \in Key : delivery[k] # "none" => delivery'[k] # "none"
        /\ UNCHANGED delivery \/ delivery'[KeyOf(w)] # "none"
    BY <2>1, <2>2, RowWritten
  <2>4. CASE UNCHANGED delivery /\ pc' = [pc EXCEPT ![w] = "dlq"]
    BY <2>1, <2>4 DEF GoesOn, RecordsStay, LoopTypes
  <2>5. CASE delivery'[KeyOf(w)] # "none"
    BY <2>1, <2>2, <2>3, <2>5 DEF GoesOn, RecordsStay, LoopTypes, Settled
  <2> QED BY <2>1, <2>2, <2>4, <2>5, RowWritten
<1>9. CASE Crash(w)
  <2>1. /\ pc' = [pc EXCEPT ![w] = "idle"] /\ job' = [job EXCEPT ![w] = NoJob]
        /\ dlqBuffer' = [dlqBuffer EXCEPT ![w] = {}]
        /\ UNCHANGED <<topic, committed, owner, delivery, dlq>>
    BY <1>9 DEF Crash, Goto
  <2> QED BY <2>1 DEF GoesOn, RecordsStay, LoopTypes
<1> QED BY <1>1, <1>2, <1>3, <1>4, <1>5, <1>6, <1>7, <1>8, <1>9

LEMMA FetchOffsets ==
  ASSUME LoopInv, LoopTypes', NEW w \in Worker, Fetch(w)
  PROVE  LoopInv'
<1>1. /\ pc' = [pc EXCEPT ![w] = "reserve"] /\ owner = w
      /\ job' = [job EXCEPT ![w] = [NoJob EXCEPT !.offset = committed + 1]]
      /\ UNCHANGED <<topic, committed, owner, delivery, dlqBuffer, dlq>>
  BY DEF Fetch, Goto, kafkaVars, dlqVars
<1>2. /\ \A v \in Worker : v # w => pc'[v] = pc[v] /\ job'[v] = job[v]
      /\ pc'[w] = "reserve" /\ job'[w].offset = committed + 1
  BY <1>1 DEF LoopInv, LoopTypes, NoJob
<1>3. OffsetsOK'
  BY <1>1, <1>2 DEF LoopInv, OffsetsOK
<1>4. RecordsStay(w)
  BY <1>1 DEF RecordsStay
<1>5. SettledOK'
  <2> SUFFICES ASSUME NEW v \in Worker, pc'[v] \in {"commit", "settle"} PROVE Settled(v)'
    BY DEF SettledOK
  <2>1. v # w
    BY <1>2
  <2>2. KeyOf(v)' = KeyOf(v)
    BY <1>1, <1>2, <2>1 DEF KeyOf
  <2> QED BY <1>2, <1>4, <2>1, <2>2, OthersSettled
<1> QED BY <1>3, <1>5 DEF LoopInv

LEMMA CommitOffsets ==
  ASSUME LoopInv, LoopTypes', NEW w \in Worker, Commit(w)
  PROVE  /\ LoopInv'
         /\ committed' # committed => /\ committed' = committed + 1 /\ committed' <= Len(topic)
                                      /\ Handled(topic[committed'])
<1>1. /\ pc[w] = "commit" /\ pc' = [pc EXCEPT ![w] = "idle"] /\ job' = [job EXCEPT ![w] = NoJob]
      /\ committed' = IF job[w].revoked THEN committed ELSE job[w].offset
      /\ UNCHANGED <<topic, owner, delivery, dlqBuffer, dlq>>
  BY DEF Commit, Goto, dlqVars
<1>2. /\ \A v \in Worker : v # w => pc'[v] = pc[v] /\ job'[v] = job[v]
      /\ pc'[w] = "idle"
  BY <1>1 DEF LoopInv, LoopTypes
<1>3. OffsetsOK'
  BY <1>1, <1>2 DEF LoopInv, OffsetsOK
<1>4. RecordsStay(w)
  BY <1>1 DEF RecordsStay
<1>5. SettledOK'
  <2> SUFFICES ASSUME NEW v \in Worker, pc'[v] \in {"commit", "settle"} PROVE Settled(v)'
    BY DEF SettledOK
  <2>1. v # w
    BY <1>2
  <2>2. KeyOf(v)' = KeyOf(v)
    BY <1>1, <1>2, <2>1 DEF KeyOf
  <2> QED BY <1>2, <1>4, <2>1, <2>2, OthersSettled
<1>6. ASSUME committed' # committed
      PROVE  /\ committed' = committed + 1 /\ committed' <= Len(topic)
             /\ Handled(topic[committed'])
  <2>1. committed' = job[w].offset /\ job[w].offset = committed + 1 /\ Settled(w)
    BY <1>1, <1>6 DEF LoopInv, OffsetsOK, SettledOK
  <2>2. job[w].offset <= Len(topic)
    BY <1>1 DEF LoopInv, LoopTypes
  <2> QED BY <2>1, <2>2 DEF Settled, KeyOf, Handled
<1> QED BY <1>3, <1>5, <1>6 DEF LoopInv

\* Steps that move no worker.
LEMMA StillOffsets ==
  ASSUME LoopInv, LoopTypes', UNCHANGED <<committed, pc, delivery>>,
         \A v \in Worker : job'[v].offset = job[v].offset,
         \A v \in Worker : pc[v] # "idle" /\ ~job'[v].revoked => ~job[v].revoked /\ owner' = owner,
         \A v \in Worker : pc[v] # "idle" => topic'[job[v].offset] = topic[job[v].offset],
         \A v \in Worker : dlq \cup dlqBuffer[v] \subseteq dlq' \cup dlqBuffer'[v]
  PROVE  LoopInv'
<1>1. OffsetsOK'
  BY DEF LoopInv, OffsetsOK
<1>2. SettledOK'
  <2> SUFFICES ASSUME NEW v \in Worker, pc[v] \in {"commit", "settle"} PROVE Settled(v)'
    BY DEF SettledOK
  <2>1. KeyOf(v)' = KeyOf(v) /\ Settled(v)
    BY DEF KeyOf, LoopInv, SettledOK
  <2> QED BY <2>1 DEF Settled
<1> QED BY <1>1, <1>2 DEF LoopInv

LEMMA ProduceOffsets ==
  ASSUME LoopInv, LoopTypes', NEW k \in Key, Produce(k)
  PROVE  LoopInv'
<1>1. /\ topic' = Append(topic, k)
      /\ UNCHANGED <<committed, owner, pc, job, delivery, dlqBuffer, dlq>>
  BY DEF Produce, dlqVars
<1>2. \A v \in Worker : pc[v] # "idle" => topic'[job[v].offset] = topic[job[v].offset]
  BY <1>1 DEF LoopInv, LoopTypes
<1> QED BY <1>1, <1>2, StillOffsets

LEMMA FlushOffsets ==
  ASSUME LoopInv, LoopTypes', NEW w \in Worker, FlushDlq(w)
  PROVE  LoopInv'
<1>1. /\ dlq' = dlq \cup dlqBuffer[w] /\ dlqBuffer' = [dlqBuffer EXCEPT ![w] = {}]
      /\ UNCHANGED <<topic, committed, owner, pc, job, delivery>>
  BY DEF FlushDlq, kafkaVars
<1>2. \A v \in Worker : dlq \cup dlqBuffer[v] \subseteq dlq' \cup dlqBuffer'[v]
  BY <1>1 DEF LoopInv, LoopTypes
<1> QED BY <1>1, <1>2, StillOffsets

LEMMA RebalanceOffsets ==
  ASSUME LoopInv, LoopTypes', NEW w \in Worker, Rebalance(w)
  PROVE  LoopInv'
<1>1. /\ job' = [v \in Worker |-> IF pc[v] = "idle" THEN job[v] ELSE [job[v] EXCEPT !.revoked = TRUE]]
      /\ UNCHANGED <<topic, committed, pc, delivery, dlqBuffer, dlq>>
  BY DEF Rebalance, dlqVars
<1>2. \A v \in Worker : job'[v].offset = job[v].offset /\ (pc[v] # "idle" => job'[v].revoked)
  BY <1>1 DEF LoopInv, LoopTypes, JobType
<1> QED BY <1>1, <1>2, StillOffsets

\* A step commits only what is handled, keeps the messages that are there, and takes a row
\* or a dead letter away only in a crash.
Careful ==
  /\ committed' # committed => /\ committed' = committed + 1 /\ committed' <= Len(topic)
                               /\ Handled(topic[committed'])
  /\ \A n \in 1..Len(topic) : topic'[n] = topic[n]
  /\ "crash" \notin Fault => \A k \in Key : Handled(k) => Handled(k)'

LEMMA HandledStays ==
  ASSUME \A k \in Key : delivery[k] # "none" => delivery'[k] # "none",
         \A v \in Worker : dlq \cup dlqBuffer[v] \subseteq dlq' \cup dlqBuffer'[v],
         NEW k \in Key, Handled(k)
  PROVE  Handled(k)'
<1>1. CASE delivery[k] # "none"
  BY <1>1 DEF Handled
<1>2. CASE k \in dlq
  <2>1. PICK w \in Worker : TRUE
    BY WorkerAssumption
  <2>2. k \in dlq' \cup dlqBuffer'[w]
    BY <1>2, <2>1
  <2> QED BY <2>2 DEF Handled
<1>3. ASSUME NEW v \in Worker, k \in dlqBuffer[v]
      PROVE  Handled(k)'
  <2>1. k \in dlq' \cup dlqBuffer'[v]
    BY <1>3
  <2> QED BY <2>1 DEF Handled
<1> QED BY <1>1, <1>2, <1>3 DEF Handled

LEMMA GoesOnCareful ==
  ASSUME LoopInv, LoopTypes', NEW w \in Worker, GoesOn(w),
         "crash" \notin Fault => dlqBuffer[w] \subseteq dlqBuffer'[w]
  PROVE  LoopInv' /\ Careful
<1>1. LoopInv'
  BY GoesOnInv
<1>2. ASSUME "crash" \notin Fault, NEW k \in Key, Handled(k)
      PROVE  Handled(k)'
  <2>1. \A v \in Worker : dlq \cup dlqBuffer[v] \subseteq dlq' \cup dlqBuffer'[v]
    BY <1>2 DEF GoesOn, RecordsStay
  <2> QED BY <1>2, <2>1, HandledStays DEF GoesOn, RecordsStay
<1> QED BY <1>1, <1>2 DEF Careful, GoesOn

LEMMA SharedCareful ==
  ASSUME LoopInv, LoopTypes', NEW w \in Worker,
         \/ PublishDlq(w) \/ Reserve(w) \/ ReserveRaises(w) \/ LoadTemplate(w)
         \/ FailTemplate(w) \/ FetchUser(w) \/ FailUser(w) \/ SendEmail(w)
         \/ RecordDelivery(w) \/ Crash(w)
  PROVE  LoopInv' /\ Careful
<1>1. GoesOn(w)
  BY LoopGoesOn DEF LoopInv
<1>2. "crash" \notin Fault => dlqBuffer[w] \subseteq dlqBuffer'[w]
  <2>1. CASE PublishDlq(w)
    BY <2>1 DEF PublishDlq, LoopInv, LoopTypes
  <2>2. CASE Crash(w)
    BY <2>2 DEF Crash
  <2>3. CASE \/ Reserve(w) \/ ReserveRaises(w) \/ LoadTemplate(w) \/ FailTemplate(w)
             \/ FetchUser(w) \/ FailUser(w) \/ SendEmail(w) \/ RecordDelivery(w)
    BY <2>3 DEF Reserve, ReserveRaises, LoadTemplate, FailTemplate, FetchUser, FailUser,
       SendEmail, RecordDelivery, dlqVars
  <2> QED BY <2>1, <2>2, <2>3
<1> QED BY <1>1, <1>2, GoesOnCareful

LEMMA LoopCareful ==
  ASSUME LoopInv, LoopTypes', NEW w \in Worker,
         Fetch(w) \/ Commit(w) \/ FlushDlq(w) \/ Rebalance(w) \/ \E k \in Key : Produce(k)
  PROVE  LoopInv' /\ Careful
<1>1. LoopInv'
  BY FetchOffsets, CommitOffsets, FlushOffsets, RebalanceOffsets, ProduceOffsets
<1>2. committed' # committed => /\ committed' = committed + 1 /\ committed' <= Len(topic)
                                /\ Handled(topic[committed'])
  <2>1. CASE Commit(w)
    BY <2>1, CommitOffsets
  <2>2. CASE ~Commit(w)
    BY <2>2 DEF Fetch, FlushDlq, Rebalance, Produce, kafkaVars
  <2> QED BY <2>1, <2>2
<1>3. \A n \in 1..Len(topic) : topic'[n] = topic[n]
  BY DEF Fetch, Commit, FlushDlq, Rebalance, Produce, kafkaVars, LoopInv, LoopTypes
<1>4. UNCHANGED delivery
  BY DEF Fetch, Commit, FlushDlq, Rebalance, Produce
<1>5. \A v \in Worker : dlq \cup dlqBuffer[v] \subseteq dlq' \cup dlqBuffer'[v]
  BY DEF Fetch, Commit, FlushDlq, Rebalance, Produce, dlqVars, LoopInv, LoopTypes
<1>6. \A k \in Key : Handled(k) => Handled(k)'
  BY <1>4, <1>5, HandledStays
<1> QED BY <1>1, <1>2, <1>3, <1>6 DEF Careful

LEMMA IdleCareful ==
  ASSUME LoopInv, UNCHANGED vars
  PROVE  LoopInv' /\ Careful
<1>1. UNCHANGED <<topic, committed, owner, pc, job, delivery, dlqBuffer, dlq>>
  BY DEF vars, kafkaVars, dlqVars
<1>2. LoopInv'
  BY <1>1 DEF LoopInv, LoopTypes, OffsetsOK, SettledOK, Settled, KeyOf
<1> QED BY <1>1, <1>2 DEF Careful, Handled

LEMMA LoopInit == Init /\ LoopTypes => LoopInv /\ CommittedIsHandled
BY DEF Init, LoopInv, OffsetsOK, SettledOK, CommittedIsHandled

LEMMA StaysHandled ==
  ASSUME LoopInv, LoopInv', Careful, CommittedIsHandled
  PROVE  CommittedIsHandled'
<1> SUFFICES ASSUME "crash" \notin Fault, NEW n \in 1..committed'
             PROVE  Handled(topic[n])'
  BY DEF CommittedIsHandled
<1>1. committed \in 0..Len(topic) /\ Len(topic) \in Nat /\ committed' \in Nat
  BY DEF LoopInv, LoopTypes
<1>2. n \in 1..Len(topic) /\ Handled(topic[n])
  <2>1. CASE n \in 1..committed
    BY <1>1, <2>1 DEF CommittedIsHandled
  <2>2. CASE n \notin 1..committed
    BY <1>1, <2>2 DEF Careful
  <2> QED BY <2>1, <2>2
<1>3. PICK k \in Key : k = topic[n] /\ topic'[n] = k
  BY <1>2 DEF Careful, LoopInv, LoopTypes
<1>4. Handled(k)'
  BY <1>2, <1>3 DEF Careful
<1> QED BY <1>3, <1>4 DEF Handled

LEMMA DeliveryCareful ==
  ASSUME DInv, LoopInv, [Next]_vars
  PROVE  LoopInv' /\ Careful
<1>1. LoopTypes'
  <2>1. TypeOK' => LoopTypes'
    BY LoopTypesHold, PTL
  <2> QED BY <2>1, NextInv DEF DInv
<1>2. ASSUME NEW w \in Worker, Step(w) \/ FlushDlq(w) \/ Crash(w) \/ Rebalance(w)
      PROVE  LoopInv' /\ Careful
  BY <1>1, <1>2, SharedCareful, LoopCareful DEF Step
<1>3. ASSUME NEW k \in Key, Produce(k)
      PROVE  LoopInv' /\ Careful
  <2>1. PICK w \in Worker : TRUE
    BY WorkerAssumption
  <2> QED BY <1>1, <1>3, <2>1, LoopCareful
<1> QED BY <1>2, <1>3, IdleCareful DEF Next

LEMMA DeliveryLoop == Spec => []LoopInv
<1>1. Init => LoopInv
  BY InitInv, LoopTypesHold, LoopInit DEF DInv
<1>2. DInv /\ LoopInv /\ [Next]_vars => LoopInv'
  BY DeliveryCareful
<1> QED BY <1>1, <1>2, DeliveryInvariant, PTL DEF Spec

\* The offset moves message by message, and over none that has neither a row nor a dead
\* letter, whichever workers were at it before and after a rebalance (run commits
\* after _process_message).
THEOREM CommitsInOrder == Spec => CommitsFollowHandling
<1>1. DInv /\ LoopInv /\ [Next]_vars =>
        [committed' # committed =>
           committed' = committed + 1 /\ Handled(topic[committed'])]_vars
  BY DeliveryCareful DEF Careful
<1> QED BY <1>1, DeliveryInvariant, DeliveryLoop, PTL DEF Spec, CommitsFollowHandling

\* What was committed keeps its row or its dead letter for ever, unless processes die: the
\* dead letters in a producer's buffer are all there is to lose (_publish_dlq).
THEOREM CrashAloneLoses == Spec => []CommittedIsHandled
<1>1. Init => CommittedIsHandled
  BY InitInv, LoopTypesHold, LoopInit DEF DInv
<1>2. DInv /\ LoopInv /\ [Next]_vars /\ CommittedIsHandled => CommittedIsHandled'
  BY DeliveryCareful, StaysHandled
<1> QED BY <1>1, <1>2, DeliveryInvariant, DeliveryLoop, PTL DEF Spec

-----------------------------------------------------------------------------
(* The review_liked consumer commits as carefully *)

LEMMA DlqTyped ==
  ASSUME LoopTypes, [LikedNext]_likedVars
  PROVE  dlqBuffer' \in [Worker -> SUBSET Key]
<1>1. ASSUME NEW w \in Worker, PublishDlq(w)
      PROVE  dlqBuffer' \in [Worker -> SUBSET Key]
  <2>1. KeyOf(w) \in Key
    BY <1>1, LoopKey DEF PublishDlq
  <2> QED BY <1>1, <2>1 DEF PublishDlq, LoopTypes
<1>2. ASSUME NEW w \in Worker, FlushDlq(w) \/ Crash(w)
      PROVE  dlqBuffer' \in [Worker -> SUBSET Key]
  BY <1>2 DEF FlushDlq, Crash, LoopTypes
<1>3. ASSUME NEW w \in Worker, Shared(w)
      PROVE  dlqBuffer' \in [Worker -> SUBSET Key]
  <2>1. CASE \/ Fetch(w) \/ Commit(w) \/ Reserve(w) \/ ReserveRaises(w) \/ FailTemplate(w)
             \/ FetchUser(w) \/ FailUser(w)
    BY <2>1 DEF Fetch, Commit, Reserve, ReserveRaises, FailTemplate, FetchUser, FailUser,
       dlqVars, LoopTypes
  <2> QED BY <1>1, <1>2, <1>3, <2>1 DEF Shared
<1>4. ASSUME NEW w \in Worker,
             \/ CheckThrottle(w) \/ MarkThrottled(w) \/ LoadByName(w) \/ Send(w)
             \/ Record(w) \/ SetThrottle(w)
      PROVE  dlqBuffer' \in [Worker -> SUBSET Key]
  BY <1>4 DEF CheckThrottle, MarkThrottled, LoadByName, Send, SendEmail, Record, SetThrottle,
     dlqVars, LoopTypes
<1>5. CASE Environment \/ (\E a \in Author : Expire(a)) \/ UNCHANGED likedVars
  BY <1>5 DEF Environment, Produce, Rebalance, Expire, likedVars, vars, dlqVars, LoopTypes
<1> QED BY <1>2, <1>3, <1>4, <1>5 DEF LikedNext, Die

LEMMA ThrottleGoesOn ==
  ASSUME LInv, LoopInv, NEW w \in Worker,
         \/ CheckThrottle(w) \/ MarkThrottled(w) \/ LoadByName(w) \/ Record(w) \/ SetThrottle(w)
  PROVE  GoesOn(w) /\ UNCHANGED dlqBuffer
<1> USE DEF kafkaVars, dlqVars
<1>0. LoopTypes
  BY DEF LoopInv
<1>1. CASE CheckThrottle(w)
  <2>1. /\ pc[w] = "template" /\ \E step \in {"throttled", "load", "dlq"} : pc' = [pc EXCEPT ![w] = step]
        /\ UNCHANGED <<topic, committed, owner, job, delivery, dlqBuffer, dlq>>
    BY <1>1 DEF CheckThrottle, Goto
  <2> QED BY <1>0, <2>1 DEF GoesOn, RecordsStay, LoopTypes
<1>2. CASE MarkThrottled(w)
  <2>1. /\ pc[w] = "throttled" /\ UNCHANGED <<topic, committed, owner, dlqBuffer, dlq>>
        /\ \/ RaiseRetryable(w) /\ UNCHANGED delivery
           \/ /\ UNCHANGED job /\ pc' = [pc EXCEPT ![w] = "commit"]
              /\ delivery' = [delivery EXCEPT ![KeyOf(w)] = "THROTTLED"]
    BY <1>2 DEF MarkThrottled, Goto
  <2>2. CASE RaiseRetryable(w) /\ UNCHANGED delivery
    BY <1>0, <2>1, <2>2, RaisedGoesOn DEF GoesOn, RecordsStay
  <2>3. CASE /\ UNCHANGED job /\ pc' = [pc EXCEPT ![w] = "commit"]
             /\ delivery' = [delivery EXCEPT ![KeyOf(w)] = "THROTTLED"]
    <3>1. KeyOf(w)' = KeyOf(w)
      BY <2>1, <2>3 DEF KeyOf
    <3>2. delivery'[KeyOf(w)] # "none" /\ \A k \in Key : delivery[k] # "none" => delivery'[k] # "none"
      BY <1>0, <2>1, <2>3, RowWritten
    <3> QED BY <1>0, <2>1, <2>3, <3>1, <3>2 DEF GoesOn, RecordsStay, Settled, LoopTypes
  <2> QED BY <2>1, <2>2, <2>3
<1>3. CASE LoadByName(w)
  <2>1. /\ pc[w] = "load" /\ UNCHANGED <<topic, committed, owner, delivery, dlqBuffer, dlq>>
        /\ \/ RaiseRetryable(w)
           \/ UNCHANGED job /\ \E step \in {"user", "notfound"} : pc' = [pc EXCEPT ![w] = step]
    BY <1>3 DEF LoadByName, Goto
  <2> QED BY <1>0, <2>1, RaisedGoesOn DEF GoesOn, RecordsStay, LoopTypes
<1>4. CASE Record(w)
  <2>1. /\ pc[w] = "record" /\ UNCHANGED <<topic, committed, owner, job, dlqBuffer, dlq>>
        /\ \/ /\ \E step \in {"settle", "dlq"} : pc' = [pc EXCEPT ![w] = step]
              /\ delivery' = [delivery EXCEPT ![KeyOf(w)] = RecordedStatus(w)]
           \/ pc' = [pc EXCEPT ![w] = "dlq"] /\ UNCHANGED delivery
    BY <1>4 DEF Record, Goto
  <2>2. KeyOf(w)' = KeyOf(w) /\ RecordedStatus(w) # "none"
    BY <2>1 DEF KeyOf, RecordedStatus
  <2>3. CASE pc' = [pc EXCEPT ![w] = "dlq"] /\ UNCHANGED delivery
    BY <1>0, <2>1, <2>3 DEF GoesOn, RecordsStay, LoopTypes
  <2>4. CASE /\ \E step \in {"settle", "dlq"} : pc' = [pc EXCEPT ![w] = step]
             /\ delivery' = [delivery EXCEPT ![KeyOf(w)] = RecordedStatus(w)]
    <3>1. delivery'[KeyOf(w)] # "none" /\ \A k \in Key : delivery[k] # "none" => delivery'[k] # "none"
      BY <1>0, <2>1, <2>2, <2>4, RowWritten
    <3> QED BY <1>0, <2>1, <2>2, <2>4, <3>1 DEF GoesOn, RecordsStay, Settled, LoopTypes
  <2> QED BY <2>1, <2>3, <2>4
<1>5. CASE SetThrottle(w)
  <2>1. /\ pc[w] = "settle" /\ \E step \in {"commit", "dlq"} : pc' = [pc EXCEPT ![w] = step]
        /\ UNCHANGED <<topic, committed, owner, job, delivery, dlqBuffer, dlq>>
    BY <1>5 DEF SetThrottle, Goto
  <2>2. Settled(w) /\ KeyOf(w)' = KeyOf(w)
    BY <2>1 DEF LoopInv, SettledOK, KeyOf
  <2> QED BY <1>0, <2>1, <2>2 DEF GoesOn, RecordsStay, Settled, LoopTypes
<1> QED BY <1>1, <1>2, <1>3, <1>4, <1>5

LEMMA LikedCareful ==
  ASSUME LInv, LoopInv, [LikedNext]_likedVars
  PROVE  LoopInv' /\ Careful
<1>1. LoopTypes'
  <2>1. LikedTypes' /\ dlqBuffer' \in [Worker -> SUBSET Key]
    BY LikedNextInv, DlqTyped DEF LInv, LoopInv
  <2> QED BY <2>1 DEF LikedTypes, LoopTypes
<1>2. ASSUME NEW w \in Worker, Shared(w) \/ Send(w) \/ Die(w)
      PROVE  LoopInv' /\ Careful
  BY <1>1, <1>2, SharedCareful, LoopCareful DEF Shared, Send, Die
<1>3. ASSUME NEW w \in Worker,
             \/ CheckThrottle(w) \/ MarkThrottled(w) \/ LoadByName(w) \/ Record(w) \/ SetThrottle(w)
      PROVE  LoopInv' /\ Careful
  BY <1>1, <1>3, ThrottleGoesOn, GoesOnCareful
<1>4. CASE Environment
  <2>1. PICK w \in Worker : TRUE
    BY WorkerAssumption
  <2> QED BY <1>1, <1>4, <2>1, LoopCareful DEF Environment
<1>5. CASE (\E a \in Author : Expire(a)) \/ UNCHANGED likedVars
  <2>1. UNCHANGED vars
    BY <1>5 DEF Expire, likedVars, vars, kafkaVars, dlqVars
  <2> QED BY <2>1, IdleCareful
<1> QED BY <1>2, <1>3, <1>4, <1>5 DEF LikedNext

LEMMA LikedLoop == LikedSpec => []LoopInv
<1>1. LikedInit => LoopInv
  <2> SUFFICES ASSUME LikedInit PROVE LoopInv
    OBVIOUS
  <2>1. dlqBuffer \in [Worker -> SUBSET Key] /\ LikedTypes /\ Init
    BY LikedInitInv DEF LikedInit, Init, LInv
  <2> QED BY <2>1, LoopTypesHold, LoopInit
<1>2. LInv /\ LoopInv /\ [LikedNext]_likedVars => LoopInv'
  BY LikedCareful
<1> QED BY <1>1, <1>2, LikedInvariant, PTL DEF LikedSpec

\* The consumer of likes commits as carefully: also what it throttles has a row, and what
\* Redis lets it fail at after the email has one too.
THEOREM LikedCommitsInOrder == LikedSpec => CommitsFollowHandling
<1>1. LInv /\ LoopInv /\ [LikedNext]_likedVars =>
        [committed' # committed =>
           committed' = committed + 1 /\ Handled(topic[committed'])]_vars
  BY LikedCareful DEF Careful
<1> QED BY <1>1, LikedInvariant, LikedLoop, PTL DEF LikedSpec, CommitsFollowHandling
=============================================================================
