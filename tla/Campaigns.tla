------------------------------ MODULE Campaigns ------------------------------
(***************************************************************************)
(* A notification campaign from end to end: the notifications API marks it *)
(* QUEUED, one of several scheduler workers claims it, reads the users     *)
(* page by page from the auth service, publishes one keyed message per     *)
(* user and marks the campaign DONE; the delivery worker, represented by   *)
(* what Mailbox promises, emails the users.                                *)
(*                                                                         *)
(* Campaigns are claimed oldest trigger first in the code; the model       *)
(* claims any of the queued ones.                                          *)
(***************************************************************************)
EXTENDS Naturals, Sequences, SequencesExt

CONSTANTS
  Campaign,   \* campaigns
  User,       \* users; they register and are never deleted
  Early,      \* the users who have registered at the start, oldest first
  Scheduler,  \* scheduler workers
  Request,    \* concurrent POST /campaigns/{id}/send requests
  PageSize,   \* users per page of the auth service
  BatchSize,  \* settings.campaign_fanout_batch_size
  Fault,      \* bound: which faults the environment injects
  None        \* no campaign, no scheduler

ASSUME EarlyAssumption == Early \in Seq(User)
ASSUME SizeAssumption == PageSize \in Nat \ {0} /\ BatchSize \in Nat \ {0}
ASSUME FaultAssumption == Fault \subseteq {"crash", "error", "drop"}
ASSUME NoneAssumption == None \notin Campaign \cup Scheduler

VARIABLES
  users,      \* the auth service's users in the order of created_at
  status,     \* notif.campaigns: campaign -> status
  rowLock,    \* campaign -> scheduler whose transaction holds the row, or None
  pc,         \* scheduler -> the step it is about to take
  job,        \* scheduler -> its local variables
  buffer,     \* scheduler -> messages its producer has not sent yet
  request,    \* request -> the DRAFT campaign it loaded, or None
  audience,   \* history: campaign -> users registered when it was last claimed
  lost,       \* history: messages dropped from a buffer and never sent by another run
  published,  \* the topic notifications.delivery, as the set of its keys
  delivery,   \* notif.deliveries: key -> status, or "none"
  emails      \* key -> emails sent for it

apiVars  == <<users, request>>
rowVars  == <<status, rowLock>>
workVars == <<pc, job, buffer>>
boxVars  == <<published, delivery, emails>>
vars == <<users, status, rowLock, pc, job, buffer, request, audience, lost,
          published, delivery, emails>>

-----------------------------------------------------------------------------
Status == {"DRAFT", "QUEUED", "DONE"}

KeyFor_PerScheduler(c, u, s) == <<c, u, s>>

\* The idempotency key of a message.  (The scheduler is an argument to say that the
\* key does not depend on it.)
KeyFor(c, u, s) == <<c, u>>

Keys == {KeyFor(c, u, s) : c \in Campaign, u \in User, s \in Scheduler}

Worker == INSTANCE Mailbox WITH Key <- Keys

\* handled: campaigns done since the job started; todo: users of the page that are
\* still to be published; last: the page was the last one.
NoJob == [campaign |-> None, handled |-> 0, page |-> 0, todo |-> <<>>, last |-> FALSE]

Init ==
  /\ users = Early
  /\ status = [c \in Campaign |-> "DRAFT"]
  /\ rowLock = [c \in Campaign |-> None]
  /\ pc = [s \in Scheduler |-> "idle"]
  /\ job = [s \in Scheduler |-> NoJob]
  /\ buffer = [s \in Scheduler |-> {}]
  /\ request = [r \in Request |-> None]
  /\ audience = [c \in Campaign |-> {}]
  /\ lost = {}
  /\ Worker!Init

Goto(s, step) == pc' = [pc EXCEPT ![s] = step]

SetJob(s, j) == job' = [job EXCEPT ![s] = j]

-----------------------------------------------------------------------------
(* The notifications API and the auth service's users *)

\* created_at is set before the insert commits: a new user may appear before the last.
Register(u) ==
  /\ u \notin ToSet(users)
  /\ \E i \in 1..(Len(users) + 1) : users' = InsertAt(users, i, u)
  /\ UNCHANGED <<rowVars, workVars, request, audience, lost, boxVars>>

\* send_campaign loads the campaign; mark_queued refuses all but a DRAFT.
LoadCampaign(r, c) ==
  /\ request[r] = None
  /\ status[c] = "DRAFT"
  /\ request' = [request EXCEPT ![r] = c]
  /\ UNCHANGED <<users, rowVars, workVars, audience, lost, boxVars>>

\* mark_queued updates the row by its id, whatever its status is by now; the update
\* waits for a scheduler that holds the row.
MarkQueued(r) ==
  LET c == request[r] IN
  /\ c # None
  /\ rowLock[c] = None
  /\ status' = [status EXCEPT ![c] = "QUEUED"]
  /\ request' = [request EXCEPT ![r] = None]
  /\ UNCHANGED <<users, rowLock, workVars, audience, lost, boxVars>>

-----------------------------------------------------------------------------
(* run_queued_campaigns *)

\* The poll interval elapses: a producer is started.
StartJob(s) ==
  /\ pc[s] = "idle"
  /\ Goto(s, "claim")
  /\ UNCHANGED <<apiVars, rowVars, job, buffer, audience, lost, boxVars>>

\* FOR UPDATE SKIP LOCKED passes over a campaign another scheduler is at.
Claimable(c) == status[c] = "QUEUED" /\ rowLock[c] = None

BatchOpen_OffByOne(s) == job[s].handled <= BatchSize

\* The loop of run_queued_campaigns has rounds left.
BatchOpen(s) == job[s].handled < BatchSize

Claim(s, c) ==
  /\ pc[s] = "claim"
  /\ BatchOpen(s)
  /\ Claimable(c)
  /\ rowLock' = [rowLock EXCEPT ![c] = s]
  /\ SetJob(s, [NoJob EXCEPT !.campaign = c, !.handled = job[s].handled])
  /\ audience' = [audience EXCEPT ![c] = ToSet(users)]
  /\ Goto(s, "fetch")
  /\ UNCHANGED <<apiVars, status, buffer, lost, boxVars>>

\* Nothing is left to claim, or the batch is full.
EndBatch(s) ==
  /\ pc[s] = "claim"
  /\ ~BatchOpen(s) \/ \A c \in Campaign : ~Claimable(c)
  /\ SetJob(s, NoJob)
  /\ Goto(s, "stop")
  /\ UNCHANGED <<apiVars, rowVars, buffer, audience, lost, boxVars>>

LastPage_OffByOne(items) == Len(items) <= PageSize

\* iter_user_ids stops after a page that is not full.
LastPage(items) == Len(items) < PageSize

\* GET /users/internal: the page is an offset into the users of this moment.
FetchPage(s) ==
  LET offset == job[s].page * PageSize
      items  == SubSeq(users, offset + 1, IF offset + PageSize < Len(users)
                                            THEN offset + PageSize ELSE Len(users))
  IN
  /\ pc[s] = "fetch"
  /\ SetJob(s, [job[s] EXCEPT !.page = @ + 1, !.todo = items, !.last = LastPage(items)])
  /\ Goto(s, "publish")
  /\ UNCHANGED <<apiVars, rowVars, buffer, audience, lost, boxVars>>

\* producer.send puts the message into the producer's buffer.
Publish(s) ==
  LET j == job[s] IN
  /\ pc[s] = "publish"
  /\ j.todo # <<>>
  /\ buffer' = [buffer EXCEPT ![s] = @ \cup {KeyFor(j.campaign, Head(j.todo), s)}]
  /\ SetJob(s, [j EXCEPT !.todo = Tail(@)])
  /\ UNCHANGED <<apiVars, rowVars, pc, audience, lost, boxVars>>

NextPage(s) ==
  /\ pc[s] = "publish"
  /\ job[s].todo = <<>>
  /\ Goto(s, IF job[s].last THEN "done" ELSE "fetch")
  /\ UNCHANGED <<apiVars, rowVars, job, buffer, audience, lost, boxVars>>

\* _mark_campaign_done and commit, which gives the row back.
MarkDone(s) ==
  LET c == job[s].campaign IN
  /\ pc[s] = "done"
  /\ status' = [status EXCEPT ![c] = "DONE"]
  /\ rowLock' = [rowLock EXCEPT ![c] = None]
  /\ SetJob(s, [NoJob EXCEPT !.handled = job[s].handled + 1])
  /\ Goto(s, "claim")
  /\ UNCHANGED <<apiVars, buffer, audience, lost, boxVars>>

Rollback_Forgotten(s) == rowLock

\* The end of a transaction that was not committed gives its row back.
Rollback(s) == [c \in Campaign |-> IF rowLock[c] = s THEN None ELSE rowLock[c]]

\* An exception of the auth service, the producer or the database: rollback leaves the
\* campaign QUEUED for a later poll, the batch ends.
Fail(s) ==
  /\ "error" \in Fault
  /\ pc[s] \in {"fetch", "publish", "done"}
  /\ rowLock' = Rollback(s)
  /\ SetJob(s, NoJob)
  /\ Goto(s, "stop")
  /\ UNCHANGED <<apiVars, status, buffer, audience, lost, boxVars>>

\* The producer's background task sends what it has.
Flush(s) ==
  /\ buffer[s] # {}
  /\ Worker!Publish(buffer[s])
  /\ lost' = lost \ buffer[s]
  /\ buffer' = [buffer EXCEPT ![s] = {}]
  /\ UNCHANGED <<apiVars, rowVars, pc, job, audience>>

\* producer.stop() returns when the buffer has been sent.
StopJob(s) ==
  /\ pc[s] = "stop"
  /\ buffer[s] = {}
  /\ Goto(s, "idle")
  /\ UNCHANGED <<apiVars, rowVars, job, buffer, audience, lost, boxVars>>

\* A batch the broker does not accept in time is dropped; the future that would tell
\* is not awaited.
DropBatch(s) ==
  /\ "drop" \in Fault
  /\ buffer[s] # {}
  /\ lost' = lost \cup (buffer[s] \ published)
  /\ buffer' = [buffer EXCEPT ![s] = {}]
  /\ UNCHANGED <<apiVars, rowVars, pc, job, audience, boxVars>>

\* The process dies: its transaction is rolled back, its buffer is gone.  (With nothing
\* left to do a death is StopJob.)
Crash(s) ==
  /\ "crash" \in Fault
  /\ pc[s] \in {"claim", "fetch", "publish", "done"} \/ buffer[s] # {}
  /\ Goto(s, "idle")
  /\ SetJob(s, NoJob)
  /\ rowLock' = Rollback(s)
  /\ lost' = lost \cup (buffer[s] \ published)
  /\ buffer' = [buffer EXCEPT ![s] = {}]
  /\ UNCHANGED <<apiVars, status, audience, boxVars>>

-----------------------------------------------------------------------------
\* The delivery worker takes one of its steps for a key (see Delivery).
Deliver(k) == Worker!Handle(k) /\ UNCHANGED <<apiVars, rowVars, workVars, audience, lost>>

Run(s) ==
  \/ \E c \in Campaign : Claim(s, c)
  \/ EndBatch(s) \/ FetchPage(s) \/ Publish(s) \/ NextPage(s) \/ MarkDone(s) \/ StopJob(s)

Next ==
  \/ \E u \in User : Register(u)
  \/ \E r \in Request : MarkQueued(r) \/ \E c \in Campaign : LoadCampaign(r, c)
  \/ \E s \in Scheduler : \/ StartJob(s) \/ Run(s) \/ Fail(s) \/ Flush(s)
                          \/ DropBatch(s) \/ Crash(s)
  \/ \E k \in Keys : Deliver(k)

Spec == Init /\ [][Next]_vars

\* Schedulers poll for ever and keep running; their producers keep sending.
Fairness ==
  /\ \A s \in Scheduler : WF_vars(StartJob(s)) /\ WF_vars(Run(s)) /\ WF_vars(Flush(s))

FairSpec == Spec /\ Fairness

-----------------------------------------------------------------------------
(* Properties *)

\* Every variable keeps the shape its table, queue or local variable has, and whoever
\* works at a campaign holds its row, so that one does at a time (FOR UPDATE SKIP LOCKED).
TypeOK ==
  /\ users \in Seq(User)
  /\ status \in [Campaign -> Status]
  /\ rowLock \in [Campaign -> Scheduler \cup {None}]
  /\ pc \in [Scheduler -> {"idle", "claim", "fetch", "publish", "done", "stop"}]
  /\ \A s \in Scheduler : /\ job[s].campaign \in Campaign \cup {None}
                          /\ job[s].handled \in 0..BatchSize
                          /\ job[s].todo \in Seq(User)
                          /\ job[s].campaign # None => rowLock[job[s].campaign] = s
                          /\ buffer[s] \subseteq Keys
  /\ \A r \in Request : request[r] \in Campaign \cup {None}
  /\ audience \in [Campaign -> SUBSET User]
  /\ lost \subseteq Keys
  /\ published \subseteq Keys
  /\ delivery \in [Keys -> {"none", "PENDING", "SENT", "FAILED"}]
  /\ emails \in [Keys -> Nat]

\* However often a campaign is triggered, claimed, rolled back, repeated after a crash
\* or run twice, a user gets at most one email of it: all its runs publish the same
\* keys, and the worker emails a key once (_publish_campaign_messages, reserve_delivery).
OneEmailPerUser ==
  \A c \in Campaign, u \in User :
    \A k, l \in {KeyFor(c, u, s) : s \in Scheduler} :
      emails[k] + (IF k = l THEN 0 ELSE emails[l]) <= 1

\* A campaign is only DONE when every user who had registered when it was claimed has
\* their message in the topic or in the buffer of a running producer, although new
\* users shift the pages meanwhile; the exception are messages a crash or the broker
\* took out of a buffer (iter_user_ids, run_queued_campaigns).
DoneCoversAudience ==
  \A c \in Campaign : status[c] = "DONE" =>
    \A u \in audience[c] : \E s \in Scheduler :
      KeyFor(c, u, s) \in published \cup buffer[s] \cup lost

\* No error and no crash strikes from some time on.
Faultless == <>[][\A s \in Scheduler : ~Fail(s) /\ ~Crash(s)]_vars

\* A queued campaign is worked off in the end, whoever died or failed at it before
\* ("Rollback preserves QUEUED status; worker can retry in next poll cycle").
QueuedGetsDone ==
  Faultless => \A c \in Campaign : status[c] = "QUEUED" ~> status[c] = "DONE"

-----------------------------------------------------------------------------
(* What the code states and does not keep *)

\* mark_queued: only a DRAFT can be triggered ("Cannot trigger campaign with status").
TriggeredOnce ==
  [][\A c \in Campaign : status[c] = "DONE" => status'[c] = "DONE"]_vars

\* "Service publishes one Kafka message per user" (notifications/README.md:45): the
\* message of everybody who was there is in the topic or still in a producer's buffer
\* when the campaign is DONE.
DoneIsPublished ==
  \A c \in Campaign : status[c] = "DONE" =>
    \A u \in audience[c] : \E s \in Scheduler : KeyFor(c, u, s) \in published \cup buffer[s]
=============================================================================
