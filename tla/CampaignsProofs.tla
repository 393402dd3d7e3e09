--------------------------- MODULE CampaignsProofs ---------------------------
(***************************************************************************)
(* The safety properties of Campaigns, proved for any campaigns, users,    *)
(* schedulers, requests, sizes of pages and batches, and faults.           *)
(*                                                                         *)
(* The argument for DoneCoversAudience: a scheduler that has read `page'   *)
(* pages has a message, sent or about to be, for every user of its         *)
(* campaign's audience among the first page * PageSize ones.  A user who   *)
(* registers meanwhile shifts the others towards the end only, so a user   *)
(* may be read twice but never slips out of what is still to be read.      *)
(***************************************************************************)
EXTENDS Campaigns, SequenceTheorems, TLAPS

-----------------------------------------------------------------------------
(* The inductive invariant *)

Steps == {"idle", "claim", "fetch", "publish", "done", "stop"}

JobRecord ==
  [campaign : Campaign \cup {None}, handled : 0..BatchSize, page : Nat, todo : Seq(User), last : BOOLEAN]

ShapesOK ==
  /\ users \in Seq(User)
  /\ status \in [Campaign -> Status]
  /\ rowLock \in [Campaign -> Scheduler \cup {None}]
  /\ pc \in [Scheduler -> Steps] /\ job \in [Scheduler -> JobRecord]
  /\ buffer \in [Scheduler -> SUBSET Keys]
  /\ request \in [Request -> Campaign \cup {None}]
  /\ audience \in [Campaign -> SUBSET User]
  /\ lost \subseteq Keys

BoxOK ==
  /\ published \subseteq Keys
  /\ delivery \in [Keys -> {"none", "PENDING", "SENT", "FAILED"}]
  /\ emails \in [Keys -> {0, 1}]

\* A user of a campaign has their message.
Covered(c, u) == \E s \in Scheduler : <<c, u>> \in published \cup buffer[s] \cup lost

\* A scheduler at work holds the row of its campaign.
LockOK(s) ==
  LET c == job[s].campaign IN
  /\ c # None <=> pc[s] \in {"fetch", "publish", "done"}
  /\ c # None => /\ rowLock[c] = s /\ status[c] = "QUEUED"
                 /\ audience[c] \subseteq ToSet(users)
                 /\ job[s].handled < BatchSize

\* It has the users of the pages it read, and after the last page all of them.
Has(s, c, u) == Covered(c, u) \/ u \in ToSet(job[s].todo)

ReadOK(s) ==
  \A c \in Campaign : job[s].campaign = c =>
    /\ pc[s] # "publish" => job[s].todo = <<>>
    /\ pc[s] = "fetch" => ~job[s].last
    /\ pc[s] = "done" => job[s].last
    /\ job[s].last => \A u \in audience[c] : Has(s, c, u)
    /\ ~job[s].last => \A u \in audience[c], i \in 1..Len(users) :
                         users[i] = u /\ i <= job[s].page * PageSize => Has(s, c, u)

WorkOK == \A s \in Scheduler : LockOK(s) /\ ReadOK(s)

DoneOK == \A c \in Campaign : status[c] = "DONE" => \A u \in audience[c] : Covered(c, u)

CInv == ShapesOK /\ BoxOK /\ WorkOK /\ DoneOK

-----------------------------------------------------------------------------
(* Sequences *)

LEMMA ToSetMeans ==
  ASSUME NEW S, NEW q \in Seq(S)
  PROVE  /\ ToSet(q) \subseteq S
         /\ \A u : u \in ToSet(q) <=> \E i \in 1..Len(q) : q[i] = u
BY DEF ToSet

LEMMA InToSet ==
  ASSUME NEW S, NEW q \in Seq(S), NEW i \in 1..Len(q)
  PROVE  q[i] \in ToSet(q)
BY DEF ToSet

LEMMA TailLosesHead ==
  ASSUME NEW S, NEW q \in Seq(S), q # <<>>
  PROVE  /\ Head(q) \in S /\ Tail(q) \in Seq(S)
         /\ \A u \in ToSet(q) : u = Head(q) \/ u \in ToSet(Tail(q))
<1>1. Head(q) \in S /\ Tail(q) \in Seq(S) /\ Len(q) \in Nat /\ Len(Tail(q)) = Len(q) - 1
  OBVIOUS
<1>2. ASSUME NEW i \in 1..Len(q), i # 1 PROVE q[i] \in ToSet(Tail(q))
  <2>1. i - 1 \in 1..Len(Tail(q)) /\ Tail(q)[i - 1] = q[i]
    BY <1>1, <1>2
  <2> QED BY <1>1, <2>1, ToSetMeans
<1>3. Head(q) = q[1]
  OBVIOUS
<1> QED BY <1>1, <1>2, <1>3, ToSetMeans

\* Who is inserted shifts the others towards the end.
LEMMA InsertShifts ==
  ASSUME NEW S, NEW q \in Seq(S), NEW k \in 1..(Len(q) + 1), NEW u \in S
  PROVE  /\ InsertAt(q, k, u) \in Seq(S)
         /\ Len(InsertAt(q, k, u)) = Len(q) + 1
         /\ \A i \in 1..(Len(q) + 1) : InsertAt(q, k, u)[i] = IF i < k THEN q[i] ELSE IF i = k THEN u ELSE q[i - 1]
<1> DEFINE a == SubSeq(q, 1, k - 1)
           b == SubSeq(q, k, Len(q))
<1>1. Len(q) \in Nat /\ k \in Nat /\ k >= 1
  OBVIOUS
<1>2. a \in Seq(S) /\ Len(a) = k - 1 /\ \A i \in 1..(k - 1) : a[i] = q[i]
  BY <1>1
<1>3. b \in Seq(S) /\ Len(b) = Len(q) + 1 - k /\ \A i \in 1..(Len(q) + 1 - k) : b[i] = q[k + i - 1]
  BY <1>1
<1>4. InsertAt(q, k, u) = a \o <<u>> \o b
  BY DEF InsertAt
<1> HIDE DEF a, b
<1> DEFINE au == a \o <<u>>
<1>5. au \in Seq(S) /\ Len(au) = k /\ au[k] = u /\ \A i \in 1..(k - 1) : au[i] = q[i]
  BY <1>1, <1>2
<1> HIDE DEF au
<1> DEFINE r == au \o b
<1>6. r \in Seq(S) /\ Len(r) = Len(q) + 1
  BY <1>1, <1>3, <1>5
<1>7. \A i \in 1..(Len(q) + 1) : r[i] = IF i <= k THEN au[i] ELSE b[i - k]
  BY <1>1, <1>3, <1>5
<1>8. \A i \in 1..(Len(q) + 1) : i > k => i - k \in 1..(Len(q) + 1 - k) /\ b[i - k] = q[i - 1]
  BY <1>1, <1>3
<1>9. r = InsertAt(q, k, u)
  BY <1>4 DEF au
<1> HIDE DEF r
<1>10. \A i \in 1..(Len(q) + 1) : r[i] = IF i < k THEN q[i] ELSE IF i = k THEN u ELSE q[i - 1]
  BY <1>1, <1>5, <1>7, <1>8
<1> QED BY <1>6, <1>9, <1>10

\* A page holds the users behind its offset; when it is not full, all of them.
LEMMA PageHolds ==
  ASSUME NEW S, NEW q \in Seq(S), NEW offset \in Nat, NEW size \in Nat \ {0},
         NEW items,
         items = SubSeq(q, offset + 1, IF offset + size < Len(q) THEN offset + size ELSE Len(q))
  PROVE  /\ items \in Seq(S)
         /\ \A i \in 1..Len(q) : i <= offset + size => i <= offset \/ q[i] \in ToSet(items)
         /\ Len(items) < size => \A i \in 1..Len(q) : i <= offset + size
<1> DEFINE last == IF offset + size < Len(q) THEN offset + size ELSE Len(q)
<1>1. Len(q) \in Nat /\ last \in Nat /\ last <= Len(q) /\ items = SubSeq(q, offset + 1, last)
  OBVIOUS
<1>2. \A i \in 1..Len(q) : i <= offset + size => i <= last
  OBVIOUS
<1>3. last < offset + size => last = Len(q)
  OBVIOUS
<1> HIDE DEF last
<1>4. CASE offset + 1 <= last
  <2>1. /\ items \in Seq(S) /\ Len(items) = last - offset
        /\ \A k \in 1..(last - offset) : items[k] = q[offset + k]
    <3>1. \A i \in (offset + 1)..last : q[i] \in S
      BY <1>1
    <3>2. offset + 1 \in Int /\ last \in Int
      BY <1>1
    <3>3. /\ items \in Seq(S)
          /\ Len(items) = IF offset + 1 <= last THEN last - (offset + 1) + 1 ELSE 0
          /\ \A i \in 1..(last - (offset + 1) + 1) : items[i] = q[offset + 1 + i - 1]
      BY <1>1, <3>1, <3>2, SubSeqProperties
    <3>4. last - (offset + 1) + 1 = last - offset
      BY <1>1
    <3>5. ASSUME NEW k \in 1..(last - offset)
          PROVE  items[k] = q[offset + k]
      <4>1. items[k] = q[offset + 1 + k - 1]
        BY <3>3, <3>4
      <4>2. offset + 1 + k - 1 = offset + k
        BY <1>1
      <4> QED BY <4>1, <4>2
    <3>6. Len(items) = last - offset
      BY <1>4, <3>3, <3>4
    <3> QED BY <3>3, <3>5, <3>6
  <2>2. ASSUME NEW i \in 1..Len(q), offset < i, i <= last PROVE q[i] \in ToSet(items)
    <3>1. i - offset \in 1..Len(items) /\ items[i - offset] = q[i]
      BY <1>1, <2>1, <2>2
    <3>2. items[i - offset] \in ToSet(items)
      BY <2>1, <3>1, InToSet
    <3> QED BY <3>1, <3>2
  <2>3. Len(items) < size => last = Len(q) /\ Len(q) < offset + size
    BY <1>1, <1>3, <2>1
  <2>4. \A i \in 1..Len(q) : i <= offset + size => i <= offset \/ q[i] \in ToSet(items)
    BY <1>1, <1>2, <2>2
  <2>5. Len(items) < size => \A i \in 1..Len(q) : i <= offset + size
    BY <1>1, <2>3
  <2> QED BY <2>1, <2>4, <2>5
<1>5. CASE last < offset + 1
  <2>1. items = <<>>
    BY <1>1, <1>5
  <2>2. last = Len(q)
    BY <1>1, <1>3, <1>5
  <2> QED BY <1>1, <1>2, <1>5, <2>1, <2>2
<1> QED BY <1>1, <1>4, <1>5

-----------------------------------------------------------------------------
(* Lemmas about the state *)

LEMMA NoJobOK ==
  /\ NoJob \in JobRecord /\ NoJob.campaign = None /\ NoJob.handled = 0
  /\ NoJob.page = 0 /\ NoJob.todo = <<>> /\ NoJob.last = FALSE
BY SizeAssumption DEF NoJob, JobRecord

LEMMA KeyIsKey ==
  ASSUME NEW c \in Campaign, NEW u \in User, NEW s \in Scheduler
  PROVE  KeyFor(c, u, s) \in Keys /\ KeyFor(c, u, s) = <<c, u>>
BY DEF Keys, KeyFor

\* No step takes a message away from a user.
LEMMA CoveredKept ==
  ASSUME published \subseteq published', lost \subseteq lost' \cup published',
         \A s \in Scheduler : buffer[s] \subseteq published' \cup buffer'[s] \cup lost'
  PROVE  \A c, u : Covered(c, u) => Covered(c, u)'
BY DEF Covered

\* A scheduler that does nothing keeps what it has.
LEMMA OthersWork ==
  ASSUME CInv, NEW s \in Scheduler, UNCHANGED users,
         job'[s] = job[s], pc'[s] = pc[s],
         \A c \in Campaign : rowLock[c] = s => /\ rowLock'[c] = rowLock[c] /\ status'[c] = status[c]
                                               /\ audience'[c] = audience[c],
         \A c, u : Covered(c, u) => Covered(c, u)'
  PROVE  LockOK(s)' /\ ReadOK(s)'
<1>1. LockOK(s) /\ ReadOK(s) /\ job[s].campaign \in Campaign \cup {None}
  BY DEF CInv, WorkOK, ShapesOK, JobRecord
<1>2. CASE job[s].campaign = None
  BY <1>1, <1>2, NoneAssumption DEF LockOK, ReadOK
<1>3. CASE job[s].campaign # None
  <2> DEFINE c == job[s].campaign
  <2>1. c \in Campaign /\ rowLock[c] = s
    BY <1>1, <1>3 DEF LockOK
  <2>2. rowLock'[c] = rowLock[c] /\ status'[c] = status[c] /\ audience'[c] = audience[c]
    BY <2>1
  <2>3. LockOK(s)'
    BY <1>1, <2>2 DEF LockOK
  <2>4. ReadOK(s)'
    BY <1>1, <1>3, <2>2 DEF ReadOK, Has
  <2> QED BY <2>3, <2>4
<1> QED BY <1>2, <1>3

LEMMA DoneKept ==
  ASSUME CInv, NEW c \in Campaign, status'[c] = "DONE" => status[c] = "DONE" /\ audience'[c] = audience[c],
         \A d, u : Covered(d, u) => Covered(d, u)'
  PROVE  status'[c] = "DONE" => \A u \in audience'[c] : Covered(c, u)'
BY DEF CInv, DoneOK

\* A step of one scheduler that leaves the rows and the messages alone.
LEMMA JobStep ==
  ASSUME CInv, NEW s \in Scheduler, NEW j \in JobRecord, NEW p \in Steps,
         job' = [job EXCEPT ![s] = j], pc' = [pc EXCEPT ![s] = p],
         UNCHANGED <<apiVars, rowVars, buffer, audience, lost, boxVars>>,
         job'[s] = j /\ pc'[s] = p => LockOK(s)' /\ ReadOK(s)'
  PROVE  CInv'
<1>1. UNCHANGED <<users, request, status, rowLock, buffer, audience, lost, published, delivery, emails>>
  BY DEF apiVars, rowVars, boxVars
<1>2. ShapesOK' /\ BoxOK' /\ job'[s] = j /\ pc'[s] = p
      /\ \A t \in Scheduler \ {s} : job'[t] = job[t] /\ pc'[t] = pc[t]
  BY <1>1 DEF CInv, ShapesOK, BoxOK
<1>3. \A c, u : Covered(c, u) => Covered(c, u)'
  BY <1>1, CoveredKept
<1>4. \A t \in Scheduler : LockOK(t)' /\ ReadOK(t)'
  BY <1>1, <1>2, <1>3, OthersWork
<1>5. DoneOK'
  BY <1>1, <1>3, DoneKept DEF DoneOK
<1> QED BY <1>2, <1>4, <1>5 DEF CInv, WorkOK

-----------------------------------------------------------------------------
(* The API and the users *)

LEMMA RegisterInv ==
  ASSUME CInv, NEW u \in User, Register(u)
  PROVE  CInv'
<1>1. PICK k \in 1..(Len(users) + 1) : users' = InsertAt(users, k, u)
  BY DEF Register
<1>2. /\ u \notin ToSet(users)
      /\ UNCHANGED <<request, status, rowLock, pc, job, buffer, audience, lost, published, delivery, emails>>
  BY DEF Register, rowVars, workVars, boxVars
<1>3. /\ users \in Seq(User) /\ Len(users) \in Nat /\ users' \in Seq(User) /\ Len(users') = Len(users) + 1
      /\ \A i \in 1..(Len(users) + 1) :
           users'[i] = IF i < k THEN users[i] ELSE IF i = k THEN u ELSE users[i - 1]
  <2>1. users \in Seq(User)
    BY DEF CInv, ShapesOK
  <2>2. Len(users) \in Nat
    BY <2>1
  <2> DEFINE t == InsertAt(users, k, u)
  <2>3. /\ t \in Seq(User) /\ Len(t) = Len(users) + 1
        /\ \A i \in 1..(Len(users) + 1) :
             t[i] = IF i < k THEN users[i] ELSE IF i = k THEN u ELSE users[i - 1]
    BY <2>1, InsertShifts
  <2>4. users' = t
    BY <1>1
  <2> HIDE DEF t
  <2> QED BY <2>1, <2>2, <2>3, <2>4
<1>4. ToSet(users) \subseteq ToSet(users')
  <2> SUFFICES ASSUME NEW i \in 1..Len(users) PROVE \E m \in 1..Len(users') : users'[m] = users[i]
    BY <1>3, ToSetMeans
  <2>1. CASE i < k
    <3>1. i \in 1..Len(users') /\ users'[i] = users[i]
      BY <1>3, <2>1
    <3> QED BY <3>1
  <2>2. CASE i >= k
    <3>1. i + 1 \in 1..(Len(users) + 1) /\ users'[i + 1] = users[i]
      BY <1>3, <2>2
    <3> QED BY <1>3, <3>1
  <2> QED BY <2>1, <2>2
<1>5. \A c, v : Covered(c, v) => Covered(c, v)'
  BY <1>2, CoveredKept
<1>6. ASSUME NEW s \in Scheduler PROVE LockOK(s)' /\ ReadOK(s)'
  <2>1. LockOK(s) /\ ReadOK(s) /\ job[s] \in JobRecord
    BY DEF CInv, WorkOK, ShapesOK
  <2>2. LockOK(s)'
    BY <1>2, <1>4, <2>1 DEF LockOK
  <2>3. CASE job[s].campaign = None \/ job[s].last
    BY <1>2, <1>5, <2>1, <2>2, <2>3, NoneAssumption DEF ReadOK, Has
  <2>4. CASE job[s].campaign # None /\ ~job[s].last
    <3> DEFINE n == job[s].page * PageSize
    <3>1. n \in Nat
      BY <2>1, SizeAssumption DEF JobRecord
    <3> SUFFICES ASSUME NEW c \in Campaign, job[s].campaign = c, NEW v \in audience[c],
                        NEW i \in 1..Len(users'), users'[i] = v, i <= n
                 PROVE  Has(s, c, v)'
      BY <1>2, <2>1, <2>2, <2>4 DEF ReadOK
    <3>2. v # u
      BY <1>2, <2>1, <2>4 DEF LockOK
    <3>3. \A m \in 1..Len(users) : users[m] = v /\ m <= n => Has(s, c, v)
      BY <2>1, <2>4 DEF ReadOK
    <3> HIDE DEF n
    <3>4. Has(s, c, v)
      <4>1. CASE i < k
        BY <1>3, <3>3, <4>1
      <4>2. CASE i > k
        <5>1. i - 1 \in 1..Len(users) /\ i - 1 <= n /\ users[i - 1] = v
          BY <1>3, <3>1, <4>2
        <5> QED BY <3>3, <5>1
      <4> QED BY <1>3, <3>2, <4>1, <4>2
    <3> QED BY <1>2, <1>5, <3>4 DEF Has
  <2> QED BY <2>2, <2>3, <2>4
<1>7. DoneOK'
  BY <1>2, <1>5, DoneKept DEF DoneOK
<1> QED BY <1>2, <1>3, <1>6, <1>7 DEF CInv, WorkOK, ShapesOK, BoxOK

LEMMA RequestInv ==
  ASSUME CInv, NEW r \in Request, MarkQueued(r) \/ \E c \in Campaign : LoadCampaign(r, c)
  PROVE  CInv'
<1>1. ASSUME NEW d \in Campaign \cup {None}, request' = [request EXCEPT ![r] = d],
             status' \in [Campaign -> Status],
             \A c \in Campaign : status'[c] # status[c] => rowLock[c] = None /\ status'[c] # "DONE",
             UNCHANGED <<users, rowLock, workVars, audience, lost, boxVars>>
      PROVE  CInv'
  <2>1. UNCHANGED <<users, rowLock, pc, job, buffer, audience, lost, published, delivery, emails>>
    BY <1>1 DEF workVars, boxVars
  <2>2. \A c, u : Covered(c, u) => Covered(c, u)'
    BY <2>1, CoveredKept
  <2>3. ASSUME NEW s \in Scheduler PROVE LockOK(s)' /\ ReadOK(s)'
    <3>1. \A c \in Campaign : rowLock[c] = s => status'[c] = status[c]
      BY <1>1, NoneAssumption
    <3> QED BY <2>1, <2>2, <3>1, OthersWork
  <2>4. DoneOK'
    BY <1>1, <2>1, <2>2, DoneKept DEF DoneOK
  <2> QED BY <1>1, <2>1, <2>3, <2>4 DEF CInv, WorkOK, ShapesOK, BoxOK
<1>2. CASE MarkQueued(r)
  <2>1. /\ request[r] \in Campaign /\ rowLock[request[r]] = None
        /\ status' = [status EXCEPT ![request[r]] = "QUEUED"]
        /\ request' = [request EXCEPT ![r] = None]
        /\ UNCHANGED <<users, rowLock, workVars, audience, lost, boxVars>>
    BY <1>2 DEF MarkQueued, CInv, ShapesOK
  <2>2. /\ status' \in [Campaign -> Status]
        /\ \A c \in Campaign : status'[c] # status[c] => rowLock[c] = None /\ status'[c] # "DONE"
    BY <2>1 DEF CInv, ShapesOK, Status
  <2> QED BY <1>1, <2>1, <2>2
<1>3. ASSUME NEW c \in Campaign, LoadCampaign(r, c)
      PROVE  CInv'
  <2>1. /\ request' = [request EXCEPT ![r] = c]
        /\ UNCHANGED <<status, users, rowLock, workVars, audience, lost, boxVars>>
    BY <1>3 DEF LoadCampaign, rowVars
  <2>2. status' \in [Campaign -> Status]
    BY <2>1 DEF CInv, ShapesOK
  <2> QED BY <1>1, <2>1, <2>2
<1> QED BY <1>2, <1>3

-----------------------------------------------------------------------------
(* The steps of a scheduler at its jobs *)

LEMMA JobOf ==
  ASSUME CInv, NEW s \in Scheduler
  PROVE  /\ job[s] \in JobRecord /\ pc[s] \in Steps /\ LockOK(s) /\ ReadOK(s)
         /\ job[s].campaign \in Campaign \cup {None} /\ job[s].handled \in 0..BatchSize
         /\ job[s].page \in Nat /\ job[s].todo \in Seq(User) /\ job[s].last \in BOOLEAN
BY DEF CInv, WorkOK, ShapesOK, JobRecord

\* A scheduler that has no campaign.
LEMMA IdleOK ==
  ASSUME NEW s \in Scheduler, job'[s].campaign = None, pc'[s] \in {"idle", "claim", "stop"}
  PROVE  LockOK(s)' /\ ReadOK(s)'
BY NoneAssumption DEF LockOK, ReadOK

LEMMA StartInv ==
  ASSUME CInv, NEW s \in Scheduler, StartJob(s) \/ EndBatch(s) \/ StopJob(s)
  PROVE  CInv'
<1>1. LockOK(s) /\ job[s] \in JobRecord
  BY JobOf
<1>2. job' = [job EXCEPT ![s] = job[s]] \/ job' = [job EXCEPT ![s] = NoJob]
  BY DEF StartJob, EndBatch, StopJob, SetJob, CInv, ShapesOK
<1>3. pc[s] \in {"idle", "claim", "stop"}
  BY DEF StartJob, EndBatch, StopJob
<1>4. PICK p \in {"idle", "claim", "stop"} : pc' = [pc EXCEPT ![s] = p]
  BY DEF StartJob, EndBatch, StopJob, Goto
<1>5. UNCHANGED <<apiVars, rowVars, buffer, audience, lost, boxVars>>
  BY DEF StartJob, EndBatch, StopJob
<1>6. PICK j \in JobRecord : job' = [job EXCEPT ![s] = j] /\ j.campaign = None
  <2>1. job[s].campaign = None
    BY <1>1, <1>3 DEF LockOK
  <2> HIDE DEF NoJob
  <2> QED BY <1>1, <1>2, <2>1, NoJobOK
<1>7. job'[s] = j /\ pc'[s] = p => LockOK(s)' /\ ReadOK(s)'
  BY <1>6, IdleOK
<1> QED BY <1>4, <1>5, <1>6, <1>7, JobStep DEF Steps

LEMMA FetchPageInv ==
  ASSUME CInv, NEW s \in Scheduler, FetchPage(s)
  PROVE  CInv'
<1> DEFINE offset == job[s].page * PageSize
           items == SubSeq(users, offset + 1, IF offset + PageSize < Len(users)
                                              THEN offset + PageSize ELSE Len(users))
           j == [job[s] EXCEPT !.page = @ + 1, !.todo = items, !.last = LastPage(items)]
<1>1. /\ pc[s] = "fetch" /\ job' = [job EXCEPT ![s] = j] /\ pc' = [pc EXCEPT ![s] = "publish"]
      /\ UNCHANGED <<apiVars, rowVars, buffer, audience, lost, boxVars>>
  BY DEF FetchPage, SetJob, Goto
<1>2. users \in Seq(User)
  BY DEF CInv, ShapesOK
<1>3. job[s].page \in Nat /\ offset \in Nat /\ (job[s].page + 1) * PageSize = offset + PageSize
  BY JobOf, SizeAssumption
<1> HIDE DEF offset
<1>4. /\ items \in Seq(User)
      /\ \A i \in 1..Len(users) : i <= offset + PageSize => i <= offset \/ users[i] \in ToSet(items)
      /\ Len(items) < PageSize => \A i \in 1..Len(users) : i <= offset + PageSize
  BY <1>2, <1>3, SizeAssumption, PageHolds
<1>5. LastPage(items) = (Len(items) < PageSize)
  BY DEF LastPage
<1> HIDE DEF items
<1>6. /\ j \in JobRecord /\ j.campaign = job[s].campaign /\ j.handled = job[s].handled
      /\ j.page = job[s].page + 1 /\ j.todo = items /\ j.last = LastPage(items)
  <2>1. job[s] \in JobRecord
    BY JobOf
  <2>2. LastPage(items) \in BOOLEAN
    BY DEF LastPage
  <2>3. job[s].page + 1 \in Nat
    BY <1>3
  <2> QED BY <1>4, <2>1, <2>2, <2>3 DEF JobRecord
<1> HIDE DEF j
<1>7. ASSUME job'[s] = j, pc'[s] = "publish" PROVE LockOK(s)' /\ ReadOK(s)'
  <2>1. UNCHANGED <<users, status, rowLock, audience, published, buffer, lost>>
    BY <1>1 DEF apiVars, rowVars, boxVars
  <2>2. LockOK(s) /\ ReadOK(s)
    BY JobOf
  <2>3. LockOK(s)'
    BY <1>1, <1>6, <1>7, <2>1, <2>2 DEF LockOK
  <2>4. ASSUME NEW c \in Campaign, job[s].campaign = c
        PROVE  /\ j.last => \A u \in audience[c] : Has(s, c, u)'
               /\ ~j.last => \A u \in audience[c], i \in 1..Len(users) :
                               users[i] = u /\ i <= j.page * PageSize => Has(s, c, u)'
    <3>1. ASSUME NEW u \in audience[c], NEW i \in 1..Len(users), users[i] = u, i <= offset + PageSize
          PROVE  Has(s, c, u)'
      <4>1. CASE i <= offset
        <5>1. job[s].todo = <<>> /\ ~job[s].last
          BY <1>1, <2>2, <2>4 DEF ReadOK
        <5>2. Has(s, c, u)
          BY <2>2, <2>4, <3>1, <4>1, <5>1 DEF ReadOK, offset
        <5>3. u \notin ToSet(job[s].todo)
          BY <5>1 DEF ToSet
        <5>4. Covered(c, u)
          BY <5>2, <5>3 DEF Has
        <5>5. Covered(c, u)'
          BY <2>1, <5>4, CoveredKept
        <5> QED BY <5>5 DEF Has
      <4>2. CASE users[i] \in ToSet(items)
        BY <1>6, <1>7, <3>1, <4>2 DEF Has
      <4> QED BY <1>4, <3>1, <4>1, <4>2
    <3>2. ASSUME j.last, NEW u \in audience[c] PROVE Has(s, c, u)'
      <4>1. u \in ToSet(users)
        BY <2>2, <2>4, NoneAssumption DEF LockOK
      <4>2. PICK i \in 1..Len(users) : users[i] = u
        BY <1>2, <4>1, ToSetMeans
      <4>3. i <= offset + PageSize
        BY <1>4, <1>5, <1>6, <3>2
      <4> QED BY <3>1, <4>2, <4>3
    <3> QED BY <1>3, <1>6, <3>1, <3>2
  <2>5. ReadOK(s)'
    BY <1>6, <1>7, <2>1, <2>4 DEF ReadOK
  <2> QED BY <2>3, <2>5
<1> QED BY <1>1, <1>6, <1>7, JobStep DEF Steps

LEMMA NextPageInv ==
  ASSUME CInv, NEW s \in Scheduler, NextPage(s)
  PROVE  CInv'
<1>1. PICK p \in {"fetch", "done"} :
        /\ pc' = [pc EXCEPT ![s] = p] /\ p = IF job[s].last THEN "done" ELSE "fetch"
  BY DEF NextPage, Goto
<1>2. /\ pc[s] = "publish" /\ job[s].todo = <<>> /\ job' = [job EXCEPT ![s] = job[s]]
      /\ UNCHANGED <<apiVars, rowVars, buffer, audience, lost, boxVars>>
  BY DEF NextPage, CInv, ShapesOK
<1>3. ASSUME job'[s] = job[s], pc'[s] = p PROVE LockOK(s)' /\ ReadOK(s)'
  <2>1. UNCHANGED <<users, status, rowLock, audience, published, buffer, lost>>
    BY <1>2 DEF apiVars, rowVars, boxVars
  <2>2. LockOK(s) /\ ReadOK(s)
    BY JobOf
  <2>3. LockOK(s)'
    BY <1>2, <1>3, <2>1, <2>2 DEF LockOK
  <2>4. \A c, u : Has(s, c, u) => Has(s, c, u)'
    BY <1>3, <2>1, CoveredKept DEF Has
  <2>5. ReadOK(s)'
    BY <1>1, <1>2, <1>3, <2>1, <2>2, <2>4 DEF ReadOK
  <2> QED BY <2>3, <2>5
<1>4. job[s] \in JobRecord
  BY JobOf
<1> QED BY <1>1, <1>2, <1>3, <1>4, JobStep DEF Steps

LEMMA ClaimInv ==
  ASSUME CInv, NEW s \in Scheduler, NEW c \in Campaign, Claim(s, c)
  PROVE  CInv'
<1> DEFINE j == [NoJob EXCEPT !.campaign = c, !.handled = job[s].handled]
<1>1. /\ pc[s] = "claim" /\ job[s].handled < BatchSize
      /\ status[c] = "QUEUED" /\ rowLock[c] = None
      /\ rowLock' = [rowLock EXCEPT ![c] = s] /\ job' = [job EXCEPT ![s] = j]
      /\ audience' = [audience EXCEPT ![c] = ToSet(users)] /\ pc' = [pc EXCEPT ![s] = "fetch"]
      /\ UNCHANGED <<users, request, status, buffer, lost, published, delivery, emails>>
  BY DEF Claim, BatchOpen, Claimable, SetJob, Goto, apiVars, boxVars
<1> HIDE DEF NoJob
<1>2. /\ j \in JobRecord /\ j.campaign = c /\ j.handled = job[s].handled
      /\ j.page = 0 /\ j.todo = <<>> /\ j.last = FALSE
  BY NoJobOK, JobOf DEF JobRecord
<1> HIDE DEF j
<1>3. /\ job'[s] = j /\ pc'[s] = "fetch" /\ rowLock'[c] = s /\ audience'[c] = ToSet(users)
      /\ \A t \in Scheduler \ {s} : job'[t] = job[t] /\ pc'[t] = pc[t]
      /\ \A d \in Campaign \ {c} : rowLock'[d] = rowLock[d] /\ audience'[d] = audience[d]
  BY <1>1 DEF CInv, ShapesOK
<1>4. ToSet(users) \subseteq User
  BY ToSetMeans DEF CInv, ShapesOK
<1>5. ShapesOK' /\ BoxOK'
  BY <1>1, <1>2, <1>4 DEF CInv, ShapesOK, BoxOK, Steps
<1>6. \A d, u : Covered(d, u) => Covered(d, u)'
  BY <1>1, CoveredKept
<1>7. ASSUME NEW t \in Scheduler \ {s} PROVE LockOK(t)' /\ ReadOK(t)'
  BY <1>1, <1>3, <1>6, NoneAssumption, OthersWork
<1>8. LockOK(s)'
  <2>1. ToSet(users)' = ToSet(users)
    BY <1>1
  <2> QED BY <1>1, <1>2, <1>3, <2>1, NoneAssumption DEF LockOK
<1>9. ReadOK(s)'
  <2>1. \A i \in 1..Len(users) : ~(i <= 0 * PageSize)
    BY SizeAssumption
  <2> QED BY <1>1, <1>2, <1>3, <2>1 DEF ReadOK
<1>10. DoneOK'
  BY <1>1, <1>3, <1>6, DoneKept DEF DoneOK
<1> QED BY <1>5, <1>7, <1>8, <1>9, <1>10 DEF CInv, WorkOK

LEMMA PublishInv ==
  ASSUME CInv, NEW s \in Scheduler, Publish(s)
  PROVE  CInv'
<1> DEFINE c == job[s].campaign
           q == job[s].todo
           j == [job[s] EXCEPT !.todo = Tail(q)]
<1>1. /\ pc[s] = "publish" /\ q # <<>>
      /\ buffer' = [buffer EXCEPT ![s] = @ \cup {KeyFor(c, Head(q), s)}]
      /\ job' = [job EXCEPT ![s] = j]
      /\ UNCHANGED <<users, request, status, rowLock, pc, audience, lost, published, delivery, emails>>
  BY DEF Publish, SetJob, apiVars, rowVars, boxVars
<1>2. c \in Campaign /\ LockOK(s) /\ ReadOK(s)
  BY <1>1, JobOf DEF LockOK
<1>3. /\ Head(q) \in User /\ Tail(q) \in Seq(User)
      /\ \A u \in ToSet(q) : u = Head(q) \/ u \in ToSet(Tail(q))
  BY <1>1, JobOf, TailLosesHead
<1>4. /\ j \in JobRecord /\ j.campaign = c /\ j.handled = job[s].handled
      /\ j.page = job[s].page /\ j.todo = Tail(q) /\ j.last = job[s].last
  BY <1>3, JobOf DEF JobRecord
<1>5. KeyFor(c, Head(q), s) \in Keys /\ KeyFor(c, Head(q), s) = <<c, Head(q)>>
  BY <1>2, <1>3, KeyIsKey
<1> HIDE DEF j
<1>6. /\ job'[s] = j /\ <<c, Head(q)>> \in buffer'[s] /\ buffer[s] \subseteq buffer'[s]
      /\ \A t \in Scheduler \ {s} : job'[t] = job[t] /\ buffer'[t] = buffer[t]
  BY <1>1, <1>5 DEF CInv, ShapesOK
<1>7. ShapesOK' /\ BoxOK'
  BY <1>1, <1>4, <1>5 DEF CInv, ShapesOK, BoxOK
<1>8. \A d, u : Covered(d, u) => Covered(d, u)'
  BY <1>1, <1>6, CoveredKept
<1>9. ASSUME NEW t \in Scheduler \ {s} PROVE LockOK(t)' /\ ReadOK(t)'
  BY <1>1, <1>6, <1>8, OthersWork
<1>10. LockOK(s)'
  BY <1>1, <1>2, <1>4, <1>6 DEF LockOK
<1>11. ASSUME NEW d \in Campaign, c = d, NEW u, Has(s, d, u) PROVE Has(s, d, u)'
  <2>1. CASE Covered(d, u)
    BY <1>8, <2>1 DEF Has
  <2>2. CASE u = Head(q)
    <3>1. Covered(d, u)'
      BY <1>6, <1>11, <2>2 DEF Covered
    <3> QED BY <3>1 DEF Has
  <2>3. CASE u \in ToSet(Tail(q))
    BY <1>4, <1>6, <2>3 DEF Has
  <2> QED BY <1>3, <1>11, <2>1, <2>2, <2>3 DEF Has
<1>12. ReadOK(s)'
  BY <1>1, <1>2, <1>4, <1>6, <1>11 DEF ReadOK
<1>13. DoneOK'
  BY <1>1, <1>8, DoneKept DEF DoneOK
<1> QED BY <1>7, <1>9, <1>10, <1>12, <1>13 DEF CInv, WorkOK

LEMMA MarkDoneInv ==
  ASSUME CInv, NEW s \in Scheduler, MarkDone(s)
  PROVE  CInv'
<1> DEFINE j == [NoJob EXCEPT !.handled = job[s].handled + 1]
<1>1. pc[s] = "done" /\ LockOK(s) /\ ReadOK(s)
  BY JobOf DEF MarkDone
<1>2. PICK c \in Campaign :
        /\ job[s].campaign = c /\ status' = [status EXCEPT ![c] = "DONE"]
        /\ rowLock' = [rowLock EXCEPT ![c] = None]
  BY <1>1, JobOf DEF LockOK, MarkDone
<1>3. /\ job' = [job EXCEPT ![s] = j] /\ pc' = [pc EXCEPT ![s] = "claim"]
      /\ UNCHANGED <<users, request, buffer, audience, lost, published, delivery, emails>>
  BY DEF MarkDone, SetJob, Goto, apiVars, boxVars
<1>4. rowLock[c] = s /\ job[s].handled < BatchSize
  BY <1>1, <1>2, NoneAssumption DEF LockOK
<1> HIDE DEF NoJob
<1>5. j \in JobRecord /\ j.campaign = None
  <2>1. job[s].handled + 1 \in 0..BatchSize
    BY <1>4, JobOf, SizeAssumption
  <2> QED BY <2>1, NoJobOK DEF JobRecord
<1> HIDE DEF j
<1>6. /\ job'[s] = j /\ pc'[s] = "claim"
      /\ \A t \in Scheduler \ {s} : job'[t] = job[t] /\ pc'[t] = pc[t]
      /\ \A d \in Campaign \ {c} : rowLock'[d] = rowLock[d] /\ status'[d] = status[d]
  BY <1>2, <1>3 DEF CInv, ShapesOK
<1>7. ShapesOK' /\ BoxOK'
  BY <1>2, <1>3, <1>5 DEF CInv, ShapesOK, BoxOK, Steps, Status
<1>8. \A d, u : Covered(d, u) => Covered(d, u)'
  BY <1>3, CoveredKept
<1>9. ASSUME NEW t \in Scheduler \ {s} PROVE LockOK(t)' /\ ReadOK(t)'
  BY <1>3, <1>4, <1>6, <1>8, OthersWork
<1>10. LockOK(s)' /\ ReadOK(s)'
  BY <1>5, <1>6, IdleOK
<1>11. ASSUME NEW u \in audience[c] PROVE Covered(c, u)
  <2>1. job[s].todo = <<>> /\ Has(s, c, u)
    BY <1>1, <1>2 DEF ReadOK
  <2> QED BY <2>1 DEF Has, ToSet
<1>12. DoneOK'
  <2>1. ASSUME NEW d \in Campaign \ {c}
        PROVE  status'[d] = "DONE" => \A u \in audience'[d] : Covered(d, u)'
    BY <1>3, <1>6, <1>8, DoneKept
  <2> QED BY <1>3, <1>8, <1>11, <2>1 DEF DoneOK
<1> QED BY <1>7, <1>9, <1>10, <1>12 DEF CInv, WorkOK

-----------------------------------------------------------------------------
(* Failures, and the producer *)

\* A step at which a scheduler gives its row back, or keeps it, and none of its messages
\* is forgotten.
LEMMA LeaveInv ==
  ASSUME CInv, NEW s \in Scheduler, rowLock' = Rollback(s),
         job' = [job EXCEPT ![s] = NoJob], pc'[s] \in {"idle", "stop"},
         \E p \in Steps : pc' = [pc EXCEPT ![s] = p],
         UNCHANGED <<apiVars, status, audience, boxVars>>,
         lost \subseteq lost', lost' \subseteq Keys, buffer' \in [Scheduler -> SUBSET Keys],
         \A t \in Scheduler : buffer[t] \subseteq published \cup buffer'[t] \cup lost'
  PROVE  CInv'
<1>1. UNCHANGED <<users, request, status, audience, published, delivery, emails>>
  BY DEF apiVars, boxVars
<1> HIDE DEF NoJob
<1>2. /\ job'[s].campaign = None
      /\ \A t \in Scheduler \ {s} : job'[t] = job[t] /\ pc'[t] = pc[t]
  BY NoJobOK DEF CInv, ShapesOK
<1>3. \A c \in Campaign : rowLock'[c] = IF rowLock[c] = s THEN None ELSE rowLock[c]
  BY DEF Rollback
<1>4. rowLock' \in [Campaign -> Scheduler \cup {None}]
  BY DEF Rollback, CInv, ShapesOK
<1>5. ShapesOK' /\ BoxOK'
  BY <1>1, <1>4, NoJobOK DEF CInv, ShapesOK, BoxOK
<1>6. \A c, u : Covered(c, u) => Covered(c, u)'
  BY <1>1, CoveredKept
<1>7. ASSUME NEW t \in Scheduler \ {s} PROVE LockOK(t)' /\ ReadOK(t)'
  BY <1>1, <1>2, <1>3, <1>6, OthersWork
<1>8. LockOK(s)' /\ ReadOK(s)'
  BY <1>2, IdleOK
<1>9. DoneOK'
  BY <1>1, <1>6, DoneKept DEF DoneOK
<1> QED BY <1>5, <1>7, <1>8, <1>9 DEF CInv, WorkOK

LEMMA FailInv ==
  ASSUME CInv, NEW s \in Scheduler, Fail(s) \/ Crash(s)
  PROVE  CInv'
<1>1. CASE Fail(s)
  BY <1>1, LeaveInv DEF Fail, Goto, SetJob, Steps, CInv, ShapesOK
<1>2. CASE Crash(s)
  BY <1>2, LeaveInv DEF Crash, Goto, SetJob, Steps, CInv, ShapesOK
<1> QED BY <1>1, <1>2

LEMMA ProducerInv ==
  ASSUME CInv, NEW s \in Scheduler, Flush(s) \/ DropBatch(s)
  PROVE  CInv'
<1>1. /\ UNCHANGED <<users, request, status, rowLock, pc, job, audience, delivery, emails>>
      /\ buffer' = [buffer EXCEPT ![s] = {}]
      /\ \/ published' = published \cup buffer[s] /\ lost' = lost \ buffer[s]
         \/ published' = published /\ lost' = lost \cup (buffer[s] \ published)
  BY DEF Flush, DropBatch, Worker!Publish, apiVars, rowVars, boxVars
<1>2. ShapesOK' /\ BoxOK' /\ \A t \in Scheduler \ {s} : buffer'[t] = buffer[t]
  BY <1>1 DEF CInv, ShapesOK, BoxOK
<1>3. \A c, u : Covered(c, u) => Covered(c, u)'
  BY <1>1, <1>2, CoveredKept
<1>4. ASSUME NEW t \in Scheduler PROVE LockOK(t)' /\ ReadOK(t)'
  BY <1>1, <1>3, OthersWork
<1>5. DoneOK'
  BY <1>1, <1>3, DoneKept DEF DoneOK
<1> QED BY <1>2, <1>4, <1>5 DEF CInv, WorkOK

LEMMA DeliverInv ==
  ASSUME CInv, NEW k \in Keys, Deliver(k)
  PROVE  CInv'
<1>1. UNCHANGED <<users, request, status, rowLock, pc, job, buffer, audience, lost, published>>
  BY DEF Deliver, Worker!Handle, Worker!Reserve, Worker!Email, Worker!Finish, apiVars, rowVars, workVars
<1>2. BoxOK'
  BY DEF Deliver, Worker!Handle, Worker!Reserve, Worker!Email, Worker!Finish, CInv, BoxOK
<1>3. \A c, u : Covered(c, u) => Covered(c, u)'
  BY <1>1, CoveredKept
<1>4. ASSUME NEW t \in Scheduler PROVE LockOK(t)' /\ ReadOK(t)'
  BY <1>1, <1>3, OthersWork
<1>5. DoneOK'
  BY <1>1, <1>3, DoneKept DEF DoneOK
<1> QED BY <1>1, <1>2, <1>4, <1>5 DEF CInv, WorkOK, ShapesOK

-----------------------------------------------------------------------------
(* The theorems *)

LEMMA InitInv ==
  ASSUME Init
  PROVE  CInv
<1> HIDE DEF NoJob
<1>1. ShapesOK
  BY NoJobOK, EarlyAssumption DEF Init, ShapesOK, Status, Steps
<1>2. BoxOK
  BY DEF Init, Worker!Init, BoxOK
<1>3. WorkOK
  BY NoJobOK, NoneAssumption DEF Init, WorkOK, LockOK, ReadOK
<1>4. DoneOK
  BY DEF Init, DoneOK
<1> QED BY <1>1, <1>2, <1>3, <1>4 DEF CInv

LEMMA NextInv ==
  ASSUME CInv, [Next]_vars
  PROVE  CInv'
<1>1. ASSUME NEW s \in Scheduler, StartJob(s) \/ Run(s) \/ Fail(s) \/ Flush(s) \/ DropBatch(s) \/ Crash(s)
      PROVE  CInv'
  BY <1>1, ClaimInv, StartInv, FetchPageInv, PublishInv, NextPageInv, MarkDoneInv, FailInv, ProducerInv
     DEF Run
<1>2. CASE UNCHANGED vars
  <2>1. UNCHANGED <<users, status, rowLock, pc, job, buffer, request, audience, lost, published, delivery, emails>>
    BY <1>2 DEF vars
  <2>2. ASSUME NEW t \in Scheduler PROVE LockOK(t)' /\ ReadOK(t)'
    BY <2>1, CoveredKept, OthersWork
  <2>3. DoneOK'
    BY <2>1, CoveredKept, DoneKept DEF DoneOK
  <2> QED BY <2>1, <2>2, <2>3 DEF CInv, WorkOK, ShapesOK, BoxOK
<1> QED BY <1>1, <1>2, RegisterInv, RequestInv, DeliverInv DEF Next

LEMMA Invariance == Spec => []CInv
<1>1. CInv /\ [Next]_vars => CInv'
  BY NextInv
<1>2. Init => CInv
  BY InitInv
<1> QED BY <1>1, <1>2, PTL DEF Spec

\* The variables keep their shape, and whoever works at a campaign holds its row.
THEOREM TypeCorrect == Spec => []TypeOK
<1>1. CInv => TypeOK
  <2> SUFFICES ASSUME CInv PROVE TypeOK
    OBVIOUS
  <2>1. ASSUME NEW s \in Scheduler
        PROVE  /\ job[s].campaign \in Campaign \cup {None}
               /\ job[s].handled \in 0..BatchSize
               /\ job[s].todo \in Seq(User)
               /\ job[s].campaign # None => rowLock[job[s].campaign] = s
               /\ buffer[s] \subseteq Keys
    BY JobOf DEF LockOK, CInv, ShapesOK
  <2>2. emails \in [Keys -> Nat]
    BY DEF CInv, BoxOK
  <2> QED BY <2>1, <2>2 DEF CInv, ShapesOK, BoxOK, TypeOK, Steps
<1> QED BY <1>1, Invariance, PTL

\* However often a campaign is triggered, claimed, rolled back or run twice, a user gets at
\* most one email of it.
THEOREM NobodyGetsTwo == Spec => []OneEmailPerUser
<1>1. CInv => OneEmailPerUser
  <2> SUFFICES ASSUME CInv, NEW c \in Campaign, NEW u \in User,
                      NEW k \in {KeyFor(c, u, s) : s \in Scheduler},
                      NEW l \in {KeyFor(c, u, s) : s \in Scheduler}
               PROVE  emails[k] + (IF k = l THEN 0 ELSE emails[l]) <= 1
    BY DEF OneEmailPerUser
  <2>1. k \in Keys /\ k = l
    BY KeyIsKey
  <2>2. emails[k] \in {0, 1}
    BY <2>1 DEF CInv, BoxOK
  <2> QED BY <2>1, <2>2
<1> QED BY <1>1, Invariance, PTL

\* A campaign is only DONE when every user registered when it was claimed has their
\* message in the topic, in a running producer or among those a crash or the broker took.
THEOREM DoneIsComplete == Spec => []DoneCoversAudience
<1>1. CInv => DoneCoversAudience
  <2> SUFFICES ASSUME CInv, NEW c \in Campaign, status[c] = "DONE", NEW u \in audience[c]
               PROVE  \E s \in Scheduler : KeyFor(c, u, s) \in published \cup buffer[s] \cup lost
    BY DEF DoneCoversAudience
  <2>1. PICK s \in Scheduler : <<c, u>> \in published \cup buffer[s] \cup lost
    BY DEF CInv, DoneOK, Covered
  <2> QED BY <2>1 DEF KeyFor
<1> QED BY <1>1, Invariance, PTL
=============================================================================
