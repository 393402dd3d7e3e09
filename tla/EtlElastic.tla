----------------------------- MODULE EtlElastic -----------------------------
(***************************************************************************)
(* etl-postgres-elasticsearch: one process copies the catalog that the     *)
(* Django admin edits from PostgreSQL to Elasticsearch.  For each table it *)
(* keeps in Redis the newest modification time it has loaded (mark), reads *)
(* the next rows after it, loads their documents and the documents of the  *)
(* films they belong to, and only then advances the mark.                  *)
(*                                                                         *)
(* A document is its own row's modification time (own), for a film those   *)
(* of the genres and persons it embeds, with their roles (related), and    *)
(* for a person the films it lists (films).  The wording of every other    *)
(* field is left out.                                                      *)
(***************************************************************************)
EXTENDS Naturals, FiniteSets, FiniteSetsExt

CONSTANTS
  Film, Genre, Person,  \* rows, in the database or to be created
  Role,       \* what the admins write into a person's role, a text field without choices
  Early,      \* rows saved at one time before the ETL starts; those without a link may
              \* not have committed
  EarlyLinks, \* and their links
  BatchSize,  \* settings.BATCH_SIZE
  MaxTime,    \* bound: saves in the admin, as the clock's last value
  MaxFaults,  \* bound: crashes, failed steps and requests refused by Elasticsearch
  Fault,      \* which of them happen: "crash", "error", "refuse"
  Doomed,     \* bound: rows that may be deleted
  Released,   \* bound: tables whose mappings a release may change
  NoDoc       \* no document in the index

Row == Film \cup Genre \cup Person
Related == Genre \cup Person

\* The rows genre_film_work and person_film_work can have, as <<related, film, role>>.
Link == (Genre \X Film \X {""}) \cup (Person \X Film \X Role)

ASSUME TableAssumption == Film \cap Related = {} /\ Genre \cap Person = {}
ASSUME RowAssumption == Early \subseteq Row /\ EarlyLinks \subseteq {l \in Link : {l[1], l[2]} \subseteq Early}
ASSUME SizeAssumption == BatchSize \in Nat \ {0} /\ MaxTime \in Nat \ {0} /\ MaxFaults \in Nat
ASSUME FaultAssumption == Fault \subseteq {"crash", "error", "refuse"} /\ Doomed \subseteq Row

VARIABLES
  clock,      \* the admin servers' clock: the last time stamp given
  modified,   \* row -> its modified column, 0 for a row that is not in the table
  pending,    \* saves that have not committed yet, as <<row, stamp>>
  links,      \* genre_film_work and person_film_work
  index,      \* Elasticsearch: row -> document or NoDoc
  valid,      \* tables whose index exists with the mappings of this release
  mark,       \* Redis etl_state: table -> last modification time loaded
  pc,         \* the step the process is about to take
  job,        \* its local variables
  excused,    \* history: rows the ETL has lost sight of, see the actions that add to it
  faults      \* history: faults so far

dbVars  == <<clock, modified, pending, links>>
esVars  == <<index, valid>>
runVars == <<pc, job>>
vars == <<clock, modified, pending, links, index, valid, mark, pc, job, excused, faults>>

-----------------------------------------------------------------------------
Table == {"film_work", "genre", "person"}

Tbl(r) == IF r \in Film THEN "film_work" ELSE IF r \in Genre THEN "genre" ELSE "person"

\* What a query of the extractor can see, which has a connection of its own.
Present == {r \in Row : modified[r] # 0}

\* The order of config/etl_mappings.yaml, repeated for ever.
NextTable == [film_work |-> "genre", genre |-> "person", person |-> "film_work"]

Setup == pc \in {"setup", "create", "state"}

\* The query for films aggregates genres, and persons of three roles.
Listed(l) == l[1] \in Genre \/ l[3] \in {"director", "actor", "writer"}

Embedded(f) == {<<l[1], l[3], modified[l[1]]>> : l \in {k \in links : k[2] = f /\ Listed(k)}}

FilmsOf(rows) == {l[2] : l \in {k \in links : k[1] \in rows}}

Document_WithoutPersons(r) ==
  [own |-> modified[r],
   related |-> {e \in Embedded(r) : e[1] \in Genre},
   films |-> IF r \in Person THEN FilmsOf({r}) ELSE {}]

\* The document the extractor's queries build for a row of the database.  A person lists
\* films whatever the role.
Document(r) ==
  [own |-> modified[r],
   related |-> Embedded(r),
   films |-> IF r \in Person THEN FilmsOf({r}) ELSE {}]

\* table: being processed; batch: ids of the rows read; docs: documents to load, as
\* pairs; created: tables whose index this start has created anew.
NoJob == [table |-> "film_work", batch |-> {}, new |-> 0, own |-> {}, films |-> {},
          movies |-> {}, created |-> {}]

Init ==
  /\ clock = 1
  /\ \E open \in SUBSET {r \in Early : \A l \in EarlyLinks : r \notin {l[1], l[2]}} :
       /\ modified = [r \in Row |-> IF r \in Early \ open THEN 1 ELSE 0]
       /\ pending = open \X {1}
  /\ links = EarlyLinks
  /\ index = [r \in Row |-> NoDoc]
  /\ valid = {}
  /\ mark = [t \in Table |-> 0]
  /\ pc = "setup"
  /\ job = NoJob
  /\ excused = {}
  /\ faults = 0

-----------------------------------------------------------------------------
(* The Django admin *)

\* auto_now: the row is stamped by the clock of the server that saves it, before the
\* transaction of the request commits.  Several requests may be at one row, and it may be
\* deleted since they read it: a row that is not there is inserted, by one of them.
BeginSave(r) ==
  /\ clock < MaxTime
  /\ r \in Present \/ \A p \in pending : p[1] # r
  /\ clock' = clock + 1
  /\ pending' = pending \cup {<<r, clock + 1>>}
  /\ UNCHANGED <<modified, links, esVars, mark, runVars, excused, faults>>

\* What an entry of the film's form may say: any row that exists, in any role.
FilmLinks(f) == {m \in Link : m[2] = f /\ m[1] \in Present}

\* The links the inlines of r's form show.  GenreAdmin has no inline.
FormLinks(r) == {l \in links : l[2] = r \/ (l[1] = r /\ r \in Person)}

\* One entry of the inlines is added, removed or changed with a save of r.  PersonAdmin's
\* inline has no field for the film: nothing can be added there, and only roles change.
EditLinks(r) ==
  \/ \E m \in FilmLinks(r) : links' = links \cup {m}
  \/ \E l \in FormLinks(r) : links' = links \ {l}
  \/ \E l \in FormLinks(r) :
       \E m \in IF r \in Film THEN FilmLinks(r) ELSE {r} \X {l[2]} \X Role :
         links' = (links \ {l}) \cup {m}

\* The process may not see a save of r with this stamp any more: it is not after the mark,
\* or not after the mark the batch in hand will leave.
Late(r, stamp) ==
  stamp <= mark[Tbl(r)] \/ (~Setup /\ pc # "batch" /\ job.table = Tbl(r) /\ stamp <= job.new)

\* A save commits, the later stamp before the earlier one perhaps.  Model.save updates the
\* row or, when there is none to update, inserts it: a row that was deleted since the
\* request read it is back.
CommitSave(r) ==
  \E p \in pending :
    /\ p[1] = r
    /\ modified' = [modified EXCEPT ![r] = p[2]]
    /\ pending' = pending \ {p}
    /\ EditLinks(r) \/ UNCHANGED links
    /\ excused' = IF Late(r, p[2]) THEN excused \cup {r} ELSE excused \ {r}
    /\ UNCHANGED <<clock, esVars, mark, runVars, faults>>

\* Deleting a row cascades to its links; nothing tells the ETL.  It waits for a save that
\* has updated the row, and one that has not will insert it, with a new stamp (BeginSave).
DeleteRow(r) ==
  /\ r \in Doomed \cap Present /\ faults < MaxFaults /\ faults' = faults + 1
  /\ modified' = [modified EXCEPT ![r] = 0]
  /\ pending' = {p \in pending : p[1] # r}
  /\ links' = {l \in links : l[1] # r /\ l[2] # r}
  /\ excused' = excused \ {r}
  /\ UNCHANGED <<clock, esVars, mark, runVars>>

-----------------------------------------------------------------------------
(* es_setup and state_setup *)

\* es_setup goes through the tables in their order.
NextSetup(created) ==
  /\ job' = [job EXCEPT !.table = NextTable[@], !.created = created]
  /\ pc' = IF job.table = "person" THEN "state" ELSE "setup"

\* An index that has the mappings of this release is kept.
KeepIndex ==
  /\ pc = "setup" /\ job.table \in valid
  /\ NextSetup(job.created)
  /\ UNCHANGED <<dbVars, esVars, mark, excused, faults>>

Refused == "refuse" \in Fault /\ faults < MaxFaults /\ faults' = faults + 1

\* Any other is removed, its documents with it, and so is a good one when the question for
\* its mappings is not answered with 200.
RemoveIndex ==
  /\ pc = "setup"
  /\ IF job.table \in valid THEN Refused ELSE UNCHANGED faults
  /\ index' = [r \in Row |-> IF Tbl(r) = job.table THEN NoDoc ELSE index[r]]
  /\ valid' = valid \ {job.table}
  /\ pc' = "create"
  /\ UNCHANGED <<dbVars, mark, job, excused>>

\* A removal that is refused is only logged; the creation that follows is told that the
\* index exists, and counts as one all the same.
KeepOldIndex ==
  /\ pc = "setup" /\ job.table \notin valid /\ Refused
  /\ NextSetup(job.created \cup {job.table})
  /\ UNCHANGED <<dbVars, esVars, mark, excused>>

\* create_es_index, whose refusal is only logged too: the first bulk request will make an
\* index without the mappings.
CreateIndex ==
  /\ pc = "create"
  /\ \/ valid' = valid \cup {job.table} /\ UNCHANGED faults
     \/ Refused /\ UNCHANGED valid
  /\ NextSetup(job.created \cup {job.table})
  /\ UNCHANGED <<dbVars, index, mark, excused>>

StateSetup_KeepState ==
  /\ pc = "state"
  /\ pc' = "batch" /\ job' = NoJob
  /\ UNCHANGED <<dbVars, esVars, mark, excused, faults>>

\* state_setup: if an index was created in this start, all marks start again.
StateSetup ==
  /\ pc = "state"
  /\ IF job.created = {} THEN UNCHANGED <<mark, excused>>
     ELSE mark' = [t \in Table |-> 0] /\ excused' = {}
  /\ pc' = "batch" /\ job' = NoJob
  /\ UNCHANGED <<dbVars, esVars, faults>>

-----------------------------------------------------------------------------
(* process_related_data *)

NextUp_SameTable == [NoJob EXCEPT !.table = job.table]

NextUp == [NoJob EXCEPT !.table = NextTable[job.table]]

Newer(t) == {r \in Present : Tbl(r) = t /\ modified[r] > mark[t]}

\* WHERE modified > mark ORDER BY modified LIMIT BATCH_SIZE: rows with equal stamps come
\* in any order.
Batches(t) ==
  {b \in SUBSET Newer(t) :
     /\ Cardinality(b) = Min({BatchSize, Cardinality(Newer(t))})
     /\ \A r \in b, s \in Newer(t) \ b : modified[r] <= modified[s]}

\* _get_record_id_modified_batch: nothing new ends the table's turn.
GetBatch ==
  /\ pc = "batch"
  /\ \E b \in Batches(job.table) :
       IF b = {} THEN job' = NextUp /\ pc' = pc
       ELSE /\ job' = [job EXCEPT !.batch = b, !.new = Max({modified[r] : r \in b})]
            /\ pc' = "docs"
  /\ UNCHANGED <<dbVars, esVars, mark, excused, faults>>

Documents(rows) == {<<r, Document(r)>> : r \in rows \cap Present}

\* _get_complete_film_work_data for a batch of films, or the documents of the genres or
\* persons of the batch: a later query, which sees later saves.
GetDocs ==
  /\ pc = "docs"
  /\ job' = IF job.table = "film_work" THEN [job EXCEPT !.movies = Documents(job.batch)]
            ELSE [job EXCEPT !.own = Documents(job.batch)]
  /\ pc' = IF job.table = "film_work" THEN "load_movies" ELSE "related"
  /\ UNCHANGED <<dbVars, esVars, mark, excused, faults>>

\* _get_film_work_for_related_ids, whatever the role: without a film the batch is loaded
\* and the mark is left where it was.
GetRelated ==
  /\ pc = "related"
  /\ LET films == FilmsOf(job.batch) IN
       IF films = {} THEN job' = [job EXCEPT !.new = mark[job.table]] /\ pc' = "load_own"
       ELSE job' = [job EXCEPT !.films = films] /\ pc' = "films"
  /\ UNCHANGED <<dbVars, esVars, mark, excused, faults>>

\* _get_complete_film_work_data for the films of the batch.
GetFilms ==
  /\ pc = "films"
  /\ job' = [job EXCEPT !.movies = Documents(job.films)]
  /\ pc' = "load_movies"
  /\ UNCHANGED <<dbVars, esVars, mark, excused, faults>>

Rows(docs) == {d[1] : d \in docs}

Put(docs) ==
  index' = [r \in Row |-> IF r \in Rows(docs) THEN (CHOOSE d \in docs : d[1] = r)[2] ELSE index[r]]

\* One bulk request.  A connection error is retried with the same content; an answer that
\* is not 200, or with errors of some items, is only logged, and those rows are lost.
Bulk(docs) ==
  \E lost \in SUBSET docs :
    /\ Put(docs \ lost)
    /\ excused' = excused \cup Rows(lost)
    /\ IF lost = {} THEN UNCHANGED faults ELSE Refused

\* load: the movies first, then the persons or genres; empty lists are not sent.
LoadMovies ==
  /\ pc = "load_movies"
  /\ IF job.movies = {} THEN UNCHANGED <<index, excused, faults>> ELSE Bulk(job.movies)
  /\ pc' = "load_own"
  /\ UNCHANGED <<dbVars, valid, mark, job>>

LoadOwn ==
  /\ pc = "load_own"
  /\ IF job.own = {} THEN UNCHANGED <<index, excused, faults>> ELSE Bulk(job.own)
  /\ pc' = "mark"
  /\ UNCHANGED <<dbVars, valid, mark, job>>

\* Rows with the batch's last stamp that the LIMIT cut off: the next query asks for later
\* ones.
CutOff == {r \in Present \ job.batch : Tbl(r) = job.table /\ modified[r] = job.new}

\* set_state writes all marks, of which one has changed.
SetState(t, value) == mark' = [mark EXCEPT ![t] = value]

\* process_related_data ends with it, unless the rows have all gone since they were read
\* (is_empty).
SetMark ==
  /\ pc = "mark"
  /\ LET empty == job.own = {} /\ job.movies = {} IN
       /\ IF empty THEN UNCHANGED mark ELSE SetState(job.table, job.new)
       /\ excused' = IF empty \/ job.new = mark[job.table] THEN excused ELSE excused \cup CutOff
  /\ pc' = "batch" /\ job' = NextUp
  /\ UNCHANGED <<dbVars, esVars, faults>>

-----------------------------------------------------------------------------
(* Faults *)

\* backoff retries lost connections and timeouts for ever, which only delays a step; any
\* other exception (an answer that is not JSON) leaves it, as does one of Redis, which is
\* read and written outside of it.
Unretried == "error" \in Fault /\ faults < MaxFaults /\ faults' = faults + 1

\* The main loop goes on with the next table.
Skip ==
  /\ Unretried
  /\ ~Setup
  /\ pc' = "batch" /\ job' = NextUp
  /\ UNCHANGED <<dbVars, esVars, mark, excused>>

\* The process stops and is started again.  An index it had created looks valid to the
\* next start, which keeps the marks: the rows behind them are not loaded again.
Restart ==
  /\ pc' = "setup" /\ job' = NoJob
  /\ excused' = excused \cup {r \in Present : Tbl(r) \in job.created \cap valid}

Crash ==
  /\ "crash" \in Fault /\ faults < MaxFaults /\ faults' = faults + 1
  /\ Restart
  /\ UNCHANGED <<dbVars, esVars, mark>>

\* A release changes the mappings of an index.
Release(t) ==
  /\ t \in Released /\ faults < MaxFaults /\ faults' = faults + 1
  /\ valid' = valid \ {t}
  /\ Restart
  /\ UNCHANGED <<dbVars, index, mark>>

-----------------------------------------------------------------------------
Step ==
  \/ KeepIndex \/ RemoveIndex \/ KeepOldIndex \/ CreateIndex \/ StateSetup
  \/ GetBatch \/ GetDocs \/ GetRelated \/ GetFilms
  \/ LoadMovies \/ LoadOwn \/ SetMark

Admin == \E r \in Row : BeginSave(r) \/ CommitSave(r) \/ DeleteRow(r)

Next == Admin \/ Step \/ Skip \/ Crash \/ (\E t \in Table : Release(t))

Spec == Init /\ [][Next]_vars

Commits == \E r \in Row : CommitSave(r)

\* The process runs and requests in the admin commit.
Fairness == WF_vars(Step) /\ WF_vars(Commits)

FairSpec == Spec /\ Fairness
=============================================================================
