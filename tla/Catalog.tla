------------------------------- MODULE Catalog -------------------------------
(***************************************************************************)
(* The catalog from the admin's save to a reader's answer: the ETL         *)
(* (EtlElastic) fills the index, the content service (ContentApi) answers  *)
(* from it through a cache.                                                *)
(***************************************************************************)
EXTENDS EtlElastic

CONSTANTS Request, Query, Miss

VARIABLES cache, request

Api == INSTANCE ContentApi

cacheVars == <<cache, request>>

catalogVars == <<clock, modified, pending, links, index, valid, mark, pc, job, excused,
                 faults, cache, request>>

CatalogInit == Init /\ Api!ApiInit

Copy == Next /\ UNCHANGED cacheVars
Serve == Api!ApiNext /\ UNCHANGED vars

CatalogNext == Copy \/ Serve

\* The ETL's own fairness; a request that has started ends, and an entry expires.
CatalogFairness ==
  /\ WF_catalogVars(Step /\ UNCHANGED cacheVars)
  /\ WF_catalogVars(Commits /\ UNCHANGED cacheVars)
  /\ WF_catalogVars((\E c \in Request : Api!RunHandler(c) \/ Api!StoreCache(c)) /\ UNCHANGED vars)
  /\ WF_catalogVars((\E q \in Query : Api!Expire(q)) /\ UNCHANGED vars)

CatalogSpec == CatalogInit /\ [][CatalogNext]_catalogVars

FairCatalogSpec == CatalogSpec /\ CatalogFairness

-----------------------------------------------------------------------------
(* Properties *)

Doc == [own : 0..MaxTime, related : SUBSET (Related \X (Role \cup {""}) \X (1..MaxTime)), films : SUBSET Film]

ASSUME NoDocAssumption == NoDoc \notin Doc

DocSet(docs) == \A d \in docs : d[1] \in Row /\ d[2] \in Doc

\* Types of the process and of the database; the mark a batch will leave is never behind
\* the present one, so that marks only go back when all of them start again.
TypeOK ==
  /\ clock \in 1..MaxTime /\ faults \in 0..MaxFaults
  /\ \A r \in Row : modified[r] \in 0..clock
  /\ pending \subseteq Row \X (1..clock)
  /\ links \subseteq Link /\ \A l \in links : {l[1], l[2]} \subseteq Present
  /\ \A r \in Row : index[r] # NoDoc => index[r] \in Doc
  /\ valid \subseteq Table
  /\ \A t \in Table : mark[t] \in 0..clock
  /\ pc \in {"setup", "create", "state", "batch", "docs", "related", "films", "load_movies", "load_own", "mark"}
  /\ job.table \in Table /\ job.batch \subseteq Row /\ job.films \subseteq Film
  /\ DocSet(job.own) /\ DocSet(job.movies)
  /\ ~Setup /\ pc # "batch" => job.new >= mark[job.table]
  /\ excused \subseteq Row

Loaded(r) == ~Setup /\ r \in Present \ excused /\ modified[r] <= mark[Tbl(r)]

\* A row that is not after its table's mark will not be read again, so the index must
\* have it, and at least as new: load comes before set_state (main.py:50-54), across
\* crashes, failed steps and re-created indexes, but for the rows in excused.
MarkedRowsAreIndexed ==
  \A r \in Row : Loaded(r) => index[r] # NoDoc /\ index[r].own >= modified[r]

\* The document of a film embeds its genres and persons as they are, in each of the roles
\* the query asks for, once both the film and they are behind their marks: the genre or
\* person that changed brings its films along (extractor.py:78-115).
FilmsEmbedTheirRelated ==
  \A l \in links : Listed(l) /\ Loaded(l[1]) /\ Loaded(l[2]) =>
    \E e \in index[l[2]].related : e[1] = l[1] /\ e[2] = l[3] /\ e[3] >= modified[l[1]]

\* Every genre and person belongs to a film, or all of a batch may not and the mark stays.
Unblocked == \A x \in Related \cap Present : \E l \in links : l[1] = x

UpToDate(r, lost) ==
  /\ index[r] # NoDoc /\ index[r].own = modified[r]
  /\ \A l \in links : l[2] = r /\ Listed(l) /\ l[1] \notin lost =>
       <<l[1], l[3], modified[l[1]]>> \in index[r].related

\* When the admin has stopped saving and no batch is without a film, every row the ETL has
\* not lost sight of reaches the index, with what the film's query asks for.
SavesReachIndex == <>[]Unblocked => <>[](\A r \in Present \ excused : UpToDate(r, excused))


-----------------------------------------------------------------------------
(* What the ETL's README promises and the code does not keep: "It ensures  *)
(* that all movie catalog changes are reflected in the search index"       *)
(* (etl-postgres-elasticsearch/README.md:7).                               *)

\* No batch keeps those behind it from the index: a batch of persons of which none has a
\* film is read again and again.
NoBatchBlocks == <>[](\A r \in Present \ excused : UpToDate(r, excused))

\* No row is lost to sight for good: rows cut off by the limit, late saves, rows that
\* Elasticsearch refused, and those of an index that was created before a crash are.
ChangesReachIndex == <>[]Unblocked => <>[](\A r \in Present : UpToDate(r, {}))

\* A person's document follows its films.  A link is made in the film's form and changes
\* the film only, and the ETL has no reason to read the person again.
PersonsListTheirFilms ==
  <>[]Unblocked =>
    <>[](\A l \in links :
           l[1] \in Person \ excused => index[l[1]] # NoDoc /\ l[2] \in index[l[1]].films)

\* A film's document embeds all of its persons.  It leaves out those whose role is none of
\* the three the query knows, while role is a text without choices (movies/models.py:143).
FilmsEmbedEverybody ==
  <>[]Unblocked =>
    <>[](\A l \in links : l[1] \notin excused /\ l[2] \notin excused =>
           index[l[2]] # NoDoc /\ \E e \in index[l[2]].related : e[1] = l[1])
=============================================================================
