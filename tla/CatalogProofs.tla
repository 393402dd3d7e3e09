---------------------------- MODULE CatalogProofs ----------------------------
(***************************************************************************)
(* The safety properties of Catalog, proved for any films, genres and      *)
(* persons, any batch size and any number of saves and faults.             *)
(*                                                                         *)
(* The argument: a row the ETL has not lost sight of and that is not after *)
(* the mark its table has, or will have when the batch in hand is done, is *)
(* either in the index as new as in the database, with all those genres    *)
(* and persons its document lists of which the same is true, or it is in   *)
(* the batch and, once read, among the documents about to be loaded.  A    *)
(* save that commits in between moves the row behind this batch or makes   *)
(* it one of the excused.                                                  *)
(***************************************************************************)
EXTENDS Catalog, FiniteSetTheorems, WellFoundedInduction, TLAPS

Handling == ~Setup /\ pc # "batch"

\* A row behind its table's mark.
Known(r) == r \in Present \ excused /\ modified[r] <= mark[Tbl(r)]

\* A row of the batch in hand, as it was when the batch was read.
InHand(r) ==
  /\ Handling /\ r \in Present \ excused /\ Tbl(r) = job.table
  /\ r \in job.batch /\ modified[r] <= job.new

Reached(r) == Known(r) \/ InHand(r)

FilmsLoaded == pc \in {"load_own", "mark"}

\* Rows that have to be in the index, and rows that their films' documents have to embed.
Due(r) == Known(r) \/ (InHand(r) /\ (IF r \in Film THEN FilmsLoaded ELSE pc = "mark"))

Shown(x) == Known(x) \/ (InHand(x) /\ FilmsLoaded)

Embeds(doc, l) ==
  \E e \in doc.related : e[1] = l[1] /\ e[2] = l[3] /\ e[3] >= modified[l[1]]

\* The links of r that its document lists.
LinksOf(r) == {l \in links : l[2] = r /\ Listed(l)}

\* The index this start has made anew, or is going to.
Exempt(r) == Setup /\ (Tbl(r) \in job.created \/ Tbl(r) \notin valid)

IndexOK ==
  \A r \in Row : Due(r) /\ ~Exempt(r) =>
    /\ index[r] # NoDoc /\ index[r].own >= modified[r]
    /\ \A l \in LinksOf(r) : Shown(l[1]) => Embeds(index[r], l)

\* The documents in hand are as new as what is behind the marks and in the batch.
DocsOK ==
  \A d \in job.movies \cup job.own : Reached(d[1]) =>
    /\ d[2].own >= modified[d[1]]
    /\ \A l \in LinksOf(d[1]) : Reached(l[1]) => Embeds(d[2], l)

\* What a batch leaves out has the stamp of the mark it will leave; what it has read is
\* among the documents, until they are loaded; so are the films of what it has read.
BatchOK ==
  Handling =>
    /\ job.new >= mark[job.table]
    /\ pc \in {"related", "films"} => job.table # "film_work"
    /\ job.table = "film_work" => job.own = {}
    /\ \A r \in Present \ excused :
         Tbl(r) = job.table /\ mark[job.table] < modified[r] /\ modified[r] <= job.new =>
           r \in job.batch \/ modified[r] = job.new
    /\ \A r \in job.batch : InHand(r) =>
         /\ job.table = "film_work" /\ pc = "load_movies" => r \in Rows(job.movies)
         /\ job.table # "film_work" /\ pc \in {"related", "films", "load_movies", "load_own"} =>
              r \in Rows(job.own)
    /\ \A l \in links : l[1] \in job.batch /\ InHand(l[1]) /\ Known(l[2]) =>
         /\ pc = "films" => l[2] \in job.films
         /\ pc = "load_movies" /\ job.table # "film_work" => l[2] \in Rows(job.movies)

JobOK ==
  /\ ~Setup => job.created = {}
  /\ pc \in {"batch", "docs"} => job.own = {} /\ job.movies = {}
  /\ pc \in {"setup", "create"} /\ job.table # "film_work" => "film_work" \in valid \cup job.created
  /\ pc \in {"setup", "create"} /\ job.table = "person" => "genre" \in valid \cup job.created
  /\ pc = "state" => Table \subseteq valid \cup job.created

JobType ==
  [table : Table, batch : SUBSET Row, new : 0..MaxTime, own : SUBSET (Row \X Doc),
   films : SUBSET Film, movies : SUBSET (Row \X Doc), created : SUBSET Table]

CTypes ==
  /\ clock \in 1..MaxTime /\ faults \in 0..MaxFaults
  /\ modified \in [Row -> 0..MaxTime] /\ \A r \in Row : modified[r] <= clock
  /\ pending \subseteq Row \X (1..clock)
  /\ links \subseteq Link /\ \A l \in links : l[1] \in Present /\ l[2] \in Present
  /\ index \in [Row -> Doc \cup {NoDoc}]
  /\ valid \subseteq Table
  /\ mark \in [Table -> 0..MaxTime] /\ \A t \in Table : mark[t] <= clock
  /\ pc \in {"setup", "create", "state", "batch", "docs", "related", "films",
             "load_movies", "load_own", "mark"}
  /\ job \in JobType /\ job.new <= clock
  /\ excused \subseteq Row

CInv == CTypes /\ JobOK /\ IndexOK /\ DocsOK /\ BatchOK

-----------------------------------------------------------------------------
(* Documents *)

LEMMA TableOfRow ==
  ASSUME NEW r \in Row
  PROVE  /\ Tbl(r) \in Table
         /\ r \in Film <=> Tbl(r) = "film_work"
         /\ r \in Related <=> Tbl(r) # "film_work"
  BY TableAssumption DEF Tbl, Table, Row, Related

LEMMA LinkShape ==
  ASSUME NEW l \in Link
  PROVE  /\ l[1] \in Related /\ l[2] \in Film /\ l[3] \in Role \cup {""}
         /\ l[1] \in Row /\ l[2] \in Row
<1>1. l[1] \in Related /\ l[2] \in Film /\ l[3] \in Role \cup {""}
  BY DEF Link, Related
<1> QED BY <1>1 DEF Related, Row

LEMMA LinksShape ==
  ASSUME CTypes
  PROVE  \A l \in links : l[1] \in Row /\ l[2] \in Row /\ l[2] \in Film
  BY LinkShape DEF CTypes

LEMMA DocumentShape ==
  ASSUME CTypes, NEW r \in Row
  PROVE  /\ Document(r) \in Doc /\ Document(r).own = modified[r]
         /\ \A l \in LinksOf(r) : Embeds(Document(r), l)
<1> DEFINE films == IF r \in Person THEN FilmsOf({r}) ELSE {}
           Entry == Related \X (Role \cup {""}) \X (1..MaxTime)
<1>1. Document(r) = [own |-> modified[r], related |-> Embedded(r), films |-> films]
  BY DEF Document
<1>2. ASSUME NEW l \in links
      PROVE  <<l[1], l[3], modified[l[1]]>> \in Entry
  <2>1. l[1] \in Related /\ l[3] \in Role \cup {""} /\ l[1] \in Row /\ l[1] \in Present
    BY LinkShape DEF CTypes
  <2>2. modified[l[1]] \in 0..MaxTime /\ modified[l[1]] # 0
    BY <2>1 DEF CTypes, Present
  <2>3. modified[l[1]] \in 1..MaxTime
    BY <2>2, SizeAssumption
  <2> QED BY <2>1, <2>3
<1>3. Embedded(r) \in SUBSET Entry
  BY <1>2 DEF Embedded
<1>4. films \in SUBSET Film
  BY LinksShape DEF FilmsOf
<1>5. Document(r) \in Doc /\ Document(r).own = modified[r] /\ Document(r).related = Embedded(r)
  <2>1. modified[r] \in 0..MaxTime
    BY DEF CTypes
  <2>2. Doc = [own : 0..MaxTime, related : SUBSET Entry, films : SUBSET Film]
    BY DEF Doc
  <2> HIDE DEF films, Entry
  <2> QED BY <1>1, <1>3, <1>4, <2>1, <2>2
<1>6. ASSUME NEW l \in LinksOf(r)
      PROVE  Embeds(Document(r), l)
  <2> DEFINE e == <<l[1], l[3], modified[l[1]]>>
  <2>1. l \in links /\ l[2] = r /\ Listed(l) /\ l[1] \in Row
    BY <1>6, LinksShape DEF LinksOf
  <2>2. e \in Embedded(r)
    BY <2>1 DEF Embedded
  <2>3. modified[l[1]] >= modified[l[1]]
    <3>1. modified[l[1]] \in 0..MaxTime
      BY <2>1 DEF CTypes
    <3> QED BY <3>1, SizeAssumption
  <2>4. e[1] = l[1] /\ e[2] = l[3] /\ e[3] >= modified[l[1]]
    BY <2>3
  <2> HIDE DEF e
  <2> QED BY <1>5, <2>2, <2>4 DEF Embeds
<1> QED BY <1>5, <1>6

LEMMA DocumentsShape ==
  ASSUME CTypes, NEW rows \in SUBSET Row
  PROVE  /\ Documents(rows) \in SUBSET (Row \X Doc)
         /\ \A r \in rows \cap Present : r \in Rows(Documents(rows))
         /\ \A d \in Documents(rows) : d[1] \in rows /\ d[2] = Document(d[1])
<1>1. \A r \in rows : <<r, Document(r)>> \in Row \X Doc
  BY DocumentShape
<1>2. \A r \in rows \cap Present : <<r, Document(r)>> \in Documents(rows)
  BY DEF Documents
<1>3. \A d \in Documents(rows) : \E r \in rows : d = <<r, Document(r)>>
  BY DEF Documents
<1>4. Documents(rows) \in SUBSET (Row \X Doc)
  BY <1>1, <1>3
<1>5. \A r \in rows \cap Present : r \in Rows(Documents(rows))
  <2> SUFFICES ASSUME NEW r \in rows \cap Present
               PROVE  r \in Rows(Documents(rows))
    OBVIOUS
  <2>1. <<r, Document(r)>>[1] = r
    OBVIOUS
  <2> QED BY <1>2, <2>1 DEF Rows
<1>6. \A d \in Documents(rows) : d[1] \in rows /\ d[2] = Document(d[1])
  BY <1>3
<1> QED BY <1>4, <1>5, <1>6

\* What has just been read is fresh.
LEMMA DocumentFresh ==
  ASSUME CInv, NEW r \in Row
  PROVE  /\ Document(r).own >= modified[r]
         /\ \A l \in LinksOf(r) : Embeds(Document(r), l)
<1>1. modified[r] >= modified[r]
  <2>1. modified[r] \in 0..MaxTime
    BY DEF CInv, CTypes
  <2> QED BY <2>1, SizeAssumption
<1> QED BY <1>1, DocumentShape DEF CInv

\* One bulk request, of which Elasticsearch takes some documents.
LEMMA PutShape ==
  ASSUME CTypes, NEW docs \in SUBSET (Row \X Doc), Put(docs)
  PROVE  /\ index' \in [Row -> Doc \cup {NoDoc}]
         /\ \A r \in Row :
              /\ r \notin Rows(docs) => index'[r] = index[r]
              /\ r \in Rows(docs) => index'[r] # NoDoc /\ \E d \in docs : d[1] = r /\ d[2] = index'[r]
<1> DEFINE found(r) == CHOOSE d \in docs : d[1] = r
<1>1. \A r \in Rows(docs) : found(r) \in docs /\ found(r)[1] = r
  BY DEF Rows
<1>2. \A d \in docs : d[2] \in Doc /\ d[2] # NoDoc
  BY NoDocAssumption
<1>3. index' = [r \in Row |-> IF r \in Rows(docs) THEN found(r)[2] ELSE index[r]]
  BY DEF Put
<1> HIDE DEF found
<1>4. \A r \in Row : index'[r] = IF r \in Rows(docs) THEN found(r)[2] ELSE index[r]
  BY <1>3
<1>5. index' \in [Row -> Doc \cup {NoDoc}]
  <2>1. \A r \in Row : (IF r \in Rows(docs) THEN found(r)[2] ELSE index[r]) \in Doc \cup {NoDoc}
    BY <1>1, <1>2 DEF CTypes
  <2> QED BY <1>3, <2>1
<1> QED BY <1>1, <1>2, <1>4, <1>5

-----------------------------------------------------------------------------
(* What steps keep *)

\* A step that leaves the index alone keeps it right when it demands no more of it.
LEMMA IndexKept ==
  ASSUME IndexOK, index' = index,
         \A r \in Row : Due(r)' /\ ~Exempt(r)' => /\ Due(r) /\ ~Exempt(r)
                                                 /\ modified'[r] = modified[r],
         \A r \in Row : \A l \in links' : Due(r)' /\ l[2] = r /\ Shown(l[1])' =>
           l \in links /\ Shown(l[1]) /\ modified'[l[1]] = modified[l[1]]
  PROVE  IndexOK'
<1> SUFFICES ASSUME NEW r \in Row, Due(r)', ~Exempt(r)'
             PROVE  /\ index[r] # NoDoc /\ index[r].own >= modified'[r]
                    /\ \A l \in LinksOf(r)' : Shown(l[1])' => Embeds(index[r], l)'
  BY DEF IndexOK, Embeds
<1>1. /\ index[r] # NoDoc /\ index[r].own >= modified[r] /\ modified'[r] = modified[r]
      /\ \A l \in LinksOf(r) : Shown(l[1]) => Embeds(index[r], l)
  BY DEF IndexOK
<1>2. ASSUME NEW l \in LinksOf(r)', Shown(l[1])'
      PROVE  Embeds(index[r], l)'
  <2>1. l \in links' /\ l[2] = r /\ Listed(l)
    BY <1>2 DEF LinksOf, Listed
  <2>2. l \in LinksOf(r) /\ Shown(l[1]) /\ modified'[l[1]] = modified[l[1]]
    BY <1>2, <2>1 DEF LinksOf
  <2> QED BY <1>1, <2>2 DEF Embeds
<1> QED BY <1>1, <1>2

LEMMA DocsKept ==
  ASSUME DocsOK, job'.movies \cup job'.own \subseteq job.movies \cup job.own,
         \A d \in job'.movies \cup job'.own : d[1] \in Row,
         \A r \in Row : Reached(r)' => Reached(r) /\ modified'[r] = modified[r],
         \A r \in Row : \A l \in links' : Reached(r)' /\ l[2] = r /\ Reached(l[1])' =>
           l \in links /\ Reached(l[1]) /\ modified'[l[1]] = modified[l[1]]
  PROVE  DocsOK'
<1> SUFFICES ASSUME NEW d \in job'.movies \cup job'.own, Reached(d[1])'
             PROVE  /\ d[2].own >= modified'[d[1]]
                    /\ \A l \in LinksOf(d[1])' : Reached(l[1])' => Embeds(d[2], l)'
  BY DEF DocsOK
<1>1. /\ d \in job.movies \cup job.own /\ d[1] \in Row /\ Reached(d[1])
      /\ modified'[d[1]] = modified[d[1]]
  OBVIOUS
<1>2. /\ d[2].own >= modified[d[1]]
      /\ \A l \in LinksOf(d[1]) : Reached(l[1]) => Embeds(d[2], l)
  BY <1>1 DEF DocsOK
<1>3. ASSUME NEW l \in LinksOf(d[1])', Reached(l[1])'
      PROVE  Embeds(d[2], l)'
  <2>1. l \in links' /\ l[2] = d[1] /\ Listed(l)
    BY <1>3 DEF LinksOf, Listed
  <2>2. l \in LinksOf(d[1]) /\ Reached(l[1]) /\ modified'[l[1]] = modified[l[1]]
    BY <1>1, <1>3, <2>1 DEF LinksOf
  <2> QED BY <1>2, <2>2 DEF Embeds
<1> QED BY <1>1, <1>2, <1>3

\* A row's save commits or the row is deleted: afterwards the process owes it nothing yet,
\* or has lost sight of it.
LEMMA RowChanged ==
  ASSUME CInv, CTypes', NEW r \in Row, UNCHANGED <<index, valid, mark, pc, job>>,
         \A s \in Row : s # r => modified'[s] = modified[s] /\ (s \in excused' <=> s \in excused),
         \/ modified'[r] = 0 \/ r \in excused'
         \/ /\ modified'[r] > mark[Tbl(r)]
            /\ Handling /\ job.table = Tbl(r) => modified'[r] > job.new,
         \A l \in links' : l \in links \/ l[1] = r \/ l[2] = r
  PROVE  CInv'
<1>1. /\ \A s \in Row : modified[s] \in Nat /\ modified'[s] \in Nat /\ mark[Tbl(s)] \in Nat
      /\ job.new \in Nat
  BY TableOfRow, SizeAssumption DEF CInv, CTypes, JobType
<1>2. Handling' <=> Handling
  BY DEF Handling, Setup
<1>3. \A s \in Row : s # r => /\ s \in (Present \ excused)' <=> s \in Present \ excused
                              /\ Known(s)' <=> Known(s)
                              /\ InHand(s)' <=> InHand(s)
  BY <1>2 DEF Present, Known, InHand, Tbl
<1>4. ~Known(r)' /\ ~InHand(r)'
  BY <1>1, <1>2 DEF Present, Known, InHand, Tbl
<1>5. \A s \in Row : /\ Known(s)' => s # r /\ Known(s)
                     /\ InHand(s)' => s # r /\ InHand(s)
  BY <1>3, <1>4
<1>6. \A l \in links' : l[1] \in Row /\ l[2] \in Row
  BY LinkShape DEF CTypes
<1>7. IndexOK'
  <2>1. \A s \in Row : /\ Due(s)' => Due(s) /\ s # r
                       /\ Shown(s)' => Shown(s) /\ s # r
                       /\ Exempt(s)' <=> Exempt(s)
    BY <1>5 DEF Due, Shown, FilmsLoaded, Exempt, Setup, Tbl
  <2> QED BY <1>6, <2>1, IndexKept DEF CInv
<1>8. DocsOK'
  <2>1. \A s \in Row : Reached(s)' => Reached(s) /\ s # r
    BY <1>5 DEF Reached
  <2>2. \A d \in job.movies \cup job.own : d[1] \in Row
    BY DEF CInv, CTypes, JobType
  <2> QED BY <1>6, <2>1, <2>2, DocsKept DEF CInv
<1>9. BatchOK'
  <2> SUFFICES ASSUME Handling
               PROVE  BatchOK'
    BY <1>2 DEF BatchOK
  <2>1. \A s \in (Present \ excused)' :
         Tbl(s) = job.table /\ mark[job.table] < modified'[s] /\ modified'[s] <= job.new =>
           s \in job.batch \/ modified'[s] = job.new
    <3> SUFFICES ASSUME NEW s \in (Present \ excused)', Tbl(s) = job.table,
                        mark[job.table] < modified'[s], modified'[s] <= job.new
                 PROVE  s \in job.batch \/ modified'[s] = job.new
      OBVIOUS
    <3>1. s \in Row /\ modified'[s] # 0 /\ s \notin excused'
      BY DEF Present
    <3>2. s # r
      BY <1>1, <3>1
    <3> QED BY <1>3, <3>1, <3>2 DEF CInv, BatchOK
  <2>2. \A s \in job.batch : InHand(s)' => InHand(s)
    BY <1>5 DEF CInv, CTypes, JobType
  <2>3. \A l \in links' : InHand(l[1])' /\ Known(l[2])' =>
          l \in links /\ InHand(l[1]) /\ Known(l[2])
    BY <1>5, <1>6
  <2> QED BY <2>1, <2>2, <2>3 DEF CInv, BatchOK, Rows, Tbl
<1>10. JobOK'
  BY DEF CInv, JobOK, Setup
<1> QED BY <1>7, <1>8, <1>9, <1>10 DEF CInv

\* A step of which only clock, pending and faults take notice.
LEMMA NothingChanged ==
  ASSUME CInv, CTypes', UNCHANGED <<modified, links, index, valid, mark, pc, job, excused>>
  PROVE  CInv'
<1>1. JobOK'
  BY DEF CInv, JobOK, Setup
<1>2. \A s : /\ Known(s)' <=> Known(s)
             /\ InHand(s)' <=> InHand(s)
             /\ Exempt(s)' <=> Exempt(s)
  BY DEF Known, InHand, Exempt, Handling, Setup, Present, Tbl
<1>3. \A r : LinksOf(r)' = LinksOf(r)
  BY DEF LinksOf, Listed
<1>4. IndexOK'
  BY <1>2, <1>3 DEF CInv, IndexOK, Due, Shown, FilmsLoaded, Embeds
<1>5. DocsOK'
  BY <1>2, <1>3 DEF CInv, DocsOK, Reached, Embeds
<1>6. BatchOK'
  BY <1>2 DEF CInv, BatchOK, Handling, Setup, Present, Rows, Tbl
<1> QED BY <1>1, <1>4, <1>5, <1>6 DEF CInv

-----------------------------------------------------------------------------
(* The admin *)

LEMMA BeginSaveInv ==
  ASSUME CInv, NEW r \in Row, BeginSave(r)
  PROVE  CInv'
<1>1. /\ clock \in 1..MaxTime /\ clock' = clock + 1 /\ clock' \in 1..MaxTime
      /\ MaxTime \in Nat
  BY SizeAssumption DEF BeginSave, CInv, CTypes
<1>2. /\ pending' = pending \cup {<<r, clock + 1>>}
      /\ UNCHANGED <<modified, links, index, valid, mark, pc, job, excused, faults>>
  BY DEF BeginSave, esVars, runVars
<1>3. CTypes'
  <2>1. pending' \subseteq Row \X (1..clock')
    <3>1. <<r, clock + 1>> \in Row \X (1..clock') /\ 1..clock \subseteq 1..clock'
      BY <1>1
    <3> QED BY <1>2, <3>1 DEF CInv, CTypes
  <2>2. /\ \A s \in Row : modified[s] <= clock'
        /\ \A t \in Table : mark[t] <= clock'
        /\ job.new <= clock'
    BY <1>1 DEF CInv, CTypes, JobType
  <2> QED BY <1>1, <1>2, <2>1, <2>2 DEF CInv, CTypes, Present
<1> QED BY <1>2, <1>3, NothingChanged

LEMMA EditsAreItsOwn ==
  ASSUME CInv, NEW r \in Row, EditLinks(r) \/ UNCHANGED links
  PROVE  \A l \in links' :
           \/ l \in links
           \/ /\ l \in Link /\ (l[1] = r \/ l[2] = r)
              /\ l[1] \in Present \cup {r} /\ l[2] \in Present \cup {r}
<1>1. ASSUME NEW m \in FilmLinks(r)
      PROVE  m \in Link /\ m[2] = r /\ m[1] \in Present
  BY DEF FilmLinks
<1>2. ASSUME NEW l \in FormLinks(r), r \notin Film, NEW m \in {r} \X {l[2]} \X Role
      PROVE  m \in Link /\ m[1] = r /\ m[2] \in Present
  <2>1. l \in links /\ l[2] \in Film /\ l[2] \in Present /\ (l[2] = r \/ r \in Person)
    BY LinkShape DEF FormLinks, CInv, CTypes
  <2>2. r \in Person /\ m[1] = r /\ m[2] = l[2] /\ m \in Person \X Film \X Role
    BY <1>2, <2>1
  <2> QED BY <2>1, <2>2 DEF Link
<1>3. CASE \E m \in FilmLinks(r) : links' = links \cup {m}
  BY <1>1, <1>3
<1>4. CASE \E l \in FormLinks(r) : links' = links \ {l}
  BY <1>4
<1>5. CASE \E l \in FormLinks(r) :
             \E m \in IF r \in Film THEN FilmLinks(r) ELSE {r} \X {l[2]} \X Role :
               links' = (links \ {l}) \cup {m}
  <2>1. PICK l \in FormLinks(r) :
               \E m \in IF r \in Film THEN FilmLinks(r) ELSE {r} \X {l[2]} \X Role :
                 links' = (links \ {l}) \cup {m}
    BY <1>5
  <2>2. PICK m \in IF r \in Film THEN FilmLinks(r) ELSE {r} \X {l[2]} \X Role :
               links' = (links \ {l}) \cup {m}
    BY <2>1
  <2>3. CASE r \in Film
    BY <1>1, <2>2, <2>3
  <2>4. CASE r \notin Film
    BY <1>2, <2>2, <2>4
  <2> QED BY <2>3, <2>4
<1>6. CASE UNCHANGED links
  BY <1>6
<1> QED BY <1>3, <1>4, <1>5, <1>6 DEF EditLinks

LEMMA CommitSaveInv ==
  ASSUME CInv, NEW r \in Row, CommitSave(r)
  PROVE  CInv'
<1>1. PICK p \in pending :
        /\ p[1] = r
        /\ modified' = [modified EXCEPT ![r] = p[2]]
        /\ pending' = pending \ {p}
        /\ EditLinks(r) \/ UNCHANGED links
        /\ excused' = IF Late(r, p[2]) THEN excused \cup {r} ELSE excused \ {r}
        /\ UNCHANGED <<clock, index, valid, mark, pc, job, faults>>
  BY DEF CommitSave, esVars, runVars
<1>2. PICK stamp : stamp = p[2]
  OBVIOUS
<1>3. stamp \in 1..clock /\ stamp \in 1..MaxTime /\ stamp <= clock /\ MaxTime \in Nat
  BY <1>1, <1>2, SizeAssumption DEF CInv, CTypes
<1>4. /\ modified' = [modified EXCEPT ![r] = stamp] /\ modified'[r] = stamp
      /\ \A s \in Row : s # r => modified'[s] = modified[s]
      /\ Present \subseteq Present' /\ r \in Present'
  BY <1>1, <1>2, <1>3 DEF CInv, CTypes, Present
<1>5. excused' = IF Late(r, stamp) THEN excused \cup {r} ELSE excused \ {r}
  BY <1>1, <1>2
<1>6. \A l \in links' : /\ l \in links \/ l[1] = r \/ l[2] = r
                        /\ l \in Link /\ l[1] \in Present' /\ l[2] \in Present'
  BY <1>1, <1>4, EditsAreItsOwn DEF CInv, CTypes
<1>7. CTypes'
  <2>1. modified' \in [Row -> 0..MaxTime] /\ \A s \in Row : modified'[s] <= clock
    BY <1>3, <1>4 DEF CInv, CTypes
  <2>2. excused' \subseteq Row
    BY <1>5 DEF CInv, CTypes
  <2>3. pending' \subseteq Row \X (1..clock)
    BY <1>1 DEF CInv, CTypes
  <2> QED BY <1>1, <1>6, <2>1, <2>2, <2>3 DEF CInv, CTypes
<1>8. \/ r \in excused'
      \/ /\ modified'[r] > mark[Tbl(r)]
         /\ Handling /\ job.table = Tbl(r) => modified'[r] > job.new
  <2>1. mark[Tbl(r)] \in Nat /\ job.new \in Nat /\ stamp \in Nat
    BY <1>3, TableOfRow, SizeAssumption DEF CInv, CTypes, JobType
  <2> QED BY <1>4, <1>5, <2>1 DEF Late, Handling
<1>9. \A s \in Row : s # r => (s \in excused' <=> s \in excused)
  BY <1>5
<1> QED BY <1>1, <1>4, <1>6, <1>7, <1>8, <1>9, RowChanged

LEMMA DeleteRowInv ==
  ASSUME CInv, NEW r \in Row, DeleteRow(r)
  PROVE  CInv'
<1>1. /\ faults \in 0..MaxFaults /\ faults < MaxFaults /\ faults' = faults + 1 /\ MaxFaults \in Nat
      /\ modified' = [modified EXCEPT ![r] = 0] /\ pending' = {p \in pending : p[1] # r}
      /\ links' = {l \in links : l[1] # r /\ l[2] # r}
      /\ excused' = excused \ {r}
      /\ UNCHANGED <<clock, index, valid, mark, pc, job>>
  BY SizeAssumption DEF DeleteRow, CInv, CTypes, esVars, runVars
<1>2. modified'[r] = 0 /\ \A s \in Row : s # r => modified'[s] = modified[s]
  BY <1>1 DEF CInv, CTypes
<1>3. CTypes'
  <2>1. modified' \in [Row -> 0..MaxTime] /\ \A s \in Row : modified'[s] <= clock
    BY <1>1, SizeAssumption DEF CInv, CTypes
  <2>2. \A l \in links' : l[1] \in Present' /\ l[2] \in Present'
    BY <1>1, <1>2 DEF CInv, CTypes, Present
  <2> QED BY <1>1, <2>1, <2>2 DEF CInv, CTypes
<1>4. \A s \in Row : s # r => (s \in excused' <=> s \in excused)
  BY <1>1
<1> QED BY <1>1, <1>2, <1>3, <1>4, RowChanged

-----------------------------------------------------------------------------
(* The start *)

LEMMA InitInv == CatalogInit => CInv
<1> SUFFICES ASSUME CatalogInit PROVE CInv
  OBVIOUS
<1>1. Init
  BY DEF CatalogInit
<1>2. PICK open \in SUBSET {r \in Early : \A l \in EarlyLinks : r \notin {l[1], l[2]}} :
        /\ modified = [r \in Row |-> IF r \in Early \ open THEN 1 ELSE 0]
        /\ pending = open \X {1}
  BY <1>1 DEF Init
<1>3. /\ clock = 1 /\ links = EarlyLinks /\ index = [r \in Row |-> NoDoc]
      /\ valid = {} /\ mark = [t \in Table |-> 0] /\ pc = "setup" /\ excused = {} /\ faults = 0
      /\ job = [table |-> "film_work", batch |-> {}, new |-> 0, own |-> {}, films |-> {},
                movies |-> {}, created |-> {}]
  BY <1>1 DEF Init, NoJob
<1>4. MaxTime \in Nat /\ 1 <= MaxTime /\ MaxFaults \in Nat
  BY SizeAssumption
<1>5. CTypes
  <2>1. /\ modified \in [Row -> 0..MaxTime] /\ \A r \in Row : modified[r] <= clock
        /\ pending \subseteq Row \X (1..clock)
    BY <1>2, <1>3, <1>4, RowAssumption
  <2>2. links \subseteq Link /\ \A l \in links : l[1] \in Present /\ l[2] \in Present
    <3>1. /\ EarlyLinks \subseteq Link /\ Early \subseteq Row
          /\ \A l \in EarlyLinks : l[1] \in Early /\ l[2] \in Early
      BY RowAssumption
    <3>2. ASSUME NEW l \in EarlyLinks PROVE l[1] \in Present /\ l[2] \in Present
      <4>1. l[1] \in Early /\ l[2] \in Early /\ l[1] \in Row /\ l[2] \in Row
        BY <3>1
      <4>2. l[1] \notin open /\ l[2] \notin open
        BY <1>2
      <4> QED BY <1>2, <4>1, <4>2 DEF Present
    <3> QED BY <1>3, <3>1, <3>2
  <2>3. job \in JobType
    BY <1>3, <1>4 DEF JobType, Table
  <2>4. mark \in [Table -> 0..MaxTime] /\ \A t \in Table : mark[t] <= clock
    BY <1>3, <1>4
  <2> QED BY <1>3, <1>4, <2>1, <2>2, <2>3, <2>4 DEF CTypes
<1>6. JobOK
  BY <1>3 DEF JobOK, Setup
<1>7. ~Handling /\ \A r : ~InHand(r)
  BY <1>3 DEF Handling, InHand, Setup
<1>8. \A r \in Row : Exempt(r)
  BY <1>3 DEF Exempt, Setup
<1>9. IndexOK /\ DocsOK /\ BatchOK
  BY <1>3, <1>7, <1>8 DEF IndexOK, DocsOK, BatchOK
<1> QED BY <1>5, <1>6, <1>9 DEF CInv

\* A step after which the process has no batch in hand.
LEMMA AtRest ==
  ASSUME CInv, ~Handling', UNCHANGED <<modified, links>>,
         job'.movies \cup job'.own \subseteq job.movies \cup job.own,
         \A s \in Row : Known(s)' => Known(s)
  PROVE  /\ BatchOK' /\ DocsOK'
         /\ index' = index /\ (\A s \in Row : Known(s)' /\ ~Exempt(s)' => ~Exempt(s)) => IndexOK'
<1>0. \A l \in links : l[1] \in Row
  BY LinksShape DEF CInv
<1>1. \A s : ~InHand(s)'
  BY DEF InHand
<1>2. \A s \in Row : /\ Due(s)' => Known(s)' /\ Due(s)
                     /\ Shown(s)' => Shown(s)
                     /\ Reached(s)' => Reached(s)
  BY <1>1 DEF Due, Shown, Reached
<1>3. BatchOK'
  BY DEF BatchOK
<1>4. \A d \in job'.movies \cup job'.own : d[1] \in Row
  <2>1. \A d \in job.movies \cup job.own : d[1] \in Row
    BY DEF CInv, CTypes, JobType
  <2> QED BY <2>1
<1>5. DocsOK'
  BY <1>0, <1>2, <1>4, DocsKept DEF CInv
<1>6. ASSUME index' = index, \A s \in Row : Known(s)' /\ ~Exempt(s)' => ~Exempt(s)
      PROVE  IndexOK'
  <2> QED BY <1>0, <1>2, <1>6, IndexKept DEF CInv
<1> QED BY <1>3, <1>5, <1>6

LEMMA NextSetupShape ==
  ASSUME CTypes, JobOK, pc \in {"setup", "create"}, NEW created \in SUBSET Table, NextSetup(created),
         job.table \in valid' \cup created, job.created \subseteq created, valid \subseteq valid'
  PROVE  /\ job' \in JobType /\ job'.new = job.new /\ job'.created = created
         /\ job'.movies = job.movies /\ job'.own = job.own
         /\ pc' \in {"setup", "state"} /\ JobOK'
<1>1. job \in JobType /\ NextTable[job.table] \in Table
  BY DEF CTypes, JobType, Table, NextTable
<1>2. job' = [job EXCEPT !.table = NextTable[job.table], !.created = created]
  BY DEF NextSetup
<1>3. /\ job' \in JobType /\ job'.new = job.new /\ job'.created = created
      /\ job'.movies = job.movies /\ job'.own = job.own /\ job'.table = NextTable[job.table]
  BY <1>1, <1>2 DEF JobType
<1>4. pc' = (IF job.table = "person" THEN "state" ELSE "setup")
  BY DEF NextSetup
<1>5. job.table \in {"film_work", "genre", "person"}
  BY <1>1 DEF JobType, Table
<1>6. JobOK'
  BY <1>3, <1>4, <1>5 DEF JobOK, Setup, NextTable, Table
<1> QED BY <1>3, <1>4, <1>6

LEMMA KeepIndexInv ==
  ASSUME CInv, KeepIndex
  PROVE  CInv'
<1>1. /\ pc = "setup" /\ job.table \in valid /\ NextSetup(job.created) /\ job.created \in SUBSET Table
      /\ UNCHANGED <<clock, modified, pending, links, index, valid, mark, excused, faults>>
  BY DEF KeepIndex, dbVars, esVars, CInv, CTypes, JobType
<1>2. /\ job' \in JobType /\ job'.new = job.new /\ job'.created = job.created
      /\ job'.movies = job.movies /\ job'.own = job.own
      /\ pc' \in {"setup", "state"} /\ JobOK'
  BY <1>1, NextSetupShape DEF CInv
<1>3. CTypes'
  BY <1>1, <1>2 DEF CInv, CTypes, Present
<1>4. ~Handling' /\ \A s \in Row : (Known(s)' <=> Known(s)) /\ (Exempt(s)' <=> Exempt(s))
  BY <1>1, <1>2 DEF Handling, Setup, Known, Exempt, Present, Tbl
<1> QED BY <1>1, <1>2, <1>3, <1>4, AtRest DEF CInv

LEMMA RemoveIndexInv ==
  ASSUME CInv, RemoveIndex
  PROVE  CInv'
<1>1. /\ pc = "setup" /\ pc' = "create" /\ valid' = valid \ {job.table}
      /\ index' = [r \in Row |-> IF Tbl(r) = job.table THEN NoDoc ELSE index[r]]
      /\ UNCHANGED <<clock, modified, pending, links, mark, job, excused>>
  BY DEF RemoveIndex, dbVars
<1>2. faults' \in 0..MaxFaults
  BY SizeAssumption DEF RemoveIndex, Refused, CInv, CTypes
<1>3. CTypes'
  <2>1. index' \in [Row -> Doc \cup {NoDoc}]
    BY <1>1 DEF CInv, CTypes
  <2> QED BY <1>1, <1>2, <2>1 DEF CInv, CTypes, Present
<1>4. JobOK'
  BY <1>1 DEF CInv, JobOK, Setup
<1>5. ~Handling' /\ \A s \in Row : Known(s)' <=> Known(s)
  BY <1>1 DEF Handling, Setup, Known, Present, Tbl
<1>6. BatchOK' /\ DocsOK'
  BY <1>1, <1>5, AtRest
<1>7. IndexOK'
  <2> SUFFICES ASSUME NEW r \in Row, Due(r)', ~Exempt(r)'
               PROVE  /\ index'[r] # NoDoc /\ index'[r].own >= modified'[r]
                      /\ \A l \in LinksOf(r)' : Shown(l[1])' => Embeds(index[r], l)'
    BY DEF IndexOK
  <2>1. \A s \in Row : /\ Due(s)' <=> Known(s)
                       /\ Shown(s)' <=> Known(s)
    BY <1>5 DEF Due, Shown, InHand
  <2>2. Tbl(r) # job.table /\ index'[r] = index[r] /\ ~Exempt(r)
    BY <1>1 DEF Exempt, Setup, Tbl
  <2>3. LinksOf(r)' = LinksOf(r) /\ \A l \in LinksOf(r) : Shown(l[1])' => Shown(l[1])
    BY <1>1, <2>1, LinksShape DEF LinksOf, Listed, Shown, CInv
  <2>4. Due(r)
    BY <2>1 DEF Due
  <2> QED BY <1>1, <2>2, <2>3, <2>4 DEF CInv, IndexOK, Embeds
<1> QED BY <1>3, <1>4, <1>6, <1>7 DEF CInv

LEMMA KeepOldIndexInv ==
  ASSUME CInv, KeepOldIndex
  PROVE  CInv'
<1>1. /\ pc = "setup" /\ NextSetup(job.created \cup {job.table})
      /\ job.created \cup {job.table} \in SUBSET Table
      /\ UNCHANGED <<clock, modified, pending, links, index, valid, mark, excused>>
  BY DEF KeepOldIndex, dbVars, esVars, CInv, CTypes, JobType
<1>2. faults' \in 0..MaxFaults
  BY SizeAssumption DEF KeepOldIndex, Refused, CInv, CTypes
<1>3. /\ job' \in JobType /\ job'.new = job.new /\ job'.created = job.created \cup {job.table}
      /\ job'.movies = job.movies /\ job'.own = job.own
      /\ pc' \in {"setup", "state"} /\ JobOK'
  BY <1>1, NextSetupShape DEF CInv
<1>4. CTypes'
  BY <1>1, <1>2, <1>3 DEF CInv, CTypes, Present
<1>5. ~Handling' /\ \A s \in Row : (Known(s)' <=> Known(s)) /\ (~Exempt(s)' => ~Exempt(s))
  BY <1>1, <1>3 DEF Handling, Setup, Known, Exempt, Present, Tbl
<1> QED BY <1>1, <1>3, <1>4, <1>5, AtRest DEF CInv

LEMMA CreateIndexInv ==
  ASSUME CInv, CreateIndex
  PROVE  CInv'
<1>1. /\ pc = "create" /\ NextSetup(job.created \cup {job.table})
      /\ job.created \cup {job.table} \in SUBSET Table
      /\ valid' = valid \cup {job.table} \/ valid' = valid
      /\ UNCHANGED <<clock, modified, pending, links, index, mark, excused>>
  BY DEF CreateIndex, dbVars, CInv, CTypes, JobType
<1>2. faults' \in 0..MaxFaults
  BY SizeAssumption DEF CreateIndex, Refused, CInv, CTypes
<1>3. /\ job' \in JobType /\ job'.new = job.new /\ job'.created = job.created \cup {job.table}
      /\ job'.movies = job.movies /\ job'.own = job.own
      /\ pc' \in {"setup", "state"} /\ JobOK'
  BY <1>1, NextSetupShape DEF CInv
<1>4. CTypes'
  BY <1>1, <1>2, <1>3 DEF CInv, CTypes, JobType, Present
<1>5. ~Handling' /\ \A s \in Row : (Known(s)' <=> Known(s)) /\ (~Exempt(s)' => ~Exempt(s))
  BY <1>1, <1>3 DEF Handling, Setup, Known, Exempt, Present, Tbl
<1> QED BY <1>1, <1>3, <1>4, <1>5, AtRest DEF CInv

LEMMA NoJobShape ==
  ASSUME NEW t \in Table
  PROVE  /\ [NoJob EXCEPT !.table = t] \in JobType
         /\ [NoJob EXCEPT !.table = t] =
              [table |-> t, batch |-> {}, new |-> 0, own |-> {}, films |-> {}, movies |-> {}, created |-> {}]
<1>1. [NoJob EXCEPT !.table = t] =
        [table |-> t, batch |-> {}, new |-> 0, own |-> {}, films |-> {}, movies |-> {}, created |-> {}]
  BY DEF NoJob
<1>2. 0 \in 0..MaxTime
  BY SizeAssumption
<1> QED BY <1>1, <1>2 DEF JobType

LEMMA NextUpShape ==
  ASSUME CTypes, job' = NextUp
  PROVE  /\ job' \in JobType /\ job'.new = 0 /\ job'.own = {} /\ job'.movies = {} /\ job'.created = {}
<1>1. NextTable[job.table] \in Table
  BY DEF CTypes, JobType, Table, NextTable
<1> QED BY <1>1, NoJobShape DEF NextUp

LEMMA NoJobIs ==
  /\ NoJob \in JobType /\ NoJob.new = 0 /\ NoJob.own = {} /\ NoJob.movies = {} /\ NoJob.created = {}
<1>1. 0 \in 0..MaxTime
  BY SizeAssumption
<1> QED BY <1>1 DEF NoJob, JobType, Table

LEMMA StateSetupInv ==
  ASSUME CInv, StateSetup
  PROVE  CInv'
<1>1. /\ pc = "state" /\ pc' = "batch" /\ job' = NoJob
      /\ UNCHANGED <<clock, modified, pending, links, index, valid, faults>>
      /\ \/ job.created = {} /\ UNCHANGED <<mark, excused>>
         \/ mark' = [t \in Table |-> 0] /\ excused' = {}
  BY DEF StateSetup, dbVars, esVars
<1>2. /\ job' \in JobType /\ job'.new = 0 /\ job'.own = {} /\ job'.movies = {} /\ job'.created = {}
  BY <1>1, NoJobIs
<1>3. 0 \in 0..MaxTime /\ clock \in Nat
  BY SizeAssumption DEF CInv, CTypes
<1>4. CTypes'
  BY <1>1, <1>2, <1>3 DEF CInv, CTypes, Present
<1>5. ~Handling' /\ JobOK'
  BY <1>1, <1>2 DEF Handling, JobOK, Setup
<1>6. \A s \in Row : Known(s)' => Known(s) /\ ~Exempt(s)
  <2>1. CASE job.created = {} /\ UNCHANGED <<mark, excused>>
    <3>1. Table \subseteq valid
      BY <1>1, <2>1 DEF CInv, JobOK
    <3> QED BY <1>1, <2>1, <3>1, TableOfRow DEF Known, Exempt, Present, Tbl
  <2>2. CASE mark' = [t \in Table |-> 0]
    <3> SUFFICES ASSUME NEW s \in Row PROVE ~Known(s)'
      OBVIOUS
    <3>1. mark'[Tbl(s)] = 0
      BY <2>2, TableOfRow
    <3>2. modified[s] \in 0..MaxTime
      BY DEF CInv, CTypes
    <3> QED BY <1>1, <3>1, <3>2, SizeAssumption DEF Known, Present, Tbl
  <2> QED BY <1>1, <2>1, <2>2
<1> QED BY <1>1, <1>2, <1>4, <1>5, <1>6, AtRest DEF CInv

-----------------------------------------------------------------------------
(* Reading a batch *)

LEMMA MinimalSubset ==
  ASSUME NEW S, IsFiniteSet(S), NEW Bad \in SUBSET (SUBSET S), Bad # {}
  PROVE  \E T \in Bad : \A U \in Bad : U \subseteq T => U = T
<1>1. IsWellFoundedOn(StrictSubsetOrdering(S), FiniteSubsetsOf(S))
  BY FS_StrictSubsetOrderingWellFounded
<1>2. Bad \subseteq FiniteSubsetsOf(S)
  BY FS_Subset DEF FiniteSubsetsOf
<1>3. PICK T \in Bad : \A U \in Bad : ~ (<<U, T>> \in StrictSubsetOrdering(S))
  BY <1>1, <1>2, WFMin
<1> QED BY <1>3 DEF StrictSubsetOrdering

LEMMA GreatestOf ==
  ASSUME NEW n \in Nat, NEW S \in SUBSET (0..n), S # {}
  PROVE  Max(S) \in S /\ \A y \in S : y <= Max(S)
<1> DEFINE Later(y) == {z \in S : z > y}
           Laters == {Later(y) : y \in S}
<1>1. IsFiniteSet(0..n)
  BY FS_Interval
<1>2. Laters \in SUBSET (SUBSET (0..n)) /\ Laters # {}
  OBVIOUS
<1>3. \E T \in Laters : \A U \in Laters : U \subseteq T => U = T
  <2> DEFINE All == 0..n
  <2>1. IsFiniteSet(All) /\ Laters \in SUBSET (SUBSET All) /\ Laters # {}
    BY <1>1, <1>2
  <2> HIDE DEF Laters, All
  <2> QED BY <2>1, MinimalSubset
<1>4. PICK m \in S : \A U \in Laters : U \subseteq Later(m) => U = Later(m)
  BY <1>3
<1>5. ASSUME NEW y \in S PROVE y <= m
  <2> SUFFICES ASSUME y > m PROVE FALSE
    OBVIOUS
  <2>1. Later(y) \in Laters
    OBVIOUS
  <2>2. ASSUME NEW z \in Later(y) PROVE z \in Later(m)
    <3>1. z \in S /\ z > y /\ z \in Nat /\ y \in Nat /\ m \in Nat
      BY <2>2
    <3> QED BY <3>1
  <2>3. y \in Later(m) /\ y \notin Later(y)
    OBVIOUS
  <2>4. Later(y) \subseteq Later(m)
    BY <2>2
  <2> QED BY <1>4, <2>1, <2>3, <2>4
<1>6. \E x \in S : \A y \in S : x >= y
  BY <1>5
<1>7. \A x, y \in S : x >= y <=> y <= x
  OBVIOUS
<1> QED BY <1>6, <1>7 DEF Max

\* A step that reads: what it leaves of the index's duties.
LEMMA Reads ==
  ASSUME CInv, UNCHANGED <<modified, links, index, valid, mark, excused>>, ~Setup, ~Setup',
         \A s \in Row : (Due(s)' => Due(s)) /\ (Shown(s)' => Shown(s))
  PROVE  IndexOK'
<1>1. \A s \in Row : ~Exempt(s)
  BY DEF Exempt
<1>2. \A l \in links : l[1] \in Row
  BY LinksShape DEF CInv
<1> QED BY <1>1, <1>2, IndexKept DEF CInv

LEMMA GetBatchInv ==
  ASSUME CInv, GetBatch
  PROVE  CInv'
<1>1. /\ pc = "batch" /\ ~Setup /\ ~Handling
      /\ UNCHANGED <<clock, modified, pending, links, index, valid, mark, excused, faults>>
  BY DEF GetBatch, dbVars, esVars, Setup, Handling
<1>2. PICK b \in Batches(job.table) :
        IF b = {} THEN job' = NextUp /\ pc' = pc
        ELSE /\ job' = [job EXCEPT !.batch = b, !.new = Max({modified[r] : r \in b})]
             /\ pc' = "docs"
  BY DEF GetBatch
<1>3. \A s : Known(s)' <=> Known(s)
  BY <1>1 DEF Known, Present, Tbl
<1>4. CASE b = {}
  <2>1. job' = NextUp /\ pc' = "batch"
    BY <1>1, <1>2, <1>4
  <2>2. /\ job' \in JobType /\ job'.new = 0 /\ job'.own = {} /\ job'.movies = {} /\ job'.created = {}
    BY <2>1, NextUpShape DEF CInv
  <2>3. 0 <= clock
    BY SizeAssumption DEF CInv, CTypes
  <2>4. CTypes'
    BY <1>1, <2>1, <2>2, <2>3 DEF CInv, CTypes, Present
  <2>5. ~Handling' /\ JobOK' /\ \A s \in Row : ~Exempt(s)
    BY <1>1, <2>1, <2>2 DEF Handling, JobOK, Setup, Exempt
  <2> QED BY <1>1, <1>3, <2>2, <2>4, <2>5, AtRest DEF CInv
<1>5. CASE b # {}
  <2>1. b \subseteq Newer(job.table) /\ b \subseteq Row
    BY DEF Batches, Newer, Present
  <2>2. PICK stamps, new : stamps = {modified[r] : r \in b} /\ new = Max(stamps)
    OBVIOUS
  <2>3. new \in 0..clock /\ (\E r \in b : new = modified[r]) /\ \A r \in b : modified[r] <= new
    <3>1. clock \in Nat /\ stamps \in SUBSET (0..clock) /\ stamps # {}
      BY <1>5, <2>1, <2>2, SizeAssumption DEF CInv, CTypes
    <3>2. new \in stamps /\ \A y \in stamps : y <= new
      BY <2>2, <3>1, GreatestOf
    <3> QED BY <2>2, <3>1, <3>2
  <2>4. job \in JobType /\ clock \in 1..MaxTime /\ MaxTime \in Nat
    BY SizeAssumption DEF CInv, CTypes
  <2>5. job' = [job EXCEPT !.batch = b, !.new = new] /\ pc' = "docs"
    BY <1>2, <1>5, <2>2
  <2>6. /\ job' \in JobType /\ job'.new = new /\ job'.batch = b /\ job'.table = job.table
        /\ job'.own = job.own /\ job'.movies = job.movies /\ job'.created = job.created
    <3>1. new \in 0..MaxTime /\ b \in SUBSET Row
      BY <2>1, <2>3, <2>4
    <3> QED BY <2>4, <2>5, <3>1 DEF JobType
  <2>7. CTypes'
    BY <1>1, <2>3, <2>4, <2>5, <2>6 DEF CInv, CTypes, Present
  <2>8. JobOK' /\ job.own = {} /\ job.movies = {}
    BY <1>1, <2>5, <2>6 DEF CInv, JobOK, Setup
  <2>9. DocsOK'
    BY <2>6, <2>8 DEF DocsOK
  <2>10. IndexOK'
    <3>1. \A s \in Row : (Due(s)' => Due(s)) /\ (Shown(s)' => Shown(s))
      BY <1>3, <2>5 DEF Due, Shown, FilmsLoaded
    <3>2. ~Setup'
      BY <2>5 DEF Setup
    <3> QED BY <1>1, <3>1, <3>2, Reads
  <2>11. BatchOK'
    <3>1. /\ job.table \in Table /\ mark[job.table] \in Nat
          /\ \A s \in Row : modified[s] \in Nat /\ new \in Nat
      BY <2>3, <2>4 DEF CInv, CTypes, JobType
    <3>2. new >= mark[job.table]
      BY <2>1, <2>3, <3>1 DEF Newer
    <3>3. ASSUME NEW r \in Present, Tbl(r) = job.table, mark[job.table] < modified[r], modified[r] <= new
          PROVE  r \in b \/ modified[r] = new
      <4> SUFFICES ASSUME r \notin b PROVE modified[r] = new
        OBVIOUS
      <4>1. r \in Newer(job.table) \ b /\ r \in Row
        BY <3>1, <3>3 DEF Newer, Present
      <4>2. \A s \in b : modified[s] <= modified[r]
        BY <4>1 DEF Batches
      <4> QED BY <2>1, <2>3, <3>1, <3>3, <4>1, <4>2
    <3>4. (Present \ excused)' = Present \ excused
      BY <1>1 DEF Present
    <3> QED BY <1>1, <2>5, <2>6, <2>8, <3>2, <3>3, <3>4 DEF BatchOK, Tbl
  <2> QED BY <2>7, <2>8, <2>9, <2>10, <2>11 DEF CInv
<1> QED BY <1>4, <1>5

LEMMA GetDocsInv ==
  ASSUME CInv, GetDocs
  PROVE  CInv'
<1>1. /\ pc = "docs" /\ ~Setup /\ Handling
      /\ UNCHANGED <<clock, modified, pending, links, index, valid, mark, excused, faults>>
      /\ pc' = IF job.table = "film_work" THEN "load_movies" ELSE "related"
  BY DEF GetDocs, dbVars, esVars, Setup, Handling
<1>2. PICK docs : docs = Documents(job.batch)
  OBVIOUS
<1>3. /\ docs \in SUBSET (Row \X Doc)
      /\ \A r \in job.batch \cap Present : r \in Rows(docs)
      /\ \A d \in docs : d[1] \in job.batch /\ d[2] = Document(d[1])
  BY <1>2, DocumentsShape DEF CInv, CTypes, JobType
<1>4. job' = IF job.table = "film_work" THEN [job EXCEPT !.movies = docs] ELSE [job EXCEPT !.own = docs]
  BY <1>2 DEF GetDocs
<1>5. /\ job' \in JobType /\ job'.new = job.new /\ job'.batch = job.batch /\ job'.table = job.table
      /\ job'.created = job.created
      /\ job.table = "film_work" => job'.movies = docs /\ job'.own = {}
      /\ job.table # "film_work" => job'.movies = {} /\ job'.own = docs
  <2>1. job \in JobType /\ job.own = {} /\ job.movies = {}
    BY <1>1 DEF CInv, CTypes, JobOK
  <2> QED BY <1>3, <1>4, <2>1 DEF JobType
<1>6. CTypes' /\ JobOK'
  <2>1. pc' \in {"load_movies", "related"}
    BY <1>1
  <2>2. CTypes'
    BY <1>1, <1>5, <2>1 DEF CInv, CTypes, Present
  <2>3. JobOK'
    BY <1>1, <1>5, <2>1 DEF CInv, JobOK, Setup
  <2> QED BY <2>2, <2>3
<1>7. Handling' /\ ~Setup'
  BY <1>1 DEF Handling, Setup
<1>8. \A s : (Known(s)' <=> Known(s)) /\ (InHand(s)' <=> InHand(s))
  BY <1>1, <1>5, <1>7 DEF Known, InHand, Present, Tbl
<1>9. IndexOK'
  <2>1. \A s \in Row : (Due(s)' => Due(s)) /\ (Shown(s)' => Shown(s))
    BY <1>1, <1>8 DEF Due, Shown, FilmsLoaded
  <2> QED BY <1>1, <1>7, <2>1, Reads
<1>10. DocsOK'
  <2> SUFFICES ASSUME NEW d \in job'.movies \cup job'.own
               PROVE  /\ d[2].own >= modified[d[1]]
                      /\ \A l \in LinksOf(d[1]) : Embeds(d[2], l)
    BY <1>1 DEF DocsOK, Embeds, LinksOf, Listed
  <2>1. d \in docs
    BY <1>5
  <2>2. d[1] \in Row /\ d[2] = Document(d[1])
    BY <1>3, <2>1 DEF CInv, CTypes, JobType
  <2> QED BY <2>2, DocumentFresh
<1>11. BatchOK'
  <2>1. /\ job.new >= mark[job.table]
        /\ \A r \in Present \ excused :
             Tbl(r) = job.table /\ mark[job.table] < modified[r] /\ modified[r] <= job.new =>
               r \in job.batch \/ modified[r] = job.new
    BY <1>1 DEF CInv, BatchOK
  <2>2. \A r \in job.batch : InHand(r) => r \in Rows(docs)
    BY <1>3 DEF InHand
  <2>3. (Present \ excused)' = Present \ excused
    BY <1>1 DEF Present
  <2> QED BY <1>1, <1>5, <1>8, <2>1, <2>2, <2>3 DEF BatchOK, Rows, Tbl
<1> QED BY <1>6, <1>9, <1>10, <1>11 DEF CInv

LEMMA GetRelatedInv ==
  ASSUME CInv, GetRelated
  PROVE  CInv'
<1> DEFINE films == FilmsOf(job.batch)
<1>1. /\ pc = "related" /\ ~Setup /\ Handling /\ job.table # "film_work"
      /\ UNCHANGED <<clock, modified, pending, links, index, valid, mark, excused, faults>>
      /\ pc' \in {"load_own", "films"}
  BY DEF GetRelated, dbVars, esVars, Setup, Handling, CInv, BatchOK
<1>2. \/ /\ films = {} /\ job' = [job EXCEPT !.new = mark[job.table]] /\ pc' = "load_own"
      \/ job' = [job EXCEPT !.films = films] /\ pc' = "films"
  BY DEF GetRelated
<1>3. /\ films \in SUBSET Film
      /\ \A l \in links : l[1] \in job.batch => l[2] \in films
  BY LinksShape DEF FilmsOf, CInv
<1> HIDE DEF films
<1>4. /\ job \in JobType /\ job.new <= clock /\ mark[job.table] \in 0..MaxTime
      /\ mark[job.table] <= clock /\ job.new >= mark[job.table] /\ MaxTime \in Nat
  BY <1>1, SizeAssumption DEF CInv, CTypes, JobType, BatchOK
<1>5. /\ job' \in JobType /\ job'.batch = job.batch /\ job'.table = job.table
      /\ job'.created = job.created /\ job'.movies = job.movies /\ job'.own = job.own
      /\ \/ job'.new = mark[job.table] /\ pc' = "load_own"
         \/ job'.new = job.new /\ job'.films = films /\ pc' = "films"
  BY <1>2, <1>3, <1>4 DEF JobType
<1>6. CTypes' /\ JobOK'
  <2>1. CTypes'
    BY <1>1, <1>4, <1>5 DEF CInv, CTypes, Present
  <2>2. JobOK'
    BY <1>1, <1>5 DEF CInv, JobOK, Setup
  <2> QED BY <2>1, <2>2
<1>7. Handling' /\ ~Setup'
  BY <1>1 DEF Handling, Setup
<1>8. \A s \in Row : Known(s)' <=> Known(s)
  BY <1>1 DEF Known, Present, Tbl
<1>9. \A s \in Row : InHand(s)' => InHand(s)
  <2> SUFFICES ASSUME NEW s \in Row, InHand(s)' PROVE InHand(s)
    OBVIOUS
  <2>1. modified[s] \in Nat /\ job.new \in Nat /\ mark[job.table] \in Nat
    BY <1>4 DEF CInv, CTypes, JobType
  <2> QED BY <1>1, <1>4, <1>5, <2>1 DEF InHand, Present, Tbl
<1>10. \A s \in Row : InHand(s)' /\ pc' = "load_own" => Known(s)
  <2> SUFFICES ASSUME NEW s \in Row, InHand(s)', pc' = "load_own" PROVE Known(s)
    OBVIOUS
  <2> QED BY <1>1, <1>5 DEF InHand, Known, Present, Tbl
<1>11. IndexOK'
  <2>1. \A s \in Row : (Due(s)' => Due(s)) /\ (Shown(s)' => Shown(s))
    BY <1>1, <1>8, <1>10 DEF Due, Shown, FilmsLoaded
  <2> QED BY <1>1, <1>7, <2>1, Reads
<1>12. DocsOK'
  <2>1. \A s \in Row : Reached(s)' => Reached(s)
    BY <1>8, <1>9 DEF Reached
  <2>2. \A d \in job.movies \cup job.own : d[1] \in Row
    BY DEF CInv, CTypes, JobType
  <2> QED BY <1>1, <1>5, <2>1, <2>2, LinksShape, DocsKept DEF CInv
<1>13. BatchOK'
  <2>1. /\ job.new >= mark[job.table]
        /\ \A r \in Present \ excused :
             Tbl(r) = job.table /\ mark[job.table] < modified[r] /\ modified[r] <= job.new =>
               r \in job.batch \/ modified[r] = job.new
        /\ \A r \in job.batch : InHand(r) => r \in Rows(job.own)
    BY <1>1 DEF CInv, BatchOK
  <2>2. (Present \ excused)' = Present \ excused /\ \A r \in Present : r \in Row /\ modified[r] \in Nat
    BY <1>1, SizeAssumption DEF Present, CInv, CTypes
  <2>3. \A r \in job.batch : r \in Row
    BY <1>4 DEF JobType
  <2>4. job'.new >= mark[job.table]
    BY <1>4, <1>5
  <2>5. \A r \in Present \ excused :
          Tbl(r) = job.table /\ mark[job.table] < modified[r] /\ modified[r] <= job'.new =>
            r \in job.batch \/ modified[r] = job'.new
    BY <1>4, <1>5, <2>1, <2>2
  <2>6. \A r \in job.batch : InHand(r)' => r \in Rows(job.own)
    BY <1>9, <2>1, <2>3
  <2>7. \A l \in links : l[1] \in job.batch /\ pc' = "films" => l[2] \in job'.films
    BY <1>3, <1>5
  <2> QED BY <1>1, <1>5, <2>2, <2>4, <2>5, <2>6, <2>7 DEF BatchOK, Rows, Tbl
<1> QED BY <1>6, <1>11, <1>12, <1>13 DEF CInv

LEMMA GetFilmsInv ==
  ASSUME CInv, GetFilms
  PROVE  CInv'
<1>1. /\ pc = "films" /\ pc' = "load_movies" /\ ~Setup /\ Handling /\ job.table # "film_work"
      /\ UNCHANGED <<clock, modified, pending, links, index, valid, mark, excused, faults>>
  BY DEF GetFilms, dbVars, esVars, Setup, Handling, CInv, BatchOK
<1>2. PICK docs : docs = Documents(job.films)
  OBVIOUS
<1>3. job \in JobType /\ job.films \in SUBSET Row
  BY DEF CInv, CTypes, JobType, Row
<1>4. /\ docs \in SUBSET (Row \X Doc)
      /\ \A r \in job.films \cap Present : r \in Rows(docs)
      /\ \A d \in docs : d[1] \in job.films /\ d[2] = Document(d[1])
  BY <1>2, <1>3, DocumentsShape DEF CInv
<1>5. /\ job' \in JobType /\ job'.new = job.new /\ job'.batch = job.batch /\ job'.table = job.table
      /\ job'.created = job.created /\ job'.movies = docs /\ job'.own = job.own
  <2>1. job' = [job EXCEPT !.movies = docs]
    BY <1>2 DEF GetFilms
  <2> QED BY <1>3, <1>4, <2>1 DEF JobType
<1>6. CTypes' /\ JobOK'
  <2>1. CTypes'
    BY <1>1, <1>5 DEF CInv, CTypes, Present
  <2>2. JobOK'
    BY <1>1, <1>5 DEF CInv, JobOK, Setup
  <2> QED BY <2>1, <2>2
<1>7. Handling' /\ ~Setup'
  BY <1>1 DEF Handling, Setup
<1>8. \A s : (Known(s)' <=> Known(s)) /\ (InHand(s)' <=> InHand(s))
  BY <1>1, <1>5, <1>7 DEF Known, InHand, Present, Tbl
<1>9. IndexOK'
  <2>1. \A s \in Row : (Due(s)' => Due(s)) /\ (Shown(s)' => Shown(s))
    BY <1>1, <1>8 DEF Due, Shown, FilmsLoaded
  <2> QED BY <1>1, <1>7, <2>1, Reads
<1>10. DocsOK'
  <2> SUFFICES ASSUME NEW d \in docs \cup job.own, Reached(d[1])
               PROVE  /\ d[2].own >= modified[d[1]]
                      /\ \A l \in LinksOf(d[1]) : Reached(l[1]) => Embeds(d[2], l)
    BY <1>1, <1>5, <1>8 DEF DocsOK, Embeds, Reached, LinksOf, Listed
  <2>1. CASE d \in docs
    <3>1. d[1] \in Row /\ d[2] = Document(d[1])
      BY <1>3, <1>4, <2>1
    <3> QED BY <3>1, DocumentFresh
  <2>2. CASE d \in job.own
    BY <2>2 DEF CInv, DocsOK
  <2> QED BY <2>1, <2>2
<1>11. BatchOK'
  <2>1. /\ job.new >= mark[job.table]
        /\ \A r \in Present \ excused :
             Tbl(r) = job.table /\ mark[job.table] < modified[r] /\ modified[r] <= job.new =>
               r \in job.batch \/ modified[r] = job.new
        /\ \A r \in job.batch : InHand(r) => r \in Rows(job.own)
        /\ \A l \in links : l[1] \in job.batch /\ InHand(l[1]) /\ Known(l[2]) => l[2] \in job.films
    BY <1>1 DEF CInv, BatchOK
  <2>2. \A f : f \in job.films /\ Known(f) => f \in Rows(docs)
    BY <1>4 DEF Known
  <2>3. (Present \ excused)' = Present \ excused
    BY <1>1 DEF Present
  <2> QED BY <1>1, <1>5, <1>8, <2>1, <2>2, <2>3 DEF BatchOK, Rows, Tbl
<1> QED BY <1>6, <1>9, <1>10, <1>11 DEF CInv

-----------------------------------------------------------------------------
(* Loading *)

\* What a bulk request, or an empty list that is not sent, has done to each row.
Sent(docs) ==
  /\ excused \subseteq excused' /\ excused' \subseteq Row
  /\ index' \in [Row -> Doc \cup {NoDoc}]
  /\ \A r \in Row :
       /\ r \notin Rows(docs) => index'[r] = index[r]
       /\ r \in Rows(docs) =>
            \/ r \in excused'
            \/ index'[r] # NoDoc /\ \E d \in docs : d[1] = r /\ d[2] = index'[r]

LEMMA BulkSends ==
  ASSUME CTypes, NEW docs \in SUBSET (Row \X Doc),
         IF docs = {} THEN UNCHANGED <<index, excused, faults>> ELSE Bulk(docs)
  PROVE  Sent(docs) /\ faults' \in 0..MaxFaults
<1>1. /\ \A d \in docs : d[1] \in Row
      /\ excused \subseteq Row /\ index \in [Row -> Doc \cup {NoDoc}] /\ faults \in 0..MaxFaults
      /\ MaxFaults \in Nat
  BY SizeAssumption DEF CTypes
<1>2. CASE docs = {}
  <2>1. Rows(docs) = {} /\ UNCHANGED <<index, excused, faults>>
    BY <1>2 DEF Rows
  <2> QED BY <1>1, <2>1 DEF Sent
<1>3. CASE docs # {} /\ Bulk(docs)
  <2>1. PICK lost \in SUBSET docs :
          /\ Put(docs \ lost)
          /\ excused' = excused \cup Rows(lost)
          /\ IF lost = {} THEN UNCHANGED faults ELSE Refused
    BY <1>3 DEF Bulk
  <2>2. docs \ lost \in SUBSET (Row \X Doc)
    OBVIOUS
  <2>3. /\ index' \in [Row -> Doc \cup {NoDoc}]
        /\ \A r \in Row :
             /\ r \notin Rows(docs \ lost) => index'[r] = index[r]
             /\ r \in Rows(docs \ lost) =>
                  index'[r] # NoDoc /\ \E d \in docs \ lost : d[1] = r /\ d[2] = index'[r]
    BY <2>1, <2>2, PutShape
  <2>4. /\ Rows(lost) \subseteq Row
        /\ \A r \in Rows(docs) : r \in Rows(lost) \/ r \in Rows(docs \ lost)
        /\ \A r \in Rows(docs \ lost) : r \in Rows(docs)
    BY <1>1 DEF Rows
  <2>5. faults' \in 0..MaxFaults
    BY <1>1, <2>1 DEF Refused
  <2> QED BY <1>1, <2>1, <2>3, <2>4, <2>5 DEF Sent
<1> QED BY <1>2, <1>3

\* A load leaves the index right when it was right for the rows that are not in it.
LEMMA Loads ==
  ASSUME CInv, NEW docs \in SUBSET (job.movies \cup job.own), Sent(docs), ~Setup, ~Setup', Handling, Handling',
         UNCHANGED <<modified, links, mark, job>>,
         \A r \in Row \ Rows(docs) : Due(r)' => Due(r),
         \A l \in links :
           l[2] \notin Rows(docs) /\ Due(l[2])' /\ Shown(l[1])' => Shown(l[1])
  PROVE  /\ IndexOK' /\ DocsOK'
         /\ \A s \in Row : /\ Known(s)' => Known(s)
                           /\ InHand(s)' => InHand(s)
<1>1. \A s \in Row : /\ Known(s)' => Known(s) /\ s \notin excused'
                     /\ InHand(s)' => InHand(s) /\ s \notin excused'
  BY DEF Known, InHand, Present, Tbl, Sent
<1>2. \A s \in Row : Reached(s)' => Reached(s) /\ s \notin excused'
  BY <1>1 DEF Reached
<1>3. \A d \in job.movies \cup job.own : d[1] \in Row
  BY DEF CInv, CTypes, JobType
<1>4. /\ \A l \in links : l[1] \in Row /\ l[2] \in Row
      /\ \A r : LinksOf(r)' = LinksOf(r) /\ LinksOf(r) \subseteq links
      /\ \A r : \A l \in LinksOf(r) : l[2] = r
  BY LinksShape DEF CInv, LinksOf, Listed
<1>5. DocsOK'
  BY <1>2, <1>3, <1>4, DocsKept DEF CInv
<1>6. \A s \in Row : (Due(s)' => Reached(s)') /\ (Shown(s)' => Reached(s)')
  BY DEF Due, Shown, Reached
<1>7. IndexOK'
  <2> SUFFICES ASSUME NEW r \in Row, Due(r)'
               PROVE  /\ index'[r] # NoDoc /\ index'[r].own >= modified[r]
                      /\ \A l \in LinksOf(r) : Shown(l[1])' => Embeds(index'[r], l)
    BY <1>4 DEF IndexOK, Embeds
  <2>1. CASE r \in Rows(docs)
    <3>1. PICK d \in docs : d[1] = r /\ d[2] = index'[r] /\ index'[r] # NoDoc
      BY <1>2, <1>6, <2>1 DEF Sent
    <3>2. Reached(d[1]) /\ d \in job.movies \cup job.own
      BY <1>2, <1>6, <3>1
    <3>3. /\ d[2].own >= modified[d[1]]
          /\ \A l \in LinksOf(d[1]) : Reached(l[1]) => Embeds(d[2], l)
      BY <3>2 DEF CInv, DocsOK
    <3>4. \A l \in LinksOf(r) : Shown(l[1])' => Reached(l[1])
      BY <1>2, <1>4, <1>6
    <3> QED BY <3>1, <3>3, <3>4
  <2>2. CASE r \notin Rows(docs)
    <3>1. Due(r) /\ index'[r] = index[r] /\ ~Exempt(r)
      BY <2>2 DEF Sent, Exempt
    <3>2. \A l \in LinksOf(r) : Shown(l[1])' => Shown(l[1])
      BY <1>4, <2>2
    <3> QED BY <3>1, <3>2 DEF CInv, IndexOK
  <2> QED BY <2>1, <2>2
<1> QED BY <1>1, <1>5, <1>7

LEMMA LoadMoviesInv ==
  ASSUME CInv, LoadMovies
  PROVE  CInv'
<1>1. /\ pc = "load_movies" /\ pc' = "load_own" /\ ~Setup /\ Handling /\ ~Setup' /\ Handling'
      /\ UNCHANGED <<clock, modified, pending, links, valid, mark, job>>
  BY DEF LoadMovies, dbVars, Setup, Handling
<1>2. job \in JobType
  BY DEF CInv, CTypes
<1>3. Sent(job.movies) /\ faults' \in 0..MaxFaults
  <2>1. job.movies \in SUBSET (Row \X Doc)
    BY <1>2 DEF JobType
  <2>2. IF job.movies = {} THEN UNCHANGED <<index, excused, faults>> ELSE Bulk(job.movies)
    BY DEF LoadMovies
  <2> QED BY <2>1, <2>2, BulkSends DEF CInv
<1>4. CTypes' /\ JobOK'
  <2>1. CTypes'
    BY <1>1, <1>3 DEF CInv, CTypes, Present, Sent
  <2>2. JobOK'
    BY <1>1 DEF CInv, JobOK, Setup
  <2> QED BY <2>1, <2>2
<1>5. \A s \in Row : /\ Known(s)' => Known(s)
                     /\ InHand(s)' => InHand(s)
  BY <1>1, <1>3 DEF Known, InHand, Present, Tbl, Sent
<1>6. \A r \in job.batch : InHand(r) /\ r \in Film => r \in Rows(job.movies)
  <2> SUFFICES ASSUME NEW r \in job.batch, InHand(r), r \in Film PROVE r \in Rows(job.movies)
    OBVIOUS
  <2>1. r \in Row /\ Tbl(r) = job.table
    BY DEF InHand, Row
  <2>2. job.table = "film_work"
    BY <2>1, TableOfRow
  <2> QED BY <1>1, <2>2 DEF CInv, BatchOK
<1>7. \A r \in Row \ Rows(job.movies) : Due(r)' => Known(r)
  BY <1>1, <1>5, <1>6 DEF Due, InHand
<1>8. \A l \in links : l[2] \notin Rows(job.movies) /\ Known(l[2]) => ~InHand(l[1])
  <2> SUFFICES ASSUME NEW l \in links, Known(l[2]), InHand(l[1])
               PROVE  l[2] \in Rows(job.movies)
    OBVIOUS
  <2>1. l[1] \in Related /\ l[1] \in Row
    BY LinkShape DEF CInv, CTypes
  <2>2. l[1] \in job.batch /\ Tbl(l[1]) = job.table
    BY DEF InHand
  <2>3. job.table # "film_work"
    BY <2>1, <2>2, TableOfRow
  <2> QED BY <1>1, <2>2, <2>3 DEF CInv, BatchOK
<1>9. IndexOK' /\ DocsOK'
  <2>1. \A r \in Row \ Rows(job.movies) : Due(r)' => Due(r)
    BY <1>7 DEF Due
  <2>2. \A x \in Row : Shown(x)' /\ ~InHand(x) => Shown(x)
    BY <1>5 DEF Shown
  <2>3. \A l \in links :
          l[2] \notin Rows(job.movies) /\ Due(l[2])' /\ Shown(l[1])' => Shown(l[1])
    BY <1>7, <1>8, <2>2, LinksShape DEF CInv
  <2> QED BY <1>1, <1>3, <2>1, <2>3, Loads
<1>10. BatchOK'
  <2>1. \A r \in (Present \ excused)' : r \in Present \ excused
    BY <1>1, <1>3 DEF Present, Sent
  <2>2. \A r \in job.batch : r \in Row
    BY <1>2 DEF JobType
  <2>3. /\ job.new >= mark[job.table]
        /\ job.table = "film_work" => job.own = {}
        /\ \A r \in Present \ excused :
             Tbl(r) = job.table /\ mark[job.table] < modified[r] /\ modified[r] <= job.new =>
               r \in job.batch \/ modified[r] = job.new
        /\ \A r \in job.batch : InHand(r) /\ job.table # "film_work" => r \in Rows(job.own)
    BY <1>1 DEF CInv, BatchOK
  <2> QED BY <1>1, <1>5, <2>1, <2>2, <2>3 DEF BatchOK, Rows, Tbl
<1> QED BY <1>4, <1>9, <1>10 DEF CInv

LEMMA LoadOwnInv ==
  ASSUME CInv, LoadOwn
  PROVE  CInv'
<1>1. /\ pc = "load_own" /\ pc' = "mark" /\ ~Setup /\ Handling /\ ~Setup' /\ Handling'
      /\ UNCHANGED <<clock, modified, pending, links, valid, mark, job>>
  BY DEF LoadOwn, dbVars, Setup, Handling
<1>2. job \in JobType
  BY DEF CInv, CTypes
<1>3. Sent(job.own) /\ faults' \in 0..MaxFaults
  <2>1. job.own \in SUBSET (Row \X Doc)
    BY <1>2 DEF JobType
  <2>2. IF job.own = {} THEN UNCHANGED <<index, excused, faults>> ELSE Bulk(job.own)
    BY DEF LoadOwn
  <2> QED BY <2>1, <2>2, BulkSends DEF CInv
<1>4. CTypes' /\ JobOK'
  <2>1. CTypes'
    BY <1>1, <1>3 DEF CInv, CTypes, Present, Sent
  <2>2. JobOK'
    BY <1>1 DEF CInv, JobOK, Setup
  <2> QED BY <2>1, <2>2
<1>5. \A s \in Row : /\ Known(s)' => Known(s)
                     /\ InHand(s)' => InHand(s)
  BY <1>1, <1>3 DEF Known, InHand, Present, Tbl, Sent
<1>6. \A r \in Row \ Rows(job.own) : InHand(r) => r \in Film
  <2> SUFFICES ASSUME NEW r \in Row, InHand(r), r \notin Film PROVE r \in Rows(job.own)
    OBVIOUS
  <2>1. r \in job.batch /\ Tbl(r) = job.table /\ Tbl(r) # "film_work"
    BY TableOfRow DEF InHand
  <2> QED BY <1>1, <2>1 DEF CInv, BatchOK
<1>7. IndexOK' /\ DocsOK'
  <2>1. \A r \in Row \ Rows(job.own) : Due(r)' => Due(r)
    BY <1>1, <1>5, <1>6 DEF Due, FilmsLoaded
  <2>2. \A l \in links : Shown(l[1])' => Shown(l[1])
    BY <1>1, <1>5, LinksShape DEF Shown, FilmsLoaded, CInv
  <2> QED BY <1>1, <1>3, <2>1, <2>2, Loads
<1>8. BatchOK'
  <2>1. \A r \in (Present \ excused)' : r \in Present \ excused
    BY <1>1, <1>3 DEF Present, Sent
  <2>2. /\ job.new >= mark[job.table]
        /\ job.table = "film_work" => job.own = {}
        /\ \A r \in Present \ excused :
             Tbl(r) = job.table /\ mark[job.table] < modified[r] /\ modified[r] <= job.new =>
               r \in job.batch \/ modified[r] = job.new
    BY <1>1 DEF CInv, BatchOK
  <2> QED BY <1>1, <2>1, <2>2 DEF BatchOK, Tbl
<1> QED BY <1>4, <1>7, <1>8 DEF CInv

\* The mark moves to the batch's last stamp: by now all that is before it is in the index.
LEMMA SetMarkInv ==
  ASSUME CInv, SetMark
  PROVE  CInv'
<1> DEFINE empty == job.own = {} /\ job.movies = {}
<1>1. /\ pc = "mark" /\ pc' = "batch" /\ job' = NextUp /\ ~Setup /\ Handling /\ ~Setup' /\ ~Handling'
      /\ UNCHANGED <<clock, modified, pending, links, index, valid, faults>>
      /\ IF empty THEN UNCHANGED mark ELSE mark' = [mark EXCEPT ![job.table] = job.new]
      /\ excused' = IF empty \/ job.new = mark[job.table] THEN excused ELSE excused \cup CutOff
  BY DEF SetMark, SetState, dbVars, esVars, Setup, Handling
<1> HIDE DEF empty
<1>2. /\ job \in JobType /\ job.table \in Table /\ job.new \in 0..MaxTime /\ job.new <= clock
      /\ mark \in [Table -> 0..MaxTime] /\ job.new >= mark[job.table] /\ MaxTime \in Nat
      /\ \A r \in Row : modified[r] \in 0..MaxTime /\ Tbl(r) \in Table
  BY <1>1, SizeAssumption, TableOfRow DEF CInv, CTypes, JobType, BatchOK
<1>3. /\ job' \in JobType /\ job'.new = 0 /\ job'.own = {} /\ job'.movies = {} /\ job'.created = {}
  BY <1>1, NextUpShape DEF CInv
<1>4. CTypes' /\ JobOK'
  <2>1. mark' \in [Table -> 0..MaxTime] /\ \A t \in Table : mark'[t] <= clock
    BY <1>1, <1>2 DEF CInv, CTypes
  <2>2. excused' \subseteq Row
    BY <1>1 DEF CutOff, Present, CInv, CTypes
  <2>3. 0 <= clock
    BY SizeAssumption DEF CInv, CTypes
  <2>4. CTypes'
    BY <1>1, <1>3, <2>1, <2>2, <2>3 DEF CInv, CTypes, Present
  <2>5. JobOK'
    BY <1>1, <1>3 DEF JobOK
  <2> QED BY <2>4, <2>5
<1>5. ASSUME NEW r \in Row, Known(r)' PROVE Known(r) \/ InHand(r)
  <2>1. r \in Present /\ r \notin excused' /\ r \notin excused /\ modified[r] <= mark'[Tbl(r)]
    BY <1>1, <1>5 DEF Known, Present, Tbl
  <2>2. CASE modified[r] <= mark[Tbl(r)]
    BY <2>1, <2>2 DEF Known
  <2>3. CASE ~(modified[r] <= mark[Tbl(r)])
    <3>1. /\ Tbl(r) = job.table /\ ~empty /\ modified[r] <= job.new
          /\ mark[job.table] < modified[r] /\ job.new # mark[job.table]
      BY <1>1, <1>2, <2>1, <2>3
    <3>2. r \in job.batch \/ modified[r] = job.new
      BY <1>1, <2>1, <3>1 DEF CInv, BatchOK
    <3>3. r \in job.batch
      BY <1>1, <2>1, <3>1, <3>2 DEF CutOff
    <3> QED BY <1>1, <2>1, <3>1, <3>3 DEF InHand
  <2> QED BY <2>2, <2>3
<1>6. \A s \in Row : (Due(s)' => Due(s)) /\ (Shown(s)' => Shown(s))
  BY <1>1, <1>5 DEF Due, Shown, FilmsLoaded, InHand
<1>7. IndexOK'
  <2>1. \A s \in Row : ~Exempt(s)
    BY <1>1 DEF Exempt
  <2> QED BY <1>1, <1>6, <2>1, LinksShape, IndexKept DEF CInv
<1>8. DocsOK' /\ BatchOK'
  BY <1>1, <1>3 DEF DocsOK, BatchOK
<1> QED BY <1>4, <1>7, <1>8 DEF CInv

-----------------------------------------------------------------------------
(* Faults *)

LEMMA SkipInv ==
  ASSUME CInv, Skip
  PROVE  CInv'
<1>1. /\ pc' = "batch" /\ job' = NextUp /\ ~Setup /\ ~Setup' /\ ~Handling'
      /\ UNCHANGED <<clock, modified, pending, links, index, valid, mark, excused>>
  BY DEF Skip, dbVars, esVars, Setup, Handling
<1>2. faults' \in 0..MaxFaults
  BY SizeAssumption DEF Skip, Unretried, CInv, CTypes
<1>3. /\ job' \in JobType /\ job'.new = 0 /\ job'.own = {} /\ job'.movies = {} /\ job'.created = {}
  BY <1>1, NextUpShape DEF CInv
<1>4. 0 <= clock
  BY SizeAssumption DEF CInv, CTypes
<1>5. CTypes' /\ JobOK'
  <2>1. CTypes'
    BY <1>1, <1>2, <1>3, <1>4 DEF CInv, CTypes, Present
  <2>2. JobOK'
    BY <1>1, <1>3 DEF JobOK
  <2> QED BY <2>1, <2>2
<1>6. \A s \in Row : (Known(s)' => Known(s)) /\ ~Exempt(s)
  BY <1>1 DEF Known, Exempt, Present, Tbl
<1> QED BY <1>1, <1>3, <1>5, <1>6, AtRest DEF CInv

\* A new start owes a row no more than the last one did: the rows of an index that was
\* made and not yet filled are among the excused.
LEMMA RestartInv ==
  ASSUME CInv, Restart, UNCHANGED <<clock, modified, pending, links, index, mark>>,
         valid' \subseteq valid, faults' \in 0..MaxFaults
  PROVE  CInv'
<1>1. /\ pc' = "setup" /\ job' = NoJob /\ ~Handling'
      /\ excused' = excused \cup {r \in Present : Tbl(r) \in job.created \cap valid}
  BY DEF Restart, Handling, Setup
<1>2. /\ NoJob \in JobType /\ NoJob.new = 0 /\ NoJob.own = {} /\ NoJob.movies = {} /\ NoJob.created = {}
      /\ NoJob.table = "film_work"
  BY NoJobIs DEF NoJob
<1>3. 0 <= clock
  BY SizeAssumption DEF CInv, CTypes
<1>4. CTypes' /\ JobOK'
  <2>1. excused' \subseteq Row
    BY <1>1 DEF CInv, CTypes, Present
  <2>2. CTypes'
    BY <1>1, <1>2, <1>3, <2>1 DEF CInv, CTypes, Present
  <2>3. JobOK'
    BY <1>1, <1>2 DEF JobOK, Setup
  <2> QED BY <2>2, <2>3
<1>5. \A s \in Row : /\ Known(s)' => Known(s)
                     /\ Known(s)' /\ ~Exempt(s)' => ~Exempt(s)
  BY <1>1 DEF Known, Exempt, Present, Tbl, Setup
<1> QED BY <1>1, <1>2, <1>4, <1>5, AtRest DEF CInv

LEMMA FaultInv ==
  ASSUME CInv, Skip \/ Crash \/ \E t \in Table : Release(t)
  PROVE  CInv'
<1>1. CASE Skip
  BY <1>1, SkipInv
<1>2. CASE Crash
  <2>1. faults' \in 0..MaxFaults
    BY <1>2, SizeAssumption DEF Crash, CInv, CTypes
  <2> QED BY <1>2, <2>1, RestartInv DEF Crash, dbVars, esVars
<1>3. ASSUME NEW t \in Table, Release(t) PROVE CInv'
  <2>1. faults' \in 0..MaxFaults /\ valid' \subseteq valid
    BY <1>3, SizeAssumption DEF Release, CInv, CTypes
  <2> QED BY <1>3, <2>1, RestartInv DEF Release, dbVars
<1> QED BY <1>1, <1>2, <1>3

-----------------------------------------------------------------------------
(* The invariant and what follows from it *)

LEMMA StutterInv ==
  ASSUME CInv, UNCHANGED vars
  PROVE  CInv'
<1>1. UNCHANGED <<clock, modified, pending, links, index, valid, mark, pc, job, excused, faults>>
  BY DEF vars
<1>2. CTypes'
  BY <1>1 DEF CInv, CTypes, Present
<1> QED BY <1>1, <1>2, NothingChanged

LEMMA NextInv == CInv /\ [CatalogNext]_catalogVars => CInv'
<1> SUFFICES ASSUME CInv, [CatalogNext]_catalogVars PROVE CInv'
  OBVIOUS
<1>1. CASE Admin
  <2>1. PICK r \in Row : BeginSave(r) \/ CommitSave(r) \/ DeleteRow(r)
    BY <1>1 DEF Admin
  <2> QED BY <2>1, BeginSaveInv, CommitSaveInv, DeleteRowInv
<1>2. CASE Step
  BY <1>2, KeepIndexInv, RemoveIndexInv, KeepOldIndexInv, CreateIndexInv, StateSetupInv,
     GetBatchInv, GetDocsInv, GetRelatedInv, GetFilmsInv, LoadMoviesInv, LoadOwnInv, SetMarkInv
  DEF Step
<1>3. CASE Skip \/ Crash \/ \E t \in Table : Release(t)
  BY <1>3, FaultInv
<1>4. CASE UNCHANGED vars
  BY <1>4, StutterInv
<1>5. UNCHANGED catalogVars => UNCHANGED vars
  BY DEF catalogVars, vars
<1> QED BY <1>1, <1>2, <1>3, <1>4, <1>5 DEF CatalogNext, Copy, Serve, Next

LEMMA Invariance == CatalogSpec => []CInv
<1> QED BY InitInv, NextInv, PTL DEF CatalogSpec

LEMMA TypesFollow == CInv => TypeOK
<1> SUFFICES ASSUME CInv PROVE TypeOK
  OBVIOUS
<1>1. /\ clock \in 1..MaxTime /\ faults \in 0..MaxFaults /\ MaxTime \in Nat
      /\ links \subseteq Link /\ pending \subseteq Row \X (1..clock) /\ valid \subseteq Table /\ excused \subseteq Row
      /\ pc \in {"setup", "create", "state", "batch", "docs", "related", "films",
                 "load_movies", "load_own", "mark"}
      /\ \A r \in Row : index[r] # NoDoc => index[r] \in Doc
  BY SizeAssumption DEF CInv, CTypes
<1>2. \A r \in Row : modified[r] \in 0..clock
  BY <1>1 DEF CInv, CTypes
<1>3. \A t \in Table : mark[t] \in 0..clock
  BY <1>1 DEF CInv, CTypes
<1>4. \A l \in links : {l[1], l[2]} \subseteq Present
  BY DEF CInv, CTypes
<1>5. job.table \in Table /\ job.batch \subseteq Row /\ job.films \subseteq Film
  BY DEF CInv, CTypes, JobType
<1>6. DocSet(job.own) /\ DocSet(job.movies)
  BY DEF CInv, CTypes, JobType, DocSet
<1>7. ~Setup /\ pc # "batch" => job.new >= mark[job.table]
  BY DEF CInv, BatchOK, Handling
<1> QED BY <1>1, <1>2, <1>3, <1>4, <1>5, <1>6, <1>7 DEF TypeOK

\* The process's variables, the index and the database keep their types, whatever saves
\* are pending; every link has its two rows, and the mark a batch will leave is not behind
\* the present one.
THEOREM TypeCorrect == CatalogSpec => []TypeOK
<1> QED BY Invariance, TypesFollow, PTL

LEMMA LoadedIsDue ==
  ASSUME CInv, NEW r \in Row, Loaded(r)
  PROVE  Due(r) /\ Shown(r) /\ ~Exempt(r)
  BY DEF Loaded, Due, Shown, Known, Exempt

\* A row that is not after its table's mark is in the index, at least as new as in the
\* database, but for those the ETL has lost sight of: load comes before set_state.
THEOREM MarkedIndexed == CatalogSpec => []MarkedRowsAreIndexed
<1>1. CInv => MarkedRowsAreIndexed
  BY LoadedIsDue DEF CInv, IndexOK, MarkedRowsAreIndexed
<1> QED BY <1>1, Invariance, PTL

\* The document of a film embeds each of its genres, and each of its persons in every role
\* the extractor's query asks for, as new as they are, when both are behind their marks.
THEOREM FilmsEmbed == CatalogSpec => []FilmsEmbedTheirRelated
<1>1. CInv => FilmsEmbedTheirRelated
  <2> SUFFICES ASSUME CInv, NEW l \in links, Listed(l), Loaded(l[1]), Loaded(l[2])
               PROVE  \E e \in index[l[2]].related : e[1] = l[1] /\ e[2] = l[3] /\ e[3] >= modified[l[1]]
    BY DEF FilmsEmbedTheirRelated
  <2>1. l[1] \in Row /\ l[2] \in Row /\ l \in LinksOf(l[2])
    BY LinksShape DEF CInv, LinksOf
  <2>2. Due(l[2]) /\ ~Exempt(l[2]) /\ Shown(l[1])
    BY <2>1, LoadedIsDue
  <2>3. Embeds(index[l[2]], l)
    BY <2>1, <2>2 DEF CInv, IndexOK
  <2> QED BY <2>3 DEF Embeds
<1> QED BY <1>1, Invariance, PTL
=============================================================================
