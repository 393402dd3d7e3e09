----------------------------- MODULE ContentApi -----------------------------
(***************************************************************************)
(* async_api: the read-only content service.  Every GET handler sits       *)
(* behind one decorator that keeps its answer in Redis for                 *)
(* cache_expire_in_seconds; nothing removes an entry before it expires.    *)
(*                                                                         *)
(* The index is written by somebody else (EtlElastic).  Of a list's paging *)
(* and order, and of a text that is searched for, nothing is modelled: a   *)
(* list or a search gives all documents of its index.                      *)
(***************************************************************************)
EXTENDS Naturals, Sequences

CONSTANTS
  Film, Genre, Person,  \* rows of the catalog
  Request,  \* the GET requests that arrive, each served once
  Query,    \* bound: what readers ask, <<question>> or <<question, row>>
  NoDoc,    \* no document in the index
  Miss      \* no entry in the cache, no result yet

VARIABLES
  index,    \* Elasticsearch: row -> NoDoc or its document, with own, related and films
  cache,    \* Redis: key -> stored answer or Miss
  request   \* request -> its step, its query and the handler's result

\* Two requests share an entry when they ask the same handler for the same: the order of
\* their parameters is of no account.
CacheKey(q) == [handler |-> q[1], params |-> {q[i] : i \in 2..Len(q)}]

Arriving == [step |-> "arriving", query |-> Miss, result |-> Miss]

Done == [Arriving EXCEPT !.step = "done"]

ApiInit ==
  /\ cache = [k \in {CacheKey(q) : q \in Query} |-> Miss]
  /\ request = [c \in Request |-> Arriving]

SetRequest(c, r) == request' = [request EXCEPT ![c] = r]

-----------------------------------------------------------------------------
(* The services *)

Kept(rows) == {r \in rows : index[r] # NoDoc}

\* Lists of films say no more of one than its own fields.
Short(films) == {<<f, index[f].own>> : f \in Kept(films)}

\* The nested query for films of a genre.
OfGenre(g) == {f \in Kept(Film) : \E e \in index[f].related : e[1] = g}

\* FilmService: get_list, search, get_list of one genre and get_by_id.  A missing index
\* is an empty list.
AskFilms(q) ==
  CASE q[1] = "films" -> Short(Film)
    [] q[1] = "films_of_genre" -> Short(OfGenre(q[2]))
    [] q[1] = "film" -> index[q[2]]

\* PersonService: search and get_by_id.
AskPersons(q) ==
  IF q[1] = "persons" THEN {<<p, index[p]>> : p \in Kept(Person)} ELSE index[q[2]]

\* GenreService: get_list and get_by_id.
AskGenres(q) ==
  IF q[1] = "genres" THEN {<<g, index[g]>> : g \in Kept(Genre)} ELSE index[q[2]]

\* What the query gives when nothing changes meanwhile.
Search(q) ==
  CASE q[1] \in {"films", "films_of_genre", "film"} -> AskFilms(q)
    [] q[1] \in {"persons", "person"} -> AskPersons(q)
    [] q[1] \in {"genres", "genre"} -> AskGenres(q)
    [] q[1] = "person_films" -> IF index[q[2]] = NoDoc THEN NoDoc ELSE Short(index[q[2]].films)

-----------------------------------------------------------------------------
(* The cache's wrapper and the handlers *)

\* The wrapper's read of Redis: on a miss the handler runs.  A hit is the answer; when
\* Redis fails the handler's answer is not stored.  Neither changes anything.
ReadCache(c, q) ==
  /\ request[c] = Arriving
  /\ \/ cache[CacheKey(q)] = Miss /\ SetRequest(c, [Arriving EXCEPT !.step = "search", !.query = q])
     \/ SetRequest(c, Done)
  /\ UNCHANGED cache

\* A handler goes on with what it found.  404, and 503 when Elasticsearch cannot be
\* reached, are exceptions and never reach the cache.
Found(c, step, found) ==
  /\ \/ /\ found # NoDoc
        /\ SetRequest(c, [request[c] EXCEPT !.step = step, !.result = found])
     \/ SetRequest(c, Done)
  /\ UNCHANGED cache

Searching(c, what) == request[c].step = "search" /\ request[c].query[1] \in what

\* films_list, films_search and film_details.
FilmHandler(c) ==
  /\ Searching(c, {"films", "films_of_genre", "film"})
  /\ Found(c, "store", AskFilms(request[c].query))

\* persons_search and person_details.
PersonHandler(c) ==
  /\ Searching(c, {"persons", "person"})
  /\ Found(c, "store", AskPersons(request[c].query))

\* genres_list and genre_detail.
GenreHandler(c) ==
  /\ Searching(c, {"genres", "genre"})
  /\ Found(c, "store", AskGenres(request[c].query))

\* person_films reads the person's document first, and then those of the films it names,
\* of which some may be gone.
PersonOfFilms(c) ==
  /\ Searching(c, {"person_films"})
  /\ LET doc == index[request[c].query[2]] IN
       Found(c, "films", IF doc = NoDoc THEN NoDoc ELSE doc.films)

FilmsOfPerson(c) ==
  /\ request[c].step = "films"
  /\ Found(c, "store", Short(request[c].result))

\* The answer is stored under the handler with the request's method, path and query
\* parameters, or the write fails and is only logged.
StoreCache(c) ==
  /\ request[c].step = "store"
  /\ \/ cache' = [cache EXCEPT ![CacheKey(request[c].query)] = request[c].result]
     \/ UNCHANGED cache
  /\ SetRequest(c, Done)


\* The entry's time to live is over.
Expire(q) ==
  /\ cache[CacheKey(q)] # Miss
  /\ cache' = [cache EXCEPT ![CacheKey(q)] = Miss]
  /\ UNCHANGED request

RunHandler(c) ==
  FilmHandler(c) \/ PersonHandler(c) \/ GenreHandler(c) \/ PersonOfFilms(c) \/ FilmsOfPerson(c)

ApiNext ==
  \/ \E c \in Request : (\E q \in Query : ReadCache(c, q)) \/ RunHandler(c) \/ StoreCache(c)
  \/ \E q \in Query : Expire(q)
=============================================================================
