----------------------------- MODULE MCCatalog -----------------------------
(***************************************************************************)
(* Instances of Catalog for TLC: a film and two persons, of whom one or    *)
(* both are in the film.                                                   *)
(***************************************************************************)
EXTENDS Catalog

CONSTANTS f1, x1, x2

OneLinked == {<<x2, f1, "actor">>}

AllLinked == {<<x1, f1, "actor">>, <<x2, f1, "actor">>}

Queries == {<<"film", f1>>, <<"person", x1>>, <<"genres">>, <<"person_films", x2>>}
=============================================================================
