------------------------------ MODULE UnitOfWork ------------------------------
(***************************************************************************)
(* What the services rely on in SQLAlchemy's session (external), and which *)
(* decides races between handlers that update one row.                     *)
(*                                                                         *)
(* Sessions are made with expire_on_commit=False, and an object a session  *)
(* already holds is not overwritten by a later SELECT ... FOR UPDATE (that *)
(* needs populate_existing, which no query here asks for).  So in the      *)
(* second transaction of a handler an object still has the attribute       *)
(* values the first one loaded, and a flush writes only the attributes     *)
(* whose assigned value differs from the loaded one.                       *)
(***************************************************************************)

\* The mistake of expecting the assignment itself to reach the row.
Flushed_Always(stored, loaded, assigned) == assigned

\* The column's value after a flush: assigning the loaded value writes nothing,
\* even if another transaction has changed the column since it was loaded.
Flushed(stored, loaded, assigned) == IF assigned = loaded THEN stored ELSE assigned
=============================================================================
