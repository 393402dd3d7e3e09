-------------------------- MODULE PermissionCache --------------------------
(***************************************************************************)
(* auth: roles of users, permissions of roles, and the cache of a user's   *)
(* effective permissions that PermissionCheckService keeps in Redis.       *)
(* RoleService and PermissionService change the database, commit, and then *)
(* delete the entries of the users concerned; a check reads the entry,     *)
(* and on a miss reads the database and fills it.  Nothing orders the fill *)
(* after the deletion.                                                     *)
(*                                                                         *)
(* Names of roles, and the pages that list them, are left out.             *)
(***************************************************************************)
EXTENDS Naturals

CONSTANTS
  User,
  Role,       \* role ids, in the table or to be created
  Permission,
  Superuser,  \* users with is_superuser, whose checks never reach the cache
  Roles0, UserRoles0, RolePermissions0,  \* the tables at first
  Change,     \* requests that change the tables, each served once
  Check,      \* processes that check permissions, over and over
  MaxFaults,  \* bound: crashes and failures of Redis
  None        \* no entry in the cache

ASSUME TablesAssumption ==
  /\ Superuser \subseteq User /\ Roles0 \subseteq Role
  /\ UserRoles0 \subseteq User \X Roles0
  /\ RolePermissions0 \subseteq Roles0 \X Permission
ASSUME FaultsAssumption == MaxFaults \in Nat
ASSUME UserAssumption == User # {}

VARIABLES
  roles,            \* ids in the table of roles
  dropped,          \* ids that were deleted and never come back
  userRoles,        \* pairs <<user, role>>
  rolePermissions,  \* pairs <<role, permission>>
  cache,            \* Redis: user -> None or the permissions and whether they are aged
  change,           \* change -> its step, its arguments, and the users still to invalidate
  check,            \* check -> its step, its user and what it read
  excused,          \* history: users with an entry that nobody is going to delete, see
                    \* the actions that add to it
  faults            \* history: faults so far

tables == <<roles, dropped, userRoles, rolePermissions>>
vars == <<roles, dropped, userRoles, rolePermissions, cache, change, check, excused, faults>>

Fault == faults < MaxFaults /\ faults' = faults + 1

\* The query of get_user_permissions.
Effective(u) ==
  {p \in Permission : \E r \in Role : <<u, r>> \in userRoles /\ <<r, p>> \in rolePermissions}

UsersOf(r) == {u \in User : <<u, r>> \in userRoles}

\* op and its arguments; users: those to invalidate; missed (history): users who got the
\* role after delete_role had read who has it.
NewChange == [step |-> "new", op |-> "", row |-> <<>>, users |-> {}, missed |-> {}]

NewCheck == [step |-> "idle", user |-> CHOOSE u \in User : TRUE, found |-> {}]

Init ==
  /\ roles = Roles0 /\ dropped = {}
  /\ userRoles = UserRoles0 /\ rolePermissions = RolePermissions0
  /\ cache = [u \in User |-> None]
  /\ change = [w \in Change |-> NewChange]
  /\ check = [c \in Check |-> NewCheck]
  /\ excused = {} /\ faults = 0

-----------------------------------------------------------------------------
(* RoleService and PermissionService *)

Done == [NewChange EXCEPT !.step = "done"]

Begin(w, op, row, users) ==
  /\ change[w].step = "new"
  /\ change' = [change EXCEPT ![w] = [NewChange EXCEPT !.step = "write", !.op = op,
                                                       !.row = row, !.users = users]]
  /\ UNCHANGED <<tables, cache, check, excused, faults>>

\* The role and the user, or the permission, exist, and the row to add does not.
BeginAssign(w, u, r) == r \in roles /\ <<u, r>> \notin userRoles /\ Begin(w, "assign", <<u, r>>, {u})

BeginRemove(w, u, r) == r \in roles /\ Begin(w, "remove", <<u, r>>, {u})

BeginGrant(w, r, p) == r \in roles /\ <<r, p>> \notin rolePermissions /\ Begin(w, "grant", <<r, p>>, {})

BeginRevoke(w, r, p) == r \in roles /\ Begin(w, "revoke", <<r, p>>, {})

Affected_AfterDelete(r) == {}

\* delete_role reads who has the role before the deletion cascades to user_role.
Affected(r) == UsersOf(r)

BeginDelete(w, r) == Begin(w, "delete", <<r>>, Affected(r))

CreateRole(w, r) ==
  /\ change[w].step = "new"
  /\ r \notin roles \cup dropped
  /\ roles' = roles \cup {r}
  /\ change' = [change EXCEPT ![w] = Done]
  /\ UNCHANGED <<dropped, userRoles, rolePermissions, cache, check, excused, faults>>

Writing(w, op) == change[w].step = "write" /\ change[w].op = op

Refused_NoForeignKey(w) ==
  IF change[w].op = "delete" THEN change[w].row[1] \notin roles
  ELSE (change[w].op \in {"assign", "grant"}) = (change[w].row \in userRoles \cup rolePermissions)

\* The row is there already (IntegrityError, or no row to delete) or its role is not.
Refused(w) ==
  LET row == change[w].row IN
  CASE change[w].op = "assign" -> row \in userRoles \/ row[2] \notin roles
    [] change[w].op = "remove" -> row \notin userRoles
    [] change[w].op = "grant"  -> row \in rolePermissions \/ row[1] \notin roles
    [] change[w].op = "revoke" -> row \notin rolePermissions
    [] change[w].op = "delete" -> row[1] \notin roles

\* The request ends without a word to the cache.
Refuse(w) ==
  /\ change[w].step = "write" /\ Refused(w)
  /\ change' = [change EXCEPT ![w] = Done]
  /\ UNCHANGED <<tables, cache, check, excused, faults>>

Invalidating(w) ==
  IF change[w].users = {} THEN Done ELSE [change[w] EXCEPT !.step = "invalidate", !.missed = {}]

CommitAssign(w) ==
  /\ Writing(w, "assign") /\ ~Refused(w)
  /\ LET u == change[w].row[1]
         r == change[w].row[2] IN
       /\ userRoles' = userRoles \cup {<<u, r>>}
       /\ change' = [v \in Change |->
            IF v = w THEN Invalidating(w)
            ELSE IF Writing(v, "delete") /\ change[v].row = <<r>> /\ u \notin change[v].users
                 THEN [change[v] EXCEPT !.missed = @ \cup {u}]
            ELSE change[v]]
  /\ UNCHANGED <<roles, dropped, rolePermissions, cache, check, excused, faults>>

CommitRemove(w) ==
  /\ Writing(w, "remove") /\ ~Refused(w)
  /\ userRoles' = userRoles \ {change[w].row}
  /\ change' = [change EXCEPT ![w] = Invalidating(w)]
  /\ UNCHANGED <<roles, dropped, rolePermissions, cache, check, excused, faults>>

CommitGrant(w) ==
  /\ Writing(w, "grant") /\ ~Refused(w)
  /\ rolePermissions' = rolePermissions \cup {change[w].row}
  /\ change' = [change EXCEPT ![w].step = "users"]
  /\ UNCHANGED <<roles, dropped, userRoles, cache, check, excused, faults>>

CommitRevoke(w) ==
  /\ Writing(w, "revoke") /\ ~Refused(w)
  /\ rolePermissions' = rolePermissions \ {change[w].row}
  /\ change' = [change EXCEPT ![w].step = "users"]
  /\ UNCHANGED <<roles, dropped, userRoles, cache, check, excused, faults>>

\* A user who was given the role since keeps what it gave for as long as the entry lives.
CommitDelete(w) ==
  /\ Writing(w, "delete") /\ ~Refused(w)
  /\ LET r == change[w].row[1] IN
       /\ roles' = roles \ {r} /\ dropped' = dropped \cup {r}
       /\ userRoles' = {x \in userRoles : x[2] # r}
       /\ rolePermissions' = {x \in rolePermissions : x[1] # r}
  /\ change' = [change EXCEPT ![w] = Invalidating(w)]
  /\ excused' = excused \cup change[w].missed
  /\ UNCHANGED <<cache, check, faults>>

\* _invalidate_role_users_permissions_cache reads the role's users after the commit.
ReadUsers(w) ==
  /\ change[w].step = "users"
  /\ LET users == UsersOf(change[w].row[1]) IN
       change' = [change EXCEPT ![w] = IF users = {} THEN Done
                                       ELSE [@ EXCEPT !.step = "invalidate", !.users = users]]
  /\ UNCHANGED <<tables, cache, check, excused, faults>>

\* invalidate_user_permissions_cache: an error of Redis is only logged.
Invalidate(w, u) ==
  /\ change[w].step = "invalidate" /\ u \in change[w].users
  /\ change' = [change EXCEPT ![w] = IF change[w].users = {u} THEN Done
                                  ELSE [change[w] EXCEPT !.users = @ \ {u}]]
  /\ \/ cache' = [cache EXCEPT ![u] = None] /\ excused' = excused \ {u} /\ UNCHANGED faults
     \/ Fault /\ excused' = excused \cup {u} /\ UNCHANGED cache
  /\ UNCHANGED <<tables, check>>

ToInvalidate(w) ==
  CASE change[w].step = "invalidate" -> change[w].users
    [] change[w].step = "users"      -> UsersOf(change[w].row[1])
    [] OTHER                         -> {}

\* The database fails before the commit, or after it the process dies or the query for
\* the users fails.
Crash(w) ==
  /\ change[w].step \in {"write", "users", "invalidate"} /\ Fault
  /\ excused' = excused \cup ToInvalidate(w)
  /\ change' = [change EXCEPT ![w] = Done]
  /\ UNCHANGED <<tables, cache, check>>

-----------------------------------------------------------------------------
(* PermissionCheckService *)

SetCheck(c, x) == check' = [check EXCEPT ![c] = x]

CacheHit_Sliding(c, u) ==
  /\ check[c].step = "idle" /\ u \notin Superuser
  /\ cache[u] # None
  /\ cache' = [cache EXCEPT ![u].aged = FALSE]
  /\ UNCHANGED <<tables, change, check, excused, faults>>

\* A hit is the answer, and its age goes on.
CacheHit(c, u) ==
  /\ check[c].step = "idle" /\ u \notin Superuser
  /\ cache[u] # None
  /\ UNCHANGED vars

\* has_permission and get_user_permissions of a user who is no superuser: no entry, or
\* Redis fails.
CacheMiss(c, u) ==
  /\ check[c].step = "idle" /\ u \notin Superuser
  /\ IF cache[u] = None THEN UNCHANGED faults ELSE Fault
  /\ SetCheck(c, [NewCheck EXCEPT !.step = "query", !.user = u])
  /\ UNCHANGED <<tables, cache, change, excused>>

Query(c) ==
  /\ check[c].step = "query"
  /\ SetCheck(c, [check[c] EXCEPT !.step = "fill", !.found = Effective(check[c].user)])
  /\ UNCHANGED <<tables, cache, change, excused, faults>>

Pending(u) == \E w \in Change : u \in ToInvalidate(w)

\* What was read may have changed since, and the entry that said so been deleted already.
Fill(c) ==
  /\ check[c].step = "fill"
  /\ LET u == check[c].user
         found == check[c].found IN
       /\ cache' = [cache EXCEPT ![u] = [permissions |-> found, aged |-> FALSE]]
       /\ excused' = IF found = Effective(u) THEN excused \ {u}
                     ELSE IF Pending(u) THEN excused ELSE excused \cup {u}
  /\ SetCheck(c, NewCheck)
  /\ UNCHANGED <<tables, change, faults>>

\* Redis fails, which is logged, or the process dies.
FailFill(c) ==
  /\ check[c].step \in {"query", "fill"} /\ Fault
  /\ SetCheck(c, NewCheck)
  /\ UNCHANGED <<tables, cache, change, excused>>

\* Half of permissions_cache_ttl has passed, and then the rest.
Age(u) ==
  /\ cache[u] # None /\ ~cache[u].aged
  /\ cache' = [cache EXCEPT ![u].aged = TRUE]
  /\ UNCHANGED <<tables, change, check, excused, faults>>

Expire(u) ==
  /\ cache[u] # None /\ cache[u].aged
  /\ cache' = [cache EXCEPT ![u] = None]
  /\ excused' = excused \ {u}
  /\ UNCHANGED <<tables, change, check, faults>>

-----------------------------------------------------------------------------
Serve(w) ==
  \/ \E r \in Role :
       \/ \E u \in User : BeginAssign(w, u, r) \/ BeginRemove(w, u, r)
       \/ \E p \in Permission : BeginGrant(w, r, p) \/ BeginRevoke(w, r, p)
       \/ BeginDelete(w, r) \/ CreateRole(w, r)
  \/ Crash(w)

Progress(w) ==
  \/ Refuse(w)
  \/ CommitAssign(w) \/ CommitRemove(w) \/ CommitGrant(w) \/ CommitRevoke(w) \/ CommitDelete(w)
  \/ ReadUsers(w)
  \/ \E u \in User : Invalidate(w, u)

Checking(c) ==
  \/ \E u \in User : CacheHit(c, u) \/ CacheMiss(c, u)
  \/ Query(c) \/ Fill(c) \/ FailFill(c)

Next ==
  \/ \E w \in Change : Serve(w) \/ Progress(w)
  \/ \E c \in Check : Checking(c)
  \/ \E u \in User : Age(u) \/ Expire(u)

Spec == Init /\ [][Next]_vars

\* A request that has begun goes on, and time passes.
Fairness ==
  /\ \A w \in Change : WF_vars(Progress(w))
  /\ \A c \in Check : WF_vars(Query(c) \/ Fill(c))
  /\ \A u \in User : WF_vars(Age(u)) /\ WF_vars(Expire(u))

FairSpec == Spec /\ Fairness

-----------------------------------------------------------------------------
(* Properties *)

TypeOK ==
  /\ roles \subseteq Role \ dropped /\ dropped \subseteq Role
  /\ userRoles \subseteq User \X roles
  /\ rolePermissions \subseteq roles \X Permission
  /\ \A u \in User : cache[u] # None => cache[u] \in [permissions : SUBSET Permission, aged : BOOLEAN]
  /\ \A w \in Change : /\ change[w].step \in {"new", "write", "users", "invalidate", "done"}
                       /\ change[w].users \cup change[w].missed \subseteq User
                       /\ change[w].step = "invalidate" => change[w].users # {}
  /\ check \in [Check -> [step : {"idle", "query", "fill"}, user : User, found : SUBSET Permission]]
  /\ excused \subseteq User /\ faults \in 0..MaxFaults

\* "Cache invalidates on role-user and role-permission assignment changes"
\* (auth/README.md:106): an entry is what the database says, or a request is about to
\* delete it.  The exceptions are a check that read before the change and filled after
\* the deletion, a user given a role while it is deleted, a failing Redis and a crash.
StaleIsExplained ==
  \A u \in User \ excused :
    cache[u] = None \/ cache[u].permissions = Effective(u) \/ Pending(u)

\* Whatever went wrong, once no changes are made the checks answer by the database: no
\* entry outlives its time, however often it is read, and none is filled with old data
\* for ever.
ChangesTakeEffect ==
  <>[](\A u \in User : cache[u] = None \/ cache[u].permissions = Effective(u))

-----------------------------------------------------------------------------
(* "Cache invalidates on role-user and role-permission assignment changes" *)
(* (auth/README.md:106), where the code does not.                          *)

\* An entry is what the database says, or a request is about to delete it.
EntriesFollowChanges ==
  \A u \in User : cache[u] = None \/ cache[u].permissions = Effective(u) \/ Pending(u)

\* A change that has a user's entry to delete does not pass on without doing so.
ChangesInvalidate ==
  [][\A w \in Change, u \in User :
       u \in ToInvalidate(w) /\ change'[w].step = "done" => cache'[u] = None]_vars
=============================================================================
