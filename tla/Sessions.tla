------------------------------ MODULE Sessions ------------------------------
(***************************************************************************)
(* auth: how accounts are made, and the pairs of access and refresh tokens *)
(* their sessions live on.  An account's first role comes in a transaction *)
(* of its own; a token is checked when a request begins and never again, a *)
(* pair is rotated by issuing the new one first, and a revoked token is an *)
(* entry of Redis with a time to live of its own.                          *)
(*                                                                         *)
(* An account is its email.  Time passes in seconds, which is what a       *)
(* token's expiry is cut to; an entry's time to live runs from the moment  *)
(* it was made.                                                            *)
(***************************************************************************)
EXTENDS Naturals

CONSTANTS
  User,         \* emails accounts are made for
  Role,
  BaseRole, AdminRole,  \* the roles of a new account and of a new superuser
  Handler,      \* requests being served at a time
  Pair,         \* bound: token pairs alive at a time
  AccessLife, RefreshLife,  \* access_token_expires and refresh_token_expires
  None

ASSUME RoleAssumption == {BaseRole, AdminRole} \subseteq Role
ASSUME LifeAssumption ==
  AccessLife \in Nat \ {0} /\ RefreshLife \in Nat /\ RefreshLife > AccessLife

VARIABLES
  users,      \* the table of accounts
  userRoles,  \* the table of pairs <<user, role>>
  pair,       \* pair -> None or its claims, its age and the entries of Redis about it
  handler     \* handler -> its step and what it has read

tables == <<users, userRoles>>
vars == <<users, userRoles, pair, handler>>

Kind == {"access", "refresh"}
Life(k) == IF k = "access" THEN AccessLife ELSE RefreshLife

\* The claims of a pair's two tokens, and what Redis and the history say of them.
PairRecord ==
  [user : User, roles : SUBSET Role, out : BOOLEAN, age : 0..RefreshLife,
   left : [Kind -> Nat], since : Nat \cup {None}, spent : 0..2, raced : BOOLEAN]

ASSUME NoneAssumption == None \notin Pair \cup Nat \cup PairRecord

Idle == [step |-> "idle", user |-> None, kind |-> None, role |-> None, pair |-> None, new |-> None, roles |-> {}]

Init ==
  /\ users = {} /\ userRoles = {}
  /\ pair = [s \in Pair |-> None]
  /\ handler = [h \in Handler |-> Idle]

Free(h) == handler[h].step = "idle"
At(h, step) == handler[h].step = step
Reply(h) == handler' = [handler EXCEPT ![h] = Idle]
RolesOf(u) == {r \in Role : <<u, r>> \in userRoles}

-----------------------------------------------------------------------------
(* UserService and the handlers that make accounts *)

\* create_user: the row is committed before anything else is done; an email that has an
\* account is refused.
CreateUser(u) == u \notin users /\ users' = users \cup {u}

\* role is the one to give next.
Register(h, u, role) ==
  /\ Free(h)
  /\ CreateUser(u)
  /\ handler' = [handler EXCEPT ![h] = [Idle EXCEPT !.step = "role", !.user = u, !.role = role]]
  /\ UNCHANGED <<userRoles, pair>>

\* POST /signup, and the command create-superuser.
SignUp(h, u) == Register(h, u, BaseRole)
CreateSuperuser(h, u) == Register(h, u, AdminRole)

\* Without such a role the request ends with an error.  The account stays as it is, and to
\* repeat the request is no remedy, for its email is taken.
AssignRole(h) ==
  /\ At(h, "role")
  /\ userRoles' \in {userRoles, userRoles \cup {<<handler[h].user, handler[h].role>>}}
  /\ Reply(h)
  /\ UNCHANGED <<users, pair>>

\* A login whose email and password match, or Google's callback for an email with an account.
Login(h, u) ==
  /\ Free(h) /\ u \in users
  /\ handler' = [handler EXCEPT ![h] = [Idle EXCEPT !.step = "roles", !.user = u]]
  /\ UNCHANGED <<tables, pair>>

\* The callback for an email without one, which Google has verified.
GoogleCallback(h, u) ==
  /\ Free(h) /\ u \notin users
  /\ handler' = [handler EXCEPT ![h] = [Idle EXCEPT !.step = "insert", !.user = u]]
  /\ UNCHANGED <<tables, pair>>

\* The account it makes is given no role; when another request has made one meanwhile,
\* nothing catches the error.
InsertGoogleUser(h) ==
  /\ At(h, "insert")
  /\ \/ CreateUser(handler[h].user) /\ handler' = [handler EXCEPT ![h].step = "roles"]
     \/ handler[h].user \in users /\ UNCHANGED users /\ Reply(h)
  /\ UNCHANGED <<userRoles, pair>>

-----------------------------------------------------------------------------
(* Tokens *)

Blacklisted(s, k) == pair[s].left[k] > 0

\* jwt_required and jwt_refresh_token_required, for a token the client was given: auth
\* (PyJWT) refuses it from its expiry on.
Accepted(s, k) ==
  /\ pair[s] # None /\ pair[s].out
  /\ pair[s].age < Life(k)
  /\ ~Blacklisted(s, k)

\* What async_api and ugc ask Redis about a token; without an answer they refuse it.
Denied(s) == Blacklisted(s, "access")

\* async_api and ugc (python-jose) accept an access token through the second it expires in.
AcceptedByResource(s) ==
  /\ pair[s] # None /\ pair[s].out
  /\ pair[s].age <= AccessLife
  /\ ~Denied(s)

Ttl_Swapped(k) == IF k = "access" THEN RefreshLife ELSE AccessLife

\* TokenService.add_token_to_blacklist: the entry lives as long as a new token of the kind,
\* whatever is left of this one.
Ttl(k) == Life(k)

NewPair(u, claims, given) ==
  [user |-> u, roles |-> claims, out |-> given, age |-> 0, left |-> [k \in Kind |-> 0],
   since |-> None, spent |-> 0, raced |-> FALSE]

\* What is still worth knowing of a pair: nothing about a token that no one accepts.
Useful(p) ==
  IF p.age >= RefreshLife THEN [NewPair(p.user, {}, p.out) EXCEPT !.age = RefreshLife]
  ELSE IF p.age > AccessLife THEN [p EXCEPT !.left["access"] = 0, !.since = None, !.roles = {}]
  ELSE p

\* since (history): the age at which the access token was revoked.
Blacklist(p, k) ==
  Useful([p EXCEPT !.left[k] = Ttl(k), !.since = IF k = "access" /\ @ = None THEN p.age ELSE @])

Spend_AccessToken(p) == Useful([Blacklist(p, "access") EXCEPT !.spent = IF @ = 0 THEN 1 ELSE 2])

\* spent (history): requests that ended the refresh token, one or more.
Spend(p) == Useful([Blacklist(p, "refresh") EXCEPT !.spent = IF @ = 0 THEN 1 ELSE 2])

-----------------------------------------------------------------------------
(* The handlers of /refresh and the revocations *)

\* raced (history): the refresh token is accepted while another request is at it.
Race(s) ==
  pair' = IF \E h \in Handler : handler[h].pair = s /\ handler[h].kind = "refresh"
          THEN [pair EXCEPT ![s].raced = TRUE] ELSE pair

Refresh(h, s) ==
  /\ Free(h) /\ Accepted(s, "refresh")
  /\ handler' = [handler EXCEPT ![h] =
       [Idle EXCEPT !.step = "roles", !.user = pair[s].user, !.pair = s, !.kind = "refresh"]]
  /\ Race(s)
  /\ UNCHANGED tables

ReadRoles_OfToken(h) ==
  /\ At(h, "roles")
  /\ handler' = [handler EXCEPT ![h] =
       [@ EXCEPT !.step = "issue", !.roles = IF handler[h].pair = None THEN RolesOf(handler[h].user)
                                             ELSE pair[handler[h].pair].roles]]
  /\ UNCHANGED <<tables, pair>>

\* The claims of the new pair are what the database says now, for a refresh too.
ReadRoles(h) ==
  /\ At(h, "roles")
  /\ handler' = [handler EXCEPT ![h] =
       [@ EXCEPT !.step = "issue", !.roles = RolesOf(handler[h].user)]]
  /\ UNCHANGED <<tables, pair>>

\* issue_tokens: the pair of a login goes to the client, that of a refresh only when the
\* old refresh token is in the blacklist.
Issue(h) ==
  /\ At(h, "issue") /\ \E s \in Pair : pair[s] = None
  /\ LET login == handler[h].pair = None
         s == CHOOSE s \in Pair : pair[s] = None IN
       /\ pair' = [pair EXCEPT ![s] = NewPair(handler[h].user, handler[h].roles, login)]
       /\ handler' = [handler EXCEPT ![h] =
            IF login THEN Idle ELSE [@ EXCEPT !.step = "rotate", !.new = s, !.roles = {}]]
  /\ UNCHANGED tables

HandOver(p) == [p EXCEPT !.out = TRUE]

Rotate(h) ==
  /\ At(h, "rotate")
  /\ pair' = [pair EXCEPT ![handler[h].pair] = Spend(@), ![handler[h].new] = HandOver(@)]
  /\ Reply(h)
  /\ UNCHANGED tables

\* access_revoke and refresh_revoke.
BeginRevoke(h, s, k) ==
  /\ Free(h) /\ Accepted(s, k)
  /\ handler' = [handler EXCEPT ![h] = [Idle EXCEPT !.step = "revoke", !.pair = s, !.kind = k]]
  /\ IF k = "refresh" THEN Race(s) ELSE UNCHANGED pair
  /\ UNCHANGED tables

Revoke(h) ==
  /\ At(h, "revoke")
  /\ pair' = [pair EXCEPT ![handler[h].pair] =
                             IF handler[h].kind = "refresh" THEN Spend(@) ELSE Blacklist(@, "access")]
  /\ Reply(h)
  /\ UNCHANGED tables

-----------------------------------------------------------------------------
(* Administrators, time and faults *)

\* RoleService.remove_role_from_user and delete_role, whose steps are in PermissionCache,
\* as are the grants of further roles.
RemoveRole(u, r) ==
  /\ <<u, r>> \in userRoles
  /\ userRoles' = userRoles \ {<<u, r>>}
  /\ UNCHANGED <<users, pair, handler>>

InUse(s) == \E h \in Handler : s \in {handler[h].pair, handler[h].new}

Expired(s) == pair[s].age = RefreshLife

\* A second passes: tokens age, entries of Redis run out, and a pair whose tokens are both
\* expired is forgotten.
Tick ==
  /\ \E s \in Pair : pair[s] # None /\ ~(Expired(s) /\ InUse(s))
  /\ pair' = [s \in Pair |->
       IF pair[s] = None \/ (pair[s].age >= RefreshLife - 1 /\ ~InUse(s)) THEN None
       ELSE Useful([pair[s] EXCEPT !.age = IF Expired(s) THEN @ ELSE @ + 1,
                                   !.left = [k \in Kind |-> IF @[k] > 0 THEN @[k] - 1 ELSE 0]])]
  /\ UNCHANGED <<tables, handler>>

\* The process dies, or Redis or the database fails, at any time: the client gets no tokens.
Fail(h) ==
  /\ ~Free(h)
  /\ pair' = [s \in Pair |-> IF s = handler[h].new THEN None ELSE pair[s]]
  /\ Reply(h)
  /\ UNCHANGED tables

-----------------------------------------------------------------------------
Next ==
  \/ \E h \in Handler :
       \/ \E u \in User : SignUp(h, u) \/ CreateSuperuser(h, u) \/ Login(h, u) \/ GoogleCallback(h, u)
       \/ AssignRole(h) \/ InsertGoogleUser(h)
       \/ \E s \in Pair : Refresh(h, s)
       \/ \E s \in Pair, k \in Kind : BeginRevoke(h, s, k)
       \/ ReadRoles(h) \/ Issue(h) \/ Rotate(h) \/ Revoke(h) \/ Fail(h)
  \/ \E u \in User, r \in Role : RemoveRole(u, r)
  \/ Tick

Spec == Init /\ [][Next]_vars

\* Time passes; no handler needs to go on.
FairSpec == Spec /\ WF_vars(Tick)

-----------------------------------------------------------------------------
(* Properties *)

TypeOK ==
  /\ users \subseteq User /\ userRoles \subseteq users \X Role
  /\ pair \in [Pair -> PairRecord \cup {None}]
  /\ \A s \in Pair : pair[s] # None =>
       /\ pair[s].user \in users
       /\ \A k \in Kind : pair[s].left[k] \in 0..Life(k)
       /\ ~pair[s].out => \E h \in Handler : handler[h].new = s
  /\ \A h \in Handler : handler[h].user \in users \cup {None} \/ At(h, "insert")
  /\ \A h \in Handler : \A s \in {handler[h].pair, handler[h].new} \ {None} : pair[s] # None

\* A revoked token is refused for as long as its signature is good: the entry outlives the
\* token.  The exception is the second in which an access token expires, which async_api
\* and ugc still accept, when it was revoked within the second it was issued in.
RevokedIsRejected ==
  \A s \in Pair : pair[s] # None =>
    /\ pair[s].since # None => ~Accepted(s, "access")
    /\ pair[s].since # None /\ AcceptedByResource(s) =>
         pair[s].since = 0 /\ pair[s].age = AccessLife
    /\ pair[s].spent > 0 => ~Accepted(s, "refresh")

\* "Rotate tokens" (api/v1/auth.py:110): a refresh token is good for one exchange or one
\* logout, unless two requests were at it at the same time.
SpentOnce == \A s \in Pair : pair[s] # None /\ pair[s].spent > 1 => pair[s].raced

Claims(u, r) ==
  \E s \in Pair : AcceptedByResource(s) /\ pair[s].user = u /\ r \in pair[s].roles

\* A role that an account has lost for good is at some time in no token that async_api and
\* ugc accept, however often the session is refreshed and whatever requests were under way.
LostRolesExpire ==
  \A u \in User, r \in Role : <>[](<<u, r>> \notin userRoles) => <>[]~Claims(u, r)

-----------------------------------------------------------------------------
(* What the code states and does not keep *)

\* "Rotate tokens" (api/v1/auth.py:110): a refresh token is exchanged for one new pair: no
\* two requests, of which nothing but a fault stops either from handing its pair over, have
\* each issued one for it.
ExchangedOnce ==
  \A h, g \in Handler :
    At(h, "rotate") /\ At(g, "rotate") /\ handler[h].pair = handler[g].pair => h = g
=============================================================================
