---------------------------- MODULE SessionsProofs ----------------------------
(***************************************************************************)
(* The safety properties of Sessions, proved for any accounts, roles,      *)
(* handlers, pairs and lifetimes.                                          *)
(*                                                                         *)
(* The argument: what is left of an entry of Redis and the age of the      *)
(* token it is about add up to no less than the token's life, for time     *)
(* takes from the one what it gives to the other.  A refresh token is      *)
(* accepted only when nothing has spent it, so whoever is at one that was  *)
(* spent began beside the request that spent it.                           *)
(***************************************************************************)
EXTENDS Sessions, TLAPS

-----------------------------------------------------------------------------
(* The inductive invariant *)

Step == {"idle", "role", "insert", "roles", "issue", "rotate", "revoke"}

Work == [step : Step, user : User \cup {None}, kind : Kind \cup {None}, role : Role \cup {None},
         pair : Pair \cup {None}, new : Pair \cup {None}, roles : SUBSET Role]

\* The entry about a revoked access token was made with a full life when the token was of
\* age since.
AccessEntry(p) ==
  p.since # None => /\ p.since <= p.age /\ p.age <= AccessLife
                    /\ p.left["access"] + p.age >= AccessLife + p.since

\* The entry about a spent refresh token outlives it.
RefreshEntry(p) == p.spent > 0 => p.left["refresh"] + p.age >= RefreshLife

PairOK(p) ==
  /\ p \in PairRecord
  /\ \A k \in Kind : p.left[k] <= Life(k)
  /\ AccessEntry(p)
  /\ RefreshEntry(p)
  /\ p.spent > 1 => p.raced

\* What a handler's work tells about its account and its pairs: the one it was called with
\* is a client's, the one it made is not.
WorkOK(w) ==
  /\ w.user \in users \cup {None} \/ w.step = "insert"
  /\ w.step \in {"role", "roles", "issue"} => w.user \in users
  /\ w.step = "insert" => w.user \in User
  /\ w.step = "role" => w.role \in Role
  /\ w.step \in {"rotate", "revoke"} => w.pair # None
  /\ w.pair # None => /\ w.step \in {"roles", "issue", "rotate", "revoke"}
                      /\ w.step # "revoke" => w.kind = "refresh"
                      /\ pair[w.pair] # None /\ pair[w.pair].out
  /\ w.step = "rotate" <=> w.new # None
  /\ w.new # None => pair[w.new] # None /\ ~pair[w.new].out

AtRefresh(h, s) == handler[h].pair = s /\ handler[h].kind = "refresh"

\* The refresh token of s is young enough to be accepted.
Young(s) == pair[s] # None /\ pair[s].age < RefreshLife

TablesOK == users \subseteq User /\ userRoles \subseteq users \X Role

PairsOK ==
  /\ pair \in [Pair -> PairRecord \cup {None}]
  /\ \A s \in Pair : pair[s] # None =>
       /\ PairOK(pair[s])
       /\ pair[s].user \in users
       /\ ~pair[s].out => \E h \in Handler : handler[h].new = s

HandlersOK ==
  /\ handler \in [Handler -> Work]
  /\ \A h \in Handler : WorkOK(handler[h])
  /\ \A g, h \in Handler : handler[g].new = handler[h].new /\ handler[h].new # None => g = h

\* Two requests at one refresh token, or one at a token that is spent: there was a race.
RacesKnown ==
  \A s \in Pair : Young(s) =>
    /\ \A g, h \in Handler : AtRefresh(g, s) /\ AtRefresh(h, s) /\ g # h => pair[s].raced
    /\ \A h \in Handler : AtRefresh(h, s) /\ pair[s].spent > 0 => pair[s].raced

SInv == TablesOK /\ PairsOK /\ HandlersOK /\ RacesKnown

-----------------------------------------------------------------------------
(* Pairs *)

LEMMA LifeFacts ==
  /\ AccessLife \in Nat \ {0} /\ RefreshLife \in Nat /\ RefreshLife > AccessLife
  /\ Life("access") = AccessLife /\ Life("refresh") = RefreshLife
  /\ "access" \in Kind /\ "refresh" \in Kind /\ \A k \in Kind : k = "access" \/ k = "refresh"
  /\ \A k \in Kind : Life(k) \in Nat
  BY LifeAssumption DEF Life, Kind

LEMMA NewPairOK ==
  ASSUME NEW u \in User, NEW claims \in SUBSET Role, NEW given \in BOOLEAN
  PROVE  /\ PairOK(NewPair(u, claims, given))
         /\ NewPair(u, claims, given).user = u /\ NewPair(u, claims, given).out = given
         /\ NewPair(u, claims, given).spent = 0
<1> DEFINE p == NewPair(u, claims, given)
<1>1. /\ p = [user |-> u, roles |-> claims, out |-> given, age |-> 0,
              left |-> [k \in Kind |-> 0], since |-> None, spent |-> 0, raced |-> FALSE]
  BY DEF NewPair
<1>2. p \in PairRecord
  BY <1>1, LifeFacts DEF PairRecord
<1>3. \A k \in Kind : p.left[k] <= Life(k)
  BY <1>1, LifeFacts
<1>4. p.since = None /\ p.spent = 0 /\ p.user = u /\ p.out = given
  BY <1>1
<1> HIDE DEF p
<1> QED BY <1>2, <1>3, <1>4 DEF PairOK, AccessEntry, RefreshEntry, p

\* Forgetting what is of no more use leaves a pair in order, and tells nothing less about
\* a young one.
LEMMA UsefulOK ==
  ASSUME NEW p \in PairRecord, \A k \in Kind : p.left[k] <= Life(k),
         p.since # None => /\ p.since <= p.age
                           /\ p.left["access"] + p.age >= AccessLife + p.since,
         RefreshEntry(p),
         p.age < RefreshLife /\ p.spent > 1 => p.raced
  PROVE  /\ PairOK(Useful(p))
         /\ Useful(p).age = p.age /\ Useful(p).user = p.user /\ Useful(p).out = p.out
         /\ p.age < RefreshLife => Useful(p).spent = p.spent /\ Useful(p).raced = p.raced
<1>1. /\ p.user \in User /\ p.roles \in SUBSET Role /\ p.out \in BOOLEAN
      /\ p.age \in 0..RefreshLife /\ p.left \in [Kind -> Nat]
      /\ p.since \in Nat \cup {None} /\ p.spent \in 0..2 /\ p.raced \in BOOLEAN
  BY DEF PairRecord
<1>2. CASE p.age >= RefreshLife
  <2> DEFINE n == NewPair(p.user, {}, p.out)
             q == [n EXCEPT !.age = RefreshLife]
  <2>1. Useful(p) = q /\ p.age = RefreshLife
    BY <1>1, <1>2, LifeFacts DEF Useful
  <2>2. PairOK(n) /\ n.user = p.user /\ n.out = p.out /\ n.spent = 0 /\ n.since = None
    BY <1>1, NewPairOK DEF NewPair
  <2> HIDE DEF n
  <2>3. n \in PairRecord /\ \A k \in Kind : n.left[k] <= Life(k)
    BY <2>2 DEF PairOK
  <2>4. /\ q \in PairRecord /\ q.age = RefreshLife /\ q.user = p.user /\ q.out = p.out
        /\ q.spent = 0 /\ q.since = None /\ q.left = n.left
    BY <2>2, <2>3, LifeFacts DEF PairRecord
  <2> HIDE DEF q
  <2>5. PairOK(q)
    BY <2>3, <2>4 DEF PairOK, AccessEntry, RefreshEntry
  <2> QED BY <2>1, <2>4, <2>5, LifeFacts
<1>3. CASE ~(p.age >= RefreshLife) /\ p.age > AccessLife
  <2> DEFINE q == [p EXCEPT !.left["access"] = 0, !.since = None, !.roles = {}]
  <2>1. Useful(p) = q
    BY <1>3 DEF Useful
  <2>2. /\ q.user = p.user /\ q.out = p.out /\ q.age = p.age /\ q.since = None
        /\ q.spent = p.spent /\ q.raced = p.raced /\ q.roles = {}
        /\ q.left = [p.left EXCEPT !["access"] = 0]
    BY <1>1 DEF PairRecord
  <2>3. q \in PairRecord
    BY <1>1, <2>2 DEF PairRecord
  <2>4. /\ \A k \in Kind : q.left[k] <= Life(k)
        /\ q.left["refresh"] = p.left["refresh"]
    BY <1>1, <2>2, LifeFacts
  <2> HIDE DEF q
  <2>5. PairOK(q)
    BY <1>1, <1>3, <2>2, <2>3, <2>4, LifeFacts DEF PairOK, AccessEntry, RefreshEntry
  <2> QED BY <2>1, <2>2, <2>5
<1>4. CASE ~(p.age >= RefreshLife) /\ ~(p.age > AccessLife)
  <2>1. Useful(p) = p
    BY <1>4 DEF Useful
  <2>2. p.age <= AccessLife /\ p.age < RefreshLife
    BY <1>1, <1>4, LifeFacts
  <2> QED BY <2>1, <2>2 DEF PairOK, AccessEntry
<1> QED BY <1>2, <1>3, <1>4

LEMMA BlacklistOK ==
  ASSUME NEW p, PairOK(p), NEW k \in Kind
  PROVE  LET q == Blacklist(p, k) IN
         /\ PairOK(q)
         /\ q.age = p.age /\ q.user = p.user /\ q.out = p.out
         /\ p.age < RefreshLife => q.spent = p.spent /\ q.raced = p.raced
         /\ p.age < RefreshLife /\ k = "refresh" => q.left["refresh"] = RefreshLife
<1> DEFINE since == IF k = "access" /\ p.since = None THEN p.age ELSE p.since
           n == [p EXCEPT !.left[k] = Ttl(k), !.since = since]
<1>1. Blacklist(p, k) = Useful(n)
  BY DEF Blacklist, PairOK, PairRecord
<1>2. /\ p.age \in 0..RefreshLife /\ p.left \in [Kind -> Nat]
      /\ p.since \in Nat \cup {None} /\ p.spent \in 0..2
  BY DEF PairOK, PairRecord
<1>3. /\ n.user = p.user /\ n.out = p.out /\ n.age = p.age /\ n.spent = p.spent
      /\ n.raced = p.raced /\ n.since = since /\ n.left = [p.left EXCEPT ![k] = Life(k)]
  BY DEF PairOK, PairRecord, Ttl
<1>4. since \in Nat \cup {None} /\ n.left \in [Kind -> Nat]
  BY <1>2, <1>3, LifeFacts
<1>5. n \in PairRecord
  BY <1>4, <1>3 DEF PairOK, PairRecord
<1>6. \A l \in Kind : n.left[l] <= Life(l) /\ n.left[l] >= p.left[l]
  BY <1>2, <1>3, LifeFacts DEF PairOK
<1>7. RefreshEntry(n) /\ (n.spent > 1 => n.raced)
  BY <1>2, <1>3, <1>4, <1>6, LifeFacts DEF PairOK, RefreshEntry
<1>8. n.since # None => n.since <= n.age /\ n.left["access"] + n.age >= AccessLife + n.since
  <2>1. CASE p.since # None
    <3>1. since = p.since
      BY <2>1
    <3> QED BY <1>2, <1>3, <1>4, <1>6, <2>1, <3>1, LifeFacts DEF PairOK, AccessEntry
  <2>2. CASE p.since = None /\ k = "access"
    BY <1>2, <1>3, <2>2, LifeFacts
  <2>3. CASE p.since = None /\ k # "access"
    BY <1>3, <2>3
  <2> QED BY <2>1, <2>2, <2>3
<1>9. p.age < RefreshLife /\ k = "refresh" => Useful(n).left["refresh"] = RefreshLife
  <2> SUFFICES ASSUME p.age < RefreshLife, k = "refresh"
               PROVE Useful(n).left["refresh"] = RefreshLife
    OBVIOUS
  <2>1. n.left["refresh"] = RefreshLife
    BY <1>2, <1>3, LifeFacts
  <2>2. ~(n.age >= RefreshLife)
    BY <1>2, <1>3, LifeFacts
  <2> HIDE DEF n
  <2>3. n.left \in [Kind -> Nat]
    BY <1>5 DEF PairRecord
  <2> QED BY <1>5, <2>1, <2>2, <2>3, LifeFacts DEF Useful, PairRecord
<1> HIDE DEF n
<1> QED BY <1>1, <1>3, <1>5, <1>6, <1>7, <1>8, <1>9, UsefulOK

\* The request that spends a refresh token is the first at it, or there was a race.
LEMMA SpendOK ==
  ASSUME NEW p, PairOK(p), p.age < RefreshLife /\ p.spent > 0 => p.raced
  PROVE  LET q == Spend(p) IN
         /\ PairOK(q)
         /\ q.age = p.age /\ q.user = p.user /\ q.out = p.out
         /\ p.age < RefreshLife => q.raced = p.raced
<1> DEFINE b == Blacklist(p, "refresh")
           n == [b EXCEPT !.spent = IF b.spent = 0 THEN 1 ELSE 2]
<1>1. /\ PairOK(b) /\ b.age = p.age /\ b.user = p.user /\ b.out = p.out
      /\ p.age < RefreshLife => b.spent = p.spent /\ b.raced = p.raced
      /\ p.age < RefreshLife => b.left["refresh"] = RefreshLife
  BY BlacklistOK, LifeFacts
<1> HIDE DEF b
<1>2. Spend(p) = Useful(n)
  BY <1>1 DEF Spend, PairOK, PairRecord, b
<1>3. /\ b \in PairRecord /\ b.age \in 0..RefreshLife /\ b.spent \in 0..2 /\ b.left \in [Kind -> Nat]
  BY <1>1 DEF PairOK, PairRecord
<1>4. /\ n \in PairRecord /\ n.age = b.age /\ n.user = b.user /\ n.out = b.out
      /\ n.raced = b.raced /\ n.left = b.left /\ n.since = b.since
      /\ n.spent = IF b.spent = 0 THEN 1 ELSE 2
  BY <1>3 DEF PairRecord
<1>5. RefreshEntry(n)
  BY <1>1, <1>3, <1>4, LifeFacts DEF RefreshEntry
<1>6. n.age < RefreshLife /\ n.spent > 1 => n.raced
  BY <1>1, <1>3, <1>4
<1>7. n.since # None => n.since <= n.age /\ n.left["access"] + n.age >= AccessLife + n.since
  BY <1>1, <1>4 DEF PairOK, AccessEntry
<1>8. \A k \in Kind : n.left[k] <= Life(k)
  BY <1>1, <1>4 DEF PairOK
<1> HIDE DEF n
<1> QED BY <1>1, <1>2, <1>4, <1>5, <1>6, <1>7, <1>8, UsefulOK

-----------------------------------------------------------------------------
(* Steps *)

\* A handler whose pairs are not taken back keeps what is known of its work.
LEMMA WorkKept ==
  ASSUME HandlersOK, NEW g \in Handler, handler'[g] = handler[g], users \subseteq users',
         \A s \in Pair : s \in {handler[g].pair, handler[g].new} /\ pair[s] # None =>
           pair'[s] # None /\ pair'[s].out = pair[s].out
  PROVE  WorkOK(handler[g])'
<1>1. handler[g] \in Work /\ WorkOK(handler[g])
  BY DEF HandlersOK
<1>2. handler[g].pair \in Pair \cup {None} /\ handler[g].new \in Pair \cup {None}
  BY <1>1 DEF Work
<1> QED BY <1>1, <1>2 DEF WorkOK

\* Only handler h moves, and no other has a pair that it has made.
LEMMA HandlersMove ==
  ASSUME HandlersOK, NEW h \in Handler, NEW w \in Work,
         handler' = [handler EXCEPT ![h] = w],
         users \subseteq users',
         \A g \in Handler \ {h} : \A s \in Pair :
           s \in {handler[g].pair, handler[g].new} /\ pair[s] # None =>
             pair'[s] # None /\ pair'[s].out = pair[s].out,
         \A g \in Handler \ {h} : handler[g].new = w.new => w.new = None,
         handler'[h] = w => WorkOK(handler[h])'
  PROVE  HandlersOK' /\ handler'[h] = w /\ \A g \in Handler \ {h} : handler'[g] = handler[g]
<1>1. handler \in [Handler -> Work]
  BY DEF HandlersOK
<1>2. /\ handler' \in [Handler -> Work] /\ handler'[h] = w
      /\ \A g \in Handler \ {h} : handler'[g] = handler[g]
  BY <1>1
<1>3. \A g \in Handler : WorkOK(handler[g])'
  BY <1>2, WorkKept
<1>4. \A f, g \in Handler : handler'[f].new = handler'[g].new /\ handler'[g].new # None => f = g
  BY <1>2 DEF HandlersOK
<1> QED BY <1>2, <1>3, <1>4 DEF HandlersOK

LEMMA RacesKept ==
  ASSUME RacesKnown,
         \A s \in Pair : Young(s)' =>
           /\ Young(s)
           /\ pair[s].raced => pair'[s].raced
           /\ pair'[s].spent > 0 => pair[s].spent > 0,
         \A g \in Handler : \A s \in Pair : AtRefresh(g, s)' => AtRefresh(g, s)
  PROVE  RacesKnown'
  BY DEF RacesKnown

LEMMA NewOfNone ==
  ASSUME SInv, NEW h \in Handler, handler[h].step # "rotate"
  PROVE  handler[h].new = None
  BY DEF SInv, HandlersOK, WorkOK

LEMMA IdleWork == Idle \in Work /\ Idle.pair = None /\ Idle.new = None
  BY DEF Idle, Work, Step

\* A step of one handler that changes no pair, before it rotates one.
LEMMA QuietStep ==
  ASSUME SInv, NEW h \in Handler, NEW w \in Work,
         handler' = [handler EXCEPT ![h] = w],
         UNCHANGED pair, TablesOK', users \subseteq users',
         handler[h].new = None, w.new = None,
         w.pair # None => w.pair = handler[h].pair /\ w.kind = handler[h].kind,
         handler'[h] = w => WorkOK(handler[h])'
  PROVE  SInv'
<1> USE DEF SInv
<1>1. HandlersOK' /\ handler'[h] = w /\ \A g \in Handler \ {h} : handler'[g] = handler[g]
  BY HandlersMove
<1>2. PairsOK'
  <2>1. \A s \in Pair : \A g \in Handler : handler[g].new = s => handler'[g].new = s
    BY <1>1, NoneAssumption
  <2> QED BY <2>1 DEF PairsOK
<1>3. RacesKnown'
  <2>1. \A g \in Handler : \A s \in Pair : AtRefresh(g, s)' => AtRefresh(g, s)
    BY <1>1, NoneAssumption DEF AtRefresh
  <2> QED BY <2>1, RacesKept DEF Young
<1> QED BY <1>1, <1>2, <1>3

LEMMA TablesInv ==
  ASSUME SInv, NEW h \in Handler,
         \/ \E u \in User : SignUp(h, u) \/ CreateSuperuser(h, u) \/ Login(h, u) \/ GoogleCallback(h, u)
         \/ AssignRole(h) \/ InsertGoogleUser(h) \/ ReadRoles(h)
  PROVE  SInv'
<1> USE DEF SInv
<1>0. handler[h] \in Work /\ WorkOK(handler[h])
  BY DEF HandlersOK
<1>1. handler[h].step # "rotate" /\ UNCHANGED pair
  BY DEF SignUp, CreateSuperuser, Register, Login, GoogleCallback, AssignRole, InsertGoogleUser,
     ReadRoles, Free, At
<1>2. handler[h].new = None
  BY <1>1, NewOfNone
<1>3. ASSUME NEW u \in User, NEW role \in Role, Register(h, u, role)
      PROVE  SInv'
  <2> DEFINE w == [Idle EXCEPT !.step = "role", !.user = u, !.role = role]
  <2>1. /\ w \in Work /\ w.step = "role" /\ w.user = u /\ w.role = role /\ w.pair = None
        /\ w.new = None
    BY DEF Idle, Work, Step
  <2>2. TablesOK' /\ users \subseteq users' /\ u \in users'
    BY <1>3 DEF Register, CreateUser, TablesOK
  <2>3. handler' = [handler EXCEPT ![h] = w]
    BY <1>3 DEF Register
  <2> HIDE DEF w
  <2>4. handler'[h] = w => WorkOK(handler[h])'
    BY <2>1, <2>2 DEF WorkOK
  <2> QED BY <1>1, <1>2, <2>1, <2>2, <2>3, <2>4, QuietStep
<1>4. ASSUME NEW u \in User, Login(h, u) \/ GoogleCallback(h, u)
      PROVE  SInv'
  <2> DEFINE w == [Idle EXCEPT !.step = IF u \in users THEN "roles" ELSE "insert", !.user = u]
  <2>1. /\ w \in Work /\ w.step = (IF u \in users THEN "roles" ELSE "insert") /\ w.user = u
        /\ w.pair = None /\ w.new = None
    BY DEF Idle, Work, Step
  <2>2. TablesOK' /\ users' = users
    BY <1>4 DEF Login, GoogleCallback, tables, TablesOK
  <2>3. handler' = [handler EXCEPT ![h] = w]
    BY <1>4 DEF Login, GoogleCallback
  <2> HIDE DEF w
  <2>4. handler'[h] = w => WorkOK(handler[h])'
    BY <2>1, <2>2 DEF WorkOK
  <2> QED BY <1>1, <1>2, <2>1, <2>2, <2>3, <2>4, QuietStep
<1>5. TablesOK' /\ users \subseteq users' => \/ ~Reply(h) \/ SInv'
  <2> SUFFICES ASSUME TablesOK', users \subseteq users', Reply(h) PROVE SInv'
    OBVIOUS
  <2>1. handler'[h] = Idle => WorkOK(handler[h])'
    BY DEF WorkOK, Idle
  <2> QED BY <1>1, <1>2, <2>1, IdleWork, QuietStep DEF Reply
<1>6. CASE AssignRole(h)
  <2>1. handler[h].user \in users /\ handler[h].role \in Role
    BY <1>0, <1>6 DEF AssignRole, At, WorkOK
  <2>2. TablesOK' /\ users' = users
    BY <1>6, <2>1 DEF AssignRole, TablesOK
  <2> QED BY <1>5, <1>6, <2>2 DEF AssignRole
<1>7. CASE InsertGoogleUser(h)
  <2>1. handler[h].user \in User /\ handler[h].pair = None
    BY <1>0, <1>7 DEF InsertGoogleUser, At, WorkOK
  <2>2. TablesOK' /\ users \subseteq users'
    BY <1>7, <2>1 DEF InsertGoogleUser, CreateUser, TablesOK
  <2>3. CASE CreateUser(handler[h].user) /\ handler' = [handler EXCEPT ![h].step = "roles"]
    <3> DEFINE w == [handler[h] EXCEPT !.step = "roles"]
    <3>1. /\ w \in Work /\ w.step = "roles" /\ w.user = handler[h].user
          /\ w.pair = None /\ w.new = None
      BY <1>0, <1>2, <2>1 DEF Work, Step
    <3>2. handler' = [handler EXCEPT ![h] = w] /\ handler[h].user \in users'
      BY <2>3 DEF CreateUser
    <3> HIDE DEF w
    <3>3. handler'[h] = w => WorkOK(handler[h])'
      BY <3>1, <3>2 DEF WorkOK
    <3> QED BY <1>1, <1>2, <2>2, <3>1, <3>2, <3>3, QuietStep
  <2>4. CASE Reply(h)
    BY <1>5, <2>2, <2>4
  <2> QED BY <1>7, <2>3, <2>4 DEF InsertGoogleUser
<1>8. CASE ReadRoles(h)
  <2> DEFINE w == [handler[h] EXCEPT !.step = "issue", !.roles = RolesOf(handler[h].user)]
  <2>1. /\ w \in Work /\ w.step = "issue" /\ w.user = handler[h].user
        /\ w.pair = handler[h].pair /\ w.kind = handler[h].kind /\ w.new = None
    BY <1>0, <1>2 DEF Work, Step, RolesOf
  <2>2. TablesOK' /\ users' = users /\ handler' = [handler EXCEPT ![h] = w]
    BY <1>8 DEF ReadRoles, tables, TablesOK
  <2> HIDE DEF w
  <2>3. handler'[h] = w => WorkOK(handler[h])'
    BY <1>0, <1>1, <1>8, <2>1, <2>2 DEF WorkOK, ReadRoles, At
  <2> QED BY <1>1, <1>2, <2>1, <2>2, <2>3, QuietStep
<1> QED
  BY <1>3, <1>4, <1>6, <1>7, <1>8, RoleAssumption DEF SignUp, CreateSuperuser

LEMMA RemoveRoleInv ==
  ASSUME SInv, NEW u \in User, NEW r \in Role, RemoveRole(u, r)
  PROVE  SInv'
  BY DEF SInv, RemoveRole, TablesOK, PairsOK, HandlersOK, WorkOK, RacesKnown, Young, AtRefresh

\* What a step that changes pairs has to be shown for.
LEMMA RaceOK ==
  ASSUME PairsOK, NEW s \in Pair, pair[s] # None, Race(s)
  PROVE  /\ pair' \in [Pair -> PairRecord \cup {None}]
         /\ \A t \in Pair : pair[t] # None =>
              /\ pair'[t] # None /\ PairOK(pair'[t])
              /\ pair'[t].user = pair[t].user /\ pair'[t].out = pair[t].out
              /\ pair'[t].age = pair[t].age /\ pair'[t].spent = pair[t].spent
              /\ pair[t].raced => pair'[t].raced
         /\ \A t \in Pair : pair[t] = None => pair'[t] = None
         /\ \A g \in Handler : AtRefresh(g, s) => pair'[s].raced
<1> DEFINE q == [pair[s] EXCEPT !.raced = TRUE]
<1>1. PairOK(pair[s]) /\ pair[s] \in PairRecord
  BY DEF PairsOK, PairOK
<1>2. /\ q \in PairRecord /\ q.user = pair[s].user /\ q.out = pair[s].out /\ q.age = pair[s].age
      /\ q.spent = pair[s].spent /\ q.left = pair[s].left /\ q.since = pair[s].since /\ q.raced
  BY <1>1 DEF PairRecord
<1> HIDE DEF q
<1>3. PairOK(q) /\ q # None
  BY <1>1, <1>2, NoneAssumption DEF PairOK, AccessEntry, RefreshEntry
<1>4. CASE UNCHANGED pair /\ ~\E g \in Handler : AtRefresh(g, s)
  BY <1>4 DEF PairsOK
<1>5. CASE pair' = [pair EXCEPT ![s] = q]
  <2>1. pair' \in [Pair -> PairRecord \cup {None}]
    BY <1>2, <1>5 DEF PairsOK
  <2>2. pair'[s] = q /\ \A t \in Pair \ {s} : pair'[t] = pair[t]
    BY <1>5 DEF PairsOK
  <2>3. \A t \in Pair \ {s} : pair[t] # None => PairOK(pair[t])
    BY DEF PairsOK
  <2> QED BY <1>2, <1>3, <2>1, <2>2, <2>3
<1>6. pair' = [pair EXCEPT ![s].raced = TRUE] => pair' = [pair EXCEPT ![s] = q]
  BY DEF q
<1> QED BY <1>4, <1>5, <1>6 DEF Race, AtRefresh

\* A request begins at an accepted token.
LEMMA BeginInv ==
  ASSUME SInv, NEW h \in Handler, NEW s \in Pair, Refresh(h, s) \/ \E k \in Kind : BeginRevoke(h, s, k)
  PROVE  SInv'
<1> USE DEF SInv
<1>1. handler[h].new = None
  <2>1. handler[h].step # "rotate"
    BY DEF Refresh, BeginRevoke, Free
  <2> QED BY <2>1, NewOfNone
<1>2. PICK k \in Kind :
        /\ Accepted(s, k) /\ UNCHANGED tables
        /\ IF k = "refresh" THEN Race(s) ELSE UNCHANGED pair
        /\ \/ k = "refresh" /\ handler' = [handler EXCEPT ![h] =
                [Idle EXCEPT !.step = "roles", !.user = pair[s].user, !.pair = s, !.kind = "refresh"]]
           \/ handler' = [handler EXCEPT ![h] =
                [Idle EXCEPT !.step = "revoke", !.pair = s, !.kind = k]]
  BY LifeFacts DEF Refresh, BeginRevoke
<1>3. pair[s] # None /\ pair[s].out /\ pair[s].user \in users /\ users \subseteq User
  BY <1>2 DEF Accepted, PairsOK, TablesOK
<1>4. PICK w \in Work :
        /\ handler' = [handler EXCEPT ![h] = w]
        /\ w.pair = s /\ w.new = None /\ w.kind = k
        /\ \/ w.step = "roles" /\ w.user = pair[s].user /\ w.kind = "refresh"
           \/ w.step = "revoke" /\ w.user = None
  <2>1. CASE k = "refresh" /\ handler' = [handler EXCEPT ![h] =
               [Idle EXCEPT !.step = "roles", !.user = pair[s].user, !.pair = s, !.kind = "refresh"]]
    <3> DEFINE w == [Idle EXCEPT !.step = "roles", !.user = pair[s].user, !.pair = s, !.kind = "refresh"]
    <3>1. w \in Work /\ w.pair = s /\ w.new = None /\ w.kind = k /\ w.step = "roles"
          /\ w.user = pair[s].user
      BY <1>3, <2>1 DEF Idle, Work, Step
    <3> QED BY <2>1, <3>1
  <2>2. CASE handler' = [handler EXCEPT ![h] = [Idle EXCEPT !.step = "revoke", !.pair = s, !.kind = k]]
    <3> DEFINE w == [Idle EXCEPT !.step = "revoke", !.pair = s, !.kind = k]
    <3>1. w \in Work /\ w.pair = s /\ w.new = None /\ w.kind = k /\ w.step = "revoke"
          /\ w.user = None
      BY DEF Idle, Work, Step
    <3> QED BY <2>2, <3>1
  <2> QED BY <1>2, <2>1, <2>2
<1>5. UNCHANGED <<users, userRoles>> /\ TablesOK'
  BY <1>2 DEF tables, TablesOK
<1>6. /\ pair' \in [Pair -> PairRecord \cup {None}]
      /\ \A t \in Pair : pair[t] # None =>
           /\ pair'[t] # None /\ PairOK(pair'[t])
           /\ pair'[t].user = pair[t].user /\ pair'[t].out = pair[t].out
           /\ pair'[t].age = pair[t].age /\ pair'[t].spent = pair[t].spent
           /\ pair[t].raced => pair'[t].raced
      /\ \A t \in Pair : pair[t] = None => pair'[t] = None
  <2>1. CASE UNCHANGED pair
    BY <2>1 DEF PairsOK
  <2>2. CASE Race(s)
    BY <1>3, <2>2, RaceOK
  <2> QED BY <1>2, <2>1, <2>2
<1>7. handler'[h] = w => WorkOK(handler[h])'
  BY <1>3, <1>4, <1>5, <1>6, NoneAssumption DEF WorkOK
<1>8. HandlersOK' /\ handler'[h] = w /\ \A g \in Handler \ {h} : handler'[g] = handler[g]
  BY <1>4, <1>5, <1>6, <1>7, HandlersMove
<1>9. PairsOK'
  <2>1. \A t \in Pair : \A g \in Handler : handler[g].new = t => handler'[g].new = t
    BY <1>1, <1>8, NoneAssumption
  <2> QED BY <1>5, <1>6, <2>1 DEF PairsOK
<1>10. RacesKnown'
  <2> SUFFICES ASSUME NEW t \in Pair, Young(t)'
               PROVE  /\ \A f, g \in Handler : AtRefresh(f, t)' /\ AtRefresh(g, t)' /\ f # g => pair'[t].raced
                      /\ \A g \in Handler : AtRefresh(g, t)' /\ pair'[t].spent > 0 => pair'[t].raced
    BY DEF RacesKnown
  <2>1. /\ Young(t)
        /\ pair[t].raced => pair'[t].raced
        /\ pair'[t].spent = pair[t].spent
    BY <1>6 DEF Young
  <2>2. \A g \in Handler \ {h} : AtRefresh(g, t)' => AtRefresh(g, t)
    BY <1>8 DEF AtRefresh
  <2>3. CASE AtRefresh(h, t)'
    <3>1. t = s /\ k = "refresh" /\ Race(s)
      BY <1>2, <1>4, <1>8, <2>3 DEF AtRefresh
    <3>2. \A g \in Handler : AtRefresh(g, s) => pair'[s].raced
      BY <1>3, <3>1, RaceOK
    <3>3. pair[s].spent = 0
      <4>1. pair[s].age < RefreshLife /\ ~(pair[s].left["refresh"] > 0)
        BY <1>2, <3>1, LifeFacts DEF Accepted, Blacklisted
      <4>2. PairOK(pair[s])
        BY <1>3 DEF PairsOK
      <4>3. /\ RefreshEntry(pair[s]) /\ pair[s].age \in 0..RefreshLife /\ pair[s].spent \in 0..2
            /\ pair[s].left["refresh"] \in Nat
        BY <4>2, LifeFacts DEF PairOK, PairRecord
      <4> QED BY <4>1, <4>3, LifeFacts DEF RefreshEntry
    <3> QED BY <2>1, <2>2, <3>1, <3>2, <3>3
  <2>4. CASE ~AtRefresh(h, t)'
    <3>1. \A g \in Handler : AtRefresh(g, t)' => AtRefresh(g, t)
      BY <2>2, <2>4
    <3>2. /\ \A f, g \in Handler : AtRefresh(f, t) /\ AtRefresh(g, t) /\ f # g => pair[t].raced
          /\ \A g \in Handler : AtRefresh(g, t) /\ pair[t].spent > 0 => pair[t].raced
      BY <2>1 DEF RacesKnown
    <3> QED BY <2>1, <3>1, <3>2
  <2> QED BY <2>3, <2>4
<1> QED BY <1>5, <1>8, <1>9, <1>10

LEMMA IssueInv ==
  ASSUME SInv, NEW h \in Handler, Issue(h)
  PROVE  SInv'
<1> USE DEF SInv
<1> DEFINE old == handler[h].pair
           given == old = None
<1>1. /\ handler[h] \in Work /\ WorkOK(handler[h]) /\ handler[h].step = "issue"
      /\ handler[h].user \in users /\ handler[h].roles \in SUBSET Role
      /\ old \in Pair \cup {None} /\ handler[h].new = None
      /\ old # None => handler[h].kind = "refresh" /\ pair[old] # None /\ pair[old].out
  BY DEF Issue, At, HandlersOK, WorkOK, Work
<1>2. PICK s \in Pair :
        /\ pair[s] = None
        /\ pair' = [pair EXCEPT ![s] = NewPair(handler[h].user, handler[h].roles, given)]
        /\ handler' = [handler EXCEPT ![h] =
             IF given THEN Idle ELSE [@ EXCEPT !.step = "rotate", !.new = s, !.roles = {}]]
        /\ UNCHANGED tables
  BY DEF Issue
<1> DEFINE n == NewPair(handler[h].user, handler[h].roles, given)
<1>3. /\ PairOK(n) /\ n \in PairRecord /\ n # None
      /\ n.user = handler[h].user /\ n.out = given /\ n.spent = 0
  <2>1. handler[h].user \in User
    BY <1>1 DEF TablesOK
  <2>2. given \in BOOLEAN
    OBVIOUS
  <2> HIDE DEF given
  <2>3. PairOK(n) /\ n.user = handler[h].user /\ n.out = given /\ n.spent = 0
    BY <1>1, <2>1, <2>2, NewPairOK
  <2> QED BY <2>3, NoneAssumption DEF PairOK
<1> HIDE DEF n
<1>4. UNCHANGED <<users, userRoles>> /\ TablesOK'
  BY <1>2 DEF tables, TablesOK
<1>5. /\ pair' \in [Pair -> PairRecord \cup {None}] /\ pair'[s] = n
      /\ \A t \in Pair \ {s} : pair'[t] = pair[t]
  BY <1>2, <1>3 DEF PairsOK, n
<1>6. PICK w \in Work :
        /\ handler' = [handler EXCEPT ![h] = w]
        /\ given => w = Idle
        /\ ~given => /\ w.step = "rotate" /\ w.new = s /\ w.pair = old
                     /\ w.kind = "refresh" /\ w.user = handler[h].user
  <2>1. CASE given
    BY <1>2, <2>1, IdleWork
  <2>2. CASE ~given
    <3> DEFINE w == [handler[h] EXCEPT !.step = "rotate", !.new = s, !.roles = {}]
    <3>1. handler' = [handler EXCEPT ![h] = w]
      BY <1>2, <2>2
    <3>2. w \in Work /\ w.step = "rotate" /\ w.new = s /\ w.pair = old /\ w.kind = "refresh"
          /\ w.user = handler[h].user
      BY <1>1, <2>2 DEF Work, Step
    <3> HIDE DEF w
    <3> QED BY <2>2, <3>1, <3>2
  <2> QED BY <2>1, <2>2
<1>7. \A g \in Handler : s \notin {handler[g].pair, handler[g].new}
  BY <1>2, NoneAssumption DEF HandlersOK, WorkOK
<1>8. old # s /\ (old # None => old \in Pair /\ pair'[old] # None /\ pair'[old].out)
  BY <1>1, <1>2, <1>5, <1>7
<1> HIDE DEF given, old
<1>9. HandlersOK' /\ handler'[h] = w /\ \A g \in Handler \ {h} : handler'[g] = handler[g]
  <2>1. handler'[h] = w => WorkOK(handler[h])'
    <3> SUFFICES ASSUME handler'[h] = w PROVE WorkOK(handler[h])'
      OBVIOUS
    <3>1. CASE given
      BY <1>6, <3>1 DEF WorkOK, Idle
    <3>2. CASE ~given
      <4>1. old # None /\ n.out = FALSE
        BY <1>3, <3>2 DEF given
      <4>2. /\ w.step = "rotate" /\ w.new = s /\ w.pair = old /\ w.kind = "refresh"
            /\ w.user \in users' /\ pair'[s] # None /\ ~pair'[s].out
        BY <1>1, <1>3, <1>4, <1>5, <1>6, <3>2, <4>1
      <4> QED BY <1>8, <4>1, <4>2, NoneAssumption DEF WorkOK
    <3> QED BY <3>1, <3>2
  <2>2. \A g \in Handler \ {h} : handler[g].new = w.new => w.new = None
    BY <1>6, <1>7, IdleWork
  <2>3. \A g \in Handler \ {h} : \A t \in Pair :
           t \in {handler[g].pair, handler[g].new} /\ pair[t] # None =>
             pair'[t] # None /\ pair'[t].out = pair[t].out
    BY <1>5, <1>7
  <2> QED BY <1>4, <1>6, <2>1, <2>2, <2>3, HandlersMove
<1>10. PairsOK'
  <2>1. ASSUME NEW t \in Pair, t # s, pair[t] # None, ~pair[t].out
        PROVE  \E g \in Handler : handler'[g].new = t
    <3>1. PICK g \in Handler : handler[g].new = t
      BY <2>1 DEF PairsOK
    <3>2. g # h
      BY <1>1, <3>1, NoneAssumption
    <3> QED BY <1>9, <3>1, <3>2
  <2>2. ~n.out => handler'[h].new = s
    BY <1>3, <1>6, <1>9
  <2>3. \A t \in Pair \ {s} : pair'[t] # None => PairOK(pair'[t]) /\ pair'[t].user \in users'
    BY <1>4, <1>5 DEF PairsOK
  <2>4. PairOK(pair'[s]) /\ pair'[s].user \in users' /\ (~pair'[s].out => \E g \in Handler : handler'[g].new = s)
    BY <1>1, <1>3, <1>4, <1>5, <2>2
  <2> QED BY <1>5, <2>1, <2>3, <2>4 DEF PairsOK
<1>11. RacesKnown'
  <2> SUFFICES ASSUME NEW t \in Pair, Young(t)'
               PROVE  /\ \A f, g \in Handler : AtRefresh(f, t)' /\ AtRefresh(g, t)' /\ f # g => pair'[t].raced
                      /\ \A g \in Handler : AtRefresh(g, t)' /\ pair'[t].spent > 0 => pair'[t].raced
    BY DEF RacesKnown
  <2>1. \A g \in Handler : AtRefresh(g, t)' => AtRefresh(g, t)
    <3>1. handler'[h].pair \in {None, old}
      BY <1>6, <1>9, IdleWork
    <3>2. handler[h].pair = old /\ (old # None => handler[h].kind = "refresh")
      BY <1>1 DEF old
    <3> QED BY <1>9, <3>1, <3>2, NoneAssumption DEF AtRefresh
  <2>2. CASE t = s
    BY <1>7, <2>1, <2>2 DEF AtRefresh
  <2>3. CASE t # s
    <3>1. Young(t) /\ pair'[t] = pair[t]
      BY <1>5, <2>3 DEF Young
    <3>2. /\ \A f, g \in Handler : AtRefresh(f, t) /\ AtRefresh(g, t) /\ f # g => pair[t].raced
          /\ \A g \in Handler : AtRefresh(g, t) /\ pair[t].spent > 0 => pair[t].raced
      BY <3>1 DEF RacesKnown
    <3> QED BY <2>1, <3>1, <3>2
  <2> QED BY <2>2, <2>3
<1> QED BY <1>4, <1>9, <1>10, <1>11

LEMMA EndMoves ==
  ASSUME HandlersOK, NEW h \in Handler, Reply(h), users \subseteq users',
         \A g \in Handler \ {h} : \A s \in Pair :
           s \in {handler[g].pair, handler[g].new} /\ pair[s] # None =>
             pair'[s] # None /\ pair'[s].out = pair[s].out
  PROVE  HandlersOK' /\ handler'[h] = Idle /\ \A g \in Handler \ {h} : handler'[g] = handler[g]
<1>1. handler'[h] = Idle => WorkOK(handler[h])'
  BY DEF WorkOK, Idle
<1>2. \A g \in Handler \ {h} : handler[g].new = Idle.new => Idle.new = None
  BY IdleWork
<1> QED BY <1>1, <1>2, IdleWork, HandlersMove DEF Reply

\* The last step of a rotation or of a revocation, which spends the pair it was called with
\* when that was its refresh token, and hands over the new one, if there is one.
LEMMA SpendStep ==
  ASSUME SInv, NEW h \in Handler, NEW s \in Pair, handler[h].pair = s,
         \A t \in Pair \ {s, handler[h].new} : pair'[t] = pair[t],
         pair' \in [Pair -> PairRecord \cup {None}],
         pair'[s] = IF handler[h].kind = "refresh" THEN Spend(pair[s])
                                                    ELSE Blacklist(pair[s], "access"),
         handler[h].new # None => pair'[handler[h].new] = HandOver(pair[handler[h].new]),
         Reply(h), UNCHANGED tables
  PROVE  SInv'
<1> USE DEF SInv
<1> DEFINE n == handler[h].new
<1>1. /\ handler[h] \in Work /\ WorkOK(handler[h]) /\ n \in Pair \cup {None} /\ s # None
      /\ pair[s] # None /\ pair[s].out
  BY NoneAssumption DEF HandlersOK, WorkOK, Work
<1>2. n # None => n \in Pair /\ pair[n] # None /\ ~pair[n].out /\ n # s
  BY <1>1 DEF WorkOK
<1>3. \A t \in Pair : pair[t] # None => PairOK(pair[t]) /\ pair[t] \in PairRecord
  BY DEF PairsOK, PairOK
<1>4. AtRefresh(h, s) /\ pair[s].age < RefreshLife /\ pair[s].spent > 0 => pair[s].raced
  BY <1>1 DEF RacesKnown, Young
<1>5. /\ PairOK(pair'[s]) /\ pair'[s].age = pair[s].age /\ pair'[s].out
      /\ pair'[s].user = pair[s].user
      /\ pair[s].age < RefreshLife => pair'[s].raced = pair[s].raced
      /\ ~AtRefresh(h, s) /\ pair[s].age < RefreshLife => pair'[s].spent = pair[s].spent
  <2>1. CASE handler[h].kind = "refresh"
    <3>1. AtRefresh(h, s)
      BY <2>1 DEF AtRefresh
    <3> QED BY <1>1, <1>3, <1>4, <2>1, <3>1, SpendOK
  <2>2. CASE handler[h].kind # "refresh"
    BY <1>1, <1>3, <2>2, BlacklistOK, LifeFacts
  <2> QED BY <2>1, <2>2
<1>6. n # None => /\ PairOK(pair'[n]) /\ pair'[n].out /\ pair'[n].user = pair[n].user
                  /\ pair'[n].age = pair[n].age /\ pair'[n].raced = pair[n].raced
                  /\ pair'[n].spent = pair[n].spent
  <2> SUFFICES ASSUME n # None
               PROVE  /\ PairOK(HandOver(pair[n])) /\ HandOver(pair[n]).out
                      /\ HandOver(pair[n]).user = pair[n].user
                      /\ HandOver(pair[n]).age = pair[n].age
                      /\ HandOver(pair[n]).raced = pair[n].raced
                      /\ HandOver(pair[n]).spent = pair[n].spent
    OBVIOUS
  <2> DEFINE q == HandOver(pair[n])
  <2>1. PairOK(pair[n]) /\ pair[n] \in PairRecord
    BY <1>2, <1>3
  <2>2. /\ q \in PairRecord /\ q.out /\ q.user = pair[n].user /\ q.age = pair[n].age
        /\ q.raced = pair[n].raced /\ q.spent = pair[n].spent /\ q.left = pair[n].left
        /\ q.since = pair[n].since
    BY <2>1 DEF HandOver, PairRecord
  <2> HIDE DEF q
  <2>3. PairOK(q)
    BY <2>1, <2>2 DEF PairOK, AccessEntry, RefreshEntry
  <2> QED BY <2>2, <2>3 DEF q
<1>7. UNCHANGED <<users, userRoles>> /\ TablesOK'
  BY DEF tables, TablesOK
<1>8. ASSUME NEW t \in Pair, pair[t] # None
      PROVE  /\ pair'[t] # None /\ PairOK(pair'[t]) /\ pair'[t].user = pair[t].user
             /\ pair'[t].age = pair[t].age
             /\ t # n => pair'[t].out = pair[t].out
             /\ t = n => pair'[t].out
             /\ pair[t].age < RefreshLife => /\ pair[t].raced => pair'[t].raced
                                             /\ t # s => pair'[t].spent = pair[t].spent
  <2>0. \A q : PairOK(q) => q # None
    BY NoneAssumption DEF PairOK
  <2>1. CASE t = s
    BY <1>1, <1>2, <1>5, <2>0, <2>1
  <2>2. CASE t = n /\ t # s
    <3>1. n # None
      BY <2>2, NoneAssumption
    <3> QED BY <1>6, <2>0, <2>2, <3>1
  <2>3. CASE t # s /\ t # n
    <3>1. pair'[t] = pair[t]
      BY <2>3
    <3> QED BY <1>3, <1>8, <2>3, <3>1
  <2> QED BY <2>1, <2>2, <2>3
<1>9. ASSUME NEW t \in Pair, pair[t] = None
      PROVE  pair'[t] = None
  <2>1. t # s /\ t # n
    BY <1>1, <1>2, <1>9, NoneAssumption
  <2>2. t \in Pair \ {s, handler[h].new}
    BY <2>1
  <2> QED BY <1>9, <2>2
<1>10. HandlersOK' /\ handler'[h] = Idle /\ \A g \in Handler \ {h} : handler'[g] = handler[g]
  <2>1. \A g \in Handler \ {h} : n \in {handler[g].pair, handler[g].new} => n = None
    BY <1>1, <1>2 DEF HandlersOK, WorkOK
  <2>2. \A g \in Handler \ {h} : \A t \in Pair :
          t \in {handler[g].pair, handler[g].new} /\ pair[t] # None =>
            pair'[t] # None /\ pair'[t].out = pair[t].out
    BY <1>8, <2>1, NoneAssumption
  <2> QED BY <1>7, <2>2, EndMoves
<1>11. PairsOK'
  <2>1. ASSUME NEW t \in Pair, pair[t] # None, ~pair'[t].out
        PROVE  \E g \in Handler : handler'[g].new = t
    <3>1. t # n /\ ~pair[t].out
      BY <1>8, <2>1
    <3>2. PICK g \in Handler : handler[g].new = t
      BY <2>1, <3>1 DEF PairsOK
    <3> QED BY <1>10, <3>1, <3>2
  <2>2. \A t \in Pair : pair'[t] # None => PairOK(pair'[t]) /\ pair'[t].user \in users'
    BY <1>7, <1>8, <1>9 DEF PairsOK
  <2> QED BY <1>9, <2>1, <2>2 DEF PairsOK
<1>12. RacesKnown'
  <2> SUFFICES ASSUME NEW t \in Pair, Young(t)'
               PROVE  /\ \A f, g \in Handler : AtRefresh(f, t)' /\ AtRefresh(g, t)' /\ f # g => pair'[t].raced
                      /\ \A g \in Handler : AtRefresh(g, t)' /\ pair'[t].spent > 0 => pair'[t].raced
    BY DEF RacesKnown
  <2>1. /\ Young(t) /\ pair[t].age < RefreshLife
        /\ (pair[t].raced => pair'[t].raced)
        /\ (t # s => pair'[t].spent = pair[t].spent)
    BY <1>8, <1>9 DEF Young
  <2>2. \A g \in Handler : AtRefresh(g, t)' => AtRefresh(g, t) /\ g # h
    BY <1>10, IdleWork, NoneAssumption DEF AtRefresh
  <2>3. /\ \A f, g \in Handler : AtRefresh(f, t) /\ AtRefresh(g, t) /\ f # g => pair[t].raced
        /\ \A g \in Handler : AtRefresh(g, t) /\ pair[t].spent > 0 => pair[t].raced
    BY <2>1 DEF RacesKnown
  <2>4. ASSUME t = s, NEW g \in Handler, AtRefresh(g, t)', pair'[t].spent > 0
        PROVE  pair'[t].raced
    <3>1. AtRefresh(g, s) /\ g # h
      BY <2>2, <2>4
    <3>2. CASE AtRefresh(h, s)
      BY <2>1, <2>3, <2>4, <3>1, <3>2
    <3>3. CASE ~AtRefresh(h, s)
      BY <1>5, <2>1, <2>3, <2>4, <3>1, <3>3
    <3> QED BY <3>2, <3>3
  <2> QED BY <2>1, <2>2, <2>3, <2>4
<1> QED BY <1>7, <1>10, <1>11, <1>12

LEMMA RotateInv ==
  ASSUME SInv, NEW h \in Handler, Rotate(h)
  PROVE  SInv'
<1> DEFINE s == handler[h].pair
           n == handler[h].new
<1>1. /\ handler[h] \in Work /\ s \in Pair /\ n \in Pair /\ n # None /\ s # n
      /\ handler[h].kind = "refresh" /\ pair[s] # None /\ pair[n] # None
  BY DEF SInv, HandlersOK, WorkOK, Work, Rotate, At
<1>2. /\ pair' = [pair EXCEPT ![s] = Spend(@), ![n] = HandOver(@)]
      /\ Reply(h) /\ UNCHANGED tables
  BY DEF Rotate
<1>3. pair \in [Pair -> PairRecord \cup {None}]
  BY DEF SInv, PairsOK
<1>4. /\ pair'[s] = Spend(pair[s]) /\ pair'[n] = HandOver(pair[n])
      /\ \A t \in Pair \ {s, n} : pair'[t] = pair[t]
  BY <1>1, <1>2, <1>3
<1>5. Spend(pair[s]) \in PairRecord
  <2>1. PairOK(pair[s]) /\ (pair[s].age < RefreshLife /\ pair[s].spent > 0 => pair[s].raced)
    BY <1>1 DEF SInv, PairsOK, RacesKnown, Young, AtRefresh
  <2> QED BY <2>1, SpendOK DEF PairOK
<1>6. HandOver(pair[n]) \in PairRecord
  BY <1>1, <1>3 DEF HandOver, PairRecord
<1>7. pair' \in [Pair -> PairRecord \cup {None}]
  BY <1>1, <1>2, <1>3, <1>5, <1>6
<1> QED BY <1>1, <1>2, <1>4, <1>7, SpendStep

LEMMA RevokeInv ==
  ASSUME SInv, NEW h \in Handler, Revoke(h)
  PROVE  SInv'
<1> DEFINE s == handler[h].pair
           q == IF handler[h].kind = "refresh" THEN Spend(pair[s]) ELSE Blacklist(pair[s], "access")
<1>1. handler[h] \in Work /\ s \in Pair /\ handler[h].new = None /\ pair[s] # None
  BY DEF SInv, HandlersOK, WorkOK, Work, Revoke, At
<1>2. pair' = [pair EXCEPT ![s] = q] /\ Reply(h) /\ UNCHANGED tables
  BY DEF Revoke
<1>3. pair \in [Pair -> PairRecord \cup {None}] /\ PairOK(pair[s])
  BY <1>1 DEF SInv, PairsOK
<1>4. q \in PairRecord
  <2>1. CASE handler[h].kind = "refresh"
    <3>1. pair[s].age < RefreshLife /\ pair[s].spent > 0 => pair[s].raced
      BY <1>1, <2>1 DEF SInv, RacesKnown, Young, AtRefresh
    <3> QED BY <1>3, <2>1, <3>1, SpendOK DEF PairOK
  <2>2. CASE handler[h].kind # "refresh"
    BY <1>3, <2>2, BlacklistOK, LifeFacts DEF PairOK
  <2> QED BY <2>1, <2>2
<1> HIDE DEF q
<1>5. /\ pair' \in [Pair -> PairRecord \cup {None}] /\ pair'[s] = q
      /\ \A t \in Pair \ {s} : pair'[t] = pair[t]
  BY <1>1, <1>2, <1>3, <1>4
<1> QED BY <1>1, <1>2, <1>5, SpendStep DEF q

LEMMA TickInv ==
  ASSUME SInv, Tick
  PROVE  SInv'
<1> USE DEF SInv
<1> DEFINE Older(s) == [pair[s] EXCEPT !.age = IF Expired(s) THEN @ ELSE @ + 1,
                                       !.left = [k \in Kind |-> IF @[k] > 0 THEN @[k] - 1 ELSE 0]]
           Forgotten(s) == pair[s] = None \/ (pair[s].age >= RefreshLife - 1 /\ ~InUse(s))
<1>1. /\ pair' = [s \in Pair |-> IF Forgotten(s) THEN None ELSE Useful(Older(s))]
      /\ UNCHANGED <<users, userRoles, handler>>
  BY DEF Tick, tables
<1>2. ASSUME NEW s \in Pair, ~Forgotten(s)
      PROVE  /\ PairOK(Useful(Older(s)))
             /\ Useful(Older(s)).user = pair[s].user /\ Useful(Older(s)).out = pair[s].out
             /\ Useful(Older(s)).age < RefreshLife =>
                  /\ pair[s].age < RefreshLife
                  /\ Useful(Older(s)).spent = pair[s].spent
                  /\ Useful(Older(s)).raced = pair[s].raced
  <2> DEFINE p == pair[s]
             q == Older(s)
  <2>1. PairOK(p) /\ p \in PairRecord
    BY <1>2 DEF PairsOK, PairOK
  <2>2. /\ p.age \in 0..RefreshLife /\ p.left \in [Kind -> Nat]
        /\ p.since \in Nat \cup {None} /\ p.spent \in 0..2
    BY <2>1 DEF PairRecord
  <2>3. /\ q.user = p.user /\ q.out = p.out /\ q.since = p.since /\ q.spent = p.spent
        /\ q.raced = p.raced /\ q.roles = p.roles
        /\ q.age = IF Expired(s) THEN p.age ELSE p.age + 1
        /\ q.left = [k \in Kind |-> IF p.left[k] > 0 THEN p.left[k] - 1 ELSE 0]
    BY <2>1 DEF PairRecord
  <2>4. q.age \in 0..RefreshLife /\ q.age >= p.age /\ (p.age = RefreshLife \/ q.age = p.age + 1)
    BY <2>2, <2>3, LifeFacts DEF Expired
  <2>5. /\ q.left \in [Kind -> Nat]
        /\ \A k \in Kind : /\ q.left[k] <= p.left[k]
                           /\ q.left[k] + 1 >= p.left[k]
    BY <2>2, <2>3
  <2>6. q \in PairRecord
    BY <2>1, <2>3, <2>4, <2>5 DEF PairRecord
  <2>7. \A k \in Kind : q.left[k] <= Life(k)
    BY <2>1, <2>2, <2>5, LifeFacts DEF PairOK
  <2> HIDE DEF p, q
  <2>8. q.since # None => q.since <= q.age /\ q.left["access"] + q.age >= AccessLife + q.since
    BY <2>1, <2>2, <2>3, <2>4, <2>5, LifeFacts DEF PairOK, AccessEntry
  <2>9. RefreshEntry(q) /\ (q.spent > 1 => q.raced)
    BY <2>1, <2>2, <2>3, <2>4, <2>5, LifeFacts DEF PairOK, RefreshEntry
  <2>10. /\ PairOK(Useful(q)) /\ Useful(q).age = q.age /\ Useful(q).user = q.user
         /\ Useful(q).out = q.out
         /\ q.age < RefreshLife => Useful(q).spent = q.spent /\ Useful(q).raced = q.raced
    BY <2>6, <2>7, <2>8, <2>9, UsefulOK
  <2> HIDE DEF Older
  <2> QED BY <2>2, <2>3, <2>4, <2>10, LifeFacts DEF p, q
<1> HIDE DEF Older
<1>3. ASSUME NEW s \in Pair, pair'[s] # None
      PROVE  /\ pair[s] # None /\ PairOK(pair'[s])
             /\ pair'[s].user = pair[s].user /\ pair'[s].out = pair[s].out
             /\ pair'[s].age < RefreshLife => /\ pair[s].age < RefreshLife
                                              /\ pair'[s].spent = pair[s].spent
                                              /\ pair'[s].raced = pair[s].raced
  BY <1>1, <1>2, <1>3
<1>4. ASSUME NEW s \in Pair, pair[s] # None, InUse(s)
      PROVE  pair'[s] # None /\ pair'[s].out = pair[s].out
  <2>1. pair'[s] = Useful(Older(s)) /\ ~Forgotten(s)
    BY <1>1, <1>4
  <2> QED BY <1>2, <2>1, NoneAssumption DEF PairOK
<1>5. TablesOK'
  BY <1>1 DEF TablesOK
<1>6. PairsOK'
  <2>1. pair' \in [Pair -> PairRecord \cup {None}]
    <3>1. \A s \in Pair : ~Forgotten(s) => Useful(Older(s)) \in PairRecord
      BY <1>2 DEF PairOK
    <3> HIDE DEF Forgotten
    <3> QED BY <1>1, <3>1
  <2> QED BY <1>1, <1>3, <2>1 DEF PairsOK
<1>7. HandlersOK'
  <2>1. ASSUME NEW g \in Handler PROVE WorkOK(handler[g])'
    <3>1. \A s \in Pair : s \in {handler[g].pair, handler[g].new} => InUse(s)
      BY DEF InUse
    <3> QED BY <1>1, <1>4, <3>1, WorkKept
  <2> QED BY <1>1, <2>1 DEF HandlersOK
<1>8. RacesKnown'
  BY <1>1, <1>3, RacesKept DEF Young, AtRefresh
<1> QED BY <1>5, <1>6, <1>7, <1>8

LEMMA FailInv ==
  ASSUME SInv, NEW h \in Handler, Fail(h)
  PROVE  SInv'
<1> USE DEF SInv
<1> DEFINE n == handler[h].new
<1>1. /\ pair' = [s \in Pair |-> IF s = n THEN None ELSE pair[s]]
      /\ Reply(h) /\ UNCHANGED <<users, userRoles>>
  BY DEF Fail, tables
<1>2. \A g \in Handler \ {h} : \A s \in Pair :
        s \in {handler[g].pair, handler[g].new} /\ pair[s] # None => s # n
  BY NoneAssumption DEF HandlersOK, WorkOK
<1>3. TablesOK'
  BY <1>1 DEF TablesOK
<1>4. HandlersOK' /\ handler'[h] = Idle /\ \A g \in Handler \ {h} : handler'[g] = handler[g]
  BY <1>1, <1>2, EndMoves
<1>5. PairsOK'
  <2>1. pair' \in [Pair -> PairRecord \cup {None}]
    BY <1>1 DEF PairsOK
  <2>2. ASSUME NEW s \in Pair, pair'[s] # None
        PROVE  s # n /\ pair'[s] = pair[s]
    BY <1>1, <2>2
  <2>3. ASSUME NEW s \in Pair, pair'[s] # None, ~pair'[s].out
        PROVE  \E g \in Handler : handler'[g].new = s
    <3>1. PICK g \in Handler : handler[g].new = s
      BY <2>2, <2>3 DEF PairsOK
    <3>2. g # h
      BY <2>2, <2>3, <3>1
    <3> QED BY <1>4, <3>1, <3>2
  <2> QED BY <1>1, <2>1, <2>2, <2>3 DEF PairsOK
<1>6. RacesKnown'
  <2>1. \A g \in Handler : \A s \in Pair : AtRefresh(g, s)' => AtRefresh(g, s)
    BY <1>4, IdleWork, NoneAssumption DEF AtRefresh
  <2>2. \A s \in Pair : Young(s)' => Young(s) /\ pair'[s] = pair[s]
    BY <1>1 DEF Young
  <2> QED BY <2>1, <2>2, RacesKept
<1> QED BY <1>3, <1>4, <1>5, <1>6

-----------------------------------------------------------------------------
(* Theorems *)

LEMMA InitInv == Init => SInv
<1> SUFFICES ASSUME Init PROVE SInv
  OBVIOUS
<1>1. \A h \in Handler : handler[h] = Idle
  BY DEF Init
<1>2. \A s \in Pair : pair[s] = None
  BY DEF Init
<1>3. HandlersOK
  <2>1. handler \in [Handler -> Work]
    BY IdleWork DEF Init
  <2>2. WorkOK(Idle)
    BY DEF WorkOK, Idle
  <2> QED BY <1>1, <2>1, <2>2, IdleWork DEF HandlersOK
<1>4. TablesOK /\ PairsOK /\ RacesKnown
  BY <1>2 DEF Init, TablesOK, PairsOK, RacesKnown, Young
<1> QED BY <1>3, <1>4 DEF SInv

LEMMA NextInv == SInv /\ [Next]_vars => SInv'
<1> SUFFICES ASSUME SInv, [Next]_vars PROVE SInv'
  OBVIOUS
<1>1. CASE UNCHANGED vars
  BY <1>1 DEF vars, tables, SInv, TablesOK, PairsOK, HandlersOK, WorkOK, RacesKnown, Young, AtRefresh
<1>2. ASSUME NEW h \in Handler,
             \/ \E u \in User : SignUp(h, u) \/ CreateSuperuser(h, u) \/ Login(h, u) \/ GoogleCallback(h, u)
             \/ AssignRole(h) \/ InsertGoogleUser(h) \/ ReadRoles(h)
      PROVE  SInv'
  BY <1>2, TablesInv
<1>3. ASSUME NEW h \in Handler, NEW s \in Pair, Refresh(h, s) \/ \E k \in Kind : BeginRevoke(h, s, k)
      PROVE  SInv'
  BY <1>3, BeginInv
<1>4. ASSUME NEW h \in Handler, Issue(h) \/ Rotate(h) \/ Revoke(h) \/ Fail(h)
      PROVE  SInv'
  BY <1>4, IssueInv, RotateInv, RevokeInv, FailInv
<1>5. ASSUME NEW u \in User, NEW r \in Role, RemoveRole(u, r) PROVE SInv'
  BY <1>5, RemoveRoleInv
<1>6. CASE Tick
  BY <1>6, TickInv
<1> QED BY <1>1, <1>2, <1>3, <1>4, <1>5, <1>6 DEF Next

LEMMA Invariance == Spec => []SInv
  BY InitInv, NextInv, PTL DEF Spec

\* The tables, the pairs of tokens and the handlers' work keep their shapes, and no account
\* or pair that a handler works on is gone.
THEOREM TypeCorrect == Spec => []TypeOK
<1>1. SInv => TypeOK
  <2> SUFFICES ASSUME SInv PROVE TypeOK
    OBVIOUS
  <2>1. \A s \in Pair : pair[s] # None =>
       /\ pair[s].user \in users
       /\ \A k \in Kind : pair[s].left[k] \in 0..Life(k)
       /\ ~pair[s].out => \E h \in Handler : handler[h].new = s
    BY LifeFacts DEF SInv, PairsOK, PairOK, PairRecord
  <2>2. \A h \in Handler : handler[h].user \in users \cup {None} \/ At(h, "insert")
    BY DEF SInv, HandlersOK, WorkOK, At
  <2>3. \A h \in Handler : \A s \in {handler[h].pair, handler[h].new} \ {None} : pair[s] # None
    BY DEF SInv, HandlersOK, WorkOK
  <2> QED BY <2>1, <2>2, <2>3 DEF SInv, TablesOK, PairsOK, TypeOK
<1> QED BY <1>1, Invariance, PTL

\* A revoked token is refused for as long as its signature is good, whatever the lifetimes
\* of the tokens, but for the one second in which async_api and ugc still take an access
\* token that was revoked within the second it was issued in.
THEOREM RevokedRefused == Spec => []RevokedIsRejected
<1>1. SInv => RevokedIsRejected
  <2> SUFFICES ASSUME SInv, NEW s \in Pair, pair[s] # None
               PROVE  /\ pair[s].since # None => ~Accepted(s, "access")
                      /\ pair[s].since # None /\ AcceptedByResource(s) =>
                           pair[s].since = 0 /\ pair[s].age = AccessLife
                      /\ pair[s].spent > 0 => ~Accepted(s, "refresh")
    BY DEF RevokedIsRejected
  <2>1. /\ AccessEntry(pair[s]) /\ RefreshEntry(pair[s])
        /\ pair[s].age \in Nat /\ pair[s].left["access"] \in Nat /\ pair[s].left["refresh"] \in Nat
        /\ pair[s].since \in Nat \cup {None}
    BY LifeFacts DEF SInv, PairsOK, PairOK, PairRecord
  <2> QED BY <2>1, LifeFacts
             DEF AccessEntry, RefreshEntry, Accepted, AcceptedByResource, Denied, Blacklisted
<1> QED BY <1>1, Invariance, PTL

\* A refresh token ends in one request, unless two were at it at the same time.
THEOREM RefreshSpentOnce == Spec => []SpentOnce
<1>1. SInv => SpentOnce
  BY DEF SInv, PairsOK, PairOK, SpentOnce
<1> QED BY <1>1, Invariance, PTL
=============================================================================
