------------------------- MODULE PermissionCacheProofs -------------------------
(***************************************************************************)
(* The safety properties of PermissionCache, proved for any users, roles,  *)
(* permissions, requests, checks and faults.                               *)
(*                                                                         *)
(* The argument: a commit makes wrong only the entries of users whom the   *)
(* same request goes on to invalidate.  For the deletion of a role, whose  *)
(* users are read before it, these are the ones read and the ones who were *)
(* given the role since.                                                   *)
(***************************************************************************)
EXTENDS PermissionCache, TLAPS

-----------------------------------------------------------------------------
(* The inductive invariant *)

Op == {"", "assign", "remove", "grant", "revoke", "delete"}

ChangeRecord ==
  [step : {"new", "write", "users", "invalidate", "done"}, op : Op,
   row : {<<>>} \cup (User \X Role) \cup (Role \X Permission) \cup {<<r>> : r \in Role},
   users : SUBSET User, missed : SUBSET User]

\* What a request that is about to commit, or has just done so, knows of its users.
ChangeOK(w) ==
  LET row == change[w].row
      users == change[w].users IN
  /\ change[w].step = "invalidate" => users # {}
  /\ change[w].step = "write" => change[w].op # ""
  /\ change[w].step = "users" => change[w].op \in {"grant", "revoke"}
  /\ change[w].step = "write" /\ change[w].op \in {"assign", "remove"} =>
       \E u \in User, r \in Role : row = <<u, r>> /\ users = {u}
  /\ change[w].step \in {"write", "users"} /\ change[w].op \in {"grant", "revoke"} =>
       \E r \in Role, p \in Permission : row = <<r, p>> /\ users = {}
  /\ Writing(w, "delete") =>
       \E r \in Role : row = <<r>> /\ UsersOf(r) \subseteq users \cup change[w].missed

TablesOK ==
  /\ roles \subseteq Role \ dropped /\ dropped \subseteq Role
  /\ userRoles \subseteq User \X roles
  /\ rolePermissions \subseteq roles \X Permission

ChecksOK == check \in [Check -> [step : {"idle", "query", "fill"}, user : User, found : SUBSET Permission]]

ChangesOK == change \in [Change -> ChangeRecord] /\ \A w \in Change : ChangeOK(w)

CacheOK == cache \in [User -> {None} \cup [permissions : SUBSET Permission, aged : BOOLEAN]]

HistoryOK == excused \subseteq User /\ faults \in 0..MaxFaults

PInv == TablesOK /\ CacheOK /\ ChecksOK /\ ChangesOK /\ HistoryOK /\ StaleIsExplained

-----------------------------------------------------------------------------
(* Steps that change no table *)

LEMMA EffectiveSame ==
  ASSUME UNCHANGED <<userRoles, rolePermissions>>
  PROVE  /\ \A u : Effective(u)' = Effective(u)
         /\ \A r : UsersOf(r)' = UsersOf(r)
  BY DEF Effective, UsersOf

\* An entry that nothing happens to stays explained while its user's permissions do not
\* change and who was going to invalidate it still is.
LEMMA StaleKept ==
  ASSUME StaleIsExplained,
         \A u \in User : u \notin excused' =>
           \/ cache'[u] = None \/ cache'[u].permissions = Effective(u)' \/ Pending(u)'
           \/ /\ u \notin excused
              /\ cache'[u] = None \/ cache'[u].permissions = cache[u].permissions
              /\ cache[u] = None => cache'[u] = None
              /\ Effective(u)' = Effective(u)
              /\ Pending(u) => Pending(u)'
  PROVE  StaleIsExplained'
  BY DEF StaleIsExplained

LEMMA ChangeMoves ==
  ASSUME ChangesOK, NEW w \in Change, NEW x \in ChangeRecord,
         change' = [change EXCEPT ![w] = x],
         \A r \in Role : UsersOf(r)' \subseteq UsersOf(r),
         change'[w] = x => ChangeOK(w)'
  PROVE  ChangesOK' /\ change'[w] = x /\ \A v \in Change \ {w} : change'[v] = change[v]
<1>1. /\ change' \in [Change -> ChangeRecord] /\ change'[w] = x
      /\ \A v \in Change \ {w} : change'[v] = change[v]
  BY DEF ChangesOK
<1>2. ASSUME NEW v \in Change \ {w} PROVE ChangeOK(v)'
  <2>1. change'[v] = change[v] /\ ChangeOK(v)
    BY <1>1 DEF ChangesOK
  <2>2. Writing(v, "delete")' => Writing(v, "delete")
    BY <2>1 DEF Writing
  <2> QED BY <2>1, <2>2 DEF ChangeOK
<1> QED BY <1>1, <1>2 DEF ChangesOK

\* A step of a request that leaves the rows of users and permissions and the cache alone.
LEMMA QuietChange ==
  ASSUME PInv, NEW w \in Change, NEW x \in ChangeRecord,
         change' = [change EXCEPT ![w] = x],
         UNCHANGED <<userRoles, rolePermissions, cache, check>>,
         TablesOK', HistoryOK', excused \subseteq excused',
         \A u \in ToInvalidate(w) : u \in ToInvalidate(w)' \/ u \in excused',
         change'[w] = x => ChangeOK(w)'
  PROVE  PInv'
<1> USE DEF PInv
<1>1. ChangesOK' /\ change'[w] = x /\ \A v \in Change \ {w} : change'[v] = change[v]
  BY EffectiveSame, ChangeMoves
<1>2. \A v \in Change \ {w} : ToInvalidate(v)' = ToInvalidate(v)
  BY <1>1, EffectiveSame DEF ToInvalidate
<1>3. \A u \in User \ excused' : Pending(u) => Pending(u)'
  BY <1>2 DEF Pending
<1>4. StaleIsExplained'
  BY <1>3, EffectiveSame, StaleKept
<1> QED BY <1>1, <1>4 DEF CacheOK, ChecksOK

LEMMA DoneOK ==
  ASSUME NEW w \in Change
  PROVE  /\ Done \in ChangeRecord /\ Done.step = "done"
         /\ change'[w] = Done => ChangeOK(w)'
         /\ NewChange \in ChangeRecord /\ NewChange.step = "new"
<1>1. NewChange \in ChangeRecord /\ NewChange.step = "new"
  BY DEF NewChange, ChangeRecord, Op
<1>2. Done \in ChangeRecord /\ Done.step = "done"
  BY <1>1 DEF Done, ChangeRecord
<1> HIDE DEF Done
<1> QED BY <1>1, <1>2 DEF ChangeOK, Writing

LEMMA BeginKnows ==
  ASSUME PInv, NEW w \in Change, NEW r \in Role,
         NEW op \in Op, NEW row, NEW us \in SUBSET User,
         Begin(w, op, row, us),
         \/ op \in {"assign", "remove"} /\ \E u \in User : row = <<u, r>> /\ us = {u}
         \/ op \in {"grant", "revoke"} /\ us = {} /\ \E p \in Permission : row = <<r, p>>
         \/ op = "delete" /\ row = <<r>> /\ us = UsersOf(r)
  PROVE  PInv'
<1> USE DEF PInv
<1> DEFINE x == [NewChange EXCEPT !.step = "write", !.op = op, !.row = row, !.users = us]
<1>2. row \in {<<>>} \cup (User \X Role) \cup (Role \X Permission) \cup {<<s>> : s \in Role}
  OBVIOUS
<1>3. /\ x \in ChangeRecord /\ x.step = "write" /\ x.op = op /\ x.row = row /\ x.users = us
  BY <1>2, DoneOK DEF ChangeRecord
<1>4. /\ change[w].step = "new" /\ change' = [change EXCEPT ![w] = x]
      /\ UNCHANGED <<roles, dropped, userRoles, rolePermissions, cache, check, excused, faults>>
  BY DEF Begin, tables
<1> HIDE DEF x
<1>5. change'[w] = x => ChangeOK(w)'
  <2> SUFFICES ASSUME change'[w] = x PROVE ChangeOK(w)'
    OBVIOUS
  <2>1. UsersOf(r)' = UsersOf(r)
    BY <1>4, EffectiveSame
  <2>2. CASE op \in {"assign", "remove"} /\ \E u \in User : row = <<u, r>> /\ us = {u}
    BY <1>3, <2>2 DEF ChangeOK, Writing
  <2>3. CASE op \in {"grant", "revoke"} /\ us = {} /\ \E p \in Permission : row = <<r, p>>
    BY <1>3, <2>3 DEF ChangeOK, Writing
  <2>4. CASE op = "delete" /\ row = <<r>> /\ us = UsersOf(r)
    BY <1>3, <2>1, <2>4 DEF ChangeOK, Writing
  <2> QED BY <2>2, <2>3, <2>4
<1>6. ToInvalidate(w) = {}
  BY <1>4 DEF ToInvalidate
<1> QED BY <1>3, <1>4, <1>5, <1>6, QuietChange DEF TablesOK, HistoryOK

LEMMA BeginInv ==
  ASSUME PInv, NEW w \in Change, NEW r \in Role,
         \/ \E u \in User : BeginAssign(w, u, r) \/ BeginRemove(w, u, r)
         \/ \E p \in Permission : BeginGrant(w, r, p) \/ BeginRevoke(w, r, p)
         \/ BeginDelete(w, r)
  PROVE  PInv'
<1>1. ASSUME NEW u \in User, BeginAssign(w, u, r) \/ BeginRemove(w, u, r)
      PROVE  PInv'
  <2>1. \/ Begin(w, "assign", <<u, r>>, {u})
        \/ Begin(w, "remove", <<u, r>>, {u})
    BY <1>1 DEF BeginAssign, BeginRemove
  <2> QED BY <2>1, BeginKnows DEF Op
<1>2. ASSUME NEW p \in Permission, BeginGrant(w, r, p) \/ BeginRevoke(w, r, p)
      PROVE  PInv'
  <2>1. \/ Begin(w, "grant", <<r, p>>, {})
        \/ Begin(w, "revoke", <<r, p>>, {})
    BY <1>2 DEF BeginGrant, BeginRevoke
  <2> QED BY <2>1, BeginKnows DEF Op
<1>3. CASE BeginDelete(w, r)
  <2>1. Begin(w, "delete", <<r>>, UsersOf(r)) /\ UsersOf(r) \in SUBSET User
    BY <1>3 DEF BeginDelete, Affected, UsersOf
  <2> QED BY <2>1, BeginKnows DEF Op
<1> QED BY <1>1, <1>2, <1>3

LEMMA EndInv ==
  ASSUME PInv, NEW w \in Change,
         (\E r \in Role : CreateRole(w, r)) \/ Refuse(w) \/ Crash(w)
  PROVE  PInv'
<1> USE DEF PInv
<1>1. ToInvalidate(w) \subseteq User
  BY DEF ToInvalidate, UsersOf, ChangesOK, ChangeRecord
<1>2. ASSUME NEW r \in Role, CreateRole(w, r)
      PROVE  PInv'
  <2>1. /\ change' = [change EXCEPT ![w] = Done]
        /\ UNCHANGED <<userRoles, rolePermissions, cache, check, excused, faults>>
        /\ TablesOK' /\ ToInvalidate(w) = {}
    BY <1>2 DEF CreateRole, TablesOK, ToInvalidate
  <2> QED BY <2>1, DoneOK, QuietChange DEF HistoryOK
<1>3. CASE Refuse(w)
  <2>1. /\ change' = [change EXCEPT ![w] = Done]
        /\ UNCHANGED <<roles, dropped, userRoles, rolePermissions, cache, check, excused, faults>>
        /\ ToInvalidate(w) = {}
    BY <1>3 DEF Refuse, tables, ToInvalidate
  <2> QED BY <2>1, DoneOK, QuietChange DEF HistoryOK, TablesOK
<1>4. CASE Crash(w)
  <2>1. /\ change' = [change EXCEPT ![w] = Done]
        /\ UNCHANGED <<roles, dropped, userRoles, rolePermissions, cache, check>>
        /\ excused' = excused \cup ToInvalidate(w)
        /\ faults < MaxFaults /\ faults' = faults + 1
    BY <1>4 DEF Crash, tables, Fault
  <2>2. HistoryOK'
    BY <1>1, <2>1, FaultsAssumption DEF HistoryOK
  <2> QED BY <2>1, <2>2, DoneOK, QuietChange DEF TablesOK
<1> QED BY <1>2, <1>3, <1>4

LEMMA ReadUsersInv ==
  ASSUME PInv, NEW w \in Change, ReadUsers(w)
  PROVE  PInv'
<1> USE DEF PInv
<1> DEFINE us == UsersOf(change[w].row[1])
           x == IF us = {} THEN Done ELSE [change[w] EXCEPT !.step = "invalidate", !.users = us]
<1>1. /\ change' = [change EXCEPT ![w] = x] /\ change[w].step = "users"
      /\ UNCHANGED <<roles, dropped, userRoles, rolePermissions, cache, check, excused, faults>>
  BY DEF ReadUsers, tables
<1>2. us \subseteq User /\ change[w] \in ChangeRecord
  BY DEF UsersOf, ChangesOK
<1> HIDE DEF us
<1>3. /\ x \in ChangeRecord
      /\ us = {} => x = Done
      /\ us # {} => x.step = "invalidate" /\ x.users = us
  BY <1>2, DoneOK DEF ChangeRecord
<1> HIDE DEF x
<1>4. change'[w] = x => ChangeOK(w)'
  <2>1. CASE us = {}
    BY <1>3, <2>1, DoneOK
  <2>2. CASE us # {}
    BY <1>3, <2>2 DEF ChangeOK, Writing
  <2> QED BY <2>1, <2>2
<1>5. change'[w] = x
  BY <1>1 DEF ChangesOK
<1>6. ToInvalidate(w) = us
  BY <1>1 DEF ToInvalidate, us
<1>7. ToInvalidate(w)' = us
  BY <1>3, <1>5, DoneOK DEF ToInvalidate
<1> QED BY <1>1, <1>3, <1>4, <1>6, <1>7, QuietChange DEF TablesOK, HistoryOK

-----------------------------------------------------------------------------
(* The commits *)

\* A commit makes wrong only the entries of users it invalidates or has excused.
LEMMA CommitExplained ==
  ASSUME PInv, UNCHANGED <<cache, check>>, TablesOK', ChangesOK', HistoryOK',
         excused \subseteq excused',
         \A u \in User \ excused' :
           Pending(u)' \/ (Effective(u)' = Effective(u) /\ (Pending(u) => Pending(u)'))
  PROVE  PInv'
<1>1. StaleIsExplained'
  BY StaleKept DEF PInv
<1> QED BY <1>1 DEF PInv, CacheOK, ChecksOK

LEMMA InvalidatingOK ==
  ASSUME NEW w \in Change, change[w] \in ChangeRecord
  PROVE  /\ Invalidating(w) \in ChangeRecord
         /\ Invalidating(w).step = IF change[w].users = {} THEN "done" ELSE "invalidate"
         /\ change[w].users # {} => Invalidating(w).users = change[w].users
         /\ change'[w] = Invalidating(w) =>
              /\ ChangeOK(w)'
              /\ ToInvalidate(w)' = change[w].users
<1> DEFINE x == [change[w] EXCEPT !.step = "invalidate", !.missed = {}]
<1>1. x \in ChangeRecord /\ x.step = "invalidate" /\ x.users = change[w].users
  BY DEF ChangeRecord
<1> HIDE DEF x
<1>2. Invalidating(w) = IF change[w].users = {} THEN Done ELSE x
  BY DEF Invalidating, x
<1>3. CASE change[w].users = {}
  BY <1>2, <1>3, DoneOK DEF ToInvalidate
<1>4. CASE change[w].users # {}
  BY <1>1, <1>2, <1>4 DEF ToInvalidate, ChangeOK, Writing
<1> QED BY <1>3, <1>4

LEMMA RemoveInv ==
  ASSUME PInv, NEW w \in Change, CommitRemove(w)
  PROVE  PInv'
<1> USE DEF PInv
<1>1. PICK u \in User, r \in Role : change[w].row = <<u, r>> /\ change[w].users = {u}
  BY DEF CommitRemove, Writing, ChangesOK, ChangeOK
<1>2. /\ change[w].step = "write" /\ userRoles' = userRoles \ {<<u, r>>}
      /\ change' = [change EXCEPT ![w] = Invalidating(w)]
      /\ UNCHANGED <<roles, dropped, rolePermissions, cache, check, excused, faults>>
  BY <1>1 DEF CommitRemove, Writing
<1>3. \A s : UsersOf(s)' \subseteq UsersOf(s) /\ UsersOf(s) \ {u} \subseteq UsersOf(s)'
  BY <1>2 DEF UsersOf
<1>4. \A v \in User \ {u} : Effective(v)' = Effective(v)
  BY <1>2 DEF Effective
<1>5. change[w] \in ChangeRecord
  BY DEF ChangesOK
<1>6. ChangesOK' /\ change'[w] = Invalidating(w) /\ \A v \in Change \ {w} : change'[v] = change[v]
  BY <1>2, <1>3, <1>5, InvalidatingOK, ChangeMoves
<1>7. ToInvalidate(w)' = {u} /\ ToInvalidate(w) = {}
  BY <1>1, <1>2, <1>5, <1>6, InvalidatingOK DEF ToInvalidate
<1>8. \A v \in Change \ {w} : ToInvalidate(v) \ {u} \subseteq ToInvalidate(v)'
  BY <1>3, <1>6 DEF ToInvalidate
<1>9. \A x \in User : x = u => Pending(x)'
  BY <1>7 DEF Pending
<1>10. \A x \in User \ {u} : Pending(x) => Pending(x)'
  BY <1>7, <1>8 DEF Pending
<1>11. TablesOK' /\ HistoryOK'
  BY <1>2 DEF TablesOK, HistoryOK
<1> QED BY <1>2, <1>4, <1>6, <1>9, <1>10, <1>11, CommitExplained

LEMMA GrantRevokeInv ==
  ASSUME PInv, NEW w \in Change, CommitGrant(w) \/ CommitRevoke(w)
  PROVE  PInv'
<1> USE DEF PInv
<1>1. PICK r \in Role, p \in Permission : change[w].row = <<r, p>> /\ change[w].users = {}
  BY DEF CommitGrant, CommitRevoke, Writing, ChangesOK, ChangeOK
<1> DEFINE x == [change[w] EXCEPT !.step = "users"]
<1> HIDE DEF PInv
<1>2. /\ change[w].step = "write" /\ change[w].op \in {"grant", "revoke"}
      /\ \/ r \in roles /\ rolePermissions' = rolePermissions \cup {<<r, p>>}
         \/ rolePermissions' = rolePermissions \ {<<r, p>>}
      /\ change' = [change EXCEPT ![w] = x]
      /\ UNCHANGED <<roles, dropped, userRoles, cache, check, excused, faults>>
  <2>1. CASE CommitGrant(w)
    BY <1>1, <2>1 DEF CommitGrant, Writing, Refused
  <2>2. CASE CommitRevoke(w)
    BY <1>1, <2>2 DEF CommitRevoke, Writing
  <2> QED BY <2>1, <2>2
<1> USE DEF PInv
<1>3. \A s : UsersOf(s)' = UsersOf(s)
  BY <1>2 DEF UsersOf
<1>4. \A v \in User \ UsersOf(r) : Effective(v)' = Effective(v)
  <2> SUFFICES ASSUME NEW v \in User \ UsersOf(r), NEW q \in Permission, NEW s \in Role,
                      <<v, s>> \in userRoles
               PROVE  <<s, q>> \in rolePermissions' <=> <<s, q>> \in rolePermissions
    BY <1>2 DEF Effective
  <2>1. s # r
    BY DEF UsersOf
  <2> QED BY <1>2, <2>1
<1>5. change[w] \in ChangeRecord
  BY DEF ChangesOK
<1>6. /\ x \in ChangeRecord /\ x.step = "users" /\ x.op = change[w].op
      /\ x.row = <<r, p>> /\ x.users = {}
  BY <1>1, <1>5 DEF ChangeRecord
<1> HIDE DEF x
<1>7. ASSUME change'[w] = x PROVE ChangeOK(w)'
  BY <1>2, <1>6, <1>7 DEF ChangeOK, Writing
<1>8. ChangesOK' /\ change'[w] = x /\ \A v \in Change \ {w} : change'[v] = change[v]
  BY <1>2, <1>3, <1>6, <1>7, ChangeMoves
<1>9. ToInvalidate(w)' = UsersOf(r) /\ ToInvalidate(w) = {}
  BY <1>2, <1>3, <1>6, <1>8 DEF ToInvalidate
<1>10. \A v \in Change \ {w} : ToInvalidate(v) = ToInvalidate(v)'
  BY <1>3, <1>8 DEF ToInvalidate
<1>11. \A v \in UsersOf(r) : Pending(v)'
  BY <1>9 DEF Pending
<1>12. \A v \in User : Pending(v) => Pending(v)'
  BY <1>9, <1>10 DEF Pending
<1>13. TablesOK' /\ HistoryOK'
  BY <1>2 DEF TablesOK, HistoryOK
<1> QED BY <1>2, <1>4, <1>8, <1>11, <1>12, <1>13, CommitExplained

LEMMA DeleteInv ==
  ASSUME PInv, NEW w \in Change, CommitDelete(w)
  PROVE  PInv'
<1> USE DEF PInv
<1>1. PICK r \in Role : change[w].row = <<r>> /\ UsersOf(r) \subseteq change[w].users \cup change[w].missed
  BY DEF CommitDelete, ChangesOK, ChangeOK
<1>2. /\ change[w].step = "write" /\ r \in roles
      /\ roles' = roles \ {r} /\ dropped' = dropped \cup {r}
      /\ userRoles' = {x \in userRoles : x[2] # r}
      /\ rolePermissions' = {x \in rolePermissions : x[1] # r}
      /\ change' = [change EXCEPT ![w] = Invalidating(w)]
      /\ excused' = excused \cup change[w].missed
      /\ UNCHANGED <<cache, check, faults>>
  BY <1>1 DEF CommitDelete, Writing, Refused
<1>3. \A s \in Role : UsersOf(s)' \subseteq UsersOf(s) /\ UsersOf(s) \ UsersOf(r) \subseteq UsersOf(s)'
  BY <1>2 DEF UsersOf
<1>4. \A v \in User \ UsersOf(r) : Effective(v)' = Effective(v)
  <2> SUFFICES ASSUME NEW v \in User \ UsersOf(r), NEW q \in Permission, NEW s \in Role
               PROVE  /\ <<v, s>> \in userRoles' <=> <<v, s>> \in userRoles
                      /\ <<v, s>> \in userRoles =>
                           (<<s, q>> \in rolePermissions' <=> <<s, q>> \in rolePermissions)
    BY DEF Effective
  <2>1. <<v, s>> \in userRoles => s # r
    BY DEF UsersOf
  <2> QED BY <1>2, <2>1
<1>5. change[w] \in ChangeRecord
  BY DEF ChangesOK
<1>6. ChangesOK' /\ change'[w] = Invalidating(w) /\ \A v \in Change \ {w} : change'[v] = change[v]
  BY <1>2, <1>3, <1>5, InvalidatingOK, ChangeMoves
<1>7. ToInvalidate(w)' = change[w].users /\ ToInvalidate(w) = {}
  BY <1>2, <1>5, <1>6, InvalidatingOK DEF ToInvalidate
<1>8. \A v \in Change \ {w} : ToInvalidate(v) \ UsersOf(r) \subseteq ToInvalidate(v)'
  <2> SUFFICES ASSUME NEW v \in Change \ {w} PROVE ToInvalidate(v) \ UsersOf(r) \subseteq ToInvalidate(v)'
    OBVIOUS
  <2>1. CASE change[v].step = "users"
    <3>1. PICK s \in Role, p \in Permission : change[v].row = <<s, p>>
      BY <2>1 DEF ChangesOK, ChangeOK
    <3> QED BY <1>3, <1>6, <2>1, <3>1 DEF ToInvalidate
  <2> QED BY <1>6, <2>1 DEF ToInvalidate
<1>9. \A x \in change[w].users : Pending(x)'
  BY <1>7 DEF Pending
<1>10. \A x \in User \ UsersOf(r) : Pending(x) => Pending(x)'
  BY <1>7, <1>8 DEF Pending
<1>11. TablesOK' /\ HistoryOK'
  BY <1>2, <1>5 DEF TablesOK, HistoryOK, ChangeRecord
<1>12. \A x \in UsersOf(r) : x \in change[w].users \/ x \in excused'
  BY <1>1, <1>2
<1> QED BY <1>2, <1>4, <1>6, <1>9, <1>10, <1>11, <1>12, CommitExplained

LEMMA AssignInv ==
  ASSUME PInv, NEW w \in Change, CommitAssign(w)
  PROVE  PInv'
<1> USE DEF PInv
<1>1. PICK u \in User, r \in Role : change[w].row = <<u, r>> /\ change[w].users = {u}
  BY DEF CommitAssign, Writing, ChangesOK, ChangeOK
<1> DEFINE late(v) == Writing(v, "delete") /\ change[v].row = <<r>> /\ u \notin change[v].users
           x(v) == [change[v] EXCEPT !.missed = @ \cup {u}]
<1>2. /\ change[w].step = "write" /\ r \in roles /\ userRoles' = userRoles \cup {<<u, r>>}
      /\ change' = [v \in Change |-> IF v = w THEN Invalidating(w)
                                     ELSE IF late(v) THEN x(v) ELSE change[v]]
      /\ UNCHANGED <<roles, dropped, rolePermissions, cache, check, excused, faults>>
  BY <1>1 DEF CommitAssign, Writing, Refused
<1>3. \A s : UsersOf(s)' = UsersOf(s) \cup (IF s = r THEN {u} ELSE {})
  BY <1>2 DEF UsersOf
<1>4. \A v \in User \ {u} : Effective(v)' = Effective(v)
  BY <1>2 DEF Effective
<1>5. \A v \in Change : change[v] \in ChangeRecord /\ ChangeOK(v)
  BY DEF ChangesOK
<1>6. \A v \in Change : /\ x(v) \in ChangeRecord /\ x(v).step = change[v].step
                        /\ x(v).op = change[v].op /\ x(v).row = change[v].row
                        /\ x(v).users = change[v].users
                        /\ x(v).missed = change[v].missed \cup {u}
  BY <1>5 DEF ChangeRecord
<1> HIDE DEF x
<1>7. /\ change' \in [Change -> ChangeRecord] /\ change'[w] = Invalidating(w)
      /\ \A v \in Change \ {w} : change'[v] = IF late(v) THEN x(v) ELSE change[v]
  BY <1>2, <1>5, <1>6, InvalidatingOK
<1>8. \A v \in Change \ {w} : /\ change'[v].step = change[v].step /\ change'[v].op = change[v].op
                              /\ change'[v].row = change[v].row
                              /\ change'[v].users = change[v].users
                              /\ change'[v].missed = change[v].missed \cup (IF late(v) THEN {u} ELSE {})
  BY <1>6, <1>7
<1>9. ASSUME NEW v \in Change \ {w} PROVE ChangeOK(v)'
  <2>1. CASE Writing(v, "delete")
    <3>1. PICK s \in Role : /\ change[v].row = <<s>>
                            /\ UsersOf(s) \subseteq change[v].users \cup change[v].missed
      BY <1>5, <2>1 DEF ChangeOK
    <3>2. UsersOf(s)' \subseteq change'[v].users \cup change'[v].missed
      BY <1>3, <1>8, <2>1, <3>1
    <3> QED BY <1>5, <1>8, <2>1, <3>1, <3>2 DEF ChangeOK, Writing
  <2>2. CASE ~Writing(v, "delete")
    <3>1. ~Writing(v, "delete")'
      BY <1>8, <2>2 DEF Writing
    <3>2. /\ change'[v].step = change[v].step /\ change'[v].op = change[v].op
          /\ change'[v].row = change[v].row /\ change'[v].users = change[v].users
      BY <1>8
    <3>3. ChangeOK(v)
      BY <1>5
    <3> HIDE DEF PInv
    <3> QED BY ONLY <3>1, <3>2, <3>3 DEF ChangeOK
  <2> QED BY <2>1, <2>2
<1>10. ChangesOK' /\ ToInvalidate(w)' = {u} /\ ToInvalidate(w) = {}
  BY <1>1, <1>2, <1>5, <1>7, <1>9, InvalidatingOK DEF ToInvalidate, ChangesOK
<1>11. \A v \in Change \ {w} : ToInvalidate(v) \subseteq ToInvalidate(v)'
  BY <1>3, <1>8 DEF ToInvalidate
<1>12. \A y \in User : y = u => Pending(y)'
  BY <1>10 DEF Pending
<1>13. \A y \in User : Pending(y) => Pending(y)'
  BY <1>10, <1>11 DEF Pending
<1>14. TablesOK' /\ HistoryOK'
  BY <1>2 DEF TablesOK, HistoryOK
<1> QED BY <1>2, <1>4, <1>10, <1>12, <1>13, <1>14, CommitExplained

-----------------------------------------------------------------------------
(* The invalidation, the checks and the time of the entries *)

LEMMA InvalidateInv ==
  ASSUME PInv, NEW w \in Change, NEW u \in User, Invalidate(w, u)
  PROVE  PInv'
<1> USE DEF PInv
<1> DEFINE x == IF change[w].users = {u} THEN Done ELSE [change[w] EXCEPT !.users = @ \ {u}]
<1>1. /\ change[w].step = "invalidate" /\ u \in change[w].users
      /\ change' = [change EXCEPT ![w] = x]
      /\ \/ cache' = [cache EXCEPT ![u] = None] /\ excused' = excused \ {u} /\ UNCHANGED faults
         \/ excused' = excused \cup {u} /\ faults < MaxFaults /\ faults' = faults + 1 /\ UNCHANGED cache
      /\ UNCHANGED <<roles, dropped, userRoles, rolePermissions, check>>
  <2> HIDE DEF PInv
  <2>1. change' = [change EXCEPT ![w] = x]
    BY DEF Invalidate
  <2> HIDE DEF x
  <2> QED BY <2>1 DEF Invalidate, Fault, tables
<1>2. change[w] \in ChangeRecord
  BY DEF ChangesOK
<1>3. /\ x \in ChangeRecord
      /\ change[w].users = {u} => x = Done
      /\ change[w].users # {u} => x.step = "invalidate" /\ x.users = change[w].users \ {u}
  BY <1>1, <1>2, DoneOK DEF ChangeRecord
<1> HIDE DEF x
<1>4. ASSUME change'[w] = x PROVE ChangeOK(w)'
  <2>1. CASE change[w].users = {u}
    BY <1>3, <1>4, <2>1, DoneOK
  <2>2. CASE change[w].users # {u}
    <3>1. change[w].users \ {u} # {}
      BY <1>1, <2>2
    <3> QED BY <1>3, <1>4, <2>2, <3>1 DEF ChangeOK, Writing
  <2> QED BY <2>1, <2>2
<1>5. ChangesOK' /\ change'[w] = x /\ \A v \in Change \ {w} : change'[v] = change[v]
  BY <1>1, <1>3, <1>4, EffectiveSame, ChangeMoves
<1>6. ToInvalidate(w) = change[w].users /\ change[w].users \ {u} \subseteq ToInvalidate(w)'
  BY <1>1, <1>3, <1>5, DoneOK DEF ToInvalidate
<1>7. \A v \in Change \ {w} : ToInvalidate(v) = ToInvalidate(v)'
  BY <1>1, <1>5, EffectiveSame DEF ToInvalidate
<1>8. \A y \in User \ {u} : Pending(y) => Pending(y)'
  BY <1>6, <1>7 DEF Pending
<1>9. \A y \in User \ {u} : cache'[y] = cache[y]
  BY <1>1 DEF CacheOK
<1>10. u \notin excused' => cache'[u] = None
  BY <1>1 DEF CacheOK
<1>11. StaleIsExplained'
  BY <1>1, <1>8, <1>9, <1>10, EffectiveSame, StaleKept
<1>12. CacheOK' /\ ChecksOK' /\ TablesOK'
  BY <1>1 DEF CacheOK, ChecksOK, TablesOK
<1>13. HistoryOK'
  BY <1>1, FaultsAssumption DEF HistoryOK
<1> QED BY <1>5, <1>11, <1>12, <1>13

\* A step that leaves the tables and the requests alone.
LEMMA TablesStay ==
  ASSUME PInv, UNCHANGED <<tables, change>>
  PROVE  TablesOK' /\ ChangesOK' /\ \A u : Pending(u)' = Pending(u)
<1>1. UNCHANGED <<roles, dropped, userRoles, rolePermissions, change>>
  BY DEF tables
<1>2. \A w : ToInvalidate(w)' = ToInvalidate(w)
  BY <1>1, EffectiveSame DEF ToInvalidate
<1>3. TablesOK'
  BY <1>1 DEF PInv, TablesOK
<1>4. ASSUME NEW w \in Change PROVE ChangeOK(w)'
  BY <1>1, EffectiveSame DEF PInv, ChangesOK, ChangeOK, Writing
<1> QED BY <1>1, <1>2, <1>3, <1>4 DEF Pending, PInv, ChangesOK

LEMMA CheckInv ==
  ASSUME PInv, NEW c \in Check, Checking(c)
  PROVE  PInv'
<1> USE DEF PInv
<1>1. NewCheck \in [step : {"idle", "query", "fill"}, user : User, found : SUBSET Permission]
  BY UserAssumption DEF NewCheck
<1>2. check[c] \in [step : {"idle", "query", "fill"}, user : User, found : SUBSET Permission]
  BY DEF ChecksOK
<1> HIDE DEF NewCheck
<1>3. ASSUME NEW x \in [step : {"idle", "query", "fill"}, user : User, found : SUBSET Permission],
             SetCheck(c, x), UNCHANGED <<tables, cache, change, excused>>, faults' \in 0..MaxFaults
      PROVE  PInv'
  <2>1. UNCHANGED <<userRoles, rolePermissions>>
    BY <1>3 DEF tables
  <2>2. StaleIsExplained'
    BY <1>3, <2>1, TablesStay, EffectiveSame DEF StaleIsExplained
  <2> QED BY <1>3, <2>2, TablesStay DEF SetCheck, CacheOK, ChecksOK, HistoryOK
<1>4. ASSUME NEW u \in User, CacheHit(c, u)
      PROVE  PInv'
  <2>1. UNCHANGED <<tables, cache, change, check, excused, faults>>
    BY <1>4 DEF CacheHit, vars, tables
  <2>2. check' = [check EXCEPT ![c] = check[c]]
    BY <2>1 DEF ChecksOK
  <2> QED BY <1>2, <1>3, <2>1, <2>2 DEF SetCheck, HistoryOK
<1>5. ASSUME NEW u \in User, CacheMiss(c, u)
      PROVE  PInv'
  <2>1. [NewCheck EXCEPT !.step = "query", !.user = u]
          \in [step : {"idle", "query", "fill"}, user : User, found : SUBSET Permission]
    BY <1>1
  <2>2. faults' \in 0..MaxFaults
    BY <1>5, FaultsAssumption DEF CacheMiss, Fault, HistoryOK
  <2>3. SetCheck(c, [NewCheck EXCEPT !.step = "query", !.user = u]) /\ UNCHANGED <<tables, cache, change, excused>>
    BY <1>5 DEF CacheMiss
  <2> QED BY <1>3, <2>1, <2>2, <2>3
<1>6. CASE Query(c)
  <2>1. [check[c] EXCEPT !.step = "fill", !.found = Effective(check[c].user)]
          \in [step : {"idle", "query", "fill"}, user : User, found : SUBSET Permission]
    BY <1>2 DEF Effective
  <2>2. /\ SetCheck(c, [check[c] EXCEPT !.step = "fill", !.found = Effective(check[c].user)])
        /\ UNCHANGED <<tables, cache, change, excused, faults>>
    BY <1>6 DEF Query
  <2> QED BY <1>3, <2>1, <2>2 DEF HistoryOK
<1>7. CASE FailFill(c)
  <2>1. faults' \in 0..MaxFaults /\ SetCheck(c, NewCheck) /\ UNCHANGED <<tables, cache, change, excused>>
    BY <1>7, FaultsAssumption DEF FailFill, Fault, HistoryOK
  <2> QED BY <1>1, <1>3, <2>1
<1>8. CASE Fill(c)
  <2>1. PICK u \in User, found \in SUBSET Permission :
          /\ cache' = [cache EXCEPT ![u] = [permissions |-> found, aged |-> FALSE]]
          /\ excused' = IF found = Effective(u) THEN excused \ {u}
                        ELSE IF Pending(u) THEN excused ELSE excused \cup {u}
          /\ SetCheck(c, NewCheck) /\ UNCHANGED <<tables, change, faults>>
    BY <1>2, <1>8 DEF Fill
  <2>2. UNCHANGED <<userRoles, rolePermissions>>
    BY <2>1 DEF tables
  <2>3. \A y \in User \ {u} : cache'[y] = cache[y] /\ (y \notin excused' => y \notin excused)
    BY <2>1 DEF CacheOK
  <2>4. cache'[u].permissions = found
    BY <2>1 DEF CacheOK
  <2>5. u \in excused' \/ found = Effective(u) \/ Pending(u)
    BY <2>1
  <2>6. StaleIsExplained'
    BY <2>1, <2>2, <2>3, <2>4, <2>5, EffectiveSame, TablesStay, StaleKept
  <2>7. CacheOK' /\ ChecksOK' /\ HistoryOK'
    BY <1>1, <2>1 DEF SetCheck, CacheOK, ChecksOK, HistoryOK
  <2> QED BY <2>1, <2>6, <2>7, TablesStay
<1> QED BY <1>4, <1>5, <1>6, <1>7, <1>8 DEF Checking

LEMMA TimeInv ==
  ASSUME PInv, NEW u \in User, Age(u) \/ Expire(u)
  PROVE  PInv'
<1> USE DEF PInv
<1>1. /\ cache[u] # None /\ UNCHANGED <<tables, change, check, faults>>
      /\ \/ cache' = [cache EXCEPT ![u].aged = TRUE] /\ UNCHANGED excused
         \/ cache' = [cache EXCEPT ![u] = None] /\ excused' = excused \ {u}
  BY DEF Age, Expire
<1>2. cache[u] \in [permissions : SUBSET Permission, aged : BOOLEAN]
  BY <1>1 DEF CacheOK
<1>3. CacheOK'
  BY <1>1, <1>2 DEF CacheOK
<1>4. \A y \in User \ {u} : cache'[y] = cache[y] /\ (y \notin excused' => y \notin excused)
  BY <1>1 DEF CacheOK
<1>5. UNCHANGED <<userRoles, rolePermissions>>
  BY <1>1 DEF tables
<1>6. cache'[u] = None \/ /\ cache'[u].permissions = cache[u].permissions
                          /\ excused' = excused
  BY <1>1, <1>2 DEF CacheOK
<1>7. StaleIsExplained'
  BY <1>1, <1>4, <1>5, <1>6, EffectiveSame, TablesStay, StaleKept
<1> QED BY <1>1, <1>3, <1>7, TablesStay DEF ChecksOK, HistoryOK

-----------------------------------------------------------------------------
(* The theorems *)

LEMMA InitInv ==
  ASSUME Init
  PROVE  PInv
<1>1. NewChange \in ChangeRecord /\ NewChange.step = "new" /\ \A w \in Change : change[w] = NewChange
  BY DEF Init, NewChange, ChangeRecord, Op
<1>2. NewCheck \in [step : {"idle", "query", "fill"}, user : User, found : SUBSET Permission]
  BY UserAssumption DEF NewCheck
<1> HIDE DEF NewChange, NewCheck
<1>3. TablesOK /\ CacheOK /\ ChecksOK /\ HistoryOK /\ StaleIsExplained
  BY <1>2, TablesAssumption, FaultsAssumption
     DEF Init, TablesOK, CacheOK, ChecksOK, HistoryOK, StaleIsExplained
<1>4. ChangesOK
  BY <1>1 DEF Init, ChangesOK, ChangeOK, Writing
<1> QED BY <1>3, <1>4 DEF PInv

LEMMA NextInv ==
  ASSUME PInv, [Next]_vars
  PROVE  PInv'
<1>1. ASSUME NEW w \in Change, Serve(w) \/ Progress(w)
      PROVE  PInv'
  BY <1>1, BeginInv, EndInv, ReadUsersInv, AssignInv, RemoveInv, GrantRevokeInv, DeleteInv,
     InvalidateInv DEF Serve, Progress
<1>2. ASSUME NEW c \in Check, Checking(c)
      PROVE  PInv'
  BY <1>2, CheckInv
<1>3. ASSUME NEW u \in User, Age(u) \/ Expire(u)
      PROVE  PInv'
  BY <1>3, TimeInv
<1>4. CASE UNCHANGED vars
  <2>1. UNCHANGED <<tables, change, cache, check, excused, faults, userRoles, rolePermissions>>
    BY <1>4 DEF vars, tables
  <2>2. StaleIsExplained'
    BY <2>1, TablesStay, EffectiveSame DEF StaleIsExplained, PInv
  <2> QED BY <2>1, <2>2, TablesStay DEF PInv, CacheOK, ChecksOK, HistoryOK
<1> QED BY <1>1, <1>2, <1>3, <1>4 DEF Next

LEMMA Invariance == Spec => []PInv
<1>1. PInv /\ [Next]_vars => PInv'
  BY NextInv
<1>2. Init => PInv
  BY InitInv
<1> QED BY <1>1, <1>2, PTL DEF Spec

\* The tables, the entries and the requests keep their shape, and a request that still
\* has to invalidate knows whom.
THEOREM TypeCorrect == Spec => []TypeOK
<1>1. PInv => TypeOK
  <2> SUFFICES ASSUME PInv PROVE TypeOK
    OBVIOUS
  <2>1. ASSUME NEW w \in Change
        PROVE  /\ change[w].step \in {"new", "write", "users", "invalidate", "done"}
               /\ change[w].users \cup change[w].missed \subseteq User
               /\ change[w].step = "invalidate" => change[w].users # {}
    BY DEF PInv, ChangesOK, ChangeOK, ChangeRecord
  <2>2. \A u \in User : cache[u] # None => cache[u] \in [permissions : SUBSET Permission, aged : BOOLEAN]
    BY DEF PInv, CacheOK
  <2> QED BY <2>1, <2>2 DEF PInv, TypeOK, TablesOK, ChecksOK, HistoryOK
<1> QED BY <1>1, Invariance, PTL

\* "Cache invalidates on role-user and role-permission assignment changes"
\* (auth/README.md:106): an entry that differs from the database belongs to a user whom a
\* request is about to invalidate, or is one of the exceptions that `excused' collects.
THEOREM StaleEntriesExplained == Spec => []StaleIsExplained
<1>1. PInv => StaleIsExplained
  BY DEF PInv
<1> QED BY <1>1, Invariance, PTL
=============================================================================
