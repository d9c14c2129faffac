-------------------- MODULE OrganisationPromises_proofs ---------------------
(***************************************************************************)
(* Who holds a slug, who administers a unit, and what the setup leaves:    *)
(* the theorems about slug_history and unit_members, for any number of     *)
(* requests and any setup.                                                 *)
(***************************************************************************)
EXTENDS Organisations_proofs

-----------------------------------------------------------------------------
(* The invariant about slugs                                               *)

\* An organisation that is in the table and has no slug yet: a request's, the setup's.
New(p)  == job[p].kind = "createOrg" /\ job[p].at \in {"tenant", "slug"}
BootNew == boot.at \in {"tenant", "slug"}

Nameless(u) == /\ unit[u].type # "none"
               /\ \A i \in 1 .. MaxRows : history[i].org # u

\* The server serves nobody before its setup is done.
BootIdle == boot.at # "up" => \A p \in Requests : job[p] = Idle

\* Rows are those inserted so far, and of units that are or were there.
HistoryInv == \A i \in 1 .. MaxRows : history[i] # NoHistory =>
                  i <= serial /\ unit[history[i].org].type # "none"

NamelessInv ==
    /\ \A p \in Requests : New(p) => Nameless(job[p].unit)
    /\ \A p, q \in Requests : New(p) /\ New(q) /\ p # q => job[p].unit # job[q].unit
    /\ BootNew => Nameless(boot.unit)

\* A slug held to be free is held so by one request, and is free or its own.
TakingInv ==
    /\ \A s \in Slugs \ clash : \A p, q \in Requests : Taking(p, s) /\ Taking(q, s) => p = q
    /\ \A s \in Slugs \ clash : \A p \in Requests : Taking(p, s) =>
          \A i \in ActiveRows(s) : job[p].kind = "rename" /\ history[i].org = job[p].unit
    /\ BootNew => ActiveRows(SetupOrgs[boot.n]) = {}

-----------------------------------------------------------------------------
(* What a request's step does to its job                                   *)

\* The statements about members and roles: they lead on or end the request.
Roleplay(p) == \/ WriteOwner(p) \/ DeleteRow(p) \/ CountMembers(p) \/ Join(p) \/ Promote(p)
               \/ ReadRoleToRemove(p) \/ CountToRemove(p) \/ Drop(p) \/ BeginLock(p)
               \/ LockAdmins(p) \/ ReadRoleToSet(p) \/ CountToDemote(p) \/ WriteRole(p)
               \/ Abort(p)

LEMMA RoleplayJob ==
    ASSUME TypeInv, NEW p \in Requests, Roleplay(p)
    PROVE  \E j : /\ job' = [job EXCEPT ![p] = j]
                  /\ j.at \notin {"insert", "tenant", "slug"}
                  /\ j = Idle \/ j.unit = job[p].unit
  <1> USE IdleOK DEF Idle
  <1>0. job \in [Requests -> Jobs] /\ job[p] \in Jobs
    BY DEF TypeInv, JobsOK
  <1>1. CASE Finish(p)
    BY <1>1 DEF Finish
  <1>2. ASSUME NEW at \in {"join", "promote", "role", "count", "drop", "write"}, Move(p, at)
        PROVE  \E j : /\ job' = [job EXCEPT ![p] = j]
                      /\ j.at \notin {"insert", "tenant", "slug"}
                      /\ j.unit = job[p].unit
    <2>1. job' = [job EXCEPT ![p] = [job[p] EXCEPT !.at = at]]
      BY <1>0, <1>2 DEF Move
    <2>2. [job[p] EXCEPT !.at = at].at = at /\ [job[p] EXCEPT !.at = at].unit = job[p].unit
      BY <1>0 DEF Jobs
    <2> QED BY <1>2, <2>1, <2>2
  <1>3. CASE CountMembers(p) \/ BeginLock(p) \/ LockAdmins(p)
    <2>0. PICK at \in {"join", "wait", "role"} : \E seen, held :
             job' = [job EXCEPT ![p] = [job[p] EXCEPT !.at = at, !.seen = seen, !.held = held]]
      <3>1. job[p] = [job[p] EXCEPT !.seen = job[p].seen] /\ job[p] = [job[p] EXCEPT !.held = job[p].held]
        BY <1>0 DEF Jobs
      <3>2. CASE CountMembers(p)
        <4>1. job' = [job EXCEPT ![p] = [job[p] EXCEPT !.at = "join", !.seen = Members(job[p].unit),
                                                       !.held = job[p].held]]
          BY <1>0, <3>2 DEF CountMembers, Jobs
        <4> QED BY <4>1
      <3>3. CASE BeginLock(p)
        <4>1. job' = [job EXCEPT ![p] = [job[p] EXCEPT !.at = "wait", !.seen = Admins(job[p].unit),
                                                       !.held = job[p].held]]
          BY <1>0, <3>3 DEF BeginLock, Jobs
        <4> QED BY <4>1
      <3>4. CASE LockAdmins(p)
        <4>1. PICK at \in {"wait", "role"}, seen \in SUBSET People, held \in SUBSET People :
                 /\ job' = [job EXCEPT ![p] = [job[p] EXCEPT !.at = at, !.seen = seen, !.held = held]]
                 /\ \A w \in held : w \in job[p].held \/ ~Locked(p, job[p].unit, w)
          BY <3>4, LockStep
        <4> QED BY <4>1
      <3> QED BY <1>3, <3>2, <3>3, <3>4
    <2>1. PICK seen, held :
             job' = [job EXCEPT ![p] = [job[p] EXCEPT !.at = at, !.seen = seen, !.held = held]]
      BY <2>0
    <2> DEFINE j == [job[p] EXCEPT !.at = at, !.seen = seen, !.held = held]
    <2>2. j.at = at /\ j.unit = job[p].unit
      BY <1>0 DEF Jobs
    <2> QED BY <2>1, <2>2
  <1>4. CASE ReadRoleToRemove(p) \/ ReadRoleToSet(p)
    <2>1. /\ role[job[p].unit][job[p].who] \in {"none", "member", "admin"}
          /\ job[p].kind = "setRole" => job[p].want \in {"member", "admin"}
      <3>1. job[p].at = "role"
        BY <1>4 DEF ReadRoleToRemove, ReadRoleToSet, At
      <3>2. job[p].unit \in Units /\ job[p].who \in People
        BY <3>1, AtPoint
      <3>3. job[p].kind = "setRole" => job[p].want \in {"member", "admin"}
        BY AtPoint DEF JobOK
      <3> QED BY <3>2, <3>3 DEF TypeInv, RowsOK, Roles
    <2>2. \/ Finish(p) \/ Move(p, "drop") \/ Move(p, "count") \/ Move(p, "write")
      BY <1>4, <2>1 DEF ReadRoleToRemove, ReadRoleToSet, At
    <2> QED BY <2>2, <1>1, <1>2
  <1>5. CASE \/ WriteOwner(p) \/ DeleteRow(p) \/ Join(p) \/ Promote(p) \/ CountToRemove(p)
             \/ Drop(p) \/ CountToDemote(p) \/ WriteRole(p) \/ Abort(p)
    <2>1. Finish(p) \/ Move(p, "promote") \/ Move(p, "drop") \/ Move(p, "write")
      BY <1>5 DEF WriteOwner, DeleteRow, Join, Promote, CountToRemove, Drop, CountToDemote,
                  WriteRole, UpdateMemberRole, Abort
    <2> QED BY <2>1, <1>1, <1>2
  <1> QED BY <1>3, <1>4, <1>5 DEF Roleplay

\* The job of a request after any of its steps; the jobs of the others do not change.
JobAfter(p, j) ==
    \/ j.at \notin {"insert", "tenant", "slug"}
    \/ j.kind = "createUnit"
    \/ /\ CheckFree(p) /\ ~SlugExists(job[p].slug) /\ NoteClash(p, job[p].slug)
       /\ j.slug = job[p].slug
       /\ j.kind = "rename" => j.at = "tenant"
       /\ j.kind = "createOrg" => j.at = "insert"
    \/ /\ Resolve(p) /\ NoteClash(p, j.slug)
       /\ j.kind = "rename" /\ j.at = "tenant" /\ j.unit \in Holders(j.slug)
    \/ /\ InsertUnit(p) /\ job[p].at = "insert"
       /\ j.at = "tenant" /\ j.kind = "createOrg" /\ job[p].kind = "createOrg"
       /\ j.slug = job[p].slug /\ UNCHANGED <<history, serial>>
       /\ j.unit \in Fresh /\ unit' = [unit EXCEPT ![j.unit] = [NoRow EXCEPT !.type = "organization"]]
    \/ /\ WriteTenant(p) /\ job[p].at = "tenant"
       /\ j = [job[p] EXCEPT !.at = "slug"]

LEMMA StepJobAfter ==
    ASSUME TypeInv, NEW p \in Requests, Arrive(p) \/ Step(p) \/ End(p)
    PROVE  \E j : job' = [job EXCEPT ![p] = j] /\ JobAfter(p, j)
  <1>0. /\ job \in [Requests -> Jobs] /\ job[p] \in Jobs
        /\ job[p].at = "free"   => job[p].kind \in {"createOrg", "rename"}
        /\ job[p].at = "insert" => job[p].kind \in {"createOrg", "createUnit"}
        /\ job[p].at \in {"tenant", "slug"} => job[p].kind \in {"createOrg", "rename"}
    BY AtPoint DEF TypeInv, JobsOK
  <1>1. CASE Finish(p)
    BY <1>1, IdleOK DEF Finish, JobAfter
  <1>2. CASE Roleplay(p)
    <2>1. PICK j : /\ job' = [job EXCEPT ![p] = j]
                   /\ j.at \notin {"insert", "tenant", "slug"}
      BY <1>2, RoleplayJob
    <2> QED BY <2>1 DEF JobAfter
  <1>3. CASE Arrive(p)
    <2>1. PICK j : JobOK(j) /\ Ask(p, j) /\ Asked(j)
      BY <1>3, ArriveStep
    <2> QED BY <2>1 DEF JobAfter, Ask, Asked
  <1>4. CASE Resolve(p) /\ ~Finish(p)
    <2> DEFINE then == CASE job[p].kind = "createUnit" -> "insert"
                         [] job[p].kind = "rename" -> IF job[p].slug = job[p].path THEN "tenant" ELSE "free"
                         [] job[p].kind = "deleteOrg"  -> "delete"
                         [] job[p].kind = "add"        -> "count"
                         [] job[p].kind = "remove"     -> "role"
    <2>1. PICK o \in Holders(job[p].path) : job' = [job EXCEPT ![p].at = then, ![p].unit = o]
      BY <1>4 DEF Resolve
    <2>2. then = "tenant" => NoteClash(p, job[p].slug)
      BY <1>4 DEF Resolve
    <2>3. job[p].at = "resolve" /\ JobOK(job[p])
      BY <1>4, AtPoint DEF Resolve
    <2>4. job[p].kind \in {"createUnit", "rename", "deleteOrg", "add", "remove"}
      BY <1>0, <2>3 DEF JobOK, PointsOf, Jobs, Kinds
    <2>5. /\ then \in {"insert", "tenant", "free", "delete", "count", "role"}
          /\ then = "insert" => job[p].kind = "createUnit"
          /\ then = "tenant" => job[p].kind = "rename" /\ job[p].slug = job[p].path
      BY <2>4
    <2> HIDE DEF then
    <2> DEFINE j == [job[p] EXCEPT !.at = then, !.unit = o]
    <2>6. job' = [job EXCEPT ![p] = j]
      BY <1>0, <2>1
    <2>7. j.at = then /\ j.unit = o /\ j.kind = job[p].kind /\ j.slug = job[p].slug
      BY <1>0 DEF Jobs
    <2> HIDE DEF j
    <2>8. JobAfter(p, j)
      BY <1>4, <2>1, <2>2, <2>5, <2>7 DEF JobAfter
    <2> QED BY <2>6, <2>8
  <1>5. CASE CheckFree(p) /\ ~Finish(p)
    <2> DEFINE at == IF job[p].kind = "createOrg" THEN "insert" ELSE "tenant"
    <2>1. /\ ~SlugExists(job[p].slug) /\ NoteClash(p, job[p].slug) /\ job[p].at = "free"
          /\ job' = [job EXCEPT ![p].at = at]
      BY <1>5 DEF CheckFree, Tell, Move
    <2> DEFINE j == [job[p] EXCEPT !.at = at]
    <2>2. job' = [job EXCEPT ![p] = j]
      BY <1>0, <2>1
    <2>3. j.at = at /\ j.kind = job[p].kind /\ j.slug = job[p].slug
      BY <1>0 DEF Jobs
    <2> HIDE DEF j
    <2>4. JobAfter(p, j)
      BY <1>0, <1>5, <2>1, <2>3 DEF JobAfter
    <2> QED BY <2>2, <2>4
  <1>6. CASE InsertUnit(p) /\ ~Finish(p)
    <2>1. PICK u \in Fresh :
             \/ /\ job[p].kind = "createOrg"
                /\ unit' = [unit EXCEPT ![u] = [NoRow EXCEPT !.type = "organization"]]
                /\ job' = [job EXCEPT ![p].unit = u, ![p].at = "tenant"]
                /\ UNCHANGED <<history, serial>>
             \/ /\ job[p].kind = "createUnit"
                /\ job' = [job EXCEPT ![p].unit = u, ![p].at = "owner"]
      BY <1>6 DEF InsertUnit
    <2>2. CASE job[p].kind = "createUnit"
      <3>1. job' = [job EXCEPT ![p] = [job[p] EXCEPT !.unit = u, !.at = "owner"]]
        BY <1>0, <2>1, <2>2
      <3>2. [job[p] EXCEPT !.unit = u, !.at = "owner"].at = "owner"
        BY <1>0 DEF Jobs
      <3> QED BY <3>1, <3>2 DEF JobAfter
    <2>3. CASE job[p].kind = "createOrg"
      <3> DEFINE j == [job[p] EXCEPT !.unit = u, !.at = "tenant"]
      <3>1. job' = [job EXCEPT ![p] = j]
        BY <1>0, <2>1, <2>3
      <3>2. j.at = "tenant" /\ j.unit = u /\ j.kind = job[p].kind /\ j.slug = job[p].slug
        BY <1>0 DEF Jobs
      <3> HIDE DEF j
      <3>3. JobAfter(p, j)
        BY <1>6, <2>1, <2>3, <3>2 DEF JobAfter, InsertUnit
      <3> QED BY <3>1, <3>3
    <2> QED BY <2>1, <2>2, <2>3
  <1>7. CASE WriteTenant(p) /\ ~Finish(p)
    <2>1. job' = [job EXCEPT ![p].at = "slug"] /\ job[p].at = "tenant"
      BY <1>7 DEF WriteTenant, Move
    <2>2. job' = [job EXCEPT ![p] = [job[p] EXCEPT !.at = "slug"]]
      BY <1>0, <2>1
    <2> QED BY <1>7, <2>1, <2>2 DEF JobAfter
  <1>8. CASE WriteSlug(p) /\ ~Finish(p)
    <2>1. job' = [job EXCEPT ![p].at = "owner"]
      BY <1>8 DEF WriteSlug, Move
    <2>2. job' = [job EXCEPT ![p] = [job[p] EXCEPT !.at = "owner"]]
      BY <1>0, <2>1
    <2>3. [job[p] EXCEPT !.at = "owner"].at = "owner"
      BY <1>0 DEF Jobs
    <2> QED BY <2>2, <2>3 DEF JobAfter
  <1> QED
    BY <1>1, <1>2, <1>3, <1>4, <1>5, <1>6, <1>7, <1>8 DEF Step, Roleplay, End

-----------------------------------------------------------------------------
(* What statements do to the history                                       *)

Open(o)    == {i \in 1 .. serial : history[i].org = o /\ ~history[i].ended}
RowsInv    == HistoryInv /\ OneSlugPerOrganisation /\ NewestRowHoldsSlug
KeepsTypes == \A u \in Units : unit[u].type # "none" => unit'[u].type # "none"

\* The open rows of o are ended and s is given to it.
Gives(s, o) ==
    /\ serial' = serial + 1 /\ serial' \in 1 .. MaxRows
    /\ \A i \in 1 .. MaxRows :
          history'[i] = IF i = serial' THEN [slug |-> s, org |-> o, ended |-> FALSE]
                        ELSE IF i \in Open(o) THEN [history[i] EXCEPT !.ended = TRUE]
                        ELSE history[i]

\* Rows may go, and none comes.
Thins == /\ serial' = serial
         /\ \A i \in 1 .. MaxRows : history'[i] \in {history[i], NoHistory}

LEMMA HistoryTypes ==
    ASSUME TypeInv
    PROVE  /\ serial \in Nat /\ MaxRows \in Nat /\ serial <= MaxRows
           /\ \A i \in 1 .. MaxRows :
                 /\ history[i] = NoHistory
                    \/ history[i] \in [slug : Slugs, org : Units, ended : BOOLEAN]
                 /\ ~history[i].ended => history[i].org \in Units /\ history[i].slug \in Slugs
                 /\ history[i].slug # NoSlug => history[i] # NoHistory
                 /\ history[i].ended \in BOOLEAN
  <1>1. /\ serial \in Nat /\ MaxRows \in Nat /\ serial <= MaxRows
        /\ \A i \in 1 .. MaxRows : history[i] \in SlugRows
    BY OrganisationsAssumption DEF TypeInv, RowsOK
  <1>2. /\ NoHistory.slug = NoSlug /\ NoHistory.org = NoUnit /\ NoHistory.ended = TRUE
    BY DEF NoHistory
  <1> SUFFICES ASSUME NEW i \in 1 .. MaxRows
               PROVE  /\ history[i] = NoHistory
                          \/ history[i] \in [slug : Slugs, org : Units, ended : BOOLEAN]
                      /\ ~history[i].ended => history[i].org \in Units /\ history[i].slug \in Slugs
                      /\ history[i].slug # NoSlug => history[i] # NoHistory
                      /\ history[i].ended \in BOOLEAN
    BY <1>1
  <1>3. history[i] \in [slug : Slugs, org : Units, ended : BOOLEAN] \/ history[i] = NoHistory
    BY <1>1 DEF SlugRows
  <1>4. CASE history[i] = NoHistory
    BY <1>2, <1>4
  <1>5. CASE history[i] \in [slug : Slugs, org : Units, ended : BOOLEAN]
    BY <1>2, <1>5
  <1> QED BY <1>3, <1>4, <1>5

LEMMA GivesRows ==
    ASSUME TypeInv, RowsInv, NEW s \in Slugs, NEW o \in Units, Gives(s, o),
           unit[o].type # "none", KeepsTypes, UNCHANGED clash,
           s \notin clash => ActiveRows(s) \subseteq Open(o)
    PROVE  /\ RowsInv'
           /\ \A r \in Slugs \ {s} : \A i \in ActiveRows(r)' :
                 i \in ActiveRows(r) /\ history'[i].org = history[i].org
           /\ \A i \in 1 .. MaxRows : history'[i].org \in {history[i].org, o}
  <1> USE DEF RowsInv
  <1>1. /\ serial \in Nat /\ MaxRows \in Nat /\ serial' = serial + 1 /\ serial' \in 1 .. MaxRows
        /\ 1 .. serial \subseteq 1 .. MaxRows /\ 1 .. serial' \subseteq 1 .. MaxRows
    BY HistoryTypes DEF Gives
  <1>2. /\ history'[serial'].slug = s /\ history'[serial'].org = o
        /\ history'[serial'].ended = FALSE /\ history'[serial'] # NoHistory
    <2>1. history'[serial'] = [slug |-> s, org |-> o, ended |-> FALSE]
      BY <1>1 DEF Gives
    <2>2. NoHistory.slug = NoSlug /\ s # NoSlug
      BY OrganisationsAssumption DEF NoHistory
    <2> QED BY <2>1, <2>2
  <1>3. \A i \in 1 .. MaxRows \ {serial'} :
           /\ history'[i].slug = history[i].slug /\ history'[i].org = history[i].org
           /\ history[i].ended => history'[i].ended
           /\ history'[i].ended = (history[i].ended \/ i \in Open(o))
           /\ history'[i] # NoHistory => history[i] # NoHistory
    <2> TAKE i \in 1 .. MaxRows \ {serial'}
    <2>1. CASE i \in Open(o)
      <3>1. history[i] \in [slug : Slugs, org : Units, ended : BOOLEAN] /\ history[i].ended = FALSE
        BY <1>1, <2>1, HistoryTypes DEF Open, NoHistory
      <3>2. history'[i] = [history[i] EXCEPT !.ended = TRUE]
        BY <2>1 DEF Gives
      <3>3. history[i] # NoHistory
        BY <3>1 DEF NoHistory
      <3> QED BY <2>1, <3>1, <3>2, <3>3
    <2>2. CASE i \notin Open(o)
      <3>1. history'[i] = history[i]
        BY <2>2 DEF Gives
      <3>2. history[i].ended \in BOOLEAN
        BY HistoryTypes
      <3> QED BY <2>2, <3>1, <3>2
    <2> QED BY <2>1, <2>2
  <1>4. \A i \in 1 .. serial : i # serial' /\ i \in 1 .. MaxRows /\ i < serial'
    BY <1>1
  <1>5. \A i \in 1 .. serial' : i = serial' \/ i \in 1 .. serial
    BY <1>1
  <1>6. HistoryInv'
    <2> SUFFICES ASSUME NEW i \in 1 .. MaxRows, history'[i] # NoHistory
                 PROVE  i <= serial' /\ unit'[history'[i].org].type # "none"
      BY DEF HistoryInv, NoHistory
    <2>1. CASE i = serial'
      BY <1>1, <1>2, <2>1 DEF KeepsTypes
    <2>2. CASE i # serial'
      <3>1. history[i] # NoHistory /\ history'[i].org = history[i].org
        BY <1>3, <2>2
      <3>2. i <= serial /\ unit[history[i].org].type # "none" /\ history[i].org \in Units
        BY <3>1, HistoryTypes DEF HistoryInv
      <3> QED BY <1>1, <3>1, <3>2 DEF KeepsTypes
    <2> QED BY <2>1, <2>2
  <1>7. OneSlugPerOrganisation'
    <2> SUFFICES ASSUME NEW i \in 1 .. serial', NEW k \in 1 .. serial',
                        ~history'[i].ended, ~history'[k].ended,
                        history'[i].org = history'[k].org
                 PROVE  i = k
      BY DEF OneSlugPerOrganisation
    <2>1. \A x \in 1 .. serial : ~history'[x].ended => ~history[x].ended /\ history[x].org # o
      BY <1>3, <1>4 DEF Open
    <2>2. CASE i \in 1 .. serial /\ k \in 1 .. serial
      BY <1>3, <1>4, <2>1, <2>2 DEF OneSlugPerOrganisation
    <2>3. CASE i = serial' /\ k \in 1 .. serial
      BY <1>2, <1>3, <1>4, <2>1, <2>3
    <2>4. CASE i \in 1 .. serial /\ k = serial'
      BY <1>2, <1>3, <1>4, <2>1, <2>4
    <2> QED BY <1>5, <2>2, <2>3, <2>4
  <1>8. NewestRowHoldsSlug'
    <2> SUFFICES ASSUME NEW r \in Slugs \ clash, NEW i \in 1 .. serial', NEW k \in 1 .. serial',
                        history'[i].slug = r, history'[k].slug = r, i < k
                 PROVE  history'[i].ended
      BY DEF NewestRowHoldsSlug
    <2>1. i \in 1 .. serial
      BY <1>1, <1>5
    <2>2. CASE k = serial'
      <3>1. r = s
        BY <1>2, <2>2
      <3>2. history[i].slug = s
        BY <1>3, <1>4, <2>1, <3>1
      <3>3. history[i].ended \/ i \in Open(o)
        BY <2>1, <3>1, <3>2 DEF ActiveRows
      <3> QED BY <1>3, <1>4, <2>1, <3>3
    <2>3. CASE k \in 1 .. serial
      BY <1>3, <1>4, <2>1, <2>3 DEF NewestRowHoldsSlug
    <2> QED BY <1>5, <2>2, <2>3
  <1>9. \A r \in Slugs \ {s} : \A i \in ActiveRows(r)' :
           i \in ActiveRows(r) /\ history'[i].org = history[i].org
    BY <1>2, <1>3, <1>4, <1>5 DEF ActiveRows
  <1> QED BY <1>2, <1>3, <1>6, <1>7, <1>8, <1>9

LEMMA ThinsRows ==
    ASSUME TypeInv, RowsInv, Thins, KeepsTypes, clash \subseteq clash'
    PROVE  /\ RowsInv'
           /\ \A r \in Slugs : \A i \in ActiveRows(r)' :
                 i \in ActiveRows(r) /\ history'[i].org = history[i].org
           /\ \A u \in Units, i \in 1 .. MaxRows :
                 history'[i].org = u => history[i].org = u
  <1> USE DEF RowsInv
  <1>1. /\ serial \in Nat /\ serial' = serial /\ 1 .. serial \subseteq 1 .. MaxRows
    BY HistoryTypes DEF Thins
  <1>2. \A i \in 1 .. MaxRows :
           \/ history'[i] = history[i]
           \/ history'[i] = NoHistory /\ history'[i].ended /\ history'[i].slug = NoSlug
              /\ history'[i].org = NoUnit
    <2>1. /\ NoHistory.slug = NoSlug /\ NoHistory.org = NoUnit /\ NoHistory.ended = TRUE
      BY DEF NoHistory
    <2>2. \A i \in 1 .. MaxRows : history'[i] = history[i] \/ history'[i] = NoHistory
      BY DEF Thins
    <2> QED BY <2>1, <2>2
  <1>3. HistoryInv'
    <2> SUFFICES ASSUME NEW i \in 1 .. MaxRows, history'[i] # NoHistory
                 PROVE  i <= serial' /\ unit'[history'[i].org].type # "none"
      BY DEF HistoryInv, NoHistory
    <2>1. history'[i] = history[i]
      BY <1>2
    <2>2. i <= serial /\ unit[history[i].org].type # "none" /\ history[i].org \in Units
      BY <2>1, HistoryTypes DEF HistoryInv
    <2> QED BY <1>1, <2>1, <2>2 DEF KeepsTypes
  <1>4. OneSlugPerOrganisation'
    BY <1>1, <1>2 DEF OneSlugPerOrganisation
  <1>5. NewestRowHoldsSlug'
    BY <1>1, <1>2, OrganisationsAssumption DEF NewestRowHoldsSlug
  <1>6. \A r \in Slugs : \A i \in ActiveRows(r)' :
           i \in ActiveRows(r) /\ history'[i].org = history[i].org
    BY <1>1, <1>2, OrganisationsAssumption DEF ActiveRows
  <1>7. \A u \in Units, i \in 1 .. MaxRows : history'[i].org = u => history[i].org = u
    BY <1>2, OrganisationsAssumption
  <1> QED BY <1>3, <1>4, <1>5, <1>6, <1>7

-----------------------------------------------------------------------------
(* The invariant is kept                                                   *)

SlugInv == BootIdle /\ RowsInv /\ NamelessInv /\ TakingInv

\* A request takes a step only when the server is up, and leaves the setup alone.
LEMMA ServesWhenUp ==
    ASSUME BootIdle, NEW p \in Requests, Arrive(p) \/ Step(p) \/ End(p)
    PROVE  boot.at = "up" /\ UNCHANGED boot
  <1>1. CASE Arrive(p)
    <2>1. boot.at = "up"
      BY <1>1 DEF Arrive
    <2>2. UNCHANGED boot
      BY <1>1 DEF Arrive, Ask, CreateOrg, CreateOrgUnit, CreateUnit, UpdateOrg, DeleteOrg,
                  DeleteUnit, AddOrgMember, AddUnitMember, RemoveOrgMember, RemoveUnitMember,
                  UpdateUnitMemberRole, AskOrg, AskUnit
    <2> QED BY <2>1, <2>2
  <1>2. CASE End(p)
    BY <1>2 DEF End, BootIdle
  <1>3. CASE Step(p)
    <2>0. Abort(p) => job[p].at # "idle"
      <3> SUFFICES ASSUME job[p].at = "idle", Abort(p) PROVE FALSE
        OBVIOUS
      <3>1. Awaits(p) = {}
        BY DEF Awaits, Wanted, At
      <3> QED BY <3>1 DEF Abort, Deadlocked
    <2>1. job[p].at # "idle"
      BY <1>3, <2>0 DEF Step, Resolve, CheckFree, InsertUnit, WriteTenant, WriteSlug, WriteOwner,
                  DeleteRow, CountMembers, Join, Promote, ReadRoleToRemove, CountToRemove, Drop,
                  BeginLock, LockAdmins, ReadRoleToSet, CountToDemote, WriteRole, At
    <2>2. UNCHANGED boot
      BY <1>3 DEF Step, Resolve, CheckFree, InsertUnit, WriteTenant, WriteSlug, WriteOwner,
                  DeleteRow, CountMembers, Join, Promote, ReadRoleToRemove, CountToRemove, Drop,
                  BeginLock, LockAdmins, ReadRoleToSet, CountToDemote, WriteRole, UpdateMemberRole,
                  Abort
    <2> QED BY <2>1, <2>2, IdleOK DEF BootIdle
  <1> QED BY <1>1, <1>2, <1>3

LEMMA BootIdleStep == TypeInv /\ BootIdle /\ [Next]_vars => BootIdle'
  <1> SUFFICES ASSUME TypeInv, BootIdle, [Next]_vars PROVE BootIdle'
    OBVIOUS
  <1>1. CASE Setup
    <2>1. UNCHANGED job /\ boot.at # "up"
      BY <1>1 DEF Setup, SetupCheck, SetupOrg, SetupTenant, SetupSlug, SetupOrgsDone, SetupMember,
                  SetupGrant, SetupDone
    <2> QED BY <2>1 DEF BootIdle
  <1>2. CASE Crash
    BY <1>2 DEF Crash, BootIdle
  <1>3. ASSUME NEW p \in Requests, Arrive(p) \/ Step(p) \/ End(p) PROVE BootIdle'
    BY <1>3, ServesWhenUp DEF BootIdle
  <1>4. CASE UNCHANGED vars
    BY <1>4 DEF vars, BootIdle
  <1> QED BY <1>1, <1>2, <1>3, <1>4 DEF Next

LEMMA UnitsKeepTypes ==
    ASSUME TypeInv, NEW p \in Requests, Arrive(p) \/ Step(p) \/ End(p)
    PROVE  KeepsTypes /\ clash \subseteq clash'
  <1>1. clash \subseteq clash'
    <2>1. CASE Arrive(p)
      BY <2>1, ArriveStep DEF Ask
    <2>2. CASE Step(p) \/ End(p)
      BY <2>2 DEF End, Step, Resolve, CheckFree, InsertUnit, WriteTenant, WriteSlug, WriteOwner,
                  DeleteRow, CountMembers, Join, Promote, ReadRoleToRemove, CountToRemove, Drop,
                  BeginLock, LockAdmins, ReadRoleToSet, CountToDemote, WriteRole, UpdateMemberRole,
                  Abort, NoteClash
    <2> QED BY <2>1, <2>2
  <1>2. CASE InsertUnit(p)
    <2>1. UNCHANGED unit \/ \E u \in Fresh : \E row : unit' = [unit EXCEPT ![u] = row]
      BY <1>2 DEF InsertUnit, rows
    <2> QED BY <1>1, <2>1 DEF KeepsTypes, Fresh, TypeInv, RowsOK
  <1>3. CASE DeleteRow(p)
    <2>1. \/ UNCHANGED unit
          \/ unit' = [v \in Units |-> IF v = job[p].unit THEN Gone
                          ELSE IF unit[v].parent = job[p].unit THEN [unit[v] EXCEPT !.parent = NoUnit]
                          ELSE unit[v]]
      BY <1>3 DEF DeleteRow, rows
    <2> QED BY <1>1, <2>1 DEF KeepsTypes, TypeInv, RowsOK, UnitRows, Gone
  <1>4. CASE ~InsertUnit(p) /\ ~DeleteRow(p)
    <2>1. UNCHANGED unit
      <3>1. CASE Reads(p)
        BY <3>1, ReadsRows DEF rows
      <3>2. CASE Arrive(p)
        BY <3>2, ArriveStep DEF Ask, rows
      <3> QED BY <1>4, <3>1, <3>2 DEF End, Step, Reads, WriteTenant, WriteSlug, WriteOwner, Join,
                     Promote, Drop, WriteRole, UpdateMemberRole, rows
    <2> QED BY <1>1, <2>1 DEF KeepsTypes
  <1> QED BY <1>2, <1>3, <1>4

\* A step of a request gives a slug to its own organisation, or adds nothing.
LEMMA RequestHistory ==
    ASSUME TypeInv, RowsInv, NamelessInv, NEW p \in Requests, Arrive(p) \/ Step(p) \/ End(p)
    PROVE  \/ Thins
           \/ /\ WriteSlug(p) /\ Gives(job[p].slug, job[p].unit) /\ UNCHANGED <<unit, clash>>
              /\ unit[job[p].unit].type # "none"
              /\ \A q \in Requests : New(q) /\ q # p => job[q].unit # job[p].unit
  <1>1. CASE UNCHANGED <<history, serial>>
    BY <1>1 DEF Thins
  <1>2. CASE DeleteRow(p)
    BY <1>2 DEF DeleteRow, Thins, rows, TypeInv, RowsOK
  <1>3. CASE WriteSlug(p) /\ ~UNCHANGED <<history, serial>>
    <2> DEFINE s == job[p].slug
               o == job[p].unit
    <2>1. s \in Slugs /\ o \in Units
      BY <1>3, AtPoint DEF WriteSlug
    <2>2. UNCHANGED <<unit, clash>>
      BY <1>3 DEF WriteSlug
    <2>3. serial \in Nat /\ MaxRows \in Nat
      BY HistoryTypes
    <2>4. CASE job[p].kind = "createOrg"
      <3>1. New(p) /\ Exists(o) /\ AppendHistory(s, o)
        BY <1>3, <2>4 DEF WriteSlug, New
      <3>2. Nameless(o)
        BY <3>1 DEF NamelessInv
      <3>3. Open(o) = {}
        BY <2>3, <3>2, HistoryTypes DEF Open, Nameless
      <3>4. serial' = serial + 1 /\ serial' \in 1 .. MaxRows
        BY <2>3, <3>1 DEF AppendHistory
      <3>5. Gives(s, o)
        BY <3>1, <3>3, <3>4 DEF Gives, AppendHistory, TypeInv, RowsOK
      <3>6. \A q \in Requests : New(q) /\ q # p => job[q].unit # o
        BY <3>1 DEF NamelessInv
      <3> HIDE DEF s, o
      <3> QED BY <1>3, <2>2, <3>2, <3>5, <3>6 DEF Nameless, s, o
    <2>5. CASE job[p].kind # "createOrg"
      <3> DEFINE open == {i \in 1 .. serial : history[i].org = o /\ ~history[i].ended
                                              /\ history[i].slug # s}
      <3>1. UpsertSlugHistory(s, o)
        BY <1>3, <2>5 DEF WriteSlug
      <3>2. open # {}
        BY <1>3, <3>1 DEF UpsertSlugHistory
      <3>3. PICK i \in 1 .. serial : history[i].org = o /\ ~history[i].ended /\ history[i].slug # s
        BY <3>2
      <3>4. open = Open(o)
        BY <3>3 DEF RowsInv, OneSlugPerOrganisation, Open
      <3>5. /\ serial < MaxRows /\ serial' = serial + 1
            /\ history' = [k \in 1 .. MaxRows |->
                   IF k = serial + 1 THEN [slug |-> s, org |-> o, ended |-> FALSE]
                   ELSE IF k \in open THEN [history[k] EXCEPT !.ended = TRUE]
                   ELSE history[k]]
        BY <3>1, <3>2 DEF UpsertSlugHistory
      <3> HIDE DEF open
      <3>6. Gives(s, o)
        BY <2>3, <3>4, <3>5 DEF Gives
      <3>7. i \in 1 .. MaxRows /\ history[i] # NoHistory
        BY <2>3, <3>3, HistoryTypes DEF NoHistory
      <3>8. unit[o].type # "none"
        BY <3>3, <3>7 DEF RowsInv, HistoryInv
      <3>9. \A q \in Requests : New(q) /\ q # p => job[q].unit # o
        BY <3>3, <3>7 DEF NamelessInv, Nameless
      <3> HIDE DEF s, o
      <3> QED BY <1>3, <2>2, <3>6, <3>8, <3>9 DEF s, o
    <2> QED BY <2>4, <2>5
  <1>4. CASE ~DeleteRow(p) /\ ~WriteSlug(p)
    <2>1. UNCHANGED <<history, serial>>
      <3>1. CASE Reads(p)
        BY <3>1, ReadsRows DEF rows
      <3>2. CASE Arrive(p)
        BY <3>2, ArriveStep DEF Ask, rows
      <3>3. CASE InsertUnit(p)
        BY <3>3 DEF InsertUnit, rows
      <3> QED BY <1>4, <3>1, <3>2, <3>3 DEF End, Step, Reads, WriteTenant, WriteOwner, Join,
                     Promote, Drop, WriteRole, UpdateMemberRole, rows
    <2> QED BY <2>1, <1>1
  <1> QED BY <1>1, <1>2, <1>3, <1>4

\* A request goes on with the organisation and the slug it had, or takes new ones.
LEMMA RequestJobs ==
    ASSUME TypeInv, NEW p \in Requests, Arrive(p) \/ Step(p) \/ End(p)
    PROVE  /\ \A q \in Requests \ {p} : job'[q] = job[q]
           /\ JobAfter(p, job'[p])
  <1>1. PICK j : job' = [job EXCEPT ![p] = j] /\ JobAfter(p, j)
    BY StepJobAfter
  <1>2. job'[p] = j /\ \A q \in Requests \ {p} : job'[q] = job[q]
    BY <1>1 DEF TypeInv, JobsOK
  <1> QED BY <1>1, <1>2

LEMMA NewAfter ==
    ASSUME TypeInv, NEW p \in Requests, Arrive(p) \/ Step(p) \/ End(p), New(p)'
    PROVE  \/ New(p) /\ job'[p].unit = job[p].unit /\ job[p].at = "tenant"
           \/ /\ InsertUnit(p) /\ UNCHANGED <<history, serial>>
              /\ job'[p].unit \in Units /\ unit[job'[p].unit].type = "none"
              /\ unit'[job'[p].unit].type # "none"
  <1>0. job[p] \in Jobs
    BY AtPoint
  <1>1. job'[p].kind = "createOrg" /\ job'[p].at \in {"tenant", "slug"}
    BY DEF New
  <1>2. CASE job[p].at = "tenant" /\ job'[p] = [job[p] EXCEPT !.at = "slug"]
    <2>1. job'[p].kind = job[p].kind /\ job'[p].unit = job[p].unit
      BY <1>0, <1>2 DEF Jobs
    <2> QED BY <1>1, <1>2, <2>1 DEF New
  <1>3. CASE /\ InsertUnit(p) /\ UNCHANGED <<history, serial>> /\ job'[p].unit \in Fresh
             /\ unit' = [unit EXCEPT ![job'[p].unit] = [NoRow EXCEPT !.type = "organization"]]
    <2>1. job'[p].unit \in Units /\ unit[job'[p].unit].type = "none"
      BY <1>3 DEF Fresh
    <2>2. unit'[job'[p].unit].type = "organization"
      BY <1>3, <2>1 DEF TypeInv, RowsOK, NoRow
    <2> QED BY <1>3, <2>1, <2>2
  <1> QED BY <1>1, <1>2, <1>3, RequestJobs DEF JobAfter

LEMMA NamelessRequest ==
    ASSUME TypeInv, SlugInv, NEW p \in Requests, Arrive(p) \/ Step(p) \/ End(p)
    PROVE  NamelessInv'
  <1> USE DEF SlugInv
  <1>0. KeepsTypes /\ ~BootNew'
    BY UnitsKeepTypes, ServesWhenUp DEF BootNew
  <1>1. \A q \in Requests \ {p} : job'[q] = job[q]
    BY RequestJobs
  <1>2. \A q \in Requests : New(q) => job[q].unit \in Units
    BY AtPoint DEF New
  \* Nobody gives a slug to the organisation of another request.
  <1>3. \A u \in Units : \A i \in 1 .. MaxRows :
           history'[i].org = u => \/ history[i].org = u
                                  \/ WriteSlug(p) /\ u = job[p].unit
                                     /\ \A q \in Requests : New(q) /\ q # p => job[q].unit # u
    <2>1. CASE Thins
      BY <1>0, <2>1, ThinsRows, UnitsKeepTypes
    <2>2. CASE ~Thins
      <3>1. /\ WriteSlug(p) /\ Gives(job[p].slug, job[p].unit) /\ UNCHANGED <<unit, clash>>
            /\ unit[job[p].unit].type # "none"
            /\ \A q \in Requests : New(q) /\ q # p => job[q].unit # job[p].unit
        BY <2>2, RequestHistory
      <3>2. job[p].unit \in Units /\ job[p].slug \in Slugs /\ Taking(p, job[p].slug)
        BY <3>1, AtPoint DEF WriteSlug, Taking
      <3>3. job[p].slug \notin clash => ActiveRows(job[p].slug) \subseteq Open(job[p].unit)
        BY <3>2 DEF TakingInv, ActiveRows, Open
      <3> QED BY <1>0, <3>1, <3>2, <3>3, GivesRows
    <2> QED BY <2>1, <2>2
  <1>4. \A q \in Requests \ {p} : New(q)' => New(q) /\ Nameless(job[q].unit)'
    <2> SUFFICES ASSUME NEW q \in Requests \ {p}, New(q)' PROVE New(q) /\ Nameless(job[q].unit)'
      OBVIOUS
    <2>1. New(q) /\ job'[q].unit = job[q].unit
      BY <1>1 DEF New
    <2>2. Nameless(job[q].unit) /\ job[q].unit \in Units
      BY <1>2, <2>1 DEF NamelessInv
    <2>3. unit'[job[q].unit].type # "none"
      BY <1>0, <2>2 DEF KeepsTypes, Nameless
    <2>4. \A i \in 1 .. MaxRows : history'[i].org # job[q].unit
      BY <1>3, <2>1, <2>2 DEF Nameless
    <2> QED BY <2>1, <2>3, <2>4 DEF Nameless
  <1>5. New(p)' => Nameless(job[p].unit)'
    <2> SUFFICES ASSUME New(p)' PROVE Nameless(job[p].unit)'
      OBVIOUS
    <2>1. CASE New(p) /\ job'[p].unit = job[p].unit /\ job[p].at = "tenant"
      <3>1. Nameless(job[p].unit) /\ job[p].unit \in Units /\ ~WriteSlug(p)
        BY <1>2, <2>1 DEF NamelessInv, WriteSlug
      <3>2. unit'[job[p].unit].type # "none"
        BY <1>0, <3>1 DEF KeepsTypes, Nameless
      <3> QED BY <1>3, <2>1, <3>1, <3>2 DEF Nameless
    <2>2. CASE /\ UNCHANGED <<history, serial>>
               /\ job'[p].unit \in Units /\ unit[job'[p].unit].type = "none"
               /\ unit'[job'[p].unit].type # "none"
      <3>1. \A i \in 1 .. MaxRows : history[i].org # job'[p].unit
        BY <2>2, OrganisationsAssumption DEF RowsInv, HistoryInv, NoHistory
      <3> QED BY <2>2, <3>1 DEF Nameless
    <2> QED BY <2>1, <2>2, NewAfter
  <1>6. \A q \in Requests \ {p} : New(p)' /\ New(q)' => job'[p].unit # job'[q].unit
    <2> SUFFICES ASSUME NEW q \in Requests \ {p}, New(p)', New(q)'
                 PROVE  job'[p].unit # job'[q].unit
      OBVIOUS
    <2>1. New(q) /\ job'[q].unit = job[q].unit /\ unit[job[q].unit].type # "none"
      BY <1>1, <1>4 DEF NamelessInv, Nameless
    <2>2. CASE New(p) /\ job'[p].unit = job[p].unit
      BY <2>1, <2>2 DEF NamelessInv
    <2>3. CASE unit[job'[p].unit].type = "none"
      BY <2>1, <2>3
    <2> QED BY <2>2, <2>3, NewAfter
  <1>7. \A q, r \in Requests \ {p} : New(q)' /\ New(r)' /\ q # r => job'[q].unit # job'[r].unit
    BY <1>1, <1>4 DEF NamelessInv
  <1> QED BY <1>0, <1>1, <1>4, <1>5, <1>6, <1>7 DEF NamelessInv

LEMMA TakingAfter ==
    ASSUME TypeInv, NEW p \in Requests, Arrive(p) \/ Step(p) \/ End(p),
           NEW s \in Slugs, Taking(p, s)'
    PROVE  \/ CheckFree(p) /\ ActiveRows(s) = {} /\ NoteClash(p, s)
           \/ /\ Resolve(p) /\ NoteClash(p, s)
              /\ job'[p].kind = "rename" /\ job'[p].unit \in Holders(s)
           \/ /\ Taking(p, s) /\ job'[p].kind = job[p].kind /\ ~WriteSlug(p)
              /\ job'[p].unit = job[p].unit \/ job[p].kind = "createOrg"
  <1>0. /\ job[p] \in Jobs /\ JobOK(job'[p])
        /\ job'[p].slug = s /\ job'[p].at \in {"insert", "tenant", "slug"}
    <2>1. TypeInv'
      BY TypeStep DEF Next
    <2> QED BY <2>1, AtPoint DEF Taking, TypeInv, JobsOK
  <1>1. job'[p].kind # "createUnit"
    BY <1>0, OrganisationsAssumption DEF JobOK
  <1>2. CASE job[p].at = "tenant" /\ job'[p] = [job[p] EXCEPT !.at = "slug"]
    <2>1. job'[p].kind = job[p].kind /\ job'[p].unit = job[p].unit /\ job'[p].slug = job[p].slug
      BY <1>0, <1>2 DEF Jobs
    <2> QED BY <1>0, <1>2, <2>1 DEF Taking, WriteSlug
  <1>3. CASE /\ InsertUnit(p) /\ job[p].at = "insert"
             /\ job'[p].kind = "createOrg" /\ job[p].kind = "createOrg"
             /\ job'[p].slug = job[p].slug
    BY <1>0, <1>3 DEF Taking, WriteSlug
  <1>4. CASE CheckFree(p) /\ ~SlugExists(job[p].slug) /\ NoteClash(p, job[p].slug)
             /\ job'[p].slug = job[p].slug
    BY <1>0, <1>4 DEF SlugExists
  <1>5. CASE Resolve(p) /\ NoteClash(p, job'[p].slug)
             /\ job'[p].kind = "rename" /\ job'[p].unit \in Holders(job'[p].slug)
    BY <1>0, <1>5
  <1> QED BY <1>0, <1>1, <1>2, <1>3, <1>4, <1>5, RequestJobs DEF JobAfter

LEMMA TakingRequest ==
    ASSUME TypeInv, SlugInv, NEW p \in Requests, Arrive(p) \/ Step(p) \/ End(p)
    PROVE  RowsInv' /\ TakingInv'
  <1> USE DEF SlugInv
  <1>0. KeepsTypes /\ clash \subseteq clash' /\ ~BootNew'
    BY UnitsKeepTypes, ServesWhenUp DEF BootNew
  <1>1. \A q \in Requests \ {p} : job'[q] = job[q]
    BY RequestJobs
  \* A slug somebody takes gets no row, unless he gives it.
  <1>2. /\ RowsInv'
        /\ \A s \in Slugs \ clash, q \in Requests :
              Taking(q, s) /\ (q = p => ~WriteSlug(p)) =>
                 \A i \in ActiveRows(s)' : i \in ActiveRows(s) /\ history'[i].org = history[i].org
        /\ ~WriteSlug(p) => \A s \in Slugs : \A i \in ActiveRows(s)' :
                 i \in ActiveRows(s) /\ history'[i].org = history[i].org
    <2>1. CASE Thins
      BY <1>0, <2>1, ThinsRows
    <2>2. CASE ~Thins
      <3> DEFINE r == job[p].slug
      <3>1. WriteSlug(p) /\ Gives(r, job[p].unit) /\ UNCHANGED clash /\ unit[job[p].unit].type # "none"
        BY <2>2, RequestHistory
      <3>2. job[p].unit \in Units /\ r \in Slugs /\ Taking(p, r)
        BY <3>1, AtPoint DEF WriteSlug, Taking
      <3>3. r \notin clash => ActiveRows(r) \subseteq Open(job[p].unit)
        BY <3>2 DEF TakingInv, ActiveRows, Open
      <3>4. \A s \in Slugs \ clash, q \in Requests \ {p} : Taking(q, s) => s # r
        BY <3>2 DEF TakingInv
      <3> HIDE DEF r
      <3> QED BY <1>0, <3>1, <3>2, <3>3, <3>4, GivesRows
    <2> QED BY <2>1, <2>2
  <1>3. ASSUME NEW s \in Slugs \ clash', NEW q \in Requests \ {p}, Taking(q, s)'
        PROVE  /\ Taking(q, s)
               /\ \A i \in ActiveRows(s)' :
                     job'[q].kind = "rename" /\ history'[i].org = job'[q].unit
    <2>1. Taking(q, s) /\ job'[q] = job[q] /\ s \in Slugs \ clash
      BY <1>0, <1>1, <1>3 DEF Taking
    <2> QED BY <1>2, <2>1 DEF TakingInv
  <1>4. ASSUME NEW s \in Slugs \ clash', Taking(p, s)'
        PROVE  /\ \A q \in Requests \ {p} : ~Taking(q, s)
               /\ \A i \in ActiveRows(s)' :
                     job'[p].kind = "rename" /\ history'[i].org = job'[p].unit
    <2>0. s \in Slugs \ clash
      BY <1>0
    <2>1. CASE CheckFree(p) /\ ActiveRows(s) = {} /\ NoteClash(p, s)
      <3>1. ~WriteSlug(p)
        BY <2>1 DEF CheckFree, WriteSlug
      <3> QED BY <1>2, <1>4, <2>1, <3>1 DEF NoteClash
    <2>2. CASE Resolve(p) /\ NoteClash(p, s) /\ job'[p].kind = "rename" /\ job'[p].unit \in Holders(s)
      <3>1. ~WriteSlug(p)
        BY <2>2 DEF Resolve, WriteSlug
      <3>2. PICK i \in ActiveRows(s) : history[i].org = job'[p].unit
        BY <2>2 DEF Holders
      <3>3. \A k \in ActiveRows(s) : k = i
        <4>1. \A k \in ActiveRows(s) : k \in Nat
          BY HistoryTypes DEF ActiveRows
        <4>2. \A k, n \in ActiveRows(s) : ~(k < n)
          BY <2>0 DEF RowsInv, NewestRowHoldsSlug, ActiveRows
        <4> QED BY <3>2, <4>1, <4>2
      <3> QED BY <1>2, <1>4, <2>2, <3>1, <3>2, <3>3 DEF NoteClash
    <2>3. CASE /\ Taking(p, s) /\ job'[p].kind = job[p].kind /\ ~WriteSlug(p)
               /\ job'[p].unit = job[p].unit \/ job[p].kind = "createOrg"
      <3>1. \A i \in ActiveRows(s) : job[p].kind = "rename" /\ history[i].org = job[p].unit
        BY <2>0, <2>3 DEF TakingInv
      <3>2. \A q \in Requests \ {p} : ~Taking(q, s)
        BY <2>0, <2>3 DEF TakingInv
      <3> QED BY <1>2, <2>3, <3>1, <3>2
    <2> QED BY <1>4, <2>1, <2>2, <2>3, TakingAfter
  <1>5. \A s \in Slugs \ clash' : \A q, r \in Requests : Taking(q, s)' /\ Taking(r, s)' => q = r
    <2> SUFFICES ASSUME NEW s \in Slugs \ clash', NEW q \in Requests, NEW r \in Requests,
                        Taking(q, s)', Taking(r, s)'
                 PROVE  q = r
      OBVIOUS
    <2>1. CASE q # p /\ r # p
      BY <1>0, <1>3, <2>1 DEF TakingInv
    <2> QED BY <1>3, <1>4, <2>1
  <1> QED BY <1>0, <1>2, <1>3, <1>4, <1>5 DEF TakingInv

LEMMA SetupSlugs ==
    ASSUME TypeInv, SlugInv, Setup
    PROVE  RowsInv' /\ NamelessInv' /\ TakingInv'
  <1> USE DEF SlugInv
  <1>1. /\ UNCHANGED <<job, clash>> /\ boot.at # "up"
    BY DEF Setup, SetupCheck, SetupOrg, SetupTenant, SetupSlug, SetupOrgsDone, SetupMember,
           SetupGrant, SetupDone
  <1>2. \A p \in Requests : ~New(p)' /\ \A s : ~Taking(p, s)'
    BY <1>1, IdleOK DEF BootIdle, New, Taking
  <1>3. BootOK
    BY DEF TypeInv
  <1>4. CASE SetupOrg /\ ~SlugExists(SetupOrgs[boot.n])
    <2>1. PICK u \in Fresh :
             /\ unit' = [unit EXCEPT ![u] = [NoRow EXCEPT !.type = "organization"]]
             /\ boot' = [boot EXCEPT !.at = "tenant", !.unit = u]
             /\ UNCHANGED <<tenant, history, serial, role>>
      BY <1>4 DEF SetupOrg
    <2>2. boot' = [at |-> "tenant", n |-> boot.n, unit |-> u]
      BY <1>3, <2>1, BootStep
    <2>3. u \in Units /\ unit[u].type = "none"
      BY DEF Fresh
    <2>4. unit'[u].type = "organization" /\ KeepsTypes
      BY <2>1, <2>3 DEF TypeInv, RowsOK, NoRow, KeepsTypes
    <2>5. Thins
      BY <2>1 DEF Thins
    <2>6. RowsInv'
      BY <1>1, <2>4, <2>5, ThinsRows
    <2>7. \A i \in 1 .. MaxRows : history[i].org # u
      BY <2>3, OrganisationsAssumption DEF RowsInv, HistoryInv, NoHistory
    <2>8. Nameless(boot.unit)'
      BY <2>1, <2>2, <2>4, <2>7 DEF Nameless
    <2>9. ActiveRows(SetupOrgs[boot.n])' = {}
      BY <1>4, <2>1, <2>2 DEF SlugExists, ActiveRows
    <2> QED BY <1>2, <2>6, <2>8, <2>9 DEF NamelessInv, TakingInv
  <1>5. CASE SetupTenant
    <2>1. UNCHANGED <<unit, history, serial>> /\ boot.at = "tenant" /\ boot' = [boot EXCEPT !.at = "slug"]
      BY <1>5 DEF SetupTenant
    <2>2. boot' = [at |-> "slug", n |-> boot.n, unit |-> boot.unit]
      BY <1>3, <2>1, BootStep
    <2>3. RowsInv'
      BY <1>1, <2>1, ThinsRows DEF Thins, KeepsTypes
    <2> QED BY <1>2, <2>1, <2>2, <2>3 DEF NamelessInv, TakingInv, BootNew, Nameless, ActiveRows
  <1>6. CASE SetupSlug
    <2> DEFINE s == SetupOrgs[boot.n]
               o == boot.unit
    <2>1. /\ AppendHistory(s, o) /\ boot.at = "slug" /\ UNCHANGED unit
          /\ boot' = [boot EXCEPT !.at = "orgs", !.n = boot.n + 1, !.unit = NoUnit]
      BY <1>6 DEF SetupSlug
    <2>2. boot'.at = "orgs"
      BY <1>3, <2>1 DEF BootOK, Boots
    <2>3. o \in Units /\ s \in Slugs
      BY <1>3, <2>1, OrganisationsAssumption DEF BootOK
    <2>4. Nameless(o) /\ ActiveRows(s) = {}
      BY <2>1 DEF NamelessInv, TakingInv, BootNew
    <2>5. serial \in Nat /\ MaxRows \in Nat
      BY HistoryTypes
    <2>6. Open(o) = {}
      BY <2>4, <2>5, HistoryTypes DEF Open, Nameless
    <2>7. serial' = serial + 1 /\ serial' \in 1 .. MaxRows
      BY <2>1, <2>5 DEF AppendHistory
    <2>8. Gives(s, o)
      BY <2>1, <2>6, <2>7 DEF Gives, AppendHistory, TypeInv, RowsOK
    <2>9. unit[o].type # "none" /\ KeepsTypes
      BY <2>1, <2>4 DEF Nameless, KeepsTypes
    <2> HIDE DEF s, o
    <2>10. RowsInv'
      BY <1>1, <2>3, <2>4, <2>8, <2>9, GivesRows
    <2> QED BY <1>2, <2>2, <2>10 DEF NamelessInv, TakingInv, BootNew
  <1>7. CASE \/ SetupCheck \/ SetupOrgsDone \/ SetupMember \/ SetupGrant \/ SetupDone
             \/ SetupOrg /\ SlugExists(SetupOrgs[boot.n])
    <2>1. UNCHANGED <<unit, history, serial>>
      BY <1>7 DEF SetupCheck, SetupOrgsDone, SetupMember, SetupGrant, SetupDone, SetupOrg, rows
    <2>2. ~BootNew'
      <3> USE <1>3 DEF BootNew, BootOK, Boots
      <3>1. CASE SetupMember
        <4>1. \/ boot' = [boot EXCEPT !.at = "failed"] \/ boot' = [boot EXCEPT !.n = boot.n + 1]
              \/ \E o : boot' = [boot EXCEPT !.at = "grant", !.unit = o]
          BY <3>1 DEF SetupMember
        <4>2. boot.at = "members"
          BY <3>1 DEF SetupMember
        <4> QED BY <4>1, <4>2
      <3>2. CASE SetupCheck \/ SetupOrgsDone \/ SetupGrant \/ SetupDone
        BY <3>2 DEF SetupCheck, SetupOrgsDone, SetupGrant, SetupDone
      <3>3. CASE SetupOrg /\ SlugExists(SetupOrgs[boot.n])
        BY <3>3 DEF SetupOrg
      <3> QED BY <1>7, <3>1, <3>2, <3>3
    <2>3. RowsInv'
      BY <1>1, <2>1, ThinsRows DEF Thins, KeepsTypes
    <2> QED BY <1>2, <2>2, <2>3 DEF NamelessInv, TakingInv
  <1> QED BY <1>4, <1>5, <1>6, <1>7 DEF Setup

LEMMA SlugInit == Init => SlugInv
  <1> SUFFICES ASSUME Init PROVE SlugInv
    OBVIOUS
  <1>1. /\ \A p \in Requests : job[p] = Idle
        /\ \A i \in 1 .. MaxRows : history[i] = NoHistory
        /\ 1 .. serial = {} /\ boot.at = "check"
    BY DEF Init, Start
  <1> QED
    BY <1>1, IdleOK DEF SlugInv, BootIdle, RowsInv, HistoryInv, OneSlugPerOrganisation,
       NewestRowHoldsSlug, NamelessInv, TakingInv, New, Taking, BootNew

LEMMA SlugStep == TypeInv /\ SlugInv /\ [Next]_vars => SlugInv'
  <1> SUFFICES ASSUME TypeInv, SlugInv, [Next]_vars PROVE SlugInv'
    OBVIOUS
  <1>1. BootIdle'
    BY BootIdleStep DEF SlugInv
  <1>2. CASE Setup
    BY <1>1, <1>2, SetupSlugs DEF SlugInv
  <1>3. CASE Crash
    <2>1. /\ UNCHANGED <<rows, clash>> /\ boot'.at = "check"
          /\ \A p \in Requests : job'[p] = Idle
      BY <1>3 DEF Crash, Start
    <2>2. RowsInv'
      BY <2>1 DEF SlugInv, RowsInv, HistoryInv, OneSlugPerOrganisation, NewestRowHoldsSlug, rows,
                  NoHistory
    <2>3. NamelessInv' /\ TakingInv'
      BY <2>1, IdleOK DEF NamelessInv, TakingInv, New, Taking, BootNew
    <2> QED BY <1>1, <2>2, <2>3 DEF SlugInv
  <1>4. ASSUME NEW p \in Requests, Arrive(p) \/ Step(p) \/ End(p) PROVE SlugInv'
    BY <1>1, <1>4, NamelessRequest, TakingRequest DEF SlugInv
  <1>5. CASE UNCHANGED vars
    <2>1. /\ UNCHANGED <<unit, history, serial>> /\ UNCHANGED <<job, boot, clash>>
      BY <1>5 DEF vars
    <2>2. RowsInv'
      BY <2>1, ThinsRows DEF SlugInv, Thins, KeepsTypes
    <2>3. NamelessInv'
      BY <2>1 DEF SlugInv, NamelessInv, New, BootNew, Nameless
    <2>4. TakingInv'
      BY <2>1 DEF SlugInv, TakingInv, Taking, BootNew, ActiveRows
    <2> QED BY <1>1, <2>2, <2>3, <2>4 DEF SlugInv
  <1> QED BY <1>2, <1>3, <1>4, <1>5 DEF Next

LEMMA SlugsHold == Spec => [](TypeInv /\ SlugInv)
  <1> QED BY TypeInit, TypeStep, SlugInit, SlugStep, PTL DEF Spec

-----------------------------------------------------------------------------
(* The invariant about tenants                                             *)

\* An organisation has its row of tenants before it has a slug, and keeps it as long.
TenantInv ==
    /\ \A i \in 1 .. serial : ~history[i].ended => tenant[history[i].org] # "none"
    /\ \A p \in Requests :
          job[p].kind = "createOrg" /\ job[p].at = "slug" /\ Exists(job[p].unit)
          => tenant[job[p].unit] # "none"
    /\ boot.at = "slug" => tenant[boot.unit] # "none"

\* Units and tenants only go together, with the slugs of the organisation.
LEMMA TenantsStay ==
    ASSUME TypeInv, NEW p \in Requests, Arrive(p) \/ Step(p) \/ End(p)
    PROVE  \A u \in Units :
              /\ tenant[u] # "none" => \/ tenant'[u] # "none"
                                       \/ ~Exists(u)' /\ \A i \in 1 .. MaxRows : history'[i].org # u
              /\ unit[u].type # "none" /\ Exists(u)' => Exists(u)
  <1>0. RowsOK
    BY DEF TypeInv
  <1>1. CASE UNCHANGED <<unit, tenant>>
    BY <1>1 DEF Exists
  <1>2. CASE InsertUnit(p) /\ ~UNCHANGED unit
    <2>1. UNCHANGED tenant /\ \E x \in Fresh : \E row : unit' = [unit EXCEPT ![x] = row]
      BY <1>2 DEF InsertUnit, rows
    <2>2. PICK x \in Units : unit[x].type = "none" /\ \E row : unit' = [unit EXCEPT ![x] = row]
      BY <2>1 DEF Fresh
    <2>3. \A u \in Units : u # x => unit'[u] = unit[u]
      BY <1>0, <2>2 DEF RowsOK
    <2> QED BY <2>1, <2>2, <2>3 DEF Exists
  <1>3. CASE WriteTenant(p) /\ ~UNCHANGED tenant
    <2>1. PICK o \in Units : o = job[p].unit
      BY <1>3, AtPoint DEF WriteTenant
    <2>2. /\ UNCHANGED unit
          /\ tenant' = [tenant EXCEPT ![o] = IF job[p].kind = "rename" THEN job[p].want ELSE "shared"]
      BY <1>3, <2>1 DEF WriteTenant, rows
    <2>3. job[p].kind = "rename" => job[p].want \in {"shared", "isolated"}
      BY OrganisationsAssumption, AtPoint DEF JobOK
    <2>4. \A u \in Units : tenant[u] # "none" => tenant'[u] # "none"
      BY <1>0, <2>1, <2>2, <2>3 DEF RowsOK
    <2> QED BY <2>2, <2>4 DEF Exists
  <1>4. CASE DeleteRow(p) /\ ~UNCHANGED rows
    <2>1. PICK o \in Units : o = job[p].unit
      BY <1>4, AtPoint DEF DeleteRow
    <2>2. /\ unit' = [v \in Units |-> IF v = o THEN Gone
                          ELSE IF unit[v].parent = o THEN [unit[v] EXCEPT !.parent = NoUnit]
                          ELSE unit[v]]
          /\ tenant' = [tenant EXCEPT ![o] = "none"]
          /\ history' = [i \in 1 .. MaxRows |->
                             IF history[i].org = o THEN NoHistory ELSE history[i]]
      BY <1>4, <2>1 DEF DeleteRow
    <2>3. ~Exists(o)'
      BY <2>2 DEF Exists, Gone
    <2>4. \A i \in 1 .. MaxRows : history'[i].org # o
      BY <2>1, <2>2, OrganisationsAssumption DEF NoHistory
    <2>5. \A u \in Units : u # o => tenant'[u] = tenant[u]
      BY <1>0, <2>2 DEF RowsOK
    <2>6. \A u \in Units : u # o => unit'[u].type = unit[u].type
      BY <1>0, <2>2 DEF RowsOK, UnitRows
    <2>7. \A u \in Units : u # o => (Exists(u)' => Exists(u))
      BY <2>6 DEF Exists
    <2> QED BY <2>3, <2>4, <2>5, <2>7
  <1>5. CASE ~InsertUnit(p) /\ ~WriteTenant(p) /\ ~DeleteRow(p)
    <2>1. UNCHANGED <<unit, tenant>>
      <3>1. CASE Reads(p)
        BY <3>1, ReadsRows DEF rows
      <3>2. CASE Arrive(p)
        BY <3>2, ArriveStep DEF Ask, rows
      <3> QED BY <1>5, <3>1, <3>2 DEF End, Step, Reads, WriteSlug, WriteOwner, Join, Promote,
                     Drop, WriteRole, UpdateMemberRole, rows
    <2> QED BY <2>1, <1>1
  <1>6. /\ InsertUnit(p) => UNCHANGED tenant
        /\ WriteTenant(p) => UNCHANGED unit
        /\ UNCHANGED rows => UNCHANGED <<unit, tenant>>
    BY DEF InsertUnit, WriteTenant, rows
  <1> QED BY <1>1, <1>2, <1>3, <1>4, <1>5, <1>6

\* The organisation whose slug a request writes has its tenant.
LEMMA GivenHasTenant ==
    ASSUME TypeInv, TenantInv, NEW p \in Requests, WriteSlug(p), ~UNCHANGED <<history, serial>>
    PROVE  tenant'[job[p].unit] # "none"
  <1>1. UNCHANGED tenant /\ job[p].at = "slug"
    BY DEF WriteSlug
  <1>2. CASE job[p].kind = "createOrg"
    BY <1>1, <1>2 DEF WriteSlug, TenantInv
  <1>3. CASE job[p].kind # "createOrg"
    <2>1. UpsertSlugHistory(job[p].slug, job[p].unit)
      BY <1>3 DEF WriteSlug
    <2>2. PICK i \in 1 .. serial : history[i].org = job[p].unit /\ ~history[i].ended
      BY <2>1 DEF UpsertSlugHistory
    <2> QED BY <1>1, <2>2 DEF TenantInv
  <1> QED BY <1>2, <1>3

LEMMA TenantRequest ==
    ASSUME TypeInv, SlugInv, TenantInv, NEW p \in Requests, Arrive(p) \/ Step(p) \/ End(p)
    PROVE  TenantInv'
  <1>1. boot'.at = "up"
    BY ServesWhenUp DEF SlugInv
  <1>2. /\ serial \in Nat /\ 1 .. serial \subseteq 1 .. MaxRows
    BY HistoryTypes
  <1>3. ASSUME NEW i \in 1 .. serial', ~history'[i].ended PROVE tenant'[history'[i].org] # "none"
    <2>1. CASE i \in 1 .. serial /\ ~history[i].ended /\ history'[i].org = history[i].org
      <3>1. PICK u \in Units : u = history[i].org
        BY <1>2, <2>1, HistoryTypes
      <3>2. tenant[u] # "none" /\ i \in 1 .. MaxRows /\ history'[i].org = u
        BY <1>2, <2>1, <3>1 DEF TenantInv
      <3> QED BY <3>2, TenantsStay
    <2>2. CASE Thins
      <3>1. i \in 1 .. serial /\ i \in 1 .. MaxRows
        BY <1>2, <2>2 DEF Thins
      <3>2. history'[i] = history[i]
        BY <1>3, <2>2, <3>1 DEF Thins, NoHistory
      <3> QED BY <1>3, <2>1, <3>1, <3>2
    <2>3. CASE ~Thins
      <3>1. WriteSlug(p) /\ Gives(job[p].slug, job[p].unit)
        BY <2>3, RequestHistory DEF SlugInv
      <3>2. i = serial' \/ (i \in 1 .. serial /\ i \in 1 .. MaxRows)
        BY <1>2, <3>1 DEF Gives
      <3>3. CASE i = serial'
        <4>0. history'[serial'] = [slug |-> job[p].slug, org |-> job[p].unit, ended |-> FALSE]
          BY <3>1 DEF Gives
        <4>1. history'[i].org = job[p].unit
          BY <3>3, <4>0
        <4>2. ~UNCHANGED <<history, serial>>
          BY <1>2, <3>1 DEF Gives
        <4> QED BY <3>1, <4>1, <4>2, GivenHasTenant
      <3>4. CASE i # serial'
        <4>1. i \notin Open(job[p].unit)
          <5> SUFFICES ASSUME i \in Open(job[p].unit) PROVE FALSE
            OBVIOUS
          <5>1. history[i] \in [slug : Slugs, org : Units, ended : BOOLEAN]
            BY <3>2, <3>4, HistoryTypes DEF Open, NoHistory
          <5>2. history'[i] = [history[i] EXCEPT !.ended = TRUE]
            BY <3>1, <3>2, <3>4 DEF Gives
          <5> QED BY <1>3, <5>1, <5>2
        <4>2. history'[i] = history[i]
          BY <3>1, <3>2, <3>4, <4>1 DEF Gives
        <4> QED BY <1>3, <2>1, <3>2, <3>4, <4>2
      <3> QED BY <3>3, <3>4
    <2> QED BY <2>2, <2>3
  <1>4. ASSUME NEW q \in Requests, job'[q].kind = "createOrg", job'[q].at = "slug",
               Exists(job[q].unit)'
        PROVE  tenant'[job'[q].unit] # "none"
    <2>1. CASE q # p
      <3>1. job'[q] = job[q]
        BY <2>1, RequestJobs
      <3>2. New(q)
        BY <1>4, <3>1 DEF New
      <3>3. PICK u \in Units : u = job[q].unit /\ u = job'[q].unit
        BY <1>4, <3>1, AtPoint
      <3>4. Exists(u)' /\ unit[u].type # "none"
        BY <1>4, <3>2, <3>3 DEF SlugInv, NamelessInv, Nameless, Exists
      <3>5. Exists(u)
        BY <3>4, TenantsStay
      <3>6. tenant[u] # "none"
        BY <1>4, <3>1, <3>3, <3>5 DEF TenantInv
      <3> QED BY <3>3, <3>4, <3>6, TenantsStay
    <2>2. CASE q = p
      <3>1. /\ WriteTenant(p) /\ job'[p] = [job[p] EXCEPT !.at = "slug"]
        BY <1>4, <2>2, RequestJobs DEF JobAfter, CheckFree
      <3>2. PICK u \in Units : u = job[p].unit
        BY <3>1, AtPoint DEF WriteTenant
      <3>3. job[p] \in Jobs /\ job[p].at = "tenant"
        BY <3>1, AtPoint DEF WriteTenant
      <3>4. job'[p].unit = u /\ job[p].kind = "createOrg"
        BY <1>4, <2>2, <3>1, <3>2, <3>3 DEF Jobs
      <3>5. job'[p] # Idle
        BY <1>4, <2>2, IdleOK
      <3>6. ~Finish(p)
        BY <3>5 DEF Finish, TypeInv, JobsOK
      <3>7. tenant' = [tenant EXCEPT ![u] = "shared"]
        BY <3>1, <3>2, <3>4, <3>6 DEF WriteTenant
      <3> QED BY <2>2, <3>4, <3>7 DEF TypeInv, RowsOK
    <2> QED BY <2>1, <2>2
  <1> QED BY <1>1, <1>3, <1>4 DEF TenantInv

LEMMA TenantSetup ==
    ASSUME TypeInv, SlugInv, TenantInv, Setup
    PROVE  TenantInv'
  <1>1. BootOK /\ serial \in Nat /\ 1 .. serial \subseteq 1 .. MaxRows
    BY HistoryTypes DEF TypeInv
  <1>2. \A p \in Requests : job'[p].at # "slug"
    BY IdleOK DEF SlugInv, BootIdle, Setup, SetupCheck, SetupOrg, SetupTenant, SetupSlug,
       SetupOrgsDone, SetupMember, SetupGrant, SetupDone
  <1>3. CASE SetupTenant
    <2>1. PICK u \in Units : u = boot.unit
      BY <1>1, <1>3 DEF SetupTenant, BootOK
    <2>2. boot' = [at |-> "slug", n |-> boot.n, unit |-> boot.unit]
      BY <1>1, <1>3, BootStep DEF SetupTenant
    <2>3. tenant' = [tenant EXCEPT ![u] = "shared"] /\ UNCHANGED <<history, serial>>
      BY <1>3, <2>1 DEF SetupTenant
    <2>4. tenant'[u] # "none" /\ \A v \in Units : tenant[v] # "none" => tenant'[v] # "none"
      BY <2>1, <2>3 DEF TypeInv, RowsOK
    <2>5. \A i \in 1 .. serial : ~history[i].ended => history[i].org \in Units
      BY <1>1, HistoryTypes
    <2> QED BY <1>2, <2>1, <2>2, <2>3, <2>4, <2>5 DEF TenantInv
  <1>4. CASE SetupSlug
    <2>1. /\ AppendHistory(SetupOrgs[boot.n], boot.unit) /\ boot.at = "slug" /\ UNCHANGED tenant
          /\ boot' = [boot EXCEPT !.at = "orgs", !.n = boot.n + 1, !.unit = NoUnit]
      BY <1>4 DEF SetupSlug
    <2>2. boot'.at = "orgs"
      BY <1>1, <2>1 DEF BootOK, Boots
    <2>3. serial' = serial + 1 /\ serial' \in 1 .. MaxRows
      BY <1>1, <2>1, OrganisationsAssumption DEF AppendHistory
    <2>4. history'[serial'].org = boot.unit
      BY <2>1, <2>3 DEF AppendHistory, TypeInv, RowsOK
    <2>5. \A i \in 1 .. serial : history'[i] = history[i]
      BY <1>1, <2>1 DEF AppendHistory, TypeInv, RowsOK
    <2>6. \A i \in 1 .. serial' : i = serial' \/ i \in 1 .. serial
      BY <1>1, <2>3
    <2> QED BY <1>2, <2>1, <2>2, <2>4, <2>5, <2>6 DEF TenantInv
  <1>5. CASE \/ SetupCheck \/ SetupOrg \/ SetupOrgsDone \/ SetupMember \/ SetupGrant \/ SetupDone
    <2>1. UNCHANGED <<tenant, history, serial>>
      BY <1>5 DEF SetupCheck, SetupOrg, SetupOrgsDone, SetupMember, SetupGrant, SetupDone, rows
    <2>2. boot'.at # "slug"
      <3> USE <1>1 DEF BootOK, Boots
      <3>1. CASE SetupMember
        <4>1. \/ boot' = [boot EXCEPT !.at = "failed"] \/ boot' = [boot EXCEPT !.n = boot.n + 1]
              \/ \E o : boot' = [boot EXCEPT !.at = "grant", !.unit = o]
          BY <3>1 DEF SetupMember
        <4>2. boot.at = "members"
          BY <3>1 DEF SetupMember
        <4> QED BY <4>1, <4>2
      <3>2. CASE SetupCheck \/ SetupOrgsDone \/ SetupGrant \/ SetupDone
        BY <3>2 DEF SetupCheck, SetupOrgsDone, SetupGrant, SetupDone
      <3>3. CASE SetupOrg
        <4>1. boot.at = "orgs" /\ (\/ boot' = [boot EXCEPT !.n = boot.n + 1]
                                   \/ \E u : boot' = [boot EXCEPT !.at = "tenant", !.unit = u])
          BY <3>3 DEF SetupOrg
        <4> QED BY <4>1
      <3> QED BY <1>5, <3>1, <3>2, <3>3
    <2> QED BY <1>2, <2>1, <2>2 DEF TenantInv
  <1> QED BY <1>3, <1>4, <1>5 DEF Setup

LEMMA TenantStep == TypeInv /\ SlugInv /\ TenantInv /\ [Next]_vars => TenantInv'
  <1> SUFFICES ASSUME TypeInv, SlugInv, TenantInv, [Next]_vars PROVE TenantInv'
    OBVIOUS
  <1>1. CASE Crash
    <2>1. UNCHANGED rows /\ boot'.at = "check" /\ \A p \in Requests : job'[p] = Idle
      BY <1>1 DEF Crash, Start
    <2> QED BY <2>1, IdleOK DEF TenantInv, rows
  <1>2. CASE UNCHANGED vars
    BY <1>2 DEF TenantInv, vars, Exists
  <1> QED BY <1>1, <1>2, TenantRequest, TenantSetup DEF Next

LEMMA TenantsHold == Spec => [](TypeInv /\ SlugInv /\ TenantInv)
  <1>1. Init => TenantInv
    BY IdleOK DEF Init, TenantInv, Start
  <1> QED BY <1>1, TypeInit, TypeStep, SlugInit, SlugStep, TenantStep, PTL DEF Spec

-----------------------------------------------------------------------------
(* Theorems                                                                *)

\* An organisation has one open slug at most: UpsertSlugHistory ends the row it
\* replaces in the statement that inserts the new one, and a new organisation gets
\* its first row from the request, or the setup, that made it.
THEOREM OneSlug == Spec => []OneSlugPerOrganisation
  <1>1. SlugInv => OneSlugPerOrganisation
    BY DEF SlugInv, RowsInv
  <1> QED BY <1>1, SlugsHold, PTL

\* Only the newest row of a slug is open, if no two requests ever held the slug to be
\* free at a time: the check and the insert are statements of their own.
THEOREM NewestHolds == Spec => []NewestRowHoldsSlug
  <1>1. SlugInv => NewestRowHoldsSlug
    BY DEF SlugInv, RowsInv
  <1> QED BY <1>1, SlugsHold, PTL

\* The slug a person is shown for an organisation leads to it: its holder is the one
\* the list names, both status endpoints call it taken, and the tenant middleware finds
\* the row of tenants it asks for, which names a shared database unless an update
\* changed it.
THEOREM ListedOpen == Spec => []ListedOrganisationsOpen
  <1>1. TypeInv /\ SlugInv /\ TenantInv => ListedOrganisationsOpen
    <2> SUFFICES ASSUME TypeInv, SlugInv, TenantInv, NEW w \in People,
                        NEW shown \in ListOrganizationsOfUser(w), shown.slug \in Slugs \ clash
                 PROVE  /\ Holders(shown.slug) = {shown.org} /\ NewestOpen(shown.slug)
                        /\ tenant[shown.org] = "isolated" \/ Reached(shown.slug) = {shown.org}
      BY DEF ListedOrganisationsOpen
    <2>1. PICK i \in ActiveRows(shown.slug) : history[i].org = shown.org
      BY OrganisationsAssumption DEF ListOrganizationsOfUser
    <2>2. \A k \in ActiveRows(shown.slug) : k \in Nat
      BY HistoryTypes DEF ActiveRows
    <2>3. \A k \in 1 .. serial : history[k].slug = shown.slug => ~(i < k)
      BY <2>1 DEF SlugInv, RowsInv, NewestRowHoldsSlug, ActiveRows
    <2>4. \A k \in ActiveRows(shown.slug) : ~(k < i) /\ ~(i < k)
      BY <2>1, <2>3 DEF SlugInv, RowsInv, NewestRowHoldsSlug, ActiveRows
    <2>5. \A k \in ActiveRows(shown.slug) : k = i
      BY <2>1, <2>2, <2>4
    <2>6. Holders(shown.slug) = {shown.org}
      BY <2>1, <2>5 DEF Holders
    <2>7. NewestOpen(shown.slug)
      BY <2>1, <2>2, <2>3, HistoryTypes DEF NewestOpen
    <2>8. shown.org \in Units /\ tenant[shown.org] # "none"
      BY <2>1, HistoryTypes DEF ActiveRows, TenantInv
    <2>9. tenant[shown.org] = "isolated" \/ Reached(shown.slug) = {shown.org}
      BY <2>6, <2>8 DEF Reached, TypeInv, RowsOK
    <2> QED BY <2>6, <2>7, <2>9
  <1> QED BY <1>1, TenantsHold, PTL

-----------------------------------------------------------------------------
(* The invariant about roles                                               *)

Changing == {"drop", "write", "promote", "owner"}

\* Nobody shares a locked row.
LocksInv ==
    \A p, q \in Requests : p # q /\ job[p].unit = job[q].unit =>
        job[p].held \intersect job[q].held = {}

\* A demotion about to be written holds the row of an administrator who will be left.
DemotionInv ==
    \A p \in Requests :
        /\ job[p].at = "write" /\ job[p].want = "member" /\ job[p].unit \notin raced
        => \E w \in job[p].held : w # job[p].who /\ w \in Admins(job[p].unit)

\* A removal about to be made is the only change of the unit's roles under way.
AloneInv ==
    \A p, q \in Requests :
        /\ p # q /\ job[p].unit = job[q].unit
        /\ job[p].at = "drop" /\ job[q].at \in Changing
        => job[p].unit \in raced

\* A removal about to be made leaves an administrator, if it takes one.
RemovalInv ==
    \A p \in Requests : job[p].at = "drop" /\ job[p].unit \notin raced =>
        \/ job[p].who \notin Admins(job[p].unit)
        \/ \E w \in Admins(job[p].unit) : w # job[p].who

RoleInv == LocksInv /\ DemotionInv /\ AloneInv /\ RemovalInv

-----------------------------------------------------------------------------
(* What a request's step does to its job and to the roles                  *)

\* Two administrators, or none of whom one is removed: somebody else is left.
LEMMA Another ==
    ASSUME NEW S, IsFiniteSet(S), Cardinality(S) # 1, NEW w, w \in S
    PROVE  \E v \in S : v # w
  <1> SUFFICES ASSUME \A v \in S : v = w PROVE FALSE
    OBVIOUS
  <1>1. S = {w}
    OBVIOUS
  <1> QED BY <1>1, FS_Singleton

\* The job of a request after its step, as far as roles are concerned.
RoleJobAfter(p, j) ==
    \/ j.at \notin Changing /\ j.held = {}
    \/ /\ j.at \notin Changing /\ j.unit = job[p].unit
       /\ \A w \in j.held : w \in job[p].held \/ ~Locked(p, job[p].unit, w)
    \/ j.at \in {"promote", "owner"} /\ j.held = {} /\ NoteRace(p, j.unit, FALSE)
    \/ /\ j.at = "drop" /\ j.held = {} /\ j.unit = job[p].unit /\ j.who = job[p].who
       /\ NoteRace(p, job[p].unit, TRUE)
       /\ j.who \in Admins(j.unit) => \E w \in Admins(j.unit) : w # j.who
    \/ /\ j.at = "write" /\ j.held = job[p].held /\ j.unit = job[p].unit /\ j.who = job[p].who
       /\ j.want = job[p].want
       /\ \/ j.want # "member" /\ NoteRace(p, job[p].unit, FALSE)
          \/ /\ NoteRace(p, job[p].unit, FALSE)
             /\ \E w \in job[p].held : w # job[p].who /\ w \in Admins(job[p].unit)
          \/ raced' = raced \union {job[p].unit}

LEMMA AdminsFinite ==
    ASSUME NEW u PROVE IsFiniteSet(Admins(u)) /\ Admins(u) \subseteq People
  BY FS_Subset, OrganisationsAssumption DEF Admins

LEMMA StepRoleJob ==
    ASSUME TypeInv, NEW p \in Requests, Arrive(p) \/ Step(p) \/ End(p)
    PROVE  \E j : job' = [job EXCEPT ![p] = j] /\ RoleJobAfter(p, j)
  <1>0. /\ job \in [Requests -> Jobs] /\ job[p] \in Jobs
        /\ job[p].kind # "setRole" => job[p].held = {}
    BY AtPoint DEF TypeInv, JobsOK, JobOK
  <1> USE DEF Changing
  <1>1. CASE Finish(p)
    BY <1>1, IdleOK DEF Finish, RoleJobAfter
  <1>2. CASE Arrive(p)
    <2>1. PICK j : JobOK(j) /\ Ask(p, j) /\ Asked(j)
      BY <1>2, ArriveStep
    <2> QED BY <2>1 DEF RoleJobAfter, Ask, Asked
  <1>3. ASSUME NEW at \in {"insert", "tenant", "slug", "free", "delete", "count", "role", "join"},
               Move(p, at)
        PROVE  \E j : job' = [job EXCEPT ![p] = j] /\ RoleJobAfter(p, j)
    <2>1. job' = [job EXCEPT ![p] = [job[p] EXCEPT !.at = at]]
      BY <1>0, <1>3 DEF Move
    <2> DEFINE j == [job[p] EXCEPT !.at = at]
    <2>2. j.at = at /\ j.held = job[p].held /\ j.unit = job[p].unit
      BY <1>0 DEF Jobs
    <2> HIDE DEF j
    <2>3. RoleJobAfter(p, j)
      BY <2>2 DEF RoleJobAfter
    <2> QED BY <2>1, <2>3 DEF j
  <1>4. CASE Resolve(p) /\ ~Finish(p)
    <2> DEFINE then == CASE job[p].kind = "createUnit" -> "insert"
                         [] job[p].kind = "rename" -> IF job[p].slug = job[p].path THEN "tenant" ELSE "free"
                         [] job[p].kind = "deleteOrg"  -> "delete"
                         [] job[p].kind = "add"        -> "count"
                         [] job[p].kind = "remove"     -> "role"
    <2>1. PICK o \in Holders(job[p].path) : job' = [job EXCEPT ![p].at = then, ![p].unit = o]
      BY <1>4 DEF Resolve
    <2>2. job[p].at = "resolve" /\ JobOK(job[p])
      BY <1>4, AtPoint DEF Resolve
    <2>3. job[p].kind \in {"createUnit", "rename", "deleteOrg", "add", "remove"}
      BY <1>0, <2>2 DEF JobOK, PointsOf, Jobs, Kinds
    <2>4. then \in {"insert", "tenant", "free", "delete", "count", "role"}
      BY <2>3
    <2> HIDE DEF then
    <2> DEFINE j == [job[p] EXCEPT !.at = then, !.unit = o]
    <2>5. job' = [job EXCEPT ![p] = j]
      BY <1>0, <2>1
    <2>6. j.at = then /\ j.held = {}
      BY <1>0, <2>3 DEF Jobs
    <2> HIDE DEF j
    <2>7. RoleJobAfter(p, j)
      BY <2>4, <2>6 DEF RoleJobAfter
    <2> QED BY <2>5, <2>7
  <1>5. CASE InsertUnit(p) /\ ~Finish(p)
    <2>1. PICK u \in Fresh :
             \/ job' = [job EXCEPT ![p].unit = u, ![p].at = "tenant"]
             \/ job' = [job EXCEPT ![p].unit = u, ![p].at = "owner"] /\ NoteRace(p, u, FALSE)
      BY <1>5 DEF InsertUnit
    <2>2. job[p].held = {}
      BY <1>0, <1>5, AtPoint DEF InsertUnit
    <2>3. PICK at \in {"tenant", "owner"} :
             /\ job' = [job EXCEPT ![p] = [job[p] EXCEPT !.unit = u, !.at = at]]
             /\ at = "owner" => NoteRace(p, u, FALSE)
      BY <1>0, <2>1
    <2> DEFINE j == [job[p] EXCEPT !.unit = u, !.at = at]
    <2>4. j.at = at /\ j.held = {} /\ j.unit = u
      BY <1>0, <2>2 DEF Jobs
    <2> HIDE DEF j
    <2>5. RoleJobAfter(p, j)
      BY <2>3, <2>4 DEF RoleJobAfter
    <2> QED BY <2>3, <2>5 DEF j
  <1>6. CASE CountMembers(p) \/ BeginLock(p)
    <2>0. PICK at \in {"join", "wait"} : \E seen :
             job' = [job EXCEPT ![p] = [job[p] EXCEPT !.at = at, !.seen = seen]]
      BY <1>0, <1>6 DEF CountMembers, BeginLock
    <2>1. PICK seen : job' = [job EXCEPT ![p] = [job[p] EXCEPT !.at = at, !.seen = seen]]
      BY <2>0
    <2> DEFINE j == [job[p] EXCEPT !.at = at, !.seen = seen]
    <2>2. j.at = at /\ j.held = job[p].held /\ j.unit = job[p].unit
      BY <1>0 DEF Jobs
    <2> HIDE DEF j
    <2>3. RoleJobAfter(p, j)
      BY <2>2 DEF RoleJobAfter
    <2> QED BY <2>1, <2>3 DEF j
  <1>7. CASE LockAdmins(p)
    <2>1. PICK at \in {"wait", "role"}, seen \in SUBSET People, held \in SUBSET People :
             /\ job' = [job EXCEPT ![p] = [job[p] EXCEPT !.at = at, !.seen = seen, !.held = held]]
             /\ \A w \in held : w \in job[p].held \/ ~Locked(p, job[p].unit, w)
      BY <1>7, LockStep
    <2> DEFINE j == [job[p] EXCEPT !.at = at, !.seen = seen, !.held = held]
    <2>2. j.at = at /\ j.held = held /\ j.unit = job[p].unit
      BY <1>0 DEF Jobs
    <2>3. job' = [job EXCEPT ![p] = j]
      BY <2>1
    <2> HIDE DEF j
    <2>4. RoleJobAfter(p, j)
      BY <2>1, <2>2 DEF RoleJobAfter
    <2> QED BY <2>3, <2>4
  <1>8. ASSUME NEW at \in {"promote", "owner"}, Move(p, at), NoteRace(p, job[p].unit, FALSE),
               job[p].held = {}
        PROVE  \E j : job' = [job EXCEPT ![p] = j] /\ RoleJobAfter(p, j)
    <2>1. job' = [job EXCEPT ![p] = [job[p] EXCEPT !.at = at]]
      BY <1>0, <1>8 DEF Move
    <2> DEFINE j == [job[p] EXCEPT !.at = at]
    <2>2. j.at = at /\ j.held = job[p].held /\ j.unit = job[p].unit
      BY <1>0 DEF Jobs
    <2> HIDE DEF j
    <2>3. RoleJobAfter(p, j)
      BY <1>8, <2>2 DEF RoleJobAfter
    <2> QED BY <2>1, <2>3 DEF j
  <1>9. CASE WriteSlug(p) \/ Join(p)
    <2>1. job[p].held = {}
      BY <1>0, <1>9, AtPoint DEF WriteSlug, Join
    <2>2. \/ Finish(p)
          \/ Move(p, "owner") /\ NoteRace(p, job[p].unit, FALSE)
          \/ Move(p, "promote") /\ NoteRace(p, job[p].unit, FALSE)
      BY <1>9 DEF WriteSlug, Join
    <2> QED BY <1>1, <1>8, <2>1, <2>2
  <1>10. ASSUME Move(p, "drop"), NoteRace(p, job[p].unit, TRUE), job[p].held = {},
                job[p].who \in Admins(job[p].unit) =>
                    \E w \in Admins(job[p].unit) : w # job[p].who
         PROVE  \E j : job' = [job EXCEPT ![p] = j] /\ RoleJobAfter(p, j)
    <2> DEFINE j == [job[p] EXCEPT !.at = "drop"]
    <2>1. job' = [job EXCEPT ![p] = j]
      BY <1>0, <1>10 DEF Move
    <2>2. j.at = "drop" /\ j.held = job[p].held /\ j.unit = job[p].unit /\ j.who = job[p].who
      BY <1>0 DEF Jobs
    <2> HIDE DEF j
    <2>3. RoleJobAfter(p, j)
      BY <1>10, <2>2 DEF RoleJobAfter
    <2> QED BY <2>1, <2>3
  <1>11. CASE ReadRoleToRemove(p) \/ CountToRemove(p)
    <2>1. job[p].kind = "remove" /\ job[p].at \in {"role", "count"} /\ job[p].held = {}
      BY <1>0, <1>11 DEF ReadRoleToRemove, CountToRemove, At
    <2>2. job[p].unit \in Units /\ job[p].who \in People
      BY <2>1, AtPoint
    <2>3. role[job[p].unit][job[p].who] \in {"none", "member", "admin"}
      BY <2>2 DEF TypeInv, RowsOK, Roles
    <2>4. CASE ReadRoleToRemove(p)
      <3>1. \/ Finish(p) \/ Move(p, "count")
            \/ Move(p, "drop") /\ NoteRace(p, job[p].unit, TRUE) /\ job[p].who \notin Admins(job[p].unit)
        BY <2>3, <2>4 DEF ReadRoleToRemove, Admins
      <3> QED BY <1>1, <1>3, <1>10, <2>1, <3>1
    <2>5. CASE CountToRemove(p)
      <3>1. \/ Finish(p)
            \/ /\ Move(p, "drop") /\ NoteRace(p, job[p].unit, TRUE)
               /\ Cardinality(Admins(job[p].unit)) # 1
        BY <2>5 DEF CountToRemove
      <3>2. ASSUME Cardinality(Admins(job[p].unit)) # 1, job[p].who \in Admins(job[p].unit)
            PROVE  \E w \in Admins(job[p].unit) : w # job[p].who
        BY <3>2, Another, AdminsFinite
      <3> QED BY <1>1, <1>10, <2>1, <3>1, <3>2
    <2> QED BY <1>11, <2>4, <2>5
  <1>12. ASSUME Move(p, "write"),
                \/ job[p].want # "member" /\ NoteRace(p, job[p].unit, FALSE)
                \/ /\ NoteRace(p, job[p].unit, FALSE)
                   /\ \E w \in job[p].held : w # job[p].who /\ w \in Admins(job[p].unit)
                \/ raced' = raced \union {job[p].unit}
         PROVE  \E j : job' = [job EXCEPT ![p] = j] /\ RoleJobAfter(p, j)
    <2> DEFINE j == [job[p] EXCEPT !.at = "write"]
    <2>1. job' = [job EXCEPT ![p] = j]
      BY <1>0, <1>12 DEF Move
    <2>2. /\ j.at = "write" /\ j.held = job[p].held /\ j.unit = job[p].unit /\ j.who = job[p].who
          /\ j.want = job[p].want
      BY <1>0 DEF Jobs
    <2> HIDE DEF j
    <2>3. RoleJobAfter(p, j)
      BY <1>12, <2>2 DEF RoleJobAfter
    <2> QED BY <2>1, <2>3
  <1>13. CASE ReadRoleToSet(p) \/ CountToDemote(p)
    <2>1. /\ job[p].kind = "setRole" /\ job[p].at \in {"role", "count"}
      BY <1>13 DEF ReadRoleToSet, CountToDemote, At
    <2>2. job[p].unit \in Units /\ job[p].who \in People /\ job[p].want \in {"member", "admin"}
      BY <2>1, AtPoint DEF JobOK
    <2>3. role[job[p].unit][job[p].who] \in {"none", "member", "admin"}
      BY <2>2 DEF TypeInv, RowsOK, Roles
    <2>4. CASE ReadRoleToSet(p)
      <3>1. \/ Finish(p) \/ Move(p, "count")
            \/ Move(p, "write") /\ NoteRace(p, job[p].unit, FALSE) /\ job[p].want # "member"
        BY <2>2, <2>3, <2>4 DEF ReadRoleToSet
      <3> QED BY <1>1, <1>3, <1>12, <3>1
    <2>5. CASE CountToDemote(p)
      <3>1. \/ Finish(p)
            \/ /\ Move(p, "write") /\ NoteRace(p, job[p].unit, FALSE)
               /\ Admins(job[p].unit) \subseteq job[p].held /\ ~(Cardinality(Admins(job[p].unit)) <= 1)
            \/ Move(p, "write") /\ raced' = raced \union {job[p].unit}
        BY <2>5 DEF CountToDemote
      <3>2. ASSUME ~(Cardinality(Admins(job[p].unit)) <= 1)
            PROVE  \E w \in Admins(job[p].unit) : w # job[p].who
        <4>1. Cardinality(Admins(job[p].unit)) # 1 /\ Cardinality(Admins(job[p].unit)) # 0
          BY <3>2
        <4>2. Admins(job[p].unit) # {}
          BY <4>1, FS_EmptySet
        <4>3. PICK w : w \in Admins(job[p].unit)
          BY <4>2
        <4> QED BY <4>1, <4>3, Another, AdminsFinite
      <3> QED BY <1>1, <1>12, <3>1, <3>2
    <2> QED BY <1>13, <2>4, <2>5
  <1> QED
    <2>1. CASE CheckFree(p) \/ WriteTenant(p)
      <3>1. Finish(p) \/ Move(p, "insert") \/ Move(p, "tenant") \/ Move(p, "slug")
        BY <2>1 DEF CheckFree, WriteTenant, Tell
      <3> QED BY <3>1, <1>1, <1>3
    <2>2. CASE \/ WriteOwner(p) \/ DeleteRow(p) \/ Promote(p) \/ Drop(p) \/ WriteRole(p)
               \/ Abort(p) \/ End(p)
      <3>1. Finish(p)
        BY <2>2 DEF WriteOwner, DeleteRow, Promote, Drop, WriteRole, UpdateMemberRole, Abort, End
      <3> QED BY <3>1, <1>1
    <2> QED
      BY <2>1, <2>2, <1>1, <1>2, <1>4, <1>5, <1>6, <1>7, <1>9, <1>11, <1>13 DEF Step

\* Rows of a unit's administrators, one of whom may go or come: never one whose row
\* another request has locked.
Same(v) == Admins(v)' = Admins(v)
RoleEffectOn(p, u) ==
    /\ u = job[p].unit /\ job' = [job EXCEPT ![p] = Idle]
    /\ \A v \in Units : v # u => Same(v)
    /\ \/ /\ job[p].at \in {"promote", "owner", "write"} /\ UNCHANGED <<unit, raced>>
          /\ Admins(u) \subseteq Admins(u)'
       \/ /\ job[p].at \in {"drop", "write"} /\ UNCHANGED <<unit, raced>>
          /\ job[p].at = "write" => job[p].want = "member"
          /\ Admins(u)' = Admins(u) \ {job[p].who}
          /\ ~Locked(p, u, job[p].who)
       \/ /\ \A w \in People : ~Locked(p, u, w)
          /\ ~Exists(u)' /\ Admins(u)' = {}

RoleEffect(p) == (\A v \in Units : Same(v)) \/ \E u \in Units : RoleEffectOn(p, u)

LEMMA StepRoles ==
    ASSUME TypeInv, NEW p \in Requests, Arrive(p) \/ Step(p) \/ End(p)
    PROVE  RoleEffect(p)
  <1>0. RowsOK
    BY DEF TypeInv
  <1>1. CASE UNCHANGED role
    BY <1>1 DEF RoleEffect, Same, Admins
  <1>2. ASSUME NEW u \in Units, NEW w \in People, NEW r \in Roles, SetRole(u, w, r)
        PROVE  /\ \A v \in Units : v # u => Same(v)
               /\ r = "admin" => Admins(u) \subseteq Admins(u)'
               /\ r # "admin" => Admins(u)' = Admins(u) \ {w}
    <2>1. \A v \in Units, x \in People :
             role'[v][x] = IF v = u /\ x = w THEN r ELSE role[v][x]
      BY <1>0, <1>2, SetRoleOK
    <2> QED BY <2>1, <1>2 DEF Same, Admins
  <1>3. CASE WriteOwner(p) /\ ~UNCHANGED role
    <2>1. PICK u \in Units : u = job[p].unit
      BY <1>3, AtPoint DEF WriteOwner
    <2>2. /\ SetRole(u, job[p].by, "admin") /\ Finish(p) /\ job[p].at = "owner"
          /\ UNCHANGED <<unit, raced>>
      BY <1>3, <2>1 DEF WriteOwner
    <2>3. job[p].by \in People /\ "admin" \in Roles
      BY <2>2, AtPoint DEF Roles
    <2>4. (\A v \in Units : v # u => Same(v)) /\ Admins(u) \subseteq Admins(u)'
      BY <1>2, <2>2, <2>3
    <2>5. RoleEffectOn(p, u)
      BY <2>1, <2>2, <2>4 DEF RoleEffectOn, Finish
    <2> QED BY <2>5 DEF RoleEffect
  <1>4. CASE (Promote(p) \/ WriteRole(p)) /\ ~UNCHANGED role
    <2>1. PICK u \in Units : u = job[p].unit
      BY <1>4, AtPoint DEF Promote, WriteRole
    <2>2. PICK r : r = IF job[p].at = "promote" THEN "admin" ELSE job[p].want
      OBVIOUS
    <2>3. /\ SetRole(u, job[p].who, r) /\ Finish(p) /\ job[p].at \in {"promote", "write"}
          /\ UNCHANGED <<unit, raced>> /\ ~Locked(p, u, job[p].who)
      BY <1>4, <2>1, <2>2 DEF Promote, WriteRole, UpdateMemberRole
    <2>4. /\ job[p].who \in People
          /\ job[p].at = "write" => job[p].want \in {"member", "admin"}
      BY <2>3, AtPoint
    <2>5. r \in Roles /\ (r # "admin" => job[p].at = "write" /\ job[p].want = "member")
      BY <2>2, <2>3, <2>4 DEF Roles
    <2>6. /\ \A v \in Units : v # u => Same(v)
          /\ r = "admin" => Admins(u) \subseteq Admins(u)'
          /\ r # "admin" => Admins(u)' = Admins(u) \ {job[p].who}
      BY <1>2, <2>3, <2>4, <2>5
    <2>7. RoleEffectOn(p, u)
      BY <2>1, <2>3, <2>5, <2>6 DEF RoleEffectOn, Finish
    <2> QED BY <2>7 DEF RoleEffect
  <1>5. CASE Drop(p)
    <2>1. PICK u \in Units : u = job[p].unit
      BY <1>5, AtPoint DEF Drop
    <2>2. /\ SetRole(u, job[p].who, "none") /\ Finish(p) /\ job[p].at = "drop"
          /\ UNCHANGED <<unit, raced>> /\ ~Locked(p, u, job[p].who)
      BY <1>5, <2>1 DEF Drop
    <2>3. job[p].who \in People /\ "none" \in Roles
      BY <2>2, AtPoint DEF Roles
    <2>4. (\A v \in Units : v # u => Same(v)) /\ Admins(u)' = Admins(u) \ {job[p].who}
      BY <1>2, <2>2, <2>3
    <2>5. RoleEffectOn(p, u)
      BY <2>1, <2>2, <2>4 DEF RoleEffectOn, Finish
    <2> QED BY <2>5 DEF RoleEffect
  <1>6. CASE Join(p) /\ ~UNCHANGED role
    <2>1. /\ SetRole(job[p].unit, job[p].who, "member") /\ job[p].who \notin Members(job[p].unit)
          /\ job[p].at = "join"
      BY <1>6 DEF Join
    <2>2. PICK u \in Units, w \in People : u = job[p].unit /\ w = job[p].who
      BY <2>1, AtPoint
    <2>3. SetRole(u, w, "member") /\ "member" \in Roles /\ w \notin Admins(u)
      BY <2>1, <2>2 DEF Roles, Members, Admins
    <2>4. (\A v \in Units : v # u => Same(v)) /\ Admins(u)' = Admins(u) \ {w}
      BY <1>2, <2>3
    <2>5. \A v \in Units : Same(v)
      BY <2>3, <2>4 DEF Same
    <2> QED BY <2>5 DEF RoleEffect
  <1>7. CASE DeleteRow(p) /\ ~UNCHANGED role
    <2>1. PICK u \in Units : u = job[p].unit
      BY <1>7, AtPoint DEF DeleteRow
    <2>2. /\ unit' = [v \in Units |-> IF v = u THEN Gone
                          ELSE IF unit[v].parent = u THEN [unit[v] EXCEPT !.parent = NoUnit]
                          ELSE unit[v]]
          /\ role' = [role EXCEPT ![u] = [w \in People |-> "none"]]
          /\ Finish(p) /\ \A w \in People : ~Locked(p, u, w)
      BY <1>7, <2>1 DEF DeleteRow, rows
    <2>3. ~Exists(u)'
      BY <2>2 DEF Exists, Gone
    <2>4. \A v \in Units : v # u => role'[v] = role[v]
      BY <1>0, <2>2 DEF RowsOK
    <2>5. \A w \in People : role'[u][w] = "none"
      BY <1>0, <2>2 DEF RowsOK
    <2>6. Admins(u)' = {} /\ \A v \in Units : v # u => Same(v)
      BY <2>4, <2>5 DEF Admins, Same
    <2>7. RoleEffectOn(p, u)
      BY <2>1, <2>2, <2>3, <2>6 DEF RoleEffectOn, Finish
    <2> QED BY <2>7 DEF RoleEffect
  <1>8. CASE ~(WriteOwner(p) \/ Promote(p) \/ WriteRole(p) \/ Drop(p) \/ Join(p) \/ DeleteRow(p))
    <2>1. UNCHANGED role
      <3>1. CASE Reads(p)
        BY <3>1, ReadsRows DEF rows
      <3>2. CASE Arrive(p)
        BY <3>2, ArriveStep DEF Ask, rows
      <3> QED BY <1>8, <3>1, <3>2 DEF End, Step, Reads, InsertUnit, WriteTenant, WriteSlug, rows
    <2> QED BY <2>1, <1>1
  <1> QED BY <1>1, <1>3, <1>4, <1>5, <1>6, <1>7, <1>8

LEMMA RacedGrows ==
    ASSUME TypeInv, NEW p \in Requests, Arrive(p) \/ Step(p) \/ End(p)
    PROVE  raced \subseteq raced'
  <1>1. CASE Arrive(p)
    BY <1>1, ArriveStep DEF Ask
  <1>2. CASE ReadRoleToRemove(p) \/ ReadRoleToSet(p)
    <2>1. job[p].at = "role" /\ (ReadRoleToSet(p) => job[p].kind = "setRole")
      BY <1>2 DEF ReadRoleToRemove, ReadRoleToSet, At
    <2>2. /\ job[p].unit \in Units /\ job[p].who \in People
          /\ job[p].kind = "setRole" => job[p].want \in {"member", "admin"}
      BY <2>1, AtPoint DEF JobOK
    <2>3. role[job[p].unit][job[p].who] \in {"none", "member", "admin"}
      BY <2>2 DEF TypeInv, RowsOK, Roles
    <2>4. \/ UNCHANGED raced
          \/ NoteRace(p, job[p].unit, TRUE) \/ NoteRace(p, job[p].unit, FALSE)
      BY <1>2, <2>1, <2>2, <2>3 DEF ReadRoleToRemove, ReadRoleToSet
    <2> QED BY <2>4 DEF NoteRace
  <1>3. CASE InsertUnit(p) \/ WriteSlug(p) \/ Join(p) \/ CountToRemove(p) \/ CountToDemote(p)
    <2>1. \/ UNCHANGED raced \/ \E u : NoteRace(p, u, TRUE) \/ NoteRace(p, u, FALSE)
          \/ raced' = raced \union {job[p].unit}
      BY <1>3 DEF InsertUnit, WriteSlug, Join, CountToRemove, CountToDemote
    <2> QED BY <2>1 DEF NoteRace
  <1> QED
    BY <1>1, <1>2, <1>3 DEF End, Step, Resolve, CheckFree, WriteTenant, WriteOwner, DeleteRow,
       CountMembers, Promote, Drop, BeginLock, LockAdmins, WriteRole, UpdateMemberRole, Abort

-----------------------------------------------------------------------------
(* The invariant is kept                                                   *)

LEMMA RoleRequest ==
    ASSUME TypeInv, RoleInv, NEW p \in Requests, Arrive(p) \/ Step(p) \/ End(p)
    PROVE  /\ RoleInv'
           /\ \A u \in Units : /\ u \notin raced' /\ Exists(u)' /\ Admins(u) # {}
                               => Admins(u)' # {}
  <1> USE DEF RoleInv
  <1>0. PICK j : job' = [job EXCEPT ![p] = j] /\ RoleJobAfter(p, j)
    BY StepRoleJob
  <1>1. job'[p] = j /\ \A q \in Requests \ {p} : job'[q] = job[q]
    BY <1>0 DEF TypeInv, JobsOK
  <1>2. raced \subseteq raced'
    BY RacedGrows
  <1>3. \A q \in Requests : job[q].at = "drop" => job[q].unit \in Units
    BY AtPoint
  \* What the next point of the request means to the others.
  <1>4. \A q \in Requests \ {p} :
           /\ job[q].unit = j.unit /\ job[q].at = "drop" /\ j.at \in Changing => j.unit \in raced'
           /\ job[q].unit = j.unit /\ job[q].at \in Changing /\ j.at = "drop" => j.unit \in raced'
    BY <1>0 DEF RoleJobAfter, NoteRace, Changing
  <1>5. AloneInv'
    <2> SUFFICES ASSUME NEW q \in Requests, NEW r \in Requests, q # r,
                        job'[q].unit = job'[r].unit, job'[q].at = "drop", job'[r].at \in Changing
                 PROVE  job'[q].unit \in raced'
      BY DEF AloneInv
    <2>1. CASE q = p
      BY <1>1, <1>4, <2>1
    <2>2. CASE r = p
      BY <1>1, <1>4, <2>2
    <2>3. CASE q # p /\ r # p
      BY <1>1, <1>2, <2>3 DEF AloneInv
    <2> QED BY <2>1, <2>2, <2>3
  <1>6. LocksInv'
    <2>1. \A q \in Requests \ {p} : job[q].unit = j.unit => job[q].held \intersect j.held = {}
      <3>1. ASSUME NEW q \in Requests \ {p}, job[q].unit = job[p].unit,
                   NEW w \in job[q].held
            PROVE  w \notin job[p].held /\ Locked(p, job[p].unit, w)
        BY <3>1 DEF LocksInv, Locked
      <3> QED BY <1>0, <3>1 DEF RoleJobAfter
    <2> QED BY <1>1, <2>1 DEF LocksInv
  <1>7. CASE \A v \in Units : Same(v)
    <2>3. DemotionInv'
      <3> SUFFICES ASSUME NEW q \in Requests, job'[q].at = "write", job'[q].want = "member",
                          job'[q].unit \notin raced'
                   PROVE  \E w \in job'[q].held : w # job'[q].who /\ w \in Admins(job[q].unit)'
        BY DEF DemotionInv
      <3>1. CASE q # p
        <4>1. PICK v \in Units : v = job[q].unit /\ v = job'[q].unit
          BY <1>1, <3>1, AtPoint
        <4>2. Admins(job[q].unit)' = Admins(v)
          BY <1>7, <4>1 DEF Same
        <4>3. \E w \in job[q].held : w # job[q].who /\ w \in Admins(v)
          BY <1>1, <1>2, <3>1, <4>1 DEF DemotionInv
        <4> QED BY <1>1, <3>1, <4>2, <4>3
      <3>2. CASE q = p
        <4>1. /\ j.at = "write" /\ j.held = job[p].held /\ j.unit = job[p].unit /\ j.who = job[p].who
              /\ \E w \in job[p].held : w # job[p].who /\ w \in Admins(job[p].unit)
          BY <1>0, <1>1, <3>2 DEF RoleJobAfter, Changing
        <4>2. j.unit \in Units
          BY <1>1, <4>1, AtPoint, TypeStep DEF Next, TypeInv, JobsOK, JobOK, PointsOf, NoUnitYet,
             Jobs, Kinds
        <4>3. PICK v \in Units : v = job[p].unit /\ v = job'[p].unit
          BY <1>1, <4>1, <4>2
        <4>4. Admins(job[q].unit)' = Admins(v)
          BY <1>7, <3>2, <4>3 DEF Same
        <4> QED BY <1>1, <3>2, <4>1, <4>3, <4>4
      <3> QED BY <3>1, <3>2
    <2>4. RemovalInv'
      <3> SUFFICES ASSUME NEW q \in Requests, job'[q].at = "drop", job'[q].unit \notin raced'
                   PROVE  \/ job'[q].who \notin Admins(job[q].unit)'
                          \/ \E w \in Admins(job[q].unit)' : w # job'[q].who
        BY DEF RemovalInv
      <3>1. job'[q].unit \in Units
        BY <1>0, <1>1, <1>3, AtPoint, TypeStep DEF RoleJobAfter, Changing, Next, TypeInv, JobsOK, JobOK,
           NoUnitYet
      <3>2. PICK v \in Units : v = job'[q].unit
        BY <3>1
      <3>3. Admins(job[q].unit)' = Admins(v)
        BY <1>7, <3>2 DEF Same
      <3>4. \/ job'[q].who \notin Admins(v)
            \/ \E w \in Admins(v) : w # job'[q].who
        <4>1. CASE q # p
          BY <1>1, <1>2, <3>2, <4>1 DEF RemovalInv
        <4>2. CASE q = p
          BY <1>0, <1>1, <3>2, <4>2 DEF RoleJobAfter, Changing
        <4> QED BY <4>1, <4>2
      <3> QED BY <3>3, <3>4
    <2> QED BY <1>5, <1>6, <1>7, <2>3, <2>4 DEF Same
  <1>8. ASSUME NEW u \in Units, RoleEffectOn(p, u)
        PROVE  /\ DemotionInv' /\ RemovalInv'
               /\ \A v \in Units : /\ v \notin raced' /\ Exists(v)' /\ Admins(v) # {}
                                   => Admins(v)' # {}
    <2> USE DEF RoleEffectOn
    <2>1. /\ u = job[p].unit /\ job'[p] = Idle /\ Idle.held = {} /\ Idle.at = "idle"
          /\ \A v \in Units : v # u => Same(v)
      BY <1>8, IdleOK DEF TypeInv, JobsOK
    <2>2. ASSUME NEW q \in Requests, q # p, job[q].unit = u,
                 NEW w \in job[q].held, w \in Admins(u)
          PROVE  w \in Admins(u)'
      <3>1. Locked(p, u, w) /\ w \in People
        BY <2>2, AdminsFinite DEF Locked
      <3> QED BY <1>8, <2>2, <3>1
    <2>3. DemotionInv'
      <3> SUFFICES ASSUME NEW q \in Requests, job'[q].at = "write", job'[q].want = "member",
                          job'[q].unit \notin raced'
                   PROVE  \E w \in job'[q].held : w # job'[q].who /\ w \in Admins(job[q].unit)'
        BY DEF DemotionInv
      <3>1. q # p /\ job'[q] = job[q] /\ job[q].unit \in Units
        BY <1>1, <2>1, AtPoint
      <3>2. PICK v \in Units : v = job'[q].unit /\ v = job[q].unit
        BY <3>1
      <3>3. Admins(job[q].unit)' = Admins(v)'
        BY <3>2
      <3>4. PICK w \in job[q].held : w # job[q].who /\ w \in Admins(v)
        BY <1>2, <3>1, <3>2 DEF DemotionInv
      <3>5. w \in Admins(v)'
        BY <2>1, <2>2, <3>1, <3>2, <3>4 DEF Same
      <3> QED BY <3>1, <3>3, <3>4, <3>5
    <2>4. RemovalInv'
      <3> SUFFICES ASSUME NEW q \in Requests, job'[q].at = "drop", job'[q].unit \notin raced'
                   PROVE  \/ job'[q].who \notin Admins(job[q].unit)'
                          \/ \E w \in Admins(job[q].unit)' : w # job'[q].who
        BY DEF RemovalInv
      <3>1. q # p /\ job'[q] = job[q] /\ job[q].unit \in Units /\ job[q].unit \notin raced
        BY <1>1, <1>2, <1>3, <2>1
      <3>2. PICK v \in Units : v = job'[q].unit /\ v = job[q].unit
        BY <3>1
      <3>3. Admins(job[q].unit)' = Admins(v)'
        BY <3>2
      <3>4. \/ job[q].who \notin Admins(v)
            \/ \E w \in Admins(v) : w # job[q].who
        BY <3>1, <3>2 DEF RemovalInv
      <3>5. CASE v # u
        BY <2>1, <3>1, <3>3, <3>4, <3>5 DEF Same
      <3>6. CASE v = u
        <4>1. job[p].at \notin Changing
          BY <2>1, <3>1, <3>2, <3>6 DEF AloneInv
        <4>2. Admins(u)' = {}
          BY <1>8, <4>1 DEF Changing
        <4> QED BY <3>3, <3>6, <4>2
      <3> QED BY <3>5, <3>6
    <2>5. ASSUME u \notin raced', Exists(u)', Admins(u) # {} PROVE Admins(u)' # {}
      <3>1. CASE Admins(u) \subseteq Admins(u)'
        BY <2>5, <3>1
      <3>2. CASE /\ job[p].at \in {"drop", "write"}
                 /\ job[p].at = "write" => job[p].want = "member"
                 /\ Admins(u)' = Admins(u) \ {job[p].who}
        <4>1. CASE job[p].at = "write"
          <5>1. PICK w \in job[p].held : w # job[p].who /\ w \in Admins(u)
            BY <1>2, <2>1, <2>5, <3>2, <4>1 DEF DemotionInv
          <5> QED BY <3>2, <5>1
        <4>2. CASE job[p].at = "drop"
          BY <1>2, <2>1, <2>5, <3>2, <4>2 DEF RemovalInv
        <4> QED BY <3>2, <4>1, <4>2
      <3> QED BY <1>8, <2>5, <3>1, <3>2
    <2>6. \A v \in Units : v # u /\ Admins(v) # {} => Admins(v)' # {}
      BY <2>1 DEF Same
    <2> QED BY <2>3, <2>4, <2>5, <2>6
  <1> QED BY <1>5, <1>6, <1>7, <1>8, StepRoles DEF RoleEffect

\* The configured members who are there already, and the one about to be granted.
Has(k) == \E o \in Holders(SetupMembers[k].slug) : SetupMembers[k].who \in Members(o)

GrantInv ==
    /\ boot.at \in {"members", "grant"} => \A k \in DOMAIN SetupMembers : k < boot.n => Has(k)
    /\ boot.at = "grant" => /\ boot.unit \in Holders(SetupMembers[boot.n].slug)
                            /\ SetupMembers[boot.n].who \notin Members(boot.unit)

AdminInv == BootIdle /\ RoleInv /\ GrantInv

LEMMA IdleRoles ==
    ASSUME \A p \in Requests : job'[p] = Idle PROVE RoleInv'
  BY IdleOK DEF RoleInv, LocksInv, DemotionInv, AloneInv, RemovalInv

\* A grant takes no role from anybody.
LEMMA GrantRoles ==
    ASSUME TypeInv, GrantInv, SetupGrant
    PROVE  /\ \A u \in Units : Members(u) \subseteq Members(u)' /\ Admins(u) \subseteq Admins(u)'
           /\ \E o \in Units : o = boot.unit /\ SetupMembers[boot.n].who \in Members(o)'
  <1>1. PICK m \in [who : People, slug : Slugs, role : {"member", "admin"}] : m = SetupMembers[boot.n]
    <2>1. boot.n \in DOMAIN SetupMembers
      BY DEF SetupGrant, TypeInv, BootOK
    <2> DEFINE M == [who : People, slug : Slugs, role : {"member", "admin"}]
    <2>2. SetupMembers \in Seq(M)
      BY OrganisationsAssumption
    <2> HIDE DEF M
    <2>3. SetupMembers[boot.n] \in M
      BY <2>1, <2>2
    <2> QED BY <2>3 DEF M
  <1>2. PICK o \in Units : o = boot.unit
    BY DEF SetupGrant, TypeInv, BootOK
  <1>3. SetRole(o, m.who, m.role) /\ m.who \notin Members(o)
    BY <1>1, <1>2 DEF SetupGrant, GrantInv
  <1>4. m.who \in People /\ m.role \in Roles /\ m.role # "none"
    BY <1>1 DEF Roles
  <1>5. \A v \in Units, x \in People :
           role'[v][x] = IF v = o /\ x = m.who THEN m.role ELSE role[v][x]
    BY <1>3, <1>4, SetRoleOK DEF TypeInv
  <1>6. role[o][m.who] = "none"
    BY <1>3, <1>4 DEF Members
  <1>7. \A u \in Units : Members(u) \subseteq Members(u)' /\ Admins(u) \subseteq Admins(u)'
    BY <1>4, <1>5, <1>6 DEF Members, Admins
  <1>8. m.who \in Members(o)'
    BY <1>4, <1>5 DEF Members
  <1> QED BY <1>1, <1>2, <1>7, <1>8

LEMMA GrantStep ==
    ASSUME TypeInv, GrantInv, Setup
    PROVE  GrantInv'
  <1>0. BootOK
    BY DEF TypeInv
  <1>1. \A s \in Slugs : \A o : o \in Holders(s) => o \in Units
    BY HistoryTypes, OrganisationsAssumption DEF Holders, ActiveRows, TypeInv, RowsOK, SlugRows, NoHistory
  <1>2. \A k \in DOMAIN SetupMembers : SetupMembers[k].slug \in Slugs
    <2> DEFINE M == [who : People, slug : Slugs, role : {"member", "admin"}]
    <2>1. SetupMembers \in Seq(M)
      BY OrganisationsAssumption
    <2>2. \A m \in M : m.slug \in Slugs
      OBVIOUS
    <2> HIDE DEF M
    <2> QED BY <2>1, <2>2
  <1>3. CASE SetupMember
    <2>1. /\ boot.at = "members" /\ boot.n \in DOMAIN SetupMembers /\ UNCHANGED rows
          /\ boot.n \in Nat /\ DOMAIN SetupMembers \subseteq Nat
      <3>1. SetupMembers \in Seq([who : People, slug : Slugs, role : {"member", "admin"}])
        BY OrganisationsAssumption
      <3>2. DOMAIN SetupMembers \subseteq Nat
        BY <3>1
      <3>3. boot.n \in Nat
        BY <1>0 DEF BootOK, Boots
      <3> QED BY <1>3, <3>2, <3>3 DEF SetupMember
    <2>2. /\ \A k : Has(k)' = Has(k)
          /\ \A s : Holders(s)' = Holders(s)
          /\ \A o : Members(o)' = Members(o)
      BY <2>1 DEF Has, Holders, ActiveRows, Members, rows
    <2>3. CASE boot' = [boot EXCEPT !.at = "failed"]
      <3>1. boot'.at = "failed"
        BY <1>0, <2>3 DEF BootOK, Boots
      <3> QED BY <3>1 DEF GrantInv
    <2>4. CASE boot' # [boot EXCEPT !.at = "failed"]
      <3>1. PICK o \in Holders(SetupMembers[boot.n].slug) :
               boot' = IF SetupMembers[boot.n].who \in Members(o) THEN [boot EXCEPT !.n = boot.n + 1]
                       ELSE [boot EXCEPT !.at = "grant", !.unit = o]
        BY <1>3, <2>4 DEF SetupMember
      <3>2. CASE SetupMembers[boot.n].who \in Members(o)
        <4>1. boot' = [at |-> boot.at, n |-> boot.n + 1, unit |-> boot.unit]
          BY <1>0, <3>1, <3>2, BootStep
        <4>2. Has(boot.n)
          BY <3>1, <3>2 DEF Has
        <4>3. \A k \in DOMAIN SetupMembers : k < boot.n + 1 => Has(k)
          BY <2>1, <4>2 DEF GrantInv
        <4> QED BY <2>1, <2>2, <4>1, <4>3 DEF GrantInv
      <3>3. CASE SetupMembers[boot.n].who \notin Members(o)
        <4>1. boot' = [at |-> "grant", n |-> boot.n, unit |-> o]
          BY <1>0, <3>1, <3>3, BootStep
        <4>2. \A k \in DOMAIN SetupMembers : k < boot.n => Has(k)
          BY <2>1 DEF GrantInv
        <4>3. /\ boot'.at = "grant" /\ boot'.n = boot.n /\ boot'.unit = o
          BY <4>1
        <4>4. o \in Holders(SetupMembers[boot.n].slug)' /\ o \in Holders(SetupMembers[boot.n].slug)
          BY <2>2, <3>1, <4>3
        <4>5. SetupMembers[boot.n].who \notin Members(boot.unit)'
          BY <2>2, <3>3, <4>3
        <4> QED BY <2>2, <4>2, <4>3, <4>4, <4>5 DEF GrantInv
      <3> QED BY <3>2, <3>3
    <2> QED BY <2>3, <2>4
  <1>4. CASE SetupGrant
    <2>1. /\ boot.at = "grant" /\ boot.n \in Nat /\ DOMAIN SetupMembers \subseteq Nat
          /\ boot.n \in DOMAIN SetupMembers /\ UNCHANGED <<history, serial>>
      BY <1>0, <1>4, OrganisationsAssumption DEF SetupGrant, BootOK, Boots
    <2>2. boot' = [at |-> "members", n |-> boot.n + 1, unit |-> NoUnit]
      BY <1>0, <1>4 DEF SetupGrant, BootOK, Boots
    <2>3. \A s : Holders(s)' = Holders(s)
      BY <2>1 DEF Holders, ActiveRows
    <2>4. \A k \in DOMAIN SetupMembers : Has(k) => Has(k)'
      BY <1>1, <1>2, <1>4, <2>3, GrantRoles DEF Has
    <2>6. \A k \in DOMAIN SetupMembers : k = boot.n => Has(k)'
      BY <1>4, <2>1, <2>3, GrantRoles DEF Has, GrantInv
    <2>7. \A k \in DOMAIN SetupMembers : k < boot.n + 1 => Has(k)'
      BY <2>1, <2>4, <2>6 DEF GrantInv
    <2> QED BY <2>2, <2>7 DEF GrantInv
  <1>5. CASE SetupOrgsDone
    <2>1. boot' = [at |-> "members", n |-> 1, unit |-> boot.unit]
      BY <1>0, <1>5, BootStep DEF SetupOrgsDone
    <2>2. DOMAIN SetupMembers \subseteq Nat \ {0}
      BY OrganisationsAssumption
    <2> QED BY <2>1, <2>2 DEF GrantInv
  <1>6. CASE SetupCheck \/ SetupOrg \/ SetupTenant \/ SetupSlug \/ SetupDone
    <2>1. boot'.at \notin {"members", "grant"}
      <3> USE <1>0 DEF BootOK, Boots
      <3>1. CASE SetupOrg
        <4>1. boot.at = "orgs" /\ (\/ boot' = [boot EXCEPT !.n = boot.n + 1]
                                   \/ \E u : boot' = [boot EXCEPT !.at = "tenant", !.unit = u])
          BY <3>1 DEF SetupOrg
        <4> QED BY <4>1
      <3> QED BY <1>6, <3>1 DEF SetupCheck, SetupTenant, SetupSlug, SetupDone
    <2> QED BY <2>1 DEF GrantInv
  <1> QED BY <1>3, <1>4, <1>5, <1>6 DEF Setup

LEMMA AdminInit == Init => AdminInv
  <1> SUFFICES ASSUME Init PROVE AdminInv
    OBVIOUS
  <1>1. (\A p \in Requests : job[p] = Idle) /\ boot.at = "check"
    BY DEF Init, Start
  <1> QED BY <1>1, IdleOK DEF AdminInv, BootIdle, RoleInv, LocksInv, DemotionInv, AloneInv,
                              RemovalInv, GrantInv

LEMMA AdminStep == TypeInv /\ AdminInv /\ [Next]_vars => AdminInv'
  <1> SUFFICES ASSUME TypeInv, AdminInv, [Next]_vars PROVE AdminInv'
    OBVIOUS
  <1>1. BootIdle'
    BY BootIdleStep DEF AdminInv
  <1>2. CASE Setup
    <2>1. \A p \in Requests : job'[p] = Idle
      BY <1>2 DEF AdminInv, BootIdle, Setup, SetupCheck, SetupOrg, SetupTenant, SetupSlug, SetupOrgsDone,
                  SetupMember, SetupGrant, SetupDone
    <2> QED BY <1>1, <1>2, <2>1, IdleRoles, GrantStep DEF AdminInv
  <1>3. CASE Crash
    <2>1. (\A p \in Requests : job'[p] = Idle) /\ boot'.at = "check"
      BY <1>3 DEF Crash, Start
    <2> QED BY <1>1, <2>1, IdleRoles DEF AdminInv, GrantInv
  <1>4. ASSUME NEW p \in Requests, Arrive(p) \/ Step(p) \/ End(p) PROVE AdminInv'
    <2>1. boot.at = "up" /\ UNCHANGED boot
      BY <1>4, ServesWhenUp DEF AdminInv
    <2> QED BY <1>1, <1>4, <2>1, RoleRequest DEF AdminInv, GrantInv
  <1>5. CASE UNCHANGED vars
    <2>1. UNCHANGED <<role, job, boot, raced, history, serial>>
      BY <1>5 DEF vars
    <2>2. RoleInv'
      BY <2>1 DEF AdminInv, RoleInv, LocksInv, DemotionInv, AloneInv, RemovalInv, Admins
    <2>3. GrantInv'
      BY <2>1 DEF AdminInv, GrantInv, Has, Holders, ActiveRows, Members
    <2> QED BY <1>1, <2>2, <2>3 DEF AdminInv
  <1> QED BY <1>2, <1>3, <1>4, <1>5 DEF Next

LEMMA AdminsHold == Spec => [](TypeInv /\ AdminInv)
  <1> QED BY TypeInit, TypeStep, AdminInit, AdminStep, PTL DEF Spec

-----------------------------------------------------------------------------
(* Theorems                                                                *)

\* A unit that has administrators keeps one, as long as no removal overlaps another
\* change of its roles and no demotion counts administrators it has not locked.
THEOREM AdminsStay == Spec => AdminsRemain
  <1>1. TypeInv /\ AdminInv /\ [Next]_vars =>
           [\A u \in Units : /\ u \notin raced' /\ Exists(u)' /\ Admins(u) # {}
                             => Admins(u)' # {}]_vars
    <2> SUFFICES ASSUME TypeInv, AdminInv, [Next]_vars, NEW u \in Units, Admins(u) # {},
                        u \notin raced', Exists(u)', ~UNCHANGED vars
                 PROVE  Admins(u)' # {}
      OBVIOUS
    <2>1. CASE Setup
      <3>1. CASE SetupGrant
        BY <3>1, GrantRoles DEF AdminInv
      <3>2. CASE ~SetupGrant
        <4>1. UNCHANGED role
          BY <2>1, <3>2 DEF Setup, SetupCheck, SetupOrg, SetupTenant, SetupSlug, SetupOrgsDone,
                            SetupMember, SetupDone, rows
        <4> QED BY <4>1 DEF Admins
      <3> QED BY <3>1, <3>2
    <2>2. CASE Crash
      BY <2>2 DEF Crash, rows, Admins
    <2>3. ASSUME NEW p \in Requests, Arrive(p) \/ Step(p) \/ End(p) PROVE Admins(u)' # {}
      BY <2>3, RoleRequest DEF AdminInv
    <2> QED BY <2>1, <2>2, <2>3 DEF Next
  <1> QED BY <1>1, AdminsHold, PTL DEF Spec, AdminsRemain

\* The server listens only when every configured member has a role in the organisation
\* that holds the configured slug, whatever starts were cut off before.
THEOREM SetupComplete == Spec => SetupIsComplete
  <1>1. TypeInv /\ AdminInv /\ [Next]_vars =>
           [boot.at # "up" /\ boot'.at = "up" =>
               \A k \in DOMAIN SetupMembers : \E o \in Holders(SetupMembers[k].slug) :
                   SetupMembers[k].who \in Members(o)]_vars
    <2> SUFFICES ASSUME TypeInv, AdminInv, [Next]_vars, boot.at # "up", boot'.at = "up",
                        NEW k \in DOMAIN SetupMembers
                 PROVE  Has(k)
      BY DEF Has
    <2>0. BootOK
      BY DEF TypeInv
    <2>1. SetupDone
      <3>1. \A p \in Requests : ~(Arrive(p) \/ Step(p) \/ End(p))
        BY ServesWhenUp DEF AdminInv
      <3>2. ~Crash /\ ~UNCHANGED vars
        BY DEF Crash, Start, vars
      <3>3. Setup
        BY <3>1, <3>2 DEF Next
      <3> USE <2>0 DEF BootOK, Boots
      <3>4. ~SetupOrg
        <4>1. SetupOrg => boot.at = "orgs" /\ (\/ boot' = [boot EXCEPT !.n = boot.n + 1]
                                   \/ \E u : boot' = [boot EXCEPT !.at = "tenant", !.unit = u])
          BY DEF SetupOrg
        <4> QED BY <4>1
      <3>5. ~SetupMember
        <4>1. SetupMember => boot.at = "members" /\
                  (\/ boot' = [boot EXCEPT !.n = boot.n + 1]
                   \/ boot' = [boot EXCEPT !.at = "failed"]
                   \/ \E o : boot' = [boot EXCEPT !.at = "grant", !.unit = o])
          BY DEF SetupMember
        <4> QED BY <4>1
      <3>6. ~SetupCheck /\ ~SetupTenant /\ ~SetupSlug /\ ~SetupOrgsDone /\ ~SetupGrant
        BY DEF SetupCheck, SetupTenant, SetupSlug, SetupOrgsDone, SetupGrant
      <3> QED BY <3>3, <3>4, <3>5, <3>6 DEF Setup
    <2>2. boot.at = "members" /\ boot.n \notin DOMAIN SetupMembers /\ boot.n \in Nat /\ boot.n >= 1
      BY <2>0, <2>1 DEF SetupDone, BootOK, Boots
    <2>3. DOMAIN SetupMembers = 1 .. Len(SetupMembers) /\ Len(SetupMembers) \in Nat
      BY OrganisationsAssumption
    <2>4. k < boot.n
      BY <2>2, <2>3
    <2> QED BY <2>2, <2>4 DEF AdminInv, GrantInv
  <1> QED BY <1>1, AdminsHold, PTL DEF Spec, SetupIsComplete
=============================================================================
