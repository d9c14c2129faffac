--------------------------- MODULE Organisations ---------------------------
(***************************************************************************)
(* Organisations, their units, members and slugs (internal/unit,           *)
(* internal/tenant), the role middleware in front of them (internal/auth)  *)
(* and the setup that runs at every start of the server (internal/setup).  *)
(*                                                                         *)
(* Every statement commits on its own, except in UpdateUnitMemberRole,     *)
(* whose transaction holds row locks on the administrators of the unit.    *)
(* A request is a sequence of statements that interleaves with the others; *)
(* it may end early at any of them, and a crash of the server ends all of  *)
(* them and runs the setup again.                                          *)
(***************************************************************************)
EXTENDS Naturals, FiniteSets, Sequences

CONSTANTS
    Units,          \* unit ids (random UUIDs: never used twice)
    People,         \* the users, each known by an e-mail address
    GlobalAdmins,   \* those whose global role is admin
    Slugs,          \* the slugs organisations may have
    Requests,       \* the requests the server can be serving at a time
    NoUnit, NoSlug, NoOne,
    Strategies,     \* the db strategies UpdateOrg is asked for
    SetupOrgs,      \* the slugs of the configured organisations, in order
    SetupMembers,   \* the configured members: person, slug and role, in order
    MaxRows,        \* bound: rows of slug_history ever inserted
    MaxRequests,    \* bound: requests ever made
    MaxCrashes      \* bound: crashes of the server

Roles == {"none", "member", "admin"}

ASSUME OrganisationsAssumption ==
    /\ NoUnit \notin Units /\ NoSlug \notin Slugs /\ NoOne \notin People
    /\ IsFiniteSet(People) /\ IsFiniteSet(Units)
    /\ GlobalAdmins \subseteq People
    /\ Strategies \subseteq {"shared", "isolated"}
    /\ SetupOrgs \in Seq(Slugs)
    /\ SetupMembers \in Seq([who : People, slug : Slugs, role : {"member", "admin"}])
    /\ MaxRows \in Nat /\ MaxRequests \in Nat /\ MaxCrashes \in Nat

VARIABLES
    unit,      \* the row of units of each id: its type, parent and organisation
    tenant,    \* the db strategy in the row of tenants of each organisation
    history,   \* the rows of slug_history, by serial number
    serial,    \* the last serial number given out
    role,      \* the rows of unit_members: the role of each person in each unit
    boot,      \* how far the setup of this start of the server has come
    job,       \* what each request is doing, and the row locks it holds
    clock,     \* the requests and crashes there have been (bounds only)
    clash,     \* history only: slugs two requests held to be free at a time
    raced      \* history only: units where a removal raced another change of roles

vars == <<unit, tenant, history, serial, role, boot, job, clock, clash, raced>>
rows == <<unit, tenant, history, serial, role>>

-----------------------------------------------------------------------------
(* Rows and queries                                                        *)

NoRow     == [type |-> "none", parent |-> NoUnit, org |-> NoUnit]
Gone      == [type |-> "deleted", parent |-> NoUnit, org |-> NoUnit]
NoHistory == [slug |-> NoSlug, org |-> NoUnit, ended |-> TRUE]
UnitRows  == [type : {"none", "organization", "unit", "deleted"},
              parent : Units \union {NoUnit}, org : Units \union {NoUnit}]
SlugRows  == [slug : Slugs, org : Units, ended : BOOLEAN] \union {NoHistory}
Exists(u) == unit[u].type \in {"organization", "unit"}

\* The id of a row to be inserted is one never used: which one makes no difference.
Fresh == LET unused == {u \in Units : unit[u].type = "none"}
         IN  IF unused = {} THEN {} ELSE {CHOOSE u \in unused : TRUE}

Members(u) == {w \in People : role[u][w] # "none"}
Admins(u)  == {w \in People : role[u][w] = "admin"}

\* The units above u, nearest first or not: the recursive query follows parent_id.
Ancestors(u) ==
    LET above[n \in 0 .. Cardinality(Units)] ==
            IF n = 0 THEN {u}
            ELSE LET below == above[n - 1]
                 IN  below \union {unit[v].parent : v \in below \ {NoUnit}}
    IN  above[Cardinality(Units)] \ {u, NoUnit}

HasAdminInAncestorUnits(w, u) == \E v \in Ancestors(u) : w \in Admins(v)

\* The role middleware: an administrator of a unit above passes, and otherwise the
\* role in the unit itself decides.
Allowed(w, u, required) ==
    \/ HasAdminInAncestorUnits(w, u)
    \/ role[u][w] = "admin"
    \/ role[u][w] = "member" /\ required = "member"

ActiveRows(s) == {i \in 1 .. serial : history[i].slug = s /\ ~history[i].ended}
Holders(s)    == {history[i].org : i \in ActiveRows(s)}
SlugExists(s) == ActiveRows(s) # {}

\* The tenant middleware serves a slug route only for a shared database.
Reached(s) == {o \in Holders(s) : tenant[o] = "shared"}

\* What the history endpoint answers: taken if the newest row of the slug is open.
NewestOpen(s) ==
    \E i \in ActiveRows(s) : \A k \in 1 .. serial : history[k].slug = s => k <= i

\* Mutant: the rows of former slugs are joined as well.
ListOrganizationsOfUser_AllRows(w) ==
    {shown \in [org : Units, slug : Slugs] :
        /\ unit[shown.org].type = "organization" /\ w \in Members(shown.org)
        /\ \E i \in 1 .. serial : history[i].slug = shown.slug /\ history[i].org = shown.org}

\* The organisations of w with the slugs it is shown for them: the left join keeps
\* an organisation without history, and drops one whose rows have all ended.
ListOrganizationsOfUser(w) ==
    {shown \in [org : Units, slug : Slugs \union {NoSlug}] :
        /\ unit[shown.org].type = "organization" /\ w \in Members(shown.org)
        /\ \/ \E i \in ActiveRows(shown.slug) : history[i].org = shown.org
           \/ shown.slug = NoSlug /\ \A i \in 1 .. serial : history[i].org # shown.org}

AppendHistory(s, o) ==
    /\ serial < MaxRows
    /\ serial' = serial + 1
    /\ history' = [history EXCEPT ![serial + 1] = [slug |-> s, org |-> o, ended |-> FALSE]]

\* Mutant: the old slug of a renamed organisation stays open.
UpsertSlugHistory_KeepsOld(s, o) ==
    IF \E i \in 1 .. serial : history[i].org = o /\ ~history[i].ended /\ history[i].slug # s
    THEN AppendHistory(s, o)
    ELSE UNCHANGED <<history, serial>>

\* One statement: the open row of the organisation is ended and the new slug gets
\* one, unless the slug is the same or no row is open.
UpsertSlugHistory(s, o) ==
    LET open == {i \in 1 .. serial : history[i].org = o /\ ~history[i].ended
                                     /\ history[i].slug # s}
    IN  IF open = {} THEN UNCHANGED <<history, serial>>
        ELSE /\ serial < MaxRows
             /\ serial' = serial + 1
             /\ history' = [i \in 1 .. MaxRows |->
                    IF i = serial + 1 THEN [slug |-> s, org |-> o, ended |-> FALSE]
                    ELSE IF i \in open THEN [history[i] EXCEPT !.ended = TRUE]
                    ELSE history[i]]

-----------------------------------------------------------------------------
(* Requests                                                                *)

Idle == [kind |-> "none", at |-> "idle", by |-> NoOne, unit |-> NoUnit, who |-> NoOne,
         want |-> "none", slug |-> NoSlug, path |-> NoSlug, seen |-> {}, held |-> {}]

Kinds  == {"none", "createOrg", "createUnit", "rename", "deleteOrg", "deleteUnit",
           "add", "remove", "setRole"}
Points == {"idle", "resolve", "free", "insert", "tenant", "slug", "owner", "delete",
           "count", "join", "promote", "role", "drop", "lock", "wait", "write"}
Jobs   == [kind : Kinds, at : Points, by : People \union {NoOne},
           unit : Units \union {NoUnit}, who : People \union {NoOne},
           want : Roles \union Strategies, slug : Slugs \union {NoSlug},
           path : Slugs \union {NoSlug}, seen : SUBSET People, held : SUBSET People]

At(p, kinds, point) == job[p].kind \in kinds /\ job[p].at = point
Move(p, point)      == job' = [job EXCEPT ![p].at = point]
\* The request is answered; a transaction ends and its locks with it.
Finish(p)           == job' = [job EXCEPT ![p] = Idle]
Tell(p, point)      == Move(p, point) /\ UNCHANGED rows

\* Mutant: the administrators are read without FOR UPDATE.
Locked_Never(p, u, w) == FALSE

\* A row locked by another request's transaction makes writers of it wait.
Locked(p, u, w) == \E q \in Requests \ {p} : job[q].unit = u /\ w \in job[q].held

\* q holds the slug to be free and has yet to give it to its organisation.
Taking(q, s)  == job[q].slug = s /\ job[q].at \in {"insert", "tenant", "slug"}
NoteClash(p, s) ==
    clash' = IF \E q \in Requests \ {p} : Taking(q, s) THEN clash \union {s} ELSE clash

\* Of p and some other request on the unit, both past their reads and before their
\* write, one removes a member.
NoteRace(p, u, removing) ==
    raced' = IF \E q \in Requests \ {p} :
                    /\ job[q].unit = u
                    /\ \/ job[q].at = "drop"
                       \/ removing /\ job[q].at \in {"write", "promote", "owner"}
             THEN raced \union {u} ELSE raced

Ask(p, j) ==
    /\ clock' = [clock EXCEPT !.asked = @ + 1]
    /\ job' = [job EXCEPT ![p] = j]
    /\ UNCHANGED <<rows, boot, clash, raced>>

\* A route by slug passes the tenant middleware, and then the role middleware looks
\* the slug up again; the handler will look it up a third time.
AllowedBySlug(w, s, required) ==
    Reached(s) # {} /\ \E o \in Holders(s) : Allowed(w, o, required)

\* A request about the organisation of a slug, and one about a unit by its id.
AskOrg(p, w, required, j) == \E s \in Slugs :
    /\ AllowedBySlug(w, s, required)
    /\ Ask(p, [j EXCEPT !.at = "resolve", !.path = s])

AskUnit(p, w, required, j, first) == \E u \in Units :
    /\ Allowed(w, u, required)
    /\ Ask(p, [j EXCEPT !.at = first, !.unit = u])

CreateOrg(p) == \E w \in GlobalAdmins, s \in Slugs :
    Ask(p, [Idle EXCEPT !.kind = "createOrg", !.at = "free", !.by = w, !.slug = s])

CreateOrgUnit(p) == \E w \in People :
    AskOrg(p, w, "admin", [Idle EXCEPT !.kind = "createUnit", !.by = w])

CreateUnit(p) == \E w \in People :
    AskUnit(p, w, "admin", [Idle EXCEPT !.kind = "createUnit", !.by = w], "insert")

UpdateOrg(p) == \E w \in People, path, s \in Slugs, strategy \in Strategies :
    /\ AllowedBySlug(w, path, "admin")
    /\ Ask(p, [Idle EXCEPT !.kind = "rename", !.at = "resolve", !.path = path,
                           !.slug = s, !.want = strategy])

DeleteOrg(p) == \E path \in Slugs :
    /\ GlobalAdmins # {} /\ Reached(path) # {}
    /\ Ask(p, [Idle EXCEPT !.kind = "deleteOrg", !.at = "resolve", !.path = path])

\* The role is the one in the organisation of the slug; the unit is any.
DeleteUnit(p) == \E w \in People, path \in Slugs, u \in Units :
    /\ AllowedBySlug(w, path, "admin") /\ Exists(u)
    /\ Ask(p, [Idle EXCEPT !.kind = "deleteUnit", !.at = "delete", !.unit = u])

AddOrgMember(p) == \E w, who \in People :
    AskOrg(p, w, "member", [Idle EXCEPT !.kind = "add", !.who = who])

AddUnitMember(p) == \E w, who \in People :
    AskUnit(p, w, "member", [Idle EXCEPT !.kind = "add", !.who = who], "count")

RemoveOrgMember(p) == \E w, who \in People :
    AskOrg(p, w, "admin", [Idle EXCEPT !.kind = "remove", !.who = who])

RemoveUnitMember(p) == \E w, who \in People :
    AskUnit(p, w, "admin", [Idle EXCEPT !.kind = "remove", !.who = who], "role")

UpdateUnitMemberRole(p) ==
    \E w, who \in People, u \in Units, want \in {"member", "admin"} :
        /\ Allowed(w, u, "admin")
        /\ Ask(p, [Idle EXCEPT !.kind = "setRole", !.at = "lock", !.unit = u,
                               !.who = who, !.want = want])

Arrive(p) ==
    /\ boot.at = "up" /\ job[p] = Idle
    /\ clock.asked < MaxRequests
    /\ \/ CreateOrg(p) \/ CreateOrgUnit(p) \/ CreateUnit(p) \/ UpdateOrg(p)
       \/ DeleteOrg(p) \/ DeleteUnit(p) \/ AddOrgMember(p) \/ AddUnitMember(p)
       \/ RemoveOrgMember(p) \/ RemoveUnitMember(p) \/ UpdateUnitMemberRole(p)

-----------------------------------------------------------------------------
(* Statements                                                              *)

\* The handler's own lookup of the slug.  A slug nobody holds yields the nil id,
\* with which every handler fails or changes nothing.  A rename that keeps the slug
\* of the path skips the check that it is free.
Resolve(p) ==
    LET j    == job[p]
        then == CASE j.kind = "createUnit" -> "insert"
                  [] j.kind = "rename"     -> IF j.slug = j.path THEN "tenant" ELSE "free"
                  [] j.kind = "deleteOrg"  -> "delete"
                  [] j.kind = "add"        -> "count"
                  [] j.kind = "remove"     -> "role"
    IN  /\ j.at = "resolve"
        /\ IF Holders(j.path) = {}
           THEN Finish(p) /\ UNCHANGED clash
           ELSE /\ \E o \in Holders(j.path) :
                      job' = [job EXCEPT ![p].at = then, ![p].unit = o]
                /\ IF then = "tenant" THEN NoteClash(p, j.slug) ELSE UNCHANGED clash
        /\ UNCHANGED <<rows, boot, clock, raced>>

\* Mutant: a slug is not checked before it is given away.
CheckFree_Unchecked(p) ==
    /\ job[p].at = "free"
    /\ Tell(p, IF job[p].kind = "createOrg" THEN "insert" ELSE "tenant")
    /\ NoteClash(p, job[p].slug)
    /\ UNCHANGED <<boot, clock, raced>>

CheckFree(p) ==
    LET s == job[p].slug IN
    /\ job[p].at = "free"
    /\ \/ SlugExists(s) /\ Finish(p) /\ UNCHANGED <<rows, clash>>
       \/ /\ ~SlugExists(s)
          /\ Tell(p, IF job[p].kind = "createOrg" THEN "insert" ELSE "tenant")
          /\ NoteClash(p, s)
    /\ UNCHANGED <<boot, clock, raced>>

\* Mutant: the parent is taken for the organisation.
OrgOf_Parent(u) == u

OrgOf(u) == IF unit[u].type = "organization" THEN u ELSE unit[u].org

\* The new row of units; the parent of a unit is read before, and checked again by
\* the foreign keys.
InsertUnit(p) ==
    LET j == job[p] IN
    /\ j.at = "insert"
    /\ \/ j.kind = "createUnit" /\ ~Exists(j.unit) /\ Finish(p) /\ UNCHANGED <<rows, raced>>
       \/ \E u \in Fresh :
             /\ \/ /\ j.kind = "createOrg"
                   /\ unit' = [unit EXCEPT ![u] = [NoRow EXCEPT !.type = "organization"]]
                   /\ job' = [job EXCEPT ![p].unit = u, ![p].at = "tenant"]
                   /\ UNCHANGED raced
                \/ /\ j.kind = "createUnit" /\ Exists(j.unit)
                   /\ unit' = [unit EXCEPT ![u] = [type |-> "unit", parent |-> j.unit,
                                                   org |-> OrgOf(j.unit)]]
                   /\ job' = [job EXCEPT ![p].unit = u, ![p].at = "owner"]
                   /\ NoteRace(p, u, FALSE)
             /\ UNCHANGED <<tenant, history, serial, role>>
    /\ UNCHANGED <<boot, clock, clash>>

\* INSERT INTO tenants of a new organisation; UPDATE of the strategy of an old one.
WriteTenant(p) ==
    LET j == job[p] IN
    /\ j.at = "tenant"
    /\ IF Exists(j.unit) /\ (j.kind = "rename" => tenant[j.unit] # "none")
       THEN /\ tenant' = [tenant EXCEPT ![j.unit] =
                             IF j.kind = "rename" THEN j.want ELSE "shared"]
            /\ Move(p, "slug") /\ UNCHANGED <<unit, history, serial, role>>
       ELSE Finish(p) /\ UNCHANGED rows
    /\ UNCHANGED <<boot, clock, clash, raced>>

WriteSlug(p) ==
    LET j == job[p] IN
    /\ j.at = "slug"
    /\ \/ /\ j.kind = "createOrg" /\ Exists(j.unit)
          /\ AppendHistory(j.slug, j.unit)
          /\ Move(p, "owner") /\ NoteRace(p, j.unit, FALSE)
       \/ /\ j.kind = "rename" /\ UpsertSlugHistory(j.slug, j.unit)
          /\ Finish(p) /\ UNCHANGED raced
       \/ /\ j.kind = "createOrg" /\ ~Exists(j.unit)
          /\ Finish(p) /\ UNCHANGED <<history, serial, raced>>
    /\ UNCHANGED <<unit, tenant, role, boot, clock, clash>>

\* Mutant: a role the enumeration does not have.
SetRole_Owner(u, w, r) ==
    role' = [role EXCEPT ![u] = [@ EXCEPT ![w] = IF r = "admin" THEN "owner" ELSE r]]

SetRole(u, w, r) == role' = [role EXCEPT ![u] = [@ EXCEPT ![w] = r]]

\* AddUnitMemberWithRole makes the creator an administrator.
WriteOwner(p) ==
    LET j == job[p] IN
    /\ j.at = "owner" /\ ~Locked(p, j.unit, j.by)
    /\ Finish(p)
    /\ IF Exists(j.unit) THEN SetRole(j.unit, j.by, "admin") ELSE UNCHANGED role
    /\ UNCHANGED <<unit, tenant, history, serial, boot, clock, clash, raced>>

\* DELETE of a row of units: refused while a unit names it as its organisation; its
\* members, tenant and history go with it and its subunits lose their parent.  That
\* the cascade can be one side of a deadlock is an end of one of the requests.
Deletable(u) == Exists(u) /\ \A v \in Units : unit[v].org # u
DeleteRow(p) ==
    LET u == job[p].unit IN
    /\ job[p].at = "delete" /\ \A w \in People : ~Locked(p, u, w)
    /\ Finish(p)
    /\ IF ~Deletable(u) THEN UNCHANGED rows
       ELSE /\ unit' = [v \in Units |-> IF v = u THEN Gone
                          ELSE IF unit[v].parent = u THEN [unit[v] EXCEPT !.parent = NoUnit]
                          ELSE unit[v]]
            /\ tenant' = [tenant EXCEPT ![u] = "none"]
            /\ history' = [i \in 1 .. MaxRows |->
                             IF history[i].org = u THEN NoHistory ELSE history[i]]
            /\ role' = [role EXCEPT ![u] = [w \in People |-> "none"]]
            /\ UNCHANGED serial
    /\ UNCHANGED <<boot, clock, clash, raced>>

\* AddMember counts the members, inserts the row, which keeps the role of a member
\* there is, and makes the first member an administrator.
CountMembers(p) ==
    /\ At(p, {"add"}, "count")
    /\ job' = [job EXCEPT ![p].at = "join", ![p].seen = Members(job[p].unit)]
    /\ UNCHANGED <<rows, boot, clock, clash, raced>>

Join(p) ==
    LET j == job[p] IN
    /\ j.at = "join" /\ ~Locked(p, j.unit, j.who)
    /\ IF Exists(j.unit)
       THEN /\ IF j.who \in Members(j.unit) THEN UNCHANGED role
               ELSE SetRole(j.unit, j.who, "member")
            /\ IF j.seen = {} THEN Move(p, "promote") /\ NoteRace(p, j.unit, FALSE)
               ELSE Finish(p) /\ UNCHANGED raced
       ELSE Finish(p) /\ UNCHANGED <<role, raced>>
    /\ UNCHANGED <<unit, tenant, history, serial, boot, clock, clash>>

UpdateMemberRole(p, r) ==
    LET j == job[p] IN
    /\ ~Locked(p, j.unit, j.who)
    /\ IF j.who \in Members(j.unit) THEN SetRole(j.unit, j.who, r) ELSE UNCHANGED role
    /\ Finish(p)
    /\ UNCHANGED <<unit, tenant, history, serial, boot, clock, clash, raced>>

Promote(p) == job[p].at = "promote" /\ UpdateMemberRole(p, "admin")

\* RemoveMember reads the role; only the last administrator may not be removed.
ReadRoleToRemove(p) ==
    LET j == job[p] IN
    /\ At(p, {"remove"}, "role")
    /\ CASE role[j.unit][j.who] = "none"   -> Finish(p) /\ UNCHANGED raced
         [] role[j.unit][j.who] = "member" -> Move(p, "drop") /\ NoteRace(p, j.unit, TRUE)
         [] role[j.unit][j.who] = "admin"  -> Move(p, "count") /\ UNCHANGED raced
    /\ UNCHANGED <<rows, boot, clock, clash>>

CountToRemove(p) ==
    LET u == job[p].unit IN
    /\ At(p, {"remove"}, "count")
    /\ IF Cardinality(Admins(u)) = 1 THEN Finish(p) /\ UNCHANGED raced
       ELSE Move(p, "drop") /\ NoteRace(p, u, TRUE)
    /\ UNCHANGED <<rows, boot, clock, clash>>

Drop(p) ==
    LET j == job[p] IN
    /\ j.at = "drop" /\ ~Locked(p, j.unit, j.who)
    /\ SetRole(j.unit, j.who, "none") /\ Finish(p)
    /\ UNCHANGED <<unit, tenant, history, serial, boot, clock, clash, raced>>

\* LockAdminsForUnit takes its snapshot when it begins.
BeginLock(p) ==
    /\ job[p].at = "lock"
    /\ job' = [job EXCEPT ![p].at = "wait", ![p].seen = Admins(job[p].unit)]
    /\ UNCHANGED <<rows, boot, clock, clash, raced>>

\* SELECT ... FOR UPDATE without an order locks the rows of its snapshot one by one,
\* in any order, and keeps those it has while it waits for another.  A row that was
\* demoted meanwhile is locked all the same; one that was deleted is passed over.
LockAdmins(p) ==
    LET j == job[p] IN
    /\ j.at = "wait"
    /\ \/ \E w \in j.seen \ j.held :
             /\ ~Locked(p, j.unit, w)
             /\ IF w \in Members(j.unit) THEN job' = [job EXCEPT ![p].held = @ \union {w}]
                ELSE job' = [job EXCEPT ![p].seen = @ \ {w}]
       \/ j.seen \subseteq j.held /\ Move(p, "role")
    /\ UNCHANGED <<rows, boot, clock, clash, raced>>

\* The rows a transaction waits for, and the requests that hold them.
Wanted(p) == CASE job[p].at = "wait"                -> job[p].seen \ job[p].held
               [] At(p, {"setRole"}, "write")       -> {job[p].who} \ job[p].held
               [] OTHER                             -> {}
Awaits(p) == {q \in Requests : /\ job[q].unit = job[p].unit
                               /\ Wanted(p) \intersect job[q].held # {}}

\* p waits for itself, by way of the requests it waits for: PostgreSQL ends one of
\* those that wait in a circle with an error, and its transaction is rolled back.
Deadlocked(p) == \A S \in SUBSET Requests :
    Awaits(p) \subseteq S /\ (\A q \in S : Awaits(q) \subseteq S) => p \in S

Abort(p) == /\ Deadlocked(p) /\ Finish(p)
            /\ UNCHANGED <<rows, boot, clock, clash, raced>>

\* Mutant: the early returns leave the transaction open, with its locks.
ReadRoleToSet_KeepsLocks(p) ==
    LET j == job[p] IN
    /\ At(p, {"setRole"}, "role")
    /\ CASE role[j.unit][j.who] \in {"none", j.want} -> UNCHANGED <<job, raced>>
         [] role[j.unit][j.who] = "admin" /\ j.want = "member" ->
                Move(p, "count") /\ UNCHANGED raced
         [] role[j.unit][j.who] = "member" /\ j.want = "admin" ->
                Move(p, "write") /\ NoteRace(p, j.unit, FALSE)
    /\ UNCHANGED <<rows, boot, clock, clash>>

ReadRoleToSet(p) ==
    LET j == job[p] IN
    /\ At(p, {"setRole"}, "role")
    /\ CASE role[j.unit][j.who] \in {"none", j.want} -> Finish(p) /\ UNCHANGED raced
         [] role[j.unit][j.who] = "admin" /\ j.want = "member" ->
                Move(p, "count") /\ UNCHANGED raced
         [] role[j.unit][j.who] = "member" /\ j.want = "admin" ->
                Move(p, "write") /\ NoteRace(p, j.unit, FALSE)
    /\ UNCHANGED <<rows, boot, clock, clash>>

\* A demotion that has not locked all the administrators of now has waited while the
\* unit got another: it counts as raced.
CountToDemote(p) ==
    LET j == job[p] IN
    /\ At(p, {"setRole"}, "count")
    /\ IF Cardinality(Admins(j.unit)) <= 1 THEN Finish(p) /\ UNCHANGED raced
       ELSE /\ Move(p, "write")
            /\ IF Admins(j.unit) \subseteq j.held THEN NoteRace(p, j.unit, FALSE)
               ELSE raced' = raced \union {j.unit}
    /\ UNCHANGED <<rows, boot, clock, clash>>

\* The update and the commit of the transaction.
WriteRole(p) == job[p].at = "write" /\ UpdateMemberRole(p, job[p].want)

\* A request ends early: an error of the database, a cancelled context.
End(p) == /\ job[p] # Idle
          /\ Finish(p)
          /\ UNCHANGED <<rows, boot, clock, clash, raced>>

Step(p) == \/ Resolve(p) \/ CheckFree(p) \/ InsertUnit(p) \/ WriteTenant(p)
           \/ WriteSlug(p) \/ WriteOwner(p) \/ DeleteRow(p) \/ CountMembers(p)
           \/ Join(p) \/ Promote(p) \/ ReadRoleToRemove(p) \/ CountToRemove(p)
           \/ Drop(p) \/ BeginLock(p) \/ LockAdmins(p) \/ ReadRoleToSet(p)
           \/ CountToDemote(p) \/ WriteRole(p) \/ Abort(p)

-----------------------------------------------------------------------------
(* Setup                                                                   *)

Start == [at |-> "check", n |-> 1, unit |-> NoUnit]
Boots == [at : {"check", "orgs", "tenant", "slug", "members", "grant", "up", "failed"},
          n : Nat, unit : Units \union {NoUnit}]

\* Every configured organisation has a configured administrator.
SetupValid == \A i \in DOMAIN SetupOrgs : \E k \in DOMAIN SetupMembers :
    SetupMembers[k].slug = SetupOrgs[i] /\ SetupMembers[k].role = "admin"

SetupCheck ==
    /\ boot.at = "check"
    /\ boot' = [boot EXCEPT !.at = IF SetupValid THEN "orgs" ELSE "failed"]
    /\ UNCHANGED rows

\* Mutant: a configured organisation is created without asking whether it exists,
\* and that it does is an error.
SetupOrg_Unchecked ==
    /\ boot.at = "orgs" /\ boot.n \in DOMAIN SetupOrgs
    /\ IF SlugExists(SetupOrgs[boot.n])
       THEN boot' = [boot EXCEPT !.at = "failed"] /\ UNCHANGED rows
       ELSE \E u \in Fresh :
              /\ unit' = [unit EXCEPT ![u] = [NoRow EXCEPT !.type = "organization"]]
              /\ boot' = [boot EXCEPT !.at = "tenant", !.unit = u]
              /\ UNCHANGED <<tenant, history, serial, role>>

\* Mutant: the setup is taken to be done when an organisation is there.
SetupOrg_OnceOnly ==
    /\ boot.at = "orgs" /\ boot.n \in DOMAIN SetupOrgs
    /\ IF SlugExists(SetupOrgs[boot.n])
       THEN boot' = [boot EXCEPT !.at = "up"] /\ UNCHANGED rows
       ELSE \E u \in Fresh :
              /\ unit' = [unit EXCEPT ![u] = [NoRow EXCEPT !.type = "organization"]]
              /\ boot' = [boot EXCEPT !.at = "tenant", !.unit = u]
              /\ UNCHANGED <<tenant, history, serial, role>>

\* CreateOrganization, in three statements, for a slug nobody holds.
SetupOrg ==
    /\ boot.at = "orgs" /\ boot.n \in DOMAIN SetupOrgs
    /\ IF SlugExists(SetupOrgs[boot.n])
       THEN boot' = [boot EXCEPT !.n = @ + 1] /\ UNCHANGED rows
       ELSE \E u \in Fresh :
              /\ unit' = [unit EXCEPT ![u] = [NoRow EXCEPT !.type = "organization"]]
              /\ boot' = [boot EXCEPT !.at = "tenant", !.unit = u]
              /\ UNCHANGED <<tenant, history, serial, role>>

SetupTenant ==
    /\ boot.at = "tenant"
    /\ tenant' = [tenant EXCEPT ![boot.unit] = "shared"]
    /\ boot' = [boot EXCEPT !.at = "slug"]
    /\ UNCHANGED <<unit, history, serial, role>>

SetupSlug ==
    /\ boot.at = "slug"
    /\ AppendHistory(SetupOrgs[boot.n], boot.unit)
    /\ boot' = [boot EXCEPT !.at = "orgs", !.n = @ + 1, !.unit = NoUnit]
    /\ UNCHANGED <<unit, tenant, role>>

SetupOrgsDone ==
    /\ boot.at = "orgs" /\ boot.n \notin DOMAIN SetupOrgs
    /\ boot' = [boot EXCEPT !.at = "members", !.n = 1]
    /\ UNCHANGED rows

\* A configured member who has a role keeps it.
SetupMember ==
    LET m == SetupMembers[boot.n] IN
    /\ boot.at = "members" /\ boot.n \in DOMAIN SetupMembers
    /\ IF Holders(m.slug) = {} THEN boot' = [boot EXCEPT !.at = "failed"]
       ELSE \E o \in Holders(m.slug) :
              boot' = IF m.who \in Members(o) THEN [boot EXCEPT !.n = @ + 1]
                      ELSE [boot EXCEPT !.at = "grant", !.unit = o]
    /\ UNCHANGED rows

SetupGrant ==
    /\ boot.at = "grant"
    /\ SetRole(boot.unit, SetupMembers[boot.n].who, SetupMembers[boot.n].role)
    /\ boot' = [boot EXCEPT !.at = "members", !.n = @ + 1, !.unit = NoUnit]
    /\ UNCHANGED <<unit, tenant, history, serial>>

\* Only now does the server listen.
SetupDone ==
    /\ boot.at = "members" /\ boot.n \notin DOMAIN SetupMembers
    /\ boot' = [boot EXCEPT !.at = "up"]
    /\ UNCHANGED rows

Setup == /\ \/ SetupCheck \/ SetupOrg \/ SetupTenant \/ SetupSlug \/ SetupOrgsDone
            \/ SetupMember \/ SetupGrant \/ SetupDone
         /\ UNCHANGED <<job, clock, clash, raced>>

\* The server stops, with all it was doing, and is started again.
Crash == /\ clock.crashes < MaxCrashes
         /\ clock' = [clock EXCEPT !.crashes = @ + 1]
         /\ job' = [p \in Requests |-> Idle]
         /\ boot' = Start
         /\ UNCHANGED <<rows, clash, raced>>

Init == /\ unit = [u \in Units |-> NoRow]
        /\ tenant = [u \in Units |-> "none"]
        /\ history = [i \in 1 .. MaxRows |-> NoHistory]
        /\ serial = 0
        /\ role = [u \in Units |-> [w \in People |-> "none"]]
        /\ boot = Start
        /\ job = [p \in Requests |-> Idle]
        /\ clock = [asked |-> 0, crashes |-> 0]
        /\ clash = {} /\ raced = {}

Next == Setup \/ Crash \/ \E p \in Requests : Arrive(p) \/ Step(p) \/ End(p)

\* The setup runs on in main, and a request in its goroutine until it is answered.
\* Nobody has to make a request, and none has to end early.
Spec == /\ Init /\ [][Next]_vars
        /\ WF_vars(Setup)
        /\ \A p \in Requests : WF_vars(Step(p))

-----------------------------------------------------------------------------
(* Properties                                                              *)

TypeOK ==
    /\ unit \in [Units -> UnitRows]
    /\ tenant \in [Units -> {"none", "shared", "isolated"}]
    /\ serial \in 0 .. MaxRows
    /\ history \in [1 .. MaxRows -> SlugRows]
    /\ role \in [Units -> [People -> Roles]]
    /\ boot \in Boots
    /\ job \in [Requests -> Jobs]
    /\ clock \in [asked : Nat, crashes : Nat]
    /\ clash \subseteq Slugs /\ raced \subseteq Units

\* Only the newest row of a slug can be open: one organisation holds it, and the two
\* status endpoints, of which one asks for an open row and the other looks at the
\* newest, cannot disagree.  slug_history has no constraint that says so: it holds
\* for every slug that was not found free by two requests at a time.
NewestRowHoldsSlug ==
    \A s \in Slugs \ clash : \A i, k \in 1 .. serial :
        history[i].slug = s /\ history[k].slug = s /\ i < k => history[i].ended

\* An organisation has at most one open slug, whoever renames it: UpdateOrg ends the
\* old row in the statement that inserts the new one.
OneSlugPerOrganisation ==
    \A i, k \in 1 .. serial :
        /\ ~history[i].ended /\ ~history[k].ended
        /\ history[i].org = history[k].org
        => i = k

\* An organisation in the list a person is shown opens under the slug shown there: the
\* slug leads to it alone, and the tenant middleware lets the route through unless an
\* update of the organisation has asked for an isolated database.
ListedOrganisationsOpen ==
    \A w \in People : \A shown \in ListOrganizationsOfUser(w) :
        shown.slug \in Slugs \ clash =>
            /\ Holders(shown.slug) = {shown.org} /\ NewestOpen(shown.slug)
            /\ tenant[shown.org] = "isolated" \/ Reached(shown.slug) = {shown.org}

\* A unit belongs to the organisation of its parent, and to an organisation that
\* exists, whatever is deleted while it is created.
UnitsStayInTheirOrganisation ==
    \A u \in Units : unit[u].type = "unit" =>
        /\ unit[u].org \in Units /\ unit[unit[u].org].type = "organization"
        /\ unit[u].parent # NoUnit => Exists(unit[u].parent)
                                     /\ OrgOf(unit[u].parent) = unit[u].org

\* A unit that has administrators keeps one (ErrCannotRemoveLastAdmin), as long as no
\* removal of a member overlaps another change of the unit's roles and no demotion
\* had to wait for its locks while administrators came.  The row locks of
\* UpdateUnitMemberRole do keep two demotions apart; RemoveMember takes none.
AdminsRemain ==
    [][\A u \in Units : /\ u \notin raced' /\ Exists(u)' /\ Admins(u) # {}
                        => Admins(u)' # {}]_vars

\* When the server begins to listen, every configured organisation has its slug and
\* every configured member a role there, after whatever crash of an earlier start.
SetupIsComplete ==
    [][boot.at # "up" /\ boot'.at = "up" =>
        \A k \in DOMAIN SetupMembers : \E o \in Holders(SetupMembers[k].slug) :
            SetupMembers[k].who \in Members(o)]_vars

\* The server comes up, after every crash: the setup does not trip over what an
\* earlier start, complete or not, has left.
ServerComesUp == boot.at # "up" ~> boot.at = "up"

\* Every request is answered, those that wait for the locks of a role change too: two
\* changes that lock the rows of a unit in opposite orders end in an error of one.
RequestsAnswered == \A p \in Requests : job[p] # Idle ~> job[p] = Idle
=============================================================================
