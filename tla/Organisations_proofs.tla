------------------------ MODULE Organisations_proofs ------------------------
(***************************************************************************)
(* Theorems about Organisations, for any sets of units, people, slugs and  *)
(* requests and any setup.                                                 *)
(***************************************************************************)
EXTENDS Organisations, FiniteSetTheorems, TLAPS

-----------------------------------------------------------------------------
(* Types, and what a request carries at each of its points                 *)

PointsOf(kind) ==
    CASE kind = "none"       -> {"idle"}
      [] kind = "createOrg"  -> {"free", "insert", "tenant", "slug", "owner"}
      [] kind = "createUnit" -> {"resolve", "insert", "owner"}
      [] kind = "rename"     -> {"resolve", "free", "tenant", "slug"}
      [] kind = "deleteOrg"  -> {"resolve", "delete"}
      [] kind = "deleteUnit" -> {"delete"}
      [] kind = "add"        -> {"resolve", "count", "join", "promote"}
      [] kind = "remove"     -> {"resolve", "role", "count", "drop"}
      [] kind = "setRole"    -> {"lock", "wait", "role", "count", "write"}

NoUnitYet(j) == \/ j.at \in {"idle", "resolve"}
                \/ j.kind = "createOrg" /\ j.at \in {"free", "insert"}

JobOK(j) ==
    /\ j \in Jobs
    /\ j.at \in PointsOf(j.kind)
    /\ ~NoUnitYet(j) /\ ~(j.kind = "rename" /\ j.at = "resolve") => j.unit \in Units
    /\ j.kind \in {"createOrg", "createUnit"} => j.by \in People
    /\ j.kind \in {"add", "remove", "setRole"} => j.who \in People
    /\ j.kind \in {"createOrg", "rename"} => j.slug \in Slugs
    /\ j.kind = "createUnit" => j.slug = NoSlug
    /\ j.kind = "rename" => j.want \in Strategies
    /\ j.kind = "setRole" => j.want \in {"member", "admin"}
    /\ j.kind # "setRole" => j.held = {}

JobsOK == job \in [Requests -> Jobs] /\ \A p \in Requests : JobOK(job[p])

RowsOK == /\ unit \in [Units -> UnitRows]
          /\ tenant \in [Units -> {"none", "shared", "isolated"}]
          /\ serial \in 0 .. MaxRows
          /\ history \in [1 .. MaxRows -> SlugRows]
          /\ role \in [Units -> [People -> Roles]]

BootOK == /\ boot \in Boots
          /\ boot.n >= 1
          /\ boot.at \in {"tenant", "slug", "grant"} => boot.unit \in Units
          /\ boot.at \in {"tenant", "slug"} => boot.n \in DOMAIN SetupOrgs
          /\ boot.at = "grant" => boot.n \in DOMAIN SetupMembers

TypeInv == /\ RowsOK /\ JobsOK /\ BootOK
           /\ clock \in [asked : Nat, crashes : Nat]
           /\ clash \subseteq Slugs /\ raced \subseteq Units

LEMMA IdleOK == JobOK(Idle) /\ Idle \in Jobs /\ Idle.held = {} /\ Idle.at = "idle"
                /\ Idle.kind = "none"
  BY DEF JobOK, Jobs, Idle, PointsOf, NoUnitYet, Kinds, Points, Roles

\* Another job of one request.
LEMMA JobsStep ==
    ASSUME TypeInv, NEW p \in Requests, NEW j, JobOK(j), job' = [job EXCEPT ![p] = j]
    PROVE  JobsOK'
  BY DEF TypeInv, JobsOK, JobOK

LEMMA FinishStep ==
    ASSUME TypeInv, NEW p \in Requests, Finish(p)
    PROVE  JobsOK'
  BY IdleOK, JobsStep DEF Finish

LEMMA TypeInit == Init => TypeInv
  <1> SUFFICES ASSUME Init PROVE TypeInv
    OBVIOUS
  <1>1. RowsOK
    BY OrganisationsAssumption DEF Init, RowsOK, UnitRows, NoRow, SlugRows, NoHistory, Roles
  <1>2. JobsOK
    BY IdleOK DEF Init, JobsOK
  <1>3. BootOK
    BY DEF Init, BootOK, Boots, Start
  <1> QED BY <1>1, <1>2, <1>3 DEF Init, TypeInv

\* Going on to another point of the kind.
LEMMA MoveStep ==
    ASSUME TypeInv, NEW p \in Requests, NEW at \in Points, Move(p, at),
           JobOK([job[p] EXCEPT !.at = at])
    PROVE  JobsOK'
  <1>1. job' = [job EXCEPT ![p] = [job[p] EXCEPT !.at = at]]
    BY DEF Move, TypeInv, JobsOK
  <1> QED BY <1>1, JobsStep

-----------------------------------------------------------------------------
(* Every action keeps the types                                            *)

LEMMA AskStep ==
    ASSUME TypeInv, NEW p \in Requests, NEW j, JobOK(j), Ask(p, j)
    PROVE  TypeInv'
  <1>1. JobsOK'
    BY JobsStep DEF Ask
  <1>2. clock' \in [asked : Nat, crashes : Nat]
    BY DEF Ask, TypeInv
  <1> QED BY <1>1, <1>2 DEF Ask, TypeInv, RowsOK, BootOK, rows

\* Where a request begins: it holds no lock and no slug.
Asked(j) == /\ j.held = {}
            /\ \/ j.at \in {"resolve", "free", "lock", "delete", "role", "count"}
               \/ j.at = "insert" /\ j.kind = "createUnit"

LEMMA ArriveStep ==
    ASSUME TypeInv, NEW p \in Requests, Arrive(p)
    PROVE  \E j : JobOK(j) /\ Ask(p, j) /\ Asked(j)
  <1> USE IdleOK DEF Asked, JobOK, Jobs, Idle, PointsOf, NoUnitYet, Kinds, Points, Roles
  <1>1. CASE CreateOrg(p)
    <2>1. PICK w \in GlobalAdmins, s \in Slugs : Ask(p, [Idle EXCEPT !.kind = "createOrg", !.at = "free", !.by = w, !.slug = s])
      BY <1>1 DEF CreateOrg
    <2>2. JobOK([Idle EXCEPT !.kind = "createOrg", !.at = "free", !.by = w, !.slug = s])
      BY OrganisationsAssumption
    <2>3. Asked([Idle EXCEPT !.kind = "createOrg", !.at = "free", !.by = w, !.slug = s])
      OBVIOUS
    <2> QED BY <2>1, <2>2, <2>3
  <1>2. CASE CreateOrgUnit(p)
    <2>1. PICK w \in People, s \in Slugs : Ask(p, [[Idle EXCEPT !.kind = "createUnit", !.by = w] EXCEPT !.at = "resolve", !.path = s])
      BY <1>2 DEF CreateOrgUnit, AskOrg
    <2>2. JobOK([[Idle EXCEPT !.kind = "createUnit", !.by = w] EXCEPT !.at = "resolve", !.path = s])
      BY OrganisationsAssumption
    <2>3. Asked([[Idle EXCEPT !.kind = "createUnit", !.by = w] EXCEPT !.at = "resolve", !.path = s])
      OBVIOUS
    <2> QED BY <2>1, <2>2, <2>3
  <1>3. CASE CreateUnit(p)
    <2>1. PICK w \in People, u \in Units : Ask(p, [[Idle EXCEPT !.kind = "createUnit", !.by = w] EXCEPT !.at = "insert", !.unit = u])
      BY <1>3 DEF CreateUnit, AskUnit
    <2>2. JobOK([[Idle EXCEPT !.kind = "createUnit", !.by = w] EXCEPT !.at = "insert", !.unit = u])
      BY OrganisationsAssumption
    <2>3. Asked([[Idle EXCEPT !.kind = "createUnit", !.by = w] EXCEPT !.at = "insert", !.unit = u])
      OBVIOUS
    <2> QED BY <2>1, <2>2, <2>3
  <1>4. CASE UpdateOrg(p)
    <2>1. PICK path \in Slugs, s \in Slugs, strategy \in Strategies :
             Ask(p, [Idle EXCEPT !.kind = "rename", !.at = "resolve", !.path = path,
                                 !.slug = s, !.want = strategy])
      BY <1>4 DEF UpdateOrg
    <2> DEFINE j == [Idle EXCEPT !.kind = "rename", !.at = "resolve", !.path = path,
                                 !.slug = s, !.want = strategy]
    <2>2. JobOK(j)
      OBVIOUS
    <2>3. Asked(j)
      OBVIOUS
    <2> QED BY <2>1, <2>2, <2>3
  <1>5. CASE DeleteOrg(p)
    <2>1. PICK path \in Slugs : Ask(p, [Idle EXCEPT !.kind = "deleteOrg", !.at = "resolve", !.path = path])
      BY <1>5 DEF DeleteOrg
    <2>2. JobOK([Idle EXCEPT !.kind = "deleteOrg", !.at = "resolve", !.path = path])
      BY OrganisationsAssumption
    <2>3. Asked([Idle EXCEPT !.kind = "deleteOrg", !.at = "resolve", !.path = path])
      OBVIOUS
    <2> QED BY <2>1, <2>2, <2>3
  <1>6. CASE DeleteUnit(p)
    <2>1. PICK u \in Units : Ask(p, [Idle EXCEPT !.kind = "deleteUnit", !.at = "delete", !.unit = u])
      BY <1>6 DEF DeleteUnit
    <2>2. JobOK([Idle EXCEPT !.kind = "deleteUnit", !.at = "delete", !.unit = u])
      BY OrganisationsAssumption
    <2>3. Asked([Idle EXCEPT !.kind = "deleteUnit", !.at = "delete", !.unit = u])
      OBVIOUS
    <2> QED BY <2>1, <2>2, <2>3
  <1>7. CASE AddOrgMember(p)
    <2>1. PICK who \in People, s \in Slugs : Ask(p, [[Idle EXCEPT !.kind = "add", !.who = who] EXCEPT !.at = "resolve", !.path = s])
      BY <1>7 DEF AddOrgMember, AskOrg
    <2>2. JobOK([[Idle EXCEPT !.kind = "add", !.who = who] EXCEPT !.at = "resolve", !.path = s])
      BY OrganisationsAssumption
    <2>3. Asked([[Idle EXCEPT !.kind = "add", !.who = who] EXCEPT !.at = "resolve", !.path = s])
      OBVIOUS
    <2> QED BY <2>1, <2>2, <2>3
  <1>8. CASE AddUnitMember(p)
    <2>1. PICK who \in People, u \in Units : Ask(p, [[Idle EXCEPT !.kind = "add", !.who = who] EXCEPT !.at = "count", !.unit = u])
      BY <1>8 DEF AddUnitMember, AskUnit
    <2>2. JobOK([[Idle EXCEPT !.kind = "add", !.who = who] EXCEPT !.at = "count", !.unit = u])
      BY OrganisationsAssumption
    <2>3. Asked([[Idle EXCEPT !.kind = "add", !.who = who] EXCEPT !.at = "count", !.unit = u])
      OBVIOUS
    <2> QED BY <2>1, <2>2, <2>3
  <1>9. CASE RemoveOrgMember(p)
    <2>1. PICK who \in People, s \in Slugs : Ask(p, [[Idle EXCEPT !.kind = "remove", !.who = who] EXCEPT !.at = "resolve", !.path = s])
      BY <1>9 DEF RemoveOrgMember, AskOrg
    <2>2. JobOK([[Idle EXCEPT !.kind = "remove", !.who = who] EXCEPT !.at = "resolve", !.path = s])
      BY OrganisationsAssumption
    <2>3. Asked([[Idle EXCEPT !.kind = "remove", !.who = who] EXCEPT !.at = "resolve", !.path = s])
      OBVIOUS
    <2> QED BY <2>1, <2>2, <2>3
  <1>10. CASE RemoveUnitMember(p)
    <2>1. PICK who \in People, u \in Units : Ask(p, [[Idle EXCEPT !.kind = "remove", !.who = who] EXCEPT !.at = "role", !.unit = u])
      BY <1>10 DEF RemoveUnitMember, AskUnit
    <2>2. JobOK([[Idle EXCEPT !.kind = "remove", !.who = who] EXCEPT !.at = "role", !.unit = u])
      BY OrganisationsAssumption
    <2>3. Asked([[Idle EXCEPT !.kind = "remove", !.who = who] EXCEPT !.at = "role", !.unit = u])
      OBVIOUS
    <2> QED BY <2>1, <2>2, <2>3
  <1>11. CASE UpdateUnitMemberRole(p)
    <2>1. PICK who \in People, u \in Units, want \in {"member", "admin"} :
             Ask(p, [Idle EXCEPT !.kind = "setRole", !.at = "lock", !.unit = u,
                                 !.who = who, !.want = want])
      BY <1>11 DEF UpdateUnitMemberRole
    <2> DEFINE j == [Idle EXCEPT !.kind = "setRole", !.at = "lock", !.unit = u,
                                 !.who = who, !.want = want]
    <2>2. JobOK(j)
      OBVIOUS
    <2>3. Asked(j)
      OBVIOUS
    <2> QED BY <2>1, <2>2, <2>3
  <1> QED BY <1>1, <1>2, <1>3, <1>4, <1>5, <1>6, <1>7, <1>8, <1>9, <1>10, <1>11 DEF Arrive

\* A role written is a role.
LEMMA SetRoleOK ==
    ASSUME RowsOK, NEW u \in Units, NEW w \in People, NEW r \in Roles, SetRole(u, w, r)
    PROVE  /\ role' \in [Units -> [People -> Roles]]
           /\ \A v \in Units, x \in People :
                 role'[v][x] = IF v = u /\ x = w THEN r ELSE role[v][x]
  BY DEF RowsOK, SetRole

LEMMA AppendOK ==
    ASSUME RowsOK, NEW s \in Slugs, NEW o \in Units, AppendHistory(s, o)
    PROVE  serial' \in 0 .. MaxRows /\ history' \in [1 .. MaxRows -> SlugRows]
  BY OrganisationsAssumption DEF RowsOK, AppendHistory, SlugRows

LEMMA UpsertOK ==
    ASSUME RowsOK, NEW s \in Slugs, NEW o \in Units, UpsertSlugHistory(s, o)
    PROVE  serial' \in 0 .. MaxRows /\ history' \in [1 .. MaxRows -> SlugRows]
  <1> DEFINE open == {i \in 1 .. serial : history[i].org = o /\ ~history[i].ended
                                          /\ history[i].slug # s}
  <1>1. CASE open = {}
    BY <1>1 DEF RowsOK, UpsertSlugHistory
  <1>2. CASE open # {}
    <2>1. /\ serial < MaxRows /\ serial' = serial + 1
          /\ history' = [i \in 1 .. MaxRows |->
                 IF i = serial + 1 THEN [slug |-> s, org |-> o, ended |-> FALSE]
                 ELSE IF i \in open THEN [history[i] EXCEPT !.ended = TRUE]
                 ELSE history[i]]
      BY <1>2 DEF UpsertSlugHistory
    <2>2. \A i \in open : history[i] \in [slug : Slugs, org : Units, ended : BOOLEAN]
      BY OrganisationsAssumption DEF RowsOK, SlugRows, NoHistory
    <2>3. \A i \in open : [history[i] EXCEPT !.ended = TRUE] \in SlugRows
      BY <2>2 DEF SlugRows
    <2>4. [slug |-> s, org |-> o, ended |-> FALSE] \in SlugRows
      BY DEF SlugRows
    <2> HIDE DEF open
    <2> QED BY <2>1, <2>3, <2>4, OrganisationsAssumption DEF RowsOK
  <1> QED BY <1>1, <1>2

\* What the point of a request tells about the rest of it.
LEMMA AtPoint ==
    ASSUME TypeInv, NEW p \in Requests
    PROVE  LET j == job[p] IN
           /\ JobOK(j) /\ j \in Jobs
           /\ j.at = "free"   => j.kind \in {"createOrg", "rename"} /\ j.slug \in Slugs
           /\ j.at = "insert" => /\ j.kind \in {"createOrg", "createUnit"} /\ j.by \in People
                                 /\ j.kind = "createUnit" => j.unit \in Units
           /\ j.at \in {"tenant", "slug"} => /\ j.kind \in {"createOrg", "rename"}
                                             /\ j.unit \in Units /\ j.slug \in Slugs
           /\ j.at = "owner"  => /\ j.kind \in {"createOrg", "createUnit"}
                                 /\ j.unit \in Units /\ j.by \in People
           /\ j.at = "delete" => j.kind \in {"deleteOrg", "deleteUnit"} /\ j.unit \in Units
           /\ j.at \in {"join", "promote"} => /\ j.kind = "add"
                                              /\ j.unit \in Units /\ j.who \in People
           /\ j.at \in {"count", "role"} => /\ j.kind \in {"add", "remove", "setRole"}
                                            /\ j.unit \in Units /\ j.who \in People
           /\ j.at = "drop"   => j.kind = "remove" /\ j.unit \in Units /\ j.who \in People
           /\ j.at \in {"lock", "wait", "write"} =>
                 /\ j.kind = "setRole" /\ j.unit \in Units /\ j.who \in People
                 /\ j.want \in {"member", "admin"}
  <1>1. JobOK(job[p]) /\ job[p] \in Jobs
    BY DEF TypeInv, JobsOK, JobOK
  <1> QED BY <1>1 DEF JobOK, PointsOf, NoUnitYet, Jobs, Kinds

LEMMA ResolveJob ==
    ASSUME TypeInv, NEW p \in Requests, Resolve(p) PROVE JobsOK'
  <1>1. CASE Finish(p)
    BY <1>1, FinishStep
  <1>2. CASE ~Finish(p)
    <2> DEFINE j == job[p]
               then == CASE j.kind = "createUnit" -> "insert"
                         [] j.kind = "rename"     -> IF j.slug = j.path THEN "tenant" ELSE "free"
                         [] j.kind = "deleteOrg"  -> "delete"
                         [] j.kind = "add"        -> "count"
                         [] j.kind = "remove"     -> "role"
    <2>1. PICK o \in Holders(j.path) : job' = [job EXCEPT ![p].at = then, ![p].unit = o]
      BY <1>2 DEF Resolve
    <2>2. o \in Units
      BY OrganisationsAssumption DEF TypeInv, RowsOK, SlugRows, Holders, ActiveRows, NoHistory
    <2>3. j.at = "resolve" /\ JobOK(j) /\ j \in Jobs
      BY AtPoint DEF Resolve
    <2>4. j.kind \in {"createUnit", "rename", "deleteOrg", "add", "remove"}
      BY <2>3 DEF JobOK, PointsOf, Jobs, Kinds
    <2>5. /\ then \in Points
          /\ j.kind = "createUnit" => then = "insert"
          /\ j.kind = "rename"     => then \in {"tenant", "free"}
          /\ j.kind = "deleteOrg"  => then = "delete"
          /\ j.kind = "add"        => then = "count"
          /\ j.kind = "remove"     => then = "role"
      BY <2>4 DEF Points
    <2> HIDE DEF then
    <2>6. JobOK([j EXCEPT !.at = then, !.unit = o])
      BY <2>2, <2>3, <2>4, <2>5 DEF JobOK, Jobs, PointsOf, NoUnitYet
    <2>7. job' = [job EXCEPT ![p] = [j EXCEPT !.at = then, !.unit = o]]
      BY <2>1 DEF TypeInv, JobsOK
    <2> QED BY <2>6, <2>7, JobsStep
  <1> QED BY <1>1, <1>2

\* To go on to a point of the kind, once the request has a unit.
LEMMA GoOn ==
    ASSUME TypeInv, NEW p \in Requests, NEW at \in Points \ {"idle", "resolve", "free", "insert"},
           Move(p, at), at \in PointsOf(job[p].kind), ~NoUnitYet(job[p]),
           job[p].kind = "rename" => job[p].at # "resolve"
    PROVE  JobsOK'
  <1>1. JobOK(job[p]) /\ job[p] \in Jobs
    BY AtPoint
  <1>2. JobOK([job[p] EXCEPT !.at = at])
    BY <1>1 DEF JobOK, Jobs, NoUnitYet
  <1> QED BY <1>2, MoveStep

LEMMA CheckFreeJob ==
    ASSUME TypeInv, NEW p \in Requests, CheckFree(p) PROVE JobsOK'
  <1>1. /\ JobOK(job[p]) /\ job[p] \in Jobs /\ job[p].at = "free"
        /\ job[p].kind \in {"createOrg", "rename"}
    BY AtPoint DEF CheckFree
  <1>2. CASE Finish(p)
    BY <1>2, FinishStep
  <1>3. CASE ~Finish(p)
    <2>1. Move(p, IF job[p].kind = "createOrg" THEN "insert" ELSE "tenant")
      BY <1>3 DEF CheckFree, Tell
    <2>2. CASE job[p].kind = "createOrg"
      <3>1. JobOK([job[p] EXCEPT !.at = "insert"])
        BY <1>1, <2>2 DEF JobOK, Jobs, NoUnitYet, PointsOf, Points
      <3> QED BY <2>1, <2>2, <3>1, MoveStep DEF Points
    <2>3. CASE job[p].kind # "createOrg"
      <3>1. JobOK([job[p] EXCEPT !.at = "tenant"])
        BY <1>1, <2>3 DEF JobOK, Jobs, NoUnitYet, PointsOf, Points
      <3> QED BY <2>1, <2>3, <3>1, MoveStep DEF Points
    <2> QED BY <2>2, <2>3
  <1> QED BY <1>2, <1>3

LEMMA InsertUnitJob ==
    ASSUME TypeInv, NEW p \in Requests, InsertUnit(p) PROVE JobsOK'
  <1>1. JobOK(job[p]) /\ job[p] \in Jobs /\ job[p].at = "insert"
    BY AtPoint DEF InsertUnit
  <1>2. CASE Finish(p)
    BY <1>2, FinishStep
  <1>3. CASE ~Finish(p)
    <2>1. PICK u \in Fresh :
             \/ job[p].kind = "createOrg" /\ job' = [job EXCEPT ![p].unit = u, ![p].at = "tenant"]
             \/ job[p].kind = "createUnit" /\ job' = [job EXCEPT ![p].unit = u, ![p].at = "owner"]
      BY <1>3 DEF InsertUnit
    <2>2. u \in Units
      BY DEF Fresh
    <2>3. CASE job[p].kind = "createOrg"
      <3>1. JobOK([job[p] EXCEPT !.unit = u, !.at = "tenant"])
        BY <1>1, <2>2, <2>3 DEF JobOK, Jobs, NoUnitYet, PointsOf, Points
      <3>2. job' = [job EXCEPT ![p] = [job[p] EXCEPT !.unit = u, !.at = "tenant"]]
        BY <2>1, <2>3 DEF TypeInv, JobsOK
      <3> QED BY <3>1, <3>2, JobsStep
    <2>4. CASE job[p].kind # "createOrg"
      <3>1. JobOK([job[p] EXCEPT !.unit = u, !.at = "owner"])
        BY <1>1, <2>1, <2>2, <2>4 DEF JobOK, Jobs, NoUnitYet, PointsOf, Points
      <3>2. job' = [job EXCEPT ![p] = [job[p] EXCEPT !.unit = u, !.at = "owner"]]
        BY <2>1, <2>4 DEF TypeInv, JobsOK
      <3> QED BY <3>1, <3>2, JobsStep
    <2> QED BY <2>3, <2>4
  <1> QED BY <1>2, <1>3

LEMMA TenantAndSlugJob ==
    ASSUME TypeInv, NEW p \in Requests, WriteTenant(p) \/ WriteSlug(p) PROVE JobsOK'
  <1>1. JobOK(job[p]) /\ job[p] \in Jobs /\ job[p].at \in {"tenant", "slug"}
        /\ job[p].kind \in {"createOrg", "rename"}
    BY AtPoint DEF WriteTenant, WriteSlug
  <1>2. \/ Finish(p)
        \/ Move(p, "slug")
        \/ job[p].kind = "createOrg" /\ Move(p, "owner")
    BY DEF WriteTenant, WriteSlug
  <1>3. /\ {"slug", "owner"} \subseteq Points \ {"idle", "resolve", "free", "insert"}
        /\ "slug" \in PointsOf(job[p].kind)
        /\ job[p].kind = "createOrg" => "owner" \in PointsOf(job[p].kind)
        /\ ~NoUnitYet(job[p])
    BY <1>1 DEF Points, PointsOf, NoUnitYet
  <1> QED BY <1>1, <1>2, <1>3, FinishStep, GoOn

LEMMA MembersJob ==
    ASSUME TypeInv, NEW p \in Requests, CountMembers(p) \/ Join(p) PROVE JobsOK'
  <1>1. JobOK(job[p]) /\ job[p] \in Jobs
    BY AtPoint
  <1>2. CASE CountMembers(p)
    <2> DEFINE j == [job[p] EXCEPT !.at = "join", !.seen = Members(job[p].unit)]
    <2>1. job[p].kind = "add" /\ job[p].at = "count"
      BY <1>2 DEF CountMembers, At
    <2>2. JobOK(j)
      BY <1>1, <2>1 DEF JobOK, Jobs, NoUnitYet, PointsOf, Points, Members
    <2>3. job' = [job EXCEPT ![p] = j]
      BY <1>2 DEF CountMembers, TypeInv, JobsOK
    <2> HIDE DEF j
    <2> QED BY <2>2, <2>3, JobsStep
  <1>3. CASE Join(p)
    <2>1. job[p].kind = "add" /\ job[p].at = "join"
      BY <1>3, AtPoint DEF Join
    <2>2. Finish(p) \/ Move(p, "promote")
      BY <1>3 DEF Join
    <2>3. /\ "promote" \in Points \ {"idle", "resolve", "free", "insert"}
          /\ "promote" \in PointsOf(job[p].kind)
          /\ ~NoUnitYet(job[p])
      BY <2>1 DEF Points, PointsOf, NoUnitYet
    <2> QED BY <2>1, <2>2, <2>3, FinishStep, GoOn
  <1> QED BY <1>2, <1>3

LEMMA RemoveJob ==
    ASSUME TypeInv, NEW p \in Requests, ReadRoleToRemove(p) \/ CountToRemove(p) PROVE JobsOK'
  <1>1. JobOK(job[p]) /\ job[p].kind = "remove" /\ job[p].at \in {"role", "count"}
    BY AtPoint DEF ReadRoleToRemove, CountToRemove, At
  <1>2. role[job[p].unit][job[p].who] \in {"none", "member", "admin"}
    BY <1>1, AtPoint DEF TypeInv, RowsOK, Roles
  <1>3. Finish(p) \/ Move(p, "drop") \/ Move(p, "count")
    BY <1>2 DEF ReadRoleToRemove, CountToRemove
  <1>4. /\ {"drop", "count"} \subseteq Points \ {"idle", "resolve", "free", "insert"}
        /\ {"drop", "count"} \subseteq PointsOf(job[p].kind)
        /\ ~NoUnitYet(job[p])
    BY <1>1 DEF Points, PointsOf, NoUnitYet
  <1> QED BY <1>1, <1>3, <1>4, FinishStep, GoOn

\* A step of LockAdminsForUnit: a row it locks was not locked by another.
LEMMA LockStep ==
    ASSUME TypeInv, NEW p \in Requests, LockAdmins(p)
    PROVE  \E at \in {"wait", "role"}, seen \in SUBSET People, held \in SUBSET People :
              /\ job' = [job EXCEPT ![p] = [job[p] EXCEPT !.at = at, !.seen = seen, !.held = held]]
              /\ \A w \in held : w \in job[p].held \/ ~Locked(p, job[p].unit, w)
  <1>1. /\ job \in [Requests -> Jobs] /\ job[p] \in Jobs /\ job[p].at = "wait"
        /\ job[p].seen \in SUBSET People /\ job[p].held \in SUBSET People
    BY AtPoint DEF LockAdmins, TypeInv, JobsOK, Jobs
  <1> DEFINE After(at, seen, held) == [job[p] EXCEPT !.at = at, !.seen = seen, !.held = held]
  <1>2. ASSUME job[p].seen \subseteq job[p].held, Move(p, "role")
        PROVE  job' = [job EXCEPT ![p] = After("role", job[p].seen, job[p].held)]
    BY <1>1, <1>2 DEF Move, Jobs
  <1>3. ASSUME NEW w \in job[p].seen, job' = [job EXCEPT ![p].held = @ \union {w}]
        PROVE  job' = [job EXCEPT ![p] = After("wait", job[p].seen, job[p].held \union {w})]
    BY <1>1, <1>3 DEF Jobs
  <1>4. ASSUME NEW w \in job[p].seen, job' = [job EXCEPT ![p].seen = @ \ {w}]
        PROVE  job' = [job EXCEPT ![p] = After("wait", job[p].seen \ {w}, job[p].held)]
    BY <1>1, <1>4 DEF Jobs
  <1> HIDE DEF After
  <1>5. CASE job[p].seen \subseteq job[p].held /\ Move(p, "role")
    <2>1. \A w \in job[p].held : w \in job[p].held \/ ~Locked(p, job[p].unit, w)
      OBVIOUS
    <2> QED BY <1>1, <1>2, <1>5, <2>1 DEF After
  <1>6. CASE \E w \in job[p].seen \ job[p].held :
               /\ ~Locked(p, job[p].unit, w)
               /\ \/ job' = [job EXCEPT ![p].held = @ \union {w}]
                  \/ job' = [job EXCEPT ![p].seen = @ \ {w}]
    <2>1. PICK w \in job[p].seen \ job[p].held :
               /\ ~Locked(p, job[p].unit, w)
               /\ \/ job' = [job EXCEPT ![p].held = @ \union {w}]
                  \/ job' = [job EXCEPT ![p].seen = @ \ {w}]
      BY <1>6
    <2>2. /\ \A x \in job[p].held \union {w} : x \in job[p].held \/ ~Locked(p, job[p].unit, x)
          /\ job[p].held \union {w} \in SUBSET People /\ job[p].seen \ {w} \in SUBSET People
      BY <1>1, <2>1
    <2>3. CASE job' = [job EXCEPT ![p].held = @ \union {w}]
      BY <1>1, <1>3, <2>1, <2>2, <2>3 DEF After
    <2>4. CASE job' = [job EXCEPT ![p].seen = @ \ {w}]
      BY <1>1, <1>4, <2>1, <2>2, <2>4 DEF After
    <2> QED BY <2>1, <2>3, <2>4
  <1> QED BY <1>5, <1>6 DEF LockAdmins

LEMMA SetRoleJob ==
    ASSUME TypeInv, NEW p \in Requests,
           BeginLock(p) \/ LockAdmins(p) \/ ReadRoleToSet(p) \/ CountToDemote(p)
    PROVE  JobsOK'
  <1>1. JobOK(job[p]) /\ job[p] \in Jobs /\ job[p].kind = "setRole"
    BY AtPoint DEF BeginLock, LockAdmins, ReadRoleToSet, CountToDemote, At
  <1>2. CASE BeginLock(p)
    <2> DEFINE j == [job[p] EXCEPT !.at = "wait", !.seen = Admins(job[p].unit)]
    <2>1. job[p].at = "lock"
      BY <1>2 DEF BeginLock
    <2>2. JobOK(j)
      BY <1>1, <2>1 DEF JobOK, Jobs, NoUnitYet, PointsOf, Points, Admins
    <2>3. job' = [job EXCEPT ![p] = j]
      BY <1>2 DEF BeginLock, TypeInv, JobsOK
    <2> HIDE DEF j
    <2> QED BY <2>2, <2>3, JobsStep
  <1>3. CASE LockAdmins(p)
    <2>1. job[p].at = "wait"
      BY <1>3 DEF LockAdmins
    <2>2. PICK at \in {"wait", "role"}, seen \in SUBSET People, held \in SUBSET People :
             /\ job' = [job EXCEPT ![p] = [job[p] EXCEPT !.at = at, !.seen = seen, !.held = held]]
             /\ \A w \in held : w \in job[p].held \/ ~Locked(p, job[p].unit, w)
      BY <1>3, LockStep
    <2> DEFINE j == [job[p] EXCEPT !.at = at, !.seen = seen, !.held = held]
    <2>3. JobOK(j)
      BY <1>1, <2>1, <2>2 DEF JobOK, Jobs, NoUnitYet, PointsOf, Points
    <2>4. job' = [job EXCEPT ![p] = j]
      BY <2>2
    <2> HIDE DEF j
    <2> QED BY <2>3, <2>4, JobsStep
  <1>4. CASE ReadRoleToSet(p) \/ CountToDemote(p)
    <2>1. job[p].at \in {"role", "count"}
      BY <1>4 DEF ReadRoleToSet, CountToDemote, At
    <2>2. role[job[p].unit][job[p].who] \in {"none", "member", "admin"}
          /\ job[p].want \in {"member", "admin"}
      BY <1>1, <2>1, AtPoint DEF TypeInv, RowsOK, Roles, JobOK
    <2>3. Finish(p) \/ Move(p, "count") \/ Move(p, "write")
      BY <1>4, <2>2 DEF ReadRoleToSet, CountToDemote
    <2>4. /\ {"count", "write"} \subseteq Points \ {"idle", "resolve", "free", "insert"}
          /\ {"count", "write"} \subseteq PointsOf(job[p].kind)
          /\ ~NoUnitYet(job[p])
      BY <1>1, <2>1 DEF Points, PointsOf, NoUnitYet
    <2> QED BY <1>1, <2>3, <2>4, FinishStep, GoOn
  <1> QED BY <1>2, <1>3, <1>4

LEMMA StepJob ==
    ASSUME TypeInv, NEW p \in Requests, Step(p) PROVE JobsOK'
  <1>1. CASE \/ WriteOwner(p) \/ DeleteRow(p) \/ Promote(p) \/ Drop(p) \/ WriteRole(p)
             \/ Abort(p)
    <2>1. Finish(p)
      BY <1>1 DEF WriteOwner, DeleteRow, Promote, Drop, WriteRole, UpdateMemberRole, Abort
    <2> QED BY <2>1, FinishStep
  <1> QED
    BY <1>1, ResolveJob, CheckFreeJob, InsertUnitJob, TenantAndSlugJob, MembersJob,
       RemoveJob, SetRoleJob DEF Step

LEMMA InsertUnitRows ==
    ASSUME TypeInv, NEW p \in Requests, InsertUnit(p) PROVE RowsOK' /\ raced' \subseteq Units
  <1>1. job[p].at = "insert" /\ (job[p].kind = "createUnit" => job[p].unit \in Units)
    BY AtPoint DEF InsertUnit
  <1>2. CASE UNCHANGED <<rows, raced>>
    BY <1>2 DEF TypeInv, RowsOK, rows
  <1>3. CASE ~UNCHANGED <<rows, raced>>
    <2>1. PICK u \in Fresh :
             /\ \/ /\ unit' = [unit EXCEPT ![u] = [NoRow EXCEPT !.type = "organization"]]
                   /\ UNCHANGED raced
                \/ /\ job[p].kind = "createUnit"
                   /\ unit' = [unit EXCEPT ![u] = [type |-> "unit", parent |-> job[p].unit,
                                                   org |-> OrgOf(job[p].unit)]]
                   /\ NoteRace(p, u, FALSE)
             /\ UNCHANGED <<tenant, history, serial, role>>
      BY <1>3 DEF InsertUnit
    <2>2. u \in Units
      BY DEF Fresh
    <2>3. [NoRow EXCEPT !.type = "organization"] \in UnitRows
      BY DEF NoRow, UnitRows
    <2>4. job[p].kind = "createUnit" =>
             [type |-> "unit", parent |-> job[p].unit, org |-> OrgOf(job[p].unit)] \in UnitRows
      BY <1>1 DEF TypeInv, RowsOK, UnitRows, OrgOf
    <2>5. unit' \in [Units -> UnitRows]
      BY <2>1, <2>2, <2>3, <2>4 DEF TypeInv, RowsOK
    <2>6. raced' \subseteq Units
      BY <2>1, <2>2 DEF NoteRace, TypeInv
    <2> QED BY <2>1, <2>5, <2>6 DEF TypeInv, RowsOK
  <1> QED BY <1>2, <1>3

LEMMA DeleteRowRows ==
    ASSUME TypeInv, NEW p \in Requests, DeleteRow(p) PROVE RowsOK'
  <1>1. job[p].unit \in Units
    BY AtPoint DEF DeleteRow
  <1>2. CASE UNCHANGED rows
    BY <1>2 DEF TypeInv, RowsOK, rows
  <1>3. CASE ~UNCHANGED rows
    <2> DEFINE u == job[p].unit
    <2>1. /\ unit' = [v \in Units |-> IF v = u THEN Gone
                          ELSE IF unit[v].parent = u THEN [unit[v] EXCEPT !.parent = NoUnit]
                          ELSE unit[v]]
          /\ tenant' = [tenant EXCEPT ![u] = "none"]
          /\ history' = [i \in 1 .. MaxRows |->
                             IF history[i].org = u THEN NoHistory ELSE history[i]]
          /\ role' = [role EXCEPT ![u] = [w \in People |-> "none"]]
          /\ serial' = serial
      BY <1>3 DEF DeleteRow
    <2>2. \A v \in Units : [unit[v] EXCEPT !.parent = NoUnit] \in UnitRows
      BY DEF TypeInv, RowsOK, UnitRows
    <2>3. Gone \in UnitRows
      BY DEF Gone, UnitRows
    <2>4. unit' \in [Units -> UnitRows]
      BY <2>1, <2>2, <2>3 DEF TypeInv, RowsOK
    <2>5. history' \in [1 .. MaxRows -> SlugRows]
      BY <2>1 DEF TypeInv, RowsOK, SlugRows
    <2>6. role' \in [Units -> [People -> Roles]]
      BY <2>1 DEF TypeInv, RowsOK, Roles
    <2> QED BY <2>1, <2>4, <2>5, <2>6 DEF TypeInv, RowsOK
  <1> QED BY <1>2, <1>3

LEMMA TenantAndSlugRows ==
    ASSUME TypeInv, NEW p \in Requests, WriteTenant(p) \/ WriteSlug(p)
    PROVE  RowsOK' /\ raced' \subseteq Units
  <1>1. /\ job[p].unit \in Units /\ job[p].slug \in Slugs
        /\ job[p].kind = "rename" => job[p].want \in {"shared", "isolated"}
    BY AtPoint, OrganisationsAssumption DEF WriteTenant, WriteSlug, JobOK
  <1>2. CASE WriteTenant(p)
    <2>1. tenant' \in [Units -> {"none", "shared", "isolated"}]
      BY <1>1, <1>2 DEF WriteTenant, TypeInv, RowsOK, rows
    <2> QED BY <1>2, <2>1 DEF WriteTenant, TypeInv, RowsOK, rows
  <1>3. CASE WriteSlug(p)
    <2>1. serial' \in 0 .. MaxRows /\ history' \in [1 .. MaxRows -> SlugRows]
      BY <1>1, <1>3, AppendOK, UpsertOK DEF WriteSlug, TypeInv, RowsOK
    <2>2. raced' \subseteq Units
      BY <1>1, <1>3 DEF WriteSlug, NoteRace, TypeInv
    <2> QED BY <1>3, <2>1, <2>2 DEF WriteSlug, TypeInv, RowsOK
  <1> QED BY <1>2, <1>3

\* The steps that set a role, and what becomes of the roles.
LEMMA RoleRows ==
    ASSUME TypeInv, NEW p \in Requests,
           WriteOwner(p) \/ Join(p) \/ Promote(p) \/ Drop(p) \/ WriteRole(p)
    PROVE  RowsOK' /\ raced' \subseteq Units
  <1>1. /\ job[p].unit \in Units
        /\ WriteOwner(p) => job[p].by \in People
        /\ ~WriteOwner(p) => job[p].who \in People
        /\ WriteRole(p) => job[p].want \in Roles
    BY AtPoint DEF WriteOwner, Join, Promote, Drop, WriteRole, Roles
  <1>2. \/ UNCHANGED role
        \/ \E w \in People, r \in Roles : SetRole(job[p].unit, w, r)
    BY <1>1 DEF WriteOwner, Join, Promote, Drop, WriteRole, UpdateMemberRole, Roles
  <1>3. role' \in [Units -> [People -> Roles]]
    BY <1>1, <1>2, SetRoleOK DEF TypeInv, RowsOK
  <1>4. UNCHANGED <<unit, tenant, history, serial>>
    BY DEF WriteOwner, Join, Promote, Drop, WriteRole, UpdateMemberRole
  <1>5. raced' \subseteq Units
    BY <1>1 DEF WriteOwner, Join, Promote, Drop, WriteRole, UpdateMemberRole, NoteRace, TypeInv
  <1> QED BY <1>3, <1>4, <1>5 DEF TypeInv, RowsOK

\* The steps that change no row, and what they note.
Reads(p) == \/ Resolve(p) \/ CheckFree(p) \/ CountMembers(p) \/ ReadRoleToRemove(p)
            \/ CountToRemove(p) \/ BeginLock(p) \/ LockAdmins(p) \/ ReadRoleToSet(p)
            \/ CountToDemote(p) \/ Abort(p)

LEMMA ReadsRows ==
    ASSUME TypeInv, NEW p \in Requests, Reads(p)
    PROVE  UNCHANGED rows /\ clash' \subseteq Slugs /\ raced' \subseteq Units
  <1>1. UNCHANGED rows
    BY DEF Reads, Resolve, CheckFree, CountMembers, ReadRoleToRemove, CountToRemove, BeginLock,
           LockAdmins, ReadRoleToSet, CountToDemote, Tell, Abort
  <1>2. clash' \subseteq Slugs
    <2>1. CASE Resolve(p) \/ CheckFree(p)
      <3>1. CASE UNCHANGED clash
        BY <3>1 DEF TypeInv
      <3>2. CASE NoteClash(p, job[p].slug)
        <4>1. job[p].slug \in Slugs \/ (Resolve(p) /\ job[p].kind # "rename")
          BY <2>1, AtPoint DEF CheckFree, JobOK
        <4>2. Resolve(p) /\ job[p].kind # "rename" => UNCHANGED clash
          BY AtPoint DEF Resolve, JobOK, PointsOf, Jobs, Kinds
        <4> QED BY <3>2, <4>1, <4>2 DEF NoteClash, TypeInv
      <3> QED BY <2>1, <3>1, <3>2 DEF Resolve, CheckFree
    <2> QED
      BY <2>1 DEF Reads, CountMembers, ReadRoleToRemove, CountToRemove, BeginLock, LockAdmins,
                  ReadRoleToSet, CountToDemote, Abort, TypeInv
  <1>3. raced' \subseteq Units
    <2>1. CASE ReadRoleToRemove(p) \/ CountToRemove(p) \/ ReadRoleToSet(p) \/ CountToDemote(p)
      <3>1. job[p].unit \in Units /\ job[p].who \in People /\ job[p].at \in {"role", "count"}
            /\ job[p].kind \in {"remove", "setRole"}
        BY <2>1, AtPoint DEF ReadRoleToRemove, CountToRemove, ReadRoleToSet, CountToDemote, At
      <3>2. role[job[p].unit][job[p].who] \in {"none", "member", "admin"}
        BY <3>1 DEF TypeInv, RowsOK, Roles
      <3>3. job[p].kind = "setRole" => job[p].want \in {"member", "admin"}
        BY AtPoint DEF JobOK
      <3>4. \/ UNCHANGED raced
            \/ NoteRace(p, job[p].unit, TRUE) \/ NoteRace(p, job[p].unit, FALSE)
            \/ raced' = raced \union {job[p].unit}
        BY <2>1, <3>1, <3>2, <3>3
           DEF ReadRoleToRemove, CountToRemove, ReadRoleToSet, CountToDemote, At
      <3> QED BY <3>1, <3>4 DEF NoteRace, TypeInv
    <2> QED
      BY <2>1 DEF Reads, Resolve, CheckFree, CountMembers, BeginLock, LockAdmins, Abort, TypeInv
  <1> QED BY <1>1, <1>2, <1>3

LEMMA StepType ==
    ASSUME TypeInv, NEW p \in Requests, Step(p) PROVE TypeInv'
  <1>1. JobsOK'
    BY StepJob
  <1>2. UNCHANGED <<boot, clock>>
    BY DEF Step, Resolve, CheckFree, InsertUnit, WriteTenant, WriteSlug, WriteOwner, DeleteRow,
           CountMembers, Join, Promote, ReadRoleToRemove, CountToRemove, Drop, BeginLock,
           LockAdmins, ReadRoleToSet, CountToDemote, WriteRole, UpdateMemberRole, Abort
  <1>3. RowsOK' /\ clash' \subseteq Slugs /\ raced' \subseteq Units
    <2>1. CASE Reads(p)
      BY <2>1, ReadsRows DEF TypeInv, RowsOK, rows
    <2>2. CASE ~Reads(p)
      <3>1. \/ InsertUnit(p) \/ WriteTenant(p) \/ WriteSlug(p) \/ DeleteRow(p)
            \/ WriteOwner(p) \/ Join(p) \/ Promote(p) \/ Drop(p) \/ WriteRole(p)
        BY <2>2 DEF Step, Reads
      <3>2. UNCHANGED clash
        BY <3>1 DEF InsertUnit, WriteTenant, WriteSlug, WriteOwner, DeleteRow, Join, Promote,
                    Drop, WriteRole, UpdateMemberRole
      <3>3. DeleteRow(p) => UNCHANGED raced
        BY DEF DeleteRow
      <3> QED
        BY <3>1, <3>2, <3>3, InsertUnitRows, TenantAndSlugRows, DeleteRowRows, RoleRows
           DEF TypeInv
    <2> QED BY <2>1, <2>2
  <1> QED BY <1>1, <1>2, <1>3 DEF TypeInv, BootOK

\* What the setup's variable is after a step.
LEMMA BootStep ==
    ASSUME BootOK, NEW at, NEW n, NEW u
    PROVE  /\ boot' = [boot EXCEPT !.at = at, !.n = n, !.unit = u]
                => boot' = [at |-> at, n |-> n, unit |-> u]
           /\ boot' = [boot EXCEPT !.at = at, !.n = n]
                => boot' = [at |-> at, n |-> n, unit |-> boot.unit]
           /\ boot' = [boot EXCEPT !.at = at, !.unit = u]
                => boot' = [at |-> at, n |-> boot.n, unit |-> u]
           /\ boot' = [boot EXCEPT !.at = at]
                => boot' = [at |-> at, n |-> boot.n, unit |-> boot.unit]
           /\ boot' = [boot EXCEPT !.n = n]
                => boot' = [at |-> boot.at, n |-> n, unit |-> boot.unit]
  BY DEF BootOK, Boots

LEMMA SetupType == TypeInv /\ Setup => TypeInv'
  <1> SUFFICES ASSUME TypeInv, Setup PROVE TypeInv'
    OBVIOUS
  <1>1. BootOK /\ RowsOK
    BY DEF TypeInv
  <1>0. /\ boot.at \in {"check", "orgs", "tenant", "slug", "members", "grant", "up", "failed"}
        /\ boot.n \in Nat /\ boot.unit \in Units \union {NoUnit}
        /\ boot.n >= 1 /\ boot.n + 1 \in Nat /\ boot.n + 1 >= 1 /\ 1 \in Nat /\ 1 >= 1
        /\ boot.at \in {"tenant", "slug", "grant"} => boot.unit \in Units
        /\ boot.at \in {"tenant", "slug"} => boot.n \in DOMAIN SetupOrgs
        /\ boot.at = "grant" => boot.n \in DOMAIN SetupMembers
    BY <1>1 DEF BootOK, Boots
  <1>2. \A o, s : o \in Holders(s) /\ s \in Slugs => o \in Units
    BY OrganisationsAssumption DEF TypeInv, RowsOK, SlugRows, Holders, ActiveRows, NoHistory
  <1>3. /\ \A n \in DOMAIN SetupOrgs : SetupOrgs[n] \in Slugs
        /\ \A n \in DOMAIN SetupMembers :
              SetupMembers[n] \in [who : People, slug : Slugs, role : {"member", "admin"}]
    <2>1. SetupOrgs \in Seq(Slugs)
      BY OrganisationsAssumption
    <2>2. SetupMembers \in Seq([who : People, slug : Slugs, role : {"member", "admin"}])
      BY OrganisationsAssumption
    <2>3. \A n \in DOMAIN SetupOrgs : SetupOrgs[n] \in Slugs
      BY <2>1
    <2> DEFINE M == [who : People, slug : Slugs, role : {"member", "admin"}]
    <2> HIDE DEF M
    <2>4. \A n \in DOMAIN SetupMembers : SetupMembers[n] \in M
      <3>1. SetupMembers \in Seq(M)
        BY <2>2 DEF M
      <3> QED BY <3>1
    <2> QED BY <2>3, <2>4 DEF M
  <1> SUFFICES RowsOK' /\ BootOK'
    BY DEF Setup, TypeInv, JobsOK
  <1>4. CASE SetupCheck
    <2>1. boot' = [at |-> IF SetupValid THEN "orgs" ELSE "failed", n |-> boot.n, unit |-> boot.unit]
      BY <1>1, <1>4, BootStep DEF SetupCheck
    <2>2. BootOK'
      BY <1>0, <2>1 DEF BootOK, Boots
    <2> QED BY <1>1, <1>4, <2>2 DEF SetupCheck, RowsOK, rows
  <1>5. CASE SetupOrg
    <2>0. boot.n \in DOMAIN SetupOrgs
      BY <1>5 DEF SetupOrg
    <2>1. CASE SlugExists(SetupOrgs[boot.n])
      <3>1. boot' = [at |-> boot.at, n |-> boot.n + 1, unit |-> boot.unit] /\ boot.at = "orgs"
        BY <1>1, <1>5, <2>1, BootStep DEF SetupOrg
      <3>2. BootOK'
        BY <1>0, <3>1 DEF BootOK, Boots
      <3> QED BY <1>1, <1>5, <2>1, <3>2 DEF SetupOrg, RowsOK, rows
    <2>2. CASE ~SlugExists(SetupOrgs[boot.n])
      <3>1. PICK u \in Fresh :
               /\ unit' = [unit EXCEPT ![u] = [NoRow EXCEPT !.type = "organization"]]
               /\ boot' = [boot EXCEPT !.at = "tenant", !.unit = u]
               /\ UNCHANGED <<tenant, history, serial, role>>
        BY <1>5, <2>2 DEF SetupOrg
      <3>2. u \in Units /\ [NoRow EXCEPT !.type = "organization"] \in UnitRows
        BY DEF Fresh, NoRow, UnitRows
      <3>3. RowsOK'
        BY <1>1, <3>1, <3>2 DEF RowsOK
      <3>4. boot' = [at |-> "tenant", n |-> boot.n, unit |-> u]
        BY <1>1, <3>1, BootStep
      <3>5. BootOK'
        BY <1>0, <2>0, <3>2, <3>4 DEF BootOK, Boots
      <3> QED BY <3>3, <3>5
    <2> QED BY <2>1, <2>2
  <1>6. CASE SetupTenant
    <2>1. boot' = [at |-> "slug", n |-> boot.n, unit |-> boot.unit]
      BY <1>1, <1>6, BootStep DEF SetupTenant
    <2>2. BootOK'
      BY <1>0, <1>6, <2>1 DEF BootOK, Boots, SetupTenant
    <2> QED BY <1>0, <1>1, <1>6, <2>2 DEF SetupTenant, RowsOK
  <1>7. CASE SetupSlug
    <2>1. boot.unit \in Units /\ SetupOrgs[boot.n] \in Slugs
      BY <1>0, <1>3, <1>7 DEF SetupSlug
    <2>2. serial' \in 0 .. MaxRows /\ history' \in [1 .. MaxRows -> SlugRows]
      BY <1>1, <1>7, <2>1, AppendOK DEF SetupSlug
    <2>3. boot' = [at |-> "orgs", n |-> boot.n + 1, unit |-> NoUnit]
      BY <1>1, <1>7 DEF SetupSlug, BootOK, Boots
    <2>4. BootOK'
      BY <1>0, <2>3 DEF BootOK, Boots
    <2> QED BY <1>1, <1>7, <2>2, <2>4 DEF SetupSlug, RowsOK
  <1>8. CASE SetupOrgsDone
    <2>1. boot' = [at |-> "members", n |-> 1, unit |-> boot.unit]
      BY <1>1, <1>8, BootStep DEF SetupOrgsDone
    <2>2. BootOK'
      BY <1>0, <2>1 DEF BootOK, Boots
    <2> QED BY <1>1, <1>8, <2>2 DEF SetupOrgsDone, RowsOK, rows
  <1>9. CASE SetupMember
    <2>1. RowsOK'
      BY <1>1, <1>9 DEF SetupMember, RowsOK, rows
    <2>2. CASE Holders(SetupMembers[boot.n].slug) = {}
      <3>1. boot' = [at |-> "failed", n |-> boot.n, unit |-> boot.unit]
        BY <1>1, <1>9, <2>2, BootStep DEF SetupMember
      <3> QED BY <1>0, <2>1, <3>1 DEF BootOK, Boots
    <2>3. CASE Holders(SetupMembers[boot.n].slug) # {}
      <3>1. PICK o \in Holders(SetupMembers[boot.n].slug) :
               boot' = IF SetupMembers[boot.n].who \in Members(o) THEN [boot EXCEPT !.n = boot.n + 1]
                       ELSE [boot EXCEPT !.at = "grant", !.unit = o]
        BY <1>9, <2>3 DEF SetupMember
      <3>2. boot.at = "members" /\ boot.n \in DOMAIN SetupMembers
        BY <1>9 DEF SetupMember
      <3>3. o \in Units
        BY <1>2, <1>3, <3>1, <3>2
      <3>4. \/ boot' = [at |-> boot.at, n |-> boot.n + 1, unit |-> boot.unit]
            \/ boot' = [at |-> "grant", n |-> boot.n, unit |-> o]
        BY <1>1, <3>1, BootStep
      <3> QED BY <1>0, <2>1, <3>2, <3>3, <3>4 DEF BootOK, Boots
    <2> QED BY <2>2, <2>3
  <1>10. CASE SetupGrant
    <2>1. boot.unit \in Units /\ SetupMembers[boot.n].who \in People
          /\ SetupMembers[boot.n].role \in Roles
      BY <1>0, <1>3, <1>10 DEF SetupGrant, Roles
    <2>2. role' \in [Units -> [People -> Roles]]
      BY <1>1, <1>10, <2>1, SetRoleOK DEF SetupGrant
    <2>3. boot' = [at |-> "members", n |-> boot.n + 1, unit |-> NoUnit]
      BY <1>1, <1>10 DEF SetupGrant, BootOK, Boots
    <2>4. BootOK'
      BY <1>0, <2>3 DEF BootOK, Boots
    <2> QED BY <1>1, <1>10, <2>2, <2>4 DEF SetupGrant, RowsOK
  <1>11. CASE SetupDone
    <2>1. boot' = [at |-> "up", n |-> boot.n, unit |-> boot.unit]
      BY <1>1, <1>11, BootStep DEF SetupDone
    <2>2. BootOK'
      BY <1>0, <2>1 DEF BootOK, Boots
    <2> QED BY <1>1, <1>11, <2>2 DEF SetupDone, RowsOK, rows
  <1> QED BY <1>4, <1>5, <1>6, <1>7, <1>8, <1>9, <1>10, <1>11 DEF Setup

LEMMA TypeStep == TypeInv /\ [Next]_vars => TypeInv'
  <1> SUFFICES ASSUME TypeInv, [Next]_vars PROVE TypeInv'
    OBVIOUS
  <1>1. CASE Setup
    BY <1>1, SetupType
  <1>2. CASE Crash
    <2>1. JobsOK'
      BY <1>2, IdleOK DEF Crash, JobsOK
    <2>2. BootOK'
      BY <1>2 DEF Crash, BootOK, Boots, Start
    <2>3. clock' \in [asked : Nat, crashes : Nat]
      BY <1>2 DEF Crash, TypeInv
    <2> QED BY <1>2, <2>1, <2>2, <2>3 DEF Crash, TypeInv, RowsOK, rows
  <1>3. ASSUME NEW p \in Requests, Arrive(p) PROVE TypeInv'
    BY <1>3, ArriveStep, AskStep
  <1>4. ASSUME NEW p \in Requests, Step(p) PROVE TypeInv'
    BY <1>4, StepType
  <1>5. ASSUME NEW p \in Requests, End(p) PROVE TypeInv'
    <2>1. JobsOK'
      BY <1>5, FinishStep DEF End
    <2> QED BY <1>5, <2>1 DEF End, TypeInv, RowsOK, BootOK, rows
  <1>6. CASE UNCHANGED vars
    BY <1>6 DEF vars, TypeInv, RowsOK, JobsOK, BootOK
  <1> QED BY <1>1, <1>2, <1>3, <1>4, <1>5, <1>6 DEF Next

LEMMA TypesHold == Spec => []TypeInv
  <1> QED BY TypeInit, TypeStep, PTL DEF Spec

\* Type correctness: rows, requests and the setup keep to their types, whatever
\* overlaps, is cut off or crashes.
THEOREM TypeCorrect == Spec => []TypeOK
  <1>1. TypeInv => TypeOK
    BY DEF TypeInv, TypeOK, RowsOK, JobsOK, BootOK
  <1> QED BY <1>1, TypesHold, PTL

-----------------------------------------------------------------------------
(* Units and their organisations                                           *)

\* A unit belongs to the organisation of its parent: what InsertUnit writes does, and
\* DeleteRow deletes no organisation a unit belongs to and no parent it leaves named.
THEOREM UnitsStay == Spec => []UnitsStayInTheirOrganisation
  <1>1. Init => UnitsStayInTheirOrganisation
    BY DEF Init, UnitsStayInTheirOrganisation, NoRow
  <1>2. TypeInv /\ UnitsStayInTheirOrganisation /\ [Next]_vars => UnitsStayInTheirOrganisation'
    <2> SUFFICES ASSUME TypeInv, UnitsStayInTheirOrganisation, [Next]_vars, unit' # unit
                 PROVE  UnitsStayInTheirOrganisation'
      BY DEF UnitsStayInTheirOrganisation, Exists, OrgOf
    <2> USE DEF UnitsStayInTheirOrganisation, Exists, OrgOf
    <2>1. unit \in [Units -> UnitRows]
      BY DEF TypeInv, RowsOK
    <2>2. \/ SetupOrg
          \/ \E p \in Requests : InsertUnit(p) \/ DeleteRow(p)
      <3> USE DEF rows, vars
      <3>1. CASE Setup
        BY <3>1 DEF Setup, SetupCheck, SetupTenant, SetupSlug, SetupOrgsDone, SetupMember,
                    SetupGrant, SetupDone
      <3>2. ASSUME NEW p \in Requests, Step(p) PROVE InsertUnit(p) \/ DeleteRow(p)
        BY <3>2, ReadsRows DEF Step, Reads, WriteTenant, WriteSlug, WriteOwner, Join, Promote, Drop,
               WriteRole, UpdateMemberRole
      <3>3. ~Crash /\ \A p \in Requests : ~Arrive(p) /\ ~End(p)
        <4>1. ASSUME NEW p \in Requests, Arrive(p) PROVE FALSE
          BY <4>1, ArriveStep DEF Ask
        <4> QED BY <4>1 DEF Crash, End
      <3> QED BY <3>1, <3>2, <3>3 DEF Next
    \* A new organisation, and a new unit under one that is there.
    <2>3. ASSUME NEW u \in Units, unit[u].type = "none", NEW row,
                 unit' = [unit EXCEPT ![u] = row],
                 \/ row.type = "organization"
                 \/ \E o \in Units : /\ Exists(o)
                                     /\ row = [type |-> "unit", parent |-> o, org |-> OrgOf(o)]
          PROVE  UnitsStayInTheirOrganisation'
      <3> SUFFICES ASSUME NEW v \in Units, unit'[v].type = "unit"
                   PROVE  /\ unit'[v].org \in Units /\ unit'[unit'[v].org].type = "organization"
                          /\ unit'[v].parent # NoUnit =>
                                /\ unit'[unit'[v].parent].type \in {"organization", "unit"}
                                /\ unit'[v].org = IF unit'[unit'[v].parent].type = "organization"
                                                 THEN unit'[v].parent
                                                 ELSE unit'[unit'[v].parent].org
        OBVIOUS
      <3>1. \A x \in Units : x # u => unit'[x] = unit[x]
        BY <2>1, <2>3
      <3>2. \A x \in Units : unit[x].org \in Units \union {NoUnit}
                             /\ unit[x].parent \in Units \union {NoUnit}
        BY <2>1 DEF UnitRows
      <3>4. CASE v # u
        <4>1. unit'[v] = unit[v] /\ unit[v].org # u /\ unit[v].parent # u
          BY <2>3, <3>1, <3>4, OrganisationsAssumption
        <4>2. unit'[unit[v].org] = unit[unit[v].org]
          BY <2>1, <2>3, <4>1
        <4>3. unit[v].parent # NoUnit => unit'[unit[v].parent] = unit[unit[v].parent]
          BY <2>1, <2>3, <4>1
        <4> QED BY <3>4, <4>1, <4>2, <4>3
      <3>5. CASE v = u
        <4>1. unit'[u] = row
          BY <2>1, <2>3
        <4>2. PICK o \in Units : /\ Exists(o)
                                 /\ row = [type |-> "unit", parent |-> o, org |-> OrgOf(o)]
          BY <2>3, <3>5, <4>1
        <4>3. /\ o # u /\ OrgOf(o) # u /\ OrgOf(o) \in Units
              /\ unit[OrgOf(o)].type = "organization"
          BY <2>3, <4>2
        <4>4. unit'[o] = unit[o] /\ unit'[OrgOf(o)] = unit[OrgOf(o)]
          BY <2>1, <2>3, <4>2, <4>3
        <4> QED BY <3>5, <4>1, <4>2, <4>3, <4>4
      <3> QED BY <3>4, <3>5
    <2>4. CASE SetupOrg
      <3>1. PICK u \in Fresh : unit' = [unit EXCEPT ![u] = [NoRow EXCEPT !.type = "organization"]]
        BY <2>4 DEF SetupOrg, rows
      <3> QED BY <2>3, <3>1 DEF Fresh, NoRow
    <2>5. ASSUME NEW p \in Requests, InsertUnit(p) PROVE UnitsStayInTheirOrganisation'
      <3>1. PICK u \in Fresh :
               \/ unit' = [unit EXCEPT ![u] = [NoRow EXCEPT !.type = "organization"]]
               \/ /\ job[p].kind = "createUnit" /\ Exists(job[p].unit)
                  /\ unit' = [unit EXCEPT ![u] = [type |-> "unit", parent |-> job[p].unit,
                                                  org |-> OrgOf(job[p].unit)]]
        BY <2>5 DEF InsertUnit, rows
      <3>2. u \in Units /\ unit[u].type = "none"
        BY <3>1 DEF Fresh
      <3>3. job[p].kind = "createUnit" => job[p].unit \in Units
        BY <2>5, AtPoint DEF InsertUnit
      <3> QED BY <2>3, <3>1, <3>2, <3>3 DEF NoRow
    <2>6. ASSUME NEW p \in Requests, DeleteRow(p) PROVE UnitsStayInTheirOrganisation'
      <3> DEFINE u == job[p].unit
      <3>1. /\ Deletable(u) /\ u \in Units
            /\ unit' = [v \in Units |-> IF v = u THEN Gone
                          ELSE IF unit[v].parent = u THEN [unit[v] EXCEPT !.parent = NoUnit]
                          ELSE unit[v]]
        BY <2>6, AtPoint DEF DeleteRow, rows
      <3> HIDE DEF u
      <3>2. \A v \in Units : unit[v].org # u
        BY <3>1 DEF Deletable
      <3>3. \A v \in Units : /\ v = u => unit'[v].type = "deleted"
                             /\ v # u => /\ unit'[v].type = unit[v].type
                                         /\ unit'[v].org = unit[v].org
                                         /\ unit'[v].parent = IF unit[v].parent = u THEN NoUnit
                                                              ELSE unit[v].parent
        BY <2>1, <3>1 DEF Gone, UnitRows
      <3>4. \A v \in Units : unit[v].type = "unit" => unit[v].org \in Units
        OBVIOUS
      <3> QED BY <2>1, <3>2, <3>3, <3>4 DEF UnitRows
    <2> QED BY <2>2, <2>4, <2>5, <2>6
  <1> QED BY <1>1, <1>2, TypesHold, PTL DEF Spec
=============================================================================
