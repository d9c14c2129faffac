-------------------------- MODULE Accounts_proofs --------------------------
(***************************************************************************)
(* Theorems about Accounts, for any identities, addresses, configuration,  *)
(* accounts of earlier releases and number of requests: types and owners   *)
(* of sessions; then what accounts promise: Accounts implements            *)
(* AccountRegistry, onboarding is done once, and a login has one refresh   *)
(* token.                                                                  *)
(***************************************************************************)
EXTENDS Accounts, FiniteSetTheorems, TLAPS

-----------------------------------------------------------------------------
(* Types, and what a request carries at each of its points                 *)

PointsOf(kind) ==
    CASE kind = "none"     -> {"idle"}
      [] kind = "login"    -> {"find", "lock", "decide", "attach", "create", "upsert", "insert",
                               "recover", "bind", "finish", "save", "sweep", "issue"}
      [] kind = "link"     -> {"verify", "confirm", "sweep", "issue"}
      [] kind = "provide"  -> {"lookup", "reserve", "register"}
      [] kind = "onboard"  -> {"read", "write"}
      [] kind = "refresh"  -> {"spend", "sweep", "issue"}
      [] kind = "internal" -> {"sweep", "issue"}

JobOK(j) ==
    /\ j \in Jobs
    /\ j.at \in PointsOf(j.kind)
    /\ j.kind = "login" => j.id \in Identities /\ <<j.id, j.email>> \in Logins
    /\ j.kind = "link" => j.id \in Identities /\ j.existing \in Identities
    /\ j.kind = "provide" => j.email \in Emails
    /\ j.kind = "onboard" => j.name \in Names
    /\ j.kind \in {"link", "onboard", "refresh", "internal"} => j.user \in Users
    /\ j.kind = "refresh" => j.from \in Tokens
    /\ j.kind = "internal" => j.id = NoIdentity /\ j.existing = NoIdentity
    /\ j.at \in {"decide", "attach", "bind", "finish", "save"}
       \/ (j.kind = "login" /\ j.at \in {"sweep", "issue"}) => j.user \in Users
    /\ j.at \in {"lock", "decide", "attach", "bind", "upsert"} \/ j.again => j.email \in Emails
    /\ j.at = "bind" => j.existing \in Identities

RowsOK == /\ profile \in [Users -> Profiles]
          /\ owner \in [Identities -> Users \union {NoUser}]
          /\ mail \in [Emails -> Users \union {NoUser}]
          /\ token \in [Tokens -> TokenRows]
          /\ link \subseteq LinkTokens
          /\ asked \in 0 .. MaxRequests
          /\ crossed \subseteq Users /\ overlapped \subseteq Tokens

JobsOK == job \in [Requests -> Jobs] /\ \A p \in Requests : JobOK(job[p])

TypeInv == RowsOK /\ JobsOK

-----------------------------------------------------------------------------
(* What a request knows, and what stays true because rows only grow         *)

Sound(j) ==
    /\ j.again => mail[j.email] # NoUser
    /\ j.at \in {"decide", "attach", "bind"} => mail[j.email] = j.user
    /\ j.at = "bind" => owner[j.existing] = j.user
    /\ j.kind = "login" /\ j.at \in {"finish", "save", "sweep", "issue"} => owner[j.id] = j.user
    /\ j.kind = "link" => [id |-> j.id, existing |-> j.existing, user |-> j.user] \in link
    /\ j.kind = "refresh" => token[j.from].state # "none" /\ token[j.from].user = j.user
    /\ j.kind = "onboard" \/ j.at \in {"finish", "save"} => profile[j.user].made
    /\ j.at = "save" => j.seen.made

\* Accounts are there before anything leads to them, what a link token offers was
\* confirmed to be an account with an identity, and sessions are their owners'.
Rooted ==
    /\ \A i \in Identities : owner[i] # NoUser => profile[owner[i]].made
    /\ \A e \in Emails : mail[e] # NoUser => profile[mail[e]].made
    /\ \A l \in link : owner[l.existing] = l.user
    /\ \A t \in Tokens : IF token[t].state = "none" THEN token[t] = NoToken
                        ELSE token[t].from \in Tokens /\ token[t].user \in Users
    /\ SessionsAreTheOwners

SoundInv == Rooted /\ \A p \in Requests : Sound(job[p])

Grows ==
    /\ \A i \in Identities : owner[i] # NoUser => owner'[i] = owner[i]
    /\ \A e \in Emails : mail[e] # NoUser => mail'[e] = mail[e]
    /\ \A u \in Users : profile[u].made => profile'[u].made
    /\ link \subseteq link'
    /\ \A t \in Tokens : token[t].state # "none" =>
          /\ token'[t].state # "none"
          /\ token'[t].user = token[t].user
          /\ token'[t].from = token[t].from
          /\ token'[t].via = token[t].via

\* The locks of the addresses: one transaction resolves an address at a time, and one
\* inserts it at a time, which nobody has then.
MailFree == \A p \in Requests : job[p].at = "insert" /\ job[p].email # NoEmail
                                 => mail[job[p].email] = NoUser

LEMMA IdleOK == /\ JobOK(Idle) /\ Idle \in Jobs /\ Idle.at = "idle" /\ Idle.kind = "none"
                /\ ~Idle.again /\ Sound(Idle)'
  <1>1. Idle \in Jobs
    BY AccountsAssumption DEF Jobs, Idle, Kinds, Points, Profiles, NoRow
  <1>2. Idle.kind = "none" /\ Idle.at = "idle" /\ ~Idle.again
    BY DEF Idle
  <1>3. JobOK(Idle)
    BY <1>1, <1>2 DEF JobOK, PointsOf
  <1> QED BY <1>1, <1>2, <1>3 DEF Sound

\* What a request knows stays true while others write.
LEMMA SoundStays ==
    ASSUME TypeInv, NEW j, JobOK(j), Sound(j), Grows
    PROVE  Sound(j)'
  <1> USE DEF TypeInv, RowsOK
  <1>1. (j.again => mail[j.email] # NoUser)'
    BY DEF JobOK, Sound, Grows
  <1>2. (j.at \in {"decide", "attach", "bind"} => mail[j.email] = j.user)'
    BY AccountsAssumption DEF JobOK, Sound, Grows
  <1>3. (j.at = "bind" => owner[j.existing] = j.user)'
    BY AccountsAssumption DEF JobOK, Sound, Grows
  <1>4. (j.kind = "login" /\ j.at \in {"finish", "save", "sweep", "issue"} => owner[j.id] = j.user)'
    BY AccountsAssumption DEF JobOK, Sound, Grows
  <1>5. (j.kind = "link" => [id |-> j.id, existing |-> j.existing, user |-> j.user] \in link)'
    BY DEF JobOK, Sound, Grows
  <1>6. (j.kind = "refresh" => token[j.from].state # "none" /\ token[j.from].user = j.user)'
    BY DEF JobOK, Sound, Grows
  <1>7. (j.kind = "onboard" \/ j.at \in {"finish", "save"} => profile[j.user].made)'
    BY DEF JobOK, Sound, Grows
  <1> QED BY <1>1, <1>2, <1>3, <1>4, <1>5, <1>6, <1>7 DEF Sound

\* A step of one request leaves the others where they are.
LEMMA OthersStay ==
    ASSUME TypeInv, SoundInv, NEW p \in Requests, NEW j, job' = [job EXCEPT ![p] = j],
           JobOK(j), RowsOK', Grows, Rooted', Sound(j)'
    PROVE  Grows /\ TypeInv' /\ SoundInv'
  <1>1. job' \in [Requests -> Jobs]
    BY DEF TypeInv, JobsOK, JobOK
  <1>2. \A q \in Requests \ {p} : job'[q] = job[q]
    BY DEF TypeInv, JobsOK
  <1>3. job'[p] = j
    BY DEF TypeInv, JobsOK
  <1>4. ASSUME NEW q \in Requests PROVE JobOK(job'[q]) /\ Sound(job[q])'
    <2>1. CASE q = p
      BY <2>1, <1>3
    <2>2. CASE q # p
      <3>1. PICK i : i = job[q]
        OBVIOUS
      <3>2. Sound(i)'
        BY <3>1, SoundStays DEF TypeInv, JobsOK, SoundInv
      <3> QED BY <3>1, <3>2, <2>2, <1>2 DEF TypeInv, JobsOK
    <2> QED BY <2>1, <2>2
  <1>5. JobsOK'
    BY <1>1, <1>4 DEF JobsOK, JobOK
  <1> QED BY <1>4, <1>5 DEF TypeInv, SoundInv

\* A step that writes none of the rows.
LEMMA QuietStep ==
    ASSUME TypeInv, SoundInv, NEW p \in Requests, NEW j, job' = [job EXCEPT ![p] = j],
           JobOK(j), Sound(j), UNCHANGED rows, asked' \in 0 .. MaxRequests,
           crossed' = crossed, overlapped' \subseteq Tokens
    PROVE  Grows /\ TypeInv' /\ SoundInv'
  <1>1. Grows
    BY DEF rows, Grows
  <1>2. RowsOK'
    BY DEF TypeInv, RowsOK, rows
  <1>3. Sound(j)'
    BY <1>1, SoundStays
  <1>4. Rooted'
    BY DEF SoundInv, Rooted, SessionsAreTheOwners, rows
  <1> QED BY <1>1, <1>2, <1>3, <1>4, OthersStay

Keeps(j, k) == /\ k.kind = j.kind /\ k.id = j.id /\ k.email = j.email
               /\ k.from = j.from /\ k.name = j.name

LEMMA MoveForm ==
    ASSUME TypeInv, NEW p \in Requests, NEW at \in Points, Move(p, at)
    PROVE  \E k \in Jobs : /\ job' = [job EXCEPT ![p] = k] /\ Keeps(job[p], k)
                           /\ k.at = at /\ k.user = job[p].user
                           /\ k.existing = job[p].existing
                           /\ k.again = job[p].again /\ k.seen = job[p].seen
  <1>1. job[p] \in Jobs
    BY DEF TypeInv, JobsOK, JobOK
  <1>2. [job[p] EXCEPT !.at = at] \in Jobs
    BY <1>1 DEF Jobs
  <1>3. job' = [job EXCEPT ![p] = [job[p] EXCEPT !.at = at]]
    BY DEF Move, TypeInv, JobsOK
  <1> QED BY <1>1, <1>2, <1>3 DEF Jobs, Keeps

LEMMA EnterForm ==
    ASSUME TypeInv, NEW p \in Requests, NEW at \in Points, NEW u \in Users \union {NoUser},
           Enter(p, at, u)
    PROVE  \E k \in Jobs : /\ job' = [job EXCEPT ![p] = k] /\ Keeps(job[p], k)
                           /\ k.at = at /\ k.user = u
                           /\ k.existing = job[p].existing
                           /\ k.again = job[p].again /\ k.seen = job[p].seen
  <1>1. job[p] \in Jobs
    BY DEF TypeInv, JobsOK, JobOK
  <1>2. [job[p] EXCEPT !.at = at, !.user = u] \in Jobs
    BY <1>1 DEF Jobs
  <1>3. job' = [job EXCEPT ![p] = [job[p] EXCEPT !.at = at, !.user = u]]
    BY DEF Enter, TypeInv, JobsOK
  <1> QED BY <1>1, <1>2, <1>3 DEF Jobs, Keeps

LEMMA FinishStep ==
    ASSUME TypeInv, SoundInv, NEW p \in Requests, Finish(p), UNCHANGED rows,
           asked' \in 0 .. MaxRequests, crossed' = crossed, overlapped' \subseteq Tokens
    PROVE  Grows /\ TypeInv' /\ SoundInv'
  <1>1. Sound(Idle)
    BY IdleOK DEF Sound
  <1> QED BY <1>1, IdleOK, QuietStep DEF Finish

-----------------------------------------------------------------------------
(* Every action keeps this                                                 *)

LEMMA AskStep ==
    ASSUME TypeInv, SoundInv, NEW p \in Requests, NEW j, asked < MaxRequests,
           Ask(p, j), JobOK(j), Sound(j)
    PROVE  Grows /\ TypeInv' /\ SoundInv'
  <1>1. asked' \in 0 .. MaxRequests /\ overlapped' \subseteq Tokens
    BY AccountsAssumption DEF Ask, TypeInv, RowsOK
  <1> QED BY <1>1, QuietStep DEF Ask

\* A token that is there descends from one that is there.
LEMMA FromIsAToken ==
    ASSUME TypeInv, SoundInv, NEW t \in Tokens, token[t].state # "none"
    PROVE  token[t].from \in Tokens
  BY DEF SoundInv, Rooted

\* The states of some tokens change, and nothing else of the rows.
LEMMA TokenRowsStep ==
    ASSUME TypeInv, SoundInv,
           token' \in [Tokens -> TokenRows],
           \A t \in Tokens : \/ token'[t] = token[t]
                             \/ /\ token[t].state # "none"
                                /\ \E s \in {"spent", "gone"} : token'[t] = [token[t] EXCEPT !.state = s],
           UNCHANGED <<profile, owner, mail, link, crossed, overlapped>>,
           asked' \in 0 .. MaxRequests
    PROVE  RowsOK' /\ Grows /\ Rooted'
  <1>1. \A t \in Tokens : /\ (token'[t].state = "none" <=> token[t].state = "none")
                          /\ token'[t].user = token[t].user /\ token'[t].from = token[t].from
                          /\ token'[t].via = token[t].via
    BY DEF TypeInv, RowsOK, TokenRows
  <1>2. Grows
    BY <1>1 DEF Grows
  <1>3. RowsOK'
    BY DEF TypeInv, RowsOK
  <1>4. Rooted'
    <2>1. \A t \in Tokens : token'[t].state = "none" => token'[t] = token[t]
      BY DEF TypeInv, RowsOK, TokenRows
    <2>2. \A t \in Tokens : token'[t].state = "none" => token'[t] = NoToken
      BY <1>1, <2>1 DEF SoundInv, Rooted
    <2>3. \A t \in Tokens : token'[t].state # "none" => token'[t].from \in Tokens /\ token'[t].user \in Users
      BY <1>1 DEF SoundInv, Rooted
    <2>4. SessionsAreTheOwners'
      BY <1>1 DEF SoundInv, Rooted, SessionsAreTheOwners
    <2> QED BY <2>2, <2>3, <2>4 DEF SoundInv, Rooted
  <1> QED BY <1>2, <1>3, <1>4

\* And no request is moved.
LEMMA TokenStateStep ==
    ASSUME TypeInv, SoundInv, RowsOK', Grows, Rooted', job' = job
    PROVE  Grows /\ TypeInv' /\ SoundInv'
  <1>1. ASSUME NEW q \in Requests PROVE Sound(job[q])'
    <2>1. PICK i : i = job[q]
      OBVIOUS
    <2>2. Sound(i)'
      BY <2>1, SoundStays DEF TypeInv, JobsOK, SoundInv
    <2> QED BY <2>1, <2>2
  <1>2. JobsOK'
    BY DEF TypeInv, JobsOK
  <1> QED BY <1>1, <1>2 DEF TypeInv, SoundInv

LEMMA ArriveStep ==
    ASSUME TypeInv, SoundInv, NEW p \in Requests, Arrive(p)
    PROVE  Grows /\ TypeInv' /\ SoundInv'
  <1> USE IdleOK DEF JobOK, PointsOf, Points, Kinds
  <1>0. asked < MaxRequests
    BY DEF Arrive
  <1>1. CASE Login(p)
    <2>1. PICK i \in Identities, e \in Emails \union {NoEmail} : /\ <<i, e>> \in Logins
             /\ Ask(p, [Idle EXCEPT !.kind = "login", !.at = "find", !.id = i, !.email = e])
      BY <1>1 DEF Login
    <2> DEFINE j == [Idle EXCEPT !.kind = "login", !.at = "find", !.id = i, !.email = e]
    <2>2. j \in Jobs /\ j.kind = "login" /\ j.at = "find" /\ j.id = i /\ j.email = e /\ ~j.again
      BY DEF Jobs, Idle
    <2> HIDE DEF j
    <2>3. JobOK(j) /\ Sound(j)
      BY <2>1, <2>2 DEF Sound
    <2> QED BY <1>0, <2>1, <2>3, AskStep DEF j
  <1>2. CASE LinkAccount(p)
    <2>1. PICK l \in link : Ask(p, [Idle EXCEPT !.kind = "link", !.at = "verify", !.id = l.id,
                                               !.existing = l.existing, !.user = l.user])
      BY <1>2 DEF LinkAccount
    <2> DEFINE j == [Idle EXCEPT !.kind = "link", !.at = "verify", !.id = l.id,
                                 !.existing = l.existing, !.user = l.user]
    <2>0. l \in LinkTokens
      BY DEF TypeInv, RowsOK
    <2>2. /\ j \in Jobs /\ j.kind = "link" /\ j.at = "verify" /\ ~j.again
          /\ j.id = l.id /\ j.existing = l.existing /\ j.user = l.user
      BY <2>0 DEF Jobs, Idle, LinkTokens
    <2>3. l = [id |-> l.id, existing |-> l.existing, user |-> l.user]
      BY <2>0 DEF LinkTokens
    <2> HIDE DEF j
    <2>4. JobOK(j) /\ Sound(j)
      BY <2>0, <2>2, <2>3 DEF Sound, LinkTokens
    <2> QED BY <1>0, <2>1, <2>4, AskStep DEF j
  <1>3. CASE FindOrCreateByEmail(p)
    <2>1. PICK e \in Emails, u \in Users \union {NoUser} :
             Ask(p, [Idle EXCEPT !.kind = "provide", !.at = "lookup", !.email = e, !.user = u])
      BY <1>3 DEF FindOrCreateByEmail
    <2> DEFINE j == [Idle EXCEPT !.kind = "provide", !.at = "lookup", !.email = e, !.user = u]
    <2>2. j \in Jobs /\ j.kind = "provide" /\ j.at = "lookup" /\ j.email = e /\ ~j.again
      BY DEF Jobs, Idle
    <2> HIDE DEF j
    <2>3. JobOK(j) /\ Sound(j)
      BY <2>2 DEF Sound
    <2> QED BY <1>0, <2>1, <2>3, AskStep DEF j
  <1>4. CASE Onboarding(p)
    <2>1. PICK u \in Users, m \in Names : /\ profile[u].made
             /\ Ask(p, [Idle EXCEPT !.kind = "onboard", !.at = "read", !.user = u, !.name = m])
      BY <1>4 DEF Onboarding
    <2> DEFINE j == [Idle EXCEPT !.kind = "onboard", !.at = "read", !.user = u, !.name = m]
    <2>2. j \in Jobs /\ j.kind = "onboard" /\ j.at = "read" /\ j.user = u /\ j.name = m /\ ~j.again
      BY DEF Jobs, Idle
    <2> HIDE DEF j
    <2>3. JobOK(j) /\ Sound(j)
      BY <2>1, <2>2 DEF Sound
    <2> QED BY <1>0, <2>1, <2>3, AskStep DEF j
  <1>5. CASE InternalAPITokenLogin(p)
    <2>1. PICK u \in Users : Ask(p, [Idle EXCEPT !.kind = "internal", !.at = "sweep", !.user = u])
      BY <1>5 DEF InternalAPITokenLogin
    <2> DEFINE j == [Idle EXCEPT !.kind = "internal", !.at = "sweep", !.user = u]
    <2>2. /\ j \in Jobs /\ j.kind = "internal" /\ j.at = "sweep" /\ ~j.again /\ j.user = u
          /\ j.id = NoIdentity /\ j.existing = NoIdentity
      BY DEF Jobs, Idle
    <2> HIDE DEF j
    <2>3. JobOK(j) /\ Sound(j)
      BY <2>2 DEF Sound
    <2> QED BY <1>0, <2>1, <2>3, AskStep DEF j
  <1>6. CASE RefreshToken(p)
    <2>1. PICK t \in Tokens : /\ token[t].state = "active" /\ asked' = asked + 1
             /\ job' = [job EXCEPT ![p] = [Idle EXCEPT !.kind = "refresh", !.at = "spend",
                                                      !.user = token[t].user, !.from = t]]
             /\ overlapped' \in {overlapped, overlapped \union {token[t].from}}
             /\ UNCHANGED rows /\ crossed' = crossed
      BY <1>6 DEF RefreshToken
    <2> DEFINE j == [Idle EXCEPT !.kind = "refresh", !.at = "spend", !.user = token[t].user, !.from = t]
    <2>0. token[t] \in TokenRows /\ t \in 0 .. MaxRequests
      BY AccountsAssumption DEF TypeInv, RowsOK, Tokens
    <2>2. /\ j \in Jobs /\ j.kind = "refresh" /\ j.at = "spend" /\ ~j.again
          /\ j.user = token[t].user /\ j.from = t
      BY <2>0 DEF Jobs, Idle, TokenRows
    <2> HIDE DEF j
    <2>a. token[t].user \in Users
      BY <2>1 DEF SoundInv, Rooted
    <2>3. JobOK(j) /\ Sound(j)
      BY <2>1, <2>2, <2>a DEF Sound
    <2>4. asked' \in 0 .. MaxRequests
      BY <1>0, <2>1, AccountsAssumption DEF TypeInv, RowsOK
    <2>5. overlapped' \subseteq Tokens
      BY <2>1, FromIsAToken DEF TypeInv, RowsOK
    <2>6. job' = [job EXCEPT ![p] = j]
      BY <2>1 DEF j
    <2> QED BY <2>1, <2>3, <2>4, <2>5, <2>6, QuietStep
  <1>7. CASE Logout(p)
    <2>1. PICK t \in Tokens : /\ token[t].state = "active" /\ asked' = asked + 1
                             /\ token' = [token EXCEPT ![t].state = "spent"]
                             /\ UNCHANGED <<profile, owner, mail, link, job, crossed, overlapped>>
      BY <1>7 DEF Logout
    <2>2. asked' \in 0 .. MaxRequests
      BY <1>0, <2>1, AccountsAssumption DEF TypeInv, RowsOK
    <2>3. token' \in [Tokens -> TokenRows]
      BY <2>1 DEF TypeInv, RowsOK, TokenRows
    <2>4. \A s \in Tokens : s # t => token'[s] = token[s]
      BY <2>1 DEF TypeInv, RowsOK
    <2>5. token'[t] = [token[t] EXCEPT !.state = "spent"] /\ token[t].state # "none"
      BY <2>1 DEF TypeInv, RowsOK
    <2>6. \A s \in Tokens : \/ token'[s] = token[s]
                            \/ /\ token[s].state # "none"
                               /\ \E x \in {"spent", "gone"} : token'[s] = [token[s] EXCEPT !.state = x]
      BY <2>4, <2>5
    <2>7. RowsOK' /\ Grows /\ Rooted'
      BY <2>1, <2>2, <2>3, <2>6, TokenRowsStep
    <2> QED BY <2>1, <2>7, TokenStateStep
  <1> QED BY <1>1, <1>2, <1>3, <1>4, <1>5, <1>6, <1>7 DEF Arrive

\* The statements that only read, and the end of a request.
LEMMA ReadStep ==
    ASSUME TypeInv, SoundInv, NEW p \in Requests,
           \/ FindByProvider(p) \/ LockEmail(p) \/ Decide(p) \/ StartAccount(p)
           \/ UpsertEmail(p) \/ Recover(p) \/ ReadForAvatar(p) \/ VerifyExisting(p)
           \/ LookupEmail(p) \/ ReserveId(p) \/ ReadProfile(p) \/ End(p)
    PROVE  Grows /\ TypeInv' /\ SoundInv'
  <1> DEFINE J == job[p]
  <1>0. /\ JobOK(J) /\ Sound(J) /\ J \in Jobs
        /\ \A i \in Identities : owner[i] \in Users \union {NoUser}
        /\ \A e \in Emails : mail[e] \in Users \union {NoUser}
    BY DEF TypeInv, JobsOK, SoundInv, RowsOK, JobOK
  <1>a. /\ UNCHANGED rows /\ asked' \in 0 .. MaxRequests
        /\ crossed' = crossed /\ overlapped' \subseteq Tokens
    BY DEF TypeInv, RowsOK, FindByProvider, LockEmail, Decide, StartAccount, UpsertEmail, Recover,
           ReadForAvatar, VerifyExisting, LookupEmail, ReserveId, ReadProfile, End, Silent
  <1>b. ASSUME Finish(p) PROVE Grows /\ TypeInv' /\ SoundInv'
    BY <1>a, <1>b, FinishStep
  \* The points of a login are of no other kind.
  <1>c. J.at \notin {"idle", "sweep", "issue", "verify", "confirm", "lookup", "reserve",
                    "register", "read", "write", "spend"} => J.kind = "login"
    BY <1>0 DEF JobOK, PointsOf, Jobs, Kinds
  <1>d. /\ J.at = "verify" => J.kind = "link"
        /\ J.at \in {"lookup", "reserve"} => J.kind = "provide"
        /\ J.at = "read" => J.kind = "onboard"
    BY <1>0 DEF JobOK, PointsOf, Jobs, Kinds
  \* Going on with the same facts.
  <1>e. ASSUME NEW at \in {"create", "attach", "insert", "upsert", "recover", "confirm",
                           "reserve", "register", "write"},
               at \in PointsOf(J.kind), Move(p, at),
               at = "attach" => J.at = "decide",
               at = "upsert" => J.email \in Emails
        PROVE  Grows /\ TypeInv' /\ SoundInv'
    <2>1. PICK k \in Jobs : /\ job' = [job EXCEPT ![p] = k] /\ Keeps(J, k)
                           /\ k.at = at /\ k.user = J.user /\ k.existing = J.existing
                           /\ k.again = J.again /\ k.seen = J.seen
      BY <1>e, MoveForm DEF Points
    <2>2. JobOK(k)
      BY <1>0, <1>e, <2>1 DEF JobOK, Keeps
    <2>3. Sound(k)
      BY <1>0, <1>e, <2>1 DEF Sound, Keeps
    <2> QED BY <1>a, <2>1, <2>2, <2>3, QuietStep
  \* A login that has found the account of its identity.
  <1>f. ASSUME NEW u \in Users, Enter(p, "sweep", u), J.kind = "login", owner[J.id] = u
        PROVE  Grows /\ TypeInv' /\ SoundInv'
    <2>1. PICK k \in Jobs : /\ job' = [job EXCEPT ![p] = k] /\ Keeps(J, k)
                           /\ k.at = "sweep" /\ k.user = u /\ k.existing = J.existing
                           /\ k.again = J.again /\ k.seen = J.seen
      BY <1>f, EnterForm DEF Points
    <2>2. JobOK(k)
      BY <1>0, <1>f, <2>1 DEF JobOK, Keeps, PointsOf
    <2>3. Sound(k)
      BY <1>0, <1>f, <2>1 DEF Sound, Keeps
    <2> QED BY <1>a, <2>1, <2>2, <2>3, QuietStep
  <1>g. ASSUME Move(p, "sweep"), J.kind = "login", owner[J.id] = J.user, J.user \in Users
        PROVE  Grows /\ TypeInv' /\ SoundInv'
    <2>1. PICK k \in Jobs : /\ job' = [job EXCEPT ![p] = k] /\ Keeps(J, k)
                           /\ k.at = "sweep" /\ k.user = J.user /\ k.existing = J.existing
                           /\ k.again = J.again /\ k.seen = J.seen
      BY <1>g, MoveForm DEF Points
    <2>2. JobOK(k)
      BY <1>0, <1>g, <2>1 DEF JobOK, Keeps, PointsOf
    <2>3. Sound(k)
      BY <1>0, <1>g, <2>1 DEF Sound, Keeps
    <2> QED BY <1>a, <2>1, <2>2, <2>3, QuietStep
  <1>1. CASE FindByProvider(p)
    <2>1. J.kind = "login" /\ J.id \in Identities
      BY <1>0, <1>1, <1>c DEF FindByProvider, JobOK
    <2>2. CASE owner[J.id] # NoUser
      BY <1>0, <1>1, <2>1, <2>2, <1>f DEF FindByProvider
    <2>3. CASE owner[J.id] = NoUser /\ J.email = NoEmail
      <3>1. Move(p, "create")
        BY <1>1, <2>3 DEF FindByProvider
      <3> QED BY <2>1, <3>1, <1>e DEF PointsOf
    <2>4. CASE owner[J.id] = NoUser /\ J.email # NoEmail
      <3>1. Move(p, "lock") /\ J.email \in Emails
        BY <1>0, <1>1, <2>4 DEF FindByProvider, Jobs
      <3>2. PICK k \in Jobs : /\ job' = [job EXCEPT ![p] = k] /\ Keeps(J, k)
                             /\ k.at = "lock" /\ k.user = J.user /\ k.existing = J.existing
                             /\ k.again = J.again /\ k.seen = J.seen
        BY <3>1, MoveForm DEF Points
      <3>3. JobOK(k)
        BY <1>0, <2>1, <3>1, <3>2 DEF JobOK, Keeps, PointsOf
      <3>4. Sound(k)
        BY <1>0, <2>1, <3>1, <3>2 DEF Sound, Keeps
      <3> QED BY <1>a, <3>2, <3>3, <3>4, QuietStep
    <2> QED BY <2>2, <2>3, <2>4
  <1>2. CASE LockEmail(p)
    <2>1. J.kind = "login" /\ J.email \in Emails
      BY <1>0, <1>2, <1>c DEF LockEmail, JobOK
    <2>2. CASE mail[J.email] # NoUser
      <3>1. Enter(p, "decide", mail[J.email]) /\ mail[J.email] \in Users
        BY <1>0, <1>2, <2>1, <2>2 DEF LockEmail
      <3>2. PICK k \in Jobs : /\ job' = [job EXCEPT ![p] = k] /\ Keeps(J, k)
                             /\ k.at = "decide" /\ k.user = mail[J.email] /\ k.existing = J.existing
                             /\ k.again = J.again /\ k.seen = J.seen
        BY <3>1, EnterForm DEF Points
      <3>3. JobOK(k)
        BY <1>0, <2>1, <3>1, <3>2 DEF JobOK, Keeps, PointsOf
      <3>4. Sound(k)
        BY <1>0, <2>1, <3>1, <3>2 DEF Sound, Keeps
      <3> QED BY <1>a, <3>2, <3>3, <3>4, QuietStep
    <2>3. CASE mail[J.email] = NoUser
      <3>1. ~J.again
        BY <1>0, <2>3 DEF Sound
      <3>2. Move(p, "create")
        BY <1>2, <2>3, <3>1 DEF LockEmail
      <3> QED BY <2>1, <3>2, <1>e DEF PointsOf
    <2> QED BY <2>2, <2>3
  <1>3. CASE Decide(p)
    <2>1. /\ J.kind = "login" /\ J.user \in Users /\ J.at = "decide"
          /\ J.email \in Emails /\ mail[J.email] = J.user /\ J.id \in Identities
      BY <1>0, <1>3, <1>c DEF Decide, JobOK, Sound
    <2>2. ASSUME Move(p, "attach") PROVE Grows /\ TypeInv' /\ SoundInv'
      BY <2>1, <2>2, <1>e DEF PointsOf
    <2>3. CASE Known(J.user) = {}
      BY <1>3, <2>2, <2>3 DEF Decide
    <2>4. CASE Known(J.user) # {}
      <3>1. PICK x \in Known(J.user) :
               IF x = J.id THEN Move(p, "sweep")
               ELSE IF Cardinality(Addresses(J.user)) <= 1
                    THEN job' = [job EXCEPT ![p].at = "bind", ![p].existing = x]
                    ELSE Move(p, "attach")
        BY <1>3, <2>4 DEF Decide
      <3>2. x \in Identities /\ owner[x] = J.user
        BY <3>1 DEF Known
      <3>3. CASE x = J.id
        BY <2>1, <3>1, <3>2, <3>3, <1>g
      <3>4. CASE job' = [job EXCEPT ![p].at = "bind", ![p].existing = x]
        <4> DEFINE k == [J EXCEPT !.at = "bind", !.existing = x]
        <4>1. k \in Jobs /\ Keeps(J, k) /\ k.at = "bind" /\ k.existing = x /\ k.user = J.user /\ k.again = J.again
          BY <1>0, <3>2 DEF Jobs, Points, Keeps
        <4>2. job' = [job EXCEPT ![p] = k]
          BY <3>4 DEF TypeInv, JobsOK
        <4> HIDE DEF k
        <4>3. JobOK(k)
          BY <1>0, <2>1, <3>2, <4>1 DEF JobOK, Keeps, PointsOf
        <4>4. Sound(k)
          BY <1>0, <2>1, <3>2, <4>1 DEF Sound, Keeps
        <4> QED BY <1>a, <4>2, <4>3, <4>4, QuietStep
      <3> QED BY <2>2, <3>1, <3>3, <3>4
    <2> QED BY <2>3, <2>4
  <1>4. CASE StartAccount(p)
    <2>1. J.kind = "login" /\ J.at = "create"
      BY <1>4, <1>c DEF StartAccount
    <2>2. \E at \in {"insert", "upsert", "recover"} : Move(p, at) /\ (at = "upsert" => J.email \in Emails)
      BY <1>0, <1>4 DEF StartAccount, Jobs
    <2> QED BY <2>1, <2>2, <1>e DEF PointsOf
  <1>5. CASE UpsertEmail(p)
    <2>1. J.kind = "login" /\ J.at = "upsert"
      BY <1>5, <1>c DEF UpsertEmail
    <2>2. Move(p, "insert") \/ Move(p, "recover")
      BY <1>5 DEF UpsertEmail
    <2> QED BY <2>1, <2>2, <1>e DEF PointsOf
  <1>6. CASE Recover(p)
    <2>1. J.kind = "login" /\ J.id \in Identities
      BY <1>0, <1>6, <1>c DEF Recover, JobOK
    <2>2. CASE owner[J.id] # NoUser
      BY <1>0, <1>6, <2>1, <2>2, <1>f DEF Recover
    <2>3. CASE owner[J.id] = NoUser /\ J.email # NoEmail /\ mail[J.email] # NoUser
      <3>1. /\ J.email \in Emails /\ mail[J.email] \in Users
            /\ job' = [job EXCEPT ![p].at = "lock", ![p].user = mail[J.email], ![p].again = TRUE]
        BY <1>0, <1>6, <2>3 DEF Recover, Jobs
      <3> DEFINE k == [J EXCEPT !.at = "lock", !.user = mail[J.email], !.again = TRUE]
      <3>2. k \in Jobs /\ Keeps(J, k) /\ k.at = "lock" /\ k.existing = J.existing /\ k.user = mail[J.email]
        BY <1>0, <3>1 DEF Jobs, Points, Keeps
      <3>3. job' = [job EXCEPT ![p] = k]
        BY <3>1 DEF TypeInv, JobsOK
      <3> HIDE DEF k
      <3>4. JobOK(k)
        BY <1>0, <2>1, <3>1, <3>2 DEF JobOK, Keeps, PointsOf
      <3>5. Sound(k)
        BY <1>0, <2>1, <2>3, <3>1, <3>2 DEF Sound, Keeps
      <3> QED BY <1>a, <3>3, <3>4, <3>5, QuietStep
    <2>4. CASE owner[J.id] = NoUser /\ ~(J.email # NoEmail /\ mail[J.email] # NoUser)
      BY <1>6, <2>4, <1>b DEF Recover
    <2> QED BY <2>2, <2>3, <2>4
  <1>7. CASE ReadForAvatar(p)
    <2>1. /\ J.kind = "login" /\ J.at = "finish" /\ J.user \in Users /\ owner[J.id] = J.user
          /\ profile[J.user].made /\ profile[J.user] \in Profiles
      BY <1>0, <1>7, <1>c DEF ReadForAvatar, JobOK, Sound, TypeInv, RowsOK
    <2>2. CASE Move(p, "sweep")
      BY <2>1, <2>2, <1>g
    <2>3. CASE job' = [job EXCEPT ![p].at = "save", ![p].seen = profile[J.user]]
      <3> DEFINE k == [J EXCEPT !.at = "save", !.seen = profile[J.user]]
      <3>1. k \in Jobs /\ Keeps(J, k) /\ k.at = "save" /\ k.seen = profile[J.user] /\ k.user = J.user /\ k.again = J.again
        BY <1>0, <2>1 DEF Jobs, Points, Keeps
      <3>2. job' = [job EXCEPT ![p] = k]
        BY <2>3 DEF TypeInv, JobsOK
      <3> HIDE DEF k
      <3>3. JobOK(k)
        BY <1>0, <2>1, <3>1 DEF JobOK, Keeps, PointsOf
      <3>4. Sound(k)
        BY <1>0, <2>1, <3>1 DEF Sound, Keeps
      <3> QED BY <1>a, <3>2, <3>3, <3>4, QuietStep
    <2> QED BY <1>7, <2>2, <2>3 DEF ReadForAvatar
  <1>8. CASE VerifyExisting(p)
    <2>1. J.kind = "link"
      BY <1>8, <1>d DEF VerifyExisting
    <2> QED BY <1>8, <1>b, <1>e, <2>1 DEF VerifyExisting, PointsOf
  <1>9. CASE LookupEmail(p) \/ ReserveId(p)
    <2>1. J.kind = "provide"
      BY <1>9, <1>d DEF LookupEmail, ReserveId
    <2>2. Finish(p) \/ Move(p, "reserve") \/ Move(p, "register")
      BY <1>9 DEF LookupEmail, ReserveId
    <2> QED BY <2>1, <2>2, <1>b, <1>e DEF PointsOf
  <1>10. CASE ReadProfile(p)
    <2>1. J.kind = "onboard"
      BY <1>10, <1>d DEF ReadProfile
    <2>2. Finish(p) \/ Move(p, "write")
      BY <1>10 DEF ReadProfile
    <2> QED BY <2>1, <2>2, <1>b, <1>e DEF PointsOf
  <1>11. CASE End(p)
    BY <1>11, <1>b DEF End
  <1> QED BY <1>1, <1>2, <1>3, <1>4, <1>5, <1>6, <1>7, <1>8, <1>9, <1>10, <1>11

\* A new identity of an account that is there.
LEMMA BoundStep ==
    ASSUME TypeInv, SoundInv, NEW i \in Identities, NEW u \in Users,
           owner[i] = NoUser, profile[u].made, owner' = [owner EXCEPT ![i] = u],
           UNCHANGED <<profile, mail, token, link, asked, crossed, overlapped>>
    PROVE  RowsOK' /\ Grows /\ Rooted' /\ owner'[i] = u
  <1>1. RowsOK' /\ Grows /\ owner'[i] = u
    BY DEF TypeInv, RowsOK, Grows
  <1>2. \A x \in Identities : owner'[x] # NoUser => profile'[owner'[x]].made
    BY DEF TypeInv, RowsOK, SoundInv, Rooted
  <1>3. \A l \in link : owner'[l.existing] = l.user
    BY AccountsAssumption DEF TypeInv, RowsOK, SoundInv, Rooted, LinkTokens
  <1>4. SessionsAreTheOwners'
    <2>1. ASSUME NEW t \in Tokens, token[t].via # {}
          PROVE  \E x \in token[t].via : owner'[x] = token[t].user
      <3>1. token[t].via \subseteq Identities /\ token[t].state # "none"
        BY <2>1 DEF TypeInv, RowsOK, TokenRows, SoundInv, Rooted, NoToken
      <3>2. PICK x \in token[t].via : owner[x] = token[t].user
        BY <2>1 DEF SoundInv, Rooted, SessionsAreTheOwners
      <3>3. token[t].user \in Users
        BY <3>1 DEF SoundInv, Rooted
      <3>4. owner'[x] = owner[x]
        BY <3>1, <3>2, <3>3, <1>1, AccountsAssumption DEF Grows
      <3> QED BY <3>2, <3>4
    <2> QED BY <2>1 DEF SessionsAreTheOwners
  <1> QED BY <1>1, <1>2, <1>3, <1>4 DEF SoundInv, Rooted

LEMMA AttachStep ==
    ASSUME TypeInv, SoundInv, NEW p \in Requests, Attach(p)
    PROVE  Grows /\ TypeInv' /\ SoundInv'
  <1> DEFINE J == job[p]
  <1>0. /\ JobOK(J) /\ Sound(J) /\ J \in Jobs /\ J.at = "attach"
    BY DEF TypeInv, JobsOK, SoundInv, JobOK, Attach
  <1>1. J.kind = "login" /\ J.user \in Users /\ J.id \in Identities /\ J.email \in Emails
    BY <1>0 DEF JobOK, PointsOf, Jobs, Kinds
  <1>2. profile[J.user].made
    BY <1>0, <1>1, AccountsAssumption DEF Sound, SoundInv, Rooted
  <1>3. PICK at \in {"sweep", "recover"} :
           /\ Move(p, at)
           /\ IF at = "sweep" THEN owner[J.id] = NoUser /\ owner' = [owner EXCEPT ![J.id] = J.user]
                              ELSE owner' = owner
    BY DEF Attach
  <1>4. UNCHANGED <<profile, mail, token, link, asked, crossed, overlapped>>
    BY DEF Attach
  <1>5. PICK k \in Jobs : /\ job' = [job EXCEPT ![p] = k] /\ Keeps(J, k)
                         /\ k.at = at /\ k.user = J.user /\ k.existing = J.existing
                         /\ k.again = J.again /\ k.seen = J.seen
    BY <1>3, MoveForm DEF Points
  <1>6. JobOK(k)
    BY <1>0, <1>1, <1>5 DEF JobOK, Keeps, PointsOf
  <1>7. CASE at = "sweep"
    <2>1. RowsOK' /\ Grows /\ Rooted' /\ owner'[J.id] = J.user
      BY <1>1, <1>2, <1>3, <1>4, <1>7, BoundStep
    <2>2. (k.again => mail[k.email] # NoUser)'
      BY <1>0, <1>4, <1>5 DEF Sound, Keeps
    <2>3. Sound(k)'
      BY <1>1, <1>5, <1>7, <2>1, <2>2 DEF Sound, Keeps
    <2> QED BY <1>5, <1>6, <2>1, <2>3, OthersStay
  <1>8. CASE at = "recover"
    <2>1. UNCHANGED rows /\ asked' \in 0 .. MaxRequests /\ overlapped' \subseteq Tokens
      BY <1>3, <1>4, <1>8 DEF rows, TypeInv, RowsOK
    <2>2. Sound(k)
      BY <1>0, <1>1, <1>5, <1>8 DEF Sound, Keeps
    <2> QED BY <1>4, <1>5, <1>6, <2>1, <2>2, QuietStep
  <1> QED BY <1>7, <1>8

\* The rows of users with one more.
MadeToo(u) == [profile EXCEPT ![u].made = TRUE]

\* A new account, with an identity or an address that leads nowhere yet.
LEMMA MadeStep ==
    ASSUME TypeInv, SoundInv, NEW u \in Users, ~profile[u].made,
           profile' = MadeToo(u),
           \/ owner' = owner
           \/ \E i \in Identities : owner[i] = NoUser /\ owner' = [owner EXCEPT ![i] = u],
           \/ mail' = mail
           \/ \E e \in Emails : mail[e] = NoUser /\ mail' = [mail EXCEPT ![e] = u],
           UNCHANGED <<token, link, asked, crossed, overlapped>>
    PROVE  RowsOK' /\ Grows /\ Rooted' /\ profile'[u].made
  <1>0. \A x \in Users : profile[x].made => profile'[x].made
    BY DEF TypeInv, RowsOK, MadeToo
  <1>a. profile'[u].made
    BY DEF MadeToo, TypeInv, RowsOK, Profiles
  <1>b. profile' \in [Users -> Profiles]
    BY DEF MadeToo, TypeInv, RowsOK, Profiles
  <1>c. /\ owner' \in [Identities -> Users \union {NoUser}]
        /\ \A i \in Identities : owner'[i] = owner[i] \/ (owner[i] = NoUser /\ owner'[i] = u)
    BY DEF TypeInv, RowsOK
  <1>d. /\ mail' \in [Emails -> Users \union {NoUser}]
        /\ \A e \in Emails : mail'[e] = mail[e] \/ (mail[e] = NoUser /\ mail'[e] = u)
    BY DEF TypeInv, RowsOK
  <1>1. RowsOK' /\ Grows
    BY <1>0, <1>b, <1>c, <1>d DEF TypeInv, RowsOK, Grows
  <1>2. \A x \in Identities : owner'[x] # NoUser => profile'[owner'[x]].made
    <2>1. \A x \in Identities : owner[x] # NoUser => owner[x] \in Users /\ profile[owner[x]].made
      BY DEF TypeInv, RowsOK, SoundInv, Rooted
    <2> QED BY <1>0, <1>a, <1>c, <2>1
  <1>3. \A x \in Emails : mail'[x] # NoUser => profile'[mail'[x]].made
    <2>1. \A x \in Emails : mail[x] # NoUser => mail[x] \in Users /\ profile[mail[x]].made
      BY DEF TypeInv, RowsOK, SoundInv, Rooted
    <2> QED BY <1>0, <1>a, <1>d, <2>1
  <1>4. \A l \in link : owner'[l.existing] = l.user
    BY <1>1, AccountsAssumption DEF Grows, TypeInv, RowsOK, SoundInv, Rooted, LinkTokens
  <1>5. SessionsAreTheOwners'
    <2>1. ASSUME NEW t \in Tokens, token[t].via # {}
          PROVE  \E x \in token[t].via : owner'[x] = token[t].user
      <3>1. token[t].via \subseteq Identities /\ token[t].state # "none"
        BY <2>1 DEF TypeInv, RowsOK, TokenRows, SoundInv, Rooted, NoToken
      <3>2. PICK x \in token[t].via : owner[x] = token[t].user
        BY <2>1 DEF SoundInv, Rooted, SessionsAreTheOwners
      <3>3. token[t].user \in Users
        BY <3>1 DEF SoundInv, Rooted
      <3>4. owner'[x] = owner[x]
        BY <3>1, <3>2, <3>3, <1>1, AccountsAssumption DEF Grows
      <3> QED BY <3>2, <3>4
    <2> QED BY <2>1 DEF SessionsAreTheOwners
  <1> QED BY <1>1, <1>2, <1>3, <1>4, <1>5, <1>a DEF SoundInv, Rooted

LEMMA FreshIsNew == Fresh \subseteq {u \in Users : ~profile[u].made}
  <1> DEFINE unused == {u \in Users : ~profile[u].made /\ \A e \in Emails : <<e, u>> \notin Configured}
  <1>1. CASE unused = {}
    BY <1>1 DEF Fresh
  <1>2. CASE unused # {}
    <2>1. (CHOOSE u \in unused : TRUE) \in unused
      BY <1>2
    <2>2. Fresh = {CHOOSE u \in unused : TRUE}
      BY <1>2 DEF Fresh
    <2> QED BY <2>1, <2>2
  <1> QED BY <1>1, <1>2

LEMMA CommitAccountStep ==
    ASSUME TypeInv, SoundInv, MailFree, NEW p \in Requests, CommitAccount(p)
    PROVE  Grows /\ TypeInv' /\ SoundInv'
  <1> DEFINE J == job[p]
  <1>0. /\ JobOK(J) /\ Sound(J) /\ J \in Jobs /\ J.at = "insert"
    BY DEF TypeInv, JobsOK, SoundInv, JobOK, CommitAccount
  <1>1. J.kind = "login" /\ J.id \in Identities /\ J.email \in Emails \union {NoEmail}
    BY <1>0 DEF JobOK, PointsOf, Jobs, Kinds
  <1>2. CASE owner[J.id] = NoUser
    <2>1. PICK u \in Fresh :
             /\ profile' = MadeToo(u)
             /\ owner' = [owner EXCEPT ![J.id] = u]
             /\ mail' = IF J.email = NoEmail THEN mail ELSE [mail EXCEPT ![J.email] = u]
             /\ Enter(p, "finish", u)
      <3>1. \E u \in Fresh :
               /\ profile' = [profile EXCEPT ![u].made = TRUE]
               /\ owner' = [owner EXCEPT ![J.id] = u]
               /\ mail' = IF J.email = NoEmail THEN mail ELSE [mail EXCEPT ![J.email] = u]
               /\ Enter(p, "finish", u)
        BY <1>2 DEF CommitAccount
      <3> QED BY <3>1, Zenon DEF MadeToo
    <2>c. u \in Users /\ ~profile[u].made
      BY FreshIsNew
    <2>2. J.email # NoEmail => mail[J.email] = NoUser
      BY <1>0 DEF MailFree
    <2>3. UNCHANGED <<token, link, asked, crossed, overlapped>>
      BY DEF CommitAccount
    <2>4. RowsOK' /\ Grows /\ Rooted' /\ profile'[u].made
      <3>1. \E i \in Identities : owner[i] = NoUser /\ owner' = [owner EXCEPT ![i] = u]
        BY <1>1, <1>2, <2>1
      <3>2. mail' = mail \/ \E e \in Emails : mail[e] = NoUser /\ mail' = [mail EXCEPT ![e] = u]
        <4>1. CASE J.email = NoEmail
          BY <2>1, <4>1
        <4>2. CASE J.email # NoEmail
          <5>1. mail' = [mail EXCEPT ![J.email] = u]
            BY <2>1, <4>2
          <5>2. J.email \in Emails /\ mail[J.email] = NoUser
            BY <1>1, <2>2, <4>2
          <5> QED BY <5>1, <5>2
        <4> QED BY <4>1, <4>2
      <3> QED BY <2>1, <2>c, <2>3, <3>1, <3>2, MadeStep
    <2>a. "finish" \in Points /\ u \in Users \union {NoUser} /\ Enter(p, "finish", u)
      BY <2>1, <2>c DEF Points
    <2>5. PICK k \in Jobs : /\ job' = [job EXCEPT ![p] = k] /\ Keeps(J, k)
                           /\ k.at = "finish" /\ k.user = u /\ k.existing = J.existing
                           /\ k.again = J.again /\ k.seen = J.seen
      BY <2>a, EnterForm
    <2>b. k.kind = "login" /\ k.user \in Users
      BY <1>1, <2>5, <2>c DEF Keeps
    <2>6. JobOK(k)
      BY <1>0, <1>1, <2>5, <2>b DEF JobOK, Keeps, PointsOf
    <2>7. owner'[J.id] = u
      BY <1>1, <2>1 DEF TypeInv, RowsOK
    <2>8. (k.again => mail[k.email] # NoUser)'
      BY <1>0, <2>4, <2>5 DEF Sound, Keeps, JobOK, Grows
    <2>9. Sound(k)'
      BY <1>1, <2>4, <2>5, <2>7, <2>8 DEF Sound, Keeps
    <2> QED BY <2>4, <2>5, <2>6, <2>9, OthersStay
  <1>3. CASE owner[J.id] # NoUser
    <2>1. Move(p, "recover") /\ UNCHANGED rows /\ UNCHANGED <<asked, crossed, overlapped>>
      BY <1>3 DEF CommitAccount, rows
    <2>2. PICK k \in Jobs : /\ job' = [job EXCEPT ![p] = k] /\ Keeps(J, k)
                           /\ k.at = "recover" /\ k.user = J.user /\ k.existing = J.existing
                           /\ k.again = J.again /\ k.seen = J.seen
      BY <2>1, MoveForm DEF Points
    <2>3. JobOK(k) /\ Sound(k)
      BY <1>0, <1>1, <2>2 DEF JobOK, Sound, Keeps, PointsOf
    <2>4. asked' \in 0 .. MaxRequests /\ overlapped' \subseteq Tokens
      BY <2>1 DEF TypeInv, RowsOK
    <2> QED BY <2>1, <2>2, <2>3, <2>4, QuietStep
  <1> QED BY <1>2, <1>3

LEMMA OfferBindingStep ==
    ASSUME TypeInv, SoundInv, NEW p \in Requests, OfferBinding(p)
    PROVE  Grows /\ TypeInv' /\ SoundInv'
  <1> DEFINE J == job[p]
             l == [id |-> J.id, existing |-> J.existing, user |-> J.user]
  <1>0. /\ JobOK(J) /\ Sound(J) /\ J \in Jobs /\ J.at = "bind"
    BY DEF TypeInv, JobsOK, SoundInv, JobOK, OfferBinding
  <1>1. /\ J.id \in Identities /\ J.existing \in Identities /\ J.user \in Users
        /\ owner[J.existing] = J.user
    BY <1>0 DEF JobOK, PointsOf, Jobs, Kinds, Sound
  <1>2. /\ l \in LinkTokens /\ l.existing = J.existing /\ l.user = J.user
        /\ link' = link \union {l}
        /\ UNCHANGED <<profile, owner, mail, token, asked, crossed, overlapped>>
    BY <1>1 DEF LinkTokens, OfferBinding
  <1> HIDE DEF l
  <1>3. RowsOK'
    BY <1>2 DEF TypeInv, RowsOK
  <1>4. Grows
    BY <1>2 DEF Grows
  <1>5. Rooted'
    BY <1>1, <1>2 DEF SoundInv, Rooted, SessionsAreTheOwners
  <1>6. job' = [job EXCEPT ![p] = Idle]
    BY DEF OfferBinding, Finish
  <1> QED BY <1>3, <1>4, <1>5, <1>6, IdleOK, OthersStay

LEMMA CrossingOK ==
    ASSUME TypeInv, NEW p \in Requests, NoteCrossing(p), job[p].user \in Users
    PROVE  crossed' \subseteq Users
  BY DEF NoteCrossing, TypeInv, RowsOK

\* A row of users is written back, the account still there.
LEMMA ProfileStep ==
    ASSUME TypeInv, SoundInv, NEW u \in Users, NEW row \in Profiles, row.made,
           profile' = [profile EXCEPT ![u] = row],
           UNCHANGED <<owner, mail, token, link, asked, overlapped>>,
           crossed' \subseteq Users
    PROVE  RowsOK' /\ Grows /\ Rooted'
  <1>1. /\ profile' \in [Users -> Profiles]
        /\ \A x \in Users : profile[x].made => profile'[x].made
    BY DEF TypeInv, RowsOK
  <1>2. RowsOK'
    BY <1>1 DEF TypeInv, RowsOK
  <1>3. Grows
    BY <1>1 DEF Grows
  <1>4. /\ \A i \in Identities : owner[i] # NoUser => owner[i] \in Users
        /\ \A e \in Emails : mail[e] # NoUser => mail[e] \in Users
    BY DEF TypeInv, RowsOK
  <1>5. Rooted'
    BY <1>1, <1>4 DEF SoundInv, Rooted, SessionsAreTheOwners
  <1> QED BY <1>2, <1>3, <1>5

LEMMA SaveAvatarStep ==
    ASSUME TypeInv, SoundInv, NEW p \in Requests, SaveAvatar(p)
    PROVE  Grows /\ TypeInv' /\ SoundInv'
  <1> DEFINE J == job[p]
  <1>0. /\ JobOK(J) /\ Sound(J) /\ J \in Jobs /\ J.at = "save"
    BY DEF TypeInv, JobsOK, SoundInv, JobOK, SaveAvatar
  <1>1. J.kind = "login" /\ J.user \in Users /\ J.seen \in Profiles /\ J.seen.made
        /\ J.id \in Identities /\ owner[J.id] = J.user
    BY <1>0 DEF JobOK, PointsOf, Jobs, Kinds, Sound
  <1>2. RowsOK' /\ Grows /\ Rooted'
    <2>1. CASE NameTaken(J.user, J.seen.username)
      <3>1. UNCHANGED <<rows, asked, crossed, overlapped>>
        BY <2>1 DEF SaveAvatar, rows
      <3> QED BY <3>1 DEF rows, TypeInv, RowsOK, Grows, SoundInv, Rooted, SessionsAreTheOwners
    <2>2. CASE ~NameTaken(J.user, J.seen.username)
      <3>1. /\ profile' = [profile EXCEPT ![J.user] = J.seen] /\ NoteCrossing(p)
            /\ UNCHANGED <<owner, mail, token, link, asked, overlapped>>
        BY <2>2 DEF SaveAvatar
      <3> QED BY <1>1, <3>1, CrossingOK, ProfileStep
    <2> QED BY <2>1, <2>2
  <1>3. Move(p, "sweep") /\ owner' = owner /\ mail' = mail
    BY DEF SaveAvatar
  <1>4. PICK k \in Jobs : /\ job' = [job EXCEPT ![p] = k] /\ Keeps(J, k)
                         /\ k.at = "sweep" /\ k.user = J.user /\ k.existing = J.existing
                         /\ k.again = J.again /\ k.seen = J.seen
    BY <1>3, MoveForm DEF Points
  <1>5. JobOK(k)
    BY <1>0, <1>1, <1>4 DEF JobOK, Keeps, PointsOf
  <1>6. Sound(k)'
    BY <1>0, <1>1, <1>3, <1>4 DEF Sound, Keeps
  <1> QED BY <1>2, <1>4, <1>5, <1>6, OthersStay

LEMMA ConfirmStep ==
    ASSUME TypeInv, SoundInv, NEW p \in Requests, Confirm(p)
    PROVE  Grows /\ TypeInv' /\ SoundInv'
  <1> DEFINE J == job[p]
             l == [id |-> J.id, existing |-> J.existing, user |-> J.user]
  <1>0. /\ JobOK(J) /\ Sound(J) /\ J \in Jobs /\ J.at = "confirm"
    BY DEF TypeInv, JobsOK, SoundInv, JobOK, Confirm
  <1>1. /\ J.kind = "link" /\ J.user \in Users /\ J.id \in Identities /\ J.existing \in Identities
        /\ l \in link /\ l.existing = J.existing /\ l.user = J.user
    BY <1>0 DEF JobOK, PointsOf, Jobs, Kinds, Sound
  <1> HIDE DEF l
  <1>2. profile[J.user].made
    BY <1>1, AccountsAssumption DEF SoundInv, Rooted
  <1>3. /\ Move(p, "sweep") /\ UNCHANGED <<profile, mail, token, link, asked, crossed, overlapped>>
        /\ owner' = IF owner[J.id] = NoUser THEN [owner EXCEPT ![J.id] = J.user] ELSE owner
    BY DEF Confirm
  <1>4. RowsOK' /\ Grows /\ Rooted'
    <2>1. CASE owner[J.id] = NoUser
      BY <1>1, <1>2, <1>3, <2>1, BoundStep
    <2>2. CASE owner[J.id] # NoUser
      <3>1. owner' = owner
        BY <1>3, <2>2
      <3> QED BY <1>3, <3>1 DEF TypeInv, RowsOK, Grows, SoundInv, Rooted, SessionsAreTheOwners
    <2> QED BY <2>1, <2>2
  <1>5. PICK k \in Jobs : /\ job' = [job EXCEPT ![p] = k] /\ Keeps(J, k)
                         /\ k.at = "sweep" /\ k.user = J.user /\ k.existing = J.existing
                         /\ k.again = J.again /\ k.seen = J.seen
    BY <1>3, MoveForm DEF Points
  <1>6. JobOK(k)
    BY <1>0, <1>1, <1>5 DEF JobOK, Keeps, PointsOf
  <1>7. Sound(k)'
    BY <1>0, <1>1, <1>3, <1>5 DEF Sound, Keeps, l
  <1> QED BY <1>4, <1>5, <1>6, <1>7, OthersStay

\* UPDATE of the token that is refreshed, and the deletion of the inactive ones.
LEMMA SpendStep ==
    ASSUME TypeInv, SoundInv, NEW p \in Requests, Spend(p) \/ DeleteExpiredRefreshTokens(p)
    PROVE  Grows /\ TypeInv' /\ SoundInv'
  <1> DEFINE J == job[p]
  <1>0. /\ JobOK(J) /\ Sound(J) /\ J \in Jobs /\ J.at \in {"spend", "sweep"}
    BY DEF TypeInv, JobsOK, SoundInv, JobOK, Spend, DeleteExpiredRefreshTokens
  <1>1. J.kind \in {"login", "link", "refresh", "internal"} /\ J.user \in Users
    BY <1>0 DEF JobOK, PointsOf, Jobs, Kinds
  <1>2. J.at = "spend" => J.kind = "refresh" /\ J.from \in Tokens
    BY <1>0 DEF JobOK, PointsOf, Jobs, Kinds
  <1>3. UNCHANGED <<profile, owner, mail, link, asked, crossed, overlapped>>
    BY DEF Spend, DeleteExpiredRefreshTokens
  <1>4. /\ token' \in [Tokens -> TokenRows]
        /\ \A t \in Tokens : \/ token'[t] = token[t]
                             \/ /\ token[t].state # "none"
                                /\ \E s \in {"spent", "gone"} : token'[t] = [token[t] EXCEPT !.state = s]
    <2>1. CASE Spend(p)
      <3>1. J.from \in Tokens
        BY <1>2, <2>1 DEF Spend
      <3>2. CASE token[J.from].state = "active"
        <4>1. token' = [token EXCEPT ![J.from].state = "spent"]
          BY <2>1, <3>2 DEF Spend
        <4>2. token' \in [Tokens -> TokenRows]
          BY <3>1, <4>1 DEF TypeInv, RowsOK, TokenRows
        <4>3. token'[J.from] = [token[J.from] EXCEPT !.state = "spent"]
          BY <3>1, <4>1 DEF TypeInv, RowsOK
        <4>4. \A t \in Tokens : t # J.from => token'[t] = token[t]
          BY <4>1 DEF TypeInv, RowsOK
        <4> QED BY <3>2, <4>2, <4>3, <4>4
      <3>3. CASE token[J.from].state # "active"
        <4>1. token' = token
          BY <2>1, <3>3 DEF Spend
        <4> QED BY <4>1 DEF TypeInv, RowsOK
      <3> QED BY <3>2, <3>3
    <2>2. CASE DeleteExpiredRefreshTokens(p)
      <3>1. token' = [t \in Tokens |-> IF token[t].state = "spent"
                                        THEN [token[t] EXCEPT !.state = "gone"] ELSE token[t]]
        BY <2>2 DEF DeleteExpiredRefreshTokens
      <3>2. \A t \in Tokens : token[t] \in TokenRows /\ [token[t] EXCEPT !.state = "gone"] \in TokenRows
        BY DEF TypeInv, RowsOK, TokenRows
      <3>3. token' \in [Tokens -> TokenRows]
        BY <3>1, <3>2
      <3>4. \A t \in Tokens : IF token[t].state = "spent" THEN token'[t] = [token[t] EXCEPT !.state = "gone"]
                                                         ELSE token'[t] = token[t]
        BY <3>1
      <3> QED BY <3>3, <3>4
    <2> QED BY <2>1, <2>2
  <1>5. RowsOK' /\ Grows /\ Rooted'
    BY <1>3, <1>4, TokenRowsStep DEF TypeInv, RowsOK
  <1>6. PICK at \in {"sweep", "issue"} : Move(p, at)
    BY DEF Spend, DeleteExpiredRefreshTokens
  <1>7. PICK k \in Jobs : /\ job' = [job EXCEPT ![p] = k] /\ Keeps(J, k)
                         /\ k.at = at /\ k.user = J.user /\ k.existing = J.existing
                         /\ k.again = J.again /\ k.seen = J.seen
    BY <1>6, MoveForm DEF Points
  <1>8. JobOK(k)
    BY <1>0, <1>1, <1>7 DEF JobOK, Keeps, PointsOf
  <1>9. Sound(k)
    <2>1. J.kind = "login" => J.at = "sweep"
      BY <1>0, <1>2
    <2> QED BY <1>0, <1>1, <1>7, <2>1 DEF Sound, Keeps
  <1>10. Sound(k)'
    BY <1>5, <1>8, <1>9, SoundStays
  <1> QED BY <1>5, <1>7, <1>8, <1>10, OthersStay

LEMMA GenerateStep ==
    ASSUME TypeInv, SoundInv, NEW p \in Requests, GenerateRefreshToken(p)
    PROVE  Grows /\ TypeInv' /\ SoundInv'
  <1> DEFINE J == job[p]
  <1>0. /\ JobOK(J) /\ Sound(J) /\ J \in Jobs /\ J.at = "issue"
    BY DEF TypeInv, JobsOK, SoundInv, JobOK, GenerateRefreshToken
  <1>1. J.kind \in {"login", "link", "refresh", "internal"} /\ J.user \in Users
    BY <1>0 DEF JobOK, PointsOf, Jobs, Kinds
  <1>2. PICK t \in NewToken :
           token' = [token EXCEPT ![t] =
              [user |-> J.user, state |-> "active", via |-> Via(J),
               from |-> IF J.kind = "refresh" THEN token[J.from].from ELSE t]]
    BY DEF GenerateRefreshToken
  <1>3. t \in Tokens /\ token[t].state = "none"
    BY DEF NewToken
  <1> DEFINE from == IF J.kind = "refresh" THEN token[J.from].from ELSE t
             row  == [user |-> J.user, state |-> "active", via |-> Via(J), from |-> from]
  <1>4. from \in Tokens
    BY <1>0, <1>3, FromIsAToken DEF Sound, JobOK
  <1>5. Via(J) \subseteq Identities
    <2>1. CASE J.kind = "refresh"
      <3>1. Via(J) = token[J.from].via /\ token[J.from] \in TokenRows
        BY <1>0, <2>1 DEF Via, JobOK, TypeInv, RowsOK
      <3> QED BY <3>1 DEF TokenRows
    <2>2. CASE J.kind # "refresh"
      BY <1>0, <2>2 DEF Via, Jobs
    <2> QED BY <2>1, <2>2
  <1>6. Via(J) # {} => \E i \in Via(J) : owner[i] = J.user
    <2>1. CASE J.kind = "refresh"
      BY <1>0, <2>1 DEF Via, Sound, JobOK, SoundInv, Rooted, SessionsAreTheOwners
    <2>2. CASE J.kind = "login"
      BY <1>0, <2>2, AccountsAssumption DEF Via, Sound, JobOK
    <2>3. CASE J.kind = "link"
      <3> DEFINE l == [id |-> J.id, existing |-> J.existing, user |-> J.user]
      <3>1. l \in link /\ l.existing = J.existing /\ l.user = J.user /\ J.existing \in Identities
        BY <1>0, <2>3 DEF Sound, JobOK
      <3> HIDE DEF l
      <3>2. owner[J.existing] = J.user
        BY <3>1 DEF SoundInv, Rooted
      <3> QED BY <2>3, <3>1, <3>2, AccountsAssumption DEF Via
    <2>4. CASE J.kind = "internal"
      BY <1>0, <2>4 DEF Via, JobOK
    <2> QED BY <1>1, <2>1, <2>2, <2>3, <2>4
  <1>7. /\ row \in TokenRows /\ row.state = "active" /\ row.user = J.user
        /\ row.from = from /\ row.via = Via(J)
    BY <1>1, <1>4, <1>5, AccountsAssumption DEF TokenRows, Tokens
  <1>8. token' = [token EXCEPT ![t] = row]
    BY <1>2
  <1> HIDE DEF row, from
  <1>9. UNCHANGED <<profile, owner, mail, link, asked, crossed, overlapped>> /\ Finish(p)
    BY DEF GenerateRefreshToken
  <1>10. /\ \A s \in Tokens : s # t => token'[s] = token[s]
         /\ token'[t] = row /\ token' \in [Tokens -> TokenRows]
    BY <1>3, <1>7, <1>8 DEF TypeInv, RowsOK
  <1>11. RowsOK'
    BY <1>9, <1>10 DEF TypeInv, RowsOK
  <1>12. Grows
    BY <1>3, <1>9, <1>10 DEF Grows
  <1>13. Rooted'
    <2>1. \A s \in Tokens : IF token'[s].state = "none" THEN token'[s] = NoToken
                            ELSE token'[s].from \in Tokens /\ token'[s].user \in Users
      BY <1>1, <1>4, <1>7, <1>10 DEF SoundInv, Rooted
    <2>2. SessionsAreTheOwners'
      BY <1>6, <1>7, <1>9, <1>10 DEF SoundInv, Rooted, SessionsAreTheOwners
    <2> QED BY <1>9, <2>1, <2>2 DEF SoundInv, Rooted
  <1>14. job' = [job EXCEPT ![p] = Idle]
    BY <1>9 DEF Finish
  <1> QED BY <1>11, <1>12, <1>13, <1>14, IdleOK, OthersStay

LEMMA RegisterEmailStep ==
    ASSUME TypeInv, SoundInv, NEW p \in Requests, RegisterEmail(p)
    PROVE  Grows /\ TypeInv' /\ SoundInv'
  <1> DEFINE J == job[p]
  <1>0. /\ JobOK(J) /\ J \in Jobs /\ J.at = "register"
    BY DEF TypeInv, JobsOK, JobOK, RegisterEmail
  <1>1. J.email \in Emails /\ J.user \in Users \union {NoUser}
    BY <1>0 DEF JobOK, PointsOf, Jobs, Kinds
  <1>2. /\ Finish(p) /\ UNCHANGED <<owner, token, link, asked, crossed, overlapped>>
        /\ job' = [job EXCEPT ![p] = Idle]
    BY DEF RegisterEmail, Finish
  <1>3. CASE mail[J.email] # NoUser \/ (J.user # NoUser /\ profile[J.user].made)
    <2>1. UNCHANGED rows
      BY <1>2, <1>3 DEF RegisterEmail, rows
    <2> QED BY <1>2, <2>1, FinishStep DEF TypeInv, RowsOK
  <1>4. CASE ~(mail[J.email] # NoUser \/ (J.user # NoUser /\ profile[J.user].made))
    <2>1. PICK u \in IF J.user = NoUser THEN Fresh ELSE {J.user} :
             profile' = MadeToo(u) /\ mail' = [mail EXCEPT ![J.email] = u]
      <3>1. \E u \in IF J.user = NoUser THEN Fresh ELSE {J.user} :
               /\ profile' = [profile EXCEPT ![u].made = TRUE]
               /\ mail' = [mail EXCEPT ![J.email] = u]
        BY <1>4 DEF RegisterEmail
      <3> QED BY <3>1, Zenon DEF MadeToo
    <2>2. u \in Users /\ ~profile[u].made
      BY <1>1, <1>4, FreshIsNew
    <2>3. RowsOK' /\ Grows /\ Rooted'
      <3>1. \E e \in Emails : mail[e] = NoUser /\ mail' = [mail EXCEPT ![e] = u]
        BY <1>1, <1>4, <2>1
      <3> QED BY <1>2, <2>1, <2>2, <3>1, MadeStep
    <2> QED BY <1>2, <2>3, IdleOK, OthersStay
  <1> QED BY <1>3, <1>4

LEMMA WriteProfileStep ==
    ASSUME TypeInv, SoundInv, NEW p \in Requests, WriteProfile(p)
    PROVE  Grows /\ TypeInv' /\ SoundInv'
  <1> DEFINE J == job[p]
  <1>0. /\ JobOK(J) /\ Sound(J) /\ J \in Jobs /\ J.at = "write"
    BY DEF TypeInv, JobsOK, SoundInv, JobOK, WriteProfile
  <1>1. J.kind = "onboard" /\ J.user \in Users /\ J.name \in Names /\ profile[J.user].made
    BY <1>0 DEF JobOK, PointsOf, Jobs, Kinds, Sound
  <1>2. /\ Finish(p) /\ UNCHANGED <<owner, mail, token, link, asked, overlapped>>
        /\ job' = [job EXCEPT ![p] = Idle]
    BY DEF WriteProfile, Finish
  <1>3. CASE NameTaken(J.user, J.name)
    <2>1. UNCHANGED rows /\ crossed' = crossed
      BY <1>2, <1>3 DEF WriteProfile, rows
    <2> QED BY <1>2, <2>1, FinishStep DEF TypeInv, RowsOK
  <1>4. CASE ~NameTaken(J.user, J.name)
    <2> DEFINE row == [profile[J.user] EXCEPT !.username = J.name, !.onboarded = TRUE]
    <2>1. profile' = [profile EXCEPT ![J.user] = row] /\ NoteCrossing(p)
      BY <1>1, <1>4 DEF WriteProfile, TypeInv, RowsOK
    <2>2. row \in Profiles /\ row.made
      BY <1>1 DEF TypeInv, RowsOK, Profiles
    <2> HIDE DEF row
    <2>3. RowsOK' /\ Grows /\ Rooted'
      BY <1>1, <1>2, <2>1, <2>2, CrossingOK, ProfileStep
    <2> QED BY <1>2, <2>3, IdleOK, OthersStay
  <1> QED BY <1>3, <1>4

LEMMA ExpireStep ==
    ASSUME TypeInv, SoundInv, NEW t \in Tokens, Expire(t)
    PROVE  Grows /\ TypeInv' /\ SoundInv'
  <1>1. /\ token' = [token EXCEPT ![t].state = "spent"] /\ token[t].state = "active"
        /\ UNCHANGED <<profile, owner, mail, link, job, asked, crossed, overlapped>>
    BY DEF Expire
  <1>2. token' \in [Tokens -> TokenRows]
    BY <1>1 DEF TypeInv, RowsOK, TokenRows
  <1>3. /\ \A s \in Tokens : s # t => token'[s] = token[s]
        /\ token'[t] = [token[t] EXCEPT !.state = "spent"] /\ token[t].state # "none"
    BY <1>1 DEF TypeInv, RowsOK
  <1>4. \A s \in Tokens : \/ token'[s] = token[s]
                          \/ /\ token[s].state # "none"
                             /\ \E x \in {"spent", "gone"} : token'[s] = [token[s] EXCEPT !.state = x]
    BY <1>3
  <1>5. RowsOK' /\ Grows /\ Rooted'
    BY <1>1, <1>2, <1>4, TokenRowsStep DEF TypeInv, RowsOK
  <1> QED BY <1>1, <1>5, TokenStateStep

-----------------------------------------------------------------------------
(* Where a request may come from                                           *)

LEMMA Course ==
    ASSUME TypeInv, NEW p \in Requests, Arrive(p) \/ Step(p) \/ End(p)
    PROVE  /\ \A q \in Requests \ {p} : job'[q] = job[q]
           /\ job'[p].at = "decide" => LockEmail(p)
           /\ job'[p].at \in {"attach", "bind"} => Decide(p)
           /\ job'[p].at = "insert" => StartAccount(p) \/ UpsertEmail(p)
           /\ job'[p].at = "save" => ReadForAvatar(p)
           /\ job'[p].at = "write" => ReadProfile(p)
           /\ job'[p].at = "spend" => RefreshToken(p)
           /\ job'[p].at = "issue" => DeleteExpiredRefreshTokens(p)
           /\ \/ Keeps(job[p], job'[p])
              \/ job'[p] = Idle
              \/ Arrive(p) /\ job'[p].at \in {"find", "verify", "lookup", "read", "sweep", "spend"}
                 /\ (job'[p].kind = "refresh" => RefreshToken(p))
  <1> USE DEF TypeInv, JobsOK, JobOK, Jobs, Move, Enter, Keeps
  <1>0. /\ Idle.at = "idle" /\ Idle \in Jobs
    BY IdleOK
  <1>1. CASE Arrive(p)
    <2>1. ASSUME NEW j, Ask(p, j), j.at \in {"find", "verify", "lookup", "read", "sweep"},
                 j.kind # "refresh"
          PROVE  /\ \A q \in Requests \ {p} : job'[q] = job[q]
                 /\ job'[p].at \in {"find", "verify", "lookup", "read", "sweep"}
                 /\ job'[p].kind # "refresh"
      BY <2>1 DEF Ask
    <2>2. CASE Login(p)
      BY <1>1, <2>1, <2>2 DEF Login, Idle
    <2>3. CASE LinkAccount(p)
      BY <1>1, <2>1, <2>3 DEF LinkAccount, Idle
    <2>4. CASE FindOrCreateByEmail(p)
      BY <1>1, <2>1, <2>4 DEF FindOrCreateByEmail, Idle
    <2>5. CASE Onboarding(p)
      BY <1>1, <2>1, <2>5 DEF Onboarding, Idle
    <2>6. CASE InternalAPITokenLogin(p)
      BY <1>1, <2>1, <2>6 DEF InternalAPITokenLogin, Idle
    <2>7. CASE RefreshToken(p)
      <3>1. PICK t \in Tokens : job' = [job EXCEPT ![p] = [Idle EXCEPT !.kind = "refresh",
                                    !.at = "spend", !.user = token[t].user, !.from = t]]
        BY <2>7 DEF RefreshToken
      <3> DEFINE j == [Idle EXCEPT !.kind = "refresh", !.at = "spend", !.user = token[t].user, !.from = t]
      <3>2. j.at = "spend"
        BY DEF Idle
      <3>3. job' = [job EXCEPT ![p] = j]
        BY <3>1
      <3> HIDE DEF j
      <3> QED BY <1>1, <2>7, <3>2, <3>3
    <2>8. CASE Logout(p)
      BY <1>0, <1>1, <2>8 DEF Logout, Arrive
    <2> QED BY <1>1, <2>2, <2>3, <2>4, <2>5, <2>6, <2>7, <2>8 DEF Arrive
  <1>2. CASE End(p)
    BY <1>0, <1>2 DEF End, Finish
  <1>3. CASE FindByProvider(p)
    BY <1>3 DEF FindByProvider
  <1>4. CASE LockEmail(p)
    BY <1>4 DEF LockEmail
  <1>5. CASE Decide(p)
    BY <1>5 DEF Decide
  <1>6. CASE Attach(p)
    BY <1>6 DEF Attach
  <1>7. CASE StartAccount(p)
    BY <1>7 DEF StartAccount
  <1>8. CASE UpsertEmail(p)
    BY <1>8 DEF UpsertEmail
  <1>9. CASE CommitAccount(p)
    <2>1. CASE Move(p, "recover")
      BY <2>1
    <2>2. CASE \E u \in Fresh : Enter(p, "finish", u)
      <3>1. PICK u \in Fresh : Enter(p, "finish", u)
        BY <2>2
      <3> QED BY <3>1
    <2>3. IF owner[job[p].id] = NoUser THEN \E u \in Fresh : Enter(p, "finish", u)
          ELSE Move(p, "recover")
      BY <1>9 DEF CommitAccount
    <2> QED BY <2>1, <2>2, <2>3
  <1>10. CASE Recover(p)
    BY <1>0, <1>10 DEF Recover, Finish
  <1>11. CASE OfferBinding(p)
    BY <1>0, <1>11 DEF OfferBinding, Finish
  <1>12. CASE ReadForAvatar(p)
    BY <1>12 DEF ReadForAvatar
  <1>13. CASE SaveAvatar(p)
    BY <1>13 DEF SaveAvatar
  <1>14. CASE VerifyExisting(p)
    BY <1>0, <1>14 DEF VerifyExisting, Finish
  <1>15. CASE Confirm(p)
    BY <1>15 DEF Confirm
  <1>16. CASE Spend(p)
    BY <1>16 DEF Spend
  <1>17. CASE DeleteExpiredRefreshTokens(p)
    BY <1>17 DEF DeleteExpiredRefreshTokens
  <1>18. CASE GenerateRefreshToken(p)
    BY <1>0, <1>18 DEF GenerateRefreshToken, Finish
  <1>19. CASE LookupEmail(p)
    BY <1>0, <1>19 DEF LookupEmail, Finish
  <1>20. CASE ReserveId(p)
    BY <1>0, <1>20 DEF ReserveId, Finish
  <1>21. CASE RegisterEmail(p)
    BY <1>0, <1>21 DEF RegisterEmail, Finish
  <1>22. CASE ReadProfile(p)
    BY <1>0, <1>22 DEF ReadProfile, Finish
  <1>23. CASE WriteProfile(p)
    BY <1>0, <1>23 DEF WriteProfile, Finish
  <1> QED BY <1>1, <1>2, <1>3, <1>4, <1>5, <1>6, <1>7, <1>8, <1>9, <1>10, <1>11, <1>12,
             <1>13, <1>14, <1>15, <1>16, <1>17, <1>18, <1>19, <1>20, <1>21, <1>22, <1>23 DEF Step

-----------------------------------------------------------------------------
(* The locks of the addresses                                              *)

\* One transaction resolves an address at a time, and one inserts it, while nobody
\* has it.
LockInv ==
    /\ \A q, r \in Requests : q # r /\ job[q].email = job[r].email =>
          /\ ~(job[q].at \in {"decide", "attach"} /\ job[r].at \in {"decide", "attach"})
          /\ ~(job[q].at = "insert" /\ job[r].at = "insert" /\ job[q].email # NoEmail)
    /\ MailFree

LEMMA LockStep ==
    ASSUME TypeInv, SoundInv, LockInv, NEW p \in Requests, Arrive(p) \/ Step(p) \/ End(p)
    PROVE  LockInv'
  <1> DEFINE J == job[p]
             j == job'[p]
             LS == {"decide", "attach"}
  <1>1. ASSUME NEW q \in Requests \ {p} PROVE job'[q] = job[q]
    BY <1>1, Course
  <1>2. j.at \in LS \union {"insert"} => Keeps(J, j)
    BY Course, IdleOK
  <1>3. j.at \in LS => J.at \in LS \/ ~EmailLocked(p, J.email)
    BY Course DEF LockEmail, Decide
  <1>4. j.at = "insert" /\ J.email # NoEmail => ~EmailPending(p, J.email) /\ mail[J.email] = NoUser /\ mail' = mail
    <2>1. ASSUME UpsertEmail(p), j.at = "insert"
          PROVE  ~EmailPending(p, J.email) /\ mail[J.email] = NoUser /\ mail' = mail
      BY <2>1 DEF UpsertEmail, Move, Silent, rows, TypeInv, JobsOK, JobOK, Jobs
    <2>2. ASSUME StartAccount(p), j.at = "insert" PROVE J.email = NoEmail
      BY <2>2 DEF StartAccount, Move, TypeInv, JobsOK, JobOK, Jobs
    <2> QED BY <2>1, <2>2, Course
  <1>5. ASSUME NEW q \in Requests, NEW r \in Requests, q # r, job'[q].email = job'[r].email
        PROVE  /\ ~(job'[q].at \in LS /\ job'[r].at \in LS)
               /\ ~(job'[q].at = "insert" /\ job'[r].at = "insert" /\ job'[q].email # NoEmail)
    <2>1. CASE q # p /\ r # p
      BY <1>1, <1>5, <2>1 DEF LockInv
    <2>2. CASE q = p
      BY <1>1, <1>2, <1>3, <1>4, <1>5, <2>2 DEF LockInv, EmailLocked, EmailPending, Keeps
    <2>3. CASE r = p
      BY <1>1, <1>2, <1>3, <1>4, <1>5, <2>3 DEF LockInv, EmailLocked, EmailPending, Keeps
    <2> QED BY <2>1, <2>2, <2>3
  \* An address is entered by who inserts it, or when nobody does.
  <1>6. \A q \in Requests \ {p} : job[q].at = "insert" /\ job[q].email # NoEmail => mail'[job[q].email] = NoUser
    <2> SUFFICES ASSUME NEW q \in Requests \ {p}, job[q].at = "insert", job[q].email # NoEmail
                 PROVE  mail'[job[q].email] = NoUser
      OBVIOUS
    <2>1. mail[job[q].email] = NoUser
      BY DEF LockInv, MailFree
    <2>2. CASE mail' = mail
      BY <2>1, <2>2
    <2>3. CASE CommitAccount(p)
      <3>1. mail' = mail \/ \E u : mail' = [mail EXCEPT ![J.email] = u] /\ J.email # NoEmail
        <4>1. mail' = mail \/ \E u \in Fresh : mail' = [mail EXCEPT ![J.email] = u] /\ J.email # NoEmail
          BY <2>3 DEF CommitAccount
        <4> QED BY <4>1
      <3>2. J.email # job[q].email
        BY <2>3 DEF LockInv, CommitAccount
      <3>3. job[q].email \in Emails
        BY DEF TypeInv, JobsOK, JobOK, Jobs
      <3> QED BY <2>1, <3>1, <3>2, <3>3 DEF TypeInv, RowsOK
    <2>4. CASE RegisterEmail(p)
      <3>1. mail' = mail \/ \E u : mail' = [mail EXCEPT ![J.email] = u]
        BY <2>4 DEF RegisterEmail
      <3>2. J.email # job[q].email
        BY <2>4 DEF RegisterEmail, EmailPending
      <3>3. job[q].email \in Emails
        BY DEF TypeInv, JobsOK, JobOK, Jobs
      <3> QED BY <2>1, <3>1, <3>2, <3>3 DEF TypeInv, RowsOK
    <2>5. CommitAccount(p) \/ RegisterEmail(p) \/ mail' = mail
      BY DEF Arrive, Step, End, Login, LinkAccount, FindOrCreateByEmail, Onboarding, InternalAPITokenLogin,
             Ask, RefreshToken, Logout, FindByProvider, LockEmail, Decide, Attach, StartAccount, UpsertEmail,
             Recover, OfferBinding, ReadForAvatar, SaveAvatar, VerifyExisting, Confirm, Spend,
             DeleteExpiredRefreshTokens, GenerateRefreshToken, LookupEmail, ReserveId, ReadProfile,
             WriteProfile, Silent, rows
    <2> QED BY <2>2, <2>3, <2>4, <2>5
  <1>7. MailFree'
    <2>1. j.at = "insert" /\ j.email # NoEmail => mail'[j.email] = NoUser
      BY <1>2, <1>4 DEF Keeps
    <2> QED BY <1>1, <1>6, <2>1 DEF MailFree
  <1> QED BY <1>5, <1>7 DEF LockInv

-----------------------------------------------------------------------------
(* The invariant                                                           *)

Inv == TypeInv /\ SoundInv /\ LockInv

LEMMA InitInv == Init => Inv
  <1> SUFFICES ASSUME Init PROVE Inv
    OBVIOUS
  <1>1. /\ owner \in [Identities -> Users \union {NoUser}]
        /\ mail \in [Emails -> Users \union {NoUser}]
    BY AccountsAssumption DEF Init
  <1>2. /\ \A u \in Users : NoRow \in Profiles /\ [NoRow EXCEPT !.made = Known(u) \union Addresses(u) # {}] \in Profiles
        /\ \A u \in Users : [NoRow EXCEPT !.made = Known(u) \union Addresses(u) # {}].made
                             <=> Known(u) \union Addresses(u) # {}
    BY DEF NoRow, Profiles
  <1>3. /\ profile \in [Users -> Profiles]
        /\ \A u \in Users : profile[u].made <=> Known(u) \union Addresses(u) # {}
    BY <1>2 DEF Init
  <1>4. NoToken \in TokenRows /\ NoToken.state = "none" /\ NoToken.via = {}
    BY AccountsAssumption DEF NoToken, TokenRows
  <1>5. RowsOK
    BY <1>1, <1>3, <1>4, AccountsAssumption DEF Init, RowsOK
  <1>6. JobsOK /\ \A p \in Requests : job[p] = Idle
    BY IdleOK DEF Init, JobsOK
  <1>7. Rooted
    <2>1. \A i \in Identities : owner[i] # NoUser => profile[owner[i]].made
      BY <1>1, <1>3 DEF Known
    <2>2. \A e \in Emails : mail[e] # NoUser => profile[mail[e]].made
      BY <1>1, <1>3 DEF Addresses
    <2>3. \A t \in Tokens : token[t] = NoToken
      BY DEF Init
    <2> QED BY <1>4, <2>1, <2>2, <2>3 DEF Rooted, SessionsAreTheOwners, Init
  <1>8. SoundInv
    <2>1. Sound(Idle)
      BY IdleOK DEF Sound
    <2> QED BY <1>6, <1>7, <2>1 DEF SoundInv
  <1>9. LockInv
    BY <1>6, IdleOK DEF LockInv, MailFree
  <1> QED BY <1>5, <1>6, <1>8, <1>9 DEF Inv, TypeInv

LEMMA RequestKeeps ==
    ASSUME Inv, NEW p \in Requests, Arrive(p) \/ Step(p) \/ End(p)
    PROVE  Grows /\ Inv'
  <1> USE DEF Inv
  <1>1. LockInv'
    BY LockStep
  <1>2. CASE Arrive(p)
    BY <1>1, <1>2, ArriveStep
  <1>3. CASE End(p)
    BY <1>1, <1>3, ReadStep
  <1>4. CASE \/ FindByProvider(p) \/ LockEmail(p) \/ Decide(p) \/ StartAccount(p)
             \/ UpsertEmail(p) \/ Recover(p) \/ ReadForAvatar(p) \/ VerifyExisting(p)
             \/ LookupEmail(p) \/ ReserveId(p) \/ ReadProfile(p)
    BY <1>1, <1>4, ReadStep
  <1>5. CASE Attach(p)
    BY <1>1, <1>5, AttachStep
  <1>6. CASE CommitAccount(p)
    BY <1>1, <1>6, CommitAccountStep DEF LockInv
  <1>7. CASE OfferBinding(p)
    BY <1>1, <1>7, OfferBindingStep
  <1>8. CASE SaveAvatar(p)
    BY <1>1, <1>8, SaveAvatarStep
  <1>9. CASE Confirm(p)
    BY <1>1, <1>9, ConfirmStep
  <1>10. CASE Spend(p) \/ DeleteExpiredRefreshTokens(p)
    BY <1>1, <1>10, SpendStep
  <1>11. CASE GenerateRefreshToken(p)
    BY <1>1, <1>11, GenerateStep
  <1>12. CASE RegisterEmail(p)
    BY <1>1, <1>12, RegisterEmailStep
  <1>13. CASE WriteProfile(p)
    BY <1>1, <1>13, WriteProfileStep
  <1> QED BY <1>2, <1>3, <1>4, <1>5, <1>6, <1>7, <1>8, <1>9, <1>10, <1>11, <1>12, <1>13 DEF Step

LEMMA NextInv == Inv /\ [Next]_vars => Inv'
  <1> SUFFICES ASSUME Inv, [Next]_vars PROVE Inv'
    OBVIOUS
  <1>1. CASE \E p \in Requests : Arrive(p) \/ Step(p) \/ End(p)
    BY <1>1, RequestKeeps
  <1>2. CASE \E t \in Tokens : Expire(t)
    <2>1. Grows /\ TypeInv' /\ SoundInv'
      BY <1>2, ExpireStep DEF Inv
    <2>2. UNCHANGED <<mail, job>>
      BY <1>2 DEF Expire
    <2> QED BY <2>1, <2>2 DEF Inv, LockInv, MailFree
  <1>3. CASE UNCHANGED vars
    <2>1. Grows
      BY <1>3 DEF vars, Grows
    <2>2. RowsOK' /\ Rooted' /\ job' = job /\ mail' = mail
      BY <1>3 DEF vars, Inv, TypeInv, RowsOK, SoundInv, Rooted, SessionsAreTheOwners
    <2>3. Grows /\ TypeInv' /\ SoundInv'
      BY <2>1, <2>2, TokenStateStep DEF Inv
    <2> QED BY <2>2, <2>3 DEF Inv, LockInv, MailFree
  <1> QED BY <1>1, <1>2, <1>3 DEF Next

LEMMA SpecInv == Spec => []Inv
  <1> QED BY InitInv, NextInv, PTL DEF Spec

\* Rows, tokens and requests are what their types say, and a request carries at each
\* point what the statements there use.
THEOREM TypeCorrect == Spec => []TypeOK
  <1>1. Inv => TypeOK
    BY DEF Inv, TypeInv, RowsOK, JobsOK, TypeOK
  <1> QED BY <1>1, SpecInv, PTL

\* A session is for the account of an identity presented for it, however logins race.
THEOREM SessionsOwners == Spec => []SessionsAreTheOwners
  <1>1. Inv => SessionsAreTheOwners
    BY DEF Inv, SoundInv, Rooted
  <1> QED BY <1>1, SpecInv, PTL

-----------------------------------------------------------------------------
(* The refinement                                                          *)

Several(u) == \E e, f \in Addresses(u) : e # f

\* Who is about to enter an account without asking may: the account has no identity
\* yet, and nobody else can give it one meanwhile, or it has several addresses.
AttachInv == \A p \in Requests : job[p].at = "attach" =>
                Known(job[p].user) = {} \/ Several(job[p].user)

SafeInv == Inv /\ AttachInv

Made   == {u \in Users : profile[u].made}
Offers == {<<l.id, l.user>> : l \in link}

\* More than one address in the count of the code is two addresses.
LEMMA CountedTwice ==
    ASSUME NEW u, Addresses(u) # {}, ~(Cardinality(Addresses(u)) <= 1)
    PROVE  Several(u)
  <1> SUFFICES ASSUME ~Several(u) PROVE FALSE
    OBVIOUS
  <1>1. PICK e : Addresses(u) = {e}
    BY DEF Several
  <1>2. Cardinality(Addresses(u)) = 1
    BY <1>1, FS_Singleton
  <1> QED BY <1>2

\* What each step does to accounts, identities, addresses and offers.
LEMMA RowsMove ==
    ASSUME SafeInv, NEW p \in Requests, Arrive(p) \/ Step(p) \/ End(p)
    PROVE  \/ CommitAccount(p) /\ owner[job[p].id] = NoUser
           \/ RegisterEmail(p) /\ mail' # mail
           \/ Attach(p) /\ owner[job[p].id] = NoUser
           \/ OfferBinding(p)
           \/ Confirm(p) /\ owner[job[p].id] = NoUser
           \/ Made' = Made /\ UNCHANGED <<owner, mail, link>>
  <1> SUFFICES ASSUME ~OfferBinding(p)
               PROVE  \/ CommitAccount(p) /\ owner[job[p].id] = NoUser
                      \/ RegisterEmail(p) /\ mail' # mail
                      \/ Attach(p) /\ owner[job[p].id] = NoUser
                      \/ Confirm(p) /\ owner[job[p].id] = NoUser
                      \/ Made' = Made /\ UNCHANGED <<owner, mail, link>>
    OBVIOUS
  <1>1. CASE CommitAccount(p)
    BY <1>1 DEF CommitAccount, Made
  <1>2. CASE RegisterEmail(p)
    <2>1. UNCHANGED <<owner, link>>
      BY <1>2 DEF RegisterEmail
    <2>2. mail' # mail \/ UNCHANGED <<profile, mail>>
      <3>1. CASE mail[job[p].email] # NoUser \/ (job[p].user # NoUser /\ profile[job[p].user].made)
        BY <1>2, <3>1 DEF RegisterEmail
      <3>2. CASE ~(mail[job[p].email] # NoUser \/ (job[p].user # NoUser /\ profile[job[p].user].made))
        <4>1. \E u \in IF job[p].user = NoUser THEN Fresh ELSE {job[p].user} :
                 mail' = [mail EXCEPT ![job[p].email] = u]
          BY <1>2, <3>2 DEF RegisterEmail
        <4>2. PICK u : mail' = [mail EXCEPT ![job[p].email] = u] /\ u \in Users
          <5>1. job[p].user \in Users \union {NoUser}
            BY DEF SafeInv, Inv, TypeInv, JobsOK, JobOK, Jobs
          <5> QED BY <4>1, <5>1, FreshIsNew
        <4>3. job[p].email \in Emails
          <5>1. JobOK(job[p]) /\ job[p].at = "register"
            BY <1>2 DEF RegisterEmail, SafeInv, Inv, TypeInv, JobsOK
          <5> QED BY <5>1 DEF JobOK, PointsOf, Jobs, Kinds
        <4>4. mail'[job[p].email] = u
          BY <4>2, <4>3 DEF SafeInv, Inv, TypeInv, RowsOK
        <4> QED BY <3>2, <4>2, <4>4, AccountsAssumption
      <3> QED BY <3>1, <3>2
    <2> QED BY <1>2, <2>1, <2>2 DEF Made
  <1>3. CASE Attach(p)
    BY <1>3 DEF Attach, Made
  <1>4. CASE Confirm(p)
    BY <1>4 DEF Confirm, Made
  <1>5. CASE SaveAvatar(p)
    <2>1. /\ profile' = profile \/ profile' = [profile EXCEPT ![job[p].user] = job[p].seen]
          /\ UNCHANGED <<owner, mail, link>>
      BY <1>5 DEF SaveAvatar
    <2>2. JobOK(job[p]) /\ Sound(job[p]) /\ job[p].at = "save"
      BY <1>5 DEF SaveAvatar, SafeInv, Inv, TypeInv, JobsOK, SoundInv
    <2>3. job[p].user \in Users /\ job[p].seen.made /\ profile[job[p].user].made
      BY <2>2 DEF JobOK, Sound
    <2>4. \A u \in Users : profile'[u].made <=> profile[u].made
      BY <2>1, <2>3 DEF SafeInv, Inv, TypeInv, RowsOK
    <2> QED BY <2>1, <2>4 DEF Made
  <1>6. CASE WriteProfile(p)
    <2>1. UNCHANGED <<owner, mail, link>>
      BY <1>6 DEF WriteProfile
    <2>2. JobOK(job[p]) /\ job[p].at = "write"
      BY <1>6 DEF WriteProfile, SafeInv, Inv, TypeInv, JobsOK
    <2>3. job[p].user \in Users
      BY <2>2 DEF JobOK, PointsOf, Jobs, Kinds
    <2>4. \A u \in Users : profile'[u].made <=> profile[u].made
      BY <1>6, <2>3 DEF WriteProfile, SafeInv, Inv, TypeInv, RowsOK, Profiles
    <2> QED BY <2>1, <2>4 DEF Made
  <1>7. CASE ~(CommitAccount(p) \/ RegisterEmail(p) \/ Attach(p) \/ Confirm(p) \/ SaveAvatar(p) \/ WriteProfile(p))
    <2>1. UNCHANGED <<profile, owner, mail, link>>
      BY <1>7 DEF Arrive, Step, End, Login, LinkAccount, FindOrCreateByEmail, Onboarding, InternalAPITokenLogin,
             Ask, RefreshToken, Logout, FindByProvider, LockEmail, Decide, StartAccount, UpsertEmail,
             Recover, ReadForAvatar, VerifyExisting, Spend,
             DeleteExpiredRefreshTokens, GenerateRefreshToken, LookupEmail, ReserveId, ReadProfile,
             Silent, rows
    <2> QED BY <2>1 DEF Made
  <1> QED BY <1>1, <1>2, <1>3, <1>4, <1>5, <1>6, <1>7

-----------------------------------------------------------------------------
(* Who enters an account                                                   *)

LEMMA SeveralStays == ASSUME Grows, NEW u \in Users, Several(u), NoUser \notin Users PROVE Several(u)'
  BY DEF Grows, Several, Addresses

LEMMA CommitForm ==
    ASSUME SafeInv, NEW p \in Requests, CommitAccount(p), owner[job[p].id] = NoUser
    PROVE  \E u \in Users : /\ ~profile[u].made /\ Made' = Made \union {u}
                            /\ owner' = [owner EXCEPT ![job[p].id] = u]
                            /\ mail' = IF job[p].email = NoEmail THEN mail
                                       ELSE [mail EXCEPT ![job[p].email] = u]
                            /\ link' = link
  <1>1. \E u \in Fresh :
           /\ profile' = [profile EXCEPT ![u].made = TRUE]
           /\ owner' = [owner EXCEPT ![job[p].id] = u]
           /\ mail' = IF job[p].email = NoEmail THEN mail ELSE [mail EXCEPT ![job[p].email] = u]
    BY DEF CommitAccount
  <1>2. PICK u \in Fresh :
           /\ profile' = MadeToo(u)
           /\ owner' = [owner EXCEPT ![job[p].id] = u]
           /\ mail' = IF job[p].email = NoEmail THEN mail ELSE [mail EXCEPT ![job[p].email] = u]
    BY <1>1, Zenon DEF MadeToo
  <1>3. u \in Users /\ ~profile[u].made
    BY FreshIsNew
  <1>4. \A x \in Users : profile'[x].made <=> profile[x].made \/ x = u
    BY <1>2, <1>3 DEF MadeToo, SafeInv, Inv, TypeInv, RowsOK, Profiles
  <1>5. Made' = Made \union {u}
    BY <1>3, <1>4 DEF Made
  <1>6. link' = link
    BY DEF CommitAccount
  <1> QED BY <1>2, <1>3, <1>5, <1>6

LEMMA AttachStays ==
    ASSUME SafeInv, Grows, NEW p \in Requests, Arrive(p) \/ Step(p) \/ End(p)
    PROVE  AttachInv'
  <1> USE DEF SafeInv, Inv
  <1>0. \A q \in Requests : /\ JobOK(job[q]) /\ Sound(job[q])
                            /\ job[q].at = "attach" =>
                                  /\ job[q].user \in Users /\ job[q].email \in Emails
                                  /\ mail[job[q].email] = job[q].user /\ profile[job[q].user].made
    <2>1. ASSUME NEW q \in Requests, job[q].at = "attach"
          PROVE  job[q].user \in Users /\ job[q].email \in Emails /\ mail[job[q].email] = job[q].user
      BY <2>1 DEF TypeInv, JobsOK, SoundInv, JobOK, Sound
    <2>2. \A e \in Emails : mail[e] # NoUser => profile[mail[e]].made
      BY DEF SoundInv, Rooted
    <2> QED BY <2>1, <2>2, AccountsAssumption DEF TypeInv, JobsOK, SoundInv
  \* An account nobody can enter stays so but for those whose own identity enters it.
  <1>1. ASSUME NEW q \in Requests \ {p}, job[q].at = "attach"
        PROVE  Known(job[q].user)' = {} \/ Several(job[q].user)'
    <2>0. PICK u \in Users : /\ u = job[q].user /\ profile[u].made
                            /\ job[q].email \in Emails /\ mail[job[q].email] = u
      BY <1>0, <1>1
    <2>1. job'[q] = job[q] /\ job'[q].user = u
      BY <2>0, Course, <1>1
    <2>2. CASE Several(u)
      <3>1. Several(u)'
        BY <2>2, SeveralStays, AccountsAssumption
      <3> QED BY <2>1, <3>1 DEF Several, Addresses
    <2>3. CASE Known(u) = {} /\ ~Several(u)
      <3>1. ASSUME owner' = owner PROVE Known(job[q].user)' = {}
        BY <2>1, <2>3, <3>1 DEF Known
      <3>2. CASE CommitAccount(p) /\ owner[job[p].id] = NoUser
        <4>1. PICK x \in Users : ~profile[x].made /\ owner' = [owner EXCEPT ![job[p].id] = x]
          BY <3>2, CommitForm
        <4>2. x # u
          BY <2>0, <4>1
        <4> QED BY <2>1, <2>3, <4>1, <4>2 DEF Known, TypeInv, RowsOK
      <3>3. CASE Attach(p) /\ owner[job[p].id] = NoUser
        <4>1. job[p].at = "attach" /\ owner' = [owner EXCEPT ![job[p].id] = job[p].user]
          BY <3>3 DEF Attach
        <4>2. job[p].email # job[q].email
          BY <1>1, <4>1 DEF LockInv
        <4>3. job[p].user # u
          BY <1>0, <2>0, <2>3, <4>1, <4>2 DEF Several, Addresses
        <4> QED BY <2>1, <2>3, <4>1, <4>3 DEF Known, TypeInv, RowsOK
      <3>4. CASE Confirm(p) /\ owner[job[p].id] = NoUser
        <4>1. owner' = [owner EXCEPT ![job[p].id] = job[p].user] /\ job[p].at = "confirm"
          BY <3>4 DEF Confirm
        <4>2. job[p].kind = "link" /\ job[p].existing \in Identities
          BY <1>0, <4>1 DEF JobOK, PointsOf, Jobs, Kinds
        <4> DEFINE l == [id |-> job[p].id, existing |-> job[p].existing, user |-> job[p].user]
        <4>3. l \in link /\ l.existing = job[p].existing /\ l.user = job[p].user
          BY <1>0, <4>2 DEF Sound
        <4> HIDE DEF l
        <4>4. owner[job[p].existing] = job[p].user
          BY <4>3 DEF SoundInv, Rooted
        <4>5. job[p].user # u
          BY <2>3, <4>2, <4>4 DEF Known
        <4> QED BY <2>1, <2>3, <4>1, <4>5 DEF Known, TypeInv, RowsOK
      <3>5. RegisterEmail(p) \/ OfferBinding(p) => owner' = owner
        BY DEF RegisterEmail, OfferBinding
      <3> QED BY <3>1, <3>2, <3>3, <3>4, <3>5, RowsMove
    <2> QED BY <2>0, <2>2, <2>3, <1>1 DEF AttachInv
  <1>2. ASSUME job'[p].at = "attach"
        PROVE  Known(job[p].user)' = {} \/ Several(job[p].user)'
    <2>1. Decide(p) /\ job[p].at = "decide"
      BY <1>2, Course DEF Decide
    <2>2. job[p].user \in Users /\ job[p].email \in Emails /\ mail[job[p].email] = job[p].user
      BY <2>1 DEF TypeInv, JobsOK, SoundInv, JobOK, Sound
    <2>3. job'[p].user = job[p].user /\ UNCHANGED <<owner, mail>>
      BY <1>2, <2>1 DEF Decide, Move, Silent, rows, TypeInv, JobsOK, JobOK, Jobs
    <2>4. Known(job[p].user) = {} \/ ~(Cardinality(Addresses(job[p].user)) <= 1)
      BY <1>2, <2>1 DEF Decide, Move, TypeInv, JobsOK, JobOK, Jobs
    <2>5. Addresses(job[p].user) # {}
      BY <2>2 DEF Addresses
    <2>6. Known(job[p].user) = {} \/ Several(job[p].user)
      BY <2>4, <2>5, CountedTwice
    <2> QED BY <2>3, <2>6 DEF Known, Several, Addresses
  <1>3. \A q \in Requests \ {p} : job'[q] = job[q]
    BY Course
  <1> QED BY <1>1, <1>2, <1>3 DEF AttachInv

LEMMA SafeNext == SafeInv /\ [Next]_vars => SafeInv'
  <1> SUFFICES ASSUME SafeInv, [Next]_vars PROVE SafeInv'
    OBVIOUS
  <1>1. Inv'
    BY NextInv DEF SafeInv
  <1>2. CASE \E p \in Requests : Arrive(p) \/ Step(p) \/ End(p)
    BY <1>1, <1>2, RequestKeeps, AttachStays DEF SafeInv
  <1>3. CASE UNCHANGED <<owner, mail, job>>
    BY <1>1, <1>3 DEF SafeInv, AttachInv, Known, Several, Addresses
  <1> QED BY <1>2, <1>3 DEF Next, Expire, vars

LEMMA SpecSafe == Spec => []SafeInv
  <1>1. Init => SafeInv
    BY InitInv, IdleOK DEF SafeInv, AttachInv, Init
  <1> QED BY <1>1, SafeNext, PTL DEF Spec

-----------------------------------------------------------------------------
(* The refinement                                                          *)

LEMMA SignsUp ==
    ASSUME SafeInv, NEW p \in Requests, CommitAccount(p), owner[job[p].id] = NoUser
    PROVE  Registry!SignUp
  <1> DEFINE i == job[p].id
             e == job[p].email
  <1>1. JobOK(job[p]) /\ job[p].at = "insert"
    BY DEF CommitAccount, SafeInv, Inv, TypeInv, JobsOK
  <1>2. i \in Identities /\ e \in Emails \union {NoEmail} /\ <<i, e>> \in Logins
    BY <1>1 DEF JobOK, PointsOf, Jobs, Kinds
  <1>3. e = NoEmail \/ mail[e] = NoUser
    BY <1>1 DEF SafeInv, Inv, LockInv, MailFree
  <1>4. PICK u \in Users :
           /\ ~profile[u].made /\ Made' = Made \union {u}
           /\ owner' = [owner EXCEPT ![i] = u]
           /\ mail' = IF e = NoEmail THEN mail ELSE [mail EXCEPT ![e] = u]
           /\ link' = link
    BY CommitForm
  <1>5. u \in Users \ Made
    BY <1>4 DEF Made
  <1> HIDE DEF i, e
  <1> QED BY <1>2, <1>3, <1>4, <1>5 DEF Registry!SignUp, Made, i

LEMMA Invites ==
    ASSUME SafeInv, NEW p \in Requests, RegisterEmail(p), mail' # mail
    PROVE  Registry!Invite
  <1>1. JobOK(job[p]) /\ job[p].at = "register"
    BY DEF RegisterEmail, SafeInv, Inv, TypeInv, JobsOK
  <1>2. job[p].email \in Emails /\ job[p].user \in Users \union {NoUser}
    BY <1>1 DEF JobOK, PointsOf, Jobs, Kinds
  <1>3. ~(mail[job[p].email] # NoUser \/ (job[p].user # NoUser /\ profile[job[p].user].made))
    BY DEF RegisterEmail
  <1>4. \E u \in IF job[p].user = NoUser THEN Fresh ELSE {job[p].user} :
           /\ profile' = [profile EXCEPT ![u].made = TRUE]
           /\ mail' = [mail EXCEPT ![job[p].email] = u]
    BY <1>3 DEF RegisterEmail
  <1>5. PICK u \in IF job[p].user = NoUser THEN Fresh ELSE {job[p].user} :
           profile' = MadeToo(u) /\ mail' = [mail EXCEPT ![job[p].email] = u]
    BY <1>4, Zenon DEF MadeToo
  <1>6. u \in Users /\ ~profile[u].made
    BY <1>2, <1>3, FreshIsNew
  <1>7. \A x \in Users : profile'[x].made <=> profile[x].made \/ x = u
    BY <1>5, <1>6 DEF MadeToo, SafeInv, Inv, TypeInv, RowsOK, Profiles
  <1>8. u \in Users \ Made /\ Made' = Made \union {u}
    BY <1>6, <1>7 DEF Made
  <1>9. UNCHANGED <<owner, link>>
    BY DEF RegisterEmail
  <1> QED BY <1>2, <1>3, <1>5, <1>8, <1>9 DEF Registry!Invite, Made

LEMMA Joins ==
    ASSUME SafeInv, NEW p \in Requests, Attach(p), owner[job[p].id] = NoUser
    PROVE  Registry!Join
  <1> DEFINE i == job[p].id
             u == job[p].user
  <1>1. JobOK(job[p]) /\ Sound(job[p]) /\ job[p].at = "attach"
    BY DEF Attach, SafeInv, Inv, TypeInv, JobsOK, SoundInv
  <1>2. /\ i \in Identities /\ job[p].email \in Emails /\ <<i, job[p].email>> \in Logins
        /\ u \in Users /\ mail[job[p].email] = u
    BY <1>1 DEF JobOK, PointsOf, Jobs, Kinds, Sound
  <1>3. u \in Made
    <2>1. \A e \in Emails : mail[e] # NoUser => profile[mail[e]].made
      BY DEF SafeInv, Inv, SoundInv, Rooted
    <2> QED BY <1>2, <2>1, AccountsAssumption DEF Made
  <1>4. Known(u) = {} \/ Several(u)
    BY <1>1 DEF SafeInv, AttachInv
  <1>5. /\ owner' = [owner EXCEPT ![i] = u] /\ UNCHANGED <<profile, mail, link>>
    BY DEF Attach
  <1> HIDE DEF i, u
  <1>6. Registry!Belongs(i, u)
    BY <1>2 DEF Registry!Belongs, Registry!Addresses
  <1>7. Registry!Known(u) = {} \/ Registry!Several(u)
    BY <1>4 DEF Known, Several, Addresses, Registry!Known, Registry!Several, Registry!Addresses
  <1>8. Registry!Enter(i, u)
    <2>1. owner[i] = NoUser
      BY DEF i
    <2> QED BY <1>5, <2>1 DEF Registry!Enter
  <1> QED BY <1>2, <1>3, <1>6, <1>7, <1>8 DEF Registry!Join, Made

LEMMA OffersBinding ==
    ASSUME SafeInv, NEW p \in Requests, OfferBinding(p)
    PROVE  Registry!Offer
  <1> DEFINE i == job[p].id
             u == job[p].user
             l == [id |-> i, existing |-> job[p].existing, user |-> u]
  <1>1. JobOK(job[p]) /\ Sound(job[p]) /\ job[p].at = "bind"
    BY DEF OfferBinding, SafeInv, Inv, TypeInv, JobsOK, SoundInv
  <1>2. /\ i \in Identities /\ job[p].email \in Emails /\ <<i, job[p].email>> \in Logins
        /\ u \in Users /\ mail[job[p].email] = u
        /\ job[p].existing \in Identities /\ owner[job[p].existing] = u
    BY <1>1 DEF JobOK, PointsOf, Jobs, Kinds, Sound
  <1>3. u \in Made
    <2>1. \A e \in Emails : mail[e] # NoUser => profile[mail[e]].made
      BY DEF SafeInv, Inv, SoundInv, Rooted
    <2> QED BY <1>2, <2>1, AccountsAssumption DEF Made
  <1>4. link' = link \union {l} /\ l.id = i /\ l.user = u /\ UNCHANGED <<profile, owner, mail>>
    BY DEF OfferBinding
  <1> HIDE DEF i, u, l
  <1>5. Offers' = Offers \union {<<i, u>>}
    BY <1>4 DEF Offers
  <1>6. Registry!Belongs(i, u) /\ Registry!Known(u) # {}
    BY <1>2 DEF Registry!Belongs, Registry!Addresses, Registry!Known
  <1> QED BY <1>2, <1>3, <1>4, <1>5, <1>6 DEF Registry!Offer, Made, Offers

LEMMA Confirms ==
    ASSUME SafeInv, NEW p \in Requests, Confirm(p), owner[job[p].id] = NoUser
    PROVE  Registry!Confirm
  <1> DEFINE i == job[p].id
             u == job[p].user
             l == [id |-> i, existing |-> job[p].existing, user |-> u]
  <1>1. JobOK(job[p]) /\ Sound(job[p]) /\ job[p].at = "confirm"
    BY DEF Confirm, SafeInv, Inv, TypeInv, JobsOK, SoundInv
  <1>2. /\ i \in Identities /\ u \in Users /\ l \in link /\ l.id = i /\ l.user = u
        /\ l.existing = job[p].existing /\ job[p].existing \in Identities
    BY <1>1 DEF JobOK, PointsOf, Jobs, Kinds, Sound
  <1>3. owner' = [owner EXCEPT ![i] = u] /\ UNCHANGED <<profile, mail, link>>
    BY DEF Confirm
  <1>4. owner[i] = NoUser
    OBVIOUS
  <1> HIDE DEF i, u, l
  <1>5. u \in Made
    <2>1. owner[l.existing] = u
      BY <1>2 DEF SafeInv, Inv, SoundInv, Rooted
    <2>2. \A x \in Identities : owner[x] # NoUser => profile[owner[x]].made
      BY DEF SafeInv, Inv, SoundInv, Rooted
    <2> QED BY <1>2, <2>1, <2>2, AccountsAssumption DEF Made
  <1>6. <<i, u>> \in Offers
    BY <1>2 DEF Offers
  <1>7. Registry!Enter(i, u)
    BY <1>3, <1>4 DEF Registry!Enter
  <1> QED BY <1>2, <1>5, <1>6, <1>7 DEF Registry!Confirm, Made, Offers

\* Every commit of a row of users, auth or user_emails, and every link token handed
\* out, is a step the registry allows; no other step touches it.
THEOREM Implements == Spec => RegistrySpec
  <1>1. Init => Registry!Init
    BY DEF Init, Registry!Init
  <1>2. ASSUME SafeInv, [Next]_vars PROVE [Registry!Next]_Registry!vars
    <2>1. CASE \E p \in Requests : Arrive(p) \/ Step(p) \/ End(p)
      <3>1. PICK p \in Requests : Arrive(p) \/ Step(p) \/ End(p)
        BY <2>1
      <3>2. CASE Made' = Made /\ UNCHANGED <<owner, mail, link>>
        BY <3>2 DEF Registry!vars, Made
      <3>3. Registry!Next \/ (Made' = Made /\ UNCHANGED <<owner, mail, link>>)
        BY <1>2, <3>1, RowsMove, SignsUp, Invites, Joins, OffersBinding, Confirms DEF Registry!Next
      <3> QED BY <3>2, <3>3
    <2>2. CASE UNCHANGED <<profile, owner, mail, link>>
      BY <2>2 DEF Registry!vars
    <2> QED BY <1>2, <2>1, <2>2 DEF Next, Expire, vars
  <1> QED BY <1>1, <1>2, SpecSafe, PTL DEF Spec, RegistrySpec, Registry!Spec

-----------------------------------------------------------------------------
(* Onboarding                                                              *)

\* Whoever holds a row of users to write it back has the row as it is, or finds it
\* still to be onboarded, unless somebody has written it under him.
ProfileInv ==
    /\ \A u \in Users : profile[u].onboarded => profile[u].made
    /\ \A p \in Requests : job[p].user \notin crossed =>
          /\ job[p].at = "save" => job[p].seen = profile[job[p].user]
          /\ job[p].at = "write" => ~profile[job[p].user].onboarded

\* Who writes rows of users.
LEMMA ProfilesMove ==
    ASSUME Inv, NEW p \in Requests, Arrive(p) \/ Step(p) \/ End(p)
    PROVE  \/ profile' = profile /\ crossed' = crossed
           \/ \E u \in Users : ~profile[u].made /\ profile' = MadeToo(u) /\ crossed' = crossed
           \/ SaveAvatar(p)
           \/ WriteProfile(p)
  <1>1. CASE CommitAccount(p)
    <2>1. crossed' = crossed
      BY <1>1 DEF CommitAccount
    <2>2. profile' = profile \/ \E u \in Fresh : profile' = [profile EXCEPT ![u].made = TRUE]
      BY <1>1 DEF CommitAccount
    <2>3. CASE \E u \in Fresh : profile' = [profile EXCEPT ![u].made = TRUE]
      <3>1. PICK u \in Fresh : profile' = MadeToo(u)
        BY <2>3, Zenon DEF MadeToo
      <3> QED BY <2>1, <3>1, FreshIsNew
    <2> QED BY <2>1, <2>2, <2>3
  <1>2. CASE RegisterEmail(p)
    <2>1. crossed' = crossed
      BY <1>2 DEF RegisterEmail
    <2>2. CASE mail[job[p].email] # NoUser \/ (job[p].user # NoUser /\ profile[job[p].user].made)
      BY <1>2, <2>1, <2>2 DEF RegisterEmail
    <2>3. CASE ~(mail[job[p].email] # NoUser \/ (job[p].user # NoUser /\ profile[job[p].user].made))
      <3>1. \E u \in IF job[p].user = NoUser THEN Fresh ELSE {job[p].user} :
               profile' = [profile EXCEPT ![u].made = TRUE]
        BY <1>2, <2>3 DEF RegisterEmail
      <3>2. PICK u \in IF job[p].user = NoUser THEN Fresh ELSE {job[p].user} : profile' = MadeToo(u)
        BY <3>1, Zenon DEF MadeToo
      <3>3. job[p].user \in Users \union {NoUser}
        BY DEF Inv, TypeInv, JobsOK, JobOK, Jobs
      <3>4. u \in Users /\ ~profile[u].made
        BY <2>3, <3>2, <3>3, FreshIsNew
      <3> QED BY <2>1, <3>2, <3>4
    <2> QED BY <2>2, <2>3
  <1>3. CASE ~(CommitAccount(p) \/ RegisterEmail(p) \/ SaveAvatar(p) \/ WriteProfile(p))
    BY <1>3 DEF Arrive, Step, End, Login, LinkAccount, FindOrCreateByEmail, Onboarding, InternalAPITokenLogin,
           Ask, RefreshToken, Logout, FindByProvider, LockEmail, Decide, Attach, StartAccount, UpsertEmail,
           Recover, OfferBinding, ReadForAvatar, VerifyExisting, Confirm, Spend,
           DeleteExpiredRefreshTokens, GenerateRefreshToken, LookupEmail, ReserveId, ReadProfile,
           Silent, rows
  <1> QED BY <1>1, <1>2, <1>3

\* A row that is written back, or onboarded, is exempt for those who hold it too.
LEMMA WritersCross ==
    ASSUME Inv, NEW p \in Requests, SaveAvatar(p) \/ WriteProfile(p)
    PROVE  /\ job[p].user \in Users
           /\ \A u \in Users \ {job[p].user} : profile'[u] = profile[u]
           /\ \/ profile' = profile /\ crossed' = crossed
              \/ profile'[job[p].user].made /\ NoteCrossing(p)
           /\ WriteProfile(p) => \/ profile' = profile
                                 \/ job[p].at = "write"
           /\ SaveAvatar(p) => /\ job[p].at = "save"
                               /\ profile' = profile \/ profile'[job[p].user] = job[p].seen
  <1>0. JobOK(job[p]) /\ Sound(job[p])
    BY DEF Inv, TypeInv, JobsOK, SoundInv
  <1>1. CASE SaveAvatar(p)
    <2>1. /\ job[p].at = "save"
          /\ \/ profile' = profile /\ crossed' = crossed
             \/ profile' = [profile EXCEPT ![job[p].user] = job[p].seen] /\ NoteCrossing(p)
      BY <1>1 DEF SaveAvatar
    <2>2. job[p].user \in Users /\ job[p].seen.made /\ job[p].kind = "login"
      BY <1>0, <2>1 DEF JobOK, Sound, PointsOf, Jobs, Kinds
    <2>3. ~WriteProfile(p)
      BY <2>1 DEF WriteProfile
    <2> QED BY <2>1, <2>2, <2>3 DEF Inv, TypeInv, RowsOK
  <1>2. CASE WriteProfile(p)
    <2>1. job[p].at = "write"
      BY <1>2 DEF WriteProfile
    <2>2. job[p].user \in Users /\ profile[job[p].user].made
      BY <1>0, <2>1 DEF JobOK, Sound, PointsOf, Jobs, Kinds
    <2>3. ~SaveAvatar(p)
      BY <2>1 DEF SaveAvatar
    <2>4. \/ profile' = profile /\ crossed' = crossed
          \/ /\ profile' = [profile EXCEPT ![job[p].user].username = job[p].name,
                                           ![job[p].user].onboarded = TRUE]
             /\ NoteCrossing(p)
      BY <1>2 DEF WriteProfile
    <2>5. \A u \in Users \ {job[p].user} : profile'[u] = profile[u]
      BY <2>4 DEF Inv, TypeInv, RowsOK
    <2>6. profile' = profile \/ profile'[job[p].user].made
      BY <2>2, <2>4 DEF Inv, TypeInv, RowsOK, Profiles
    <2> QED BY <2>1, <2>2, <2>3, <2>4, <2>5, <2>6
  <1> QED BY <1>1, <1>2

LEMMA ProfileStays ==
    ASSUME Inv, ProfileInv, NEW p \in Requests, Arrive(p) \/ Step(p) \/ End(p)
    PROVE  /\ ProfileInv'
           /\ \A u \in Users : profile[u].onboarded /\ u \notin crossed' => profile'[u] = profile[u]
  <1> USE DEF Inv
  <1>0. \A q \in Requests : /\ job[q].at \in {"save", "write"} =>
                                 job[q].user \in Users /\ profile[job[q].user].made
    BY DEF TypeInv, JobsOK, SoundInv, JobOK, Sound, PointsOf, Jobs, Kinds
  <1>1. /\ \A q \in Requests \ {p} : job'[q] = job[q]
        /\ job'[p].at = "save" => ReadForAvatar(p)
        /\ job'[p].at = "write" => ReadProfile(p)
    BY Course
  \* What p has just read.
  <1>2. job'[p].at \in {"save", "write"} =>
           /\ profile' = profile
           /\ job'[p].at = "save" => job'[p].seen = profile[job'[p].user]
           /\ job'[p].at = "write" => ~profile[job'[p].user].onboarded
    BY <1>1 DEF ReadForAvatar, ReadProfile, Move, Finish, Silent, rows, TypeInv, JobsOK, JobOK, Jobs, Idle
  <1>3. CASE profile' = profile /\ crossed' = crossed
    BY <1>1, <1>2, <1>3 DEF ProfileInv
  <1>4. CASE \E u \in Users : ~profile[u].made /\ profile' = MadeToo(u) /\ crossed' = crossed
    <2>1. PICK u \in Users : ~profile[u].made /\ profile' = MadeToo(u) /\ crossed' = crossed
      BY <1>4
    <2>2. /\ \A x \in Users \ {u} : profile'[x] = profile[x]
          /\ profile'[u].made /\ profile'[u].onboarded = profile[u].onboarded
          /\ profile' # profile
      BY <2>1 DEF MadeToo, TypeInv, RowsOK, Profiles
    <2> QED BY <1>0, <1>1, <1>2, <2>1, <2>2 DEF ProfileInv
  <1>5. CASE SaveAvatar(p) \/ WriteProfile(p)
    <2> DEFINE u == job[p].user
    <2>1. /\ u \in Users
          /\ \A x \in Users \ {u} : profile'[x] = profile[x]
          /\ \/ profile' = profile /\ crossed' = crossed
             \/ profile'[u].made /\ NoteCrossing(p)
          /\ WriteProfile(p) => profile' = profile \/ job[p].at = "write"
          /\ SaveAvatar(p) => /\ job[p].at = "save"
                              /\ profile' = profile \/ profile'[u] = job[p].seen
      BY <1>5, WritersCross
    <2>2. CASE profile'[u].made /\ NoteCrossing(p)
      <3>1. \A q \in Requests \ {p} : job[q].at \in {"save", "write"} /\ job[q].user = u => u \in crossed'
        BY <2>2 DEF NoteCrossing, ProfileRead
      <3>2. crossed \subseteq crossed'
        BY <2>2 DEF NoteCrossing
      <3>3. \A x \in Users : profile'[x].onboarded => profile'[x].made
        BY <2>1, <2>2 DEF ProfileInv
      <3>4. job'[p].at \notin {"save", "write"}
        BY <1>1, <2>1, <1>5 DEF ReadForAvatar, ReadProfile, SaveAvatar, WriteProfile
      <3>5. \A q \in Requests : job'[q].user \notin crossed' =>
               /\ job'[q].at = "save" => job'[q].seen = profile'[job'[q].user]
               /\ job'[q].at = "write" => ~profile'[job'[q].user].onboarded
        BY <1>0, <1>1, <2>1, <3>1, <3>2, <3>4 DEF ProfileInv
      <3>6. profile[u].onboarded /\ u \notin crossed' => profile'[u] = profile[u]
        BY <1>5, <2>1, <3>2 DEF ProfileInv
      <3> QED BY <2>1, <3>3, <3>5, <3>6 DEF ProfileInv
    <2> QED BY <1>3, <2>1, <2>2
  <1> QED BY <1>3, <1>4, <1>5, ProfilesMove

\* An account is onboarded once: what is written over it had been read before.
THEOREM OnboardedOnce == Spec => OnboardingStays
  <1>1. Init => ProfileInv
    <2> SUFFICES ASSUME Init PROVE ProfileInv
      OBVIOUS
    <2>1. \A u \in Users : ~[NoRow EXCEPT !.made = Known(u) \union Addresses(u) # {}].onboarded
      BY DEF NoRow
    <2>2. \A u \in Users : ~profile[u].onboarded
      BY <2>1 DEF Init
    <2>3. \A p \in Requests : job[p].at = "idle"
      BY IdleOK DEF Init
    <2> QED BY <2>2, <2>3 DEF ProfileInv
  <1>2. ASSUME Inv, ProfileInv, [Next]_vars
        PROVE  /\ ProfileInv'
               /\ [\A u \in Users : profile[u].onboarded /\ u \notin crossed' => profile'[u] = profile[u]]_vars
    <2>1. CASE \E p \in Requests : Arrive(p) \/ Step(p) \/ End(p)
      BY <1>2, <2>1, ProfileStays
    <2>2. CASE UNCHANGED <<profile, job, crossed>>
      BY <1>2, <2>2 DEF ProfileInv
    <2> QED BY <1>2, <2>1, <2>2 DEF Next, Expire, vars
  <1> QED BY <1>1, <1>2, SpecInv, PTL DEF Spec, OnboardingStays

-----------------------------------------------------------------------------
(* Refresh tokens                                                          *)

Active(t, f)    == token[t].state = "active" /\ token[t].from = f
Refreshes(p, f) == job[p].kind = "refresh" /\ token[job[p].from].from = f

\* Of a login that was not refreshed twice at once: one token is active, one request
\* refreshes it, and it has the active one until it has spent it.
OneTokenInv(f) ==
    /\ \A s, t \in Tokens : Active(s, f) /\ Active(t, f) => s = t
    /\ \A p, q \in Requests : Refreshes(p, f) /\ Refreshes(q, f) => p = q
    /\ \A p \in Requests, t \in Tokens :
          Refreshes(p, f) /\ Active(t, f) => job[p].at = "spend" /\ job[p].from = t

TokenInv ==
    /\ \A t \in Tokens : token[t].state # "none" => token[token[t].from].state # "none"
    /\ \A f \in Tokens \ overlapped : OneTokenInv(f)

\* No token is made and none becomes active again.
Thins == \A t \in Tokens : /\ token'[t].from = token[t].from
                           /\ token'[t].state = "none" <=> token[t].state = "none"
                           /\ token'[t].state = "active" => token[t].state = "active"

LEMMA TokensMove ==
    ASSUME Inv, NEW p \in Requests, Arrive(p) \/ Step(p) \/ End(p)
    PROVE  /\ GenerateRefreshToken(p) \/ Thins
           /\ RefreshToken(p) \/ overlapped' = overlapped
  <1>1. CASE GenerateRefreshToken(p)
    <2>1. overlapped' = overlapped
      BY <1>1 DEF GenerateRefreshToken
    <2> QED BY <1>1, <2>1
  <1>2. CASE Spend(p)
    <2>0. job[p].from \in Tokens
      <3>1. JobOK(job[p]) /\ job[p].at = "spend"
        BY <1>2 DEF Spend, Inv, TypeInv, JobsOK
      <3> QED BY <3>1 DEF JobOK, PointsOf, Jobs, Kinds
    <2>1. /\ overlapped' = overlapped
          /\ token' = token \/ token' = [token EXCEPT ![job[p].from].state = "spent"]
      BY <1>2 DEF Spend
    <2>2. CASE token' = [token EXCEPT ![job[p].from].state = "spent"] /\ token[job[p].from].state = "active"
      <3>1. /\ \A t \in Tokens : t # job[p].from => token'[t] = token[t]
            /\ token'[job[p].from] = [token[job[p].from] EXCEPT !.state = "spent"]
        BY <2>0, <2>2 DEF Inv, TypeInv, RowsOK
      <3>2. /\ token'[job[p].from].state = "spent"
            /\ token'[job[p].from].from = token[job[p].from].from
        BY <2>0, <3>1 DEF Inv, TypeInv, RowsOK, TokenRows
      <3> QED BY <2>1, <2>2, <3>1, <3>2 DEF Thins
    <2>3. CASE token' = token
      BY <2>1, <2>3 DEF Thins
    <2> QED BY <1>2, <2>2, <2>3 DEF Spend
  <1>3. CASE DeleteExpiredRefreshTokens(p)
    <2>1. token' = [t \in Tokens |-> IF token[t].state = "spent"
                                      THEN [token[t] EXCEPT !.state = "gone"] ELSE token[t]]
      BY <1>3 DEF DeleteExpiredRefreshTokens
    <2>2. \A t \in Tokens : token'[t] = IF token[t].state = "spent"
                                        THEN [token[t] EXCEPT !.state = "gone"] ELSE token[t]
      BY <2>1
    <2>3. Thins
      BY <2>2 DEF Thins, Inv, TypeInv, RowsOK, TokenRows
    <2> QED BY <1>3, <2>3 DEF DeleteExpiredRefreshTokens
  <1>4. CASE Arrive(p)
    <2>2. token' = token \/ \E t \in Tokens : token' = [token EXCEPT ![t].state = "spent"] /\ token[t].state = "active"
      BY <1>4 DEF Arrive, Login, LinkAccount, FindOrCreateByEmail, Onboarding, InternalAPITokenLogin,
           Ask, RefreshToken, Logout, rows
    <2>3. Thins
      BY <2>2 DEF Thins, Inv, TypeInv, RowsOK, TokenRows
    <2>4. RefreshToken(p) \/ overlapped' = overlapped
      BY <1>4 DEF Arrive, Login, LinkAccount, FindOrCreateByEmail, Onboarding, InternalAPITokenLogin,
           Ask, Logout
    <2> QED BY <2>3, <2>4
  <1>5. CASE ~(Spend(p) \/ DeleteExpiredRefreshTokens(p) \/ GenerateRefreshToken(p) \/ Arrive(p))
    <2>1. token' = token /\ overlapped' = overlapped
      BY <1>5 DEF Step, End, FindByProvider, LockEmail, Decide, Attach, StartAccount, UpsertEmail, CommitAccount,
             Recover, OfferBinding, ReadForAvatar, SaveAvatar, VerifyExisting, Confirm,
             LookupEmail, ReserveId, RegisterEmail, ReadProfile, WriteProfile, Silent, rows
    <2> QED BY <1>5, <2>1 DEF Thins
  <1> QED BY <1>1, <1>2, <1>3, <1>4, <1>5

\* Where a request that refreshes comes from.
LEMMA RefreshCourse ==
    ASSUME Inv, NEW p \in Requests, Arrive(p) \/ Step(p) \/ End(p), ~RefreshToken(p),
           job'[p].kind = "refresh"
    PROVE  /\ job[p].kind = "refresh" /\ job'[p].from = job[p].from
           /\ job[p].at = "spend" => Spend(p)
  <1>1. Keeps(job[p], job'[p])
    BY Course, IdleOK DEF Inv
  <1>2. job[p].at = "spend" /\ job'[p] # Idle => Spend(p)
    BY IdleOK DEF Arrive, Step, End, Finish, FindByProvider, LockEmail, Decide, Attach, StartAccount, UpsertEmail,
           CommitAccount, Recover, OfferBinding, ReadForAvatar, SaveAvatar, VerifyExisting, Confirm,
           DeleteExpiredRefreshTokens, GenerateRefreshToken, LookupEmail, ReserveId, RegisterEmail,
           ReadProfile, WriteProfile, Inv, TypeInv, JobsOK
  <1> QED BY <1>1, <1>2, IdleOK DEF Keeps

\* When nothing is made or refreshed anew.
LEMMA ThinStep ==
    ASSUME Inv, TokenInv, NEW p \in Requests, Arrive(p) \/ Step(p) \/ End(p),
           ~RefreshToken(p), Thins
    PROVE  TokenInv'
  <1>0. overlapped' = overlapped \/ GenerateRefreshToken(p)
    BY TokensMove
  <1>a. overlapped' = overlapped
    BY <1>0 DEF GenerateRefreshToken
  <1>b. \A q \in Requests : job[q].kind = "refresh" => job[q].from \in Tokens
    BY DEF Inv, TypeInv, JobsOK, JobOK
  <1>c. \A q \in Requests \ {p} : job'[q] = job[q]
    BY Course DEF Inv
  <1>d. \A t \in Tokens : token[t].state # "none" => token[t].from \in Tokens
    BY DEF Inv, SoundInv, Rooted
  <1>1. \A t \in Tokens : token'[t].state # "none" => token'[token'[t].from].state # "none"
    BY <1>d DEF TokenInv, Thins
  <1>2. ASSUME NEW f \in Tokens \ overlapped PROVE OneTokenInv(f)'
    <2>0. OneTokenInv(f)
      BY DEF TokenInv
    <2>1. ASSUME NEW t \in Tokens, Active(t, f)' PROVE Active(t, f)
      BY <2>1 DEF Active, Thins
    <2>2. ASSUME NEW q \in Requests, Refreshes(q, f)'
          PROVE  Refreshes(q, f) /\ (q = p => job'[p].from = job[p].from /\ (job[p].at = "spend" => Spend(p)))
      <3>1. CASE q = p
        <4>1. /\ job[p].kind = "refresh" /\ job'[p].from = job[p].from
              /\ job[p].at = "spend" => Spend(p)
          BY <2>2, <3>1, RefreshCourse DEF Refreshes
        <4> QED BY <1>b, <2>2, <3>1, <4>1 DEF Refreshes, Thins
      <3>2. CASE q # p
        BY <1>b, <1>c, <2>2, <3>2 DEF Refreshes, Thins
      <3> QED BY <3>1, <3>2
    <2>3. ASSUME NEW q \in Requests, NEW t \in Tokens, Refreshes(q, f)', Active(t, f)'
          PROVE  job'[q].at = "spend" /\ job'[q].from = t
      <3>1. job[q].at = "spend" /\ job[q].from = t
        BY <2>0, <2>1, <2>2, <2>3 DEF OneTokenInv
      <3>2. CASE q # p
        BY <1>c, <3>1, <3>2
      <3>3. CASE q = p
        <4>1. Spend(p)
          BY <2>2, <2>3, <3>1, <3>3
        <4>2. token'[t].state # "active"
          <5>1. CASE token[t].state = "active"
            <6>1. token' = [token EXCEPT ![t].state = "spent"]
              BY <3>1, <3>3, <4>1, <5>1 DEF Spend
            <6> QED BY <6>1 DEF Inv, TypeInv, RowsOK, TokenRows
          <5>2. CASE token[t].state # "active"
            BY <5>2 DEF Thins
          <5> QED BY <5>1, <5>2
        <4> QED BY <2>3, <4>2 DEF Active
      <3> QED BY <3>2, <3>3
    <2> QED BY <2>0, <2>1, <2>2, <2>3 DEF OneTokenInv
  <1> QED BY <1>a, <1>1, <1>2 DEF TokenInv

\* Of the login whose token is refreshed nobody else refreshes one, or it is exempt.
LEMMA AnewStep ==
    ASSUME Inv, TokenInv, NEW p \in Requests, RefreshToken(p)
    PROVE  TokenInv'
  <1>1. PICK t \in Tokens :
           /\ token[t].state = "active"
           /\ job' = [job EXCEPT ![p] = [Idle EXCEPT !.kind = "refresh", !.at = "spend",
                                                    !.user = token[t].user, !.from = t]]
           /\ overlapped' = IF \E q \in Requests : job[q].at = "spend" /\ job[q].from = t
                            THEN overlapped \union {token[t].from} ELSE overlapped
           /\ token' = token
    BY DEF RefreshToken, rows
  <1> DEFINE j == [Idle EXCEPT !.kind = "refresh", !.at = "spend", !.user = token[t].user, !.from = t]
  <1>2. j.kind = "refresh" /\ j.at = "spend" /\ j.from = t
    BY DEF Idle
  <1>3. job'[p] = j /\ \A q \in Requests \ {p} : job'[q] = job[q]
    BY <1>1 DEF Inv, TypeInv, JobsOK
  <1> HIDE DEF j
  <1>4. ASSUME NEW f \in Tokens \ overlapped' PROVE OneTokenInv(f)'
    <2>0. OneTokenInv(f)
      BY <1>1 DEF TokenInv
    <2>1. CASE token[t].from = f
      \* Whoever refreshes it already would have the same token to spend.
      <3>1. Active(t, f)
        BY <1>1, <2>1 DEF Active
      <3>2. ASSUME NEW q \in Requests, Refreshes(q, f) PROVE FALSE
        <4>1. job[q].at = "spend" /\ job[q].from = t
          BY <2>0, <3>1, <3>2 DEF OneTokenInv
        <4> QED BY <1>1, <1>4, <2>1, <4>1
      <3>3. \A q \in Requests : Refreshes(q, f)' => q = p
        BY <1>1, <1>3, <3>2 DEF Refreshes
      <3>4. \A s \in Tokens : Active(s, f)' => s = t
        BY <1>1, <2>0, <3>1 DEF OneTokenInv, Active
      <3> QED BY <1>2, <1>3, <3>3, <3>4 DEF OneTokenInv
    <2>2. CASE token[t].from # f
      <3>1. \A q \in Requests : Refreshes(q, f)' => q # p /\ Refreshes(q, f)
        BY <1>1, <1>2, <1>3, <2>2 DEF Refreshes
      <3>2. \A s \in Tokens : Active(s, f)' <=> Active(s, f)
        BY <1>1 DEF Active
      <3> QED BY <1>3, <2>0, <3>1, <3>2 DEF OneTokenInv
    <2> QED BY <2>1, <2>2
  <1>5. \A s \in Tokens : token'[s].state # "none" => token'[token'[s].from].state # "none"
    BY <1>1 DEF TokenInv
  <1> QED BY <1>4, <1>5 DEF TokenInv

\* The new token is the only active one of its login.
LEMMA IssueStep ==
    ASSUME Inv, TokenInv, NEW p \in Requests, GenerateRefreshToken(p)
    PROVE  TokenInv'
  <1> DEFINE J == job[p]
  <1>0. JobOK(J) /\ Sound(J) /\ J.at = "issue"
    BY DEF Inv, TypeInv, JobsOK, SoundInv, GenerateRefreshToken
  <1>1. PICK t \in NewToken :
           token' = [token EXCEPT ![t] =
              [user |-> J.user, state |-> "active", via |-> Via(J),
               from |-> IF J.kind = "refresh" THEN token[J.from].from ELSE t]]
    BY DEF GenerateRefreshToken
  <1>2. t \in Tokens /\ token[t].state = "none"
    BY DEF NewToken
  <1>3. PICK g : g = IF J.kind = "refresh" THEN token[J.from].from ELSE t
    OBVIOUS
  <1>4. /\ \A s \in Tokens \ {t} : token'[s] = token[s]
        /\ token'[t].state = "active" /\ token'[t].from = g
    BY <1>1, <1>2, <1>3 DEF Inv, TypeInv, RowsOK
  <1>5. job'[p] = Idle /\ \A q \in Requests \ {p} : job'[q] = job[q]
    BY DEF GenerateRefreshToken, Finish, Inv, TypeInv, JobsOK
  <1>6. overlapped' = overlapped
    BY DEF GenerateRefreshToken
  \* No token that is there descends from the new one, no request refreshes it.
  <1>7. /\ \A s \in Tokens : token[s].state # "none" => token[s].from \in Tokens \ {t}
        /\ \A q \in Requests : job[q].kind = "refresh" =>
              job[q].from \in Tokens \ {t} /\ token[job[q].from].state # "none"
    <2>1. \A s \in Tokens : token[s].state # "none" => token[s].from \in Tokens
      BY DEF Inv, SoundInv, Rooted
    <2>2. \A s \in Tokens : token[s].state # "none" => token[s].from # t
      BY <1>2 DEF TokenInv
    <2>3. \A q \in Requests : job[q].kind = "refresh" =>
             job[q].from \in Tokens /\ token[job[q].from].state # "none"
      BY DEF Inv, TypeInv, JobsOK, JobOK, SoundInv, Sound
    <2> QED BY <1>2, <2>1, <2>2, <2>3
  <1>8. \A s \in Tokens : token'[s].state # "none" => token'[token'[s].from].state # "none"
    <2>1. g = t \/ (g \in Tokens \ {t} /\ token[g].state # "none")
      BY <1>0, <1>3, <1>7 DEF TokenInv
    <2> QED BY <1>4, <1>7, <2>1 DEF TokenInv
  <1>9. ASSUME NEW f \in Tokens \ overlapped PROVE OneTokenInv(f)'
    <2>0. OneTokenInv(f)
      BY DEF TokenInv
    <2>1. ASSUME NEW q \in Requests, Refreshes(q, f)' PROVE q # p /\ Refreshes(q, f)
      <3>1. q # p
        BY <1>5, <2>1, IdleOK DEF Refreshes
      <3> QED BY <1>4, <1>5, <1>7, <2>1, <3>1 DEF Refreshes
    <2>2. \A s \in Tokens \ {t} : Active(s, f)' <=> Active(s, f)
      BY <1>4 DEF Active
    <2>3. CASE f # g
      <3>1. ~Active(t, f)'
        BY <1>4, <2>3 DEF Active
      <3> QED BY <1>5, <2>0, <2>1, <2>2, <3>1 DEF OneTokenInv
    <2>4. CASE f = g
      <3>1. /\ \A s \in Tokens : ~Active(s, f)
            /\ \A q \in Requests \ {p} : ~Refreshes(q, f)
        <4>1. CASE J.kind = "refresh"
          <5>1. Refreshes(p, f)
            BY <1>3, <2>4, <4>1 DEF Refreshes
          <5> QED BY <1>0, <2>0, <5>1 DEF OneTokenInv
        <4>2. CASE J.kind # "refresh"
          <5>1. f = t
            BY <1>3, <2>4, <4>2
          <5>2. \A s \in Tokens : ~Active(s, f)
            BY <1>7, <5>1 DEF Active
          <5>3. \A q \in Requests : ~Refreshes(q, f)
            BY <1>7, <5>1 DEF Refreshes
          <5> QED BY <5>2, <5>3
        <4> QED BY <4>1, <4>2
      <3> QED BY <2>1, <2>2, <3>1 DEF OneTokenInv
    <2> QED BY <2>3, <2>4
  <1> QED BY <1>6, <1>8, <1>9 DEF TokenInv

LEMMA TokenStays == Inv /\ TokenInv /\ [Next]_vars => TokenInv'
  <1> SUFFICES ASSUME Inv, TokenInv, [Next]_vars PROVE TokenInv'
    OBVIOUS
  <1>1. CASE \E p \in Requests : Arrive(p) \/ Step(p) \/ End(p)
    BY <1>1, TokensMove, ThinStep, AnewStep, IssueStep
  <1>2. CASE \E t \in Tokens : Expire(t)
    <2>1. PICK t \in Tokens : /\ token' = [token EXCEPT ![t].state = "spent"]
                             /\ token[t].state = "active"
                             /\ UNCHANGED <<job, overlapped>>
      BY <1>2 DEF Expire
    <2>2. Thins
      BY <2>1 DEF Thins, Inv, TypeInv, RowsOK, TokenRows
    <2>3. /\ \A s \in Tokens : token[s].state # "none" => token[s].from \in Tokens
          /\ \A q \in Requests : job[q].kind = "refresh" => job[q].from \in Tokens
      BY DEF Inv, SoundInv, Rooted, TypeInv, JobsOK, JobOK
    <2>4. \A s \in Tokens : token'[s].state # "none" => token'[token'[s].from].state # "none"
      BY <2>2, <2>3 DEF TokenInv, Thins
    <2>5. ASSUME NEW f \in Tokens \ overlapped PROVE OneTokenInv(f)'
      <3>1. OneTokenInv(f)
        BY DEF TokenInv
      <3>2. \A s \in Tokens : Active(s, f)' => Active(s, f)
        BY <2>2 DEF Thins, Active
      <3>3. \A q \in Requests : Refreshes(q, f)' => Refreshes(q, f)
        BY <2>1, <2>2, <2>3 DEF Thins, Refreshes
      <3> QED BY <2>1, <3>1, <3>2, <3>3 DEF OneTokenInv
    <2> QED BY <2>1, <2>4, <2>5 DEF TokenInv
  <1>3. CASE UNCHANGED <<token, job, overlapped>>
    BY <1>3 DEF TokenInv, OneTokenInv, Active, Refreshes
  <1> QED BY <1>1, <1>2, <1>3 DEF Next, vars

\* Of each login one refresh token is active, unless one of them was refreshed twice
\* at once: between the statements of a refresh none is.
THEOREM OneToken == Spec => []OneTokenPerLogin
  <1>1. Init => TokenInv
    <2> SUFFICES ASSUME Init PROVE TokenInv
      OBVIOUS
    <2>1. \A t \in Tokens : token[t].state = "none"
      BY DEF Init, NoToken
    <2>2. \A p \in Requests : job[p].kind = "none"
      BY IdleOK DEF Init
    <2> QED BY <2>1, <2>2 DEF TokenInv, OneTokenInv, Active, Refreshes
  <1>2. TokenInv => OneTokenPerLogin
    BY DEF TokenInv, OneTokenInv, Active, OneTokenPerLogin
  <1> QED BY <1>1, <1>2, TokenStays, SpecInv, PTL DEF Spec
=============================================================================
