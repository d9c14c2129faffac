------------------------------ MODULE Accounts ------------------------------
(***************************************************************************)
(* Accounts, the identities and e-mail addresses they are entered by, and  *)
(* the refresh tokens of their sessions (internal/user, internal/auth,     *)
(* internal/jwt).                                                          *)
(*                                                                         *)
(* A login, a link confirmation, an onboarding or a refresh is a sequence  *)
(* of statements that interleaves with the others and may end at any of    *)
(* them.  Two stretches are transactions: the resolution of an e-mail      *)
(* address, which holds the lock of its row, and the creation of an        *)
(* account, whose rows others cannot see but have to wait for.             *)
(***************************************************************************)
EXTENDS Naturals, FiniteSets

CONSTANTS
    Users,          \* account ids
    Identities,     \* pairs of a provider and an id there
    Emails, Names,  \* addresses, and usernames to choose
    Requests,       \* the requests the server can be serving at a time
    NoUser, NoEmail, NoIdentity, NoName,
    Logins,         \* the addresses an identity may come with, NoEmail for none
    Configured,     \* the addresses the setup makes accounts for, with their ids
    Allowed,        \* the addresses onboarding is open to
    Before,         \* the accounts of earlier releases: owner and mail
    MaxRequests     \* bound: requests ever made, and with them refresh tokens

Tokens == 1 .. MaxRequests

ASSUME AccountsAssumption ==
    /\ NoUser \notin Users /\ NoEmail \notin Emails /\ NoIdentity \notin Identities
    /\ NoName \notin Names /\ MaxRequests \in Nat
    /\ IsFiniteSet(Emails)
    /\ Logins \subseteq Identities \X (Emails \union {NoEmail})
    /\ Configured \subseteq Emails \X (Users \union {NoUser})
    /\ Allowed \subseteq Emails
    /\ Before \in [owner : [Identities -> Users \union {NoUser}],
                   mail : [Emails -> Users \union {NoUser}]]

VARIABLES
    profile,    \* the row of users: whether it is there, its username and is_onboarded
    owner,      \* the row of auth of each identity: its account
    mail,       \* the row of user_emails of each address: its account
    token,      \* the rows of refresh_tokens, and the login each one descends from
    link,       \* the link tokens handed out: JWTs, valid until they expire
    job,        \* what each request is doing
    asked,      \* the requests there have been (bound only)
    crossed,    \* history only: accounts written by a request that had read an older row
    overlapped  \* history only: logins of which one token was refreshed twice at once

vars == <<profile, owner, mail, token, link, job, asked, crossed, overlapped>>
rows == <<profile, owner, mail, token, link>>

Registry == INSTANCE AccountRegistry WITH
    made   <- {u \in Users : profile[u].made},
    offers <- {<<l.id, l.user>> : l \in link}

-----------------------------------------------------------------------------
(* Rows                                                                    *)

NoRow    == [made |-> FALSE, username |-> NoName, onboarded |-> FALSE]
Profiles == [made : BOOLEAN, username : Names \union {NoName}, onboarded : BOOLEAN]
NoToken  == [user |-> NoUser, state |-> "none", from |-> 0, via |-> {}]
TokenRows == [user : Users \union {NoUser}, state : {"none", "active", "spent", "gone"},
              from : 0 .. MaxRequests, via : SUBSET Identities]
LinkTokens == [id : Identities, existing : Identities, user : Users]

Known(u)     == {i \in Identities : owner[i] = u}
Addresses(u) == {e \in Emails : mail[e] = u}

\* Ids are random, but for those the configuration names.
Fresh == LET unused == {u \in Users : ~profile[u].made
                                      /\ \A e \in Emails : <<e, u>> \notin Configured}
         IN  IF unused = {} THEN {} ELSE {CHOOSE u \in unused : TRUE}

Idle == [kind |-> "none", at |-> "idle", id |-> NoIdentity, existing |-> NoIdentity,
         email |-> NoEmail, user |-> NoUser, again |-> FALSE, seen |-> NoRow,
         name |-> NoName, from |-> 0]
Kinds  == {"none", "login", "link", "provide", "onboard", "refresh", "internal"}
Points == {"idle", "find", "lock", "decide", "attach", "create", "upsert", "insert",
           "recover", "bind", "finish", "save", "verify", "confirm", "spend",
           "sweep", "issue", "lookup", "reserve", "register", "read", "write"}
Jobs == [kind : Kinds, at : Points, id : Identities \union {NoIdentity},
         existing : Identities \union {NoIdentity}, email : Emails \union {NoEmail},
         user : Users \union {NoUser}, again : BOOLEAN, seen : Profiles,
         name : Names \union {NoName}, from : 0 .. MaxRequests]

Move(p, point)     == job' = [job EXCEPT ![p].at = point]
Enter(p, point, u) == job' = [job EXCEPT ![p].at = point, ![p].user = u]
Finish(p)          == job' = [job EXCEPT ![p] = Idle]

\* Mutant: the row of the address is read without FOR UPDATE.
EmailLocked_Never(p, e) == FALSE

\* Another transaction holds the row of the address.
EmailLocked(p, e) == \E q \in Requests \ {p} : job[q].email = e
                                               /\ job[q].at \in {"decide", "attach"}

\* Another transaction has inserted the address and not committed.
EmailPending(p, e) == \E q \in Requests \ {p} : job[q].email = e /\ job[q].at = "insert"

\* Another request has read the row of u and is about to write it.
ProfileRead(p, u) == \E q \in Requests \ {p} : job[q].user = u
                                               /\ job[q].at \in {"save", "write"}

Silent == UNCHANGED <<rows, asked, crossed, overlapped>>

-----------------------------------------------------------------------------
(* Requests                                                                *)

Ask(p, j) == /\ asked' = asked + 1
             /\ job' = [job EXCEPT ![p] = j]
             /\ UNCHANGED <<rows, crossed, overlapped>>

\* The callback of a provider: who has logged in there, and the address it vouches for.
Login(p) == \E i \in Identities, e \in Emails \union {NoEmail} :
    /\ <<i, e>> \in Logins
    /\ Ask(p, [Idle EXCEPT !.kind = "login", !.at = "find", !.id = i, !.email = e])

\* The owner confirms the binding the callback has offered.
LinkAccount(p) == \E l \in link :
    Ask(p, [Idle EXCEPT !.kind = "link", !.at = "verify", !.id = l.id,
                        !.existing = l.existing, !.user = l.user])

\* The setup of a server that starts, beside those that run.
FindOrCreateByEmail(p) == \E e \in Emails, u \in Users \union {NoUser} :
    /\ <<e, u>> \in Configured
    /\ Ask(p, [Idle EXCEPT !.kind = "provide", !.at = "lookup", !.email = e, !.user = u])

Onboarding(p) == \E u \in Users, m \in Names :
    /\ profile[u].made
    /\ Ask(p, [Idle EXCEPT !.kind = "onboard", !.at = "read", !.user = u, !.name = m])

InternalAPITokenLogin(p) == \E u \in Users :
    /\ profile[u].made
    /\ Ask(p, [Idle EXCEPT !.kind = "internal", !.at = "sweep", !.user = u])

\* RefreshToken reads the token of the cookie; of an inactive one it makes nothing.
RefreshToken(p) == \E t \in Tokens :
    /\ token[t].state = "active"
    /\ asked' = asked + 1
    /\ job' = [job EXCEPT ![p] = [Idle EXCEPT !.kind = "refresh", !.at = "spend",
                                              !.user = token[t].user, !.from = t]]
    /\ overlapped' = IF \E q \in Requests : job[q].at = "spend" /\ job[q].from = t
                     THEN overlapped \union {token[t].from} ELSE overlapped
    /\ UNCHANGED <<rows, crossed>>

\* One statement, and the answer.
Logout(p) == \E t \in Tokens :
    /\ token[t].state = "active"
    /\ asked' = asked + 1
    /\ token' = [token EXCEPT ![t].state = "spent"]
    /\ UNCHANGED <<profile, owner, mail, link, job, crossed, overlapped>>

Arrive(p) ==
    /\ job[p] = Idle /\ asked < MaxRequests
    /\ \/ Login(p) \/ LinkAccount(p) \/ FindOrCreateByEmail(p) \/ Onboarding(p)
       \/ InternalAPITokenLogin(p) \/ RefreshToken(p) \/ Logout(p)

-----------------------------------------------------------------------------
(* Login: FindOrCreate                                                     *)

FindByProvider(p) ==
    LET j == job[p] IN
    /\ j.at = "find"
    /\ IF owner[j.id] # NoUser THEN Enter(p, "sweep", owner[j.id])
       ELSE Move(p, IF j.email = NoEmail THEN "create" ELSE "lock")
    /\ Silent

\* SELECT ... FOR UPDATE of the row of the address; nothing is waited for when the
\* row is not there or not committed yet.  A login that comes here again, from a
\* conflict, has found the address and with it the account to fall back on.
LockEmail(p) ==
    LET j == job[p] IN
    /\ j.at = "lock" /\ ~EmailLocked(p, j.email)
    /\ IF mail[j.email] # NoUser THEN Enter(p, "decide", mail[j.email])
       ELSE Move(p, IF j.again THEN "sweep" ELSE "create")
    /\ Silent

\* With the earliest identity of the account, whichever it is: the login is its own,
\* needs a confirmation, or enters the account at once.
Decide(p) ==
    LET j == job[p] IN
    /\ j.at = "decide"
    /\ IF Known(j.user) = {} THEN Move(p, "attach")
       ELSE \E x \in Known(j.user) :
              IF x = j.id THEN Move(p, "sweep")
              ELSE IF Cardinality(Addresses(j.user)) <= 1
                   THEN job' = [job EXCEPT ![p].at = "bind", ![p].existing = x]
                   ELSE Move(p, "attach")
    /\ Silent

\* INSERT INTO auth and the commit, or the unique violation.
Attach(p) ==
    LET j == job[p] IN
    /\ j.at = "attach"
    /\ IF owner[j.id] = NoUser
       THEN owner' = [owner EXCEPT ![j.id] = j.user] /\ Move(p, "sweep")
       ELSE Move(p, "recover") /\ UNCHANGED owner
    /\ UNCHANGED <<profile, mail, token, link, asked, crossed, overlapped>>

\* createOAuth: the row of users, which nobody sees before the commit, and the check
\* that the address is free.
StartAccount(p) ==
    LET j == job[p] IN
    /\ j.at = "create" /\ ~EmailLocked(p, j.email)
    /\ Move(p, IF j.email = NoEmail THEN "insert"
               ELSE IF mail[j.email] = NoUser THEN "upsert" ELSE "recover")
    /\ Silent

\* INSERT ... ON CONFLICT waits for an insert of the same address, and then finds
\* whose it is.
UpsertEmail(p) ==
    LET j == job[p] IN
    /\ j.at = "upsert" /\ ~EmailPending(p, j.email) /\ ~EmailLocked(p, j.email)
    /\ Move(p, IF mail[j.email] = NoUser THEN "insert" ELSE "recover")
    /\ Silent

\* The row of auth; with the commit the account is there, with its address.
CommitAccount(p) ==
    LET j == job[p] IN
    /\ j.at = "insert"
    /\ IF owner[j.id] = NoUser
       THEN \E u \in Fresh :
              /\ profile' = [profile EXCEPT ![u].made = TRUE]
              /\ owner' = [owner EXCEPT ![j.id] = u]
              /\ mail' = IF j.email = NoEmail THEN mail ELSE [mail EXCEPT ![j.email] = u]
              /\ Enter(p, "finish", u)
       ELSE Move(p, "recover") /\ UNCHANGED <<profile, owner, mail>>
    /\ UNCHANGED <<token, link, asked, crossed, overlapped>>

\* Mutant: the owner of the address is taken for the account of the login.
Recover_TakesOwner(p) ==
    LET j == job[p] IN
    /\ j.at = "recover"
    /\ IF j.email # NoEmail /\ mail[j.email] # NoUser THEN Enter(p, "sweep", mail[j.email])
       ELSE IF owner[j.id] # NoUser THEN Enter(p, "sweep", owner[j.id])
       ELSE Finish(p)
    /\ Silent

\* Mutant: the address is looked up first.
Recover_EmailFirst(p) ==
    LET j == job[p] IN
    /\ j.at = "recover"
    /\ IF j.email # NoEmail /\ mail[j.email] # NoUser
       THEN job' = [job EXCEPT ![p].at = "lock", ![p].user = mail[j.email], ![p].again = TRUE]
       ELSE IF owner[j.id] # NoUser THEN Enter(p, "sweep", owner[j.id])
       ELSE Finish(p)
    /\ Silent

\* After a conflict: the account of the identity, or the address is resolved again.
Recover(p) ==
    LET j == job[p] IN
    /\ j.at = "recover"
    /\ IF owner[j.id] # NoUser THEN Enter(p, "sweep", owner[j.id])
       ELSE IF j.email # NoEmail /\ mail[j.email] # NoUser
       THEN job' = [job EXCEPT ![p].at = "lock", ![p].user = mail[j.email], ![p].again = TRUE]
       ELSE Finish(p)
    /\ Silent

\* No session, but a link token: the account asks its owner first.
OfferBinding(p) ==
    LET j == job[p] IN
    /\ j.at = "bind"
    /\ link' = link \union {[id |-> j.id, existing |-> j.existing, user |-> j.user]}
    /\ Finish(p)
    /\ UNCHANGED <<profile, owner, mail, token, asked, crossed, overlapped>>

\* finishSignup downloads the picture, reads the row and writes all of it back; a
\* login without a picture, or whose picture fails, writes nothing.
ReadForAvatar(p) ==
    /\ job[p].at = "finish"
    /\ \/ job' = [job EXCEPT ![p].at = "save", ![p].seen = profile[job[p].user]]
       \/ Move(p, "sweep")
    /\ Silent

NoteCrossing(p) == LET u == job[p].user IN
    crossed' = IF ProfileRead(p, u) THEN crossed \union {u} ELSE crossed

\* Usernames are unique, those that are not set excepted.
NameTaken(u, name) ==
    name # NoName /\ \E other \in Users \ {u} : profile[other].username = name

\* A username taken since it was read is a conflict, which is logged and forgotten.
SaveAvatar(p) ==
    LET j == job[p] IN
    /\ j.at = "save"
    /\ Move(p, "sweep")
    /\ IF NameTaken(j.user, j.seen.username) THEN UNCHANGED <<profile, crossed>>
       ELSE profile' = [profile EXCEPT ![j.user] = j.seen] /\ NoteCrossing(p)
    /\ UNCHANGED <<owner, mail, token, link, asked, overlapped>>

-----------------------------------------------------------------------------
(* Confirmation of a binding: CreateAuth                                   *)

VerifyExisting(p) ==
    /\ job[p].at = "verify"
    /\ IF owner[job[p].existing] = job[p].user THEN Move(p, "confirm") ELSE Finish(p)
    /\ Silent

\* That the identity has an account already counts as success.
Confirm(p) ==
    LET j == job[p] IN
    /\ j.at = "confirm"
    /\ owner' = IF owner[j.id] = NoUser THEN [owner EXCEPT ![j.id] = j.user] ELSE owner
    /\ Move(p, "sweep")
    /\ UNCHANGED <<profile, mail, token, link, asked, crossed, overlapped>>

-----------------------------------------------------------------------------
(* Sessions: generateJWT                                                   *)

\* Mutant: the token that is refreshed stays active.
Spend_Nothing(p) == job[p].at = "spend" /\ Move(p, "sweep") /\ Silent

\* UPDATE ... SET is_active = FALSE, whether it was active or not.
Spend(p) ==
    LET t == job[p].from IN
    /\ job[p].at = "spend"
    /\ token' = IF token[t].state = "active" THEN [token EXCEPT ![t].state = "spent"]
                ELSE token
    /\ Move(p, "sweep")
    /\ UNCHANGED <<profile, owner, mail, link, asked, crossed, overlapped>>

\* The rows of inactive and of expired tokens are deleted.
DeleteExpiredRefreshTokens(p) ==
    /\ job[p].at = "sweep"
    /\ token' = [t \in Tokens |-> IF token[t].state = "spent"
                                  THEN [token[t] EXCEPT !.state = "gone"] ELSE token[t]]
    /\ Move(p, "issue")
    /\ UNCHANGED <<profile, owner, mail, link, asked, crossed, overlapped>>

\* Mutant: an identity nobody has presented.
Via_Always(j) == IF j.kind = "refresh" THEN token[j.from].via ELSE {j.id, j.existing}

\* What a session is due to: the identities presented at its login.
Via(j) == IF j.kind = "refresh" THEN token[j.from].via
          ELSE {j.id, j.existing} \ {NoIdentity}

\* Each request makes one row at most, so there is always a next one.
NewToken == {t \in Tokens : token[t].state = "none"
                            /\ \A s \in Tokens : s < t => token[s].state # "none"}

\* The new refresh token; the first of a login is its own ancestor.
GenerateRefreshToken(p) ==
    LET j == job[p] IN
    /\ j.at = "issue"
    /\ \E t \in NewToken :
          token' = [token EXCEPT ![t] =
                      [user |-> j.user, state |-> "active", via |-> Via(j),
                       from |-> IF j.kind = "refresh" THEN token[j.from].from ELSE t]]
    /\ Finish(p)
    /\ UNCHANGED <<profile, owner, mail, link, asked, crossed, overlapped>>

\* The clock: a token is 30 days old.
Expire(t) ==
    /\ token[t].state = "active"
    /\ token' = [token EXCEPT ![t].state = "spent"]
    /\ UNCHANGED <<profile, owner, mail, link, job, asked, crossed, overlapped>>

-----------------------------------------------------------------------------
(* Accounts by address alone: FindOrCreateByEmail                          *)

LookupEmail(p) ==
    /\ job[p].at = "lookup"
    /\ IF mail[job[p].email] # NoUser THEN Finish(p) ELSE Move(p, "reserve")
    /\ Silent

\* The id asked for and the address have to be free.
ReserveId(p) ==
    LET j == job[p] IN
    /\ j.at = "reserve" /\ ~EmailLocked(p, j.email)
    /\ IF \/ mail[j.email] # NoUser
          \/ j.user # NoUser /\ profile[j.user].made
       THEN Finish(p) ELSE Move(p, "register")
    /\ Silent

\* The rows and the commit; who loses the race for the address gets the winner's.
RegisterEmail(p) ==
    LET j == job[p] IN
    /\ j.at = "register" /\ ~EmailPending(p, j.email) /\ ~EmailLocked(p, j.email)
    /\ Finish(p)
    /\ IF mail[j.email] # NoUser \/ (j.user # NoUser /\ profile[j.user].made)
       THEN UNCHANGED <<profile, mail>>
       ELSE \E u \in IF j.user = NoUser THEN Fresh ELSE {j.user} :
              /\ profile' = [profile EXCEPT ![u].made = TRUE]
              /\ mail' = [mail EXCEPT ![j.email] = u]
    /\ UNCHANGED <<owner, token, link, asked, crossed, overlapped>>

-----------------------------------------------------------------------------
(* Onboarding                                                              *)

MayOnboard(u) == Addresses(u) \intersect Allowed # {}

\* Mutant: an account is onboarded as often as it is asked for.
ReadProfile_Again(p) ==
    /\ job[p].at = "read"
    /\ IF MayOnboard(job[p].user) THEN Move(p, "write") ELSE Finish(p)
    /\ Silent

ReadProfile(p) ==
    LET u == job[p].user IN
    /\ job[p].at = "read"
    /\ IF MayOnboard(u) /\ ~profile[u].onboarded THEN Move(p, "write") ELSE Finish(p)
    /\ Silent

\* The username is unique: a conflict writes nothing.
WriteProfile(p) ==
    LET j == job[p] IN
    /\ j.at = "write"
    /\ Finish(p)
    /\ IF NameTaken(j.user, j.name)
       THEN UNCHANGED <<profile, crossed>>
       ELSE /\ profile' = [profile EXCEPT ![j.user].username = j.name,
                                          ![j.user].onboarded = TRUE]
            /\ NoteCrossing(p)
    /\ UNCHANGED <<owner, mail, token, link, asked, overlapped>>

-----------------------------------------------------------------------------
(* The request ends: an error, a cancelled context, a crash of the server.  A
   transaction under way is rolled back with it.                           *)
End(p) == job[p] # Idle /\ Finish(p) /\ Silent

Step(p) == \/ FindByProvider(p) \/ LockEmail(p) \/ Decide(p) \/ Attach(p)
           \/ StartAccount(p) \/ UpsertEmail(p) \/ CommitAccount(p) \/ Recover(p)
           \/ OfferBinding(p) \/ ReadForAvatar(p) \/ SaveAvatar(p)
           \/ VerifyExisting(p) \/ Confirm(p)
           \/ Spend(p) \/ DeleteExpiredRefreshTokens(p) \/ GenerateRefreshToken(p)
           \/ LookupEmail(p) \/ ReserveId(p) \/ RegisterEmail(p)
           \/ ReadProfile(p) \/ WriteProfile(p)

Init == /\ owner = Before.owner /\ mail = Before.mail
        /\ profile = [u \in Users |-> [NoRow EXCEPT !.made = Known(u) \union Addresses(u) # {}]]
        /\ token = [t \in Tokens |-> NoToken]
        /\ link = {} /\ job = [p \in Requests |-> Idle] /\ asked = 0
        /\ crossed = {} /\ overlapped = {}

Next == \/ \E p \in Requests : Arrive(p) \/ Step(p) \/ End(p)
        \/ \E t \in Tokens : Expire(t)

\* A request runs in its goroutine until it is answered, and a transaction that has
\* the lock or the insert others wait for ends.  Nobody has to ask for anything.
Spec == /\ Init /\ [][Next]_vars
        /\ \A p \in Requests : WF_vars(Step(p))

-----------------------------------------------------------------------------
(* Properties                                                              *)

TypeOK ==
    /\ profile \in [Users -> Profiles]
    /\ owner \in [Identities -> Users \union {NoUser}]
    /\ mail \in [Emails -> Users \union {NoUser}]
    /\ token \in [Tokens -> TokenRows]
    /\ link \subseteq LinkTokens
    /\ job \in [Requests -> Jobs]
    /\ asked \in 0 .. MaxRequests
    /\ crossed \subseteq Users /\ overlapped \subseteq Tokens

\* Sign-up, login and binding keep to AccountRegistry, however first logins through
\* several providers race: no account without a way to enter it, no identity in two
\* accounts, and none that enters an account of somebody with one address unasked.
RegistrySpec == Registry!Spec

\* A session is for the account of an identity that was presented for it, whichever
\* of the recovery paths a login took; for a binding, of the identity it names.
SessionsAreTheOwners ==
    \A t \in Tokens : token[t].via # {} =>
        \E i \in token[t].via : owner[i] = token[t].user

\* Of each login one refresh token is active at most: a refresh spends the one it
\* was made with (RefreshToken reads and inactivates in two statements, so logins of
\* which one token was being refreshed twice at once are left out).
OneTokenPerLogin ==
    \A f \in Tokens \ overlapped : \A s, t \in Tokens :
        /\ token[s].state = "active" /\ token[s].from = f
        /\ token[t].state = "active" /\ token[t].from = f
        => s = t

\* Onboarding is done once and stays (ErrUserOnboarded): no later request changes the
\* username or undoes it, unless it had read the row before the onboarding wrote it,
\* as a second tab or the download of the picture of a first login may.
OnboardingStays ==
    [][\A u \in Users : profile[u].onboarded /\ u \notin crossed' =>
          profile'[u] = profile[u]]_vars

\* Every request is answered: nobody waits for a lock for ever, and the recovery from
\* a conflict, which may start the resolution of the address again, comes to an end.
RequestsAnswered == \A p \in Requests : job[p] # Idle ~> job[p] = Idle
=============================================================================
