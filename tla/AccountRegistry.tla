--------------------------- MODULE AccountRegistry ---------------------------
(***************************************************************************)
(* What sign-up and login promise about accounts, without statements,      *)
(* locks or retries: an account comes with an e-mail address or an         *)
(* identity of its owner, an identity enters one account and stays there,  *)
(* and it enters an account that has another identity only after the       *)
(* owner has confirmed, or when the account has several addresses.         *)
(* Accounts implements this.                                               *)
(***************************************************************************)
CONSTANTS Users, Identities, Emails, NoUser, NoEmail,
          Logins      \* which identity may come with which verified address

VARIABLES made,       \* the accounts there are
          owner,      \* the account of each identity
          mail,       \* the account of each e-mail address
          offers      \* the bindings offered and not confirmed: identity and account

vars == <<made, owner, mail, offers>>

Known(u)     == {i \in Identities : owner[i] = u}
Addresses(u) == {e \in Emails : mail[e] = u}
\* The identity comes with an address of the account.
Belongs(i, u) == \E e \in Addresses(u) : <<i, e>> \in Logins
Several(u)    == \E e, f \in Addresses(u) : e # f

\* A new account with its first identity, and its address if the provider tells one.
SignUp == \E u \in Users \ made, i \in Identities, e \in Emails \union {NoEmail} :
    /\ <<i, e>> \in Logins
    /\ owner[i] = NoUser /\ (e = NoEmail \/ mail[e] = NoUser)
    /\ made' = made \union {u}
    /\ owner' = [owner EXCEPT ![i] = u]
    /\ mail' = IF e = NoEmail THEN mail ELSE [mail EXCEPT ![e] = u]
    /\ UNCHANGED offers

\* A new account of someone who has not logged in yet.
Invite == \E u \in Users \ made, e \in Emails :
    /\ mail[e] = NoUser
    /\ made' = made \union {u}
    /\ mail' = [mail EXCEPT ![e] = u]
    /\ UNCHANGED <<owner, offers>>

Enter(i, u) == /\ owner[i] = NoUser
               /\ owner' = [owner EXCEPT ![i] = u]
               /\ UNCHANGED <<made, mail, offers>>

\* Without a question: the first identity, or an account of several addresses.
Join == \E i \in Identities, u \in made :
    /\ Belongs(i, u)
    /\ Known(u) = {} \/ Several(u)
    /\ Enter(i, u)

Offer == \E i \in Identities, u \in made :
    /\ Belongs(i, u) /\ Known(u) # {}
    /\ offers' = offers \union {<<i, u>>}
    /\ UNCHANGED <<made, owner, mail>>

Confirm == \E i \in Identities, u \in made : <<i, u>> \in offers /\ Enter(i, u)

Next == SignUp \/ Invite \/ Join \/ Offer \/ Confirm

\* Whatever accounts there are when the server starts.
Init == offers = {}

Spec == Init /\ [][Next]_vars
=============================================================================
