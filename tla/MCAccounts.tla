----------------------------- MODULE MCAccounts -----------------------------
(***************************************************************************)
(* Ann has one address and two providers, and the setup may make an        *)
(* account for her address first.  Bob has an account of an earlier        *)
(* release with two addresses, and a provider that has not been linked.    *)
(***************************************************************************)
EXTENDS Accounts, TLC

CONSTANTS bob, google, nycu, bobs, bobs2, ann1, bob1, bob2

MCLogins     == {<<google, ann1>>, <<nycu, ann1>>, <<bobs, bob1>>, <<bobs2, bob2>>,
                 <<google, NoEmail>>}
MCConfigured == {<<ann1, NoUser>>}
MCBefore     == [owner |-> [i \in Identities |-> IF i = bobs THEN bob ELSE NoUser],
                 mail  |-> [e \in Emails |-> IF e = ann1 THEN NoUser ELSE bob]]
=============================================================================
