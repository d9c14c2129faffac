-------------------------- MODULE MCOrganisations --------------------------
(***************************************************************************)
(* One configured organisation with one administrator, who may rename it,  *)
(* create another or units below it, and change its members.  Ids are      *)
(* given out in one order: they are random, and only ever compared.        *)
(***************************************************************************)
EXTENDS Organisations, TLC

CONSTANTS ann, bob, home, away

MCSetupOrgs    == <<home>>
MCSetupMembers == <<[who |-> ann, slug |-> home, role |-> "admin"],
                    [who |-> bob, slug |-> home, role |-> "admin"]>>
=============================================================================
