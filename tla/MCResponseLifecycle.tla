------------------------ MODULE MCResponseLifecycle ------------------------
(***************************************************************************)
(* The form of scenarios/user-journey/form-workflow-condition:             *)
(* start -> A -> cond1; cond1 matches B -> section B, else cond2;          *)
(* B -> cond2; cond2 matches C -> section C, else end; C -> end.           *)
(* Section A asks for the teams (B, C or both), B for an OAuth account and  *)
(* C for a file, so that every kind of request has a question to work on.   *)
(***************************************************************************)
EXTENDS ResponseLifecycle, TLC

CONSTANTS u1, u2, r1, r2, p1, p2, none

MCQuestions == {"team", "account", "file"}
MCSections  == {"A", "B", "C"}
MCSectionOf == [team |-> "A", account |-> "B", file |-> "C"]
MCAccepts   == [team |-> {"toB", "toC", "toBoth"}, account |-> {"oauth"}, file |-> {"files"}]

Section(next) == [type |-> "section", next |-> next]
Condition(matches, yes, no) ==
    [type |-> "condition", question |-> "team", rule |-> "sound", matches |-> matches,
     refused |-> {}, nextTrue |-> yes, nextFalse |-> no]

MCWorkflow ==
    [start |-> "start",
     nodes |-> [start |-> [type |-> "start", next |-> "A"],
                A     |-> Section("cond1"),
                cond1 |-> Condition({"toB", "toBoth"}, "B", "cond2"),
                B     |-> Section("cond2"),
                cond2 |-> Condition({"toC", "toBoth"}, "C", "end"),
                C     |-> Section("end"),
                end   |-> [type |-> "end"]]]

ASSUME FilesKeepTheirSection

\* Teams that activate different sections.
TeamPayloads == {[team |-> "toB"], [team |-> "toC"]}

\* Also an answer to a section that one team activates and the other skips, alone
\* and with a team that skips it, a team Validate refuses, and no answers at all.
MixedPayloads ==
    TeamPayloads \union {[account |-> "oauth"], [team |-> "toC", account |-> "oauth"],
                         [team |-> "nowhere"], NoPayload}

Published(deadline, allowEdit) ==
    [status |-> "published", deadline |-> deadline, allowEdit |-> allowEdit]
Patch(deadline, allowEdit) == [deadline |-> deadline, allowEdit |-> allowEdit]

\* A form with a deadline managers extend, and one without that managers lock.
DeadlineForms   == {Published("ahead", TRUE)}
DeadlinePatches == {Patch("ahead", Null)}
LockingForms    == {Published("none", FALSE)}
NoPatches       == {}
LockingPatches  == {Patch(Null, TRUE), Patch(Null, FALSE)}

\* Requests are interchangeable, and so are response ids and users.
Interchangeable == Permutations(Requests) \union Permutations(Responses)
                   \union Permutations(Users)
=============================================================================
