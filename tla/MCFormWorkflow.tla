--------------------------- MODULE MCFormWorkflow ---------------------------
(***************************************************************************)
(* A respondent answers, one question at a time, a form whose workflow is  *)
(* any wiring of two sections and two conditions: cycles, dangling         *)
(* references and branches that rejoin included, as drafts may have.  The  *)
(* rule of the second condition may be of the wrong source, emptied, gone, *)
(* or with a pattern that does not compile; no walk passes it then.        *)
(***************************************************************************)
EXTENDS Respondent

MCQuestions == {"qa", "qb", "qo"}
MCSectionOf == [qa |-> "A", qb |-> "B", qo |-> "B"]
MCRequired  == {"qa", "qb"}

Condition(rule, next) ==
    [type |-> "condition", source |-> rule[1], question |-> rule[2], rule |-> rule[3],
     matches |-> IF rule[3] = "sound" THEN {"yes"} ELSE {},
     refused |-> IF rule[3] = "sound" THEN OldValues ELSE Values \union OldValues,
     nextTrue |-> next[1], nextFalse |-> next[2]]

Wiring(a, b, c1, c2, rule) ==
    [start |-> "start",
     nodes |-> [start |-> [type |-> "start", next |-> "A"],
                A     |-> [type |-> "section", next |-> a],
                B     |-> [type |-> "section", next |-> b],
                c1    |-> Condition(<<"CHOICE", "qa", "sound">>, c1),
                c2    |-> Condition(rule, c2),
                end   |-> [type |-> "end"]]]

MCWorkflows ==
    {Wiring(a, b, c1, c2, rule) :
        a \in {"B", "c1", NoNode}, b \in {"A", "c1", "c2", "end"},
        c1 \in {"B", "c2"} \X {"B", "c2", "end", "gone"},
        <<c2, rule>> \in
            ({"A", "B", "end"} \X {"c1", "end", NoNode})
               \X {<<"NONCHOICE", "qb", "sound">>, <<"CHOICE", "qb", "sound">>,
                   <<"NONCHOICE", NoQuestion, "sound">>}
            \union {<<"A", "end">>, <<"end", "c1">>}
               \X {<<"NONCHOICE", NoQuestion, "absent">>, <<"NONCHOICE", "qb", "broken">>}}
=============================================================================
