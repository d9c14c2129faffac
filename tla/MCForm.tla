------------------------------- MODULE MCForm -------------------------------
(***************************************************************************)
(* The two halves of a form that meet in no variable, in one run: any      *)
(* wiring of the workflow of MCFormWorkflow, on a form whose values do not *)
(* change, and the stored values of AnswerValues, on a workflow without   *)
(* sections, all questions answered.                                       *)
(*                                                                         *)
(* The values are those of a form of one question of any type, and of a    *)
(* form of a detailed choice "d" and a ranking "r" of what is chosen there.*)
(***************************************************************************)
EXTENDS MCFormWorkflow, AnswerValues

Options == <<[name |-> "tea", other |-> FALSE], [name |-> "", other |-> TRUE]>>

Body(type, source, option) == [type |-> type, source |-> source, option |-> option]
Scale(icon, min, max) == [icon |-> icon, min |-> min, max |-> max]
Dated(parts, from, to) == [parts |-> parts, from |-> from, to |-> to]

FromDay == [day |-> <<2024, 2, 1>>, at |-> 1]
ToDay  == [day |-> <<2024, 2, 29>>, at |-> 2]
AllParts == {"year", "month", "day"}

MCEdits ==
    {Body(type, Nil, Nil) : type \in TextTypes}
    \union {Body(type, Nil, Options) : type \in ChoiceTypes}
    \union {Body("ranking", "d", <<>>), Body("dropdown", "d", <<>>), Body("rating", "d", <<>>),
            Body("dropdown", Nil, <<[name |-> "", other |-> FALSE]>>),
            Body("linear_scale", Nil, Scale("", 1, 2)), Body("linear_scale", Nil, Scale("", 2, 2)),
            Body("rating", Nil, Scale("star", 1, 2)), Body("rating", Nil, Scale("none", 1, 2)),
            Body("date", Nil, Dated(AllParts, FromDay, ToDay)), Body("date", Nil, Dated({}, Nil, Nil)),
            Body("date", Nil, Dated({"year"}, FromDay, Nil)), Body("date", Nil, Dated({"year"}, Nil, Nil)),
            Body("date", Nil, Dated({"month", "day"}, Nil, Nil)), Body("date", Nil, Dated({"year"}, ToDay, FromDay)),
            Body("oauth_connect", Nil, [provider |-> "google"]),
            Body("oauth_connect", Nil, [provider |-> "nobody"]),
            Body("upload_file", Nil, [kinds |-> {"pdf"}, amount |-> 1, size |-> 1]),
            Body("upload_file", Nil, [kinds |-> {"pdf"}, amount |-> 0, size |-> 1])}

Text(bytes, link, day) == [json |-> "string", text |-> [bytes |-> bytes, link |-> link, day |-> day]]
Number(n) == [json |-> "number", number |-> n]
Chosen(n, i, as) == [id |-> <<n, i>>, as |-> as]
List(list) == [json |-> "list", list |-> list]
Object(id, files) ==
    [json |-> "object", object |-> [NoObject EXCEPT !.provider = "google", !.id = id, !.files = files]]

Tea    == Chosen(0, 1, "plain")
Other  == Chosen(0, 2, "plain")
Renewed == Chosen(1, 1, "plain")

Lists(type) ==
    CASE type = "detailed_multiple_choice" -> {List(list) : list \in {<<Tea>>, <<Other, Tea>>}}
      [] type = "ranking" -> {List(list) : list \in {<<Tea>>, <<Tea, Other>>, <<Renewed>>}}
      [] OTHER -> {List(list) : list \in {<<>>, <<Tea>>, <<Other, Tea>>, <<Chosen(0, 1, "padded")>>,
                                         <<Chosen(0, 2, "other")>>, <<Renewed>>}}

Sent(v) == [v |-> v, other |-> "coffee"]

MCSendable(a) ==
    {Sent(v) : v \in
        CASE a = Nil -> {List(<<>>)}
          [] a.type \in TextTypes -> {Text(0, FALSE, Nil), Text(100, TRUE, Nil), Text(101, TRUE, Nil), [json |-> "null"]}
          [] a.type \in ChoiceTypes -> Lists(a.type)
          [] a.type \in ScaleTypes -> {Number(1), Number(2), [json |-> "null"]}
          [] a.type = "date" -> {Text(20, FALSE, <<2024, 2, 29>>), Text(20, FALSE, <<2024, 1, 31>>),
                                 Text(20, FALSE, Nil)}
          [] a.type = "oauth_connect" -> {Object("", <<>>), Object("me", <<>>)}
          [] a.type = "upload_file" -> {Object("", <<>>), Object("", <<"f">>), Object("", <<"f", "g">>)}}

Row(body) == [type |-> body.type, meta |-> Generate(body, 0).meta, source |-> body.source]

Pair == [d |-> Row(Body("detailed_multiple_choice", Nil, Options)),
         r |-> Row(Body("ranking", "d", <<>>))]

\* The requests of ps may be made, others never are.
Only(ps) == [p \in Patches |-> IF p \in ps THEN NoPatch ELSE [NoPatch EXCEPT !.at = "never"]]

\* One request at a time with updates in between, or two at once with none.
MCValuesInit ==
    /\ \/ /\ row \in {Pair} \union {[q \in {"d"} |-> Row(body)] : body \in {b \in MCEdits : Generate(b, 0).ok}}
          /\ patch = Only({"p1"})
          /\ edits = 0
       \/ /\ row = Pair
          /\ patch = Only(Patches)
          /\ edits = MaxEdits
    /\ value = Unanswered
    /\ written = Unanswered

Straight == [start |-> "start",
             nodes |-> [start |-> [type |-> "start", next |-> "end"], end |-> [type |-> "end"]]]

FormInit ==
    \/ /\ Init /\ answers["qo"] = NoAnswer
       /\ row = <<>> /\ value = Unanswered /\ written = Unanswered
       /\ edits = 0 /\ patch = Only({})
    \/ /\ MCValuesInit
       /\ workflow = Straight
       /\ answers = [q \in Questions |-> "yes"]

FormNext ==
    \/ Next /\ UNCHANGED valuesVars
    \/ ValuesNext /\ UNCHANGED <<workflow, answers>>

FormSpec == FormInit /\ [][FormNext]_<<workflow, answers, valuesVars>>
=============================================================================
