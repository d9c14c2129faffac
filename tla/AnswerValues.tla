---------------------------- MODULE AnswerValues ----------------------------
(***************************************************************************)
(* The answers of one response as they are stored, while its questions are *)
(* edited: answer.Service.Upsert (internal/form/answer/service.go), run by *)
(* PATCH requests that may overlap, and UpdateHandler of                   *)
(* internal/form/question/handler.go.                                      *)
(*                                                                         *)
(* Only what concerns values is here: who may write is the subject of      *)
(* ResponseLifecycle, the order and removal of questions of Questions.     *)
(***************************************************************************)
EXTENDS QuestionValues

CONSTANTS Asked,          \* ids of questions
          Patches,        \* the PATCH requests that may be under way at once
          Sendable(_),    \* what a respondent may send for an answerable, and for none
          Edits,          \* the bodies of question updates
          MaxEdits        \* bound: how many questions are updated

ASSUME EditsAssumption ==
    /\ MaxEdits \in Nat
    /\ Nil \notin Nat \union Calendar \union Asked
    /\ \A request \in Edits : request.type \in Types /\ request.source \in Asked \union {Nil}
    /\ \A request \in Edits : \A n \in 0..MaxEdits :
          LET made == Generate(request, n) IN
          /\ made.ok /\ request.source = Nil /\ request.type \notin TextTypes => made.meta # Nil
          /\ made.ok /\ request.source = Nil /\ request.type \in ChoiceTypes =>
                /\ request.option \in Seq(ToSet(request.option))
                /\ \A i \in DOMAIN request.option : <<n, i>> # Nil

VARIABLES row,       \* the questions of the form: a function on some of Asked
          value,     \* the stored answers, Nil without one
          patch,     \* the PATCH requests under way
          edits,     \* how many updates there were; they number the choice ids
          written    \* history: the answerable each stored answer was checked with

valuesVars == <<row, value, patch, edits, written>>

NoPatch == [at |-> "idle", batch |-> <<>>, form |-> <<>>, seen |-> <<>>]

Unanswered == [q \in Asked |-> Nil]

(* The rows the bodies make, with choice ids of update n. *)
Rows(n) ==
    {[type |-> request.type, meta |-> Generate(request, n).meta, source |-> request.source] :
        request \in {body \in Edits : Generate(body, n).ok}}

ValuesInit ==
    /\ row \in UNION {[qs -> Rows(0)] : qs \in SUBSET Asked}
    /\ value = Unanswered /\ written = Unanswered
    /\ patch = [p \in Patches |-> NoPatch]
    /\ edits = 0

-----------------------------------------------------------------------------
(* Upsert: the questions are read, the rankings given their choices, then   *)
(* everything is checked and written by one statement.                     *)

(* One unusable question and nothing of the form can be read. *)
GetAnswerableMapByFormID == [q \in DOMAIN row |-> Answerable(row[q])]

(* What may be sent for q; the form may have no such question. *)
Offered(q) ==
    {sent \in Sendable(IF q \in DOMAIN row THEN Answerable(row[q]) ELSE Nil) : WellFormed(sent.v)}

ReadQuestions(p) ==
    /\ patch[p].at = "idle"
    /\ \A q \in DOMAIN row : Built(row[q])
    /\ \E qs \in SUBSET Asked \ {{}} :
       \E batch \in {b \in [qs -> UNION {Offered(q) : q \in qs}] : \A q \in qs : b[q] \in Offered(q)} :
          /\ patch' = [patch EXCEPT ![p] =
                [NoPatch EXCEPT !.at = "resolve", !.batch = batch, !.form = GetAnswerableMapByFormID]]
    /\ UNCHANGED <<row, value, edits, written>>

(* The rankings whose choices come from another question. *)
Dependent(form) == {q \in DOMAIN form : form[q].type = "ranking" /\ form[q].source # Nil}

(* The source's answer is in the same request: its choices that are selected there, *)
(* at the places they have in the source.                                   *)
SelectedChoices(source, sent) ==
    RestrictValues(source.choices,
       LAMBDA c : \E i \in DOMAIN ListIn(sent) : ListIn(sent)[i] = [id |-> c.id, as |-> "plain"])

(* extractChoicesFromStoredDetailedMultiAnswer: which ones were "other" is lost. *)
StoredChoices(s) ==
    IF s # Nil /\ s.is = "choices"
      THEN [i \in DOMAIN s.chosen |->
              [id |-> s.chosen[i].id, name |-> s.chosen[i].name, other |-> FALSE]]
      ELSE <<>>

(* Mutant: any choice of the source may be ranked. *)
RankChoices_AllOfSource(form, batch, source) ==
    IF source \in DOMAIN form THEN form[source].choices ELSE <<>>

RankChoices(form, batch, source) ==
    IF source \in DOMAIN batch THEN SelectedChoices(form[source], batch[source].v)
    ELSE StoredChoices(value[source])

(* A source that is answered in the request has to be a question of the form,  *)
(* of the right type, and answered with a list.                             *)
SourceTaken(form, batch, source) ==
    source \in DOMAIN batch =>
        /\ source \in DOMAIN form
        /\ form[source].type = "detailed_multiple_choice"
        /\ IsA("list", batch[source].v)

ResolveRankingChoices(p) ==
    LET form  == patch[p].form
        batch == patch[p].batch IN
    /\ patch[p].at = "resolve"
    /\ patch' = [patch EXCEPT ![p] =
          IF \A q \in Dependent(form) : SourceTaken(form, batch, form[q].source)
          THEN [@ EXCEPT !.at = "write", !.seen = value,
                  !.form = [q \in DOMAIN form |->
                     IF q \in Dependent(form)
                     THEN [form[q] EXCEPT !.choices = RankChoices(form, batch, form[q].source)]
                     ELSE form[q]]]
          ELSE NoPatch]
    /\ UNCHANGED <<row, value, edits, written>>

(* All answers of the request, or none. *)
BatchUpsert(p) ==
    LET form    == patch[p].form
        batch   == patch[p].batch
        Taken(q) == Requested(form[q], batch[q].v, batch[q].other) IN
    /\ patch[p].at = "write"
    /\ patch' = [patch EXCEPT ![p] = NoPatch]
    /\ IF \A q \in DOMAIN batch : q \in DOMAIN form /\ Taken(q).valid /\ Taken(q).stored # Nil
         THEN /\ value' = [q \in Asked |-> IF q \in DOMAIN batch THEN Taken(q).stored ELSE value[q]]
              /\ written' = [q \in Asked |-> IF q \in DOMAIN batch THEN form[q] ELSE written[q]]
         ELSE UNCHANGED <<value, written>>
    /\ UNCHANGED <<row, edits>>

-----------------------------------------------------------------------------
(* UpdateHandler: type, metadata and source are replaced together, and all  *)
(* choices have new ids.  The answers stay as they are.                     *)

UpdateQuestion(q) ==
    /\ edits < MaxEdits
    /\ \E new \in Rows(edits + 1) : row' = [row EXCEPT ![q] = new]
    /\ edits' = edits + 1
    /\ UNCHANGED <<value, patch, written>>

ValuesNext ==
    \/ \E p \in Patches : ReadQuestions(p) \/ ResolveRankingChoices(p) \/ BatchUpsert(p)
    \/ \E q \in DOMAIN row : UpdateQuestion(q)

ValuesSpec == ValuesInit /\ [][ValuesNext]_valuesVars

-----------------------------------------------------------------------------
(* Properties.                                                             *)

(* A question that still has the type it was answered with, and asks for no *)
(* part of a date that was not asked for then.                              *)
StillAsks(a, then) ==
    a.type = then.type /\ (a.type = "date" => DateMeta(a).parts \subseteq DateMeta(then).parts)

(* A date that lacks a part is sent back as another day (README). *)
SentAsItWas(a) ==
    /\ a.type # "upload_file"
    /\ a.type = "date" =>
          LET meta == DateMeta(a) IN
          /\ "year" \in meta.parts
          /\ meta.parts = {"year", "month", "day"} \/ (meta.from = Nil /\ meta.to = Nil)

\* What is stored can be read: every question an update leaves behind can be built
\* again (one that cannot makes the whole form unreadable, GetAnswerableMapByFormID),
\* an answer decodes after any update that keeps the type of its question
\* (DecodeStorage), and what EncodeRequest and extractOtherText send of it is taken,
\* by the question as it was answered, to mean the stored answer again, while the
\* patterns of workflow rules match the very choices that are sent.
AnswersReadBack ==
    /\ \A q \in DOMAIN row : Built(row[q])
    /\ \A q \in DOMAIN row : value[q] # Nil =>
          /\ StillAsks(Answerable(row[q]), written[q]) => Readable(Answerable(row[q]), value[q])
          /\ SentAsItWas(written[q]) =>
                LET again == Requested(written[q], ReadBack(written[q], value[q]).sends,
                                       ExtractOtherText(value[q]))
                IN  again.valid /\ again.stored = value[q]
          /\ written[q].type \in ChoiceTypes =>
                LET sent == ReadBack(written[q], value[q]).sends.list IN
                \A c \in ChosenIds(written[q].choices) :
                    MatchesPattern(written[q], value[q], {c})
                       <=> \E i \in DOMAIN sent : sent[i].id = c

\* A ranking is of choices that are selected in the source question once the request
\* is done, whether they came with it or were stored before (ResolveRankingChoices),
\* unless the source's answer changed after it was read for the ranking.
RankedWereSelected ==
    [][\A p \in Patches, q \in Asked :
          LET source == written'[q].source IN
          /\ patch[p].at = "write" /\ patch'[p].at = "idle"
          /\ q \in DOMAIN patch[p].batch /\ value'[q] # value[q]
          /\ value'[q].is = "ranked" /\ source # Nil
          /\ patch[p].seen[source] = value[source]
          => /\ value'[source] # Nil
             /\ ChosenIds(value'[q].chosen) \subseteq ChosenIds(value'[source].chosen)]_valuesVars
=============================================================================
