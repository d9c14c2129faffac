------------------------- MODULE AnswerValues_proofs ------------------------
(***************************************************************************)
(* What stored answers mean, for any questions, any edits of them and any  *)
(* number of requests that overlap: theorems of AnswerValues.              *)
(***************************************************************************)
EXTENDS AnswerValues, FiniteSetTheorems, WellFoundedInduction, TLAPS

-----------------------------------------------------------------------------
(* The first of some places.                                               *)

LEMMA LeastPlace ==
    ASSUME NEW T \in SUBSET Nat, T # {}
    PROVE  Min(T) \in T /\ \A m \in T : Min(T) <= m
  <1>1. PICK R : R = OpToRel(<, Nat)
    OBVIOUS
  <1>2. IsWellFoundedOn(R, Nat)
    BY <1>1, NatLessThanWellFounded
  <1>3. R = {ss \in Nat \X Nat : ss[1] < ss[2]}
    BY <1>1 DEF OpToRel
  <1>4. PICK n \in T : \A m \in T : ~ (<<m, n>> \in R)
    BY <1>2, WFMin
  <1>5. ASSUME NEW m \in T, m < n PROVE FALSE
    <2>1. PICK ss : ss = <<m, n>>
      OBVIOUS
    <2>2. ss \in Nat \X Nat /\ ss[1] < ss[2]
      BY <1>5, <2>1
    <2> QED BY <1>3, <1>4, <2>1, <2>2
  <1>6. \A m \in T : n <= m
    BY <1>5
  <1> QED BY <1>6 DEF Min

-----------------------------------------------------------------------------
(* What a question of each type stores.                                    *)

IsAnswerable(a) ==
    /\ a = [type |-> a.type, meta |-> a.meta, source |-> a.source, choices |-> a.choices]
    /\ a.type \in Types /\ a.source \in Asked \union {Nil}
    /\ DOMAIN a.choices \in SUBSET Nat

LEMMA ChoiceIsFound ==
    ASSUME NEW choices, DOMAIN choices \in SUBSET Nat, NEW id, Has(choices, id)
    PROVE  /\ \E i \in DOMAIN choices : FindChoice(choices, id) = choices[i]
           /\ FindChoice(choices, id).id = id
  <1>1. PICK T : T = {i \in DOMAIN choices : choices[i].id = id}
    OBVIOUS
  <1>2. T \in SUBSET Nat /\ T # {}
    BY <1>1 DEF Has
  <1>3. Min(T) \in T
    BY <1>2, LeastPlace
  <1> QED BY <1>1, <1>3 DEF FindChoice

\* What is kept of the choice that has an id.
Kept(choices, id, otherText) ==
    [id |-> id, name |-> FindChoice(choices, id).name,
     other |-> IF FindChoice(choices, id).other THEN otherText ELSE ""]

LEMMA SnapshotIs ==
    ASSUME NEW choices, DOMAIN choices \in SUBSET Nat, NEW id, Has(choices, id), NEW o
    PROVE  Snapshot(FindChoice(choices, id), o) = Kept(choices, id, o)
  <1>1. FindChoice(choices, id).id = id
    BY ChoiceIsFound
  <1> QED BY <1>1 DEF Snapshot, Kept

\* What is sent names some choices, and all of them are there.
Names(choices, v) ==
    /\ Len(ListIn(v)) \in Nat \ {0} /\ DOMAIN ListIn(v) = 1..Len(ListIn(v))
    /\ \A i \in 1..Len(ListIn(v)) : Has(choices, ListIn(v)[i].id)

\* The choices that what is sent names.
Found(choices, v) == [i \in 1..Len(ListIn(v)) |-> FindChoice(choices, ListIn(v)[i].id)]

LEMMA PickedAre ==
    ASSUME NEW choices, DOMAIN choices \in SUBSET Nat, NEW v, WellFormed(v), Picked(choices, v) # Nil
    PROVE  /\ Names(choices, v)
           /\ Picked(choices, v) = Found(choices, v)
           /\ \A o : \A i \in 1..Len(ListIn(v)) :
                 Snapshot(Picked(choices, v)[i], o) = Kept(choices, ListIn(v)[i].id, o)
  <1>1. PICK sent : sent = ListIn(v)
    OBVIOUS
  <1>2. sent \in Seq(ToSet(sent))
    BY <1>1 DEF WellFormed
  <1>3. Len(sent) \in Nat /\ DOMAIN sent = 1..Len(sent)
    BY <1>2
  <1>4. /\ Len(sent) >= 1 /\ \A i \in DOMAIN sent : Has(choices, sent[i].id)
        /\ Picked(choices, v) = [i \in DOMAIN sent |-> FindChoice(choices, sent[i].id)]
    BY <1>1 DEF Picked
  <1>5. ASSUME NEW o, NEW i \in 1..Len(sent)
        PROVE  Snapshot(Picked(choices, v)[i], o) = Kept(choices, sent[i].id, o)
    <2>1. Picked(choices, v)[i] = FindChoice(choices, sent[i].id) /\ Has(choices, sent[i].id)
      BY <1>3, <1>4
    <2> QED BY <2>1, SnapshotIs
  <1>6. Len(sent) # 0
    BY <1>3, <1>4
  <1>7. Picked(choices, v) = Found(choices, v)
    BY <1>1, <1>3, <1>4 DEF Found
  <1>8. Names(choices, v)
    BY <1>1, <1>3, <1>4, <1>6 DEF Names
  <1> QED BY <1>1, <1>5, <1>7, <1>8

LEMMA SingleStores ==
    ASSUME NEW a, IsAnswerable(a), NEW v, WellFormed(v), NEW o,
           SingleChoice(a, v, o).stored # Nil
    PROVE  /\ SingleChoice(a, v, o).stored =
                 [is |-> "choice", chosen |-> <<Kept(a.choices, ListIn(v)[1].id, o)>>]
           /\ Len(ListIn(v)) = 1 /\ Names(a.choices, v)
  <1>1. PICK picked : picked = Picked(a.choices, v)
    OBVIOUS
  <1>2. picked # Nil /\ ~(Len(ListIn(v)) > 1)
        /\ SingleChoice(a, v, o).stored = [is |-> "choice", chosen |-> <<Snapshot(picked[1], o)>>]
    BY <1>1 DEF SingleChoice
  <1>3. /\ Names(a.choices, v)
        /\ \A i \in 1..Len(ListIn(v)) : Snapshot(picked[i], o) = Kept(a.choices, ListIn(v)[i].id, o)
    BY <1>1, <1>2, PickedAre DEF IsAnswerable
  <1>4. Len(ListIn(v)) = 1
    BY <1>2, <1>3 DEF Names
  <1>5. Snapshot(picked[1], o) = Kept(a.choices, ListIn(v)[1].id, o)
    BY <1>3, <1>4
  <1> QED BY <1>2, <1>3, <1>4, <1>5

LEMMA MultiStores ==
    ASSUME NEW a, IsAnswerable(a), NEW v, WellFormed(v), NEW o,
           MultiChoice(a, v, o).stored # Nil
    PROVE  /\ MultiChoice(a, v, o).stored =
                 [is |-> "choices", chosen |->
                    [i \in 1..Len(ListIn(v)) |-> Kept(a.choices, ListIn(v)[i].id, o)]]
           /\ Names(a.choices, v)
  <1>1. PICK picked : picked = Picked(a.choices, v)
    OBVIOUS
  <1>2. /\ picked # Nil
        /\ MultiChoice(a, v, o).stored =
              [is |-> "choices", chosen |-> [i \in DOMAIN picked |-> Snapshot(picked[i], o)]]
    BY <1>1 DEF MultiChoice
  <1>3. /\ Names(a.choices, v)
        /\ picked = Found(a.choices, v)
        /\ \A i \in 1..Len(ListIn(v)) : Snapshot(picked[i], o) = Kept(a.choices, ListIn(v)[i].id, o)
    <2>1. PICK choices : choices = a.choices
      OBVIOUS
    <2>2. DOMAIN choices \in SUBSET Nat
      BY <2>1 DEF IsAnswerable
    <2>3. Picked(choices, v) # Nil
      BY <1>1, <1>2, <2>1
    <2>4. /\ Names(choices, v)
          /\ Picked(choices, v) = Found(choices, v)
          /\ \A i \in 1..Len(ListIn(v)) :
                Snapshot(Picked(choices, v)[i], o) = Kept(choices, ListIn(v)[i].id, o)
      BY <2>2, <2>3, PickedAre
    <2> QED BY <1>1, <2>1, <2>4
  <1>4. DOMAIN picked = 1..Len(ListIn(v))
    BY <1>3 DEF Found
  <1>5. [i \in DOMAIN picked |-> Snapshot(picked[i], o)] =
           [i \in 1..Len(ListIn(v)) |-> Kept(a.choices, ListIn(v)[i].id, o)]
    BY <1>3, <1>4
  <1> QED BY <1>2, <1>3, <1>5

\* A place in a ranking.
RankedAs(choices, id, o, i) ==
    [id |-> id, name |-> Kept(choices, id, o).name, other |-> Kept(choices, id, o).other, rank |-> i]

LEMMA RankingStores ==
    ASSUME NEW a, IsAnswerable(a), NEW v, WellFormed(v), NEW o,
           Ranking(a, v, o).stored # Nil
    PROVE  /\ Ranking(a, v, o).stored =
                 [is |-> "ranked", chosen |->
                    [i \in 1..Len(ListIn(v)) |-> RankedAs(a.choices, ListIn(v)[i].id, o, i)]]
           /\ Names(a.choices, v)
  <1>1. PICK picked : picked = Picked(a.choices, v)
    OBVIOUS
  <1>2. /\ picked # Nil
        /\ Ranking(a, v, o).stored =
              [is |-> "ranked", chosen |-> [i \in DOMAIN picked |->
                  [id |-> Snapshot(picked[i], o).id, name |-> Snapshot(picked[i], o).name,
                   other |-> Snapshot(picked[i], o).other, rank |-> i]]]
    BY <1>1 DEF Ranking
  <1>3. /\ Names(a.choices, v)
        /\ picked = Found(a.choices, v)
        /\ \A i \in 1..Len(ListIn(v)) : Snapshot(picked[i], o) = Kept(a.choices, ListIn(v)[i].id, o)
    <2>1. PICK choices : choices = a.choices
      OBVIOUS
    <2>2. DOMAIN choices \in SUBSET Nat
      BY <2>1 DEF IsAnswerable
    <2>3. Picked(choices, v) # Nil
      BY <1>1, <1>2, <2>1
    <2>4. /\ Names(choices, v)
          /\ Picked(choices, v) = Found(choices, v)
          /\ \A i \in 1..Len(ListIn(v)) :
                Snapshot(Picked(choices, v)[i], o) = Kept(choices, ListIn(v)[i].id, o)
      BY <2>2, <2>3, PickedAre
    <2> QED BY <1>1, <2>1, <2>4
  <1>4. DOMAIN picked = 1..Len(ListIn(v))
    BY <1>3 DEF Found
  <1>5. \A i \in 1..Len(ListIn(v)) :
           [id |-> Snapshot(picked[i], o).id, name |-> Snapshot(picked[i], o).name,
            other |-> Snapshot(picked[i], o).other, rank |-> i] = RankedAs(a.choices, ListIn(v)[i].id, o, i)
    <2>1. \A id : Kept(a.choices, id, o).id = id
      BY DEF Kept
    <2> QED BY <1>3, <2>1 DEF RankedAs
  <1>6. [i \in DOMAIN picked |->
           [id |-> Snapshot(picked[i], o).id, name |-> Snapshot(picked[i], o).name,
            other |-> Snapshot(picked[i], o).other, rank |-> i]] =
           [i \in 1..Len(ListIn(v)) |-> RankedAs(a.choices, ListIn(v)[i].id, o, i)]
    BY <1>4, <1>5
  <1> QED BY <1>2, <1>3, <1>6

\* The dispatch of Requested, type by type.
LEMMA RequestedIs ==
    ASSUME NEW a, NEW v, NEW o
    PROVE  /\ a.type = "short_text" => Requested(a, v, o) = ShortText(v)
           /\ a.type = "long_text" => Requested(a, v, o) = LongText(v)
           /\ a.type = "hyperlink" => Requested(a, v, o) = Hyperlink(v)
           /\ a.type \in {"single_choice", "dropdown"} => Requested(a, v, o) = SingleChoice(a, v, o)
           /\ a.type \in {"multiple_choice", "detailed_multiple_choice"} =>
                 Requested(a, v, o) = MultiChoice(a, v, o)
           /\ a.type = "ranking" => Requested(a, v, o) = Ranking(a, v, o)
           /\ a.type = "linear_scale" => Requested(a, v, o) = LinearScale(a, v)
           /\ a.type = "rating" => Requested(a, v, o) = Rating(a, v)
           /\ a.type = "date" => Requested(a, v, o) = Date(a, v)
           /\ a.type = "oauth_connect" => Requested(a, v, o) = OAuthConnect(v)
           /\ a.type = "upload_file" => Requested(a, v, o) = UploadFile(a, v)
  BY DEF Requested, DetailedMultiChoice

\* What is stored is of the shape that is read.
LEMMA StoredShape ==
    ASSUME NEW a, IsAnswerable(a), NEW v, WellFormed(v), NEW o, Requested(a, v, o).stored # Nil
    PROVE  Requested(a, v, o).stored.is = Shape(a.type)
  <1>1. CASE a.type \in TextTypes
    <2>1. Requested(a, v, o).stored = [is |-> "text", text |-> TextIn(v)]
      BY <1>1, RequestedIs DEF TextTypes, ShortText, LongText, Hyperlink
    <2> QED BY <1>1, <2>1 DEF Shape, TextTypes, ScaleTypes
  <1>2. CASE a.type \in {"single_choice", "dropdown"}
    <2>1. Requested(a, v, o) = SingleChoice(a, v, o)
      BY <1>2, RequestedIs
    <2>2. SingleChoice(a, v, o).stored # Nil
      BY <2>1
    <2>3. PICK chosen : chosen = <<Kept(a.choices, ListIn(v)[1].id, o)>>
      OBVIOUS
    <2>4. SingleChoice(a, v, o).stored = [is |-> "choice", chosen |-> chosen]
      BY <2>2, <2>3, SingleStores
    <2> QED BY <1>2, <2>1, <2>4 DEF Shape, TextTypes, ScaleTypes
  <1>3. CASE a.type \in {"multiple_choice", "detailed_multiple_choice"}
    <2>1. Requested(a, v, o) = MultiChoice(a, v, o)
      BY <1>3, RequestedIs
    <2>2. MultiChoice(a, v, o).stored # Nil
      BY <2>1
    <2>3. PICK chosen : chosen = [i \in 1..Len(ListIn(v)) |-> Kept(a.choices, ListIn(v)[i].id, o)]
      OBVIOUS
    <2>4. MultiChoice(a, v, o).stored = [is |-> "choices", chosen |-> chosen]
      BY <2>2, <2>3, MultiStores
    <2> QED BY <1>3, <2>1, <2>4 DEF Shape, TextTypes, ScaleTypes
  <1>4. CASE a.type = "ranking"
    <2>1. Requested(a, v, o) = Ranking(a, v, o)
      BY <1>4, RequestedIs
    <2>2. Ranking(a, v, o).stored # Nil
      BY <2>1
    <2>3. PICK chosen : chosen = [i \in 1..Len(ListIn(v)) |-> RankedAs(a.choices, ListIn(v)[i].id, o, i)]
      OBVIOUS
    <2>4. Ranking(a, v, o).stored = [is |-> "ranked", chosen |-> chosen]
      BY <2>2, <2>3, RankingStores
    <2> QED BY <1>4, <2>1, <2>4 DEF Shape, TextTypes, ScaleTypes
  <1>5. CASE a.type \in ScaleTypes
    <2>1. Requested(a, v, o).stored = [is |-> "number", number |-> NumberIn(v)]
      BY <1>5, RequestedIs DEF ScaleTypes, LinearScale, Rating
    <2> QED BY <1>5, <2>1 DEF Shape, TextTypes, ScaleTypes
  <1>6. CASE a.type = "date"
    <2>1. Requested(a, v, o).stored.is = "date"
      BY <1>6, RequestedIs DEF Date
    <2> QED BY <1>6, <2>1 DEF Shape, TextTypes, ScaleTypes
  <1>7. CASE a.type = "oauth_connect"
    <2>1. PICK account : account = [ObjectIn(v) EXCEPT !.files = <<>>]
      OBVIOUS
    <2>2. OAuthConnect(v).stored = IF IsA("object", v) THEN [is |-> "account", account |-> account] ELSE Nil
      BY <2>1 DEF OAuthConnect
    <2>3. Requested(a, v, o).stored.is = "account"
      BY <1>7, <2>2, RequestedIs
    <2> QED BY <1>7, <2>3 DEF Shape, TextTypes, ScaleTypes
  <1>8. CASE a.type = "upload_file"
    <2>1. Requested(a, v, o).stored.is = "files"
      BY <1>8, RequestedIs DEF UploadFile
    <2> QED BY <1>8, <2>1 DEF Shape, TextTypes, ScaleTypes
  <1> QED BY <1>1, <1>2, <1>3, <1>4, <1>5, <1>6, <1>7, <1>8
          DEF IsAnswerable, Types, TextTypes, ScaleTypes

-----------------------------------------------------------------------------
(* The invariant: rows are made from bodies, a request under way has well   *)
(* formed values and the choices its rankings were given, and an answer was *)
(* taken by the question it was written for.                                *)

RowInv ==
    /\ DOMAIN row \subseteq Asked /\ edits \in 0..MaxEdits
    /\ \A q \in DOMAIN row : \E n \in 0..MaxEdits : row[q] \in Rows(n)

Ready(batch, form) ==
    /\ DOMAIN batch \subseteq Asked /\ DOMAIN form \subseteq Asked
    /\ \A q \in DOMAIN batch : WellFormed(batch[q].v)
    /\ \A q \in DOMAIN form : IsAnswerable(form[q])

RankedFrom(seen, form, batch, source) ==
    IF source \in DOMAIN batch THEN SelectedChoices(form[source], batch[source].v)
    ELSE StoredChoices(seen[source])

Ranks(seen, form, batch) ==
    \A q \in Dependent(form) :
        /\ SourceTaken(form, batch, form[q].source)
        /\ form[q].choices = RankedFrom(seen, form, batch, form[q].source)

PatchOk(r) ==
    /\ r = [at |-> r.at, batch |-> r.batch, form |-> r.form, seen |-> r.seen]
    /\ r.at \in {"idle", "resolve", "write"}
    /\ r.at \in {"resolve", "write"} => Ready(r.batch, r.form)
    /\ r.at = "write" => Ranks(r.seen, r.form, r.batch)

Wrote(s, then, v, o) ==
    WellFormed(v) /\ Requested(then, v, o).valid /\ Requested(then, v, o).stored = s

ValueOk(s, then) == s # Nil => IsAnswerable(then) /\ \E v, o : Wrote(s, then, v, o)

ValuesInv ==
    /\ RowInv
    /\ DOMAIN patch = Patches /\ \A p \in Patches : PatchOk(patch[p])
    /\ DOMAIN value = Asked
    /\ \A q \in Asked : ValueOk(value[q], written[q])

-----------------------------------------------------------------------------
(* A row that a body makes can be built.                                   *)

LEMMA RowMade ==
    ASSUME NEW n \in 0..MaxEdits, NEW q \in Rows(n)
    PROVE  \E body \in Edits :
              /\ Generate(body, n).ok
              /\ q = [type |-> body.type, meta |-> Generate(body, n).meta, source |-> body.source]
  BY DEF Rows

LEMMA ChoicesMade ==
    ASSUME NEW n \in 0..MaxEdits, NEW body \in Edits, Generate(body, n).ok,
           body.source = Nil, body.type \in ChoiceTypes
    PROVE  /\ Generate(body, n) = GenerateChoiceMetadata(body.option, n)
           /\ DOMAIN body.option = 1..Len(body.option) /\ Len(body.option) \in Nat
           /\ body.option # <<>>
           /\ \A i \in DOMAIN body.option : Named(body.option[i]) /\ <<n, i>> # Nil
           /\ DOMAIN Generate(body, n).meta.choices = DOMAIN body.option
           /\ \A i \in DOMAIN body.option :
                 Generate(body, n).meta.choices[i] =
                    [id |-> <<n, i>>, other |-> body.option[i].other,
                     name |-> IF body.option[i].other THEN "" ELSE body.option[i].name]
  <1>1. Generate(body, n) = GenerateChoiceMetadata(body.option, n)
    BY DEF Generate, ChoiceTypes, TextTypes
  <1>2. body.option \in Seq(ToSet(body.option)) /\ \A i \in DOMAIN body.option : <<n, i>> # Nil
    BY EditsAssumption
  <1>3. DOMAIN body.option = 1..Len(body.option) /\ Len(body.option) \in Nat
    BY <1>2
  <1>4. PICK choices :
           choices = [i \in DOMAIN body.option |->
                        [id |-> <<n, i>>, other |-> body.option[i].other,
                         name |-> IF body.option[i].other THEN "" ELSE body.option[i].name]]
    OBVIOUS
  <1>5. GenerateChoiceMetadata(body.option, n) =
           IF body.option # <<>> /\ \A i \in DOMAIN body.option : Named(body.option[i])
           THEN [ok |-> TRUE, meta |-> [choices |-> choices]] ELSE [ok |-> FALSE, meta |-> Nil]
    BY <1>4 DEF GenerateChoiceMetadata, Refused, Made
  <1>6. /\ body.option # <<>> /\ \A i \in DOMAIN body.option : Named(body.option[i])
        /\ Generate(body, n).meta.choices = choices
    BY <1>1, <1>5
  <1> QED BY <1>1, <1>2, <1>3, <1>4, <1>6

LEMMA RowIsBuilt ==
    ASSUME NEW n \in 0..MaxEdits, NEW q \in Rows(n)
    PROVE  Built(q) /\ IsAnswerable(Answerable(q))
  <1>1. PICK body \in Edits :
           /\ Generate(body, n).ok
           /\ q = [type |-> body.type, meta |-> Generate(body, n).meta, source |-> body.source]
    BY RowMade
  <1>2. body.type \in Types /\ body.source \in Asked \union {Nil}
    BY EditsAssumption
  <1>3. q.type = body.type /\ q.source = body.source /\ q.meta = Generate(body, n).meta
    BY <1>1
  <1>4. body.source # Nil => body.type \in ChoiceTypes \ {"detailed_multiple_choice"}
    BY <1>1 DEF Generate, Refused
  <1>5. CASE body.source # Nil
    <2>1. q.type \in ChoiceTypes /\ ChoicesFound(q)
      BY <1>3, <1>4, <1>5 DEF ChoicesFound
    <2>2. Built(q)
      BY <2>1 DEF Built, ChoiceTypes, TextTypes
    <2>3. Answerable(q) = [type |-> q.type, meta |-> q.meta, source |-> q.source, choices |-> <<>>]
      BY <1>3, <1>5 DEF Answerable
    <2>4. IsAnswerable(Answerable(q))
      BY <1>2, <1>3, <2>3 DEF IsAnswerable
    <2> QED BY <2>2, <2>4
  <1>6. CASE body.source = Nil /\ body.type \in ChoiceTypes
    <2>1. PICK option : option = body.option
      OBVIOUS
    <2>2. PICK choices : choices = q.meta.choices
      OBVIOUS
    <2>3. choices = Generate(body, n).meta.choices
      BY <1>3, <2>2
    <2>4. DOMAIN option = 1..Len(option) /\ Len(option) \in Nat /\ DOMAIN choices = DOMAIN option
      BY <1>1, <1>6, <2>1, <2>3, ChoicesMade
    <2>5. choices # <<>>
      <3>1. option \in Seq(ToSet(option))
        BY <1>1, <1>6, <2>1, EditsAssumption
      <3>2. option # <<>>
        BY <1>1, <1>6, <2>1, ChoicesMade
      <3>3. Len(option) # 0
        BY <3>1, <3>2
      <3>4. 1 \in DOMAIN choices
        BY <2>4, <3>3
      <3> QED BY <3>4
    <2>6. \A i \in DOMAIN choices : choices[i].id # Nil /\ Named(choices[i])
      <3>1. TAKE i \in DOMAIN choices
      <3>2. i \in DOMAIN option
        BY <2>4
      <3>3. Named(option[i]) /\ <<n, i>> # Nil
        BY <1>1, <1>6, <2>1, <3>2, ChoicesMade
      <3>4. choices[i] = [id |-> <<n, i>>, other |-> option[i].other,
                          name |-> IF option[i].other THEN "" ELSE option[i].name]
        BY <1>1, <1>6, <2>1, <2>3, <3>2, ChoicesMade
      <3>5. PICK name : name = IF option[i].other THEN "" ELSE option[i].name
        OBVIOUS
      <3>6. choices[i] = [id |-> <<n, i>>, other |-> option[i].other, name |-> name]
        BY <3>4, <3>5
      <3>7. choices[i].id = <<n, i>> /\ choices[i].other = option[i].other /\ choices[i].name = name
        BY <3>6
      <3> QED BY <3>3, <3>5, <3>7 DEF Named
    <2>7. q.meta # Nil
      BY <1>1, <1>3, <1>6, EditsAssumption DEF ChoiceTypes, TextTypes
    <2>8. Built(q)
      <3>1. ChoicesFound(q)
        BY <2>2, <2>5, <2>6, <2>7 DEF ChoicesFound
      <3> QED BY <1>3, <1>6, <3>1 DEF Built, ChoiceTypes, TextTypes
    <2>9. Answerable(q) = [type |-> q.type, meta |-> q.meta, source |-> q.source, choices |-> choices]
      BY <1>3, <1>6, <2>2 DEF Answerable
    <2>10. DOMAIN choices \in SUBSET Nat
      BY <2>4
    <2>11. IsAnswerable(Answerable(q))
      BY <1>2, <1>3, <2>9, <2>10 DEF IsAnswerable
    <2> QED BY <2>8, <2>11
  <1>7. CASE body.source = Nil /\ body.type \notin ChoiceTypes
    <2>1. IsAnswerable(Answerable(q))
      <3>1. Answerable(q) = [type |-> q.type, meta |-> q.meta, source |-> q.source, choices |-> <<>>]
        BY <1>3, <1>7 DEF Answerable
      <3> QED BY <1>2, <1>3, <3>1 DEF IsAnswerable
    <2>2. body.type \in TextTypes => Built(q)
      BY <1>3 DEF Built, TextTypes, ChoiceTypes
    <2>3. ASSUME body.type \notin TextTypes PROVE Built(q)
      <3>1. q.meta # Nil
        BY <1>1, <1>3, <1>7, <2>3, EditsAssumption
      <3>2. body.type = "date" => NewDate(q)
        BY <1>1, <1>3, <1>7 DEF Generate, GenerateDateMetadata, NewDate, Made, Refused, TextTypes
      <3>3. body.type = "linear_scale" => NewLinearScale(q)
        BY <1>1, <1>3, <1>7, <3>1
           DEF Generate, GenerateLinearScaleMetadata, NewLinearScale, Made, Refused, TextTypes, ChoiceTypes
      <3>4. body.type = "rating" => NewRating(q)
        BY <1>1, <1>3, <1>7, <3>1
           DEF Generate, GenerateRatingMetadata, NewRating, Made, Refused, TextTypes, ChoiceTypes
      <3>5. body.type = "oauth_connect" => NewOAuthConnect(q)
        BY <1>1, <1>3, <1>7, <3>1
           DEF Generate, GenerateOauthConnectMetadata, NewOAuthConnect, Made, Refused, TextTypes, ChoiceTypes
      <3>6. body.type = "upload_file" => NewUploadFile(q)
        BY <1>1, <1>3, <1>7, <3>1
           DEF Generate, GenerateUploadFileMetadata, NewUploadFile, Made, Refused, TextTypes, ChoiceTypes
      <3>7. body.type \in {"date", "linear_scale", "rating", "oauth_connect", "upload_file"}
        BY <1>2, <1>7, <2>3 DEF Types, TextTypes, ChoiceTypes
      <3> QED BY <1>3, <3>2, <3>3, <3>4, <3>5, <3>6, <3>7 DEF Built, TextTypes, ChoiceTypes
    <2> QED BY <2>1, <2>2, <2>3
  <1> QED BY <1>5, <1>6, <1>7

-----------------------------------------------------------------------------
(* The choices of a ranking.                                               *)

LEMMA PlacesOfStored ==
    ASSUME NEW s, NEW then, ValueOk(s, then), s # Nil, s.is = "choices"
    PROVE  DOMAIN s.chosen \in SUBSET Nat
  <1>1. PICK v, o : Wrote(s, then, v, o)
    BY DEF ValueOk
  <1>2. IsAnswerable(then) /\ WellFormed(v) /\ Requested(then, v, o).stored = s
    BY <1>1 DEF ValueOk, Wrote
  <1>3. s.is = Shape(then.type)
    BY <1>2, StoredShape
  <1>4. then.type \in {"multiple_choice", "detailed_multiple_choice"}
    BY <1>2, <1>3 DEF Shape, IsAnswerable, Types, TextTypes, ScaleTypes
  <1>5. Requested(then, v, o) = MultiChoice(then, v, o)
    BY <1>4, RequestedIs
  <1>6. MultiChoice(then, v, o).stored # Nil
    BY <1>2, <1>5
  <1>7. PICK chosen : chosen = [i \in 1..Len(ListIn(v)) |-> Kept(then.choices, ListIn(v)[i].id, o)]
    OBVIOUS
  <1>8. MultiChoice(then, v, o).stored = [is |-> "choices", chosen |-> chosen]
    BY <1>2, <1>6, <1>7, MultiStores
  <1>9. Names(then.choices, v)
    BY <1>2, <1>6, MultiStores
  <1>10. s.chosen = chosen
    BY <1>2, <1>5, <1>8
  <1> QED BY <1>7, <1>9, <1>10 DEF Names

LEMMA PlacesOfStoredChoices ==
    ASSUME NEW s, NEW then, ValueOk(s, then)
    PROVE  DOMAIN StoredChoices(s) \in SUBSET Nat
  <1>1. CASE s # Nil /\ s.is = "choices"
    <2>1. DOMAIN s.chosen \in SUBSET Nat
      BY <1>1, PlacesOfStored
    <2>2. DOMAIN StoredChoices(s) = DOMAIN s.chosen
      BY <1>1 DEF StoredChoices
    <2> QED BY <2>1, <2>2
  <1>2. CASE ~(s # Nil /\ s.is = "choices")
    BY <1>2 DEF StoredChoices
  <1> QED BY <1>1, <1>2

LEMMA SelectedAre ==
    ASSUME NEW source, NEW sent
    PROVE  /\ DOMAIN SelectedChoices(source, sent) \subseteq DOMAIN source.choices
           /\ \A i \in DOMAIN SelectedChoices(source, sent) :
                 /\ SelectedChoices(source, sent)[i] = source.choices[i]
                 /\ \E j \in DOMAIN ListIn(sent) :
                       ListIn(sent)[j] = [id |-> source.choices[i].id, as |-> "plain"]
  BY DEF SelectedChoices, RestrictValues, Restrict

\* Stored choices are of a stored answer, with its ids.
LEMMA StoredIds ==
    ASSUME NEW s, DOMAIN StoredChoices(s) # {}
    PROVE  /\ s # Nil /\ s.is = "choices"
           /\ \A i \in DOMAIN StoredChoices(s) : StoredChoices(s)[i].id \in ChosenIds(s.chosen)
  <1>1. s # Nil /\ s.is = "choices"
    BY DEF StoredChoices
  <1>2. StoredChoices(s) = [i \in DOMAIN s.chosen |->
                              [id |-> s.chosen[i].id, name |-> s.chosen[i].name, other |-> FALSE]]
    BY <1>1 DEF StoredChoices
  <1>3. \A i \in DOMAIN StoredChoices(s) : StoredChoices(s)[i].id = s.chosen[i].id /\ i \in DOMAIN s.chosen
    BY <1>2
  <1> QED BY <1>1, <1>3 DEF ChosenIds

-----------------------------------------------------------------------------
(* Every step keeps the invariant.                                         *)

LEMMA InitInv == ValuesInit => ValuesInv
  <1>1. SUFFICES ASSUME ValuesInit PROVE ValuesInv
    OBVIOUS
  <1>2. RowInv
    <2>1. PICK qs \in SUBSET Asked : row \in [qs -> Rows(0)]
      BY <1>1 DEF ValuesInit
    <2>2. edits = 0 /\ 0 \in 0..MaxEdits
      BY <1>1, EditsAssumption DEF ValuesInit
    <2>3. DOMAIN row = qs /\ \A q \in qs : row[q] \in Rows(0)
      BY <2>1
    <2> QED BY <2>2, <2>3 DEF RowInv
  <1>3. PatchOk(NoPatch)
    BY DEF PatchOk, NoPatch
  <1>4. DOMAIN patch = Patches /\ \A p \in Patches : PatchOk(patch[p])
    <2>1. patch = [p \in Patches |-> NoPatch]
      BY <1>1 DEF ValuesInit
    <2> QED BY <1>3, <2>1
  <1>5. DOMAIN value = Asked /\ \A q \in Asked : value[q] = Nil
    BY <1>1 DEF ValuesInit, Unanswered
  <1>6. \A q \in Asked : ValueOk(value[q], written[q])
    BY <1>5 DEF ValueOk
  <1> QED BY <1>2, <1>4, <1>5, <1>6 DEF ValuesInv

LEMMA ReadKeeps ==
    ASSUME ValuesInv, NEW p \in Patches, ReadQuestions(p)
    PROVE  ValuesInv'
  <1>1. UNCHANGED <<row, value, edits, written>>
    BY DEF ReadQuestions
  <1>2. PICK form : form = GetAnswerableMapByFormID
    OBVIOUS
  <1>3. PICK qs \in SUBSET Asked \ {{}} :
        \E batch \in {b \in [qs -> UNION {Offered(q) : q \in qs}] : \A q \in qs : b[q] \in Offered(q)} :
           patch' = [patch EXCEPT ![p] =
                 [NoPatch EXCEPT !.at = "resolve", !.batch = batch, !.form = GetAnswerableMapByFormID]]
    BY DEF ReadQuestions
  <1>4. PICK batch \in {b \in [qs -> UNION {Offered(q) : q \in qs}] : \A q \in qs : b[q] \in Offered(q)} :
           patch' = [patch EXCEPT ![p] =
                 [NoPatch EXCEPT !.at = "resolve", !.batch = batch, !.form = GetAnswerableMapByFormID]]
    BY <1>3
  <1>5. DOMAIN batch = qs /\ \A q \in qs : batch[q] \in Offered(q)
    OBVIOUS
  <1>6. \A q \in DOMAIN batch : WellFormed(batch[q].v)
    BY <1>5 DEF Offered
  <1>7. DOMAIN form = DOMAIN row /\ \A q \in DOMAIN row : form[q] = Answerable(row[q])
    BY <1>2 DEF GetAnswerableMapByFormID
  <1>8. DOMAIN row \subseteq Asked /\ \A q \in DOMAIN row : \E n \in 0..MaxEdits : row[q] \in Rows(n)
    BY DEF ValuesInv, RowInv
  <1>9. \A q \in DOMAIN row : IsAnswerable(Answerable(row[q]))
    BY <1>8, RowIsBuilt
  <1>10. Ready(batch, form)
    BY <1>3, <1>5, <1>6, <1>7, <1>8, <1>9 DEF Ready
  <1>11. PICK r : r = [at |-> "resolve", batch |-> batch, form |-> form, seen |-> <<>>]
    OBVIOUS
  <1>12. [NoPatch EXCEPT !.at = "resolve", !.batch = batch, !.form = GetAnswerableMapByFormID] = r
    <2>1. NoPatch = [at |-> "idle", batch |-> <<>>, form |-> <<>>, seen |-> <<>>]
      BY DEF NoPatch
    <2>2. PICK none : none = <<>>
      OBVIOUS
    <2>3. PICK idle : idle = NoPatch
      OBVIOUS
    <2>4. idle = [at |-> "idle", batch |-> none, form |-> none, seen |-> none]
      BY <2>1, <2>2, <2>3
    <2>5. r = [at |-> "resolve", batch |-> batch, form |-> form, seen |-> none]
      BY <1>11, <2>2
    <2>6. [idle EXCEPT !.at = "resolve", !.batch = batch, !.form = form] = r
      <3>1. PICK r1 : r1 = [idle EXCEPT !.at = "resolve"]
        OBVIOUS
      <3>2. r1 = [at |-> "resolve", batch |-> none, form |-> none, seen |-> none]
        BY <2>4, <3>1
      <3>3. PICK r2 : r2 = [r1 EXCEPT !.batch = batch]
        OBVIOUS
      <3>4. r2 = [at |-> "resolve", batch |-> batch, form |-> none, seen |-> none]
        BY <3>2, <3>3
      <3>5. [r2 EXCEPT !.form = form] = r
        BY <2>5, <3>4
      <3> QED BY <3>1, <3>3, <3>5
    <2> QED BY <1>2, <2>3, <2>6
  <1>13. PatchOk(r)
    BY <1>10, <1>11 DEF PatchOk
  <1>14. patch' = [patch EXCEPT ![p] = r]
    BY <1>4, <1>12
  <1>15. DOMAIN patch' = Patches /\ \A p2 \in Patches : PatchOk(patch'[p2])
    BY <1>13, <1>14 DEF ValuesInv
  <1> QED BY <1>1, <1>15 DEF ValuesInv, RowInv

LEMMA ResolveKeeps ==
    ASSUME ValuesInv, NEW p \in Patches, ResolveRankingChoices(p)
    PROVE  ValuesInv'
  <1>1. UNCHANGED <<row, value, edits, written>>
    BY DEF ResolveRankingChoices
  <1>2. PICK r : r = patch[p]
    OBVIOUS
  <1>3. PICK form : form = r.form
    OBVIOUS
  <1>4. PICK batch : batch = r.batch
    OBVIOUS
  <1>5. /\ r = [at |-> r.at, batch |-> r.batch, form |-> r.form, seen |-> r.seen]
        /\ r.at = "resolve" /\ Ready(batch, form)
    BY <1>2, <1>3, <1>4 DEF ValuesInv, PatchOk, ResolveRankingChoices
  <1>6. PICK new : new = [q \in DOMAIN form |->
                     IF q \in Dependent(form)
                     THEN [form[q] EXCEPT !.choices = RankChoices(form, batch, form[q].source)]
                     ELSE form[q]]
    OBVIOUS
  <1>7. patch' = [patch EXCEPT ![p] =
                    IF \A q \in Dependent(form) : SourceTaken(form, batch, form[q].source)
                    THEN [r EXCEPT !.at = "write", !.seen = value, !.form = new]
                    ELSE NoPatch]
    BY <1>2, <1>3, <1>4, <1>6 DEF ResolveRankingChoices, ValuesInv
  <1>8. PatchOk(NoPatch)
    BY DEF PatchOk, NoPatch
  <1>9. ASSUME \A q \in Dependent(form) : SourceTaken(form, batch, form[q].source)
        PROVE  PatchOk([r EXCEPT !.at = "write", !.seen = value, !.form = new])
    <2>1. PICK r2 : r2 = [at |-> "write", batch |-> batch, form |-> new, seen |-> value]
      OBVIOUS
    <2>2. [r EXCEPT !.at = "write", !.seen = value, !.form = new] = r2
      <3>1. PICK at : at = r.at
        OBVIOUS
      <3>2. PICK seen : seen = r.seen
        OBVIOUS
      <3>3. r = [at |-> at, batch |-> batch, form |-> form, seen |-> seen]
        BY <1>3, <1>4, <1>5, <3>1, <3>2
      <3>4. PICK r3 : r3 = [r EXCEPT !.at = "write"]
        OBVIOUS
      <3>5. r3 = [at |-> "write", batch |-> batch, form |-> form, seen |-> seen]
        BY <3>3, <3>4
      <3>6. PICK r4 : r4 = [r3 EXCEPT !.seen = value]
        OBVIOUS
      <3>7. r4 = [at |-> "write", batch |-> batch, form |-> form, seen |-> value]
        BY <3>5, <3>6
      <3>8. [r4 EXCEPT !.form = new] = r2
        BY <2>1, <3>7
      <3> QED BY <3>4, <3>6, <3>8
    <2>3. DOMAIN new = DOMAIN form
      BY <1>6
    <2>4. \A q \in DOMAIN form \ Dependent(form) : new[q] = form[q]
      BY <1>6
    <2>5. ASSUME NEW q \in Dependent(form)
          PROVE  /\ form[q].source \in Asked /\ q \in DOMAIN form
                 /\ new[q] = [type |-> form[q].type, meta |-> form[q].meta, source |-> form[q].source,
                              choices |-> RankChoices(form, batch, form[q].source)]
      <3>1. q \in DOMAIN form /\ form[q].source # Nil
        BY DEF Dependent
      <3>2. PICK a : a = form[q]
        OBVIOUS
      <3>3. /\ a = [type |-> a.type, meta |-> a.meta, source |-> a.source, choices |-> a.choices]
            /\ a.source \in Asked \union {Nil}
        BY <1>5, <3>1, <3>2 DEF Ready, IsAnswerable
      <3>4. new[q] = [a EXCEPT !.choices = RankChoices(form, batch, a.source)]
        BY <1>6, <3>1, <3>2
      <3>5. PICK choices : choices = RankChoices(form, batch, a.source)
        OBVIOUS
      <3>6. new[q] = [type |-> a.type, meta |-> a.meta, source |-> a.source, choices |-> choices]
        BY <3>3, <3>4, <3>5
      <3> QED BY <3>1, <3>2, <3>3, <3>5, <3>6
    <2>6. \A q \in DOMAIN form : new[q].type = form[q].type /\ new[q].source = form[q].source
      <3>1. TAKE q \in DOMAIN form
      <3>2. CASE q \in Dependent(form)
        <4>1. PICK choices : choices = RankChoices(form, batch, form[q].source)
          OBVIOUS
        <4>2. new[q] = [type |-> form[q].type, meta |-> form[q].meta, source |-> form[q].source,
                        choices |-> choices]
          BY <2>5, <3>2, <4>1
        <4> QED BY <4>2
      <3>3. CASE q \notin Dependent(form)
        BY <2>4, <3>3
      <3> QED BY <3>2, <3>3
    <2>7. Dependent(new) = Dependent(form)
      BY <2>3, <2>6 DEF Dependent
    <2>8. ASSUME NEW q \in Dependent(form)
          PROVE  DOMAIN RankChoices(form, batch, form[q].source) \in SUBSET Nat
      <3>1. PICK source : source = form[q].source
        OBVIOUS
      <3>2. source \in Asked /\ SourceTaken(form, batch, source)
        BY <1>9, <2>5, <3>1
      <3>3. CASE source \in DOMAIN batch
        <4>1. source \in DOMAIN form
          BY <3>2, <3>3 DEF SourceTaken
        <4>2. DOMAIN form[source].choices \in SUBSET Nat
          BY <1>5, <4>1 DEF Ready, IsAnswerable
        <4>3. RankChoices(form, batch, source) = SelectedChoices(form[source], batch[source].v)
          BY <3>3 DEF RankChoices
        <4>4. DOMAIN SelectedChoices(form[source], batch[source].v) \subseteq DOMAIN form[source].choices
          BY SelectedAre
        <4> QED BY <3>1, <4>2, <4>3, <4>4
      <3>4. CASE source \notin DOMAIN batch
        <4>1. ValueOk(value[source], written[source])
          BY <3>2 DEF ValuesInv
        <4>2. DOMAIN StoredChoices(value[source]) \in SUBSET Nat
          BY <4>1, PlacesOfStoredChoices
        <4> QED BY <3>1, <3>4, <4>2 DEF RankChoices
      <3> QED BY <3>3, <3>4
    <2>9. \A q \in DOMAIN new : IsAnswerable(new[q])
      <3>1. TAKE q \in DOMAIN new
      <3>2. IsAnswerable(form[q])
        BY <1>5, <2>3 DEF Ready
      <3>3. CASE q \in Dependent(form)
        <4>1. PICK choices : choices = RankChoices(form, batch, form[q].source)
          OBVIOUS
        <4>2. DOMAIN choices \in SUBSET Nat
          BY <2>8, <3>3, <4>1
        <4>3. new[q] = [type |-> form[q].type, meta |-> form[q].meta, source |-> form[q].source,
                        choices |-> choices]
          BY <2>5, <3>3, <4>1
        <4> QED BY <3>2, <4>2, <4>3 DEF IsAnswerable
      <3>4. CASE q \notin Dependent(form)
        BY <2>3, <2>4, <3>2, <3>4
      <3> QED BY <3>3, <3>4
    <2>10. Ready(batch, new)
      BY <1>5, <2>3, <2>9 DEF Ready
    <2>11. Ranks(value, new, batch)
      <3>1. SUFFICES ASSUME NEW q \in Dependent(form)
                     PROVE  /\ SourceTaken(new, batch, new[q].source)
                            /\ new[q].choices = RankedFrom(value, new, batch, new[q].source)
        BY <2>7 DEF Ranks
      <3>2. PICK source : source = form[q].source
        OBVIOUS
      <3>3. SourceTaken(form, batch, source)
        BY <1>9, <3>2
      <3>4. new[q].source = source /\ new[q].choices = RankChoices(form, batch, source)
        <4>1. PICK choices : choices = RankChoices(form, batch, source)
          OBVIOUS
        <4>2. new[q] = [type |-> form[q].type, meta |-> form[q].meta, source |-> source,
                        choices |-> choices]
          BY <2>5, <3>2, <4>1
        <4> QED BY <4>1, <4>2
      <3>5. SourceTaken(new, batch, source)
        BY <2>3, <2>6, <3>3 DEF SourceTaken
      <3>6. RankChoices(form, batch, source) = RankedFrom(value, new, batch, source)
        <4>1. CASE source \in DOMAIN batch
          <5>1. source \in DOMAIN form /\ form[source].type = "detailed_multiple_choice"
            BY <3>3, <4>1 DEF SourceTaken
          <5>2. new[source] = form[source]
            BY <2>4, <5>1 DEF Dependent
          <5> QED BY <4>1, <5>2 DEF RankChoices, RankedFrom
        <4>2. CASE source \notin DOMAIN batch
          BY <4>2 DEF RankChoices, RankedFrom
        <4> QED BY <4>1, <4>2
      <3> QED BY <3>4, <3>5, <3>6
    <2>12. PatchOk(r2)
      BY <2>1, <2>10, <2>11 DEF PatchOk
    <2> QED BY <2>2, <2>12
  <1>10. DOMAIN patch' = Patches /\ \A p2 \in Patches : PatchOk(patch'[p2])
    <2>1. PICK r2 : r2 = IF \A q \in Dependent(form) : SourceTaken(form, batch, form[q].source)
                    THEN [r EXCEPT !.at = "write", !.seen = value, !.form = new]
                    ELSE NoPatch
      OBVIOUS
    <2>2. PatchOk(r2)
      BY <1>8, <1>9, <2>1
    <2>3. patch' = [patch EXCEPT ![p] = r2]
      BY <1>7, <2>1
    <2> QED BY <2>2, <2>3 DEF ValuesInv
  <1> QED BY <1>1, <1>10 DEF ValuesInv, RowInv

LEMMA WriteKeeps ==
    ASSUME ValuesInv, NEW p \in Patches, BatchUpsert(p)
    PROVE  ValuesInv'
  <1>1. UNCHANGED <<row, edits>> /\ patch' = [patch EXCEPT ![p] = NoPatch]
    BY DEF BatchUpsert
  <1>2. PatchOk(NoPatch)
    BY DEF PatchOk, NoPatch
  <1>3. DOMAIN patch' = Patches /\ \A p2 \in Patches : PatchOk(patch'[p2])
    BY <1>1, <1>2 DEF ValuesInv
  <1>4. PICK form : form = patch[p].form
    OBVIOUS
  <1>5. PICK batch : batch = patch[p].batch
    OBVIOUS
  <1>6. Ready(batch, form)
    BY <1>4, <1>5 DEF ValuesInv, PatchOk, BatchUpsert
  <1>7. CASE UNCHANGED <<value, written>>
    BY <1>1, <1>3, <1>7 DEF ValuesInv, RowInv
  <1>8. ASSUME \A q \in DOMAIN batch : /\ q \in DOMAIN form
                                       /\ Requested(form[q], batch[q].v, batch[q].other).valid
                                       /\ Requested(form[q], batch[q].v, batch[q].other).stored # Nil,
               value' = [q \in Asked |-> IF q \in DOMAIN batch
                           THEN Requested(form[q], batch[q].v, batch[q].other).stored ELSE value[q]],
               written' = [q \in Asked |-> IF q \in DOMAIN batch THEN form[q] ELSE written[q]]
        PROVE  ValuesInv'
    <2>1. ASSUME NEW q \in Asked PROVE ValueOk(value'[q], written'[q])
      <3>1. CASE q \in DOMAIN batch
        <4>1. written'[q] = form[q] /\ value'[q] = Requested(form[q], batch[q].v, batch[q].other).stored
          BY <1>8, <3>1
        <4>2. WellFormed(batch[q].v) /\ IsAnswerable(form[q])
          BY <1>6, <1>8, <3>1 DEF Ready
        <4>3. Wrote(value'[q], written'[q], batch[q].v, batch[q].other)
          BY <1>8, <3>1, <4>1, <4>2 DEF Wrote
        <4> QED BY <4>1, <4>2, <4>3 DEF ValueOk
      <3>2. CASE q \notin DOMAIN batch
        <4>1. written'[q] = written[q] /\ value'[q] = value[q]
          BY <1>8, <3>2
        <4>2. ValueOk(value[q], written[q])
          BY DEF ValuesInv
        <4> QED BY <4>1, <4>2
      <3> QED BY <3>1, <3>2
    <2>2. DOMAIN value' = Asked
      BY <1>8
    <2>3. RowInv'
      BY <1>1 DEF ValuesInv, RowInv
    <2> QED BY <1>3, <2>1, <2>2, <2>3 DEF ValuesInv
  <1> QED BY <1>4, <1>5, <1>7, <1>8 DEF BatchUpsert

LEMMA UpdateKeeps ==
    ASSUME ValuesInv, NEW q \in DOMAIN row, UpdateQuestion(q)
    PROVE  ValuesInv'
  <1>1. UNCHANGED <<value, patch, written>> /\ edits < MaxEdits /\ edits' = edits + 1
    BY DEF UpdateQuestion
  <1>2. PICK new \in Rows(edits + 1) : row' = [row EXCEPT ![q] = new]
    BY DEF UpdateQuestion
  <1>3. edits \in 0..MaxEdits
    BY DEF ValuesInv, RowInv
  <1>4. edits + 1 \in 0..MaxEdits
    BY <1>1, <1>3, EditsAssumption
  <1>5. DOMAIN row' = DOMAIN row
    BY <1>2
  <1>6. \A x \in DOMAIN row : row'[x] = new \/ row'[x] = row[x]
    BY <1>2
  <1>7. RowInv'
    BY <1>1, <1>2, <1>4, <1>5, <1>6 DEF ValuesInv, RowInv
  <1> QED BY <1>1, <1>7 DEF ValuesInv

LEMMA Invariant == ValuesSpec => []ValuesInv
  <1>1. ASSUME ValuesInv, [ValuesNext]_valuesVars PROVE ValuesInv'
    <2>1. CASE UNCHANGED valuesVars
      BY <1>1, <2>1 DEF valuesVars, ValuesInv, RowInv
    <2>2. CASE \E p \in Patches : ReadQuestions(p) \/ ResolveRankingChoices(p) \/ BatchUpsert(p)
      BY <1>1, <2>2, ReadKeeps, ResolveKeeps, WriteKeeps
    <2>3. CASE \E q \in DOMAIN row : UpdateQuestion(q)
      BY <1>1, <2>3, UpdateKeeps
    <2> QED BY <1>1, <2>1, <2>2, <2>3 DEF ValuesNext
  <1> QED BY InitInv, <1>1, PTL DEF ValuesSpec

-----------------------------------------------------------------------------
(* What is ranked was selected.                                            *)

LEMMA WriterIs ==
    ASSUME ValuesInv, ValuesNext, NEW p \in Patches, patch[p].at = "write", patch'[p].at = "idle"
    PROVE  BatchUpsert(p)
  <1>1. DOMAIN patch = Patches
    BY DEF ValuesInv
  <1>2. ASSUME NEW p2 \in Patches, ReadQuestions(p2) PROVE FALSE
    <2>1. patch[p2].at = "idle"
      BY <1>2 DEF ReadQuestions
    <2>2. p2 # p
      BY <2>1
    <2>3. PICK qs \in SUBSET Asked \ {{}} :
          \E batch \in {b \in [qs -> UNION {Offered(q) : q \in qs}] : \A q \in qs : b[q] \in Offered(q)} :
             patch' = [patch EXCEPT ![p2] =
                   [NoPatch EXCEPT !.at = "resolve", !.batch = batch, !.form = GetAnswerableMapByFormID]]
      BY <1>2 DEF ReadQuestions
    <2>4. patch'[p] = patch[p]
      BY <1>1, <2>2, <2>3
    <2> QED BY <2>4
  <1>3. ASSUME NEW p2 \in Patches, ResolveRankingChoices(p2) PROVE FALSE
    <2>1. patch[p2].at = "resolve"
      BY <1>3 DEF ResolveRankingChoices
    <2>2. p2 # p
      BY <2>1
    <2>3. PICK r : patch' = [patch EXCEPT ![p2] = r]
      BY <1>3 DEF ResolveRankingChoices
    <2>4. patch'[p] = patch[p]
      BY <1>1, <2>2, <2>3
    <2> QED BY <2>4
  <1>4. ASSUME NEW p2 \in Patches, BatchUpsert(p2), p2 # p PROVE FALSE
    <2>1. patch'[p] = patch[p]
      BY <1>1, <1>4 DEF BatchUpsert
    <2> QED BY <2>1
  <1>5. ASSUME NEW q \in DOMAIN row, UpdateQuestion(q) PROVE FALSE
    BY <1>5 DEF UpdateQuestion
  <1> QED BY <1>2, <1>3, <1>4, <1>5 DEF ValuesNext

LEMMA RankedAreSelected ==
    ASSUME ValuesInv, NEW p \in Patches, BatchUpsert(p), NEW q \in Asked,
           q \in DOMAIN patch[p].batch, value'[q] # value[q], value'[q].is = "ranked",
           written'[q].source # Nil, patch[p].seen[written'[q].source] = value[written'[q].source]
    PROVE  /\ value'[written'[q].source] # Nil
           /\ ChosenIds(value'[q].chosen) \subseteq ChosenIds(value'[written'[q].source].chosen)
  <1>1. PICK form : form = patch[p].form
    OBVIOUS
  <1>2. PICK batch : batch = patch[p].batch
    OBVIOUS
  <1>3. PICK seen : seen = patch[p].seen
    OBVIOUS
  <1>4. Ready(batch, form) /\ Ranks(seen, form, batch)
    BY <1>1, <1>2, <1>3 DEF ValuesInv, PatchOk, BatchUpsert
  <1>5. /\ \A x \in DOMAIN batch : /\ x \in DOMAIN form
                                  /\ Requested(form[x], batch[x].v, batch[x].other).valid
                                  /\ Requested(form[x], batch[x].v, batch[x].other).stored # Nil
        /\ value' = [x \in Asked |-> IF x \in DOMAIN batch
                        THEN Requested(form[x], batch[x].v, batch[x].other).stored ELSE value[x]]
        /\ written' = [x \in Asked |-> IF x \in DOMAIN batch THEN form[x] ELSE written[x]]
    BY <1>1, <1>2 DEF BatchUpsert
  <1>6. ASSUME NEW x \in Asked \intersect DOMAIN batch
        PROVE  /\ written'[x] = form[x]
               /\ value'[x] = Requested(form[x], batch[x].v, batch[x].other).stored
               /\ value'[x] # Nil /\ IsAnswerable(form[x]) /\ WellFormed(batch[x].v)
               /\ value'[x].is = Shape(form[x].type)
    <2>1. written'[x] = form[x] /\ value'[x] = Requested(form[x], batch[x].v, batch[x].other).stored
      BY <1>5
    <2>2. value'[x] # Nil /\ IsAnswerable(form[x]) /\ WellFormed(batch[x].v)
      BY <1>4, <1>5, <2>1 DEF Ready
    <2>3. value'[x].is = Shape(form[x].type)
      BY <2>1, <2>2, StoredShape
    <2> QED BY <2>1, <2>2, <2>3
  <1>7. PICK a : a = form[q]
    OBVIOUS
  <1>8. /\ IsAnswerable(a) /\ value'[q] = Requested(a, batch[q].v, batch[q].other).stored
        /\ value'[q] # Nil /\ WellFormed(batch[q].v) /\ Shape(a.type) = "ranked" /\ written'[q] = a
    BY <1>2, <1>6, <1>7
  <1>9. a.type = "ranking"
    BY <1>8 DEF Shape, IsAnswerable, Types, TextTypes, ScaleTypes
  <1>10. PICK source : source = a.source
    OBVIOUS
  <1>11. q \in Dependent(form) /\ source \in Asked
    BY <1>2, <1>5, <1>7, <1>8, <1>9, <1>10 DEF Dependent, IsAnswerable
  <1>12. SourceTaken(form, batch, source) /\ a.choices = RankedFrom(seen, form, batch, source)
    BY <1>4, <1>7, <1>10, <1>11 DEF Ranks
  \* The ids of the ranking are ids of its choices, and it has some.
  <1>13. Requested(a, batch[q].v, batch[q].other) = Ranking(a, batch[q].v, batch[q].other)
    BY <1>9, RequestedIs
  <1>14. PICK chosen : chosen = [i \in 1..Len(ListIn(batch[q].v)) |->
                                   RankedAs(a.choices, ListIn(batch[q].v)[i].id, batch[q].other, i)]
    OBVIOUS
  <1>15. Ranking(a, batch[q].v, batch[q].other).stored # Nil
    BY <1>8, <1>13
  <1>16. Ranking(a, batch[q].v, batch[q].other).stored = [is |-> "ranked", chosen |-> chosen]
    <2>1. PICK v : v = batch[q].v
      OBVIOUS
    <2>2. PICK o : o = batch[q].other
      OBVIOUS
    <2>3. IsAnswerable(a) /\ WellFormed(v) /\ Ranking(a, v, o).stored # Nil
      BY <1>8, <1>15, <2>1, <2>2
    <2>4. chosen = [i \in 1..Len(ListIn(v)) |-> RankedAs(a.choices, ListIn(v)[i].id, o, i)]
      BY <1>14, <2>1, <2>2
    <2>5. Ranking(a, v, o).stored = [is |-> "ranked", chosen |-> chosen]
      BY <2>3, <2>4, RankingStores
    <2> QED BY <2>1, <2>2, <2>5
  <1>17. value'[q].chosen = chosen
    BY <1>8, <1>13, <1>16
  <1>18. Names(a.choices, batch[q].v)
    BY <1>8, <1>15, RankingStores
  <1>19. \A i \in DOMAIN chosen : \E j \in DOMAIN a.choices : chosen[i].id = a.choices[j].id
    <2>1. \A i \in DOMAIN chosen : chosen[i].id = ListIn(batch[q].v)[i].id /\ i \in 1..Len(ListIn(batch[q].v))
      BY <1>14 DEF RankedAs
    <2> QED BY <1>18, <2>1 DEF Names, Has
  <1>20. DOMAIN chosen # {}
    BY <1>14, <1>18 DEF Names
  <1>21. DOMAIN a.choices # {}
    BY <1>19, <1>20
  <1>22. ASSUME value'[source] # Nil,
                \A j \in DOMAIN a.choices : a.choices[j].id \in ChosenIds(value'[source].chosen)
         PROVE  ChosenIds(value'[q].chosen) \subseteq ChosenIds(value'[source].chosen)
    BY <1>17, <1>19, <1>22 DEF ChosenIds
  <1>23. CASE source \in DOMAIN batch
    <2>1. PICK b : b = form[source]
      OBVIOUS
    <2>2. PICK v : v = batch[source].v
      OBVIOUS
    <2>3. PICK o : o = batch[source].other
      OBVIOUS
    <2>4. /\ b.type = "detailed_multiple_choice" /\ IsAnswerable(b) /\ WellFormed(v)
          /\ value'[source] = Requested(b, v, o).stored /\ value'[source] # Nil
      BY <1>6, <1>11, <1>12, <1>23, <2>1, <2>2, <2>3 DEF SourceTaken
    <2>5. value'[source] = MultiChoice(b, v, o).stored
      BY <2>4, RequestedIs
    <2>6. PICK kept : kept = [i \in 1..Len(ListIn(v)) |-> Kept(b.choices, ListIn(v)[i].id, o)]
      OBVIOUS
    <2>7. MultiChoice(b, v, o).stored = [is |-> "choices", chosen |-> kept]
      BY <2>4, <2>5, <2>6, MultiStores
    <2>8. Names(b.choices, v)
      BY <2>4, <2>5, MultiStores
    <2>9. value'[source].chosen = kept
      BY <2>5, <2>7
    <2>10. \A i \in DOMAIN ListIn(v) : ListIn(v)[i].id = kept[i].id /\ i \in DOMAIN kept
      BY <2>6, <2>8 DEF Names, Kept
    <2>11. a.choices = SelectedChoices(b, v)
      BY <1>12, <1>23, <2>1, <2>2 DEF RankedFrom
    <2>12. ASSUME NEW j \in DOMAIN a.choices
           PROVE  a.choices[j].id \in ChosenIds(value'[source].chosen)
      <3>1. PICK i \in DOMAIN ListIn(v) : ListIn(v)[i] = [id |-> b.choices[j].id, as |-> "plain"]
        BY <2>11, <2>12, SelectedAre
      <3>2. a.choices[j] = b.choices[j]
        BY <2>11, <2>12, SelectedAre
      <3>3. a.choices[j].id = kept[i].id /\ i \in DOMAIN kept
        BY <2>10, <3>1, <3>2
      <3> QED BY <2>9, <3>3 DEF ChosenIds
    <2> QED BY <1>8, <1>10, <1>22, <2>4, <2>12
  <1>24. CASE source \notin DOMAIN batch
    <2>1. value'[source] = value[source]
      BY <1>5, <1>11, <1>24
    <2>2. seen[source] = value[source]
      BY <1>3, <1>8, <1>10
    <2>3. a.choices = StoredChoices(value[source])
      BY <1>12, <1>24, <2>2 DEF RankedFrom
    <2>4. /\ value[source] # Nil
          /\ \A i \in DOMAIN a.choices : a.choices[i].id \in ChosenIds(value[source].chosen)
      BY <1>21, <2>3, StoredIds
    <2> QED BY <1>8, <1>10, <1>22, <2>1, <2>4
  <1> QED BY <1>23, <1>24

\* A ranking is of choices that are selected in its source once the request is
\* done, whatever else happens between the reads of Upsert and its write, unless
\* the answer of the source changed after it was read.
THEOREM RankingsFollow == ValuesSpec => RankedWereSelected
  <1>1. ValuesInv /\ [ValuesNext]_valuesVars =>
           [\A p \in Patches, q \in Asked :
              LET source == written'[q].source IN
              /\ patch[p].at = "write" /\ patch'[p].at = "idle"
              /\ q \in DOMAIN patch[p].batch /\ value'[q] # value[q]
              /\ value'[q].is = "ranked" /\ source # Nil
              /\ patch[p].seen[source] = value[source]
              => /\ value'[source] # Nil
                 /\ ChosenIds(value'[q].chosen) \subseteq ChosenIds(value'[source].chosen)]_valuesVars
    BY WriterIs, RankedAreSelected
  <1> QED BY <1>1, Invariant, PTL DEF RankedWereSelected, ValuesSpec

-----------------------------------------------------------------------------
(* What is read back is what was stored.                                   *)

LEMMA ReadBackIs ==
    ASSUME NEW a, NEW s, s.is = Shape(a.type)
    PROVE  /\ a.type = "short_text" => ReadBack(a, s) = ShortTextRead(s)
           /\ a.type = "long_text" => ReadBack(a, s) = LongTextRead(s)
           /\ a.type = "hyperlink" => ReadBack(a, s) = HyperlinkRead(s)
           /\ a.type \in {"single_choice", "dropdown"} => ReadBack(a, s) = SingleChoiceRead(s)
           /\ a.type \in {"multiple_choice", "detailed_multiple_choice"} => ReadBack(a, s) = MultiChoiceRead(s)
           /\ a.type = "ranking" => ReadBack(a, s) = RankingRead(s)
           /\ a.type = "linear_scale" => ReadBack(a, s) = LinearScaleRead(a, s)
           /\ a.type = "rating" => ReadBack(a, s) = RatingRead(a, s)
           /\ a.type = "date" => ReadBack(a, s) = DateRead(s)
           /\ a.type = "oauth_connect" => ReadBack(a, s) = OAuthConnectRead(s)
  <1>1. DecodeStorage(a, s) = s
    BY DEF DecodeStorage
  <1> QED BY <1>1 DEF ReadBack, DetailedMultiChoiceRead

\* The other text of a request is found again in what was kept of its choices.
KeptFor(choices, ids, n, o, s) ==
    /\ n \in Nat /\ s.is \in {"choice", "choices", "ranked"} /\ DOMAIN s.chosen = 1..n
    /\ \A i \in 1..n : s.chosen[i].other = Kept(choices, ids[i], o).other

LEMMA OtherTextFound ==
    ASSUME NEW choices, NEW ids, NEW n, NEW o, NEW s, KeptFor(choices, ids, n, o, s)
    PROVE  \A i \in 1..n : Kept(choices, ids[i], ExtractOtherText(s)) = Kept(choices, ids[i], o)
  <1>1. /\ n \in Nat /\ s.is \in {"choice", "choices", "ranked"} /\ DOMAIN s.chosen = 1..n
        /\ \A i \in 1..n : s.chosen[i].other = Kept(choices, ids[i], o).other
    BY DEF KeptFor
  <1>2. PICK said : said = {i \in DOMAIN s.chosen : s.chosen[i].other # ""}
    OBVIOUS
  <1>3. PICK x : x = ExtractOtherText(s)
    OBVIOUS
  <1>4. x = IF said = {} THEN "" ELSE s.chosen[Min(said)].other
    BY <1>1, <1>2, <1>3 DEF ExtractOtherText
  <1>5. \A i \in 1..n : s.chosen[i].other = IF FindChoice(choices, ids[i]).other THEN o ELSE ""
    BY <1>1 DEF Kept
  <1>6. ASSUME NEW i \in 1..n, FindChoice(choices, ids[i]).other PROVE x = o
    <2>1. CASE said = {}
      <3>1. s.chosen[i].other = ""
        BY <1>1, <1>2, <2>1
      <3> QED BY <1>4, <1>5, <1>6, <2>1, <3>1
    <2>2. CASE said # {}
      <3>1. said \in SUBSET Nat
        <4>1. \A k \in said : k \in 1..n
          BY <1>1, <1>2
        <4> QED BY <1>1, <4>1
      <3>2. Min(said) \in said
        BY <2>2, <3>1, LeastPlace
      <3>3. Min(said) \in 1..n /\ s.chosen[Min(said)].other # ""
        <4>1. \A k \in said : k \in 1..n /\ s.chosen[k].other # ""
          BY <1>1, <1>2
        <4> QED BY <3>2, <4>1
      <3> QED BY <1>4, <1>5, <2>2, <3>3
    <2> QED BY <2>1, <2>2
  <1>7. \A i \in 1..n : (IF FindChoice(choices, ids[i]).other THEN x ELSE "") =
                          (IF FindChoice(choices, ids[i]).other THEN o ELSE "")
    BY <1>6
  <1> QED BY <1>3, <1>7 DEF Kept

LEMMA SentAgain ==
    ASSUME NEW choices, DOMAIN choices \in SUBSET Nat,
           NEW v, WellFormed(v), Picked(choices, v) # Nil,
           NEW n, n = Len(ListIn(v)), NEW chosen, DOMAIN chosen = 1..n,
           \A i \in 1..n : chosen[i].id = ListIn(v)[i].id,
           NEW w, w = ListOf(chosen)
    PROVE  /\ IsA("list", w) /\ n \in Nat \ {0} /\ Len(ListIn(w)) = n /\ DOMAIN ListIn(w) = 1..n
           /\ \A i \in 1..n : /\ ListIn(w)[i].as = "plain" /\ Has(choices, ListIn(w)[i].id)
                              /\ ListIn(w)[i].id = ListIn(v)[i].id
           /\ Picked(choices, w) = Picked(choices, v)
  <1>1. n \in Nat \ {0} /\ \A i \in 1..n : Has(choices, ListIn(v)[i].id)
    BY PickedAre DEF Names
  <1>2. PICK list : list = [i \in 1..n |-> [id |-> chosen[i].id, as |-> "plain"]]
    OBVIOUS
  <1>3. w = [json |-> "list", list |-> list]
    BY <1>2 DEF ListOf
  <1>4. ListIn(w) = list /\ IsA("list", w)
    BY <1>3 DEF ListIn, IsA
  <1>5. DOMAIN list = 1..n /\ Len(list) = n
    BY <1>1, <1>2
  <1>6. \A i \in 1..n : list[i].as = "plain" /\ list[i].id = ListIn(v)[i].id
    BY <1>2
  <1>7. \A i \in 1..n : list[i].as \in {"plain", "other"} /\ Has(choices, list[i].id)
    BY <1>1, <1>6
  <1>8. Picked(choices, w) = [i \in 1..n |-> FindChoice(choices, list[i].id)]
    BY <1>1, <1>4, <1>5, <1>7 DEF Picked
  <1>9. [i \in 1..n |-> FindChoice(choices, list[i].id)] = Found(choices, v)
    BY <1>6 DEF Found
  <1>10. Picked(choices, v) = Found(choices, v)
    BY PickedAre
  <1> QED BY <1>1, <1>4, <1>5, <1>6, <1>7, <1>8, <1>9, <1>10

-----------------------------------------------------------------------------
(* Rankings are shown in the order of their ranks.                         *)

LEMMA RanksBelow ==
    ASSUME NEW n \in Nat, NEW chosen, chosen = [i \in 1..n |-> chosen[i]],
           \A i \in 1..n : chosen[i].rank = i, NEW k \in 1..n
    PROVE  Cardinality({d \in ToSet(chosen) : d.rank < k}) = k - 1
  <1>1. PICK below : below = {d \in ToSet(chosen) : d.rank < k}
    OBVIOUS
  <1>2. PICK f : f = [i \in 1..(k - 1) |-> chosen[i]]
    OBVIOUS
  <1>3. \A i \in 1..(k - 1) : i \in 1..n /\ i < k
    OBVIOUS
  <1>4. \A d : d \in ToSet(chosen) <=> \E i \in 1..n : chosen[i] = d
    BY DEF ToSet
  <1>5. \A i \in 1..(k - 1) : f[i] \in below
    BY <1>1, <1>2, <1>3, <1>4
  <1>6. \A i \in 1..(k - 1) : f[i].rank = i
    BY <1>2, <1>3
  <1>7. ASSUME NEW d \in below PROVE \E i \in 1..(k - 1) : f[i] = d
    <2>1. PICK i \in 1..n : chosen[i] = d
      BY <1>1, <1>4
    <2>2. i < k
      BY <1>1, <2>1
    <2>3. i \in 1..(k - 1)
      BY <2>2
    <2> QED BY <1>2, <2>1, <2>3
  <1>8. f \in [1..(k - 1) -> below]
    BY <1>2, <1>5
  <1>9. f \in Bijection(1..(k - 1), below)
    <2>1. f \in Injection(1..(k - 1), below)
      BY <1>6, <1>8 DEF Injection, IsInjective
    <2>2. f \in Surjection(1..(k - 1), below)
      BY <1>7, <1>8 DEF Surjection
    <2> QED BY <2>1, <2>2 DEF Bijection
  <1>10. ExistsBijection(1..(k - 1), below)
    BY <1>9 DEF ExistsBijection
  <1>11. 1 \in Int /\ k - 1 \in Int
    OBVIOUS
  <1>12. IsFiniteSet(1..(k - 1)) /\ Cardinality(1..(k - 1)) = IF 1 > k - 1 THEN 0 ELSE (k - 1) - 1 + 1
    BY <1>11, FS_Interval
  <1>13. Cardinality(1..(k - 1)) = k - 1
    BY <1>12
  <1>14. Cardinality(below) = Cardinality(1..(k - 1))
    BY <1>10, <1>12, FS_Bijection
  <1> QED BY <1>1, <1>13, <1>14

LEMMA RankedInOrder ==
    ASSUME NEW n \in Nat, NEW chosen, chosen = [i \in 1..n |-> chosen[i]],
           \A i \in 1..n : chosen[i].rank = i
    PROVE  ByRank(chosen) = chosen
  <1>1. PICK ranked : ranked = ToSet(chosen)
    OBVIOUS
  <1>2. \A d : d \in ranked <=> \E i \in 1..n : chosen[i] = d
    BY <1>1 DEF ToSet
  <1>3. \A k \in 1..n : Cardinality({d \in ranked : d.rank < k}) = k - 1
    BY <1>1, RanksBelow
  <1>4. ASSUME NEW r \in 1..n
        PROVE  (CHOOSE c \in ranked : Cardinality({d \in ranked : d.rank < c.rank}) = r - 1) = chosen[r]
    <2>1. chosen[r] \in ranked /\ Cardinality({d \in ranked : d.rank < chosen[r].rank}) = r - 1
      <3>1. chosen[r].rank = r
        OBVIOUS
      <3> QED BY <1>2, <1>3, <3>1
    <2>2. ASSUME NEW c \in ranked, Cardinality({d \in ranked : d.rank < c.rank}) = r - 1
          PROVE  c = chosen[r]
      <3>1. PICK i \in 1..n : chosen[i] = c
        BY <1>2
      <3>2. c.rank = i
        BY <3>1
      <3>3. Cardinality({d \in ranked : d.rank < i}) = i - 1
        BY <1>3
      <3>4. i - 1 = r - 1
        BY <2>2, <3>2, <3>3
      <3> QED BY <3>1, <3>4
    <2> QED BY <2>1, <2>2
  <1>5. ByRank(chosen) =
           [r \in 1..n |-> CHOOSE c \in ranked : Cardinality({d \in ranked : d.rank < c.rank}) = r - 1]
    BY <1>1 DEF ByRank
  <1> QED BY <1>4, <1>5

-----------------------------------------------------------------------------
(* Each type takes what it sent for what it stored.                        *)

TakenAgain(a, s) ==
    /\ Requested(a, ReadBack(a, s).sends, ExtractOtherText(s)).valid
    /\ Requested(a, ReadBack(a, s).sends, ExtractOtherText(s)).stored = s

\* What the patterns of workflow rules meet.
MatchedAsSent(a, s) ==
    \A c : MatchesPattern(a, s, {c})
              <=> \E i \in DOMAIN ReadBack(a, s).sends.list : ReadBack(a, s).sends.list[i].id = c

LEMMA TextAgain ==
    ASSUME NEW a, a.type \in TextTypes, NEW v, NEW o, NEW s, s # Nil, Wrote(s, a, v, o)
    PROVE  TakenAgain(a, s)
  <1>1. PICK x : x = ExtractOtherText(s)
    OBVIOUS
  <1>2. PICK text : text = TextIn(v)
    OBVIOUS
  <1>3. PICK w : w = [json |-> "string", text |-> text]
    OBVIOUS
  <1>4. IsA("string", w) /\ TextIn(w) = text
    BY <1>3 DEF IsA, TextIn
  <1>5. Requested(a, v, o).valid /\ Requested(a, v, o).stored = s
    BY DEF Wrote
  <1>6. CASE a.type = "short_text"
    <2>1. s = [is |-> "text", text |-> text] /\ text.bytes <= 100
      <3>1. Requested(a, v, o) = ShortText(v)
        BY <1>6, RequestedIs
      <3>2. ShortText(v).valid /\ ShortText(v).stored = s
        BY <1>5, <3>1
      <3> QED BY <1>2, <3>2 DEF ShortText
    <2>2. ReadBack(a, s) = ShortTextRead(s)
      BY <1>6, <2>1, ReadBackIs DEF Shape, TextTypes, ScaleTypes
    <2>3. ReadBack(a, s).sends = w
      BY <1>3, <2>1, <2>2 DEF ShortTextRead
    <2>4. Requested(a, w, x) = ShortText(w)
      BY <1>6, RequestedIs
    <2>5. ShortText(w).valid /\ ShortText(w).stored = s
      BY <1>4, <2>1 DEF ShortText
    <2> QED BY <1>1, <2>3, <2>4, <2>5 DEF TakenAgain
  <1>7. CASE a.type = "long_text"
    <2>1. s = [is |-> "text", text |-> text] /\ text.bytes <= 1000
      <3>1. Requested(a, v, o) = LongText(v)
        BY <1>7, RequestedIs
      <3>2. LongText(v).valid /\ LongText(v).stored = s
        BY <1>5, <3>1
      <3> QED BY <1>2, <3>2 DEF LongText
    <2>2. ReadBack(a, s) = LongTextRead(s)
      BY <1>7, <2>1, ReadBackIs DEF Shape, TextTypes, ScaleTypes
    <2>3. ReadBack(a, s).sends = w
      BY <1>3, <2>1, <2>2 DEF LongTextRead
    <2>4. Requested(a, w, x) = LongText(w)
      BY <1>7, RequestedIs
    <2>5. LongText(w).valid /\ LongText(w).stored = s
      BY <1>4, <2>1 DEF LongText
    <2> QED BY <1>1, <2>3, <2>4, <2>5 DEF TakenAgain
  <1>8. CASE a.type = "hyperlink"
    <2>1. s = [is |-> "text", text |-> text] /\ text.bytes <= 100 /\ LinkOrNone(text)
      <3>1. Requested(a, v, o) = Hyperlink(v)
        BY <1>8, RequestedIs
      <3>2. Hyperlink(v).valid /\ Hyperlink(v).stored = s
        BY <1>5, <3>1
      <3> QED BY <1>2, <3>2 DEF Hyperlink
    <2>2. ReadBack(a, s) = HyperlinkRead(s)
      BY <1>8, <2>1, ReadBackIs DEF Shape, TextTypes, ScaleTypes
    <2>3. ReadBack(a, s).sends = w
      BY <1>3, <2>1, <2>2 DEF HyperlinkRead
    <2>4. Requested(a, w, x) = Hyperlink(w)
      BY <1>8, RequestedIs
    <2>5. Hyperlink(w).valid /\ Hyperlink(w).stored = s
      BY <1>4, <2>1 DEF Hyperlink
    <2> QED BY <1>1, <2>3, <2>4, <2>5 DEF TakenAgain
  <1> QED BY <1>6, <1>7, <1>8 DEF TextTypes

LEMMA ScaleAgain ==
    ASSUME NEW a, a.type \in ScaleTypes, NEW v, NEW o, NEW s, s # Nil, Wrote(s, a, v, o)
    PROVE  TakenAgain(a, s)
  <1>1. PICK x : x = ExtractOtherText(s)
    OBVIOUS
  <1>2. PICK number : number = NumberIn(v)
    OBVIOUS
  <1>3. PICK w : w = [json |-> "number", number |-> number]
    OBVIOUS
  <1>4. IsA("number", w) /\ NumberIn(w) = number
    BY <1>3 DEF IsA, NumberIn
  <1>5. Requested(a, v, o).valid /\ Requested(a, v, o).stored = s
    BY DEF Wrote
  <1>6. CASE a.type = "linear_scale"
    <2>1. s = [is |-> "number", number |-> number] /\ InRange(a.meta, number)
      BY <1>2, <1>5, <1>6, RequestedIs DEF LinearScale
    <2>2. ReadBack(a, s) = LinearScaleRead(a, s)
      BY <1>6, <2>1, ReadBackIs DEF Shape, TextTypes, ScaleTypes
    <2>3. ReadBack(a, s).sends = w
      BY <1>3, <2>1, <2>2 DEF LinearScaleRead
    <2>4. Requested(a, w, x) = LinearScale(a, w)
      BY <1>6, RequestedIs
    <2>5. LinearScale(a, w).valid /\ LinearScale(a, w).stored = s
      BY <1>4, <2>1 DEF LinearScale
    <2> QED BY <1>1, <2>3, <2>4, <2>5 DEF TakenAgain
  <1>7. CASE a.type = "rating"
    <2>1. s = [is |-> "number", number |-> number] /\ InRange(a.meta, number)
      BY <1>2, <1>5, <1>7, RequestedIs DEF Rating
    <2>2. ReadBack(a, s) = RatingRead(a, s)
      BY <1>7, <2>1, ReadBackIs DEF Shape, TextTypes, ScaleTypes
    <2>3. ReadBack(a, s).sends = w
      BY <1>3, <2>1, <2>2 DEF RatingRead
    <2>4. Requested(a, w, x) = Rating(a, w)
      BY <1>7, RequestedIs
    <2>5. Rating(a, w).valid /\ Rating(a, w).stored = s
      BY <1>4, <2>1 DEF Rating
    <2> QED BY <1>1, <2>3, <2>4, <2>5 DEF TakenAgain
  <1> QED BY <1>6, <1>7 DEF ScaleTypes

LEMMA AccountAgain ==
    ASSUME NEW a, a.type = "oauth_connect", NEW v, NEW o, NEW s, s # Nil, Wrote(s, a, v, o)
    PROVE  TakenAgain(a, s)
  <1>1. PICK x : x = ExtractOtherText(s)
    OBVIOUS
  <1>2. PICK object : object = ObjectIn(v)
    OBVIOUS
  <1>3. PICK account : account = [object EXCEPT !.files = <<>>]
    OBVIOUS
  <1>4. object = [files |-> object.files, provider |-> object.provider, id |-> object.id,
                  name |-> object.name, email |-> object.email]
    BY <1>2 DEF Wrote, WellFormed
  <1>5. account = [files |-> <<>>, provider |-> object.provider, id |-> object.id,
                   name |-> object.name, email |-> object.email]
    BY <1>3, <1>4
  <1>6. Requested(a, v, o).valid /\ Requested(a, v, o).stored = s
    BY DEF Wrote
  <1>7. s = [is |-> "account", account |-> account] /\ object.provider # "" /\ object.id # ""
    <2>1. Requested(a, v, o) = OAuthConnect(v)
      BY RequestedIs
    <2>2. OAuthConnect(v).valid /\ OAuthConnect(v).stored = s
      BY <1>6, <2>1
    <2>3. OAuthConnect(v).valid = (IsA("object", v) /\ object.provider # "" /\ object.id # "")
      BY <1>2 DEF OAuthConnect
    <2>4. OAuthConnect(v).stored = IF IsA("object", v) THEN [is |-> "account", account |-> account] ELSE Nil
      BY <1>2, <1>3 DEF OAuthConnect
    <2>5. IsA("object", v) /\ object.provider # "" /\ object.id # ""
      BY <2>2, <2>3
    <2> QED BY <2>2, <2>4, <2>5
  <1>8. PICK w : w = [json |-> "object", object |-> account]
    OBVIOUS
  <1>9. IsA("object", w) /\ ObjectIn(w) = account
    BY <1>8 DEF IsA, ObjectIn
  <1>10. ReadBack(a, s) = OAuthConnectRead(s)
    BY <1>7, ReadBackIs DEF Shape, TextTypes, ScaleTypes
  <1>11. PICK shown : shown = SelectSeq(<<s.account.name, s.account.email>>, LAMBDA n : n # "")
    OBVIOUS
  <1>12. OAuthConnectRead(s) =
            [sends |-> [json |-> "object", object |-> s.account], shows |-> shown, matched |-> {shown}]
    BY <1>11 DEF OAuthConnectRead
  <1>13. ReadBack(a, s).sends = w
    <2>1. s.account = account
      BY <1>7
    <2>2. OAuthConnectRead(s).sends = [json |-> "object", object |-> s.account]
      BY <1>12
    <2> QED BY <1>8, <1>10, <2>1, <2>2
  <1>14. [account EXCEPT !.files = <<>>] = account
    BY <1>5
  <1>15. account.provider # "" /\ account.id # ""
    BY <1>5, <1>7
  <1>16. Requested(a, w, x) = OAuthConnect(w)
    BY RequestedIs
  <1>17. Requested(a, w, x).valid /\ Requested(a, w, x).stored = s
    <2>1. OAuthConnect(w).valid /\ OAuthConnect(w).stored = s
      <3>1. OAuthConnect(w).valid = (account.provider # "" /\ account.id # "")
        BY <1>9 DEF OAuthConnect
      <3>2. OAuthConnect(w).stored = [is |-> "account", account |-> account]
        BY <1>9, <1>14 DEF OAuthConnect
      <3> QED BY <1>7, <1>15, <3>1, <3>2
    <2> QED BY <1>16, <2>1
  <1> QED BY <1>1, <1>13, <1>17 DEF TakenAgain

LEMMA SentIsMatched ==
    ASSUME NEW a, NEW s, NEW chosen, ReadBack(a, s).sends = ListOf(chosen),
           ReadBack(a, s).matched = ChosenIds(chosen)
    PROVE  MatchedAsSent(a, s)
  <1>1. PICK list : list = [i \in DOMAIN chosen |-> [id |-> chosen[i].id, as |-> "plain"]]
    OBVIOUS
  <1>2. ListOf(chosen).list = list
    BY <1>1 DEF ListOf
  <1>3. DOMAIN list = DOMAIN chosen /\ \A i \in DOMAIN chosen : list[i].id = chosen[i].id
    BY <1>1
  <1>4. \A c : MatchesPattern(a, s, {c}) <=> c \in ChosenIds(chosen)
    BY DEF MatchesPattern
  <1>5. ReadBack(a, s).sends.list = list
    BY <1>2
  <1>6. \A c : c \in ChosenIds(chosen) <=> \E i \in DOMAIN list : list[i].id = c
    BY <1>3 DEF ChosenIds
  <1> QED BY <1>4, <1>5, <1>6 DEF MatchedAsSent

LEMMA SingleAgain ==
    ASSUME NEW a, IsAnswerable(a), a.type \in {"single_choice", "dropdown"},
           NEW v, NEW o, NEW s, s # Nil, Wrote(s, a, v, o)
    PROVE  TakenAgain(a, s) /\ MatchedAsSent(a, s)
  <1>1. PICK choices : choices = a.choices
    OBVIOUS
  <1>2. DOMAIN choices \in SUBSET Nat
    BY <1>1 DEF IsAnswerable
  <1>3. WellFormed(v) /\ SingleChoice(a, v, o).stored = s
    BY RequestedIs DEF Wrote
  <1>4. PICK sent : sent = ListIn(v)
    OBVIOUS
  <1>5. PICK chosen : chosen = <<Kept(choices, sent[1].id, o)>>
    OBVIOUS
  <1>6. s = [is |-> "choice", chosen |-> chosen] /\ Len(sent) = 1
    BY <1>1, <1>3, <1>4, <1>5, SingleStores
  <1>7. Picked(choices, v) # Nil
    BY <1>1, <1>3 DEF SingleChoice
  <1>8. DOMAIN chosen = 1..1 /\ chosen[1] = Kept(choices, sent[1].id, o)
    BY <1>5
  <1>9. \A i \in 1..1 : i = 1
    OBVIOUS
  <1>10. \A i \in 1..1 : chosen[i].id = sent[i].id
    <2>1. \A id : Kept(choices, id, o).id = id
      BY DEF Kept
    <2> QED BY <1>8, <1>9, <2>1
  <1>11. PICK w : w = ListOf(chosen)
    OBVIOUS
  <1>12. /\ IsA("list", w) /\ Len(ListIn(w)) = 1 /\ DOMAIN ListIn(w) = 1..1
         /\ \A i \in 1..1 : ListIn(w)[i].as = "plain" /\ Has(choices, ListIn(w)[i].id)
         /\ Picked(choices, w) = Picked(choices, v)
    <2>1. PICK n : n = 1
      OBVIOUS
    <2>2. n = Len(ListIn(v)) /\ DOMAIN chosen = 1..n /\ \A i \in 1..n : chosen[i].id = ListIn(v)[i].id
      BY <1>4, <1>6, <1>8, <1>10, <2>1
    <2>3. /\ IsA("list", w) /\ Len(ListIn(w)) = n /\ DOMAIN ListIn(w) = 1..n
          /\ \A i \in 1..n : ListIn(w)[i].as = "plain" /\ Has(choices, ListIn(w)[i].id)
          /\ Picked(choices, w) = Picked(choices, v)
      BY <1>2, <1>3, <1>7, <1>11, <2>2, SentAgain
    <2> QED BY <2>1, <2>3
  <1>13. PICK x : x = ExtractOtherText(s)
    OBVIOUS
  <1>14. Kept(choices, sent[1].id, x) = chosen[1]
    <2>1. PICK ids : ids = [i \in 1..1 |-> sent[i].id]
      OBVIOUS
    <2>2. ids[1] = sent[1].id
      BY <2>1
    <2>3. s.is \in {"choice", "choices", "ranked"} /\ s.chosen = chosen
      BY <1>6
    <2>4. \A i \in 1..1 : s.chosen[i].other = Kept(choices, ids[i], o).other
      BY <1>8, <1>9, <2>2, <2>3
    <2>5. \A i \in 1..1 : Kept(choices, ids[i], x) = Kept(choices, ids[i], o)
      <3>1. PICK n \in Nat : n = 1
        OBVIOUS
      <3>2. DOMAIN s.chosen = 1..n /\ \A i \in 1..n : s.chosen[i].other = Kept(choices, ids[i], o).other
        BY <1>8, <2>3, <2>4, <3>1
      <3>3. \A i \in 1..n : Kept(choices, ids[i], ExtractOtherText(s)) = Kept(choices, ids[i], o)
        <4>1. KeptFor(choices, ids, n, o, s)
          BY <2>3, <3>2 DEF KeptFor
        <4> QED BY <4>1, OtherTextFound
      <3> QED BY <1>13, <3>1, <3>3
    <2> QED BY <1>8, <2>2, <2>5
  <1>15. Snapshot(Picked(choices, w)[1], x) = chosen[1]
    <2>1. Snapshot(Picked(choices, v)[1], x) = Kept(choices, sent[1].id, x)
      <3>1. \A i \in 1..Len(ListIn(v)) : Snapshot(Picked(choices, v)[i], x) = Kept(choices, ListIn(v)[i].id, x)
        BY <1>2, <1>3, <1>7, PickedAre
      <3> QED BY <1>4, <1>6, <3>1
    <2> QED BY <1>12, <1>14, <2>1
  <1>16. <<chosen[1]>> = chosen
    BY <1>5
  <1>17. SingleChoice(a, w, x).valid
    BY <1>1, <1>12 DEF SingleChoice
  <1>18. SingleChoice(a, w, x).stored = s
    <2>1. SingleChoice(a, w, x).stored = [is |-> "choice", chosen |-> <<Snapshot(Picked(choices, w)[1], x)>>]
      BY <1>1, <1>7, <1>12 DEF SingleChoice
    <2> QED BY <1>6, <1>15, <1>16, <2>1
  <1>19. Requested(a, w, x) = SingleChoice(a, w, x)
    BY RequestedIs
  <1>20. ReadBack(a, s) = SingleChoiceRead(s)
    BY <1>6, ReadBackIs DEF Shape, TextTypes, ScaleTypes
  <1>21. ReadBack(a, s).sends = w /\ ReadBack(a, s).matched = ChosenIds(chosen)
    BY <1>6, <1>11, <1>20 DEF SingleChoiceRead
  <1>22. TakenAgain(a, s)
    BY <1>13, <1>17, <1>18, <1>19, <1>21 DEF TakenAgain
  <1>23. MatchedAsSent(a, s)
    BY <1>11, <1>21, SentIsMatched
  <1> QED BY <1>22, <1>23

LEMMA MultiAgain ==
    ASSUME NEW a, IsAnswerable(a), a.type \in {"multiple_choice", "detailed_multiple_choice"},
           NEW v, NEW o, NEW s, s # Nil, Wrote(s, a, v, o)
    PROVE  TakenAgain(a, s) /\ MatchedAsSent(a, s)
  <1>1. PICK choices : choices = a.choices
    OBVIOUS
  <1>2. DOMAIN choices \in SUBSET Nat
    BY <1>1 DEF IsAnswerable
  <1>3. WellFormed(v) /\ MultiChoice(a, v, o).stored = s
    BY RequestedIs DEF Wrote
  <1>4. PICK sent : sent = ListIn(v)
    OBVIOUS
  <1>5. PICK n : n = Len(sent)
    OBVIOUS
  <1>6. PICK chosen : chosen = [i \in 1..n |-> Kept(choices, sent[i].id, o)]
    OBVIOUS
  <1>7. s = [is |-> "choices", chosen |-> chosen]
    <2>1. PICK kept : kept = [i \in 1..Len(ListIn(v)) |-> Kept(a.choices, ListIn(v)[i].id, o)]
      OBVIOUS
    <2>2. MultiChoice(a, v, o).stored = [is |-> "choices", chosen |-> kept]
      <3>1. MultiChoice(a, v, o).stored # Nil
        BY <1>3
      <3>2. WellFormed(v)
        BY <1>3
      <3> QED BY <2>1, <3>1, <3>2, MultiStores
    <2>3. kept = chosen
      BY <1>1, <1>4, <1>5, <1>6, <2>1
    <2> QED BY <1>3, <2>2, <2>3
  <1>8. Picked(choices, v) # Nil
    BY <1>1, <1>3 DEF MultiChoice
  <1>9. DOMAIN chosen = 1..n /\ \A i \in 1..n : chosen[i] = Kept(choices, sent[i].id, o)
    BY <1>6
  <1>10. \A i \in 1..n : chosen[i].id = sent[i].id
    <2>1. \A id : Kept(choices, id, o).id = id
      BY DEF Kept
    <2> QED BY <1>9, <2>1
  <1>11. PICK w : w = ListOf(chosen)
    OBVIOUS
  <1>12. /\ IsA("list", w) /\ n \in Nat \ {0} /\ Len(ListIn(w)) = n /\ DOMAIN ListIn(w) = 1..n
         /\ \A i \in 1..n : ListIn(w)[i].as = "plain" /\ Has(choices, ListIn(w)[i].id)
         /\ Picked(choices, w) = Picked(choices, v)
    BY <1>2, <1>3, <1>4, <1>5, <1>8, <1>9, <1>10, <1>11, SentAgain
  <1>13. PICK x : x = ExtractOtherText(s)
    OBVIOUS
  <1>14. \A i \in 1..n : Kept(choices, sent[i].id, x) = chosen[i]
    <2>1. PICK ids : ids = [i \in 1..n |-> sent[i].id]
      OBVIOUS
    <2>2. \A i \in 1..n : ids[i] = sent[i].id
      BY <2>1
    <2>3. s.is \in {"choice", "choices", "ranked"} /\ s.chosen = chosen
      BY <1>7
    <2>4. \A i \in 1..n : s.chosen[i].other = Kept(choices, ids[i], o).other
      BY <1>9, <2>2, <2>3
    <2>5. \A i \in 1..n : Kept(choices, ids[i], x) = Kept(choices, ids[i], o)
      <3>1. DOMAIN s.chosen = 1..n /\ n \in Nat
        BY <1>9, <1>12, <2>3
      <3>2. s.is \in {"choice", "choices", "ranked"}
        BY <2>3
      <3>3. \A i \in 1..n : Kept(choices, ids[i], ExtractOtherText(s)) = Kept(choices, ids[i], o)
        <4>1. KeptFor(choices, ids, n, o, s)
          BY <2>4, <3>1, <3>2 DEF KeptFor
        <4> QED BY <4>1, OtherTextFound
      <3> QED BY <1>13, <3>3
    <2> QED BY <1>9, <2>2, <2>5
  <1>15. \A i \in 1..n : Snapshot(Picked(choices, v)[i], x) = Kept(choices, sent[i].id, x)
    <2>1. \A i \in 1..Len(ListIn(v)) : Snapshot(Picked(choices, v)[i], x) = Kept(choices, ListIn(v)[i].id, x)
      BY <1>2, <1>3, <1>8, PickedAre
    <2> QED BY <1>4, <1>5, <2>1
  <1>16. DOMAIN Picked(choices, v) = 1..n
    <2>1. Picked(choices, v) = Found(choices, v)
      BY <1>2, <1>3, <1>8, PickedAre
    <2> QED BY <1>4, <1>5, <2>1 DEF Found
  <1>17. [i \in DOMAIN Picked(choices, v) |-> Snapshot(Picked(choices, v)[i], x)] = chosen
    BY <1>6, <1>9, <1>14, <1>15, <1>16
  <1>18. MultiChoice(a, w, x).valid
    BY <1>1, <1>12 DEF MultiChoice
  <1>19. MultiChoice(a, w, x).stored = s
    <2>1. PICK picked : picked = Picked(choices, w)
      OBVIOUS
    <2>2. MultiChoice(a, w, x).stored =
             [is |-> "choices", chosen |-> [i \in DOMAIN picked |-> Snapshot(picked[i], x)]]
      BY <1>1, <1>8, <1>12, <2>1 DEF MultiChoice
    <2>3. [i \in DOMAIN picked |-> Snapshot(picked[i], x)] = chosen
      BY <1>12, <1>17, <2>1
    <2> QED BY <1>7, <2>2, <2>3
  <1>20. Requested(a, w, x) = MultiChoice(a, w, x)
    BY RequestedIs
  <1>21. ReadBack(a, s) = MultiChoiceRead(s)
    BY <1>7, ReadBackIs DEF Shape, TextTypes, ScaleTypes
  <1>22. ReadBack(a, s).sends = w /\ ReadBack(a, s).matched = ChosenIds(chosen)
    BY <1>7, <1>11, <1>21 DEF MultiChoiceRead
  <1>23. TakenAgain(a, s)
    BY <1>13, <1>18, <1>19, <1>20, <1>22 DEF TakenAgain
  <1>24. MatchedAsSent(a, s)
    BY <1>11, <1>22, SentIsMatched
  <1> QED BY <1>23, <1>24

LEMMA RankingAgain ==
    ASSUME NEW a, IsAnswerable(a), a.type = "ranking", NEW v, NEW o, NEW s, s # Nil, Wrote(s, a, v, o)
    PROVE  TakenAgain(a, s) /\ MatchedAsSent(a, s)
  <1>1. PICK choices : choices = a.choices
    OBVIOUS
  <1>2. DOMAIN choices \in SUBSET Nat
    BY <1>1 DEF IsAnswerable
  <1>3. WellFormed(v) /\ Ranking(a, v, o).stored = s
    BY RequestedIs DEF Wrote
  <1>4. PICK sent : sent = ListIn(v)
    OBVIOUS
  <1>5. PICK n : n = Len(sent)
    OBVIOUS
  <1>6. PICK chosen : chosen = [i \in 1..n |-> RankedAs(choices, sent[i].id, o, i)]
    OBVIOUS
  <1>7. s = [is |-> "ranked", chosen |-> chosen]
    <2>1. PICK kept : kept = [i \in 1..Len(ListIn(v)) |-> RankedAs(a.choices, ListIn(v)[i].id, o, i)]
      OBVIOUS
    <2>2. Ranking(a, v, o).stored = [is |-> "ranked", chosen |-> kept]
      BY <1>3, <2>1, RankingStores
    <2>3. kept = chosen
      BY <1>1, <1>4, <1>5, <1>6, <2>1
    <2> QED BY <1>3, <2>2, <2>3
  <1>8. Picked(choices, v) # Nil
    BY <1>1, <1>3 DEF Ranking
  <1>9. DOMAIN chosen = 1..n /\ \A i \in 1..n : chosen[i] = RankedAs(choices, sent[i].id, o, i)
    BY <1>6
  <1>10. \A i \in 1..n : /\ chosen[i].id = sent[i].id /\ chosen[i].rank = i
                         /\ chosen[i].other = Kept(choices, sent[i].id, o).other
    BY <1>9 DEF RankedAs
  <1>11. PICK w : w = ListOf(chosen)
    OBVIOUS
  <1>12. /\ IsA("list", w) /\ n \in Nat \ {0} /\ Len(ListIn(w)) = n /\ DOMAIN ListIn(w) = 1..n
         /\ \A i \in 1..n : ListIn(w)[i].as = "plain" /\ Has(choices, ListIn(w)[i].id)
         /\ Picked(choices, w) = Picked(choices, v)
    BY <1>2, <1>3, <1>4, <1>5, <1>8, <1>9, <1>10, <1>11, SentAgain
  <1>13. PICK x : x = ExtractOtherText(s)
    OBVIOUS
  <1>14. \A i \in 1..n : Kept(choices, sent[i].id, x) = Kept(choices, sent[i].id, o)
    <2>1. PICK ids : ids = [i \in 1..n |-> sent[i].id]
      OBVIOUS
    <2>2. \A i \in 1..n : ids[i] = sent[i].id
      BY <2>1
    <2>3. s.is \in {"choice", "choices", "ranked"} /\ s.chosen = chosen
      BY <1>7
    <2>4. \A i \in 1..n : s.chosen[i].other = Kept(choices, ids[i], o).other
      BY <1>10, <2>2, <2>3
    <2>5. \A i \in 1..n : Kept(choices, ids[i], x) = Kept(choices, ids[i], o)
      <3>1. DOMAIN s.chosen = 1..n /\ n \in Nat
        BY <1>9, <1>12, <2>3
      <3>2. s.is \in {"choice", "choices", "ranked"}
        BY <2>3
      <3>3. \A i \in 1..n : Kept(choices, ids[i], ExtractOtherText(s)) = Kept(choices, ids[i], o)
        <4>1. KeptFor(choices, ids, n, o, s)
          BY <2>4, <3>1, <3>2 DEF KeptFor
        <4> QED BY <4>1, OtherTextFound
      <3> QED BY <1>13, <3>3
    <2> QED BY <2>2, <2>5
  <1>15. \A i \in 1..n : Snapshot(Picked(choices, v)[i], x) = Kept(choices, sent[i].id, o)
    <2>1. \A i \in 1..Len(ListIn(v)) : Snapshot(Picked(choices, v)[i], x) = Kept(choices, ListIn(v)[i].id, x)
      BY <1>2, <1>3, <1>8, PickedAre
    <2> QED BY <1>4, <1>5, <1>14, <2>1
  <1>16. DOMAIN Picked(choices, v) = 1..n
    <2>1. Picked(choices, v) = Found(choices, v)
      BY <1>2, <1>3, <1>8, PickedAre
    <2> QED BY <1>4, <1>5, <2>1 DEF Found
  <1>17. Ranking(a, w, x).valid
    <2>1. MultiChoice(a, w, x).valid
      BY <1>1, <1>12 DEF MultiChoice
    <2>2. Ranking(a, w, x).valid = MultiChoice(a, w, x).valid
      BY DEF Ranking
    <2> QED BY <2>1, <2>2
  <1>18. Ranking(a, w, x).stored = s
    <2>1. PICK picked : picked = Picked(choices, w)
      OBVIOUS
    <2>2. PICK ranked : ranked = [i \in DOMAIN picked |->
                  [id |-> Snapshot(picked[i], x).id, name |-> Snapshot(picked[i], x).name,
                   other |-> Snapshot(picked[i], x).other, rank |-> i]]
      OBVIOUS
    <2>3. Ranking(a, w, x).stored = [is |-> "ranked", chosen |-> ranked]
      BY <1>1, <1>8, <1>12, <2>1, <2>2 DEF Ranking
    <2>4. DOMAIN picked = 1..n /\ \A i \in 1..n : Snapshot(picked[i], x) = Kept(choices, sent[i].id, o)
      BY <1>12, <1>15, <1>16, <2>1
    <2>5. \A i \in 1..n :
             [id |-> Snapshot(picked[i], x).id, name |-> Snapshot(picked[i], x).name,
              other |-> Snapshot(picked[i], x).other, rank |-> i] = RankedAs(choices, sent[i].id, o, i)
      <3>1. \A id : Kept(choices, id, o).id = id
        BY DEF Kept
      <3> QED BY <2>4, <3>1 DEF RankedAs
    <2>6. ranked = chosen
      BY <1>6, <2>2, <2>4, <2>5
    <2> QED BY <1>7, <2>3, <2>6
  <1>19. Requested(a, w, x) = Ranking(a, w, x)
    BY RequestedIs
  <1>20. ReadBack(a, s) = RankingRead(s)
    BY <1>7, ReadBackIs DEF Shape, TextTypes, ScaleTypes
  <1>21. ByRank(s.chosen) = chosen
    <2>1. chosen = [i \in 1..n |-> chosen[i]]
      BY <1>6, <1>9
    <2>2. ByRank(chosen) = chosen
      BY <1>10, <1>12, <2>1, RankedInOrder
    <2> QED BY <1>7, <2>2
  <1>22. ReadBack(a, s).sends = w /\ ReadBack(a, s).matched = ChosenIds(chosen)
    BY <1>7, <1>11, <1>20, <1>21 DEF RankingRead
  <1>23. TakenAgain(a, s)
    BY <1>13, <1>17, <1>18, <1>19, <1>22 DEF TakenAgain
  <1>24. MatchedAsSent(a, s)
    BY <1>11, <1>22, SentIsMatched
  <1> QED BY <1>23, <1>24

-----------------------------------------------------------------------------
(* Dates.                                                                  *)

DateOf(parts, day) ==
    [is |-> "date", year |-> IF "year" \in parts THEN day[1] ELSE Nil,
     month |-> IF "month" \in parts THEN day[2] ELSE Nil,
     day |-> IF "day" \in parts THEN day[3] ELSE Nil]

LEMMA DateStores ==
    ASSUME NEW a, a.type = "date", NEW v, NEW o, NEW s, s # Nil, Wrote(s, a, v, o)
    PROVE  \E day \in Calendar : s = DateOf(DateMeta(a).parts, day) /\ WithinBounds(DateMeta(a), day)
  <1>1. PICK meta : meta = DateMeta(a)
    OBVIOUS
  <1>2. PICK day : day = TextIn(v).day
    OBVIOUS
  <1>3. day \in Calendar \union {Nil}
    BY <1>2 DEF Wrote, WellFormed
  <1>4. Date(a, v).stored = s
    BY RequestedIs DEF Wrote
  <1>5. /\ IsA("string", v) /\ day # Nil /\ WithinBounds(meta, day)
        /\ s = DateOf(meta.parts, day)
    <2>1. Date(a, v).stored = IF ~(IsA("string", v) /\ day # Nil /\ WithinBounds(meta, day)) THEN Nil
                              ELSE DateOf(meta.parts, day)
      BY <1>1, <1>2 DEF Date, DateOf
    <2> QED BY <1>4, <2>1
  <1> QED BY <1>1, <1>3, <1>5

LEMMA NormalDays ==
    ASSUME NEW y \in Nat, NEW m \in 1..12, NEW d \in 1..31, m = 1 \/ d = 1
    PROVE  <<y, m, d>> \in Calendar
  <1>1. PICK day : day = <<y, m, d>>
    OBVIOUS
  <1>2. day \in Nat \X (1..12) \X (1..31) /\ day[2] = m /\ day[3] = d
    BY <1>1
  <1>3. PICK leap \in BOOLEAN : leap <=> (day[1] % 4 = 0 /\ day[1] % 100 # 0) \/ day[1] % 400 = 0
    OBVIOUS
  <1>4. PICK last : last = CASE day[2] = 2 -> IF leap THEN 29 ELSE 28
                             [] day[2] \in {4, 6, 9, 11} -> 30
                             [] OTHER -> 31
    OBVIOUS
  <1>5. Normal(day) = IF day[3] <= last THEN day ELSE <<day[1], day[2] + 1, day[3] - last>>
    BY <1>3, <1>4 DEF Normal
  <1>6. day[3] <= last
    <2>1. CASE m = 2
      <3>1. last = IF leap THEN 29 ELSE 28
        BY <1>2, <1>4, <2>1
      <3>2. d = 1
        BY <2>1
      <3> QED BY <1>2, <1>3, <3>1, <3>2
    <2>2. CASE m # 2 /\ m \in {4, 6, 9, 11}
      <3>1. last = 30
        BY <1>2, <1>4, <2>2
      <3>2. d = 1
        BY <2>2
      <3> QED BY <1>2, <3>1, <3>2
    <2>3. CASE m # 2 /\ m \notin {4, 6, 9, 11}
      <3>1. last = 31
        BY <1>2, <1>4, <2>3
      <3> QED BY <1>2, <3>1
    <2> QED BY <2>1, <2>2, <2>3
  <1> QED BY <1>1, <1>2, <1>5, <1>6 DEF Calendar

LEMMA CalendarDay ==
    ASSUME NEW day \in Calendar
    PROVE  /\ day[1] \in Nat /\ day[2] \in 1..12 /\ day[3] \in 1..31
           /\ day = <<day[1], day[2], day[3]>> /\ Normal(day) = day
           /\ day # Nil /\ day[1] # Nil /\ day[2] # Nil /\ day[3] # Nil
  <1>1. day \in Nat \X (1..12) \X (1..31) /\ Normal(day) = day
    BY DEF Calendar
  <1>2. day[1] \in Nat /\ day[2] \in 1..12 /\ day[3] \in 1..31 /\ day = <<day[1], day[2], day[3]>>
    BY <1>1
  <1>3. Nil \notin Nat /\ Nil \notin Calendar
    BY EditsAssumption
  <1>4. day[2] \in Nat /\ day[3] \in Nat
    BY <1>2
  <1> QED BY <1>1, <1>2, <1>3, <1>4

LEMMA DateAgain ==
    ASSUME NEW a, a.type = "date", SentAsItWas(a), NEW v, NEW o, NEW s, s # Nil, Wrote(s, a, v, o)
    PROVE  TakenAgain(a, s)
  <1>1. PICK x : x = ExtractOtherText(s)
    OBVIOUS
  <1>2. PICK meta : meta = DateMeta(a)
    OBVIOUS
  <1>3. PICK day \in Calendar : s = DateOf(meta.parts, day) /\ WithinBounds(meta, day)
    BY <1>2, DateStores
  <1>4. "year" \in meta.parts
        /\ (meta.parts = {"year", "month", "day"} \/ (meta.from = Nil /\ meta.to = Nil))
    BY <1>2 DEF SentAsItWas
  <1>5. PICK m : m = IF "month" \in meta.parts THEN day[2] ELSE 1
    OBVIOUS
  <1>6. PICK d : d = IF "day" \in meta.parts THEN day[3] ELSE 1
    OBVIOUS
  <1>7. PICK again : again = <<day[1], m, d>>
    OBVIOUS
  <1>8. again \in Calendar
    <2>1. day[1] \in Nat /\ m \in 1..12 /\ d \in 1..31
      BY <1>5, <1>6, CalendarDay
    <2>2. CASE m = 1 \/ d = 1
      BY <1>7, <2>1, <2>2, NormalDays
    <2>3. CASE m # 1 /\ d # 1
      <3>1. m = day[2] /\ d = day[3]
        BY <1>5, <1>6, <2>3
      <3> QED BY <1>7, <3>1, CalendarDay
    <2> QED BY <2>2, <2>3
  <1>9. DateSent(s) = again
    <2>1. s.year = day[1] /\ s.year # Nil
      BY <1>3, <1>4, CalendarDay DEF DateOf
    <2>2. (IF s.month = Nil THEN 1 ELSE s.month) = m
      BY <1>3, <1>5, CalendarDay DEF DateOf
    <2>3. (IF s.day = Nil THEN 1 ELSE s.day) = d
      BY <1>3, <1>6, CalendarDay DEF DateOf
    <2>4. DateSent(s) = Normal(again)
      BY <1>7, <2>1, <2>2, <2>3 DEF DateSent
    <2> QED BY <1>8, <2>4, CalendarDay
  <1>10. PICK w : w = [json |-> "string", text |-> [bytes |-> 20, link |-> FALSE, day |-> again]]
    OBVIOUS
  <1>11. IsA("string", w) /\ TextIn(w).day = again
    BY <1>10 DEF IsA, TextIn
  <1>12. ReadBack(a, s).sends = w
    <2>1. s.is = "date"
      BY <1>3 DEF DateOf
    <2>2. ReadBack(a, s) = DateRead(s)
      BY <2>1, ReadBackIs DEF Shape, TextTypes, ScaleTypes
    <2>3. PICK parts : parts = SelectSeq(<<s.year, s.month, s.day>>, LAMBDA n : n # Nil)
      OBVIOUS
    <2>4. DateRead(s) = [sends |-> [json |-> "string", text |-> [bytes |-> 20, link |-> FALSE, day |-> DateSent(s)]],
                         shows |-> parts, matched |-> {parts}]
      BY <2>3 DEF DateRead
    <2> QED BY <1>9, <1>10, <2>2, <2>4
  <1>13. WithinBounds(meta, again)
    <2>1. CASE meta.from = Nil /\ meta.to = Nil
      BY <2>1 DEF WithinBounds
    <2>2. CASE meta.parts = {"year", "month", "day"}
      <3>1. m = day[2] /\ d = day[3]
        BY <1>5, <1>6, <2>2
      <3>2. again = day
        BY <1>7, <3>1, CalendarDay
      <3> QED BY <1>3, <3>2
    <2> QED BY <1>4, <2>1, <2>2
  <1>14. DateOf(meta.parts, again) = s
    <2>1. again[1] = day[1] /\ again[2] = m /\ again[3] = d
      BY <1>7
    <2>2. "month" \in meta.parts => again[2] = day[2]
      BY <1>5, <2>1
    <2>3. "day" \in meta.parts => again[3] = day[3]
      BY <1>6, <2>1
    <2> QED BY <1>3, <2>1, <2>2, <2>3 DEF DateOf
  <1>15. again # Nil
    BY <1>8, CalendarDay
  <1>16. Date(a, w).valid
    BY <1>2, <1>11, <1>13, <1>15 DEF Date
  <1>17. Date(a, w).stored = DateOf(meta.parts, again)
    BY <1>2, <1>11, <1>13, <1>15 DEF Date, DateOf
  <1>18. Requested(a, w, x) = Date(a, w)
    BY RequestedIs
  <1> QED BY <1>1, <1>12, <1>14, <1>16, <1>17, <1>18 DEF TakenAgain

-----------------------------------------------------------------------------
(* What is stored can be read.                                             *)

LEMMA StillReadable ==
    ASSUME NEW a, NEW then, IsAnswerable(then), StillAsks(a, then),
           NEW v, NEW o, NEW s, s # Nil, Wrote(s, then, v, o)
    PROVE  Readable(a, s)
  <1>1. s.is = Shape(then.type)
    BY StoredShape DEF Wrote
  <1>2. a.type = then.type /\ (a.type = "date" => DateMeta(a).parts \subseteq DateMeta(then).parts)
    BY DEF StillAsks
  <1>3. {s.is, Shape(a.type)} # {"text", "number"}
    BY <1>1, <1>2
  <1>4. ASSUME a.type = "date"
        PROVE  /\ s.is = "date"
               /\ "year" \in DateMeta(a).parts => s.year # Nil
               /\ "month" \in DateMeta(a).parts => s.month # Nil
               /\ "day" \in DateMeta(a).parts => s.day # Nil
    <2>1. then.type = "date"
      BY <1>2, <1>4
    <2>2. PICK day \in Calendar : s = DateOf(DateMeta(then).parts, day)
      BY <2>1, DateStores
    <2>3. s.is = "date"
      BY <2>2 DEF DateOf
    <2>4. "year" \in DateMeta(a).parts => s.year # Nil
      BY <1>2, <1>4, <2>2, CalendarDay DEF DateOf
    <2>5. "month" \in DateMeta(a).parts => s.month # Nil
      BY <1>2, <1>4, <2>2, CalendarDay DEF DateOf
    <2>6. "day" \in DateMeta(a).parts => s.day # Nil
      BY <1>2, <1>4, <2>2, CalendarDay DEF DateOf
    <2> QED BY <2>3, <2>4, <2>5, <2>6
  <1> QED BY <1>3, <1>4 DEF Readable

LEMMA SentIsTaken ==
    ASSUME NEW a, IsAnswerable(a), NEW v, NEW o, NEW s, s # Nil, Wrote(s, a, v, o)
    PROVE  /\ SentAsItWas(a) => TakenAgain(a, s)
           /\ a.type \in ChoiceTypes => MatchedAsSent(a, s)
  <1>1. a.type \in ChoiceTypes => TakenAgain(a, s) /\ MatchedAsSent(a, s)
    BY SingleAgain, MultiAgain, RankingAgain DEF ChoiceTypes
  <1>2. ASSUME SentAsItWas(a), a.type \notin ChoiceTypes PROVE TakenAgain(a, s)
    <2>1. a.type # "upload_file"
      BY <1>2 DEF SentAsItWas
    <2>2. a.type \in TextTypes \/ a.type \in ScaleTypes \/ a.type = "date" \/ a.type = "oauth_connect"
      BY <1>2, <2>1 DEF IsAnswerable, Types, ChoiceTypes, TextTypes, ScaleTypes
    <2> QED BY <1>2, <2>2, TextAgain, ScaleAgain, DateAgain, AccountAgain
  <1> QED BY <1>1, <1>2

\* The questions of the form can always be built, and what is stored for one is read
\* back as it was meant, whatever updates and requests came in between.
THEOREM AnswersKept == ValuesSpec => []AnswersReadBack
  <1>1. ValuesInv => AnswersReadBack
    <2>1. SUFFICES ASSUME ValuesInv PROVE AnswersReadBack
      OBVIOUS
    <2>2. DOMAIN row \subseteq Asked /\ \A q \in DOMAIN row : \E n \in 0..MaxEdits : row[q] \in Rows(n)
      BY <2>1 DEF ValuesInv, RowInv
    <2>3. \A q \in DOMAIN row : Built(row[q])
      BY <2>2, RowIsBuilt
    <2>4. ASSUME NEW q \in DOMAIN row, value[q] # Nil
          PROVE  /\ StillAsks(Answerable(row[q]), written[q]) => Readable(Answerable(row[q]), value[q])
                 /\ SentAsItWas(written[q]) => TakenAgain(written[q], value[q])
                 /\ written[q].type \in ChoiceTypes => MatchedAsSent(written[q], value[q])
      <3>1. ValueOk(value[q], written[q])
        BY <2>1, <2>2 DEF ValuesInv
      <3>2. PICK v, o : Wrote(value[q], written[q], v, o)
        BY <2>4, <3>1 DEF ValueOk
      <3>3. IsAnswerable(written[q])
        BY <2>4, <3>1 DEF ValueOk
      <3>4. StillAsks(Answerable(row[q]), written[q]) => Readable(Answerable(row[q]), value[q])
        BY <2>4, <3>2, <3>3, StillReadable
      <3> QED BY <2>4, <3>2, <3>3, <3>4, SentIsTaken
    <2> QED BY <2>3, <2>4 DEF AnswersReadBack, TakenAgain, MatchedAsSent
  <1> QED BY <1>1, Invariant, PTL
=============================================================================
