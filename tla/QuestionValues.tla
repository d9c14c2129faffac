--------------------------- MODULE QuestionValues ---------------------------
(***************************************************************************)
(* What a question of each type lets in, stores and gives back             *)
(* (internal/form/question: choice, date, scale, text, file and oauth).    *)
(*                                                                         *)
(* A question has a type, its metadata, a source (another question whose   *)
(* answer holds the choices) and choices: those of its metadata, or those  *)
(* put in for the source.  Nil is NULL and nil.                            *)
(*                                                                         *)
(* A sent value v is the JSON of a request: json says which kind it is, and *)
(* v holds text, number, list or object accordingly.  A text is its length *)
(* in bytes, whether it is an http(s) URL, and the day it is when it is a  *)
(* date.  An element of a list is an id and how it is spelled: "plain" as  *)
(* uuid.String does, "padded" with spaces, "other" in another way that     *)
(* uuid.Parse takes, "blank" or "bad".                                     *)
(*                                                                         *)
(* For every type X, X(a, v, ..) is what Validate says of v, and what      *)
(* DecodeRequest makes of it for storage, Nil when it refuses.  XRead is   *)
(* what EncodeRequest sends of a stored value, what DisplayValue shows and *)
(* the texts or ids that MatchesPattern tries.                             *)
(***************************************************************************)
EXTENDS Integers, Sequences, FiniteSets, SequencesExt

CONSTANTS Nil,
          Icons,        \* icons.json
          FileTypes     \* the extensions upload questions may allow

Types == {"short_text", "long_text", "hyperlink", "single_choice", "multiple_choice", "dropdown",
          "detailed_multiple_choice", "ranking", "linear_scale", "rating", "date",
          "oauth_connect", "upload_file"}

TextTypes  == {"short_text", "long_text", "hyperlink"}
ScaleTypes == {"linear_scale", "rating"}

(* ChoiceTypes of types.go. *)
ChoiceTypes == {"single_choice", "multiple_choice", "dropdown", "detailed_multiple_choice", "ranking"}

-----------------------------------------------------------------------------
(* Unmarshalling a sent value: null is the zero value of any type.          *)

NoText   == [bytes |-> 0, link |-> FALSE, day |-> Nil]
NoObject == [files |-> <<>>, provider |-> "", id |-> "", name |-> "", email |-> ""]

IsA(kind, v)  == v.json \in {kind, "null"}
TextIn(v)     == IF v.json = "string" THEN v.text   ELSE NoText
NumberIn(v)   == IF v.json = "number" THEN v.number ELSE 0
ListIn(v)     == IF v.json = "list"   THEN v.list   ELSE <<>>
ObjectIn(v)   == IF v.json = "object" THEN v.object ELSE NoObject

-----------------------------------------------------------------------------
(* Texts.  Only Validate looks at their length.                            *)

ShortText(v) ==
    [valid  |-> IsA("string", v) /\ TextIn(v).bytes <= 100,
     stored |-> IF IsA("string", v) THEN [is |-> "text", text |-> TextIn(v)] ELSE Nil]

ShortTextRead(s) ==
    [sends |-> [json |-> "string", text |-> s.text], shows |-> s.text, matched |-> {s.text}]

LongText(v) ==
    [valid  |-> IsA("string", v) /\ TextIn(v).bytes <= 1000,
     stored |-> IF IsA("string", v) THEN [is |-> "text", text |-> TextIn(v)] ELSE Nil]

(* The display is cut, the pattern meets the whole text. *)
LongTextRead(s) ==
    [sends |-> [json |-> "string", text |-> s.text], matched |-> {s.text},
     shows |-> IF s.text.bytes > 100 THEN [s.text EXCEPT !.bytes = 103] ELSE s.text]

(* validateURL; no text is a link as well. *)
LinkOrNone(text) == text.bytes = 0 \/ text.link

Hyperlink(v) ==
    [valid  |-> IsA("string", v) /\ TextIn(v).bytes <= 100 /\ LinkOrNone(TextIn(v)),
     stored |-> IF IsA("string", v) THEN [is |-> "text", text |-> TextIn(v)] ELSE Nil]

HyperlinkRead(s) ==
    [sends |-> [json |-> "string", text |-> s.text], shows |-> s.text, matched |-> {s.text}]

-----------------------------------------------------------------------------
(* Choices.  Validate compares spellings, DecodeRequest the ids they parse  *)
(* to; Validate lets an empty selection pass, DecodeRequest does not.       *)

Has(choices, id) == \E i \in DOMAIN choices : choices[i].id = id

(* The first one. *)
FindChoice(choices, id) == choices[Min({i \in DOMAIN choices : choices[i].id = id})]

(* The choices sent, in their order; Nil without one, or with a wrong one. *)
Picked(choices, v) ==
    LET sent == ListIn(v) IN
    IF /\ IsA("list", v) /\ Len(sent) >= 1
       /\ \A i \in DOMAIN sent : sent[i].as \in {"plain", "other"} /\ Has(choices, sent[i].id)
      THEN [i \in DOMAIN sent |-> FindChoice(choices, sent[i].id)]
      ELSE Nil

(* What is kept of a choice: the text of the respondent with an "other" one. *)
Snapshot(c, otherText) ==
    [id |-> c.id, name |-> c.name, other |-> IF c.other THEN otherText ELSE ""]

ChosenIds(chosen) == {chosen[i].id : i \in DOMAIN chosen}
NamesShown(chosen) ==
    [i \in DOMAIN chosen |-> IF chosen[i].other # "" THEN chosen[i].other ELSE chosen[i].name]

ListOf(chosen) ==
    [json |-> "list", list |-> [i \in DOMAIN chosen |-> [id |-> chosen[i].id, as |-> "plain"]]]

SingleChoice(a, v, otherText) ==
    LET sent   == ListIn(v)
        picked == Picked(a.choices, v) IN
    [valid  |-> /\ IsA("list", v) /\ Len(sent) <= 1
                /\ \A i \in DOMAIN sent : sent[i].as = "plain" /\ Has(a.choices, sent[i].id),
     stored |-> IF picked = Nil \/ Len(sent) > 1 THEN Nil
                ELSE [is |-> "choice", chosen |-> <<Snapshot(picked[1], otherText)>>]]

SingleChoiceRead(s) ==
    [sends |-> ListOf(s.chosen), shows |-> NamesShown(s.chosen), matched |-> ChosenIds(s.chosen)]

(* Spaces around an id and blank elements do not matter to Validate. *)
MultiChoice(a, v, otherText) ==
    LET sent   == ListIn(v)
        picked == Picked(a.choices, v) IN
    [valid  |-> /\ IsA("list", v)
                /\ \A i \in DOMAIN sent :
                      \/ sent[i].as = "blank"
                      \/ sent[i].as \in {"plain", "padded"} /\ Has(a.choices, sent[i].id),
     stored |-> IF picked = Nil THEN Nil
                ELSE [is |-> "choices", chosen |-> [i \in DOMAIN picked |-> Snapshot(picked[i], otherText)]]]

MultiChoiceRead(s) ==
    [sends |-> ListOf(s.chosen), shows |-> NamesShown(s.chosen), matched |-> ChosenIds(s.chosen)]

(* The code of MultiChoice once more. *)
DetailedMultiChoice(a, v, otherText) == MultiChoice(a, v, otherText)
DetailedMultiChoiceRead(s) == MultiChoiceRead(s)

Ranking(a, v, otherText) ==
    LET picked == Picked(a.choices, v)
        Ranked(i) == LET kept == Snapshot(picked[i], otherText)
                     IN  [id |-> kept.id, name |-> kept.name, other |-> kept.other, rank |-> i] IN
    [valid  |-> MultiChoice(a, v, otherText).valid,
     stored |-> IF picked = Nil THEN Nil
                ELSE [is |-> "ranked", chosen |-> [i \in DOMAIN picked |-> Ranked(i)]]]

(* The one at place r has r - 1 of a lower rank. *)
ByRank(chosen) ==
    LET ranked == ToSet(chosen) IN
    [r \in DOMAIN chosen |->
        CHOOSE c \in ranked : Cardinality({d \in ranked : d.rank < c.rank}) = r - 1]

(* Mutant: the last comes first. *)
RankingRead_Descending(s) ==
    LET ranked == Reverse(ByRank(s.chosen)) IN
    [sends |-> ListOf(ranked), shows |-> NamesShown(ranked), matched |-> ChosenIds(s.chosen)]

RankingRead(s) ==
    LET ranked == ByRank(s.chosen) IN
    [sends |-> ListOf(ranked), shows |-> NamesShown(ranked), matched |-> ChosenIds(s.chosen)]

(* What the other text of a request was, for the answer sent back. *)
ExtractOtherText(s) ==
    LET said == IF s.is \in {"choice", "choices", "ranked"}
                  THEN {i \in DOMAIN s.chosen : s.chosen[i].other # ""} ELSE {}
    IN  IF said = {} THEN "" ELSE s.chosen[Min(said)].other

-----------------------------------------------------------------------------
(* Scales.                                                                 *)

InRange(meta, n) == meta.min <= n /\ n <= meta.max

LinearScale(a, v) ==
    LET fits == IsA("number", v) /\ InRange(a.meta, NumberIn(v)) IN
    [valid |-> fits, stored |-> IF fits THEN [is |-> "number", number |-> NumberIn(v)] ELSE Nil]

LinearScaleRead(a, s) ==
    [sends |-> [json |-> "number", number |-> s.number],
     shows |-> <<s.number, a.meta.min, a.meta.max>>, matched |-> {s.number}]

Rating(a, v) ==
    LET fits == IsA("number", v) /\ InRange(a.meta, NumberIn(v)) IN
    [valid |-> fits, stored |-> IF fits THEN [is |-> "number", number |-> NumberIn(v)] ELSE Nil]

RatingRead(a, s) ==
    [sends |-> [json |-> "number", number |-> s.number],
     shows |-> <<s.number, a.meta.min, a.meta.max>>, matched |-> {s.number}]

-----------------------------------------------------------------------------
(* Dates.  A bound is a timestamp: the day it is where it was written, and  *)
(* the instant `at`.  Answers are compared with the day.                    *)

DayBefore(d, e) ==
    \/ d[1] < e[1]
    \/ d[1] = e[1] /\ d[2] < e[2]
    \/ d[1] = e[1] /\ d[2] = e[2] /\ d[3] < e[3]

(* The metadata of NewDate: all parts and no bounds when there is none. *)
DateMeta(a) == IF a.meta # Nil THEN a.meta
               ELSE [parts |-> {"year", "month", "day"}, from |-> Nil, to |-> Nil]

WithinBounds(meta, day) ==
    /\ meta.from # Nil => ~DayBefore(day, meta.from.day)
    /\ meta.to # Nil => ~DayBefore(meta.to.day, day)

Date(a, v) ==
    LET meta == DateMeta(a)
        day  == TextIn(v).day
        fits == IsA("string", v) /\ day # Nil /\ WithinBounds(meta, day)
        Part(name, n) == IF name \in meta.parts THEN n ELSE Nil IN
    [valid  |-> fits,
     stored |-> IF ~fits THEN Nil
                ELSE [is |-> "date", year |-> Part("year", day[1]), month |-> Part("month", day[2]),
                      day |-> Part("day", day[3])]]

(* time.Date: a day the month does not have is one of the next month. *)
Normal(day) ==
    LET leap == (day[1] % 4 = 0 /\ day[1] % 100 # 0) \/ day[1] % 400 = 0
        last == CASE day[2] = 2 -> IF leap THEN 29 ELSE 28
                  [] day[2] \in {4, 6, 9, 11} -> 30
                  [] OTHER -> 31
    IN  IF day[3] <= last THEN day ELSE <<day[1], day[2] + 1, day[3] - last>>

Calendar == {day \in Nat \X (1..12) \X (1..31) : Normal(day) = day}

(* Parts that are not there are those of 1 January 1970. *)
DateSent(s) ==
    Normal(<<IF s.year = Nil THEN 1970 ELSE s.year, IF s.month = Nil THEN 1 ELSE s.month,
             IF s.day = Nil THEN 1 ELSE s.day>>)

DateRead(s) ==
    LET parts == SelectSeq(<<s.year, s.month, s.day>>, LAMBDA n : n # Nil) IN
    [sends |-> [json |-> "string", text |-> [bytes |-> 20, link |-> FALSE, day |-> DateSent(s)]],
     shows |-> parts, matched |-> {parts}]

(* A text that is a date is a day there is; lists and objects are what they  *)
(* are unmarshalled to.                                                     *)
WellFormed(v) ==
    /\ TextIn(v).day \in Calendar \union {Nil}
    /\ ListIn(v) \in Seq(ToSet(ListIn(v)))
    /\ ObjectIn(v) = [files |-> ObjectIn(v).files, provider |-> ObjectIn(v).provider,
                      id |-> ObjectIn(v).id, name |-> ObjectIn(v).name, email |-> ObjectIn(v).email]

-----------------------------------------------------------------------------
(* Linked accounts and uploaded files: objects, stored as they are sent.    *)

OAuthConnect(v) ==
    [valid  |-> IsA("object", v) /\ ObjectIn(v).provider # "" /\ ObjectIn(v).id # "",
     stored |-> IF IsA("object", v) THEN [is |-> "account", account |-> [ObjectIn(v) EXCEPT !.files = <<>>]]
                ELSE Nil]

OAuthConnectRead(s) ==
    LET shown == SelectSeq(<<s.account.name, s.account.email>>, LAMBDA n : n # "") IN
    [sends |-> [json |-> "object", object |-> s.account], shows |-> shown, matched |-> {shown}]

UploadFile(a, v) ==
    [valid  |-> IsA("object", v) /\ Len(ObjectIn(v).files) <= a.meta.amount,
     stored |-> IF IsA("object", v) THEN [is |-> "files", files |-> ObjectIn(v).files] ELSE Nil]

(* The files are sent as a list of entries, which no request takes. *)
UploadFileRead(s) ==
    [sends |-> [json |-> "entries", entries |-> s.files], shows |-> s.files, matched |-> {s.files}]

-----------------------------------------------------------------------------
(* The dispatch on the type.                                               *)

(* What the JSON in storage looks like: the answer structs of shared. *)
Shape(type) ==
    CASE type \in TextTypes -> "text"
      [] type \in ScaleTypes -> "number"
      [] type \in {"single_choice", "dropdown"} -> "choice"
      [] type \in {"multiple_choice", "detailed_multiple_choice"} -> "choices"
      [] type = "ranking" -> "ranked"
      [] type = "date" -> "date"
      [] type = "oauth_connect" -> "account"
      [] type = "upload_file" -> "files"

(* Validate and DecodeRequest of the answerable a. *)
Requested(a, v, otherText) ==
    CASE a.type = "short_text" -> ShortText(v)
      [] a.type = "long_text" -> LongText(v)
      [] a.type = "hyperlink" -> Hyperlink(v)
      [] a.type \in {"single_choice", "dropdown"} -> SingleChoice(a, v, otherText)
      [] a.type = "multiple_choice" -> MultiChoice(a, v, otherText)
      [] a.type = "detailed_multiple_choice" -> DetailedMultiChoice(a, v, otherText)
      [] a.type = "ranking" -> Ranking(a, v, otherText)
      [] a.type = "linear_scale" -> LinearScale(a, v)
      [] a.type = "rating" -> Rating(a, v)
      [] a.type = "date" -> Date(a, v)
      [] a.type = "oauth_connect" -> OAuthConnect(v)
      [] a.type = "upload_file" -> UploadFile(a, v)

(* DecodeStorage fails where a text is read as a number or the other way    *)
(* round, and where a date lacks a part its question has; fields of other   *)
(* shapes are ignored.                                                      *)
Readable(a, s) ==
    /\ {s.is, Shape(a.type)} # {"text", "number"}
    /\ a.type = "date" =>
          /\ s.is = "date"
          /\ "year" \in DateMeta(a).parts => s.year # Nil
          /\ "month" \in DateMeta(a).parts => s.month # Nil
          /\ "day" \in DateMeta(a).parts => s.day # Nil

(* What is there is read; what is not is the zero value. *)
DecodeStorage(a, s) ==
    IF s.is = Shape(a.type) THEN s
    ELSE CASE Shape(a.type) = "text" -> [is |-> "text", text |-> NoText]
           [] Shape(a.type) = "number" -> [is |-> "number", number |-> 0]
           [] Shape(a.type) = "choice" ->
                [is |-> "choice", chosen |-> <<[id |-> Nil, name |-> "", other |-> ""]>>]
           [] Shape(a.type) \in {"choices", "ranked"} -> [is |-> Shape(a.type), chosen |-> <<>>]
           [] Shape(a.type) = "account" -> [is |-> "account", account |-> NoObject]
           [] Shape(a.type) = "files" -> [is |-> "files", files |-> <<>>]

(* EncodeRequest, DisplayValue and MatchesPattern of a readable value. *)
ReadBack(a, stored) ==
    LET s == DecodeStorage(a, stored) IN
    CASE a.type = "short_text" -> ShortTextRead(s)
      [] a.type = "long_text" -> LongTextRead(s)
      [] a.type = "hyperlink" -> HyperlinkRead(s)
      [] a.type \in {"single_choice", "dropdown"} -> SingleChoiceRead(s)
      [] a.type = "multiple_choice" -> MultiChoiceRead(s)
      [] a.type = "detailed_multiple_choice" -> DetailedMultiChoiceRead(s)
      [] a.type = "ranking" -> RankingRead(s)
      [] a.type = "linear_scale" -> LinearScaleRead(a, s)
      [] a.type = "rating" -> RatingRead(a, s)
      [] a.type = "date" -> DateRead(s)
      [] a.type = "oauth_connect" -> OAuthConnectRead(s)
      [] a.type = "upload_file" -> UploadFileRead(s)

MatchesPattern(a, stored, pattern) == ReadBack(a, stored).matched \intersect pattern # {}
-----------------------------------------------------------------------------
(* What a question is: getGenerateMetadata makes its metadata from a        *)
(* request, NewAnswerable takes it apart again on every read of the form.   *)

Refused    == [ok |-> FALSE, meta |-> Nil]
Made(meta) == [ok |-> TRUE, meta |-> meta]

Named(choice) == choice.other \/ choice.name # ""

(* Names are trimmed; the ids of request n are new ones. *)
GenerateChoiceMetadata(options, n) ==
    LET Choice(i) == [id |-> <<n, i>>, other |-> options[i].other,
                      name |-> IF options[i].other THEN "" ELSE options[i].name]
    IN  IF options # <<>> /\ \A i \in DOMAIN options : Named(options[i])
          THEN Made([choices |-> [i \in DOMAIN options |-> Choice(i)]]) ELSE Refused

BoundsInOrder(meta) ==
    meta.from # Nil /\ meta.to # Nil => meta.from.at <= meta.to.at

GenerateDateMetadata(option) ==
    IF option.parts # {} /\ BoundsInOrder(option) THEN Made(option) ELSE Refused

GenerateLinearScaleMetadata(option) ==
    IF 1 <= option.min /\ option.min < option.max /\ option.max <= 10
    THEN Made(option) ELSE Refused

GenerateRatingMetadata(option) ==
    IF 1 <= option.min /\ option.min < option.max /\ option.max <= 10 /\ option.icon \in Icons
    THEN Made(option) ELSE Refused

Providers == {"google", "github"}

GenerateOauthConnectMetadata(option) == IF option.provider \in Providers THEN Made(option) ELSE Refused

FileLimits(meta) == meta.kinds # {} /\ meta.amount \in 1..10 /\ meta.size \in 1..10485760

GenerateUploadFileMetadata(option) ==
    IF FileLimits(option) /\ option.kinds \subseteq FileTypes THEN Made(option) ELSE Refused

(* A question with a source has no metadata. *)
Generate(request, n) ==
    LET type == request.type
        option == request.option IN
    IF request.source # Nil
      THEN IF type \in ChoiceTypes \ {"detailed_multiple_choice"} /\ option = <<>>
             THEN Made(Nil) ELSE Refused
    ELSE CASE type \in TextTypes -> Made(Nil)
           [] type = "date" -> GenerateDateMetadata(option)
           [] type \in ChoiceTypes -> GenerateChoiceMetadata(option, n)
           [] type = "linear_scale" -> GenerateLinearScaleMetadata(option)
           [] type = "rating" -> GenerateRatingMetadata(option)
           [] type = "oauth_connect" -> GenerateOauthConnectMetadata(option)
           [] type = "upload_file" -> GenerateUploadFileMetadata(option)

(* validateAndExtractChoices. *)
ChoicesFound(q) ==
    \/ q.source # Nil /\ q.type # "detailed_multiple_choice"
    \/ /\ q.meta # Nil /\ q.meta.choices # <<>>
       /\ \A i \in DOMAIN q.meta.choices : q.meta.choices[i].id # Nil /\ Named(q.meta.choices[i])

NewLinearScale(q)  == q.meta # Nil /\ q.meta.min < q.meta.max
NewRating(q)       == q.meta # Nil /\ q.meta.min < q.meta.max /\ q.meta.icon \in Icons
NewDate(q)         == q.meta = Nil \/ (q.meta.parts # {} /\ BoundsInOrder(q.meta))
NewOAuthConnect(q) == q.meta # Nil /\ q.meta.provider \in Providers
NewUploadFile(q)   == q.meta # Nil /\ FileLimits(q.meta)

(* Whether NewAnswerable takes the row of a question. *)
Built(q) ==
    CASE q.type \in TextTypes -> TRUE
      [] q.type \in ChoiceTypes -> ChoicesFound(q)
      [] q.type = "linear_scale" -> NewLinearScale(q)
      [] q.type = "rating" -> NewRating(q)
      [] q.type = "date" -> NewDate(q)
      [] q.type = "oauth_connect" -> NewOAuthConnect(q)
      [] q.type = "upload_file" -> NewUploadFile(q)

Answerable(q) ==
    [type |-> q.type, meta |-> q.meta, source |-> q.source,
     choices |-> IF q.type \in ChoiceTypes /\ q.source = Nil THEN q.meta.choices ELSE <<>>]
=============================================================================
