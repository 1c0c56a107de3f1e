-------------------------------- MODULE Json --------------------------------
(***************************************************************************)
(* xjson: obj_t::str(), which writes a value, and json_parser, which reads *)
(* it back.  A value is [t |-> type, v |-> what it holds]: the tokens of a *)
(* number, the characters of a string, the values of a vector, and the     *)
(* pairs of key and value of an object in the order of their keys.  A text *)
(* is a sequence of tokens: each mark, character, number and keyword.  The *)
(* recursion of get_obj and get_vec is a stack of their locals.            *)
(***************************************************************************)
EXTENDS Naturals, Sequences, FiniteSets, SequencesExt

CONSTANTS
  Documents,   \* a sequence of [value |-> an object or a vector, foreign |-> BOOLEAN]
  Ints, Floats, \* tokens of numbers, the latter with a point
  Fine         \* the floats with more digits than std::to_string writes

ASSUME FloatsAssumption == Fine \subseteq Floats /\ Ints \cap Floats = {} /\ "rounded" \in Floats \ Fine

Null == [t |-> "null", v |-> <<>>]
Keywords == {"true", "false", "null"}

---------------------------------------------------------------------------
(* Writing.                                                                *)

Escapes == [c \in {"\\", "\"", "/", "BS", "\f", "\t", "\n", "\r"} |->
              CASE c = "BS" -> "b" [] c = "\f" -> "f" [] c = "\t" -> "t"
                [] c = "\n" -> "n" [] c = "\r" -> "r" [] OTHER -> c]
EncodeStr(s) == FlattenSeq([i \in DOMAIN s |-> IF s[i] \in DOMAIN Escapes THEN <<"\\", Escapes[s[i]]>> ELSE <<s[i]>>])

Joined(texts, comma) ==
  FlattenSeq([i \in DOMAIN texts |-> IF i = 1 THEN texts[i] ELSE comma \o texts[i]])

\* What str() writes.  Another program's text has blanks behind its marks, its keys
\* encoded and its empty objects and vectors as such.
RECURSIVE Str(_, _)
Str(value, foreign) ==
  LET comma == <<",">> \o (IF foreign THEN <<" ">> ELSE <<>>)
      colon == <<":">> \o (IF foreign THEN <<" ">> ELSE <<>>)
      key(k) == <<"\"">> \o (IF foreign THEN EncodeStr(k) ELSE k) \o <<"\"">>
  IN CASE value.t = "str" -> <<"\"">> \o EncodeStr(value.v) \o <<"\"">>
       [] value.t = "vec" -> <<"[">> \o Joined([i \in DOMAIN value.v |-> Str(value.v[i], foreign)], comma) \o <<"]">>
       [] value.t = "obj" ->
            <<"{">> \o Joined([i \in DOMAIN value.v |-> key(value.v[i][1]) \o colon \o Str(value.v[i][2], foreign)], comma)
              \o <<"}">>
       [] value.t = "float" -> [i \in DOMAIN value.v |-> IF value.v[i] \in Fine /\ ~foreign THEN "rounded" ELSE value.v[i]]
       [] value.t = "null" -> <<"null">>
       [] OTHER -> value.v

---------------------------------------------------------------------------
(* Reading.                                                                *)

VARIABLES
  doc,      \* the index of the document
  place,       \* pos: the tokens read
  frames,   \* the calls of get_obj and get_vec: [kind, value, key]
  json,     \* "reads", or what build came to: "done", "refused" by an exception, "spins"
  result    \* the value build returned

jsonVars == <<doc, place, frames, json, result>>

Source == Str(Documents[doc].value, Documents[doc].foreign)
More == place < Len(Source)
Next_ == Source[place + 1]
Top == Last(frames)

\* skip_space, from p
RECURSIVE SkipBlanks(_)
SkipBlanks(p) == IF p < Len(Source) /\ Source[p + 1] = " " THEN SkipBlanks(p + 1) ELSE p

\* get_text, from the quote at p: where it ends, 0 for an exception, and the text.
RECURSIVE GetText(_, _, _)
GetText(p, rs, text) ==
  IF p = Len(Source) THEN [ends |-> 0, text |-> text]
  ELSE LET c == Source[p + 1]
           known == {"f", "b", "/", "\"", "t", "n"}
           plain == CHOOSE x \in DOMAIN Escapes : Escapes[x] = c
       IN CASE c = "\\" -> GetText(p + 1, ~rs, IF rs THEN Append(text, c) ELSE text)
            [] rs /\ c \in known -> GetText(p + 1, FALSE, Append(text, plain))
            [] rs /\ c \notin known -> [ends |-> 0, text |-> text]
            [] ~rs /\ c = "\"" -> [ends |-> p + 1, text |-> text]
            [] OTHER -> GetText(p + 1, FALSE, Append(text, c))

\* A call of get_obj with the text at p: a vector behind a brace is one, too.
EnterObj(p) ==
  LET q == SkipBlanks(p)
      r == IF q < Len(Source) /\ Source[q + 1] = "{" THEN q + 1 ELSE q
      vec == r < Len(Source) /\ Source[r + 1] = "["
  IN [ok |-> q < Len(Source), at |-> IF vec THEN r + 1 ELSE r, frame |-> [kind |-> IF vec THEN "vec" ELSE "obj", value |-> Null, key |-> <<>>]]

\* operator[] and add: the value becomes what it has to be.
SetKey(value, key, x) ==
  IF value.t = "obj" /\ \E i \in DOMAIN value.v : value.v[i][1] = key
  THEN [value EXCEPT !.v = [i \in DOMAIN @ |-> IF @[i][1] = key THEN <<key, x>> ELSE @[i]]]
  ELSE [t |-> "obj", v |-> Append(IF value.t = "obj" THEN value.v ELSE <<>>, <<key, x>>)]
Add(value, x) == [t |-> "vec", v |-> Append(IF value.t = "vec" THEN value.v ELSE <<>>, x)]

With(stack, x) ==
  LET frame == Last(stack)
  IN Append(Front(stack), IF frame.kind = "vec" THEN [frame EXCEPT !.value = Add(@, x)]
                          ELSE [frame EXCEPT !.value = SetKey(@, frame.key, x), !.key = <<>>])

JsonInit ==
  /\ doc \in DOMAIN Documents /\ json = "reads" /\ result = Null
  /\ place = EnterObj(0).at /\ frames = <<EnterObj(0).frame>>

JsonTypeOK ==
  /\ doc \in DOMAIN Documents /\ place \in 0..Len(Source)
  /\ \A i \in DOMAIN frames : frames[i].kind = "vec" => frames[i].value.t \in {"null", "vec"} /\ frames[i].key = <<>>
  /\ json \in {"reads", "done", "refused", "spins"} /\ (json = "done") = (frames = <<>>)

Refuse == json' = "refused" /\ UNCHANGED <<doc, place, frames, result>>

\* A value is returned to the caller of the call on top.
Return(x) ==
  IF Len(frames) = 1 THEN frames' = <<>> /\ json' = "done" /\ result' = x
  ELSE frames' = With(Front(frames), x) /\ UNCHANGED <<json, result>>

Loop == json = "reads" /\ More
InObj == Loop /\ Top.kind = "obj"
InVec == Loop /\ Top.kind = "vec"

Put(x, p) == place' = p /\ frames' = With(frames, x) /\ UNCHANGED <<doc, json, result>>

\* check_ahead, from p: whether the next mark is as it has to be.
CheckAhead(mark, p) == SkipBlanks(p) < Len(Source) /\ Source[SkipBlanks(p) + 1] = mark

Quote ==
  /\ Loop /\ Next_ = "\""
  /\ LET got == GetText(place + 1, FALSE, <<>>)
     IN IF got.ends = 0 THEN Refuse
        ELSE IF Top.kind = "obj" /\ Top.key = <<>>
        THEN IF ~CheckAhead(":", got.ends) THEN Refuse
             ELSE /\ place' = SkipBlanks(got.ends) /\ UNCHANGED <<doc, json, result>>
                  /\ frames' = [frames EXCEPT ![Len(frames)].key = got.text]
        ELSE Put([t |-> "str", v |-> got.text], got.ends)

GetBool ==
  /\ Loop /\ Next_ \in {"true", "false"}
  /\ IF Top.kind = "obj" /\ Top.key = <<>> THEN Refuse ELSE Put([t |-> "bool", v |-> <<Next_>>], place + 1)

\* get_num takes digits and points.
GetNum ==
  /\ Loop /\ Next_ \in Ints \cup Floats
  /\ Put([t |-> IF Next_ \in Floats THEN "float" ELSE "num", v |-> <<Next_>>], place + 1)

\* A null of an object: the case falls through to that of a nested object, which is
\* read from behind it and takes its place.
FallThrough(p, value) ==
  LET call == EnterObj(p)
  IN IF Top.key = <<>> \/ ~call.ok THEN Refuse
     ELSE /\ place' = call.at /\ UNCHANGED <<doc, json, result>>
          /\ frames' = Append([frames EXCEPT ![Len(frames)].value = value], call.frame)

NullOfObj ==
  /\ InObj /\ Next_ = "null"
  /\ FallThrough(place + 1, SetKey(Top.value, Top.key, Null))

Open ==
  /\ InObj /\ Next_ = "{"
  /\ LET call == EnterObj(place)
     IN IF Top.key = <<>> THEN Refuse
        ELSE place' = call.at /\ frames' = Append(frames, call.frame) /\ UNCHANGED <<doc, json, result>>

CloseBrace ==
  /\ InObj /\ Next_ = "}"
  /\ IF Top.key # <<>> THEN Refuse ELSE place' = place + 1 /\ Return(Top.value) /\ doc' = doc

Colon ==
  /\ InObj /\ Next_ = ":"
  /\ IF Top.key = <<>> THEN Refuse ELSE place' = place + 1 /\ UNCHANGED <<doc, frames, json, result>>

Comma ==
  /\ InObj /\ Next_ = ","
  /\ IF CheckAhead("\"", place + 1) THEN place' = SkipBlanks(place + 1) /\ UNCHANGED <<doc, frames, json, result>> ELSE Refuse

Blank ==
  /\ Loop /\ Next_ \in (IF Top.kind = "vec" THEN {",", " "} ELSE {" "})
  /\ place' = place + 1 /\ UNCHANGED <<doc, frames, json, result>>

OpenVec ==
  /\ Loop /\ Next_ = "["
  /\ place' = place + 1 /\ frames' = Append(frames, [kind |-> "vec", value |-> Null, key |-> <<>>])
  /\ UNCHANGED <<doc, json, result>>

NullOfVec == InVec /\ Next_ = "null" /\ Put(Null, place + 1)

OpenObjOfVec ==
  /\ InVec /\ Next_ = "{" /\ place' = EnterObj(place).at
  /\ frames' = Append(frames, EnterObj(place).frame) /\ UNCHANGED <<doc, json, result>>

CloseVec == InVec /\ Next_ = "]" /\ place' = place + 1 /\ Return(Top.value) /\ doc' = doc

\* Any other character is neither taken nor refused: the loop stays at it, with a
\* minus storing a 0 each time round.
Cases == {"\"", "{", "[", ",", " "} \cup Keywords \cup Ints \cup Floats
Spin ==
  /\ Loop /\ Next_ \notin Cases \cup (IF Top.kind = "obj" THEN {"}", ":"} ELSE {"]"})
  /\ json' = "spins" /\ UNCHANGED <<doc, place, frames, result>>

\* The end of the text in a loop: the call returns a null and not what it has.
TextEnds ==
  /\ json = "reads" /\ ~More /\ Return(Null) /\ UNCHANGED <<doc, place>>

JsonNext ==
  \/ Quote \/ GetBool \/ GetNum \/ NullOfObj \/ Open \/ CloseBrace \/ Colon \/ Comma \/ Blank
  \/ OpenVec \/ NullOfVec \/ OpenObjOfVec \/ CloseVec \/ Spin \/ TextEnds

JsonSpec == JsonInit /\ [][JsonNext]_jsonVars

---------------------------------------------------------------------------

\* A null that is a member of an object
RECURSIVE NullMember(_)
NullMember(value) ==
  \/ value.t = "vec" /\ \E i \in DOMAIN value.v : NullMember(value.v[i])
  \/ value.t = "obj" /\ \E i \in DOMAIN value.v : value.v[i][2].t = "null" \/ NullMember(value.v[i][2])

\* What cannot be read: an escape the parser does not know, a key that was not
\* encoded, the sign and the exponent of a number.
RECURSIVE Unreadable(_, _)
Unreadable(value, foreign) ==
  CASE value.t = "str" -> "\r" \in ToSet(value.v)
    [] value.t \in {"num", "float"} -> ToSet(value.v) \cap {"-", "e"} # {}
    [] value.t = "vec" -> \E i \in DOMAIN value.v : Unreadable(value.v[i], foreign)
    [] value.t = "obj" -> \E i \in DOMAIN value.v :
         \/ Unreadable(value.v[i][2], foreign) \/ value.v[i][1] = <<>>
         \/ ToSet(value.v[i][1]) \cap (IF foreign THEN {"\r"} ELSE {"\"", "\\"}) # {}
    [] OTHER -> FALSE

\* A value as it is read back: an empty object or vector is null, a float is rounded.
RECURSIVE JsonReadAs(_, _)
JsonReadAs(value, foreign) ==
  CASE value.t \in {"vec", "obj"} /\ value.v = <<>> -> Null
    [] value.t = "vec" -> [value EXCEPT !.v = [i \in DOMAIN @ |-> JsonReadAs(@[i], foreign)]]
    [] value.t = "obj" -> [value EXCEPT !.v = [i \in DOMAIN @ |-> <<@[i][1], JsonReadAs(@[i][2], foreign)>>]]
    [] value.t = "float" /\ ~foreign -> [value EXCEPT !.v = [i \in DOMAIN @ |-> IF @[i] \in Fine THEN "rounded" ELSE @[i]]]
    [] OTHER -> value

Value_ == Documents[doc].value
Foreign == Documents[doc].foreign

\* ReadsBack: a text is read as the value written, one with a null in an object as a
\* null as a whole, if at all; an exception is thrown only for one and at what cannot be read.
ReadsBack ==
  /\ (json = "done" /\ ~NullMember(Value_) /\ ~Unreadable(Value_, Foreign)) =>
       Str(result, TRUE) = Str(JsonReadAs(Value_, Foreign), TRUE)
  /\ (json = "done" /\ NullMember(Value_)) => result = Null
  /\ json = "refused" => Unreadable(Value_, Foreign) \/ NullMember(Value_)

\* ReadEnds: build returns, unless the text has a minus, an exponent or an object
\* with a null in a vector.
ReadEnds == json = "spins" => Unreadable(Value_, Foreign) \/ NullMember(Value_)

\* A text is read as the value it was written for, and reading it ends.
JsonRead == JsonTypeOK /\ ReadsBack /\ ReadEnds

=============================================================================
