---- MODULE JsonText ----
(***************************************************************************)
(* JSON as text: how serde_json writes a value, which is what an audit     *)
(* record previews of a request (audit.rs:93), and how it reads one, which *)
(* is what the tool detector does with a response (tool_call.rs:102-131).  *)
(* The response rules work on the text itself, braces, keys, numbers and   *)
(* escapes included.                                                       *)
(***************************************************************************)
EXTENDS JsonValue

CONSTANT
    Escapes \* the marks that stand for another inside a string, \n and the like

Brackets == {"[", "]", "{", "}", ",", ":", "quote"}

ASSUME TextAssumption ==
    /\ Brackets \cup Keys \cup {"null", "true", "false", "data:"} \subseteq Marks
    /\ Escapes \in [DOMAIN Escapes -> Marks] /\ DOMAIN Escapes \subseteq Marks
    /\ {"newline", "blank", "quote"} \subseteq {Escapes[m] : m \in DOMAIN Escapes}

-----------------------------------------------------------------------------
(***************************************************************************)
(* Writing.                                                                *)
(***************************************************************************)
(* serde_json escapes only what may not stand in a string as it is.        *)
Escaped(mark) ==
    IF mark \in {"newline", "blank", "quote"}
    THEN CHOOSE m \in DOMAIN Escapes : Escapes[m] = mark ELSE mark

Quoted(text) == <<"quote">> \o [i \in DOMAIN text |-> Escaped(text[i])] \o <<"quote">>

(* Parts that each begin with a comma, without the first of the commas.    *)
Listed(parts) == IF parts = <<>> THEN parts ELSE Tail(parts)

Item(g) == [v \in Value |-> <<",">> \o g[v]]

Field(g, fields) ==
    [key \in Keys |-> IF fields[key] = Absent THEN <<>>
                      ELSE <<",">> \o Quoted(<<key>>) \o <<":">> \o g[fields[key]]]

(* Value::to_string; a request without a body is Null (handler.rs:60).     *)
Spelled[v \in Value] ==
    CASE IsArray(v)         -> <<"[">> \o Listed(FlatMap(Item(Spelled), v.items)) \o <<"]">>
      [] IsObject(v)        ->
            <<"{">> \o Listed(FlatMap(Field(Spelled, v.fields), KeyOrder)) \o <<"}">>
      [] IsString(v)        -> Quoted(v.text)
      [] v.kind = "number"  -> <<Numeral[v.number]>>
      [] v.kind = "bool"    -> IF v.holds THEN <<"true">> ELSE <<"false">>
      [] OTHER              -> <<"null">>

-----------------------------------------------------------------------------
(***************************************************************************)
(* Reading.  read["value", i] is the value that begins at i and the place  *)
(* behind it; read["parts", i] the parts of an array or object from i on,  *)
(* each with its key if it has one, and the place of what ends them.  Of   *)
(* two parts with one key the last counts; no detector reads other keys.   *)
(***************************************************************************)
Unparsable == [kind |-> "unparsable"]
Read(value, next) == [ok |-> TRUE, value |-> value, next |-> next]
Unread == [ok |-> FALSE, value |-> Unparsable, next |-> 0]

Literals == [null |-> Null, true |-> Bool(TRUE), false |-> Bool(FALSE)]
(* White space between the parts of JSON; of it only the ends of lines.    *)
White == {"blank", "newline"}

Decoded(text) ==
    [i \in DOMAIN text |-> IF text[i] \in DOMAIN Escapes THEN Escapes[text[i]] ELSE text[i]]

ArrayOf(parts) == Arr([i \in DOMAIN parts |-> parts[i].value])

ObjectOf(parts) ==
    LET At(key) == {i \in DOMAIN parts : parts[i].key = <<<<key>>>>}
    IN  Obj([key \in {k \in Keys : At(k) # {}} |->
                parts[CHOOSE i \in At(key) : \A j \in At(key) : j <= i].value])

ReadJson(text) ==
    LET At(i) == Neighbour(text, i)
        skip[i \in Nat] == IF At(i) \in White THEN skip[i + 1] ELSE i
        Close(i) == SelectInSubSeq(text, i + 1, Len(text), LAMBDA mark : mark = "quote")
        Inside(i) == SubSeq(text, i + 1, Close(i) - 1)
        IsQuoted(i) == At(i) = "quote" /\ Close(i) # 0 /\ ToSet(Inside(i)) \cap White = {}
        Numbers(i) == {n \in DOMAIN Numeral : Numeral[n] = At(i)}
        read[what \in {"value", "parts"}, i \in Nat] ==
            IF what = "value"
            THEN LET within == skip[i + 1]
                     inner == IF At(within) \in {"]", "}"} THEN Read(<<>>, within)
                              ELSE read["parts", within]
                     Ends(mark) == inner.ok /\ At(inner.next) = mark
                     Keyed == {inner.value[k].key # <<>> : k \in DOMAIN inner.value}
                 IN  CASE IsQuoted(i) -> Read(Str(Decoded(Inside(i))), Close(i) + 1)
                       [] At(i) \in DOMAIN Literals -> Read(Literals[At(i)], i + 1)
                       [] Numbers(i) # {} -> Read(Num(CHOOSE n \in Numbers(i) : TRUE), i + 1)
                       [] At(i) = "[" /\ Ends("]") /\ Keyed \subseteq {FALSE} ->
                            Read(ArrayOf(inner.value), inner.next + 1)
                       [] At(i) = "{" /\ Ends("}") /\ Keyed \subseteq {TRUE} ->
                            Read(ObjectOf(inner.value), inner.next + 1)
                       [] OTHER -> Unread
            ELSE LET colon == skip[Close(i) + 1]
                     keyed == IsQuoted(i) /\ At(colon) = ":"
                     first == read["value", IF keyed THEN skip[colon + 1] ELSE i]
                     part == [key |-> IF keyed THEN <<Decoded(Inside(i))>> ELSE <<>>,
                              value |-> first.value]
                     behind == skip[first.next]
                     others == IF At(behind) = "," THEN read["parts", skip[behind + 1]]
                               ELSE Read(<<>>, behind)
                 IN  IF first.ok /\ others.ok
                     THEN Read(<<part>> \o others.value, others.next) ELSE Unread
        whole == read["value", skip[1]]
    IN  IF whole.ok /\ whole.value \in Value /\ At(skip[whole.next]) = "edge" THEN whole.value
        ELSE Unparsable

(***************************************************************************)
(* The values of a response: those of the lines that begin with "data:" if *)
(* it is taken for a stream, else the whole text; other text, [DONE]       *)
(* included, is no value.                                                  *)
(***************************************************************************)
TextLines(text) ==
    FoldLeft(LAMBDA lines, mark :
                IF mark \in White THEN Append(lines, <<>>)
                ELSE [lines EXCEPT ![Len(lines)] = Append(@, mark)],
             <<<<>>>>, text)

ValuesOf(text, isStream) ==
    LET events == SelectSeq(TextLines(text), LAMBDA line : line # <<>> /\ Head(line) = "data:")
        pieces == IF isStream THEN [i \in DOMAIN events |-> Tail(events[i])] ELSE <<text>>
    IN  SelectSeq([i \in DOMAIN pieces |-> ReadJson(pieces[i])], LAMBDA v : v # Unparsable)
====
