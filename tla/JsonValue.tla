---- MODULE JsonValue ----
(***************************************************************************)
(* Texts and JSON values as the firewall handles them.                     *)
(*                                                                         *)
(* A text is a sequence of marks; a mark stands for a stretch of           *)
(* characters the detectors tell apart: a word, half of a secret, a brace, *)
(* the two characters of an escape; "blank" is an empty line.  A pattern   *)
(* is the set of the forms it matches.  Values are tagged records, as      *)
(* serde_json::Value is an enum; the fields of an object are a function,   *)
(* Absent where it has none, walked in the order of the sorted keys.       *)
(* Walks are recursive functions on the values.                            *)
(***************************************************************************)
EXTENDS Integers, Sequences, SequencesExt

CONSTANTS
    Marks,     \* the marks texts are made of
    Numeral,   \* the numbers of JSON, each with the mark it is written as
    KeyOrder,  \* the keys objects may have, sorted
    MaxNesting \* how deep the values may nest that serde_json reads

Keys == ToSet(KeyOrder)

KeysRead ==
    {"choices", "content", "data", "delta", "function", "input", "instructions", "item",
     "max_output_tokens", "max_tokens", "message", "messages", "model", "name", "output",
     "response", "role", "stream", "text", "tool_calls", "tools", "type"}

ASSUME JsonAssumption ==
    /\ {"REDACTED", "blank", "newline", "system"} \subseteq Marks /\ "edge" \notin Marks
    /\ DOMAIN Numeral \subseteq Nat /\ Numeral \in [DOMAIN Numeral -> Marks]
    /\ KeyOrder \in Seq(STRING) /\ KeysRead \subseteq Keys
    /\ \A i, j \in DOMAIN KeyOrder : KeyOrder[i] = KeyOrder[j] => i = j
    /\ MaxNesting \in Nat /\ MaxNesting >= 3

-----------------------------------------------------------------------------
(***************************************************************************)
(* Texts and patterns.  Whether a regular expression matches somewhere may *)
(* depend on what stands beside the match (\b, ^, $): a form has the marks *)
(* of a match and the neighbours it may not have on its left and right.    *)
(***************************************************************************)
Text == Seq(Marks)
Neighbours == Marks \cup {"edge"}
Form == [marks : Text \ {<<>>}, left : SUBSET Neighbours, right : SUBSET Neighbours]
Pattern == SUBSET Form

(* The forms of a literal pattern, which looks at no neighbour.            *)
Literally(texts) == {[marks |-> text, left |-> {}, right |-> {}] : text \in texts}

IsBlank(text) == \A i \in DOMAIN text : text[i] = "blank"

Chars(mark) == IF mark = "REDACTED" THEN 10 ELSE 4

Neighbour(text, i) == IF i \in DOMAIN text THEN text[i] ELSE "edge"

MatchesAt(form, text, i) ==
    LET n == Len(form.marks)
    IN  /\ i + n <= Len(text) + 1
        /\ \A k \in 1..n : text[i + k - 1] = form.marks[k]
        /\ Neighbour(text, i - 1) \notin form.left
        /\ Neighbour(text, i + n) \notin form.right

Occurs(pattern, text) ==
    \E form \in pattern, i \in DOMAIN text : MatchesAt(form, text, i)

(* No form of the pattern holds the mark.                                  *)
Lacks(pattern, mark) == \A form \in pattern : mark \notin ToSet(form.marks)

(* A text without a match of "pattern" has none either when REDACTED takes *)
(* the place of a match of "other": a form that allows REDACTED beside it  *)
(* allows the mark that stood there, or "other" did not match beside it.   *)
Apart(pattern, other) ==
    \A form \in pattern, gone \in other :
        /\ \/ "REDACTED" \in form.left \/ Last(gone.marks) \notin form.left
           \/ Head(form.marks) \in gone.right
        /\ \/ "REDACTED" \in form.right \/ Head(gone.marks) \notin form.right
           \/ Last(form.marks) \in gone.left

(* The forms take the end of a line for the end of the text.               *)
LineEnds == {"edge", "blank", "newline"}
OpenEnds(pattern) ==
    \A form \in pattern : \A side \in {form.left, form.right} :
        LineEnds \subseteq side \/ LineEnds \cap side = {}

(* Deviant: a match is deleted.                                            *)
NoReplacement == <<>>

Replacement == <<"REDACTED">>

(* Every match, found from the left and not overlapping, is replaced.      *)
Redacted(pattern, text) ==
    LET FormsAt(i) == {form \in pattern : MatchesAt(form, text, i)}
        from[i \in 1..(Len(text) + 1)] ==
            IF i > Len(text) THEN <<>>
            ELSE IF FormsAt(i) = {} THEN <<text[i]>> \o from[i + 1]
            ELSE Replacement \o from[i + Len((CHOOSE form \in FormsAt(i) : TRUE).marks)]
    IN  from[1]

-----------------------------------------------------------------------------
(***************************************************************************)
(* Values.                                                                 *)
(***************************************************************************)
Absent == [kind |-> "absent"]
Null == [kind |-> "null"]
Bool(b) == [kind |-> "bool", holds |-> b]
Num(n) == [kind |-> "number", number |-> n]
Str(text) == [kind |-> "string", text |-> text]
Arr(items) == [kind |-> "array", items |-> items]
Obj(fields) ==
    [kind |-> "object",
     fields |-> [k \in Keys |-> IF k \in DOMAIN fields THEN fields[k] ELSE Absent]]

IsString(v) == v.kind = "string"
IsArray(v) == v.kind = "array"
IsObject(v) == v.kind = "object"

Leaves ==
    [kind : {"absent", "null"}] \cup [kind : {"bool"}, holds : BOOLEAN]
        \cup [kind : {"number"}, number : DOMAIN Numeral] \cup [kind : {"string"}, text : Text]

Nested(parts) ==
    Leaves \cup [kind : {"array"}, items : Seq(parts)]
        \cup [kind : {"object"}, fields : [Keys -> parts]]

(* The values that nest at most n deep.                                    *)
Json[n \in 0..MaxNesting] == IF n = 0 THEN Leaves ELSE Nested(Json[n - 1])
Value == Json[MaxNesting]

Get(v, key) == IF IsObject(v) THEN v.fields[key] ELSE Absent

Put(v, key, w) == [v EXCEPT !.fields[key] = w]

(* as_str and as_array, as the sequence of the text or of the items.       *)
TextOf(v) == IF IsString(v) THEN <<v.text>> ELSE <<>>
ItemsOf(v) == IF IsArray(v) THEN v.items ELSE <<>>
NumberOf(v) == IF v.kind = "number" THEN v.number ELSE 0

(* Concatenates what f yields for each item.                               *)
FlatMap(f, items) ==
    LET upTo[n \in 0..Len(items)] == IF n = 0 THEN <<>> ELSE upTo[n - 1] \o f[items[n]]
    IN  upTo[Len(items)]

(* Every string of a value, in the order serde_json walks it.              *)
StringsOf[v \in Value] ==
    CASE IsArray(v)  -> FlatMap(StringsOf, v.items)
      [] IsObject(v) -> FlatMap([key \in Keys |-> StringsOf[v.fields[key]]], KeyOrder)
      [] IsString(v) -> <<v.text>>
      [] OTHER       -> <<>>
====
