---- MODULE ContentRules ----
(***************************************************************************)
(* Rules on content wherever it stands: the DLP rules of                   *)
(* src/src/detectors/dlp.rs, the allow-list of tools of tool_call.rs, the  *)
(* patterns of output_sanitizer.rs and the previews of                     *)
(* src/src/utils/audit.rs.                                                 *)
(***************************************************************************)
EXTENDS JsonText

CONSTANTS
    ExecutablePatterns, \* what the output sanitizer looks for, one after the other
    AuditPatterns       \* what the audit redactors look for, one after the other

ASSUME RulesAssumption ==
    ExecutablePatterns \in Seq(Pattern) /\ AuditPatterns \in Seq(Pattern)

Rules == Seq([pattern : Pattern, action : {"block", "redact", "log_only"}])

(* Patterns that are all replaced, as rules.                               *)
Replacing(patterns) == [i \in DOMAIN patterns |-> [pattern |-> patterns[i], action |-> "redact"]]

(* A rule acts if it rewrites or blocks what it finds.  Of the rules that  *)
(* act, none finds anything in a text; no form of theirs holds a mark.     *)
Acting(rules, i) == rules[i].action # "log_only"
Free(rules, text) ==
    \A i \in DOMAIN rules : Acting(rules, i) => ~Occurs(rules[i].pattern, text)
RulesLack(rules, mark) ==
    \A i \in DOMAIN rules : Acting(rules, i) => Lacks(rules[i].pattern, mark)

-----------------------------------------------------------------------------
(***************************************************************************)
(* DLP.  "rules" is the sequence of rules, each a pattern and an action.   *)
(* A value is searched as one text with a line for each string, and        *)
(* rewritten string by string; a response is searched and rewritten as the *)
(* text it is (dlp.rs:140, 158).                                           *)
(***************************************************************************)
Lines(v) == FlatMap([text \in Text |-> Append(text, "newline")], StringsOf[v])

Found(rules, text) == {i \in DOMAIN rules : Occurs(rules[i].pattern, text)}

DlpFinding(rules, text) ==
    LET hit == {rules[i].action : i \in Found(rules, text)}
    IN  IF "block" \in hit THEN "block"
        ELSE IF "redact" \in hit THEN "redact"
        ELSE IF "log_only" \in hit THEN "log_only" ELSE "pass"

(* Deviant: stops after the first rule.                                    *)
RedactTextOnce(rules, text) ==
    IF rules # <<>> /\ Head(rules).action = "redact"
    THEN Redacted(Head(rules).pattern, text) ELSE text

RedactText(rules, text) ==
    LET after[n \in 0..Len(rules)] ==
            IF n = 0 THEN text
            ELSE IF rules[n].action = "redact" THEN Redacted(rules[n].pattern, after[n - 1])
            ELSE after[n - 1]
    IN  after[Len(rules)]

(* Every string of a value rewritten, keys and other values untouched.     *)
DlpRedactValue(rules, v) ==
    LET rewritten[w \in Value] ==
            CASE IsArray(w)  -> Arr([i \in DOMAIN w.items |-> rewritten[w.items[i]]])
              [] IsObject(w) -> Obj([k \in Keys |-> rewritten[w.fields[k]]])
              [] IsString(w) -> Str(RedactText(rules, w.text))
              [] OTHER       -> w
    IN  rewritten[v]

-----------------------------------------------------------------------------
(***************************************************************************)
(* Tool names of a request, and of a response body that was parsed.        *)
(***************************************************************************)
FirstOf(options) == IF options = <<>> THEN <<>> ELSE <<Head(options)>>

RequestToolNames(body) ==
    FlatMap([tool \in Value |-> FirstOf(TextOf(Get(Get(tool, "function"), "name"))
                                    \o TextOf(Get(tool, "name")) \o TextOf(Get(tool, "type")))],
            ItemsOf(Get(body, "tools")))

ChatToolNames(body) ==
    LET calls == FlatMap([choice \in Value |->
                            ItemsOf(Get(Get(choice, "message"), "tool_calls"))],
                         ItemsOf(Get(body, "choices")))
    IN  FlatMap([call \in Value |-> TextOf(Get(Get(call, "function"), "name"))], calls)

(* Types that end in "_call", function_call and custom_tool_call included. *)
CallTypes == {<<"function_call">>, <<"search_call">>}

IsToolItem(item) ==
    IsString(Get(item, "type")) /\ Get(item, "type").text \in CallTypes

OutputToolNames[body \in Value] ==
    LET output == ItemsOf(Get(body, "output"))
    IN  (IF IsToolItem(body)
         THEN FirstOf(TextOf(Get(body, "name")) \o TextOf(Get(body, "type"))) ELSE <<>>)
            \o FlatMap(OutputToolNames, output)

(* Deviant: the event that carries a whole item is forgotten.              *)
KeysWithoutItem == <<"response", "delta", "data">>

NestedKeys == <<"response", "item", "delta", "data">>

ResponseToolNames[body \in Value] ==
    IF IsArray(body)
    THEN FlatMap(ResponseToolNames, body.items)
    ELSE ChatToolNames(body) \o OutputToolNames[body]
            \o FlatMap([key \in Keys |-> IF Get(body, key) = Absent THEN <<>>
                                         ELSE ResponseToolNames[Get(body, key)]], NestedKeys)

(* Of the values its text holds; see JsonText.                             *)
TextToolNames(text, isStream) ==
    FlatMap(ResponseToolNames, ValuesOf(text, isStream))

AllowsTools(allowed, names) == allowed = {} \/ ToSet(names) \subseteq allowed

-----------------------------------------------------------------------------
(***************************************************************************)
(* Previews for the audit record: sanitized, then cut.                     *)
(***************************************************************************)
Sanitized(text) == RedactText(Replacing(AuditPatterns), text)

Cut(text, limit) == SubSeq(text, 1, IF Len(text) < limit THEN Len(text) ELSE limit)

(* Deviant: cut, then sanitized.                                           *)
PreviewOfCut(text, limit) == Sanitized(Cut(text, limit))

Preview(text, limit) == Cut(Sanitized(text), limit)
====
