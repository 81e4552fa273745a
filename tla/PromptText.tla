---- MODULE PromptText ----
(***************************************************************************)
(* The strings of a request that count as prompt, and the detectors that   *)
(* work on them: src/src/detectors/mod.rs, injection.rs, system_prompt.rs  *)
(* and src/src/utils/token_counter.rs.                                     *)
(***************************************************************************)
EXTENDS JsonValue

CONSTANTS
    InjectionPhrases, \* detectors.injection.patterns, looked for literally
    Prompt,           \* detectors.system_prompt.prompt
    UsizeValues       \* how many values a usize has

(* Blank patterns are dropped as the detector is built (injection.rs:23).  *)
ASSUME PromptAssumption ==
    /\ InjectionPhrases \subseteq Text \ {<<>>}
    /\ Prompt \in Text /\ UsizeValues \in Nat \ {0}

InjectionPattern == Literally(InjectionPhrases)

-----------------------------------------------------------------------------
(***************************************************************************)
(* prompt_strings: where injection and the token counter look.             *)
(***************************************************************************)
ContentStrings[content \in Value] ==
    LET PartStrings == [part \in Value |->
            IF IsObject(part)
            THEN TextOf(Get(part, "text"))
                    \o ContentStrings[Get(part, "content")] \o ContentStrings[Get(part, "output")]
            ELSE TextOf(part)]
    IN  IF IsArray(content)
        THEN FlatMap(PartStrings, content.items)
        ELSE PartStrings[content]

MessageStrings(body) ==
    FlatMap([message \in Value |-> ContentStrings[Get(message, "content")]],
            ItemsOf(Get(body, "messages")))

InputItemStrings ==
    [item \in Value |->
        TextOf(item) \o ContentStrings[Get(item, "content")]
            \o ContentStrings[Get(item, "output")] \o TextOf(Get(item, "text"))]

InputStrings(input) ==
    IF IsArray(input) THEN FlatMap(InputItemStrings, input.items)
    ELSE InputItemStrings[input]

PromptStrings(body) ==
    MessageStrings(body) \o TextOf(Get(body, "instructions"))
        \o InputStrings(Get(body, "input"))

-----------------------------------------------------------------------------
(***************************************************************************)
(* The token estimate.  The sum of a release build wraps.                  *)
(***************************************************************************)
TextTokens(text) ==
    LET chars == FoldLeft(LAMBDA n, mark : n + Chars(mark), 0, text)
    IN  IF chars = 0 THEN 1 ELSE (chars + 3) \div 4

TokenSum(body) ==
    FoldLeft(LAMBDA n, text : n + TextTokens(text), 0, TextOf(Get(body, "model")))
        + FoldLeft(LAMBDA n, text : n + 4 + TextTokens(text), 0, PromptStrings(body))
        + NumberOf(Get(body, "max_tokens")) + NumberOf(Get(body, "max_output_tokens"))

EstimatePromptTokens(body) == TokenSum(body) % UsizeValues

-----------------------------------------------------------------------------
(***************************************************************************)
(* Prompt injection: what is looked for in prompt_strings is replaced by a *)
(* walk of its own.                                                        *)
(***************************************************************************)
HasInjection(body) ==
    \E i \in DOMAIN PromptStrings(body) : Occurs(InjectionPattern, PromptStrings(body)[i])

(* Deviant: the output of a tool is not walked.                            *)
FieldsWithoutOutput == {"text", "content"}

RedactedFields == {"text", "content", "output"}

RedactContent[content \in Value] ==
    CASE IsArray(content)  -> Arr([i \in DOMAIN content.items |->
                                      RedactContent[content.items[i]]])
      [] IsObject(content) -> Obj([k \in Keys |->
                                      IF k \in RedactedFields
                                      THEN RedactContent[content.fields[k]]
                                      ELSE content.fields[k]])
      [] IsString(content) -> Str(Redacted(InjectionPattern, content.text))
      [] OTHER             -> content

(* A message has only its content replaced.                                *)
RedactMessage(message) ==
    IF Get(message, "content") = Absent THEN message
    ELSE Put(message, "content", RedactContent[Get(message, "content")])

(* An item of the input is a string or an object, nothing else is touched. *)
RedactInputItem(item) == IF IsArray(item) THEN item ELSE RedactContent[item]

RedactField(key, value) ==
    CASE key = "messages" /\ IsArray(value) ->
            Arr([i \in DOMAIN value.items |-> RedactMessage(value.items[i])])
      [] key = "instructions" -> RedactContent[value]
      [] key = "input" ->
            IF IsArray(value)
            THEN Arr([i \in DOMAIN value.items |-> RedactInputItem(value.items[i])])
            ELSE RedactInputItem(value)
      [] OTHER -> value

RedactPromptFields(body) ==
    IF IsObject(body)
    THEN Obj([k \in Keys |-> RedactField(k, body.fields[k])])
    ELSE body

-----------------------------------------------------------------------------
(***************************************************************************)
(* The mandatory system prompt.                                            *)
(***************************************************************************)
ContainsPrompt(text) == Occurs(Literally({Prompt}), text)

PolicyMessage(item) ==
    /\ Get(item, "role") \in {Str(<<"system">>), Str(<<"developer">>)}
    /\ \E i \in DOMAIN ContentStrings[Get(item, "content")] :
          ContainsPrompt(ContentStrings[Get(item, "content")][i])

HasRequiredPrompt(body) ==
    LET instructions == Get(body, "instructions")
        input == Get(body, "input")
        policies == ItemsOf(Get(body, "messages")) \o ItemsOf(input)
    IN  \/ IsString(instructions) /\ ContainsPrompt(instructions.text)
        \/ \E i \in DOMAIN policies : PolicyMessage(policies[i])
        \/ PolicyMessage(input)

HasPromptSurface(body) == IsArray(Get(body, "messages")) \/ Get(body, "input") # Absent

(* Deviants: only instructions that are there are written; they are        *)
(* overwritten.                                                            *)
WriteExisting(existing) ==
    IF IsString(existing) THEN Str(Prompt \o <<"blank">> \o existing.text) ELSE existing
OverwriteInstructions(existing) == Str(Prompt)

WriteInstructions(existing) ==
    CASE IsString(existing) /\ ContainsPrompt(existing.text) -> existing
      [] IsString(existing) /\ ~ContainsPrompt(existing.text) /\ ~IsBlank(existing.text) ->
            Str(Prompt \o <<"blank">> \o existing.text)
      [] OTHER -> Str(Prompt)

InjectPrompt(body) ==
    LET messages == Get(body, "messages")
        policy == Obj([role |-> Str(<<"system">>), content |-> Str(Prompt)])
    IN  IF IsArray(messages)
        THEN Put(body, "messages", Arr(<<policy>> \o messages.items))
        ELSE Put(body, "instructions", WriteInstructions(Get(body, "instructions")))
====
