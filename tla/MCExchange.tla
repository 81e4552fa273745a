---- MODULE MCExchange ----
(***************************************************************************)
(* Exchange for TLC: requests of both endpoints and of a third path whose  *)
(* body is not validated, under a few settings, with a plain answer; a few *)
(* requests with many answers; header and preview variants.  Marks beside  *)
(* each other stand for characters without a space between.                *)
(***************************************************************************)
EXTENDS Exchange, TLC

CleanInputs ==
    {[path |-> p, method |-> "POST", contentType |-> "json", content |-> c] :
        p \in {"/v1/chat/completions", "/v1/responses", "/v1/other"},
        c \in {"malformed", "misshapen", "wellformed"}}

(***************************************************************************)
(* Marks.  Those of words and the escapes of JSON end in a word character. *)
(***************************************************************************)
SortedKeys ==
    <<"choices", "content", "data", "delta", "function", "input", "instructions", "item",
      "max_output_tokens", "max_tokens", "message", "messages", "metadata", "model", "name",
      "output", "response", "role", "stream", "text", "tool_calls", "tools", "type">>

SmallEscapes ==
    ("escaped newline" :> "newline") @@ ("escaped blank" :> "blank") @@ ("escaped quote" :> "quote")
        @@ ("escaped s1" :> "s1")

SmallNumeral ==
    (0 :> "0") @@ (1 :> "1") @@ (40 :> "40") @@ (41 :> "card") @@ (90 :> "90") @@ (99 :> "99")

Words ==
    {"word", "ignore", "rules", "s1", "s2", "card", "policy", "safe", "unsafe", "user", "system",
     "developer", "function_call", "search_call", "function_call_output", "added", "javascript",
     "suppressed", "null", "true", "false"}
    \cup {SmallNumeral[n] : n \in DOMAIN SmallNumeral} \cup ToSet(SortedKeys)

Others == {"REDACTED", "blank", "newline", "space", "script"} \cup Brackets

AllMarks == Words \cup Others \cup {"data:"} \cup DOMAIN SmallEscapes

(***************************************************************************)
(* Patterns, rules and settings.  Bounded is \b on both sides.             *)
(***************************************************************************)
Bounded(marks) ==
    [marks |-> marks, left |-> Words \cup DOMAIN SmallEscapes, right |-> Words \cup {"data:"}]

SmallPhrases == {<<"ignore", "rules">>, <<"rules", "ignore">>}
SecretForms == {Bounded(<<"s1", "s2">>), Bounded(<<"s1", "newline", "s2">>)}
CardForms == {Bounded(<<"card">>)}
ScriptPatterns == <<Literally({<<"script">>})>>
SecretPatterns == <<CardForms, {Bounded(<<"s1", "s2">>)}>>
PolicyPrompt == <<"policy">>

Rule(pattern, action) == [pattern |-> pattern, action |-> action]
Safe == <<"safe">>
Unsafe == <<"unsafe">>

Settings(injection, secret, card, mode, tools, sanitizer) ==
    [injection |-> injection, rules |-> <<Rule(SecretForms, secret), Rule(CardForms, card)>>,
     mode |-> mode, tools |-> tools, sanitizer |-> sanitizer, bodyChars |-> 60]

Redacts == Settings("redact", "redact", "redact", "inject", {Safe}, "redact")
Blocks == Settings("block", "block", "redact", "require", {Safe, <<"function_call">>}, "block")
Logs == Settings("log_only", "log_only", "block", "inject", {}, "log_only")

(***************************************************************************)
(* Requests.                                                               *)
(***************************************************************************)
Texts ==
    {<<>>, <<"blank">>, <<"word">>, <<"ignore", "rules">>, <<"ignore", "rules", "ignore">>,
     <<"s1", "s2">>, <<"word", "space", "s1">>, <<"s2", "space", "word">>, <<"card">>,
     <<"s1", "card", "s2">>, <<"s1", "s2", "space", "card">>, <<"ignore", "rules", "card">>,
     <<"word", "card">>, <<"word", "newline", "card">>, <<"word", "space", "policy">>}

Model == Str(<<"word">>)
User == Str(<<"user">>)
Part(t) == Obj([type |-> Str(<<"text">>), text |-> Str(t)])

Contents(t) ==
    {Str(t), Arr(<<Part(<<"word">>), Part(t)>>),
     Arr(<<Obj([content |-> Arr(<<Str(t)>>), output |-> Str(t)])>>)}

Message(content) == Obj([role |-> User, content |-> content])

ChatBody(messages) == Obj([model |-> Model, messages |-> Arr(messages)])
ResponsesBody(asked) == Obj([model |-> Model, input |-> asked])

ChatBodies ==
    {ChatBody(<<Message(c)>>) : c \in UNION {Contents(t) : t \in Texts} \cup {Null}}
    \cup {ChatBody(<<Message(Str(<<"word", "space", "s1">>)), Message(Str(<<"s2">>))>>),
          ChatBody(<<Obj([role |-> Str(<<"system">>), content |-> Str(<<"policy">>)]),
                     Message(Str(<<"word">>))>>),
          ChatBody(<<Obj([role |-> User])>>),
          ChatBody(<<Str(<<"word">>)>>),
          ChatBody(<<>>),
          Obj([model |-> Str(<<"s1", "s2">>), messages |-> Arr(<<Message(Null)>>)]),
          Put(ChatBody(<<Message(Str(<<"word">>))>>), "max_tokens", Num(90)),
          Put(ChatBody(<<Message(Str(<<"word">>))>>), "metadata", Num(41)),
          Put(ChatBody(<<Message(Str(<<"word">>))>>), "tools",
              Arr(<<Obj([type |-> Str(<<"function">>), function |-> Obj([name |-> Str(Safe)])]),
                    Obj([name |-> Str(Unsafe)])>>))}

ResponsesBodies ==
    {ResponsesBody(Str(t)) : t \in Texts}
    \cup {ResponsesBody(Arr(<<Obj([role |-> User, content |-> Str(t)])>>)) : t \in Texts}
    \cup {ResponsesBody(Arr(<<Obj([type |-> Str(<<"function_call_output">>), output |-> c])>>)) :
            c \in UNION {Contents(t) : t \in Texts}}
    \cup {Put(ResponsesBody(Str(<<"word">>)), "instructions", i) :
            i \in {Null} \cup {Str(t) : t \in Texts}}
    \cup {Put(ResponsesBody(Str(<<"word">>)), "tools", Arr(<<Obj([type |-> Str(t)])>>)) :
            t \in {Safe, Unsafe, <<>>}}
    \cup {Put(ResponsesBody(Str(<<"word">>)), "instructions", Num(1)),
          ResponsesBody(Arr(<<Obj([role |-> Str(<<"developer">>), content |-> Str(<<"policy">>)])>>))}

(* What only a path without validation lets through.                       *)
OtherBodies ==
    {Absent, Null, Str(<<"s1", "s2">>),
     Obj([messages |-> Str(<<"ignore", "rules">>)]),
     Obj([input |-> Null]),
     Obj([input |-> Obj([text |-> Str(<<"ignore", "rules">>), output |-> Str(<<"card">>)])]),
     Obj([input |-> Arr(<<Str(<<"ignore", "rules">>), Arr(<<Str(<<"ignore", "rules">>)>>)>>)]),
     Obj([messages |-> Arr(<<Str(<<"word">>)>>), input |-> Str(<<"ignore", "rules">>),
          instructions |-> Arr(<<Part(<<"ignore", "rules">>)>>)])}

BodiesOf ==
    [p \in {"/v1/chat/completions", "/v1/responses", "/v1/other"} |->
        {Unparsable} \cup CASE p = "/v1/chat/completions" -> ChatBodies
                            [] p = "/v1/responses"        -> ResponsesBodies
                            [] p = "/v1/other"            -> OtherBodies]

(***************************************************************************)
(* Answers: JSON, streams of events, and texts that are neither.           *)
(***************************************************************************)
PlainHeaders == ("content-type" :> "application/json")
StreamHeaders == ("content-type" :> "text/event-stream")
OddHeaders ==
    ("content-type" :> "application/json") @@ ("cache-control" :> "public")
        @@ ("x-correlation-id" :> "theirs") @@ ("etag" :> "tag") @@ ("x-extra" :> "extra")

Answer1(headers, t) == [headers |-> headers, text |-> t]
Json1(v) == Answer1(PlainHeaders, Spelled[v])
PlainAnswer == Json1(Obj([output |-> Arr(<<>>)]))

Event(v) == <<"data:">> \o Spelled[v] \o <<"blank">>
Stream(headers, events) == Answer1(headers, FlatMap([v \in Value |-> Event(v)], events))

Call(name) == Obj([type |-> Str(<<"function_call">>), name |-> Str(name)])
ToolCalls(name) == Obj([tool_calls |-> Arr(<<Obj([function |-> Obj([name |-> Str(name)])])>>)])
ChatAnswer(name, t) ==
    Obj([choices |-> Arr(<<Obj([message |-> Put(ToolCalls(name), "content", Str(t))])>>)])
OutputAnswer(items) == Obj([output |-> Arr(items)])

PlainValues ==
    {Str(t) : t \in Texts \cup {<<"script">>, <<"s1", "s2", "script", "card">>}}
    \cup {ChatAnswer(name, t) : name \in {Safe, Unsafe}, t \in {<<"word">>, <<"s1", "s2">>}}
    \cup {OutputAnswer(<<Call(name)>>) : name \in {Safe, Unsafe}}
    \cup {OutputAnswer(<<Obj([text |-> Str(<<"word">>)]), Obj([type |-> Str(<<"search_call">>)])>>),
          OutputAnswer(<<Obj([type |-> Str(<<"function_call">>), data |-> Num(41)])>>),
          Arr(<<OutputAnswer(<<Call(Unsafe)>>)>>)}

(* What Spelled would not write: white space, escapes, a key twice; texts  *)
(* that are no JSON.                                                       *)
OddTexts ==
    {<<"blank", "{", "newline">> \o Tail(Spelled[OutputAnswer(<<Call(Unsafe)>>)]),
     <<"quote", "escaped s1", "s2", "quote">>,
     <<"{">> \o Quoted(<<"item">>) \o <<":", "null", ",">> \o Tail(Spelled[Obj([item |-> Call(Unsafe)])]),
     <<"s1", "s2", "newline", "card">>, <<"script", "{", "}">>, <<"{", "card">>, <<>>}

EventValues ==
    {Obj([type |-> Str(<<"added">>), item |-> Call(name)]) : name \in {Safe, Unsafe}}
    \cup {Obj([response |-> OutputAnswer(<<Call(name)>>)]) : name \in {Safe, Unsafe}}
    \cup {Obj([delta |-> Str(t)]) : t \in {<<"s1", "s2">>, <<"word", "space", "s1">>, <<"script">>}}
    \cup {Obj([delta |-> Call(Unsafe)])}

Answers ==
    {Json1(v) : v \in PlainValues} \cup {Answer1(PlainHeaders, t) : t \in OddTexts}
    \cup {Stream(h, <<Obj([delta |-> Str(<<"word">>)]), v>>) :
            h \in {PlainHeaders, StreamHeaders}, v \in EventValues}
    \cup {Answer1(StreamHeaders, <<>>), Answer1(StreamHeaders, Spelled[ChatAnswer(Unsafe, <<"word">>)]),
          Answer1(OddHeaders, Spelled[Str(<<"word">>)])}

(***************************************************************************)
(* Exchanges.                                                              *)
(***************************************************************************)
ClientHeaders ==
    ("authorization" :> "client key") @@ ("cookie" :> "session")
        @@ ("proxy-authorization" :> "client key") @@ ("x-correlation-id" :> "id")
        @@ ("accept" :> "all")

Exchange1(p, json, s, answer) ==
    [path |-> p, json |-> json, headers |-> ClientHeaders, settings |-> s, answer |-> answer]

WithRequests ==
    UNION {{Exchange1(p, json, s, PlainAnswer) : json \in BodiesOf[p], s \in {Redacts, Blocks, Logs}} :
              p \in DOMAIN BodiesOf}

PolicyChat ==
    ChatBody(<<Obj([role |-> Str(<<"system">>), content |-> Str(<<"policy">>)])>>)
Streaming(json) == Put(json, "stream", Bool(TRUE))
Chat(json, s, answer) == Exchange1("/v1/chat/completions", json, s, answer)

WithAnswers ==
    {Chat(json, s, answer) :
        json \in {PolicyChat, Streaming(PolicyChat)}, s \in {Redacts, Blocks, Logs},
        answer \in Answers}

(* No header of the client, and previews cut everywhere.                   *)
WithPreviews ==
    {[Exchange1("/v1/other", Str(<<"word", "space", "s1", "s2">>), [Logs EXCEPT !.bodyChars = n],
                Json1(Str(<<"s1", "s2", "space", "word">>)))
        EXCEPT !.headers = ("accept" :> "all")] : n \in 0..8}

AllExchanges == WithRequests \cup WithAnswers \cup WithPreviews

(* These meet what the theorems of ExchangeProofs ask of a configuration.  *)
ASSUME MCExchangeApart ==
    /\ InjectionApart /\ KeyUnknown /\ "suppressed" \notin SecretMarks
    /\ \A e \in AllExchanges : RulesApart(e.settings.rules) /\ SanitizerApart(e.settings.rules)

(* Patterns without \b are not Apart from those with it: nothing matches    *)
(* until the other pattern is replaced and a word begins or ends there.    *)
(* One is a DLP rule behind a rule that blocks (dlp.rs:64-97), one is      *)
(* javascript\s*: of the sanitizer behind DLP (output_sanitizer.rs:21).    *)
ASSUME MCExchangeEdges ==
    /\ LET rules == <<Rule(CardForms, "block"), Rule(Literally({<<"s1", "s2">>}), "redact")>>
           t == <<"s1", "s2", "card">>
       IN  /\ DlpFinding(rules, t) = "redact"
           /\ ~RulesApart(rules) /\ ~Free(rules, RedactText(rules, t))
    /\ LET link == Literally({<<"javascript">>})
           t == <<"s1", "s2", "javascript">>
       IN  /\ DlpFinding(Redacts.rules, t) = "pass" /\ ~Apart(SecretForms, link)
           /\ ~Free(Redacts.rules, Redacted(link, t))

(***************************************************************************)
(* Small ones for the cases the documents say something else of: a         *)
(* streaming request answered with plain JSON; a stream of the chat        *)
(* format; escapes in a response; a huge max_tokens.                       *)
(***************************************************************************)
StreamExchanges ==
    {Chat(json, Redacts, Answer1(h, Spelled[OutputAnswer(<<Call(name)>>)])) :
        json \in {PolicyChat, Streaming(PolicyChat)}, h \in {PlainHeaders, StreamHeaders},
        name \in {Safe, Unsafe}}

DeltaExchanges ==
    {Chat(Streaming(PolicyChat), s, Stream(StreamHeaders, <<Obj([choices |-> Arr(<<Obj([delta |-> ToolCalls(name)])>>)])>>)) :
        s \in {Redacts, Blocks}, name \in {Safe, Unsafe}}

EscapeExchanges ==
    {Chat(PolicyChat, Redacts, Json1(ChatAnswer(Safe, t))) :
        t \in {<<"card">>, <<"space", "card">>, <<"newline", "card">>, <<"s1", "s2">>}}

LargeExchanges ==
    {Chat(Put(PolicyChat, "max_tokens", Num(n)), Redacts, PlainAnswer) : n \in DOMAIN SmallNumeral}
====
