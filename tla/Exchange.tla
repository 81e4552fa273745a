---- MODULE Exchange ----
(***************************************************************************)
(* One exchange with its data: ProxyHandler, where a detector may return   *)
(* any verdict, joined with what the verdicts are made of, namely the JSON *)
(* of the request, the text of the response, the headers of both and the   *)
(* settings of the detectors.  Each step is a step of the handler together *)
(* with what the code does to the data in it: a verdict the data calls for *)
(* and the handler's model does not allow would be a deadlock here.        *)
(***************************************************************************)
EXTENDS ProxyHandler, RequestShape, PromptText, ContentRules

CONSTANTS
    Exchanges,       \* what clients send, detectors are set to, upstreams answer
    MaxRequestTokens \* token_budget.max_request_tokens

(* The models below speak of the data of a single request.                 *)
ASSUME ExchangeAssumption ==
    Cardinality(Requests) = 1 /\ MaxRequestTokens \in Nat

Nothing == [some |-> FALSE]

Actions == {"block", "redact", "log_only"}

ASSUME ExchangeTypes ==
    \A e \in Exchanges :
        /\ e.json \in Value \cup {Unparsable}
        /\ e.settings.rules \in Rules
        /\ e.settings.injection \in Actions /\ e.settings.sanitizer \in Actions
        /\ e.settings.mode \in {"inject", "require"}
        /\ e.settings.bodyChars \in Nat
        /\ e.answer.text \in Text

VARIABLES
    exchange,     \* the exchange: path, json, headers, settings, answer
    rewritten,    \* modified_body of the request context, once there is one
    promptTokens, \* prompt_tokens of the request context
    outbound,     \* headers and JSON the upstream was given
    text,         \* body_text of the response context
    relayed,      \* headers and text the client was given
    record        \* the audit record

data == <<exchange, rewritten, promptTokens, outbound, text, relayed, record>>
exchangeVars == <<vars, data>>

settings == exchange.settings

ContentOf(path, json) ==
    IF json = Unparsable THEN "malformed"
    ELSE IF ValidBody(path, json) THEN "wellformed" ELSE "misshapen"

ExchangeInit ==
    /\ Init
    /\ exchange \in Exchanges
    /\ \A r \in Requests :
          /\ input[r].path = exchange.path
          /\ input[r].content = ContentOf(exchange.path, exchange.json)
    /\ rewritten = Absent
    /\ promptTokens = 0
    /\ outbound = Nothing
    /\ text = <<>>
    /\ relayed = Nothing
    /\ record = Nothing

-----------------------------------------------------------------------------
(***************************************************************************)
(* The request chain on the JSON of the request; Absent where there is no  *)
(* body.                                                                   *)
(***************************************************************************)
CurrentJson(r) == IF modifiedBody[r].some THEN rewritten ELSE exchange.json

TokenFindings(json) ==
    IF EstimatePromptTokens(json) > MaxRequestTokens THEN {"block"}
    ELSE IF EstimatePromptTokens(json) = 0 THEN {"pass"} ELSE PassOrBlock

PromptFinding(json) ==
    IF IsBlank(Prompt) \/ ~HasPromptSurface(json) \/ HasRequiredPrompt(json) THEN "pass"
    ELSE IF settings.mode = "inject" THEN "modify" ELSE "block"

RequestVerdicts(d, json) ==
    CASE d = "rate_limiter"     -> PassOrBlock
      [] d = "token_budget"     -> TokenFindings(json)
      [] d = "prompt_injection" -> {IF HasInjection(json) THEN settings.injection ELSE "pass"}
      [] d = "dlp"              -> {DlpFinding(settings.rules, Lines(json))}
      [] d = "system_prompt"    -> {PromptFinding(json)}
      [] d = "tool_call"        -> {IF AllowsTools(settings.tools, RequestToolNames(json))
                                    THEN "pass" ELSE "block"}

RewrittenBy(d, json) ==
    CASE d = "prompt_injection" -> RedactPromptFields(json)
      [] d = "dlp"              -> DlpRedactValue(settings.rules, json)
      [] d = "system_prompt"    -> InjectPrompt(json)

InspectJson(r) ==
    /\ InspectRequest(r)
    /\ LET d == NextDetector(RequestChain, requestResults[r])
           verdict == Last(requestResults'[r])
       IN  /\ verdict \in RequestVerdicts(d, CurrentJson(r))
           /\ rewritten' = IF verdict \in Rewriting
                           THEN RewrittenBy(d, CurrentJson(r)) ELSE rewritten
           /\ promptTokens' = IF d = "token_budget"
                              THEN EstimatePromptTokens(CurrentJson(r)) ELSE promptTokens
    /\ UNCHANGED <<exchange, outbound, text, relayed, record>>

-----------------------------------------------------------------------------
(***************************************************************************)
(* Headers.  The key of the service takes the place of the client's.       *)
(***************************************************************************)
(* Deviant: the client's authorization is only replaced, never dropped.    *)
DroppedIfReplaced == {"host", "content-length", "connection", "cookie", "accept-encoding",
                      "proxy-authorization", "proxy-connection"}

NotForwarded == {"host", "content-length", "connection", "authorization", "cookie",
                 "accept-encoding", "proxy-authorization", "proxy-connection"}

OutboundHeaders(headers, key) ==
    [h \in (DOMAIN headers \ NotForwarded) \cup (IF key THEN {"authorization"} ELSE {}) |->
        IF h = "authorization" /\ key THEN "service key" ELSE headers[h]]

(* The parsed value stands for what is sent; of a body no detector rewrote *)
(* the code sends the bytes as they came (handler.rs:91-95), which differ  *)
(* from it where a key stands twice.                                       *)
SendJson(r) ==
    /\ Send(r)
    /\ outbound' = [some |-> TRUE, json |-> CurrentJson(r),
                    headers |-> OutboundHeaders(exchange.headers, keySet)]
    /\ UNCHANGED <<exchange, rewritten, promptTokens, text, relayed, record>>

HopByHop == {"connection", "keep-alive", "proxy-authenticate", "proxy-authorization",
             "te", "trailer", "transfer-encoding", "upgrade"}
BodyMetadata == {"content-length", "content-encoding", "content-md5", "etag"}

CorrelationId ==
    IF "x-correlation-id" \in DOMAIN exchange.headers
    THEN exchange.headers["x-correlation-id"] ELSE "fresh"

IsStream(r) ==
    \/ exchange.answer.headers["content-type"] = "text/event-stream"
    \/ Get(CurrentJson(r), "stream") = Bool(TRUE)

OwnHeaders(r) ==
    [h \in {"cache-control", "x-content-type-options", "x-llm-firewall", "x-correlation-id"}
              \cup (IF IsStream(r) THEN {"content-type"} ELSE {}) |->
        CASE h = "cache-control"          -> "no-store"
          [] h = "x-content-type-options" -> "nosniff"
          [] h = "x-llm-firewall"         -> "protected"
          [] h = "x-correlation-id"       -> CorrelationId
          [] h = "content-type"           -> "text/event-stream"]

KeptHeaders == DOMAIN exchange.answer.headers \ (HopByHop \cup BodyMetadata)

(* Deviant: the upstream's headers are written last.                       *)
HeadersOfUpstreamLast(r) ==
    [h \in KeptHeaders \cup DOMAIN OwnHeaders(r) |->
        IF h \in KeptHeaders THEN exchange.answer.headers[h] ELSE OwnHeaders(r)[h]]

ResponseHeaders(r) ==
    [h \in KeptHeaders \cup DOMAIN OwnHeaders(r) |->
        IF h \in DOMAIN OwnHeaders(r) THEN OwnHeaders(r)[h] ELSE exchange.answer.headers[h]]

-----------------------------------------------------------------------------
(***************************************************************************)
(* The response chain on the text of the response.                         *)
(***************************************************************************)
CollectText(r) ==
    /\ EndOfResponse(r)
    /\ text' = exchange.answer.text
    /\ UNCHANGED <<exchange, rewritten, promptTokens, outbound, relayed, record>>

SanitizerRules == Replacing(ExecutablePatterns)

ResponseVerdict(r, d) ==
    CASE d = "dlp"       -> DlpFinding(settings.rules, text)
      [] d = "tool_call" -> IF AllowsTools(settings.tools, TextToolNames(text, IsStream(r)))
                            THEN "pass" ELSE "block"
      [] d = "output_sanitizer" ->
            IF Found(SanitizerRules, text) = {} THEN "pass" ELSE settings.sanitizer

InspectText(r) ==
    /\ InspectResponse(r)
    /\ LET d == NextDetector(ResponseChain, responseResults[r])
           verdict == Last(responseResults'[r])
           rules == IF d = "dlp" THEN settings.rules ELSE SanitizerRules
       IN  /\ verdict = ResponseVerdict(r, d)
           /\ text' = IF verdict \in Rewriting THEN RedactText(rules, text) ELSE text
    /\ UNCHANGED <<exchange, rewritten, promptTokens, outbound, relayed, record>>

-----------------------------------------------------------------------------
(***************************************************************************)
(* The audit record: previews, and the reasons detectors recorded, which   *)
(* name the tools that were refused.                                       *)
(***************************************************************************)
Suppressed == <<"suppressed">>

(* Deviant: the request that was blocked is sampled like any other.        *)
AnyRequestPreview(r, event) == Preview(Spelled[CurrentJson(r)], settings.bodyChars)

RequestPreview(r, event) ==
    IF event = "blocked_request" THEN Suppressed
    ELSE Preview(Spelled[CurrentJson(r)], settings.bodyChars)

ResponsePreview(event) ==
    CASE event = "blocked_request"  -> <<>>
      [] event = "blocked_response" -> Suppressed
      [] event = "allowed"          -> Preview(text, settings.bodyChars)

EndedBy(d, chain, results) ==
    results # <<>> /\ Last(results) = "block" /\ chain[Len(results)] = d

RefusedTools(r) ==
    LET asked == IF EndedBy("tool_call", RequestChain, requestResults[r])
                 THEN ToSet(RequestToolNames(CurrentJson(r))) ELSE {}
        called == IF EndedBy("tool_call", ResponseChain, responseResults[r])
                  THEN ToSet(TextToolNames(text, IsStream(r))) ELSE {}
    IN  (asked \cup called) \ settings.tools

AuditRecord(r, event) ==
    [some |-> TRUE, event |-> event, tokens |-> promptTokens,
     request |-> RequestPreview(r, event), response |-> ResponsePreview(event),
     reason |-> IF event = "allowed" THEN <<>> ELSE <<"policy">>,
     refused |-> RefusedTools(r)]

RecordAudit(r) ==
    /\ Audit(r)
    /\ record' = AuditRecord(r, ending[r].event)
    /\ UNCHANGED <<exchange, rewritten, promptTokens, outbound, text, relayed>>

RelayText(r) ==
    /\ Answer(r)
    /\ relayed' = IF ending[r].status = Relayed
                  THEN [some |-> TRUE, headers |-> ResponseHeaders(r), text |-> text]
                  ELSE relayed
    /\ UNCHANGED <<exchange, rewritten, promptTokens, outbound, text, record>>

-----------------------------------------------------------------------------
(* A body is empty exactly where the exchange has no JSON.                 *)
EndOfJson(r) == EndOfBody(r) /\ (body[r] = 0 <=> exchange.json = Absent)

WithoutData(r) ==
    \/ StartRequest(r) \/ ReadChunk(r) \/ PayloadError(r) \/ EndOfJson(r) \/ Disconnect(r)
    \/ RejectInvalid(r) \/ StartInspection(r) \/ RequestCleared(r)
    \/ MissingKey(r) \/ UpstreamAnswers(r) \/ SendFails(r)
    \/ CollectChunk(r) \/ CollectFails(r) \/ ResponseCleared(r) \/ Count(r)

ExchangeNext ==
    \/ \E r \in Requests :
          \/ InspectJson(r) \/ SendJson(r) \/ CollectText(r) \/ InspectText(r)
          \/ RecordAudit(r) \/ RelayText(r)
          \/ WithoutData(r) /\ UNCHANGED data
    \/ Rest /\ UNCHANGED data

ExchangeSpec == ExchangeInit /\ [][ExchangeNext]_exchangeVars

-----------------------------------------------------------------------------
(***************************************************************************)
(* What the theorems of ExchangeProofs ask of a configuration, where one   *)
(* needs it: that what the firewall itself writes into a text (REDACTED,   *)
(* the mandatory prompt with an empty line behind it, its role) makes no   *)
(* match, since the detector has run when it is written.                   *)
(***************************************************************************)
InjectionApart ==
    /\ Lacks(InjectionPattern, "REDACTED") /\ Lacks(InjectionPattern, "blank")
    /\ ~Occurs(InjectionPattern, Prompt)

RulesApart(rules) ==
    /\ \A i \in DOMAIN rules : Acting(rules, i) =>
          /\ OpenEnds(rules[i].pattern)
          /\ \A j \in DOMAIN rules :
                rules[j].action = "redact" => Apart(rules[i].pattern, rules[j].pattern)
    /\ RulesLack(rules, "REDACTED") /\ RulesLack(rules, "blank")
    /\ Free(rules, Prompt) /\ Free(rules, <<"system">>)

(* The output sanitizer rewrites responses behind DLP.                     *)
SanitizerApart(rules) ==
    \A i \in DOMAIN rules : Acting(rules, i) =>
        \A j \in DOMAIN ExecutablePatterns : Apart(rules[i].pattern, ExecutablePatterns[j])

(* No client knows the key of the service.                                 *)
KeyUnknown == \A e \in Exchanges : \A h \in DOMAIN e.headers : e.headers[h] # "service key"

-----------------------------------------------------------------------------
(***************************************************************************)
(* Properties.                                                             *)
(***************************************************************************)
Forwarded == \E r \in Requests : sent[r].calls > 0

(* Nothing the injection detector acts on goes out in any string it reads, *)
(* although it reads them by one walk (detectors/mod.rs:26) and replaces   *)
(* them by another (injection.rs:99), and a match may hide behind another. *)
InjectionRedacted ==
    (Forwarded /\ "prompt_injection" \in Enabled /\ settings.injection # "log_only")
        => ~HasInjection(outbound.json)

(* No string of a request that is sent holds a match of a rule that        *)
(* redacts or blocks, nor does the text of a response that is relayed: not *)
(* after the rules rewrote it one after the other, nor after the detectors *)
(* behind them changed it (dlp.rs:64-97).  This is so for rules that are   *)
(* RulesApart, and for responses SanitizerApart.  What the client reads    *)
(* where the text holds escapes: ResponsesFreeOfMatches.                   *)
RuleFree(strings) == \A j \in DOMAIN strings : Free(settings.rules, strings[j])

DlpLeavesNoneSent ==
    ("dlp" \in Enabled /\ Forwarded) => RuleFree(StringsOf[outbound.json])

DlpLeavesNothing ==
    /\ DlpLeavesNoneSent
    /\ ("dlp" \in Enabled /\ relayed.some) => Free(settings.rules, relayed.text)

(* What strict validation accepted is still a valid request when it is     *)
(* sent, whatever detectors rewrote: no field it needs becomes empty or    *)
(* changes its type (handler.rs:45-52, 91-95).                             *)
RewritingKeepsShape ==
    \A r \in Requests :
        (sent[r].calls > 0 /\ HasEnvelope(r)) => ValidBody(exchange.path, outbound.json)

(* No request with a place for it goes out without the mandatory prompt,   *)
(* whatever stands in that place and whatever was redacted before          *)
(* (system_prompt.rs:41-68, 125-158).                                      *)
PromptPresent ==
    (/\ Forwarded /\ "system_prompt" \in Enabled
     /\ ~IsBlank(Prompt) /\ HasPromptSurface(outbound.json))
        => HasRequiredPrompt(outbound.json)

(* Inserting the mandatory prompt loses nothing the client wrote: every    *)
(* prompt string that is not blank ends one of the new ones.               *)
PromptsKept ==
    [][\A r \in Requests :
          (Len(requestResults'[r]) > Len(requestResults[r])
             /\ Last(requestResults'[r]) = "modify")
           => \A i \in DOMAIN PromptStrings(CurrentJson(r)) :
                 LET old == PromptStrings(CurrentJson(r))[i]
                     new == PromptStrings(rewritten')
                 IN  IsBlank(old) \/ \E j \in DOMAIN new : IsSuffix(old, new[j])
      ]_exchangeVars

(* Where the two formats put the calls of tools: in the message of a chat  *)
(* choice; among the output of a response; in a stream as the item of an   *)
(* event, or in the response that an event carries whole.                  *)
CallsOf(message) ==
    {Get(Get(call, "function"), "name") : call \in ToSet(ItemsOf(Get(message, "tool_calls")))}

ChatCalls(v, key) ==
    UNION {CallsOf(Get(choice, key)) : choice \in ToSet(ItemsOf(Get(v, "choices")))}

ItemCalls(v) ==
    LET places == {Get(v, "item")} \cup ToSet(ItemsOf(Get(v, "output")))
                     \cup ToSet(ItemsOf(Get(Get(v, "response"), "output")))
    IN  {IF IsString(Get(item, "name")) THEN Get(item, "name") ELSE Get(item, "type") :
            item \in {i \in places : IsToolItem(i)}}

Allowed(name) == IsString(name) => name.text \in settings.tools

Restricts == "tool_call" \in Enabled /\ settings.tools # {}

(* The format the answer really has, and what the client reads in it.      *)
Streamed ==
    LET lines == TextLines(exchange.answer.text)
    IN  \E i \in DOMAIN lines : lines[i] # <<>> /\ Head(lines[i]) = "data:"

RelayedValues == ToSet(ValuesOf(relayed.text, Streamed))

CallsAllowed ==
    \A v \in RelayedValues : \A name \in ChatCalls(v, "message") \cup ItemCalls(v) : Allowed(name)

(* A call at one of these places reaches the client only for a tool on the *)
(* list: the collector follows keys of its own (tool_call.rs:133-201), and *)
(* a detector in front of it rewrites the text it parses.  Where the       *)
(* format is not the one is_stream says, see AnyFormatAllowed; for the     *)
(* chat format's streams, StreamedCallsAllowed.                            *)
RelayedCallsAllowed ==
    (relayed.some /\ Restricts /\ \A r \in Requests : IsStream(r) = Streamed) => CallsAllowed

(* A record samples only what was passed on: the request as it was sent,   *)
(* the response as it was cleared and is relayed; never what was blocked,  *)
(* nor a body as it was before it was rewritten (docs/behavior.md:57,      *)
(* audit.rs:72-106).                                                       *)
RecordsOnlyPassedOn ==
    record.some =>
        /\ record.request # Suppressed =>
              outbound.some /\ record.request = Preview(Spelled[outbound.json], settings.bodyChars)
        /\ record.response \notin {<<>>, Suppressed} =>
              \A r \in Requests : Cleared(ResponseChain, responseResults[r])
        /\ relayed.some => record.response = Preview(relayed.text, settings.bodyChars)

(* No preview shows a part of a secret because the limit cuts it: what is  *)
(* cut is the sanitized text (audit.rs:122-124).                           *)
SecretMarks ==
    UNION {ToSet(form.marks) : form \in UNION {AuditPatterns[i] : i \in DOMAIN AuditPatterns}}
AllInSecrets(whole) == ToSet(Sanitized(whole)) \cap SecretMarks = {}

PreviewsSanitized ==
    \A r \in Requests : record.some =>
        /\ AllInSecrets(Spelled[CurrentJson(r)]) => ToSet(record.request) \cap SecretMarks = {}
        /\ AllInSecrets(text) => ToSet(record.response) \cap SecretMarks = {}

(* The upstream gets no credential of the client, also where the service   *)
(* has no key of its own (docs/behavior.md:22, upstream.rs:52-92).         *)
ClientCredentialsStay ==
    Forwarded =>
        \A h \in DOMAIN outbound.headers \cap DOMAIN exchange.headers :
            h \in {"authorization", "cookie", "proxy-authorization"}
                => outbound.headers[h] # exchange.headers[h]

(* docs/behavior.md:55: every relayed response carries the four headers of *)
(* the firewall, with its values, whatever headers the upstream sent.      *)
ResponseHeadersOwn ==
    relayed.some =>
        LET headers == relayed.headers
        IN  /\ headers["cache-control"] = "no-store"
            /\ headers["x-content-type-options"] = "nosniff"
            /\ headers["x-llm-firewall"] = "protected"
            /\ headers["x-correlation-id"] = CorrelationId

(***************************************************************************)
(* What the documents say of other cases, which the code does not keep.    *)
(***************************************************************************)
(* docs/behavior.md:52: the upstream "returns a `function_call`, hosted    *)
(* tool call, or custom tool call outside the allow-list": HTTP 403.       *)
AnyFormatAllowed == (relayed.some /\ Restricts) => CallsAllowed

(* README.md:18: "Restrict tool/function calls to an allow-list."  The     *)
(* chat format streams them in the delta of a choice.                      *)
StreamedCallsAllowed ==
    (relayed.some /\ Restricts) =>
        \A v \in RelayedValues : \A name \in ChatCalls(v, "delta") : Allowed(name)

(* README.md:16: "Redact or block DLP matches in prompts and responses."   *)
(* Of the responses, as they are read.                                     *)
ResponsesFreeOfMatches ==
    (relayed.some /\ "dlp" \in Enabled) => \A v \in RelayedValues : RuleFree(StringsOf[v])

(* docs/live-readiness.md:20: "token limits ... all short-circuit before   *)
(* upstream".                                                              *)
LargeRequestsStopped ==
    (Forwarded /\ "token_budget" \in Enabled /\ outbound.json # Absent)
        => TokenSum(exchange.json) <= MaxRequestTokens
====
