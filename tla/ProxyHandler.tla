---- MODULE ProxyHandler ----
(***************************************************************************)
(* The request path of the firewall: proxy_handler with everything it      *)
(* calls, for requests handled at the same time, with clients that go      *)
(* away, an upstream that fails or is too slow, and a process that is      *)
(* restarted.  src/src/proxy/handler.rs, proxy/upstream.rs, pipeline/,     *)
(* errors.rs, utils/metrics.rs, utils/audit.rs.                            *)
(*                                                                         *)
(* A body is abstracted to its length in units, to the kind of text it is, *)
(* and to the set of detectors whose rewriting it carries.  A detector is  *)
(* any of the verdicts its code can return; what it looks for is left out. *)
(* Steps between two awaits are split wherever another worker, a scrape or *)
(* a kill can come in between: after each detector, counter, audit record. *)
(***************************************************************************)
EXTENDS Integers, Sequences, FiniteSets

CONSTANTS
    Requests,          \* requests handled
    Inputs,            \* what they look like: a subset of InputType
    AllowedPaths,      \* server.allowed_paths (none: every path is allowed)
    Strict,            \* server.strict_chat_validation
    MaxBodySize,       \* server.max_body_size, in units
    MaxResponseBuffer, \* server.max_response_buffer, in units
    ChunkSizes,        \* the sizes chunks of a body may have
    Enabled,           \* the detectors whose "enabled" is set
    RequireApiKey,     \* upstream.require_api_key
    MaxRestarts        \* bound on restarts of the process

Paths == {"/v1/chat/completions", "/v1/responses", "/v1/models", "/v1/other"}
InputType ==
    [path : Paths, method : {"POST", "GET"}, contentType : {"json", "other"},
     content : {"malformed", "misshapen", "wellformed"}]

Detectors ==
    {"rate_limiter", "token_budget", "prompt_injection", "dlp", "system_prompt",
     "tool_call", "output_sanitizer"}

ASSUME HandlerAssumption ==
    /\ IsFiniteSet(Requests)
    /\ Inputs \subseteq InputType /\ Inputs # {}
    /\ AllowedPaths \subseteq Paths
    /\ Strict \in BOOLEAN /\ RequireApiKey \in BOOLEAN
    /\ MaxBodySize \in Nat \ {0} /\ MaxResponseBuffer \in Nat \ {0}
    /\ ChunkSizes \subseteq Nat \ {0}
    /\ Enabled \subseteq Detectors
    /\ MaxRestarts \in Nat

VARIABLES
    process,         \* how many processes ran before this one
    keySet,          \* the environment of the process names an upstream key
    metrics,         \* the seven counters of the process
    input,           \* input[r]: what r looks like
    phase,           \* phase[r]: where in proxy_handler r is
    body,            \* body[r]: units of the request body read so far
    requestResults,  \* requestResults[r]: detector_results of its context
    modifiedBody,    \* modifiedBody[r]: modified_body of its context
    response,        \* response[r]: units of the response body read so far
    responseResults, \* responseResults[r]: detector_results of its context
    bodyText,        \* bodyText[r]: the rewritings body_text carries
    ending,          \* ending[r]: counter, audit event and status r ends with
    startedIn,       \* history: the process that started r
    offered,         \* history: units the client has sent of the body of r
    sent,            \* history: what the upstream was given of r
    audited          \* history: the audit events recorded for r

vars == <<process, keySet, metrics, input, phase, body, requestResults,
          modifiedBody, response, responseResults, bodyText, ending,
          startedIn, offered, sent, audited>>

-----------------------------------------------------------------------------
(***************************************************************************)
(* The detector chains, in the order from_config pushes them, and what a   *)
(* detector may find.                                                      *)
(***************************************************************************)
IfEnabled(d) == IF d \in Enabled THEN <<d>> ELSE <<>>

(* Deviant: tokens are charged before the rate is looked at.               *)
BudgetFirstChain ==
    IfEnabled("token_budget") \o IfEnabled("rate_limiter") \o IfEnabled("prompt_injection")
        \o IfEnabled("dlp") \o IfEnabled("system_prompt") \o IfEnabled("tool_call")

RequestChain ==
    IfEnabled("rate_limiter") \o IfEnabled("token_budget") \o IfEnabled("prompt_injection")
        \o IfEnabled("dlp") \o IfEnabled("system_prompt") \o IfEnabled("tool_call")

ResponseChain ==
    IfEnabled("dlp") \o IfEnabled("tool_call") \o IfEnabled("output_sanitizer")

PassOrBlock == {"pass", "block"}
RateLimiterFindings  == PassOrBlock
TokenBudgetFindings  == PassOrBlock
InjectionFindings    == PassOrBlock \cup {"redact", "log_only"}
DlpFindings          == PassOrBlock \cup {"redact", "log_only"}
SystemPromptFindings == PassOrBlock \cup {"modify"}
ToolCallFindings     == PassOrBlock
SanitizerFindings    == PassOrBlock \cup {"redact", "log_only"}

Findings ==
    [rate_limiter |-> RateLimiterFindings, token_budget |-> TokenBudgetFindings,
     prompt_injection |-> InjectionFindings, dlp |-> DlpFindings,
     system_prompt |-> SystemPromptFindings, tool_call |-> ToolCallFindings,
     output_sanitizer |-> SanitizerFindings]

Rewriting == {"redact", "modify"}

(* The statuses errors.rs gives the errors; Relayed stands for whatever    *)
(* status the upstream answered with.                                      *)
Relayed == 0
StatusOf(error) ==
    CASE error \in {"BodyTooLarge", "ResponseTooLarge"} -> 413
      [] error = "PathNotAllowed"                       -> 404
      [] error = "MethodNotAllowed"                     -> 405
      [] error = "UnsupportedContentType"               -> 415
      [] error \in {"MissingBody", "InvalidRequest", "InvalidJson"} -> 400
      [] error = "MissingUpstreamApiKey"                -> 500
      [] error = "Upstream"                             -> 502

BlockStatus(d) == IF d = "rate_limiter" THEN 429 ELSE 403

Counters == {"requests_started", "requests_allowed", "request_blocks",
             "response_blocks", "validation_errors", "upstream_errors",
             "proxy_errors"}

NoEnding == [counter |-> "none", event |-> "none", status |-> -1]
NotSent == [calls |-> 0, edits |-> {}, key |-> FALSE]
Unmodified == [some |-> FALSE, edits |-> {}]

Init ==
    /\ process = 0
    /\ keySet \in BOOLEAN
    /\ metrics = [c \in Counters |-> 0]
    /\ input \in [Requests -> Inputs]
    /\ phase = [r \in Requests |-> "idle"]
    /\ body = [r \in Requests |-> 0]
    /\ requestResults = [r \in Requests |-> <<>>]
    /\ modifiedBody = [r \in Requests |-> Unmodified]
    /\ response = [r \in Requests |-> 0]
    /\ responseResults = [r \in Requests |-> <<>>]
    /\ bodyText = [r \in Requests |-> {}]
    /\ ending = [r \in Requests |-> NoEnding]
    /\ startedIn = [r \in Requests |-> 0]
    /\ offered = [r \in Requests |-> 0]
    /\ sent = [r \in Requests |-> NotSent]
    /\ audited = [r \in Requests |-> <<>>]

server == <<process, keySet>>
requestCtx == <<requestResults, modifiedBody>>
responseCtx == <<response, responseResults, bodyText>>
reading == <<input, body, startedIn, offered>>

Goto(r, p) == phase' = [phase EXCEPT ![r] = p]

Increment(c) == metrics' = [metrics EXCEPT ![c] = @ + 1]

(* The handler leaves its main path: it will count, audit and answer.      *)
Finish(r, counter, event, status) ==
    /\ ending' = [ending EXCEPT ![r] =
                     [counter |-> counter, event |-> event, status |-> status]]
    /\ Goto(r, "counting")

(* Deviant: an early return that forgets the counter.                      *)
FailUncounted(r, counter, error) ==
    /\ ending' = [ending EXCEPT ![r] =
                     [counter |-> counter, event |-> "none", status |-> StatusOf(error)]]
    /\ Goto(r, "answering")

Fail(r, counter, error) == Finish(r, counter, "none", StatusOf(error))

(* Deviants: the limit is looked at before the chunk is added; one too     *)
(* many is let in.                                                         *)
OverflowsAlready(have, n, limit) == have > limit
OverflowsByTwo(have, n, limit) == have + n > limit + 1

Overflows(have, n, limit) == have + n > limit

-----------------------------------------------------------------------------
(***************************************************************************)
(* Reading the request body.                                               *)
(***************************************************************************)
StartRequest(r) ==
    /\ phase[r] = "idle"
    /\ Increment("requests_started")
    /\ startedIn' = [startedIn EXCEPT ![r] = process]
    /\ Goto(r, "reading")
    /\ UNCHANGED <<server, input, body, requestCtx, responseCtx, ending, offered,
                   sent, audited>>

(* The client sends another chunk; the one that overflows is not kept.     *)
ReadChunk(r) ==
    /\ phase[r] = "reading"
    /\ \E n \in ChunkSizes :
          /\ offered' = [offered EXCEPT ![r] = @ + n]
          /\ \/ /\ ~Overflows(body[r], n, MaxBodySize)
                /\ body' = [body EXCEPT ![r] = @ + n]
                /\ UNCHANGED <<phase, ending>>
             \/ /\ Overflows(body[r], n, MaxBodySize)
                /\ Fail(r, "proxy_errors", "BodyTooLarge")
                /\ UNCHANGED body
    /\ UNCHANGED <<server, metrics, input, requestCtx, responseCtx, startedIn, sent,
                   audited>>

(* Every error of the payload stream is reported as BodyTooLarge.          *)
PayloadError(r) ==
    /\ phase[r] = "reading"
    /\ Fail(r, "proxy_errors", "BodyTooLarge")
    /\ UNCHANGED <<server, metrics, reading, requestCtx, responseCtx, sent, audited>>

EndOfBody(r) ==
    /\ phase[r] = "reading"
    /\ Goto(r, "validating")
    /\ UNCHANGED <<server, metrics, reading, requestCtx, responseCtx, ending, sent,
                   audited>>

(***************************************************************************)
(* Validation: the path, then (strict only) the envelope of the two known  *)
(* endpoints, then the JSON text.                                          *)
(***************************************************************************)
IsAllowedPath(r) == AllowedPaths = {} \/ input[r].path \in AllowedPaths

HasEnvelope(r) == Strict /\ input[r].path \in {"/v1/chat/completions", "/v1/responses"}

Checks == <<"PathNotAllowed", "MethodNotAllowed", "MissingBody",
            "UnsupportedContentType", "InvalidJson", "InvalidRequest">>

Violates(r) ==
    [PathNotAllowed         |-> ~IsAllowedPath(r),
     MethodNotAllowed       |-> HasEnvelope(r) /\ input[r].method # "POST",
     MissingBody            |-> HasEnvelope(r) /\ body[r] = 0,
     UnsupportedContentType |-> HasEnvelope(r) /\ input[r].contentType # "json",
     InvalidJson            |-> body[r] > 0 /\ input[r].content = "malformed",
     InvalidRequest         |-> HasEnvelope(r) /\ input[r].content = "misshapen"]

FirstViolation(r, i) ==
    /\ Violates(r)[Checks[i]]
    /\ \A j \in 1..(i - 1) : ~Violates(r)[Checks[j]]

RejectInvalid(r) ==
    /\ phase[r] = "validating"
    /\ \E i \in DOMAIN Checks :
          /\ FirstViolation(r, i)
          /\ Fail(r, "validation_errors", Checks[i])
    /\ UNCHANGED <<server, metrics, reading, requestCtx, responseCtx, sent, audited>>

StartInspection(r) ==
    /\ phase[r] = "validating"
    /\ \A i \in DOMAIN Checks : ~Violates(r)[Checks[i]]
    /\ Goto(r, "inspecting")
    /\ UNCHANGED <<server, metrics, reading, requestCtx, responseCtx, ending, sent,
                   audited>>

-----------------------------------------------------------------------------
(***************************************************************************)
(* The request chain.  A detector records one result; one that rewrites    *)
(* starts from the current body, and a block ends the chain.  Without a    *)
(* body there is no token to count, no prompt, no tool and nowhere to put  *)
(* a system prompt.                                                        *)
(***************************************************************************)
CurrentEdits(r) == IF modifiedBody[r].some THEN modifiedBody[r].edits ELSE {}

NeedsBody == {"token_budget", "prompt_injection", "system_prompt", "tool_call"}

NextDetector(chain, results) == chain[Len(results) + 1]

(* Deviant: one detector too few.                                          *)
ChainAlmostDone(chain, results) == Len(results) + 1 >= Len(chain)

ChainDone(chain, results) == Len(results) = Len(chain)

(* Deviant: rewrites the body as received, not as modified so far.         *)
RewriteOriginal(r, d) ==
    modifiedBody' = [modifiedBody EXCEPT ![r] = [some |-> TRUE, edits |-> {d}]]

RewriteRequest(r, d) ==
    modifiedBody' = [modifiedBody EXCEPT ![r] =
                        [some |-> TRUE, edits |-> CurrentEdits(r) \cup {d}]]

BlockRequest(r, d) == Finish(r, "request_blocks", "blocked_request", BlockStatus(d))

InspectRequest(r) ==
    /\ phase[r] = "inspecting"
    /\ Len(requestResults[r]) < Len(RequestChain)
    /\ LET d == NextDetector(RequestChain, requestResults[r])
       IN  \E finding \in IF body[r] = 0 /\ d \in NeedsBody
                          THEN {"pass"} ELSE Findings[d] :
             /\ requestResults' = [requestResults EXCEPT ![r] = Append(@, finding)]
             /\ IF finding \in Rewriting
                THEN RewriteRequest(r, d)
                ELSE UNCHANGED modifiedBody
             /\ IF finding = "block"
                THEN BlockRequest(r, d)
                ELSE UNCHANGED <<phase, ending>>
    /\ UNCHANGED <<server, metrics, reading, responseCtx, sent, audited>>

RequestCleared(r) ==
    /\ phase[r] = "inspecting"
    /\ ChainDone(RequestChain, requestResults[r])
    /\ Goto(r, "forwarding")
    /\ UNCHANGED <<server, metrics, reading, requestCtx, responseCtx, ending, sent,
                   audited>>

-----------------------------------------------------------------------------
(***************************************************************************)
(* Forwarding: the key is looked up for each request, before anything is   *)
(* sent; the modified body goes out if there is one.                       *)
(***************************************************************************)
OutboundEdits(r) == IF modifiedBody[r].some THEN CurrentEdits(r) ELSE {}

KeyMissing == RequireApiKey /\ ~keySet

MissingKey(r) ==
    /\ phase[r] = "forwarding"
    /\ KeyMissing
    /\ Fail(r, "upstream_errors", "MissingUpstreamApiKey")
    /\ UNCHANGED <<server, metrics, reading, requestCtx, responseCtx, sent, audited>>

Send(r) ==
    /\ phase[r] = "forwarding"
    /\ ~KeyMissing
    /\ sent' = [sent EXCEPT ![r] = [calls |-> @.calls + 1,
                                    edits |-> OutboundEdits(r),
                                    key |-> keySet]]
    /\ Goto(r, "awaiting")
    /\ UNCHANGED <<server, metrics, reading, requestCtx, responseCtx, ending, audited>>

UpstreamAnswers(r) ==
    /\ phase[r] = "awaiting"
    /\ Goto(r, "collecting")
    /\ UNCHANGED <<server, metrics, reading, requestCtx, responseCtx, ending, sent,
                   audited>>

(* The client of the upstream gives up: it cannot connect, the connection  *)
(* breaks, or request_timeout_secs are over, which covers the body too.    *)
SendFails(r) ==
    /\ phase[r] = "awaiting"
    /\ Fail(r, "upstream_errors", "Upstream")
    /\ UNCHANGED <<server, metrics, reading, requestCtx, responseCtx, sent, audited>>

(* Deviant: counted with the calls that failed.                            *)
CollectFailsUpstream(r) ==
    /\ phase[r] = "collecting"
    /\ Fail(r, "upstream_errors", "Upstream")
    /\ UNCHANGED <<server, metrics, reading, requestCtx, responseCtx, sent, audited>>

CollectFails(r) ==
    /\ phase[r] = "collecting"
    /\ Fail(r, "proxy_errors", "Upstream")
    /\ UNCHANGED <<server, metrics, reading, requestCtx, responseCtx, sent, audited>>

CollectChunk(r) ==
    /\ phase[r] = "collecting"
    /\ \E n \in ChunkSizes :
          \/ /\ ~Overflows(response[r], n, MaxResponseBuffer)
             /\ response' = [response EXCEPT ![r] = @ + n]
             /\ UNCHANGED <<phase, ending>>
          \/ /\ Overflows(response[r], n, MaxResponseBuffer)
             /\ Fail(r, "proxy_errors", "ResponseTooLarge")
             /\ UNCHANGED response
    /\ UNCHANGED <<server, metrics, reading, requestCtx, responseResults, bodyText,
                   sent, audited>>

EndOfResponse(r) ==
    /\ phase[r] = "collecting"
    /\ Goto(r, "screening")
    /\ UNCHANGED <<server, metrics, reading, requestCtx, responseCtx, ending, sent,
                   audited>>

-----------------------------------------------------------------------------
(***************************************************************************)
(* The response chain, which rewrites body_text in place.                  *)
(***************************************************************************)
(* Deviant: rewrites the text as collected, not as rewritten so far.       *)
RewriteCollected(r, d) == bodyText' = [bodyText EXCEPT ![r] = {d}]

RewriteResponse(r, d) == bodyText' = [bodyText EXCEPT ![r] = @ \cup {d}]

InspectResponse(r) ==
    /\ phase[r] = "screening"
    /\ Len(responseResults[r]) < Len(ResponseChain)
    /\ LET d == NextDetector(ResponseChain, responseResults[r])
       IN  \E finding \in Findings[d] :
             /\ responseResults' = [responseResults EXCEPT ![r] = Append(@, finding)]
             /\ IF finding \in Rewriting
                THEN RewriteResponse(r, d)
                ELSE UNCHANGED bodyText
             /\ IF finding = "block"
                THEN Finish(r, "response_blocks", "blocked_response", BlockStatus(d))
                ELSE UNCHANGED <<phase, ending>>
    /\ UNCHANGED <<server, metrics, reading, requestCtx, response, sent, audited>>

ResponseCleared(r) ==
    /\ phase[r] = "screening"
    /\ ChainDone(ResponseChain, responseResults[r])
    /\ Finish(r, "requests_allowed", "allowed", Relayed)
    /\ UNCHANGED <<server, metrics, reading, requestCtx, responseCtx, sent, audited>>

-----------------------------------------------------------------------------
(***************************************************************************)
(* Every way out counts first, then audits what a detector decided, then   *)
(* answers.                                                                *)
(***************************************************************************)
(* Deviant: only allowed requests are audited.                             *)
AuditAllowedOnly(r) == ending[r].event = "allowed"

NeedsAudit(r) == ending[r].event # "none"

(* Deviant: a request may be counted again.                                *)
CountAndStay(r) ==
    /\ phase[r] = "counting"
    /\ Increment(ending[r].counter)
    /\ \/ Goto(r, IF NeedsAudit(r) THEN "auditing" ELSE "answering")
       \/ UNCHANGED phase
    /\ UNCHANGED <<server, reading, requestCtx, responseCtx, ending, sent, audited>>

Count(r) ==
    /\ phase[r] = "counting"
    /\ Increment(ending[r].counter)
    /\ Goto(r, IF NeedsAudit(r) THEN "auditing" ELSE "answering")
    /\ UNCHANGED <<server, reading, requestCtx, responseCtx, ending, sent, audited>>

Audit(r) ==
    /\ phase[r] = "auditing"
    /\ audited' = [audited EXCEPT ![r] = Append(@, ending[r].event)]
    /\ Goto(r, "answering")
    /\ UNCHANGED <<server, metrics, reading, requestCtx, responseCtx, ending, sent>>

Answer(r) ==
    /\ phase[r] = "answering"
    /\ Goto(r, "answered")
    /\ UNCHANGED <<server, metrics, reading, requestCtx, responseCtx, ending, sent,
                   audited>>

-----------------------------------------------------------------------------
(***************************************************************************)
(* The environment.  The HTTP server drops the future of a handler whose   *)
(* connection has failed, which can only happen where it waits.  A process *)
(* that died is started again by the service manager, perhaps with another *)
(* environment; its counters and its requests are gone.                    *)
(***************************************************************************)
Waiting == {"reading", "awaiting", "collecting"}
Settled == {"idle", "answered", "dropped"}

Disconnect(r) ==
    /\ phase[r] \in Waiting
    /\ Goto(r, "dropped")
    /\ UNCHANGED <<server, metrics, reading, requestCtx, responseCtx, ending, sent,
                   audited>>

Restart ==
    /\ process < MaxRestarts
    /\ process' = process + 1
    /\ keySet' \in BOOLEAN
    /\ metrics' = [c \in Counters |-> 0]
    /\ phase' = [r \in Requests |->
                    IF phase[r] \in Settled THEN phase[r] ELSE "dropped"]
    /\ UNCHANGED <<reading, requestCtx, responseCtx, ending, sent, audited>>

(* Within the bounds nothing is left to do.                                *)
Rest ==
    /\ process = MaxRestarts
    /\ \A r \in Requests : phase[r] \in {"answered", "dropped"}
    /\ UNCHANGED vars

FromClient(r) ==
    StartRequest(r) \/ ReadChunk(r) \/ PayloadError(r) \/ EndOfBody(r) \/ Disconnect(r)

FromUpstream(r) ==
    UpstreamAnswers(r) \/ SendFails(r) \/ CollectFails(r) \/ CollectChunk(r)
        \/ EndOfResponse(r)

Handle(r) ==
    \/ RejectInvalid(r) \/ StartInspection(r)
    \/ InspectRequest(r) \/ RequestCleared(r)
    \/ MissingKey(r) \/ Send(r)
    \/ InspectResponse(r) \/ ResponseCleared(r)
    \/ Count(r) \/ Audit(r) \/ Answer(r)

Next ==
    \/ \E r \in Requests : FromClient(r) \/ FromUpstream(r) \/ Handle(r)
    \/ Restart
    \/ Rest

(***************************************************************************)
(* Fairness: the runtime runs a handler that does not wait, and the client *)
(* of the upstream ends every exchange, at the latest by its timeout.      *)
(* Nothing is assumed of the clients of the firewall or of the upstream.   *)
(***************************************************************************)
(* Deviant: a timeout for the head of the answer only.                     *)
GiveUpOnHead(r) == SendFails(r)

GiveUp(r) == SendFails(r) \/ CollectFails(r)

Spec ==
    /\ Init
    /\ [][Next]_vars
    /\ \A r \in Requests : WF_vars(Handle(r)) /\ WF_vars(GiveUp(r))

-----------------------------------------------------------------------------
(***************************************************************************)
(* Properties.                                                             *)
(***************************************************************************)
Phases == {"idle", "reading", "validating", "inspecting", "forwarding", "awaiting",
           "collecting", "screening", "counting", "auditing", "answering", "answered",
           "dropped"}
Results == {"pass", "block", "redact", "log_only", "modify"}
EndingType ==
    [counter : Counters \cup {"none"},
     event : {"none", "allowed", "blocked_request", "blocked_response"},
     status : {-1, Relayed, 400, 403, 404, 405, 413, 415, 429, 500, 502}]

(* The variables have the types the code gives them.                       *)
TypeOK ==
    /\ process \in 0..MaxRestarts
    /\ keySet \in BOOLEAN
    /\ metrics \in [Counters -> Nat]
    /\ input \in [Requests -> Inputs]
    /\ phase \in [Requests -> Phases]
    /\ body \in [Requests -> 0..MaxBodySize]
    /\ requestResults \in [Requests -> Seq(Results)]
    /\ modifiedBody \in [Requests -> [some : BOOLEAN, edits : SUBSET Detectors]]
    /\ response \in [Requests -> 0..MaxResponseBuffer]
    /\ responseResults \in [Requests -> Seq(Results)]
    /\ bodyText \in [Requests -> SUBSET Detectors]
    /\ ending \in [Requests -> EndingType]
    /\ startedIn \in [Requests -> 0..MaxRestarts]
    /\ offered \in [Requests -> Nat]
    /\ sent \in [Requests -> [calls : Nat, edits : SUBSET Detectors, key : BOOLEAN]]
    /\ audited \in [Requests -> Seq({"allowed", "blocked_request", "blocked_response"})]

(* What the results of a chain say of the body it was run on.              *)
Blocked(results) == \E i \in DOMAIN results : results[i] = "block"
Cleared(chain, results) == Len(results) = Len(chain) /\ ~Blocked(results)
EditsMade(chain, results) == {chain[i] : i \in {j \in DOMAIN results : results[j] \in Rewriting}}

InspectedRequest(r) ==
    /\ Cleared(RequestChain, requestResults[r])
    /\ sent[r].edits = EditsMade(RequestChain, requestResults[r])

InspectedResponse(r) ==
    /\ Cleared(ResponseChain, responseResults[r])
    /\ bodyText[r] = EditsMade(ResponseChain, responseResults[r])

(* Sent once, as inspected, and with a key where one is required, also     *)
(* when the process was restarted under an environment without.            *)
MayPassOn(r) ==
    /\ sent[r].calls = 1
    /\ InspectedRequest(r)
    /\ RequireApiKey => sent[r].key

(* What reaches the upstream went through every enabled request detector   *)
(* without a block and carries each of their rewritings: none starts from  *)
(* an older body and undoes an earlier one (handler.rs:91-95, context.rs). *)
ForwardedAsInspected ==
    \A r \in Requests : sent[r].calls > 0 => InspectedRequest(r)

(* What the client gets of an upstream response went through every enabled *)
(* response detector and carries each of their rewritings.                 *)
DeliveredAsInspected ==
    \A r \in Requests :
        (phase[r] = "answered" /\ ending[r].status = Relayed)
            => sent[r].calls = 1 /\ InspectedResponse(r)

(* A body that goes on to validation is the whole body the client sent,    *)
(* and neither buffer ever holds more than its limit.                      *)
BodiesWholeOrRefused ==
    \A r \in Requests :
        /\ body[r] <= MaxBodySize
        /\ response[r] <= MaxResponseBuffer
        /\ phase[r] \in {"validating", "inspecting", "forwarding", "awaiting",
                         "collecting", "screening"} => body[r] = offered[r]

(***************************************************************************)
(* The inductive invariant behind these three: what each phase may rely on *)
(* about the results recorded, the bodies and the ending of its request.   *)
(***************************************************************************)
Entering == {"idle", "reading", "validating"}
BeforeSending == Entering \cup {"inspecting", "forwarding"}
BeforeScreening == BeforeSending \cup {"awaiting", "collecting"}
Leaving == {"counting", "auditing", "answering", "answered", "dropped"}

RequestTrail(r) ==
    /\ Len(requestResults[r]) <= Len(RequestChain)
    /\ CurrentEdits(r) = EditsMade(RequestChain, requestResults[r])
    /\ phase[r] \in Entering => requestResults[r] = <<>>
    /\ phase[r] = "inspecting" => ~Blocked(requestResults[r])
    /\ phase[r] = "forwarding" => Cleared(RequestChain, requestResults[r])

SendingTrail(r) ==
    /\ phase[r] \in BeforeSending => sent[r].calls = 0
    /\ phase[r] \in {"awaiting", "collecting", "screening"} => sent[r].calls = 1
    /\ sent[r].calls > 0 => MayPassOn(r)

ResponseTrail(r) ==
    /\ Len(responseResults[r]) <= Len(ResponseChain)
    /\ bodyText[r] = EditsMade(ResponseChain, responseResults[r])
    /\ phase[r] \in BeforeScreening => responseResults[r] = <<>>
    /\ phase[r] = "screening" => ~Blocked(responseResults[r])

EndingTrail(r) ==
    /\ phase[r] = "auditing" => NeedsAudit(r)
    /\ ending[r].status = Relayed =>
          /\ phase[r] \in Leaving
          /\ sent[r].calls = 1
          /\ Cleared(ResponseChain, responseResults[r])

BodyTrail(r) == phase[r] \notin Leaving => body[r] = offered[r]

(* What a phase relies on is so whenever a request is in it: every early   *)
(* return leaves the trail its counter, audit record and answer stand for. *)
HandlerInv ==
    \A r \in Requests :
        /\ RequestTrail(r)
        /\ SendingTrail(r)
        /\ ResponseTrail(r)
        /\ EndingTrail(r)
        /\ BodyTrail(r)

(***************************************************************************)
(* Counters and audit records.                                             *)
(***************************************************************************)
OfThisProcess(r) == phase[r] # "idle" /\ startedIn[r] = process
Counted(r) == OfThisProcess(r) /\ phase[r] \in {"auditing", "answering", "answered"}

EndedTotal ==
    metrics["requests_allowed"] + metrics["request_blocks"] + metrics["response_blocks"]
        + metrics["validation_errors"] + metrics["upstream_errors"]
        + metrics["proxy_errors"]

(* Every request a process started is counted in exactly one of the other  *)
(* counters, except those still being handled and those dropped with their *)
(* connection, which no counter shows.                                     *)
MetricsBalance ==
    metrics["requests_started"] =
        EndedTotal + Cardinality({r \in Requests : OfThisProcess(r) /\ ~Counted(r)})

(* The counters count what their HELP texts say (metrics.rs:53-71).  The   *)
(* last two share the failures: a missing key is one of preparing the      *)
(* upstream's call, a body too large one of the proxy's own, and so is a   *)
(* 502 once some of the response has come.  A 502 before that is either's, *)
(* as the call failed or the response did.                                 *)
CountersAgreeWithHelp ==
    LET Number(P(_)) == Cardinality({r \in Requests : Counted(r) /\ P(r)})
        Statuses(S) == Number(LAMBDA r : ending[r].status \in S)
    IN  /\ metrics["requests_allowed"] =
               Number(LAMBDA r : sent[r].calls > 0 /\ InspectedResponse(r)
                                   /\ ending[r].status = Relayed)
        /\ metrics["request_blocks"] =
               Number(LAMBDA r : sent[r].calls = 0 /\ Blocked(requestResults[r]))
        /\ metrics["response_blocks"] =
               Number(LAMBDA r : sent[r].calls > 0 /\ Blocked(responseResults[r]))
        /\ metrics["validation_errors"] =
               Number(LAMBDA r : \E i \in DOMAIN Checks :
                          /\ ending[r].status # 413
                          /\ Violates(r)[Checks[i]])
        /\ metrics["upstream_errors"] + metrics["proxy_errors"] = Statuses({413, 500, 502})
        /\ metrics["upstream_errors"] >= Statuses({500})
        /\ metrics["proxy_errors"] >=
               Number(LAMBDA r : \/ ending[r].status = 413
                                 \/ ending[r].status = 502 /\ response[r] > 0)

(* A client is answered about a detector's decision only after exactly one *)
(* audit record of that decision; nothing else leaves an audit record.     *)
AuditMatchesAnswer ==
    \A r \in Requests :
        /\ Len(audited[r]) <= 1
        /\ phase[r] = "answered" =>
              audited[r] =
                  IF Blocked(requestResults[r]) THEN <<"blocked_request">>
                  ELSE IF Blocked(responseResults[r]) THEN <<"blocked_response">>
                  ELSE IF ending[r].status = Relayed THEN <<"allowed">>
                  ELSE <<>>

(***************************************************************************)
(* The inductive invariant behind these three.  A request that ended did   *)
(* so in one of five ways, which its counter, event, status and results    *)
(* tell in agreement; until then it passed validation as far as it got,    *)
(* and is handled by the process that started it.  Each counter is the     *)
(* number of requests of this process that ended its way.                  *)
(***************************************************************************)
Ended == {"counting", "auditing", "answering", "answered"}

Misfit(r) == \E i \in DOMAIN Checks : Violates(r)[Checks[i]]

Accepted(r) ==
    /\ ending[r].counter = "requests_allowed"
    /\ ending[r].event = "allowed" /\ ending[r].status = Relayed
    /\ sent[r].calls = 1 /\ ~Misfit(r)
    /\ ~Blocked(requestResults[r]) /\ ~Blocked(responseResults[r])

RequestBlocked(r) ==
    /\ ending[r].counter = "request_blocks"
    /\ ending[r].event = "blocked_request" /\ ending[r].status \in {403, 429}
    /\ sent[r].calls = 0 /\ ~Misfit(r)
    /\ Blocked(requestResults[r]) /\ ~Blocked(responseResults[r])

ResponseBlocked(r) ==
    /\ ending[r].counter = "response_blocks"
    /\ ending[r].event = "blocked_response" /\ ending[r].status \in {403, 429}
    /\ sent[r].calls = 1 /\ ~Misfit(r)
    /\ ~Blocked(requestResults[r]) /\ Blocked(responseResults[r])

Invalid(r) ==
    /\ ending[r].counter = "validation_errors"
    /\ ending[r].event = "none" /\ ending[r].status \in {400, 404, 405, 415}
    /\ sent[r].calls = 0 /\ Misfit(r)
    /\ ~Blocked(requestResults[r]) /\ ~Blocked(responseResults[r])

Failed(r) ==
    /\ \/ /\ ending[r].counter = "upstream_errors" /\ ending[r].status \in {500, 502}
          /\ response[r] = 0
       \/ ending[r].counter = "proxy_errors" /\ ending[r].status \in {413, 502}
    /\ ending[r].event = "none"
    /\ Misfit(r) => ending[r].status = 413
    /\ ~Blocked(requestResults[r]) /\ ~Blocked(responseResults[r])

EndedOneWay(r) ==
    Accepted(r) \/ RequestBlocked(r) \/ ResponseBlocked(r) \/ Invalid(r) \/ Failed(r)

AccountTrail(r) ==
    /\ phase[r] \in Ended => EndedOneWay(r)
    /\ phase[r] \in BeforeSending \cup {"awaiting"} => response[r] = 0
    /\ phase[r] \notin Entering \cup Leaving => ~Misfit(r)
    /\ phase[r] \notin Settled => startedIn[r] = process
    /\ startedIn[r] <= process

AuditTrail(r) ==
    /\ Len(audited[r]) <= 1
    /\ phase[r] \in {"answering", "answered"} =>
          audited[r] = IF NeedsAudit(r) THEN <<ending[r].event>> ELSE <<>>
    /\ phase[r] \notin {"answering", "answered", "dropped"} => audited[r] = <<>>

EndedWith(c) == {r \in Requests : Counted(r) /\ ending[r].counter = c}

Tally ==
    /\ metrics["requests_started"] = Cardinality({r \in Requests : OfThisProcess(r)})
    /\ \A c \in Counters \ {"requests_started"} : metrics[c] = Cardinality(EndedWith(c))

AccountInv ==
    /\ \A r \in Requests : AccountTrail(r) /\ AuditTrail(r)
    /\ Tally

(***************************************************************************)
(* The firewall's contract, and that requests are settled.                 *)
(***************************************************************************)
(* The state of the contract a request is in.                              *)
Stage(r) ==
    IF phase[r] = "idle" THEN "new"
    ELSE IF phase[r] \in {"answered", "dropped"} THEN "closed"
    ELSE IF sent[r].calls > 0 THEN "sent" ELSE "open"

Seen(r) ==
    IF sent[r].calls = 0 THEN "nothing"
    ELSE IF MayPassOn(r) THEN "inspected request" ELSE "unchecked request"

Got(r) ==
    IF phase[r] # "answered" THEN "nothing"
    ELSE IF ending[r].status # Relayed THEN "refusal"
    ELSE IF InspectedResponse(r) THEN "inspected response" ELSE "unchecked response"

Contract == INSTANCE FirewallContract WITH
    stage <- [r \in Requests |-> Stage(r)],
    seen  <- [r \in Requests |-> Seen(r)],
    got   <- [r \in Requests |-> Got(r)]

(* The handler implements the contract of the firewall.                    *)
ImplementsContract == Contract!ContractSpec

(* Once its body is read a request is settled: no detector, upstream or    *)
(* limit can hold it for ever (a client that stalls its body can).         *)
ReadRequestsSettle ==
    \A r \in Requests :
        phase[r] = "validating" ~> phase[r] \in {"answered", "dropped"}
====
