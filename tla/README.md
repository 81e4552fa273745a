# A TLA+ model of llm-firewall

llm-firewall is a reverse proxy between clients of a language model and the model's
HTTP API. It inspects each request with a chain of detectors, forwards it, inspects
the response with a second chain, and answers. This directory models the service in
TLA+, checks the models with TLC, and proves theorems about them with TLAPS. Paths
below are relative to the repository; `handler.rs:25` is `src/src/proxy/handler.rs`,
line 25, and so on.

## Contents

| module | what it is |
| --- | --- |
| `TokenBudget` | `token_budget.rs`: the per-principal token budget under parallel requests, stale clock readings and restarts |
| `WindowQuota` | what the token budget promises, as an atomic quota; `TokenBudget` implements it |
| `TokenBudgetProofs` | TLAPS proofs about `TokenBudget`, the refinement included |
| `MCTokenBudget` | instances of `TokenBudget` for TLC (`MCTokenBudget.cfg`, `MCTokenBudgetBurst.cfg`) |
| `ProxyHandler` | `proxy_handler` and everything it calls: body, validation, both chains, upstream, counters, audit |
| `FirewallContract` | what the firewall promises between client and upstream; `ProxyHandler` implements it |
| `ProxyHandlerProofs` | TLAPS proofs about `ProxyHandler`, the safety part of the contract included |
| `ProxyAccountProofs` | TLAPS proofs about its counters and audit records |
| `MCProxyHandler` | instances of `ProxyHandler` for TLC (`MCProxyHandlerPaths.cfg`, `MCProxyHandlerShared.cfg`) |
| `JsonValue` | texts, patterns and JSON values as the other modules of this group use them |
| `RequestShape` | what strict validation asks of the JSON of the two endpoints (`handler.rs:323-547`) |
| `PromptText` | the strings that count as prompt, the token estimate, the injection redaction and the mandatory prompt |
| `JsonText` | JSON as text: how `serde_json` writes a value and reads one, and the values in a response |
| `ContentRules` | DLP rules, tool names, response rewriting and audit previews |
| `JsonProofs` | TLAPS proofs about the operators of `JsonValue`, `JsonText`, `PromptText` and `ContentRules`: what the walks keep, insert and redact |
| `Exchange` | one request with its data: `ProxyHandler` joined with the five modules above, headers and the audit record |
| `MCExchange` | bodies, settings and answers for TLC (`MCExchangeBodies.cfg` and, for the violations, `Stream`, `Delta`, `Escape` and `Wrap`) |
| `ExchangeProofs` | TLAPS proofs about `Exchange`, and that it refines `ProxyHandler` |
| `FirewallService` | `ProxyHandler`, `TokenBudget` and the rate limiter composed: the state detectors keep between requests |
| `FirewallServiceProofs` | TLAPS proofs about `FirewallService`, and that it refines `TokenBudget` |
| `MCFirewallService` | an instance of it |
| `MetricsScrape` | the metrics endpoint rendering a page while the handlers count |
| `MetricsScrapeProofs` | TLAPS proofs about `MetricsScrape` |
| `MCMetricsScrape` | an instance of it |
| `ServiceStart` | `main.rs` and `config.rs`: arguments, defaults, overrides, validation, the check of a configuration, binding, routes |
| `ServiceStartProofs` | TLAPS proofs about `ServiceStart` |
| `MCServiceStart` | an instance of it |

Who uses whom: `Exchange` EXTENDS `ProxyHandler`, `RequestShape`, `PromptText` and
`ContentRules` (the last three EXTEND `JsonValue`, `ContentRules` by way of `JsonText`); `FirewallService` EXTENDS `ProxyHandler`
and takes `TokenBudget` as it is by INSTANCE; `MetricsScrape` EXTENDS `ProxyHandler`;
`ServiceStart` stands alone, before any request.

`PROJECT.json` lists the components, the runs, the mapping from definitions to source
lines, the hazards with the properties that watch them, the mutants and the theorems.

Run `tlc -config MCTokenBudget.cfg MCTokenBudget` (or any other pair of the table
below) and `tlapm M.tla` for `M` any of `TokenBudgetProofs`, `ProxyHandlerProofs`,
`ProxyAccountProofs`, `JsonProofs`, `ExchangeProofs`, `FirewallServiceProofs`,
`MetricsScrapeProofs` and `ServiceStartProofs`.

## Inventory of the system

| component | state | operations | what makes it correct |
| --- | --- | --- | --- |
| proxy handler (`proxy/handler.rs`) | per request: body, contexts, response buffer | read body, validate, inspect, forward, collect, inspect, answer | what is forwarded and delivered was inspected; each request is counted and audited once; bodies are whole or refused |
| upstream client (`proxy/upstream.rs`) | HTTP client, name of the key variable | `forward` | nothing is sent without a required key; every exchange ends |
| pipeline (`pipeline/engine.rs`, `context.rs`) | two lists of detectors; per request `modified_body`, `detector_results` | `run_request`, `run_response` | order; a block stops the chain; rewritings add up |
| token budget (`detectors/token_budget.rs`) | concurrent map principal -> (window start, tokens) | check and charge | no window above its limit whatever the interleaving |
| rate limiter (`detectors/rate_limiter.rs`) | keyed limiter (external library) | `check_key` | at most a burst plus the refill, per client; no refusal without own use |
| prompt injection (`detectors/injection.rs`, `mod.rs`) | patterns, action | inspect, redact | what is looked at is what is rewritten; what is rewritten is still a valid request |
| DLP (`detectors/dlp.rs`) | rules | inspect and redact JSON and text | no match of an acting rule is left in a string of a request or in the text of a response |
| system prompt (`detectors/system_prompt.rs`) | prompt, mode | look for it, insert it | it is there in what is sent, and nothing of the client's is lost |
| tool call (`detectors/tool_call.rs`) | allow-list | collect names, refuse | a call that is relayed is on the list |
| output sanitizer (`detectors/output_sanitizer.rs`) | patterns, action | inspect, redact text | as DLP |
| token counter (`utils/token_counter.rs`) | none | estimate | the estimate bounds the request |
| metrics (`utils/metrics.rs`) | seven atomic counters of the process | increment, render | counters add up and mean what their HELP texts say; a page skews by no more than what overlaps it |
| audit log (`utils/audit.rs`) | none (writes to the log) | one record per decision | one record for each decision of a detector; it samples what was passed on, sanitized before it is cut |
| errors (`errors.rs`) | none | status and message | the status names the cause |
| configuration (`config.rs`) | read once | defaults, overrides, validation | what is served under is usable |
| start (`main.rs`) | arguments; the state all workers share | parse, check or serve, route | a configuration reported OK starts; the probe is answered |

How they interact: the HTTP server runs one `proxy_handler` future per request, on
several workers in parallel. All share one `AppState` (`main.rs:49-55`): the pipeline
with the detectors' maps, the upstream client, the counters. There is no other shared
state, no queue and no persistence; a restart begins with empty maps and zero counters.

What is hard: parallel requests of one principal meeting in the map; a clock that is
read before the lock is taken; window boundaries; ten early returns that each have to
count; futures dropped at an await when a connection fails; a timeout that can end
either of two awaits; several detectors rewriting one body in turn, after its shape was
validated; detection and redaction that walk a body by different functions; answers in
another format than was asked for; sums that wrap; a metrics page put together while
workers count; restarts under another environment; a configuration checked by one process
and read by another.

## How the modules correspond to the code

### TokenBudget

`usage` is the map, its domain the principals that have an entry (entries are never
removed). `phase`, `reading`, `tokens` and `principal` are the local variables of a call
to `inspect_request`. A call has two steps: `RejectOversize` or `ReadClock` (lines
51-65), and `Charge` or `RejectExhausted` (lines 66-88), which is one step because the
entry is held locked from `entry()` to the end of the function. Between the two any
number of other calls, ticks of the clock and a restart may come. `Elapsed` is
`Instant::duration_since`, which yields zero for an earlier instant. `charge` is a
history variable: the process, the window and the real time in which a request was
admitted. The token estimate is an input.

`Tick` is the monotonic clock and `Restart` the service manager; neither is code of
the repository, so both are marked external in the mapping (packaged units restart the
service always).

### WindowQuota

Each request receives its verdict in one step against a balance of its principal,
which may be emptied first. It has no clock, entry or lock. `TokenBudget` refines it with
`spent[p]` the tokens of p's entry and `verdict[r]` the outcome of r.

### ProxyHandler

`phase[r]` is where request r is in `proxy_handler`:

| phase | code | actions that leave it |
| --- | --- | --- |
| idle | 18-23 | `StartRequest` |
| reading | 25, 151-161 | `ReadChunk`, `PayloadError`, `EndOfBody` |
| validating | 40-70 | `RejectInvalid`, `StartInspection` |
| inspecting | 85, `run_request` | `InspectRequest` (one detector), `RequestCleared` |
| forwarding | 91-95, `forward` | `MissingKey`, `Send` |
| awaiting | 99 | `UpstreamAnswers`, `SendFails` |
| collecting | 117-126, 163-179 | `CollectChunk`, `CollectFails`, `EndOfResponse` |
| screening | 138, `run_response` | `InspectResponse` (one detector), `ResponseCleared` |
| counting, auditing, answering | each return | `Count`, `Audit`, `Answer` |

Every return of the handler sets the counter it adds to, the audit event it records
and the status it answers with (`ending[r]`), and then takes `Count`, `Audit` and
`Answer` as steps of their own: another worker or the end of the process can come
between them. `Disconnect` is the server dropping the future of a connection that failed;
that can only happen at an await, and the awaits at which the handler really waits are
the phases in `Waiting` (the detectors' `inspect_*` functions are async but never wait).

A body is abstracted to its length in units, to what kind of text it is (`malformed`
JSON, JSON of the wrong shape, a well-formed request) and to the set of detectors whose
rewriting it carries. A detector may return any verdict its code can return under some
configuration (`Findings`): what each looks for is not part of this module. Without a
body (`Value::Null`) the detectors that look at fields of the body can only pass.

### FirewallContract

A request is new, open, sent or closed. What the upstream sees of it is an inspected
request, at most once and with a key where one is required; what the client gets is an inspected
response or a refusal; a request that was passed on is eventually closed. "Once" is one call of
the HTTP client: reqwest follows redirects by itself, which may send a body again to where the
upstream says. `ProxyHandler` refines it: `seen` says
"inspected" only if every enabled detector recorded a result, none a block, and the body
sent carries exactly the rewritings recorded.

### JsonValue, JsonText, RequestShape, PromptText, ContentRules

Operators without state, one per function of the code. A text is a sequence of marks; a
mark stands for a stretch of characters the detectors tell apart (a word, half of a secret,
white space, a brace, an escape). A pattern is a set of forms, each a sequence of marks with
the neighbours it may not have on either side, the edge of the text included: that is what
`\b`, `^` and `$` ask of a match. `MCExchange` gives its rules `\b` on both sides, as most of
the default rules have (`config.rs:364-387`); phrases of the injection detector are literal.
So a secret can be split across two strings, be completed by the deletion of what stands
between its halves, begin or stop to match because of what is written beside it, or be cut by a limit,
without any character being modelled. `Redacted` is leftmost, non-overlapping replacement, as
both matchers of the code do it. Values are tagged records for `serde_json::Value`; the fields
of an object are a function on `Keys`, `Absent` where there is none, and are walked in the order
of sorted keys.

`JsonText` is JSON as text. `Spelled` is `Value::to_string`, with keys, numbers, brackets and
escapes: what an audit record previews of a request. `ReadJson` is `serde_json::from_str`, and
`ValuesOf` cuts a response into the values the tool detector looks at. A response is a text,
and the DLP rules and the sanitizer search and rewrite that text, not the values in it: a
string that is escaped is searched as it is written, and a replacement may leave what is no
longer JSON. Requests are rewritten string by string; their keys and numbers are never
looked at, neither in the code nor here.

`Value` is every JSON value over `Marks` and `Keys` that nests at most `MaxNesting` deep
(`Json[n]`, level by level); `serde_json` refuses a text that nests deeper than 128. The walks
of the code (`prompt_strings`, `collect_strings`, `redact_value`, the tool names) are recursive
functions on `Value`, so that theorems about them can be proved.

`PromptStrings` is `prompt_strings`; `RedactPromptFields` is a separate walk, as in the
code, and the two are compared by a property, never defined by one another. `TokenSum` is
the sum `estimate_prompt_tokens` would be without a width, `EstimatePromptTokens` the one it
is. `TextToolNames` reads the text of a response as `is_stream` says.

### Exchange

One request (`Cardinality(Requests) = 1`). Each action is the action of `ProxyHandler`
with what the code does to the data in the same step; the verdict of a detector, free in
`ProxyHandler`, is here the one its data calls for. If the code could return a verdict
that `Findings` of `ProxyHandler` does not admit, `Exchange` would deadlock; TLC finds no
deadlock, so `Findings` is checked against the detectors as well.

| variable | code |
| --- | --- |
| `exchange` | the request (path, JSON, headers), the detectors' settings, the upstream's answer |
| `rewritten` | `modified_body` |
| `promptTokens` | `prompt_tokens` |
| `outbound` | what `UpstreamClient::forward` sends |
| `text` | `body_text` |
| `relayed` | what `build_response` makes |
| `record` | the `AuditRecord` |

`ExchangeTypes` says what an exchange is made of: a body that is a `Value` or does not parse,
rules with an action each, an answer that is a text. `InjectionApart`, `RulesApart`,
`SanitizerApart` and `KeyUnknown` are what some theorems ask of a configuration (see What is proved); the
exchanges of run `exchange` meet them (`MCExchangeApart`), and `MCExchangeEdges` evaluates what
the code does to texts where rules do not.

The parsed value stands for the body that is sent. A body no detector rewrote is sent as the
bytes that came (`handler.rs:91-95`), which differ from the value where a key stands twice:
the detectors then saw only the last of them.

The rate limiter keeps any verdict here, and the token budget may refuse for its window at
any time: their state is `FirewallService`'s.

### FirewallService

`CheckRate` is the handler's step that runs the rate limiter with the limiter's own;
`ReadBudgetClock` and `CheckBudget` are the two steps of `TokenBudget`, the second one with
the handler's step. All other steps of the handler leave both alone (`HandleRest`,
`KeepUsage`): there is no line that gives tokens or cells back. `RestartService` loses the
handler's requests, the usage map and the limiter's keys at once. Properties tell clients by `Client`, which
says what is meant by it: the bearer token where there is one.

The limiter is that of the governor crate, which is not in the repository: per key the
theoretical arrival time `tat` of the next cell, compared and moved in one atomic step, with
a burst of `requests_per_minute` (at least 1, `rate_limiter.rs:19`) cells and one cell per
`Interval`. The crate reads its clock just before it compares; `CheckRate` takes both as one
step, so that the limiter's time is that of its compare-and-swap. The two copies of `principal`
(`token_budget.rs:36`, `rate_limiter.rs:30`) are the same text, and `PrincipalOf` stands for both:
copies that differ could not be told here. A request without a body has the estimate zero, as `Value::Null` has.

### MetricsScrape

`BeginPage`, one `LoadCounter` for each counter and `EndPage` are `render_prometheus`; between any
two of them the handlers go on. The loads are `Relaxed` and of different atomics, so they may
take effect in any order. `Shown` puts the seven values into the seven places of
the format string by position. A restart loses the page with the process.

### ServiceStart

A process has a stage: `arguments` (`ParseArgument`, one turn of the loop of `Args::parse`),
`load` (`Load`: `Config::load` and `init_tracing`), `pipeline` (`BuildPipeline`, and the end
of a process that was only to check), `client` (`BuildClient`), `bind` (`Bind`), `serving`,
`ended`, with `result` saying how. Its environment and arguments are fixed when it is
launched; the file is read at `Load`, and `EditFile` may come before, between or after. A
document is a function from the sections and fields it mentions, which `FieldDefaults` and
`SectionDefaults` complete as serde does: a section that is absent is not the same as
one that is empty (`output_sanitizer.action` is `redact` for the first, `block` for the second).
`AnsweredBy` is actix's routing: `App::route` makes the method part of the route, so that only a
GET goes to the probe or the metrics page, to the first that covers its path, and any other
request to the default service, which is the proxy handler; a metrics path may be a pattern
and cover other paths (`Covers`). Whether an address is free, and whether the HTTP client can be built, is up to the machine.

## What the runs check

| run | instance | what it shows |
| --- | --- | --- |
| `token_budget` | 3 requests, 2 principals, estimates 1-3, limits 2 and 3, readings up to 1 tick old, 5 instants, 1 restart | `WindowWithinLimit`, `BalanceIsWindowSum`, `WindowsApart`, the inductive invariant `BudgetInv`, `RefusedForRecentUse`, `ImplementsQuota` |
| `token_budget_burst` | 4 requests, 1 principal, readings up to 2 ticks old, 6 instants | `ThroughputBound`: at most `WindowsInSight` windows admit within `window_secs` of real time |
| `handler_paths` | 1 request of any kind, all 7 detectors, 1 restart | `ForwardedAsInspected`, `DeliveredAsInspected`, `BodiesWholeOrRefused`, `AuditMatchesAnswer`, the inductive invariant `HandlerInv` |
| `handler_shared` | 2 requests at once, 2 detectors, 1 restart | `MetricsBalance`, `CountersAgreeWithHelp`, `ImplementsContract`, `ReadRequestsSettle` |
| `exchange` | 1 request; 1,614 initial states: bodies of both endpoints and of a third path, 3 settings, headers, plain and streamed answers, with and without a key | `InjectionRedacted`, `DlpLeavesNothing`, `RewritingKeepsShape`, `PromptPresent`, `PromptsKept`, `RelayedCallsAllowed`, `RecordsOnlyPassedOn`, `PreviewsSanitized`, `ClientCredentialsStay`, `ResponseHeadersOwn` |
| `service` | 2 requests, callers that share a key, an address or nothing, estimates 1 and 2, limits of 1, one request a minute of 2 ticks, 3 instants, 1 restart | `ForwardedWithinBudget`, `RateRefusalsAreFree`, `FailuresStayCharged`, `RateBound`, `RateRefusedForUse`, `BudgetKept` (the composed service refines `TokenBudget`) |
| `scrape` | 2 requests, 2 pages, 1 restart | `ShownWhileRendered`, `PagesGrow`, `SkewBounded` |
| `start` | 2 processes, 2 files, 8 documents, 3 environments, 8 argument lists, 1 edit | `ServedConfigUsable`, `CheckedConfigStarts`, `ProbesAnswered` |
| `tool_stream` | 1 request that asks for a stream | a violation, see Findings |
| `token_wrap` | 1 request, 100 values of usize | a violation, see Findings |
| `exchange_delta` | 1 request, answered with a chat stream | a violation, see Findings |
| `dlp_escaped` | 1 request, answers with escapes in a string | a violation, see Findings |

Why the bounds are enough:

- Three requests are the least with which two can share a window while the third opens
  the next; two principals make a charge to the wrong entry visible. Estimates below, at and
  above the request limit, two of which exceed the window, reach both refusals and both
  boundaries. Five instants are two windows and their boundary. The theorems cover all
  other values.
- For `ThroughputBound` a reading that is two ticks old lets three windows meet within
  one `window_secs`; the instance is the smallest in which that happens, and there the
  bound is reached (with a bound smaller by one window TLC finds a counterexample).
- The limits on bodies are 2 units with chunks of 1 and 2: below, at and above the limit, by
  one or by several chunks. Offered chunks end with the first that overflows, as in the code.
- One request passes every detector in `handler_paths`, since what a detector does to a
  request does not depend on other requests (the two that keep shared state return any
  verdict here). Two requests are enough in `handler_shared` for what they share: the
  counters, the process and its environment. It keeps one request and one response detector,
  since the order within a chain is the question of `handler_paths`.
- One restart: a second finds the same situation as the first, with an empty state.
- In `exchange` the data decides, not the number of steps: each detector's verdict is a
  function of the exchange. Texts hold what a rule matches, one half of it, two halves in
  neighbouring strings, halves with another rule's match between them, matches with and
  without white space between them and their neighbours, a phrase that overlaps itself, the
  prompt, nothing and white space; they stand in each place of a body that a walk visits or
  skips, and in answers also as numbers, behind escapes and in texts that are no JSON. The settings act by rewriting, by blocking and by logging. The
  deepest of the bodies nests within `MaxNesting` = 7. The theorems cover all other values.
- In `service` one caller pair shares a key behind two addresses and another shares an
  address; two requests are enough to collide in a window and in the limiter, and three
  instants hold two windows and a whole minute. The burst is one cell; a larger burst needs as
  many more requests.
- In `scrape` two requests end in different counters, and two pages are the least that can be
  compared. One input is used: which counter a request ends in does not matter to a load.
- In `start` a check and a start are the two processes; one edit can fall before, between
  or after their reads. Each document is wrong or unusual in its own way; one is valid only
  under an environment, one only without it.

Deadlock is checked in every run. `Rest` and its likes are the stutter of an instance that
has used up its bounds. Requests and processes are symmetric in `service`, `scrape` and
`start`, which check no liveness.

Several properties are meant narrowly.

- `DlpLeavesNothing` speaks of matches within a string of a request and of the raw text of a
  response, and of rules that are `RulesApart` and `SanitizerApart`. `MCExchangeEdges` and `dlp_escaped`
  show what it leaves out, and see Findings.
- `RelayedCallsAllowed` speaks of calls at the places of the two formats it names (`CallsOf`,
  `ItemCalls`), of answers with the format `is_stream` says. The places are stated by themselves,
  not by the walk the code does, and run `exchange` has a call in each. For the rest see
  `tool_stream` and `exchange_delta`.
- The sanitizer runs behind the tool detector, so that what the latter parsed is not always
  what is relayed; the property reads what is relayed.
- `RecordsOnlyPassedOn` says a preview is of what was passed on, not that it holds no match:
  keys and numbers stand in it, and no rule looks at those of a request. `PreviewsSanitized` is
  what the audit redactors do about it.
- `CountersAgreeWithHelp` fixes four counters exactly. A 502 before any of the response came
  is counted by `upstream_errors` or by `proxy_errors`, as the call or the collecting failed, and
  nothing outside the handler tells which: so of these two the property states the sum and a
  least value each.
- `CheckedConfigStarts` speaks of the same contents in the same environment: `install.sh:109`
  runs the check without the service's `EnvironmentFile`, so its result may not carry over, and a
  bind address is not tried by a check.

### Fairness

Only `ProxyHandler` states fairness; the other modules check safety. `ProxyHandler` assumes, for each request,

- `WF(Handle(r))`: the runtime polls a handler that is ready, and the steps of the handler
  between two awaits are plain code that ends;
- `WF(GiveUp(r))`: the exchange with the upstream ends at the latest after
  `request_timeout_secs`; the timeout is that of the HTTP client (`upstream.rs:20`) and
  covers the whole exchange, the body included.

Nothing is assumed of the clients: a client that stalls its body holds its request in
`reading` for as long as the server's own limits allow (`ReadRequestsSettle` begins after
the body). Nothing is assumed of the upstream, and restarts may always happen.

### Deviants

Operators marked "Deviant" are not used by any action. Each is a plausible bug in the definition it stands in front of: a reset that is
forgotten, an off-by-one, a counter that is not incremented. Put in the place of that
definition, each makes TLC report the property named for it in `PROJECT.json`, which
shows that the property can fail and that its run reaches the case.

## Findings

- `tool_stream`: `docs/behavior.md:52` says of "Upstream returns a `function_call`, hosted
  tool call, or custom tool call outside the allow-list": "HTTP 403". `is_stream` is true when
  the request says `"stream": true`, whatever the answer is (`handler.rs:110-115`), and names are
  then collected from `data:` lines only (`tool_call.rs:102-131`): a plain JSON answer is
  relayed with its calls, and labelled `text/event-stream`. Where the formats agree,
  `RelayedCallsAllowed` holds.
- `token_wrap`: `docs/live-readiness.md:20` says "token limits ... short-circuit before
  upstream". The declared `max_tokens` and `max_output_tokens` are added with `+=`
  (`token_counter.rs:17-22`), which wraps in a release build: one declared maximum near the
  largest `usize` wraps together with the tokens of the prompt, and the estimate is small.
- `exchange_delta`: `README.md:18` says "Restrict tool/function calls to an allow-list." Of a
  chat choice only `message.tool_calls` is read (`tool_call.rs:151-171`); a chat stream has its
  calls in `delta.tool_calls`, and they are relayed whatever they call.
- `dlp_escaped`: `README.md:16` says "Redact or block DLP matches in prompts and responses." What is searched is the raw text
  (`dlp.rs:142`), in which a line end within a string is the two characters `\n`: behind it a
  word is not at its beginning for `\b`, the match is not found, and the client reads it.

Four more limits of the code came up while it was modelled. No run is spent on them.

- Rules without `\b` beside rules with it. The rules are looked for before any of them writes,
  and then applied in turn (`dlp.rs:64-97`). Beside the `[REDACTED]` of a rule without `\b` a word
  begins or ends that did not before, and a rule with `\b` that has been looked for, also one that
  blocks, would now match. Rules that all have `\b` on both sides do not do this to one another.
- The sanitizer's `javascript\s*:` (`output_sanitizer.rs:21`) has no `\b`, and it is replaced after
  DLP has run: of `123-45-6789javascript:` DLP finds nothing, since no word ends behind the
  number, and `123-45-6789[REDACTED]` is relayed. The default detectors are enough for it.
  `MCExchangeEdges` evaluates an instance of both.
- The body is read before the path is checked (`handler.rs:25`, `handler.rs:40`), so a request for
  a path that is not allowed is answered 413 if its body is too large or breaks off, where
  `docs/live-readiness.md:17` says 404. It is never forwarded (`ForwardedAsInspected`).
- `read_body` maps every error of the payload to `BodyTooLarge` (`handler.rs:154`), so a body that
  breaks off is answered 413 "request body is too large" (`errors.rs:57`) although it was not.

## What is proved

### Token budget

`TokenBudgetProofs` proves, for every finite set of requests, any principals, any
estimates, limits, window length, staleness and number of restarts (assumption
`BudgetAssumption`):

- `TypeCorrect`: `Spec => []TypeOK`;
- `BudgetInvariant`, `WindowLimit`, `WindowsSeparated`, `BalanceExact`: `Spec` implies
  always `BudgetInv`, `WindowWithinLimit`, `WindowsApart`, `BalanceIsWindowSum`;
- `ChargesInWindow`: `Spec => []ChargeTimes`, every charge was made while its window
  lasted, give or take a stale reading;
- `RefusalsAreRecent`, `RateOfCharges`: `Spec` implies `RefusedForRecentUse` and always
  `ThroughputBound`;
- `QuotaRefinement`: `Spec => ImplementsQuota`.

`WindowWithinLimit` speaks of sums over the requests admitted in a window. The sum of
estimates is the number of elements of `ChargedTokens(S)`, a set that has one element per
token, so that sums are cardinalities of finite sets and need no recursion: the lemmas
`SpentType`, `SpentNothing`, `SpentMonotone`, `SpentUnion`, `SpentAlone` and `SpentOneMore`
are all the arithmetic the proofs use.

The limit is not inductive as it stands. It holds because a charge goes to the window of
the entry, whose balance is exactly the sum of what was admitted in it
(`BalanceIsWindowSum`) and within the limit (`BalanceWithinLimit`). For a new window to
start with a sum of zero, no earlier charge may have its start; that follows from
`ChargesPrecedeEntry` (every charge of this process was made in the entry's window or in one
that started more than `WindowSecs` before it) and, for a principal without entry, from the
domain of the map. `ClocksInPast` bounds what a stale reading can be. `BudgetInv` is the
conjunction; TLC checks it in `token_budget`, and the proofs have one lemma per action.

`ThroughputBound` bounds the tokens charged within `WindowSecs` of real time. `ChargeTimes`
puts the start of each window that can have a charge in that time into an interval;
`WindowsApart` keeps the starts more than `WindowSecs` apart, so dividing their distance
by `WindowSecs + 1` numbers these windows with different numbers below
`WindowsInSight` (`QuotientsApart`, `Numbering`); and `WindowWithinLimit` numbers the
tokens within a window. Together they map the charged tokens injectively into
`WindowsInSight` times `MaxWindowTokens` places (`SpanSpent`), with no induction over windows.
For `RefusedForRecentUse`, the balance that refuses a request is the sum of its
window, all of which `ChargeTimes` makes recent.

The refinement maps `Charge` to `Admit`, `RejectExhausted` and `RejectOversize` to the two
refusals, `Restart` to `Forget`, and the rest to stuttering; it needs `BudgetInv` for the
balance of an entry.

### Proxy handler

`ProxyHandlerProofs` proves, for any finite set of requests, any inputs, limits, chunk
sizes, set of enabled detectors and number of restarts (assumption `HandlerAssumption`):

- `TypeCorrect`: `Spec => []TypeOK`;
- `HandlerInvariant`: `Spec => []HandlerInv`;
- `ForwardedInspected`, `Delivered`, `BodiesWhole`: `Spec` implies always `ForwardedAsInspected`,
  `DeliveredAsInspected`, `BodiesWholeOrRefused`;
- `ContractRefinement`: `Spec => Contract!ContractSafety`, the safety part of
  `ImplementsContract`.

`ForwardedAsInspected` is not inductive: it says nothing before a request is sent.
`HandlerInv` adds what each phase may rely on. The rewritings the current body carries are
always those the recorded results stand for (`RequestTrail`, by `EditsAppend`: a detector
adds its own and none starts from an older body); no result is a block while the chain runs,
and in `forwarding` the chain is complete; nothing was sent before, exactly once after
(`SendingTrail`); the same for the response (`ResponseTrail`); the ending that relays a
response was chosen after a cleared chain (`EndingTrail`, which also gives `TypeOK` the type
of `audited`). Each part speaks of one request, so a step of one request leaves the others
alone (`OthersUntouched`) and a restart only drops them (`Trail_Dropped`).

`ProxyAccountProofs` proves, under the same assumption, `AccountInvariant` (`Spec =>
[]AccountInv`) and from it `AuditMatches`, `MetricsBalanced` and `CountersAgree`: `Spec`
implies always `AuditMatchesAnswer`, `MetricsBalance` and `CountersAgreeWithHelp`.
`AccountInv` says of every request that has left the chains that it ended in one of the
five ways the handler has (`EndedOneWay`), each a counter, an event and a status together
with the results that led there, and that it was audited for that event at most once
(`AuditTrail`). `Tally` says of every counter that it is the number of this process's
requests that ended with it and have been counted. A step of one request changes at most
one of these sets, by one element; the balance is then that of cardinalities of disjoint sets.

For the contract, `NeverUnchecked` shows that under the invariant no request is ever seen
or answered unchecked; then `StartRequest` is `Accept`, `Send` is `PassOn`, `Answer` is
`Release` or `Refuse`, `Disconnect` and `Restart` are `Lose`, and every other step
stutters.

### Service start

`ServiceStartProofs` proves, for any processes, files, documents, environments and argument
lists (assumptions `StartAssumption`: the default path is one of the files; and
`TypedAssumption`: in a document that deserializes, the sizes are natural numbers and the URL
is of one of the classes, which is what serde's types give the code):

- `StartInvariant`: `StartSpec => []StartInv`, which contains `TypeOK`;
- `ServedConfigIsUsable`, `CheckedConfigDoesStart`, `ProbesAreAnswered`: `StartSpec` implies
  always `ServedConfigUsable`, `CheckedConfigStarts`, `ProbesAnswered`.

The file may be edited between the moment a process reads it and the moment it serves, and
between the check and the start. So the properties cannot refer to what the disk holds.
`StartInv` ties a process to what it read: past `Load` its configuration is
`LoadedConfig` of the document and environment it keeps and is not `NoConfig` (`Trail`), a
process that ended with `config` or `pipeline` keeps what failed, and each entry of `checked`
loads and builds (`CheckedTrail`). Since `LoadedConfig` and `PipelineBuilds` are functions of
contents and environment, a checked pair cannot be one that failed. `ServedConfigUsable`
follows from `validate` of the configuration in force (`LoadedIsValid`); it would not if
the overrides came after the validation. `StartInv` was also checked with TLC on the instance
of `start`.

### Service

`FirewallServiceProofs` proves, under `HandlerAssumption` and `ServiceAssumption` (the
callers are callers, the limits natural numbers, "none" is not a key, and a cell takes at
least one tick: the limiter refills a whole number of nanoseconds apart, and a `u32` of
requests a minute leaves at least thirteen):

- `BudgetIsKept`: `ServiceSpec => BudgetKept`, the service refines `TokenBudget`;
- `ServiceInvariant`: `ServiceSpec => []ServiceInv`;
- `RateRefusals`, `ForwardedCharged`, `StaysCharged`, `RateLimit`, `RateRefusalsEarned`:
  `ServiceSpec` implies always `RateRefusalsAreFree`, `ForwardedWithinBudget`,
  `FailuresStayCharged`, `RateBound`, `RateRefusedForUse`.

Nothing is proved twice. Each step of the service is a step of the handler or leaves it
alone (`ServiceHandles`), and is a step of the budget or leaves that alone
(`ServiceCharges`); so `HandlerInv` holds of the service, and the budget's theorems, proved
for its module by itself, hold of the instance (`Proved`). What is left is what joins the
two: `Judged` says what the results recorded for a request tell of the detectors' state,
and the other way round. `ForwardedWithinBudget` is then the window limit at the requests
that were sent (`SentFits`), and `FailuresStayCharged` the exact balance with its sum
taken over handler states.

For the limiter, `ArrivalTimes` bounds the theoretical arrival time of a principal from
both sides by the cells that passed. `NotTooSoon`: from any instant before all of them it is
at least as many intervals ahead as cells passed, and one; a cell passes only if its time is
at most a burst ahead, so only so many pass in a time (`RateBound`). `NotTooLate`: seen from any instant it is no further ahead than a full
burst and the cells passed since, so a refusal has the client's own use behind it
(`RateRefusedForUse`). Both are stated for all instants up to now because a tick moves the
minute they are used for. The first form written, without `p \in DOMAIN tat <=> Cells(p) # {}`,
is not inductive: a state in which a principal without cells has an arrival time satisfies
it, and a tick then breaks `NotTooSoon`. TLC checked `ServiceInv` on the instance of `service`.

### Metrics page

`MetricsScrapeProofs` proves, under `HandlerAssumption`, `ScrapeInvariant` (`ScrapeSpec =>
[]ScrapeInv`) and from it `ShownInTime`, `PagesOnlyGrow` and `SkewIsBounded`: `ScrapeSpec`
implies `ShownWhileRendered`, `PagesGrow` and `SkewBounded`. While a process lives the handlers
only raise counters, so a value loaded stays between what its counter was when the page
was begun and what it is now; and no page shows more than the counters were when the next is
begun. A restart ends the page as it ends the counters. `SkewBounded` relates
counters of two moments: it needs `MetricsBalance` of both, that is, `AccountInv` of
the handler. TLC checked `ScrapeInv`, and `AccountInv`, on the instances of `scrape` and
of `handler_shared`.

### Exchange

`JsonProofs` proves what the operators on data compute, for all texts, patterns and values
(`JsonAssumption`, `PromptAssumption`, `RulesAssumption`):

- `InjectionGone`: behind the detector no string it reads holds a match; `DlpLeavesNone` and
  `RedactTextLeavesNone` say so of the DLP rules, in the strings of a value and in a text, for
  rules that make no match of one another (`RulesUnmade`; for the strings also `RulesOpen`:
  a form takes the end of a line for the end of the text, since a value is searched line
  by line and rewritten string by string); `PromptInserted`: behind the insertion the prompt
  is found;
- `DlpMakesNoInjection`, `PromptMakesNoInjection`, `PromptLeavesNone`: a detector that runs
  later puts no match of an earlier one back; `PromptsStay`: inserting the prompt loses none
  of the client's strings;
- `DlpKeepsValid`, `InjectionKeepsValid`, `PromptKeepsValid`: what strict validation
  accepted it still accepts after each rewriting.

The hard one is `InjectionGone`: detection reads by `PromptStrings`, and replacement is another
walk. Both are compared value by value, over the depth of nesting. Induction over data is done
without an induction theorem that takes an operator: `LeastNumber` (from the well-foundedness
of `<` on the naturals, a fact about a set) gives `RankInduction` over any set with a rank,
stated for a set of values instead of a predicate, and `RankRecursion` gives that a recursive
function whose calls go down in rank exists (a recursive definition in TLA+ is a CHOOSE, which
means nothing until that is shown). The heart of the text lemmas: a match in a
redacted text that does not hold the replacement lies in a stretch the scan from the left has
kept; it was a match there before, or one of its neighbours was not the same. Then that is
the replacement, and what stood there was the end or the beginning of a match of
the rule that wrote it, which `Apart` asks about.

`ExchangeProofs` proves, under `HandlerAssumption`, `ExchangeAssumption` and `ExchangeTypes`
and those of the data:

- `HandlerRefined`: `ExchangeSpec => Init /\ [][Next]_vars`, so `HandlerInv` and `AccountInv`
  hold of an exchange;
- `ExchangeInvariant`: `ExchangeSpec => []ExchangeInv`;
- `PromptReachesUpstream`, `SentBodiesValid`, `PromptsSurvive`, `OwnHeadersWin`: `ExchangeSpec`
  implies `PromptPresent`, `RewritingKeepsShape`, `PromptsKept`, `ResponseHeadersOwn`;
- `RecordsMatchTraffic`: `ExchangeSpec` implies always `RecordsOnlyPassedOn`;
- `NoMatchForwarded`: `ExchangeSpec` implies always `DlpLeavesNoneSent`, the half of
  `DlpLeavesNothing` about requests, under a weaker hypothesis than the whole;
- `NoInjectionForwarded`, `NoMatchPassedOn`, `NoSecretCut`, `NoCredentialForwarded`:
  `ExchangeSpec` implies always `InjectionRedacted`, `DlpLeavesNothing`, `PreviewsSanitized`,
  `ClientCredentialsStay`, each under a hypothesis on the configuration.

The properties speak of what is sent or relayed, and say nothing while the chains run.
`ExchangeInv` says of the current body what each detector that has run leaves in it
(`RequestDataTrail`, `ResponseDataTrail`), that a validated body stays valid (`InputTrail`), that
what is sent and relayed is the current body and text (`SentTrail`, `RelayedTrail`) and what a
record shows (`RecordTrail`). A detector that runs keeps what the earlier ones left. That
needs the order of the chain, and the order comes from `Place`: the chains are built in
ascending order (`Built`), so when a detector runs, none behind it has run. TLC checked `ExchangeInv` on the
exchanges of run `exchange`.

The hypotheses are real limits of the code, not of the proof. A detector does not see again
what the firewall writes after it: `REDACTED`, the mandatory prompt and the blank behind it, the
role `system`. A rule whose pattern matches inside the mandatory prompt is not applied to it; a
pattern that matches text around a `[REDACTED]` that DLP has put there was not looked for again.
So `InjectionApart` and `RulesApart` ask that no match holds one of these words, or, for `Prompt`
and `system`, that they hold no match. Of rules, `RulesApart` asks two more things.

- They are `Apart` from the rules that redact: where a form allows `REDACTED` beside it, it
  allows the mark that stood there, or the other pattern does not match beside it. Two rules
  with `\b` on both sides are apart: of the marks at the edge between them one of the two would
  see a word go on. A rule without `\b` is not apart from one with it, and TLC shows what then
  happens (`MCExchangeEdges`).
- They are open (`OpenEnds`), since a request is searched as lines and rewritten as strings.

That is enough for what is forwarded (`NoMatchForwarded`). What is relayed the sanitizer has
rewritten behind DLP, and `SanitizerApart` asks the same of its patterns. Of the built-in ones
(`output_sanitizer.rs:19-25`) the three that begin with a tag or white space are apart from
rules with `\b`; `javascript\s*:` and `data\s*:` are not, so for those `NoMatchPassedOn` says
nothing and `MCExchangeEdges` shows why.

`NoSecretCut` asks that `suppressed` is part of no secret; `NoCredentialForwarded` that no client
sends the service's own key as a credential (`KeyUnknown`). TLC evaluates them for the exchanges
of run `exchange`, with rules that redact, block and log.

### Only model-checked

- Liveness: `ReadRequestsSettle` and the `Settles` part of `ImplementsContract` need
  fairness and ENABLED, which the prover has no rules for.
- `RelayedCallsAllowed`: it needs what `ReadJson` makes of a rewritten text, and is checked for
  answers with a call in each of the places it names.
- The four runs that show a violation.

## What is not modelled

- Regular expressions and phrases character by character: patterns are sets of forms, none of
  them empty (a rule whose expression matches the empty text, which would act everywhere, is
  left out), and assertions look at the one mark beside a match. Which of two forms that match at
  one place is replaced is left to the choice of `Redacted`.
- White space of JSON other than the ends of lines.
- The wording of messages and the JSON of errors; the correlation id's uniqueness; several
  values of one header (the code keeps one of them).
- The algorithm of the governor crate (its clock reading included), the HTTP server and client, serde and the YAML
  parser: external, modelled by what the code relies on. Weighing of memory orders other
  than the free order of a page's loads.
- How actix-web matches a pattern: which paths fit a metrics path that is one is a constant of
  `ServiceStart` (`PatternPaths`). Metrics paths that are no valid route pattern (the route would
  be refused when a worker starts), log formats and `RUST_LOG`.
- Tests, packaging, scripts and documents contain no logic of the service; they were read for
  what they claim and for how the service is launched.

## Plan

Done, in this order: `WindowQuota`, `TokenBudget`, `FirewallContract`, `ProxyHandler`,
`TokenBudgetProofs`, `ProxyHandlerProofs`, `JsonValue`, `RequestShape`, `PromptText`,
`ContentRules`, `JsonText`, `Exchange`, `FirewallService`, `MetricsScrape`, `ServiceStart`,
`ServiceStartProofs`, `ProxyAccountProofs`, `MetricsScrapeProofs`,
`FirewallServiceProofs`, `JsonProofs`, `ExchangeProofs`.

What would come next: a proof of `RelayedCallsAllowed`, which needs lemmas about
what `ReadJson` makes of a text that was rewritten, and liveness proofs, should the prover gain
rules for fairness.
