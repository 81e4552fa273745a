---- MODULE ExchangeProofs ----
(***************************************************************************)
(* Proofs about Exchange, for every exchange, every set of rules, patterns *)
(* and limits, and any enabled detectors: what the upstream is given, what *)
(* the client is given, and what is recorded of both.                      *)
(*                                                                         *)
(* Each step of Exchange is a step of ProxyHandler, so that the invariants *)
(* proved of the handler hold here.  ExchangeInv adds what is known of the *)
(* data: what each detector that ran has left in the body and in the text, *)
(* although the detectors behind it went on to rewrite them.               *)
(***************************************************************************)
EXTENDS Exchange, ProxyAccountProofs, JsonProofs

-----------------------------------------------------------------------------
(***************************************************************************)
(* The invariant.                                                          *)
(***************************************************************************)
Ran(d, chain, results) == \E i \in DOMAIN results : chain[i] = d

(* The request passed validation.                                          *)
Within == {"inspecting", "forwarding", "awaiting", "collecting", "screening"}
Admitted(r) == phase[r] \in Within \/ requestResults[r] # <<>> \/ sent[r].calls > 0

Holds(strings, rules) == \A x \in ToSet(strings) : Free(rules, x)

InputTrail(r) ==
    /\ input[r].path = exchange.path
    /\ input[r].content = ContentOf(exchange.path, exchange.json)
    /\ phase[r] \in {"validating"} \cup Within => (body[r] = 0 <=> exchange.json = Absent)
    /\ requestResults[r] = <<>> => ~modifiedBody[r].some
    /\ Admitted(r) => exchange.json \in Value
    /\ Admitted(r) /\ HasEnvelope(r) => ValidBody(exchange.path, CurrentJson(r))

RequestDataTrail(r) ==
    LET ran(d) == Ran(d, RequestChain, requestResults[r])
    IN  ~Blocked(requestResults[r]) =>
        /\ ran("prompt_injection") /\ InjectionApart /\ settings.injection # "log_only"
              => ~HasInjection(CurrentJson(r))
        /\ ran("dlp") /\ RulesApart(settings.rules)
              => Holds(StringsOf[CurrentJson(r)], settings.rules)
        /\ ran("system_prompt") /\ ~IsBlank(Prompt) /\ HasPromptSurface(CurrentJson(r))
              => HasRequiredPrompt(CurrentJson(r))

SentTrail(r) ==
    sent[r].calls > 0 =>
        /\ outbound.some /\ outbound.json = CurrentJson(r)
        /\ \E key \in BOOLEAN : outbound.headers = OutboundHeaders(exchange.headers, key)

ResponseDataTrail(r) ==
    (/\ ~Blocked(responseResults[r]) /\ Ran("dlp", ResponseChain, responseResults[r])
     /\ RulesApart(settings.rules) /\ SanitizerApart(settings.rules))
        => Free(settings.rules, text)

RecordTrail(r) ==
    record # Nothing =>
        /\ phase[r] \in {"answering", "answered", "dropped"}
        /\ \E event \in {"allowed", "blocked_request", "blocked_response"} :
              /\ record.request = RequestPreview(r, event)
              /\ record.response = ResponsePreview(event)
              /\ event # "blocked_request" => sent[r].calls > 0
              /\ event = "allowed" => Cleared(ResponseChain, responseResults[r])
              /\ ending[r].event = event

RelayedTrail(r) ==
    relayed # Nothing =>
        /\ phase[r] = "answered"
        /\ Cleared(ResponseChain, responseResults[r])
        /\ relayed.headers = ResponseHeaders(r)
        /\ relayed.text = text
        /\ record # Nothing => record.response = ResponsePreview("allowed")

DataTypes ==
    /\ exchange \in Exchanges
    /\ rewritten \in Value
    /\ text \in Text

DataTrail(r) ==
    /\ InputTrail(r)
    /\ RequestDataTrail(r)
    /\ SentTrail(r)
    /\ ResponseDataTrail(r)
    /\ RecordTrail(r)
    /\ RelayedTrail(r)

ExchangeInv == DataTypes /\ \A r \in Requests : DataTrail(r)

-----------------------------------------------------------------------------
(***************************************************************************)
(* The chains: each detector has its place, and those that ran stand       *)
(* before the next one.                                                    *)
(***************************************************************************)
Place ==
    [rate_limiter |-> 1, token_budget |-> 2, prompt_injection |-> 3, dlp |-> 4,
     system_prompt |-> 5, tool_call |-> 6, output_sanitizer |-> 7]

Ascending(chain) ==
    /\ chain \in Seq(Detectors)
    /\ \A i, j \in 1..Len(chain) : i < j => Place[chain[i]] < Place[chain[j]]

(* A chain of the enabled ones of some detectors, of which d is the last.  *)
Built(chain, members, d) ==
    /\ Ascending(chain)
    /\ \A i \in 1..Len(chain) : Place[chain[i]] <= Place[d]
    /\ \A x : x \in members \cap Enabled <=> \E i \in 1..Len(chain) : chain[i] = x

LEMMA PlaceType == Place \in [Detectors -> 1..7]
BY DEF Place, Detectors

LEMMA ChainStarts ==
    ASSUME NEW d \in Detectors
    PROVE  Built(IfEnabled(d), {d}, d)
<1> DEFINE chain == IfEnabled(d)
<1>1. CASE d \in Enabled
  <2>1. chain = <<d>> /\ Len(<<d>>) = 1 /\ <<d>>[1] = d
    BY <1>1 DEF IfEnabled
  <2> QED
    BY <1>1, <2>1, PlaceType DEF Built, Ascending
<1>2. CASE d \notin Enabled
  <2>1. chain = <<>> /\ Len(<<>>) = 0
    BY <1>2 DEF IfEnabled
  <2> QED
    BY <1>2, <2>1 DEF Built, Ascending
<1> QED
  BY <1>1, <1>2

LEMMA ChainGrows ==
    ASSUME NEW chain, NEW members, NEW e \in Detectors, Built(chain, members, e),
           NEW d \in Detectors, Place[e] < Place[d]
    PROVE  Built(chain \o IfEnabled(d), members \cup {d}, d)
<1>1. CASE d \in Enabled
  <2> DEFINE longer == chain \o <<d>>
  <2>1. IfEnabled(d) = <<d>>
    BY <1>1 DEF IfEnabled
  <2>2. chain \in Seq(Detectors) /\ Len(chain) \in Nat
    BY DEF Built, Ascending
  <2>3. /\ longer \in Seq(Detectors) /\ Len(longer) = Len(chain) + 1
        /\ longer[Len(chain) + 1] = d
        /\ \A i \in 1..Len(chain) : longer[i] = chain[i]
    BY <2>2
  <2>4. \A i \in 1..Len(chain) : chain[i] \in Detectors /\ Place[chain[i]] <= Place[e]
    BY <2>2 DEF Built
  <2>5. \A x \in Detectors : Place[x] \in 1..7
    BY PlaceType
  <2> HIDE DEF longer
  <2>6. ASSUME NEW i \in 1..Len(longer), NEW j \in 1..Len(longer), i < j
        PROVE  Place[longer[i]] < Place[longer[j]]
    <3>1. i \in 1..Len(chain) /\ longer[i] = chain[i]
      BY <2>2, <2>3, <2>6
    <3>2. CASE j = Len(chain) + 1
      <4>1. Place[chain[i]] <= Place[e] /\ Place[chain[i]] \in 1..7 /\ longer[j] = d
        BY <2>3, <2>4, <2>5, <3>1, <3>2
      <4> QED
        BY <2>5, <3>1, <4>1
    <3>3. CASE j # Len(chain) + 1
      <4>1. j \in 1..Len(chain)
        BY <2>2, <2>3, <3>3
      <4> QED
        BY <2>3, <2>6, <3>1, <4>1 DEF Built, Ascending
    <3> QED
      BY <3>2, <3>3
  <2>7. ASSUME NEW i \in 1..Len(longer) PROVE Place[longer[i]] <= Place[d]
    <3>1. CASE i = Len(chain) + 1
      BY <2>3, <2>5, <3>1
    <3>2. CASE i # Len(chain) + 1
      <4>1. i \in 1..Len(chain)
        BY <2>2, <2>3, <3>2
      <4>2. Place[chain[i]] <= Place[e] /\ Place[chain[i]] \in 1..7 /\ longer[i] = chain[i]
        BY <2>3, <2>4, <2>5, <4>1
      <4> QED
        BY <2>5, <4>2
    <3> QED
      BY <3>1, <3>2
  <2>8. ASSUME NEW x
        PROVE  x \in (members \cup {d}) \cap Enabled <=> \E i \in 1..Len(longer) : longer[i] = x
    <3>1. x \in members \cap Enabled <=> \E i \in 1..Len(chain) : chain[i] = x
      BY DEF Built
    <3>2. (\E i \in 1..Len(longer) : longer[i] = x) <=> x = d \/ \E i \in 1..Len(chain) : chain[i] = x
      BY <2>2, <2>3
    <3> QED
      BY <1>1, <3>1, <3>2
  <2>9. Ascending(longer)
    BY <2>3, <2>6 DEF Ascending
  <2>10. Built(longer, members \cup {d}, d)
    BY <2>7, <2>8, <2>9 DEF Built
  <2> QED
    BY <2>1, <2>10 DEF longer
<1>2. CASE d \notin Enabled
  <2>1. IfEnabled(d) = <<>> /\ chain \o <<>> = chain
    BY <1>2 DEF IfEnabled, Built, Ascending
  <2>2. \A i \in 1..Len(chain) : Place[chain[i]] <= Place[d]
    <3>1. \A i \in 1..Len(chain) : chain[i] \in Detectors /\ Place[chain[i]] <= Place[e]
      BY DEF Built, Ascending
    <3> QED
      BY <3>1, PlaceType
  <2>3. (members \cup {d}) \cap Enabled = members \cap Enabled
    BY <1>2
  <2> QED
    BY <2>1, <2>2, <2>3 DEF Built
<1> QED
  BY <1>1, <1>2

LEMMA ChainOrder ==
    /\ Built(RequestChain, {"rate_limiter", "token_budget", "prompt_injection", "dlp",
                            "system_prompt", "tool_call"}, "tool_call")
    /\ Built(ResponseChain, {"dlp", "tool_call", "output_sanitizer"}, "output_sanitizer")
<1>0. /\ Place["rate_limiter"] < Place["token_budget"]
      /\ Place["token_budget"] < Place["prompt_injection"]
      /\ Place["prompt_injection"] < Place["dlp"]
      /\ Place["dlp"] < Place["system_prompt"] /\ Place["system_prompt"] < Place["tool_call"]
      /\ Place["dlp"] < Place["tool_call"] /\ Place["tool_call"] < Place["output_sanitizer"]
  BY DEF Place
<1> DEFINE a == IfEnabled("rate_limiter")
           b == a \o IfEnabled("token_budget")
           c == b \o IfEnabled("prompt_injection")
           d == c \o IfEnabled("dlp")
           e == d \o IfEnabled("system_prompt")
           f == e \o IfEnabled("tool_call")
<1>1. Built(a, {"rate_limiter"}, "rate_limiter")
  BY ChainStarts DEF Detectors
<1>2. Built(b, {"rate_limiter"} \cup {"token_budget"}, "token_budget")
  <2> HIDE DEF a
  <2> QED
    BY <1>0, <1>1, ChainGrows DEF Detectors
<1>3. Built(c, ({"rate_limiter"} \cup {"token_budget"}) \cup {"prompt_injection"}, "prompt_injection")
  <2> HIDE DEF b
  <2> QED
    BY <1>0, <1>2, ChainGrows DEF Detectors
<1>4. Built(d, (({"rate_limiter"} \cup {"token_budget"}) \cup {"prompt_injection"}) \cup {"dlp"}, "dlp")
  <2> HIDE DEF c
  <2> QED
    BY <1>0, <1>3, ChainGrows DEF Detectors
<1>5. Built(e, ((({"rate_limiter"} \cup {"token_budget"}) \cup {"prompt_injection"}) \cup {"dlp"})
                   \cup {"system_prompt"}, "system_prompt")
  <2> HIDE DEF d
  <2> QED
    BY <1>0, <1>4, ChainGrows DEF Detectors
<1>6. Built(f, (((({"rate_limiter"} \cup {"token_budget"}) \cup {"prompt_injection"}) \cup {"dlp"})
                   \cup {"system_prompt"}) \cup {"tool_call"}, "tool_call")
  <2> HIDE DEF e
  <2> QED
    BY <1>0, <1>5, ChainGrows DEF Detectors
<1>7. (((({"rate_limiter"} \cup {"token_budget"}) \cup {"prompt_injection"}) \cup {"dlp"})
          \cup {"system_prompt"}) \cup {"tool_call"}
        = {"rate_limiter", "token_budget", "prompt_injection", "dlp", "system_prompt", "tool_call"}
  OBVIOUS
<1>8. RequestChain = f
  BY DEF RequestChain
<1> DEFINE p == IfEnabled("dlp")
           q == p \o IfEnabled("tool_call")
           s == q \o IfEnabled("output_sanitizer")
<1>9. Built(p, {"dlp"}, "dlp")
  BY ChainStarts DEF Detectors
<1>10. Built(q, {"dlp"} \cup {"tool_call"}, "tool_call")
  <2> HIDE DEF p
  <2> QED
    BY <1>0, <1>9, ChainGrows DEF Detectors
<1>11. Built(s, ({"dlp"} \cup {"tool_call"}) \cup {"output_sanitizer"}, "output_sanitizer")
  <2> HIDE DEF q
  <2> QED
    BY <1>0, <1>10, ChainGrows DEF Detectors
<1>12. ({"dlp"} \cup {"tool_call"}) \cup {"output_sanitizer"} = {"dlp", "tool_call", "output_sanitizer"}
  OBVIOUS
<1>13. ResponseChain = s
  BY DEF ResponseChain
<1> HIDE DEF f, s
<1> QED
  BY <1>6, <1>7, <1>8, <1>11, <1>12, <1>13

LEMMA RanAppend ==
    ASSUME NEW chain, Ascending(chain), NEW results \in Seq(Results), NEW finding \in Results,
           Len(results) < Len(chain)
    PROVE  /\ \A x : Ran(x, chain, Append(results, finding))
                        <=> Ran(x, chain, results) \/ x = NextDetector(chain, results)
           /\ \A x : Ran(x, chain, results) =>
                 x \in Detectors /\ Place[x] < Place[NextDetector(chain, results)]
<1> DEFINE longer == Append(results, finding)
           n == Len(results)
<1>1. /\ n \in Nat /\ DOMAIN results = 1..n /\ DOMAIN longer = 1..(n + 1)
  OBVIOUS
<1>2. NextDetector(chain, results) = chain[n + 1]
  BY DEF NextDetector
<1> HIDE DEF longer
<1>3. ASSUME NEW x PROVE Ran(x, chain, longer) <=> Ran(x, chain, results) \/ x = chain[n + 1]
  BY <1>1 DEF Ran
<1>4. ASSUME NEW x, Ran(x, chain, results) PROVE x \in Detectors /\ Place[x] < Place[chain[n + 1]]
  <2>1. PICK i \in 1..n : chain[i] = x
    BY <1>1, <1>4 DEF Ran
  <2>2. i \in 1..Len(chain) /\ n + 1 \in 1..Len(chain) /\ i < n + 1
    BY <1>1 DEF Ascending
  <2> QED
    BY <2>1, <2>2 DEF Ascending
<1> QED
  BY <1>2, <1>3, <1>4 DEF longer

LEMMA ClearedRan ==
    ASSUME NEW chain, NEW members, NEW e, Built(chain, members, e), NEW results \in Seq(Results),
           Cleared(chain, results), NEW d \in members \cap Enabled
    PROVE  Ran(d, chain, results)
<1>1. PICK i \in 1..Len(chain) : chain[i] = d
  BY DEF Built
<1>2. DOMAIN results = 1..Len(chain)
  BY DEF Cleared
<1> QED
  BY <1>1, <1>2 DEF Ran

-----------------------------------------------------------------------------
(***************************************************************************)
(* The verdicts on a body and what they rewrite, for the settings of the   *)
(* exchange.                                                               *)
(***************************************************************************)
LEMMA SettingsType ==
    ASSUME exchange \in Exchanges
    PROVE  /\ settings.rules \in Rules /\ settings.injection \in Actions
           /\ settings.sanitizer \in Actions /\ settings.bodyChars \in Nat
           /\ exchange.answer.text \in Text
           /\ exchange.json \in Value \cup {Unparsable}
BY ExchangeTypes DEF settings

(* Rules that are apart make no match of one another's, nor do those of    *)
(* the output sanitizer of theirs.                                         *)
LEMMA SanitizerFacts ==
    /\ SanitizerRules \in Rules /\ DOMAIN SanitizerRules = DOMAIN ExecutablePatterns
    /\ \A i \in DOMAIN ExecutablePatterns : SanitizerRules[i].pattern = ExecutablePatterns[i]
  BY ReplacingFacts, RulesAssumption DEF SanitizerRules

LEMMA ApartFacts ==
    ASSUME NEW rules \in Rules, RulesApart(rules)
    PROVE  /\ RulesOpen(rules) /\ RulesUnmade(rules, rules)
           /\ SanitizerApart(rules) => RulesUnmade(rules, SanitizerRules)
<1>1. \A i \in DOMAIN rules : Acting(rules, i) =>
         /\ OpenEnds(rules[i].pattern) /\ Lacks(rules[i].pattern, "REDACTED")
         /\ \A j \in DOMAIN rules :
               rules[j].action = "redact" => Apart(rules[i].pattern, rules[j].pattern)
  BY DEF RulesApart, RulesLack
<1>2. RulesOpen(rules)
  BY <1>1 DEF RulesOpen
<1>3. RulesUnmade(rules, rules)
  BY <1>1 DEF RulesUnmade, UnmadeBy, Unmade
<1>4. SanitizerApart(rules) => RulesUnmade(rules, SanitizerRules)
  BY <1>1, SanitizerFacts DEF SanitizerApart, RulesUnmade, UnmadeBy, Unmade
<1> QED
  BY <1>2, <1>3, <1>4

(* The body after detector d had its verdict on it.                        *)
After(d, verdict, json) == IF verdict \in Rewriting THEN RewrittenBy(d, json) ELSE json

LEMMA RewritingVerdicts ==
    ASSUME exchange \in Exchanges, NEW d \in Detectors, NEW json,
           NEW verdict \in RequestVerdicts(d, json), verdict \in Rewriting,
           d # "output_sanitizer"
    PROVE  \/ /\ d = "prompt_injection" /\ verdict = "redact" /\ HasInjection(json)
              /\ RewrittenBy(d, json) = RedactPromptFields(json)
           \/ /\ d = "dlp" /\ verdict = "redact"
              /\ DlpFinding(settings.rules, Lines(json)) = "redact"
              /\ RewrittenBy(d, json) = DlpRedactValue(settings.rules, json)
           \/ /\ d = "system_prompt" /\ verdict = "modify" /\ ~IsBlank(Prompt)
              /\ HasPromptSurface(json)
              /\ RewrittenBy(d, json) = InjectPrompt(json)
<1>1. settings.rules \in Rules /\ settings.injection \in Actions
  BY SettingsType
<1>2. verdict \in {"redact", "modify"}
  BY DEF Rewriting
<1>3. CASE d = "rate_limiter"
  BY <1>2, <1>3 DEF RequestVerdicts, PassOrBlock
<1>4. CASE d = "token_budget"
  BY <1>2, <1>4 DEF RequestVerdicts, PassOrBlock, TokenFindings
<1>5. CASE d = "prompt_injection"
  BY <1>1, <1>2, <1>5 DEF RequestVerdicts, Actions, RewrittenBy
<1>6. CASE d = "dlp"
  <2>1. verdict = DlpFinding(settings.rules, Lines(json))
    BY <1>6 DEF RequestVerdicts
  <2>2. DlpFinding(settings.rules, Lines(json)) \in {"block", "redact", "log_only", "pass"}
    BY <1>1, FindingFacts
  <2> QED
    BY <1>2, <1>6, <2>1, <2>2 DEF RewrittenBy
<1>7. CASE d = "system_prompt"
  BY <1>2, <1>7 DEF RequestVerdicts, PromptFinding, RewrittenBy
<1>8. CASE d = "tool_call"
  BY <1>2, <1>8 DEF RequestVerdicts
<1> QED
  BY <1>3, <1>4, <1>5, <1>6, <1>7, <1>8 DEF Detectors

LEMMA AfterType ==
    ASSUME exchange \in Exchanges, NEW d \in Detectors, NEW json \in Value,
           NEW verdict \in RequestVerdicts(d, json), d # "output_sanitizer"
    PROVE  /\ After(d, verdict, json) \in Value
           /\ \A path : ValidBody(path, json) => ValidBody(path, After(d, verdict, json))
<1>1. settings.rules \in Rules
  BY SettingsType
<1>2. CASE verdict \notin Rewriting
  BY <1>2 DEF After
<1>3. CASE verdict \in Rewriting
  <2>1. CASE RewrittenBy(d, json) = RedactPromptFields(json)
    BY <1>3, <2>1, RedactedBodyType, InjectionKeepsValid DEF After
  <2>2. CASE RewrittenBy(d, json) = DlpRedactValue(settings.rules, json)
    BY <1>1, <1>3, <2>2, DlpRedactType, DlpKeepsValid DEF After
  <2>3. CASE HasPromptSurface(json) /\ RewrittenBy(d, json) = InjectPrompt(json)
    <3>1. InjectPrompt(json) \in Value
      BY <2>3, InjectPromptFacts DEF Inserted
    <3> QED
      BY <1>3, <2>3, <3>1, PromptKeepsValid DEF After
  <2> QED
    BY <1>3, <2>1, <2>2, <2>3, RewritingVerdicts
<1> QED
  BY <1>2, <1>3

(* What each of the three leaves in the body, if it does not block, and    *)
(* what the ones behind it leave of that.                                  *)
LEMMA AfterInjection ==
    ASSUME exchange \in Exchanges, NEW d \in Detectors, NEW json \in Value,
           NEW verdict \in RequestVerdicts(d, json), verdict # "block", d # "output_sanitizer",
           InjectionApart, settings.injection # "log_only",
           d = "prompt_injection" \/ (Place["prompt_injection"] < Place[d] /\ ~HasInjection(json))
    PROVE  ~HasInjection(After(d, verdict, json))
<1>1. settings.rules \in Rules /\ settings.injection \in Actions
  BY SettingsType
<1>2. CASE verdict \notin Rewriting
  <2>1. After(d, verdict, json) = json
    BY <1>2 DEF After
  <2>2. d = "prompt_injection" /\ HasInjection(json) => verdict = settings.injection
    BY DEF RequestVerdicts
  <2>3. d = "prompt_injection" => ~HasInjection(json)
    BY <1>1, <1>2, <2>2 DEF Actions, Rewriting
  <2> QED
    BY <2>1, <2>3
<1>3. CASE verdict \in Rewriting
  <2>0. After(d, verdict, json) = RewrittenBy(d, json)
    BY <1>3 DEF After
  <2>1. CASE RewrittenBy(d, json) = RedactPromptFields(json)
    BY <2>0, <2>1, InjectionGone DEF InjectionApart
  <2>2. CASE d = "dlp" /\ RewrittenBy(d, json) = DlpRedactValue(settings.rules, json)
    BY <1>1, <2>0, <2>2, DlpMakesNoInjection DEF InjectionApart
  <2>3. CASE d = "system_prompt" /\ HasPromptSurface(json) /\ RewrittenBy(d, json) = InjectPrompt(json)
    BY <2>0, <2>3, PromptMakesNoInjection DEF InjectionApart
  <2> QED
    BY <1>3, <2>1, <2>2, <2>3, RewritingVerdicts
<1> QED
  BY <1>2, <1>3

LEMMA AfterDlp ==
    ASSUME exchange \in Exchanges, NEW d \in Detectors, NEW json \in Value,
           NEW verdict \in RequestVerdicts(d, json), verdict # "block", d # "output_sanitizer",
           RulesApart(settings.rules),
           d = "dlp" \/ (Place["dlp"] < Place[d] /\ Holds(StringsOf[json], settings.rules))
    PROVE  Holds(StringsOf[After(d, verdict, json)], settings.rules)
<1>1. settings.rules \in Rules
  BY SettingsType
<1>2. CASE d = "dlp"
  <2>1. verdict = DlpFinding(settings.rules, Lines(json))
    BY <1>2 DEF RequestVerdicts
  <2>2. CASE verdict = "redact"
    <3>1. After(d, verdict, json) = DlpRedactValue(settings.rules, json)
      BY <1>2, <2>2 DEF After, Rewriting, RewrittenBy
    <3> QED
      BY <1>1, <2>1, <2>2, <3>1, ApartFacts, DlpLeavesNone DEF Holds
  <2>3. CASE verdict # "redact"
    <3>1. After(d, verdict, json) = json
      BY <1>1, <2>1, <2>3, FindingFacts DEF After, Rewriting
    <3> QED
      BY <1>1, <2>1, <2>3, <3>1, ApartFacts, DlpLeavesNone DEF Holds
  <2> QED
    BY <2>2, <2>3
<1>3. CASE d # "dlp" /\ verdict \notin Rewriting
  BY <1>3 DEF After
<1>4. CASE d # "dlp" /\ verdict \in Rewriting
  <2>1. d = "system_prompt" /\ HasPromptSurface(json) /\ After(d, verdict, json) = InjectPrompt(json)
    BY <1>4, RewritingVerdicts DEF After, Place
  <2>2. \A x \in ToSet(StringsOf[json]) : Free(settings.rules, x)
    BY <1>4 DEF Holds
  <2> QED
    BY <1>1, <2>1, <2>2, ApartFacts, PromptLeavesNone DEF RulesApart, Holds
<1> QED
  BY <1>2, <1>3, <1>4

LEMMA AfterPrompt ==
    ASSUME exchange \in Exchanges, NEW d \in Detectors, NEW json \in Value,
           NEW verdict \in RequestVerdicts(d, json), verdict # "block", d # "output_sanitizer",
           ~IsBlank(Prompt), HasPromptSurface(After(d, verdict, json)),
           \/ d = "system_prompt"
           \/ /\ Place["system_prompt"] < Place[d]
              /\ HasPromptSurface(json) => HasRequiredPrompt(json)
    PROVE  HasRequiredPrompt(After(d, verdict, json))
<1>1. CASE d = "system_prompt"
  <2>1. verdict = PromptFinding(json)
    BY <1>1 DEF RequestVerdicts
  <2>2. CASE verdict = "pass"
    BY <2>1, <2>2 DEF PromptFinding, After, Rewriting
  <2>3. CASE verdict # "pass"
    <3>1. verdict = "modify" /\ HasPromptSurface(json)
      BY <2>1, <2>3 DEF PromptFinding
    <3>2. After(d, verdict, json) = InjectPrompt(json)
      BY <1>1, <3>1 DEF After, Rewriting, RewrittenBy
    <3> QED
      BY <3>1, <3>2, PromptInserted
  <2> QED
    BY <2>2, <2>3
<1>2. CASE d # "system_prompt"
  <2>1. verdict \notin Rewriting
    BY <1>2, RewritingVerdicts DEF Place
  <2> QED
    BY <1>2, <2>1 DEF After
<1> QED
  BY <1>1, <1>2

-----------------------------------------------------------------------------
(***************************************************************************)
(* The steps.                                                              *)
(***************************************************************************)
LEMMA OnlyRequest ==
    ASSUME NEW r \in Requests, NEW q \in Requests PROVE q = r
BY FS_Singleton, HandlerAssumption, ExchangeAssumption

LEMMA DataTrail_Init ==
    ASSUME ExchangeInit, NEW r \in Requests
    PROVE  DataTypes /\ DataTrail(r)
<1>1. /\ phase[r] = "idle" /\ requestResults[r] = <<>> /\ responseResults[r] = <<>>
      /\ sent[r].calls = 0
  BY DEF ExchangeInit, Init, NotSent
<1>2. ~Admitted(r)
  BY <1>1 DEF Admitted, Within
<1>3. InputTrail(r)
  BY <1>1, <1>2 DEF InputTrail, ExchangeInit, Init, Unmodified, Within
<1>4. \A d, chain : ~Ran(d, chain, <<>>)
  BY DEF Ran
<1>5. RequestDataTrail(r) /\ ResponseDataTrail(r)
  BY <1>1, <1>4 DEF RequestDataTrail, ResponseDataTrail
<1>6. SentTrail(r) /\ RecordTrail(r) /\ RelayedTrail(r)
  BY <1>1 DEF SentTrail, RecordTrail, RelayedTrail, ExchangeInit
<1>7. Absent \in Value /\ <<>> \in Text
  BY LevelBuilds, JsonAssumption, TextFacts DEF Value
<1> QED
  BY <1>3, <1>5, <1>6, <1>7 DEF DataTrail, DataTypes, ExchangeInit

(* The step that only moves on, with the data and the results as they are. *)
Kept(r) == <<input[r], requestResults[r], modifiedBody[r], responseResults[r], sent[r]>>

Departed == {"answering", "answered", "dropped"}

LEMMA CurrentSame ==
    ASSUME NEW r \in Requests, UNCHANGED <<exchange, rewritten, modifiedBody[r]>>
    PROVE  CurrentJson(r)' = CurrentJson(r)
BY DEF CurrentJson

(* The data as they are seen from the last steps of the handler.           *)
LEMMA ViewSame ==
    ASSUME NEW r \in Requests, UNCHANGED <<exchange, rewritten, modifiedBody[r], text>>
    PROVE  /\ CurrentJson(r)' = CurrentJson(r)
           /\ \A event : RequestPreview(r, event)' = RequestPreview(r, event)
           /\ \A event : ResponsePreview(event)' = ResponsePreview(event)
           /\ ResponseHeaders(r)' = ResponseHeaders(r)
<1>1. CurrentJson(r)' = CurrentJson(r) /\ settings' = settings
  BY CurrentSame DEF settings
<1>2. \A event : RequestPreview(r, event)' = RequestPreview(r, event)
  BY <1>1 DEF RequestPreview
<1>3. \A event : ResponsePreview(event)' = ResponsePreview(event)
  BY <1>1 DEF ResponsePreview
<1>4. ResponseHeaders(r)' = ResponseHeaders(r)
  BY <1>1 DEF ResponseHeaders, OwnHeaders, KeptHeaders, IsStream, CorrelationId
<1> QED
  BY <1>1, <1>2, <1>3, <1>4

LEMMA DataTrail_Quiet ==
    ASSUME NEW r \in Requests, DataTrail(r), UNCHANGED data, UNCHANGED Kept(r),
           phase[r] \notin Departed,
           Admitted(r)' => Admitted(r),
           phase'[r] \in {"validating"} \cup Within => (body'[r] = 0 <=> exchange.json = Absent)
    PROVE  DataTrail(r)'
<1>1. CurrentJson(r)' = CurrentJson(r)
  BY CurrentSame DEF data, Kept
<1>2. UNCHANGED <<exchange, rewritten, outbound, text, relayed, record, settings,
                  input[r], requestResults[r], modifiedBody[r], responseResults[r], sent[r]>>
  BY DEF data, Kept, settings
<1>3. record = Nothing /\ relayed = Nothing
  BY DEF DataTrail, RecordTrail, RelayedTrail, Departed
<1>4. InputTrail(r)'
  BY <1>1, <1>2 DEF DataTrail, InputTrail, HasEnvelope
<1>5. RequestDataTrail(r)'
  BY <1>1, <1>2 DEF DataTrail, RequestDataTrail, Ran
<1>6. SentTrail(r)'
  BY <1>1, <1>2 DEF DataTrail, SentTrail
<1>7. ResponseDataTrail(r)'
  BY <1>2 DEF DataTrail, ResponseDataTrail, Ran
<1>8. RecordTrail(r)' /\ RelayedTrail(r)'
  BY <1>2, <1>3 DEF RecordTrail, RelayedTrail
<1> QED
  BY <1>4, <1>5, <1>6, <1>7, <1>8 DEF DataTrail

(* Until validation nothing is admitted, whatever is read.                 *)
LEMMA NotYetAdmitted ==
    ASSUME TypeOK, NEW r \in Requests, Trail(r), phase[r] \in Entering
    PROVE  requestResults[r] = <<>> /\ sent[r].calls = 0 /\ ~Admitted(r)
BY DEF Trail, RequestTrail, SendingTrail, Entering, BeforeSending, Admitted, Within

LEMMA DataTrail_Entering ==
    ASSUME TypeOK, NEW r \in Requests, Trail(r), DataTrail(r), UNCHANGED data,
           StartRequest(r) \/ ReadChunk(r) \/ PayloadError(r) \/ EndOfJson(r) \/ RejectInvalid(r)
    PROVE  DataTrail(r)'
<1>1. /\ phase[r] \in Entering
      /\ UNCHANGED Kept(r)
      /\ phase'[r] \in {"reading", "validating", "counting"}
      /\ phase'[r] = "validating" => (body'[r] = 0 <=> exchange.json = Absent)
  <2>1. CASE StartRequest(r)
    BY <2>1 DEF StartRequest, Goto, Kept, requestCtx, responseCtx, TypeOK, Entering
  <2>2. CASE ReadChunk(r)
    BY <2>2 DEF ReadChunk, Fail, Finish, Goto, Kept, requestCtx, responseCtx, TypeOK, Entering
  <2>3. CASE PayloadError(r)
    BY <2>3 DEF PayloadError, Fail, Finish, Goto, Kept, reading, requestCtx, responseCtx, TypeOK,
                Entering
  <2>4. CASE EndOfJson(r)
    BY <2>4 DEF EndOfJson, EndOfBody, Goto, Kept, reading, requestCtx, responseCtx, TypeOK, Entering
  <2>5. CASE RejectInvalid(r)
    BY <2>5 DEF RejectInvalid, Fail, Finish, Goto, Kept, reading, requestCtx, responseCtx, TypeOK,
                Entering
  <2> QED
    BY <2>1, <2>2, <2>3, <2>4, <2>5
<1>2. requestResults[r] = <<>> /\ sent[r].calls = 0
  BY <1>1, NotYetAdmitted
<1>3. ~Admitted(r)'
  BY <1>1, <1>2 DEF Admitted, Within, Kept
<1> QED
  BY <1>1, <1>3, DataTrail_Quiet DEF Entering, Departed, Within

(* What passes validation is JSON, and valid where that is asked.          *)
LEMMA DataTrail_StartInspection ==
    ASSUME TypeOK, DataTypes, NEW r \in Requests, Trail(r), DataTrail(r), UNCHANGED data,
           StartInspection(r)
    PROVE  DataTrail(r)'
<1>1. /\ phase[r] = "validating" /\ phase'[r] = "inspecting"
      /\ UNCHANGED Kept(r) /\ UNCHANGED body[r]
      /\ \A i \in DOMAIN Checks : ~Violates(r)[Checks[i]]
  BY DEF StartInspection, Goto, Kept, reading, requestCtx, responseCtx, TypeOK
<1>2. ~(body[r] > 0 /\ input[r].content = "malformed") /\ ~(HasEnvelope(r) /\ input[r].content = "misshapen")
      /\ ~(HasEnvelope(r) /\ body[r] = 0)
  <2>1. /\ 3 \in DOMAIN Checks /\ 5 \in DOMAIN Checks /\ 6 \in DOMAIN Checks
        /\ Checks[3] = "MissingBody" /\ Checks[5] = "InvalidJson" /\ Checks[6] = "InvalidRequest"
    BY DEF Checks
  <2>2. ~Violates(r)["MissingBody"] /\ ~Violates(r)["InvalidJson"] /\ ~Violates(r)["InvalidRequest"]
    BY <1>1, <2>1
  <2> QED
    BY <2>2 DEF Violates
<1>3. /\ input[r].content = ContentOf(exchange.path, exchange.json)
      /\ body[r] = 0 <=> exchange.json = Absent
      /\ body[r] \in Nat
  BY <1>1 DEF DataTrail, InputTrail, TypeOK
<1>4. requestResults[r] = <<>> /\ sent[r].calls = 0
  BY <1>1, NotYetAdmitted DEF Entering
<1>5. exchange.json # Unparsable
  <2>1. Unparsable # Absent
    BY DEF Unparsable, Absent
  <2> QED
    BY <1>2, <1>3, <2>1 DEF ContentOf
<1>6. exchange.json \in Value
  BY <1>5, SettingsType DEF DataTypes
<1>7. HasEnvelope(r) => ValidBody(exchange.path, exchange.json)
  BY <1>2, <1>3, <1>5 DEF ContentOf
<1>8. CurrentJson(r)' = exchange.json
  BY <1>1, <1>4 DEF DataTrail, InputTrail, CurrentJson, Kept, data
<1>9. UNCHANGED <<exchange, rewritten, outbound, text, relayed, record, settings,
                  input[r], requestResults[r], responseResults[r], sent[r], modifiedBody[r]>>
  BY <1>1 DEF data, Kept, settings
<1>10. responseResults[r] = <<>>
  BY <1>1 DEF Trail, ResponseTrail, BeforeScreening, BeforeSending, Entering
<1>11. InputTrail(r)'
  <2>1. UNCHANGED <<exchange.path, exchange.json, input[r].path, input[r].content>>
    BY <1>9
  <2>2. /\ (input[r].path = exchange.path)'
        /\ (input[r].content = ContentOf(exchange.path, exchange.json))'
        /\ (requestResults[r] = <<>> => ~modifiedBody[r].some)'
    BY <1>9 DEF DataTrail, InputTrail
  <2>3. (body[r] = 0 <=> exchange.json = Absent)'
    BY <1>1, <1>3, <2>1
  <2>4. (exchange.json \in Value)'
    BY <1>6, <2>1
  <2>5. (HasEnvelope(r) => ValidBody(exchange.path, CurrentJson(r)))'
    <3>1. HasEnvelope(r)' <=> HasEnvelope(r)
      BY <1>9 DEF HasEnvelope
    <3> QED
      BY <1>7, <1>8, <2>1, <3>1
  <2> QED
    BY <2>2, <2>3, <2>4, <2>5 DEF InputTrail
<1>12. RequestDataTrail(r)' /\ ResponseDataTrail(r)'
  BY <1>4, <1>9, <1>10 DEF RequestDataTrail, ResponseDataTrail, Ran
<1>13. SentTrail(r)'
  BY <1>4, <1>9 DEF SentTrail
<1>14. RecordTrail(r)' /\ RelayedTrail(r)'
  BY <1>1, <1>9 DEF DataTrail, RecordTrail, RelayedTrail
<1> QED
  BY <1>11, <1>12, <1>13, <1>14 DEF DataTrail

LEMMA DataTrail_Onward ==
    ASSUME TypeOK, NEW r \in Requests, DataTrail(r), UNCHANGED data,
           \/ RequestCleared(r) \/ MissingKey(r) \/ UpstreamAnswers(r) \/ SendFails(r)
           \/ CollectChunk(r) \/ CollectFails(r) \/ ResponseCleared(r) \/ Count(r) \/ Disconnect(r)
    PROVE  DataTrail(r)'
<1>1. /\ phase[r] \notin Departed
      /\ UNCHANGED Kept(r) /\ UNCHANGED body[r]
      /\ phase'[r] \in Within => phase[r] \in Within
      /\ phase'[r] # "validating"
  <2>1. CASE RequestCleared(r)
    BY <2>1 DEF RequestCleared, Goto, Kept, reading, requestCtx, responseCtx, TypeOK, Within, Departed
  <2>2. CASE MissingKey(r)
    BY <2>2 DEF MissingKey, Fail, Finish, Goto, Kept, reading, requestCtx, responseCtx, TypeOK,
                Within, Departed
  <2>3. CASE UpstreamAnswers(r)
    BY <2>3 DEF UpstreamAnswers, Goto, Kept, reading, requestCtx, responseCtx, TypeOK, Within, Departed
  <2>4. CASE SendFails(r)
    BY <2>4 DEF SendFails, Fail, Finish, Goto, Kept, reading, requestCtx, responseCtx, TypeOK,
                Within, Departed
  <2>5. CASE CollectChunk(r)
    BY <2>5 DEF CollectChunk, Fail, Finish, Goto, Kept, reading, requestCtx, responseCtx, TypeOK,
                Within, Departed
  <2>6. CASE CollectFails(r)
    BY <2>6 DEF CollectFails, Fail, Finish, Goto, Kept, reading, requestCtx, responseCtx, TypeOK,
                Within, Departed
  <2>7. CASE ResponseCleared(r)
    BY <2>7 DEF ResponseCleared, Finish, Goto, Kept, reading, requestCtx, responseCtx, TypeOK,
                Within, Departed
  <2>8. CASE Count(r)
    <3>1. phase[r] = "counting" /\ phase'[r] \in {"auditing", "answering"}
      BY <2>8 DEF Count, Goto, TypeOK
    <3> QED
      BY <2>8, <3>1 DEF Count, Kept, reading, requestCtx, responseCtx, Within, Departed
  <2>9. CASE Disconnect(r)
    BY <2>9 DEF Disconnect, Waiting, Goto, Kept, reading, requestCtx, responseCtx, TypeOK,
                Within, Departed
  <2> QED
    BY <2>1, <2>2, <2>3, <2>4, <2>5, <2>6, <2>7, <2>8, <2>9
<1>2. Admitted(r)' => Admitted(r)
  BY <1>1 DEF Admitted, Kept
<1>3. phase'[r] \in {"validating"} \cup Within => (body'[r] = 0 <=> exchange.json = Absent)
  BY <1>1 DEF DataTrail, InputTrail
<1> QED
  BY <1>1, <1>2, <1>3, DataTrail_Quiet

LEMMA DataTrail_Stutter ==
    ASSUME NEW r \in Requests, DataTrail(r), UNCHANGED exchangeVars
    PROVE  DataTrail(r)'
<1>1. UNCHANGED <<vars, exchange, rewritten, outbound, text, relayed, record, settings>>
  BY DEF exchangeVars, data, settings
<1>2. UNCHANGED <<phase, body, input, requestResults, modifiedBody, responseResults, sent, ending>>
  BY <1>1 DEF vars
<1>3. /\ CurrentJson(r)' = CurrentJson(r)
      /\ \A event : RequestPreview(r, event)' = RequestPreview(r, event)
      /\ \A event : ResponsePreview(event)' = ResponsePreview(event)
      /\ ResponseHeaders(r)' = ResponseHeaders(r)
  BY <1>1, <1>2, ViewSame
<1>4. InputTrail(r)'
  BY <1>1, <1>2, <1>3 DEF DataTrail, InputTrail, HasEnvelope, Admitted
<1>5. RequestDataTrail(r)' /\ ResponseDataTrail(r)'
  BY <1>1, <1>2, <1>3 DEF DataTrail, RequestDataTrail, ResponseDataTrail, Ran
<1>6. SentTrail(r)'
  BY <1>1, <1>2, <1>3 DEF DataTrail, SentTrail
<1>7. RecordTrail(r)'
  <2> SUFFICES ASSUME record # Nothing PROVE RecordTrail(r)'
    BY <1>1 DEF RecordTrail
  <2>1. PICK event \in {"allowed", "blocked_request", "blocked_response"} :
           /\ record.request = RequestPreview(r, event)
           /\ record.response = ResponsePreview(event)
           /\ event # "blocked_request" => sent[r].calls > 0
           /\ event = "allowed" => Cleared(ResponseChain, responseResults[r])
           /\ ending[r].event = event
    BY DEF DataTrail, RecordTrail
  <2>2. phase[r] \in {"answering", "answered", "dropped"}
    BY DEF DataTrail, RecordTrail
  <2> QED
    BY <1>1, <1>2, <1>3, <2>1, <2>2 DEF RecordTrail
<1>8. RelayedTrail(r)'
  BY <1>1, <1>2, <1>3 DEF DataTrail, RelayedTrail
<1> QED
  BY <1>4, <1>5, <1>6, <1>7, <1>8 DEF DataTrail

(* A detector of the request: its verdict is one the current body calls    *)
(* for, and leaves the body it is said to leave.                           *)
InspectedBy(r, d, verdict) ==
    /\ d = NextDetector(RequestChain, requestResults[r])
    /\ Len(requestResults[r]) < Len(RequestChain)
    /\ requestResults'[r] = Append(requestResults[r], verdict)
    /\ verdict \in RequestVerdicts(d, CurrentJson(r))
    /\ CurrentJson(r) \in Value
    /\ CurrentJson(r)' = After(d, verdict, CurrentJson(r))
    /\ rewritten' \in {rewritten, CurrentJson(r)'}
    /\ phase'[r] = IF verdict = "block" THEN "counting" ELSE "inspecting"

LEMMA InspectedSo ==
    ASSUME TypeOK, DataTypes, NEW r \in Requests, DataTrail(r), InspectJson(r)
    PROVE  \E d \in Detectors \ {"output_sanitizer"}, verdict \in Results : InspectedBy(r, d, verdict)
<1> DEFINE results == requestResults[r]
           d == NextDetector(RequestChain, results)
<1>1. /\ phase[r] = "inspecting" /\ Len(results) < Len(RequestChain)
      /\ InspectRequest(r)
  BY DEF InspectJson, InspectRequest
<1>2. results \in Seq(Results) /\ d \in Detectors
  BY <1>1, ChainType, NextDetectorType DEF TypeOK
<1>3. d # "output_sanitizer"
  <2>1. Len(results) + 1 \in 1..Len(RequestChain) /\ d = RequestChain[Len(results) + 1]
    BY <1>1, <1>2, ChainType DEF NextDetector
  <2>2. Place[d] <= Place["tool_call"]
    BY <2>1, ChainOrder DEF Built
  <2> QED
    BY <2>2 DEF Place
<1>4. PICK finding \in Findings[d] \cup {"pass"} :
         /\ requestResults' = [requestResults EXCEPT ![r] = Append(@, finding)]
         /\ IF finding \in Rewriting THEN RewriteRequest(r, d) ELSE UNCHANGED modifiedBody
         /\ IF finding = "block" THEN BlockRequest(r, d) ELSE UNCHANGED <<phase, ending>>
  BY <1>1 DEF InspectRequest
<1> HIDE DEF d, results
<1>5. finding \in Results
  BY <1>2, <1>4, FindingsAreResults DEF Results
<1>6. requestResults'[r] = Append(results, finding)
  BY <1>4 DEF results, TypeOK
<1>7. Last(requestResults'[r]) = finding
  <2>1. Len(Append(results, finding)) = Len(results) + 1
        /\ Append(results, finding)[Len(results) + 1] = finding
    BY <1>2, <1>5
  <2> QED
    BY <1>6, <2>1 DEF Last
<1>8. CurrentJson(r) \in Value
  BY <1>1 DEF DataTypes, DataTrail, InputTrail, Admitted, Within, CurrentJson
<1>9. /\ finding \in RequestVerdicts(d, CurrentJson(r))
      /\ rewritten' = IF finding \in Rewriting THEN RewrittenBy(d, CurrentJson(r)) ELSE rewritten
      /\ exchange' = exchange
  BY <1>7 DEF InspectJson, d, results
<1>10. /\ CurrentJson(r)' = After(d, finding, CurrentJson(r))
       /\ rewritten' \in {rewritten, CurrentJson(r)'}
  <2>1. CASE finding \in Rewriting
    <3>1. modifiedBody'[r].some
      BY <1>4, <2>1 DEF RewriteRequest, TypeOK
    <3> QED
      BY <1>9, <2>1, <3>1 DEF CurrentJson, After
  <2>2. CASE finding \notin Rewriting
    BY <1>4, <1>9, <2>2 DEF CurrentJson, After
  <2> QED
    BY <2>1, <2>2
<1>11. phase'[r] = IF finding = "block" THEN "counting" ELSE "inspecting"
  BY <1>1, <1>4 DEF BlockRequest, Finish, Goto, TypeOK
<1>12. InspectedBy(r, d, finding)
  BY <1>1, <1>6, <1>8, <1>9, <1>10, <1>11 DEF InspectedBy, d, results
<1> QED
  BY <1>2, <1>3, <1>5, <1>12

LEMMA DataTrail_InspectJson ==
    ASSUME TypeOK, DataTypes, NEW r \in Requests, Trail(r), DataTrail(r), InspectJson(r)
    PROVE  DataTypes' /\ DataTrail(r)'
<1> DEFINE results == requestResults[r]
           json == CurrentJson(r)
<1>1. PICK d \in Detectors \ {"output_sanitizer"}, verdict \in Results : InspectedBy(r, d, verdict)
  BY InspectedSo
<1>2. /\ phase[r] = "inspecting"
      /\ UNCHANGED <<input[r], body[r], responseResults[r], sent[r], exchange, outbound, text,
                     relayed, record, settings>>
  BY DEF InspectJson, InspectRequest, reading, responseCtx, settings
<1>3. results \in Seq(Results) /\ json \in Value /\ json' = After(d, verdict, json)
      /\ requestResults'[r] = Append(results, verdict)
      /\ verdict \in RequestVerdicts(d, json)
      /\ phase'[r] = IF verdict = "block" THEN "counting" ELSE "inspecting"
  BY <1>1 DEF InspectedBy, TypeOK
<1>4. exchange \in Exchanges
  BY DEF DataTypes
<1>5. json' \in Value /\ \A path : ValidBody(path, json) => ValidBody(path, json')
  <2> HIDE DEF json
  <2> QED
    BY <1>3, <1>4, AfterType
<1>6. DataTypes'
  <2>1. rewritten' \in Value
    BY <1>1, <1>5 DEF DataTypes, InspectedBy
  <2> QED
    BY <1>2, <2>1 DEF DataTypes
<1>7. Admitted(r)
  BY <1>2 DEF Admitted, Within
<1>8. sent[r].calls = 0 /\ responseResults[r] = <<>> /\ ~Blocked(results)
  BY <1>2 DEF Trail, SendingTrail, ResponseTrail, RequestTrail, BeforeScreening, BeforeSending
<1>9. record = Nothing /\ relayed = Nothing
  BY <1>2 DEF DataTrail, RecordTrail, RelayedTrail
<1>10. InputTrail(r)'
  <2>1. UNCHANGED <<exchange.path, exchange.json, input[r].path, input[r].content>>
    BY <1>2
  <2>2. /\ (input[r].path = exchange.path)'
        /\ (input[r].content = ContentOf(exchange.path, exchange.json))'
    BY <1>2 DEF DataTrail, InputTrail
  <2>3. (requestResults[r] = <<>> => ~modifiedBody[r].some)'
    <3>1. Append(results, verdict) # <<>>
      BY <1>3
    <3> QED
      BY <1>3, <3>1
  <2>4. (body[r] = 0 <=> exchange.json = Absent)'
    BY <1>2, <2>1 DEF DataTrail, InputTrail, Within
  <2>5. (exchange.json \in Value)'
    BY <1>7, <2>1 DEF DataTrail, InputTrail
  <2>6. (HasEnvelope(r) => ValidBody(exchange.path, CurrentJson(r)))'
    <3>1. HasEnvelope(r)' <=> HasEnvelope(r)
      BY <1>2 DEF HasEnvelope
    <3> QED
      BY <1>5, <1>7, <2>1, <3>1 DEF DataTrail, InputTrail
  <2> QED
    BY <2>2, <2>3, <2>4, <2>5, <2>6 DEF InputTrail
<1>11. RequestDataTrail(r)'
  <2> SUFFICES ASSUME ~Blocked(requestResults[r])' PROVE RequestDataTrail(r)'
    BY DEF RequestDataTrail
  <2>1. verdict # "block"
    BY <1>3, BlockedAppend
  <2>2. Ascending(RequestChain) /\ Len(results) < Len(RequestChain)
        /\ d = NextDetector(RequestChain, results)
    BY <1>1, ChainOrder DEF Built, InspectedBy
  <2>3. /\ \A x : Ran(x, RequestChain, requestResults[r])'
                    <=> Ran(x, RequestChain, results) \/ x = d
        /\ \A x : Ran(x, RequestChain, results) => x \in Detectors /\ Place[x] < Place[d]
    <3> HIDE DEF results
    <3>1. /\ \A x : Ran(x, RequestChain, Append(results, verdict))
                       <=> Ran(x, RequestChain, results) \/ x = NextDetector(RequestChain, results)
          /\ \A x : Ran(x, RequestChain, results) =>
                x \in Detectors /\ Place[x] < Place[NextDetector(RequestChain, results)]
      BY <1>3, <2>2, RanAppend
    <3>2. \A x : Ran(x, RequestChain, requestResults[r])' <=> Ran(x, RequestChain, Append(results, verdict))
      BY <1>3 DEF Ran
    <3> QED
      BY <2>2, <3>1, <3>2
  <2> HIDE DEF json, results
  <2>4. ASSUME Ran("prompt_injection", RequestChain, requestResults[r])', InjectionApart,
               settings.injection # "log_only"
        PROVE  ~HasInjection(json')
    <3>1. d = "prompt_injection" \/ (Place["prompt_injection"] < Place[d] /\ ~HasInjection(json))
      BY <1>8, <2>3, <2>4 DEF DataTrail, RequestDataTrail, json, results
    <3> QED
      BY <1>3, <1>4, <2>1, <2>4, <3>1, AfterInjection
  <2>5. ASSUME Ran("dlp", RequestChain, requestResults[r])', RulesApart(settings.rules)
        PROVE  Holds(StringsOf[json'], settings.rules)
    <3>1. d = "dlp" \/ (Place["dlp"] < Place[d] /\ Holds(StringsOf[json], settings.rules))
      BY <1>8, <2>3, <2>5 DEF DataTrail, RequestDataTrail, json, results
    <3> QED
      BY <1>3, <1>4, <2>1, <2>5, <3>1, AfterDlp
  <2>6. ASSUME Ran("system_prompt", RequestChain, requestResults[r])', ~IsBlank(Prompt),
               HasPromptSurface(json')
        PROVE  HasRequiredPrompt(json')
    <3>1. \/ d = "system_prompt"
          \/ /\ Place["system_prompt"] < Place[d]
             /\ HasPromptSurface(json) => HasRequiredPrompt(json)
      BY <1>8, <2>3, <2>6 DEF DataTrail, RequestDataTrail, json, results
    <3> QED
      BY <1>3, <1>4, <2>1, <2>6, <3>1, AfterPrompt
  <2>7. settings' = settings
    BY <1>2
  <2> QED
    BY <2>4, <2>5, <2>6, <2>7 DEF RequestDataTrail, json
<1>12. SentTrail(r)' /\ ResponseDataTrail(r)'
  BY <1>2, <1>8 DEF SentTrail, ResponseDataTrail, Ran
<1>13. RecordTrail(r)' /\ RelayedTrail(r)'
  BY <1>2, <1>9 DEF RecordTrail, RelayedTrail
<1> QED
  BY <1>6, <1>10, <1>11, <1>12, <1>13 DEF DataTrail

LEMMA DataTrail_SendJson ==
    ASSUME TypeOK, NEW r \in Requests, Trail(r), DataTrail(r), SendJson(r)
    PROVE  DataTrail(r)'
<1>1. /\ phase[r] = "forwarding" /\ phase'[r] = "awaiting"
      /\ UNCHANGED <<input[r], body[r], requestResults[r], modifiedBody[r], responseResults[r],
                     exchange, rewritten, text, relayed, record, settings>>
      /\ outbound' = [some |-> TRUE, json |-> CurrentJson(r),
                      headers |-> OutboundHeaders(exchange.headers, keySet)]
  BY DEF SendJson, Send, Goto, TypeOK, reading, requestCtx, responseCtx, settings
<1>2. CurrentJson(r)' = CurrentJson(r)
  BY <1>1, CurrentSame
<1>3. Admitted(r)
  BY <1>1 DEF Admitted, Within
<1>4. record = Nothing /\ relayed = Nothing
  BY <1>1 DEF DataTrail, RecordTrail, RelayedTrail
<1>5. responseResults[r] = <<>>
  BY <1>1 DEF Trail, ResponseTrail, BeforeScreening, BeforeSending
<1>6. InputTrail(r)'
  <2>1. body[r] = 0 <=> exchange.json = Absent
    BY <1>1 DEF DataTrail, InputTrail, Within
  <2>2. exchange.json \in Value /\ (HasEnvelope(r) => ValidBody(exchange.path, CurrentJson(r)))
    BY <1>3 DEF DataTrail, InputTrail
  <2>3. HasEnvelope(r)' <=> HasEnvelope(r)
    BY <1>1 DEF HasEnvelope
  <2> QED
    BY <1>1, <1>2, <2>1, <2>2, <2>3 DEF DataTrail, InputTrail
<1>7. RequestDataTrail(r)'
  BY <1>1, <1>2 DEF DataTrail, RequestDataTrail, Ran
<1>8. SentTrail(r)'
  <2>1. keySet \in BOOLEAN
    BY DEF TypeOK
  <2>2. outbound'.some /\ outbound'.json = CurrentJson(r) /\ outbound'.headers = OutboundHeaders(exchange.headers, keySet)
    BY <1>1
  <2>3. (\E key \in BOOLEAN : outbound.headers = OutboundHeaders(exchange.headers, key))'
    BY <1>1, <2>1, <2>2
  <2> QED
    BY <1>2, <2>2, <2>3 DEF SentTrail
<1>9. ResponseDataTrail(r)'
  BY <1>1, <1>5 DEF ResponseDataTrail, Ran
<1>10. RecordTrail(r)' /\ RelayedTrail(r)'
  BY <1>1, <1>4 DEF RecordTrail, RelayedTrail
<1> QED
  BY <1>6, <1>7, <1>8, <1>9, <1>10 DEF DataTrail

(* Collecting the response, or inspecting its text, touches no other data. *)
LEMMA DataTrail_Text ==
    ASSUME TypeOK, DataTypes, NEW r \in Requests, DataTrail(r),
           phase[r] \in {"collecting", "screening"},
           phase'[r] \in {"screening", "counting"},
           UNCHANGED <<input[r], body[r], requestResults[r], modifiedBody[r], sent[r],
                       exchange, rewritten, outbound, relayed, record>>,
           text' \in Text, ResponseDataTrail(r)'
    PROVE  DataTypes' /\ DataTrail(r)'
<1>1. CurrentJson(r)' = CurrentJson(r) /\ settings' = settings
  BY CurrentSame DEF settings
<1>2. Admitted(r)
  BY DEF Admitted, Within
<1>3. record = Nothing /\ relayed = Nothing
  BY DEF DataTrail, RecordTrail, RelayedTrail
<1>4. InputTrail(r)'
  <2>1. body[r] = 0 <=> exchange.json = Absent
    BY DEF DataTrail, InputTrail, Within
  <2>2. exchange.json \in Value /\ (HasEnvelope(r) => ValidBody(exchange.path, CurrentJson(r)))
    BY <1>2 DEF DataTrail, InputTrail
  <2>3. HasEnvelope(r)' <=> HasEnvelope(r)
    BY DEF HasEnvelope
  <2> QED
    BY <1>1, <2>1, <2>2, <2>3 DEF DataTrail, InputTrail
<1>5. RequestDataTrail(r)'
  BY <1>1 DEF DataTrail, RequestDataTrail, Ran
<1>6. SentTrail(r)'
  BY <1>1 DEF DataTrail, SentTrail
<1>7. RecordTrail(r)' /\ RelayedTrail(r)'
  BY <1>3 DEF RecordTrail, RelayedTrail
<1>8. DataTypes'
  BY DEF DataTypes
<1> QED
  BY <1>4, <1>5, <1>6, <1>7, <1>8 DEF DataTrail

LEMMA DataTrail_CollectText ==
    ASSUME TypeOK, DataTypes, NEW r \in Requests, Trail(r), DataTrail(r), CollectText(r)
    PROVE  DataTypes' /\ DataTrail(r)'
<1>1. /\ phase[r] = "collecting" /\ phase'[r] = "screening"
      /\ UNCHANGED <<input[r], body[r], requestResults[r], modifiedBody[r], responseResults[r], sent[r],
                     exchange, rewritten, outbound, relayed, record>>
      /\ text' = exchange.answer.text
  BY DEF CollectText, EndOfResponse, Goto, TypeOK, reading, requestCtx, responseCtx
<1>2. text' \in Text
  BY <1>1, SettingsType DEF DataTypes
<1>3. responseResults[r] = <<>>
  BY <1>1 DEF Trail, ResponseTrail, BeforeScreening
<1>4. ResponseDataTrail(r)'
  BY <1>1, <1>3 DEF ResponseDataTrail, Ran
<1> QED
  BY <1>1, <1>2, <1>4, DataTrail_Text

(* A detector of the response: what dlp left is free, and stays free of    *)
(* matches although the sanitizer rewrites it again.                       *)
LEMMA DataTrail_InspectText ==
    ASSUME TypeOK, DataTypes, NEW r \in Requests, Trail(r), DataTrail(r), InspectText(r)
    PROVE  DataTypes' /\ DataTrail(r)'
<1> DEFINE results == responseResults[r]
           d == NextDetector(ResponseChain, results)
           verdict == ResponseVerdict(r, d)
           rules == IF d = "dlp" THEN settings.rules ELSE SanitizerRules
<1>1. /\ phase[r] = "screening" /\ Len(results) < Len(ResponseChain)
      /\ InspectResponse(r)
      /\ UNCHANGED <<input[r], body[r], requestResults[r], modifiedBody[r], sent[r],
                     exchange, rewritten, outbound, relayed, record>>
  BY DEF InspectText, InspectResponse, reading, requestCtx
<1>2. results \in Seq(Results) /\ d \in Detectors /\ exchange \in Exchanges /\ text \in Text
  BY <1>1, ChainType, NextDetectorType DEF TypeOK, DataTypes
<1>3. d \in {"dlp", "tool_call", "output_sanitizer"}
  <2>1. Len(results) + 1 \in 1..Len(ResponseChain) /\ d = ResponseChain[Len(results) + 1]
    BY <1>1, <1>2, ChainType DEF NextDetector
  <2> QED
    BY <2>1, ChainOrder DEF Built
<1>4. settings.rules \in Rules /\ settings.sanitizer \in Actions
  BY <1>2, SettingsType
<1>5. SanitizerRules \in Rules
  BY SanitizerFacts
<1>6. PICK finding \in Findings[d] :
         /\ responseResults' = [responseResults EXCEPT ![r] = Append(@, finding)]
         /\ IF finding = "block"
            THEN Finish(r, "response_blocks", "blocked_response", BlockStatus(d))
            ELSE UNCHANGED <<phase, ending>>
  BY <1>1 DEF InspectResponse
<1>7. finding \in Results
  BY <1>2, <1>6, FindingsAreResults
<1>8. responseResults'[r] = Append(results, finding)
  BY <1>6 DEF TypeOK
<1>9. phase'[r] \in {"screening", "counting"}
  BY <1>1, <1>6 DEF Finish, Goto, TypeOK
<1>10. Last(responseResults'[r]) = finding
  <2>1. Len(Append(results, finding)) = Len(results) + 1
        /\ Append(results, finding)[Len(results) + 1] = finding
    BY <1>2, <1>7
  <2> QED
    BY <1>8, <2>1 DEF Last
<1>11. finding = verdict /\ text' = IF verdict \in Rewriting THEN RedactText(rules, text) ELSE text
  BY <1>10 DEF InspectText
<1>12. rules \in Rules
  BY <1>4, <1>5
<1> HIDE DEF rules, d, results
<1>13. text' \in Text
  BY <1>2, <1>11, <1>12, RedactTextFacts
<1>14. ResponseDataTrail(r)'
  <2> SUFFICES ASSUME ~Blocked(responseResults[r])', Ran("dlp", ResponseChain, responseResults[r])',
                      RulesApart(settings.rules)', SanitizerApart(settings.rules)'
               PROVE  Free(settings.rules, text')
    BY <1>1 DEF ResponseDataTrail, settings
  <2>1. verdict # "block"
    BY <1>2, <1>7, <1>8, <1>11, BlockedAppend
  <2>2. /\ RulesApart(settings.rules) /\ SanitizerApart(settings.rules)
        /\ RulesUnmade(settings.rules, settings.rules) /\ RulesUnmade(settings.rules, SanitizerRules)
    <3>1. RulesApart(settings.rules) /\ SanitizerApart(settings.rules)
      BY <1>1 DEF settings
    <3> QED
      BY <1>4, <3>1, ApartFacts
  <2>3. CASE d = "dlp"
    <3>1. verdict = DlpFinding(settings.rules, text) /\ rules = settings.rules
      BY <2>3 DEF ResponseVerdict, rules
    <3>2. /\ verdict \in {"block", "redact", "log_only", "pass"} /\ Unblocked(settings.rules, text)
          /\ verdict \in {"log_only", "pass"} => Free(settings.rules, text)
      BY <1>4, <2>1, <3>1, FindingFacts
    <3>3. CASE verdict \in Rewriting
      BY <1>2, <1>4, <1>11, <2>2, <3>1, <3>2, <3>3, RedactTextLeavesNone
    <3>4. CASE verdict \notin Rewriting
      BY <1>11, <2>1, <3>2, <3>4 DEF Rewriting
    <3> QED
      BY <3>3, <3>4
  <2>4. CASE d # "dlp"
    <3>1. Ran("dlp", ResponseChain, results)
      <4>1. Ascending(ResponseChain)
        BY ChainOrder DEF Built
      <4>2. Ran("dlp", ResponseChain, Append(results, finding))
        BY <1>8 DEF Ran
      <4> QED
        BY <1>1, <1>2, <1>7, <2>4, <4>1, <4>2, RanAppend DEF d
    <3>2. ~Blocked(results)
      BY <1>1 DEF Trail, ResponseTrail, results
    <3>3. Free(settings.rules, text)
      BY <2>2, <3>1, <3>2 DEF DataTrail, ResponseDataTrail, results
    <3>4. rules = SanitizerRules
      BY <2>4 DEF rules
    <3> QED
      BY <1>2, <1>4, <1>5, <1>11, <2>2, <3>3, <3>4, RedactTextLeavesNone
  <2> QED
    BY <2>3, <2>4
<1> QED
  BY <1>1, <1>9, <1>13, <1>14, DataTrail_Text

(* What the last two steps keep, whatever they add to record and relayed.  *)
LEMMA DataTrail_Ending ==
    ASSUME NEW r \in Requests, DataTrail(r), phase'[r] \in Departed,
           UNCHANGED <<Kept(r), body[r], exchange, rewritten, outbound, text>>,
           RecordTrail(r)', RelayedTrail(r)'
    PROVE  DataTrail(r)'
<1>1. CurrentJson(r)' = CurrentJson(r) /\ settings' = settings
  BY CurrentSame DEF settings, Kept
<1>2. UNCHANGED <<input[r], requestResults[r], modifiedBody[r], responseResults[r], sent[r]>>
  BY DEF Kept
<1>3. Admitted(r)' => Admitted(r)
  BY <1>2 DEF Admitted, Within, Departed
<1>4. phase'[r] \notin {"validating"} \cup Within
  BY DEF Within, Departed
<1>5. HasEnvelope(r)' <=> HasEnvelope(r)
  BY <1>2 DEF HasEnvelope
<1>6. InputTrail(r)'
  BY <1>1, <1>2, <1>3, <1>4, <1>5 DEF DataTrail, InputTrail
<1>7. RequestDataTrail(r)' /\ ResponseDataTrail(r)'
  BY <1>1, <1>2 DEF DataTrail, RequestDataTrail, ResponseDataTrail, Ran
<1>8. SentTrail(r)'
  BY <1>1, <1>2 DEF DataTrail, SentTrail
<1> QED
  BY <1>6, <1>7, <1>8 DEF DataTrail

LEMMA DataTrail_RecordAudit ==
    ASSUME TypeOK, NEW r \in Requests, Trail(r), Account(r), DataTrail(r), RecordAudit(r)
    PROVE  DataTrail(r)'
<1>1. /\ phase[r] = "auditing" /\ phase'[r] = "answering"
      /\ UNCHANGED <<Kept(r), body[r], exchange, rewritten, outbound, text, relayed, ending>>
      /\ record' = AuditRecord(r, ending[r].event)
  BY DEF RecordAudit, Audit, Goto, TypeOK, reading, requestCtx, responseCtx, Kept
<1>2. ending[r].event # "none" /\ EndedOneWay(r)
  BY <1>1 DEF Trail, EndingTrail, NeedsAudit, Account, AccountTrail, Ended
<1>3. PICK event \in {"allowed", "blocked_request", "blocked_response"} :
         /\ ending[r].event = event
         /\ event # "blocked_request" => sent[r].calls > 0
         /\ event = "allowed" => Cleared(ResponseChain, responseResults[r])
  BY <1>2 DEF EndedOneWay, Accepted, RequestBlocked, ResponseBlocked, Invalid, Failed, Trail, EndingTrail
<1>4. record'.request = RequestPreview(r, event) /\ record'.response = ResponsePreview(event)
  BY <1>1, <1>3 DEF AuditRecord
<1>5. UNCHANGED <<modifiedBody[r], responseResults[r], sent[r]>>
  BY <1>1 DEF Kept
<1>6. /\ \A e : RequestPreview(r, e)' = RequestPreview(r, e)
      /\ \A e : ResponsePreview(e)' = ResponsePreview(e)
  BY <1>1, <1>5, ViewSame
<1>7. RecordTrail(r)'
  BY <1>1, <1>3, <1>4, <1>5, <1>6 DEF RecordTrail
<1>8. RelayedTrail(r)'
  BY <1>1 DEF DataTrail, RelayedTrail
<1> QED
  BY <1>1, <1>7, <1>8, DataTrail_Ending DEF Departed

LEMMA DataTrail_RelayText ==
    ASSUME TypeOK, NEW r \in Requests, Trail(r), Account(r), DataTrail(r), RelayText(r)
    PROVE  DataTrail(r)'
<1>1. /\ phase[r] = "answering" /\ phase'[r] = "answered"
      /\ UNCHANGED <<Kept(r), body[r], exchange, rewritten, outbound, text, record, ending>>
      /\ relayed' = IF ending[r].status = Relayed
                    THEN [some |-> TRUE, headers |-> ResponseHeaders(r), text |-> text]
                    ELSE relayed
  BY DEF RelayText, Answer, Goto, TypeOK, reading, requestCtx, responseCtx, Kept
<1>2. UNCHANGED <<modifiedBody[r], responseResults[r], sent[r]>>
  BY <1>1 DEF Kept
<1>3. /\ \A e : RequestPreview(r, e)' = RequestPreview(r, e)
      /\ \A e : ResponsePreview(e)' = ResponsePreview(e)
      /\ ResponseHeaders(r)' = ResponseHeaders(r)
  BY <1>1, <1>2, ViewSame
<1>4. RecordTrail(r)'
  BY <1>1, <1>2, <1>3 DEF DataTrail, RecordTrail
<1>5. relayed = Nothing
  BY <1>1 DEF DataTrail, RelayedTrail
<1>6. RelayedTrail(r)'
  <2>1. CASE ending[r].status = Relayed
    <3>1. relayed' = [some |-> TRUE, headers |-> ResponseHeaders(r), text |-> text]
      BY <1>1, <2>1
    <3>2. relayed'.headers = ResponseHeaders(r)' /\ relayed'.text = text'
      BY <1>1, <1>3, <3>1
    <3>3. Cleared(ResponseChain, responseResults'[r])
      BY <1>2, <2>1 DEF Trail, EndingTrail
    <3>4. ending[r].event = "allowed"
      BY <1>1, <2>1 DEF Account, AccountTrail, Ended, EndedOneWay, Accepted, RequestBlocked,
                        ResponseBlocked, Invalid, Failed, Relayed
    <3>5. record # Nothing => record.response = ResponsePreview("allowed")
      BY <3>4 DEF DataTrail, RecordTrail
    <3> QED
      BY <1>1, <1>3, <3>2, <3>3, <3>5 DEF RelayedTrail
  <2>2. CASE ending[r].status # Relayed
    BY <1>1, <1>5, <2>2 DEF RelayedTrail
  <2> QED
    BY <2>1, <2>2
<1> QED
  BY <1>1, <1>4, <1>6, DataTrail_Ending DEF Departed

-----------------------------------------------------------------------------
(***************************************************************************)
(* All steps, and the invariant.                                           *)
(***************************************************************************)
(* Every step of the exchange is one of the handler, or leaves it alone.   *)
LEMMA HandlerStep ==
    ASSUME [ExchangeNext]_exchangeVars
    PROVE  [Next]_vars
<1>1. CASE UNCHANGED exchangeVars
  BY <1>1 DEF exchangeVars
<1>2. CASE Rest /\ UNCHANGED data
  BY <1>2 DEF Next
<1>3. ASSUME NEW r \in Requests,
             \/ InspectJson(r) \/ SendJson(r) \/ CollectText(r) \/ InspectText(r)
             \/ RecordAudit(r) \/ RelayText(r) \/ WithoutData(r)
      PROVE  Next
  <2>1. FromClient(r) \/ FromUpstream(r) \/ Handle(r)
    BY <1>3 DEF InspectJson, SendJson, CollectText, InspectText, RecordAudit, RelayText, WithoutData,
                EndOfJson, FromClient, FromUpstream, Handle
  <2> QED
    BY <2>1 DEF Next
<1> QED
  BY <1>1, <1>2, <1>3 DEF ExchangeNext

LEMMA ExchangeInv_Next ==
    ASSUME TypeOK, HandlerInv, AccountInv, ExchangeInv, [ExchangeNext]_exchangeVars
    PROVE  ExchangeInv'
<1>1. /\ DataTypes
      /\ \A r \in Requests : Trail(r) /\ Account(r) /\ DataTrail(r)
  BY DEF ExchangeInv, HandlerInv, Trail, AccountInv, Account
<1>2. UNCHANGED data => DataTypes'
  BY <1>1 DEF DataTypes, data
<1>3. CASE UNCHANGED exchangeVars \/ (Rest /\ UNCHANGED data)
  <2>1. UNCHANGED exchangeVars /\ UNCHANGED data
    BY <1>3 DEF exchangeVars, Rest
  <2> QED
    BY <1>1, <1>2, <2>1, DataTrail_Stutter DEF ExchangeInv
<1>4. ASSUME NEW r \in Requests,
             \/ InspectJson(r) \/ SendJson(r) \/ CollectText(r) \/ InspectText(r)
             \/ RecordAudit(r) \/ RelayText(r)
             \/ WithoutData(r) /\ UNCHANGED data
      PROVE  DataTypes' /\ DataTrail(r)'
  <2>1. CASE InspectJson(r)
    BY <1>1, <2>1, DataTrail_InspectJson
  <2>2. CASE SendJson(r)
    BY <1>1, <2>2, DataTrail_SendJson DEF DataTypes, SendJson
  <2>3. CASE CollectText(r)
    BY <1>1, <2>3, DataTrail_CollectText
  <2>4. CASE InspectText(r)
    BY <1>1, <2>4, DataTrail_InspectText
  <2>5. CASE RecordAudit(r)
    BY <1>1, <2>5, DataTrail_RecordAudit DEF DataTypes, RecordAudit
  <2>6. CASE RelayText(r)
    BY <1>1, <2>6, DataTrail_RelayText DEF DataTypes, RelayText
  <2>7. CASE WithoutData(r) /\ UNCHANGED data
    <3>1. CASE StartRequest(r) \/ ReadChunk(r) \/ PayloadError(r) \/ EndOfJson(r) \/ RejectInvalid(r)
      BY <1>1, <1>2, <2>7, <3>1, DataTrail_Entering
    <3>2. CASE StartInspection(r)
      BY <1>1, <1>2, <2>7, <3>2, DataTrail_StartInspection
    <3>3. CASE \/ RequestCleared(r) \/ MissingKey(r) \/ UpstreamAnswers(r) \/ SendFails(r)
               \/ CollectChunk(r) \/ CollectFails(r) \/ ResponseCleared(r) \/ Count(r) \/ Disconnect(r)
      BY <1>1, <1>2, <2>7, <3>3, DataTrail_Onward
    <3> QED
      BY <2>7, <3>1, <3>2, <3>3 DEF WithoutData
  <2> QED
    BY <1>4, <2>1, <2>2, <2>3, <2>4, <2>5, <2>6, <2>7
<1>5. ASSUME NEW r \in Requests, DataTypes' /\ DataTrail(r)' PROVE ExchangeInv'
  BY <1>5, OnlyRequest DEF ExchangeInv
<1> QED
  BY <1>3, <1>4, <1>5 DEF ExchangeNext

(* An exchange is an execution of the handler: whatever is proved of the   *)
(* handler, where a detector may return any verdict, holds of the verdicts *)
(* that the data of an exchange calls for (handler.rs:23-231).             *)
THEOREM HandlerRefined == ExchangeSpec => Init /\ [][Next]_vars
<1>1. ExchangeInit => Init
  BY DEF ExchangeInit
<1>2. [ExchangeNext]_exchangeVars => [Next]_vars
  BY HandlerStep
<1> QED
  BY <1>1, <1>2, PTL DEF ExchangeSpec

Known == TypeOK /\ HandlerInv /\ AccountInv /\ ExchangeInv

LEMMA ExchangeKnown == ExchangeSpec => []Known
<1>1. ExchangeInit => Known
  <2> SUFFICES ASSUME ExchangeInit PROVE Known
    OBVIOUS
  <2>1. Init
    BY DEF ExchangeInit
  <2>2. TypeOK /\ HandlerInv /\ AccountInv
    BY <2>1, TypeOK_Init, Trail_Init, AccountStart DEF HandlerInv, Trail
  <2>3. \A r \in Requests : DataTypes /\ DataTrail(r)
    BY DataTrail_Init
  <2>4. Requests # {}
    BY FS_EmptySet, ExchangeAssumption
  <2> QED
    BY <2>2, <2>3, <2>4 DEF Known, ExchangeInv
<1>2. Known /\ [ExchangeNext]_exchangeVars => Known'
  <2> SUFFICES ASSUME Known, [ExchangeNext]_exchangeVars PROVE Known'
    OBVIOUS
  <2>1. [Next]_vars
    BY HandlerStep
  <2>2. TypeOK' /\ HandlerInv'
    BY <2>1, Next_Invariant DEF Known
  <2>3. AccountInv'
    BY <2>1, <2>2, Next_Account DEF Known
  <2>4. ExchangeInv'
    BY ExchangeInv_Next DEF Known
  <2> QED
    BY <2>2, <2>3, <2>4 DEF Known
<1> QED
  BY <1>1, <1>2, PTL DEF ExchangeSpec

(* What the detectors that ran have left in the body and in the text       *)
(* stays, through whatever runs behind them, to where it is sent, relayed  *)
(* and recorded (handler.rs:66-110, 160-214).                              *)
THEOREM ExchangeInvariant == ExchangeSpec => []ExchangeInv
<1>1. Known => ExchangeInv
  BY DEF Known
<1> QED
  BY <1>1, ExchangeKnown, PTL

-----------------------------------------------------------------------------
(***************************************************************************)
(* What the upstream is given.                                             *)
(***************************************************************************)
(* What was sent is the body every enabled detector has seen.              *)
LEMMA SentBody ==
    ASSUME Known, NEW r \in Requests, sent[r].calls > 0
    PROVE  /\ outbound.json = CurrentJson(r)
           /\ ~Blocked(requestResults[r])
           /\ \A d \in Enabled \cap {"prompt_injection", "dlp", "system_prompt"} :
                 Ran(d, RequestChain, requestResults[r])
<1>1. outbound.json = CurrentJson(r)
  BY DEF Known, ExchangeInv, DataTrail, SentTrail
<1>2. Cleared(RequestChain, requestResults[r]) /\ requestResults[r] \in Seq(Results)
  BY DEF Known, HandlerInv, SendingTrail, MayPassOn, InspectedRequest, TypeOK
<1>3. ~Blocked(requestResults[r])
  BY <1>2 DEF Cleared
<1> DEFINE results == requestResults[r]
           members == {"rate_limiter", "token_budget", "prompt_injection", "dlp",
                       "system_prompt", "tool_call"}
<1>4. Built(RequestChain, members, "tool_call")
  BY ChainOrder
<1> HIDE DEF results
<1>5. \A d \in members \cap Enabled : Ran(d, RequestChain, results)
  <2> HIDE DEF members
  <2> QED
    BY <1>2, <1>4, ClearedRan DEF results
<1> QED
  BY <1>1, <1>3, <1>5 DEF results

LEMMA ForwardedSent ==
    ASSUME Forwarded PROVE \E r \in Requests : sent[r].calls > 0
BY DEF Forwarded

(* Every configuration whose prompt is not blank: what is forwarded and    *)
(* has a place for it carries the mandatory prompt.                        *)
THEOREM PromptReachesUpstream == ExchangeSpec => []PromptPresent
<1>1. Known => PromptPresent
  <2> SUFFICES ASSUME Known, Forwarded, "system_prompt" \in Enabled, ~IsBlank(Prompt),
                      HasPromptSurface(outbound.json)
               PROVE  HasRequiredPrompt(outbound.json)
    BY DEF PromptPresent
  <2>1. PICK r \in Requests : sent[r].calls > 0
    BY ForwardedSent
  <2>2. /\ outbound.json = CurrentJson(r) /\ ~Blocked(requestResults[r])
        /\ Ran("system_prompt", RequestChain, requestResults[r])
    BY <2>1, SentBody
  <2> QED
    BY <2>2 DEF Known, ExchangeInv, DataTrail, RequestDataTrail
<1> QED
  BY <1>1, ExchangeKnown, PTL

(* What strict validation accepted is still valid when it is sent.         *)
THEOREM SentBodiesValid == ExchangeSpec => []RewritingKeepsShape
<1>1. Known => RewritingKeepsShape
  <2> SUFFICES ASSUME Known, NEW r \in Requests, sent[r].calls > 0, HasEnvelope(r)
               PROVE  ValidBody(exchange.path, outbound.json)
    BY DEF RewritingKeepsShape
  <2>1. outbound.json = CurrentJson(r)
    BY SentBody
  <2> QED
    BY <2>1 DEF Known, ExchangeInv, DataTrail, InputTrail, Admitted
<1> QED
  BY <1>1, ExchangeKnown, PTL

(* No injection is forwarded by a detector that redacts or blocks, if the  *)
(* texts the firewall itself puts in are none (injection.rs:99-145).       *)
THEOREM NoInjectionForwarded ==
    ASSUME InjectionApart
    PROVE  ExchangeSpec => []InjectionRedacted
<1>1. Known => InjectionRedacted
  <2> SUFFICES ASSUME Known, Forwarded, "prompt_injection" \in Enabled,
                      settings.injection # "log_only"
               PROVE  ~HasInjection(outbound.json)
    BY DEF InjectionRedacted
  <2>1. PICK r \in Requests : sent[r].calls > 0
    BY ForwardedSent
  <2>2. /\ outbound.json = CurrentJson(r) /\ ~Blocked(requestResults[r])
        /\ Ran("prompt_injection", RequestChain, requestResults[r])
    BY <2>1, SentBody
  <2> QED
    BY <2>2 DEF Known, ExchangeInv, DataTrail, RequestDataTrail
<1> QED
  BY <1>1, ExchangeKnown, PTL

(* No client credential is forwarded, whatever headers a client sends, if  *)
(* no client knows the key of the service (upstream.rs:52-92).             *)
THEOREM NoCredentialForwarded ==
    ASSUME KeyUnknown
    PROVE  ExchangeSpec => []ClientCredentialsStay
<1>1. Known => ClientCredentialsStay
  <2> SUFFICES ASSUME Known, Forwarded,
                      NEW h \in DOMAIN outbound.headers \cap DOMAIN exchange.headers,
                      h \in {"authorization", "cookie", "proxy-authorization"}
               PROVE  outbound.headers[h] # exchange.headers[h]
    BY DEF ClientCredentialsStay
  <2>1. PICK r \in Requests : sent[r].calls > 0
    BY ForwardedSent
  <2>2. PICK key \in BOOLEAN : outbound.headers = OutboundHeaders(exchange.headers, key)
    BY <2>1 DEF Known, ExchangeInv, DataTrail, SentTrail
  <2>3. h = "authorization" /\ key
    BY <2>2 DEF OutboundHeaders, NotForwarded
  <2>4. outbound.headers[h] = "service key"
    BY <2>2, <2>3 DEF OutboundHeaders
  <2> QED
    BY <2>4 DEF Known, ExchangeInv, DataTypes, KeyUnknown
<1> QED
  BY <1>1, ExchangeKnown, PTL

(* Inserting the prompt keeps every prompt of the client: only InspectJson *)
(* records a result of a request detector, and only the system prompt      *)
(* detector modifies (system_prompt.rs:72-158).                            *)
LEMMA RecordsResult ==
    ASSUME NEW r \in Requests, [ExchangeNext]_exchangeVars, requestResults'[r] # requestResults[r]
    PROVE  InspectJson(r)
<1>1. CASE UNCHANGED exchangeVars \/ (Rest /\ UNCHANGED data)
  BY <1>1 DEF exchangeVars, Rest, vars
<1>2. ASSUME NEW q \in Requests,
             \/ InspectJson(q) \/ SendJson(q) \/ CollectText(q) \/ InspectText(q)
             \/ RecordAudit(q) \/ RelayText(q) \/ WithoutData(q)
      PROVE  InspectJson(q)
  <2>1. CASE SendJson(q) \/ CollectText(q) \/ InspectText(q) \/ RecordAudit(q) \/ RelayText(q)
    BY <2>1 DEF SendJson, Send, CollectText, EndOfResponse, InspectText, InspectResponse, RecordAudit,
                Audit, RelayText, Answer, requestCtx
  <2>2. CASE StartRequest(q) \/ ReadChunk(q) \/ PayloadError(q) \/ EndOfJson(q) \/ RejectInvalid(q)
             \/ StartInspection(q) \/ RequestCleared(q) \/ MissingKey(q)
    BY <2>2 DEF StartRequest, ReadChunk, PayloadError, EndOfJson, EndOfBody, RejectInvalid,
                StartInspection, RequestCleared, MissingKey, requestCtx
  <2>3. CASE UpstreamAnswers(q) \/ SendFails(q) \/ CollectChunk(q) \/ CollectFails(q)
             \/ ResponseCleared(q) \/ Count(q) \/ Disconnect(q)
    BY <2>3 DEF UpstreamAnswers, SendFails, CollectChunk, CollectFails, ResponseCleared, Count,
                Disconnect, requestCtx
  <2> QED
    BY <1>2, <2>1, <2>2, <2>3 DEF WithoutData
<1> QED
  BY <1>1, <1>2, OnlyRequest DEF ExchangeNext

THEOREM PromptsSurvive == ExchangeSpec => PromptsKept
<1>1. ASSUME Known, [ExchangeNext]_exchangeVars, NEW r \in Requests,
             Len(requestResults'[r]) > Len(requestResults[r]),
             Last(requestResults'[r]) = "modify",
             NEW i \in DOMAIN PromptStrings(CurrentJson(r))
      PROVE  LET old == PromptStrings(CurrentJson(r))[i]
                 new == PromptStrings(rewritten')
             IN  IsBlank(old) \/ \E j \in DOMAIN new : IsSuffix(old, new[j])
  <2>1. TypeOK /\ DataTypes /\ DataTrail(r)
    BY <1>1 DEF Known, ExchangeInv
  <2>2. requestResults'[r] # requestResults[r]
    <3>1. Len(requestResults[r]) \in Nat
      BY <2>1 DEF TypeOK
    <3> QED
      BY <1>1, <3>1
  <2>3. InspectJson(r)
    BY <1>1, <2>2, RecordsResult
  <2>4. PICK d \in Detectors \ {"output_sanitizer"}, verdict \in Results : InspectedBy(r, d, verdict)
    BY <2>1, <2>3, InspectedSo
  <2>5. verdict = "modify" /\ requestResults[r] \in Seq(Results)
    <3>1. requestResults[r] \in Seq(Results) /\ requestResults'[r] = Append(requestResults[r], verdict)
      BY <2>1, <2>4 DEF TypeOK, InspectedBy
    <3>2. /\ Len(Append(requestResults[r], verdict)) = Len(requestResults[r]) + 1
          /\ Append(requestResults[r], verdict)[Len(requestResults[r]) + 1] = verdict
      BY <3>1
    <3> QED
      BY <1>1, <3>1, <3>2 DEF Last
  <2>6. rewritten' = RewrittenBy(d, CurrentJson(r))
    BY <1>1, <2>3, <2>4 DEF InspectJson, InspectedBy, Rewriting
  <2>7. HasPromptSurface(CurrentJson(r)) /\ RewrittenBy(d, CurrentJson(r)) = InjectPrompt(CurrentJson(r))
    <3>1. verdict \in RequestVerdicts(d, CurrentJson(r)) /\ verdict \in Rewriting /\ exchange \in Exchanges
      BY <2>1, <2>4, <2>5 DEF InspectedBy, Rewriting, DataTypes
    <3> DEFINE json == CurrentJson(r)
    <3> HIDE DEF json
    <3> QED
      BY <2>5, <3>1, RewritingVerdicts DEF json
  <2>8. CurrentJson(r) \in Value
    BY <2>4 DEF InspectedBy
  <2> DEFINE json == CurrentJson(r)
  <2>9. json \in Value /\ HasPromptSurface(json) /\ rewritten' = InjectPrompt(json)
        /\ i \in DOMAIN PromptStrings(json)
    BY <1>1, <2>6, <2>7, <2>8
  <2> HIDE DEF json
  <2>10. \/ IsBlank(PromptStrings(json)[i])
         \/ \E j \in DOMAIN PromptStrings(InjectPrompt(json)) :
               IsSuffix(PromptStrings(json)[i], PromptStrings(InjectPrompt(json))[j])
    BY <2>9, PromptsStay
  <2> QED
    BY <2>9, <2>10 DEF json
<1>2. Known /\ [ExchangeNext]_exchangeVars =>
        [\A r \in Requests :
          (Len(requestResults'[r]) > Len(requestResults[r])
             /\ Last(requestResults'[r]) = "modify")
           => \A i \in DOMAIN PromptStrings(CurrentJson(r)) :
                 LET old == PromptStrings(CurrentJson(r))[i]
                     new == PromptStrings(rewritten')
                 IN  IsBlank(old) \/ \E j \in DOMAIN new : IsSuffix(old, new[j])]_exchangeVars
  BY <1>1
<1> QED
  BY <1>2, ExchangeKnown, PTL DEF ExchangeSpec, PromptsKept

-----------------------------------------------------------------------------
(***************************************************************************)
(* What the client is given, and what is recorded.                         *)
(***************************************************************************)
LEMMA RelayedText ==
    ASSUME Known, NEW r \in Requests, relayed.some
    PROVE  /\ relayed.headers = ResponseHeaders(r) /\ relayed.text = text
           /\ record.some => record.response = Preview(text, settings.bodyChars)
           /\ Cleared(ResponseChain, responseResults[r])
<1>1. relayed # Nothing
  BY DEF Nothing
<1> QED
  BY <1>1 DEF Known, ExchangeInv, DataTrail, RelayedTrail, Nothing, ResponsePreview

LEMMA ScreenedText ==
    ASSUME Known, NEW r \in Requests, Cleared(ResponseChain, responseResults[r]),
           "dlp" \in Enabled, RulesApart(settings.rules), SanitizerApart(settings.rules)
    PROVE  Free(settings.rules, text)
<1> DEFINE results == responseResults[r]
           members == {"dlp", "tool_call", "output_sanitizer"}
<1>1. results \in Seq(Results) /\ Cleared(ResponseChain, results) /\ ~Blocked(results)
  BY DEF Known, TypeOK, Cleared
<1>2. Built(ResponseChain, members, "output_sanitizer") /\ "dlp" \in members \cap Enabled
  BY ChainOrder
<1>3. Ran("dlp", ResponseChain, results)
  <2> HIDE DEF results, members
  <2> QED
    BY <1>1, <1>2, ClearedRan
<1> QED
  BY <1>1, <1>3 DEF Known, ExchangeInv, DataTrail, ResponseDataTrail

LEMMA OneRequest == \E r \in Requests : TRUE
BY FS_EmptySet, ExchangeAssumption

LEMMA HoldsRuleFree ==
    ASSUME NEW strings, Holds(strings, settings.rules)
    PROVE  RuleFree(strings)
BY DEF Holds, RuleFree, ToSet

(* No match of a rule that redacts or blocks is forwarded in a string, if  *)
(* what is written over a match of one rule makes none of another, and no  *)
(* rule acts on what the firewall itself puts in (dlp.rs:64-88).           *)
THEOREM NoMatchForwarded ==
    ASSUME \A e \in Exchanges : RulesApart(e.settings.rules)
    PROVE  ExchangeSpec => []DlpLeavesNoneSent
<1>1. Known => DlpLeavesNoneSent
  <2> SUFFICES ASSUME Known, "dlp" \in Enabled, Forwarded
               PROVE  RuleFree(StringsOf[outbound.json])
    BY DEF DlpLeavesNoneSent
  <2>1. RulesApart(settings.rules)
    BY DEF Known, ExchangeInv, DataTypes, settings
  <2>2. PICK r \in Requests : sent[r].calls > 0
    BY ForwardedSent
  <2>3. /\ outbound.json = CurrentJson(r) /\ ~Blocked(requestResults[r])
        /\ Ran("dlp", RequestChain, requestResults[r])
    BY <2>2, SentBody
  <2>4. Holds(StringsOf[outbound.json], settings.rules)
    BY <2>1, <2>3 DEF Known, ExchangeInv, DataTrail, RequestDataTrail
  <2> QED
    BY <2>4, HoldsRuleFree
<1> QED
  BY <1>1, ExchangeKnown, PTL

(* Nor is one relayed in the text of a response, if what the output        *)
(* sanitizer writes over its matches makes none either (dlp.rs:90-97, 140, *)
(* output_sanitizer.rs:39).                                                *)
THEOREM NoMatchPassedOn ==
    ASSUME \A e \in Exchanges : RulesApart(e.settings.rules) /\ SanitizerApart(e.settings.rules)
    PROVE  ExchangeSpec => []DlpLeavesNothing
<1>1. (Known /\ DlpLeavesNoneSent) => DlpLeavesNothing
  <2> SUFFICES ASSUME Known, "dlp" \in Enabled, relayed.some
               PROVE  Free(settings.rules, relayed.text)
    BY DEF DlpLeavesNothing
  <2>1. RulesApart(settings.rules) /\ SanitizerApart(settings.rules)
    BY DEF Known, ExchangeInv, DataTypes, settings
  <2>2. PICK r \in Requests : TRUE
    BY OneRequest
  <2> QED
    BY <2>1, <2>2, RelayedText, ScreenedText
<1>2. ExchangeSpec => []DlpLeavesNoneSent
  BY NoMatchForwarded
<1> QED
  BY <1>1, <1>2, ExchangeKnown, PTL

(* Every relayed response carries the headers of the firewall with its     *)
(* values, whatever the upstream sent (handler.rs:216-231, upstream.rs).   *)
THEOREM OwnHeadersWin == ExchangeSpec => []ResponseHeadersOwn
<1>1. Known => ResponseHeadersOwn
  <2> SUFFICES ASSUME Known, relayed.some
               PROVE  /\ relayed.headers["cache-control"] = "no-store"
                      /\ relayed.headers["x-content-type-options"] = "nosniff"
                      /\ relayed.headers["x-llm-firewall"] = "protected"
                      /\ relayed.headers["x-correlation-id"] = CorrelationId
    BY DEF ResponseHeadersOwn
  <2>1. PICK r \in Requests : TRUE
    BY OneRequest
  <2>2. relayed.headers = ResponseHeaders(r)
    BY RelayedText
  <2>3. /\ {"cache-control", "x-content-type-options", "x-llm-firewall", "x-correlation-id"}
               \subseteq DOMAIN OwnHeaders(r)
        /\ OwnHeaders(r)["cache-control"] = "no-store"
        /\ OwnHeaders(r)["x-content-type-options"] = "nosniff"
        /\ OwnHeaders(r)["x-llm-firewall"] = "protected"
        /\ OwnHeaders(r)["x-correlation-id"] = CorrelationId
    BY DEF OwnHeaders
  <2>4. \A h \in DOMAIN OwnHeaders(r) : ResponseHeaders(r)[h] = OwnHeaders(r)[h]
    BY DEF ResponseHeaders
  <2> QED
    BY <2>2, <2>3, <2>4
<1> QED
  BY <1>1, ExchangeKnown, PTL

(* The texts the previews are made of.                                     *)
LEMMA RecordedTexts ==
    ASSUME Known, NEW r \in Requests, record.some
    PROVE  \/ record.request = Suppressed /\ record.response = <<>>
           \/ /\ record.request = Preview(Spelled[CurrentJson(r)], settings.bodyChars)
              /\ sent[r].calls > 0 /\ CurrentJson(r) \in Value
              /\ \/ record.response = Suppressed
                 \/ /\ record.response = Preview(text, settings.bodyChars)
                    /\ Cleared(ResponseChain, responseResults[r])
<1>1. record # Nothing
  BY DEF Nothing
<1>2. PICK event \in {"allowed", "blocked_request", "blocked_response"} :
         /\ record.request = RequestPreview(r, event)
         /\ record.response = ResponsePreview(event)
         /\ event # "blocked_request" => sent[r].calls > 0
         /\ event = "allowed" => Cleared(ResponseChain, responseResults[r])
  BY <1>1 DEF Known, ExchangeInv, DataTrail, RecordTrail
<1>3. sent[r].calls > 0 => CurrentJson(r) \in Value
  BY DEF Known, ExchangeInv, DataTypes, DataTrail, InputTrail, Admitted, CurrentJson
<1>4. CASE event = "blocked_request"
  BY <1>2, <1>4 DEF RequestPreview, ResponsePreview
<1>5. CASE event = "blocked_response"
  BY <1>2, <1>3, <1>5 DEF RequestPreview, ResponsePreview
<1>6. CASE event = "allowed"
  BY <1>2, <1>3, <1>6 DEF RequestPreview, ResponsePreview
<1> QED
  BY <1>2, <1>4, <1>5, <1>6

LEMMA RecordedTypes ==
    ASSUME Known
    PROVE  settings.bodyChars \in Nat /\ text \in Text
<1>1. exchange \in Exchanges /\ text \in Text
  BY DEF Known, ExchangeInv, DataTypes
<1> QED
  BY <1>1, SettingsType

(* What a record samples was passed on: the request as it was sent, after  *)
(* the last rewriting, and the response that every detector cleared, as it *)
(* is relayed (handler.rs:88-214, audit.rs:72-106).                        *)
THEOREM RecordsMatchTraffic == ExchangeSpec => []RecordsOnlyPassedOn
<1>1. Known => RecordsOnlyPassedOn
  <2> SUFFICES ASSUME Known, record.some PROVE RecordsOnlyPassedOn
    BY DEF RecordsOnlyPassedOn
  <2>1. PICK r \in Requests : \A q \in Requests : q = r
    BY OneRequest, OnlyRequest
  <2>2. ASSUME record.request # Suppressed
        PROVE  outbound.some /\ record.request = Preview(Spelled[outbound.json], settings.bodyChars)
    <3>1. sent[r].calls > 0 /\ record.request = Preview(Spelled[CurrentJson(r)], settings.bodyChars)
      BY <2>2, RecordedTexts
    <3>2. outbound.some /\ outbound.json = CurrentJson(r)
      BY <3>1 DEF Known, ExchangeInv, DataTrail, SentTrail
    <3> QED
      BY <3>1, <3>2
  <2>3. ASSUME record.response \notin {<<>>, Suppressed}, NEW q \in Requests
        PROVE  Cleared(ResponseChain, responseResults[q])
    BY <2>3, RecordedTexts
  <2>4. relayed.some => record.response = Preview(relayed.text, settings.bodyChars)
    BY RelayedText
  <2> QED
    BY <2>2, <2>3, <2>4 DEF RecordsOnlyPassedOn
<1> QED
  BY <1>1, ExchangeKnown, PTL

(* No preview shows a part of a secret because its limit cuts it, if the   *)
(* word that stands for a preview that is left out is part of no secret    *)
(* (audit.rs:122-124).                                                     *)
THEOREM NoSecretCut ==
    ASSUME "suppressed" \notin SecretMarks
    PROVE  ExchangeSpec => []PreviewsSanitized
<1>1. Known => PreviewsSanitized
  <2> SUFFICES ASSUME Known, NEW r \in Requests, record.some
               PROVE  /\ AllInSecrets(Spelled[CurrentJson(r)])
                            => ToSet(record.request) \cap SecretMarks = {}
                      /\ AllInSecrets(text) => ToSet(record.response) \cap SecretMarks = {}
    BY DEF PreviewsSanitized
  <2> DEFINE limit == settings.bodyChars
             json == CurrentJson(r)
  <2>1. limit \in Nat /\ text \in Text
    BY RecordedTypes
  <2>2. ToSet(Suppressed) \cap SecretMarks = {} /\ ToSet(<<>>) \cap SecretMarks = {}
    BY DEF ToSet, Suppressed
  <2>3. ASSUME json \in Value, AllInSecrets(Spelled[json])
        PROVE  ToSet(Preview(Spelled[json], limit)) \cap SecretMarks = {}
    <3> HIDE DEF json, limit
    <3>1. Spelled[json] \in Text
      BY <2>3, SpelledFacts
    <3>2. ToSet(Preview(Spelled[json], limit)) \subseteq ToSet(Sanitized(Spelled[json]))
      BY <2>1, <3>1, PreviewFacts
    <3> QED
      BY <2>3, <3>2 DEF AllInSecrets
  <2>4. ASSUME AllInSecrets(text) PROVE ToSet(Preview(text, limit)) \cap SecretMarks = {}
    <3> HIDE DEF limit
    <3>1. ToSet(Preview(text, limit)) \subseteq ToSet(Sanitized(text))
      BY <2>1, PreviewFacts
    <3> QED
      BY <2>4, <3>1 DEF AllInSecrets
  <2> QED
    BY <2>2, <2>3, <2>4, RecordedTexts
<1> QED
  BY <1>1, ExchangeKnown, PTL
====
