---- MODULE ProxyHandlerProofs ----
(***************************************************************************)
(* Proofs about ProxyHandler, for any number of requests, any limits, any  *)
(* set of enabled detectors and any number of restarts: its types, the     *)
(* inductive invariant HandlerInv with the properties that follow from it, *)
(* and the safety part of FirewallContract.                                *)
(*                                                                         *)
(* HandlerInv speaks of each request alone: Trail(r) is its part for r.    *)
(* One lemma per action shows that it keeps the types, one that it keeps   *)
(* the trail of its own request; the other requests are left untouched.    *)
(***************************************************************************)
EXTENDS ProxyHandler, TLAPS

(***************************************************************************)
(* The chains and what their detectors may find.                           *)
(***************************************************************************)
(* The chains hold detectors.                                              *)
LEMMA ChainType ==
    /\ RequestChain \in Seq(Detectors)
    /\ ResponseChain \in Seq(Detectors)
<1>1. \A d \in Detectors : IfEnabled(d) \in Seq(Detectors)
  BY DEF IfEnabled
<1>2. \A s, t \in Seq(Detectors) : s \o t \in Seq(Detectors)
  OBVIOUS
<1>3. RequestChain \in Seq(Detectors)
  BY <1>1, <1>2 DEF RequestChain, Detectors
<1>4. ResponseChain \in Seq(Detectors)
  BY <1>1, <1>2 DEF ResponseChain, Detectors
<1> QED
  BY <1>3, <1>4

(* Whatever a detector finds is a result it can record.                    *)
LEMMA FindingsAreResults ==
    ASSUME NEW d \in Detectors PROVE Findings[d] \subseteq Results
  BY DEF Findings, Detectors, Results, PassOrBlock, RateLimiterFindings,
         TokenBudgetFindings, InjectionFindings, DlpFindings,
         SystemPromptFindings, ToolCallFindings, SanitizerFindings

(* The next detector of a chain that is not done is one of the detectors.  *)
LEMMA NextDetectorType ==
    ASSUME NEW chain \in Seq(Detectors), NEW results \in Seq(Results),
           Len(results) < Len(chain)
    PROVE  NextDetector(chain, results) \in Detectors
  BY DEF NextDetector

(* The errors the handler itself can fail a request with.                  *)
Errors == {"BodyTooLarge", "ResponseTooLarge", "PathNotAllowed", "MethodNotAllowed",
           "UnsupportedContentType", "MissingBody", "InvalidRequest", "InvalidJson",
           "MissingUpstreamApiKey", "Upstream"}

(* The statuses of these errors.                                           *)
LEMMA StatusType ==
    ASSUME NEW e \in Errors
    PROVE  StatusOf(e) \in {400, 404, 405, 413, 415, 500, 502}
  BY DEF StatusOf, Errors

-----------------------------------------------------------------------------
(***************************************************************************)
(* Type correctness.                                                       *)
(***************************************************************************)
(* One of the endings the handler chooses keeps the types.                 *)
LEMMA FinishType ==
    ASSUME TypeOK, NEW r \in Requests,
           NEW counter \in Counters,
           NEW event \in {"none", "allowed", "blocked_request", "blocked_response"},
           NEW status \in {-1, Relayed, 400, 403, 404, 405, 413, 415, 429, 500, 502},
           Finish(r, counter, event, status)
    PROVE  /\ phase' \in [Requests -> Phases]
           /\ ending' \in [Requests -> EndingType]
  BY DEF TypeOK, Finish, Goto, EndingType, Phases

(* So does a failure.                                                      *)
LEMMA FailType ==
    ASSUME TypeOK, NEW r \in Requests,
           NEW counter \in Counters,
           NEW e \in Errors,
           Fail(r, counter, e)
    PROVE  /\ phase' \in [Requests -> Phases]
           /\ ending' \in [Requests -> EndingType]
<1>1. StatusOf(e) \in {-1, Relayed, 400, 403, 404, 405, 413, 415, 429, 500, 502}
  BY StatusType
<1> QED
  BY <1>1, FinishType DEF Fail

(* The initial values have the types.                                      *)
LEMMA TypeOK_Init == Init => TypeOK
<1> SUFFICES ASSUME Init PROVE TypeOK
  OBVIOUS
<1>1. /\ process \in 0..MaxRestarts
      /\ keySet \in BOOLEAN
      /\ input \in [Requests -> Inputs]
      /\ startedIn \in [Requests -> 0..MaxRestarts]
      /\ offered \in [Requests -> Nat]
  BY HandlerAssumption DEF Init, HandlerAssumption
<1>2. metrics \in [Counters -> Nat]
  BY DEF Init
<1>3. phase \in [Requests -> Phases]
  BY DEF Init, Phases
<1>4. /\ body \in [Requests -> 0..MaxBodySize]
      /\ response \in [Requests -> 0..MaxResponseBuffer]
  BY HandlerAssumption DEF Init, HandlerAssumption
<1>5. /\ requestResults \in [Requests -> Seq(Results)]
      /\ responseResults \in [Requests -> Seq(Results)]
      /\ audited \in [Requests -> Seq({"allowed", "blocked_request", "blocked_response"})]
  BY DEF Init
<1>6. /\ modifiedBody \in [Requests -> [some : BOOLEAN, edits : SUBSET Detectors]]
      /\ bodyText \in [Requests -> SUBSET Detectors]
      /\ sent \in [Requests -> [calls : Nat, edits : SUBSET Detectors, key : BOOLEAN]]
  BY DEF Init, Unmodified, NotSent
<1>7. ending \in [Requests -> EndingType]
  BY DEF Init, NoEnding, EndingType
<1> QED
  BY <1>1, <1>2, <1>3, <1>4, <1>5, <1>6, <1>7 DEF TypeOK

(* StartRequest keeps the types.                                           *)
LEMMA TypeOK_StartRequest ==
    ASSUME TypeOK, NEW r \in Requests, StartRequest(r) PROVE TypeOK'
<1>1. UNCHANGED <<process, keySet, input, body, requestResults,
                    modifiedBody, response, responseResults, bodyText,
                    ending, offered, sent, audited>>
  BY DEF StartRequest, server, reading, requestCtx, responseCtx
<1>2. phase' \in [Requests -> Phases]
  BY DEF TypeOK, StartRequest, Goto, Phases
<1>3. metrics' \in [Counters -> Nat]
  BY DEF TypeOK, StartRequest, Increment, Counters
<1>4. startedIn' \in [Requests -> 0..MaxRestarts]
  BY DEF TypeOK, StartRequest
<1> QED
  BY <1>1, <1>2, <1>3, <1>4 DEF TypeOK

(* EndOfBody keeps the types.                                              *)
LEMMA TypeOK_EndOfBody ==
    ASSUME TypeOK, NEW r \in Requests, EndOfBody(r) PROVE TypeOK'
<1>1. UNCHANGED <<process, keySet, metrics, input, body, requestResults,
                    modifiedBody, response, responseResults, bodyText,
                    ending, startedIn, offered, sent, audited>>
  BY DEF EndOfBody, server, reading, requestCtx, responseCtx
<1>2. phase' \in [Requests -> Phases]
  BY DEF TypeOK, EndOfBody, Goto, Phases
<1> QED
  BY <1>1, <1>2 DEF TypeOK

(* Disconnect keeps the types.                                             *)
LEMMA TypeOK_Disconnect ==
    ASSUME TypeOK, NEW r \in Requests, Disconnect(r) PROVE TypeOK'
<1>1. UNCHANGED <<process, keySet, metrics, input, body, requestResults,
                    modifiedBody, response, responseResults, bodyText,
                    ending, startedIn, offered, sent, audited>>
  BY DEF Disconnect, server, reading, requestCtx, responseCtx
<1>2. phase' \in [Requests -> Phases]
  BY DEF TypeOK, Disconnect, Goto, Phases
<1> QED
  BY <1>1, <1>2 DEF TypeOK

(* UpstreamAnswers keeps the types.                                        *)
LEMMA TypeOK_UpstreamAnswers ==
    ASSUME TypeOK, NEW r \in Requests, UpstreamAnswers(r) PROVE TypeOK'
<1>1. UNCHANGED <<process, keySet, metrics, input, body, requestResults,
                    modifiedBody, response, responseResults, bodyText,
                    ending, startedIn, offered, sent, audited>>
  BY DEF UpstreamAnswers, server, reading, requestCtx, responseCtx
<1>2. phase' \in [Requests -> Phases]
  BY DEF TypeOK, UpstreamAnswers, Goto, Phases
<1> QED
  BY <1>1, <1>2 DEF TypeOK

(* EndOfResponse keeps the types.                                          *)
LEMMA TypeOK_EndOfResponse ==
    ASSUME TypeOK, NEW r \in Requests, EndOfResponse(r) PROVE TypeOK'
<1>1. UNCHANGED <<process, keySet, metrics, input, body, requestResults,
                    modifiedBody, response, responseResults, bodyText,
                    ending, startedIn, offered, sent, audited>>
  BY DEF EndOfResponse, server, reading, requestCtx, responseCtx
<1>2. phase' \in [Requests -> Phases]
  BY DEF TypeOK, EndOfResponse, Goto, Phases
<1> QED
  BY <1>1, <1>2 DEF TypeOK

(* StartInspection keeps the types.                                        *)
LEMMA TypeOK_StartInspection ==
    ASSUME TypeOK, NEW r \in Requests, StartInspection(r) PROVE TypeOK'
<1>1. UNCHANGED <<process, keySet, metrics, input, body, requestResults,
                    modifiedBody, response, responseResults, bodyText,
                    ending, startedIn, offered, sent, audited>>
  BY DEF StartInspection, server, reading, requestCtx, responseCtx
<1>2. phase' \in [Requests -> Phases]
  BY DEF TypeOK, StartInspection, Goto, Phases
<1> QED
  BY <1>1, <1>2 DEF TypeOK

(* RequestCleared keeps the types.                                         *)
LEMMA TypeOK_RequestCleared ==
    ASSUME TypeOK, NEW r \in Requests, RequestCleared(r) PROVE TypeOK'
<1>1. UNCHANGED <<process, keySet, metrics, input, body, requestResults,
                    modifiedBody, response, responseResults, bodyText,
                    ending, startedIn, offered, sent, audited>>
  BY DEF RequestCleared, server, reading, requestCtx, responseCtx
<1>2. phase' \in [Requests -> Phases]
  BY DEF TypeOK, RequestCleared, Goto, Phases
<1> QED
  BY <1>1, <1>2 DEF TypeOK

(* Answer keeps the types.                                                 *)
LEMMA TypeOK_Answer ==
    ASSUME TypeOK, NEW r \in Requests, Answer(r) PROVE TypeOK'
<1>1. UNCHANGED <<process, keySet, metrics, input, body, requestResults,
                    modifiedBody, response, responseResults, bodyText,
                    ending, startedIn, offered, sent, audited>>
  BY DEF Answer, server, reading, requestCtx, responseCtx
<1>2. phase' \in [Requests -> Phases]
  BY DEF TypeOK, Answer, Goto, Phases
<1> QED
  BY <1>1, <1>2 DEF TypeOK

(* PayloadError keeps the types.                                           *)
LEMMA TypeOK_PayloadError ==
    ASSUME TypeOK, NEW r \in Requests, PayloadError(r) PROVE TypeOK'
<1>1. UNCHANGED <<process, keySet, metrics, input, body, requestResults,
                    modifiedBody, response, responseResults, bodyText,
                    startedIn, offered, sent, audited>>
  BY DEF PayloadError, server, reading, requestCtx, responseCtx
<1>2. phase' \in [Requests -> Phases] /\ ending' \in [Requests -> EndingType]
  BY FailType DEF PayloadError, Counters, Errors
<1> QED
  BY <1>1, <1>2 DEF TypeOK

(* SendFails keeps the types.                                              *)
LEMMA TypeOK_SendFails ==
    ASSUME TypeOK, NEW r \in Requests, SendFails(r) PROVE TypeOK'
<1>1. UNCHANGED <<process, keySet, metrics, input, body, requestResults,
                    modifiedBody, response, responseResults, bodyText,
                    startedIn, offered, sent, audited>>
  BY DEF SendFails, server, reading, requestCtx, responseCtx
<1>2. phase' \in [Requests -> Phases] /\ ending' \in [Requests -> EndingType]
  BY FailType DEF SendFails, Counters, Errors
<1> QED
  BY <1>1, <1>2 DEF TypeOK

(* CollectFails keeps the types.                                           *)
LEMMA TypeOK_CollectFails ==
    ASSUME TypeOK, NEW r \in Requests, CollectFails(r) PROVE TypeOK'
<1>1. UNCHANGED <<process, keySet, metrics, input, body, requestResults,
                    modifiedBody, response, responseResults, bodyText,
                    startedIn, offered, sent, audited>>
  BY DEF CollectFails, server, reading, requestCtx, responseCtx
<1>2. phase' \in [Requests -> Phases] /\ ending' \in [Requests -> EndingType]
  BY FailType DEF CollectFails, Counters, Errors
<1> QED
  BY <1>1, <1>2 DEF TypeOK

(* MissingKey keeps the types.                                             *)
LEMMA TypeOK_MissingKey ==
    ASSUME TypeOK, NEW r \in Requests, MissingKey(r) PROVE TypeOK'
<1>1. UNCHANGED <<process, keySet, metrics, input, body, requestResults,
                    modifiedBody, response, responseResults, bodyText,
                    startedIn, offered, sent, audited>>
  BY DEF MissingKey, server, reading, requestCtx, responseCtx
<1>2. phase' \in [Requests -> Phases] /\ ending' \in [Requests -> EndingType]
  BY FailType DEF MissingKey, Counters, Errors
<1> QED
  BY <1>1, <1>2 DEF TypeOK

(* RejectInvalid keeps the types.                                          *)
LEMMA TypeOK_RejectInvalid ==
    ASSUME TypeOK, NEW r \in Requests, RejectInvalid(r) PROVE TypeOK'
<1>1. UNCHANGED <<process, keySet, metrics, input, body, requestResults,
                    modifiedBody, response, responseResults, bodyText,
                    startedIn, offered, sent, audited>>
  BY DEF RejectInvalid, server, reading, requestCtx, responseCtx
<1>2. phase' \in [Requests -> Phases] /\ ending' \in [Requests -> EndingType]
  <2>1. PICK i \in DOMAIN Checks : Fail(r, "validation_errors", Checks[i])
    BY DEF RejectInvalid
  <2>2. Checks[i] \in Errors
    BY DEF Checks, Errors
  <2> QED
    BY <2>1, <2>2, FailType DEF Counters
<1> QED
  BY <1>1, <1>2 DEF TypeOK

(* ResponseCleared keeps the types.                                        *)
LEMMA TypeOK_ResponseCleared ==
    ASSUME TypeOK, NEW r \in Requests, ResponseCleared(r) PROVE TypeOK'
<1>1. UNCHANGED <<process, keySet, metrics, input, body, requestResults,
                    modifiedBody, response, responseResults, bodyText,
                    startedIn, offered, sent, audited>>
  BY DEF ResponseCleared, server, reading, requestCtx, responseCtx
<1>2. phase' \in [Requests -> Phases] /\ ending' \in [Requests -> EndingType]
  BY FinishType DEF ResponseCleared, Counters
<1> QED
  BY <1>1, <1>2 DEF TypeOK

(* Send keeps the types.                                                   *)
LEMMA TypeOK_Send ==
    ASSUME TypeOK, NEW r \in Requests, Send(r) PROVE TypeOK'
<1>1. UNCHANGED <<process, keySet, metrics, input, body, requestResults,
                    modifiedBody, response, responseResults, bodyText,
                    ending, startedIn, offered, audited>>
  BY DEF Send, server, reading, requestCtx, responseCtx
<1>2. phase' \in [Requests -> Phases]
  BY DEF TypeOK, Send, Goto, Phases
<1>3. OutboundEdits(r) \in SUBSET Detectors
  BY DEF OutboundEdits, CurrentEdits, TypeOK
<1>4. sent' \in [Requests -> [calls : Nat, edits : SUBSET Detectors, key : BOOLEAN]]
  BY <1>3 DEF Send, TypeOK
<1> QED
  BY <1>1, <1>2, <1>4 DEF TypeOK

(* Count keeps the types.                                                  *)
LEMMA TypeOK_Count ==
    ASSUME TypeOK, NEW r \in Requests, Count(r) PROVE TypeOK'
<1>1. UNCHANGED <<process, keySet, input, body, requestResults,
                    modifiedBody, response, responseResults, bodyText,
                    ending, startedIn, offered, sent, audited>>
  BY DEF Count, server, reading, requestCtx, responseCtx
<1>2. metrics' \in [Counters -> Nat]
  <2>1. \A c : [metrics EXCEPT ![c] = @ + 1] \in [Counters -> Nat]
    <3> TAKE c
    <3>1. CASE c \in Counters
      <4>1. metrics[c] \in Nat /\ metrics[c] + 1 \in Nat
        BY <3>1 DEF TypeOK
      <4> QED
        BY <4>1 DEF TypeOK
    <3>2. CASE c \notin Counters
      BY <3>2, Zenon DEF TypeOK
    <3> QED
      BY <3>1, <3>2
  <2> QED
    BY <2>1 DEF Count, Increment
<1>3. phase' \in [Requests -> Phases]
  BY DEF Count, Goto, TypeOK, Phases
<1> QED
  BY <1>1, <1>2, <1>3 DEF TypeOK

(* Audit keeps the types.                                                  *)
LEMMA TypeOK_Audit ==
    ASSUME TypeOK, NEW r \in Requests, EndingTrail(r), Audit(r) PROVE TypeOK'
<1>1. UNCHANGED <<process, keySet, metrics, input, body, requestResults,
                    modifiedBody, response, responseResults, bodyText,
                    ending, startedIn, offered, sent>>
  BY DEF Audit, server, reading, requestCtx, responseCtx
<1>2. phase' \in [Requests -> Phases]
  BY DEF Audit, Goto, TypeOK, Phases
<1>3. audited' \in [Requests -> Seq({"allowed", "blocked_request", "blocked_response"})]
  <2>1. audited[r] \in Seq({"allowed", "blocked_request", "blocked_response"})
    BY DEF TypeOK
  <2>2. ending[r].event \in {"allowed", "blocked_request", "blocked_response"}
    BY DEF Audit, EndingTrail, NeedsAudit, TypeOK, EndingType
  <2> QED
    BY <2>1, <2>2 DEF Audit, TypeOK
<1> QED
  BY <1>1, <1>2, <1>3 DEF TypeOK

(* ReadChunk keeps the types.                                              *)
LEMMA TypeOK_ReadChunk ==
    ASSUME TypeOK, NEW r \in Requests, ReadChunk(r) PROVE TypeOK'
<1>1. UNCHANGED <<process, keySet, metrics, input, requestResults,
                    modifiedBody, response, responseResults, bodyText,
                    startedIn, sent, audited>>
  BY DEF ReadChunk, server, reading, requestCtx, responseCtx
<1>2. phase' \in [Requests -> Phases] /\ ending' \in [Requests -> EndingType]
  <2>1. CASE UNCHANGED <<phase, ending>>
    BY <2>1 DEF TypeOK
  <2>2. CASE \E e \in {"BodyTooLarge", "ResponseTooLarge"} : Fail(r, "proxy_errors", e)
    BY <2>2, FailType DEF Counters, Errors
  <2> QED
    BY <2>1, <2>2 DEF ReadChunk
<1>3. body' \in [Requests -> 0..MaxBodySize]
  <2>1. body[r] \in 0..MaxBodySize
    BY DEF TypeOK
  <2>2. PICK n \in ChunkSizes :
          \/ /\ body' = [body EXCEPT ![r] = @ + n]
             /\ ~Overflows(body[r], n, MaxBodySize)
          \/ UNCHANGED body
    BY DEF ReadChunk
  <2>3. n \in Nat /\ MaxBodySize \in Nat
    BY HandlerAssumption DEF HandlerAssumption
  <2>4. CASE UNCHANGED body
    BY <2>4 DEF TypeOK
  <2>5. CASE /\ body' = [body EXCEPT ![r] = @ + n]
            /\ ~Overflows(body[r], n, MaxBodySize)
    <3>1. body[r] + n \in 0..MaxBodySize
      BY <2>1, <2>3, <2>5 DEF Overflows
    <3> QED
      BY <2>5, <3>1 DEF TypeOK
  <2> QED
    BY <2>2, <2>4, <2>5
<1>4. offered' \in [Requests -> Nat]
  BY HandlerAssumption DEF ReadChunk, TypeOK, HandlerAssumption
<1> QED
  BY <1>1, <1>2, <1>3, <1>4 DEF TypeOK

(* CollectChunk keeps the types.                                           *)
LEMMA TypeOK_CollectChunk ==
    ASSUME TypeOK, NEW r \in Requests, CollectChunk(r) PROVE TypeOK'
<1>1. UNCHANGED <<process, keySet, metrics, input, body, requestResults,
                    modifiedBody, responseResults, bodyText, startedIn,
                    offered, sent, audited>>
  BY DEF CollectChunk, server, reading, requestCtx, responseCtx
<1>2. phase' \in [Requests -> Phases] /\ ending' \in [Requests -> EndingType]
  <2>1. CASE UNCHANGED <<phase, ending>>
    BY <2>1 DEF TypeOK
  <2>2. CASE \E e \in {"BodyTooLarge", "ResponseTooLarge"} : Fail(r, "proxy_errors", e)
    BY <2>2, FailType DEF Counters, Errors
  <2> QED
    BY <2>1, <2>2 DEF CollectChunk
<1>3. response' \in [Requests -> 0..MaxResponseBuffer]
  <2>1. response[r] \in 0..MaxResponseBuffer
    BY DEF TypeOK
  <2>2. PICK n \in ChunkSizes :
          \/ /\ response' = [response EXCEPT ![r] = @ + n]
             /\ ~Overflows(response[r], n, MaxResponseBuffer)
          \/ UNCHANGED response
    BY DEF CollectChunk
  <2>3. n \in Nat /\ MaxResponseBuffer \in Nat
    BY HandlerAssumption DEF HandlerAssumption
  <2>4. CASE UNCHANGED response
    BY <2>4 DEF TypeOK
  <2>5. CASE /\ response' = [response EXCEPT ![r] = @ + n]
            /\ ~Overflows(response[r], n, MaxResponseBuffer)
    <3>1. response[r] + n \in 0..MaxResponseBuffer
      BY <2>1, <2>3, <2>5 DEF Overflows
    <3> QED
      BY <2>5, <3>1 DEF TypeOK
  <2> QED
    BY <2>2, <2>4, <2>5
<1> QED
  BY <1>1, <1>2, <1>3 DEF TypeOK

(* InspectRequest keeps the types.                                         *)
LEMMA TypeOK_InspectRequest ==
    ASSUME TypeOK, NEW r \in Requests, InspectRequest(r) PROVE TypeOK'
<1>1. UNCHANGED <<process, keySet, metrics, input, body, response,
                    responseResults, bodyText, startedIn, offered, sent,
                    audited>>
  BY DEF InspectRequest, server, reading, requestCtx, responseCtx
<1> DEFINE d == NextDetector(RequestChain, requestResults[r])
<1>2. d \in Detectors
  BY ChainType, NextDetectorType DEF InspectRequest, TypeOK
<1>3. PICK finding \in Findings[d] \cup {"pass"} :
         /\ requestResults' = [requestResults EXCEPT ![r] = Append(@, finding)]
         /\ IF finding \in Rewriting THEN RewriteRequest(r, d) ELSE UNCHANGED modifiedBody
         /\ IF finding = "block"
            THEN BlockRequest(r, d)
            ELSE UNCHANGED <<phase, ending>>
  BY DEF InspectRequest
<1> HIDE DEF d
<1>4. finding \in Results
  BY <1>2, <1>3, FindingsAreResults DEF Results
<1>5. requestResults' \in [Requests -> Seq(Results)]
  BY <1>3, <1>4 DEF TypeOK
<1>6. modifiedBody' \in [Requests -> [some : BOOLEAN, edits : SUBSET Detectors]]
  <2>1. CASE finding \in Rewriting
    <3>1. CurrentEdits(r) \cup {d} \in SUBSET Detectors
      BY <1>2 DEF CurrentEdits, TypeOK
    <3>2. PICK e \in SUBSET Detectors :
            modifiedBody' = [modifiedBody EXCEPT ![r] = [some |-> TRUE, edits |-> e]]
      BY <1>3, <2>1, <3>1 DEF RewriteRequest
    <3>3. modifiedBody \in [Requests -> [some : BOOLEAN, edits : SUBSET Detectors]]
      BY DEF TypeOK
    <3> QED
      BY <3>2, <3>3
  <2>2. CASE finding \notin Rewriting
    BY <1>3, <2>2 DEF TypeOK
  <2> QED
    BY <2>1, <2>2
<1>7. phase' \in [Requests -> Phases] /\ ending' \in [Requests -> EndingType]
  <2>1. BlockStatus(d) \in {-1, Relayed, 400, 403, 404, 405, 413, 415, 429, 500, 502}
    BY DEF BlockStatus
  <2>2. CASE finding = "block"
    BY <1>3, <2>1, <2>2, FinishType DEF BlockRequest, Counters
  <2>3. CASE finding # "block"
    BY <1>3, <2>3 DEF TypeOK
  <2> QED
    BY <2>2, <2>3
<1> QED
  BY <1>1, <1>5, <1>6, <1>7 DEF TypeOK

(* InspectResponse keeps the types.                                        *)
LEMMA TypeOK_InspectResponse ==
    ASSUME TypeOK, NEW r \in Requests, InspectResponse(r) PROVE TypeOK'
<1>1. UNCHANGED <<process, keySet, metrics, input, body, requestResults,
                    modifiedBody, response, startedIn, offered, sent,
                    audited>>
  BY DEF InspectResponse, server, reading, requestCtx, responseCtx
<1> DEFINE d == NextDetector(ResponseChain, responseResults[r])
<1>2. d \in Detectors
  BY ChainType, NextDetectorType DEF InspectResponse, TypeOK
<1>3. PICK finding \in Findings[d] \cup {"pass"} :
         /\ responseResults' = [responseResults EXCEPT ![r] = Append(@, finding)]
         /\ IF finding \in Rewriting THEN RewriteResponse(r, d) ELSE UNCHANGED bodyText
         /\ IF finding = "block"
            THEN Finish(r, "response_blocks", "blocked_response", BlockStatus(d))
            ELSE UNCHANGED <<phase, ending>>
  BY DEF InspectResponse
<1> HIDE DEF d
<1>4. finding \in Results
  BY <1>2, <1>3, FindingsAreResults DEF Results
<1>5. responseResults' \in [Requests -> Seq(Results)]
  BY <1>3, <1>4 DEF TypeOK
<1>6. bodyText' \in [Requests -> SUBSET Detectors]
  <2>1. CASE finding \in Rewriting
    <3>1. bodyText[r] \cup {d} \in SUBSET Detectors
      BY <1>2 DEF TypeOK
    <3> QED
      BY <1>3, <2>1, <3>1 DEF RewriteResponse, TypeOK
  <2>2. CASE finding \notin Rewriting
    BY <1>3, <2>2 DEF TypeOK
  <2> QED
    BY <2>1, <2>2
<1>7. phase' \in [Requests -> Phases] /\ ending' \in [Requests -> EndingType]
  <2>1. BlockStatus(d) \in {-1, Relayed, 400, 403, 404, 405, 413, 415, 429, 500, 502}
    BY DEF BlockStatus
  <2>2. CASE finding = "block"
    BY <1>3, <2>1, <2>2, FinishType DEF Counters
  <2>3. CASE finding # "block"
    BY <1>3, <2>3 DEF TypeOK
  <2> QED
    BY <2>2, <2>3
<1> QED
  BY <1>1, <1>5, <1>6, <1>7 DEF TypeOK

-----------------------------------------------------------------------------
(***************************************************************************)
(* The inductive invariant.                                                *)
(***************************************************************************)
(* Recording a result adds the detector to the rewritings exactly if it    *)
(* rewrote.                                                                *)
LEMMA EditsAppend ==
    ASSUME NEW chain \in Seq(Detectors), NEW results \in Seq(Results),
           NEW finding \in Results, Len(results) < Len(chain)
    PROVE  EditsMade(chain, Append(results, finding)) =
              EditsMade(chain, results)
                \cup (IF finding \in Rewriting THEN {NextDetector(chain, results)} ELSE {})
<1> DEFINE longer == Append(results, finding)
           n == Len(results) + 1
<1>1. /\ DOMAIN longer = 1..n
      /\ DOMAIN results = 1..(n - 1)
      /\ n \in Nat \ {0}
      /\ longer[n] = finding
      /\ \A i \in 1..(n - 1) : longer[i] = results[i]
  OBVIOUS
<1> HIDE DEF longer, n
<1>2. {j \in DOMAIN longer : longer[j] \in Rewriting} =
         {j \in DOMAIN results : results[j] \in Rewriting}
           \cup (IF finding \in Rewriting THEN {n} ELSE {})
  BY <1>1
<1>3. NextDetector(chain, results) = chain[n]
  BY DEF NextDetector, n
<1> QED
  BY <1>2, <1>3 DEF EditsMade, longer

(* A chain is blocked by the result recorded last or by an earlier one.    *)
LEMMA BlockedAppend ==
    ASSUME NEW results \in Seq(Results), NEW finding \in Results
    PROVE  Blocked(Append(results, finding)) <=> Blocked(results) \/ finding = "block"
<1> DEFINE longer == Append(results, finding)
           n == Len(results) + 1
<1>1. /\ DOMAIN longer = 1..n
      /\ DOMAIN results = 1..(n - 1)
      /\ n \in Nat \ {0}
      /\ longer[n] = finding
      /\ \A i \in 1..(n - 1) : longer[i] = results[i]
  OBVIOUS
<1> HIDE DEF longer, n
<1> QED
  BY <1>1 DEF Blocked, longer

(* Before anything is recorded there is no rewriting and no block.         *)
LEMMA NothingRecorded ==
    ASSUME NEW chain \in Seq(Detectors)
    PROVE  EditsMade(chain, <<>>) = {} /\ ~Blocked(<<>>) /\ Len(<<>>) <= Len(chain)
  BY DEF EditsMade, Blocked

(* What the trails of request r depend on.                                 *)
Trail(r) ==
    /\ RequestTrail(r)
    /\ SendingTrail(r)
    /\ ResponseTrail(r)
    /\ EndingTrail(r)
    /\ BodyTrail(r)

Recorded(r) ==
    <<body[r], requestResults[r], modifiedBody[r], response[r], responseResults[r],
      bodyText[r], ending[r], offered[r], sent[r]>>

(* Every request starts with an empty trail.                               *)
LEMMA Trail_Init == ASSUME Init, NEW r \in Requests PROVE Trail(r)
<1>1. /\ requestResults[r] = <<>>
      /\ responseResults[r] = <<>>
      /\ modifiedBody[r] = Unmodified
      /\ bodyText[r] = {}
      /\ phase[r] = "idle"
      /\ sent[r] = NotSent
      /\ ending[r] = NoEnding
      /\ body[r] = offered[r]
  BY DEF Init
<1>2. RequestTrail(r)
  BY <1>1, ChainType, NothingRecorded
     DEF RequestTrail, CurrentEdits, Unmodified
<1>3. SendingTrail(r)
  BY <1>1 DEF SendingTrail, NotSent
<1>4. ResponseTrail(r)
  BY <1>1, ChainType, NothingRecorded DEF ResponseTrail
<1>5. EndingTrail(r)
  BY <1>1 DEF EndingTrail, NoEnding, Relayed
<1>6. BodyTrail(r)
  BY <1>1 DEF BodyTrail
<1> QED
  BY <1>2, <1>3, <1>4, <1>5, <1>6 DEF Trail

(* The trail of a request nothing happened to.                             *)
LEMMA Trail_Others ==
    ASSUME NEW q \in Requests, Trail(q), UNCHANGED <<phase[q], Recorded(q)>>
    PROVE  Trail(q)'
  BY DEF Trail, RequestTrail, SendingTrail, ResponseTrail, EndingTrail, BodyTrail,
         CurrentEdits, MayPassOn, InspectedRequest, NeedsAudit, Recorded

(* A request that is dropped keeps what it has recorded.                   *)
LEMMA Trail_Dropped ==
    ASSUME NEW q \in Requests, Trail(q), phase'[q] = "dropped", UNCHANGED Recorded(q)
    PROVE  Trail(q)'
  BY DEF Trail, RequestTrail, SendingTrail, ResponseTrail, EndingTrail,
         BodyTrail, CurrentEdits, MayPassOn, InspectedRequest, NeedsAudit, Recorded,
         Entering, BeforeSending, BeforeScreening, Leaving

(* StartRequest keeps the trail of its request.                            *)
LEMMA Trail_StartRequest ==
    ASSUME TypeOK, NEW r \in Requests, Trail(r), StartRequest(r) PROVE Trail(r)'
<1>1. UNCHANGED Recorded(r)
  BY DEF StartRequest, Recorded, reading, requestCtx, responseCtx
<1>2. phase[r] = "idle" /\ phase'[r] = "reading"
  BY DEF StartRequest, Goto, TypeOK
<1> QED
  BY <1>1, <1>2 DEF Trail, RequestTrail, SendingTrail, ResponseTrail, EndingTrail,
         BodyTrail, CurrentEdits, MayPassOn, InspectedRequest, NeedsAudit, Recorded,
         Entering, BeforeSending, BeforeScreening, Leaving

(* EndOfBody keeps the trail of its request.                               *)
LEMMA Trail_EndOfBody ==
    ASSUME TypeOK, NEW r \in Requests, Trail(r), EndOfBody(r) PROVE Trail(r)'
<1>1. UNCHANGED Recorded(r)
  BY DEF EndOfBody, Recorded, reading, requestCtx, responseCtx
<1>2. phase[r] = "reading" /\ phase'[r] = "validating"
  BY DEF EndOfBody, Goto, TypeOK
<1> QED
  BY <1>1, <1>2 DEF Trail, RequestTrail, SendingTrail, ResponseTrail, EndingTrail,
         BodyTrail, CurrentEdits, MayPassOn, InspectedRequest, NeedsAudit, Recorded,
         Entering, BeforeSending, BeforeScreening, Leaving

(* StartInspection keeps the trail of its request.                         *)
LEMMA Trail_StartInspection ==
    ASSUME TypeOK, NEW r \in Requests, Trail(r), StartInspection(r) PROVE Trail(r)'
<1>1. UNCHANGED Recorded(r)
  BY DEF StartInspection, Recorded, reading, requestCtx, responseCtx
<1>2. phase[r] = "validating" /\ phase'[r] = "inspecting"
  BY DEF StartInspection, Goto, TypeOK
<1>3. ~Blocked(<<>>)
  BY DEF Blocked
<1> QED
  BY <1>1, <1>2, <1>3 DEF Trail, RequestTrail, SendingTrail, ResponseTrail, EndingTrail,
         BodyTrail, CurrentEdits, MayPassOn, InspectedRequest, NeedsAudit, Recorded,
         Entering, BeforeSending, BeforeScreening, Leaving

(* RequestCleared keeps the trail of its request.                          *)
LEMMA Trail_RequestCleared ==
    ASSUME TypeOK, NEW r \in Requests, Trail(r), RequestCleared(r) PROVE Trail(r)'
<1>1. UNCHANGED Recorded(r)
  BY DEF RequestCleared, Recorded, reading, requestCtx, responseCtx
<1>2. phase[r] = "inspecting" /\ phase'[r] = "forwarding"
  BY DEF RequestCleared, Goto, TypeOK
<1>3. Len(requestResults[r]) = Len(RequestChain)
  BY DEF RequestCleared, ChainDone
<1> QED
  BY <1>1, <1>2, <1>3 DEF Trail, RequestTrail, SendingTrail, ResponseTrail, EndingTrail,
         BodyTrail, CurrentEdits, MayPassOn, InspectedRequest, NeedsAudit, Recorded,
         Entering, BeforeSending, BeforeScreening, Leaving, Cleared

(* UpstreamAnswers keeps the trail of its request.                         *)
LEMMA Trail_UpstreamAnswers ==
    ASSUME TypeOK, NEW r \in Requests, Trail(r), UpstreamAnswers(r) PROVE Trail(r)'
<1>1. UNCHANGED Recorded(r)
  BY DEF UpstreamAnswers, Recorded, reading, requestCtx, responseCtx
<1>2. phase[r] = "awaiting" /\ phase'[r] = "collecting"
  BY DEF UpstreamAnswers, Goto, TypeOK
<1> QED
  BY <1>1, <1>2 DEF Trail, RequestTrail, SendingTrail, ResponseTrail, EndingTrail,
         BodyTrail, CurrentEdits, MayPassOn, InspectedRequest, NeedsAudit, Recorded,
         Entering, BeforeSending, BeforeScreening, Leaving

(* EndOfResponse keeps the trail of its request.                           *)
LEMMA Trail_EndOfResponse ==
    ASSUME TypeOK, NEW r \in Requests, Trail(r), EndOfResponse(r) PROVE Trail(r)'
<1>1. UNCHANGED Recorded(r)
  BY DEF EndOfResponse, Recorded, reading, requestCtx, responseCtx
<1>2. phase[r] = "collecting" /\ phase'[r] = "screening"
  BY DEF EndOfResponse, Goto, TypeOK
<1>3. ~Blocked(<<>>)
  BY DEF Blocked
<1> QED
  BY <1>1, <1>2, <1>3 DEF Trail, RequestTrail, SendingTrail, ResponseTrail, EndingTrail,
         BodyTrail, CurrentEdits, MayPassOn, InspectedRequest, NeedsAudit, Recorded,
         Entering, BeforeSending, BeforeScreening, Leaving

(* Audit keeps the trail of its request.                                   *)
LEMMA Trail_Audit ==
    ASSUME TypeOK, NEW r \in Requests, Trail(r), Audit(r) PROVE Trail(r)'
<1>1. UNCHANGED Recorded(r)
  BY DEF Audit, Recorded, reading, requestCtx, responseCtx
<1>2. phase[r] = "auditing" /\ phase'[r] = "answering"
  BY DEF Audit, Goto, TypeOK
<1> QED
  BY <1>1, <1>2 DEF Trail, RequestTrail, SendingTrail, ResponseTrail, EndingTrail,
         BodyTrail, CurrentEdits, MayPassOn, InspectedRequest, NeedsAudit, Recorded,
         Entering, BeforeSending, BeforeScreening, Leaving

(* Answer keeps the trail of its request.                                  *)
LEMMA Trail_Answer ==
    ASSUME TypeOK, NEW r \in Requests, Trail(r), Answer(r) PROVE Trail(r)'
<1>1. UNCHANGED Recorded(r)
  BY DEF Answer, Recorded, reading, requestCtx, responseCtx
<1>2. phase[r] = "answering" /\ phase'[r] = "answered"
  BY DEF Answer, Goto, TypeOK
<1> QED
  BY <1>1, <1>2 DEF Trail, RequestTrail, SendingTrail, ResponseTrail, EndingTrail,
         BodyTrail, CurrentEdits, MayPassOn, InspectedRequest, NeedsAudit, Recorded,
         Entering, BeforeSending, BeforeScreening, Leaving

(* Disconnect keeps the trail of its request.                              *)
LEMMA Trail_Disconnect ==
    ASSUME TypeOK, NEW r \in Requests, Trail(r), Disconnect(r) PROVE Trail(r)'
<1>1. UNCHANGED Recorded(r) /\ phase'[r] = "dropped"
  BY DEF Disconnect, Goto, TypeOK, Recorded, reading, requestCtx, responseCtx
<1> QED
  BY <1>1, Trail_Dropped

(* Count keeps the trail of its request.                                   *)
LEMMA Trail_Count ==
    ASSUME TypeOK, NEW r \in Requests, Trail(r), Count(r) PROVE Trail(r)'
<1>1. UNCHANGED Recorded(r)
  BY DEF Count, Recorded, reading, requestCtx, responseCtx
<1>2. /\ phase[r] = "counting"
      /\ phase'[r] = IF NeedsAudit(r) THEN "auditing" ELSE "answering"
  BY DEF Count, Goto, TypeOK
<1> QED
  BY <1>1, <1>2 DEF Trail, RequestTrail, SendingTrail, ResponseTrail, EndingTrail,
         BodyTrail, CurrentEdits, MayPassOn, InspectedRequest, NeedsAudit, Recorded,
         Entering, BeforeSending, BeforeScreening, Leaving

(* What the chains left on a request.                                      *)
Inspected(r) == <<requestResults[r], modifiedBody[r], responseResults[r], bodyText[r], sent[r]>>

(* A failure keeps the trail.                                              *)
LEMMA Trail_Fail ==
    ASSUME TypeOK, NEW r \in Requests, Trail(r), UNCHANGED Inspected(r),
           NEW counter \in Counters, NEW e \in Errors, Fail(r, counter, e)
    PROVE  Trail(r)'
<1>1. StatusOf(e) # Relayed
  BY StatusType DEF Relayed
<1>2. phase'[r] = "counting" /\ ending'[r].status = StatusOf(e)
  BY DEF Fail, Finish, Goto, TypeOK
<1>3. RequestTrail(r)' /\ SendingTrail(r)' /\ ResponseTrail(r)'
  BY <1>2 DEF Trail, RequestTrail, SendingTrail, ResponseTrail, Inspected, CurrentEdits,
         MayPassOn, InspectedRequest, Entering, BeforeSending, BeforeScreening
<1>4. EndingTrail(r)' /\ BodyTrail(r)'
  BY <1>1, <1>2 DEF EndingTrail, BodyTrail, Leaving
<1> QED
  BY <1>3, <1>4 DEF Trail

(* PayloadError keeps the trail of its request.                            *)
LEMMA Trail_PayloadError ==
    ASSUME TypeOK, NEW r \in Requests, Trail(r), PayloadError(r) PROVE Trail(r)'
<1>1. UNCHANGED Inspected(r)
  BY DEF PayloadError, Inspected, requestCtx, responseCtx
<1> QED
  BY <1>1, Trail_Fail DEF PayloadError, Errors, Counters

(* SendFails keeps the trail of its request.                               *)
LEMMA Trail_SendFails ==
    ASSUME TypeOK, NEW r \in Requests, Trail(r), SendFails(r) PROVE Trail(r)'
<1>1. UNCHANGED Inspected(r)
  BY DEF SendFails, Inspected, requestCtx, responseCtx
<1> QED
  BY <1>1, Trail_Fail DEF SendFails, Errors, Counters

(* CollectFails keeps the trail of its request.                            *)
LEMMA Trail_CollectFails ==
    ASSUME TypeOK, NEW r \in Requests, Trail(r), CollectFails(r) PROVE Trail(r)'
<1>1. UNCHANGED Inspected(r)
  BY DEF CollectFails, Inspected, requestCtx, responseCtx
<1> QED
  BY <1>1, Trail_Fail DEF CollectFails, Errors, Counters

(* MissingKey keeps the trail of its request.                              *)
LEMMA Trail_MissingKey ==
    ASSUME TypeOK, NEW r \in Requests, Trail(r), MissingKey(r) PROVE Trail(r)'
<1>1. UNCHANGED Inspected(r)
  BY DEF MissingKey, Inspected, requestCtx, responseCtx
<1> QED
  BY <1>1, Trail_Fail DEF MissingKey, Errors, Counters

(* RejectInvalid keeps the trail of its request.                           *)
LEMMA Trail_RejectInvalid ==
    ASSUME TypeOK, NEW r \in Requests, Trail(r), RejectInvalid(r) PROVE Trail(r)'
<1>1. UNCHANGED Inspected(r)
  BY DEF RejectInvalid, Inspected, requestCtx, responseCtx
<1>2. PICK i \in DOMAIN Checks : Fail(r, "validation_errors", Checks[i])
  BY DEF RejectInvalid
<1>3. Checks[i] \in Errors
  BY DEF Checks, Errors
<1> QED
  BY <1>1, <1>2, <1>3, Trail_Fail DEF Counters

(* A chunk that is kept of a body is one the client sent.                  *)
LEMMA Trail_ReadChunk ==
    ASSUME TypeOK, NEW r \in Requests, Trail(r), ReadChunk(r) PROVE Trail(r)'
<1>1. UNCHANGED Inspected(r)
  BY DEF ReadChunk, Inspected, requestCtx, responseCtx
<1>2. CASE Fail(r, "proxy_errors", "BodyTooLarge")
  BY <1>1, <1>2, Trail_Fail DEF Errors, Counters
<1>3. CASE UNCHANGED <<phase, ending>>
  <2>1. CASE Fail(r, "proxy_errors", "BodyTooLarge")
    BY <2>1, <1>2
  <2>2. CASE ~Fail(r, "proxy_errors", "BodyTooLarge")
    <3>1. PICK n \in ChunkSizes : /\ offered' = [offered EXCEPT ![r] = @ + n]
                                 /\ body' = [body EXCEPT ![r] = @ + n]
      BY <2>2 DEF ReadChunk
    <3>2. body[r] = offered[r]
      BY DEF ReadChunk, Trail, BodyTrail, Leaving
    <3>3. body'[r] = offered'[r]
      BY <3>1, <3>2 DEF TypeOK
    <3> QED
      BY <1>1, <1>3, <3>3
         DEF Trail, RequestTrail, SendingTrail, ResponseTrail, EndingTrail, BodyTrail,
             CurrentEdits, MayPassOn, InspectedRequest, NeedsAudit, Inspected
  <2> QED
    BY <2>1, <2>2
<1> QED
  BY <1>2, <1>3 DEF ReadChunk

(* A chunk of the response leaves the trail as it is or fails the request. *)
LEMMA Trail_CollectChunk ==
    ASSUME TypeOK, NEW r \in Requests, Trail(r), CollectChunk(r) PROVE Trail(r)'
<1>1. UNCHANGED Inspected(r) /\ UNCHANGED <<body, offered>>
  BY DEF CollectChunk, Inspected, requestCtx, reading
<1>2. CASE Fail(r, "proxy_errors", "ResponseTooLarge")
  BY <1>1, <1>2, Trail_Fail DEF Errors, Counters
<1>3. CASE UNCHANGED <<phase, ending>>
  BY <1>1, <1>3
     DEF Trail, RequestTrail, SendingTrail, ResponseTrail, EndingTrail, BodyTrail,
         CurrentEdits, MayPassOn, InspectedRequest, NeedsAudit, Inspected
<1> QED
  BY <1>2, <1>3 DEF CollectChunk

(* What is sent carries the rewritings of a chain that cleared it.         *)
LEMMA Trail_Send ==
    ASSUME TypeOK, NEW r \in Requests, Trail(r), Send(r) PROVE Trail(r)'
<1>1. /\ phase[r] = "forwarding" /\ phase'[r] = "awaiting"
      /\ UNCHANGED <<requestResults, modifiedBody, responseCtx, ending, reading>>
  BY DEF Send, Goto, TypeOK, requestCtx
<1>2. OutboundEdits(r) = EditsMade(RequestChain, requestResults[r])
  BY DEF OutboundEdits, CurrentEdits, Trail, RequestTrail
<1>3. sent'[r] = [calls |-> sent[r].calls + 1, edits |-> OutboundEdits(r), key |-> keySet]
  BY DEF Send, TypeOK
<1>4. /\ sent'[r].calls = 1
      /\ sent'[r].edits = EditsMade(RequestChain, requestResults[r])
      /\ RequireApiKey => sent'[r].key
  BY <1>1, <1>2, <1>3 DEF Send, KeyMissing, Trail, SendingTrail, BeforeSending
<1>5. RequestTrail(r)' /\ ResponseTrail(r)' /\ BodyTrail(r)'
  BY <1>1 DEF Trail, RequestTrail, ResponseTrail, BodyTrail, CurrentEdits, responseCtx,
         reading, Entering, BeforeSending, BeforeScreening, Leaving
<1>6. SendingTrail(r)'
  BY <1>1, <1>4 DEF Trail, RequestTrail, SendingTrail, MayPassOn, InspectedRequest,
         Entering, BeforeSending
<1>7. EndingTrail(r)'
  BY <1>1 DEF Trail, EndingTrail, Leaving
<1> QED
  BY <1>5, <1>6, <1>7 DEF Trail

(* A relayed answer stands for a cleared response of a request sent once.  *)
LEMMA Trail_ResponseCleared ==
    ASSUME TypeOK, NEW r \in Requests, Trail(r), ResponseCleared(r) PROVE Trail(r)'
<1>1. /\ phase[r] = "screening" /\ phase'[r] = "counting"
      /\ UNCHANGED Inspected(r)
      /\ UNCHANGED <<body, offered>>
  BY DEF ResponseCleared, Finish, Goto, TypeOK, Inspected, requestCtx, responseCtx, reading
<1>2. RequestTrail(r)' /\ SendingTrail(r)' /\ ResponseTrail(r)'
  BY <1>1 DEF Trail, RequestTrail, SendingTrail, ResponseTrail, Inspected, CurrentEdits,
         MayPassOn, InspectedRequest, Entering, BeforeSending, BeforeScreening
<1>3. sent[r].calls = 1 /\ Cleared(ResponseChain, responseResults[r])
  BY <1>1 DEF ResponseCleared, ChainDone, Cleared, Trail, SendingTrail, ResponseTrail
<1>4. EndingTrail(r)' /\ BodyTrail(r)'
  BY <1>1, <1>3 DEF EndingTrail, BodyTrail, Leaving, Inspected
<1> QED
  BY <1>2, <1>4 DEF Trail

(* A request detector adds its result and its rewriting to the trail, and  *)
(* a block ends the request before anything was sent.                      *)
LEMMA Trail_InspectRequest ==
    ASSUME TypeOK, NEW r \in Requests, Trail(r), InspectRequest(r) PROVE Trail(r)'
<1> DEFINE results == requestResults[r]
           d == NextDetector(RequestChain, results)
<1>1. /\ phase[r] = "inspecting"
      /\ Len(results) < Len(RequestChain)
      /\ UNCHANGED <<reading, responseCtx, sent>>
  BY DEF InspectRequest
<1>2. results \in Seq(Results) /\ d \in Detectors
  BY <1>1, ChainType, NextDetectorType DEF TypeOK
<1>3. PICK finding \in Findings[d] \cup {"pass"} :
         /\ requestResults' = [requestResults EXCEPT ![r] = Append(@, finding)]
         /\ IF finding \in Rewriting THEN RewriteRequest(r, d) ELSE UNCHANGED modifiedBody
         /\ IF finding = "block" THEN BlockRequest(r, d) ELSE UNCHANGED <<phase, ending>>
  BY DEF InspectRequest
<1> HIDE DEF d, results
<1>4. finding \in Results
  BY <1>2, <1>3, FindingsAreResults DEF Results
<1>5. requestResults'[r] = Append(results, finding)
  BY <1>3 DEF results, TypeOK
<1>6. CurrentEdits(r)' =
         CurrentEdits(r) \cup (IF finding \in Rewriting THEN {d} ELSE {})
  BY <1>3 DEF RewriteRequest, CurrentEdits, TypeOK
<1>7. CurrentEdits(r)' = EditsMade(RequestChain, requestResults'[r])
  BY <1>1, <1>2, <1>4, <1>5, <1>6, ChainType, EditsAppend
     DEF Trail, RequestTrail, d, results
<1>8. Len(requestResults'[r]) <= Len(RequestChain)
  BY <1>1, <1>2, <1>4, <1>5, ChainType
<1>9. CASE finding = "block"
  <2>1. phase'[r] = "counting" /\ ending'[r].status = BlockStatus(d)
    BY <1>3, <1>9 DEF BlockRequest, Finish, Goto, TypeOK
  <2>2. BlockStatus(d) # Relayed
    BY DEF BlockStatus, Relayed
  <2> QED
    BY <1>1, <1>7, <1>8, <2>1, <2>2
       DEF Trail, RequestTrail, SendingTrail, ResponseTrail, EndingTrail, BodyTrail,
           Entering, BeforeSending, BeforeScreening, Leaving, responseCtx
<1>10. CASE finding # "block"
  <2>1. UNCHANGED <<phase, ending>>
    BY <1>3, <1>10
  <2>2. ~Blocked(requestResults'[r])
    BY <1>1, <1>2, <1>4, <1>5, <1>10, BlockedAppend DEF Trail, RequestTrail, results
  <2> QED
    BY <1>1, <1>7, <1>8, <2>1, <2>2
       DEF Trail, RequestTrail, SendingTrail, ResponseTrail, EndingTrail, BodyTrail,
           Entering, BeforeSending, BeforeScreening, Leaving, responseCtx, reading
<1> QED
  BY <1>9, <1>10

(* So does a response detector to the trail of the response.               *)
LEMMA Trail_InspectResponse ==
    ASSUME TypeOK, NEW r \in Requests, Trail(r), InspectResponse(r) PROVE Trail(r)'
<1> DEFINE results == responseResults[r]
           d == NextDetector(ResponseChain, results)
<1>1. /\ phase[r] = "screening"
      /\ Len(results) < Len(ResponseChain)
      /\ UNCHANGED <<reading, requestResults, modifiedBody, sent>>
  BY DEF InspectResponse, requestCtx
<1>2. results \in Seq(Results) /\ d \in Detectors
  BY <1>1, ChainType, NextDetectorType DEF TypeOK
<1>3. PICK finding \in Findings[d] :
         /\ responseResults' = [responseResults EXCEPT ![r] = Append(@, finding)]
         /\ IF finding \in Rewriting THEN RewriteResponse(r, d) ELSE UNCHANGED bodyText
         /\ IF finding = "block"
            THEN Finish(r, "response_blocks", "blocked_response", BlockStatus(d))
            ELSE UNCHANGED <<phase, ending>>
  BY DEF InspectResponse
<1> HIDE DEF d, results
<1>4. finding \in Results
  BY <1>2, <1>3, FindingsAreResults
<1>5. responseResults'[r] = Append(results, finding)
  BY <1>3 DEF results, TypeOK
<1>6. bodyText'[r] = bodyText[r] \cup (IF finding \in Rewriting THEN {d} ELSE {})
  BY <1>3 DEF RewriteResponse, TypeOK
<1>7. bodyText'[r] = EditsMade(ResponseChain, responseResults'[r])
  BY <1>1, <1>2, <1>4, <1>5, <1>6, ChainType, EditsAppend
     DEF Trail, ResponseTrail, d, results
<1>8. Len(responseResults'[r]) <= Len(ResponseChain)
  BY <1>1, <1>2, <1>4, <1>5, ChainType
<1>9. RequestTrail(r)' /\ (phase'[r] \in {"screening", "counting"} => SendingTrail(r)')
  <2>1. phase'[r] \in {"screening", "counting"}
    BY <1>1, <1>3 DEF Finish, Goto, TypeOK
  <2> QED
    BY <1>1, <2>1 DEF Trail, RequestTrail, SendingTrail, CurrentEdits, MayPassOn,
           InspectedRequest, Entering, BeforeSending
<1>10. CASE finding = "block"
  <2>1. phase'[r] = "counting" /\ ending'[r].status = BlockStatus(d)
    BY <1>3, <1>10 DEF Finish, Goto, TypeOK
  <2>2. BlockStatus(d) # Relayed
    BY DEF BlockStatus, Relayed
  <2> QED
    BY <1>7, <1>8, <1>9, <2>1, <2>2
       DEF Trail, ResponseTrail, EndingTrail, BodyTrail, BeforeSending, BeforeScreening,
           Entering, Leaving
<1>11. CASE finding # "block"
  <2>1. UNCHANGED <<phase, ending>>
    BY <1>3, <1>11
  <2>2. ~Blocked(responseResults'[r])
    BY <1>1, <1>2, <1>4, <1>5, <1>11, BlockedAppend DEF Trail, ResponseTrail, results
  <2>3. ending'[r].status # Relayed
    BY <1>1, <2>1 DEF Trail, EndingTrail, Leaving
  <2> QED
    BY <1>1, <1>7, <1>8, <1>9, <2>1, <2>2, <2>3
       DEF Trail, ResponseTrail, EndingTrail, BodyTrail, BeforeSending, BeforeScreening,
           Entering, Leaving, reading
<1> QED
  BY <1>10, <1>11

-----------------------------------------------------------------------------
(***************************************************************************)
(* Putting the actions together.                                           *)
(***************************************************************************)
Step(r) == FromClient(r) \/ FromUpstream(r) \/ Handle(r)

(* A request's step leaves the others alone.                               *)
LEMMA OthersUntouched ==
    ASSUME TypeOK, NEW r \in Requests, NEW q \in Requests, q # r, Step(r)
    PROVE  UNCHANGED <<phase[q], Recorded(q)>>
<1>1. CASE StartRequest(r)
  BY <1>1 DEF StartRequest, Goto, Recorded, TypeOK, reading, requestCtx,
         responseCtx
<1>2. CASE ReadChunk(r)
  BY <1>2 DEF ReadChunk, Fail, Finish, Goto, Recorded, TypeOK, reading,
         requestCtx, responseCtx
<1>3. CASE PayloadError(r)
  BY <1>3 DEF PayloadError, Fail, Finish, Goto, Recorded, TypeOK, reading,
         requestCtx, responseCtx
<1>4. CASE EndOfBody(r)
  BY <1>4 DEF EndOfBody, Goto, Recorded, TypeOK, reading, requestCtx,
         responseCtx
<1>5. CASE Disconnect(r)
  BY <1>5 DEF Disconnect, Goto, Recorded, TypeOK, reading, requestCtx,
         responseCtx
<1>6. CASE UpstreamAnswers(r)
  BY <1>6 DEF UpstreamAnswers, Goto, Recorded, TypeOK, reading, requestCtx,
         responseCtx
<1>7. CASE SendFails(r)
  BY <1>7 DEF SendFails, Fail, Finish, Goto, Recorded, TypeOK, reading,
         requestCtx, responseCtx
<1>8. CASE CollectFails(r)
  BY <1>8 DEF CollectFails, Fail, Finish, Goto, Recorded, TypeOK, reading,
         requestCtx, responseCtx
<1>9. CASE CollectChunk(r)
  BY <1>9 DEF CollectChunk, Fail, Finish, Goto, Recorded, TypeOK, reading,
         requestCtx, responseCtx
<1>10. CASE EndOfResponse(r)
  BY <1>10 DEF EndOfResponse, Goto, Recorded, TypeOK, reading, requestCtx,
         responseCtx
<1>11. CASE RejectInvalid(r)
  BY <1>11 DEF RejectInvalid, Fail, Finish, Goto, Recorded, TypeOK, reading,
         requestCtx, responseCtx
<1>12. CASE StartInspection(r)
  BY <1>12 DEF StartInspection, Goto, Recorded, TypeOK, reading, requestCtx,
         responseCtx
<1>13. CASE InspectRequest(r)
  BY <1>13 DEF InspectRequest, BlockRequest, Finish, RewriteRequest, Goto,
         Recorded, TypeOK, reading, requestCtx, responseCtx
<1>14. CASE RequestCleared(r)
  BY <1>14 DEF RequestCleared, Goto, Recorded, TypeOK, reading, requestCtx,
         responseCtx
<1>15. CASE MissingKey(r)
  BY <1>15 DEF MissingKey, Fail, Finish, Goto, Recorded, TypeOK, reading,
         requestCtx, responseCtx
<1>16. CASE Send(r)
  BY <1>16 DEF Send, Goto, Recorded, TypeOK, reading, requestCtx, responseCtx
<1>17. CASE InspectResponse(r)
  BY <1>17 DEF InspectResponse, Finish, RewriteResponse, Goto, Recorded,
         TypeOK, reading, requestCtx, responseCtx
<1>18. CASE ResponseCleared(r)
  BY <1>18 DEF ResponseCleared, Finish, Goto, Recorded, TypeOK, reading,
         requestCtx, responseCtx
<1>19. CASE Count(r)
  BY <1>19 DEF Count, Goto, Recorded, TypeOK, reading, requestCtx, responseCtx
<1>20. CASE Audit(r)
  BY <1>20 DEF Audit, Goto, Recorded, TypeOK, reading, requestCtx, responseCtx
<1>21. CASE Answer(r)
  BY <1>21 DEF Answer, Goto, Recorded, TypeOK, reading, requestCtx,
         responseCtx
<1> QED
  BY <1>1, <1>2, <1>3, <1>4, <1>5, <1>6, <1>7, <1>8, <1>9, <1>10, <1>11,
     <1>12, <1>13, <1>14, <1>15, <1>16, <1>17, <1>18, <1>19, <1>20,
     <1>21 DEF Step, FromClient, FromUpstream, Handle

(* A step of a request keeps the types and all trails.                     *)
LEMMA Step_Invariant ==
    ASSUME TypeOK, HandlerInv, NEW r \in Requests, Step(r)
    PROVE  TypeOK' /\ HandlerInv'
<1>1. \A q \in Requests : Trail(q)
  BY DEF HandlerInv, Trail
<1>2. EndingTrail(r)
  BY <1>1 DEF Trail
<1>3. TypeOK' /\ Trail(r)'
  <2>1. CASE StartRequest(r)
    BY <1>1, <2>1, TypeOK_StartRequest, Trail_StartRequest
  <2>2. CASE ReadChunk(r)
    BY <1>1, <2>2, TypeOK_ReadChunk, Trail_ReadChunk
  <2>3. CASE PayloadError(r)
    BY <1>1, <2>3, TypeOK_PayloadError, Trail_PayloadError
  <2>4. CASE EndOfBody(r)
    BY <1>1, <2>4, TypeOK_EndOfBody, Trail_EndOfBody
  <2>5. CASE Disconnect(r)
    BY <1>1, <2>5, TypeOK_Disconnect, Trail_Disconnect
  <2>6. CASE UpstreamAnswers(r)
    BY <1>1, <2>6, TypeOK_UpstreamAnswers, Trail_UpstreamAnswers
  <2>7. CASE SendFails(r)
    BY <1>1, <2>7, TypeOK_SendFails, Trail_SendFails
  <2>8. CASE CollectFails(r)
    BY <1>1, <2>8, TypeOK_CollectFails, Trail_CollectFails
  <2>9. CASE CollectChunk(r)
    BY <1>1, <2>9, TypeOK_CollectChunk, Trail_CollectChunk
  <2>10. CASE EndOfResponse(r)
    BY <1>1, <2>10, TypeOK_EndOfResponse, Trail_EndOfResponse
  <2>11. CASE RejectInvalid(r)
    BY <1>1, <2>11, TypeOK_RejectInvalid, Trail_RejectInvalid
  <2>12. CASE StartInspection(r)
    BY <1>1, <2>12, TypeOK_StartInspection, Trail_StartInspection
  <2>13. CASE InspectRequest(r)
    BY <1>1, <2>13, TypeOK_InspectRequest, Trail_InspectRequest
  <2>14. CASE RequestCleared(r)
    BY <1>1, <2>14, TypeOK_RequestCleared, Trail_RequestCleared
  <2>15. CASE MissingKey(r)
    BY <1>1, <2>15, TypeOK_MissingKey, Trail_MissingKey
  <2>16. CASE Send(r)
    BY <1>1, <2>16, TypeOK_Send, Trail_Send
  <2>17. CASE InspectResponse(r)
    BY <1>1, <2>17, TypeOK_InspectResponse, Trail_InspectResponse
  <2>18. CASE ResponseCleared(r)
    BY <1>1, <2>18, TypeOK_ResponseCleared, Trail_ResponseCleared
  <2>19. CASE Count(r)
    BY <1>1, <2>19, TypeOK_Count, Trail_Count
  <2>20. CASE Audit(r)
    BY <1>1, <1>2, <2>20, TypeOK_Audit, Trail_Audit
  <2>21. CASE Answer(r)
    BY <1>1, <2>21, TypeOK_Answer, Trail_Answer
  <2> QED
    BY <2>1, <2>2, <2>3, <2>4, <2>5, <2>6, <2>7, <2>8, <2>9, <2>10, <2>11,
       <2>12, <2>13, <2>14, <2>15, <2>16, <2>17, <2>18, <2>19, <2>20,
       <2>21 DEF Step, FromClient, FromUpstream, Handle
<1>4. ASSUME NEW q \in Requests, q # r PROVE Trail(q)'
  BY <1>1, <1>4, OthersUntouched, Trail_Others
<1> QED
  BY <1>3, <1>4 DEF HandlerInv, Trail

(* So does a restart.                                                      *)
LEMMA Restart_Invariant ==
    ASSUME TypeOK, HandlerInv, Restart
    PROVE  TypeOK' /\ HandlerInv'
<1>1. TypeOK'
  <2>1. UNCHANGED <<input, body, requestResults, modifiedBody, response, responseResults,
                    bodyText, ending, startedIn, offered, sent, audited>>
    BY DEF Restart, reading, requestCtx, responseCtx
  <2>2. process' \in 0..MaxRestarts /\ keySet' \in BOOLEAN
    BY HandlerAssumption DEF Restart, TypeOK, HandlerAssumption
  <2>3. metrics' \in [Counters -> Nat]
    BY DEF Restart
  <2>4. phase' \in [Requests -> Phases]
    BY DEF Restart, TypeOK, Phases
  <2> QED
    BY <2>1, <2>2, <2>3, <2>4 DEF TypeOK
<1>2. ASSUME NEW q \in Requests PROVE Trail(q)'
  <2>1. Trail(q)
    BY DEF HandlerInv, Trail
  <2>2. UNCHANGED Recorded(q)
    BY DEF Restart, Recorded, reading, requestCtx, responseCtx
  <2>3. phase'[q] = phase[q] \/ phase'[q] = "dropped"
    BY DEF Restart
  <2> QED
    BY <2>1, <2>2, <2>3, Trail_Others, Trail_Dropped
<1> QED
  BY <1>1, <1>2 DEF HandlerInv, Trail

(* So does a step that changes nothing.                                    *)
LEMMA Stutter_Invariant ==
    ASSUME TypeOK, HandlerInv, UNCHANGED vars
    PROVE  TypeOK' /\ HandlerInv'
<1>1. TypeOK'
  BY DEF TypeOK, vars
<1>2. ASSUME NEW q \in Requests PROVE Trail(q)'
  <2>1. Trail(q) /\ UNCHANGED <<phase[q], Recorded(q)>>
    BY DEF HandlerInv, Trail, vars, Recorded
  <2> QED
    BY <2>1, Trail_Others
<1> QED
  BY <1>1, <1>2 DEF HandlerInv, Trail

(* So does every step of the system.                                       *)
LEMMA Next_Invariant ==
    ASSUME TypeOK, HandlerInv, [Next]_vars
    PROVE  TypeOK' /\ HandlerInv'
<1>1. CASE \E r \in Requests : Step(r)
  BY <1>1, Step_Invariant
<1>2. CASE Restart
  BY <1>2, Restart_Invariant
<1>3. CASE Rest \/ UNCHANGED vars
  BY <1>3, Stutter_Invariant DEF Rest
<1> QED
  BY <1>1, <1>2, <1>3 DEF Next, Step

(* The variables of the handler keep their types and the trails hold,      *)
(* however requests, failures, disconnects and restarts interleave.        *)
LEMMA Invariant == Spec => [](TypeOK /\ HandlerInv)
<1>1. Init => TypeOK /\ HandlerInv
  BY TypeOK_Init, Trail_Init DEF HandlerInv, Trail
<1>2. TypeOK /\ HandlerInv /\ [Next]_vars => (TypeOK /\ HandlerInv)'
  BY Next_Invariant
<1> QED
  BY <1>1, <1>2, PTL DEF Spec

(* The variables keep the types the code gives them.                       *)
THEOREM TypeCorrect == Spec => []TypeOK
  BY Invariant, PTL

(* The inductive invariant: every phase finds the results, the bodies and  *)
(* the ending of its request as the code before it must have left them.    *)
THEOREM HandlerInvariant == Spec => []HandlerInv
  BY Invariant, PTL

(* What the upstream is given went through every enabled request detector  *)
(* without a block and carries all their rewritings (handler.rs:85-106).   *)
THEOREM ForwardedInspected == Spec => []ForwardedAsInspected
<1>1. TypeOK /\ HandlerInv => ForwardedAsInspected
  BY DEF HandlerInv, SendingTrail, MayPassOn, ForwardedAsInspected
<1> QED
  BY <1>1, Invariant, PTL

(* What the client is relayed went through every enabled response detector *)
(* without a block and carries all their rewritings (handler.rs:138-148).  *)
THEOREM Delivered == Spec => []DeliveredAsInspected
<1>1. TypeOK /\ HandlerInv => DeliveredAsInspected
  BY DEF HandlerInv, EndingTrail, ResponseTrail, InspectedResponse, DeliveredAsInspected
<1> QED
  BY <1>1, Invariant, PTL

(* A body that is validated or forwarded is the whole body the client sent *)
(* and no buffer outgrows its limit (handler.rs:151-179).                  *)
THEOREM BodiesWhole == Spec => []BodiesWholeOrRefused
<1>1. TypeOK /\ HandlerInv => BodiesWholeOrRefused
  <2> SUFFICES ASSUME TypeOK, HandlerInv, NEW r \in Requests
               PROVE  /\ body[r] <= MaxBodySize
                      /\ response[r] <= MaxResponseBuffer
                      /\ phase[r] \in {"validating", "inspecting", "forwarding", "awaiting",
                                       "collecting", "screening"} => body[r] = offered[r]
    BY DEF BodiesWholeOrRefused
  <2>1. body[r] \in 0..MaxBodySize /\ response[r] \in 0..MaxResponseBuffer
    BY DEF TypeOK
  <2>2. MaxBodySize \in Nat /\ MaxResponseBuffer \in Nat
    BY HandlerAssumption DEF HandlerAssumption
  <2>3. phase[r] \notin Leaving => body[r] = offered[r]
    BY DEF HandlerInv, BodyTrail
  <2> QED
    BY <2>1, <2>2, <2>3 DEF Leaving
<1> QED
  BY <1>1, Invariant, PTL

-----------------------------------------------------------------------------
(***************************************************************************)
(* The handler implements the contract of the firewall: its safety part,   *)
(* Accept, PassOn, Release, Refuse and Lose, step by step.                 *)
(***************************************************************************)
Mapped(r) == <<Stage(r), Seen(r), Got(r)>>

(* With its trail, a request is never seen or answered unchecked.          *)
LEMMA NeverUnchecked ==
    ASSUME NEW q \in Requests, TypeOK, Trail(q)
    PROVE  /\ Seen(q) = IF sent[q].calls = 0 THEN "nothing" ELSE "inspected request"
           /\ Got(q) = IF phase[q] # "answered" THEN "nothing"
                       ELSE IF ending[q].status # Relayed THEN "refusal"
                       ELSE "inspected response"
<1>1. sent[q].calls \in Nat
  BY DEF TypeOK
<1>2. sent[q].calls > 0 => MayPassOn(q)
  BY DEF Trail, SendingTrail
<1>3. ending[q].status = Relayed => InspectedResponse(q)
  BY DEF Trail, EndingTrail, ResponseTrail, InspectedResponse
<1>4. Seen(q) = IF sent[q].calls = 0 THEN "nothing" ELSE "inspected request"
  <2>1. CASE sent[q].calls = 0
    BY <2>1 DEF Seen
  <2>2. CASE sent[q].calls > 0
    <3>1. sent[q].calls # 0
      BY <2>2
    <3> QED
      BY <1>2, <2>2, <3>1, Zenon DEF Seen
  <2>3. sent[q].calls = 0 \/ sent[q].calls > 0
    BY <1>1
  <2> QED
    BY <2>1, <2>2, <2>3, Zenon
<1> QED
  BY <1>3, <1>4 DEF Got

(* The same of the state after a step.                                     *)
LEMMA NeverUncheckedNext ==
    ASSUME NEW q \in Requests, TypeOK', Trail(q)'
    PROVE  /\ Seen(q)' = IF sent'[q].calls = 0 THEN "nothing" ELSE "inspected request"
           /\ Got(q)' = IF phase'[q] # "answered" THEN "nothing"
                        ELSE IF ending'[q].status # Relayed THEN "refusal"
                        ELSE "inspected response"
<1>1. sent'[q].calls \in Nat
  BY DEF TypeOK
<1>2. sent'[q].calls > 0 => MayPassOn(q)'
  BY DEF Trail, SendingTrail
<1>3. ending'[q].status = Relayed => InspectedResponse(q)'
  BY DEF Trail, EndingTrail, ResponseTrail, InspectedResponse
<1>4. Seen(q)' = IF sent'[q].calls = 0 THEN "nothing" ELSE "inspected request"
  <2>1. CASE sent'[q].calls = 0
    BY <2>1 DEF Seen
  <2>2. CASE sent'[q].calls > 0
    <3>1. sent'[q].calls # 0
      BY <2>2
    <3> QED
      BY <1>2, <2>2, <3>1, Zenon DEF Seen
  <2>3. sent'[q].calls = 0 \/ sent'[q].calls > 0
    BY <1>1
  <2> QED
    BY <2>1, <2>2, <2>3, Zenon
<1> QED
  BY <1>3, <1>4 DEF Got

(* What a step of request r may do to its state of the contract.           *)
ContractMove(r) ==
    \/ UNCHANGED Mapped(r)
    \/ Stage(r) = "new" /\ Stage(r)' = "open" /\ UNCHANGED <<Seen(r), Got(r)>>
    \/ /\ Stage(r) = "open" /\ Stage(r)' = "sent"
       /\ Seen(r)' = "inspected request" /\ UNCHANGED Got(r)
    \/ /\ Stage(r) = "sent" /\ Stage(r)' = "closed"
       /\ Got(r)' = "inspected response" /\ UNCHANGED Seen(r)
    \/ /\ Stage(r) \in {"open", "sent"} /\ Stage(r)' = "closed"
       /\ Got(r)' = "refusal" /\ UNCHANGED Seen(r)
    \/ /\ Stage(r) \in {"open", "sent"} /\ Stage(r)' = "closed"
       /\ UNCHANGED <<Seen(r), Got(r)>>

(* Such a move of one request is a step of the contract.                   *)
LEMMA MoveIsStep ==
    ASSUME NEW r \in Requests, ContractMove(r),
           \A q \in Requests : q # r => UNCHANGED Mapped(q)
    PROVE  [Contract!ContractNext]_(Contract!contractVars)
<1> DEFINE stage == [q \in Requests |-> Stage(q)]
           seen == [q \in Requests |-> Seen(q)]
           got == [q \in Requests |-> Got(q)]
<1>1. /\ stage' = [stage EXCEPT ![r] = Stage(r)']
      /\ seen' = [seen EXCEPT ![r] = Seen(r)']
      /\ got' = [got EXCEPT ![r] = Got(r)']
  BY DEF Mapped
<1>2. /\ stage[r] = Stage(r) /\ seen[r] = Seen(r) /\ got[r] = Got(r)
      /\ \A q \in Requests : stage[q] = Stage(q)
  OBVIOUS
<1>3. CASE UNCHANGED Mapped(r)
  <2>1. stage' = stage /\ seen' = seen /\ got' = got
    BY <1>3 DEF Mapped
  <2> QED
    BY <2>1 DEF Contract!contractVars
<1>4. CASE Stage(r) = "new" /\ Stage(r)' = "open" /\ UNCHANGED <<Seen(r), Got(r)>>
  <2>1. Contract!Accept(r)
    BY <1>1, <1>2, <1>4 DEF Contract!Accept, Contract!Move
  <2> QED
    BY <2>1 DEF Contract!ContractNext
<1>5. CASE /\ Stage(r) = "open" /\ Stage(r)' = "sent"
           /\ Seen(r)' = "inspected request" /\ UNCHANGED Got(r)
  <2>1. Contract!PassOn(r)
    BY <1>1, <1>2, <1>5 DEF Contract!PassOn, Contract!Move
  <2> QED
    BY <2>1 DEF Contract!ContractNext
<1>6. CASE /\ Stage(r) = "sent" /\ Stage(r)' = "closed"
           /\ Got(r)' = "inspected response" /\ UNCHANGED Seen(r)
  <2>1. Contract!Release(r)
    BY <1>1, <1>2, <1>6 DEF Contract!Release, Contract!Move
  <2> QED
    BY <2>1 DEF Contract!ContractNext
<1>7. CASE /\ Stage(r) \in {"open", "sent"} /\ Stage(r)' = "closed"
           /\ Got(r)' = "refusal" /\ UNCHANGED Seen(r)
  <2>1. Contract!Refuse(r)
    BY <1>1, <1>2, <1>7 DEF Contract!Refuse, Contract!Move
  <2> QED
    BY <2>1 DEF Contract!ContractNext
<1>8. CASE /\ Stage(r) \in {"open", "sent"} /\ Stage(r)' = "closed"
           /\ UNCHANGED <<Seen(r), Got(r)>>
  <2>1. /\ {r} \in SUBSET {q \in Requests : stage[q] \in {"open", "sent"}}
        /\ stage' = [q \in Requests |-> IF q \in {r} THEN "closed" ELSE stage[q]]
        /\ seen' = seen /\ got' = got
    BY <1>1, <1>2, <1>8
  <2>2. Contract!Lose
    BY <2>1 DEF Contract!Lose
  <2> QED
    BY <2>2 DEF Contract!ContractNext
<1> QED
  BY <1>3, <1>4, <1>5, <1>6, <1>7, <1>8 DEF ContractMove

(* Between reading and answering a request moves only by being sent.       *)
LEMMA QuietMove ==
    ASSUME NEW r \in Requests, TypeOK, TypeOK', Trail(r), Trail(r)',
           phase[r] \notin {"idle", "answered", "dropped"},
           phase'[r] \notin {"idle", "answered", "dropped"},
           UNCHANGED sent[r]
    PROVE  ContractMove(r)
<1>1. Stage(r)' = Stage(r)
  BY DEF Stage
<1>2. Seen(r)' = Seen(r)
  BY NeverUnchecked, NeverUncheckedNext
<1>3. Got(r)' = Got(r)
  BY NeverUnchecked, NeverUncheckedNext
<1> QED
  BY <1>1, <1>2, <1>3 DEF ContractMove, Mapped

(* Every step of a request is a move of the contract or changes nothing.   *)
LEMMA StepMoves ==
    ASSUME NEW r \in Requests, TypeOK, TypeOK', Trail(r), Trail(r)', Step(r)
    PROVE  ContractMove(r)
<1>1. CASE StartRequest(r)
  <2>1. /\ phase[r] = "idle" /\ phase'[r] = "reading"
        /\ UNCHANGED sent[r]
    BY <1>1 DEF StartRequest, Goto, TypeOK
  <2>2. sent[r].calls = 0
    BY <2>1 DEF Trail, SendingTrail, BeforeSending, Entering
  <2>3. Stage(r) = "new" /\ Stage(r)' = "open"
    BY <2>1, <2>2 DEF Stage
  <2>4. UNCHANGED <<Seen(r), Got(r)>>
    BY <2>1, NeverUnchecked, NeverUncheckedNext
  <2> QED
    BY <2>3, <2>4 DEF ContractMove
<1>2. CASE Send(r)
  <2>1. phase[r] = "forwarding" /\ phase'[r] = "awaiting"
    BY <1>2 DEF Send, Goto, TypeOK
  <2>2. sent[r].calls = 0 /\ sent'[r].calls = 1
    BY <2>1 DEF Trail, SendingTrail, BeforeSending
  <2>3. Stage(r) = "open" /\ Stage(r)' = "sent"
    BY <2>1, <2>2 DEF Stage
  <2>4. Seen(r)' = "inspected request"
    <3>1. sent'[r].calls # 0
      BY <2>2
    <3> QED
      BY <3>1, NeverUncheckedNext
  <2>5. UNCHANGED Got(r)
    BY <2>1, NeverUnchecked, NeverUncheckedNext
  <2> QED
    BY <2>3, <2>4, <2>5 DEF ContractMove
<1>3. CASE Disconnect(r)
  <2>1. /\ phase[r] \notin {"idle", "answered", "dropped"} /\ phase'[r] = "dropped"
        /\ UNCHANGED sent[r]
    BY <1>3 DEF Disconnect, Waiting, Goto, TypeOK
  <2>2. Stage(r) \in {"open", "sent"} /\ Stage(r)' = "closed"
    BY <2>1 DEF Stage
  <2>3. UNCHANGED <<Seen(r), Got(r)>>
    BY <2>1, NeverUnchecked, NeverUncheckedNext
  <2> QED
    BY <2>2, <2>3 DEF ContractMove
<1>4. CASE Answer(r)
  <2>1. /\ phase[r] = "answering" /\ phase'[r] = "answered"
        /\ UNCHANGED <<sent[r], ending[r]>>
    BY <1>4 DEF Answer, Goto, TypeOK
  <2>2. Stage(r) \in {"open", "sent"} /\ Stage(r)' = "closed"
    BY <2>1 DEF Stage
  <2>3. UNCHANGED Seen(r)
    BY <2>1, NeverUnchecked, NeverUncheckedNext
  <2>4. CASE ending[r].status = Relayed
    <3>1. sent[r].calls = 1
      BY <2>4 DEF Trail, EndingTrail
    <3>2. Stage(r) = "sent"
      BY <2>1, <3>1 DEF Stage
    <3>3. Got(r)' = "inspected response"
      BY <2>1, <2>4, NeverUncheckedNext
    <3> QED
      BY <2>2, <2>3, <3>2, <3>3 DEF ContractMove
  <2>5. CASE ending[r].status # Relayed
    <3>1. Got(r)' = "refusal"
      BY <2>1, <2>5, NeverUncheckedNext
    <3> QED
      BY <2>2, <2>3, <3>1 DEF ContractMove
  <2> QED
    BY <2>4, <2>5
<1>5. CASE ReadChunk(r)
  <2>1. /\ phase[r] \notin {"idle", "answered", "dropped"}
        /\ phase'[r] \notin {"idle", "answered", "dropped"}
        /\ UNCHANGED sent[r]
    BY <1>5 DEF ReadChunk, Fail, Finish, Goto, TypeOK
  <2> QED
    BY <2>1, QuietMove
<1>6. CASE PayloadError(r)
  <2>1. /\ phase[r] \notin {"idle", "answered", "dropped"}
        /\ phase'[r] \notin {"idle", "answered", "dropped"}
        /\ UNCHANGED sent[r]
    BY <1>6 DEF PayloadError, Fail, Finish, Goto, TypeOK
  <2> QED
    BY <2>1, QuietMove
<1>7. CASE EndOfBody(r)
  <2>1. /\ phase[r] \notin {"idle", "answered", "dropped"}
        /\ phase'[r] \notin {"idle", "answered", "dropped"}
        /\ UNCHANGED sent[r]
    BY <1>7 DEF EndOfBody, Goto, TypeOK
  <2> QED
    BY <2>1, QuietMove
<1>8. CASE UpstreamAnswers(r)
  <2>1. /\ phase[r] \notin {"idle", "answered", "dropped"}
        /\ phase'[r] \notin {"idle", "answered", "dropped"}
        /\ UNCHANGED sent[r]
    BY <1>8 DEF UpstreamAnswers, Goto, TypeOK
  <2> QED
    BY <2>1, QuietMove
<1>9. CASE SendFails(r)
  <2>1. /\ phase[r] \notin {"idle", "answered", "dropped"}
        /\ phase'[r] \notin {"idle", "answered", "dropped"}
        /\ UNCHANGED sent[r]
    BY <1>9 DEF SendFails, Fail, Finish, Goto, TypeOK
  <2> QED
    BY <2>1, QuietMove
<1>10. CASE CollectFails(r)
  <2>1. /\ phase[r] \notin {"idle", "answered", "dropped"}
        /\ phase'[r] \notin {"idle", "answered", "dropped"}
        /\ UNCHANGED sent[r]
    BY <1>10 DEF CollectFails, Fail, Finish, Goto, TypeOK
  <2> QED
    BY <2>1, QuietMove
<1>11. CASE CollectChunk(r)
  <2>1. /\ phase[r] \notin {"idle", "answered", "dropped"}
        /\ phase'[r] \notin {"idle", "answered", "dropped"}
        /\ UNCHANGED sent[r]
    BY <1>11 DEF CollectChunk, Fail, Finish, Goto, TypeOK
  <2> QED
    BY <2>1, QuietMove
<1>12. CASE EndOfResponse(r)
  <2>1. /\ phase[r] \notin {"idle", "answered", "dropped"}
        /\ phase'[r] \notin {"idle", "answered", "dropped"}
        /\ UNCHANGED sent[r]
    BY <1>12 DEF EndOfResponse, Goto, TypeOK
  <2> QED
    BY <2>1, QuietMove
<1>13. CASE RejectInvalid(r)
  <2>1. /\ phase[r] \notin {"idle", "answered", "dropped"}
        /\ phase'[r] \notin {"idle", "answered", "dropped"}
        /\ UNCHANGED sent[r]
    BY <1>13 DEF RejectInvalid, Fail, Finish, Goto, TypeOK
  <2> QED
    BY <2>1, QuietMove
<1>14. CASE StartInspection(r)
  <2>1. /\ phase[r] \notin {"idle", "answered", "dropped"}
        /\ phase'[r] \notin {"idle", "answered", "dropped"}
        /\ UNCHANGED sent[r]
    BY <1>14 DEF StartInspection, Goto, TypeOK
  <2> QED
    BY <2>1, QuietMove
<1>15. CASE InspectRequest(r)
  <2>1. /\ phase[r] \notin {"idle", "answered", "dropped"}
        /\ phase'[r] \notin {"idle", "answered", "dropped"}
        /\ UNCHANGED sent[r]
    BY <1>15 DEF InspectRequest, BlockRequest, Finish, RewriteRequest, Goto, TypeOK
  <2> QED
    BY <2>1, QuietMove
<1>16. CASE RequestCleared(r)
  <2>1. /\ phase[r] \notin {"idle", "answered", "dropped"}
        /\ phase'[r] \notin {"idle", "answered", "dropped"}
        /\ UNCHANGED sent[r]
    BY <1>16 DEF RequestCleared, Goto, TypeOK
  <2> QED
    BY <2>1, QuietMove
<1>17. CASE MissingKey(r)
  <2>1. /\ phase[r] \notin {"idle", "answered", "dropped"}
        /\ phase'[r] \notin {"idle", "answered", "dropped"}
        /\ UNCHANGED sent[r]
    BY <1>17 DEF MissingKey, Fail, Finish, Goto, TypeOK
  <2> QED
    BY <2>1, QuietMove
<1>18. CASE InspectResponse(r)
  <2>1. /\ phase[r] \notin {"idle", "answered", "dropped"}
        /\ phase'[r] \notin {"idle", "answered", "dropped"}
        /\ UNCHANGED sent[r]
    BY <1>18 DEF InspectResponse, Finish, RewriteResponse, Goto, TypeOK
  <2> QED
    BY <2>1, QuietMove
<1>19. CASE ResponseCleared(r)
  <2>1. /\ phase[r] \notin {"idle", "answered", "dropped"}
        /\ phase'[r] \notin {"idle", "answered", "dropped"}
        /\ UNCHANGED sent[r]
    BY <1>19 DEF ResponseCleared, Finish, Goto, TypeOK
  <2> QED
    BY <2>1, QuietMove
<1>20. CASE Count(r)
  <2>1. /\ phase[r] \notin {"idle", "answered", "dropped"}
        /\ phase'[r] \notin {"idle", "answered", "dropped"}
        /\ UNCHANGED sent[r]
    BY <1>20 DEF Count, Goto, TypeOK
  <2> QED
    BY <2>1, QuietMove
<1>21. CASE Audit(r)
  <2>1. /\ phase[r] \notin {"idle", "answered", "dropped"}
        /\ phase'[r] \notin {"idle", "answered", "dropped"}
        /\ UNCHANGED sent[r]
    BY <1>21 DEF Audit, Goto, TypeOK
  <2> QED
    BY <2>1, QuietMove
<1> QED
  BY <1>1, <1>2, <1>3, <1>4, <1>5, <1>6, <1>7, <1>8, <1>9, <1>10, <1>11,
     <1>12, <1>13, <1>14, <1>15, <1>16, <1>17, <1>18, <1>19, <1>20,
     <1>21 DEF Step, FromClient, FromUpstream, Handle

(* A restart loses the requests that were being handled.                   *)
LEMMA RestartLoses ==
    ASSUME TypeOK, TypeOK', HandlerInv, HandlerInv', Restart
    PROVE  Contract!Lose
<1> DEFINE stage == [q \in Requests |-> Stage(q)]
           lost == {q \in Requests : stage[q] \in {"open", "sent"}}
<1>1. ASSUME NEW q \in Requests
      PROVE  /\ Stage(q)' = IF q \in lost THEN "closed" ELSE Stage(q)
             /\ Seen(q)' = Seen(q)
             /\ Got(q)' = Got(q)
  <2>1. Trail(q) /\ Trail(q)'
    BY DEF HandlerInv, Trail
  <2>2. /\ phase'[q] = IF phase[q] \in Settled THEN phase[q] ELSE "dropped"
        /\ UNCHANGED <<sent[q], ending[q]>>
    BY DEF Restart
  <2>3. q \in lost <=> phase[q] \notin Settled
    BY DEF Stage, Settled
  <2>4. Stage(q)' = IF q \in lost THEN "closed" ELSE Stage(q)
    BY <2>2, <2>3 DEF Stage, Settled
  <2>5. Seen(q)' = Seen(q) /\ Got(q)' = Got(q)
    BY <2>1, <2>2, NeverUnchecked, NeverUncheckedNext DEF Settled
  <2> QED
    BY <2>4, <2>5
<1> QED
  BY <1>1 DEF Contract!Lose

(* Every step of the handler is one of the contract or changes nothing of  *)
(* it.                                                                     *)
LEMMA ContractStep ==
    ASSUME TypeOK, TypeOK', HandlerInv, HandlerInv', [Next]_vars
    PROVE  [Contract!ContractNext]_(Contract!contractVars)
<1>1. ASSUME NEW r \in Requests, Step(r)
      PROVE  [Contract!ContractNext]_(Contract!contractVars)
  <2>1. ASSUME NEW q \in Requests PROVE Trail(q) /\ Trail(q)'
    BY DEF HandlerInv, Trail
  <2>2. ContractMove(r)
    BY <1>1, <2>1, StepMoves
  <2>3. ASSUME NEW q \in Requests, q # r PROVE UNCHANGED Mapped(q)
    <3>1. UNCHANGED <<phase[q], Recorded(q)>>
      BY <1>1, <2>3, OthersUntouched
    <3> QED
      BY <3>1 DEF Mapped, Recorded, Stage, Seen, Got, MayPassOn, InspectedRequest,
             InspectedResponse
  <2> QED
    BY <2>2, <2>3, MoveIsStep
<1>2. CASE Restart
  BY <1>2, RestartLoses DEF Contract!ContractNext
<1>3. CASE Rest \/ UNCHANGED vars
  <2>1. UNCHANGED vars
    BY <1>3 DEF Rest
  <2> QED
    BY <2>1 DEF Contract!contractVars, vars, Stage, Seen, Got, MayPassOn, InspectedRequest,
           InspectedResponse
<1> QED
  BY <1>1, <1>2, <1>3 DEF Next, Step

(* The handler starts where the contract starts.                           *)
LEMMA ContractStart == Init => Contract!ContractInit
<1> SUFFICES ASSUME Init PROVE Contract!ContractInit
  OBVIOUS
<1>1. ASSUME NEW r \in Requests
      PROVE  Stage(r) = "new" /\ Seen(r) = "nothing" /\ Got(r) = "nothing"
  BY DEF Init, Stage, Seen, Got, NotSent
<1> QED
  BY <1>1 DEF Contract!ContractInit

(* The handler implements the safety part of the firewall's contract: the  *)
(* upstream is given a request at most once, inspected and with its key,   *)
(* the client an inspected response or a refusal, in that order.           *)
THEOREM ContractRefinement == Spec => Contract!ContractSafety
<1>1. Init => Contract!ContractInit
  BY ContractStart
<1>2. /\ TypeOK /\ HandlerInv /\ (TypeOK /\ HandlerInv)' /\ [Next]_vars
      => [Contract!ContractNext]_(Contract!contractVars)
  BY ContractStep
<1> QED
  BY <1>1, <1>2, Invariant, PTL DEF Spec, Contract!ContractSafety
====
