---- MODULE ProxyAccountProofs ----
(***************************************************************************)
(* Proofs about what ProxyHandler counts and records, for any number of    *)
(* requests, any limits, detectors and restarts: a client is answered with *)
(* exactly the audit record of its answer, and the counters of a process   *)
(* are the numbers of its requests that ended as their HELP texts say.     *)
(*                                                                         *)
(* AccountInv is inductive together with the types and HandlerInv.  Its    *)
(* part for one request is shown action by action; only StartRequest and   *)
(* Count change a counter, and both change a set of requests by one.       *)
(***************************************************************************)
EXTENDS ProxyHandlerProofs, FiniteSetTheorems

(***************************************************************************)
(* The trails of the account.                                              *)
(***************************************************************************)
Account(r) == AccountTrail(r) /\ AuditTrail(r)

(* What the account of a request depends on, besides its phase.            *)
Accounted(r) ==
    <<process, input[r], body[r], response[r], requestResults[r], responseResults[r],
      ending[r], sent[r], startedIn[r], audited[r]>>

(* Nothing of a response can have come yet.                                *)
Early == BeforeSending \cup {"awaiting"}

(* Validation looks at the input and the body only.                        *)
LEMMA MisfitSame ==
    ASSUME NEW r \in Requests, UNCHANGED <<input[r], body[r]>>
    PROVE  Misfit(r)' <=> Misfit(r)
  BY DEF Misfit, Violates, IsAllowedPath, HasEnvelope

(* So does everything a way to end is told by.                             *)
LEMMA EndedSame ==
    ASSUME NEW r \in Requests, UNCHANGED Accounted(r)
    PROVE  EndedOneWay(r)' <=> EndedOneWay(r)
<1>1. Misfit(r)' <=> Misfit(r)
  BY MisfitSame DEF Accounted
<1> QED
  BY <1>1 DEF EndedOneWay, Accepted, RequestBlocked, ResponseBlocked, Invalid, Failed,
         Accounted

(* Every request starts with an empty account.                             *)
LEMMA Account_Init == ASSUME Init, NEW r \in Requests PROVE Account(r)
  BY DEF Init, Account, AccountTrail, AuditTrail, Ended, Entering, Leaving, Settled

(* The account of a request nothing happened to.                           *)
LEMMA Account_Others ==
    ASSUME NEW q \in Requests, Account(q), UNCHANGED <<phase[q], Accounted(q)>>
    PROVE  Account(q)'
<1>1. (Misfit(q)' <=> Misfit(q)) /\ (EndedOneWay(q)' <=> EndedOneWay(q))
  BY MisfitSame, EndedSame DEF Accounted
<1> QED
  BY <1>1 DEF Account, AccountTrail, AuditTrail, NeedsAudit, Accounted

(* A request that is dropped, in this process or with it.                  *)
LEMMA Account_Dropped ==
    ASSUME TypeOK, TypeOK', NEW q \in Requests, Account(q), phase'[q] = "dropped",
           UNCHANGED <<startedIn[q], audited[q]>>, process <= process'
    PROVE  Account(q)'
<1>1. startedIn[q] \in Int /\ process \in Int /\ process' \in Int
  BY DEF TypeOK
<1>2. startedIn'[q] <= process'
  BY <1>1 DEF Account, AccountTrail
<1> QED
  BY <1>2 DEF Account, AccountTrail, AuditTrail, Ended, Entering, Leaving, Settled,
         BeforeSending

(* A request that goes on, or ends one way, before it is counted.          *)
LEMMA Account_On ==
    ASSUME NEW r \in Requests, Account(r),
           phase[r] \notin Leaving \cup Settled,
           phase'[r] \notin {"idle", "auditing", "answering", "answered", "dropped"},
           UNCHANGED <<process, startedIn[r], audited[r]>>,
           phase'[r] = "counting" => EndedOneWay(r)',
           phase'[r] \notin Entering \cup Leaving => ~Misfit(r)',
           phase'[r] \in Early => response'[r] = 0
    PROVE  Account(r)'
  BY DEF Account, AccountTrail, AuditTrail, Ended, Leaving, Settled, Early

(* A request that goes on with the input and body it has.                  *)
LEMMA Account_Onward ==
    ASSUME NEW r \in Requests, Account(r),
           phase[r] \notin Leaving \cup Settled,
           phase'[r] \notin Leaving \cup Settled,
           phase[r] \in Entering => phase'[r] \in Entering,
           phase'[r] \in Early => phase[r] \in Early /\ UNCHANGED response[r],
           UNCHANGED <<process, input[r], body[r], startedIn[r], audited[r]>>
    PROVE  Account(r)'
<1>1. phase'[r] \notin Entering \cup Leaving => ~Misfit(r)'
  BY MisfitSame DEF Account, AccountTrail
<1>2. phase'[r] \in Early => response'[r] = 0
  BY DEF Account, AccountTrail, Early
<1> QED
  BY <1>1, <1>2, Account_On DEF Leaving, Settled

(* A request that fails after no block, with 413 or after validation.      *)
LEMMA Account_Fail ==
    ASSUME TypeOK, NEW r \in Requests, Trail(r), Account(r),
           phase[r] \in {"reading", "forwarding", "awaiting", "collecting"},
           NEW counter, NEW e \in Errors, Fail(r, counter, e),
           \/ counter = "upstream_errors" /\ e \in {"MissingUpstreamApiKey", "Upstream"}
           \/ counter = "proxy_errors"
                 /\ e \in {"BodyTooLarge", "ResponseTooLarge", "Upstream"},
           phase[r] = "reading" => e = "BodyTooLarge",
           phase[r] # "reading" => UNCHANGED <<input[r], body[r]>>,
           counter = "upstream_errors" => phase[r] # "collecting" /\ UNCHANGED response[r],
           UNCHANGED <<process, startedIn[r], audited[r], requestResults[r],
                       responseResults[r]>>
    PROVE  Account(r)'
<1>1. phase'[r] = "counting" /\ ending'[r] = [counter |-> counter, event |-> "none",
                                              status |-> StatusOf(e)]
  BY DEF Fail, Finish, Goto, TypeOK
<1>2. \/ counter = "upstream_errors" /\ StatusOf(e) \in {500, 502}
      \/ counter = "proxy_errors" /\ StatusOf(e) \in {413, 502}
  BY DEF StatusOf
<1>3. Misfit(r)' => StatusOf(e) = 413
  <2>1. CASE phase[r] = "reading"
    BY <2>1 DEF StatusOf
  <2>2. CASE phase[r] # "reading"
    BY <2>2, MisfitSame DEF Account, AccountTrail, Entering, Leaving
  <2> QED
    BY <2>1, <2>2
<1>4. ~Blocked(requestResults'[r])
  <2>1. CASE phase[r] = "reading"
    BY <2>1, ChainType, NothingRecorded DEF Trail, RequestTrail, Entering
  <2>2. CASE phase[r] = "forwarding"
    BY <2>2 DEF Trail, RequestTrail, Cleared
  <2>3. CASE phase[r] \in {"awaiting", "collecting"}
    BY <2>3 DEF Trail, SendingTrail, MayPassOn, InspectedRequest, Cleared
  <2> QED
    BY <2>1, <2>2, <2>3
<1>5. ~Blocked(responseResults'[r])
  BY ChainType, NothingRecorded
     DEF Trail, ResponseTrail, BeforeScreening, BeforeSending, Entering
<1>6. Failed(r)'
  <2>1. counter = "upstream_errors" => response'[r] = 0
    BY DEF Account, AccountTrail, BeforeSending, Entering
  <2> QED
    BY <1>1, <1>2, <1>3, <1>4, <1>5, <2>1 DEF Failed
<1> QED
  BY <1>1, <1>6, Account_On
     DEF EndedOneWay, Entering, Leaving, Settled, Early, BeforeSending

-----------------------------------------------------------------------------
(***************************************************************************)
(* The account of a request under its own steps.                           *)
(***************************************************************************)
(* The body ends.                                                          *)
LEMMA Account_EndOfBody ==
    ASSUME TypeOK, NEW r \in Requests, Account(r), EndOfBody(r) PROVE Account(r)'
<1>1. /\ phase[r] = "reading" /\ phase'[r] = "validating"
      /\ UNCHANGED <<process, input[r], body[r], response[r], startedIn[r], audited[r]>>
  BY DEF EndOfBody, Goto, TypeOK, server, reading, responseCtx
<1> QED
  BY <1>1, Account_Onward DEF Entering, Leaving, Settled, Early, BeforeSending

(* The upstream answers.                                                   *)
LEMMA Account_UpstreamAnswers ==
    ASSUME TypeOK, NEW r \in Requests, Account(r), UpstreamAnswers(r) PROVE Account(r)'
<1>1. /\ phase[r] = "awaiting" /\ phase'[r] = "collecting"
      /\ UNCHANGED <<process, input[r], body[r], startedIn[r], audited[r]>>
  BY DEF UpstreamAnswers, Goto, TypeOK, server, reading
<1> QED
  BY <1>1, Account_Onward DEF Entering, Leaving, Settled, Early, BeforeSending

(* The response ends.                                                      *)
LEMMA Account_EndOfResponse ==
    ASSUME TypeOK, NEW r \in Requests, Account(r), EndOfResponse(r) PROVE Account(r)'
<1>1. /\ phase[r] = "collecting" /\ phase'[r] = "screening"
      /\ UNCHANGED <<process, input[r], body[r], response[r], startedIn[r], audited[r]>>
  BY DEF EndOfResponse, Goto, TypeOK, server, reading, responseCtx
<1> QED
  BY <1>1, Account_Onward DEF Entering, Leaving, Settled, Early, BeforeSending

(* The request chain is done.                                              *)
LEMMA Account_RequestCleared ==
    ASSUME TypeOK, NEW r \in Requests, Account(r), RequestCleared(r) PROVE Account(r)'
<1>1. /\ phase[r] = "inspecting" /\ phase'[r] = "forwarding"
      /\ UNCHANGED <<process, input[r], body[r], response[r], startedIn[r], audited[r]>>
  BY DEF RequestCleared, Goto, TypeOK, server, reading, responseCtx
<1> QED
  BY <1>1, Account_Onward DEF Entering, Leaving, Settled, Early, BeforeSending

(* The request is sent.                                                    *)
LEMMA Account_Send ==
    ASSUME TypeOK, NEW r \in Requests, Account(r), Send(r) PROVE Account(r)'
<1>1. /\ phase[r] = "forwarding" /\ phase'[r] = "awaiting"
      /\ UNCHANGED <<process, input[r], body[r], response[r], startedIn[r], audited[r]>>
  BY DEF Send, Goto, TypeOK, server, reading, responseCtx
<1> QED
  BY <1>1, Account_Onward DEF Entering, Leaving, Settled, Early, BeforeSending

(* A request that passes validation fits.                                  *)
LEMMA Account_StartInspection ==
    ASSUME TypeOK, NEW r \in Requests, Account(r), StartInspection(r) PROVE Account(r)'
<1>1. /\ phase[r] = "validating" /\ phase'[r] = "inspecting"
      /\ UNCHANGED <<process, input[r], body[r], response[r], startedIn[r], audited[r]>>
  BY DEF StartInspection, Goto, TypeOK, server, reading, responseCtx
<1>2. ~Misfit(r)
  BY DEF StartInspection, Misfit
<1>3. ~Misfit(r)'
  BY <1>1, <1>2, MisfitSame
<1> QED
  BY <1>1, <1>3, Account_On
     DEF Account, AccountTrail, Entering, Leaving, Settled, Early, BeforeSending

(* A request is handled by the process that started it.                    *)
LEMMA Account_StartRequest ==
    ASSUME TypeOK, NEW r \in Requests, Account(r), StartRequest(r) PROVE Account(r)'
<1>1. /\ phase[r] = "idle" /\ phase'[r] = "reading"
      /\ startedIn'[r] = process /\ UNCHANGED <<process, audited, response>>
      /\ process \in Int
  BY DEF StartRequest, Goto, TypeOK, server, responseCtx
<1> QED
  BY <1>1 DEF Account, AccountTrail, AuditTrail, Ended, Entering, Leaving, Settled,
         BeforeSending

(* Failures.                                                               *)
LEMMA Account_PayloadError ==
    ASSUME TypeOK, NEW r \in Requests, Trail(r), Account(r), PayloadError(r) PROVE Account(r)'
<1>1. /\ phase[r] = "reading" /\ Fail(r, "proxy_errors", "BodyTooLarge")
      /\ UNCHANGED <<process, input[r], body[r], response[r], startedIn[r], audited[r],
                     requestResults[r], responseResults[r]>>
  BY DEF PayloadError, server, reading, requestCtx, responseCtx
<1> QED
  BY <1>1, Account_Fail DEF Errors

LEMMA Account_SendFails ==
    ASSUME TypeOK, NEW r \in Requests, Trail(r), Account(r), SendFails(r) PROVE Account(r)'
<1>1. /\ phase[r] = "awaiting" /\ Fail(r, "upstream_errors", "Upstream")
      /\ UNCHANGED <<process, input[r], body[r], response[r], startedIn[r], audited[r],
                     requestResults[r], responseResults[r]>>
  BY DEF SendFails, server, reading, requestCtx, responseCtx
<1> QED
  BY <1>1, Account_Fail DEF Errors

LEMMA Account_CollectFails ==
    ASSUME TypeOK, NEW r \in Requests, Trail(r), Account(r), CollectFails(r) PROVE Account(r)'
<1>1. /\ phase[r] = "collecting" /\ Fail(r, "proxy_errors", "Upstream")
      /\ UNCHANGED <<process, input[r], body[r], response[r], startedIn[r], audited[r],
                     requestResults[r], responseResults[r]>>
  BY DEF CollectFails, server, reading, requestCtx, responseCtx
<1> QED
  BY <1>1, Account_Fail DEF Errors

LEMMA Account_MissingKey ==
    ASSUME TypeOK, NEW r \in Requests, Trail(r), Account(r), MissingKey(r) PROVE Account(r)'
<1>1. /\ phase[r] = "forwarding" /\ Fail(r, "upstream_errors", "MissingUpstreamApiKey")
      /\ UNCHANGED <<process, input[r], body[r], response[r], startedIn[r], audited[r],
                     requestResults[r], responseResults[r]>>
  BY DEF MissingKey, server, reading, requestCtx, responseCtx
<1> QED
  BY <1>1, Account_Fail DEF Errors

(* A chunk is kept, or the body or the response is too large.              *)
LEMMA Account_ReadChunk ==
    ASSUME TypeOK, NEW r \in Requests, Trail(r), Account(r), ReadChunk(r) PROVE Account(r)'
<1>1. /\ phase[r] = "reading"
      /\ UNCHANGED <<process, response[r], startedIn[r], audited[r], requestResults[r],
                     responseResults[r]>>
  BY DEF ReadChunk, server, requestCtx, responseCtx
<1>2. CASE Fail(r, "proxy_errors", "BodyTooLarge")
  BY <1>1, <1>2, Account_Fail DEF Errors
<1>3. CASE UNCHANGED phase
  BY <1>1, <1>3, Account_On
     DEF Account, AccountTrail, Entering, Leaving, Settled, Early, BeforeSending
<1> QED
  BY <1>2, <1>3 DEF ReadChunk

LEMMA Account_CollectChunk ==
    ASSUME TypeOK, NEW r \in Requests, Trail(r), Account(r), CollectChunk(r)
    PROVE  Account(r)'
<1>1. /\ phase[r] = "collecting"
      /\ UNCHANGED <<process, input[r], body[r], startedIn[r], audited[r],
                     requestResults[r], responseResults[r]>>
  BY DEF CollectChunk, server, reading, requestCtx
<1>2. CASE Fail(r, "proxy_errors", "ResponseTooLarge")
  BY <1>1, <1>2, Account_Fail DEF Errors
<1>3. CASE UNCHANGED phase
  BY <1>1, <1>3, Account_Onward DEF Entering, Leaving, Settled, Early, BeforeSending
<1> QED
  BY <1>2, <1>3 DEF CollectChunk

(* A request that does not fit is refused for it.                          *)
LEMMA Account_RejectInvalid ==
    ASSUME TypeOK, NEW r \in Requests, Trail(r), Account(r), RejectInvalid(r)
    PROVE  Account(r)'
<1>1. /\ phase[r] = "validating"
      /\ UNCHANGED <<process, input[r], body[r], response[r], startedIn[r], audited[r],
                     requestResults[r], responseResults[r], sent[r]>>
  BY DEF RejectInvalid, server, reading, requestCtx, responseCtx
<1>2. PICK i \in DOMAIN Checks : /\ Violates(r)[Checks[i]]
                                 /\ Fail(r, "validation_errors", Checks[i])
  BY DEF RejectInvalid, FirstViolation
<1>3. Checks[i] \in {"PathNotAllowed", "MethodNotAllowed", "MissingBody",
                     "UnsupportedContentType", "InvalidJson", "InvalidRequest"}
  BY DEF Checks
<1>4. StatusOf(Checks[i]) \in {400, 404, 405, 415}
  BY <1>3 DEF StatusOf
<1>5. /\ phase'[r] = "counting"
      /\ ending'[r] = [counter |-> "validation_errors", event |-> "none",
                       status |-> StatusOf(Checks[i])]
  BY <1>2 DEF Fail, Finish, Goto, TypeOK
<1>6. Misfit(r)'
  BY <1>1, <1>2, MisfitSame DEF Misfit
<1>7. /\ ~Blocked(requestResults[r]) /\ ~Blocked(responseResults[r])
      /\ sent[r].calls = 0
  BY <1>1, ChainType, NothingRecorded
     DEF Trail, RequestTrail, SendingTrail, ResponseTrail, BeforeScreening, BeforeSending,
         Entering
<1>8. Invalid(r)'
  BY <1>1, <1>4, <1>5, <1>6, <1>7 DEF Invalid
<1> QED
  BY <1>1, <1>5, <1>8, Account_On
     DEF EndedOneWay, Entering, Leaving, Settled, Early, BeforeSending

(* A block of the request chain comes before anything is sent.             *)
LEMMA Account_InspectRequest ==
    ASSUME TypeOK, NEW r \in Requests, Trail(r), Account(r), InspectRequest(r)
    PROVE  Account(r)'
<1> DEFINE results == requestResults[r]
           d == NextDetector(RequestChain, results)
<1>1. /\ phase[r] = "inspecting"
      /\ Len(results) < Len(RequestChain)
      /\ UNCHANGED <<process, input[r], body[r], response[r], startedIn[r], audited[r],
                     responseResults[r], sent[r]>>
  BY DEF InspectRequest, server, reading, responseCtx
<1>2. results \in Seq(Results) /\ d \in Detectors
  BY <1>1, ChainType, NextDetectorType DEF TypeOK
<1>3. PICK finding \in Findings[d] \cup {"pass"} :
         /\ requestResults' = [requestResults EXCEPT ![r] = Append(@, finding)]
         /\ IF finding = "block" THEN BlockRequest(r, d) ELSE UNCHANGED <<phase, ending>>
  BY DEF InspectRequest
<1> HIDE DEF d, results
<1>4. finding \in Results
  BY <1>2, <1>3, FindingsAreResults DEF Results
<1>5. requestResults'[r] = Append(results, finding)
  BY <1>3 DEF results, TypeOK
<1>6. ~Misfit(r)
  BY <1>1 DEF Account, AccountTrail, Entering, Leaving
<1>7. CASE finding = "block"
  <2>1. /\ phase'[r] = "counting"
        /\ ending'[r] = [counter |-> "request_blocks", event |-> "blocked_request",
                         status |-> BlockStatus(d)]
    BY <1>3, <1>7 DEF BlockRequest, Finish, Goto, TypeOK
  <2>2. BlockStatus(d) \in {403, 429}
    BY DEF BlockStatus
  <2>3. Blocked(requestResults'[r])
    BY <1>2, <1>4, <1>5, <1>7, BlockedAppend
  <2>4. ~Blocked(responseResults[r]) /\ sent[r].calls = 0
    BY <1>1, ChainType, NothingRecorded
       DEF Trail, SendingTrail, ResponseTrail, BeforeScreening, BeforeSending
  <2>5. ~Misfit(r)'
    BY <1>1, <1>6, MisfitSame
  <2>6. RequestBlocked(r)'
    BY <1>1, <2>1, <2>2, <2>3, <2>4, <2>5 DEF RequestBlocked
  <2> QED
    BY <1>1, <2>1, <2>6, Account_On
     DEF EndedOneWay, Entering, Leaving, Settled, Early, BeforeSending
<1>8. CASE finding # "block"
  <2>1. UNCHANGED phase
    BY <1>3, <1>8
  <2> QED
    BY <1>1, <2>1, Account_Onward DEF Entering, Leaving, Settled, Early, BeforeSending
<1> QED
  BY <1>7, <1>8

(* A block of the response chain comes after the request was cleared.      *)
LEMMA Account_InspectResponse ==
    ASSUME TypeOK, NEW r \in Requests, Trail(r), Account(r), InspectResponse(r)
    PROVE  Account(r)'
<1> DEFINE results == responseResults[r]
           d == NextDetector(ResponseChain, results)
<1>1. /\ phase[r] = "screening"
      /\ Len(results) < Len(ResponseChain)
      /\ UNCHANGED <<process, input[r], body[r], response[r], startedIn[r], audited[r],
                     requestResults[r], sent[r]>>
  BY DEF InspectResponse, server, reading, requestCtx, responseCtx
<1>2. results \in Seq(Results) /\ d \in Detectors
  BY <1>1, ChainType, NextDetectorType DEF TypeOK
<1>3. PICK finding \in Findings[d] :
         /\ responseResults' = [responseResults EXCEPT ![r] = Append(@, finding)]
         /\ IF finding = "block"
            THEN Finish(r, "response_blocks", "blocked_response", BlockStatus(d))
            ELSE UNCHANGED <<phase, ending>>
  BY DEF InspectResponse
<1> HIDE DEF d, results
<1>4. finding \in Results
  BY <1>2, <1>3, FindingsAreResults
<1>5. responseResults'[r] = Append(results, finding)
  BY <1>3 DEF results, TypeOK
<1>6. ~Misfit(r)
  BY <1>1 DEF Account, AccountTrail, Entering, Leaving
<1>7. CASE finding = "block"
  <2>1. /\ phase'[r] = "counting"
        /\ ending'[r] = [counter |-> "response_blocks", event |-> "blocked_response",
                         status |-> BlockStatus(d)]
    BY <1>3, <1>7 DEF Finish, Goto, TypeOK
  <2>2. BlockStatus(d) \in {403, 429}
    BY DEF BlockStatus
  <2>3. Blocked(responseResults'[r])
    BY <1>2, <1>4, <1>5, <1>7, BlockedAppend
  <2>4. ~Blocked(requestResults[r]) /\ sent[r].calls = 1
    BY <1>1 DEF Trail, SendingTrail, MayPassOn, InspectedRequest, Cleared
  <2>5. ~Misfit(r)'
    BY <1>1, <1>6, MisfitSame
  <2>6. ResponseBlocked(r)'
    BY <1>1, <2>1, <2>2, <2>3, <2>4, <2>5 DEF ResponseBlocked
  <2> QED
    BY <1>1, <2>1, <2>6, Account_On
     DEF EndedOneWay, Entering, Leaving, Settled, Early, BeforeSending
<1>8. CASE finding # "block"
  <2>1. UNCHANGED phase
    BY <1>3, <1>8
  <2> QED
    BY <1>1, <2>1, Account_Onward DEF Entering, Leaving, Settled, Early, BeforeSending
<1> QED
  BY <1>7, <1>8

(* A response that is cleared is relayed.                                  *)
LEMMA Account_ResponseCleared ==
    ASSUME TypeOK, NEW r \in Requests, Trail(r), Account(r), ResponseCleared(r)
    PROVE  Account(r)'
<1>1. /\ phase[r] = "screening" /\ phase'[r] = "counting"
      /\ ending'[r] = [counter |-> "requests_allowed", event |-> "allowed",
                       status |-> Relayed]
      /\ UNCHANGED <<process, input[r], body[r], response[r], startedIn[r], audited[r],
                     requestResults[r], responseResults[r], sent[r]>>
  BY DEF ResponseCleared, Finish, Goto, TypeOK, server, reading, requestCtx, responseCtx
<1>2. /\ sent[r].calls = 1
      /\ ~Blocked(requestResults[r]) /\ ~Blocked(responseResults[r])
  BY <1>1 DEF Trail, SendingTrail, MayPassOn, InspectedRequest, Cleared, ResponseTrail
<1>3. ~Misfit(r)'
  BY <1>1, MisfitSame DEF Account, AccountTrail, Entering, Leaving
<1>4. Accepted(r)'
  BY <1>1, <1>2, <1>3 DEF Accepted
<1> QED
  BY <1>1, <1>4, Account_On
     DEF EndedOneWay, Entering, Leaving, Settled, Early, BeforeSending

(* Counting, auditing and answering leave the way a request ended.         *)
LEMMA Account_Count ==
    ASSUME TypeOK, NEW r \in Requests, Account(r), Count(r) PROVE Account(r)'
<1>1. /\ phase[r] = "counting"
      /\ phase'[r] = IF NeedsAudit(r) THEN "auditing" ELSE "answering"
      /\ UNCHANGED Accounted(r)
  BY DEF Count, Goto, TypeOK, Accounted, server, reading, requestCtx, responseCtx
<1>2. EndedOneWay(r)' <=> EndedOneWay(r)
  BY <1>1, EndedSame
<1> QED
  BY <1>1, <1>2 DEF Account, AccountTrail, AuditTrail, NeedsAudit, Accounted, Ended,
         Entering, Leaving, Settled, BeforeSending

LEMMA Account_Audit ==
    ASSUME TypeOK, NEW r \in Requests, Trail(r), Account(r), Audit(r) PROVE Account(r)'
<1>1. /\ phase[r] = "auditing" /\ phase'[r] = "answering"
      /\ audited'[r] = Append(audited[r], ending[r].event)
      /\ UNCHANGED <<process, input[r], body[r], response[r], requestResults[r],
                     responseResults[r], ending[r], sent[r], startedIn[r]>>
  BY DEF Audit, Goto, TypeOK, server, reading, requestCtx, responseCtx
<1>2. EndedOneWay(r)' <=> EndedOneWay(r)
  <2>1. Misfit(r)' <=> Misfit(r)
    BY <1>1, MisfitSame
  <2> QED
    BY <1>1, <2>1 DEF EndedOneWay, Accepted, RequestBlocked, ResponseBlocked, Invalid,
           Failed
<1>3. audited[r] = <<>> /\ NeedsAudit(r)
  BY <1>1 DEF Account, AuditTrail, Trail, EndingTrail
<1>4. audited'[r] = <<ending[r].event>> /\ Len(audited'[r]) <= 1
  BY <1>1, <1>3
<1> QED
  BY <1>1, <1>2, <1>3, <1>4 DEF Account, AccountTrail, AuditTrail, NeedsAudit, Ended,
         Entering, Leaving, Settled, BeforeSending

LEMMA Account_Answer ==
    ASSUME TypeOK, NEW r \in Requests, Account(r), Answer(r) PROVE Account(r)'
<1>1. /\ phase[r] = "answering" /\ phase'[r] = "answered"
      /\ UNCHANGED Accounted(r)
  BY DEF Answer, Goto, TypeOK, Accounted, server, reading, requestCtx, responseCtx
<1>2. EndedOneWay(r)' <=> EndedOneWay(r)
  BY <1>1, EndedSame
<1> QED
  BY <1>1, <1>2 DEF Account, AccountTrail, AuditTrail, NeedsAudit, Accounted, Ended,
         Entering, Leaving, Settled, BeforeSending

(* A client that goes away leaves no record.                               *)
LEMMA Account_Disconnect ==
    ASSUME TypeOK, TypeOK', NEW r \in Requests, Account(r), Disconnect(r)
    PROVE  Account(r)'
<1>1. /\ phase'[r] = "dropped"
      /\ UNCHANGED <<process, startedIn[r], audited[r]>>
      /\ process \in Int
  BY DEF Disconnect, Goto, TypeOK, server, reading
<1>2. process <= process'
  BY <1>1
<1> QED
  BY <1>1, <1>2, Account_Dropped

-----------------------------------------------------------------------------
(***************************************************************************)
(* The counters.                                                           *)
(***************************************************************************)
Begun == {r \in Requests : OfThisProcess(r)}

LEMMA CountedFinite ==
    /\ IsFiniteSet(Begun)
    /\ \A c : IsFiniteSet(EndedWith(c))
<1>1. Begun \in SUBSET Requests /\ \A c : EndedWith(c) \in SUBSET Requests
  BY DEF Begun, EndedWith
<1> QED
  BY <1>1, HandlerAssumption, FS_Subset DEF HandlerAssumption

(* A request that is not counted may change its ending.                    *)
LEMMA Tally_Others ==
    ASSUME Tally, UNCHANGED metrics,
           \A q \in Requests :
              /\ OfThisProcess(q)' <=> OfThisProcess(q)
              /\ Counted(q)' <=> Counted(q)
              /\ Counted(q) => UNCHANGED ending[q].counter
    PROVE  Tally'
<1>1. Begun' = Begun
  BY DEF Begun
<1>2. \A c : EndedWith(c)' = EndedWith(c)
  BY DEF EndedWith
<1> QED
  BY <1>1, <1>2 DEF Tally, Begun

(* A process counts the requests it starts.                                *)
LEMMA Tally_StartRequest ==
    ASSUME TypeOK, NEW r \in Requests, Tally, StartRequest(r) PROVE Tally'
<1>1. /\ phase[r] = "idle" /\ phase'[r] = "reading" /\ startedIn'[r] = process
      /\ UNCHANGED <<process, ending>>
      /\ \A q \in Requests \ {r} : phase'[q] = phase[q] /\ startedIn'[q] = startedIn[q]
  BY DEF StartRequest, Goto, TypeOK, server
<1>2. /\ metrics'["requests_started"] = metrics["requests_started"] + 1
      /\ \A c \in Counters \ {"requests_started"} : metrics'[c] = metrics[c]
  BY DEF StartRequest, Increment, TypeOK, Counters
<1>3. \A q \in Requests \ {r} :
          (OfThisProcess(q)' <=> OfThisProcess(q)) /\ (Counted(q)' <=> Counted(q))
  BY <1>1 DEF OfThisProcess, Counted
<1>4. ~OfThisProcess(r) /\ OfThisProcess(r)' /\ ~Counted(r) /\ ~Counted(r)'
  BY <1>1 DEF OfThisProcess, Counted
<1>5. r \notin Begun /\ Begun' = Begun \cup {r}
  BY <1>3, <1>4 DEF Begun
<1>6. \A c : EndedWith(c)' = EndedWith(c)
  BY <1>1, <1>3, <1>4 DEF EndedWith
<1>7. Cardinality(Begun') = Cardinality(Begun) + 1
  BY <1>5, CountedFinite, FS_AddElement
<1> QED
  BY <1>2, <1>6, <1>7 DEF Tally, Begun

(* What is counted is the request that ended, under the way it ended.      *)
LEMMA Tally_Count ==
    ASSUME TypeOK, NEW r \in Requests, Account(r), Tally, Count(r) PROVE Tally'
<1>1. /\ phase[r] = "counting"
      /\ phase'[r] \in {"auditing", "answering"}
      /\ UNCHANGED <<process, ending, startedIn>>
      /\ \A q \in Requests \ {r} : phase'[q] = phase[q]
  BY DEF Count, Goto, TypeOK, server, reading
<1>2. PICK k \in Counters \ {"requests_started"} : k = ending[r].counter
  BY <1>1 DEF Account, AccountTrail, Ended, EndedOneWay, Accepted, RequestBlocked,
         ResponseBlocked, Invalid, Failed, Counters
<1>3. startedIn[r] = process
  BY <1>1 DEF Account, AccountTrail, Settled
<1>4. /\ metrics'[k] = metrics[k] + 1
      /\ \A c \in Counters \ {k} : metrics'[c] = metrics[c]
  BY <1>2 DEF Count, Increment, TypeOK
<1>5. \A q \in Requests : OfThisProcess(q)' <=> OfThisProcess(q)
  BY <1>1 DEF OfThisProcess
<1>6. \A q \in Requests \ {r} : Counted(q)' <=> Counted(q)
  BY <1>1, <1>5 DEF Counted
<1>7. ~Counted(r) /\ Counted(r)'
  BY <1>1, <1>3 DEF Counted, OfThisProcess
<1>8. Begun' = Begun
  BY <1>5 DEF Begun
<1>9. r \notin EndedWith(k) /\ EndedWith(k)' = EndedWith(k) \cup {r}
  BY <1>1, <1>2, <1>6, <1>7 DEF EndedWith
<1>10. \A c : c # k => EndedWith(c)' = EndedWith(c)
  BY <1>1, <1>2, <1>6, <1>7 DEF EndedWith
<1>11. Cardinality(EndedWith(k)') = Cardinality(EndedWith(k)) + 1
  BY <1>9, CountedFinite, FS_AddElement
<1>12. metrics'["requests_started"] = metrics["requests_started"]
  BY <1>2, <1>4 DEF Counters
<1>13. ASSUME NEW c \in Counters \ {"requests_started"}
       PROVE  metrics'[c] = Cardinality(EndedWith(c)')
  <2>1. CASE c = k
    BY <1>4, <1>11, <2>1 DEF Tally
  <2>2. CASE c # k
    BY <1>4, <1>10, <2>2 DEF Tally
  <2> QED
    BY <2>1, <2>2
<1> QED
  BY <1>8, <1>12, <1>13 DEF Tally, Begun

(* A process that has just started has counted nothing.                    *)
LEMMA Tally_Restart ==
    ASSUME TypeOK, \A q \in Requests : Account(q), Restart PROVE Tally'
<1>1. process' = process + 1 /\ UNCHANGED startedIn
  BY DEF Restart, reading
<1>2. \A q \in Requests : startedIn'[q] # process'
  BY <1>1 DEF Account, AccountTrail, TypeOK
<1>3. Begun' = {} /\ \A c : EndedWith(c)' = {}
  BY <1>2 DEF Begun, EndedWith, Counted, OfThisProcess
<1>4. \A c \in Counters : metrics'[c] = 0
  BY DEF Restart
<1> QED
  BY <1>3, <1>4, FS_EmptySet DEF Tally, Begun, Counters

-----------------------------------------------------------------------------
(***************************************************************************)
(* Putting the actions together.                                           *)
(***************************************************************************)
(* A step of one request leaves the account of the others alone.           *)
LEMMA OthersUncharged ==
    ASSUME TypeOK, NEW r \in Requests, Step(r), NEW q \in Requests, q # r
    PROVE  UNCHANGED <<phase[q], Accounted(q)>>
<1>1. UNCHANGED <<phase[q], Recorded(q)>>
  BY OthersUntouched
<1>2. UNCHANGED <<process, input>> /\ UNCHANGED startedIn[q] /\ UNCHANGED audited[q]
  <2>1. CASE StartRequest(r)
    BY <2>1 DEF StartRequest, TypeOK, server
  <2>2. CASE Audit(r)
    BY <2>2 DEF Audit, TypeOK, server, reading
  <2>3. CASE ReadChunk(r) \/ PayloadError(r) \/ EndOfBody(r) \/ Disconnect(r)
    BY <2>3 DEF ReadChunk, PayloadError, EndOfBody, Disconnect, server, reading
  <2>4. CASE FromUpstream(r)
    BY <2>4 DEF FromUpstream, UpstreamAnswers, SendFails, CollectFails, CollectChunk,
           EndOfResponse, server, reading
  <2>5. CASE Handle(r) /\ ~Audit(r)
    BY <2>5 DEF Handle, RejectInvalid, StartInspection, InspectRequest, RequestCleared,
           MissingKey, Send, InspectResponse, ResponseCleared, Count, Answer, server, reading
  <2> QED
    BY <2>1, <2>2, <2>3, <2>4, <2>5 DEF Step, FromClient
<1> QED
  BY <1>1, <1>2 DEF Accounted, Recorded

(* A step that does not count leaves what is counted as it is.             *)
LEMMA NotCounting ==
    ASSUME TypeOK, NEW r \in Requests, Step(r), ~StartRequest(r), ~Count(r)
    PROVE  /\ UNCHANGED <<metrics, process, startedIn>>
           /\ phase[r] # "idle" /\ phase'[r] # "idle"
           /\ Counted(r)' <=> Counted(r)
           /\ Counted(r) => UNCHANGED ending
<1>1. UNCHANGED <<metrics, process, startedIn>> /\ phase[r] # "idle" /\ phase'[r] # "idle"
      /\ (phase[r] \in {"auditing", "answering", "answered"}
           <=> phase'[r] \in {"auditing", "answering", "answered"})
      /\ (phase[r] \in {"auditing", "answering", "answered"} => UNCHANGED ending)
  <2>1. CASE FromClient(r)
    BY <2>1 DEF FromClient, ReadChunk, PayloadError, EndOfBody, Disconnect, Waiting, Fail,
           Finish, Goto, TypeOK, server, reading
  <2>2. CASE FromUpstream(r)
    BY <2>2 DEF FromUpstream, UpstreamAnswers, SendFails, CollectFails, CollectChunk,
           EndOfResponse, Fail, Finish, Goto, TypeOK, server, reading
  <2>3. CASE InspectRequest(r)
    BY <2>3 DEF InspectRequest, BlockRequest, Finish, Goto, TypeOK, server, reading
  <2>4. CASE InspectResponse(r)
    BY <2>4 DEF InspectResponse, Finish, Goto, TypeOK, server, reading
  <2>5. CASE RejectInvalid(r) \/ StartInspection(r) \/ RequestCleared(r) \/ MissingKey(r)
    BY <2>5 DEF RejectInvalid, StartInspection, RequestCleared, MissingKey, Fail, Finish,
           Goto, TypeOK, server, reading
  <2>6. CASE Send(r) \/ ResponseCleared(r) \/ Audit(r) \/ Answer(r)
    BY <2>6 DEF Send, ResponseCleared, Audit, Answer, Finish, Goto, TypeOK, server, reading
  <2> QED
    BY <2>1, <2>2, <2>3, <2>4, <2>5, <2>6 DEF Step, Handle
<1> QED
  BY <1>1 DEF Counted, OfThisProcess

LEMMA Step_Account ==
    ASSUME TypeOK, TypeOK', HandlerInv, AccountInv, NEW r \in Requests, Step(r)
    PROVE  AccountInv'
<1>1. \A q \in Requests : Account(q) /\ Trail(q)
  BY DEF AccountInv, Account, HandlerInv, Trail
<1>2. Account(r)'
  <2>1. CASE FromClient(r)
    BY <1>1, <2>1, Account_StartRequest, Account_ReadChunk, Account_PayloadError,
       Account_EndOfBody, Account_Disconnect DEF FromClient
  <2>2. CASE FromUpstream(r)
    BY <1>1, <2>2, Account_UpstreamAnswers, Account_SendFails, Account_CollectFails,
       Account_CollectChunk, Account_EndOfResponse DEF FromUpstream
  <2>3. CASE Handle(r)
    BY <1>1, <2>3, Account_RejectInvalid, Account_StartInspection, Account_InspectRequest,
       Account_RequestCleared, Account_MissingKey, Account_Send, Account_InspectResponse,
       Account_ResponseCleared, Account_Count, Account_Audit, Account_Answer DEF Handle
  <2> QED
    BY <2>1, <2>2, <2>3 DEF Step
<1>3. ASSUME NEW q \in Requests, q # r PROVE UNCHANGED <<phase[q], Accounted(q)>>
  BY <1>3, OthersUncharged
<1>4. \A q \in Requests : Account(q)'
  BY <1>1, <1>2, <1>3, Account_Others
<1>5. Tally'
  <2>1. CASE StartRequest(r)
    BY <2>1, Tally_StartRequest DEF AccountInv
  <2>2. CASE Count(r)
    BY <1>1, <2>2, Tally_Count DEF AccountInv
  <2>3. CASE ~StartRequest(r) /\ ~Count(r)
    <3>1. ASSUME NEW q \in Requests
          PROVE  /\ OfThisProcess(q)' <=> OfThisProcess(q)
                 /\ Counted(q)' <=> Counted(q)
                 /\ Counted(q) => UNCHANGED ending[q].counter
      <4>1. CASE q = r
        BY <2>3, <4>1, NotCounting DEF OfThisProcess
      <4>2. CASE q # r
        BY <1>3, <4>2 DEF OfThisProcess, Counted, Accounted
      <4> QED
        BY <4>1, <4>2
    <3>2. UNCHANGED metrics
      BY <2>3, NotCounting
    <3> QED
      BY <3>1, <3>2, Tally_Others DEF AccountInv
  <2> QED
    BY <2>1, <2>2, <2>3
<1> QED
  BY <1>4, <1>5 DEF AccountInv, Account

LEMMA Restart_Account ==
    ASSUME TypeOK, TypeOK', AccountInv, Restart
    PROVE  AccountInv'
<1>1. \A q \in Requests : Account(q)
  BY DEF AccountInv, Account
<1>2. ASSUME NEW q \in Requests PROVE Account(q)'
  <2>1. /\ UNCHANGED <<input[q], body[q], response[q], requestResults[q], responseResults[q],
                       ending[q], sent[q], startedIn[q], audited[q]>>
        /\ process' = process + 1
        /\ phase'[q] = IF phase[q] \in Settled THEN phase[q] ELSE "dropped"
    BY DEF Restart, reading, requestCtx, responseCtx
  <2>2. process <= process' /\ startedIn[q] <= process'
    BY <1>1, <2>1 DEF Account, AccountTrail, TypeOK
  <2>3. CASE phase'[q] = "dropped"
    BY <1>1, <2>1, <2>2, <2>3, Account_Dropped
  <2>4. CASE phase'[q] # "dropped"
    <3>1. phase'[q] = phase[q] /\ phase[q] \in {"idle", "answered"}
      BY <2>1, <2>4 DEF Settled
    <3>2. Misfit(q)' <=> Misfit(q)
      BY <2>1, MisfitSame
    <3>3. EndedOneWay(q)' <=> EndedOneWay(q)
      BY <2>1, <3>2 DEF EndedOneWay, Accepted, RequestBlocked, ResponseBlocked, Invalid,
             Failed
    <3> QED
      BY <1>1, <2>1, <2>2, <3>1, <3>3
         DEF Account, AccountTrail, AuditTrail, NeedsAudit, Settled, Entering, Leaving,
             BeforeSending
  <2> QED
    BY <2>3, <2>4
<1>3. Tally'
  BY <1>1, Tally_Restart
<1> QED
  BY <1>2, <1>3 DEF AccountInv, Account

LEMMA Stutter_Account ==
    ASSUME AccountInv, UNCHANGED vars
    PROVE  AccountInv'
<1>1. ASSUME NEW q \in Requests PROVE Account(q)'
  <2>1. Account(q) /\ UNCHANGED <<phase[q], Accounted(q)>>
    BY DEF AccountInv, Account, vars, Accounted
  <2> QED
    BY <2>1, Account_Others
<1>2. Tally'
  BY Tally_Others DEF AccountInv, vars, OfThisProcess, Counted
<1> QED
  BY <1>1, <1>2 DEF AccountInv, Account

LEMMA Next_Account ==
    ASSUME TypeOK, TypeOK', HandlerInv, AccountInv, [Next]_vars
    PROVE  AccountInv'
<1>1. CASE \E r \in Requests : Step(r)
  BY <1>1, Step_Account
<1>2. CASE Restart
  BY <1>2, Restart_Account
<1>3. CASE Rest \/ UNCHANGED vars
  BY <1>3, Stutter_Account DEF Rest
<1> QED
  BY <1>1, <1>2, <1>3 DEF Next, Step

LEMMA AccountStart == Init => AccountInv
<1> SUFFICES ASSUME Init PROVE AccountInv
  OBVIOUS
<1>1. \A q \in Requests : Account(q)
  BY Account_Init
<1>2. Begun = {} /\ \A c : EndedWith(c) = {}
  BY DEF Init, Begun, EndedWith, Counted, OfThisProcess
<1>3. Tally
  BY <1>2, FS_EmptySet DEF Tally, Begun, Init, Counters
<1> QED
  BY <1>1, <1>3 DEF AccountInv, Account

(* Requests end one way each, and the counters and records tell which.     *)
THEOREM AccountInvariant == Spec => []AccountInv
<1>1. TypeOK /\ HandlerInv /\ (TypeOK /\ HandlerInv)' /\ AccountInv /\ [Next]_vars
      => AccountInv'
  BY Next_Account
<1> QED
  BY <1>1, AccountStart, Invariant, PTL DEF Spec

(* A client is answered about a detector's decision after exactly one      *)
(* audit record of that decision; no other answer leaves a record.         *)
THEOREM AuditMatches == Spec => []AuditMatchesAnswer
<1>1. AccountInv => AuditMatchesAnswer
  <2> SUFFICES ASSUME AccountInv, NEW r \in Requests
               PROVE  /\ Len(audited[r]) <= 1
                      /\ phase[r] = "answered" =>
                            audited[r] =
                              IF Blocked(requestResults[r]) THEN <<"blocked_request">>
                              ELSE IF Blocked(responseResults[r])
                                   THEN <<"blocked_response">>
                              ELSE IF ending[r].status = Relayed THEN <<"allowed">>
                              ELSE <<>>
    BY DEF AuditMatchesAnswer
  <2>1. AccountTrail(r) /\ AuditTrail(r)
    BY DEF AccountInv
  <2> QED
    BY <2>1 DEF AccountTrail, AuditTrail, Ended, EndedOneWay, Accepted, RequestBlocked,
           ResponseBlocked, Invalid, Failed, NeedsAudit, Relayed
<1> QED
  BY <1>1, AccountInvariant, PTL

(* Sets that have no element in common add up.                             *)
LEMMA DisjointUnion ==
    ASSUME NEW S, NEW T, IsFiniteSet(S), IsFiniteSet(T), S \cap T = {}
    PROVE  /\ IsFiniteSet(S \cup T)
           /\ Cardinality(S \cup T) = Cardinality(S) + Cardinality(T)
  BY FS_Union, FS_EmptySet, FS_CardinalityType

(* The requests of a process that are counted, by the way they ended.      *)
LEMMA EndedPartition ==
    ASSUME TypeOK, AccountInv
    PROVE  EndedTotal = Cardinality({r \in Requests : Counted(r)})
<1> DEFINE A == EndedWith("requests_allowed")
           B == EndedWith("request_blocks")
           C == EndedWith("response_blocks")
           D == EndedWith("validation_errors")
           E == EndedWith("upstream_errors")
           F == EndedWith("proxy_errors")
           all == {r \in Requests : Counted(r)}
<1>1. /\ IsFiniteSet(A) /\ IsFiniteSet(B) /\ IsFiniteSet(C)
      /\ IsFiniteSet(D) /\ IsFiniteSet(E) /\ IsFiniteSet(F)
  BY CountedFinite
<1>2. /\ A \cap B = {} /\ (A \cup B) \cap C = {} /\ ((A \cup B) \cup C) \cap D = {}
      /\ (((A \cup B) \cup C) \cup D) \cap E = {}
      /\ ((((A \cup B) \cup C) \cup D) \cup E) \cap F = {}
  BY DEF EndedWith
<1>3. all = ((((A \cup B) \cup C) \cup D) \cup E) \cup F
  <2>1. ASSUME NEW r \in Requests, Counted(r)
        PROVE  ending[r].counter \in Counters \ {"requests_started"}
    <3>1. phase[r] \in Ended
      BY <2>1 DEF Counted, Ended
    <3> QED
      BY <3>1 DEF AccountInv, AccountTrail, EndedOneWay, Accepted, RequestBlocked,
             ResponseBlocked, Invalid, Failed, Counters
  <2> QED
    BY <2>1 DEF EndedWith, Counters
<1>4. /\ metrics["requests_allowed"] = Cardinality(A)
      /\ metrics["request_blocks"] = Cardinality(B)
      /\ metrics["response_blocks"] = Cardinality(C)
      /\ metrics["validation_errors"] = Cardinality(D)
      /\ metrics["upstream_errors"] = Cardinality(E)
      /\ metrics["proxy_errors"] = Cardinality(F)
  BY DEF AccountInv, Tally, Counters
<1> HIDE DEF A, B, C, D, E, F, all
<1>5. IsFiniteSet(A \cup B) /\ Cardinality(A \cup B) = Cardinality(A) + Cardinality(B)
  BY <1>1, <1>2, DisjointUnion
<1>6. /\ IsFiniteSet((A \cup B) \cup C)
      /\ Cardinality((A \cup B) \cup C) = Cardinality(A \cup B) + Cardinality(C)
  BY <1>1, <1>2, <1>5, DisjointUnion
<1>7. /\ IsFiniteSet(((A \cup B) \cup C) \cup D)
      /\ Cardinality(((A \cup B) \cup C) \cup D) =
            Cardinality((A \cup B) \cup C) + Cardinality(D)
  BY <1>1, <1>2, <1>6, DisjointUnion
<1>8. /\ IsFiniteSet((((A \cup B) \cup C) \cup D) \cup E)
      /\ Cardinality((((A \cup B) \cup C) \cup D) \cup E) =
            Cardinality(((A \cup B) \cup C) \cup D) + Cardinality(E)
  BY <1>1, <1>2, <1>7, DisjointUnion
<1>9. Cardinality(all) =
         Cardinality((((A \cup B) \cup C) \cup D) \cup E) + Cardinality(F)
  BY <1>1, <1>2, <1>3, <1>8, DisjointUnion
<1>10. /\ Cardinality(A) \in Nat /\ Cardinality(B) \in Nat /\ Cardinality(C) \in Nat
       /\ Cardinality(D) \in Nat /\ Cardinality(E) \in Nat /\ Cardinality(F) \in Nat
  BY <1>1, FS_CardinalityType
<1>11. EndedTotal = Cardinality(all)
  BY <1>4, <1>5, <1>6, <1>7, <1>8, <1>9, <1>10 DEF EndedTotal
<1> QED
  BY <1>11 DEF all

(* Every request a process started is in one of its other counters, is     *)
(* being handled or was dropped.                                           *)
THEOREM MetricsBalanced == Spec => []MetricsBalance
<1>1. ASSUME TypeOK, AccountInv PROVE MetricsBalance
  <2> DEFINE counted == {r \in Requests : Counted(r)}
             rest == {r \in Requests : OfThisProcess(r) /\ ~Counted(r)}
             begun == {r \in Requests : OfThisProcess(r)}
  <2>1. begun = counted \cup rest /\ counted \cap rest = {}
    BY DEF Counted
  <2>2. IsFiniteSet(counted) /\ IsFiniteSet(rest)
    <3>1. counted \in SUBSET Requests /\ rest \in SUBSET Requests
      OBVIOUS
    <3> QED
      BY <3>1, HandlerAssumption, FS_Subset DEF HandlerAssumption
  <2>3. EndedTotal = Cardinality(counted) /\ metrics["requests_started"] = Cardinality(begun)
    BY <1>1, EndedPartition DEF AccountInv, Tally
  <2> HIDE DEF counted, rest, begun
  <2>4. Cardinality(begun) = Cardinality(counted) + Cardinality(rest)
    BY <2>1, <2>2, DisjointUnion
  <2>5. metrics["requests_started"] = EndedTotal + Cardinality(rest)
    BY <2>3, <2>4
  <2> QED
    BY <2>5 DEF MetricsBalance, rest
<1> QED
  BY <1>1, TypeCorrect, AccountInvariant, PTL

(* The counters count what their HELP texts say (metrics.rs:53-71).        *)
THEOREM CountersAgree == Spec => []CountersAgreeWithHelp
<1>1. ASSUME TypeOK, HandlerInv, AccountInv PROVE CountersAgreeWithHelp
  <2>1. ASSUME NEW r \in Requests, Counted(r)
        PROVE  /\ EndedOneWay(r)
               /\ ending[r].status = Relayed => InspectedResponse(r)
    BY <1>1, <2>1 DEF Counted, Ended, AccountInv, AccountTrail, HandlerInv, EndingTrail,
           ResponseTrail, InspectedResponse
  <2>2. EndedWith("requests_allowed") =
           {r \in Requests : Counted(r) /\ (sent[r].calls > 0 /\ InspectedResponse(r)
                                            /\ ending[r].status = Relayed)}
    BY <2>1 DEF EndedWith, EndedOneWay, Accepted, RequestBlocked, ResponseBlocked, Invalid,
           Failed, Relayed
  <2>3. EndedWith("request_blocks") =
           {r \in Requests : Counted(r) /\ (sent[r].calls = 0 /\ Blocked(requestResults[r]))}
    BY <2>1 DEF EndedWith, EndedOneWay, Accepted, RequestBlocked, ResponseBlocked, Invalid,
           Failed
  <2>4. EndedWith("response_blocks") =
           {r \in Requests : Counted(r) /\ (sent[r].calls > 0 /\ Blocked(responseResults[r]))}
    BY <2>1 DEF EndedWith, EndedOneWay, Accepted, RequestBlocked, ResponseBlocked, Invalid,
           Failed
  <2>5. EndedWith("validation_errors") =
           {r \in Requests : Counted(r) /\ (\E i \in DOMAIN Checks :
                 ending[r].status # 413 /\ Violates(r)[Checks[i]])}
    BY <2>1 DEF EndedWith, EndedOneWay, Accepted, RequestBlocked, ResponseBlocked, Invalid,
           Failed, Misfit, Relayed
  <2>6. EndedWith("upstream_errors") \cup EndedWith("proxy_errors") =
           {r \in Requests : Counted(r) /\ ending[r].status \in {413, 500, 502}}
    BY <2>1 DEF EndedWith, EndedOneWay, Accepted, RequestBlocked, ResponseBlocked, Invalid,
           Failed, Relayed
  <2>7. /\ {r \in Requests : Counted(r) /\ ending[r].status \in {500}}
              \in SUBSET EndedWith("upstream_errors")
        /\ {r \in Requests : Counted(r) /\ (\/ ending[r].status = 413
                                            \/ ending[r].status = 502 /\ response[r] > 0)}
              \in SUBSET EndedWith("proxy_errors")
    BY <2>1 DEF EndedWith, EndedOneWay, Accepted, RequestBlocked, ResponseBlocked, Invalid,
           Failed, Relayed
  <2>8. EndedWith("upstream_errors") \cap EndedWith("proxy_errors") = {}
    BY DEF EndedWith
  <2>9. /\ metrics["upstream_errors"] + metrics["proxy_errors"] =
              Cardinality({r \in Requests : Counted(r) /\ ending[r].status \in {413, 500, 502}})
        /\ metrics["upstream_errors"] >=
              Cardinality({r \in Requests : Counted(r) /\ ending[r].status \in {500}})
        /\ metrics["proxy_errors"] >=
              Cardinality({r \in Requests : Counted(r) /\
                              (\/ ending[r].status = 413
                               \/ ending[r].status = 502 /\ response[r] > 0)})
    <3>1. /\ metrics["upstream_errors"] = Cardinality(EndedWith("upstream_errors"))
          /\ metrics["proxy_errors"] = Cardinality(EndedWith("proxy_errors"))
      BY <1>1 DEF AccountInv, Tally, Counters
    <3> QED
      BY <2>6, <2>7, <2>8, <3>1, CountedFinite, DisjointUnion, FS_Subset
  <2> QED
    BY <1>1, <2>2, <2>3, <2>4, <2>5, <2>9
       DEF CountersAgreeWithHelp, AccountInv, Tally, Counters
<1> QED
  BY <1>1, Invariant, AccountInvariant, PTL
====
