---- MODULE FirewallServiceProofs ----
(***************************************************************************)
(* Proofs about FirewallService, for any number of requests, any callers,  *)
(* limits, set of enabled detectors and restarts: every behaviour of the   *)
(* service is one of the handler and one of the token budget, and what the *)
(* two detectors that keep state promise of a client holds through all of  *)
(* it.                                                                     *)
(*                                                                         *)
(* The handler's invariants carry over because each step of the service is *)
(* one of the handler; those of the budget are taken from its own proofs,  *)
(* instantiated as Proved.                                                 *)
(***************************************************************************)
EXTENDS FirewallService, ProxyHandlerProofs, FiniteSetTheorems

Proved == INSTANCE TokenBudgetProofs WITH
    principal <- [r \in Requests |-> PrincipalOf(caller[r])],
    phase     <- budgetPhase,
    reading   <- clockReading

-----------------------------------------------------------------------------
(***************************************************************************)
(* The service as a handler and as a token budget.                         *)
(***************************************************************************)
(* A step of the service is a step of the handler or leaves it alone.      *)
LEMMA ServiceHandles ==
    ASSUME [ServiceNext]_serviceVars
    PROVE  [Next]_vars
<1>1. ASSUME NEW r \in Requests, CheckRate(r) \/ CheckBudget(r)
      PROVE  [Next]_vars
  BY <1>1 DEF CheckRate, CheckBudget, Next, Handle
<1>2. ASSUME NEW r \in Requests, ReadBudgetClock(r)
      PROVE  [Next]_vars
  BY <1>2 DEF ReadBudgetClock
<1>3. ASSUME NEW r \in Requests, HandleRest(r)
      PROVE  [Next]_vars
  BY <1>3 DEF HandleRest, Next, Handle, FromClient
<1>4. CASE Tick \/ RestartService \/ RestService \/ UNCHANGED serviceVars
  BY <1>4 DEF Tick, RestartService, RestService, Next, serviceVars
<1> QED
  BY <1>1, <1>2, <1>3, <1>4 DEF ServiceNext

(* So the handler's invariants hold in the service.                        *)
LEMMA HandlerKept == ServiceSpec => [](TypeOK /\ HandlerInv)
<1>1. ServiceInit => TypeOK /\ HandlerInv
  BY TypeOK_Init, Trail_Init DEF ServiceInit, HandlerInv, Trail
<1>2. TypeOK /\ HandlerInv /\ [ServiceNext]_serviceVars => (TypeOK /\ HandlerInv)'
  BY ServiceHandles, Next_Invariant
<1> QED
  BY <1>1, <1>2, PTL DEF ServiceSpec

(* The other steps of the handler keep its process, and only a detector    *)
(* of the request chain records a result.                                  *)
LEMMA RestEffect ==
    ASSUME NEW r \in Requests, HandleRest(r)
    PROVE  /\ UNCHANGED <<process, caller, budget, limiter>>
           /\ \/ UNCHANGED requestResults
              \/ InspectRequest(r) /\ ~At(r, "rate_limiter") /\ ~At(r, "token_budget")
<1>1. CASE FromUpstream(r)
  BY <1>1 DEF FromUpstream, UpstreamAnswers, SendFails, CollectFails, CollectChunk,
         EndOfResponse, HandleRest, KeepUsage, budget, limiter, server, requestCtx
<1>2. CASE StartRequest(r) \/ ReadChunk(r) \/ PayloadError(r) \/ Disconnect(r)
           \/ EndOfBody(r) \/ RejectInvalid(r) \/ StartInspection(r)
  BY <1>2 DEF StartRequest, ReadChunk, PayloadError, Disconnect, EndOfBody,
         RejectInvalid, StartInspection, HandleRest, KeepUsage, budget, limiter, server,
         requestCtx
<1>3. CASE RequestCleared(r) \/ MissingKey(r) \/ Send(r) \/ InspectResponse(r)
           \/ ResponseCleared(r) \/ Count(r) \/ Audit(r) \/ Answer(r)
  BY <1>3 DEF RequestCleared, MissingKey, Send, InspectResponse, ResponseCleared, Count,
         Audit, Answer, HandleRest, KeepUsage, budget, limiter, server, requestCtx
<1>4. CASE InspectRequest(r) /\ ~At(r, "rate_limiter") /\ ~At(r, "token_budget")
  BY <1>4 DEF InspectRequest, HandleRest, KeepUsage, budget, limiter, server
<1> QED
  BY <1>1, <1>2, <1>3, <1>4 DEF HandleRest

(* A step of the service is one of the budget or leaves it alone.          *)
LEMMA ServiceCharges ==
    ASSUME [ServiceNext]_serviceVars
    PROVE  [Budget!Next]_(Budget!vars)
<1>1. ASSUME NEW r \in Requests, CheckRate(r)
      PROVE  UNCHANGED Budget!vars
  BY <1>1 DEF CheckRate, InspectRequest, budget, server, Budget!vars
<1>2. ASSUME NEW r \in Requests, ReadBudgetClock(r) \/ CheckBudget(r)
      PROVE  Budget!Next
  BY <1>2 DEF ReadBudgetClock, CheckBudget, Budget!Next, Budget!Inspect
<1>3. ASSUME NEW r \in Requests, HandleRest(r)
      PROVE  UNCHANGED Budget!vars
  BY <1>3, RestEffect DEF budget, Budget!vars
<1>4. CASE Tick \/ RestartService
  BY <1>4 DEF Tick, RestartService, Budget!Next
<1>5. CASE RestService \/ UNCHANGED serviceVars
  BY <1>5 DEF RestService, serviceVars, vars, budget, Budget!vars
<1> QED
  BY <1>1, <1>2, <1>3, <1>4, <1>5 DEF ServiceNext

(* Every behaviour of the service is one of the token budget alone, which  *)
(* nothing but its own steps and a restart gets at (token_budget.rs:14).   *)
THEOREM BudgetIsKept == ServiceSpec => BudgetKept
<1>1. ServiceInit => Budget!Init
  BY DEF ServiceInit
<1> QED
  BY <1>1, ServiceCharges, PTL DEF ServiceSpec, BudgetKept, Budget!Spec

(***************************************************************************)
(* What is proved of the budget.                                           *)
(***************************************************************************)
LEMMA BudgetConstants == Proved!BudgetAssumption
<1>1. /\ Estimates \subseteq Nat /\ MaxRequestTokens \in Nat /\ MaxWindowTokens \in Nat
      /\ WindowSecs \in Nat /\ MaxStale \in Nat /\ MaxTime \in Nat
  BY ServiceAssumption DEF ServiceAssumption
<1>2. IsFiniteSet(Requests) /\ MaxRestarts \in Nat
  BY HandlerAssumption DEF HandlerAssumption
<1> QED
  BY <1>1, <1>2 DEF Proved!BudgetAssumption, IsFiniteSet, Proved!IsFiniteSet

LEMMA SameBudget == Budget!Spec <=> Proved!Spec
<1>1. Budget!Init <=> Proved!Init
  BY DEF Budget!Init, Proved!Init, Budget!NoUsage, Proved!NoUsage
<1>2. Budget!Next <=> Proved!Next
  BY DEF Budget!Next, Proved!Next, Budget!Inspect, Proved!Inspect, Budget!Tick,
         Proved!Tick, Budget!Restart, Proved!Restart, Budget!Rest, Proved!Rest,
         Budget!RejectOversize, Proved!RejectOversize, Budget!ReadClock, Proved!ReadClock,
         Budget!Charge, Proved!Charge, Budget!RejectExhausted, Proved!RejectExhausted,
         Budget!inputs, Proved!inputs, Budget!vars, Proved!vars, Budget!Fits, Proved!Fits,
         Budget!Window, Proved!Window, Budget!Store, Proved!Store, Budget!FreshWindow,
         Proved!FreshWindow, Budget!Expired, Proved!Expired, Budget!Elapsed,
         Proved!Elapsed, Budget!NoUsage, Proved!NoUsage
<1>3. [Budget!Next]_(Budget!vars) <=> [Proved!Next]_(Proved!vars)
  BY <1>2 DEF Budget!vars, Proved!vars
<1> QED
  BY <1>1, <1>3, PTL DEF Budget!Spec, Proved!Spec

LEMMA SameSpent == \A S : Budget!Spent(S) = Proved!Spent(S)
<1>1. \A S : Budget!Cardinality(S) = Proved!Cardinality(S)
  BY DEF Budget!Cardinality, Proved!Cardinality
<1>2. \A S : Budget!ChargedTokens(S) = Proved!ChargedTokens(S)
  BY DEF Budget!ChargedTokens, Proved!ChargedTokens
<1> QED
  BY <1>1, <1>2 DEF Budget!Spent, Proved!Spent

(* The budget's types and its invariant, in the service.                   *)
LEMMA BudgetInvariants == ServiceSpec => [](Proved!TypeOK /\ Proved!BudgetInv)
  BY BudgetIsKept, SameBudget, BudgetConstants, Proved!TypeCorrect,
     Proved!BudgetInvariant, PTL DEF BudgetKept

-----------------------------------------------------------------------------
(***************************************************************************)
(* Where the two detectors stand in the request chain.                     *)
(***************************************************************************)
Fronted(s) ==
    /\ s \in Seq(Detectors)
    /\ \A i \in 1..Len(s) : s[i] = "rate_limiter" => i = 1 /\ "rate_limiter" \in Enabled
    /\ "rate_limiter" \in Enabled => Len(s) >= 1 /\ s[1] = "rate_limiter"
    /\ \A i \in 1..Len(s) :
          s[i] = "token_budget" => i = BudgetPlace /\ "token_budget" \in Enabled
    /\ "token_budget" \in Enabled => Len(s) >= BudgetPlace /\ s[BudgetPlace] = "token_budget"

LEMMA FrontedStart == Fronted(IfEnabled("rate_limiter") \o IfEnabled("token_budget"))
<1>1. "rate_limiter" \in Detectors /\ "token_budget" \in Detectors
  BY DEF Detectors
<1>2. CASE "rate_limiter" \in Enabled /\ "token_budget" \in Enabled
  BY <1>1, <1>2 DEF Fronted, IfEnabled, BudgetPlace
<1>3. CASE "rate_limiter" \in Enabled /\ "token_budget" \notin Enabled
  BY <1>1, <1>3 DEF Fronted, IfEnabled, BudgetPlace
<1>4. CASE "rate_limiter" \notin Enabled /\ "token_budget" \in Enabled
  BY <1>1, <1>4 DEF Fronted, IfEnabled, BudgetPlace
<1>5. CASE "rate_limiter" \notin Enabled /\ "token_budget" \notin Enabled
  BY <1>1, <1>5 DEF Fronted, IfEnabled, BudgetPlace
<1> QED
  BY <1>2, <1>3, <1>4, <1>5

(* The detectors pushed after them leave their places alone.               *)
LEMMA FrontedOn ==
    ASSUME NEW s, Fronted(s), NEW d \in Detectors \ {"rate_limiter", "token_budget"}
    PROVE  Fronted(s \o IfEnabled(d))
<1>1. CASE d \notin Enabled
  <2>1. s \o IfEnabled(d) = s
    BY <1>1 DEF IfEnabled, Fronted
  <2> QED
    BY <2>1
<1>2. CASE d \in Enabled
  <2> DEFINE t == Append(s, d)
  <2>1. s \o IfEnabled(d) = t
    BY <1>2 DEF IfEnabled, Fronted
  <2>2. /\ t \in Seq(Detectors) /\ Len(t) = Len(s) + 1 /\ Len(s) \in Nat
        /\ t[Len(s) + 1] = d
        /\ \A i \in 1..Len(s) : t[i] = s[i]
    BY DEF Fronted
  <2>3. BudgetPlace \in {1, 2}
    BY DEF BudgetPlace
  <2> HIDE DEF t
  <2>4. ASSUME NEW i \in 1..Len(t)
        PROVE  /\ t[i] = "rate_limiter" => i = 1 /\ "rate_limiter" \in Enabled
               /\ t[i] = "token_budget" => i = BudgetPlace /\ "token_budget" \in Enabled
    <3>1. i \in 1..Len(s) \/ i = Len(s) + 1
      BY <2>2
    <3> QED
      BY <2>2, <3>1 DEF Fronted
  <2>5. "rate_limiter" \in Enabled => Len(t) >= 1 /\ t[1] = "rate_limiter"
    BY <2>2 DEF Fronted
  <2>6. "token_budget" \in Enabled => Len(t) >= BudgetPlace /\ t[BudgetPlace] = "token_budget"
    BY <2>2, <2>3 DEF Fronted
  <2>7. Fronted(t)
    BY <2>2, <2>4, <2>5, <2>6 DEF Fronted
  <2> QED
    BY <2>1, <2>7
<1> QED
  BY <1>1, <1>2

LEMMA Places == Fronted(RequestChain)
<1>1. /\ "prompt_injection" \in Detectors \ {"rate_limiter", "token_budget"}
      /\ "dlp" \in Detectors \ {"rate_limiter", "token_budget"}
      /\ "system_prompt" \in Detectors \ {"rate_limiter", "token_budget"}
      /\ "tool_call" \in Detectors \ {"rate_limiter", "token_budget"}
  BY DEF Detectors
<1>2. Fronted(IfEnabled("rate_limiter") \o IfEnabled("token_budget")
                \o IfEnabled("prompt_injection"))
  BY <1>1, FrontedStart, FrontedOn
<1>3. Fronted(IfEnabled("rate_limiter") \o IfEnabled("token_budget")
                \o IfEnabled("prompt_injection") \o IfEnabled("dlp"))
  BY <1>1, <1>2, FrontedOn
<1>4. Fronted(IfEnabled("rate_limiter") \o IfEnabled("token_budget")
                \o IfEnabled("prompt_injection") \o IfEnabled("dlp")
                \o IfEnabled("system_prompt"))
  BY <1>1, <1>3, FrontedOn
<1> QED
  BY <1>1, <1>4, FrontedOn DEF RequestChain

(* What a detector of the request chain leaves: one more result.           *)
LEMMA OneMoreResult ==
    ASSUME TypeOK, HandlerInv, NEW r \in Requests, InspectRequest(r)
    PROVE  /\ phase[r] = "inspecting" /\ ~Blocked(requestResults[r])
           /\ requestResults[r] \in Seq(Results)
           /\ Len(requestResults[r]) < Len(RequestChain)
           /\ Verdict(r) \in Results
           /\ requestResults' = [requestResults EXCEPT ![r] = Append(@, Verdict(r))]
           /\ process' = process
<1> DEFINE results == requestResults[r]
           d == NextDetector(RequestChain, results)
<1>1. /\ phase[r] = "inspecting" /\ Len(results) < Len(RequestChain)
      /\ process' = process
  BY DEF InspectRequest, server
<1>2. results \in Seq(Results) /\ d \in Detectors
  BY <1>1, ChainType, NextDetectorType DEF TypeOK
<1>3. PICK finding \in Findings[d] \cup {"pass"} :
         requestResults' = [requestResults EXCEPT ![r] = Append(@, finding)]
  BY DEF InspectRequest
<1>4. finding \in Results
  BY <1>2, <1>3, FindingsAreResults DEF Results
<1>5. Verdict(r) = finding
  <2>1. requestResults'[r] = Append(results, finding)
    BY <1>3 DEF TypeOK
  <2> QED
    BY <1>2, <1>4, <2>1 DEF Verdict
<1>6. ~Blocked(results)
  BY <1>1 DEF HandlerInv, RequestTrail
<1> QED
  BY <1>1, <1>2, <1>3, <1>4, <1>5, <1>6

-----------------------------------------------------------------------------
(***************************************************************************)
(* What the results of a request say of its verdicts.                      *)
(***************************************************************************)
(* The turn of either detector comes at its place.                         *)
LEMMA AtRate ==
    ASSUME TypeOK, NEW r \in Requests, At(r, "rate_limiter")
    PROVE  /\ Len(requestResults[r]) = 0 /\ "rate_limiter" \in Enabled
           /\ BudgetPlace = 2
<1>1. requestResults[r] \in Seq(Results) /\ RequestChain \in Seq(Detectors)
  BY ChainType DEF TypeOK
<1>2. /\ Len(requestResults[r]) + 1 \in 1..Len(RequestChain)
      /\ RequestChain[Len(requestResults[r]) + 1] = "rate_limiter"
  BY <1>1 DEF At, NextDetector
<1> QED
  BY <1>1, <1>2, Places DEF Fronted, BudgetPlace

LEMMA AtBudget ==
    ASSUME TypeOK, NEW r \in Requests, At(r, "token_budget")
    PROVE  Len(requestResults[r]) + 1 = BudgetPlace /\ "token_budget" \in Enabled
<1>1. requestResults[r] \in Seq(Results) /\ RequestChain \in Seq(Detectors)
  BY ChainType DEF TypeOK
<1>2. /\ Len(requestResults[r]) + 1 \in 1..Len(RequestChain)
      /\ RequestChain[Len(requestResults[r]) + 1] = "token_budget"
  BY <1>1 DEF At, NextDetector
<1> QED
  BY <1>1, <1>2, Places DEF Fronted

LEMMA Judged_Others ==
    ASSUME NEW q \in Requests, Judged(q),
           UNCHANGED <<requestResults[q], budgetPhase[q], cell[q]>>
    PROVE  Judged(q)'
  BY DEF Judged

(* A request that goes on past the rate limiter was not refused by it.     *)
LEMMA NotRefused ==
    ASSUME TypeOK, HandlerInv, NEW r \in Requests, Judged(r), phase[r] = "inspecting"
    PROVE  cell[r].said # "block"
<1>1. ~Blocked(requestResults[r]) /\ requestResults[r] \in Seq(Results)
  BY DEF HandlerInv, RequestTrail, TypeOK
<1> QED
  BY <1>1 DEF Judged, Blocked

LEMMA Judged_CheckRate ==
    ASSUME TypeOK, HandlerInv, CellTypes, NEW r \in Requests, Judged(r), CheckRate(r)
    PROVE  Judged(r)'
<1>1. /\ Len(requestResults[r]) = 0 /\ "rate_limiter" \in Enabled /\ BudgetPlace = 2
  BY AtRate DEF CheckRate
<1>2. /\ requestResults[r] \in Seq(Results) /\ Verdict(r) \in Results
      /\ requestResults' = [requestResults EXCEPT ![r] = Append(@, Verdict(r))]
  BY OneMoreResult DEF CheckRate
<1>3. Len(requestResults'[r]) = 1 /\ requestResults'[r][1] = Verdict(r)
  BY <1>1, <1>2 DEF TypeOK
<1>4. budgetPhase' = budgetPhase /\ budgetPhase[r] = "waiting"
  BY <1>1 DEF CheckRate, budget, Judged
<1>5. cell'[r].said = Verdict(r)
  BY DEF CheckRate, CellTypes
<1> QED
  BY <1>1, <1>3, <1>4, <1>5 DEF Judged

LEMMA Judged_ReadBudgetClock ==
    ASSUME TypeOK, HandlerInv, Proved!TypeOK, NEW r \in Requests, Judged(r),
           ReadBudgetClock(r)
    PROVE  Judged(r)'
<1>1. Len(requestResults[r]) + 1 = BudgetPlace /\ "token_budget" \in Enabled
  BY AtBudget DEF ReadBudgetClock
<1>2. requestResults' = requestResults /\ cell' = cell
  BY DEF ReadBudgetClock, vars, limiter
<1>3. budgetPhase'[r] = "timed"
  BY DEF ReadBudgetClock, Budget!ReadClock, Proved!TypeOK
<1>4. cell[r].said # "block"
  BY NotRefused DEF ReadBudgetClock, At
<1>5. Len(requestResults[r]) \in Nat
  BY DEF TypeOK
<1> QED
  BY <1>1, <1>2, <1>3, <1>4, <1>5 DEF Judged

(* A longer list of results that has the same results so far.              *)
LEMMA Longer ==
    ASSUME NEW results \in Seq(Results), NEW v \in Results
    PROVE  /\ Len(Append(results, v)) = Len(results) + 1
           /\ Append(results, v)[Len(results) + 1] = v
           /\ \A i \in 1..Len(results) : Append(results, v)[i] = results[i]
           /\ Len(results) \in Nat
  OBVIOUS

LEMMA Judged_CheckBudget ==
    ASSUME TypeOK, HandlerInv, Proved!TypeOK, NEW r \in Requests, Judged(r),
           CheckBudget(r)
    PROVE  Judged(r)'
<1> DEFINE results == requestResults[r]
           v == Verdict(r)
<1>1. Len(results) + 1 = BudgetPlace /\ "token_budget" \in Enabled
  BY AtBudget DEF CheckBudget
<1>2. /\ results \in Seq(Results) /\ v \in Results
      /\ requestResults' = [requestResults EXCEPT ![r] = Append(@, v)]
  BY OneMoreResult DEF CheckBudget
<1>3. requestResults'[r] = Append(results, v)
  BY <1>2 DEF TypeOK
<1>4. cell' = cell /\ cell[r].said # "block"
  BY NotRefused DEF CheckBudget, At, limiter
<1>5. \/ v = "pass" /\ budgetPhase'[r] = "passed"
      \/ v = "block" /\ budgetPhase'[r] = "rejected"
  BY DEF CheckBudget, Budget!Charge, Budget!RejectOversize, Budget!RejectExhausted,
         Proved!TypeOK
<1> HIDE DEF results, v
<1>6. /\ Len(requestResults'[r]) = BudgetPlace
      /\ requestResults'[r][BudgetPlace] = v
      /\ \A i \in 1..Len(results) : requestResults'[r][i] = results[i]
      /\ Len(results) \in Nat /\ BudgetPlace \in {1, 2}
  BY <1>1, <1>2, <1>3, Longer DEF BudgetPlace
<1>7. cell[r].said # "nothing" =>
         /\ "rate_limiter" \in Enabled
         /\ Len(results) >= 1 /\ results[1] = cell[r].said
  BY DEF Judged, results
<1> QED
  BY <1>1, <1>4, <1>5, <1>6, <1>7 DEF Judged

LEMMA Judged_InspectRest ==
    ASSUME TypeOK, HandlerInv, NEW r \in Requests, Judged(r), InspectRequest(r),
           ~At(r, "rate_limiter"), ~At(r, "token_budget"),
           UNCHANGED <<budgetPhase, cell>>
    PROVE  Judged(r)'
<1> DEFINE results == requestResults[r]
           v == Verdict(r)
<1>1. /\ results \in Seq(Results) /\ v \in Results
      /\ Len(results) < Len(RequestChain) /\ phase[r] = "inspecting"
      /\ requestResults' = [requestResults EXCEPT ![r] = Append(@, v)]
  BY OneMoreResult
<1>2. requestResults'[r] = Append(results, v)
  BY <1>1 DEF TypeOK
<1>3. /\ RequestChain[Len(results) + 1] # "rate_limiter"
      /\ RequestChain[Len(results) + 1] # "token_budget"
  BY <1>1 DEF At, NextDetector
<1>4. BudgetPlace \in {1, 2} /\ (BudgetPlace = 2 <=> "rate_limiter" \in Enabled)
  BY DEF BudgetPlace
<1> HIDE DEF results, v
<1>5. /\ Len(requestResults'[r]) = Len(results) + 1 /\ Len(results) \in Nat
      /\ \A i \in 1..Len(results) : requestResults'[r][i] = results[i]
  BY <1>1, <1>2, Longer
<1>6. "rate_limiter" \in Enabled => Len(results) >= 1
  BY <1>3, <1>5, Places DEF Fronted
<1>7. "token_budget" \in Enabled => Len(results) >= BudgetPlace
  <2>1. "token_budget" \in Enabled => Len(results) + 1 # BudgetPlace
    BY <1>3, Places DEF Fronted
  <2> QED
    BY <1>4, <1>5, <1>6, <2>1
<1>8. /\ "token_budget" \notin Enabled => budgetPhase[r] = "waiting"
      /\ "token_budget" \in Enabled =>
            \/ results[BudgetPlace] = "pass" /\ budgetPhase[r] = "passed"
            \/ results[BudgetPlace] = "block" /\ budgetPhase[r] = "rejected"
      /\ cell[r].said # "nothing" =>
            /\ "rate_limiter" \in Enabled
            /\ Len(results) >= 1 /\ results[1] = cell[r].said
      /\ cell[r].said = "block" => budgetPhase[r] = "waiting"
  BY <1>7 DEF Judged, results
<1>9. "token_budget" \in Enabled => requestResults'[r][BudgetPlace] = results[BudgetPlace]
  BY <1>4, <1>5, <1>7
<1> QED
  BY <1>4, <1>5, <1>6, <1>7, <1>8, <1>9 DEF Judged

LEMMA Judged_Restart ==
    ASSUME Proved!TypeOK, NEW q \in Requests, Judged(q), RestartService
    PROVE  Judged(q)'
<1>1. requestResults' = requestResults /\ cell' = cell
  BY DEF RestartService, Restart, requestCtx
<1>2. budgetPhase'[q] = IF budgetPhase[q] = "timed" THEN "dropped" ELSE budgetPhase[q]
  BY DEF RestartService, Budget!Restart
<1> QED
  BY <1>1, <1>2 DEF Judged

(* The results of a request and what the two detectors keep of it agree,   *)
(* whichever step is taken.                                                *)
LEMMA Judged_Step ==
    ASSUME TypeOK, HandlerInv, Proved!TypeOK, CellTypes,
           \A q \in Requests : Judged(q), [ServiceNext]_serviceVars,
           NEW q \in Requests
    PROVE  Judged(q)'
<1>1. ASSUME NEW r \in Requests, CheckRate(r)
      PROVE  Judged(q)'
  <2>1. CASE q = r
    BY <1>1, <2>1, Judged_CheckRate
  <2>2. CASE q # r
    <3>1. requestResults'[q] = requestResults[q]
      BY <1>1, <2>2, OneMoreResult DEF CheckRate, TypeOK
    <3>2. budgetPhase' = budgetPhase /\ cell'[q] = cell[q]
      BY <1>1, <2>2 DEF CheckRate, CellTypes, budget
    <3> QED
      BY <3>1, <3>2, Judged_Others
  <2> QED
    BY <2>1, <2>2
<1>2. ASSUME NEW r \in Requests, ReadBudgetClock(r)
      PROVE  Judged(q)'
  <2>1. CASE q = r
    BY <1>2, <2>1, Judged_ReadBudgetClock
  <2>2. CASE q # r
    <3>1. requestResults' = requestResults /\ cell' = cell
      BY <1>2 DEF ReadBudgetClock, vars, limiter
    <3>2. budgetPhase'[q] = budgetPhase[q]
      BY <1>2, <2>2 DEF ReadBudgetClock, Budget!ReadClock, Proved!TypeOK
    <3> QED
      BY <3>1, <3>2, Judged_Others
  <2> QED
    BY <2>1, <2>2
<1>3. ASSUME NEW r \in Requests, CheckBudget(r)
      PROVE  Judged(q)'
  <2>1. CASE q = r
    BY <1>3, <2>1, Judged_CheckBudget
  <2>2. CASE q # r
    <3>1. requestResults'[q] = requestResults[q]
      BY <1>3, <2>2, OneMoreResult DEF CheckBudget, TypeOK
    <3>2. budgetPhase'[q] = budgetPhase[q] /\ cell' = cell
      BY <1>3, <2>2 DEF CheckBudget, limiter, Budget!Charge, Budget!RejectOversize,
             Budget!RejectExhausted, Proved!TypeOK
    <3> QED
      BY <3>1, <3>2, Judged_Others
  <2> QED
    BY <2>1, <2>2
<1>4. ASSUME NEW r \in Requests, HandleRest(r)
      PROVE  Judged(q)'
  <2>1. budgetPhase' = budgetPhase /\ cell' = cell
    BY <1>4, RestEffect DEF budget, limiter
  <2>2. CASE UNCHANGED requestResults
    BY <2>1, <2>2, Judged_Others
  <2>3. CASE InspectRequest(r) /\ ~At(r, "rate_limiter") /\ ~At(r, "token_budget")
    <3>1. CASE q = r
      BY <2>1, <2>3, <3>1, Judged_InspectRest
    <3>2. CASE q # r
      <4>1. requestResults'[q] = requestResults[q]
        BY <2>3, <3>2, OneMoreResult DEF TypeOK
      <4> QED
        BY <2>1, <4>1, Judged_Others
    <3> QED
      BY <3>1, <3>2
  <2> QED
    BY <1>4, <2>2, <2>3, RestEffect
<1>5. CASE Tick
  <2>1. requestResults' = requestResults /\ cell' = cell
    BY <1>5 DEF Tick, vars, limiter, requestCtx
  <2>2. budgetPhase' = budgetPhase
    BY <1>5 DEF Tick, Budget!Tick
  <2> QED
    BY <2>1, <2>2, Judged_Others
<1>6. CASE RestartService
  BY <1>6, Judged_Restart
<1>7. CASE RestService \/ UNCHANGED serviceVars
  <2>1. requestResults' = requestResults /\ cell' = cell /\ budgetPhase' = budgetPhase
    BY <1>7 DEF RestService, serviceVars, vars, limiter, budget, requestCtx
  <2> QED
    BY <2>1, Judged_Others
<1> QED
  BY <1>1, <1>2, <1>3, <1>4, <1>5, <1>6, <1>7 DEF ServiceNext

-----------------------------------------------------------------------------
(***************************************************************************)
(* The rate limiter's clock and cells.                                     *)
(***************************************************************************)
LEMMA Numbers ==
    /\ Burst \in Nat /\ Burst >= 1
    /\ Interval \in Nat /\ Interval >= 1
    /\ Minute \in Nat /\ Burst * Interval <= Minute
<1>1. Burst \in Nat /\ Burst >= 1 /\ Minute \in Nat
  BY ServiceAssumption DEF ServiceAssumption, Burst
<1>2. Interval \in Int /\ Burst * Interval <= Minute
  BY <1>1 DEF Interval
<1> QED
  BY <1>1, <1>2, ServiceAssumption DEF ServiceAssumption

(* What a check of the limiter does.                                       *)
LEMMA RateEffect ==
    ASSUME NEW r \in Requests, CheckRate(r)
    PROVE  /\ UNCHANGED <<process, caller, now>>
           /\ cell' = [cell EXCEPT ![r] =
                 [said |-> Verdict(r), process |-> process, at |-> now]]
           /\ \/ /\ Verdict(r) = "pass" /\ CellFree(PrincipalOf(caller[r]))
                 /\ tat' = [q \in DOMAIN tat \cup {PrincipalOf(caller[r])} |->
                               IF q = PrincipalOf(caller[r])
                               THEN NextTat(PrincipalOf(caller[r])) ELSE tat[q]]
              \/ /\ Verdict(r) = "block" /\ ~CellFree(PrincipalOf(caller[r]))
                 /\ UNCHANGED tat
  BY DEF CheckRate, budget, InspectRequest, server

(* What every other step does to the limiter: nothing, or time passes, or  *)
(* a restart empties it.                                                   *)
LEMMA LimiterEffect ==
    ASSUME [ServiceNext]_serviceVars, \A r \in Requests : ~CheckRate(r)
    PROVE  /\ UNCHANGED <<caller, cell>>
           /\ \/ UNCHANGED <<process, now, tat>>
              \/ UNCHANGED <<process, tat>> /\ now' = now + 1
              \/ UNCHANGED now /\ process' = process + 1 /\ tat' = NoTat
<1>1. ASSUME NEW r \in Requests, ReadBudgetClock(r)
      PROVE  UNCHANGED <<caller, process, now, limiter>>
  BY <1>1 DEF ReadBudgetClock, vars, Budget!ReadClock, server
<1>2. ASSUME NEW r \in Requests, CheckBudget(r)
      PROVE  UNCHANGED <<caller, process, now, limiter>>
  BY <1>2 DEF CheckBudget, Budget!Charge, Budget!RejectOversize, Budget!RejectExhausted
<1>3. ASSUME NEW r \in Requests, HandleRest(r)
      PROVE  UNCHANGED <<caller, process, now, limiter>>
  BY <1>3, RestEffect DEF budget
<1>4. CASE Tick
  BY <1>4 DEF Tick, Budget!Tick, limiter
<1>5. CASE RestartService
  BY <1>5 DEF RestartService, Budget!Restart
<1>6. CASE RestService \/ UNCHANGED serviceVars
  BY <1>6 DEF RestService, serviceVars, vars, budget, limiter, server
<1> QED
  BY <1>1, <1>2, <1>3, <1>4, <1>5, <1>6 DEF ServiceNext, limiter

LEMMA CellTypes_Step ==
    ASSUME TypeOK, HandlerInv, Proved!TypeOK, CellTypes, [ServiceNext]_serviceVars
    PROVE  CellTypes'
<1>1. now \in Nat /\ process \in Nat
  BY BudgetConstants DEF Proved!TypeOK, Proved!BudgetAssumption
<1>2. ASSUME NEW r \in Requests, CheckRate(r)
      PROVE  CellTypes'
  <2>1. Verdict(r) \in {"pass", "block"}
    BY <1>2, RateEffect
  <2>2. caller' \in [Requests -> Callers]
    BY <1>2, RateEffect DEF CellTypes
  <2>3. /\ cell' \in [Requests -> [said : {"nothing", "pass", "block"}, process : Nat,
                                   at : Nat]]
        /\ \A q \in Requests : cell'[q].process <= process' /\ cell'[q].at <= now'
    <3>1. cell' = [cell EXCEPT ![r] =
                     [said |-> Verdict(r), process |-> process, at |-> now]]
      BY <1>2, RateEffect
    <3>2. process' = process /\ now' = now
      BY <1>2, RateEffect
    <3> QED
      BY <1>1, <2>1, <3>1, <3>2 DEF CellTypes
  <2>4. tat' \in [DOMAIN tat' -> Nat]
    <3> DEFINE p == PrincipalOf(caller[r])
    <3>1. NextTat(p) \in Nat
      BY <1>1, Numbers DEF CellTypes, NextTat, Tat
    <3>2. \/ tat' = [q \in DOMAIN tat \cup {p} |-> IF q = p THEN NextTat(p) ELSE tat[q]]
          \/ tat' = tat
      BY <1>2, RateEffect
    <3> HIDE DEF p
    <3> QED
      BY <3>1, <3>2 DEF CellTypes
  <2> QED
    BY <2>2, <2>3, <2>4 DEF CellTypes
<1>3. CASE \A r \in Requests : ~CheckRate(r)
  <2>1. /\ UNCHANGED <<caller, cell>>
        /\ process <= process' /\ now <= now'
    BY <1>1, <1>3, LimiterEffect
  <2>2. tat' = tat \/ tat' = NoTat
    BY <1>3, LimiterEffect
  <2>3. process' \in Nat /\ now' \in Nat
    BY <1>1, <1>3, LimiterEffect
  <2>4. tat' \in [DOMAIN tat' -> Nat]
    BY <2>2 DEF CellTypes, NoTat
  <2>5. \A r \in Requests : cell'[r].process <= process' /\ cell'[r].at <= now'
    BY <1>1, <2>1, <2>3 DEF CellTypes
  <2> QED
    BY <2>1, <2>4, <2>5 DEF CellTypes
<1> QED
  BY <1>2, <1>3

LEMMA VerdictsStart ==
    ASSUME ServiceInit
    PROVE  CellTypes /\ \A r \in Requests : Judged(r)
<1>1. /\ caller \in [Requests -> Callers]
      /\ tat = NoTat /\ cell = [r \in Requests |-> NoCell]
      /\ \A r \in Requests : budgetPhase[r] = "waiting"
      /\ now = 0 /\ process = 0
  BY DEF ServiceInit, Budget!Init
<1>2. \A r \in Requests : requestResults[r] = <<>>
  BY DEF ServiceInit, Init
<1>3. CellTypes
  BY <1>1 DEF CellTypes, NoTat, NoCell
<1>4. ASSUME NEW r \in Requests PROVE Judged(r)
  BY <1>1, <1>2 DEF Judged, NoCell, BudgetPlace
<1> QED
  BY <1>3, <1>4

(* The part of ServiceInv that needs no arithmetic, with the invariants it *)
(* rests on.                                                               *)
Verdicts ==
    /\ TypeOK /\ HandlerInv /\ Proved!TypeOK /\ Proved!BudgetInv
    /\ CellTypes
    /\ \A r \in Requests : Judged(r)

LEMMA VerdictsKept == ServiceSpec => []Verdicts
<1> DEFINE Held == TypeOK /\ HandlerInv /\ Proved!TypeOK /\ Proved!BudgetInv
           Own == CellTypes /\ \A r \in Requests : Judged(r)
<1>1. ServiceInit => Own
  BY VerdictsStart
<1>2. Held /\ Own /\ [ServiceNext]_serviceVars => Own'
  BY Judged_Step, CellTypes_Step
<1>3. Held /\ Own => Verdicts
  BY DEF Verdicts
<1> HIDE DEF Own
<1>4. ServiceSpec => []Held
  BY HandlerKept, BudgetInvariants, PTL
<1> HIDE DEF Held
<1> QED
  BY <1>1, <1>2, <1>3, <1>4, PTL DEF ServiceSpec

(* A request the rate limiter refused was never charged.                   *)
THEOREM RateRefusals == ServiceSpec => []RateRefusalsAreFree
<1>1. Verdicts => RateRefusalsAreFree
  BY DEF Verdicts, Judged, RateRefusalsAreFree
<1> QED
  BY <1>1, VerdictsKept, PTL

-----------------------------------------------------------------------------
(***************************************************************************)
(* Tokens across the handler and the budget.                               *)
(***************************************************************************)
LEMMA Pairs ==
    /\ \A a, b : <<a>> = <<b>> <=> a = b
    /\ \A a, b, c, d : <<a, b>> = <<c, d>> <=> a = c /\ b = d
    /\ \A a, b, c : <<a>> # <<b, c>>
<1>1. \A a, b : <<a>> = <<b>> <=> a = b
  OBVIOUS
<1>2. \A a, b, c, d : <<a, b>> = <<c, d>> <=> a = c /\ b = d
  OBVIOUS
<1>3. ASSUME NEW a, NEW b, NEW c PROVE <<a>> # <<b, c>>
  <2>1. Len(<<a>>) = 1 /\ Len(<<b, c>>) = 2
    OBVIOUS
  <2> QED
    BY <2>1
<1> QED
  BY <1>1, <1>2, <1>3

(* Two requests are of one client exactly where the detectors take them to *)
(* be of one principal.                                                    *)
LEMMA OneClient ==
    ASSUME CellTypes, NEW q \in Requests, NEW r \in Requests
    PROVE  Client(q) = Client(r) <=> PrincipalOf(caller[q]) = PrincipalOf(caller[r])
<1>1. \A o \in Requests : caller[o] \in CallerType
  BY ServiceAssumption DEF ServiceAssumption, CellTypes
<1>2. \A o \in Requests :
         /\ caller[o].scheme = "Bearer" => PrincipalOf(caller[o]) = ByKey(caller[o])
         /\ caller[o].scheme # "Bearer" => PrincipalOf(caller[o]) = ByAddress(caller[o])
  BY <1>1, ServiceAssumption DEF ServiceAssumption, CallerType, PrincipalOf, BearerToken
<1>3. \A o \in Requests :
         /\ ByKey(caller[o]).by = "key hash"
         /\ ByAddress(caller[o]).by \in {"address", "nothing"}
  BY DEF ByKey, ByAddress
<1>4. CASE caller[q].scheme = "Bearer" /\ caller[r].scheme = "Bearer"
  <2>1. Client(q) = Client(r) <=> caller[q].key = caller[r].key
    BY <1>4, Pairs DEF Client
  <2>2. ByKey(caller[q]) = ByKey(caller[r]) <=> caller[q].key = caller[r].key
    BY <1>4 DEF ByKey, BearerToken
  <2> QED
    BY <1>2, <1>4, <2>1, <2>2
<1>5. CASE caller[q].scheme = "Bearer" /\ caller[r].scheme # "Bearer"
  <2>1. Client(q) # Client(r)
    BY <1>5, Pairs DEF Client
  <2>2. PrincipalOf(caller[q]) # PrincipalOf(caller[r])
    BY <1>2, <1>3, <1>5
  <2> QED
    BY <2>1, <2>2
<1>6. CASE caller[q].scheme # "Bearer" /\ caller[r].scheme = "Bearer"
  <2>1. Client(q) # Client(r)
    BY <1>6, Pairs DEF Client
  <2>2. PrincipalOf(caller[q]) # PrincipalOf(caller[r])
    BY <1>2, <1>3, <1>6
  <2> QED
    BY <2>1, <2>2
<1>7. CASE caller[q].scheme # "Bearer" /\ caller[r].scheme # "Bearer"
  <2>1. Client(q) = Client(r) <=> caller[q].address = caller[r].address
    BY <1>7, Pairs DEF Client
  <2>2. ByAddress(caller[q]) = ByAddress(caller[r])
           <=> caller[q].address = caller[r].address
    BY DEF ByAddress
  <2> QED
    BY <1>2, <1>7, <2>1, <2>2
<1> QED
  BY <1>4, <1>5, <1>6, <1>7

(* The budget let a request through exactly where its results say so.      *)
LEMMA PassedByResult ==
    ASSUME TypeOK, HandlerInv, NEW r \in Requests, Judged(r)
    PROVE  budgetPhase[r] = "passed" <=>
              \E i \in DOMAIN requestResults[r] :
                  RequestChain[i] = "token_budget" /\ requestResults[r][i] = "pass"
<1> DEFINE results == requestResults[r]
<1>1. /\ results \in Seq(Results) /\ Len(results) <= Len(RequestChain)
      /\ RequestChain \in Seq(Detectors) /\ BudgetPlace \in {1, 2}
  BY ChainType DEF TypeOK, HandlerInv, RequestTrail, BudgetPlace
<1>2. ASSUME budgetPhase[r] = "passed"
      PROVE  \E i \in DOMAIN results :
                RequestChain[i] = "token_budget" /\ results[i] = "pass"
  <2>1. /\ "token_budget" \in Enabled /\ BudgetPlace \in DOMAIN results
        /\ results[BudgetPlace] = "pass"
    BY <1>1, <1>2 DEF Judged
  <2> QED
    BY <2>1, Places DEF Fronted
<1>3. ASSUME NEW i \in DOMAIN results,
             RequestChain[i] = "token_budget", results[i] = "pass"
      PROVE  budgetPhase[r] = "passed"
  <2>1. i = BudgetPlace /\ "token_budget" \in Enabled /\ Len(results) >= BudgetPlace
    BY <1>1, <1>3, Places DEF Fronted
  <2> QED
    BY <1>3, <2>1 DEF Judged
<1> QED
  BY <1>2, <1>3

(* What is sent passed the budget, where there is one.                     *)
LEMMA SentWasPassed ==
    ASSUME TypeOK, HandlerInv, NEW r \in Requests, Judged(r), sent[r].calls > 0,
           "token_budget" \in Enabled
    PROVE  budgetPhase[r] = "passed"
<1>1. Cleared(RequestChain, requestResults[r]) /\ requestResults[r] \in Seq(Results)
  BY DEF HandlerInv, SendingTrail, MayPassOn, InspectedRequest, TypeOK
<1>2. Len(requestResults[r]) >= BudgetPlace /\ BudgetPlace \in {1, 2}
  BY <1>1, Places DEF Cleared, Fronted, BudgetPlace
<1>3. requestResults[r][BudgetPlace] # "block"
  BY <1>1, <1>2 DEF Cleared, Blocked
<1> QED
  BY <1>2, <1>3 DEF Judged

(* What is sent of a client within a window is part of what the budget let *)
(* through, and so within its limit.                                       *)
LEMMA SentFits ==
    ASSUME Verdicts, NEW r \in Requests, sent[r].calls > 0, "token_budget" \in Enabled
    PROVE  /\ budgetPhase[r] = "passed"
           /\ Budget!Spent({q \in Requests :
                  /\ sent[q].calls > 0 /\ Client(q) = Client(r)
                  /\ charge[q].process = charge[r].process
                  /\ charge[q].start = charge[r].start}) <= MaxWindowTokens
<1> DEFINE p == PrincipalOf(caller[r])
           S == {q \in Requests :
                  /\ sent[q].calls > 0 /\ Client(q) = Client(r)
                  /\ charge[q].process = charge[r].process
                  /\ charge[q].start = charge[r].start}
           T == Proved!PassedIn(p, charge[r].process, charge[r].start)
<1>1. \A q \in Requests : sent[q].calls > 0 => budgetPhase[q] = "passed"
  BY SentWasPassed DEF Verdicts
<1>2. S \subseteq T
  <2>1. \A q \in S : q \in Requests /\ PrincipalOf(caller[q]) = p
    BY OneClient DEF Verdicts
  <2> QED
    BY <1>1, <2>1 DEF Proved!PassedIn, Proved!Passed
<1>3. T \in SUBSET Requests /\ Proved!Spent(T) <= MaxWindowTokens
  <2>1. Proved!WindowWithinLimit
    BY DEF Verdicts, Proved!BudgetInv
  <2> QED
    BY <1>1, <2>1 DEF Proved!WindowWithinLimit, Proved!PassedIn, Proved!Passed
<1> HIDE DEF S, T
<1>4. Proved!Spent(S) <= Proved!Spent(T)
  BY <1>2, <1>3, BudgetConstants, Proved!SpentMonotone
<1>5. Proved!Spent(S) \in Nat /\ Proved!Spent(T) \in Nat /\ MaxWindowTokens \in Nat
  BY <1>2, <1>3, BudgetConstants, Proved!SpentType DEF Proved!BudgetAssumption
<1>6. Budget!Spent(S) <= MaxWindowTokens
  BY <1>3, <1>4, <1>5, SameSpent
<1> QED
  BY <1>1, <1>6 DEF S
(* What the upstream is given of a client within a window stays within its *)
(* limit, and nothing is sent uncharged.                                   *)
THEOREM ForwardedCharged == ServiceSpec => []ForwardedWithinBudget
<1>1. Verdicts => ForwardedWithinBudget
  BY SentFits DEF ForwardedWithinBudget
<1> QED
  BY <1>1, VerdictsKept, PTL

(* A balance counts every request the budget let through, whatever became  *)
(* of it.                                                                  *)
THEOREM StaysCharged == ServiceSpec => []FailuresStayCharged
<1>1. ASSUME Verdicts, NEW p \in DOMAIN usage
      PROVE  usage[p].tokens = Budget!Spent({r \in Requests :
                /\ PrincipalOf(caller[r]) = p
                /\ \E i \in DOMAIN requestResults[r] :
                      RequestChain[i] = "token_budget" /\ requestResults[r][i] = "pass"
                /\ charge[r].process = process /\ charge[r].start = usage[p].start})
  <2> DEFINE S == {r \in Requests :
                /\ PrincipalOf(caller[r]) = p
                /\ \E i \in DOMAIN requestResults[r] :
                      RequestChain[i] = "token_budget" /\ requestResults[r][i] = "pass"
                /\ charge[r].process = process /\ charge[r].start = usage[p].start}
             T == Proved!PassedIn(p, process, usage[p].start)
  <2>1. ASSUME NEW r \in Requests
        PROVE  r \in S <=> r \in T
    <3>1. budgetPhase[r] = "passed" <=>
              \E i \in DOMAIN requestResults[r] :
                  RequestChain[i] = "token_budget" /\ requestResults[r][i] = "pass"
      BY <1>1, PassedByResult DEF Verdicts
    <3> QED
      BY <3>1 DEF Proved!PassedIn, Proved!Passed
  <2>2. T \subseteq Requests
    BY DEF Proved!PassedIn, Proved!Passed
  <2>3. S = T
    BY <2>1, <2>2
  <2>4. usage[p].tokens = Proved!Spent(T)
    BY <1>1 DEF Verdicts, Proved!BudgetInv, Proved!BalanceIsWindowSum
  <2> QED
    BY <2>3, <2>4, SameSpent
<1>2. Verdicts => FailuresStayCharged
  BY <1>1 DEF FailuresStayCharged
<1> QED
  BY <1>2, VerdictsKept, PTL

-----------------------------------------------------------------------------
(***************************************************************************)
(* The limiter's cells.  A cell is taken once, so the cells of a principal *)
(* grow by the one that is taken.                                          *)
(***************************************************************************)
LEMMA Counted_Subsets ==
    ASSUME NEW S \in SUBSET Requests, NEW T \in SUBSET S
    PROVE  /\ Cardinality(S) \in Nat /\ Cardinality(T) \in Nat
           /\ Cardinality(T) <= Cardinality(S)
           /\ S # {} => Cardinality(S) >= 1
           /\ \A r \in Requests \ S : Cardinality(S \cup {r}) = Cardinality(S) + 1
<1>1. IsFiniteSet(S) /\ IsFiniteSet(T)
  BY HandlerAssumption, FS_Subset DEF HandlerAssumption
<1>2. S # {} => Cardinality(S) # 0
  BY <1>1, FS_EmptySet
<1> QED
  BY <1>1, <1>2, FS_Subset, FS_CardinalityType, FS_AddElement

LEMMA FirstVerdict ==
    ASSUME TypeOK, CellTypes, NEW r \in Requests, Judged(r), CheckRate(r)
    PROVE  cell[r].said = "nothing"
<1>1. Len(requestResults[r]) = 0
  BY AtRate DEF CheckRate
<1> QED
  BY <1>1 DEF Judged

LEMMA CellsOnCheck ==
    ASSUME TypeOK, CellTypes, NEW r \in Requests, Judged(r), CheckRate(r), NEW p
    PROVE  /\ \A q \in Requests : q # r => cell'[q] = cell[q]
           /\ cell'[r] = [said |-> Verdict(r), process |-> process, at |-> now]
           /\ r \notin Cells(p)
           /\ Cells(p)' = IF Verdict(r) = "pass" /\ PrincipalOf(caller[r]) = p
                          THEN Cells(p) \cup {r} ELSE Cells(p)
<1>1. /\ \A q \in Requests : q # r => cell'[q] = cell[q]
      /\ cell'[r] = [said |-> Verdict(r), process |-> process, at |-> now]
      /\ caller' = caller /\ process' = process
  BY RateEffect DEF CellTypes
<1>2. r \notin Cells(p)
  BY FirstVerdict DEF Cells
<1>3. \A q \in Requests :
         q \in Cells(p)' <=> \/ q \in Cells(p)
                             \/ q = r /\ Verdict(r) = "pass" /\ PrincipalOf(caller[r]) = p
  <2>1. r \in Cells(p)' <=> Verdict(r) = "pass" /\ PrincipalOf(caller[r]) = p
    BY <1>1 DEF Cells
  <2>2. \A q \in Requests : q # r => (q \in Cells(p)' <=> q \in Cells(p))
    BY <1>1 DEF Cells
  <2> QED
    BY <1>2, <2>1, <2>2
<1>4. Cells(p)' \subseteq Requests /\ Cells(p) \subseteq Requests
  BY DEF Cells
<1> QED
  BY <1>1, <1>2, <1>3, <1>4

(* Sums of intervals.                                                      *)
LEMMA OneMoreInterval ==
    ASSUME NEW I \in Nat, NEW n \in Nat, NEW t \in Int, NEW a \in Int,
           t + (n + 1) * I <= a
    PROVE  t + ((n + 1) + 1) * I <= a + I
<1>1. ((n + 1) + 1) * I = (n + 1) * I + I
  OBVIOUS
<1> QED
  BY <1>1

LEMMA OneMoreAllowed ==
    ASSUME NEW I \in Nat, NEW n \in Nat, NEW B \in Nat,
           NEW t \in Int, NEW a \in Int, NEW o \in Int, NEW b \in Int,
           a <= t + (B + 1 + n) * I \/ a <= o + (1 + n) * I,
           b = (IF a > o THEN a ELSE o) + I
    PROVE  b <= t + (B + 1 + (n + 1)) * I \/ b <= o + (1 + (n + 1)) * I
<1>1. /\ (B + 1 + (n + 1)) * I = (B + 1 + n) * I + I
      /\ (1 + (n + 1)) * I = (1 + n) * I + I
      /\ (1 + n) * I \in Nat /\ (B + 1 + n) * I \in Int
  OBVIOUS
<1> QED
  BY <1>1

LEMMA Clocks ==
    ASSUME Verdicts
    PROVE  now \in Nat /\ process \in Nat
<1>1. now \in 0..MaxTime /\ process \in 0..MaxRestarts
  BY DEF Verdicts, Proved!TypeOK
<1> QED
  BY <1>1

(* A request the limiter lets through adds a cell, taken now.              *)
LEMMA PassEffect ==
    ASSUME Verdicts, NEW r \in Requests, CheckRate(r),
           Verdict(r) = "pass", NEW p, PrincipalOf(caller[r]) = p
    PROVE  /\ Cells(p)' = Cells(p) \cup {r} /\ r \notin Cells(p)
           /\ Cells(p) \subseteq Requests
           /\ \A q \in Cells(p) : cell'[q] = cell[q]
           /\ cell'[r].at = now
           /\ now' = now /\ now \in Nat
<1>1. Cells(p) \subseteq Requests
  BY DEF Cells
<1>2. TypeOK /\ CellTypes /\ Judged(r)
  BY DEF Verdicts
<1>3. /\ \A q \in Requests : q # r => cell'[q] = cell[q]
      /\ cell'[r] = [said |-> Verdict(r), process |-> process, at |-> now]
      /\ r \notin Cells(p)
      /\ Cells(p)' = IF Verdict(r) = "pass" /\ PrincipalOf(caller[r]) = p
                     THEN Cells(p) \cup {r} ELSE Cells(p)
  BY <1>2, CellsOnCheck, Zenon
<1>4. now' = now
  BY RateEffect
<1> QED
  BY <1>1, <1>3, <1>4, Clocks

LEMMA NotTooSoon_Pass ==
    ASSUME Verdicts, ArrivalTimes, NEW r \in Requests, CheckRate(r),
           Verdict(r) = "pass", NEW p \in Principals, PrincipalOf(caller[r]) = p
    PROVE  p \in DOMAIN tat' /\ Cells(p)' # {} /\ NotTooSoon(p)'
<1>1. /\ Cells(p)' = Cells(p) \cup {r} /\ r \notin Cells(p)
      /\ Cells(p) \subseteq Requests
      /\ \A q \in Cells(p) : cell'[q] = cell[q]
      /\ cell'[r].at = now
  BY PassEffect
<1>2. now' = now /\ now \in Nat
  BY PassEffect
<1>3. p \in DOMAIN tat' /\ tat'[p] = NextTat(p)
  BY RateEffect
<1>4. Cardinality(Cells(p)) \in Nat /\ Cardinality(Cells(p)') = Cardinality(Cells(p)) + 1
  <2>1. Cells(p) \subseteq Requests
    BY DEF Cells
  <2> QED
    BY <1>1, <2>1, Counted_Subsets
<1>5. ASSUME NEW t \in 0..now, \A q \in Cells(p)' : t <= cell'[q].at
      PROVE  t + (Cardinality(Cells(p)') + 1) * Interval <= tat'[p]
  <2>1. t \in Int /\ Tat(p) \in Int
    BY <1>2, Numbers DEF Verdicts, CellTypes, Tat
  <2>2. t + (Cardinality(Cells(p)) + 1) * Interval <= Tat(p)
    <3>1. CASE p \in DOMAIN tat
      <4>1. \A q \in Cells(p) : t <= cell[q].at
        BY <1>1, <1>5
      <4> QED
        BY <1>5, <3>1, <4>1 DEF ArrivalTimes, NotTooSoon, Tat
    <3>2. CASE p \notin DOMAIN tat
      <4>1. Cardinality(Cells(p)) = 0
        BY <3>2, FS_EmptySet DEF ArrivalTimes
      <4>2. (0 + 1) * Interval = Interval
        BY Numbers
      <4> QED
        BY <1>2, <1>5, <3>2, <4>1, <4>2, Numbers DEF Tat
    <3> QED
      BY <3>1, <3>2
  <2>3. t + ((Cardinality(Cells(p)) + 1) + 1) * Interval <= Tat(p) + Interval
    BY <1>4, <2>1, <2>2, Numbers, OneMoreInterval
  <2>4. Tat(p) + Interval <= NextTat(p)
    BY <1>2, <2>1, Numbers DEF NextTat
  <2>5. NextTat(p) \in Int /\ ((Cardinality(Cells(p)) + 1) + 1) * Interval \in Int
    BY <1>2, <1>4, <2>1, Numbers DEF NextTat
  <2> HIDE DEF Tat, NextTat
  <2> QED
    BY <1>3, <1>4, <2>1, <2>3, <2>4, <2>5, Numbers
<1> QED
  BY <1>1, <1>2, <1>3, <1>5 DEF NotTooSoon

LEMMA NotTooLate_Pass ==
    ASSUME Verdicts, ArrivalTimes, NEW r \in Requests, CheckRate(r),
           Verdict(r) = "pass", NEW p \in Principals, PrincipalOf(caller[r]) = p
    PROVE  NotTooLate(p)'
<1>1. /\ Cells(p)' = Cells(p) \cup {r} /\ r \notin Cells(p)
      /\ Cells(p) \subseteq Requests
      /\ \A q \in Cells(p) : cell'[q] = cell[q]
      /\ cell'[r].at = now
  BY PassEffect
<1>2. now' = now /\ now \in Nat
  BY PassEffect
<1>3. tat'[p] = NextTat(p) /\ CellFree(p)
  BY RateEffect
<1>4. Tat(p) \in Int /\ Tat(p) <= now + Burst * Interval
  BY <1>2, <1>3, Numbers DEF Verdicts, CellTypes, Tat, CellFree
<1>5. \A q \in Cells(p) : cell[q].at <= now /\ cell[q].at \in Nat
  BY DEF Cells, Verdicts, CellTypes
<1>6. ASSUME NEW t \in (-Minute)..now
      PROVE  \/ tat'[p] <= t + (Burst + 1 + Cardinality(CellsAfter(p, t)')) * Interval
             \/ tat'[p] <= now + (1 + Cardinality(CellsAfter(p, t)')) * Interval
  <2>1. t \in Int /\ t <= now
    BY <1>2, Numbers
  <2>2. CASE t = now
    <3>1. CellsAfter(p, t)' = {}
      BY <1>1, <1>2, <1>5, <2>2 DEF CellsAfter
    <3>2. Cardinality(CellsAfter(p, t)') = 0
      BY <3>1, FS_EmptySet
    <3>3. (Burst + 1 + 0) * Interval = Burst * Interval + Interval
          /\ Burst * Interval \in Nat
      BY Numbers
    <3>4. NextTat(p) <= now + Burst * Interval + Interval
      BY <1>2, <1>4, <3>3, Numbers DEF NextTat
    <3> QED
      BY <1>2, <1>3, <2>2, <3>2, <3>3, <3>4, Numbers
  <2>3. CASE t < now
    <3>1. /\ CellsAfter(p, t)' = CellsAfter(p, t) \cup {r}
          /\ r \notin CellsAfter(p, t) /\ CellsAfter(p, t) \subseteq Requests
      BY <1>1, <1>2, <2>3 DEF CellsAfter
    <3>2. PICK n \in Nat : /\ n = Cardinality(CellsAfter(p, t))
                           /\ Cardinality(CellsAfter(p, t)') = n + 1
      BY <3>1, Counted_Subsets
    <3>3. Tat(p) <= t + (Burst + 1 + n) * Interval \/ Tat(p) <= now + (1 + n) * Interval
      <4>1. CASE p \in DOMAIN tat
        BY <1>6, <3>2, <4>1 DEF ArrivalTimes, NotTooLate, Tat
      <4>2. CASE p \notin DOMAIN tat
        <5>1. n = 0
          BY <3>2, <4>2, FS_EmptySet DEF ArrivalTimes, CellsAfter
        <5>2. (1 + 0) * Interval = Interval
          BY Numbers
        <5> QED
          BY <1>2, <4>2, <5>1, <5>2, Numbers DEF Tat
      <4> QED
        BY <4>1, <4>2
    <3>4. NextTat(p) = (IF Tat(p) > now THEN Tat(p) ELSE now) + Interval
      BY DEF NextTat
    <3>5. NextTat(p) \in Int /\ now \in Int
      BY <1>2, <1>4, <3>4, Numbers
    <3>6. \/ NextTat(p) <= t + (Burst + 1 + (n + 1)) * Interval
          \/ NextTat(p) <= now + (1 + (n + 1)) * Interval
      BY <1>4, <2>1, <3>3, <3>4, <3>5, Numbers, OneMoreAllowed
    <3> QED
      BY <1>3, <3>2, <3>6
  <2> QED
    BY <1>2, <2>1, <2>2, <2>3
<1> QED
  BY <1>2, <1>6 DEF NotTooLate

(* A principal whose cells, arrival time and clock are unchanged.          *)
LEMMA ArrivalKept ==
    ASSUME NEW p, NotTooSoon(p), NotTooLate(p), now' = now, tat'[p] = tat[p],
           Cells(p)' = Cells(p), \A q \in Cells(p) : cell'[q] = cell[q]
    PROVE  NotTooSoon(p)' /\ NotTooLate(p)'
<1>1. NotTooSoon(p)'
  BY DEF NotTooSoon
<1>2. \A t : CellsAfter(p, t)' = CellsAfter(p, t)
  BY DEF CellsAfter
<1>3. NotTooLate(p)'
  BY <1>2 DEF NotTooLate
<1> QED
  BY <1>1, <1>3

(* A tick of the clock leaves a principal with a cell its bounds: its      *)
(* cells all lie in the past, and none after the new moment.               *)
LEMMA ArrivalTicks ==
    ASSUME Verdicts, NEW p, p \in DOMAIN tat, Cells(p) # {},
           NotTooSoon(p), NotTooLate(p),
           now' = now + 1, UNCHANGED <<tat, cell, caller, process>>
    PROVE  NotTooSoon(p)' /\ NotTooLate(p)'
<1>1. Cells(p)' = Cells(p) /\ \A t : CellsAfter(p, t)' = CellsAfter(p, t)
  BY DEF Cells, CellsAfter
<1>2. now \in Nat /\ \A q \in Cells(p) : cell[q].at <= now /\ cell[q].at \in Nat
  BY Clocks DEF Verdicts, CellTypes, Cells
<1>3. ASSUME NEW t \in 0..(now + 1), \A q \in Cells(p) : t <= cell[q].at
      PROVE  t + (Cardinality(Cells(p)) + 1) * Interval <= tat[p]
  <2>1. t \in 0..now
    BY <1>2, <1>3
  <2> QED
    BY <1>3, <2>1 DEF NotTooSoon
<1>4. NotTooSoon(p)'
  BY <1>1, <1>3 DEF NotTooSoon
<1>5. ASSUME NEW t \in (-Minute)..(now + 1)
      PROVE  \/ tat[p] <= t + (Burst + 1 + Cardinality(CellsAfter(p, t))) * Interval
             \/ tat[p] <= (now + 1) + (1 + Cardinality(CellsAfter(p, t))) * Interval
  <2>1. PICK u \in (-Minute)..now : u <= t /\ CellsAfter(p, u) = CellsAfter(p, t)
    <3>1. CASE t = now + 1
      <4>1. CellsAfter(p, now) = {} /\ CellsAfter(p, t) = {}
        BY <1>2, <3>1 DEF CellsAfter
      <4>2. now \in (-Minute)..now /\ now <= t
        BY <1>2, <3>1, Numbers
      <4> QED
        BY <4>1, <4>2
    <3>2. CASE t # now + 1
      <4>1. t \in (-Minute)..now
        BY <1>2, <3>2, Numbers
      <4> QED
        BY <4>1
    <3> QED
      BY <3>1, <3>2
  <2>2. PICK n \in Nat : n = Cardinality(CellsAfter(p, u))
    <3>1. CellsAfter(p, u) \subseteq Requests
      BY DEF CellsAfter, Cells
    <3> QED
      BY <3>1, Counted_Subsets
  <2>3. tat[p] <= u + (Burst + 1 + n) * Interval \/ tat[p] <= now + (1 + n) * Interval
    BY <2>2 DEF NotTooLate
  <2>4. /\ tat[p] \in Int /\ u \in Int /\ t \in Int /\ now \in Int /\ u <= t
        /\ (Burst + 1 + n) * Interval \in Int /\ (1 + n) * Interval \in Int
    BY <1>2, <2>1, <2>2, Numbers DEF Verdicts, CellTypes
  <2>5. tat[p] <= t + (Burst + 1 + n) * Interval \/ tat[p] <= (now + 1) + (1 + n) * Interval
    BY <2>3, <2>4
  <2> QED
    BY <2>1, <2>2, <2>5
<1>6. NotTooLate(p)'
  BY <1>1, <1>5 DEF NotTooLate
<1> QED
  BY <1>4, <1>6

LEMMA ArrivalTimes_Step ==
    ASSUME Verdicts, ArrivalTimes, [ServiceNext]_serviceVars
    PROVE  ArrivalTimes'
<1>1. Principals' = Principals
  BY DEF Principals
<1>2. ASSUME NEW r \in Requests, CheckRate(r), NEW p \in Principals
      PROVE  /\ p \in DOMAIN tat' <=> Cells(p)' # {}
             /\ p \in DOMAIN tat' => NotTooSoon(p)' /\ NotTooLate(p)'
  <2>1. CASE Verdict(r) = "pass" /\ PrincipalOf(caller[r]) = p
    BY <1>2, <2>1, NotTooSoon_Pass, NotTooLate_Pass
  <2>2. CASE ~(Verdict(r) = "pass" /\ PrincipalOf(caller[r]) = p)
    <3>1. /\ Cells(p)' = Cells(p)
          /\ \A q \in Cells(p) : cell'[q] = cell[q]
      <4>1. TypeOK /\ CellTypes /\ Judged(r)
        BY DEF Verdicts
      <4>2. /\ \A q \in Requests : q # r => cell'[q] = cell[q]
            /\ r \notin Cells(p)
            /\ Cells(p)' = IF Verdict(r) = "pass" /\ PrincipalOf(caller[r]) = p
                           THEN Cells(p) \cup {r} ELSE Cells(p)
        BY <1>2, <4>1, CellsOnCheck, Zenon
      <4>3. Cells(p) \subseteq Requests
        BY DEF Cells
      <4> QED
        BY <2>2, <4>2, <4>3
    <3>2. /\ now' = now
          /\ p \in DOMAIN tat' <=> p \in DOMAIN tat
          /\ p \in DOMAIN tat => tat'[p] = tat[p]
      <4> DEFINE o == PrincipalOf(caller[r])
                 e == NextTat(o)
      <4>1. /\ now' = now
            /\ \/ /\ Verdict(r) = "pass"
                  /\ tat' = [q \in DOMAIN tat \cup {o} |-> IF q = o THEN e ELSE tat[q]]
               \/ tat' = tat
        BY <1>2, RateEffect
      <4>2. CASE tat' = tat
        BY <4>1, <4>2
      <4>3. CASE Verdict(r) = "pass" /\ tat' # tat
        <5>1. o # p
          BY <2>2, <4>3
        <5>2. tat' = [q \in DOMAIN tat \cup {o} |-> IF q = o THEN e ELSE tat[q]]
          BY <4>1, <4>3
        <5> HIDE DEF o, e
        <5> QED
          BY <4>1, <5>1, <5>2
      <4> QED
        BY <4>1, <4>2, <4>3
    <3> QED
      BY <3>1, <3>2, ArrivalKept DEF ArrivalTimes
  <2> QED
    BY <2>1, <2>2
<1>3. ASSUME \A r \in Requests : ~CheckRate(r), NEW p \in Principals
      PROVE  /\ p \in DOMAIN tat' <=> Cells(p)' # {}
             /\ p \in DOMAIN tat' => NotTooSoon(p)' /\ NotTooLate(p)'
  <2>1. UNCHANGED <<caller, cell>>
    BY <1>3, LimiterEffect
  <2>2. CASE UNCHANGED <<process, now, tat>>
    <3>1. Cells(p)' = Cells(p)
      BY <2>1, <2>2 DEF Cells
    <3> QED
      BY <2>1, <2>2, <3>1, ArrivalKept DEF ArrivalTimes
  <2>3. CASE UNCHANGED <<process, tat>> /\ now' = now + 1
    <3>1. Cells(p)' = Cells(p)
      BY <2>1, <2>3 DEF Cells
    <3> QED
      BY <2>1, <2>3, <3>1, ArrivalTicks DEF ArrivalTimes
  <2>4. CASE UNCHANGED now /\ process' = process + 1 /\ tat' = NoTat
    <3>1. \A q \in Requests :
             /\ cell[q].process \in Nat /\ cell[q].process <= process /\ process \in Nat
      BY Clocks DEF Verdicts, CellTypes
    <3>2. Cells(p)' = {}
      BY <2>1, <2>4, <3>1 DEF Cells
    <3> QED
      BY <2>4, <3>2 DEF NoTat
  <2> QED
    BY <1>3, <2>2, <2>3, <2>4, LimiterEffect
<1> QED
  BY <1>1, <1>2, <1>3 DEF ArrivalTimes

LEMMA ArrivalStart ==
    ASSUME ServiceInit
    PROVE  ArrivalTimes
<1>1. tat = NoTat /\ cell = [r \in Requests |-> NoCell]
  BY DEF ServiceInit
<1>2. \A p : Cells(p) = {}
  BY <1>1 DEF Cells, NoCell
<1> QED
  BY <1>1, <1>2 DEF ArrivalTimes, NoTat

LEMMA ArrivalsKept == ServiceSpec => []ArrivalTimes
<1> QED
  BY ArrivalStart, ArrivalTimes_Step, VerdictsKept, PTL DEF ServiceSpec

-----------------------------------------------------------------------------
(***************************************************************************)
(* What the arrival times say of what was let through, and refused.        *)
(***************************************************************************)
(* Whole intervals that fit into a time and a number of them more.         *)
LEMMA IntervalsFit ==
    ASSUME NEW n \in Nat, NEW x \in Nat, NEW b \in Nat, NEW d \in Nat \ {0},
           n * d <= x + b * d
    PROVE  n <= b + (x \div d)
<1> DEFINE q == x \div d
<1>1. q \in Nat /\ x < d * q + d
  OBVIOUS
<1> HIDE DEF q
<1>2. n * d < b * d + d * q + d
  BY <1>1
<1>3. SUFFICES ASSUME n >= b + q + 1 PROVE FALSE
  BY <1>1 DEF q
<1>4. n * d >= (b + q + 1) * d
  BY <1>3, <1>1
<1> QED
  BY <1>4, <1>2, <1>1

RateBoundOf(r) ==
    \A q \in PassedCells(r) :
        (cell[r].said = "pass" /\ \A o \in PassedCells(r) : cell[q].at <= cell[o].at)
            => Cardinality(PassedCells(r)) <= Burst + (cell[r].at - cell[q].at) \div Interval

JustJudged(r) == cell[r].process = process /\ cell[r].at = now

(* The cells let through so far, for a request judged now, are all those   *)
(* of its principal.                                                       *)
LEMMA CellsOfNow ==
    ASSUME Verdicts, NEW r \in Requests, JustJudged(r)
    PROVE  /\ PrincipalOf(caller[r]) \in Principals
           /\ PassedCells(r) = Cells(PrincipalOf(caller[r]))
<1>1. CellTypes
  BY DEF Verdicts
<1>2. \A q \in Requests :
         Client(q) = Client(r) <=> PrincipalOf(caller[q]) = PrincipalOf(caller[r])
  BY <1>1, OneClient
<1>3. \A q \in Requests : cell[q].at <= now
  BY <1>1 DEF CellTypes
<1>4. PassedCells(r) = Cells(PrincipalOf(caller[r]))
  BY <1>2, <1>3 DEF PassedCells, Cells, JustJudged
<1> QED
  BY <1>1, <1>4 DEF CellTypes, Principals

LEMMA BoundOfNow ==
    ASSUME Verdicts, ArrivalTimes, NEW r \in Requests, JustJudged(r)
    PROVE  RateBoundOf(r)
<1> SUFFICES ASSUME NEW q \in PassedCells(r), cell[r].said = "pass",
                    \A o \in PassedCells(r) : cell[q].at <= cell[o].at
             PROVE  Cardinality(PassedCells(r))
                        <= Burst + (cell[r].at - cell[q].at) \div Interval
  BY DEF RateBoundOf
<1>1. PICK p \in Principals : /\ PrincipalOf(caller[r]) = p
                              /\ PassedCells(r) = Cells(p)
  BY CellsOfNow
<1>2. /\ now \in Nat /\ Cells(p) \subseteq Requests
      /\ \A o \in Cells(p) : cell[o].at \in Nat /\ cell[o].at <= now
  BY Clocks DEF Verdicts, CellTypes, Cells
<1>3. p \in DOMAIN tat /\ NotTooSoon(p) /\ NotTooLate(p) /\ tat[p] \in Nat
  BY <1>1 DEF ArrivalTimes, Verdicts, CellTypes
<1>4. PICK n \in Nat : n = Cardinality(Cells(p))
  BY <1>2, Counted_Subsets
<1>5. PICK t \in 0..now : t = cell[q].at /\ \A o \in Cells(p) : t <= cell[o].at
  BY <1>1, <1>2
<1>6. t + (n + 1) * Interval <= tat[p]
  BY <1>3, <1>4, <1>5 DEF NotTooSoon
<1>7. tat[p] <= now + (Burst + 1) * Interval
  <2>1. CellsAfter(p, now) = {}
    BY <1>2 DEF CellsAfter
  <2>2. Cardinality(CellsAfter(p, now)) = 0
    BY <2>1, FS_EmptySet
  <2>3. now \in (-Minute)..now
    BY <1>2, Numbers
  <2>4. \/ tat[p] <= now + (Burst + 1 + 0) * Interval
        \/ tat[p] <= now + (1 + 0) * Interval
    BY <1>3, <2>2, <2>3 DEF NotTooLate
  <2>5. /\ (Burst + 1 + 0) * Interval = (Burst + 1) * Interval
        /\ (1 + 0) * Interval <= (Burst + 1) * Interval
        /\ (Burst + 1) * Interval \in Int /\ (1 + 0) * Interval \in Int
    BY Numbers
  <2> QED
    BY <1>2, <1>3, <2>4, <2>5
<1>8. n + 1 <= Burst + 1 + (now - t) \div Interval
  <2>1. (n + 1) * Interval \in Int /\ (Burst + 1) * Interval \in Int /\ now - t \in Nat
    BY <1>2, Numbers
  <2>2. (n + 1) * Interval <= (now - t) + (Burst + 1) * Interval
    BY <1>2, <1>3, <1>6, <1>7, <2>1
  <2>3. PICK x \in Nat, m \in Nat, b \in Nat : x = now - t /\ m = n + 1 /\ b = Burst + 1
    BY <2>1, Numbers
  <2>4. m * Interval <= x + b * Interval
    BY <2>2, <2>3
  <2>5. m <= b + (x \div Interval)
    BY <2>4, Numbers, IntervalsFit
  <2> QED
    BY <2>3, <2>5
<1>9. n <= Burst + (now - t) \div Interval
  <2>1. (now - t) \div Interval \in Int
    BY <1>2, Numbers
  <2> QED
    BY <1>8, <2>1, Numbers
<1> QED
  BY <1>1, <1>4, <1>5, <1>9 DEF JustJudged

(* A cell once taken stays, and with it those counted when it was taken.   *)
LEMMA CountedStay ==
    ASSUME Verdicts, [ServiceNext]_serviceVars, NEW r \in Requests,
           cell[r].said # "nothing"
    PROVE  /\ cell'[r] = cell[r]
           /\ PassedCells(r) \subseteq PassedCells(r)'
           /\ \A q \in PassedCells(r) : cell'[q] = cell[q]
           /\ ~JustJudged(r)' => PassedCells(r)' = PassedCells(r)
<1>1. CellTypes /\ TypeOK /\ \A q \in Requests : Judged(q)
  BY DEF Verdicts
<1>2. ASSUME NEW o \in Requests, CheckRate(o)
      PROVE  /\ cell'[r] = cell[r]
             /\ PassedCells(r) \subseteq PassedCells(r)'
             /\ \A q \in PassedCells(r) : cell'[q] = cell[q]
             /\ ~JustJudged(r)' => PassedCells(r)' = PassedCells(r)
  <2>1. /\ cell[o].said = "nothing" /\ o # r
        /\ \A q \in Requests : q # o => cell'[q] = cell[q]
        /\ cell'[o] = [said |-> Verdict(o), process |-> process, at |-> now]
    BY <1>1, <1>2, FirstVerdict, CellsOnCheck
  <2>2. /\ UNCHANGED <<process, caller, now>>
        /\ \A q \in Requests : Client(q)' = Client(q)
    BY <1>2, RateEffect DEF Client
  <2>3. /\ o \notin PassedCells(r)
        /\ PassedCells(r) \subseteq Requests /\ PassedCells(r)' \subseteq Requests
    BY <2>1 DEF PassedCells
  <2>4. \A q \in Requests : q # o => (q \in PassedCells(r)' <=> q \in PassedCells(r))
    BY <2>1, <2>2 DEF PassedCells
  <2>5. o \in PassedCells(r)' => JustJudged(r)'
    <3>1. cell[r].process <= process /\ cell[r].at <= now
          /\ cell[r].at \in Nat
      BY <1>1 DEF CellTypes
    <3> QED
      BY <2>1, <2>2, <3>1, Clocks DEF PassedCells, JustJudged
  <2>6. cell'[r] = cell[r] /\ \A q \in PassedCells(r) : cell'[q] = cell[q]
    BY <2>1, <2>3
  <2>7. PassedCells(r) \subseteq PassedCells(r)'
    BY <2>3, <2>4
  <2>8. ~JustJudged(r)' => PassedCells(r)' = PassedCells(r)
    BY <2>3, <2>4, <2>5
  <2> QED
    BY <2>6, <2>7, <2>8
<1>3. ASSUME \A o \in Requests : ~CheckRate(o)
      PROVE  cell' = cell /\ PassedCells(r)' = PassedCells(r)
  <2>1. UNCHANGED <<caller, cell>>
    BY <1>3, LimiterEffect
  <2> QED
    BY <2>1 DEF PassedCells, Client
<1> QED
  BY <1>2, <1>3

LEMMA RateBound_Step ==
    ASSUME Verdicts, [ServiceNext]_serviceVars, RateBound, Verdicts',
           \A r \in Requests : JustJudged(r)' => RateBoundOf(r)'
    PROVE  RateBound'
<1>1. ASSUME NEW r \in Requests
      PROVE  RateBoundOf(r)'
  <2>1. CASE JustJudged(r)'
    BY <2>1
  <2>2. CASE ~JustJudged(r)' /\ cell[r].said # "nothing"
    <3>1. /\ cell'[r] = cell[r] /\ PassedCells(r)' = PassedCells(r)
          /\ \A q \in PassedCells(r) : cell'[q] = cell[q]
      BY <2>2, CountedStay
    <3>2. RateBoundOf(r)
      BY DEF RateBound, RateBoundOf
    <3> QED
      BY <3>1, <3>2 DEF RateBoundOf
  <2>3. CASE ~JustJudged(r)' /\ cell[r].said = "nothing"
    <3>1. ASSUME NEW o \in Requests, CheckRate(o)
          PROVE  cell'[r] = cell[r]
      <4>1. UNCHANGED <<process, now>> /\ CellTypes
            /\ cell' = [cell EXCEPT ![o] =
                 [said |-> Verdict(o), process |-> process, at |-> now]]
        BY <3>1, RateEffect DEF Verdicts
      <4>2. o # r
        BY <2>3, <4>1 DEF JustJudged, CellTypes
      <4> QED
        BY <4>1, <4>2 DEF CellTypes
    <3>2. cell'[r].said = "nothing"
      BY <2>3, <3>1, LimiterEffect
    <3> QED
      BY <3>2 DEF RateBoundOf
  <2> QED
    BY <2>1, <2>2, <2>3
<1> QED
  BY <1>1 DEF RateBound, RateBoundOf

(* A client is refused only when its burst lies within the last minute.    *)
LEMMA RefusalCounts ==
    ASSUME Verdicts, ArrivalTimes, NEW r \in Requests, CheckRate(r),
           Verdict(r) = "block"
    PROVE  Cardinality({q \in PassedCells(r) : cell[r].at - cell[q].at < Minute})' >= Burst
<1>1. PICK p : PrincipalOf(caller[r]) = p
  OBVIOUS
<1>2. /\ ~CellFree(p) /\ p \in Principals
      /\ UNCHANGED <<process, now, caller>>
  BY <1>1, RateEffect DEF Verdicts, CellTypes, Principals
<1>3. now \in Nat /\ tat \in [DOMAIN tat -> Nat]
      /\ \A q \in Cells(p) : cell[q].at \in Nat /\ cell[q].at <= now /\ q \in Requests
  BY Clocks DEF Verdicts, CellTypes, Cells
<1>4. p \in DOMAIN tat /\ tat[p] > now + Burst * Interval
  <2>1. Interval <= Burst * Interval /\ Burst * Interval \in Nat
    BY Numbers
  <2> QED
    BY <1>2, <1>3, <2>1, Numbers DEF CellFree, Tat
<1>5. PICK t \in (-Minute)..now : t = now - Minute
  BY <1>3, Numbers
<1>6. PICK n \in Nat : n = Cardinality(CellsAfter(p, t))
  <2>1. CellsAfter(p, t) \subseteq Requests
    BY <1>3 DEF CellsAfter
  <2> QED
    BY <2>1, Counted_Subsets
<1>7. tat[p] <= t + (Burst + 1 + n) * Interval \/ tat[p] <= now + (1 + n) * Interval
  BY <1>2, <1>4, <1>6 DEF ArrivalTimes, NotTooLate
<1>8. n >= Burst
  <2>1. SUFFICES ASSUME n + 1 <= Burst PROVE FALSE
    BY <1>6, Numbers
  <2>2. (1 + n) * Interval <= Burst * Interval
    BY <2>1, Numbers
  <2>3. (Burst + 1 + n) * Interval = Burst * Interval + (1 + n) * Interval
    BY Numbers
  <2>4. (1 + n) * Interval \in Int /\ Burst * Interval \in Int /\ tat[p] \in Int
    BY <1>3, <1>4, Numbers
  <2> QED
    BY <1>3, <1>4, <1>5, <1>7, <2>2, <2>3, <2>4, Numbers
<1>9. CellsAfter(p, t)
         \subseteq {q \in PassedCells(r) : cell[r].at - cell[q].at < Minute}'
  <2>1. TypeOK /\ CellTypes /\ Judged(r)
    BY DEF Verdicts
  <2>2. /\ \A q \in Requests : q # r => cell'[q] = cell[q]
        /\ cell'[r] = [said |-> Verdict(r), process |-> process, at |-> now]
        /\ r \notin Cells(p)
    BY <2>1, CellsOnCheck
  <2>3. ASSUME NEW q \in CellsAfter(p, t)
        PROVE  /\ q \in Requests /\ cell'[q] = cell[q]
               /\ cell[q].said = "pass" /\ cell[q].process = process
               /\ cell[q].at <= now /\ now - cell[q].at < Minute
               /\ Client(q)' = Client(r)'
    <3>1. q \in Cells(p) /\ cell[q].at > t
      BY DEF CellsAfter
    <3>2. q \in Requests /\ PrincipalOf(caller[q]) = PrincipalOf(caller[r])
          /\ cell[q].said = "pass" /\ cell[q].process = process
      BY <1>1, <3>1 DEF Cells
    <3>3. Client(q) = Client(r)
      BY <2>1, <3>2, OneClient
    <3>4. Client(q)' = Client(r)'
      BY <1>2, <3>3 DEF Client
    <3>5. now - cell[q].at < Minute /\ cell[q].at <= now
      BY <1>3, <1>5, <3>1, Numbers
    <3> QED
      BY <2>2, <3>1, <3>2, <3>4, <3>5
  <2> QED
    BY <1>2, <2>2, <2>3 DEF PassedCells
<1>10. {q \in PassedCells(r) : cell[r].at - cell[q].at < Minute}' \subseteq Requests
  BY DEF PassedCells
<1>11. PICK S \in SUBSET Requests :
          S = {q \in PassedCells(r) : cell[r].at - cell[q].at < Minute}'
  BY <1>10
<1>12. Cardinality(S) \in Nat /\ n <= Cardinality(S)
  BY <1>6, <1>9, <1>11, Counted_Subsets
<1> QED
  BY <1>8, <1>11, <1>12, Numbers

LEMMA RateRefused_Step ==
    ASSUME Verdicts, ArrivalTimes, [ServiceNext]_serviceVars, RateRefusedForUse
    PROVE  RateRefusedForUse'
<1> SUFFICES ASSUME NEW r \in Requests, cell'[r].said = "block"
             PROVE  Cardinality({q \in PassedCells(r) :
                                    cell[r].at - cell[q].at < Minute})' >= Burst
  BY DEF RateRefusedForUse
<1>1. CASE cell[r].said = "block"
  <2> DEFINE S == {q \in PassedCells(r) : cell[r].at - cell[q].at < Minute}
  <2>1. /\ cell'[r] = cell[r] /\ PassedCells(r) \subseteq PassedCells(r)'
        /\ \A q \in PassedCells(r) : cell'[q] = cell[q]
    BY <1>1, CountedStay
  <2>2. S \subseteq S' /\ S \subseteq Requests /\ S' \subseteq Requests
    BY <2>1 DEF PassedCells
  <2>3. Cardinality(S) >= Burst
    BY <1>1 DEF RateRefusedForUse
  <2> HIDE DEF S
  <2>4. /\ Cardinality(S) \in Nat /\ Cardinality(S') \in Nat
        /\ Cardinality(S) <= Cardinality(S')
    BY <2>2, Counted_Subsets
  <2>5. Cardinality(S') >= Burst
    BY <2>3, <2>4, Numbers
  <2> QED
    BY <2>5 DEF S
<1>2. CASE cell[r].said # "block"
  <2>1. cell' # cell
    BY <1>2
  <2>2. PICK o \in Requests : CheckRate(o)
    BY <2>1, LimiterEffect
  <2>3. /\ cell' = [cell EXCEPT ![o] =
                 [said |-> Verdict(o), process |-> process, at |-> now]]
        /\ CellTypes
    BY <2>2, RateEffect DEF Verdicts
  <2>4. o = r /\ Verdict(r) = "block"
    BY <1>2, <2>3 DEF CellTypes
  <2> QED
    BY <2>2, <2>4, RefusalCounts
<1> QED
  BY <1>1, <1>2

(* Everything the properties of the service rest on, in every state.       *)
THEOREM ServiceInvariant == ServiceSpec => []ServiceInv
<1> DEFINE Held == Verdicts /\ ArrivalTimes
           NowBound == \A r \in Requests : JustJudged(r) => RateBoundOf(r)
           Own == RateBound /\ RateRefusedForUse
<1>1. ServiceInit => Own
  <2>1. ServiceInit => \A r \in Requests : cell[r].said = "nothing"
    BY DEF ServiceInit, NoCell
  <2> QED
    BY <2>1 DEF RateBound, RateRefusedForUse
<1>2. Held => NowBound
  BY BoundOfNow
<1>3. Held /\ Held' /\ NowBound' /\ Own /\ [ServiceNext]_serviceVars => Own'
  BY RateBound_Step, RateRefused_Step
<1>4. Held /\ Own => ServiceInv
  BY DEF Verdicts, ServiceInv
<1>5. ServiceSpec => []Held
  BY VerdictsKept, ArrivalsKept, PTL
<1> HIDE DEF Held, NowBound, Own
<1> QED
  BY <1>1, <1>2, <1>3, <1>4, <1>5, PTL DEF ServiceSpec

(* A client gets a burst and then one request per interval, however its    *)
(* requests overlap (rate_limiter.rs:25-37).                               *)
THEOREM RateLimit == ServiceSpec => []RateBound
  BY ServiceInvariant, PTL DEF ServiceInv

(* A client is refused only for its own requests of the last minute.       *)
THEOREM RateRefusalsEarned == ServiceSpec => []RateRefusedForUse
  BY ServiceInvariant, PTL DEF ServiceInv
====
