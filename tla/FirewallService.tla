---- MODULE FirewallService ----
(***************************************************************************)
(* The service: the handler (ProxyHandler) with the two detectors that     *)
(* keep state between requests, the token budget (TokenBudget, as it is)   *)
(* and the rate limiter of src/src/detectors/rate_limiter.rs.  Each step   *)
(* of the handler that runs one of them is taken together with the step    *)
(* of the detector; a restart loses the state of all three at once.        *)
(*                                                                         *)
(* The limiter is the governor crate's: per principal the theoretical      *)
(* arrival time "tat" of the next cell, checked and moved in one step.     *)
(***************************************************************************)
EXTENDS ProxyHandler

CONSTANTS
    Callers,           \* who sends requests: a subset of CallerType
    Keys, Addresses,   \* client keys and peer addresses
    Estimates,         \* the token estimates bodies may have
    MaxRequestTokens,  \* token_budget.max_request_tokens
    MaxWindowTokens,   \* token_budget.max_window_tokens
    WindowSecs,        \* token_budget.window_secs, in clock ticks
    RequestsPerMinute, \* rate_limiter.requests_per_minute
    Minute,            \* a minute in clock ticks
    MaxStale, MaxTime  \* bounds on clock readings and the clock

(* The authorization header and the peer address; either may be missing.   *)
CallerType ==
    [scheme : {"none", "Basic", "Bearer"}, key : Keys, address : Addresses \cup {"none"}]

Burst == IF RequestsPerMinute > 1 THEN RequestsPerMinute ELSE 1
Interval == Minute \div Burst

ASSUME ServiceAssumption ==
    /\ Callers \subseteq CallerType
    /\ Estimates \subseteq Nat
    /\ {MaxRequestTokens, MaxWindowTokens, WindowSecs, RequestsPerMinute,
        MaxStale, MaxTime} \subseteq Nat
    /\ Minute \in Nat /\ Interval > 0
    /\ "none" \notin Keys

VARIABLES
    caller,       \* caller[r]: who sent r
    tokens,       \* tokens[r]: the estimate of the body of r
    now,          \* the clock
    usage,        \* the usage map of the token budget
    budgetPhase,  \* budgetPhase[r]: how far r is in the token budget
    clockReading, \* clockReading[r]: the clock reading r is charged by
    charge,       \* history: the window r was charged to
    tat,          \* the state of the rate limiter
    cell          \* history: what the rate limiter said of r, and when

budget == <<tokens, now, usage, budgetPhase, clockReading, charge>>
limiter == <<tat, cell>>
serviceVars == <<vars, caller, budget, limiter>>

-----------------------------------------------------------------------------
(***************************************************************************)
(* Principals: the hash of the bearer token, else the peer address.        *)
(***************************************************************************)
BearerToken(c) == IF c.scheme = "Bearer" THEN c.key ELSE "none"

ByKey(c) == [by |-> "key hash", of |-> BearerToken(c)]
ByAddress(c) ==
    IF c.address # "none" THEN [by |-> "address", of |-> c.address]
    ELSE [by |-> "nothing", of |-> "anonymous"]

(* Deviant: the address comes first.                                       *)
AddressFirst(c) ==
    IF c.address = "none" /\ BearerToken(c) # "none" THEN ByKey(c) ELSE ByAddress(c)

(* The two copies of it, token_budget.rs:36 and rate_limiter.rs:30, agree. *)
PrincipalOf(c) == IF BearerToken(c) # "none" THEN ByKey(c) ELSE ByAddress(c)

Principals == {PrincipalOf(c) : c \in Callers}

Budget == INSTANCE TokenBudget WITH
    principal <- [r \in Requests |-> PrincipalOf(caller[r])],
    phase     <- budgetPhase,
    reading   <- clockReading

NoCell == [said |-> "nothing", process |-> 0, at |-> 0]
NoTat == [p \in {} |-> 0]

ServiceInit ==
    /\ Init
    /\ caller \in [Requests -> Callers]
    /\ Budget!Init
    /\ tat = NoTat
    /\ cell = [r \in Requests |-> NoCell]

-----------------------------------------------------------------------------
(***************************************************************************)
(* The rate limiter.                                                       *)
(***************************************************************************)
Tat(p) == IF p \in DOMAIN tat THEN tat[p] ELSE now + Interval

CellFree(p) == Tat(p) <= now + Burst * Interval

(* Deviant: the next cell is counted from now, whatever was taken before.  *)
NextFromNow(p) == now + Interval

NextTat(p) == (IF Tat(p) > now THEN Tat(p) ELSE now) + Interval

At(r, d) ==
    /\ phase[r] = "inspecting"
    /\ Len(requestResults[r]) < Len(RequestChain)
    /\ NextDetector(RequestChain, requestResults[r]) = d

Verdict(r) == requestResults'[r][Len(requestResults[r]) + 1]

(* One step, although governor reads its clock before it moves the cell:   *)
(* the limiter is taken with the time of its compare-and-swap.             *)
CheckRate(r) ==
    LET p == PrincipalOf(caller[r])
    IN  /\ At(r, "rate_limiter")
        /\ InspectRequest(r)
        /\ \/ /\ Verdict(r) = "pass" /\ CellFree(p)
              /\ tat' = [q \in DOMAIN tat \cup {p} |-> IF q = p THEN NextTat(p) ELSE tat[q]]
              /\ cell' = [cell EXCEPT ![r] = [said |-> "pass", process |-> process, at |-> now]]
           \/ /\ Verdict(r) = "block" /\ ~CellFree(p)
              /\ cell' = [cell EXCEPT ![r] = [said |-> "block", process |-> process, at |-> now]]
              /\ UNCHANGED tat
        /\ UNCHANGED <<caller, budget>>

(***************************************************************************)
(* The token budget.                                                       *)
(***************************************************************************)
ReadBudgetClock(r) ==
    /\ At(r, "token_budget")
    /\ UNCHANGED <<vars, caller, limiter>>
    /\ Budget!ReadClock(r)

CheckBudget(r) ==
    /\ At(r, "token_budget")
    /\ InspectRequest(r)
    /\ UNCHANGED <<caller, limiter>>
    /\ \/ Verdict(r) = "pass" /\ Budget!Charge(r)
       \/ Verdict(r) = "block" /\ (Budget!RejectOversize(r) \/ Budget!RejectExhausted(r))

(***************************************************************************)
(* The other steps of the handler leave both alone, whatever fails in them.*)
(***************************************************************************)
(* Deviant: a charged request that fails gets its tokens back.             *)
RefundOnFailure(r) ==
    LET p == PrincipalOf(caller[r])
    IN  IF /\ phase[r] # "counting" /\ phase'[r] = "counting"
           /\ ending'[r].counter # "requests_allowed"
           /\ budgetPhase[r] = "passed"
        THEN usage' = [usage EXCEPT ![p].tokens = @ - tokens[r]]
        ELSE UNCHANGED usage

KeepUsage(r) == UNCHANGED usage

HandleRest(r) ==
    /\ \/ FromUpstream(r)
       \/ StartRequest(r) \/ ReadChunk(r) \/ PayloadError(r) \/ Disconnect(r)
       \/ EndOfBody(r) /\ (body[r] = 0 => tokens[r] = 0)
       \/ RejectInvalid(r) \/ StartInspection(r)
       \/ InspectRequest(r) /\ ~At(r, "rate_limiter") /\ ~At(r, "token_budget")
       \/ RequestCleared(r) \/ MissingKey(r) \/ Send(r)
       \/ InspectResponse(r) \/ ResponseCleared(r)
       \/ Count(r) \/ Audit(r) \/ Answer(r)
    /\ KeepUsage(r)
    /\ UNCHANGED <<caller, tokens, now, budgetPhase, clockReading, charge, limiter>>

Tick == UNCHANGED <<vars, caller, limiter>> /\ Budget!Tick

RestartService ==
    /\ Restart
    /\ UNCHANGED <<caller, cell>>
    /\ Budget!Restart
    /\ tat' = NoTat

RestService == Rest /\ now = MaxTime /\ UNCHANGED serviceVars

ServiceNext ==
    \/ \E r \in Requests : CheckRate(r) \/ ReadBudgetClock(r) \/ CheckBudget(r) \/ HandleRest(r)
    \/ Tick
    \/ RestartService
    \/ RestService

ServiceSpec == ServiceInit /\ [][ServiceNext]_serviceVars

-----------------------------------------------------------------------------
(***************************************************************************)
(* Properties.  A client is told by its bearer token where it has one,     *)
(* whatever its address.                                                   *)
(***************************************************************************)
Client(r) ==
    IF caller[r].scheme = "Bearer" THEN <<caller[r].key>>
    ELSE <<"no key", caller[r].address>>

(* Every behaviour of the service is one of the token budget alone: no     *)
(* order of handler steps, failures and restarts gets at its entries.      *)
BudgetKept == Budget!Spec

(* What the upstream is given of a client within one window of its budget  *)
(* stays within max_window_tokens, and nothing is sent uncharged.          *)
ForwardedWithinBudget ==
    \A r \in Requests :
        (sent[r].calls > 0 /\ "token_budget" \in Enabled) =>
            /\ budgetPhase[r] = "passed"
            /\ Budget!Spent({q \in Requests :
                   /\ sent[q].calls > 0 /\ Client(q) = Client(r)
                   /\ charge[q].process = charge[r].process
                   /\ charge[q].start = charge[r].start}) <= MaxWindowTokens

(* A request the rate limiter refuses costs its client no tokens           *)
(* (engine.rs:22-28: the limiter comes first).                             *)
RateRefusalsAreFree ==
    \A r \in Requests : cell[r].said = "block" => budgetPhase[r] = "waiting"

(* Tokens stay spent whatever becomes of the request: a balance is the sum *)
(* over all requests the budget let through, those that were blocked,      *)
(* failed or dropped later included (token_budget.rs:86).                  *)
FailuresStayCharged ==
    \A p \in DOMAIN usage :
        usage[p].tokens = Budget!Spent({r \in Requests :
            /\ PrincipalOf(caller[r]) = p
            /\ \E i \in DOMAIN requestResults[r] :
                  RequestChain[i] = "token_budget" /\ requestResults[r][i] = "pass"
            /\ charge[r].process = process /\ charge[r].start = usage[p].start})

PassedCells(r) ==
    {q \in Requests : /\ cell[q].said = "pass" /\ Client(q) = Client(r)
                      /\ cell[q].process = cell[r].process /\ cell[q].at <= cell[r].at}

(* Counted from its first request, a client gets a burst and then one      *)
(* request per interval, however its requests overlap.                     *)
RateBound ==
    \A r \in Requests : \A q \in PassedCells(r) :
        (cell[r].said = "pass" /\ \A o \in PassedCells(r) : cell[q].at <= cell[o].at)
            => Cardinality(PassedCells(r)) <= Burst + (cell[r].at - cell[q].at) \div Interval

(* A client is refused only for its own requests: it had its whole burst   *)
(* within the last minute.                                                 *)
RateRefusedForUse ==
    \A r \in Requests :
        cell[r].said = "block" =>
            Cardinality({q \in PassedCells(r) : cell[r].at - cell[q].at < Minute}) >= Burst

(***************************************************************************)
(* The inductive invariant behind these, with those of the handler and of  *)
(* the token budget alone.  The results of a request and the state the two *)
(* detectors keep of it agree; the limiter's arrival time of a principal   *)
(* grows by an interval for each of its requests, and is no later than its *)
(* requests after any moment account for.                                  *)
(***************************************************************************)
BudgetPlace == IF "rate_limiter" \in Enabled THEN 2 ELSE 1

Judged(r) ==
    LET results == requestResults[r]
    IN  /\ "token_budget" \notin Enabled => budgetPhase[r] = "waiting"
        /\ Len(results) + 1 < BudgetPlace => budgetPhase[r] = "waiting"
        /\ Len(results) < BudgetPlace => budgetPhase[r] \in {"waiting", "timed", "dropped"}
        /\ ("token_budget" \in Enabled /\ Len(results) >= BudgetPlace) =>
              \/ results[BudgetPlace] = "pass" /\ budgetPhase[r] = "passed"
              \/ results[BudgetPlace] = "block" /\ budgetPhase[r] = "rejected"
        /\ cell[r].said # "nothing" =>
              /\ "rate_limiter" \in Enabled
              /\ Len(results) >= 1 /\ results[1] = cell[r].said
        /\ cell[r].said = "block" => budgetPhase[r] = "waiting"

CellTypes ==
    /\ caller \in [Requests -> Callers]
    /\ cell \in [Requests -> [said : {"nothing", "pass", "block"}, process : Nat, at : Nat]]
    /\ tat \in [DOMAIN tat -> Nat]
    /\ \A r \in Requests : cell[r].process <= process /\ cell[r].at <= now

Cells(p) ==
    {q \in Requests : /\ cell[q].said = "pass" /\ PrincipalOf(caller[q]) = p
                      /\ cell[q].process = process}
CellsAfter(p, t) == {q \in Cells(p) : cell[q].at > t}

NotTooSoon(p) ==
    \A t \in 0..now :
        (\A q \in Cells(p) : t <= cell[q].at)
            => t + (Cardinality(Cells(p)) + 1) * Interval <= tat[p]

NotTooLate(p) ==
    \A t \in (-Minute)..now :
        LET n == Cardinality(CellsAfter(p, t))
        IN  \/ tat[p] <= t + (Burst + 1 + n) * Interval
            \/ tat[p] <= now + (1 + n) * Interval

(* A principal has an arrival time once it had a cell of this process.     *)
ArrivalTimes ==
    \A p \in Principals :
        /\ p \in DOMAIN tat <=> Cells(p) # {}
        /\ p \in DOMAIN tat => NotTooSoon(p) /\ NotTooLate(p)

ServiceInv ==
    /\ \A r \in Requests : Judged(r)
    /\ CellTypes
    /\ ArrivalTimes
    /\ RateBound
    /\ RateRefusedForUse
====
