---- MODULE TokenBudget ----
(***************************************************************************)
(* The token budget of src/src/detectors/token_budget.rs, shared by every  *)
(* request the service handles at the same time.                           *)
(*                                                                         *)
(* inspect_request has no await, yet the HTTP workers run it in parallel.  *)
(* What it does is atomic only between taking the usage entry of the       *)
(* principal and returning; the clock is read before that, so another      *)
(* request may come in between and a reading may be old when it is used.   *)
(*                                                                         *)
(* The body of a request is abstracted to the token estimate the counter   *)
(* makes of it; the principal (key hash, peer address or "anonymous") to a *)
(* value.  "charge" is history: no action reads it.                        *)
(***************************************************************************)
EXTENDS Integers, FiniteSets

CONSTANTS
    Requests,         \* the requests that reach the detector
    Principals,       \* the principals they are charged to
    Estimates,        \* the token estimates their bodies may have
    MaxRequestTokens, \* token_budget.max_request_tokens
    MaxWindowTokens,  \* token_budget.max_window_tokens
    WindowSecs,       \* token_budget.window_secs, in clock ticks
    MaxStale,         \* bound: the age at which a clock reading must be used
    MaxTime,          \* bound on the clock
    MaxRestarts       \* bound on restarts of the process

ASSUME BudgetAssumption ==
    /\ IsFiniteSet(Requests)
    /\ Estimates \subseteq Nat
    /\ MaxRequestTokens \in Nat
    /\ MaxWindowTokens \in Nat
    /\ WindowSecs \in Nat
    /\ MaxStale \in Nat
    /\ MaxTime \in Nat
    /\ MaxRestarts \in Nat

VARIABLES
    now,       \* the monotonic clock behind Instant::now()
    process,   \* how many processes ran before this one
    usage,     \* the usage map: its domain is the principals with an entry
    principal, \* principal[r]: who r is charged to
    tokens,    \* tokens[r]: the estimate of the body of r
    phase,     \* phase[r]: how far r has come in inspect_request
    reading,   \* reading[r]: the local variable "now" of r
    charge     \* history: process, window and time a passed r was charged in

vars == <<now, process, usage, principal, tokens, phase, reading, charge>>
inputs == <<principal, tokens>>

Phases == {"waiting", "timed", "passed", "rejected", "dropped"}
UsageWindow == [start : Nat, tokens : Nat]
NoUsage == [p \in {} |-> [start |-> 0, tokens |-> 0]]

Init ==
    /\ now = 0
    /\ process = 0
    /\ usage = NoUsage
    /\ principal \in [Requests -> Principals]
    /\ tokens \in [Requests -> Estimates]
    /\ phase = [r \in Requests |-> "waiting"]
    /\ reading = [r \in Requests |-> 0]
    /\ charge = [r \in Requests |-> [process |-> 0, start |-> 0, at |-> 0]]

(***************************************************************************)
(* The entry a request works on once it holds the lock: the one found, a   *)
(* new one, or the one found with its window opened again.  duration_since *)
(* saturates, so a reading older than the window's start is zero seconds   *)
(* into it.                                                                *)
(***************************************************************************)
Elapsed(later, earlier) == IF later >= earlier THEN later - earlier ELSE 0

(* Deviants: a window that ends a tick early, and one that never ends.      *)
ExpiredEarly(r) == Elapsed(reading[r], usage[principal[r]].start) >= WindowSecs
NeverExpired(r) == FALSE

Expired(r) == Elapsed(reading[r], usage[principal[r]].start) > WindowSecs

(* Deviant: the start of the window is reset, its tokens are not.          *)
FreshStartOnly(r) ==
    [start |-> reading[r],
     tokens |-> IF principal[r] \in DOMAIN usage
                THEN usage[principal[r]].tokens ELSE 0]

FreshWindow(r) == [start |-> reading[r], tokens |-> 0]

Window(r) ==
    IF principal[r] \notin DOMAIN usage \/ Expired(r)
    THEN FreshWindow(r)
    ELSE usage[principal[r]]

(* Deviant: passes whenever the window is not used up, before adding.      *)
FitsIfAnythingLeft(r) == Window(r).tokens < MaxWindowTokens

Fits(r) == Window(r).tokens + tokens[r] <= MaxWindowTokens

(* Deviant: works on a copy of an entry it found and loses the change.     *)
StoreIfAbsent(r, entry) ==
    usage' = [p \in DOMAIN usage \cup {principal[r]} |->
                 IF p \in DOMAIN usage THEN usage[p] ELSE entry]

Store(r, entry) ==
    usage' = [p \in DOMAIN usage \cup {principal[r]} |->
                 IF p = principal[r] THEN entry ELSE usage[p]]

(***************************************************************************)
(* The steps of inspect_request.                                           *)
(***************************************************************************)
RejectOversize(r) ==
    /\ phase[r] = "waiting"
    /\ tokens[r] > MaxRequestTokens
    /\ phase' = [phase EXCEPT ![r] = "rejected"]
    /\ UNCHANGED <<now, process, usage, inputs, reading, charge>>

ReadClock(r) ==
    /\ phase[r] = "waiting"
    /\ tokens[r] <= MaxRequestTokens
    /\ reading' = [reading EXCEPT ![r] = now]
    /\ phase' = [phase EXCEPT ![r] = "timed"]
    /\ UNCHANGED <<now, process, usage, inputs, charge>>

Charge(r) ==
    /\ phase[r] = "timed"
    /\ Fits(r)
    /\ Store(r, [start |-> Window(r).start,
                 tokens |-> Window(r).tokens + tokens[r]])
    /\ phase' = [phase EXCEPT ![r] = "passed"]
    /\ charge' = [charge EXCEPT ![r] =
                     [process |-> process, start |-> Window(r).start, at |-> now]]
    /\ UNCHANGED <<now, process, inputs, reading>>

(* Deviant: closes an exhausted window by moving its start into the past,  *)
(* where the clock may not have been running yet.                          *)
RejectAndBackdate(r) ==
    /\ phase[r] = "timed"
    /\ ~Fits(r)
    /\ Store(r, [start |-> Window(r).start - WindowSecs, tokens |-> Window(r).tokens])
    /\ phase' = [phase EXCEPT ![r] = "rejected"]
    /\ UNCHANGED <<now, process, inputs, reading, charge>>

(* A refused request charges nothing, yet the window it opened stays open. *)
RejectExhausted(r) ==
    /\ phase[r] = "timed"
    /\ ~Fits(r)
    /\ Store(r, Window(r))
    /\ phase' = [phase EXCEPT ![r] = "rejected"]
    /\ UNCHANGED <<now, process, inputs, reading, charge>>

(***************************************************************************)
(* The environment: time passes, and the service manager restarts a dead   *)
(* process, which has lost the map and the requests it was working on.     *)
(***************************************************************************)
Tick ==
    /\ now < MaxTime
    /\ \A r \in Requests : phase[r] = "timed" => now - reading[r] < MaxStale
    /\ now' = now + 1
    /\ UNCHANGED <<process, usage, inputs, phase, reading, charge>>

Restart ==
    /\ process < MaxRestarts
    /\ process' = process + 1
    /\ usage' = NoUsage
    /\ phase' = [r \in Requests |->
                    IF phase[r] = "timed" THEN "dropped" ELSE phase[r]]
    /\ UNCHANGED <<now, inputs, reading, charge>>

(* Within the bounds nothing is left to do.                                *)
Rest ==
    /\ now = MaxTime
    /\ process = MaxRestarts
    /\ \A r \in Requests : phase[r] \notin {"waiting", "timed"}
    /\ UNCHANGED vars

Inspect(r) == RejectOversize(r) \/ ReadClock(r) \/ Charge(r) \/ RejectExhausted(r)

Next ==
    \/ \E r \in Requests : Inspect(r)
    \/ Tick
    \/ Restart
    \/ Rest

Spec == Init /\ [][Next]_vars

-----------------------------------------------------------------------------
(***************************************************************************)
(* Properties.                                                             *)
(***************************************************************************)
(* The variables have the types the code gives them.                       *)
TypeOK ==
    /\ now \in 0..MaxTime
    /\ process \in 0..MaxRestarts
    /\ DOMAIN usage \subseteq Principals
    /\ usage \in [DOMAIN usage -> UsageWindow]
    /\ principal \in [Requests -> Principals]
    /\ tokens \in [Requests -> Estimates]
    /\ phase \in [Requests -> Phases]
    /\ reading \in [Requests -> 0..MaxTime]
    /\ charge \in [Requests -> [process : Nat, start : Nat, at : Nat]]

(* The tokens charged for the requests in S, each token told apart: their  *)
(* number is the sum of the estimates.                                     *)
ChargedTokens(S) ==
    {unit \in S \X (1..MaxRequestTokens) : unit[2] <= tokens[unit[1]]}
Spent(S) == Cardinality(ChargedTokens(S))

Passed(p, g) ==
    {r \in Requests : /\ phase[r] = "passed"
                      /\ principal[r] = p
                      /\ charge[r].process = g}

PassedIn(p, g, s) == {r \in Passed(p, g) : charge[r].start = s}

(* However the requests of a principal interleave, no window it ever had   *)
(* admitted more than max_window_tokens: the check and the charge are one  *)
(* step, and no charge made under an entry is lost to another request.     *)
WindowWithinLimit ==
    \A r \in Requests :
        phase[r] = "passed" =>
            Spent(PassedIn(principal[r], charge[r].process, charge[r].start))
                <= MaxWindowTokens

(* The balance of an entry is exactly what was admitted since its window   *)
(* was opened: nothing from an earlier window is carried over.             *)
BalanceIsWindowSum ==
    \A p \in DOMAIN usage :
        usage[p].tokens = Spent(PassedIn(p, process, usage[p].start))

(* Two windows of a principal start more than window_secs apart, although  *)
(* windows are opened at clock readings that may be old by then.           *)
WindowsApart ==
    \A r1, r2 \in Requests :
        (/\ phase[r1] = "passed" /\ phase[r2] = "passed"
         /\ principal[r1] = principal[r2]
         /\ charge[r1].process = charge[r2].process
         /\ charge[r1].start < charge[r2].start)
            => charge[r2].start - charge[r1].start > WindowSecs

(***************************************************************************)
(* The inductive invariant behind these three: clocks and charges lie in   *)
(* the past, an admitted request is within the request limit, and the      *)
(* windows of this process' charges end with the entry in the map.         *)
(***************************************************************************)
ClocksInPast ==
    /\ \A r \in Requests : reading[r] <= now
    /\ \A p \in DOMAIN usage : usage[p].start <= now

RequestWithinLimit ==
    \A r \in Requests :
        phase[r] \in {"timed", "passed"} => tokens[r] <= MaxRequestTokens

BalanceWithinLimit ==
    \A p \in DOMAIN usage : usage[p].tokens <= MaxWindowTokens

ChargesPrecedeEntry ==
    \A r \in Requests :
        phase[r] = "passed" =>
            /\ charge[r].process <= process
            /\ charge[r].process = process =>
                  /\ principal[r] \in DOMAIN usage
                  /\ \/ charge[r].start = usage[principal[r]].start
                     \/ charge[r].start + WindowSecs < usage[principal[r]].start

(* What the limit rests on, true in every reachable state: the entry of a  *)
(* principal carries its last window, and that window's balance and limit. *)
BudgetInv ==
    /\ ClocksInPast
    /\ RequestWithinLimit
    /\ BalanceWithinLimit
    /\ ChargesPrecedeEntry
    /\ BalanceIsWindowSum
    /\ WindowWithinLimit
    /\ WindowsApart

(* When a charge is made against its window: not before the window starts, *)
(* and not after it has ended by more than the age of the reading.         *)
ChargeTimes ==
    /\ \A r \in Requests : phase[r] = "timed" => now - reading[r] <= MaxStale
    /\ \A r \in Requests : phase[r] = "passed" =>
          /\ charge[r].start <= charge[r].at
          /\ charge[r].at <= charge[r].start + WindowSecs + MaxStale
          /\ charge[r].at <= now

(* How many windows can admit requests within any window_secs of real      *)
(* time: two when readings are used at once, more as they get older.       *)
WindowsInSight == (2 * WindowSecs + MaxStale) \div (WindowSecs + 1) + 1

(* The rate really enforced: within any window_secs of real time one       *)
(* process admits at most WindowsInSight times max_window_tokens for a     *)
(* principal (a fixed window, not a sliding one).                          *)
ThroughputBound ==
    \A p \in Principals, g \in 0..process, t \in 0..now :
        Spent({r \in Passed(p, g) : charge[r].at \in t..(t + WindowSecs)})
            <= WindowsInSight * MaxWindowTokens

(* A request is refused for the window only because of tokens admitted in  *)
(* the last window_secs (plus the age its reading may have): older charges *)
(* never count against a principal.                                        *)
RefusedForRecentUse ==
    [][\A r \in Requests :
          (phase[r] = "timed" /\ phase'[r] = "rejected")
              => Spent({q \in Passed(principal[r], process) :
                          now - charge[q].at <= WindowSecs + MaxStale})
                   + tokens[r] > MaxWindowTokens]_vars

(* The detector implements the quota: whatever the interleaving, each      *)
(* request gets its verdict in one step against its principal's balance.   *)
Quota == INSTANCE WindowQuota WITH
    spent <- [p \in Principals |->
                 IF p \in DOMAIN usage THEN usage[p].tokens ELSE 0],
    verdict <- [r \in Requests |->
                   IF phase[r] \in {"waiting", "timed"} THEN "pending" ELSE phase[r]]

ImplementsQuota == Quota!QuotaSpec
====
