---- MODULE WindowQuota ----
(***************************************************************************)
(* What the token budget promises, without clocks, locks or windows: every *)
(* request that asks gets one verdict, taken in one indivisible step       *)
(* against a quota of its own principal.  A verdict may first empty the    *)
(* quota (a new window was opened); a request passes exactly when it is    *)
(* small enough and still fits.  TokenBudget is shown to implement this.   *)
(***************************************************************************)
EXTENDS Naturals

CONSTANTS
    Requests,         \* the requests that ask for a verdict
    Principals,       \* who they are charged to
    Estimates,        \* the sizes a request may have
    MaxRequestTokens, \* the most one request may use
    MaxWindowTokens   \* the most one quota holds

VARIABLES
    principal, \* principal[r]: who request r is charged to
    tokens,    \* tokens[r]: the size of r
    spent,     \* spent[p]: what p has used of the quota it has now
    verdict    \* verdict[r]: what r was told

quotaVars == <<principal, tokens, spent, verdict>>

QuotaTypeOK ==
    /\ principal \in [Requests -> Principals]
    /\ tokens \in [Requests -> Estimates]
    /\ spent \in [Principals -> 0..MaxWindowTokens]
    /\ verdict \in [Requests -> {"pending", "passed", "rejected", "dropped"}]

QuotaInit ==
    /\ principal \in [Requests -> Principals]
    /\ tokens \in [Requests -> Estimates]
    /\ spent = [p \in Principals |-> 0]
    /\ verdict = [r \in Requests |-> "pending"]

Verdict(r, v) ==
    /\ verdict[r] = "pending"
    /\ verdict' = [verdict EXCEPT ![r] = v]
    /\ UNCHANGED <<principal, tokens>>

(* The balance a verdict starts from: the current one or an empty quota.   *)
Balances(r) == {spent[principal[r]], 0}

Admit(r) ==
    /\ tokens[r] <= MaxRequestTokens
    /\ \E b \in Balances(r) :
          /\ b + tokens[r] <= MaxWindowTokens
          /\ spent' = [spent EXCEPT ![principal[r]] = b + tokens[r]]
    /\ Verdict(r, "passed")

TurnAwayOversize(r) ==
    /\ tokens[r] > MaxRequestTokens
    /\ Verdict(r, "rejected")
    /\ UNCHANGED spent

TurnAwayExhausted(r) ==
    /\ tokens[r] <= MaxRequestTokens
    /\ \E b \in Balances(r) :
          /\ b + tokens[r] > MaxWindowTokens
          /\ spent' = [spent EXCEPT ![principal[r]] = b]
    /\ Verdict(r, "rejected")

(* All quotas are forgotten, and some undecided requests with them.        *)
Forget ==
    \E lost \in SUBSET {r \in Requests : verdict[r] = "pending"} :
        /\ spent' = [p \in Principals |-> 0]
        /\ verdict' = [r \in Requests |->
                          IF r \in lost THEN "dropped" ELSE verdict[r]]
        /\ UNCHANGED <<principal, tokens>>

QuotaNext ==
    \/ \E r \in Requests : Admit(r) \/ TurnAwayOversize(r) \/ TurnAwayExhausted(r)
    \/ Forget

QuotaSpec == QuotaInit /\ [][QuotaNext]_quotaVars
====
