---- MODULE FirewallContract ----
(***************************************************************************)
(* What the firewall promises between a client and the upstream, whatever  *)
(* its detectors are: the upstream sees a request at most once and only    *)
(* after inspection, the client gets the upstream's response only after    *)
(* inspection and otherwise a refusal, and a request that was passed on is *)
(* eventually settled.  One call of the HTTP client is one request to the  *)
(* upstream here, also where the client follows the upstream's redirects.  *)
(* ProxyHandler is shown to implement this.                                *)
(***************************************************************************)
CONSTANTS Requests

VARIABLES
    stage, \* stage[r]: new, open, sent (passed on to the upstream), closed
    seen,  \* seen[r]: what the upstream was given of r
    got    \* got[r]: what the client was given for r

contractVars == <<stage, seen, got>>

ContractInit ==
    /\ stage = [r \in Requests |-> "new"]
    /\ seen = [r \in Requests |-> "nothing"]
    /\ got = [r \in Requests |-> "nothing"]

Move(r, from, to) ==
    /\ stage[r] = from
    /\ stage' = [stage EXCEPT ![r] = to]

Accept(r) ==
    /\ Move(r, "new", "open")
    /\ UNCHANGED <<seen, got>>

PassOn(r) ==
    /\ Move(r, "open", "sent")
    /\ seen' = [seen EXCEPT ![r] = "inspected request"]
    /\ UNCHANGED got

Release(r) ==
    /\ Move(r, "sent", "closed")
    /\ got' = [got EXCEPT ![r] = "inspected response"]
    /\ UNCHANGED seen

Refuse(r) ==
    /\ Move(r, "open", "closed") \/ Move(r, "sent", "closed")
    /\ got' = [got EXCEPT ![r] = "refusal"]
    /\ UNCHANGED seen

(* Clients go away, and the process may die with all it is working on.     *)
Lose ==
    \E lost \in SUBSET {r \in Requests : stage[r] \in {"open", "sent"}} :
        /\ stage' = [r \in Requests |-> IF r \in lost THEN "closed" ELSE stage[r]]
        /\ UNCHANGED <<seen, got>>

ContractNext ==
    \/ \E r \in Requests : Accept(r) \/ PassOn(r) \/ Release(r) \/ Refuse(r)
    \/ Lose

(* A request the upstream was given does not stay unsettled.               *)
Settles == \A r \in Requests : stage[r] = "sent" ~> stage[r] = "closed"

ContractSafety == ContractInit /\ [][ContractNext]_contractVars
ContractSpec == ContractSafety /\ Settles
====
