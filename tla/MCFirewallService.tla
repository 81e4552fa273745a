---- MODULE MCFirewallService ----
(***************************************************************************)
(* FirewallService on two requests of callers that share a key, an         *)
(* address, or nothing; one request a minute, windows of one tick.         *)
(***************************************************************************)
EXTENDS FirewallService, TLC

PlainInput ==
    {[path |-> "/v1/other", method |-> "POST", contentType |-> "json", content |-> "wellformed"]}

From(scheme, key, address) == [scheme |-> scheme, key |-> key, address |-> address]

SomeCallers ==
    {From("Bearer", "k1", "a1"), From("Bearer", "k1", "a2"), From("Basic", "k1", "a1")}

SymmetricRequests == Permutations(Requests)
====
