---- MODULE MCProxyHandler ----
(***************************************************************************)
(* ProxyHandler for TLC.  One request with every kind of input and every   *)
(* detector for the paths through the handler, two requests with the       *)
(* inputs that get far for what they share: counters, process, upstream.   *)
(***************************************************************************)
EXTENDS ProxyHandler

AllInputs == InputType

CleanPost(p) == [path |-> p, method |-> "POST", contentType |-> "json",
                 content |-> "wellformed"]

FarInputs == {CleanPost("/v1/chat/completions"), CleanPost("/v1/other")}

ServedPaths == {"/v1/chat/completions", "/v1/responses", "/v1/models"}
====
