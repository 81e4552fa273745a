---- MODULE MCMetricsScrape ----
(***************************************************************************)
(* MetricsScrape with two requests that end in different counters and two  *)
(* pages.                                                                  *)
(***************************************************************************)
EXTENDS MetricsScrape, TLC

ShortInputs ==
    {[path |-> "/v1/chat/completions", method |-> "GET", contentType |-> "json",
      content |-> "wellformed"]}

SymmetricRequests == Permutations(Requests)
====
