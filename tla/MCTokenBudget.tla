---- MODULE MCTokenBudget ----
(***************************************************************************)
(* TokenBudget on a few requests.  Requests and principals are             *)
(* interchangeable, so their permutations are symmetries.                  *)
(* MCTokenBudget.cfg: three requests, two principals, a restart.           *)
(* MCTokenBudgetBurst.cfg: four requests of one principal whose clock      *)
(* readings may be two ticks old, the smallest instance in which three     *)
(* windows meet within window_secs of real time.                           *)
(***************************************************************************)
EXTENDS TokenBudget, TLC

SymmetricIds == Permutations(Requests) \cup Permutations(Principals)
====
